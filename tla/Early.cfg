SPECIFICATION EarlySpec
CONSTANTS
    p1 = p1
    p2 = p2
    r = r
    u = u
    Pid = {p1, p2}
    Token = {r, u}
    Blank = Blank
    MaxClient = 2
    ChatRoom = 1
    PipeCap = 2
    ReadMax = 1
    MaxParts = 2
    Inputs <- EarlyInputs
    Daemonized = FALSE
    MaxLines = 3
    MaxConns = 2
SYMMETRY Processes
INVARIANTS
    KillFindsChild
PROPERTIES
    RoomsApart
CHECK_DEADLOCK FALSE
