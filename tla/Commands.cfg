SPECIFICATION Spec
CONSTANTS
    p1 = p1
    p2 = p2
    r = r
    u = u
    Pid = {p1, p2}
    Token = {r, u}
    Blank = Blank
    MaxClient = 2
    ChatRoom = 2
    PipeCap = 1
    ReadMax = 1
    MaxParts = 1
    Inputs <- RoomInputs
    Daemonized = TRUE
    MaxLines = 3
    MaxConns = 2
SYMMETRY Processes
INVARIANTS
    TypeOK
PROPERTIES
    PromiseKept
CHECK_DEADLOCK FALSE
