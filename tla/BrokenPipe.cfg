SPECIFICATION Spec
CONSTANTS
    p1 = p1
    p2 = p2
    r = r
    u = u
    Pid = {p1, p2}
    Token = {r, u}
    Blank = Blank
    MaxClient = 2
    ChatRoom = 1
    PipeCap = 1
    ReadMax = 1
    MaxParts = 1
    Inputs <- TalkInputs
    Daemonized = FALSE
    MaxLines = 4
    MaxConns = 2
SYMMETRY Processes
INVARIANTS
    WriteErrorSurvived
CHECK_DEADLOCK FALSE
