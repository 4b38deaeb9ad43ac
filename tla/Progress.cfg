SPECIFICATION FairSpec
CONSTANTS
    p1 = p1
    p2 = p2
    r = r
    u = u
    Pid = {p1, p2}
    Token = {r, u}
    Blank = Blank
    MaxClient = 2
    ChatRoom = 1
    PipeCap = 2
    ReadMax = 1
    MaxParts = 1
    Inputs <- AskInputs
    Daemonized = FALSE
    MaxLines = 2
    MaxConns = 2
PROPERTIES
    NamesStay
    MessagesReachChild
    LoopComesRound
    ShutdownCompletes
CHECK_DEADLOCK FALSE
