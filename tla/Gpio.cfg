SPECIFICATION FairSpec
CONSTANTS
    a = a
    b = b
    Proc = {a, b}
    NoProc = NoProc
    Gone = Gone
INVARIANTS
    TypeOK
    DeletedStaysDeleted
    UnloadedIsQuiet
    MsgFits
PROPERTIES
    NoTickInPress
    BlinkGoesOn
CHECK_DEADLOCK FALSE
