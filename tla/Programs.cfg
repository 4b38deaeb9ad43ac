SPECIFICATION ProgramsSpec
CONSTANTS
    BufSize = 2
    PipeBytes = 3
    MaxTyped = 3
    MaxHeard = 1
    MaxRuns = 3
    b1 = b1
    b2 = b2
    Browsers <- MCBrowsers
    IntHalf = 64
    SizeHalf = 64
    Sides <- MCSides
    ScreenSides <- MCScreenSides
INVARIANTS
    LinesKept
    CountKept
    WaitsOnlyAfterKill
    SetOutlivesUse
    ChildKeepsBehind
    AnswersOwnClient
    StaysInBuffers
    PictureIsUpright
    NoDoubleFree
PROPERTIES
    LineLeavesPipe
    ThreadEnds
    SampleEnds
    PatientClientsServed
CHECK_DEADLOCK FALSE
