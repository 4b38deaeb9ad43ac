SPECIFICATION Spec
CONSTANTS
    c1 = c1
    c2 = c2
    m1 = m1
    Camera = {c1, c2}
    Microphone = {m1}
    MaxFd = 2
    BodyParts = 2
    SockCap = 1
    MaxFrames = 2
SYMMETRY Cameras
INVARIANTS
    TypeOK
    SocketsWatched
    ReportedIsReady
    FramingKept
    AckIsSafe
PROPERTIES
    PromiseKept
CHECK_DEADLOCK FALSE
