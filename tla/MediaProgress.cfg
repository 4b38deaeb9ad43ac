SPECIFICATION FairSpec
CONSTANTS
    c1 = c1
    c2 = c2
    m1 = m1
    Camera = {c1}
    Microphone = {m1}
    MaxFd = 2
    BodyParts = 2
    SockCap = 2
    MaxFrames = 2

PROPERTIES
    AnswerComes
CHECK_DEADLOCK FALSE
