SPECIFICATION FairSpec
CONSTANTS
    Options <- MCLoopOptions
    Frames <- MCFrames
    Wrap = 8
    Cut = 4
    MAX_NODES = 3
    SocketRoom = 2
    MaxFrames = 4
    MaxFailures = 1
    NoFrame = NoFrame
INVARIANTS
    TypeOK
    GapsAddUp
    JittersAddUp
    DelaysAddUp
    SampledOffered
PROPERTIES
    StopsWithNextFrame
CHECK_DEADLOCK FALSE
