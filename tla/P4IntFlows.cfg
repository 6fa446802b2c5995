SPECIFICATION Spec
CONSTANTS
    Options <- MCFlowsOptions
    Frames <- MCFrames
    Wrap = 8
    Cut = 4
    MAX_NODES = 3
    SocketRoom = 1
    MaxFrames = 3
    MaxFailures = 0
    NoFrame = NoFrame
INVARIANTS
    JitterOfItsFlow
CHECK_DEADLOCK FALSE
