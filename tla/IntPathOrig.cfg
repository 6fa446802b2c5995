SPECIFICATION Spec
CONSTANTS
    Words = 65536
    Bytes = 256
    Wrap = 64
    Cut = 32
    N = 3
    SourceSets <- OneSource
    Packets <- MCPackets
INVARIANTS
    OrigIsSource
CHECK_DEADLOCK FALSE
