SPECIFICATION Spec
CONSTANTS
    Words = 65536
    Bytes = 256
    Wrap = 64
    Cut = 32
    N = 4
    SourceSets <- MCSourceSets
    Packets <- MCPackets
INVARIANTS
    TypeOK
    LengthsAgree
    ChecksumStaysValid
    StackIsPath
    ReportsThePath
CHECK_DEADLOCK FALSE
