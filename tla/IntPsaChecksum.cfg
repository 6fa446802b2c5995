SPECIFICATION Spec
CONSTANTS
    Parameters <- MCDefaults
    SourceTable <- EmptyTable
    SinkTable <- EmptyTable
    HostPackets <- OneHost
    Undefined = {0}
    MaxPackets = 1
    SeqNumbers = 2
INVARIANTS
    ChecksumValid
CHECK_DEADLOCK FALSE
