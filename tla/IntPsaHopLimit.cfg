SPECIFICATION Spec
CONSTANTS
    Parameters <- TwoDigits
    SourceTable <- EmptyTable
    SinkTable <- EmptyTable
    HostPackets <- FarHost
    Undefined = {0}
    MaxPackets = 1
    SeqNumbers = 2
INVARIANTS
    HopLimit
CHECK_DEADLOCK FALSE
