SPECIFICATION Spec
CONSTANTS
    Parameters <- MCParameters
    SourceTable <- MCSourceTable
    SinkTable <- MCSinkTable
    HostPackets <- MCHostPackets
    Undefined = {0, 32}
    MaxPackets = 3
    SeqNumbers = 2
INVARIANTS
    TypeOK
    LengthsAgree
    FirstHopsRecorded
    StackCanBeSplit
    ReportsNumbered
PROPERTIES
    TransitKeepsChecksum
CHECK_DEADLOCK FALSE
