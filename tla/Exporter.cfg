SPECIFICATION MainFairSpec
CONSTANTS
    Options <- MCExporterOptions
    MaxSenders = 2
    PopThreshold = 2
    DatagramRecords = 6
    HopCounts = {1}
    MaxReports = 5
    Capacity = 1
    NoReport = NoReport
INVARIANTS
    TypeOK
    EveryReportOnce
    SentInOrder
    BatchAccounting
    RoundRobin
    DropsRefusedByAll
PROPERTIES
    ConnectedSurvives
    AcceptedIsSent
    SendDataReturns
CHECK_DEADLOCK FALSE
