SPECIFICATION Spec
CONSTANTS
    Options <- MCUdpOptions
    MaxSenders = 1
    PopThreshold = 2
    DatagramRecords = 6
    HopCounts = {1}
    MaxReports = 5
    Capacity = 1
    NoReport = NoReport
INVARIANTS
    BatchLimit
CHECK_DEADLOCK FALSE
