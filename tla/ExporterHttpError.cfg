SPECIFICATION Spec
CONSTANTS
    Options <- MCHttpOptions
    MaxSenders = 1
    PopThreshold = 2
    DatagramRecords = 6
    HopCounts = {1}
    MaxReports = 1
    Capacity = 1
    NoReport = NoReport
INVARIANTS
    FailureRaises
CHECK_DEADLOCK FALSE
