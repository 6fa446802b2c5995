SPECIFICATION Spec
CONSTANTS
    Starts <- MCStarts
    UShort = 1024
    UInt = 4096
    ULong = 16384
    Frames <- MCFrames
    Wrap = 8
    Cut = 4
    MAX_NODES = 3
    SocketRoom = 1
    MaxFrames = 2
    MaxFailures = 1
    NoFrame = NoFrame
    Capacity = 1
    MaxSenders = 2
    PopThreshold = 2
    DatagramRecords = 6
    MaxReports = 3
    NoReport = NoReport
INVARIANTS
    TypeOK
    OptionsAsGiven
    EndToEnd
    LossAtExit
PROPERTIES
    SignalEnds
    ImplementsLoop
    ImplementsExporter
CHECK_DEADLOCK FALSE
