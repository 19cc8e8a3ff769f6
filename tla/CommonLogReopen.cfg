SPECIFICATION Spec
CONSTANTS
    r1 = r1
    r2 = r2
    r3 = r3
    access = access
    other = other
    HUP = HUP
    USR1 = USR1
    Line = Line
    Reopen = Reopen
    Stdout = Stdout
    Closed = Closed
    Idle = Idle
    Requests <- ThreeRequests
    Paths <- TwoPaths
    Kinds = {HUP}
    LogFile <- SharedFile
    Capacity = 1
    MaxRotations = 2
    MaxSignals = 2
INVARIANTS
    TypeOK
    NoStaleFile
PROPERTIES
    AccessLogSpec
    SendersProceed
    FilesReleased
CHECK_DEADLOCK FALSE
