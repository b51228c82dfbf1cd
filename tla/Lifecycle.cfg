SPECIFICATION FairSpec
CONSTANTS
    Requests = {"initialize", "initializeNonFile", "initialized", "request", "notification", "openNonFile", "shutdown", "exit"}
    CloseUnblocks = FALSE
    MaxMessages = 4
INVARIANTS
    TypeOK
    ExitStatus
    NoOrphans
    OnlySignalsCrash
PROPERTIES
    ShutdownFreezes
    ExitReturns
    DisconnectReturns
    RegistrationEnds
CHECK_DEADLOCK FALSE
