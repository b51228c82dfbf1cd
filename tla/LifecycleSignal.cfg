SPECIFICATION FairSpec
CONSTANTS
    Requests = {"request"}
    CloseUnblocks = TRUE
    MaxMessages = 2
PROPERTIES
    SignalReturns
CHECK_DEADLOCK FALSE
