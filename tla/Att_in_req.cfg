SPECIFICATION Spec
CONSTANTS
    None = None
    MaxOps = 3
    MaxRx = 3
    PeerPdus <- AllPdus
    UserOps = {"NOT"}
    Deferred = FALSE
    SendMayFail = FALSE
INVARIANT InReqClearMeansAnswered
CHECK_DEADLOCK FALSE
