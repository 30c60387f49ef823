SPECIFICATION Spec
CONSTANTS
    None = None
    MaxOps = 4
    MaxRx = 2
    PeerPdus <- AllPdus
    UserOps = {"REQ", "IND", "NOT"}
    Deferred = TRUE
    SendMayFail = TRUE
INVARIANTS TypeOK HooksRunOnce SendOrder NoLostWakeup NothingAfterDisconnect
PROPERTY OneOutstanding
CHECK_DEADLOCK FALSE
