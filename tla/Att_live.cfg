SPECIFICATION FairSpec
CONSTANTS
    None = None
    MaxOps = 3
    MaxRx = 3
    PeerPdus <- AnsweringPdus
    UserOps = {"REQ", "IND", "NOT"}
    Deferred = TRUE
    SendMayFail = TRUE
INVARIANTS InReqMeansOwed AnswerOnTheWay
PROPERTIES OpsSettle RequestsAnswered
CHECK_DEADLOCK FALSE
