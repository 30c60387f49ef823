SPECIFICATION Spec
CONSTANTS
    Started = TRUE
    PollMod = 4
    MaxWrites = 3
    Zone <- EndOfSummer
    Seconds = 1
    Fractions <- SomeFractions
INVARIANT TypeOK
INVARIANT AnswerComesLast
INVARIANT TimesGoForward
INVARIANT EveryPollCounted
INVARIANT FaceUntilStatus
CHECK_DEADLOCK FALSE
