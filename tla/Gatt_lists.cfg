\* Discovery and reads, with every MTU the exchange may lead to
SPECIFICATION Spec
CONSTANTS
    MtuArgument = 48
    MaxPrep = 2
    LenMod = 100
    Requests <- LookingAround
    Notices = {4, 60}
    AllocMayFail = FALSE
    MaxWrites = 1
    None = None
INVARIANT Answered
INVARIANT ListsWithoutGap
INVARIANT LongRead
