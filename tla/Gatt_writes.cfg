\* Writes, commands and prepared writes, where memory may run out
SPECIFICATION Spec
CONSTANTS
    MtuArgument = 0
    MaxPrep = 2
    LenMod = 100
    Requests <- Writing
    Notices = {4, 60}
    AllocMayFail = TRUE
    MaxWrites = 4
    None = None
INVARIANT TypeOK
INVARIANT Answered
PROPERTY ReadOnlyKept
PROPERTY WritesWhole
\* A process that ended answers nothing more
CHECK_DEADLOCK FALSE
