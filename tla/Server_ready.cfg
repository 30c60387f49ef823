SPECIFICATION Spec
CONSTANTS
    NoFile = 14
    MaxEntries = 7
    Inherited = {3}
INVARIANT ReadyMeansHandled
CHECK_DEADLOCK FALSE
