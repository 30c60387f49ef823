\* operations that stay pending, their timers in the loop, what races them
SPECIFICATION FairSpec
CONSTANTS
    MaxFd = 5
    Entries = 5
    Inherited = {0}
    MaxEvents = 2
    Free = Free
    Attrs = {1, 2}
    Lists <- OneList
    MaxPending = 2
    MaxServers = 2
    Io = Io
    Owner = Owner
    None = None
INVARIANT EndsOnce
INVARIANT PointersMatch
INVARIANT MemorySafe
PROPERTY Settles
CHECK_DEADLOCK FALSE
