\* a parent that left three or four descriptors open; clients fill the table
SPECIFICATION FairSpec
CONSTANTS
    NoFile = 12
    MaxEntries = 7
    Inherited = {3, 4}
INVARIANT ClientServed
INVARIANT LoopReleases
INVARIANT NoStrayClose
 
CHECK_DEADLOCK FALSE
