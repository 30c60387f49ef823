\* queue.c is a queue, with callbacks that use it
SPECIFICATION Spec
CONSTANTS
    Data = {d1, d2}
    MaxCells = 3
    MaxWalks = 2
INVARIANT ListIntact
SYMMETRY Interchangeable
PROPERTY IsAQueue
CHECK_DEADLOCK FALSE
