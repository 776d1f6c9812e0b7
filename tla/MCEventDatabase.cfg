\* A timing database: two cached writes trigger a flush.  The calls are bounded, so a run may stop.
CONSTANTS
    e1 = e1
    e2 = e2
    e3 = e3
    Event <- MCEvent
    Policy <- MCPolicy
    Length <- MCLength
    MaxBatch = 2
    LimitSize = 4
    AutoFlushCount = 2
    MaxCalls = 6
    MaxFaults = 2
    MaxCrashes = 1
SPECIFICATION Spec
CHECK_DEADLOCK FALSE
INVARIANTS
    TypeOK
    RowsInOrder
    BoundedLoss
    BatchIsLongestPrefix
PROPERTY
    Refinement
