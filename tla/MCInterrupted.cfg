SPECIFICATION Spec
CONSTANTS
    t = t
    u = u
    Timer <- MCTimers
    Day = 100
    MaxTime = 4
    MaxCalls = 5
    MaxQueue = 2
CHECK_DEADLOCK FALSE
INVARIANT
    CoversForeground
