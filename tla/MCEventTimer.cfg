SPECIFICATION Spec
CONSTANTS
    t = t
    u = u
    Timer <- MCOneTimer
    Day = 4
    MaxTime = 5
    MaxCalls = 6
    MaxQueue = 3
CHECK_DEADLOCK FALSE
INVARIANTS
    TypeOK
    OneEventPerTimer
    NoTimerWhileDisabled
    CountsForeground
