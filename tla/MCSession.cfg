\* Four calls, or two and one that races with the main thread.
SPECIFICATION Spec
CONSTANTS
    A = A
    B = B
    a1 = a1
    b1 = b1
    None = None
    Blank = Blank
    User <- MCUser
    KeysOf <- MCKeyOf
    MaxCalls = 4
    MaxQueue = 2
    MaxRaces = 1
CHECK_DEADLOCK FALSE
INVARIANTS
    TypeOK
    VisitFirst
    OneVisitPerSession
    OneUserPerSession
    KeyOfUser
    AtRestVisited
PROPERTY
    ReengagesInNewSession
