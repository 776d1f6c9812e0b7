\* Overlapping uploads, failing requests and a link that changes, on a disk that works.
CONSTANTS
    autotrack = autotrack
    track = track
    page = page
    tap = tap
    activate = activate
    old = old
    custom = custom
    Channel <- MCChannel
    Timing <- MCTiming
    Event <- NetEvents
    Policy <- NetPolicy
    Length <- NetLength
    ChannelOf <- NetChannelOf
    MaxBatch = 1
    LimitSize = 2
    CacheLimit = 2
    Legacy = {}
    HeldBack = {}
    OutSize <- MCOutSize
    CellularLimit = 1
    Links = {"WiFi", "WWAN"}
    MaxNetErrors = 1
    MaxOutages = 0
    MaxCrashes = 0
SPECIFICATION Spec
INVARIANTS
    TypeOK
    InOrder
    NothingLost
    AtMostOnceWhenCalm
    UploadFlag
    CellularBudget
