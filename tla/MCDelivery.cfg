\* From a table with a left-over event, while ASA data is fetched; an outage, a failing
\* disk and an end of the process.
CONSTANTS
    autotrack = autotrack
    track = track
    page = page
    tap = tap
    activate = activate
    old = old
    custom = custom
    Channel <- MCChannel
    Timing <- MCTiming
    Event <- LiveEvents
    Policy <- LivePolicy
    Length <- LiveLength
    ChannelOf <- LiveChannelOf
    MaxBatch = 2
    LimitSize = 4
    CacheLimit = 2
    Legacy <- LiveLegacy
    HeldBack <- LiveHeldBack
    OutSize <- MCOutSize
    CellularLimit = 1
    Links = {"WiFi", "NotReachable"}
    MaxNetErrors = 1
    MaxOutages = 1
    MaxCrashes = 1
SPECIFICATION FairSpec
PROPERTIES
    AtLeastOnce
    Delivered
