\* Both fetchers, a deep link, and an upload that fails.
CONSTANTS
    ASAEnabled = TRUE
    CAIDEnabled = TRUE
    ReadClipboard = FALSE
    Contents = {"other"}
    RetryCount = 1
    MaxToggles = 0
    MaxLinks = 1
    MaxErrors = 1
    MaxLost = 0
    MaxCrashes = 0
SPECIFICATION FairSpec
INVARIANTS
    FetchEnds
PROPERTIES
    Delivered
