CONSTANTS
    ASAEnabled = TRUE
    CAIDEnabled = FALSE
    ReadClipboard = FALSE
    Contents = {"other"}
    RetryCount = 1
    MaxToggles = 0
    MaxLinks = 0
    MaxErrors = 0
    MaxLost = 0
    MaxCrashes = 0
SPECIFICATION Spec
INVARIANT
    SentMeansReceived
