\* Processes that end, a file that cannot be written, and data collection turned on or off.
CONSTANTS
    ASAEnabled = TRUE
    CAIDEnabled = FALSE
    ReadClipboard = TRUE
    Contents = {"gads", "broken", "other"}
    RetryCount = 1
    MaxToggles = 1
    MaxLinks = 0
    MaxErrors = 0
    MaxLost = 1
    MaxCrashes = 1
SPECIFICATION Spec
INVARIANTS
    TypeOK
    NeverSkipped
    ActivatedOnce
