\* Two fetches at once, two days, the first of two ticks, and one end of the process.
\* An unreadable body is saved like an answer without experiment.
CONSTANTS
    f = f
    g = g
    layer = layer
    A = A
    B = B
    one = one
    Miss = Miss
    None = None
    Caller = {f, g}
    Layer = {layer}
    Identity = {A, B}
    Content = {one, Miss}
    Day = 2
    TTL = 1
    Retries = 1
    MaxTime = 2
    MaxFetches = 3
    MaxChanges = 1
    MaxCrashes = 1
SPECIFICATION FairSpec
CHECK_DEADLOCK FALSE
INVARIANTS
    TypeOK
    FileFollowsMemory
    OwnExperiment
    ToldIsDurable
    HitPerChange
PROPERTY
    FetchEnds
