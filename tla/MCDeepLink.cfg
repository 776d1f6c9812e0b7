\* Links that are opened: short, long and without an id; links of the app:
\* short, long, incomplete, and not of GrowingIO.
CONSTANTS
    s = s
    m = m
    n = n
    c = c
    p = p
    o = o
    f = f
    Short = {s, m}
    Complete = {c, n}
    Partial = {p}
    Other = {o}
    Foreign = {f}
    Manual = {m, n, p, f}
    NoLink = NoLink
    MaxLinks = 3
    MaxToggles = 4
    MaxErrors = 1
SPECIFICATION Spec
CHECK_DEADLOCK FALSE
INVARIANTS
    TypeOK
    NothingForgotten
    HandledIsForgotten
    HandledTwiceAtMost
    AnsweredOnce
