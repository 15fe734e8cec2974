SPECIFICATION FairSpec
CONSTANTS
    l1 = l1
    r1 = r1
    r2 = r2
    p1 = p1
    p2 = p2
    Logins = {l1}
    Recoveries = {r1, r2}
    Procs = {p1, p2}
    Uploads = {f1, f2}
    Mixes <- MCMixes
    Cap = 2
    Slots = 1
    Minute = 3
    Lag = 1
    Idle = 1
    Absolute = 2
    MaxTime = 4
    Never = Never
    None = None
INVARIANTS
    TypeOK
    RollingBound
    StaysOut
    ImportedOnce
    SlotsTaken
PROPERTIES
    KeptUntilImported
    Answered
CHECK_DEADLOCK FALSE
