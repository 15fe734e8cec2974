SPECIFICATION FairSpec
CONSTANTS
    t1 = t1
    t2 = t2
    Txs = {t1, t2}
    Posted <- MCPosted
    MaxLag = 2
    BadAmount = {t1}
    Twice = {t2}
    FirstPull = 2
    Overlap = 2
    FirstDay = 1
    MaxDay = 2
    StartDates = {0}
    Sessions = {s1}
    Procs = {p1, p2}
    NotLinked = NotLinked
    NoDate = NoDate
    Never = Never
INVARIANTS
    TypeOK
    NothingSkipped
PROPERTY
    Arrives
CHECK_DEADLOCK FALSE
