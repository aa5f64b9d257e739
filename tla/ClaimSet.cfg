SPECIFICATION FairSpec
CONSTANTS
    e1 = e1
    e2 = e2
    s1 = s1
    Exclusive = {e1, e2}
    Shared = {s1}
    PublishAttempts = 2
    Spawners = {s1}
    Detached = {s1}
    Doubtful = FALSE
INVARIANTS TypeOK Exclusion NothingLeft
PROPERTIES ImplementsLock CallEnds
CHECK_DEADLOCK FALSE
