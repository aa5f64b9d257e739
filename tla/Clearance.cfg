SPECIFICATION ClearanceSpec

CONSTANTS
    e1 = e1
    e2 = e2
    s1 = s1
    Exclusive = {e1, e2}
    Shared = {s1}
    Clearers = {e2}
    PublishAttempts = 1
    Spawners = {e1, s1}
    Detached = {e1}
    Doubtful = TRUE
    KilledInRemoval = FALSE

INVARIANTS
    SweepsUnderClaim
    Exclusion
    InUseKept

CHECK_DEADLOCK FALSE
