SPECIFICATION ClearanceSpec
CONSTANTS
    e1 = e1
    e2 = e2
    e3 = e3
    Exclusive = {e1, e2, e3}
    Shared = {}
    PublishAttempts = 1
    Spawners = {}
    Detached = {}
    Doubtful = FALSE
    Clearers = {e1}
    KilledInRemoval = TRUE
SYMMETRY Symmetry
INVARIANT Exclusion
CHECK_DEADLOCK FALSE
