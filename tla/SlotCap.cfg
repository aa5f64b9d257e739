SPECIFICATION FairSpec
CONSTANTS
    Builds = {1, 2, 3}
    Offloads = {3}
    Caps = {1, 2}
    Unverifiable = TRUE
    Staging = TRUE
INVARIANTS TypeOK CapHeld
PROPERTY EveryBuildServed
CHECK_DEADLOCK FALSE
