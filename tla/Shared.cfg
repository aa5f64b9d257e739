SPECIFICATION FairSpec
CONSTANTS
    k1 = k1
    k2 = k2
    Runs = {1, 2, 3}
    Fresh = {2}
    Keys = {k1, k2}
    KeyAt <- MCKeyAt
    MaxBuilds = 2
    MaxKills = 1
INVARIANTS TypeOK OneCompile StoredStays
PROPERTIES EveryRunEnds
CHECK_DEADLOCK FALSE
