SPECIFICATION FairSpec
CONSTANTS
    h1 = h1
    h2 = h2
    c1 = c1
    Builds = {1, 2, 3}
    SchemaOf <- MCSchemaOf
    Homes = {h1, h2}
    Commands = {c1}
    Crashes = 1
    Budgets <- MCBudgets
INVARIANTS TypeOK RecordsInStore
PROPERTIES DrainedSwitch StagedStillRight StagedSettles
CHECK_DEADLOCK FALSE
