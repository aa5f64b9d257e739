SPECIFICATION Spec
CONSTANTS
    Workspaces <- MCWorkspaces
    Devices <- MCDevices
    Runs <- MCRuns
    Lockers <- MCLockers
    Declared <- MCDeclared
    RunStep = 2
    MaxTime = 2
    MaxStarts = 3
INVARIANTS
    TypeOK
    OneLeasePerWorkspace
PROPERTIES
    LeaseKept
    DeclaredKept
    UnlockReleases
