SPECIFICATION Spec

CONSTANTS
    Workspaces = {w1, w2}
    Cleaners = {g1}
    Devices = {d1, d2}
    MaxParked = 1
    MaxParks = 2
    MaxKills = 1
    NoDevice = NoDevice
    NoOne = NoOne
    Blocked = Blocked

SYMMETRY Symmetry
CONSTRAINT Budget

INVARIANTS
    TypeOK
    OnePlace
    OneOperation
    ApprovalsTrue

PROPERTIES
    AssignedKept

CHECK_DEADLOCK FALSE
