SPECIFICATION Spec

CONSTANTS
    Workspaces = {w1}
    Cleaners = {g1}
    Devices = {d1}
    MaxParked = 1
    MaxParks = 2
    MaxKills = 1
    NoDevice = NoDevice
    NoOne = NoOne
    Blocked = Blocked

PROPERTIES
    OrphansUnreferenced

CHECK_DEADLOCK FALSE
