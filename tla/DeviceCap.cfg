SPECIFICATION FairSpec
CONSTANTS
    r1 = r1
    r2 = r2
    r3 = r3
    r4 = r4
    sim1 = sim1
    sim2 = sim2
    emu = emu
    emu2 = emu2
    NoRun = NoRun
    Runs = {r1, r2, r3}
    Devices = {sim1, sim2, emu}
    DeviceOf <- Own3
    Fresh = {r2}
    Android = {emu}
    MaxDevices = 1
    PlatformMax <- NoPlatformCap
    BootsInFlight = 2
    Hindrances = FALSE
INVARIANTS TypeOK CapRespected
PROPERTY EveryRunServed
CHECK_DEADLOCK FALSE
