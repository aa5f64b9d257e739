SPECIFICATION Spec
CONSTANTS
    r1 = r1
    r2 = r2
    r3 = r3
    r4 = r4
    sim1 = sim1
    sim2 = sim2
    emu = emu
    emu2 = emu2
    NoRun = NoRun
    Runs = {r1, r3, r4}
    Devices = {sim1, sim2, emu, emu2}
    DeviceOf <- Shared3
    Fresh = {}
    Android = {emu, emu2}
    MaxDevices = 2
    PlatformMax <- OneSimulator
    BootsInFlight = 1
    Hindrances = TRUE
INVARIANT CapRespected
PROPERTIES BootsBounded InTurn
CHECK_DEADLOCK FALSE
