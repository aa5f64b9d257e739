-------------------------- MODULE MCDeviceAdmission --------------------------
(***************************************************************************)
(* Small instances of device boot admission: runs r1 and r2 of two         *)
(* workspaces boot one simulator each, r3 boots an emulator.               *)
(***************************************************************************)
EXTENDS DeviceAdmission, TLC

CONSTANTS r1, r2, r3, r4, sim1, sim2, emu, emu2

Own3 == r1 :> sim1 @@ r2 :> sim2 @@ r3 :> emu

\* r4 runs in the workspace of r1; sim2 and emu2, which no run boots, may be up.
Shared3 == r1 :> sim1 @@ r3 :> emu @@ r4 :> sim1

NoPlatformCap == [p \in Platforms |-> 0]
OneSimulator == [p \in Platforms |-> IF p = "ios" THEN 1 ELSE 0]
=============================================================================
