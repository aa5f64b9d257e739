---------------------------- MODULE MCDeviceLease ----------------------------
(* Two workspaces and two devices: in the first a run and a command contend,  *)
(* in the second a command.                                                  *)
EXTENDS DeviceLease

MCWorkspaces == {"w1", "w2"}
MCDevices == {"a", "b"}
MCRuns == {"w1"}
MCLockers == {"w1", "w2"}
MCDeclared == {1, 3}
=============================================================================
