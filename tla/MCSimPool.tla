----------------------------- MODULE MCSimPool -----------------------------
(***************************************************************************)
(* Small instances of the simulator pool.                                  *)
(***************************************************************************)
EXTENDS SimPool, TLC

Symmetry == {p @@ q : p \in Permutations(Devices), q \in Permutations(Workspaces)}

\* Parkings and kills come from one budget: a simulator is parked twice, or it is
\* parked once beside a kill.
Budget == parks + kills <= 2
=============================================================================
