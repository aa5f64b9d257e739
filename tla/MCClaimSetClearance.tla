------------------------ MODULE MCClaimSetClearance ------------------------
(***************************************************************************)
(* A clearer, the calls it races and what they find.                       *)
(***************************************************************************)
EXTENDS ClaimSetClearance, TLC

Symmetry == Permutations(Exclusive \ Clearers)
=============================================================================
