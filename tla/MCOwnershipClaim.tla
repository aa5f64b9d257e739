------------------------- MODULE MCOwnershipClaim -------------------------
(***************************************************************************)
(* Small instances of one claim set: two writers and a reader.             *)
(***************************************************************************)
EXTENDS OwnershipClaim

CONSTANTS e1, e2, s1
=============================================================================
