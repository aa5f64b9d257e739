---------------------------- MODULE MCBuildSlots ----------------------------
(***************************************************************************)
(* Small instances of build admission.                                     *)
(***************************************************************************)
EXTENDS BuildSlots
=============================================================================
