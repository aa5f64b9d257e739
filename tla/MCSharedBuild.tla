--------------------------- MODULE MCSharedBuild ---------------------------
(***************************************************************************)
(* Small instances of the build lock and the artifact cache.               *)
(***************************************************************************)
EXTENDS SharedBuild

CONSTANTS k1, k2

\* All checkouts start with the same key.
MCKeyAt == [r \in Runs |-> k1]
=============================================================================
