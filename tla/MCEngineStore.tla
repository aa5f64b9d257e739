--------------------------- MODULE MCEngineStore ---------------------------
(***************************************************************************)
(* Small instances of the engine store.                                    *)
(***************************************************************************)
EXTENDS EngineStore, TLC

CONSTANTS h1, h2, c1

\* The last build changes the layout of the state.
MCSchemaOf == [b \in Builds |-> IF b = Max(Builds) THEN 2 ELSE 1]

Budget(moves, ops, crashes, kills) ==
    [moves |-> moves, ops |-> ops, crashes |-> crashes, kills |-> kills]

\* One promotion with a crash loop and a kill, one with an operation, or two.
MCBudgets == {Budget(1, 0, 1, 1), Budget(1, 1, 0, 0), Budget(2, 0, 0, 0)}
=============================================================================
