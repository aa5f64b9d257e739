------------------------------ MODULE ClaimLock ------------------------------
(***************************************************************************)
(* What an ownership claim promises, without files, surveys or deaths: at  *)
(* any time the claims in use are one writer, or any number of readers.    *)
(***************************************************************************)
CONSTANTS Exclusive, Shared

VARIABLE holders

Init == holders = {}

\* A writer enters alone, a reader beside readers.
Grant(c) ==
    /\ c \notin holders
    /\ IF c \in Exclusive THEN holders = {} ELSE holders \subseteq Shared
    /\ holders' = holders \cup {c}

\* Released, or the last process that used it is gone.
Drop(c) ==
    /\ c \in holders
    /\ holders' = holders \ {c}

Next == \E c \in Exclusive \cup Shared : Grant(c) \/ Drop(c)

Spec == Init /\ [][Next]_holders
=============================================================================
