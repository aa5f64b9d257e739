------------------------- MODULE ClaimSetClearance -------------------------
(***************************************************************************)
(* clearFreeClaimSet of packages/core/ownership-claim.ts: garbage          *)
(* collection removes a claim set that holds nothing.  It takes the set's  *)
(* exclusive claim, removes every .staging-* entry under it, releases the  *)
(* claim, and removes the directories that are empty.                      *)
(*                                                                         *)
(* The staging entries it removes are not only those of the dead: a call   *)
(* that surveyed the set before the clearer published is still about to    *)
(* rename its own.  rmSync removes a staging directory in two steps, its   *)
(* claim file and then the directory itself.                               *)
(***************************************************************************)
EXTENDS OwnershipClaim

CONSTANTS
    Clearers,        \* the exclusive calls made by clearFreeClaimSet
    KilledInRemoval  \* whether a clearer may be killed inside the removal of one entry

ASSUME ClearersAssumption == /\ Clearers \subseteq Exclusive \ Spawners
                             /\ KilledInRemoval \in BOOLEAN

\* Each attempt to publish draws a new id, so a staging entry that was swept
\* never comes back under its name: here a call is one attempt.
ASSUME FreshIdAssumption == PublishAttempts = 1

VARIABLES
    sweep,      \* the staging entries a clearer has listed and not removed yet
    removing,   \* the entry among them that rmSync is removing
    clearance   \* where a clearer stands, and what it returned

clearanceVars == <<sweep, removing, clearance>>
allVars == <<vars, sweep, removing, clearance>>

Answers == {"cleared", "held", "refused", "failed"}

ClearanceTypeOK ==
    /\ TypeOK
    /\ sweep \in [Clearers -> SUBSET Claims]
    /\ removing \in [Clearers -> SUBSET Claims]
    /\ clearance \in [Clearers -> {"none", "sweeping", "swept", "broken", "bare", "littered"}
                                  \cup Answers]

ClearanceInit ==
    /\ Init
    /\ sweep = [c \in Clearers |-> {}]
    /\ removing = [c \in Clearers |-> {}]
    /\ clearance = [c \in Clearers |-> "none"]

-----------------------------------------------------------------------------

\* removeAbandonedStaging lists the root once the claim is acquired.
BeginSweep(c) ==
    /\ pc[c] = "acquired"
    /\ clearance[c] = "none"
    /\ sweep' = [sweep EXCEPT ![c] = {d \in Claims : staging[d] # "none"}]
    /\ clearance' = [clearance EXCEPT ![c] = "sweeping"]
    /\ UNCHANGED <<vars, removing>>

\* rmSync takes the entries one by one: the staged file, or the claim file
\* that it reads inside the staging directory, ...
EmptyStaging(c, d) ==
    /\ pc[c] = "acquired"
    /\ d \in sweep[c]
    /\ removing[c] = {}
    /\ removing' = [removing EXCEPT ![c] = {d}]
    /\ staging' = [staging EXCEPT ![d] = IF @ = "full" /\ d \in Exclusive THEN "empty"
                                         ELSE IF @ = "full" THEN "none" ELSE @]
    /\ UNCHANGED <<files, sharedDir, child, work, callVars, sweep, clearance>>

\* ... and then the directory; force makes an entry that is gone no error.
DropStaging(c, d) ==
    /\ pc[c] = "acquired"
    /\ d \in removing[c]
    /\ staging[d] # "full"
    /\ staging' = [staging EXCEPT ![d] = "none"]
    /\ sweep' = [sweep EXCEPT ![c] = @ \ {d}]
    /\ removing' = [removing EXCEPT ![c] = {}]
    /\ UNCHANGED <<files, sharedDir, child, work, callVars, clearance>>

\* Mutant of SweepFails: the loop goes on after the error.
SweepFailsOn(c, d) ==
    /\ pc[c] = "acquired"
    /\ d \in removing[c]
    /\ staging[d] = "full"
    /\ removing' = [removing EXCEPT ![c] = {}]
    /\ clearance' = [clearance EXCEPT ![c] = "broken"]
    /\ UNCHANGED <<vars, sweep>>

\* A writer filled the directory after its entries were read: rmdir answers
\* ENOTEMPTY, rmSync throws and the clearing fails.
SweepFails(c, d) ==
    /\ pc[c] = "acquired"
    /\ d \in removing[c]
    /\ staging[d] = "full"
    /\ sweep' = [sweep EXCEPT ![c] = {}]
    /\ removing' = [removing EXCEPT ![c] = {}]
    /\ clearance' = [clearance EXCEPT ![c] = "broken"]
    /\ UNCHANGED vars

\* removeAbandonedStaging has returned or thrown.
Sweeped(c) == sweep[c] = {} /\ clearance[c] \in {"sweeping", "broken"}

\* The finally block releases the claim either way.
ReleaseSwept(c) ==
    /\ Sweeped(c)
    /\ Release(c)
    /\ clearance' = [clearance EXCEPT ![c] = IF @ = "broken" THEN "failed" ELSE "swept"]
    /\ UNCHANGED <<sweep, removing>>

\* tidySet removes the directories that are empty, then the root is listed.
TidySet(c) ==
    /\ pc[c] = "done"
    /\ clearance[c] = "swept"
    /\ sharedDir' = (sharedDir /\ Entries(Shared) # {})
    /\ clearance' = [clearance EXCEPT ![c] =
           IF Entries(Claims) = {} /\ \A d \in Claims : staging[d] = "none"
           THEN "bare" ELSE "littered"]
    /\ UNCHANGED <<files, staging, child, work, callVars, sweep, removing>>

\* readClaimSet: what it finds alive, or cannot tell, goes before the listing.
Answered(c) ==
    /\ clearance[c] \in {"bare", "littered"}
    /\ clearance' = [clearance EXCEPT ![c] =
           IF \E d \in files : Up(d) \/ Working(d) THEN "held"
           ELSE IF \E d \in files : child[d] = "pending" THEN "refused"
           ELSE IF @ = "littered" THEN "failed" ELSE "cleared"]
    /\ UNCHANGED <<vars, sweep, removing>>

\* A clearer that did not get the claim answers at once: what holds it, what
\* cannot be decided, or the error.
NotAcquired(c) ==
    /\ clearance[c] = "none"
    /\ pc[c] = "done"
    /\ \E answer \in Answers \ {"cleared"} : clearance' = [clearance EXCEPT ![c] = answer]
    /\ UNCHANGED <<vars, sweep, removing>>

Clear(c) ==
    \/ BeginSweep(c)
    \/ \E d \in Claims : EmptyStaging(c, d) \/ DropStaging(c, d) \/ SweepFails(c, d)
    \/ ReleaseSwept(c) \/ TidySet(c) \/ Answered(c) \/ NotAcquired(c)

\* Everyone else, and the part of a clearer that is tryAcquireClaim.
Others(c) ==
    /\ \/ Call(c)
       \/ GiveUpPending(c)
       \/ c \notin Clearers /\ Hold(c)
       \/ Environment(c) /\ (c \in Clearers /\ removing[c] # {} => KilledInRemoval)
    /\ UNCHANGED clearanceVars

ClearanceNext == \/ \E c \in Claims : Others(c)
                 \/ \E c \in Clearers : Clear(c)

ClearanceSpec == ClearanceInit /\ [][ClearanceNext]_allVars

-----------------------------------------------------------------------------

\* A clearer removes staging only inside its sweep, under the claim it holds;
\* once removeAbandonedStaging has returned or thrown, nothing is removed.
SweepsUnderClaim ==
    /\ ClearanceTypeOK
    /\ \A c \in Clearers : /\ removing[c] \subseteq sweep[c]
                           /\ sweep[c] # {} => clearance[c] = "sweeping"
                           /\ sweep[c] # {} /\ Up(c) => pc[c] = "acquired" /\ c \in files
=============================================================================
