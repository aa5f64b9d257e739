---------------------- MODULE ClaimSetClearanceProofs ----------------------
(***************************************************************************)
(* Garbage collection beside the claim protocol, for any calls and         *)
(* clearers, in the behaviours in which no clearer is killed inside the    *)
(* removal of one entry; between two of them it may be.  A clearer takes   *)
(* the claim file out of the staging directory of a live call, which then  *)
(* renames an empty directory if it can.  It cannot: the clearer holds     *)
(* exclusive/ until it has removed the directory too, or given up on it    *)
(* because the call has filled it again.  So what is published is          *)
(* complete, and the invariant of the protocol still holds.                *)
(***************************************************************************)
EXTENDS ClaimSetClearance, OwnershipClaimProofs

\* A clearer sweeps under its claim, and removes one entry at a time.
Sweeping ==
    \A k \in Clearers :
        /\ removing[k] \subseteq sweep[k]
        /\ \A x, y \in removing[k] : x = y
        /\ sweep[k] # {} => clearance[k] = "sweeping" /\ pc[k] \in {"acquired", "dead"}
        /\ removing[k] # {} => pc[k] = "acquired"

\* A directory without its claim file that a call is about to rename is the one
\* that a clearer is removing.
Emptied ==
    \A c \in Claims :
        pc[c] = "rename" /\ staging[c] = "empty" =>
            c \in Exclusive /\ \E k \in Clearers : c \in removing[k]

ClearanceInv == ClaimsSound /\ ClearanceTypeOK /\ Sweeping /\ Emptied

\* A clearer is the writer in exclusive/, so nothing can be renamed onto it.
LEMMA PublishedComplete ==
    ASSUME ClearanceInv, NEW c \in Claims, Publish(c)
    PROVE  staging[c] = "full"
<1> SUFFICES ASSUME staging[c] = "empty" PROVE FALSE
  BY DEF ClearanceInv, ClaimsSound, TypeOK, Publish, CanRename
<1>1. c \in Exclusive
  BY DEF ClearanceInv, Emptied, Publish
<1>2. PICK k \in Clearers : c \in removing[k]
  BY DEF ClearanceInv, Emptied, Publish
<1>3. pc[k] = "acquired"
  BY <1>2 DEF ClearanceInv, Sweeping
<1>4. k \in Exclusive /\ k \in Claims
  BY ClearersAssumption DEF Claims
<1>5. k \in files
  BY <1>3, <1>4 DEF ClearanceInv, ClaimsSound, Owned, Up
<1> QED BY <1>1, <1>4, <1>5 DEF Publish, CanRename, Entries

\* The steps of the protocol leave a sweep alone: a clearer that holds its claim
\* does nothing else before it has swept.
LEMMA OthersStep ==
    ASSUME ClearanceInv, ~KilledInRemoval, NEW c \in Claims, Others(c)
    PROVE  ClearanceInv'
<1> USE DEF ClearanceInv, clearanceVars
<1>0. Call(c) \/ Hold(c) \/ Environment(c)
  BY Zenon DEF Others, Hold
<1>1. Next
  BY <1>0, Zenon DEF Next
<1>2. ClaimsSound'
  BY <1>1, PublishedComplete, ClaimsSoundStep
<1>3. ClearanceTypeOK'
  BY <1>2 DEF ClearanceTypeOK, ClaimsSound, Others
<1>4. sweep' = sweep /\ removing' = removing /\ clearance' = clearance
  BY DEF Others
<1>5. Sweeping'
  <2> SUFFICES ASSUME NEW k \in Clearers, sweep[k] # {}
               PROVE  pc'[k] = pc[k] \/ (pc'[k] = "dead" /\ removing[k] = {})
    BY <1>4 DEF Sweeping
  <2>1. pc[k] \in {"acquired", "dead"} /\ k \in Claims
    BY ClearersAssumption, Zenon DEF Sweeping, Claims
  <2>2. TypeOK
    BY Zenon DEF ClaimsSound
  <2>3. CASE c # k
    BY <1>0, <2>1, <2>2, <2>3, OwnStep, Zenon
  <2>4. CASE c = k /\ Call(k)
    <3>1. CASE Begin(k) \/ ListExclusive(k) \/ ListShared(k) \/ Refuse(k) \/ Resolve(k) \/ Inspected(k)
      BY <2>1, <3>1, Zenon
      DEF Begin, ListExclusive, ListShared, Refuse, Resolve, Inspected, Surveyed, Reaped
    <3>2. CASE MakeStagingDir(k) \/ MakeSharedDir(k) \/ WriteStaging(k) \/ Publish(k) \/ Retry(k)
      BY <2>1, <3>2, Zenon DEF MakeStagingDir, MakeSharedDir, WriteStaging, Publish, Retry
    <3>3. CASE Settled(k) \/ ReleaseChild(k) \/ ReleaseFile(k)
      BY <2>1, <3>3, Zenon DEF Settled, ReleaseChild, ReleaseFile, Reaped
    <3>4. ASSUME pc' = pc PROVE pc'[k] = pc[k]
      BY <3>4, Zenon
    <3> QED BY <2>4, <3>1, <3>2, <3>3, <3>4, Zenon
      DEF Call, ReadOwner, ReadChild, RemoveOrphan, ReapGone, ReapChild, ReapClaim
  <2>5. CASE c = k /\ Environment(k) /\ removing[k] = {}
    <3>1. CASE Crash(k)
      BY <2>2, <2>5, <3>1 DEF Crash, Goto, TypeOK
    <3> QED BY <2>5, <3>1, Zenon DEF Environment, ChildExit, GroupExit, RemoveByHand, callVars
  <2>6. c = k => ~GiveUpPending(c)
    BY <2>1, SMTT(30) DEF GiveUpPending
  <2> QED BY <2>3, <2>4, <2>5, <2>6 DEF Others
<1>6. Emptied'
  <2> SUFFICES ASSUME NEW x \in Claims, pc'[x] = "rename", staging'[x] = "empty"
               PROVE  pc[x] = "rename" /\ staging[x] = "empty"
    BY <1>4, Zenon DEF Emptied
  <2>1. TypeOK
    BY Zenon DEF ClaimsSound
  <2>2. CASE c # x
    BY <1>0, <2>1, <2>2, OwnStep, Zenon
  <2>3. CASE c = x
    <3>1. ASSUME pc' = pc, staging' = staging PROVE pc[x] = "rename" /\ staging[x] = "empty"
      BY <3>1, Zenon
    <3>2. ASSUME NEW step, step # "rename", pc' = [pc EXCEPT ![x] = step] PROVE FALSE
      BY <2>1, <3>2 DEF TypeOK
    <3>3. ~WriteStaging(x)
      BY <2>1 DEF TypeOK, WriteStaging
    <3>4. ~Begin(x) /\ ~ListExclusive(x) /\ ~ListShared(x) /\ ~Refuse(x) /\ ~Resolve(x)
      BY <3>2 DEF Begin, ListExclusive, ListShared, Refuse, Resolve, Goto
    <3>5. ~Inspected(x) /\ ~MakeStagingDir(x) /\ ~MakeSharedDir(x) /\ ~Publish(x) /\ ~Retry(x)
      BY <3>2 DEF Inspected, MakeStagingDir, MakeSharedDir, Publish, Retry, Goto
    <3>6. ~Settled(x) /\ ~ReleaseChild(x) /\ ~ReleaseFile(x)
      BY <3>2 DEF Settled, Settlement, ReleaseChild, ReleaseFile, Goto
    <3>7. CASE Call(x)
      BY <3>1, <3>3, <3>4, <3>5, <3>6, <3>7, Zenon
      DEF Call, ReadOwner, ReadChild, RemoveOrphan, ReapGone, ReapChild, ReapClaim, fsVars
    <3>8. ~SettleClaim(x) /\ ~GiveUpPending(x) /\ ~Release(x) /\ ~Crash(x)
      BY <3>2 DEF SettleClaim, GiveUpPending, Release, Crash, Goto
    <3>9. CASE Hold(x)
      BY <3>1, <3>8, <3>9, Zenon
      DEF Hold, DeclareChild, Spawn, RecordChild, ClearChild, fsVars, callVars
    <3>10. CASE Environment(x)
      BY <3>1, <3>8, <3>10, Zenon
      DEF Environment, ChildExit, GroupExit, RemoveByHand, fsVars, callVars
    <3> QED BY <1>0, <2>3, <3>7, <3>9, <3>10, Zenon
  <2> QED BY <2>2, <2>3, Zenon
<1> QED BY <1>2, <1>3, <1>5, <1>6

\* What a clearer changes of the claim set is staging, for less, and shared/.
LEMMA ClearsStaging ==
    ASSUME ClaimsSound, staging' \in [Claims -> {"none", "empty", "full"}], sharedDir' \in BOOLEAN,
           \A c \in Claims : staging[c] = "none" => staging'[c] = "none",
           UNCHANGED <<files, child, work, callVars>>
    PROVE  ClaimsSound'
<1> USE DEF ClaimsSound, callVars
<1>1. (TypeOK /\ Counted)'
  BY DEF TypeOK, Counted
<1>2. Owned'
  BY SMTT(30) DEF TypeOK, Owned, Up
<1>3. (Declared /\ SurveysSound)'
  BY DEF Declared, SurveysSound, Up, Working
<1>4. (OneWriter /\ NeverBothMissed)'
  BY DEF OneWriter, NeverBothMissed, InForce, Missed, Working
<1> QED BY <1>1, <1>2, <1>3, <1>4

\* The steps of a clearer: it empties a directory before it removes it, and
\* leaves one only when that is full again.
LEMMA ClearStep ==
    ASSUME ClearanceInv, NEW k \in Clearers, Clear(k)
    PROVE  ClearanceInv'
<1> USE DEF ClearanceInv, callVars, vars
<1>1. k \in Claims /\ k \in Exclusive
  BY ClearersAssumption DEF Claims
<1>2. ASSUME NEW d \in Claims, EmptyStaging(k, d) PROVE ClearanceInv'
  <2> USE <1>2 DEF EmptyStaging
  <2>1. ClaimsSound'
    BY ClearsStaging DEF ClaimsSound, TypeOK
  <2>2. ClearanceTypeOK'
    BY <2>1 DEF ClearanceTypeOK, ClaimsSound
  <2>3. Sweeping'
    BY DEF Sweeping, ClearanceTypeOK
  <2>4. Emptied'
    BY DEF Emptied, ClearanceTypeOK, TypeOK
  <2> QED BY <2>1, <2>2, <2>3, <2>4
<1>3. ASSUME NEW d \in Claims, DropStaging(k, d) PROVE ClearanceInv'
  <2> USE <1>3 DEF DropStaging
  <2>1. ClaimsSound'
    BY ClearsStaging DEF ClaimsSound, TypeOK
  <2>2. ClearanceTypeOK'
    BY <2>1 DEF ClearanceTypeOK, ClaimsSound
  <2>3. Sweeping'
    BY DEF Sweeping, ClearanceTypeOK
  <2>4. Emptied'
    BY DEF Emptied, Sweeping, ClearanceTypeOK, TypeOK
  <2> QED BY <2>1, <2>2, <2>3, <2>4
<1>4. ASSUME NEW d \in Claims, SweepFails(k, d) PROVE ClearanceInv'
  <2> USE <1>4 DEF SweepFails
  <2>1. ClaimsSound'
    BY ClearsStaging DEF ClaimsSound, TypeOK
  <2>2. ClearanceTypeOK'
    BY <2>1 DEF ClearanceTypeOK, ClaimsSound
  <2>3. Sweeping'
    BY DEF Sweeping, ClearanceTypeOK
  <2>4. Emptied'
    BY DEF Emptied, Sweeping, ClearanceTypeOK, TypeOK
  <2> QED BY <2>1, <2>2, <2>3, <2>4
<1>5. ASSUME BeginSweep(k) PROVE ClearanceInv'
  <2> USE <1>5 DEF BeginSweep
  <2>1. ClaimsSound'
    BY ClearsStaging DEF ClaimsSound, TypeOK
  <2>2. ClearanceTypeOK'
    BY <2>1 DEF ClearanceTypeOK, ClaimsSound
  <2>3. removing[k] = {}
    BY DEF Sweeping
  <2>4. Sweeping'
    BY <2>3 DEF Sweeping, ClearanceTypeOK
  <2>5. Emptied'
    BY DEF Emptied
  <2> QED BY <2>1, <2>2, <2>4, <2>5
<1>6. ASSUME ReleaseSwept(k) PROVE ClearanceInv'
  <2> USE <1>6 DEF ReleaseSwept
  <2>1. Next
    BY <1>1 DEF Next, Hold
  <2>2. ClaimsSound'
    BY <2>1, PublishedComplete, ClaimsSoundStep
  <2>3. ClearanceTypeOK'
    BY <2>2 DEF ClearanceTypeOK, ClaimsSound, Answers
  <2>4. Sweeping'
    BY <1>1, SMTT(30) DEF Sweeping, Sweeped, Release, ClearanceTypeOK, TypeOK
  <2>5. Emptied'
    BY <1>1, SMTT(30) DEF Emptied, Release, fsVars, TypeOK, ClearanceTypeOK
  <2> QED BY <2>2, <2>3, <2>4, <2>5
<1>7. ASSUME TidySet(k) \/ Answered(k) \/ NotAcquired(k) PROVE ClearanceInv'
  <2> USE <1>7 DEF TidySet, Answered, NotAcquired
  <2>1. ClaimsSound'
    BY ClearsStaging DEF ClaimsSound, TypeOK
  <2>2. ClearanceTypeOK'
    BY <2>1 DEF ClearanceTypeOK, ClaimsSound, Answers
  <2>3. sweep[k] = {}
    BY DEF Sweeping
  <2>4. Sweeping'
    BY <2>3 DEF Sweeping, ClearanceTypeOK
  <2>5. Emptied'
    BY DEF Emptied
  <2> QED BY <2>1, <2>2, <2>4, <2>5, SMTT(30)
<1> HIDE DEF ClearanceInv
<1> QED BY <1>2, <1>3, <1>4, <1>5, <1>6, <1>7, Zenon DEF Clear

\* In every behaviour in which no clearer is killed inside the removal of one entry,
\* the claim protocol keeps its invariant beside garbage collection.
THEOREM ClearanceInvariance ==
    ASSUME ~KilledInRemoval
    PROVE  ClearanceSpec => []ClearanceInv
<1>1. ClearanceInit => ClearanceInv
  <2> SUFFICES ASSUME ClearanceInit PROVE ClearanceInv
    OBVIOUS
  <2>1. ClaimsSound
    BY IndInvInit DEF ClearanceInit, IndInv
  <2>2. ClearanceTypeOK
    BY <2>1 DEF ClearanceInit, ClearanceTypeOK, ClaimsSound
  <2>3. Sweeping /\ Emptied
    BY DEF ClearanceInit, Init, Sweeping, Emptied
  <2> QED BY <2>1, <2>2, <2>3 DEF ClearanceInv
<1>2. ClearanceInv /\ [ClearanceNext]_allVars => ClearanceInv'
  <2> SUFFICES ASSUME ClearanceInv, [ClearanceNext]_allVars PROVE ClearanceInv'
    OBVIOUS
  <2>1. ASSUME NEW c \in Claims, Others(c) PROVE ClearanceInv'
    BY <2>1, OthersStep
  <2>2. ASSUME NEW k \in Clearers, Clear(k) PROVE ClearanceInv'
    BY <2>2, ClearStep
  <2>3. ASSUME UNCHANGED allVars PROVE ClearanceInv'
    <3> USE <2>3 DEF allVars, vars, ClearanceInv
    <3>1. ClaimsSound'
      BY ClearsStaging DEF ClaimsSound, TypeOK, callVars
    <3> QED BY <3>1, SMTT(30) DEF ClearanceTypeOK, ClaimsSound, Sweeping, Emptied
  <2> QED BY <2>1, <2>2, <2>3 DEF ClearanceNext
<1> QED BY <1>1, <1>2, PTL DEF ClearanceSpec

\* clearFreeClaimSet removes staging only inside its sweep, under its claim.
THEOREM SweepsUnderClaimHolds ==
    ASSUME ~KilledInRemoval
    PROVE  ClearanceSpec => []SweepsUnderClaim
<1>1. ClearanceInv => SweepsUnderClaim
  BY ClearersAssumption
  DEF ClearanceInv, Sweeping, SweepsUnderClaim, ClaimsSound, Owned, Up, Claims
<1> QED BY <1>1, ClearanceInvariance, PTL

\* Garbage collection of a claim set lets no two incompatible claims be used at
\* a time, although it removes the staging of calls that are about to publish.
THEOREM ClearanceExclusion ==
    ASSUME ~KilledInRemoval
    PROVE  ClearanceSpec => []Exclusion
<1>1. ClearanceInv => Exclusion
  BY SoundExclusion DEF ClearanceInv
<1> QED BY <1>1, ClearanceInvariance, PTL

\* Nor does it take a claim in use out of the set.
THEOREM ClearanceKeeps ==
    ASSUME ~KilledInRemoval
    PROVE  ClearanceSpec => []InUseKept
<1>1. ClearanceInv => InUseKept
  BY SoundKept DEF ClearanceInv
<1> QED BY <1>1, ClearanceInvariance, PTL
=============================================================================
