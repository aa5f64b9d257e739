------------------------ MODULE OwnershipClaimProofs ------------------------
(***************************************************************************)
(* Proofs about OwnershipClaim, for any sets of exclusive and shared calls *)
(* and any number of publishing attempts.  The argument is the inductive   *)
(* invariant IndInv:                                                       *)
(*   - a live holder's claim is in the set, and so is one whose child runs *)
(*     (Owned, Declared);                                                  *)
(*   - a verdict that leads to an unlink can only become truer             *)
(*     (SurveysSound), so no stale survey removes such a claim;            *)
(*   - hence a call that looks after it published finds every incompatible *)
(*     claim that was published before it looked (NeverBothMissed), and    *)
(*     renaming onto exclusive/ admits one writer (OneWriter).             *)
(***************************************************************************)
EXTENDS OwnershipClaim, TLAPS

\* The state in which no claim exists satisfies the invariant.
LEMMA IndInvInit == Init => IndInv
<1> SUFFICES ASSUME Init PROVE IndInv
  OBVIOUS
<1>1. TypeOK
  <2>1. 0 \in 0..PublishAttempts
    BY AttemptsAssumption
  <2>2. verdict \in [Claims -> [Claims -> Verdicts]]
    BY DEF Init, Verdicts
  <2> QED BY <2>1, <2>2 DEF Init, TypeOK, Steps
<1>2. Counted /\ Owned /\ Declared /\ SurveysSound
  BY DEF Init, Counted, Owned, Declared, SurveysSound, Up, Working
<1>3. OneWriter /\ NeverBothMissed /\ Staged
  BY DEF Init, OneWriter, NeverBothMissed, InForce, Working, Claims, Staged
<1> QED BY <1>1, <1>2, <1>3 DEF IndInv, ClaimsSound

\* Every system call, death and child of every process preserves it, provided
\* that what is renamed onto exclusive/ or into shared/ is complete.
LEMMA ClaimsSoundStep ==
    ASSUME ClaimsSound, [Next]_vars, \A c \in Claims : Publish(c) => staging[c] = "full"
    PROVE  ClaimsSound'
<1> USE ModesAssumption, AttemptsAssumption, SpawnersAssumption
    DEF Claims, ClaimsSound, TypeOK, Steps, Verdicts, Counted, Owned, Declared, SurveysSound,
        OneWriter, NeverBothMissed, Missed, InForce, Up, Working, fsVars, callVars
<1>1. ASSUME NEW c \in Claims, Begin(c) PROVE ClaimsSound'
  BY <1>1, SMTT(30) DEF Begin, Goto, Clean
<1>2. ASSUME NEW c \in Claims, ListExclusive(c) PROVE ClaimsSound'
  <2>1. TypeOK'
    BY <1>2, SMTT(30) DEF ListExclusive, Listing
  <2>2. (Counted /\ Owned /\ Declared /\ OneWriter)'
    BY <1>2, SMTT(30) DEF ListExclusive
  <2>3. SurveysSound'
    BY <1>2, SMTT(30) DEF ListExclusive, Listing
  <2>4. NeverBothMissed'
    BY <1>2, SMTT(30) DEF ListExclusive, Listing
  <2> QED BY <2>1, <2>2, <2>3, <2>4
<1>3. ASSUME NEW c \in Claims, ListShared(c) PROVE ClaimsSound'
  <2>1. TypeOK'
    BY <1>3, SMTT(30) DEF ListShared, Listing
  <2>2. (Counted /\ Owned /\ Declared /\ OneWriter)'
    BY <1>3, SMTT(30) DEF ListShared
  <2>3. SurveysSound'
    BY <1>3, SMTT(30) DEF ListShared, Listing
  <2>4. NeverBothMissed'
    BY <1>3, SMTT(30) DEF ListShared, Listing, Pending
  <2> QED BY <2>1, <2>2, <2>3, <2>4
<1>4. ASSUME NEW c \in Claims, NEW d \in Claims, ReadOwner(c, d) PROVE ClaimsSound'
  <2>1. (TypeOK /\ Counted)'
    BY <1>4, SMTT(30) DEF ReadOwner, OwnerAnswers
  <2>2. (Owned /\ Declared)'
    BY <1>4, SMTT(30) DEF ReadOwner, OwnerAnswers
  <2>3. (SurveysSound /\ OneWriter)'
    BY <1>4, SMTT(30) DEF ReadOwner, OwnerAnswers
  <2>4. NeverBothMissed'
    BY <1>4, SMTT(30) DEF ReadOwner, OwnerAnswers
  <2> QED BY <2>1, <2>2, <2>3, <2>4
<1>5. ASSUME NEW c \in Claims, NEW d \in Claims, ReadChild(c, d) PROVE ClaimsSound'
  <2>1. (TypeOK /\ Counted)'
    BY <1>5, SMTT(30) DEF ReadChild, ChildAnswers
  <2>2. (Owned /\ Declared)'
    BY <1>5, SMTT(30) DEF ReadChild, ChildAnswers
  <2>3. (SurveysSound /\ OneWriter)'
    BY <1>5, SMTT(30) DEF ReadChild, ChildAnswers
  <2>4. NeverBothMissed'
    BY <1>5, SMTT(30) DEF ReadChild, ChildAnswers
  <2> QED BY <2>1, <2>2, <2>3, <2>4
<1>6. ASSUME NEW c \in Claims, Refuse(c) PROVE ClaimsSound'
  BY <1>6, SMTT(30) DEF Refuse, Goto, Clean, Surveyed
<1>7. ASSUME NEW c \in Claims, Resolve(c) PROVE ClaimsSound'
  BY <1>7, SMTT(30) DEF Resolve, Surveyed
<1>8. ASSUME NEW c \in Claims, NEW d \in Claims, RemoveOrphan(c, d) PROVE ClaimsSound'
  BY <1>8, SMTT(30) DEF RemoveOrphan
<1>9. ASSUME NEW c \in Claims, NEW d \in Claims, ReapGone(c, d) PROVE ClaimsSound'
  BY <1>9, SMTT(30) DEF ReapGone
<1>10. ASSUME NEW c \in Claims, NEW d \in Claims, ReapChild(c, d) PROVE ClaimsSound'
  BY <1>10, SMTT(30) DEF ReapChild
<1>11. ASSUME NEW c \in Claims, NEW d \in Claims, ReapClaim(c, d) PROVE ClaimsSound'
  BY <1>11, SMTT(30) DEF ReapClaim
<1>12. ASSUME NEW c \in Claims, Inspected(c) PROVE ClaimsSound'
  <2>1. attempts[c] # PublishAttempts => attempts[c] < PublishAttempts
    <3>1. attempts[c] \in 0..PublishAttempts
      OBVIOUS
    <3> HIDE DEF ClaimsSound, TypeOK
    <3> QED BY <3>1
  <2>2. TypeOK'
    BY <1>12, SMTT(30) DEF Inspected, TidyShared, Goto, Clean
  <2>3. Counted'
    BY <1>12, <2>1, SMTT(30) DEF Inspected, Goto
  <2>4. (Owned /\ Declared /\ SurveysSound /\ OneWriter /\ NeverBothMissed)'
    BY <1>12, SMTT(30) DEF Inspected, Reaped, Goto, Clean
  <2> QED BY <2>2, <2>3, <2>4
<1>13. ASSUME NEW c \in Claims, MakeStagingDir(c) PROVE ClaimsSound'
  BY <1>13, SMTT(30) DEF MakeStagingDir
<1>14. ASSUME NEW c \in Claims, MakeSharedDir(c) PROVE ClaimsSound'
  BY <1>14, SMTT(30) DEF MakeSharedDir
<1>15. ASSUME NEW c \in Claims, WriteStaging(c) PROVE ClaimsSound'
  BY <1>15, SMTT(30) DEF WriteStaging
<1>16. ASSUME NEW c \in Claims, Publish(c) PROVE ClaimsSound'
  <2>0. staging[c] = "full"
    BY <1>16, SMTT(30)
  <2>1. (TypeOK /\ Counted)'
    BY <1>16, <2>0, SMTT(30) DEF Publish, CanRename, Entries
  <2>2. (Owned /\ Declared)'
    BY <1>16, <2>0, SMTT(30) DEF Publish, CanRename, Entries
  <2>3. (SurveysSound /\ OneWriter)'
    BY <1>16, <2>0, SMTT(30) DEF Publish, CanRename, Entries
  <2>4. NeverBothMissed'
    BY <1>16, <2>0, SMTT(30) DEF Publish, CanRename, Entries
  <2> QED BY <2>1, <2>2, <2>3, <2>4, SMTT(30)
<1>17. ASSUME NEW c \in Claims, Retry(c) PROVE ClaimsSound'
  BY <1>17, SMTT(30) DEF Retry
<1>18. ASSUME NEW c \in Claims, Settled(c) PROVE ClaimsSound'
  <2>1. (TypeOK /\ Counted)'
    BY <1>18, SMTT(30) DEF Settled, Settlement, Reaped, TidyShared, Finds, Goto, Clean
  <2>2. (Owned /\ Declared)'
    BY <1>18, SMTT(30) DEF Settled, Settlement, Reaped, TidyShared, Finds, Goto, Clean
  <2>3. (SurveysSound /\ OneWriter)'
    BY <1>18, SMTT(30) DEF Settled, Settlement, Reaped, TidyShared, Finds, Goto, Clean
  <2>4. NeverBothMissed'
    BY <1>18, SMTT(30) DEF Settled, Settlement, Reaped, TidyShared, Finds, Goto, Clean
  <2> QED BY <2>1, <2>2, <2>3, <2>4
<1>19. ASSUME NEW c \in Claims, ReleaseChild(c) PROVE ClaimsSound'
  BY <1>19, SMTT(30) DEF ReleaseChild
<1>20. ASSUME NEW c \in Claims, ReleaseFile(c) PROVE ClaimsSound'
  BY <1>20, SMTT(30) DEF ReleaseFile
<1>21. ASSUME NEW c \in Claims, SettleClaim(c) PROVE ClaimsSound'
  BY <1>21, SMTT(30) DEF SettleClaim
<1>22. ASSUME NEW c \in Claims, GiveUpPending(c) PROVE ClaimsSound'
  BY <1>22, SMTT(30) DEF GiveUpPending
<1>23. ASSUME NEW c \in Claims, Release(c) PROVE ClaimsSound'
  BY <1>23, SMTT(30) DEF Release
<1>24. ASSUME NEW c \in Claims, DeclareChild(c) PROVE ClaimsSound'
  <2>1. (TypeOK /\ Counted)'
    BY <1>24, SMTT(30) DEF DeclareChild
  <2>2. (Owned /\ Declared)'
    BY <1>24, SMTT(30) DEF DeclareChild
  <2>3. (SurveysSound /\ OneWriter)'
    BY <1>24, SMTT(30) DEF DeclareChild
  <2>4. NeverBothMissed'
    BY <1>24, SMTT(30) DEF DeclareChild
  <2> QED BY <2>1, <2>2, <2>3, <2>4
<1>25. ASSUME NEW c \in Claims, Spawn(c) PROVE ClaimsSound'
  <2>1. (TypeOK /\ Counted)'
    BY <1>25, SMTT(30) DEF Spawn
  <2>2. (Owned /\ Declared)'
    BY <1>25, SMTT(30) DEF Spawn
  <2>3. (SurveysSound /\ OneWriter)'
    BY <1>25, SMTT(30) DEF Spawn
  <2>4. NeverBothMissed'
    BY <1>25, SMTT(30) DEF Spawn
  <2> QED BY <2>1, <2>2, <2>3, <2>4
<1>26. ASSUME NEW c \in Claims, RecordChild(c) PROVE ClaimsSound'
  <2>1. (TypeOK /\ Counted)'
    BY <1>26, SMTT(30) DEF RecordChild
  <2>2. (Owned /\ Declared)'
    BY <1>26, SMTT(30) DEF RecordChild
  <2>3. (SurveysSound /\ OneWriter)'
    BY <1>26, SMTT(30) DEF RecordChild
  <2>4. NeverBothMissed'
    BY <1>26, SMTT(30) DEF RecordChild
  <2> QED BY <2>1, <2>2, <2>3, <2>4
<1>27. ASSUME NEW c \in Claims, ClearChild(c) PROVE ClaimsSound'
  <2>1. (TypeOK /\ Counted)'
    BY <1>27, SMTT(30) DEF ClearChild
  <2>2. (Owned /\ Declared)'
    BY <1>27, SMTT(30) DEF ClearChild
  <2>3. (SurveysSound /\ OneWriter)'
    BY <1>27, SMTT(30) DEF ClearChild
  <2>4. NeverBothMissed'
    BY <1>27, SMTT(30) DEF ClearChild
  <2> QED BY <2>1, <2>2, <2>3, <2>4
<1>28. ASSUME NEW c \in Claims, ChildExit(c) PROVE ClaimsSound'
  BY <1>28, SMTT(30) DEF ChildExit
<1>29. ASSUME NEW c \in Claims, GroupExit(c) PROVE ClaimsSound'
  BY <1>29, SMTT(30) DEF GroupExit
<1>30. ASSUME NEW c \in Claims, Crash(c) PROVE ClaimsSound'
  <2>1. (TypeOK /\ Counted)'
    BY <1>30, SMTT(30) DEF Crash, Goto, Clean
  <2>2. (Owned /\ Declared)'
    BY <1>30, SMTT(30) DEF Crash, Goto, Clean
  <2>3. (SurveysSound /\ OneWriter)'
    BY <1>30, SMTT(30) DEF Crash, Goto, Clean
  <2>4. NeverBothMissed'
    BY <1>30, SMTT(30) DEF Crash, Goto, Clean
  <2> QED BY <2>1, <2>2, <2>3, <2>4
<1>31. ASSUME NEW c \in Claims, RemoveByHand(c) PROVE ClaimsSound'
  BY <1>31, SMTT(30) DEF RemoveByHand
<1>32. CASE UNCHANGED vars
  BY <1>32, SMTT(30) DEF vars
<1> HIDE DEF Claims, ClaimsSound, TypeOK, Steps, Verdicts, Counted, Owned, Declared, SurveysSound,
             OneWriter, NeverBothMissed, Missed, InForce, Up, Working, fsVars, callVars
<1> QED
  BY <1>1, <1>2, <1>3, <1>4, <1>5, <1>6, <1>7, <1>8, <1>9, <1>10, <1>11, <1>12, <1>13, <1>14, <1>15, <1>16,
     <1>17, <1>18, <1>19, <1>20, <1>21, <1>22, <1>23, <1>24, <1>25, <1>26, <1>27, <1>28, <1>29, <1>30, <1>31,
     <1>32
  DEF Next, Call, Hold, Environment

\* Without garbage collection only the call itself touches its staging entry.
LEMMA IndInvStep == IndInv /\ [Next]_vars => IndInv'
<1> SUFFICES ASSUME IndInv, [Next]_vars PROVE IndInv'
  OBVIOUS
<1>1. \A c \in Claims : Publish(c) => staging[c] = "full"
  BY DEF IndInv, Staged, Publish
<1>2. ClaimsSound'
  BY <1>1, ClaimsSoundStep, SMTT(30) DEF IndInv
<1>3. Staged'
  <2> SUFFICES ASSUME NEW x \in Claims, pc'[x] = "rename" PROVE staging'[x] = "full"
    BY SMTT(30) DEF Staged
  <2> USE DEF IndInv, ClaimsSound, Staged, TypeOK, fsVars, callVars
  <2>1. ASSUME NEW c \in Claims,
               \/ Begin(c) \/ ListExclusive(c) \/ ListShared(c) \/ Refuse(c) \/ Resolve(c)
               \/ Inspected(c) \/ Settled(c) \/ SettleClaim(c) \/ GiveUpPending(c) \/ Release(c)
               \/ ReleaseChild(c) \/ ReleaseFile(c) \/ Crash(c)
        PROVE  staging'[x] = "full"
    BY <2>1, SMTT(30)
    DEF Begin, ListExclusive, ListShared, Refuse, Resolve, Inspected, Settled, Settlement, SettleClaim,
        GiveUpPending, Release, ReleaseChild, ReleaseFile, Crash, Goto
  <2>2. ASSUME NEW c \in Claims,
               MakeStagingDir(c) \/ MakeSharedDir(c) \/ WriteStaging(c) \/ Publish(c) \/ Retry(c)
        PROVE  staging'[x] = "full"
    BY <2>2 DEF MakeStagingDir, MakeSharedDir, WriteStaging, Publish, Retry
  <2>3. ASSUME staging' = staging, pc' = pc PROVE staging'[x] = "full"
    BY <2>3
  <2> HIDE DEF IndInv, ClaimsSound, Staged, TypeOK
  <2> QED BY <2>1, <2>2, <2>3, SMTT(30)
    DEF Next, Call, Hold, Environment, ReadOwner, ReadChild, RemoveOrphan, ReapGone, ReapChild, ReapClaim,
        DeclareChild, Spawn, RecordChild, ClearChild, ChildExit, GroupExit, RemoveByHand, vars
<1> QED BY <1>2, <1>3 DEF IndInv

\* IndInv holds in every reachable state of the claim protocol.
THEOREM Invariance == Spec => []IndInv
BY IndInvInit, IndInvStep, PTL DEF Spec

\* What is in use excludes what it must, in every state of the invariant.
LEMMA SoundExclusion == ClaimsSound => Exclusion
<1> SUFFICES ASSUME ClaimsSound, NEW c \in Claims, NEW d \in Claims,
                    c # d, InUse(c), InUse(d)
             PROVE  c \in Shared /\ d \in Shared
  BY DEF Exclusion
<1>1. \A x \in Claims : InUse(x) => InForce(x) /\ x \in files
  BY DEF ClaimsSound, InUse, InForce, Owned, Declared, Up
<1>2. \A x, y \in Claims : InUse(x) => Missed(x, y)
  BY <1>1 DEF ClaimsSound, InUse, Missed, Owned
<1>3. ~(c \in Exclusive /\ d \in Exclusive)
  BY <1>1 DEF ClaimsSound, OneWriter
<1>4. ~(c \in Exclusive /\ d \in Shared) /\ ~(c \in Shared /\ d \in Exclusive)
  BY <1>1, <1>2 DEF ClaimsSound, NeverBothMissed
<1> QED BY <1>3, <1>4 DEF Claims

\* So does what is in use stay in the set.
LEMMA SoundKept == ClaimsSound => InUseKept
BY DEF ClaimsSound, Owned, Declared, InUseKept, InUse, Up

\* The state of a claim set keeps its shape; the attempts of a call to publish
\* never pass PUBLISH_ATTEMPTS.
THEOREM TypesHold == Spec => []TypeOK
<1>1. IndInv => TypeOK
  BY DEF IndInv, ClaimsSound
<1> QED BY <1>1, Invariance, PTL

\* tryAcquireClaim never lets two incompatible claims be used at a time, also
\* when their holders are dead and only the children they spawned run.
THEOREM ExclusionHolds == Spec => []Exclusion
<1>1. IndInv => Exclusion
  BY SoundExclusion DEF IndInv
<1> QED BY <1>1, Invariance, PTL

\* inspectClaimSet never unlinks the claim of a live holder or a live child.
THEOREM InUseKeptHolds == Spec => []InUseKept
<1>1. IndInv => InUseKept
  BY SoundKept DEF IndInv
<1> QED BY <1>1, Invariance, PTL

\* A call that ended, refused, held or released, left nothing in the set.
THEOREM NothingLeftHolds == Spec => []NothingLeft
<1>1. IndInv => NothingLeft
  BY DEF IndInv, ClaimsSound, Owned, Declared, NothingLeft, Up
<1> QED BY <1>1, Invariance, PTL

\* A step of one call moves only that call, its staging entry and its child:
\* a survey that removes what the dead left touches their files alone.
LEMMA OwnStep ==
    ASSUME TypeOK, NEW c \in Claims, Call(c) \/ Hold(c) \/ Environment(c),
           NEW x \in Claims, x # c
    PROVE  pc'[x] = pc[x] /\ work'[x] = work[x] /\ staging'[x] = staging[x]
<1> DEFINE Still == pc'[x] = pc[x] /\ work'[x] = work[x] /\ staging'[x] = staging[x]
<1> SUFFICES Still
  BY Zenon
<1> USE DEF fsVars, callVars, Goto
<1>1. ASSUME NEW d \in Claims, ReadOwner(c, d) \/ ReadChild(c, d) PROVE Still
  BY <1>1, Zenon DEF ReadOwner, ReadChild
<1>2. ASSUME NEW d \in Claims,
             RemoveOrphan(c, d) \/ ReapGone(c, d) \/ ReapChild(c, d) \/ ReapClaim(c, d)
      PROVE  Still
  BY <1>2, Zenon DEF RemoveOrphan, ReapGone, ReapChild, ReapClaim
<1>3. CASE Begin(c) \/ ListExclusive(c) \/ ListShared(c)
  BY <1>3 DEF TypeOK, Begin, ListExclusive, ListShared
<1>4. CASE Refuse(c) \/ Resolve(c) \/ Inspected(c)
  BY <1>4 DEF TypeOK, Refuse, Resolve, Inspected
<1>5. CASE MakeStagingDir(c) \/ MakeSharedDir(c) \/ WriteStaging(c)
  BY <1>5 DEF TypeOK, MakeStagingDir, MakeSharedDir, WriteStaging
<1>6. CASE Publish(c) \/ Retry(c)
  BY <1>6 DEF TypeOK, Publish, Retry
<1>7. CASE Settled(c) \/ ReleaseChild(c) \/ ReleaseFile(c)
  BY <1>7 DEF TypeOK, Settled, ReleaseChild, ReleaseFile
<1>8. CASE SettleClaim(c) \/ GiveUpPending(c) \/ Release(c)
  BY <1>8 DEF TypeOK, SettleClaim, GiveUpPending, Release
<1>9. CASE DeclareChild(c) \/ Spawn(c) \/ RecordChild(c) \/ ClearChild(c)
  BY <1>9 DEF TypeOK, DeclareChild, Spawn, RecordChild, ClearChild
<1>10. CASE Environment(c)
  BY <1>10 DEF TypeOK, Environment, ChildExit, GroupExit, Crash, RemoveByHand
<1> HIDE DEF Still
<1>11. CASE Call(c)
  BY <1>11, <1>1, <1>2, <1>3, <1>4, <1>5, <1>6, <1>7, Zenon DEF Call
<1>12. CASE Hold(c)
  BY <1>12, <1>8, <1>9, Zenon DEF Hold
<1> QED BY <1>10, <1>11, <1>12, Zenon

\* Each step of the protocol changes the claims in use by at most one.
LEMMA OneAtATime ==
    ASSUME IndInv, [Next]_vars
    PROVE  \/ \A x \in Claims : InUse(x)' = InUse(x)
           \/ \E c \in Claims : /\ InUse(c)' # InUse(c)
                               /\ \A x \in Claims \ {c} : InUse(x)' = InUse(x)
<1>1. ASSUME NEW c \in Claims, Call(c) \/ Hold(c) \/ Environment(c)
      PROVE  \A x \in Claims \ {c} : InUse(x)' = InUse(x)
  <2> SUFFICES ASSUME NEW x \in Claims, x # c PROVE InUse(x)' = InUse(x)
    BY Zenon
  <2>1. TypeOK
    BY Zenon DEF IndInv, ClaimsSound
  <2>2. pc'[x] = pc[x] /\ work'[x] = work[x]
    BY <1>1, <2>1, OwnStep, Zenon
  <2> QED BY <2>2, Zenon DEF InUse, Working
<1>2. CASE UNCHANGED vars
  BY <1>2, Zenon DEF vars, InUse, Working
<1>3. CASE Next
  <2>1. PICK c \in Claims : Call(c) \/ Hold(c) \/ Environment(c)
    BY <1>3, Zenon DEF Next
  <2>2. \A x \in Claims \ {c} : InUse(x)' = InUse(x)
    BY <2>1, <1>1, Zenon
  <2>3. CASE InUse(c)' = InUse(c)
    BY <2>2, <2>3, Zenon
  <2> QED BY <2>2, <2>3, Zenon
<1> QED BY <1>2, <1>3, Zenon

\* The claim protocol implements the readers and writer lock: what it lets be
\* used at a time is what ClaimLock grants.
THEOREM LockImplemented == Spec => ImplementsLock
<1> DEFINE held == {c \in Claims : InUse(c)}
<1>1. Init => Lock!Init
  BY DEF Init, Lock!Init, InUse, Working
<1>2. IndInv /\ IndInv' /\ [Next]_vars => [Lock!Next]_held
  <2> SUFFICES ASSUME IndInv, IndInv', [Next]_vars, ~ UNCHANGED held
               PROVE  Lock!Next
    BY DEF Lock!Next
  <2>1. PICK c \in Claims : /\ InUse(c)' # InUse(c)
                            /\ \A x \in Claims \ {c} : InUse(x)' = InUse(x)
    BY OneAtATime
  <2>2. CASE InUse(c)
    <3>1. held' = held \ {c}
      BY <2>1, <2>2 DEF InUse
    <3> QED BY <2>2, <3>1 DEF Lock!Next, Lock!Drop, Claims
  <2>3. CASE ~InUse(c)
    <3>1. InUse(c)' /\ held' = held \cup {c}
      BY <2>1, <2>3 DEF InUse
    <3>2. Exclusion'
      BY SoundExclusion, PTL DEF IndInv
    <3>3. IF c \in Exclusive THEN held = {} ELSE held \subseteq Shared
      BY <3>1, <3>2, ModesAssumption DEF Exclusion
    <3> QED BY <2>3, <3>1, <3>3 DEF Lock!Next, Lock!Grant, Claims
  <2> QED BY <2>2, <2>3
<1> QED BY <1>1, <1>2, Invariance, PTL DEF Spec, ImplementsLock, Lock!Spec
=============================================================================
