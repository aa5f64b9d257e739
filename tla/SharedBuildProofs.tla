------------------------- MODULE SharedBuildProofs -------------------------
(***************************************************************************)
(* The build lock and the store, for any runs, keys, slots and kills: runs *)
(* with one key never compile together unless one goes without the lock,   *)
(* and what was stored stays.                                              *)
(***************************************************************************)
EXTENDS SharedBuild, TLAPS

-----------------------------------------------------------------------------
\* A run that takes the lock of its key finds no other claim on it that counts, a
\* run that leaves gives back only its own, and no claim of a dead run counts anew.
LEMMA LockStep ==
    ASSUME IndInv, [Next]_vars PROVE HolderLocks'
<1> USE RunsAssumption, KeysAssumption DEF IndInv, TypeOK, HolderLocks, ClaimLive, claims
<1>1. ASSUME NEW r \in Runs, r \notin dead, dead' = dead,
             \A s \in Runs \ {r} : child'[s] = child[s],
             \E outcome \in Ended : Leave(r, outcome)
      PROVE  HolderLocks'
  <2>1. PICK outcome \in Ended : Leave(r, outcome)
    BY <1>1
  <2> SUFFICES ASSUME NEW s \in Runs, handle'[s], s \notin dead \/ child'[s] PROVE lock'[KeyAt[s]] = s
    BY <1>1
  <2>2. s # r /\ handle[s] /\ lock[KeyAt[s]] = s
    BY <1>1, <2>1 DEF Leave
  <2>3. handle[r] => lock[KeyAt[r]] = r
    BY <1>1
  <2> QED BY <2>1, <2>2, <2>3 DEF Leave
<1>2. ASSUME lock' = lock, handle' = handle,
             \A s \in Runs : ClaimLive(s)' => ClaimLive(s)
      PROVE  HolderLocks'
  BY <1>2
<1>3. ASSUME NEW r \in Runs, TakeLock(r) PROVE HolderLocks'
  <2> SUFFICES ASSUME NEW s \in Runs, handle'[s], s \notin dead \/ child[s] PROVE lock'[KeyAt[s]] = s
    BY <1>3 DEF TakeLock
  <2>1. CASE s = r
    BY <1>3, <2>1 DEF TakeLock
  <2>2. CASE s # r
    <3>1. handle[s] /\ lock[KeyAt[s]] = s
      BY <1>3, <2>2 DEF TakeLock
    <3>2. KeyAt[s] # KeyAt[r]
      BY <1>3, <3>1 DEF TakeLock, LockLive
    <3> QED BY <1>3, <3>1, <3>2 DEF TakeLock
  <2> QED BY <2>1, <2>2
<1>4. ASSUME NEW r \in Runs, Resolve(r) \/ LockHeld(r) \/ Look(r) \/ Survey(r) \/ LockFails(r) PROVE HolderLocks'
  BY <1>2, <1>4 DEF Resolve, LockHeld, Look, Survey, LockFails
<1>5. ASSUME NEW r \in Runs, LockRefused(r) \/ WaitTimesOut(r) \/ EndForSwitch(r) \/ Fail(r) PROVE HolderLocks'
  <2>1. Leave(r, "failed") /\ r \notin dead /\ dead' = dead
    BY <1>5 DEF LockRefused, WaitTimesOut, EndForSwitch, Fail, At
  <2>2. \A s \in Runs \ {r} : child'[s] = child[s]
    BY <1>5 DEF LockRefused, WaitTimesOut, EndForSwitch, Fail
  <2> QED BY <1>1, <2>1, <2>2 DEF Ended
<1>6. ASSUME NEW r \in Runs, Reuse(r) \/ Revalidate(r) \/ Validate(r) PROVE HolderLocks'
  <2>1. CASE \E outcome \in Ended : Leave(r, outcome)
    <3>1. r \notin dead /\ dead' = dead /\ \A s \in Runs \ {r} : child'[s] = child[s]
      BY <1>6 DEF Reuse, Revalidate, Validate, At
    <3> QED BY <1>1, <2>1, <3>1
  <2>2. CASE lock' = lock /\ handle' = handle
    BY <1>2, <1>6, <2>2 DEF Reuse, Revalidate, Validate, At
  <2> QED BY <1>6, <2>1, <2>2 DEF Reuse, Revalidate, Validate, Ended
<1>7. ASSUME NEW r \in Runs, Admit(r) \/ Prepare(r) \/ Compiled(r) \/ StorePublishes(r) \/ Evict(r) \/ Kill(r) \/ ChildEnds(r)
      PROVE  HolderLocks'
  BY <1>2, <1>7 DEF Admit, Prepare, Compiled, StorePublishes, Evict, Kill, ChildEnds, At
<1>8. ASSUME NEW r \in Runs,
             StoreStarts(r) \/ StoreCopied(r) \/ SetAside(r) \/ RenameIn(r) \/ Restore(r)
      PROVE  HolderLocks'
  <2>1. r \notin dead /\ dead' = dead /\ child' = child
    BY <1>8 DEF StoreStarts, StoreCopied, StoreLooks, SetAside, RenameIn, Restore, At
  <2>2. CASE \E outcome \in Ended : Leave(r, outcome)
    BY <1>1, <2>1, <2>2
  <2>3. CASE lock' = lock /\ handle' = handle
    BY <1>2, <2>1, <2>3
  <2> QED BY <1>8, <2>2, <2>3 DEF StoreStarts, StoreCopied, StoreLooks, SetAside, RenameIn, Restore, Ended
<1>9. CASE UNCHANGED vars
  BY <1>2, <1>9 DEF vars
<1> QED BY <1>3, <1>4, <1>5, <1>6, <1>7, <1>8, <1>9 DEF Next, Step, Claiming, Building, Trouble

-----------------------------------------------------------------------------
\* Every variable keeps its values: the entries are of runs, the claims of runs.
LEMMA TypeStep ==
    ASSUME IndInv, [Next]_vars PROVE TypeOK'
<1> DEFINE Claims == /\ lock \in [Keys -> Runs \cup {0}] /\ handle \in [Runs -> BOOLEAN]
                     /\ slots \subseteq Runs /\ unlocked \subseteq Runs
<1> DEFINE Place == pc \in [Runs -> Steps]
<1> DEFINE Data == /\ cache \in [Keys -> Runs \cup {0}] /\ aside \in [Runs -> Runs \cup {0}] /\ evicted \subseteq Keys
                   /\ key \in [Runs -> Keys] /\ fell \in [Runs -> BOOLEAN] /\ built \in [Runs -> BOOLEAN]
                   /\ child \in [Runs -> BOOLEAN] /\ dead \subseteq Runs
<1> USE RunsAssumption, KeysAssumption
<1>0. Claims /\ Place /\ Data
  BY DEF IndInv, TypeOK
<1>1. ASSUME NEW r \in Runs, NEW step \in Steps, Goto(r, step) PROVE Place'
  BY <1>0, <1>1 DEF Goto
<1>2. ASSUME NEW r \in Runs, NEW outcome \in Ended, Leave(r, outcome) PROVE Claims' /\ Place'
  <2>1. Place'
    BY <1>1, <1>2 DEF Leave, Steps
  <2>2. Claims'
    BY <1>0, <1>2 DEF Leave
  <2> QED BY <2>1, <2>2
<1>3. ASSUME UNCHANGED claims PROVE Claims'
  BY <1>0, <1>3 DEF claims
<1>4. ASSUME NEW r \in Runs, Resolve(r) \/ LockHeld(r) \/ Look(r) \/ Survey(r) \/ LockFails(r)
      PROVE  (Claims /\ Place /\ Data)'
  <2>1. Place'
    BY <1>1, <1>2, <1>4 DEF Resolve, LockHeld, Look, Survey, LockFails, Steps, Storing, Ended
  <2>2. Claims'
    BY <1>0, <1>3, <1>4 DEF Resolve, LockHeld, Look, Survey, LockFails
  <2>3. Data'
    BY <1>0, <1>4 DEF Resolve, LockHeld, Look, Survey, LockFails
  <2> QED BY <2>1, <2>2, <2>3
<1>5. ASSUME NEW r \in Runs, TakeLock(r)
      PROVE  (Claims /\ Place /\ Data)'
  <2>1. Place'
    BY <1>1, <1>2, <1>5 DEF TakeLock, Steps, Storing, Ended
  <2>2. Claims'
    BY <1>0, <1>5 DEF TakeLock
  <2>3. Data'
    BY <1>0, <1>5 DEF TakeLock
  <2> QED BY <2>1, <2>2, <2>3
<1>6. ASSUME NEW r \in Runs, LockRefused(r) \/ WaitTimesOut(r) \/ EndForSwitch(r) \/ Fail(r)
      PROVE  (Claims /\ Place /\ Data)'
  <2>1. Place'
    BY <1>1, <1>2, <1>6 DEF LockRefused, WaitTimesOut, EndForSwitch, Fail, Steps, Storing, Ended
  <2>2. Claims'
    BY <1>2, <1>3, <1>6 DEF LockRefused, WaitTimesOut, EndForSwitch, Fail, Ended
  <2>3. Data'
    BY <1>0, <1>6, ZenonT(30) DEF LockRefused, WaitTimesOut, EndForSwitch, Fail
  <2> QED BY <2>1, <2>2, <2>3
<1>7. ASSUME NEW r \in Runs, Reuse(r) \/ Validate(r) \/ Revalidate(r)
      PROVE  (Claims /\ Place /\ Data)'
  <2>1. Place'
    BY <1>1, <1>2, <1>7 DEF Reuse, Validate, Revalidate, Steps, Storing, Ended
  <2>2. Claims'
    BY <1>2, <1>3, <1>7 DEF Reuse, Validate, Revalidate, Ended
  <2>3. CASE Validate(r)
    <3>1. key' \in [Runs -> Keys]
      BY <1>0, <2>3 DEF Validate
    <3>2. built' \in [Runs -> BOOLEAN]
      BY <1>0, <2>3 DEF Validate, claims
    <3> QED BY <1>0, <2>1, <2>2, <2>3, <3>1, <3>2 DEF Validate
  <2>4. CASE Reuse(r) \/ Revalidate(r)
    <3>1. Data'
      BY <1>0, <2>4 DEF Reuse, Revalidate, LateHit
    <3> QED BY <2>1, <2>2, <3>1
  <2> QED BY <1>7, <2>3, <2>4
<1>8. ASSUME NEW r \in Runs, Admit(r)
      PROVE  (Claims /\ Place /\ Data)'
  <2>1. Place'
    BY <1>1, <1>2, <1>8 DEF Admit, Steps, Storing, Ended
  <2>2. Claims'
    BY <1>0, <1>8 DEF Admit
  <2>3. Data'
    BY <1>0, <1>8 DEF Admit
  <2> QED BY <2>1, <2>2, <2>3
<1>9. ASSUME NEW r \in Runs, Prepare(r) \/ Compiled(r) \/ StorePublishes(r)
      PROVE  (Claims /\ Place /\ Data)'
  <2>1. Place'
    BY <1>1, <1>2, <1>9 DEF Prepare, Compiled, StorePublishes, Steps, Storing, Ended
  <2>2. Claims'
    BY <1>3, <1>9 DEF Prepare, Compiled, StorePublishes
  <2>3. Data'
    <3>1. CASE Prepare(r)
      BY <1>0, <3>1 DEF Prepare
    <3>2. CASE Compiled(r)
      BY <1>0, <3>2 DEF Compiled
    <3>3. CASE StorePublishes(r)
      BY <1>0, <3>3 DEF StorePublishes
    <3> QED BY <1>9, <3>1, <3>2, <3>3
  <2> QED BY <2>1, <2>2, <2>3
<1>10. ASSUME NEW r \in Runs, StoreStarts(r) \/ StoreCopied(r)
      PROVE  (Claims /\ Place /\ Data)'
  <2>1. Place'
    BY <1>1, <1>2, <1>10 DEF StoreStarts, StoreCopied, StoreLooks, Steps, Storing, Ended
  <2>2. Claims'
    BY <1>2, <1>3, <1>10 DEF StoreStarts, StoreCopied, StoreLooks, Ended
  <2>3. Data'
    BY <1>0, <1>10 DEF StoreStarts, StoreCopied, StoreLooks
  <2> QED BY <2>1, <2>2, <2>3
<1>11. ASSUME NEW r \in Runs, SetAside(r)
      PROVE  (Claims /\ Place /\ Data)'
  <2>1. Place'
    BY <1>1, <1>2, <1>11 DEF SetAside, Steps, Storing, Ended
  <2>2. Claims'
    BY <1>2, <1>3, <1>11 DEF SetAside, Ended
  <2>3. Data'
    BY <1>0, <1>11 DEF SetAside
  <2> QED BY <2>1, <2>2, <2>3
<1>12. ASSUME NEW r \in Runs, RenameIn(r)
      PROVE  (Claims /\ Place /\ Data)'
  <2>1. Place'
    BY <1>1, <1>2, <1>12 DEF RenameIn, Steps, Storing, Ended
  <2>2. Claims'
    BY <1>2, <1>3, <1>12 DEF RenameIn, Ended
  <2>3. Data'
    BY <1>0, <1>12 DEF RenameIn
  <2> QED BY <2>1, <2>2, <2>3
<1>13. ASSUME NEW r \in Runs, Restore(r)
      PROVE  (Claims /\ Place /\ Data)'
  <2>1. Place'
    BY <1>1, <1>2, <1>13 DEF Restore, Steps, Storing, Ended
  <2>2. Claims'
    BY <1>2, <1>3, <1>13 DEF Restore, Ended
  <2>3. Data'
    BY <1>0, <1>13 DEF Restore
  <2> QED BY <2>1, <2>2, <2>3
<1>14. ASSUME NEW r \in Runs, Evict(r) \/ Kill(r) \/ ChildEnds(r)
      PROVE  (Claims /\ Place /\ Data)'
  <2>1. Place'
    BY <1>0, <1>14 DEF Evict, Kill, ChildEnds
  <2>2. Claims'
    BY <1>3, <1>14 DEF Evict, Kill, ChildEnds
  <2>3. Data'
    <3>1. CASE Evict(r)
      BY <1>0, <3>1 DEF Evict
    <3>2. CASE Kill(r)
      BY <1>0, <3>2 DEF Kill
    <3>3. CASE ChildEnds(r)
      BY <1>0, <3>3 DEF ChildEnds
    <3> QED BY <1>14, <3>1, <3>2, <3>3
  <2> QED BY <2>1, <2>2, <2>3
<1>15. ASSUME UNCHANGED vars PROVE (Claims /\ Place /\ Data)'
  BY <1>0, <1>15 DEF vars, claims
<1> HIDE DEF Claims, Place, Data
<1>16. (Claims /\ Place /\ Data)'
  BY <1>4, <1>5, <1>6, <1>7, <1>8, <1>9, <1>10, <1>11, <1>12, <1>13, <1>14, <1>15, SMTT(30) DEF Next, Step,
     Claiming, Building, Trouble
<1> QED BY <1>16 DEF TypeOK, Claims, Place, Data

-----------------------------------------------------------------------------
\* A key that has an entry keeps it, has it set aside, or had it evicted.
LEMMA PresentStays ==
    ASSUME IndInv, [Next]_vars, NEW k \in Keys, Present(k) PROVE Present(k)'
<1> USE RunsAssumption, KeysAssumption DEF IndInv, TypeOK, Present, claims
<1>1. ASSUME UNCHANGED <<cache, evicted, key, aside>> PROVE Present(k)'
  BY <1>1
<1>2. ASSUME NEW r \in Runs, Prepare(r) \/ Validate(r) PROVE Present(k)'
  <2>1. aside[r] = 0
    BY <1>2 DEF Prepare, Validate, At, StoreSteps
  <2>2. UNCHANGED <<cache, evicted, aside>> /\ \A s \in Runs \ {r} : key'[s] = key[s]
    BY <1>2 DEF Prepare, Validate
  <2> QED BY <2>1, <2>2
<1>3. ASSUME NEW r \in Runs, SetAside(r) PROVE Present(k)'
  <2>1. aside[r] = 0
    BY <1>3 DEF SetAside, At, StoreSteps
  <2>2. CASE cache[key[r]] = 0
    BY <1>1, <1>3, <2>2 DEF SetAside
  <2>3. CASE cache[key[r]] # 0
    <3>1. /\ aside' = [aside EXCEPT ![r] = cache[key[r]]]
          /\ cache' = [cache EXCEPT ![key[r]] = 0]
          /\ key' = key /\ evicted' = evicted
      BY <1>3, <2>3 DEF SetAside
    <3>2. aside'[r] # 0 /\ \A s \in Runs \ {r} : aside'[s] = aside[s]
      BY <2>3, <3>1
    <3> QED BY <2>1, <3>1, <3>2
  <2> QED BY <2>2, <2>3
<1>4. ASSUME NEW r \in Runs, RenameIn(r) PROVE Present(k)'
  <2>1. CASE cache[key[r]] # 0
    BY <1>1, <1>4, <2>1 DEF RenameIn
  <2>2. CASE cache[key[r]] = 0
    <3>1. /\ cache' = [cache EXCEPT ![key[r]] = r] /\ aside' = [aside EXCEPT ![r] = 0]
          /\ key' = key /\ evicted' = evicted \ {key[r]}
      BY <1>4, <2>2 DEF RenameIn
    <3>2. CASE k = key[r]
      BY <3>1, <3>2
    <3>3. CASE k # key[r]
      BY <3>1, <3>3
    <3> QED BY <3>2, <3>3
  <2> QED BY <2>1, <2>2
<1>5. ASSUME NEW r \in Runs, Restore(r) PROVE Present(k)'
  <2>1. aside' = [aside EXCEPT ![r] = 0] /\ key' = key
    BY <1>5 DEF Restore
  <2>2. CASE cache[key[r]] = 0 /\ aside[r] # 0
    <3>1. cache' = [cache EXCEPT ![key[r]] = aside[r]] /\ evicted' = evicted \ {key[r]}
      BY <1>5, <2>2 DEF Restore
    <3>2. CASE k = key[r]
      BY <2>2, <3>1, <3>2
    <3>3. CASE k # key[r]
      BY <2>1, <3>1, <3>3
    <3> QED BY <3>2, <3>3
  <2>3. CASE ~(cache[key[r]] = 0 /\ aside[r] # 0)
    <3>1. UNCHANGED <<cache, evicted>>
      BY <1>5, <2>3 DEF Restore
    <3> QED BY <2>1, <2>3, <3>1
  <2> QED BY <2>2, <2>3
<1>6. ASSUME NEW r \in Runs, Evict(r) PROVE Present(k)'
  BY <1>6 DEF Evict
<1>7. ASSUME NEW r \in Runs, Resolve(r) \/ Claiming(r) \/ Reuse(r) \/ LockFails(r) \/ WaitTimesOut(r) \/ EndForSwitch(r)
      PROVE  Present(k)'
  BY <1>1, <1>7, SMTT(30) DEF Resolve, Claiming, TakeLock, LockHeld, LockRefused, Look, Survey, Reuse,
     LockFails, WaitTimesOut,
                    EndForSwitch
<1>8. ASSUME NEW r \in Runs, \/ Admit(r) \/ Revalidate(r) \/ Compiled(r) \/ Fail(r) \/ Kill(r) \/ ChildEnds(r)
                             \/ StoreStarts(r) \/ StoreCopied(r) \/ StorePublishes(r)
      PROVE  Present(k)'
  BY <1>1, <1>8 DEF Admit, Revalidate, Compiled, Fail, Kill, ChildEnds, StoreStarts, StoreCopied, StoreLooks,
                    StorePublishes
<1>9. CASE UNCHANGED vars
  BY <1>1, <1>9 DEF vars
<1> QED BY <1>2, <1>3, <1>4, <1>5, <1>6, <1>7, <1>8, <1>9 DEF Next, Step, Building, Trouble

\* A store ends with an entry for its key, or with the word of another that there
\* was one; nothing is left aside by a run that ended.
LEMMA StoreStep ==
    ASSUME IndInv, [Next]_vars PROVE (StoreSteps /\ StoredStays)'
<1> DEFINE Fine(s) == /\ aside[s] # 0 => pc[s] \in {"rename", "restore"}
                      /\ pc[s] \in {"aside", "restore"} => Present(key[s])
                      /\ pc[s] = "done" /\ built[s] => Present(key[s])
<1> USE RunsAssumption, KeysAssumption DEF IndInv, TypeOK, claims, Goto, At
<1>0. \A s \in Runs : Fine(s)
  BY DEF StoreSteps, StoredStays
<1>1. ASSUME NEW s \in Runs, aside'[s] = aside[s], pc'[s] = pc[s], key'[s] = key[s], built'[s] = built[s]
      PROVE  Fine(s)'
  BY <1>0, <1>1, PresentStays
<1>2. ASSUME NEW r \in Runs, aside' = aside, aside[r] = 0, pc'[r] \notin {"aside", "restore", "done"} PROVE Fine(r)'
  BY <1>2
<1>3. ASSUME NEW r \in Runs, Step(r) \/ Trouble(r) \/ ChildEnds(r), NEW s \in Runs \ {r}
      PROVE  aside'[s] = aside[s] /\ pc'[s] = pc[s] /\ key'[s] = key[s] /\ built'[s] = built[s]
  <2>1. CASE Resolve(r) \/ Claiming(r) \/ Reuse(r)
    BY <2>1, SMTT(30) DEF Resolve, Claiming, TakeLock, LockHeld, LockRefused, Look, Survey, Reuse, Leave
  <2>2. CASE Trouble(r) \/ ChildEnds(r)
    BY <2>2, SMTT(30) DEF Trouble, LockFails, WaitTimesOut, EndForSwitch, Fail, Evict, Kill, ChildEnds, Leave
  <2>3. CASE Admit(r) \/ Prepare(r) \/ Revalidate(r) \/ Compiled(r) \/ Validate(r)
    BY <2>3 DEF Admit, Prepare, Revalidate, Compiled, Validate, Leave
  <2>4. CASE StoreStarts(r) \/ StoreCopied(r) \/ StorePublishes(r)
    BY <2>4, SMTT(30) DEF StoreStarts, StoreCopied, StoreLooks, StorePublishes, Leave
  <2>5. CASE SetAside(r) \/ RenameIn(r) \/ Restore(r)
    BY <2>5 DEF SetAside, RenameIn, Restore, Leave
  <2> QED BY <1>3, <2>1, <2>2, <2>3, <2>4, <2>5, SMTT(30) DEF Step, Building
<1>4. ASSUME NEW r \in Runs, pc[r] \notin {"rename", "restore"} PROVE aside[r] = 0
  BY <1>0, <1>4
<1>5. ASSUME NEW r \in Runs, Resolve(r) \/ Claiming(r) \/ Reuse(r) PROVE Fine(r)'
  <2>1. aside[r] = 0 /\ aside' = aside
    BY <1>4, <1>5, SMTT(30) DEF Resolve, Claiming, TakeLock, LockHeld, LockRefused, Look, Survey, Reuse
  <2>2. pc'[r] \notin {"aside", "restore", "done"}
    BY <1>5 DEF Resolve, Claiming, TakeLock, LockHeld, LockRefused, Look, Survey, Reuse, Leave
  <2> QED BY <1>2, <2>1, <2>2, SMTT(30)
<1>6. ASSUME NEW r \in Runs, LockFails(r) \/ WaitTimesOut(r) \/ EndForSwitch(r) \/ Fail(r) PROVE Fine(r)'
  <2>1. aside[r] = 0 /\ aside' = aside
    BY <1>4, <1>6 DEF LockFails, WaitTimesOut, EndForSwitch, Fail
  <2>2. pc'[r] \notin {"aside", "restore", "done"}
    BY <1>6 DEF LockFails, WaitTimesOut, EndForSwitch, Fail, Leave
  <2> QED BY <1>2, <2>1, <2>2
<1>7. ASSUME NEW r \in Runs, Admit(r) \/ Prepare(r) \/ Revalidate(r) \/ Compiled(r) PROVE Fine(r)'
  <2>1. aside[r] = 0 /\ aside' = aside
    BY <1>4, <1>7 DEF Admit, Prepare, Revalidate, Compiled
  <2>2. pc'[r] \notin {"aside", "restore", "done"}
    BY <1>7 DEF Admit, Prepare, Revalidate, Compiled, Leave
  <2> QED BY <1>2, <2>1, <2>2
<1>8. ASSUME NEW r \in Runs, Validate(r) PROVE Fine(r)'
  BY <1>4, <1>8 DEF Validate, Leave
<1>9. ASSUME NEW r \in Runs, StoreStarts(r) \/ StoreCopied(r) \/ StorePublishes(r) PROVE Fine(r)'
  <2>1. aside[r] = 0 /\ aside' = aside /\ cache' = cache /\ key' = key
    BY <1>4, <1>9 DEF StoreStarts, StoreCopied, StoreLooks, StorePublishes
  <2>2. cache[key[r]] # 0 => Present(key[r])'
    BY <2>1 DEF Present
  <2>3. cache[key[r]] = 0 => pc'[r] \notin {"aside", "restore", "done"}
    BY <1>9 DEF StoreStarts, StoreCopied, StoreLooks, StorePublishes
  <2> QED BY <2>1, <2>2, <2>3
<1>10. ASSUME NEW r \in Runs, SetAside(r) PROVE Fine(r)'
  <2>1. Present(key[r])'
    BY <1>0, <1>10, PresentStays DEF SetAside
  <2>2. key' = key /\ aside[r] = 0
    BY <1>4, <1>10 DEF SetAside
  <2>3. aside'[r] # 0 => pc'[r] = "rename"
    BY <1>10, <2>2 DEF SetAside
  <2> QED BY <2>1, <2>2, <2>3
<1>11. ASSUME NEW r \in Runs, RenameIn(r) PROVE Fine(r)'
  <2>1. key' = key /\ (Present(key[r]))'
    BY <1>11 DEF RenameIn, Present
  <2>2. aside'[r] # 0 => pc'[r] = "restore"
    BY <1>11 DEF RenameIn
  <2> QED BY <2>1, <2>2
<1>12. ASSUME NEW r \in Runs, Restore(r) PROVE Fine(r)'
  <2>1. Present(key[r])'
    BY <1>0, <1>12, PresentStays DEF Restore
  <2>2. key' = key /\ aside'[r] = 0
    BY <1>12, SMTT(30) DEF Restore
  <2> QED BY <2>1, <2>2
<1>13. ASSUME NEW r \in Runs, Evict(r) \/ Kill(r) \/ ChildEnds(r) PROVE Fine(r)'
  BY <1>1, <1>13 DEF Evict, Kill, ChildEnds
<1>14. ASSUME NEW r \in Runs, Step(r) \/ Trouble(r) \/ ChildEnds(r), NEW s \in Runs PROVE Fine(s)'
  <2>1. CASE s # r
    BY <1>1, <1>3, <1>14, <2>1, SMTT(30)
  <2>2. CASE s = r
    BY <1>5, <1>6, <1>7, <1>8, <1>9, <1>10, <1>11, <1>12, <1>13, <1>14, <2>2, SMTT(30) DEF Step, Building,
       Trouble
  <2> QED BY <2>1, <2>2
<1>15. ASSUME UNCHANGED vars, NEW s \in Runs PROVE Fine(s)'
  BY <1>1, <1>15, SMTT(30) DEF vars
<1>16. \A s \in Runs : Fine(s)'
  BY <1>14, <1>15 DEF Next
<1> QED BY <1>16 DEF StoreSteps, StoredStays

-----------------------------------------------------------------------------
\* A run reaches the compile phase from the lock it took, or without it for one of
\* the reasons; its compiler is gone when it leaves the phase.
LEMMA BuilderStep ==
    ASSUME IndInv, [Next]_vars PROVE BuildersLock'
<1> DEFINE Way == {"admit", "prepare", "revalidate", "compile"}
<1> DEFINE Sure(s) == /\ child[s] => pc[s] = "compile"
                      /\ pc[s] \in Way => handle[s] \/ Lockless(s)
<1> USE RunsAssumption, KeysAssumption DEF IndInv, TypeOK, claims, Goto, At
<1>0. \A s \in Runs : Sure(s)
  BY DEF BuildersLock
<1>1. ASSUME NEW s \in Runs, child'[s] => child[s], pc'[s] = pc[s], handle'[s] = handle[s], fell'[s] = fell[s],
             s \in unlocked => s \in unlocked'
      PROVE  Sure(s)'
  BY <1>0, <1>1 DEF Lockless
<1>2. ASSUME NEW r \in Runs, ~child'[r], pc'[r] \notin Way PROVE Sure(r)'
  BY <1>2, SMTT(30)
<1>3. ASSUME NEW r \in Runs, Step(r) \/ Trouble(r) \/ ChildEnds(r), NEW s \in Runs \ {r}
      PROVE  /\ child'[s] = child[s] /\ pc'[s] = pc[s] /\ handle'[s] = handle[s] /\ fell'[s] = fell[s]
             /\ s \in unlocked => s \in unlocked'
  <2>1. CASE Resolve(r) \/ Claiming(r) \/ Reuse(r)
    BY <2>1, SMTT(30) DEF Resolve, Claiming, TakeLock, LockHeld, LockRefused, Look, Survey, Reuse, Leave
  <2>2. CASE Trouble(r) \/ ChildEnds(r)
    BY <2>2, SMTT(30) DEF Trouble, LockFails, WaitTimesOut, EndForSwitch, Fail, Evict, Kill, ChildEnds, Leave
  <2>3. CASE Admit(r) \/ Prepare(r) \/ Revalidate(r) \/ Compiled(r) \/ Validate(r)
    BY <2>3, SMTT(30) DEF Admit, Prepare, Revalidate, Compiled, Validate, Leave
  <2>4. CASE StoreStarts(r) \/ StoreCopied(r) \/ StorePublishes(r)
    BY <2>4, SMTT(30) DEF StoreStarts, StoreCopied, StoreLooks, StorePublishes, Leave
  <2>5. CASE SetAside(r) \/ RenameIn(r) \/ Restore(r)
    BY <2>5 DEF SetAside, RenameIn, Restore, Leave
  <2> QED BY <1>3, <2>1, <2>2, <2>3, <2>4, <2>5, SMTT(30) DEF Step, Building
<1>4. ASSUME NEW r \in Runs, pc[r] # "compile" PROVE ~child[r]
  BY <1>0, <1>4
<1>5. ASSUME NEW r \in Runs, Resolve(r) PROVE Sure(r)'
  BY <1>4, <1>5 DEF Resolve, Lockless
<1>6. ASSUME NEW r \in Runs, TakeLock(r) \/ LockFails(r) PROVE Sure(r)'
  BY <1>4, <1>6 DEF TakeLock, LockFails, Lockless
<1>7. ASSUME NEW r \in Runs, LockHeld(r) \/ LockRefused(r) \/ Look(r) \/ Survey(r) \/ WaitTimesOut(r) \/ EndForSwitch(r)
      PROVE  Sure(r)'
  <2>1. ~child'[r]
    BY <1>4, <1>7, SMTT(30) DEF LockHeld, LockRefused, Look, Survey, WaitTimesOut, EndForSwitch
  <2>2. pc'[r] \notin Way
    BY <1>7 DEF LockHeld, LockRefused, Look, Survey, WaitTimesOut, EndForSwitch, Leave
  <2> QED BY <1>2, <2>1, <2>2
<1>8. ASSUME NEW r \in Runs, Reuse(r) PROVE Sure(r)'
  <2>1. ~child'[r]
    BY <1>4, <1>8 DEF Reuse
  <2>2. pc'[r] \in Way => fell'[r]
    BY <1>8 DEF Reuse, Leave
  <2> QED BY <2>1, <2>2 DEF Lockless
<1>9. ASSUME NEW r \in Runs, Admit(r) \/ Prepare(r) PROVE Sure(r)'
  <2>1. ~child'[r]
    BY <1>4, <1>9 DEF Admit, Prepare
  <2>2. pc[r] \in Way /\ handle' = handle /\ fell' = fell /\ unlocked' = unlocked
    BY <1>9 DEF Admit, Prepare
  <2> QED BY <1>0, <2>1, <2>2 DEF Lockless
<1>10. ASSUME NEW r \in Runs, Revalidate(r) PROVE Sure(r)'
  <2>1. CASE Leave(r, "hit") /\ child' = child
    BY <1>2, <1>4, <1>10, <2>1, SMTT(30) DEF Revalidate, Leave
  <2>2. CASE pc'[r] = "compile" /\ UNCHANGED claims /\ (fell[r] => fell'[r])
    BY <1>0, <1>10, <2>2, SMTT(30) DEF Revalidate, Lockless
  <2> QED BY <1>10, <2>1, <2>2 DEF Revalidate
<1>11. ASSUME NEW r \in Runs, Compiled(r) \/ Validate(r) \/ Fail(r) PROVE Sure(r)'
  <2>1. ~child'[r]
    BY <1>4, <1>11 DEF Compiled, Validate, Fail
  <2>2. pc'[r] \notin Way
    BY <1>11 DEF Compiled, Validate, Fail, Leave
  <2> QED BY <1>2, <2>1, <2>2
<1>12. ASSUME NEW r \in Runs, \/ StoreStarts(r) \/ StoreCopied(r) \/ StorePublishes(r)
                              \/ SetAside(r) \/ RenameIn(r) \/ Restore(r)
       PROVE  Sure(r)'
  <2>1. ~child'[r]
    BY <1>4, <1>12 DEF StoreStarts, StoreCopied, StoreLooks, StorePublishes, SetAside, RenameIn, Restore
  <2>2. pc'[r] \notin Way
    BY <1>12 DEF StoreStarts, StoreCopied, StoreLooks, StorePublishes, SetAside, RenameIn, Restore, Leave
  <2> QED BY <1>2, <2>1, <2>2
<1>13. ASSUME NEW r \in Runs, Evict(r) \/ Kill(r) \/ ChildEnds(r) PROVE Sure(r)'
  BY <1>1, <1>13 DEF Evict, Kill, ChildEnds
<1>14. ASSUME NEW r \in Runs, Step(r) \/ Trouble(r) \/ ChildEnds(r), NEW s \in Runs PROVE Sure(s)'
  <2>1. CASE s # r
    BY <1>1, <1>3, <1>14, <2>1, SMTT(30)
  <2>2. CASE s = r
    BY <1>5, <1>6, <1>7, <1>8, <1>9, <1>10, <1>11, <1>12, <1>13, <1>14, <2>2, SMTT(30) DEF Step, Claiming,
       Building, Trouble
  <2> QED BY <2>1, <2>2
<1>15. ASSUME UNCHANGED vars, NEW s \in Runs PROVE Sure(s)'
  BY <1>1, <1>15 DEF vars
<1>16. \A s \in Runs : Sure(s)'
  BY <1>14, <1>15 DEF Next
<1> QED BY <1>16 DEF BuildersLock

-----------------------------------------------------------------------------
\* The inductive invariant holds of every behaviour.
THEOREM Invariance == Spec => []IndInv
<1>1. Init => IndInv
  BY RunsAssumption, KeysAssumption
     DEF Init, IndInv, TypeOK, Steps, HolderLocks, BuildersLock, StoreSteps, StoredStays
<1>2. IndInv /\ [Next]_vars => IndInv'
  BY TypeStep, LockStep, BuilderStep, StoreStep DEF IndInv
<1> QED BY <1>1, <1>2, PTL DEF Spec

\* What the artifact cache, the lock of a key, the files moved aside and the
\* build slots hold is a run or nobody, whoever is killed in between.
THEOREM TypesHold == Spec => []TypeOK
<1>1. IndInv => TypeOK
  BY DEF IndInv
<1> QED BY <1>1, Invariance, PTL

\* Two runs with one key never compile together, whoever was killed, unless one of
\* them goes without the lock: a run compiles only with the lock, and the lock stays
\* with it while its compiler runs.
THEOREM OneCompilerPerLock == Spec => []OneCompile
<1>1. ASSUME IndInv PROVE OneCompile
  <2> SUFFICES ASSUME NEW r \in Runs, NEW s \in Runs, KeyAt[r] = KeyAt[s], ~Lockless(r), ~Lockless(s),
                      child[r], child[s]
               PROVE  r = s
    BY DEF OneCompile
  <2>1. handle[r] /\ handle[s]
    BY <1>1 DEF IndInv, BuildersLock
  <2> QED BY <1>1, <2>1 DEF IndInv, HolderLocks, ClaimLive
<1> QED BY <1>1, Invariance, PTL

\* An app that was stored stays, however many runs store, evict or are killed.
THEOREM StoredAppsStay == Spec => []StoredStays
<1>1. IndInv => StoredStays
  BY DEF IndInv
<1> QED BY <1>1, Invariance, PTL
=============================================================================
