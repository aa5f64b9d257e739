------------------------- MODULE DeviceLeaseProofs -------------------------
(***************************************************************************)
(* Proofs about the device leases.  IndInv is shown inductive conjunct by  *)
(* conjunct, from what the steps do; the properties of a step follow from  *)
(* it, and so does, with a bound on the grants still to come, TypeOK.      *)
(***************************************************************************)
EXTENDS DeviceLease, FiniteSetTheorems, TLAPS

-----------------------------------------------------------------------------
(***************************************************************************)
(* Facts about the operators                                               *)
(***************************************************************************)

\* A process works in a workspace.
LEMMA Roots == \A a \in Actors : Root(a) \in Workspaces
  BY ActorsAssumption DEF Actors, Root

\* Clock readings and tokens stay natural numbers.
LEMMA Sums == \A m, n \in Nat : m + n \in Nat /\ m + 1 \in Nat /\ m + 1 # 0
  OBVIOUS

\* The later of two times is a time, and before neither of them.
LEMMA LaterNat == \A m, n \in Nat : Later(m, n) \in Nat /\ Later(m, n) >= m /\ Later(m, n) >= n
  BY DEF Later

\* A new expiry leaves the holder and the token of every lease.
LEMMA ExpirySet ==
    ASSUME Typed, NEW d \in Devices, NEW e, NEW x, file' = [file EXCEPT ![e].expires = x]
    PROVE  file'[d].token = file[d].token /\ file'[d].holder = file[d].holder
  BY DEF Typed

\* No lease, no record and no job are values of their kinds.
LEMMA Blank == NoLease \in Leases /\ NoRecord \in LeaseRecords /\ NoJob \in Jobs
  BY Zenon DEF NoLease, Leases, NoRecord, LeaseRecords, NoJob, Jobs, Kinds

-----------------------------------------------------------------------------
\* Every step keeps the kinds of values.
LEMMA TypedStep == Typed /\ Purpose /\ [Next]_vars => Typed'
<1> SUFFICES ASSUME Typed, Purpose, [Next]_vars PROVE Typed'
  OBVIOUS
<1> USE TimesAssumption, Roots, Blank DEF Typed, Steps, Kinds, Goto, Finish, Unlocked
<1>1. ASSUME NEW w \in Workspaces, DeviceUnlock(w) PROVE Typed'
  BY <1>1, Zenon DEF DeviceUnlock, Start
<1>2. ASSUME NEW w \in Workspaces, NEW d \in Devices, NEW duration \in Declared, DeviceLock(w, d, duration) PROVE Typed'
  <2>1. [NoJob EXCEPT !.dev = d, !.duration = duration, !.kind = "declared"] \in Jobs
    BY Zenon DEF NoJob, Jobs
  <2>2. job' \in [Actors -> Jobs]
    BY <1>2, <2>1, Zenon DEF DeviceLock
  <2> QED BY <1>2, <2>2, Zenon DEF DeviceLock, Start
<1>3. ASSUME NEW w \in Workspaces, NEW d \in Devices, StartRun(w, d) PROVE Typed'
  <2> DEFINE held == IF record[w].id # "" /\ record[w].id # d THEN NoRecord ELSE record[w]
  <2>1. held \in LeaseRecords
    OBVIOUS
  <2>2. [NoJob EXCEPT !.dev = d, !.duration = RunStep, !.kind = "run", !.held = held] \in Jobs
    BY <2>1, Zenon DEF NoJob, Jobs
  <2>3. job' \in [Actors -> Jobs]
    BY <1>3, <2>2, Zenon DEF StartRun
  <2> QED BY <1>3, <2>3, Zenon DEF StartRun, Start
<1>4. ASSUME NEW a \in Actors, Look(a) PROVE Typed'
  BY <1>4, Zenon DEF Look
<1>5. ASSUME NEW a \in Actors, DeviceFree(a) PROVE Typed'
  BY <1>5, Zenon DEF DeviceFree
<1>6. ASSUME NEW a \in Actors, GiveUp(a) PROVE Typed'
  BY <1>6, Zenon DEF GiveUp
<1>7. ASSUME NEW a \in Actors, LockHolder(a) PROVE Typed'
  <2>1. record[Root(a)] \in LeaseRecords
    OBVIOUS
  <2>2. [job[a] EXCEPT !.prev = record[Root(a)]] \in Jobs
    BY <2>1, Zenon DEF Jobs
  <2>3. job' \in [Actors -> Jobs]
    BY <1>7, <2>2, Zenon DEF LockHolder
  <2>4. lock' \in [Workspaces -> Actors \cup {Nobody}]
    BY <1>7, Zenon DEF LockHolder
  <2>5. pc' \in [Actors -> Steps]
    BY <1>7, Zenon DEF LockHolder
  <2> QED BY <1>7, <2>3, <2>4, <2>5, Zenon DEF LockHolder
<1>8. ASSUME NEW a \in Actors, NothingToRelease(a) PROVE Typed'
  BY <1>8, Zenon DEF NothingToRelease
<1>9. ASSUME NEW a \in Actors, DropHeld(a) PROVE Typed'
  BY <1>9, Zenon DEF DropHeld
<1>10. ASSUME NEW a \in Actors, ForgetHeld(a) PROVE Typed'
  BY <1>10, Zenon DEF ForgetHeld
<1>11. ASSUME NEW a \in Actors, ListOwn(a) PROVE Typed'
  <2>1. Displaced(a) \in SUBSET Devices
    BY Zenon DEF Displaced
  <2>2. [job[a] EXCEPT !.others = Displaced(a)] \in Jobs
    BY <2>1, Zenon DEF Jobs
  <2>3. job' \in [Actors -> Jobs]
    BY <1>11, <2>2, Zenon DEF ListOwn
  <2> QED BY <1>11, <2>3, Zenon DEF ListOwn
<1>12. ASSUME NEW a \in Actors, NEW d \in Devices, DropOther(a, d) PROVE Typed'
  <2>1. job[a].others \ {d} \in SUBSET Devices
    BY Zenon DEF Jobs
  <2>2. [job[a] EXCEPT !.others = job[a].others \ {d}] \in Jobs
    BY <2>1, Zenon DEF Jobs
  <2>3. job' \in [Actors -> Jobs]
    BY <1>12, <2>2, Zenon DEF DropOther
  <2>4. file' \in [Devices -> Leases]
    BY <1>12, Zenon DEF DropOther
  <2> QED BY <1>12, <2>3, <2>4, Zenon DEF DropOther
<1>13. ASSUME NEW a \in Actors, OthersDropped(a) PROVE Typed'
  BY <1>13, Zenon DEF OthersDropped
<1>14. ASSUME NEW a \in Actors, Held(a) PROVE Typed'
  BY <1>14, Zenon DEF Held
<1>15. ASSUME NEW a \in Actors, Taken(a) PROVE Typed'
  <2>1. file' \in [Devices -> Leases]
    <3>1. job[a].duration \in Nat
      BY Zenon DEF Jobs
    <3>2. [holder |-> Root(a), token |-> grants + 1, expires |-> now + job[a].duration] \in Leases
      BY <3>1, Sums, Zenon DEF Leases
    <3> QED BY <1>15, <3>2, Zenon DEF Taken
  <2>2. job' \in [Actors -> Jobs]
    <3>1. [job[a] EXCEPT !.token = grants + 1] \in Jobs
      BY Sums, Zenon DEF Jobs
    <3> QED BY <1>15, <3>1, Zenon DEF Taken
  <2> QED BY <1>15, <2>1, <2>2 DEF Taken
<1>16. ASSUME NEW a \in Actors, Set(a) PROVE Typed'
  <2>1. job[a].dev \in Devices \cup {""} /\ job[a].duration \in Nat /\ job[a].kind \in Kinds
    BY Zenon DEF Jobs
  <2>2. file' \in [Devices -> Leases]
    <3>1. \A d \in Devices : file[d].expires \in Nat
      BY Zenon DEF Leases
    <3>2. \A d \in Devices : d = job[a].dev => SetTo(a) \in Nat
      <4>1. now + job[a].duration \in Nat
        BY <2>1, Sums, Zenon
      <4> QED BY <3>1, <4>1, LaterNat, Zenon DEF SetTo
    <3> QED BY <1>16, <3>2, Zenon DEF Set, Leases
  <2>3. job' \in [Actors -> Jobs]
    <3>1. job[a].dev \in Devices
      BY <1>16, <2>1, Zenon DEF Set, Purpose, PurposeOf
    <3>2. file[job[a].dev].token \in Nat
      BY <3>1, Zenon DEF Leases
    <3> DEFINE kind == IF WasDeclared(a) THEN "declared" ELSE job[a].kind
    <3>3. kind \in Kinds
      BY <2>1, Zenon
    <3>4. [job[a] EXCEPT !.token = file[job[a].dev].token, !.kind = kind] \in Jobs
      BY <3>2, <3>3, Zenon DEF Jobs
    <3>5. job' = [job EXCEPT ![a] = [job[a] EXCEPT !.token = file[job[a].dev].token, !.kind = kind]]
      BY <1>16, Zenon DEF Set
    <3> QED BY <3>4, <3>5, Zenon
  <2> QED BY <1>16, <2>2, <2>3, Zenon DEF Set
<1>17. ASSUME NEW a \in Actors, RecordLease(a) PROVE Typed'
  <2>1. [NoJob EXCEPT !.dev = IF IsRun(a) THEN job[a].dev ELSE ""] \in Jobs
    BY Zenon DEF NoJob, Jobs
  <2>2. job' \in [Actors -> Jobs]
    BY <1>17, <2>1, Zenon DEF RecordLease
  <2>3. [id |-> job[a].dev, token |-> job[a].token, kind |-> job[a].kind] \in LeaseRecords
    BY Zenon DEF Jobs, LeaseRecords
  <2>4. record' \in [Workspaces -> LeaseRecords]
    BY <1>17, <2>3, Zenon DEF RecordLease
  <2>5. lock' \in [Workspaces -> Actors \cup {Nobody}] /\ pc' \in [Actors -> Steps]
    BY <1>17, Zenon DEF RecordLease
  <2> QED BY <1>17, <2>2, <2>4, <2>5, Zenon DEF RecordLease
<1>18. ASSUME NEW a \in Actors, StartRaise(a) PROVE Typed'
  <2>1. job' \in [Actors -> Jobs]
    <3>1. [job[a] EXCEPT !.stage = IF pc[a] = "using" THEN "before" ELSE "after"] \in Jobs
      BY ZenonT(30) DEF Jobs
    <3> QED BY <1>18, <3>1, Zenon DEF StartRaise
  <2> QED BY <1>18, <2>1, Zenon DEF StartRaise
<1>19. ASSUME NEW a \in Actors, ReadRecord(a) PROVE Typed'
  <2>1. record[Root(a)] \in LeaseRecords
    BY Roots, Zenon
  <2>2. [job[a] EXCEPT !.prev = record[Root(a)]] \in Jobs
    BY <2>1, Zenon DEF Jobs
  <2>3. job' \in [Actors -> Jobs]
    BY <1>19, <2>2, Zenon DEF ReadRecord
  <2> QED BY <1>19, <2>3, Zenon DEF ReadRecord
<1>20. ASSUME NEW a \in Actors, Raised(a) PROVE Typed'
  <2>1. [NoJob EXCEPT !.dev = job[a].dev] \in Jobs
    BY Zenon DEF NoJob, Jobs
  <2>2. job' \in [Actors -> Jobs]
    BY <1>20, <2>1, Zenon DEF Raised
  <2>3. file' \in [Devices -> Leases]
    <3>1. \A d \in Devices : [file[d] EXCEPT !.expires = Later(@, now + RunStep)] \in Leases
      <4>1. now + RunStep \in Nat
        BY Sums, Zenon
      <4> QED BY <4>1, LaterNat, Zenon DEF Leases
    <3>2. file' = [file EXCEPT ![job[a].prev.id] = [file[job[a].prev.id] EXCEPT !.expires = Later(@, now + RunStep)]]
      BY <1>20, Zenon DEF Raised
    <3> QED BY <3>1, <3>2, Zenon
  <2> QED BY <1>20, <2>2, <2>3, Zenon DEF Raised
<1>21. ASSUME NEW a \in Actors, RaiseLost(a) PROVE Typed'
  BY <1>21, Zenon DEF RaiseLost
<1>22. ASSUME NEW a \in Actors, EndRun(a) PROVE Typed'
  BY <1>22, Zenon DEF EndRun
<1>23. ASSUME NEW a \in Actors, Kill(a) PROVE Typed'
  BY <1>23, Zenon DEF Kill
<1>24. CASE Tick
  BY <1>24 DEF Tick
<1>25. CASE ListExpired
  BY <1>25, Zenon DEF ListExpired
<1>26. ASSUME NEW d \in Devices, DropExpired(d) PROVE Typed'
  BY <1>26, Zenon DEF DropExpired
<1>27. CASE UNCHANGED vars
  BY <1>27, Zenon DEF vars
<1> HIDE DEF Typed, Steps, Kinds, Goto, Finish, Unlocked
<1> QED
  BY <1>1, <1>2, <1>3, <1>4, <1>5, <1>6, <1>7, <1>8, <1>9, <1>10, <1>11, <1>12, <1>13, <1>14, <1>15, <1>16,
     <1>17, <1>18, <1>19, <1>20, <1>21, <1>22, <1>23, <1>24, <1>25, <1>26, <1>27, ZenonT(30) DEF Next, Step

\* The free state lock names no process.
LEMMA NobodyElse == Nobody \notin Actors
  BY DEF Nobody, Actors

\* No lease, no record and no job, field by field.
LEMMA Blanks ==
    /\ NoLease.holder = "" /\ NoLease.token = 0 /\ NoLease.expires = 0
    /\ NoRecord.id = "" /\ NoRecord.token = 0 /\ NoRecord.kind = "none"
    /\ NoJob.dev = "" /\ NoJob.others = {} /\ NoJob.prev = NoRecord /\ NoJob.token = 0
    /\ NoJob.duration = 0 /\ NoJob.held = NoRecord /\ NoJob.stage = "join"
  BY Zenon DEF NoLease, NoRecord, NoJob

-----------------------------------------------------------------------------
(***************************************************************************)
(* Who changes what                                                        *)
(***************************************************************************)

\* The actions that touch a lease file.
LEMMA FilesChange ==
    ASSUME [Next]_vars
    PROVE  \/ file' = file /\ grants' = grants
           \/ \E a \in Actors : \/ DropHeld(a) \/ Taken(a) \/ Set(a) \/ Raised(a)
                               \/ \E d \in Devices : DropOther(a, d)
           \/ \E d \in Devices : DropExpired(d)
<1> DEFINE Same == file' = file /\ grants' = grants
<1>1. ASSUME NEW a \in Actors, Look(a) \/ DeviceFree(a) \/ GiveUp(a) \/ LockHolder(a) \/ NothingToRelease(a)
      PROVE  Same
  BY <1>1, Zenon DEF Look, DeviceFree, GiveUp, LockHolder, NothingToRelease
<1>2. ASSUME NEW a \in Actors, ForgetHeld(a) \/ ListOwn(a) \/ OthersDropped(a) \/ Held(a) \/ RecordLease(a)
      PROVE  Same
  BY <1>2, Zenon DEF ForgetHeld, ListOwn, OthersDropped, Held, RecordLease
<1>3. ASSUME NEW a \in Actors, StartRaise(a) \/ ReadRecord(a) \/ RaiseLost(a) \/ EndRun(a) \/ Kill(a)
      PROVE  Same
  BY <1>3, Zenon DEF StartRaise, ReadRecord, RaiseLost, EndRun, Kill
<1>4. ASSUME NEW w \in Workspaces, DeviceUnlock(w) PROVE Same
  BY <1>4, Zenon DEF DeviceUnlock
<1>5. ASSUME NEW w \in Workspaces, NEW d \in Devices, NEW n \in Declared, DeviceLock(w, d, n) PROVE Same
  BY <1>5, Zenon DEF DeviceLock
<1>6. ASSUME NEW w \in Workspaces, NEW d \in Devices, StartRun(w, d) PROVE Same
  BY <1>6, Zenon DEF StartRun
<1>7. ASSUME Tick \/ ListExpired \/ UNCHANGED vars PROVE Same
  BY <1>7, Zenon DEF Tick, ListExpired, vars
<1> HIDE DEF Same
<1>8. Same \/ (\E a \in Actors : \/ DropHeld(a) \/ Taken(a) \/ Set(a) \/ Raised(a)
                                 \/ \E d \in Devices : DropOther(a, d))
           \/ \E d \in Devices : DropExpired(d)
  BY <1>1, <1>2, <1>3, <1>4, <1>5, <1>6, <1>7, Zenon DEF Next, Step
<1> QED BY <1>8, Zenon DEF Same

\* The actions that touch a record.
LEMMA RecordsChange ==
    ASSUME [Next]_vars
    PROVE  record' = record \/ \E a \in Actors : ForgetHeld(a) \/ RecordLease(a)
<1> DEFINE Same == record' = record
<1>1. ASSUME NEW a \in Actors, Look(a) \/ DeviceFree(a) \/ GiveUp(a) \/ LockHolder(a) \/ NothingToRelease(a)
      PROVE  Same
  BY <1>1, Zenon DEF Look, DeviceFree, GiveUp, LockHolder, NothingToRelease
<1>2. ASSUME NEW a \in Actors, DropHeld(a) \/ ListOwn(a) \/ OthersDropped(a) \/ Held(a) \/ Taken(a) \/ Set(a)
      PROVE  Same
  BY <1>2, Zenon DEF DropHeld, ListOwn, OthersDropped, Held, Taken, Set
<1>3. ASSUME NEW a \in Actors, StartRaise(a) \/ ReadRecord(a) \/ Raised(a) \/ RaiseLost(a) \/ EndRun(a) \/ Kill(a)
      PROVE  Same
  BY <1>3, Zenon DEF StartRaise, ReadRecord, Raised, RaiseLost, EndRun, Kill
<1>4. ASSUME NEW w \in Workspaces, DeviceUnlock(w) PROVE Same
  BY <1>4, Zenon DEF DeviceUnlock
<1>5. ASSUME NEW w \in Workspaces, NEW d \in Devices, NEW n \in Declared, DeviceLock(w, d, n) PROVE Same
  BY <1>5, Zenon DEF DeviceLock
<1>6. ASSUME NEW w \in Workspaces, NEW d \in Devices, StartRun(w, d) PROVE Same
  BY <1>6, Zenon DEF StartRun
<1>7. ASSUME NEW a \in Actors, NEW d \in Devices, DropOther(a, d) PROVE Same
  BY <1>7, Zenon DEF DropOther
<1>8. ASSUME NEW d \in Devices, DropExpired(d) PROVE Same
  BY <1>8, Zenon DEF DropExpired
<1>9. ASSUME Tick \/ ListExpired \/ UNCHANGED vars PROVE Same
  BY <1>9, Zenon DEF Tick, ListExpired, vars
<1> HIDE DEF Same
<1>10. Same \/ \E a \in Actors : ForgetHeld(a) \/ RecordLease(a)
  BY <1>1, <1>2, <1>3, <1>4, <1>5, <1>6, <1>7, <1>8, <1>9, SMTT(30) DEF Next, Step
<1> QED BY <1>10 DEF Same

\* A process starts.
Starts(a) ==
    /\ pc[a] = "idle"
    /\ UNCHANGED <<file, record, lock>>
    /\ job'[a].others = {} /\ job'[a].prev = NoRecord /\ job'[a].token = 0
    /\ \/ ~IsRun(a) /\ pc'[a] = "unlock" /\ job'[a].dev = ""
       \/ ~IsRun(a) /\ pc'[a] = "wait" /\ job'[a].dev \in Devices
       \/ IsRun(a) /\ pc'[a] = "look" /\ job'[a].dev \in Devices /\ job'[a].kind = "run"

\* A process stays where it is, starts or makes a step of its own.
LEMMA WhoseStep ==
    ASSUME Typed, Purpose, [Next]_vars, NEW a \in Actors
    PROVE  (pc'[a] = pc[a] /\ job'[a] = job[a]) \/ Starts(a) \/ Step(a)
<1> DEFINE Same == pc'[a] = pc[a] /\ job'[a] = job[a]
<1> USE DEF Typed, Goto, Finish
<1>1. ASSUME NEW w \in Workspaces, DeviceUnlock(w) PROVE Same \/ Starts(a)
  <2>1. CASE a # <<"command", w>>
    BY <1>1, <2>1, Zenon DEF DeviceUnlock, Start
  <2>2. CASE a = <<"command", w>>
    <3>1. IsRun(a) <=> "command" = "run"
      BY <2>2, Zenon DEF IsRun
    <3>2. pc[a] = "idle" /\ UNCHANGED <<file, record, lock>> /\ pc'[a] = "unlock"
      BY <1>1, <2>2, Zenon DEF DeviceUnlock, Start
    <3>3. job'[a] = NoJob
      BY <1>1, <3>2, Zenon DEF DeviceUnlock, Purpose, PurposeOf
    <3>4. job'[a].others = {} /\ job'[a].prev = NoRecord /\ job'[a].token = 0 /\ job'[a].dev = ""
      BY <3>3, Blanks, Zenon
    <3> QED BY <3>1, <3>2, <3>4, Zenon DEF Starts
  <2> QED BY <2>1, <2>2, Zenon
<1>2. ASSUME NEW w \in Workspaces, NEW d \in Devices, NEW duration \in Declared, DeviceLock(w, d, duration) PROVE Same \/ Starts(a)
  <2>1. CASE a # <<"command", w>>
    BY <1>2, <2>1, Zenon DEF DeviceLock, Start
  <2>2. CASE a = <<"command", w>>
    <3>1. IsRun(a) <=> "command" = "run"
      BY <2>2, Zenon DEF IsRun
    <3>2. pc[a] = "idle" /\ UNCHANGED <<file, record, lock>> /\ pc'[a] = "wait"
      BY <1>2, <2>2, Zenon DEF DeviceLock, Start
    <3>3. job'[a].others = {} /\ job'[a].prev = NoRecord /\ job'[a].token = 0 /\ job'[a].dev = d
      BY <1>2, <2>2, Zenon DEF DeviceLock, NoJob
    <3> QED BY <3>1, <3>2, <3>3, Zenon DEF Starts
  <2> QED BY <2>1, <2>2, Zenon
<1>3. ASSUME NEW w \in Workspaces, NEW d \in Devices, StartRun(w, d) PROVE Same \/ Starts(a)
  <2>1. CASE a # <<"run", w>>
    BY <1>3, <2>1, Zenon DEF StartRun, Start
  <2>2. CASE a = <<"run", w>>
    <3>1. IsRun(a) <=> "run" = "run"
      BY <2>2, Zenon DEF IsRun
    <3>2. pc[a] = "idle" /\ UNCHANGED <<file, record, lock>> /\ pc'[a] = "look"
      BY <1>3, <2>2, Zenon DEF StartRun, Start
    <3>3. job'[a].others = {} /\ job'[a].prev = NoRecord /\ job'[a].token = 0 /\ job'[a].dev = d /\ job'[a].kind = "run"
      BY <1>3, <2>2, Zenon DEF StartRun, NoJob
    <3> QED BY <3>1, <3>2, <3>3, Zenon DEF Starts
  <2> QED BY <2>1, <2>2, Zenon
<1>4. ASSUME NEW b \in Actors, Look(b) PROVE Same \/ b = a
  BY <1>4, Zenon DEF Look
<1>5. ASSUME NEW b \in Actors, DeviceFree(b) PROVE Same \/ b = a
  BY <1>5, Zenon DEF DeviceFree
<1>6. ASSUME NEW b \in Actors, GiveUp(b) PROVE Same \/ b = a
  BY <1>6, Zenon DEF GiveUp
<1>7. ASSUME NEW b \in Actors, LockHolder(b) PROVE Same \/ b = a
  BY <1>7, Zenon DEF LockHolder
<1>8. ASSUME NEW b \in Actors, NothingToRelease(b) PROVE Same \/ b = a
  BY <1>8, Zenon DEF NothingToRelease
<1>9. ASSUME NEW b \in Actors, DropHeld(b) PROVE Same \/ b = a
  BY <1>9, Zenon DEF DropHeld
<1>10. ASSUME NEW b \in Actors, ForgetHeld(b) PROVE Same \/ b = a
  BY <1>10, Zenon DEF ForgetHeld
<1>11. ASSUME NEW b \in Actors, ListOwn(b) PROVE Same \/ b = a
  BY <1>11, Zenon DEF ListOwn
<1>12. ASSUME NEW b \in Actors, NEW d \in Devices, DropOther(b, d) PROVE Same \/ b = a
  BY <1>12, Zenon DEF DropOther
<1>13. ASSUME NEW b \in Actors, OthersDropped(b) PROVE Same \/ b = a
  BY <1>13, Zenon DEF OthersDropped
<1>14. ASSUME NEW b \in Actors, Held(b) PROVE Same \/ b = a
  BY <1>14, Zenon DEF Held
<1>15. ASSUME NEW b \in Actors, Taken(b) PROVE Same \/ b = a
  BY <1>15, Zenon DEF Taken
<1>16. ASSUME NEW b \in Actors, Set(b) PROVE Same \/ b = a
  BY <1>16, Zenon DEF Set
<1>17. ASSUME NEW b \in Actors, RecordLease(b) PROVE Same \/ b = a
  BY <1>17, Zenon DEF RecordLease
<1>18. ASSUME NEW b \in Actors, StartRaise(b) PROVE Same \/ b = a
  BY <1>18, Zenon DEF StartRaise
<1>19. ASSUME NEW b \in Actors, ReadRecord(b) PROVE Same \/ b = a
  BY <1>19, Zenon DEF ReadRecord
<1>20. ASSUME NEW b \in Actors, Raised(b) PROVE Same \/ b = a
  BY <1>20, Zenon DEF Raised
<1>21. ASSUME NEW b \in Actors, RaiseLost(b) PROVE Same \/ b = a
  BY <1>21, Zenon DEF RaiseLost
<1>22. ASSUME NEW b \in Actors, EndRun(b) PROVE Same \/ b = a
  BY <1>22, Zenon DEF EndRun
<1>23. ASSUME NEW b \in Actors, Kill(b) PROVE Same \/ b = a
  BY <1>23, Zenon DEF Kill
<1>24. ASSUME Tick PROVE Same
  BY <1>24, Zenon DEF Tick
<1>25. ASSUME ListExpired PROVE Same
  BY <1>25, Zenon DEF ListExpired
<1>26. ASSUME NEW d \in Devices, DropExpired(d) PROVE Same
  BY <1>26, Zenon DEF DropExpired
<1>27. ASSUME UNCHANGED vars PROVE Same
  BY <1>27, Zenon DEF vars
<1> HIDE DEF Typed, Same
<1> QED
  BY <1>1, <1>2, <1>3, <1>4, <1>5, <1>6, <1>7, <1>8, <1>9, <1>10, <1>11, <1>12, <1>13, <1>14, <1>15, <1>16,
     <1>17, <1>18, <1>19, <1>20, <1>21, <1>22, <1>23, <1>24, <1>25, <1>26, <1>27, Zenon DEF Next, Step, Same

\* The actions that touch a state lock.
LEMMA LocksChange ==
    ASSUME [Next]_vars
    PROVE  lock' = lock \/ \E a \in Actors : \/ LockHolder(a) \/ ForgetHeld(a) \/ OthersDropped(a) \/ Held(a)
                                             \/ RecordLease(a) \/ Kill(a)
<1> DEFINE Same == lock' = lock
<1>1. ASSUME NEW a \in Actors, Look(a) \/ DeviceFree(a) \/ GiveUp(a) \/ NothingToRelease(a) \/ DropHeld(a)
      PROVE  Same
  BY <1>1, Zenon DEF Look, DeviceFree, GiveUp, NothingToRelease, DropHeld
<1>2. ASSUME NEW a \in Actors, ListOwn(a) \/ Taken(a) \/ Set(a) \/ StartRaise(a) \/ ReadRecord(a)
      PROVE  Same
  BY <1>2, Zenon DEF ListOwn, Taken, Set, StartRaise, ReadRecord
<1>3. ASSUME NEW a \in Actors, Raised(a) \/ RaiseLost(a) \/ EndRun(a) PROVE Same
  BY <1>3, Zenon DEF Raised, RaiseLost, EndRun
<1>4. ASSUME NEW w \in Workspaces, DeviceUnlock(w) PROVE Same
  BY <1>4 DEF DeviceUnlock
<1>5. ASSUME NEW w \in Workspaces, NEW d \in Devices, NEW n \in Declared, DeviceLock(w, d, n) PROVE Same
  BY <1>5, Zenon DEF DeviceLock
<1>6. ASSUME NEW w \in Workspaces, NEW d \in Devices, StartRun(w, d) PROVE Same
  BY <1>6, Zenon DEF StartRun
<1>7. ASSUME NEW a \in Actors, NEW d \in Devices, DropOther(a, d) PROVE Same
  BY <1>7, Zenon DEF DropOther
<1>8. ASSUME NEW d \in Devices, DropExpired(d) PROVE Same
  BY <1>8, Zenon DEF DropExpired
<1>9. ASSUME Tick \/ ListExpired \/ UNCHANGED vars PROVE Same
  BY <1>9, Zenon DEF Tick, ListExpired, vars
<1> HIDE DEF Same
<1>10. Same \/ \E a \in Actors : \/ LockHolder(a) \/ ForgetHeld(a) \/ OthersDropped(a) \/ Held(a)
                                \/ RecordLease(a) \/ Kill(a)
  BY <1>1, <1>2, <1>3, <1>4, <1>5, <1>6, <1>7, <1>8, <1>9, Zenon DEF Next, Step
<1> QED BY <1>10, Zenon DEF Same

\* The steps that lead into a transaction or go on with it.
LEMMA Leads ==
    ASSUME Typed, NEW a \in Actors, Step(a), pc'[a] \in Transaction
    PROVE  \/ LockHolder(a) \/ DropHeld(a) \/ ForgetHeld(a) \/ ListOwn(a) \/ OthersDropped(a) \/ Taken(a) \/ Set(a)
           \/ \E d \in Devices : DropOther(a, d)
  BY Zenon DEF Typed, Transaction, Goto, Finish, Step, Look, DeviceFree, GiveUp, NothingToRelease, Held,
     RecordLease,
         StartRaise, ReadRecord, Raised, RaiseLost, EndRun, Kill

\* A grant, and what every other step does to the files: a lease stays, is set
\* to another expiry or is removed.
Granted(a) ==
    /\ pc[a] = "grant" /\ pc'[a] = "record" /\ job[a].dev \in Devices /\ job'[a].dev = job[a].dev
    /\ grants' = grants + 1
    /\ file'[job[a].dev].holder = Root(a) /\ file'[job[a].dev].token = grants + 1
    /\ \A d \in Devices : d # job[a].dev => file'[d] = file[d]
NotGranted ==
    /\ grants' = grants
    /\ \A d \in Devices : file'[d] = NoLease \/ (file'[d].token = file[d].token /\ file'[d].holder = file[d].holder)

\* Every step is a grant or none.
LEMMA FileStep == Typed /\ Purpose /\ [Next]_vars => NotGranted \/ \E a \in Actors : Granted(a)
<1> SUFFICES ASSUME Typed, Purpose, [Next]_vars PROVE NotGranted \/ \E a \in Actors : Granted(a)
  OBVIOUS
<1> USE DEF Typed, NotGranted
<1>1. ASSUME file' = file, grants' = grants PROVE NotGranted
  BY <1>1, Zenon
<1>2. ASSUME NEW a \in Actors, DropHeld(a) PROVE NotGranted
  BY <1>2, Zenon DEF DropHeld
<1>3. ASSUME NEW a \in Actors, NEW d \in Devices, DropOther(a, d) PROVE NotGranted
  BY <1>3, Zenon DEF DropOther
<1>4. ASSUME NEW a \in Actors, Taken(a) PROVE Granted(a)
  <2>1. job[a].dev \in Devices
    BY <1>4, Zenon DEF Taken, Purpose, PurposeOf, Jobs
  <2> QED BY <1>4, <2>1 DEF Taken, Granted, Goto
<1>5. ASSUME NEW a \in Actors, Set(a) PROVE NotGranted
  BY <1>5, SMTT(30) DEF Set
<1>6. ASSUME NEW a \in Actors, Raised(a) PROVE NotGranted
  BY <1>6, SMTT(30) DEF Raised
<1>7. ASSUME NEW d \in Devices, DropExpired(d) PROVE NotGranted
  BY <1>7, Zenon DEF DropExpired
<1> QED BY <1>1, <1>2, <1>3, <1>4, <1>5, <1>6, <1>7, FilesChange, Zenon

-----------------------------------------------------------------------------
(***************************************************************************)
(* The conjuncts of the invariant                                          *)
(***************************************************************************)

\* The invariant holds at first: no file, no record and no process.
LEMMA IndInvInit == Init => IndInv
<1> SUFFICES ASSUME Init PROVE IndInv
  OBVIOUS
<1>1. Typed
  BY Blank, Zenon DEF Init, Typed, Steps
<1>2. Locked
  BY Zenon DEF Init, Locked, Transaction
<1>3. Whole
  BY Zenon DEF Init, Whole, WholeFiles, WholeRecords, WholeJobs, NoLease, NoRecord, NoJob
<1>4. TokensUnique
  <2>1. \A w : Drawn(w, 0)
    BY DEF Init, Drawn
  <2>2. \A w \in Workspaces : record[w].token = 0
    BY Zenon DEF Init, NoRecord
  <2>3. \A a \in Actors : job[a].prev.token = 0 /\ job[a].token = 0
    BY Zenon DEF Init, NoJob, NoRecord
  <2>4. \A d \in Devices : file[d].token = 0
    BY Zenon DEF Init, NoLease
  <2> QED BY <2>1, <2>2, <2>3, <2>4 DEF Init, TokensUnique
<1>5. RecordKnown /\ OthersKnown /\ Purpose /\ OneLeasePerWorkspace
  BY Zenon DEF Init, RecordKnown, RecordKnownTo, OthersKnown, OthersKnownTo, Purpose, PurposeOf,
     OneLeasePerWorkspace, Mine, NoLease, NoRecord, NoJob
<1> QED BY <1>1, <1>2, <1>3, <1>4, <1>5 DEF IndInv

\* A process that is in a transaction holds the state lock of its workspace.
LEMMA LockedStep == Typed /\ Locked /\ Purpose /\ [Next]_vars => Locked'
<1> SUFFICES ASSUME Typed, Locked, Purpose, [Next]_vars PROVE Locked'
  OBVIOUS
<1> USE Roots DEF Typed, Locked, Transaction, Goto, Finish, Unlocked
<1>1. ASSUME lock' = lock PROVE Locked'
  <2> SUFFICES ASSUME NEW b \in Actors, pc'[b] \in Transaction PROVE lock[Root(b)] = b
    BY <1>1, Zenon
  <2>1. CASE Step(b)
    <3>1. pc[b] \in Transaction \/ LockHolder(b)
      BY <2>1, Leads, Zenon DEF DropHeld, ForgetHeld, ListOwn, OthersDropped, Taken, Set, DropOther
    <3>2. LockHolder(b) => lock'[Root(b)] = b
      BY Zenon DEF LockHolder
    <3> QED BY <1>1, <3>1, <3>2, Zenon
  <2> QED BY <2>1, WhoseStep, Zenon DEF Starts
<1>2. ASSUME NEW a \in Actors, LockHolder(a) PROVE Locked'
  <2> SUFFICES ASSUME NEW b \in Actors, pc'[b] \in Transaction PROVE lock'[Root(b)] = b
    OBVIOUS
  <2>1. CASE b = a
    BY <1>2, <2>1, Zenon DEF LockHolder
  <2>2. CASE b # a
    <3>1. pc[b] \in Transaction /\ lock[Root(b)] = b
      BY <1>2, <2>2, Zenon DEF LockHolder
    <3> QED BY <1>2, <3>1, NobodyElse, Zenon DEF LockHolder
  <2> QED BY <2>1, <2>2, Zenon
<1>3. ASSUME NEW a \in Actors, ForgetHeld(a) PROVE Locked'
  BY <1>3, Zenon DEF ForgetHeld
<1>4. ASSUME NEW a \in Actors, OthersDropped(a) PROVE Locked'
  BY <1>4, Zenon DEF OthersDropped
<1>5. ASSUME NEW a \in Actors, Held(a) PROVE Locked'
  BY <1>5, Zenon DEF Held
<1>6. ASSUME NEW a \in Actors, RecordLease(a) PROVE Locked'
  BY <1>6, Zenon DEF RecordLease
<1>7. ASSUME NEW a \in Actors, Kill(a) PROVE Locked'
  BY <1>7, Zenon DEF Kill
<1> QED BY <1>1, <1>2, <1>3, <1>4, <1>5, <1>6, <1>7, LocksChange, Zenon

\* Where the token of a record comes from.
LEMMA RecordFrom ==
    ASSUME Typed, [Next]_vars, NEW w \in Workspaces
    PROVE  \/ record'[w] = record[w] \/ record'[w] = NoRecord
           \/ \E a \in Actors : RecordLease(a) /\ Root(a) = w /\ record'[w].token = job[a].token /\ record'[w].id = job[a].dev
<1> DEFINE From == \/ record'[w] = record[w] \/ record'[w] = NoRecord
                   \/ \E a \in Actors : RecordLease(a) /\ Root(a) = w /\ record'[w].token = job[a].token /\ record'[w].id = job[a].dev
<1>1. ASSUME NEW a \in Actors, ForgetHeld(a) PROVE From
  BY <1>1, Zenon DEF ForgetHeld, Typed
<1>2. ASSUME NEW a \in Actors, RecordLease(a) PROVE From
  <2>1. CASE Root(a) = w
    <3>1. record'[w] = [id |-> job[a].dev, token |-> job[a].token, kind |-> job[a].kind]
      BY <1>2, <2>1, Zenon DEF RecordLease, Typed
    <3> QED BY <1>2, <2>1, <3>1
  <2>2. CASE Root(a) # w
    BY <1>2, <2>2, Zenon DEF RecordLease, Typed
  <2> QED BY <2>1, <2>2, Zenon
<1> QED BY <1>1, <1>2, RecordsChange, Zenon

\* Where what a process knows of comes from.
KnownFrom(a) ==
    /\ job'[a].prev = NoRecord \/ job'[a].prev = job[a].prev \/ job'[a].prev = record[Root(a)]
    /\ \/ job'[a].token = 0 \/ job'[a].token = job[a].token
       \/ \E d \in Devices : file'[d].holder = Root(a) /\ job'[a].token = file'[d].token
    /\ pc'[a] = "record" => job'[a].token # 0 \/ (pc[a] = "record" /\ job'[a].token = job[a].token)

\* Every step: the record is read, a lease is taken or set, or nothing new.
LEMMA JobFrom ==
    ASSUME Typed, Purpose, [Next]_vars, NEW a \in Actors
    PROVE  KnownFrom(a)
<1> USE Roots DEF Typed, Goto, Finish, NoJob, Jobs, KnownFrom
<1>1. ASSUME Look(a) PROVE KnownFrom(a)
  BY <1>1, Zenon DEF Look
<1>2. ASSUME DeviceFree(a) PROVE KnownFrom(a)
  BY <1>2, Zenon DEF DeviceFree
<1>3. ASSUME GiveUp(a) PROVE KnownFrom(a)
  BY <1>3, Zenon DEF GiveUp
<1>4. ASSUME LockHolder(a) PROVE KnownFrom(a)
  BY <1>4, Zenon DEF LockHolder
<1>5. ASSUME NothingToRelease(a) PROVE KnownFrom(a)
  BY <1>5, Zenon DEF NothingToRelease
<1>6. ASSUME DropHeld(a) PROVE KnownFrom(a)
  BY <1>6, Zenon DEF DropHeld
<1>7. ASSUME ForgetHeld(a) PROVE KnownFrom(a)
  BY <1>7, Zenon DEF ForgetHeld
<1>8. ASSUME ListOwn(a) PROVE KnownFrom(a)
  BY <1>8, Zenon DEF ListOwn
<1>9. ASSUME NEW d \in Devices, DropOther(a, d) PROVE KnownFrom(a)
  BY <1>9, Zenon DEF DropOther
<1>10. ASSUME OthersDropped(a) PROVE KnownFrom(a)
  BY <1>10, Zenon DEF OthersDropped
<1>11. ASSUME Held(a) PROVE KnownFrom(a)
  BY <1>11, Zenon DEF Held
<1>12. ASSUME Taken(a) PROVE KnownFrom(a)
  <2>1. job[a].dev \in Devices
    BY <1>12, Zenon DEF Taken, Purpose, PurposeOf
  <2>2. file'[job[a].dev].holder = Root(a) /\ file'[job[a].dev].token = grants + 1
    BY <1>12, <2>1, Zenon DEF Taken
  <2>3. job'[a].token = grants + 1 /\ job'[a].prev = job[a].prev
    BY <1>12, Zenon DEF Taken
  <2> QED BY <2>1, <2>2, <2>3, Sums, Zenon
<1>13. ASSUME Set(a) PROVE KnownFrom(a)
  <2>1. job[a].dev \in Devices
    BY <1>13, Zenon DEF Set, Purpose, PurposeOf
  <2>2. /\ file[job[a].dev].holder = Root(a) /\ file[job[a].dev].token # 0
        /\ file'[job[a].dev].token = file[job[a].dev].token /\ file'[job[a].dev].holder = file[job[a].dev].holder
    BY <1>13, <2>1, ExpirySet, Zenon DEF Set, Mine
  <2>3. job'[a].token = file[job[a].dev].token /\ job'[a].prev = job[a].prev
    BY <1>13, ZenonT(30) DEF Set
  <2> QED BY <2>1, <2>2, <2>3, Zenon
<1>14. ASSUME RecordLease(a) PROVE KnownFrom(a)
  BY <1>14, Zenon DEF RecordLease
<1>15. ASSUME StartRaise(a) PROVE KnownFrom(a)
  BY <1>15, Zenon DEF StartRaise
<1>16. ASSUME ReadRecord(a) PROVE KnownFrom(a)
  BY <1>16, Zenon DEF ReadRecord
<1>17. ASSUME Raised(a) PROVE KnownFrom(a)
  BY <1>17, Zenon DEF Raised
<1>18. ASSUME RaiseLost(a) PROVE KnownFrom(a)
  BY <1>18, Zenon DEF RaiseLost
<1>19. ASSUME EndRun(a) PROVE KnownFrom(a)
  BY <1>19, Zenon DEF EndRun
<1>20. ASSUME Kill(a) PROVE KnownFrom(a)
  BY <1>20, Zenon DEF Kill
<1>21. ASSUME pc'[a] = pc[a], job'[a] = job[a] PROVE KnownFrom(a)
  BY <1>21, Zenon
<1>22. ASSUME Starts(a) PROVE KnownFrom(a)
  BY <1>22, Zenon DEF Starts
<1> HIDE DEF Typed, KnownFrom
<1> QED
  BY <1>1, <1>2, <1>3, <1>4, <1>5, <1>6, <1>7, <1>8, <1>9, <1>10, <1>11, <1>12, <1>13, <1>14, <1>15, <1>16,
     <1>17, <1>18, <1>19, <1>20, <1>21, <1>22, WhoseStep, Zenon DEF Step

\* No file, and nothing a record or a process refers to, lacks a token.
LEMMA WholeStep == Typed /\ Whole /\ Purpose /\ [Next]_vars => Whole'
<1> SUFFICES ASSUME Typed, Whole, Purpose, [Next]_vars PROVE Whole'
  OBVIOUS
<1>1. WholeFiles'
  <2> USE DEF Whole, WholeFiles, Typed
  <2>1. ASSUME file' = file PROVE WholeFiles'
    BY <2>1, Zenon
  <2>2. ASSUME NEW a \in Actors, DropHeld(a) PROVE WholeFiles'
    BY <2>2, Zenon DEF DropHeld
  <2>3. ASSUME NEW a \in Actors, NEW d \in Devices, DropOther(a, d) PROVE WholeFiles'
    BY <2>3, Zenon DEF DropOther
  <2>4. ASSUME NEW a \in Actors, Taken(a) PROVE WholeFiles'
    BY <2>4, Sums, Zenon DEF Taken
  <2>5. ASSUME NEW a \in Actors, Set(a) PROVE WholeFiles'
    <3>1. \A e \in Devices : e # job[a].dev => file'[e] = file[e]
      BY <2>5, Zenon DEF Set
    <3>2. file[job[a].dev].token # 0
      BY <2>5, Zenon DEF Set, Mine
    <3> QED BY <2>5, <3>1, <3>2, ExpirySet, Zenon DEF Set
  <2>6. ASSUME NEW a \in Actors, Raised(a) PROVE WholeFiles'
    <3>1. \A e \in Devices : e # job[a].prev.id => file'[e] = file[e]
      BY <2>6, Zenon DEF Raised
    <3>2. file[job[a].prev.id].token # 0
      BY <2>6, Zenon DEF Raised, StillHeld, WholeJobs
    <3>3. \A e \in Devices : file'[e].token = file[e].token
      BY <2>6, ExpirySet, Zenon DEF Raised
    <3> QED BY <3>1, <3>2, <3>3, Zenon
  <2>7. ASSUME NEW d \in Devices, DropExpired(d) PROVE WholeFiles'
    BY <2>7, Zenon DEF DropExpired
  <2> HIDE DEF Typed, WholeFiles
  <2> QED BY <2>1, <2>2, <2>3, <2>4, <2>5, <2>6, <2>7, FilesChange, Zenon
<1>2. WholeRecords'
  <2>1. ASSUME NEW a \in Actors, RecordLease(a) PROVE job[a].dev # "" /\ job[a].token # 0
    BY <2>1, Zenon DEF RecordLease, Purpose, PurposeOf, Whole, WholeJobs
  <2> QED BY <2>1, RecordFrom, Blanks, Zenon DEF Whole, WholeRecords
<1>3. WholeJobs'
  <2> SUFFICES ASSUME NEW a \in Actors
               PROVE  /\ job'[a].prev.id # "" => job'[a].prev.token # 0
                      /\ pc'[a] = "record" => job'[a].token # 0
    BY Zenon DEF WholeJobs
  <2>1. KnownFrom(a)
    BY JobFrom
  <2> QED BY <2>1, Roots, Blanks, Zenon DEF KnownFrom, Whole, WholeRecords, WholeJobs
<1> QED BY <1>1, <1>2, <1>3 DEF Whole

\* Tokens stay unique, and what was known of one stays true.
LEMMA TokensStep == Typed /\ Purpose /\ TokensUnique /\ [Next]_vars => TokensUnique'
<1> SUFFICES ASSUME Typed, Purpose, TokensUnique, [Next]_vars PROVE TokensUnique'
  OBVIOUS
<1> DEFINE StillDrawn(w, t) == t <= grants' /\ \A d \in Devices : file'[d].token = t /\ t # 0 => file'[d].holder = w
           Below == \A d \in Devices : file'[d].token <= grants'
           Unique == \A d, e \in Devices : file'[d].token = file'[e].token /\ file'[d].token # 0 => d = e
           Known == \A w, t : t \in Nat /\ Drawn(w, t) => StillDrawn(w, t)
<1>1. grants \in Nat /\ \A d \in Devices : file[d].token \in Nat
  BY Zenon DEF Typed, Leases
<1>2. Below /\ Unique /\ Known
  <2>1. ASSUME NEW a \in Actors, Granted(a) PROVE Below /\ Unique /\ Known
    <3>1. Below /\ Unique
      BY <1>1, <2>1 DEF Granted, TokensUnique
    <3>2. Known
      BY <1>1, <2>1 DEF Granted, Drawn
    <3> QED BY <3>1, <3>2, Zenon
  <2>2. CASE NotGranted
    <3>1. /\ grants' = grants
          /\ \A d \in Devices : file'[d].token = 0 \/ (file'[d].token = file[d].token /\ file'[d].holder = file[d].holder)
      BY <2>2, Blanks, Zenon DEF NotGranted
    <3>2. Below /\ Unique
      BY <1>1, <3>1 DEF TokensUnique
    <3>3. Known
      BY <1>1, <3>1 DEF Drawn
    <3> QED BY <3>2, <3>3, Zenon
  <2> QED BY <2>1, <2>2, FileStep, Zenon
<1> HIDE DEF StillDrawn
<1>3. ASSUME NEW w \in Workspaces PROVE StillDrawn(w, record'[w].token)
  <2>1. \A a \in Actors : job[a].token \in Nat
    BY Zenon DEF Typed, Jobs
  <2>2. record[w].token \in Nat
    BY Zenon DEF Typed, LeaseRecords
  <2>3. Drawn(w, 0)
    BY <1>1 DEF Drawn
  <2> QED BY <1>2, <2>1, <2>2, <2>3, RecordFrom, Blanks, Zenon DEF TokensUnique
<1>4. ASSUME NEW b \in Actors PROVE StillDrawn(Root(b), job'[b].prev.token)
  <2>1. job[b].prev.token \in Nat
    BY Zenon DEF Typed, Jobs, LeaseRecords
  <2>2. record[Root(b)].token \in Nat
    BY Roots, Zenon DEF Typed, LeaseRecords
  <2>3. Drawn(Root(b), 0)
    BY <1>1 DEF Drawn
  <2>4. job'[b].prev.token = 0 \/ job'[b].prev.token = job[b].prev.token \/ job'[b].prev.token = record[Root(b)].token
    BY JobFrom, Blanks, Zenon DEF KnownFrom
  <2> QED BY <1>2, <2>1, <2>2, <2>3, <2>4, Roots, Zenon DEF TokensUnique
<1>5. ASSUME NEW b \in Actors PROVE StillDrawn(Root(b), job'[b].token)
  <2>1. job[b].token \in Nat
    BY Zenon DEF Typed, Jobs
  <2>2. Drawn(Root(b), 0)
    BY <1>1 DEF Drawn
  <2>3. \A d \in Devices : file'[d].holder = Root(b) => StillDrawn(Root(b), file'[d].token)
    BY <1>2, Zenon DEF StillDrawn
  <2> QED BY <1>2, <2>1, <2>2, <2>3, JobFrom DEF TokensUnique, KnownFrom
<1> QED BY <1>2, <1>3, <1>4, <1>5, Zenon DEF TokensUnique, Drawn, StillDrawn

\* A grant is the only step that gives a workspace a lease, and then it has no other.
LEMMA OneLeaseStep == Typed /\ Purpose /\ OthersKnown /\ OneLeasePerWorkspace /\ [Next]_vars => OneLeasePerWorkspace'
<1> SUFFICES ASSUME Typed, Purpose, OthersKnown, OneLeasePerWorkspace, [Next]_vars PROVE OneLeasePerWorkspace'
  OBVIOUS
<1>1. ASSUME NEW a \in Actors, Granted(a) PROVE OneLeasePerWorkspace'
  <2>1. \A d \in Devices : file[d].token # 0 /\ file[d].holder = Root(a) => d = job[a].dev
    BY <1>1, Zenon DEF Granted, OthersKnown, OthersKnownTo, Mine
  <2> QED BY <1>1, <2>1 DEF Granted, OneLeasePerWorkspace
<1>2. CASE NotGranted
  BY <1>2, Blanks, Zenon DEF NotGranted, OneLeasePerWorkspace
<1> QED BY <1>1, <1>2, FileStep

\* Two processes of a workspace are never in a transaction both.
LEMMA Alone ==
    ASSUME Locked, NEW a \in Actors, NEW b \in Actors, Root(a) = Root(b),
           pc[a] \in Transaction, pc[b] \in Transaction
    PROVE  a = b
  BY Zenon DEF Locked

\* Nobody else writes the record of a workspace during a transaction.
LEMMA RecordStep == Typed /\ Locked /\ Whole /\ Purpose /\ RecordKnown /\ [Next]_vars => RecordKnown'
<1> SUFFICES ASSUME Typed, Locked, Whole, Purpose, RecordKnown, [Next]_vars, NEW b \in Actors
             PROVE  RecordKnownTo(b)'
  BY Zenon DEF RecordKnown
<1>1. CASE pc'[b] \notin Transaction
  BY <1>1, Zenon DEF RecordKnownTo, Transaction
<1>2. ASSUME pc[b] \in Transaction, pc'[b] = pc[b], job'[b] = job[b] PROVE RecordKnownTo(b)'
  <2>1. ASSUME NEW a \in Actors, a # b, ForgetHeld(a) \/ RecordLease(a) PROVE record'[Root(b)] = record[Root(b)]
    <3>1. Root(a) # Root(b)
      BY <1>2, <2>1, Alone, Zenon DEF ForgetHeld, RecordLease, Transaction
    <3>2. CASE ForgetHeld(a)
      BY <3>1, <3>2, Roots, Zenon DEF ForgetHeld, Typed
    <3>3. CASE RecordLease(a)
      BY <3>1, <3>3, Roots, Zenon DEF RecordLease, Typed
    <3> QED BY <2>1, <3>2, <3>3, Zenon
  <2>2. ~ForgetHeld(b) /\ ~RecordLease(b)
    BY <1>2, Zenon DEF ForgetHeld, RecordLease, Goto, Typed
  <2>3. record'[Root(b)] = record[Root(b)]
    BY <2>1, <2>2, RecordsChange, Zenon
  <2> QED BY <1>2, <2>3, Zenon DEF RecordKnown, RecordKnownTo
<1> USE Roots DEF Typed, Goto, Jobs
<1>3. ASSUME LockHolder(b) PROVE RecordKnownTo(b)'
  <2>1. record' = record /\ job'[b].prev = record[Root(b)] /\ job'[b].dev = job[b].dev
    BY <1>3, Zenon DEF LockHolder
  <2>2. pc'[b] \in {"drop", "list"}
    BY <1>3, Zenon DEF LockHolder
  <2>3. ASSUME pc'[b] = "list", job[b].dev = "" PROVE record[Root(b)] = NoRecord
    <3>1. pc[b] = "unlock" /\ ~Drops(b)
      BY <1>3, <2>3, Zenon DEF LockHolder, Purpose, PurposeOf, Drops
    <3> QED BY <3>1, Zenon DEF Drops, Whole, WholeRecords
  <2> QED BY <2>1, <2>2, <2>3, Zenon DEF RecordKnownTo
<1>4. ASSUME DropHeld(b) PROVE RecordKnownTo(b)'
  BY <1>4, Zenon DEF DropHeld, RecordKnown, RecordKnownTo
<1>5. ASSUME ForgetHeld(b), pc'[b] \in Transaction PROVE RecordKnownTo(b)'
  <2>1. record[Root(b)] = job[b].prev /\ record'[Root(b)] = NoRecord
    BY <1>5, Zenon DEF ForgetHeld, RecordKnown, RecordKnownTo
  <2>2. pc'[b] = "list"
    BY <1>5, Zenon DEF ForgetHeld, Transaction
  <2> QED BY <2>1, <2>2, Zenon DEF RecordKnownTo
<1>6. ASSUME ListOwn(b) PROVE RecordKnownTo(b)'
  BY <1>6, Zenon DEF ListOwn, RecordKnown, RecordKnownTo
<1>7. ASSUME OthersDropped(b), pc'[b] \in Transaction PROVE RecordKnownTo(b)'
  BY <1>7, Zenon DEF OthersDropped, Transaction, RecordKnown, RecordKnownTo
<1>8. ASSUME Taken(b) PROVE RecordKnownTo(b)'
  <2>1. record' = record /\ job'[b].prev = job[b].prev /\ pc'[b] = "record" /\ pc[b] = "grant"
    BY <1>8, Zenon DEF Taken
  <2> QED BY <2>1, Zenon DEF RecordKnown, RecordKnownTo
<1>9. ASSUME Set(b) PROVE RecordKnownTo(b)'
  <2>1. record' = record /\ job'[b].prev = job[b].prev /\ pc'[b] = "record" /\ pc[b] = "grant"
    BY <1>9, Zenon DEF Set
  <2> QED BY <2>1, Zenon DEF RecordKnown, RecordKnownTo
<1>10. ASSUME NEW d \in Devices, DropOther(b, d) PROVE RecordKnownTo(b)'
  BY <1>10, Zenon DEF DropOther, RecordKnown, RecordKnownTo
<1> HIDE DEF Typed
<1>11. Starts(b) => pc'[b] \notin Transaction
  BY Zenon DEF Starts, Transaction
<1> QED BY <1>1, <1>2, <1>3, <1>4, <1>5, <1>6, <1>7, <1>8, <1>9, <1>10, <1>11, WhoseStep, Leads, Zenon

\* Nor takes a device for it.
LEMMA OthersStep == Typed /\ Locked /\ Purpose /\ OthersKnown /\ [Next]_vars => OthersKnown'
<1> SUFFICES ASSUME Typed, Locked, Purpose, OthersKnown, [Next]_vars, NEW b \in Actors
             PROVE  OthersKnownTo(b)'
  BY Zenon DEF OthersKnown
<1>1. CASE pc'[b] \notin {"others", "grant", "record"}
  BY <1>1, Zenon DEF OthersKnownTo
<1>2. ASSUME pc[b] \in Transaction, ~Granted(b), NEW d \in Devices, Mine(b, file'[d]) PROVE Mine(b, file[d])
  <2>1. ASSUME NEW a \in Actors, Granted(a) PROVE Mine(b, file[d])
    <3>1. Root(a) # Root(b)
      BY <1>2, <2>1, Alone, Zenon DEF Granted, Transaction
    <3> QED BY <1>2, <2>1, <3>1, Zenon DEF Granted, Mine
  <2>2. CASE NotGranted
    BY <1>2, <2>2, Blanks, Zenon DEF NotGranted, Mine
  <2> QED BY <2>1, <2>2, FileStep, Zenon
<1>3. ASSUME pc[b] \in Transaction, pc'[b] = pc[b], job'[b] = job[b] PROVE OthersKnownTo(b)'
  <2>1. ~Granted(b)
    BY <1>3, Zenon DEF Granted
  <2> QED BY <1>2, <1>3, <2>1, Zenon DEF OthersKnown, OthersKnownTo, Mine
<1> USE Roots DEF Typed, Goto, Jobs
<1>4. ASSUME ListOwn(b) PROVE OthersKnownTo(b)'
  <2>1. file' = file /\ job'[b].dev = job[b].dev /\ job'[b].others = Displaced(b) /\ pc'[b] = "others"
    BY <1>4, Zenon DEF ListOwn
  <2> QED BY <2>1, Zenon DEF OthersKnownTo, Displaced, Mine
<1>5. ASSUME NEW d \in Devices, DropOther(b, d) PROVE OthersKnownTo(b)'
  <2>1. pc[b] = "others" /\ pc'[b] = "others" /\ job'[b].dev = job[b].dev /\ job'[b].others = job[b].others \ {d}
    BY <1>5, Zenon DEF DropOther
  <2>2. ~Mine(b, file'[d])
    BY <1>5, Blanks, Zenon DEF DropOther, Mine
  <2>3. \A e \in Devices : Mine(b, file'[e]) => Mine(b, file[e])
    BY <1>2, <2>1, Zenon DEF Granted, Transaction
  <2> QED BY <2>1, <2>2, <2>3, Zenon DEF OthersKnown, OthersKnownTo, Mine
<1>6. ASSUME OthersDropped(b), pc'[b] \in Transaction PROVE OthersKnownTo(b)'
  BY <1>6, Zenon DEF OthersDropped, Transaction, OthersKnown, OthersKnownTo, Mine
<1>7. ASSUME Taken(b) PROVE OthersKnownTo(b)'
  <2>1. job'[b].dev = job[b].dev /\ pc[b] = "grant" /\ pc'[b] = "record"
    BY <1>7, Zenon DEF Taken
  <2>2. \A d \in Devices : d # job[b].dev => file'[d] = file[d]
    BY <1>7, Zenon DEF Taken
  <2> QED BY <2>1, <2>2, Zenon DEF OthersKnown, OthersKnownTo, Mine
<1>8. ASSUME Set(b) PROVE OthersKnownTo(b)'
  <2>1. job'[b].dev = job[b].dev /\ pc[b] = "grant" /\ pc'[b] = "record"
    BY <1>8, ZenonT(30) DEF Set
  <2>2. \A d \in Devices : d # job[b].dev => file'[d] = file[d]
    BY <1>8, Zenon DEF Set
  <2> QED BY <2>1, <2>2, Zenon DEF OthersKnown, OthersKnownTo, Mine
<1>9. ASSUME LockHolder(b) \/ DropHeld(b) \/ ForgetHeld(b) PROVE pc'[b] \notin {"others", "grant", "record"}
  BY <1>9, Zenon DEF LockHolder, DropHeld, ForgetHeld
<1>10. Starts(b) => pc'[b] \notin Transaction
  BY Zenon DEF Starts, Transaction
<1>11. CASE pc'[b] \in {"others", "grant", "record"}
  <2>1. pc'[b] \in Transaction
    BY <1>11, Zenon DEF Transaction
  <2> HIDE DEF Typed
  <2> QED BY <2>1, <1>11, <1>3, <1>4, <1>5, <1>6, <1>7, <1>8, <1>9, <1>10, WhoseStep, Leads, Zenon
<1> QED BY <1>1, <1>11, Zenon

\* The purpose of a process stays while it makes no step.
LEMMA PurposeFrame ==
    ASSUME NEW b, PurposeOf(b), pc'[b] = pc[b], job'[b] = job[b]
    PROVE  PurposeOf(b)'
  BY Zenon DEF PurposeOf

\* A process that has ended has no purpose.
LEMMA PurposeIdle ==
    ASSUME NEW b, pc'[b] = "idle", job'[b] = NoJob
    PROVE  PurposeOf(b)'
  BY Blanks, Zenon DEF PurposeOf

\* Every step leads where its purpose goes on.
LEMMA PurposeStep == Typed /\ Whole /\ Purpose /\ [Next]_vars => Purpose'
<1> SUFFICES ASSUME Typed, Whole, Purpose, [Next]_vars, NEW a \in Actors PROVE PurposeOf(a)'
  BY SMTT(30) DEF Purpose
<1> USE Roots DEF Typed, Goto, Finish, Jobs
<1>1. ASSUME Look(a) PROVE PurposeOf(a)'
  BY <1>1, Zenon DEF Look, Purpose, PurposeOf, IsRun, NoJob
<1>2. ASSUME DeviceFree(a) PROVE PurposeOf(a)'
  BY <1>2, Zenon DEF DeviceFree, Purpose, PurposeOf, IsRun, NoJob
<1>3. ASSUME GiveUp(a) PROVE PurposeOf(a)'
  BY <1>3, PurposeIdle, Zenon DEF GiveUp
<1>4. ASSUME LockHolder(a) PROVE PurposeOf(a)'
  <2>1. /\ job'[a].dev = job[a].dev /\ job'[a].kind = job[a].kind /\ job'[a].others = job[a].others
        /\ job'[a].prev = record[Root(a)] /\ pc'[a] = IF Drops(a) THEN "drop" ELSE "list"
    BY <1>4, Zenon DEF LockHolder
  <2>2. pc[a] \in {"take", "unlock", "release"} /\ (pc[a] = "release" => Drops(a))
    BY <1>4, Zenon DEF LockHolder, Drops
  <2>3. ASSUME Drops(a) PROVE record[Root(a)].id # job[a].dev
    <3>1. CASE pc[a] = "take"
      BY <2>3, <3>1, Zenon DEF Drops
    <3>2. CASE pc[a] = "unlock"
      BY <2>3, <3>2, Zenon DEF Drops, Purpose, PurposeOf
    <3>3. CASE pc[a] = "release"
      <4>1. job[a].dev = ""
        BY <3>3, Zenon DEF Purpose, PurposeOf
      <4>2. record[Root(a)].id = "" => record[Root(a)].kind = "none"
        BY Blanks, Zenon DEF Whole, WholeRecords
      <4> QED BY <2>3, <3>3, <4>1, <4>2, Zenon DEF Drops
    <3> QED BY <2>2, <3>1, <3>2, <3>3, Zenon
  <2>4. Drops(a) /\ IsRun(a) /\ job[a].dev = "" => record[Root(a)].kind = "run"
    BY Zenon DEF Drops, Purpose, PurposeOf
  <2> QED BY <2>1, <2>2, <2>3, <2>4, Zenon DEF Purpose, PurposeOf
<1>5. ASSUME NothingToRelease(a) PROVE PurposeOf(a)'
  BY <1>5, PurposeIdle, Zenon DEF NothingToRelease
<1>6. ASSUME DropHeld(a) PROVE PurposeOf(a)'
  BY <1>6, Zenon DEF DropHeld, Purpose, PurposeOf, IsRun, NoJob
<1>7. ASSUME ForgetHeld(a) PROVE PurposeOf(a)'
  <2>1. CASE IsRun(a) /\ job[a].dev = ""
    <3>1. job'[a] = NoJob /\ pc'[a] = "idle"
      BY <1>7, <2>1, Zenon DEF ForgetHeld
    <3> QED BY <2>1, <3>1, PurposeIdle, Zenon DEF Purpose, PurposeOf
  <2>2. CASE ~(IsRun(a) /\ job[a].dev = "")
    <3>1. job'[a] = job[a] /\ pc[a] = "forget" /\ pc'[a] = "list"
      BY <1>7, <2>2, Zenon DEF ForgetHeld
    <3> QED BY <2>2, <3>1, PurposeIdle, Zenon DEF Purpose, PurposeOf
  <2> QED BY <2>1, <2>2, Zenon
<1>8. ASSUME ListOwn(a) PROVE PurposeOf(a)'
  <2>1. /\ job'[a].dev = job[a].dev /\ job'[a].kind = job[a].kind /\ job[a].dev \notin job'[a].others
        /\ pc[a] = "list" /\ pc'[a] = "others"
    BY <1>8, Zenon DEF ListOwn, Displaced
  <2> QED BY <2>1, Zenon DEF Purpose, PurposeOf
<1>9. ASSUME NEW d \in Devices, DropOther(a, d) PROVE PurposeOf(a)'
  <2>1. /\ job'[a].dev = job[a].dev /\ job'[a].kind = job[a].kind /\ job'[a].others \subseteq job[a].others
        /\ pc[a] = "others" /\ pc'[a] = "others"
    BY <1>9, Zenon DEF DropOther
  <2> QED BY <2>1, Zenon DEF Purpose, PurposeOf
<1>10. ASSUME OthersDropped(a) PROVE PurposeOf(a)'
  <2>1. CASE job[a].dev = ""
    <3>1. job'[a] = NoJob /\ pc'[a] = "idle"
      BY <1>10, <2>1, Zenon DEF OthersDropped
    <3> QED BY <2>1, <3>1, PurposeIdle, Zenon DEF Purpose, PurposeOf
  <2>2. CASE job[a].dev # ""
    <3>1. job'[a] = job[a] /\ pc[a] = "others" /\ pc'[a] = "grant"
      BY <1>10, <2>2, Zenon DEF OthersDropped
    <3> QED BY <2>2, <3>1, PurposeIdle, Zenon DEF Purpose, PurposeOf
  <2> QED BY <2>1, <2>2, Zenon
<1>11. ASSUME Held(a) PROVE PurposeOf(a)'
  BY <1>11, Zenon DEF Held, Purpose, PurposeOf, IsRun, NoJob
<1>12. ASSUME Taken(a) PROVE PurposeOf(a)'
  <2>1. /\ job'[a].dev = job[a].dev /\ job'[a].others = job[a].others
        /\ pc[a] = "grant" /\ pc'[a] = "record"
    BY <1>12, Zenon DEF Taken
  <2> QED BY <2>1, Zenon DEF Purpose, PurposeOf
<1>13. ASSUME Set(a) PROVE PurposeOf(a)'
  <2>1. /\ job'[a].dev = job[a].dev /\ job'[a].others = job[a].others
        /\ pc[a] = "grant" /\ pc'[a] = "record"
    BY <1>13, ZenonT(30) DEF Set
  <2> QED BY <2>1, Zenon DEF Purpose, PurposeOf
<1>14. ASSUME RecordLease(a) PROVE PurposeOf(a)'
  <2>1. CASE ~IsRun(a)
    <3>1. job'[a] = NoJob /\ pc'[a] = "idle"
      BY <1>14, <2>1, Zenon DEF RecordLease, NoJob
    <3> QED BY <2>1, <3>1, PurposeIdle, Zenon DEF Purpose, PurposeOf
  <2>2. CASE IsRun(a)
    <3>1. job'[a].dev = job[a].dev /\ job'[a].others = {} /\ pc[a] = "record" /\ pc'[a] = "using"
      BY <1>14, <2>2, Zenon DEF RecordLease, NoJob
    <3> QED BY <2>2, <3>1, PurposeIdle, Zenon DEF Purpose, PurposeOf
  <2> QED BY <2>1, <2>2, Zenon
<1>15. ASSUME StartRaise(a) PROVE PurposeOf(a)'
  <2>1. /\ job'[a].dev = job[a].dev /\ job'[a].others = job[a].others /\ job'[a].stage # "join"
        /\ pc[a] \in {"using", "installed"} /\ pc'[a] = "raiseRead"
    BY <1>15, Zenon DEF StartRaise
  <2> QED BY <2>1, Zenon DEF Purpose, PurposeOf
<1>16. ASSUME ReadRecord(a) PROVE PurposeOf(a)'
  <2>1. /\ job'[a].dev = job[a].dev /\ job'[a].others = job[a].others /\ job'[a].stage = job[a].stage
        /\ job'[a].kind = job[a].kind /\ pc[a] = "raiseRead" /\ pc'[a] = "raise"
    BY <1>16, Zenon DEF ReadRecord
  <2> QED BY <2>1, Zenon DEF Purpose, PurposeOf
<1>17. ASSUME Raised(a) PROVE PurposeOf(a)'
  <2>1. /\ job'[a].dev = job[a].dev /\ job'[a].others = {} /\ pc[a] = "raise" /\ pc'[a] \in {"using", "installed"}
    BY <1>17, Zenon DEF Raised, NoJob
  <2> QED BY <2>1, Zenon DEF Purpose, PurposeOf
<1>18. ASSUME RaiseLost(a) PROVE PurposeOf(a)'
  BY <1>18, Zenon DEF RaiseLost, Purpose, PurposeOf, IsRun, NoJob
<1>19. ASSUME EndRun(a) PROVE PurposeOf(a)'
  <2>1. job'[a].dev = "" /\ job'[a].others = {} /\ pc[a] \in {"using", "installed"} /\ pc'[a] = "release"
    BY <1>19, Zenon DEF EndRun, NoJob
  <2> QED BY <2>1, Zenon DEF Purpose, PurposeOf
<1>20. ASSUME Kill(a) PROVE PurposeOf(a)'
  BY <1>20, PurposeIdle, Zenon DEF Kill
<1>21. ASSUME pc'[a] = pc[a], job'[a] = job[a] PROVE PurposeOf(a)'
  BY <1>21, PurposeFrame, Zenon DEF Purpose
<1>22. ASSUME Starts(a) PROVE PurposeOf(a)'
  BY <1>22, NamesAssumption, Zenon DEF Starts, PurposeOf
<1> HIDE DEF Typed
<1> QED
  BY <1>1, <1>2, <1>3, <1>4, <1>5, <1>6, <1>7, <1>8, <1>9, <1>10, <1>11, <1>12, <1>13, <1>14, <1>15, <1>16,
     <1>17, <1>18, <1>19, <1>20, <1>21, <1>22, WhoseStep, Zenon DEF Step

\* Every step keeps the invariant.
LEMMA IndInvStep == IndInv /\ [Next]_vars => IndInv'
  BY TypedStep, LockedStep, WholeStep, TokensStep, RecordStep, OthersStep, PurposeStep, OneLeaseStep, Zenon
  DEF IndInv

\* The inductive invariant of the leases: in particular takeLease and
\* releaseRunLease are alone with the record of their workspace, and no token is
\* on two lease files.
THEOREM Invariance == Spec => []IndInv
  BY IndInvInit, IndInvStep, PTL DEF Spec

\* However processes of a workspace interleave and die in takeLease and
\* releaseWorkspaceLeases, the workspace holds one device at most.
THEOREM OneLeaseHolds == Spec => []OneLeasePerWorkspace
<1>1. IndInv => OneLeasePerWorkspace
  BY DEF IndInv
<1> QED BY <1>1, Invariance, PTL

-----------------------------------------------------------------------------
\* The steps behind the action properties.
KeptStep ==
    \A d \in Devices :
        ~Expired(file[d]) /\ file'[d] # file[d] =>
            \E a \in Actors : Root(a) = file[d].holder /\ ActorStep(a)
DeclaredStep ==
    \A w \in Runs, d \in Devices :
        LET a == <<"run", w>>
            declared == record[w].id = d /\ record[w].kind = "declared" /\ record[w].token = file[d].token
        IN  declared /\ ~Expired(file[d]) /\ ActorStep(a) /\ job[a].dev \in {"", d} =>
                file'[d].token = file[d].token /\ file'[d].expires >= file[d].expires
ReleasesStep ==
    \A w \in Lockers :
        LET a == <<"command", w>> IN
        pc[a] = "others" /\ job[a].dev = "" /\ job[a].others = {} /\ pc'[a] = "idle" =>
            record'[w] = NoRecord /\ \A d \in Devices : file'[d].holder # w

\* A lease that is not expired has a token.
LEMMA UnexpiredToken ==
    ASSUME IndInv, NEW d \in Devices, ~Expired(file[d])
    PROVE  file[d].token # 0
<1>1. now \in Nat
  BY Zenon DEF IndInv, Typed
<1>2. NoLease.expires = 0
  BY Blanks, Zenon
<1> QED BY <1>1, <1>2 DEF IndInv, Whole, WholeFiles, Expired

\* Who changes a lease that is not expired.
LEMMA LeaseKeptStep == IndInv /\ [Next]_vars => KeptStep
<1> SUFFICES ASSUME IndInv, Typed, [Next]_vars PROVE KeptStep
  BY DEF IndInv
<1> USE DEF Typed, Goto
<1>1. ASSUME file' = file PROVE KeptStep
  BY <1>1, SMTT(30) DEF KeptStep
<1>2. ASSUME NEW a \in Actors, DropHeld(a) PROVE KeptStep
  <2>1. \A e \in Devices : e # job[a].prev.id => file'[e] = file[e]
    BY <1>2, Zenon DEF DropHeld
  <2>2. ActorStep(a)
    BY <1>2, Zenon DEF DropHeld, ActorStep
  <2>3. ASSUME NEW e \in Devices, e = job[a].prev.id, ~Expired(file[e]), file'[e] # file[e] PROVE file[e].holder = Root(a)
    <3>1. file[e].token = job[a].prev.token /\ file[e].token # 0
      BY <1>2, <2>3, UnexpiredToken, Zenon DEF DropHeld
    <3> QED BY <3>1, SMTT(30) DEF IndInv, TokensUnique, Drawn
  <2> QED BY <2>1, <2>2, <2>3, SMTT(30) DEF KeptStep
<1>3. ASSUME NEW a \in Actors, NEW d \in Devices, DropOther(a, d) PROVE KeptStep
  <2>1. \A e \in Devices : e # d => file'[e] = file[e]
    BY <1>3, Zenon DEF DropOther
  <2>2. ActorStep(a)
    <3>1. d \in job[a].others /\ d \notin job'[a].others
      BY <1>3, Zenon DEF DropOther, Jobs
    <3> QED BY <3>1, Zenon DEF ActorStep
  <2>3. ASSUME NEW e \in Devices, e = d, ~Expired(file[e]), file'[e] # file[e] PROVE file[e].holder = Root(a)
    BY <1>3, <2>3, Zenon DEF DropOther, Mine
  <2> QED BY <2>1, <2>2, <2>3, Zenon DEF KeptStep
<1>4. ASSUME NEW a \in Actors, Taken(a) PROVE KeptStep
  <2>1. ASSUME NEW e \in Devices, ~Expired(file[e]) PROVE file'[e] = file[e]
    BY <1>4, <2>1, Zenon DEF Taken
  <2> QED BY <2>1, Zenon DEF KeptStep
<1>5. ASSUME NEW a \in Actors, Set(a) PROVE KeptStep
  <2>1. \A e \in Devices : e # job[a].dev => file'[e] = file[e]
    BY <1>5, Zenon DEF Set
  <2>2. ActorStep(a)
    BY <1>5, Zenon DEF Set, ActorStep
  <2>3. ASSUME NEW e \in Devices, e = job[a].dev, ~Expired(file[e]), file'[e] # file[e] PROVE file[e].holder = Root(a)
    BY <1>5, <2>3, Zenon DEF Set, Mine
  <2> QED BY <2>1, <2>2, <2>3, Zenon DEF KeptStep
<1>6. ASSUME NEW a \in Actors, Raised(a) PROVE KeptStep
  <2>1. \A e \in Devices : e # job[a].prev.id => file'[e] = file[e]
    BY <1>6, Zenon DEF Raised
  <2>2. ActorStep(a)
    BY <1>6, Zenon DEF Raised, ActorStep
  <2>3. ASSUME NEW e \in Devices, e = job[a].prev.id, ~Expired(file[e]), file'[e] # file[e] PROVE file[e].holder = Root(a)
    <3>1. file[e].token = job[a].prev.token /\ file[e].token # 0
      BY <1>6, <2>3, UnexpiredToken, Zenon DEF Raised, StillHeld
    <3> QED BY <3>1, Zenon DEF IndInv, TokensUnique, Drawn
  <2> QED BY <2>1, <2>2, <2>3, Zenon DEF KeptStep
<1>7. ASSUME NEW d \in Devices, DropExpired(d) PROVE KeptStep
  <2>1. ASSUME NEW e \in Devices, ~Expired(file[e]) PROVE file'[e] = file[e]
    BY <1>7, <2>1, Zenon DEF DropExpired
  <2> QED BY <2>1, Zenon DEF KeptStep
<1> HIDE DEF Typed
<1> QED BY <1>1, <1>2, <1>3, <1>4, <1>5, <1>6, <1>7, FilesChange, Zenon

\* An unexpired lease is removed, replaced or given another expiry by processes
\* of its holder only: neither removeExpiredLease nor a stale record or look
\* touches the lease of another workspace.
THEOREM LeaseKeptHolds == Spec => LeaseKept
<1>1. IndInv /\ [Next]_vars => [KeptStep]_vars
  BY LeaseKeptStep
<1>2. [KeptStep]_vars => [\A d \in Devices :
          ~Expired(file[d]) /\ file'[d] # file[d] =>
              \E a \in Actors : Root(a) = file[d].holder /\ ActorStep(a)]_vars
  BY Zenon DEF KeptStep
<1> QED BY <1>1, <1>2, Invariance, PTL DEF Spec, LeaseKept

\* A time is not before itself.
LEMMA NotLess == \A n \in Nat : n >= n
  OBVIOUS

\* The steps of a run on a device its user declared.
LEMMA DeclaredKeptStep == IndInv /\ [Next]_vars => DeclaredStep
<1> SUFFICES ASSUME IndInv, [Next]_vars, NEW w \in Runs, NEW d \in Devices,
                    record[w].id = d, record[w].kind = "declared", record[w].token = file[d].token,
                    ~Expired(file[d]), ActorStep(<<"run", w>>), job[<<"run", w>>].dev \in {"", d}
             PROVE  file'[d].token = file[d].token /\ file'[d].expires >= file[d].expires
  BY Zenon DEF DeclaredStep
<1> DEFINE a == <<"run", w>>
           Keeps == file'[d].token = file[d].token /\ file'[d].expires >= file[d].expires
<1>1. a \in Actors /\ IsRun(a) /\ Root(a) = w
  BY Zenon DEF Actors, IsRun, Root
<1>2. Typed /\ PurposeOf(a) /\ RecordKnownTo(a)
  BY <1>1, Zenon DEF IndInv, Purpose, RecordKnown
<1>3. file[d].expires \in Nat
  BY <1>2, Zenon DEF Typed, Leases
<1>4. ASSUME file' = file PROVE Keeps
  BY <1>3, <1>4, NotLess, Zenon
<1>5. ASSUME DropHeld(a) PROVE Keeps
  <2>1. pc[a] = "drop" /\ record[w] = job[a].prev
    BY <1>1, <1>2, <1>5, Zenon DEF DropHeld, RecordKnownTo
  <2> QED BY <1>1, <1>2, <2>1, Zenon DEF PurposeOf
<1>6. ASSUME NEW e \in Devices, DropOther(a, e) PROVE Keeps
  <2>1. job[a].dev = d /\ e # d
    BY <1>1, <1>2, <1>6, Zenon DEF DropOther, PurposeOf
  <2>2. file'[d] = file[d]
    BY <1>2, <1>6, <2>1, Zenon DEF DropOther, Typed
  <2> QED BY <1>3, <2>2, NotLess, Zenon
<1>7. ASSUME Taken(a) PROVE Keeps
  <2>1. job[a].dev = d
    BY <1>2, <1>7, Zenon DEF Taken, PurposeOf
  <2> QED BY <1>7, <2>1, Zenon DEF Taken
<1>8. ASSUME Set(a) PROVE Keeps
  <2>1. job[a].dev = d /\ job[a].kind = "run"
    BY <1>1, <1>2, <1>8, Zenon DEF Set, PurposeOf
  <2>2. record[w] = job[a].prev
    <3>1. record[w] # NoRecord
      BY Blanks, NamesAssumption, Zenon
    <3> QED BY <1>1, <1>2, <1>8, <3>1, Zenon DEF Set, RecordKnownTo
  <2>3. SetTo(a) = Later(now + job[a].duration, file[d].expires)
    BY <2>1, <2>2, Zenon DEF SetTo, WasDeclared
  <2>4. now + job[a].duration \in Nat
    BY <1>1, <1>2, Sums, Zenon DEF Typed, Jobs
  <2>5. SetTo(a) >= file[d].expires
    BY <1>3, <2>3, <2>4, LaterNat, Zenon
  <2>6. file'[d].token = file[d].token /\ file'[d].expires = SetTo(a)
    BY <1>2, <1>8, <2>1, Zenon DEF Set, Typed, Leases
  <2> QED BY <2>5, <2>6, Zenon
<1>9. ASSUME Raised(a) PROVE Keeps
  <2>1. now + RunStep \in Nat
    BY <1>2, Sums, TimesAssumption, Zenon DEF Typed
  <2>2. file'[d].token = file[d].token
    BY <1>2, <1>9, ExpirySet, Zenon DEF Raised
  <2>3. file'[d].expires = file[d].expires \/ file'[d].expires = Later(file[d].expires, now + RunStep)
    <3>1. CASE job[a].prev.id = d
      <4>1. file'[d] = [file[d] EXCEPT !.expires = Later(file[d].expires, now + RunStep)]
        BY <1>2, <1>9, <3>1, Zenon DEF Raised, Typed
      <4>2. file[d] \in Leases
        BY <1>2, Zenon DEF Typed
      <4> QED BY <4>1, <4>2, Zenon DEF Leases
    <3>2. CASE job[a].prev.id # d
      BY <1>2, <1>9, <3>2, Zenon DEF Raised, Typed
    <3> QED BY <3>1, <3>2, Zenon
  <2>4. Later(file[d].expires, now + RunStep) >= file[d].expires
    BY <1>3, <2>1, LaterNat, Zenon
  <2> QED BY <1>3, <2>2, <2>3, <2>4, NotLess, Zenon
<1>10. Starts(a) => file' = file
  BY Zenon DEF Starts
<1>11. Step(a) => file' = file \/ DropHeld(a) \/ (\E e \in Devices : DropOther(a, e)) \/ Taken(a) \/ Set(a) \/ Raised(a)
  BY Zenon DEF Step, Look, DeviceFree, GiveUp, LockHolder, NothingToRelease, ForgetHeld, ListOwn, OthersDropped,
     Held,
         RecordLease, StartRaise, ReadRecord, RaiseLost, EndRun, Kill
<1>12. Purpose /\ ~(pc'[a] = pc[a] /\ job'[a] = job[a])
  BY Zenon DEF IndInv, ActorStep
<1> HIDE DEF Keeps, a
<1> QED BY <1>1, <1>2, <1>4, <1>5, <1>6, <1>7, <1>8, <1>9, <1>10, <1>11, <1>12, WhoseStep, Zenon DEF Keeps, a

\* takeLease, raiseLease and releaseRunLease of a run never shorten or give up
\* the lease its user declared on the device it runs on.
THEOREM DeclaredKeptHolds == Spec => DeclaredKept
<1>1. IndInv /\ [Next]_vars => [DeclaredStep]_vars
  BY DeclaredKeptStep
<1> QED BY <1>1, Invariance, PTL DEF Spec, DeclaredKept, DeclaredStep

\* The last step of an unlock.
LEMMA UnlockReleasesStep == IndInv /\ [Next]_vars => ReleasesStep
<1> SUFFICES ASSUME IndInv, [Next]_vars, NEW w \in Lockers,
                    pc[<<"command", w>>] = "others", job[<<"command", w>>].dev = "",
                    job[<<"command", w>>].others = {}, pc'[<<"command", w>>] = "idle"
             PROVE  record'[w] = NoRecord /\ \A d \in Devices : file'[d].holder # w
  BY Zenon DEF ReleasesStep
<1> DEFINE a == <<"command", w>>
<1>1. a \in Actors /\ Root(a) = w /\ w \in Workspaces
  BY ActorsAssumption, Zenon DEF Actors, Root
<1>2. record[w] = NoRecord
  BY <1>1, Zenon DEF IndInv, RecordKnown, RecordKnownTo
<1>3. ASSUME NEW d \in Devices PROVE file[d].holder # w
  <2>1. d # "" /\ w # ""
    BY <1>1, NamesAssumption, Zenon
  <2>2. ~Mine(a, file[d])
    BY <1>1, <2>1, Zenon DEF IndInv, OthersKnown, OthersKnownTo
  <2>3. CASE file[d].token = 0
    BY <2>1, <2>3, Blanks, Zenon DEF IndInv, Whole, WholeFiles
  <2> QED BY <1>1, <2>2, <2>3, Zenon DEF Mine
<1>4. Step(a)
  <2>1. Typed /\ Purpose /\ pc'[a] # pc[a] /\ ~Starts(a)
    BY Zenon DEF IndInv, Starts
  <2> QED BY <1>1, <2>1, WhoseStep, Zenon
<1>5. file' = file /\ record' = record
  <2>1. OthersDropped(a) \/ Kill(a) \/ \E d \in Devices : DropOther(a, d)
    BY <1>4, Zenon DEF Step, Look, DeviceFree, GiveUp, LockHolder, Drops, NothingToRelease, DropHeld,
       ForgetHeld, ListOwn, Held,
         Taken, Set, RecordLease, StartRaise, ReadRecord, Raised, RaiseLost, EndRun
  <2> QED BY <2>1, Zenon DEF OthersDropped, Kill, DropOther
<1> QED BY <1>2, <1>3, <1>5, Zenon

\* releaseWorkspaceLeases leaves the workspace neither a lease nor a record.
THEOREM UnlockReleasesHolds == Spec => UnlockReleases
<1>1. IndInv /\ [Next]_vars => [ReleasesStep]_vars
  BY UnlockReleasesStep
<1> QED BY <1>1, Invariance, PTL DEF Spec, UnlockReleases, ReleasesStep

-----------------------------------------------------------------------------
(***************************************************************************)
(* The bounds of TypeOK: a process is granted one new lease at most        *)
(***************************************************************************)

\* A process that may still be granted a lease: it waits for the device, takes
\* it or looks whether it may join the lease of an earlier command.
Owes(a) ==
    /\ pc[a] \in {"look", "wait", "take", "drop", "forget", "list", "others", "grant", "raiseRead", "raise"}
    /\ job[a].dev # "" /\ job[a].stage = "join"
Owing == {a \in Actors : Owes(a)}

\* What a process asks for and remembers, and where it raises its own lease.
Bits(a) ==
    /\ job[a].duration <= MaxDuration /\ job[a].held.token <= grants
    /\ job[a].stage # "join" => pc[a] \in {"raiseRead", "raise"}

\* Every grant is of a process that was started, and is its last.
Bounded ==
    /\ now <= MaxTime /\ starts \in Nat /\ starts <= MaxStarts
    /\ IsFiniteSet(Owing) /\ grants + Cardinality(Owing) <= starts
    /\ \A d \in Devices : file[d].expires <= MaxTime + MaxDuration
    /\ \A a \in Actors : Bits(a)
    /\ listed \subseteq Devices

\* No duration is longer than the longest.
LEMMA Longest == MaxDuration \in Nat /\ \A n \in Declared \cup {RunStep} : n <= MaxDuration
<1> DEFINE D == Declared \cup {RunStep}
<1>1. PICK m \in D : \A n \in D : n <= m
  BY LongestAssumption, Zenon
<1>2. MaxDuration \in D /\ \A n \in D : n <= MaxDuration
  BY <1>1, Zenon DEF MaxDuration
<1> QED BY <1>2, TimesAssumption, Zenon

\* A step of a process is its own, and starts none.
LEMMA OwnStep ==
    ASSUME Typed, NEW a \in Actors, Step(a)
    PROVE  /\ starts' = starts /\ now' = now /\ listed' = listed
           /\ \A b \in Actors : b # a => pc'[b] = pc[b] /\ job'[b] = job[b]
<1> DEFINE Own == /\ starts' = starts /\ now' = now /\ listed' = listed
                  /\ \A b \in Actors : b # a => pc'[b] = pc[b] /\ job'[b] = job[b]
<1> USE DEF Typed, Goto, Finish
<1>1. ASSUME Look(a) \/ DeviceFree(a) \/ GiveUp(a) \/ LockHolder(a) \/ NothingToRelease(a) PROVE Own
  BY <1>1, Zenon DEF Look, DeviceFree, GiveUp, LockHolder, NothingToRelease
<1>2. ASSUME DropHeld(a) \/ ForgetHeld(a) \/ ListOwn(a) \/ OthersDropped(a) \/ Held(a) PROVE Own
  BY <1>2, Zenon DEF DropHeld, ForgetHeld, ListOwn, OthersDropped, Held
<1>3. ASSUME Taken(a) \/ Set(a) \/ RecordLease(a) \/ StartRaise(a) \/ ReadRecord(a) PROVE Own
  BY <1>3, Zenon DEF Taken, Set, RecordLease, StartRaise, ReadRecord
<1>4. ASSUME Raised(a) \/ RaiseLost(a) \/ EndRun(a) \/ Kill(a) PROVE Own
  BY <1>4, Zenon DEF Raised, RaiseLost, EndRun, Kill
<1>5. ASSUME NEW d \in Devices, DropOther(a, d) PROVE Own
  BY <1>5, Zenon DEF DropOther
<1> HIDE DEF Own, Typed
<1>6. Own
  BY <1>1, <1>2, <1>3, <1>4, <1>5, Zenon DEF Step
<1> QED BY <1>6, Zenon DEF Own

\* A step of a process leaves it no more to be granted than before.
LEMMA OwesLess ==
    ASSUME Typed, Purpose, NEW a \in Actors, Bits(a), Step(a)
    PROVE  /\ Owes(a)' => Owes(a)
           /\ job'[a].duration \in {0, job[a].duration} /\ job'[a].held \in {NoRecord, job[a].held}
           /\ job'[a].stage # "join" => pc'[a] \in {"raiseRead", "raise"}
<1> DEFINE Less == /\ Owes(a)' => Owes(a)
                   /\ job'[a].duration \in {0, job[a].duration} /\ job'[a].held \in {NoRecord, job[a].held}
                   /\ job'[a].stage # "join" => pc'[a] \in {"raiseRead", "raise"}
<1> USE DEF Typed, Goto, Finish, NoJob, Jobs, Owes, Bits
<1>1. ASSUME Look(a) PROVE Less
  BY <1>1, Zenon DEF Look
<1>2. ASSUME DeviceFree(a) PROVE Less
  BY <1>2, Zenon DEF DeviceFree
<1>3. ASSUME GiveUp(a) PROVE Less
  BY <1>3, Zenon DEF GiveUp
<1>4. ASSUME LockHolder(a) PROVE Less
  <2>1. pc[a] = "take" \/ job[a].dev = ""
    BY <1>4, Zenon DEF LockHolder, Drops, Purpose, PurposeOf
  <2> QED BY <1>4, <2>1, Zenon DEF LockHolder, Drops
<1>5. ASSUME NothingToRelease(a) PROVE Less
  BY <1>5, Zenon DEF NothingToRelease
<1>6. ASSUME DropHeld(a) PROVE Less
  BY <1>6, Zenon DEF DropHeld
<1>7. ASSUME ForgetHeld(a) PROVE Less
  BY <1>7, Zenon DEF ForgetHeld
<1>8. ASSUME ListOwn(a) PROVE Less
  BY <1>8, Zenon DEF ListOwn
<1>9. ASSUME OthersDropped(a) PROVE Less
  BY <1>9, Zenon DEF OthersDropped
<1>10. ASSUME Held(a) PROVE Less
  BY <1>10, Zenon DEF Held
<1>11. ASSUME Taken(a) PROVE Less
  BY <1>11, Zenon DEF Taken
<1>12. ASSUME Set(a) PROVE Less
  BY <1>12, Zenon DEF Set
<1>13. ASSUME RecordLease(a) PROVE Less
  BY <1>13, Zenon DEF RecordLease
<1>14. ASSUME StartRaise(a) PROVE Less
  BY <1>14, Zenon DEF StartRaise
<1>15. ASSUME ReadRecord(a) PROVE Less
  BY <1>15, Zenon DEF ReadRecord
<1>16. ASSUME Raised(a) PROVE Less
  BY <1>16, Zenon DEF Raised
<1>17. ASSUME RaiseLost(a) PROVE Less
  BY <1>17, Zenon DEF RaiseLost
<1>18. ASSUME EndRun(a) PROVE Less
  BY <1>18, Zenon DEF EndRun
<1>19. ASSUME Kill(a) PROVE Less
  BY <1>19, Zenon DEF Kill
<1>20. ASSUME NEW d \in Devices, DropOther(a, d) PROVE Less
  BY <1>20, Zenon DEF DropOther
<1> HIDE DEF Typed, Less, Owes, Bits
<1>21. Less
  BY <1>1, <1>2, <1>3, <1>4, <1>5, <1>6, <1>7, <1>8, <1>9, <1>10, <1>11, <1>12, <1>13, <1>14, <1>15, <1>16,
     <1>17, <1>18, <1>19, <1>20, Zenon DEF Step
<1> QED BY <1>21, Zenon DEF Less

\* Every step is a start of one process, which may be granted a lease, or leaves
\* no process more to be granted.
OneStarts(a) ==
    /\ starts < MaxStarts /\ starts' = starts + 1 /\ UNCHANGED <<now, grants, file, listed>>
    /\ \A b \in Actors : b # a => pc'[b] = pc[b] /\ job'[b] = job[b]
    /\ job'[a].duration <= MaxDuration /\ job'[a].held.token <= grants /\ job'[a].stage = "join"
NoneStarts ==
    /\ starts' = starts
    /\ \A a \in Actors : (pc'[a] = pc[a] /\ job'[a] = job[a]) \/ Step(a)

LEMMA StartsStep ==
    ASSUME Typed, Purpose, TokensUnique, \A a \in Actors : Bits(a), [Next]_vars
    PROVE  NoneStarts \/ \E a \in Actors : OneStarts(a)
<1>1. ASSUME NEW w \in Workspaces, DeviceUnlock(w) PROVE OneStarts(<<"command", w>>) /\ <<"command", w>> \in Actors
  <2> DEFINE a == <<"command", w>>
  <2>1. /\ a \in Actors /\ pc[a] = "idle" /\ starts < MaxStarts /\ starts' = starts + 1
        /\ UNCHANGED <<now, grants, file, job, listed>>
        /\ \A b \in Actors : b # a => pc'[b] = pc[b]
    BY <1>1, Zenon DEF DeviceUnlock, Start, Goto, Typed
  <2>2. job'[a] = job[a] /\ job[a] = NoJob
    BY <2>1, Zenon DEF Purpose, PurposeOf
  <2>3. job'[a].stage = "join" /\ job'[a].duration = job[a].duration /\ job'[a].held = job[a].held
    BY <2>2, Blanks, Zenon
  <2> QED BY <2>1, <2>3, Zenon DEF OneStarts, Bits
<1>2. ASSUME NEW w \in Workspaces, NEW d \in Devices, NEW n \in Declared, DeviceLock(w, d, n)
      PROVE  OneStarts(<<"command", w>>) /\ <<"command", w>> \in Actors
  <2> DEFINE a == <<"command", w>>
  <2>1. /\ a \in Actors /\ pc[a] = "idle" /\ starts < MaxStarts /\ starts' = starts + 1
        /\ UNCHANGED <<now, grants, file, listed>>
        /\ \A b \in Actors : b # a => pc'[b] = pc[b] /\ job'[b] = job[b]
    BY <1>2, Zenon DEF DeviceLock, Start, Goto, Typed
  <2>2. job'[a].stage = "join" /\ job'[a].duration = n /\ job'[a].held = NoRecord
    BY <1>2, <2>1, Zenon DEF DeviceLock, Typed, NoJob
  <2>3. job[a].held = NoRecord
    <3>1. job[a] = NoJob
      BY <2>1, Zenon DEF Purpose, PurposeOf
    <3> QED BY <3>1, Blanks, Zenon
  <2> QED BY <2>1, <2>2, <2>3, Longest, Zenon DEF OneStarts, Bits
<1>3. ASSUME NEW w \in Workspaces, NEW d \in Devices, StartRun(w, d)
      PROVE  OneStarts(<<"run", w>>) /\ <<"run", w>> \in Actors
  <2> DEFINE a == <<"run", w>>
  <2>1. /\ a \in Actors /\ pc[a] = "idle" /\ starts < MaxStarts /\ starts' = starts + 1
        /\ UNCHANGED <<now, grants, file, listed>>
        /\ \A b \in Actors : b # a => pc'[b] = pc[b] /\ job'[b] = job[b]
    BY <1>3, Zenon DEF StartRun, Start, Goto, Typed
  <2>2. job'[a].stage = "join" /\ job'[a].duration = RunStep /\ job'[a].held \in {NoRecord, record[w]}
    BY <1>3, <2>1, Zenon DEF StartRun, Typed, NoJob
  <2>3. job[a].held = NoRecord
    <3>1. job[a] = NoJob
      BY <2>1, Zenon DEF Purpose, PurposeOf
    <3> QED BY <3>1, Blanks, Zenon
  <2>4. job[a].held.token <= grants /\ record[w].token <= grants
    BY <2>1, Zenon DEF Bits, TokensUnique, Drawn
  <2> QED BY <2>1, <2>2, <2>3, <2>4, Longest, Zenon DEF OneStarts
<1>4. ASSUME NEW a \in Actors, Step(a) PROVE NoneStarts
  BY <1>4, OwnStep, Zenon DEF NoneStarts
<1>5. ASSUME Tick \/ ListExpired \/ UNCHANGED vars PROVE NoneStarts
  BY <1>5, Zenon DEF Tick, ListExpired, vars, NoneStarts
<1>6. ASSUME NEW d \in Devices, DropExpired(d) PROVE NoneStarts
  BY <1>6, Zenon DEF DropExpired, NoneStarts
<1> QED BY <1>1, <1>2, <1>3, <1>4, <1>5, <1>6, Zenon DEF Next

\* The grants made and those still to come are no more than the starts.
LEMMA GrantsStep ==
    ASSUME IndInv, Bounded, [Next]_vars
    PROVE  /\ starts' \in Nat /\ starts' <= MaxStarts
           /\ IsFiniteSet(Owing') /\ grants' + Cardinality(Owing') <= starts'
           /\ \A a \in Actors : Bits(a)'
<1>1. /\ Typed /\ Purpose /\ TokensUnique /\ Typed' /\ \A a \in Actors : Bits(a)
      /\ IsFiniteSet(Owing) /\ grants + Cardinality(Owing) <= starts /\ starts \in Nat /\ starts <= MaxStarts
  BY TypedStep, Zenon DEF IndInv, Bounded
<1>2. grants \in Nat /\ grants' \in Nat /\ MaxStarts \in Nat /\ Cardinality(Owing) \in Nat
  BY <1>1, TimesAssumption, FS_CardinalityType, Zenon DEF Typed
<1>3. grants' = grants \/ \E a \in Actors : Granted(a)
  BY <1>1, FileStep, Zenon DEF NotGranted
<1>4. grants <= grants'
  BY <1>2, <1>3 DEF Granted
<1>5. ASSUME NoneStarts, NEW a \in Actors PROVE Bits(a)' /\ (Owes(a)' => Owes(a))
  <2>1. \A n \in Nat : n <= grants => n <= grants'
    BY <1>2, <1>4
  <2>2. job[a].held.token \in Nat /\ Bits(a) /\ NoRecord.token = 0 /\ 0 <= MaxDuration /\ 0 <= grants'
    <3>1. job[a].held.token \in Nat
      BY <1>1, Zenon DEF Typed, Jobs, LeaseRecords
    <3>2. 0 <= MaxDuration /\ 0 <= grants'
      BY <1>2, Longest
    <3> QED BY <1>1, <3>1, <3>2, Blanks, Zenon
  <2>3. CASE pc'[a] = pc[a] /\ job'[a] = job[a]
    BY <2>1, <2>2, <2>3, Zenon DEF Bits, Owes
  <2>4. CASE Step(a)
    <3>1. /\ Owes(a)' => Owes(a)
          /\ job'[a].duration \in {0, job[a].duration} /\ job'[a].held \in {NoRecord, job[a].held}
          /\ job'[a].stage # "join" => pc'[a] \in {"raiseRead", "raise"}
      BY <1>1, <2>4, OwesLess, Zenon
    <3> QED BY <2>1, <2>2, <3>1, Zenon DEF Bits
  <2> QED BY <1>5, <2>3, <2>4, Zenon DEF NoneStarts
<1>6. CASE NoneStarts /\ grants' = grants
  <2>1. Owing' \in SUBSET Owing
    BY <1>5, <1>6, Zenon DEF Owing
  <2>2. IsFiniteSet(Owing') /\ Cardinality(Owing') <= Cardinality(Owing) /\ Cardinality(Owing') \in Nat
    BY <1>1, <2>1, FS_Subset, FS_CardinalityType, Zenon
  <2> QED BY <1>1, <1>2, <1>5, <1>6, <2>2 DEF NoneStarts
<1>7. ASSUME NoneStarts, NEW a \in Actors, Granted(a)
      PROVE  IsFiniteSet(Owing') /\ grants' + Cardinality(Owing') <= starts
  <2>1. a \in Owing
    BY <1>1, <1>7, Zenon DEF Granted, Owing, Owes, Bits, Purpose, PurposeOf
  <2>2. ~Owes(a)'
    BY <1>7, Zenon DEF Granted, Owes
  <2>3. Owing' \in SUBSET (Owing \ {a})
    BY <1>5, <1>7, <2>2, Zenon DEF Owing
  <2>4. IsFiniteSet(Owing \ {a}) /\ Cardinality(Owing \ {a}) = Cardinality(Owing) - 1
    BY <1>1, <2>1, FS_RemoveElement
  <2>5. /\ IsFiniteSet(Owing') /\ Cardinality(Owing') <= Cardinality(Owing \ {a}) /\ Cardinality(Owing') \in Nat
    BY <2>3, <2>4, FS_Subset, FS_CardinalityType, Zenon
  <2> QED BY <1>1, <1>2, <1>7, <2>4, <2>5, SMTT(30) DEF Granted
<1>8. ASSUME NEW a \in Actors, OneStarts(a)
      PROVE  /\ IsFiniteSet(Owing') /\ grants' + Cardinality(Owing') <= starts'
             /\ \A b \in Actors : Bits(b)'
  <2>1. /\ grants' = grants /\ starts' = starts + 1
        /\ \A b \in Actors : b # a => pc'[b] = pc[b] /\ job'[b] = job[b]
    BY <1>8, Zenon DEF OneStarts
  <2>2. Owing' \in SUBSET (Owing \cup {a})
    BY <2>1, Zenon DEF Owing, Owes
  <2>3. IsFiniteSet(Owing \cup {a}) /\ Cardinality(Owing \cup {a}) <= Cardinality(Owing) + 1
        /\ Cardinality(Owing \cup {a}) \in Nat
    BY <1>1, <1>2, FS_AddElement, FS_CardinalityType, SMTT(30)
  <2>4. IsFiniteSet(Owing') /\ Cardinality(Owing') <= Cardinality(Owing \cup {a}) /\ Cardinality(Owing') \in Nat
    BY <2>2, <2>3, FS_Subset, FS_CardinalityType, Zenon
  <2>5. \A b \in Actors : Bits(b)'
    BY <1>1, <1>8, <2>1, Zenon DEF OneStarts, Bits
  <2> QED BY <1>1, <1>2, <2>1, <2>3, <2>4, <2>5, SMTT(30)
<1>9. starts' \in Nat /\ starts' <= MaxStarts
  BY <1>1, <1>2, StartsStep DEF OneStarts, NoneStarts
<1> QED BY <1>1, <1>3, <1>5, <1>6, <1>7, <1>8, <1>9, StartsStep, Zenon DEF NoneStarts

\* No lease runs past the last time by more than the longest duration.
LEMMA ExpiryStep ==
    ASSUME IndInv, Bounded, [Next]_vars
    PROVE  \A d \in Devices : file'[d].expires <= MaxTime + MaxDuration
<1> DEFINE Last == MaxTime + MaxDuration
           Early == \A d \in Devices : file[d].expires <= Last
<1>1. /\ Typed /\ Purpose /\ Early /\ Last \in Nat /\ now \in Nat /\ now <= MaxTime
      /\ MaxTime \in Nat /\ MaxDuration \in Nat
  BY TimesAssumption, Longest DEF IndInv, Bounded, Typed
<1>2. \A n \in Nat : n <= MaxDuration => now + n <= Last
  BY <1>1
<1>3. \A m, n : m <= Last /\ n <= Last => Later(m, n) <= Last
  BY Zenon DEF Later
<1>4. ASSUME NEW a \in Actors PROVE now + job[a].duration <= Last
  <2>1. job[a].duration \in Nat /\ job[a].duration <= MaxDuration
    BY Zenon DEF IndInv, Typed, Jobs, Bounded, Bits
  <2> QED BY <1>2, <2>1, Zenon
<1>5. now + RunStep <= Last
  BY <1>2, TimesAssumption, Longest, Zenon
<1>6. NoLease.expires <= Last
  <2>1. 0 <= Last
    BY <1>1, SMTT(30)
  <2> QED BY <2>1, Blanks, Zenon
<1> HIDE DEF Last
<1> USE DEF Typed
<1>7. ASSUME NEW a \in Actors, DropHeld(a) PROVE Early'
  BY <1>1, <1>6, <1>7, Zenon DEF DropHeld
<1>8. ASSUME NEW a \in Actors, NEW d \in Devices, DropOther(a, d) PROVE Early'
  BY <1>1, <1>6, <1>8, Zenon DEF DropOther
<1>9. ASSUME NEW a \in Actors, Taken(a) PROVE Early'
  BY <1>1, <1>4, <1>9, Zenon DEF Taken
<1>10. ASSUME NEW a \in Actors, Set(a) PROVE Early'
  <2>1. job[a].dev \in Devices
    BY <1>1, <1>10, Zenon DEF Set, Purpose, PurposeOf, Jobs
  <2>2. SetTo(a) <= Last
    BY <1>1, <1>3, <1>4, <2>1, Zenon DEF SetTo
  <2> QED BY <1>1, <1>10, <2>2, Zenon DEF Set, Leases
<1>11. ASSUME NEW a \in Actors, Raised(a) PROVE Early'
  <2>1. \A d \in Devices : Later(file[d].expires, now + RunStep) <= Last
    BY <1>1, <1>3, <1>5, Zenon
  <2>2. \A d \in Devices : file'[d].expires \in {file[d].expires, Later(file[d].expires, now + RunStep)}
    BY <1>1, <1>11, Zenon DEF Raised, Leases
  <2> QED BY <1>1, <2>1, <2>2, Zenon
<1>12. ASSUME NEW d \in Devices, DropExpired(d) PROVE Early'
  BY <1>1, <1>6, <1>12, Zenon DEF DropExpired
<1> HIDE DEF Typed, Early
<1>13. ASSUME file' = file PROVE Early'
  BY <1>1, <1>13, Zenon DEF Early
<1>14. Early'
  BY <1>7, <1>8, <1>9, <1>10, <1>11, <1>12, <1>13, FilesChange, Zenon
<1> QED BY <1>14, Zenon DEF Early, Last

\* The clock and the listing of gc.
LEMMA WorldStep ==
    ASSUME Typed, now <= MaxTime, listed \subseteq Devices, [Next]_vars
    PROVE  now' <= MaxTime /\ listed' \subseteq Devices
<1>1. CASE Tick
  BY <1>1, TimesAssumption DEF Tick, Typed
<1>2. CASE ListExpired
  BY <1>2, Zenon DEF ListExpired
<1>3. ASSUME NEW d \in Devices, DropExpired(d) PROVE now' = now /\ listed' \subseteq Devices
  BY <1>3, Zenon DEF DropExpired
<1>4. ASSUME NEW a \in Actors, Step(a) PROVE now' = now /\ listed' = listed
  BY <1>4, OwnStep, Zenon
<1>5. ASSUME NEW w \in Workspaces, DeviceUnlock(w) PROVE now' = now /\ listed' = listed
  BY <1>5, Zenon DEF DeviceUnlock
<1>6. ASSUME NEW w \in Workspaces, NEW d \in Devices, NEW n \in Declared, DeviceLock(w, d, n) PROVE now' = now /\ listed' = listed
  BY <1>6, Zenon DEF DeviceLock
<1>7. ASSUME NEW w \in Workspaces, NEW d \in Devices, StartRun(w, d) PROVE now' = now /\ listed' = listed
  BY <1>7, Zenon DEF StartRun
<1>8. CASE UNCHANGED vars
  BY <1>8, Zenon DEF vars
<1> QED BY <1>1, <1>2, <1>3, <1>4, <1>5, <1>6, <1>7, <1>8, Zenon DEF Next

\* Every value of the model stays within its bounds: takeLease grants a command
\* or a run one new lease at most, so no token passes the number of starts, and
\* no lease is set beyond the longest duration from now.
THEOREM TypesHold == Spec => []TypeOK
<1>1. Init => Bounded
  <2> SUFFICES ASSUME Init PROVE Bounded
    OBVIOUS
  <2>1. Owing = {}
    BY Zenon DEF Init, Owing, Owes
  <2>2. \A a \in Actors : Bits(a)
    <3>1. NoJob.duration = 0 /\ NoJob.held.token = 0 /\ NoJob.stage = "join"
      BY Zenon DEF NoJob, NoRecord
    <3>2. \A a \in Actors : job[a] = NoJob
      BY Zenon DEF Init
    <3> QED BY <3>1, <3>2, Longest DEF Init, Bits
  <2>3. \A d \in Devices : file[d].expires = 0
    BY Blanks, Zenon DEF Init
  <2>4. IsFiniteSet(Owing) /\ Cardinality(Owing) = 0
    BY <2>1, FS_EmptySet, Zenon
  <2> QED BY <2>2, <2>3, <2>4, TimesAssumption, Longest DEF Init, Bounded
<1>2. IndInv /\ Bounded /\ [Next]_vars => Bounded'
  <2> SUFFICES ASSUME IndInv, Bounded, [Next]_vars PROVE Bounded'
    OBVIOUS
  <2>1. now' <= MaxTime /\ listed' \subseteq Devices
    BY WorldStep, Zenon DEF IndInv, Bounded
  <2> QED BY <2>1, GrantsStep, ExpiryStep, Zenon DEF Bounded
<1>3. IndInv /\ Bounded => TypeOK
  <2> SUFFICES ASSUME IndInv, Bounded PROVE TypeOK
    OBVIOUS
  <2>1. Typed /\ TokensUnique
    BY Zenon DEF IndInv
  <2>2. grants \in Tokens /\ starts \in 0..MaxStarts /\ now \in 0..MaxTime /\ \A n \in Nat : n <= grants => n \in Tokens
    <3>1. Cardinality(Owing) \in Nat
      BY FS_CardinalityType DEF Bounded
    <3> QED BY <2>1, <3>1, TimesAssumption DEF Typed, Bounded, Tokens
  <2>3. ASSUME NEW r \in LeaseRecords, r.token <= grants PROVE r \in Records
    BY <2>2, <2>3, Zenon DEF LeaseRecords, Records
  <2>4. \A d \in Devices : file[d] \in [holder : Workspaces \cup {""}, token : Tokens, expires : 0..(MaxTime + MaxDuration)]
    <3>1. \A n \in Nat : n <= MaxTime + MaxDuration => n \in 0..(MaxTime + MaxDuration)
      BY TimesAssumption, Longest
    <3> QED BY <2>1, <2>2, <3>1, Zenon DEF Typed, Leases, TokensUnique, Bounded
  <2>5. \A w \in Workspaces : record[w] \in Records
    BY <2>1, <2>3, Zenon DEF Typed, TokensUnique, Drawn
  <2>6. ASSUME NEW a \in Actors
        PROVE  job[a] \in [dev : Devices \cup {""}, duration : 0..MaxDuration, held : Records,
                           prev : Records, others : SUBSET Devices, token : Tokens, kind : Kinds,
                           stage : {"join", "before", "after"}]
    <3>1. \A n \in Nat : n <= MaxDuration => n \in 0..MaxDuration
      BY Longest
    <3>2. job[a] \in Jobs
      BY <2>1, Zenon DEF Typed
    <3>3. job[a].duration \in Nat /\ job[a].held \in LeaseRecords /\ job[a].prev \in LeaseRecords /\ job[a].token \in Nat
      BY <3>2, Zenon DEF Jobs
    <3>4. Bits(a) /\ job[a].prev.token <= grants /\ job[a].token <= grants
      BY <2>1, Zenon DEF Bounded, TokensUnique, Drawn
    <3>5. job[a].duration \in 0..MaxDuration /\ job[a].held \in Records /\ job[a].prev \in Records /\ job[a].token \in Tokens
      BY <2>2, <2>3, <3>1, <3>3, <3>4, Zenon DEF Bits
    <3> QED BY <3>2, <3>5, Zenon DEF Jobs
  <2> QED BY <2>1, <2>2, <2>4, <2>5, <2>6, Zenon DEF TypeOK, Typed, Bounded
<1> QED BY <1>1, <1>2, <1>3, Invariance, PTL DEF Spec
=============================================================================
