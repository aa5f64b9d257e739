-------------------------- MODULE EngineStoreProofs --------------------------
(***************************************************************************)
(* The engine store, for any builds, homes, commands and budgets: the      *)
(* inductive invariant, what each step does to the stimds and the          *)
(* engine-select processes, why the step keeps the invariant, and what     *)
(* follows from it.                                                        *)
(***************************************************************************)
EXTENDS EngineStore, TLAPS

-----------------------------------------------------------------------------
(***************************************************************************)
(* The inductive invariant                                                 *)
(***************************************************************************)

\* An engine-select process works for a.
Selecting(a) == select[a].at # None

\* A build is moved to for someone.
Named ==
    /\ staged.dir # 0 => staged.by # None
    /\ \A a \in Actors :
           select[a].at \in {"check", "test", "lock", "previous", "current"} => select[a].by # None

\* The trees of the records and of the processes are in the store.
Stored ==
    /\ current.dir \in trees
    /\ {previous, staged.dir} \subseteq trees \cup {0}
    /\ \A h \in Homes : stimd[h].st # "off" => stimd[h].build \in trees
    /\ \A a \in Actors : Selecting(a) => select[a].build \in trees

\* A stimd that flips or holds the engine needs the promotion lock.
NeedsLock(h) == stimd[h].chk \in {"flip", "again", "child"} \/ stimd[h].st \in {"hold", "holding"}

\* So does an actor that has an engine-select process.
Locked ==
    /\ \A a \in Actors : Selecting(a) => lock = a
    /\ \A h \in Homes : NeedsLock(h) => lock = h

\* Only a stimd that is up has operations and checks; the engine-select process
\* of a stimd flips a staged build for a check, or goes back for a hold.
Placed ==
    /\ \A h \in Homes :
           /\ stimd[h].op # None \/ stimd[h].chk # "idle" => stimd[h].st = "up"
           /\ Selecting(h) => stimd[h].chk = "child" \/ stimd[h].st = "holding"
           /\ stimd[h].chk = "child" => select[h].flip
    /\ \A a \in Actors :
           /\ select[a].flip => a \in Homes /\ stimd[a].chk = "child"
           /\ select[a].at = "staged" => select[a].flip

\* The flip lock is held by the stimd that probes it or flips under it.
Gated ==
    \A h \in Homes :
        /\ stimd[h].op = "held" => flipLock = <<h, "probe">>
        /\ stimd[h].chk \in {"again", "child"} => flipLock = <<h, "follow">>

\* Admitted work is on record, and a stimd that flips has seen none in the
\* claims of its build since it took the flip lock.
Drained ==
    \A h \in Homes :
        /\ stimd[h].op \in {"probe", "held", "read", "run", "loose"} => ~stimd[h].drained
        /\ stimd[h].chk = "child" => ~WorksOn(stimd[h].build, {"held", "read", "run"})

\* A flip goes from the engine's build, which `previous` names from its first
\* write on, to its own.
Moving ==
    \A a \in Actors :
        /\ select[a].at \in {"test", "lock", "previous", "current"} => select[a].from = current.dir
        /\ select[a].at \in FlipWrites => previous = select[a].from \/ select[a].build = select[a].from
        /\ select[a].at \in {"unstage", "launchers"} => current.dir = select[a].build

TornNever == \A w \in FlipWrites : torn[w] = 0

Between(a) == select[a].at \in FlipWrites

\* The launchers start the engine's build.  They are behind while a flip is at
\* them and after one was killed there; the build they start is then `previous`,
\* and stays in the store until that file is written again.
Behind ==
    /\ TornNever /\ (\A a \in Actors : select[a].at \notin {"unstage", "launchers"})
         => launcher = current.dir
    /\ TornNever => launcher \in {current.dir, previous}
    /\ TornOnce /\ (\A a \in Actors : ~Between(a)) => launcher \in {current.dir, previous}
    /\ TornOnce => launcher \in trees

\* There is a newest build among those marked bad.
BadKnown == bad = {} \/ \E newest \in bad : \A b \in bad : b <= newest

\* The engine may leave its build for this one.
Right(build, by) ==
    /\ by = "auto" => build > current.dir /\ build > NewestBad(bad)
    /\ by = "hold" => current.dir \in bad

\* What was checked of a build still holds while it is staged and while an
\* engine-select process moves to it.
Checked ==
    /\ \A a \in Actors :
           /\ select[a].at = "test" => select[a].seen = bad
           /\ select[a].at = "check" /\ select[a].by = "hold" => current.dir \in bad
           /\ /\ select[a].at \in {"test", "lock", "previous", "current"}
              /\ select[a].flip => torn["unstage"] = 0
              => Right(select[a].build, select[a].by)
    /\ /\ torn["unstage"] = 0 /\ staged.dir # 0
       /\ \A a \in Actors : select[a].at # "unstage"
       => Right(staged.dir, staged.by)

StoreInv ==
    /\ TypeOK /\ Named /\ Stored
    /\ Locked /\ Placed
    /\ Gated /\ Drained
    /\ Moving /\ Behind
    /\ BadKnown /\ Checked

-----------------------------------------------------------------------------
(***************************************************************************)
(* Facts about the operators                                               *)
(***************************************************************************)

\* A machine starts from its oldest build.
LEMMA OldestBuild == Min(Builds) \in Builds
  BY BuildsAssumption, Zenon DEF Min

\* A stimd that is off and no engine-select process are values of their kinds.
LEMMA Blank == Off \in Stimds /\ Off.st = "off" /\ NoSelect \in Selects /\ NoSelect.at = None
  BY Zenon DEF Off, Stimds, Ops, NoSelect, Selects

\* The kinds of what steps read.
LEMMA Kinds ==
    ASSUME TypeOK
    PROVE  /\ stimd \in [Homes -> Stimds] /\ select \in [Actors -> Selects]
           /\ boots \in [Homes -> [Builds -> Nat]] /\ left \in Purse
           /\ trees \subseteq Builds /\ bad \in SUBSET Builds
           /\ current.dir \in Builds /\ staged.dir \in Builds \cup {0} /\ staged.by \in Movers \cup {None}
           /\ Builds \subseteq Nat /\ 0 \notin Builds
           /\ (\A h \in Homes : h \in Actors) /\ (\A c \in Commands : c \in Actors /\ c \notin Homes)
           /\ NoOne \notin Actors
<1>1. /\ stimd \in [Homes -> Stimds] /\ select \in [Actors -> Selects]
      /\ boots \in [Homes -> [Builds -> Nat]] /\ left \in Purse
      /\ trees \subseteq Builds /\ bad \in SUBSET Builds
      /\ current \in [dir : Builds, pinned : BOOLEAN, by : Movers]
      /\ staged \in [dir : Builds \cup {0}, by : Movers \cup {None}, restore : BOOLEAN]
  BY Zenon DEF TypeOK
<1>2. Builds \subseteq Nat /\ 0 \notin Builds
  BY BuildsAssumption
<1>3. /\ (\A h \in Homes : h \in Actors) /\ (\A c \in Commands : c \in Actors /\ c \notin Homes)
      /\ NoOne \notin Actors
  BY ActorsAssumption, Zenon DEF Actors, NoOne
<1> QED BY <1>1, <1>2, <1>3, Zenon

\* The invariant holds of an engine that was just installed.
LEMMA StoreInvInit == Init => StoreInv
<1> SUFFICES ASSUME Init PROVE StoreInv
  OBVIOUS
<1>1. TypeOK
  BY OldestBuild, Blank, BuildsAssumption, BoundsAssumption, Zenon
     DEF Init, TypeOK, NotStaged, Movers, FlipWrites
<1>2. Named /\ Stored
  BY Zenon DEF Init, Named, Stored, NotStaged, Off, NoSelect, Selecting, None
<1>3. Locked /\ Placed
  BY Zenon DEF Init, Locked, NeedsLock, Placed, Off, NoSelect, Selecting, None, Actors
<1>4. Gated /\ Drained
  BY Zenon DEF Init, Gated, Drained, Off, None
<1>5. Moving /\ Behind
  BY Zenon DEF Init, Moving, Behind, NoSelect, TornOnce, Between, FlipWrites, None
<1>6. BadKnown /\ Checked
  BY Zenon DEF Init, BadKnown, Checked, NoSelect, NotStaged, None
<1> QED BY <1>1, <1>2, <1>3, <1>4, <1>5, <1>6 DEF StoreInv


-----------------------------------------------------------------------------
(***************************************************************************)
(* What a step does to a stimd and to an engine-select process             *)
(***************************************************************************)

\* The stimds of other homes stay as they are.
OthersStay(h) == stimd' \in [Homes -> Stimds] /\ \A i \in Homes \ {h} : stimd'[i] = stimd[i]

\* The stimd of h stays where it is in its life.
SameLife(h) == stimd'[h].st = stimd[h].st /\ stimd'[h].build = stimd[h].build

\* The work of h stays as it is.
SameWork(h) == stimd'[h].op = stimd[h].op /\ stimd'[h].drained = stimd[h].drained

\* The engine-select processes of other actors stay as they are.
OthersSelect(a) == select' \in [Actors -> Selects] /\ \A b \in Actors \ {a} : select'[b] = select[b]

\* The engine-select process of a has the same task.
SameTask(a) ==
    /\ select'[a].build = select[a].build /\ select'[a].flip = select[a].flip
    /\ select'[a].restore = select[a].restore

LEMMA StimdRenewed ==
    ASSUME stimd \in [Homes -> Stimds], NEW h \in Homes, NEW s \in Stimds, stimd' = [stimd EXCEPT ![h] = s]
    PROVE  OthersStay(h) /\ stimd'[h] = s
  BY DEF OthersStay

LEMMA SelectRenewed ==
    ASSUME select \in [Actors -> Selects], NEW a \in Actors, NEW s \in Selects,
           select' = [select EXCEPT ![a] = s]
    PROVE  OthersSelect(a) /\ select'[a] = s
  BY DEF OthersSelect

\* What a step spends is there.
LEMMA Spent ==
    ASSUME NEW b \in Purse
    PROVE  /\ b.moves > 0 => [b EXCEPT !.moves = @ - 1] \in Purse
           /\ b.ops > 0 => [b EXCEPT !.ops = @ - 1] \in Purse
           /\ b.crashes > 0 => [b EXCEPT !.crashes = @ - 1] \in Purse
           /\ b.kills > 0 => [b EXCEPT !.kills = @ - 1] \in Purse
  BY DEF Purse

\* The steps of native work.
OpStep(h) ==
    \/ OpBegin(h) \/ Admission(h) \/ OpWait(h) \/ OpLeaves(h) \/ OpResume(h) \/ OpEnd(h)
    \/ HostedBegin(h) \/ HostedEnd(h)

\* An operation of h goes from one state to another.
OpGoes(h) ==
    /\ OthersStay(h) /\ SameLife(h) /\ stimd'[h].chk = stimd[h].chk
    /\ stimd[h].st = "up" \/ stimd[h].op # None
    /\ UNCHANGED <<records, trees, lock, boots, select, torn>>
    /\ \/ flipLock' = flipLock /\ stimd'[h].op # "held"
       \/ flipLock = <<>> /\ flipLock' = <<h, "probe">> /\ stimd'[h].op = "held"
       \/ stimd[h].op = "held" /\ flipLock' = <<>> /\ stimd'[h].op = "read"
    /\ stimd'[h].op \in {"probe", "held", "read", "run", "loose"} => ~stimd'[h].drained
    /\ stimd'[h].op \in {"read", "run"} => stimd[h].op \in {"held", "read", "run"}
    /\ left' \in Purse

\* Admission: an operation holds the flip lock only when it finds it free, runs
\* only after it held it, and is on record from its beginning.
LEMMA OpSteps ==
    ASSUME TypeOK, Drained, NEW h \in Homes, OpStep(h)
    PROVE  OpGoes(h)
<1>1. stimd \in [Homes -> Stimds] /\ left \in Purse
  BY Kinds, Zenon
<1>2. stimd[h].op \in {"probe", "held", "read", "run", "loose"} => ~stimd[h].drained
  BY Zenon DEF Drained
<1>3. ASSUME NEW op \in Ops, stimd' = [stimd EXCEPT ![h].op = op]
      PROVE  /\ OthersStay(h) /\ SameLife(h) /\ stimd'[h].chk = stimd[h].chk
             /\ stimd'[h].op = op /\ stimd'[h].drained = stimd[h].drained
  <2>1. [stimd[h] EXCEPT !.op = op] \in Stimds
    BY <1>1, Zenon DEF Stimds
  <2> QED BY <1>1, <1>3, <2>1, Zenon DEF OthersStay, SameLife, Stimds
<1>4. ASSUME NEW op \in Ops, NEW drained \in BOOLEAN,
             stimd' = [stimd EXCEPT ![h] = [@ EXCEPT !.op = op, !.drained = drained]]
      PROVE  /\ OthersStay(h) /\ SameLife(h) /\ stimd'[h].chk = stimd[h].chk
             /\ stimd'[h].op = op /\ stimd'[h].drained = drained
  <2>1. [stimd[h] EXCEPT !.op = op, !.drained = drained] \in Stimds
    BY <1>1, ZenonT(30) DEF Stimds
  <2> QED BY <1>1, <1>4, <2>1, Zenon DEF OthersStay, SameLife, Stimds
<1> USE <1>1 DEF OpGoes, Ops, None, records, locks
<1>5. ASSUME OpBegin(h) PROVE OpGoes(h)
  <2>1. left' \in Purse
    BY <1>5, Spent, Zenon DEF OpBegin
  <2> QED BY <1>4, <1>5, <2>1, Zenon DEF OpBegin
<1>6. ProbeFlipLock(h) => OpGoes(h)
  BY <1>2, <1>3, Zenon DEF ProbeFlipLock
<1>7. ReleaseProbe(h) => OpGoes(h)
  BY <1>2, <1>3, Zenon DEF ReleaseProbe
<1>8. Admit(h) => OpGoes(h)
  BY <1>4, Zenon DEF Admit, Admitted, Switched
<1>9. AdmitLate(h) => OpGoes(h)
  BY <1>4, Zenon DEF AdmitLate, Admitted, Switched
<1>10. OpWait(h) => OpGoes(h)
  BY <1>4, Zenon DEF OpWait
<1>11. OpLeaves(h) => OpGoes(h)
  BY <1>3, Zenon DEF OpLeaves
<1>12. OpResume(h) => OpGoes(h)
  BY <1>4, Zenon DEF OpResume
<1>13. OpEnd(h) => OpGoes(h)
  BY <1>4, Zenon DEF OpEnd
<1>14. HostedBegin(h) => OpGoes(h)
  BY <1>3, Spent, Zenon DEF HostedBegin
<1>15. HostedEnd(h) => OpGoes(h)
  BY <1>3, Zenon DEF HostedEnd
<1> QED BY <1>5, <1>6, <1>7, <1>8, <1>9, <1>10, <1>11, <1>12, <1>13, <1>14, <1>15, Zenon DEF OpStep, Admission


\* A stimd that starts is up, or at its boot, under its build.
LEMMA StartedStimd ==
    ASSUME NEW h, NEW build \in Builds
    PROVE  /\ Started(h, build) \in Stimds
           /\ Started(h, build).st \in {"boot", "up"} /\ Started(h, build).build = build
           /\ Started(h, build).op = None /\ Started(h, build).chk = "idle"
  BY Zenon DEF Started, Off, Stimds, Ops, None

\* The steps in the life of a stimd that holds no lock.
LifeStep(h) == Launch(h) \/ Relaunch(h) \/ Successor(h) \/ Shutdown(h) \/ Crash(h)

\* A stimd that runs starts, or leaves, without work.
LifeGoes(h) ==
    /\ OthersStay(h) /\ stimd'[h].op = None /\ stimd'[h].chk = "idle"
    /\ stimd'[h].st \in {"off", "boot", "up", "handing"}
    /\ stimd'[h].st # "off" => stimd'[h].build \in trees
    /\ stimd[h].st \in {"off", "handing"} \/ stimd[h].chk = "idle"
    /\ stimd[h].st \in {"off", "handing", "up"}
    /\ boots' \in [Homes -> [Builds -> Nat]] /\ left' \in Purse
    /\ UNCHANGED <<records, trees, locks, select, torn>>

LEMMA LifeSteps ==
    ASSUME TypeOK, Stored, NEW h \in Homes, LifeStep(h)
    PROVE  LifeGoes(h)
<1>1. /\ stimd \in [Homes -> Stimds] /\ trees \subseteq Builds /\ current.dir \in Builds
      /\ boots \in [Homes -> [Builds -> Nat]] /\ left \in Purse
  BY Kinds, Zenon
<1>2. stimd[h].st # "off" => stimd[h].build \in trees
  BY Zenon DEF Stored
\* The new stimd is blank, started or handing over.
<1>3. ASSUME NEW s \in Stimds, stimd' = [stimd EXCEPT ![h] = s], s.op = None, s.chk = "idle",
             s.st \in {"off", "boot", "up", "handing"}, s.st # "off" => s.build \in trees,
             stimd[h].st \in {"off", "handing"} \/ (stimd[h].st = "up" /\ stimd[h].chk = "idle"),
             boots' \in [Homes -> [Builds -> Nat]], left' \in Purse,
             UNCHANGED <<records, trees, locks, select, torn>>
      PROVE  LifeGoes(h)
  BY <1>1, <1>3, StimdRenewed, Zenon DEF LifeGoes
<1>4. Off \in Stimds /\ Off.st = "off" /\ Off.op = None /\ Off.chk = "idle"
  BY Blank, Zenon DEF Off
<1>5. [boots EXCEPT ![h] = [b \in Builds |-> 0]] \in [Homes -> [Builds -> Nat]]
  BY <1>1
<1>6. Launch(h) => LifeGoes(h)
  <2>1. SUFFICES ASSUME Launch(h) PROVE LifeGoes(h)
    OBVIOUS
  <2>2. PICK b \in {current.dir, launcher} \cap trees : stimd' = [stimd EXCEPT ![h] = Started(h, b)]
    BY <2>1, Zenon DEF Launch
  <2>3. b \in Builds /\ stimd[h].st = "off" /\ UNCHANGED <<records, trees, locks, boots, select, left, torn>>
    BY <1>1, <2>1, Zenon DEF Launch
  <2> QED BY <1>1, <1>3, <2>2, <2>3, StartedStimd, ZenonT(30)
<1>7. Relaunch(h) => LifeGoes(h)
  <2> DEFINE s == [Off EXCEPT !.st = "handing", !.build = stimd[h].build, !.next = current.dir]
  <2>1. SUFFICES ASSUME Relaunch(h) PROVE LifeGoes(h)
    OBVIOUS
  <2>2. /\ s \in Stimds /\ s.st = "handing" /\ s.build = stimd[h].build /\ s.op = None /\ s.chk = "idle"
        /\ stimd[h].build \in trees
    BY <1>1, <1>2, <2>1, Zenon DEF Off, Stimds, Ops, Relaunch
  <2>3. stimd' = [stimd EXCEPT ![h] = s]
    BY <2>1, Zenon DEF Relaunch
  <2> HIDE DEF s
  <2> QED BY <1>1, <1>3, <1>5, <2>1, <2>2, <2>3, Zenon DEF Relaunch
<1>8. Successor(h) => LifeGoes(h)
  <2> DEFINE s == IF stimd[h].next \in trees THEN Started(h, stimd[h].next) ELSE Off
  <2>1. SUFFICES ASSUME Successor(h) PROVE LifeGoes(h)
    OBVIOUS
  <2>2. /\ stimd' = [stimd EXCEPT ![h] = s] /\ stimd[h].st = "handing"
        /\ UNCHANGED <<records, trees, locks, boots, select, left, torn>>
    BY <2>1, Zenon DEF Successor
  <2>3. /\ s \in Stimds /\ s.st \in {"off", "boot", "up"} /\ (s.st # "off" => s.build \in trees)
        /\ s.op = None /\ s.chk = "idle"
    BY <1>1, <1>4, StartedStimd, SMTT(30)
  <2> HIDE DEF s
  <2> QED BY <1>1, <1>3, <2>2, <2>3, Zenon
<1>9. Shutdown(h) => LifeGoes(h)
  BY <1>1, <1>3, <1>4, <1>5, Zenon DEF Shutdown
<1>10. Crash(h) => LifeGoes(h)
  <2>1. SUFFICES ASSUME Crash(h) PROVE LifeGoes(h)
    OBVIOUS
  <2>2. stimd[h].build \in Builds
    BY <1>1, <1>2, <2>1, Zenon DEF Crash
  <2>3. boots' \in [Homes -> [Builds -> Nat]]
    BY <1>1, <2>1, <2>2 DEF Crash
  <2>4. left' \in Purse
    BY <1>1, <2>1, Spent, Zenon DEF Crash
  <2> QED BY <1>3, <1>4, <2>1, <2>3, <2>4, Zenon DEF Crash
<1> QED BY <1>6, <1>7, <1>8, <1>9, <1>10, Zenon DEF LifeStep


-----------------------------------------------------------------------------
(***************************************************************************)
(* What a home's steps do                                                  *)
(***************************************************************************)

HomeStep(h) ==
    \/ OpStep(h) \/ LifeStep(h) \/ ForgetBoots(h)
    \/ CheckEngine(h) \/ TakeLock(h) \/ TakeFlipLock(h) \/ CheckAgain(h) \/ FlipEnds(h)
    \/ HoldLock(h) \/ HoldMoved(h) \/ HoldMark(h) \/ HoldEnds(h)
    \/ KillStimd(h)

\* Where a step leaves the stimd, its engine-select process and the locks.
HomeKeeps(h) ==
    /\ lock' = lock \/ lock \in {NoOne, h}
    /\ lock' \in {lock, NoOne, h}
    /\ select'[h].at # None => lock' = h /\ (stimd'[h].chk = "child" \/ stimd'[h].st = "holding")
    /\ stimd'[h].chk \in {"flip", "again", "child"} \/ stimd'[h].st \in {"hold", "holding"} => lock' = h
    /\ stimd'[h].op # None \/ stimd'[h].chk # "idle" => stimd'[h].st = "up"
    /\ stimd'[h].chk = "child" <=> select'[h].flip
    /\ select'[h].at = "staged" => select'[h].flip
    /\ flipLock' = flipLock \/ flipLock = <<>> \/ flipLock[1] = h
    /\ flipLock' \in {flipLock, <<>>, <<h, "probe">>, <<h, "follow">>}
    /\ stimd'[h].op = "held" => flipLock' = <<h, "probe">>
    /\ stimd'[h].chk \in {"again", "child"} => flipLock' = <<h, "follow">>
    /\ stimd'[h].op \in {"probe", "held", "read", "run", "loose"} => ~stimd'[h].drained
    /\ stimd'[h].chk = "child" =>
           \/ stimd[h].chk = "child" /\ stimd'[h].build = stimd[h].build
           \/ SameLife(h) /\ SameWork(h) /\ AllDrained(stimd[h].build)
    /\ stimd'[h].st = "up" /\ stimd'[h].op \in {"held", "read", "run"} =>
           \/ flipLock = <<>>
           \/ /\ stimd[h].st = "up" /\ stimd[h].build = stimd'[h].build
              /\ stimd[h].op \in {"held", "read", "run"}

\* The engine's build is marked bad, perhaps with a process to leave it.
Marks(h) ==
    /\ bad' = bad \cup {current.dir} /\ torn' = torn
    /\ lock = h /\ select[h].at = None
    /\ \/ select'[h] = select[h]
       \/ select'[h].at = "check" /\ select'[h].by = "hold" /\ ~select'[h].flip

\* What a step may write: the home's own stimd and engine-select process, and a
\* mark.  A process it starts is at its first step, one that it ends is past its
\* writes, and one that dies is counted.
HomeWrites(h) ==
    /\ OthersStay(h) /\ OthersSelect(h)
    /\ stimd'[h].st # "off" => stimd'[h].build \in trees
    /\ select'[h].at # None => select'[h].build \in trees
    /\ boots' \in [Homes -> [Builds -> Nat]] /\ left' \in Purse
    /\ UNCHANGED <<current, previous, staged, launcher, schema, trees>>
    /\ \/ Marks(h)
       \/ bad' = bad /\ torn' = torn /\ select'[h] = select[h]
       \/ bad' = bad /\ torn' = torn /\ select'[h].at \in {None, "staged"} /\ ~Between(h)
       \/ bad' = bad /\ Tears(h) /\ select'[h].at = None

\* A process that dies frees what it held.
LEMMA DiesWith ==
    ASSUME TypeOK, NEW a \in Actors, Dies(a)
    PROVE  /\ OthersSelect(a) /\ select'[a] = NoSelect
           /\ lock' = IF lock = a THEN NoOne ELSE lock
           /\ flipLock' = flipLock \/ (flipLock' = <<>> /\ flipLock # <<>> /\ flipLock[1] = a)
           /\ left' \in Purse /\ Tears(a)
<1>1. select \in [Actors -> Selects] /\ left \in Purse
  BY Kinds, Zenon
<1>2. OthersSelect(a) /\ select'[a] = NoSelect
  BY <1>1, Blank, SelectRenewed, Zenon DEF Dies
<1>3. left' \in Purse
  BY <1>1, Spent, Zenon DEF Dies
<1> QED BY <1>2, <1>3 DEF Dies

LEMMA HomesGo ==
    ASSUME TypeOK, Stored, Locked, Placed, Gated, Drained, NEW h \in Homes, HomeStep(h)
    PROVE  HomeKeeps(h) /\ HomeWrites(h)
<1>1. /\ stimd \in [Homes -> Stimds] /\ select \in [Actors -> Selects] /\ h \in Actors
      /\ boots \in [Homes -> [Builds -> Nat]] /\ left \in Purse
  BY Kinds, Zenon
<1>2. select' = select => OthersSelect(h)
  BY <1>1 DEF OthersSelect
<1>3. /\ select[h].at # None => lock = h /\ (stimd[h].chk = "child" \/ stimd[h].st = "holding")
      /\ NeedsLock(h) => lock = h
      /\ stimd[h].op # None \/ stimd[h].chk # "idle" => stimd[h].st = "up"
      /\ stimd[h].chk = "child" <=> select[h].flip
      /\ select[h].at = "staged" => select[h].flip
      /\ stimd[h].op = "held" => flipLock = <<h, "probe">>
      /\ stimd[h].chk \in {"again", "child"} => flipLock = <<h, "follow">>
      /\ stimd[h].op \in {"probe", "held", "read", "run", "loose"} => ~stimd[h].drained
  BY <1>1, Zenon DEF Locked, Placed, Selecting, Gated, Drained
<1>4. /\ stimd[h].st # "off" => stimd[h].build \in trees
      /\ select[h].at # None => select[h].build \in trees
  BY <1>1, Zenon DEF Selecting, Stored
<1>5. select[h].at = None \/ Ended(h) => ~Between(h)
  BY Zenon DEF Ended, Between, FlipWrites, None
<1>6. NoSelect.at = None /\ NoSelect.flip = FALSE
  BY Zenon DEF NoSelect
<1>7. /\ Off.st = "off" /\ Off.op = None /\ Off.chk = "idle" /\ Off.drained = TRUE
      /\ Off \in Stimds /\ NoSelect \in Selects
  BY Blank, Zenon DEF Off
\* What the steps write into the stimd.
<1>8. ASSUME stimd' = [stimd EXCEPT ![h] = [@ EXCEPT !.chk = "idle", !.saw = 0]]
      PROVE  OthersStay(h) /\ SameLife(h) /\ SameWork(h) /\ stimd'[h].chk = "idle"
  <2>1. [stimd[h] EXCEPT !.chk = "idle", !.saw = 0] \in Stimds
    <3>1. stimd[h] \in Stimds
      BY <1>1
    <3> QED BY <3>1, Zenon DEF Stimds
  <2> QED BY <1>8, <1>1, <2>1, Zenon DEF OthersStay, SameLife, SameWork, Stimds
<1>9. ASSUME NEW chk \in {"idle", "flip", "again", "child"}, stimd' = [stimd EXCEPT ![h].chk = chk]
      PROVE  OthersStay(h) /\ SameLife(h) /\ SameWork(h) /\ stimd'[h].chk = chk
  <2>1. [stimd[h] EXCEPT !.chk = chk] \in Stimds
    BY <1>1, SMTT(30) DEF Stimds
  <2> QED BY <1>1, <1>9, <2>1, Zenon DEF OthersStay, SameLife, SameWork, Stimds
<1>10. ASSUME NEW st \in {"hold", "holding"}, stimd' = [stimd EXCEPT ![h].st = st]
      PROVE  /\ OthersStay(h) /\ SameWork(h) /\ stimd'[h].st = st
             /\ stimd'[h].build = stimd[h].build /\ stimd'[h].chk = stimd[h].chk
  <2>1. [stimd[h] EXCEPT !.st = st] \in Stimds
    BY <1>1, ZenonT(30) DEF Stimds
  <2> QED BY <1>1, <1>10, <2>1, Zenon DEF OthersStay, SameWork, Stimds
<1>11. ASSUME HandOver(h)
      PROVE  /\ OthersStay(h) /\ SameWork(h) /\ stimd'[h].st = "handing"
             /\ stimd'[h].build = stimd[h].build /\ stimd'[h].chk = stimd[h].chk
             /\ lock' = NoOne /\ boots' \in [Homes -> [Builds -> Nat]]
  <2>1. current.dir \in Builds
    BY Kinds, Zenon
  <2>2. [stimd[h] EXCEPT !.st = "handing", !.next = current.dir] \in Stimds
    BY <1>1, <2>1, ZenonT(30) DEF Stimds
  <2>3. OthersStay(h) /\ stimd'[h] = [stimd[h] EXCEPT !.st = "handing", !.next = current.dir]
    BY <1>1, <1>11, <2>2, Zenon DEF HandOver, OthersStay
  <2>4. /\ SameWork(h) /\ stimd'[h].st = "handing"
        /\ stimd'[h].build = stimd[h].build /\ stimd'[h].chk = stimd[h].chk
    BY <1>1, <2>3 DEF SameWork, Stimds
  <2>5. lock' = NoOne /\ boots' \in [Homes -> [Builds -> Nat]]
    BY <1>1, <1>11, Zenon DEF HandOver
  <2> QED BY <2>3, <2>4, <2>5
<1>12. stimd' = [stimd EXCEPT ![h] = Off] => OthersStay(h) /\ stimd'[h] = Off
  BY <1>1, <1>7, StimdRenewed, Zenon
<1>13. select' = [select EXCEPT ![h] = NoSelect] => OthersSelect(h) /\ select'[h] = NoSelect
  BY <1>1, <1>7, SelectRenewed, Zenon
<1> USE <1>1, <1>2, <1>4, <1>6, <1>7
<1>14. ASSUME OpStep(h) PROVE HomeKeeps(h) /\ HomeWrites(h)
  <2>1. OpGoes(h)
    BY <1>14, OpSteps, Zenon
  <2>2. HomeKeeps(h)
    BY <1>3, <2>1, SMTT(30) DEF OpGoes, HomeKeeps, SameLife, SameWork, NeedsLock, None
  <2>3. HomeWrites(h)
    BY <2>1, Zenon DEF OpGoes, HomeWrites, SameLife, records
  <2> QED BY <2>2, <2>3, Zenon
<1>15. ASSUME LifeStep(h) PROVE HomeKeeps(h) /\ HomeWrites(h)
  <2>1. LifeGoes(h)
    BY <1>15, LifeSteps, Zenon
  <2>2. /\ select[h].at = None /\ ~select[h].flip /\ select' = select
        /\ stimd'[h].op = None /\ stimd'[h].chk = "idle" /\ stimd'[h].st \notin {"hold", "holding"}
        /\ lock' = lock /\ flipLock' = flipLock
    BY <1>3, <2>1, Zenon DEF LifeGoes, locks
  <2>3. HomeKeeps(h)
    BY <1>3, <2>2, Zenon DEF HomeKeeps, NeedsLock, None
  <2>4. HomeWrites(h)
    BY <2>1, Zenon DEF LifeGoes, HomeWrites, SameLife, records
  <2> QED BY <2>3, <2>4, Zenon
<1>16. ForgetBoots(h) => HomeKeeps(h) /\ HomeWrites(h)
  BY <1>3, SMTT(30) DEF ForgetBoots, HomeKeeps, HomeWrites, OthersStay, NeedsLock, None, records, locks
<1>17. ASSUME CheckEngine(h) PROVE HomeKeeps(h) /\ HomeWrites(h)
  <2> DEFINE wants == /\ ~Switched(h)
                      /\ staged.dir \notin {0, stimd[h].build}
                      /\ ~Pinned(h)
                      /\ \A i \in Claims(stimd[h].build) : Record(h)[i].drained
  <2>2. stimd' = [Record(h) EXCEPT ![h] = [@ EXCEPT !.chk = IF wants THEN "lock" ELSE "idle",
                                                    !.saw = IF wants THEN staged.dir ELSE 0]]
    BY <1>17, Zenon DEF CheckEngine
  <2> HIDE DEF wants
  <2> DEFINE chk == IF wants THEN "lock" ELSE "idle"
             saw == IF wants THEN staged.dir ELSE 0
             drained == ~Pinned(h)
             s == [stimd[h] EXCEPT !.drained = drained, !.chk = chk, !.saw = saw]
  <2>3. chk \in {"lock", "idle"} /\ saw \in Builds \cup {0} /\ drained \in BOOLEAN
    BY Kinds, Zenon
  <2>4. stimd' = [stimd EXCEPT ![h] = s]
    BY <2>2, Zenon DEF Record
  <2> HIDE DEF chk, saw, drained
  <2>5. /\ s \in Stimds /\ s.op = stimd[h].op /\ s.st = stimd[h].st /\ s.build = stimd[h].build
        /\ s.drained = drained /\ s.chk = chk
    BY <2>3, Zenon DEF Stimds
  <2> HIDE DEF s
  <2>6. OthersStay(h) /\ stimd'[h] = s
    BY <2>4, <2>5, StimdRenewed, Zenon
  <2>7. stimd[h].op \in {"probe", "held", "read", "run", "loose"} => ~drained
    BY Zenon DEF drained, Pinned, None
  <2>8. /\ stimd[h].st = "up" /\ stimd[h].chk = "idle"
        /\ UNCHANGED <<current, previous, staged, bad, launcher, schema, trees, lock, flipLock,
                       boots, select, left, torn>>
    BY <1>17, Zenon DEF CheckEngine, records, locks
  <2>9. HomeKeeps(h)
    BY <1>3, <2>3, <2>5, <2>6, <2>7, <2>8, Zenon DEF HomeKeeps, NeedsLock, None
  <2>10. HomeWrites(h)
    BY <2>5, <2>6, <2>8, Zenon DEF HomeWrites
  <2> QED BY <2>9, <2>10, Zenon
<1>18. ASSUME TakeLock(h) PROVE HomeKeeps(h) /\ HomeWrites(h)
  <2>1. /\ OthersStay(h) /\ SameLife(h) /\ SameWork(h) /\ stimd[h].chk = "lock"
        /\ \/ stimd'[h].chk = "flip" /\ lock = NoOne /\ lock' = h
           \/ stimd'[h].chk = "idle" /\ lock' = lock
        /\ flipLock' = flipLock /\ select' = select
        /\ UNCHANGED <<current, previous, staged, bad, launcher, schema, trees, boots, left, torn>>
    BY <1>18, <1>8, <1>9, Zenon DEF TakeLock, records
  <2>2. HomeKeeps(h)
    BY <1>3, <2>1, Zenon DEF HomeKeeps, SameLife, SameWork, NeedsLock, None
  <2>3. HomeWrites(h)
    BY <2>1, Zenon DEF HomeWrites, SameLife
  <2> QED BY <2>2, <2>3, Zenon
<1>19. ASSUME TakeFlipLock(h) PROVE HomeKeeps(h) /\ HomeWrites(h)
  <2>1. /\ OthersStay(h) /\ SameLife(h) /\ SameWork(h) /\ stimd[h].chk = "flip"
        /\ \/ stimd'[h].chk = "again" /\ lock' = lock /\ flipLock = <<>> /\ flipLock' = <<h, "follow">>
           \/ stimd'[h].chk = "idle" /\ lock' = NoOne /\ flipLock' = flipLock
        /\ select' = select
        /\ UNCHANGED <<current, previous, staged, bad, launcher, schema, trees, boots, left, torn>>
    BY <1>19, <1>8, <1>9, Zenon DEF TakeFlipLock, records
  <2>2. HomeKeeps(h)
    BY <1>3, <2>1, SMTT(30) DEF HomeKeeps, SameLife, SameWork, NeedsLock, None
  <2>3. HomeWrites(h)
    BY <2>1, Zenon DEF HomeWrites, SameLife
  <2> QED BY <2>2, <2>3, Zenon
<1>20. ASSUME CheckAgain(h) PROVE HomeKeeps(h) /\ HomeWrites(h)
  <2>1. CASE MayFlip(h) /\ stimd[h].saw \in trees
    <3> DEFINE s == [NoSelect EXCEPT !.at = "staged", !.build = stimd[h].saw, !.flip = TRUE]
    <3>1. s \in Selects /\ s.at = "staged" /\ s.build \in trees /\ s.flip
      <4>1. stimd[h].saw \in Builds /\ stimd[h].saw \in trees
        BY <2>1, Kinds, Zenon
      <4> QED BY <4>1, Zenon DEF NoSelect, Selects
    <3>2. select' = [select EXCEPT ![h] = s] /\ stimd' = [stimd EXCEPT ![h].chk = "child"]
      BY <1>20, <2>1, Zenon DEF CheckAgain
    <3> HIDE DEF s
    <3>3. OthersSelect(h) /\ select'[h] = s
      BY <3>1, <3>2, SelectRenewed, Zenon
    <3>4. OthersStay(h) /\ SameLife(h) /\ SameWork(h) /\ stimd'[h].chk = "child"
      BY <1>9, <3>2, Zenon
    <3>5. /\ stimd[h].chk = "again" /\ AllDrained(stimd[h].build) /\ lock' = lock /\ flipLock' = flipLock
          /\ UNCHANGED <<current, previous, staged, bad, launcher, schema, trees, boots, left, torn>>
      BY <1>20, <2>1, Zenon DEF CheckAgain, MayFlip, records, locks
    <3>6. HomeKeeps(h)
      BY <1>3, <3>1, <3>3, <3>4, <3>5, Zenon DEF HomeKeeps, SameLife, SameWork, NeedsLock, None
    <3>7. HomeWrites(h)
      BY <1>3, <1>5, <3>1, <3>3, <3>4, <3>5, Zenon DEF HomeWrites, SameLife
    <3> QED BY <3>6, <3>7, Zenon
  <2>2. CASE ~(MayFlip(h) /\ stimd[h].saw \in trees)
    <3>1. /\ OthersStay(h) /\ SameLife(h) /\ SameWork(h) /\ stimd[h].chk = "again" /\ stimd'[h].chk = "idle"
          /\ lock' = NoOne /\ flipLock' = <<>> /\ select' = select
          /\ UNCHANGED <<current, previous, staged, bad, launcher, schema, trees, boots, left, torn>>
      BY <1>8, <1>20, <2>2, Zenon DEF CheckAgain, records
    <3>2. HomeKeeps(h)
      BY <1>3, <3>1, SMTT(30) DEF HomeKeeps, SameLife, SameWork, NeedsLock, None
    <3>3. HomeWrites(h)
      BY <3>1, Zenon DEF HomeWrites, SameLife
    <3> QED BY <3>2, <3>3, Zenon
  <2> QED BY <2>1, <2>2, Zenon
<1>21. ASSUME FlipEnds(h) PROVE HomeKeeps(h) /\ HomeWrites(h)
  <2>1. /\ OthersStay(h) /\ SameLife(h) /\ SameWork(h) /\ stimd[h].chk = "child" /\ stimd'[h].chk = "idle"
        /\ lock' = NoOne /\ flipLock' = <<>> /\ ~Between(h) /\ OthersSelect(h) /\ select'[h] = NoSelect
        /\ UNCHANGED <<current, previous, staged, bad, launcher, schema, trees, boots, left, torn>>
    BY <1>5, <1>8, <1>13, <1>21, Zenon DEF FlipEnds, records
  <2>2. HomeKeeps(h)
    BY <1>3, <2>1, SMTT(30) DEF HomeKeeps, SameLife, SameWork, NeedsLock, None
  <2>3. HomeWrites(h)
    BY <2>1, Zenon DEF HomeWrites, SameLife
  <2> QED BY <2>2, <2>3, Zenon
<1>22. ASSUME HoldLock(h) PROVE HomeKeeps(h) /\ HomeWrites(h)
  <2>1. /\ OthersStay(h) /\ stimd[h].st = "boot"
        /\ \/ /\ SameWork(h) /\ stimd'[h].st = "hold" /\ lock = NoOne /\ lock' = h
              /\ stimd'[h].build = stimd[h].build /\ stimd'[h].chk = stimd[h].chk
           \/ stimd'[h] = Off /\ lock' = lock
        /\ flipLock' = flipLock /\ select' = select
        /\ UNCHANGED <<current, previous, staged, bad, launcher, schema, trees, boots, left, torn>>
    BY <1>22, <1>10, <1>12, Zenon DEF HoldLock, records
  <2>2. HomeKeeps(h)
    BY <1>3, <2>1, Zenon DEF HomeKeeps, SameLife, SameWork, NeedsLock, None
  <2>3. HomeWrites(h)
    BY <2>1, Zenon DEF HomeWrites, SameLife
  <2> QED BY <2>2, <2>3, Zenon
<1>23. ASSUME HoldMoved(h) PROVE HomeKeeps(h) /\ HomeWrites(h)
  <2>1. /\ OthersStay(h) /\ SameWork(h) /\ stimd[h].st = "hold" /\ stimd'[h].st = "handing"
        /\ stimd'[h].build = stimd[h].build /\ stimd'[h].chk = stimd[h].chk
        /\ lock' = NoOne /\ flipLock' = flipLock /\ select' = select
        /\ boots' \in [Homes -> [Builds -> Nat]]
        /\ UNCHANGED <<current, previous, staged, bad, launcher, schema, trees, left, torn>>
    BY <1>23, <1>11, Zenon DEF HoldMoved, records
  <2>2. HomeKeeps(h)
    BY <1>3, <2>1, Zenon DEF HomeKeeps, SameLife, SameWork, NeedsLock, None
  <2>3. HomeWrites(h)
    BY <2>1, Zenon DEF HomeWrites, SameLife
  <2> QED BY <2>2, <2>3, Zenon
<1>24. ASSUME HoldMark(h) PROVE HomeKeeps(h) /\ HomeWrites(h)
  <2>1. /\ stimd[h].st = "hold" /\ bad' = bad \cup {current.dir} /\ select[h].at = None
        /\ UNCHANGED <<current, previous, staged, launcher, schema, trees, flipLock, boots, left, torn>>
    BY <1>3, <1>24, Zenon DEF HoldMark, Marked, StillCurrent, Switched
  <2>2. CASE CanGoBack
    <3> DEFINE s == [NoSelect EXCEPT !.at = "check", !.build = previous, !.by = "hold"]
    <3>1. previous \in trees
      BY <2>2, Zenon DEF CanGoBack
    <3>2. s \in Selects /\ s.at = "check" /\ s.build = previous /\ s.by = "hold" /\ ~s.flip
      <4>1. previous \in Builds
        BY <3>1, Kinds, Zenon
      <4> QED BY <4>1, Zenon DEF NoSelect, Selects, Movers
    <3>3. select' = [select EXCEPT ![h] = s] /\ stimd' = [stimd EXCEPT ![h].st = "holding"] /\ lock' = lock
      BY <1>24, <2>2, Zenon DEF HoldMark
    <3> HIDE DEF s
    <3>4. OthersSelect(h) /\ select'[h] = s
      BY <3>2, <3>3, SelectRenewed, Zenon
    <3>5. /\ OthersStay(h) /\ SameWork(h) /\ stimd'[h].st = "holding"
          /\ stimd'[h].build = stimd[h].build /\ stimd'[h].chk = stimd[h].chk
      BY <1>10, <3>3, Zenon
    <3>6. HomeKeeps(h)
      BY <1>3, <2>1, <3>2, <3>3, <3>4, <3>5, Zenon DEF HomeKeeps, SameWork, NeedsLock, None
    <3>7. HomeWrites(h)
      BY <1>3, <2>1, <3>1, <3>2, <3>4, <3>5, Zenon DEF HomeWrites, Marks, NeedsLock
    <3> QED BY <3>6, <3>7, Zenon
  <2>3. CASE ~CanGoBack
    <3>1. OthersStay(h) /\ stimd'[h] = Off /\ lock' = NoOne /\ select' = select
      BY <1>12, <1>24, <2>3, Zenon DEF HoldMark
    <3>2. HomeKeeps(h)
      BY <1>3, <2>1, <3>1, Zenon DEF HomeKeeps, NeedsLock, None
    <3>3. HomeWrites(h)
      BY <1>3, <2>1, <3>1, Zenon DEF HomeWrites, Marks, NeedsLock
    <3> QED BY <3>2, <3>3, Zenon
  <2> QED BY <2>2, <2>3, Zenon
<1>25. ASSUME HoldEnds(h) PROVE HomeKeeps(h) /\ HomeWrites(h)
  <2>1. /\ OthersStay(h) /\ stimd[h].st = "holding" /\ ~Between(h)
        /\ \/ /\ SameWork(h) /\ stimd'[h].st = "handing" /\ boots' \in [Homes -> [Builds -> Nat]]
              /\ stimd'[h].build = stimd[h].build /\ stimd'[h].chk = stimd[h].chk
           \/ stimd'[h] = Off /\ boots' = boots
        /\ lock' = NoOne /\ flipLock' = flipLock /\ OthersSelect(h) /\ select'[h] = NoSelect
        /\ UNCHANGED <<current, previous, staged, bad, launcher, schema, trees, left, torn>>
    BY <1>5, <1>11, <1>12, <1>13, <1>25, Zenon DEF HoldEnds, records
  <2>2. HomeKeeps(h)
    BY <1>3, <2>1, Zenon DEF HomeKeeps, SameLife, SameWork, NeedsLock, None
  <2>3. HomeWrites(h)
    BY <2>1, Zenon DEF HomeWrites, SameLife
  <2> QED BY <2>2, <2>3, Zenon
<1>26. ASSUME KillStimd(h) PROVE HomeKeeps(h) /\ HomeWrites(h)
  <2>1. /\ OthersStay(h) /\ stimd'[h] = Off
        /\ lock' = (IF lock = h THEN NoOne ELSE lock)
        /\ flipLock' = flipLock \/ (flipLock' = <<>> /\ flipLock # <<>> /\ flipLock[1] = h)
        /\ OthersSelect(h) /\ select'[h] = NoSelect /\ left' \in Purse /\ Tears(h)
        /\ UNCHANGED <<current, previous, staged, bad, launcher, schema, trees, boots>>
    BY <1>26, <1>12, DiesWith, Zenon DEF KillStimd, records
  <2>2. HomeKeeps(h)
    BY <1>3, <2>1, Zenon DEF HomeKeeps, SameLife, SameWork, NeedsLock, None
  <2>3. HomeWrites(h)
    BY <2>1, Zenon DEF HomeWrites, SameLife
  <2> QED BY <2>2, <2>3, Zenon
<1> QED
  BY <1>14, <1>15, <1>16, <1>17, <1>18, <1>19, <1>20, <1>21, <1>22, <1>23, <1>24, <1>25, <1>26, Zenon
     DEF HomeStep

-----------------------------------------------------------------------------
(***************************************************************************)
(* What a command's steps do                                               *)
(***************************************************************************)

CommandStep(c) == Promote(c) \/ PromoteEnds(c) \/ KillCommand(c)

\* A command writes a tree and its own engine-select process, and no record.
CommandWrites(c) ==
    /\ OthersSelect(c)
    /\ select'[c].at # None => lock' = c /\ select'[c].build \in trees'
    /\ select'[c].at = None \/ (select'[c].at = "check" /\ select'[c].by \notin {None, "hold"})
    /\ ~select'[c].flip
    /\ trees \subseteq trees' /\ trees' \subseteq Builds
    /\ lock' = lock \/ lock \in {NoOne, c}
    /\ lock' \in {lock, NoOne, c}
    /\ flipLock' = flipLock \/ flipLock[1] = c
    /\ flipLock' \in {flipLock, <<>>}
    /\ left' \in Purse
    /\ (torn' = torn /\ ~Between(c)) \/ Tears(c)
    /\ UNCHANGED <<current, previous, staged, bad, launcher, schema, stimd, boots>>

LEMMA CommandsGo ==
    ASSUME TypeOK, Locked, NEW c \in Commands, CommandStep(c)
    PROVE  CommandWrites(c)
<1>1. select \in [Actors -> Selects] /\ c \in Actors /\ trees \subseteq Builds /\ left \in Purse
  BY Kinds, Zenon
<1>2. select[c].at # None => lock = c
  BY <1>1, Zenon DEF Locked, Selecting
<1>3. select[c].at = None \/ Ended(c) => ~Between(c)
  BY DEF Ended, Between, FlipWrites, None
<1>4. NoSelect.at = None /\ ~NoSelect.flip /\ NoSelect \in Selects
  BY Blank, Zenon DEF NoSelect
<1> USE <1>1, <1>2, <1>4
<1>5. ASSUME Promote(c) PROVE CommandWrites(c)
  <2>1. PICK build \in Builds, by \in Movers \ {"hold"}, restore \in BOOLEAN :
            /\ trees' = trees \cup {build}
            /\ select' = [select EXCEPT ![c] = [NoSelect EXCEPT !.at = "check", !.build = build, !.by = by,
                                                                !.restore = restore]]
    BY <1>5, Zenon DEF Promote
  <2> DEFINE s == [NoSelect EXCEPT !.at = "check", !.build = build, !.by = by, !.restore = restore]
  <2>2. s \in Selects /\ s.at = "check" /\ s.build = build /\ s.by = by /\ ~s.flip
    BY Zenon DEF NoSelect, Selects
  <2>3. by \notin {None, "hold"}
    BY DEF Movers, None
  <2>4. select' = [select EXCEPT ![c] = s] /\ trees' = trees \cup {build}
    BY <2>1
  <2> HIDE DEF s
  <2>5. OthersSelect(c) /\ select'[c] = s
    BY <2>2, <2>4, SelectRenewed, Zenon
  <2>6. left' \in Purse
    BY <1>5, Spent, Zenon DEF Promote
  <2>7. /\ lock = NoOne /\ lock' = c /\ ~Between(c)
        /\ UNCHANGED <<current, previous, staged, bad, launcher, schema, flipLock, stimd, boots, torn>>
    BY <1>3, <1>5, Zenon DEF Promote, records
  <2>8. trees \subseteq trees' /\ trees' \subseteq Builds /\ s.build \in trees'
    BY <2>2, <2>4, Zenon
  <2>9. /\ select'[c].at = "check" /\ select'[c].build \in trees'
        /\ select'[c].by \notin {None, "hold"} /\ ~select'[c].flip
    BY <2>2, <2>3, <2>5, <2>8, Zenon
  <2> QED BY <2>5, <2>6, <2>7, <2>8, <2>9, Zenon DEF CommandWrites
<1>6. ASSUME PromoteEnds(c) PROVE CommandWrites(c)
  <2>1. select[c].at # None /\ ~Between(c)
    BY <1>3, <1>6, Zenon DEF PromoteEnds, Ended, None
  <2>2. OthersSelect(c) /\ select'[c] = NoSelect
    BY <1>6, SelectRenewed, Zenon DEF PromoteEnds
  <2>3. /\ lock' = NoOne
        /\ UNCHANGED <<current, previous, staged, bad, launcher, schema, trees, flipLock, stimd, boots, left, torn>>
    BY <1>6, Zenon DEF PromoteEnds, records
  <2> QED BY <2>1, <2>2, <2>3, Zenon DEF CommandWrites
<1>7. ASSUME KillCommand(c) PROVE CommandWrites(c)
  <2>1. Dies(c) /\ UNCHANGED <<current, previous, staged, bad, launcher, schema, trees, stimd, boots>>
    BY <1>7, Zenon DEF KillCommand, records
  <2> QED BY <2>1, DiesWith, Zenon DEF CommandWrites
<1> QED BY <1>5, <1>6, <1>7, Zenon DEF CommandStep

-----------------------------------------------------------------------------
(***************************************************************************)
(* What an engine-select process does                                      *)
(***************************************************************************)

\* It goes from one step to the next with what it has read.
Goes(a, step) ==
    /\ OthersSelect(a) /\ SameTask(a) /\ select'[a].at = step
    /\ select'[a].by = select[a].by /\ select'[a].from = select[a].from
    /\ select'[a].seen = select[a].seen

LEMMA AtSet ==
    ASSUME TypeOK, NEW a \in Actors,
           NEW at \in {"lock", "previous", "current", "unstage", "launchers",
                       "flipped", "stages", "refused", "failed"},
           SelectGoes(a, at)
    PROVE  Goes(a, at)
<1>1. select \in [Actors -> Selects]
  BY Kinds, Zenon
<1>2. [select[a] EXCEPT !.at = at] \in Selects
  BY <1>1, ZenonT(30) DEF Selects
<1> QED BY <1>1, <1>2, Zenon DEF SelectGoes, OthersSelect, SameTask, Selects, Goes

LEMMA SelectKilled ==
    ASSUME TypeOK, NEW a \in Actors, KillSelect(a)
    PROVE  /\ Goes(a, "failed") /\ select[a].at # None
           /\ flipLock' = flipLock \/ (flipLock' = <<>> /\ flipLock = <<a, "select">>)
           /\ left' \in Purse
           /\ Tears(a)
           /\ UNCHANGED <<records, trees, lock, stimd, boots>>
<1>1. left' \in Purse
  BY Kinds, Spent, Zenon DEF KillSelect
<1> QED BY <1>1, AtSet, Zenon DEF KillSelect, Working

LEMMA SelectChecks ==
    ASSUME TypeOK, NEW a \in Actors, SelectCheck(a)
    PROVE  /\ select[a].at = "check"
           /\ \/ Goes(a, "refused") /\ trees' = trees \cap Kept(current, staged)
              \/ /\ ~Refused(select[a].build, select[a].by) /\ trees' = trees
                 /\ OthersSelect(a) /\ SameTask(a) /\ select'[a].at = "test"
                 /\ select'[a].by = select[a].by
                 /\ select'[a].from = current.dir /\ select'[a].seen = bad
           /\ UNCHANGED <<records, locks, stimd, boots, left, torn>>
<1>1. select \in [Actors -> Selects] /\ current.dir \in Builds /\ bad \in SUBSET Builds
  BY Kinds, Zenon
<1>2. SelectGoes(a, "refused") => Goes(a, "refused")
  BY AtSet
<1>3. ASSUME select' = [select EXCEPT ![a] = [@ EXCEPT !.at = "test", !.from = current.dir, !.seen = bad]]
      PROVE /\ OthersSelect(a) /\ SameTask(a) /\ select'[a].at = "test" /\ select'[a].by = select[a].by
           /\ select'[a].from = current.dir /\ select'[a].seen = bad
  <2>1. [select[a] EXCEPT !.at = "test", !.from = current.dir, !.seen = bad] \in Selects
    BY <1>1, ZenonT(30) DEF Selects
  <2> QED BY <1>1, <1>3, <2>1, Zenon DEF OthersSelect, SameTask, Selects
<1>4. CASE Refused(select[a].build, select[a].by) \/ (~select[a].restore /\ SchemaRefuses(select[a].build))
  BY <1>2, <1>4, Zenon DEF SelectCheck
<1>5. CASE ~(Refused(select[a].build, select[a].by) \/ (~select[a].restore /\ SchemaRefuses(select[a].build)))
  BY <1>3, <1>5, Zenon DEF SelectCheck
<1> QED BY <1>4, <1>5, Zenon

LEMMA TestFails ==
    ASSUME TypeOK, NEW a \in Actors, SelectTestFails(a)
    PROVE  /\ select[a].at = "test" /\ Goes(a, "failed") /\ trees' = trees \cap Kept(current, staged)
           /\ UNCHANGED <<records, locks, stimd, boots, left, torn>>
  BY AtSet, Zenon DEF SelectTestFails

LEMMA Stages ==
    ASSUME TypeOK, NEW a \in Actors, SelectStage(a)
    PROVE  /\ select[a].at = "test" /\ Goes(a, "stages")
           /\ bad' = select[a].seen
           /\ staged' = [dir |-> select[a].build, by |-> select[a].by, restore |-> select[a].restore]
           /\ trees' = trees \cap Kept(current, staged')
           /\ UNCHANGED <<current, previous, launcher, schema, locks, stimd, boots, left, torn>>
  BY AtSet, Zenon DEF SelectStage

LEMMA Moves ==
    ASSUME TypeOK, NEW a \in Actors, SelectMoves(a)
    PROVE  /\ select[a].at = "test" /\ Goes(a, "lock")
           /\ bad' = select[a].seen
           /\ schema' \in {schema, SchemaOf[select[a].build]}
           /\ UNCHANGED <<current, previous, staged, launcher, trees, locks, stimd, boots, left, torn>>
  BY AtSet, Zenon DEF SelectMoves

LEMMA Locks ==
    ASSUME TypeOK, NEW a \in Actors, SelectLock(a)
    PROVE  /\ select[a].at = "lock"
           /\ \/ Goes(a, "previous") /\ flipLock = <<>> /\ flipLock' = <<a, "select">>
              \/ Goes(a, "failed") /\ flipLock' = flipLock
           /\ UNCHANGED <<records, trees, lock, stimd, boots, left, torn>>
<1>1. /\ SelectGoes(a, "previous") => Goes(a, "previous")
      /\ SelectGoes(a, "failed") => Goes(a, "failed")
  BY AtSet
<1> QED BY <1>1, Zenon DEF SelectLock

LEMMA FlipsStaged ==
    ASSUME TypeOK, Named, Stored, NEW a \in Actors, SelectStaged(a)
    PROVE  /\ select[a].at = "staged"
           /\ \/ Goes(a, "refused") /\ staged' \in {staged, NotStaged} /\ schema' = schema
              \/ /\ OthersSelect(a) /\ SameTask(a) /\ select'[a].at = "previous"
                 /\ select'[a].by = staged.by /\ select'[a].from = current.dir
                 /\ staged.dir = select[a].build /\ staged.dir \in Builds /\ staged' = staged
                 /\ schema' \in {schema, SchemaOf[staged.dir]}
           /\ UNCHANGED <<current, previous, bad, launcher, trees, locks, stimd, boots, left, torn>>
<1>1. select \in [Actors -> Selects] /\ current.dir \in Builds /\ trees \subseteq Builds
  BY Kinds, Zenon
<1>2. SelectGoes(a, "refused") => Goes(a, "refused")
  BY AtSet
<1>3. select[a].build \in Builds
  BY <1>1, Zenon DEF SelectStaged, Stored, Selecting, None
<1>4. CASE staged.dir # select[a].build
  BY <1>2, <1>4, Zenon DEF SelectStaged
<1>5. CASE staged.dir = select[a].build /\ ~staged.restore /\ SchemaRefuses(staged.dir)
  BY <1>2, <1>5, Zenon DEF SelectStaged
<1>6. CASE staged.dir = select[a].build /\ ~(~staged.restore /\ SchemaRefuses(staged.dir))
  <2>1. staged.by \in Movers
    <3>1. staged.by \in Movers \cup {None} /\ staged.dir # 0
      BY <1>3, <1>6, Kinds, Zenon
    <3> QED BY <3>1 DEF Named
  <2>2. select' = [select EXCEPT ![a] = [@ EXCEPT !.at = "previous", !.by = staged.by, !.from = current.dir]]
    BY <1>6, Zenon DEF SelectStaged
  <2>3. /\ OthersSelect(a) /\ SameTask(a) /\ select'[a].at = "previous"
        /\ select'[a].by = staged.by /\ select'[a].from = current.dir
    <3>1. [select[a] EXCEPT !.at = "previous", !.by = staged.by, !.from = current.dir] \in Selects
      BY <1>1, <2>1, ZenonT(30) DEF Selects
    <3> QED BY <1>1, <2>2, <3>1, Zenon DEF OthersSelect, SameTask, Selects
  <2> QED BY <1>3, <1>6, <2>3, Zenon DEF SelectStaged
<1> QED BY <1>4, <1>5, <1>6, Zenon

LEMMA WritesPrevious ==
    ASSUME TypeOK, NEW a \in Actors, WritePrevious(a)
    PROVE  /\ select[a].at = "previous" /\ Goes(a, "current")
           /\ previous' = IF select[a].from # select[a].build THEN select[a].from ELSE previous
           /\ UNCHANGED <<current, staged, bad, launcher, schema, trees, locks, stimd, boots, left, torn>>
  BY AtSet, Zenon DEF WritePrevious

LEMMA WritesCurrent ==
    ASSUME TypeOK, NEW a \in Actors, WriteCurrent(a)
    PROVE  /\ select[a].at = "current" /\ Goes(a, "unstage")
           /\ \E pinned \in BOOLEAN :
                  current' = [dir |-> select[a].build, pinned |-> pinned, by |-> select[a].by]
           /\ UNCHANGED <<previous, staged, bad, launcher, schema, trees, locks, stimd, boots, left, torn>>
<1>1. Pins(select[a].build, select[a].by) \subseteq BOOLEAN
  BY Zenon DEF Pins
<1> QED BY <1>1, AtSet, Zenon DEF WriteCurrent

LEMMA RemovesStaged ==
    ASSUME TypeOK, NEW a \in Actors, RemoveStaged(a)
    PROVE  /\ select[a].at = "unstage" /\ Goes(a, "launchers")
           /\ staged' = NotStaged
           /\ flipLock' = flipLock \/ (flipLock' = <<>> /\ flipLock = <<a, "select">>)
           /\ UNCHANGED <<current, previous, bad, launcher, schema, trees, lock, stimd, boots, left, torn>>
  BY AtSet, Zenon DEF RemoveStaged

LEMMA WritesLaunchers ==
    ASSUME TypeOK, NEW a \in Actors, WriteLaunchers(a)
    PROVE  /\ select[a].at = "launchers" /\ launcher' = select[a].build
           /\ \/ Goes(a, "failed") /\ UNCHANGED <<schema, trees>>
              \/ /\ Goes(a, "flipped") /\ schema' = SchemaOf[select[a].build]
                 /\ trees' = trees \cap Kept(current, staged)
           /\ UNCHANGED <<current, previous, staged, bad, locks, stimd, boots, left, torn>>
<1>1. /\ SelectGoes(a, "failed") => Goes(a, "failed")
      /\ SelectGoes(a, "flipped") => Goes(a, "flipped")
  BY AtSet
<1> QED BY <1>1, Zenon DEF WriteLaunchers


\* What an engine-select process, and its death, leave as it was; it writes its
\* own build, the engine's, or none, and collects what its records and the
\* processes leave.
SelectWrites(a) ==
    /\ OthersSelect(a) /\ SameTask(a) /\ Selecting(a) /\ select'[a].at \notin {None, "staged"}
    /\ flipLock' = flipLock \/ flipLock = <<>> \/ flipLock = <<a, "select">>
    /\ flipLock' \in {flipLock, <<>>, <<a, "select">>}
    /\ UNCHANGED <<lock, stimd, boots>>
    /\ current'.dir \in {current.dir, select[a].build}
    /\ previous' \in {previous, current.dir}
    /\ staged'.dir \in {staged.dir, 0, select[a].build}
    /\ trees' = trees \/ (previous' = previous /\ trees' = trees \cap Kept(current', staged'))

\* A build goes on being moved to for someone, from the engine's build.
MovingAt(a) ==
    /\ select[a].at \in {"test", "lock", "previous", "current"} => select[a].from = current.dir
    /\ select[a].at \in FlipWrites => previous = select[a].from \/ select[a].build = select[a].from
    /\ select[a].at \in {"unstage", "launchers"} => current.dir = select[a].build

NamedAt(a) ==
    /\ staged.dir # 0 => staged.by # None
    /\ select[a].at \in {"check", "test", "lock", "previous", "current"} => select[a].by # None

LEMMA SelectsWrite ==
    ASSUME TypeOK, Named, Stored, Moving, NEW a \in Actors, SelectStep(a) \/ KillSelect(a)
    PROVE  SelectWrites(a) /\ MovingAt(a)' /\ NamedAt(a)'
<1>1. NamedAt(a) /\ MovingAt(a) /\ 0 \notin Builds
  BY Kinds, Zenon DEF Named, NamedAt, Moving, MovingAt
<1> USE <1>1 DEF SelectWrites, MovingAt, NamedAt, FlipWrites, Goes, SameTask, Selecting, None, NotStaged, records, locks
<1>2. SelectCheck(a) => SelectWrites(a) /\ MovingAt(a)' /\ NamedAt(a)'
  BY SelectChecks, ZenonT(30)
<1>3. SelectTestFails(a) => SelectWrites(a) /\ MovingAt(a)' /\ NamedAt(a)'
  BY TestFails, Zenon
<1>4. SelectStage(a) => SelectWrites(a) /\ MovingAt(a)' /\ NamedAt(a)'
  BY Stages, SMTT(30)
<1>5. SelectMoves(a) => SelectWrites(a) /\ MovingAt(a)' /\ NamedAt(a)'
  BY Moves, Zenon
<1>6. SelectLock(a) => SelectWrites(a) /\ MovingAt(a)' /\ NamedAt(a)'
  BY Locks, Zenon
<1>7. SelectStaged(a) => SelectWrites(a) /\ MovingAt(a)' /\ NamedAt(a)'
  BY FlipsStaged, SMTT(30)
<1>8. WritePrevious(a) => SelectWrites(a) /\ MovingAt(a)' /\ NamedAt(a)'
  BY WritesPrevious, ZenonT(30)
<1>9. WriteCurrent(a) => SelectWrites(a) /\ MovingAt(a)' /\ NamedAt(a)'
  BY WritesCurrent, SMTT(30)
<1>10. RemoveStaged(a) => SelectWrites(a) /\ MovingAt(a)' /\ NamedAt(a)'
  BY RemovesStaged, SMTT(30)
<1>11. WriteLaunchers(a) => SelectWrites(a) /\ MovingAt(a)' /\ NamedAt(a)'
  BY WritesLaunchers, Zenon
<1>12. KillSelect(a) => SelectWrites(a) /\ MovingAt(a)' /\ NamedAt(a)'
  BY SelectKilled, Zenon
<1> QED
  BY <1>2, <1>3, <1>4, <1>5, <1>6, <1>7, <1>8, <1>9, <1>10, <1>11, <1>12, Zenon DEF SelectStep

\* The steps of the store, by who takes them.
LEMMA StepsOf ==
    [Next]_vars =>
        \/ \E h \in Homes : HomeStep(h)
        \/ \E c \in Commands : CommandStep(c)
        \/ \E a \in Actors : SelectStep(a) \/ KillSelect(a)
        \/ Collect
        \/ UNCHANGED vars
  BY Zenon DEF Next, HomeStep, CommandStep, OpStep, LifeStep, Follow, Hold


-----------------------------------------------------------------------------
(***************************************************************************)
(* What is enough to keep each part of the invariant                       *)
(***************************************************************************)

\* A step of an actor: the stimds and the engine-select processes of others stay.
Local(a) ==
    /\ \A i \in Homes \ {a} : stimd'[i] = stimd[i]
    /\ \A b \in Actors \ {a} : select'[b] = select[b]

LEMMA StepsLocal ==
    ASSUME NEW a
    PROVE  /\ HomeWrites(a) => Local(a)
           /\ CommandWrites(a) => Local(a)
           /\ SelectWrites(a) => Local(a)
  BY Zenon DEF Local, HomeWrites, CommandWrites, SelectWrites, OthersStay, OthersSelect

\* It is enough that the actor that steps took the lock free, or had it, and has
\* it if it needs it.
LEMMA LockedAfter ==
    ASSUME TypeOK, Locked, NEW a \in Actors, Local(a),
           lock' = lock \/ lock \in {NoOne, a},
           select'[a].at # None => lock' = a,
           a \in Homes /\ NeedsLock(a)' => lock' = a
    PROVE  Locked'
<1>1. NoOne \notin Actors
  BY Kinds, Zenon
<1>2. \A b \in Actors : select'[b].at # None => lock' = b
  BY <1>1, Zenon DEF Locked, Local, Selecting
<1>3. \A h \in Homes : h \in Actors
  BY Kinds, Zenon
<1>4. \A h \in Homes : NeedsLock(h)' => lock' = h
  BY <1>1, <1>3 DEF Locked, Local, NeedsLock
<1> QED BY <1>2, <1>4, Zenon DEF Locked, Selecting

\* A stimd and its engine-select process are where Placed says.
PlacedAt(a) ==
    /\ a \in Homes =>
         /\ stimd[a].op # None \/ stimd[a].chk # "idle" => stimd[a].st = "up"
         /\ Selecting(a) => stimd[a].chk = "child" \/ stimd[a].st = "holding"
         /\ stimd[a].chk = "child" => select[a].flip
    /\ select[a].flip => a \in Homes /\ stimd[a].chk = "child"
    /\ select[a].at = "staged" => select[a].flip

LEMMA PlacedAll == Placed <=> \A a \in Actors : PlacedAt(a)
  BY Zenon DEF Placed, PlacedAt, Actors

LEMMA PlacedAllNext == Placed' <=> \A a \in Actors : PlacedAt(a)'
  BY Zenon DEF Placed, PlacedAt, Actors

\* Only the actor that steps can leave its place.
LEMMA PlacedAfter ==
    ASSUME Placed, NEW a \in Actors, Local(a), PlacedAt(a)'
    PROVE  Placed'
<1>1. ASSUME NEW b \in Actors, b # a PROVE PlacedAt(b)'
  BY <1>1, PlacedAll, SMTT(30) DEF Local, PlacedAt, Selecting
<1> QED BY <1>1, PlacedAllNext

\* Others hold the flip lock as before when the actor that steps takes it free or
\* gives back its own.
LEMMA GatedAfter ==
    ASSUME Gated, NEW a, \A i \in Homes \ {a} : stimd'[i] = stimd[i],
           flipLock' = flipLock \/ flipLock = <<>> \/ flipLock[1] = a,
           a \in Homes => /\ stimd'[a].op = "held" => flipLock' = <<a, "probe">>
                          /\ stimd'[a].chk \in {"again", "child"} => flipLock' = <<a, "follow">>
    PROVE  Gated'
<1>1. ASSUME NEW h \in Homes, h # a
      PROVE  /\ stimd'[h].op = "held" => flipLock' = <<h, "probe">>
             /\ stimd'[h].chk \in {"again", "child"} => flipLock' = <<h, "follow">>
  <2>1. /\ stimd[h].op = "held" => flipLock = <<h, "probe">>
        /\ stimd[h].chk \in {"again", "child"} => flipLock = <<h, "follow">>
        /\ stimd'[h] = stimd[h]
    BY <1>1, Zenon DEF Gated
  <2>2. <<h, "probe">> # <<>> /\ <<h, "probe">>[1] # a /\ <<h, "follow">> # <<>> /\ <<h, "follow">>[1] # a
    BY <1>1
  <2> QED BY <2>1, <2>2, Zenon
<1> QED BY <1>1, Zenon DEF Gated

\* Work under the flip lock, or past it.
Past == {"held", "read", "run"}

\* Work gets there only through the flip lock, so that a stimd that flips still
\* has none under its build; and the flip starts only when every stimd of its
\* build has recorded none.
LEMMA DrainedAfter ==
    ASSUME Drained, Gated, NEW a, \A i \in Homes \ {a} : stimd'[i] = stimd[i],
           a \in Homes =>
               /\ stimd'[a].op \in {"probe", "held", "read", "run", "loose"} => ~stimd'[a].drained
               /\ stimd'[a].chk = "child" =>
                      \/ stimd[a].chk = "child" /\ stimd'[a].build = stimd[a].build
                      \/ SameLife(a) /\ SameWork(a) /\ AllDrained(stimd[a].build)
               /\ stimd'[a].st = "up" /\ stimd'[a].op \in Past =>
                      \/ flipLock = <<>>
                      \/ stimd[a].st = "up" /\ stimd[a].build = stimd'[a].build /\ stimd[a].op \in Past
    PROVE  Drained'
<1>1. ASSUME NEW h \in Homes, stimd'[h].op \in {"probe", "held", "read", "run", "loose"}
      PROVE  ~stimd'[h].drained
  BY <1>1, Zenon DEF Drained
<1>2. ASSUME NEW h \in Homes, stimd'[h].chk = "child" PROVE ~WorksOn(stimd[h].build, Past)'
  <2>1. SUFFICES ASSUME NEW i \in Homes, stimd'[i].st = "up", stimd'[i].build = stimd'[h].build, stimd'[i].op \in Past
                 PROVE  FALSE
    BY Zenon DEF WorksOn, Claims
  <2>2. CASE stimd[h].chk = "child" /\ stimd'[h].build = stimd[h].build
    <3>1. flipLock # <<>> /\ ~WorksOn(stimd[h].build, Past)
      BY <2>2, SMTT(30) DEF Gated, Drained, Past
    <3>2. stimd[i].st = "up" /\ stimd[i].build = stimd[h].build /\ stimd[i].op \in Past
      BY <2>1, <2>2, <3>1, Zenon
    <3> QED BY <3>1, <3>2, Zenon DEF WorksOn, Claims
  <2>3. CASE h = a /\ SameLife(a) /\ SameWork(a) /\ AllDrained(stimd[a].build)
    <3>1. stimd[i].st = "up" /\ stimd[i].build = stimd[a].build /\ stimd[i].op \in Past
      BY <2>1, <2>3, Zenon DEF SameLife, SameWork
    <3>2. stimd[i].drained
      BY <2>3, <3>1, Zenon DEF AllDrained, Claims
    <3> QED BY <3>1, <3>2, Zenon DEF Drained, Past
  <2> QED BY <1>2, <2>2, <2>3, Zenon
<1> QED BY <1>1, <1>2, Zenon DEF Drained, Past

\* The steps of a home, and of a command, leave the records of builds and every
\* tree.
LEMMA StoredAfter ==
    ASSUME Stored, NEW a, Local(a), UNCHANGED <<current, previous, staged>>, trees \subseteq trees',
           a \in Homes /\ stimd'[a].st # "off" => stimd'[a].build \in trees',
           select'[a].at # None => select'[a].build \in trees'
    PROVE  Stored'
<1>1. \A i \in Homes : stimd'[i].st # "off" => stimd'[i].build \in trees'
  BY Zenon DEF Stored, Local
<1>2. \A b \in Actors : select'[b].at # None => select'[b].build \in trees'
  BY Zenon DEF Stored, Local, Selecting
<1> QED BY <1>1, <1>2, Zenon DEF Stored, Selecting

\* What is named is kept.
LEMMA CollectStored ==
    ASSUME Stored, Collect
    PROVE  Stored'
<1>1. /\ \A h \in Homes : stimd[h].st # "off" => stimd[h].build \in Running
      /\ \A b \in Actors : select[b].at # None => select[b].build \in Running
  BY Zenon DEF Running
<1>2. /\ trees' = trees \cap ({current.dir, previous, staged.dir} \cup Running)
      /\ UNCHANGED <<current, previous, staged, stimd, select>>
  BY DEF Collect, Kept, records
<1> QED BY <1>1, <1>2, Zenon DEF Stored, Selecting

\* The promotion lock admits one engine-select process.
LEMMA Alone ==
    ASSUME TypeOK, Locked, NEW a, lock \in {a, NoOne}
    PROVE  \A b \in Actors \ {a} : select[b].at = None
<1>1. NoOne \notin Actors
  BY Kinds, Zenon
<1> QED BY <1>1 DEF Locked, Selecting

\* No process, and one that has read nothing yet.
LEMMA MovingIdle ==
    ASSUME NEW a
    PROVE  select'[a].at \in {None, "staged", "check"} => MovingAt(a)'
  BY Zenon DEF MovingAt, FlipWrites, None

\* Only the actor that steps, and the records, matter.
LEMMA MovingAfter ==
    ASSUME Named, Moving, NEW a, \A b \in Actors \ {a} : select'[b] = select[b], MovingAt(a)', NamedAt(a)',
           UNCHANGED <<current, previous>> \/ \A b \in Actors \ {a} : select[b].at = None
    PROVE  Named' /\ Moving'
<1>1. \A b \in Actors \ {a} : MovingAt(b)'
  BY MovingIdle, SMTT(30) DEF Moving, MovingAt
<1>2. \A b \in Actors : MovingAt(b)'
  BY <1>1
<1>3. Moving'
  BY <1>2, Zenon DEF Moving, MovingAt
<1>4. (staged.dir # 0 => staged.by # None)'
  BY Zenon DEF NamedAt
<1>5. \A b \in Actors : (select[b].at \in {"check", "test", "lock", "previous", "current"} => select[b].by # None)'
  BY Zenon DEF Named, NamedAt
<1> QED BY <1>3, <1>4, <1>5, Zenon DEF Named

LEMMA SelectStored ==
    ASSUME TypeOK, Named, Stored, Moving, NEW a \in Actors, SelectStep(a) \/ KillSelect(a)
    PROVE  Stored'
<1>1. /\ stimd' = stimd /\ Selecting(a) /\ select'[a].build = select[a].build
      /\ \A b \in Actors \ {a} : select'[b] = select[b]
  BY SelectsWrite, Zenon DEF SelectWrites, OthersSelect, SameTask
<1>2. /\ \A h \in Homes : stimd[h].st # "off" => stimd[h].build \in trees \cap Running
      /\ \A b \in Actors : select[b].at # None => select[b].build \in trees \cap Running
  BY Zenon DEF Stored, Selecting, Running
<1>3. select[a].build \in trees /\ current.dir \in trees /\ {previous, staged.dir} \subseteq trees \cup {0}
  BY <1>1, Zenon DEF Stored
<1>4. current'.dir \in trees /\ {previous', staged'.dir} \subseteq trees \cup {0}
  BY <1>3, SelectsWrite, Zenon DEF SelectWrites
<1>5. \/ trees' = trees
      \/ trees' = trees \cap ({current'.dir, previous', staged'.dir} \cup Running)
  BY SelectsWrite, Zenon DEF SelectWrites, Kept
<1>6. current'.dir \in trees' /\ {previous', staged'.dir} \subseteq trees' \cup {0}
  BY <1>4, <1>5
<1>7. \A h \in Homes : stimd'[h].st # "off" => stimd'[h].build \in trees'
  BY <1>1, <1>2, <1>5, Zenon
<1>8. \A b \in Actors : select'[b].at # None => select'[b].build \in trees'
  BY <1>1, <1>2, <1>5, Zenon DEF Selecting
<1> QED BY <1>6, <1>7, <1>8, Zenon DEF Stored, Selecting

\* The count of torn flips only grows.
LEMMA TearCounts ==
    ASSUME TypeOK, NEW a, Tears(a)
    PROVE  /\ torn' \in [FlipWrites -> Nat]
           /\ \A w \in FlipWrites : IF select[a].at = w THEN torn'[w] = torn[w] + 1 ELSE torn'[w] = torn[w]
  BY DEF Tears, TypeOK

\* Counting a killed flip.
LEMMA TornAfter ==
    ASSUME TypeOK, NEW a, Tears(a)
    PROVE  /\ TornOnce' => TornOnce
           /\ TornNever' => TornNever /\ ~Between(a)
           /\ TornOnce' /\ Between(a) => TornNever
           /\ torn'["unstage"] = 0 => torn["unstage"] = 0 /\ select[a].at # "unstage"
<1>1. \A w \in FlipWrites :
          /\ torn[w] \in Nat /\ torn'[w] \in Nat
          /\ IF select[a].at = w THEN torn'[w] = torn[w] + 1 ELSE torn'[w] = torn[w]
  BY TearCounts, Zenon DEF TypeOK
<1> QED BY <1>1 DEF TornOnce, TornNever, Between, FlipWrites

\* The steps that neither write a record of Behind nor collect: it is enough that
\* no flip leaves its writes unseen.
LEMMA BehindAfter ==
    ASSUME TypeOK, Behind, UNCHANGED <<current, previous, launcher>>, trees \subseteq trees', NEW a,
           \A b \in Actors \ {a} : select'[b] = select[b],
           select'[a] = select[a] \/ select'[a].at \notin {"unstage", "launchers"},
           \/ torn' = torn /\ ~Between(a)
           \/ torn' = torn /\ select'[a] = select[a]
           \/ Tears(a)
    PROVE  Behind'
<1>1. TornNever' => TornNever
  BY TornAfter, Zenon DEF TornNever
<1>2. TornOnce' => TornOnce
  BY TornAfter, Zenon DEF TornOnce
<1>3. ASSUME TornNever', \A b \in Actors : select'[b].at \notin {"unstage", "launchers"} PROVE launcher = current.dir
  <2>1. select'[a] # select[a] => ~Between(a)
    BY <1>3, TornAfter, Zenon
  <2>2. \A b \in Actors : select[b].at \notin {"unstage", "launchers"}
    BY <1>3, <2>1, Zenon DEF Between, FlipWrites
  <2> QED BY <1>1, <1>3, <2>2, Zenon DEF Behind
<1>4. ASSUME TornOnce', \A b \in Actors : ~Between(b)' PROVE launcher \in {current.dir, previous}
  <2>1. CASE TornNever
    BY <2>1, Zenon DEF Behind
  <2>2. CASE ~TornNever
    <3>1. select'[a] # select[a] => ~Between(a)
      BY <1>4, <2>2, TornAfter, Zenon
    <3>2. \A b \in Actors : ~Between(b)
      BY <1>4, <3>1, Zenon DEF Between
    <3> QED BY <1>2, <1>4, <3>2, Zenon DEF Behind
  <2> QED BY <2>1, <2>2, Zenon
<1>5. TornNever' => launcher \in {current.dir, previous}
  BY <1>1, Zenon DEF Behind
<1>6. TornOnce' => launcher \in trees'
  BY <1>2, Zenon DEF Behind
<1> QED BY <1>3, <1>4, <1>5, <1>6, Zenon DEF Behind

\* A collection while no flip is at its writes.
LEMMA BehindKept ==
    ASSUME Behind, \A b \in Actors : ~Between(b), \A b \in Actors : ~Between(b)',
           UNCHANGED <<current, previous, launcher, torn>>,
           NEW stg, trees' = trees \cap Kept(current, stg)
    PROVE  Behind'
<1>1. /\ TornNever' <=> TornNever
      /\ TornOnce' <=> TornOnce
  BY DEF TornNever, TornOnce
<1>2. \A b \in Actors : select[b].at \notin {"unstage", "launchers"}
  BY DEF Between, FlipWrites
<1>3. TornNever => launcher = current.dir
  BY <1>2, Zenon DEF Behind
<1>4. TornOnce => launcher \in {current.dir, previous} /\ launcher \in trees
  BY Zenon DEF Behind
<1>5. TornOnce => launcher \in trees'
  BY <1>4 DEF Kept
<1>6. TornNever => launcher \in {current.dir, previous}
  BY DEF Behind
<1> QED BY <1>1, <1>3, <1>4, <1>5, <1>6, Zenon DEF Behind

LEMMA SelectBehind ==
    ASSUME TypeOK, Named, Stored, Locked, Moving, Behind, NEW a \in Actors, SelectStep(a) \/ KillSelect(a)
    PROVE  Behind'
<1>1. Selecting(a) /\ \A b \in Actors \ {a} : select'[b] = select[b]
  BY SelectsWrite, StepsLocal, Zenon DEF SelectWrites, Local
<1>2. \A b \in Actors \ {a} : select[b].at = None /\ select'[b].at = None
  BY <1>1, Alone DEF Locked
<1>3. MovingAt(a)
  BY Zenon DEF Moving, MovingAt
\* The steps before the writes of a flip.
<1> DEFINE Plain == /\ ~Between(a) /\ select'[a].at \notin {"unstage", "launchers"}
                    /\ UNCHANGED <<current, previous, launcher, torn>>
                    /\ trees' = trees \/ (~Between(a)' /\ \E stg : trees' = trees \cap Kept(current, stg))
<1>4. ASSUME Plain PROVE Behind'
  <2>1. ASSUME ~Between(a)', NEW stg, trees' = trees \cap Kept(current, stg) PROVE Behind'
    <3>1. (\A b \in Actors : ~Between(b)) /\ (\A b \in Actors : ~Between(b)')
      BY <1>2, <1>4, <2>1, Zenon DEF Between, FlipWrites, None
    <3> QED BY <1>4, <2>1, <3>1, BehindKept, Zenon
  <2>2. CASE trees' = trees
    BY <1>1, <1>4, <2>2, BehindAfter, Zenon
  <2> QED BY <1>4, <2>1, <2>2, Zenon
<1> USE DEF Goes
<1>5. SelectCheck(a) => Plain
  BY SelectChecks, Zenon DEF records, Between, FlipWrites
<1>6. SelectTestFails(a) => Plain
  BY TestFails, Zenon DEF records, Between, FlipWrites
<1>7. SelectStage(a) => Plain
  BY Stages, Zenon DEF Between, FlipWrites
<1>8. SelectMoves(a) => Plain
  BY Moves, Zenon DEF Between, FlipWrites
<1>9. SelectLock(a) => Plain
  BY Locks, Zenon DEF records, Between, FlipWrites
<1>10. SelectStaged(a) => Plain
  BY FlipsStaged, Zenon DEF Between, FlipWrites
<1> HIDE DEF Plain
<1>11. KillSelect(a) => Behind'
  BY <1>1, SelectKilled, BehindAfter, Zenon DEF records
<1>12. ASSUME WritePrevious(a) PROVE Behind'
  <2>1. select[a].at = "previous" /\ select'[a].at = "current" /\ UNCHANGED <<current, launcher, torn, trees>>
    BY <1>12, WritesPrevious, Zenon
  <2>2. Between(a)' /\ \A b \in Actors : select[b].at \notin {"unstage", "launchers"}
    BY <1>2, <2>1 DEF Between, FlipWrites, None
  <2>3. TornNever => launcher = current.dir
    BY <2>2, Zenon DEF Behind
  <2>4. (TornNever' <=> TornNever) /\ (TornOnce' <=> TornOnce)
    BY <2>1 DEF TornNever, TornOnce
  <2> QED BY <2>1, <2>2, <2>3, <2>4, Zenon DEF Behind
<1>13. ASSUME WriteCurrent(a) PROVE Behind'
  <2>1. /\ select[a].at = "current" /\ select'[a].at = "unstage" /\ current'.dir = select[a].build
        /\ UNCHANGED <<previous, launcher, torn, trees>>
    BY <1>13, WritesCurrent, SMTT(30)
  <2>2. Between(a)' /\ \A b \in Actors : select[b].at \notin {"unstage", "launchers"}
    BY <1>2, <2>1, Zenon DEF Between, FlipWrites, None
  <2>3. TornNever => launcher \in {select[a].build, previous}
    <3>1. select[a].from = current.dir /\ (previous = select[a].from \/ select[a].build = select[a].from)
      BY <1>3, <2>1, Zenon DEF MovingAt, FlipWrites
    <3> QED BY <2>2, <3>1, Zenon DEF Behind
  <2>4. (TornNever' <=> TornNever) /\ (TornOnce' <=> TornOnce)
    BY <2>1, Zenon DEF TornNever, TornOnce
  <2>5. TornOnce => launcher \in trees
    BY DEF Behind
  <2> QED BY <2>1, <2>2, <2>3, <2>4, <2>5, Zenon DEF Behind
<1>14. ASSUME RemoveStaged(a) PROVE Behind'
  <2>1. /\ select[a].at = "unstage" /\ select'[a].at = "launchers"
        /\ UNCHANGED <<current, previous, launcher, torn, trees>>
    BY <1>14, RemovesStaged, Zenon
  <2>2. Between(a)'
    BY <2>1 DEF Between, FlipWrites
  <2>3. (TornNever' <=> TornNever) /\ (TornOnce' <=> TornOnce)
    BY <2>1 DEF TornNever, TornOnce
  <2> QED BY <2>1, <2>2, <2>3, Zenon DEF Behind
<1>15. ASSUME WriteLaunchers(a) PROVE Behind'
  <2>1. launcher' = current.dir /\ current' = current
    BY <1>3, <1>15, WritesLaunchers, Zenon DEF MovingAt
  <2>2. current'.dir \in trees'
    BY SelectStored, Zenon DEF Stored
  <2> QED BY <2>1, <2>2, Zenon DEF Behind
<1> QED
  BY <1>4, <1>5, <1>6, <1>7, <1>8, <1>9, <1>10, <1>11, <1>12, <1>13, <1>14, <1>15, Zenon DEF SelectStep

-----------------------------------------------------------------------------
(***************************************************************************)
(* What was checked of a build                                             *)
(***************************************************************************)

\* The newest bad build, and what one more mark makes of it.
LEMMA NewestBadIs ==
    ASSUME TypeOK, BadKnown
    PROVE  NewestBad(bad) \in Nat
<1>1. bad \subseteq Nat
  BY Kinds
<1>2. CASE bad = {}
  BY <1>2 DEF NewestBad
<1>3. CASE bad # {}
  <2>1. \E m \in bad : \A b \in bad : m >= b
    BY <1>1, <1>3, Zenon DEF BadKnown
  <2>2. Max(bad) \in bad
    BY <2>1 DEF Max
  <2> QED BY <1>1, <1>3, <2>2, Zenon DEF NewestBad
<1> QED BY <1>2, <1>3

LEMMA OneMoreBad ==
    ASSUME TypeOK, BadKnown, NEW x \in Builds, bad' = bad \cup {x}
    PROVE  /\ BadKnown'
           /\ \A b \in Nat : b > NewestBad(bad) /\ b > x => b > NewestBad(bad')
<1>1. bad \subseteq Nat /\ x \in Nat /\ bad' # {}
  BY Kinds, Zenon
<1>2. PICK m \in bad' : \A b \in bad' : b <= m
  <2>1. CASE bad = {}
    BY <1>1, <2>1
  <2>2. CASE bad # {}
    <3>1. PICK n \in bad : \A b \in bad : b <= n
      BY <2>2 DEF BadKnown
    <3>2. CASE x <= n
      BY <1>1, <3>1, <3>2
    <3>3. CASE n <= x
      BY <1>1, <3>1, <3>3
    <3> QED BY <1>1, <3>2, <3>3
  <2> QED BY <2>1, <2>2
<1>3. BadKnown'
  BY <1>2 DEF BadKnown
<1>4. Max(bad') \in bad'
  <2>1. \E k \in bad' : \A b \in bad' : k >= b
    BY <1>1, <1>2
  <2> QED BY <2>1 DEF Max
<1>5. ASSUME NEW b \in Nat, b > NewestBad(bad), b > x PROVE b > NewestBad(bad')
  <2>1. CASE Max(bad') = x
    BY <1>1, <1>5, <2>1 DEF NewestBad
  <2>2. CASE Max(bad') \in bad
    <3>1. \E k \in bad : \A c \in bad : k >= c
      BY <1>1, <2>2, Zenon DEF BadKnown
    <3>2. Max(bad) \in bad /\ \A c \in bad : Max(bad) >= c
      BY <3>1 DEF Max
    <3>3. NewestBad(bad) = Max(bad) /\ NewestBad(bad') = Max(bad')
      BY <1>1, <2>2, Zenon DEF NewestBad
    <3>4. Max(bad) \in Nat /\ Max(bad') \in Nat /\ Max(bad) >= Max(bad')
      BY <1>1, <2>2, <3>2, Zenon
    <3> HIDE DEF NewestBad
    <3> QED BY <1>5, <3>3, <3>4
  <2> QED BY <1>4, <2>1, <2>2
<1> QED BY <1>3, <1>5

\* Checked is about one actor at a time, and about what is staged.
CheckedAt(a) ==
    /\ select[a].at = "test" => select[a].seen = bad
    /\ select[a].at = "check" /\ select[a].by = "hold" => current.dir \in bad
    /\ /\ select[a].at \in {"test", "lock", "previous", "current"}
       /\ select[a].flip => torn["unstage"] = 0
       => Right(select[a].build, select[a].by)

StagedRight ==
    /\ torn["unstage"] = 0 /\ staged.dir # 0
    /\ \A a \in Actors : select[a].at # "unstage"
    => Right(staged.dir, staged.by)

LEMMA CheckedAll ==
    /\ Checked <=> (\A a \in Actors : CheckedAt(a)) /\ StagedRight
    /\ Checked' <=> (\A a \in Actors : CheckedAt(a)') /\ StagedRight'
  BY Zenon DEF Checked, CheckedAt, StagedRight

LEMMA CheckedIdle ==
    ASSUME NEW a
    PROVE  /\ select[a].at \in {None, "staged"} => CheckedAt(a)
           /\ select'[a].at \in {None, "staged", "unstage", "launchers", "flipped", "stages", "refused", "failed"}
                => CheckedAt(a)'
  BY Zenon DEF CheckedAt, None

\* The steps that write none of the records it reads: it is enough that no flip
\* leaves its writes unseen.
LEMMA CheckedAfter ==
    ASSUME TypeOK, Checked, current' = current, staged' = staged, bad' = bad, NEW a,
           \A b \in Actors \ {a} : select'[b] = select[b],
           a \in Actors => CheckedAt(a)',
           \/ torn' = torn /\ select[a].at # "unstage"
           \/ torn' = torn /\ select'[a] = select[a]
           \/ Tears(a)
    PROVE  Checked'
<1>1. torn'["unstage"] = 0 => torn["unstage"] = 0 /\ (select[a].at # "unstage" \/ select'[a] = select[a])
  BY TornAfter, Zenon
<1>2. \A b \in Actors : CheckedAt(b)
  BY CheckedAll, Zenon
<1>3. \A build, by : Right(build, by)' <=> Right(build, by)
  BY DEF Right
<1>4. ASSUME NEW b \in Actors, b # a PROVE CheckedAt(b)'
  <2>1. select'[b] = select[b] /\ CheckedAt(b)
    BY <1>2, <1>4
  <2> QED BY <1>1, <1>3, <2>1, Zenon DEF CheckedAt, Right
<1>5. StagedRight'
  <2>1. StagedRight
    BY CheckedAll
  <2>2. SUFFICES ASSUME torn'["unstage"] = 0, staged.dir # 0, \A b \in Actors : select'[b].at # "unstage"
                 PROVE  Right(staged.dir, staged.by)'
    BY Zenon DEF StagedRight
  <2>3. \A b \in Actors : select[b].at # "unstage"
    BY <1>1, <2>2, Zenon
  <2> QED BY <1>1, <1>3, <2>1, <2>2, <2>3, Zenon DEF StagedRight
<1> QED BY <1>4, <1>5, CheckedAll, Zenon

LEMMA SelectChecked ==
    ASSUME TypeOK, Named, Stored, Locked, Placed, Moving, BadKnown, Checked, NEW a \in Actors,
           SelectStep(a) \/ KillSelect(a)
    PROVE  Checked' /\ bad' = bad
<1>1. Selecting(a) /\ \A b \in Actors \ {a} : select'[b] = select[b]
  BY SelectsWrite, StepsLocal, Zenon DEF SelectWrites, Local
<1>2. \A b \in Actors \ {a} : select[b].at = None /\ select'[b].at = None
  BY <1>1, Alone DEF Locked
<1>3. CheckedAt(a) /\ StagedRight
  BY CheckedAll
<1>4. \A b \in Actors \ {a} : CheckedAt(b)'
  BY <1>2, CheckedIdle, Zenon
<1>5. CheckedAt(a)' /\ StagedRight' => Checked'
  BY <1>4, CheckedAll
\* The steps that leave what is staged, and the engine's build.
<1> DEFINE Keeps == select[a].at # "unstage" /\ UNCHANGED <<current, staged, bad, torn>> /\ CheckedAt(a)'
<1>6. Keeps => Checked' /\ bad' = bad
  BY <1>1, CheckedAfter, Zenon
<1>7. ASSUME current' = current, bad' = bad PROVE \A build, by : Right(build, by)' <=> Right(build, by)
  BY <1>7 DEF Right
<1>8. select[a].at = "test" => select[a].seen = bad
  BY <1>3, Zenon DEF CheckedAt
<1> USE DEF Goes, SameTask
<1>9. ASSUME SelectCheck(a) PROVE Checked' /\ bad' = bad
  <2>1. select[a].at = "check" /\ UNCHANGED <<current, staged, bad, torn>>
    BY <1>9, SelectChecks, Zenon DEF records
  <2>2. CASE select'[a].at = "refused"
    BY <1>6, <2>1, <2>2, CheckedIdle, Zenon
  <2>3. CASE select'[a].at # "refused"
    <3>1. /\ ~Refused(select[a].build, select[a].by) /\ SameTask(a) /\ select'[a].at = "test"
          /\ select'[a].by = select[a].by /\ select'[a].seen = bad
      BY <1>9, <2>3, SelectChecks, Zenon
    <3>2. select[a].by = "hold" => current.dir \in bad
      BY <1>3, <2>1, Zenon DEF CheckedAt
    <3>3. select[a].build \in Nat /\ current.dir \in Nat /\ NewestBad(bad) \in Nat
      BY <1>1, Kinds, NewestBadIs, Zenon DEF Stored
    <3>4. Right(select[a].build, select[a].by)
      BY <3>1, <3>2, <3>3, SMTT(30) DEF Right, Refused, Explicit
    <3>5. Right(select[a].build, select[a].by)'
      BY <1>7, <2>1, <3>1, <3>4, Zenon
    <3>6. CheckedAt(a)'
      BY <2>1, <3>1, <3>5, Zenon DEF CheckedAt
    <3> QED BY <1>6, <2>1, <3>6, SMTT(30)
  <2> QED BY <2>2, <2>3
<1>10. SelectTestFails(a) => Keeps
  BY TestFails, CheckedIdle, Zenon DEF records
<1>11. ASSUME SelectStage(a) PROVE Checked' /\ bad' = bad
  <2>1. /\ select[a].at = "test" /\ select'[a].at = "stages" /\ UNCHANGED <<current, bad, torn>>
        /\ staged'.dir = select[a].build /\ staged'.by = select[a].by
    BY <1>8, <1>11, Stages, SMTT(30)
  <2>2. torn["unstage"] = 0 => Right(select[a].build, select[a].by)
    BY <1>3, <2>1, Zenon DEF CheckedAt
  <2>3. StagedRight'
    BY <1>7, <2>1, <2>2, Zenon DEF StagedRight
  <2> QED BY <1>5, <2>1, <2>3, CheckedIdle, Zenon
<1>12. SelectMoves(a) => Keeps
  BY <1>3, <1>7, <1>8, Moves, Zenon DEF CheckedAt
<1>13. SelectLock(a) => Keeps
  BY <1>3, <1>7, Locks, Zenon DEF CheckedAt, records
<1>14. ASSUME SelectStaged(a) PROVE Checked' /\ bad' = bad
  <2>1. select[a].at = "staged" /\ select[a].flip /\ UNCHANGED <<current, bad, torn>>
    BY <1>14, FlipsStaged, Zenon DEF Placed
  <2>2. CASE select'[a].at = "refused"
    <3>1. staged' \in {staged, NotStaged}
      BY <1>14, <2>2, FlipsStaged, Zenon
    <3>2. \A b \in Actors : select[b].at # "unstage"
      BY <1>2, <2>1, SMTT(30) DEF None
    <3>3. StagedRight'
      BY <1>3, <1>7, <2>1, <3>1, <3>2, SMTT(30) DEF StagedRight, NotStaged
    <3> QED BY <1>5, <2>1, <2>2, <3>3, CheckedIdle, Zenon
  <2>3. CASE select'[a].at # "refused"
    <3>1. /\ select'[a].at = "previous" /\ SameTask(a) /\ select'[a].by = staged.by
          /\ staged.dir = select[a].build /\ staged.dir \in Builds /\ staged' = staged
      BY <1>14, <2>3, FlipsStaged, Zenon
    <3>2. \A b \in Actors : select[b].at # "unstage"
      BY <1>2, <2>1 DEF None
    <3>3. torn["unstage"] = 0 => Right(staged.dir, staged.by)
      BY <1>3, <3>1, <3>2, Kinds, Zenon DEF StagedRight
    <3>4. CheckedAt(a)'
      BY <1>7, <2>1, <3>1, <3>3, Zenon DEF CheckedAt
    <3> QED BY <1>6, <2>1, <3>1, <3>4, Zenon
  <2> QED BY <2>2, <2>3
<1>15. WritePrevious(a) => Keeps
  BY <1>3, <1>7, WritesPrevious, Zenon DEF CheckedAt
<1>16. ASSUME WriteCurrent(a) PROVE Checked' /\ bad' = bad
  <2>1. select'[a].at = "unstage" /\ bad' = bad
    BY <1>16, WritesCurrent, Zenon
  <2>2. StagedRight'
    BY <2>1 DEF StagedRight
  <2> QED BY <1>5, <2>1, <2>2, CheckedIdle, Zenon
<1>17. ASSUME RemoveStaged(a) PROVE Checked' /\ bad' = bad
  <2>1. select'[a].at = "launchers" /\ staged'.dir = 0 /\ bad' = bad
    BY <1>17, RemovesStaged, SMTT(30) DEF NotStaged
  <2>2. StagedRight'
    BY <2>1 DEF StagedRight
  <2> QED BY <1>5, <2>1, <2>2, CheckedIdle, Zenon
<1>18. WriteLaunchers(a) => Keeps
  BY WritesLaunchers, CheckedIdle, Zenon
<1>19. ASSUME KillSelect(a) PROVE Checked' /\ bad' = bad
  <2>1. select'[a].at = "failed" /\ Tears(a) /\ UNCHANGED <<current, staged, bad>>
    BY <1>19, SelectKilled, Zenon DEF records
  <2>2. CheckedAt(a)'
    BY <2>1, CheckedIdle, Zenon
  <2> QED BY <1>1, <2>1, <2>2, CheckedAfter, Zenon
<1> HIDE DEF Keeps
<1> QED
  BY <1>6, <1>9, <1>10, <1>11, <1>12, <1>13, <1>14, <1>15, <1>16, <1>17, <1>18, <1>19, Zenon DEF SelectStep

\* One more bad build, the engine's own, takes nothing from what is staged.
LEMMA MarkChecked ==
    ASSUME TypeOK, Locked, BadKnown, Checked, NEW h \in Homes,
           Marks(h), current' = current, staged' = staged, \A b \in Actors \ {h} : select'[b] = select[b]
    PROVE  Checked'
<1>1. /\ h \in Actors /\ current.dir \in Builds /\ current.dir \in Nat
      /\ staged.dir \in Nat
  BY Kinds
<1>2. \A b \in Actors : select[b].at = None
  BY <1>1, Alone DEF Marks
<1>3. \A b \in Actors : CheckedAt(b)'
  <2>1. \A b \in Actors \ {h} : CheckedAt(b)'
    BY <1>2, CheckedIdle, Zenon
  <2>2. CheckedAt(h)'
    BY <1>1, <1>2, Zenon DEF CheckedAt, Marks, None
  <2> QED BY <2>1, <2>2
<1>4. StagedRight'
  <2>1. SUFFICES ASSUME torn["unstage"] = 0, staged.dir # 0 PROVE Right(staged.dir, staged.by)'
    BY Zenon DEF StagedRight, Marks
  <2>2. Right(staged.dir, staged.by)
    <3>1. StagedRight
      BY CheckedAll
    <3> QED BY <1>2, <2>1, <3>1, SMTT(30) DEF StagedRight, None
  <2>3. bad' = bad \cup {current.dir}
    BY DEF Marks
  <2>4. \A b \in Nat : b > NewestBad(bad) /\ b > current.dir => b > NewestBad(bad')
    BY <1>1, <2>3, OneMoreBad, Zenon
  <2>5. staged.by = "auto" => staged.dir > current.dir /\ staged.dir > NewestBad(bad')
    BY <1>1, <2>2, <2>4, Zenon DEF Right
  <2>6. staged.by = "hold" => current.dir \in bad'
    BY <2>3
  <2> QED BY <2>5, <2>6 DEF Right
<1> QED BY <1>3, <1>4, CheckedAll, SMTT(30)

-----------------------------------------------------------------------------
(***************************************************************************)
(* The types                                                               *)
(***************************************************************************)

\* The values of the records, and of the processes and locks.
RecordsTyped ==
    /\ current \in [dir : Builds, pinned : BOOLEAN, by : Movers]
    /\ previous \in Builds \cup {0}
    /\ staged \in [dir : Builds \cup {0}, by : Movers \cup {None}, restore : BOOLEAN]
    /\ launcher \in Builds
    /\ schema \in Nat

RunningTyped ==
    /\ lock \in Actors \cup {NoOne}
    /\ flipLock \in {<<>>} \cup (Actors \X {"probe", "follow", "select"})
    /\ stimd \in [Homes -> Stimds]
    /\ boots \in [Homes -> [Builds -> Nat]]
    /\ select \in [Actors -> Selects]
    /\ torn \in [FlipWrites -> Nat]
    /\ left \in Purse

LEMMA Typed ==
    /\ TypeOK => RecordsTyped /\ RunningTyped
    /\ RecordsTyped' /\ RunningTyped' /\ bad' \subseteq Builds /\ trees' \subseteq Builds => TypeOK'
  BY Zenon DEF TypeOK, RecordsTyped, RunningTyped

LEMMA RunningAfter ==
    ASSUME RunningTyped, TypeOK, NEW a \in Actors,
           stimd' \in [Homes -> Stimds], select' \in [Actors -> Selects],
           lock' \in {lock, NoOne, a},
           flipLock' \in {flipLock, <<>>, <<a, "probe">>, <<a, "follow">>, <<a, "select">>},
           boots' \in [Homes -> [Builds -> Nat]], torn' = torn \/ Tears(a), left' \in Purse
    PROVE  RunningTyped'
<1>1. torn' \in [FlipWrites -> Nat]
  BY TearCounts, Zenon DEF RunningTyped
<1>2. lock' \in Actors \cup {NoOne}
  BY Zenon DEF RunningTyped
<1>3. flipLock' \in {<<>>} \cup (Actors \X {"probe", "follow", "select"})
  BY DEF RunningTyped
<1> QED BY <1>1, <1>2, <1>3, Zenon DEF RunningTyped

LEMMA SelectTypes ==
    ASSUME TypeOK, Named, Stored, Moving, NEW a \in Actors, SelectStep(a) \/ KillSelect(a)
    PROVE  RecordsTyped' /\ RunningTyped'
<1>1. RecordsTyped /\ RunningTyped
  BY Typed
<1>2. SelectWrites(a)
  BY SelectsWrite
<1>3. /\ select[a].build \in Builds /\ select[a].by \in Movers \cup {None} /\ select[a].restore \in BOOLEAN
      /\ select[a].at = "current" => select[a].by \in Movers
  <2>1. select[a] \in Selects
    BY Kinds, Zenon
  <2>2. select[a].build \in Builds
    BY <1>2, Kinds, Zenon DEF SelectWrites, Stored
  <2>3. select[a].at = "current" => select[a].by # None
    BY DEF Named
  <2> QED BY <2>1, <2>2, <2>3, Zenon DEF Selects
<1>4. previous' \in Builds \cup {0}
  BY <1>1, <1>2, Kinds, Zenon DEF RecordsTyped, SelectWrites
<1>5. SchemaOf[select[a].build] \in Nat
  BY <1>3, BuildsAssumption, Zenon
<1>6. NotStaged \in [dir : Builds \cup {0}, by : Movers \cup {None}, restore : BOOLEAN]
  BY DEF NotStaged
<1> DEFINE Rest == /\ current' \in [dir : Builds, pinned : BOOLEAN, by : Movers]
                   /\ staged' \in [dir : Builds \cup {0}, by : Movers \cup {None}, restore : BOOLEAN]
                   /\ launcher' \in Builds /\ schema' \in Nat
                   /\ torn' = torn \/ Tears(a)
                   /\ left' \in Purse
<1> SUFFICES Rest
  <2>1. RecordsTyped'
    BY <1>4 DEF RecordsTyped
  <2>2. RunningTyped'
    BY <1>1, <1>2, RunningAfter, Zenon DEF SelectWrites, OthersSelect, RunningTyped
  <2> QED BY <2>1, <2>2
<1>7. /\ current \in [dir : Builds, pinned : BOOLEAN, by : Movers]
      /\ staged \in [dir : Builds \cup {0}, by : Movers \cup {None}, restore : BOOLEAN]
      /\ launcher \in Builds /\ schema \in Nat /\ left \in Purse
  BY <1>1, Zenon DEF RecordsTyped, RunningTyped
<1> USE <1>7 DEF records
<1>8. SelectCheck(a) => Rest
  BY SelectChecks, SMTT(30)
<1>9. SelectTestFails(a) => Rest
  BY TestFails, Zenon
<1>10. SelectStage(a) => Rest
  <2>1. SelectStage(a) => staged' \in [dir : Builds \cup {0}, by : Movers \cup {None}, restore : BOOLEAN]
    BY <1>3, Stages, SMTT(30)
  <2> QED BY <2>1, Stages, Zenon
<1>11. SelectMoves(a) => Rest
  BY <1>5, Moves, Zenon
<1>12. SelectLock(a) => Rest
  BY Locks, ZenonT(30)
<1>13. SelectStaged(a) => Rest
  <2>1. SelectStaged(a) => schema' \in Nat /\ staged' \in {staged, NotStaged}
    BY <1>5, FlipsStaged, SMTT(30)
  <2> QED BY <1>6, <2>1, FlipsStaged, SMTT(30)
<1>14. WritePrevious(a) => Rest
  BY WritesPrevious, Zenon
<1>15. WriteCurrent(a) => Rest
  <2>1. WriteCurrent(a) => current' \in [dir : Builds, pinned : BOOLEAN, by : Movers]
    BY <1>3, WritesCurrent, SMTT(30)
  <2> QED BY <2>1, WritesCurrent, Zenon
<1>16. RemoveStaged(a) => Rest
  BY <1>6, RemovesStaged, Zenon
<1>17. WriteLaunchers(a) => Rest
  BY <1>3, <1>5, WritesLaunchers, Zenon
<1>18. KillSelect(a) => Rest
  BY SelectKilled, Zenon
<1> HIDE DEF Rest
<1> QED BY <1>8, <1>9, <1>10, <1>11, <1>12, <1>13, <1>14, <1>15, <1>16, <1>17, <1>18, Zenon DEF SelectStep

-----------------------------------------------------------------------------
(***************************************************************************)
(* Every step keeps the invariant                                          *)
(***************************************************************************)

LEMMA HomeNext ==
    ASSUME StoreInv, NEW h \in Homes, HomeStep(h)
    PROVE  StoreInv'
<1>1. /\ TypeOK /\ Named /\ Stored /\ Locked /\ Placed /\ Gated
      /\ Drained /\ Moving /\ Behind /\ BadKnown /\ Checked
  BY DEF StoreInv
<1>2. h \in Actors /\ HomeKeeps(h) /\ HomeWrites(h) /\ Local(h)
  BY <1>1, Kinds, HomesGo, StepsLocal, Zenon
<1> USE <1>1, <1>2
<1>3. UNCHANGED <<current, previous, staged, launcher, schema, trees>>
  BY Zenon DEF HomeWrites
<1>4. Locked'
  BY LockedAfter, Zenon DEF HomeKeeps, NeedsLock
<1>5. Placed'
  <2>1. PlacedAt(h)'
    BY Zenon DEF HomeKeeps, PlacedAt, Selecting
  <2> QED BY <2>1, PlacedAfter
<1>6. Gated'
  BY GatedAfter, Zenon DEF HomeKeeps, Local
<1>7. Drained'
  BY DrainedAfter, Zenon DEF HomeKeeps, Local, Past
<1>8. Stored'
  BY StoredAfter, Zenon DEF HomeWrites
<1>9. Named' /\ Moving'
  <2>1. MovingAt(h)'
    BY MovingIdle, SMTT(30) DEF HomeWrites, Marks, Moving, MovingAt
  <2>2. NamedAt(h)'
    BY Zenon DEF HomeWrites, Marks, Named, NamedAt, None
  <2> QED BY <1>3, <2>1, <2>2, MovingAfter, ZenonT(30) DEF Local
<1>10. Behind'
  <2>1. /\ select'[h] = select[h] \/ select'[h].at \notin {"unstage", "launchers"}
        /\ \/ torn' = torn /\ ~Between(h)
           \/ torn' = torn /\ select'[h] = select[h]
           \/ Tears(h)
    BY Zenon DEF HomeWrites, Marks, Between, FlipWrites, None
  <2> QED BY <1>3, <2>1, BehindAfter, Zenon DEF Local
<1>11. Checked'
  <2>1. CASE Marks(h)
    BY <1>3, <2>1, MarkChecked, Zenon DEF Local
  <2>2. CASE ~Marks(h)
    <3>1. /\ bad' = bad
          /\ \/ torn' = torn /\ select'[h] = select[h]
             \/ torn' = torn /\ select'[h].at \in {None, "staged"} /\ select[h].at # "unstage"
             \/ select'[h].at = None /\ Tears(h)
      BY <2>2, Zenon DEF HomeWrites, Between, FlipWrites
    <3>2. torn' = torn /\ select'[h] = select[h] => CheckedAt(h)'
      BY <1>3, <3>1, CheckedAll, Zenon DEF CheckedAt, Right
    <3>3. CheckedAt(h)'
      BY <3>1, <3>2, CheckedIdle, Zenon
    <3> QED BY <1>3, <3>1, <3>3, CheckedAfter, Zenon DEF Local
  <2> QED BY <2>1, <2>2
<1>12. BadKnown' /\ bad' \subseteq Builds
  <2>1. bad' = bad \/ bad' = bad \cup {current.dir}
    BY Zenon DEF HomeWrites, Marks
  <2>2. bad' = bad => BadKnown'
    BY DEF BadKnown
  <2> QED BY <2>1, <2>2, Kinds, OneMoreBad, Zenon
<1>13. TypeOK'
  <2>1. RecordsTyped /\ RunningTyped
    BY Typed
  <2>2. RecordsTyped' /\ trees' \subseteq Builds
    BY <1>3, <2>1, Kinds, Zenon DEF RecordsTyped
  <2>3. torn' = torn \/ Tears(h)
    BY Zenon DEF HomeWrites, Marks
  <2>4. RunningTyped'
    BY <2>1, <2>3, RunningAfter, Zenon DEF HomeKeeps, HomeWrites, OthersStay, OthersSelect
  <2> QED BY <1>12, <2>2, <2>4, Typed, Zenon
<1> QED BY <1>4, <1>5, <1>6, <1>7, <1>8, <1>9, <1>10, <1>11, <1>12, <1>13, Zenon DEF StoreInv

LEMMA CommandNext ==
    ASSUME StoreInv, NEW c \in Commands, CommandStep(c)
    PROVE  StoreInv'
<1>1. /\ TypeOK /\ Named /\ Stored /\ Locked /\ Placed /\ Gated
      /\ Drained /\ Moving /\ Behind /\ BadKnown /\ Checked
  BY DEF StoreInv
<1>2. c \in Actors /\ c \notin Homes /\ CommandWrites(c) /\ Local(c)
  BY <1>1, Kinds, CommandsGo, StepsLocal, Zenon
<1> USE <1>1, <1>2
<1>3. /\ UNCHANGED <<current, previous, staged, bad, launcher, schema, stimd>>
      /\ trees \subseteq trees' /\ trees' \subseteq Builds
  BY Zenon DEF CommandWrites
<1>4. select'[c].at \in {None, "check"} /\ (select'[c].at = "check" => select'[c].by \notin {None, "hold"})
  BY Zenon DEF CommandWrites, None
<1>5. (torn' = torn /\ ~Between(c)) \/ Tears(c)
  BY Zenon DEF CommandWrites
<1>6. Locked'
  BY LockedAfter, Zenon DEF CommandWrites
<1>7. Placed'
  <2>1. PlacedAt(c)'
    BY <1>4, Zenon DEF CommandWrites, PlacedAt, None
  <2> QED BY <2>1, PlacedAfter
<1>8. Gated'
  BY <1>3, GatedAfter, Zenon DEF CommandWrites
<1>9. Drained' /\ BadKnown'
  BY <1>3, Zenon DEF Drained, WorksOn, Claims, BadKnown
<1>10. Stored'
  BY <1>3, StoredAfter, Zenon DEF CommandWrites
<1>11. Named' /\ Moving'
  <2>1. MovingAt(c)'
    BY <1>4, MovingIdle
  <2>2. NamedAt(c)'
    BY <1>3, <1>4, Zenon DEF Named, NamedAt, None
  <2> QED BY <1>3, <2>1, <2>2, MovingAfter, Zenon DEF Local
<1>12. Behind'
  <2>1. select'[c].at \notin {"unstage", "launchers"}
    BY <1>4 DEF None
  <2> QED BY <1>3, <1>5, <2>1, BehindAfter, Zenon DEF Local
<1>13. Checked'
  <2>1. CheckedAt(c)'
    BY <1>4, Zenon DEF CheckedAt, None
  <2>2. (torn' = torn /\ select[c].at # "unstage") \/ Tears(c)
    BY <1>5 DEF Between, FlipWrites
  <2> QED BY <1>3, <2>1, <2>2, CheckedAfter, Zenon DEF Local
<1>14. TypeOK'
  <2>1. RecordsTyped /\ RunningTyped
    BY Typed
  <2>2. RecordsTyped' /\ bad' \subseteq Builds
    BY <1>3, <2>1, Kinds, Zenon DEF RecordsTyped
  <2>3. RunningTyped'
    BY <1>3, <1>5, <2>1, RunningAfter, Zenon DEF CommandWrites, OthersSelect, RunningTyped
  <2> QED BY <1>3, <2>2, <2>3, Typed, Zenon
<1> QED BY <1>6, <1>7, <1>8, <1>9, <1>10, <1>11, <1>12, <1>13, <1>14, ZenonT(30) DEF StoreInv

LEMMA SelectNext ==
    ASSUME StoreInv, NEW a \in Actors, SelectStep(a) \/ KillSelect(a)
    PROVE  StoreInv'
<1>1. /\ TypeOK /\ Named /\ Stored /\ Locked /\ Placed /\ Gated
      /\ Drained /\ Moving /\ Behind /\ BadKnown /\ Checked
  BY DEF StoreInv
<1>2. SelectWrites(a) /\ MovingAt(a)' /\ NamedAt(a)' /\ Local(a)
  BY <1>1, SelectsWrite, StepsLocal, Zenon
<1> USE <1>1, <1>2
<1>3. /\ Selecting(a) /\ lock = a /\ stimd' = stimd /\ lock' = lock
      /\ select'[a].at # "staged" /\ select'[a].flip = select[a].flip
      /\ flipLock' = flipLock \/ flipLock = <<>> \/ flipLock = <<a, "select">>
  BY Zenon DEF SelectWrites, SameTask, Locked
<1>4. Locked'
  BY <1>3, LockedAfter, Zenon DEF Locked, NeedsLock
<1>5. Placed'
  <2>1. PlacedAt(a)'
    BY <1>3, Zenon DEF Placed, PlacedAt, Selecting
  <2> QED BY <2>1, PlacedAfter
<1>6. Gated'
  <2>1. /\ \A h \in Homes : <<a, "select">> # <<h, "probe">> /\ <<a, "select">> # <<h, "follow">>
        /\ \A h \in Homes : <<>> # <<h, "probe">> /\ <<>> # <<h, "follow">>
    OBVIOUS
  <2> QED BY <1>3, <2>1, Zenon DEF Gated
<1>7. Drained'
  BY <1>3, Zenon DEF Drained, WorksOn, Claims
<1>8. Stored' /\ Behind' /\ Checked' /\ bad' = bad
  BY SelectStored, SelectBehind, SelectChecked, Zenon
<1>9. Named' /\ Moving'
  <2>1. \A b \in Actors \ {a} : select[b].at = None
    BY <1>3, Alone, SMTT(30)
  <2> QED BY <2>1, MovingAfter, Zenon DEF Local
<1>10. BadKnown'
  BY <1>8 DEF BadKnown
<1>11. TypeOK'
  <2>1. bad' \subseteq Builds /\ trees' \subseteq Builds
    BY <1>8, Kinds, Zenon DEF SelectWrites
  <2> QED BY <2>1, SelectTypes, Typed, Zenon
<1> QED BY <1>4, <1>5, <1>6, <1>7, <1>8, <1>9, <1>10, <1>11, Zenon DEF StoreInv

LEMMA CollectNext ==
    ASSUME StoreInv, Collect
    PROVE  StoreInv'
<1>1. /\ TypeOK /\ Named /\ Stored /\ Locked /\ Placed /\ Gated
      /\ Drained /\ Moving /\ Behind /\ BadKnown /\ Checked
  BY DEF StoreInv
<1>2. /\ lock = NoOne /\ trees' = trees \cap Kept(current, staged)
      /\ UNCHANGED <<current, previous, staged, bad, launcher, schema, lock, flipLock,
                     stimd, boots, select, left, torn>>
  BY Zenon DEF Collect, records, locks
<1>3. Locked' /\ Placed' /\ Gated'
  BY <1>1, <1>2, Zenon DEF Locked, NeedsLock, Selecting, Placed, Gated
<1>4. Drained' /\ BadKnown'
  BY <1>1, <1>2, Zenon DEF Drained, WorksOn, Claims, BadKnown
<1>5. Named' /\ Moving' /\ Checked'
  BY <1>1, <1>2, Zenon DEF Named, Moving, Checked, Right
<1>6. Stored'
  BY <1>1, CollectStored
<1>7. Behind'
  <2>1. \A b \in Actors : select[b].at = None
    <3>1. NoOne \notin Actors
      BY <1>1, Kinds, Zenon
    <3> QED BY <1>1, <1>2, <3>1, Zenon DEF Locked, Selecting
  <2>2. (\A b \in Actors : ~Between(b)) /\ (\A b \in Actors : ~Between(b)')
    BY <1>2, <2>1 DEF Between, FlipWrites, None
  <2> QED BY <1>1, <1>2, <2>2, BehindKept, Zenon
<1>8. TypeOK'
  <2>1. RecordsTyped /\ RunningTyped /\ trees \subseteq Builds /\ bad \subseteq Builds
    BY <1>1, Typed, Kinds, Zenon
  <2>2. RecordsTyped' /\ RunningTyped' /\ bad' \subseteq Builds /\ trees' \subseteq Builds
    BY <1>2, <2>1, Zenon DEF RecordsTyped, RunningTyped
  <2> QED BY <2>2, Typed, Zenon
<1> QED BY <1>3, <1>4, <1>5, <1>6, <1>7, <1>8, Zenon DEF StoreInv

LEMMA StutterNext ==
    ASSUME StoreInv, UNCHANGED vars
    PROVE  StoreInv'
<1>1. UNCHANGED <<current, previous, staged, bad, launcher, schema, trees, lock, flipLock,
                  stimd, boots, select, left, torn>>
  BY DEF vars, records, locks
<1>2. Locked' = Locked /\ Placed' = Placed /\ Gated' = Gated
  BY <1>1, Zenon DEF Locked, NeedsLock, Selecting, Placed, Gated
<1>3. Drained' = Drained /\ BadKnown' = BadKnown /\ Named' = Named /\ Moving' = Moving
  BY <1>1, Zenon DEF Drained, WorksOn, Claims, BadKnown, Named, Moving
<1>4. Checked' = Checked /\ Stored' = Stored
  BY <1>1, Zenon DEF Checked, Right, Stored, Selecting
<1>5. Behind' = Behind
  BY <1>1, Zenon DEF Behind, TornNever, TornOnce, Between
<1>6. TypeOK' = TypeOK
  BY <1>1 DEF TypeOK
<1> QED BY <1>2, <1>3, <1>4, <1>5, <1>6, Zenon DEF StoreInv

LEMMA StoreInvNext == StoreInv /\ [Next]_vars => StoreInv'
  BY StepsOf, HomeNext, CommandNext, SelectNext, CollectNext, StutterNext, Zenon

-----------------------------------------------------------------------------
(***************************************************************************)
(* The engine store is correct                                             *)
(***************************************************************************)

\* Every state of the engine store satisfies the invariant.
THEOREM Invariance == Spec => []StoreInv
<1> QED BY StoreInvInit, StoreInvNext, PTL DEF Spec

\* The records, locks and processes have the values the code gives them, however
\* many builds, homes and commands there are.
THEOREM TypesHold == Spec => []TypeOK
<1>1. StoreInv => TypeOK
  BY DEF StoreInv
<1> QED BY <1>1, Invariance, PTL

\* keptEntries and collectInstalledStore: nothing that current.json, `previous`,
\* staged.json or a running stimd names is collected, and the launchers' build
\* is there until a second flip is killed between its writes.
THEOREM RecordedTreesStay == Spec => []RecordsInStore
<1>1. StoreInv => RecordsInStore
  BY Zenon DEF StoreInv, Stored, Behind, RecordsInStore
<1> QED BY <1>1, Invariance, PTL

\* admit and flipWhenDrained: the records of work and the flip lock together keep
\* a flip from an operation that was admitted under it.
THEOREM NoAdmittedWorkSwitched == Spec => DrainedSwitch
<1>1. ASSUME StoreInv, NEW h \in Homes, select[h].flip, current.dir = stimd[h].build
      PROVE  ~WorksOn(current.dir, {"run"})
  <2>1. stimd[h].chk = "child"
    BY <1>1, Zenon DEF StoreInv, Placed, Actors
  <2>2. ~WorksOn(stimd[h].build, {"held", "read", "run"})
    BY <1>1, <2>1, Zenon DEF StoreInv, Drained
  <2> QED BY <1>1, <2>2 DEF WorksOn
<1>2. StoreInv /\ [Next]_vars =>
          [\A h \in Homes :
              select[h].flip /\ select[h].at = "current" /\ current.dir = stimd[h].build /\ current' # current
                => ~WorksOn(current.dir, {"run"})]_vars
  BY <1>1
<1> QED BY <1>2, Invariance, PTL DEF Spec, DrainedSwitch

\* promotionRefusal, flipStaged and holdCrashLoop: what made a build the right
\* one when it was checked makes it the right one when the engine moves to it.
THEOREM MovesStayRight == Spec => StagedStillRight
<1> DEFINE Step == current'.dir # current.dir /\ torn["unstage"] = 0 =>
                      /\ current'.by = "auto" => current'.dir > current.dir /\ current'.dir > NewestBad(bad)
                      /\ current'.by = "hold" => current.dir \in bad
<1>1. ASSUME StoreInv, [Next]_vars PROVE Step
  <2>1. TypeOK /\ Named /\ Stored /\ Locked /\ Placed /\ Gated /\ Drained /\ Checked
    BY <1>1 DEF StoreInv
  <2>2. ASSUME NEW a \in Actors, WriteCurrent(a) PROVE Step
    <3>1. /\ select[a].at = "current"
          /\ \E pinned \in BOOLEAN :
                 current' = [dir |-> select[a].build, pinned |-> pinned, by |-> select[a].by]
      BY <2>1, <2>2, WritesCurrent, Zenon
    <3>2. current'.dir = select[a].build /\ current'.by = select[a].by
      BY <3>1
    <3>3. torn["unstage"] = 0 => Right(select[a].build, select[a].by)
      BY <2>1, <3>1, Zenon DEF Checked
    <3> QED BY <3>2, <3>3, Zenon DEF Right
  <2>3. \/ current' = current
        \/ \E a \in Actors : WriteCurrent(a)
    <3>1. ASSUME NEW h \in Homes, HomeStep(h) PROVE current' = current
      BY <2>1, <3>1, HomesGo, Zenon DEF HomeWrites
    <3>2. ASSUME NEW c \in Commands, CommandStep(c) PROVE current' = current
      BY <2>1, <3>2, CommandsGo, Zenon DEF CommandWrites
    <3>3. ASSUME NEW a \in Actors, SelectStep(a) \/ KillSelect(a) PROVE current' = current \/ WriteCurrent(a)
      BY <3>3, Zenon DEF SelectStep, SelectCheck, SelectTestFails, SelectStage, SelectMoves, SelectLock,
                  SelectStaged, WritePrevious, RemoveStaged, WriteLaunchers, KillSelect, records
    <3>4. Collect \/ UNCHANGED vars => current' = current
      BY DEF Collect, vars, records
    <3> QED BY <1>1, <3>1, <3>2, <3>3, <3>4, StepsOf, Zenon
  <2>4. CASE current' = current
    BY <2>4
  <2> QED BY <2>2, <2>3, <2>4, Zenon
<1>2. StoreInv /\ [Next]_vars => [Step]_vars
  BY <1>1
<1> QED BY <1>2, Invariance, PTL DEF Spec, StagedStillRight

=============================================================================
