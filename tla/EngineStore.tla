---------------------------- MODULE EngineStore ----------------------------
(***************************************************************************)
(* The engine store: packages/stim-cli/src/engine-store with the           *)
(* background service's side of it, stimd/engine-follow.ts and             *)
(* stimd/crash-hold.ts, as stimd/main.ts runs them.                        *)
(*                                                                         *)
(* One directory holds the builds of stim a machine has and the records    *)
(* that say which of them runs: current.json, previous, staged.json,       *)
(* state.json and the launchers in bin/.  A promotion points the engine at *)
(* a build at once when no background service (stimd) is up, and stages it *)
(* otherwise.  Each home's stimd claims its build, records whether it has  *)
(* pinned work, flips a staged build when every stimd of its build has     *)
(* none, and hands over to a stimd of the new build.  A build whose stimd  *)
(* crashes again and again is marked bad and the previous one restored.    *)
(*                                                                         *)
(* The writing is done by engine-select processes of the target build,     *)
(* which work for a parent that holds the store's locks: a promoting       *)
(* command, or a stimd.  The locks are bound sockets, so a death frees     *)
(* them.  Claims are ownership claims (OwnershipClaim): live exactly while *)
(* the process that took them is.                                          *)
(***************************************************************************)
EXTENDS Naturals, FiniteSets, FiniteSetsExt

CONSTANTS
    Builds,      \* builds of stim, numbered by version
    SchemaOf,    \* the state schema each build reads and writes
    Homes,       \* Stim homes, one stimd each
    Commands,    \* processes that promote or collect: stim engine, routers, updates
    Crashes,     \* CRASHES, the abnormal exits that make a crash loop
    Budgets      \* bounds on the promotions, operations, abnormal exits and
                 \* killed processes of a behaviour, one of which it has

Purse == [moves : Nat, ops : Nat, crashes : Nat, kills : Nat]

ASSUME BuildsAssumption ==
    /\ Builds \subseteq Nat \ {0}
    /\ \E oldest \in Builds : \A b \in Builds : oldest <= b
    /\ SchemaOf \in [Builds -> Nat]

ASSUME ActorsAssumption == Homes \cap Commands = {} /\ "no one" \notin Homes \cup Commands

ASSUME BoundsAssumption ==
    /\ Crashes \in Nat \ {0}
    /\ Budgets \subseteq Purse

Actors == Homes \cup Commands

VARIABLES
    current,   \* current.json: the build, whether it is pinned, who set it
    previous,  \* the build `previous` names, 0 without one
    staged,    \* staged.json: the build, who staged it, --restore-state
    bad,       \* state.json's builds marked bad
    launcher,  \* the build bin/stim and bin/stimd start
    trees,     \* the builds whose tree is in the store
    schema,    \* the schema marker of ~/.stim/machine
    lock,      \* the actor that holds .lock.sock
    flipLock,  \* the holder of .flip.sock: an actor and what it is for
    stimd,     \* each home's stimd
    boots,     \* the abnormal boots of each build in the home's dead claims
    select,    \* the engine-select process that works for an actor
    torn,      \* how many flips were killed before each of their later writes
    left       \* what is left of the budget

records == <<current, previous, staged, bad, launcher, schema>>
locks == <<lock, flipLock>>
vars == <<records, trees, locks, stimd, boots, select, torn, left>>

None == "none"
NoOne == "no one"

\* Who moves the engine.  A person's command is explicit.
Explicit(by) == by # "auto"
Movers == {"use", "rollback", "update", "auto", "hold"}

NotStaged == [dir |-> 0, by |-> None, restore |-> FALSE]

Off == [st |-> "off", build |-> 0, next |-> 0, op |-> None, drained |-> TRUE,
        chk |-> "idle", saw |-> 0]

NoSelect == [at |-> None, build |-> 0, by |-> None, restore |-> FALSE, from |-> 0,
             seen |-> {}, flip |-> FALSE]

\* The native work of a home.  A command's operation is admitted (probe, held,
\* read), then runs, waits at a build slot, has left the wait, or runs without
\* having seen the flip lock free.  Hosted work starts without admission.
Ops == {None, "probe", "held", "read", "run", "wait", "leaving", "loose", "hosted"}

Stimds ==
    [st : {"off", "boot", "up", "hold", "holding", "handing"},
     build : Builds \cup {0}, next : Builds \cup {0}, op : Ops, drained : BOOLEAN,
     chk : {"idle", "lock", "flip", "again", "child"}, saw : Builds \cup {0}]

Selects ==
    [at : {None, "staged", "check", "test", "lock", "previous", "current", "unstage", "launchers",
           "flipped", "stages", "refused", "failed"},
     build : Builds \cup {0}, by : Movers \cup {None}, restore : BOOLEAN,
     from : Builds \cup {0}, seen : SUBSET Builds, flip : BOOLEAN]

\* The writes of a flip that follow its first, by the step that makes them.
FlipWrites == {"current", "unstage", "launchers"}

TypeOK ==
    /\ current \in [dir : Builds, pinned : BOOLEAN, by : Movers]
    /\ previous \in Builds \cup {0}
    /\ staged \in [dir : Builds \cup {0}, by : Movers \cup {None}, restore : BOOLEAN]
    /\ bad \subseteq Builds /\ trees \subseteq Builds /\ launcher \in Builds
    /\ schema \in Nat
    /\ lock \in Actors \cup {NoOne}
    /\ flipLock \in {<<>>} \cup (Actors \X {"probe", "follow", "select"})
    /\ stimd \in [Homes -> Stimds]
    /\ boots \in [Homes -> [Builds -> Nat]]
    /\ select \in [Actors -> Selects]
    /\ torn \in [FlipWrites -> Nat]
    /\ left \in Purse

\* An installed engine: the oldest build, the only one in the store.
Init ==
    /\ current = [dir |-> Min(Builds), pinned |-> FALSE, by |-> "use"]
    /\ previous = 0
    /\ staged = NotStaged
    /\ bad = {}
    /\ launcher = Min(Builds)
    /\ trees = {Min(Builds)}
    /\ schema = SchemaOf[Min(Builds)]
    /\ lock = NoOne
    /\ flipLock = <<>>
    /\ stimd = [h \in Homes |-> Off]
    /\ boots = [h \in Homes |-> [b \in Builds |-> 0]]
    /\ select = [a \in Actors |-> NoSelect]
    /\ torn = [w \in FlipWrites |-> 0]
    /\ left \in Budgets

-----------------------------------------------------------------------------
(***************************************************************************)
(* Reading the store                                                       *)
(***************************************************************************)

\* readBuildClaims: the live stimd claims under a build's claim root.
Claims(build) == {h \in Homes : stimd[h].st = "up" /\ stimd[h].build = build}

\* claimsHeld: any build's stimd is up.
ClaimsHeld == \E b \in Builds : Claims(b) # {}

AllDrained(build) == \A h \in Claims(build) : stimd[h].drained

\* The builds that processes run from: stimds and engine-select processes.
Running == {stimd[h].build : h \in {i \in Homes : stimd[i].st # "off"}}
              \cup {select[a].build : a \in {x \in Actors : select[x].at # None}}

\* Mutant of Kept: a collection takes the build a rollback goes back to.
KeptForward(cur, stg) == {cur.dir, stg.dir} \cup Running

\* keptEntries, and the trees a process runs from.
Kept(cur, stg) == {cur.dir, previous, stg.dir} \cup Running

\* newestBad
NewestBad(marked) == IF marked = {} THEN 0 ELSE Max(marked)

\* promotionRefusal of an unattended promotion.
Refused(build, by) ==
    /\ ~Explicit(by)
    /\ current.pinned \/ build <= NewestBad(bad) \/ build <= current.dir

\* schemaRefusal
SchemaRefuses(build) == schema > SchemaOf[build]

\* switchedEngine
Switched(h) == current.dir # stimd[h].build

\* pinned: native work that stimd does not know to wait at a build slot.
Pinned(h) == stimd[h].op \notin {None, "wait", "leaving"}

-----------------------------------------------------------------------------
(***************************************************************************)
(* A home's stimd                                                          *)
(***************************************************************************)

CrashLooping(h, build) == boots[h][build] >= Crashes

\* runStimd: takes the home's claim and, unless its build crash-loops, the
\* shared claim of its build, as drained.
Started(h, build) ==
    [Off EXCEPT !.st = IF CrashLooping(h, build) THEN "boot" ELSE "up", !.build = build]

\* A command starts the stimd of the engine's build, a service unit the one
\* the launcher names.
Launch(h) ==
    /\ stimd[h].st = "off"
    /\ \E b \in {current.dir, launcher} \cap trees : stimd' = [stimd EXCEPT ![h] = Started(h, b)]
    /\ UNCHANGED <<records, trees, locks, boots, select, left, torn>>

\* op.begin: admit records the work as pinned first.
OpBegin(h) ==
    /\ stimd[h].st = "up" /\ stimd[h].op = None
    /\ left.ops > 0
    /\ left' = [left EXCEPT !.ops = @ - 1]
    /\ stimd' = [stimd EXCEPT ![h] = [@ EXCEPT !.op = "probe", !.drained = FALSE]]
    /\ UNCHANGED <<records, trees, locks, boots, select, torn>>

\* admit: the flip lock is free, and taken for a moment.
ProbeFlipLock(h) ==
    /\ stimd[h].op = "probe" /\ flipLock = <<>>
    /\ flipLock' = <<h, "probe">>
    /\ stimd' = [stimd EXCEPT ![h].op = "held"]
    /\ UNCHANGED <<records, trees, lock, boots, select, left, torn>>

ReleaseProbe(h) ==
    /\ stimd[h].op = "held"
    /\ flipLock' = <<>>
    /\ stimd' = [stimd EXCEPT ![h].op = "read"]
    /\ UNCHANGED <<records, trees, lock, boots, select, left, torn>>

\* The operation begins unless the engine has switched; it then ends here.
Admitted(h, as) ==
    /\ stimd' = [stimd EXCEPT ![h] = [@ EXCEPT !.op = IF Switched(h) THEN None ELSE as,
                                               !.drained = Switched(h)]]
    /\ UNCHANGED <<records, trees, locks, boots, select, left, torn>>

Admit(h) == stimd[h].op = "read" /\ Admitted(h, "run")

\* ADMIT_WAIT_MS passes while another process holds the flip lock.
AdmitLate(h) == stimd[h].op = "probe" /\ flipLock # <<>> /\ Admitted(h, "loose")

\* op.wait: the command waits at a build slot or for another build.
OpWait(h) ==
    /\ stimd[h].op \in {"run", "loose"}
    /\ stimd' = [stimd EXCEPT ![h] = [@ EXCEPT !.op = "wait", !.drained = TRUE]]
    /\ UNCHANGED <<records, trees, locks, boots, select, left, torn>>

\* The command has its slot, having seen its own build current, and builds.
OpLeaves(h) ==
    /\ stimd[h].op = "wait" /\ ~Switched(h)
    /\ stimd' = [stimd EXCEPT ![h].op = "leaving"]
    /\ UNCHANGED <<records, trees, locks, boots, select, left, torn>>

\* op.resume reaches stimd, which records the work as pinned.
OpResume(h) ==
    /\ stimd[h].op = "leaving"
    /\ stimd' = [stimd EXCEPT ![h] = [@ EXCEPT !.op = "loose", !.drained = FALSE]]
    /\ UNCHANGED <<records, trees, locks, boots, select, left, torn>>

\* The command ends, or finds at its slot that the engine switched.
OpEnd(h) ==
    /\ stimd[h].op \in {"run", "loose", "wait", "leaving"}
    /\ stimd' = [stimd EXCEPT ![h] = [@ EXCEPT !.op = None, !.drained = TRUE]]
    /\ UNCHANGED <<records, trees, locks, boots, select, left, torn>>

\* A hosted session's native step begins or ends; nothing is recorded until
\* the next check.
HostedBegin(h) ==
    /\ stimd[h].st = "up" /\ stimd[h].op = None
    /\ left.ops > 0
    /\ left' = [left EXCEPT !.ops = @ - 1]
    /\ stimd' = [stimd EXCEPT ![h].op = "hosted"]
    /\ UNCHANGED <<records, trees, locks, boots, select, torn>>

HostedEnd(h) ==
    /\ stimd[h].op = "hosted"
    /\ stimd' = [stimd EXCEPT ![h].op = None]
    /\ UNCHANGED <<records, trees, locks, boots, select, left, torn>>

\* checkEngine on a tick, a connection or the end of an operation: records the
\* work, and goes on to flip when a build is staged and its own is drained.
Record(h) == [stimd EXCEPT ![h].drained = ~Pinned(h)]

CheckEngine(h) ==
    /\ stimd[h].st = "up" /\ stimd[h].chk = "idle"
    /\ LET wants == /\ ~Switched(h)
                    /\ staged.dir \notin {0, stimd[h].build}
                    /\ ~Pinned(h)
                    /\ \A i \in Claims(stimd[h].build) : Record(h)[i].drained
       IN  stimd' = [Record(h) EXCEPT ![h] = [@ EXCEPT !.chk = IF wants THEN "lock" ELSE "idle",
                                                       !.saw = IF wants THEN staged.dir ELSE 0]]
    /\ UNCHANGED <<records, trees, locks, boots, select, left, torn>>

TakeLock(h) ==
    /\ stimd[h].chk = "lock"
    /\ \/ /\ lock = NoOne
          /\ lock' = h
          /\ stimd' = [stimd EXCEPT ![h].chk = "flip"]
       \/ /\ lock # NoOne
          /\ stimd' = [stimd EXCEPT ![h] = [@ EXCEPT !.chk = "idle", !.saw = 0]]
          /\ UNCHANGED lock
    /\ UNCHANGED <<records, trees, flipLock, boots, select, left, torn>>

TakeFlipLock(h) ==
    /\ stimd[h].chk = "flip"
    /\ \/ /\ flipLock = <<>>
          /\ flipLock' = <<h, "follow">>
          /\ stimd' = [stimd EXCEPT ![h].chk = "again"]
          /\ UNCHANGED lock
       \/ /\ flipLock # <<>>
          /\ lock' = NoOne
          /\ stimd' = [stimd EXCEPT ![h] = [@ EXCEPT !.chk = "idle", !.saw = 0]]
          /\ UNCHANGED flipLock
    /\ UNCHANGED <<records, trees, boots, select, left, torn>>

\* Mutant of MayFlip: what was read before the locks is trusted.
MayFlipUnread(h) == staged.dir = stimd[h].saw

\* Under both locks the conditions are read again before the staged build's
\* engine-select starts.
MayFlip(h) == ~Pinned(h) /\ AllDrained(stimd[h].build) /\ staged.dir = stimd[h].saw

CheckAgain(h) ==
    /\ stimd[h].chk = "again"
    /\ IF MayFlip(h) /\ stimd[h].saw \in trees
       THEN /\ select' = [select EXCEPT ![h] = [NoSelect EXCEPT !.at = "staged", !.build = stimd[h].saw,
                                                                !.flip = TRUE]]
            /\ stimd' = [stimd EXCEPT ![h].chk = "child"]
            /\ UNCHANGED locks
       ELSE /\ lock' = NoOne /\ flipLock' = <<>>
            /\ stimd' = [stimd EXCEPT ![h] = [@ EXCEPT !.chk = "idle", !.saw = 0]]
            /\ UNCHANGED select
    /\ UNCHANGED <<records, trees, boots, left, torn>>

Ended(a) == select[a].at \in {"flipped", "stages", "refused", "failed"}

\* Mutant of FlipEnds: only a flip that went through frees the locks.
FlipEndsLocked(h) ==
    /\ stimd[h].chk = "child" /\ Ended(h)
    /\ select' = [select EXCEPT ![h] = NoSelect]
    /\ IF select[h].at = "flipped" THEN lock' = NoOne /\ flipLock' = <<>> ELSE UNCHANGED locks
    /\ stimd' = [stimd EXCEPT ![h] = [@ EXCEPT !.chk = "idle", !.saw = 0]]
    /\ UNCHANGED <<records, trees, boots, left, torn>>

FlipEnds(h) ==
    /\ stimd[h].chk = "child" /\ Ended(h)
    /\ select' = [select EXCEPT ![h] = NoSelect]
    /\ lock' = NoOne /\ flipLock' = <<>>
    /\ stimd' = [stimd EXCEPT ![h] = [@ EXCEPT !.chk = "idle", !.saw = 0]]
    /\ UNCHANGED <<records, trees, boots, left, torn>>

\* relaunch: without pinned work a stimd of a build the engine has left shuts
\* down, which drops its claims and with them the boots, and starts its
\* successor.
Relaunch(h) ==
    /\ stimd[h].st = "up" /\ stimd[h].chk = "idle" /\ Switched(h) /\ ~Pinned(h)
    /\ stimd' = [stimd EXCEPT ![h] = [Off EXCEPT !.st = "handing", !.build = stimd[h].build,
                                                 !.next = current.dir]]
    /\ boots' = [boots EXCEPT ![h] = [b \in Builds |-> 0]]
    /\ UNCHANGED <<records, trees, locks, select, left, torn>>

Successor(h) ==
    /\ stimd[h].st = "handing"
    /\ stimd' = [stimd EXCEPT ![h] = IF stimd[h].next \in trees
                                     THEN Started(h, stimd[h].next)
                                     ELSE Off]
    /\ UNCHANGED <<records, trees, locks, boots, select, left, torn>>

\* shutdown for a signal or an idle home.
Shutdown(h) ==
    /\ stimd[h].st = "up" /\ stimd[h].chk = "idle" /\ stimd[h].op # "held"
    /\ stimd' = [stimd EXCEPT ![h] = Off]
    /\ boots' = [boots EXCEPT ![h] = [b \in Builds |-> 0]]
    /\ UNCHANGED <<records, trees, locks, select, left, torn>>

\* An abnormal exit: markAbnormal keeps the claim with its boots.
Crash(h) ==
    /\ stimd[h].st = "up" /\ stimd[h].chk = "idle" /\ stimd[h].op # "held"
    /\ left.crashes > 0
    /\ left' = [left EXCEPT !.crashes = @ - 1]
    /\ boots' = [boots EXCEPT ![h][stimd[h].build] = @ + 1]
    /\ stimd' = [stimd EXCEPT ![h] = Off]
    /\ UNCHANGED <<records, trees, locks, select, torn>>

\* keptBoots: BOOT_WINDOW_MS passes.
ForgetBoots(h) ==
    /\ stimd[h].st = "off"
    /\ boots' = [boots EXCEPT ![h] = [b \in Builds |-> 0]]
    /\ boots' # boots
    /\ UNCHANGED <<records, trees, locks, stimd, select, left, torn>>

-----------------------------------------------------------------------------
(***************************************************************************)
(* holdCrashLoop                                                           *)
(***************************************************************************)

\* Another process changes the store: stop, and try again at the next boot.
HoldLock(h) ==
    /\ stimd[h].st = "boot"
    /\ \/ /\ lock = NoOne
          /\ lock' = h
          /\ stimd' = [stimd EXCEPT ![h].st = "hold"]
       \/ /\ lock # NoOne
          /\ stimd' = [stimd EXCEPT ![h] = Off]
          /\ UNCHANGED lock
    /\ UNCHANGED <<records, trees, flipLock, boots, select, left, torn>>

\* The engine runs the build current.json names by now.
HandOver(h) ==
    /\ lock' = NoOne
    /\ stimd' = [stimd EXCEPT ![h] = [@ EXCEPT !.st = "handing", !.next = current.dir]]
    /\ boots' = [boots EXCEPT ![h] = [b \in Builds |-> 0]]

HoldMoved(h) ==
    /\ stimd[h].st = "hold" /\ Switched(h)
    /\ HandOver(h)
    /\ UNCHANGED <<records, trees, flipLock, select, left, torn>>

\* Mutant of Marked: the build that is restored is the one marked.
MarkedPrevious(h) == bad \cup {previous}

\* state.json with the crashing build marked bad.
Marked(h) == bad \cup {stimd[h].build}

\* crashLoopAction: back to the previous build if it reads the state.
CanGoBack == previous # 0 /\ previous \in trees /\ ~SchemaRefuses(previous)

\* Mutant of StillCurrent: the records are not read again under the lock.
StillCurrentUnread(h) == TRUE

\* The engine still runs the build that crashed.
StillCurrent(h) == ~Switched(h)

HoldMark(h) ==
    /\ stimd[h].st = "hold" /\ StillCurrent(h)
    /\ bad' = Marked(h)
    /\ IF CanGoBack
       THEN /\ select' = [select EXCEPT ![h] = [NoSelect EXCEPT !.at = "check", !.build = previous,
                                                                !.by = "hold"]]
            /\ stimd' = [stimd EXCEPT ![h].st = "holding"]
            /\ UNCHANGED lock
       ELSE /\ lock' = NoOne
            /\ stimd' = [stimd EXCEPT ![h] = Off]
            /\ UNCHANGED select
    /\ UNCHANGED <<current, previous, staged, launcher, schema, trees, flipLock, boots, left, torn>>

\* A hold that fails is an abnormal exit too, of a home that crash-loops already:
\* nothing tells a higher count apart.
HoldEnds(h) ==
    /\ stimd[h].st = "holding" /\ Ended(h)
    /\ select' = [select EXCEPT ![h] = NoSelect]
    /\ IF select[h].at = "flipped"
       THEN HandOver(h)
       ELSE /\ lock' = NoOne
            /\ stimd' = [stimd EXCEPT ![h] = Off]
            /\ UNCHANGED boots
    /\ UNCHANGED <<records, trees, flipLock, left, torn>>

-----------------------------------------------------------------------------
(***************************************************************************)
(* Commands: promote and collectInstalledStore                             *)
(***************************************************************************)

\* stim engine update refuses a release at or below a bad one by itself, and
\* rollback asks for the previous build, perhaps with --restore-state.
Request(build, by, restore) ==
    /\ by = "update" => build > NewestBad(bad)
    /\ by = "rollback" => build = previous /\ previous \in trees
    /\ restore => by = "rollback"

\* promote under the promotion lock: gets the tree and hands it to its own
\* engine-select.
Promote(c) ==
    /\ lock = NoOne /\ select[c] = NoSelect
    /\ left.moves > 0
    /\ left' = [left EXCEPT !.moves = @ - 1]
    /\ \E build \in Builds, by \in Movers \ {"hold"}, restore \in BOOLEAN :
           /\ Request(build, by, restore)
           /\ trees' = trees \cup {build}
           /\ select' = [select EXCEPT ![c] = [NoSelect EXCEPT !.at = "check", !.build = build, !.by = by,
                                                               !.restore = restore]]
    /\ lock' = c
    /\ UNCHANGED <<records, flipLock, stimd, boots, torn>>

PromoteEnds(c) ==
    /\ Ended(c)
    /\ select' = [select EXCEPT ![c] = NoSelect]
    /\ lock' = NoOne
    /\ UNCHANGED <<records, trees, flipLock, stimd, boots, left, torn>>

\* collectInstalledStore of stim gc --delete.
Collect ==
    /\ lock = NoOne
    /\ trees' = trees \cap Kept(current, staged)
    /\ UNCHANGED <<records, locks, stimd, boots, select, left, torn>>

-----------------------------------------------------------------------------
(***************************************************************************)
(* An engine-select process                                                *)
(***************************************************************************)

SelectGoes(a, step) == select' = [select EXCEPT ![a].at = step]

\* Reads the records and decides; a refusal collects.  The self-test follows.
SelectCheck(a) ==
    /\ select[a].at = "check"
    /\ IF Refused(select[a].build, select[a].by)
          \/ (~select[a].restore /\ SchemaRefuses(select[a].build))
       THEN /\ SelectGoes(a, "refused")
            /\ trees' = trees \cap Kept(current, staged)
       ELSE /\ select' = [select EXCEPT ![a] = [@ EXCEPT !.at = "test", !.from = current.dir, !.seen = bad]]
            /\ UNCHANGED trees
    /\ UNCHANGED <<records, locks, stimd, boots, left, torn>>

\* The self-test fails: the tree stays out of use.
SelectTestFails(a) ==
    /\ select[a].at = "test"
    /\ SelectGoes(a, "failed")
    /\ trees' = trees \cap Kept(current, staged)
    /\ UNCHANGED <<records, locks, stimd, boots, left, torn>>

\* state.json is written from what was read before the self-test.  With a
\* live stimd the build is staged.
SelectStage(a) ==
    /\ select[a].at = "test" /\ ClaimsHeld
    /\ bad' = select[a].seen
    /\ staged' = [dir |-> select[a].build, by |-> select[a].by, restore |-> select[a].restore]
    /\ SelectGoes(a, "stages")
    /\ trees' = trees \cap Kept(current, staged')
    /\ UNCHANGED <<current, previous, launcher, schema, locks, stimd, boots, left, torn>>

\* Without one the engine moves at once; --restore-state puts the state back.
SelectMoves(a) ==
    /\ select[a].at = "test" /\ ~ClaimsHeld
    /\ bad' = select[a].seen
    /\ schema' = IF select[a].restore THEN SchemaOf[select[a].build] ELSE schema
    /\ SelectGoes(a, "lock")
    /\ UNCHANGED <<current, previous, staged, launcher, trees, locks, stimd, boots, left, torn>>

\* flip takes the flip lock, or fails.
SelectLock(a) ==
    /\ select[a].at = "lock"
    /\ \/ /\ flipLock = <<>>
          /\ flipLock' = <<a, "select">>
          /\ SelectGoes(a, "previous")
       \/ /\ flipLock # <<>>
          /\ SelectGoes(a, "failed")
          /\ UNCHANGED flipLock
    /\ UNCHANGED <<records, trees, lock, stimd, boots, left, torn>>

\* flipStaged: a stimd holds both locks for this process.
SelectStaged(a) ==
    /\ select[a].at = "staged"
    /\ LET refused == ~staged.restore /\ SchemaRefuses(staged.dir)
       IN  IF staged.dir # select[a].build
           THEN SelectGoes(a, "refused") /\ UNCHANGED <<staged, schema>>
           ELSE IF refused
           THEN SelectGoes(a, "refused") /\ staged' = NotStaged /\ UNCHANGED schema
           ELSE /\ select' = [select EXCEPT ![a] = [@ EXCEPT !.at = "previous", !.by = staged.by,
                                                             !.from = current.dir]]
                /\ schema' = IF staged.restore THEN SchemaOf[staged.dir] ELSE schema
                /\ UNCHANGED staged
    /\ UNCHANGED <<current, previous, bad, launcher, trees, locks, stimd, boots, left, torn>>

\* flip: `previous`, then current.json, then the removal of staged.json, then
\* the launchers, each a file of its own.
WritePrevious(a) ==
    /\ select[a].at = "previous"
    /\ previous' = IF select[a].from # select[a].build THEN select[a].from ELSE previous
    /\ SelectGoes(a, "current")
    /\ UNCHANGED <<current, staged, bad, launcher, schema, trees, locks, stimd, boots, left, torn>>

\* use and rollback pin the build; use without a target names the current one
\* and keeps its pin or the lack of one.
Pins(build, by) ==
    {by \in {"use", "rollback"}}
    \cup {pinned \in BOOLEAN : by = "use" /\ build = current.dir /\ pinned = current.pinned}

WriteCurrent(a) ==
    /\ select[a].at = "current"
    /\ \E pinned \in Pins(select[a].build, select[a].by) :
           current' = [dir |-> select[a].build, pinned |-> pinned, by |-> select[a].by]
    /\ SelectGoes(a, "unstage")
    /\ UNCHANGED <<previous, staged, bad, launcher, schema, trees, locks, stimd, boots, left, torn>>

\* Whatever is staged goes.
RemoveStaged(a) ==
    /\ select[a].at = "unstage"
    /\ staged' = NotStaged
    /\ flipLock' = IF flipLock = <<a, "select">> THEN <<>> ELSE flipLock
    /\ SelectGoes(a, "launchers")
    /\ UNCHANGED <<current, previous, bad, launcher, schema, trees, lock, stimd, boots, left, torn>>

\* The launchers; migrateHomes then raises the schema, and the store is
\* collected.
WriteLaunchers(a) ==
    /\ select[a].at = "launchers"
    /\ launcher' = select[a].build
    /\ IF SchemaRefuses(select[a].build)
       THEN SelectGoes(a, "failed") /\ UNCHANGED <<schema, trees>>
       ELSE /\ schema' = SchemaOf[select[a].build]
            /\ trees' = trees \cap Kept(current, staged)
            /\ SelectGoes(a, "flipped")
    /\ UNCHANGED <<current, previous, staged, bad, locks, stimd, boots, left, torn>>

SelectStep(a) ==
    \/ SelectCheck(a) \/ SelectTestFails(a) \/ SelectStage(a) \/ SelectMoves(a) \/ SelectLock(a)
    \/ SelectStaged(a) \/ WritePrevious(a) \/ WriteCurrent(a) \/ RemoveStaged(a)
    \/ WriteLaunchers(a)

-----------------------------------------------------------------------------
(***************************************************************************)
(* Deaths                                                                  *)
(***************************************************************************)

Working(a) == select[a].at # None /\ ~Ended(a)

\* It was between two writes of a flip.
Tears(a) == torn' = [w \in FlipWrites |-> IF select[a].at = w THEN torn[w] + 1 ELSE torn[w]]

\* The engine-select process is killed; its parent sees it fail.
KillSelect(a) ==
    /\ Working(a)
    /\ left.kills > 0
    /\ left' = [left EXCEPT !.kills = @ - 1]
    /\ flipLock' = IF flipLock = <<a, "select">> THEN <<>> ELSE flipLock
    /\ SelectGoes(a, "failed")
    /\ Tears(a)
    /\ UNCHANGED <<records, trees, lock, stimd, boots>>

\* A process is killed together with the engine-select it started, by the
\* terminal, the service manager or a machine that stops; the locks go free.
Dies(a) ==
    /\ left.kills > 0
    /\ left' = [left EXCEPT !.kills = @ - 1]
    /\ select' = [select EXCEPT ![a] = NoSelect]
    /\ lock' = IF lock = a THEN NoOne ELSE lock
    /\ flipLock' = IF flipLock # <<>> /\ flipLock[1] = a THEN <<>> ELSE flipLock
    /\ Tears(a)

\* A stimd is killed.  No boot is marked abnormal.
KillStimd(h) ==
    /\ stimd[h].st # "off"
    /\ Dies(h)
    /\ stimd' = [stimd EXCEPT ![h] = Off]
    /\ UNCHANGED <<records, trees, boots>>

\* A promoting command is killed.
KillCommand(c) ==
    /\ lock = c
    /\ Dies(c)
    /\ UNCHANGED <<records, trees, stimd, boots>>

-----------------------------------------------------------------------------

Admission(h) == ProbeFlipLock(h) \/ ReleaseProbe(h) \/ Admit(h) \/ AdmitLate(h)

Follow(h) == CheckEngine(h) \/ TakeLock(h) \/ TakeFlipLock(h) \/ CheckAgain(h) \/ FlipEnds(h)

Hold(h) == HoldLock(h) \/ HoldMoved(h) \/ HoldMark(h) \/ HoldEnds(h)

Next ==
    \/ \E h \in Homes :
           \/ Launch(h) \/ OpBegin(h) \/ Admission(h) \/ OpWait(h) \/ OpLeaves(h)
           \/ OpResume(h) \/ OpEnd(h) \/ HostedBegin(h) \/ HostedEnd(h) \/ Follow(h) \/ Relaunch(h)
           \/ Successor(h) \/ Shutdown(h) \/ Crash(h) \/ ForgetBoots(h) \/ Hold(h)
           \/ KillStimd(h)
    \/ \E c \in Commands : Promote(c) \/ PromoteEnds(c) \/ KillCommand(c)
    \/ \E a \in Actors : SelectStep(a) \/ KillSelect(a)
    \/ Collect

Spec == Init /\ [][Next]_vars

\* Processes go on; admitted and hosted work ends; a stimd ticks.  A stimd tries
\* for the locks on every tick: a lock that is free again and again is not held
\* by another at each of its tries.
Fairness ==
    /\ \A h \in Homes :
           /\ WF_vars(Admission(h)) /\ WF_vars(OpEnd(h)) /\ WF_vars(HostedEnd(h))
           /\ WF_vars(Follow(h)) /\ WF_vars(Hold(h))
           /\ SF_vars(CheckEngine(h) /\ stimd'[h].chk = "lock" /\ lock = NoOne)
           /\ SF_vars(TakeLock(h) /\ lock' = h) /\ SF_vars(TakeFlipLock(h) /\ lock' = h)
           /\ WF_vars(Relaunch(h)) /\ WF_vars(Successor(h))
    /\ \A c \in Commands : WF_vars(PromoteEnds(c))
    /\ \A a \in Actors : WF_vars(SelectStep(a))

FairSpec == Spec /\ Fairness

-----------------------------------------------------------------------------
(***************************************************************************)
(* Properties                                                              *)
(***************************************************************************)

\* A command works on a build, under that build's stimd.
WorksOn(build, ops) == \E h \in Claims(build) : stimd[h].op \in ops

\* A stimd that hands its build's engine to the staged build takes it away
\* from no operation that was admitted: admit records the work and then sees
\* the flip lock free, the flipping stimd takes the lock and then reads every
\* record.
DrainedSwitch ==
    [][\A h \in Homes :
           select[h].flip /\ select[h].at = "current" /\ current.dir = stimd[h].build /\ current' # current
             => ~WorksOn(current.dir, {"run"})]_vars

\* At most one flip was killed between two of its writes.
TornOnce == torn["current"] + torn["unstage"] + torn["launchers"] <= 1

\* Whatever the records name can be started: the engine's build, the staged
\* one, and the previous one a crash loop goes back to; and no stimd that is up
\* loses its tree to a collection.  The build the launchers start is there too,
\* though keptEntries does not name it, until two flips have been killed
\* between their writes.
RecordsInStore ==
    /\ current.dir \in trees
    /\ {previous, staged.dir} \subseteq trees \cup {0}
    /\ \A h \in Homes : stimd[h].st \in {"boot", "up"} => stimd[h].build \in trees
    /\ TornOnce => launcher \in trees

\* The engine leaves a build on its own only for a newer one that is not at or
\* below one marked bad, whether it is flipped at once or long after it was
\* staged, and goes back only from a build that crashed: what was checked when
\* a build was staged still holds when it is flipped.  Not so once a flip was
\* killed after it wrote current.json and before it removed staged.json.
StagedStillRight ==
    [][current'.dir # current.dir /\ torn["unstage"] = 0 =>
          /\ current'.by = "auto" => current'.dir > current.dir /\ current'.dir > NewestBad(bad)
          /\ current'.by = "hold" => current.dir \in bad]_vars

\* A staged build does not wait for ever for a stimd of the engine's build that
\* stays up: once promotions stop coming, what is staged becomes the engine's
\* build or is dropped.
StagedSettles ==
    \A h \in Homes :
        staged.dir \notin {0, current.dir} /\ h \in Claims(current.dir)
          ~> staged.dir \in {0, current.dir} \/ h \notin Claims(current.dir)
=============================================================================
