------------------------------ MODULE SimPool ------------------------------
(***************************************************************************)
(* The pool of parked simulators of packages/stim-cli/src/devices/         *)
(* sim-pool.ts and the commands around it: a removed workspace parks its   *)
(* simulator and deletes the ones over the bound, a run adopts a parked    *)
(* one or creates its own, stim gc deletes and erases parked ones and      *)
(* sweeps simulators that nothing references, and stimd shuts down those   *)
(* that were kept booted.                                                  *)
(*                                                                         *)
(* The config file holds both the slots of the workspaces and the pool.    *)
(* Each access under its lock is one step.  Native work on a parked        *)
(* simulator takes longer: it is done under the operation claim of the     *)
(* simulator, on a record that is marked with the claim, and what it did   *)
(* is written when it ends.                                                *)
(***************************************************************************)
EXTENDS Naturals, FiniteSets

CONSTANTS
    Workspaces,  \* each runs one command at a time, under its native-run lock
    Cleaners,    \* stim gc and stimd
    Devices,     \* the simulators, created or not yet
    MaxParked,   \* pool.iosParkedMax
    MaxParks,    \* how often a simulator is parked
    MaxKills     \* how many commands are killed

CONSTANTS NoDevice, NoOne, Blocked

Actors == Workspaces \cup Cleaners

ASSUME PoolAssumption ==
    /\ Workspaces \cap Cleaners = {}
    /\ NoDevice \notin Devices
    /\ {NoOne, Blocked} \cap Actors = {} /\ NoOne # Blocked
    /\ MaxParked \in Nat \ {0} /\ MaxParks \in Nat /\ MaxKills \in Nat

VARIABLES
    slot,      \* the simulator a workspace is assigned, and whether its record
               \* holds the scheme approvals written to it
    pool,      \* the parked record of a simulator
    life,      \* what CoreSimulator has
    approved,  \* the simulators that hold scheme approvals
    claim,     \* the holder of the operation claim; Blocked while unresolved
    orphan,    \* native work that outlived its command
    op,        \* what each actor is at
    replaced,  \* history: the simulators on which an operation replaced the mark
               \* of one that never ended, until approvals are written again
    parks, kills

config == <<slot, pool>>
sims == <<life, approved>>
claims == <<claim, orphan>>
budget == <<replaced, parks, kills>>
vars == <<slot, pool, life, approved, claim, orphan, op, replaced, parks, kills>>

Native == {"delete", "drop", "erase", "shutdown"}
Commands == {"none", "run", "remove", "delete", "erase", "shutdown", "orphans"}
Places == {"idle", "next", "create", "record", "park", "delete", "clear", "list", "reap",
           "claimed", "marked", "native", "acted", "settle"}

Records == [approved : BOOLEAN, mark : Actors \cup {NoOne}, since : 0 .. MaxParks]
NotParked == [approved |-> FALSE, mark |-> NoOne, since |-> 0]
Idle == [at |-> "idle", cmd |-> "none", kind |-> "none", dev |-> NoDevice, rec |-> NotParked,
         started |-> FALSE, done |-> FALSE, todo |-> {}, listed |-> {}]
Ops == [at : Places, cmd : Commands, kind : Native \cup {"none", "adopt"}, dev : Devices \cup {NoDevice},
        rec : Records, started : BOOLEAN, done : BOOLEAN, todo : SUBSET Devices, listed : SUBSET Devices]
Slots == [dev : Devices \cup {NoDevice}, approved : BOOLEAN]
NoSlot == [dev |-> NoDevice, approved |-> FALSE]

TypeOK ==
    /\ slot \in [Workspaces -> Slots]
    /\ pool \in [Devices -> Records]
    /\ life \in [Devices -> {"none", "live", "gone"}]
    /\ approved \in SUBSET Devices
    /\ claim \in [Devices -> Actors \cup {NoOne, Blocked}]
    /\ orphan \in [Devices -> {"none", "delete", "erase"}]
    /\ op \in [Actors -> Ops]
    /\ replaced \in SUBSET Devices
    /\ parks \in 0 .. MaxParks /\ kills \in 0 .. MaxKills

Init ==
    /\ slot = [w \in Workspaces |-> NoSlot]
    /\ pool = [d \in Devices |-> NotParked]
    /\ life = [d \in Devices |-> "none"]
    /\ approved = {}
    /\ claim = [d \in Devices |-> NoOne]
    /\ orphan = [d \in Devices |-> "none"]
    /\ op = [a \in Actors |-> Idle]
    /\ replaced = {}
    /\ parks = 0 /\ kills = 0

Parked(d) == pool[d].since # 0
Live == {d \in Devices : life[d] = "live"}
Assigned == {slot[w].dev : w \in Workspaces}
Referenced == {d \in Devices : Parked(d)} \cup (Assigned \ {NoDevice})

Goto(a, place) == op' = [op EXCEPT ![a].at = place]
Finish(a) == op' = [op EXCEPT ![a] = Idle]
Onward(a) == op' = [op EXCEPT ![a] = [Idle EXCEPT !.cmd = op[a].cmd, !.at = "next", !.todo = op[a].todo,
                                                  !.listed = op[a].listed]]

-----------------------------------------------------------------------------
(***************************************************************************)
(* A workspace: its run, and its removal                                   *)
(***************************************************************************)

\* withIosDeviceNameLock: one run at a time looks for a simulator to adopt, or
\* creates one.
NameLocked == \E w \in Workspaces : op[w].cmd = "run" /\ op[w].at # "create"

\* The app is installed: the scheme approvals that the record lacks go to the
\* simulator and then to the record.
Install(w) ==
    /\ op[w] = Idle /\ slot[w].dev \in Live /\ ~slot[w].approved
    /\ approved' = approved \cup {slot[w].dev}
    /\ slot' = [slot EXCEPT ![w].approved = TRUE]
    /\ replaced' = replaced \ {slot[w].dev}
    /\ UNCHANGED <<pool, life, claims, op, parks, kills>>

\* The simulator of the slot is not on this machine.
ClearMissing(w) ==
    /\ op[w] = Idle
    /\ slot[w].dev \notin Live \cup {NoDevice}
    /\ slot' = [slot EXCEPT ![w] = NoSlot]
    /\ UNCHANGED <<pool, sims, claims, op, budget>>

\* takeParkedIosSim reads the pool and lists the simulators.
Run(w) ==
    /\ op[w] = Idle /\ slot[w].dev = NoDevice /\ ~NameLocked
    /\ op' = [op EXCEPT ![w] = [Idle EXCEPT !.cmd = "run", !.at = "next",
                                            !.todo = {d \in Devices : Parked(d)},
                                            !.listed = {d \in Live : Parked(d)}]]
    /\ UNCHANGED <<config, sims, claims, budget>>

\* What an erase takes from a record.
Erased(r) == [r EXCEPT !.approved = FALSE]

\* The record as the slot takes it over: without what an operation that never
\* ended may have erased.
Adopted(r) == (IF r.mark = NoOne THEN r ELSE Erased(r)).approved

\* Mutant of Unparked: the record stays in the pool.
UnparkedKept(d) == pool

Unparked(d) == [pool EXCEPT ![d] = NotParked]

\* The record leaves the pool and enters the slot in one write.
Adopt(w) ==
    LET d == op[w].dev IN
    /\ op[w].at = "claimed" /\ op[w].kind = "adopt"
    /\ claim' = [claim EXCEPT ![d] = NoOne]
    /\ IF Parked(d) /\ slot[w].dev = NoDevice
       THEN /\ slot' = [slot EXCEPT ![w] = [dev |-> d, approved |-> Adopted(pool[d])]]
            /\ pool' = Unparked(d)
            /\ Finish(w)
       ELSE Onward(w) /\ UNCHANGED config
    /\ UNCHANGED <<sims, orphan, budget>>

NothingTaken(w) ==
    /\ op[w].at = "next" /\ op[w].cmd = "run" /\ op[w].todo = {}
    /\ op' = [op EXCEPT ![w] = [Idle EXCEPT !.cmd = "run", !.at = "create"]]
    /\ UNCHANGED <<config, sims, claims, budget>>

Create(w) ==
    /\ op[w].at = "create" /\ ~NameLocked
    /\ \E d \in Devices :
           /\ life[d] = "none"
           /\ life' = [life EXCEPT ![d] = "live"]
           /\ op' = [op EXCEPT ![w] = [@ EXCEPT !.at = "record", !.dev = d]]
    /\ UNCHANGED <<config, approved, claims, budget>>

SetDevice(w) ==
    /\ op[w].at = "record"
    /\ slot' = [slot EXCEPT ![w] = [dev |-> op[w].dev, approved |-> FALSE]]
    /\ Finish(w)
    /\ UNCHANGED <<pool, sims, claims, budget>>

\* teardownOwnedIosSim of a removed workspace, up to where it parks.
Remove(w) ==
    /\ op[w] = Idle /\ slot[w].dev \in Live
    /\ op' = [op EXCEPT ![w] = [Idle EXCEPT !.cmd = "remove", !.at = "park", !.dev = slot[w].dev]]
    /\ UNCHANGED <<config, sims, claims, budget>>

\* evictOverflow: all but the MaxParked parked last.
Overflow(records) ==
    {d \in Devices : /\ records[d].since # 0
                     /\ Cardinality({e \in Devices : records[e].since > records[d].since}) >= MaxParked}

\* parkSim: the slot's record moves to the pool in one write, whether or not the
\* simulator is still there.  What is over the bound stays in the pool until it
\* is deleted.
Park(w) ==
    LET d == op[w].dev IN
    /\ op[w].at = "park" /\ slot[w].dev = d
    /\ parks < MaxParks
    /\ parks' = parks + 1
    /\ pool' = [pool EXCEPT ![d] = [approved |-> slot[w].approved, mark |-> NoOne, since |-> parks + 1]]
    /\ slot' = [slot EXCEPT ![w] = NoSlot]
    /\ op' = [op EXCEPT ![w] = [@ EXCEPT !.at = "next", !.dev = NoDevice, !.todo = Overflow(pool'),
                                      !.listed = Overflow(pool')]]
    /\ UNCHANGED <<sims, claims, replaced, kills>>

\* It could not be parked, and is deleted instead.
ParkFails(w) ==
    /\ op[w].at = "park"
    /\ Goto(w, "delete")
    /\ UNCHANGED <<config, sims, claims, budget>>

DeleteOwn(w) ==
    LET d == op[w].dev IN
    /\ op[w].at = "delete"
    /\ life' = [life EXCEPT ![d] = "gone"]
    /\ approved' = approved \ {d}
    /\ Goto(w, "clear")
    /\ UNCHANGED <<config, claims, budget>>

DeleteOwnFails(w) ==
    /\ op[w].at = "delete"
    /\ Finish(w)
    /\ UNCHANGED <<config, sims, claims, budget>>

\* clearDevice, which leaves a slot that holds another simulator alone.
ClearOwn(w) ==
    /\ op[w].at = "clear"
    /\ slot' = [slot EXCEPT ![w] = IF @.dev = op[w].dev THEN NoSlot ELSE @]
    /\ Finish(w)
    /\ UNCHANGED <<pool, sims, claims, budget>>

-----------------------------------------------------------------------------
(***************************************************************************)
(* stim gc and stimd                                                       *)
(***************************************************************************)

\* The report reads the config, and lists the simulators later.
ReadConfig(g) ==
    /\ op[g] = Idle
    /\ \E c \in {"delete", "erase", "orphans"} :
           op' = [op EXCEPT ![g] = [Idle EXCEPT !.cmd = c, !.at = "list",
                                                !.todo = IF c = "orphans" THEN Referenced
                                                         ELSE {d \in Devices : Parked(d)}]]
    /\ UNCHANGED <<config, sims, claims, budget>>

\* findOrphanedDevices and eraseParkedDevices: the ones that are left are those
\* nothing referenced, or those that are on this machine.
List(g) ==
    /\ op[g].at = "list"
    /\ op' = [op EXCEPT ![g] = [@ EXCEPT
                  !.at = IF op[g].cmd = "orphans" THEN "reap" ELSE "next",
                  !.todo = CASE op[g].cmd = "orphans" -> Live \ op[g].todo
                             [] op[g].cmd = "erase" -> Live \cap op[g].todo
                             [] OTHER -> op[g].todo,
                  !.listed = IF op[g].cmd = "delete" THEN Live \cap op[g].todo ELSE {}]]
    /\ UNCHANGED <<config, sims, claims, budget>>

\* reap: teardownOwnedIosSim of an orphan, under no claim.
Reap(g) ==
    /\ op[g].at = "reap"
    /\ \E d \in op[g].todo :
           /\ op' = [op EXCEPT ![g].todo = @ \ {d}]
           /\ \/ /\ life' = [life EXCEPT ![d] = "gone"]
                 /\ approved' = approved \ {d}
              \/ UNCHANGED sims
    /\ UNCHANGED <<config, claims, budget>>

\* runBootedParkedPass.  Which of the parked simulators are booted and due is
\* left open.
BootedParkedPass(g) ==
    /\ op[g] = Idle
    /\ \E due \in SUBSET {d \in Devices : Parked(d)} :
           /\ due # {}
           /\ op' = [op EXCEPT ![g] = [Idle EXCEPT !.cmd = "shutdown", !.at = "next", !.todo = due]]
    /\ UNCHANGED <<config, sims, claims, budget>>

-----------------------------------------------------------------------------
(***************************************************************************)
(* One parked simulator, under its operation claim                         *)
(***************************************************************************)

\* What the command does with a simulator it comes to.  One that is listed but
\* not available is deleted.
Kinds(a, d) ==
    CASE op[a].cmd = "run" -> IF d \in op[a].listed THEN {"adopt", "delete"} ELSE {"drop"}
      [] op[a].cmd \in {"delete", "remove"} -> IF d \in op[a].listed THEN {"delete"} ELSE {"drop"}
      [] op[a].cmd = "erase" -> {"erase"}
      [] OTHER -> {"shutdown"}

Free(d) == claim[d] = NoOne

\* claimParkedOperation.
Claim(a, d) ==
    /\ op[a].at = "next" /\ d \in op[a].todo
    /\ Free(d)
    /\ claim' = [claim EXCEPT ![d] = a]
    /\ \E k \in Kinds(a, d) :
           op' = [op EXCEPT ![a] = [@ EXCEPT !.at = "claimed", !.kind = k, !.dev = d,
                                             !.todo = op[a].todo \ {d}, !.listed = op[a].listed \ {d}]]
    /\ UNCHANGED <<config, sims, orphan, budget>>

\* Another command holds the claim: the simulator is left to it.  A claim that
\* is not resolved is an error, which ends a run that would adopt or drop.
NotClaimed(a, d) ==
    /\ op[a].at = "next" /\ d \in op[a].todo
    /\ ~Free(d)
    /\ \/ op' = [op EXCEPT ![a] = [@ EXCEPT !.todo = op[a].todo \ {d}, !.listed = op[a].listed \ {d}]]
       \/ claim[d] = Blocked /\ op[a].cmd = "run" /\ Finish(a)
    /\ UNCHANGED <<config, sims, claims, budget>>

Ends(a) ==
    /\ op[a].at \in {"next", "reap"} /\ op[a].cmd # "run" /\ op[a].todo = {}
    /\ Finish(a)
    /\ UNCHANGED <<config, sims, claims, budget>>

\* Mutant of StillParked: the record is not read again under the claim.
StillParkedUnread(d) == TRUE

StillParked(d) == Parked(d)

\* settleParkedAfter reads the record again and marks it.
Mark(a) ==
    LET d == op[a].dev IN
    /\ op[a].at = "claimed" /\ op[a].kind \in Native
    /\ IF StillParked(d)
       THEN /\ op' = [op EXCEPT ![a] = [@ EXCEPT !.at = "marked", !.started = FALSE, !.done = FALSE,
                                                 !.rec = [pool[d] EXCEPT !.mark = NoOne]]]
            /\ pool' = [pool EXCEPT ![d].mark = a]
            /\ replaced' = IF pool[d].mark = NoOne THEN replaced ELSE replaced \cup {d}
            /\ UNCHANGED claim
       ELSE /\ Onward(a)
            /\ claim' = [claim EXCEPT ![d] = NoOne]
            /\ UNCHANGED <<pool, replaced>>
    /\ UNCHANGED <<slot, sims, orphan, parks, kills>>

\* markClaimChildPending, unless the command was cancelled.
ChildPending(a) ==
    /\ op[a].at = "marked"
    /\ Goto(a, "native") \/ Goto(a, "settle")
    /\ UNCHANGED <<config, sims, claims, budget>>

\* eraseStarted, on a simulator that is still there and shut down.
EraseStarts(a) ==
    /\ op[a].at = "native" /\ op[a].kind = "erase" /\ ~op[a].started
    /\ op[a].dev \in Live
    /\ op' = [op EXCEPT ![a].started = TRUE]
    /\ UNCHANGED <<config, sims, claims, budget>>

\* What simctl delete and simctl erase do.
Effect(d, kind) ==
    /\ approved' = approved \ {d}
    /\ life' = IF kind = "delete" THEN [life EXCEPT ![d] = "gone"] ELSE life

NativeActs(a) ==
    /\ op[a].at = "native" /\ op[a].dev \in Live
    /\ op[a].kind = "delete" \/ op[a].started
    /\ Effect(op[a].dev, op[a].kind)
    /\ Goto(a, "acted")
    /\ UNCHANGED <<config, claims, budget>>

\* The work ends, or fails: also after it had its effect.
NativeEnds(a) ==
    /\ op[a].at \in {"native", "acted"}
    /\ \E done \in BOOLEAN :
           /\ done => \/ op[a].at = "acted"
                      \/ op[a].kind \in {"drop", "shutdown"}
                      \/ op[a].kind = "delete" /\ op[a].dev \notin Live
           /\ op' = [op EXCEPT ![a] = [@ EXCEPT !.at = "settle", !.done = done]]
    /\ UNCHANGED <<config, sims, claims, budget>>

\* Mutant of After: an erase that failed half-way keeps what it may have taken.
AfterDone(o) ==
    CASE o.kind \in {"delete", "drop"} /\ o.done -> NotParked
      [] o.kind = "erase" /\ o.done -> Erased(o.rec)
      [] OTHER -> o.rec

\* Mutant of After: the record is parked anew.
AfterParkedAgain(o) ==
    CASE o.kind \in {"delete", "drop"} /\ o.done -> NotParked
      [] o.kind = "erase" /\ (o.done \/ o.started) -> Erased(o.rec)
      [] OTHER -> [o.rec EXCEPT !.since = @ + 1]

\* The record after the work, by what is known of it.
After(o) ==
    CASE o.kind \in {"delete", "drop"} /\ o.done -> NotParked
      [] o.kind = "erase" /\ (o.done \/ o.started) -> Erased(o.rec)
      [] OTHER -> o.rec

\* Writes what the work did, if the record is the one that was marked, and
\* gives the claim back.
Settle(a) ==
    LET d == op[a].dev IN
    /\ op[a].at = "settle"
    /\ pool' = [pool EXCEPT ![d] = IF @ = [op[a].rec EXCEPT !.mark = a] THEN After(op[a]) ELSE @]
    /\ claim' = [claim EXCEPT ![d] = NoOne]
    /\ Onward(a)
    /\ UNCHANGED <<slot, sims, orphan, budget>>

-----------------------------------------------------------------------------
(***************************************************************************)
(* Crashes                                                                 *)
(***************************************************************************)

\* Mutant of Abandoned: the pending child is not written to the claim.
AbandonedFreed(o) == NoOne

\* The claim of a command that dies: free, unless a child may still run.
Abandoned(o) == IF o.at \in {"native", "acted"} THEN Blocked ELSE NoOne

Kill(a) ==
    LET d == op[a].dev IN
    /\ kills < MaxKills /\ kills' = kills + 1
    /\ op[a] # Idle
    /\ claim' = IF d \in Devices /\ claim[d] = a THEN [claim EXCEPT ![d] = Abandoned(op[a])] ELSE claim
    /\ \/ UNCHANGED orphan
       \/ /\ op[a].at = "native"
          /\ op[a].kind = "delete" \/ op[a].started
          /\ orphan' = [orphan EXCEPT ![d] = op[a].kind]
    /\ Finish(a)
    /\ UNCHANGED <<config, sims, replaced, parks>>

\* The simctl of a dead command does its work, or ends without.
OrphanEnds(d) ==
    /\ orphan[d] # "none"
    /\ orphan' = [orphan EXCEPT ![d] = "none"]
    /\ Effect(d, orphan[d]) \/ UNCHANGED sims
    /\ UNCHANGED <<config, claim, op, budget>>

\* The claim of a dead command whose children are gone is free again.
Unblock(d) ==
    /\ claim[d] = Blocked /\ orphan[d] = "none"
    /\ claim' = [claim EXCEPT ![d] = NoOne]
    /\ UNCHANGED <<config, sims, orphan, op, budget>>

-----------------------------------------------------------------------------
Workspace(w) ==
    \/ Install(w) \/ ClearMissing(w)
    \/ Run(w) \/ Adopt(w) \/ NothingTaken(w) \/ Create(w) \/ SetDevice(w)
    \/ Remove(w) \/ Park(w) \/ ParkFails(w) \/ DeleteOwn(w) \/ DeleteOwnFails(w) \/ ClearOwn(w)

Cleaner(g) == ReadConfig(g) \/ List(g) \/ Reap(g) \/ BootedParkedPass(g)

Operation(a) ==
    \/ \E d \in Devices : Claim(a, d) \/ NotClaimed(a, d)
    \/ Ends(a)
    \/ Mark(a) \/ ChildPending(a) \/ EraseStarts(a) \/ NativeActs(a) \/ NativeEnds(a) \/ Settle(a)
    \/ Kill(a)

Next ==
    \/ \E w \in Workspaces : Workspace(w)
    \/ \E g \in Cleaners : Cleaner(g)
    \/ \E a \in Actors : Operation(a)
    \/ \E d \in Devices : OrphanEnds(d) \/ Unblock(d)

Spec == Init /\ [][Next]_vars

-----------------------------------------------------------------------------
\* A simulator is in one workspace's slot or in the pool, never in two places:
\* parking, adoption and the operations move a record under the config lock.
OnePlace ==
    \A d \in Devices :
        /\ \A v, w \in Workspaces : slot[v].dev = d /\ slot[w].dev = d => v = w
        /\ Parked(d) => d \notin Assigned

\* A simulator is worked on by one child at a time, also by the child of a
\* command that died.
OneOperation ==
    \A d \in Devices : \A a \in Actors :
        op[a].at \in {"native", "acted"} /\ op[a].dev = d =>
            /\ orphan[d] = "none"
            /\ \A b \in Actors \ {a} : ~(op[b].at \in {"native", "acted"} /\ op[b].dev = d)

\* What a slot or an unmarked pool record says of scheme approvals is true of the
\* simulator, whatever part of an erase took place, also of one whose command was
\* killed: the next run does not write approvals that are recorded.  It is not said
\* of a simulator on which a later operation replaced the mark of one that never
\* ended, which keeps the record as it was, until a run writes approvals again.
ApprovalsTrue ==
    /\ \A d \in Live \ replaced : Parked(d) /\ pool[d].mark = NoOne /\ pool[d].approved => d \in approved
    /\ \A w \in Workspaces : slot[w].dev \in Live \ replaced /\ slot[w].approved => slot[w].dev \in approved

\* A simulator that a workspace is assigned is deleted and erased by no parked
\* operation, nor by the child of one that died.
AssignedKept ==
    [][\A w \in Workspaces :
           LET d == slot[w].dev IN
           \/ d \notin Live
           \/ d \in Live' /\ (d \in approved => d \in approved')
           \/ op[w].at = "delete"
           \/ \E g \in Cleaners : op[g].at = "reap" /\ d \in op[g].todo]_vars

\* What stim gc deletes as an orphan is referenced by no workspace and is not in
\* the pool.
OrphansUnreferenced ==
    [][\A g \in Cleaners :
           op[g].at = "reap" => \A d \in (op[g].todo \ op'[g].todo) \cap Referenced : d \in Live => d \in Live']_vars

-----------------------------------------------------------------------------
(***************************************************************************)
(* Why they hold: an invariant that every step preserves                   *)
(***************************************************************************)

Working(a) == op[a].at \in {"marked", "native", "acted", "settle"}
Holding(a) == op[a].at = "claimed" \/ Working(a)

\* What exists is referenced only once it was created; a workspace that creates
\* a simulator is alone with it, and one that removes its own is assigned it.
Owned ==
    /\ \A d \in Devices : life[d] = "none" => ~Parked(d)
    /\ \A w \in Workspaces : slot[w].dev \in Devices => life[slot[w].dev] # "none"
    /\ \A w \in Workspaces : op[w].at = "record" =>
           /\ op[w].dev \in Devices /\ life[op[w].dev] # "none" /\ ~Parked(op[w].dev)
           /\ \A v \in Workspaces : slot[v].dev # op[w].dev
           /\ \A v \in Workspaces \ {w} : op[v].at = "record" => op[v].dev # op[w].dev
    /\ \A w \in Workspaces : op[w].at \in {"park", "delete"} =>
           op[w].dev \in Devices /\ slot[w].dev = op[w].dev

\* An operation holds the claim of its simulator, and from the mark on its record
\* is in the pool as it was marked.  So is that of a child that outlived its
\* command.
Holds(a) ==
    /\ Holding(a) => op[a].dev \in Devices /\ claim[op[a].dev] = a
    /\ Working(a) =>
           /\ Parked(op[a].dev)
           /\ op[a].kind \in Native /\ (op[a].started => op[a].kind = "erase")
           /\ op[a].rec.mark = NoOne
           /\ pool[op[a].dev] = [op[a].rec EXCEPT !.mark = a]

Claimed ==
    /\ \A a \in Actors : Holds(a)
    /\ \A d \in Devices : orphan[d] # "none" =>
           claim[d] = Blocked /\ Parked(d) /\ pool[d].mark # NoOne

\* Approvals that an operation took, or may have taken, it knows of.
Erasing ==
    \A a \in Actors :
        /\ Working(a) /\ op[a].dev \in Live \ replaced /\ op[a].rec.approved
        /\ op[a].dev \notin approved
        => op[a].kind = "erase" /\ op[a].started

IndInv == TypeOK /\ OnePlace /\ Owned /\ Claimed /\ ApprovalsTrue /\ Erasing
=============================================================================
