----------------------------- MODULE DeviceLease -----------------------------
(***************************************************************************)
(* Device leases: packages/stim-cli/src/engine/device-lease.ts, its grants *)
(* in policy/admission.ts, and the two users of it, a run on a physical    *)
(* device (engine/device-lease-run.ts) and the commands `stim device lock` *)
(* and `stim device unlock` (commands/device.ts).                          *)
(*                                                                         *)
(* A lease is two files: the lease file of the device, which names a       *)
(* holder, a token and an expiry, and the record in the state of the       *)
(* workspace that holds it.  Taking and releasing hold the state lock of   *)
(* the workspace throughout; raising a lease and removing an expired one   *)
(* hold the lock of the device alone, and a process may die anywhere       *)
(* between the two files.  What happens under the lock of one device is    *)
(* one read and one write or removal, so each such section is one step.    *)
(***************************************************************************)
EXTENDS Naturals, FiniteSets

CONSTANTS
    Workspaces,   \* project roots
    Devices,      \* physical devices of one platform, for one slot
    Runs,         \* the workspaces that start runs, one at a time each
    Lockers,      \* the workspaces in which the user locks and unlocks
    Declared,     \* the durations of declared leases
    RunStep,      \* leaseStepMs: how long a run holds the device at least
    MaxTime,      \* bound: the clock stops here
    MaxStarts     \* bound: number of commands and runs

ASSUME ActorsAssumption == Runs \subseteq Workspaces /\ Lockers \subseteq Workspaces

\* No root and no device id is empty.
ASSUME NamesAssumption == "" \notin Workspaces /\ "" \notin Devices

ASSUME TimesAssumption ==
    /\ RunStep \in Nat \ {0} /\ Declared \subseteq Nat \ {0}
    /\ MaxTime \in Nat /\ MaxStarts \in Nat

\* No lease is declared for longer than the longest: parseLeaseDuration refuses it.
ASSUME LongestAssumption ==
    \E m \in Declared \cup {RunStep} : \A n \in Declared \cup {RunStep} : n <= m

\* The processes: a run holds the native-run lock of its workspace, so there
\* is one per workspace; one command at a time is enough beside it.
Actors == {<<"run", w>> : w \in Runs} \cup {<<"command", w>> : w \in Lockers}

VARIABLES
    now,     \* the clock
    starts,  \* the number of commands and runs started so far
    grants,  \* the number of leases granted so far, each one a new token
    file,    \* the lease file of each device
    record,  \* what the state of each workspace records
    lock,    \* the process that holds the state lock of a workspace
    pc,      \* where each process stands
    job,     \* what it is doing and what it read
    listed   \* the lease files gc listed as expired

vars == <<now, starts, grants, file, record, lock, pc, job, listed>>

\* A token is the number of its grant.  0 stands for nobody, no token.
NoLease == [holder |-> "", token |-> 0, expires |-> 0]
NoRecord == [id |-> "", token |-> 0, kind |-> "none"]
NoJob == [dev |-> "", duration |-> 0, held |-> NoRecord, prev |-> NoRecord,
          others |-> {}, token |-> 0, kind |-> "none", stage |-> "join"]
Nobody == <<"none", "">>

MaxDuration == CHOOSE m \in Declared \cup {RunStep} : \A n \in Declared \cup {RunStep} : n <= m
Tokens == 0..MaxStarts
Kinds == {"none", "run", "declared"}
Records == [id : Devices \cup {""}, token : Tokens, kind : Kinds]
Steps == {"idle", "look", "wait", "take", "unlock", "release", "drop", "forget", "list", "others",
          "grant", "record", "using", "raiseRead", "raise", "installed"}

TypeOK ==
    /\ now \in 0..MaxTime
    /\ starts \in 0..MaxStarts
    /\ grants \in Tokens
    /\ file \in [Devices -> [holder : Workspaces \cup {""}, token : Tokens,
                             expires : 0..(MaxTime + MaxDuration)]]
    /\ record \in [Workspaces -> Records]
    /\ lock \in [Workspaces -> Actors \cup {Nobody}]
    /\ pc \in [Actors -> Steps]
    /\ job \in [Actors -> [dev : Devices \cup {""}, duration : 0..MaxDuration, held : Records,
                           prev : Records, others : SUBSET Devices, token : Tokens, kind : Kinds,
                           stage : {"join", "before", "after"}]]
    /\ listed \subseteq Devices

Init ==
    /\ now = 0
    /\ starts = 0
    /\ grants = 0
    /\ file = [d \in Devices |-> NoLease]
    /\ record = [w \in Workspaces |-> NoRecord]
    /\ lock = [w \in Workspaces |-> Nobody]
    /\ pc = [a \in Actors |-> "idle"]
    /\ job = [a \in Actors |-> NoJob]
    /\ listed = {}

Root(a) == a[2]
IsRun(a) == a[1] = "run"

Goto(a, step) == pc' = [pc EXCEPT ![a] = step]

\* The process ends, or the state lock goes with the call that took it.
Finish(a) == Goto(a, "idle") /\ job' = [job EXCEPT ![a] = NoJob]
Unlocked(a) == [lock EXCEPT ![Root(a)] = Nobody]

\* leaseIsExpired; a missing lease counts as one.
Expired(lease) == lease.expires <= now

Mine(a, lease) == lease.token # 0 /\ lease.holder = Root(a)

-----------------------------------------------------------------------------
(***************************************************************************)
(* A command or a run begins                                               *)
(***************************************************************************)

Start(a) ==
    /\ a \in Actors /\ pc[a] = "idle"
    /\ starts < MaxStarts
    /\ starts' = starts + 1

\* runLock: `stim device lock` for a declared time.
DeviceLock(w, d, duration) ==
    LET a == <<"command", w>> IN
    /\ Start(a)
    /\ job' = [job EXCEPT ![a] = [NoJob EXCEPT !.dev = d, !.duration = duration, !.kind = "declared"]]
    /\ Goto(a, "wait")
    /\ UNCHANGED <<now, grants, file, record, lock, listed>>

\* runUnlock, and stop: releaseWorkspaceLeases.
DeviceUnlock(w) ==
    LET a == <<"command", w>> IN
    /\ Start(a)
    /\ Goto(a, "unlock")
    /\ UNCHANGED <<now, grants, file, record, lock, job, listed>>

\* acquireRunLease: refused while the workspace leases another device.  The
\* record read here stays with the run however long it waits.
StartRun(w, d) ==
    LET a == <<"run", w>>
        other == record[w].id # "" /\ record[w].id # d
        leased == other /\ file[record[w].id].token = record[w].token /\ ~Expired(file[record[w].id])
    IN
    /\ Start(a)
    /\ ~leased
    /\ job' = [job EXCEPT ![a] = [NoJob EXCEPT !.dev = d, !.duration = RunStep, !.kind = "run",
                                               !.held = IF other THEN NoRecord ELSE record[w]]]
    /\ Goto(a, "look")
    /\ UNCHANGED <<now, grants, file, record, lock, listed>>

-----------------------------------------------------------------------------
(***************************************************************************)
(* acquireRunLease and waitForDevice                                       *)
(***************************************************************************)

\* A lease under the recorded token is the run's own, expired or not unless the
\* user declared it: it is raised.  Otherwise the run waits for the device.
Look(a) ==
    LET lease == file[job[a].dev]
        held == job[a].held
        own == lease.token # 0 /\ lease.token = held.token /\ (held.kind = "run" \/ ~Expired(lease))
    IN
    /\ pc[a] = "look"
    /\ Goto(a, IF own THEN "raiseRead" ELSE "wait")
    /\ UNCHANGED <<now, starts, grants, file, record, lock, job, listed>>

\* waitForDevice answers free, or ours: a command takes a lease of its own.
DeviceFree(a) ==
    /\ pc[a] = "wait"
    /\ Expired(file[job[a].dev]) \/ (Mine(a, file[job[a].dev]) /\ ~IsRun(a))
    /\ Goto(a, "take")
    /\ UNCHANGED <<now, starts, grants, file, record, lock, job, listed>>

\* A run refuses a lease of its workspace that it has no record of, both refuse
\* after the deadline, and --no-wait goes on without a lease.
GiveUp(a) ==
    /\ pc[a] = "wait"
    /\ ~Expired(file[job[a].dev])
    /\ Mine(a, file[job[a].dev]) => IsRun(a)
    /\ Finish(a)
    /\ UNCHANGED <<now, starts, grants, file, record, lock, listed>>

-----------------------------------------------------------------------------
(***************************************************************************)
(* takeLease, releaseRunLease and releaseWorkspaceLeases, under the state  *)
(* lock of the workspace                                                   *)
(***************************************************************************)

\* withHolderLock, and the record that is read first.  A lease of another
\* device is released before the new one is taken; the end of a run releases
\* nothing but a run lease.
Drops(a) ==
    \/ pc[a] = "take" /\ record[Root(a)].id \notin {"", job[a].dev}
    \/ pc[a] = "unlock" /\ record[Root(a)].id # ""
    \/ pc[a] = "release" /\ record[Root(a)].kind = "run"

LockHolder(a) ==
    /\ pc[a] \in {"take", "unlock"} \/ Drops(a)
    /\ lock[Root(a)] = Nobody
    /\ lock' = [lock EXCEPT ![Root(a)] = a]
    /\ job' = [job EXCEPT ![a].prev = record[Root(a)]]
    /\ Goto(a, IF Drops(a) THEN "drop" ELSE "list")
    /\ UNCHANGED <<now, starts, grants, file, record, listed>>

NothingToRelease(a) ==
    /\ pc[a] = "release"
    /\ lock[Root(a)] = Nobody
    /\ ~Drops(a)
    /\ Finish(a)
    /\ UNCHANGED <<now, starts, grants, file, record, lock, listed>>

\* releaseHeld: the lease file, if it still carries the recorded token, ...
DropHeld(a) ==
    LET d == job[a].prev.id IN
    /\ pc[a] = "drop"
    /\ file' = IF file[d].token = job[a].prev.token THEN [file EXCEPT ![d] = NoLease] ELSE file
    /\ Goto(a, "forget")
    /\ UNCHANGED <<now, starts, grants, record, lock, job, listed>>

\* ... and then the record.  releaseRunLease ends here.
ForgetHeld(a) ==
    LET ends == IsRun(a) /\ job[a].dev = "" IN
    /\ pc[a] = "forget"
    /\ record' = IF record[Root(a)].token = job[a].prev.token
                 THEN [record EXCEPT ![Root(a)] = NoRecord] ELSE record
    /\ Goto(a, IF ends THEN "idle" ELSE "list")
    /\ job' = IF ends THEN [job EXCEPT ![a] = NoJob] ELSE job
    /\ lock' = IF ends THEN Unlocked(a) ELSE lock
    /\ UNCHANGED <<now, starts, grants, file, listed>>

\* Mutants of Displaced: an unlock gives up the recorded lease only; taking a
\* device gives up the recorded lease only.
DisplacedByLock(a) == {d \in Devices : Mine(a, file[d]) /\ job[a].dev \notin {"", d}}
DisplacedByUnlock(a) == {d \in Devices : Mine(a, file[d]) /\ job[a].dev = ""}

\* displacedLeases, and the listing of releaseWorkspaceLeases: the leases of the
\* workspace on other devices, recorded or not; all of them for an unlock.
Displaced(a) == {d \in Devices : Mine(a, file[d]) /\ job[a].dev # d}

ListOwn(a) ==
    /\ pc[a] = "list"
    /\ job' = [job EXCEPT ![a].others = Displaced(a)]
    /\ Goto(a, "others")
    /\ UNCHANGED <<now, starts, grants, file, record, lock, listed>>

\* releaseByRoot: each one, if the workspace still holds it.
DropOther(a, d) ==
    /\ pc[a] = "others"
    /\ d \in job[a].others
    /\ file' = IF Mine(a, file[d]) THEN [file EXCEPT ![d] = NoLease] ELSE file
    /\ job' = [job EXCEPT ![a].others = @ \ {d}]
    /\ UNCHANGED <<now, starts, grants, record, lock, pc, listed>>

OthersDropped(a) ==
    /\ pc[a] = "others"
    /\ job[a].others = {}
    /\ Goto(a, IF job[a].dev = "" THEN "idle" ELSE "grant")
    /\ job' = IF job[a].dev = "" THEN [job EXCEPT ![a] = NoJob] ELSE job
    /\ lock' = IF job[a].dev = "" THEN Unlocked(a) ELSE lock
    /\ UNCHANGED <<now, starts, grants, file, record, listed>>

\* leaseGrant: a lease that another workspace holds is refused, and the process
\* waits again.
Held(a) ==
    /\ pc[a] = "grant"
    /\ ~Expired(file[job[a].dev]) /\ ~Mine(a, file[job[a].dev])
    /\ lock' = Unlocked(a)
    /\ Goto(a, IF IsRun(a) THEN "look" ELSE "wait")
    /\ UNCHANGED <<now, starts, grants, file, record, job, listed>>

\* A free one is taken under a new token, ...
Taken(a) ==
    LET d == job[a].dev IN
    /\ pc[a] = "grant"
    /\ Expired(file[d])
    /\ grants' = grants + 1
    /\ file' = [file EXCEPT ![d] = [holder |-> Root(a), token |-> grants + 1,
                                    expires |-> now + job[a].duration]]
    /\ job' = [job EXCEPT ![a].token = grants + 1]
    /\ Goto(a, "record")
    /\ UNCHANGED <<now, starts, record, lock, listed>>

WasDeclared(a) == job[a].prev.kind = "declared" /\ job[a].prev.id = job[a].dev

Later(s, t) == IF s < t THEN t ELSE s

\* Mutants of SetTo: the lease is set to what is asked for; what is asked for
\* is added to what is left.
SetToAsked(a) == now + job[a].duration
SetToSum(a) == file[job[a].dev].expires + job[a].duration

\* A run on a declared lease never shortens it.
SetTo(a) ==
    LET asked == now + job[a].duration
    IN  IF WasDeclared(a) /\ job[a].kind = "run" THEN Later(asked, file[job[a].dev].expires) ELSE asked

\* ... and a lease of the workspace itself is set to a new expiry.
Set(a) ==
    LET d == job[a].dev IN
    /\ pc[a] = "grant"
    /\ ~Expired(file[d]) /\ Mine(a, file[d])
    /\ file' = [file EXCEPT ![d].expires = SetTo(a)]
    /\ job' = [job EXCEPT ![a].token = file[d].token,
                          ![a].kind = IF WasDeclared(a) THEN "declared" ELSE @]
    /\ Goto(a, "record")
    /\ UNCHANGED <<now, starts, grants, record, lock, listed>>

\* writeHolder, the last step under the state lock.  Of what it read the run
\* keeps its device in mind.
RecordLease(a) ==
    /\ pc[a] = "record"
    /\ record' = [record EXCEPT ![Root(a)] = [id |-> job[a].dev, token |-> job[a].token, kind |-> job[a].kind]]
    /\ lock' = Unlocked(a)
    /\ Goto(a, IF IsRun(a) THEN "using" ELSE "idle")
    /\ job' = [job EXCEPT ![a] = [NoJob EXCEPT !.dev = IF IsRun(a) THEN job[a].dev ELSE ""]]
    /\ UNCHANGED <<now, starts, grants, file, listed>>

-----------------------------------------------------------------------------
(***************************************************************************)
(* raiseLease: a run joins the lease of an earlier command, and keeps the  *)
(* device for long enough before and after it installs                     *)
(***************************************************************************)

\* raiseLeaseFor, called before the install and around every later step.
StartRaise(a) ==
    /\ pc[a] \in {"using", "installed"}
    /\ job' = [job EXCEPT ![a].stage = IF pc[a] = "using" THEN "before" ELSE "after"]
    /\ Goto(a, "raiseRead")
    /\ UNCHANGED <<now, starts, grants, file, record, lock, listed>>

\* The record of the workspace, read without the state lock.
ReadRecord(a) ==
    /\ pc[a] = "raiseRead"
    /\ job' = [job EXCEPT ![a].prev = record[Root(a)]]
    /\ Goto(a, "raise")
    /\ UNCHANGED <<now, starts, grants, file, record, lock, listed>>

\* leaseRaise is not lost, and there is a record at all.
StillHeld(a) == job[a].prev.id # "" /\ file[job[a].prev.id].token = job[a].prev.token

Raised(a) ==
    LET d == job[a].prev.id IN
    /\ pc[a] = "raise"
    /\ StillHeld(a)
    /\ file' = [file EXCEPT ![d].expires = Later(@, now + RunStep)]
    /\ Goto(a, IF job[a].stage = "join" THEN "using" ELSE "installed")
    /\ job' = [job EXCEPT ![a] = [NoJob EXCEPT !.dev = job[a].dev]]
    /\ UNCHANGED <<now, starts, grants, record, lock, listed>>

\* Lost: a run that joins waits for the device, one that has not installed
\* fails, and one that has goes on without a lease until its end.
RaiseLost(a) ==
    /\ pc[a] = "raise"
    /\ ~StillHeld(a)
    /\ Goto(a, IF job[a].stage = "join" THEN "wait" ELSE "release")
    /\ job' = [job EXCEPT ![a] = IF job[a].stage = "join" THEN @ ELSE NoJob]
    /\ UNCHANGED <<now, starts, grants, file, record, lock, listed>>

\* The run ends, fails or is aborted: releaseLeaseOnAbort and the release in
\* every exit path.
EndRun(a) ==
    /\ pc[a] \in {"using", "installed"}
    /\ job' = [job EXCEPT ![a] = NoJob]
    /\ Goto(a, "release")
    /\ UNCHANGED <<now, starts, grants, file, record, lock, listed>>

-----------------------------------------------------------------------------
(***************************************************************************)
(* The world: a process is killed and its locks become stale, time passes, *)
(* `stim gc` and the background service remove expired leases              *)
(***************************************************************************)

Kill(a) ==
    /\ pc[a] # "idle"
    /\ lock' = [w \in Workspaces |-> IF lock[w] = a THEN Nobody ELSE lock[w]]
    /\ Finish(a)
    /\ UNCHANGED <<now, starts, grants, file, record, listed>>

Tick ==
    /\ now < MaxTime
    /\ now' = now + 1
    /\ UNCHANGED <<starts, grants, file, record, lock, pc, job, listed>>

ListExpired ==
    /\ listed = {}
    /\ listed' = {d \in Devices : file[d].token # 0 /\ Expired(file[d])}
    /\ UNCHANGED <<now, starts, grants, file, record, lock, pc, job>>

\* Mutant of DropExpired: the listing is trusted.
DropListed(d) ==
    /\ d \in listed
    /\ file' = [file EXCEPT ![d] = NoLease]
    /\ listed' = listed \ {d}
    /\ UNCHANGED <<now, starts, grants, record, lock, pc, job>>

\* removeExpiredLease: read again under the lock of the device.
DropExpired(d) ==
    /\ d \in listed
    /\ file' = IF Expired(file[d]) THEN [file EXCEPT ![d] = NoLease] ELSE file
    /\ listed' = listed \ {d}
    /\ UNCHANGED <<now, starts, grants, record, lock, pc, job>>

Step(a) ==
    \/ Look(a) \/ DeviceFree(a) \/ GiveUp(a)
    \/ LockHolder(a) \/ NothingToRelease(a) \/ DropHeld(a) \/ ForgetHeld(a)
    \/ ListOwn(a) \/ (\E d \in Devices : DropOther(a, d)) \/ OthersDropped(a)
    \/ Held(a) \/ Taken(a) \/ Set(a) \/ RecordLease(a)
    \/ StartRaise(a) \/ ReadRecord(a) \/ Raised(a) \/ RaiseLost(a) \/ EndRun(a)
    \/ Kill(a)

Next ==
    \/ \E w \in Workspaces : DeviceUnlock(w)
    \/ \E w \in Workspaces, d \in Devices, duration \in Declared : DeviceLock(w, d, duration)
    \/ \E w \in Workspaces, d \in Devices : StartRun(w, d)
    \/ \E a \in Actors : Step(a)
    \/ Tick \/ ListExpired \/ \E d \in Devices : DropExpired(d)

Spec == Init /\ [][Next]_vars

-----------------------------------------------------------------------------
(***************************************************************************)
(* Properties                                                              *)
(***************************************************************************)

\* A workspace never holds two devices, whatever process dies between the
\* lease file and the record: takeLease gives up the leases it finds on other
\* devices, recorded or not, before it is granted one.
OneLeasePerWorkspace ==
    \A d, e \in Devices : file[d].token # 0 /\ file[e].token # 0 /\ file[d].holder = file[e].holder => d = e

ActorStep(a) == pc'[a] # pc[a] \/ job'[a] # job[a]

\* While it is unexpired a lease is removed, replaced or given another expiry
\* by a process of the workspace that holds it only: a listing of gc, a record
\* or a look at the device that has become stale never costs the holder its
\* device, and never extends the lease of another.
LeaseKept ==
    [][\A d \in Devices :
          ~Expired(file[d]) /\ file'[d] # file[d] =>
              \E a \in Actors : Root(a) = file[d].holder /\ ActorStep(a)]_vars

\* A run never shortens or gives up the lease its user declared on its device,
\* also when the declaration comes between its look at the device and its
\* grant.
DeclaredKept ==
    [][\A w \in Runs, d \in Devices :
          LET a == <<"run", w>>
              declared == record[w].id = d /\ record[w].kind = "declared" /\ record[w].token = file[d].token
          IN  declared /\ ~Expired(file[d]) /\ ActorStep(a) /\ job[a].dev \in {"", d} =>
                  file'[d].token = file[d].token /\ file'[d].expires >= file[d].expires]_vars

\* `stim device unlock` and stop leave the workspace neither a lease nor a
\* record of one, also after a process died between the two.
UnlockReleases ==
    [][\A w \in Lockers :
          LET a == <<"command", w>> IN
          pc[a] = "others" /\ job[a].dev = "" /\ job[a].others = {} /\ pc'[a] = "idle" =>
              record'[w] = NoRecord /\ \A d \in Devices : file'[d].holder # w]_vars

\* What leaseRaise promises: a run that may install holds the lease of the
\* device it installs on.
RunHoldsDevice ==
    [][\A w \in Runs :
          LET a == <<"run", w>> IN
          pc[a] = "raise" /\ pc'[a] = "installed" =>
              file'[job[a].dev].holder = w /\ file'[job[a].dev].expires > now]_vars

-----------------------------------------------------------------------------
(***************************************************************************)
(* The inductive invariant behind the properties                           *)
(***************************************************************************)

Leases == [holder : Workspaces \cup {""}, token : Nat, expires : Nat]
LeaseRecords == [id : Devices \cup {""}, token : Nat, kind : Kinds]
Jobs == [dev : Devices \cup {""}, duration : Nat, held : LeaseRecords, prev : LeaseRecords,
         others : SUBSET Devices, token : Nat, kind : Kinds, stage : {"join", "before", "after"}]

\* TypeOK without the bounds.
Typed ==
    /\ now \in Nat /\ grants \in Nat
    /\ file \in [Devices -> Leases]
    /\ record \in [Workspaces -> LeaseRecords]
    /\ lock \in [Workspaces -> Actors \cup {Nobody}]
    /\ pc \in [Actors -> Steps]
    /\ job \in [Actors -> Jobs]

\* What runs under the state lock.
Transaction == {"drop", "forget", "list", "others", "grant", "record"}
Locked == \A a \in Actors : pc[a] \in Transaction => lock[Root(a)] = a

\* A lease file without a token is none, and so is a record without a device.
WholeFiles == \A d \in Devices : file[d].token = 0 => file[d] = NoLease
WholeRecords == \A w \in Workspaces : /\ record[w].id = "" => record[w] = NoRecord
                                      /\ record[w].id # "" => record[w].token # 0
WholeJobs == \A a \in Actors : /\ job[a].prev.id # "" => job[a].prev.token # 0
                               /\ pc[a] = "record" => job[a].token # 0
Whole == WholeFiles /\ WholeRecords /\ WholeJobs

\* A token is drawn once: it is on one file, and where else it is known, it is
\* known to the workspace that holds that file.
Drawn(w, t) == t <= grants /\ \A d \in Devices : file[d].token = t /\ t # 0 => file[d].holder = w

TokensUnique ==
    /\ \A d \in Devices : file[d].token <= grants
    /\ \A d, e \in Devices : file[d].token = file[e].token /\ file[d].token # 0 => d = e
    /\ \A w \in Workspaces : Drawn(w, record[w].token)
    /\ \A a \in Actors : Drawn(Root(a), job[a].prev.token) /\ Drawn(Root(a), job[a].token)

\* What a process in a transaction knows of the record of its workspace.
RecordKnownTo(a) ==
    /\ pc[a] \in {"drop", "forget"} => record[Root(a)] = job[a].prev
    /\ pc[a] \in {"list", "others", "grant", "record"} => record[Root(a)] \in {job[a].prev, NoRecord}
    /\ pc[a] \in {"list", "others"} /\ job[a].dev = "" => record[Root(a)] = NoRecord

\* What it knows of the leases of its workspace.
OthersKnownTo(a) ==
    \A d \in Devices :
        Mine(a, file[d]) /\ d # job[a].dev =>
            pc[a] \notin {"grant", "record"} /\ (pc[a] = "others" => d \in job[a].others)

\* What a process is about, from where it stands.
PurposeOf(a) ==
    /\ pc[a] \in {"look", "wait", "take", "grant", "record", "using", "raiseRead", "raise", "installed"} =>
          job[a].dev # ""
    /\ pc[a] \in {"unlock", "release"} => job[a].dev = ""
    /\ pc[a] = "idle" => job[a] = NoJob
    /\ pc[a] \in {"look", "raiseRead", "raise", "using", "installed", "release"} => IsRun(a)
    /\ pc[a] = "unlock" => ~IsRun(a)
    /\ pc[a] \in {"list", "others"} /\ IsRun(a) => job[a].dev # ""
    /\ pc[a] \in {"look", "wait", "take", "drop", "forget", "list", "others", "grant"}
          /\ IsRun(a) /\ job[a].dev # "" => job[a].kind = "run"
    /\ pc[a] \in {"raiseRead", "raise"} /\ job[a].stage = "join" => job[a].kind = "run"
    /\ pc[a] = "drop" /\ job[a].dev = "" /\ IsRun(a) => job[a].prev.kind = "run"
    /\ pc[a] = "drop" => job[a].prev.id # job[a].dev
    /\ job[a].dev \notin job[a].others

RecordKnown == \A a \in Actors : RecordKnownTo(a)
OthersKnown == \A a \in Actors : OthersKnownTo(a)
Purpose == \A a \in Actors : PurposeOf(a)

IndInv == Typed /\ Locked /\ Whole /\ TokensUnique /\ RecordKnown /\ OthersKnown /\ Purpose
          /\ OneLeasePerWorkspace
=============================================================================
