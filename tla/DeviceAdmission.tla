--------------------------- MODULE DeviceAdmission ---------------------------
(***************************************************************************)
(* Device boot admission: withDeviceBootAdmission and what it calls in     *)
(* packages/stim-cli/src/engine/device-capacity.ts, with the boots that    *)
(* engine/device-ios.ts and engine/device-android.ts run under it.         *)
(*                                                                         *)
(* A run boots its simulator or emulator only while the booted devices     *)
(* stay under the caps.  Nothing counts the devices for it: a run reads    *)
(* the config, the boot markers, the simulators and the emulators one      *)
(* after the other while devices come and go, under a lock that only the   *)
(* counting runs take, and holds a marker until its own boot is over.      *)
(* Markers, tickets and the lock are ownership claims: taking one is       *)
(* atomic and the one of a dead process is not seen.                       *)
(***************************************************************************)
EXTENDS Naturals, FiniteSets, Sequences, Functions

CONSTANTS
    Runs,           \* withDeviceBootAdmission calls
    Devices,        \* the owned devices they boot
    DeviceOf,       \* the device of each run
    Fresh,          \* the runs that create their device first
    Android,        \* the devices that are emulators; the others are simulators
    MaxDevices,     \* concurrency.maxDevices, or the derived cap
    PlatformMax,    \* the per-platform caps, 0 for none
    BootsInFlight,  \* BOOTS_IN_FLIGHT
    Hindrances,     \* whether listings may fail, memory be short, boots be left behind
    NoRun

Platforms == {"ios", "android"}

ASSUME DevicesAssumption ==
    /\ IsFiniteSet(Runs) /\ IsFiniteSet(Devices) /\ Android \subseteq Devices
    /\ DeviceOf \in [Runs -> Devices] /\ Fresh \subseteq Runs /\ NoRun \notin Runs

\* A run boots an emulator only after it found it down, in its own workspace.
ASSUME EmulatorsAssumption ==
    \A r, s \in Runs : DeviceOf[r] = DeviceOf[s] /\ (DeviceOf[r] \in Android \/ r \in Fresh) => r = s

\* admissionLimits derives a cap when the setting is 0.
ASSUME CapsAssumption ==
    /\ MaxDevices \in Nat \ {0} /\ BootsInFlight \in Nat \ {0}
    /\ PlatformMax \in [Platforms -> Nat]

ASSUME FlagsAssumption == Hindrances \in BOOLEAN

VARIABLES
    dev,      \* each device: off, spawned (its boot is not listed yet) or live
    port,     \* the emulators whose console port the config records
    marker,   \* the keys under which each run's boot markers count it
    queue,    \* the waiting runs, in the order of their tickets
    lock,     \* the run that holds the device-admission lock
    listing,  \* the shared listing of the last count, while it is fresh
    memory,   \* memory pressure holds boots back
    pc,       \* where each run stands
    seen,     \* what the run that counts has read
    stray     \* history: the devices that a boot left up and out of the count

vars == <<dev, port, marker, queue, lock, listing, memory, pc, seen, stray>>

Steps == {"lock", "round", "sims", "adb", "decide", "wait",
          "create", "rekey", "port", "spawn", "boot", "booting", "done", "dead"}

Platform(d) == IF d \in Android THEN "android" ELSE "ios"

\* deviceKey and uncreatedDeviceKey: a boot counts under its device, or under
\* a key of its own until the device exists.
Uncreated(r) == <<"new", r>>
Key(d) == <<"device", d>>
Own(r) == IF r \in Fresh THEN Uncreated(r) ELSE Key(DeviceOf[r])
Keys == {Key(d) : d \in Devices} \cup {Uncreated(r) : r \in Fresh}
KeyPlatform(k) == IF k[1] = "new" THEN Platform(DeviceOf[k[2]]) ELSE Platform(k[2])

Nothing == [ahead |-> {}, config |-> {}, booting |-> {}, live |-> {}]
NoListing == [fresh |-> FALSE, live |-> {}, adb |-> FALSE]

\* booting holds one entry per marker: two runs may boot one simulator.
Inventories == [ahead : SUBSET Runs, config : SUBSET Devices,
                booting : SUBSET (Runs \X Keys), live : SUBSET Devices]

TypeOK ==
    /\ dev \in [Devices -> {"off", "spawned", "live"}]
    /\ port \subseteq Android
    /\ marker \in [Runs -> SUBSET Keys]
    /\ queue \in Seq(Runs) /\ IsInjective(queue)
    /\ lock \in Runs \cup {NoRun}
    /\ listing \in [fresh : BOOLEAN, live : SUBSET Devices, adb : BOOLEAN]
    /\ memory \in BOOLEAN
    /\ pc \in [Runs -> Steps]
    /\ seen \in Inventories
    /\ stray \subseteq Devices

Init ==
    /\ dev \in [Devices -> {"off", "live"}]
    /\ \A r \in Runs : r \in Fresh \/ DeviceOf[r] \in Android => dev[DeviceOf[r]] = "off"
    /\ port \in {ports \in SUBSET Android : \A d \in Android : dev[d] = "live" => d \in ports}
    /\ Cardinality({d \in Devices : dev[d] = "live"}) <= MaxDevices
    /\ \A p \in Platforms : PlatformMax[p] > 0 =>
           Cardinality({d \in Devices : dev[d] = "live" /\ Platform(d) = p}) <= PlatformMax[p]
    /\ marker = [r \in Runs |-> {}]
    /\ queue = <<>>
    /\ lock = NoRun
    /\ listing = NoListing
    /\ memory = FALSE
    /\ pc = [r \in Runs |-> "lock"]
    /\ seen = Nothing
    /\ stray = {}

Goto(r, step) == pc' = [pc EXCEPT ![r] = step]

-----------------------------------------------------------------------------
(***************************************************************************)
(* What a run decides from an inventory                                    *)
(***************************************************************************)

Queued(r) == r \in Range(queue)

\* releaseClaim of a run's ticket, if it has one: those behind it move up.
Without(q, r) ==
    IF r \notin Range(q) THEN q
    ELSE LET n == CHOOSE i \in DOMAIN q : q[i] = r
         IN  [i \in 1..(Len(q) - 1) |-> IF i < n THEN q[i] ELSE q[i + 1]]

\* liveWaiters before the run's own ticket, or all of them without one.
Ahead(r) == {w \in Range(queue) \ {r} :
                Queued(r) => \E i, j \in 1..Len(queue) : i < j /\ queue[i] = w /\ queue[j] = r}

\* readBootingDevices
Markers == {entry \in Runs \X Keys : entry[2] \in marker[entry[1]]}

\* liveOwnedDeviceKeys: a simulator counts when it is listed, an emulator when
\* adb lists the port the config records for it, a boot by its marker.
LiveKeys(inventory) ==
    {Key(d) : d \in {d \in inventory.live : d \in Android => d \in inventory.config}}
    \cup {entry[2] : entry \in inventory.booting}

OnPlatform(keys, p) == {k \in keys : KeyPlatform(k) = p}

\* platformCount against the cap of the platform, where one is set.
PlatformFull(keys, p) ==
    PlatformMax[p] > 0 /\ Cardinality(OnPlatform(keys, p)) >= PlatformMax[p]

\* Mutant of Full: the cap of the platform is forgotten.
FullInAll(keys, p) == Cardinality(keys) >= MaxDevices

\* deviceLimits: the cap of the platform and the cap of all devices.
Full(keys, p) == PlatformFull(keys, p) \/ Cardinality(keys) >= MaxDevices

\* The device is up, or being booted, already: the run joins without a slot.
Joins(r, inventory) ==
    \/ DeviceOf[r] \notin Android /\ Own(r) \in LiveKeys(inventory)
    \/ \E entry \in inventory.booting : entry[2] = Own(r)

OtherKeys(r, inventory) == LiveKeys(inventory) \ {Own(r)}

\* Mutant of Turn: no run waits for those ahead of it.
TurnDropped(r, inventory) == TRUE

\* Its turn, when each waiter ahead is held back by the cap of its platform.
Turn(r, inventory) ==
    \A w \in inventory.ahead : PlatformFull(OtherKeys(r, inventory), Platform(DeviceOf[w]))

\* Mutant of Bootable: only devices that are up are limited.
BootableUnbounded(r, inventory) ==
    /\ ~Full(OtherKeys(r, inventory), Platform(DeviceOf[r]))
    /\ Turn(r, inventory)

\* decide: the run boots a device of its own.
Bootable(r, inventory) ==
    /\ ~Full(OtherKeys(r, inventory), Platform(DeviceOf[r]))
    /\ Cardinality({entry \in inventory.booting : entry[2] # Own(r)}) < BootsInFlight
    /\ Turn(r, inventory)

Admissible(r, inventory) == Joins(r, inventory) \/ (Bootable(r, inventory) /\ ~memory)

\* shared: behind another waiter, a fresh listing stands in for the simulators
\* and emulators, unless it lacks the emulators that the config records.
Shared(r) == [ahead |-> Ahead(r), config |-> port, booting |-> Markers,
              live |-> {d \in listing.live : d \in Android => listing.adb}]

WaitsOnListing(r) ==
    /\ Ahead(r) # {}
    /\ listing.fresh
    /\ listing.adb \/ port = {}
    /\ ~Admissible(r, Shared(r))

-----------------------------------------------------------------------------
(***************************************************************************)
(* The rounds of withDeviceBootAdmission                                   *)
(***************************************************************************)

\* admissionTransaction: one run counts at a time; an impatient one refuses.
Lock(r) ==
    /\ pc[r] = "lock"
    /\ lock = NoRun
    /\ lock' = r
    /\ Goto(r, "round")
    /\ UNCHANGED <<dev, port, marker, queue, listing, memory, seen, stray>>

\* Mutant of Enqueue: the run joins again in every round.
EnqueueAgain(r) ==
    /\ queue' = Append(queue, r)
    /\ lock' = NoRun
    /\ seen' = Nothing
    /\ Goto(r, "wait")

\* takeWaitTicket when the run has none, and out of the lock to wait.
Enqueue(r) ==
    /\ queue' = IF Queued(r) THEN queue ELSE Append(queue, r)
    /\ lock' = NoRun
    /\ seen' = Nothing
    /\ Goto(r, "wait")

\* count: the shared listing may already say that the run has to wait.
WaitShared(r) ==
    /\ pc[r] = "round"
    /\ WaitsOnListing(r)
    /\ Enqueue(r)
    /\ UNCHANGED <<dev, port, marker, listing, memory, stray>>

\* readInventoryAsync reads the config and at once the boot markers, ...
ReadRecords(r) ==
    /\ pc[r] = "round"
    /\ ~WaitsOnListing(r)
    /\ seen' = [Nothing EXCEPT !.ahead = Ahead(r), !.config = port, !.booting = Markers]
    /\ Goto(r, "sims")
    /\ UNCHANGED <<dev, port, marker, queue, lock, listing, memory, stray>>

\* ... lists the simulators, ...
ReadSims(r) ==
    /\ pc[r] = "sims"
    /\ seen' = [seen EXCEPT !.live = {d \in Devices \ Android : dev[d] = "live"}]
    /\ Goto(r, "adb")
    /\ UNCHANGED <<dev, port, marker, queue, lock, listing, memory, stray>>

\* ... and the emulators if the config records one.  count shares the listing.
ReadAdb(r) ==
    /\ pc[r] = "adb"
    /\ LET listed == seen.live \cup {d \in Android : seen.config # {} /\ dev[d] = "live"}
       IN  /\ seen' = [seen EXCEPT !.live = listed]
           /\ listing' = [fresh |-> TRUE, live |-> listed, adb |-> seen.config # {}]
    /\ Goto(r, "decide")
    /\ UNCHANGED <<dev, port, marker, queue, lock, memory, stray>>

\* A listing that fails or times out leaves the count unknown: the run waits.
CountUnavailable(r) ==
    /\ Hindrances
    /\ pc[r] \in {"sims", "adb"}
    /\ Enqueue(r)
    /\ UNCHANGED <<dev, port, marker, listing, memory, stray>>

WaitCounted(r) ==
    /\ pc[r] = "decide"
    /\ ~Admissible(r, seen)
    /\ Enqueue(r)
    /\ UNCHANGED <<dev, port, marker, listing, memory, stray>>

\* admit: takeBootMarker, then the ticket and the lock go.
Admit(r) ==
    /\ pc[r] = "decide"
    /\ Admissible(r, seen)
    /\ marker' = [marker EXCEPT ![r] = {Own(r)}]
    /\ queue' = Without(queue, r)
    /\ lock' = NoRun
    /\ seen' = Nothing
    /\ Goto(r, IF r \in Fresh THEN "create" ELSE IF DeviceOf[r] \in Android THEN "port" ELSE "boot")
    /\ stray' = IF Joins(r, seen) THEN stray ELSE stray \ {DeviceOf[r]}
    /\ UNCHANGED <<dev, port, listing, memory>>

\* A waiting run looks at the shared listing before it queues for the lock.
Poll(r) ==
    /\ pc[r] = "wait"
    /\ ~WaitsOnListing(r)
    /\ Goto(r, "lock")
    /\ UNCHANGED <<dev, port, marker, queue, lock, listing, memory, seen, stray>>

\* The run throws inside its round or while it waits.
Refused(r) == pc[r] \in {"lock", "wait"} \/ (pc[r] = "decide" /\ ~Admissible(r, seen))

FreeLock(r) ==
    /\ lock' = IF lock = r THEN NoRun ELSE lock
    /\ seen' = IF lock = r THEN Nothing ELSE seen

\* Mutant of GiveUp: the ticket of a run that gives up stays in the queue.
GiveUpQueued(r) ==
    /\ Refused(r)
    /\ FreeLock(r)
    /\ Goto(r, "done")
    /\ UNCHANGED <<dev, port, marker, queue, listing, memory, stray>>

\* noWait, an overdue wait, a lock that stays held, an aborted run: the finally
\* block releases the ticket.
GiveUp(r) ==
    /\ Refused(r)
    /\ queue' = Without(queue, r)
    /\ FreeLock(r)
    /\ Goto(r, "done")
    /\ UNCHANGED <<dev, port, marker, listing, memory, stray>>

-----------------------------------------------------------------------------
(***************************************************************************)
(* The boot, under its marker                                              *)
(***************************************************************************)

\* Mutant of Create: rekey releases the marker before it takes the new one.
CreateUnmarked(r) ==
    /\ pc[r] = "create"
    /\ marker' = [marker EXCEPT ![r] = {}]
    /\ Goto(r, "rekey")
    /\ UNCHANGED <<dev, port, queue, lock, listing, memory, seen, stray>>

\* The device is created, and rekey takes a marker with its key ...
Create(r) ==
    /\ pc[r] = "create"
    /\ marker' = [marker EXCEPT ![r] = @ \cup {Key(DeviceOf[r])}]
    /\ Goto(r, "rekey")
    /\ UNCHANGED <<dev, port, queue, lock, listing, memory, seen, stray>>

\* ... before it releases the first one.
Rekeyed(r) ==
    /\ pc[r] = "rekey"
    /\ marker' = [marker EXCEPT ![r] = {Key(DeviceOf[r])}]
    /\ Goto(r, IF DeviceOf[r] \in Android THEN "port" ELSE "boot")
    /\ UNCHANGED <<dev, port, queue, lock, listing, memory, seen, stray>>

\* bootIosSim: simctl boot, a child process, is on its way to a simulator that
\* is down; one that is booting or booted already is waited for.
BootIosSim(r) ==
    /\ pc[r] = "boot"
    /\ dev' = [dev EXCEPT ![DeviceOf[r]] = IF @ = "off" THEN "spawned" ELSE @]
    /\ Goto(r, "booting")
    /\ UNCHANGED <<port, marker, queue, lock, listing, memory, seen, stray>>

\* claimAndroidConsolePort, then bootAndroidEmulator.
ClaimConsolePort(r) ==
    /\ pc[r] = "port"
    /\ port' = port \cup {DeviceOf[r]}
    /\ Goto(r, "spawn")
    /\ UNCHANGED <<dev, marker, queue, lock, listing, memory, seen, stray>>

BootEmulator(r) ==
    /\ pc[r] = "spawn"
    /\ dev' = [dev EXCEPT ![DeviceOf[r]] = "spawned"]
    /\ Goto(r, "booting")
    /\ UNCHANGED <<port, marker, queue, lock, listing, memory, seen, stray>>

\* The boot is over and the marker goes.
Booted(r) ==
    /\ pc[r] = "booting"
    /\ dev[DeviceOf[r]] = "live"
    /\ marker' = [marker EXCEPT ![r] = {}]
    /\ Goto(r, "done")
    /\ UNCHANGED <<dev, port, queue, lock, listing, memory, seen, stray>>

\* No listing shows the run's device yet, and no marker but the run's own.
OnlyMarked(r) ==
    /\ dev[DeviceOf[r]] = "spawned"
    /\ \A s \in Runs \ {r} : DeviceOf[s] = DeviceOf[r] => marker[s] = {}

LeftBehind(r, uncounted) ==
    /\ uncounted => Hindrances
    /\ stray' = IF uncounted THEN stray \cup {DeviceOf[r]} ELSE stray

\* A boot that throws: releaseAndroidConsolePort for an emulator, which has
\* exited or was never started, or comes up after the wait for it timed out.
BootFails(r) ==
    /\ pc[r] \in {"create", "rekey", "port", "spawn", "boot", "booting"}
    /\ port' = IF pc[r] \in {"spawn", "booting"} THEN port \ {DeviceOf[r]} ELSE port
    /\ marker' = [marker EXCEPT ![r] = {}]
    /\ Goto(r, "done")
    /\ LeftBehind(r, OnlyMarked(r) \/ (DeviceOf[r] \in Android /\ dev[DeviceOf[r]] # "off"))
    /\ UNCHANGED <<dev, queue, lock, listing, memory, seen>>

-----------------------------------------------------------------------------
(***************************************************************************)
(* The environment                                                         *)
(***************************************************************************)

\* adb lists an emulator, and simctl a simulator, some time after its boot began.
Listed(d) ==
    /\ dev[d] = "spawned"
    /\ dev' = [dev EXCEPT ![d] = "live"]
    /\ UNCHANGED <<port, marker, queue, lock, listing, memory, pc, seen, stray>>

\* stim stop, a reclaim by the daemon, a crash of the device.
Shutdown(d) ==
    /\ dev[d] # "off"
    /\ dev' = [dev EXCEPT ![d] = "off"]
    /\ UNCHANGED <<port, marker, queue, lock, listing, memory, pc, seen, stray>>

Idle(d) == \A r \in Runs : DeviceOf[r] = d => marker[r] = {}

\* A killed run: its claims name a dead process, and its boot goes on.
Kill(r) ==
    /\ pc[r] \notin {"done", "dead"}
    /\ marker' = [marker EXCEPT ![r] = {}]
    /\ queue' = Without(queue, r)
    /\ FreeLock(r)
    /\ Goto(r, "dead")
    /\ LeftBehind(r, OnlyMarked(r))
    /\ UNCHANGED <<dev, port, listing, memory>>

\* The shared listing turns older than INVENTORY_REFRESH_MS.
ListingExpires ==
    /\ listing.fresh
    /\ listing' = NoListing
    /\ UNCHANGED <<dev, port, marker, queue, lock, memory, pc, seen, stray>>

\* memoryHold of the daemon's last measurement changes.
MemoryChanges ==
    /\ Hindrances
    /\ memory' = ~memory
    /\ UNCHANGED <<dev, port, marker, queue, lock, listing, pc, seen, stray>>

-----------------------------------------------------------------------------

Round(r) ==
    \/ Lock(r) \/ WaitShared(r) \/ ReadRecords(r) \/ ReadSims(r) \/ ReadAdb(r)
    \/ WaitCounted(r) \/ Admit(r) \/ Poll(r)

Boot(r) ==
    \/ Create(r) \/ Rekeyed(r) \/ BootIosSim(r) \/ ClaimConsolePort(r) \/ BootEmulator(r)
    \/ Booted(r)

Next ==
    \/ \E r \in Runs : Round(r) \/ CountUnavailable(r) \/ GiveUp(r) \/ Boot(r) \/ BootFails(r) \/ Kill(r)
    \/ \E d \in Devices : Listed(d) \/ Shutdown(d)
    \/ ListingExpires \/ MemoryChanges

Spec == Init /\ [][Next]_vars

\* A live run goes on: the lock is polled for, so a run that keeps trying gets
\* it once.  Boots end, listings expire, and the daemon or the user stops
\* devices that no run is booting.
Fairness ==
    /\ \A r \in Runs : WF_vars(Round(r)) /\ SF_vars(Lock(r)) /\ WF_vars(Boot(r) \/ BootFails(r))
    /\ \A d \in Devices : WF_vars(Listed(d)) /\ SF_vars(Idle(d) /\ Shutdown(d))
    /\ WF_vars(ListingExpires)

FairSpec == Spec /\ Fairness

-----------------------------------------------------------------------------
(***************************************************************************)
(* Properties                                                              *)
(***************************************************************************)

\* The devices that are up, listed or not, and those about to be booted.
Taken == {d \in Devices : dev[d] # "off"} \cup {DeviceOf[r] : r \in {r \in Runs : marker[r] # {}}}

\* However devices come up and go down while a run counts them, and wherever a
\* run is killed or its boot times out, the devices in use never exceed
\* concurrency.maxDevices nor the cap of their platform by more than those that
\* a boot left behind: a device whose run was killed before a listing showed it,
\* and an emulator that outlived the wait for its boot and lost its console port.
\* One that a later run was let in to boot anew is within the caps again.
CapRespected ==
    /\ Cardinality(Taken \ stray) <= MaxDevices
    /\ \A p \in Platforms : PlatformMax[p] > 0 =>
           Cardinality({d \in Taken \ stray : Platform(d) = p}) <= PlatformMax[p]

\* The run is let in to boot a device that nobody booted yet.
StartsBoot(r) == pc[r] = "decide" /\ pc'[r] \in {"create", "port", "boot"} /\ ~Joins(r, seen)

\* "at most two boots run at once": when a run is let in, fewer than
\* BOOTS_IN_FLIGHT other runs are booting, whatever became of the markers since
\* it read them.
BootsBounded ==
    [][\A r \in Runs : StartsBoot(r) =>
           Cardinality({s \in Runs \ {r} : marker[s] # {}}) < BootsInFlight]_vars

\* "in arrival order": no run is let in past an older one that waits for the
\* same platform; one of another platform it passes only under a platform cap.
InTurn ==
    [][\A r \in Runs : StartsBoot(r) =>
           \A w \in Ahead(r) : LET p == Platform(DeviceOf[w])
                               IN  p # Platform(DeviceOf[r]) /\ PlatformMax[p] > 0]_vars

\* Devices that go down wake the queue: no run waits for ever, neither behind
\* the ticket of a run that is gone nor on a listing that is out of date.
EveryRunServed == \A r \in Runs : pc[r] = "wait" ~> pc[r] \in {"done", "dead"}
=============================================================================
