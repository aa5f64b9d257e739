# Verification of stim's coordination code

stim is a command line tool and a per-user background service that builds and
runs mobile apps from many worktrees at once. Its processes do not know each
other: they meet in the file system, any of them can be killed at any moment,
and nothing cleans up after a dead one but the next process that comes along.
Compilers and emulators outlive the commands that started them. A unit test
reaches one order of these events. The modules here describe the code step by
step in TLA+, TLC tries every order on small instances, and TLAPS proves the
safety results about all of them for instances of any size.

All paths below are relative to `src/`; `cli/` is `packages/stim-cli/src/`.

## The system and what is modelled

| part | state it keeps | code | module |
| --- | --- | --- | --- |
| ownership claims | a directory per claim set: claims, child records, staging entries | `packages/core/ownership-claim.ts`, `cli/engine/spawn-claims.ts` | `OwnershipClaim`, `ClaimLock`, `OwnershipClaimProofs` |
| clearance of a claim set | the same directory | `clearFreeClaimSet` in `ownership-claim.ts` | `ClaimSetClearance`, `ClaimSetClearanceProofs` |
| build slots and queue | slot claims, numbered tickets | `cli/engine/build-slots.ts`, `cli/engine/wait-queue.ts`, `packages/core/state/build-capacity.ts`, `cli/policy/admission.ts` | `BuildSlots`, `BuildSlotsProofs` |
| device boot admission | boot markers, tickets, a shared listing, the devices themselves | `cli/engine/device-capacity.ts`, `device-ios.ts`, `device-android.ts` | `DeviceAdmission`, `DeviceAdmissionProofs` |
| shared builds and the build cache | a lock per cache key, cache entries | `cli/engine/build-lock.ts`, `acquire-artifact.ts`, `artifact-lifecycle.ts`, `cli/commands/android/artifact.ts`, `packages/core/artifact-store-async.ts` | `SharedBuild`, `SharedBuildProofs` |
| simulator pool, teardown, sweep | slots and pool in the config, operation claims, the simulators | `cli/devices/sim-pool.ts`, `teardown.ts`, `reclaim.ts`, `cli/engine/device-ios.ts`, `cli/commands/gc/devices.ts` | `SimPool`, `SimPoolProofs` |
| engine store | the records of the engine, the builds, two locks, the claims of the services | `cli/engine-store/`, `cli/stimd/engine-follow.ts`, `crash-hold.ts`, `main.ts` | `EngineStore`, `EngineStoreProofs` |
| device leases | a lease file per device, a record per workspace | `cli/engine/device-lease.ts`, `device-lease-run.ts`, `cli/policy/admission.ts`, `cli/commands/device.ts` | `DeviceLease`, `DeviceLeaseProofs` |

The parts stand on each other. Slots, tickets, boot markers, build locks and the
operation claims of the pool are ownership claims. `OwnershipClaim` models the
claim one system call at a time and is shown to implement `ClaimLock`, a readers
and writer lock whose steps are atomic; the modules above it use that and treat
taking or releasing a claim as one step, with what `OwnershipClaim` says about a dead holder: its claim is
replaced when the holder and its child are gone, is respected while the child
runs, and cannot be decided when the child was never recorded.

What is not modelled, and why, is listed under [Not modelled](#not-modelled).

## Ownership claims

`tryAcquireClaim` surveys the set, removes what dead processes left, stages a
claim and renames it into place: onto `exclusive/`, which works for one writer
only, or into `shared/`. It then looks again, because a writer and a reader
publish into different directories. A claim that finds an incompatible one is
given up or stays pending and polls.

- `files`, `sharedDir`, `staging`, `child` are the directory; `work` is the
  process a holder spawned; `pc`, `handle`, `attempts`, `verdict` are the calls.
- One action per system call another process can see: `ListExclusive`,
  `ListShared`, `ReadOwner`, `ReadChild`, `RemoveOrphan`, `ReapChild`,
  `ReapClaim`, `MakeStagingDir`, `WriteStaging`, `MakeSharedDir`, `Publish`, and
  so on. Between a listing and the removal it leads to, anybody may act.
- A call may die at every step. A holder that spawns declares a pending child,
  spawns it and records it, three steps, and may die between them. The child, or
  its process group, runs on.
- `Doubtful` lets the identity of a process be inconclusive. The refusal prints
  the command that removes the claim, and `RemoveByHand` is a user who runs it
  when nothing uses the claim.
- `ReleaseFile` succeeds: an unlink that fails with an I/O error, which leaves the
  claim until its owner has exited (`ownership-claim.ts:764`), is left out.

Properties: `Exclusion` (a claim in use, its child included, excludes every
incompatible one), `InUseKept` (no survey, however stale, unlinks a claim in
use), `NothingLeft` (an ended call leaves nothing behind), `ImplementsLock`
(refinement of `ClaimLock`), `CallEnds` (every call ends).

`ClaimSetClearance` adds `clearFreeClaimSet`, which removes staging entries
under the exclusive claim, those of live contenders included, one `rmSync` at a
time. `SweepsUnderClaim`, `Exclusion` and `InUseKept` hold as long as the
clearer is not killed in the middle of one removal; between two removals it may
be.

## Build slots

A build reads the queue, then the slots, decides its turn and tries the slots
one after the other. The cap is read again in each round and may change; a
killed build leaves a slot whose compiler works on. `Offloads` are builds sent
by another machine, which never queue. `Staging` is a new engine being staged,
during which slots are held back.

Properties: `CapHeld` (no more builds run than the largest cap), and
`EveryBuildServed` (a waiting build gets a slot or an answer). Builds do not
start in the order of the queue: `slotTurn` does not subtract slots whose holder
cannot be verified, so a newcomer may find itself in turn and take a slot
ahead of an older build, although the comment at `policy/admission.ts:14` says
that a build never does. No property here claims that order. `ReadSlots` reads all
slots at once, where `listBuildSlots` reads them one by one; the result only
decides whether the build tries, and each slot is then taken by a claim of its own.
The refusal that `liveWaiters` throws for a ticket it cannot verify ends the
command before it holds a slot, and is left out.

## Shared builds and the build cache

A run looks its key up in the cache. On a miss it takes the build lock of the
key, or waits: `waitForBuild` looks for the artifact and then for the holder of
the lock, and starts over when the holder is gone. With the lock (or without it,
when taking it fails) the run takes a build slot, prepares the source, looks the
key up again if that changed it, compiles, and stores. `storeArtifactAsync` looks
before and after its copy and publishes by two renames, which are two steps here;
another run may store, look or evict between them. A run with `--no-build-cache`
takes no lock and overwrites. `pc` follows the phases of `runArtifactLifecycle`,
`Leave` is the release on every way out of it.

Properties: `OneCompile` (runs with one key never compile together, however they
came to build, the compiler of a killed run included; exempt are the runs in
`Lockless`, which go without the lock: without the cache, after a lock that could
not be taken, or after a cached app that could not be used), `StoredStays` (an app
that was stored stays under its key, whoever else stores there, until it is
evicted, and from the next store on again) and `EveryRunEnds` (locks, slots and
compilers left behind keep nobody waiting).

Three things the code does that no property denies. Two runs that both missed
may compile one after the other: the lock's next holder does not look the
unchanged key up again (`android/artifact.ts:770`). A run that cannot take the
lock builds without it. A store killed between its two renames leaves the key
without an entry and the former one under a `.replaced` name until somebody
stores again; `StoredStays` counts that entry as present.

Left out: remote caches, uploads, offloaded builds, the iOS recipe (it takes the
same phases), an error that lets a run build without a slot, and the children that
prepare the source or copy the app, which keep the lock of a killed run as its
compiler does. A slot is one of
`MaxBuilds` places that a claim occupies; how it is waited for is `BuildSlots`.

## Simulator pool

A removed workspace parks its simulator: its record moves from the slot to the
pool in one write, and what is over the bound is deleted. A run adopts a parked
one or creates its own. `stim gc` deletes and erases parked ones and sweeps those
that nothing references; the service shuts down those kept booted. Native work on
a parked simulator is done under its operation claim: `Claim`, `Mark` (the record
is read again and marked), `ChildPending`, the work with its effect and its end as
steps of their own, `Settle`. A command may die at each, and its `simctl` may act
after it.

Properties: `OnePlace` (a simulator is in one slot or in the pool, never in two
places), `OneOperation` (one child at a time works on it, children of dead
commands included), `ApprovalsTrue` (recorded scheme approvals are on the
simulator, whatever part of the last erase happened) and `AssignedKept` (no parked
operation deletes or erases a simulator that a workspace is assigned).
`OrphansUnreferenced` states what the documentation says of the sweep and is
violated.

`ApprovalsTrue` leaves out the simulators in `replaced`, until approvals are
installed on them anew. An operation that finds the mark of one that never ended
puts its own in its place (`sim-pool.ts:294`), and if it then fails it writes back
approvals that the earlier erase may have taken. `guide/lifecycle.ts:1515` says
"When a marker outlives its owner, Stim cannot tell whether the erase or deletion
ran, so adoption treats the device as erased and drops the recorded app, cache key
and scheme approvals." Of a mark that was replaced that is not so: without the
exemption TLC finds `ApprovalsTrue` violated with one kill.

Steps that are coarser than the code: `Run` reads the pool and lists the simulators
in one step, where the listing is awaited (`device-ios.ts:564`, `:569`); what it
read is checked again under the claim. A removed workspace deletes its own
simulator in one step (`DeleteOwn`), so no `simctl delete` of its outlives it. A
settlement that fails and is retained (`sim-pool.ts:318`) is a command that dies
there. `Reap` is the loop over orphans (`gc/devices.ts:789`); the loops over the
devices of dead projects (`:791`) are left out. Left out also: whether a simulator
is booted, device types, renames by the user, the ledger of created devices,
records of older versions, and emulators.

## Engine store

One directory holds the builds of stim and the records that say which one runs.
A promotion points the engine at a build at once when no service is up, and
stages it otherwise; the service of each home records whether it has pinned
work, flips the staged build when every service of its build has none, and hands
over. A build whose service crashes in a loop is marked bad and the previous one
restored. `Promote`, `SelectCheck` to `WriteLaunchers` follow `promote`,
`flipStaged` and `flip` one write at a time, in an `engine-select` process that
works for a parent that holds the locks; `CheckEngine` to `FlipEnds` follow
`engine-follow.ts`, `HoldLock` to `HoldEnds` `crash-hold.ts`, and `Collect` the
collection. `KillSelect`, `KillStimd` and `KillCommand` may strike between any
two writes. A process that dies takes its `engine-select` with it; one that
outlives a killed parent is not modelled.

Steps that are coarser than the code: a command reads the records when it has the
promotion lock, where `commands/engine.ts:102` reads them before and names the
build it read; taking a lock is atomic, where `locks.ts:28` replaces a stale socket
in two steps; `WriteLaunchers` is the launchers, the migration and the collection
together; and `Relaunch` waits for the service's own flip check, where
`engine-follow.ts:127` does not. A hold that fails adds an abnormal boot to a home
that crash-loops already, which nothing tells apart.

Properties: `RecordsInStore` (what the records name, and what a service runs, is
in the store), `DrainedSwitch` (a service switches the engine under no admitted
operation), `StagedStillRight` (what was checked when a build was staged still
holds when it becomes the engine's; the crash hold goes back only from a build
that crashed) and `StagedSettles` (a staged build does not wait for ever).

The limits of these results are things the code does:

- A flip killed between `current.json` and the removal of `staged.json` leaves a
  staged record that is flipped later, whatever the engine is by then
  (`engine-follow.ts:91` compares the record with its own reading only).
  `StagedStillRight` is about behaviours without such a death: `torn` counts the
  flips killed before each of their writes. A death between `previous` and
  `current.json` makes `previous` the current build.
- The launchers are the last write of a flip. A flip killed before it leaves them
  at the former build, which `keptEntries` (`claims.ts:45`) keeps as `previous`
  and not for the launchers' sake. A second flip killed between its writes can move
  `previous` on, and a collection then removes the build that `stim` starts.
  With two kills TLC finds this; `RecordsInStore` speaks of the launchers as
  long as one flip at most was torn (`TornOnce`).
- A direct promotion reads that no service is up (`promote.ts:93`) and flips
  later; a service that starts in between may have admitted an operation.
  `DrainedSwitch` is about the switches that services make.
- `admit` waits 25 seconds for the flip lock and then admits without having seen
  it free. Such an operation is `loose` and promised nothing; nor is hosted
  work, which is recorded at the next check only.
- `stim engine use` of the build that runs stages it when the service is up, and
  such a record is never flipped. `StagedSettles` is about other builds.

## Device boot admission

A run counts the booted devices by reading the config, the boot markers, the
simulators and `adb` one after the other while devices come and go. It boots
under a marker, which changes its key when a new device gets its name. A
listing up to ten seconds old may stand in for a count that makes a run wait.

Properties: `CapRespected` (devices up or about to be exceed the caps by no other
than those a boot left behind), `BootsBounded` (a boot starts only while few are in
flight), `InTurn` (a run passes an older waiter only where a platform cap holds that
one back) and `EveryRunServed`.

The config and the marker files are read in one step: both reads are synchronous
and adjacent, and no whole boot fits between them.

A boot is requested and some time later listed: `BootEmulator` spawns the emulator
and `BootIosSim` the `simctl boot`, the device is `spawned` then, and `Listed` makes
it `live`. Two kinds of boots leave a device behind that nothing counts, and the
history variable `stray` holds these devices:

- An emulator outlives the wait for its boot; it loses its recorded port and its
  marker and is counted by nobody (`device-android.ts:459`).
- A run is killed, or its boot fails, after the request and before a listing shows
  the device; its marker is gone and nothing counts the device until it is listed.
  In that window another run is admitted.

`CapRespected` bounds the devices that are not in `stray`. So it says that every
other death and failure leaves a device that is counted, and that the devices left
behind make nobody admit more of the others. A device leaves `stray` when a run is
let in to boot it anew. Without the exemption TLC finds the cap exceeded in
`device_turn`. The comments promise a count of what is listed and no more, so this
is a limit of the result, not a disagreement with the code's description.

With `Hindrances` (in `device_turn`) listings fail, memory is short and boots leave
devices behind. `device_cap`, which checks `EveryRunServed`, is without it: nothing
promises that memory frees up or that a failing listing recovers, and the states stay
few enough for liveness.

## Device leases

A lease on a physical device is a lease file (holder, token, expiry) and a
record in the state of the workspace. `takeLease` and the releases hold the
state lock of the workspace; `raiseLease` and the removal of expired leases
take the lock of the device only. A workspace has one run at a time
(the native-run lock) and, beside it, commands that lock and unlock. Actions
follow `acquireRunLease`, `waitForDevice`, `takeLease` (record, release of the
previous lease, release of other leases, grant, record), `raiseLease`, the end
of a run, and `stim gc`.

Properties: `OneLeasePerWorkspace`, `LeaseKept` (only its own workspace ends,
replaces or extends an unexpired lease), `DeclaredKept` (a run never shortens or
gives up the declared lease of its device) and `UnlockReleases` (an unlock
leaves neither a lease nor a record, whoever died before). `RunHoldsDevice`
states what the comment of `leaseRaise` says and is violated.

A run that waited for a device takes it and thereby releases a lease its user
declared on another device during the wait; `acquireRunLease` refuses when the
declaration comes first. `DeclaredKept` is therefore about the run's device.

Left out here: the choice of a device from the pool, a second platform or slot,
lease files that cannot be read, and leases of virtual devices. The state lock
frees itself when its holder dies, which is what `OwnershipClaim` shows of the
claim below a directory lock. `StartRun` reads the record and the lease file it
names in one step, and the release of the other leases is one transaction, where
`releaseWorkspaceLeasesAsync` (`device-lease.ts:424`) tries once more with the state
lock released in between.

## The runs

| run | instance | checks |
| --- | --- | --- |
| `claim_set` | two writers, one reader with a detached child, two publish attempts | `TypeOK`, `Exclusion`, `NothingLeft`, `ImplementsLock`, `CallEnds` |
| `clearance` | two writers and a reader, one writer clears, the other (detached) and the reader spawn; doubtful identities, one attempt | `SweepsUnderClaim`, `Exclusion`, `InUseKept` |
| `clearance_killed` | three writers, the clearer may die inside one removal | `Exclusion`, violated |
| `slot_cap` | two queued builds and an offloaded one, a cap that moves between 1 and 2, unverifiable holders, an engine switch | `TypeOK`, `CapHeld`, `EveryBuildServed` |
| `shared_build` | two runs of one key and one without the cache, a second key, two slots, one kill | `TypeOK`, `OneCompile`, `StoredStays`, `EveryRunEnds` |
| `sim_pool` | two workspaces, a cleaner, two simulators, a bound of one; two parkings, or one and a kill | `TypeOK`, `OnePlace`, `OneOperation`, `ApprovalsTrue`, `AssignedKept` |
| `pool_orphan` | a workspace, a cleaner, a simulator | `OrphansUnreferenced`, violated |
| `engine` | three builds, the last with a new schema, two homes, a command; one promotion with a crash loop and a kill, one with an operation, or two | `TypeOK`, `RecordsInStore`, `DrainedSwitch`, `StagedStillRight`, `StagedSettles` |
| `device_cap` | a simulator, one still to be created and an emulator; one device allowed | `TypeOK`, `CapRespected`, `EveryRunServed` |
| `device_turn` | two runs on one simulator and one on an emulator; a simulator and an emulator beside them; two devices, one simulator, one boot in flight; failing listings, short memory, boots left behind | `CapRespected`, `BootsBounded`, `InTurn` |
| `lease` | two workspaces, two devices, a run and two command processes, three starts, a clock up to 2 | `TypeOK`, `OneLeasePerWorkspace`, `LeaseKept`, `DeclaredKept`, `UnlockReleases` |
| `lease_switch` | the same | `RunHoldsDevice`, violated |

Run one with `tlc -config ClaimSet.cfg MCOwnershipClaim`. `PROJECT.json` names,
for each property, a change to a definition that a plausible mistake in the code
would amount to and under which TLC finds the property violated.

Why these bounds. The claim protocol compares claims in pairs, and the third
claim is the one that reaps, or that gets in between: two writers and a reader
give every incompatible pair and a bystander. Two readers together are only
covered by the proofs. One publish attempt bounds the retries where children
and doubt already multiply the states; two are allowed where a retry after a
lost rename is the question. For devices, the interesting case is a queue with a
waiter behind a waiter, hence three runs for one place; for slots two builds
queue and an offloaded one takes a slot past them. In `shared_build` the two runs
of one key are a builder and a waiter and the third overwrites what they store;
the second key lets the key change during prepare and after the compile. In
`sim_pool` one workspace parks what the other adopts, while the cleaner works
from an older list; the second parking is what overflows the bound. In `engine`
two homes are a service that flips and one whose work it must see; the budgets
keep promotions, crashes and kills apart where they would multiply. In `lease` a
declared lease lasts 1 or 3 and a run step 2, so that a lease can expire under a
run, outlive it, and be shortened by mistake; three starts allow a run and a command
in each workspace, or another start of either after one died.

Absence of deadlock is no result of these runs. It is not checked where all
processes may have ended, and in the two lease runs the listing of expired
leases can always be made again. That nobody waits for ever is what the liveness
properties say.
`SYMMETRY` is used in `clearance_killed`, for the writers that do not clear, and in
`sim_pool`, for the simulators and the workspaces; no liveness is checked there.

## Fairness

Fairness is assumed of what live processes do by themselves, never of a crash or
a change of settings; the one exception is that idle devices are stopped. A
killed process owes nothing.

- Claims (`CallEnds`): a call goes on (weak, per call); a pending claim is
  polled (weak); a holder eventually releases (strong, because it may spawn
  children in between, finitely often); a spawned process ends (weak).
- Slots (`EveryBuildServed`): a build goes on with its polls, a build that holds
  a slot ends, an orphaned compiler ends, the hold of a staged engine lapses
  after its deadline. All weak.
- Shared builds (`EveryRunEnds`): a run goes on through its phases and polls
  (weak), and compilers end (weak). `Trouble` is not fair: a phase that fails, a
  lock that cannot be taken, a wait that runs into its ceiling. So no run ends
  in this result because it gave up waiting; one that finds the lock of a dead
  owner takes it over or is refused.
- Engine store (`StagedSettles`): processes go on, operations and hosted work
  end, a service ticks (weak); a service tries for the two locks at every tick,
  so that a lock that is free again and again is once free when it tries
  (strong). Promotions, crashes and kills are not fair.
- Devices (`EveryRunServed`): rounds and boots go on and end (weak); the lock
  around a round is polled for, so a run that finds it free again and again gets
  it (strong); `simctl` and `adb` eventually list what is up (weak); a shared
  listing expires (weak); a device that no run is booting is eventually stopped
  (strong, since it can be in use now and then). The last one is an
  assumption about the user and the idle shutdown: with every device in use for
  ever no run is served, and the code does not promise otherwise.

`GiveUp` and `GiveUpPending`, which stand for deadlines, are not fair, so no
liveness result leans on a timeout.

## Proofs

TLAPS proves the following for every value of the constants. Run `tlapm` on
`OwnershipClaimProofs`, `ClaimSetClearanceProofs`, `BuildSlotsProofs`,
`DeviceAdmissionProofs`, `SharedBuildProofs`, `SimPoolProofs`, `EngineStoreProofs`
and `DeviceLeaseProofs`; each is checked by itself, in one to ten minutes. Each
type invariant is proved with the rest (`TypesHold`, and `TicketsBounded` for the
slots); where it contains a bound that takes an argument, the argument is given
below.

**Ownership claims** (`OwnershipClaimProofs`), from `ModesAssumption` (no claim
is both exclusive and shared), `AttemptsAssumption` (at least one attempt) and
`SpawnersAssumption` (who spawns): `Invariance`, `TypesHold`, `ExclusionHolds`,
`InUseKeptHolds`, `NothingLeftHolds`, and `LockImplemented`, the refinement of
`ClaimLock`. `Exclusion` is not inductive: that a writer and a reader are
not both in use follows from what each has seen since it published. `IndInv`
adds

- `Owned`: while its process lives, a claim file exists exactly as long as the
  handle, and a staging entry only between its creation and the rename;
- `Staged`: what is about to be renamed has its claim file in it;
- `Declared`: a running child is declared on a claim that is in the set;
- `SurveysSound`: a verdict that leads to an unlink stays true, however old;
- `OneWriter`: `exclusive/` is replaced only when it is empty;
- `NeverBothMissed`: of a writer and a reader in force, the one that published
  last sees the other;
- `Counted`: a call publishes only while it has attempts left.

All of it but `Staged` is `ClaimsSound`, which every step keeps whose publications
are complete (`ClaimsSoundStep`).

**Clearance** (`ClaimSetClearanceProofs`), from `ClearersAssumption` (a clearer is
a writer), `FreshIdAssumption` (`ownership-claim.ts:693` draws a new id for each
attempt, so a staging entry that was swept never comes back under its name: each
call is one attempt) and, as a hypothesis, `KilledInRemoval` false: `ClearanceInvariance`,
`SweepsUnderClaimHolds`, `ClearanceExclusion` and `ClearanceKeeps`. A clearer breaks
`Staged`: it takes the claim file out of the staging directory of a live writer.
`ClearanceInv` is `ClaimsSound` with, in its place, `Emptied` (such a directory is
the one a clearer is removing at this moment) and `Sweeping` (a clearer that
removes anything is the writer in `exclusive/`). The rename of the emptied directory
fails as long as `exclusive/` is occupied, and the directory is gone before it is
free, so what is published is complete and `ClaimsSoundStep` applies. The run
`clearance_killed` shows that the hypothesis is needed.

**Build slots** (`BuildSlotsProofs`), from `BuildsAssumption` and
`CapsAssumption` (the caps are positive and one of them is the largest):
`Invariance`, `CapNeverExceeded` and `TicketsBounded`. `SlotInv` says that every build that runs, or
may run, is named by a slot, and that a build in its round has read some cap and
come to some slot. The first part is what makes the cap hold: builds in different
slots are different, so there are no more of them than slots
(`FiniteSetTheorems`). What the rounds read of the queue plays no part in that. It
does in `TicketsBounded`: a ticket is numbered one past the largest number its
build read in the queue, which may be out of date by then. `Counted` says that no
number is larger than the number of builds that have a ticket or are through; no
build ever leaves these, and one that takes a ticket joins them.

**Device boot admission** (`DeviceAdmissionProofs`), from `DevicesAssumption`
(finitely many runs and devices), `EmulatorsAssumption` (an emulator, or a
device to be created, is booted by one run only) and `CapsAssumption`: `Invariance`, `CapHolds` and
`BootsBoundedHolds`. A run decides from four
readings that are out of date by then, so `CapRespected` is not inductive.
`AdmissionInv` adds

- `Locked` and `MarkerHeld`: one run counts at a time, and a run has a marker that
  names its device for just as long as it boots it;
- `Countable`: outside `stray`, an emulator that is up has its port on record, and a
  device that is not listed yet has a marker;
- `CountComplete`: the run that counts has read every marker there is, and each
  device in use outside `stray` is counted, or is up and still to be listed. A boot that ends
  during a count was read as a marker;
- `CountFits`: what is in use, together with what was counted, fits the caps. While
  a run counts nobody is admitted, so this set only shrinks; it is why a run may
  join a simulator that went down after it was listed.

That the keys of a count are at least as many as its devices, also while `rekey`
holds two markers for one boot, is `KeysBound`.

`TypesHold` and `InTurnHolds` follow from `QueueInv`:
a run has one ticket at most, and those ahead of a run that counts were ahead when
it read the queue (`AheadRead`). Tickets are added at the end only, and one that
goes leaves the others in their order (`TicketGone`), so the reading errs on the
side of more runs ahead, never fewer.

**Shared builds** (`SharedBuildProofs`), from `RunsAssumption` and
`KeysAssumption`: `Invariance`, `TypesHold`, `OneCompilerPerLock` and
`StoredAppsStay`. `IndInv`
adds to `StoredStays`

- `HolderLocks`: a run whose claim still counts is the one in the lock it took.
  Since a compiler makes the claim of its run count, two compilers under one lock
  would name two holders;
- `BuildersLock`: from its wait for a slot to its compiler, a run has the lock of its
  key or is `Lockless`, whichever way it came there;
- `StoreSteps`: an entry is set aside only between the two renames, and a store
  that found an entry left the key with one. `PresentStays` shows that no step
  takes the last entry of a key but an eviction.

**Simulator pool** (`SimPoolProofs`), from `PoolAssumption`: `Invariance`,
`TypesHold`, `EveryoneInOnePlace`, `OneAtATime`, `RecordsTrue` and
`AssignedSimulatorsKept`. `IndInv` adds to `OnePlace` and `ApprovalsTrue`

- `Owned`: a simulator is referenced only once it exists, a workspace that creates
  one is alone with it, and one that removes its own is still assigned it;
- `Claimed`: an operation holds the claim, and from its mark on the record is in
  the pool as it was marked; the claim of a child that outlived its command is
  blocked and its record marked. With `OnePlace`, this is why no operation
  hits an assigned simulator;
- `Erasing`: approvals that an operation took from a simulator, it knows to have
  taken, so that `Settle` writes the truth.

**Engine store** (`EngineStoreProofs`), from `BuildsAssumption` (builds are
numbered, and one is the oldest), `ActorsAssumption` (homes and commands are
different processes) and `BoundsAssumption`: `Invariance`, `TypesHold`,
`RecordedTreesStay`, `NoAdmittedWorkSwitched` and `MovesStayRight`. `StoreInv` adds
to `TypeOK`

- `Locked`, `Placed` and `Gated`: an `engine-select` process works under the
  promotion lock of its parent, so there is one at a time; that of a service flips
  for a check or goes back for a hold; and who flips or probes has the flip lock;
- `Stored`: the builds of the records, of the services and of the `engine-select`
  process are in the store. A collection runs under the promotion lock, so no
  other process is between two writes of these records;
- `Drained`: an operation is on record before it is admitted, and a service that
  flips has found no admitted work on its build since it took the flip lock. An
  operation admitted with that lock free would have been on record. This is
  `DrainedSwitch`;
- `Moving` and `Behind`: from its first write on, `previous` names the build a flip
  leaves; launchers that are behind start that build, and it stays in the store
  until a second flip is killed;
- `Named`, `BadKnown` and `Checked`: a build that is staged, or moved to, was asked
  for by someone, and what was checked of it (newer than the engine's build and
  than every bad one; the engine's build bad, for a hold) is still true. A build
  marked bad later is the engine's, which the staged one is newer than, and a flip
  removes whatever is staged. This gives `StagedStillRight`, and fails once a flip
  is killed before that removal.

**Device leases** (`DeviceLeaseProofs`), from `ActorsAssumption`,
`NamesAssumption` (no empty root or device id), `TimesAssumption` and, for the
bounds, `LongestAssumption` (there is a longest duration; `parseLeaseDuration`
refuses more than 30 minutes): `Invariance`, `TypesHold`, `OneLeaseHolds`,
`LeaseKeptHolds`, `DeclaredKeptHolds` and `UnlockReleasesHolds`. The properties are about what a
process does with what it read before. `IndInv` says what such knowledge is
worth:

- `Locked`: a process inside a transaction holds the state lock of its
  workspace, so two processes of a workspace are never in one both;
- `Whole`: a lease file without a token is none, a record without a device is
  none, and a record or a grant that names a device has a token;
- `TokensUnique`: a token is on one lease file at most, and the workspace that
  knows a token is the holder of that file. This is why a stale record hits
  nobody else's lease in `DropHeld` and `Raised`;
- `RecordKnown`: during a transaction the record is the one read at its
  beginning, or blank once it was forgotten;
- `OthersKnown`: leases of the workspace on other devices are in the list of
  what is still to be released, and there are none when a lease is granted. This
  makes `OneLeasePerWorkspace` inductive, also after deaths between file and
  record;
- `Purpose`: what a process does follows from where it stands; in particular the
  end of a run drops nothing but a run lease.

The proofs first establish which actions touch a file, a record or a lock, and
what a process sees that makes no step of its own; with that, each conjunct is
shown for the few actions that can disturb it. `TypeOK` has bounds beside: that
tokens never outnumber starts holds because a process is granted one new lease at
most, however often it loses a device and waits again. `Bounded` therefore counts
the processes that may still be granted one (`Owing`) together with the grants.

## Only model-checked

Every safety property of the passing runs is also a theorem. Liveness under
fairness, and anything with `ENABLED`, is beyond the prover: `CallEnds`,
`EveryBuildServed`, `EveryRunEnds`, `StagedSettles` and `EveryRunServed` rest on
TLC, and so do the three violations below. Results that need induction over data,
such as what a recursive definition computes for every input, would be out of
reach as well; no property here needs one.

The theorems about clearance say nothing where their hypothesis fails: TLC finds
exclusion violated beside a clearer killed inside one removal.

## Where the code and its description disagree

- `clearance_killed`: a clearer that dies between unlinking a contender's staged
  claim and removing its staging directory lets that contender publish an empty
  `exclusive/`; two writers hold the set (`ownership-claim.ts:507`).
- `pool_orphan`: `stim gc` reads the config before it lists the simulators. One
  that a run creates and records in between is deleted as an orphan
  (`commands/gc.ts:346`, `gc/devices.ts:755`), although
  `website/docs/commands.md:2222` says that an orphan is one "that no workspace
  references". The Android side checks the references again.
- `lease_switch`: `raiseLease` raises whatever the workspace records. When the
  user locks another device during a run, the run's raise succeeds and it
  installs on a device it no longer leases (`device-lease.ts:327`).

## Not modelled

`PROJECT.json` lists every part with its sources. In short:

- *Layers over what is modelled.* Directory locks and compilation cache claims
  are ownership claims with a wait around them. The emulator pool takes the steps
  of `SimPool` with a second look at the references. The iOS recipe takes the
  phases of `SharedBuild`.
- *Other state with interleavings.* Warm claims; Metro supervision; the
  maintenance passes beyond what `DeviceLease` and `ClaimSetClearance` contain;
  build offload; the server's sessions and shares; the network thread of the
  service. Each would be a module of its own beside these.
- *Policy without interleaving.* The pressure ladder is a pure function of
  measurements.
- *Outside what a model of control shows.* Process identity (reads of the
  operating system, used as an input); fingerprints and remote caches (hashing
  and network I/O); wire protocols and encryption; drivers of Xcode, Gradle,
  `simctl` and `adb`; command line handling and reports; the apps, the website
  and the repository's scripts.
