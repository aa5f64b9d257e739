---------------------------- MODULE SharedBuild ----------------------------
(***************************************************************************)
(* How a run gets its app: packages/stim-cli/src/engine/acquire-artifact,  *)
(* artifact-lifecycle and build-lock, with the Android recipe in           *)
(* commands/android/artifact and the entry store in packages/core.         *)
(*                                                                         *)
(* A run looks its fingerprint key up in the machine-wide cache.  On a     *)
(* miss it takes the key's build lock, or waits for the run that has it,   *)
(* then takes a build slot, prepares the source (which may change the      *)
(* key), compiles and stores.  A run told not to use the cache does none   *)
(* of the waiting and replaces the entry.                                  *)
(*                                                                         *)
(* The build lock and the slots are ownership claims (OwnershipClaim,      *)
(* BuildSlots): they hold while the owner or the compiler it started runs. *)
(* Remote caches, offloaded builds and uploads are left out: no provider   *)
(* and no paired machine is configured.                                    *)
(***************************************************************************)
EXTENDS Naturals, FiniteSets

CONSTANTS
    Runs,      \* runs of stim ios or stim android, numbered
    Fresh,     \* the runs with --no-build-cache
    Keys,      \* cache keys
    KeyAt,     \* the key of each run's checkout when it starts
    MaxBuilds, \* concurrency.maxBuilds
    MaxKills   \* bound on the runs killed in a behaviour

ASSUME RunsAssumption == Runs \subseteq Nat \ {0} /\ Fresh \subseteq Runs

ASSUME KeysAssumption == KeyAt \in [Runs -> Keys]

ASSUME BoundsAssumption == MaxBuilds \in Nat \ {0} /\ MaxKills \in Nat

VARIABLES
    cache,    \* the run that built each key's entry, 0 without one
    evicted,  \* the keys whose last entry was removed as unusable
    lock,     \* the run whose claim is in each key's build lock, 0 without one
    slots,    \* the runs whose claim is in a build slot
    pc,       \* where each run is
    key,      \* storeKey
    handle,   \* whether acquireArtifact has a build lock to release
    unlocked, \* the runs that go on without a lock they could not take
    fell,     \* swapFellBack: a cached app could not be reused
    built,    \* whether the run compiled its app
    aside,    \* the entry a store has renamed to .replaced, 0 without one
    child,    \* whether a run's compiler runs
    dead      \* the runs killed

claims == <<lock, slots, handle, unlocked>>
vars == <<cache, evicted, claims, pc, key, fell, built, aside, child, dead>>

Storing == {"store", "copy", "publish", "aside", "rename", "restore"}

Ended == {"hit", "done", "failed"}

Steps == {"resolve", "claim", "look", "survey", "reuse", "admit", "prepare", "revalidate", "compile", "validate"}
             \cup Storing \cup Ended

TypeOK ==
    /\ cache \in [Keys -> Runs \cup {0}] /\ aside \in [Runs -> Runs \cup {0}]
    /\ evicted \subseteq Keys
    /\ lock \in [Keys -> Runs \cup {0}] /\ slots \subseteq Runs
    /\ pc \in [Runs -> Steps]
    /\ key \in [Runs -> Keys]
    /\ handle \in [Runs -> BOOLEAN] /\ fell \in [Runs -> BOOLEAN] /\ built \in [Runs -> BOOLEAN]
    /\ child \in [Runs -> BOOLEAN]
    /\ unlocked \subseteq Runs /\ dead \subseteq Runs

Init ==
    /\ cache = [k \in Keys |-> 0]
    /\ evicted = {}
    /\ lock = [k \in Keys |-> 0]
    /\ slots = {}
    /\ pc = [r \in Runs |-> "resolve"]
    /\ key = KeyAt
    /\ handle = [r \in Runs |-> FALSE]
    /\ unlocked = {}
    /\ fell = [r \in Runs |-> FALSE]
    /\ built = [r \in Runs |-> FALSE]
    /\ aside = [r \in Runs |-> 0]
    /\ child = [r \in Runs |-> FALSE]
    /\ dead = {}

-----------------------------------------------------------------------------
(***************************************************************************)
(* The build lock and the slots, as ownership claims                       *)
(***************************************************************************)

\* Mutant of ClaimLive: the compiler of a dead run does not count.
ClaimLiveOwner(r) == r \notin dead

\* A claim is respected while its owner or the child it recorded runs.
ClaimLive(r) == r \notin dead \/ child[r]

\* Mutant of LockLive: a lock that is there is held.
LockLiveFile(k) == lock[k] # 0

LockLive(k) == lock[k] # 0 /\ ClaimLive(lock[k])

LockDead(k) == lock[k] # 0 /\ ~ClaimLive(lock[k])

SlotFree == Cardinality({r \in slots : ClaimLive(r)}) < MaxBuilds

At(r, step) == r \notin dead /\ pc[r] = step

Goto(r, step) == pc' = [pc EXCEPT ![r] = step]

\* acquireArtifact's release on every way out of the lifecycle.
Leave(r, outcome) ==
    /\ Goto(r, outcome)
    /\ lock' = IF handle[r] THEN [lock EXCEPT ![KeyAt[r]] = 0] ELSE lock
    /\ handle' = [handle EXCEPT ![r] = FALSE]
    /\ unlocked' = unlocked \ {r}
    /\ slots' = slots \ {r}

-----------------------------------------------------------------------------
(***************************************************************************)
(* resolve, claim and reuse                                                *)
(***************************************************************************)

Resolve(r) ==
    /\ At(r, "resolve")
    /\ Goto(r, IF r \in Fresh THEN "admit" ELSE IF cache[key[r]] # 0 THEN "reuse" ELSE "claim")
    /\ UNCHANGED <<cache, evicted, claims, key, fell, built, aside, child, dead>>

\* acquireBuildLock: a free lock, or one whose owner and child are gone.
TakeLock(r) ==
    /\ At(r, "claim") /\ ~LockLive(KeyAt[r])
    /\ lock' = [lock EXCEPT ![KeyAt[r]] = r]
    /\ handle' = [handle EXCEPT ![r] = TRUE]
    /\ Goto(r, "admit")
    /\ UNCHANGED <<cache, evicted, slots, unlocked, key, fell, built, aside, child, dead>>

LockHeld(r) ==
    /\ At(r, "claim") /\ LockLive(KeyAt[r])
    /\ Goto(r, "look")
    /\ UNCHANGED <<cache, evicted, claims, key, fell, built, aside, child, dead>>

\* The lock cannot be taken for a reason that is no refusal: building anyway.
LockFails(r) ==
    /\ At(r, "claim")
    /\ unlocked' = unlocked \cup {r}
    /\ Goto(r, "admit")
    /\ UNCHANGED <<cache, evicted, lock, slots, handle, key, fell, built, aside, child, dead>>

\* A dead owner whose child was never recorded cannot be decided.
LockRefused(r) ==
    /\ pc[r] \in {"claim", "survey"} /\ r \notin dead /\ LockDead(KeyAt[r])
    /\ Leave(r, "failed")
    /\ UNCHANGED <<cache, evicted, key, fell, built, aside, child, dead>>

\* Mutant of Look: a waiter that finds no artifact builds one.
LookBuilds(r) ==
    /\ At(r, "look")
    /\ Goto(r, IF cache[key[r]] # 0 THEN "reuse" ELSE "admit")
    /\ UNCHANGED <<cache, evicted, claims, key, fell, built, aside, child, dead>>

\* waitForBuild looks for the artifact first and for the lock's owner after.
Look(r) ==
    /\ At(r, "look")
    /\ Goto(r, IF cache[key[r]] # 0 THEN "reuse" ELSE "survey")
    /\ UNCHANGED <<cache, evicted, claims, key, fell, built, aside, child, dead>>

\* A live owner: poll again.  A dead one, or none: try the lock.
Survey(r) ==
    /\ At(r, "survey")
    /\ Goto(r, IF LockLive(KeyAt[r]) THEN "look" ELSE "claim")
    /\ UNCHANGED <<cache, evicted, claims, key, fell, built, aside, child, dead>>

\* WAIT_CEILING_MS passes with a live owner.
WaitTimesOut(r) ==
    /\ At(r, "survey") /\ LockLive(KeyAt[r])
    /\ Leave(r, "failed")
    /\ UNCHANGED <<cache, evicted, key, fell, built, aside, child, dead>>

\* The wait is over, and the engine was switched meanwhile: endForSwitch.
EndForSwitch(r) ==
    /\ \/ At(r, "look") /\ cache[key[r]] # 0
       \/ At(r, "survey") /\ ~LockLive(KeyAt[r])
    /\ Leave(r, "failed")
    /\ UNCHANGED <<cache, evicted, key, fell, built, aside, child, dead>>

\* The cached app is installable, or the run builds its own after all.
Reuse(r) ==
    /\ At(r, "reuse")
    /\ \/ Leave(r, "hit") /\ UNCHANGED fell
       \/ Goto(r, "admit") /\ fell' = [fell EXCEPT ![r] = TRUE] /\ UNCHANGED claims
    /\ UNCHANGED <<cache, evicted, key, built, aside, child, dead>>

-----------------------------------------------------------------------------
(***************************************************************************)
(* build                                                                   *)
(***************************************************************************)

\* takeBuildSlot.  An error other than a refusal, which lets the run build
\* without a slot, is left out.
Admit(r) ==
    /\ At(r, "admit") /\ SlotFree
    /\ slots' = slots \cup {r}
    /\ Goto(r, "prepare")
    /\ UNCHANGED <<cache, evicted, lock, handle, unlocked, key, fell, built, aside, child, dead>>

\* Prebuild and pod install may change the key.
Prepare(r) ==
    /\ At(r, "prepare")
    /\ \E k \in Keys : key' = [key EXCEPT ![r] = k]
    /\ Goto(r, "revalidate")
    /\ UNCHANGED <<cache, evicted, claims, fell, built, aside, child, dead>>

\* A key that prepare changed is looked up; the same key is not.
LateHit(r) == r \notin Fresh /\ key[r] # KeyAt[r] /\ cache[key[r]] # 0

Revalidate(r) ==
    /\ At(r, "revalidate")
    /\ \/ /\ LateHit(r)
          /\ Leave(r, "hit")
          /\ UNCHANGED <<fell, child>>
       \/ /\ fell' = [fell EXCEPT ![r] = @ \/ LateHit(r)]
          /\ child' = [child EXCEPT ![r] = TRUE]
          /\ Goto(r, "compile")
          /\ UNCHANGED claims
    /\ UNCHANGED <<cache, evicted, key, built, aside, dead>>

Compiled(r) ==
    /\ At(r, "compile")
    /\ child' = [child EXCEPT ![r] = FALSE]
    /\ built' = [built EXCEPT ![r] = TRUE]
    /\ Goto(r, "validate")
    /\ UNCHANGED <<cache, evicted, claims, key, fell, aside, dead>>

\* The slot is refused, a phase fails, or the run is cancelled.
Fail(r) ==
    /\ pc[r] \in {"resolve", "admit", "prepare", "revalidate", "compile", "validate", "store", "copy"}
    /\ r \notin dead
    /\ Leave(r, "failed")
    /\ child' = [child EXCEPT ![r] = FALSE]
    /\ UNCHANGED <<cache, evicted, key, fell, built, aside, dead>>

\* Files that the build itself writes may change the key once more; other inputs
\* that changed make the app uncacheable.  A copy that fails without a
\* cancellation leaves the run the same way.
Validate(r) ==
    /\ At(r, "validate")
    /\ \/ /\ \E k \in Keys : key' = [key EXCEPT ![r] = k]
          /\ Goto(r, "store")
          /\ UNCHANGED <<claims, built>>
       \/ /\ Leave(r, "done")
          /\ built' = [built EXCEPT ![r] = FALSE]
          /\ UNCHANGED key
    /\ UNCHANGED <<cache, evicted, fell, aside, child, dead>>

-----------------------------------------------------------------------------
(***************************************************************************)
(* storeArtifactAsync                                                      *)
(***************************************************************************)

Overwrites(r) == r \in Fresh \/ fell[r]

\* Before the copy and after it: an entry that is there already is kept.
StoreLooks(r, step, next) ==
    /\ At(r, step)
    /\ IF cache[key[r]] # 0 /\ ~Overwrites(r) THEN Leave(r, "done")
       ELSE Goto(r, next) /\ UNCHANGED claims
    /\ UNCHANGED <<cache, evicted, key, fell, built, aside, child, dead>>

StoreStarts(r) == StoreLooks(r, "store", "copy")

StoreCopied(r) == StoreLooks(r, "copy", "publish")

\* existsSync
StorePublishes(r) ==
    /\ At(r, "publish")
    /\ Goto(r, IF cache[key[r]] # 0 THEN "aside" ELSE "rename")
    /\ UNCHANGED <<cache, evicted, claims, key, fell, built, aside, child, dead>>

\* Mutant of SetAside: the entry is removed to make room.
SetAsideRemoves(r) ==
    /\ At(r, "aside")
    /\ cache' = [cache EXCEPT ![key[r]] = 0]
    /\ Goto(r, "rename")
    /\ UNCHANGED <<evicted, claims, key, fell, built, aside, child, dead>>

\* Mutant of SetAside: the name is kept for the entry.
SetAsideName(r) ==
    /\ At(r, "aside") /\ cache[key[r]] # 0
    /\ aside' = [aside EXCEPT ![r] = key[r]]
    /\ cache' = [cache EXCEPT ![key[r]] = 0]
    /\ Goto(r, "rename")
    /\ UNCHANGED <<evicted, claims, key, fell, built, child, dead>>

\* The entry is renamed to .replaced; without one the store throws, and the run
\* goes on.
SetAside(r) ==
    /\ At(r, "aside")
    /\ IF cache[key[r]] # 0
       THEN /\ aside' = [aside EXCEPT ![r] = cache[key[r]]]
            /\ cache' = [cache EXCEPT ![key[r]] = 0]
            /\ Goto(r, "rename")
            /\ UNCHANGED claims
       ELSE Leave(r, "done") /\ UNCHANGED <<aside, cache>>
    /\ UNCHANGED <<evicted, key, fell, built, child, dead>>

\* The staged copy is renamed into place, unless another one is there.
RenameIn(r) ==
    /\ At(r, "rename")
    /\ IF cache[key[r]] = 0
       THEN /\ cache' = [cache EXCEPT ![key[r]] = r]
            /\ evicted' = evicted \ {key[r]}
            /\ aside' = [aside EXCEPT ![r] = 0]
            /\ Leave(r, "done")
       ELSE Goto(r, "restore") /\ UNCHANGED <<cache, evicted, aside, claims>>
    /\ UNCHANGED <<key, fell, built, child, dead>>

\* The entry set aside comes back if it can; .replaced is removed anyway.
Restore(r) ==
    /\ At(r, "restore")
    /\ IF cache[key[r]] = 0 /\ aside[r] # 0
       THEN cache' = [cache EXCEPT ![key[r]] = aside[r]] /\ evicted' = evicted \ {key[r]}
       ELSE UNCHANGED <<cache, evicted>>
    /\ aside' = [aside EXCEPT ![r] = 0]
    /\ Leave(r, "done")
    /\ UNCHANGED <<key, fell, built, child, dead>>

\* evictBuild: a reused app that cannot start loses its entry.
Evict(r) ==
    /\ At(r, "hit") /\ cache[key[r]] # 0
    /\ cache' = [cache EXCEPT ![key[r]] = 0]
    /\ evicted' = evicted \cup {key[r]}
    /\ UNCHANGED <<claims, pc, key, fell, built, aside, child, dead>>

-----------------------------------------------------------------------------

\* A run is killed; its compiler runs on.
Kill(r) ==
    /\ r \notin dead /\ pc[r] \notin Ended
    /\ Cardinality(dead) < MaxKills
    /\ dead' = dead \cup {r}
    /\ UNCHANGED <<cache, evicted, claims, pc, key, fell, built, aside, child>>

ChildEnds(r) ==
    /\ r \in dead /\ child[r]
    /\ child' = [child EXCEPT ![r] = FALSE]
    /\ UNCHANGED <<cache, evicted, claims, pc, key, fell, built, aside, dead>>

Claiming(r) == TakeLock(r) \/ LockHeld(r) \/ LockRefused(r) \/ Look(r) \/ Survey(r)

Building(r) ==
    \/ Admit(r) \/ Prepare(r) \/ Revalidate(r) \/ Compiled(r) \/ Validate(r)
    \/ StoreStarts(r) \/ StoreCopied(r) \/ StorePublishes(r) \/ SetAside(r) \/ RenameIn(r) \/ Restore(r)

Step(r) == Resolve(r) \/ Claiming(r) \/ Reuse(r) \/ Building(r)

\* What may end a phase early, and need not happen.
Trouble(r) == LockFails(r) \/ WaitTimesOut(r) \/ EndForSwitch(r) \/ Fail(r) \/ Evict(r) \/ Kill(r)

Next == \E r \in Runs : Step(r) \/ Trouble(r) \/ ChildEnds(r)

Spec == Init /\ [][Next]_vars

\* A run that is not killed goes on, and compilers end.
Fairness == \A r \in Runs : WF_vars(Step(r)) /\ WF_vars(ChildEnds(r))

FairSpec == Spec /\ Fairness

-----------------------------------------------------------------------------
(***************************************************************************)
(* Properties                                                              *)
(***************************************************************************)

\* The runs that compile without the lock of their key: told not to use the cache,
\* unable to take the lock, or left without one by a cached app they cannot reuse.
Lockless(r) == r \in Fresh \cup unlocked \/ (fell[r] /\ ~handle[r])

\* Two runs with one key never compile at the same time, whether they missed, waited
\* or took over, and the compiler that a killed run left behind counts; only a run
\* that goes without the lock may compile beside another.
OneCompile ==
    \A r, s \in Runs :
        r # s /\ KeyAt[r] = KeyAt[s] /\ ~Lockless(r) /\ ~Lockless(s) => ~(child[r] /\ child[s])

\* An entry for the key is there, the last one was evicted, or one is set aside by
\* a store that is between its two renames or was killed there.
Present(k) ==
    \/ cache[k] # 0
    \/ k \in evicted
    \/ \E s \in Runs : key[s] = k /\ aside[s] # 0

\* An app that was stored stays in the cache for its key, whoever else stores
\* there at the same time, until the key's entry is evicted, and from the next store
\* again: only a store between its two renames, or killed there, leaves the key
\* without an entry.
StoredStays == \A r \in Runs : pc[r] = "done" /\ built[r] => Present(key[r])

\* Every run that is not killed ends, whatever it waits for: the lock of its
\* key, its slot, or the compiler of a run that was killed.
EveryRunEnds == \A r \in Runs : <>(pc[r] \in Ended \/ r \in dead)

-----------------------------------------------------------------------------
(***************************************************************************)
(* Why they hold: an invariant that every step preserves                   *)
(***************************************************************************)

\* A run whose claim still counts is the one in the lock it took.
HolderLocks == \A r \in Runs : handle[r] /\ ClaimLive(r) => lock[KeyAt[r]] = r

\* A compiler runs only in the compile phase, and a run gets there with the lock or
\* with a reason to go without.
BuildersLock ==
    \A r \in Runs :
        /\ child[r] => pc[r] = "compile"
        /\ pc[r] \in {"admit", "prepare", "revalidate", "compile"} => handle[r] \/ Lockless(r)

\* An entry is set aside only between the two renames, and a store that found an
\* entry left the key with one.
StoreSteps ==
    \A r \in Runs :
        /\ aside[r] # 0 => pc[r] \in {"rename", "restore"}
        /\ pc[r] \in {"aside", "restore"} => Present(key[r])

IndInv == TypeOK /\ HolderLocks /\ BuildersLock /\ StoreSteps /\ StoredStays
=============================================================================
