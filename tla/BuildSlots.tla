----------------------------- MODULE BuildSlots -----------------------------
(***************************************************************************)
(* Build admission: packages/stim-cli/src/engine/build-slots.ts with the   *)
(* queue of engine/wait-queue.ts, the policy of policy/admission.ts and    *)
(* the claims of packages/core/state/build-capacity.ts.                    *)
(*                                                                         *)
(* At most `cap` native builds run at a time.  Each takes one of the slot  *)
(* claims slot-0 .. slot-(cap-1).  A build that finds none joins a queue   *)
(* of numbered tickets and polls.  A round reads the queue, then the       *)
(* slots, then tries the slots one by one: other builds act in between.    *)
(* Slots and tickets are ownership claims, so taking one is atomic here    *)
(* (theorem LockImplemented of OwnershipClaimProofs), a dead holder is     *)
(* replaced, and one that cannot be verified refuses.                      *)
(***************************************************************************)
EXTENDS Naturals, FiniteSets, FiniteSetsExt

CONSTANTS
    Builds,        \* acquireBuildSlot calls, numbered; the numbers break ties
    Offloads,      \* the ones another machine sent, which never queue
    Caps,          \* the values concurrency.maxBuilds takes
    Unverifiable,  \* whether a killed holder may leave an unrecorded child
    Staging        \* whether a new engine may be staged meanwhile

ASSUME BuildsAssumption == Builds \subseteq Nat \ {0} /\ IsFiniteSet(Builds) /\ Offloads \subseteq Builds

\* A largest cap: a setting, or the one derived for the machine.
ASSUME CapsAssumption == Caps \subseteq Nat \ {0} /\ \E m \in Caps : \A c \in Caps : m >= c

ASSUME FlagsAssumption == Unverifiable \in BOOLEAN /\ Staging \in BOOLEAN

Slots == 0..(Max(Caps) - 1)

VARIABLES
    cap,     \* concurrency.maxBuilds, read again in every round
    engine,  \* this build of stim is current, being replaced, or replaced
    slot,    \* the holder each slot claim names, 0 when there is none
    seq,     \* the number on each build's ticket, 0 without a ticket
    pc,      \* where each build stands
    view     \* what a build read in its round

vars == <<cap, engine, slot, seq, pc, view>>

Steps == {"idle", "hold", "queue", "slots", "try", "join", "wait", "got", "leave",
          "building", "done",
          "dead",    \* killed, nothing it spawned is left
          "heir",    \* killed, the recorded child builds on
          "orphan"}  \* killed before its child was recorded

Views == [max : Caps \cup {0}, ahead : SUBSET Builds, number : 0..(Cardinality(Builds) + 1),
          index : Slots \cup {Max(Caps)}, busy : BOOLEAN, refused : BOOLEAN]

NoView == [max |-> 0, ahead |-> {}, number |-> 0, index |-> 0, busy |-> FALSE, refused |-> FALSE]

TypeOK ==
    /\ cap \in Caps
    /\ engine \in {"current", "staged", "lapsed", "switched"}
    /\ slot \in [Slots -> Builds \cup {0}]
    /\ seq \in [Builds -> 0..Cardinality(Builds)]
    /\ pc \in [Builds -> Steps]
    /\ view \in [Builds -> Views]

Init ==
    /\ cap \in Caps
    /\ engine = "current"
    /\ slot = [i \in Slots |-> 0]
    /\ seq = [b \in Builds |-> 0]
    /\ pc = [b \in Builds |-> "idle"]
    /\ view = [b \in Builds |-> NoView]

-----------------------------------------------------------------------------

\* The process of b runs; what b spawned may outlive it.
Up(b) == pc[b] \notin {"dead", "heir", "orphan"}

\* How readClaimSet sees the holder of a slot.
HeldLive(i) == slot[i] # 0 /\ (Up(slot[i]) \/ pc[slot[i]] = "heir")
Unresolved(i) == slot[i] # 0 /\ pc[slot[i]] = "orphan"
Takeable(i) == ~HeldLive(i) /\ ~Unresolved(i)

\* liveWaiters: the tickets of live builds, ordered by number and, among
\* builds that joined together and took the same number, by start and id.
Waiters == {w \in Builds : seq[w] # 0 /\ Up(w)}

Before(v, w) == seq[v] < seq[w] \/ (seq[v] = seq[w] /\ v < w)

\* queuePosition: behind every waiter, or behind those before its ticket.
Ahead(b) == IF b \in Waiters THEN {w \in Waiters : Before(w, b)} ELSE Waiters

Goto(b, step) == pc' = [pc EXCEPT ![b] = step]

-----------------------------------------------------------------------------
(***************************************************************************)
(* acquireBuildSlot                                                        *)
(***************************************************************************)

\* tryAcquireBuildSlotClaim of an offloaded build: straight to the slots.
Offload(b) ==
    /\ pc[b] = "idle"
    /\ b \in Offloads
    /\ view' = [view EXCEPT ![b].max = cap]
    /\ Goto(b, "try")
    /\ UNCHANGED <<cap, engine, slot, seq>>

Arrive(b) ==
    /\ pc[b] = "idle"
    /\ b \notin Offloads
    /\ Goto(b, "hold")
    /\ UNCHANGED <<cap, engine, slot, seq, view>>

\* holdForSwitch: a staged engine holds the build until SLOT_HOLD_MS after the
\* staging; a switched one ends it.
HoldForSwitch(b) ==
    /\ pc[b] = "hold"
    /\ engine # "staged"
    /\ Goto(b, IF engine = "switched" THEN "done" ELSE "queue")
    /\ UNCHANGED <<cap, engine, slot, seq, view>>

\* The top of a round: switchedEngine, readMax, liveWaiters, queuePosition.
EndForSwitch(b) ==
    /\ pc[b] = "queue"
    /\ engine = "switched"
    /\ Goto(b, "leave")
    /\ UNCHANGED <<cap, engine, slot, seq, view>>

ReadQueue(b) ==
    /\ pc[b] = "queue"
    /\ engine # "switched"
    /\ view' = [view EXCEPT ![b] =
           [NoView EXCEPT !.max = cap, !.ahead = Ahead(b),
                          !.number = Max({0} \cup {seq[w] : w \in Waiters}) + 1]]
    /\ Goto(b, "slots")
    /\ UNCHANGED <<cap, engine, slot, seq>>

\* Mutant of BusySlots: the claim of a dead holder counts as held.
BusySlotsDead(max) == {i \in 0..(max - 1) : slot[i] # 0}

\* busySlots of listBuildSlots, the ones that slotTurn subtracts.
BusySlots(max) == {i \in 0..(max - 1) : HeldLive(i)}

\* slotTurn: only the first positions that fit beside the live holders try.
ReadSlots(b) ==
    /\ pc[b] = "slots"
    /\ Goto(b, IF Cardinality(view[b].ahead) + Cardinality(BusySlots(view[b].max)) < view[b].max
               THEN "try" ELSE "join")
    /\ UNCHANGED <<cap, engine, slot, seq, view>>

\* Mutant of TakeSlot: a slot is passed over only while its holder is alive.
TakeSlotUnresolved(b) ==
    /\ pc[b] = "try"
    /\ view[b].index < view[b].max
    /\ ~HeldLive(view[b].index)
    /\ slot' = [slot EXCEPT ![view[b].index] = b]
    /\ Goto(b, "got")
    /\ view' = [view EXCEPT ![b] = NoView]
    /\ UNCHANGED <<cap, engine, seq>>

\* tryAcquireBuildSlotClaim takes the first slot it can, ...
TakeSlot(b) ==
    /\ pc[b] = "try"
    /\ view[b].index < view[b].max
    /\ Takeable(view[b].index)
    /\ slot' = [slot EXCEPT ![view[b].index] = b]
    /\ Goto(b, "got")
    /\ view' = [view EXCEPT ![b] = NoView]
    /\ UNCHANGED <<cap, engine, seq>>

\* ... remembers whether it passed one that is busy or one that refused ...
PassSlot(b) ==
    /\ pc[b] = "try"
    /\ view[b].index < view[b].max
    /\ ~Takeable(view[b].index)
    /\ view' = [view EXCEPT ![b] = [view[b] EXCEPT !.index = view[b].index + 1,
                                                  !.busy = view[b].busy \/ HeldLive(view[b].index),
                                                  !.refused = view[b].refused \/ Unresolved(view[b].index)]]
    /\ UNCHANGED <<cap, engine, slot, seq, pc>>

\* ... and past the last one throws the refusal, or waits for a busy one.  An
\* offloaded build is declined either way.
NoSlot(b) ==
    /\ pc[b] = "try"
    /\ view[b].index >= view[b].max
    /\ Goto(b, IF b \in Offloads \/ (view[b].refused /\ ~view[b].busy) THEN "leave" ELSE "join")
    /\ UNCHANGED <<cap, engine, slot, seq, view>>

\* Mutant of TakeTicket: a build takes a new ticket in every round.
TakeTicketAgain(b) ==
    /\ pc[b] = "join"
    /\ seq' = [seq EXCEPT ![b] = view[b].number]
    /\ Goto(b, "queue")
    /\ view' = [view EXCEPT ![b] = NoView]
    /\ UNCHANGED <<cap, engine, slot>>

\* takeWaitTicket numbers the ticket after every waiter of the round, and the
\* build looks again at once.
TakeTicket(b) ==
    /\ pc[b] = "join"
    /\ seq[b] = 0
    /\ seq' = [seq EXCEPT ![b] = view[b].number]
    /\ Goto(b, "queue")
    /\ view' = [view EXCEPT ![b] = NoView]
    /\ UNCHANGED <<cap, engine, slot>>

\* With a ticket it sleeps until the next round, ...
Sleep(b) ==
    /\ pc[b] = "join"
    /\ seq[b] # 0
    /\ Goto(b, "wait")
    /\ view' = [view EXCEPT ![b] = NoView]
    /\ UNCHANGED <<cap, engine, slot, seq>>

Poll(b) ==
    /\ pc[b] = "wait"
    /\ Goto(b, "queue")
    /\ UNCHANGED <<cap, engine, slot, seq, view>>

\* ... unless it is overdue or was cancelled.
GiveUp(b) ==
    /\ pc[b] = "wait"
    /\ Goto(b, "leave")
    /\ UNCHANGED <<cap, engine, slot, seq, view>>

\* The finally block releases the ticket, after the slot was taken or not.
LeaveQueue(b) ==
    /\ pc[b] \in {"got", "leave"}
    /\ seq' = [seq EXCEPT ![b] = 0]
    /\ Goto(b, IF pc[b] = "got" THEN "building" ELSE "done")
    /\ view' = [view EXCEPT ![b] = NoView]
    /\ UNCHANGED <<cap, engine, slot>>

\* releaseBuildSlot
ReleaseBuildSlot(b) ==
    /\ pc[b] = "building"
    /\ slot' = [i \in Slots |-> IF slot[i] = b THEN 0 ELSE slot[i]]
    /\ Goto(b, "done")
    /\ UNCHANGED <<cap, engine, seq, view>>

-----------------------------------------------------------------------------
(***************************************************************************)
(* The environment                                                         *)
(***************************************************************************)

\* A kill: the child of a building process may live on, recorded or not.
Kill(b) ==
    /\ pc[b] \notin {"idle", "done"} /\ Up(b)
    /\ \E end \in IF pc[b] # "building" THEN {"dead"}
                   ELSE {"dead", "heir"} \cup (IF Unverifiable THEN {"orphan"} ELSE {}) :
          Goto(b, end)
    /\ view' = [view EXCEPT ![b] = NoView]
    /\ UNCHANGED <<cap, engine, slot, seq>>

HeirEnds(b) ==
    /\ pc[b] = "heir"
    /\ Goto(b, "dead")
    /\ UNCHANGED <<cap, engine, slot, seq, view>>

\* The setting, or the derived cap, changes.
ChangeCap ==
    /\ cap' \in Caps \ {cap}
    /\ UNCHANGED <<engine, slot, seq, pc, view>>

\* A new engine is staged; the hold lapses, or the engine switches.
Stage ==
    /\ Staging
    /\ engine = "current"
    /\ engine' = "staged"
    /\ UNCHANGED <<cap, slot, seq, pc, view>>

Unstage ==
    /\ engine \in {"staged", "lapsed"}
    /\ engine' \in {"lapsed", "switched"} \ {engine}
    /\ UNCHANGED <<cap, slot, seq, pc, view>>

-----------------------------------------------------------------------------

Acquire(b) ==
    \/ Offload(b) \/ Arrive(b) \/ HoldForSwitch(b) \/ EndForSwitch(b)
    \/ ReadQueue(b) \/ ReadSlots(b) \/ TakeSlot(b) \/ PassSlot(b) \/ NoSlot(b)
    \/ TakeTicket(b) \/ Sleep(b) \/ Poll(b) \/ LeaveQueue(b)

Next == \/ \E b \in Builds : Acquire(b) \/ GiveUp(b) \/ ReleaseBuildSlot(b) \/ Kill(b) \/ HeirEnds(b)
        \/ ChangeCap \/ Stage \/ Unstage

Spec == Init /\ [][Next]_vars

\* A live build goes on with its rounds, builds and their children end, and
\* the hold of a staged engine lapses.
Fairness == /\ \A b \in Builds : /\ WF_vars(Acquire(b))
                                  /\ WF_vars(ReleaseBuildSlot(b))
                                  /\ WF_vars(HeirEnds(b))
            /\ WF_vars(Unstage)

FairSpec == Spec /\ Fairness

-----------------------------------------------------------------------------
(***************************************************************************)
(* Properties                                                              *)
(***************************************************************************)

\* A native build of b is running, or may be: an unrecorded child cannot be
\* known to have ended.
Running(b) == pc[b] \in {"got", "building", "heir", "orphan"}

\* However the builds' rounds interleave and whoever is killed, no more native
\* builds run than the largest cap allows: a slot whose holder cannot be
\* verified is never given to another build.
CapHeld == Cardinality({b \in Builds : Running(b)}) <= Max(Caps)

\* Every build that asks for a slot gets one or is told why not: a killed
\* holder, a killed waiter or a lowered cap keeps nobody waiting for ever.
EveryBuildServed ==
    \A b \in Builds : pc[b] = "hold" ~> pc[b] \in {"building", "done", "dead", "heir", "orphan"}
=============================================================================
