--------------------------- MODULE SimPoolProofs ---------------------------
(***************************************************************************)
(* The pool of parked simulators, for any workspaces, cleaners, simulators *)
(* and bounds: a simulator is in one place, one child at a time works on   *)
(* it, what the records say of approvals is true, and no operation on the  *)
(* pool touches a simulator that a workspace is assigned.                  *)
(***************************************************************************)
EXTENDS SimPool, TLAPS

-----------------------------------------------------------------------------
\* The workspaces and the cleaners are the actors, and are not the values that
\* stand for no simulator, no holder and an unresolved claim.
LEMMA Distinct ==
    /\ Workspaces \subseteq Actors /\ Cleaners \subseteq Actors
    /\ NoDevice \notin Devices
    /\ NoOne \notin Actors /\ Blocked \notin Actors /\ NoOne # Blocked
  BY PoolAssumption, Zenon DEF Actors

\* The blank values are values of their kinds.
LEMMA Blank == NotParked \in Records /\ Idle \in Ops /\ NoSlot \in Slots
  BY PoolAssumption DEF NotParked, Records, Idle, Ops, Places, Commands, Native, NoSlot, Slots

\* Moving on keeps the kinds of what the actors are at.
LEMMA OpTypes ==
    ASSUME TypeOK, NEW a \in Actors
    PROVE  /\ \A place \in Places : Goto(a, place) => op' \in [Actors -> Ops]
           /\ Finish(a) => op' \in [Actors -> Ops]
           /\ Onward(a) => op' \in [Actors -> Ops]
<1>1. \A place \in Places : Goto(a, place) => op' \in [Actors -> Ops]
  <2> SUFFICES ASSUME NEW place \in Places, Goto(a, place) PROVE op' \in [Actors -> Ops]
    OBVIOUS
  <2>1. [op[a] EXCEPT !.at = place] \in Ops
    BY DEF TypeOK, Ops
  <2> QED BY <2>1, Zenon DEF TypeOK, Goto
<1>2. Finish(a) => op' \in [Actors -> Ops]
  BY Blank DEF TypeOK, Finish
<1>3. Onward(a) => op' \in [Actors -> Ops]
  <2>1. [Idle EXCEPT !.cmd = op[a].cmd, !.at = "next", !.todo = op[a].todo, !.listed = op[a].listed] \in Ops
    BY Blank, Zenon DEF TypeOK, Ops, Places
  <2> QED BY <2>1 DEF TypeOK, Onward
<1> QED BY <1>1, <1>2, <1>3, Zenon

\* The changes that steps make to what an actor is at keep its kind.
LEMMA OpUpdates ==
    ASSUME NEW o \in Ops
    PROVE  /\ \A at \in Places, dev \in Devices \cup {NoDevice} :
                  [o EXCEPT !.at = at, !.dev = dev] \in Ops
           /\ \A at \in Places, dev \in Devices \cup {NoDevice}, todo, listed \in SUBSET Devices :
                  [o EXCEPT !.at = at, !.dev = dev, !.todo = todo, !.listed = listed] \in Ops
           /\ \A at \in Places, todo, listed \in SUBSET Devices :
                  [o EXCEPT !.at = at, !.todo = todo, !.listed = listed] \in Ops
           /\ \A todo \in SUBSET Devices :
                  [o EXCEPT !.todo = todo] \in Ops
           /\ \A at \in Places, kind \in Native \cup {"none", "adopt"}, dev \in Devices, todo, listed \in SUBSET Devices :
                  [o EXCEPT !.at = at, !.kind = kind, !.dev = dev, !.todo = todo, !.listed = listed] \in Ops
           /\ \A todo, listed \in SUBSET Devices :
                  [o EXCEPT !.todo = todo, !.listed = listed] \in Ops
           /\ \A at \in Places, started, done \in BOOLEAN, rec \in Records :
                  [o EXCEPT !.at = at, !.started = started, !.done = done, !.rec = rec] \in Ops
           /\ \A at \in Places, done \in BOOLEAN :
                  [o EXCEPT !.at = at, !.done = done] \in Ops
           /\ \A started \in BOOLEAN :
                  [o EXCEPT !.started = started] \in Ops
<1>1. \A at \in Places, dev \in Devices \cup {NoDevice} :
         [o EXCEPT !.at = at, !.dev = dev] \in Ops
  BY Zenon DEF Ops
<1>2. \A at \in Places, dev \in Devices \cup {NoDevice}, todo, listed \in SUBSET Devices :
         [o EXCEPT !.at = at, !.dev = dev, !.todo = todo, !.listed = listed] \in Ops
  BY Zenon DEF Ops
<1>3. \A at \in Places, todo, listed \in SUBSET Devices :
         [o EXCEPT !.at = at, !.todo = todo, !.listed = listed] \in Ops
  BY Zenon DEF Ops
<1>4. \A todo \in SUBSET Devices :
         [o EXCEPT !.todo = todo] \in Ops
  BY Zenon DEF Ops
<1>5. \A at \in Places, kind \in Native \cup {"none", "adopt"}, dev \in Devices, todo, listed \in SUBSET Devices :
         [o EXCEPT !.at = at, !.kind = kind, !.dev = dev, !.todo = todo, !.listed = listed] \in Ops
  BY Zenon DEF Ops
<1>6. \A todo, listed \in SUBSET Devices :
         [o EXCEPT !.todo = todo, !.listed = listed] \in Ops
  BY Zenon DEF Ops
<1>7. \A at \in Places, started, done \in BOOLEAN, rec \in Records :
         [o EXCEPT !.at = at, !.started = started, !.done = done, !.rec = rec] \in Ops
  BY Zenon DEF Ops
<1>8. \A at \in Places, done \in BOOLEAN :
         [o EXCEPT !.at = at, !.done = done] \in Ops
  BY Zenon DEF Ops
<1>9. \A started \in BOOLEAN :
         [o EXCEPT !.started = started] \in Ops
  BY Zenon DEF Ops
<1> QED BY <1>1, <1>2, <1>3, <1>4, <1>5, <1>6, <1>7, <1>8, <1>9, Zenon

\* What settleParkedAfter leaves in the pool is a record.
LEMMA AfterTypes == \A o \in Ops : After(o) \in Records
<1> SUFFICES ASSUME NEW o \in Ops PROVE After(o) \in Records
  OBVIOUS
<1>1. o.rec \in Records
  BY Zenon DEF Ops
<1>2. Erased(o.rec) \in Records
  BY <1>1, Zenon DEF Erased, Records
<1> QED BY <1>1, <1>2, Blank, Zenon DEF After

\* One record in the pool, one simulator and one claim changed.
LEMMA OneChanged ==
    ASSUME TypeOK, NEW d \in Devices \cup {NoDevice}
    PROVE  /\ \A r \in Records : [pool EXCEPT ![d] = r] \in [Devices -> Records]
           /\ [life EXCEPT ![d] = "gone"] \in [Devices -> {"none", "live", "gone"}]
           /\ \A h \in Actors \cup {NoOne, Blocked} :
                  [claim EXCEPT ![d] = h] \in [Devices -> Actors \cup {NoOne, Blocked}]
           /\ approved \ {d} \in SUBSET Devices
  BY Zenon DEF TypeOK

-----------------------------------------------------------------------------
\* Every step keeps the kinds of values.
LEMMA TypeStep == TypeOK /\ Claimed /\ Next => TypeOK'
<1> SUFFICES ASSUME TypeOK, Claimed, Next PROVE TypeOK'
  OBVIOUS
<1> USE Distinct, Blank, PoolAssumption DEF TypeOK, config, sims, claims, budget
<1>1. ASSUME NEW w \in Workspaces, Install(w) PROVE TypeOK'
  BY <1>1, ZenonT(60) DEF Install, Slots, Live
<1>2. ASSUME NEW w \in Workspaces, ClearMissing(w) PROVE TypeOK'
  BY <1>2, Zenon DEF ClearMissing
<1>3. ASSUME NEW w \in Workspaces, Run(w) PROVE TypeOK'
  BY <1>3, ZenonT(60) DEF Run, Ops, Idle, Places, Commands, Live
<1>4. ASSUME NEW w \in Workspaces, Adopt(w) PROVE TypeOK'
  <2> DEFINE d == op[w].dev
  <2>1. d \in Devices /\ claim' = [claim EXCEPT ![d] = NoOne]
    BY <1>4, Zenon DEF Adopt, Claimed, Holds, Holding
  <2>2. op' \in [Actors -> Ops]
    BY <1>4, OpTypes, Zenon DEF Adopt
  <2>3. Adopted(pool[d]) \in BOOLEAN
    BY <2>1, Zenon DEF Adopted, Erased, Records
  <2>4. slot' \in [Workspaces -> Slots]
    BY <1>4, <2>1, <2>3, SMTT(30) DEF Adopt, Slots
  <2>5. pool' \in [Devices -> Records]
    BY <1>4, <2>1 DEF Adopt, Unparked
  <2> QED BY <1>4, <2>1, <2>2, <2>4, <2>5, Zenon DEF Adopt
<1>5. ASSUME NEW w \in Workspaces, NothingTaken(w) PROVE TypeOK'
  BY <1>5, Zenon DEF NothingTaken, Ops, Idle, Places, Commands
<1>6. ASSUME NEW w \in Workspaces, Create(w) PROVE TypeOK'
  <2>1. PICK d \in Devices : /\ life' = [life EXCEPT ![d] = "live"]
                             /\ op' = [op EXCEPT ![w] = [@ EXCEPT !.at = "record", !.dev = d]]
    BY <1>6, Zenon DEF Create
  <2>2. [op[w] EXCEPT !.at = "record", !.dev = d] \in Ops
    <3>1. op[w] \in Ops /\ "record" \in Places
      BY Zenon DEF Places
    <3> QED BY <3>1, OpUpdates, Zenon
  <2> QED BY <1>6, <2>1, <2>2, Zenon DEF Create
<1>7. ASSUME NEW w \in Workspaces, SetDevice(w) PROVE TypeOK'
  <2>1. op' \in [Actors -> Ops]
    BY <1>7, OpTypes, Zenon DEF SetDevice
  <2>2. slot' \in [Workspaces -> Slots]
    BY <1>7, Zenon DEF SetDevice, Slots, Ops
  <2> QED BY <1>7, <2>1, <2>2, Zenon DEF SetDevice
<1>8. ASSUME NEW w \in Workspaces, Remove(w) PROVE TypeOK'
  BY <1>8, ZenonT(30) DEF Remove, Ops, Idle, Places, Commands, Slots, Live
<1>9. ASSUME NEW w \in Workspaces, Park(w) PROVE TypeOK'
  <2> DEFINE d == op[w].dev
  <2>1. parks + 1 \in 0 .. MaxParks
    BY <1>9 DEF Park
  <2>2. [approved |-> slot[w].approved, mark |-> NoOne, since |-> parks + 1] \in Records
    BY <2>1, Zenon DEF Records, Slots
  <2>3. pool' \in [Devices -> Records]
    <3>1. d \in Devices \cup {NoDevice}
      BY ZenonT(30) DEF Ops
    <3> QED BY <1>9, <2>2, <3>1, OneChanged, Zenon DEF Park
  <2>4. Overflow(pool') \in SUBSET Devices
    BY Zenon DEF Overflow
  <2>5. [op[w] EXCEPT !.at = "next", !.dev = NoDevice, !.todo = Overflow(pool'), !.listed = Overflow(pool')] \in Ops
    <3>1. op[w] \in Ops /\ "next" \in Places /\ NoDevice \in Devices \cup {NoDevice}
      BY Zenon DEF Places
    <3> QED BY <2>4, <3>1, OpUpdates, Zenon
  <2>6. slot' \in [Workspaces -> Slots]
    BY <1>9, Zenon DEF Park
  <2> QED BY <1>9, <2>1, <2>3, <2>5, <2>6, Zenon DEF Park
<1>10. ASSUME NEW w \in Workspaces, ParkFails(w) PROVE TypeOK'
  BY <1>10, OpTypes, Zenon DEF ParkFails, Places
<1>11. ASSUME NEW w \in Workspaces, DeleteOwn(w) PROVE TypeOK'
  <2>1. op[w].dev \in Devices \cup {NoDevice}
    BY Zenon DEF Ops
  <2>2. op' \in [Actors -> Ops]
    BY <1>11, OpTypes, Zenon DEF DeleteOwn, Places
  <2> QED BY <1>11, <2>1, <2>2, OneChanged, Zenon DEF DeleteOwn
<1>12. ASSUME NEW w \in Workspaces, DeleteOwnFails(w) PROVE TypeOK'
  BY <1>12, OpTypes, Zenon DEF DeleteOwnFails
<1>13. ASSUME NEW w \in Workspaces, ClearOwn(w) PROVE TypeOK'
  <2>1. op' \in [Actors -> Ops]
    BY <1>13, OpTypes, Zenon DEF ClearOwn
  <2>2. slot' \in [Workspaces -> Slots]
    BY <1>13, Zenon DEF ClearOwn
  <2> QED BY <1>13, <2>1, <2>2, Zenon DEF ClearOwn
<1>14. ASSUME NEW g \in Cleaners, ReadConfig(g) PROVE TypeOK'
  <2>1. Referenced \in SUBSET Devices /\ {d \in Devices : Parked(d)} \in SUBSET Devices
    BY DEF Referenced, Assigned, Slots
  <2>2. PICK c \in {"delete", "erase", "orphans"} :
            op' = [op EXCEPT ![g] = [Idle EXCEPT !.cmd = c, !.at = "list",
                                                 !.todo = IF c = "orphans" THEN Referenced
                                                          ELSE {d \in Devices : Parked(d)}]]
    BY <1>14, Zenon DEF ReadConfig
  <2>3. op' \in [Actors -> Ops]
    BY <2>1, <2>2, ZenonT(30) DEF Ops, Idle, Places, Commands
  <2> QED BY <1>14, <2>3, Zenon DEF ReadConfig
<1>15. ASSUME NEW g \in Cleaners, List(g) PROVE TypeOK'
  <2>1. Live \in SUBSET Devices
    BY Zenon DEF Live
  <2> DEFINE at == IF op[g].cmd = "orphans" THEN "reap" ELSE "next"
             todo == CASE op[g].cmd = "orphans" -> Live \ op[g].todo
                       [] op[g].cmd = "erase" -> Live \cap op[g].todo
                       [] OTHER -> op[g].todo
             listed == IF op[g].cmd = "delete" THEN Live \cap op[g].todo ELSE {}
  <2>3. at \in Places /\ todo \in SUBSET Devices /\ listed \in SUBSET Devices
    BY <2>1, Zenon DEF Ops, Places
  <2> HIDE DEF at, todo, listed
  <2>4. [op[g] EXCEPT !.at = at, !.todo = todo, !.listed = listed] \in Ops
    <3>1. op[g] \in Ops
      OBVIOUS
    <3> QED BY <2>3, <3>1, OpUpdates, Zenon
  <2>2. op' \in [Actors -> Ops]
    BY <1>15, <2>4, Zenon DEF List, at, todo, listed
  <2> QED BY <1>15, <2>2, Zenon DEF List
<1>16. ASSUME NEW g \in Cleaners, Reap(g) PROVE TypeOK'
  <2>1. PICK d \in op[g].todo : /\ op' = [op EXCEPT ![g].todo = @ \ {d}]
                               /\ \/ /\ life' = [life EXCEPT ![d] = "gone"]
                                     /\ approved' = approved \ {d}
                                  \/ UNCHANGED sims
    BY <1>16, Zenon DEF Reap
  <2>2. d \in Devices
    BY Zenon DEF Ops
  <2>3. [op[g] EXCEPT !.todo = op[g].todo \ {d}] \in Ops
    <3>1. op[g] \in Ops /\ op[g].todo \ {d} \in SUBSET Devices
      BY Zenon DEF Ops
    <3> QED BY <3>1, OpUpdates, Zenon
  <2> QED BY <1>16, <2>1, <2>2, <2>3, OneChanged, SMTT(30) DEF Reap
<1>17. ASSUME NEW g \in Cleaners, BootedParkedPass(g) PROVE TypeOK'
  <2>1. PICK due \in SUBSET {d \in Devices : Parked(d)} :
            op' = [op EXCEPT ![g] = [Idle EXCEPT !.cmd = "shutdown", !.at = "next", !.todo = due]]
    BY <1>17, Zenon DEF BootedParkedPass
  <2>2. op' \in [Actors -> Ops]
    BY <2>1, Zenon DEF Ops, Idle, Places, Commands
  <2> QED BY <1>17, <2>2, Zenon DEF BootedParkedPass
<1>18. ASSUME NEW a \in Actors, NEW d \in Devices, Claim(a, d) PROVE TypeOK'
  <2>1. PICK k \in Kinds(a, d) :
            op' = [op EXCEPT ![a] = [@ EXCEPT !.at = "claimed", !.kind = k, !.dev = d,
                                              !.todo = op[a].todo \ {d}, !.listed = op[a].listed \ {d}]]
    BY <1>18, Zenon DEF Claim
  <2>2. k \in Native \cup {"none", "adopt"}
    BY Zenon DEF Kinds, Native
  <2>3. [op[a] EXCEPT !.at = "claimed", !.kind = k, !.dev = d,
                      !.todo = op[a].todo \ {d}, !.listed = op[a].listed \ {d}] \in Ops
    <3>1. op[a] \in Ops /\ op[a].todo \ {d} \in SUBSET Devices /\ op[a].listed \ {d} \in SUBSET Devices
      BY Zenon DEF Ops
    <3>2. "claimed" \in Places
      BY Zenon DEF Places
    <3> QED BY <2>2, <3>1, <3>2, OpUpdates, Zenon
  <2> QED BY <1>18, <2>1, <2>3, Zenon DEF Claim
<1>19. ASSUME NEW a \in Actors, NEW d \in Devices, NotClaimed(a, d) PROVE TypeOK'
  <2>1. op' \in [Actors -> Ops]
    <3>1. CASE op' = [op EXCEPT ![a] = [@ EXCEPT !.todo = op[a].todo \ {d}, !.listed = op[a].listed \ {d}]]
      <4>1. [op[a] EXCEPT !.todo = op[a].todo \ {d}, !.listed = op[a].listed \ {d}] \in Ops
        <5>1. op[a] \in Ops /\ op[a].todo \ {d} \in SUBSET Devices /\ op[a].listed \ {d} \in SUBSET Devices
          BY Zenon DEF Ops
        <5> QED BY <5>1, OpUpdates, Zenon
      <4> QED BY <3>1, <4>1, Zenon
    <3>2. CASE Finish(a)
      BY <3>2, OpTypes, Zenon
    <3> QED BY <1>19, <3>1, <3>2, Zenon DEF NotClaimed
  <2> QED BY <1>19, <2>1, Zenon DEF NotClaimed
<1>20. ASSUME NEW a \in Actors, Ends(a) PROVE TypeOK'
  BY <1>20, OpTypes, Zenon DEF Ends
<1>21. ASSUME NEW a \in Actors, Mark(a) PROVE TypeOK'
  <2> DEFINE d == op[a].dev
  <2>1. d \in Devices
    BY <1>21, Zenon DEF Mark, Claimed, Holds, Holding
  <2>2. CASE StillParked(d)
    <3>1. [pool[d] EXCEPT !.mark = NoOne] \in Records /\ [pool[d] EXCEPT !.mark = a] \in Records
      BY <2>1, SMTT(30) DEF Records
    <3>2. [op[a] EXCEPT !.at = "marked", !.started = FALSE, !.done = FALSE,
                        !.rec = [pool[d] EXCEPT !.mark = NoOne]] \in Ops
      <4>1. op[a] \in Ops /\ "marked" \in Places /\ FALSE \in BOOLEAN
        BY Zenon DEF Places
      <4> QED BY <3>1, <4>1, OpUpdates, Zenon
    <3>3. pool' \in [Devices -> Records]
      BY <1>21, <2>1, <2>2, <3>1, SMTT(30) DEF Mark
    <3> QED BY <1>21, <2>1, <2>2, <3>2, <3>3, SMTT(30) DEF Mark
  <2>3. CASE ~StillParked(d)
    <3>1. op' \in [Actors -> Ops]
      BY <1>21, <2>3, OpTypes, Zenon DEF Mark
    <3> QED BY <1>21, <2>1, <2>3, <3>1 DEF Mark
  <2> QED BY <2>2, <2>3, Zenon
<1>22. ASSUME NEW a \in Actors, ChildPending(a) PROVE TypeOK'
  <2>1. op' \in [Actors -> Ops]
    BY <1>22, OpTypes, Zenon DEF ChildPending, Places
  <2> QED BY <1>22, <2>1, Zenon DEF ChildPending
<1>23. ASSUME NEW a \in Actors, EraseStarts(a) PROVE TypeOK'
  <2>1. [op[a] EXCEPT !.started = TRUE] \in Ops
    <3>1. op[a] \in Ops /\ TRUE \in BOOLEAN
      OBVIOUS
    <3> QED BY <3>1, OpUpdates, Zenon
  <2> QED BY <1>23, <2>1, Zenon DEF EraseStarts
<1>24. ASSUME NEW a \in Actors, NativeActs(a) PROVE TypeOK'
  <2>1. op[a].dev \in Devices \cup {NoDevice}
    BY Zenon DEF Ops
  <2>2. op' \in [Actors -> Ops]
    BY <1>24, OpTypes, Zenon DEF NativeActs, Places
  <2> QED BY <1>24, <2>1, <2>2, OneChanged, Zenon DEF NativeActs, Effect
<1>25. ASSUME NEW a \in Actors, NativeEnds(a) PROVE TypeOK'
  <2>1. PICK done \in BOOLEAN : op' = [op EXCEPT ![a] = [@ EXCEPT !.at = "settle", !.done = done]]
    BY <1>25, Zenon DEF NativeEnds
  <2>2. [op[a] EXCEPT !.at = "settle", !.done = done] \in Ops
    <3>1. op[a] \in Ops /\ "settle" \in Places
      BY Zenon DEF Places
    <3> QED BY <3>1, OpUpdates, Zenon
  <2> QED BY <1>25, <2>1, <2>2, SMTT(30) DEF NativeEnds
<1>26. ASSUME NEW a \in Actors, Settle(a) PROVE TypeOK'
  <2> DEFINE d == op[a].dev
  <2>1. d \in Devices
    BY <1>26, Zenon DEF Settle, Claimed, Holds, Holding, Working
  <2>2. After(op[a]) \in Records
    BY AfterTypes, Zenon
  <2>3. pool' \in [Devices -> Records]
    BY <1>26, <2>1, <2>2, Zenon DEF Settle
  <2>4. op' \in [Actors -> Ops]
    BY <1>26, OpTypes, Zenon DEF Settle
  <2> QED BY <1>26, <2>1, <2>3, <2>4, Zenon DEF Settle
<1>27. ASSUME NEW a \in Actors, Kill(a) PROVE TypeOK'
  <2> DEFINE d == op[a].dev
  <2>1. op' \in [Actors -> Ops]
    BY <1>27, OpTypes, Zenon DEF Kill
  <2>2. claim' \in [Devices -> Actors \cup {NoOne, Blocked}]
    BY <1>27, Zenon DEF Kill, Abandoned
  <2>3. orphan' \in [Devices -> {"none", "delete", "erase"}]
    <3>1. CASE op[a].at = "native" /\ (op[a].kind = "delete" \/ op[a].started)
      <4>1. op[a].kind \in {"delete", "erase"}
        BY <3>1, Zenon DEF Claimed, Holds, Working
      <4> QED BY <1>27, <4>1, Zenon DEF Kill
    <3> QED BY <1>27, <3>1, Zenon DEF Kill
  <2>4. kills' \in 0 .. MaxKills
    BY <1>27 DEF Kill
  <2> QED BY <1>27, <2>1, <2>2, <2>3, <2>4, Zenon DEF Kill
<1>28. ASSUME NEW d \in Devices, OrphanEnds(d) PROVE TypeOK'
  BY <1>28 DEF OrphanEnds, Effect
<1>29. ASSUME NEW d \in Devices, Unblock(d) PROVE TypeOK'
  BY <1>29, Zenon DEF Unblock
<1> QED
  BY <1>1, <1>2, <1>3, <1>4, <1>5, <1>6, <1>7, <1>8, <1>9, <1>10, <1>11, <1>12, <1>13, <1>14, <1>15,
     <1>16, <1>17, <1>18, <1>19, <1>20, <1>21, <1>22, <1>23, <1>24, <1>25, <1>26, <1>27, <1>28, <1>29, Zenon
     DEF Next, Workspace, Cleaner, Operation

-----------------------------------------------------------------------------
(***************************************************************************)
(* Every simulator is in one place                                         *)
(***************************************************************************)

\* What a step does that brings no simulator into a slot, the pool or the hands
\* of a workspace.
NothingPlaced ==
    /\ \A d \in Devices : Parked(d)' => Parked(d)
    /\ \A d \in Devices : life'[d] = "none" => life[d] = "none"
    /\ \A w \in Workspaces : slot'[w].dev \in {slot[w].dev, NoDevice}
    /\ \A w \in Workspaces : op'[w].at \in {"record", "park", "delete"} =>
           /\ op'[w].dev = op[w].dev /\ slot'[w].dev = slot[w].dev
           /\ op[w].at = op'[w].at \/ (op[w].at = "park" /\ op'[w].at = "delete")

\* Such a step keeps every simulator in one place.
LEMMA PlacedKept == TypeOK /\ OnePlace /\ Owned /\ NothingPlaced => OnePlace' /\ Owned'
<1> SUFFICES ASSUME TypeOK, OnePlace, Owned, NothingPlaced PROVE OnePlace' /\ Owned'
  OBVIOUS
<1> USE Distinct DEF TypeOK, NothingPlaced, Slots
<1>1. OnePlace'
  BY DEF OnePlace, Assigned
<1>2. Owned'
  BY SMTT(60) DEF Owned
<1> QED BY <1>1, <1>2, Zenon

\* The steps that are not the adoption, the creation, the assignment, the removal
\* or the parking of a simulator are such steps.
LEMMA OrdinarySteps ==
    ASSUME TypeOK, Claimed
    PROVE  /\ (\A w \in Workspaces : Install(w) => NothingPlaced)
           /\ (\A w \in Workspaces : ClearMissing(w) => NothingPlaced)
           /\ (\A w \in Workspaces : Run(w) => NothingPlaced)
           /\ (\A w \in Workspaces : NothingTaken(w) => NothingPlaced)
           /\ (\A w \in Workspaces : ParkFails(w) => NothingPlaced)
           /\ (\A w \in Workspaces : DeleteOwn(w) => NothingPlaced)
           /\ (\A w \in Workspaces : DeleteOwnFails(w) => NothingPlaced)
           /\ (\A w \in Workspaces : ClearOwn(w) => NothingPlaced)
           /\ (\A g \in Cleaners : ReadConfig(g) => NothingPlaced)
           /\ (\A g \in Cleaners : List(g) => NothingPlaced)
           /\ (\A g \in Cleaners : Reap(g) => NothingPlaced)
           /\ (\A g \in Cleaners : BootedParkedPass(g) => NothingPlaced)
           /\ (\A a \in Actors, d \in Devices : Claim(a, d) => NothingPlaced)
           /\ (\A a \in Actors, d \in Devices : NotClaimed(a, d) => NothingPlaced)
           /\ (\A a \in Actors : Ends(a) => NothingPlaced)
           /\ (\A a \in Actors : Mark(a) => NothingPlaced)
           /\ (\A a \in Actors : ChildPending(a) => NothingPlaced)
           /\ (\A a \in Actors : EraseStarts(a) => NothingPlaced)
           /\ (\A a \in Actors : NativeActs(a) => NothingPlaced)
           /\ (\A a \in Actors : NativeEnds(a) => NothingPlaced)
           /\ (\A a \in Actors : Settle(a) => NothingPlaced)
           /\ (\A a \in Actors : Kill(a) => NothingPlaced)
           /\ (\A d \in Devices : OrphanEnds(d) => NothingPlaced)
           /\ (\A d \in Devices : Unblock(d) => NothingPlaced)
<1> USE Distinct DEF TypeOK, NothingPlaced, Parked, config, sims, claims, budget, Goto, Finish, Onward
<1>1. \A w \in Workspaces : Install(w) => NothingPlaced
  BY DEF Install, Slots, Live
<1>2. \A w \in Workspaces : ClearMissing(w) => NothingPlaced
  BY DEF ClearMissing, Idle, NoSlot
<1>3. \A w \in Workspaces : Run(w) => NothingPlaced
  BY DEF Run, Idle
<1>4. \A w \in Workspaces : NothingTaken(w) => NothingPlaced
  BY DEF NothingTaken, Idle
<1>5. \A w \in Workspaces : ParkFails(w) => NothingPlaced
  BY DEF ParkFails
<1>6. \A w \in Workspaces : DeleteOwn(w) => NothingPlaced
  BY DEF DeleteOwn
<1>7. \A w \in Workspaces : DeleteOwnFails(w) => NothingPlaced
  BY DEF DeleteOwnFails, Idle
<1>8. \A w \in Workspaces : ClearOwn(w) => NothingPlaced
  BY SMTT(30) DEF ClearOwn, Idle, NoSlot
<1>9. \A g \in Cleaners : ReadConfig(g) => NothingPlaced
  BY DEF ReadConfig, Idle
<1>10. \A g \in Cleaners : List(g) => NothingPlaced
  BY DEF List
<1>11. \A g \in Cleaners : Reap(g) => NothingPlaced
  BY DEF Reap
<1>12. \A g \in Cleaners : BootedParkedPass(g) => NothingPlaced
  BY DEF BootedParkedPass, Idle
<1>13. \A a \in Actors, d \in Devices : Claim(a, d) => NothingPlaced
  BY DEF Claim
<1>14. \A a \in Actors, d \in Devices : NotClaimed(a, d) => NothingPlaced
  <2> SUFFICES ASSUME NEW a \in Actors, NEW d \in Devices, NotClaimed(a, d) PROVE NothingPlaced
    OBVIOUS
  <2>1. CASE op' = [op EXCEPT ![a] = [@ EXCEPT !.todo = op[a].todo \ {d}, !.listed = op[a].listed \ {d}]]
    BY <2>1 DEF NotClaimed, Ops
  <2>2. CASE Finish(a)
    BY <2>2, Zenon DEF NotClaimed, Idle
  <2> QED BY <2>1, <2>2, SMTT(30) DEF NotClaimed
<1>15. \A a \in Actors : Ends(a) => NothingPlaced
  BY DEF Ends, Idle
<1>16. \A a \in Actors : Mark(a) => NothingPlaced
  <2> SUFFICES ASSUME NEW a \in Actors, Mark(a) PROVE NothingPlaced
    OBVIOUS
  <2>1. \A d \in Devices : pool'[d].since = pool[d].since
    BY SMTT(30) DEF Mark, Records
  <2>2. op'[a].at \in {"marked", "next"} /\ \A b \in Actors \ {a} : op'[b] = op[b]
    <3>1. CASE Onward(a)
      BY <3>1, Zenon DEF Idle
    <3>2. CASE \E r : op' = [op EXCEPT ![a] = [@ EXCEPT !.at = "marked", !.started = FALSE, !.done = FALSE,
                                                       !.rec = r]]
      BY <3>2 DEF Ops
    <3> QED BY <3>1, <3>2, Zenon DEF Mark
  <2> QED BY <2>1, <2>2, SMTT(30) DEF Mark
<1>17. \A a \in Actors : ChildPending(a) => NothingPlaced
  <2> SUFFICES ASSUME NEW a \in Actors, ChildPending(a) PROVE NothingPlaced
    OBVIOUS
  <2>1. CASE Goto(a, "native")
    BY <2>1 DEF ChildPending
  <2>2. CASE Goto(a, "settle")
    BY <2>2 DEF ChildPending
  <2> QED BY <2>1, <2>2, Zenon DEF ChildPending
<1>18. \A a \in Actors : EraseStarts(a) => NothingPlaced
  BY DEF EraseStarts
<1>19. \A a \in Actors : NativeActs(a) => NothingPlaced
  BY DEF NativeActs, Effect
<1>20. \A a \in Actors : NativeEnds(a) => NothingPlaced
  BY DEF NativeEnds
<1>21. \A a \in Actors : Settle(a) => NothingPlaced
  <2> SUFFICES ASSUME NEW a \in Actors, Settle(a) PROVE NothingPlaced
    OBVIOUS
  <2>1. op[a].rec \in Records
    BY Zenon DEF Ops
  <2>2. After(op[a]).since \in {0, op[a].rec.since}
    BY <2>1, Zenon DEF After, Erased, NotParked, Records
  <2>3. \A d \in Devices : Parked(d)' => Parked(d)
    BY <2>1, <2>2, SMTT(30) DEF Settle, Records
  <2> QED BY <2>3, Zenon DEF Settle, Idle
<1>22. \A a \in Actors : Kill(a) => NothingPlaced
  BY SMTT(30) DEF Kill, Idle
<1>23. \A d \in Devices : OrphanEnds(d) => NothingPlaced
  BY DEF OrphanEnds, Effect
<1>24. \A d \in Devices : Unblock(d) => NothingPlaced
  BY Zenon DEF Unblock
<1> QED
  BY <1>1, <1>2, <1>3, <1>4, <1>5, <1>6, <1>7, <1>8, <1>9, <1>10, <1>11, <1>12, <1>13, <1>14, <1>15, <1>16,
     <1>17, <1>18, <1>19, <1>20, <1>21, <1>22, <1>23, <1>24, Zenon

\* Every step keeps every simulator in one place: an adoption takes it from the
\* pool it puts it in a slot from, a parking from the slot, and a creation from
\* neither.
LEMMA PlaceStep == TypeOK /\ OnePlace /\ Owned /\ Claimed /\ Next => OnePlace' /\ Owned'
<1> SUFFICES ASSUME TypeOK, OnePlace, Owned, Claimed, Next PROVE OnePlace' /\ Owned'
  OBVIOUS
<1> USE Distinct DEF TypeOK, config, sims, claims, budget
<1>1. ASSUME NEW w \in Workspaces, Adopt(w) PROVE OnePlace' /\ Owned'
  <2>0. PICK d \in Devices : d = op[w].dev
    BY <1>1, Zenon DEF Adopt, Claimed, Holds, Holding
  <2>1. CASE Parked(d) /\ slot[w].dev = NoDevice
    <3>1. /\ d \in Devices
          /\ slot' = [slot EXCEPT ![w] = [dev |-> d, approved |-> Adopted(pool[d])]]
          /\ pool' = [pool EXCEPT ![d] = NotParked]
          /\ op' = [op EXCEPT ![w] = Idle] /\ life' = life
      BY <1>1, <2>0, <2>1, Zenon DEF Adopt, Claimed, Holds, Holding, Finish, Unparked
    <3>2. /\ ~Parked(d)' /\ \A e \in Devices \ {d} : Parked(e)' <=> Parked(e)
          /\ slot'[w].dev = d /\ \A v \in Workspaces \ {w} : slot'[v] = slot[v]
          /\ op'[w].at = "idle" /\ \A v \in Workspaces \ {w} : op'[v] = op[v]
      <4>1. ~Parked(d)' /\ \A e \in Devices \ {d} : Parked(e)' <=> Parked(e)
        BY <3>1, Zenon DEF Parked, NotParked
      <4>2. slot'[w].dev = d /\ \A v \in Workspaces \ {w} : slot'[v] = slot[v]
        BY <3>1, Zenon
      <4>3. op'[w].at = "idle" /\ \A v \in Workspaces \ {w} : op'[v] = op[v]
        BY <3>1, Zenon DEF Idle
      <4> QED BY <4>1, <4>2, <4>3, Zenon
    <3>3. \A v \in Workspaces : slot[v].dev # d
      BY <2>1, <3>1 DEF OnePlace, Assigned
    <3>4. OnePlace'
      <4>1. \A e \in Devices, u, v \in Workspaces : slot'[u].dev = e /\ slot'[v].dev = e => u = v
        BY <3>2, <3>3, SMTT(30) DEF OnePlace
      <4>2. \A e \in Devices, v \in Workspaces : Parked(e)' => slot'[v].dev # e
        BY <3>2, <3>3 DEF OnePlace, Assigned
      <4> QED BY <4>1, <4>2, SMTT(30) DEF OnePlace, Assigned
    <3>5. Owned'
      BY <2>1, <3>1, <3>2, <3>3, SMTT(30) DEF Owned
    <3> QED BY <3>4, <3>5, Zenon
  <2>2. CASE ~(Parked(d) /\ slot[w].dev = NoDevice)
    <3>1. /\ slot' = slot /\ pool' = pool /\ life' = life
          /\ op'[w].at = "next" /\ \A v \in Workspaces \ {w} : op'[v] = op[v]
      <4>1. Onward(w) /\ UNCHANGED config
        BY <1>1, <2>0, <2>2, Zenon DEF Adopt
      <4> QED BY <1>1, <4>1, Zenon DEF Adopt, Onward, Idle
    <3>2. NothingPlaced
      BY <3>1, SMTT(30) DEF NothingPlaced, Parked
    <3> QED BY <3>2, PlacedKept, Zenon
  <2> QED BY <2>1, <2>2, Zenon
<1>2. ASSUME NEW w \in Workspaces, Create(w) PROVE OnePlace' /\ Owned'
  <2>1. PICK d \in Devices : /\ life[d] = "none"
                             /\ life' = [life EXCEPT ![d] = "live"]
                             /\ op' = [op EXCEPT ![w] = [@ EXCEPT !.at = "record", !.dev = d]]
    BY <1>2, Zenon DEF Create
  <2>2. slot' = slot /\ pool' = pool
    BY <1>2, Zenon DEF Create
  <2>3. op'[w].at = "record" /\ op'[w].dev = d /\ \A v \in Workspaces \ {w} : op'[v] = op[v]
    BY <2>1 DEF Ops
  <2>4. ~Parked(d) /\ (\A v \in Workspaces : slot[v].dev # d)
        /\ \A v \in Workspaces : op[v].at = "record" => op[v].dev # d
    BY <2>1 DEF Owned
  <2>5. OnePlace'
    BY <2>2 DEF OnePlace, Assigned, Parked
  <2>6. Owned'
    BY <2>1, <2>2, <2>3, <2>4, SMTT(30) DEF Owned, Parked
  <2> QED BY <2>5, <2>6, Zenon
<1>3. ASSUME NEW w \in Workspaces, SetDevice(w) PROVE OnePlace' /\ Owned'
  <2> DEFINE d == op[w].dev
  <2>1. /\ op[w].at = "record" /\ pool' = pool /\ life' = life
        /\ slot'[w].dev = d /\ \A v \in Workspaces \ {w} : slot'[v] = slot[v]
        /\ op'[w].at = "idle" /\ \A v \in Workspaces \ {w} : op'[v] = op[v]
    BY <1>3, SMTT(30) DEF SetDevice, Finish, Idle
  <2>2. OnePlace'
    BY <2>1, SMTT(30) DEF OnePlace, Owned, Assigned, Parked
  <2>3. Owned'
    BY <2>1, SMTT(30) DEF Owned, Parked
  <2> QED BY <2>2, <2>3, Zenon
<1>4. ASSUME NEW w \in Workspaces, Remove(w) PROVE OnePlace' /\ Owned'
  <2>1. /\ slot[w].dev \in Devices /\ slot' = slot /\ pool' = pool /\ life' = life
        /\ op'[w].at = "park" /\ op'[w].dev = slot[w].dev /\ \A v \in Workspaces \ {w} : op'[v] = op[v]
    BY <1>4 DEF Remove, Idle, Live
  <2>2. OnePlace'
    BY <2>1, SMTT(30) DEF OnePlace, Assigned, Parked
  <2>3. Owned'
    BY <2>1, SMTT(30) DEF Owned, Parked
  <2> QED BY <2>2, <2>3, Zenon
<1>5. ASSUME NEW w \in Workspaces, Park(w) PROVE OnePlace' /\ Owned'
  <2> DEFINE d == op[w].dev
  <2>1. /\ d \in Devices /\ life[d] # "none" /\ slot[w].dev = d /\ life' = life
        /\ slot'[w].dev = NoDevice /\ \A v \in Workspaces \ {w} : slot'[v] = slot[v]
        /\ \A e \in Devices \ {d} : pool'[e] = pool[e]
    BY <1>5, ZenonT(30) DEF Park, Owned, NoSlot
  <2>2. op'[w].at = "next" /\ \A v \in Workspaces \ {w} : op'[v] = op[v]
    BY <1>5 DEF Park, Ops
  <2>3. OnePlace'
    BY <2>1, SMTT(30) DEF OnePlace, Assigned, Parked
  <2>4. Owned'
    BY <2>1, <2>2, SMTT(30) DEF Owned, Parked
  <2> QED BY <2>3, <2>4, Zenon
<1> QED
  BY <1>1, <1>2, <1>3, <1>4, <1>5, OrdinarySteps, PlacedKept, Zenon DEF Next, Workspace, Cleaner, Operation

-----------------------------------------------------------------------------
(***************************************************************************)
(* Operations hold the claims of their simulators                          *)
(***************************************************************************)

\* A step of one actor that leaves alone the claims of the others and the parked
\* records under them keeps what is known of the others.
LEMMA ClaimedKept ==
    ASSUME TypeOK, Claimed, NEW a,
           \A b \in Actors \ {a} : op'[b] = op[b],
           \A d \in Devices : claim[d] \in Actors \ {a} \/ orphan[d] # "none" =>
               claim'[d] = claim[d] /\ (Parked(d) => pool'[d] = pool[d]),
           a \in Actors => Holds(a)',
           \A d \in Devices : orphan'[d] # "none" =>
               orphan[d] # "none" \/ (claim'[d] = Blocked /\ Parked(d)' /\ pool'[d].mark # NoOne)
    PROVE  Claimed'
<1>1. ASSUME NEW b \in Actors PROVE Holds(b)'
  <2>1. CASE b = a
    BY <2>1, Zenon
  <2>2. CASE b # a
    <3>1. op'[b] = op[b] /\ Holds(b)
      BY <2>2, Zenon DEF Claimed
    <3> QED BY <2>2, <3>1, SMTT(30) DEF Holds, Holding, Working, Parked
  <2> QED BY <2>1, <2>2, Zenon
<1>2. ASSUME NEW d \in Devices, orphan'[d] # "none"
      PROVE  claim'[d] = Blocked /\ Parked(d)' /\ pool'[d].mark # NoOne
  BY <1>2, Zenon DEF Claimed, Parked
<1> QED BY <1>1, <1>2, Zenon DEF Claimed

\* The places where an actor holds no claim.
LEMMA Unclaimed ==
    ASSUME TypeOK, Claimed, NEW a \in Actors,
           claim' = claim, pool' = pool, orphan' = orphan,
           \A b \in Actors \ {a} : op'[b] = op[b],
           op'[a] = op[a] \/ op'[a].at \notin {"claimed", "marked", "native", "acted", "settle"}
    PROVE  Claimed'
<1>1. Holds(a)'
  <2>1. Holds(a)
    BY Zenon DEF Claimed
  <2> QED BY <2>1, Zenon DEF Holds, Holding, Working, Parked
<1> QED BY <1>1, ClaimedKept, Zenon

\* An operation that goes on with its simulator.
LEMMA WorkGoesOn ==
    ASSUME TypeOK, Claimed, NEW a \in Actors, Working(a),
           claim' = claim, pool' = pool, orphan' = orphan,
           \A b \in Actors \ {a} : op'[b] = op[b],
           op'[a].dev = op[a].dev, op'[a].kind = op[a].kind, op'[a].rec = op[a].rec,
           op'[a].started => op[a].kind = "erase"
    PROVE  Claimed'
<1>1. Holds(a)'
  <2>1. Holds(a)
    BY Zenon DEF Claimed
  <2> QED BY <2>1, Zenon DEF Holds, Holding, Working, Parked
<1> QED BY <1>1, ClaimedKept, Zenon

\* Every step keeps an operation in possession of the claim, and its record in
\* the pool.
LEMMA ClaimedStep == TypeOK /\ OnePlace /\ Owned /\ Claimed /\ Next => Claimed'
<1> SUFFICES ASSUME TypeOK, OnePlace, Owned, Claimed, Next PROVE Claimed'
  OBVIOUS
<1> USE Distinct DEF TypeOK, config, sims, claims, budget
<1>1. ASSUME NEW w \in Workspaces, Install(w) PROVE Claimed'
  BY <1>1, Unclaimed, Zenon DEF Install
<1>2. ASSUME NEW w \in Workspaces, ClearMissing(w) PROVE Claimed'
  BY <1>2, Unclaimed, SMTT(30) DEF ClearMissing
<1>3. ASSUME NEW w \in Workspaces, Run(w) PROVE Claimed'
  BY <1>3, Unclaimed, Zenon DEF Run, Idle
<1>4. ASSUME NEW w \in Workspaces, NothingTaken(w) PROVE Claimed'
  BY <1>4, Unclaimed, Zenon DEF NothingTaken, Idle
<1>5. ASSUME NEW w \in Workspaces, Create(w) PROVE Claimed'
  BY <1>5, Unclaimed DEF Create, Ops
<1>6. ASSUME NEW w \in Workspaces, SetDevice(w) PROVE Claimed'
  BY <1>6, Unclaimed, Zenon DEF SetDevice, Finish, Idle
<1>7. ASSUME NEW w \in Workspaces, Remove(w) PROVE Claimed'
  BY <1>7, Unclaimed DEF Remove, Idle
<1>8. ASSUME NEW w \in Workspaces, ParkFails(w) PROVE Claimed'
  BY <1>8, Unclaimed DEF ParkFails, Goto, Ops
<1>9. ASSUME NEW w \in Workspaces, DeleteOwn(w) PROVE Claimed'
  BY <1>9, Unclaimed DEF DeleteOwn, Goto, Ops
<1>10. ASSUME NEW w \in Workspaces, DeleteOwnFails(w) PROVE Claimed'
  BY <1>10, Unclaimed, Zenon DEF DeleteOwnFails, Finish, Idle
<1>11. ASSUME NEW w \in Workspaces, ClearOwn(w) PROVE Claimed'
  BY <1>11, Unclaimed, SMTT(30) DEF ClearOwn, Finish, Idle
<1>12. ASSUME NEW g \in Cleaners, ReadConfig(g) PROVE Claimed'
  <2>1. op'[g].at = "list" /\ \A b \in Actors \ {g} : op'[b] = op[b]
    BY <1>12 DEF ReadConfig, Idle
  <2> QED BY <1>12, <2>1, Unclaimed, Zenon DEF ReadConfig
<1>13. ASSUME NEW g \in Cleaners, List(g) PROVE Claimed'
  BY <1>13, Unclaimed, SMTT(30) DEF List, Ops
<1>14. ASSUME NEW g \in Cleaners, Reap(g) PROVE Claimed'
  BY <1>14, Unclaimed, SMTT(30) DEF Reap, Ops
<1>15. ASSUME NEW g \in Cleaners, BootedParkedPass(g) PROVE Claimed'
  BY <1>15, Unclaimed DEF BootedParkedPass, Idle
<1>16. ASSUME NEW a \in Actors, Ends(a) PROVE Claimed'
  BY <1>16, Unclaimed, Zenon DEF Ends, Finish, Idle
<1>17. ASSUME NEW a \in Actors, NEW d \in Devices, NotClaimed(a, d) PROVE Claimed'
  <2>1. op[a].at = "next" /\ claim' = claim /\ pool' = pool /\ orphan' = orphan
    BY <1>17, Zenon DEF NotClaimed
  <2>2. CASE op' = [op EXCEPT ![a] = [@ EXCEPT !.todo = op[a].todo \ {d}, !.listed = op[a].listed \ {d}]]
    BY <2>1, <2>2, Unclaimed, SMTT(30) DEF Ops
  <2>3. CASE Finish(a)
    BY <2>1, <2>3, Unclaimed, Zenon DEF Finish, Idle
  <2> QED BY <1>17, <2>2, <2>3, Zenon DEF NotClaimed
<1>18. ASSUME NEW w \in Workspaces, Adopt(w) PROVE Claimed'
  <2>1. PICK d \in Devices : d = op[w].dev /\ claim[d] = w
    BY <1>18, Zenon DEF Adopt, Claimed, Holds, Holding
  <2>2. op'[w].at \in {"idle", "next"} /\ \A b \in Actors \ {w} : op'[b] = op[b]
    <3>1. CASE Finish(w)
      BY <3>1, Zenon DEF Finish, Idle
    <3>2. CASE Onward(w)
      BY <3>2, Zenon DEF Onward, Idle
    <3> QED BY <1>18, <3>1, <3>2, Zenon DEF Adopt
  <2>3. \A e \in Devices \ {d} : claim'[e] = claim[e] /\ pool'[e] = pool[e]
    BY <1>18, <2>1, Zenon DEF Adopt, Unparked
  <2>4. Holds(w)'
    BY <2>2, Zenon DEF Holds, Holding, Working
  <2>5. orphan' = orphan /\ orphan[d] = "none"
    BY <1>18, <2>1, Zenon DEF Adopt, Claimed
  <2> QED BY <2>1, <2>2, <2>3, <2>4, <2>5, ClaimedKept, Zenon
<1>19. ASSUME NEW w \in Workspaces, Park(w) PROVE Claimed'
  <2>1. PICK d \in Devices : d = op[w].dev /\ slot[w].dev = d
    BY <1>19, ZenonT(30) DEF Park, Owned
  <2>2. ~Parked(d) /\ (\A e \in Devices \ {d} : pool'[e] = pool[e]) /\ claim' = claim /\ orphan' = orphan
    BY <1>19, <2>1, SMTT(30) DEF Park, OnePlace, Assigned
  <2>3. op'[w].at = "next" /\ \A b \in Actors \ {w} : op'[b] = op[b]
    BY <1>19 DEF Park, Ops
  <2>4. Holds(w)'
    BY <2>3, Zenon DEF Holds, Holding, Working
  <2> QED BY <2>1, <2>2, <2>3, <2>4, ClaimedKept, Zenon
<1>20. ASSUME NEW a \in Actors, NEW d \in Devices, Claim(a, d) PROVE Claimed'
  <2>1. op'[a].at = "claimed" /\ op'[a].dev = d /\ \A b \in Actors \ {a} : op'[b] = op[b]
    BY <1>20 DEF Claim, Ops
  <2>2. claim[d] = NoOne /\ claim' = [claim EXCEPT ![d] = a] /\ pool' = pool /\ orphan' = orphan
    BY <1>20, Zenon DEF Claim, Free
  <2>3. Holds(a)'
    BY <2>1, <2>2, Zenon DEF Holds, Holding, Working
  <2>4. orphan[d] = "none"
    BY <2>2, Zenon DEF Claimed
  <2> QED BY <2>1, <2>2, <2>3, <2>4, ClaimedKept, Zenon
<1>21. ASSUME NEW a \in Actors, Mark(a) PROVE Claimed'
  <2>1. PICK d \in Devices : d = op[a].dev /\ claim[d] = a
    BY <1>21, Zenon DEF Mark, Claimed, Holds, Holding
  <2>2. orphan' = orphan /\ orphan[d] = "none" /\ \A b \in Actors \ {a} : op'[b] = op[b]
    BY <1>21, <2>1, SMTT(30) DEF Mark, Claimed, Onward
  <2>3. CASE StillParked(d)
    <3>1. /\ op' = [op EXCEPT ![a] = [@ EXCEPT !.at = "marked", !.started = FALSE, !.done = FALSE,
                                               !.rec = [pool[d] EXCEPT !.mark = NoOne]]]
          /\ pool' = [pool EXCEPT ![d].mark = a] /\ claim' = claim /\ op[a].kind \in Native
      BY <1>21, <2>1, <2>3, Zenon DEF Mark
    <3>2. /\ op'[a].at = "marked" /\ op'[a].dev = d /\ op'[a].kind = op[a].kind /\ ~op'[a].started
          /\ op'[a].rec = [pool[d] EXCEPT !.mark = NoOne]
      BY <2>1, <3>1 DEF Ops
    <3>3. /\ pool'[d] = [pool[d] EXCEPT !.mark = a] /\ \A e \in Devices \ {d} : pool'[e] = pool[e]
      BY <3>1, Zenon
    <3>4. /\ Parked(d)' /\ op'[a].rec.mark = NoOne /\ pool'[d] = [op'[a].rec EXCEPT !.mark = a]
      <4>1. pool[d] \in Records
        OBVIOUS
      <4>2. [pool[d] EXCEPT !.mark = a].since = pool[d].since /\ [pool[d] EXCEPT !.mark = NoOne].mark = NoOne
        BY <4>1, Zenon DEF Records
      <4>3. [[pool[d] EXCEPT !.mark = NoOne] EXCEPT !.mark = a] = [pool[d] EXCEPT !.mark = a]
        BY <4>1, Zenon DEF Records
      <4> QED BY <2>3, <3>2, <3>3, <4>2, <4>3, Zenon DEF Parked, StillParked
    <3>5. Holds(a)'
      BY <2>1, <3>1, <3>2, <3>4, Zenon DEF Holds, Holding, Working
    <3> QED BY <2>1, <2>2, <3>1, <3>3, <3>5, ClaimedKept, Zenon
  <2>4. CASE ~StillParked(d)
    <3>1. Onward(a) /\ claim' = [claim EXCEPT ![d] = NoOne] /\ pool' = pool
      BY <1>21, <2>1, <2>4, Zenon DEF Mark
    <3>2. Holds(a)'
      BY <3>1, Zenon DEF Onward, Idle, Holds, Holding, Working
    <3> QED BY <2>1, <2>2, <3>1, <3>2, ClaimedKept, Zenon
  <2> QED BY <2>3, <2>4, Zenon
<1>22. ASSUME NEW a \in Actors, ChildPending(a) PROVE Claimed'
  <2>1. Working(a) /\ claim' = claim /\ pool' = pool /\ orphan' = orphan
    BY <1>22, Zenon DEF ChildPending, Working
  <2>2. op[a].started => op[a].kind = "erase"
    BY <2>1, Zenon DEF Claimed, Holds
  <2>3. ASSUME NEW place \in Places, Goto(a, place)
        PROVE  /\ op'[a].dev = op[a].dev /\ op'[a].kind = op[a].kind /\ op'[a].rec = op[a].rec
               /\ op'[a].started = op[a].started
               /\ \A b \in Actors \ {a} : op'[b] = op[b]
    BY <2>3 DEF Goto, Ops
  <2> QED BY <1>22, <2>1, <2>2, <2>3, WorkGoesOn, Zenon DEF ChildPending, Places
<1>23. ASSUME NEW a \in Actors, EraseStarts(a) PROVE Claimed'
  <2>1. /\ op'[a].dev = op[a].dev /\ op'[a].kind = op[a].kind /\ op'[a].rec = op[a].rec
        /\ op[a].kind = "erase" /\ \A b \in Actors \ {a} : op'[b] = op[b]
    BY <1>23 DEF EraseStarts, Ops
  <2> QED BY <1>23, <2>1, WorkGoesOn, Zenon DEF EraseStarts, Working
<1>24. ASSUME NEW a \in Actors, NativeActs(a) PROVE Claimed'
  <2>1. /\ op'[a].dev = op[a].dev /\ op'[a].kind = op[a].kind /\ op'[a].rec = op[a].rec
        /\ op'[a].started = op[a].started /\ \A b \in Actors \ {a} : op'[b] = op[b]
    BY <1>24 DEF NativeActs, Goto, Ops
  <2>2. Working(a) /\ (op[a].started => op[a].kind = "erase")
    BY <1>24, Zenon DEF NativeActs, Working, Claimed, Holds
  <2> QED BY <1>24, <2>1, <2>2, WorkGoesOn, Zenon DEF NativeActs
<1>25. ASSUME NEW a \in Actors, NativeEnds(a) PROVE Claimed'
  <2>1. /\ op'[a].dev = op[a].dev /\ op'[a].kind = op[a].kind /\ op'[a].rec = op[a].rec
        /\ op'[a].started = op[a].started /\ \A b \in Actors \ {a} : op'[b] = op[b]
    BY <1>25 DEF NativeEnds, Ops
  <2>2. Working(a) /\ (op[a].started => op[a].kind = "erase")
    BY <1>25, Zenon DEF NativeEnds, Working, Claimed, Holds
  <2> QED BY <1>25, <2>1, <2>2, WorkGoesOn, Zenon DEF NativeEnds
<1>26. ASSUME NEW a \in Actors, Settle(a) PROVE Claimed'
  <2>1. PICK d \in Devices : d = op[a].dev /\ claim[d] = a
    BY <1>26, Zenon DEF Settle, Claimed, Holds, Holding, Working
  <2>2. orphan' = orphan /\ orphan[d] = "none" /\ \A b \in Actors \ {a} : op'[b] = op[b]
    BY <1>26, <2>1, Zenon DEF Settle, Claimed, Onward
  <2>3. Holds(a)'
    BY <1>26, Zenon DEF Settle, Onward, Idle, Holds, Holding, Working
  <2>4. \A e \in Devices \ {d} : pool'[e] = pool[e] /\ claim'[e] = claim[e]
    BY <1>26, <2>1, Zenon DEF Settle
  <2> QED BY <2>1, <2>2, <2>3, <2>4, ClaimedKept, Zenon
<1>27. ASSUME NEW a \in Actors, Kill(a) PROVE Claimed'
  <2>1. /\ pool' = pool /\ Holds(a)' /\ \A b \in Actors \ {a} : op'[b] = op[b]
    BY <1>27, Zenon DEF Kill, Finish, Idle, Holds, Holding, Working
  <2>2. \A d \in Devices : claim[d] # a => claim'[d] = claim[d]
    BY <1>27, Zenon DEF Kill
  <2>3. ASSUME NEW d \in Devices, orphan'[d] # "none", orphan[d] = "none"
        PROVE  claim'[d] = Blocked /\ Parked(d)' /\ pool'[d].mark # NoOne
    <3>1. d = op[a].dev /\ op[a].at = "native"
      BY <1>27, <2>3, Zenon DEF Kill
    <3>2. claim[d] = a /\ Parked(d) /\ pool[d] = [op[a].rec EXCEPT !.mark = a]
      BY <3>1, Zenon DEF Claimed, Holds, Holding, Working
    <3>3. claim'[d] = Blocked
      BY <1>27, <3>1, <3>2, Zenon DEF Kill, Abandoned
    <3> QED BY <2>1, <3>2, <3>3 DEF Ops, Records, Parked
  <2>4. \A d \in Devices : orphan[d] # "none" => claim'[d] = claim[d]
    BY <2>2 DEF Claimed
  <2>5. \A d \in Devices : claim[d] \in Actors \ {a} \/ orphan[d] # "none" =>
            claim'[d] = claim[d] /\ (Parked(d) => pool'[d] = pool[d])
    BY <2>1, <2>2, <2>4, Zenon
  <2>6. \A d \in Devices : orphan'[d] # "none" =>
            orphan[d] # "none" \/ (claim'[d] = Blocked /\ Parked(d)' /\ pool'[d].mark # NoOne)
    BY <2>3, Zenon
  <2> QED BY <2>1, <2>5, <2>6, ClaimedKept, Zenon
<1>28. ASSUME NEW d \in Devices, OrphanEnds(d) PROVE Claimed'
  <2>1. /\ pool' = pool /\ claim' = claim /\ op' = op
        /\ \A e \in Devices : orphan'[e] # "none" => orphan[e] # "none"
    BY <1>28, Zenon DEF OrphanEnds
  <2> QED BY <2>1, Zenon DEF Claimed, Holds, Holding, Working, Parked
<1>29. ASSUME NEW d \in Devices, Unblock(d) PROVE Claimed'
  <2>1. /\ pool' = pool /\ orphan' = orphan /\ op' = op
        /\ claim[d] = Blocked /\ orphan[d] = "none" /\ \A e \in Devices \ {d} : claim'[e] = claim[e]
    BY <1>29, Zenon DEF Unblock
  <2> QED BY <2>1, SMTT(30) DEF Claimed, Holds, Holding, Working, Parked
<1> QED
  BY <1>1, <1>2, <1>3, <1>4, <1>5, <1>6, <1>7, <1>8, <1>9, <1>10, <1>11, <1>12, <1>13, <1>14, <1>15,
     <1>16, <1>17, <1>18, <1>19, <1>20, <1>21, <1>22, <1>23, <1>24, <1>25, <1>26, <1>27, <1>28, <1>29, Zenon
     DEF Next, Workspace, Cleaner, Operation
-----------------------------------------------------------------------------
(***************************************************************************)
(* The records say the truth about approvals                               *)
(***************************************************************************)

\* What a step does that writes no record and erases nothing that is recorded.
Quiet ==
    /\ pool' = pool
    /\ \A w \in Workspaces : slot'[w] \in {slot[w], NoSlot}
    /\ \A d \in Devices : /\ Parked(d) \/ d \in Assigned
                          /\ life'[d] = "live" /\ d \notin replaced'
                          => life[d] = "live" /\ d \notin replaced /\ (d \in approved => d \in approved')
    /\ \A a \in Actors : Working(a)' =>
           /\ Working(a)
           /\ op'[a].dev = op[a].dev /\ op'[a].kind = op[a].kind /\ op'[a].rec = op[a].rec
           /\ op[a].started => op'[a].started

\* Such a step leaves true what is true.
LEMMA TruthKept ==
    ASSUME TypeOK, Claimed, ApprovalsTrue, Erasing, Quiet
    PROVE  ApprovalsTrue' /\ Erasing'
<1> USE Distinct DEF TypeOK, Quiet
<1>1. ASSUME NEW d \in Devices, life'[d] = "live", d \notin replaced', Parked(d), pool[d].mark = NoOne,
             pool[d].approved
      PROVE  d \in approved'
  BY <1>1, Zenon DEF ApprovalsTrue, Live
<1>2. ASSUME NEW w \in Workspaces, slot'[w].dev \in Devices, life'[slot'[w].dev] = "live",
             slot'[w].dev \notin replaced', slot'[w].approved
      PROVE  slot'[w].dev \in approved'
  <2>1. slot'[w] = slot[w] /\ slot[w].dev \in Assigned
    BY <1>2 DEF NoSlot, Assigned
  <2> QED BY <1>2, <2>1, Zenon DEF ApprovalsTrue, Live
<1>3. ApprovalsTrue'
  BY <1>1, <1>2, Zenon DEF ApprovalsTrue, Live, Parked
<1>4. ASSUME NEW a \in Actors, Working(a)', op'[a].dev \in Live', op'[a].dev \notin replaced', op'[a].rec.approved,
             op'[a].dev \notin approved'
      PROVE  op'[a].kind = "erase" /\ op'[a].started
  <2>1. Working(a) /\ op[a].dev \in Devices /\ Parked(op[a].dev)
    BY <1>4, Zenon DEF Claimed, Holds, Holding
  <2> QED BY <1>4, <2>1, SMTT(30) DEF Erasing, Live
<1>5. Erasing'
  BY <1>4, Zenon DEF Erasing
<1> QED BY <1>3, <1>5, Zenon

\* A step that only ends an operation is quiet, whatever it does to claims.
LEMMA QuietEnd ==
    ASSUME TypeOK, NEW a \in Actors, Finish(a), pool' = pool,
           \A w \in Workspaces : slot'[w] \in {slot[w], NoSlot},
           life' = life, approved' = approved, replaced' = replaced
    PROVE  Quiet
<1>1. op'[a] = Idle /\ \A b \in Actors \ {a} : op'[b] = op[b]
  BY Zenon DEF TypeOK, Finish
<1>2. ~Working(a)'
  BY <1>1 DEF Working, Idle
<1>3. ASSUME NEW b \in Actors, Working(b)' PROVE Working(b) /\ op'[b] = op[b]
  BY <1>1, <1>2, <1>3, Zenon DEF Working
<1> QED BY <1>3, Zenon DEF Quiet

\* The steps that are quiet.
LEMMA QuietSteps ==
    ASSUME TypeOK, Owned, Claimed
    PROVE  /\ (\A w \in Workspaces : ClearMissing(w) => Quiet)
           /\ (\A w \in Workspaces : Run(w) => Quiet)
           /\ (\A w \in Workspaces : NothingTaken(w) => Quiet)
           /\ (\A w \in Workspaces : Create(w) => Quiet)
           /\ (\A w \in Workspaces : Remove(w) => Quiet)
           /\ (\A w \in Workspaces : ParkFails(w) => Quiet)
           /\ (\A w \in Workspaces : DeleteOwn(w) => Quiet)
           /\ (\A w \in Workspaces : DeleteOwnFails(w) => Quiet)
           /\ (\A w \in Workspaces : ClearOwn(w) => Quiet)
           /\ (\A g \in Cleaners : ReadConfig(g) => Quiet)
           /\ (\A g \in Cleaners : List(g) => Quiet)
           /\ (\A g \in Cleaners : Reap(g) => Quiet)
           /\ (\A g \in Cleaners : BootedParkedPass(g) => Quiet)
           /\ (\A a \in Actors, d \in Devices : Claim(a, d) => Quiet)
           /\ (\A a \in Actors, d \in Devices : NotClaimed(a, d) => Quiet)
           /\ (\A a \in Actors : Ends(a) => Quiet)
           /\ (\A a \in Actors : ChildPending(a) => Quiet)
           /\ (\A a \in Actors : EraseStarts(a) => Quiet)
           /\ (\A a \in Actors : NativeEnds(a) => Quiet)
           /\ (\A a \in Actors : Kill(a) => Quiet)
           /\ (\A d \in Devices : Unblock(d) => Quiet)
<1> USE Distinct DEF TypeOK, Quiet, Working, config, sims, claims, budget
<1>1. \A w \in Workspaces : ClearMissing(w) => Quiet
  BY DEF ClearMissing
<1>2. \A w \in Workspaces : Run(w) => Quiet
  BY DEF Run, Idle
<1>3. \A w \in Workspaces : NothingTaken(w) => Quiet
  BY DEF NothingTaken, Idle
<1>4. \A w \in Workspaces : Create(w) => Quiet
  BY SMTT(30) DEF Create, Ops, Owned, Assigned
<1>5. \A w \in Workspaces : Remove(w) => Quiet
  BY DEF Remove, Idle
<1>6. \A w \in Workspaces : ParkFails(w) => Quiet
  BY DEF ParkFails, Goto, Ops
<1>7. \A w \in Workspaces : DeleteOwn(w) => Quiet
  BY DEF DeleteOwn, Goto, Ops
<1>8. \A w \in Workspaces : DeleteOwnFails(w) => Quiet
  <2> HIDE DEF Quiet, Working
  <2> SUFFICES ASSUME NEW w \in Workspaces, DeleteOwnFails(w) PROVE Quiet
    OBVIOUS
  <2>1. /\ Finish(w) /\ pool' = pool /\ w \in Actors
        /\ \A v \in Workspaces : slot'[v] \in {slot[v], NoSlot}
        /\ life' = life /\ approved' = approved /\ replaced' = replaced
    BY Zenon DEF DeleteOwnFails, Actors
  <2> QED BY <2>1, QuietEnd, Zenon
<1>9. \A w \in Workspaces : ClearOwn(w) => Quiet
  <2> HIDE DEF Quiet, Working
  <2> SUFFICES ASSUME NEW w \in Workspaces, ClearOwn(w) PROVE Quiet
    OBVIOUS
  <2>1. /\ Finish(w) /\ pool' = pool /\ w \in Actors
        /\ \A v \in Workspaces : slot'[v] \in {slot[v], NoSlot}
        /\ life' = life /\ approved' = approved /\ replaced' = replaced
    BY Zenon DEF ClearOwn, Actors
  <2> QED BY <2>1, QuietEnd, Zenon
<1>10. \A g \in Cleaners : ReadConfig(g) => Quiet
  BY DEF ReadConfig, Idle
<1>11. \A g \in Cleaners : List(g) => Quiet
  BY SMTT(30) DEF List, Ops
<1>12. \A g \in Cleaners : Reap(g) => Quiet
  BY DEF Reap, Ops
<1>13. \A g \in Cleaners : BootedParkedPass(g) => Quiet
  BY DEF BootedParkedPass, Idle
<1>14. \A a \in Actors, d \in Devices : Claim(a, d) => Quiet
  BY DEF Claim, Ops
<1>15. \A a \in Actors, d \in Devices : NotClaimed(a, d) => Quiet
  <2> SUFFICES ASSUME NEW a \in Actors, NEW d \in Devices, NotClaimed(a, d) PROVE Quiet
    OBVIOUS
  <2>1. CASE op' = [op EXCEPT ![a] = [@ EXCEPT !.todo = op[a].todo \ {d}, !.listed = op[a].listed \ {d}]]
    BY <2>1 DEF NotClaimed, Ops
  <2>2. CASE Finish(a)
    BY <2>2, Zenon DEF NotClaimed, Finish, Idle
  <2> QED BY <2>1, <2>2, Zenon DEF NotClaimed
<1>16. \A a \in Actors : Ends(a) => Quiet
  <2> HIDE DEF Quiet, Working
  <2> SUFFICES ASSUME NEW a \in Actors, Ends(a) PROVE Quiet
    OBVIOUS
  <2>1. /\ Finish(a) /\ pool' = pool /\ slot' = slot
        /\ life' = life /\ approved' = approved /\ replaced' = replaced
    BY Zenon DEF Ends
  <2> QED BY <2>1, QuietEnd, Zenon
<1>17. \A a \in Actors : ChildPending(a) => Quiet
  BY SMTT(30) DEF ChildPending, Goto, Ops
<1>18. \A a \in Actors : EraseStarts(a) => Quiet
  BY DEF EraseStarts, Ops
<1>19. \A a \in Actors : NativeEnds(a) => Quiet
  BY DEF NativeEnds, Ops
<1>20. \A a \in Actors : Kill(a) => Quiet
  <2> HIDE DEF Quiet, Working
  <2> SUFFICES ASSUME NEW a \in Actors, Kill(a) PROVE Quiet
    OBVIOUS
  <2>1. /\ Finish(a) /\ pool' = pool /\ slot' = slot
        /\ life' = life /\ approved' = approved /\ replaced' = replaced
    BY Zenon DEF Kill
  <2> QED BY <2>1, QuietEnd, Zenon
<1>21. \A d \in Devices : Unblock(d) => Quiet
  BY Zenon DEF Unblock
<1> QED
  BY <1>1, <1>2, <1>3, <1>4, <1>5, <1>6, <1>7, <1>8, <1>9, <1>10, <1>11, <1>12, <1>13, <1>14, <1>15, <1>16,
     <1>17, <1>18, <1>19, <1>20, <1>21, ZenonT(30)
\* Every step leaves the records true: an erase is known to the operation from
\* before it starts, and to whoever finds its mark.
LEMMA TruthStep ==
    ASSUME TypeOK, OnePlace, Owned, Claimed, ApprovalsTrue, Erasing, Next
    PROVE  ApprovalsTrue' /\ Erasing'
<1> USE Distinct DEF TypeOK, config, sims, claims, budget
<1>1. ASSUME NEW w \in Workspaces, Install(w) PROVE ApprovalsTrue' /\ Erasing'
  <2>1. /\ pool' = pool /\ op' = op /\ life' = life /\ replaced' = replaced \ {slot[w].dev}
        /\ approved' = approved \cup {slot[w].dev} /\ slot'[w].dev = slot[w].dev
        /\ \A v \in Workspaces \ {w} : slot'[v] = slot[v]
    BY <1>1 DEF Install, Slots
  <2>2. ApprovalsTrue'
    BY <2>1, Zenon DEF ApprovalsTrue, Live, Parked
  <2>3. Erasing'
    BY <2>1, ZenonT(30) DEF Erasing, Live, Working
  <2> QED BY <2>2, <2>3, Zenon
<1>2. ASSUME NEW w \in Workspaces, SetDevice(w) PROVE ApprovalsTrue' /\ Erasing'
  <2>1. /\ pool' = pool /\ life' = life /\ replaced' = replaced /\ approved' = approved
        /\ ~slot'[w].approved /\ \A v \in Workspaces \ {w} : slot'[v] = slot[v]
        /\ op'[w].at = "idle" /\ \A b \in Actors \ {w} : op'[b] = op[b]
    BY <1>2, Zenon DEF SetDevice, Finish, Idle
  <2>2. ApprovalsTrue'
    BY <2>1, Zenon DEF ApprovalsTrue, Live, Parked
  <2>3. Erasing'
    BY <2>1 DEF Erasing, Live, Working
  <2> QED BY <2>2, <2>3, Zenon
<1>3. ASSUME NEW w \in Workspaces, Adopt(w) PROVE ApprovalsTrue' /\ Erasing'
  <2>1. PICK d \in Devices : d = op[w].dev
    BY <1>3, Zenon DEF Adopt, Claimed, Holds, Holding
  <2>2. life' = life /\ replaced' = replaced /\ approved' = approved
    BY <1>3, Zenon DEF Adopt
  <2>3. op'[w].at \in {"idle", "next"} /\ \A b \in Actors \ {w} : op'[b] = op[b]
    <3>1. CASE Finish(w)
      BY <3>1, Zenon DEF Finish, Idle
    <3>2. CASE Onward(w)
      BY <3>2, Zenon DEF Onward, Idle
    <3> QED BY <1>3, <3>1, <3>2, Zenon DEF Adopt
  <2>4. Erasing'
    BY <2>2, <2>3 DEF Erasing, Live, Working
  <2>5. CASE Parked(d) /\ slot[w].dev = NoDevice
    <3>1. /\ slot' = [slot EXCEPT ![w] = [dev |-> d, approved |-> Adopted(pool[d])]]
          /\ pool' = [pool EXCEPT ![d] = NotParked]
      BY <1>3, <2>1, <2>5, Zenon DEF Adopt, Unparked
    <3>2. Adopted(pool[d]) /\ d \in Live \ replaced => d \in approved
      BY <2>5 DEF Adopted, Erased, Records, ApprovalsTrue
    <3>3. \A e \in Devices : Parked(e)' => pool'[e] = pool[e] /\ Parked(e)
      BY <3>1, Zenon DEF Parked, NotParked
    <3>4. ASSUME NEW v \in Workspaces PROVE slot'[v].dev \in Live \ replaced /\ slot'[v].approved => slot'[v].dev \in approved
      BY <3>1, <3>2, Zenon DEF ApprovalsTrue
    <3>5. ApprovalsTrue'
      BY <2>2, <3>3, <3>4, Zenon DEF ApprovalsTrue, Live
    <3> QED BY <2>4, <3>5, Zenon
  <2>6. CASE ~(Parked(d) /\ slot[w].dev = NoDevice)
    <3>1. slot' = slot /\ pool' = pool
      BY <1>3, <2>1, <2>6, Zenon DEF Adopt
    <3>2. ApprovalsTrue'
      BY <2>2, <3>1, Zenon DEF ApprovalsTrue, Live, Parked
    <3> QED BY <2>4, <3>2, Zenon
  <2> QED BY <2>5, <2>6, Zenon
<1>4. ASSUME NEW w \in Workspaces, Park(w) PROVE ApprovalsTrue' /\ Erasing'
  <2>1. PICK d \in Devices : d = op[w].dev /\ slot[w].dev = d
    BY <1>4, ZenonT(30) DEF Park, Owned
  <2>2. /\ life' = life /\ replaced' = replaced /\ approved' = approved
        /\ pool'[d].approved = slot[w].approved /\ \A e \in Devices \ {d} : pool'[e] = pool[e]
        /\ slot'[w] = NoSlot /\ \A v \in Workspaces \ {w} : slot'[v] = slot[v]
    BY <1>4, <2>1, Zenon DEF Park
  <2>3. op'[w].at = "next" /\ \A b \in Actors \ {w} : op'[b] = op[b]
    BY <1>4 DEF Park, Ops
  <2>4. ApprovalsTrue'
    BY <2>1, <2>2, SMTT(30) DEF ApprovalsTrue, Live, Parked, NoSlot
  <2>5. Erasing'
    BY <2>2, <2>3, SMTT(30) DEF Erasing, Live, Working
  <2> QED BY <2>4, <2>5, Zenon
<1>5. ASSUME NEW a \in Actors, Mark(a) PROVE ApprovalsTrue' /\ Erasing'
  <2>1. PICK d \in Devices : d = op[a].dev
    BY <1>5, Zenon DEF Mark, Claimed, Holds, Holding
  <2>2. slot' = slot /\ life' = life /\ approved' = approved
    BY <1>5, Zenon DEF Mark
  <2>3. CASE StillParked(d)
    <3>1. /\ op' = [op EXCEPT ![a] = [@ EXCEPT !.at = "marked", !.started = FALSE, !.done = FALSE,
                                               !.rec = [pool[d] EXCEPT !.mark = NoOne]]]
          /\ pool' = [pool EXCEPT ![d].mark = a]
          /\ replaced' = IF pool[d].mark = NoOne THEN replaced ELSE replaced \cup {d}
      BY <1>5, <2>1, <2>3, Zenon DEF Mark
    <3>2. /\ op'[a].dev = d /\ op'[a].rec = [pool[d] EXCEPT !.mark = NoOne]
          /\ \A b \in Actors \ {a} : op'[b] = op[b]
      BY <2>1, <3>1 DEF Ops
    <3>3. pool'[d].mark = a /\ \A e \in Devices \ {d} : pool'[e] = pool[e]
      BY <3>1 DEF Records
    <3>4. ApprovalsTrue'
      BY <2>2, <3>1, <3>3, SMTT(30) DEF ApprovalsTrue, Live, Parked
    <3>5. op'[a].rec.approved /\ d \in Live /\ d \notin replaced' => d \in approved
      BY <2>3, <3>1, <3>2 DEF Records, ApprovalsTrue, StillParked
    <3>6. Erasing'
      BY <2>2, <3>1, <3>2, <3>5, SMTT(30) DEF Erasing, Live, Working
    <3> QED BY <3>4, <3>6, Zenon
  <2>4. CASE ~StillParked(d)
    <3>1. pool' = pool /\ replaced' = replaced /\ Onward(a)
      BY <1>5, <2>1, <2>4, Zenon DEF Mark
    <3>2. op'[a].at = "next" /\ \A b \in Actors \ {a} : op'[b] = op[b]
      BY <3>1, Zenon DEF Onward, Idle
    <3>3. ApprovalsTrue'
      BY <2>2, <3>1, Zenon DEF ApprovalsTrue, Live, Parked
    <3>4. Erasing'
      BY <2>2, <3>1, <3>2, SMTT(30) DEF Erasing, Live, Working
    <3> QED BY <3>3, <3>4, Zenon
  <2> QED BY <2>3, <2>4, Zenon
<1>6. ASSUME NEW a \in Actors, NativeActs(a) PROVE ApprovalsTrue' /\ Erasing'
  <2>1. PICK d \in Devices : d = op[a].dev /\ claim[d] = a
    BY <1>6, Zenon DEF NativeActs, Claimed, Holds, Holding, Working
  <2>2. Parked(d) /\ pool[d].mark = a /\ (op[a].started => op[a].kind = "erase") /\ d \notin Assigned
    <3>1. Working(a) /\ Holds(a) /\ op[a].rec \in Records
      BY <1>6, Zenon DEF NativeActs, Claimed, Working, Ops
    <3>2. Parked(d) /\ pool[d] = [op[a].rec EXCEPT !.mark = a] /\ (op[a].started => op[a].kind = "erase")
      BY <2>1, <3>1, Zenon DEF Holds
    <3>3. pool[d].mark = a
      BY <3>1, <3>2, Zenon DEF Records
    <3>4. d \notin Assigned
      BY <3>2, Zenon DEF OnePlace
    <3> QED BY <3>2, <3>3, <3>4, Zenon
  <2>3. /\ slot' = slot /\ pool' = pool /\ replaced' = replaced /\ approved' = approved \ {d}
        /\ \A e \in Devices : life'[e] = "live" => life[e] = "live"
        /\ op[a].kind = "delete" => life'[d] = "gone"
    BY <1>6, <2>1, Zenon DEF NativeActs, Effect
  <2>4. /\ op'[a].dev = op[a].dev /\ op'[a].kind = op[a].kind /\ op'[a].rec = op[a].rec
        /\ op'[a].started = op[a].started /\ \A b \in Actors \ {a} : op'[b] = op[b]
    BY <1>6 DEF NativeActs, Goto, Ops
  <2>5. \A b \in Actors \ {a} : Working(b) => op[b].dev # d
    BY <2>1, Zenon DEF Claimed, Holds, Holding
  <2>6. ApprovalsTrue'
    BY <2>2, <2>3, ZenonT(30) DEF ApprovalsTrue, Live, Parked, Assigned
  <2>7. ASSUME NEW b \in Actors, Working(b)', op'[b].dev \in Live', op'[b].dev \notin replaced', op'[b].rec.approved,
               op'[b].dev \notin approved'
        PROVE  op'[b].kind = "erase" /\ op'[b].started
    <3>1. CASE b = a
      BY <1>6, <2>1, <2>2, <2>3, <2>4, <2>7, <3>1, Zenon DEF NativeActs, Live
    <3>2. CASE b # a
      <4>1. op'[b] = op[b] /\ Working(b) /\ op[b].dev # d
        BY <2>4, <2>5, <2>7, <3>2, Zenon DEF Working
      <4>2. op[b].dev \in Live \ replaced /\ op[b].rec.approved
        BY <2>3, <2>7, <4>1, Zenon DEF Live
      <4>3. op[b].dev \notin approved
        BY <2>3, <2>7, <4>1, Zenon
      <4> QED BY <4>1, <4>2, <4>3, Zenon DEF Erasing
    <3> QED BY <3>1, <3>2, Zenon
  <2>8. Erasing'
    BY <2>7, Zenon DEF Erasing
  <2> QED BY <2>6, <2>8, Zenon
<1>7. ASSUME NEW a \in Actors, Settle(a) PROVE ApprovalsTrue' /\ Erasing'
  <2>1. PICK d \in Devices : d = op[a].dev
    BY <1>7, Zenon DEF Settle, Claimed, Holds, Holding, Working
  <2>2. /\ slot' = slot /\ life' = life /\ approved' = approved /\ replaced' = replaced
        /\ pool'[d] = After(op[a]) /\ \A e \in Devices \ {d} : pool'[e] = pool[e]
    BY <1>7, <2>1, SMTT(30) DEF Settle, Claimed, Holds, Working
  <2>3. op'[a].at = "next" /\ \A b \in Actors \ {a} : op'[b] = op[b]
    BY <1>7, Zenon DEF Settle, Onward, Idle
  <2>4. After(op[a]).approved /\ d \in Live \ replaced => d \in approved
    BY <1>7, <2>1, SMTT(30) DEF Settle, After, Erased, NotParked, Erasing, Working, Ops, Records
  <2>5. ApprovalsTrue'
    BY <2>2, <2>4 DEF ApprovalsTrue, Live, Parked
  <2>6. Erasing'
    BY <2>2, <2>3, SMTT(30) DEF Erasing, Live, Working
  <2> QED BY <2>5, <2>6, Zenon
<1>8. ASSUME NEW d \in Devices, OrphanEnds(d) PROVE ApprovalsTrue' /\ Erasing'
  <2>1. /\ slot' = slot /\ pool' = pool /\ replaced' = replaced /\ op' = op
        /\ approved \ {d} \subseteq approved'
        /\ \A e \in Devices : life'[e] = "live" => life[e] = "live"
    BY <1>8 DEF OrphanEnds, Effect
  <2>2. Parked(d) /\ pool[d].mark # NoOne /\ claim[d] = Blocked /\ d \notin Assigned
    BY <1>8, Zenon DEF OrphanEnds, Claimed, OnePlace
  <2>3. \A b \in Actors : Working(b) => op[b].dev # d
    <3>1. \A b \in Actors : Working(b) => claim[op[b].dev] = b
      BY Zenon DEF Claimed, Holds, Holding
    <3> QED BY <2>2, <3>1, Zenon
  <2>4. ApprovalsTrue'
    BY <2>1, <2>2 DEF ApprovalsTrue, Live, Parked, Assigned
  <2>5. Erasing'
    BY <2>1, <2>3 DEF Erasing, Live, Working
  <2> QED BY <2>4, <2>5, Zenon
<1> QED
  BY <1>1, <1>2, <1>3, <1>4, <1>5, <1>6, <1>7, <1>8, QuietSteps, TruthKept, Zenon
     DEF Next, Workspace, Cleaner, Operation
-----------------------------------------------------------------------------
(***************************************************************************)
(* The theorems                                                            *)
(***************************************************************************)

\* An empty pool has the invariant.
LEMMA InitInv == Init => IndInv
  BY Distinct, Blank, PoolAssumption, SMTT(30)
     DEF Init, IndInv, TypeOK, OnePlace, Owned, Claimed, Holds, Holding, Working, ApprovalsTrue, Erasing,
         Parked, NotParked, Assigned, NoSlot, Idle, Live

\* Every step keeps it.
LEMMA StepInv == IndInv /\ [Next]_vars => IndInv'
<1>1. IndInv /\ Next => IndInv'
  BY TypeStep, PlaceStep, ClaimedStep, TruthStep, Zenon DEF IndInv
<1>2. IndInv /\ UNCHANGED vars => IndInv'
  BY SMTT(30) DEF vars, IndInv, TypeOK, OnePlace, Owned, Claimed, Holds, Holding, Working, ApprovalsTrue,
     Erasing,
         Parked, Assigned, Live
<1> QED BY <1>1, <1>2

\* The invariant holds in every state: of sim-pool.ts, for any number of
\* commands, simulators, parkings and kills.
THEOREM Invariance == Spec => []IndInv
  BY InitInv, StepInv, PTL DEF Spec

\* A slot, a record of the pool, a claim and a running simctl child name one
\* simulator and one command each, or none, whatever sim-pool.ts and gc.ts do.
THEOREM TypesHold == Spec => []TypeOK
<1>1. IndInv => TypeOK
  BY DEF IndInv
<1> QED BY <1>1, Invariance, PTL

\* A simulator is never in two slots, nor in a slot and in the pool.
THEOREM EveryoneInOnePlace == Spec => []OnePlace
<1>1. IndInv => OnePlace
  BY DEF IndInv
<1> QED BY <1>1, Invariance, PTL

\* What settleParkedAfter and adoptParked leave in the records about approvals is
\* true of the simulator, if no later operation replaced the mark of one that
\* never ended.
THEOREM RecordsTrue == Spec => []ApprovalsTrue
<1>1. IndInv => ApprovalsTrue
  BY DEF IndInv
<1> QED BY <1>1, Invariance, PTL

\* One child at a time works on a parked simulator.
THEOREM OneAtATime == Spec => []OneOperation
<1>1. IndInv => OneOperation
  <2> SUFFICES ASSUME IndInv, NEW d \in Devices, NEW a \in Actors, op[a].at \in {"native", "acted"}, op[a].dev = d
               PROVE  /\ orphan[d] = "none"
                      /\ \A b \in Actors \ {a} : ~(op[b].at \in {"native", "acted"} /\ op[b].dev = d)
    BY Zenon DEF OneOperation
  <2>1. \A b \in Actors : op[b].at \in {"native", "acted"} => claim[op[b].dev] = b
    BY Zenon DEF IndInv, Claimed, Holds, Holding, Working
  <2>2. orphan[d] # "none" => claim[d] = Blocked
    BY Zenon DEF IndInv, Claimed
  <2> QED BY <2>1, <2>2, Distinct, Zenon
<1> QED BY <1>1, Invariance, PTL

\* A simulator in a slot is deleted or erased by the removal of its workspace and
\* by the sweep of orphans, and by nothing else.
THEOREM AssignedSimulatorsKept == Spec => AssignedKept
<1> DEFINE Kept(w, d) == \/ d \notin Live
                         \/ life'[d] = "live" /\ (d \in approved => d \in approved')
                         \/ op[w].at = "delete"
                         \/ \E g \in Cleaners : op[g].at = "reap" /\ d \in op[g].todo
<1>1. ASSUME IndInv, Next, NEW w \in Workspaces, NEW d \in Devices, d = slot[w].dev, life[d] = "live"
      PROVE  Kept(w, d)
  <2>1. ~Parked(d) /\ \A v \in Workspaces \ {w} : slot[v].dev # d
    BY <1>1, Zenon DEF IndInv, OnePlace, Assigned
  <2> USE DEF config, sims, claims, budget
  <2>2. CASE life' = life /\ approved \subseteq approved'
    BY <1>1, <2>2, Zenon
  <2>3. ASSUME NEW v \in Workspaces, Create(v) PROVE Kept(w, d)
    BY <1>1, <2>3, SMTT(30) DEF Create, IndInv, TypeOK
  <2>4. ASSUME NEW v \in Workspaces, DeleteOwn(v) PROVE Kept(w, d)
    <3>1. op[v].dev = slot[v].dev /\ op[v].at = "delete"
      BY <1>1, <2>4, Zenon DEF DeleteOwn, IndInv, Owned
    <3> QED BY <1>1, <2>1, <2>4, <3>1, Zenon DEF DeleteOwn, IndInv, TypeOK
  <2>5. ASSUME NEW g \in Cleaners, Reap(g) PROVE Kept(w, d)
    BY <1>1, <2>5 DEF Reap, IndInv, TypeOK
  <2>6. ASSUME NEW a \in Actors, NativeActs(a) PROVE Kept(w, d)
    <3>1. op[a].dev # d
      BY <1>1, <2>1, <2>6, Zenon DEF NativeActs, IndInv, Claimed, Holds, Working
    <3> QED BY <1>1, <2>6, <3>1, Zenon DEF NativeActs, Effect, IndInv, TypeOK
  <2>7. ASSUME NEW e \in Devices, OrphanEnds(e) PROVE Kept(w, d)
    <3>1. e # d
      BY <1>1, <2>1, <2>7, Zenon DEF OrphanEnds, IndInv, Claimed
    <3> QED BY <1>1, <2>7, <3>1, Zenon DEF OrphanEnds, Effect, IndInv, TypeOK
  <2>8. ASSUME NEW v \in Workspaces, Workspace(v), ~Create(v), ~DeleteOwn(v) PROVE life' = life /\ approved \subseteq approved'
    BY <2>8, Zenon DEF Workspace, Install, ClearMissing, Run, Adopt, NothingTaken, SetDevice, Remove, Park,
       ParkFails,
                DeleteOwnFails, ClearOwn
  <2>9. ASSUME NEW g \in Cleaners, Cleaner(g), ~Reap(g) PROVE life' = life /\ approved \subseteq approved'
    BY <2>9, Zenon DEF Cleaner, ReadConfig, List, BootedParkedPass
  <2>10. ASSUME NEW a \in Actors, Operation(a), ~NativeActs(a) PROVE life' = life /\ approved \subseteq approved'
    BY <2>10, Zenon DEF Operation, Claim, NotClaimed, Ends, Mark, ChildPending, EraseStarts, NativeEnds, Settle,
       Kill
  <2>11. ASSUME NEW e \in Devices, Unblock(e) PROVE life' = life /\ approved \subseteq approved'
    BY <2>11 DEF Unblock
  <2> QED BY <1>1, <2>2, <2>3, <2>4, <2>5, <2>6, <2>7, <2>8, <2>9, <2>10, <2>11, Zenon DEF Next
<1>2. IndInv /\ [Next]_vars =>
          [\A w \in Workspaces :
               LET d == slot[w].dev IN
               \/ d \notin Live
               \/ d \in Live' /\ (d \in approved => d \in approved')
               \/ op[w].at = "delete"
               \/ \E g \in Cleaners : op[g].at = "reap" /\ d \in op[g].todo]_vars
  BY <1>1, Zenon DEF Live
<1> QED BY <1>2, Invariance, PTL DEF Spec, AssignedKept
=============================================================================
