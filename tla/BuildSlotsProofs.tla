-------------------------- MODULE BuildSlotsProofs --------------------------
(***************************************************************************)
(* Build admission, for any builds and caps: no more native builds run     *)
(* than the largest cap allows, whoever is killed and however the rounds   *)
(* interleave, and the numbers on the tickets never pass the number of     *)
(* builds.                                                                 *)
(***************************************************************************)
EXTENDS BuildSlots, FiniteSetTheorems, WellFoundedInduction, TLAPS

\* The call of b is over, or has its slot.
Through(b) == pc[b] \in {"got", "leave", "building", "done", "dead", "heir", "orphan"}

\* The builds that have a ticket or are through: no build ever leaves them.
Numbered == {b \in Builds : seq[b] # 0 \/ Through(b)}

\* Every native build that runs, or may run, is named by a slot.
Named == \A b \in Builds : Running(b) => \E i \in Slots : slot[i] = b

\* The numbers on the tickets are no more than the builds that have had one or
\* needed none, and the number a build means to take is at most the next one.
Counted ==
    \A b \in Builds : seq[b] <= Cardinality(Numbered) /\ view[b].number <= Cardinality(Numbered) + 1

SlotInv == TypeOK /\ Named /\ Counted

-----------------------------------------------------------------------------
(***************************************************************************)
(* Facts about the operators                                               *)
(***************************************************************************)

\* A bounded set of numbers that is not empty has a largest.
LEMMA LargestOf ==
    ASSUME NEW n \in Nat, NEW T \in SUBSET (0..n), T # {}
    PROVE  Max(T) \in T /\ \A x \in T : Max(T) >= x
<1> DEFINE R == {p \in Nat \X Nat : p[1] < p[2]}
           U == {n - x : x \in T}
<1>1. IsWellFoundedOn(R, Nat)
  <2>1. R = OpToRel(<, Nat)
    BY DEF OpToRel
  <2> QED BY <2>1, NatLessThanWellFounded
<1>2. U \subseteq Nat /\ U # {}
  <2>1. \A x \in T : n - x \in Nat
    OBVIOUS
  <2> QED BY <2>1, Zenon
<1> HIDE DEF R, U
<1>3. PICK u \in U : \A v \in U : ~(<<v, u>> \in R)
  BY <1>1, <1>2, WFMin
<1>4. PICK m \in T : u = n - m
  BY DEF U
<1>5. ASSUME NEW x \in T PROVE m >= x
  <2>1. n - x \in U /\ n - x \in Nat /\ n - m \in Nat /\ m \in Nat /\ x \in Nat
    BY DEF U
  <2>2. ~(n - x < n - m)
    BY <1>3, <1>4, <2>1 DEF R
  <2> QED BY <2>1, <2>2
<1> QED BY <1>5, Zenon DEF Max

\* The largest cap is a cap, and no cap is larger: there is a slot for each.
LEMMA LargestCap ==
    /\ Max(Caps) \in Nat \ {0}
    /\ \A m \in Caps \cup {0} : m \in Nat /\ m <= Max(Caps)
    /\ \A i \in Slots \cup {Max(Caps)} : i \in Nat /\ (i < Max(Caps) => i \in Slots /\ i + 1 \in Slots \cup {Max(Caps)})
    /\ 0 \in Slots
<1>1. Max(Caps) \in Caps /\ \A c \in Caps : Max(Caps) >= c
  BY CapsAssumption DEF Max
<1>2. Max(Caps) \in Nat \ {0}
  BY <1>1, CapsAssumption
<1> QED BY <1>1, <1>2, CapsAssumption DEF Slots

\* The builds are as many as a natural number says, and so is each set of them.
LEMMA Numbers ==
    /\ Cardinality(Builds) \in Nat
    /\ \A S \in SUBSET Builds :
           IsFiniteSet(S) /\ Cardinality(S) \in Nat /\ Cardinality(S) <= Cardinality(Builds)
<1>1. IsFiniteSet(Builds)
  BY BuildsAssumption
<1>2. ASSUME NEW S \in SUBSET Builds
      PROVE  IsFiniteSet(S) /\ Cardinality(S) \in Nat /\ Cardinality(S) <= Cardinality(Builds)
  BY <1>1, FS_Subset, FS_CardinalityType
<1> QED BY <1>1, <1>2, FS_CardinalityType

\* One more build: the numbers go up by one, and stay within all of them.
LEMMA OneMore ==
    ASSUME NEW S \in SUBSET Builds, NEW b \in Builds, b \notin S
    PROVE  Cardinality(S \cup {b}) = Cardinality(S) + 1 /\ Cardinality(S) + 1 <= Cardinality(Builds)
<1>1. IsFiniteSet(S) /\ S \cup {b} \in SUBSET Builds
  BY Numbers
<1>2. Cardinality(S \cup {b}) = Cardinality(S) + 1
  BY <1>1, FS_AddElement
<1> QED BY <1>1, <1>2, Numbers

\* A round that starts, goes on or is over leaves a reading.
LEMMA Readings ==
    /\ NoView \in Views /\ NoView.number = 0
    /\ \A v \in Views :
           /\ v.max \in Caps \cup {0} /\ v.index \in Slots \cup {Max(Caps)} /\ v.number \in 0..(Cardinality(Builds) + 1)
           /\ \A m \in Caps : [v EXCEPT !.max = m] \in Views /\ [v EXCEPT !.max = m].number = v.number
<1> USE Numbers, LargestCap
<1>1. NoView \in Views /\ NoView.number = 0
  BY DEF Views, NoView
<1>2. ASSUME NEW v \in Views
      PROVE  /\ v.max \in Caps \cup {0} /\ v.index \in Slots \cup {Max(Caps)}
             /\ v.number \in 0..(Cardinality(Builds) + 1)
             /\ \A m \in Caps : [v EXCEPT !.max = m] \in Views /\ [v EXCEPT !.max = m].number = v.number
  BY DEF Views
<1> QED BY <1>1, <1>2, Zenon

\* The highest number on a ticket is within the bound.
LEMMA QueueRead ==
    ASSUME TypeOK, Counted
    PROVE  /\ Max({0} \cup {seq[w] : w \in Waiters}) \in 0..Cardinality(Builds)
           /\ Max({0} \cup {seq[w] : w \in Waiters}) <= Cardinality(Numbered)
<1> DEFINE T == {0} \cup {seq[w] : w \in Waiters}
<1>1. T \in SUBSET (0..Cardinality(Builds)) /\ T # {}
  BY Numbers DEF TypeOK, Waiters
<1>2. \A x \in T : x <= Cardinality(Numbered)
  BY Numbers DEF Counted, Waiters, Numbered
<1> HIDE DEF T
<1>3. Max(T) \in T
  BY <1>1, LargestOf, Numbers
<1>4. Max(T) \in 0..Cardinality(Builds) /\ Max(T) <= Cardinality(Numbered)
  BY <1>1, <1>2, <1>3
<1> QED BY <1>4, Zenon DEF T

-----------------------------------------------------------------------------
\* A step keeps the cap, the engine, the places and the readings of the builds.
LEMMA ReadingStep ==
    ASSUME TypeOK, Counted, [Next]_vars
    PROVE  /\ cap' \in Caps /\ engine' \in {"current", "staged", "lapsed", "switched"}
           /\ pc' \in [Builds -> Steps] /\ view' \in [Builds -> Views]
<1> DEFINE Places == /\ cap \in Caps /\ engine \in {"current", "staged", "lapsed", "switched"}
                     /\ pc \in [Builds -> Steps]
           Readable == view \in [Builds -> Views]
<1>1. Places /\ Readable
  BY DEF TypeOK
<1>2. ASSUME NEW b \in Builds, NEW v \in Views, view' = [view EXCEPT ![b] = v] PROVE Readable'
  BY <1>1, <1>2, Zenon
<1>3. ASSUME NEW b \in Builds, NEW step \in Steps, Goto(b, step), UNCHANGED <<cap, engine>> PROVE Places'
  BY <1>1, <1>3, Zenon DEF Goto
<1>4. NoView \in Views /\ \A v \in Views : \A m \in Caps : [v EXCEPT !.max = m] \in Views
  BY Readings, Zenon
<1>5. ASSUME NEW b \in Builds, Offload(b) PROVE Places' /\ Readable'
  <2>1. [view[b] EXCEPT !.max = cap] \in Views
    BY <1>1, <1>4, Zenon
  <2>2. view' = [view EXCEPT ![b] = [view[b] EXCEPT !.max = cap]]
    BY <1>1, <1>5 DEF Offload
  <2> QED BY <1>2, <1>3, <1>5, <2>1, <2>2, Zenon DEF Offload, Steps
<1>6. ASSUME NEW b \in Builds, ReadQueue(b) PROVE Places' /\ Readable'
  <2> DEFINE n == Max({0} \cup {seq[w] : w \in Waiters})
             v == [NoView EXCEPT !.max = cap, !.ahead = Ahead(b), !.number = n + 1]
  <2>1. n + 1 \in 0..(Cardinality(Builds) + 1)
    BY QueueRead, Numbers
  <2>2. view' = [view EXCEPT ![b] = v]
    BY <1>6, Zenon DEF ReadQueue
  <2>3. Ahead(b) \in SUBSET Builds
    BY Zenon DEF Ahead, Waiters
  <2> HIDE DEF n
  <2>4. v \in Views
    BY <1>1, <1>4, <2>1, <2>3 DEF Views, NoView
  <2> HIDE DEF v
  <2> QED BY <1>2, <1>3, <1>6, <2>2, <2>4, Zenon DEF ReadQueue, Steps
<1>7. ASSUME NEW b \in Builds, PassSlot(b) PROVE Places' /\ Readable'
  <2> DEFINE busy == view[b].busy \/ HeldLive(view[b].index)
             refused == view[b].refused \/ Unresolved(view[b].index)
             next == view[b].index + 1
             v == [view[b] EXCEPT !.index = next, !.busy = busy, !.refused = refused]
  <2>1. view' = [view EXCEPT ![b] = v] /\ view[b].index < view[b].max /\ UNCHANGED <<cap, engine, pc>>
    BY <1>7, Zenon DEF PassSlot
  <2>2. next \in Slots \cup {Max(Caps)}
    BY <1>1, <2>1, LargestCap, Readings
  <2>3. busy \in BOOLEAN /\ refused \in BOOLEAN
    BY <1>1, Zenon DEF Views, HeldLive, Unresolved
  <2> HIDE DEF busy, refused, next
  <2>4. view[b] \in Views
    BY <1>1, Zenon
  <2>5. v \in Views
    BY <2>2, <2>3, <2>4 DEF Views
  <2> HIDE DEF v
  <2> QED BY <1>1, <1>2, <2>1, <2>5, Zenon
<1>8. ASSUME NEW b \in Builds, TakeSlot(b) \/ TakeTicket(b) \/ Sleep(b) \/ LeaveQueue(b) \/ Kill(b)
      PROVE  Places' /\ Readable'
  BY <1>2, <1>3, <1>4, <1>8, ZenonT(30) DEF TakeSlot, TakeTicket, Sleep, LeaveQueue, Kill, Steps
<1>9. ASSUME NEW b \in Builds, Arrive(b) \/ HoldForSwitch(b) \/ EndForSwitch(b) \/ ReadSlots(b) \/ NoSlot(b)
      PROVE  Places' /\ Readable'
  BY <1>1, <1>3, <1>9, ZenonT(30) DEF Arrive, HoldForSwitch, EndForSwitch, ReadSlots, NoSlot, Steps
<1>10. ASSUME NEW b \in Builds, Poll(b) \/ GiveUp(b) \/ ReleaseBuildSlot(b) \/ HeirEnds(b)
       PROVE  Places' /\ Readable'
  BY <1>1, <1>3, <1>10, ZenonT(30) DEF Poll, GiveUp, ReleaseBuildSlot, HeirEnds, Steps
<1>11. ASSUME ChangeCap \/ Stage \/ Unstage \/ UNCHANGED vars PROVE Places' /\ Readable'
  BY <1>1, <1>11 DEF ChangeCap, Stage, Unstage, vars
<1> HIDE DEF Places, Readable
<1>12. Places' /\ Readable'
  BY <1>5, <1>6, <1>7, <1>8, <1>9, <1>10, <1>11, Zenon DEF Next, Acquire
<1> QED BY <1>12, Zenon DEF Places, Readable

\* No build goes back to where it has no ticket and is not through.
LEMMA NumberedGrows ==
    ASSUME TypeOK, [Next]_vars
    PROVE  Numbered \subseteq Numbered'
<1> SUFFICES ASSUME NEW c \in Builds, seq[c] # 0 \/ Through(c) PROVE seq'[c] # 0 \/ Through(c)'
  BY Zenon DEF Numbered
<1>1. pc \in [Builds -> Steps] /\ seq \in [Builds -> 0..Cardinality(Builds)]
  BY DEF TypeOK
<1>2. ASSUME UNCHANGED <<seq, pc>> PROVE seq'[c] # 0 \/ Through(c)'
  BY <1>2, Zenon DEF Through
<1>3. ASSUME NEW b \in Builds, NEW step, Goto(b, step), seq' = seq,
             ~Through(b) \/ step \in {"got", "leave", "building", "done", "dead", "heir", "orphan"}
      PROVE  seq'[c] # 0 \/ Through(c)'
  BY <1>1, <1>3, Zenon DEF Goto, Through
<1>4. ASSUME NEW b \in Builds, \/ Offload(b) \/ Arrive(b) \/ HoldForSwitch(b) \/ EndForSwitch(b) \/ ReadQueue(b)
                               \/ ReadSlots(b) \/ TakeSlot(b) \/ NoSlot(b)
      PROVE  seq'[c] # 0 \/ Through(c)'
  BY <1>3, <1>4, ZenonT(30) DEF Offload, Arrive, HoldForSwitch, EndForSwitch, ReadQueue, ReadSlots, TakeSlot,
     NoSlot, Through
<1>5. ASSUME NEW b \in Builds, \/ Sleep(b) \/ Poll(b) \/ GiveUp(b) \/ ReleaseBuildSlot(b) \/ Kill(b) \/ HeirEnds(b)
      PROVE  seq'[c] # 0 \/ Through(c)'
  BY <1>3, <1>5, ZenonT(30) DEF Sleep, Poll, GiveUp, ReleaseBuildSlot, Kill, HeirEnds, Through
<1>6. ASSUME NEW b \in Builds, TakeTicket(b) PROVE seq'[c] # 0 \/ Through(c)'
  <2>1. pc[b] = "join" /\ seq[b] = 0 /\ seq' = [seq EXCEPT ![b] = view[b].number] /\ pc' = [pc EXCEPT ![b] = "queue"]
    BY <1>6, Zenon DEF TakeTicket, Goto
  <2>2. c # b
    BY <2>1 DEF Through
  <2> QED BY <1>1, <2>1, <2>2, Zenon DEF Through
<1>7. ASSUME NEW b \in Builds, LeaveQueue(b) PROVE seq'[c] # 0 \/ Through(c)'
  <2>1. /\ seq' = [seq EXCEPT ![b] = 0]
        /\ pc' = [pc EXCEPT ![b] = IF pc[b] = "got" THEN "building" ELSE "done"]
    BY <1>7, Zenon DEF LeaveQueue, Goto
  <2> QED BY <1>1, <2>1 DEF Through
<1>8. ASSUME NEW b \in Builds, PassSlot(b) PROVE seq'[c] # 0 \/ Through(c)'
  BY <1>2, <1>8, Zenon DEF PassSlot
<1>9. ASSUME ChangeCap \/ Stage \/ Unstage \/ UNCHANGED vars PROVE seq'[c] # 0 \/ Through(c)'
  BY <1>2, <1>9, Zenon DEF ChangeCap, Stage, Unstage, vars
<1> QED BY <1>4, <1>5, <1>6, <1>7, <1>8, <1>9, Zenon DEF Next, Acquire

\* A ticket is numbered with at most one more than the builds that have had a
\* ticket or needed none, and with it the build becomes one of them.
LEMMA TicketStep ==
    ASSUME TypeOK, Counted, [Next]_vars
    PROVE  seq' \in [Builds -> 0..Cardinality(Builds)] /\ Counted'
<1> DEFINE n == Cardinality(Numbered)
           next == Cardinality(Numbered')
           Good(c) == seq'[c] \in 0..Cardinality(Builds) /\ seq'[c] <= next /\ view'[c].number <= next + 1
<1>1. /\ seq \in [Builds -> 0..Cardinality(Builds)]
      /\ view \in [Builds -> Views] /\ view' \in [Builds -> Views]
  BY ReadingStep DEF TypeOK
<1>2. \A c \in Builds : /\ seq[c] \in Nat /\ view[c].number \in Nat /\ view'[c].number \in Nat
                        /\ seq[c] \in 0..Cardinality(Builds) /\ seq[c] <= n /\ view[c].number <= n + 1
  BY <1>1, Numbers, Readings DEF Counted
<1>3. n \in Nat /\ next \in Nat /\ n <= next /\ Cardinality(Builds) \in Nat
  <2>1. Numbered' \in SUBSET Builds /\ Numbered \in SUBSET Numbered'
    BY NumberedGrows, Zenon DEF Numbered
  <2>2. IsFiniteSet(Numbered') /\ next \in Nat
    BY <2>1, Numbers
  <2>3. n <= next
    BY <2>1, <2>2, FS_Subset
  <2> QED BY <2>1, <2>2, <2>3, Numbers
<1> HIDE DEF n, next
<1>4. ASSUME NEW c \in Builds, seq'[c] \in {0, seq[c]}, view'[c].number \in {0, view[c].number} PROVE Good(c)
  BY <1>2, <1>3, <1>4
<1>5. NoView.number = 0 /\ \A v \in Views : \A m \in Caps : [v EXCEPT !.max = m].number = v.number
  BY Readings, Zenon
<1>6. ASSUME NEW b \in Builds, NEW v, view' = [view EXCEPT ![b] = v], v.number \in {0, view[b].number},
             seq' = seq \/ seq' = [seq EXCEPT ![b] = 0]
      PROVE  \A c \in Builds : Good(c)
  BY <1>1, <1>4, <1>6 DEF Views
<1>7. ASSUME UNCHANGED <<seq, view>> PROVE \A c \in Builds : Good(c)
  BY <1>4, <1>7, Zenon
<1> HIDE DEF Good
<1>8. ASSUME NEW b \in Builds, Offload(b) PROVE \A c \in Builds : Good(c)
  <2>1. view' = [view EXCEPT ![b] = [view[b] EXCEPT !.max = cap]] /\ seq' = seq
    BY <1>1, <1>8 DEF Offload
  <2>2. [view[b] EXCEPT !.max = cap].number = view[b].number
    BY <1>1, <1>5, Zenon DEF TypeOK
  <2> QED BY <1>6, <2>1, <2>2, Zenon
<1>9. ASSUME NEW b \in Builds, PassSlot(b) PROVE \A c \in Builds : Good(c)
  <2> DEFINE busy == view[b].busy \/ HeldLive(view[b].index)
             refused == view[b].refused \/ Unresolved(view[b].index)
             v == [view[b] EXCEPT !.index = view[b].index + 1, !.busy = busy, !.refused = refused]
  <2>1. view' = [view EXCEPT ![b] = v] /\ seq' = seq
    BY <1>9, Zenon DEF PassSlot
  <2> HIDE DEF busy, refused
  <2>2. v.number = view[b].number
    BY <1>1 DEF Views
  <2> HIDE DEF v
  <2> QED BY <1>6, <2>1, <2>2, Zenon
<1>10. ASSUME NEW b \in Builds, TakeSlot(b) \/ Sleep(b) \/ LeaveQueue(b) \/ Kill(b) PROVE \A c \in Builds : Good(c)
  BY <1>5, <1>6, <1>10, ZenonT(30) DEF TakeSlot, Sleep, LeaveQueue, Kill
<1>11. ASSUME NEW b \in Builds, ReadQueue(b) PROVE \A c \in Builds : Good(c)
  <2> DEFINE m == Max({0} \cup {seq[w] : w \in Waiters})
             v == [NoView EXCEPT !.max = cap, !.ahead = Ahead(b), !.number = m + 1]
  <2>1. view' = [view EXCEPT ![b] = v] /\ seq' = seq
    BY <1>11, Zenon DEF ReadQueue
  <2>2. m \in Nat /\ m <= n
    BY <1>3, QueueRead DEF n
  <2> HIDE DEF m
  <2>3. v.number = m + 1
    BY DEF NoView
  <2> HIDE DEF v
  <2>4. Good(b)
    BY <1>1, <1>2, <1>3, <2>1, <2>2, <2>3 DEF Good
  <2>5. ASSUME NEW c \in Builds \ {b} PROVE Good(c)
    BY <1>1, <1>4, <2>1, Zenon
  <2> QED BY <2>4, <2>5, Zenon
<1>12. ASSUME NEW b \in Builds, TakeTicket(b) PROVE \A c \in Builds : Good(c)
  <2>1. /\ pc[b] = "join" /\ seq[b] = 0 /\ pc' = [pc EXCEPT ![b] = "queue"]
        /\ seq' = [seq EXCEPT ![b] = view[b].number] /\ view' = [view EXCEPT ![b] = NoView]
    BY <1>12, Zenon DEF TakeTicket, Goto
  <2>2. b \notin Numbered /\ Numbered \in SUBSET Builds
    BY <2>1 DEF Numbered, Through
  <2>3. n + 1 <= Cardinality(Builds)
    BY <2>2, OneMore DEF n
  <2>4. CASE view[b].number = 0
    <3>1. ASSUME NEW c \in Builds PROVE seq'[c] \in {0, seq[c]} /\ view'[c].number \in {0, view[c].number}
      BY <1>1, <1>5, <2>1, <2>4, Zenon
    <3> QED BY <1>4, <3>1, Zenon
  <2>5. CASE view[b].number # 0
    <3>1. Numbered \cup {b} \in SUBSET Numbered' /\ Numbered' \in SUBSET Builds
      BY <1>1, <2>1, <2>5, NumberedGrows, Zenon DEF Numbered
    <3>2. n + 1 <= next
      <4>1. IsFiniteSet(Numbered') /\ IsFiniteSet(Numbered)
        BY <2>2, <3>1, Numbers
      <4>2. Cardinality(Numbered \cup {b}) <= next
        BY <3>1, <4>1, FS_Subset DEF next
      <4> QED BY <2>2, <4>2, OneMore DEF n
    <3>3. Good(b)
      BY <1>1, <1>2, <1>3, <1>5, <2>1, <2>3, <3>2, SMTT(30) DEF Good
    <3>4. ASSUME NEW c \in Builds \ {b} PROVE Good(c)
      BY <1>1, <1>4, <2>1, Zenon
    <3> QED BY <3>3, <3>4, Zenon
  <2> QED BY <2>4, <2>5
<1>13. ASSUME NEW b \in Builds, \/ Arrive(b) \/ HoldForSwitch(b) \/ EndForSwitch(b) \/ ReadSlots(b) \/ NoSlot(b)
                                \/ Poll(b) \/ GiveUp(b) \/ ReleaseBuildSlot(b) \/ HeirEnds(b)
       PROVE  \A c \in Builds : Good(c)
  BY <1>7, <1>13, ZenonT(30)
     DEF Arrive, HoldForSwitch, EndForSwitch, ReadSlots, NoSlot, Poll, GiveUp, ReleaseBuildSlot, HeirEnds
<1>14. ASSUME ChangeCap \/ Stage \/ Unstage \/ UNCHANGED vars PROVE \A c \in Builds : Good(c)
  BY <1>7, <1>14, Zenon DEF ChangeCap, Stage, Unstage, vars
<1>15. \A c \in Builds : Good(c)
  BY <1>8, <1>9, <1>10, <1>11, <1>12, <1>13, <1>14, Zenon DEF Next, Acquire
<1>16. DOMAIN seq' = Builds /\ seq' = [c \in DOMAIN seq' |-> seq'[c]]
  <2>1. \/ seq' = seq \/ \E b \in Builds : \E x : seq' = [seq EXCEPT ![b] = x]
    BY Zenon DEF Next, Acquire, Offload, Arrive, HoldForSwitch, EndForSwitch, ReadQueue, ReadSlots, TakeSlot,
       PassSlot,
         NoSlot, TakeTicket, Sleep, Poll, LeaveQueue, GiveUp, ReleaseBuildSlot, Kill, HeirEnds, ChangeCap, Stage,
         Unstage, vars
  <2> QED BY <1>1, <2>1
<1>17. seq' \in [Builds -> 0..Cardinality(Builds)]
  BY <1>15, <1>16, Zenon DEF Good
<1> QED BY <1>15, <1>17, Zenon DEF Counted, Good, next

\* A slot changes hands only when nothing of its holder runs, and a build runs
\* only after it took one.
LEMMA SlotStep ==
    ASSUME TypeOK, Named, [Next]_vars
    PROVE  slot' \in [Slots -> Builds \cup {0}] /\ Named'
<1> DEFINE Goal == /\ slot' \in [Slots -> Builds \cup {0}]
                   /\ \A b \in Builds : Running(b)' => \E i \in Slots : slot'[i] = b
<1> USE BuildsAssumption DEF TypeOK, Named, Running
<1>1. ASSUME slot' = slot, \A b \in Builds : Running(b)' => Running(b) PROVE Goal
  BY <1>1
<1>2. ASSUME NEW b \in Builds, TakeSlot(b) PROVE Goal
  <2>1. PICK i \in Slots : i = view[b].index
    BY <1>2, LargestCap, Readings DEF TakeSlot
  <2>2. slot' = [slot EXCEPT ![i] = b] /\ pc' = [pc EXCEPT ![b] = "got"]
    BY <1>2, <2>1 DEF TakeSlot, Goto
  <2>3. slot[i] # 0 => ~Running(slot[i])
    BY <1>2, <2>1 DEF TakeSlot, Takeable, HeldLive, Unresolved, Up
  <2>4. ASSUME NEW c \in Builds \ {b}, Running(c)' PROVE \E j \in Slots : slot'[j] = c
    <3>1. Running(c) /\ c # 0
      BY <2>2, <2>4
    <3>2. PICK j \in Slots : slot[j] = c
      BY <3>1
    <3>3. j # i
      BY <2>3, <3>1, <3>2
    <3> QED BY <2>2, <3>2, <3>3
  <2> QED BY <2>2, <2>4
<1>3. ASSUME NEW b \in Builds, ReleaseBuildSlot(b) PROVE Goal
  <2>1. /\ slot' = [i \in Slots |-> IF slot[i] = b THEN 0 ELSE slot[i]]
        /\ pc' = [pc EXCEPT ![b] = "done"]
    BY <1>3 DEF ReleaseBuildSlot, Goto
  <2> QED BY <2>1
<1>4. ASSUME NEW b \in Builds, NEW step, Goto(b, step), slot' = slot, step \notin {"got", "building", "heir", "orphan"} PROVE Goal
  BY <1>1, <1>4 DEF Goto
<1>5. ASSUME NEW b \in Builds, NEW step, Goto(b, step), slot' = slot, Running(b) PROVE Goal
  BY <1>1, <1>5 DEF Goto
<1> HIDE DEF Running
<1>6. ASSUME NEW b \in Builds,
             \/ Offload(b) \/ Arrive(b) \/ HoldForSwitch(b) \/ EndForSwitch(b) \/ ReadQueue(b) \/ ReadSlots(b) \/ NoSlot(b)
             \/ TakeTicket(b) \/ Sleep(b) \/ Poll(b) \/ GiveUp(b) \/ HeirEnds(b)
      PROVE  Goal
  BY <1>4, <1>6 DEF Offload, Arrive, HoldForSwitch, EndForSwitch, ReadQueue, ReadSlots, NoSlot,
                    TakeTicket, Sleep, Poll, GiveUp, HeirEnds
<1>7. ASSUME NEW b \in Builds, LeaveQueue(b) PROVE Goal
  BY <1>4, <1>5, <1>7 DEF LeaveQueue, Running
<1>8. ASSUME NEW b \in Builds, Kill(b) PROVE Goal
  <2>1. PICK end \in {"dead", "heir", "orphan"} : Goto(b, end) /\ slot' = slot /\ (end = "dead" \/ pc[b] = "building")
    BY <1>8 DEF Kill
  <2> QED BY <1>4, <1>5, <2>1 DEF Running
<1>9. ASSUME NEW b \in Builds, PassSlot(b) PROVE Goal
  BY <1>1, <1>9 DEF PassSlot, Running
<1>10. ASSUME ChangeCap \/ Stage \/ Unstage \/ UNCHANGED vars PROVE Goal
  BY <1>1, <1>10 DEF ChangeCap, Stage, Unstage, vars, Running
<1> HIDE DEF Goal
<1>11. Goal
  BY <1>2, <1>3, <1>6, <1>7, <1>8, <1>9, <1>10 DEF Next, Acquire
<1> QED BY <1>11, Zenon DEF Goal, Named

-----------------------------------------------------------------------------
\* In every behaviour, every native build that runs is named by a slot, and the
\* tickets are numbered within the number of builds.
THEOREM Invariance == Spec => []SlotInv
<1>1. Init => SlotInv
  <2> SUFFICES ASSUME Init PROVE SlotInv
    OBVIOUS
  <2>1. TypeOK
    BY LargestCap, Numbers, Readings DEF Init, TypeOK, Steps
  <2>2. Named
    BY DEF Init, Named, Running
  <2>3. Numbered \in SUBSET Builds /\ \A b \in Builds : seq[b] = 0 /\ view[b].number = 0
    BY Readings, Zenon DEF Init, Numbered
  <2> QED BY <2>1, <2>2, <2>3, Numbers DEF SlotInv, Counted
<1>2. SlotInv /\ [Next]_vars => SlotInv'
  <2> SUFFICES ASSUME SlotInv, [Next]_vars PROVE SlotInv'
    OBVIOUS
  <2>1. TypeOK /\ Named /\ Counted
    BY Zenon DEF SlotInv
  <2>2. Named' /\ Counted'
    BY <2>1, SlotStep, TicketStep, Zenon
  <2>3. TypeOK'
    BY <2>1, ReadingStep, SlotStep, TicketStep DEF TypeOK
  <2> QED BY <2>2, <2>3, Zenon DEF SlotInv
<1> QED BY <1>1, <1>2, PTL DEF Spec

\* The kinds of values, and the numbers on the tickets: however often builds
\* join, leave, are killed and read the queue again, takeWaitTicket never
\* numbers a ticket past the number of builds.
THEOREM TicketsBounded == Spec => []TypeOK
<1>1. SlotInv => TypeOK
  BY Zenon DEF SlotInv
<1> QED BY <1>1, Invariance, PTL

\* No more native builds run than the largest cap allows: the running ones are
\* among the holders that the slots name, and there are as many slots as that.
THEOREM CapNeverExceeded == Spec => []CapHeld
<1>1. SlotInv => CapHeld
  <2> SUFFICES ASSUME SlotInv PROVE CapHeld
    OBVIOUS
  <2> DEFINE Holders == {slot[i] : i \in Slots}
  <2>1. IsFiniteSet(Slots) /\ Cardinality(Slots) = Max(Caps)
    <3>1. 0 \in Int /\ Max(Caps) - 1 \in Int /\ ~(0 > Max(Caps) - 1)
      BY LargestCap
    <3>2. IsFiniteSet(0 .. (Max(Caps) - 1)) /\ Cardinality(0 .. (Max(Caps) - 1)) = Max(Caps) - 1 - 0 + 1
      BY <3>1, FS_Interval
    <3> QED BY <3>2, LargestCap DEF Slots
  <2>2. slot \in Surjection(Slots, Holders)
    BY DEF SlotInv, TypeOK, Surjection
  <2>3. IsFiniteSet(Holders) /\ Cardinality(Holders) <= Cardinality(Slots)
    BY <2>1, <2>2, FS_Surjection
  <2>4. {b \in Builds : Running(b)} \in SUBSET Holders
    BY DEF SlotInv, Named
  <2>5. Cardinality({b \in Builds : Running(b)}) <= Cardinality(Holders)
    BY <2>3, <2>4, FS_Subset, SMTT(30)
  <2>6. /\ Cardinality({b \in Builds : Running(b)}) \in Nat
        /\ Cardinality(Holders) \in Nat /\ Cardinality(Slots) \in Nat
    BY <2>1, <2>3, <2>4, FS_Subset, FS_CardinalityType
  <2> QED BY <2>1, <2>3, <2>5, <2>6 DEF CapHeld
<1> QED BY <1>1, Invariance, PTL
=============================================================================
