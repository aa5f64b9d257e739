------------------------ MODULE DeviceAdmissionProofs ------------------------
(***************************************************************************)
(* Device admission, for any runs, devices and caps: the devices in use    *)
(* stay within the caps and the boots in flight within BOOTS_IN_FLIGHT,    *)
(* although a run decides from readings that are out of date by then.      *)
(* That rests on two things.  While a run counts nobody else is admitted,  *)
(* so the devices in use only become fewer; and each of them is counted    *)
(* already, up and yet to be listed, or one that a boot left behind.  Nor  *)
(* does a run pass an older one of its platform: while it counts, tickets  *)
(* go and none comes before it.                                            *)
(***************************************************************************)
EXTENDS DeviceAdmission, FiniteSetTheorems, TLAPS

Counting == {"sims", "adb", "decide"}
Marked == {"create", "rekey", "port", "spawn", "boot", "booting"}

KeyDevice(k) == IF k[1] = "new" THEN DeviceOf[k[2]] ELSE k[2]

\* The devices that an inventory counts.
Counted(inventory) == {KeyDevice(k) : k \in LiveKeys(inventory)}

\* The devices that a run which has come to a step has yet to list.
Unlisted(step) == CASE step = "sims" -> Devices
                    [] step = "adb" -> Android
                    [] OTHER -> {}

Within(devices) ==
    /\ Cardinality(devices) <= MaxDevices
    /\ \A p \in Platforms : PlatformMax[p] > 0 =>
           Cardinality({d \in devices : Platform(d) = p}) <= PlatformMax[p]

\* The state that the caps depend on; the order of the queue, the shared listing
\* and the memory only decide which run is let in.
Typed ==
    /\ dev \in [Devices -> {"off", "spawned", "live"}]
    /\ port \subseteq Android
    /\ marker \in [Runs -> SUBSET Keys]
    /\ pc \in [Runs -> Steps]
    /\ seen = [ahead |-> seen.ahead, config |-> seen.config, booting |-> seen.booting, live |-> seen.live]
    /\ seen.config \subseteq Devices /\ seen.live \subseteq Devices
    /\ seen.booting \subseteq Runs \X Keys
    /\ stray \subseteq Devices

\* A run has a marker, that names its device, for just as long as it boots it.
MarkerHeld ==
    \A r \in Runs :
        /\ marker[r] # {} <=> pc[r] \in Marked
        /\ \A k \in marker[r] : KeyDevice(k) = DeviceOf[r]
        /\ pc[r] \in {"port", "spawn"} => DeviceOf[r] \in Android
        /\ pc[r] = "boot" => DeviceOf[r] \notin Android
        /\ pc[r] = "spawn" => DeviceOf[r] \in port

\* A device that is up can be counted unless its boot left it behind: an
\* emulator has its port on record, and a device that is not listed yet has the
\* marker of a run that boots it.  An emulator is left behind by its only run.
Countable ==
    /\ \A d \in Devices \ stray :
           /\ d \in Android /\ dev[d] # "off" => d \in port
           /\ dev[d] = "spawned" => \E r \in Runs : DeviceOf[r] = d /\ marker[r] # {}
    /\ \A r \in Runs : DeviceOf[r] \in stray \cap Android => pc[r] \in {"done", "dead"}

\* One run counts at a time.
Locked == \A r \in Runs : pc[r] \in Counting \cup {"round"} => lock = r

\* The run that counts has read every marker there is, and each device in use
\* that was not left behind is counted, or is up and will be listed.
CountComplete ==
    \A r \in Runs :
        pc[r] \in Counting =>
            /\ \A s \in Runs : marker[s] # {} => \E k \in Keys : <<s, k>> \in seen.booting
            /\ \A entry \in seen.booting : KeyDevice(entry[2]) = DeviceOf[entry[1]]
            /\ \A d \in Taken \ stray : \/ d \in Counted(seen)
                                     \/ /\ d \in Unlisted(pc[r]) /\ dev[d] = "live"
                                        /\ d \in Android => d \in seen.config
            /\ pc[r] = "sims" => seen.live = {}

\* What is in use, and what was when it was counted, fits the caps.
CountFits ==
    /\ Within(Taken \ stray)
    /\ \A r \in Runs : pc[r] \in Counting => Within((Taken \cup Counted(seen)) \ stray)

AdmissionInv == Typed /\ Locked /\ MarkerHeld /\ Countable /\ CountComplete /\ CountFits

-----------------------------------------------------------------------------
(***************************************************************************)
(* Keys, devices and caps                                                  *)
(***************************************************************************)

\* A key tells its device, and the platform of that device.
LEMMA KeyFacts ==
    /\ \A k \in Keys : KeyDevice(k) \in Devices /\ KeyPlatform(k) = Platform(KeyDevice(k))
    /\ \A d \in Devices : Key(d) \in Keys /\ KeyDevice(Key(d)) = d
    /\ \A r \in Runs : Own(r) \in Keys /\ KeyDevice(Own(r)) = DeviceOf[r]
BY DevicesAssumption DEF Keys, Key, Uncreated, Own, KeyDevice, KeyPlatform

\* There are finitely many keys.
LEMMA KeysFinite == IsFiniteSet(Keys)
<1> DEFINE OfDevices == {Key(d) : d \in Devices}
           OfFresh == {Uncreated(r) : r \in Fresh}
<1>1. IsFiniteSet(OfDevices)
  <2>1. [d \in Devices |-> Key(d)] \in Surjection(Devices, OfDevices)
    BY Zenon DEF Surjection
  <2> QED BY <2>1, FS_Surjection, DevicesAssumption, Zenon
<1>2. IsFiniteSet(OfFresh)
  <2>1. IsFiniteSet(Fresh)
    BY FS_Subset, DevicesAssumption, Zenon
  <2>2. [r \in Fresh |-> Uncreated(r)] \in Surjection(Fresh, OfFresh)
    BY Zenon DEF Surjection
  <2> QED BY <2>1, <2>2, FS_Surjection, Zenon
<1> QED BY <1>1, <1>2, FS_Union, Zenon DEF Keys

\* A set of keys names no more devices than it has members.
LEMMA KeysBound ==
    ASSUME NEW K \in SUBSET Keys, NEW D, D \subseteq {KeyDevice(k) : k \in K}
    PROVE  /\ IsFiniteSet(D) /\ Cardinality(D) \in Nat
           /\ Cardinality(K) \in Nat /\ Cardinality(D) <= Cardinality(K)
<1> DEFINE Named == {KeyDevice(k) : k \in K}
<1>1. IsFiniteSet(K) /\ Cardinality(K) \in Nat
  BY KeysFinite, FS_Subset, FS_CardinalityType, Zenon
<1>2. [k \in K |-> KeyDevice(k)] \in Surjection(K, Named)
  BY Zenon DEF Surjection
<1>3. IsFiniteSet(Named) /\ Cardinality(Named) <= Cardinality(K) /\ Cardinality(Named) \in Nat
  BY <1>1, <1>2, FS_Surjection, FS_CardinalityType, Zenon
<1>4. IsFiniteSet(D) /\ Cardinality(D) <= Cardinality(Named) /\ Cardinality(D) \in Nat
  BY <1>3, FS_Subset, FS_CardinalityType, Zenon
<1> QED BY <1>1, <1>3, <1>4

\* Fewer devices fit the caps too.
LEMMA FewerFit ==
    ASSUME NEW E \in SUBSET Devices, NEW D \in SUBSET E, Within(E)
    PROVE  Within(D)
<1>1. ASSUME NEW S \in SUBSET Devices, NEW T \in SUBSET S, NEW n \in Nat, Cardinality(S) <= n
      PROVE  Cardinality(T) <= n
  <2>1. IsFiniteSet(S) /\ IsFiniteSet(T) /\ Cardinality(T) <= Cardinality(S)
    BY FS_Subset, DevicesAssumption
  <2> QED BY <1>1, <2>1, FS_CardinalityType
<1>2. Cardinality(D) <= MaxDevices
  BY <1>1, CapsAssumption DEF Within
<1>3. ASSUME NEW p \in Platforms, PlatformMax[p] > 0
      PROVE  Cardinality({d \in D : Platform(d) = p}) <= PlatformMax[p]
  <2>1. {d \in D : Platform(d) = p} \in SUBSET {d \in E : Platform(d) = p}
    OBVIOUS
  <2>2. Cardinality({d \in E : Platform(d) = p}) <= PlatformMax[p] /\ PlatformMax[p] \in Nat
    BY <1>3, CapsAssumption DEF Within
  <2> QED BY <1>1, <2>1, <2>2
<1> QED BY <1>2, <1>3, Zenon DEF Within

\* A device that finds room beside the keys of all others fits the caps.
LEMMA RoomForOne ==
    ASSUME NEW K \in SUBSET Keys, NEW x \in Devices, ~Full(K, Platform(x)),
           NEW D \in SUBSET Devices, Within(D), D \subseteq {KeyDevice(k) : k \in K} \cup {x}
    PROVE  Within(D \cup {x})
<1> DEFINE E == D \cup {x}
<1>1. ASSUME NEW L \in SUBSET Keys, NEW S, S \subseteq {KeyDevice(k) : k \in L}, NEW n \in Nat,
             Cardinality(L) < n
      PROVE  Cardinality(S \cup {x}) <= n
  <2>1. IsFiniteSet(S) /\ Cardinality(S) \in Nat /\ Cardinality(L) \in Nat /\ Cardinality(S) <= Cardinality(L)
    BY <1>1, KeysBound
  <2>2. Cardinality(S \cup {x}) = IF x \in S THEN Cardinality(S) ELSE Cardinality(S) + 1
    BY <2>1, FS_AddElement, SMTT(30)
  <2> QED BY <1>1, <2>1, <2>2
<1>2. Cardinality(E) <= MaxDevices
  <2>1. Cardinality(K) \in Nat
    BY KeysFinite, FS_Subset, FS_CardinalityType
  <2>2. Cardinality(K) < MaxDevices /\ MaxDevices \in Nat
    BY <2>1, CapsAssumption DEF Full
  <2>3. D \ {x} \subseteq {KeyDevice(k) : k \in K} /\ E = (D \ {x}) \cup {x}
    OBVIOUS
  <2> QED BY <1>1, <2>2, <2>3
<1>3. ASSUME NEW p \in Platforms, PlatformMax[p] > 0
      PROVE  Cardinality({d \in E : Platform(d) = p}) <= PlatformMax[p]
  <2>1. CASE p # Platform(x)
    <3>1. {d \in E : Platform(d) = p} = {d \in D : Platform(d) = p}
      BY <2>1, Zenon
    <3> QED BY <1>3, <3>1, Zenon DEF Within
  <2>2. CASE p = Platform(x)
    <3> DEFINE L == OnPlatform(K, p)
               S == {d \in D \ {x} : Platform(d) = p}
    <3>1. L \in SUBSET Keys
      BY Zenon DEF OnPlatform
    <3>2. S \subseteq {KeyDevice(k) : k \in L}
      BY KeyFacts DEF OnPlatform
    <3>3. Cardinality(L) \in Nat /\ PlatformMax[p] \in Nat
      BY <3>1, KeysFinite, FS_Subset, FS_CardinalityType, CapsAssumption, Zenon
    <3>4. Cardinality(L) < PlatformMax[p]
      BY <1>3, <2>2, <3>3 DEF Full, PlatformFull
    <3>5. {d \in E : Platform(d) = p} = S \cup {x}
      BY <2>2
    <3> HIDE DEF L, S
    <3> QED BY <1>1, <3>1, <3>2, <3>3, <3>4, <3>5, Zenon
  <2> QED BY <2>1, <2>2, Zenon
<1> QED BY <1>2, <1>3 DEF Within

-----------------------------------------------------------------------------
(***************************************************************************)
(* Steps that admit nobody and read nothing                                *)
(***************************************************************************)

\* What an inventory counts are devices.
LEMMA CountedDevices ==
    ASSUME Typed
    PROVE  Taken \subseteq Devices /\ Counted(seen) \subseteq Devices /\ LiveKeys(seen) \subseteq Keys
<1>1. LiveKeys(seen) \subseteq Keys
  BY KeyFacts DEF Typed, LiveKeys
<1>2. Counted(seen) \subseteq Devices
  BY <1>1, KeyFacts DEF Counted
<1>3. Taken \subseteq Devices
  BY DevicesAssumption DEF Taken
<1> QED BY <1>1, <1>2, <1>3

\* While markers only go and devices only go down, or come up under a marker,
\* the count of a run stays complete and within the caps.
LEMMA Quiet ==
    ASSUME AdmissionInv,
           \A r \in Runs : pc'[r] \in Counting => pc'[r] = pc[r] /\ seen' = seen,
           \A s \in Runs : marker'[s] # {} => marker[s] # {},
           \A d \in Devices \ stray : dev'[d] # "off" =>
               dev'[d] = dev[d] \/ \E s \in Runs : DeviceOf[s] = d /\ marker[s] # {},
           stray \subseteq stray'
    PROVE  CountComplete' /\ CountFits'
<1>1. Taken' \ stray' \subseteq Taken \ stray
  BY DEF Taken
<1>2. Taken \subseteq Devices /\ Counted(seen) \subseteq Devices
  BY CountedDevices, Zenon DEF AdmissionInv
<1>3. Within(Taken \ stray)'
  <2>1. Within(Taken' \ stray')
    BY <1>1, <1>2, FewerFit DEF AdmissionInv, CountFits
  <2> QED BY <2>1, Zenon DEF Within
<1>4. ASSUME NEW r \in Runs, pc'[r] \in Counting
      PROVE  Within((Taken \cup Counted(seen)) \ stray)'
  <2>1. pc[r] \in Counting /\ Counted(seen)' = Counted(seen)
    BY <1>4 DEF Counted, LiveKeys
  <2>2. Within((Taken' \cup Counted(seen)) \ stray')
    BY <1>1, <1>2, <2>1, FewerFit DEF AdmissionInv, CountFits
  <2> QED BY <2>1, <2>2, Zenon DEF Within
<1>5. ASSUME NEW r \in Runs, pc'[r] \in Counting
      PROVE  /\ \A s \in Runs : marker'[s] # {} => \E k \in Keys : <<s, k>> \in seen'.booting
             /\ \A entry \in seen'.booting : KeyDevice(entry[2]) = DeviceOf[entry[1]]
             /\ pc'[r] = "sims" => seen'.live = {}
  BY <1>5 DEF AdmissionInv, CountComplete
<1>6. ASSUME NEW r \in Runs, pc'[r] \in Counting, NEW d \in Taken' \ stray'
      PROVE  \/ d \in Counted(seen')
             \/ /\ d \in Unlisted(pc'[r]) /\ dev'[d] = "live"
                /\ d \in Android => d \in seen'.config
  <2>1. pc[r] \in Counting /\ pc'[r] = pc[r] /\ seen' = seen
    BY <1>6
  <2>2. ASSUME NEW s \in Runs, marker[s] # {} PROVE DeviceOf[s] \in Counted(seen)
    <3>1. PICK k \in Keys : <<s, k>> \in seen.booting
      BY <2>1, <2>2 DEF AdmissionInv, CountComplete
    <3>2. KeyDevice(k) = DeviceOf[s]
      BY <2>1, <3>1 DEF AdmissionInv, CountComplete
    <3>3. k \in LiveKeys(seen)
      BY <3>1 DEF LiveKeys
    <3> QED BY <3>2, <3>3, SMTT(30) DEF Counted
  <2>3. CASE d \in Counted(seen)
    BY <2>1, <2>3, Zenon
  <2>4. CASE d \notin Counted(seen)
    <3>1. d \in Unlisted(pc[r]) /\ dev[d] = "live" /\ (d \in Android => d \in seen.config)
      BY <1>1, <1>6, <2>1, <2>4, Zenon DEF AdmissionInv, CountComplete
    <3>2. d \in Devices /\ dev'[d] # "off"
      BY <1>1, <1>2, <1>6, <2>2, <2>4, SMTT(30) DEF Taken
    <3>3. dev'[d] = "live"
      BY <2>2, <2>4, <3>1, <3>2, SMTT(30)
    <3> QED BY <2>1, <3>1, <3>3, Zenon
  <2> QED BY <2>3, <2>4
<1>7. CountFits'
  BY <1>3, <1>4, Zenon DEF CountFits, Counting
<1>8. CountComplete'
  <2> SUFFICES ASSUME NEW r \in Runs, pc'[r] \in Counting
               PROVE  /\ \A s \in Runs : marker'[s] # {} => \E k \in Keys : <<s, k>> \in seen'.booting
                      /\ \A entry \in seen'.booting : KeyDevice(entry[2]) = DeviceOf[entry[1]]
                      /\ \A d \in Taken' \ stray' : \/ d \in Counted(seen')
                                                    \/ /\ d \in Unlisted(pc'[r]) /\ dev'[d] = "live"
                                                       /\ d \in Android => d \in seen'.config
                      /\ pc'[r] = "sims" => seen'.live = {}
    BY Zenon DEF CountComplete, Counted, LiveKeys, Unlisted
  <2> QED BY <1>5, <1>6
<1> QED BY <1>7, <1>8

-----------------------------------------------------------------------------
(***************************************************************************)
(* Types, the lock and the markers                                         *)
(***************************************************************************)

\* The types of what the caps depend on are kept.
LEMMA TypedStep ==
    ASSUME Typed, [Next]_vars, \A r \in Runs : pc[r] = "port" => DeviceOf[r] \in Android
    PROVE  Typed'
<1> USE DevicesAssumption DEF Typed, Steps, Goto
<1>1. \A r \in Runs : Own(r) \in Keys /\ Key(DeviceOf[r]) \in Keys
  BY KeyFacts, Zenon
<1>2. seen' = seen \/ seen' = Nothing => /\ seen' = [ahead |-> seen'.ahead, config |-> seen'.config,
                                                     booting |-> seen'.booting, live |-> seen'.live]
                                         /\ seen'.config \subseteq Devices /\ seen'.live \subseteq Devices
                                         /\ seen'.booting \subseteq Runs \X Keys
  BY DEF Nothing
<1>3. ASSUME NEW r \in Runs,
             Lock(r) \/ Poll(r) \/ GiveUp(r) \/ WaitShared(r) \/ WaitCounted(r) \/ CountUnavailable(r)
      PROVE  Typed'
  BY <1>2, <1>3, Zenon DEF Lock, Poll, GiveUp, FreeLock, WaitShared, WaitCounted, CountUnavailable, Enqueue
<1>4. ASSUME NEW r \in Runs, ReadRecords(r) PROVE Typed'
  BY <1>4, Zenon DEF ReadRecords, Nothing, Markers
<1>5. ASSUME NEW r \in Runs, ReadSims(r) \/ ReadAdb(r) PROVE Typed'
  BY <1>5 DEF ReadSims, ReadAdb
<1>6. ASSUME NEW r \in Runs, Admit(r) PROVE Typed'
  BY <1>1, <1>2, <1>6, Zenon DEF Admit
<1>7. ASSUME NEW r \in Runs, Boot(r) \/ BootFails(r) PROVE Typed'
  <2>1. CASE Create(r) \/ Rekeyed(r) \/ Booted(r) \/ BootFails(r)
    BY <1>1, <1>2, <2>1 DEF Create, Rekeyed, Booted, BootFails, LeftBehind
  <2>2. CASE BootIosSim(r) \/ BootEmulator(r)
    BY <1>2, <2>2, Zenon DEF BootIosSim, BootEmulator
  <2>3. CASE ClaimConsolePort(r)
    BY <1>2, <2>3, Zenon DEF ClaimConsolePort
  <2> QED BY <1>7, <2>1, <2>2, <2>3, Zenon DEF Boot
<1>8. ASSUME NEW r \in Runs, Kill(r) PROVE Typed'
  BY <1>2, <1>8, Zenon DEF Kill, FreeLock, LeftBehind
<1>9. ASSUME NEW d \in Devices, Listed(d) \/ Shutdown(d) PROVE Typed'
  BY <1>2, <1>9 DEF Listed, Shutdown
<1>10. ASSUME ListingExpires \/ MemoryChanges \/ UNCHANGED vars PROVE Typed'
  BY <1>2, <1>10 DEF ListingExpires, MemoryChanges, vars
<1> HIDE DEF Typed
<1> QED BY <1>3, <1>4, <1>5, <1>6, <1>7, <1>8, <1>9, <1>10, SMTT(30) DEF Next, Round

\* No run starts to count while another does.
LEMMA LockedStep == ASSUME Typed, Locked, [Next]_vars PROVE Locked'
<1> USE DevicesAssumption DEF Typed, Locked, Counting, Goto
<1>1. ASSUME NEW r \in Runs,
             Lock(r) \/ Poll(r) \/ GiveUp(r) \/ WaitShared(r) \/ WaitCounted(r) \/ CountUnavailable(r)
      PROVE  Locked'
  BY <1>1 DEF Lock, Poll, GiveUp, Refused, FreeLock, WaitShared, WaitCounted, CountUnavailable, Enqueue
<1>2. ASSUME NEW r \in Runs, ReadRecords(r) \/ ReadSims(r) \/ ReadAdb(r) \/ Admit(r) PROVE Locked'
  BY <1>2, Zenon DEF ReadRecords, ReadSims, ReadAdb, Admit
<1>3. ASSUME NEW r \in Runs, Boot(r) \/ BootFails(r) PROVE Locked'
  BY <1>3, Zenon DEF Boot, Create, Rekeyed, Booted, BootFails, BootIosSim, BootEmulator, ClaimConsolePort
<1>4. ASSUME NEW r \in Runs, Kill(r) PROVE Locked'
  BY <1>4, Zenon DEF Kill, FreeLock
<1>5. ASSUME NEW d \in Devices, Listed(d) \/ Shutdown(d) PROVE Locked'
  BY <1>5 DEF Listed, Shutdown
<1>6. ASSUME ListingExpires \/ MemoryChanges \/ UNCHANGED vars PROVE Locked'
  BY <1>6 DEF ListingExpires, MemoryChanges, vars
<1> HIDE DEF Locked
<1> QED BY <1>1, <1>2, <1>3, <1>4, <1>5, <1>6, SMTT(30) DEF Next, Round

\* A marker comes with the admission and goes with the boot, and an emulator is
\* spawned under a marker, on the port that the config records.
LEMMA MarkerStep ==
    ASSUME AdmissionInv, [Next]_vars
    PROVE  MarkerHeld' /\ Countable'
<1> DEFINE Goal == MarkerHeld' /\ Countable'
<1> USE DevicesAssumption DEF AdmissionInv, Typed, MarkerHeld, Countable, Marked, Goto
<1>1. \A r \in Runs : KeyDevice(Own(r)) = DeviceOf[r] /\ KeyDevice(Key(DeviceOf[r])) = DeviceOf[r]
  BY KeyFacts
<1>2. ASSUME NEW r \in Runs,
             \/ Lock(r) \/ Poll(r) \/ GiveUp(r) \/ WaitShared(r) \/ WaitCounted(r) \/ CountUnavailable(r)
             \/ ReadRecords(r) \/ ReadSims(r) \/ ReadAdb(r)
      PROVE  Goal
  <2>1. /\ dev' = dev /\ port' = port /\ marker' = marker /\ stray' = stray
        /\ pc[r] \notin Marked \cup {"done", "dead"}
    BY <1>2, Zenon DEF Lock, Poll, GiveUp, Refused, WaitShared, WaitCounted, CountUnavailable, ReadRecords,
       ReadSims, ReadAdb
  <2>2. \E step \in {"round", "lock", "done", "wait", "sims", "adb", "decide"} : pc' = [pc EXCEPT ![r] = step]
    BY <1>2, Zenon DEF Lock, Poll, GiveUp, WaitShared, WaitCounted, CountUnavailable, Enqueue, ReadRecords,
       ReadSims, ReadAdb
  <2> QED BY <2>1, <2>2
<1>3. ASSUME NEW r \in Runs, Admit(r) PROVE Goal
  BY <1>1, <1>3, SMTT(30) DEF Admit
<1>4. ASSUME NEW r \in Runs, Create(r) \/ Rekeyed(r) PROVE Goal
  BY <1>1, <1>4, SMTT(30) DEF Create, Rekeyed
<1>5. ASSUME NEW r \in Runs, BootIosSim(r) \/ ClaimConsolePort(r) \/ BootEmulator(r) PROVE Goal
  BY <1>5, SMTT(30) DEF BootIosSim, BootEmulator, ClaimConsolePort
<1>6. ASSUME NEW r \in Runs, Booted(r) \/ BootFails(r) PROVE Goal
  BY <1>6, EmulatorsAssumption, SMTT(30) DEF Booted, BootFails, LeftBehind, OnlyMarked
<1>7. ASSUME NEW r \in Runs, Kill(r) PROVE Goal
  BY <1>7, EmulatorsAssumption, SMTT(30) DEF Kill, LeftBehind, OnlyMarked
<1>8. ASSUME NEW d \in Devices, Listed(d) \/ Shutdown(d) PROVE Goal
  BY <1>8 DEF Listed, Shutdown
<1>9. ASSUME ListingExpires \/ MemoryChanges \/ UNCHANGED vars PROVE Goal
  BY <1>9, SMTT(30) DEF ListingExpires, MemoryChanges, vars
<1> HIDE DEF Goal
<1>10. Goal
  BY <1>2, <1>3, <1>4, <1>5, <1>6, <1>7, <1>8, <1>9, SMTT(30) DEF Next, Round, Boot
<1> QED BY <1>10, SMTT(30) DEF Goal

-----------------------------------------------------------------------------
(***************************************************************************)
(* The steps of a count                                                    *)
(***************************************************************************)

\* The records: every marker is read, and what is up without one can be listed.
LEMMA ReadRecordsStep ==
    ASSUME AdmissionInv, NEW r \in Runs, ReadRecords(r)
    PROVE  CountComplete' /\ CountFits'
<1> USE DEF AdmissionInv, Typed, Counting, Goto
<1>1. /\ dev' = dev /\ port' = port /\ marker' = marker /\ stray' = stray
      /\ pc' = [pc EXCEPT ![r] = "sims"]
      /\ seen'.config = port /\ seen'.booting = Markers /\ seen'.live = {}
  BY Zenon DEF ReadRecords, Nothing
<1>2. \A s \in Runs : pc'[s] \in Counting => s = r
  BY <1>1, DevicesAssumption DEF Locked, ReadRecords
<1>3. Taken' = Taken
  BY <1>1 DEF Taken
<1>4. \A entry \in Markers : entry[1] \in Runs /\ entry[2] \in marker[entry[1]]
  BY Zenon DEF Markers
<1>5. \A entry \in Markers : KeyDevice(entry[2]) = DeviceOf[entry[1]] /\ DeviceOf[entry[1]] \in Taken
  BY <1>4 DEF MarkerHeld, Taken
<1>6. Counted(seen') \subseteq Taken
  BY <1>1, <1>5 DEF Counted, LiveKeys
<1>7. ASSUME NEW s \in Runs, marker[s] # {}
      PROVE  (\E k \in Keys : <<s, k>> \in Markers) /\ DeviceOf[s] \in Counted(seen')
  <2>1. PICK k \in Keys : k \in marker[s]
    BY <1>7, Zenon
  <2>2. <<s, k>> \in Markers
    BY <2>1, Zenon DEF Markers
  <2>3. k \in LiveKeys(seen')
    BY <1>1, <2>2 DEF LiveKeys
  <2>4. KeyDevice(k) = DeviceOf[s]
    BY <2>1, Zenon DEF MarkerHeld
  <2> QED BY <2>2, <2>3, <2>4, Zenon DEF Counted
<1>8. ASSUME NEW d \in Taken \ stray, d \notin Counted(seen')
      PROVE  d \in Unlisted("sims") /\ dev[d] = "live" /\ (d \in Android => d \in port)
  <2>1. d \in Devices /\ dev[d] # "off"
    BY <1>7, <1>8, DevicesAssumption, SMTT(30) DEF Taken
  <2>2. dev[d] # "spawned"
    BY <1>7, <1>8, <2>1, SMTT(30) DEF Countable
  <2> QED BY <2>1, <2>2, Zenon DEF Countable, Unlisted
<1>9. CountFits'
  <2>1. Taken' \cup Counted(seen') = Taken
    BY <1>3, <1>6, Zenon
  <2>2. Taken' \ stray' = Taken \ stray /\ (Taken' \cup Counted(seen')) \ stray' = Taken \ stray
    BY <1>1, <1>3, <2>1, Zenon
  <2>3. Within(Taken \ stray)
    BY Zenon DEF CountFits
  <2>4. Within(Taken' \ stray') /\ Within((Taken' \cup Counted(seen')) \ stray')
    BY <2>2, <2>3, Zenon
  <2> HIDE DEF AdmissionInv, Typed
  <2> QED BY <2>4, ZenonT(30) DEF CountFits, Within, Counted, LiveKeys
<1>10. CountComplete'
  <2> SUFFICES ASSUME NEW s \in Runs, pc'[s] \in Counting
               PROVE  /\ \A t \in Runs : marker'[t] # {} => \E k \in Keys : <<t, k>> \in seen'.booting
                      /\ \A entry \in seen'.booting : KeyDevice(entry[2]) = DeviceOf[entry[1]]
                      /\ \A d \in Taken' \ stray' : \/ d \in Counted(seen')
                                                    \/ /\ d \in Unlisted(pc'[s]) /\ dev'[d] = "live"
                                                       /\ d \in Android => d \in seen'.config
                      /\ pc'[s] = "sims" => seen'.live = {}
    BY Zenon DEF CountComplete, Counted, LiveKeys, Unlisted
  <2>1. s = r /\ pc'[s] = "sims"
    BY <1>1, <1>2
  <2> QED BY <1>1, <1>3, <1>5, <1>7, <1>8, <2>1, Zenon
<1> QED BY <1>9, <1>10

\* A listing: the devices it shows are in use, and those of its kind that were
\* left to list are among them.
LEMMA ListStep ==
    ASSUME AdmissionInv, NEW r \in Runs, ReadSims(r) \/ ReadAdb(r)
    PROVE  CountComplete' /\ CountFits'
<1> USE DEF AdmissionInv, Typed, Counting, Goto
<1>1. /\ dev' = dev /\ marker' = marker /\ stray' = stray
      /\ pc' = [pc EXCEPT ![r] = IF pc[r] = "sims" THEN "adb" ELSE "decide"]
      /\ seen'.config = seen.config /\ seen'.booting = seen.booting
      /\ pc[r] \in {"sims", "adb"}
  BY Zenon DEF ReadSims, ReadAdb
<1>2. \A s \in Runs : pc'[s] \in Counting => s = r
  BY <1>1, DevicesAssumption DEF Locked
<1>3. Taken' = Taken
  BY <1>1 DEF Taken
<1>4. /\ seen.live \subseteq seen'.live
      /\ \A d \in seen'.live \ seen.live : d \in Devices /\ dev[d] = "live"
      /\ \A d \in Devices : d \in Unlisted(pc[r]) \ Unlisted(pc'[r]) /\ dev[d] = "live"
                                /\ (d \in Android => d \in seen.config) => d \in seen'.live
  <2>1. CASE ReadSims(r)
    <3>1. seen.live = {} /\ seen'.live = {d \in Devices \ Android : dev[d] = "live"}
      BY <2>1 DEF ReadSims, CountComplete
    <3>2. pc[r] = "sims" /\ pc'[r] = "adb"
      BY <1>1, <2>1 DEF ReadSims
    <3> QED BY <3>1, <3>2 DEF Unlisted
  <2>2. CASE ReadAdb(r)
    <3>1. seen'.live = seen.live \cup {d \in Android : seen.config # {} /\ dev[d] = "live"}
      BY <2>2 DEF ReadAdb
    <3>2. pc[r] = "adb" /\ pc'[r] = "decide"
      BY <1>1, <2>2 DEF ReadAdb
    <3> QED BY <3>1, <3>2, DevicesAssumption DEF Unlisted
  <2> QED BY <2>1, <2>2
<1>5. Counted(seen) \subseteq Counted(seen')
  BY <1>1, <1>4 DEF Counted, LiveKeys
<1>6. ASSUME NEW d \in Devices, d \in seen'.live, d \in Android => d \in seen.config
      PROVE  d \in Counted(seen')
  <2>1. Key(d) \in LiveKeys(seen')
    BY <1>1, <1>6 DEF LiveKeys
  <2> QED BY <2>1, KeyFacts, Zenon DEF Counted
<1>7. Counted(seen') \subseteq Taken \cup Counted(seen)
  <2> SUFFICES ASSUME NEW k \in LiveKeys(seen') PROVE KeyDevice(k) \in Taken \cup Counted(seen)
    BY DEF Counted
  <2>1. CASE k \in LiveKeys(seen)
    BY <2>1 DEF Counted
  <2>2. CASE k \notin LiveKeys(seen)
    <3>1. PICK d \in seen'.live \ seen.live : k = Key(d)
      BY <1>1, <2>2 DEF LiveKeys
    <3>2. d \in Taken
      BY <1>4, <3>1, SMTT(30) DEF Taken
    <3> QED BY <1>4, <3>1, <3>2, KeyFacts, SMTT(30)
  <2> QED BY <2>1, <2>2
<1>8. CountFits'
  <2> DEFINE Was == (Taken \cup Counted(seen)) \ stray
             Is == (Taken' \cup Counted(seen')) \ stray'
  <2>1. Is \in SUBSET Was
    BY <1>1, <1>3, <1>7
  <2>2. Within(Taken' \ stray') /\ Within(Was) /\ Was \in SUBSET Devices
    BY <1>1, <1>3, CountedDevices DEF CountFits
  <2>3. Within(Is)
    BY <2>1, <2>2, FewerFit
  <2> QED BY <2>2, <2>3 DEF CountFits, Within, Counted, LiveKeys
<1>9. CountComplete'
  <2> SUFFICES ASSUME NEW s \in Runs, pc'[s] \in Counting
               PROVE  /\ \A t \in Runs : marker'[t] # {} => \E k \in Keys : <<t, k>> \in seen'.booting
                      /\ \A entry \in seen'.booting : KeyDevice(entry[2]) = DeviceOf[entry[1]]
                      /\ \A d \in Taken' \ stray' : \/ d \in Counted(seen')
                                                    \/ /\ d \in Unlisted(pc'[s]) /\ dev'[d] = "live"
                                                       /\ d \in Android => d \in seen'.config
                      /\ pc'[s] = "sims" => seen'.live = {}
    BY Zenon DEF CountComplete, Counted, LiveKeys, Unlisted
  <2>1. s = r /\ pc'[s] # "sims"
    BY <1>1, <1>2
  <2>2. /\ \A t \in Runs : marker[t] # {} => \E k \in Keys : <<t, k>> \in seen.booting
        /\ \A entry \in seen.booting : KeyDevice(entry[2]) = DeviceOf[entry[1]]
    BY <1>1 DEF CountComplete
  <2>3. ASSUME NEW d \in Taken \ stray, d \notin Counted(seen')
        PROVE  d \in Unlisted(pc'[r]) /\ dev[d] = "live" /\ (d \in Android => d \in seen.config)
    <3>1. d \in Unlisted(pc[r]) /\ dev[d] = "live" /\ (d \in Android => d \in seen.config)
      BY <1>1, <1>5, <2>3 DEF CountComplete
    <3>2. d \in Devices
      BY CountedDevices
    <3> QED BY <1>4, <1>6, <2>3, <3>1, <3>2
  <2> QED BY <1>1, <1>3, <2>1, <2>2, <2>3
<1> QED BY <1>8, <1>9

\* The admission: a run that joins boots a device that was counted, and one that
\* boots its own found room for it beside everything in use.
LEMMA AdmitStep ==
    ASSUME AdmissionInv, NEW r \in Runs, Admit(r)
    PROVE  CountComplete' /\ CountFits'
<1> DEFINE x == DeviceOf[r]
<1> USE DEF AdmissionInv, Typed, Counting, Goto
<1>1. \A s \in Runs : pc'[s] \notin Counting
  BY DevicesAssumption DEF Admit, Locked
<1>2. Taken' = Taken \cup {x}
  BY KeyFacts, SMTT(30) DEF Admit, Taken
<1>3. x \in Devices /\ Own(r) \in Keys /\ KeyDevice(Own(r)) = x
  BY KeyFacts, DevicesAssumption, Zenon
<1>4. /\ Taken \subseteq Devices /\ Taken \ stray \subseteq Counted(seen)
      /\ Counted(seen) \subseteq Devices /\ LiveKeys(seen) \subseteq Keys
  BY CountedDevices DEF Admit, CountComplete, Unlisted
<1>5. Within(Taken' \ stray')
  <2>1. CASE Joins(r, seen)
    <3>1. Own(r) \in LiveKeys(seen)
      BY <2>1 DEF Joins, LiveKeys
    <3>2. x \in Counted(seen)
      BY <1>3, <3>1 DEF Counted
    <3>3. Within((Taken \cup Counted(seen)) \ stray)
      BY DEF Admit, CountFits
    <3>4. stray' = stray
      BY <2>1 DEF Admit
    <3>5. Taken' \ stray' \in SUBSET ((Taken \cup Counted(seen)) \ stray)
      BY <1>2, <3>2, <3>4
    <3> QED BY <1>4, <3>3, <3>5, FewerFit, SMTT(30)
  <2>2. CASE ~Joins(r, seen)
    <3>1. ~Full(OtherKeys(r, seen), Platform(x)) /\ Within(Taken \ stray)
      BY <2>2 DEF Admit, Admissible, Bootable, CountFits
    <3>2. OtherKeys(r, seen) \in SUBSET Keys
      BY <1>4 DEF OtherKeys
    <3>3. Taken \ stray \subseteq {KeyDevice(k) : k \in OtherKeys(r, seen)} \cup {x}
      BY <1>3, <1>4 DEF Counted, OtherKeys
    <3>4. stray' = stray \ {x}
      BY <2>2 DEF Admit
    <3>5. Taken' \ stray' = (Taken \ stray) \cup {x}
      BY <1>2, <3>4
    <3> QED BY <1>3, <1>4, <3>1, <3>2, <3>3, <3>5, RoomForOne
  <2> QED BY <2>1, <2>2
<1> QED BY <1>1, <1>5 DEF CountComplete, CountFits, Within

\* A count stays complete and within the caps in every step.
LEMMA CountStep ==
    ASSUME AdmissionInv, [Next]_vars
    PROVE  CountComplete' /\ CountFits'
<1> DEFINE Goal == CountComplete' /\ CountFits'
           Calm == /\ \A r \in Runs : pc'[r] \in Counting => pc'[r] = pc[r] /\ seen' = seen
                   /\ \A s \in Runs : marker'[s] # {} => marker[s] # {}
                   /\ \A d \in Devices \ stray : dev'[d] # "off" =>
                          dev'[d] = dev[d] \/ \E s \in Runs : DeviceOf[s] = d /\ marker[s] # {}
                   /\ stray \subseteq stray'
<1>1. Calm => Goal
  BY Quiet, SMTT(30)
<1> USE DevicesAssumption DEF AdmissionInv, Typed, Counting, Goto
<1>2. ASSUME NEW r \in Runs,
             Lock(r) \/ Poll(r) \/ GiveUp(r) \/ WaitShared(r) \/ WaitCounted(r) \/ CountUnavailable(r)
      PROVE  Calm
  BY <1>2, SMTT(30) DEF Lock, Poll, GiveUp, Refused, FreeLock, WaitShared, WaitCounted, CountUnavailable,
     Enqueue, Locked
<1>3. ASSUME NEW r \in Runs, Create(r) \/ Rekeyed(r) \/ ClaimConsolePort(r) \/ Booted(r) \/ BootFails(r)
      PROVE  Calm
  BY <1>3, SMTT(30) DEF Create, Rekeyed, ClaimConsolePort, Booted, BootFails, LeftBehind, MarkerHeld, Marked
<1>4. ASSUME NEW r \in Runs, BootIosSim(r) \/ BootEmulator(r) PROVE Calm
  BY <1>4 DEF BootIosSim, BootEmulator, MarkerHeld, Marked
<1>5. ASSUME NEW r \in Runs, Kill(r) PROVE Calm
  BY <1>5 DEF Kill, LeftBehind, FreeLock, Locked
<1>6. ASSUME NEW d \in Devices, Shutdown(d) PROVE Calm
  BY <1>6 DEF Shutdown
<1>7. ASSUME NEW d \in Devices, Listed(d) PROVE Calm
  BY <1>7 DEF Listed, Countable
<1>8. ASSUME ListingExpires \/ MemoryChanges \/ UNCHANGED vars PROVE Calm
  BY <1>8, Zenon DEF ListingExpires, MemoryChanges, vars
<1>9. ASSUME NEW r \in Runs, ReadRecords(r) \/ ReadSims(r) \/ ReadAdb(r) \/ Admit(r) PROVE Goal
  BY <1>9, ReadRecordsStep, ListStep, AdmitStep, SMTT(30)
<1> HIDE DEF Goal, Calm
<1>10. Goal
  BY <1>1, <1>2, <1>3, <1>4, <1>5, <1>6, <1>7, <1>8, <1>9, SMTT(30) DEF Next, Round, Boot
<1> QED BY <1>10 DEF Goal

-----------------------------------------------------------------------------
(***************************************************************************)
(* The queue of tickets                                                    *)
(***************************************************************************)

\* The ticket of x is older than the one of y.
Before(q, x, y) == \E i, j \in 1..Len(q) : i < j /\ q[i] = x /\ q[j] = y

\* A ticket that goes leaves the others in their order.
LEMMA TicketGone ==
    ASSUME NEW q \in Seq(Runs), IsInjective(q), NEW r, NEW p, p = Without(q, r)
    PROVE  /\ p \in Seq(Runs) /\ IsInjective(p)
           /\ Range(p) \subseteq Range(q)
           /\ Range(q) \ {r} \subseteq Range(p)
           /\ \A x, y : Before(p, x, y) => Before(q, x, y)
<1>1. CASE r \notin Range(q)
  BY <1>1, Zenon DEF Without
<1>2. CASE r \in Range(q)
  <2> DEFINE n == CHOOSE i \in DOMAIN q : q[i] = r
  <2>1. n \in 1..Len(q) /\ q[n] = r
    BY <1>2 DEF Range
  <2>2. p = [i \in 1..(Len(q) - 1) |-> IF i < n THEN q[i] ELSE q[i + 1]]
    BY <1>2 DEF Without
  <2> HIDE DEF n
  <2>3. /\ p \in Seq(Runs) /\ Len(p) = Len(q) - 1
        /\ \A i \in 1..Len(p) : p[i] = IF i < n THEN q[i] ELSE q[i + 1]
    <3>1. Len(q) - 1 \in Nat /\ \A i \in 1..(Len(q) - 1) : (IF i < n THEN q[i] ELSE q[i + 1]) \in Runs
      BY <2>1
    <3> QED BY <2>2, <3>1
  <2>4. n \in Nat /\ Len(q) \in Nat /\ 1 <= n /\ n <= Len(q)
    BY <2>1
  <2> DEFINE at(i) == IF i < n THEN i ELSE i + 1
  <2>5. ASSUME NEW i \in 1..Len(p) PROVE at(i) \in 1..Len(q) /\ at(i) # n /\ p[i] = q[at(i)]
    BY <2>3, <2>4
  <2>6. ASSUME NEW i \in 1..Len(p), NEW j \in 1..Len(p)
        PROVE  (at(i) = at(j) => i = j) /\ (i < j => at(i) < at(j))
    BY <2>3, <2>4
  <2>7. ASSUME NEW k \in 1..Len(q), k # n PROVE \E i \in 1..Len(p) : at(i) = k
    <3>1. CASE k < n
      BY <2>3, <2>4, <3>1
    <3>2. CASE k > n
      <4>1. k - 1 \in 1..Len(p) /\ at(k - 1) = k
        BY <2>3, <2>4, <3>2
      <4> QED BY <4>1, SMTT(30)
    <3> QED BY <2>4, <2>7, <3>1, <3>2
  <2> HIDE DEF at
  <2>8. DOMAIN p = 1..Len(p) /\ DOMAIN q = 1..Len(q)
    BY <2>3
  <2>9. IsInjective(p)
    BY <2>5, <2>6, <2>8 DEF IsInjective
  <2>10. Range(p) \subseteq Range(q)
    BY <2>5, <2>8 DEF Range
  <2>11. Range(q) \ {r} \subseteq Range(p)
    <3> SUFFICES ASSUME NEW k \in 1..Len(q), q[k] # r PROVE q[k] \in Range(p)
      BY <2>8 DEF Range
    <3>1. PICK i \in 1..Len(p) : at(i) = k
      BY <2>1, <2>7
    <3> QED BY <2>5, <2>8, <3>1, Zenon DEF Range
  <2>12. \A x, y : Before(p, x, y) => Before(q, x, y)
    BY <2>5, <2>6, SMTT(30) DEF Before
  <2> QED BY <2>3, <2>9, <2>10, <2>11, <2>12
<1> QED BY <1>1, <1>2

\* A run that had none gets the last ticket.
LEMMA TicketTaken ==
    ASSUME NEW q \in Seq(Runs), IsInjective(q), NEW r \in Runs, r \notin Range(q)
    PROVE  Append(q, r) \in Seq(Runs) /\ IsInjective(Append(q, r))
<1> DEFINE p == Append(q, r)
<1>1. /\ p \in Seq(Runs) /\ Len(p) = Len(q) + 1 /\ Len(q) \in Nat
      /\ \A i \in 1..Len(q) : p[i] = q[i] /\ p[i] # r
      /\ p[Len(q) + 1] = r
  BY DEF Range
<1>2. DOMAIN p = 1..(Len(q) + 1) /\ DOMAIN q = 1..Len(q)
  BY <1>1
<1>3. ASSUME NEW i \in 1..(Len(q) + 1), i # Len(q) + 1 PROVE i \in 1..Len(q)
  BY <1>1, <1>3
<1> HIDE DEF p
<1>4. IsInjective(p)
  BY <1>1, <1>2, <1>3 DEF IsInjective
<1> QED BY <1>1, <1>4, Zenon DEF p

-----------------------------------------------------------------------------
(***************************************************************************)
(* Tickets and turns, whatever becomes of an emulator and its marker       *)
(***************************************************************************)

\* The rest of the state; a run has one ticket at most.
Waiting ==
    /\ queue \in Seq(Runs) /\ IsInjective(queue)
    /\ lock \in Runs \cup {NoRun}
    /\ listing \in [fresh : BOOLEAN, live : SUBSET Devices, adb : BOOLEAN]
    /\ memory \in BOOLEAN
    /\ seen.ahead \subseteq Runs

\* A console port is claimed for an emulator.
Ported == \A r \in Runs : pc[r] = "port" => DeviceOf[r] \in Android

\* Who is ahead of the run that counts was ahead when it read the queue.
AheadRead == \A r \in Runs : pc[r] \in Counting => Ahead(r) \subseteq seen.ahead

QueueInv == Typed /\ Locked /\ Ported /\ Waiting /\ AheadRead

LEMMA QueueTypes == QueueInv => TypeOK
BY Zenon DEF QueueInv, Typed, Waiting, TypeOK, Inventories

\* Those ahead of a run are the waiting, or the older ones once it waits itself.
LEMMA AheadIs ==
    ASSUME queue \in Seq(Runs), NEW r
    PROVE  Ahead(r) = {w \in Range(queue) \ {r} : r \in Range(queue) => Before(queue, w, r)}
  BY Zenon DEF Ahead, Queued, Before

\* What a step does to the queue: nothing, one ticket goes, or the run that has
\* the lock takes one and lets go.
LEMMA QueueSteps ==
    ASSUME [Next]_vars, Typed, Locked
    PROVE  \/ queue' = queue
           \/ \E r \in Runs : queue' = Without(queue, r) /\ pc'[r] \notin Counting
           \/ \E r \in Runs : /\ queue' = Append(queue, r) /\ r \notin Range(queue)
                               /\ \A s \in Runs : pc'[s] \notin Counting
<1> USE DEF Typed, Goto, Counting
<1>1. ASSUME NEW r \in Runs, WaitShared(r) \/ WaitCounted(r) \/ CountUnavailable(r)
      PROVE  \/ queue' = queue
             \/ /\ queue' = Append(queue, r) /\ r \notin Range(queue)
                /\ \A s \in Runs : pc'[s] \notin Counting
  <2>1. Enqueue(r) /\ pc[r] \in Counting \cup {"round"}
    BY <1>1 DEF WaitShared, WaitCounted, CountUnavailable
  <2>2. \A s \in Runs : pc'[s] \notin Counting
    BY <2>1 DEF Enqueue, Locked
  <2> QED BY <2>1, <2>2 DEF Enqueue, Queued
<1>2. ASSUME NEW r \in Runs, Admit(r) \/ GiveUp(r) \/ Kill(r)
      PROVE  queue' = Without(queue, r) /\ pc'[r] \notin Counting
  BY <1>2 DEF Admit, GiveUp, Kill
<1> QED BY <1>1, <1>2, Zenon
  DEF Next, Round, Boot, Lock, ReadRecords, ReadSims, ReadAdb, Poll, Create, Rekeyed, BootIosSim,
      ClaimConsolePort, BootEmulator, Booted, BootFails, Listed, Shutdown, ListingExpires, MemoryChanges, vars

\* A count begins with a look at the queue; nobody gets ahead of it afterwards.
LEMMA CountSteps ==
    ASSUME [Next]_vars, Typed, Locked, NEW r \in Runs, pc'[r] \in Counting
    PROVE  \/ ReadRecords(r)
           \/ pc[r] \in Counting /\ seen'.ahead = seen.ahead
<1> USE DevicesAssumption DEF Typed, Goto, Counting
<1> DEFINE Goal == ReadRecords(r) \/ (pc[r] \in Counting /\ seen'.ahead = seen.ahead)
<1>1. ASSUME NEW s \in Runs, WaitShared(s) \/ WaitCounted(s) \/ CountUnavailable(s) \/ Admit(s) PROVE FALSE
  <2>1. pc[s] \in Counting \cup {"round"} /\ pc'[s] \notin Counting /\ \A t \in Runs \ {s} : pc'[t] = pc[t]
    BY <1>1 DEF WaitShared, WaitCounted, CountUnavailable, Enqueue, Admit
  <2> QED BY <2>1, SMTT(30) DEF Locked
<1>2. ASSUME NEW s \in Runs, ReadRecords(s) \/ ReadSims(s) \/ ReadAdb(s) PROVE Goal
  BY <1>2 DEF ReadRecords, ReadSims, ReadAdb, Locked
<1>3. ASSUME NEW s \in Runs, GiveUp(s) \/ Kill(s) PROVE Goal
  BY <1>3 DEF GiveUp, Kill, FreeLock, Locked
<1>4. ASSUME NEW s \in Runs, Lock(s) \/ Poll(s) \/ Boot(s) \/ BootFails(s) PROVE Goal
  BY <1>4, Zenon DEF Lock, Poll, Boot, BootFails, Create, Rekeyed, BootIosSim, ClaimConsolePort, BootEmulator,
     Booted
<1>5. ASSUME pc' = pc, seen' = seen PROVE Goal
  BY <1>5
<1> HIDE DEF Goal
<1>6. Goal
  BY <1>1, <1>2, <1>3, <1>4, <1>5, Zenon
  DEF Next, Round, Listed, Shutdown, ListingExpires, MemoryChanges, vars
<1> QED BY <1>6 DEF Goal

LEMMA WaitingStep == ASSUME Typed, Locked, Waiting, [Next]_vars PROVE Waiting'
<1> USE DEF Typed, Waiting
<1>1. queue' \in Seq(Runs) /\ IsInjective(queue')
  <2>1. ASSUME NEW r \in Runs, queue' = Without(queue, r) PROVE queue' \in Seq(Runs) /\ IsInjective(queue')
    BY <2>1, TicketGone
  <2>2. ASSUME NEW r \in Runs, queue' = Append(queue, r), r \notin Range(queue)
        PROVE  queue' \in Seq(Runs) /\ IsInjective(queue')
    BY <2>2, TicketTaken
  <2> QED BY <2>1, <2>2, QueueSteps, Zenon
<1>2. lock' \in Runs \cup {NoRun}
  <2>1. lock' \in {lock, NoRun} \/ \E r \in Runs : lock' = r
    BY ZenonT(30)
    DEF Next, Round, Boot, Lock, ReadRecords, ReadSims, ReadAdb, Poll, Create, Rekeyed, BootIosSim,
        ClaimConsolePort, BootEmulator, Booted, BootFails, Listed, Shutdown, ListingExpires, MemoryChanges,
        WaitShared, WaitCounted, CountUnavailable, Enqueue, Admit, GiveUp, Kill, FreeLock, vars
  <2> QED BY <2>1, Zenon
<1>3. listing' \in [fresh : BOOLEAN, live : SUBSET Devices, adb : BOOLEAN]
  <2>1. ASSUME NEW r \in Runs, ReadAdb(r)
        PROVE  listing' \in [fresh : BOOLEAN, live : SUBSET Devices, adb : BOOLEAN]
    BY <2>1, DevicesAssumption DEF ReadAdb
  <2>2. NoListing \in [fresh : BOOLEAN, live : SUBSET Devices, adb : BOOLEAN]
    BY Zenon DEF NoListing
  <2>3. listing' \in {listing, NoListing} \/ \E r \in Runs : ReadAdb(r)
    BY ZenonT(30)
    DEF Next, Round, Boot, Lock, ReadRecords, ReadSims, Poll, Create, Rekeyed, BootIosSim,
        ClaimConsolePort, BootEmulator, Booted, BootFails, Listed, Shutdown, ListingExpires, MemoryChanges,
        WaitShared, WaitCounted, CountUnavailable, Admit, GiveUp, Kill, vars
  <2> QED BY <2>1, <2>2, <2>3, Zenon
<1>4. seen'.ahead \subseteq Runs
  <2>1. ASSUME NEW r \in Runs, ReadRecords(r) PROVE seen'.ahead \subseteq Runs
    <3>1. seen'.ahead = Ahead(r)
      BY <2>1 DEF ReadRecords, Nothing
    <3>2. Range(queue) \subseteq Runs
      BY DEF Range
    <3> QED BY <3>1, <3>2 DEF Ahead
  <2>2. ASSUME NEW r \in Runs, ReadSims(r) \/ ReadAdb(r) PROVE seen'.ahead \subseteq Runs
    BY <2>2, Zenon DEF ReadSims, ReadAdb
  <2>3. Nothing.ahead \subseteq Runs
    BY Zenon DEF Nothing
  <2>4. seen' \in {seen, Nothing} \/ \E r \in Runs : ReadRecords(r) \/ ReadSims(r) \/ ReadAdb(r)
    BY Zenon
    DEF Next, Round, Boot, Lock, Poll, Create, Rekeyed, BootIosSim,
        ClaimConsolePort, BootEmulator, Booted, BootFails, Listed, Shutdown, ListingExpires, MemoryChanges,
        WaitShared, WaitCounted, CountUnavailable, Enqueue, Admit, GiveUp, Kill, FreeLock, vars
  <2> QED BY <2>1, <2>2, <2>3, <2>4, Zenon
<1>5. memory' \in BOOLEAN
  <2>1. memory' = memory \/ memory' = ~memory
    BY ZenonT(30)
    DEF Next, Round, Boot, Lock, ReadRecords, ReadSims, ReadAdb, Poll, Create, Rekeyed, BootIosSim,
        ClaimConsolePort, BootEmulator, Booted, BootFails, Listed, Shutdown, ListingExpires, MemoryChanges,
        WaitShared, WaitCounted, CountUnavailable, Admit, GiveUp, Kill, vars
  <2> QED BY <2>1, Zenon
<1> QED BY <1>1, <1>2, <1>3, <1>4, <1>5

LEMMA PortedStep == ASSUME Typed, Ported, [Next]_vars PROVE Ported'
<1> USE DevicesAssumption DEF Typed, Ported, Goto
<1>1. ASSUME NEW r \in Runs, Round(r) \/ CountUnavailable(r) \/ GiveUp(r) \/ Kill(r) PROVE Ported'
  BY <1>1, SMTT(30) DEF Round, Lock, ReadRecords, ReadSims, ReadAdb, Poll, WaitShared, WaitCounted,
     CountUnavailable,
              Enqueue, Admit, GiveUp, Kill
<1>2. ASSUME NEW r \in Runs, Boot(r) \/ BootFails(r) PROVE Ported'
  BY <1>2, SMTT(30) DEF Boot, BootFails, Create, Rekeyed, BootIosSim, ClaimConsolePort, BootEmulator, Booted
<1>3. ASSUME pc' = pc PROVE Ported'
  BY <1>3
<1> HIDE DEF Ported
<1> QED BY <1>1, <1>2, <1>3, Zenon DEF Next, Listed, Shutdown, ListingExpires, MemoryChanges, vars

\* A run gives up its ticket or comes behind those that were there.
LEMMA AheadStep == ASSUME Typed, Locked, Waiting, AheadRead, [Next]_vars PROVE AheadRead'
<1> SUFFICES ASSUME NEW r \in Runs, pc'[r] \in Counting, NEW w \in Ahead(r)' PROVE w \in seen'.ahead
  BY Zenon DEF AheadRead, Counting
<1>1. queue \in Seq(Runs) /\ IsInjective(queue) /\ queue' \in Seq(Runs)
  BY WaitingStep, SMTT(30) DEF Waiting
<1>2. Ahead(r)' = {x \in Range(queue') \ {r} : r \in Range(queue') => Before(queue', x, r)}
  BY <1>1, AheadIs DEF Ahead, Queued, Before
<1>3. w \in Ahead(r)
  <2>1. CASE queue' = queue
    BY <1>1, <1>2, <2>1, AheadIs
  <2>2. ASSUME NEW s \in Runs, queue' = Without(queue, s), pc'[s] \notin Counting PROVE w \in Ahead(r)
    <3>1. /\ Range(queue') \subseteq Range(queue) /\ Range(queue) \ {s} \subseteq Range(queue')
          /\ \A x, y : Before(queue', x, y) => Before(queue, x, y)
      BY <1>1, <2>2, TicketGone
    <3>2. s # r
      BY <2>2
    <3> QED BY <1>1, <1>2, <3>1, <3>2, AheadIs, SMTT(30)
  <2> QED BY <2>1, <2>2, QueueSteps
<1>4. CASE ReadRecords(r)
  <2>1. seen'.ahead = Ahead(r)
    BY <1>4 DEF ReadRecords, Nothing
  <2> QED BY <1>3, <2>1
<1>5. CASE pc[r] \in Counting /\ seen'.ahead = seen.ahead
  BY <1>3, <1>5 DEF AheadRead
<1> QED BY <1>4, <1>5, CountSteps

-----------------------------------------------------------------------------
(***************************************************************************)
(* The theorems                                                            *)
(***************************************************************************)

\* Nothing is in use at first but devices that are up, within the caps.
LEMMA InitInv == Init => AdmissionInv
<1> SUFFICES ASSUME Init PROVE AdmissionInv
  OBVIOUS
<1>1. Typed /\ Locked /\ MarkerHeld /\ Countable /\ CountComplete
  BY DevicesAssumption DEF Init, Typed, Locked, MarkerHeld, Countable, CountComplete, Counting, Marked, Steps,
     Nothing
<1>2. Taken \ stray = {d \in Devices : dev[d] = "live"}
  BY Zenon DEF Init, Taken
<1>3. \A p \in Platforms :
          {d \in Taken \ stray : Platform(d) = p} = {d \in Devices : dev[d] = "live" /\ Platform(d) = p}
  BY <1>2, Zenon
<1>4. Within(Taken \ stray)
  BY <1>2, <1>3, Zenon DEF Init, Within
<1>5. CountFits
  BY <1>4, Zenon DEF Init, CountFits, Counting
<1> QED BY <1>1, <1>5 DEF AdmissionInv

LEMMA QueueInit == Init => QueueInv
<1> SUFFICES ASSUME Init PROVE QueueInv
  OBVIOUS
<1>1. Typed /\ Locked
  BY InitInv DEF AdmissionInv
<1>2. Ported /\ AheadRead
  BY Zenon DEF Init, Ported, AheadRead, Counting
<1>3. queue \in Seq(Runs) /\ IsInjective(queue)
  BY DEF Init, IsInjective
<1>4. listing \in [fresh : BOOLEAN, live : SUBSET Devices, adb : BOOLEAN] /\ seen.ahead \subseteq Runs
  BY Zenon DEF Init, NoListing, Nothing
<1>5. Waiting
  BY <1>3, <1>4, Zenon DEF Init, Waiting
<1> QED BY <1>1, <1>2, <1>5 DEF QueueInv

\* Those ahead of a run that counts were ahead when it read the queue, in every
\* behaviour.
THEOREM QueueInvariance == Spec => []QueueInv
<1>1. QueueInv /\ [Next]_vars => QueueInv'
  BY TypedStep, LockedStep, WaitingStep, PortedStep, AheadStep, ZenonT(30) DEF QueueInv, Ported
<1> QED BY <1>1, QueueInit, PTL DEF Spec

\* In every behaviour a count under the lock misses no device in use but those
\* that a boot left behind, and what it counted fits the caps.
THEOREM Invariance == Spec => []AdmissionInv
<1>1. AdmissionInv /\ [Next]_vars => AdmissionInv'
  BY TypedStep, LockedStep, MarkerStep, CountStep DEF AdmissionInv, MarkerHeld
<1> QED BY <1>1, InitInv, PTL DEF Spec

\* withDeviceBootAdmission keeps the devices in use, but for those that a boot
\* left behind, within maxDevices and within the cap of each platform, for any
\* runs, devices and caps.
THEOREM CapHolds == Spec => []CapRespected
<1>1. AdmissionInv => CapRespected
  BY DEF AdmissionInv, CountFits, Within, CapRespected
<1> QED BY <1>1, Invariance, PTL

\* A run starts a boot by being admitted.
LEMMA StartsByAdmit ==
    ASSUME Typed, [Next]_vars, NEW r \in Runs, StartsBoot(r)
    PROVE  Admit(r)
  <1> USE DevicesAssumption DEF StartsBoot, Typed, Goto
  <1>1. ASSUME NEW s \in Runs, Round(s), s # r PROVE FALSE
    BY <1>1 DEF Round, Lock, WaitShared, Enqueue, ReadRecords, ReadSims, ReadAdb, WaitCounted, Admit, Poll
  <1>2. ASSUME Round(r), ~Admit(r) PROVE FALSE
    BY <1>2, SMTT(30) DEF Round, Lock, WaitShared, Enqueue, ReadRecords, ReadSims, ReadAdb, WaitCounted, Poll
  <1>3. ASSUME NEW s \in Runs, CountUnavailable(s) \/ GiveUp(s) \/ BootFails(s) \/ Kill(s) PROVE FALSE
    BY <1>3, SMTT(30) DEF CountUnavailable, Enqueue, GiveUp, BootFails, Kill
  <1>4. ASSUME NEW s \in Runs, Boot(s) PROVE FALSE
    BY <1>4 DEF Boot, Create, Rekeyed, BootIosSim, ClaimConsolePort, BootEmulator, Booted
  <1>5. ASSUME pc' = pc PROVE FALSE
    BY <1>5
  <1> QED BY <1>1, <1>2, <1>3, <1>4, <1>5, SMTT(30) DEF Next, Listed, Shutdown, ListingExpires, MemoryChanges,
             vars

\* A run that decide lets in to boot its own device finds fewer than
\* BOOTS_IN_FLIGHT other boots at that moment, whatever it read before.
THEOREM BootsBoundedHolds == Spec => BootsBounded
<1> DEFINE Step == \A r \in Runs : StartsBoot(r) =>
                       Cardinality({s \in Runs \ {r} : marker[s] # {}}) < BootsInFlight
<1>1. AdmissionInv /\ [Next]_vars => [Step]_vars
  <2> SUFFICES ASSUME AdmissionInv, [Next]_vars, NEW r \in Runs, StartsBoot(r)
               PROVE  Cardinality({s \in Runs \ {r} : marker[s] # {}}) < BootsInFlight
    BY Zenon DEF Step
  <2> DEFINE Entries == {entry \in seen.booting : entry[2] # Own(r)}
             Booting == {s \in Runs \ {r} : marker[s] # {}}
             Bookings == {entry[1] : entry \in Entries}
  <2>1. Admit(r)
    BY StartsByAdmit, SMTT(30) DEF AdmissionInv
  <2>2. Cardinality(Entries) < BootsInFlight
    BY <2>1 DEF StartsBoot, Admit, Admissible, Bootable
  <2>3. IsFiniteSet(Entries)
    <3>1. IsFiniteSet(Runs \X Keys)
      BY KeysFinite, DevicesAssumption, FS_Product
    <3>2. Entries \in SUBSET (Runs \X Keys)
      BY DEF AdmissionInv, Typed
    <3> QED BY <3>1, <3>2, FS_Subset
  <2>4. Booting \in SUBSET Bookings
    <3> SUFFICES ASSUME NEW s \in Booting PROVE s \in Bookings
      OBVIOUS
    <3>1. PICK k \in Keys : <<s, k>> \in seen.booting
      BY SMTT(30) DEF AdmissionInv, CountComplete, Counting, StartsBoot
    <3>2. k # Own(r)
      BY <3>1 DEF StartsBoot, Joins
    <3> QED BY <3>1, <3>2
  <2>5. [entry \in Entries |-> entry[1]] \in Surjection(Entries, Bookings)
    BY DEF Surjection
  <2>6. IsFiniteSet(Bookings) /\ Cardinality(Bookings) <= Cardinality(Entries)
    BY <2>3, <2>5, FS_Surjection, SMTT(30)
  <2>7. IsFiniteSet(Booting) /\ Cardinality(Booting) <= Cardinality(Bookings)
    BY <2>4, <2>6, FS_Subset, SMTT(30)
  <2>8. Cardinality(Booting) \in Nat /\ Cardinality(Bookings) \in Nat /\ Cardinality(Entries) \in Nat
    BY <2>3, <2>6, <2>7, FS_CardinalityType, SMTT(30)
  <2> HIDE DEF Entries, Booting, Bookings
  <2>9. Cardinality(Booting) < BootsInFlight
    BY <2>2, <2>6, <2>7, <2>8, CapsAssumption, SMTT(30)
  <2> QED BY <2>9 DEF Booting
<1> QED BY <1>1, Invariance, PTL DEF Spec, BootsBounded

\* Every run has one ticket at most, a place it holds until it is admitted or
\* gives up, and the rest of the state keeps its shape, for any runs, devices
\* and caps and whatever becomes of an emulator.
THEOREM TypesHold == Spec => []TypeOK
<1>1. QueueInv => TypeOK
  BY QueueTypes
<1> QED BY <1>1, QueueInvariance, PTL

\* A run never boots past an older one of its platform, although the queue may
\* have changed since it read who was ahead.
THEOREM InTurnHolds == Spec => InTurn
<1> DEFINE Step == \A r \in Runs : StartsBoot(r) =>
                       \A w \in Ahead(r) : LET p == Platform(DeviceOf[w])
                                           IN  p # Platform(DeviceOf[r]) /\ PlatformMax[p] > 0
<1>1. QueueInv /\ [Next]_vars => [Step]_vars
  <2> SUFFICES ASSUME QueueInv, [Next]_vars, NEW r \in Runs, StartsBoot(r), NEW w \in Ahead(r)
               PROVE  /\ Platform(DeviceOf[w]) # Platform(DeviceOf[r])
                      /\ PlatformMax[Platform(DeviceOf[w])] > 0
    BY DEF Step
  <2>1. Admit(r)
    BY StartsByAdmit, SMTT(30) DEF QueueInv
  <2>2. ~Full(OtherKeys(r, seen), Platform(DeviceOf[r])) /\ Turn(r, seen)
    BY <2>1, SMTT(30) DEF StartsBoot, Admit, Admissible, Bootable
  <2>3. w \in seen.ahead
    BY <2>1, SMTT(30) DEF QueueInv, AheadRead, Counting, Admit
  <2>4. PlatformFull(OtherKeys(r, seen), Platform(DeviceOf[w]))
    BY <2>2, <2>3 DEF Turn
  <2> QED BY <2>2, <2>4, Zenon DEF Full, PlatformFull
<1> QED BY <1>1, QueueInvariance, PTL DEF Spec, InTurn
=============================================================================
