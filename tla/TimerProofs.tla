---------------------------- MODULE TimerProofs ----------------------------
(***************************************************************************)
(* Proofs about what runs on timers and workers of its own: the DNS        *)
(* service, the flow cache and the timed changes of a link. Each part is   *)
(* about its own module and uses nothing of the others.                    *)
(***************************************************************************)
EXTENDS DnsService, FlowCache, LinkTimers, FiniteSetTheorems, TLAPS

(***************************************************************************)
(* The DNS service, for any hosts and any number of goroutines that        *)
(* change the fleet. The invariant counts the changes that no serial       *)
(* stands for yet: the clock's lead over the serial is what pays for the   *)
(* serials drawn while changes are in flight, so a serial never returns.   *)
(***************************************************************************)
Zone == [serial : Nat, hosts : SUBSET Hosts, straddled : BOOLEAN]
Reading == [on : BOOLEAN, hosts : SUBSET Hosts, before : Nat]

DnsTypes ==
  /\ fleet \subseteq Hosts /\ changer \in [Changers -> {"idle", "mark", "wake"}]
  /\ edits \in 0 .. MaxEdits
  /\ dnsActive \in BOOLEAN /\ dirty \in BOOLEAN /\ woken \in BOOLEAN
  /\ worker \in {"wait", "debounce", "bump", "notify", "done"}
  /\ serial \in Nat \ {0} /\ seconds \in 1 .. MaxSeconds
  /\ stopDns \in {"idle", "cancel", "join", "close", "done"}
  /\ serving \in BOOLEAN
  /\ zoneRead \in Reading /\ copy \in Zone
  /\ copy.serial <= serial /\ zoneRead.before <= serial

\* The goroutines that have changed the fleet and not marked it.
Unmarked == {g \in Changers : changer[g] = "mark"}

\* The changes that no serial stands for yet: at most one in the flag and one with the
\* worker, whatever the number of changes the flag stands for.
Owed == Cardinality(Unmarked) + (IF dirty THEN 1 ELSE 0) + (IF worker = "bump" THEN 1 ELSE 0)

\* Every bump is paid for by a change of its own.
SerialsPaid == Owed <= edits /\ serial + Owed <= MaxSeconds + edits

\* A change between its edit and its bump.
ChangeInFlight == dirty \/ worker = "bump" \/ \E g \in Changers : changer[g] = "mark"

\* What was read or transferred under the current serial is the fleet, or a change is
\* on its way to a later serial.
ReadIsCurrent ==
  (dnsActive /\ zoneRead.on /\ zoneRead.before = serial) => (zoneRead.hosts = fleet \/ ChangeInFlight)
CopyIsCurrent ==
  (dnsActive /\ copy.serial = serial /\ ~copy.straddled) => (copy.hosts = fleet \/ ChangeInFlight)

DnsInv == DnsTypes /\ SerialsPaid /\ ReadIsCurrent /\ CopyIsCurrent

\* Goroutines enter and leave the marking one by one.
LEMMA UnmarkedCount ==
  ASSUME NEW S, S \subseteq Changers
  PROVE  /\ Cardinality(S) \in Nat
         /\ \A g : g \in S => Cardinality(S \ {g}) = Cardinality(S) - 1
         /\ \A g : g \notin S => Cardinality(S \cup {g}) = Cardinality(S) + 1
         /\ \A g : g \notin S => S \ {g} = S
<1>1. IsFiniteSet(S)
  BY FS_Subset, DnsAssumption, Zenon DEF DnsAssumption
<1>2. Cardinality(S) \in Nat
  BY <1>1, FS_CardinalityType, Zenon
<1>3. QED
  BY <1>1, <1>2, FS_AddElement, FS_RemoveElement

\* The service starts in the invariant.
LEMMA DnsInitially == DnsInit => DnsInv
<1>1. SUFFICES ASSUME DnsInit PROVE DnsInv
  BY Zenon
<1>2. Unmarked = {}
  BY <1>1, Zenon DEF DnsInit, Unmarked
<1>3. Cardinality(Unmarked) = 0
  BY <1>2, FS_EmptySet, Zenon
<1>4. DnsTypes
  <2>1. zoneRead \in Reading /\ zoneRead.before = 0 /\ copy \in Zone /\ copy.serial = 0
    BY <1>1, Zenon DEF DnsInit, Zone, Reading, NoRead
  <2>2. changer \in [Changers -> {"idle", "mark", "wake"}]
    BY <1>1, Zenon DEF DnsInit
  <2>3. seconds \in 1 .. MaxSeconds /\ edits \in 0 .. MaxEdits
    BY <1>1, DnsAssumption DEF DnsInit, DnsAssumption
  <2>4. serial \in Nat \ {0} /\ copy.serial <= serial /\ zoneRead.before <= serial
    BY <1>1, <2>1 DEF DnsInit
  <2>5. QED
    BY <1>1, <2>1, <2>2, <2>3, <2>4, Zenon DEF DnsInit, DnsTypes
<1>5. SerialsPaid
  BY <1>1, <1>3, DnsAssumption DEF DnsInit, SerialsPaid, Owed, DnsAssumption
<1>6. QED
  BY <1>1, <1>4, <1>5, Zenon DEF DnsInv, DnsInit, NoRead, ReadIsCurrent, CopyIsCurrent

\* A change of the fleet, its mark and its wake-up keep the invariant.
LEMMA ChangesKeep ==
  ASSUME DnsInv, NEW g \in Changers, HostAdded(g) \/ HostRemoved(g) \/ Mark(g)
  PROVE  DnsInv'
<1>0. DnsTypes /\ SerialsPaid /\ ReadIsCurrent /\ CopyIsCurrent
  BY Zenon DEF DnsInv
<1>n. edits \in Nat /\ serial \in Nat /\ MaxSeconds \in Nat
  BY <1>0, DnsAssumption DEF DnsTypes, DnsAssumption
<1>1. DnsTypes'
  <2>1. changer' \in [Changers -> {"idle", "mark", "wake"}]
    BY <1>0, Zenon DEF DnsTypes, HostAdded, HostRemoved, Mark
  <2>2. edits' \in 0 .. MaxEdits
    BY <1>0, DnsAssumption DEF DnsTypes, HostAdded, HostRemoved, Mark, DnsAssumption
  <2>3. fleet' \subseteq Hosts
    BY <1>0 DEF DnsTypes, HostAdded, HostRemoved, Mark
  <2>4. dirty' \in BOOLEAN /\ woken' \in BOOLEAN
    BY <1>0, Zenon DEF DnsTypes, HostAdded, HostRemoved, Mark
  <2>5. UNCHANGED <<dnsActive, worker, serial, seconds, stopDns, serving, zoneRead, copy>>
    BY Zenon DEF HostAdded, HostRemoved, Mark
  <2>6. QED
    BY <1>0, <2>1, <2>2, <2>3, <2>4, <2>5, Zenon DEF DnsTypes
<1>2. ReadIsCurrent' /\ CopyIsCurrent'
  <2>1. CASE HostAdded(g)
    <3>1. ChangeInFlight'
      BY <1>0, <2>1, Zenon DEF DnsTypes, HostAdded, ChangeInFlight
    <3>2. QED
      BY <3>1, Zenon DEF ReadIsCurrent, CopyIsCurrent
  <2>2. CASE HostRemoved(g)
    BY <1>0, <2>2, Zenon DEF HostRemoved, ChangeInFlight, ReadIsCurrent, CopyIsCurrent
  <2>3. CASE Mark(g)
    <3>1. dnsActive /\ ChangeInFlight => ChangeInFlight'
      BY <1>0, <2>3, Zenon DEF DnsTypes, Mark, ChangeInFlight
    <3>2. QED
      BY <1>0, <2>3, <3>1 DEF Mark, ReadIsCurrent, CopyIsCurrent
  <2>4. QED
    BY <2>1, <2>2, <2>3, Zenon
<1>3. SerialsPaid'
  <2>0. /\ Cardinality(Unmarked) \in Nat /\ Unmarked \subseteq Changers
        /\ g \in Unmarked => Cardinality(Unmarked \ {g}) = Cardinality(Unmarked) - 1
        /\ g \notin Unmarked => Cardinality(Unmarked \cup {g}) = Cardinality(Unmarked) + 1
    BY UnmarkedCount, Zenon DEF Unmarked
  <2>1. CASE HostAdded(g)
    <3>1. Unmarked' = Unmarked \cup {g} /\ g \notin Unmarked
      BY <1>0, <2>1, Zenon DEF DnsTypes, HostAdded, Unmarked
    <3>2. edits' = edits + 1 /\ dirty' = dirty /\ worker' = worker /\ serial' = serial
      BY <2>1, Zenon DEF HostAdded
    <3>3. Owed \in Nat /\ Owed' \in Nat /\ Owed' = Owed + 1
      BY <2>0, <3>1, <3>2 DEF Owed
    <3>4. PICK o \in Nat, q \in Nat : o = Owed /\ q = Owed' /\ q <= o + 1
      BY <3>3
    <3>5. o <= edits /\ serial + o <= MaxSeconds + edits
      BY <1>0, <3>4, Zenon DEF SerialsPaid
    <3>6. q <= edits + 1 /\ serial + q <= MaxSeconds + (edits + 1)
      <4>1. q <= o + 1
        BY <3>4, Zenon
      <4>2. QED
        BY <1>n, <3>5, <4>1
    <3>7. QED
      BY <3>2, <3>4, <3>6, Zenon DEF SerialsPaid
  <2>2. CASE HostRemoved(g)
    <3>1. Unmarked' = Unmarked
      BY <1>0, <2>2, Zenon DEF DnsTypes, HostRemoved, Unmarked
    <3>2. edits' = edits + 1 /\ worker' = worker /\ serial' = serial
      BY <2>2, Zenon DEF HostRemoved
    <3>3. Owed \in Nat /\ Owed' \in Nat /\ Owed' <= Owed + 1
      BY <2>0, <3>1, <3>2 DEF Owed
    <3>4. PICK o \in Nat, q \in Nat : o = Owed /\ q = Owed' /\ q <= o + 1
      BY <3>3, Zenon
    <3>5. o <= edits /\ serial + o <= MaxSeconds + edits
      BY <1>0, <3>4, Zenon DEF SerialsPaid
    <3>6. q <= edits + 1 /\ serial + q <= MaxSeconds + (edits + 1)
      <4>1. q <= o + 1
        BY <3>4, Zenon
      <4>2. QED
        BY <1>n, <3>5, <4>1
    <3>7. QED
      BY <3>2, <3>4, <3>6, Zenon DEF SerialsPaid
  <2>3. CASE Mark(g)
    <3>1. Unmarked' = Unmarked \ {g}
      BY <1>0, <2>3, Zenon DEF DnsTypes, Mark, Unmarked
    <3>2. edits' = edits /\ worker' = worker /\ serial' = serial
      BY <2>3, Zenon DEF Mark
    <3>3. g \in Unmarked \/ (Unmarked' = Unmarked /\ dirty' = dirty)
      BY <1>0, <2>3, <3>1, Zenon DEF Mark, Unmarked, DnsTypes
    <3>4. Owed \in Nat /\ Owed' \in Nat /\ Owed' <= Owed
      <4>1. CASE g \in Unmarked
        <5>1. Cardinality(Unmarked') = Cardinality(Unmarked) - 1 /\ Cardinality(Unmarked') \in Nat
          BY <2>0, <3>1, <4>1, UnmarkedCount, Zenon
        <5>2. QED
          BY <2>0, <3>2, <5>1 DEF Owed
      <4>2. CASE Unmarked' = Unmarked /\ dirty' = dirty
        BY <2>0, <3>2, <4>2 DEF Owed
      <4>3. QED
        BY <3>3, <4>1, <4>2, Zenon
    <3>5. PICK o \in Nat, q \in Nat : o = Owed /\ q = Owed' /\ q <= o
      BY <3>4, Zenon
    <3>6. o <= edits /\ serial + o <= MaxSeconds + edits
      BY <1>0, <3>5, Zenon DEF SerialsPaid
    <3>7. q <= edits /\ serial + q <= MaxSeconds + edits
      <4>1. q <= o
        BY <3>5, Zenon
      <4>2. QED
        BY <1>n, <3>6, <4>1
    <3>8. QED
      BY <3>2, <3>5, <3>7, Zenon DEF SerialsPaid
  <2>4. QED
    BY <2>1, <2>2, <2>3, Zenon
<1>4. QED
  BY <1>1, <1>2, <1>3, Zenon DEF DnsInv

\* The worker's steps keep the invariant.
LEMMA WorkerKeeps ==
  ASSUME DnsInv, Worker
  PROVE  DnsInv'
<1>0. DnsTypes /\ SerialsPaid /\ ReadIsCurrent /\ CopyIsCurrent
  BY Zenon DEF DnsInv
<1>1. Unmarked' = Unmarked /\ Cardinality(Unmarked) \in Nat
  <2>1. changer' = changer
    BY Zenon DEF Worker, WorkerWakes, WorkerStops, WorkerSwaps, WorkerBumps, WorkerNotified,
       WorkerOnly
  <2>2. QED
    BY <2>1, UnmarkedCount, Zenon DEF Unmarked
<1>2. Owed \in Nat /\ Owed' \in Nat
  BY <1>1 DEF Owed
<1>3. CASE WorkerBumps
  <2>1. serial' > serial /\ serial' \in Nat /\ (serial' = serial + 1 \/ serial' = seconds)
    BY <1>0, <1>3 DEF WorkerBumps, nextSerial, DnsTypes
  <2>2. DnsTypes'
    BY <1>0, <1>3, <2>1 DEF WorkerBumps, DnsTypes, Zone, Reading
  <2>3. Owed' = Owed - 1
    BY <1>1, <1>3 DEF WorkerBumps, Owed
  <2>4. SerialsPaid'
    BY <1>0, <1>2, <1>3, <2>1, <2>3, DnsAssumption DEF WorkerBumps, SerialsPaid, DnsTypes,
       DnsAssumption
  <2>5. copy'.serial # serial' /\ zoneRead'.before # serial'
    BY <1>0, <1>3, <2>1 DEF WorkerBumps, DnsTypes, Zone, Reading
  <2>6. QED
    BY <2>2, <2>4, <2>5, Zenon DEF DnsInv, ReadIsCurrent, CopyIsCurrent
<1>4. CASE WorkerWakes \/ WorkerStops \/ WorkerSwaps \/ WorkerNotified
  <2>1. DnsTypes'
    BY <1>0, <1>4, Zenon DEF WorkerWakes, WorkerStops, WorkerSwaps, WorkerNotified, WorkerOnly,
       DnsTypes
  <2>2. Owed' = Owed /\ serial' = serial /\ edits' = edits
    BY <1>0, <1>1, <1>4 DEF WorkerWakes, WorkerStops, WorkerSwaps, WorkerNotified, WorkerOnly, Owed,
       DnsTypes
  <2>3. ChangeInFlight' <=> ChangeInFlight
    BY <1>0, <1>4 DEF WorkerWakes, WorkerStops, WorkerSwaps, WorkerNotified, WorkerOnly,
       ChangeInFlight, DnsTypes
  <2>4. UNCHANGED <<dnsActive, zoneRead, copy, fleet, serial>>
    BY <1>4, Zenon DEF WorkerWakes, WorkerStops, WorkerSwaps, WorkerNotified, WorkerOnly
  <2>5. ReadIsCurrent' /\ CopyIsCurrent'
    BY <1>0, <2>3, <2>4, Zenon DEF ReadIsCurrent, CopyIsCurrent
  <2>6. QED
    BY <1>0, <2>1, <2>2, <2>5, Zenon DEF DnsInv, SerialsPaid
<1>5. QED
  BY <1>3, <1>4, Zenon DEF Worker

\* Transfers, the clock and the shutdown leave the serial and its debts alone.
LEMMA OthersKeep ==
  ASSUME DnsInv, Secondary \/ ClockMoves \/ StopDns \/ UNCHANGED dnsVars
  PROVE  DnsInv'
<1>0. DnsTypes /\ SerialsPaid /\ ReadIsCurrent /\ CopyIsCurrent
  BY Zenon DEF DnsInv
<1>1. UNCHANGED <<fleet, changer, edits, dirty, worker, serial>> /\ (dnsActive' => dnsActive)
  BY <1>0 DEF DnsTypes, Secondary, BuildReads, BuildServes, ClockMoves, StopDns, StopDnsBegins,
     StopDnsCancels, StopDnsJoins,
     StopDnsCloses, StopDnsTo, dnsVars
<1>2. SerialsPaid'
  BY <1>0, <1>1, Zenon DEF SerialsPaid, Owed, Unmarked
<1>3. ChangeInFlight' <=> ChangeInFlight
  BY <1>1, Zenon DEF ChangeInFlight
<1>4. CASE Secondary
  <2>1. DnsTypes'
    <3>n. serial \in Nat /\ serial <= serial /\ 0 <= serial /\ fleet \in SUBSET Hosts
          /\ zoneRead.hosts \in SUBSET Hosts
      BY <1>0 DEF DnsTypes, Reading
    <3>1. zoneRead' \in Reading /\ zoneRead'.before <= serial
      <4>1. CASE BuildReads
        BY <3>n, <4>1, Zenon DEF BuildReads, Reading
      <4>2. CASE BuildServes
        BY <3>n, <4>2, Zenon DEF BuildServes, NoRead, Reading
      <4>3. QED
        BY <1>4, <4>1, <4>2, Zenon DEF Secondary
    <3>2. copy' \in Zone /\ copy'.serial <= serial
      <4>1. CASE BuildReads
        BY <1>0, <4>1, Zenon DEF DnsTypes, BuildReads
      <4>2. CASE BuildServes
        BY <3>n, <4>2, Zenon DEF BuildServes, Zone
      <4>3. QED
        BY <1>4, <4>1, <4>2, Zenon DEF Secondary
    <3>3. UNCHANGED <<dnsActive, woken, seconds, stopDns, serving>>
      BY <1>4, Zenon DEF Secondary, BuildReads, BuildServes
    <3>4. QED
      BY <1>0, <1>1, <3>1, <3>2, <3>3, Zenon DEF DnsTypes
  <2>2. ReadIsCurrent' /\ CopyIsCurrent'
    BY <1>0, <1>1, <1>3, <1>4 DEF DnsTypes, Secondary, BuildReads, BuildServes, NoRead, ReadIsCurrent,
       CopyIsCurrent
  <2>3. QED
    BY <1>2, <2>1, <2>2, Zenon DEF DnsInv
<1>5. CASE ClockMoves \/ StopDns \/ UNCHANGED dnsVars
  <2>1. DnsTypes'
    BY <1>0, <1>5 DEF DnsTypes, ClockMoves, StopDns, StopDnsBegins, StopDnsCancels, StopDnsJoins,
       StopDnsCloses, StopDnsTo, dnsVars
  <2>2. UNCHANGED <<zoneRead, copy>>
    BY <1>5, Zenon DEF ClockMoves, StopDns, StopDnsBegins, StopDnsCancels, StopDnsJoins,
       StopDnsCloses, StopDnsTo, dnsVars
  <2>3. ReadIsCurrent' /\ CopyIsCurrent'
    BY <1>0, <1>1, <1>3, <2>2, Zenon DEF ReadIsCurrent, CopyIsCurrent
  <2>4. QED
    BY <1>2, <2>1, <2>3, Zenon DEF DnsInv
<1>6. QED
  BY <1>4, <1>5, Zenon

\* Every step keeps the invariant.
LEMMA DnsInvariant == DnsSpec => []DnsInv
<1>1. DnsInv /\ [DnsNext]_dnsVars => DnsInv'
  BY ChangesKeep, WorkerKeeps, OthersKeep, Zenon DEF DnsNext
<1>2. QED
  BY <1>1, DnsInitially, PTL DEF DnsSpec

\* The invariant gives PublishedZoneCurrent.
LEMMA DnsInvImplies == DnsInv => PublishedZoneCurrent
<1>1. SUFFICES ASSUME DnsInv PROVE PublishedZoneCurrent
  BY Zenon
<1>2. Cardinality(Unmarked) \in Nat
  BY UnmarkedCount, Zenon DEF Unmarked
<1>3. serial <= MaxSeconds + MaxEdits
  BY <1>1, <1>2, DnsAssumption DEF DnsInv, SerialsPaid, Owed, DnsTypes, DnsAssumption
<1>4. DnsTypeOK
  BY <1>1, <1>3, DnsAssumption DEF DnsInv, DnsTypes, DnsTypeOK, Reading, DnsAssumption
<1>5. CurrentSerialIsCurrentZone
  BY <1>1, Zenon DEF DnsInv, CopyIsCurrent, CurrentSerialIsCurrentZone, ChangeInFlight
<1>6. QED
  BY <1>4, <1>5, Zenon DEF PublishedZoneCurrent

\* A secondary that holds the current serial holds the current fleet once the worker
\* rests, for any number of hosts, of goroutines that create and delete them and of
\* edits, whatever the clock does (dns_manager.go, dns_server.go).
THEOREM PublishedZoneAlwaysCurrent == DnsSpec => []PublishedZoneCurrent
BY DnsInvariant, DnsInvImplies, PTL

(***************************************************************************)
(* The flow cache, for any finite set of flows, any timeouts and any       *)
(* limit.                                                                  *)
(***************************************************************************)
CacheInv == CacheTypeOK /\ CacheBounded

\* The keys a cache holds are finitely many, and fewer keys make no larger cache.
LEMMA KeysCount ==
  ASSUME NEW S, S \subseteq FlowKeys
  PROVE  /\ IsFiniteSet(S) /\ Cardinality(S) \in Nat
         /\ \A T : T \subseteq S => Cardinality(T) <= Cardinality(S)
<1>1. IsFiniteSet(S)
  BY FS_Subset, CacheAssumption, Zenon DEF CacheAssumption
<1>2. QED
  BY <1>1, FS_CardinalityType, FS_Subset, Zenon

\* A call that only takes flows out, or leaves them, keeps the cache within its limit.
LEMMA TakingOut ==
  ASSUME CacheInv, NEW out, flows' = Without(out)
  PROVE  /\ DOMAIN flows' \subseteq DOMAIN flows
         /\ \A k \in DOMAIN flows' : flows'[k] \in Entries
         /\ CacheBounded'
<1>1. DOMAIN flows' = DOMAIN flows \ out /\ \A k \in DOMAIN flows' : flows'[k] = flows[k]
  BY Zenon DEF Without
<1>2. DOMAIN flows' \subseteq DOMAIN flows /\ \A k \in DOMAIN flows' : flows'[k] \in Entries
  BY <1>1, Zenon DEF CacheInv, CacheTypeOK
<1>3. DOMAIN flows \subseteq FlowKeys /\ Cardinality(DOMAIN flows) <= MaxFlows /\ MaxFlows \in Nat
  BY CacheAssumption, Zenon DEF CacheInv, CacheTypeOK, CacheBounded, CacheAssumption
<1>4. PICK n \in Nat, m \in Nat : n = Cardinality(DOMAIN flows') /\ m = Cardinality(DOMAIN flows)
      /\ n <= m
  BY <1>2, <1>3, KeysCount, Zenon
<1>5. n <= m /\ m <= MaxFlows
  BY <1>3, <1>4, Zenon
<1>6. n <= MaxFlows
  BY <1>3, <1>5
<1>7. QED
  BY <1>2, <1>4, <1>6, Zenon DEF CacheBounded

\* What the generator draws is alive: its deadline lies ahead and its last packet is
\* recent, also when the first fill sets it back within its own life.
LEMMA DrawnAlive ==
  ASSUME CacheInv, NEW f \in Drawn
  PROVE  /\ f \in Entries
         /\ clock < f.deadline /\ clock - f.seen < InactiveTimeout
<1>1. PICK d \in Durations, j \in Jitters :
        \E c \in IF warmed THEN {clock} ELSE {clock - o : o \in WarmOffsets(d, j)} :
          f = [seen |-> c + d, deadline |-> c + ActiveTimeout + j]
  BY DEF Drawn
<1>2. PICK c \in IF warmed THEN {clock} ELSE {clock - o : o \in WarmOffsets(d, j)} :
        f = [seen |-> c + d, deadline |-> c + ActiveTimeout + j]
  BY <1>1, Zenon
<1>3. /\ d \in Nat /\ j \in Int /\ ActiveTimeout + j > 0 /\ clock \in Nat
      /\ ActiveTimeout \in Nat /\ InactiveTimeout \in Nat /\ InactiveTimeout > 0
  BY CacheAssumption DEF CacheInv, CacheTypeOK, CacheAssumption
<1>4. PICK o \in Nat : c = clock - o /\ o < ActiveTimeout + j /\ o < d + InactiveTimeout
  <2>1. CASE warmed
    BY <1>2, <1>3, <2>1
  <2>2. CASE ~warmed
    <3>1. PICK o \in WarmOffsets(d, j) : c = clock - o
      BY <1>2, <2>2, Zenon
    <3>2. o \in 0 .. Lifetime(d, j) - 1 /\ Lifetime(d, j) \in Int
      BY <1>3, <3>1 DEF WarmOffsets, Lifetime
    <3>3. o \in Nat /\ o < ActiveTimeout + j /\ o < d + InactiveTimeout
      BY <1>3, <3>2 DEF Lifetime
    <3>4. QED
      BY <3>1, <3>3, Zenon
  <2>3. QED
    BY <2>1, <2>2, Zenon
<1>5. c \in Int /\ clock < c + ActiveTimeout + j /\ clock - (c + d) < InactiveTimeout
  BY <1>3, <1>4
<1>6. c + d \in Int /\ c + ActiveTimeout + j \in Int
  BY <1>3, <1>5
<1>7. QED
  BY <1>2, <1>5, <1>6, Zenon DEF Entries

\* The second lock looks at the capacity again, so the batch fits.
LEMMA BatchFits ==
  ASSUME CacheInv, NEW new \in SUBSET (FlowKeys \ DOMAIN flows), Cardinality(new) <= Insertable
  PROVE  Cardinality(DOMAIN flows \cup new) <= MaxFlows
<1>1. DOMAIN flows \subseteq FlowKeys /\ new \subseteq FlowKeys /\ DOMAIN flows \cap new = {}
  BY Zenon DEF CacheInv, CacheTypeOK
<1>2. IsFiniteSet(DOMAIN flows) /\ IsFiniteSet(new)
  BY <1>1, KeysCount, Zenon
<1>3. PICK n \in Nat, m \in Nat : n = Cardinality(DOMAIN flows) /\ m = Cardinality(new)
  BY <1>1, KeysCount, Zenon
<1>4. Cardinality(DOMAIN flows \cup new) = n + m
  <2>1. Cardinality(DOMAIN flows \cap new) = 0
    BY <1>1, FS_EmptySet, Zenon
  <2>2. Cardinality(DOMAIN flows \cup new)
          = Cardinality(DOMAIN flows) + Cardinality(new) - Cardinality(DOMAIN flows \cap new)
    BY <1>2, FS_Union, Zenon
  <2>3. Cardinality(DOMAIN flows \cup new) = n + m - 0
    BY <1>3, <2>1, <2>2, Zenon
  <2>4. QED
    BY <2>3
<1>5. n <= MaxFlows /\ MaxFlows \in Nat /\ missing \in Nat
  BY <1>3, CacheAssumption, Zenon DEF CacheInv, CacheTypeOK, CacheBounded, CacheAssumption
<1>6. m <= (IF MaxFlows - n < 0 THEN 0 ELSE IF missing < MaxFlows - n THEN missing ELSE MaxFlows - n)
  BY <1>3, Zenon DEF Insertable
<1>7. n + m <= MaxFlows
  BY <1>5, <1>6
<1>8. QED
  BY <1>4, <1>7, Zenon

\* A generated flow keeps the cache within its limit.
LEMMA InsertKeeps ==
  ASSUME CacheInv, InsertFlows
  PROVE  /\ CacheInv'
         /\ \A k \in DOMAIN flows' \ DOMAIN flows :
              clock < flows'[k].deadline /\ clock - flows'[k].seen < InactiveTimeout
<1>1. PICK new \in SUBSET (FlowKeys \ DOMAIN flows) :
        /\ Cardinality(new) <= Insertable
        /\ \E e \in [new -> Drawn] :
             flows' = [k \in DOMAIN flows \cup new |-> IF k \in new THEN e[k] ELSE flows[k]]
  BY Zenon DEF InsertFlows
<1>2. PICK e \in [new -> Drawn] :
        flows' = [k \in DOMAIN flows \cup new |-> IF k \in new THEN e[k] ELSE flows[k]]
  BY <1>1, Zenon
<1>3. DOMAIN flows' = DOMAIN flows \cup new /\ \A k \in new : flows'[k] \in Drawn
  BY <1>2, Zenon
<1>4. \A k \in DOMAIN flows \ new : flows'[k] = flows[k]
  BY <1>2, Zenon
<1>5. \A k \in new : /\ flows'[k] \in Entries
                     /\ clock < flows'[k].deadline /\ clock - flows'[k].seen < InactiveTimeout
  BY <1>3, DrawnAlive, Zenon
<1>6. CacheBounded'
  BY <1>1, <1>3, BatchFits, Zenon DEF CacheBounded
<1>7. \A k \in DOMAIN flows' : flows'[k] \in Entries
  BY <1>3, <1>4, <1>5, Zenon DEF CacheInv, CacheTypeOK
<1>8. DOMAIN flows' \subseteq FlowKeys
  BY <1>3, Zenon DEF CacheInv, CacheTypeOK
<1>9. QED
  BY <1>3, <1>5, <1>6, <1>7, <1>8, Zenon DEF InsertFlows, CacheInv, CacheTypeOK

\* Add keeps the cache within its limit.
LEMMA AddKeeps ==
  ASSUME CacheInv, NEW k \in FlowKeys, Add(k)
  PROVE  /\ CacheInv'
         /\ \A x \in DOMAIN flows' \ DOMAIN flows :
              clock < flows'[x].deadline /\ clock - flows'[x].seen < InactiveTimeout
<1>0. /\ clock \in Nat /\ ActiveTimeout \in Nat /\ ActiveTimeout > 0
      /\ InactiveTimeout \in Nat /\ InactiveTimeout > 0 /\ MaxFlows \in Nat
  BY CacheAssumption DEF CacheInv, CacheTypeOK, CacheAssumption
<1>1. CASE k \in DOMAIN flows
  <2>1. flows' = [flows EXCEPT ![k].seen = clock]
    BY <1>1, Zenon DEF Add
  <2>2. DOMAIN flows' = DOMAIN flows
    BY <2>1, Zenon
  <2>3. \A x \in DOMAIN flows : flows[x] \in Entries
    BY Zenon DEF CacheInv, CacheTypeOK
  <2>4. \A x \in DOMAIN flows' : flows'[x] \in Entries
    BY <1>0, <2>1, <2>2, <2>3 DEF Entries
  <2>5. QED
    BY <2>2, <2>4, Zenon DEF Add, CacheInv, CacheTypeOK, CacheBounded
<1>2. CASE k \notin DOMAIN flows
  <2>1. /\ Cardinality(DOMAIN flows) < MaxFlows
        /\ flows' = [x \in DOMAIN flows \cup {k} |->
                       IF x = k THEN [seen |-> clock,
                       deadline |-> clock + ActiveTimeout] ELSE flows[x]]
    BY <1>2, Zenon DEF Add
  <2>2. /\ DOMAIN flows' = DOMAIN flows \cup {k}
        /\ flows'[k] = [seen |-> clock, deadline |-> clock + ActiveTimeout]
        /\ \A x \in DOMAIN flows : flows'[x] = flows[x]
    BY <1>2, <2>1, Zenon
  <2>3. flows'[k] \in Entries /\ flows'[k].seen = clock /\ flows'[k].deadline = clock + ActiveTimeout
    BY <1>0, <2>2 DEF Entries
  <2>4. clock < clock + ActiveTimeout /\ clock - clock < InactiveTimeout
    BY <1>0
  <2>5. CacheBounded'
    <3>1. DOMAIN flows \subseteq FlowKeys
      BY Zenon DEF CacheInv, CacheTypeOK
    <3>2. PICK n \in Nat : n = Cardinality(DOMAIN flows)
      BY <3>1, KeysCount, Zenon
    <3>3. Cardinality(DOMAIN flows \cup {k}) = n + 1
      BY <1>2, <3>1, <3>2, KeysCount, FS_AddElement, Zenon
    <3>4. n < MaxFlows
      BY <2>1, <3>2, Zenon
    <3>5. n + 1 <= MaxFlows
      BY <1>0, <3>4
    <3>6. QED
      BY <2>2, <3>3, <3>5, Zenon DEF CacheBounded
  <2>6. DOMAIN flows' \subseteq FlowKeys /\ \A x \in DOMAIN flows' : flows'[x] \in Entries
    BY <2>2, <2>3, Zenon DEF CacheInv, CacheTypeOK
  <2>7. CacheInv'
    BY <2>5, <2>6, Zenon DEF Add, CacheInv, CacheTypeOK
  <2>8. QED
    BY <2>2, <2>3, <2>4, <2>7, Zenon
<1>3. QED
  BY <1>1, <1>2, Zenon

\* The tick's other steps take flows out or leave the cache as it is.
LEMMA SweepKeeps ==
  ASSUME CacheInv,
         (\E o \in Overrides : BeginSweep(o)) \/ TrimTo \/ ExpireFlows \/ NeedFlows \/ CacheClock
           \/ UNCHANGED cacheVars
  PROVE  CacheInv' /\ DOMAIN flows' \subseteq DOMAIN flows
<1>0. CacheTypeOK /\ CacheBounded
  BY Zenon DEF CacheInv
<1>1. CASE \E o \in Overrides : BeginSweep(o)
  <2>1. goal' \in Nat
    BY <1>1, CacheAssumption, Zenon DEF BeginSweep, CacheAssumption
  <2>2. paced' \in BOOLEAN
    BY <1>1 DEF BeginSweep
  <2>3. QED
    BY <1>0, <1>1, <2>1, <2>2, Zenon DEF BeginSweep, CacheInv, CacheTypeOK, CacheBounded
<1>2. CASE TrimTo
  <2>1. CASE UNCHANGED flows
    BY <1>0, <1>2, <2>1, Zenon DEF TrimTo, CacheInv, CacheTypeOK, CacheBounded
  <2>2. CASE \E out : flows' = Without(out)
    <3>1. /\ DOMAIN flows' \subseteq DOMAIN flows /\ CacheBounded'
          /\ \A k \in DOMAIN flows' : flows'[k] \in Entries
      BY <2>2, TakingOut, Zenon
    <3>2. QED
      BY <1>0, <1>2, <3>1, Zenon DEF TrimTo, CacheInv, CacheTypeOK
  <2>3. QED
    BY <1>2, <2>1, <2>2, Zenon DEF TrimTo
<1>3. CASE ExpireFlows
  <2>1. /\ DOMAIN flows' \subseteq DOMAIN flows /\ CacheBounded'
        /\ \A k \in DOMAIN flows' : flows'[k] \in Entries
    BY <1>3, TakingOut, Zenon DEF ExpireFlows
  <2>2. expired' \subseteq DOMAIN flows
    BY <1>3, Zenon DEF ExpireFlows
  <2>3. QED
    BY <1>0, <1>3, <2>1, <2>2, Zenon DEF ExpireFlows, CacheInv, CacheTypeOK
<1>4. CASE NeedFlows
  <2>1. PICK n \in Nat : n = Cardinality(DOMAIN flows)
    BY <1>0, KeysCount, Zenon DEF CacheTypeOK
  <2>2. missing' = IF goal > n THEN goal - n ELSE 0
    BY <1>4, <2>1, Zenon DEF NeedFlows
  <2>3. missing' \in Nat
    BY <1>0, <2>2 DEF CacheTypeOK
  <2>4. QED
    BY <1>0, <1>4, <2>3, Zenon DEF NeedFlows, CacheInv, CacheTypeOK, CacheBounded
<1>5. CASE CacheClock
  BY <1>0, <1>5, CacheAssumption DEF CacheClock, CacheInv, CacheTypeOK, CacheBounded, CacheAssumption
<1>6. CASE UNCHANGED cacheVars
  BY <1>0, <1>6, Zenon DEF cacheVars, CacheInv, CacheTypeOK, CacheBounded
<1>7. QED
  BY <1>1, <1>2, <1>3, <1>4, <1>5, <1>6, Zenon

\* The flow cache keeps within MaxFlows and puts in nothing that is already due, for
\* any set of keys, any timeouts, overrides, durations and jitters and any number of
\* ticks (flow_cache.go: GenerateFlowsFrom, Add, Expire, TrimTo).
THEOREM CacheAlwaysKept == CacheSpec => CacheKept
<1>1. CacheInit => CacheInv
  <2>1. SUFFICES ASSUME CacheInit PROVE CacheInv
    BY Zenon
  <2>2. DOMAIN flows = {}
    BY <2>1, Zenon DEF CacheInit
  <2>3. CacheBounded
    BY <2>2, CacheAssumption, FS_EmptySet DEF CacheBounded, CacheAssumption
  <2>4. CacheTypeOK
    <3>1. clock \in 0..MaxClock
      BY <2>1, CacheAssumption DEF CacheInit, CacheAssumption
    <3>2. QED
      BY <2>1, <2>2, <3>1, Zenon DEF CacheInit, CacheTypeOK
  <2>5. QED
    BY <2>3, <2>4, Zenon DEF CacheInv
<1>2. CacheInv /\ [CacheNext]_cacheVars
        => /\ CacheInv'
           /\ \A k \in DOMAIN flows' \ DOMAIN flows :
                clock < flows'[k].deadline /\ clock - flows'[k].seen < InactiveTimeout
  <2>1. SUFFICES ASSUME CacheInv, [CacheNext]_cacheVars
                 PROVE  /\ CacheInv'
                        /\ \A k \in DOMAIN flows' \ DOMAIN flows :
                             clock < flows'[k].deadline /\ clock - flows'[k].seen < InactiveTimeout
    BY Zenon
  <2>2. CASE InsertFlows
    BY <2>1, <2>2, InsertKeeps, Zenon
  <2>3. CASE \E k \in FlowKeys : Add(k)
    BY <2>1, <2>3, AddKeeps, Zenon
  <2>4. CASE \/ \E o \in Overrides : BeginSweep(o)
             \/ TrimTo \/ ExpireFlows \/ NeedFlows \/ CacheClock \/ UNCHANGED cacheVars
    BY <2>1, <2>4, SweepKeeps, Zenon
  <2>5. QED
    BY <2>1, <2>2, <2>3, <2>4, Zenon DEF CacheNext
<1>3. CacheInv /\ [CacheNext]_cacheVars
        => [\A k \in DOMAIN flows' \ DOMAIN flows :
              /\ clock < flows'[k].deadline
              /\ clock - flows'[k].seen < InactiveTimeout]_cacheVars
  BY <1>2, Zenon
<1>4. CacheInv => CacheTypeOK /\ CacheBounded
  BY Zenon DEF CacheInv
<1>5. QED
  BY <1>1, <1>2, <1>3, <1>4, PTL DEF CacheSpec, CacheKept, NoneBornExpired

(***************************************************************************)
(* The timed changes of a link: the auto-reverts of the REST API for any   *)
(* number of handlers, leaves and timers and any cap, and the flap         *)
(* scheduler for any fleet, any draws and any number of creations.         *)
(***************************************************************************)
Posted == [pc : {"count", "swap", "backout", "start"}, key : Leaves, pre : LeafValues,
           id : RevertTimers, old : 0..MaxTimers]
Alive == {"select", "cas", "mutate", "exit"}
TimerRec == [pc : Alive \cup {"unused", "new", "gone"}, key : Leaves, revertTo : LeafValues,
             done : BOOLEAN, stop : BOOLEAN]

RevertTypes ==
  /\ leaf \in [Leaves -> LeafValues]
  /\ posts \in 0..MaxTimers
  /\ handler \in [Handlers -> Posted \cup {NoPost}]
  /\ timer \in [RevertTimers -> TimerRec]
  /\ revertTimers \in [Leaves -> 0..MaxTimers]

\* A POST owns the number it drew: no other POST has it, and its timer does not run.
OwnNumbers ==
  /\ \A h \in Handlers : handler[h] # NoPost =>
       /\ handler[h].id <= posts
       /\ timer[handler[h].id].pc = IF handler[h].pc = "start" THEN "new" ELSE "unused"
  /\ \A h, g \in Handlers :
       handler[h] # NoPost /\ handler[g] # NoPost /\ handler[h].id = handler[g].id => h = g
  /\ \A t \in RevertTimers : t > posts => timer[t].pc = "unused"

\* The map holds started and running timers under their own key; a timer that waits is
\* in it or about to be cancelled, never by the POST that made it; and who closes a
\* timer's stop channel has stored done.
MapInv ==
  /\ \A k \in Leaves : revertTimers[k] # 0 =>
       /\ revertTimers[k] \in RevertTimers /\ timer[revertTimers[k]].key = k
       /\ timer[revertTimers[k]].pc \in Alive \cup {"new"}
  /\ WaitingIsReachable
  /\ \A h \in Handlers : handler[h].pc = "start" => handler[h].old # handler[h].id
  /\ \A t \in RevertTimers : timer[t].stop => timer[t].done

Owing == {h \in Handlers : handler[h].pc \in {"swap", "backout", "start"}}
Swapping == {h \in Handlers : handler[h].pc \in {"swap", "start"}}

\* The counter, and why the cap holds: a POST past the check has its place reserved.
CapInv ==
  /\ counter = Cardinality(Running) + Cardinality(Owing)
  /\ Cardinality(Running) + Cardinality(Swapping) <= RevertCap

RevertInv == RevertTypes /\ OwnNumbers /\ MapInv /\ CapInv
-------------------------------------------------------------------------------
\* The timers that run and those that owe a count are finitely many.
LEMMA RevertSetsFinite ==
  /\ IsFiniteSet(Running) /\ IsFiniteSet(Owing) /\ IsFiniteSet(Swapping)
  /\ Cardinality(Running) \in Nat /\ Cardinality(Owing) \in Nat /\ Cardinality(Swapping) \in Nat
  /\ Cardinality(Swapping) <= Cardinality(Owing)
<1>1. IsFiniteSet(RevertTimers)
  BY RevertAssumption, FS_Interval DEF RevertTimers
<1>2. Running \in SUBSET RevertTimers /\ Owing \in SUBSET Handlers /\ Swapping \in SUBSET Owing
  BY Zenon DEF Running, Owing, Swapping
<1>3. IsFiniteSet(Running)
  BY <1>1, <1>2, FS_Subset, Zenon
<1>4. IsFiniteSet(Owing)
  BY <1>2, RevertAssumption, FS_Subset, Zenon
<1>5. IsFiniteSet(Swapping) /\ Cardinality(Swapping) <= Cardinality(Owing)
  BY <1>2, <1>4, FS_Subset, Zenon
<1>6. QED
  BY <1>3, <1>4, <1>5, FS_CardinalityType, Zenon

\* The auto-reverts start in the invariant.
LEMMA RevertInitially == RevertInit => RevertInv
<1> SUFFICES ASSUME RevertInit PROVE RevertInv
  BY Zenon
<1>1. Unused \in TimerRec /\ Unused.pc = "unused" /\ ~Unused.stop
  BY RevertAssumption, Zenon DEF Unused, TimerRec, LeafValues
<1>2. RevertTypes
  BY <1>1, RevertAssumption DEF RevertInit, RevertTypes, LeafValues
<1>3. OwnNumbers
  BY <1>1, Zenon DEF RevertInit, OwnNumbers
<1>4. MapInv
  BY <1>1, Zenon DEF RevertInit, MapInv, WaitingIsReachable, NoPost
<1>5. Running = {} /\ Owing = {} /\ Swapping = {}
  BY <1>1, Zenon DEF RevertInit, Running, Owing, Swapping, NoPost
<1>6. CapInv
  BY <1>5, FS_EmptySet, RevertAssumption DEF CapInv, RevertInit
<1>7. QED
  BY <1>2, <1>3, <1>4, <1>6, Zenon DEF RevertInv

\* Post keeps the invariant.
LEMMA PostKeeps ==
  ASSUME RevertInv, NEW h \in Handlers, NEW k \in Leaves, NEW v \in LeafValues, Post(h, k, v)
  PROVE  RevertInv'
<1> DEFINE p == [pc |-> "count", key |-> k, pre |-> leaf[k], id |-> posts + 1, old |-> 0]
<1>0. /\ RevertTypes /\ OwnNumbers /\ MapInv /\ CapInv
  BY Zenon DEF RevertInv
<1>1. /\ handler[h].pc = "idle" /\ posts < MaxTimers /\ posts' = posts + 1
      /\ handler' = [handler EXCEPT ![h] = p] /\ leaf' = [leaf EXCEPT ![k] = v]
      /\ UNCHANGED <<timer, revertTimers, counter, stopped>>
  BY Zenon DEF Post
<1>2. posts \in Nat /\ posts + 1 \in RevertTimers
  BY <1>0, <1>1, RevertAssumption DEF RevertTypes, RevertTimers
<1>3. p \in Posted /\ p # NoPost /\ p.id = posts + 1 /\ p.pc = "count"
  <2>1. 0 \in 0..MaxTimers
    BY RevertAssumption
  <2>2. QED
    BY <1>0, <1>2, <2>1, Zenon DEF Posted, NoPost, RevertTypes
<1> HIDE DEF p
<1>4. handler'[h] = p /\ \A g \in Handlers : g # h => handler'[g] = handler[g]
  BY <1>0, <1>1, Zenon DEF RevertTypes
<1>5. RevertTypes'
  BY <1>0, <1>1, <1>2, <1>3, RevertAssumption DEF RevertTypes
<1>6. OwnNumbers'
  <2>1. timer[posts + 1].pc = "unused"
    BY <1>0, <1>2 DEF OwnNumbers
  <2>2. \A g \in Handlers : handler[g] # NoPost => handler[g].id \in Nat /\ handler[g].id <= posts
    BY <1>0, RevertAssumption DEF OwnNumbers, RevertTypes, Posted, RevertTimers
  <2>3. \A g \in Handlers : handler'[g] # NoPost =>
          /\ handler'[g].id <= posts'
          /\ timer'[handler'[g].id].pc = IF handler'[g].pc = "start" THEN "new" ELSE "unused"
    BY <1>0, <1>1, <1>2, <1>3, <1>4, <2>1, <2>2 DEF OwnNumbers
  <2>4. \A g \in Handlers : g # h /\ handler[g] # NoPost => handler[g].id # posts + 1
    BY <1>2, <2>2
  <2>5. \A g, f \in Handlers :
          handler'[g] # NoPost /\ handler'[f] # NoPost /\ handler'[g].id = handler'[f].id => g = f
    BY <1>0, <1>3, <1>4, <2>4 DEF OwnNumbers
  <2>6. \A t \in RevertTimers : t > posts' => timer'[t].pc = "unused"
    BY <1>0, <1>1, <1>2 DEF OwnNumbers, RevertTimers
  <2>7. QED
    BY <2>3, <2>5, <2>6, Zenon DEF OwnNumbers
<1>7. MapInv'
  <2>1. \A g \in Handlers : handler'[g].pc = "start" \/ handler[g].pc = "start"
        => handler'[g] = handler[g]
    BY <1>1, <1>3, <1>4 DEF NoPost
  <2>2. WaitingIsReachable'
    <3>1. WaitingIsReachable
      BY <1>0, Zenon DEF MapInv
    <3>2. QED
      BY <1>1, <2>1, <3>1 DEF WaitingIsReachable
  <2>3. \A g \in Handlers : handler'[g].pc = "start" => handler'[g].old # handler'[g].id
    BY <1>0, <2>1, Zenon DEF MapInv
  <2>4. QED
    BY <1>0, <1>1, <2>2, <2>3, Zenon DEF MapInv
<1>8. Running' = Running /\ Owing' = Owing /\ Swapping' = Swapping
  <2>1. Running' = Running
    BY <1>1, Zenon DEF Running
  <2>2. /\ handler[h].pc \notin {"swap", "backout", "start"}
        /\ handler'[h].pc \notin {"swap", "backout", "start"}
    BY <1>1, <1>3, <1>4, Zenon
  <2>3. QED
    BY <1>4, <2>1, <2>2, Zenon DEF Owing, Swapping
<1>9. CapInv'
  BY <1>0, <1>1, <1>8, Zenon DEF CapInv
<1>10. QED
  BY <1>5, <1>6, <1>7, <1>9, Zenon DEF RevertInv

\* A handler that counts or backs out moves one place in the books.
LEMMA CountKeeps ==
  ASSUME RevertInv, NEW h \in Handlers, Count(h) \/ BackOut(h)
  PROVE  RevertInv'
<1>0. /\ RevertTypes /\ OwnNumbers /\ MapInv /\ CapInv
  BY Zenon DEF RevertInv
<1>1. UNCHANGED <<leaf, posts, timer, revertTimers, stopped>>
  BY Zenon DEF Count, BackOut
<1>2. handler[h] \in Posted /\ handler[h] # NoPost /\ NoPost.pc = "idle"
  BY <1>0 DEF Count, BackOut, NoPost, RevertTypes, Posted
<1>3. /\ handler[h].pc # "start" /\ handler'[h].pc # "start"
      /\ \/ handler'[h] = NoPost
         \/ handler'[h] \in Posted /\ handler'[h].id = handler[h].id
  BY <1>0, <1>2 DEF Count, BackOut, RevertTypes, Posted
<1>4. \A g \in Handlers : g # h => handler'[g] = handler[g]
  BY <1>0, Zenon DEF Count, BackOut, RevertTypes
<1>5. handler' \in [Handlers -> Posted \cup {NoPost}]
  BY <1>0, <1>2, <1>3, Zenon DEF Count, BackOut, RevertTypes, Posted
<1>6. RevertTypes'
  BY <1>0, <1>1, <1>5, Zenon DEF RevertTypes
<1>7. OwnNumbers'
  BY <1>0, <1>1, <1>2, <1>3, <1>4 DEF OwnNumbers
<1>8. MapInv'
  <2>1. \A g \in Handlers : handler'[g].pc = "start" \/ handler[g].pc = "start"
        => handler'[g] = handler[g]
    BY <1>3, <1>4
  <2>2. WaitingIsReachable'
    <3>1. WaitingIsReachable
      BY <1>0, Zenon DEF MapInv
    <3>2. QED
      BY <1>1, <2>1, <3>1 DEF WaitingIsReachable
  <2>3. \A g \in Handlers : handler'[g].pc = "start" => handler'[g].old # handler'[g].id
    BY <1>0, <2>1, Zenon DEF MapInv
  <2>4. QED
    BY <1>0, <1>1, <2>2, <2>3, Zenon DEF MapInv
<1>9. Running' = Running
  BY <1>1, Zenon DEF Running
<1>10. CapInv'
  <2>1. CASE Count(h) /\ counter + 1 > RevertCap
    <3>1. handler[h].pc = "count" /\ handler'[h].pc = "backout" /\ counter' = counter + 1
      BY <1>0, <1>2, <2>1, Zenon DEF Count, RevertTypes, Posted
    <3>2. Owing' = Owing \cup {h} /\ h \notin Owing /\ Swapping' = Swapping
      BY <1>4, <3>1, Zenon DEF Owing, Swapping
    <3>3. Cardinality(Owing') = Cardinality(Owing) + 1
      BY Zenon, <3>2, RevertSetsFinite, FS_AddElement
    <3>4. QED
      BY <1>0, <1>9, <3>1, <3>2, <3>3, RevertSetsFinite DEF CapInv
  <2>2. CASE Count(h) /\ ~(counter + 1 > RevertCap)
    <3>1. handler[h].pc = "count" /\ handler'[h].pc = "swap" /\ counter' = counter + 1
      BY <1>0, <1>2, <2>2, Zenon DEF Count, RevertTypes, Posted
    <3>2. /\ Owing' = Owing \cup {h} /\ h \notin Owing
          /\ Swapping' = Swapping \cup {h} /\ h \notin Swapping
      BY <1>4, <3>1, Zenon DEF Owing, Swapping
    <3>3. /\ Cardinality(Owing') = Cardinality(Owing) + 1
          /\ Cardinality(Swapping') = Cardinality(Swapping) + 1
      BY Zenon, <3>2, RevertSetsFinite, FS_AddElement
    <3>4. QED
      BY <1>0, <1>9, <2>2, <3>1, <3>3, RevertSetsFinite, RevertAssumption DEF CapInv
  <2>3. CASE BackOut(h)
    <3>1. handler[h].pc = "backout" /\ handler'[h].pc = "idle" /\ counter' = counter - 1
      BY <1>0, <1>2, <2>3, Zenon DEF BackOut, RevertTypes
    <3>2. Owing' = Owing \ {h} /\ h \in Owing /\ Swapping' = Swapping
      BY <1>4, <3>1, Zenon DEF Owing, Swapping
    <3>3. Cardinality(Owing') = Cardinality(Owing) - 1
      BY Zenon, <3>2, RevertSetsFinite, FS_RemoveElement
    <3>4. QED
      BY <1>0, <1>9, <3>1, <3>2, <3>3, RevertSetsFinite DEF CapInv
  <2>4. QED
    BY <2>1, <2>2, <2>3, Zenon
<1>11. QED
  BY <1>6, <1>7, <1>8, <1>10, Zenon DEF RevertInv
\* The new timer takes its place in the map, and the handler keeps the one it replaces.
LEMMA SwapKeeps == ASSUME RevertInv, NEW h \in Handlers, Swap(h) PROVE RevertInv'
<1> DEFINE k == handler[h].key
           n == handler[h].id
           old == revertTimers[k]
<1>0. /\ RevertTypes /\ OwnNumbers /\ MapInv /\ CapInv
  BY Zenon DEF RevertInv
<1>1. /\ handler[h].pc = "swap" /\ handler[h] \in Posted /\ handler[h] # NoPost
      /\ k \in Leaves /\ n \in RevertTimers /\ n <= posts /\ timer[n].pc = "unused"
  BY <1>0 DEF Swap, NoPost, RevertTypes, Posted, OwnNumbers
<1>2. /\ revertTimers' = [revertTimers EXCEPT ![k] = n]
      /\ handler' = [handler EXCEPT ![h].pc = "start", ![h].old = old]
      /\ timer' = [timer EXCEPT ![n] = NewTimer(h)]
      /\ UNCHANGED <<leaf, posts, counter, stopped>>
  BY Zenon DEF Swap
<1>3. old \in 0..MaxTimers /\ old # n
  <2>1. old \in 0..MaxTimers
    BY <1>0, <1>1, Zenon DEF RevertTypes
  <2>2. n # 0
    BY <1>1 DEF RevertTimers
  <2>3. old # 0 => old # n
    BY <1>0, <1>1, Zenon DEF MapInv, Alive
  <2>4. QED
    BY <2>1, <2>2, <2>3, Zenon
<1>4. /\ timer' \in [RevertTimers -> TimerRec]
      /\ timer'[n].pc = "new" /\ timer'[n].key = k /\ ~timer'[n].stop
      /\ \A t \in RevertTimers : t # n => timer'[t] = timer[t]
  <2>1. NewTimer(h) \in TimerRec /\ NewTimer(h).pc = "new" /\ NewTimer(h).key = k /\ ~NewTimer(h).stop
    BY <1>1, Zenon DEF NewTimer, TimerRec, Posted, Alive
  <2>2. QED
    BY Zenon, <1>0, <1>1, <1>2, <2>1 DEF RevertTypes
<1>5. /\ handler'[h] \in Posted /\ handler'[h].pc = "start" /\ handler'[h].id = n
      /\ handler'[h].old = old /\ handler'[h] # NoPost
      /\ \A g \in Handlers : g # h => handler'[g] = handler[g]
      /\ handler' \in [Handlers -> Posted \cup {NoPost}]
  <2>1. [handler[h] EXCEPT !.pc = "start", !.old = old] \in Posted
    BY Zenon, <1>1, <1>3 DEF Posted
  <2>2. handler'[h] = [handler[h] EXCEPT !.pc = "start", !.old = old]
    BY <1>0, <1>2, Zenon DEF RevertTypes
  <2>3. handler'[h].pc = "start" /\ handler'[h].id = n /\ handler'[h].old = old
    BY <1>1, <2>2, Zenon DEF Posted
  <2>4. handler'[h] # NoPost
    BY <2>3 DEF NoPost
  <2>5. \A g \in Handlers : g # h => handler'[g] = handler[g]
    BY <1>0, <1>2, Zenon DEF RevertTypes
  <2>6. handler' \in [Handlers -> Posted \cup {NoPost}]
    BY <1>0, <1>2, <2>1, Zenon DEF RevertTypes
  <2>7. QED
    BY <2>1, <2>2, <2>3, <2>4, <2>5, <2>6, Zenon
<1> HIDE DEF k, n, old
<1>6. revertTimers'[k] = n /\ \A q \in Leaves : q # k => revertTimers'[q] = revertTimers[q]
  BY <1>0, <1>1, <1>2, Zenon DEF RevertTypes
<1>7. RevertTypes'
  <2>1. revertTimers' \in [Leaves -> 0..MaxTimers]
    BY <1>0, <1>1, <1>2, RevertAssumption DEF RevertTypes, RevertTimers
  <2>2. QED
    BY <1>0, <1>2, <1>4, <1>5, <2>1, Zenon DEF RevertTypes
<1>8. OwnNumbers'
  <2>1. ASSUME NEW g \in Handlers, handler'[g] # NoPost, g # h
        PROVE  /\ handler'[g] = handler[g] /\ handler[g].id \in RevertTimers /\ handler[g].id # n
               /\ timer'[handler[g].id] = timer[handler[g].id]
    <3>1. handler'[g] = handler[g] /\ handler[g].id # n
      BY <1>0, <1>1, <1>5, <2>1, Zenon DEF OwnNumbers, n
    <3>2. handler[g].id \in RevertTimers
      BY <1>0, <2>1, <3>1, Zenon DEF RevertTypes, Posted
    <3>3. QED
      BY <1>4, <3>1, <3>2, Zenon
  <2>2. \A g \in Handlers : handler'[g] # NoPost =>
          /\ handler'[g].id <= posts'
          /\ timer'[handler'[g].id].pc = IF handler'[g].pc = "start" THEN "new" ELSE "unused"
    BY <1>0, <1>1, <1>2, <1>4, <1>5, <2>1 DEF OwnNumbers
  <2>3. \A g, f \in Handlers :
          handler'[g] # NoPost /\ handler'[f] # NoPost /\ handler'[g].id = handler'[f].id => g = f
    BY <1>0, <1>1, <1>5, <2>1 DEF OwnNumbers
  <2>4. \A t \in RevertTimers : t > posts' => timer'[t].pc = "unused"
    <3>1. \A t \in RevertTimers : t > posts => t # n
      BY <1>0, <1>1 DEF RevertTimers, RevertTypes
    <3>2. QED
      BY <1>0, <1>2, <1>4, <3>1, Zenon DEF OwnNumbers
  <2>5. QED
    BY <2>2, <2>3, <2>4, Zenon DEF OwnNumbers
<1>9. MapInv'
  <2>1. ASSUME NEW q \in Leaves, revertTimers'[q] # 0
        PROVE  /\ revertTimers'[q] \in RevertTimers /\ timer'[revertTimers'[q]].key = q
               /\ timer'[revertTimers'[q]].pc \in Alive \cup {"new"}
    <3>1. CASE q = k
      BY <1>1, <1>4, <1>6, <3>1, Zenon
    <3>2. CASE q # k
      <4>1. /\ revertTimers'[q] = revertTimers[q] /\ revertTimers[q] \in RevertTimers
            /\ timer[revertTimers[q]].key = q /\ timer[revertTimers[q]].pc \in Alive \cup {"new"}
        BY <1>0, <1>6, <2>1, <3>2, Zenon DEF MapInv
      <4>2. revertTimers[q] # n
        BY <1>1, <4>1, Zenon DEF Alive
      <4>3. QED
        BY <1>4, <4>1, <4>2, Zenon
    <3>3. QED
      BY <3>1, <3>2, Zenon
  <2>2. ASSUME NEW t \in RevertTimers, timer'[t].pc \in {"new", "select"}, ~timer'[t].stop
        PROVE  \/ revertTimers'[timer'[t].key] = t
               \/ \E g \in Handlers : handler'[g].pc = "start" /\ handler'[g].old = t
    <3>1. CASE t = n
      BY <1>4, <1>6, <3>1, Zenon
    <3>2. CASE t # n
      <4>1. timer'[t] = timer[t] /\ timer[t].key \in Leaves
        BY <1>0, <1>4, <3>2, Zenon DEF RevertTypes, TimerRec
      <4>2. CASE revertTimers[timer[t].key] = t
        BY <1>5, <1>6, <4>1, <4>2, Zenon DEF old
      <4>3. CASE \E g \in Handlers : handler[g].pc = "start" /\ handler[g].old = t
        BY <1>1, <1>5, <4>3, Zenon
      <4>4. QED
        BY <1>0, <2>2, <4>1, <4>2, <4>3, Zenon DEF MapInv, WaitingIsReachable
    <3>3. QED
      BY <3>1, <3>2, Zenon
  <2>3. \A g \in Handlers : handler'[g].pc = "start" => handler'[g].old # handler'[g].id
    BY <1>0, <1>3, <1>5, Zenon DEF MapInv
  <2>4. \A t \in RevertTimers : timer'[t].stop => timer'[t].done
    BY <1>0, <1>4, Zenon DEF MapInv
  <2>5. QED
    BY <2>1, <2>2, <2>3, <2>4, Zenon DEF MapInv, WaitingIsReachable
<1>10. CapInv'
  <2>1. Running' = Running
    BY <1>1, <1>4, Zenon DEF Running
  <2>2. Owing' = Owing /\ Swapping' = Swapping
    BY <1>1, <1>5, Zenon DEF Owing, Swapping
  <2>3. QED
    BY <1>0, <1>2, <2>1, <2>2, Zenon DEF CapInv
<1>11. QED
  BY <1>7, <1>8, <1>9, <1>10, Zenon DEF RevertInv

\* The replaced timer is cancelled, and the place reserved for the POST becomes the new
\* goroutine's.
LEMMA StartKeeps == ASSUME RevertInv, NEW h \in Handlers, Start(h) PROVE RevertInv'
<1> DEFINE n == handler[h].id
           old == handler[h].old
<1>0. /\ RevertTypes /\ OwnNumbers /\ MapInv /\ CapInv
  BY Zenon DEF RevertInv
<1>1. /\ handler[h].pc = "start" /\ handler[h] \in Posted /\ handler[h] # NoPost
      /\ n \in RevertTimers /\ n <= posts /\ timer[n].pc = "new" /\ old # n
  BY <1>0 DEF Start, NoPost, RevertTypes, Posted, OwnNumbers, MapInv
<1>2. /\ handler' = [handler EXCEPT ![h] = NoPost]
      /\ timer' = [t \in RevertTimers |-> IF t = n THEN [timer[t] EXCEPT !.pc = "select"]
                                          ELSE IF t = old THEN Cancelled(timer[t])
                                          ELSE timer[t]]
      /\ UNCHANGED <<leaf, posts, revertTimers, counter, stopped>>
  BY Zenon DEF Start
<1>3. /\ timer'[n] \in TimerRec /\ timer'[n].pc = "select" /\ timer'[n].key = timer[n].key
      /\ timer'[n].stop = timer[n].stop /\ timer'[n].done = timer[n].done
  <2>1. timer[n] \in TimerRec /\ timer'[n] = [timer[n] EXCEPT !.pc = "select"]
    BY <1>0, <1>1, <1>2, Zenon DEF RevertTypes
  <2>2. QED
    BY Zenon, <2>1 DEF TimerRec, Alive
<1>4. ASSUME NEW t \in RevertTimers, t # n
      PROVE  /\ timer'[t] \in TimerRec /\ timer'[t].pc = timer[t].pc /\ timer'[t].key = timer[t].key
             /\ t = old => timer'[t].stop /\ timer'[t].done
             /\ t # old => timer'[t] = timer[t]
  <2>1. timer[t] \in TimerRec
    BY <1>0, Zenon DEF RevertTypes
  <2>2. CASE t = old
    <3>1. timer'[t] = Cancelled(timer[t])
      BY <1>2, <1>4, <2>2, Zenon
    <3>2. QED
      BY Zenon, <2>1, <2>2, <3>1 DEF Cancelled, TimerRec
  <2>3. CASE t # old
    BY <1>2, <1>4, <2>1, <2>3, Zenon
  <2>4. QED
    BY <2>2, <2>3, Zenon
<1>5. timer' \in [RevertTimers -> TimerRec]
  <2>1. \A t \in RevertTimers : timer'[t] \in TimerRec
    BY <1>3, <1>4, Zenon
  <2>2. timer' = [t \in RevertTimers |-> timer'[t]]
    BY <1>2, Zenon
  <2>3. QED
    BY <2>1, <2>2, Zenon
<1> HIDE DEF n, old
<1>6. handler'[h] = NoPost /\ NoPost.pc = "idle" /\ \A g \in Handlers : g # h
      => handler'[g] = handler[g]
  BY <1>0, <1>2, Zenon DEF RevertTypes, NoPost
<1>7. RevertTypes'
  BY <1>0, <1>2, <1>5, Zenon DEF RevertTypes
<1>8. OwnNumbers'
  <2>1. ASSUME NEW g \in Handlers, handler'[g] # NoPost
        PROVE  /\ g # h /\ handler'[g] = handler[g] /\ handler[g].id # n
               /\ timer'[handler[g].id].pc = timer[handler[g].id].pc
    <3>1. g # h /\ handler'[g] = handler[g]
      BY <1>6, <2>1, Zenon
    <3>2. handler[g].id # n
      BY <1>0, <1>1, <2>1, <3>1, Zenon DEF OwnNumbers, n
    <3>3. handler[g].id \in RevertTimers
      BY <1>0, <2>1, <3>1, Zenon DEF RevertTypes, Posted
    <3>4. QED
      BY <1>4, <3>1, <3>2, <3>3, Zenon
  <2>2. \A g \in Handlers : handler'[g] # NoPost =>
          /\ handler'[g].id <= posts'
          /\ timer'[handler'[g].id].pc = IF handler'[g].pc = "start" THEN "new" ELSE "unused"
    BY <1>0, <1>2, <2>1 DEF OwnNumbers
  <2>3. \A g, f \in Handlers :
          handler'[g] # NoPost /\ handler'[f] # NoPost /\ handler'[g].id = handler'[f].id => g = f
    BY <1>0, <2>1, Zenon DEF OwnNumbers
  <2>4. \A t \in RevertTimers : t > posts' => timer'[t].pc = "unused"
    <3>1. \A t \in RevertTimers : t > posts => t # n
      BY <1>0, <1>1 DEF RevertTimers, RevertTypes
    <3>2. QED
      BY <1>0, <1>2, <1>4, <3>1, Zenon DEF OwnNumbers
  <2>5. QED
    BY <2>2, <2>3, <2>4, Zenon DEF OwnNumbers
<1>9. MapInv'
  <2>1. ASSUME NEW q \in Leaves, revertTimers'[q] # 0
        PROVE  /\ revertTimers'[q] \in RevertTimers /\ timer'[revertTimers'[q]].key = q
               /\ timer'[revertTimers'[q]].pc \in Alive \cup {"new"}
    <3>1. /\ revertTimers'[q] = revertTimers[q] /\ revertTimers[q] \in RevertTimers
          /\ timer[revertTimers[q]].key = q /\ timer[revertTimers[q]].pc \in Alive \cup {"new"}
      BY <1>0, <1>2, <2>1, Zenon DEF MapInv
    <3>2. QED
      BY <1>3, <1>4, <3>1, Zenon DEF Alive
  <2>2. ASSUME NEW t \in RevertTimers, timer'[t].pc \in {"new", "select"}, ~timer'[t].stop
        PROVE  \/ revertTimers'[timer'[t].key] = t
               \/ \E g \in Handlers : handler'[g].pc = "start" /\ handler'[g].old = t
    <3>1. t # old /\ timer[t].pc \in {"new", "select"} /\ ~timer[t].stop
          /\ timer'[t].key = timer[t].key
      BY <1>1, <1>3, <1>4, <2>2, Zenon
    <3>2. \/ revertTimers[timer[t].key] = t
          \/ \E g \in Handlers : handler[g].pc = "start" /\ handler[g].old = t
      BY <1>0, <3>1, Zenon DEF MapInv, WaitingIsReachable
    <3>3. QED
      BY <1>2, <1>6, <3>1, <3>2, Zenon DEF old
  <2>3. \A g \in Handlers : handler'[g].pc = "start" => handler'[g].old # handler'[g].id
    BY <1>0, <1>6, Zenon DEF MapInv
  <2>4. \A t \in RevertTimers : timer'[t].stop => timer'[t].done
    BY <1>0, <1>3, <1>4, Zenon DEF MapInv
  <2>5. QED
    BY <2>1, <2>2, <2>3, <2>4, Zenon DEF MapInv, WaitingIsReachable
<1>10. CapInv'
  <2>1. Running' = Running \cup {n} /\ n \notin Running
    BY <1>1, <1>3, <1>4, Zenon DEF Running
  <2>2. Owing' = Owing \ {h} /\ h \in Owing /\ Swapping' = Swapping \ {h} /\ h \in Swapping
    BY <1>1, <1>6, Zenon DEF Owing, Swapping
  <2>3. /\ Cardinality(Running') = Cardinality(Running) + 1
        /\ Cardinality(Owing') = Cardinality(Owing) - 1
        /\ Cardinality(Swapping') = Cardinality(Swapping) - 1
    BY Zenon, <2>1, <2>2, RevertSetsFinite, FS_AddElement, FS_RemoveElement
  <2>4. QED
    BY <1>0, <1>2, <2>3, RevertSetsFinite, RevertAssumption DEF CapInv
<1>11. QED
  BY <1>7, <1>8, <1>9, <1>10, Zenon DEF RevertInv

\* A goroutine's steps up to its exit: it stays in the books.
LEMMA GoroutineMoves ==
  ASSUME RevertInv, NEW t \in RevertTimers, timer[t].pc \in Alive,
         NEW q \in Alive, NEW d \in BOOLEAN, timer[t].done => d,
         timer' = [timer EXCEPT ![t].pc = q, ![t].done = d],
         q = "select" => timer[t].pc = "select",
         leaf' \in [Leaves -> LeafValues], UNCHANGED <<handler, posts, revertTimers, counter>>
  PROVE  RevertInv'
<1>0. /\ RevertTypes /\ OwnNumbers /\ MapInv /\ CapInv
  BY Zenon DEF RevertInv
<1>1. /\ timer' \in [RevertTimers -> TimerRec]
      /\ timer'[t].pc = q /\ timer'[t].done = d
      /\ timer'[t].key = timer[t].key /\ timer'[t].stop = timer[t].stop
      /\ \A u \in RevertTimers : u # t => timer'[u] = timer[u]
  BY Zenon, <1>0 DEF RevertTypes, TimerRec
<1>2. RevertTypes'
  BY <1>0, <1>1, Zenon DEF RevertTypes
<1>3. \A u \in RevertTimers : /\ timer'[u].pc = "unused" <=> timer[u].pc = "unused"
                              /\ timer'[u].pc = "new" <=> timer[u].pc = "new"
  BY <1>1, Zenon DEF Alive
<1>4. OwnNumbers'
  <2>1. \A h \in Handlers : handler[h] # NoPost => handler[h].id \in RevertTimers
    BY <1>0, Zenon DEF RevertTypes, Posted
  <2>2. QED
    <3>1. ASSUME NEW h \in Handlers, handler[h] # NoPost
          PROVE  timer'[handler[h].id].pc = IF handler[h].pc = "start" THEN "new" ELSE "unused"
      <4>1. timer[handler[h].id].pc = IF handler[h].pc = "start" THEN "new" ELSE "unused"
        BY <1>0, <3>1, Zenon DEF OwnNumbers
      <4>2. CASE handler[h].pc = "start"
        BY <1>3, <2>1, <3>1, <4>1, <4>2, Zenon
      <4>3. CASE handler[h].pc # "start"
        BY <1>3, <2>1, <3>1, <4>1, <4>3, Zenon
      <4>4. QED
        BY <4>2, <4>3, Zenon
    <3>2. handler' = handler /\ posts' = posts
      BY Zenon
    <3>3. QED
      BY <1>0, <1>3, <3>1, <3>2, Zenon DEF OwnNumbers
<1>5. Running' = Running
  BY <1>1, Zenon DEF Running, Alive
<1>6. MapInv'
  <2>1. \A u \in RevertTimers : timer'[u].key = timer[u].key /\ timer'[u].stop = timer[u].stop
    BY <1>1, Zenon
  <2>2. \A k \in Leaves : revertTimers'[k] # 0 =>
          /\ revertTimers'[k] \in RevertTimers /\ timer'[revertTimers'[k]].key = k
          /\ timer'[revertTimers'[k]].pc \in Alive \cup {"new"}
    <3>1. \A u \in RevertTimers : timer[u].pc \in Alive \cup {"new"}
          => timer'[u].pc \in Alive \cup {"new"}
      BY <1>1, Zenon
    <3>2. QED
      <4> SUFFICES ASSUME NEW k \in Leaves, revertTimers'[k] # 0
                   PROVE  /\ revertTimers'[k] \in RevertTimers /\ timer'[revertTimers'[k]].key = k
                          /\ timer'[revertTimers'[k]].pc \in Alive \cup {"new"}
        BY Zenon
      <4>1. revertTimers'[k] = revertTimers[k]
        BY Zenon
      <4>2. /\ revertTimers[k] \in RevertTimers /\ timer[revertTimers[k]].key = k
            /\ timer[revertTimers[k]].pc \in Alive \cup {"new"}
        BY <1>0, <4>1, Zenon DEF MapInv
      <4>3. QED
        BY <2>1, <3>1, <4>1, <4>2, Zenon
  <2>3. WaitingIsReachable'
    <3>1. \A u \in RevertTimers : timer'[u].pc \in {"new", "select"} => timer[u].pc \in {"new",
          "select"}
      BY <1>1, Zenon DEF Alive
    <3>2. handler' = handler /\ revertTimers' = revertTimers /\ WaitingIsReachable
      BY <1>0, Zenon DEF MapInv
    <3>3. QED
      <4> SUFFICES ASSUME NEW u \in RevertTimers, timer'[u].pc \in {"new", "select"}, ~timer'[u].stop
                   PROVE  \/ revertTimers'[timer'[u].key] = u
                          \/ \E h \in Handlers : handler'[h].pc = "start" /\ handler'[h].old = u
        BY Zenon DEF WaitingIsReachable
      <4>1. timer[u].pc \in {"new", "select"} /\ ~timer[u].stop
        BY <2>1, <3>1, Zenon
      <4>2. \/ revertTimers[timer[u].key] = u
            \/ \E h \in Handlers : handler[h].pc = "start" /\ handler[h].old = u
        BY <3>2, <4>1, Zenon DEF WaitingIsReachable
      <4>3. timer'[u].key = timer[u].key /\ \A k : revertTimers'[k] = revertTimers[k]
        BY <2>1, <3>2, Zenon
      <4>4. QED
        BY <3>2, <4>2, <4>3, Zenon
  <2>4. \A u \in RevertTimers : timer'[u].stop => timer'[u].done
    BY <1>0, <1>1, Zenon DEF MapInv
  <2>5. QED
    BY Zenon, <1>0, <2>2, <2>3, <2>4 DEF MapInv
<1>7. CapInv'
  BY <1>0, <1>5, Zenon DEF CapInv, Owing, Swapping
<1>8. QED
  BY <1>2, <1>4, <1>6, <1>7, Zenon DEF RevertInv

\* Exit keeps the invariant.
LEMMA ExitKeeps == ASSUME RevertInv, NEW t \in RevertTimers, Exit(t) PROVE RevertInv'
<1>0. /\ RevertTypes /\ OwnNumbers /\ MapInv /\ CapInv
  BY Zenon DEF RevertInv
<1>1. /\ timer[t].pc = "exit" /\ counter' = counter - 1
      /\ timer' = [timer EXCEPT ![t].pc = "gone"] /\ timer[t].key \in Leaves
      /\ revertTimers' = [revertTimers EXCEPT ![timer[t].key] = IF @ = t THEN 0 ELSE @]
      /\ UNCHANGED <<leaf, handler, posts, stopped>>
  BY <1>0, Zenon DEF Exit, RevertGoto, RevertTypes, TimerRec
<1>2. /\ timer' \in [RevertTimers -> TimerRec]
      /\ timer'[t].pc = "gone" /\ timer'[t].stop = timer[t].stop /\ timer'[t].done = timer[t].done
      /\ \A u \in RevertTimers : u # t => timer'[u] = timer[u]
  BY <1>0, <1>1, Zenon DEF RevertTypes, TimerRec
<1>3. \A k \in Leaves : revertTimers'[k] = revertTimers[k] \/ (revertTimers'[k] = 0
      /\ revertTimers[k] = t)
  BY <1>0, <1>1, Zenon DEF RevertTypes
<1>4. \A k \in Leaves : revertTimers'[k] # t
  <2> SUFFICES ASSUME NEW k \in Leaves, revertTimers'[k] = t PROVE FALSE
    BY Zenon
  <2>1. t # 0
    BY DEF RevertTimers
  <2>2. revertTimers[k] = t
    BY <1>3, <2>1, Zenon
  <2>3. timer[t].key = k
    BY <1>0, <2>1, <2>2, Zenon DEF MapInv
  <2>4. revertTimers'[k] = 0
    BY <1>0, <1>1, <2>2, <2>3, Zenon DEF RevertTypes
  <2>5. QED
    BY <2>1, <2>4, Zenon
<1>5. RevertTypes'
  BY <1>0, <1>1, <1>2, RevertAssumption DEF RevertTypes
<1>6. OwnNumbers'
  <2>1. \A h \in Handlers : handler[h] # NoPost => handler[h].id \in RevertTimers /\ handler[h].id # t
    BY <1>0, <1>1, Zenon DEF RevertTypes, Posted, OwnNumbers
  <2>2. \A u \in RevertTimers : u > posts => u # t
    BY <1>0, <1>1, Zenon DEF OwnNumbers
  <2>3. QED
    BY <1>0, <1>1, <1>2, <2>1, <2>2, Zenon DEF OwnNumbers
<1>7. Running' = Running \ {t} /\ t \in Running
  BY <1>1, <1>2, Zenon DEF Running
<1>8. MapInv'
  <2>1. ASSUME NEW k \in Leaves, revertTimers'[k] # 0
        PROVE  /\ revertTimers'[k] \in RevertTimers /\ timer'[revertTimers'[k]].key = k
               /\ timer'[revertTimers'[k]].pc \in Alive \cup {"new"}
    <3>1. revertTimers'[k] = revertTimers[k] /\ revertTimers[k] # t
      BY <1>3, <1>4, <2>1, Zenon
    <3>2. /\ revertTimers[k] \in RevertTimers /\ timer[revertTimers[k]].key = k
          /\ timer[revertTimers[k]].pc \in Alive \cup {"new"}
      BY <1>0, <2>1, <3>1, Zenon DEF MapInv
    <3>3. QED
      BY <1>2, <3>1, <3>2, Zenon
  <2>2. WaitingIsReachable'
    <3> SUFFICES ASSUME NEW u \in RevertTimers, timer'[u].pc \in {"new", "select"}, ~timer'[u].stop
                 PROVE  \/ revertTimers'[timer'[u].key] = u
                        \/ \E h \in Handlers : handler'[h].pc = "start" /\ handler'[h].old = u
      BY Zenon DEF WaitingIsReachable
    <3>1. u # t /\ timer'[u] = timer[u] /\ timer[u].key \in Leaves
      BY <1>0, <1>2, Zenon DEF RevertTypes, TimerRec
    <3>2. \/ revertTimers[timer[u].key] = u
          \/ \E h \in Handlers : handler[h].pc = "start" /\ handler[h].old = u
      BY <1>0, <3>1, Zenon DEF MapInv, WaitingIsReachable
    <3>3. QED
      BY <1>1, <1>3, <3>1, <3>2, Zenon
  <2>3. \A u \in RevertTimers : timer'[u].stop => timer'[u].done
    BY <1>0, <1>2, Zenon DEF MapInv
  <2>4. QED
    BY <1>0, <1>1, <2>1, <2>2, <2>3, Zenon DEF MapInv
<1>9. CapInv'
  <2>1. Cardinality(Running') = Cardinality(Running) - 1
    BY Zenon, <1>7, RevertSetsFinite, FS_RemoveElement
  <2>2. Owing' = Owing /\ Swapping' = Swapping
    BY <1>1, Zenon DEF Owing, Swapping
  <2>3. QED
    BY <1>0, <1>1, <2>1, <2>2, RevertSetsFinite, RevertAssumption DEF CapInv
<1>10. QED
  BY <1>5, <1>6, <1>8, <1>9, Zenon DEF RevertInv

\* Goroutine keeps the invariant.
LEMMA GoroutineKeeps == ASSUME RevertInv, NEW t \in RevertTimers, Goroutine(t) PROVE RevertInv'
<1>0. /\ RevertTypes /\ timer[t] \in TimerRec
  BY Zenon DEF RevertInv, RevertTypes
<1>1. CASE Select(t)
  <2>1. /\ timer[t].pc = "select" /\ UNCHANGED <<leaf, handler, posts, revertTimers, counter>>
        /\ \/ timer' = [timer EXCEPT ![t].pc = "exit", ![t].done = TRUE]
           \/ timer' = [timer EXCEPT ![t].pc = "cas", ![t].done = timer[t].done]
    BY <1>0, <1>1, Zenon DEF Select, RevertGoto, RevertTypes, TimerRec
  <2>2. QED
    BY Zenon, <1>0, <2>1, GoroutineMoves DEF Alive, TimerRec, RevertTypes
<1>2. CASE Win(t)
  <2>1. /\ timer[t].pc = "cas" /\ UNCHANGED <<leaf, handler, posts, revertTimers, counter>>
        /\ \/ timer' = [timer EXCEPT ![t].pc = "exit", ![t].done = timer[t].done]
           \/ timer' = [timer EXCEPT ![t].pc = "mutate", ![t].done = TRUE]
    BY <1>0, <1>2, Zenon DEF Win, RevertGoto, RevertTypes, TimerRec
  <2>2. QED
    BY Zenon, <1>0, <2>1, GoroutineMoves DEF Alive, TimerRec, RevertTypes
<1>3. CASE Revert(t)
  <2>1. /\ timer[t].pc = "mutate" /\ UNCHANGED <<handler, posts, revertTimers, counter>>
        /\ timer' = [timer EXCEPT ![t].pc = "exit", ![t].done = timer[t].done]
        /\ leaf' \in [Leaves -> LeafValues]
    BY Zenon, <1>0, <1>3 DEF Revert, RevertGoto, RevertTypes, TimerRec
  <2>2. QED
    BY Zenon, <1>0, <2>1, GoroutineMoves DEF Alive, TimerRec
<1>4. QED
  BY <1>1, <1>2, <1>3, ExitKeeps, Zenon DEF Goroutine

\* CancelAll keeps the invariant.
LEMMA CancelAllKeeps == ASSUME RevertInv, CancelAll PROVE RevertInv'
<1>0. /\ RevertTypes /\ OwnNumbers /\ MapInv /\ CapInv
  BY Zenon DEF RevertInv
<1>1. /\ revertTimers' = [k \in Leaves |-> 0] /\ UNCHANGED <<leaf, handler, posts, counter>>
  BY Zenon DEF CancelAll
<1>2. \A t \in RevertTimers :
        /\ timer'[t] \in TimerRec /\ timer'[t].pc = timer[t].pc /\ timer'[t].key = timer[t].key
        /\ timer'[t].stop => timer'[t].done
        /\ (\E k \in Leaves : revertTimers[k] = t) => timer'[t].stop
        /\ timer[t].stop => timer'[t].stop
  <2> SUFFICES ASSUME NEW t \in RevertTimers
               PROVE  /\ timer'[t] \in TimerRec /\ timer'[t].pc = timer[t].pc
                         /\ timer'[t].key = timer[t].key
                      /\ timer'[t].stop => timer'[t].done
                      /\ (\E k \in Leaves : revertTimers[k] = t) => timer'[t].stop
                      /\ timer[t].stop => timer'[t].stop
    BY Zenon
  <2>1. timer[t] \in TimerRec /\ (timer[t].stop => timer[t].done)
    BY <1>0, Zenon DEF RevertTypes, MapInv
  <2>2. CASE \E k \in Leaves : revertTimers[k] = t
    BY Zenon, <2>1, <2>2 DEF CancelAll, Cancelled, TimerRec
  <2>3. CASE ~\E k \in Leaves : revertTimers[k] = t
    BY <2>1, <2>3, Zenon DEF CancelAll
  <2>4. QED
    BY <2>2, <2>3, Zenon
<1>3. timer' \in [RevertTimers -> TimerRec]
  BY <1>2, Zenon DEF CancelAll
<1>4. RevertTypes'
  BY <1>0, <1>1, <1>3, RevertAssumption DEF RevertTypes
<1>5. OwnNumbers'
  <2>1. \A h \in Handlers : handler[h] # NoPost => handler[h].id \in RevertTimers
    BY <1>0, Zenon DEF RevertTypes, Posted
  <2>2. QED
    BY <1>0, <1>1, <1>2, <2>1, Zenon DEF OwnNumbers
<1>6. Running' = Running
  BY <1>2, Zenon DEF Running
<1>7. MapInv'
  <2>1. WaitingIsReachable'
    <3> SUFFICES ASSUME NEW t \in RevertTimers, timer'[t].pc \in {"new", "select"}, ~timer'[t].stop
                 PROVE  \E h \in Handlers : handler'[h].pc = "start" /\ handler'[h].old = t
      BY Zenon DEF WaitingIsReachable
    <3>1. /\ timer[t].key \in Leaves
          /\ \/ revertTimers[timer[t].key] = t
             \/ \E h \in Handlers : handler[h].pc = "start" /\ handler[h].old = t
      BY <1>0, <1>2, Zenon DEF MapInv, WaitingIsReachable, RevertTypes, TimerRec
    <3>2. QED
      BY <1>1, <1>2, <3>1, Zenon
  <2>2. QED
    BY <1>0, <1>1, <1>2, <2>1, Zenon DEF MapInv
<1>8. CapInv'
  BY ZenonT(40), <1>0, <1>1, <1>6 DEF CapInv, Owing, Swapping
<1>9. QED
  BY <1>4, <1>5, <1>7, <1>8, Zenon DEF RevertInv

\* A step elsewhere keeps the invariant.
LEMMA RevertStutters == ASSUME RevertInv, UNCHANGED revertvars PROVE RevertInv'
BY DEF RevertInv, RevertTypes, OwnNumbers, MapInv, CapInv, WaitingIsReachable, Running, Owing,
       Swapping, revertvars

\* The books of the auto-reverts, in every reachable state.
THEOREM RevertInvariant == RevertSpec => []RevertInv
<1>1. RevertInv /\ [RevertNext]_revertvars => RevertInv'
  BY PostKeeps, CountKeeps, SwapKeeps, StartKeeps, GoroutineKeeps, CancelAllKeeps, RevertStutters,
     Zenon
     DEF RevertNext, HandlerStep
<1>2. QED
  BY <1>1, RevertInitially, PTL DEF RevertSpec

\* A waiting revert is in the map or in the hands of the POST that is about to cancel it,
\* and the counter is exact and within the cap (scheduleAutoRevert,
\* cancelAutoRevertsForDevice).
THEOREM RevertsAlwaysKept == RevertSpec => [](WaitingIsReachable /\ CounterExact)
<1>1. RevertInv => WaitingIsReachable /\ CounterExact
  <2> SUFFICES ASSUME RevertInv PROVE WaitingIsReachable /\ CounterExact
    BY Zenon
  <2>1. Cardinality(Running) <= RevertCap
    BY RevertSetsFinite, RevertAssumption DEF RevertInv, CapInv
  <2>2. QED
    BY <2>1, Zenon DEF RevertInv, MapInv, CapInv, CounterExact, Owing
<1>2. QED
  BY <1>1, RevertInvariant, PTL

\* However late a superseded or cancelled goroutine runs, it does not write the leaf.
THEOREM CancelledAlwaysYields == RevertSpec => CancelledNeverWrites
<1> DEFINE Yields == \A t \in RevertTimers :
                       timer[t].stop /\ timer[t].pc \in {"select", "cas"} => timer'[t].pc # "mutate"
<1>1. ASSUME RevertInv, [RevertNext]_revertvars PROVE [Yields]_revertvars
  <2> SUFFICES ASSUME NEW t \in RevertTimers, timer[t].stop, timer[t].pc \in {"select", "cas"},
                      RevertNext
               PROVE  timer'[t].pc # "mutate"
    BY <1>1, Zenon
  <2>0. timer \in [RevertTimers -> TimerRec] /\ timer[t] \in TimerRec /\ timer[t].done
    BY <1>1, Zenon DEF RevertInv, RevertTypes, MapInv
  <2>1. ASSUME NEW h \in Handlers, Swap(h) \/ Start(h) PROVE timer'[t].pc # "mutate"
    <3>1. \A x \in TimerRec : Cancelled(x).pc = x.pc /\ [x EXCEPT !.pc = "select"].pc = "select"
      BY Zenon DEF Cancelled, TimerRec
    <3>2. CASE Swap(h)
      <4>1. timer'[t] = timer[t] \/ timer'[t] = NewTimer(h)
        BY <2>0, <3>2, Zenon DEF Swap
      <4>2. QED
        BY <2>0, <4>1 DEF NewTimer
    <3>3. CASE Start(h)
      <4>1. \/ timer'[t] = timer[t] \/ timer'[t] = Cancelled(timer[t])
            \/ timer'[t] = [timer[t] EXCEPT !.pc = "select"]
        BY <3>3, Zenon DEF Start
      <4>2. QED
        BY <2>0, <3>1, <4>1, Zenon
    <3>4. QED
      BY <2>1, <3>2, <3>3, Zenon
  <2>2. ASSUME NEW u \in RevertTimers, Goroutine(u) PROVE timer'[t].pc # "mutate"
    <3>1. CASE u # t
      BY <2>0, <2>2, <3>1, Zenon DEF Goroutine, Select, Win, Revert, Exit, RevertGoto
    <3>2. CASE u = t
      BY <2>0, <2>2, <3>2 DEF Goroutine, Select, Win, Revert, Exit, RevertGoto, TimerRec
    <3>3. QED
      BY <3>1, <3>2, Zenon
  <2>3. CASE CancelAll
    BY Zenon, <2>0, <2>3 DEF CancelAll, Cancelled, TimerRec
  <2>4. CASE timer' = timer
    BY <2>4, Zenon
  <2>5. QED
    BY <2>1, <2>2, <2>3, <2>4, Zenon DEF RevertNext, HandlerStep, Post, Count, BackOut
<1>2. QED
  BY <1>1, RevertInvariant, PTL DEF RevertSpec, CancelledNeverWrites
-------------------------------------------------------------------------------
FlapEntry == [key : Keys, left : Int, action : {"down", "up"}, engine : 1..MaxRegistrations]

FlapTypes ==
  /\ registrations \in 0..MaxRegistrations
  /\ engine \in [FlapDevices -> 0..registrations]
  /\ byKey \in [Keys -> FlapEntry \cup {NoEntry}]
  /\ \A k \in Keys : byKey[k] # NoEntry => byKey[k].key = k /\ byKey[k].engine <= registrations
  /\ links \in [Keys \X (1..MaxRegistrations) -> {"down", "up"}]

\* Run's goroutine.  Only a fire carries an entry; one that starts after Stop has
\* returned leaves at the top of its loop.
RunnerInv ==
  /\ runner.pc \in {"new", "peek", "wait", "limit", "pop", "fire", "done"}
  /\ runner.pc = "fire" => runner.entry \in FlapEntry /\ runner.entry.engine <= registrations
  /\ runner.pc = "wait" => runner = [pc |-> "wait", left |-> runner.left]
  /\ (started <=> runner.pc # "new")
  /\ stopReturned => stopCh /\ runner.pc \in {"new", "peek", "done"}

\* A device whose address has a Stop to come was created before that Stop.
HeirsKnown == \A x \in stopping : \A c \in FlapDevices : x[1] = c => engine[c] \in heirs \cup {0}

\* The link of each entry, a fire under way included: the entry was replaced by its
\* counterpart before the fire writes.  An engine that is not built yet is up.
DrivesLinks ==
  /\ \A k \in Keys : byKey[k] # NoEntry =>
       IF runner.pc = "fire" /\ runner.entry.key = k /\ runner.entry.engine = byKey[k].engine
       THEN byKey[k].action = Counterpart(runner.entry.action)
       ELSE \/ <<k, byKey[k].engine>> \in posted
            \/ links[<<k, byKey[k].engine>>] = "down" <=> byKey[k].action = "up"
  /\ \A k \in Keys, g \in 1..MaxRegistrations : g > registrations => links[<<k, g>>] = "up"

FlapInv == FlapTypes /\ RunnerInv /\ HeapMatchesDevices /\ HeirsKnown /\ DrivesLinks

\* What an entry is, and that NoEntry is none.
LEMMA EntryFacts ==
  /\ NoEntry \notin FlapEntry
  /\ \A e \in FlapEntry : /\ e # NoEntry /\ e.key \in Keys /\ e.left \in Int /\ e.action \in {"down",
                             "up"}
                          /\ e.engine \in 1..MaxRegistrations
                          /\ Passed(e) \in FlapEntry /\ Passed(e).key = e.key
                          /\ Passed(e).action = e.action /\ Passed(e).engine = e.engine
  /\ \A k \in Keys, n \in Int, a \in {"down", "up"}, g \in 1..MaxRegistrations :
       /\ Entry(k, n, a, g) \in FlapEntry
       /\ Entry(k, n, a, g).key = k /\ Entry(k, n, a, g).action = a /\ Entry(k, n, a, g).engine = g
  /\ \A k \in Keys : k[1] \in FlapDevices /\ k[2] \in FlapIfs
<1>1. NoEntry.action = "none"
  BY Zenon DEF NoEntry, Entry
<1>2. \A e \in FlapEntry : e.action # "none"
  BY Zenon DEF FlapEntry
<1>3. NoEntry \notin FlapEntry
  BY <1>1, <1>2, Zenon
<1>4. \A k \in Keys : k[1] \in FlapDevices /\ k[2] \in FlapIfs
  BY Zenon DEF Keys
<1>5. QED
  BY <1>3, <1>4 DEF FlapEntry, Entry, Passed

\* In a heap that matches the map an entry is its key's entry.
LEMMA HeapIsMap ==
  ASSUME FlapTypes, HeapMatchesDevices
  PROVE  \A e \in heap : e \in FlapEntry /\ byKey[e.key] = e
<1> SUFFICES ASSUME NEW e \in heap PROVE e \in FlapEntry /\ byKey[e.key] = e
  BY Zenon
<1>1. PICK k \in Keys : byKey[k] # NoEntry /\ e = byKey[k]
  BY Zenon DEF HeapMatchesDevices, HeapIsByKey
<1>2. byKey[k] \in FlapEntry /\ byKey[k].key = k
  BY <1>1, Zenon DEF FlapTypes
<1>3. QED
  BY <1>1, <1>2, Zenon

\* The flap scheduler starts in the invariant.
LEMMA FlapInitially == FlapInit => FlapInv
<1> SUFFICES ASSUME FlapInit PROVE FlapInv
  BY Zenon
<1>1. FlapTypes
  BY FlapAssumption DEF FlapInit, FlapTypes
<1>2. RunnerInv
  BY Zenon DEF FlapInit, RunnerInv, At
<1>3. HeapMatchesDevices
  BY EntryFacts DEF FlapInit, HeapMatchesDevices, HeapIsByKey
<1>4. DrivesLinks /\ HeirsKnown
  BY Zenon DEF FlapInit, DrivesLinks, HeirsKnown
<1>5. QED
  BY <1>1, <1>2, <1>3, <1>4, Zenon DEF FlapInv

\* The steps that move Run's goroutine, and neither begin nor end a fire.
LEMMA LoopKeeps ==
  ASSUME FlapInv, UNCHANGED <<heap, byKey, engine, stopping, heirs, registrations, posted, links>>,
         runner.pc # "fire", runner'.pc # "fire",
         runner'.pc \in {"new", "peek", "wait", "limit", "pop", "done"},
         runner'.pc = "wait" => runner' = [pc |-> "wait", left |-> runner'.left],
         started' <=> runner'.pc # "new",
         stopReturned' => stopCh' /\ runner'.pc \in {"new", "peek", "done"}
  PROVE  FlapInv'
<1>1. FlapTypes'
  BY Zenon DEF FlapInv, FlapTypes
<1>2. RunnerInv'
  BY Zenon DEF FlapInv, RunnerInv
<1>3. HeapMatchesDevices'
  BY Zenon DEF FlapInv, HeapMatchesDevices, HeapIsByKey
<1>4. DrivesLinks' /\ HeirsKnown'
  BY Zenon DEF FlapInv, DrivesLinks, HeirsKnown
<1>5. QED
  BY <1>1, <1>2, <1>3, <1>4, Zenon DEF FlapInv

\* Register keeps the invariant.
LEMMA RegisterKeeps == ASSUME FlapInv, NEW d \in FlapDevices, Register(d) PROVE FlapInv'
<1>0. FlapTypes /\ RunnerInv /\ HeapMatchesDevices /\ HeirsKnown /\ DrivesLinks
  BY Zenon DEF FlapInv
<1>1. PICK left \in [Flapping(d) -> Offsets] :
        LET entries == [k \in Flapping(d) |-> Entry(k, left[k], "down", registrations + 1)] IN
        /\ heap' = (heap \ {e \in heap : e.key \in Flapping(d)}) \cup {entries[k] : k \in Flapping(d)}
        /\ byKey' = [k \in Keys |-> IF k \in Flapping(d) THEN entries[k] ELSE byKey[k]]
  BY ZenonT(40) DEF Register
<1> DEFINE g == registrations + 1
<1>2. /\ engine[d] = 0 /\ registrations < MaxRegistrations /\ registrations' = g
      /\ engine' = [engine EXCEPT ![d] = g]
      /\ heirs' = IF \E x \in stopping : x[1] = d THEN heirs \cup {g} ELSE heirs
      /\ UNCHANGED <<stopping, posted, links, runner, started, stopCh, stopReturned>>
  BY Zenon DEF Register
<1>3. registrations \in Nat /\ g \in 1..MaxRegistrations /\ \A n \in 0..registrations : n \in 0..g
      /\ n # g
  BY <1>0, <1>2, FlapAssumption DEF FlapTypes
<1>4. Flapping(d) \subseteq Keys /\ \A k \in Flapping(d) : k[1] = d /\ k[2] \notin Linkless
  BY Zenon DEF Flapping, OfDevice
<1>5. \A k \in Keys : k[1] = d /\ k[2] \notin Linkless => k \in Flapping(d)
  BY Zenon DEF Flapping, OfDevice
<1>6. \A k \in Flapping(d) : /\ byKey'[k] \in FlapEntry /\ byKey'[k].key = k
                            /\ byKey'[k].action = "down" /\ byKey'[k].engine = g
  <2> SUFFICES ASSUME NEW k \in Flapping(d)
               PROVE  /\ byKey'[k] \in FlapEntry /\ byKey'[k].key = k
                      /\ byKey'[k].action = "down" /\ byKey'[k].engine = g
    BY Zenon
  <2>1. k \in Keys /\ left[k] \in Int
    BY Zenon, <1>4, FlapAssumption
  <2>2. byKey'[k] = Entry(k, left[k], "down", g)
    BY <1>1, <2>1, Zenon
  <2>3. QED
    BY <1>3, <2>1, <2>2, EntryFacts
<1>7. \A k \in Keys : k \notin Flapping(d) => byKey'[k] = byKey[k]
  BY <1>1, Zenon
<1>8. \A k \in Keys : k[1] = d /\ k \notin Flapping(d) => byKey[k] = NoEntry
  BY Zenon, <1>0, <1>5 DEF HeapMatchesDevices
<1>9. heap' = {e \in heap : e.key \notin Flapping(d)} \cup {byKey'[k] : k \in Flapping(d)}
  BY ZenonT(40), <1>1, <1>4
<1> HIDE DEF g
<1>10. FlapTypes'
  <2>1. byKey' \in [Keys -> FlapEntry \cup {NoEntry}]
    <3>1. byKey' = [k \in Keys |-> byKey'[k]]
      BY <1>1, Zenon
    <3>2. \A k \in Keys : byKey'[k] \in FlapEntry \cup {NoEntry}
      BY Zenon, <1>0, <1>6, <1>7 DEF FlapTypes
    <3>3. QED
      BY <3>1, <3>2, Zenon
  <2>2. \A k \in Keys : byKey'[k] # NoEntry => byKey'[k].key = k /\ byKey'[k].engine <= g
    <3>1. \A n \in 1..MaxRegistrations : n <= registrations => n <= g
      BY <1>3 DEF g
    <3>2. g <= g
      BY <1>3
    <3>3. ASSUME NEW k \in Keys, byKey'[k] # NoEntry PROVE byKey'[k].key = k /\ byKey'[k].engine <= g
      <4>1. CASE k \in Flapping(d)
        BY <1>6, <3>2, <4>1, Zenon
      <4>2. CASE k \notin Flapping(d)
        <5>1. byKey'[k] = byKey[k] /\ byKey[k] \in FlapEntry
          BY <1>0, <1>7, <3>3, <4>2, Zenon DEF FlapTypes
        <5>2. byKey[k].engine \in 1..MaxRegistrations /\ byKey[k].engine <= registrations
              /\ byKey[k].key = k
          BY <1>0, <3>3, <5>1, EntryFacts, Zenon DEF FlapTypes
        <5>3. QED
          BY <3>1, <5>1, <5>2, Zenon
      <4>3. QED
        BY <4>1, <4>2, Zenon
    <3>4. QED
      BY <3>3, Zenon
  <2>3. registrations' \in 0..MaxRegistrations
    BY <1>2, <1>3
  <2>4. engine' \in [FlapDevices -> 0..g]
    <3>1. g \in 0..g
      BY <1>3
    <3>2. engine \in [FlapDevices -> 0..g]
      BY <1>0, <1>3, Zenon DEF FlapTypes
    <3>3. QED
      BY <1>2, <3>1, <3>2, Zenon
  <2>5. QED
    BY <1>0, <1>2, <2>1, <2>2, <2>3, <2>4, Zenon DEF FlapTypes
<1>11. RunnerInv'
  <2>1. runner.pc = "fire" => runner.entry.engine <= g
    BY <1>0, <1>3 DEF RunnerInv, FlapEntry, g
  <2>2. QED
    BY <1>0, <1>2, <2>1, Zenon DEF RunnerInv
<1>12. HeapMatchesDevices'
  <2>1. HeapIsByKey'
    <3>1. ASSUME NEW x \in heap' PROVE \E k \in Keys : byKey'[k] # NoEntry /\ x = byKey'[k]
      <4>1. CASE \E k \in Flapping(d) : x = byKey'[k]
        BY <1>4, <1>6, <4>1, EntryFacts, Zenon
      <4>2. CASE x \in heap /\ x.key \notin Flapping(d)
        <5>1. x \in FlapEntry /\ byKey[x.key] = x /\ x.key \in Keys /\ x # NoEntry
          BY Zenon, <1>0, <4>2, HeapIsMap, EntryFacts
        <5>2. QED
          BY Zenon, <1>7, <4>2, <5>1
      <4>3. QED
        BY <1>9, <3>1, <4>1, <4>2, Zenon
    <3>2. ASSUME NEW k \in Keys, byKey'[k] # NoEntry PROVE byKey'[k] \in heap'
      <4>1. CASE k \in Flapping(d)
        BY <1>9, <4>1, Zenon
      <4>2. CASE k \notin Flapping(d)
        <5>1. byKey'[k] = byKey[k] /\ byKey[k] \in heap /\ byKey[k].key = k
          BY Zenon, <1>0, <1>7, <3>2, <4>2 DEF HeapMatchesDevices, HeapIsByKey, FlapTypes
        <5>2. QED
          BY <1>9, <4>2, <5>1, Zenon
      <4>3. QED
        BY <4>1, <4>2, Zenon
    <3>3. QED
      BY <3>1, <3>2, Zenon DEF HeapIsByKey
  <2>2. ASSUME NEW k \in Keys
        PROVE  /\ byKey'[k] # NoEntry =>
                    /\ k[2] \notin Linkless
                    /\ byKey'[k].engine = engine'[k[1]] \/ <<k[1], byKey'[k].engine>> \in stopping'
               /\ engine'[k[1]] \notin heirs' \cup {0} /\ k[2] \notin Linkless =>
                    byKey'[k] # NoEntry /\ byKey'[k].engine = engine'[k[1]]
    <3>1. CASE k[1] = d
      <4>1. engine'[k[1]] = g
        BY <1>0, <1>2, <3>1, Zenon DEF FlapTypes
      <4>2. CASE k \in Flapping(d)
        BY <1>4, <1>6, <4>1, <4>2, EntryFacts, Zenon
      <4>3. CASE k \notin Flapping(d)
        BY <1>5, <1>7, <1>8, <3>1, <4>3, Zenon
      <4>4. QED
        BY <4>2, <4>3, Zenon
    <3>2. CASE k[1] # d
      <4>1. engine'[k[1]] = engine[k[1]] /\ byKey'[k] = byKey[k]
        BY ZenonT(40), <1>0, <1>2, <1>4, <1>7, <3>2, EntryFacts DEF FlapTypes
      <4>2. heirs \subseteq heirs' /\ stopping' = stopping
        BY <1>2, Zenon
      <4>3. QED
        BY Zenon, <1>0, <4>1, <4>2 DEF HeapMatchesDevices
    <3>3. QED
      BY ZenonT(40), <3>1, <3>2
  <2>3. QED
    BY <2>1, <2>2, Zenon DEF HeapMatchesDevices
<1>13. DrivesLinks'
  <2>1. ASSUME NEW k \in Keys, byKey'[k] # NoEntry
        PROVE  IF runner.pc = "fire" /\ runner.entry.key = k /\ runner.entry.engine = byKey'[k].engine
               THEN byKey'[k].action = Counterpart(runner.entry.action)
               ELSE \/ <<k, byKey'[k].engine>> \in posted
                    \/ links[<<k, byKey'[k].engine>>] = "down" <=> byKey'[k].action = "up"
    <3>1. CASE k \in Flapping(d)
      <4>1. runner.pc = "fire" => runner.entry.engine # g
        BY <1>0, <1>3 DEF RunnerInv, FlapEntry, g
      <4>2. g > registrations
        BY <1>3 DEF g
      <4>3. links[<<k, g>>] = "up"
        BY ZenonT(40), <1>0, <1>3, <4>2 DEF DrivesLinks
      <4>4. QED
        BY <1>6, <3>1, <4>1, <4>3, Zenon
    <3>2. CASE k \notin Flapping(d)
      BY <1>0, <1>7, <2>1, <3>2 DEF DrivesLinks
    <3>3. QED
      BY Zenon, <3>1, <3>2
  <2>2. \A k \in Keys, n \in 1..MaxRegistrations : n > g => links[<<k, n>>] = "up"
    <3>1. \A n \in 1..MaxRegistrations : n > g => n > registrations
      BY <1>3 DEF g
    <3>2. QED
      BY <1>0, <3>1 DEF DrivesLinks
  <2>3. QED
    BY ZenonT(40), <1>2, <2>1, <2>2 DEF DrivesLinks
<1>14. HeirsKnown'
  <2> SUFFICES ASSUME NEW x \in stopping, NEW c \in FlapDevices, x[1] = c
               PROVE  engine'[c] \in heirs' \cup {0}
    BY <1>2, Zenon DEF HeirsKnown
  <2>1. CASE c = d
    <3>1. heirs' = heirs \cup {g} /\ engine'[c] = g
      BY <1>0, <1>2, <2>1, Zenon DEF FlapTypes
    <3>2. QED
      BY <3>1, Zenon
  <2>2. CASE c # d
    <3>1. engine'[c] = engine[c] /\ heirs \subseteq heirs'
      BY <1>0, <1>2, <2>2, Zenon DEF FlapTypes
    <3>2. QED
      BY <1>0, <3>1, Zenon DEF HeirsKnown
  <2>3. QED
    BY <2>1, <2>2, Zenon
<1>15. QED
  BY <1>10, <1>11, <1>12, <1>13, <1>14, Zenon DEF FlapInv

\* The entries of an address go, with its device or with one before it.
LEMMA DeregisterKeeps ==
  ASSUME FlapInv, NEW d, Deregister(d),
         engine' \in [FlapDevices -> 0..registrations],
         \A c \in FlapDevices : IF c = d THEN engine'[c] \in heirs \cup {0} ELSE engine'[c] = engine[c],
         \A c, n : c # d /\ <<c, n>> \in stopping => <<c, n>> \in stopping',
         stopping' \subseteq stopping,
         UNCHANGED <<heirs, registrations, posted, links, runner, started, stopCh, stopReturned>>
  PROVE  FlapInv'
<1>0. FlapTypes /\ RunnerInv /\ HeapMatchesDevices /\ HeirsKnown /\ DrivesLinks
  BY Zenon DEF FlapInv
<1>1. /\ heap' = {e \in heap : e.key[1] # d}
      /\ byKey' = [k \in Keys |-> IF k[1] = d THEN NoEntry ELSE byKey[k]]
  BY Zenon DEF Deregister
<1>2. \A k \in Keys : byKey'[k] = IF k[1] = d THEN NoEntry ELSE byKey[k]
  BY <1>1, Zenon
<1>3. FlapTypes'
  <2>1. byKey' \in [Keys -> FlapEntry \cup {NoEntry}]
    BY <1>0, <1>1, Zenon DEF FlapTypes
  <2>2. \A k \in Keys : byKey'[k] # NoEntry => byKey'[k].key = k /\ byKey'[k].engine <= registrations
    BY <1>0, <1>2, Zenon DEF FlapTypes
  <2>3. QED
    BY <1>0, <2>1, <2>2, Zenon DEF FlapTypes
<1>4. RunnerInv'
  BY ZenonT(40), <1>0 DEF RunnerInv
<1>5. HeapMatchesDevices'
  <2>1. HeapIsByKey'
    <3>1. ASSUME NEW x \in heap' PROVE \E k \in Keys : byKey'[k] # NoEntry /\ x = byKey'[k]
      <4>1. x \in heap /\ x \in FlapEntry /\ byKey[x.key] = x /\ x.key \in Keys /\ x # NoEntry
            /\ x.key[1] # d
        BY ZenonT(40), <1>0, <1>1, <3>1, HeapIsMap, EntryFacts
      <4>2. QED
        BY Zenon, <1>2, <4>1
    <3>2. ASSUME NEW k \in Keys, byKey'[k] # NoEntry PROVE byKey'[k] \in heap'
      <4>1. byKey'[k] = byKey[k] /\ byKey[k].key = k /\ k[1] # d /\ byKey[k] \in heap
        BY ZenonT(40), <1>0, <1>2, <3>2 DEF FlapTypes, HeapMatchesDevices, HeapIsByKey
      <4>2. QED
        BY <1>1, <4>1, Zenon
    <3>3. QED
      BY Zenon, <3>1, <3>2 DEF HeapIsByKey
  <2>2. ASSUME NEW k \in Keys, byKey'[k] # NoEntry
        PROVE  /\ k[2] \notin Linkless
               /\ byKey'[k].engine = engine'[k[1]] \/ <<k[1], byKey'[k].engine>> \in stopping'
    <3>1. k[1] # d /\ byKey'[k] = byKey[k] /\ byKey[k] # NoEntry /\ k[1] \in FlapDevices
      BY <1>2, <2>2, EntryFacts, Zenon
    <3>2. engine'[k[1]] = engine[k[1]]
      BY <3>1, Zenon
    <3>3. /\ k[2] \notin Linkless
          /\ byKey[k].engine = engine[k[1]] \/ <<k[1], byKey[k].engine>> \in stopping
      BY <1>0, <3>1, Zenon DEF HeapMatchesDevices
    <3>4. QED
      BY <3>1, <3>2, <3>3, Zenon
  <2>3. ASSUME NEW k \in Keys, engine'[k[1]] \notin heirs' \cup {0}, k[2] \notin Linkless
        PROVE  byKey'[k] # NoEntry /\ byKey'[k].engine = engine'[k[1]]
    <3>1. k[1] \in FlapDevices /\ k[1] # d
      BY <2>3, EntryFacts, Zenon
    <3>2. engine'[k[1]] = engine[k[1]] /\ byKey'[k] = byKey[k]
      BY <1>2, <3>1, Zenon
    <3>3. QED
      BY <1>0, <2>3, <3>2, Zenon DEF HeapMatchesDevices
  <2>4. QED
    BY <2>1, <2>2, <2>3, Zenon DEF HeapMatchesDevices
<1>6. HeirsKnown'
  <2> SUFFICES ASSUME NEW x \in stopping', NEW c \in FlapDevices, x[1] = c
               PROVE  engine'[c] \in heirs \cup {0}
    BY Zenon DEF HeirsKnown
  <2>1. x \in stopping /\ engine[c] \in heirs \cup {0}
    BY <1>0, Zenon DEF HeirsKnown
  <2>2. QED
    BY <2>1, Zenon
<1>7. DrivesLinks'
  <2>1. \A k \in Keys : byKey'[k] # NoEntry => byKey[k] # NoEntry /\ byKey'[k] = byKey[k]
    BY <1>2, Zenon
  <2>2. UNCHANGED <<posted, links, runner, registrations>>
    BY Zenon
  <2>3. ASSUME NEW k \in Keys, byKey'[k] # NoEntry
        PROVE  IF runner.pc = "fire" /\ runner.entry.key = k /\ runner.entry.engine = byKey'[k].engine
               THEN byKey'[k].action = Counterpart(runner.entry.action)
               ELSE \/ <<k, byKey'[k].engine>> \in posted
                    \/ links[<<k, byKey'[k].engine>>] = "down" <=> byKey'[k].action = "up"
    <3>1. byKey[k] # NoEntry /\ byKey'[k] = byKey[k]
      BY <2>1, <2>3, Zenon
    <3>2. IF runner.pc = "fire" /\ runner.entry.key = k /\ runner.entry.engine = byKey[k].engine
          THEN byKey[k].action = Counterpart(runner.entry.action)
          ELSE \/ <<k, byKey[k].engine>> \in posted
               \/ links[<<k, byKey[k].engine>>] = "down" <=> byKey[k].action = "up"
      BY <1>0, <3>1, Zenon DEF DrivesLinks
    <3>3. QED
      BY <3>1, <3>2
  <2>4. \A k \in Keys, g \in 1..MaxRegistrations : g > registrations => links[<<k, g>>] = "up"
    BY <1>0, Zenon DEF DrivesLinks
  <2>5. QED
    BY <2>2, <2>3, <2>4 DEF DrivesLinks
<1>8. QED
  BY <1>3, <1>4, <1>5, <1>6, <1>7, Zenon DEF FlapInv

\* Delete keeps the invariant.
LEMMA DeleteKeeps ==
  ASSUME FlapInv, (\E d \in FlapDevices : DeleteOne(d)) \/ (\E x \in stopping : StopDevice(x))
  PROVE  FlapInv'
<1>0. engine \in [FlapDevices -> 0..registrations] /\ registrations \in Nat /\ HeirsKnown
  BY FlapAssumption DEF FlapInv, FlapTypes
<1>1. ASSUME NEW d \in FlapDevices, DeleteOne(d) PROVE FlapInv'
  <2>1. /\ engine' = [engine EXCEPT ![d] = 0] /\ Deregister(d)
        /\ UNCHANGED <<stopping, heirs, registrations, posted, links, runner, started, stopCh,
           stopReturned>>
    BY <1>1, Zenon DEF DeleteOne
  <2>2. 0 \in 0..registrations
    BY <1>0
  <2>3. /\ engine' \in [FlapDevices -> 0..registrations]
        /\ \A c \in FlapDevices : IF c = d THEN engine'[c] \in heirs \cup {0} ELSE engine'[c] = engine[c]
    BY <1>0, <2>1, <2>2, Zenon
  <2>4. QED
    BY <2>1, <2>3, DeregisterKeeps, Zenon
<1>2. ASSUME NEW x \in stopping, StopDevice(x) PROVE FlapInv'
  <2>1. /\ stopping' = stopping \ {x} /\ Deregister(x[1]) /\ engine' = engine
        /\ UNCHANGED <<heirs, registrations, posted, links, runner, started, stopCh, stopReturned>>
    BY <1>2, Zenon DEF StopDevice
  <2>2. \A c, n : c # x[1] /\ <<c, n>> \in stopping => <<c, n>> \in stopping'
    BY <2>1
  <2>3. \A c \in FlapDevices :
          IF c = x[1] THEN engine'[c] \in heirs \cup {0} ELSE engine'[c] = engine[c]
    BY <1>0, <1>2, <2>1, Zenon DEF HeirsKnown
  <2>4. QED
    BY <1>0, <2>1, <2>2, <2>3, DeregisterKeeps, Zenon
<1>3. QED
  BY <1>1, <1>2, Zenon

\* The maps are emptied: every entry's device is one whose Stop is to come.
LEMMA ClearKeeps == ASSUME FlapInv, ClearDevices PROVE FlapInv'
<1>0. FlapTypes /\ RunnerInv /\ HeapMatchesDevices /\ HeirsKnown /\ DrivesLinks
  BY Zenon DEF FlapInv
<1>1. /\ stopping' = stopping \cup {<<d, engine[d]>> : d \in {c \in FlapDevices : engine[c] # 0}}
      /\ engine' = [d \in FlapDevices |-> 0]
      /\ UNCHANGED <<heap, byKey, heirs, registrations, posted, links, runner, started, stopCh,
         stopReturned>>
  BY Zenon DEF ClearDevices
<1>2. FlapTypes'
  <2>1. 0 \in 0..registrations
    BY <1>0, FlapAssumption DEF FlapTypes
  <2>2. engine' \in [FlapDevices -> 0..registrations]
    BY <1>1, <2>1, Zenon
  <2>3. QED
    BY <1>0, <1>1, <2>2, Zenon DEF FlapTypes
<1>3. RunnerInv' /\ DrivesLinks'
  BY <1>0, <1>1, Zenon DEF RunnerInv, DrivesLinks
<1>4. HeapMatchesDevices'
  <2>1. HeapIsByKey'
    BY <1>0, <1>1, Zenon DEF HeapMatchesDevices, HeapIsByKey
  <2>2. ASSUME NEW k \in Keys, byKey[k] # NoEntry
        PROVE  k[2] \notin Linkless /\ <<k[1], byKey[k].engine>> \in stopping'
    <3>1. k[1] \in FlapDevices /\ byKey[k].engine \in 1..MaxRegistrations
      BY <1>0, <2>2, EntryFacts DEF FlapTypes
    <3>2. byKey[k].engine # 0
      BY <3>1
    <3>3. k[2] \notin Linkless /\ (byKey[k].engine = engine[k[1]] \/ <<k[1],
          byKey[k].engine>> \in stopping)
      BY <1>0, <2>2, Zenon DEF HeapMatchesDevices
    <3>4. QED
      BY <1>1, <3>1, <3>2, <3>3, Zenon
  <2>3. \A k \in Keys : engine'[k[1]] = 0
    BY <1>1, EntryFacts, Zenon
  <2>4. QED
    BY <1>1, <2>1, <2>2, <2>3, Zenon DEF HeapMatchesDevices
<1>5. HeirsKnown'
  BY <1>1, Zenon DEF HeirsKnown
<1>6. QED
  BY <1>2, <1>3, <1>4, <1>5, Zenon DEF FlapInv

\* A POST puts one link out of step, and says so.
LEMMA PostLinkKeeps == ASSUME FlapInv, NEW q \in Keys, PostLink(q) PROVE FlapInv'
<1> DEFINE g == engine[q[1]]
<1>0. FlapTypes /\ RunnerInv /\ HeapMatchesDevices /\ HeirsKnown /\ DrivesLinks
  BY Zenon DEF FlapInv
<1>1. /\ g # 0 /\ posted' = posted \cup {<<q, g>>}
      /\ links' = [links EXCEPT ![<<q, g>>] = Counterpart(@)]
      /\ UNCHANGED <<heap, byKey, engine, stopping, heirs, registrations, runner, started, stopCh,
         stopReturned>>
  BY Zenon DEF PostLink, deviceVars
<1>2. g \in 1..MaxRegistrations /\ g <= registrations /\ registrations \in Nat
  <2>1. g \in 0..registrations /\ registrations \in 0..MaxRegistrations
    BY <1>0, EntryFacts, Zenon DEF FlapTypes
  <2>2. QED
    BY <1>1, <2>1, FlapAssumption
<1> HIDE DEF g
<1>3. /\ links' \in [Keys \X (1..MaxRegistrations) -> {"down", "up"}]
      /\ \A k \in Keys, n \in 1..MaxRegistrations :
           <<k, n>> # <<q, g>> => links'[<<k, n>>] = links[<<k, n>>]
  <2>1. Counterpart(links[<<q, g>>]) \in {"down", "up"}
    BY Zenon DEF Counterpart
  <2>2. QED
    BY <1>0, <1>1, <2>1, Zenon DEF FlapTypes
<1>4. FlapTypes'
  BY <1>0, <1>1, <1>3, Zenon DEF FlapTypes
<1>5. RunnerInv' /\ HeapMatchesDevices' /\ HeirsKnown'
  BY <1>0, <1>1, Zenon DEF RunnerInv, HeapMatchesDevices, HeapIsByKey, HeirsKnown
<1>6. DrivesLinks'
  <2>1. ASSUME NEW k \in Keys, byKey[k] # NoEntry
        PROVE  IF runner.pc = "fire" /\ runner.entry.key = k /\ runner.entry.engine = byKey[k].engine
               THEN byKey[k].action = Counterpart(runner.entry.action)
               ELSE \/ <<k, byKey[k].engine>> \in posted'
                    \/ links'[<<k, byKey[k].engine>>] = "down" <=> byKey[k].action = "up"
    <3>1. byKey[k].engine \in 1..MaxRegistrations
      BY <1>0, <2>1, EntryFacts DEF FlapTypes
    <3>2. CASE <<k, byKey[k].engine>> = <<q, g>>
      BY <1>0, <1>1, <2>1, <3>2, Zenon DEF DrivesLinks
    <3>3. CASE <<k, byKey[k].engine>> # <<q, g>>
      <4>1. links'[<<k, byKey[k].engine>>] = links[<<k, byKey[k].engine>>]
        BY <1>3, <3>1, <3>3, Zenon
      <4>2. QED
        BY <1>0, <1>1, <2>1, <4>1, Zenon DEF DrivesLinks
    <3>4. QED
      BY <3>2, <3>3, Zenon
  <2>2. ASSUME NEW k \in Keys, NEW n \in 1..MaxRegistrations, n > registrations
        PROVE  links'[<<k, n>>] = "up"
    <3>1. n # g
      BY <1>2, <2>2
    <3>2. <<k, n>> # <<q, g>>
      BY <3>1, Zenon
    <3>3. links'[<<k, n>>] = links[<<k, n>>]
      BY <1>3, <3>2, Zenon
    <3>4. QED
      BY <1>0, <2>2, <3>3, Zenon DEF DrivesLinks
  <2>3. byKey' = byKey /\ runner' = runner /\ registrations' = registrations
    BY <1>1, Zenon
  <2>4. QED
    BY <2>1, <2>2, <2>3, Zenon DEF DrivesLinks
<1>7. QED
  BY <1>4, <1>5, <1>6, Zenon DEF FlapInv

\* Pop replaces the earliest entry by its counterpart and hands it to the fire.
LEMMA PopKeeps == ASSUME FlapInv, Pop PROVE FlapInv'
<1>0. FlapTypes /\ RunnerInv /\ HeapMatchesDevices /\ HeirsKnown /\ DrivesLinks
  BY Zenon DEF FlapInv
<1>1. /\ runner.pc = "pop" /\ ~stopReturned
      /\ UNCHANGED <<engine, stopping, heirs, registrations, posted, links, started, stopCh,
         stopReturned>>
  BY Zenon, <1>0 DEF Pop, RunnerInv, deviceVars
<1>2. CASE heap = {}
  <2>1. runner' = [pc |-> "peek"] /\ UNCHANGED <<heap, byKey>>
    BY <1>2, Zenon DEF Pop, At
  <2>2. started' <=> runner'.pc # "new"
    BY <1>0, <1>1, <2>1, Zenon DEF RunnerInv
  <2>3. QED
    BY ZenonT(40), <1>1, <2>1, <2>2, LoopKeeps
<1>3. CASE heap # {}
  <2>1. PICK e \in heap, left \in Offsets :
          IF byKey[e.key] # e
          THEN heap' = heap \ {e} /\ runner' = At("peek") /\ UNCHANGED byKey
          ELSE LET next == Entry(e.key, left, Counterpart(e.action), e.engine) IN
               /\ heap' = (heap \ {e}) \cup {next}
               /\ byKey' = [byKey EXCEPT ![e.key] = next]
               /\ runner' = [pc |-> "fire", entry |-> e]
    BY Zenon, <1>3 DEF Pop
  <2> DEFINE next == Entry(e.key, left, Counterpart(e.action), e.engine)
  <2>2. /\ e \in FlapEntry /\ byKey[e.key] = e /\ e.key \in Keys /\ e # NoEntry
        /\ e.action \in {"down", "up"} /\ e.engine \in 1..MaxRegistrations
    BY Zenon, <1>0, HeapIsMap, EntryFacts
  <2>3. /\ heap' = (heap \ {e}) \cup {next} /\ byKey' = [byKey EXCEPT ![e.key] = next]
        /\ runner' = [pc |-> "fire", entry |-> e]
    BY Zenon, <2>1, <2>2
  <2>4. /\ next \in FlapEntry /\ next.key = e.key /\ next.engine = e.engine /\ next # NoEntry
        /\ next.action = Counterpart(e.action)
    BY <2>2, EntryFacts, FlapAssumption DEF Counterpart
  <2> HIDE DEF next
  <2>5. byKey'[e.key] = next /\ \A k \in Keys : k # e.key => byKey'[k] = byKey[k]
    BY <1>0, <2>2, <2>3, Zenon DEF FlapTypes
  <2>6. /\ e.key[2] \notin Linkless
        /\ e.engine = engine[e.key[1]] \/ <<e.key[1], e.engine>> \in stopping
    BY Zenon, <1>0, <2>2 DEF HeapMatchesDevices
  <2>7. e.engine <= registrations
    BY <1>0, <2>2, Zenon DEF FlapTypes
  <2>8. FlapTypes'
    <3>1. byKey' \in [Keys -> FlapEntry \cup {NoEntry}]
      BY Zenon, <1>0, <2>3, <2>4 DEF FlapTypes
    <3>2. \A k \in Keys : byKey'[k] # NoEntry => byKey'[k].key = k
          /\ byKey'[k].engine <= registrations
      BY Zenon, <1>0, <2>2, <2>4, <2>5, <2>7 DEF FlapTypes
    <3>3. QED
      BY Zenon, <1>0, <1>1, <3>1, <3>2 DEF FlapTypes
  <2>9. RunnerInv'
    BY ZenonT(40), <1>0, <1>1, <2>2, <2>3, <2>7 DEF RunnerInv
  <2>10. HeapMatchesDevices'
    <3>1. HeapIsByKey'
      <4>1. ASSUME NEW x \in heap' PROVE \E k \in Keys : byKey'[k] # NoEntry /\ x = byKey'[k]
        <5>1. CASE x = next
          BY Zenon, <2>2, <2>4, <2>5, <5>1
        <5>2. CASE x # next
          <6>1. x \in heap /\ x # e /\ byKey[x.key] = x /\ x.key \in Keys /\ x # NoEntry
            BY <1>0, <2>3, <4>1, <5>2, HeapIsMap, EntryFacts, Zenon
          <6>2. x.key # e.key
            BY <2>2, <6>1, Zenon
          <6>3. QED
            BY ZenonT(40), <2>5, <6>1, <6>2
        <5>3. QED
          BY <5>1, <5>2, Zenon
      <4>2. ASSUME NEW k \in Keys, byKey'[k] # NoEntry PROVE byKey'[k] \in heap'
        <5>1. CASE k = e.key
          BY <2>3, <2>5, <5>1
        <5>2. CASE k # e.key
          <6>1. byKey'[k] = byKey[k] /\ byKey[k] \in heap /\ byKey[k].key = k
            BY ZenonT(40), <1>0, <2>5, <4>2, <5>2 DEF HeapMatchesDevices, HeapIsByKey, FlapTypes
          <6>2. QED
            BY <2>3, <5>2, <6>1
        <5>3. QED
          BY <5>1, <5>2, Zenon
      <4>3. QED
        BY <4>1, <4>2, Zenon DEF HeapIsByKey
    <3>2. \A k \in Keys : byKey'[k] # NoEntry => byKey[k] # NoEntry
          /\ byKey'[k].engine = byKey[k].engine
      BY <2>2, <2>4, <2>5, Zenon
    <3>3. \A k \in Keys : byKey[k] # NoEntry => byKey'[k] # NoEntry
      BY <2>4, <2>5, Zenon
    <3>4. QED
      BY <1>0, <1>1, <3>1, <3>2, <3>3, Zenon DEF HeapMatchesDevices
  <2>11. DrivesLinks'
    <3>1. runner'.pc = "fire" /\ runner'.entry = e
      BY Zenon, <2>3
    <3>2. \A k \in Keys : byKey[k] # NoEntry =>
            \/ <<k, byKey[k].engine>> \in posted
            \/ links[<<k, byKey[k].engine>>] = "down" <=> byKey[k].action = "up"
      BY Zenon, <1>0, <1>1 DEF DrivesLinks
    <3>3. \A k \in Keys, g \in 1..MaxRegistrations : g > registrations => links[<<k, g>>] = "up"
      BY Zenon, <1>0 DEF DrivesLinks
    <3>4. ASSUME NEW k \in Keys, byKey'[k] # NoEntry
          PROVE  IF e.key = k /\ e.engine = byKey'[k].engine
                 THEN byKey'[k].action = Counterpart(e.action)
                 ELSE \/ <<k, byKey'[k].engine>> \in posted
                      \/ links[<<k, byKey'[k].engine>>] = "down" <=> byKey'[k].action = "up"
      <4>1. CASE k = e.key
        BY ZenonT(40), <2>4, <2>5, <4>1
      <4>2. CASE k # e.key
        BY <2>5, <3>2, <3>4, <4>2, Zenon
      <4>3. QED
        BY Zenon, <4>1, <4>2
    <3>5. QED
      BY <1>1, <3>1, <3>3, <3>4, Zenon DEF DrivesLinks
  <2>12. HeirsKnown'
    BY Zenon, <1>0, <1>1 DEF HeirsKnown
  <2>13. QED
    BY Zenon, <2>8, <2>9, <2>10, <2>11, <2>12 DEF FlapInv
<1>4. QED
  BY <1>2, <1>3, Zenon

\* A fire ends what a POST had out of step.
LEMMA FireKeeps == ASSUME FlapInv, Fire PROVE FlapInv'
<1> DEFINE e == runner.entry
<1>0. FlapTypes /\ RunnerInv /\ HeapMatchesDevices /\ HeirsKnown /\ DrivesLinks
  BY Zenon DEF FlapInv
<1>1. /\ runner.pc = "fire" /\ e \in FlapEntry /\ e.engine <= registrations /\ ~stopReturned
         /\ started
      /\ links' = [links EXCEPT ![<<e.key, e.engine>>] = e.action]
      /\ posted' = posted \ {<<e.key, e.engine>>}
      /\ runner' = [pc |-> "peek"]
      /\ UNCHANGED <<heap, byKey, engine, stopping, heirs, registrations, started, stopCh,
         stopReturned>>
  BY ZenonT(40), <1>0 DEF Fire, RunnerInv, At, deviceVars
<1>2. e.key \in Keys /\ e.engine \in 1..MaxRegistrations /\ e.action \in {"down", "up"}
  BY <1>1, EntryFacts, Zenon
<1> HIDE DEF e
<1>3. /\ links' \in [Keys \X (1..MaxRegistrations) -> {"down", "up"}]
      /\ links'[<<e.key, e.engine>>] = e.action
      /\ \A k \in Keys, g \in 1..MaxRegistrations :
           k # e.key \/ g # e.engine => links'[<<k, g>>] = links[<<k, g>>]
  BY Zenon, <1>0, <1>1, <1>2 DEF FlapTypes
<1>4. FlapTypes'
  BY <1>0, <1>1, <1>3, Zenon DEF FlapTypes
<1>5. RunnerInv'
  BY Zenon, <1>0, <1>1 DEF RunnerInv
<1>6. HeapMatchesDevices' /\ HeirsKnown'
  BY ZenonT(40), <1>0, <1>1 DEF HeapMatchesDevices, HeapIsByKey, HeirsKnown
<1>7. DrivesLinks'
  <2>1. ASSUME NEW k \in Keys, byKey[k] # NoEntry
        PROVE  \/ <<k, byKey[k].engine>> \in posted'
               \/ links'[<<k, byKey[k].engine>>] = "down" <=> byKey[k].action = "up"
    <3>1. byKey[k].engine \in 1..MaxRegistrations
      BY <1>0, <2>1, EntryFacts DEF FlapTypes
    <3>2. CASE k = e.key /\ e.engine = byKey[k].engine
      <4>1. byKey[k].action = Counterpart(e.action)
        BY Zenon, <1>0, <1>1, <2>1, <3>2 DEF DrivesLinks, e
      <4>2. QED
        BY Zenon, <1>2, <1>3, <3>2, <4>1 DEF Counterpart
    <3>3. CASE k # e.key \/ e.engine # byKey[k].engine
      <4>1. links'[<<k, byKey[k].engine>>] = links[<<k, byKey[k].engine>>]
        BY ZenonT(40), <1>3, <3>1, <3>3
      <4>2. \/ <<k, byKey[k].engine>> \in posted
            \/ links[<<k, byKey[k].engine>>] = "down" <=> byKey[k].action = "up"
        BY ZenonT(40), <1>0, <1>1, <2>1, <3>3 DEF DrivesLinks, e
      <4>3. <<k, byKey[k].engine>> # <<e.key, e.engine>>
        BY <3>3, Zenon
      <4>4. QED
        BY <1>1, <4>1, <4>2, <4>3, Zenon
    <3>4. QED
      BY <3>2, <3>3, Zenon
  <2>2. ASSUME NEW k \in Keys, NEW g \in 1..MaxRegistrations, g > registrations
        PROVE  links'[<<k, g>>] = "up"
    <3>1. g # e.engine
      BY <1>0, <1>1, <1>2, <2>2 DEF FlapTypes
    <3>2. QED
      BY <1>0, <1>3, <2>2, <3>1 DEF DrivesLinks
  <2>3. QED
    BY <1>1, <2>1, <2>2, Zenon DEF DrivesLinks
<1>8. QED
  BY <1>4, <1>5, <1>6, <1>7, Zenon DEF FlapInv

\* Tick keeps the invariant.
LEMMA TickKeeps == ASSUME FlapInv, Tick PROVE FlapInv'
<1>0. FlapTypes /\ RunnerInv /\ HeapMatchesDevices /\ HeirsKnown /\ DrivesLinks
  BY Zenon DEF FlapInv
<1>1. /\ heap' = {Passed(e) : e \in heap}
      /\ byKey' = [k \in Keys |-> IF byKey[k] = NoEntry THEN NoEntry ELSE Passed(byKey[k])]
      /\ UNCHANGED <<engine, stopping, heirs, registrations, posted, links, started, stopCh,
         stopReturned>>
  BY ZenonT(40) DEF Tick, deviceVars
<1>2. \A k \in Keys : /\ byKey[k] = NoEntry => byKey'[k] = NoEntry
                      /\ byKey[k] # NoEntry =>
                           /\ byKey'[k] = Passed(byKey[k]) /\ byKey'[k] \in FlapEntry
                           /\ byKey'[k] # NoEntry /\ byKey'[k].key = byKey[k].key
                           /\ byKey'[k].action = byKey[k].action /\ byKey'[k].engine = byKey[k].engine
  BY <1>0, <1>1, EntryFacts DEF FlapTypes
<1>3. \/ runner' = runner
      \/ runner.pc = "wait" /\ runner'.pc = "wait" /\ runner' = [pc |-> "wait", left |-> runner'.left]
  <2>1. CASE runner.pc = "wait" /\ runner.left \in Nat \ {0}
    <3>1. runner = [pc |-> "wait", left |-> runner.left] /\ runner' = Passed(runner)
      BY <1>0, <2>1, Zenon DEF Tick, RunnerInv
    <3>2. runner' = [pc |-> "wait", left |-> runner.left - 1]
      BY <3>1 DEF Passed
    <3>3. QED
      BY <2>1, <3>2, Zenon
  <2>2. CASE ~(runner.pc = "wait" /\ runner.left \in Nat \ {0})
    BY ZenonT(40), <2>2 DEF Tick
  <2>3. QED
    BY <2>1, <2>2, Zenon
<1>4. FlapTypes'
  <2>1. byKey' \in [Keys -> FlapEntry \cup {NoEntry}]
    <3>1. byKey' = [k \in Keys |-> byKey'[k]]
      BY <1>1, Zenon
    <3>2. QED
      BY <1>2, <3>1, Zenon
  <2>2. QED
    BY <1>0, <1>1, <1>2, <2>1, Zenon DEF FlapTypes
<1>5. RunnerInv'
  BY ZenonT(40), <1>0, <1>1, <1>3 DEF RunnerInv
<1>6. HeapMatchesDevices'
  <2>1. HeapIsByKey'
    <3>1. ASSUME NEW x \in heap' PROVE \E k \in Keys : byKey'[k] # NoEntry /\ x = byKey'[k]
      <4>1. PICK e \in heap : x = Passed(e)
        BY <1>1, <3>1, Zenon
      <4>2. e.key \in Keys /\ byKey[e.key] = e /\ e # NoEntry
        BY <1>0, HeapIsMap, EntryFacts, Zenon
      <4>3. QED
        BY <1>2, <4>1, <4>2, Zenon
    <3>2. ASSUME NEW k \in Keys, byKey'[k] # NoEntry PROVE byKey'[k] \in heap'
      <4>1. byKey[k] # NoEntry /\ byKey'[k] = Passed(byKey[k]) /\ byKey[k] \in heap
        BY ZenonT(40), <1>0, <1>2, <3>2 DEF HeapMatchesDevices, HeapIsByKey
      <4>2. QED
        BY Zenon, <1>1, <4>1
    <3>3. QED
      BY ZenonT(40), <3>1, <3>2 DEF HeapIsByKey
  <2>2. QED
    BY <1>0, <1>1, <1>2, <2>1, Zenon DEF HeapMatchesDevices
<1>7. DrivesLinks'
  <2>1. /\ runner'.pc = "fire" <=> runner.pc = "fire"
        /\ runner.pc = "fire" => runner' = runner
    BY ZenonT(40), <1>3
  <2>2. ASSUME NEW k \in Keys, byKey'[k] # NoEntry
        PROVE  IF runner'.pc = "fire" /\ runner'.entry.key = k
               /\ runner'.entry.engine = byKey'[k].engine
               THEN byKey'[k].action = Counterpart(runner'.entry.action)
               ELSE \/ <<k, byKey'[k].engine>> \in posted'
                    \/ links'[<<k, byKey'[k].engine>>] = "down" <=> byKey'[k].action = "up"
    <3>1. byKey[k] # NoEntry /\ byKey'[k].action = byKey[k].action
          /\ byKey'[k].engine = byKey[k].engine
      BY Zenon, <1>2, <2>2
    <3>2. CASE runner.pc = "fire"
      BY Zenon, <1>0, <1>1, <2>1, <3>1, <3>2 DEF DrivesLinks
    <3>3. CASE runner.pc # "fire"
      BY Zenon, <1>0, <1>1, <2>1, <3>1, <3>3 DEF DrivesLinks
    <3>4. QED
      BY Zenon, <3>2, <3>3
  <2>3. \A k \in Keys, g \in 1..MaxRegistrations : g > registrations' => links'[<<k, g>>] = "up"
    BY Zenon, <1>0, <1>1 DEF DrivesLinks
  <2>4. QED
    BY Zenon, <2>2, <2>3 DEF DrivesLinks
<1>8. HeirsKnown'
  BY Zenon, <1>0, <1>1 DEF HeirsKnown
<1>9. QED
  BY <1>4, <1>5, <1>6, <1>7, <1>8, Zenon DEF FlapInv

\* Stop, its return and Run's loop.
LEMMA StopKeeps == ASSUME FlapInv, Stop \/ StopReturn \/ UNCHANGED flapvars PROVE FlapInv'
<1>0. RunnerInv
  BY Zenon DEF FlapInv
<1>1. UNCHANGED <<heap, byKey, engine, stopping, heirs, registrations, posted, links, runner,
      started>>
  BY Zenon DEF Stop, StopReturn, flapvars, deviceVars
<1>2. stopReturned' => stopCh' /\ runner.pc \in {"new", "peek", "done"}
  BY Zenon, <1>0 DEF Stop, StopReturn, flapvars, RunnerInv
<1>3. RunnerInv'
  BY <1>0, <1>1, <1>2, Zenon DEF RunnerInv
<1>4. QED
  BY <1>1, <1>3 DEF FlapInv, FlapTypes, HeapMatchesDevices, HeapIsByKey, HeirsKnown, DrivesLinks

\* Run keeps the invariant.
LEMMA RunKeeps == ASSUME FlapInv, RunStart \/ Peek \/ Wait \/ Limit PROVE FlapInv'
<1>0. RunnerInv
  BY Zenon DEF FlapInv
<1>1. CASE RunStart
  BY Zenon, <1>0, <1>1, LoopKeeps DEF RunStart, RunnerInv, At, deviceVars
<1>2. CASE Peek
  <2>1. /\ runner.pc = "peek" /\ started
        /\ UNCHANGED <<heap, byKey, engine, stopping, heirs, registrations, posted, links>>
        /\ UNCHANGED <<started, stopCh, stopReturned>>
    BY Zenon, <1>0, <1>2 DEF Peek, RunnerInv, deviceVars
  <2>2. \/ stopCh /\ runner' = [pc |-> "done"]
        \/ ~stopCh /\ \E n : runner' = [pc |-> "wait", left |-> n]
        \/ ~stopCh /\ runner' = [pc |-> "limit"]
    BY Zenon, <1>2 DEF Peek, At
  <2>3. QED
    BY <1>0, <2>1, <2>2, LoopKeeps DEF RunnerInv
<1>3. CASE Wait \/ Limit
  <2>1. /\ runner.pc \in {"wait", "limit"} /\ started /\ ~stopReturned
        /\ UNCHANGED <<heap, byKey, engine, stopping, heirs, registrations, posted, links>>
        /\ UNCHANGED <<started, stopCh, stopReturned>>
        /\ runner' \in {[pc |-> "limit"], [pc |-> "peek"], [pc |-> "done"], [pc |-> "pop"]}
    BY <1>0, <1>3, Zenon DEF Wait, Limit, RunnerInv, At, deviceVars
  <2>2. QED
    BY <2>1, LoopKeeps
<1>4. QED
  BY <1>1, <1>2, <1>3, Zenon

\* The heap, the map, the engines and the links, in every reachable state.
THEOREM FlapInvariant == FlapSpec => []FlapInv
<1>1. FlapInv /\ [FlapNext]_flapvars => FlapInv'
  BY RegisterKeeps, DeleteKeeps, ClearKeeps, PostLinkKeeps, PopKeeps, FireKeeps, TickKeeps, StopKeeps,
     RunKeeps, Zenon
     DEF FlapNext, RunStep
<1>2. QED
  BY <1>1, FlapInitially, PTL DEF FlapSpec

\* The schedule and the devices agree as far as a Stop by address lets them, a link that
\* no POST has set follows its schedule, and no fire outlives Stop (flap_scheduler.go,
\* flap_manager.go, device.go).
THEOREM FlapsAlwaysKept ==
  FlapSpec => [](HeapMatchesDevices /\ LinkFollowsSchedule /\ NoFireAfterStop)
<1>1. FlapInv => HeapMatchesDevices /\ LinkFollowsSchedule /\ NoFireAfterStop
  BY Zenon DEF FlapInv, RunnerInv, DrivesLinks, LinkFollowsSchedule, NoFireAfterStop
<1>2. QED
  BY <1>1, FlapInvariant, PTL

\* LinkTimersExact of the two side by side: no timed change is counted twice or carried
\* out after it was cancelled, and no flap entry is left over or follows anything but its
\* link, for any fleet and any number of requests.
THEOREM LinkTimersAlwaysExact == RevertSpec /\ FlapSpec => LinkTimersExact
BY RevertsAlwaysKept, FlapsAlwaysKept, CancelledAlwaysYields, PTL DEF LinkTimersExact

============================================================================
