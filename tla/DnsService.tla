------------------------------ MODULE DnsService ------------------------------
(***************************************************************************)
(* The DNS subsystem (dns_manager.go) and one of its secondaries: changes  *)
(* of the fleet mark the zones dirty, the debounce worker advances the     *)
(* shared SOA serial and sends NOTIFY, the secondary compares serials and  *)
(* transfers the zone the server builds (dns_server.go).                   *)
(*                                                                         *)
(* The secondary is external: it polls the SOA on a NOTIFY or a refresh    *)
(* and transfers when the serial is later than its own.  A NOTIFY may be   *)
(* lost.  The epoch of serials is far from the 32-bit wrap.                *)
(***************************************************************************)
EXTENDS Integers, FiniteSets

CONSTANTS
  Hosts,        \* devices that may be created
  Changers,     \* goroutines that create or delete them
  MaxEdits,     \* bound on the changes
  MaxSeconds    \* bound on the wall clock

ASSUME DnsAssumption == IsFiniteSet(Changers) /\ MaxEdits \in Nat /\ MaxSeconds \in Nat \ {0}

VARIABLES
  fleet,       \* sm.devices
  changer,     \* goroutines between a change and the end of markDNSDirty
  edits,       \* changes so far
  dnsActive,   \* dnsSubsystemActive
  dirty,       \* dnsDirty
  woken,       \* dnsWake holds a token
  worker,      \* where dnsWorker is
  serial,      \* dnsSerial
  seconds,     \* time.Now().Unix()
  stopDns,     \* where StopDnsSubsystem is
  serving,     \* the listeners are up
  zoneRead,    \* a transfer being built: the devices read, before the serial is
  copy         \* the secondary's zone

dnsVars ==
  <<fleet, changer, edits, dnsActive, dirty, woken, worker, serial, seconds,
    stopDns, serving, zoneRead, copy>>

NoRead == [on |-> FALSE, hosts |-> {}, before |-> 0]

DnsInit ==
  /\ fleet = {} /\ changer = [g \in Changers |-> "idle"] /\ edits = 0
  /\ dnsActive = TRUE /\ dirty = FALSE /\ woken = FALSE /\ worker = "wait"
  /\ seconds = 1 /\ serial = 1
  /\ stopDns = "idle" /\ serving = TRUE
  /\ zoneRead = NoRead
  /\ copy = [serial |-> 0, hosts |-> {}, straddled |-> FALSE]

--------------------------------------------------------------------------
(* A create inserts the device and marks after the lock is released; a     *)
(* delete marks while it holds the lock that a transfer's snapshot needs,  *)
(* so the change and the mark are one step to a transfer.                  *)
HostAdded(g) ==
  /\ changer[g] = "idle" /\ edits < MaxEdits /\ edits' = edits + 1
  /\ \E h \in Hosts \ fleet : fleet' = fleet \cup {h}
  /\ changer' = [changer EXCEPT ![g] = "mark"]
  /\ UNCHANGED <<dnsActive, dirty, woken, worker, serial, seconds, stopDns, serving, zoneRead, copy>>

HostRemoved(g) ==
  /\ changer[g] = "idle" /\ edits < MaxEdits /\ edits' = edits + 1
  /\ \E h \in fleet : fleet' = fleet \ {h}
  /\ dirty' = (dirty \/ dnsActive)
  /\ changer' = [changer EXCEPT ![g] = IF dnsActive THEN "wake" ELSE "idle"]
  /\ UNCHANGED <<dnsActive, woken, worker, serial, seconds, stopDns, serving, zoneRead, copy>>

(* markDNSDirty: nothing when inactive; otherwise the flag, then a         *)
(* non-blocking wake.                                                      *)
Mark(g) ==
  \/ /\ changer[g] = "mark"
     /\ dirty' = (dirty \/ dnsActive) /\ UNCHANGED woken
     /\ changer' = [changer EXCEPT ![g] = IF dnsActive THEN "wake" ELSE "idle"]
     /\ UNCHANGED <<fleet, edits, dnsActive, worker, serial, seconds, stopDns, serving, zoneRead, copy>>
  \/ /\ changer[g] = "wake"
     /\ woken' = TRUE /\ UNCHANGED dirty
     /\ changer' = [changer EXCEPT ![g] = "idle"]
     /\ UNCHANGED <<fleet, edits, dnsActive, worker, serial, seconds, stopDns, serving, zoneRead, copy>>

--------------------------------------------------------------------------
(* dnsWorker.                                                              *)
WorkerOnly(to) ==
  /\ worker' = to
  /\ UNCHANGED <<fleet, changer, edits, dnsActive, serial, seconds, stopDns, serving, zoneRead, copy>>

WorkerWakes == worker \in {"wait", "debounce"} /\ woken /\ woken' = FALSE /\ UNCHANGED dirty /\ WorkerOnly("debounce")
WorkerStops == worker \in {"wait", "debounce"} /\ stopDns \in {"join", "close", "done"} /\ UNCHANGED <<dirty, woken>> /\ WorkerOnly("done")

(* The quiescence timer fired: Swap(false).                                *)
WorkerSwaps ==
  /\ worker = "debounce" /\ dirty' = FALSE /\ UNCHANGED woken
  /\ WorkerOnly(IF dirty THEN "bump" ELSE "wait")

\* Slip: the serial is the clock.
nextSerialByClock(old, now) == now

(* Later than the serial before, and the clock's where that is later.      *)
nextSerial(old, now) == IF now <= old THEN old + 1 ELSE now

(* bumpDNSSerial.                                                          *)
WorkerBumps ==
  /\ worker = "bump" /\ worker' = "notify"
  /\ serial' = nextSerial(serial, seconds)
  /\ UNCHANGED <<fleet, changer, edits, dnsActive, dirty, woken, seconds, stopDns, serving, zoneRead, copy>>

(* sendNotify returns with the secondaries' answers, their timeouts, or    *)
(* the cancelled context.                                                  *)
WorkerNotified == worker = "notify" /\ UNCHANGED <<dirty, woken>> /\ WorkerOnly("wait")

Worker == WorkerWakes \/ WorkerStops \/ WorkerSwaps \/ WorkerBumps \/ WorkerNotified

--------------------------------------------------------------------------
(* The secondary asks for the SOA, answered from the serial alone, and     *)
(* transfers when it is behind: buildZones reads the devices first and the *)
(* serial for the zone's SOA after them.                                   *)
BuildReads ==
  /\ serving /\ ~zoneRead.on /\ serial > copy.serial
  /\ zoneRead' = [on |-> TRUE, hosts |-> fleet, before |-> serial]
  /\ UNCHANGED <<fleet, changer, edits, dnsActive, dirty, woken, worker, serial, seconds, stopDns, serving, copy>>

BuildServes ==
  /\ serving /\ zoneRead.on /\ zoneRead' = NoRead
  /\ copy' = [serial |-> serial, hosts |-> zoneRead.hosts, straddled |-> serial # zoneRead.before]
  /\ UNCHANGED <<fleet, changer, edits, dnsActive, dirty, woken, worker, serial, seconds, stopDns, serving>>

Secondary == BuildReads \/ BuildServes

(* The wall clock goes on, or is set back.                                 *)
ClockMoves ==
  /\ \E s \in 1 .. MaxSeconds : s # seconds /\ seconds' = s
  /\ UNCHANGED <<fleet, changer, edits, dnsActive, dirty, woken, worker, serial, stopDns, serving, zoneRead, copy>>

(* StopDnsSubsystem: inactive, cancel and close, join the worker, close    *)
(* the listeners.                                                          *)
StopDnsTo(to) ==
  /\ stopDns' = to
  /\ UNCHANGED <<fleet, changer, edits, dirty, woken, worker, serial, seconds, zoneRead, copy>>
StopDnsBegins == stopDns = "idle" /\ dnsActive' = FALSE /\ UNCHANGED serving /\ StopDnsTo("cancel")
StopDnsCancels == stopDns = "cancel" /\ UNCHANGED <<dnsActive, serving>> /\ StopDnsTo("join")
StopDnsJoins == stopDns = "join" /\ worker = "done" /\ UNCHANGED <<dnsActive, serving>> /\ StopDnsTo("close")
StopDnsCloses == stopDns = "close" /\ serving' = FALSE /\ UNCHANGED dnsActive /\ StopDnsTo("done")
StopDns == StopDnsBegins \/ StopDnsCancels \/ StopDnsJoins \/ StopDnsCloses

DnsNext ==
  \/ \E g \in Changers : HostAdded(g) \/ HostRemoved(g) \/ Mark(g)
  \/ Worker \/ Secondary \/ ClockMoves \/ StopDns

DnsSpec == DnsInit /\ [][DnsNext]_dnsVars

--------------------------------------------------------------------------
(* Every variable has its type, and no secondary holds a serial of the     *)
(* future (nextSerial).                                                    *)
DnsTypeOK ==
  /\ fleet \subseteq Hosts /\ changer \in [Changers -> {"idle", "mark", "wake"}]
  /\ worker \in {"wait", "debounce", "bump", "notify", "done"}
  /\ stopDns \in {"idle", "cancel", "join", "close", "done"}
  /\ serial \in 1 .. MaxSeconds + MaxEdits /\ copy.serial <= serial /\ zoneRead.on \in BOOLEAN

(* Once the worker has caught up, a secondary that holds the current       *)
(* serial holds the current fleet: no change is hidden behind a serial the *)
(* secondary already has, in whatever order changes, marks, bumps and      *)
(* transfers fall.  The exception is a transfer whose devices were read    *)
(* before a bump and whose serial after it.                                *)
CurrentSerialIsCurrentZone ==
  (/\ dnsActive /\ worker = "wait" /\ ~dirty /\ ~woken /\ \A g \in Changers : changer[g] = "idle"
   /\ copy.serial = serial /\ ~copy.straddled)
    => copy.hosts = fleet

(* A change is published: the secondary ends up with the fleet unless the  *)
(* subsystem is stopped or the transfer straddled a bump.                  *)
SecondaryConverges == <>[](stopDns # "idle" \/ copy.straddled \/ copy.hosts = fleet)

\* A secondary that has the current serial has the current zone, once the change
\* worker rests (dns_manager.go, dns_server.go).
PublishedZoneCurrent ==
  /\ DnsTypeOK /\ CurrentSerialIsCurrentZone
=============================================================================
