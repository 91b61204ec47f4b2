------------------------------ MODULE DeviceBatch ------------------------------
(***************************************************************************)
(* Creating and deleting devices (device.go, prealloc.go, manager.go): one *)
(* batch at a time behind createBatchGate, the pool of interfaces that is  *)
(* filled ahead of it by workers nobody cancels, the shared address        *)
(* cursor, the names, and the deletions that no gate holds back.           *)
(*                                                                         *)
(* The devices live in a network namespace, where a TUN link stays until   *)
(* it is deleted by name.  The fleet freeze is in ScenarioLifecycle, the   *)
(* exporters a creation starts are in the modules of their subsystems.     *)
(***************************************************************************)
EXTENDS Integers, FiniteSets

CONSTANTS
  HostBits,     \* host bits of the batch's prefix
  MaxAddress,   \* the addresses are 0..MaxAddress
  Starts,       \* start addresses of a request
  Counts,       \* numbers of devices of a request
  MaxHolders,   \* bound on the batches
  MaxDeletes,   \* bound on the deletions
  SysDraws      \* what the sysName generator draws from

VARIABLES
  gate,       \* createBatchGate: the number of the batch inside, 0 for none
  token,      \* createBatch
  reload,     \* a profile reload, which borrows the gate
  batch,      \* the requests inside createDevicesWithOptionsLocked, by number
  cursor,     \* currentIP
  nextTun,    \* nextTunIndex
  pooled,     \* tunPoolSize > 0
  pool,       \* tunInterfacePool: address |-> link
  workers,    \* pre-allocation goroutines
  creators,   \* devices on their way
  device,     \* devices, deviceIPs, devicesByIP: address |-> device
  inUse,      \* sysNamesInUse
  netdevs,    \* the links of the namespace
  teardown,   \* links DeleteAllDevices has collected for its bulk delete
  refused,    \* links whose deletion failed, which the caller was told
  routes,     \* host routes, by subnet: those that are up and those that could not be added
  deletes     \* deletions so far

gateVars == <<gate, token, reload>>
linkVars == <<nextTun, pooled, pool, workers, netdevs, teardown, refused>>
fleetVars == <<creators, device, inUse>>
batchVars == <<gateVars, batch, cursor, linkVars, fleetVars, routes, deletes>>

Addresses == 0..MaxAddress
Numbers == 1..MaxHolders
NoLink == -1
Reloading == -1
NoDevice == [tun |-> NoLink, pre |-> FALSE, name |-> <<>>]
NoBatch == [pc |-> "out", start |-> 0, count |-> 0, left |-> 0, pre |-> FALSE, made |-> 0, seen |-> {}]
-------------------------------------------------------------------------------
(* Addresses (ipalloc.go). *)

Block == 2^HostBits

\* Neither the network address nor the broadcast address of its subnet.
assignableHost(n) == n % Block \notin {0, Block - 1}

\* The next assignable address: at most a broadcast and a network address are skipped.
nextHost(n) == CHOOSE m \in (n + 1)..(n + 3) : /\ assignableHost(m)
                                               /\ \A k \in (n + 1)..(m - 1) : ~assignableHost(k)

\* nextHost applied i times, for i up to n (preAllocBatchIPs, createDevicesParallel).
Walk(start, n) == LET ip[i \in 0..n] == IF i = 0 THEN start ELSE nextHost(ip[i - 1]) IN ip

networkCIDR(ip) == ip \div Block

networkRoutesBetween(start, end) == networkCIDR(start)..networkCIDR(end)

\* parsePrefix leaves at least eight host bits, and the addresses of a request exist.
ASSUME BatchAssumption ==
  /\ Block \in Nat /\ Block >= 4
  /\ {MaxAddress, MaxHolders, MaxDeletes} \subseteq Nat
  /\ Starts \subseteq Addresses /\ Counts \subseteq Nat \ {0}
  /\ \A start \in Starts, count \in Counts :
       \A i \in 0..(count - 1) : Walk(start, count)[i] \in Addresses
-------------------------------------------------------------------------------
(* The gate. *)

Own(set, n) == {x \in set : x.by = n}

\* tryEnterCreateBatch: TryLock.  A request that finds the gate held is refused.
TryEnter(n, start, count, pre) ==
  /\ gate = 0 /\ batch[n] = NoBatch /\ (n > 1 => batch[n - 1] # NoBatch)
  /\ gate' = n
  /\ batch' = [batch EXCEPT ![n] = [NoBatch EXCEPT !.pc = "locked", !.start = start, !.count = count,
                                                   !.left = count, !.pre = pre]]
  /\ UNCHANGED <<token, reload, cursor, linkVars, fleetVars, routes, deletes>>

To(n, place) == batch' = [batch EXCEPT ![n].pc = place]

\* The batch says who it is,
ShowToken(n) ==
  /\ batch[n].pc = "locked" /\ To(n, "in")
  /\ token' = n
  /\ UNCHANGED <<gate, reload, cursor, linkVars, fleetVars, routes, deletes>>

\* takes the token back,
HideToken(n) ==
  /\ batch[n].pc = "ending" /\ To(n, "hidden")
  /\ token' = 0
  /\ UNCHANGED <<gate, reload, cursor, linkVars, fleetVars, routes, deletes>>

\* and only then unlocks.
Unlock(n) ==
  /\ batch[n].pc = "hidden" /\ batch' = [batch EXCEPT ![n] = [NoBatch EXCEPT !.pc = "done"]]
  /\ gate' = 0
  /\ UNCHANGED <<token, reload, cursor, linkVars, fleetVars, routes, deletes>>

\* ReloadResources: TryLock, show, evict, hide, unlock.
ReloadResources ==
  /\ \/ reload = "out" /\ gate = 0 /\ reload' = "locked" /\ gate' = Reloading
     \/ reload = "locked" /\ reload' = "shown" /\ UNCHANGED gate
     \/ reload = "shown" /\ reload' = "hidden" /\ UNCHANGED gate
     \/ reload = "hidden" /\ reload' = "done" /\ gate' = 0
  /\ UNCHANGED <<token, batch, cursor, linkVars, fleetVars, routes, deletes>>

\* A slip: the batch waits for every worker.
WaitOverAll(n) == Own(workers, n) = {}

\* The wait of PreAllocateTunInterfaces ends with the batch's last worker, or after five
\* minutes without it.
WaitOver(n) == \E timedOut \in BOOLEAN : timedOut \/ Own(workers, n) = {}

\* A start address, a profile or a frozen fleet ends the request before anything is
\* reserved; the check for root comes after the wait, and leaves what was reserved.
Reject(n) ==
  /\ batch[n].pc = "in" \/ (batch[n].pc = "waiting" /\ WaitOver(n))
  /\ To(n, "ending")
  /\ UNCHANGED <<gateVars, cursor, linkVars, fleetVars, routes, deletes>>
-------------------------------------------------------------------------------
(* Pre-allocation. *)

\* reservePreAllocBatch: the index moves past every name of the batch.
IndexAfter(count) == nextTun + count

\* PreAllocateTunInterfaces: the reservation, in one critical section, and the workers.
PreAllocate(n) ==
  LET b == batch[n]  ip == Walk(b.start, b.count) IN
  /\ b.pc = "in" /\ b.pre /\ To(n, "waiting")
  /\ nextTun' = IndexAfter(b.count) /\ pooled' = TRUE
  /\ cursor' = ip[b.count]
  /\ workers' = workers \cup {[by |-> n, ip |-> ip[i], tun |-> nextTun + i, made |-> FALSE] : i \in 0..(b.count - 1)}
  /\ UNCHANGED <<gateVars, pool, netdevs, teardown, refused, fleetVars, routes, deletes>>

\* A worker's link comes up, or not;
WorkerMakes(w) ==
  /\ ~w.made
  /\ \/ /\ netdevs' = netdevs \cup {w.tun}
        /\ workers' = (workers \ {w}) \cup {[w EXCEPT !.made = TRUE]}
     \/ /\ workers' = workers \ {w}
        /\ UNCHANGED netdevs
  /\ UNCHANGED <<gateVars, batch, cursor, nextTun, pooled, pool, teardown, refused, fleetVars, routes, deletes>>

\* it goes to the pool, whoever is waiting for it by then.
WorkerStores(w) ==
  /\ w.made
  /\ pool' = [pool EXCEPT ![w.ip] = w.tun]
  /\ workers' = workers \ {w}
  /\ UNCHANGED <<gateVars, batch, cursor, nextTun, pooled, netdevs, teardown, refused, fleetVars, routes, deletes>>

\* The batch goes on after the wait, or at once when it has nothing to wait for.  The
\* cursor goes back to the start: the pool was filled from there.
Rewind(n) ==
  LET b == batch[n] IN
  /\ (b.pc = "waiting" /\ WaitOver(n)) \/ (b.pc = "in" /\ ~b.pre)
  /\ cursor' = b.start
  /\ To(n, IF pooled THEN "launching" ELSE "walking")
  /\ UNCHANGED <<gateVars, linkVars, fleetVars, routes, deletes>>
-------------------------------------------------------------------------------
(* The devices of a batch. *)

Creator(n, ip) == [by |-> n, ip |-> ip, pc |-> "link", tun |-> NoLink, pre |-> FALSE, name |-> <<>>]

\* An address that has a device counts as made; a creator starts for any other.
Visit(n, ip) ==
  LET made == device[ip] # NoDevice IN
  /\ batch' = [batch EXCEPT ![n].left = @ - 1, ![n].seen = @ \cup {ip}, ![n].made = @ + IF made THEN 1 ELSE 0]
  /\ creators' = IF made THEN creators ELSE creators \cup {Creator(n, ip)}

\* createDevicesParallel: the addresses are counted from the start.
Launch(n) ==
  LET b == batch[n] IN
  /\ b.pc = "launching" /\ b.left > 0
  /\ Visit(n, Walk(b.start, b.count)[b.count - b.left])
  /\ UNCHANGED <<gateVars, cursor, linkVars, device, inUse, routes, deletes>>

\* The sequential loop: the address is the cursor, one device at a time.
Step(n) ==
  LET b == batch[n] IN
  /\ b.pc = "walking" /\ b.left > 0 /\ Own(creators, n) = {}
  /\ Visit(n, cursor)
  /\ cursor' = IF device[cursor] # NoDevice THEN nextHost(cursor) ELSE cursor
  /\ UNCHANGED <<gateVars, linkVars, device, inUse, routes, deletes>>

\* The subnets SetupRoutesFromDevices and ensureAllSubnetRoutes call addHostRoute for.
RoutesFor(b) == {networkCIDR(ip) : ip \in {x \in Addresses : device[x] # NoDevice}} \cup networkRoutesBetween(b.start, cursor)

\* addHostRoute (ip route replace): a route that is up stays; a failure is only logged.
RoutesAfter(tried, added) ==
  LET up == routes.up \cup added IN [up |-> up, failed |-> (routes.failed \cup tried) \ up]

\* Everything is launched and has returned: the routes are set up, or some of them.
Finish(n) ==
  LET b == batch[n] IN
  /\ b.pc \in {"launching", "walking"} /\ b.left = 0 /\ Own(creators, n) = {}
  /\ To(n, "ending")
  /\ IF b.made > 0
       THEN \E added \in SUBSET RoutesFor(b) : routes' = RoutesAfter(RoutesFor(b), added)
       ELSE UNCHANGED routes
  /\ UNCHANGED <<gateVars, cursor, linkVars, fleetVars, deletes>>

Becomes(c, d) == creators' = (creators \ {c}) \cup {d}

\* The creator is gone; the sequential loop moves the cursor on.
Gone(c) ==
  /\ creators' = creators \ {c}
  /\ cursor' = IF batch[c.by].pc = "walking" THEN nextHost(cursor) ELSE cursor

\* The link of the pool, or a name for one of its own.
TakeLink(c) ==
  /\ c.pc = "link"
  /\ IF pool[c.ip] # NoLink
     THEN /\ Becomes(c, [c EXCEPT !.pc = "name", !.tun = pool[c.ip], !.pre = TRUE])
          /\ UNCHANGED nextTun
     ELSE /\ Becomes(c, [c EXCEPT !.pc = "make", !.tun = nextTun])
          /\ nextTun' = nextTun + 1
  /\ UNCHANGED <<gateVars, batch, cursor, pooled, pool, workers, netdevs, teardown, refused, device, inUse, routes, deletes>>

MakeLink(c) ==
  /\ c.pc = "make"
  /\ netdevs' = netdevs \cup {c.tun}
  /\ Becomes(c, [c EXCEPT !.pc = "name"])
  /\ UNCHANGED <<gateVars, batch, cursor, nextTun, pooled, pool, workers, teardown, refused, device, inUse, routes, deletes>>

MakeFails(c) ==
  /\ c.pc = "make" /\ Gone(c)
  /\ UNCHANGED <<gateVars, batch, linkVars, device, inUse, routes, deletes>>

\* reserveSysName: a draw that is free; where every draw is held, the first with the address.
Draws(ip) == {<<x>> : x \in {y \in SysDraws : <<y>> \notin inUse}} \cup {<<x, ip>> : x \in {y \in SysDraws : <<y>> \in inUse}}

ReserveName(c) ==
  /\ c.pc = "name"
  /\ \E name \in Draws(c.ip) : /\ inUse' = inUse \cup {name}
                               /\ Becomes(c, [c EXCEPT !.pc = "start", !.name = name])
  /\ UNCHANGED <<gateVars, batch, cursor, linkVars, device, routes, deletes>>

\* device.Start fails: device.Stop, releaseSysName.
StartFails(c) ==
  /\ c.pc = "start" /\ Gone(c)
  /\ inUse' = inUse \ {c.name}
  /\ UNCHANGED <<gateVars, batch, linkVars, device, routes, deletes>>

\* The device is published and counted.
Publish(c) ==
  /\ c.pc = "start" /\ Gone(c)
  /\ device' = [device EXCEPT ![c.ip] = [tun |-> c.tun, pre |-> c.pre, name |-> c.name]]
  /\ batch' = [batch EXCEPT ![c.by].made = @ + 1]
  /\ UNCHANGED <<gateVars, linkVars, inUse, routes, deletes>>
-------------------------------------------------------------------------------
(* Deletions, which no gate holds back. *)

\* A slip: the pool keeps the deleted device's link.
PoolWithoutNone(ip) == pool

\* The pool without the address of a device that came from it.
PoolWithout(ip) == IF device[ip].pre THEN [pool EXCEPT ![ip] = NoLink] ELSE pool

\* DeleteDevice, under sm.mu throughout; deleting the link may fail, which is answered.
DeleteDevice(ip) ==
  /\ device[ip] # NoDevice /\ deletes < MaxDeletes
  /\ deletes' = deletes + 1
  /\ \/ netdevs' = netdevs \ {device[ip].tun} /\ UNCHANGED refused
     \/ refused' = refused \cup {device[ip].tun} /\ UNCHANGED netdevs
  /\ pool' = PoolWithout(ip)
  /\ device' = [device EXCEPT ![ip] = NoDevice]
  /\ inUse' = inUse \ {device[ip].name}
  /\ UNCHANGED <<gateVars, batch, cursor, nextTun, pooled, workers, teardown, creators, routes>>

Live == {ip \in Addresses : device[ip] # NoDevice}

\* The names that stay: those of devices on their way.
NamesAfterWipe == inUse \ {device[ip].name : ip \in Live}

\* DeleteAllDevices: the registries and the pool are emptied.  Stop forgets the link
\* of a device that did not come from the pool, so only the others are collected.
DeleteAllDevices ==
  /\ deletes < MaxDeletes
  /\ deletes' = deletes + 1
  /\ device' = [ip \in Addresses |-> NoDevice]
  /\ inUse' = NamesAfterWipe
  /\ pool' = [ip \in Addresses |-> NoLink]
  /\ teardown' = teardown \cup {device[ip].tun : ip \in {x \in Live : device[x].pre}}
  /\ UNCHANGED <<gateVars, batch, cursor, nextTun, pooled, workers, netdevs, refused, creators, routes>>

\* bulkDeleteTunInterfacesInNamespace: what cannot be deleted is answered.
BulkDelete ==
  /\ teardown # {}
  /\ teardown' = {}
  /\ \/ netdevs' = netdevs \ teardown /\ UNCHANGED refused
     \/ refused' = refused \cup teardown /\ UNCHANGED netdevs
  /\ UNCHANGED <<gateVars, batch, cursor, nextTun, pooled, pool, workers, fleetVars, routes, deletes>>
-------------------------------------------------------------------------------
BatchInit ==
  /\ gate = 0 /\ token = 0 /\ reload = "out"
  /\ batch = [n \in Numbers |-> NoBatch]
  /\ cursor = 0 /\ nextTun = 0 /\ pooled = FALSE
  /\ pool = [ip \in Addresses |-> NoLink] /\ device = [ip \in Addresses |-> NoDevice]
  /\ workers = {} /\ creators = {} /\ inUse = {}
  /\ netdevs = {} /\ teardown = {} /\ refused = {} /\ routes = [up |-> {}, failed |-> {}] /\ deletes = 0

BatchGoesOn(n) ==
  \/ ShowToken(n) \/ HideToken(n) \/ Unlock(n)
  \/ Reject(n) \/ PreAllocate(n) \/ Rewind(n)
  \/ Launch(n) \/ Step(n) \/ Finish(n)

CreatorGoesOn(c) ==
  TakeLink(c) \/ MakeLink(c) \/ MakeFails(c) \/ ReserveName(c) \/ StartFails(c) \/ Publish(c)

BatchNext ==
  \/ \E n \in Numbers : \/ \E start \in Starts, count \in Counts, pre \in BOOLEAN : TryEnter(n, start, count, pre)
                        \/ BatchGoesOn(n)
  \/ ReloadResources
  \/ \E w \in workers : WorkerMakes(w) \/ WorkerStores(w)
  \/ \E c \in creators : CreatorGoesOn(c)
  \/ \E ip \in Addresses : DeleteDevice(ip)
  \/ DeleteAllDevices \/ BulkDelete

\* The goroutines of a request go on; a worker may hang, and the request does without it.
BatchFairness == /\ \A n \in Numbers : WF_batchVars(BatchGoesOn(n))
                 /\ WF_batchVars(\E c \in creators : CreatorGoesOn(c))
                 /\ WF_batchVars(reload # "out" /\ ReloadResources)

BatchSpec == BatchInit /\ [][BatchNext]_batchVars /\ BatchFairness
-------------------------------------------------------------------------------
(* What a refusal tells is true: a batch or a reload that shows itself     *)
(* holds the gate (createBatchInfo: never a previous batch's numbers).     *)
TokenIsHolder == /\ token # 0 => gate = token
                 /\ reload = "shown" => gate = Reloading

(* A link that is about to be created has a name of its own, whether it is *)
(* created ahead, on demand, or by a worker its batch gave up waiting for. *)
NamesFresh ==
  LET coming == {w \in workers : ~w.made} \cup {c \in creators : c.pc = "make"} IN
  \A x \in coming : x.tun \notin netdevs /\ \A y \in coming : y # x => y.tun # x.tun

(* Every device has a link, and no other device has it: nothing that is    *)
(* deleted, and no late worker, takes a link away under a live device.     *)
DeviceLinksLive ==
  \A ip \in Live : /\ device[ip].tun \in netdevs
                   /\ \A other \in Live \ {ip} : device[other].tun # device[ip].tun

(* The names in use are those of the devices and of the devices on their   *)
(* way, each of one of them: none leaks, none is given out twice, and a    *)
(* deletion in the middle of a batch frees none the batch still holds.     *)
SysNamesExact ==
  LET waiting == {c \in creators : c.pc = "start"} IN
  /\ inUse = {device[ip].name : ip \in Live} \cup {c.name : c \in waiting}
  /\ Cardinality(inUse) = Cardinality(Live) + Cardinality(waiting)

(* A batch visits the addresses it was asked for, each an assignable host  *)
(* after the first, although the cursor it walks by is shared.             *)
WalksOwnRange ==
  \A n \in Numbers : LET b == batch[n] IN
    (b.pc \in {"launching", "walking"} /\ b.left = 0) =>
      /\ b.seen = {Walk(b.start, b.count)[i] : i \in 0..(b.count - 1)}
      /\ \A ip \in b.seen \ {b.start} : assignableHost(ip)

(* Once its batch has ended, a device's subnet has a route, unless adding  *)
(* it failed: no device is left out of what the routes are computed from.  *)
DevicesRouted ==
  gate = 0 => \A ip \in Live : networkCIDR(ip) \in routes.up \cup routes.failed

(* A batch ends, and with it what holds the gate, although it never learns *)
(* what became of the workers it stopped waiting for.                      *)
GateReleased == (gate # 0) ~> (gate = 0)

\* Batches, late workers, deletions and a reload never share a link, a name or the
\* creation gate, and leave every device with a link and a route that is up or that the
\* host refused (device.go, prealloc.go, names.go, ipalloc.go, manager.go).
DevicesKept ==
  /\ TokenIsHolder /\ NamesFresh /\ DeviceLinksLive /\ SysNamesExact
  /\ WalksOwnRange /\ DevicesRouted
===============================================================================
