----------------------------- MODULE SyslogFleet -----------------------------
(***************************************************************************)
(* The syslog subsystem around its exporters (syslog_manager.go): devices  *)
(* created by parallel workers attach an exporter, with a socket bound in  *)
(* the device's namespace or the one of the pool shared by a collector and *)
(* format; fires on demand and from the scheduler write through it; a      *)
(* device that is stopped closes its exporter, and StopSyslogExport takes  *)
(* every exporter, stops the scheduler, closes and persists them and       *)
(* closes the pool.  StopSyslogExport is documented as unsafe against a    *)
(* concurrent attach, so none is under way when it begins.                 *)
(*                                                                         *)
(* Sockets are datagram sockets here, and a write on an open one succeeds: *)
(* what the failure counter shows is then what the shutdown does.  The     *)
(* stream transports are SyslogStream's subject; SyslogKept bundles what   *)
(* both promise.                                                           *)
(***************************************************************************)
EXTENDS SyslogStream

CONSTANTS
  LogDevices,     \* devices with a syslog configuration
  KeyOf,          \* the collector and format each exports to
  LogFirers,      \* goroutines that fire: the scheduler and HTTP requests
  TheScheduler,   \* the one that is the scheduler's Run
  NoSocket, NoDevice

ASSUME LogConstants ==
  /\ TheScheduler \in LogFirers
  /\ NoDevice \notin LogDevices

VARIABLES
  logSub,     \* the subsystem: off, on, or where StopSyslogExport stands
  attach,     \* where the creation, the life and the stop of a device stand
  hand,       \* the pool socket a worker has opened and not yet stored
  exporter,   \* the sockets of each device's exporter
  exposed,    \* devices whose syslogExporter field is set
  entered,    \* devices registered with the scheduler
  shut,       \* exporters with closing set
  pool,       \* syslogConns
  opened,     \* sockets open
  captured,   \* exporters StopSyslogExport has taken
  deleted,    \* devices DeleteAllDevices took out of the map
  firing,     \* each firer: where it stands and whose exporter it loaded
  failures    \* SendFailures of each exporter, up to one

logVars == <<logSub, attach, hand, exporter, exposed, entered, shut, pool,
             opened, captured, deleted, firing, failures>>

Keys == {KeyOf[d] : d \in LogDevices}
Sockets == {<<kind, d>> : kind \in {"own", "pool"}, d \in LogDevices} \cup {<<NoSocket>>}
None == <<NoSocket>>
NoExporter == [own |-> None, shared |-> None]
NotFiring == [at |-> "idle", dev |-> NoDevice]

LogTypeOK ==
  /\ logSub \in {"off", "on", "capture", "join", "close", "pool", "done"}
  /\ attach \in [LogDevices -> {"no", "begun", "load", "store", "expose", "register",
                                "up", "stop", "stopped", "refused"}]
  /\ hand \in [LogDevices -> Sockets]
  /\ exporter \in [LogDevices -> [own : Sockets, shared : Sockets]]
  /\ exposed \subseteq LogDevices /\ entered \subseteq LogDevices
  /\ shut \subseteq LogDevices /\ captured \subseteq LogDevices
  /\ deleted \subseteq LogDevices
  /\ pool \in [Keys -> Sockets] /\ opened \subseteq Sockets
  /\ firing \in [LogFirers -> [at : {"idle", "fire", "send", "failed"},
                               dev : LogDevices \cup {NoDevice}]]
  /\ failures \in [LogDevices -> 0 .. 1]

LogInit ==
  /\ logSub = "off"
  /\ attach = [d \in LogDevices |-> "no"]
  /\ hand = [d \in LogDevices |-> None]
  /\ exporter = [d \in LogDevices |-> NoExporter]
  /\ exposed = {} /\ entered = {} /\ shut = {} /\ captured = {} /\ opened = {}
  /\ deleted = {}
  /\ pool = [k \in Keys |-> None]
  /\ firing = [f \in LogFirers |-> NotFiring]
  /\ failures = [d \in LogDevices |-> 0]

StartSyslogSubsystem ==
  /\ logSub = "off"
  /\ logSub' = "on"
  /\ UNCHANGED <<attach, hand, exporter, exposed, entered, shut, pool, opened,
                 captured, deleted, firing, failures>>

(***************************************************************************)
(* Attaching.                                                              *)
(***************************************************************************)
\* The manager's lock is DeleteDevice's.
DeleteHolds == \E d \in LogDevices \ deleted : attach[d] = "stop"

To(d, a) == attach' = [attach EXCEPT ![d] = a]

\* A worker creates the device; without a running subsystem it goes without
\* an exporter.
AttachBegin(d) ==
  /\ attach[d] = "no" /\ logSub \in {"off", "on"} /\ ~DeleteHolds
  /\ To(d, IF logSub = "on" THEN "begun" ELSE "refused")
  /\ UNCHANGED <<logSub, hand, exporter, exposed, entered, shut, pool, opened,
                 captured, deleted, firing, failures>>

\* The socket in the device's namespace; when that fails, the pool's.
AttachBind(d) ==
  /\ attach[d] = "begun"
  /\ \/ /\ opened' = opened \cup {<<"own", d>>}
        /\ exporter' = [exporter EXCEPT ![d].own = <<"own", d>>]
        /\ To(d, "expose")
     \/ To(d, "load") /\ UNCHANGED <<opened, exporter>>
  /\ UNCHANGED <<logSub, hand, exposed, entered, shut, pool, captured, firing,
                 failures, deleted>>

\* syslogConnFor: the socket of the pool, or a new one, or none at all.
ConnLoad(d) ==
  /\ attach[d] = "load"
  /\ IF pool[KeyOf[d]] # None
     THEN /\ exporter' = [exporter EXCEPT ![d].shared = pool[KeyOf[d]]]
          /\ To(d, "expose")
          /\ UNCHANGED <<hand, opened>>
     ELSE \/ /\ hand' = [hand EXCEPT ![d] = <<"pool", d>>]
             /\ opened' = opened \cup {<<"pool", d>>}
             /\ To(d, "store")
             /\ UNCHANGED exporter
          \/ To(d, "refused") /\ UNCHANGED <<hand, opened, exporter>>
  /\ UNCHANGED <<logSub, exposed, entered, shut, pool, captured, deleted, firing, failures>>

StoreKeeping(d, kept) ==
  /\ attach[d] = "store"
  /\ pool' = [pool EXCEPT ![KeyOf[d]] = kept]
  /\ opened' = IF kept = hand[d] THEN opened ELSE opened \ {hand[d]}
  /\ exporter' = [exporter EXCEPT ![d].shared = kept]
  /\ hand' = [hand EXCEPT ![d] = None]
  /\ To(d, "expose")
  /\ UNCHANGED <<logSub, exposed, entered, shut, captured, deleted, firing, failures>>

\* LoadOrStore: the first worker's socket stays, the others close theirs.
ConnStore(d) ==
  StoreKeeping(d, IF pool[KeyOf[d]] = None THEN hand[d] ELSE pool[KeyOf[d]])

AttachExpose(d) ==
  /\ attach[d] = "expose"
  /\ exposed' = exposed \cup {d}
  /\ To(d, "register")
  /\ UNCHANGED <<logSub, hand, exporter, entered, shut, pool, opened, captured,
                 firing, failures, deleted>>

AttachRegister(d) ==
  /\ attach[d] = "register"
  /\ entered' = entered \cup {d}
  /\ To(d, "up")
  /\ UNCHANGED <<logSub, hand, exporter, exposed, shut, pool, opened, captured,
                 firing, failures, deleted>>

Attach(d) == AttachBegin(d) \/ AttachBind(d) \/ ConnLoad(d) \/ ConnStore(d)
               \/ AttachExpose(d) \/ AttachRegister(d)

(***************************************************************************)
(* Firing.                                                                 *)
(***************************************************************************)
FirerAt(f, at, d) == firing' = [firing EXCEPT ![f] = [at |-> at, dev |-> d]]

\* FireSyslogOnDevice reads the device's field, the scheduler its own table;
\* neither holds a lock while it fires.
FireLoad(f, d) ==
  /\ firing[f] = NotFiring
  /\ IF f = TheScheduler THEN logSub \in {"on", "capture", "join"} /\ d \in entered
     ELSE /\ logSub \notin {"off", "done"}
          /\ d \in exposed \ deleted /\ attach[d] # "stop"
  /\ FirerAt(f, "fire", d)
  /\ UNCHANGED <<logSub, attach, hand, exporter, exposed, entered, shut, pool,
                 opened, captured, failures, deleted>>

\* A closing exporter is silent; the others resolve and encode.
FireCheck(f) ==
  /\ firing[f].at = "fire"
  /\ IF firing[f].dev \in shut THEN FirerAt(f, "idle", NoDevice)
     ELSE FirerAt(f, "send", firing[f].dev)
  /\ UNCHANGED <<logSub, attach, hand, exporter, exposed, entered, shut, pool,
                 opened, captured, failures, deleted>>

Writable(d) == exporter[d].own \in opened \/ exporter[d].shared \in opened

\* udpTransport.Send: the device's socket, then the shared one.
FireSend(f) ==
  /\ firing[f].at = "send"
  /\ IF Writable(firing[f].dev) THEN FirerAt(f, "idle", NoDevice)
     ELSE FirerAt(f, "failed", firing[f].dev)
  /\ UNCHANGED <<logSub, attach, hand, exporter, exposed, entered, shut, pool,
                 opened, captured, failures, deleted>>

\* A failed write counts unless the exporter was closed meanwhile.
FireFailed(f) ==
  /\ firing[f].at = "failed"
  /\ failures' = IF firing[f].dev \in shut THEN failures
                 ELSE [failures EXCEPT ![firing[f].dev] = 1]
  /\ FirerAt(f, "idle", NoDevice)
  /\ UNCHANGED <<logSub, attach, hand, exporter, exposed, entered, shut, pool,
                 opened, captured, deleted>>

Firing(f) == (\E d \in LogDevices : FireLoad(f, d)) \/ FireCheck(f) \/ FireSend(f) \/ FireFailed(f)

(***************************************************************************)
(* DeviceSimulator.Stop: persist, close, deregister, all under the lock of *)
(* the device.  Close sets closing before it closes the device's socket.   *)
(* DeleteDevice holds the manager's lock around it; DeleteAllDevices only  *)
(* takes the devices out of the map under that lock, and stops them after. *)
(***************************************************************************)
DeleteAllDevices ==
  /\ logSub # "capture" /\ ~DeleteHolds
  /\ deleted' = deleted \cup {d \in LogDevices : attach[d] = "up"}
  /\ deleted' # deleted
  /\ UNCHANGED <<logSub, attach, hand, exporter, exposed, entered, shut, pool,
                 opened, captured, firing, failures>>

StopBegin(d) ==
  /\ attach[d] = "up" /\ d \in exposed
  /\ d \in deleted \/ (logSub # "capture" /\ ~DeleteHolds)
  /\ shut' = shut \cup {d}
  /\ To(d, "stop")
  /\ UNCHANGED <<logSub, hand, exporter, exposed, entered, pool, opened, captured,
                 firing, failures, deleted>>

StopClosing(d, sockets) ==
  /\ attach[d] = "stop"
  /\ opened' = opened \ sockets
  /\ exporter' = [exporter EXCEPT ![d].own = None]
  /\ exposed' = exposed \ {d} /\ entered' = entered \ {d}
  /\ To(d, "stopped")
  /\ UNCHANGED <<logSub, hand, shut, pool, captured, deleted, firing, failures>>

StopClose(d) == StopClosing(d, {exporter[d].own})

(***************************************************************************)
(* StopSyslogExport.                                                       *)
(***************************************************************************)
ExportStop ==
  /\ logSub = "on"
  /\ \A d \in LogDevices : attach[d] \in {"no", "up", "stop", "stopped", "refused"}
  /\ ~DeleteHolds
  /\ logSub' = "capture"
  /\ UNCHANGED <<attach, hand, exporter, exposed, entered, shut, pool, opened,
                 captured, deleted, firing, failures>>

\* Under the manager's read lock it takes the exporters of the devices in the
\* map one by one.
ExportTake(d) ==
  /\ logSub = "capture" /\ d \in exposed \ deleted
  /\ exposed' = exposed \ {d}
  /\ captured' = captured \cup {d}
  /\ UNCHANGED <<logSub, attach, hand, exporter, entered, shut, pool, opened,
                 firing, failures, deleted>>

ExportTaken ==
  /\ logSub = "capture" /\ exposed \subseteq deleted
  /\ logSub' = "join"
  /\ UNCHANGED <<attach, hand, exporter, exposed, entered, shut, pool, opened,
                 captured, deleted, firing, failures>>

\* scheduler.Stop waits for Run to return.
ExportJoin ==
  /\ logSub = "join" /\ firing[TheScheduler] = NotFiring
  /\ logSub' = "close"
  /\ UNCHANGED <<attach, hand, exporter, exposed, entered, shut, pool, opened,
                 captured, deleted, firing, failures>>

ExportMark(d) ==
  /\ logSub = "close" /\ d \in captured \ shut
  /\ shut' = shut \cup {d}
  /\ UNCHANGED <<logSub, attach, hand, exporter, exposed, entered, pool, opened,
                 captured, deleted, firing, failures>>

ExportClose(d) ==
  /\ logSub = "close" /\ d \in captured \cap shut
  /\ opened' = opened \ {exporter[d].own}
  /\ exporter' = [exporter EXCEPT ![d].own = None]
  /\ captured' = captured \ {d}
  /\ UNCHANGED <<logSub, attach, hand, exposed, entered, shut, pool, firing,
                 failures, deleted>>

PoolCloses ==
  /\ logSub' = "pool"
  /\ opened' = opened \ {pool[k] : k \in Keys}
  /\ pool' = [k \in Keys |-> None]
  /\ UNCHANGED <<attach, hand, exporter, exposed, entered, shut, captured,
                 firing, failures, deleted>>

ExportPool == logSub = "close" /\ captured = {} /\ PoolCloses

ExportReset ==
  /\ logSub = "pool" /\ ~DeleteHolds
  /\ logSub' = "done" /\ entered' = {}
  /\ UNCHANGED <<attach, hand, exporter, exposed, shut, pool, opened, captured,
                 firing, failures, deleted>>

Export == ExportStop \/ ExportTaken \/ ExportJoin \/ ExportPool \/ ExportReset
            \/ \E d \in LogDevices : ExportTake(d) \/ ExportMark(d) \/ ExportClose(d)

LogNext ==
  \/ StartSyslogSubsystem \/ Export \/ DeleteAllDevices
  \/ \E d \in LogDevices : Attach(d) \/ StopBegin(d) \/ StopClose(d)
  \/ \E f \in LogFirers : Firing(f)

LogSpec == LogInit /\ [][LogNext]_logVars

(***************************************************************************)
(* Properties.                                                             *)
(***************************************************************************)
\* However many workers ask for the socket of one collector and format at
\* once, one stays open: any other is still in the hands of the worker that
\* opened it (syslogConnFor).
OneSocketPerKey ==
  \A d \in LogDevices :
    <<"pool", d>> \in opened => <<"pool", d>> \in {hand[d], pool[KeyOf[d]]}

\* An exporter the fleet can fire has a socket to write on, until it is
\* closed: no other device's attach or stop takes it away.
ExposedIsWritable == \A d \in exposed \ deleted : d \notin shut => Writable(d)

\* No failure is charged for a shutdown: as long as the network takes every
\* write, the failure counters stay at zero however fires, device stops and
\* StopSyslogExport interleave (SyslogExporter.fireWithCtx).  Not so for a
\* device that DeleteAllDevices has taken from the map but not yet stopped,
\* which StopSyslogExport does not see when it closes the pool.
NoFailureForShutdown == \A d \in LogDevices \ deleted : failures[d] = 0

\* StopSyslogExport leaves no socket and no exporter behind, but for those a
\* DeleteAllDevices under way is about to close.
StopLeavesNothing ==
  logSub = "done" =>
    /\ exposed \subseteq deleted /\ captured = {}
    /\ \A s \in opened : \E d \in exposed : s = exporter[d].own

\* One connection per stream and one socket per collector, frames that never mix,
\* and nothing left behind by Close and StopSyslogExport (syslog_transport_tcp.go,
\* syslog_manager.go, syslog_exporter.go).
SyslogKept ==
  /\ StreamTypeOK /\ LogTypeOK /\ OneConnection /\ LiveIsPublished
  /\ TornIsDropped /\ ClosedIsQuiet /\ FramesDoNotInterleave
  /\ OneSocketPerKey /\ ExposedIsWritable /\ NoFailureForShutdown
  /\ StopLeavesNothing
=============================================================================
