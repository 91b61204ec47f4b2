------------------------------ MODULE TrapFleet ------------------------------
(***************************************************************************)
(* The devices around the trap scheduler: creation attaches an exporter,   *)
(* registers it, starts the device and publishes it (device.go);           *)
(* DeleteDevice stops a device under the manager's lock, DeleteAllDevices  *)
(* empties the maps first and stops the devices after it has released the  *)
(* lock (manager.go); StopTrapExport drains the scheduler and closes the   *)
(* exporters, and GetTrapStatus adds the live counters to those of deleted *)
(* devices (trap_manager.go).                                              *)
(*                                                                         *)
(* StopTrapExport is documented as unsafe against a concurrent attach, so  *)
(* no creation overlaps it here.  A frozen fleet refuses deletions; that   *)
(* is ScenarioLifecycle's subject, and here a refused deletion is one that *)
(* does not happen.                                                        *)
(***************************************************************************)
EXTENDS TrapScheduler

CONSTANT MaxReads   \* bound on the reads of the status page

ASSUME ReadAssumption == MaxReads \in Nat

VARIABLES
  life,         \* where each incarnation is in its life
  mapped,       \* incarnation of each address in sm.devices, 0 if none
  attached,     \* incarnations whose trapExporter field is set
  deleter,      \* incarnation DeleteDevice is stopping, sm.mu held
  wiper,        \* incarnation DeleteAllDevices is stopping
  booked,       \* counts persisted for each exporter (countersPersisted)
  persisted,    \* exporters whose once has run
  exit,         \* where StopTrapExport is
  exitSet,      \* its snapshot of the devices
  exitOne,      \* the exporter it is closing
  reading,      \* GetTrapStatus has read the live exporters
  acc,          \* what it has read of each exporter
  shown,        \* what the total it last returned holds of each exporter
  reads         \* reads so far (bound)

devvars == <<life, mapped, attached>>
delvars == <<deleter, wiper>>
bookvars == <<booked, persisted>>
exitvars == <<exit, exitSet, exitOne>>
readvars == <<reading, acc, shown, reads>>
fleetvars == <<devvars, delvars, bookvars, exitvars, readvars>>
vars == <<schedvars, fleetvars>>

Lives == {"none", "registered", "refused", "unmade", "up", "live", "doomed",
          "stopping", "deaf", "booked", "closed", "gone", "wiped"}
\* A device's own listeners are bound from Start until Stop closes them.
Listening == {"up", "live", "doomed", "stopping"}
\* device.Stop holds the device's lock.
InStop == {"refused", "unmade", "stopping", "deaf", "booked", "closed"}
Creating == {"registered", "refused", "unmade", "up"}

FleetTypeOK ==
  /\ SchedTypeOK
  /\ life \in [Exporters -> Lives]
  /\ mapped \in [Devices -> Nat]
  /\ attached \subseteq Exporters /\ persisted \subseteq Exporters
  /\ deleter \in Exporters \cup {None} /\ wiper \in Exporters \cup {None}
  /\ booked \in [Exporters -> Nat]
  /\ exit \in {"idle", "snapped", "signalled", "drained", "taken", "shut", "done"}
  /\ exitSet \subseteq Exporters /\ exitOne \in Exporters \cup {None}
  /\ reading \in BOOLEAN /\ reads \in Nat
  /\ acc \in [Exporters -> Nat] /\ shown \in [Exporters -> Nat]

NoCounts == [e \in Exporters |-> 0]

FleetInit ==
  /\ SchedInit
  /\ life = [e \in Exporters |-> "none"]
  /\ mapped = [d \in Devices |-> 0] /\ attached = {}
  /\ deleter = None /\ wiper = None
  /\ booked = NoCounts /\ persisted = {}
  /\ exit = "idle" /\ exitSet = {} /\ exitOne = None
  /\ reading = FALSE /\ acc = NoCounts /\ shown = NoCounts /\ reads = 0

SmFree == deleter = None
Live == {e \in Exporters : mapped[e[1]] = e[2]}
Becomes(e, l) == life' = [life EXCEPT ![e] = l]

-----------------------------------------------------------------------------
(* Creation.  Batches are serialised, so an address is created once at a   *)
(* time; an address that is in the maps is skipped.                        *)

DeviceAttach(e) ==
  /\ SmFree /\ exit = "idle" /\ mapped[e[1]] = 0
  /\ life[e] = "none"
  /\ \A f \in Exporters : f[1] = e[1] /\ f # e =>
       /\ life[f] \notin Creating
       /\ (f[2] < e[2] <=> life[f] # "none")
  /\ Register(e[1], e)
  /\ attached' = attached \cup {e} /\ Becomes(e, "registered")
  /\ UNCHANGED <<now, stopCh, runvars, poolvars, closing, mapped, delvars, bookvars, exitvars, readvars>>

\* Start binds the device's listeners and fails while an earlier incarnation
\* still holds the address; its creation then stops the half-made device.
DeviceStart(e) ==
  /\ life[e] = "registered"
  /\ Becomes(e, IF \E f \in Exporters : f[1] = e[1] /\ f # e /\ life[f] \in Listening
                THEN "refused" ELSE "up")
  /\ UNCHANGED <<schedvars, mapped, attached, delvars, bookvars, exitvars, readvars>>

DevicePublish(e) ==
  /\ SmFree /\ life[e] = "up"
  /\ mapped' = [mapped EXCEPT ![e[1]] = e[2]] /\ Becomes(e, "live")
  /\ UNCHANGED <<schedvars, attached, delvars, bookvars, exitvars, readvars>>

Creation == \E e \in Exporters : DeviceAttach(e) \/ DeviceStart(e) \/ DevicePublish(e)

-----------------------------------------------------------------------------
(* Deletion *)

DeleteDevice(e) ==
  /\ SmFree /\ e \in Live
  /\ deleter' = e /\ Becomes(e, "stopping")
  /\ UNCHANGED <<schedvars, mapped, attached, wiper, bookvars, exitvars, readvars>>

\* The maps are emptied under the lock; the teardown follows without it.
\* One call at a time is modelled: a second one finds the maps empty, or
\* deletes devices the first has never seen.
DeleteAllDevices ==
  /\ SmFree /\ wiper = None /\ Live # {}
  /\ \A e \in Exporters : life[e] # "doomed"
  /\ life' = [e \in Exporters |-> IF e \in Live THEN "doomed" ELSE life[e]]
  /\ mapped' = [d \in Devices |-> 0]
  /\ UNCHANGED <<schedvars, attached, delvars, bookvars, exitvars, readvars>>

\* DeleteAllDevices stops the devices of its snapshot one after the other.
WipeNext(e) ==
  /\ wiper = None /\ life[e] = "doomed"
  /\ wiper' = e /\ Becomes(e, "stopping")
  /\ UNCHANGED <<schedvars, mapped, attached, deleter, bookvars, exitvars, readvars>>

\* Stop closes the listeners first.  If StopTrapExport has taken the
\* exporter there is nothing more to do for traps.
StopListeners(e) ==
  /\ life[e] = "stopping"
  /\ Becomes(e, "deaf")
  /\ UNCHANGED <<schedvars, mapped, attached, delvars, bookvars, exitvars, readvars>>

\* persistTrapCounters, once for each exporter.
Persist(e) ==
  /\ booked' = [booked EXCEPT ![e] = IF e \in persisted THEN @ ELSE sent[e]]
  /\ persisted' = persisted \cup {e}

StopPersists(e) ==
  /\ life[e] = "deaf" /\ e \in attached
  /\ Persist(e) /\ Becomes(e, "booked")
  /\ UNCHANGED <<schedvars, mapped, attached, delvars, exitvars, readvars>>

\* A device whose Start failed persists nothing.
StopCloses(e) ==
  /\ life[e] \in {"booked", "refused"}
  /\ closing' = closing \cup {e}
  /\ Becomes(e, IF life[e] = "refused" THEN "unmade" ELSE "closed")
  /\ UNCHANGED <<now, heapvars, wake, stopCh, runvars, poolvars, mapped, attached,
                 delvars, bookvars, exitvars, readvars>>

\* The rest of Stop and of its caller: the maps, the lock.
StopReturns(e) ==
  /\ Becomes(e, IF e = wiper THEN "wiped" ELSE "gone")
  /\ attached' = attached \ {e}
  /\ mapped' = IF e = deleter THEN [mapped EXCEPT ![e[1]] = 0] ELSE mapped
  /\ deleter' = (IF e = deleter THEN None ELSE deleter)
  /\ wiper' = (IF e = wiper THEN None ELSE wiper)
  /\ UNCHANGED <<bookvars, exitvars, readvars>>

\* A slip in device.Stop: the scheduler keeps the exporter.
StopKeepsFirer(e) ==
  /\ life[e] \in {"closed", "unmade"}
  /\ UNCHANGED <<heapvars, wake>> /\ StopReturns(e)
  /\ UNCHANGED <<now, stopCh, runvars, poolvars, closing>>

\* Deregister names the address, not the exporter.  StopTrapExport has put
\* the scheduler away when it is done.
StopDeregisters(e) ==
  /\ life[e] \in {"closed", "unmade"}
  /\ IF exit = "done" THEN UNCHANGED <<heapvars, wake>> ELSE Deregister(e[1])
  /\ StopReturns(e)
  /\ UNCHANGED <<now, stopCh, runvars, poolvars, closing>>

StopDetached(e) ==
  /\ life[e] = "deaf" /\ e \notin attached
  /\ StopReturns(e) /\ UNCHANGED schedvars

Teardown(e) == StopListeners(e) \/ StopPersists(e) \/ StopCloses(e)
                 \/ StopDeregisters(e) \/ StopDetached(e)
Deletion == DeleteAllDevices \/ \E e \in Exporters : DeleteDevice(e) \/ WipeNext(e)

-----------------------------------------------------------------------------
(* StopTrapExport *)

ExitSnapshot ==
  /\ exit = "idle" /\ SmFree
  /\ \A e \in Exporters : life[e] \notin Creating
  /\ exit' = "snapped" /\ exitSet' = Live \cap attached
  /\ UNCHANGED <<schedvars, devvars, delvars, bookvars, exitOne, readvars>>

\* Stop closes stopCh ...
ExitSignal ==
  /\ exit = "snapped"
  /\ stopCh' = TRUE /\ exit' = "signalled"
  /\ UNCHANGED <<now, heapvars, wake, runvars, poolvars, closing,
                 devvars, delvars, bookvars, exitSet, exitOne, readvars>>

\* A slip in Stop: it does not wait for a scheduler that runs.
ExitUnwaited ==
  /\ exit = "signalled"
  /\ exit' = "drained"
  /\ UNCHANGED <<schedvars, devvars, delvars, bookvars, exitSet, exitOne, readvars>>

\* ... and waits for runDone if Run was entered.
ExitDrained ==
  /\ exit = "signalled" /\ (started => runDone)
  /\ exit' = "drained"
  /\ UNCHANGED <<schedvars, devvars, delvars, bookvars, exitSet, exitOne, readvars>>

\* The device's lock keeps a concurrent device.Stop out.
ExitTake(e) ==
  /\ exit = "drained" /\ e \in exitSet /\ life[e] \notin InStop
  /\ exitSet' = exitSet \ {e} /\ attached' = attached \ {e}
  /\ IF e \in attached THEN exit' = "taken" /\ exitOne' = e ELSE UNCHANGED <<exit, exitOne>>
  /\ UNCHANGED <<schedvars, life, mapped, delvars, bookvars, readvars>>

ExitClose ==
  /\ exit = "taken"
  /\ closing' = closing \cup {exitOne} /\ exit' = "shut"
  /\ UNCHANGED <<now, heapvars, wake, stopCh, runvars, poolvars,
                 devvars, delvars, bookvars, exitSet, exitOne, readvars>>

ExitPersist ==
  /\ exit = "shut"
  /\ Persist(exitOne) /\ exit' = "drained" /\ exitOne' = None
  /\ UNCHANGED <<schedvars, devvars, delvars, exitSet, readvars>>

\* The pool of sockets is closed and the subsystem's fields, the aggregates
\* among them, are cleared.
ExitDone ==
  /\ exit = "drained" /\ exitSet = {} /\ SmFree
  /\ exit' = "done" /\ booked' = NoCounts
  /\ UNCHANGED <<schedvars, devvars, delvars, persisted, exitSet, exitOne, readvars>>

Exit == ExitSnapshot \/ ExitSignal \/ ExitDrained \/ (\E e \in Exporters : ExitTake(e))
          \/ ExitClose \/ ExitPersist \/ ExitDone

-----------------------------------------------------------------------------
(* GetTrapStatus: the live exporters under the read lock, then the          *)
(* aggregates without it.  Reads end with the subsystem.                   *)

CountsOf(f, S) == [e \in Exporters |-> IF e \in S THEN f[e] ELSE 0]

StatusLive ==
  /\ SmFree /\ ~reading /\ exit # "done" /\ reads < MaxReads
  /\ reads' = reads + 1
  /\ reading' = TRUE /\ acc' = CountsOf(sent, Live \cap attached)
  /\ UNCHANGED <<schedvars, devvars, delvars, bookvars, exitvars, shown>>

StatusFold ==
  /\ reading /\ exit # "done"
  /\ reading' = FALSE /\ acc' = NoCounts
  /\ shown' = [e \in Exporters |-> acc[e] + CountsOf(booked, persisted)[e]]
  /\ UNCHANGED <<reads, schedvars, devvars, delvars, bookvars, exitvars>>

Status == StatusLive \/ StatusFold

-----------------------------------------------------------------------------

\* The catalog lookup of Run takes the manager's read lock.
Schedule == Run /\ (pc = "pick" => SmFree)
SchedStep == Schedule \/ ClockTick \/ \E w \in Workers : Emit(w)

\* The process exits.
Terminated == exit = "done" /\ pc = "done" /\ UNCHANGED vars

FleetNext ==
  \/ SchedStep /\ UNCHANGED fleetvars
  \/ Creation \/ Deletion \/ (\E e \in Exporters : Teardown(e))
  \/ Exit \/ Status \/ Terminated

FleetSpec == FleetInit /\ [][FleetNext]_vars

-----------------------------------------------------------------------------
(* Properties *)

\* A device that has been torn down is out of the scheduler: until the
\* scheduler itself is stopped, no exporter of a finished device.Stop is
\* scheduled, whichever incarnation of its address came or went meanwhile
\* (device.go).
NoGhost ==
  ~stopCh => \A d \in Devices :
    firer[d] # None => life[firer[d]] \notin {"gone", "wiped"}

\* Once Stop has returned to StopTrapExport, no fire is in flight, whether
\* Run had started or not (trap_scheduler.go, #408).
QuietAfterStop ==
  exit \in {"drained", "taken", "shut", "done"} =>
    /\ jobs = <<>> /\ \A w \in Workers : busy[w] = None
    /\ pc \in {"off", "top", "drain", "done"}

\* What StopTrapExport persists is final: the queued tail was counted first
\* (trap_manager.go).
ShutdownCountsAll ==
  exit = "drained" =>
    \A e \in persisted : life[e] = "live" => booked[e] = sent[e]

Scheduled(e) == firer[e[1]] = e /\ e[1] \in Queued

\* Deleting one device at a time never costs a published device its
\* schedule; only a device of an address DeleteAllDevices was still tearing
\* down can lose it.
PublishedIsScheduled ==
  \A e \in Live : life[e] = "live" /\ e \in attached =>
    \/ Scheduled(e)
    \/ \E f \in Exporters : f[1] = e[1] /\ f[2] < e[2] /\ life[f] = "wiped"

\* Every published device stays in the scheduler until it is deleted: its
\* traps follow a Poisson process (docs/ops/snmp-traps.md).
EveryDeviceFires ==
  \A e \in Live : life[e] = "live" /\ e \in attached => Scheduled(e)

\* No torn-down exporter is scheduled, and no fire is in flight once Stop has
\* returned to StopTrapExport (device.go, trap_manager.go, trap_scheduler.go).
FleetQuiet ==
  /\ FleetTypeOK /\ NoGhost /\ QuietAfterStop

\* What shutdown persists is final, and deleting devices one at a time costs no
\* published device its schedule (StopTrapExport, DeleteDevice).
FleetCounted ==
  /\ ShutdownCountsAll /\ PublishedIsScheduled
=============================================================================
