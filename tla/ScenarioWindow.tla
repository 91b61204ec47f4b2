---------------------------- MODULE ScenarioWindow ----------------------------
(***************************************************************************)
(* One participant of a syslog scenario from arm to report: the fires that *)
(* race through the gate (scenario_gate.go, fireWithSourceLabelled), the   *)
(* drain barrier (DrainGate), the ledger (scenario_ledger.go) and the      *)
(* finish of the controller, which stops, joins, drains, detaches and      *)
(* snapshots.  Every atomic load or add of the code that another goroutine *)
(* can fall between is a step.                                             *)
(*                                                                         *)
(* A fire is a goroutine; Source says on whose behalf it runs.  No fairness*)
(* is assumed of a fire: a write may park in the kernel for ever.          *)
(***************************************************************************)
EXTENDS DrainGate, Sequences

CONSTANTS
  Source,       \* [Fires -> {"scenario", "onDemand", "background"}]
  Window,       \* the length of the window, in clock ticks
  MaxTime,      \* bound on the clock
  MaxFires      \* bound on the fires started

ASSUME WindowAssumption == Window \in Nat /\ MaxTime \in Nat /\ MaxFires \in Nat
ASSUME SourceAssumption ==
         Source \in [Fires -> {"scenario", "onDemand", "background"}]

\* The counters of ledgerEntry; subs is the sum of subWindows.
Counters == {"subs", "emitted", "inWindow", "drain", "suppressed", "sendFailures",
             "dropped", "requested", "deferred"}

\* The order in which snapshot() loads them.
SnapOrder == <<"subs", "emitted", "inWindow", "drain", "suppressed", "sendFailures",
               "dropped", "requested", "deferred">>

VARIABLES
  now,          \* the clock
  t1,           \* gateState.t1, the planned end of the window
  gate,         \* gateState.phase; "none" before the gate is published
  slot,         \* the exporter's scenPart: "none", "own" or the "next" scenario's
  closing,      \* SyslogExporter.closing
  stopped,      \* the scenario scheduler has been told to stop
  joined,       \* its join completed (incompleteJoins is empty)
  fin,          \* where finishLabelled is
  fpc,          \* where each fire is
  ft,           \* the fire-decision timestamp of each fire
  led,          \* the participant's ledgerEntry
  snap,         \* the ledgerSnapshot, as far as it has been read
  read,         \* how many counters snapshot() has loaded
  started,      \* fires started so far (bound)
  wire,         \* history: datagrams sent under this scenario's handle
  late,         \* history: fires whose write returned at or after T1, not yet in drain
  foreign       \* history: its scheduler's fires taken by the next scenario

wvars == <<now, t1, gate, slot, closing, stopped, joined, fin, fpc, ft, led, snap,
           read, started, wire, late, foreign>>
vars == <<gvars, wvars>>

Steps == {"idle", "popped", "asked", "loaded", "stamped", "suppress", "suppressed",
          "passed", "refused", "dropped", "admitted", "sending", "wrote", "inWindow",
          "drain", "out", "left", "legacy"}

FinSteps == {"idle", "begun", "signalled", "joined", "draining", "drained", "detached",
             "done"}

WTypeOK == /\ GateTypeOK
           /\ now \in 0..MaxTime
           /\ t1 \in 0..MaxTime + Window
           /\ gate \in {"none", "armed", "running", "stopped"}
           /\ slot \in {"none", "own", "next"}
           /\ {closing, stopped, joined} \subseteq BOOLEAN
           /\ fin \in FinSteps
           /\ fpc \in [Fires -> Steps]
           /\ ft \in [Fires -> 0..MaxTime]
           /\ led \in [Counters -> Nat]
           /\ snap \in [Counters -> Nat]
           /\ read \in 0..Len(SnapOrder)
           /\ started \in 0..MaxFires
           /\ {wire, foreign} \subseteq Nat /\ late \subseteq Fires

Zero == [c \in Counters |-> 0]

WInit == /\ GateInit
         /\ now = 0 /\ t1 = 0
         /\ gate = "none" /\ slot = "none"
         /\ closing = FALSE /\ stopped = FALSE /\ joined = FALSE
         /\ fin = "idle"
         /\ fpc = [f \in Fires |-> "idle"]
         /\ ft = [f \in Fires |-> 0]
         /\ led = Zero /\ snap = Zero /\ read = 0
         /\ started = 0 /\ wire = 0 /\ late = {} /\ foreign = 0
-------------------------------------------------------------------------------
(* Fires. *)

Move(f, from, to) == fpc[f] = from /\ fpc' = [fpc EXCEPT ![f] = to]

Count(c) == led' = [led EXCEPT ![c] = @ + 1]

\* What a step of a fire leaves to the rest of the system.
Rest == UNCHANGED <<now, t1, gate, slot, closing, stopped, joined, fin, snap, read>>
Ghosts == UNCHANGED <<wire, late, foreign>>

\* The scheduler's run loop pops a due entry; it runs from Start until it sees
\* the stop, and fires inline.
Pop(f) == /\ Source[f] = "scenario"
          /\ gate # "none" /\ gate # "armed"
          /\ ~stopped
          /\ started < MaxFires /\ started' = started + 1
          /\ Move(f, "idle", "popped")
          /\ Rest /\ Ghosts /\ UNCHANGED <<gvars, ft, led>>

\* CountScenarioRequested: its own load of the handle.
Request(f) == /\ Move(f, "popped", "asked")
              /\ IF slot = "own" THEN Count("requested") ELSE UNCHANGED led
              /\ Rest /\ Ghosts /\ UNCHANGED <<gvars, ft, started>>

\* The shared limiter has no token: CountScenarioDeferred, and no fire.
Defer(f) == /\ Move(f, "asked", "idle")
            /\ IF slot = "own" THEN Count("deferred") ELSE UNCHANGED led
            /\ Rest /\ Ghosts /\ UNCHANGED <<gvars, ft, started>>

\* fireWithSource of the scenario's scheduler: the one load of the handle the
\* fire uses.  With no handle a scenario fire is silent; with the handle of the
\* next scenario to claim the device it goes out on that one's account.
LoadScenario(f) == /\ fpc[f] = "asked"
                   /\ fpc' = [fpc EXCEPT ![f] =
                                IF slot = "own" /\ ~closing THEN "loaded" ELSE "idle"]
                   /\ foreign' = IF slot = "next" /\ ~closing THEN foreign + 1
                                                              ELSE foreign
                   /\ Rest /\ UNCHANGED <<gvars, ft, led, started, wire, late>>

\* An on-demand, state-driven or background fire starts: without a handle it
\* takes the legacy path, which no ledger counts, unless fidelity mode mutes it.
LoadOther(f) == /\ Source[f] # "scenario"
                /\ ~closing
                /\ slot # "next"
                /\ started < MaxFires /\ started' = started + 1
                /\ \/ slot = "own" /\ Move(f, "idle", "loaded")
                   \/ slot = "none" /\ Move(f, "idle", "legacy")
                   \/ slot = "none" /\ Source[f] = "background" /\ Move(f, "idle", "idle")
                /\ Rest /\ Ghosts /\ UNCHANGED <<gvars, ft, led>>

\* fireWithCtx with a nil handle.
LegacyWrite(f) == /\ Move(f, "legacy", "idle")
                  /\ Rest /\ Ghosts /\ UNCHANGED <<gvars, ft, led, started>>

\* fireTime := p.now().
Stamp(f) == /\ Move(f, "loaded", "stamped")
            /\ ft' = [ft EXCEPT ![f] = now]
            /\ Rest /\ Ghosts /\ UNCHANGED <<gvars, led, started>>

\* decide(): background fires are silent in every phase; before T0 an exogenous
\* fire is counted but not sent; in the window a fire must start before T1.
Decision(f) == IF Source[f] = "background" THEN "idle"
               ELSE IF gate = "armed" /\ Source[f] = "onDemand" THEN "suppress"
               ELSE IF gate = "running" /\ ft[f] < t1 THEN "passed"
               ELSE "idle"

Decide(f) == /\ Move(f, "stamped", Decision(f))
             /\ Rest /\ Ghosts /\ UNCHANGED <<gvars, ft, led, started>>

\* gateSuppressCounted, and an admission refused by a closed barrier: emitted is
\* counted, then the bucket, both outside the barrier.
Suppress(f) == /\ \/ Move(f, "suppress", "suppressed") /\ Count("emitted")
                  \/ Move(f, "suppressed", "idle") /\ Count("suppressed")
               /\ Rest /\ Ghosts /\ UNCHANGED <<gvars, ft, started>>

Refuse(f) == /\ \/ Move(f, "passed", "refused") /\ closed /\ UNCHANGED led
                \/ Move(f, "refused", "dropped") /\ Count("emitted")
                \/ Move(f, "dropped", "idle") /\ Count("dropped")
             /\ Rest /\ Ghosts /\ UNCHANGED <<gvars, ft, started>>

\* A slip around admit(): the barrier's closed flag is not consulted.
EnterUnchecked(f) == /\ Move(f, "passed", "admitted")
                     /\ AdmitUnchecked(f)
                     /\ Rest /\ Ghosts /\ UNCHANGED <<ft, led, started>>

\* admit() lets the fire in.
Enter(f) == /\ Move(f, "passed", "admitted")
            /\ Admit(f)
            /\ Rest /\ Ghosts /\ UNCHANGED <<ft, led, started>>

CountEmitted(f) == /\ Move(f, "admitted", "sending")
                   /\ Count("emitted")
                   /\ Rest /\ Ghosts /\ UNCHANGED <<gvars, ft, started>>

\* A slip in the error path: a write lost to the shutdown is not counted at all.
FailUncounted(f) == /\ Move(f, "sending", "out")
                    /\ IF closing THEN UNCHANGED led ELSE Count("sendFailures")
                    /\ Rest /\ Ghosts /\ UNCHANGED <<gvars, ft, started>>

\* fireWithCtx, resolve, encode or write failed: a write that fails on a closing
\* exporter is dropped, every other failure a send failure.
Fail(f) == /\ Move(f, "sending", "out")
           /\ \/ Count("sendFailures")
              \/ closing /\ Count("dropped")
           /\ Rest /\ Ghosts /\ UNCHANGED <<gvars, ft, started>>

\* transport.Send returned nil: the datagram is on the wire.
Write(f) == /\ Move(f, "sending", "wrote")
            /\ wire' = wire + 1
            /\ late' = IF now >= t1 THEN late \cup {f} ELSE late
            /\ Rest /\ UNCHANGED <<gvars, ft, led, started, foreign>>

\* p.bucketFor(p.now()): the clock is read some time after the write returned.
BucketTime(f) == now

\* bucketFor: an in-window send first adds to its sub-window.
Classify(f) == /\ \/ /\ BucketTime(f) < t1
                     /\ Move(f, "wrote", "inWindow")
                     /\ Count("subs")
                     /\ UNCHANGED late
                  \/ /\ BucketTime(f) >= t1
                     /\ Move(f, "wrote", "drain")
                     /\ late' = late \ {f}
                     /\ UNCHANGED led
               /\ Rest /\ UNCHANGED <<gvars, ft, started, wire, foreign>>

\* A slip in the caller of bucketFor: the counter it returned is not added to.
BucketSkip(f) == /\ \/ Move(f, "inWindow", "out") /\ UNCHANGED led
                    \/ Move(f, "drain", "out") /\ Count("drain")
                 /\ Rest /\ Ghosts /\ UNCHANGED <<gvars, ft, started>>

\* .Add(1) on the counter bucketFor returned.
Bucket(f) == /\ \/ Move(f, "inWindow", "out") /\ Count("inWindow")
                \/ Move(f, "drain", "out") /\ Count("drain")
             /\ Rest /\ Ghosts /\ UNCHANGED <<gvars, ft, started>>

\* A slip in leave(): it returns between its two halves.
LeaveUncounted(f) == /\ Move(f, "out", "idle")
                     /\ f \in wg /\ wg' = wg \ {f}
                     /\ UNCHANGED <<closed, leaving, inflight, wpc, expired, drained, stragglers>>
                     /\ Rest /\ Ghosts /\ UNCHANGED <<ft, led, started>>

\* defer p.drain.leave().
Leave(f) == /\ \/ Move(f, "out", "left") /\ LeaveDone(f)
               \/ Move(f, "left", "idle") /\ LeaveCount(f)
            /\ Rest /\ Ghosts /\ UNCHANGED <<ft, led, started>>

Fire(f) == \/ Pop(f) \/ Request(f) \/ Defer(f) \/ LoadScenario(f) \/ LoadOther(f)
           \/ LegacyWrite(f) \/ Stamp(f) \/ Decide(f) \/ Suppress(f) \/ Refuse(f)
           \/ Enter(f) \/ CountEmitted(f) \/ Fail(f) \/ Write(f) \/ Classify(f)
           \/ Bucket(f) \/ Leave(f)
-------------------------------------------------------------------------------
(* The controller. *)

\* What a step of the controller leaves to the fires.
Sends == UNCHANGED <<closing, fpc, ft, led, started, wire, late, foreign>>

\* ArmReadiness: the armed gate is published and the handle installed.
ArmWindow == /\ gate = "none"
             /\ gate' = "armed"
             /\ slot' = "own"
             /\ Sends /\ UNCHANGED <<gvars, now, t1, stopped, joined, fin, snap, read>>

\* startLockedLabelled: the running gate carries [T0, T1).
StartWindow == /\ gate = "armed"
               /\ gate' = "running"
               /\ t1' = now + Window
               /\ Sends /\ UNCHANGED <<gvars, now, slot, stopped, joined, fin, snap, read>>

\* finishLabelled, at T1 by the auto-stop timer or earlier by stop or abort: the
\* terminal gate first.
FinishBegin == /\ gate = "running"
               /\ gate' = "stopped"
               /\ fin' = "begun"
               /\ Sends /\ UNCHANGED <<gvars, now, t1, slot, stopped, joined, snap, read>>

\* schedStop() and StopAsync().
SignalScheduler == /\ fin = "begun"
                   /\ fin' = "signalled"
                   /\ stopped' = TRUE
                   /\ Sends /\ UNCHANGED <<gvars, now, t1, gate, slot, joined, snap, read>>

\* runDone is closed: the run loop has left its last inline fire.
SchedulerExited == \A f \in Fires : Source[f] = "scenario" => fpc[f] = "idle"

\* joinWithin reports completion only when runDone is closed, a give-up only
\* after the deadline.
JoinVerdict(ok) == IF ok THEN SchedulerExited ELSE expired

\* A slip in the join: a bare receive of runDone.
JoinUnbounded == /\ fin = "signalled"
                 /\ JoinVerdict(TRUE)
                 /\ joined' = TRUE
                 /\ fin' = "joined"
                 /\ Sends /\ UNCHANGED <<gvars, now, t1, gate, slot, stopped, snap, read>>

Join == /\ fin = "signalled"
        /\ \E ok \in BOOLEAN : JoinVerdict(ok) /\ joined' = ok
        /\ fin' = "joined"
        /\ Sends /\ UNCHANGED <<gvars, now, t1, gate, slot, stopped, snap, read>>

\* closeAndWaitUntil, called and returned.
CloseBarrier == /\ fin = "joined"
                /\ fin' = "draining"
                /\ Close
                /\ Sends /\ UNCHANGED <<now, t1, gate, slot, stopped, joined, snap, read>>

BarrierReturned == /\ fin = "draining"
                   /\ wpc = "returned"
                   /\ fin' = "drained"
                   /\ Sends
                   /\ UNCHANGED <<gvars, now, t1, gate, slot, stopped, joined, snap, read>>

\* detachScenPart: the nil-swap of the handle.
Detach == /\ fin = "drained"
          /\ fin' = "detached"
          /\ slot' = "none"
          /\ Sends /\ UNCHANGED <<gvars, now, t1, gate, stopped, joined, snap, read>>

\* ledgerEntry.snapshot: one load after another; the report follows the last.
Snapshot == /\ fin = "detached"
            /\ LET c == SnapOrder[read + 1] IN snap' = [snap EXCEPT ![c] = led[c]]
            /\ read' = read + 1
            /\ fin' = IF read' = Len(SnapOrder) THEN "done" ELSE fin
            /\ Sends /\ UNCHANGED <<gvars, now, t1, gate, slot, stopped, joined>>
-------------------------------------------------------------------------------
(* The environment. *)

\* The clock; the finalize deadline counts from FinishBegin.
Tick == /\ now < MaxTime
        /\ now' = now + 1
        /\ Sends
        /\ UNCHANGED <<gvars, t1, gate, slot, stopped, joined, fin, snap, read>>

Deadline == /\ fin # "idle"
            /\ Expire
            /\ UNCHANGED wvars

\* The barrier's own goroutines.
Barrier == (WaiterDone \/ ReturnDrained \/ CeilingFires \/ CeilingSelect) /\ UNCHANGED wvars

\* SyslogExporter.Close, at shutdown.
CloseExporter == /\ ~closing
                 /\ closing' = TRUE
                 /\ UNCHANGED <<gvars, now, t1, gate, slot, stopped, joined, fin, fpc, ft, led,
                                snap, read, started, wire, late, foreign>>

\* Another scenario arms on the device this one has released.
NextClaims == /\ gate = "stopped"
              /\ slot = "none"
              /\ slot' = "next"
              /\ Sends /\ UNCHANGED <<gvars, now, t1, gate, stopped, joined, fin, snap, read>>

Finish == SignalScheduler \/ Join \/ CloseBarrier \/ BarrierReturned \/ Detach \/ Snapshot

WNext == \/ \E f \in Fires : Fire(f)
         \/ ArmWindow \/ StartWindow \/ FinishBegin
         \/ Finish
         \/ Tick \/ Deadline \/ Barrier \/ CloseExporter \/ NextClaims

\* finishLabelled is one goroutine and its timers fire; of the fires nothing is
\* assumed.
WFairness == /\ WF_vars(Finish)
             /\ WF_vars(Deadline)
             /\ WF_vars(Barrier)

WSpec == WInit /\ [][WNext]_vars /\ WFairness
-------------------------------------------------------------------------------
(* Properties. *)

Accounted(c) == c["inWindow"] + c["drain"] + c["sendFailures"] + c["dropped"]
                  + c["suppressed"]

\* The report was taken after a barrier that drained.
CleanReport == fin = "done" /\ stragglers = 0

\* The fires at one of the steps P.
At(P) == {f \in Fires : fpc[f] \in P}

\* Fires whose generation is counted and whose outcome is not yet.
Open == At({"suppressed", "dropped", "sending", "wrote", "inWindow", "drain"})

\* Every record generated lands in exactly one bucket (the counter discipline of
\* fireWithCtx): at every instant emitted exceeds the buckets by the fires still
\* on their way, whatever path each took.
BooksBalance == led["emitted"] = Accounted(led) + Cardinality(Open)

\* sent in a clean report is what went on the wire under the scenario's handle:
\* finish's order (terminal gate, join, barrier, detach, snapshot) leaves no
\* datagram sent and uncounted, on-demand fires included.
CleanSent == CleanReport => snap["inWindow"] + snap["drain"] = wire

\* The sub-windows of a clean report add up to in_window although bucketFor adds
\* to them one step earlier and snapshot loads them first.
CleanSubWindows == CleanReport => snap["subs"] = snap["inWindow"]

\* A drained barrier settles the send buckets for good: no straggler moves them
\* after closeAndWaitUntil has returned 0.
SettledIsFinal == [][stragglers = 0 =>
                       \A c \in {"subs", "inWindow", "drain", "sendFailures"} :
                         led'[c] = led[c]]_vars

\* in_window means the write returned before T1 (scenario_boundary.go decision 2:
\* a fresh clock read after the write, never the decision timestamp): a fire that
\* was on its way to the kernel when the window ended is in no sub-window.
InWindowHonest == \A f \in late : fpc[f] \notin {"inWindow", "out"}

\* A scheduler fire that outlives its scenario goes out under the next scenario's
\* handle only if the join gave up, which the report discloses in incomplete_joins
\* (joinWithin).
ForeignFireDisclosed == foreign > 0 => ~joined

\* A fire passes the gate only inside the window: nothing is sent under the handle
\* before T0 (decide).
NothingBeforeStart == gate = "armed" => wire = 0 /\ wg = {}

\* Finalize ends within its budget even when a fire never returns from its write
\* (nl6#618).
FinishCompletes == (fin = "begun") ~> (fin = "done")

\* The window uses the barrier as DrainGate allows.
ImplementsGate == GateSpec

\* Every fire is in one bucket of the ledger, in_window only when its write returned
\* before T1, under the handle only inside the window, and under the next scenario's
\* only when the report discloses a failed join (fireWithCtx, bucketFor, finish).
WindowAccounted ==
  /\ WTypeOK /\ BooksBalance /\ InWindowHonest /\ ForeignFireDisclosed
  /\ NothingBeforeStart

\* A clean report is exact: sent is what went on the wire and the sub-windows add up
\* to in_window (finish, snapshot).
CleanReportExact ==
  /\ CleanSent /\ CleanSubWindows
===============================================================================
