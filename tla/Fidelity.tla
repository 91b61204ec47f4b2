------------------------------- MODULE Fidelity -------------------------------
(***************************************************************************)
(* The switch that silences the fleet's background traffic at run time     *)
(* (fidelity_api.go), its single auto-revert timer, and a scenario that    *)
(* samples it.  fidelityRevert.mu serialises the writers; the value and    *)
(* the count of its changes are two atomics that are read without it, so   *)
(* a writer is two steps, one per atomic.                                  *)
(***************************************************************************)
EXTENDS Integers

CONSTANTS
  MaxToggles   \* bound on the requests

VARIABLES
  inForce,      \* fidelitySilent
  transitions,  \* fidelityTransitions
  restore,      \* fidelityRevert.restore
  revertGen,    \* fidelityRevert.gen
  armed,        \* fidelityRevert.timer, with what its callback captured
  called,       \* callbacks that have fired and wait for the lock
  writer,       \* who holds fidelityRevert.mu, and what is left to write
  measured,     \* the scenario's samples (captureT0, the report)
  toggles,      \* requests so far
  standing,     \* the value last asked for without a duration
  asked         \* the values asked for with a duration since then

fidelityVars == <<inForce, transitions, restore, revertGen, armed, called, writer, measured, toggles,
                  standing, asked>>

Values == {"silent", "emitting"}
NotArmed == [by |-> 0, gen |-> 0, to |-> "emitting"]
NoWriter == [op |-> "none", value |-> "emitting", by |-> 0]
Unmeasured == [pc |-> "idle", silent |-> "silent", seen |-> 0, quiet |-> TRUE, held |-> TRUE, changed |-> FALSE]
-------------------------------------------------------------------------------
\* What a change to v means for the measurement: it may fall between its two
\* samples, or inside its window.
Noted(v) == [measured EXCEPT !.quiet = @ /\ (measured.pc = "sampled" => v = measured.silent),
                             !.held = @ /\ (measured.pc = "open" => v = measured.silent)]

\* A slip: every request returns to the value it finds.
RestoreCurrent(v) == inForce

\* What a request's timer will restore: a chain that goes on in the same direction
\* keeps its target, any other begins at the value in force.
RestoreFor(v) == IF armed # NotArmed /\ v = inForce THEN restore ELSE inForce

\* setFidelity up to the store: the pending timer is cancelled and the value takes effect.
SetFidelity(v, timed) ==
  /\ writer = NoWriter /\ toggles < MaxToggles
  /\ toggles' = toggles + 1
  /\ armed' = NotArmed
  /\ revertGen' = revertGen + 1
  /\ restore' = RestoreFor(v)
  /\ inForce' = v
  /\ writer' = [op |-> IF timed THEN "setTimed" ELSE "set", value |-> inForce, by |-> toggles + 1]
  /\ measured' = Noted(v)
  /\ standing' = IF timed THEN standing ELSE v
  /\ asked' = IF timed THEN asked \cup {v} ELSE {}
  /\ UNCHANGED <<transitions, called>>

\* What the callback of a new timer captures.
Armed == [by |-> toggles, gen |-> revertGen, to |-> restore]

\* The rest of it: the change is counted, and a timed request arms its timer.
SetFidelityEnds ==
  /\ writer.op \in {"set", "setTimed"}
  /\ transitions' = transitions + IF writer.value # inForce THEN 1 ELSE 0
  /\ restore' = IF writer.op = "setTimed" THEN restore ELSE inForce
  /\ armed' = IF writer.op = "setTimed" THEN Armed ELSE NotArmed
  /\ writer' = NoWriter
  /\ UNCHANGED <<inForce, revertGen, called, measured, toggles, standing, asked>>

\* cancelFidelityRevert at shutdown: the revert is dropped, not applied, and nothing
\* is claimed about the value from here on.
CancelFidelityRevert ==
  /\ writer = NoWriter /\ toggles < MaxToggles
  /\ toggles' = toggles + 1
  /\ armed' = NotArmed
  /\ revertGen' = revertGen + 1
  /\ asked' = Values
  /\ UNCHANGED <<inForce, transitions, restore, called, writer, measured, standing>>

\* The deadline passes, once: from here Stop cannot recall the callback.
DeadlinePasses ==
  /\ armed # NotArmed /\ armed \notin called /\ writer.op # "revert"
  /\ called' = called \cup {armed}
  /\ UNCHANGED <<inForce, transitions, restore, revertGen, armed, writer, measured, toggles, standing, asked>>

\* Whether a newer request, or the shutdown, has taken the callback's place.
Superseded(t) == revertGen # t.gen

\* A callback gets the lock and finds that it has been superseded.
RevertYields(t) ==
  /\ writer = NoWriter /\ Superseded(t)
  /\ called' = called \ {t}
  /\ UNCHANGED <<inForce, transitions, restore, revertGen, armed, writer, measured, toggles, standing, asked>>

\* Whether the revert is a change.
Counted(t) == IF inForce # t.to THEN 1 ELSE 0

\* The callback of the pending timer: the change is counted first, then made.
RevertFires(t) ==
  /\ writer = NoWriter /\ ~Superseded(t)
  /\ called' = called \ {t}
  /\ transitions' = transitions + Counted(t)
  /\ writer' = [op |-> "revert", value |-> t.to, by |-> t.by]
  /\ UNCHANGED <<inForce, restore, revertGen, armed, measured, toggles, standing, asked>>

RevertEnds ==
  /\ writer.op = "revert"
  /\ inForce' = writer.value
  /\ armed' = NotArmed
  /\ writer' = NoWriter
  /\ measured' = Noted(writer.value)
  /\ UNCHANGED <<transitions, restore, revertGen, called, toggles, standing, asked>>

\* A scenario samples the value at T0,
SampleValue ==
  /\ measured.pc = "idle"
  /\ measured' = [measured EXCEPT !.pc = "sampled", !.silent = inForce, !.quiet = writer = NoWriter]
  /\ UNCHANGED <<inForce, transitions, restore, revertGen, armed, called, writer, toggles, standing, asked>>

\* then the count,
SampleCount ==
  /\ measured.pc = "sampled"
  /\ measured' = [measured EXCEPT !.pc = "open", !.seen = transitions, !.quiet = @ /\ writer = NoWriter]
  /\ UNCHANGED <<inForce, transitions, restore, revertGen, armed, called, writer, toggles, standing, asked>>

\* and compares the count when it writes its report.
Report ==
  /\ measured.pc = "open"
  /\ measured' = [measured EXCEPT !.pc = "reported", !.changed = transitions # measured.seen,
                                  !.quiet = @ /\ writer = NoWriter]
  /\ UNCHANGED <<inForce, transitions, restore, revertGen, armed, called, writer, toggles, standing, asked>>
-------------------------------------------------------------------------------
FidelityInit ==
  /\ inForce \in Values /\ standing = inForce
  /\ transitions = 0 /\ restore = "emitting" /\ revertGen = 0
  /\ armed = NotArmed /\ called = {} /\ writer = NoWriter
  /\ measured = Unmeasured
  /\ toggles = 0 /\ asked = {}

Callback == (\E t \in called : RevertYields(t) \/ RevertFires(t)) \/ RevertEnds

FidelityNext ==
  \/ \E v \in Values, timed \in BOOLEAN : SetFidelity(v, timed)
  \/ SetFidelityEnds
  \/ CancelFidelityRevert
  \/ DeadlinePasses
  \/ Callback
  \/ SampleValue \/ SampleCount \/ Report

\* Timers go off, callbacks and handlers get the lock and go on.
FidelityFairness == /\ WF_fidelityVars(SetFidelityEnds)
                    /\ WF_fidelityVars(DeadlinePasses)
                    /\ WF_fidelityVars(Callback)

FidelitySpec == FidelityInit /\ [][FidelityNext]_fidelityVars /\ FidelityFairness
-------------------------------------------------------------------------------
(* Timed requests of one direction, however many and however they overlap, *)
(* leave the fleet as it stood when the last of them has run out: a chain  *)
(* of extensions never returns to a value one of them had set (the hazard  *)
(* the comment on fidelityRevert.restore describes).                       *)
WindowCloses ==
  (armed = NotArmed /\ writer = NoWriter /\ asked # Values) => inForce = standing

(* Only the latest request decides: nothing but that request, or the revert *)
(* it armed, changes the value in force.  A callback that was waiting for   *)
(* the lock when a newer request took it never undoes that request.         *)
LatestRequestDecides ==
  [][inForce' # inForce => toggles' # toggles \/ (writer.op = "revert" /\ writer.by = toggles)]_fidelityVars

(* A report that says the silence did not change states the silence the     *)
(* whole window was measured under, as long as no writer was between its    *)
(* two atomics when the scenario sampled them.                              *)
ReportedSilenceHeld ==
  (measured.pc = "reported" /\ measured.quiet /\ ~measured.changed) => measured.held

(* A timed request comes to its end: its timer is not pending for ever.     *)
TimedRequestEnds == armed # NotArmed ~> armed = NotArmed

\* The mode in force is the one the latest request left, a timed request leaves the
\* standing one behind, and a report of silence is true (fidelity_api.go,
\* scenario_controller.go).
SilenceExact ==
  /\ [](WindowCloses /\ ReportedSilenceHeld)
  /\ LatestRequestDecides
===============================================================================
