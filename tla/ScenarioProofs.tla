-------------------------- MODULE ScenarioProofs ---------------------------
(***************************************************************************)
(* Proofs about the fidelity switch that a scenario reads, and about the   *)
(* life of a scenario.                                                     *)
(***************************************************************************)
EXTENDS Fidelity, ScenarioLifecycle, TLAPS

(***************************************************************************)
(* The fidelity switch, for any number of requests, timers and callbacks   *)
(* that wait for the lock, and the scenario that reads it without the      *)
(* lock.                                                                   *)
(***************************************************************************)
Timer == [by : Nat, gen : Nat, to : Values]

FidelityTypes ==
  /\ inForce \in Values /\ restore \in Values /\ standing \in Values
  /\ asked \in SUBSET Values
  /\ revertGen \in Nat /\ toggles \in Nat
  /\ armed \in Timer /\ called \in SUBSET Timer
  /\ writer \in [op : {"none", "set", "setTimed", "revert"}, value : Values, by : Nat]
  /\ writer.op = "none" => writer = NoWriter

\* A callback of the current generation is the pending timer's, and that timer was
\* armed by the latest request.
OneCurrentTimer ==
  /\ armed # NotArmed => armed.gen = revertGen /\ armed.by = toggles /\ armed.to = restore
  /\ \A t \in called : t.gen <= revertGen /\ (t.gen = revertGen => t = armed /\ armed # NotArmed)
  /\ writer.op \in {"set", "setTimed"} => armed = NotArmed /\ toggles > 0
  /\ writer.op = "revert" => /\ armed # NotArmed /\ armed \notin called
                             /\ writer.value = armed.to /\ writer.by = armed.by

\* As long as the timed requests go in one direction, what will be restored is what
\* stood before them.
LeadsBack ==
  asked # Values =>
    /\ armed # NotArmed => restore = standing /\ inForce \in asked
    /\ writer.op = "setTimed" => restore = standing /\ inForce \in asked
    /\ (armed = NotArmed /\ writer.op # "setTimed") => inForce = standing

FidelityInv == FidelityTypes /\ OneCurrentTimer /\ LeadsBack
-------------------------------------------------------------------------------
\* The switch starts in the invariant.
LEMMA FidelityInitially == FidelityInit => FidelityInv
BY SMT DEF FidelityInit, FidelityInv, FidelityTypes, OneCurrentTimer, LeadsBack, Timer, Values,
   NotArmed, NoWriter

\* Set keeps the invariant.
LEMMA SetKeeps ==
  ASSUME FidelityInv, NEW v \in Values, NEW timed \in BOOLEAN, SetFidelity(v, timed)
  PROVE  FidelityInv'
<1>1. FidelityTypes'
  BY SMT DEF FidelityInv, FidelityTypes, SetFidelity, RestoreFor, Timer, NotArmed, NoWriter, Values
<1>2. OneCurrentTimer'
  BY SMT DEF FidelityInv, FidelityTypes, OneCurrentTimer, SetFidelity, Timer, NotArmed, NoWriter
<1>3. LeadsBack'
  <2> SUFFICES ASSUME asked' # Values
               PROVE  /\ timed => restore' = standing' /\ inForce' \in asked'
                      /\ ~timed => inForce' = standing'
    BY Zenon DEF LeadsBack, SetFidelity
  <2>1. CASE ~timed BY <2>1 DEF SetFidelity
  <2>2. CASE timed
    <3>1. asked' = asked \cup {v} /\ standing' = standing /\ inForce' = v BY <2>2 DEF SetFidelity
    <3>2. asked # Values BY <3>1
    <3>3. armed # NotArmed => v = inForce
      <4> SUFFICES ASSUME armed # NotArmed, v # inForce PROVE FALSE OBVIOUS
      <4>1. inForce \in asked BY <3>2 DEF FidelityInv, LeadsBack
      <4>2. Values \subseteq asked \cup {v} BY <4>1 DEF Values, FidelityInv, FidelityTypes
      <4> QED BY <4>2, <3>1 DEF FidelityInv, FidelityTypes
    <3>4. restore' = standing
      BY <3>2, <3>3, Zenon DEF FidelityInv, LeadsBack, SetFidelity, RestoreFor, NoWriter
    <3> QED BY <2>2, <3>1, <3>4
  <2> QED BY <2>1, <2>2
<1> QED BY <1>1, <1>2, <1>3 DEF FidelityInv

\* SetEnd keeps the invariant.
LEMMA SetEndKeeps == FidelityInv /\ SetFidelityEnds => FidelityInv'
<1> SUFFICES ASSUME FidelityInv, SetFidelityEnds PROVE FidelityInv' OBVIOUS
<1>1. FidelityTypes'
  BY SMT DEF FidelityInv, FidelityTypes, SetFidelityEnds, Armed, Timer, NotArmed, NoWriter, Values
<1>2. OneCurrentTimer'
  BY SMT DEF FidelityInv, FidelityTypes, OneCurrentTimer, SetFidelityEnds, Armed, Timer, NotArmed,
     NoWriter
<1>3. LeadsBack'
  BY SMT DEF FidelityInv, FidelityTypes, OneCurrentTimer, LeadsBack, SetFidelityEnds, Armed, NotArmed,
     NoWriter, Values
<1> QED BY <1>1, <1>2, <1>3 DEF FidelityInv

\* Cancel keeps the invariant.
LEMMA CancelKeeps == FidelityInv /\ CancelFidelityRevert => FidelityInv'
BY SMT DEF FidelityInv, FidelityTypes, OneCurrentTimer, LeadsBack, CancelFidelityRevert, Timer,
   NotArmed, NoWriter, Values

\* Deadline keeps the invariant.
LEMMA DeadlineKeeps == FidelityInv /\ DeadlinePasses => FidelityInv'
BY SMT DEF FidelityInv, FidelityTypes, OneCurrentTimer, LeadsBack, DeadlinePasses, NotArmed

\* Callback keeps the invariant.
LEMMA CallbackKeeps == FidelityInv /\ Callback => FidelityInv'
<1> SUFFICES ASSUME FidelityInv, Callback PROVE FidelityInv' OBVIOUS
<1>1. ASSUME NEW t \in called, RevertYields(t) PROVE FidelityInv'
  BY <1>1, SMT DEF FidelityInv, FidelityTypes, OneCurrentTimer, LeadsBack, RevertYields, Superseded
<1>2. ASSUME NEW t \in called, RevertFires(t) PROVE FidelityInv'
  <2>1. t = armed /\ armed # NotArmed /\ t \in Timer
    BY <1>2, Zenon DEF FidelityInv, FidelityTypes, OneCurrentTimer, RevertFires, Superseded
  <2>2. FidelityTypes'
    BY <1>2, <2>1, SMT DEF FidelityInv, FidelityTypes, RevertFires, Timer, NoWriter
  <2>3. OneCurrentTimer'
    BY <1>2, <2>1, SMT DEF FidelityInv, FidelityTypes, OneCurrentTimer, RevertFires, NoWriter
  <2>4. LeadsBack'
    BY <1>2, <2>1, SMT DEF FidelityInv, LeadsBack, RevertFires, NoWriter
  <2> QED BY <2>2, <2>3, <2>4 DEF FidelityInv
<1>3. CASE RevertEnds
  <2>1. FidelityTypes'
    BY <1>3, SMT DEF FidelityInv, FidelityTypes, RevertEnds, Timer, NotArmed, NoWriter, Values
  <2>2. OneCurrentTimer'
    BY <1>3, SMT DEF FidelityInv, FidelityTypes, OneCurrentTimer, RevertEnds, Timer, NotArmed,
       NoWriter
  <2>3. LeadsBack'
    BY <1>3, SMT DEF FidelityInv, FidelityTypes, OneCurrentTimer, LeadsBack, RevertEnds, NotArmed,
       NoWriter
  <2> QED BY <2>1, <2>2, <2>3 DEF FidelityInv
<1> QED BY <1>1, <1>2, <1>3 DEF Callback

\* A scenario only reads the switch.
LEMMA MeasuringKeeps ==
  FidelityInv /\ (SampleValue \/ SampleCount \/ Report \/ UNCHANGED fidelityVars) => FidelityInv'
BY SMT DEF FidelityInv, FidelityTypes, OneCurrentTimer, LeadsBack, SampleValue, SampleCount, Report,
   fidelityVars

\* Every step of the switch keeps its invariant.
LEMMA FidelityStep == FidelityInv /\ [FidelityNext]_fidelityVars => FidelityInv'
BY SetKeeps, SetEndKeeps, CancelKeeps, DeadlineKeeps, CallbackKeeps, MeasuringKeeps, Zenon
   DEF FidelityNext

\* The books of the fidelity switch, in every reachable state.
THEOREM FidelityInvariant == FidelitySpec => []FidelityInv
BY FidelityInitially, FidelityStep, PTL DEF FidelitySpec

\* Timed requests of one direction leave the fleet as it stood, however many overlap.
THEOREM WindowAlwaysCloses == FidelitySpec => []WindowCloses
<1>1. FidelityInv => WindowCloses
  BY DEF FidelityInv, LeadsBack, WindowCloses, NoWriter
<1> QED BY <1>1, FidelityInvariant, PTL

\* No callback that waited for the lock undoes a request that was made meanwhile.
THEOREM LatestAlwaysDecides == FidelitySpec => LatestRequestDecides
<1> DEFINE Decided == inForce' # inForce => toggles' # toggles \/ (writer.op = "revert"
    /\ writer.by = toggles)
<1>1. ASSUME FidelityInv, [FidelityNext]_fidelityVars PROVE [Decided]_fidelityVars
  <2>1. ASSUME NEW v \in Values, NEW timed \in BOOLEAN, SetFidelity(v, timed) PROVE Decided
    BY <1>1, <2>1, SMT DEF FidelityInv, FidelityTypes, SetFidelity
  <2>2. CASE RevertEnds
    BY <1>1, <2>2, Zenon DEF FidelityInv, OneCurrentTimer, RevertEnds
  <2>3. ASSUME inForce' = inForce PROVE Decided
    BY <2>3, Zenon
  <2>4. \/ \E v \in Values, timed \in BOOLEAN : SetFidelity(v, timed)
        \/ RevertEnds
        \/ inForce' = inForce
    BY <1>1, Zenon DEF FidelityNext, Callback, SetFidelityEnds, CancelFidelityRevert, DeadlinePasses,
       RevertYields,
       RevertFires, SampleValue, SampleCount, Report, fidelityVars
  <2> QED BY <2>1, <2>2, <2>3, <2>4
<1> QED BY <1>1, FidelityInvariant, PTL DEF FidelitySpec, LatestRequestDecides

-------------------------------------------------------------------------------
Measurement == [pc : {"idle", "sampled", "open", "reported"}, silent : Values, seen : Nat,
                quiet : BOOLEAN, held : BOOLEAN, changed : BOOLEAN]

\* A change is counted while the lock is held, before or after it is made.  So a change
\* in the window of a quiet measurement is counted, or its writer still owes the count.
MeasureInv ==
  /\ measured \in Measurement /\ transitions \in Nat
  /\ measured.pc \in {"idle", "sampled"} => measured.held
  /\ measured.pc = "sampled" /\ measured.quiet => inForce = measured.silent
  /\ measured.pc = "open" /\ measured.quiet =>
       /\ measured.seen <= transitions
       /\ measured.held => inForce = measured.silent
       /\ ~measured.held => \/ measured.seen < transitions
                            \/ writer.op \in {"set", "setTimed"} /\ writer.value # inForce
       /\ writer.op = "revert" /\ writer.value # inForce => measured.seen < transitions
  /\ ReportedSilenceHeld

SilenceInv == FidelityInv /\ MeasureInv

\* What a writer's change does to the measurement.
LEMMA NotedIs ==
  ASSUME measured \in Measurement, NEW v \in Values
  PROVE  /\ Noted(v) \in Measurement
         /\ Noted(v).pc = measured.pc /\ Noted(v).silent = measured.silent
         /\ Noted(v).seen = measured.seen /\ Noted(v).changed = measured.changed
         /\ Noted(v).quiet = (measured.quiet /\ (measured.pc = "sampled" => v = measured.silent))
         /\ Noted(v).held = (measured.held /\ (measured.pc = "open" => v = measured.silent))
BY Zenon DEF Noted, Measurement

\* The measurement starts in its invariant.
LEMMA SilenceInitially == FidelityInit => MeasureInv
BY DEF FidelityInit, MeasureInv, Measurement, Unmeasured, Values, ReportedSilenceHeld, NoWriter

\* A request keeps what the measurement has seen true.
LEMMA MeasureSet ==
  ASSUME SilenceInv, NEW v \in Values, NEW timed \in BOOLEAN, SetFidelity(v, timed)
  PROVE  MeasureInv'
<1>0. /\ inForce \in Values /\ measured \in Measurement /\ MeasureInv /\ transitions \in Nat
  BY Zenon DEF SilenceInv, FidelityInv, FidelityTypes, MeasureInv
<1>1. /\ writer = NoWriter /\ inForce' = v /\ measured' = Noted(v) /\ transitions' = transitions
      /\ writer'.op \in {"set", "setTimed"} /\ writer'.value = inForce
  BY Zenon DEF SetFidelity
<1>2. /\ measured' \in Measurement
      /\ measured'.pc = measured.pc /\ measured'.silent = measured.silent
      /\ measured'.seen = measured.seen /\ measured'.changed = measured.changed
      /\ measured'.quiet = (measured.quiet /\ (measured.pc = "sampled" => v = measured.silent))
      /\ measured'.held = (measured.held /\ (measured.pc = "open" => v = measured.silent))
  BY <1>0, <1>1, NotedIs, Zenon
<1>3. QED
  BY <1>0, <1>1, <1>2, Zenon DEF MeasureInv, ReportedSilenceHeld, NoWriter

\* So does a revert that ends.
LEMMA MeasureRevertEnds == ASSUME SilenceInv, RevertEnds PROVE MeasureInv'
<1>0. /\ inForce \in Values /\ measured \in Measurement /\ MeasureInv /\ writer.value \in Values
      /\ transitions \in Nat
  BY Zenon DEF SilenceInv, FidelityInv, FidelityTypes, MeasureInv
<1>1. /\ writer.op = "revert" /\ inForce' = writer.value /\ measured' = Noted(writer.value)
      /\ transitions' = transitions /\ writer' = NoWriter
  BY Zenon DEF RevertEnds
<1> DEFINE v == writer.value
<1>2. /\ measured' \in Measurement
      /\ measured'.pc = measured.pc /\ measured'.silent = measured.silent
      /\ measured'.seen = measured.seen /\ measured'.changed = measured.changed
      /\ measured'.quiet = (measured.quiet /\ (measured.pc = "sampled" => v = measured.silent))
      /\ measured'.held = (measured.held /\ (measured.pc = "open" => v = measured.silent))
  BY <1>0, <1>1, NotedIs, Zenon
<1>3. QED
  BY <1>0, <1>1, <1>2, Zenon DEF MeasureInv, ReportedSilenceHeld, NoWriter

\* The writer counts: after a request's change, before a revert's.
LEMMA MeasureCounts ==
  ASSUME SilenceInv, SetFidelityEnds \/ \E t \in called : RevertFires(t)
  PROVE  MeasureInv'
<1>0. /\ measured \in Measurement /\ MeasureInv /\ transitions \in Nat
      /\ writer.op = "none" => writer = NoWriter
  BY Zenon DEF SilenceInv, FidelityInv, FidelityTypes, MeasureInv
<1>1. CASE SetFidelityEnds
  <2>1. /\ writer.op \in {"set", "setTimed"} /\ writer' = NoWriter
        /\ inForce' = inForce /\ measured' = measured
        /\ transitions' \in Nat /\ transitions <= transitions'
        /\ writer.value # inForce => transitions < transitions'
    BY <1>0, <1>1 DEF SetFidelityEnds
  <2>2. QED
    BY <1>0, <2>1 DEF MeasureInv, ReportedSilenceHeld, NoWriter, Measurement
<1>2. ASSUME NEW t \in called, RevertFires(t) PROVE MeasureInv'
  <2>1. /\ writer = NoWriter /\ writer'.op = "revert" /\ writer'.value = t.to
        /\ inForce' = inForce /\ measured' = measured
        /\ transitions' \in Nat /\ transitions <= transitions'
        /\ t.to # inForce => transitions < transitions'
    BY <1>0, <1>2 DEF RevertFires, Counted
  <2>2. QED
    BY <1>0, <2>1 DEF MeasureInv, ReportedSilenceHeld, NoWriter, Measurement
<1>3. QED
  BY <1>1, <1>2, Zenon

\* The scenario's own steps.
LEMMA MeasureSamples == ASSUME SilenceInv, SampleValue \/ SampleCount \/ Report PROVE MeasureInv'
<1>0. /\ measured \in Measurement /\ MeasureInv /\ transitions \in Nat /\ inForce \in Values
      /\ writer.op = "none" => writer = NoWriter
  BY Zenon DEF SilenceInv, FidelityInv, FidelityTypes, MeasureInv
<1>1. UNCHANGED <<inForce, transitions, writer>>
  BY Zenon DEF SampleValue, SampleCount, Report
<1>2. CASE SampleValue
  <2>1. /\ measured.pc = "idle" /\ measured' \in Measurement /\ measured'.pc = "sampled"
        /\ measured'.silent = inForce /\ measured'.held = measured.held
    BY <1>0, <1>2, Zenon DEF SampleValue, Measurement
  <2>2. QED
    BY <1>0, <1>1, <2>1, Zenon DEF MeasureInv, ReportedSilenceHeld
<1>3. CASE SampleCount
  <2>1. /\ measured.pc = "sampled" /\ measured' \in Measurement /\ measured'.pc = "open"
        /\ measured'.silent = measured.silent /\ measured'.held = measured.held
        /\ measured'.seen = transitions /\ measured'.quiet = (measured.quiet /\ writer = NoWriter)
    BY <1>0, <1>3, Zenon DEF SampleCount, Measurement
  <2>2. measured'.quiet => measured.quiet /\ writer.op = "none"
    <3>1. measured'.quiet => measured.quiet /\ writer = NoWriter
      BY <2>1, Zenon
    <3>2. NoWriter.op = "none"
      BY Zenon DEF NoWriter
    <3>3. QED
      BY <3>1, <3>2, Zenon
  <2>3. measured'.held /\ (measured.quiet => inForce = measured.silent)
    BY <1>0, <2>1, Zenon DEF MeasureInv
  <2>4. QED
    BY <1>0, <1>1, <2>1, <2>2, <2>3 DEF MeasureInv, ReportedSilenceHeld
<1>4. CASE Report
  <2>1. /\ measured.pc = "open" /\ measured' \in Measurement /\ measured'.pc = "reported"
        /\ measured'.held = measured.held /\ measured'.changed = (transitions # measured.seen)
        /\ measured'.quiet = (measured.quiet /\ writer = NoWriter)
    BY <1>0, <1>4, Zenon DEF Report, Measurement
  <2>2. QED
    BY <1>0, <1>1, <2>1 DEF MeasureInv, ReportedSilenceHeld, NoWriter, Measurement
<1>5. QED
  BY <1>2, <1>3, <1>4, Zenon

\* Nothing else touches the value, its count, the measurement, or a writer's debt.
LEMMA MeasureRest ==
  ASSUME SilenceInv, UNCHANGED <<inForce, transitions, writer, measured>>
  PROVE  MeasureInv'
BY Zenon DEF SilenceInv, MeasureInv, ReportedSilenceHeld

\* The books of the measurement, in every reachable state.
THEOREM SilenceInvariant == FidelitySpec => []SilenceInv
<1>1. SilenceInv /\ [FidelityNext]_fidelityVars => SilenceInv'
  <2> SUFFICES ASSUME SilenceInv, [FidelityNext]_fidelityVars PROVE MeasureInv'
    BY FidelityStep, Zenon DEF SilenceInv
  <2>1. ASSUME NEW v \in Values, NEW timed \in BOOLEAN, SetFidelity(v, timed) PROVE MeasureInv'
    BY <2>1, MeasureSet, Zenon
  <2>2. CASE SetFidelityEnds \/ \E t \in called : RevertFires(t)
    BY <2>2, MeasureCounts, Zenon
  <2>3. CASE RevertEnds
    BY <2>3, MeasureRevertEnds, Zenon
  <2>4. CASE SampleValue \/ SampleCount \/ Report
    BY <2>4, MeasureSamples, Zenon
  <2>5. CASE CancelFidelityRevert \/ DeadlinePasses \/ (\E t \in called : RevertYields(t))
             \/ UNCHANGED fidelityVars
    BY <2>5, MeasureRest, Zenon DEF CancelFidelityRevert, DeadlinePasses, RevertYields, fidelityVars
  <2>6. QED
    BY <2>1, <2>2, <2>3, <2>4, <2>5, Zenon DEF FidelityNext, Callback
<1>2. FidelityInit => SilenceInv
  BY FidelityInitially, SilenceInitially, Zenon DEF SilenceInv
<1>3. QED
  BY <1>1, <1>2, PTL DEF FidelitySpec

\* SilenceExact for any number of requests: the latest one decides, a timed one leaves the
\* standing mode behind, and a report that says the silence did not change is true of the
\* whole window (fidelity_api.go, scenario_controller.go).
THEOREM SilenceAlwaysExact == FidelitySpec => SilenceExact
<1>1. SilenceInv => ReportedSilenceHeld
  BY Zenon DEF SilenceInv, MeasureInv
<1>2. QED
  BY <1>1, SilenceInvariant, WindowAlwaysCloses, LatestAlwaysDecides, PTL DEF SilenceExact

(***************************************************************************)
(* Freeze, participants and handles stay consistent for any number of      *)
(* scenarios and devices, any selectors and any bounds.                    *)
(*                                                                         *)
(* FreezeMatchesRun, NoBatchUnderFreeze, RunIntact and NoOrphanHandle are  *)
(* not inductive.  They speak of a scenario between operations; the        *)
(* strengthening says what holds at every step inside one: which phase an  *)
(* operation runs in (PhaseOfHolder), where a handle of the scenario can   *)
(* be (HandleReachable), what the prune has established (PruneEstablished) *)
(* and that a device that is gone carries no handle (NoHandleOnTheDead).   *)
(* Disclosure needs that nothing happens to a scenario before it is        *)
(* submitted (OnlySubmittedAct), and schedules that a generation is used   *)
(* once (ScheduleInv).                                                     *)
(***************************************************************************)
\* The operation that holds c.mu fixes the phase it works in.
PhaseOfHolder ==
  \A s \in Scenarios :
    /\ mu[s] \in {"arming", "freezing", "pruned"} => phase[s] = "armed"
    /\ mu[s] \in {"launching", "noting"} => phase[s] = "running"
    /\ mu[s] \in {"draining", "detaching", "unfreezing"} => phase[s] \in {"stopped", "aborted"}

\* Inside an operation, a handle of the scenario is on a device the operation
\* still has in hand: prevParts is part of it during an arm.
HandleReachable ==
  \A s \in Scenarios : \A d \in Devices : slot[d] = s =>
    /\ mu[s] = "arming" => d \in parts[s] \cup prev[s]
    /\ mu[s] \in Holders \ {"free", "arming"} => d \in parts[s]
    /\ mu[s] # "unfreezing"

\* The prune leaves only devices that exist and carry the handle.
PruneEstablished ==
  \A s \in Scenarios : mu[s] = "pruned" =>
    \A d \in parts[s] : d \in live /\ slot[d] = s

\* A handle goes with its device; an arm under way has seen only existing ones.
NoHandleOnTheDead ==
  /\ \A d \in Devices : d \notin live => slot[d] = Nobody
  /\ \A s \in Scenarios : mu[s] = "arming" => todo[s] \subseteq live

LifecycleInv ==
  /\ ClaimTypeOK
  /\ FreezeMatchesRun
  /\ NoBatchUnderFreeze
  /\ RunIntact
  /\ NoOrphanHandle
  /\ PhaseOfHolder
  /\ HandleReachable
  /\ PruneEstablished
  /\ NoHandleOnTheDead

\* The variables the invariant is about.
corevars == <<phase, mu, parts, todo, prev, live, slot, frozen, batch>>

\* Nobody is no scenario.
LEMMA NobodyIsNoScenario == Nobody \notin Scenarios
BY SubmitsAssumption DEF Nobody, Scenarios

\* The initial state satisfies the invariant.
LEMMA LifecycleInitInv == Init => LifecycleInv
BY NobodyIsNoScenario
   DEF Init, LifecycleInv, ClaimTypeOK, FreezeMatchesRun, NoBatchUnderFreeze, RunIntact,
       NoOrphanHandle, PhaseOfHolder, HandleReachable, PruneEstablished,
       NoHandleOnTheDead, Phases, Holders, Terminal

\* A step that touches no variable of the invariant preserves it.
LEMMA LifecycleFrame == LifecycleInv /\ UNCHANGED corevars => LifecycleInv'
BY DEF LifecycleInv, corevars, ClaimTypeOK, FreezeMatchesRun, NoBatchUnderFreeze, RunIntact,
       NoOrphanHandle, PhaseOfHolder, HandleReachable, PruneEstablished, NoHandleOnTheDead

\* An arm preserves the invariant, whatever other scenarios do.
LEMMA ArmInv ==
  ASSUME LifecycleInv, NEW s \in Scenarios,
         \/ ArmBegin(s)
         \/ \E d \in Devices : ArmInstall(s, d) \/ ArmExclude(s, d)
         \/ ArmEnd(s)
  PROVE  LifecycleInv'
<1> USE NobodyIsNoScenario
    DEF LifecycleInv, ClaimTypeOK, FreezeMatchesRun, NoBatchUnderFreeze, RunIntact,
        NoOrphanHandle, PhaseOfHolder, HandleReachable, PruneEstablished, NoHandleOnTheDead,
        Holders, Phases, Terminal
<1>1. CASE ArmBegin(s)
  BY <1>1 DEF ArmBegin, ArmLegal, Armable, SetPhase, Goto, Candidates, fleetvars
<1>2. ASSUME NEW d \in Devices, ArmInstall(s, d) PROVE LifecycleInv'
  BY <1>2 DEF ArmInstall, Claims, fleetvars
<1>3. ASSUME NEW d \in Devices, ArmExclude(s, d) PROVE LifecycleInv'
  BY <1>3 DEF ArmExclude, fleetvars
<1>4. CASE ArmEnd(s)
  BY <1>4 DEF ArmEnd, Goto, Detached, fleetvars
<1>5. QED
  BY <1>1, <1>2, <1>3, <1>4, Zenon

\* A start, its refusal after the freeze and its rollback preserve it.
LEMMA StartInv ==
  ASSUME LifecycleInv, NEW s \in Scenarios,
         \/ \E g : StartFreeze(s, g)
         \/ StartPrune(s) \/ StartFailed(s) \/ StartRunning(s) \/ StartRollback(s)
         \/ StartEmitting(s) \/ NoteOverlaps(s)
  PROVE  LifecycleInv'
<1> USE NobodyIsNoScenario
    DEF LifecycleInv, ClaimTypeOK, FreezeMatchesRun, NoBatchUnderFreeze, RunIntact,
        NoOrphanHandle, PhaseOfHolder, HandleReachable, PruneEstablished, NoHandleOnTheDead,
        Holders, Phases, Terminal
<1>1. ASSUME NEW g, StartFreeze(s, g) PROVE LifecycleInv'
  BY <1>1 DEF StartFreeze, Starter, Startable, Freezes, Goto, armvars, fleetvars
<1>2. CASE StartPrune(s)
  BY <1>2 DEF StartPrune, Pruned, Claims, Detached, Goto, armvars, fleetvars
<1>3. CASE StartFailed(s)
  BY <1>3 DEF StartFailed, Unfreeze, Goto, armvars, fleetvars
<1>4. CASE StartRunning(s)
  BY <1>4 DEF StartRunning, SetPhase, Goto, armvars, fleetvars
<1>5. CASE StartRollback(s)
  BY <1>5 DEF StartRollback, Unfreeze, SetPhase, Goto, armvars, fleetvars
<1>6. CASE StartEmitting(s)
  BY <1>6 DEF StartEmitting, Goto, armvars, fleetvars
<1>7. CASE NoteOverlaps(s)
  BY <1>7 DEF NoteOverlaps, Goto, armvars, fleetvars
<1>8. QED
  BY Zenon, <1>1, <1>2, <1>3, <1>4, <1>5, <1>6, <1>7

\* So do a finish, from the terminal phase to the unfreeze, and a cancel.
LEMMA FinishInv ==
  ASSUME LifecycleInv,
         \/ \E s \in Scenarios :
              \/ \E to \in {"stopped", "aborted"} : FinishBegin(s, to)
              \/ FinishDrained(s) \/ FinishDetach(s) \/ FinishUnfreeze(s)
         \/ DeleteCancel /\ deleting \in Scenarios
  PROVE  LifecycleInv'
<1> USE NobodyIsNoScenario
    DEF LifecycleInv, ClaimTypeOK, FreezeMatchesRun, NoBatchUnderFreeze, RunIntact,
        NoOrphanHandle, PhaseOfHolder, HandleReachable, PruneEstablished, NoHandleOnTheDead,
        Holders, Phases, Terminal
<1>1. ASSUME NEW s \in Scenarios, NEW to \in {"stopped", "aborted"}, FinishBegin(s, to)
      PROVE  LifecycleInv'
  BY <1>1 DEF FinishBegin, SetPhase, Goto, armvars, fleetvars
<1>2. ASSUME NEW s \in Scenarios, FinishDrained(s) PROVE LifecycleInv'
  BY <1>2 DEF FinishDrained, Goto, armvars, fleetvars
<1>3. ASSUME NEW s \in Scenarios, FinishDetach(s) PROVE LifecycleInv'
  BY <1>3 DEF FinishDetach, Detached, Goto, armvars, fleetvars
<1>4. ASSUME NEW s \in Scenarios, FinishUnfreeze(s) PROVE LifecycleInv'
  BY <1>4 DEF FinishUnfreeze, Unfreeze, Goto, armvars, fleetvars
<1>5. CASE DeleteCancel /\ deleting \in Scenarios
  <2>1. /\ mu[deleting] = "free" /\ phase[deleting] = "armed"
        /\ phase' = [phase EXCEPT ![deleting] = "canceled"]
        /\ slot' = Detached(deleting, parts[deleting])
        /\ UNCHANGED <<mu, parts, todo, prev, live, frozen, batch>>
    BY Zenon, <1>5 DEF DeleteCancel, SetPhase, armvars, fleetvars
  <2> QED BY <1>5, <2>1 DEF Detached
<1>6. QED
  BY <1>1, <1>2, <1>3, <1>4, <1>5

\* And the fleet: a creation batch, and the deletion of devices.
LEMMA FleetInv ==
  ASSUME LifecycleInv, Fleet
  PROVE  LifecycleInv'
<1> USE NobodyIsNoScenario
    DEF LifecycleInv, ClaimTypeOK, FreezeMatchesRun, NoBatchUnderFreeze, RunIntact,
        NoOrphanHandle, PhaseOfHolder, HandleReachable, PruneEstablished, NoHandleOnTheDead,
        Holders, Phases, Terminal
<1>1. CASE BatchBegin
  BY <1>1, Zenon DEF BatchBegin, armvars
<1>2. CASE BatchCheck
  BY <1>2, Zenon DEF BatchCheck, armvars
<1>3. CASE BatchEnd
  BY <1>3, Zenon DEF BatchEnd, armvars
<1>4. ASSUME NEW d \in Devices, BatchCreate(d) PROVE LifecycleInv'
  BY ZenonT(40), <1>4 DEF BatchCreate, armvars
<1>5. ASSUME NEW D \in SUBSET live, RemoveDevices(D) PROVE LifecycleInv'
  BY ZenonT(40), <1>5 DEF RemoveDevices, SmUnread, armvars
<1>6. ASSUME NEW d \in Devices, DeleteDevice(d) PROVE LifecycleInv'
  BY <1>5, <1>6 DEF DeleteDevice
<1>7. CASE DeleteAllDevices
  BY <1>5, <1>7, Zenon DEF DeleteAllDevices
<1>8. QED
  BY <1>1, <1>2, <1>3, <1>4, <1>6, <1>7, Zenon DEF Fleet

\* The registry and the requests keep their types.
LEMMA RegistryTypeStep == TypeOK /\ [Next]_vars => RegistryTypeOK'
<1> SUFFICES ASSUME TypeOK, [Next]_vars PROVE RegistryTypeOK'
  BY Zenon
<1> USE DEF RegistryTypeOK
<1>0. RegistryTypeOK /\ ClaimTypeOK
  BY Zenon DEF TypeOK
<1>1. ASSUME UNCHANGED regvars, reqs' \subseteq reqs PROVE RegistryTypeOK'
  BY <1>0, <1>1, Zenon DEF regvars
<1>2. CASE Registry
  <2>1. CASE Submit
    <3>1. seq \in Nat /\ seq + 1 <= MaxSubmits
      BY <1>0, <2>1, SubmitsAssumption DEF Submit, NextID, Admits
    <3>2. registry' \subseteq 1..seq'
      <4> SUFFICES ASSUME NEW r \in registry' PROVE r \in 1..(seq + 1)
        BY <2>1, Zenon DEF Submit, NextID, Admits
      <4>1. r \in 1..seq \/ r = seq + 1
        BY <1>0, <2>1, Zenon DEF Submit, NextID, Admits
      <4>2. QED
        BY <3>1, <4>1
    <3>3. seq' \in 0..MaxSubmits
      BY <2>1, <3>1, SubmitsAssumption DEF Submit, NextID, Admits
    <3>4. UNCHANGED <<deleting, seen, reqs>>
      BY <2>1, Zenon DEF Submit, NextID, Admits
    <3>5. QED
      BY <1>0, <3>2, <3>3, <3>4, Zenon
  <2>2. ASSUME NEW s \in registry, DeleteBegin(s) PROVE RegistryTypeOK'
    <3>1. s \in Scenarios
      BY <1>0, SubmitsAssumption DEF Scenarios
    <3>2. QED
      BY <1>0, <2>2, <3>1, Zenon DEF DeleteBegin, ClaimTypeOK
  <2>3. ASSUME NEW s \in registry, NEW op \in Ops, Lookup(s, op) PROVE RegistryTypeOK'
    <3>1. <<s, op>> \in Scenarios \X Ops
      BY <1>0, SubmitsAssumption DEF Scenarios
    <3>2. QED
      BY <1>0, <2>3, <3>1, Zenon DEF Lookup, regvars
  <2>4. CASE DeleteRefused \/ DeleteCancel \/ DeleteDrop
    BY Zenon, <1>0, <2>4 DEF DeleteRefused, DeleteCancel, DeleteDrop, Phases
  <2>5. QED
    BY <1>2, <2>1, <2>2, <2>3, <2>4, Zenon DEF Registry
<1>3. CASE Fleet
  BY Zenon, <1>1, <1>3 DEF Fleet, BatchBegin, BatchCheck, BatchEnd, BatchCreate, DeleteDevice,
                    DeleteAllDevices, RemoveDevices
<1>4. ASSUME NEW s \in Scenarios, Proceed(s) PROVE RegistryTypeOK'
  BY Zenon, <1>1, <1>4 DEF Proceed, ArmInstall, ArmExclude, ArmEnd, StartPrune, StartFailed,
                    StartRunning, StartRollback, StartEmitting, NoteOverlaps,
                    FinishDrained, FinishDetach, FinishUnfreeze
<1>5. ASSUME NEW s \in Scenarios, Handle(s) PROVE RegistryTypeOK'
  BY Zenon, <1>1, <1>5 DEF Handle, ArmRefused, ArmBegin, ScheduleStart, ScheduleRefused,
                    StartRefused, StartFreeze, Consumed, StopRequest, StopRefused,
                    FinishBegin, Served
<1>6. ASSUME NEW s \in Scenarios, Timers(s) PROVE RegistryTypeOK'
  BY <1>1, <1>6, Zenon DEF Timers, TimerFires, FireSuperseded, SelfFinish, FinishBegin
<1>7. CASE UNCHANGED vars
  BY <1>1, <1>7, Zenon DEF vars
<1>8. QED
  BY <1>2, <1>3, <1>4, <1>5, <1>6, <1>7, Zenon DEF Next

\* The schedules keep their types.
LEMMA TimerTypeStep == TypeOK /\ [Next]_vars => TimerTypeOK'
<1> SUFFICES ASSUME TypeOK, [Next]_vars PROVE TimerTypeOK'
  BY Zenon
<1> USE DEF TimerTypeOK
<1>0. TimerTypeOK /\ RegistryTypeOK
  BY Zenon DEF TypeOK
<1>1. ASSUME UNCHANGED timevars,
             by' = by \/ \E s \in Scenarios : by' = [by EXCEPT ![s] = 0]
      PROVE  TimerTypeOK'
  BY <1>0, <1>1 DEF timevars
<1>2. ASSUME NEW s \in Scenarios, Withdraw(s), UNCHANGED <<by, fired>>,
             stale' \in [Scenarios -> SUBSET Nat]
      PROVE  TimerTypeOK'
  <2>1. ticking' \in [Scenarios -> BOOLEAN]
    BY Zenon, <1>0, <1>2 DEF Withdraw
  <2>2. startTimer' \in [Scenarios -> Nat] /\ gen' \in [Scenarios -> Nat]
    BY <1>0, <1>2 DEF Withdraw
  <2>3. QED
    BY <1>0, <1>2, <2>1, <2>2, Zenon
<1>3. ASSUME NEW s \in Scenarios, NEW g, ReleaseSchedule(s, g), UNCHANGED <<ticking, stale>>,
             fired' \in [Scenarios -> SUBSET Nat],
             by' = by \/ by' = [by EXCEPT ![s] = 0]
      PROVE  TimerTypeOK'
  BY <1>0, <1>3 DEF ReleaseSchedule
<1>4. CASE Registry
  <2>1. CASE DeleteCancel
    <3>1. deleting \in Scenarios
      BY <1>0, <2>1, Zenon DEF DeleteCancel, RegistryTypeOK
    <3>2. QED
      BY <1>0, <1>2, <2>1, <3>1, Zenon DEF DeleteCancel
  <2>2. CASE ~DeleteCancel
    BY Zenon, <1>1, <1>4, <2>2 DEF Registry, Submit, DeleteBegin, Lookup, DeleteRefused, DeleteDrop
  <2>3. QED
    BY Zenon, <2>1, <2>2
<1>5. CASE Fleet
  BY <1>1, <1>5, Zenon DEF Fleet, BatchBegin, BatchCheck, BatchEnd, BatchCreate, DeleteDevice,
                    DeleteAllDevices, RemoveDevices
<1>6. ASSUME NEW s \in Scenarios, Proceed(s) PROVE TimerTypeOK'
  <2>1. CASE StartFailed(s)
    BY Zenon, <1>0, <1>3, <2>1 DEF StartFailed
  <2>2. CASE StartRollback(s)
    BY Zenon, <1>0, <1>3, <2>2 DEF StartRollback
  <2>3. CASE ~StartFailed(s) /\ ~StartRollback(s)
    BY Zenon, <1>1, <1>6, <2>3 DEF Proceed, ArmInstall, ArmExclude, ArmEnd, StartPrune, StartRunning,
                      StartEmitting, NoteOverlaps, FinishDrained, FinishDetach, FinishUnfreeze
  <2>4. QED
    BY Zenon, <2>1, <2>2, <2>3
<1>7. ASSUME NEW s \in Scenarios, Handle(s) PROVE TimerTypeOK'
  <2>1. CASE ArmRefused(s) \/ ScheduleRefused(s) \/ StopRefused(s)
    BY <1>1, <2>1, Zenon DEF ArmRefused, ScheduleRefused, StopRefused
  <2>2. CASE ArmBegin(s)
    <3>1. stale' \in [Scenarios -> SUBSET Nat]
      BY <1>0, <2>2, Zenon DEF ArmBegin
    <3>2. QED
      BY Zenon, <1>2, <2>2, <3>1 DEF ArmBegin
  <2>3. CASE ScheduleStart(s)
    <3>0. /\ gen' = [gen EXCEPT ![s] = gen[s] + 1]
          /\ startTimer' = [startTimer EXCEPT ![s] = gen[s] + 1]
      BY Zenon, <2>3 DEF ScheduleStart
    <3>a. gen \in [Scenarios -> Nat] /\ startTimer \in [Scenarios -> Nat] /\ gen[s] + 1 \in Nat
      BY <1>0
    <3>1. gen' \in [Scenarios -> Nat] /\ startTimer' \in [Scenarios -> Nat]
      <4>. HIDE DEF TimerTypeOK
      <4>1. QED
        BY Zenon, <3>0, <3>a
    <3>2. ticking' \in [Scenarios -> BOOLEAN]
      BY Zenon, <1>0, <2>3 DEF ScheduleStart
    <3>3. UNCHANGED <<by, fired, stale>>
      BY Zenon, <2>3 DEF ScheduleStart
    <3>4. QED
      BY <1>0, <3>1, <3>2, <3>3, Zenon
  <2>4. ASSUME NEW g \in {0} \cup fired[s], StartRefused(s, g) PROVE TimerTypeOK'
    <3>1. fired' \in [Scenarios -> SUBSET Nat]
      BY <1>0, <2>4, Zenon DEF StartRefused, Consumed
    <3>2. QED
      BY Zenon, <1>3, <2>4, <3>1 DEF StartRefused
  <2>5. ASSUME NEW g \in {0} \cup fired[s], StartFreeze(s, g) PROVE TimerTypeOK'
    <3>1. fired' \in [Scenarios -> SUBSET Nat]
      BY <1>0, <2>5, Zenon DEF StartFreeze, Consumed
    <3>2. by' \in [Scenarios -> Nat]
      BY <1>0, <2>5 DEF StartFreeze
    <3>3. UNCHANGED <<startTimer, ticking, gen, stale>>
      BY Zenon, <2>5 DEF StartFreeze
    <3>4. QED
      BY <1>0, <3>1, <3>2, <3>3, Zenon
  <2>6. CASE StopRequest(s)
    BY Zenon, <1>0, <1>2, <2>6 DEF StopRequest, FinishBegin
  <2>7. QED
    BY ZenonT(40), <1>7, <2>1, <2>2, <2>3, <2>4, <2>5, <2>6 DEF Handle
<1>8. ASSUME NEW s \in Scenarios, Timers(s) PROVE TimerTypeOK'
  <2>1. CASE TimerFires(s)
    BY <1>0, <2>1, Zenon DEF TimerFires
  <2>2. ASSUME NEW g \in fired[s], FireSuperseded(s, g) PROVE TimerTypeOK'
    BY Zenon, <1>0, <2>2 DEF FireSuperseded
  <2>3. CASE SelfFinish(s)
    BY <1>0, <1>2, <2>3, Zenon DEF SelfFinish, FinishBegin
  <2>4. QED
    BY <1>8, <2>1, <2>2, <2>3, Zenon DEF Timers
<1>9. CASE UNCHANGED vars
  BY <1>1, <1>9, Zenon DEF vars
<1>10. QED
  BY <1>4, <1>5, <1>6, <1>7, <1>8, <1>9, Zenon DEF Next

\* The emitting flags and the disclosed overlaps keep their types.
LEMMA OverlapTypeStep == TypeOK /\ [Next]_vars => OverlapTypeOK'
<1> SUFFICES ASSUME TypeOK, [Next]_vars PROVE OverlapTypeOK'
  BY Zenon
<1> USE DEF OverlapTypeOK
<1>0. OverlapTypeOK /\ registry \subseteq Scenarios
  BY SubmitsAssumption DEF TypeOK, RegistryTypeOK, Scenarios
<1>1. ASSUME UNCHANGED ovlvars PROVE OverlapTypeOK'
  BY <1>0, <1>1, Zenon DEF ovlvars
<1>2. ASSUME NEW s \in Scenarios, StartEmitting(s) \/ FinishDrained(s) PROVE OverlapTypeOK'
  BY Zenon, <1>0, <1>2 DEF StartEmitting, FinishDrained
<1>3. ASSUME NEW s \in Scenarios, NoteOverlaps(s) PROVE OverlapTypeOK'
  <2>1. RunningPeers(s) \subseteq Scenarios
    BY Zenon, <1>0 DEF RunningPeers
  <2>2. QED
    BY <1>0, <1>3, <2>1, Zenon DEF NoteOverlaps, Linked
<1>4. CASE Registry
  BY Zenon, <1>1, <1>4 DEF Registry, Submit, DeleteBegin, Lookup, DeleteRefused, DeleteCancel,
                    DeleteDrop
<1>5. CASE Fleet
  BY ZenonT(40), <1>1, <1>5 DEF Fleet, BatchBegin, BatchCheck, BatchEnd, BatchCreate, DeleteDevice,
                    DeleteAllDevices, RemoveDevices
<1>6. ASSUME NEW s \in Scenarios, Proceed(s) PROVE OverlapTypeOK'
  BY <1>1, <1>2, <1>3, <1>6, Zenon
     DEF Proceed, ArmInstall, ArmExclude, ArmEnd, StartPrune, StartFailed, StartRunning,
         StartRollback, FinishDetach, FinishUnfreeze
<1>7. ASSUME NEW s \in Scenarios, Handle(s) \/ Timers(s) PROVE OverlapTypeOK'
  BY Zenon, <1>1, <1>7 DEF Handle, ArmRefused, ArmBegin, ScheduleStart, ScheduleRefused,
                    StartRefused, StartFreeze, StopRequest, StopRefused, FinishBegin,
                    Timers, TimerFires, FireSuperseded, SelfFinish
<1>8. CASE UNCHANGED vars
  BY <1>1, <1>8, Zenon DEF vars
<1>9. QED
  BY <1>4, <1>5, <1>6, <1>7, <1>8, Zenon DEF Next

\* The types and the claims hold together in every reachable state.
THEOREM LifecycleInvariant == Spec => [](TypeOK /\ LifecycleInv)
<1>1. Init => TypeOK /\ LifecycleInv
  <2>1. Init => RegistryTypeOK /\ TimerTypeOK /\ OverlapTypeOK
    BY SubmitsAssumption
       DEF Init, RegistryTypeOK, TimerTypeOK, OverlapTypeOK, Phases, Scenarios, Nobody
  <2>2. QED
    BY <2>1, LifecycleInitInv, Zenon DEF TypeOK, LifecycleInv
<1>2. TypeOK /\ LifecycleInv /\ [Next]_vars => (TypeOK /\ LifecycleInv)'
  <2> SUFFICES ASSUME TypeOK, LifecycleInv, [Next]_vars PROVE TypeOK' /\ LifecycleInv'
    BY Zenon
  <2>1. LifecycleInv'
    <3>1. CASE Registry
      <4>1. CASE DeleteCancel
        BY Zenon, <4>1, FinishInv DEF DeleteCancel, TypeOK, RegistryTypeOK
      <4>2. CASE ~DeleteCancel
        BY Zenon, <3>1, <4>2, LifecycleFrame
           DEF Registry, Submit, DeleteBegin, Lookup, DeleteRefused, DeleteDrop, corevars,
               armvars, fleetvars
      <4>3. QED
        BY <4>1, <4>2, Zenon
    <3>2. CASE Fleet
      BY <3>2, FleetInv, Zenon
    <3>3. ASSUME NEW s \in Scenarios, Proceed(s) PROVE LifecycleInv'
      BY Zenon, <3>3, ArmInv, StartInv, FinishInv DEF Proceed
    <3>4. ASSUME NEW s \in Scenarios, Handle(s) PROVE LifecycleInv'
      <4>1. CASE ArmBegin(s)
        BY <4>1, ArmInv, Zenon
      <4>2. ASSUME NEW g, StartFreeze(s, g) PROVE LifecycleInv'
        BY <4>2, StartInv, Zenon
      <4>3. CASE StopRequest(s)
        BY ZenonT(40), <4>3, FinishInv DEF StopRequest
      <4>4. ASSUME \/ ArmRefused(s) \/ ScheduleStart(s) \/ ScheduleRefused(s) \/ StopRefused(s)
                   \/ \E g : StartRefused(s, g)
            PROVE  LifecycleInv'
        BY <4>4, LifecycleFrame, Zenon
           DEF ArmRefused, ScheduleStart, ScheduleRefused, StopRefused, StartRefused, corevars,
               armvars, fleetvars
      <4>5. QED
        BY Zenon, <3>4, <4>1, <4>2, <4>3, <4>4 DEF Handle
    <3>5. ASSUME NEW s \in Scenarios, Timers(s) PROVE LifecycleInv'
      <4>1. CASE SelfFinish(s)
        BY <4>1, FinishInv, Zenon DEF SelfFinish
      <4>2. CASE ~SelfFinish(s)
        BY Zenon, <3>5, <4>2, LifecycleFrame
           DEF Timers, TimerFires, FireSuperseded, corevars, armvars, fleetvars
      <4>3. QED
        BY <4>1, <4>2, Zenon
    <3>6. CASE UNCHANGED vars
      BY <3>6, LifecycleFrame, Zenon DEF vars, corevars, armvars, fleetvars
    <3>7. QED
      BY <3>1, <3>2, <3>3, <3>4, <3>5, <3>6, Zenon DEF Next
  <2>2. TypeOK'
    BY <2>1, RegistryTypeStep, TimerTypeStep, OverlapTypeStep, Zenon DEF TypeOK, LifecycleInv
  <2>3. QED
    BY <2>1, <2>2, Zenon
<1>3. QED
  BY <1>1, <1>2, PTL DEF Spec

\* Every variable keeps its type.
THEOREM TypeCorrect == Spec => []TypeOK
BY LifecycleInvariant, PTL

\* The fleet is frozen by exactly the scenarios that are starting, running or
\* finishing, and no creation batch works under a freeze.
THEOREM FreezeCorrect == Spec => [](FreezeMatchesRun /\ NoBatchUnderFreeze)
<1>1. LifecycleInv => FreezeMatchesRun /\ NoBatchUnderFreeze
  BY Zenon DEF LifecycleInv
<1>2. QED
  BY <1>1, LifecycleInvariant, PTL

\* The participants of a running or draining scenario exist and carry its handle.
THEOREM RunsStayIntact == Spec => []RunIntact
<1>1. LifecycleInv => RunIntact
  BY Zenon DEF LifecycleInv
<1>2. QED
  BY <1>1, LifecycleInvariant, PTL

\* No handle is left on an exporter where no detach can reach it.
THEOREM HandlesNeverOrphaned == Spec => []NoOrphanHandle
<1>1. LifecycleInv => NoOrphanHandle
  BY Zenon DEF LifecycleInv
<1>2. QED
  BY <1>1, LifecycleInvariant, PTL

\* No step hands a device from one scenario to another: the compare-and-swap of
\* a claim, the re-install of a start and every detach respect the holder.
THEOREM ClaimsNeverStolen == Spec => NoTheft
<1> DEFINE Kept == \A d \in Devices : slot[d] # Nobody => slot'[d] \in {slot[d], Nobody}
<1>1. TypeOK /\ [Next]_vars => Kept
  <2> SUFFICES ASSUME TypeOK, [Next]_vars PROVE Kept
    BY Zenon
  <2>0. slot \in [Devices -> Scenarios \cup {Nobody}]
    BY Zenon DEF TypeOK, ClaimTypeOK
  <2>1. ASSUME UNCHANGED slot PROVE Kept
    BY <2>1, Zenon
  <2>2. ASSUME NEW s, NEW D, slot' = Detached(s, D) PROVE Kept
    BY Zenon, <2>2 DEF Detached
  <2>3. CASE Registry
    BY Zenon, <2>1, <2>2, <2>3 DEF Registry, Submit, DeleteBegin, Lookup, DeleteRefused, DeleteCancel,
                            DeleteDrop
  <2>4. CASE Fleet
    BY <2>0, <2>1, <2>4, Zenon DEF Fleet, BatchBegin, BatchCheck, BatchEnd, BatchCreate, DeleteDevice,
                            DeleteAllDevices, RemoveDevices
  <2>5. ASSUME NEW s \in Scenarios, Proceed(s) PROVE Kept
    <3>1. ASSUME NEW d \in Devices, ArmInstall(s, d) PROVE Kept
      BY Zenon, <2>0, <3>1 DEF ArmInstall, Claims
    <3>2. CASE ArmEnd(s) \/ FinishDetach(s)
      BY ZenonT(40), <2>2, <3>2 DEF ArmEnd, FinishDetach
    <3>3. CASE StartPrune(s)
      BY <2>0, <3>3, Zenon DEF StartPrune, Pruned, Claims, Detached
    <3>4. ASSUME \/ \E d \in Devices : ArmExclude(s, d)
                 \/ StartFailed(s) \/ StartRunning(s) \/ StartRollback(s) \/ StartEmitting(s)
                 \/ NoteOverlaps(s) \/ FinishDrained(s) \/ FinishUnfreeze(s)
          PROVE  Kept
      BY Zenon, <2>1, <3>4 DEF ArmExclude, StartFailed, StartRunning, StartRollback, StartEmitting,
                        NoteOverlaps, FinishDrained, FinishUnfreeze
    <3>5. QED
      BY Zenon, <2>5, <3>1, <3>2, <3>3, <3>4 DEF Proceed
  <2>6. ASSUME NEW s \in Scenarios, Handle(s) \/ Timers(s) PROVE Kept
    BY Zenon, <2>1, <2>6 DEF Handle, ArmRefused, ArmBegin, ScheduleStart, ScheduleRefused,
                      StartRefused, StartFreeze, StopRequest, StopRefused, FinishBegin,
                      Timers, TimerFires, FireSuperseded, SelfFinish
  <2>7. CASE UNCHANGED vars
    BY <2>1, <2>7, Zenon DEF vars
  <2>8. QED
    BY Zenon, <2>3, <2>4, <2>5, <2>6, <2>7 DEF Next
<1>2. QED
  BY <1>1, LifecycleInvariant, PTL DEF Spec, NoTheft
-----------------------------------------------------------------------------
(* Disclosure and phases.  OverlapDisclosed is inductive only with what keeps a  *)
(* freshly registered scenario from emitting already: nothing happens to a       *)
(* scenario before it is submitted.                                              *)

\* What the step does to one scenario's phase, and that only an arm request takes a
\* scenario out of submitted.
PhaseStep ==
  \A s \in Scenarios :
    phase'[s] # phase[s] =>
      /\ <<phase[s], phase'[s]>> \in
            {<<"submitted", "armed">>, <<"armed", "running">>, <<"armed", "canceled">>,
             <<"running", "armed">>, <<"running", "stopped">>, <<"running", "aborted">>}
      /\ phase[s] = "submitted" => <<s, "arm">> \in reqs

\* A scenario that was not submitted yet has no request, no phase and no emitters.
OnlySubmittedAct ==
  \A s \in Scenarios :
    /\ phase[s] # "submitted" => s <= seq
    /\ \A op \in Ops : <<s, op>> \in reqs => s <= seq
    /\ emitting[s] => phase[s] # "submitted"

\* Every change of a phase is one of the arrows of transitionLocked or the rollback.
LEMMA PhaseSteps == TypeOK /\ LifecycleInv /\ [Next]_vars => PhaseStep
<1> SUFFICES ASSUME TypeOK, LifecycleInv, [Next]_vars PROVE PhaseStep
  BY Zenon
<1>0. /\ phase \in [Scenarios -> Phases]
      /\ PhaseOfHolder
      /\ deleting \in Scenarios \cup {Nobody}
  BY Zenon DEF LifecycleInv, ClaimTypeOK, TypeOK, RegistryTypeOK
<1>1. ASSUME UNCHANGED phase PROVE PhaseStep
  BY <1>1, Zenon DEF PhaseStep
<1>2. CASE Registry
  <2>1. CASE DeleteCancel
    BY Zenon, <1>0, <2>1 DEF DeleteCancel, SetPhase, PhaseStep
  <2>2. CASE ~DeleteCancel
    BY Zenon, <1>1, <1>2, <2>2 DEF Registry, Submit, DeleteBegin, Lookup, DeleteRefused, DeleteDrop
  <2>3. QED
    BY Zenon, <2>1, <2>2
<1>3. CASE Fleet
  BY <1>1, <1>3, Zenon DEF Fleet, BatchBegin, BatchCheck, BatchEnd, BatchCreate, DeleteDevice,
                    DeleteAllDevices, RemoveDevices
<1>4. ASSUME NEW s \in Scenarios, Proceed(s) PROVE PhaseStep
  <2>1. CASE StartRunning(s)
    BY Zenon, <1>0, <2>1 DEF StartRunning, SetPhase, PhaseOfHolder, PhaseStep
  <2>2. CASE StartRollback(s)
    BY ZenonT(40), <1>0, <2>2 DEF StartRollback, SetPhase, PhaseOfHolder, PhaseStep
  <2>3. CASE ~StartRunning(s) /\ ~StartRollback(s)
    BY <1>1, <1>4, <2>3, Zenon DEF Proceed, ArmInstall, ArmExclude, ArmEnd, StartPrune, StartFailed,
                            StartEmitting, NoteOverlaps, FinishDrained, FinishDetach,
                            FinishUnfreeze
  <2>4. QED
    BY <2>1, <2>2, <2>3, Zenon
<1>5. ASSUME NEW s \in Scenarios, NEW to \in {"stopped", "aborted"}, FinishBegin(s, to)
      PROVE  PhaseStep
  BY <1>0, <1>5, Zenon DEF FinishBegin, SetPhase, PhaseStep
<1>6. ASSUME NEW s \in Scenarios, Handle(s) PROVE PhaseStep
  <2>1. CASE ArmBegin(s)
    BY Zenon, <1>0, <2>1 DEF ArmBegin, ArmLegal, Armable, SetPhase, PhaseStep
  <2>2. CASE StopRequest(s)
    BY <1>5, <2>2, Zenon DEF StopRequest
  <2>3. CASE ~ArmBegin(s) /\ ~StopRequest(s)
    BY Zenon, <1>1, <1>6, <2>3 DEF Handle, ArmRefused, ScheduleStart, ScheduleRefused, StartRefused,
                            StartFreeze, StopRefused
  <2>4. QED
    BY <2>1, <2>2, <2>3, Zenon
<1>7. ASSUME NEW s \in Scenarios, Timers(s) PROVE PhaseStep
  BY Zenon, <1>1, <1>5, <1>7 DEF Timers, TimerFires, FireSuperseded, SelfFinish
<1>8. CASE UNCHANGED vars
  BY <1>1, <1>8, Zenon DEF vars
<1>9. QED
  BY <1>2, <1>3, <1>4, <1>6, <1>7, <1>8, Zenon DEF Next

\* Requests come from a lookup in the registry, phases from requests, and emitters
\* from a running phase.
LEMMA OnlySubmittedStep ==
  TypeOK /\ LifecycleInv /\ OnlySubmittedAct /\ [Next]_vars => OnlySubmittedAct'
<1> SUFFICES ASSUME TypeOK, LifecycleInv, OnlySubmittedAct, [Next]_vars PROVE OnlySubmittedAct'
  BY ZenonT(40)
<1>0. /\ seq \in Nat /\ registry \subseteq 1..seq
      /\ PhaseStep
      /\ PhaseOfHolder
      /\ emitting \in [Scenarios -> BOOLEAN]
      /\ phase \in [Scenarios -> Phases]
  BY PhaseSteps, SubmitsAssumption
     DEF TypeOK, RegistryTypeOK, OverlapTypeOK, LifecycleInv, ClaimTypeOK
<1>1. seq' \in Nat /\ seq <= seq'
  <2>1. CASE Submit
    BY <1>0, <2>1 DEF Submit, NextID
  <2>2. CASE ~Submit
    <3>1. ASSUME Registry PROVE seq' = seq
      BY Zenon, <2>2, <3>1 DEF Registry, DeleteBegin, Lookup, DeleteRefused, DeleteDrop,
                              DeleteCancel, regvars
    <3>2. ASSUME Fleet PROVE seq' = seq
      BY ZenonT(40), <3>2 DEF Fleet, BatchBegin, BatchCheck, BatchEnd, BatchCreate, DeleteDevice,
                        DeleteAllDevices, RemoveDevices, regvars
    <3>3. ASSUME NEW s \in Scenarios, Proceed(s) PROVE seq' = seq
      BY <3>3, Zenon DEF Proceed, ArmInstall, ArmExclude, ArmEnd, StartPrune, StartFailed,
                  StartRunning, StartRollback, StartEmitting, NoteOverlaps, FinishDrained,
                  FinishDetach, FinishUnfreeze, regvars
    <3>4. ASSUME NEW s \in Scenarios, Handle(s) \/ Timers(s) PROVE seq' = seq
      BY Zenon, <3>4 DEF Handle, ArmRefused, ArmBegin, ScheduleStart, ScheduleRefused, StartRefused,
                  StartFreeze, StopRequest, StopRefused, FinishBegin, Timers, TimerFires,
                  FireSuperseded, SelfFinish, regvars
    <3>5. CASE UNCHANGED vars
      BY <1>0, <3>5 DEF vars, regvars
    <3>6. QED
      BY <1>0, <3>1, <3>2, <3>3, <3>4, <3>5 DEF Next
  <2>3. QED
    BY <2>1, <2>2, Zenon
<1>2. \A s \in Scenarios : phase'[s] # "submitted" => s <= seq
  <2> SUFFICES ASSUME NEW s \in Scenarios, phase'[s] # "submitted" PROVE s <= seq
    BY Zenon
  <2>1. phase[s] = "submitted" => <<s, "arm">> \in reqs /\ "arm" \in Ops
    BY <1>0, Zenon DEF PhaseStep, Ops
  <2>2. QED
    BY <2>1, Zenon DEF OnlySubmittedAct
<1> DEFINE Known == \A s \in Scenarios : \A op \in Ops : <<s, op>> \in reqs' => s <= seq
           Started == \A s \in Scenarios : emitting'[s] => phase'[s] # "submitted"
<1>3. Known
  <2>1. ASSUME reqs' \subseteq reqs PROVE Known
    BY <2>1, Zenon DEF OnlySubmittedAct
  <2>2. ASSUME NEW r \in registry, NEW o \in Ops, Lookup(r, o) PROVE Known
    BY <1>0, <2>2 DEF Lookup, OnlySubmittedAct
  <2>3. CASE Registry
    BY Zenon, <2>1, <2>2, <2>3 DEF Registry, Submit, DeleteBegin, DeleteRefused, DeleteDrop,
                            DeleteCancel
  <2>4. CASE Fleet
    BY ZenonT(40), <2>1, <2>4 DEF Fleet, BatchBegin, BatchCheck, BatchEnd, BatchCreate, DeleteDevice,
                      DeleteAllDevices, RemoveDevices
  <2>5. ASSUME NEW s \in Scenarios, Proceed(s) PROVE reqs' \subseteq reqs
    BY <2>5, Zenon DEF Proceed, ArmInstall, ArmExclude, ArmEnd, StartPrune, StartFailed,
                StartRunning, StartRollback, StartEmitting, NoteOverlaps,
                FinishDrained, FinishDetach, FinishUnfreeze
  <2>6. ASSUME NEW s \in Scenarios, Handle(s) PROVE reqs' \subseteq reqs
    BY Zenon, <2>6 DEF Handle, ArmRefused, ArmBegin, ScheduleStart, ScheduleRefused,
                StartRefused, StartFreeze, Consumed, StopRequest, StopRefused, Served
  <2>7. ASSUME NEW s \in Scenarios, Timers(s) PROVE reqs' \subseteq reqs
    BY Zenon, <2>7 DEF Timers, TimerFires, FireSuperseded, SelfFinish
  <2>8. CASE UNCHANGED vars
    BY Zenon, <2>1, <2>8 DEF vars
  <2>9. QED
    BY <2>1, <2>3, <2>4, <2>5, <2>6, <2>7, <2>8, Zenon DEF Next
<1>4. Started
  <2>1. ASSUME UNCHANGED emitting PROVE Started
    <3> SUFFICES ASSUME NEW s \in Scenarios, emitting[s] PROVE phase'[s] # "submitted"
      BY <2>1, Zenon
    <3>1. phase[s] # "submitted"
      BY Zenon DEF OnlySubmittedAct
    <3>2. phase'[s] # phase[s] => phase'[s] # "submitted"
      BY Zenon, <1>0, <3>1 DEF PhaseStep
    <3>3. QED
      BY <3>1, <3>2, Zenon
  <2>2. ASSUME NEW s \in Scenarios, StartEmitting(s) PROVE Started
    BY <1>0, <2>2, Zenon DEF StartEmitting, PhaseOfHolder, OnlySubmittedAct
  <2>3. ASSUME NEW s \in Scenarios, FinishDrained(s) PROVE Started
    BY Zenon, <1>0, <2>3 DEF FinishDrained, OnlySubmittedAct
  <2>4. ASSUME Registry \/ Fleet PROVE UNCHANGED emitting
    BY ZenonT(40), <2>4 DEF Registry, Submit, DeleteBegin, Lookup, DeleteRefused, DeleteDrop,
                      DeleteCancel, Fleet, BatchBegin, BatchCheck, BatchEnd, BatchCreate,
                      DeleteDevice, DeleteAllDevices, RemoveDevices, ovlvars
  <2>5. ASSUME NEW s \in Scenarios, Proceed(s), ~StartEmitting(s), ~FinishDrained(s)
        PROVE  UNCHANGED emitting
    BY <2>5, Zenon DEF Proceed, ArmInstall, ArmExclude, ArmEnd, StartPrune, StartFailed, StartRunning,
                StartRollback, NoteOverlaps, FinishDetach, FinishUnfreeze, ovlvars
  <2>6. ASSUME NEW s \in Scenarios, Handle(s) \/ Timers(s) PROVE UNCHANGED emitting
    BY Zenon, <2>6 DEF Handle, ArmRefused, ArmBegin, ScheduleStart, ScheduleRefused, StartRefused,
                StartFreeze, StopRequest, StopRefused, FinishBegin, Timers, TimerFires,
                FireSuperseded, SelfFinish, ovlvars
  <2>7. CASE UNCHANGED vars
    BY Zenon, <2>1, <2>7 DEF vars, ovlvars
  <2>8. QED
    BY ZenonT(40), <2>1, <2>2, <2>3, <2>4, <2>5, <2>6, <2>7 DEF Next
<1>5. QED
  <2> SUFFICES ASSUME NEW s \in Scenarios
               PROVE  /\ phase'[s] # "submitted" => s <= seq'
                      /\ \A op \in Ops : <<s, op>> \in reqs' => s <= seq'
                      /\ emitting'[s] => phase'[s] # "submitted"
    BY Zenon DEF OnlySubmittedAct
  <2>1. s \in Nat
    BY SubmitsAssumption DEF Scenarios
  <2>2. QED
    BY <1>0, <1>1, <1>2, <1>3, <1>4, <2>1

\* Whoever publishes emitting last finds the other one: a scenario leaves the noting
\* step only with every emitting peer linked both ways.
LEMMA OverlapStep ==
  TypeOK /\ LifecycleInv /\ OnlySubmittedAct /\ OverlapDisclosed /\ [Next]_vars
     => OverlapDisclosed'
<1> SUFFICES ASSUME TypeOK, LifecycleInv, OnlySubmittedAct, OverlapDisclosed, [Next]_vars
             PROVE  OverlapDisclosed'
  BY Zenon
<1>0. /\ registry \subseteq Scenarios /\ registry \subseteq 1..seq /\ seq \in Nat
      /\ emitting \in [Scenarios -> BOOLEAN] /\ overlaps \in [Scenarios -> SUBSET Scenarios]
      /\ mu \in [Scenarios -> Holders]
  BY SubmitsAssumption
     DEF TypeOK, RegistryTypeOK, OverlapTypeOK, ClaimTypeOK, Scenarios
<1>1. ASSUME UNCHANGED ovlvars, registry' \subseteq registry,
             \A s \in Scenarios : mu'[s] # "noting" => mu[s] # "noting"
      PROVE  OverlapDisclosed'
  BY ZenonT(40), <1>0, <1>1 DEF OverlapDisclosed, ovlvars
<1>2. ASSUME NEW s \in Scenarios, NEW pc \in Holders, mu[s] # "noting", Goto(s, pc),
             registry' \subseteq registry, UNCHANGED ovlvars
      PROVE  OverlapDisclosed'
  <2>1. \A t \in Scenarios : mu'[t] # "noting" => mu[t] # "noting"
    BY <1>0, <1>2, Zenon DEF Goto
  <2>2. QED
    BY <1>1, <1>2, <2>1, Zenon
<1>3. CASE Submit
  <2>1. ASSUME NEW s \in registry', s \notin registry PROVE s \in Scenarios /\ ~emitting[s]
    <3>1. s = seq + 1 /\ seq + 1 <= MaxSubmits
      BY <1>0, <1>3, <2>1, SubmitsAssumption DEF Submit, NextID, TypeOK, RegistryTypeOK
    <3>2. s \in Scenarios
      BY <1>0, <3>1, SubmitsAssumption DEF Scenarios
    <3>3. ~(s <= seq)
      BY <1>0, <3>1
    <3>4. QED
      BY Zenon, <3>2, <3>3 DEF OnlySubmittedAct
  <2>2. UNCHANGED ovlvars /\ UNCHANGED mu
    BY <1>3, Zenon DEF Submit
  <2>3. QED
    BY Zenon, <1>0, <2>1, <2>2 DEF OverlapDisclosed, ovlvars
<1>4. CASE Registry
  <2>1. ASSUME ~Submit PROVE registry' \subseteq registry /\ UNCHANGED <<emitting, overlaps, mu>>
    BY Zenon, <1>4, <2>1 DEF Registry, DeleteBegin, Lookup, DeleteRefused, DeleteDrop, DeleteCancel,
                      regvars, ovlvars
  <2>2. QED
    BY Zenon, <1>1, <1>3, <2>1 DEF ovlvars
<1>5. CASE Fleet
  <2>1. registry' = registry /\ UNCHANGED ovlvars /\ mu' = mu
    BY Zenon, <1>5 DEF Fleet, BatchBegin, BatchCheck, BatchEnd, BatchCreate, DeleteDevice,
                DeleteAllDevices, RemoveDevices, regvars
  <2>2. QED
    BY Zenon, <1>1, <2>1
<1>6. ASSUME NEW s \in Scenarios, StartEmitting(s) PROVE OverlapDisclosed'
  BY Zenon, <1>0, <1>6 DEF StartEmitting, Goto, OverlapDisclosed, regvars
<1>7. ASSUME NEW s \in Scenarios, FinishDrained(s) PROVE OverlapDisclosed'
  BY <1>0, <1>7, Zenon DEF FinishDrained, Goto, OverlapDisclosed, regvars
<1>8. ASSUME NEW s \in Scenarios, NoteOverlaps(s) PROVE OverlapDisclosed'
  <2> SUFFICES ASSUME NEW a \in registry, NEW b \in registry, a # b, emitting[a], emitting[b],
                      mu'[a] # "noting", mu'[b] # "noting"
               PROVE  b \in overlaps'[a]
    BY Zenon, <1>8 DEF NoteOverlaps, OverlapDisclosed, regvars
  <2>1. overlaps'[a] = Linked(s, a)
    BY Zenon, <1>0, <1>8 DEF NoteOverlaps
  <2>2. CASE a = s
    BY Zenon, <2>1, <2>2 DEF Linked, RunningPeers
  <2>3. CASE a # s /\ b = s
    BY Zenon, <2>1, <2>3 DEF Linked, RunningPeers
  <2>4. CASE a # s /\ b # s
    <3>1. mu[a] # "noting" /\ mu[b] # "noting"
      BY ZenonT(40), <1>0, <1>8, <2>4 DEF NoteOverlaps, Goto
    <3>2. b \in overlaps[a]
      BY <3>1, Zenon DEF OverlapDisclosed
    <3>3. QED
      BY Zenon, <2>1, <2>4, <3>2 DEF Linked
  <2>5. QED
    BY Zenon, <2>2, <2>3, <2>4
<1>9. ASSUME NEW s \in Scenarios, Proceed(s) PROVE OverlapDisclosed'
  <2>1. ASSUME \/ \E d \in Devices : ArmInstall(s, d) \/ ArmExclude(s, d)
        PROVE  OverlapDisclosed'
    <3>1. registry' = registry /\ UNCHANGED ovlvars /\ mu' = mu
      BY <2>1, Zenon DEF ArmInstall, ArmExclude, regvars
    <3>2. QED
      BY Zenon, <1>1, <3>1
  <2>2. CASE ArmEnd(s) \/ StartPrune(s) \/ StartFailed(s) \/ StartRunning(s) \/ StartRollback(s)
             \/ FinishDetach(s) \/ FinishUnfreeze(s)
    <3>1. /\ registry' = registry /\ UNCHANGED ovlvars /\ mu[s] # "noting"
          /\ \E pc \in Holders : Goto(s, pc)
      BY Zenon, <2>2 DEF ArmEnd, StartPrune, StartFailed, StartRunning, StartRollback, FinishDetach,
                  FinishUnfreeze, Holders, regvars
    <3>2. QED
      BY <1>2, <3>1, Zenon
  <2>3. QED
    BY <1>6, <1>7, <1>8, <1>9, <2>1, <2>2, Zenon DEF Proceed
<1>10. ASSUME NEW s \in Scenarios, Handle(s) PROVE OverlapDisclosed'
  <2>1. ASSUME \/ ArmRefused(s) \/ ScheduleStart(s) \/ ScheduleRefused(s) \/ StopRefused(s)
               \/ \E g : StartRefused(s, g)
        PROVE  OverlapDisclosed'
    <3>1. registry' = registry /\ UNCHANGED ovlvars /\ mu' = mu
      BY Zenon, <2>1 DEF ArmRefused, ScheduleStart, ScheduleRefused, StopRefused, StartRefused,
         regvars
    <3>2. QED
      BY <1>1, <3>1, Zenon
  <2>2. ASSUME ArmBegin(s) \/ StopRequest(s) \/ \E g : StartFreeze(s, g)
        PROVE  OverlapDisclosed'
    <3>1. /\ registry' = registry /\ UNCHANGED ovlvars /\ mu[s] # "noting"
          /\ \E pc \in Holders : Goto(s, pc)
      BY Zenon, <2>2 DEF ArmBegin, StopRequest, FinishBegin, StartFreeze, Starter, Holders, regvars
    <3>2. QED
      BY <1>2, <3>1, Zenon
  <2>3. QED
    BY Zenon, <1>10, <2>1, <2>2 DEF Handle
<1>11. ASSUME NEW s \in Scenarios, Timers(s) PROVE OverlapDisclosed'
  <2>1. ASSUME \/ TimerFires(s) \/ \E g : FireSuperseded(s, g) PROVE OverlapDisclosed'
    <3>1. registry' = registry /\ UNCHANGED ovlvars /\ mu' = mu
      BY Zenon, <2>1 DEF TimerFires, FireSuperseded, regvars
    <3>2. QED
      BY <1>1, <3>1, Zenon
  <2>2. CASE SelfFinish(s)
    <3>1. /\ registry' = registry /\ UNCHANGED ovlvars /\ mu[s] # "noting"
          /\ \E pc \in Holders : Goto(s, pc)
      BY Zenon, <2>2 DEF SelfFinish, FinishBegin, Holders, regvars
    <3>2. QED
      BY ZenonT(40), <1>2, <3>1
  <2>3. QED
    BY <1>11, <2>1, <2>2, Zenon DEF Timers
<1>12. CASE UNCHANGED vars
  <2>1. registry' = registry /\ UNCHANGED ovlvars /\ mu' = mu
    BY ZenonT(40), <1>12 DEF vars, regvars
  <2>2. QED
    BY <1>1, <2>1, Zenon
<1>13. QED
  BY <1>4, <1>5, <1>9, <1>10, <1>11, <1>12, Zenon DEF Next
-----------------------------------------------------------------------------
(* Scheduled starts.  A generation is used once: the timer that is shown carries  *)
(* the current one, whatever has fired carries it or an older one, and every      *)
(* membership that was replaced had only older ones outstanding.                  *)

Starting == {"freezing", "pruned", "launching", "noting"}

\* What the timer, its callbacks and a start under way say about each other.
ScheduleOf(s) ==
  /\ startTimer[s] # 0 => startTimer[s] = gen[s]
  /\ ticking[s] => startTimer[s] # 0 /\ gen[s] \notin fired[s]
  /\ \A g \in fired[s] : g # 0 /\ g <= gen[s] /\ (g = gen[s] => startTimer[s] = g)
  /\ \A g \in stale[s] : g # 0 /\ g < gen[s]
  /\ mu[s] \in Starting /\ by[s] # 0 => by[s] = gen[s] /\ ~ticking[s]
  /\ phase[s] = "armed" /\ mu[s] \in {"free", "arming"} /\ startTimer[s] # 0
       => ticking[s] \/ gen[s] \in fired[s]
  /\ mu[s] \in {"freezing", "pruned", "launching"} /\ startTimer[s] # 0
       => ticking[s] \/ gen[s] \in fired[s] \/ by[s] = gen[s]

ScheduleInv == \A s \in Scenarios : ScheduleOf(s)
\* The initial schedules.
LEMMA ScheduleInit == Init => ScheduleInv /\ OnlySubmittedAct /\ OverlapDisclosed
BY DEF Init, ScheduleInv, ScheduleOf, Starting, OnlySubmittedAct, OverlapDisclosed

\* A natural is at most itself.
LEMMA NatReflexive == \A n \in Nat : n <= n
OBVIOUS

\* Every generation that fired is at most the current one; one that belonged to a
\* replaced membership is older.  Both are outdated by the next.
LEMMA GenerationsOf ==
  ASSUME TypeOK, NEW s \in Scenarios, ScheduleOf(s)
  PROVE  /\ gen[s] \in Nat /\ gen[s] < gen[s] + 1
         /\ \A g \in fired[s] : g # 0 /\ g <= gen[s] /\ g <= gen[s] + 1 /\ g # gen[s] + 1
         /\ \A g \in stale[s] : g # 0 /\ g < gen[s] /\ g < gen[s] + 1
<1>0. gen[s] \in Nat /\ fired[s] \subseteq Nat /\ stale[s] \subseteq Nat
  BY Zenon DEF TypeOK, TimerTypeOK
<1>1. \A g \in fired[s] : g # 0 /\ g <= gen[s]
  BY ZenonT(40) DEF ScheduleOf
<1>2. \A g \in stale[s] : g # 0 /\ g < gen[s]
  BY Zenon DEF ScheduleOf
<1>3. QED
  BY <1>0, <1>1, <1>2

\* A step that leaves a scenario's timer, callbacks, start and phase alone.
LEMMA ScheduleFrame ==
  ASSUME NEW s \in Scenarios, ScheduleOf(s),
         startTimer'[s] = startTimer[s], ticking'[s] = ticking[s], gen'[s] = gen[s],
         fired'[s] = fired[s], stale'[s] = stale[s],
         mu'[s] \in Starting /\ mu[s] \in Starting => by'[s] = by[s],
         mu'[s] \in Starting => mu[s] \in Starting,
         mu'[s] \in {"freezing", "pruned", "launching"}
           => mu[s] \in {"freezing", "pruned", "launching"},
         phase'[s] = "armed" /\ mu'[s] \in {"free", "arming"}
           => phase[s] = "armed" /\ mu[s] \in {"free", "arming"}
  PROVE  ScheduleOf(s)'
BY ZenonT(40) DEF ScheduleOf, Starting

\* Withdrawing the timer supersedes whatever had fired.
LEMMA WithdrawKeeps ==
  ASSUME TypeOK, NEW s \in Scenarios, ScheduleOf(s), Withdraw(s), UNCHANGED fired,
         mu[s] = "free", mu'[s] \notin Starting,
         \A g \in stale'[s] : g \in stale[s] \/ g \in fired[s] \/ (g = startTimer[s] /\ g # 0)
  PROVE  ScheduleOf(s)'
<1>0. /\ startTimer \in [Scenarios -> Nat] /\ gen \in [Scenarios -> Nat]
      /\ ticking \in [Scenarios -> BOOLEAN] /\ fired \in [Scenarios -> SUBSET Nat]
      /\ stale \in [Scenarios -> SUBSET Nat]
  BY Zenon DEF TypeOK, TimerTypeOK
<1>1. CASE startTimer[s] # 0
  <2>1. startTimer'[s] = 0 /\ gen'[s] = gen[s] + 1 /\ ~ticking'[s] /\ fired'[s] = fired[s]
    BY Zenon, <1>0, <1>1 DEF Withdraw
  <2>2. gen[s] \in Nat /\ fired[s] \subseteq Nat /\ startTimer[s] = gen[s]
    <3>1. startTimer[s] = gen[s]
      BY Zenon, <1>1 DEF ScheduleOf
    <3>2. QED
      BY Zenon, <1>0, <3>1
  <2>3. \A g \in stale'[s] : g # 0 /\ g < gen'[s]
    <3> SUFFICES ASSUME NEW g \in stale'[s] PROVE g # 0 /\ g < gen[s] + 1
      BY Zenon, <2>1
    <3>1. g \in Nat
      BY ZenonT(40), <1>0, <2>2
    <3>2. g # 0 /\ g <= gen[s]
      BY <2>2, <3>1 DEF ScheduleOf
    <3>3. QED
      BY <2>2, <3>1, <3>2
  <2>4. \A g \in fired'[s] : g # 0 /\ g <= gen'[s] /\ g # gen'[s]
    BY Zenon, <2>1, GenerationsOf
  <2>5. QED
    BY Zenon, <2>1, <2>3, <2>4 DEF ScheduleOf, Starting
<1>2. CASE startTimer[s] = 0
  <2>1. /\ startTimer'[s] = 0 /\ gen'[s] = gen[s] /\ ticking'[s] = ticking[s]
        /\ fired'[s] = fired[s]
    BY ZenonT(40), <1>2 DEF Withdraw
  <2>2. \A g \in stale'[s] : g # 0 /\ g < gen[s]
    <3>1. \A g \in fired[s] : g # gen[s]
      BY Zenon, <1>2, GenerationsOf DEF ScheduleOf
    <3>2. fired[s] \subseteq Nat
      BY Zenon, <1>0
    <3>3. QED
      BY <1>2, <3>1, <3>2, GenerationsOf
  <2>3. QED
    BY ZenonT(40), <1>2, <2>1, <2>2 DEF ScheduleOf, Starting
<1>3. QED
  BY Zenon, <1>1, <1>2

\* A start that fails releases the schedule it ran for, and a manual one leaves the
\* schedule pending as it was.
LEMMA ReleaseKeeps ==
  ASSUME TypeOK, NEW s \in Scenarios, ScheduleOf(s), NEW g \in Nat, ReleaseSchedule(s, g),
         UNCHANGED <<ticking, stale>>,
         fired'[s] = fired[s] \ ({g} \ {0}),
         g # 0 => g = gen[s] /\ ~ticking[s],
         mu'[s] \notin Starting,
         g = 0 /\ phase'[s] = "armed" /\ startTimer[s] # 0 => ticking[s] \/ gen[s] \in fired[s]
  PROVE  ScheduleOf(s)'
<1>0. /\ startTimer \in [Scenarios -> Nat] /\ gen \in [Scenarios -> Nat]
      /\ fired \in [Scenarios -> SUBSET Nat] /\ stale \in [Scenarios -> SUBSET Nat]
  BY Zenon DEF TypeOK, TimerTypeOK
<1>1. CASE g # 0
  <2>1. startTimer'[s] = 0 /\ gen'[s] = gen[s] + 1 /\ ~ticking'[s] /\ fired'[s] \subseteq fired[s]
    BY Zenon, <1>0, <1>1 DEF ReleaseSchedule
  <2>2. gen[s] \in Nat /\ fired[s] \subseteq Nat /\ stale[s] \subseteq Nat
    BY ZenonT(40), <1>0
  <2>3. \A x \in stale'[s] : x # 0 /\ x < gen'[s]
    BY <2>1, GenerationsOf
  <2>4. \A x \in fired'[s] : x # 0 /\ x <= gen'[s] /\ x # gen'[s]
    BY ZenonT(40), <2>1, GenerationsOf
  <2>5. QED
    BY Zenon, <2>1, <2>3, <2>4 DEF ScheduleOf, Starting
<1>2. CASE g = 0
  <2>1. startTimer'[s] = startTimer[s] /\ gen'[s] = gen[s] /\ fired'[s] = fired[s]
        /\ ticking'[s] = ticking[s] /\ stale'[s] = stale[s]
    BY Zenon, <1>2 DEF ReleaseSchedule
  <2>2. QED
    BY Zenon, <1>2, <2>1 DEF ScheduleOf, Starting
<1>3. QED
  BY Zenon, <1>1, <1>2

\* Every step of a scenario keeps its own schedule consistent.
LEMMA ScheduleOwnStep ==
  ASSUME TypeOK, LifecycleInv, NEW s \in Scenarios, ScheduleOf(s),
         Proceed(s) \/ Handle(s) \/ Timers(s)
  PROVE  ScheduleOf(s)'
<1>0. /\ startTimer \in [Scenarios -> Nat] /\ gen \in [Scenarios -> Nat] /\ by \in [Scenarios -> Nat]
      /\ ticking \in [Scenarios -> BOOLEAN] /\ fired \in [Scenarios -> SUBSET Nat]
      /\ stale \in [Scenarios -> SUBSET Nat] /\ mu \in [Scenarios -> Holders]
      /\ phase \in [Scenarios -> Phases] /\ PhaseOfHolder
  BY Zenon DEF TypeOK, TimerTypeOK, ClaimTypeOK, LifecycleInv
<1>1. ASSUME \E d \in Devices : ArmInstall(s, d) \/ ArmExclude(s, d) PROVE ScheduleOf(s)'
  BY Zenon, <1>1, ScheduleFrame DEF ArmInstall, ArmExclude, timevars
<1>2. CASE ArmEnd(s)
  BY ZenonT(40), <1>0, <1>2, ScheduleFrame DEF ArmEnd, Goto, Starting, timevars
<1>3. CASE StartPrune(s)
  BY <1>0, <1>3, ScheduleFrame, Zenon DEF StartPrune, Goto, Starting, timevars
<1>4. CASE StartRunning(s)
  BY ZenonT(40), <1>0, <1>4, ScheduleFrame DEF StartRunning, SetPhase, Goto, Starting, timevars
<1>5. CASE StartEmitting(s)
  BY <1>0, <1>5, ScheduleFrame, Zenon DEF StartEmitting, Goto, Starting, timevars
<1>6. CASE NoteOverlaps(s)
  <2>1. phase'[s] = "running"
    BY Zenon, <1>0, <1>6 DEF NoteOverlaps, PhaseOfHolder
  <2>2. mu'[s] = "free" /\ mu[s] = "noting"
    BY <1>0, <1>6, Zenon DEF NoteOverlaps, Goto
  <2>3. QED
    BY Zenon, <1>6, <2>1, <2>2, ScheduleFrame DEF NoteOverlaps, Starting, timevars
<1>7. CASE FinishDrained(s) \/ FinishDetach(s) \/ FinishUnfreeze(s)
  <2>1. phase'[s] # "armed" /\ mu'[s] \notin Starting
    BY <1>0, <1>7, Zenon DEF FinishDrained, FinishDetach, FinishUnfreeze, PhaseOfHolder, Goto,
       Starting
  <2>2. QED
    BY ZenonT(40), <1>7, <2>1, ScheduleFrame
       DEF FinishDrained, FinishDetach, FinishUnfreeze, Starting, timevars
<1>8. CASE StartFailed(s) \/ StartRollback(s)
  <2>1. /\ ReleaseSchedule(s, by[s]) /\ UNCHANGED <<ticking, stale, fired>>
        /\ mu[s] \in {"pruned", "launching"} /\ mu'[s] = "free" /\ by[s] \in Nat
    BY Zenon, <1>0, <1>8 DEF StartFailed, StartRollback, Goto
  <2>2. by[s] # 0 => by[s] = gen[s] /\ ~ticking[s]
    BY Zenon, <2>1 DEF ScheduleOf, Starting
  <2>4. CASE by[s] = 0
    <3>1. startTimer[s] # 0 => ticking[s] \/ gen[s] \in fired[s] \/ gen[s] = 0
      BY Zenon, <2>1, <2>4 DEF ScheduleOf
    <3>2. startTimer[s] # 0 => ticking[s] \/ gen[s] \in fired[s]
      BY Zenon, <3>1 DEF ScheduleOf
    <3>3. QED
      BY Zenon, <1>0, <2>1, <2>4, <3>2, ReleaseKeeps DEF Starting
  <2>5. CASE by[s] # 0
    <3>1. startTimer'[s] = 0 /\ gen'[s] = gen[s] + 1 /\ ~ticking'[s]
          /\ fired'[s] = fired[s] /\ stale'[s] = stale[s]
      BY <1>0, <2>1, <2>2, <2>5, Zenon DEF ReleaseSchedule
    <3>2. gen[s] \in Nat /\ fired[s] \subseteq Nat /\ stale[s] \subseteq Nat
      BY <1>0, Zenon
    <3>3. \A x \in stale'[s] : x # 0 /\ x < gen'[s]
      BY Zenon, <3>1, GenerationsOf
    <3>4. \A x \in fired'[s] : x # 0 /\ x <= gen'[s] /\ x # gen'[s]
      BY Zenon, <3>1, GenerationsOf
    <3>5. QED
      BY ZenonT(40), <2>1, <3>1, <3>3, <3>4 DEF ScheduleOf, Starting
  <2>6. QED
    BY <2>4, <2>5, Zenon
<1>9. CASE ArmRefused(s) \/ ScheduleRefused(s) \/ StopRefused(s)
  BY Zenon, <1>9, ScheduleFrame DEF ArmRefused, ScheduleRefused, StopRefused, timevars
<1>10. CASE ArmBegin(s)
  <2>1. /\ Withdraw(s) /\ UNCHANGED fired /\ mu[s] = "free" /\ mu'[s] = "arming"
        /\ stale'[s] = stale[s] \cup fired[s] \cup ({startTimer[s]} \ {0})
    BY <1>0, <1>10, Zenon DEF ArmBegin, Goto
  <2>2. QED
    BY ZenonT(40), <2>1, WithdrawKeeps DEF Starting
<1>11. ASSUME NEW to, FinishBegin(s, to) PROVE ScheduleOf(s)'
  <2>1. /\ Withdraw(s) /\ UNCHANGED fired /\ mu[s] = "free" /\ mu'[s] = "draining"
        /\ stale'[s] = stale[s]
    BY <1>0, <1>11, Zenon DEF FinishBegin, Goto
  <2>2. QED
    BY Zenon, <2>1, WithdrawKeeps DEF Starting
<1>12. CASE ScheduleStart(s)
  <2>1. /\ startTimer'[s] = gen[s] + 1 /\ gen'[s] = gen[s] + 1 /\ ticking'[s]
        /\ fired'[s] = fired[s] /\ stale'[s] = stale[s] /\ mu'[s] = "free"
    BY Zenon, <1>0, <1>12 DEF ScheduleStart
  <2>2. gen[s] \in Nat /\ fired[s] \subseteq Nat /\ stale[s] \subseteq Nat
    BY <1>0, Zenon
  <2>3. \A x \in stale'[s] : x # 0 /\ x < gen'[s]
    BY Zenon, <2>1, GenerationsOf
  <2>4. \A x \in fired'[s] : x # 0 /\ x <= gen'[s] /\ x # gen'[s]
    BY ZenonT(40), <2>1, GenerationsOf
  <2>5. startTimer'[s] # 0 /\ startTimer'[s] = gen'[s]
    <3>1. \A n \in Nat : n + 1 # 0
      OBVIOUS
    <3>2. QED
      BY <2>1, <2>2, <3>1, Zenon
  <2>6. QED
    BY Zenon, <2>1, <2>3, <2>4, <2>5 DEF ScheduleOf, Starting
<1>13. ASSUME NEW g \in {0} \cup fired[s], StartRefused(s, g) PROVE ScheduleOf(s)'
  <2>1. /\ ReleaseSchedule(s, g) /\ UNCHANGED <<ticking, stale, mu, phase>> /\ mu[s] = "free"
        /\ g \in Nat /\ (g # 0 => g \in fired[s] /\ g = gen[s])
        /\ fired'[s] = fired[s] \ ({g} \ {0})
    BY <1>0, <1>13 DEF StartRefused, Starter, Consumed
  <2>2. g # 0 => ~ticking[s]
    BY ZenonT(40), <2>1 DEF ScheduleOf
  <2>3. phase[s] = "armed" /\ startTimer[s] # 0 => ticking[s] \/ gen[s] \in fired[s]
    BY <2>1, Zenon DEF ScheduleOf
  <2>4. QED
    BY ZenonT(40), <2>1, <2>2, <2>3, ReleaseKeeps DEF Starting
<1>14. ASSUME NEW g \in {0} \cup fired[s], StartFreeze(s, g) PROVE ScheduleOf(s)'
  <2>1. /\ UNCHANGED <<startTimer, ticking, gen, stale, phase>> /\ mu[s] = "free"
        /\ mu'[s] = "freezing" /\ by'[s] = g /\ phase[s] = "armed"
        /\ g \in Nat /\ (g # 0 => g \in fired[s] /\ g = gen[s])
        /\ fired'[s] = fired[s] \ ({g} \ {0})
    <3>1. /\ UNCHANGED <<startTimer, ticking, gen, stale, phase>> /\ mu[s] = "free"
          /\ Goto(s, "freezing") /\ by' = [by EXCEPT ![s] = g] /\ phase[s] = "armed"
          /\ Starter(s, g) /\ Consumed(s, g)
      BY Zenon, <1>14 DEF StartFreeze, Startable, Starter
    <3>2. mu'[s] = "freezing" /\ by'[s] = g
      BY Zenon, <1>0, <3>1 DEF Goto
    <3>3. g \in Nat /\ (g # 0 => g \in fired[s] /\ g = gen[s])
      BY <1>0, <1>14, <3>1 DEF Starter
    <3>4. fired'[s] = fired[s] \ ({g} \ {0})
      BY <1>0, <3>1, Zenon DEF Consumed
    <3>5. QED
      BY Zenon, <3>1, <3>2, <3>3, <3>4
  <2>2. g # 0 => ~ticking[s]
    BY Zenon, <2>1 DEF ScheduleOf
  <2>3. startTimer[s] # 0 => ticking[s] \/ gen[s] \in fired[s]
    BY Zenon, <2>1 DEF ScheduleOf
  <2>4. startTimer'[s] # 0 => ticking'[s] \/ gen'[s] \in fired'[s] \/ by'[s] = gen'[s]
    BY Zenon, <2>1, <2>3
  <2>5. QED
    BY Zenon, <2>1, <2>2, <2>4 DEF ScheduleOf, Starting
<1>15. CASE TimerFires(s)
  <2>1. /\ UNCHANGED <<startTimer, gen, stale, mu, phase, by>> /\ ticking[s] /\ ~ticking'[s]
        /\ fired'[s] = fired[s] \cup {startTimer[s]}
    BY <1>0, <1>15, Zenon DEF TimerFires
  <2>2. startTimer[s] = gen[s] /\ startTimer[s] # 0 /\ gen[s] \in Nat /\ fired[s] \subseteq Nat
    <3>1. startTimer[s] = gen[s] /\ startTimer[s] # 0
      BY Zenon, <2>1 DEF ScheduleOf
    <3>2. QED
      BY <1>0, <3>1, Zenon
  <2>3. \A x \in fired'[s] : x # 0 /\ x <= gen'[s] /\ (x = gen'[s] => startTimer'[s] = x)
    <3>1. gen[s] <= gen[s]
      BY Zenon, <2>2, NatReflexive
    <3>2. QED
      BY Zenon, <2>1, <2>2, <3>1, GenerationsOf
  <2>4. QED
    BY ZenonT(40), <2>1, <2>2, <2>3 DEF ScheduleOf, Starting
<1>16. ASSUME NEW g \in fired[s], FireSuperseded(s, g) PROVE ScheduleOf(s)'
  <2>1. /\ UNCHANGED <<startTimer, ticking, gen, stale, mu, phase, by>> /\ g # gen[s]
        /\ fired'[s] = fired[s] \ {g}
    BY Zenon, <1>0, <1>16 DEF FireSuperseded
  <2>2. QED
    BY Zenon, <2>1 DEF ScheduleOf, Starting
<1>17. CASE Proceed(s)
  BY <1>1, <1>2, <1>3, <1>4, <1>5, <1>6, <1>7, <1>8, <1>17, Zenon DEF Proceed
<1>18. CASE Handle(s)
  BY Zenon, <1>9, <1>10, <1>11, <1>12, <1>13, <1>14, <1>18 DEF Handle, StopRequest
<1>19. CASE Timers(s)
  BY Zenon, <1>11, <1>15, <1>16, <1>19 DEF Timers, SelfFinish
<1>20. QED
  BY Zenon, <1>17, <1>18, <1>19

\* A step of one scenario touches no other scenario's schedule.
LEMMA ScheduleOtherStep ==
  ASSUME TypeOK, NEW s \in Scenarios, NEW t \in Scenarios, s # t, ScheduleOf(s),
         Proceed(t) \/ Handle(t) \/ Timers(t)
  PROVE  ScheduleOf(s)'
<1> DEFINE Same == /\ startTimer'[s] = startTimer[s] /\ ticking'[s] = ticking[s]
                   /\ gen'[s] = gen[s] /\ fired'[s] = fired[s] /\ stale'[s] = stale[s]
                   /\ by'[s] = by[s] /\ mu'[s] = mu[s] /\ phase'[s] = phase[s]
<1>0. /\ startTimer \in [Scenarios -> Nat] /\ gen \in [Scenarios -> Nat] /\ by \in [Scenarios -> Nat]
      /\ ticking \in [Scenarios -> BOOLEAN] /\ fired \in [Scenarios -> SUBSET Nat]
      /\ stale \in [Scenarios -> SUBSET Nat] /\ mu \in [Scenarios -> Holders]
      /\ phase \in [Scenarios -> Phases]
  BY Zenon DEF TypeOK, TimerTypeOK, ClaimTypeOK
<1>1. ASSUME NEW d \in Devices, ArmInstall(t, d) \/ ArmExclude(t, d) PROVE Same
  BY Zenon, <1>1 DEF ArmInstall, ArmExclude, timevars
<1>2. ASSUME \/ ArmEnd(t) \/ StartPrune(t) \/ StartRunning(t) \/ StartEmitting(t)
             \/ NoteOverlaps(t)
      PROVE  Same
  BY Zenon, <1>0, <1>2 DEF ArmEnd, StartPrune, StartRunning, StartEmitting, NoteOverlaps, Goto,
                    SetPhase, timevars
<1>3. ASSUME StartFailed(t) \/ StartRollback(t) PROVE Same
  BY Zenon, <1>0, <1>3 DEF StartFailed, StartRollback, ReleaseSchedule, Goto, SetPhase
<1>4. ASSUME FinishDrained(t) \/ FinishDetach(t) \/ FinishUnfreeze(t) PROVE Same
  BY <1>0, <1>4, Zenon DEF FinishDrained, FinishDetach, FinishUnfreeze, Goto, timevars
<1>5. ASSUME ArmRefused(t) \/ ScheduleRefused(t) \/ StopRefused(t) PROVE Same
  BY Zenon, <1>5 DEF ArmRefused, ScheduleRefused, StopRefused, timevars
<1>6. ASSUME ArmBegin(t) PROVE Same
  BY ZenonT(40), <1>0, <1>6 DEF ArmBegin, Withdraw, Goto, SetPhase
<1>7. ASSUME NEW to, FinishBegin(t, to) PROVE Same
  BY <1>0, <1>7, Zenon DEF FinishBegin, Withdraw, Goto, SetPhase
<1>8. ASSUME ScheduleStart(t) PROVE Same
  BY Zenon, <1>0, <1>8 DEF ScheduleStart
<1>9. ASSUME NEW g, StartRefused(t, g) PROVE Same
  BY ZenonT(40), <1>0, <1>9 DEF StartRefused, ReleaseSchedule, Consumed
<1>10. ASSUME NEW g, StartFreeze(t, g) PROVE Same
  BY Zenon, <1>0, <1>10 DEF StartFreeze, Consumed, Goto
<1>11. ASSUME TimerFires(t) \/ \E g \in fired[t] : FireSuperseded(t, g) PROVE Same
  BY <1>0, <1>11, Zenon DEF TimerFires, FireSuperseded
<1>12. Same
  <2> HIDE DEF Same
  <2>1. CASE Proceed(t)
    BY <1>1, <1>2, <1>3, <1>4, <2>1, Zenon DEF Proceed
  <2>2. CASE Handle(t)
    BY Zenon, <1>5, <1>6, <1>7, <1>8, <1>9, <1>10, <2>2 DEF Handle, StopRequest
  <2>3. CASE Timers(t)
    BY Zenon, <1>7, <1>11, <2>3 DEF Timers, SelfFinish
  <2>4. QED
    BY Zenon, <2>1, <2>2, <2>3
<1>13. QED
  BY Zenon, <1>12, ScheduleFrame

\* The schedules stay consistent whatever step is taken.
LEMMA ScheduleStep == TypeOK /\ LifecycleInv /\ ScheduleInv /\ [Next]_vars => ScheduleInv'
<1> SUFFICES ASSUME TypeOK, LifecycleInv, ScheduleInv, [Next]_vars, NEW s \in Scenarios
             PROVE  ScheduleOf(s)'
  BY Zenon DEF ScheduleInv
<1>0. /\ ScheduleOf(s)
      /\ startTimer \in [Scenarios -> Nat] /\ gen \in [Scenarios -> Nat]
      /\ ticking \in [Scenarios -> BOOLEAN] /\ phase \in [Scenarios -> Phases]
      /\ deleting \in Scenarios \cup {Nobody}
  BY ZenonT(40) DEF ScheduleInv, TypeOK, TimerTypeOK, ClaimTypeOK, RegistryTypeOK
<1>1. ASSUME UNCHANGED <<timevars, by, mu, phase>> PROVE ScheduleOf(s)'
  BY <1>0, <1>1, ScheduleFrame, Zenon DEF timevars
<1>2. CASE DeleteCancel
  <2>1. /\ Withdraw(deleting) /\ UNCHANGED <<fired, stale, by, mu>> /\ mu[deleting] = "free"
        /\ phase' = [phase EXCEPT ![deleting] = "canceled"] /\ deleting \in Scenarios
    BY Zenon, <1>0, <1>2 DEF DeleteCancel, SetPhase
  <2>2. CASE deleting = s
    BY Zenon, <1>0, <2>1, <2>2, WithdrawKeeps DEF Starting
  <2>3. CASE deleting # s
    <3>1. /\ startTimer'[s] = startTimer[s] /\ ticking'[s] = ticking[s] /\ gen'[s] = gen[s]
          /\ phase'[s] = phase[s]
      BY ZenonT(40), <1>0, <2>1, <2>3 DEF Withdraw
    <3>2. QED
      BY Zenon, <1>0, <2>1, <3>1, ScheduleFrame
  <2>4. QED
    BY <2>2, <2>3, Zenon
<1>3. ASSUME Registry, ~DeleteCancel PROVE UNCHANGED <<timevars, by, mu, phase>>
  BY Zenon, <1>3 DEF Registry, Submit, DeleteBegin, Lookup, DeleteRefused, DeleteDrop
<1>4. ASSUME Fleet PROVE UNCHANGED <<timevars, by, mu, phase>>
  BY <1>4, Zenon DEF Fleet, BatchBegin, BatchCheck, BatchEnd, BatchCreate, DeleteDevice,
              DeleteAllDevices, RemoveDevices
<1>5. ASSUME NEW t \in Scenarios, Proceed(t) \/ Handle(t) \/ Timers(t) PROVE ScheduleOf(s)'
  BY <1>0, <1>5, ScheduleOwnStep, ScheduleOtherStep, Zenon
<1>6. ASSUME UNCHANGED vars PROVE UNCHANGED <<timevars, by, mu, phase>>
  BY <1>6, Zenon DEF vars
<1>7. QED
  BY <1>1, <1>2, <1>3, <1>4, <1>5, <1>6, Zenon DEF Next

\* Types, claims, schedules and disclosure hold together.
FullInv == TypeOK /\ LifecycleInv /\ OnlySubmittedAct /\ OverlapDisclosed /\ ScheduleInv

\* The whole lifecycle invariant: the first theorem, and what is built on it.
THEOREM FullInvariant == Spec => []FullInv
<1>1. Init => OnlySubmittedAct /\ OverlapDisclosed /\ ScheduleInv
  BY ScheduleInit, Zenon
<1>2. TypeOK /\ LifecycleInv /\ (OnlySubmittedAct /\ OverlapDisclosed /\ ScheduleInv) /\ [Next]_vars
        => (OnlySubmittedAct /\ OverlapDisclosed /\ ScheduleInv)'
  BY OnlySubmittedStep, OverlapStep, ScheduleStep, Zenon
<1>3. QED
  BY <1>1, <1>2, LifecycleInvariant, PTL DEF Spec, FullInv

\* RunsHeld for every number of scenarios and devices, every selector and every bound:
\* the freeze is held exactly while a scenario starts or runs and never over a creation
\* batch, a running scenario has its devices and they carry its handle, no handle is left
\* behind, and scenarios that emit at once name each other (scenario_controller.go).
THEOREM RunsAlwaysHeld == Spec => []RunsHeld
<1>1. FullInv => RunsHeld
  BY Zenon DEF FullInv, LifecycleInv, RunsHeld
<1>2. QED
  BY <1>1, FullInvariant, PTL

\* SchedulesHeld for every instance: startScheduled acts only for the membership it was
\* authorised for, and an armed scenario that shows a schedule will get it or release it.
THEOREM SchedulesAlwaysHeld == Spec => []SchedulesHeld
<1>1. FullInv => SchedulesHeld
  <2> SUFFICES ASSUME FullInv, NEW s \in Scenarios
               PROVE  /\ mu[s] \in Starting => by[s] \notin stale[s]
                      /\ phase[s] = "armed" /\ mu[s] \in {"free", "arming"} /\ startTimer[s] # 0
                           => startTimer[s] = gen[s] /\ (ticking[s] \/ gen[s] \in fired[s])
    BY Zenon DEF SchedulesHeld, NoUnauthorisedStart, NoStrandedSchedule, Starting
  <2>1. ScheduleOf(s) /\ gen[s] \in Nat
    BY Zenon DEF FullInv, ScheduleInv, TypeOK, TimerTypeOK
  <2>2. ~(gen[s] < gen[s])
    BY <2>1
  <2>3. mu[s] \in Starting => by[s] \notin stale[s]
    <3>1. \A g \in stale[s] : g # 0 /\ g < gen[s]
      BY ZenonT(40), <2>1 DEF ScheduleOf
    <3>2. mu[s] \in Starting /\ by[s] # 0 => by[s] = gen[s]
      BY <2>1, Zenon DEF ScheduleOf
    <3>3. QED
      BY Zenon, <2>2, <3>1, <3>2
  <2>4. QED
    BY Zenon, <2>1, <2>3 DEF ScheduleOf
<1>2. QED
  BY <1>1, FullInvariant, PTL

\* ClaimsKept for every instance: no step hands a device from one scenario to another,
\* and no step takes a scenario back to a phase it has left (claimScenPart,
\* transitionLocked).
THEOREM ClaimsAlwaysKept == Spec => ClaimsKept
<1>1. PhaseStep => \A s \in Scenarios :
       phase'[s] # phase[s] =>
         <<phase[s], phase'[s]>> \in
            {<<"submitted", "armed">>, <<"armed", "running">>, <<"armed", "canceled">>,
             <<"running", "armed">>, <<"running", "stopped">>, <<"running", "aborted">>}
  BY Zenon DEF PhaseStep
<1>2. Spec => PhaseForward
  BY <1>1, PhaseSteps, LifecycleInvariant, PTL DEF Spec, PhaseForward
<1>3. QED
  BY <1>2, ClaimsNeverStolen, PTL DEF ClaimsKept

============================================================================
