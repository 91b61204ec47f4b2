-------------------------- MODULE ScenarioLifecycle --------------------------
(***************************************************************************)
(* The life of load-test scenarios: registry, arm, start, scheduled start, *)
(* cancel, finish, delete, and the fleet they freeze.                      *)
(*                                                                         *)
(* A scenario is its sequence number.  Every controller operation runs     *)
(* under that controller's c.mu; mu[s] says which operation holds it and   *)
(* how far it is, "free" when none does.  What another lock-holder can see *)
(* between two steps (the lock-free phase, the claims on the exporters,    *)
(* the freeze, the emitting flag) is a step boundary here.  sm.mu is held  *)
(* for reading by an arm from its first to its last step, and for writing  *)
(* only inside single steps.  scenarioMu is held by a delete.              *)
(***************************************************************************)
EXTENDS Integers, FiniteSets

CONSTANTS
  Devices,
  MaxSubmits,       \* bound: scenarios submitted in a behaviour
  MaxConcurrent,    \* scenarioMaxConcurrent
  MaxRetained,      \* scenarioMaxRetained
  MaxParticipants,  \* scenarioMaxParticipants
  MaxGen,           \* bound: schedule generations of a scenario
  MaxRequests,      \* bound: requests between their lookup and c.mu
  Selected,         \* Selected[s]: the devices participants and participants_cidr name
  Expect            \* Expect[s]: expect_participants, 0 when undeclared

Scenarios == 1..MaxSubmits

ASSUME SubmitsAssumption == MaxSubmits \in Nat
ASSUME SelectedAssumption == Selected \in [Scenarios -> SUBSET Devices]

Nobody == 0         \* an empty scenPart slot; no scenario has this number

VARIABLES
  seq,          \* scenarioSeq
  registry,     \* sm.scenarios, and scenarioSnap, its lock-free mirror
  deleting,     \* the scenario a deleteScenario is about, Nobody when none runs
  seen,         \* the phase that deleteScenario read
  reqs,         \* requests that have looked their scenario up and wait for c.mu
  phase,        \* c.phase and its mirror phasePub
  mu,           \* the operation that holds c.mu
  parts,        \* the keys of c.parts
  todo,         \* arm: candidates not visited yet
  prev,         \* arm: prevParts
  by,           \* start: the schedule generation it runs for, 0 for a manual one
  startTimer,   \* generation of c.startTimer, 0 when nil
  ticking,      \* c.startTimer has neither fired nor been stopped
  gen,          \* c.scheduleGen
  fired,        \* generations whose timer fired and whose callback waits for c.mu
  stale,        \* history: generations outstanding when a later arm resolved membership
  live,         \* the keys of sm.devicesByIP
  slot,         \* slot[d]: owner of the scenPart on d's exporter
  frozen,       \* sm.fleetFrozenBy
  batch,        \* the creation batch: "idle", "flagged" (isCreatingDevices set), "creating"
  emitting,     \* c.emitting
  overlaps      \* the keys of c.overlaps

regvars == <<seq, registry, deleting, seen>>
timevars == <<startTimer, ticking, gen, fired, stale>>
armvars == <<todo, prev>>
fleetvars == <<live, batch>>
ovlvars == <<emitting, overlaps>>
vars == <<regvars, reqs, phase, mu, parts, armvars, by, timevars, fleetvars, slot, frozen, ovlvars>>

Terminal == {"stopped", "aborted", "canceled"}
Phases == {"submitted", "armed", "running"} \cup Terminal
Ops == {"arm", "start", "schedule", "stop"}
Holders == {"free", "arming", "freezing", "pruned", "launching", "noting",
            "draining", "detaching", "unfreezing"}

RegistryTypeOK ==
  /\ seq \in 0..MaxSubmits
  /\ registry \subseteq 1..seq
  /\ deleting \in Scenarios \cup {Nobody}
  /\ seen \in Phases
  /\ reqs \subseteq Scenarios \X Ops

TimerTypeOK ==
  /\ by \in [Scenarios -> Nat]
  /\ startTimer \in [Scenarios -> Nat]
  /\ ticking \in [Scenarios -> BOOLEAN]
  /\ gen \in [Scenarios -> Nat]
  /\ fired \in [Scenarios -> SUBSET Nat]
  /\ stale \in [Scenarios -> SUBSET Nat]

OverlapTypeOK ==
  /\ emitting \in [Scenarios -> BOOLEAN]
  /\ overlaps \in [Scenarios -> SUBSET Scenarios]

ClaimTypeOK ==
  /\ phase \in [Scenarios -> Phases]
  /\ mu \in [Scenarios -> Holders]
  /\ parts \in [Scenarios -> SUBSET Devices]
  /\ todo \in [Scenarios -> SUBSET Devices]
  /\ prev \in [Scenarios -> SUBSET Devices]
  /\ live \subseteq Devices
  /\ slot \in [Devices -> Scenarios \cup {Nobody}]
  /\ frozen \subseteq Scenarios
  /\ batch \in {"idle", "flagged", "creating"}

TypeOK == RegistryTypeOK /\ TimerTypeOK /\ OverlapTypeOK /\ ClaimTypeOK

Init ==
  /\ seq = 0 /\ registry = {} /\ deleting = Nobody /\ seen = "submitted" /\ reqs = {}
  /\ phase = [s \in Scenarios |-> "submitted"]
  /\ mu = [s \in Scenarios |-> "free"]
  /\ parts = [s \in Scenarios |-> {}]
  /\ todo = [s \in Scenarios |-> {}]
  /\ prev = [s \in Scenarios |-> {}]
  /\ by = [s \in Scenarios |-> 0]
  /\ startTimer = [s \in Scenarios |-> 0]
  /\ ticking = [s \in Scenarios |-> FALSE]
  /\ gen = [s \in Scenarios |-> 0]
  /\ fired = [s \in Scenarios |-> {}]
  /\ stale = [s \in Scenarios |-> {}]
  /\ live = {}
  /\ slot = [d \in Devices |-> Nobody]
  /\ frozen = {}
  /\ batch = "idle"
  /\ emitting = [s \in Scenarios |-> FALSE]
  /\ overlaps = [s \in Scenarios |-> {}]
------------------------------------------------------------------------------
(* Locks. *)

SmUnread == \A s \in Scenarios : mu[s] # "arming"       \* sm.mu can be write-locked
ScenarioMuFree == deleting = Nobody

Goto(s, pc) == mu' = [mu EXCEPT ![s] = pc]
SetPhase(s, p) == phase' = [phase EXCEPT ![s] = p]
Served(s, op) == reqs' = reqs \ {<<s, op>>}
------------------------------------------------------------------------------
(* The registry: submitScenario, scenarioByID, deleteScenario. *)

Live == {s \in registry : phase[s] \notin Terminal}
Finished == registry \ Live

\* submitScenario's reaping: the oldest terminal scenarios beyond MaxRetained.
Reaped == {s \in Finished :
             Cardinality({t \in Finished : t > s}) >= MaxRetained}

Admits == Cardinality(Live) < MaxConcurrent

NextID == seq' = seq + 1

Submit ==
  /\ seq < MaxSubmits
  /\ ScenarioMuFree
  /\ Admits
  /\ NextID
  /\ registry' = (registry \ Reaped) \cup {seq + 1}
  /\ UNCHANGED <<deleting, seen, reqs, phase, mu, parts, armvars, by, timevars,
                 fleetvars, slot, frozen, ovlvars>>

\* lookupScenario: the handler keeps the controller and goes on without scenarioMu.
Lookup(s, op) ==
  /\ ScenarioMuFree
  /\ s \in registry
  /\ <<s, op>> \notin reqs
  /\ Cardinality(reqs) < MaxRequests
  /\ reqs' = reqs \cup {<<s, op>>}
  /\ UNCHANGED <<regvars, phase, mu, parts, armvars, by, timevars, fleetvars, slot,
                 frozen, ovlvars>>

\* deleteScenario takes scenarioMu and reads the lock-free phase.
DeleteBegin(s) ==
  /\ ScenarioMuFree
  /\ s \in registry
  /\ deleting' = s
  /\ seen' = phase[s]
  /\ UNCHANGED <<seq, registry, reqs, phase, mu, parts, armvars, by, timevars,
                 fleetvars, slot, frozen, ovlvars>>

\* detachScenPart on every device of D that still exists: ownership-checked.
Detached(s, D) == [d \in Devices |-> IF d \in D \cap live /\ slot[d] = s
                                     THEN Nobody ELSE slot[d]]

\* A slip: the timer is stopped but its generation is not superseded.
WithdrawStopOnly(s) ==
  IF startTimer[s] # 0
  THEN /\ startTimer' = [startTimer EXCEPT ![s] = 0]
       /\ ticking' = [ticking EXCEPT ![s] = FALSE]
       /\ UNCHANGED gen
  ELSE UNCHANGED <<startTimer, ticking, gen>>

\* Stop the pending start timer and neutralise a fire that got past Stop().
Withdraw(s) ==
  IF startTimer[s] # 0
  THEN /\ startTimer' = [startTimer EXCEPT ![s] = 0]
       /\ ticking' = [ticking EXCEPT ![s] = FALSE]
       /\ gen' = [gen EXCEPT ![s] = @ + 1]
  ELSE UNCHANGED <<startTimer, ticking, gen>>

\* deleteScenario, the refusal of a running scenario and of a failed Cancel.
DeleteRefused ==
  /\ deleting # Nobody
  /\ \/ seen = "running"
     \/ seen = "armed" /\ mu[deleting] = "free" /\ phase[deleting] # "armed"
  /\ deleting' = Nobody /\ seen' = "submitted"
  /\ UNCHANGED <<seq, registry, reqs, phase, mu, parts, armvars, by, timevars,
                 fleetvars, slot, frozen, ovlvars>>

\* deleteScenario of an armed scenario: Cancel, then the registration goes.
DeleteCancel ==
  /\ deleting # Nobody
  /\ seen = "armed" /\ mu[deleting] = "free" /\ phase[deleting] = "armed"
  /\ SetPhase(deleting, "canceled")
  /\ Withdraw(deleting)
  /\ slot' = Detached(deleting, parts[deleting])
  /\ registry' = registry \ {deleting}
  /\ deleting' = Nobody /\ seen' = "submitted"
  /\ UNCHANGED <<seq, reqs, mu, parts, armvars, by, fired, stale, fleetvars,
                 frozen, ovlvars>>

\* deleteScenario of a submitted or terminal scenario.
DeleteDrop ==
  /\ deleting # Nobody
  /\ seen \notin {"running", "armed"}
  /\ registry' = registry \ {deleting}
  /\ deleting' = Nobody /\ seen' = "submitted"
  /\ UNCHANGED <<seq, reqs, phase, mu, parts, armvars, by, timevars, fleetvars,
                 slot, frozen, ovlvars>>
------------------------------------------------------------------------------
(* ArmReadiness. *)

Candidates(s) == Selected[s] \cap live
Conflict(s) == \E d \in Candidates(s) : slot[d] \notin {Nobody, s}

Armable(s) == phase[s] \in {"submitted", "armed"}

ArmLegal(s) == /\ Cardinality(Candidates(s)) <= MaxParticipants
               /\ ~Conflict(s)
               /\ Armable(s)

ArmRefused(s) ==
  /\ <<s, "arm">> \in reqs
  /\ mu[s] = "free"
  /\ ~ArmLegal(s)
  /\ Served(s, "arm")
  /\ UNCHANGED <<regvars, phase, mu, parts, armvars, by, timevars, fleetvars, slot,
                 frozen, ovlvars>>

ArmBegin(s) ==
  /\ <<s, "arm">> \in reqs
  /\ mu[s] = "free"
  /\ ArmLegal(s)
  /\ Served(s, "arm")
  /\ SetPhase(s, "armed")
  /\ Withdraw(s)
  /\ stale' = [stale EXCEPT ![s] = @ \cup fired[s] \cup ({startTimer[s]} \ {0})]
  /\ prev' = [prev EXCEPT ![s] = parts[s]]
  /\ parts' = [parts EXCEPT ![s] = {}]
  /\ todo' = [todo EXCEPT ![s] = Candidates(s)]
  /\ Goto(s, "arming")
  /\ UNCHANGED <<regvars, by, fired, fleetvars, slot, frozen, ovlvars>>

\* A slip in claimScenPart: the handle is stored without looking at the holder.
ClaimsAny(s, d) == TRUE

\* claimScenPart's compare-and-swap succeeds.
Claims(s, d) == slot[d] \in {Nobody, s}

\* installScenPart succeeds on one device.
ArmInstall(s, d) ==
  /\ mu[s] = "arming"
  /\ d \in todo[s]
  /\ Claims(s, d)
  /\ slot' = [slot EXCEPT ![d] = s]
  /\ parts' = [parts EXCEPT ![s] = @ \cup {d}]
  /\ todo' = [todo EXCEPT ![s] = @ \ {d}]
  /\ UNCHANGED <<regvars, reqs, phase, mu, prev, by, timevars, fleetvars, frozen, ovlvars>>

\* installScenPart fails: another scenario holds the device, or the device has
\* no exporter for the protocol, cannot reach the rate, or its stream is down.
ArmExclude(s, d) ==
  /\ mu[s] = "arming"
  /\ d \in todo[s]
  /\ todo' = [todo EXCEPT ![s] = @ \ {d}]
  /\ UNCHANGED <<regvars, reqs, phase, mu, parts, prev, by, timevars, fleetvars, slot,
                 frozen, ovlvars>>

\* The handles of the previous arm that this one did not re-install are detached.
ArmEnd(s) ==
  /\ mu[s] = "arming"
  /\ todo[s] = {}
  /\ slot' = Detached(s, prev[s] \ parts[s])
  /\ prev' = [prev EXCEPT ![s] = {}]
  /\ Goto(s, "free")
  /\ UNCHANGED <<regvars, reqs, phase, parts, todo, by, timevars, fleetvars, frozen,
                 ovlvars>>
------------------------------------------------------------------------------
(* Start, ScheduleStart, startScheduled. *)

\* expectationDiagnosis is empty.
ExpectationMet(s, D) == Expect[s] = 0 \/ Cardinality(D) = Expect[s]

\* ScheduleStart succeeds.
ScheduleStart(s) ==
  /\ <<s, "schedule">> \in reqs
  /\ mu[s] = "free"
  /\ phase[s] = "armed" /\ parts[s] # {} /\ ExpectationMet(s, parts[s])
  /\ startTimer[s] = 0
  /\ gen[s] < MaxGen
  /\ Served(s, "schedule")
  /\ gen' = [gen EXCEPT ![s] = @ + 1]
  /\ startTimer' = [startTimer EXCEPT ![s] = gen[s] + 1]
  /\ ticking' = [ticking EXCEPT ![s] = TRUE]
  /\ UNCHANGED <<regvars, phase, mu, parts, armvars, by, fired, stale, fleetvars, slot,
                 frozen, ovlvars>>

ScheduleRefused(s) ==
  /\ <<s, "schedule">> \in reqs
  /\ mu[s] = "free"
  /\ \/ phase[s] # "armed" \/ parts[s] = {} \/ ~ExpectationMet(s, parts[s])
     \/ startTimer[s] # 0
     \/ gen[s] >= MaxGen                        \* bound
  /\ Served(s, "schedule")
  /\ UNCHANGED <<regvars, phase, mu, parts, armvars, by, timevars, fleetvars, slot,
                 frozen, ovlvars>>

\* T0 arrives: the timer's goroutine heads for c.mu.
TimerFires(s) ==
  /\ ticking[s]
  /\ ticking' = [ticking EXCEPT ![s] = FALSE]
  /\ fired' = [fired EXCEPT ![s] = @ \cup {startTimer[s]}]
  /\ UNCHANGED <<regvars, reqs, phase, mu, parts, armvars, by, startTimer, gen, stale,
                 fleetvars, slot, frozen, ovlvars>>

\* startScheduled: its generation was superseded.
FireSuperseded(s, g) ==
  /\ g \in fired[s]
  /\ mu[s] = "free"
  /\ g # gen[s]
  /\ fired' = [fired EXCEPT ![s] = @ \ {g}]
  /\ UNCHANGED <<regvars, reqs, phase, mu, parts, armvars, by, startTimer, ticking, gen,
                 stale, fleetvars, slot, frozen, ovlvars>>

\* A start runs for a request (g = 0) or for a fired timer that is still authorised.
Starter(s, g) == /\ mu[s] = "free"
                 /\ IF g = 0 THEN <<s, "start">> \in reqs
                             ELSE g \in fired[s] /\ g = gen[s]

\* The request is answered, or the timer's callback has run.
Consumed(s, g) ==
  IF g = 0 THEN Served(s, "start") /\ UNCHANGED fired
           ELSE fired' = [fired EXCEPT ![s] = @ \ {g}] /\ UNCHANGED reqs

\* startScheduled releases the schedule of a start that failed.
ReleaseSchedule(s, g) ==
  IF g # 0 /\ g = gen[s]
  THEN /\ startTimer' = [startTimer EXCEPT ![s] = 0]
       /\ gen' = [gen EXCEPT ![s] = @ + 1]
  ELSE UNCHANGED <<startTimer, gen>>

\* freezeFleet's test of isCreatingDevices.
Freezes == batch = "idle"

\* unfreezeFleet.
Unfreeze(s) == frozen' = frozen \ {s}

Startable(s) == phase[s] = "armed" /\ parts[s] # {} /\ ExpectationMet(s, parts[s])

\* startLocked refuses before it freezes anything; freezeFleet itself refuses
\* while isCreatingDevices is set.
StartRefused(s, g) ==
  /\ Starter(s, g)
  /\ ~Startable(s) \/ (SmUnread /\ ~Freezes)
  /\ Consumed(s, g)
  /\ ReleaseSchedule(s, g)
  /\ UNCHANGED <<regvars, phase, mu, parts, armvars, by, ticking, stale, fleetvars, slot,
                 frozen, ovlvars>>

\* freezeFleet.
StartFreeze(s, g) ==
  /\ Starter(s, g)
  /\ Startable(s)
  /\ SmUnread /\ Freezes
  /\ Consumed(s, g)
  /\ frozen' = frozen \cup {s}
  /\ by' = [by EXCEPT ![s] = g]
  /\ Goto(s, "freezing")
  /\ UNCHANGED <<regvars, phase, parts, armvars, startTimer, ticking, gen, stale, fleetvars,
                 slot, ovlvars>>

\* A slip in the prune: the devices it keeps are not given the handle again.
PrunedPresence(s, kept) == Detached(s, parts[s] \ kept)

\* The handles after the prune has kept some participants.
Pruned(s, kept) == [d \in Devices |-> IF d \in kept THEN s ELSE Detached(s, parts[s])[d]]

\* The arm-to-start prune: handles are re-installed on the devices that exist
\* and still qualify; the others are detached and dropped.
StartPrune(s) ==
  /\ mu[s] = "freezing"
  /\ \E kept \in SUBSET {d \in parts[s] \cap live : Claims(s, d)} :
       /\ parts' = [parts EXCEPT ![s] = kept]
       /\ slot' = Pruned(s, kept)
  /\ Goto(s, "pruned")
  /\ UNCHANGED <<regvars, reqs, phase, armvars, by, timevars, fleetvars, frozen, ovlvars>>

\* Nothing left, or fewer than expected: unfreeze and report the error.
StartFailed(s) ==
  /\ mu[s] = "pruned"
  /\ SmUnread
  /\ parts[s] = {} \/ ~ExpectationMet(s, parts[s])
  /\ Unfreeze(s)
  /\ ReleaseSchedule(s, by[s])
  /\ by' = [by EXCEPT ![s] = 0]
  /\ Goto(s, "free")
  /\ UNCHANGED <<regvars, reqs, phase, parts, armvars, ticking, fired, stale, fleetvars,
                 slot, ovlvars>>

\* The running phase and gate are published and the emitters are being built.
StartRunning(s) ==
  /\ mu[s] = "pruned"
  /\ parts[s] # {} /\ ExpectationMet(s, parts[s])
  /\ SetPhase(s, "running")
  /\ Goto(s, "launching")
  /\ UNCHANGED <<regvars, reqs, parts, armvars, by, timevars, fleetvars, slot, frozen,
                 ovlvars>>

\* rollbackStartLocked: the scheduler could not be constructed.
StartRollback(s) ==
  /\ mu[s] = "launching"
  /\ SmUnread
  /\ SetPhase(s, "armed")
  /\ Unfreeze(s)
  /\ ReleaseSchedule(s, by[s])
  /\ by' = [by EXCEPT ![s] = 0]
  /\ Goto(s, "free")
  /\ UNCHANGED <<regvars, reqs, parts, armvars, ticking, fired, stale, fleetvars, slot,
                 ovlvars>>

\* Emitters run, the auto-stop timer is set, emitting is published.
StartEmitting(s) ==
  /\ mu[s] = "launching"
  /\ emitting' = [emitting EXCEPT ![s] = TRUE]
  /\ Goto(s, "noting")
  /\ UNCHANGED <<regvars, reqs, phase, parts, armvars, by, timevars, fleetvars, slot, frozen,
                 overlaps>>

\* runningPeers, of one protocol.
RunningPeers(s) == {t \in registry : t # s /\ emitting[t]}

\* The overlaps of t once s has noted its own.
Linked(s, t) == IF t = s THEN overlaps[s] \cup RunningPeers(s)
                ELSE IF t \in RunningPeers(s) THEN overlaps[t] \cup {s}
                ELSE overlaps[t]

\* noteOverlapsLocked: each side is linked to the other.
NoteOverlaps(s) ==
  /\ mu[s] = "noting"
  /\ overlaps' = [t \in Scenarios |-> Linked(s, t)]
  /\ by' = [by EXCEPT ![s] = 0]
  /\ Goto(s, "free")
  /\ UNCHANGED <<regvars, reqs, phase, parts, armvars, timevars, fleetvars, slot, frozen,
                 emitting>>
------------------------------------------------------------------------------
(* finish: Stop (a request, or the auto-stop timer) and Abort (the abort       *)
(* predicate, or shutdown).                                                    *)

\* The terminal phase is published first; c.mu is held until the end.
FinishBegin(s, to) ==
  /\ mu[s] = "free"
  /\ phase[s] = "running"
  /\ SetPhase(s, to)
  /\ Withdraw(s)
  /\ Goto(s, "draining")
  /\ UNCHANGED <<regvars, parts, armvars, by, fired, stale, fleetvars, slot, frozen, ovlvars>>

StopRequest(s) == /\ <<s, "stop">> \in reqs
                  /\ FinishBegin(s, "stopped")
                  /\ Served(s, "stop")

\* The auto-stop timer at T1, the abort predicate, or shutdown.
SelfFinish(s) == /\ \E to \in {"stopped", "aborted"} : FinishBegin(s, to)
                 /\ UNCHANGED reqs

StopRefused(s) ==
  /\ <<s, "stop">> \in reqs
  /\ mu[s] = "free"
  /\ phase[s] # "running"
  /\ Served(s, "stop")
  /\ UNCHANGED <<regvars, phase, mu, parts, armvars, by, timevars, fleetvars, slot, frozen,
                 ovlvars>>

\* The joins and the drain barrier have returned.
FinishDrained(s) ==
  /\ mu[s] = "draining"
  /\ emitting' = [emitting EXCEPT ![s] = FALSE]
  /\ Goto(s, "detaching")
  /\ UNCHANGED <<regvars, reqs, phase, parts, armvars, by, timevars, fleetvars, slot, frozen,
                 overlaps>>

FinishDetach(s) ==
  /\ mu[s] = "detaching"
  /\ slot' = Detached(s, parts[s])
  /\ Goto(s, "unfreezing")
  /\ UNCHANGED <<regvars, reqs, phase, parts, armvars, by, timevars, fleetvars, frozen,
                 ovlvars>>

\* unfreezeFleet, then the result is published.
FinishUnfreeze(s) ==
  /\ mu[s] = "unfreezing"
  /\ SmUnread
  /\ Unfreeze(s)
  /\ Goto(s, "free")
  /\ UNCHANGED <<regvars, reqs, phase, parts, armvars, by, timevars, fleetvars, slot,
                 ovlvars>>
------------------------------------------------------------------------------
(* The fleet: createDevicesWithOptionsLocked, DeleteDevice, DeleteAllDevices. *)

\* isCreatingDevices is published before the freeze check.
BatchBegin ==
  /\ batch = "idle"
  /\ batch' = "flagged"
  /\ UNCHANGED <<regvars, reqs, phase, mu, parts, armvars, by, timevars, live, slot, frozen,
                 ovlvars>>

\* fleetFreezeCheck.
BatchCheck ==
  /\ batch = "flagged"
  /\ batch' = IF frozen = {} THEN "creating" ELSE "idle"
  /\ UNCHANGED <<regvars, reqs, phase, mu, parts, armvars, by, timevars, live, slot, frozen,
                 ovlvars>>

\* A device joins the maps; its fresh exporter carries no handle.
BatchCreate(d) ==
  /\ batch = "creating"
  /\ SmUnread
  /\ d \notin live
  /\ live' = live \cup {d}
  /\ UNCHANGED <<regvars, reqs, phase, mu, parts, armvars, by, timevars, batch, slot, frozen,
                 ovlvars>>

BatchEnd ==
  /\ batch = "creating"
  /\ batch' = "idle"
  /\ UNCHANGED <<regvars, reqs, phase, mu, parts, armvars, by, timevars, live, slot, frozen,
                 ovlvars>>

\* DeleteDevice of one device, or DeleteAllDevices: freeze check and removal share
\* one write lock.  The exporter, and the handle on it, go with the device.
RemoveDevices(D) ==
  /\ SmUnread
  /\ frozen = {}
  /\ live' = live \ D
  /\ slot' = [d \in Devices |-> IF d \in D THEN Nobody ELSE slot[d]]
  /\ UNCHANGED <<regvars, reqs, phase, mu, parts, armvars, by, timevars, batch, frozen,
                 ovlvars>>

DeleteDevice(d) == d \in live /\ RemoveDevices({d})
DeleteAllDevices == live # {} /\ RemoveDevices(live)
------------------------------------------------------------------------------
\* The next step of whatever operation holds c.mu.
Proceed(s) ==
  \/ \E d \in Devices : ArmInstall(s, d) \/ ArmExclude(s, d)
  \/ ArmEnd(s)
  \/ StartPrune(s) \/ StartFailed(s) \/ StartRunning(s) \/ StartRollback(s)
  \/ StartEmitting(s) \/ NoteOverlaps(s)
  \/ FinishDrained(s) \/ FinishDetach(s) \/ FinishUnfreeze(s)

Handle(s) ==
  \/ ArmRefused(s) \/ ArmBegin(s)
  \/ ScheduleStart(s) \/ ScheduleRefused(s)
  \/ \E g \in {0} \cup fired[s] : StartRefused(s, g) \/ StartFreeze(s, g)
  \/ StopRequest(s) \/ StopRefused(s)

Timers(s) == \/ TimerFires(s)
             \/ \E g \in fired[s] : FireSuperseded(s, g)
             \/ SelfFinish(s)

Registry == \/ Submit
            \/ \E s \in registry : DeleteBegin(s) \/ \E op \in Ops : Lookup(s, op)
            \/ DeleteRefused \/ DeleteCancel \/ DeleteDrop

Fleet == \/ BatchBegin \/ BatchCheck \/ BatchEnd
         \/ \E d \in Devices : BatchCreate(d) \/ DeleteDevice(d)
         \/ DeleteAllDevices

Next == \/ \E s \in Scenarios : Proceed(s) \/ Handle(s) \/ Timers(s)
        \/ Registry
        \/ Fleet

\* An operation that holds c.mu goes on to its end (finalize is bounded, see
\* DrainGate), timers fire, and a running scenario's window ends.  Strong fairness
\* where a lock is taken: a sync.RWMutex lets no new reader in while a writer
\* waits, and a sync.Mutex hands itself to a waiter that starves.
Fairness == \A s \in Scenarios : /\ SF_vars(Proceed(s))
                                 /\ WF_vars(TimerFires(s))
                                 /\ SF_vars(SelfFinish(s))

Spec == Init /\ [][Next]_vars /\ Fairness
------------------------------------------------------------------------------
(* Properties. *)

\* From freezeFleet until unfreezeFleet a scenario keeps its freeze, and no
\* longer: start, rollback, refusal and finish agree on who holds the fleet.
FreezeMatchesRun ==
  \A s \in Scenarios :
    s \in frozen <=> mu[s] \notin {"free", "arming"} \/ phase[s] = "running"

\* isCreatingDevices is published before the freeze check and freezeFleet tests
\* it under sm.mu: no freeze lands in the middle of a creation batch and no
\* batch creates devices under a freeze.
NoBatchUnderFreeze == batch = "creating" => frozen = {}

\* While a scenario runs and drains, every participant exists and carries this
\* scenario's handle: the ledgers are about the devices that emit.
RunIntact ==
  \A s \in Scenarios :
    phase[s] = "running" \/ mu[s] \in {"draining", "detaching"}
      => /\ parts[s] # {}
         /\ \A d \in parts[s] : d \in live /\ slot[d] = s

\* No handle is orphaned: outside an operation, a handle belongs to an armed or
\* running scenario that can still detach it.  An orphaned one would mute the
\* exporter for the life of the process.
NoOrphanHandle ==
  \A d \in Devices, s \in Scenarios :
    slot[d] = s /\ mu[s] = "free" => phase[s] \in {"armed", "running"} /\ d \in parts[s]

\* A scheduled start runs only against the membership it was authorised for: a
\* re-arm withdraws it even when its timer has already fired (startScheduled).
NoUnauthorisedStart ==
  \A s \in Scenarios :
    mu[s] \in {"freezing", "pruned", "launching", "noting"} => by[s] \notin stale[s]

\* An armed scenario that shows a scheduled start will get it or release it: its
\* timer is still to fire, or its callback is on the way.
NoStrandedSchedule ==
  \A s \in Scenarios :
    phase[s] = "armed" /\ mu[s] \in {"free", "arming"} /\ startTimer[s] # 0
      => startTimer[s] = gen[s] /\ (ticking[s] \/ gen[s] \in fired[s])

\* Two registered scenarios that emit at once name each other, whichever of them
\* started last (noteOverlapsLocked after emitting.Store).
OverlapDisclosed ==
  \A s, t \in registry :
    s # t /\ emitting[s] /\ emitting[t] /\ mu[s] # "noting" /\ mu[t] # "noting"
      => t \in overlaps[s]

\* A phase is never re-entered: a terminal scenario stays as it is, and a scenario
\* never goes back to submitted (transitionLocked, and the rollback of a start).
PhaseForward ==
  [][\A s \in Scenarios :
       phase'[s] # phase[s] =>
         <<phase[s], phase'[s]>> \in
            {<<"submitted", "armed">>, <<"armed", "running">>, <<"armed", "canceled">>,
             <<"running", "armed">>, <<"running", "stopped">>, <<"running", "aborted">>}]_vars

\* A claim changes hands only through a release: no step moves a device's handle
\* from one scenario to another (claimScenPart, releaseScenPart).
NoTheft ==
  [][\A d \in Devices : slot[d] # Nobody => slot'[d] \in {slot[d], Nobody}]_vars

\* The fleet does not stay frozen: a scenario that holds it gives it back.
FreezeEnds == \A s \in Scenarios : s \in frozen ~> s \notin frozen

\* docs/reference/loadtest-api.md, DELETE: "A `submitted` or terminal scenario is
\* dropped, releasing any devices it held."
DroppedHoldsNothing ==
  \A s \in 1..seq : s \notin registry /\ mu[s] = "free"
    => \A d \in Devices : slot[d] # s

\* What holds of the fleet whatever arm, start, finish, delete and the creation of
\* devices do to each other: the freeze is held exactly while a scenario starts or
\* runs and never over a creation batch, a running scenario has its devices and they
\* carry its handle, no handle is left on a device, and scenarios that emit at once
\* name each other (scenario_controller.go, scenario_manager.go, manager.go).
RunsHeld ==
  /\ TypeOK /\ FreezeMatchesRun /\ NoBatchUnderFreeze /\ RunIntact
  /\ NoOrphanHandle /\ OverlapDisclosed

\* A scheduled start is neither taken against a membership it was not authorised for
\* nor lost by an armed scenario that still shows it (startScheduled, Schedule).
SchedulesHeld ==
  /\ NoUnauthorisedStart /\ NoStrandedSchedule

\* No step takes a device from one scenario for another and none takes a scenario
\* back to a phase it has left (claimScenPart, transitionLocked).
ClaimsKept ==
  /\ NoTheft
  /\ PhaseForward
==============================================================================
