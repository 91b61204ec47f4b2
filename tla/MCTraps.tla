-------------------------------- MODULE MCTraps --------------------------------
(* Trap export for TLC: one INFORM exporter, and the fire scheduler with        *)
(* whoever registers.  They share no state here (TrapFleet composes the         *)
(* scheduler with the fleet), so only the chosen one moves in a behaviour.      *)
EXTENDS TrapInform, TrapScheduler

VARIABLE focus

mcVars == <<focus, tvars, schedvars>>

MCDevices == {"a", "b", "c"}
MCOnce == [d \in MCDevices |-> 1]

MCInit == TInit /\ SchedInit /\ focus \in {"inform", "scheduler"}

InformStep == focus = "inform" /\ TNext /\ UNCHANGED <<focus, schedvars>>
SchedulerStep == focus = "scheduler" /\ SchedNext /\ UNCHANGED <<focus, tvars>>

MCNext == InformStep \/ SchedulerStep

\* The fairness of each part, where it is the chosen one.
MCFairness ==
  /\ WF_tvars(focus = "inform" /\ RetryLoop)
  /\ \A i \in Ids : WF_tvars(focus = "inform" /\ DeadlinePasses(i))
  /\ WF_schedvars(focus = "scheduler" /\ Run)
  /\ WF_schedvars(focus = "scheduler" /\ ClockTick)
  /\ \A w \in Workers : WF_schedvars(focus = "scheduler" /\ Emit(w))

MCSpec == MCInit /\ [][MCNext]_mcVars /\ MCFairness

\* Every inform settles, every deadline of the scheduler is met and every Stop is
\* answered (retryLoop, Run, Stop).
TrapsProgress ==
  /\ InformSettles
  /\ DeadlinesMet
  /\ StopAnswered
================================================================================
