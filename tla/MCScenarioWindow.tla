-------------------------- MODULE MCScenarioWindow --------------------------
(* Instances of ScenarioWindow for TLC. *)
EXTENDS ScenarioWindow

\* The scenario's own scheduler and an operator's on-demand fire.
MCMixed == {"scheduler", "operator"}
MCMixedSource == [f \in MCMixed |-> IF f = "scheduler" THEN "scenario" ELSE "onDemand"]
==============================================================================
