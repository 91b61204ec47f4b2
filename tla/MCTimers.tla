------------------------------- MODULE MCTimers -------------------------------
(* What goes off on a timer, for TLC: auto-reverts, the flap scheduler, the     *)
(* schedule of a scenario, the debounced publication of the DNS zones, and      *)
(* timed silences of the fleet.                                                 *)
(* Only the chosen part moves in a behaviour.                                   *)
EXTENDS LinkTimers, ScenarioLifecycle, DnsService, Fidelity

VARIABLE focus

mcVars == <<focus, revertvars, flapvars, vars, dnsVars, fidelityVars>>

MCSelected == [s \in Scenarios |-> Devices]
MCExpect == [s \in Scenarios |-> 1]

MCInit == /\ RevertInit /\ FlapInit /\ Init /\ DnsInit /\ FidelityInit
          /\ focus \in {"revert", "flap", "schedule", "zones", "fidelity"}

MCNext == /\ \/ focus = "revert" /\ RevertNext /\ UNCHANGED <<flapvars, vars, dnsVars, fidelityVars>>
             \/ focus = "flap" /\ FlapNext /\ UNCHANGED <<revertvars, vars, dnsVars, fidelityVars>>
             \/ focus = "schedule" /\ Next /\ UNCHANGED <<revertvars, flapvars, dnsVars, fidelityVars>>
             \/ focus = "zones" /\ DnsNext /\ UNCHANGED <<revertvars, flapvars, vars, fidelityVars>>
             \/ focus = "fidelity" /\ FidelityNext /\ UNCHANGED <<revertvars, flapvars, vars, dnsVars>>
          /\ UNCHANGED focus

\* The fairness of each part, where it is the chosen one: goroutines go on, timers
\* fire, locks are handed over, and a secondary polls.
MCFairness ==
  /\ \A h \in Handlers : WF_revertvars(focus = "revert" /\ HandlerStep(h))
  /\ \A t \in RevertTimers : WF_revertvars(focus = "revert" /\ Goroutine(t))
  /\ WF_flapvars(focus = "flap" /\ RunStep)
  /\ WF_flapvars(focus = "flap" /\ Tick)
  /\ WF_flapvars(focus = "flap" /\ StopReturn)
  /\ \A s \in Scenarios : /\ SF_vars(focus = "schedule" /\ Proceed(s))
                          /\ WF_vars(focus = "schedule" /\ TimerFires(s))
                          /\ SF_vars(focus = "schedule" /\ SelfFinish(s))
  /\ WF_dnsVars(focus = "zones" /\ Worker)
  /\ WF_dnsVars(focus = "zones" /\ Secondary)
  /\ \A g \in Changers : WF_dnsVars(focus = "zones" /\ Mark(g))
  /\ WF_fidelityVars(focus = "fidelity" /\ SetFidelityEnds)
  /\ WF_fidelityVars(focus = "fidelity" /\ DeadlinePasses)
  /\ WF_fidelityVars(focus = "fidelity" /\ Callback)

MCSpec == MCInit /\ [][MCNext]_mcVars /\ MCFairness

\* What waits for a timer gets it: reverts drain, flapped links recover, stops
\* complete, the fleet is given back, a secondary converges and a timed silence ends.
TimersProgress ==
  /\ RevertsDrain
  /\ FlapRecovers
  /\ StopCompletes
  /\ FreezeEnds
  /\ SecondaryConverges
  /\ TimedRequestEnds
================================================================================
