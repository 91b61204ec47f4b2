------------------------------- MODULE MCExport -------------------------------
(* The exporters of a fleet for TLC: a device's flow exporter, a flow cache,    *)
(* and the trap exporters with their scheduler through creation, deletion and   *)
(* shutdown.  Only the chosen part moves in a behaviour.                        *)
EXTENDS FlowExport, FlowCache, TrapFleet

CONSTANT Foci

VARIABLE focus

mcVars == <<focus, flowVars, cacheVars, vars>>

\* Nothing, or more records than a datagram with the template takes; for AVC one
\* that waits for a datagram without the template and one that fits none.
MCHarvest(e) ==
  IF e = "avc"
  THEN {<<>>, <<AVCRecordSize(9, 0), 1400, 1460>>}
  ELSE {<<>>, [i \in 1..TickCapacity(e, 1472, TRUE) + 1 |-> PerRec(e)]}

MCAttachments == {<<"ipfix", "open">>, <<"avc", "absent">>, <<"sflow", "open">>}
MCJitters == {-1, 0}

MCDevices == {"a", "b"}
MCMaxGen == [d \in MCDevices |-> IF d = "a" THEN 2 ELSE 1]

\* Where the flow exporter and the cache rest.
FlowRests == enc = "ipfix" /\ own = "open"

MCInit == /\ FlowInit /\ CacheInit /\ FleetInit
          /\ focus \in Foci
          /\ focus # "flow" => FlowRests

MCNext == \/ focus = "flow" /\ FlowNext /\ UNCHANGED <<focus, cacheVars, vars>>
          \/ focus = "cache" /\ CacheNext /\ UNCHANGED <<focus, flowVars, vars>>
          \/ focus = "traps" /\ FleetNext /\ UNCHANGED <<focus, flowVars, cacheVars>>
          \/ focus # "traps" /\ UNCHANGED mcVars   \* their clocks and ticks are bounded

MCSpec == MCInit /\ [][MCNext]_mcVars
===============================================================================
