------------------------------ MODULE FlowPacing ------------------------------
(***************************************************************************)
(* The sequential arithmetic around flow export, each operator checked on  *)
(* a bounded set of inputs: the population that makes a device emit at a   *)
(* scenario's rate (flow_profiles.go, flow_exporter.go), the phase slots   *)
(* of the fleet ticker (flow_tick_phase.go), and the agreement of record   *)
(* writers, templates and size constants.  The variable is the input.      *)
(***************************************************************************)
EXTENDS FlowEncoding

VARIABLE probe

Spans == 0..4
Probes == [a : Spans, b : Spans, active : 1..4, inactive : 1..3, sweep : {0, 3}, phase : {0}]
          \cup [a : {1}, b : {2}, active : 1..3, inactive : {1}, sweep : 0..3, phase : 0..63]

PacingInit == probe \in Probes
-------------------------------------------------------------------------------
(* Pacing a device: how many flows make it emit at a rate.  Times are whole   *)
(* units, the rate is a fraction num / den per unit.                           *)

\* MeanFlowLifetime, as a fraction: the mean of min(active, D + inactive) for D
\* uniform on lo..hi.
MeanFlowLifetime(a, b, active, inactive) ==
  LET lo == a + inactive
      hi == b + inactive IN
  IF hi <= lo THEN [num |-> IF active < lo THEN active ELSE lo, den |-> 1]
  ELSE IF active <= lo THEN [num |-> active, den |-> 1]
  ELSE IF active >= hi THEN [num |-> a + b + 2 * inactive, den |-> 2]
  ELSE [num |-> active * active - lo * lo + 2 * active * (hi - active), den |-> 2 * (hi - lo)]

\* effectiveFlowLifetime: half a sweep interval more.
EffectiveFlowLifetime(m, sweep) ==
  IF m.num <= 0 THEN [num |-> 0, den |-> 1]
  ELSE [num |-> 2 * m.num + sweep * m.den, den |-> 2 * m.den]

\* A slip in flowRateReachable: the ceiling forgets the sweep.
FlowRateReachableBare(m, sweep, rate, maxFlows) ==
  rate.num * m.num <= maxFlows * rate.den * m.den

\* flowRateReachable: rate <= maxFlows / lifetime.
FlowRateReachable(m, sweep, rate, maxFlows) ==
  LET l == EffectiveFlowLifetime(m, sweep) IN
  rate.num <= 0 \/ l.num <= 0 \/ rate.num * l.num <= maxFlows * rate.den * l.den

\* flowPacingTarget: rate * lifetime, rounded, at least one; 0 for no override, as
\* for a profile that generates no flows of its own.
FlowPacingTarget(concurrentFlows, m, sweep, rate) ==
  LET l == EffectiveFlowLifetime(m, sweep)
      n == rate.num * l.num
      d == rate.den * l.den
      rounded == (2 * n + d) \div (2 * d) IN
  IF rate.num <= 0 \/ concurrentFlows <= 0 \/ l.num <= 0 THEN 0
  ELSE IF rounded < 1 THEN 1 ELSE rounded

-------------------------------------------------------------------------------
(* Phase slots. *)

\* flowTickSlots, in milliseconds: 50 slots, fewer when a firing would come sooner
\* than every 50 ms.
FlowTickSlots(period, sync) ==
  IF sync \/ period <= 0 THEN 1
  ELSE IF period \div 50 < 50 THEN (IF period \div 50 < 1 THEN 1 ELSE period \div 50)
  ELSE 50

\* flowTickSlotOf.
FlowTickSlotOf(phase, slots, range) == (phase * slots) \div range

\* inTickSlot.
InTickSlot(phase, slot, slots, range) ==
  slots <= 1 \/ FlowTickSlotOf(phase, slots, range) = slot
-------------------------------------------------------------------------------
(* Properties. *)

\* The closed form is the mean: over the unit steps of the duration range, the
\* lifetime min(active, D + inactive) integrates to it exactly.
StepArea(d, active, inactive) ==
  IF 2 * active < 2 * (d + inactive) + 1 THEN 2 * active ELSE 2 * (d + inactive) + 1
Area(a, b, active, inactive) ==
  LET sum[d \in a..b] == IF d = a THEN 0 ELSE sum[d - 1] + StepArea(d - 1, active, inactive) IN
  sum[b]
MeanLifetimeExact ==
  LET m == MeanFlowLifetime(probe.a, probe.b, probe.active, probe.inactive) IN
  probe.a < probe.b =>
    m.num * 2 * (probe.b - probe.a) = m.den * Area(probe.a, probe.b, probe.active, probe.inactive)

\* A device that is not excluded as too slow is never asked for a population its
\* cache cannot hold, and one asked for a rate is never left unpaced, unless it only
\* exports what is injected.
PacingFits ==
  \A n \in 1..6, maxFlows \in 1..6, concurrentFlows \in 0..1 :
    LET m == MeanFlowLifetime(probe.a, probe.b, probe.active, probe.inactive)
        rate == [num |-> n, den |-> 2] IN
    probe.a <= probe.b /\ FlowRateReachable(m, probe.sweep, rate, maxFlows) =>
      FlowPacingTarget(concurrentFlows, m, probe.sweep, rate) \in
        IF concurrentFlows = 0 THEN {0} ELSE 1..maxFlows

\* Every device is swept exactly once a period, whatever its phase (a fraction of
\* PhaseRange, 2^32 in the code), the period and the synchronised mode.
PhaseRange == 64
SweptOncePerPeriod ==
  \A period \in {0, 49, 50, 120, 2499, 2500, 5000}, sync \in BOOLEAN :
    LET slots == FlowTickSlots(period, sync) IN
    \E slot \in 0..slots - 1 :
      \A s \in 0..slots - 1 : InTickSlot(probe.phase, s, slots, PhaseRange) <=> s = slot

\* A collector that decodes by the template reads the fields the encoder wrote: the
\* hand-kept writers, templates and size constants agree, and an sFlow sample stays
\* within the worst case that Tick paginates by.
WireMatchesTemplate ==
  probe \in Probes =>
    /\ NF9Write = NF9Fields /\ Width(NF9Write) = PacketSizes("netflow9").rec
    /\ IPFIXWrite = IPFIXFields /\ Width(IPFIXWrite) = PacketSizes("ipfix").rec
    /\ Width(V5Write) = PacketSizes("netflow5").rec
    /\ TemplateSize(NF9Fields) = PacketSizes("netflow9").templ
    /\ TemplateSize(IPFIXFields) = PacketSizes("ipfix").templ
    /\ TemplateSize(AVCFields) = PacketSizes("avc").templ
    /\ \A p \in {"udp", "tcp", "icmp"} : FlowSampleSize(p) <= MaxRecordSize("sflow")

\* What the encoders write is what their templates and size constants announce, and
\* the measured encoder always moves on (ipfix_avc.go, netflow9.go, ipfix.go,
\* netflow5.go, sflow.go).
WireDescribed ==
  /\ MeasuredProgress /\ WireMatchesTemplate

\* Every device is swept once a period, and the population a rate asks for follows
\* from the mean life of a flow and fits the cache (flow_tick_phase.go,
\* flow_cache.go, flow_profiles.go).
PacingExact ==
  /\ SweptOncePerPeriod /\ MeanLifetimeExact /\ PacingFits
===============================================================================
