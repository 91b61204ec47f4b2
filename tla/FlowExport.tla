------------------------------ MODULE FlowExport ------------------------------
(***************************************************************************)
(* One flow exporter and everything that drives it: the fleet ticker, the  *)
(* tickers of the scenarios that claim it one after another, the claim and *)
(* the pacing override (scenario_controller.go), the device's Stop and the *)
(* manager's Shutdown.  FlowExporter.Tick is split at every load another   *)
(* goroutine can change and at every datagram; how many records a datagram *)
(* takes is FlowEncoding's arithmetic.  The cache is abstracted to the     *)
(* records a sweep returns (FlowCache models it).                          *)
(***************************************************************************)
EXTENDS FlowEncoding, FiniteSets, TLC

CONSTANTS
  Scenarios,        \* the scenarios that may claim the device, in the order they are armed
  Attachments,      \* encoders the device may be attached with, and whether it has a socket
  Harvest(_),       \* the record sizes a sweep may return, by encoder
  CounterRecords,   \* counter records registered on an sFlow device
  OptionIfaces,     \* interfaces of the option table (v9, IPFIX)
  Applications,     \* entries of the AVC application table
  TemplateInterval,
  ScenWindow,       \* length of a scenario window
  MaxFlowTime,      \* bound on the clock
  MaxStarts         \* bound on the ticks and scenarios started

ASSUME FlowAssumption == /\ Attachments \subseteq Encoders \X {"open", "absent"}
                         /\ Scenarios \subseteq Nat \ {0}
                         /\ {TemplateInterval, ScenWindow, MaxFlowTime, MaxStarts} \subseteq Nat

NoOne == -1     \* the empty participation slot
Fleet == 0      \* the fleet ticker
Tickers == {Fleet} \cup Scenarios

VARIABLES
  enc,          \* the exporter's encoder, fixed at attach
  time,         \* the clock
  own,          \* FlowExporter.conn: the device's socket is "open", "closed" or absent
  pool,         \* the shared socket is open
  seqNo, lastTempl,
  slot,         \* scenPart: the scenario that holds the device, or NoOne
  override,     \* concurrentOverride: the scenario whose pacing is installed, or NoOne
  driven,       \* scenDriven
  phase,        \* where each scenario's controller is
  gatePhase,    \* its published gate
  gateT1,       \* and planned end of the window
  shut,         \* its drain barrier is closed
  gaveUp,       \* its join or its barrier wait hit the deadline
  book,         \* its ledger for this device
  tick,         \* the Tick each ticker is in
  stats,        \* statRecords, the exporter's cumulative count
  agg,          \* the same in flowCollectorAggregate, once persisted
  device,       \* "up", "stopping" once out of the device map, "persisted", "stopped"
  fleet,        \* the fleet ticker: "running", "told" to stop, "exited"
  ticks,        \* ticks started (bound)
  seen          \* history, see SeenInit

scenVars == <<slot, override, driven, phase, gatePhase, gateT1, shut, gaveUp>>
lifeVars == <<own, pool, agg, device, fleet>>
flowVars == <<linkMTU, enc, time, seqNo, lastTempl, scenVars, lifeVars, book, tick, stats,
              ticks, seen>>

Idle == [pc |-> "idle", at |-> 0, sock |-> "none", q |-> <<>>, templ |-> FALSE,
         refresh |-> FALSE, part |-> NoOne, live |-> FALSE, left |-> 0, rec |-> 0,
         pre |-> FALSE]

NoBook == [emitted |-> 0, inWindow |-> 0, drain |-> 0, sendFailures |-> 0, dropped |-> 0,
           suppressed |-> 0]

\* What no variable of the program records: the swept records not yet sent, lost,
\* refused, held back or muted; the records on the wire; what was in the datagrams so
\* far, those that did not arrive included; two ticks at once; data without a template of
\* the last interval; a straggler under a successor's handle; a tick in flight, or a
\* scenario under way, when the counters were persisted; who wrote on a closed shared
\* socket.
SeenInit == [owed |-> 0, wire |-> 0, carried |-> 0, overlap |-> FALSE,
             bare |-> FALSE, foreign |-> FALSE, unsettled |-> FALSE, poolWrite |-> {}]

FlowInit == /\ linkMTU = DefaultLinkMTU
            /\ \E a \in Attachments : enc = a[1] /\ own = a[2]
            /\ time = 1 /\ seqNo = 0 /\ lastTempl = 0
            /\ pool = TRUE
            /\ slot = NoOne /\ override = NoOne /\ driven = FALSE
            /\ phase = [s \in Scenarios |-> "new"]
            /\ gatePhase = [s \in Scenarios |-> "none"]
            /\ gateT1 = [s \in Scenarios |-> 0]
            /\ shut = [s \in Scenarios |-> FALSE]
            /\ gaveUp = [s \in Scenarios |-> FALSE]
            /\ book = [s \in Scenarios |-> NoBook]
            /\ tick = [t \in Tickers |-> Idle]
            /\ stats = 0 /\ agg = 0
            /\ device = "up" /\ fleet = "running" /\ ticks = 0
            /\ seen = SeenInit

Budget == PayloadBudget(TRUE)
Waiting(t) == Len(tick[t].q)
InTick(t) == tick[t].pc # "idle"
Ticking(t) == tick[t].pc \notin {"idle", "picked"}
Starts == ticks + Cardinality({s \in Scenarios : phase[s] # "new"})
Calm == UNCHANGED <<linkMTU, enc, time, scenVars, lifeVars>>
-------------------------------------------------------------------------------
(* The tickers. *)

\* tickAllFlowExporters takes its snapshot of the fleet.
FleetPicks == /\ fleet = "running" /\ device = "up" /\ ~InTick(Fleet)
              /\ Starts < MaxStarts /\ ticks' = ticks + 1
              /\ tick' = [tick EXCEPT ![Fleet] = [Idle EXCEPT !.pc = "picked", !.at = time]]
              /\ Calm /\ UNCHANGED <<seqNo, lastTempl, book, stats, seen>>

\* tickFlowExporterLabelled: the shared socket only when the device has none (any
\* more: a device stopped since the snapshot sends from the shared one).
Begun(t) == [tick EXCEPT ![t].pc = "sweep", ![t].sock = IF own = "open" THEN "none" ELSE "shared",
                         ![t].at = IF t = Fleet THEN @ ELSE time]

\* Later, and for each exporter of the snapshot: one a scenario drives is skipped.
FleetChecks == /\ tick[Fleet].pc = "picked"
               /\ tick' = IF driven THEN [tick EXCEPT ![Fleet] = Idle] ELSE Begun(Fleet)
               /\ seen' = [seen EXCEPT !.overlap = @ \/ (~driven /\ \E s \in Scenarios : Ticking(s))]
               /\ Calm /\ UNCHANGED <<seqNo, lastTempl, book, stats, ticks>>

\* The scenario's own ticker, until its context is cancelled.
ScenarioTicks(s) == /\ phase[s] = "running" /\ ~InTick(s)
                    /\ Starts < MaxStarts /\ ticks' = ticks + 1
                    /\ tick' = Begun(s)
                    /\ seen' = [seen EXCEPT !.overlap = @ \/ \E t \in Tickers : Ticking(t)]
                    /\ Calm /\ UNCHANGED <<seqNo, lastTempl, book, stats>>

\* The tick ends without a word.
Return(t) == tick' = [tick EXCEPT ![t] = Idle]

\* Tick's start: its own load of the socket (a Close in between leaves none), the
\* sweep of the cache, the template cadence, and the one load of the participation
\* handle; without one fidelity mode may mute the whole tick.
Sweep(t) ==
  LET sock == IF own = "open" THEN "own" ELSE tick[t].sock
      due == lastTempl = 0 \/ tick[t].at - lastTempl >= TemplateInterval IN
  /\ tick[t].pc = "sweep"
  /\ \/ sock = "none" /\ Return(t) /\ UNCHANGED seen
     \/ /\ sock # "none"
        /\ \E q \in Harvest(enc) :
             IF q = <<>> /\ ~due THEN Return(t) /\ UNCHANGED seen
             ELSE \/ slot = NoOne /\ Return(t) /\ UNCHANGED seen
                  \/ /\ tick' = [tick EXCEPT ![t].pc = IF slot = NoOne THEN "data" ELSE "gate",
                                   ![t].sock = sock, ![t].q = q, ![t].templ = due,
                                   ![t].refresh = due, ![t].part = slot]
                     /\ seen' = [seen EXCEPT !.owed = @ + Len(q),
                                   !.foreign = @ \/ (t \in Scenarios /\ slot \notin {t, NoOne})]
  /\ Calm /\ UNCHANGED <<seqNo, lastTempl, book, stats, ticks>>

\* A slip in Tick: the held-back records are not taken off the queue.
HoldBackKeeps(t) ==
  /\ tick' = [tick EXCEPT ![t].pc = "data"]
  /\ seen' = [seen EXCEPT !.owed = @ - Waiting(t)]

\* Data is held back: templates and sFlow counters still go.
HoldBack(t) ==
  /\ tick' = IF ~tick[t].templ /\ (enc # "sflow" \/ CounterRecords = 0)
             THEN [tick EXCEPT ![t] = Idle]
             ELSE [tick EXCEPT ![t].pc = "data", ![t].q = <<>>]
  /\ seen' = [seen EXCEPT !.owed = @ - Waiting(t)]

\* decide(sourceScenario, now): only a running gate before T1 lets data through.
Decide(t) ==
  LET s == tick[t].part IN
  /\ tick[t].pc = "gate"
  /\ IF gatePhase[s] = "running" /\ tick[t].at < gateT1[s]
     THEN tick' = [tick EXCEPT ![t].pc = "admit"] /\ UNCHANGED <<book, seen>>
     ELSE HoldBack(t) /\ book' = [book EXCEPT ![s].suppressed = @ + Waiting(t)]
  /\ Calm /\ UNCHANGED <<seqNo, lastTempl, stats, ticks>>

\* drain.admit(): a closing window drops the sweep's records.
AdmitTick(t) ==
  LET s == tick[t].part IN
  /\ tick[t].pc = "admit"
  /\ IF ~shut[s]
     THEN tick' = [tick EXCEPT ![t].pc = "data", ![t].live = TRUE] /\ UNCHANGED <<book, seen>>
     ELSE /\ HoldBack(t)
          /\ book' = [book EXCEPT ![s].emitted = @ + Waiting(t), ![s].dropped = @ + Waiting(t)]
  /\ Calm /\ UNCHANGED <<seqNo, lastTempl, stats, ticks>>
-------------------------------------------------------------------------------
(* The datagrams of a tick.  Encoding one and writing it is a single step: the *)
(* encoder reads what only this tick writes.  When two ticks overlap they race *)
(* on seqNo and lastTempl; nothing is said about either from then on.          *)

\* Where a tick goes with its data sent: sFlow counters, then the option table, then
\* the application table, the ones that have something to send.
Stages == <<"counters", "options", "apps", "fold">>
Load(t, stage) ==
  CASE stage = "counters" -> IF enc = "sflow" THEN CounterRecords ELSE 0
    [] stage = "options" -> IF tick[t].refresh /\ enc \in {"netflow9", "ipfix", "avc"}
                            THEN OptionIfaces ELSE 0
    [] stage = "apps" -> IF tick[t].refresh /\ enc = "avc" THEN Applications ELSE 0
    [] stage = "fold" -> 1
Onward(t, from) ==
  LET i == CHOOSE k \in from..4 : Load(t, Stages[k]) > 0 /\ \A m \in from..k - 1 : Load(t, Stages[m]) = 0
  IN [tick EXCEPT ![t].pc = Stages[i], ![t].left = Load(t, Stages[i]), ![t].q = <<>>]

\* A datagram leaves if its socket is open and the kernel takes it.
MayWrite(t, ok) == ok => \/ tick[t].sock = "own" /\ own = "open"
                         \/ tick[t].sock = "shared" /\ pool

\* The ledger at write return: the bucket is chosen by the tick's own time.
LedgerAfterWrite(t, n, ok) ==
  LET s == tick[t].part
      bucket == IF ~ok THEN "sendFailures"
                ELSE IF tick[t].at < gateT1[s] THEN "inWindow" ELSE "drain" IN
  IF tick[t].live /\ n > 0 THEN [book EXCEPT ![s].emitted = @ + n, ![s][bucket] = @ + n]
  ELSE book

\* The sequence advances whether or not the datagram left.
SeqAfter(n, ok) == seqNo + SeqIncrement(enc, n)

TemplateTime(t) == IF tick[t].templ THEN tick[t].at ELSE lastTempl

\* What a collector counts of a datagram: NetFlow v9 and sFlow number the datagrams,
\* NetFlow v5 and IPFIX the records in them.
Carries(records) == IF enc \in {"netflow9", "sflow"} THEN 1 ELSE records

\* The write of a data datagram with a batch of n records, of which the encoder took
\* taken; rest is still queued.
WriteData(t, n, taken, rest, ok) ==
  LET templ == tick[t].templ IN
  /\ MayWrite(t, ok)
  /\ book' = LedgerAfterWrite(t, n, ok)
  /\ seqNo' = SeqAfter(n, ok)
  /\ lastTempl' = TemplateTime(t)
  /\ tick' = LET written == IF ok THEN n ELSE 0 IN
             IF rest = <<>>
             THEN [Onward(t, 1) EXCEPT ![t].templ = FALSE, ![t].rec = @ + written]
             ELSE [tick EXCEPT ![t].q = rest, ![t].templ = FALSE, ![t].rec = @ + written]
  /\ seen' = [seen EXCEPT
       !.owed = @ - (IF ok THEN taken ELSE n),
       !.wire = IF ok THEN @ + taken ELSE @,
       !.carried = @ + Carries(taken),
       !.bare = @ \/ (n > 0 /\ ~templ
                      /\ (lastTempl = 0 \/ tick[t].at - lastTempl >= TemplateInterval)),
       !.poolWrite = IF tick[t].sock = "shared" /\ ~pool THEN @ \cup {t} ELSE @]

\* The loop stops: what is still queued is abandoned.
StopData(t) == tick' = Onward(t, 1) /\ UNCHANGED <<book, seqNo, lastTempl, seen>>

\* The measured path, AVC records: a record that fits no datagram is dropped and
\* counted as a send failure.
SendAVC(t, ok) ==
  LET m == EncodeMeasured(tick[t].q, tick[t].templ, Budget)
      rest == SubSeq(tick[t].q, m.consumed + 1, Waiting(t)) IN
  \/ /\ m.dropped > 0
     /\ tick' = IF rest = <<>> /\ ~tick[t].templ THEN Onward(t, 1)
                ELSE [tick EXCEPT ![t].q = rest]
     /\ book' = LedgerAfterWrite(t, m.dropped, FALSE)
     /\ seen' = [seen EXCEPT !.owed = @ - m.consumed]
     /\ UNCHANGED <<seqNo, lastTempl>>
  \/ m.dropped = 0 /\ m.n = 0 /\ StopData(t)
  \/ m.dropped = 0 /\ m.n > 0 /\ WriteData(t, m.consumed, m.consumed, rest, ok)

\* The fixed path: Tick predicts the batch, the encoder writes what it takes of it.
SendFixed(t, ok) ==
  LET batch == BatchSize(enc, Budget, Waiting(t), tick[t].templ)
      out == EncodePacket(enc, batch, tick[t].templ, Budget)
      rest == SubSeq(tick[t].q, batch + 1, Waiting(t)) IN
  IF (batch = 0 /\ ~tick[t].templ) \/ out.err \/ out.n = 0 THEN StopData(t)
  ELSE WriteData(t, batch, out.records, rest, ok)

SendData(t, ok) == /\ tick[t].pc = "data"
                   /\ IF enc = "avc" THEN SendAVC(t, ok) ELSE SendFixed(t, ok)
                   /\ Calm /\ UNCHANGED <<stats, ticks>>

\* One datagram of sFlow counters (the sequence counts it, PacketsSent too, whether
\* or not the write failed), of the option table or of the application table.
SendTable(t, ok) ==
  LET plain == IF enc = "avc" THEN "ipfix" ELSE enc
      n == CASE tick[t].pc = "counters" -> CounterBatch(tick[t].left, Budget)
             [] tick[t].pc = "options" -> EncodeOptions(plain, "if-scoped", tick[t].left, Budget).records
             [] tick[t].pc = "apps" -> EncodeAppTable(tick[t].left, Budget).records
      stage == CHOOSE i \in 1..3 : Stages[i] = tick[t].pc IN
  /\ tick[t].pc \in {"counters", "options", "apps"} /\ MayWrite(t, ok)
  /\ tick' = IF n = tick[t].left THEN Onward(t, stage + 1) ELSE [tick EXCEPT ![t].left = @ - n]
  /\ seqNo' = SeqAfter(n, ok)
  /\ seen' = [seen EXCEPT !.carried = @ + Carries(n),
                          !.poolWrite = IF tick[t].sock = "shared" /\ ~pool THEN @ \cup {t} ELSE @]
  /\ Calm /\ UNCHANGED <<lastTempl, book, stats, ticks>>

\* Tick returns (and leaves the barrier); tickFlowExporter folds its counters.
FoldStats(t) == /\ tick[t].pc = "fold"
                /\ stats' = stats + tick[t].rec
                /\ Return(t)
                /\ Calm /\ UNCHANGED <<seqNo, lastTempl, book, ticks, seen>>

TickStep(t) == \/ Sweep(t) \/ Decide(t) \/ AdmitTick(t) \/ FoldStats(t)
               \/ \E ok \in BOOLEAN : SendData(t, ok) \/ SendTable(t, ok)
-------------------------------------------------------------------------------
(* The scenarios: claim and pacing at arm, the running window, finish. *)

Still == UNCHANGED <<linkMTU, enc, time, seqNo, lastTempl, lifeVars, book, stats, ticks>>
Enter(s, to) == phase' = [phase EXCEPT ![s] = to]

\* installScenPart: the claim is a compare-and-swap, and a device another scenario
\* holds is excluded; only after a successful claim is the cache sized for the rate.
Claim(s) == /\ phase[s] = "new" /\ device = "up"
            /\ Starts < MaxStarts /\ \A r \in Scenarios : r < s => phase[r] # "new"
            /\ IF slot = NoOne
               THEN /\ slot' = s /\ override' = s /\ Enter(s, "armed")
                    /\ gatePhase' = [gatePhase EXCEPT ![s] = "armed"]
               ELSE Enter(s, "excluded") /\ UNCHANGED <<slot, override, gatePhase>>
            /\ Still /\ UNCHANGED <<driven, gateT1, shut, gaveUp, tick, seen>>

\* Start publishes the running gate; the device may be gone by then.
OpenWindow(s) == /\ phase[s] = "armed" /\ device = "up"
                 /\ gatePhase' = [gatePhase EXCEPT ![s] = "running"]
                 /\ gateT1' = [gateT1 EXCEPT ![s] = time + ScenWindow]
                 /\ Enter(s, "open")
                 /\ Still /\ UNCHANGED <<slot, override, driven, shut, gaveUp, tick, seen>>

\* startScenarioFlowTicker: the fleet ticker yields from now on; a tick of its that
\* is past the check goes on.
Drive(s) == /\ phase[s] = "open" /\ driven' = TRUE /\ Enter(s, "running")
            /\ tick' = IF Ticking(Fleet) THEN [tick EXCEPT ![Fleet].pre = TRUE] ELSE tick
            /\ Still /\ UNCHANGED <<slot, override, gatePhase, gateT1, shut, gaveUp, seen>>

\* finish: the terminal gate and the ticker's context, then three waits under one
\* deadline; each may give up.  A window of an armed scenario is cancelled unrun.
EndWindow(s) == /\ phase[s] = "running"
                /\ gatePhase' = [gatePhase EXCEPT ![s] = "ended"]
                /\ Enter(s, "ending")
                /\ Still /\ UNCHANGED <<slot, override, driven, gateT1, shut, gaveUp, tick, seen>>

JoinTicker(s) == /\ phase[s] = "ending"
                 /\ \/ ~InTick(s) /\ UNCHANGED gaveUp
                    \/ InTick(s) /\ gaveUp' = [gaveUp EXCEPT ![s] = TRUE]
                 /\ shut' = [shut EXCEPT ![s] = TRUE]
                 /\ Enter(s, "closing")
                 /\ Still /\ UNCHANGED <<slot, override, driven, gatePhase, gateT1, tick, seen>>

\* Ticks admitted to the scenario's barrier.
Inside(s) == {t \in Tickers : tick[t].live /\ tick[t].part = s}

DrainTicks(s) == /\ phase[s] = "closing"
                 /\ \/ Inside(s) = {} /\ UNCHANGED gaveUp
                    \/ Inside(s) # {} /\ gaveUp' = [gaveUp EXCEPT ![s] = TRUE]
                 /\ Enter(s, "detach")
                 /\ Still /\ UNCHANGED <<slot, override, driven, gatePhase, gateT1, shut, tick, seen>>

CancelWindow(s) == /\ phase[s] = "armed" /\ Enter(s, "detach")
                   /\ gatePhase' = [gatePhase EXCEPT ![s] = "ended"]
                   /\ Still /\ UNCHANGED <<slot, override, driven, gateT1, shut, gaveUp, tick, seen>>

\* detachScenPart: the derived state goes before the claim.
HandBack(s) == /\ phase[s] = "detach" /\ Enter(s, "release")
               /\ IF slot = s THEN driven' = FALSE /\ override' = NoOne
                  ELSE UNCHANGED <<driven, override>>
               /\ Still /\ UNCHANGED <<slot, gatePhase, gateT1, shut, gaveUp, tick, seen>>

\* releaseScenPart: a compare-and-swap of the scenario's own handle.
ReleaseClaim(s) == /\ phase[s] = "release" /\ Enter(s, "done")
                   /\ slot' = IF slot = s THEN NoOne ELSE slot
                   /\ Still /\ UNCHANGED <<override, driven, gatePhase, gateT1, shut, gaveUp, tick, seen>>

ScenarioStep(s) == \/ Claim(s) \/ OpenWindow(s) \/ Drive(s) \/ EndWindow(s)
                   \/ JoinTicker(s) \/ DrainTicks(s) \/ CancelWindow(s) \/ HandBack(s)
                   \/ ReleaseClaim(s)
-------------------------------------------------------------------------------
(* The device and the process. *)

\* From OpenWindow to the detach the fleet is frozen: no device is deleted.
Frozen == \E s \in Scenarios : phase[s] \in {"open", "running", "ending", "closing", "detach",
                                             "release"}

Steady == UNCHANGED <<linkMTU, enc, seqNo, lastTempl, scenVars, book, tick, stats, ticks>>

\* DeleteDevice takes the device out of the map before it stops it.
\* An operator does so while the ticker runs and no scenario does, Shutdown once the
\* pool is closed, whatever scenario was started since (shutdownFast).
RemoveDevice == /\ device = "up" /\ ((fleet = "running" /\ ~Frozen) \/ ~pool)
                /\ device' = "stopping"
                /\ Steady /\ UNCHANGED <<time, own, pool, agg, fleet, seen>>

\* Stop: persistFlowCounters (once), then Close.
PersistCounters == /\ device = "stopping" /\ device' = "persisted"
                   /\ agg' = agg + stats
                   /\ seen' = [seen EXCEPT !.unsettled = Frozen \/ \E t \in Tickers : InTick(t)]
                   /\ Steady /\ UNCHANGED <<time, own, pool, fleet>>

CloseSocket == /\ device = "persisted" /\ device' = "stopped"
               /\ own' = IF own = "open" THEN "closed" ELSE own
               /\ Steady /\ UNCHANGED <<time, pool, agg, fleet, seen>>

\* Shutdown aborts the running scenarios, then stops the ticker, waits for it and
\* closes the shared sockets; an armed scenario stays, and the API is still served.
TellTicker == /\ device = "up" /\ fleet = "running" /\ ~Frozen
              /\ fleet' = "told"
              /\ Steady /\ UNCHANGED <<time, own, pool, agg, device, seen>>

TickerExits == /\ fleet = "told" /\ ~InTick(Fleet) /\ fleet' = "exited"
               /\ Steady /\ UNCHANGED <<time, own, pool, agg, device, seen>>

ClosePool == /\ fleet = "exited" /\ pool /\ pool' = FALSE
             /\ Steady /\ UNCHANGED <<time, own, agg, device, fleet, seen>>

\* A tick reads the clock once, before it starts: time passes between ticks.
FlowClock == /\ time < MaxFlowTime /\ time' = time + 1
             /\ \A t \in Tickers : ~InTick(t)
             /\ Steady /\ UNCHANGED <<lifeVars, seen>>

FlowNext == \/ FleetPicks \/ FleetChecks
            \/ \E s \in Scenarios : ScenarioTicks(s) \/ ScenarioStep(s)
            \/ \E t \in Tickers : TickStep(t)
            \/ RemoveDevice \/ PersistCounters \/ CloseSocket
            \/ TellTicker \/ TickerExits \/ ClosePool \/ FlowClock

FlowSpec == FlowInit /\ [][FlowNext]_flowVars
-------------------------------------------------------------------------------
(* Properties. *)

FlowTypeOK == /\ enc \in Encoders /\ time \in 1..MaxFlowTime /\ seqNo \in Nat
              /\ own \in {"open", "closed", "absent"} /\ pool \in BOOLEAN
              /\ slot \in Scenarios \cup {NoOne} /\ override \in Scenarios \cup {NoOne}
              /\ \A t \in Tickers : tick[t].q \in Seq(Nat) /\ tick[t].left \in Nat
              /\ device \in {"up", "stopping", "persisted", "stopped"}
              /\ fleet \in {"running", "told", "exited"}

TickSum(f(_)) == LET n[S \in SUBSET Tickers] ==
                       IF S = {} THEN 0
                       ELSE LET t == CHOOSE x \in S : TRUE IN f(tick[t]) + n[S \ {t}] IN
                 n[Tickers]
QueueOf(tk) == Len(tk.q)
SentOf(tk) == tk.rec

\* Every record the cache gave up is on the wire, lost with its datagram, refused as
\* too large, held back, muted, or still in a tick's queue: none disappears in a
\* batch an encoder did not take whole or in a loop that stopped early.
RecordsConserved == seen.owed = TickSum(QueueOf)

\* The exporter's count, with what the ticks under way have not folded yet, is the
\* number of records that left.
CountersHonest == stats + TickSum(SentOf) = seen.wire

\* Two goroutines are inside Tick of one exporter only around a handover: a fleet
\* tick that had passed the check when the scenario took over, or a tick whose
\* scenario's finish gave up waiting.
OneTickAtATime ==
  \A t, u \in Tickers :
    t # u /\ Ticking(t) /\ Ticking(u) =>
      \/ \E s \in {t, u} \cap Scenarios : gaveUp[s]
      \/ Fleet \in {t, u} /\ tick[Fleet].pre

\* As long as ticks did not overlap, a datagram's sequence is what the encoders put in
\* all before it, so the gap a collector finds is what was in the datagrams it did not
\* get; and data follows a template of the last interval.
StreamDecodable == ~seen.overlap => seqNo = seen.carried /\ ~seen.bare

\* A scenario that holds the device paces it, from the moment it is armed until it
\* lets go, and nobody paces a free one: neither a loser of the claim nor a
\* predecessor's detach touches the winner's override.
PacingFollowsClaim ==
  /\ \A s \in Scenarios : phase[s] \in {"armed", "open", "running", "ending", "closing", "detach"}
                            => slot = s /\ override = s
  /\ slot = NoOne => override = NoOne /\ ~driven

\* A straggler of a finished scenario ticks under its successor's handle only when
\* finish gave up on it (and said so).
SuccessorClean == seen.foreign => \E s \in Scenarios : gaveUp[s]

\* After a barrier that did not give up, what a scenario has sent or failed to send
\* stands still (its dropped count may still move: a fleet tick that passed the gate
\* before the end is refused by the closed barrier).
Settled(s) == phase[s] \in {"detach", "release", "done"} /\ ~gaveUp[s]
SettledLedger ==
  [][\A s \in Scenarios : Settled(s) =>
       \A f \in {"inWindow", "drain", "sendFailures"} :
         book'[s][f] = book[s][f]]_flowVars

\* The scenario's ledger balances at every datagram.
FlowIdentity == \A s \in Scenarios :
                  book[s].emitted = book[s].inWindow + book[s].drain + book[s].sendFailures
                                    + book[s].dropped

\* The fleet ticker never writes on a shared socket that Shutdown has closed.
FleetSocketOpen == Fleet \notin seen.poolWrite

\* The totals kept for a deleted device are what it sent, unless a tick was under
\* way when they were taken, or a scenario that was started during a shutdown goes on
\* ticking the stopped device.
PersistedOnce == device \in {"persisted", "stopped"} /\ ~seen.unsettled => agg = seen.wire

\* No flow record is lost or counted twice between the cache, the queue of a tick,
\* the wire, the exporter's counters and the scenario's ledger; ticks of one exporter
\* overlap only around a handover, and without an overlap the stream stays decodable
\* (flow_exporter.go, scenario_controller.go).
FlowsAccounted ==
  /\ [](/\ FlowTypeOK /\ RecordsConserved /\ CountersHonest
        /\ OneTickAtATime /\ StreamDecodable /\ PacingFollowsClaim
        /\ SuccessorClean /\ FlowIdentity /\ FleetSocketOpen
        /\ PersistedOnce)
  /\ SettledLedger
===============================================================================
