-------------------------------- MODULE Optical -------------------------------
(***************************************************************************)
(* The signal-degrade (SD) and signal-fail (SF) alarms of an optical       *)
(* channel: the shared evaluator over its heap (optical_alarm.go), the     *)
(* notify hook and the enrolment of devices (optical_alarm_manager.go),    *)
(* and the deletes of manager.go that end an enrolment.                    *)
(*                                                                         *)
(* One address, at which devices are created and deleted one after         *)
(* another, and one channel.  OSNR is abstracted to the five bands the two *)
(* thresholds and their hysteresis cut it into; it moves freely, as the    *)
(* dials and the degradation episodes make it.  A unit of the clock is     *)
(* longer than the evaluator, a creation or a delete takes: the clock      *)
(* waits for them.                                                         *)
(***************************************************************************)
EXTENDS Integers, Sequences, SequencesExt, FiniteSets

CONSTANTS
  Soak,          \* opticalAlarmSoak, in clock units
  EvalInterval,  \* opticalAlarmInterval
  MaxAlarmClock, \* bound on the clock
  MaxEngines     \* bound on the devices created

VARIABLES
  alarmClock, \* the evaluator's now
  signal,     \* the OSNR band of the channel served at the address
  nap,        \* what Run sleeps until: a time, Forever, or Awake
  wake,       \* the buffered wake channel holds a token
  entry,      \* byKey and the heap: the enrolled channel, or NoEntry
  events,     \* transitions evaluated and not yet handed to the hook
  device,     \* devicesByIP: the engine of the published device, or 0
  creating,   \* the engine of a device being created, or 0
  engines,    \* engines created so far
  dropping,   \* a committed delete still has to deregister the address
  stopped,    \* Stop was called
  told,       \* what the collector was told of the present device
  mixed,      \* an event of one device was published, or lost, at another
  side,       \* per condition, the side OSNR was last observed on, and since when
  badSince,   \* since when OSNR is below the SD threshold, or Never
  enrolled    \* when the entry was enrolled

alarmVars ==
  <<alarmClock, signal, nap, wake, entry, events, device, creating, engines,
    dropping, stopped, told, mixed, side, badSince, enrolled>>

Conditions == {"SD", "SF"}
Never == -1
Awake == -1
Forever == MaxAlarmClock + 4 * EvalInterval
NoEntry == [engine |-> 0, nextEval |-> 0, sd |-> [raised |-> FALSE, pending |-> FALSE, since |-> Never],
            sf |-> [raised |-> FALSE, pending |-> FALSE, since |-> Never]]

(* Bands of OSNR, from the worst: 0 below the SF threshold, 1 within the   *)
(* hysteresis above it, 2 up to the SD threshold, 3 within the hysteresis  *)
(* above that, 4 above.                                                    *)
Bands == 0 .. 4
Threshold == [SD |-> 3, SF |-> 1]
SideOf(c, band) ==
  IF band < Threshold[c] THEN "raise" ELSE IF band > Threshold[c] THEN "clear" ELSE "band"

NoSide == [on |-> "band", since |-> 0]

--------------------------------------------------------------------------
(* alarmLatch.evaluate: [latch, publish].                                  *)
Candidate(l, want) ==
  IF l.since = Never \/ l.pending # want THEN [l EXCEPT !.pending = want, !.since = alarmClock] ELSE l

evaluate(l, c) ==
  LET on == SideOf(c, signal)
      want == on = "raise"
      soaking == Candidate(l, want)
      abandoned == [l EXCEPT !.pending = l.raised, !.since = Never]
  IN  IF on = "band" \/ want = l.raised THEN [latch |-> abandoned, publish |-> FALSE]
      ELSE IF alarmClock - soaking.since < Soak THEN [latch |-> soaking, publish |-> FALSE]
      ELSE [latch |-> [soaking EXCEPT !.raised = want, !.since = Never], publish |-> TRUE]

(* evaluateAt: raises escalate SD before SF, clears de-escalate SF before  *)
(* SD.                                                                     *)
Transition(c, raised) == [condition |-> c, raised |-> raised, engine |-> entry.engine]
If(b, e) == IF b THEN <<e>> ELSE << >>

\* Slip: one transition is returned per evaluation.
OneOf(sd, sf) ==
  IF sd.publish THEN <<Transition("SD", ~entry.sd.raised)>> ELSE If(sf.publish, Transition("SF", ~entry.sf.raised))

Published(sd, sf) ==
  If(sd.publish /\ ~entry.sd.raised, Transition("SD", TRUE))
    \o If(sf.publish /\ ~entry.sf.raised, Transition("SF", TRUE))
    \o If(sf.publish /\ entry.sf.raised, Transition("SF", FALSE))
    \o If(sd.publish /\ entry.sd.raised, Transition("SD", FALSE))

Observe ==
  side' = [c \in Conditions |->
             IF side[c].on = SideOf(c, signal) THEN side[c] ELSE [on |-> SideOf(c, signal), since |-> alarmClock]]

--------------------------------------------------------------------------
(* Run.                                                                    *)
AlarmInit ==
  /\ alarmClock = 0 /\ signal \in Bands /\ nap = Awake /\ wake = FALSE /\ entry = NoEntry
  /\ events = << >> /\ device = 0 /\ creating = 0 /\ engines = 0 /\ dropping = FALSE
  /\ stopped = FALSE /\ told = [c \in Conditions |-> FALSE] /\ mixed = FALSE
  /\ side = [c \in Conditions |-> NoSide] /\ enrolled = 0
  /\ badSince = IF signal < Threshold["SD"] THEN 0 ELSE Never

fleetVars == <<device, creating, engines, dropping>>
ghostVars == <<told, mixed, side, badSince, enrolled>>

(* The head of the loop: Run reads the heap's first due time and sleeps    *)
(* for it, or for a wake when the heap is empty.                           *)
RunLooks ==
  /\ nap = Awake /\ events = << >> /\ ~stopped
  /\ nap' = IF entry = NoEntry THEN Forever ELSE entry.nextEval
  /\ UNCHANGED <<alarmClock, signal, wake, entry, events, fleetVars, stopped, ghostVars>>

RunWoken ==
  /\ nap # Awake /\ wake /\ ~stopped
  /\ nap' = Awake /\ wake' = FALSE
  /\ UNCHANGED <<alarmClock, signal, entry, events, fleetVars, stopped, ghostVars>>

(* The timer fired: pop, evaluate, push back, all under the lock.  An      *)
(* entry dropped while Run slept leaves an empty heap.                     *)
RunEvaluates ==
  LET sd == evaluate(entry.sd, "SD")
      sf == evaluate(entry.sf, "SF")
  IN  /\ nap # Awake /\ nap # Forever /\ nap <= alarmClock /\ ~stopped
      /\ nap' = Awake
      /\ IF entry = NoEntry THEN UNCHANGED <<entry, events, side>>
         ELSE /\ entry' = [entry EXCEPT !.sd = sd.latch, !.sf = sf.latch, !.nextEval = alarmClock + EvalInterval]
              /\ events' = Published(sd, sf)
              /\ Observe
      /\ UNCHANGED <<alarmClock, signal, wake, fleetVars, stopped, told, mixed, badSince, enrolled>>

(* publishOpticalAlarm, outside the lock: one transition at a time, at the *)
(* device the address has by now, or at none.                              *)
RunPublishes ==
  /\ events # << >>
  /\ events' = Tail(events)
  /\ told' = IF device = 0 THEN told ELSE [told EXCEPT ![Head(events).condition] = Head(events).raised]
  /\ mixed' = (mixed \/ device # Head(events).engine)
  /\ UNCHANGED <<alarmClock, signal, nap, wake, entry, fleetVars, stopped, side, badSince, enrolled>>

--------------------------------------------------------------------------

(* Register, at the creation of a device: a different engine on the same   *)
(* key replaces the entry, with fresh latches.                             *)
Register(n, stagger) ==
  /\ entry' = [NoEntry EXCEPT !.engine = n, !.nextEval = alarmClock + EvalInterval + stagger]
  /\ side' = [c \in Conditions |-> NoSide] /\ enrolled' = alarmClock
  /\ wake' = TRUE

(* RegisterOpticalDevice: the device is enrolled before it is published.   *)
Create ==
  /\ device = 0 /\ creating = 0 /\ engines < MaxEngines
  /\ engines' = engines + 1 /\ creating' = engines + 1
  /\ \E stagger \in 0 .. EvalInterval - 1 : Register(engines + 1, stagger)
  /\ UNCHANGED <<alarmClock, signal, nap, events, device, dropping, stopped, told, mixed, badSince>>

Publish ==
  /\ creating # 0
  /\ device' = creating /\ creating' = 0
  /\ told' = [c \in Conditions |-> FALSE] /\ mixed' = (events # << >>)
  /\ UNCHANGED <<alarmClock, signal, nap, wake, entry, events, engines, dropping, stopped, side, badSince, enrolled>>

(* A device whose start fails is never published and stays enrolled.       *)
CreateFails ==
  /\ creating # 0 /\ creating' = 0
  /\ UNCHANGED <<alarmClock, signal, nap, wake, entry, events, device, engines, dropping, stopped, ghostVars>>

(* DeleteDevice and DeleteAllDevices: the maps are cleared under sm.mu, the *)
(* address is deregistered after the lock is released.                     *)
DeleteCommits ==
  /\ device # 0 /\ ~dropping
  /\ device' = 0 /\ dropping' = TRUE
  /\ UNCHANGED <<alarmClock, signal, nap, wake, entry, events, creating, engines, stopped, ghostVars>>

Deregister ==
  /\ dropping /\ dropping' = FALSE
  /\ entry' = NoEntry /\ wake' = TRUE
  /\ side' = [c \in Conditions |-> NoSide]
  /\ UNCHANGED <<alarmClock, signal, nap, events, device, creating, engines, stopped, told, mixed, badSince, enrolled>>

(* Shutdown.                                                               *)
AlarmStop ==
  /\ ~stopped /\ stopped' = TRUE
  /\ UNCHANGED <<alarmClock, signal, nap, wake, entry, events, fleetVars, ghostVars>>

(* OSNR moves with the dials and the degradation episodes.                 *)
Drift(band) ==
  signal' = band /\ badSince' = IF band >= Threshold["SD"] THEN Never ELSE IF badSince = Never THEN alarmClock' ELSE badSince

Tick ==
  /\ alarmClock < MaxAlarmClock /\ alarmClock' = alarmClock + 1
  /\ creating = 0 /\ ~dropping /\ events = << >>
  /\ stopped \/ (nap # Awake /\ nap > alarmClock /\ ~wake)
  /\ \E band \in Bands : Drift(band)
  /\ UNCHANGED <<nap, wake, entry, events, fleetVars, stopped, told, mixed, side, enrolled>>

Evaluator == RunLooks \/ RunWoken \/ RunEvaluates \/ RunPublishes
AlarmFleet == Create \/ Publish \/ CreateFails \/ DeleteCommits \/ Deregister
AlarmNext == Evaluator \/ AlarmFleet \/ AlarmStop \/ Tick

AlarmSpec == AlarmInit /\ [][AlarmNext]_alarmVars

--------------------------------------------------------------------------
Latches == [raised : BOOLEAN, pending : BOOLEAN, since : -1 .. MaxAlarmClock]

(* Every variable has its type; a candidate always runs against the        *)
(* published state.                                                        *)
AlarmTypeOK ==
  /\ alarmClock \in 0 .. MaxAlarmClock /\ signal \in Bands /\ nap \in -1 .. Forever /\ wake \in BOOLEAN
  /\ entry \in [engine : 0 .. MaxEngines, nextEval : 0 .. Forever, sd : Latches, sf : Latches]
  /\ Len(events) <= 2 /\ device \in 0 .. MaxEngines /\ creating \in 0 .. MaxEngines
  /\ \A l \in {entry.sd, entry.sf} : l.since # Never => l.pending # l.raised

(* A collector that watches the two alarms of a channel sees a coherent    *)
(* escalation and de-escalation: it never holds a signal-fail without a    *)
(* signal-degrade, at any point between two notifications either           *)
(* (evaluateAt's order, with the soak and the dead bands of both latches). *)
FailImpliesDegrade == ~mixed /\ device # 0 => (told["SF"] => told["SD"])

(* What was published is what the latches hold, once the evaluator has     *)
(* handed its events over: no transition is lost between the lock and the  *)
(* notify hook.                                                            *)
ToldWhatIsLatched ==
  device # 0 /\ entry.engine = device /\ events = << >> /\ ~mixed
    => told = [SD |-> entry.sd.raised, SF |-> entry.sf.raised]

(* A condition changes its published state only when every observation of  *)
(* the last soak interval was on the far side of the threshold: a signal   *)
(* that rests in the dead band or dips back starts its soak again          *)
(* (alarmLatch.evaluate).                                                  *)
SoakedThrough ==
  [][\A c \in Conditions :
       LET was == IF c = "SD" THEN entry.sd ELSE entry.sf
           is == IF c = "SD" THEN entry'.sd ELSE entry'.sf
       IN  entry'.engine = entry.engine /\ is.raised # was.raised
             => side'[c].on # "band" /\ alarmClock - side'[c].since >= Soak]_alarmVars

(* A channel that stays below the SD threshold is raised within the soak   *)
(* and two evaluation intervals and a stagger, whatever was created,       *)
(* deleted or slept through before: alarms do not depend on observation.   *)
FaultIsRaised ==
  (/\ entry # NoEntry /\ ~stopped /\ badSince # Never
   /\ alarmClock - (IF enrolled > badSince THEN enrolled ELSE badSince) > Soak + 3 * EvalInterval)
    => entry.sd.raised

(* The evaluator never watches the engine of a device that is gone while   *)
(* another is published at its address (Register's replacement).           *)
WatchesTheLiveEngine == device # 0 /\ entry # NoEntry => entry.engine = device

-------------------------------------------------------------------------------
(***************************************************************************)
(* Degradation episodes of one optical channel (optical_degrade.go):       *)
(* requests that append a frozen window to the published log with a        *)
(* compare-and-swap, the folding of elapsed windows once the log is full,  *)
(* and the readers of fec-uncorrectable-blocks that integrate over it      *)
(* (optical_cycler.go).                                                    *)
(*                                                                         *)
(* Time is counted in units in which every window begins and ends.  The    *)
(* undegraded channel is healthy; it is above the FEC threshold exactly    *)
(* while the noise rises in force add up to Break.                         *)
(***************************************************************************)
CONSTANTS
  Posters,     \* concurrent degrade requests
  Rises,       \* noise rises a request may ask for, 0 (a clear) among them
  Break,       \* the summed rise that crosses the threshold
  Durations,   \* durations a request may ask for; 0 means open-ended
  EpisodeCap,  \* opticalEpisodeCap
  MaxSecs,     \* bound on the time
  MaxPosts     \* bound on the requests

VARIABLES
  secs,       \* elapsed seconds of the cycler
  log,        \* the published opticalEpisodeLog
  logVersion, \* identity of the published log, for the compare-and-swap
  post,       \* the requests in Degrade
  posts,      \* requests so far
  reader,     \* a read in flight: the time it took, or Idle
  lastRead        \* the latest read that finished

episodeVars == <<secs, log, logVersion, post, posts, reader, lastRead>>

Inf == MaxSecs + 10
NotReading == -1
NoPost == [pc |-> "idle", rise |-> 0, dur |-> 0, now |-> NotReading, cur |-> 0, next |-> << >>]
EmptyLog == [settledAbove |-> 0, settledUntil |-> 0, episodes |-> << >>]

--------------------------------------------------------------------------
(* offsetsIn, osnrDropDB and the closed form over each segment: how much   *)
(* of [from, to) the channel spent above the threshold.                    *)
active(e, t) == t >= e.t0 /\ t < e.t1
offsetsIn(eps, t) ==
  FoldSeq(LAMBDA e, sum : IF active(e, t) THEN sum + e.rise ELSE sum, 0, eps)
aboveThresholdOver(eps, from, to) == Cardinality({t \in from .. to - 1 : offsetsIn(eps, t) >= Break})

(* uncorrBlocksAt, as the seconds above the threshold.                     *)
aboveThresholdSeconds(l, t) ==
  IF t <= l.settledUntil THEN l.settledAbove
  ELSE l.settledAbove + aboveThresholdOver(l.episodes, l.settledUntil, t)

\* Slip: elapsed windows are dropped and not added.
collapseDropping(l, now) ==
  [settledAbove |-> l.settledAbove,
   settledUntil |-> now,
   episodes |-> SelectSeq(l.episodes, LAMBDA e : e.t1 > now)]

(* collapseSettled: fold what has elapsed into the running total, then     *)
(* drop it.                                                                *)
collapseSettled(l, now) ==
  [settledAbove |-> l.settledAbove + aboveThresholdOver(l.episodes, l.settledUntil, now),
   settledUntil |-> now,
   episodes |-> SelectSeq(l.episodes, LAMBDA e : e.t1 > now)]

(* Degrade's next log: every window that still runs at t0 ends there, the  *)
(* new one follows unless the request is a clear.                          *)
Superseding(l, t0, t1, rise, now) ==
  LET ended == [i \in DOMAIN l.episodes |->
                  IF l.episodes[i].t1 > t0 /\ l.episodes[i].t0 <= t0
                  THEN [l.episodes[i] EXCEPT !.t1 = t0] ELSE l.episodes[i]]
      grown == IF rise > 0 THEN Append(ended, [t0 |-> t0, t1 |-> t1, rise |-> rise]) ELSE ended
      next == [l EXCEPT !.episodes = grown]
  IN  IF Len(grown) > EpisodeCap THEN collapseSettled(next, now) ELSE next

--------------------------------------------------------------------------
EpisodeInit ==
  /\ secs = 0 /\ log = EmptyLog /\ logVersion = 0
  /\ post = [p \in Posters |-> NoPost] /\ posts = 0
  /\ reader = NotReading /\ lastRead = [t |-> 0, above |-> 0, clean |-> TRUE]

(* The handler passes an at it took before, so the clamp in Degrade always *)
(* starts the window now.  A clear has no duration to keep.                *)
DegradeHandler(p) ==
  /\ post[p].pc = "idle" /\ posts < MaxPosts /\ posts' = posts + 1
  /\ \E rise \in Rises, dur \in Durations :
       post' = [post EXCEPT ![p] = [NoPost EXCEPT !.pc = "load", !.rise = rise, !.dur = IF rise = 0 THEN 0 ELSE dur]]
  /\ UNCHANGED <<secs, log, logVersion, reader, lastRead>>

(* One turn of the retry loop up to the compare-and-swap: the published    *)
(* log is loaded and the start of the window taken from the clock anew.    *)
Starting(p, now) ==
  LET w == post[p]
      t1 == IF w.dur > 0 THEN now + w.dur ELSE Inf
  IN  [w EXCEPT !.pc = "swap", !.now = now, !.cur = logVersion,
                !.next = <<Superseding(log, now, t1, w.rise, now)>>]

LoadLog(p) ==
  /\ post[p].pc = "load"
  /\ post' = [post EXCEPT ![p] = Starting(p, secs)]
  /\ UNCHANGED <<secs, log, logVersion, posts, reader, lastRead>>

Swap(p) ==
  /\ post[p].pc = "swap" /\ post[p].cur = logVersion
  /\ log' = post[p].next[1] /\ logVersion' = logVersion + 1
  /\ post' = [post EXCEPT ![p] = NoPost]
  /\ UNCHANGED <<secs, posts, reader, lastRead>>

SwapFails(p) ==
  /\ post[p].pc = "swap" /\ post[p].cur # logVersion
  /\ post' = [post EXCEPT ![p].pc = "load", ![p].next = << >>, ![p].cur = 0]
  /\ UNCHANGED <<secs, log, logVersion, posts, reader, lastRead>>

(* A read takes the time and then loads the log.  It is clean when no      *)
(* request had already taken a start before it without publishing yet.     *)
ReadBegins ==
  /\ reader = NotReading /\ reader' = secs
  /\ UNCHANGED <<secs, log, logVersion, post, posts, lastRead>>

ReadEnds ==
  /\ reader # NotReading /\ reader' = NotReading
  /\ lastRead' = IF reader < lastRead.t THEN lastRead
             ELSE [t |-> reader, above |-> aboveThresholdSeconds(log, reader),
                   clean |-> \A p \in Posters : post[p].pc = "swap" => post[p].now >= reader]
  /\ UNCHANGED <<secs, log, logVersion, post, posts>>

TimePasses ==
  /\ secs < MaxSecs /\ secs' = secs + 1
  /\ UNCHANGED <<log, logVersion, post, posts, reader, lastRead>>

Degrade(p) == DegradeHandler(p) \/ LoadLog(p) \/ Swap(p) \/ SwapFails(p)

EpisodeNext ==
  \/ \E p \in Posters : Degrade(p)
  \/ ReadBegins \/ ReadEnds \/ TimePasses

EpisodeSpec == EpisodeInit /\ [][EpisodeNext]_episodeVars

--------------------------------------------------------------------------
(* Every window is well formed, and the log stays within its cap however   *)
(* many requests are made.                                                 *)
EpisodeTypeOK ==
  /\ secs \in 0 .. MaxSecs /\ logVersion \in 0 .. MaxPosts /\ log.settledUntil <= secs
  /\ Len(log.episodes) <= EpisodeCap
  /\ \A i \in DOMAIN log.episodes : log.episodes[i].t0 <= log.episodes[i].t1

(* Two requests never add up: at most one episode is in force at any       *)
(* instant, however their compare-and-swaps interleave (Degrade's comment  *)
(* on recomputing t0 in the retry loop).                                   *)
OneEpisodeAtATime ==
  \A t \in 0 .. MaxSecs : Cardinality({i \in DOMAIN log.episodes : active(log.episodes[i], t)}) <= 1

(* The past is frozen: the uncorrectable seconds a clean read reported for *)
(* its instant are still what the log yields for it, until the instant is  *)
(* folded away, and then the folded total is no less.  Superseding,        *)
(* clearing, expiring and collapsing episodes change none of it.           *)
HistoryFrozen ==
  lastRead.clean =>
    IF lastRead.t > log.settledUntil THEN aboveThresholdSeconds(log, lastRead.t) = lastRead.above
    ELSE log.settledAbove >= lastRead.above

\* The alarms a collector is told of are those latched, in order of severity, only
\* after the soak and, when the fault stays, soon after it, for the engine that
\* is live at the address (optical_alarm.go, optical_alarm_manager.go).
AlarmsTruthful ==
  /\ [](/\ AlarmTypeOK /\ FailImpliesDegrade /\ ToldWhatIsLatched
        /\ FaultIsRaised /\ WatchesTheLiveEngine)
  /\ SoakedThrough

\* The episode log stays within its cap, has one episode in force at a time and never
\* rewrites the history a reader has integrated (optical_degrade.go).
EpisodesKept ==
  /\ EpisodeTypeOK /\ OneEpisodeAtATime /\ HistoryFrozen
===============================================================================
