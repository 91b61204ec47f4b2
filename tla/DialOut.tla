------------------------------- MODULE DialOut -------------------------------
(***************************************************************************)
(* A device's gNMI dial-out exporter in on-change mode                     *)
(* (gnmi_dialout_exporter.go): the loop that dials the collector, opens a  *)
(* stream, registers on the state engine, pushes a snapshot and then the   *)
(* changes into a bounded queue that drops its oldest, a sender that       *)
(* drains it, the reconnect with its backoff when a Send fails, and Close, *)
(* which cancels the loop and waits for it.                                *)
(*                                                                         *)
(* A push carries values read when it is built: the snapshot those of      *)
(* every leaf, a change that of one.  A Send on a broken stream may fail   *)
(* or vanish; nothing else tells the exporter that a stream is broken.     *)
(***************************************************************************)
EXTENDS Integers, Sequences, FiniteSets

CONSTANTS
  PushLeaves,     \* the leaves the configured paths cover
  QueueDepth,     \* subscribeBufferDepth
  EventDepth,     \* onChangeBufferDepth
  InitialWait,    \* dialoutInitialBackoff
  MaxWait,        \* dialoutMaxBackoff
  MaxMoves,       \* bound: changes of leaves
  MaxBreaks       \* bound: streams the network breaks

ASSUME DialOutConstants ==
  /\ QueueDepth \in Nat \ {0} /\ EventDepth \in Nat \ {0}
  /\ InitialWait \in Nat \ {0} /\ MaxWait \in Nat /\ InitialWait <= MaxWait

VARIABLES
  state,       \* the engine's value of each leaf
  moves,       \* changes so far
  events,      \* the listener's channel
  listens,     \* AddListener done
  run,         \* where the run loop stands
  pause,       \* its backoff
  streamUp,    \* the network carries the stream
  breaks,      \* streams broken so far
  pushes,      \* the queue to the sender
  pump,        \* the sender
  push,        \* the push in its hands
  cancel,      \* the stream's context is cancelled
  closing,     \* Close
  drops,       \* this stream dropped a push or an event
  collector    \* the collector's value of each leaf

dialVars == <<state, moves, events, listens, run, pause, streamUp, breaks, pushes,
              pump, push, cancel, closing, drops, collector>>

Unknown == -1
NoPush == [l \in {} |-> 0]
InStream == {"listen", "snapshot", "produce", "drain"}

DialTypeOK ==
  /\ state \in [PushLeaves -> 0 .. MaxMoves] /\ moves \in 0 .. MaxMoves
  /\ Len(events) <= EventDepth /\ Len(pushes) <= QueueDepth
  /\ listens \in BOOLEAN /\ streamUp \in BOOLEAN /\ cancel \in BOOLEAN
  /\ drops \in BOOLEAN /\ breaks \in 0 .. MaxBreaks
  /\ closing \in {"no", "called", "done"}
  /\ run \in InStream \cup {"check", "open", "ended", "refused", "sleep", "exited"}
  /\ pump \in {"off", "idle", "send", "exited"} /\ pause \in InitialWait .. MaxWait
  /\ collector \in [PushLeaves -> Unknown .. MaxMoves]

DialInit ==
  /\ state = [l \in PushLeaves |-> 0] /\ moves = 0
  /\ events = << >> /\ listens = FALSE
  /\ run = "check" /\ pause = InitialWait
  /\ streamUp = FALSE /\ breaks = 0
  /\ pushes = << >> /\ pump = "off" /\ push = NoPush /\ cancel = FALSE
  /\ closing = "no" /\ drops = FALSE
  /\ collector = [l \in PushLeaves |-> Unknown]

(***************************************************************************)
(* The state engine and the network.                                       *)
(***************************************************************************)
Move(l) ==
  /\ moves < MaxMoves
  /\ moves' = moves + 1
  /\ state' = [state EXCEPT ![l] = moves']
  /\ IF ~listens THEN UNCHANGED <<events, drops>>
     ELSE IF Len(events) < EventDepth
     THEN events' = Append(events, l) /\ UNCHANGED drops
     ELSE events' = Append(Tail(events), l) /\ drops' = TRUE
  /\ UNCHANGED <<listens, run, pause, streamUp, breaks, pushes, pump, push, cancel,
                 closing, collector>>

StreamBreaks ==
  /\ streamUp /\ breaks < MaxBreaks
  /\ streamUp' = FALSE /\ breaks' = breaks + 1
  /\ UNCHANGED <<state, moves, events, listens, run, pause, pushes, pump, push,
                 cancel, closing, drops, collector>>

(***************************************************************************)
(* The run loop.                                                           *)
(***************************************************************************)
RunTo(at) == run' = at

RunCheck ==
  /\ run = "check"
  /\ IF closing # "no" THEN RunTo("exited") ELSE RunTo("open") \/ RunTo("sleep")
  /\ UNCHANGED <<state, moves, events, listens, pause, streamUp, breaks, pushes,
                 pump, push, cancel, closing, drops, collector>>

\* streamOnce: a new stream has a context, a queue and a sender of its own.
RunOpen ==
  /\ run = "open"
  /\ \/ RunTo("refused") /\ UNCHANGED <<streamUp, pump, cancel, drops>>
     \/ /\ closing = "no"
        /\ RunTo("listen") /\ streamUp' = TRUE /\ pump' = "idle"
        /\ cancel' = FALSE /\ drops' = FALSE
  /\ UNCHANGED <<state, moves, events, listens, pause, breaks, pushes, push, closing,
                 collector>>

RunListen ==
  /\ run = "listen"
  /\ listens' = TRUE /\ RunTo("snapshot")
  /\ UNCHANGED <<state, moves, events, pause, streamUp, breaks, pushes, pump, push,
                 cancel, closing, drops, collector>>

\* pushOrDrop; a cancelled context may lose the push.
PushOrDrop(p) ==
  \/ /\ Len(pushes) < QueueDepth
     /\ pushes' = Append(pushes, p) /\ UNCHANGED drops
  \/ /\ Len(pushes) = QueueDepth
     /\ pushes' = Append(Tail(pushes), p) /\ drops' = TRUE
  \/ cancel /\ UNCHANGED <<pushes, drops>>

SnapshotAt(at, next) ==
  /\ run = at
  /\ PushOrDrop(state)
  /\ RunTo(next)
  /\ UNCHANGED <<state, moves, events, listens, pause, streamUp, breaks, pump, push,
                 cancel, closing, collector>>

RunSnapshot == SnapshotAt("snapshot", "produce")

\* pushChange reads the leaf again.
RunChange ==
  /\ run = "produce" /\ events # << >>
  /\ PushOrDrop([l \in {Head(events)} |-> state[l]])
  /\ events' = Tail(events)
  /\ UNCHANGED <<state, moves, listens, run, pause, streamUp, breaks, pump, push,
                 cancel, closing, collector>>

\* A cancelled context ends the producer, which removes its listener; the
\* queue is closed behind it.
RunProduced ==
  /\ run = "produce" /\ cancel
  /\ listens' = FALSE /\ events' = << >> /\ RunTo("drain")
  /\ UNCHANGED <<state, moves, pause, streamUp, breaks, pushes, pump, push, cancel,
                 closing, drops, collector>>

RunDrained ==
  /\ run = "drain" /\ pump = "exited"
  /\ RunTo("ended") /\ streamUp' = FALSE /\ pushes' = << >> /\ push' = NoPush
  /\ pump' = "off" /\ cancel' = (closing # "no")
  /\ UNCHANGED <<state, moves, events, listens, pause, breaks, closing, drops,
                 collector>>

\* Only a stream that stayed up long enough resets the backoff.
RunEnded ==
  /\ run \in {"ended", "refused"}
  /\ IF closing # "no" THEN RunTo("exited") /\ UNCHANGED pause
     ELSE /\ RunTo("sleep")
          /\ \/ UNCHANGED pause
             \/ run = "ended" /\ pause' = InitialWait
  /\ UNCHANGED <<state, moves, events, listens, streamUp, breaks, pushes, pump, push,
                 cancel, closing, drops, collector>>

RunSleep ==
  /\ run = "sleep"
  /\ IF closing # "no" THEN RunTo("exited") /\ UNCHANGED pause
     ELSE /\ RunTo("check")
          /\ pause' = IF 2 * pause < MaxWait THEN 2 * pause ELSE MaxWait
  /\ UNCHANGED <<state, moves, events, listens, streamUp, breaks, pushes, pump, push,
                 cancel, closing, drops, collector>>

Run == \/ RunCheck \/ RunOpen \/ RunListen \/ RunSnapshot \/ RunChange
       \/ RunProduced \/ RunDrained \/ RunEnded \/ RunSleep

(***************************************************************************)
(* The sender.                                                             *)
(***************************************************************************)
PumpTake ==
  /\ pump = "idle" /\ pushes # << >>
  /\ pump' = "send" /\ push' = Head(pushes) /\ pushes' = Tail(pushes)
  /\ UNCHANGED <<state, moves, events, listens, run, pause, streamUp, breaks, cancel,
                 closing, drops, collector>>

PumpSend ==
  /\ pump = "send"
  /\ pump' = "idle" /\ push' = NoPush
  /\ collector' = IF streamUp
                  THEN [l \in PushLeaves |-> IF l \in DOMAIN push THEN push[l] ELSE collector[l]]
                  ELSE collector
  /\ UNCHANGED <<state, moves, events, listens, run, pause, streamUp, breaks, pushes,
                 cancel, closing, drops>>

FailCancelling(cancels) ==
  /\ pump = "send" /\ (~streamUp \/ cancel)
  /\ pump' = "exited" /\ push' = NoPush /\ cancel' = (cancel \/ cancels)
  /\ UNCHANGED <<state, moves, events, listens, run, pause, streamUp, breaks, pushes,
                 closing, drops, collector>>

\* A failed Send ends the sender, which cancels the stream's context.
PumpFails == FailCancelling(TRUE)

PumpExits ==
  /\ pump = "idle" /\ (cancel \/ (run = "drain" /\ pushes = << >>))
  /\ pump' = "exited" /\ cancel' = TRUE
  /\ UNCHANGED <<state, moves, events, listens, run, pause, streamUp, breaks, pushes,
                 push, closing, drops, collector>>

Pump == PumpTake \/ PumpSend \/ PumpFails \/ PumpExits

(***************************************************************************)
(* Close.                                                                  *)
(***************************************************************************)
Closes(cancels) ==
  /\ closing = "no"
  /\ closing' = "called" /\ cancel' = (cancel \/ cancels)
  /\ UNCHANGED <<state, moves, events, listens, run, pause, streamUp, breaks, pushes,
                 pump, push, drops, collector>>

CloseCancels == Closes(TRUE)

CloseJoins ==
  /\ closing = "called" /\ run = "exited"
  /\ closing' = "done"
  /\ UNCHANGED <<state, moves, events, listens, run, pause, streamUp, breaks, pushes,
                 pump, push, cancel, drops, collector>>

DialNext ==
  \/ \E l \in PushLeaves : Move(l)
  \/ StreamBreaks \/ Run \/ Pump \/ CloseCancels \/ CloseJoins

(***************************************************************************)
(* Properties.                                                             *)
(***************************************************************************)
\* A stream that carries and has nothing left to push or send shows the
\* collector every leaf as the device has it, however often the exporter
\* reconnected and whatever changed while it was away, as long as this
\* stream dropped nothing.
LiveStreamIsCurrent ==
  (streamUp /\ ~cancel /\ run = "produce" /\ events = << >> /\ pushes = << >> /\ pump = "idle" /\ ~drops) =>
    \A l \in PushLeaves : collector[l] = state[l]

\* A Send that fails leads to a new attempt: the producer does not go on
\* filling a queue that nobody drains.
FailedSendReconnects == (pump = "exited") ~> (run \in {"check", "exited"})

\* Close returns, wherever the loop stands when it is called.
DialOutCloses == (closing = "called") ~> (closing = "done")
=============================================================================
