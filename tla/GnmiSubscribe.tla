---------------------------- MODULE GnmiSubscribe ----------------------------
(***************************************************************************)
(* One gNMI Subscribe call (gnmi_handlers.go, gnmi_subscribe.go): the      *)
(* first request and its refusals, ONCE, and the SAMPLE stream with a      *)
(* ticker goroutine per subscription, a bounded queue that drops its       *)
(* oldest tick, a sender and a handler that joins them all.  ON_CHANGE     *)
(* streams are the subject of GnmiOnChange: here they only take the call.  *)
(*                                                                         *)
(* A queue element is one tick: the subscription, the number of the tick   *)
(* and the responses it holds, one on a legacy path and one for each list  *)
(* entry on a catalogue path.                                              *)
(***************************************************************************)
EXTENDS Integers, Sequences, FiniteSets, FiniteSetsExt

CONSTANTS
  Subs,         \* subscriptions of the stream
  Entries,      \* responses in a tick of each
  Requests,     \* the first requests a client may send
  Depth,        \* subscribeBufferDepth
  MaxTicks      \* bound: ticks of a subscription after its snapshot

ASSUME SubscribeConstants ==
  /\ Depth \in Nat \ {0}
  /\ \A s \in Subs : Entries[s] \in Nat \ {0}

VARIABLES
  handler,    \* where the handler stands
  outcome,    \* what the call returns
  ctxDone,    \* the stream's context is cancelled
  client,     \* the client reads, or has gone
  ticker,     \* each ticker goroutine: where it stands, its tick
  initial,    \* initialFired
  missed,     \* subscriptions whose snapshot did not resolve
  queue, queueClosed,
  sender,     \* the send goroutine: where it stands, the tick in its hands
  errCh,      \* the sender has reported
  got,        \* ticks the client has whole, as <<subscription, tick>>
  enqueued, delivered, dropped,  \* responses: queued ever, sent, counted dropped
  active      \* activeSubscriptions

subVars == <<handler, outcome, ctxDone, client, ticker, initial, missed, queue, queueClosed,
             sender, errCh, got, enqueued, delivered, dropped, active>>

NoTick == [sub |-> "none", n |-> 0, left |-> 0]
SyncTick == [sub |-> "sync", n |-> 0, left |-> 1]
TickOf(s, n) == [sub |-> s, n |-> n, left |-> Entries[s]]

TypeOK ==
  /\ handler \in {"recv", "stream", "join", "result", "onchange", "returned"}
  /\ ctxDone \in BOOLEAN /\ queueClosed \in BOOLEAN /\ errCh \in BOOLEAN
  /\ client \in {"reading", "gone"}
  /\ \A s \in Subs : /\ ticker[s].at \in {"none", "resolve", "put", "drop", "retry",
                                          "counted", "wait", "exited"}
                     /\ ticker[s].n \in 0 .. MaxTicks
  /\ initial \in 0 .. Cardinality(Subs)
  /\ Len(queue) <= Depth
  /\ sender.at \in {"none", "recv", "send", "exited"}
  /\ enqueued \in Nat /\ delivered \in Nat /\ dropped \in Nat /\ active \in 0 .. 1

Resting(s) == [at |-> "none", n |-> 0, item |-> NoTick]

SubInit ==
  /\ handler = "recv" /\ outcome = "none" /\ ctxDone = FALSE /\ client = "reading"
  /\ ticker = [s \in Subs |-> Resting(s)]
  /\ initial = 0 /\ missed = {} /\ queue = << >> /\ queueClosed = FALSE
  /\ sender = [at |-> "none", item |-> NoTick] /\ errCh = FALSE
  /\ got = {} /\ enqueued = 0 /\ delivered = 0 /\ dropped = 0 /\ active = 0

(***************************************************************************)
(* The first request.                                                      *)
(***************************************************************************)
\* classifyOnChangeMode.
AnyOnChange(r) == "onchange" \in r.modes
AnySample(r) == r.modes \cap {"sample", "target"} # {}
AnyUnsupported(r) == r.modes \ {"onchange", "sample", "target"} # {}

\* The refusals in the order subscribeLabelled tries them; the catalogue's
\* gate on the encoding comes before the server's.
Refusal(r) ==
  CASE r.kind = "poll" -> "Unimplemented"
    [] r.kind = "none" -> "InvalidArgument"
    [] ~r.catalogAccepts -> "Unimplemented"
    [] r.enc \notin {"json", "json_ietf", "proto"} -> "InvalidArgument"
    [] r.list = "poll" -> "Unimplemented"
    [] r.list \notin {"stream", "once"} -> "InvalidArgument"
    [] r.modes = {} -> "InvalidArgument"
    [] r.list = "once" -> "none"
    [] AnyUnsupported(r) -> "Unimplemented"
    [] AnyOnChange(r) /\ AnySample(r) -> "InvalidArgument"
    [] OTHER -> "none"

Return(result) == handler' = "returned" /\ outcome' = result

\* No request within gnmiFirstRecvTimeout, or the client leaves first.
FirstRecvFails ==
  /\ handler = "recv"
  /\ Return(IF ctxDone THEN "Cancelled" ELSE "DeadlineExceeded")
  /\ UNCHANGED <<ctxDone, client, ticker, initial, missed, queue, queueClosed, sender, errCh,
                 got, enqueued, delivered, dropped, active>>

\* A refused request; one refused for its modes was active for a moment.
Refuse(r) ==
  /\ handler = "recv" /\ Refusal(r) # "none"
  /\ Return(Refusal(r))
  /\ UNCHANGED <<ctxDone, client, ticker, initial, missed, queue, queueClosed, sender, errCh,
                 got, enqueued, delivered, dropped, active>>

\* runOnceSubscribe: every subscription's updates and the sync marker, unless
\* a path fails or the client goes.
ServeOnce(r) ==
  /\ handler = "recv" /\ Refusal(r) = "none" /\ r.list = "once"
  /\ \/ /\ client = "reading" /\ Return("ok")
        /\ got' = {<<s, 0>> : s \in Subs} \cup {<<"sync", 0>>}
     \/ Return("error") /\ UNCHANGED got
  /\ UNCHANGED <<ctxDone, client, ticker, initial, missed, queue, queueClosed, sender, errCh,
                 enqueued, delivered, dropped, active>>

ServeOnChange(r) ==
  /\ handler = "recv" /\ Refusal(r) = "none" /\ r.list = "stream" /\ AnyOnChange(r)
  /\ handler' = "onchange" /\ active' = active + 1
  /\ UNCHANGED <<outcome, ctxDone, client, ticker, initial, missed, queue, queueClosed, sender,
                 errCh, got, enqueued, delivered, dropped>>

OnChangeReturns ==
  /\ handler = "onchange"
  /\ Return("stream over") /\ active' = active - 1
  /\ UNCHANGED <<ctxDone, client, ticker, initial, missed, queue, queueClosed, sender, errCh,
                 got, enqueued, delivered, dropped>>

ServeSample(r) ==
  /\ handler = "recv" /\ Refusal(r) = "none" /\ r.list = "stream" /\ ~AnyOnChange(r)
  /\ handler' = "stream" /\ active' = active + 1
  /\ ticker' = [s \in Subs |-> [Resting(s) EXCEPT !.at = "resolve"]]
  /\ sender' = [sender EXCEPT !.at = "recv"]
  /\ UNCHANGED <<outcome, ctxDone, client, initial, missed, queue, queueClosed, errCh, got,
                 enqueued, delivered, dropped>>

(***************************************************************************)
(* The tickers.  enqueueDropOldest tries once, then alternates between     *)
(* taking the oldest tick and trying again, and gives up on a cancelled    *)
(* context.                                                                *)
(***************************************************************************)
TickerTo(s, at, n, item) == ticker' = [ticker EXCEPT ![s] = [at |-> at, n |-> n, item |-> item]]

\* Where a ticker goes when its tick is queued: after the snapshot it counts
\* itself, after the sync marker and every later tick it waits.
Done(s) == IF ticker[s].n = 0 /\ ticker[s].item # SyncTick THEN "counted" ELSE "wait"

\* pushSubUpdate: a path that fails to resolve skips the tick.
TickResolve(s) ==
  /\ ticker[s].at = "resolve"
  /\ \/ /\ TickerTo(s, "put", ticker[s].n, TickOf(s, ticker[s].n))
        /\ UNCHANGED missed
     \/ IF ticker[s].n = 0 THEN TickerTo(s, "counted", 0, NoTick) /\ missed' = missed \cup {s}
        ELSE TickerTo(s, "wait", ticker[s].n, NoTick) /\ UNCHANGED missed
  /\ UNCHANGED <<handler, outcome, ctxDone, client, initial, queue, queueClosed, sender,
                 errCh, got, enqueued, delivered, dropped, active>>

TickPut(s) ==
  /\ ticker[s].at \in {"put", "retry"}
  /\ IF Len(queue) < Depth
     THEN /\ queue' = Append(queue, ticker[s].item)
          /\ enqueued' = enqueued + ticker[s].item.left
          /\ TickerTo(s, Done(s), ticker[s].n, NoTick)
     ELSE /\ ~ctxDone
          /\ TickerTo(s, "drop", ticker[s].n, ticker[s].item)
          /\ UNCHANGED <<queue, enqueued>>
  /\ UNCHANGED <<handler, outcome, ctxDone, client, initial, missed, queueClosed, sender, errCh,
                 got, delivered, dropped, active>>

TickDrop(s) ==
  /\ ticker[s].at = "drop"
  /\ queue # << >> \/ ~ctxDone
  /\ IF queue = << >> THEN UNCHANGED <<queue, dropped>>
     ELSE queue' = Tail(queue) /\ dropped' = dropped + Head(queue).left
  /\ TickerTo(s, "retry", ticker[s].n, ticker[s].item)
  /\ UNCHANGED <<handler, outcome, ctxDone, client, initial, missed, queueClosed, sender, errCh,
                 got, enqueued, delivered, active>>

TickGivesUp(s) ==
  /\ ticker[s].at \in {"put", "drop", "retry"} /\ ctxDone
  /\ TickerTo(s, Done(s), ticker[s].n, NoTick)
  /\ UNCHANGED <<handler, outcome, ctxDone, client, initial, missed, queue, queueClosed, sender,
                 errCh, got, enqueued, delivered, dropped, active>>

CountUpTo(s, total) ==
  /\ ticker[s].at = "counted"
  /\ initial' = initial + 1
  /\ IF initial' = total THEN TickerTo(s, "put", 0, SyncTick)
     ELSE TickerTo(s, "wait", 0, NoTick)
  /\ UNCHANGED <<handler, outcome, ctxDone, client, missed, queue, queueClosed, sender,
                 errCh, got, enqueued, delivered, dropped, active>>

\* initialFired: the last to count queues the sync marker.
TickCounted(s) == CountUpTo(s, Cardinality(Subs))

TickFires(s) ==
  /\ ticker[s].at = "wait" /\ ticker[s].n < MaxTicks
  /\ TickerTo(s, "resolve", ticker[s].n + 1, NoTick)
  /\ UNCHANGED <<handler, outcome, ctxDone, client, initial, missed, queue, queueClosed, sender,
                 errCh, got, enqueued, delivered, dropped, active>>

TickExits(s) ==
  /\ ticker[s].at = "wait" /\ ctxDone
  /\ TickerTo(s, "exited", ticker[s].n, NoTick)
  /\ UNCHANGED <<handler, outcome, ctxDone, client, initial, missed, queue, queueClosed, sender,
                 errCh, got, enqueued, delivered, dropped, active>>

Ticker(s) == \/ TickResolve(s) \/ TickPut(s) \/ TickDrop(s) \/ TickGivesUp(s)
             \/ TickCounted(s) \/ TickExits(s)

(***************************************************************************)
(* The sender.                                                             *)
(***************************************************************************)
SenderTakes ==
  /\ sender.at = "recv" /\ queue # << >>
  /\ sender' = [at |-> "send", item |-> Head(queue)]
  /\ queue' = Tail(queue)
  /\ UNCHANGED <<handler, outcome, ctxDone, client, ticker, initial, missed, queueClosed, errCh,
                 got, enqueued, delivered, dropped, active>>

SenderSends ==
  /\ sender.at = "send" /\ client = "reading"
  /\ delivered' = delivered + 1
  /\ IF sender.item.left > 1
     THEN sender' = [sender EXCEPT !.item.left = @ - 1] /\ UNCHANGED got
     ELSE /\ sender' = [at |-> "recv", item |-> NoTick]
          /\ got' = got \cup {<<sender.item.sub, sender.item.n>>}
  /\ UNCHANGED <<handler, outcome, ctxDone, client, ticker, initial, missed, queue, queueClosed,
                 errCh, enqueued, dropped, active>>

SenderLeaves(reports) ==
  /\ \/ sender.at = "send" /\ client = "gone"
     \/ sender.at = "recv" /\ (ctxDone \/ (queueClosed /\ queue = << >>))
  /\ sender' = [sender EXCEPT !.at = "exited"]
  /\ errCh' = reports
  /\ ctxDone' = TRUE
  /\ UNCHANGED <<handler, outcome, client, ticker, initial, missed, queue, queueClosed, got,
                 enqueued, delivered, dropped, active>>

\* A failed Send, a cancelled context or a closed queue end it; it reports
\* once and cancels the context.
SenderExits == SenderLeaves(TRUE)

Sender == SenderTakes \/ SenderSends \/ SenderExits

(***************************************************************************)
(* The handler and the client.                                             *)
(***************************************************************************)
HandlerWakes ==
  /\ handler = "stream" /\ ctxDone
  /\ handler' = "join"
  /\ UNCHANGED <<outcome, ctxDone, client, ticker, initial, missed, queue, queueClosed, sender,
                 errCh, got, enqueued, delivered, dropped, active>>

JoinCloses ==
  /\ handler = "join"
  /\ queueClosed' = TRUE /\ handler' = "result"
  /\ UNCHANGED <<outcome, ctxDone, client, ticker, initial, missed, queue, sender, errCh,
                 got, enqueued, delivered, dropped, active>>

HandlerJoins == (\A s \in Subs : ticker[s].at = "exited") /\ JoinCloses

HandlerReturns ==
  /\ handler = "result" /\ errCh
  /\ Return("stream over") /\ active' = active - 1
  /\ UNCHANGED <<ctxDone, client, ticker, initial, missed, queue, queueClosed, sender, errCh,
                 got, enqueued, delivered, dropped>>

\* The connection breaks; gRPC cancels the stream's context when it notices,
\* at the latest when a keepalive goes unanswered.
ClientGoes ==
  /\ client = "reading" /\ handler # "returned"
  /\ client' = "gone"
  /\ UNCHANGED <<handler, outcome, ctxDone, ticker, initial, missed, queue, queueClosed,
                 sender, errCh, got, enqueued, delivered, dropped, active>>

KeepaliveFails ==
  /\ client = "gone" /\ ~ctxDone
  /\ ctxDone' = TRUE
  /\ UNCHANGED <<handler, outcome, client, ticker, initial, missed, queue, queueClosed,
                 sender, errCh, got, enqueued, delivered, dropped, active>>

SubNext ==
  \/ FirstRecvFails \/ OnChangeReturns
  \/ \E r \in Requests : Refuse(r) \/ ServeOnce(r) \/ ServeOnChange(r) \/ ServeSample(r)
  \/ \E s \in Subs : Ticker(s) \/ TickFires(s)
  \/ Sender \/ HandlerWakes \/ HandlerJoins \/ HandlerReturns
  \/ ClientGoes \/ KeepaliveFails

(***************************************************************************)
(* Properties.                                                             *)
(***************************************************************************)
\* The queue is closed only when no ticker can write to it any more, and is
\* closed once: a write to a closed channel would end the process (the
\* channel-close discipline of runStreamSubscribe).
CloseAfterProducers ==
  queueClosed => \A s \in Subs : ticker[s].at = "exited"

Queued == MapThenSumSet(LAMBDA i : queue[i].left, DOMAIN queue)

\* While the stream is open, every response ever queued is sent, queued, in
\* the sender's hands or counted as dropped (updatesDropped).
ResponsesAccounted ==
  sender.at \in {"recv", "send"} =>
    enqueued = delivered + dropped + sender.item.left + Queued

SnapshotsIn == \A s \in Subs \ missed : <<s, 0>> \in got

\* A client that has the sync marker has the snapshot of every subscription
\* that resolved, unless the status counts a drop.
SyncAfterSnapshots == handler = "stream" /\ <<"sync", 0>> \in got /\ dropped = 0 => SnapshotsIn

\* Exactly the call that is being served counts as active.
ActiveExact == active = IF handler \in {"recv", "returned"} THEN 0 ELSE 1

\* A client that goes gets its goroutines back: the tickers and the sender
\* exit and the call returns (runStreamSubscribe).
GoneReturns == (client = "gone" /\ handler # "recv") ~> (handler = "returned")
=============================================================================
