----------------------------- MODULE NetconfServer ----------------------------
(***************************************************************************)
(* One NETCONF listener of a device, over SSH or over TLS                  *)
(* (netconf_server.go, netconf_tls.go): the accept loop, one goroutine per *)
(* connection, the control loop of an SSH connection with its one pending  *)
(* session channel, the goroutine of the session, and Close, which waits   *)
(* for all of them.  The SSH mux delivers a connection's requests to its   *)
(* channels and blocks on a stream nobody reads.                           *)
(***************************************************************************)
EXTENDS Integers, FiniteSets

CONSTANTS
  SshConns,     \* connections clients may open
  MaxChannels   \* bound: session channels opened per connection

ASSUME SrvConstants == MaxChannels \in Nat

VARIABLES
  transport,   \* "ssh" or "tls"
  accept,      \* the accept loop
  inAccept,    \* connections it accepted and has not tracked
  link,        \* per connection, see NoLink
  tracked,     \* s.conns
  closedSrv,   \* s.closed
  ctxSrv,      \* s.ctx is cancelled
  wgc,         \* the counter of s.wg
  closerSrv    \* Close

srvVars == <<transport, accept, inAccept, link, tracked, closedSrv, ctxSrv, wgc, closerSrv>>

(* serve: the connection's goroutine; tcp: the socket; mux: the SSH mux runs;
   pend: the channel that waits for its subsystem; begun: sessions started;
   sess: the session's goroutine; dropped: dropped channels whose stream is
   open; refusers: goroutines that read them; flood: requests wait in a dropped
   stream; chans: channels opened. *)
NoLink == [serve |-> "none", tcp |-> "closed", mux |-> FALSE, pend |-> FALSE, begun |-> 0,
           sess |-> "none", dropped |-> 0, refusers |-> 0, flood |-> FALSE, chans |-> 0]

SrvTypeOK ==
  /\ transport \in {"ssh", "tls"} /\ accept \in {"running", "stopped"}
  /\ inAccept \subseteq SshConns /\ tracked \subseteq SshConns
  /\ link \in [SshConns ->
       [serve : {"none", "handshake", "dispatch", "tls", "leaving", "done"},
        tcp : {"open", "closed"}, mux : BOOLEAN, pend : BOOLEAN, begun : 0 .. 2,
        sess : {"none", "run", "end", "done"}, dropped : 0 .. MaxChannels,
        refusers : 0 .. MaxChannels, flood : BOOLEAN, chans : 0 .. MaxChannels]]
  /\ closedSrv \in BOOLEAN /\ ctxSrv \in BOOLEAN /\ wgc \in Nat
  /\ closerSrv \in {"no", "cancelled", "marked", "waiting", "returned"}

SrvInit ==
  /\ transport \in {"ssh", "tls"} /\ accept = "running" /\ inAccept = {}
  /\ link = [c \in SshConns |-> NoLink] /\ tracked = {}
  /\ closedSrv = FALSE /\ ctxSrv = FALSE /\ wgc = 1 /\ closerSrv = "no"

With(c, r) == link' = [link EXCEPT ![c] = r]

OnLink(c, r) ==
  /\ With(c, r)
  /\ UNCHANGED <<transport, accept, inAccept, tracked, closedSrv, ctxSrv, wgc, closerSrv>>

OnLinkCounted(c, r, n) ==
  /\ With(c, r) /\ wgc' = wgc + n
  /\ UNCHANGED <<transport, accept, inAccept, tracked, closedSrv, ctxSrv, closerSrv>>

(***************************************************************************)
(* The accept loop.                                                        *)
(***************************************************************************)
Accept(c) ==
  /\ accept = "running" /\ inAccept = {} /\ closerSrv = "no"
  /\ link[c].serve = "none" /\ link[c].tcp = "closed"
  /\ inAccept' = {c} /\ With(c, [NoLink EXCEPT !.tcp = "open"])
  /\ UNCHANGED <<transport, accept, tracked, closedSrv, ctxSrv, wgc, closerSrv>>

\* track, then the connection's goroutine; a closed server closes the
\* connection and ends the loop.
Track(c) ==
  /\ c \in inAccept
  /\ inAccept' = {}
  /\ IF closedSrv
     THEN /\ With(c, [NoLink EXCEPT !.serve = "done"])
          /\ accept' = "stopped" /\ wgc' = wgc - 1 /\ UNCHANGED tracked
     ELSE /\ tracked' = tracked \cup {c} /\ wgc' = wgc + 1
          /\ With(c, [link[c] EXCEPT !.serve = "handshake"])
          /\ UNCHANGED accept
  /\ UNCHANGED <<transport, closedSrv, ctxSrv, closerSrv>>

\* Accept fails on the closed listener.
AcceptEnds ==
  /\ accept = "running" /\ inAccept = {} /\ closerSrv # "no"
  /\ accept' = "stopped" /\ wgc' = wgc - 1
  /\ UNCHANGED <<transport, inAccept, link, tracked, closedSrv, ctxSrv, closerSrv>>

(***************************************************************************)
(* The connection's goroutine.                                             *)
(***************************************************************************)
\* The handshake succeeds; over TLS the certificate may name no user.
Handshake(c) ==
  /\ link[c].serve = "handshake" /\ link[c].tcp = "open"
  /\ \/ transport = "ssh" /\ OnLink(c, [link[c] EXCEPT !.serve = "dispatch", !.mux = TRUE])
     \/ transport = "tls" /\ ~ctxSrv
        /\ OnLink(c, [link[c] EXCEPT !.serve = "tls", !.begun = 1, !.sess = "run"])
     \/ transport = "tls" /\ OnLink(c, [link[c] EXCEPT !.serve = "leaving"])

\* It fails, or its deadline passes.
HandshakeFails(c) ==
  /\ link[c].serve = "handshake"
  /\ OnLink(c, [link[c] EXCEPT !.serve = "leaving"])

DroppedWith(l, refuse) ==
  IF ~l.pend THEN l
  ELSE [l EXCEPT !.pend = FALSE, !.dropped = @ + 1, !.refusers = @ + (IF refuse THEN 1 ELSE 0)]

\* dropPending: the channel is closed and a goroutine reads what still comes.
Dropped(l) == DroppedWith(l, TRUE)

Counting(l, m) == m.refusers - l.refusers

Dispatching(c) == link[c].serve = "dispatch" /\ link[c].mux /\ ~link[c].flood

\* A session channel opens: refused once the session started, otherwise it
\* replaces the pending one.
ChannelOpens(c) ==
  /\ Dispatching(c) /\ link[c].chans < MaxChannels /\ link[c].begun = 0
  /\ LET l == Dropped(link[c]) IN
     OnLinkCounted(c, [l EXCEPT !.pend = TRUE, !.chans = @ + 1], Counting(link[c], l))

\* Slip: the session's goroutine is not counted.
SubsystemUncounted(c) ==
  /\ Dispatching(c) /\ link[c].pend
  /\ OnLink(c, [link[c] EXCEPT !.pend = FALSE, !.begun = @ + 1, !.sess = "run"])

\* The pending channel asks for the netconf subsystem.
Subsystem(c) ==
  /\ Dispatching(c) /\ link[c].pend
  /\ OnLinkCounted(c, [link[c] EXCEPT !.pend = FALSE, !.begun = @ + 1, !.sess = "run"], 1)

\* netconfSubsystemWait passes.
WaitFires(c) ==
  /\ link[c].serve = "dispatch" /\ link[c].pend
  /\ LET l == Dropped(link[c]) IN OnLinkCounted(c, l, Counting(link[c], l))

\* The client closes the pending channel: its stream is closed already.
PendingCloses(c) ==
  /\ Dispatching(c) /\ link[c].pend
  /\ OnLink(c, [link[c] EXCEPT !.pend = FALSE])

\* The mux closed its channels: the loop returns and drops what is pending.
DispatchReturns(c) ==
  /\ link[c].serve = "dispatch" /\ ~link[c].mux
  /\ OnLink(c, [link[c] EXCEPT !.serve = "leaving", !.pend = FALSE])

\* serveTLS returns with its session.
TLSReturns(c) ==
  /\ link[c].serve = "tls" /\ link[c].sess = "end"
  /\ OnLink(c, [link[c] EXCEPT !.serve = "leaving", !.sess = "done"])

\* serveConn's defers: close, untrack, Done.
ServeConnEnds(c) ==
  /\ link[c].serve = "leaving"
  /\ With(c, [link[c] EXCEPT !.serve = "done", !.tcp = "closed"])
  /\ tracked' = tracked \ {c} /\ wgc' = wgc - 1
  /\ UNCHANGED <<transport, accept, inAccept, closedSrv, ctxSrv, closerSrv>>

(***************************************************************************)
(* The session, the refusers, the mux and the client.                      *)
(***************************************************************************)
\* Serve returns: close-session, kill-session, a dead connection or a
\* cancelled context; the whole connection is closed.
SessionEnds(c) ==
  /\ link[c].sess = "run"
  /\ OnLink(c, [link[c] EXCEPT !.sess = "end", !.tcp = "closed"])

\* waitEvents and Done.
SessionDone(c) ==
  /\ link[c].serve # "tls" /\ link[c].sess = "end"
  /\ OnLinkCounted(c, [link[c] EXCEPT !.sess = "done"], -1)

Refuses(c) ==
  /\ link[c].refusers > 0 /\ link[c].flood
  /\ OnLink(c, [link[c] EXCEPT !.flood = FALSE])

\* A dropped stream closes: the client answers the close, or the mux is gone.
RefuserEnds(c) ==
  /\ link[c].refusers > 0 /\ ~link[c].flood
  /\ OnLinkCounted(c, [link[c] EXCEPT !.refusers = @ - 1, !.dropped = @ - 1], -1)

\* The client sends requests on a channel that was dropped.
Floods(c) ==
  /\ link[c].dropped > 0 /\ link[c].tcp = "open" /\ link[c].mux
  /\ OnLink(c, [link[c] EXCEPT !.flood = TRUE])

ClientCloses(c) ==
  /\ link[c].tcp = "open" /\ c \notin inAccept
  /\ OnLink(c, [link[c] EXCEPT !.tcp = "closed"])

\* The mux's read loop ends with the socket, unless it is stuck in a stream.
MuxEnds(c) ==
  /\ link[c].mux /\ link[c].tcp = "closed" /\ ~link[c].flood
  /\ OnLink(c, [link[c] EXCEPT !.mux = FALSE])

(***************************************************************************)
(* Close.                                                                  *)
(***************************************************************************)
CloserTo(at) == closerSrv' = at /\ UNCHANGED <<transport, accept, inAccept, wgc>>

\* cancel and the listener's Close.
CloseCancelsSrv ==
  /\ closerSrv = "no" /\ ctxSrv' = TRUE
  /\ CloserTo("cancelled") /\ UNCHANGED <<link, tracked, closedSrv>>

\* Under s.mu: closed is set and the connections are listed; each is closed.
CloseMarks ==
  /\ closerSrv = "cancelled" /\ closedSrv' = TRUE
  /\ CloserTo("marked") /\ UNCHANGED <<link, tracked, ctxSrv>>

CloseConns ==
  /\ closerSrv = "marked"
  /\ link' = [c \in SshConns |-> IF c \in tracked THEN [link[c] EXCEPT !.tcp = "closed"] ELSE link[c]]
  /\ CloserTo("waiting") /\ UNCHANGED <<tracked, closedSrv, ctxSrv>>

CloseReturnsSrv ==
  /\ closerSrv = "waiting" /\ wgc = 0
  /\ CloserTo("returned") /\ UNCHANGED <<link, tracked, closedSrv, ctxSrv>>

\* What the server's goroutines and the mux do by themselves.
Proceeds(c) ==
  \/ Track(c) \/ DispatchReturns(c) \/ TLSReturns(c) \/ ServeConnEnds(c)
  \/ SessionDone(c) \/ Refuses(c) \/ MuxEnds(c)
  \/ link[c].tcp = "closed" /\ HandshakeFails(c)
  \/ (link[c].tcp = "closed" \/ ctxSrv) /\ SessionEnds(c)
  \/ ~link[c].mux /\ RefuserEnds(c)

ClientActs(c) ==
  \/ Accept(c) \/ Handshake(c) \/ HandshakeFails(c) \/ ChannelOpens(c) \/ Subsystem(c)
  \/ WaitFires(c) \/ PendingCloses(c) \/ SessionEnds(c) \/ RefuserEnds(c) \/ Floods(c)
  \/ ClientCloses(c)

Closing == CloseCancelsSrv \/ CloseMarks \/ CloseConns \/ CloseReturnsSrv

SrvNext == AcceptEnds \/ Closing \/ \E c \in SshConns : Proceeds(c) \/ ClientActs(c)

SrvSpec == SrvInit /\ [][SrvNext]_srvVars
-------------------------------------------------------------------------------
\* dispatch: one NETCONF session runs per connection.
OneSessionPerConn == \A c \in SshConns : link[c].begun <= 1

\* Close: when it returns no goroutine of the server runs, no connection is
\* open and none is tracked.
CloseLeavesNothing ==
  closerSrv = "returned" =>
    /\ accept = "stopped" /\ inAccept = {} /\ tracked = {}
    /\ \A c \in SshConns :
         /\ link[c].serve \in {"none", "done"} /\ link[c].sess \in {"none", "done"}
         /\ link[c].refusers = 0 /\ link[c].tcp = "closed"

\* Close returns, whatever the clients send or do not send.
ServerCloseReturns == closerSrv = "cancelled" ~> closerSrv = "returned"

-------------------------------------------------------------------------------
(***************************************************************************)
(* NETCONF call home of one device (netconf_callhome.go): the loop dials   *)
(* the client on a fixed grid of ticks, writes the preamble, serves one    *)
(* SSH connection to its end and counts what became of the attempt.  Time  *)
(* is a clock that ticks once per unit; the keepalive goroutine of         *)
(* netconf_server.go closes a connection whose client is silent.           *)
(***************************************************************************)
CONSTANTS
  Phases,     \* the random phases of the first tick
  Cycle,      \* netconfCallHomeCycle
  KeepAlive,  \* netconfCallHomeKeepAlive
  Misses,     \* netconfCallHomeKeepAliveMisses
  MaxNow      \* bound: the clock

ASSUME CallHomeConstants ==
  /\ Cycle \in Nat \ {0} /\ KeepAlive \in Nat \ {0} /\ Misses \in Nat \ {0}
  /\ Phases \subseteq 0 .. Cycle - 1 /\ MaxNow \in Nat

VARIABLES
  nowCh,        \* the clock
  due,        \* when the loop's timer fires
  anchor,     \* the first attempt, or NoAnchor
  phaseCh,    \* where the loop stands
  sock,       \* the dialled connection
  cancelCh,   \* e.ctx is cancelled
  closedCh,   \* e.srv is closed
  closerCh,   \* close
  sessionUp,
  agg,        \* the client's aggregate
  refused,    \* attempts a closed server refused to track
  diedAt,     \* when the client stopped answering, or Never
  replied,    \* a keepalive request is outstanding
  misses,     \* ticks that found it unanswered
  beatAt      \* when the keepalive ticker fires next

chVars == <<nowCh, due, anchor, phaseCh, sock, cancelCh, closedCh, closerCh, sessionUp, agg,
            refused, diedAt, replied, misses, beatAt>>
keepVars == <<diedAt, replied, misses, beatAt>>

NoAnchor == -1
Never == -1
Busy == {"dial", "preamble", "track", "handshake", "session", "count"}

ChTypeOK ==
  /\ nowCh \in 0 .. MaxNow /\ due \in Nat \cup {Never} /\ anchor \in NoAnchor .. MaxNow
  /\ phaseCh \in Busy \cup {"wait", "ended"} /\ sock \in {"none", "open", "closed"}
  /\ cancelCh \in BOOLEAN /\ closedCh \in BOOLEAN
  /\ closerCh \in {"no", "cancelled", "waiting", "returned"} /\ sessionUp \in BOOLEAN
  /\ agg \in [attempts : Nat, failures : Nat, handshakes : Nat, ended : Nat]
  /\ refused \in Nat /\ diedAt \in Never .. MaxNow /\ replied \in BOOLEAN /\ misses \in 0 .. Misses
  /\ beatAt \in Nat \cup {Never}

ChInit ==
  /\ nowCh = 0 /\ due \in Phases /\ anchor = NoAnchor /\ phaseCh = "wait" /\ sock = "none"
  /\ cancelCh = FALSE /\ closedCh = FALSE /\ closerCh = "no" /\ sessionUp = FALSE
  /\ agg = [attempts |-> 0, failures |-> 0, handshakes |-> 0, ended |-> 0]
  /\ refused = 0 /\ diedAt = Never /\ replied = FALSE /\ misses = 0 /\ beatAt = Never

Count(field) == agg' = [agg EXCEPT ![field] = @ + 1]

\* The next point of the grid, strictly after now.
NextTick(t) == anchor + ((t - anchor) \div Cycle + 1) * Cycle

(***************************************************************************)
(* run and attempt.                                                        *)
(***************************************************************************)
RunEnds ==
  /\ phaseCh = "wait" /\ cancelCh
  /\ phaseCh' = "ended" /\ due' = Never
  /\ UNCHANGED <<nowCh, anchor, sock, cancelCh, closedCh, closerCh, sessionUp, agg, refused,
                 keepVars>>

\* The timer fires; select may take it although the context is cancelled.
AttemptBegins ==
  /\ phaseCh = "wait" /\ due # Never /\ nowCh >= due
  /\ anchor' = IF anchor = NoAnchor THEN nowCh ELSE anchor
  /\ Count("attempts") /\ phaseCh' = "dial" /\ due' = Never
  /\ UNCHANGED <<nowCh, sock, cancelCh, closedCh, closerCh, sessionUp, refused, keepVars>>

\* The attempt is over: the loop ends or arms the timer.
Over ==
  IF cancelCh THEN phaseCh' = "ended" /\ UNCHANGED due
  ELSE phaseCh' = "wait" /\ due' = NextTick(nowCh)

DialConnects ==
  /\ phaseCh = "dial"
  /\ phaseCh' = "preamble" /\ sock' = "open"
  /\ UNCHANGED <<nowCh, due, anchor, cancelCh, closedCh, closerCh, sessionUp, agg, refused,
                 keepVars>>

DialFails ==
  /\ phaseCh = "dial"
  /\ Count("failures") /\ Over
  /\ UNCHANGED <<nowCh, anchor, sock, cancelCh, closedCh, closerCh, sessionUp, refused,
                 keepVars>>

PreambleWritten ==
  /\ phaseCh = "preamble" /\ sock = "open"
  /\ phaseCh' = "track"
  /\ UNCHANGED <<nowCh, due, anchor, sock, cancelCh, closedCh, closerCh, sessionUp, agg,
                 refused, keepVars>>

\* The write fails, stalls to its deadline, or the cancelled context closes it.
PreambleFails ==
  /\ phaseCh = "preamble"
  /\ Count("failures") /\ sock' = "none" /\ Over
  /\ UNCHANGED <<nowCh, anchor, cancelCh, closedCh, closerCh, sessionUp, refused, keepVars>>

Tracks ==
  /\ phaseCh = "track"
  /\ IF closedCh
     THEN refused' = refused + 1 /\ sock' = "none" /\ Over
     ELSE phaseCh' = "handshake" /\ UNCHANGED <<refused, sock, due>>
  /\ UNCHANGED <<nowCh, anchor, cancelCh, closedCh, closerCh, sessionUp, agg, keepVars>>

HandshakeDone ==
  /\ phaseCh = "handshake" /\ sock = "open"
  /\ sessionUp' = TRUE /\ phaseCh' = "session"
  /\ diedAt' = Never /\ replied' = FALSE /\ misses' = 0 /\ beatAt' = nowCh + KeepAlive
  /\ UNCHANGED <<nowCh, due, anchor, sock, cancelCh, closedCh, closerCh, agg, refused>>

\* A failed handshake, its timeout, or a closed socket.
HandshakeLost ==
  /\ phaseCh = "handshake"
  /\ phaseCh' = "count" /\ sock' = "none"
  /\ UNCHANGED <<nowCh, due, anchor, cancelCh, closedCh, closerCh, sessionUp, agg, refused,
                 keepVars>>

SessionOver ==
  /\ phaseCh = "session"
  /\ phaseCh' = "count" /\ sock' = "none"
  /\ diedAt' = Never /\ replied' = FALSE /\ misses' = 0 /\ beatAt' = Never
  /\ UNCHANGED <<nowCh, due, anchor, cancelCh, closedCh, closerCh, sessionUp, agg, refused>>

\* sessionUp.Swap(false) decides which counter takes the attempt.
Counts ==
  /\ phaseCh = "count"
  /\ Count(IF sessionUp THEN "ended" ELSE "handshakes") /\ sessionUp' = FALSE /\ Over
  /\ UNCHANGED <<nowCh, anchor, sock, cancelCh, closedCh, closerCh, refused, keepVars>>

(***************************************************************************)
(* sshKeepAlive.                                                           *)
(***************************************************************************)

\* A tick sends a request, or counts a miss; the last miss closes the socket.
Beat ==
  /\ phaseCh = "session" /\ sock = "open" /\ nowCh = beatAt
  /\ beatAt' = beatAt + KeepAlive
  /\ IF ~replied THEN replied' = TRUE /\ UNCHANGED <<misses, sock>>
     ELSE /\ misses' = misses + 1 /\ UNCHANGED replied
          /\ sock' = IF misses + 1 >= Misses THEN "closed" ELSE sock
  /\ UNCHANGED <<nowCh, due, anchor, phaseCh, cancelCh, closedCh, closerCh, sessionUp, agg,
                 refused, diedAt>>

Answered ==
  /\ phaseCh = "session" /\ replied /\ diedAt = Never /\ sock = "open"
  /\ replied' = FALSE /\ misses' = 0
  /\ UNCHANGED <<nowCh, due, anchor, phaseCh, sock, cancelCh, closedCh, closerCh, sessionUp, agg,
                 refused, diedAt, beatAt>>

ClientDies ==
  /\ phaseCh = "session" /\ diedAt = Never
  /\ diedAt' = nowCh
  /\ UNCHANGED <<nowCh, due, anchor, phaseCh, sock, cancelCh, closedCh, closerCh, sessionUp, agg,
                 refused, replied, misses, beatAt>>

(***************************************************************************)
(* close: cancel, the server's Close, the wait.                            *)
(***************************************************************************)
CloserMoves(from, to) ==
  /\ closerCh = from /\ closerCh' = to
  /\ UNCHANGED <<nowCh, due, anchor, phaseCh, sessionUp, agg, refused, keepVars>>

CloseCancelsCh == CloserMoves("no", "cancelled") /\ cancelCh' = TRUE /\ UNCHANGED <<sock, closedCh>>

\* The server closes the connection it tracks.
CloseServerCh ==
  /\ CloserMoves("cancelled", "waiting") /\ closedCh' = TRUE
  /\ sock' = IF phaseCh \in {"handshake", "session"} /\ sock = "open" THEN "closed" ELSE sock
  /\ UNCHANGED cancelCh

CloseReturnsCh ==
  /\ phaseCh = "ended" /\ CloserMoves("waiting", "returned")
  /\ UNCHANGED <<sock, cancelCh, closedCh>>

\* The clock stops at a keepalive tick until it is taken.
Ticks ==
  /\ nowCh < MaxNow /\ nowCh # beatAt
  /\ nowCh' = nowCh + 1
  /\ UNCHANGED <<due, anchor, phaseCh, sock, cancelCh, closedCh, closerCh, sessionUp, agg,
                 refused, keepVars>>

\* What the loop does whether the client is there or not.
LoopProceeds ==
  \/ RunEnds \/ (phaseCh = "dial" /\ DialFails) \/ PreambleFails \/ Tracks \/ HandshakeLost
  \/ sock = "closed" /\ SessionOver
  \/ Counts

ChNext ==
  \/ LoopProceeds \/ AttemptBegins \/ DialConnects \/ PreambleWritten \/ HandshakeDone
  \/ SessionOver \/ Beat \/ Answered \/ ClientDies
  \/ CloseCancelsCh \/ CloseServerCh \/ CloseReturnsCh \/ Ticks

ChSpec == ChInit /\ [][ChNext]_chVars
-------------------------------------------------------------------------------
InFlight == IF phaseCh \in Busy THEN 1 ELSE 0

\* attempt: every attempt ends in exactly one counter, except the one a closed
\* server refused.
AttemptsAccounted ==
  agg.attempts = agg.failures + agg.handshakes + agg.ended + refused + InFlight

\* attempt and onHandshake: the session shown as up is the one being served.
SessionUpIsServed == sessionUp => phaseCh \in {"session", "count"}

\* run: the timer is armed on the grid of the first attempt, however long an
\* attempt took.
DueOnGrid ==
  anchor # NoAnchor /\ due # Never => (due - anchor) % Cycle = 0

\* run: attempts never outnumber the ticks of the grid that have passed.
AttemptsOnTicks ==
  anchor # NoAnchor => agg.attempts <= (nowCh - anchor) \div Cycle + 1

\* sshKeepAlive: a client that stops answering keeps its connection for one
\* tick that sends and Misses ticks that find the request unanswered, no longer.
DeadClientIsClosed ==
  phaseCh = "session" /\ sock = "open" /\ diedAt # Never => nowCh - diedAt <= (Misses + 1) * KeepAlive

\* close returns, whatever the attempt in flight is doing.
CallHomeCloses == closerCh = "cancelled" ~> closerCh = "returned"

\* One session per connection, nothing left by Close, every call-home attempt counted
\* once and on the grid, and dead clients dropped (netconf_server.go,
\* netconf_callhome.go).
NetconfServersKept ==
  /\ SrvTypeOK /\ ChTypeOK /\ OneSessionPerConn /\ CloseLeavesNothing
  /\ AttemptsAccounted /\ SessionUpIsServed /\ DueOnGrid
  /\ AttemptsOnTicks /\ DeadClientIsClosed
===============================================================================
