----------------------------- MODULE SyslogStream -----------------------------
(***************************************************************************)
(* Syslog over TCP and TLS: one connection per device, kept up by a        *)
(* reconnect loop (tcpTransport.run), written by whoever fires a message   *)
(* (the scheduler, an HTTP request, a state notification), watched by a    *)
(* goroutine that closes it at shutdown, and closed by tcpTransport.Close, *)
(* which joins the loop.  Dials of all devices share one semaphore.        *)
(*                                                                         *)
(* A connection is an identifier; one nobody refers to any more may be     *)
(* dialled again, as the allocator may reuse the address.                  *)
(***************************************************************************)
EXTENDS Integers, FiniteSets

CONSTANTS
  Transports,       \* the devices with a stream transport
  Senders,          \* the goroutines that may be inside Send
  SenderOf,         \* the transport each of them writes to
  Conns,            \* identifiers of connections
  MaxDials,         \* syslogTCPMaxConcurrentDials
  InitialBackoff,   \* syslogTCPInitialBackoff
  MaxBackoff,       \* syslogTCPMaxBackoff
  NoConn

ASSUME StreamConstants ==
  /\ SenderOf \in [Senders -> Transports]
  /\ NoConn \notin Conns /\ NoConn \notin Senders
  /\ MaxDials \in Nat \ {0}
  /\ InitialBackoff \in Nat \ {0}
  /\ MaxBackoff \in Nat /\ MaxBackoff >= InitialBackoff

VARIABLES
  loop,       \* where the reconnect loop of each transport stands
  mine,       \* the connection the loop refers to, its local c
  backoff,    \* its local backoff
  conn,       \* tcpTransport.conn
  watch,      \* the connection the shutdown watcher was started for
  cancelled,  \* tcpTransport.closing and the context, set together by Close
  closer,     \* where Close stands
  send,       \* each sender: where it stands and the connection it loaded
  writeMu,    \* the sender that holds writeMu
  open,       \* the connections not closed on this side
  gone,       \* the connections the collector, or the path to it, has dropped
  torn,       \* the connections on which half a frame was written
  dialling    \* the transports holding a slot of syslogTCPDialSem

streamVars == <<loop, mine, backoff, conn, watch, cancelled, closer, send,
                writeMu, open, gone, torn, dialling>>

Idle == [at |-> "idle", conn |-> NoConn]

StreamTypeOK ==
  /\ loop \in [Transports -> {"check", "acquire", "dial", "publish",
                              "reading", "lost", "sleep", "done"}]
  /\ mine \in [Transports -> Conns \cup {NoConn}]
  /\ backoff \in [Transports -> InitialBackoff .. MaxBackoff]
  /\ conn \in [Transports -> Conns \cup {NoConn}]
  /\ watch \in [Transports -> Conns \cup {NoConn}]
  /\ cancelled \in [Transports -> BOOLEAN]
  /\ closer \in [Transports -> {"no", "swap", "join", "closed"}]
  /\ send \in [Senders -> [at : {"idle", "lock", "write", "drop", "close"},
                           conn : Conns \cup {NoConn}]]
  /\ writeMu \in [Transports -> Senders \cup {NoConn}]
  /\ open \subseteq Conns /\ gone \subseteq Conns /\ torn \subseteq Conns
  /\ dialling \subseteq Transports

StreamInit ==
  /\ loop = [t \in Transports |-> "check"]
  /\ mine = [t \in Transports |-> NoConn]
  /\ backoff = [t \in Transports |-> InitialBackoff]
  /\ conn = [t \in Transports |-> NoConn]
  /\ watch = [t \in Transports |-> NoConn]
  /\ cancelled = [t \in Transports |-> FALSE]
  /\ closer = [t \in Transports |-> "no"]
  /\ send = [s \in Senders |-> Idle]
  /\ writeMu = [t \in Transports |-> NoConn]
  /\ open = {} /\ gone = {} /\ torn = {}
  /\ dialling = {}

(***************************************************************************)
(* The connections somebody still refers to.                               *)
(***************************************************************************)
Referred ==
  {mine[t] : t \in Transports} \cup {conn[t] : t \in Transports}
    \cup {watch[t] : t \in Transports} \cup {send[s].conn : s \in Senders}

\* The next identifier to use: one that nobody refers to.
Unused ==
  LET free == Conns \ Referred IN {c \in free : \A d \in free : c <= d}

\* Closing a connection here.  What the collector did to it, and what was
\* written on it, no longer matters.
Shut(c) ==
  /\ open' = open \ {c}
  /\ gone' = gone \ {c}
  /\ torn' = torn \ {c}

(***************************************************************************)
(* The reconnect loop.                                                     *)
(***************************************************************************)
Goto(t, l) == loop' = [loop EXCEPT ![t] = l]

Check(t) ==
  /\ loop[t] = "check"
  /\ Goto(t, IF cancelled[t] THEN "done" ELSE "acquire")
  /\ UNCHANGED <<mine, backoff, conn, watch, cancelled, closer, send, writeMu,
                 open, gone, torn, dialling>>

\* dialOnce takes a slot, or gives up when the transport is being closed;
\* the error it then returns leads to the sleep.
Acquire(t) ==
  /\ loop[t] = "acquire"
  /\ \/ /\ Cardinality(dialling) < MaxDials
        /\ dialling' = dialling \cup {t}
        /\ Goto(t, "dial")
     \/ /\ cancelled[t]
        /\ Goto(t, "sleep")
        /\ UNCHANGED dialling
  /\ UNCHANGED <<mine, backoff, conn, watch, cancelled, closer, send, writeMu,
                 open, gone, torn>>

\* The dial, and for TLS the handshake on top of it, succeeds or fails; it
\* is bounded by the dial timeout, and cancelling the transport cuts it
\* short.  A failed handshake closes the socket.  The slot is given back.
DialReleasing(t, slots) ==
  /\ loop[t] = "dial"
  /\ \/ \E c \in Unused :
          /\ mine' = [mine EXCEPT ![t] = c]
          /\ open' = open \cup {c}
          /\ Goto(t, "publish")
     \/ Goto(t, "sleep") /\ UNCHANGED <<mine, open>>
  /\ dialling' = slots
  /\ UNCHANGED <<backoff, conn, watch, cancelled, closer, send, writeMu, gone,
                 torn>>

Dial(t) == DialReleasing(t, dialling \ {t})

PublishWatched(t, w) ==
  /\ loop[t] = "publish"
  /\ conn' = [conn EXCEPT ![t] = mine[t]]
  /\ watch' = [watch EXCEPT ![t] = w]
  /\ Goto(t, "reading")
  /\ UNCHANGED <<mine, backoff, cancelled, closer, send, writeMu, open, gone,
                 torn, dialling>>

Publish(t) == PublishWatched(t, mine[t])

\* The goroutine started beside the connection closes it at shutdown.
Watcher(t) ==
  /\ watch[t] # NoConn
  /\ cancelled[t]
  /\ Shut(watch[t])
  /\ watch' = [watch EXCEPT ![t] = NoConn]
  /\ UNCHANGED <<loop, mine, backoff, conn, cancelled, closer, send, writeMu,
                 dialling>>

\* Read returns an error: the connection was closed here or dropped there.
\* Bytes the collector sends are discarded and change nothing.
ReadFails(t) ==
  /\ loop[t] = "reading"
  /\ mine[t] \notin open \/ mine[t] \in gone
  /\ watch' = [watch EXCEPT ![t] = NoConn]
  /\ Goto(t, "lost")
  /\ UNCHANGED <<mine, backoff, conn, cancelled, closer, send, writeMu, open,
                 gone, torn, dialling>>

LostLeaving(t, published, closed) ==
  /\ loop[t] = "lost"
  /\ conn' = [conn EXCEPT ![t] = published]
  /\ Shut(closed)
  /\ mine' = [mine EXCEPT ![t] = NoConn]
  /\ \/ cancelled[t] /\ Goto(t, "done") /\ UNCHANGED backoff
     \/ /\ ~cancelled[t]
        /\ Goto(t, "sleep")
        /\ \/ backoff' = [backoff EXCEPT ![t] = InitialBackoff]
           \/ UNCHANGED backoff
  /\ UNCHANGED <<watch, cancelled, closer, send, writeMu, dialling>>

\* The lost connection leaves conn if it is still there, and is closed; the
\* backoff starts over only if the connection had been up long enough.
Lost(t) ==
  LostLeaving(t, IF conn[t] = mine[t] THEN NoConn ELSE conn[t], mine[t])

\* sleep: the backoff elapses and doubles up to the cap, or Close cuts it
\* short.
Sleep(t) ==
  /\ loop[t] = "sleep"
  /\ \/ /\ backoff' = [backoff EXCEPT ![t] = IF 2 * @ > MaxBackoff THEN MaxBackoff ELSE 2 * @]
        /\ Goto(t, "check")
     \/ /\ cancelled[t]
        /\ Goto(t, "done")
        /\ UNCHANGED backoff
  /\ UNCHANGED <<mine, conn, watch, cancelled, closer, send, writeMu, open,
                 gone, torn, dialling>>

(***************************************************************************)
(* Send.                                                                   *)
(***************************************************************************)
SenderAt(s, at, c) == send' = [send EXCEPT ![s] = [at |-> at, conn |-> c]]

\* Without a connection Send fails at once and never dials.
SendLoad(s) ==
  /\ send[s] = Idle
  /\ conn[SenderOf[s]] # NoConn
  /\ SenderAt(s, "lock", conn[SenderOf[s]])
  /\ UNCHANGED <<loop, mine, backoff, conn, watch, cancelled, closer, writeMu,
                 open, gone, torn, dialling>>

SendLock(s) ==
  /\ send[s].at = "lock"
  /\ writeMu[SenderOf[s]] = NoConn
  /\ writeMu' = [writeMu EXCEPT ![SenderOf[s]] = s]
  /\ SenderAt(s, "write", send[s].conn)
  /\ UNCHANGED <<loop, mine, backoff, conn, watch, cancelled, closer, open,
                 gone, torn, dialling>>

\* Write accepts the whole frame, or fails: on a connection closed here
\* nothing was written, on another the deadline may leave half a frame.
SendWrite(s) ==
  /\ send[s].at = "write"
  /\ writeMu' = [writeMu EXCEPT ![SenderOf[s]] = NoConn]
  /\ \/ /\ send[s].conn \in open
        /\ SenderAt(s, "idle", NoConn)
        /\ UNCHANGED torn
     \/ /\ SenderAt(s, "drop", send[s].conn)
        /\ \/ UNCHANGED torn
           \/ send[s].conn \in open /\ torn' = torn \cup {send[s].conn}
  /\ UNCHANGED <<loop, mine, backoff, conn, watch, cancelled, closer, open,
                 gone, dialling>>

DropTaking(s, took) ==
  /\ send[s].at = "drop"
  /\ IF took
     THEN /\ conn' = [conn EXCEPT ![SenderOf[s]] = NoConn]
          /\ SenderAt(s, "close", send[s].conn)
     ELSE SenderAt(s, "idle", NoConn) /\ UNCHANGED conn
  /\ UNCHANGED <<loop, mine, backoff, watch, cancelled, closer, writeMu, open,
                 gone, torn, dialling>>

\* Slip: the failed sender clears conn whatever it holds by now.
SendDropAny(s) == DropTaking(s, TRUE)

\* The failed sender takes its own connection out of conn, if it is still
\* there.
SendDrop(s) == DropTaking(s, conn[SenderOf[s]] = send[s].conn)

SendClose(s) ==
  /\ send[s].at = "close"
  /\ Shut(send[s].conn)
  /\ SenderAt(s, "idle", NoConn)
  /\ UNCHANGED <<loop, mine, backoff, conn, watch, cancelled, closer, writeMu,
                 dialling>>

(***************************************************************************)
(* Close, and the collector.                                               *)
(***************************************************************************)
CloseBegin(t) ==
  /\ closer[t] = "no"
  /\ closer' = [closer EXCEPT ![t] = "swap"]
  /\ cancelled' = [cancelled EXCEPT ![t] = TRUE]
  /\ UNCHANGED <<loop, mine, backoff, conn, watch, send, writeMu, open, gone,
                 torn, dialling>>

CloseSwap(t) ==
  /\ closer[t] = "swap"
  /\ closer' = [closer EXCEPT ![t] = "join"]
  /\ conn' = [conn EXCEPT ![t] = NoConn]
  /\ Shut(conn[t])
  /\ UNCHANGED <<loop, mine, backoff, watch, cancelled, send, writeMu,
                 dialling>>

CloseDone(t) ==
  /\ closer' = [closer EXCEPT ![t] = "closed"]
  /\ UNCHANGED <<loop, mine, backoff, conn, watch, cancelled, send, writeMu,
                 open, gone, torn, dialling>>

CloseJoin(t) ==
  /\ closer[t] = "join"
  /\ loop[t] = "done"
  /\ CloseDone(t)

\* The collector closes or resets a connection, or keepalives find it dead.
Drops(c) ==
  /\ c \in open \ gone
  /\ gone' = gone \cup {c}
  /\ UNCHANGED <<loop, mine, backoff, conn, watch, cancelled, closer, send,
                 writeMu, open, torn, dialling>>

LoopStep(t) == \/ Check(t) \/ Acquire(t) \/ Dial(t) \/ Publish(t)
               \/ ReadFails(t) \/ Lost(t) \/ Sleep(t)

SenderStep(s) == \/ SendLoad(s) \/ SendLock(s) \/ SendWrite(s)
                 \/ SendDrop(s) \/ SendClose(s)

CloseStep(t) == CloseBegin(t) \/ CloseSwap(t) \/ CloseJoin(t)

StreamNext ==
  \/ \E t \in Transports : LoopStep(t) \/ Watcher(t) \/ CloseStep(t)
  \/ \E s \in Senders : SenderStep(s)
  \/ \E c \in Conns : Drops(c)

(***************************************************************************)
(* Fairness.  The goroutines run; a goroutine waiting for a dial slot is   *)
(* served in turn (a channel wakes its waiters in order), and a collector  *)
(* that is dialled again and again answers some time.                      *)
(***************************************************************************)
DialSucceeds(t) == Dial(t) /\ loop'[t] = "publish"

StreamSpec == StreamInit /\ [][StreamNext]_streamVars

(***************************************************************************)
(* Properties.                                                             *)
(***************************************************************************)
\* A device never has two connections open: whatever the loop, the senders
\* and Close do to conn, the only open connection is the one the loop holds
\* (tcpTransport.run, Send, Close).
OneConnection ==
  \A c \in open : \E t \in Transports : mine[t] = c

\* A connection the loop sits on is the one senders get, unless a sender is
\* about to close it or the transport is shutting down: otherwise the loop
\* would read from a healthy connection nobody can write to, for good.
LiveIsPublished ==
  \A t \in Transports :
    loop[t] = "reading" /\ mine[t] \in open /\ ~cancelled[t] =>
      \/ conn[t] = mine[t]
      \/ \E s \in Senders : send[s] = [at |-> "close", conn |-> mine[t]]

\* A connection with half a frame on it is out of conn, or the sender that
\* tore it has not yet returned: every later Send gets a fresh stream.
TornIsDropped ==
  \A t \in Transports :
    conn[t] \in torn => \E s \in Senders : send[s] = [at |-> "drop", conn |-> conn[t]]

\* When Close has returned nothing of the transport is left: the loop has
\* ended, holds no dial slot, and no connection of it is open.
ClosedIsQuiet ==
  \A t \in Transports :
    closer[t] = "closed" =>
      loop[t] = "done" /\ mine[t] = NoConn /\ conn[t] = NoConn /\ t \notin dialling

\* Two senders are never inside Write of one transport: frames do not
\* interleave.
FramesDoNotInterleave ==
  \A s, r \in Senders :
    send[s].at = "write" /\ send[r].at = "write" /\ SenderOf[s] = SenderOf[r] => s = r

\* What the comment on the failed write promises: a connection on which half
\* a frame was written carries no frame after it.
NothingAfterHalfFrame ==
  [][\A s \in Senders :
       send[s].at = "write" /\ send'[s].at = "idle" => send[s].conn \notin torn]_streamVars

\* Close returns: the watcher ends a read that nothing else would end.
CloseReturns == \A t \in Transports : (closer[t] = "swap") ~> (closer[t] = "closed")

\* A device with no connection gets one, or is closed, if dials keep
\* succeeding again and again: neither the backoff nor the other devices'
\* dials keep it out for good.
Reconnects ==
  \A t \in Transports :
    (loop[t] = "sleep") ~> (loop[t] = "reading" \/ closer[t] # "no")
=============================================================================
