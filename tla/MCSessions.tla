------------------------------ MODULE MCSessions ------------------------------
(* The streams, sessions and sockets of the simulator for TLC: syslog, gNMI     *)
(* and NETCONF.  Only the chosen part moves in a behaviour.                     *)
EXTENDS SyslogStream, SyslogFleet, GnmiSubscribe, GnmiOnChange, DialOut,
        NetconfPush, NetconfServer, Framing

CONSTANTS Foci, d1, d2

VARIABLE focus

mcVars == <<focus, streamVars, logVars, wireVars, subVars, onVars, dialVars, ncVars,
            srvVars, chVars, frVars>>

MCSenderOf == [s \in Senders |-> CHOOSE t \in Transports : TRUE]

\* Two devices that share a pooled socket.
MCKeyOf == [d \in LogDevices |-> "k"]

\* Messages whose fields hold what a parser would trip over.
Plain == [host |-> <<"a">>, app |-> <<"a">>, id |-> <<"a">>, sd |-> <<>>, msg |-> <<"a">>]
Values == {<<"a">>, <<"Q">>, <<"BS">>, <<"BS", "Q">>, <<"RB", "SP">>, <<"LF">>}
MCMessages ==
  {[Plain EXCEPT !.host = h, !.msg = b] :
     h \in {<<>>, <<"SP", "a">>, <<"RB">>, <<"a", "LF">>},
     b \in {<<>>, <<"a">>, <<"LF", "a">>, <<"SP", "RB">>}}
  \cup {[Plain EXCEPT !.app = a, !.id = i, !.msg = b] :
          a \in {<<"COLON">>, <<"a", "COLON">>, <<"COLON", "SP", "a">>},
          i \in {<<>>, <<"COLON", "SP">>, <<"RB", "LF">>}, b \in {<<>>, <<"COLON", "a">>}}
  \cup {[Plain EXCEPT !.host = <<"COLON">>, !.sd = << <<"COLON">> >>]}
  \cup {[Plain EXCEPT !.app = a, !.sd = <<v>>] : a \in {<<>>, <<"Q", "a", "a">>}, v \in Values}
  \cup {[Plain EXCEPT !.sd = <<v, w>>] : v, w \in Values}

\* One subscription whose snapshot is one response, and one with two.
MCEntries == [s \in Subs |-> IF s = "a" THEN 1 ELSE 2]
Ask(kind, list, modes) ==
  [kind |-> kind, catalogAccepts |-> TRUE, enc |-> "json", list |-> list, modes |-> modes]
MCRequests ==
  {Ask("subscribe", "stream", {"sample"}), Ask("subscribe", "stream", {"onchange"}),
   Ask("subscribe", "once", {"poll"}), Ask("subscribe", "stream", {"onchange", "target"}),
   Ask("subscribe", "stream", {"unknown"}), Ask("subscribe", "poll", {"sample"}),
   Ask("subscribe", "none", {"sample"}), Ask("poll", "stream", {"sample"}), Ask("none", "stream", {"sample"}),
   [Ask("subscribe", "once", {}) EXCEPT !.enc = "ascii"],
   [Ask("subscribe", "once", {}) EXCEPT !.catalogAccepts = FALSE]}

MCOnSubs == <<"s1", "s2">>
MCCovers == [s1 |-> {<<1, "oper-status">>, <<2, "oper-status">>},
             s2 |-> {<<1, "last-change">>, <<1, "admin-status">>}]

\* NETCONF is looked at four ways: one session that takes pushes, one through
\* stopNetconfServer and a client that stalls or goes ("halt" is its smaller
\* instance, in one dialect), and two that come and go.  A third change comes, last,
\* after two whose events were broadcast in the other order, and the two sessions see one
\* change, while both are there and their clients read.
NcFoci == {"push", "stop", "halt", "life"}
OneSession == sess'["s2"].pc = "absent"
AtRest(s) == toCast = {} /\ evq = << >> /\ InSelect /\ writer[s].pc = "none" /\ looking[s] = 0 /\ evsubs[s] # << >>
ThirdChange == portMoves' = 3 /\ sess' = sess /\ (portMoves = 2 => order.behind /\ AtRest("s1"))
NcBound ==
  CASE focus = "push" -> /\ portMoves' + nextSub' <= 4 \/ (nextSub' = 2 /\ ThirdChange)
                         /\ OneSession /\ stop' = stop /\ peer' = peer
    [] focus = "stop" -> portMoves' + nextSub' <= 3 /\ OneSession
    [] focus = "halt" -> /\ portMoves' + nextSub' <= 3 /\ OneSession
                         /\ portMoves' = portMoves \/ evsubs["s1"] # << >>
    [] focus = "life" -> /\ portMoves' <= 1 /\ nextSub' <= 2
                         /\ portMoves' = portMoves \/ Len(members) = 2
                         /\ portMoves' = 1 => stop' = "no" /\ \A s \in NcSessions : peer'[s] = "reads"
                         /\ Cardinality({s \in NcSessions : peer'[s] # "reads"}) <= 1

\* Where the parts that are not looked at rest.
MCInit ==
  /\ focus \in Foci
  /\ StreamInit /\ LogInit /\ SubInit /\ OnInit /\ DialInit
  /\ WireInit /\ (focus # "wire" => format = "5424" /\ framing = "octet-counting")
  /\ NcInit /\ (focus \notin NcFoci \ {"halt"} => dialect = "iosxe")
  /\ SrvInit /\ (focus # "server" => transport = "ssh")
  /\ ChInit /\ (focus # "callhome" => due = 0)
  /\ FrInit /\ (focus # "framing" => ~chunked)

MCNext ==
  /\ UNCHANGED focus
  /\ \/ /\ focus = "stream" /\ StreamNext
        /\ UNCHANGED <<logVars, wireVars, subVars, onVars, dialVars, ncVars, srvVars, chVars, frVars>>
     \/ /\ focus = "fleet" /\ LogNext
        /\ UNCHANGED <<streamVars, wireVars, subVars, onVars, dialVars, ncVars, srvVars, chVars, frVars>>
     \/ /\ focus = "wire" /\ WireNext
        /\ UNCHANGED <<streamVars, logVars, subVars, onVars, dialVars, ncVars, srvVars, chVars, frVars>>
     \/ /\ focus = "subscribe" /\ SubNext
        /\ UNCHANGED <<streamVars, logVars, wireVars, onVars, dialVars, ncVars, srvVars, chVars, frVars>>
     \/ /\ focus = "onchange" /\ OnNext
        /\ UNCHANGED <<streamVars, logVars, wireVars, subVars, dialVars, ncVars, srvVars, chVars, frVars>>
     \/ /\ focus = "dialout" /\ DialNext
        /\ UNCHANGED <<streamVars, logVars, wireVars, subVars, onVars, ncVars, srvVars, chVars, frVars>>
     \/ /\ focus \in NcFoci /\ NcNext /\ NcBound
        /\ UNCHANGED <<streamVars, logVars, wireVars, subVars, onVars, dialVars, srvVars, chVars, frVars>>
     \/ /\ focus = "server" /\ SrvNext
        /\ UNCHANGED <<streamVars, logVars, wireVars, subVars, onVars, dialVars, ncVars, chVars, frVars>>
     \/ /\ focus = "callhome" /\ ChNext
        /\ UNCHANGED <<streamVars, logVars, wireVars, subVars, onVars, dialVars, ncVars, srvVars, frVars>>
     \/ /\ focus = "framing" /\ FrNext
        /\ UNCHANGED <<streamVars, logVars, wireVars, subVars, onVars, dialVars, ncVars, srvVars, chVars>>

MCSpec == MCInit /\ [][MCNext]_mcVars

\* The goroutines of each part go on, where it is the chosen one.
MCFairness ==
  /\ \A t \in Transports : /\ WF_streamVars(focus = "stream" /\ LoopStep(t))
                           /\ WF_streamVars(focus = "stream" /\ Watcher(t))
                           /\ WF_streamVars(focus = "stream" /\ (CloseSwap(t) \/ CloseJoin(t)))
  /\ WF_subVars(focus = "subscribe" /\ Sender)
  /\ \A s \in Subs : WF_subVars(focus = "subscribe" /\ Ticker(s))
  /\ WF_subVars(focus = "subscribe" /\ (HandlerWakes \/ HandlerJoins \/ HandlerReturns))
  /\ WF_subVars(focus = "subscribe" /\ OnChangeReturns)
  /\ WF_subVars(focus = "subscribe" /\ KeepaliveFails)
  /\ WF_onVars(focus = "onchange" /\ Serve)
  /\ WF_onVars(focus = "onchange" /\ \E e \in cast : Broadcast(e))
  /\ \A s \in Beating : WF_onVars(focus = "onchange" /\ HeartbeatFires(s))
  /\ WF_dialVars(focus = "dialout" /\ Run)
  /\ WF_dialVars(focus = "dialout" /\ Pump)
  /\ WF_dialVars(focus = "dialout" /\ CloseJoins)
  /\ WF_ncVars(focus \in NcFoci /\ StopReturns)
  /\ WF_ncVars(focus \in NcFoci /\ Dispatcher)
  /\ \A s \in NcSessions : /\ WF_ncVars(focus \in NcFoci /\ Continue(s))
                           /\ WF_ncVars(focus \in NcFoci /\ Writer(s))
                           /\ WF_ncVars(focus \in NcFoci /\ CtxCloses(s))
  /\ WF_srvVars(focus = "server" /\ AcceptEnds)
  /\ WF_srvVars(focus = "server" /\ (CloseMarks \/ CloseConns \/ CloseReturnsSrv))
  /\ \A c \in SshConns : WF_srvVars(focus = "server" /\ Proceeds(c))
  /\ WF_chVars(focus = "callhome" /\ LoopProceeds)
  /\ WF_chVars(focus = "callhome" /\ Beat)
  /\ WF_chVars(focus = "callhome" /\ Ticks)
  /\ WF_chVars(focus = "callhome" /\ CloseServerCh)
  /\ WF_chVars(focus = "callhome" /\ CloseReturnsCh)

\* Strong fairness where a goroutine waits for a lock, a slot or a branch of a
\* select that others take too, or for a peer that answers some time.  One
\* condition serves all parts but the streams, as only one part moves.
waitVars ==
  CASE focus = "onchange" -> onVars
    [] focus = "dialout"  -> dialVars
    [] focus \in NcFoci   -> ncVars
    [] focus = "server"   -> srvVars
    [] OTHER              -> focus

Waits ==
  \/ focus = "onchange" /\ \E s \in Beating : Heartbeat(s)
  \/ focus = "dialout" /\ RunProduced
  \/ focus \in NcFoci /\ Leave("s1")
  \/ focus = "server" /\ \E c \in SshConns : MuxEnds(c)

MCStrongFairness ==
  /\ SF_waitVars(Waits /\ UNCHANGED focus)
  /\ \A t \in Transports : /\ SF_streamVars(focus = "stream" /\ Acquire(t))
                           /\ SF_streamVars(focus = "stream" /\ DialSucceeds(t))

MCFairSpec == MCSpec /\ MCFairness /\ MCStrongFairness

\* A gNMI stream at rest shows the client what the device has, nothing queued goes
\* missing uncounted, and no listener or writer outlives its stream
\* (gnmi_subscribe.go, gnmi_subscribe_onchange.go, gnmi_dialout_exporter.go).
GnmiKept ==
  /\ TypeOK /\ OnTypeOK /\ DialTypeOK /\ CloseAfterProducers
  /\ ResponsesAccounted /\ SyncAfterSnapshots /\ ActiveExact
  /\ QuietStreamIsCurrent /\ NoListenerLeft /\ LiveStreamIsCurrent

\* Every close returns, every client that goes is let go, and streams that failed or
\* dropped something recover.
SessionsProgress ==
  /\ CloseReturns
  /\ Reconnects
  /\ GoneReturns
  /\ HeartbeatRepairs
  /\ FailedSendReconnects
  /\ DialOutCloses
  /\ NcStopReturns
  /\ ServerCloseReturns
  /\ CallHomeCloses
===============================================================================
