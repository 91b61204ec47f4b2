------------------------ MODULE NetconfServerProofs ------------------------
(***************************************************************************)
(* What the NETCONF listener and call home keep, for any number of         *)
(* connections and channels, and any cycle, keepalive period and clock.    *)
(*                                                                         *)
(* The listener's WaitGroup is counted against the set of goroutines that  *)
(* are running, each under a name of its own: a step that starts or ends   *)
(* one changes both by one. Close returns when the counter is zero, so     *)
(* the set is empty. Call home's invariant places the timer at a point of  *)
(* the grid that no attempt has used, and dates a silent client by the     *)
(* keepalive ticks that found it so.                                       *)
(***************************************************************************)
EXTENDS NetconfServer, FiniteSetTheorems, TLAPS

Serving == {"handshake", "dispatch", "tls", "leaving"}

\* What a connection's goroutines, channels and socket say of each other.
LinkHeld(c) ==
  /\ link[c].serve \in {"none", "handshake"} =>
       /\ link[c].sess = "none" /\ ~link[c].pend /\ ~link[c].mux /\ link[c].refusers = 0
  /\ link[c].sess = "none" <=> link[c].begun = 0
  /\ link[c].begun <= 1
  /\ link[c].pend => link[c].begun = 0 /\ link[c].serve = "dispatch"
  /\ link[c].refusers = link[c].dropped
  /\ link[c].dropped + (IF link[c].pend THEN 1 ELSE 0) <= link[c].chans
  /\ link[c].serve = "tls" => link[c].sess \in {"run", "end"}
  /\ link[c].tcp = "open" => c \in inAccept \/ link[c].serve \in Serving
  /\ c \in tracked <=> link[c].serve \in Serving
  /\ c \in inAccept => link[c].serve = "none"
LinksHeld == \A c \in SshConns : LinkHeld(c)

\* The accept loop holds one connection at a time, and none once it stopped.
AcceptHeld ==
  /\ \A c, d \in inAccept : c = d
  /\ accept = "stopped" => inAccept = {}

\* The goroutines of the server, each with a name of its own.
AcceptLoop == <<"accept">>
ServeConn(c) == <<"serve", c>>
Session(c) == <<"session", c>>
Refuser(c, i) == <<"refuser", c, i>>

InSession(c) == link[c].sess \in {"run", "end"} /\ link[c].serve # "tls"
Loops == {g \in {AcceptLoop} : accept = "running"}
ServeConns == {ServeConn(c) : c \in {x \in SshConns : link[x].serve \in Serving}}
SessionsRun == {Session(c) : c \in {x \in SshConns : InSession(x)}}
Refusers == UNION {{Refuser(c, i) : i \in 1 .. link[c].refusers} : c \in SshConns}
Goroutines == Loops \cup ServeConns \cup SessionsRun \cup Refusers

\* s.wg counts them.
Counted ==
  /\ IsFiniteSet(Goroutines) /\ wgc = Cardinality(Goroutines)
  /\ closerSrv = "returned" => wgc = 0

SrvInv == SrvTypeOK /\ LinksHeld /\ AcceptHeld /\ Counted

\* Where the loop of call home stands, and what it has counted.
LoopHeld ==
  /\ AttemptsAccounted
  /\ sessionUp => phaseCh \in {"session", "count"}
  /\ phaseCh # "wait" => due = Never
  /\ anchor = NoAnchor => agg.attempts = 0 /\ phaseCh \in {"wait", "ended"}

\* The timer stands at a point of the grid no attempt has been counted for.
GridHeld ==
  /\ anchor # NoAnchor =>
       anchor <= nowCh /\ AttemptsOnTicks
  /\ anchor # NoAnchor /\ due # Never =>
       \E k \in Nat : due = anchor + k * Cycle /\ agg.attempts <= k

\* How long a silent client has been silent, by the ticks that found it so.
BeatHeld ==
  phaseCh = "session" =>
    /\ beatAt # Never /\ nowCh <= beatAt /\ beatAt <= nowCh + KeepAlive
    /\ diedAt <= nowCh
    /\ ~replied => misses = 0
    /\ sock = "open" => misses < Misses
    /\ sock = "open" /\ diedAt # Never =>
         beatAt <= diedAt + (misses + (IF replied THEN 2 ELSE 1)) * KeepAlive

ChInv == ChTypeOK /\ LoopHeld /\ GridHeld /\ BeatHeld
--------------------------------------------------------------------------------
(* Counting goroutines. *)

\* The names given to goroutines are one-to-one, and the kinds apart.
LEMMA NamesDiffer ==
  \A c, d :
    /\ ServeConn(c) = ServeConn(d) => c = d
    /\ Session(c) = Session(d) => c = d
    /\ ServeConn(c) # AcceptLoop /\ Session(c) # AcceptLoop /\ ServeConn(c) # Session(d)
BY Zenon DEF ServeConn, Session, AcceptLoop

\* The same for the names of the refusing goroutines.
LEMMA RefusersDiffer ==
  \A c, d, i, j : Refuser(c, i) = Refuser(d, j) => c = d /\ i = j
BY Zenon DEF Refuser

\* A refusing goroutine has a name of its own kind.
LEMMA RefusersApart ==
  \A c, d, i : Refuser(c, i) # AcceptLoop /\ Refuser(c, i) # ServeConn(d) /\ Refuser(c,
  i) # Session(d)
BY Zenon DEF ServeConn, Session, Refuser, AcceptLoop

\* A goroutine more, counted.
LEMMA OneMore ==
  ASSUME NEW S, NEW T, NEW x, IsFiniteSet(S), x \notin S, T = S \cup {x}
  PROVE  IsFiniteSet(T) /\ Cardinality(T) = Cardinality(S) + 1
BY FS_AddElement, Zenon

\* A goroutine less, counted.
LEMMA OneLess ==
  ASSUME NEW S, NEW T, NEW x, IsFiniteSet(S), x \in S, T = S \ {x}
  PROVE  IsFiniteSet(T) /\ Cardinality(T) = Cardinality(S) - 1
BY FS_RemoveElement, Zenon

\* What a goroutine set depends on.
SameServe(d) == (link'[d].serve \in Serving) <=> (link[d].serve \in Serving)
SameSession(d) == InSession(d)' <=> InSession(d)
SameRefusers(d) == link'[d].refusers = link[d].refusers

\* A step that leaves who serves alone leaves the set of serveConn goroutines.
LEMMA ServeConnsSame ==
  ASSUME \A d \in SshConns : SameServe(d)
  PROVE  ServeConns' = ServeConns
BY Zenon DEF ServeConns, SameServe

\* The same for the session goroutines.
LEMMA SessionsSame ==
  ASSUME \A d \in SshConns : SameSession(d)
  PROVE  SessionsRun' = SessionsRun
BY Zenon DEF SessionsRun, SameSession

\* The same for the refusing goroutines.
LEMMA RefusersSame ==
  ASSUME \A d \in SshConns : SameRefusers(d)
  PROVE  Refusers' = Refusers
BY Zenon DEF Refusers, SameRefusers

\* Membership in Refusers, before and after a step.
LEMMA RefusersAre ==
  /\ \A g : g \in Refusers <=> \E d \in SshConns : \E i \in 1 .. link[d].refusers : g = Refuser(d, i)
  /\ \A g : g \in Refusers' <=> \E d \in SshConns : \E i \in 1 .. link'[d].refusers : g = Refuser(d,
     i)
BY DEF Refusers

\* Which serveConn goroutine runs is read off its connection.
LEMMA InServeConns ==
  ASSUME NEW c \in SshConns
  PROVE  ServeConn(c) \in ServeConns <=> link[c].serve \in Serving
BY NamesDiffer, Zenon DEF ServeConns

\* The same for the session goroutine.
LEMMA InSessions ==
  ASSUME NEW c \in SshConns
  PROVE  Session(c) \in SessionsRun <=> InSession(c)
BY NamesDiffer, Zenon DEF SessionsRun

\* The same for the refusing goroutines.
LEMMA InRefusers ==
  ASSUME NEW c \in SshConns, NEW i
  PROVE  Refuser(c, i) \in Refusers <=> i \in 1 .. link[c].refusers
BY RefusersDiffer, RefusersAre

\* The four kinds of goroutine are disjoint.
LEMMA Apart ==
  ASSUME NEW c, NEW i
  PROVE  /\ AcceptLoop \notin ServeConns \cup SessionsRun \cup Refusers
         /\ ServeConn(c) \notin Loops \cup SessionsRun \cup Refusers
         /\ Session(c) \notin Loops \cup ServeConns \cup Refusers
         /\ Refuser(c, i) \notin Loops \cup ServeConns \cup SessionsRun
<1>1. /\ AcceptLoop \notin ServeConns \cup SessionsRun
      /\ ServeConn(c) \notin Loops \cup SessionsRun
      /\ Session(c) \notin Loops \cup ServeConns
      /\ Refuser(c, i) \notin Loops \cup ServeConns \cup SessionsRun
  BY NamesDiffer, RefusersApart, Zenon DEF Loops, ServeConns, SessionsRun
<1>2. AcceptLoop \notin Refusers /\ ServeConn(c) \notin Refusers /\ Session(c) \notin Refusers
  BY RefusersApart, RefusersAre
<1>3. QED
  BY <1>1, <1>2, Zenon

\* A step that starts and ends no goroutine leaves their set alone.
LEMMA CountSame ==
  ASSUME accept' = accept,
         \A d \in SshConns : SameServe(d) /\ SameSession(d) /\ SameRefusers(d)
  PROVE  Goroutines' = Goroutines
BY ServeConnsSame, SessionsSame, RefusersSame, Zenon DEF Goroutines, Loops

\* serveConn begins: one goroutine more.
LEMMA CountServeBegins ==
  ASSUME NEW c \in SshConns, IsFiniteSet(Goroutines), accept' = accept,
         link[c].serve \notin Serving, link'[c].serve \in Serving,
         \A d \in SshConns : (d # c => SameServe(d)) /\ SameSession(d) /\ SameRefusers(d)
  PROVE  IsFiniteSet(Goroutines') /\ Cardinality(Goroutines') = Cardinality(Goroutines) + 1
<1>1. ServeConns' = ServeConns \cup {ServeConn(c)}
  BY Zenon DEF ServeConns, SameServe
<1>2. Loops' = Loops /\ SessionsRun' = SessionsRun /\ Refusers' = Refusers
  BY SessionsSame, RefusersSame, Zenon DEF Loops
<1>3. ServeConn(c) \notin Goroutines
  BY InServeConns, Apart, Zenon DEF Goroutines
<1>4. Goroutines' = Goroutines \cup {ServeConn(c)}
  BY <1>1, <1>2, Zenon DEF Goroutines
<1>5. QED
  BY <1>3, <1>4, OneMore, Zenon

\* serveConn ends: one goroutine less.
LEMMA CountServeEnds ==
  ASSUME NEW c \in SshConns, IsFiniteSet(Goroutines), accept' = accept,
         link[c].serve \in Serving, link'[c].serve \notin Serving,
         \A d \in SshConns : (d # c => SameServe(d)) /\ SameSession(d) /\ SameRefusers(d)
  PROVE  IsFiniteSet(Goroutines') /\ Cardinality(Goroutines') = Cardinality(Goroutines) - 1
<1>1. ServeConns' = ServeConns \ {ServeConn(c)}
  <2>1. \A g : g \in ServeConns <=> \E d \in SshConns : link[d].serve \in Serving /\ g = ServeConn(d)
    BY Zenon DEF ServeConns
  <2>2. \A g : g \in ServeConns' <=> \E d \in SshConns : link'[d].serve \in Serving
        /\ g = ServeConn(d)
    BY Zenon DEF ServeConns
  <2>3. \A d \in SshConns : ServeConn(d) = ServeConn(c) => d = c
    BY NamesDiffer, Zenon
  <2>4. QED
    BY <2>1, <2>2, <2>3, Zenon DEF SameServe
<1>2. Loops' = Loops /\ SessionsRun' = SessionsRun /\ Refusers' = Refusers
  BY SessionsSame, RefusersSame, Zenon DEF Loops
<1>3. ServeConn(c) \in Goroutines
  BY InServeConns, Zenon DEF Goroutines
<1>4. Goroutines' = Goroutines \ {ServeConn(c)}
  BY <1>1, <1>2, Apart, ZenonT(40) DEF Goroutines
<1>5. QED
  BY <1>3, <1>4, OneLess, Zenon

\* A session begins: one goroutine more.
LEMMA CountSessionBegins ==
  ASSUME NEW c \in SshConns, IsFiniteSet(Goroutines), accept' = accept,
         ~InSession(c), InSession(c)',
         \A d \in SshConns : SameServe(d) /\ (d # c => SameSession(d)) /\ SameRefusers(d)
  PROVE  IsFiniteSet(Goroutines') /\ Cardinality(Goroutines') = Cardinality(Goroutines) + 1
<1>1. SessionsRun' = SessionsRun \cup {Session(c)}
  BY Zenon DEF SessionsRun, SameSession
<1>2. Loops' = Loops /\ ServeConns' = ServeConns /\ Refusers' = Refusers
  BY ServeConnsSame, RefusersSame, Zenon DEF Loops
<1>3. Session(c) \notin Goroutines
  BY InSessions, Apart, Zenon DEF Goroutines
<1>4. Goroutines' = Goroutines \cup {Session(c)}
  BY <1>1, <1>2, Zenon DEF Goroutines
<1>5. QED
  BY <1>3, <1>4, OneMore, Zenon

\* A session ends: one goroutine less.
LEMMA CountSessionEnds ==
  ASSUME NEW c \in SshConns, IsFiniteSet(Goroutines), accept' = accept,
         InSession(c), ~InSession(c)',
         \A d \in SshConns : SameServe(d) /\ (d # c => SameSession(d)) /\ SameRefusers(d)
  PROVE  IsFiniteSet(Goroutines') /\ Cardinality(Goroutines') = Cardinality(Goroutines) - 1
<1>1. SessionsRun' = SessionsRun \ {Session(c)}
  <2>1. \A g : g \in SessionsRun <=> \E d \in SshConns : InSession(d) /\ g = Session(d)
    BY Zenon DEF SessionsRun
  <2>2. \A g : g \in SessionsRun' <=> \E d \in SshConns : InSession(d)' /\ g = Session(d)
    BY Zenon DEF SessionsRun
  <2>3. \A d \in SshConns : Session(d) = Session(c) => d = c
    BY NamesDiffer, Zenon
  <2>4. QED
    BY <2>1, <2>2, <2>3, Zenon DEF SameSession
<1>2. Loops' = Loops /\ ServeConns' = ServeConns /\ Refusers' = Refusers
  BY ServeConnsSame, RefusersSame, Zenon DEF Loops
<1>3. Session(c) \in Goroutines
  BY InSessions, Zenon DEF Goroutines
<1>4. Goroutines' = Goroutines \ {Session(c)}
  BY <1>1, <1>2, Apart, Zenon DEF Goroutines
<1>5. QED
  BY <1>3, <1>4, OneLess, Zenon

\* The accept loop ends: one goroutine less.
LEMMA CountLoopEnds ==
  ASSUME IsFiniteSet(Goroutines), accept = "running", accept' = "stopped",
         \A d \in SshConns : SameServe(d) /\ SameSession(d) /\ SameRefusers(d)
  PROVE  IsFiniteSet(Goroutines') /\ Cardinality(Goroutines') = Cardinality(Goroutines) - 1
<1>1. Loops = {AcceptLoop} /\ Loops' = {}
  BY Zenon DEF Loops
<1>2. SessionsRun' = SessionsRun /\ ServeConns' = ServeConns /\ Refusers' = Refusers
  BY ServeConnsSame, SessionsSame, RefusersSame, Zenon
<1>3. AcceptLoop \in Goroutines
  BY <1>1, Zenon DEF Goroutines
<1>4. Goroutines' = Goroutines \ {AcceptLoop}
  BY <1>1, <1>2, Apart, Zenon DEF Goroutines
<1>5. QED
  BY <1>3, <1>4, OneLess, Zenon

\* A channel is dropped: one refusing goroutine more.
LEMMA CountRefuserBegins ==
  ASSUME NEW c \in SshConns, IsFiniteSet(Goroutines), accept' = accept,
         link[c].refusers \in Nat, link'[c].refusers = link[c].refusers + 1,
         \A d \in SshConns : SameServe(d) /\ SameSession(d) /\ (d # c => SameRefusers(d))
  PROVE  IsFiniteSet(Goroutines') /\ Cardinality(Goroutines') = Cardinality(Goroutines) + 1
<1> DEFINE n == link[c].refusers + 1
<1>1. 1 .. link'[c].refusers = (1 .. link[c].refusers) \cup {n} /\ n \notin 1 .. link[c].refusers
  OBVIOUS
<1> HIDE DEF n
<1>2. Refusers' = Refusers \cup {Refuser(c, n)}
  BY <1>1, RefusersAre DEF SameRefusers
<1>3. Loops' = Loops /\ ServeConns' = ServeConns /\ SessionsRun' = SessionsRun
  BY ServeConnsSame, SessionsSame, Zenon DEF Loops
<1>4. Refuser(c, n) \notin Goroutines
  BY <1>1, InRefusers, Apart, Zenon DEF Goroutines
<1>5. Goroutines' = Goroutines \cup {Refuser(c, n)}
  BY <1>2, <1>3, Zenon DEF Goroutines
<1>6. QED
  BY <1>4, <1>5, OneMore, Zenon

\* A refusing goroutine ends: one less.
LEMMA CountRefuserEnds ==
  ASSUME NEW c \in SshConns, IsFiniteSet(Goroutines), accept' = accept,
         link[c].refusers \in Nat \ {0}, link'[c].refusers = link[c].refusers - 1,
         \A d \in SshConns : SameServe(d) /\ SameSession(d) /\ (d # c => SameRefusers(d))
  PROVE  IsFiniteSet(Goroutines') /\ Cardinality(Goroutines') = Cardinality(Goroutines) - 1
<1> DEFINE n == link[c].refusers
<1>1. 1 .. link'[c].refusers = (1 .. link[c].refusers) \ {n} /\ n \in 1 .. link[c].refusers
  OBVIOUS
<1> HIDE DEF n
<1>2. Refusers' = Refusers \ {Refuser(c, n)}
  <2>1. \A d \in SshConns : d # c => link'[d].refusers = link[d].refusers
    BY Zenon DEF SameRefusers
  <2>2. \A d \in SshConns : \A i : Refuser(d, i) = Refuser(c, n) => d = c /\ i = n
    BY RefusersDiffer, Zenon
  <2>3. QED
    BY <1>1, <2>1, <2>2, RefusersAre
<1>3. Loops' = Loops /\ ServeConns' = ServeConns /\ SessionsRun' = SessionsRun
  BY ServeConnsSame, SessionsSame, Zenon DEF Loops
<1>4. Refuser(c, n) \in Goroutines
  BY <1>1, InRefusers, Zenon DEF Goroutines
<1>5. Goroutines' = Goroutines \ {Refuser(c, n)}
  <2>1. Refuser(c, n) \notin Loops \cup ServeConns \cup SessionsRun
    BY Apart, Zenon
  <2>2. QED
    BY <1>2, <1>3, <2>1, Zenon DEF Goroutines
<1>6. QED
  BY <1>4, <1>5, OneLess, Zenon
--------------------------------------------------------------------------------
(* Steps of a connection. *)

\* The two ways a handshake succeeds.
HandshakeSSH(c) ==
  /\ link[c].serve = "handshake"
  /\ OnLink(c, [link[c] EXCEPT !.serve = "dispatch", !.mux = TRUE])
HandshakeTLS(c) ==
  /\ link[c].serve = "handshake"
  /\ OnLink(c, [link[c] EXCEPT !.serve = "tls", !.begun = 1, !.sess = "run"])

LinkRec == [serve : {"none", "handshake", "dispatch", "tls", "leaving", "done"},
            tcp : {"open", "closed"}, mux : BOOLEAN, pend : BOOLEAN, begun : 0 .. 2,
            sess : {"none", "run", "end", "done"}, dropped : 0 .. MaxChannels,
            refusers : 0 .. MaxChannels, flood : BOOLEAN, chans : 0 .. MaxChannels]

\* dropPending counts the goroutine it starts.
LEMMA DroppedIs ==
  ASSUME NEW l \in LinkRec, l.pend
  PROVE  /\ Dropped(l) = [serve |-> l.serve, tcp |-> l.tcp, mux |-> l.mux, pend |-> FALSE,
            begun |-> l.begun, sess |-> l.sess, dropped |-> l.dropped + 1,
            refusers |-> l.refusers + 1, flood |-> l.flood, chans |-> l.chans]
         /\ Counting(l, Dropped(l)) = 1
<1>1. Dropped(l) = [serve |-> l.serve, tcp |-> l.tcp, mux |-> l.mux, pend |-> FALSE,
      begun |-> l.begun, sess |-> l.sess, dropped |-> l.dropped + 1, refusers |-> l.refusers + 1,
      flood |-> l.flood, chans |-> l.chans]
  BY Zenon DEF Dropped, DroppedWith, LinkRec
<1>2. Dropped(l).refusers = l.refusers + 1 /\ l.refusers \in Int
  BY <1>1 DEF LinkRec
<1>3. QED
  BY <1>1, <1>2 DEF Counting

\* With no channel pending nothing is dropped.
LEMMA NotDropped ==
  ASSUME NEW l \in LinkRec, ~l.pend
  PROVE  Dropped(l) = l /\ Counting(l, Dropped(l)) = 0
<1>1. Dropped(l) = l /\ l.refusers \in Int
  BY DEF Dropped, DroppedWith, LinkRec
<1>2. QED
  BY <1>1 DEF Counting

\* Once Close has returned, none of the goroutines is left.
LEMMA NoneLeft ==
  ASSUME SrvInv, closerSrv = "returned"
  PROVE  /\ accept = "stopped"
         /\ \A c \in SshConns : link[c].serve \notin Serving /\ ~InSession(c) /\ link[c].refusers = 0
<1>1. IsFiniteSet(Goroutines) /\ Cardinality(Goroutines) = 0
  BY Zenon DEF SrvInv, Counted
<1>2. Goroutines = {}
  BY <1>1, FS_EmptySet, Zenon
<1>3. AcceptLoop \notin Loops
  BY <1>2, Zenon DEF Goroutines
<1>4. accept = "stopped"
  BY <1>3, Zenon DEF Loops, SrvInv, SrvTypeOK
<1>5. ASSUME NEW c \in SshConns
      PROVE  link[c].serve \notin Serving /\ ~InSession(c) /\ link[c].refusers = 0
  <2>1. link[c].serve \notin Serving /\ ~InSession(c)
    BY <1>2, InServeConns, InSessions, Zenon DEF Goroutines
  <2>2. 1 \notin 1 .. link[c].refusers
    BY <1>2, InRefusers, Zenon DEF Goroutines
  <2>3. link[c].refusers \in 0 .. MaxChannels
    BY Zenon DEF SrvInv, SrvTypeOK
  <2>4. QED
    BY <2>1, <2>2, <2>3, SrvConstants DEF SrvConstants
<1>6. QED
  BY <1>4, <1>5, Zenon

\* Accept keeps the invariant.
LEMMA AcceptKeeps ==
  ASSUME SrvInv, NEW c \in SshConns, Accept(c)
  PROVE  SrvInv'
<1>0. SrvTypeOK /\ LinksHeld /\ AcceptHeld /\ Counted /\ LinkHeld(c)
  BY Zenon DEF SrvInv, LinksHeld
<1>1. link \in [SshConns -> LinkRec] /\ link[c] \in LinkRec
  BY <1>0, Zenon DEF SrvTypeOK, LinkRec
<1>2. /\ \A d \in SshConns : d # c => link'[d] = link[d]
      /\ inAccept' = {c}
      /\ UNCHANGED <<transport, accept, tracked, closedSrv, ctxSrv, wgc, closerSrv>>
  BY <1>1, Zenon DEF Accept, With, OnLink, OnLinkCounted
<1>3. /\ inAccept = {}
      /\ accept = "running"
      /\ link[c].serve = "none"
      /\ link'[c].serve = "none"
      /\ link'[c].tcp = "open"
      /\ link'[c].mux <=> FALSE
      /\ link'[c].pend <=> FALSE
      /\ link'[c].begun = 0
      /\ link'[c].sess = "none"
      /\ link'[c].dropped = 0
      /\ link'[c].refusers = 0
      /\ link'[c].flood <=> FALSE
      /\ link'[c].chans = 0
  BY <1>1, Zenon DEF Accept, With, OnLink, OnLinkCounted, LinkRec, NoLink
<1>4. Counted'
  <2>1. \A d \in SshConns : SameServe(d) /\ SameSession(d) /\ SameRefusers(d)
    BY <1>0, <1>2, <1>3, Zenon DEF SameServe, SameSession, SameRefusers, InSession, Serving, LinkHeld
  <2>2. Goroutines' = Goroutines
    BY <1>2, <2>1, CountSame, Zenon
  <2>3. QED
    BY <1>0, <1>2, <2>2, Zenon DEF Counted
<1>5. SrvTypeOK'
  <2>1. link'[c] \in LinkRec
    <3>1. link'[c] = [serve |-> "none", tcp |-> "open", mux |-> FALSE, pend |-> FALSE, begun |-> 0,
          sess |-> "none", dropped |-> 0, refusers |-> 0, flood |-> FALSE, chans |-> 0]
      BY <1>1, Zenon DEF Accept, With, OnLink, OnLinkCounted, NoLink, LinkRec
    <3>2. 0 \in 0 .. 2 /\ 0 \in 0 .. MaxChannels /\ 0 \in 0 .. MaxChannels /\ 0 \in 0 .. MaxChannels
      BY <1>0, <1>1, <1>3, SrvConstants, Zenon DEF LinkHeld, LinkRec, SrvConstants
    <3>3. QED
      BY <1>1, <3>1, <3>2 DEF LinkRec
  <2>2. link' = [d \in SshConns |-> link'[d]]
    BY <1>1, Zenon DEF Accept, With, OnLink, OnLinkCounted
  <2>3. link' \in [SshConns -> LinkRec]
    BY <1>1, <1>2, <2>1, <2>2, Zenon
  <2>4. wgc' \in Nat
    BY <1>4, FS_CardinalityType, Zenon DEF Counted
  <2>5. QED
    BY <1>0, <1>2, <1>3, <2>3, <2>4, Zenon DEF SrvTypeOK, LinkRec
<1>6. LinksHeld' /\ AcceptHeld'
  <2>1. LinkHeld(c)'
    BY <1>0, <1>1, <1>2, <1>3 DEF LinkHeld, LinkRec, Serving, AcceptHeld
  <2>2. ASSUME NEW d \in SshConns, d # c PROVE LinkHeld(d)'
    <3>1. LinkHeld(d)
      BY <1>0, Zenon DEF LinksHeld
    <3>2. QED
      BY <1>0, <1>2, <1>3, <2>2, <3>1, Zenon DEF LinkHeld, AcceptHeld
  <2>3. AcceptHeld'
    BY <1>0, <1>2, <1>3, Zenon DEF AcceptHeld
  <2>4. QED
    BY <2>1, <2>2, <2>3, Zenon DEF LinksHeld
<1>7. QED
  BY <1>4, <1>5, <1>6, Zenon DEF SrvInv

\* TrackLate keeps the invariant.
LEMMA TrackLateKeeps ==
  ASSUME SrvInv, NEW c \in SshConns, Track(c), closedSrv
  PROVE  SrvInv'
<1>0. SrvTypeOK /\ LinksHeld /\ AcceptHeld /\ Counted /\ LinkHeld(c)
  BY Zenon DEF SrvInv, LinksHeld
<1>1. link \in [SshConns -> LinkRec] /\ link[c] \in LinkRec
  BY <1>0, Zenon DEF SrvTypeOK, LinkRec
<1>2. /\ \A d \in SshConns : d # c => link'[d] = link[d]
      /\ inAccept' = {}
      /\ accept' = "stopped"
      /\ wgc' = wgc - 1
      /\ UNCHANGED <<transport, tracked, closedSrv, ctxSrv, closerSrv>>
  BY <1>1, Zenon DEF Track, With, OnLink, OnLinkCounted
<1>3. /\ c \in inAccept
      /\ link'[c].serve = "done"
      /\ link'[c].tcp = "closed"
      /\ link'[c].mux <=> FALSE
      /\ link'[c].pend <=> FALSE
      /\ link'[c].begun = 0
      /\ link'[c].sess = "none"
      /\ link'[c].dropped = 0
      /\ link'[c].refusers = 0
      /\ link'[c].flood <=> FALSE
      /\ link'[c].chans = 0
  BY <1>1 DEF Track, With, OnLink, OnLinkCounted, LinkRec, NoLink
<1>4. Counted'
  <2>1. \A d \in SshConns : SameServe(d) /\ SameSession(d) /\ SameRefusers(d)
    BY <1>0, <1>2, <1>3, Zenon DEF SameServe, SameSession, SameRefusers, InSession, Serving, LinkHeld
  <2>2. accept = "running" /\ accept' = "stopped"
    BY <1>0, <1>1, <1>2, <1>3, Zenon DEF InSession, Serving, LinkHeld, LinkRec, AcceptHeld, SrvTypeOK
  <2>3. IsFiniteSet(Goroutines') /\ Cardinality(Goroutines') = Cardinality(Goroutines) - 1
    BY <1>0, <1>2, <2>1, <2>2, CountLoopEnds, Zenon DEF Counted
  <2>4. closerSrv # "returned"
    BY <1>0, <1>2, <1>3, NoneLeft, Zenon DEF AcceptHeld, SrvTypeOK
  <2>5. QED
    BY <1>0, <1>2, <2>3, <2>4, Zenon DEF Counted
<1>5. SrvTypeOK'
  <2>1. link'[c] \in LinkRec
    <3>1. link'[c] = [serve |-> "done", tcp |-> "closed", mux |-> FALSE, pend |-> FALSE, begun |-> 0,
          sess |-> "none", dropped |-> 0, refusers |-> 0, flood |-> FALSE, chans |-> 0]
      BY <1>1 DEF Track, With, OnLink, OnLinkCounted, NoLink, LinkRec
    <3>2. 0 \in 0 .. 2 /\ 0 \in 0 .. MaxChannels /\ 0 \in 0 .. MaxChannels /\ 0 \in 0 .. MaxChannels
      BY <1>0, <1>1, <1>3, SrvConstants, Zenon DEF LinkHeld, LinkRec, SrvConstants
    <3>3. QED
      BY <1>1, <3>1, <3>2 DEF LinkRec
  <2>2. link' = [d \in SshConns |-> link'[d]]
    BY <1>1, Zenon DEF Track, With, OnLink, OnLinkCounted
  <2>3. link' \in [SshConns -> LinkRec]
    BY <1>1, <1>2, <2>1, <2>2, Zenon
  <2>4. wgc' \in Nat
    BY <1>4, FS_CardinalityType, Zenon DEF Counted
  <2>5. QED
    BY <1>0, <1>2, <1>3, <2>3, <2>4, Zenon DEF SrvTypeOK, LinkRec
<1>6. LinksHeld' /\ AcceptHeld'
  <2>1. LinkHeld(c)'
    BY <1>0, <1>1, <1>2, <1>3 DEF LinkHeld, LinkRec, Serving, AcceptHeld
  <2>2. ASSUME NEW d \in SshConns, d # c PROVE LinkHeld(d)'
    <3>1. LinkHeld(d)
      BY <1>0, Zenon DEF LinksHeld
    <3>2. QED
      BY <1>0, <1>2, <1>3, <2>2, <3>1, Zenon DEF LinkHeld, AcceptHeld
  <2>3. AcceptHeld'
    BY <1>0, <1>2, <1>3, Zenon DEF AcceptHeld
  <2>4. QED
    BY <2>1, <2>2, <2>3, Zenon DEF LinksHeld
<1>7. QED
  BY <1>4, <1>5, <1>6, Zenon DEF SrvInv

\* Track keeps the invariant.
LEMMA TrackKeeps ==
  ASSUME SrvInv, NEW c \in SshConns, Track(c), ~closedSrv
  PROVE  SrvInv'
<1>0. SrvTypeOK /\ LinksHeld /\ AcceptHeld /\ Counted /\ LinkHeld(c)
  BY Zenon DEF SrvInv, LinksHeld
<1>1. link \in [SshConns -> LinkRec] /\ link[c] \in LinkRec
  BY <1>0, Zenon DEF SrvTypeOK, LinkRec
<1>2. /\ \A d \in SshConns : d # c => link'[d] = link[d]
      /\ inAccept' = {}
      /\ tracked' = tracked \cup {c}
      /\ wgc' = wgc + 1
      /\ UNCHANGED <<transport, accept, closedSrv, ctxSrv, closerSrv>>
  BY <1>1, Zenon DEF Track, With, OnLink, OnLinkCounted
<1>3. /\ c \in inAccept
      /\ link'[c].serve = "handshake"
      /\ link'[c].tcp = link[c].tcp
      /\ link'[c].mux = link[c].mux
      /\ link'[c].pend = link[c].pend
      /\ link'[c].begun = link[c].begun
      /\ link'[c].sess = link[c].sess
      /\ link'[c].dropped = link[c].dropped
      /\ link'[c].refusers = link[c].refusers
      /\ link'[c].flood = link[c].flood
      /\ link'[c].chans = link[c].chans
  BY <1>1 DEF Track, With, OnLink, OnLinkCounted, LinkRec, NoLink
<1>4. Counted'
  <2>1. \A d \in SshConns : (d # c => SameServe(d)) /\ SameSession(d) /\ SameRefusers(d)
    BY <1>0, <1>2, <1>3, Zenon DEF SameServe, SameSession, SameRefusers, InSession, Serving, LinkHeld
  <2>2. link[c].serve \notin Serving /\ link'[c].serve \in Serving
    BY <1>0, <1>1, <1>2, <1>3, Zenon DEF InSession, Serving, LinkHeld, LinkRec, AcceptHeld, SrvTypeOK
  <2>3. IsFiniteSet(Goroutines') /\ Cardinality(Goroutines') = Cardinality(Goroutines) + 1
    BY <1>0, <1>2, <2>1, <2>2, CountServeBegins, Zenon DEF Counted
  <2>4. closerSrv # "returned"
    BY <1>0, <1>2, <1>3, NoneLeft, Zenon DEF AcceptHeld, SrvTypeOK
  <2>5. QED
    BY <1>0, <1>2, <2>3, <2>4, Zenon DEF Counted
<1>5. SrvTypeOK'
  <2>1. link'[c] \in LinkRec
    <3>1. link'[c] = [link[c] EXCEPT !.serve = "handshake"]
      BY <1>1, Zenon DEF Track, With, OnLink, OnLinkCounted, NoLink
    <3>2. TRUE
      BY <1>0, <1>1, <1>3, SrvConstants, Zenon DEF LinkHeld, LinkRec, SrvConstants
    <3>3. QED
      BY <1>1, <3>1, <3>2, Zenon DEF LinkRec
  <2>2. link' = [d \in SshConns |-> link'[d]]
    BY <1>1, Zenon DEF Track, With, OnLink, OnLinkCounted
  <2>3. link' \in [SshConns -> LinkRec]
    BY <1>1, <1>2, <2>1, <2>2, Zenon
  <2>4. wgc' \in Nat
    BY <1>4, FS_CardinalityType, Zenon DEF Counted
  <2>5. QED
    BY <1>0, <1>2, <1>3, <2>3, <2>4, Zenon DEF SrvTypeOK, LinkRec
<1>6. LinksHeld' /\ AcceptHeld'
  <2>1. LinkHeld(c)'
    BY <1>0, <1>1, <1>2, <1>3, Zenon DEF LinkHeld, LinkRec, Serving, AcceptHeld
  <2>2. ASSUME NEW d \in SshConns, d # c PROVE LinkHeld(d)'
    <3>1. LinkHeld(d)
      BY <1>0, Zenon DEF LinksHeld
    <3>2. QED
      BY <1>0, <1>2, <1>3, <2>2, <3>1, Zenon DEF LinkHeld, AcceptHeld
  <2>3. AcceptHeld'
    BY <1>0, <1>2, <1>3, Zenon DEF AcceptHeld
  <2>4. QED
    BY <2>1, <2>2, <2>3, Zenon DEF LinksHeld
<1>7. QED
  BY <1>4, <1>5, <1>6, Zenon DEF SrvInv

\* HandshakeSSH keeps the invariant.
LEMMA HandshakeSSHKeeps ==
  ASSUME SrvInv, NEW c \in SshConns, HandshakeSSH(c)
  PROVE  SrvInv'
<1>0. SrvTypeOK /\ LinksHeld /\ AcceptHeld /\ Counted /\ LinkHeld(c)
  BY Zenon DEF SrvInv, LinksHeld
<1>1. link \in [SshConns -> LinkRec] /\ link[c] \in LinkRec
  BY <1>0, Zenon DEF SrvTypeOK, LinkRec
<1>2. /\ \A d \in SshConns : d # c => link'[d] = link[d]
      /\ UNCHANGED <<transport, accept, inAccept, tracked, closedSrv, ctxSrv, wgc, closerSrv>>
  BY <1>1, Zenon DEF HandshakeSSH, With, OnLink, OnLinkCounted
<1>3. /\ link[c].serve = "handshake"
      /\ link'[c].serve = "dispatch"
      /\ link'[c].tcp = link[c].tcp
      /\ link'[c].mux <=> TRUE
      /\ link'[c].pend = link[c].pend
      /\ link'[c].begun = link[c].begun
      /\ link'[c].sess = link[c].sess
      /\ link'[c].dropped = link[c].dropped
      /\ link'[c].refusers = link[c].refusers
      /\ link'[c].flood = link[c].flood
      /\ link'[c].chans = link[c].chans
  BY <1>1, Zenon DEF HandshakeSSH, With, OnLink, OnLinkCounted, LinkRec, NoLink
<1>4. Counted'
  <2>1. \A d \in SshConns : SameServe(d) /\ SameSession(d) /\ SameRefusers(d)
    BY <1>0, <1>2, <1>3, Zenon DEF SameServe, SameSession, SameRefusers, InSession, Serving, LinkHeld
  <2>2. Goroutines' = Goroutines
    BY <1>2, <2>1, CountSame, Zenon
  <2>3. QED
    BY <1>0, <1>2, <2>2, Zenon DEF Counted
<1>5. SrvTypeOK'
  <2>1. link'[c] \in LinkRec
    <3>1. link'[c] = [link[c] EXCEPT !.serve = "dispatch", !.mux = TRUE]
      BY <1>1, Zenon DEF HandshakeSSH, With, OnLink, OnLinkCounted, NoLink
    <3>2. TRUE
      BY <1>0, <1>1, <1>3, SrvConstants, Zenon DEF LinkHeld, LinkRec, SrvConstants
    <3>3. QED
      BY <1>1, <3>1, <3>2, Zenon DEF LinkRec
  <2>2. link' = [d \in SshConns |-> link'[d]]
    BY <1>1, Zenon DEF HandshakeSSH, With, OnLink, OnLinkCounted
  <2>3. link' \in [SshConns -> LinkRec]
    BY <1>1, <1>2, <2>1, <2>2, Zenon
  <2>4. wgc' \in Nat
    BY <1>4, FS_CardinalityType, Zenon DEF Counted
  <2>5. QED
    BY <1>0, <1>2, <1>3, <2>3, <2>4, Zenon DEF SrvTypeOK, LinkRec
<1>6. LinksHeld' /\ AcceptHeld'
  <2>1. LinkHeld(c)'
    BY <1>0, <1>1, <1>2, <1>3, Zenon DEF LinkHeld, LinkRec, Serving, AcceptHeld
  <2>2. ASSUME NEW d \in SshConns, d # c PROVE LinkHeld(d)'
    <3>1. LinkHeld(d)
      BY <1>0, Zenon DEF LinksHeld
    <3>2. QED
      BY <1>0, <1>2, <1>3, <2>2, <3>1, Zenon DEF LinkHeld, AcceptHeld
  <2>3. AcceptHeld'
    BY <1>0, <1>2, <1>3, Zenon DEF AcceptHeld
  <2>4. QED
    BY <2>1, <2>2, <2>3, Zenon DEF LinksHeld
<1>7. QED
  BY <1>4, <1>5, <1>6, Zenon DEF SrvInv

\* HandshakeTLS keeps the invariant.
LEMMA HandshakeTLSKeeps ==
  ASSUME SrvInv, NEW c \in SshConns, HandshakeTLS(c)
  PROVE  SrvInv'
<1>0. SrvTypeOK /\ LinksHeld /\ AcceptHeld /\ Counted /\ LinkHeld(c)
  BY Zenon DEF SrvInv, LinksHeld
<1>1. link \in [SshConns -> LinkRec] /\ link[c] \in LinkRec
  BY <1>0, Zenon DEF SrvTypeOK, LinkRec
<1>2. /\ \A d \in SshConns : d # c => link'[d] = link[d]
      /\ UNCHANGED <<transport, accept, inAccept, tracked, closedSrv, ctxSrv, wgc, closerSrv>>
  BY <1>1, Zenon DEF HandshakeTLS, With, OnLink, OnLinkCounted
<1>3. /\ link[c].serve = "handshake"
      /\ link'[c].serve = "tls"
      /\ link'[c].tcp = link[c].tcp
      /\ link'[c].mux = link[c].mux
      /\ link'[c].pend = link[c].pend
      /\ link'[c].begun = 1
      /\ link'[c].sess = "run"
      /\ link'[c].dropped = link[c].dropped
      /\ link'[c].refusers = link[c].refusers
      /\ link'[c].flood = link[c].flood
      /\ link'[c].chans = link[c].chans
  BY <1>1, Zenon DEF HandshakeTLS, With, OnLink, OnLinkCounted, LinkRec, NoLink
<1>4. Counted'
  <2>1. \A d \in SshConns : SameServe(d) /\ SameSession(d) /\ SameRefusers(d)
    BY <1>0, <1>2, <1>3, Zenon DEF SameServe, SameSession, SameRefusers, InSession, Serving, LinkHeld
  <2>2. Goroutines' = Goroutines
    BY <1>2, <2>1, CountSame, Zenon
  <2>3. QED
    BY <1>0, <1>2, <2>2, Zenon DEF Counted
<1>5. SrvTypeOK'
  <2>1. link'[c] \in LinkRec
    <3>1. link'[c] = [link[c] EXCEPT !.serve = "tls", !.begun = 1, !.sess = "run"]
      BY <1>1, Zenon DEF HandshakeTLS, With, OnLink, OnLinkCounted, NoLink
    <3>2. 1 \in 0 .. 2
      BY <1>0, <1>1, <1>3, SrvConstants DEF LinkHeld, LinkRec, SrvConstants
    <3>3. QED
      BY <1>1, <3>1, <3>2, Zenon DEF LinkRec
  <2>2. link' = [d \in SshConns |-> link'[d]]
    BY <1>1, Zenon DEF HandshakeTLS, With, OnLink, OnLinkCounted
  <2>3. link' \in [SshConns -> LinkRec]
    BY <1>1, <1>2, <2>1, <2>2, Zenon
  <2>4. wgc' \in Nat
    BY <1>4, FS_CardinalityType, Zenon DEF Counted
  <2>5. QED
    BY <1>0, <1>2, <1>3, <2>3, <2>4, Zenon DEF SrvTypeOK, LinkRec
<1>6. LinksHeld' /\ AcceptHeld'
  <2>1. LinkHeld(c)'
    BY <1>0, <1>1, <1>2, <1>3 DEF LinkHeld, LinkRec, Serving, AcceptHeld
  <2>2. ASSUME NEW d \in SshConns, d # c PROVE LinkHeld(d)'
    <3>1. LinkHeld(d)
      BY <1>0, Zenon DEF LinksHeld
    <3>2. QED
      BY <1>0, <1>2, <1>3, <2>2, <3>1, Zenon DEF LinkHeld, AcceptHeld
  <2>3. AcceptHeld'
    BY <1>0, <1>2, <1>3, Zenon DEF AcceptHeld
  <2>4. QED
    BY <2>1, <2>2, <2>3, Zenon DEF LinksHeld
<1>7. QED
  BY <1>4, <1>5, <1>6, Zenon DEF SrvInv

\* HandshakeFails keeps the invariant.
LEMMA HandshakeFailsKeeps ==
  ASSUME SrvInv, NEW c \in SshConns, HandshakeFails(c)
  PROVE  SrvInv'
<1>0. SrvTypeOK /\ LinksHeld /\ AcceptHeld /\ Counted /\ LinkHeld(c)
  BY Zenon DEF SrvInv, LinksHeld
<1>1. link \in [SshConns -> LinkRec] /\ link[c] \in LinkRec
  BY <1>0, Zenon DEF SrvTypeOK, LinkRec
<1>2. /\ \A d \in SshConns : d # c => link'[d] = link[d]
      /\ UNCHANGED <<transport, accept, inAccept, tracked, closedSrv, ctxSrv, wgc, closerSrv>>
  BY <1>1, Zenon DEF HandshakeFails, With, OnLink, OnLinkCounted
<1>3. /\ link[c].serve = "handshake"
      /\ link'[c].serve = "leaving"
      /\ link'[c].tcp = link[c].tcp
      /\ link'[c].mux = link[c].mux
      /\ link'[c].pend = link[c].pend
      /\ link'[c].begun = link[c].begun
      /\ link'[c].sess = link[c].sess
      /\ link'[c].dropped = link[c].dropped
      /\ link'[c].refusers = link[c].refusers
      /\ link'[c].flood = link[c].flood
      /\ link'[c].chans = link[c].chans
  BY <1>1, Zenon DEF HandshakeFails, With, OnLink, OnLinkCounted, LinkRec, NoLink
<1>4. Counted'
  <2>1. \A d \in SshConns : SameServe(d) /\ SameSession(d) /\ SameRefusers(d)
    BY <1>0, <1>2, <1>3, Zenon DEF SameServe, SameSession, SameRefusers, InSession, Serving, LinkHeld
  <2>2. Goroutines' = Goroutines
    BY <1>2, <2>1, CountSame, Zenon
  <2>3. QED
    BY <1>0, <1>2, <2>2, Zenon DEF Counted
<1>5. SrvTypeOK'
  <2>1. link'[c] \in LinkRec
    <3>1. link'[c] = [link[c] EXCEPT !.serve = "leaving"]
      BY <1>1, Zenon DEF HandshakeFails, With, OnLink, OnLinkCounted, NoLink
    <3>2. TRUE
      BY <1>0, <1>1, <1>3, SrvConstants, Zenon DEF LinkHeld, LinkRec, SrvConstants
    <3>3. QED
      BY <1>1, <3>1, <3>2, Zenon DEF LinkRec
  <2>2. link' = [d \in SshConns |-> link'[d]]
    BY <1>1, Zenon DEF HandshakeFails, With, OnLink, OnLinkCounted
  <2>3. link' \in [SshConns -> LinkRec]
    BY <1>1, <1>2, <2>1, <2>2, Zenon
  <2>4. wgc' \in Nat
    BY <1>4, FS_CardinalityType, Zenon DEF Counted
  <2>5. QED
    BY <1>0, <1>2, <1>3, <2>3, <2>4, Zenon DEF SrvTypeOK, LinkRec
<1>6. LinksHeld' /\ AcceptHeld'
  <2>1. LinkHeld(c)'
    BY <1>0, <1>1, <1>2, <1>3, Zenon DEF LinkHeld, LinkRec, Serving, AcceptHeld
  <2>2. ASSUME NEW d \in SshConns, d # c PROVE LinkHeld(d)'
    <3>1. LinkHeld(d)
      BY <1>0, Zenon DEF LinksHeld
    <3>2. QED
      BY <1>0, <1>2, <1>3, <2>2, <3>1, Zenon DEF LinkHeld, AcceptHeld
  <2>3. AcceptHeld'
    BY <1>0, <1>2, <1>3, Zenon DEF AcceptHeld
  <2>4. QED
    BY <2>1, <2>2, <2>3, Zenon DEF LinksHeld
<1>7. QED
  BY <1>4, <1>5, <1>6, Zenon DEF SrvInv

\* ChannelOpens, dropping the channel that was pending, keeps the invariant.
LEMMA ChannelOpensAgainKeeps ==
  ASSUME SrvInv, NEW c \in SshConns, ChannelOpens(c), link[c].pend
  PROVE  SrvInv'
<1>0. SrvTypeOK /\ LinksHeld /\ AcceptHeld /\ Counted /\ LinkHeld(c)
  BY Zenon DEF SrvInv, LinksHeld
<1>1. link \in [SshConns -> LinkRec] /\ link[c] \in LinkRec
  BY <1>0, Zenon DEF SrvTypeOK, LinkRec
<1>a. Dropped(link[c]) = [serve |-> link[c].serve, tcp |-> link[c].tcp, mux |-> link[c].mux,
      pend |-> FALSE, begun |-> link[c].begun, sess |-> link[c].sess, dropped |-> link[c].dropped + 1,
      refusers |-> link[c].refusers + 1, flood |-> link[c].flood, chans |-> link[c].chans]
      /\ Counting(link[c], Dropped(link[c])) = 1
  BY <1>1, DroppedIs, Zenon DEF ChannelOpens, Dispatching
<1>2. /\ \A d \in SshConns : d # c => link'[d] = link[d]
      /\ wgc' = wgc + 1
      /\ UNCHANGED <<transport, accept, inAccept, tracked, closedSrv, ctxSrv, closerSrv>>
  BY <1>1, <1>a, Zenon DEF ChannelOpens, Dispatching, With, OnLink, OnLinkCounted
<1>3. /\ link[c].serve = "dispatch"
      /\ link[c].begun = 0
      /\ link[c].pend
      /\ link[c].chans < MaxChannels
      /\ link'[c].serve = link[c].serve
      /\ link'[c].tcp = link[c].tcp
      /\ link'[c].mux = link[c].mux
      /\ link'[c].pend <=> TRUE
      /\ link'[c].begun = link[c].begun
      /\ link'[c].sess = link[c].sess
      /\ link'[c].dropped = link[c].dropped + 1
      /\ link'[c].refusers = link[c].refusers + 1
      /\ link'[c].flood = link[c].flood
      /\ link'[c].chans = link[c].chans + 1
  BY <1>1, <1>a DEF ChannelOpens, Dispatching, With, OnLink, OnLinkCounted, LinkRec, NoLink
<1>4. Counted'
  <2>1. \A d \in SshConns : SameServe(d) /\ SameSession(d) /\ (d # c => SameRefusers(d))
    BY <1>0, <1>2, <1>3, Zenon DEF SameServe, SameSession, SameRefusers, InSession, Serving, LinkHeld
  <2>2. link[c].refusers \in Nat /\ link'[c].refusers = link[c].refusers + 1
    BY <1>0, <1>1, <1>2, <1>3 DEF InSession, Serving, LinkHeld, LinkRec, AcceptHeld, SrvTypeOK
  <2>3. IsFiniteSet(Goroutines') /\ Cardinality(Goroutines') = Cardinality(Goroutines) + 1
    BY <1>0, <1>2, <2>1, <2>2, CountRefuserBegins, Zenon DEF Counted
  <2>4. closerSrv # "returned"
    BY <1>0, <1>2, <1>3, NoneLeft, Zenon DEF Serving
  <2>5. QED
    BY <1>0, <1>2, <2>3, <2>4, Zenon DEF Counted
<1>5. SrvTypeOK'
  <2>1. link'[c] \in LinkRec
    <3>1. /\ link[c].dropped + 1 \in 0 .. MaxChannels /\ link[c].refusers + 1 \in 0 .. MaxChannels
          /\ link[c].chans + 1 \in 0 .. MaxChannels
      BY <1>0, <1>1, <1>3, SrvConstants DEF LinkHeld, LinkRec, SrvConstants
    <3>2. Dropped(link[c]) \in LinkRec /\ Dropped(link[c]).chans + 1 \in 0 .. MaxChannels
      BY <1>1, <1>a, <3>1 DEF LinkRec
    <3>3. link'[c] = [Dropped(link[c]) EXCEPT !.pend = TRUE, !.chans = @ + 1]
      BY <1>1, Zenon DEF ChannelOpens, With, OnLinkCounted
    <3>4. QED
      BY <3>2, <3>3, Zenon DEF LinkRec
  <2>2. link' = [d \in SshConns |-> link'[d]]
    BY <1>1, Zenon DEF ChannelOpens, Dispatching, With, OnLink, OnLinkCounted
  <2>3. link' \in [SshConns -> LinkRec]
    BY <1>1, <1>2, <2>1, <2>2, Zenon
  <2>4. wgc' \in Nat
    BY <1>4, FS_CardinalityType, Zenon DEF Counted
  <2>5. QED
    BY <1>0, <1>2, <1>3, <2>3, <2>4, Zenon DEF SrvTypeOK, LinkRec
<1>6. LinksHeld' /\ AcceptHeld'
  <2>1. LinkHeld(c)'
    BY <1>0, <1>1, <1>2, <1>3 DEF LinkHeld, LinkRec, Serving, AcceptHeld
  <2>2. ASSUME NEW d \in SshConns, d # c PROVE LinkHeld(d)'
    <3>1. LinkHeld(d)
      BY <1>0, Zenon DEF LinksHeld
    <3>2. QED
      BY <1>0, <1>2, <1>3, <2>2, <3>1, Zenon DEF LinkHeld, AcceptHeld
  <2>3. AcceptHeld'
    BY <1>0, <1>2, <1>3, Zenon DEF AcceptHeld
  <2>4. QED
    BY <2>1, <2>2, <2>3, Zenon DEF LinksHeld
<1>7. QED
  BY <1>4, <1>5, <1>6, Zenon DEF SrvInv

\* ChannelOpens keeps the invariant.
LEMMA ChannelOpensKeeps ==
  ASSUME SrvInv, NEW c \in SshConns, ChannelOpens(c), ~link[c].pend
  PROVE  SrvInv'
<1>0. SrvTypeOK /\ LinksHeld /\ AcceptHeld /\ Counted /\ LinkHeld(c)
  BY Zenon DEF SrvInv, LinksHeld
<1>1. link \in [SshConns -> LinkRec] /\ link[c] \in LinkRec
  BY <1>0, Zenon DEF SrvTypeOK, LinkRec
<1>a. Dropped(link[c]) = link[c] /\ Counting(link[c], Dropped(link[c])) = 0 /\ wgc \in Nat
  BY <1>0, <1>1, NotDropped, Zenon DEF SrvTypeOK
<1>2. /\ \A d \in SshConns : d # c => link'[d] = link[d]
      /\ UNCHANGED <<transport, accept, inAccept, tracked, closedSrv, ctxSrv, wgc, closerSrv>>
  BY <1>1, <1>a DEF ChannelOpens, Dispatching, With, OnLink, OnLinkCounted
<1>3. /\ link[c].serve = "dispatch"
      /\ link[c].begun = 0
      /\ ~link[c].pend
      /\ link[c].chans < MaxChannels
      /\ link'[c].serve = link[c].serve
      /\ link'[c].tcp = link[c].tcp
      /\ link'[c].mux = link[c].mux
      /\ link'[c].pend <=> TRUE
      /\ link'[c].begun = link[c].begun
      /\ link'[c].sess = link[c].sess
      /\ link'[c].dropped = link[c].dropped
      /\ link'[c].refusers = link[c].refusers
      /\ link'[c].flood = link[c].flood
      /\ link'[c].chans = link[c].chans + 1
  BY <1>1, <1>a, Zenon DEF ChannelOpens, Dispatching, With, OnLink, OnLinkCounted, LinkRec, NoLink
<1>4. Counted'
  <2>1. \A d \in SshConns : SameServe(d) /\ SameSession(d) /\ SameRefusers(d)
    BY <1>0, <1>2, <1>3, Zenon DEF SameServe, SameSession, SameRefusers, InSession, Serving, LinkHeld
  <2>2. Goroutines' = Goroutines
    BY <1>2, <2>1, CountSame, Zenon
  <2>3. QED
    BY <1>0, <1>2, <2>2, Zenon DEF Counted
<1>5. SrvTypeOK'
  <2>1. link'[c] \in LinkRec
    <3>1. link'[c] = [link[c] EXCEPT !.pend = TRUE, !.chans = link[c].chans + 1]
      BY <1>1, <1>a, Zenon DEF ChannelOpens, Dispatching, With, OnLink, OnLinkCounted, NoLink
    <3>2. link[c].chans + 1 \in 0 .. MaxChannels
      BY <1>0, <1>1, <1>3, SrvConstants DEF LinkHeld, LinkRec, SrvConstants
    <3>3. QED
      BY <1>1, <3>1, <3>2, Zenon DEF LinkRec
  <2>2. link' = [d \in SshConns |-> link'[d]]
    BY <1>1, Zenon DEF ChannelOpens, Dispatching, With, OnLink, OnLinkCounted
  <2>3. link' \in [SshConns -> LinkRec]
    BY <1>1, <1>2, <2>1, <2>2, Zenon
  <2>4. wgc' \in Nat
    BY <1>4, FS_CardinalityType, Zenon DEF Counted
  <2>5. QED
    BY <1>0, <1>2, <1>3, <2>3, <2>4, Zenon DEF SrvTypeOK, LinkRec
<1>6. LinksHeld' /\ AcceptHeld'
  <2>1. LinkHeld(c)'
    BY <1>0, <1>1, <1>2, <1>3 DEF LinkHeld, LinkRec, Serving, AcceptHeld
  <2>2. ASSUME NEW d \in SshConns, d # c PROVE LinkHeld(d)'
    <3>1. LinkHeld(d)
      BY <1>0, Zenon DEF LinksHeld
    <3>2. QED
      BY <1>0, <1>2, <1>3, <2>2, <3>1, Zenon DEF LinkHeld, AcceptHeld
  <2>3. AcceptHeld'
    BY <1>0, <1>2, <1>3, Zenon DEF AcceptHeld
  <2>4. QED
    BY <2>1, <2>2, <2>3, Zenon DEF LinksHeld
<1>7. QED
  BY <1>4, <1>5, <1>6, Zenon DEF SrvInv

\* Subsystem keeps the invariant.
LEMMA SubsystemKeeps ==
  ASSUME SrvInv, NEW c \in SshConns, Subsystem(c)
  PROVE  SrvInv'
<1>0. SrvTypeOK /\ LinksHeld /\ AcceptHeld /\ Counted /\ LinkHeld(c)
  BY Zenon DEF SrvInv, LinksHeld
<1>1. link \in [SshConns -> LinkRec] /\ link[c] \in LinkRec
  BY <1>0, Zenon DEF SrvTypeOK, LinkRec
<1>2. /\ \A d \in SshConns : d # c => link'[d] = link[d]
      /\ wgc' = wgc + 1
      /\ UNCHANGED <<transport, accept, inAccept, tracked, closedSrv, ctxSrv, closerSrv>>
  BY <1>1, Zenon DEF Subsystem, Dispatching, With, OnLink, OnLinkCounted
<1>3. /\ link[c].serve = "dispatch"
      /\ link[c].pend
      /\ link'[c].serve = link[c].serve
      /\ link'[c].tcp = link[c].tcp
      /\ link'[c].mux = link[c].mux
      /\ link'[c].pend <=> FALSE
      /\ link'[c].begun = link[c].begun + 1
      /\ link'[c].sess = "run"
      /\ link'[c].dropped = link[c].dropped
      /\ link'[c].refusers = link[c].refusers
      /\ link'[c].flood = link[c].flood
      /\ link'[c].chans = link[c].chans
  BY <1>1, Zenon DEF Subsystem, Dispatching, With, OnLink, OnLinkCounted, LinkRec, NoLink
<1>4. Counted'
  <2>1. \A d \in SshConns : SameServe(d) /\ (d # c => SameSession(d)) /\ SameRefusers(d)
    BY <1>0, <1>2, <1>3, Zenon DEF SameServe, SameSession, SameRefusers, InSession, Serving, LinkHeld
  <2>2. ~InSession(c) /\ InSession(c)'
    BY <1>0, <1>1, <1>2, <1>3, Zenon DEF InSession, Serving, LinkHeld, LinkRec, AcceptHeld, SrvTypeOK
  <2>3. IsFiniteSet(Goroutines') /\ Cardinality(Goroutines') = Cardinality(Goroutines) + 1
    BY <1>0, <1>2, <2>1, <2>2, CountSessionBegins, Zenon DEF Counted
  <2>4. closerSrv # "returned"
    BY <1>0, <1>2, <1>3, NoneLeft, Zenon DEF Serving
  <2>5. QED
    BY <1>0, <1>2, <2>3, <2>4, Zenon DEF Counted
<1>5. SrvTypeOK'
  <2>1. link'[c] \in LinkRec
    <3>1. link'[c] = [link[c] EXCEPT !.pend = FALSE, !.begun = link[c].begun + 1, !.sess = "run"]
      BY <1>1, Zenon DEF Subsystem, Dispatching, With, OnLink, OnLinkCounted, NoLink
    <3>2. link[c].begun + 1 \in 0 .. 2
      BY <1>0, <1>1, <1>3, SrvConstants DEF LinkHeld, LinkRec, SrvConstants
    <3>3. QED
      BY <1>1, <3>1, <3>2, Zenon DEF LinkRec
  <2>2. link' = [d \in SshConns |-> link'[d]]
    BY <1>1, Zenon DEF Subsystem, Dispatching, With, OnLink, OnLinkCounted
  <2>3. link' \in [SshConns -> LinkRec]
    BY <1>1, <1>2, <2>1, <2>2, Zenon
  <2>4. wgc' \in Nat
    BY <1>4, FS_CardinalityType, Zenon DEF Counted
  <2>5. QED
    BY <1>0, <1>2, <1>3, <2>3, <2>4, Zenon DEF SrvTypeOK, LinkRec
<1>6. LinksHeld' /\ AcceptHeld'
  <2>1. LinkHeld(c)'
    BY <1>0, <1>1, <1>2, <1>3 DEF LinkHeld, LinkRec, Serving, AcceptHeld
  <2>2. ASSUME NEW d \in SshConns, d # c PROVE LinkHeld(d)'
    <3>1. LinkHeld(d)
      BY <1>0, Zenon DEF LinksHeld
    <3>2. QED
      BY <1>0, <1>2, <1>3, <2>2, <3>1, Zenon DEF LinkHeld, AcceptHeld
  <2>3. AcceptHeld'
    BY <1>0, <1>2, <1>3, Zenon DEF AcceptHeld
  <2>4. QED
    BY <2>1, <2>2, <2>3, Zenon DEF LinksHeld
<1>7. QED
  BY <1>4, <1>5, <1>6, Zenon DEF SrvInv

\* WaitFires keeps the invariant.
LEMMA WaitFiresKeeps ==
  ASSUME SrvInv, NEW c \in SshConns, WaitFires(c)
  PROVE  SrvInv'
<1>0. SrvTypeOK /\ LinksHeld /\ AcceptHeld /\ Counted /\ LinkHeld(c)
  BY Zenon DEF SrvInv, LinksHeld
<1>1. link \in [SshConns -> LinkRec] /\ link[c] \in LinkRec
  BY <1>0, Zenon DEF SrvTypeOK, LinkRec
<1>a. Dropped(link[c]) = [serve |-> link[c].serve, tcp |-> link[c].tcp, mux |-> link[c].mux,
      pend |-> FALSE, begun |-> link[c].begun, sess |-> link[c].sess, dropped |-> link[c].dropped + 1,
      refusers |-> link[c].refusers + 1, flood |-> link[c].flood, chans |-> link[c].chans]
      /\ Counting(link[c], Dropped(link[c])) = 1
  BY <1>1, DroppedIs, Zenon DEF WaitFires, Dispatching
<1>2. /\ \A d \in SshConns : d # c => link'[d] = link[d]
      /\ wgc' = wgc + 1
      /\ UNCHANGED <<transport, accept, inAccept, tracked, closedSrv, ctxSrv, closerSrv>>
  BY <1>1, <1>a, Zenon DEF WaitFires, Dispatching, With, OnLink, OnLinkCounted
<1>3. /\ link[c].serve = "dispatch"
      /\ link[c].pend
      /\ link'[c].serve = link[c].serve
      /\ link'[c].tcp = link[c].tcp
      /\ link'[c].mux = link[c].mux
      /\ link'[c].pend <=> FALSE
      /\ link'[c].begun = link[c].begun
      /\ link'[c].sess = link[c].sess
      /\ link'[c].dropped = link[c].dropped + 1
      /\ link'[c].refusers = link[c].refusers + 1
      /\ link'[c].flood = link[c].flood
      /\ link'[c].chans = link[c].chans
  BY <1>1, <1>a DEF WaitFires, Dispatching, With, OnLink, OnLinkCounted, LinkRec, NoLink
<1>4. Counted'
  <2>1. \A d \in SshConns : SameServe(d) /\ SameSession(d) /\ (d # c => SameRefusers(d))
    BY <1>0, <1>2, <1>3, Zenon DEF SameServe, SameSession, SameRefusers, InSession, Serving, LinkHeld
  <2>2. link[c].refusers \in Nat /\ link'[c].refusers = link[c].refusers + 1
    BY <1>0, <1>1, <1>2, <1>3 DEF InSession, Serving, LinkHeld, LinkRec, AcceptHeld, SrvTypeOK
  <2>3. IsFiniteSet(Goroutines') /\ Cardinality(Goroutines') = Cardinality(Goroutines) + 1
    BY <1>0, <1>2, <2>1, <2>2, CountRefuserBegins, Zenon DEF Counted
  <2>4. closerSrv # "returned"
    BY <1>0, <1>2, <1>3, NoneLeft, Zenon DEF Serving
  <2>5. QED
    BY <1>0, <1>2, <2>3, <2>4, Zenon DEF Counted
<1>5. SrvTypeOK'
  <2>1. link'[c] \in LinkRec
    <3>1. link'[c] = [serve |-> link[c].serve, tcp |-> link[c].tcp, mux |-> link[c].mux,
          pend |-> FALSE, begun |-> link[c].begun, sess |-> link[c].sess,
          dropped |-> link[c].dropped + 1, refusers |-> link[c].refusers + 1, flood |-> link[c].flood,
          chans |-> link[c].chans]
      BY <1>1, <1>a, Zenon DEF WaitFires, Dispatching, With, OnLink, OnLinkCounted, NoLink, LinkRec
    <3>2. link[c].dropped + 1 \in 0 .. MaxChannels /\ link[c].refusers + 1 \in 0 .. MaxChannels
      BY <1>0, <1>1, <1>3, SrvConstants DEF LinkHeld, LinkRec, SrvConstants
    <3>3. QED
      BY <1>1, <3>1, <3>2 DEF LinkRec
  <2>2. link' = [d \in SshConns |-> link'[d]]
    BY <1>1, Zenon DEF WaitFires, Dispatching, With, OnLink, OnLinkCounted
  <2>3. link' \in [SshConns -> LinkRec]
    BY <1>1, <1>2, <2>1, <2>2, Zenon
  <2>4. wgc' \in Nat
    BY <1>4, FS_CardinalityType, Zenon DEF Counted
  <2>5. QED
    BY <1>0, <1>2, <1>3, <2>3, <2>4, Zenon DEF SrvTypeOK, LinkRec
<1>6. LinksHeld' /\ AcceptHeld'
  <2>1. LinkHeld(c)'
    BY <1>0, <1>1, <1>2, <1>3 DEF LinkHeld, LinkRec, Serving, AcceptHeld
  <2>2. ASSUME NEW d \in SshConns, d # c PROVE LinkHeld(d)'
    <3>1. LinkHeld(d)
      BY <1>0, Zenon DEF LinksHeld
    <3>2. QED
      BY <1>0, <1>2, <1>3, <2>2, <3>1, Zenon DEF LinkHeld, AcceptHeld
  <2>3. AcceptHeld'
    BY <1>0, <1>2, <1>3, Zenon DEF AcceptHeld
  <2>4. QED
    BY <2>1, <2>2, <2>3, Zenon DEF LinksHeld
<1>7. QED
  BY <1>4, <1>5, <1>6, Zenon DEF SrvInv

\* PendingCloses keeps the invariant.
LEMMA PendingClosesKeeps ==
  ASSUME SrvInv, NEW c \in SshConns, PendingCloses(c)
  PROVE  SrvInv'
<1>0. SrvTypeOK /\ LinksHeld /\ AcceptHeld /\ Counted /\ LinkHeld(c)
  BY Zenon DEF SrvInv, LinksHeld
<1>1. link \in [SshConns -> LinkRec] /\ link[c] \in LinkRec
  BY <1>0, Zenon DEF SrvTypeOK, LinkRec
<1>2. /\ \A d \in SshConns : d # c => link'[d] = link[d]
      /\ UNCHANGED <<transport, accept, inAccept, tracked, closedSrv, ctxSrv, wgc, closerSrv>>
  BY <1>1, Zenon DEF PendingCloses, Dispatching, With, OnLink, OnLinkCounted
<1>3. /\ link[c].serve = "dispatch"
      /\ link'[c].serve = link[c].serve
      /\ link'[c].tcp = link[c].tcp
      /\ link'[c].mux = link[c].mux
      /\ link'[c].pend <=> FALSE
      /\ link'[c].begun = link[c].begun
      /\ link'[c].sess = link[c].sess
      /\ link'[c].dropped = link[c].dropped
      /\ link'[c].refusers = link[c].refusers
      /\ link'[c].flood = link[c].flood
      /\ link'[c].chans = link[c].chans
  BY <1>1, Zenon DEF PendingCloses, Dispatching, With, OnLink, OnLinkCounted, LinkRec, NoLink
<1>4. Counted'
  <2>1. \A d \in SshConns : SameServe(d) /\ SameSession(d) /\ SameRefusers(d)
    BY <1>0, <1>2, <1>3, Zenon DEF SameServe, SameSession, SameRefusers, InSession, Serving, LinkHeld
  <2>2. Goroutines' = Goroutines
    BY <1>2, <2>1, CountSame, Zenon
  <2>3. QED
    BY <1>0, <1>2, <2>2, Zenon DEF Counted
<1>5. SrvTypeOK'
  <2>1. link'[c] \in LinkRec
    <3>1. link'[c] = [link[c] EXCEPT !.pend = FALSE]
      BY <1>1, Zenon DEF PendingCloses, Dispatching, With, OnLink, OnLinkCounted, NoLink
    <3>2. TRUE
      BY <1>0, <1>1, <1>3, SrvConstants, Zenon DEF LinkHeld, LinkRec, SrvConstants
    <3>3. QED
      BY <1>1, <3>1, <3>2, Zenon DEF LinkRec
  <2>2. link' = [d \in SshConns |-> link'[d]]
    BY <1>1, Zenon DEF PendingCloses, Dispatching, With, OnLink, OnLinkCounted
  <2>3. link' \in [SshConns -> LinkRec]
    BY <1>1, <1>2, <2>1, <2>2, Zenon
  <2>4. wgc' \in Nat
    BY <1>4, FS_CardinalityType, Zenon DEF Counted
  <2>5. QED
    BY <1>0, <1>2, <1>3, <2>3, <2>4, Zenon DEF SrvTypeOK, LinkRec
<1>6. LinksHeld' /\ AcceptHeld'
  <2>1. LinkHeld(c)'
    BY <1>0, <1>1, <1>2, <1>3 DEF LinkHeld, LinkRec, Serving, AcceptHeld
  <2>2. ASSUME NEW d \in SshConns, d # c PROVE LinkHeld(d)'
    <3>1. LinkHeld(d)
      BY <1>0, Zenon DEF LinksHeld
    <3>2. QED
      BY <1>0, <1>2, <1>3, <2>2, <3>1, Zenon DEF LinkHeld, AcceptHeld
  <2>3. AcceptHeld'
    BY <1>0, <1>2, <1>3, Zenon DEF AcceptHeld
  <2>4. QED
    BY <2>1, <2>2, <2>3, Zenon DEF LinksHeld
<1>7. QED
  BY <1>4, <1>5, <1>6, Zenon DEF SrvInv

\* DispatchReturns keeps the invariant.
LEMMA DispatchReturnsKeeps ==
  ASSUME SrvInv, NEW c \in SshConns, DispatchReturns(c)
  PROVE  SrvInv'
<1>0. SrvTypeOK /\ LinksHeld /\ AcceptHeld /\ Counted /\ LinkHeld(c)
  BY Zenon DEF SrvInv, LinksHeld
<1>1. link \in [SshConns -> LinkRec] /\ link[c] \in LinkRec
  BY <1>0, Zenon DEF SrvTypeOK, LinkRec
<1>2. /\ \A d \in SshConns : d # c => link'[d] = link[d]
      /\ UNCHANGED <<transport, accept, inAccept, tracked, closedSrv, ctxSrv, wgc, closerSrv>>
  BY <1>1, Zenon DEF DispatchReturns, With, OnLink, OnLinkCounted
<1>3. /\ link[c].serve = "dispatch"
      /\ link'[c].serve = "leaving"
      /\ link'[c].tcp = link[c].tcp
      /\ link'[c].mux = link[c].mux
      /\ link'[c].pend <=> FALSE
      /\ link'[c].begun = link[c].begun
      /\ link'[c].sess = link[c].sess
      /\ link'[c].dropped = link[c].dropped
      /\ link'[c].refusers = link[c].refusers
      /\ link'[c].flood = link[c].flood
      /\ link'[c].chans = link[c].chans
  BY <1>1, Zenon DEF DispatchReturns, With, OnLink, OnLinkCounted, LinkRec, NoLink
<1>4. Counted'
  <2>1. \A d \in SshConns : SameServe(d) /\ SameSession(d) /\ SameRefusers(d)
    BY <1>0, <1>2, <1>3, Zenon DEF SameServe, SameSession, SameRefusers, InSession, Serving, LinkHeld
  <2>2. Goroutines' = Goroutines
    BY <1>2, <2>1, CountSame, Zenon
  <2>3. QED
    BY <1>0, <1>2, <2>2, Zenon DEF Counted
<1>5. SrvTypeOK'
  <2>1. link'[c] \in LinkRec
    <3>1. link'[c] = [link[c] EXCEPT !.serve = "leaving", !.pend = FALSE]
      BY <1>1, Zenon DEF DispatchReturns, With, OnLink, OnLinkCounted, NoLink
    <3>2. TRUE
      BY <1>0, <1>1, <1>3, SrvConstants, Zenon DEF LinkHeld, LinkRec, SrvConstants
    <3>3. QED
      BY <1>1, <3>1, <3>2, Zenon DEF LinkRec
  <2>2. link' = [d \in SshConns |-> link'[d]]
    BY <1>1, Zenon DEF DispatchReturns, With, OnLink, OnLinkCounted
  <2>3. link' \in [SshConns -> LinkRec]
    BY <1>1, <1>2, <2>1, <2>2, Zenon
  <2>4. wgc' \in Nat
    BY <1>4, FS_CardinalityType, Zenon DEF Counted
  <2>5. QED
    BY <1>0, <1>2, <1>3, <2>3, <2>4, Zenon DEF SrvTypeOK, LinkRec
<1>6. LinksHeld' /\ AcceptHeld'
  <2>1. LinkHeld(c)'
    BY <1>0, <1>1, <1>2, <1>3 DEF LinkHeld, LinkRec, Serving, AcceptHeld
  <2>2. ASSUME NEW d \in SshConns, d # c PROVE LinkHeld(d)'
    <3>1. LinkHeld(d)
      BY <1>0, Zenon DEF LinksHeld
    <3>2. QED
      BY <1>0, <1>2, <1>3, <2>2, <3>1, Zenon DEF LinkHeld, AcceptHeld
  <2>3. AcceptHeld'
    BY <1>0, <1>2, <1>3, Zenon DEF AcceptHeld
  <2>4. QED
    BY <2>1, <2>2, <2>3, Zenon DEF LinksHeld
<1>7. QED
  BY <1>4, <1>5, <1>6, Zenon DEF SrvInv

\* TLSReturns keeps the invariant.
LEMMA TLSReturnsKeeps ==
  ASSUME SrvInv, NEW c \in SshConns, TLSReturns(c)
  PROVE  SrvInv'
<1>0. SrvTypeOK /\ LinksHeld /\ AcceptHeld /\ Counted /\ LinkHeld(c)
  BY Zenon DEF SrvInv, LinksHeld
<1>1. link \in [SshConns -> LinkRec] /\ link[c] \in LinkRec
  BY <1>0, Zenon DEF SrvTypeOK, LinkRec
<1>2. /\ \A d \in SshConns : d # c => link'[d] = link[d]
      /\ UNCHANGED <<transport, accept, inAccept, tracked, closedSrv, ctxSrv, wgc, closerSrv>>
  BY <1>1, Zenon DEF TLSReturns, With, OnLink, OnLinkCounted
<1>3. /\ link[c].serve = "tls"
      /\ link[c].sess = "end"
      /\ link'[c].serve = "leaving"
      /\ link'[c].tcp = link[c].tcp
      /\ link'[c].mux = link[c].mux
      /\ link'[c].pend = link[c].pend
      /\ link'[c].begun = link[c].begun
      /\ link'[c].sess = "done"
      /\ link'[c].dropped = link[c].dropped
      /\ link'[c].refusers = link[c].refusers
      /\ link'[c].flood = link[c].flood
      /\ link'[c].chans = link[c].chans
  BY <1>1, Zenon DEF TLSReturns, With, OnLink, OnLinkCounted, LinkRec, NoLink
<1>4. Counted'
  <2>1. \A d \in SshConns : SameServe(d) /\ SameSession(d) /\ SameRefusers(d)
    BY <1>0, <1>2, <1>3, Zenon DEF SameServe, SameSession, SameRefusers, InSession, Serving, LinkHeld
  <2>2. Goroutines' = Goroutines
    BY <1>2, <2>1, CountSame, Zenon
  <2>3. QED
    BY <1>0, <1>2, <2>2, Zenon DEF Counted
<1>5. SrvTypeOK'
  <2>1. link'[c] \in LinkRec
    <3>1. link'[c] = [link[c] EXCEPT !.serve = "leaving", !.sess = "done"]
      BY <1>1, Zenon DEF TLSReturns, With, OnLink, OnLinkCounted, NoLink
    <3>2. TRUE
      BY <1>0, <1>1, <1>3, SrvConstants, Zenon DEF LinkHeld, LinkRec, SrvConstants
    <3>3. QED
      BY <1>1, <3>1, <3>2, Zenon DEF LinkRec
  <2>2. link' = [d \in SshConns |-> link'[d]]
    BY <1>1, Zenon DEF TLSReturns, With, OnLink, OnLinkCounted
  <2>3. link' \in [SshConns -> LinkRec]
    BY <1>1, <1>2, <2>1, <2>2, Zenon
  <2>4. wgc' \in Nat
    BY <1>4, FS_CardinalityType, Zenon DEF Counted
  <2>5. QED
    BY <1>0, <1>2, <1>3, <2>3, <2>4, Zenon DEF SrvTypeOK, LinkRec
<1>6. LinksHeld' /\ AcceptHeld'
  <2>1. LinkHeld(c)'
    BY <1>0, <1>1, <1>2, <1>3, Zenon DEF LinkHeld, LinkRec, Serving, AcceptHeld
  <2>2. ASSUME NEW d \in SshConns, d # c PROVE LinkHeld(d)'
    <3>1. LinkHeld(d)
      BY <1>0, Zenon DEF LinksHeld
    <3>2. QED
      BY <1>0, <1>2, <1>3, <2>2, <3>1, Zenon DEF LinkHeld, AcceptHeld
  <2>3. AcceptHeld'
    BY <1>0, <1>2, <1>3, Zenon DEF AcceptHeld
  <2>4. QED
    BY <2>1, <2>2, <2>3, Zenon DEF LinksHeld
<1>7. QED
  BY <1>4, <1>5, <1>6, Zenon DEF SrvInv

\* ServeConnEnds keeps the invariant.
LEMMA ServeConnEndsKeeps ==
  ASSUME SrvInv, NEW c \in SshConns, ServeConnEnds(c)
  PROVE  SrvInv'
<1>0. SrvTypeOK /\ LinksHeld /\ AcceptHeld /\ Counted /\ LinkHeld(c)
  BY Zenon DEF SrvInv, LinksHeld
<1>1. link \in [SshConns -> LinkRec] /\ link[c] \in LinkRec
  BY <1>0, Zenon DEF SrvTypeOK, LinkRec
<1>2. /\ \A d \in SshConns : d # c => link'[d] = link[d]
      /\ tracked' = tracked \ {c}
      /\ wgc' = wgc - 1
      /\ UNCHANGED <<transport, accept, inAccept, closedSrv, ctxSrv, closerSrv>>
  BY <1>1, Zenon DEF ServeConnEnds, With, OnLink, OnLinkCounted
<1>3. /\ link[c].serve = "leaving"
      /\ link'[c].serve = "done"
      /\ link'[c].tcp = "closed"
      /\ link'[c].mux = link[c].mux
      /\ link'[c].pend = link[c].pend
      /\ link'[c].begun = link[c].begun
      /\ link'[c].sess = link[c].sess
      /\ link'[c].dropped = link[c].dropped
      /\ link'[c].refusers = link[c].refusers
      /\ link'[c].flood = link[c].flood
      /\ link'[c].chans = link[c].chans
  BY <1>1, Zenon DEF ServeConnEnds, With, OnLink, OnLinkCounted, LinkRec, NoLink
<1>4. Counted'
  <2>1. \A d \in SshConns : (d # c => SameServe(d)) /\ SameSession(d) /\ SameRefusers(d)
    BY <1>0, <1>2, <1>3, Zenon DEF SameServe, SameSession, SameRefusers, InSession, Serving, LinkHeld
  <2>2. link[c].serve \in Serving /\ link'[c].serve \notin Serving
    BY <1>0, <1>1, <1>2, <1>3, Zenon DEF InSession, Serving, LinkHeld, LinkRec, AcceptHeld, SrvTypeOK
  <2>3. IsFiniteSet(Goroutines') /\ Cardinality(Goroutines') = Cardinality(Goroutines) - 1
    BY <1>0, <1>2, <2>1, <2>2, CountServeEnds, Zenon DEF Counted
  <2>4. closerSrv # "returned"
    BY <1>0, <1>2, <1>3, NoneLeft, Zenon DEF Serving
  <2>5. QED
    BY <1>0, <1>2, <2>3, <2>4, Zenon DEF Counted
<1>5. SrvTypeOK'
  <2>1. link'[c] \in LinkRec
    <3>1. link'[c] = [link[c] EXCEPT !.serve = "done", !.tcp = "closed"]
      BY <1>1, Zenon DEF ServeConnEnds, With, OnLink, OnLinkCounted, NoLink
    <3>2. TRUE
      BY <1>0, <1>1, <1>3, SrvConstants, Zenon DEF LinkHeld, LinkRec, SrvConstants
    <3>3. QED
      BY <1>1, <3>1, <3>2, Zenon DEF LinkRec
  <2>2. link' = [d \in SshConns |-> link'[d]]
    BY <1>1, Zenon DEF ServeConnEnds, With, OnLink, OnLinkCounted
  <2>3. link' \in [SshConns -> LinkRec]
    BY <1>1, <1>2, <2>1, <2>2, Zenon
  <2>4. wgc' \in Nat
    BY <1>4, FS_CardinalityType, Zenon DEF Counted
  <2>5. QED
    BY <1>0, <1>2, <1>3, <2>3, <2>4, Zenon DEF SrvTypeOK, LinkRec
<1>6. LinksHeld' /\ AcceptHeld'
  <2>1. LinkHeld(c)'
    BY <1>0, <1>1, <1>2, <1>3, Zenon DEF LinkHeld, LinkRec, Serving, AcceptHeld
  <2>2. ASSUME NEW d \in SshConns, d # c PROVE LinkHeld(d)'
    <3>1. LinkHeld(d)
      BY <1>0, Zenon DEF LinksHeld
    <3>2. QED
      BY <1>0, <1>2, <1>3, <2>2, <3>1, Zenon DEF LinkHeld, AcceptHeld
  <2>3. AcceptHeld'
    BY <1>0, <1>2, <1>3, Zenon DEF AcceptHeld
  <2>4. QED
    BY <2>1, <2>2, <2>3, Zenon DEF LinksHeld
<1>7. QED
  BY <1>4, <1>5, <1>6, Zenon DEF SrvInv

\* SessionEnds keeps the invariant.
LEMMA SessionEndsKeeps ==
  ASSUME SrvInv, NEW c \in SshConns, SessionEnds(c)
  PROVE  SrvInv'
<1>0. SrvTypeOK /\ LinksHeld /\ AcceptHeld /\ Counted /\ LinkHeld(c)
  BY Zenon DEF SrvInv, LinksHeld
<1>1. link \in [SshConns -> LinkRec] /\ link[c] \in LinkRec
  BY <1>0, Zenon DEF SrvTypeOK, LinkRec
<1>2. /\ \A d \in SshConns : d # c => link'[d] = link[d]
      /\ UNCHANGED <<transport, accept, inAccept, tracked, closedSrv, ctxSrv, wgc, closerSrv>>
  BY <1>1, Zenon DEF SessionEnds, With, OnLink, OnLinkCounted
<1>3. /\ link[c].sess = "run"
      /\ link'[c].serve = link[c].serve
      /\ link'[c].tcp = "closed"
      /\ link'[c].mux = link[c].mux
      /\ link'[c].pend = link[c].pend
      /\ link'[c].begun = link[c].begun
      /\ link'[c].sess = "end"
      /\ link'[c].dropped = link[c].dropped
      /\ link'[c].refusers = link[c].refusers
      /\ link'[c].flood = link[c].flood
      /\ link'[c].chans = link[c].chans
  BY <1>1, Zenon DEF SessionEnds, With, OnLink, OnLinkCounted, LinkRec, NoLink
<1>4. Counted'
  <2>1. \A d \in SshConns : SameServe(d) /\ SameSession(d) /\ SameRefusers(d)
    BY <1>0, <1>2, <1>3, Zenon DEF SameServe, SameSession, SameRefusers, InSession, Serving, LinkHeld
  <2>2. Goroutines' = Goroutines
    BY <1>2, <2>1, CountSame, Zenon
  <2>3. QED
    BY <1>0, <1>2, <2>2, Zenon DEF Counted
<1>5. SrvTypeOK'
  <2>1. link'[c] \in LinkRec
    <3>1. link'[c] = [link[c] EXCEPT !.sess = "end", !.tcp = "closed"]
      BY <1>1, Zenon DEF SessionEnds, With, OnLink, OnLinkCounted, NoLink
    <3>2. TRUE
      BY <1>0, <1>1, <1>3, SrvConstants, Zenon DEF LinkHeld, LinkRec, SrvConstants
    <3>3. QED
      BY <1>1, <3>1, <3>2, Zenon DEF LinkRec
  <2>2. link' = [d \in SshConns |-> link'[d]]
    BY <1>1, Zenon DEF SessionEnds, With, OnLink, OnLinkCounted
  <2>3. link' \in [SshConns -> LinkRec]
    BY <1>1, <1>2, <2>1, <2>2, Zenon
  <2>4. wgc' \in Nat
    BY <1>4, FS_CardinalityType, Zenon DEF Counted
  <2>5. QED
    BY <1>0, <1>2, <1>3, <2>3, <2>4, Zenon DEF SrvTypeOK, LinkRec
<1>6. LinksHeld' /\ AcceptHeld'
  <2>1. LinkHeld(c)'
    BY <1>0, <1>1, <1>2, <1>3, Zenon DEF LinkHeld, LinkRec, Serving, AcceptHeld
  <2>2. ASSUME NEW d \in SshConns, d # c PROVE LinkHeld(d)'
    <3>1. LinkHeld(d)
      BY <1>0, Zenon DEF LinksHeld
    <3>2. QED
      BY <1>0, <1>2, <1>3, <2>2, <3>1, Zenon DEF LinkHeld, AcceptHeld
  <2>3. AcceptHeld'
    BY <1>0, <1>2, <1>3, Zenon DEF AcceptHeld
  <2>4. QED
    BY <2>1, <2>2, <2>3, Zenon DEF LinksHeld
<1>7. QED
  BY <1>4, <1>5, <1>6, Zenon DEF SrvInv

\* SessionDone keeps the invariant.
LEMMA SessionDoneKeeps ==
  ASSUME SrvInv, NEW c \in SshConns, SessionDone(c)
  PROVE  SrvInv'
<1>0. SrvTypeOK /\ LinksHeld /\ AcceptHeld /\ Counted /\ LinkHeld(c)
  BY Zenon DEF SrvInv, LinksHeld
<1>1. link \in [SshConns -> LinkRec] /\ link[c] \in LinkRec
  BY <1>0, Zenon DEF SrvTypeOK, LinkRec
<1>2. /\ \A d \in SshConns : d # c => link'[d] = link[d]
      /\ wgc' = wgc - 1
      /\ UNCHANGED <<transport, accept, inAccept, tracked, closedSrv, ctxSrv, closerSrv>>
  BY <1>1, Zenon DEF SessionDone, With, OnLink, OnLinkCounted
<1>3. /\ link[c].sess = "end"
      /\ link[c].serve # "tls"
      /\ link'[c].serve = link[c].serve
      /\ link'[c].tcp = link[c].tcp
      /\ link'[c].mux = link[c].mux
      /\ link'[c].pend = link[c].pend
      /\ link'[c].begun = link[c].begun
      /\ link'[c].sess = "done"
      /\ link'[c].dropped = link[c].dropped
      /\ link'[c].refusers = link[c].refusers
      /\ link'[c].flood = link[c].flood
      /\ link'[c].chans = link[c].chans
  BY <1>1, Zenon DEF SessionDone, With, OnLink, OnLinkCounted, LinkRec, NoLink
<1>4. Counted'
  <2>1. \A d \in SshConns : SameServe(d) /\ (d # c => SameSession(d)) /\ SameRefusers(d)
    BY <1>0, <1>2, <1>3, Zenon DEF SameServe, SameSession, SameRefusers, InSession, Serving, LinkHeld
  <2>2. InSession(c) /\ ~InSession(c)'
    BY <1>0, <1>1, <1>2, <1>3, Zenon DEF InSession, Serving, LinkHeld, LinkRec, AcceptHeld, SrvTypeOK
  <2>3. IsFiniteSet(Goroutines') /\ Cardinality(Goroutines') = Cardinality(Goroutines) - 1
    BY <1>0, <1>2, <2>1, <2>2, CountSessionEnds, Zenon DEF Counted
  <2>4. closerSrv # "returned"
    BY <1>0, <1>2, <1>3, NoneLeft, Zenon DEF InSession
  <2>5. QED
    BY <1>0, <1>2, <2>3, <2>4, Zenon DEF Counted
<1>5. SrvTypeOK'
  <2>1. link'[c] \in LinkRec
    <3>1. link'[c] = [link[c] EXCEPT !.sess = "done"]
      BY <1>1, Zenon DEF SessionDone, With, OnLink, OnLinkCounted, NoLink
    <3>2. TRUE
      BY <1>0, <1>1, <1>3, SrvConstants, Zenon DEF LinkHeld, LinkRec, SrvConstants
    <3>3. QED
      BY <1>1, <3>1, <3>2, Zenon DEF LinkRec
  <2>2. link' = [d \in SshConns |-> link'[d]]
    BY <1>1, Zenon DEF SessionDone, With, OnLink, OnLinkCounted
  <2>3. link' \in [SshConns -> LinkRec]
    BY <1>1, <1>2, <2>1, <2>2, Zenon
  <2>4. wgc' \in Nat
    BY <1>4, FS_CardinalityType, Zenon DEF Counted
  <2>5. QED
    BY <1>0, <1>2, <1>3, <2>3, <2>4, Zenon DEF SrvTypeOK, LinkRec
<1>6. LinksHeld' /\ AcceptHeld'
  <2>1. LinkHeld(c)'
    BY <1>0, <1>1, <1>2, <1>3, Zenon DEF LinkHeld, LinkRec, Serving, AcceptHeld
  <2>2. ASSUME NEW d \in SshConns, d # c PROVE LinkHeld(d)'
    <3>1. LinkHeld(d)
      BY <1>0, Zenon DEF LinksHeld
    <3>2. QED
      BY <1>0, <1>2, <1>3, <2>2, <3>1, Zenon DEF LinkHeld, AcceptHeld
  <2>3. AcceptHeld'
    BY <1>0, <1>2, <1>3, Zenon DEF AcceptHeld
  <2>4. QED
    BY <2>1, <2>2, <2>3, Zenon DEF LinksHeld
<1>7. QED
  BY <1>4, <1>5, <1>6, Zenon DEF SrvInv

\* Refuses keeps the invariant.
LEMMA RefusesKeeps ==
  ASSUME SrvInv, NEW c \in SshConns, Refuses(c)
  PROVE  SrvInv'
<1>0. SrvTypeOK /\ LinksHeld /\ AcceptHeld /\ Counted /\ LinkHeld(c)
  BY Zenon DEF SrvInv, LinksHeld
<1>1. link \in [SshConns -> LinkRec] /\ link[c] \in LinkRec
  BY <1>0, Zenon DEF SrvTypeOK, LinkRec
<1>2. /\ \A d \in SshConns : d # c => link'[d] = link[d]
      /\ UNCHANGED <<transport, accept, inAccept, tracked, closedSrv, ctxSrv, wgc, closerSrv>>
  BY <1>1, Zenon DEF Refuses, With, OnLink, OnLinkCounted
<1>3. /\ link'[c].serve = link[c].serve
      /\ link'[c].tcp = link[c].tcp
      /\ link'[c].mux = link[c].mux
      /\ link'[c].pend = link[c].pend
      /\ link'[c].begun = link[c].begun
      /\ link'[c].sess = link[c].sess
      /\ link'[c].dropped = link[c].dropped
      /\ link'[c].refusers = link[c].refusers
      /\ link'[c].flood <=> FALSE
      /\ link'[c].chans = link[c].chans
  BY <1>1, Zenon DEF Refuses, With, OnLink, OnLinkCounted, LinkRec, NoLink
<1>4. Counted'
  <2>1. \A d \in SshConns : SameServe(d) /\ SameSession(d) /\ SameRefusers(d)
    BY <1>0, <1>2, <1>3, Zenon DEF SameServe, SameSession, SameRefusers, InSession, Serving, LinkHeld
  <2>2. Goroutines' = Goroutines
    BY <1>2, <2>1, CountSame, Zenon
  <2>3. QED
    BY <1>0, <1>2, <2>2, Zenon DEF Counted
<1>5. SrvTypeOK'
  <2>1. link'[c] \in LinkRec
    <3>1. link'[c] = [link[c] EXCEPT !.flood = FALSE]
      BY <1>1, Zenon DEF Refuses, With, OnLink, OnLinkCounted, NoLink
    <3>2. TRUE
      BY <1>0, <1>1, <1>3, SrvConstants, Zenon DEF LinkHeld, LinkRec, SrvConstants
    <3>3. QED
      BY <1>1, <3>1, <3>2, Zenon DEF LinkRec
  <2>2. link' = [d \in SshConns |-> link'[d]]
    BY <1>1, Zenon DEF Refuses, With, OnLink, OnLinkCounted
  <2>3. link' \in [SshConns -> LinkRec]
    BY <1>1, <1>2, <2>1, <2>2, Zenon
  <2>4. wgc' \in Nat
    BY <1>4, FS_CardinalityType, Zenon DEF Counted
  <2>5. QED
    BY <1>0, <1>2, <1>3, <2>3, <2>4, Zenon DEF SrvTypeOK, LinkRec
<1>6. LinksHeld' /\ AcceptHeld'
  <2>1. LinkHeld(c)'
    BY <1>0, <1>1, <1>2, <1>3, Zenon DEF LinkHeld, LinkRec, Serving, AcceptHeld
  <2>2. ASSUME NEW d \in SshConns, d # c PROVE LinkHeld(d)'
    <3>1. LinkHeld(d)
      BY <1>0, Zenon DEF LinksHeld
    <3>2. QED
      BY <1>0, <1>2, <1>3, <2>2, <3>1, Zenon DEF LinkHeld, AcceptHeld
  <2>3. AcceptHeld'
    BY <1>0, <1>2, <1>3, Zenon DEF AcceptHeld
  <2>4. QED
    BY <2>1, <2>2, <2>3, Zenon DEF LinksHeld
<1>7. QED
  BY <1>4, <1>5, <1>6, Zenon DEF SrvInv

\* RefuserEnds keeps the invariant.
LEMMA RefuserEndsKeeps ==
  ASSUME SrvInv, NEW c \in SshConns, RefuserEnds(c)
  PROVE  SrvInv'
<1>0. SrvTypeOK /\ LinksHeld /\ AcceptHeld /\ Counted /\ LinkHeld(c)
  BY Zenon DEF SrvInv, LinksHeld
<1>1. link \in [SshConns -> LinkRec] /\ link[c] \in LinkRec
  BY <1>0, Zenon DEF SrvTypeOK, LinkRec
<1>2. /\ \A d \in SshConns : d # c => link'[d] = link[d]
      /\ wgc' = wgc - 1
      /\ UNCHANGED <<transport, accept, inAccept, tracked, closedSrv, ctxSrv, closerSrv>>
  BY <1>1, Zenon DEF RefuserEnds, With, OnLink, OnLinkCounted
<1>3. /\ link[c].refusers > 0
      /\ link'[c].serve = link[c].serve
      /\ link'[c].tcp = link[c].tcp
      /\ link'[c].mux = link[c].mux
      /\ link'[c].pend = link[c].pend
      /\ link'[c].begun = link[c].begun
      /\ link'[c].sess = link[c].sess
      /\ link'[c].dropped = link[c].dropped - 1
      /\ link'[c].refusers = link[c].refusers - 1
      /\ link'[c].flood = link[c].flood
      /\ link'[c].chans = link[c].chans
  BY <1>1, Zenon DEF RefuserEnds, With, OnLink, OnLinkCounted, LinkRec, NoLink
<1>4. Counted'
  <2>1. \A d \in SshConns : SameServe(d) /\ SameSession(d) /\ (d # c => SameRefusers(d))
    BY <1>0, <1>2, <1>3, Zenon DEF SameServe, SameSession, SameRefusers, InSession, Serving, LinkHeld
  <2>2. link[c].refusers \in Nat \ {0} /\ link'[c].refusers = link[c].refusers - 1
    BY <1>0, <1>1, <1>2, <1>3 DEF InSession, Serving, LinkHeld, LinkRec, AcceptHeld, SrvTypeOK
  <2>3. IsFiniteSet(Goroutines') /\ Cardinality(Goroutines') = Cardinality(Goroutines) - 1
    BY <1>0, <1>2, <2>1, <2>2, CountRefuserEnds, Zenon DEF Counted
  <2>4. closerSrv # "returned"
    BY <1>0, <1>2, <1>3, NoneLeft DEF LinkRec
  <2>5. QED
    BY <1>0, <1>2, <2>3, <2>4, Zenon DEF Counted
<1>5. SrvTypeOK'
  <2>1. link'[c] \in LinkRec
    <3>1. link'[c] = [link[c] EXCEPT !.refusers = link[c].refusers - 1,
          !.dropped = link[c].dropped - 1]
      BY <1>1, Zenon DEF RefuserEnds, With, OnLink, OnLinkCounted, NoLink
    <3>2. link[c].dropped - 1 \in 0 .. MaxChannels /\ link[c].refusers - 1 \in 0 .. MaxChannels
      BY <1>0, <1>1, <1>3, SrvConstants DEF LinkHeld, LinkRec, SrvConstants
    <3>3. QED
      BY <1>1, <3>1, <3>2, Zenon DEF LinkRec
  <2>2. link' = [d \in SshConns |-> link'[d]]
    BY <1>1, Zenon DEF RefuserEnds, With, OnLink, OnLinkCounted
  <2>3. link' \in [SshConns -> LinkRec]
    BY <1>1, <1>2, <2>1, <2>2, Zenon
  <2>4. wgc' \in Nat
    BY <1>4, FS_CardinalityType, Zenon DEF Counted
  <2>5. QED
    BY <1>0, <1>2, <1>3, <2>3, <2>4, Zenon DEF SrvTypeOK, LinkRec
<1>6. LinksHeld' /\ AcceptHeld'
  <2>1. LinkHeld(c)'
    BY <1>0, <1>1, <1>2, <1>3 DEF LinkHeld, LinkRec, Serving, AcceptHeld
  <2>2. ASSUME NEW d \in SshConns, d # c PROVE LinkHeld(d)'
    <3>1. LinkHeld(d)
      BY <1>0, Zenon DEF LinksHeld
    <3>2. QED
      BY <1>0, <1>2, <1>3, <2>2, <3>1, Zenon DEF LinkHeld, AcceptHeld
  <2>3. AcceptHeld'
    BY <1>0, <1>2, <1>3, Zenon DEF AcceptHeld
  <2>4. QED
    BY <2>1, <2>2, <2>3, Zenon DEF LinksHeld
<1>7. QED
  BY <1>4, <1>5, <1>6, Zenon DEF SrvInv

\* Floods keeps the invariant.
LEMMA FloodsKeeps ==
  ASSUME SrvInv, NEW c \in SshConns, Floods(c)
  PROVE  SrvInv'
<1>0. SrvTypeOK /\ LinksHeld /\ AcceptHeld /\ Counted /\ LinkHeld(c)
  BY Zenon DEF SrvInv, LinksHeld
<1>1. link \in [SshConns -> LinkRec] /\ link[c] \in LinkRec
  BY <1>0, Zenon DEF SrvTypeOK, LinkRec
<1>2. /\ \A d \in SshConns : d # c => link'[d] = link[d]
      /\ UNCHANGED <<transport, accept, inAccept, tracked, closedSrv, ctxSrv, wgc, closerSrv>>
  BY <1>1, Zenon DEF Floods, With, OnLink, OnLinkCounted
<1>3. /\ link'[c].serve = link[c].serve
      /\ link'[c].tcp = link[c].tcp
      /\ link'[c].mux = link[c].mux
      /\ link'[c].pend = link[c].pend
      /\ link'[c].begun = link[c].begun
      /\ link'[c].sess = link[c].sess
      /\ link'[c].dropped = link[c].dropped
      /\ link'[c].refusers = link[c].refusers
      /\ link'[c].flood <=> TRUE
      /\ link'[c].chans = link[c].chans
  BY <1>1, Zenon DEF Floods, With, OnLink, OnLinkCounted, LinkRec, NoLink
<1>4. Counted'
  <2>1. \A d \in SshConns : SameServe(d) /\ SameSession(d) /\ SameRefusers(d)
    BY <1>0, <1>2, <1>3, Zenon DEF SameServe, SameSession, SameRefusers, InSession, Serving, LinkHeld
  <2>2. Goroutines' = Goroutines
    BY <1>2, <2>1, CountSame, Zenon
  <2>3. QED
    BY <1>0, <1>2, <2>2, Zenon DEF Counted
<1>5. SrvTypeOK'
  <2>1. link'[c] \in LinkRec
    <3>1. link'[c] = [link[c] EXCEPT !.flood = TRUE]
      BY <1>1, Zenon DEF Floods, With, OnLink, OnLinkCounted, NoLink
    <3>2. TRUE
      BY <1>0, <1>1, <1>3, SrvConstants, Zenon DEF LinkHeld, LinkRec, SrvConstants
    <3>3. QED
      BY <1>1, <3>1, <3>2, Zenon DEF LinkRec
  <2>2. link' = [d \in SshConns |-> link'[d]]
    BY <1>1, Zenon DEF Floods, With, OnLink, OnLinkCounted
  <2>3. link' \in [SshConns -> LinkRec]
    BY <1>1, <1>2, <2>1, <2>2, Zenon
  <2>4. wgc' \in Nat
    BY <1>4, FS_CardinalityType, Zenon DEF Counted
  <2>5. QED
    BY <1>0, <1>2, <1>3, <2>3, <2>4, Zenon DEF SrvTypeOK, LinkRec
<1>6. LinksHeld' /\ AcceptHeld'
  <2>1. LinkHeld(c)'
    BY <1>0, <1>1, <1>2, <1>3, Zenon DEF LinkHeld, LinkRec, Serving, AcceptHeld
  <2>2. ASSUME NEW d \in SshConns, d # c PROVE LinkHeld(d)'
    <3>1. LinkHeld(d)
      BY <1>0, Zenon DEF LinksHeld
    <3>2. QED
      BY <1>0, <1>2, <1>3, <2>2, <3>1, Zenon DEF LinkHeld, AcceptHeld
  <2>3. AcceptHeld'
    BY <1>0, <1>2, <1>3, Zenon DEF AcceptHeld
  <2>4. QED
    BY <2>1, <2>2, <2>3, Zenon DEF LinksHeld
<1>7. QED
  BY <1>4, <1>5, <1>6, Zenon DEF SrvInv

\* ClientCloses keeps the invariant.
LEMMA ClientClosesKeeps ==
  ASSUME SrvInv, NEW c \in SshConns, ClientCloses(c)
  PROVE  SrvInv'
<1>0. SrvTypeOK /\ LinksHeld /\ AcceptHeld /\ Counted /\ LinkHeld(c)
  BY Zenon DEF SrvInv, LinksHeld
<1>1. link \in [SshConns -> LinkRec] /\ link[c] \in LinkRec
  BY <1>0, Zenon DEF SrvTypeOK, LinkRec
<1>2. /\ \A d \in SshConns : d # c => link'[d] = link[d]
      /\ UNCHANGED <<transport, accept, inAccept, tracked, closedSrv, ctxSrv, wgc, closerSrv>>
  BY <1>1, Zenon DEF ClientCloses, With, OnLink, OnLinkCounted
<1>3. /\ link'[c].serve = link[c].serve
      /\ link'[c].tcp = "closed"
      /\ link'[c].mux = link[c].mux
      /\ link'[c].pend = link[c].pend
      /\ link'[c].begun = link[c].begun
      /\ link'[c].sess = link[c].sess
      /\ link'[c].dropped = link[c].dropped
      /\ link'[c].refusers = link[c].refusers
      /\ link'[c].flood = link[c].flood
      /\ link'[c].chans = link[c].chans
  BY <1>1, Zenon DEF ClientCloses, With, OnLink, OnLinkCounted, LinkRec, NoLink
<1>4. Counted'
  <2>1. \A d \in SshConns : SameServe(d) /\ SameSession(d) /\ SameRefusers(d)
    BY <1>0, <1>2, <1>3, Zenon DEF SameServe, SameSession, SameRefusers, InSession, Serving, LinkHeld
  <2>2. Goroutines' = Goroutines
    BY <1>2, <2>1, CountSame, Zenon
  <2>3. QED
    BY <1>0, <1>2, <2>2, Zenon DEF Counted
<1>5. SrvTypeOK'
  <2>1. link'[c] \in LinkRec
    <3>1. link'[c] = [link[c] EXCEPT !.tcp = "closed"]
      BY <1>1, Zenon DEF ClientCloses, With, OnLink, OnLinkCounted, NoLink
    <3>2. TRUE
      BY <1>0, <1>1, <1>3, SrvConstants, Zenon DEF LinkHeld, LinkRec, SrvConstants
    <3>3. QED
      BY <1>1, <3>1, <3>2, Zenon DEF LinkRec
  <2>2. link' = [d \in SshConns |-> link'[d]]
    BY <1>1, Zenon DEF ClientCloses, With, OnLink, OnLinkCounted
  <2>3. link' \in [SshConns -> LinkRec]
    BY <1>1, <1>2, <2>1, <2>2, Zenon
  <2>4. wgc' \in Nat
    BY <1>4, FS_CardinalityType, Zenon DEF Counted
  <2>5. QED
    BY <1>0, <1>2, <1>3, <2>3, <2>4, Zenon DEF SrvTypeOK, LinkRec
<1>6. LinksHeld' /\ AcceptHeld'
  <2>1. LinkHeld(c)'
    BY <1>0, <1>1, <1>2, <1>3, Zenon DEF LinkHeld, LinkRec, Serving, AcceptHeld
  <2>2. ASSUME NEW d \in SshConns, d # c PROVE LinkHeld(d)'
    <3>1. LinkHeld(d)
      BY <1>0, Zenon DEF LinksHeld
    <3>2. QED
      BY <1>0, <1>2, <1>3, <2>2, <3>1, Zenon DEF LinkHeld, AcceptHeld
  <2>3. AcceptHeld'
    BY <1>0, <1>2, <1>3, Zenon DEF AcceptHeld
  <2>4. QED
    BY <2>1, <2>2, <2>3, Zenon DEF LinksHeld
<1>7. QED
  BY <1>4, <1>5, <1>6, Zenon DEF SrvInv

\* MuxEnds keeps the invariant.
LEMMA MuxEndsKeeps ==
  ASSUME SrvInv, NEW c \in SshConns, MuxEnds(c)
  PROVE  SrvInv'
<1>0. SrvTypeOK /\ LinksHeld /\ AcceptHeld /\ Counted /\ LinkHeld(c)
  BY Zenon DEF SrvInv, LinksHeld
<1>1. link \in [SshConns -> LinkRec] /\ link[c] \in LinkRec
  BY <1>0, Zenon DEF SrvTypeOK, LinkRec
<1>2. /\ \A d \in SshConns : d # c => link'[d] = link[d]
      /\ UNCHANGED <<transport, accept, inAccept, tracked, closedSrv, ctxSrv, wgc, closerSrv>>
  BY <1>1, Zenon DEF MuxEnds, With, OnLink, OnLinkCounted
<1>3. /\ link'[c].serve = link[c].serve
      /\ link'[c].tcp = link[c].tcp
      /\ link'[c].mux <=> FALSE
      /\ link'[c].pend = link[c].pend
      /\ link'[c].begun = link[c].begun
      /\ link'[c].sess = link[c].sess
      /\ link'[c].dropped = link[c].dropped
      /\ link'[c].refusers = link[c].refusers
      /\ link'[c].flood = link[c].flood
      /\ link'[c].chans = link[c].chans
  BY <1>1, Zenon DEF MuxEnds, With, OnLink, OnLinkCounted, LinkRec, NoLink
<1>4. Counted'
  <2>1. \A d \in SshConns : SameServe(d) /\ SameSession(d) /\ SameRefusers(d)
    BY <1>0, <1>2, <1>3, Zenon DEF SameServe, SameSession, SameRefusers, InSession, Serving, LinkHeld
  <2>2. Goroutines' = Goroutines
    BY <1>2, <2>1, CountSame, Zenon
  <2>3. QED
    BY <1>0, <1>2, <2>2, Zenon DEF Counted
<1>5. SrvTypeOK'
  <2>1. link'[c] \in LinkRec
    <3>1. link'[c] = [link[c] EXCEPT !.mux = FALSE]
      BY <1>1, Zenon DEF MuxEnds, With, OnLink, OnLinkCounted, NoLink
    <3>2. TRUE
      BY <1>0, <1>1, <1>3, SrvConstants, Zenon DEF LinkHeld, LinkRec, SrvConstants
    <3>3. QED
      BY <1>1, <3>1, <3>2, Zenon DEF LinkRec
  <2>2. link' = [d \in SshConns |-> link'[d]]
    BY <1>1, Zenon DEF MuxEnds, With, OnLink, OnLinkCounted
  <2>3. link' \in [SshConns -> LinkRec]
    BY <1>1, <1>2, <2>1, <2>2, Zenon
  <2>4. wgc' \in Nat
    BY <1>4, FS_CardinalityType, Zenon DEF Counted
  <2>5. QED
    BY <1>0, <1>2, <1>3, <2>3, <2>4, Zenon DEF SrvTypeOK, LinkRec
<1>6. LinksHeld' /\ AcceptHeld'
  <2>1. LinkHeld(c)'
    BY <1>0, <1>1, <1>2, <1>3, Zenon DEF LinkHeld, LinkRec, Serving, AcceptHeld
  <2>2. ASSUME NEW d \in SshConns, d # c PROVE LinkHeld(d)'
    <3>1. LinkHeld(d)
      BY <1>0, Zenon DEF LinksHeld
    <3>2. QED
      BY <1>0, <1>2, <1>3, <2>2, <3>1, Zenon DEF LinkHeld, AcceptHeld
  <2>3. AcceptHeld'
    BY <1>0, <1>2, <1>3, Zenon DEF AcceptHeld
  <2>4. QED
    BY <2>1, <2>2, <2>3, Zenon DEF LinksHeld
<1>7. QED
  BY <1>4, <1>5, <1>6, Zenon DEF SrvInv
--------------------------------------------------------------------------------
(* Steps of the accept loop and of Close. *)

\* AcceptEnds keeps the invariant.
LEMMA AcceptEndsKeeps ==
  ASSUME SrvInv, AcceptEnds
  PROVE  SrvInv'
<1>0. SrvTypeOK /\ LinksHeld /\ AcceptHeld /\ Counted
  BY Zenon DEF SrvInv
<1>1. /\ accept = "running" /\ inAccept = {} /\ accept' = "stopped" /\ wgc' = wgc - 1
      /\ UNCHANGED <<transport, inAccept, link, tracked, closedSrv, ctxSrv, closerSrv>>
  BY Zenon DEF AcceptEnds
<1>2. Counted'
  <2>1. \A d \in SshConns : SameServe(d) /\ SameSession(d) /\ SameRefusers(d)
    BY <1>1, Zenon DEF SameServe, SameSession, SameRefusers, InSession
  <2>2. IsFiniteSet(Goroutines') /\ Cardinality(Goroutines') = Cardinality(Goroutines) - 1
    BY <1>0, <1>1, <2>1, CountLoopEnds, Zenon DEF Counted
  <2>3. closerSrv # "returned"
    BY <1>1, NoneLeft, Zenon
  <2>4. QED
    BY <1>0, <1>1, <2>2, <2>3, Zenon DEF Counted
<1>3. SrvTypeOK'
  <2>1. wgc' \in Nat
    BY <1>2, FS_CardinalityType, Zenon DEF Counted
  <2>2. QED
    BY <1>0, <1>1, <2>1, Zenon DEF SrvTypeOK
<1>4. LinksHeld' /\ AcceptHeld'
  BY <1>0, <1>1, Zenon DEF LinksHeld, LinkHeld, AcceptHeld
<1>5. QED
  BY <1>2, <1>3, <1>4, Zenon DEF SrvInv

\* A step that touches no connection and no counter keeps their part of the invariant.
LEMMA LinksUntouched ==
  ASSUME SrvInv, UNCHANGED <<accept, inAccept, link, tracked, wgc>>
  PROVE  /\ LinksHeld' /\ AcceptHeld'
         /\ IsFiniteSet(Goroutines') /\ wgc' = Cardinality(Goroutines')
<1>1. LinksHeld' /\ AcceptHeld'
  BY Zenon DEF SrvInv, LinksHeld, LinkHeld, AcceptHeld
<1>2. \A d \in SshConns : SameServe(d) /\ SameSession(d) /\ SameRefusers(d)
  BY Zenon DEF SameServe, SameSession, SameRefusers, InSession
<1>3. Goroutines' = Goroutines
  BY <1>2, CountSame, Zenon
<1>4. QED
  BY <1>1, <1>3, Zenon DEF SrvInv, Counted

\* The steps of Close that touch no connection keep the invariant.
LEMMA CloseStepKeeps ==
  ASSUME SrvInv, CloseCancelsSrv \/ CloseMarks \/ CloseReturnsSrv
  PROVE  SrvInv'
<1>1. UNCHANGED <<accept, inAccept, link, tracked, wgc, transport>>
  BY Zenon DEF CloseCancelsSrv, CloseMarks, CloseReturnsSrv, CloserTo
<1>2. closerSrv' = "returned" => wgc' = 0
  BY Zenon DEF CloseCancelsSrv, CloseMarks, CloseReturnsSrv, CloserTo
<1>3. closedSrv' \in BOOLEAN /\ ctxSrv' \in BOOLEAN
  BY Zenon DEF SrvInv, SrvTypeOK, CloseCancelsSrv, CloseMarks, CloseReturnsSrv
<1>4. closerSrv' \in {"no", "cancelled", "marked", "waiting", "returned"}
  BY Zenon DEF CloseCancelsSrv, CloseMarks, CloseReturnsSrv, CloserTo
<1>5. SrvTypeOK'
  BY <1>1, <1>3, <1>4, Zenon DEF SrvInv, SrvTypeOK
<1>6. QED
  BY <1>1, <1>2, <1>5, LinksUntouched, Zenon DEF SrvInv, Counted

\* CloseConns keeps the invariant.
LEMMA CloseConnsKeeps ==
  ASSUME SrvInv, CloseConns
  PROVE  SrvInv'
<1>0. SrvTypeOK /\ LinksHeld /\ AcceptHeld /\ Counted
  BY Zenon DEF SrvInv
<1>1. /\ link \in [SshConns -> LinkRec] /\ closerSrv = "marked" /\ closerSrv' = "waiting"
      /\ UNCHANGED <<transport, accept, inAccept, wgc, tracked, closedSrv, ctxSrv>>
  BY <1>0, Zenon DEF SrvTypeOK, LinkRec, CloseConns, CloserTo
<1>2. ASSUME NEW c \in SshConns
      PROVE  /\ link'[c] \in LinkRec /\ link'[c].tcp \in {link[c].tcp, "closed"}
             /\ link'[c].serve = link[c].serve /\ link'[c].mux = link[c].mux
             /\ link'[c].pend = link[c].pend /\ link'[c].begun = link[c].begun
             /\ link'[c].sess = link[c].sess /\ link'[c].dropped = link[c].dropped
             /\ link'[c].refusers = link[c].refusers /\ link'[c].chans = link[c].chans
  <2>1. link'[c] = [link[c] EXCEPT !.tcp = "closed"] \/ link'[c] = link[c]
    BY Zenon DEF CloseConns
  <2>2. link[c] \in LinkRec
    BY <1>1, Zenon
  <2>3. QED
    BY <2>1, <2>2, Zenon DEF LinkRec
<1>3. link' = [c \in SshConns |-> link'[c]]
  BY Zenon DEF CloseConns
<1>4. link' \in [SshConns -> LinkRec]
  BY <1>2, <1>3, Zenon
<1>5. SrvTypeOK'
  BY <1>0, <1>1, <1>4, Zenon DEF SrvTypeOK, LinkRec
<1>6. LinksHeld'
  <2>1. ASSUME NEW c \in SshConns PROVE LinkHeld(c)'
    <3>1. LinkHeld(c)
      BY <1>0, Zenon DEF LinksHeld
    <3>2. link'[c].tcp = "open" => link[c].tcp = "open"
      BY <1>2, Zenon
    <3>3. QED
      BY <1>1, <1>2, <3>1, <3>2, Zenon DEF LinkHeld
  <2>2. QED
    BY <2>1, Zenon DEF LinksHeld
<1>7. AcceptHeld'
  BY <1>0, <1>1, Zenon DEF AcceptHeld
<1>8. Counted'
  <2>1. \A d \in SshConns : SameServe(d) /\ SameSession(d) /\ SameRefusers(d)
    BY <1>2, Zenon DEF SameServe, SameSession, SameRefusers, InSession
  <2>2. Goroutines' = Goroutines
    BY <1>1, <2>1, CountSame, Zenon
  <2>3. QED
    BY <1>0, <1>1, <2>2, Zenon DEF Counted
<1>9. QED
  BY <1>5, <1>6, <1>7, <1>8, Zenon DEF SrvInv

\* The listener starts in the invariant.
LEMMA SrvStarts ==
  ASSUME SrvInit
  PROVE  SrvInv
<1>1. /\ accept = "running" /\ inAccept = {} /\ tracked = {} /\ wgc = 1 /\ closerSrv = "no"
      /\ \A c \in SshConns : link[c] = NoLink
  BY Zenon DEF SrvInit
<1>2. NoLink \in LinkRec
  BY SrvConstants DEF NoLink, LinkRec, SrvConstants
<1>3. SrvTypeOK
  <2>1. link \in [SshConns -> LinkRec]
    BY <1>2, Zenon DEF SrvInit
  <2>2. QED
    BY <2>1, Zenon DEF SrvInit, SrvTypeOK, LinkRec
<1>4. LinksHeld /\ AcceptHeld
  BY <1>1 DEF LinksHeld, LinkHeld, AcceptHeld, NoLink, Serving
<1>5. Goroutines = {AcceptLoop}
  <2>1. \A c \in SshConns : link[c].serve \notin Serving /\ ~InSession(c) /\ link[c].refusers = 0
    BY <1>1 DEF NoLink, Serving, InSession
  <2>2. Loops = {AcceptLoop} /\ ServeConns = {} /\ SessionsRun = {}
    BY <1>1, <2>1, Zenon DEF Loops, ServeConns, SessionsRun
  <2>3. Refusers = {}
    BY <2>1, RefusersAre
  <2>4. QED
    BY <2>2, <2>3, Zenon DEF Goroutines
<1>6. Counted
  BY <1>1, <1>5, FS_Singleton, Zenon DEF Counted
<1>7. QED
  BY <1>3, <1>4, <1>6, Zenon DEF SrvInv

\* Every step of the listener keeps its invariant.
LEMMA SrvStepKeeps ==
  ASSUME SrvInv, [SrvNext]_srvVars
  PROVE  SrvInv'
<1>1. CASE AcceptEnds
  BY <1>1, AcceptEndsKeeps, Zenon
<1>2. CASE Closing
  BY <1>2, CloseStepKeeps, CloseConnsKeeps, Zenon DEF Closing
<1>3. ASSUME NEW c \in SshConns, Proceeds(c) PROVE SrvInv'
  BY <1>3, TrackKeeps, TrackLateKeeps, DispatchReturnsKeeps, TLSReturnsKeeps, ServeConnEndsKeeps,
     SessionDoneKeeps, RefusesKeeps, MuxEndsKeeps, HandshakeFailsKeeps, SessionEndsKeeps,
     RefuserEndsKeeps, Zenon DEF Proceeds
<1>4. ASSUME NEW c \in SshConns, Handshake(c) PROVE SrvInv'
  <2>1. HandshakeSSH(c) \/ HandshakeTLS(c) \/ HandshakeFails(c)
    BY <1>4, Zenon DEF Handshake, HandshakeSSH, HandshakeTLS, HandshakeFails
  <2>2. QED
    BY <2>1, HandshakeSSHKeeps, HandshakeTLSKeeps, HandshakeFailsKeeps, Zenon
<1>5. ASSUME NEW c \in SshConns, ClientActs(c) PROVE SrvInv'
  BY <1>4, <1>5, AcceptKeeps, HandshakeFailsKeeps, ChannelOpensKeeps, ChannelOpensAgainKeeps,
     SubsystemKeeps, WaitFiresKeeps, PendingClosesKeeps, SessionEndsKeeps, RefuserEndsKeeps,
     FloodsKeeps, ClientClosesKeeps, Zenon DEF ClientActs
<1>6. CASE UNCHANGED srvVars
  <2>1. UNCHANGED <<accept, inAccept, link, tracked, wgc, transport, closedSrv, ctxSrv, closerSrv>>
    BY <1>6, Zenon DEF srvVars
  <2>2. SrvTypeOK' /\ (closerSrv' = "returned" => wgc' = 0)
    BY <2>1, Zenon DEF SrvInv, SrvTypeOK, Counted
  <2>3. QED
    BY <2>1, <2>2, LinksUntouched, Zenon DEF SrvInv, Counted
<1>7. QED
  BY <1>1, <1>2, <1>3, <1>5, <1>6, Zenon DEF SrvNext

\* The server's part of NetconfServersKept.
LEMMA ServerAlwaysKept == SrvSpec => [](SrvTypeOK /\ OneSessionPerConn /\ CloseLeavesNothing)
<1>1. SrvInit => SrvInv
  BY SrvStarts, Zenon
<1>2. SrvInv /\ [SrvNext]_srvVars => SrvInv'
  BY SrvStepKeeps, Zenon
<1>3. ASSUME SrvInv PROVE SrvTypeOK /\ OneSessionPerConn /\ CloseLeavesNothing
  <2>1. SrvTypeOK /\ OneSessionPerConn
    BY <1>3, Zenon DEF SrvInv, LinksHeld, LinkHeld, OneSessionPerConn
  <2>2. CloseLeavesNothing
    <3>1. SUFFICES ASSUME closerSrv = "returned"
                   PROVE  /\ accept = "stopped" /\ inAccept = {} /\ tracked = {}
                          /\ \A c \in SshConns :
                               /\ link[c].serve \in {"none", "done"} /\ link[c].sess \in {"none",
                                  "done"}
                               /\ link[c].refusers = 0 /\ link[c].tcp = "closed"
      BY Zenon DEF CloseLeavesNothing
    <3>2. /\ accept = "stopped"
          /\ \A c \in SshConns : link[c].serve \notin Serving /\ ~InSession(c) /\ link[c].refusers = 0
      BY <1>3, <3>1, NoneLeft, Zenon
    <3>3. inAccept = {}
      BY <1>3, <3>2, Zenon DEF SrvInv, AcceptHeld
    <3>4. tracked = {}
      BY <1>3, <3>2, Zenon DEF SrvInv, SrvTypeOK, LinksHeld, LinkHeld
    <3>5. ASSUME NEW c \in SshConns
          PROVE  /\ link[c].serve \in {"none", "done"} /\ link[c].sess \in {"none", "done"}
                 /\ link[c].tcp = "closed"
      <4>1. link[c].serve \in {"none", "done"}
        BY <1>3, <3>2, Zenon DEF SrvInv, SrvTypeOK, Serving
      <4>2. link[c].sess \in {"none", "done"}
        BY <1>3, <3>2, <4>1, Zenon DEF SrvInv, SrvTypeOK, InSession
      <4>3. link[c].tcp = "closed"
        BY <1>3, <3>2, <3>3, Zenon DEF SrvInv, SrvTypeOK, LinksHeld, LinkHeld
      <4>4. QED
        BY <4>1, <4>2, <4>3, Zenon
    <3>6. QED
      BY <3>2, <3>3, <3>4, <3>5, Zenon
  <2>3. QED
    BY <2>1, <2>2, Zenon
<1>4. QED
  BY <1>1, <1>2, <1>3, PTL DEF SrvSpec
--------------------------------------------------------------------------------
(* Arithmetic of the grid and of the keepalive. *)

\* Division brackets its dividend.
LEMMA DivBounds ==
  ASSUME NEW a \in Nat, NEW c \in Nat \ {0}
  PROVE  a \div c \in Nat /\ c * (a \div c) <= a /\ a < c * (a \div c) + c
OBVIOUS

\* A multiple of the cycle is on the grid.
LEMMA GridPoint ==
  ASSUME NEW k \in Nat, NEW c \in Nat \ {0}
  PROVE  (k * c) % c = 0
OBVIOUS

\* A point of the grid that has passed is at most the number of whole cycles.
LEMMA Below ==
  ASSUME NEW a \in Nat, NEW c \in Nat \ {0}, NEW k \in Nat, k * c <= a
  PROVE  k <= a \div c
<1>1. PICK q \in Nat : q = a \div c
  BY DivBounds, Zenon
<1>2. a < c * q + c
  BY <1>1, DivBounds, Zenon
<1>3. k * c < (q + 1) * c
  BY <1>1, <1>2
<1>4. k < q + 1
  BY <1>3
<1>5. QED
  BY <1>1, <1>4

\* The number of whole cycles does not fall as time passes.
LEMMA DivGrows ==
  ASSUME NEW a \in Nat, NEW b \in Nat, NEW c \in Nat \ {0}, a <= b
  PROVE  a \div c <= b \div c
<1>1. PICK q \in Nat : q = a \div c
  BY DivBounds, Zenon
<1>2. q * c <= b
  BY <1>1, DivBounds
<1>3. QED
  BY <1>1, <1>2, Below, Zenon

\* Products with the keepalive period are monotone and distribute.
LEMMA Scaled ==
  ASSUME NEW m \in Nat, NEW n \in Nat, NEW k \in Nat
  PROVE  /\ m <= n => m * k <= n * k
         /\ (m + 1) * k = m * k + k
OBVIOUS
--------------------------------------------------------------------------------
(* Steps of call home. *)

AggRec == [attempts : Nat, failures : Nat, handshakes : Nat, ended : Nat]

\* What an attempt that is over leaves: the loop ended, or the timer at a later point
\* of the grid.
LEMMA OverArms ==
  ASSUME ChInv, phaseCh \in Busy, Over
  PROVE  /\ phaseCh' \in {"wait", "ended"} /\ (phaseCh' = "ended" => due' = Never)
         /\ due' \in Nat \cup {Never}
         /\ due' # Never => \E k \in Nat : due' = anchor + k * Cycle /\ agg.attempts <= k
<1>0. ChTypeOK /\ LoopHeld /\ GridHeld
  BY Zenon DEF ChInv
<1>1. anchor # NoAnchor /\ due = Never
  BY <1>0, Zenon DEF LoopHeld, Busy
<1>2. anchor \in Nat /\ nowCh \in Nat /\ nowCh - anchor \in Nat /\ Cycle \in Nat \ {0}
      /\ agg.attempts \in Nat
  BY <1>0, <1>1, CallHomeConstants DEF ChTypeOK, GridHeld, CallHomeConstants, NoAnchor
<1>3. PICK q \in Nat : q = (nowCh - anchor) \div Cycle
  BY <1>2, DivBounds, Zenon
<1>4. agg.attempts <= q + 1
  BY <1>0, <1>1, <1>3, Zenon DEF GridHeld, AttemptsOnTicks
<1>5. NextTick(nowCh) = anchor + (q + 1) * Cycle /\ NextTick(nowCh) \in Nat
  BY <1>2, <1>3 DEF NextTick
<1>6. q + 1 \in Nat
  OBVIOUS
<1>7. QED
  BY <1>1, <1>4, <1>5, <1>6, Zenon DEF Over

\* RunEnds keeps the invariant.
LEMMA RunEndsKeeps ==
  ASSUME ChInv, RunEnds
  PROVE  ChInv'
<1>0. ChTypeOK /\ LoopHeld /\ GridHeld /\ BeatHeld /\ agg \in AggRec
  BY Zenon DEF ChInv, ChTypeOK, AggRec
<1>2. /\ phaseCh = "wait"
      /\ phaseCh' = "ended"
      /\ due' = Never
      /\ UNCHANGED <<nowCh, anchor, sock, cancelCh, closedCh, closerCh, sessionUp, refused, diedAt,
         replied, misses, beatAt, agg>>
  BY <1>0, Zenon DEF RunEnds, keepVars
<1>3. ChTypeOK'
  BY <1>0, <1>2, CallHomeConstants, Zenon DEF ChTypeOK, Busy, CallHomeConstants, NoAnchor, Never,
     AggRec
<1>4. LoopHeld'
  BY <1>0, <1>2, Zenon DEF LoopHeld, AttemptsAccounted, InFlight, Busy, ChTypeOK, AggRec
<1>5. GridHeld'
  BY <1>0, <1>2, Zenon DEF GridHeld, AttemptsOnTicks
<1>6. BeatHeld'
  BY <1>0, <1>2, Zenon DEF BeatHeld
<1>7. QED
  BY <1>3, <1>4, <1>5, <1>6, Zenon DEF ChInv

\* AttemptBegins keeps the invariant.
LEMMA AttemptBeginsKeeps ==
  ASSUME ChInv, AttemptBegins
  PROVE  ChInv'
<1>0. ChTypeOK /\ LoopHeld /\ GridHeld /\ BeatHeld /\ agg \in AggRec
  BY Zenon DEF ChInv, ChTypeOK, AggRec
<1>2. /\ phaseCh = "wait"
      /\ due # Never
      /\ nowCh >= due
      /\ anchor' = IF anchor = NoAnchor THEN nowCh ELSE anchor
      /\ phaseCh' = "dial"
      /\ due' = Never
      /\ agg'.attempts = agg.attempts + 1
      /\ agg'.failures = agg.failures
      /\ agg'.handshakes = agg.handshakes
      /\ agg'.ended = agg.ended
      /\ agg' \in AggRec
      /\ UNCHANGED <<nowCh, sock, cancelCh, closedCh, closerCh, sessionUp, refused, diedAt, replied,
         misses, beatAt>>
  BY <1>0 DEF AttemptBegins, keepVars, Count, AggRec
<1>3. ChTypeOK'
  BY <1>0, <1>2, CallHomeConstants DEF ChTypeOK, Busy, CallHomeConstants, NoAnchor, Never, AggRec
<1>4. LoopHeld'
  <2>1. anchor' # NoAnchor
    BY <1>0, <1>2, CallHomeConstants DEF ChTypeOK, CallHomeConstants, NoAnchor
  <2>2. AttemptsAccounted'
    BY <1>0, <1>2 DEF LoopHeld, AttemptsAccounted, InFlight, Busy, ChTypeOK, AggRec
  <2>3. QED
    BY <1>0, <1>2, <2>1, <2>2, Zenon DEF LoopHeld
<1>5. GridHeld'
  <2>0. /\ nowCh \in Nat /\ anchor \in Int /\ Cycle \in Nat \ {0} /\ agg.attempts \in Nat
        /\ anchor # NoAnchor => anchor \in Nat
        /\ NoAnchor \notin Nat
    BY <1>0, CallHomeConstants DEF ChTypeOK, CallHomeConstants, NoAnchor
  <2>1. CASE anchor = NoAnchor
    <3>1. anchor' = nowCh /\ agg'.attempts = 1
      BY <1>0, <1>2, <2>1 DEF LoopHeld
    <3>2. (nowCh - nowCh) \div Cycle = 0
      BY <2>0
    <3>3. QED
      BY <1>2, <2>0, <3>1, <3>2 DEF GridHeld, AttemptsOnTicks
  <2>2. CASE anchor # NoAnchor
    <3>1. anchor' = anchor /\ anchor <= nowCh
      BY <1>0, <1>2, <2>2, Zenon DEF GridHeld
    <3>2. PICK k \in Nat : due = anchor + k * Cycle /\ agg.attempts <= k
      BY <1>0, <1>2, <2>2, Zenon DEF GridHeld
    <3>3. nowCh - anchor \in Nat /\ k * Cycle <= nowCh - anchor
      BY <1>2, <2>0, <2>2, <3>1, <3>2
    <3>4. k <= (nowCh - anchor) \div Cycle
      BY <2>0, <3>3, Below, Zenon
    <3>5. PICK q \in Nat : q = (nowCh - anchor) \div Cycle
      BY <2>0, <3>3, DivBounds, Zenon
    <3>6. agg'.attempts <= q + 1
      BY <1>2, <2>0, <3>2, <3>4, <3>5
    <3>7. QED
      BY <1>2, <3>1, <3>5, <3>6, Zenon DEF GridHeld, AttemptsOnTicks
  <2>3. QED
    BY <2>1, <2>2, Zenon
<1>6. BeatHeld'
  BY <1>0, <1>2, Zenon DEF BeatHeld
<1>7. QED
  BY <1>3, <1>4, <1>5, <1>6, Zenon DEF ChInv

\* DialConnects keeps the invariant.
LEMMA DialConnectsKeeps ==
  ASSUME ChInv, DialConnects
  PROVE  ChInv'
<1>0. ChTypeOK /\ LoopHeld /\ GridHeld /\ BeatHeld /\ agg \in AggRec
  BY Zenon DEF ChInv, ChTypeOK, AggRec
<1>2. /\ phaseCh = "dial"
      /\ phaseCh' = "preamble"
      /\ sock' = "open"
      /\ UNCHANGED <<nowCh, due, anchor, cancelCh, closedCh, closerCh, sessionUp, refused, diedAt,
         replied, misses, beatAt, agg>>
  BY <1>0, Zenon DEF DialConnects, keepVars
<1>3. ChTypeOK'
  BY <1>0, <1>2, CallHomeConstants, Zenon DEF ChTypeOK, Busy, CallHomeConstants, NoAnchor, Never,
     AggRec
<1>4. LoopHeld'
  BY <1>0, <1>2, Zenon DEF LoopHeld, AttemptsAccounted, InFlight, Busy, ChTypeOK, AggRec
<1>5. GridHeld'
  BY <1>0, <1>2, Zenon DEF GridHeld, AttemptsOnTicks
<1>6. BeatHeld'
  BY <1>0, <1>2, Zenon DEF BeatHeld
<1>7. QED
  BY <1>3, <1>4, <1>5, <1>6, Zenon DEF ChInv

\* DialFails keeps the invariant.
LEMMA DialFailsKeeps ==
  ASSUME ChInv, DialFails
  PROVE  ChInv'
<1>0. ChTypeOK /\ LoopHeld /\ GridHeld /\ BeatHeld /\ agg \in AggRec
  BY Zenon DEF ChInv, ChTypeOK, AggRec
<1>1. /\ phaseCh' \in {"wait", "ended"} /\ (phaseCh' = "ended" => due' = Never)
      /\ due' \in Nat \cup {Never}
      /\ due' # Never => \E k \in Nat : due' = anchor + k * Cycle /\ agg.attempts <= k
  BY OverArms, Zenon DEF DialFails, Busy
<1>2. /\ phaseCh = "dial"
      /\ agg'.attempts = agg.attempts
      /\ agg'.failures = agg.failures + 1
      /\ agg'.handshakes = agg.handshakes
      /\ agg'.ended = agg.ended
      /\ agg' \in AggRec
      /\ UNCHANGED <<nowCh, anchor, sock, cancelCh, closedCh, closerCh, sessionUp, refused, diedAt,
         replied, misses, beatAt>>
  BY <1>0 DEF DialFails, keepVars, Count, AggRec
<1>3. ChTypeOK'
  BY <1>0, <1>1, <1>2, CallHomeConstants, Zenon DEF ChTypeOK, Busy, CallHomeConstants, NoAnchor,
     Never, AggRec
<1>4. LoopHeld'
  BY <1>0, <1>1, <1>2 DEF LoopHeld, AttemptsAccounted, InFlight, Busy, ChTypeOK, AggRec
<1>5. GridHeld'
  BY <1>0, <1>1, <1>2, Zenon DEF GridHeld, AttemptsOnTicks
<1>6. BeatHeld'
  BY <1>0, <1>1, <1>2, Zenon DEF BeatHeld
<1>7. QED
  BY <1>3, <1>4, <1>5, <1>6, Zenon DEF ChInv

\* PreambleWritten keeps the invariant.
LEMMA PreambleWrittenKeeps ==
  ASSUME ChInv, PreambleWritten
  PROVE  ChInv'
<1>0. ChTypeOK /\ LoopHeld /\ GridHeld /\ BeatHeld /\ agg \in AggRec
  BY Zenon DEF ChInv, ChTypeOK, AggRec
<1>2. /\ phaseCh = "preamble"
      /\ phaseCh' = "track"
      /\ UNCHANGED <<nowCh, due, anchor, sock, cancelCh, closedCh, closerCh, sessionUp, refused,
         diedAt, replied, misses, beatAt, agg>>
  BY <1>0, Zenon DEF PreambleWritten, keepVars
<1>3. ChTypeOK'
  BY <1>0, <1>2, CallHomeConstants, Zenon DEF ChTypeOK, Busy, CallHomeConstants, NoAnchor, Never,
     AggRec
<1>4. LoopHeld'
  BY <1>0, <1>2, Zenon DEF LoopHeld, AttemptsAccounted, InFlight, Busy, ChTypeOK, AggRec
<1>5. GridHeld'
  BY <1>0, <1>2, Zenon DEF GridHeld, AttemptsOnTicks
<1>6. BeatHeld'
  BY <1>0, <1>2, Zenon DEF BeatHeld
<1>7. QED
  BY <1>3, <1>4, <1>5, <1>6, Zenon DEF ChInv

\* PreambleFails keeps the invariant.
LEMMA PreambleFailsKeeps ==
  ASSUME ChInv, PreambleFails
  PROVE  ChInv'
<1>0. ChTypeOK /\ LoopHeld /\ GridHeld /\ BeatHeld /\ agg \in AggRec
  BY Zenon DEF ChInv, ChTypeOK, AggRec
<1>1. /\ phaseCh' \in {"wait", "ended"} /\ (phaseCh' = "ended" => due' = Never)
      /\ due' \in Nat \cup {Never}
      /\ due' # Never => \E k \in Nat : due' = anchor + k * Cycle /\ agg.attempts <= k
  BY OverArms, Zenon DEF PreambleFails, Busy
<1>2. /\ phaseCh = "preamble"
      /\ sock' = "none"
      /\ agg'.attempts = agg.attempts
      /\ agg'.failures = agg.failures + 1
      /\ agg'.handshakes = agg.handshakes
      /\ agg'.ended = agg.ended
      /\ agg' \in AggRec
      /\ UNCHANGED <<nowCh, anchor, cancelCh, closedCh, closerCh, sessionUp, refused, diedAt, replied,
         misses, beatAt>>
  BY <1>0 DEF PreambleFails, keepVars, Count, AggRec
<1>3. ChTypeOK'
  BY <1>0, <1>1, <1>2, CallHomeConstants, Zenon DEF ChTypeOK, Busy, CallHomeConstants, NoAnchor,
     Never, AggRec
<1>4. LoopHeld'
  BY <1>0, <1>1, <1>2 DEF LoopHeld, AttemptsAccounted, InFlight, Busy, ChTypeOK, AggRec
<1>5. GridHeld'
  BY <1>0, <1>1, <1>2, Zenon DEF GridHeld, AttemptsOnTicks
<1>6. BeatHeld'
  BY <1>0, <1>1, <1>2, Zenon DEF BeatHeld
<1>7. QED
  BY <1>3, <1>4, <1>5, <1>6, Zenon DEF ChInv

\* Tracks, refused by a closed server, keeps the invariant.
LEMMA TracksClosedKeeps ==
  ASSUME ChInv, Tracks, closedCh
  PROVE  ChInv'
<1>0. ChTypeOK /\ LoopHeld /\ GridHeld /\ BeatHeld /\ agg \in AggRec
  BY Zenon DEF ChInv, ChTypeOK, AggRec
<1>1. /\ phaseCh' \in {"wait", "ended"} /\ (phaseCh' = "ended" => due' = Never)
      /\ due' \in Nat \cup {Never}
      /\ due' # Never => \E k \in Nat : due' = anchor + k * Cycle /\ agg.attempts <= k
  BY OverArms, Zenon DEF Tracks, Busy
<1>2. /\ phaseCh = "track"
      /\ refused' = refused + 1
      /\ sock' = "none"
      /\ UNCHANGED <<nowCh, anchor, cancelCh, closedCh, closerCh, sessionUp, diedAt, replied, misses,
         beatAt, agg>>
  BY <1>0, Zenon DEF Tracks, keepVars
<1>3. ChTypeOK'
  BY <1>0, <1>1, <1>2, CallHomeConstants DEF ChTypeOK, Busy, CallHomeConstants, NoAnchor, Never,
     AggRec
<1>4. LoopHeld'
  BY <1>0, <1>1, <1>2 DEF LoopHeld, AttemptsAccounted, InFlight, Busy, ChTypeOK, AggRec
<1>5. GridHeld'
  BY <1>0, <1>1, <1>2, Zenon DEF GridHeld, AttemptsOnTicks
<1>6. BeatHeld'
  BY <1>0, <1>1, <1>2, Zenon DEF BeatHeld
<1>7. QED
  BY <1>3, <1>4, <1>5, <1>6, Zenon DEF ChInv

\* Tracks keeps the invariant.
LEMMA TracksKeeps ==
  ASSUME ChInv, Tracks, ~closedCh
  PROVE  ChInv'
<1>0. ChTypeOK /\ LoopHeld /\ GridHeld /\ BeatHeld /\ agg \in AggRec
  BY Zenon DEF ChInv, ChTypeOK, AggRec
<1>2. /\ phaseCh = "track"
      /\ phaseCh' = "handshake"
      /\ UNCHANGED <<nowCh, due, anchor, sock, cancelCh, closedCh, closerCh, sessionUp, refused,
         diedAt, replied, misses, beatAt, agg>>
  BY <1>0, Zenon DEF Tracks, keepVars
<1>3. ChTypeOK'
  BY <1>0, <1>2, CallHomeConstants, Zenon DEF ChTypeOK, Busy, CallHomeConstants, NoAnchor, Never,
     AggRec
<1>4. LoopHeld'
  BY <1>0, <1>2, Zenon DEF LoopHeld, AttemptsAccounted, InFlight, Busy, ChTypeOK, AggRec
<1>5. GridHeld'
  BY <1>0, <1>2, Zenon DEF GridHeld, AttemptsOnTicks
<1>6. BeatHeld'
  BY <1>0, <1>2, Zenon DEF BeatHeld
<1>7. QED
  BY <1>3, <1>4, <1>5, <1>6, Zenon DEF ChInv

\* HandshakeDone keeps the invariant.
LEMMA HandshakeDoneKeeps ==
  ASSUME ChInv, HandshakeDone
  PROVE  ChInv'
<1>0. ChTypeOK /\ LoopHeld /\ GridHeld /\ BeatHeld /\ agg \in AggRec
  BY Zenon DEF ChInv, ChTypeOK, AggRec
<1>2. /\ phaseCh = "handshake"
      /\ sock = "open"
      /\ sessionUp' = TRUE
      /\ phaseCh' = "session"
      /\ diedAt' = Never
      /\ replied' = FALSE
      /\ misses' = 0
      /\ beatAt' = nowCh + KeepAlive
      /\ UNCHANGED <<nowCh, due, anchor, sock, cancelCh, closedCh, closerCh, refused, agg>>
  BY <1>0, Zenon DEF HandshakeDone, keepVars
<1>3. ChTypeOK'
  <2>1. /\ misses' \in 0 .. Misses /\ diedAt' \in Never .. MaxNow
        /\ beatAt' \in Nat \cup {Never}
    BY <1>0, <1>2, CallHomeConstants DEF ChTypeOK, CallHomeConstants, Never, BeatHeld
  <2>2. QED
    BY <1>0, <1>2, <2>1, Zenon DEF ChTypeOK, Busy
<1>4. LoopHeld'
  BY <1>0, <1>2, Zenon DEF LoopHeld, AttemptsAccounted, InFlight, Busy, ChTypeOK, AggRec
<1>5. GridHeld'
  BY <1>0, <1>2, Zenon DEF GridHeld, AttemptsOnTicks
<1>6. BeatHeld'
  <2>1. /\ nowCh \in Nat /\ beatAt \in Int /\ diedAt \in Int /\ misses \in Nat /\ Misses \in Nat
        /\ KeepAlive \in Nat /\ Never = -1 /\ replied \in BOOLEAN
        /\ phaseCh = "session" => beatAt \in Nat
    BY <1>0, CallHomeConstants DEF ChTypeOK, CallHomeConstants, Never, BeatHeld
  <2>2. Misses > 0 /\ KeepAlive > 0
    BY CallHomeConstants DEF CallHomeConstants
  <2>3. QED
    BY <1>2, <2>1, <2>2 DEF BeatHeld
<1>7. QED
  BY <1>3, <1>4, <1>5, <1>6, Zenon DEF ChInv

\* HandshakeLost keeps the invariant.
LEMMA HandshakeLostKeeps ==
  ASSUME ChInv, HandshakeLost
  PROVE  ChInv'
<1>0. ChTypeOK /\ LoopHeld /\ GridHeld /\ BeatHeld /\ agg \in AggRec
  BY Zenon DEF ChInv, ChTypeOK, AggRec
<1>2. /\ phaseCh = "handshake"
      /\ phaseCh' = "count"
      /\ sock' = "none"
      /\ UNCHANGED <<nowCh, due, anchor, cancelCh, closedCh, closerCh, sessionUp, refused, diedAt,
         replied, misses, beatAt, agg>>
  BY <1>0, Zenon DEF HandshakeLost, keepVars
<1>3. ChTypeOK'
  BY <1>0, <1>2, CallHomeConstants, Zenon DEF ChTypeOK, Busy, CallHomeConstants, NoAnchor, Never,
     AggRec
<1>4. LoopHeld'
  BY <1>0, <1>2, Zenon DEF LoopHeld, AttemptsAccounted, InFlight, Busy, ChTypeOK, AggRec
<1>5. GridHeld'
  BY <1>0, <1>2, Zenon DEF GridHeld, AttemptsOnTicks
<1>6. BeatHeld'
  BY <1>0, <1>2, Zenon DEF BeatHeld
<1>7. QED
  BY <1>3, <1>4, <1>5, <1>6, Zenon DEF ChInv

\* SessionOver keeps the invariant.
LEMMA SessionOverKeeps ==
  ASSUME ChInv, SessionOver
  PROVE  ChInv'
<1>0. ChTypeOK /\ LoopHeld /\ GridHeld /\ BeatHeld /\ agg \in AggRec
  BY Zenon DEF ChInv, ChTypeOK, AggRec
<1>2. /\ phaseCh = "session"
      /\ phaseCh' = "count"
      /\ sock' = "none"
      /\ diedAt' = Never
      /\ replied' = FALSE
      /\ misses' = 0
      /\ beatAt' = Never
      /\ UNCHANGED <<nowCh, due, anchor, cancelCh, closedCh, closerCh, sessionUp, refused, agg>>
  BY <1>0, Zenon DEF SessionOver, keepVars
<1>3. ChTypeOK'
  <2>1. /\ misses' \in 0 .. Misses /\ diedAt' \in Never .. MaxNow
        /\ beatAt' \in Nat \cup {Never}
    BY <1>0, <1>2, CallHomeConstants DEF ChTypeOK, CallHomeConstants, Never, BeatHeld
  <2>2. QED
    BY <1>0, <1>2, <2>1, Zenon DEF ChTypeOK, Busy
<1>4. LoopHeld'
  BY <1>0, <1>2, Zenon DEF LoopHeld, AttemptsAccounted, InFlight, Busy, ChTypeOK, AggRec
<1>5. GridHeld'
  BY <1>0, <1>2, Zenon DEF GridHeld, AttemptsOnTicks
<1>6. BeatHeld'
  BY <1>0, <1>2, Zenon DEF BeatHeld
<1>7. QED
  BY <1>3, <1>4, <1>5, <1>6, Zenon DEF ChInv

\* Counts after a session keeps the invariant.
LEMMA CountsEndedKeeps ==
  ASSUME ChInv, Counts, sessionUp
  PROVE  ChInv'
<1>0. ChTypeOK /\ LoopHeld /\ GridHeld /\ BeatHeld /\ agg \in AggRec
  BY Zenon DEF ChInv, ChTypeOK, AggRec
<1>1. /\ phaseCh' \in {"wait", "ended"} /\ (phaseCh' = "ended" => due' = Never)
      /\ due' \in Nat \cup {Never}
      /\ due' # Never => \E k \in Nat : due' = anchor + k * Cycle /\ agg.attempts <= k
  BY OverArms, Zenon DEF Counts, Busy
<1>2. /\ phaseCh = "count"
      /\ sessionUp' = FALSE
      /\ agg'.attempts = agg.attempts
      /\ agg'.failures = agg.failures
      /\ agg'.handshakes = agg.handshakes
      /\ agg'.ended = agg.ended + 1
      /\ agg' \in AggRec
      /\ UNCHANGED <<nowCh, anchor, sock, cancelCh, closedCh, closerCh, refused, diedAt, replied,
         misses, beatAt>>
  BY <1>0 DEF Counts, keepVars, Count, AggRec
<1>3. ChTypeOK'
  BY <1>0, <1>1, <1>2, CallHomeConstants, Zenon DEF ChTypeOK, Busy, CallHomeConstants, NoAnchor,
     Never, AggRec
<1>4. LoopHeld'
  BY <1>0, <1>1, <1>2 DEF LoopHeld, AttemptsAccounted, InFlight, Busy, ChTypeOK, AggRec
<1>5. GridHeld'
  BY <1>0, <1>1, <1>2, Zenon DEF GridHeld, AttemptsOnTicks
<1>6. BeatHeld'
  BY <1>0, <1>1, <1>2, Zenon DEF BeatHeld
<1>7. QED
  BY <1>3, <1>4, <1>5, <1>6, Zenon DEF ChInv

\* Counts after a failed handshake keeps the invariant.
LEMMA CountsFailedKeeps ==
  ASSUME ChInv, Counts, ~sessionUp
  PROVE  ChInv'
<1>0. ChTypeOK /\ LoopHeld /\ GridHeld /\ BeatHeld /\ agg \in AggRec
  BY Zenon DEF ChInv, ChTypeOK, AggRec
<1>1. /\ phaseCh' \in {"wait", "ended"} /\ (phaseCh' = "ended" => due' = Never)
      /\ due' \in Nat \cup {Never}
      /\ due' # Never => \E k \in Nat : due' = anchor + k * Cycle /\ agg.attempts <= k
  BY OverArms, Zenon DEF Counts, Busy
<1>2. /\ phaseCh = "count"
      /\ sessionUp' = FALSE
      /\ agg'.attempts = agg.attempts
      /\ agg'.failures = agg.failures
      /\ agg'.handshakes = agg.handshakes + 1
      /\ agg'.ended = agg.ended
      /\ agg' \in AggRec
      /\ UNCHANGED <<nowCh, anchor, sock, cancelCh, closedCh, closerCh, refused, diedAt, replied,
         misses, beatAt>>
  BY <1>0 DEF Counts, keepVars, Count, AggRec
<1>3. ChTypeOK'
  BY <1>0, <1>1, <1>2, CallHomeConstants, Zenon DEF ChTypeOK, Busy, CallHomeConstants, NoAnchor,
     Never, AggRec
<1>4. LoopHeld'
  BY <1>0, <1>1, <1>2 DEF LoopHeld, AttemptsAccounted, InFlight, Busy, ChTypeOK, AggRec
<1>5. GridHeld'
  BY <1>0, <1>1, <1>2, Zenon DEF GridHeld, AttemptsOnTicks
<1>6. BeatHeld'
  BY <1>0, <1>1, <1>2, Zenon DEF BeatHeld
<1>7. QED
  BY <1>3, <1>4, <1>5, <1>6, Zenon DEF ChInv

\* A Beat that sends a request keeps the invariant.
LEMMA BeatFirstKeeps ==
  ASSUME ChInv, Beat, ~replied
  PROVE  ChInv'
<1>0. ChTypeOK /\ LoopHeld /\ GridHeld /\ BeatHeld /\ agg \in AggRec
  BY Zenon DEF ChInv, ChTypeOK, AggRec
<1>2. /\ phaseCh = "session"
      /\ sock = "open"
      /\ nowCh = beatAt
      /\ ~replied
      /\ beatAt' = beatAt + KeepAlive
      /\ replied' = TRUE
      /\ UNCHANGED <<nowCh, due, anchor, phaseCh, sock, cancelCh, closedCh, closerCh, sessionUp,
         refused, diedAt, misses, agg>>
  BY <1>0, Zenon DEF Beat, keepVars
<1>3. ChTypeOK'
  <2>1. /\ misses' \in 0 .. Misses /\ diedAt' \in Never .. MaxNow
        /\ beatAt' \in Nat \cup {Never}
    BY <1>0, <1>2, CallHomeConstants DEF ChTypeOK, CallHomeConstants, Never, BeatHeld
  <2>2. QED
    BY <1>0, <1>2, <2>1, Zenon DEF ChTypeOK, Busy
<1>4. LoopHeld'
  BY <1>0, <1>2, Zenon DEF LoopHeld, AttemptsAccounted, InFlight, Busy, ChTypeOK, AggRec
<1>5. GridHeld'
  BY <1>0, <1>2, Zenon DEF GridHeld, AttemptsOnTicks
<1>6. BeatHeld'
  <2>1. /\ nowCh \in Nat /\ beatAt \in Int /\ diedAt \in Int /\ misses \in Nat /\ Misses \in Nat
        /\ KeepAlive \in Nat /\ Never = -1 /\ replied \in BOOLEAN
        /\ phaseCh = "session" => beatAt \in Nat
    BY <1>0, CallHomeConstants DEF ChTypeOK, CallHomeConstants, Never, BeatHeld
  <2>2. misses = 0
    BY <1>0, <1>2, Zenon DEF BeatHeld
  <2>3. diedAt # Never => beatAt + KeepAlive <= diedAt + 2 * KeepAlive
    BY <1>0, <1>2, <2>1, <2>2 DEF BeatHeld
  <2>4. misses' + (IF replied' THEN 2 ELSE 1) = 2
    BY <1>2, <2>1, <2>2
  <2>5. QED
    BY <1>0, <1>2, <2>1, <2>3, <2>4 DEF BeatHeld
<1>7. QED
  BY <1>3, <1>4, <1>5, <1>6, Zenon DEF ChInv

\* A Beat that counts a miss keeps the invariant.
LEMMA BeatAgainKeeps ==
  ASSUME ChInv, Beat, replied
  PROVE  ChInv'
<1>0. ChTypeOK /\ LoopHeld /\ GridHeld /\ BeatHeld /\ agg \in AggRec
  BY Zenon DEF ChInv, ChTypeOK, AggRec
<1>2. /\ phaseCh = "session"
      /\ sock = "open"
      /\ nowCh = beatAt
      /\ replied
      /\ beatAt' = beatAt + KeepAlive
      /\ misses' = misses + 1
      /\ sock' = IF misses + 1 >= Misses THEN "closed" ELSE sock
      /\ UNCHANGED <<nowCh, due, anchor, phaseCh, cancelCh, closedCh, closerCh, sessionUp, refused,
         diedAt, replied, agg>>
  BY <1>0, Zenon DEF Beat, keepVars
<1>3. ChTypeOK'
  <2>1. /\ misses' \in 0 .. Misses /\ diedAt' \in Never .. MaxNow
        /\ beatAt' \in Nat \cup {Never}
    BY <1>0, <1>2, CallHomeConstants DEF ChTypeOK, CallHomeConstants, Never, BeatHeld
  <2>2. QED
    BY <1>0, <1>2, <2>1, Zenon DEF ChTypeOK, Busy
<1>4. LoopHeld'
  BY <1>0, <1>2, Zenon DEF LoopHeld, AttemptsAccounted, InFlight, Busy, ChTypeOK, AggRec
<1>5. GridHeld'
  BY <1>0, <1>2, Zenon DEF GridHeld, AttemptsOnTicks
<1>6. BeatHeld'
  <2>1. /\ nowCh \in Nat /\ beatAt \in Int /\ diedAt \in Int /\ misses \in Nat /\ Misses \in Nat
        /\ KeepAlive \in Nat /\ Never = -1 /\ replied \in BOOLEAN
        /\ phaseCh = "session" => beatAt \in Nat
    BY <1>0, CallHomeConstants DEF ChTypeOK, CallHomeConstants, Never, BeatHeld
  <2>2. CASE diedAt = Never
    BY <1>0, <1>2, <2>1, <2>2 DEF BeatHeld
  <2>3. CASE diedAt # Never
    <3>1. PICK m \in Nat : m = misses + 2
      BY <2>1
    <3>2. beatAt <= diedAt + m * KeepAlive
      BY <1>0, <1>2, <2>1, <2>3, <3>1, Zenon DEF BeatHeld
    <3>3. (m + 1) * KeepAlive = m * KeepAlive + KeepAlive /\ m * KeepAlive \in Int
          /\ (m + 1) * KeepAlive \in Int
      BY <2>1, Scaled
    <3>4. beatAt' <= diedAt' + (m + 1) * KeepAlive
      BY <1>2, <2>1, <3>2, <3>3
    <3>5. misses' + (IF replied' THEN 2 ELSE 1) = m + 1
      BY <1>2, <2>1, <3>1
    <3>6. QED
      BY <1>0, <1>2, <2>1, <3>4, <3>5 DEF BeatHeld
  <2>4. QED
    BY <2>2, <2>3, Zenon
<1>7. QED
  BY <1>3, <1>4, <1>5, <1>6, Zenon DEF ChInv

\* Answered keeps the invariant.
LEMMA AnsweredKeeps ==
  ASSUME ChInv, Answered
  PROVE  ChInv'
<1>0. ChTypeOK /\ LoopHeld /\ GridHeld /\ BeatHeld /\ agg \in AggRec
  BY Zenon DEF ChInv, ChTypeOK, AggRec
<1>2. /\ phaseCh = "session"
      /\ replied
      /\ diedAt = Never
      /\ replied' = FALSE
      /\ misses' = 0
      /\ UNCHANGED <<nowCh, due, anchor, phaseCh, sock, cancelCh, closedCh, closerCh, sessionUp,
         refused, diedAt, beatAt, agg>>
  BY <1>0, Zenon DEF Answered, keepVars
<1>3. ChTypeOK'
  <2>1. /\ misses' \in 0 .. Misses /\ diedAt' \in Never .. MaxNow
        /\ beatAt' \in Nat \cup {Never}
    BY <1>0, <1>2, CallHomeConstants DEF ChTypeOK, CallHomeConstants, Never, BeatHeld
  <2>2. QED
    BY <1>0, <1>2, <2>1, Zenon DEF ChTypeOK, Busy
<1>4. LoopHeld'
  BY <1>0, <1>2, Zenon DEF LoopHeld, AttemptsAccounted, InFlight, Busy, ChTypeOK, AggRec
<1>5. GridHeld'
  BY <1>0, <1>2, Zenon DEF GridHeld, AttemptsOnTicks
<1>6. BeatHeld'
  <2>1. /\ nowCh \in Nat /\ beatAt \in Int /\ diedAt \in Int /\ misses \in Nat /\ Misses \in Nat
        /\ KeepAlive \in Nat /\ Never = -1 /\ replied \in BOOLEAN
        /\ phaseCh = "session" => beatAt \in Nat
    BY <1>0, CallHomeConstants DEF ChTypeOK, CallHomeConstants, Never, BeatHeld
  <2>2. Misses > 0
    BY CallHomeConstants DEF CallHomeConstants
  <2>3. QED
    BY <1>0, <1>2, <2>1, <2>2, Zenon DEF BeatHeld
<1>7. QED
  BY <1>3, <1>4, <1>5, <1>6, Zenon DEF ChInv

\* ClientDies keeps the invariant.
LEMMA ClientDiesKeeps ==
  ASSUME ChInv, ClientDies
  PROVE  ChInv'
<1>0. ChTypeOK /\ LoopHeld /\ GridHeld /\ BeatHeld /\ agg \in AggRec
  BY Zenon DEF ChInv, ChTypeOK, AggRec
<1>2. /\ phaseCh = "session"
      /\ diedAt = Never
      /\ diedAt' = nowCh
      /\ UNCHANGED <<nowCh, due, anchor, phaseCh, sock, cancelCh, closedCh, closerCh, sessionUp,
         refused, replied, misses, beatAt, agg>>
  BY <1>0, Zenon DEF ClientDies, keepVars
<1>3. ChTypeOK'
  BY <1>0, <1>2, CallHomeConstants DEF ChTypeOK, Busy, CallHomeConstants, NoAnchor, Never, AggRec
<1>4. LoopHeld'
  BY <1>0, <1>2, Zenon DEF LoopHeld, AttemptsAccounted, InFlight, Busy, ChTypeOK, AggRec
<1>5. GridHeld'
  BY <1>0, <1>2, Zenon DEF GridHeld, AttemptsOnTicks
<1>6. BeatHeld'
  <2>1. /\ nowCh \in Nat /\ beatAt \in Int /\ diedAt \in Int /\ misses \in Nat /\ Misses \in Nat
        /\ KeepAlive \in Nat /\ Never = -1 /\ replied \in BOOLEAN
        /\ phaseCh = "session" => beatAt \in Nat
    BY <1>0, CallHomeConstants DEF ChTypeOK, CallHomeConstants, Never, BeatHeld
  <2>2. PICK m \in Nat : m = misses + (IF replied THEN 2 ELSE 1)
    BY <2>1
  <2>3. KeepAlive <= m * KeepAlive /\ m * KeepAlive \in Nat
    BY <2>1, <2>2, Scaled
  <2>4. beatAt <= nowCh + m * KeepAlive
    BY <1>0, <1>2, <2>1, <2>3 DEF BeatHeld
  <2>5. QED
    BY <1>0, <1>2, <2>1, <2>2, <2>4 DEF BeatHeld
<1>7. QED
  BY <1>3, <1>4, <1>5, <1>6, Zenon DEF ChInv

\* CloseCancelsCh keeps the invariant.
LEMMA CloseCancelsChKeeps ==
  ASSUME ChInv, CloseCancelsCh
  PROVE  ChInv'
<1>0. ChTypeOK /\ LoopHeld /\ GridHeld /\ BeatHeld /\ agg \in AggRec
  BY Zenon DEF ChInv, ChTypeOK, AggRec
<1>2. /\ closerCh' = "cancelled"
      /\ cancelCh' = TRUE
      /\ UNCHANGED <<nowCh, due, anchor, phaseCh, sock, closedCh, sessionUp, refused, diedAt, replied,
         misses, beatAt, agg>>
  BY <1>0, Zenon DEF CloseCancelsCh, CloserMoves, keepVars
<1>3. ChTypeOK'
  BY <1>0, <1>2, CallHomeConstants, Zenon DEF ChTypeOK, Busy, CallHomeConstants, NoAnchor, Never,
     AggRec
<1>4. LoopHeld'
  BY <1>0, <1>2, Zenon DEF LoopHeld, AttemptsAccounted, InFlight, Busy, ChTypeOK, AggRec
<1>5. GridHeld'
  BY <1>0, <1>2, Zenon DEF GridHeld, AttemptsOnTicks
<1>6. BeatHeld'
  BY <1>0, <1>2, Zenon DEF BeatHeld
<1>7. QED
  BY <1>3, <1>4, <1>5, <1>6, Zenon DEF ChInv

\* CloseServerCh keeps the invariant.
LEMMA CloseServerChKeeps ==
  ASSUME ChInv, CloseServerCh
  PROVE  ChInv'
<1>0. ChTypeOK /\ LoopHeld /\ GridHeld /\ BeatHeld /\ agg \in AggRec
  BY Zenon DEF ChInv, ChTypeOK, AggRec
<1>2. /\ closerCh' = "waiting"
      /\ closedCh' = TRUE
      /\ sock' \in {sock, "closed"}
      /\ UNCHANGED <<nowCh, due, anchor, phaseCh, cancelCh, sessionUp, refused, diedAt, replied,
         misses, beatAt, agg>>
  BY <1>0, Zenon DEF CloseServerCh, CloserMoves, keepVars
<1>3. ChTypeOK'
  BY <1>0, <1>2, CallHomeConstants, Zenon DEF ChTypeOK, Busy, CallHomeConstants, NoAnchor, Never,
     AggRec
<1>4. LoopHeld'
  BY <1>0, <1>2, Zenon DEF LoopHeld, AttemptsAccounted, InFlight, Busy, ChTypeOK, AggRec
<1>5. GridHeld'
  BY <1>0, <1>2, Zenon DEF GridHeld, AttemptsOnTicks
<1>6. BeatHeld'
  BY <1>0, <1>2, Zenon DEF BeatHeld
<1>7. QED
  BY <1>3, <1>4, <1>5, <1>6, Zenon DEF ChInv

\* CloseReturnsCh keeps the invariant.
LEMMA CloseReturnsChKeeps ==
  ASSUME ChInv, CloseReturnsCh
  PROVE  ChInv'
<1>0. ChTypeOK /\ LoopHeld /\ GridHeld /\ BeatHeld /\ agg \in AggRec
  BY Zenon DEF ChInv, ChTypeOK, AggRec
<1>2. /\ closerCh' = "returned"
      /\ UNCHANGED <<nowCh, due, anchor, phaseCh, sock, cancelCh, closedCh, sessionUp, refused,
         diedAt, replied, misses, beatAt, agg>>
  BY <1>0, Zenon DEF CloseReturnsCh, CloserMoves, keepVars
<1>3. ChTypeOK'
  BY <1>0, <1>2, CallHomeConstants DEF ChTypeOK, Busy, CallHomeConstants, NoAnchor, Never, AggRec
<1>4. LoopHeld'
  BY <1>0, <1>2, Zenon DEF LoopHeld, AttemptsAccounted, InFlight, Busy, ChTypeOK, AggRec
<1>5. GridHeld'
  BY <1>0, <1>2, Zenon DEF GridHeld, AttemptsOnTicks
<1>6. BeatHeld'
  BY <1>0, <1>2, Zenon DEF BeatHeld
<1>7. QED
  BY <1>3, <1>4, <1>5, <1>6, Zenon DEF ChInv

\* Ticks keeps the invariant.
LEMMA TicksKeeps ==
  ASSUME ChInv, Ticks
  PROVE  ChInv'
<1>0. ChTypeOK /\ LoopHeld /\ GridHeld /\ BeatHeld /\ agg \in AggRec
  BY Zenon DEF ChInv, ChTypeOK, AggRec
<1>2. /\ nowCh < MaxNow
      /\ nowCh # beatAt
      /\ nowCh' = nowCh + 1
      /\ UNCHANGED <<due, anchor, phaseCh, sock, cancelCh, closedCh, closerCh, sessionUp, refused,
         diedAt, replied, misses, beatAt, agg>>
  BY <1>0, Zenon DEF Ticks, keepVars
<1>3. ChTypeOK'
  BY <1>0, <1>2, CallHomeConstants DEF ChTypeOK, Busy, CallHomeConstants, NoAnchor, Never, AggRec
<1>4. LoopHeld'
  BY <1>0, <1>2, Zenon DEF LoopHeld, AttemptsAccounted, InFlight, Busy, ChTypeOK, AggRec
<1>5. GridHeld'
  <2>1. CASE anchor = NoAnchor
    BY <1>2, <2>1, Zenon DEF GridHeld
  <2>2. CASE anchor # NoAnchor
    <3>1. /\ nowCh - anchor \in Nat /\ nowCh + 1 - anchor \in Nat /\ Cycle \in Nat \ {0}
          /\ nowCh \in Nat /\ anchor \in Int /\ agg.attempts \in Nat
      BY <1>0, <2>2, CallHomeConstants DEF ChTypeOK, GridHeld, CallHomeConstants, NoAnchor
    <3>2. nowCh - anchor <= nowCh + 1 - anchor
      BY <3>1
    <3>3. (nowCh - anchor) \div Cycle <= (nowCh + 1 - anchor) \div Cycle
      BY <3>1, <3>2, DivGrows, Zenon
    <3>4. PICK q \in Nat, r \in Nat : q = (nowCh - anchor) \div Cycle
          /\ r = (nowCh + 1 - anchor) \div Cycle
      BY <3>1, DivBounds, Zenon
    <3>5. agg.attempts <= q + 1
      BY <1>0, <2>2, <3>4, Zenon DEF GridHeld, AttemptsOnTicks
    <3>6. agg.attempts <= r + 1
      BY <3>1, <3>3, <3>4, <3>5
    <3>7. AttemptsOnTicks' /\ anchor' <= nowCh'
      BY <1>0, <1>2, <2>2, <3>1, <3>4, <3>6 DEF AttemptsOnTicks, GridHeld
    <3>8. QED
      BY <1>0, <1>2, <2>2, <3>7, Zenon DEF GridHeld
  <2>3. QED
    BY <2>1, <2>2, Zenon
<1>6. BeatHeld'
  <2>1. /\ nowCh \in Nat /\ beatAt \in Int /\ diedAt \in Int /\ misses \in Nat /\ Misses \in Nat
        /\ KeepAlive \in Nat /\ Never = -1 /\ replied \in BOOLEAN
        /\ phaseCh = "session" => beatAt \in Nat
    BY <1>0, CallHomeConstants DEF ChTypeOK, CallHomeConstants, Never, BeatHeld
  <2>2. phaseCh = "session" => nowCh' <= beatAt' /\ beatAt' <= nowCh' + KeepAlive /\ diedAt' <= nowCh'
    BY <1>0, <1>2, <2>1 DEF BeatHeld
  <2>3. QED
    BY <1>0, <1>2, <2>2, Zenon DEF BeatHeld
<1>7. QED
  BY <1>3, <1>4, <1>5, <1>6, Zenon DEF ChInv

\* Call home starts in the invariant.
LEMMA ChStarts ==
  ASSUME ChInit
  PROVE  ChInv
<1>1. ChTypeOK
  <2>1. /\ nowCh \in 0 .. MaxNow /\ due \in Nat \cup {Never} /\ anchor \in NoAnchor .. MaxNow
        /\ misses \in 0 .. Misses /\ diedAt \in Never .. MaxNow /\ beatAt \in Nat \cup {Never}
    BY CallHomeConstants DEF ChInit, CallHomeConstants, NoAnchor, Never
  <2>2. QED
    BY <2>1, Zenon DEF ChInit, ChTypeOK
<1>2. LoopHeld /\ GridHeld /\ BeatHeld
  BY DEF ChInit, LoopHeld, AttemptsAccounted, InFlight, Busy, GridHeld, BeatHeld, NoAnchor
<1>3. QED
  BY <1>1, <1>2, Zenon DEF ChInv

\* Every step of call home keeps its invariant.
LEMMA ChStepKeeps ==
  ASSUME ChInv, [ChNext]_chVars
  PROVE  ChInv'
<1>1. CASE LoopProceeds
  BY <1>1, RunEndsKeeps, DialFailsKeeps, PreambleFailsKeeps, TracksKeeps, TracksClosedKeeps,
     HandshakeLostKeeps, SessionOverKeeps, CountsEndedKeeps, CountsFailedKeeps, Zenon DEF LoopProceeds
<1>2. CASE ChNext /\ ~LoopProceeds
  BY <1>2, AttemptBeginsKeeps, DialConnectsKeeps, PreambleWrittenKeeps, HandshakeDoneKeeps,
     SessionOverKeeps, BeatFirstKeeps, BeatAgainKeeps, AnsweredKeeps, ClientDiesKeeps,
     CloseCancelsChKeeps,
     CloseServerChKeeps, CloseReturnsChKeeps, TicksKeeps, Zenon DEF ChNext
<1>3. CASE UNCHANGED chVars
  <2>1. UNCHANGED <<nowCh, due, anchor, phaseCh, sock, cancelCh, closedCh, closerCh, sessionUp, agg,
                    refused, diedAt, replied, misses, beatAt>>
    BY <1>3, Zenon DEF chVars
  <2>2. ChTypeOK' /\ LoopHeld'
    BY <2>1, Zenon DEF ChInv, ChTypeOK, LoopHeld, AttemptsAccounted, InFlight
  <2>3. GridHeld' /\ BeatHeld'
    BY <2>1, Zenon DEF ChInv, GridHeld, AttemptsOnTicks, BeatHeld
  <2>4. QED
    BY <2>2, <2>3, Zenon DEF ChInv
<1>4. QED
  BY <1>1, <1>2, <1>3, Zenon

\* The call-home part of NetconfServersKept.
LEMMA CallHomeAlwaysKept ==
  ChSpec => [](/\ ChTypeOK /\ AttemptsAccounted /\ SessionUpIsServed /\ DueOnGrid /\ AttemptsOnTicks
               /\ DeadClientIsClosed)
<1>1. ChInit => ChInv
  BY ChStarts, Zenon
<1>2. ChInv /\ [ChNext]_chVars => ChInv'
  BY ChStepKeeps, Zenon
<1>3. ASSUME ChInv
      PROVE  /\ ChTypeOK /\ AttemptsAccounted /\ SessionUpIsServed /\ DueOnGrid /\ AttemptsOnTicks
             /\ DeadClientIsClosed
  <2>1. ChTypeOK /\ AttemptsAccounted /\ SessionUpIsServed /\ AttemptsOnTicks
    BY <1>3, Zenon DEF ChInv, LoopHeld, SessionUpIsServed, GridHeld, AttemptsOnTicks
  <2>2. DueOnGrid
    <3>1. SUFFICES ASSUME anchor # NoAnchor, due # Never PROVE (due - anchor) % Cycle = 0
      BY Zenon DEF DueOnGrid
    <3>2. PICK k \in Nat : due = anchor + k * Cycle
      BY <1>3, <3>1, Zenon DEF ChInv, GridHeld
    <3>3. Cycle \in Nat \ {0} /\ anchor \in Int
      BY <2>1, CallHomeConstants DEF CallHomeConstants, ChTypeOK, NoAnchor
    <3>4. due - anchor = k * Cycle
      BY <3>2, <3>3
    <3>5. QED
      BY <3>3, <3>4, GridPoint, Zenon
  <2>3. DeadClientIsClosed
    <3>1. SUFFICES ASSUME phaseCh = "session", sock = "open", diedAt # Never
                   PROVE  nowCh - diedAt <= (Misses + 1) * KeepAlive
      BY Zenon DEF DeadClientIsClosed
    <3>2. PICK m \in Nat : m = misses + (IF replied THEN 2 ELSE 1)
      BY <2>1 DEF ChTypeOK
    <3>3. m <= Misses + 1 /\ Misses \in Nat /\ KeepAlive \in Nat /\ nowCh \in Int /\ diedAt \in Int
          /\ beatAt \in Int
      BY <1>3, <2>1, <3>1, <3>2, CallHomeConstants DEF ChInv, BeatHeld, ChTypeOK, CallHomeConstants,
         Never
    <3>4. nowCh <= beatAt /\ beatAt <= diedAt + m * KeepAlive
      BY <1>3, <3>1, <3>2, Zenon DEF ChInv, BeatHeld
    <3>5. m * KeepAlive <= (Misses + 1) * KeepAlive
      BY <3>3, Scaled
    <3>6. QED
      BY <3>3, <3>4, <3>5
  <2>4. QED
    BY <2>1, <2>2, <2>3, Zenon
<1>4. QED
  BY <1>1, <1>2, <1>3, PTL DEF ChSpec

(* Both together. *)

\* For any number of connections and channels, whatever clients send and however Close
\* interleaves, a NETCONF listener runs one session per connection and leaves no
\* goroutine, socket or tracked connection behind Close; and whatever the client does,
\* call home counts every attempt once, stays on its grid and drops a silent client.
THEOREM NetconfServersAlwaysKept == SrvSpec /\ ChSpec => []NetconfServersKept
<1>1. /\ SrvTypeOK /\ OneSessionPerConn /\ CloseLeavesNothing
      /\ ChTypeOK /\ AttemptsAccounted /\ SessionUpIsServed /\ DueOnGrid /\ AttemptsOnTicks
      /\ DeadClientIsClosed
      => NetconfServersKept
  BY Zenon DEF NetconfServersKept
<1>2. QED
  BY <1>1, ServerAlwaysKept, CallHomeAlwaysKept, PTL
================================================================================
