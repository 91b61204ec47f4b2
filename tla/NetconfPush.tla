----------------------------- MODULE NetconfPush ------------------------------
(***************************************************************************)
(* The NETCONF sessions of one device (netconf_session.go,                 *)
(* netconf_events.go).  One dispatcher listens on the state engine and     *)
(* fans each event out to the registered sessions; a session renders it    *)
(* into a bounded outbox which a writer goroutine, started on demand,      *)
(* drains under the mutex the replies use.  The device speaks the IOS XE   *)
(* or the Junos dialect.  The engine is one interface and who changes it.  *)
(***************************************************************************)
EXTENDS Integers, Sequences, FiniteSets, SequencesExt

CONSTANTS
  NcSessions,    \* sessions that may connect
  OutDepth,      \* netconfSendQueueDepth
  EventDepthNc,  \* netconfEventBufferDepth
  SubCap,        \* netconfMaxSubsPerSession
  MaxMutators,   \* bound: changes whose events are still to be broadcast
  MaxSubIds,     \* bound: subscriptions made
  MaxNcMoves     \* bound: changes of the interface

ASSUME NetconfConstants == OutDepth \in Nat \ {0} /\ EventDepthNc \in Nat \ {0}

VARIABLES
  dialect,     \* what the device speaks
  port,        \* the interface: [admin, link]
  portMoves,   \* changes so far, the instant of the next one
  toCast,      \* for each mutator on its way, the events it has still to broadcast
  order,       \* the latest instant broadcast, and whether an older one came after it
  evq,         \* the dispatcher's channel
  evLost,      \* an event was dropped from it
  refs,        \* dispRefs; the dispatcher runs while it is positive
  members,     \* the sessions registered on it, in order
  disp,        \* its run loop
  sess,        \* the goroutine that serves each session
  closedNc,    \* sessions whose closed channel is closed
  peer,        \* the client of each session
  holds,       \* sessions that hold the dispatcher (ev.disp)
  subs, evsubs,  \* s.subs and ev.subs
  deletedNc,   \* subscriptions marked deleted
  skip,        \* the twin each session expects
  out,         \* the outboxes
  writing,     \* ev.writing
  writer,      \* the writer that owns writing
  looking,     \* writers that look again after their Store
  wmu,         \* wmu of each session: "free", "rpc" or "writer"
  nextSub,     \* the next subscription
  view,        \* the client's last oper status per subscription
  answered,    \* subscriptions whose delete reply is on the wire
  trailer,     \* sessions whose session-end trailer is on the wire
  stop         \* stopNetconfServer

ncVars == <<dialect, port, portMoves, toCast, order, evq, evLost, refs, members, disp, sess,
            closedNc, peer, holds, subs, evsubs, deletedNc, skip, out, writing, writer,
            looking, wmu, nextSub, view, answered, trailer, stop>>
engineVars == <<port, portMoves, toCast, order>>
pushVars == <<out, writing, writer, looking>>
subVarsNc == <<subs, evsubs, deletedNc, nextSub>>
wireVarsNc == <<view, answered, trailer>>

Unsynced == "unsynced"
NoEvt == [leaf |-> "none"]
NoPushNc == [k |-> 0, oper |-> Unsynced]
Opers == {"up", "down", "testing"}
SubIds == 1 .. MaxSubIds
Quiet == [ev |-> NoEvt, todo |-> << >>, pend |-> << >>, wake |-> FALSE]
AtPc(pc) == [pc |-> pc, k |-> 0, row |-> Unsynced]
NotWriting == [pc |-> "none", p |-> NoPushNc]
Registered(s) == sess[s].pc \notin {"absent", "wait", "done"}

NcTypeOK ==
  /\ dialect \in {"iosxe", "junos"}
  /\ port \in [admin : Opers, link : {"up", "down"}] /\ portMoves \in 0 .. MaxNcMoves
  /\ Len(evq) <= EventDepthNc /\ evLost \in BOOLEAN
  /\ refs \in 0 .. Cardinality(NcSessions) /\ Range(members) \subseteq NcSessions
  /\ closedNc \subseteq NcSessions /\ holds \subseteq NcSessions
  /\ peer \in [NcSessions -> {"reads", "stalls", "gone"}]
  /\ \A s \in NcSessions : Len(out[s]) <= OutDepth /\ Len(subs[s]) <= SubCap
  /\ writing \in [NcSessions -> BOOLEAN] /\ looking \in [NcSessions -> Nat]
  /\ wmu \in [NcSessions -> {"free", "rpc", "writer"}]
  /\ nextSub \in 1 .. MaxSubIds + 1 /\ deletedNc \subseteq SubIds
  /\ answered \subseteq SubIds /\ trailer \subseteq NcSessions
  /\ stop \in {"no", "closed", "cancelled", "returned"}

NcInit ==
  /\ dialect \in {"iosxe", "junos"}
  /\ port = [admin |-> "up", link |-> "up"] /\ portMoves = 0 /\ toCast = {}
  /\ order = [top |-> 0, behind |-> FALSE]
  /\ evq = << >> /\ evLost = FALSE /\ refs = 0 /\ members = << >> /\ disp = Quiet
  /\ sess = [s \in NcSessions |-> AtPc("absent")]
  /\ closedNc = {} /\ peer = [s \in NcSessions |-> "reads"] /\ holds = {}
  /\ subs = [s \in NcSessions |-> << >>] /\ evsubs = [s \in NcSessions |-> << >>]
  /\ deletedNc = {} /\ skip = [s \in NcSessions |-> 0]
  /\ out = [s \in NcSessions |-> << >>] /\ writing = [s \in NcSessions |-> FALSE]
  /\ writer = [s \in NcSessions |-> NotWriting]
  /\ looking = [s \in NcSessions |-> 0] /\ wmu = [s \in NcSessions |-> "free"]
  /\ nextSub = 1 /\ view = [k \in SubIds |-> Unsynced]
  /\ answered = {} /\ trailer = {} /\ stop = "no"

(***************************************************************************)
(* The state engine: an admin change broadcasts an admin event and, when   *)
(* it moved the derived oper status, an oper event of the same instant.    *)
(* Broadcasting is after the change and under no lock, so the events of    *)
(* two mutators may come in either order.                                  *)
(***************************************************************************)
OperNow(p) == IF p.admin = "up" THEN p.link ELSE p.admin

MovePort(new, moved) ==
  LET ev(name) == [leaf |-> name, prev |-> OperNow(port), oper |-> OperNow(new),
                   admin |-> new.admin, link |-> new.link, at |-> portMoves + 1]
      operMoved == OperNow(port) # OperNow(new) IN
  /\ portMoves < MaxNcMoves /\ Cardinality(toCast) < MaxMutators /\ new # port
  /\ port' = new /\ portMoves' = portMoves + 1
  /\ toCast' = toCast \cup ({(IF moved = "admin" THEN <<ev("admin")>> ELSE << >>)
                            \o (IF operMoved THEN <<ev("oper")>> ELSE << >>)} \ {<< >>})
  /\ UNCHANGED <<dialect, order, evq, evLost, refs, members, disp, sess, closedNc, peer, holds,
                 subVarsNc, skip, pushVars, wmu, wireVarsNc, stop>>

SetAdmin(a) == MovePort([port EXCEPT !.admin = a], "admin")
SetLink(l) == MovePort([port EXCEPT !.link = l], "link")

BroadcastNc(mine) ==
  LET e == Head(mine) IN
  /\ toCast' = (toCast \ {mine}) \cup ({Tail(mine)} \ {<< >>})
  /\ order' = [top |-> IF e.at > order.top THEN e.at ELSE order.top,
               behind |-> IF e.at > order.top /\ e.prev # e.oper THEN FALSE
                          ELSE order.behind \/ e.at < order.top]
  /\ IF refs = 0 THEN UNCHANGED <<evq, evLost>>
     ELSE IF Len(evq) < EventDepthNc
     THEN evq' = Append(evq, e) /\ UNCHANGED evLost
     ELSE evq' = Append(Tail(evq), e) /\ evLost' = TRUE
  /\ UNCHANGED <<dialect, port, portMoves, refs, members, disp, sess, closedNc, peer,
                 holds, subVarsNc, skip, pushVars, wmu, wireVarsNc, stop>>

(***************************************************************************)
(* Rendering.                                                              *)
(***************************************************************************)
iosxeOperStatus(admin, oper) ==
  CASE admin = "down" -> "no-pass"
    [] admin = "testing" -> "test"
    [] oper = "up" -> "ready"
    [] OTHER -> "lower-layer-down"

SilentPair == {"no-pass", "lower-layer-down"}

iosxeSuppress(e) ==
  /\ e.link # "up" /\ e.leaf = "admin"
  /\ \/ e.prev = e.oper
     \/ e.prev = "down" /\ iosxeOperStatus(e.admin, e.oper) \in SilentPair

iosxeOperSequence(e) ==
  IF e.leaf = "admin" /\ e.admin = "up" /\ e.prev = "down" /\ e.oper = "up"
  THEN <<"invalid", "lower-layer-down", "ready">>
  ELSE <<iosxeOperStatus(e.admin, e.oper)>>

\* Newest subscription first: each one its steps but the last, then the last
\* step of all of them.
iosxePushes(s, e) ==
  LET to == Reverse(evsubs[s])
      steps == iosxeOperSequence(e)
      one(k, i) == [k |-> k, oper |-> steps[i]]
      early == [i \in 1 .. Len(to) |->
                  [j \in 1 .. Len(steps) - 1 |-> one(to[i], j)]] IN
  FlattenSeq(early) \o [i \in 1 .. Len(to) |-> one(to[i], Len(steps))]

\* The state form and the event form of the link trap, for the one subscription.
junosPushes(s, e) ==
  IF evsubs[s] = << >> \/ e.prev = e.oper THEN << >>
  ELSE LET p == [k |-> Head(evsubs[s]), oper |-> IF e.oper = "up" THEN "up" ELSE "down"]
       IN <<p, p>>

Twin(s, e) == e.leaf = "oper" /\ skip[s] = e.at

PushesFor(s, e) ==
  CASE Twin(s, e) -> << >>
    [] dialect = "junos" -> junosPushes(s, e)
    [] iosxeSuppress(e) -> << >>
    [] OTHER -> iosxePushes(s, e)

(***************************************************************************)
(* The dispatcher's run loop.                                              *)
(***************************************************************************)
InSelect == disp = Quiet

DispatchTake ==
  /\ refs > 0 /\ InSelect /\ evq # << >>
  /\ evq' = Tail(evq)
  /\ disp' = IF members = << >> THEN Quiet ELSE [Quiet EXCEPT !.ev = Head(evq), !.todo = members]
  /\ UNCHANGED <<dialect, engineVars, evLost, refs, members, sess, closedNc, peer, holds,
                 subVarsNc, skip, pushVars, wmu, wireVarsNc, stop>>

NextMember == IF Len(disp.todo) = 1 THEN Quiet
              ELSE [disp EXCEPT !.todo = Tail(@), !.pend = << >>, !.wake = FALSE]

\* iosxeStateEvent and junosStateEvent up to the first push.
DispatchRender ==
  LET s == Head(disp.todo)
      e == disp.ev IN
  /\ disp.todo # << >> /\ disp.pend = << >>
  /\ IF s \in closedNc THEN disp' = NextMember /\ UNCHANGED skip
     ELSE /\ skip' = [skip EXCEPT ![s] =
                        IF Twin(s, e) THEN 0
                        ELSE IF e.leaf = "admin" /\ e.prev # e.oper THEN e.at ELSE @]
          /\ disp' = IF PushesFor(s, e) = << >> THEN NextMember
                     ELSE [disp EXCEPT !.pend = PushesFor(s, e)]
  /\ UNCHANGED <<dialect, engineVars, evq, evLost, refs, members, sess, closedNc, peer,
                 holds, subVarsNc, pushVars, wmu, wireVarsNc, stop>>

\* enqueue: the push, which displaces the oldest when the outbox is full.
DispatchPush ==
  LET s == Head(disp.todo) IN
  /\ disp.pend # << >> /\ ~disp.wake
  /\ out' = [out EXCEPT ![s] = Append(IF Len(@) = OutDepth THEN Tail(@) ELSE @,
                                      Head(disp.pend))]
  /\ disp' = [disp EXCEPT !.wake = TRUE]
  /\ UNCHANGED <<dialect, engineVars, evq, evLost, refs, members, sess, closedNc, peer,
                 holds, subVarsNc, skip, writing, writer, looking, wmu, wireVarsNc, stop>>

\* enqueue: the writer is started when none runs.
DispatchWake ==
  LET s == Head(disp.todo) IN
  /\ disp.wake
  /\ IF writing[s] THEN UNCHANGED <<writing, writer>>
     ELSE /\ writing' = [writing EXCEPT ![s] = TRUE]
          /\ writer' = [writer EXCEPT ![s].pc = "top"]
  /\ disp' = IF Len(disp.pend) = 1 THEN NextMember
             ELSE [disp EXCEPT !.pend = Tail(@), !.wake = FALSE]
  /\ UNCHANGED <<dialect, engineVars, evq, evLost, refs, members, sess, closedNc, peer,
                 holds, subVarsNc, skip, out, looking, wmu, wireVarsNc, stop>>

Dispatcher == DispatchTake \/ DispatchRender \/ DispatchPush \/ DispatchWake

(***************************************************************************)
(* The writer.  A write blocks while the client does not read and fails    *)
(* once the client or the session is gone.                                 *)
(***************************************************************************)
WriteSucceeds(s) == peer[s] = "reads" /\ s \notin closedNc
WriteFails(s) == peer[s] = "gone" \/ s \in closedNc

WriterTo(s, pc, p) == writer' = [writer EXCEPT ![s] = [pc |-> pc, p |-> p]]

\* A closed session leaves writing set, so no writer starts again.
WriterTop(s) ==
  /\ writer[s].pc = "top"
  /\ IF s \in closedNc THEN WriterTo(s, "none", NoPushNc) /\ UNCHANGED out
     ELSE IF out[s] = << >> THEN WriterTo(s, "empty", NoPushNc) /\ UNCHANGED out
     ELSE WriterTo(s, "lock", Head(out[s])) /\ out' = [out EXCEPT ![s] = Tail(@)]
  /\ UNCHANGED <<dialect, engineVars, evq, evLost, refs, members, disp, sess, closedNc,
                 peer, holds, subVarsNc, skip, writing, looking, wmu, wireVarsNc, stop>>

\* The Store after the empty pop; from here another writer may start.
WriterStores(s) ==
  /\ writer[s].pc = "empty"
  /\ WriterTo(s, "none", NoPushNc)
  /\ writing' = [writing EXCEPT ![s] = FALSE]
  /\ looking' = [looking EXCEPT ![s] = @ + 1]
  /\ UNCHANGED <<dialect, engineVars, evq, evLost, refs, members, disp, sess, closedNc,
                 peer, holds, subVarsNc, skip, out, wmu, wireVarsNc, stop>>

\* Slip: the writer does not look again.
WriterLeaves(s) ==
  /\ looking[s] > 0
  /\ looking' = [looking EXCEPT ![s] = @ - 1]
  /\ UNCHANGED <<dialect, engineVars, evq, evLost, refs, members, disp, sess, closedNc,
                 peer, holds, subVarsNc, skip, out, writing, writer, wmu, wireVarsNc, stop>>

\* The look after the Store: a push may have landed and started nothing.
WriterLooks(s) ==
  /\ looking[s] > 0
  /\ looking' = [looking EXCEPT ![s] = @ - 1]
  /\ IF out[s] = << >> \/ writing[s] THEN UNCHANGED <<writing, writer>>
     ELSE writing' = [writing EXCEPT ![s] = TRUE] /\ WriterTo(s, "top", NoPushNc)
  /\ UNCHANGED <<dialect, engineVars, evq, evLost, refs, members, disp, sess, closedNc,
                 peer, holds, subVarsNc, skip, out, wmu, wireVarsNc, stop>>

LockAndTest(s, stale) ==
  /\ writer[s].pc = "lock" /\ wmu[s] = "free"
  /\ IF s \in closedNc THEN WriterTo(s, "none", NoPushNc) /\ UNCHANGED wmu
     ELSE IF stale THEN WriterTo(s, "top", NoPushNc) /\ UNCHANGED wmu
     ELSE WriterTo(s, "write", writer[s].p) /\ wmu' = [wmu EXCEPT ![s] = "writer"]
  /\ UNCHANGED <<dialect, engineVars, evq, evLost, refs, members, disp, sess, closedNc,
                 peer, holds, subVarsNc, skip, out, writing, looking, wireVarsNc, stop>>

\* closed and deleted are tested under wmu, right before the write.
WriterLock(s) == LockAndTest(s, writer[s].p.k \in deletedNc)

WriterWrites(s) ==
  /\ writer[s].pc = "write" /\ WriteSucceeds(s)
  /\ view' = [view EXCEPT ![writer[s].p.k] = writer[s].p.oper]
  /\ wmu' = [wmu EXCEPT ![s] = "free"] /\ WriterTo(s, "top", NoPushNc)
  /\ UNCHANGED <<dialect, engineVars, evq, evLost, refs, members, disp, sess, closedNc,
                 peer, holds, subVarsNc, skip, out, writing, looking, answered, trailer,
                 stop>>

\* A write error closes the session.
WriterFails(s) ==
  /\ writer[s].pc = "write" /\ WriteFails(s)
  /\ closedNc' = closedNc \cup {s}
  /\ wmu' = [wmu EXCEPT ![s] = "free"] /\ WriterTo(s, "none", NoPushNc)
  /\ UNCHANGED <<dialect, engineVars, evq, evLost, refs, members, disp, sess, peer, holds,
                 subVarsNc, skip, out, writing, looking, wireVarsNc, stop>>

Writer(s) ==
  \/ WriterTop(s) \/ WriterStores(s) \/ WriterLooks(s)
  \/ WriterLock(s) \/ WriterWrites(s) \/ WriterFails(s)

(***************************************************************************)
(* The session's goroutine: Serve, the requests, teardown.                 *)
(***************************************************************************)
SessTo(s, pc) == sess' = [sess EXCEPT ![s] = AtPc(pc)]
SessWith(s, pc, k, row) == sess' = [sess EXCEPT ![s] = [pc |-> pc, k |-> k, row |-> row]]

ServeBegins(s) ==
  /\ sess[s].pc = "absent" /\ stop \in {"no", "closed"}
  /\ SessTo(s, "hello")
  /\ UNCHANGED <<dialect, engineVars, evq, evLost, refs, members, disp, closedNc, peer,
                 holds, subVarsNc, skip, pushVars, wmu, wireVarsNc, stop>>

\* The hellos are exchanged; startEvents acquires the dispatcher.
HelloDone(s) ==
  /\ sess[s].pc = "hello" /\ WriteSucceeds(s)
  /\ refs' = refs + 1 /\ holds' = holds \cup {s}
  /\ SessTo(s, "join")
  /\ UNCHANGED <<dialect, engineVars, evq, evLost, members, disp, closedNc, peer,
                 subVarsNc, skip, pushVars, wmu, wireVarsNc, stop>>

\* The run loop takes the join and drains its channel before it adds the session.
Joined(s) ==
  /\ sess[s].pc = "join" /\ InSelect /\ evq = << >>
  /\ members' = Append(members, s)
  /\ SessTo(s, "serve")
  /\ UNCHANGED <<dialect, engineVars, evq, evLost, refs, disp, closedNc, peer, holds,
                 subVarsNc, skip, pushVars, wmu, wireVarsNc, stop>>

JoinGivesUp(s) ==
  /\ sess[s].pc = "join" /\ stop = "cancelled"
  /\ SessTo(s, "serve")
  /\ UNCHANGED <<dialect, engineVars, evq, evLost, refs, members, disp, closedNc, peer,
                 holds, subVarsNc, skip, pushVars, wmu, wireVarsNc, stop>>

\* A read or the hello's write ends with an error, or the first message is not a hello.
ReadEnds(s) ==
  /\ \/ sess[s].pc \in {"hello", "serve"} /\ WriteFails(s)
     \/ sess[s].pc = "hello" /\ WriteSucceeds(s)
  /\ SessTo(s, "teardown")
  /\ UNCHANGED <<dialect, engineVars, evq, evLost, refs, members, disp, closedNc, peer,
                 holds, subVarsNc, skip, pushVars, wmu, wireVarsNc, stop>>

Reads(s) == sess[s].pc = "serve" /\ s \notin closedNc /\ peer[s] = "reads"

\* handleEstablish up to the reply; a request at the cap only gets an error.
Establish(s) ==
  /\ dialect = "iosxe" /\ Reads(s)
  /\ Len(subs[s]) < SubCap /\ nextSub <= MaxSubIds
  /\ nextSub' = nextSub + 1
  /\ SessWith(s, "established", nextSub, Unsynced)
  /\ UNCHANGED <<dialect, engineVars, evq, evLost, refs, members, disp, closedNc, peer,
                 holds, subs, evsubs, deletedNc, skip, pushVars, wmu, wireVarsNc, stop>>

\* The subscription becomes visible once its reply is on the wire.
EstablishReply(s) ==
  /\ sess[s].pc = "established" /\ wmu[s] = "free"
  /\ \/ WriteSucceeds(s) /\ subs' = [subs EXCEPT ![s] = Append(@, sess[s].k)]
        /\ SessWith(s, "sync", sess[s].k, Unsynced)
     \/ WriteFails(s) /\ SessTo(s, "teardown") /\ UNCHANGED subs
  /\ UNCHANGED <<dialect, engineVars, evq, evLost, refs, members, disp, closedNc, peer,
                 holds, evsubs, deletedNc, nextSub, skip, pushVars, wmu, wireVarsNc, stop>>

\* syncOnStart takes wmu, then publishes the subscription to the dispatcher.
SyncBegins(s) ==
  /\ sess[s].pc = "sync" /\ wmu[s] = "free"
  /\ wmu' = [wmu EXCEPT ![s] = "rpc"]
  /\ evsubs' = [evsubs EXCEPT ![s] = Append(@, sess[s].k)]
  /\ SessWith(s, "syncRead", sess[s].k, Unsynced)
  /\ UNCHANGED <<dialect, engineVars, evq, evLost, refs, members, disp, closedNc, peer,
                 holds, subs, deletedNc, nextSub, skip, pushVars, wireVarsNc, stop>>

SyncReads(s) ==
  /\ sess[s].pc = "syncRead"
  /\ SessWith(s, "syncWrite", sess[s].k, iosxeOperStatus(port.admin, OperNow(port)))
  /\ UNCHANGED <<dialect, engineVars, evq, evLost, refs, members, disp, closedNc, peer,
                 holds, subVarsNc, skip, pushVars, wmu, wireVarsNc, stop>>

SyncWrites(s) ==
  /\ sess[s].pc = "syncWrite"
  /\ \/ WriteSucceeds(s) /\ view' = [view EXCEPT ![sess[s].k] = sess[s].row]
        /\ UNCHANGED closedNc
     \/ WriteFails(s) /\ closedNc' = closedNc \cup {s} /\ UNCHANGED view
  /\ wmu' = [wmu EXCEPT ![s] = IF @ = "rpc" THEN "free" ELSE @]
  /\ SessTo(s, "serve")
  /\ UNCHANGED <<dialect, engineVars, evq, evLost, refs, members, disp, peer, holds,
                 subVarsNc, skip, pushVars, answered, trailer, stop>>

\* handleDelete with onUnsubscribe; the reply follows.
Delete(s, k) ==
  /\ dialect = "iosxe" /\ Reads(s) /\ k \in Range(subs[s])
  /\ subs' = [subs EXCEPT ![s] = Remove(@, k)]
  /\ evsubs' = [evsubs EXCEPT ![s] = Remove(@, k)]
  /\ deletedNc' = deletedNc \cup {k}
  /\ SessWith(s, "reply", k, Unsynced)
  /\ UNCHANGED <<dialect, engineVars, evq, evLost, refs, members, disp, closedNc, peer,
                 holds, nextSub, skip, pushVars, wmu, wireVarsNc, stop>>

\* junosSubscribe publishes first, and only the first time; the reply follows.
JunosSubscribe(s) ==
  /\ dialect = "junos" /\ Reads(s) /\ subs[s] = << >> /\ nextSub <= MaxSubIds
  /\ subs' = [subs EXCEPT ![s] = <<nextSub>>]
  /\ evsubs' = [evsubs EXCEPT ![s] = <<nextSub>>]
  /\ nextSub' = nextSub + 1
  /\ SessTo(s, "reply")
  /\ UNCHANGED <<dialect, engineVars, evq, evLost, refs, members, disp, closedNc, peer,
                 holds, deletedNc, skip, pushVars, wmu, wireVarsNc, stop>>

\* kill-session closes the other session; the reply follows.
Kill(s, v) ==
  /\ Reads(s) /\ v # s /\ Registered(v)
  /\ closedNc' = closedNc \cup {v}
  /\ SessTo(s, "reply")
  /\ UNCHANGED <<dialect, engineVars, evq, evLost, refs, members, disp, peer, holds,
                 subVarsNc, skip, pushVars, wmu, wireVarsNc, stop>>

Reply(s) ==
  /\ sess[s].pc = "reply" /\ wmu[s] = "free"
  /\ \/ WriteSucceeds(s) /\ answered' = answered \cup ({sess[s].k} \ {0})
        /\ SessTo(s, "serve")
     \/ WriteFails(s) /\ SessTo(s, "teardown") /\ UNCHANGED answered
  /\ UNCHANGED <<dialect, engineVars, evq, evLost, refs, members, disp, closedNc, peer,
                 holds, subVarsNc, skip, pushVars, wmu, view, trailer, stop>>

CloseHolding(s, mutex) ==
  /\ Reads(s) /\ wmu[s] = "free"
  /\ IF dialect = "iosxe" THEN SessTo(s, "teardown") /\ UNCHANGED <<wmu, trailer>>
     ELSE /\ wmu' = [wmu EXCEPT ![s] = mutex] /\ trailer' = trailer \cup {s}
          /\ SessTo(s, "closing")
  /\ UNCHANGED <<dialect, engineVars, evq, evLost, refs, members, disp, closedNc, peer,
                 holds, subVarsNc, skip, pushVars, view, answered, stop>>

\* close-session: IOS XE answers; Junos answers with the trailer and closes
\* under one hold of wmu.
CloseSession(s) == CloseHolding(s, "rpc")

JunosCloses(s) ==
  /\ sess[s].pc = "closing"
  /\ closedNc' = closedNc \cup {s}
  /\ wmu' = [wmu EXCEPT ![s] = IF @ = "rpc" THEN "free" ELSE @]
  /\ SessTo(s, "teardown")
  /\ UNCHANGED <<dialect, engineVars, evq, evLost, refs, members, disp, peer, holds,
                 subVarsNc, skip, pushVars, wireVarsNc, stop>>

Request(s) ==
  \/ Establish(s) \/ JunosSubscribe(s) \/ CloseSession(s)
  \/ \E k \in SubIds : Delete(s, k)
  \/ \E v \in NcSessions : Kill(s, v)

Teardown(s) ==
  /\ sess[s].pc = "teardown"
  /\ deletedNc' = deletedNc \cup Range(subs[s])
  /\ subs' = [subs EXCEPT ![s] = << >>]
  /\ evsubs' = [evsubs EXCEPT ![s] = << >>]
  /\ SessTo(s, IF s \in holds THEN "leave" ELSE "ending")
  /\ UNCHANGED <<dialect, engineVars, evq, evLost, refs, members, disp, closedNc, peer,
                 holds, nextSub, skip, pushVars, wmu, wireVarsNc, stop>>

\* onEnd: unregister waits for the run loop to take the leave.
Leave(s) ==
  /\ sess[s].pc = "leave" /\ InSelect
  /\ members' = Remove(members, s)
  /\ SessTo(s, "release")
  /\ UNCHANGED <<dialect, engineVars, evq, evLost, refs, disp, closedNc, peer, holds,
                 subVarsNc, skip, pushVars, wmu, wireVarsNc, stop>>

\* releaseDispatcher; the last holder stops the run loop, which removes its listener.
Release(s) ==
  /\ sess[s].pc = "release"
  /\ refs = 1 => InSelect
  /\ refs' = refs - 1 /\ holds' = holds \ {s}
  /\ evq' = IF refs = 1 THEN << >> ELSE evq
  /\ SessTo(s, "ending")
  /\ UNCHANGED <<dialect, engineVars, evLost, members, disp, closedNc, peer, subVarsNc,
                 skip, pushVars, wmu, wireVarsNc, stop>>

\* Serve's last defers: cancel, close, remove from the registry.
ServeEnds(s) ==
  /\ sess[s].pc = "ending"
  /\ closedNc' = closedNc \cup {s}
  /\ SessTo(s, "wait")
  /\ UNCHANGED <<dialect, engineVars, evq, evLost, refs, members, disp, peer, holds,
                 subVarsNc, skip, pushVars, wmu, wireVarsNc, stop>>

\* waitEvents.
WaitEvents(s) ==
  /\ sess[s].pc = "wait" /\ writer[s].pc = "none" /\ looking[s] = 0
  /\ SessTo(s, "done") /\ out' = [out EXCEPT ![s] = << >>]
  /\ UNCHANGED <<dialect, engineVars, evq, evLost, refs, members, disp, closedNc, peer,
                 holds, subVarsNc, skip, writing, writer, looking, wmu, wireVarsNc, stop>>

\* The steps that follow a request or an end without another input.
Continue(s) ==
  \/ HelloDone(s) \/ Joined(s) \/ JoinGivesUp(s) \/ ReadEnds(s)
  \/ EstablishReply(s) \/ SyncBegins(s) \/ SyncReads(s) \/ SyncWrites(s) \/ Reply(s)
  \/ JunosCloses(s) \/ Teardown(s) \/ Leave(s) \/ Release(s) \/ ServeEnds(s) \/ WaitEvents(s)

(***************************************************************************)
(* The client and stopNetconfServer.                                       *)
(***************************************************************************)
PeerTo(s, p) ==
  /\ sess[s].pc \notin {"absent", "done"}
  /\ peer' = [peer EXCEPT ![s] = p]
  /\ UNCHANGED <<dialect, engineVars, evq, evLost, refs, members, disp, sess, closedNc,
                 holds, subVarsNc, skip, pushVars, wmu, wireVarsNc, stop>>

PeerStalls(s) == peer[s] = "reads" /\ PeerTo(s, "stalls")
PeerGoes(s) == peer[s] # "gone" /\ PeerTo(s, "gone")

StopTo(at, conns) ==
  /\ stop' = at /\ closedNc' = closedNc \cup conns
  /\ UNCHANGED <<dialect, engineVars, evq, evLost, refs, members, disp, sess, peer, holds,
                 subVarsNc, skip, pushVars, wmu, wireVarsNc>>

\* reg.closeAll.
StopCloses == stop = "no" /\ StopTo("closed", {s \in NcSessions : Registered(s)})

\* The listener's Close cancels its context ...
StopCancels == stop = "closed" /\ StopTo("cancelled", {})

\* ... which closes a session that registered after closeAll ...
CtxCloses(s) ==
  /\ stop = "cancelled" /\ Registered(s) /\ s \notin closedNc
  /\ StopTo("cancelled", {s})

\* ... and waits for every goroutine.
StopReturns ==
  /\ stop = "cancelled" /\ \A s \in NcSessions : sess[s].pc \in {"absent", "done"}
  /\ StopTo("returned", {})

NcNext ==
  \/ \E a \in Opers : SetAdmin(a)
  \/ \E l \in {"up", "down"} : SetLink(l)
  \/ \E mine \in toCast : BroadcastNc(mine)
  \/ Dispatcher \/ StopCloses \/ StopCancels \/ StopReturns
  \/ \E s \in NcSessions :
       \/ ServeBegins(s) \/ Continue(s) \/ Request(s) \/ Writer(s)
       \/ PeerStalls(s) \/ PeerGoes(s) \/ CtxCloses(s)

NcSpec == NcInit /\ [][NcNext]_ncVars
-------------------------------------------------------------------------------
\* runWriter: no push for a subscription follows the reply to its deletion.
NoPushAfterDelete ==
  \A s \in NcSessions : writer[s].pc = "write" => writer[s].p.k \notin answered

\* junosRPC: nothing follows the session-end trailer of a Junos session.
NothingAfterTrailer == \A s \in trailer : writer[s].pc # "write"

\* syncOnStart: a change push never overtakes the sync of its subscription.
SyncComesFirst ==
  \A s \in NcSessions :
    dialect = "iosxe" /\ writer[s].pc = "write" => view[writer[s].p.k] # Unsynced

\* runWriter and enqueue: a push in the outbox of a live session has a writer,
\* or one that is about to look, or one about to be started.
NoStrandedPush ==
  \A s \in NcSessions :
    out[s] # << >> /\ s \notin closedNc =>
      \/ writer[s].pc # "none" \/ looking[s] > 0
      \/ disp.wake /\ Head(disp.todo) = s

\* acquireDispatcher and releaseDispatcher: the count is exact, only holders are
\* dispatched to, and a stopped dispatcher has no session left.
DispatcherHeld ==
  /\ refs = Cardinality(holds)
  /\ Range(members) \subseteq holds
  /\ Range(disp.todo) \subseteq Range(members)

ShownIs(shown, p) ==
  IF dialect = "junos" THEN shown \in {Unsynced, IF OperNow(p) = "up" THEN "up" ELSE "down"}
  ELSE LET now == iosxeOperStatus(p.admin, OperNow(p)) IN
       shown = now \/ {shown, now} \subseteq SilentPair

\* Once everything in flight has settled, a client whose events were not
\* dropped by the engine shows the current oper status, up to the pair the
\* switch does not tell apart; pushes the outbox displaced do not matter as
\* long as one event's pushes fit in it.  Two mutators may broadcast in the
\* other order than they changed the interface (Broadcast follows the unlock);
\* then the client shows the older status until the oper status moves again.
QuietSessionIsCurrent ==
  \A s \in NcSessions :
    /\ toCast = {} /\ ~order.behind /\ evq = << >> /\ InSelect /\ ~evLost
    /\ s \notin closedNc /\ s \in Range(members) /\ sess[s].pc = "serve"
    /\ out[s] = << >> /\ writer[s].pc = "none"
    /\ Len(evsubs[s]) <= OutDepth
    => \A k \in Range(evsubs[s]) : ShownIs(view[k], port)

\* stopNetconfServer: the Close it waits in returns, whatever the clients do,
\* and leaves no dispatcher.
NcStopReturns == stop = "cancelled" ~> stop = "returned" /\ refs = 0

\* Pushes reach a session in an order its client can follow, none is stranded, and a
\* session at rest shows the current state (netconf_events.go, netconf_session.go).
NetconfKept ==
  /\ NcTypeOK /\ NoPushAfterDelete /\ NothingAfterTrailer
  /\ SyncComesFirst /\ NoStrandedPush /\ DispatcherHeld
  /\ QuietSessionIsCurrent
=============================================================================
