---------------------------- MODULE InterfaceState ----------------------------
(***************************************************************************)
(* The interface state engine of one device (interface_state.go): a packed *)
(* word per interface with link, admin-status and the time of the last     *)
(* operational change, mutated by compare-and-swap from several goroutines *)
(* (REST, the flap scheduler, auto-reverts, SNMP SET).  ifOperStatus is    *)
(* derived, never stored, and an interface below another one follows it.   *)
(* A mutator reports what moved as events, which it broadcasts after its   *)
(* lock is released: first to the counter hold, then to an ON_CHANGE       *)
(* listener over a channel that drops its oldest event when full.          *)
(***************************************************************************)
EXTENDS Integers, Sequences, FiniteSets, SequencesExt

CONSTANTS
  Parent,        \* the parent table: interface |-> its parent, 0 at the top level
  Threads,       \* mutating goroutines
  AdminTargets,  \* admin values the callers ask for
  MaxMutations,  \* bound on the mutator calls
  MaxClock,      \* bound on the wall clock
  ChanCap        \* depth of the listener's channel (onChangeBufferDepth)

VARIABLES
  word,       \* the engine's words: [link, admin, rel]
  wall,       \* the wall clock; the engine was built at BootTime
  familyMu,   \* the holder of familyMu, or NoThread
  mut,        \* per thread: where its mutator call stands
  calls,      \* mutator calls so far
  reported,   \* last operational state and stamp an event was built for
  held,       \* interfaces whose counters are held
  chan,       \* the listener's channel
  tally       \* events offered, received and dropped

ifvars == <<word, wall, familyMu, mut, calls, reported, held, chan, tally>>

Ifs == DOMAIN Parent

ASSUME ParentAssumption ==
  /\ Ifs \subseteq Nat \ {0}
  /\ \A i \in Ifs : Parent[i] \in Ifs \cup {0}
  /\ \A i \in Ifs : Parent[i] # 0 => Parent[Parent[i]] = 0

NoThread == "none"
Up == 1
Down == 2
Testing == 3
LowerLayerDown == 7
Links == {Up, Down}
Admins == {Up, Down, Testing}
BootTime == 1
Sentinel == -1

Children(i) == SetToSortSeq({c \in Ifs : Parent[c] = i}, LAMBDA a, b : a < b)
InFamily(i) == Parent[i] # 0 \/ Children(i) # <<>>
-------------------------------------------------------------------------------
(* Derivation. *)

\* deriveOper: admin down and testing force, admin up releases to the link.
DeriveOper(admin, link) == IF admin = Up THEN link ELSE admin

\* deriveChildOper: an interface that would be up reads lowerLayerDown while
\* the one beneath it is not up.
DeriveChildOper(admin, link, parentOper) ==
  LET oper == DeriveOper(admin, link) IN
  IF oper = Up /\ parentOper # Up THEN LowerLayerDown ELSE oper

ParentOper(i) == IF Parent[i] = 0 THEN Up
                 ELSE DeriveOper(word[Parent[i]].admin, word[Parent[i]].link)

\* OperStatus and the oper of Snapshot.
OperStatus(i) == DeriveChildOper(word[i].admin, word[i].link, ParentOper(i))

\* wallRelNs: nanoseconds since boot, or the sentinel after a step back past it.
WallRel(now) == IF now < BootTime THEN Sentinel ELSE now - BootTime
-------------------------------------------------------------------------------
Idle == [pc |-> "idle"]
MutWith(th, m) == mut' = [mut EXCEPT ![th] = m]
NextPc(th, pc) == MutWith(th, [mut[th] EXCEPT !.pc = pc])

Free(th) == IF familyMu = th THEN NoThread ELSE familyMu

\* A slip: no lock for a member of a family.
CallUnlocked(th, which, i, target) ==
  /\ mut[th].pc = "idle" /\ calls < MaxMutations
  /\ calls' = calls + 1
  /\ MutWith(th, [pc |-> "load", leaf |-> which, i |-> i, target |-> target,
                  cur |-> word[i], at |-> 0, kids |-> <<>>, was |-> Up, now |-> Up,
                  events |-> <<>>])
  /\ UNCHANGED <<word, wall, familyMu, reported, held, chan, tally>>

\* SetLinkState or setAdminLeaf is called; lockFamily blocks while another thread
\* moves a member of a family.
Call(th, which, i, target) ==
  /\ mut[th].pc = "idle" /\ calls < MaxMutations
  /\ InFamily(i) => familyMu = NoThread
  /\ familyMu' = IF InFamily(i) THEN th ELSE familyMu
  /\ calls' = calls + 1
  /\ MutWith(th, [pc |-> "load", leaf |-> which, i |-> i, target |-> target,
                  cur |-> word[i], at |-> 0, kids |-> <<>>, was |-> Up, now |-> Up,
                  events |-> <<>>])
  /\ UNCHANGED <<word, wall, reported, held, chan, tally>>

\* The loop's load; the call ends when the leaf is already at its target.
Load(th) ==
  LET m == mut[th]
      cur == word[m.i] IN
  /\ m.pc = "load"
  /\ IF cur[m.leaf] = m.target
     THEN MutWith(th, Idle) /\ familyMu' = Free(th)
     ELSE MutWith(th, [m EXCEPT !.pc = "cas", !.cur = cur, !.at = wall]) /\ UNCHANGED familyMu
  /\ UNCHANGED <<word, wall, calls, reported, held, chan, tally>>

Event(i, which, oper, at) == [i |-> i, leaf |-> which, oper |-> oper, at |-> at]

\* ifLastChange moves only with the derived operational state.
Stamp(moved, cur, at) == IF moved THEN WallRel(at) ELSE cur.rel

\* The compare-and-swap: store, stamp a visible transition and build the events
\* (admin first), or load again when another thread was faster.
CompareAndSwap(th) ==
  LET m == mut[th]
      new == [m.cur EXCEPT ![m.leaf] = m.target]
      was == DeriveChildOper(m.cur.admin, m.cur.link, ParentOper(m.i))
      now == DeriveChildOper(new.admin, new.link, ParentOper(m.i))
      rel == Stamp(was # now, m.cur, m.at)
      adminEvent == IF m.leaf = "admin" THEN <<Event(m.i, "admin", now, rel)>> ELSE <<>>
      operEvent == IF was # now THEN <<Event(m.i, "oper", now, rel)>> ELSE <<>> IN
  /\ m.pc = "cas"
  /\ IF word[m.i] # m.cur
     THEN NextPc(th, "load") /\ UNCHANGED <<word, reported>>
     ELSE /\ word' = [word EXCEPT ![m.i] = [new EXCEPT !.rel = rel]]
          /\ reported' = IF was # now THEN [reported EXCEPT ![m.i] = [oper |-> now, rel |-> rel]]
                         ELSE reported
          /\ MutWith(th, [m EXCEPT !.pc = "cascade", !.events = adminEvent \o operEvent,
                                   !.was = was, !.now = now,
                                   !.kids = IF was # now THEN Children(m.i) ELSE <<>>])
  /\ UNCHANGED <<wall, familyMu, calls, held, chan, tally>>

\* cascadeChildren, one child: stamped and reported when its derived state moved
\* with the parent's; link and admin stay.
CascadeOne(th) ==
  LET m == mut[th]
      c == Head(m.kids)
      was == DeriveChildOper(word[c].admin, word[c].link, m.was)
      now == DeriveChildOper(word[c].admin, word[c].link, m.now)
      rel == WallRel(m.at) IN
  /\ m.pc = "cascade" /\ m.kids # <<>>
  /\ IF was = now
     THEN MutWith(th, [m EXCEPT !.kids = Tail(@)]) /\ UNCHANGED <<word, reported>>
     ELSE /\ word' = [word EXCEPT ![c].rel = rel]
          /\ reported' = [reported EXCEPT ![c] = [oper |-> now, rel |-> rel]]
          /\ MutWith(th, [m EXCEPT !.kids = Tail(@), !.events = Append(@, Event(c, "oper", now, rel))])
  /\ UNCHANGED <<wall, familyMu, calls, held, chan, tally>>

\* The mutator returns: the deferred unlock; the caller broadcasts what it got.
Return(th) ==
  /\ mut[th].pc = "cascade" /\ mut[th].kids = <<>>
  /\ familyMu' = Free(th)
  /\ MutWith(th, IF mut[th].events = <<>> THEN Idle ELSE [pc |-> "send", events |-> mut[th].events])
  /\ UNCHANGED <<word, wall, calls, reported, held, chan, tally>>
-------------------------------------------------------------------------------
(* Broadcast, one event at a time. *)

\* reconcileHoldAt reads the engine, not the event.
HeldAfter(e) == IF OperStatus(e.i) = Up THEN held \ {e.i} ELSE held \cup {e.i}

Sent(th) == MutWith(th, IF Len(mut[th].events) = 1 THEN Idle
                        ELSE [pc |-> "send", events |-> Tail(mut[th].events)])

\* onOper first, so that a listener that reads counters finds them held; then the
\* fast path of the send, or a full channel.
Send(th) ==
  LET e == Head(mut[th].events) IN
  /\ mut[th].pc = "send"
  /\ held' = IF e.leaf = "oper" THEN HeldAfter(e) ELSE held
  /\ IF Len(chan) < ChanCap
     THEN /\ chan' = Append(chan, e)
          /\ tally' = [tally EXCEPT !.ended = @ + 1]
          /\ Sent(th)
     ELSE NextPc(th, "drain") /\ UNCHANGED <<chan, tally>>
  /\ UNCHANGED <<word, wall, familyMu, calls, reported>>

\* The oldest event is dropped, unless the listener emptied the channel meanwhile.
Drain(th) ==
  /\ mut[th].pc = "drain"
  /\ IF chan = <<>> THEN UNCHANGED <<chan, tally>>
     ELSE chan' = Tail(chan) /\ tally' = [tally EXCEPT !.dropped = @ + 1]
  /\ NextPc(th, "retry")
  /\ UNCHANGED <<word, wall, familyMu, calls, reported, held>>

\* One more try; a channel another broadcast filled costs this event.
Retry(th) ==
  /\ mut[th].pc = "retry"
  /\ IF Len(chan) < ChanCap
     THEN chan' = Append(chan, Head(mut[th].events)) /\ tally' = [tally EXCEPT !.ended = @ + 1]
     ELSE tally' = [tally EXCEPT !.ended = @ + 1, !.dropped = @ + 1] /\ UNCHANGED chan
  /\ Sent(th)
  /\ UNCHANGED <<word, wall, familyMu, calls, reported, held>>

\* The subscriber's goroutine.
Receive ==
  /\ chan # <<>>
  /\ chan' = Tail(chan)
  /\ tally' = [tally EXCEPT !.received = @ + 1]
  /\ UNCHANGED <<word, wall, familyMu, mut, calls, reported, held>>

\* The wall clock advances, or an NTP step sets it back before the
\* boot time, where this model leaves it.
Clock ==
  /\ calls < MaxMutations
  /\ \/ wall \in BootTime..(MaxClock - 1) /\ wall' = wall + 1
     \/ wall = MaxClock /\ wall' = BootTime - 1
  /\ UNCHANGED <<word, familyMu, mut, calls, reported, held, chan, tally>>
-------------------------------------------------------------------------------
\* The seed under -if-scenario 2 (all up) or 3 (all links failed), and seedHolds: a
\* seed is no transition, and what boots down is held from the start.
InterfaceInit ==
  /\ \E link \in Links : word = [i \in Ifs |-> [link |-> link, admin |-> Up, rel |-> 0]]
  /\ wall = BootTime /\ familyMu = NoThread /\ calls = 0
  /\ mut = [th \in Threads |-> Idle]
  /\ reported = [i \in Ifs |-> [oper |-> OperStatus(i), rel |-> 0]]
  /\ held = {i \in Ifs : OperStatus(i) # Up}
  /\ chan = <<>>
  /\ tally = [ended |-> 0, received |-> 0, dropped |-> 0]

Steps(th) == Load(th) \/ CompareAndSwap(th) \/ CascadeOne(th) \/ Return(th)
             \/ Send(th) \/ Drain(th) \/ Retry(th)

InterfaceNext ==
  \/ \E th \in Threads : Steps(th)
  \/ \E th \in Threads, i \in Ifs :
       \/ \E target \in Links : Call(th, "link", i, target)
       \/ \E target \in AdminTargets : Call(th, "admin", i, target)
  \/ Receive \/ Clock

InterfaceSpec == InterfaceInit /\ [][InterfaceNext]_ifvars
-------------------------------------------------------------------------------
InterfaceTypeOK ==
  /\ \A i \in Ifs : word[i].link \in Links /\ word[i].admin \in Admins /\ word[i].rel \in -1..MaxClock
  /\ familyMu \in Threads \cup {NoThread}
  /\ held \subseteq Ifs
  /\ Len(chan) <= ChanCap

\* No operational change goes unreported and none is reported twice: outside a
\* cascade, what every reader derives for an interface is the value of the last
\* event built for it, and ifLastChange is that event's stamp, so a masked link
\* move or an admin change over a dead link never stamps (SetLinkState,
\* setAdminLeaf, cascadeChildren).
TransitionsReported ==
  \A i \in Ifs : (InFamily(i) => familyMu = NoThread) =>
    reported[i] = [oper |-> OperStatus(i), rel |-> word[i].rel]

\* ifLastChange of an interface never goes back while the wall clock has not been
\* set back, retries under contention included.
LastChangeMonotonic ==
  [][\A i \in Ifs : word[i].rel # Sentinel /\ word'[i].rel # Sentinel /\ wall >= BootTime =>
       word'[i].rel >= word[i].rel]_ifvars

\* Once every mutator call and its broadcasts are over, exactly the interfaces that
\* are not up have their counters held, in whatever order the hooks ran.
HoldConverges ==
  (\A th \in Threads : mut[th].pc = "idle") => held = {i \in Ifs : OperStatus(i) # Up}

\* Every event offered to the listener is received, waiting in its channel or
\* counted as dropped, with several producers racing on a full channel: the margin of one the
\* comment on Broadcast allows for contention is not needed.
EventsAccounted == tally.ended = tally.received + tally.dropped + Len(chan)

\* What readers, the listeners and the counter hold are told of an interface agrees
\* with its state word, whichever goroutines move it: see the conjuncts
\* (interface_state.go).
InterfacesReported ==
  /\ [](InterfaceTypeOK /\ TransitionsReported /\ HoldConverges /\ EventsAccounted)
  /\ LastChangeMonotonic
===============================================================================
