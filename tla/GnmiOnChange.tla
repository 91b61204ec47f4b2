---------------------------- MODULE GnmiOnChange -----------------------------
(***************************************************************************)
(* One ON_CHANGE Subscribe stream (gnmi_subscribe_onchange.go): admission, *)
(* the listener on the state engine, the initial snapshot, then events and *)
(* heartbeats until the client goes.  The engine changes a leaf first and  *)
(* broadcasts the event after, over a channel that drops its oldest; the   *)
(* stream never sends the value an event was built with, it reads again.   *)
(***************************************************************************)
EXTENDS Integers, Sequences, FiniteSets

CONSTANTS
  StateIfs,      \* interfaces of the device
  OnSubs,        \* subscriptions, in order
  Covers,        \* the leaves each covers: <<interface, leaf name>>
  Beating,       \* subscriptions with a heartbeat interval
  ListenDepth,   \* onChangeBufferDepth
  MaxChanges     \* bound: changes of leaves

ASSUME OnChangeConstants ==
  /\ Beating \subseteq DOMAIN OnSubs
  /\ ListenDepth \in Nat \ {0}

VARIABLES
  leaf,        \* the engine: <<interface, leaf name>> |-> value
  changes,     \* changes so far, the stamp of the next one
  cast,        \* events not yet broadcast
  heard,       \* the listener's channel
  listening,   \* the channel is registered
  lost,        \* events dropped from the channel
  stage,       \* where the handler stands
  turn,        \* the subscription it serves next
  event,       \* the event it is emitting
  beat,        \* heartbeats waiting in hbCh
  reader,      \* the client
  seen         \* the client's last value of each leaf

onVars == <<leaf, changes, cast, heard, listening, lost, stage, turn, event, beat,
            reader, seen>>

LeafNames == {"oper-status", "admin-status", "last-change"}
Leaves == StateIfs \X LeafNames
NoEvent == [if |-> 0, changed |-> "none"]
Unseen == -1

OnTypeOK ==
  /\ leaf \in [Leaves -> 0 .. MaxChanges] /\ changes \in 0 .. MaxChanges
  /\ cast \subseteq [if : StateIfs, changed : LeafNames, n : 1 .. MaxChanges]
  /\ Len(heard) <= ListenDepth /\ listening \in BOOLEAN /\ lost \in 0 .. MaxChanges
  /\ stage \in {"admit", "listen", "snapshot", "loop", "emit", "returned"}
  /\ turn \in 1 .. Len(OnSubs) + 1 /\ beat \subseteq Beating
  /\ reader \in {"reading", "gone"} /\ seen \in [Leaves -> Unseen .. MaxChanges]

OnInit ==
  /\ leaf = [l \in Leaves |-> 0] /\ changes = 0 /\ cast = {}
  /\ heard = << >> /\ listening = FALSE /\ lost = 0
  /\ stage = "admit" /\ turn = 1 /\ event = NoEvent
  /\ beat = {} /\ reader = "reading"
  /\ seen = [l \in Leaves |-> Unseen]

(***************************************************************************)
(* The engine.                                                             *)
(***************************************************************************)
Change(i, name) ==
  /\ changes < MaxChanges /\ name # "last-change"
  /\ changes' = changes + 1
  /\ leaf' = [leaf EXCEPT ![<<i, name>>] = changes', ![<<i, "last-change">>] = changes']
  /\ cast' = cast \cup {[if |-> i, changed |-> name, n |-> changes']}
  /\ UNCHANGED <<heard, listening, lost, stage, turn, event, beat, reader, seen>>

\* Broadcast: events of two mutators arrive in any order.
Broadcast(e) ==
  /\ e \in cast
  /\ cast' = cast \ {e}
  /\ IF ~listening THEN UNCHANGED <<heard, lost>>
     ELSE IF Len(heard) < ListenDepth
     THEN heard' = Append(heard, [if |-> e.if, changed |-> e.changed]) /\ UNCHANGED lost
     ELSE /\ heard' = Append(Tail(heard), [if |-> e.if, changed |-> e.changed])
          /\ lost' = lost + 1
  /\ UNCHANGED <<leaf, changes, listening, stage, turn, event, beat, reader, seen>>

(***************************************************************************)
(* The stream.                                                             *)
(***************************************************************************)
LeaveListening(kept) ==
  /\ stage' = "returned" /\ listening' = kept
  /\ heard' = << >> /\ event' = NoEvent /\ beat' = {} /\ turn' = 1
  /\ UNCHANGED <<leaf, changes, cast, lost, reader, seen>>

\* Every way out of the handler runs its deferred RemoveListener.
LeaveStream == LeaveListening(FALSE)

\* A path that covers a counter, a sensor or an optical leaf refuses the
\* stream, as does a request with more subscriptions than the cap.
Refused == stage = "admit" /\ LeaveStream

Admit ==
  /\ stage = "admit"
  /\ stage' = "listen"
  /\ UNCHANGED <<leaf, changes, cast, heard, listening, lost, turn, event, beat,
                 reader, seen>>

Show(leaves) == seen' = [l \in Leaves |-> IF l \in leaves THEN leaf[l] ELSE seen[l]]

Listen ==
  /\ stage = "listen"
  /\ listening' = TRUE /\ stage' = "snapshot"
  /\ UNCHANGED <<leaf, changes, cast, heard, lost, turn, event, beat, reader,
                 seen>>

\* Slip: the snapshot is read before the listener is registered.
SnapshotFirst ==
  /\ stage \in {"listen", "snapshot"} /\ reader = "reading"
  /\ turn <= Len(OnSubs)
  /\ Show(Covers[OnSubs[turn]])
  /\ turn' = turn + 1
  /\ UNCHANGED <<leaf, changes, cast, heard, listening, lost, stage, event, beat,
                 reader>>

Snapshot ==
  /\ stage = "snapshot" /\ reader = "reading"
  /\ turn <= Len(OnSubs)
  /\ Show(Covers[OnSubs[turn]])
  /\ turn' = turn + 1
  /\ UNCHANGED <<leaf, changes, cast, heard, listening, lost, stage, event, beat,
                 reader>>

\* The sync marker; the heartbeat goroutines start after it.
Sync ==
  /\ stage = "snapshot" /\ reader = "reading" /\ turn > Len(OnSubs)
  /\ stage' = "loop" /\ turn' = 1
  /\ UNCHANGED <<leaf, changes, cast, heard, listening, lost, event, beat, reader, seen>>

Hear ==
  /\ stage = "loop" /\ heard # << >>
  /\ event' = Head(heard) /\ heard' = Tail(heard)
  /\ stage' = "emit" /\ turn' = 1
  /\ UNCHANGED <<leaf, changes, cast, listening, lost, beat, reader, seen>>

\* subChangeMatch: last-change moves with every change of the interface.
SubChangeMatch(name, changed) == name = changed \/ name = "last-change"

\* changedUpdatesForPath, for each subscription in turn.
Emit ==
  /\ stage = "emit" /\ reader = "reading" /\ turn <= Len(OnSubs)
  /\ Show({l \in Covers[OnSubs[turn]] : l[1] = event.if /\ SubChangeMatch(l[2], event.changed)})
  /\ turn' = turn + 1
  /\ UNCHANGED <<leaf, changes, cast, heard, listening, lost, stage, event, beat,
                 reader>>

Emitted ==
  /\ stage = "emit" /\ turn > Len(OnSubs)
  /\ stage' = "loop" /\ event' = NoEvent /\ turn' = 1
  /\ UNCHANGED <<leaf, changes, cast, heard, listening, lost, beat, reader, seen>>

HeartbeatFires(s) ==
  /\ s \in Beating \ beat /\ stage \in {"loop", "emit"}
  /\ beat' = beat \cup {s}
  /\ UNCHANGED <<leaf, changes, cast, heard, listening, lost, stage, turn, event,
                 reader, seen>>

BeatShowing(s, leaves) ==
  /\ stage = "loop" /\ s \in beat /\ reader = "reading"
  /\ beat' = beat \ {s}
  /\ Show(leaves)
  /\ UNCHANGED <<leaf, changes, cast, heard, listening, lost, stage, turn, event,
                 reader>>

\* Slip: a heartbeat repeats what the client already has.
HeartbeatRepeats(s) == BeatShowing(s, {})

\* A heartbeat resolves the path again, not a cached value.
Heartbeat(s) == BeatShowing(s, Covers[OnSubs[s]])

\* A Send fails, a path does not resolve, or the loop sees the context done.
StreamEnds ==
  /\ stage \in {"snapshot", "emit", "loop"}
  /\ reader = "gone" \/ stage = "snapshot"
  /\ LeaveStream

ReaderGoes ==
  /\ reader = "reading" /\ stage # "returned"
  /\ reader' = "gone"
  /\ UNCHANGED <<leaf, changes, cast, heard, listening, lost, stage, turn, event,
                 beat, seen>>

Serve == Admit \/ Listen \/ Snapshot \/ Sync \/ Hear \/ Emit \/ Emitted
           \/ \E s \in Beating : Heartbeat(s)

OnNext ==
  \/ \E i \in StateIfs, name \in LeafNames : Change(i, name)
  \/ \E e \in cast : Broadcast(e)
  \/ Refused \/ Serve \/ StreamEnds \/ ReaderGoes
  \/ \E s \in Beating : HeartbeatFires(s)

(***************************************************************************)
(* Properties.                                                             *)
(***************************************************************************)
CurrentFor(s) == \A l \in Covers[OnSubs[s]] : seen[l] = leaf[l]

\* A stream that has nothing left to hear shows the client every subscribed
\* leaf as the engine has it, whatever raced with the snapshot and however
\* the events overtook each other, as long as the channel dropped none
\* ("register the listener BEFORE the initial snapshot Resolve").
QuietStreamIsCurrent ==
  (stage = "loop" /\ heard = << >> /\ cast = {} /\ lost = 0) =>
    \A s \in DOMAIN OnSubs : CurrentFor(s)

\* A call that has returned leaves no listener behind, which the engine
\* would go on filling.
NoListenerLeft == stage = "returned" => ~listening

\* A heartbeat makes good what the channel dropped: once the leaves rest, the
\* client of a subscription with a heartbeat has them right.
HeartbeatRepairs ==
  \A s \in Beating : <>[](stage \in {"admit", "returned"} \/ reader = "gone" \/ CurrentFor(s))
=============================================================================
