----------------------------- MODULE CounterHold -----------------------------
(***************************************************************************)
(* Interface counters that hold while an interface is not up               *)
(* (if_counter_hold.go, if_counter_rollup.go).  The octet dial is a        *)
(* function of time; each interface has a ledger entry with the dial       *)
(* output it skipped while down.  An aggregate serves the sum of its       *)
(* members and a child a share of its parent, each through its own entry.  *)
(* One writer at a time reconciles an entry with the engine under a        *)
(* seqlock; pollers read without a lock and retry when they overlap it.    *)
(***************************************************************************)
EXTENDS Integers, Sequences, FiniteSets, FiniteSetsExt

CONSTANTS
  CounterParent,  \* counterParent: slot |-> the parent's slot, 0 for none
  Members,        \* members: slot |-> the set of its members, {} for none
  Rate,           \* octets per tick of each slot's dial
  Share,          \* the share of a parent a child serves, in tenths
  Flapped,        \* the slots whose own state moves
  Polled,         \* the slots a poller may read
  MaxFlips,       \* bound on the moves
  MaxTime         \* bound on the cycler's clock

VARIABLES
  own,      \* per slot: its link and admin-status are both up
  hooks,    \* slots with an operational event whose onOper hook has not run
  flips,    \* moves so far
  hold,     \* the ledger
  holdSeq,  \* the seqlock
  writer,   \* the holder of holdMu
  time,     \* the cycler's clock
  poll,     \* the poller
  watched,  \* the slot this poller reads
  served    \* the delta of its latest completed read

holdvars == <<own, hooks, flips, hold, holdSeq, writer, time, poll, watched, served>>

Slots == DOMAIN CounterParent

\* The engine's derived status: an interface below another one follows it.
OperUp(s) == own[s] /\ (CounterParent[s] # 0 => own[CounterParent[s]])

\* deltaOctetsAt for a standalone slot: increasing in the elapsed time.
DeltaOctetsAt(s, t) == Rate[s] * t

\* A slip: an instant before the close is not lifted to it.
ClampDownOnly(h, t) == IF h.down /\ t > h.downAt THEN h.downAt ELSE t

\* heldDeltaFor's clamps: down to the open, then up to the latest close.
Clamp(h, t) ==
  LET low == IF h.down /\ t > h.downAt THEN h.downAt ELSE t IN
  IF low < h.upAt THEN h.upAt ELSE low

NonNegative(d) == IF d < 0 THEN 0 ELSE d

\* rawDeltaAt and servedDeltaAt of a member, of an aggregate and of a child over
\* the ledger l: depth is bounded, so each level has its own operator.
MemberDelta(l, m, t) == NonNegative(DeltaOctetsAt(m, Clamp(l[m], t)) - l[m].skipped)

TopRaw(l, s, t) ==
  IF Members[s] # {} THEN MapThenSumSet(LAMBDA m : MemberDelta(l, m, t), Members[s])
  ELSE DeltaOctetsAt(s, t)

TopDelta(l, s, t) == NonNegative(TopRaw(l, s, Clamp(l[s], t)) - l[s].skipped)

RawDeltaAt(l, s, t) ==
  IF CounterParent[s] # 0 THEN (TopDelta(l, CounterParent[s], t) * Share) \div 10
  ELSE TopRaw(l, s, t)

HeldDeltaFor(l, s, t) == NonNegative(RawDeltaAt(l, s, Clamp(l[s], t)) - l[s].skipped)

Open(h, t) == [h EXCEPT !.down = TRUE, !.downAt = t]

Close(l, s, t) ==
  [down |-> FALSE, downAt |-> 0, upAt |-> t,
   skipped |-> l[s].skipped + RawDeltaAt(l, s, t) - RawDeltaAt(l, s, l[s].downAt)]

\* reconcileHoldAt's switch: the entry for what the engine says at instant t.
Reconciled(s, up, t) ==
  CASE up /\ hold[s].down -> Close(hold, s, t)
    [] ~up /\ ~hold[s].down -> Open(hold[s], t)
    [] OTHER -> hold[s]
-------------------------------------------------------------------------------
\* A link or admin move in the engine; the operational events it broadcasts run the
\* hook of every interface whose derived state moved.
Flip(s) ==
  /\ flips < MaxFlips
  /\ own' = [own EXCEPT ![s] = ~@]
  /\ hooks' = hooks \cup {c \in Slots : OperUp(c) # OperUp(c)'}
  /\ flips' = flips + 1
  /\ UNCHANGED <<hold, holdSeq, writer, time, poll, watched, served>>

\* The hook takes holdMu and makes the sequence odd.
WriterBegin(s) ==
  /\ writer.pc = "idle" /\ s \in hooks
  /\ hooks' = hooks \ {s}
  /\ holdSeq' = holdSeq + 1
  /\ writer' = [pc |-> "sample", slot |-> s]
  /\ UNCHANGED <<own, flips, hold, time, poll, watched, served>>

\* Then it reads the engine and samples the clock.
WriterSample ==
  /\ writer.pc = "sample"
  /\ writer' = [pc |-> "store", slot |-> writer.slot,
                entry |-> Reconciled(writer.slot, OperUp(writer.slot), time)]
  /\ UNCHANGED <<own, hooks, flips, hold, holdSeq, time, poll, watched, served>>

\* The entry is published and the sequence is even again.
WriterStore ==
  /\ writer.pc = "store"
  /\ hold' = [hold EXCEPT ![writer.slot] = writer.entry]
  /\ writer' = [pc |-> "end"]
  /\ UNCHANGED <<own, hooks, flips, holdSeq, time, poll, watched, served>>

WriterEnd ==
  /\ writer.pc = "end"
  /\ holdSeq' = IF holdSeq % 2 = 1 THEN holdSeq + 1 ELSE holdSeq
  /\ writer' = [pc |-> "idle"]
  /\ UNCHANGED <<own, hooks, flips, hold, time, poll, watched, served>>
-------------------------------------------------------------------------------
\* A poll samples the clock (GetDynamic), then reads the sequence.
PollBegin ==
  /\ poll.pc = "idle"
  /\ poll' = [pc |-> "seq", t |-> time]
  /\ UNCHANGED <<own, hooks, flips, hold, holdSeq, writer, time, watched, served>>

PollSeq ==
  /\ poll.pc = "seq" /\ holdSeq % 2 = 0
  /\ poll' = [pc |-> "own", t |-> poll.t, seq |-> holdSeq]
  /\ UNCHANGED <<own, hooks, flips, hold, holdSeq, writer, time, watched, served>>

\* The slot's own entry, then the entries of the slots it derives from.
PollOwn ==
  /\ poll.pc = "own"
  /\ poll' = [pc |-> "rest", t |-> poll.t, seq |-> poll.seq,
              h |-> hold[watched]]
  /\ UNCHANGED <<own, hooks, flips, hold, holdSeq, writer, time, watched, served>>

PollRest ==
  /\ poll.pc = "rest"
  /\ poll' = [pc |-> "check", t |-> poll.t, seq |-> poll.seq,
              d |-> HeldDeltaFor([hold EXCEPT ![watched] = poll.h], watched, poll.t)]
  /\ UNCHANGED <<own, hooks, flips, hold, holdSeq, writer, time, watched, served>>

\* The value counts when no write overlapped the loads.
PollCheck ==
  /\ poll.pc = "check"
  /\ IF holdSeq = poll.seq
     THEN served' = poll.d /\ poll' = [pc |-> "idle"]
     ELSE poll' = [pc |-> "seq", t |-> poll.t] /\ UNCHANGED served
  /\ UNCHANGED <<own, hooks, flips, hold, holdSeq, writer, time, watched>>

HoldTick ==
  /\ time < MaxTime
  /\ time' = time + 1
  /\ UNCHANGED <<own, hooks, flips, hold, holdSeq, writer, poll, watched, served>>
-------------------------------------------------------------------------------
\* seedHolds: what boots down is held from instant 0.
HoldInit ==
  /\ own \in {[s \in Slots |-> TRUE], [s \in Slots |-> s \notin Flapped]}
  /\ hold = [s \in Slots |-> [down |-> ~OperUp(s), downAt |-> 0, upAt |-> 0, skipped |-> 0]]
  /\ hooks = {} /\ flips = 0 /\ holdSeq = 0 /\ time = 0
  /\ writer = [pc |-> "idle"] /\ poll = [pc |-> "idle"]
  /\ watched \in Polled /\ served = 0

HoldNext ==
  \/ \E s \in Flapped : Flip(s)
  \/ \E s \in Slots : WriterBegin(s)
  \/ WriterSample \/ WriterStore \/ WriterEnd
  \/ PollBegin \/ PollSeq \/ PollOwn \/ PollRest \/ PollCheck
  \/ HoldTick

HoldSpec == HoldInit /\ [][HoldNext]_holdvars
-------------------------------------------------------------------------------
\* Every ledger entry was opened and closed by now, and the sequence is odd exactly
\* while a writer is at work (reconcileHoldAt).
HoldTypeOK ==
  /\ own \in [Slots -> BOOLEAN] /\ hooks \subseteq Slots /\ flips \in 0..MaxFlips
  /\ hold \in [Slots -> [down : BOOLEAN, downAt : 0..time, upAt : 0..time, skipped : Nat]]
  /\ holdSeq \in Nat /\ (holdSeq % 2 = 1 <=> writer.pc # "idle")
  /\ time \in 0..MaxTime /\ watched \in Polled /\ served \in Nat

\* A poller never sees a counter go backwards: not the counter of an interface, of an
\* aggregate over interfaces that flap, or of a child of one that flaps, whatever
\* write overlapped the read (heldDeltasAt).
ServedMonotonic == [][served' >= served]_holdvars

\* The branch heldDeltaFor calls unreachable is: at no instant a read can ask for is the
\* raw delta below what the slot skipped, although the raw delta of a child or an
\* aggregate is taken over other slots' ledgers than the skip was.
SkipNeverExceedsRaw ==
  \A s \in Slots, t \in 0..time :
    RawDeltaAt(hold, s, Clamp(hold[s], t)) >= hold[s].skipped

\* The counter resumes from the held value without a jump: the entry that closes a hold
\* serves, at the instant of the close, what the open entry served.
ResumesFromHeld ==
  [][\A s \in Slots : hold[s].down /\ ~hold'[s].down =>
       HeldDeltaFor(hold', s, hold'[s].upAt) = HeldDeltaFor(hold, s, hold'[s].upAt)]_holdvars

\* The counter of a held interface that serves its own dial stands still.  One that
\* serves other slots may rise while it is held, when one of these closes a hold.
HeldStandsStill ==
  [][\A s \in Slots : Members[s] = {} /\ CounterParent[s] = 0 /\ hold[s].down /\ hold'[s].down =>
       HeldDeltaFor(hold', s, time') = HeldDeltaFor(hold, s, time)]_holdvars

\* A later generation of the ledger only raises what a read at an instant up to the
\* writer's sample serves, for the slot and for those that derive from it: what the
\* "unreachable" branch and the retry of overlapping reads rely on (if_counter_hold.go:93).
GenerationsOnlyRaise ==
  [][hold' # hold =>
       \A s \in Slots, t \in 0..(IF writer.entry.down THEN writer.entry.downAt ELSE writer.entry.upAt) :
         HeldDeltaFor(hold', s, t) >= HeldDeltaFor(hold, s, t)]_holdvars

\* A held counter over its own dial stands still, every counter resumes where it stood,
\* and none goes backwards, of an interface, of an aggregate over interfaces that flap or
\* of a child of one (if_counter_hold.go, if_counter_rollup.go).
CountersHeld ==
  /\ [](HoldTypeOK /\ SkipNeverExceedsRaw)
  /\ ServedMonotonic /\ ResumesFromHeld /\ HeldStandsStill /\ GenerationsOnlyRaise
===============================================================================
