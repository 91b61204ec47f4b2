------------------------------ MODULE DrainGate ------------------------------
(***************************************************************************)
(* The admission and drain barrier of a load-test scenario                 *)
(* (scenario_drain.go).  A WaitGroup is the set of the fires that have     *)
(* done Add and not yet Done; its counter is the size of that set.  The    *)
(* shadow counter inflight is kept as the number it is, because the code   *)
(* moves it at a different instant from the WaitGroup.                     *)
(*                                                                         *)
(* Time appears only through the budget: Expire says that the deadline of  *)
(* closeAndWaitUntil has passed.                                           *)
(***************************************************************************)
EXTENDS Integers, FiniteSets

CONSTANT Fires          \* the goroutines that may send; each holds one admission
ASSUME FiresFinite == IsFiniteSet(Fires)

VARIABLES
  closed,       \* drainGate.closed
  wg,           \* drainGate.wg: fires that have Added and not Done
  leaving,      \* fires between wg.Done() and inflight.Add(-1)
  inflight,     \* drainGate.inflight
  wpc,          \* closeAndWaitUntil: "idle" -> "waiting" -> "ceiling" -> "returned"
  expired,      \* the deadline has passed
  drained,      \* the waiter goroutine has closed `done`
  stragglers    \* closeAndWaitUntil's result, -1 before it returns

gvars == <<closed, wg, leaving, inflight, wpc, expired, drained, stragglers>>

GateTypeOK == /\ closed \in BOOLEAN
              /\ wg \subseteq Fires
              /\ leaving \subseteq Fires
              /\ inflight \in Nat
              /\ wpc \in {"idle", "waiting", "ceiling", "returned"}
              /\ expired \in BOOLEAN
              /\ drained \in BOOLEAN
              /\ stragglers \in Nat \cup {-1}

GateInit == /\ closed = FALSE
            /\ wg = {}
            /\ leaving = {}
            /\ inflight = 0
            /\ wpc = "idle"
            /\ expired = FALSE
            /\ drained = FALSE
            /\ stragglers = -1

\* A slip in admit(): the closed flag is not re-checked under the lock.
AdmitUnchecked(f) == /\ wg' = wg \cup {f}
                     /\ inflight' = inflight + 1
                     /\ UNCHANGED <<closed, leaving, wpc, expired, drained, stragglers>>

\* admit() returning true: the check of closed, wg.Add and inflight.Add share
\* one read lock, so the write lock of closeAndWaitUntil falls on one side.
Admit(f) == /\ ~closed
            /\ wg' = wg \cup {f}
            /\ inflight' = inflight + 1
            /\ UNCHANGED <<closed, leaving, wpc, expired, drained, stragglers>>

\* leave(), first half: wg.Done().
LeaveDone(f) == /\ f \in wg
                /\ wg' = wg \ {f}
                /\ leaving' = leaving \cup {f}
                /\ UNCHANGED <<closed, inflight, wpc, expired, drained, stragglers>>

\* leave(), second half: inflight.Add(-1).
LeaveCount(f) == /\ f \in leaving
                 /\ leaving' = leaving \ {f}
                 /\ inflight' = inflight - 1
                 /\ UNCHANGED <<closed, wg, wpc, expired, drained, stragglers>>

\* closeAndWaitUntil: closed is set under the write lock, then the waiter
\* goroutine and the ceiling timer are started.
Close == /\ wpc = "idle"
         /\ closed' = TRUE
         /\ wpc' = "waiting"
         /\ UNCHANGED <<wg, leaving, inflight, expired, drained, stragglers>>

\* The waiter goroutine: wg.Wait() returns once the counter is 0, then close(done).
WaiterDone == /\ wpc # "idle"
              /\ wg = {}
              /\ ~drained
              /\ drained' = TRUE
              /\ UNCHANGED <<closed, wg, leaving, inflight, wpc, expired, stragglers>>

\* The shared deadline passes.
Expire == /\ ~expired
          /\ expired' = TRUE
          /\ UNCHANGED <<closed, wg, leaving, inflight, wpc, drained, stragglers>>

\* case <-done.
ReturnDrained == /\ wpc = "waiting"
                 /\ drained
                 /\ wpc' = "returned"
                 /\ stragglers' = 0
                 /\ UNCHANGED <<closed, wg, leaving, inflight, expired, drained>>

\* case <-ceiling.C: the inner select runs next.
CeilingFires == /\ wpc = "waiting"
                /\ expired
                /\ wpc' = "ceiling"
                /\ UNCHANGED <<closed, wg, leaving, inflight, expired, drained, stragglers>>

MaxOf(a, b) == IF a >= b THEN a ELSE b

\* Another slip in the give-up: it is reported like a completed drain.
CeilingSelectSilent == /\ wpc = "ceiling"
                       /\ wpc' = "returned"
                       /\ stragglers' = 0
                       /\ UNCHANGED <<closed, wg, leaving, inflight, expired, drained>>

\* The inner select: a closed `done` wins over the ceiling; otherwise the
\* result is max(inflight, 1).
CeilingSelect == /\ wpc = "ceiling"
                 /\ wpc' = "returned"
                 /\ stragglers' = IF drained THEN 0 ELSE MaxOf(inflight, 1)
                 /\ UNCHANGED <<closed, wg, leaving, inflight, expired, drained>>

GateWaiter == WaiterDone \/ Expire \/ ReturnDrained \/ CeilingFires \/ CeilingSelect

\* A fire admits itself once at a time.
GateNext == \/ \E f \in Fires : \/ f \notin wg \cup leaving /\ Admit(f)
                                \/ LeaveDone(f)
                                \/ LeaveCount(f)
            \/ Close
            \/ GateWaiter

GateSpec == GateInit /\ [][GateNext]_gvars
------------------------------------------------------------------------------
(* Properties. *)

\* A clean verdict means a drained barrier, for good: once closeAndWaitUntil has
\* returned 0 no admitted fire is between admit() and leave(), and none ever
\* will be, so finish() may snapshot the ledgers.
CleanMeansDrained == stragglers = 0 => wg = {}

\* drain_stragglers is an upper bound: when closeAndWaitUntil returns n > 0, no
\* more than n fires are outstanding then or later, and it never returns a
\* count the report's omitempty would drop.
StragglersBound == wpc = "returned" => Cardinality(wg) <= stragglers

\* inflight, the only readable copy of the WaitGroup's counter, never reads low:
\* it exceeds the counter by exactly the fires inside leave().
ShadowNeverLow == inflight = Cardinality(wg) + Cardinality(leaving)

\* The barrier implements the promise of DrainBarrier.
Promise == INSTANCE DrainBarrier WITH
             Size <- Cardinality,
             open <- ~closed,
             outstanding <- wg,
             verdict <- stragglers

ImplementsBarrier == Promise!ASpec

\* What closeAndWaitUntil returns is true then and later: 0 only over a drained
\* barrier, n > 0 never below the fires outstanding, because the shadow counter
\* never reads low (scenario_drain.go).
VerdictHonest ==
  /\ CleanMeansDrained /\ StragglersBound /\ ShadowNeverLow
==============================================================================
