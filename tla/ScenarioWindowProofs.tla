------------------------ MODULE ScenarioWindowProofs ------------------------
(***************************************************************************)
(* The accounting of a scenario window is exact for any number of fires,   *)
(* of any source, in any order.                                            *)
(*                                                                         *)
(* The argument has two halves.  The window uses the barrier as DrainGate  *)
(* allows, so the barrier's invariant (GateInv) holds inside the window.   *)
(* And the ledger is tied to where the fires are: each of BooksBalance,    *)
(* WireCounted and SubWindowsCounted says that a counter lags another by   *)
(* exactly the fires between the two increments.  A drained barrier leaves *)
(* no such fire, and the snapshot, read later, finds settled counters.     *)
(*                                                                         *)
(* What the report says about time and about other scenarios rests on a    *)
(* second invariant (TimingInv): the handle is the scenario's own from arm *)
(* to detach, and a completed join found its scheduler gone.               *)
(***************************************************************************)
EXTENDS ScenarioWindow, FiniteSetTheorems, TLAPS

(***************************************************************************)
(* The drain barrier is correct for any number of fires.                   *)
(*                                                                         *)
(* Neither CleanMeansDrained nor StragglersBound is inductive. What        *)
(* carries them is that the shadow counter is exact up to the fires        *)
(* inside leave(), that the barrier stays closed once closeAndWaitUntil    *)
(* has begun, and that `done` is closed only by a drained WaitGroup.       *)
(***************************************************************************)
\* No fire is counted in both halves of leave().
Disjoint == wg \cap leaving = {}

\* closeAndWaitUntil sets closed before anything else it does.
ClosedFirst == wpc # "idle" => closed

\* `done` is closed only after wg.Wait() returned, and no Add follows.
DoneIsDrained == drained => closed /\ wg = {}

\* The result is set exactly when closeAndWaitUntil returns.
ResultSet == IF wpc = "returned" THEN stragglers >= 0 ELSE stragglers = -1

GateInv == /\ GateTypeOK
           /\ Disjoint
           /\ ShadowNeverLow
           /\ ClosedFirst
           /\ DoneIsDrained
           /\ ResultSet
           /\ StragglersBound

\* A set of fires has a size, and adding or removing one fire moves it by one.
LEMMA FiresCount ==
  ASSUME NEW S, S \subseteq Fires
  PROVE  /\ Cardinality(S) \in Nat
         /\ Cardinality(S) = 0 <=> S = {}
         /\ \A f : Cardinality(S \cup {f}) =
                     IF f \in S THEN Cardinality(S) ELSE Cardinality(S) + 1
         /\ \A f : Cardinality(S \ {f}) =
                     IF f \in S THEN Cardinality(S) - 1 ELSE Cardinality(S)
<1>1. IsFiniteSet(S)
  BY FiresFinite, FS_Subset, Zenon
<1>2. QED
  BY <1>1, FS_CardinalityType, FS_EmptySet, FS_AddElement, FS_RemoveElement, Zenon

\* The initial state satisfies the inductive invariant.
LEMMA GateInitInv == GateInit => GateInv
<1>1. Cardinality({}) = 0
  BY FS_EmptySet, Zenon
<1> SUFFICES ASSUME GateInit PROVE GateInv
  BY Zenon
<1>2. Cardinality(wg) = 0 /\ Cardinality(leaving) = 0
  BY <1>1, Zenon DEF GateInit
<1>3. GateTypeOK
  <2>1. wg \subseteq Fires /\ leaving \subseteq Fires
    BY Zenon DEF GateInit
  <2>2. closed \in BOOLEAN /\ expired \in BOOLEAN /\ drained \in BOOLEAN
    BY Zenon DEF GateInit
  <2>3. QED
    BY <2>1, <2>2, Zenon DEF GateInit, GateTypeOK
<1>4. Disjoint /\ ClosedFirst /\ DoneIsDrained /\ ResultSet
  BY Zenon DEF GateInit, Disjoint, ClosedFirst, DoneIsDrained, ResultSet
<1>5. ShadowNeverLow /\ StragglersBound
  BY <1>2 DEF GateInit, ShadowNeverLow, StragglersBound
<1>6. QED
  BY <1>3, <1>4, <1>5, Zenon DEF GateInv

\* Every step of a fire, of the closer or of the waiter preserves it.
LEMMA GateStepInv == GateInv /\ [GateNext]_gvars => GateInv'
<1> SUFFICES ASSUME GateInv, [GateNext]_gvars PROVE GateInv'
  BY Zenon
<1> USE DEF GateInv, GateTypeOK, Disjoint, ShadowNeverLow, ClosedFirst,
            DoneIsDrained, ResultSet, StragglersBound
<1>0. /\ Cardinality(wg) \in Nat
      /\ Cardinality(leaving) \in Nat
      /\ Cardinality(wg) = 0 <=> wg = {}
  BY FiresCount, Zenon
<1>1. ASSUME NEW f \in Fires, f \notin wg \cup leaving, Admit(f) PROVE GateInv'
  <2>1. Cardinality(wg') = Cardinality(wg) + 1
    BY <1>1, FiresCount, Zenon DEF Admit
  <2>2. QED
    BY <1>0, <1>1, <2>1 DEF Admit
<1>2. ASSUME NEW f \in Fires, LeaveDone(f) PROVE GateInv'
  <2>1. Cardinality(wg') = Cardinality(wg) - 1
    BY <1>2, FiresCount, Zenon DEF LeaveDone
  <2>2. f \notin leaving /\ Cardinality(leaving') = Cardinality(leaving) + 1
    BY <1>2, FiresCount, Zenon DEF LeaveDone
  <2>3. QED
    BY <1>0, <1>2, <2>1, <2>2 DEF LeaveDone
<1>3. ASSUME NEW f \in Fires, LeaveCount(f) PROVE GateInv'
  <2>1. Cardinality(leaving') = Cardinality(leaving) - 1
    BY <1>3, FiresCount, Zenon DEF LeaveCount
  <2>2. Cardinality(leaving') \in Nat
    BY <1>3, FiresCount, Zenon DEF LeaveCount
  <2>3. inflight' = Cardinality(wg') + Cardinality(leaving')
    BY <1>0, <1>3, <2>1 DEF LeaveCount
  <2>4. QED
    BY <1>0, <1>3, <2>2, <2>3 DEF LeaveCount
<1>4. CASE Close
  BY <1>0, <1>4, Zenon DEF Close
<1>5. CASE WaiterDone
  BY <1>0, <1>5, Zenon DEF WaiterDone
<1>6. CASE Expire
  BY <1>0, <1>6, Zenon DEF Expire
<1>7. CASE ReturnDrained
  BY <1>0, <1>7 DEF ReturnDrained
<1>8. CASE CeilingFires
  BY <1>0, <1>8, Zenon DEF CeilingFires
<1>9. CASE CeilingSelect
  BY <1>0, <1>9 DEF CeilingSelect, MaxOf
<1>10. CASE UNCHANGED gvars
  BY <1>10, Zenon DEF gvars
<1>11. QED
  BY <1>1, <1>2, <1>3, <1>4, <1>5, <1>6, <1>7, <1>8, <1>9, <1>10, Zenon
     DEF GateNext, GateWaiter

\* The strengthening holds in every reachable state of the barrier.
THEOREM GateInvariant == GateSpec => []GateInv
<1>1. GateInit /\ [][GateNext]_gvars => []GateInv
  BY GateInitInv, GateStepInv, PTL
<1>2. QED
  BY <1>1, PTL DEF GateSpec

\* closeAndWaitUntil returns 0 only when every admitted fire has left, and none
\* is admitted afterwards: the ledgers finish() snapshots are then still.
THEOREM CleanVerdict == GateSpec => []CleanMeansDrained
<1>1. GateInv => CleanMeansDrained
  BY FiresCount DEF GateInv, GateTypeOK, ResultSet, StragglersBound, CleanMeansDrained
<1>2. QED
  BY <1>1, GateInvariant, PTL

\* The number of stragglers a report carries is never below the number of fires
\* that were still sending.
THEOREM StragglersUpperBound == GateSpec => []StragglersBound
<1>1. GateInv => StragglersBound
  BY Zenon DEF GateInv
<1>2. QED
  BY <1>1, GateInvariant, PTL

\* scenario_drain.go implements DrainBarrier: admission stops at the close, and
\* the verdict is 0 for a drained barrier and otherwise an upper bound.
THEOREM GateRefinesBarrier == GateSpec => ImplementsBarrier
<1>1. GateInit => Promise!AInit
  BY Zenon DEF GateInit, Promise!AInit, Promise!Unanswered
<1>2. GateInv /\ [GateNext]_gvars => [Promise!ANext]_Promise!avars
  <2> SUFFICES ASSUME GateInv, [GateNext]_gvars
               PROVE  Promise!ANext \/ UNCHANGED Promise!avars
    BY Zenon
  <2> USE DEF GateInv, GateTypeOK, Promise!ANext, Promise!avars
  <2>0. /\ Cardinality(wg) \in Nat
        /\ Cardinality(leaving) \in Nat
        /\ Cardinality(wg) = 0 <=> wg = {}
    BY FiresCount, Zenon
  <2>1. ASSUME NEW f \in Fires, f \notin wg \cup leaving, Admit(f)
        PROVE  Promise!Enter(f)
    BY <2>1, Zenon DEF Admit, Promise!Enter
  <2>2. ASSUME NEW f \in Fires, LeaveDone(f) PROVE Promise!Exit(f)
    BY <2>2, Zenon DEF LeaveDone, Promise!Exit
  <2>3. ASSUME NEW f \in Fires, LeaveCount(f) PROVE UNCHANGED Promise!avars
    BY <2>3, Zenon DEF LeaveCount
  <2>4. CASE Close
    BY <2>4, Zenon DEF Close, Promise!Shut
  <2>5. CASE ReturnDrained
    BY <2>5, Zenon DEF ReturnDrained, Promise!Answer, Promise!Unanswered, DoneIsDrained, ResultSet
  <2>6. CASE CeilingSelect
    <3>1. closed /\ stragglers = -1
      BY <2>6, Zenon DEF CeilingSelect, ClosedFirst, ResultSet
    <3>2. CASE drained
      BY <2>6, <3>1, <3>2, Zenon
         DEF CeilingSelect, DoneIsDrained, Promise!Answer, Promise!Unanswered
    <3>3. CASE ~drained
      <4>1. stragglers' \in Nat \ {0} /\ Cardinality(wg) <= stragglers'
        BY <2>0, <2>6, <3>3 DEF CeilingSelect, MaxOf, ShadowNeverLow
      <4>2. Promise!Answer
        BY <2>6, <3>1, <4>1, Zenon DEF CeilingSelect, Promise!Answer, Promise!Unanswered
      <4>3. QED
        BY <4>2, Zenon
    <3>4. QED
      BY <3>2, <3>3, Zenon
  <2>7. CASE WaiterDone \/ Expire \/ CeilingFires
    BY <2>7, Zenon DEF WaiterDone, Expire, CeilingFires
  <2>8. CASE UNCHANGED gvars
    BY <2>8, Zenon DEF gvars
  <2>9. QED
    BY <2>1, <2>2, <2>3, <2>4, <2>5, <2>6, <2>7, <2>8, Zenon DEF GateNext, GateWaiter
<1>3. QED
  BY <1>1, <1>2, GateInvariant, PTL DEF GateSpec, ImplementsBarrier, Promise!ASpec
\* What closeAndWaitUntil returns is true then and later, for any number of
\* fires: the three halves of the verdict together.
THEOREM VerdictAlwaysHonest == GateSpec => []VerdictHonest
<1>1. GateInv => ShadowNeverLow
  BY Zenon DEF GateInv
<1>2. QED
  BY <1>1, CleanVerdict, StragglersUpperBound, GateInvariant, PTL DEF VerdictHonest

(***************************************************************************)
(* The window.                                                             *)
(***************************************************************************)
\* The part of WTypeOK the accounting rests on.
Typed == /\ fpc \in [Fires -> Steps]
         /\ led \in [Counters -> Nat]
         /\ snap \in [Counters -> Nat]
         /\ read \in 0..9
         /\ wire \in Nat

\* Where a fire is decides whether the barrier holds it.
Inside == {"admitted", "sending", "wrote", "inWindow", "drain", "out"}
BarrierHolds == wg = At(Inside) /\ leaving = At({"left"})

\* Datagrams on the wire and not yet in a bucket.
Sent == {"wrote", "inWindow", "drain"}
WireCounted == led["inWindow"] + led["drain"] + Cardinality(At(Sent)) = wire

\* Sends in a sub-window and not yet in in_window.
SubWindowsCounted == led["subs"] = led["inWindow"] + Cardinality(At({"inWindow"}))

\* What has been read of a settled ledger is what the ledger still says.
SnapSettled == stragglers = 0 =>
                 /\ read >= 1 => snap["subs"] = led["subs"]
                 /\ read >= 3 => snap["inWindow"] = led["inWindow"]
                 /\ read >= 4 => snap["drain"] = led["drain"]

\* finish reads the ledger only after closeAndWaitUntil has returned.
ReadAfterBarrier == /\ fin \in {"drained", "detached", "done"} => wpc = "returned"
                    /\ read > 0 => fin \in {"detached", "done"}
                    /\ fin = "done" <=> read = 9
                    /\ fin # "idle" => gate = "stopped"

\* A fire's move changes the number at the steps P by what it leaves and enters.
LEMMA MoveCounts ==
  ASSUME fpc \in [Fires -> Steps], NEW f \in Fires, NEW a, NEW b, Move(f, a, b), NEW P
  PROVE  /\ Cardinality(At(P)) \in Nat
         /\ Cardinality(At(P))' = Cardinality(At(P)) - (IF a \in P THEN 1 ELSE 0)
                                    + (IF b \in P THEN 1 ELSE 0)
<1>0. At(P) \subseteq Fires /\ At(P) \ {f} \subseteq Fires
  BY Zenon DEF At
<1>1. Cardinality(At(P)) \in Nat
  BY <1>0, FiresCount, Zenon
<1>2. a \in P <=> f \in At(P)
  BY Zenon DEF At, Move
<1>3. CASE b \in P
  <2>1. At(P)' = At(P) \cup {f}
    BY <1>3, Zenon DEF At, Move
  <2>2. QED
    BY <1>0, <1>1, <1>2, <1>3, <2>1, FiresCount
<1>4. CASE b \notin P
  <2>1. At(P)' = At(P) \ {f}
    BY <1>4, Zenon DEF At, Move
  <2>2. QED
    BY <1>0, <1>1, <1>2, <1>4, <2>1, FiresCount
<1>5. QED
  BY <1>1, <1>3, <1>4, Zenon

\* An empty set of steps is counted by zero.
LEMMA AtType == ASSUME NEW P PROVE /\ Cardinality(At(P)) \in Nat
                                   /\ At(P) = {} => Cardinality(At(P)) = 0
<1>1. At(P) \subseteq Fires
  BY Zenon DEF At
<1>2. QED
  BY <1>1, FiresCount, Zenon

OpenSteps == {"suppressed", "dropped", "sending", "wrote", "inWindow", "drain"}
Outside == Steps \ (OpenSteps \cup Inside \cup {"left"})
Booked == {"subs", "emitted", "inWindow", "drain", "suppressed", "sendFailures", "dropped"}

AccountInv == /\ Typed
              /\ BarrierHolds
              /\ BooksBalance
              /\ WireCounted
              /\ SubWindowsCounted

\* A move between steps no account looks at, with at most demand counted.
LEMMA QuietMove ==
  ASSUME AccountInv, NEW f \in Fires, NEW a \in Outside, NEW b \in Outside,
         Move(f, a, b), UNCHANGED <<wg, leaving, wire, snap, read>>,
         led' \in [Counters -> Nat], \A c \in Booked : led'[c] = led[c]
  PROVE  AccountInv'
<1> USE DEF AccountInv
<1>1. Typed'
  BY Zenon DEF Typed, Move, Outside
<1>2. BarrierHolds'
  BY Zenon DEF BarrierHolds, At, Move, Typed, Outside
<1>3. /\ Cardinality(At(OpenSteps))' = Cardinality(At(OpenSteps))
      /\ Cardinality(At(Sent))' = Cardinality(At(Sent))
      /\ Cardinality(At({"inWindow"}))' = Cardinality(At({"inWindow"}))
  <2>1. /\ a \notin OpenSteps \cup Sent \cup {"inWindow"}
        /\ b \notin OpenSteps \cup Sent \cup {"inWindow"}
    BY Zenon DEF Outside, OpenSteps, Sent
  <2>2. QED
    BY <2>1, MoveCounts DEF Typed
<1>4. \A c \in Booked : led'[c] = led[c] /\ led[c] \in Nat
  BY Zenon DEF Booked, Typed, Counters
<1>5. BooksBalance'
  BY <1>3, <1>4, Zenon DEF BooksBalance, Accounted, Open, OpenSteps, Booked
<1>6. WireCounted' /\ SubWindowsCounted'
  BY <1>3, <1>4, Zenon DEF WireCounted, SubWindowsCounted, Booked
<1>7. QED
  BY <1>1, <1>2, <1>5, <1>6, Zenon

\* A counter's Add(1) moves that counter alone.
LEMMA CountOne ==
  ASSUME led \in [Counters -> Nat], NEW c \in Counters, Count(c)
  PROVE  /\ led' \in [Counters -> Nat]
         /\ led'[c] = led[c] + 1
         /\ \A d \in Counters \ {c} : led'[d] = led[d]
BY DEF Count

\* The steps of a fire that no account looks at.
LEMMA QuietSteps ==
  ASSUME AccountInv, NEW f \in Fires,
         \/ Pop(f) \/ Request(f) \/ Defer(f) \/ LoadScenario(f) \/ LoadOther(f)
         \/ LegacyWrite(f) \/ Stamp(f) \/ Decide(f)
         \/ (Refuse(f) /\ fpc[f] = "passed")
  PROVE  AccountInv'
<1>0. led \in [Counters -> Nat]
  BY Zenon DEF AccountInv, Typed
<1>1. UNCHANGED <<wg, leaving, wire, snap, read>>
  BY Zenon DEF Pop, Request, Defer, LoadScenario, LoadOther, LegacyWrite, Stamp, Decide, Refuse,
         Rest, Ghosts, gvars
<1>2. led' \in [Counters -> Nat] /\ \A c \in Booked : led'[c] = led[c]
  <2>1. CASE Count("requested") \/ Count("deferred")
    BY <1>0, <2>1, CountOne, Zenon DEF Counters, Booked
  <2>2. CASE led' = led
    BY <1>0, <2>2, Zenon
  <2>3. QED
    BY <2>1, <2>2, Zenon DEF Pop, Request, Defer, LoadScenario, LoadOther, LegacyWrite, Stamp,
                      Decide, Refuse, Move
<1>3. \E a \in Outside, b \in Outside : Move(f, a, b)
  <2> USE DEF Outside, Steps, OpenSteps, Inside
  <2>1. CASE Pop(f) \/ Request(f) \/ Defer(f)
    BY <2>1, Zenon DEF Pop, Request, Defer
  <2>2. CASE LoadScenario(f)
    <3>1. Move(f, "asked", "loaded") \/ Move(f, "asked", "idle")
      BY Zenon, <2>2 DEF LoadScenario, Move
    <3>2. QED
      BY <3>1, Zenon
  <2>3. CASE LoadOther(f)
    <3>1. Move(f, "idle", "loaded") \/ Move(f, "idle", "legacy") \/ Move(f, "idle", "idle")
      BY <2>3, Zenon DEF LoadOther
    <3>2. QED
      BY <3>1, Zenon
  <2>4. CASE LegacyWrite(f) \/ Stamp(f)
    BY <2>4, Zenon DEF LegacyWrite, Stamp
  <2>5. CASE Decide(f)
    <3>1. \/ Move(f, "stamped", "idle") \/ Move(f, "stamped", "suppress")
          \/ Move(f, "stamped", "passed")
      BY <2>5, Zenon DEF Decide, Decision
    <3>2. QED
      BY <3>1, Zenon
  <2>6. CASE Refuse(f) /\ fpc[f] = "passed"
    <3>1. Move(f, "passed", "refused")
      BY <2>6, Zenon DEF Refuse, Move
    <3>2. QED
      BY <3>1, Zenon
  <2>7. QED
    BY <2>1, <2>2, <2>3, <2>4, <2>5, <2>6, Zenon
<1>4. QED
  BY <1>1, <1>2, <1>3, QuietMove, Zenon

In(x, P) == IF x \in P THEN 1 ELSE 0

\* A move preserves the accounts when the counters move with the fire.
LEMMA AccountMove ==
  ASSUME AccountInv, NEW f \in Fires, NEW a \in Steps, NEW b \in Steps, Move(f, a, b),
         led' \in [Counters -> Nat], wire' \in Nat, UNCHANGED <<snap, read>>, BarrierHolds',
         led'["emitted"] - Accounted(led)'
           = led["emitted"] - Accounted(led) + In(b, OpenSteps) - In(a, OpenSteps),
         wire' - led'["inWindow"] - led'["drain"]
           = wire - led["inWindow"] - led["drain"] + In(b, Sent) - In(a, Sent),
         led'["subs"] - led'["inWindow"]
           = led["subs"] - led["inWindow"] + In(b, {"inWindow"}) - In(a, {"inWindow"})
  PROVE  AccountInv'
<1> USE DEF AccountInv
<1>1. Typed'
  BY Zenon DEF Typed, Move
<1>2. \A P : /\ Cardinality(At(P)) \in Nat
             /\ Cardinality(At(P))' = Cardinality(At(P)) - In(a, P) + In(b, P)
  BY MoveCounts DEF Typed, In
<1>3. \A P : In(a, P) \in {0, 1} /\ In(b, P) \in {0, 1}
  BY Zenon DEF In
<1>4. \A c \in Booked : led'[c] \in Nat /\ led[c] \in Nat
  BY Zenon DEF Booked, Typed, Counters
<1>5. Accounted(led) \in Nat /\ Accounted(led)' \in Nat
  BY <1>4 DEF Accounted, Booked
<1>6. BooksBalance'
  <2>1. led["emitted"] = Accounted(led) + Cardinality(At(OpenSteps))
    BY Zenon DEF BooksBalance, Open, OpenSteps
  <2>2. led'["emitted"] = Accounted(led)' + Cardinality(At(OpenSteps))'
    BY <1>2, <1>3, <1>4, <1>5, <2>1 DEF Booked
  <2>3. QED
    BY <2>2, Zenon DEF BooksBalance, Open, OpenSteps
<1>7. WireCounted'
  BY <1>2, <1>3, <1>4 DEF WireCounted, Booked, Typed
<1>8. SubWindowsCounted'
  BY <1>2, <1>3, <1>4 DEF SubWindowsCounted, Booked
<1>9. QED
  BY <1>1, <1>6, <1>7, <1>8, Zenon

Buckets == {"inWindow", "drain", "sendFailures", "dropped", "suppressed"}

\* A move on one side of the barrier that counts the record it is about.
LEMMA CountedMove ==
  ASSUME AccountInv, NEW f \in Fires, NEW a \in Steps, NEW b \in Steps, NEW c \in Booked,
         Move(f, a, b), Count(c), UNCHANGED <<snap, read, wire, wg, leaving>>,
         a \in Inside <=> b \in Inside, a # "left", b # "left",
         In(c, {"emitted"}) - In(c, Buckets) = In(b, OpenSteps) - In(a, OpenSteps),
         0 - In(c, {"inWindow", "drain"}) = In(b, Sent) - In(a, Sent),
         In(c, {"subs"}) - In(c, {"inWindow"}) = In(b, {"inWindow"}) - In(a, {"inWindow"})
  PROVE  AccountInv'
<1>0. Typed /\ led \in [Counters -> Nat] /\ wire \in Nat
  BY Zenon DEF AccountInv, Typed
<1>1. c \in Counters
  BY Zenon DEF Booked, Counters
<1>2. led' \in [Counters -> Nat] /\ \A d \in Counters : led'[d] = led[d] + In(d, {c})
  BY <1>0, <1>1, CountOne DEF In
<1>3. BarrierHolds'
  BY <1>0, Zenon DEF AccountInv, BarrierHolds, At, Move, Typed
<1>4. \A d \in Booked : led[d] \in Nat /\ led'[d] = led[d] + In(d, {c})
  BY <1>0, <1>2, Zenon DEF Booked, Counters
<1>5. led'["emitted"] - Accounted(led)'
        = led["emitted"] - Accounted(led) + In(c, {"emitted"}) - In(c, Buckets)
  BY <1>4 DEF Accounted, In, Buckets, Booked
<1>6. wire' - led'["inWindow"] - led'["drain"]
        = wire - led["inWindow"] - led["drain"] - In(c, {"inWindow", "drain"})
  BY <1>0, <1>4 DEF In, Booked
<1>7. led'["subs"] - led'["inWindow"]
        = led["subs"] - led["inWindow"] + In(c, {"subs"}) - In(c, {"inWindow"})
  BY <1>4 DEF In, Booked
<1>8. /\ led["emitted"] - Accounted(led) \in Int
      /\ wire - led["inWindow"] - led["drain"] \in Int
      /\ led["subs"] - led["inWindow"] \in Int
  BY <1>0, <1>4 DEF Accounted, Booked
<1>9. \A x, P : In(x, P) \in Int
  BY DEF In
<1>10. QED
  BY <1>0, <1>2, <1>3, <1>5, <1>6, <1>7, <1>8, <1>9, AccountMove

\* A move that counts nothing, on the wire perhaps.
LEMMA UncountedMove ==
  ASSUME AccountInv, NEW f \in Fires, NEW a \in Steps, NEW b \in Steps, Move(f, a, b),
         UNCHANGED <<led, snap, read>>, BarrierHolds',
         wire' = wire + In(b, Sent) - In(a, Sent), wire' \in Nat,
         In(b, OpenSteps) = In(a, OpenSteps), In(b, {"inWindow"}) = In(a, {"inWindow"})
  PROVE  AccountInv'
<1>0. led \in [Counters -> Nat] /\ wire \in Nat
  BY Zenon DEF AccountInv, Typed
<1>1. \A c \in Booked : led[c] \in Int /\ led'[c] = led[c]
  BY <1>0 DEF Booked, Counters
<1>2. Accounted(led) \in Int /\ Accounted(led)' = Accounted(led)
  BY <1>1 DEF Accounted, Booked
<1>3. \A x, P : In(x, P) \in Int
  BY DEF In
<1>4. led'["emitted"] - Accounted(led)'
        = led["emitted"] - Accounted(led) + In(b, OpenSteps) - In(a, OpenSteps)
  BY <1>1, <1>2, <1>3 DEF Booked
<1>5. wire' - led'["inWindow"] - led'["drain"]
        = wire - led["inWindow"] - led["drain"] + In(b, Sent) - In(a, Sent)
  BY <1>0, <1>1, <1>3 DEF Booked
<1>6. led'["subs"] - led'["inWindow"]
        = led["subs"] - led["inWindow"] + In(b, {"inWindow"}) - In(a, {"inWindow"})
  BY <1>1, <1>3 DEF Booked
<1>7. QED
  BY <1>0, <1>4, <1>5, <1>6, AccountMove, Zenon

\* The steps of a fire that generate, send or account for a record.
LEMMA AccountSteps ==
  ASSUME AccountInv, NEW f \in Fires,
         \/ Suppress(f) \/ (Refuse(f) /\ fpc[f] # "passed") \/ Enter(f) \/ CountEmitted(f)
         \/ Fail(f) \/ Write(f) \/ Classify(f) \/ Bucket(f) \/ Leave(f)
  PROVE  AccountInv'
<1>0. Typed /\ BarrierHolds /\ led \in [Counters -> Nat] /\ wire \in Nat
  BY Zenon DEF AccountInv, Typed
<1>1. CASE Suppress(f)
  <2>1. UNCHANGED <<snap, read, wire, wg, leaving>>
    BY ZenonT(40), <1>1 DEF Suppress, Rest, Ghosts, gvars
  <2>2. CASE Move(f, "suppress", "suppressed") /\ Count("emitted")
    BY <2>1, <2>2, CountedMove
       DEF Steps, Booked, Inside, OpenSteps, Sent, Buckets, In
  <2>3. CASE Move(f, "suppressed", "idle") /\ Count("suppressed")
    BY <2>1, <2>3, CountedMove
       DEF Steps, Booked, Inside, OpenSteps, Sent, Buckets, In
  <2>4. QED
    BY <1>1, <2>2, <2>3, Zenon DEF Suppress
<1>2. CASE Refuse(f) /\ fpc[f] # "passed"
  <2>1. UNCHANGED <<snap, read, wire, wg, leaving>>
    BY ZenonT(40), <1>2 DEF Refuse, Rest, Ghosts, gvars
  <2>2. CASE Move(f, "refused", "dropped") /\ Count("emitted")
    BY <2>1, <2>2, CountedMove
       DEF Steps, Booked, Inside, OpenSteps, Sent, Buckets, In
  <2>3. CASE Move(f, "dropped", "idle") /\ Count("dropped")
    BY <2>1, <2>3, CountedMove
       DEF Steps, Booked, Inside, OpenSteps, Sent, Buckets, In
  <2>4. QED
    BY <1>2, <2>2, <2>3, Zenon DEF Refuse, Move
<1>3. CASE CountEmitted(f)
  <2>1. UNCHANGED <<snap, read, wire, wg, leaving>>
    BY <1>3, Zenon DEF CountEmitted, Rest, Ghosts, gvars
  <2>2. Move(f, "admitted", "sending") /\ Count("emitted")
    BY <1>3, Zenon DEF CountEmitted
  <2>3. QED
    BY <2>1, <2>2, CountedMove DEF Steps, Booked, Inside, OpenSteps, Sent, Buckets, In
<1>4. CASE Fail(f)
  <2>1. UNCHANGED <<snap, read, wire, wg, leaving>>
    BY <1>4, Zenon DEF Fail, Rest, Ghosts, gvars
  <2>2. Move(f, "sending", "out")
    BY ZenonT(40), <1>4 DEF Fail
  <2>3. CASE Count("sendFailures")
    BY <2>1, <2>2, <2>3, CountedMove
       DEF Steps, Booked, Inside, OpenSteps, Sent, Buckets, In
  <2>4. CASE Count("dropped")
    BY <2>1, <2>2, <2>4, CountedMove
       DEF Steps, Booked, Inside, OpenSteps, Sent, Buckets, In
  <2>5. QED
    BY <1>4, <2>3, <2>4, Zenon DEF Fail
<1>5. CASE Bucket(f)
  <2>1. UNCHANGED <<snap, read, wire, wg, leaving>>
    BY ZenonT(40), <1>5 DEF Bucket, Rest, Ghosts, gvars
  <2>2. CASE Move(f, "inWindow", "out") /\ Count("inWindow")
    BY <2>1, <2>2, CountedMove
       DEF Steps, Booked, Inside, OpenSteps, Sent, Buckets, In
  <2>3. CASE Move(f, "drain", "out") /\ Count("drain")
    BY <2>1, <2>3, CountedMove
       DEF Steps, Booked, Inside, OpenSteps, Sent, Buckets, In
  <2>4. QED
    BY <1>5, <2>2, <2>3, Zenon DEF Bucket
<1>6. CASE Classify(f)
  <2>1. UNCHANGED <<snap, read, wire, wg, leaving>>
    BY ZenonT(40), <1>6 DEF Classify, Rest, gvars
  <2>2. CASE Move(f, "wrote", "inWindow") /\ Count("subs")
    BY <2>1, <2>2, CountedMove
       DEF Steps, Booked, Inside, OpenSteps, Sent, Buckets, In
  <2>3. CASE Move(f, "wrote", "drain") /\ led' = led
    <3>1. BarrierHolds'
      BY <1>0, <2>1, <2>3, Zenon DEF BarrierHolds, At, Move, Typed, Inside
    <3>2. QED
      BY <1>0, <2>1, <2>3, <3>1, UncountedMove DEF Steps, OpenSteps, Sent, In
  <2>4. QED
    BY <1>6, <2>2, <2>3, Zenon DEF Classify
<1>7. CASE Write(f) \/ Enter(f) \/ Leave(f)
  <2>1. UNCHANGED <<led, snap, read>>
    BY Zenon, <1>7 DEF Write, Enter, Leave, Rest
  <2>2. CASE Write(f)
    <3>1. Move(f, "sending", "wrote") /\ wire' = wire + 1 /\ UNCHANGED <<wg, leaving>>
      BY <2>2, Zenon DEF Write, gvars
    <3>2. BarrierHolds'
      BY <1>0, <3>1, Zenon DEF BarrierHolds, At, Move, Typed, Inside
    <3>3. QED
      BY <1>0, <2>1, <3>1, <3>2, UncountedMove DEF Steps, OpenSteps, Sent, In
  <2>3. CASE Enter(f)
    <3>1. /\ Move(f, "passed", "admitted") /\ wire' = wire
          /\ wg' = wg \cup {f} /\ leaving' = leaving
      BY <2>3, Zenon DEF Enter, Admit, Ghosts
    <3>2. BarrierHolds'
      BY ZenonT(40), <1>0, <3>1 DEF BarrierHolds, At, Move, Typed, Inside
    <3>3. QED
      BY <1>0, <2>1, <3>1, <3>2, UncountedMove DEF Steps, OpenSteps, Sent, In
  <2>4. CASE Leave(f) /\ fpc[f] = "out"
    <3>1. /\ Move(f, "out", "left") /\ wire' = wire
          /\ wg' = wg \ {f} /\ leaving' = leaving \cup {f}
      BY <2>4, Zenon DEF Leave, Move, LeaveDone, Ghosts
    <3>2. BarrierHolds'
      BY <1>0, <3>1, Zenon DEF BarrierHolds, At, Move, Typed, Inside
    <3>3. QED
      BY <1>0, <2>1, <3>1, <3>2, UncountedMove DEF Steps, OpenSteps, Sent, In
  <2>5. CASE Leave(f) /\ fpc[f] # "out"
    <3>1. /\ Move(f, "left", "idle") /\ wire' = wire
          /\ wg' = wg /\ leaving' = leaving \ {f}
      BY <2>5, Zenon DEF Leave, Move, LeaveCount, Ghosts
    <3>2. BarrierHolds'
      BY <1>0, <3>1, Zenon DEF BarrierHolds, At, Move, Typed, Inside
    <3>3. QED
      BY <1>0, <2>1, <3>1, <3>2, UncountedMove DEF Steps, OpenSteps, Sent, In
  <2>6. QED
    BY Zenon, <1>7, <2>2, <2>3, <2>4, <2>5
<1>8. QED
  BY <1>1, <1>2, <1>3, <1>4, <1>5, <1>6, <1>7, Zenon

WInv == GateInv /\ AccountInv /\ SnapSettled /\ ReadAfterBarrier

\* A step that is not a fire's leaves every fire, the ledger and the wire alone.
LEMMA OtherSteps ==
  ASSUME WNext, ~\E f \in Fires : Fire(f)
  PROVE  /\ UNCHANGED <<fpc, led, wire, wg, leaving>>
         /\ Snapshot \/ UNCHANGED <<snap, read>>
<1>1. CASE ArmWindow \/ StartWindow \/ FinishBegin
  BY ZenonT(40), <1>1 DEF ArmWindow, StartWindow, FinishBegin, Sends, gvars
<1>2. CASE Finish
  BY <1>2, Zenon DEF Finish, SignalScheduler, Join, CloseBarrier, BarrierReturned, Detach, Snapshot,
              Close, Sends, gvars
<1>3. CASE Tick \/ CloseExporter \/ NextClaims
  BY <1>3, Zenon DEF Tick, CloseExporter, NextClaims, Sends, gvars
<1>4. CASE Deadline \/ Barrier
  BY <1>4, Zenon DEF Deadline, Barrier, Expire, WaiterDone, ReturnDrained, CeilingFires,
              CeilingSelect, wvars
<1>5. QED
  BY <1>1, <1>2, <1>3, <1>4, Zenon DEF WNext

\* Every step of the window is a step of the barrier or leaves it alone.
LEMMA WindowUsesGate ==
  ASSUME AccountInv, [WNext]_vars
  PROVE  [GateNext]_gvars
<1>1. ASSUME NEW f \in Fires, Fire(f) PROVE [GateNext]_gvars
  <2>1. CASE Enter(f)
    <3>1. f \notin wg \cup leaving
      BY <2>1, Zenon DEF Enter, Move, AccountInv, BarrierHolds, At, Inside
    <3>2. QED
      BY <2>1, <3>1, Zenon DEF Enter, GateNext
  <2>2. CASE Leave(f)
    BY ZenonT(40), <2>2 DEF Leave, GateNext
  <2>3. CASE ~Enter(f) /\ ~Leave(f)
    BY <1>1, <2>3, Zenon DEF Fire, Pop, Request, Defer, LoadScenario, LoadOther, LegacyWrite, Stamp,
                      Decide, Suppress, Refuse, CountEmitted, Fail, Write, Classify, Bucket
  <2>4. QED
    BY <2>1, <2>2, <2>3, Zenon
<1>2. CASE ArmWindow \/ StartWindow \/ FinishBegin \/ Tick \/ CloseExporter \/ NextClaims
  BY <1>2, Zenon DEF ArmWindow, StartWindow, FinishBegin, Tick, CloseExporter, NextClaims
<1>3. CASE Finish
  BY <1>3, Zenon DEF Finish, SignalScheduler, Join, CloseBarrier, BarrierReturned, Detach, Snapshot,
              GateNext
<1>4. CASE Deadline \/ Barrier
  BY <1>4, Zenon DEF Deadline, Barrier, GateNext, GateWaiter
<1>5. CASE UNCHANGED vars
  BY <1>5, Zenon DEF vars
<1>6. QED
  BY <1>1, <1>2, <1>3, <1>4, <1>5, Zenon DEF WNext

\* The accounts survive every step.
LEMMA AccountStep ==
  ASSUME AccountInv, ReadAfterBarrier, [WNext]_vars
  PROVE  AccountInv'
<1>1. ASSUME NEW f \in Fires, Fire(f) PROVE AccountInv'
  <2>1. CASE Refuse(f)
    <3>1. CASE fpc[f] = "passed"
      BY <2>1, <3>1, QuietSteps, Zenon
    <3>2. CASE fpc[f] # "passed"
      BY <2>1, <3>2, AccountSteps, Zenon
    <3>3. QED
      BY <3>1, <3>2, Zenon
  <2>2. CASE \/ Pop(f) \/ Request(f) \/ Defer(f) \/ LoadScenario(f) \/ LoadOther(f)
             \/ LegacyWrite(f) \/ Stamp(f) \/ Decide(f)
    BY <2>2, QuietSteps, Zenon
  <2>3. CASE Suppress(f) \/ Enter(f) \/ CountEmitted(f) \/ Fail(f)
    BY <2>3, AccountSteps, Zenon
  <2>4. CASE Write(f) \/ Classify(f) \/ Bucket(f) \/ Leave(f)
    BY Zenon, <2>4, AccountSteps
  <2>5. QED
    BY <1>1, <2>1, <2>2, <2>3, <2>4, Zenon DEF Fire
<1>2. CASE WNext /\ ~\E f \in Fires : Fire(f)
  <2>1. UNCHANGED <<fpc, led, wire, wg, leaving>> /\ (Snapshot \/ UNCHANGED <<snap, read>>)
    BY <1>2, OtherSteps, Zenon
  <2>2. snap' \in [Counters -> Nat] /\ read' \in 0..9
    <3>1. CASE Snapshot
      <4>1. read # 9
        BY <3>1, Zenon DEF Snapshot, ReadAfterBarrier
      <4>2. SnapOrder[read + 1] \in Counters
        BY <4>1 DEF AccountInv, Typed, SnapOrder, Counters
      <4>3. QED
        BY <3>1, <4>1, <4>2 DEF Snapshot, AccountInv, Typed
    <3>2. QED
      BY <2>1, <3>1, Zenon DEF AccountInv, Typed
  <2>3. QED
    BY <2>1, <2>2, Zenon DEF AccountInv, Typed, BarrierHolds, BooksBalance, Accounted, Open, At,
                      WireCounted, SubWindowsCounted
<1>3. CASE UNCHANGED vars
  BY <1>3, Zenon DEF vars, gvars, wvars, AccountInv, Typed, BarrierHolds, BooksBalance, Accounted,
              Open, At, WireCounted, SubWindowsCounted
<1>4. QED
  BY <1>1, <1>2, <1>3, Zenon

\* A drained barrier leaves no fire inside, so nothing moves the send buckets.
LEMMA SettledStep ==
  ASSUME GateInv, AccountInv, [WNext]_vars, stragglers = 0
  PROVE  \A c \in {"subs", "inWindow", "drain", "sendFailures"} : led'[c] = led[c]
<1>0. led \in [Counters -> Nat]
  BY Zenon DEF AccountInv, Typed
<1>1. wg = {}
  BY FiresCount DEF GateInv, GateTypeOK, ResultSet, StragglersBound
<1>2. \A f \in Fires : fpc[f] \notin Inside
  BY <1>1, Zenon DEF AccountInv, BarrierHolds, At
<1>3. ASSUME NEW f \in Fires, Fire(f)
      PROVE  \/ led' = led
             \/ \E c \in {"requested", "deferred", "emitted", "suppressed", "dropped"} : Count(c)
  <2>1. ~(CountEmitted(f) \/ Fail(f) \/ Write(f) \/ Classify(f) \/ Bucket(f))
    BY <1>2, Zenon DEF CountEmitted, Fail, Write, Classify, Bucket, Move, Inside
  <2>2. CASE Request(f) \/ Defer(f) \/ Suppress(f) \/ Refuse(f)
    BY Zenon, <2>2 DEF Request, Defer, Suppress, Refuse
  <2>3. CASE \/ Pop(f) \/ LoadScenario(f) \/ LoadOther(f) \/ LegacyWrite(f) \/ Stamp(f)
             \/ Decide(f) \/ Enter(f) \/ Leave(f)
    BY <2>3, Zenon DEF Pop, LoadScenario, LoadOther, LegacyWrite, Stamp, Decide, Enter, Leave
  <2>4. QED
    BY ZenonT(40), <1>3, <2>1, <2>2, <2>3 DEF Fire
<1>4. CASE led' = led
  BY <1>4, Zenon
<1>5. ASSUME NEW c \in {"requested", "deferred", "emitted", "suppressed", "dropped"}, Count(c)
      PROVE  \A d \in {"subs", "inWindow", "drain", "sendFailures"} : led'[d] = led[d]
  BY <1>0, <1>5, CountOne, Zenon DEF Counters
<1>6. CASE UNCHANGED vars
  BY <1>6, Zenon DEF vars, wvars
<1>7. QED
  BY <1>3, <1>4, <1>5, <1>6, OtherSteps, Zenon

\* The snapshot is taken after the barrier and matches a settled ledger.
LEMMA ReadStep ==
  ASSUME WInv, [WNext]_vars
  PROVE  SnapSettled' /\ ReadAfterBarrier'
<1> USE DEF WInv
<1>0. read \in 0..9 /\ snap \in [Counters -> Nat]
  BY Zenon DEF AccountInv, Typed
<1>1. wpc = "returned" => wpc' = "returned" /\ stragglers' = stragglers
  <2>1. [GateNext]_gvars
    BY WindowUsesGate, Zenon
  <2>2. QED
    BY <2>1, Zenon DEF GateNext, GateWaiter, gvars, Admit, LeaveDone, LeaveCount, Close, WaiterDone,
                Expire, ReturnDrained, CeilingFires, CeilingSelect
<1>2. CASE Snapshot
  <2>1. read # 9 /\ wpc = "returned"
    BY <1>2, Zenon DEF Snapshot, ReadAfterBarrier
  <2>2. /\ read' = read + 1 /\ fin = "detached" /\ gate' = gate
        /\ fin' = IF read + 1 = 9 THEN "done" ELSE "detached"
    BY <1>2, Zenon DEF Snapshot, SnapOrder
  <2>3. ReadAfterBarrier'
    BY ZenonT(40), <1>0, <1>1, <2>1, <2>2 DEF ReadAfterBarrier
  <2>4. SnapSettled'
    <3>1. led' = led /\ stragglers' = stragglers
      BY <1>1, <1>2, <2>1, Zenon DEF Snapshot, Sends
    <3>2. snap' = [snap EXCEPT ![SnapOrder[read + 1]] = led[SnapOrder[read + 1]]]
      BY <1>2, Zenon DEF Snapshot
    <3>3. \/ read = 0 /\ SnapOrder[read + 1] = "subs"
          \/ read = 2 /\ SnapOrder[read + 1] = "inWindow"
          \/ read = 3 /\ SnapOrder[read + 1] = "drain"
          \/ read \notin {0, 2, 3} /\ SnapOrder[read + 1] \notin {"subs", "inWindow", "drain"}
      BY <1>0, <2>1 DEF SnapOrder
    <3>4. QED
      BY <1>0, <2>2, <3>1, <3>2, <3>3 DEF SnapSettled, Counters
  <2>5. QED
    BY ZenonT(40), <2>3, <2>4
<1>3. CASE ~Snapshot
  <2>1. UNCHANGED <<snap, read>>
    <3>1. ASSUME NEW f \in Fires, Fire(f) PROVE UNCHANGED <<snap, read>>
      BY Zenon, <3>1 DEF Fire, Pop, Request, Defer, LoadScenario, LoadOther, LegacyWrite, Stamp,
                  Decide, Suppress, Refuse, Enter, CountEmitted, Fail, Write, Classify, Bucket,
                  Leave, Rest
    <3>2. QED
      BY Zenon, <1>3, <3>1, OtherSteps DEF vars, wvars
  <2>2. \/ fin' = fin /\ (gate' = gate \/ fin = "idle")
        \/ BarrierReturned
        \/ Detach
        \/ /\ fin \notin {"drained", "detached", "done"} /\ gate' = "stopped"
           /\ fin' \notin {"drained", "detached", "done"}
    <3>1. ASSUME NEW f \in Fires, Fire(f) PROVE fin' = fin /\ gate' = gate
      BY Zenon, <3>1 DEF Fire, Pop, Request, Defer, LoadScenario, LoadOther, LegacyWrite, Stamp,
                  Decide, Suppress, Refuse, Enter, CountEmitted, Fail, Write, Classify, Bucket,
                  Leave, Rest
    <3>2. CASE Finish
      BY <1>3, <3>2, Zenon
         DEF Finish, SignalScheduler, Join, CloseBarrier, ReadAfterBarrier
    <3>3. CASE FinishBegin
      BY ZenonT(40), <3>3 DEF FinishBegin, ReadAfterBarrier
    <3>4. CASE \/ ArmWindow \/ StartWindow \/ Tick \/ Deadline \/ Barrier \/ CloseExporter
               \/ NextClaims \/ UNCHANGED vars
      BY <3>4, Zenon DEF ArmWindow, StartWindow, Tick, Deadline, Barrier, CloseExporter, NextClaims,
                  vars, wvars, ReadAfterBarrier
    <3>5. QED
      BY <3>1, <3>2, <3>3, <3>4, Zenon DEF WNext
  <2>3. ReadAfterBarrier'
    BY <1>0, <1>1, <2>1, <2>2, Zenon DEF ReadAfterBarrier, BarrierReturned, Detach
  <2>4. SnapSettled'
    <3>1. CASE wpc = "returned"
      BY ZenonT(40), <1>1, <2>1, <3>1, SettledStep DEF SnapSettled
    <3>2. CASE wpc # "returned"
      <4>1. read = 0
        BY <1>0, <3>2 DEF ReadAfterBarrier
      <4>2. QED
        BY <2>1, <4>1 DEF SnapSettled
    <3>3. QED
      BY Zenon, <3>1, <3>2
  <2>5. QED
    BY <2>3, <2>4, Zenon
<1>4. QED
  BY <1>2, <1>3, Zenon

\* The initial state satisfies the invariant.
LEMMA WInitInv == WInit => WInv
<1> SUFFICES ASSUME WInit PROVE WInv
  BY Zenon
<1>1. GateInv
  BY GateInitInv, Zenon DEF WInit
<1>2. \A P : "idle" \notin P => Cardinality(At(P)) = 0 /\ At(P) = {}
  BY AtType, Zenon DEF WInit, At
<1>3. \A c \in Counters : led[c] = 0
  BY Zenon DEF WInit, Zero
<1>4. Typed
  BY DEF WInit, Typed, Zero, Steps
<1>5. BarrierHolds
  BY <1>2, Zenon DEF WInit, GateInit, BarrierHolds, Inside
<1>6. BooksBalance
  BY <1>2, <1>3 DEF BooksBalance, Accounted, Open, Counters
<1>7. WireCounted /\ SubWindowsCounted
  BY <1>2, <1>3 DEF WInit, WireCounted, SubWindowsCounted, Sent, Counters
<1>8. SnapSettled /\ ReadAfterBarrier
  BY DEF WInit, GateInit, SnapSettled, ReadAfterBarrier
<1>9. QED
  BY <1>1, <1>4, <1>5, <1>6, <1>7, <1>8, Zenon DEF WInv, AccountInv

\* The window's invariant: the barrier's, the accounts and the settled snapshot.
THEOREM WindowInvariant == WSpec => []WInv
<1>1. WInv /\ [WNext]_vars => WInv'
  <2> SUFFICES ASSUME WInv, [WNext]_vars PROVE WInv'
    BY Zenon
  <2>1. GateInv'
    BY WindowUsesGate, GateStepInv, Zenon DEF WInv
  <2>2. AccountInv'
    BY AccountStep, Zenon DEF WInv
  <2>3. QED
    BY <2>1, <2>2, ReadStep, Zenon DEF WInv
<1>2. QED
  BY <1>1, WInitInv, PTL DEF WSpec

\* The counter discipline of the fire path: whatever the interleaving, emitted
\* exceeds the buckets by exactly the fires still on their way.
THEOREM BooksAlwaysBalance == WSpec => []BooksBalance
<1>1. WInv => BooksBalance
  BY Zenon DEF WInv, AccountInv
<1>2. QED
  BY <1>1, WindowInvariant, PTL

\* The sent of a clean report is the number of datagrams written under the
\* scenario's handle, and its sub-windows add up to in_window.
THEOREM CleanReportIsExact == WSpec => []CleanReportExact
<1>1. WInv => CleanReportExact
  <2> SUFFICES ASSUME WInv, CleanReport
               PROVE  /\ snap["inWindow"] + snap["drain"] = wire
                      /\ snap["subs"] = snap["inWindow"]
    BY Zenon DEF CleanReportExact, CleanSent, CleanSubWindows
  <2>1. read = 9 /\ stragglers = 0
    BY Zenon DEF WInv, ReadAfterBarrier, CleanReport
  <2>2. wg = {}
    BY <2>1, FiresCount DEF WInv, GateInv, GateTypeOK, ResultSet, StragglersBound
  <2>3. At(Sent) = {} /\ At({"inWindow"}) = {}
    BY <2>2, Zenon DEF WInv, AccountInv, BarrierHolds, At, Inside, Sent
  <2>4. Cardinality(At(Sent)) = 0 /\ Cardinality(At({"inWindow"})) = 0
    BY <2>3, AtType, Zenon
  <2>5. /\ snap["subs"] = led["subs"] /\ snap["inWindow"] = led["inWindow"]
        /\ snap["drain"] = led["drain"]
    BY <2>1 DEF WInv, SnapSettled
  <2>6. \A c \in Counters : led[c] \in Nat
    BY Zenon DEF WInv, AccountInv, Typed
  <2>7. QED
    BY <2>4, <2>5, <2>6 DEF WInv, AccountInv, WireCounted, SubWindowsCounted, Counters
<1>2. QED
  BY <1>1, WindowInvariant, PTL

\* A barrier that drained settles the send buckets: no later step moves them.
THEOREM SettledLedger == WSpec => SettledIsFinal
<1>1. WInv /\ [WNext]_vars =>
        [stragglers = 0 => \A c \in {"subs", "inWindow", "drain", "sendFailures"} :
                             led'[c] = led[c]]_vars
  BY SettledStep, Zenon DEF WInv
<1>2. QED
  BY <1>1, WindowInvariant, PTL DEF WSpec, SettledIsFinal

\* The window refines the barrier specification, so that every theorem of
\* the first part about safety holds of it.
THEOREM WindowRefinesGate == WSpec => ImplementsGate
<1>1. WInit => GateInit
  BY Zenon DEF WInit
<1>2. WInv /\ [WNext]_vars => [GateNext]_gvars
  BY WindowUsesGate, Zenon DEF WInv
<1>3. QED
  BY <1>1, <1>2, WindowInvariant, PTL DEF WSpec, ImplementsGate, GateSpec
\* The window inherits the barrier's promise: admission stops for good at the close,
\* and finish() is told 0 only over a drained barrier.
THEOREM WindowRefinesBarrier == WSpec => ImplementsBarrier
<1>1. QED
  BY WindowRefinesGate, GateRefinesBarrier, PTL DEF ImplementsGate

\* The verdict finish() acts on is honest inside the window, whatever the fires do.
THEOREM WindowVerdictHonest == WSpec => []VerdictHonest
<1>1. QED
  BY WindowRefinesGate, VerdictAlwaysHonest, PTL DEF ImplementsGate
-----------------------------------------------------------------------------
(* The clock, the handle and the join. *)

\* Only the scheduler's run loop pops.
PoppedByScheduler ==
  \A f \in Fires : fpc[f] \in {"popped", "asked"} => Source[f] = "scenario"

\* The handle is the scenario's own from arm to detach, and once the next scenario
\* holds it this one never gets it back.
HandleHeld ==
  /\ gate = "none" => slot = "none"
  /\ gate # "none" /\ fin \notin {"detached", "done"} => slot = "own"
  /\ foreign > 0 => slot = "next"

\* The scheduler is told to stop before it is joined, and a completed join found it
\* gone, with no fire of its own taken by another scenario.
JoinedIsGone ==
  /\ fin \in {"idle", "begun", "signalled"} => ~joined
  /\ fin = "signalled" => stopped
  /\ joined => stopped /\ SchedulerExited /\ foreign = 0

\* Until the window opens no fire has passed the gate.
NotYetOpen ==
  gate \in {"none", "armed"} => wire = 0 /\ \A f \in Fires : fpc[f] \notin {"passed"} \cup Inside

\* A write that returned at or after T1 finds the clock there when it is classified.
LateWritten == \A f \in late : fpc[f] = "wrote" /\ now >= t1

TimingInv == /\ WTypeOK
             /\ PoppedByScheduler
             /\ HandleHeld
             /\ JoinedIsGone
             /\ NotYetOpen
             /\ LateWritten
\* The initial state satisfies it.
LEMMA TimingInit == WInit => TimingInv
<1> SUFFICES ASSUME WInit PROVE TimingInv
  BY Zenon
<1>0. GateTypeOK
  BY GateInitInv, Zenon DEF WInit, GateInv
<1>1. WTypeOK
  <2>1. {closing, stopped, joined} \subseteq BOOLEAN
    BY Zenon DEF WInit
  <2>2. {wire, foreign} \subseteq Nat /\ late \subseteq Fires
    BY DEF WInit
  <2>3. led \in [Counters -> Nat] /\ snap \in [Counters -> Nat]
    BY Zenon DEF WInit, Zero
  <2>4. /\ now \in 0..MaxTime /\ t1 \in 0..MaxTime + Window
        /\ ft \in [Fires -> 0..MaxTime] /\ read \in 0..Len(SnapOrder)
        /\ started \in 0..MaxFires
    BY WindowAssumption DEF WInit, SnapOrder
  <2>5. /\ gate \in {"none", "armed", "running", "stopped"}
        /\ slot \in {"none", "own", "next"}
        /\ fin \in FinSteps /\ fpc \in [Fires -> Steps]
    BY Zenon DEF WInit, FinSteps, Steps
  <2>6. QED
    BY <1>0, <2>1, <2>2, <2>3, <2>4, <2>5, Zenon DEF WTypeOK
<1>2. PoppedByScheduler /\ HandleHeld /\ JoinedIsGone
  BY DEF WInit, PoppedByScheduler, HandleHeld, JoinedIsGone
<1>3. NotYetOpen /\ LateWritten
  BY Zenon DEF WInit, NotYetOpen, Inside, LateWritten
<1>4. QED
  BY <1>1, <1>2, <1>3, Zenon DEF TimingInv

\* A fire past the gate.
Past == {"passed"} \cup Inside

\* Where a fire's step takes it: past the gate only inside the window, out of
\* "idle" only while its scheduler runs.
LEMMA FireMoves ==
  ASSUME TimingInv, NEW f \in Fires, Fire(f)
  PROVE  \E b \in Steps :
           /\ fpc' = [fpc EXCEPT ![f] = b]
           /\ b \in {"popped", "asked"} => Source[f] = "scenario"
           /\ b \in Past => gate = "running" \/ fpc[f] \in Past
           /\ Source[f] = "scenario" /\ fpc[f] = "idle" /\ b # "idle" => ~stopped
<1> USE DEF Steps, Past, Inside
<1>1. CASE Pop(f) \/ LoadOther(f)
  BY Zenon, <1>1 DEF Pop, LoadOther, Move
<1>2. CASE Request(f) \/ Defer(f)
  BY Zenon, <1>2 DEF Request, Defer, Move, TimingInv, PoppedByScheduler
<1>3. CASE LoadScenario(f) \/ LegacyWrite(f) \/ Stamp(f)
  BY Zenon, <1>3 DEF LoadScenario, LegacyWrite, Stamp, Move
<1>4. CASE Decide(f)
  BY Zenon, <1>4 DEF Decide, Decision, Move
<1>5. CASE Suppress(f) \/ Refuse(f)
  BY Zenon, <1>5 DEF Suppress, Refuse, Move
<1>6. CASE Enter(f) \/ CountEmitted(f) \/ Fail(f) \/ Write(f)
  BY Zenon, <1>6 DEF Enter, CountEmitted, Fail, Write, Move
<1>7. CASE Classify(f) \/ Bucket(f) \/ Leave(f)
  BY Zenon, <1>7 DEF Classify, Bucket, Leave, Move
<1>8. QED
  BY ZenonT(40), <1>1, <1>2, <1>3, <1>4, <1>5, <1>6, <1>7 DEF Fire

\* What a fire's step does to the wire, the clock stamps and the histories.
LEMMA FireWrites ==
  ASSUME TimingInv, NEW f \in Fires, Fire(f)
  PROVE  /\ Rest
         /\ ft' \in [Fires -> 0..MaxTime]
         /\ started' \in 0..MaxFires
         /\ wire' = wire \/ fpc[f] = "sending"
         /\ \/ foreign' = foreign
            \/ foreign' = foreign + 1 /\ slot = "next" /\ fpc[f] = "asked"
<1>0. /\ now \in 0..MaxTime /\ t1 \in Nat /\ started \in 0..MaxFires
      /\ ft \in [Fires -> 0..MaxTime] /\ MaxFires \in Nat
  BY WindowAssumption DEF TimingInv, WTypeOK
<1>1. CASE Pop(f) \/ LoadOther(f)
  <2>1. started < MaxFires /\ started' = started + 1 /\ Rest /\ Ghosts /\ ft' = ft
    BY <1>1, Zenon DEF Pop, LoadOther
  <2>2. QED
    BY <1>0, <2>1 DEF Ghosts
<1>2. CASE LoadScenario(f)
  BY <1>0, <1>2, Zenon DEF LoadScenario
<1>3. CASE Stamp(f)
  BY <1>0, <1>3, Zenon DEF Stamp, Ghosts
<1>4. CASE Write(f)
  BY <1>0, <1>4, Zenon DEF Write, Move
<1>5. CASE Classify(f)
  BY <1>0, <1>5, Zenon DEF Classify
<1>6. CASE \/ Request(f) \/ Defer(f) \/ LegacyWrite(f) \/ Decide(f) \/ Suppress(f)
           \/ Refuse(f)
  BY Zenon, <1>0, <1>6 DEF Request, Defer, LegacyWrite, Decide, Suppress, Refuse, Ghosts
<1>7. CASE Enter(f) \/ CountEmitted(f) \/ Fail(f) \/ Bucket(f) \/ Leave(f)
  BY <1>0, <1>7, Zenon DEF Enter, CountEmitted, Fail, Bucket, Leave, Ghosts
<1>8. QED
  BY ZenonT(40), <1>1, <1>2, <1>3, <1>4, <1>5, <1>6, <1>7 DEF Fire

\* A fire that was late is classified as drain, and any other keeps its place.
LEMMA FireLate ==
  ASSUME TimingInv, NEW f \in Fires, Fire(f)
  PROVE  late' \subseteq Fires /\ LateWritten'
<1>0. /\ fpc \in [Fires -> Steps] /\ late \subseteq Fires /\ now \in Nat /\ t1 \in Nat
      /\ LateWritten
  BY WindowAssumption DEF TimingInv, WTypeOK
<1>1. now' = now /\ t1' = t1
  BY FireWrites, Zenon DEF Rest
<1>2. PICK b \in Steps : fpc' = [fpc EXCEPT ![f] = b]
  BY FireMoves, Zenon
<1>3. \A g \in Fires : g # f => fpc'[g] = fpc[g]
  BY <1>0, <1>2, Zenon
<1>4. CASE Write(f)
  <2>1. fpc[f] = "sending" /\ fpc'[f] = "wrote" /\ late' = IF now >= t1 THEN late \cup {f} ELSE late
    BY <1>0, <1>4, Zenon DEF Write, Move
  <2>2. f \notin late
    BY <1>0, <2>1, Zenon DEF LateWritten
  <2>3. QED
    BY <1>0, <1>1, <1>3, <2>1, <2>2, Zenon DEF LateWritten
<1>5. CASE Classify(f)
  <2>1. CASE now < t1
    <3>1. late = {} /\ late' = late
      BY <1>0, <1>5, <2>1 DEF Classify, BucketTime, LateWritten
    <3>2. QED
      BY <3>1, Zenon DEF LateWritten
  <2>2. CASE ~(now < t1)
    <3>1. late' = late \ {f}
      BY <1>0, <1>5, <2>2 DEF Classify, BucketTime
    <3>2. QED
      BY <1>0, <1>1, <1>3, <3>1, Zenon DEF LateWritten
  <2>3. QED
    BY <2>1, <2>2, Zenon
<1>6. CASE ~Write(f) /\ ~Classify(f)
  <2>1. late' = late /\ fpc[f] # "wrote"
    <3>1. CASE Pop(f) \/ LoadOther(f) \/ Request(f) \/ Defer(f) \/ LoadScenario(f)
      BY <3>1, Zenon DEF Pop, LoadOther, Request, Defer, LoadScenario, Ghosts, Move
    <3>2. CASE LegacyWrite(f) \/ Stamp(f) \/ Decide(f) \/ Suppress(f) \/ Refuse(f)
      BY <3>2, Zenon DEF LegacyWrite, Stamp, Decide, Suppress, Refuse, Ghosts, Move
    <3>3. CASE Enter(f) \/ CountEmitted(f) \/ Fail(f) \/ Bucket(f) \/ Leave(f)
      BY <3>3, Zenon DEF Enter, CountEmitted, Fail, Bucket, Leave, Ghosts, Move
    <3>4. QED
      BY <1>6, <3>1, <3>2, <3>3, Zenon DEF Fire
  <2>2. QED
    BY <1>0, <1>1, <1>3, <2>1, Zenon DEF LateWritten
<1>7. QED
  BY <1>4, <1>5, <1>6, Zenon

\* A fire's step keeps the timing: its own record of the step decides everything.
LEMMA TimingFire ==
  ASSUME WInv, TimingInv, NEW f \in Fires, Fire(f)
  PROVE  TimingInv'
<1>0. WTypeOK /\ [WNext]_vars
  BY ZenonT(40) DEF TimingInv, WNext
<1>1. PICK b \in Steps :
        /\ fpc' = [fpc EXCEPT ![f] = b]
        /\ b \in {"popped", "asked"} => Source[f] = "scenario"
        /\ b \in Past => gate = "running" \/ fpc[f] \in Past
        /\ Source[f] = "scenario" /\ fpc[f] = "idle" /\ b # "idle" => ~stopped
  BY FireMoves, Zenon
<1>2. /\ Rest /\ ft' \in [Fires -> 0..MaxTime] /\ started' \in 0..MaxFires
      /\ wire' = wire \/ fpc[f] = "sending"
      /\ \/ foreign' = foreign
         \/ foreign' = foreign + 1 /\ slot = "next" /\ fpc[f] = "asked"
  BY FireWrites, Zenon
<1>3. fpc \in [Fires -> Steps]
  BY <1>0, Zenon DEF WTypeOK
<1>4. GateTypeOK' /\ Typed'
  BY ZenonT(40), <1>0, WindowUsesGate, GateStepInv, AccountStep DEF WInv, GateInv, AccountInv
<1>5. foreign \in Nat
  BY <1>0, Zenon DEF WTypeOK
<1>6. late' \subseteq Fires /\ LateWritten'
  BY FireLate, Zenon
<1>7. PoppedByScheduler'
  BY <1>1, <1>3, Zenon DEF TimingInv, PoppedByScheduler
<1>8. HandleHeld'
  BY <1>2, Zenon DEF TimingInv, HandleHeld, Rest
<1>9. JoinedIsGone'
  <2>1. ASSUME joined
        PROVE  SchedulerExited' /\ foreign' = 0
    <3>1. stopped /\ SchedulerExited /\ foreign = 0
      BY <2>1, Zenon DEF TimingInv, JoinedIsGone
    <3>2. Source[f] = "scenario" => fpc[f] = "idle" /\ b = "idle"
      BY <1>1, <3>1, Zenon DEF SchedulerExited
    <3>3. SchedulerExited'
      BY Zenon, <1>1, <1>3, <3>1, <3>2 DEF SchedulerExited
    <3>4. fpc[f] # "asked"
      BY Zenon, <3>2 DEF TimingInv, PoppedByScheduler
    <3>5. QED
      BY <1>2, <3>1, <3>3, <3>4, Zenon
  <2>2. QED
    BY <1>2, <2>1, Zenon DEF TimingInv, JoinedIsGone, Rest
<1>10. NotYetOpen'
  <2>1. ASSUME gate \in {"none", "armed"}
        PROVE  wire' = 0 /\ \A g \in Fires : fpc'[g] \notin Past
    BY Zenon, <1>1, <1>2, <1>3, <2>1 DEF TimingInv, NotYetOpen, Past, Inside
  <2>2. QED
    BY Zenon, <1>2, <2>1 DEF NotYetOpen, Past, Rest
<1>11. WTypeOK'
  <2>1. {closing', stopped', joined'} \subseteq BOOLEAN
    BY <1>0, <1>2, Zenon DEF WTypeOK, Rest
  <2>2. {wire', foreign'} \subseteq Nat
    BY <1>2, <1>4, <1>5 DEF Typed
  <2>3. /\ now' \in 0..MaxTime /\ t1' \in 0..MaxTime + Window
        /\ gate' \in {"none", "armed", "running", "stopped"}
        /\ slot' \in {"none", "own", "next"} /\ fin' \in FinSteps
        /\ read' \in 0..Len(SnapOrder)
    BY <1>0, <1>2, Zenon DEF WTypeOK, Rest
  <2>4. QED
    BY ZenonT(40), <1>2, <1>4, <1>6, <2>1, <2>2, <2>3 DEF WTypeOK, Typed
<1>12. QED
  BY ZenonT(40), <1>6, <1>7, <1>8, <1>9, <1>10, <1>11 DEF TimingInv

\* Every other step leaves the fires alone and moves the controller forward.
LEMMA TimingOther ==
  ASSUME WInv, TimingInv, WNext, ~\E f \in Fires : Fire(f)
  PROVE  TimingInv'
<1>0. /\ UNCHANGED <<fpc, led, wire, wg>>
      /\ WTypeOK
  BY Zenon, OtherSteps DEF TimingInv
<1>1. UNCHANGED <<ft, started, late, foreign>>
  BY Zenon DEF WNext, Finish, ArmWindow, StartWindow, FinishBegin, SignalScheduler, Join,
         CloseBarrier, BarrierReturned, Detach, Snapshot, Tick, Deadline, Barrier,
         CloseExporter, NextClaims, Sends, wvars
<1>2. GateTypeOK' /\ Typed'
  BY Zenon, WindowUsesGate, GateStepInv, AccountStep DEF WInv, GateInv, AccountInv
<1>3. /\ now' \in 0..MaxTime /\ t1' \in 0..MaxTime + Window
      /\ {closing', stopped', joined'} \subseteq BOOLEAN
      /\ gate' \in {"none", "armed", "running", "stopped"}
      /\ slot' \in {"none", "own", "next"} /\ fin' \in FinSteps
  <2> USE WindowAssumption, <1>0 DEF WTypeOK, FinSteps
  <2>1. CASE ArmWindow \/ FinishBegin \/ NextClaims
    BY ZenonT(40), <2>1 DEF ArmWindow, FinishBegin, NextClaims, Sends
  <2>2. CASE StartWindow \/ Tick
    BY <2>2 DEF StartWindow, Tick, Sends
  <2>3. CASE Finish
    BY Zenon, <2>3 DEF Finish, SignalScheduler, Join, CloseBarrier, BarrierReturned, Detach,
                Snapshot, Sends
  <2>4. CASE Deadline \/ Barrier \/ CloseExporter
    BY ZenonT(40), <2>4 DEF Deadline, Barrier, CloseExporter, wvars
  <2>5. QED
    BY ZenonT(40), <2>1, <2>2, <2>3, <2>4 DEF WNext
<1>4. WTypeOK'
  <2>1. Len(SnapOrder) = 9
    BY Zenon DEF SnapOrder
  <2>2. QED
    BY <1>0, <1>1, <1>2, <1>3, <2>1, Zenon DEF WTypeOK, Typed
<1>5. PoppedByScheduler' /\ LateWritten'
  <2>1. PoppedByScheduler'
    BY <1>0, <1>1, Zenon DEF TimingInv, PoppedByScheduler
  <2>2. now \in Nat /\ t1 \in Nat /\ (t1' = t1 \/ gate = "armed") /\ (now' = now \/ now' = now + 1)
    <3>1. now \in Nat /\ t1 \in Nat
      BY <1>0, WindowAssumption DEF WTypeOK
    <3>2. t1' = t1 \/ gate = "armed"
      BY Zenon DEF WNext, Finish, ArmWindow, StartWindow, FinishBegin, SignalScheduler, Join,
         CloseBarrier, BarrierReturned, Detach, Snapshot, Tick, Deadline, Barrier,
         CloseExporter, NextClaims, wvars
    <3>3. now' = now \/ now' = now + 1
      BY Zenon DEF WNext, Finish, ArmWindow, StartWindow, FinishBegin, SignalScheduler, Join,
         CloseBarrier, BarrierReturned, Detach, Snapshot, Tick, Deadline, Barrier,
         CloseExporter, NextClaims, wvars
    <3>4. QED
      BY <3>1, <3>2, <3>3, Zenon
  <2>3. gate = "armed" => late = {}
    BY <1>0, Zenon DEF TimingInv, NotYetOpen, LateWritten, Inside, WTypeOK
  <2>4. LateWritten'
    <3>1. SUFFICES ASSUME NEW f \in late PROVE fpc'[f] = "wrote" /\ now' >= t1'
      BY <1>1, Zenon DEF LateWritten
    <3>2. fpc'[f] = "wrote" /\ now >= t1 /\ t1' = t1
      BY <1>0, <2>2, <2>3, Zenon DEF TimingInv, LateWritten
    <3>3. QED
      BY <2>2, <3>2
  <2>5. QED
    BY <2>1, <2>4, Zenon
<1>6. NotYetOpen'
  <2>1. gate' \in {"none", "armed"} => gate \in {"none", "armed"}
    BY Zenon DEF WNext, Finish, ArmWindow, StartWindow, FinishBegin, SignalScheduler, Join,
           CloseBarrier, BarrierReturned, Detach, Snapshot, Tick, Deadline, Barrier,
           CloseExporter, NextClaims, wvars
  <2>2. QED
    BY Zenon, <1>0, <2>1 DEF TimingInv, NotYetOpen
<1>7. HandleHeld' /\ JoinedIsGone'
  <2>0. /\ SchedulerExited' <=> SchedulerExited
        /\ HandleHeld /\ JoinedIsGone /\ foreign' = foreign
        /\ joined \in BOOLEAN /\ stopped \in BOOLEAN
    BY Zenon, <1>0, <1>1 DEF SchedulerExited, TimingInv, WTypeOK
  <2> USE <2>0 DEF HandleHeld, JoinedIsGone
  <2>1. CASE ArmWindow
    BY Zenon, <2>1 DEF ArmWindow
  <2>2. CASE StartWindow \/ FinishBegin
    BY <2>2 DEF StartWindow, FinishBegin, WInv, ReadAfterBarrier
  <2>3. CASE NextClaims
    BY Zenon, <2>3 DEF NextClaims
  <2>4. CASE SignalScheduler \/ CloseBarrier \/ BarrierReturned
    BY <2>4 DEF SignalScheduler, CloseBarrier, BarrierReturned
  <2>5. CASE Detach \/ Snapshot
    BY <2>5 DEF Detach, Snapshot, WInv, ReadAfterBarrier
  <2>6. CASE Join
    <3>1. PICK ok \in BOOLEAN : JoinVerdict(ok) /\ joined' = ok
      BY <2>6, Zenon DEF Join
    <3>2. fin' = "joined" /\ UNCHANGED <<gate, slot, stopped>> /\ fin = "signalled" /\ stopped
      BY <2>6, Zenon DEF Join
    <3>3. ok => SchedulerExited /\ foreign = 0
      <4>1. foreign \in Nat /\ gate # "none"
        BY <1>0, <3>2, Zenon DEF WTypeOK, WInv, ReadAfterBarrier
      <4>2. ~(foreign > 0)
        BY ZenonT(40), <3>2, <4>1
      <4>3. QED
        BY <3>1, <4>1, <4>2 DEF JoinVerdict
    <3>4. QED
      BY <3>1, <3>2, <3>3, Zenon
  <2>7. CASE Tick \/ Deadline \/ Barrier \/ CloseExporter
    BY <2>7 DEF Tick, Deadline, Barrier, CloseExporter, wvars
  <2>8. QED
    BY Zenon, <2>1, <2>2, <2>3, <2>4, <2>5, <2>6, <2>7 DEF WNext, Finish
<1>8. QED
  BY <1>4, <1>5, <1>6, <1>7, Zenon DEF TimingInv

\* The strengthening of the properties about time, handle and join.
THEOREM TimingInvariant == WSpec => []TimingInv
<1>1. WInv /\ TimingInv /\ [WNext]_vars => TimingInv'
  <2> SUFFICES ASSUME WInv, TimingInv, [WNext]_vars PROVE TimingInv'
    BY Zenon
  <2>1. CASE UNCHANGED vars
    <3>1. WTypeOK'
      BY Zenon, <2>1 DEF vars, gvars, wvars, TimingInv, WTypeOK, GateTypeOK
    <3>2. PoppedByScheduler' /\ HandleHeld' /\ NotYetOpen' /\ LateWritten'
      BY Zenon, <2>1 DEF vars, gvars, wvars, TimingInv, PoppedByScheduler, HandleHeld, NotYetOpen,
                  LateWritten
    <3>3. JoinedIsGone'
      BY Zenon, <2>1 DEF vars, gvars, wvars, TimingInv, JoinedIsGone, SchedulerExited
    <3>4. QED
      BY Zenon, <3>1, <3>2, <3>3 DEF TimingInv
  <2>2. QED
    BY <2>1, TimingFire, TimingOther, Zenon
<1>2. QED
  BY <1>1, TimingInit, WindowInvariant, PTL DEF WSpec

\* Every fire is in one bucket, in_window only when its write returned before T1; none
\* passes the gate before T0; and a fire the next scenario took is disclosed by a join
\* that gave up (fireWithCtx, bucketFor, decide, finish).
THEOREM WindowAlwaysAccounted == WSpec => []WindowAccounted
<1>1. WInv /\ TimingInv => WindowAccounted
  <2> SUFFICES ASSUME WInv, TimingInv PROVE WindowAccounted
    BY Zenon
  <2>1. WTypeOK /\ BooksBalance
    BY ZenonT(40) DEF WInv, AccountInv, TimingInv
  <2>2. ForeignFireDisclosed
    BY <2>1, SMTT(20) DEF TimingInv, JoinedIsGone, ForeignFireDisclosed, WTypeOK
  <2>3. NothingBeforeStart
    BY Zenon DEF WInv, AccountInv, BarrierHolds, At, TimingInv, NotYetOpen, NothingBeforeStart
  <2>4. InWindowHonest
    BY Zenon DEF TimingInv, LateWritten, InWindowHonest
  <2>5. QED
    BY <2>1, <2>2, <2>3, <2>4, Zenon DEF WindowAccounted
<1>2. QED
  BY <1>1, WindowInvariant, TimingInvariant, PTL

============================================================================
