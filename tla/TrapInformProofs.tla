-------------------------- MODULE TrapInformProofs --------------------------
(***************************************************************************)
(* Every inform is accounted for, for any number of senders and informs,   *)
(* any capacity and any retry budget.                                      *)
(*                                                                         *)
(* Conservation alone is not inductive: registering an id already in the   *)
(* table would count an inform twice and hold it once.  Fresh says that    *)
(* the id a sender is about to register is in no other hands.  Nothing is  *)
(* needed of pendingOrder for it: whatever the overflow loop pops, it      *)
(* counts as dropped exactly the entries it takes out of the table.        *)
(*                                                                         *)
(* The rest of InformsKept takes more: who holds an id (Holders), what its *)
(* transmissions have cost of its retries (SendsPaid), and which of the    *)
(* ids handed out each counter may have counted (Tallied).                 *)
(***************************************************************************)
EXTENDS TrapInform, FiniteSetTheorems, TLAPS

CountersTyped == /\ nextReqID \in Nat
                 /\ originated \in Nat /\ acked \in Nat
                 /\ failed \in Nat /\ dropped \in Nat

\* Keys are ids handed out.
KeysIssued == Keys \subseteq 1..nextReqID

\* The id of a fire that has not registered yet is its own.
Fresh == \A s \in Senders : spc[s] = "encoded" =>
           /\ cur[s] \in 1..nextReqID
           /\ cur[s] \notin Keys
           /\ \A r \in Senders \ {s} : spc[r] = "encoded" => cur[r] # cur[s]

FiresTyped == /\ DOMAIN spc = Senders
              /\ DOMAIN cur = Senders

TableInv == CountersTyped /\ KeysIssued /\ FiresTyped /\ Fresh /\ Conservation

\* The table is finite, and losing or gaining one key moves its size by one.
LEMMA KeysCount ==
  ASSUME NEW n \in Nat, NEW S, S \subseteq 1..n
  PROVE  /\ Cardinality(S) \in Nat
         /\ \A i : Cardinality(S \ {i}) = IF i \in S THEN Cardinality(S) - 1 ELSE Cardinality(S)
         /\ \A i : Cardinality(S \cup {i}) = IF i \in S THEN Cardinality(S)
                                                        ELSE Cardinality(S) + 1
         /\ \A T : T \subseteq S => Cardinality(T) \in Nat /\ Cardinality(T) <= Cardinality(S)
<1>0. IsFiniteSet(1..n)
  BY 1 \in Int, n \in Int, FS_Interval, Zenon
<1>1. IsFiniteSet(S)
  BY Zenon, <1>0, FS_Subset
<1>2. Cardinality(S) \in Nat
  BY <1>1, FS_CardinalityType, Zenon
<1>3. \A T : T \subseteq S => IsFiniteSet(T) /\ Cardinality(T) <= Cardinality(S)
  BY Zenon, <1>1, FS_Subset
<1>4. \A T : T \subseteq S => Cardinality(T) \in Nat
  BY Zenon, <1>3, FS_CardinalityType
<1>5. \A i : Cardinality(S \ {i}) = IF i \in S THEN Cardinality(S) - 1 ELSE Cardinality(S)
  BY <1>1, FS_RemoveElement, Zenon
<1>6. \A i : Cardinality(S \cup {i}) = IF i \in S THEN Cardinality(S) ELSE Cardinality(S) + 1
  BY <1>1, FS_AddElement, Zenon
<1>7. QED
  BY <1>2, <1>3, <1>4, <1>5, <1>6, Zenon

\* Forgetting an inform removes its key and no other.
LEMMA ForgetKeys == ASSUME NEW i, Forget(i) PROVE Keys' = Keys \ {i}
BY Zenon DEF Forget, Restrict, Keys

\* The initial state satisfies the invariant.
LEMMA TableInit == TInit => TableInv
<1> SUFFICES ASSUME TInit PROVE TableInv
  BY Zenon
<1>1. Keys = {}
  BY DEF TInit, Keys
<1>2. Cardinality(Keys) = 0
  BY <1>1, FS_EmptySet, Zenon
<1>3. QED
  BY <1>1, <1>2 DEF TInit, TableInv, CountersTyped, KeysIssued, FiresTyped, Fresh, Conservation

\* A step that leaves the table, the senders and the counters alone.
LEMMA TableIdle ==
  ASSUME TableInv, Keys' = Keys, UNCHANGED <<nextReqID, spc, cur>>,
         UNCHANGED <<originated, acked, failed, dropped>>
  PROVE  TableInv'
BY Zenon DEF TableInv, CountersTyped, KeysIssued, FiresTyped, Fresh, Conservation

\* Every step preserves it.
LEMMA TableStep == TableInv /\ [TNext]_tvars => TableInv'
<1> SUFFICES ASSUME TableInv, [TNext]_tvars PROVE TableInv'
  BY Zenon
<1>0. CountersTyped /\ KeysIssued /\ FiresTyped /\ Fresh /\ Conservation
  BY Zenon DEF TableInv
<1>a. Cardinality(Keys) \in Nat
  BY Zenon, <1>0, KeysCount DEF CountersTyped, KeysIssued
<1>1. ASSUME NEW s \in Senders, FireBegin(s) PROVE TableInv'
  <2>1. /\ nextReqID' = nextReqID + 1 /\ Keys' = Keys
        /\ UNCHANGED <<originated, acked, failed, dropped>>
    BY <1>1, Zenon DEF FireBegin, pvars, Keys
  <2>2. /\ spc' = [spc EXCEPT ![s] = "encoded"]
        /\ cur' = [cur EXCEPT ![s] = nextReqID + 1]
    BY <1>1, Zenon DEF FireBegin
  <2>3. nextReqID + 1 \notin 1..nextReqID /\ 1..nextReqID \subseteq 1..nextReqID'
    BY <1>0, <2>1 DEF CountersTyped
  <2>4. Fresh'
    <3> SUFFICES ASSUME NEW q \in Senders, spc'[q] = "encoded"
                 PROVE  /\ cur'[q] \in 1..nextReqID'
                        /\ cur'[q] \notin Keys'
                        /\ \A r \in Senders \ {q} : spc'[r] = "encoded" => cur'[r] # cur'[q]
      BY Zenon DEF Fresh
    <3>1. CASE q = s
      BY <1>0, <2>1, <2>2, <2>3, <3>1 DEF Fresh, FiresTyped, KeysIssued, CountersTyped
    <3>2. CASE q # s
      BY <1>0, <2>1, <2>2, <2>3, <3>2, Zenon DEF Fresh, FiresTyped, KeysIssued, CountersTyped
    <3>3. QED
      BY <3>1, <3>2, Zenon
  <2>5. QED
    BY <1>0, <2>1, <2>2, <2>3, <2>4
       DEF TableInv, CountersTyped, KeysIssued, FiresTyped, Conservation
<1>2. ASSUME NEW s \in Senders, FireRegister(s) PROVE TableInv'
  <2> DEFINE i == cur[s]
             K == KeptAfter(Popped)
  <2>1. K \subseteq Keys
    BY Zenon DEF KeptAfter
  <2>2. Keys' = K \cup {i}
    BY <1>2, Zenon DEF FireRegister, registerPending, Keys
  <2>3. i \in 1..nextReqID /\ i \notin K
    BY <1>0, <1>2, <2>1, Zenon DEF FireRegister, Fresh
  <2>4. /\ nextReqID' = nextReqID /\ originated' = originated + 1
        /\ dropped' = dropped + Cardinality(Keys) - Cardinality(K)
        /\ UNCHANGED <<acked, failed, cur>>
    BY <1>2, Zenon DEF FireRegister, registerPending
  <2>5. spc[s] = "encoded" /\ spc' = [spc EXCEPT ![s] = "registered"]
    BY <1>2, Zenon DEF FireRegister
  <2>6. /\ Cardinality(K) \in Nat /\ Cardinality(K) <= Cardinality(Keys)
        /\ Cardinality(K \cup {i}) = Cardinality(K) + 1
    <3>1. Keys \subseteq 1..nextReqID /\ nextReqID \in Nat /\ K \subseteq 1..nextReqID
      BY Zenon, <1>0, <2>1 DEF KeysIssued, CountersTyped
    <3>2. Cardinality(K) \in Nat /\ Cardinality(K) <= Cardinality(Keys)
      BY Zenon, <2>1, <3>1, KeysCount
    <3>3. Cardinality(K \cup {i}) = Cardinality(K) + 1
      BY <2>3, <3>1, KeysCount, Zenon
    <3>4. QED
      BY <3>2, <3>3, Zenon
  <2>7. CountersTyped' /\ Conservation'
    BY <1>0, <1>a, <2>2, <2>4, <2>6 DEF CountersTyped, Conservation
  <2>8. KeysIssued'
    BY Zenon, <1>0, <2>1, <2>2, <2>3, <2>4 DEF KeysIssued
  <2>9. Fresh' /\ FiresTyped'
    BY <1>0, <2>1, <2>2, <2>4, <2>5, Zenon DEF Fresh, FiresTyped
  <2>10. QED
    BY <2>7, <2>8, <2>9, Zenon DEF TableInv
<1>3. ASSUME NEW s \in Senders, FireFails(s) PROVE TableInv'
  <2> DEFINE i == cur[s]
  <2>1. /\ spc' = [spc EXCEPT ![s] = "idle"] /\ cur' = [cur EXCEPT ![s] = NoId]
        /\ nextReqID' = nextReqID /\ UNCHANGED <<acked, failed, dropped>>
    BY <1>3, Zenon DEF FireFails, FireEnds, Undo
  <2>2. /\ Keys' = Keys \ {i}
        /\ originated' = IF i \in Keys THEN originated - 1 ELSE originated
    <3>1. CASE i \in Keys
      BY <1>3, <3>1, ForgetKeys, Zenon DEF FireFails, Undo
    <3>2. CASE i \notin Keys
      BY <1>3, <3>2, Zenon DEF FireFails, Undo, Keys
    <3>3. QED
      BY <3>1, <3>2, Zenon
  <2>3. Cardinality(Keys') = IF i \in Keys THEN Cardinality(Keys) - 1 ELSE Cardinality(Keys)
    BY Zenon, <1>0, <2>2, KeysCount DEF KeysIssued, CountersTyped
  <2>4. Cardinality(Keys') \in Nat
    <3>1. Keys' \subseteq 1..nextReqID
      BY Zenon, <1>0, <2>2 DEF KeysIssued
    <3>2. QED
      BY Zenon, <1>0, <3>1, KeysCount DEF CountersTyped
  <2>5. CountersTyped' /\ Conservation'
    BY <1>0, <1>a, <2>1, <2>2, <2>3, <2>4 DEF CountersTyped, Conservation
  <2>6. KeysIssued' /\ Fresh' /\ FiresTyped'
    BY Zenon, <1>0, <2>1, <2>2 DEF KeysIssued, Fresh, FiresTyped
  <2>7. QED
    BY <2>5, <2>6, Zenon DEF TableInv
<1>4. ASSUME NEW s \in Senders, FireWrite(s) \/ FireCount(s) PROVE TableInv'
  <2>1. /\ UNCHANGED <<pvars, nextReqID>> /\ spc'[s] # "encoded"
        /\ \A q \in Senders \ {s} : spc'[q] = spc[q] /\ cur'[q] = cur[q]
        /\ DOMAIN spc' = Senders /\ DOMAIN cur' = Senders
    BY <1>0, <1>4, Zenon DEF FireWrite, FireCount, FireEnds, FiresTyped
  <2>2. QED
    BY <1>0, <2>1, Zenon DEF TableInv, CountersTyped, KeysIssued, FiresTyped, Fresh, Conservation,
                      pvars, Keys
<1>5. ASSUME NEW i \in Ids, Ack(i) \/ (FailOne(i) /\ i \in Keys) PROVE TableInv'
  <2>1. /\ i \in Keys /\ Keys' = Keys \ {i}
        /\ \/ acked' = acked + 1 /\ failed' = failed
           \/ acked' = acked /\ failed' = failed + 1
        /\ UNCHANGED <<nextReqID, spc, cur, originated, dropped>>
    BY <1>5, ForgetKeys, Zenon DEF Ack, Settle, FailOne, fvars
  <2>2. Cardinality(Keys') = Cardinality(Keys) - 1
    BY Zenon, <1>0, <2>1, KeysCount DEF KeysIssued, CountersTyped
  <2>3. CountersTyped'
    BY <1>0, <2>1 DEF CountersTyped
  <2>4. Conservation'
    BY <1>0, <1>a, <2>1, <2>2 DEF CountersTyped, Conservation
  <2>5. KeysIssued' /\ Fresh' /\ FiresTyped'
    BY <1>0, <2>1, Zenon DEF KeysIssued, Fresh, FiresTyped
  <2>6. QED
    BY <2>3, <2>4, <2>5, Zenon DEF TableInv
<1>6. ASSUME NEW i \in Ids, DeadlinePasses(i) \/ RetryOne(i) \/ (FailOne(i) /\ i \notin Keys)
      PROVE  TableInv'
  <2>1. /\ Keys' = Keys /\ UNCHANGED <<nextReqID, spc, cur>>
        /\ UNCHANGED <<originated, acked, failed, dropped>>
    BY <1>6, Zenon DEF DeadlinePasses, RetryOne, RetryCharged, FailOne, fvars, Keys
  <2>2. QED
    BY <2>1, TableIdle, Zenon
<1>7. CASE \/ Scan \/ Retransmit \/ ScanEnd \/ CloseBegin \/ CloseEnd \/ Attach \/ DetachPart
           \/ UNCHANGED tvars
  <2>1. UNCHANGED <<pvars, fvars>>
    BY <1>7, Zenon DEF Scan, Retransmit, ScanEnd, CloseBegin, CloseEnd, Attach, DetachPart, tvars
  <2>2. QED
    BY <2>1, TableIdle, Zenon DEF pvars, fvars, Keys
<1>8. QED
  BY <1>1, <1>2, <1>3, <1>4, <1>5, <1>6, <1>7, Zenon DEF TNext, RetryLoop

\* The inductive invariant holds in every reachable state.
THEOREM TableInvariant == TSpec => []TableInv
<1>1. QED
  BY TableInit, TableStep, PTL DEF TSpec

\* pending + acked + failed + dropped = originated at every instant, for any number
\* of concurrent senders (the counter invariant of TrapStats).
THEOREM InformsConserved == TSpec => []Conservation
<1>1. TableInv => Conservation
  BY Zenon DEF TableInv
<1>2. QED
  BY <1>1, TableInvariant,
     PTL-----------------------------------------------------------------------------
(* The order of the table, the transmissions and the bounds. *)

\* A fire under way holds an id of its own; an idle sender holds none.
Holders == \A s \in Senders :
             /\ spc[s] = "idle" <=> cur[s] = NoId
             /\ cur[s] \in 0..nextReqID
             /\ \A r \in Senders : cur[r] = cur[s] /\ r # s => cur[s] = NoId

\* What the scan chose to retry still has budget, unless it has settled.
RetriesLeft == \A i \in toRetry : i \in Keys => Retryable(i)

\* No fire has registered i yet.
Unregistered(i) == i > nextReqID \/ \E s \in Senders : cur[s] = i /\ spc[s] = "encoded"

\* An id not yet registered has not been sent, and the retry loop does not know it.
Unsent == \A i \in Ids : Unregistered(i) => tx[i] = 0 /\ again # i /\ i \notin toRetry

\* The first transmission of i is still to come.
Awaiting(i) == \E s \in Senders : cur[s] = i /\ spc[s] \in {"encoded", "registered"}

\* The budget of i that is spent, as far as the table knows.
Spent(i) == IF i \in Keys THEN pending[i].retries ELSE InformRetries

\* Transmissions, those under way included, are paid for.
SendsPaid == \A i \in Ids : tx[i] + (IF again = i THEN 1 ELSE 0)
                              + (IF Awaiting(i) THEN 1 ELSE 0) <= 1 + Spent(i)

\* The ids handed out whose fire is at none of the steps P.
Beyond(P) == (1..nextReqID) \ {cur[s] : s \in {r \in Senders : spc[r] \in P}}

\* Each counter is at most the number of ids whose fire has passed its increment.
Tallied == /\ originated <= Cardinality(Beyond({"encoded"}))
           /\ sSent <= Cardinality(Beyond({"encoded", "registered", "wrote"}))
           /\ sOriginated <= Cardinality(Beyond({"encoded", "registered", "wrote", "counted"}))
           /\ sAcked <= acked

InformInv == /\ TableInv /\ TTypeOK /\ Holders /\ OrderIsPending
             /\ RetriesLeft /\ Unsent /\ SendsPaid /\ Tallied

\* Forgetting takes one id out of an order that lists each id once.
LEMMA RemoveFromOrder ==
  ASSUME NEW S, NEW q \in Seq(S), IsInjective(q), NEW e \in Range(q)
  PROVE  /\ removeFromOrder(q, e) \in Seq(S)
         /\ IsInjective(removeFromOrder(q, e))
         /\ Range(removeFromOrder(q, e)) = Range(q) \ {e}
<1>1. PICK k \in 1..Len(q) : q[k] = e
  BY DEF Range
<1>2. \A j \in 1..Len(q) : q[j] = e <=> j = k
  BY <1>1 DEF IsInjective
<1>3. (CHOOSE i \in 1..Len(q) : q[i] = e /\ \A j \in 1..i - 1 : q[j] # e) = k
  <2>1. \A j \in 1..k - 1 : j \in 1..Len(q) /\ j # k
    BY <1>1
  <2>2. \A i \in 1..Len(q) : (q[i] = e /\ \A j \in 1..i - 1 : q[j] # e) <=> i = k
    BY <1>1, <1>2, <2>1, Zenon
  <2>3. QED
    BY <1>1, <2>2, Zenon
<1>6. removeFromOrder(q, e) = SubSeq(q, 1, k - 1) \o SubSeq(q, k + 1, Len(q))
  BY Zenon, <1>3 DEF removeFromOrder
<1> DEFINE L == SubSeq(q, 1, k - 1)
           R == SubSeq(q, k + 1, Len(q))
<1>7. /\ L \in Seq(S) /\ Len(L) = k - 1 /\ \A j \in 1..k - 1 : L[j] = q[j]
  BY <1>1
<1>8. /\ R \in Seq(S) /\ Len(R) = Len(q) - k /\ \A j \in 1..Len(q) - k : R[j] = q[j + k]
  BY <1>1
<1> HIDE DEF L, R
<1>a. Len(q) \in Nat /\ k \in Nat /\ Len(L) \in Nat /\ Len(R) \in Nat
  BY <1>1, <1>7, <1>8
<1> DEFINE r == L \o R
<1>9. r \in Seq(S) /\ Len(r) = Len(q) - 1
  <2>0. L \in Seq(S) /\ R \in Seq(S)
    BY <1>7, <1>8, Zenon
  <2>1. r \in Seq(S) /\ Len(r) = Len(L) + Len(R)
    BY <2>0
  <2>2. QED
    BY <1>7, <1>8, <1>a, <2>1
<1>10. \A j \in 1..Len(q) - 1 : r[j] = IF j < k THEN q[j] ELSE q[j + 1]
  <2> SUFFICES ASSUME NEW j \in 1..Len(q) - 1
               PROVE  r[j] = IF j < k THEN q[j] ELSE q[j + 1]
    BY Zenon
  <2>1. CASE j < k
    <3>1. r[j] = L[j]
      BY <1>1, <1>7, <1>8, <1>a, <2>1
    <3>2. QED
      BY <1>1, <1>7, <1>a, <2>1, <3>1
  <2>2. CASE j >= k
    <3>1. j - (k - 1) \in 1..Len(q) - k /\ r[j] = R[j - (k - 1)]
      BY <1>1, <1>7, <1>8, <1>a, <2>2
    <3>2. R[j - (k - 1)] = q[(j - (k - 1)) + k]
      BY <1>8, <3>1, Zenon
    <3>3. (j - (k - 1)) + k = j + 1
      BY <1>a
    <3>4. QED
      BY <2>2, <1>a, <3>1, <3>2, <3>3
  <2>3. QED
    <3>1. j < k \/ j >= k
      BY <1>a
    <3>2. QED
      BY Zenon, <2>1, <2>2, <3>1
<1>11. DOMAIN r = 1..Len(q) - 1 /\ DOMAIN q = 1..Len(q) /\ Len(q) \in Nat
  BY <1>9
<1> HIDE DEF r
<1>12. IsInjective(r)
  BY <1>1, <1>10, <1>11 DEF IsInjective
<1>13. ASSUME NEW x \in Range(q) \ {e} PROVE x \in Range(r)
  <2>1. PICK j \in 1..Len(q) : q[j] = x
    BY <1>11, <1>13, Zenon DEF Range
  <2>2. j # k
    BY <1>1, <1>13, <2>1, Zenon
  <2>3. CASE j < k
    BY <1>1, <1>10, <1>11, <2>1, <2>3 DEF Range
  <2>4. CASE j > k
    <3>1. j - 1 \in 1..Len(q) - 1 /\ r[j - 1] = q[j]
      BY <1>1, <1>10, <1>11, <2>1, <2>4
    <3>2. QED
      BY <1>11, <2>1, <3>1, Zenon DEF Range
  <2>5. QED
    BY <1>1, <2>1, <2>2, <2>3, <2>4
<1>14. ASSUME NEW x \in Range(r) PROVE x \in Range(q) \ {e}
  <2>1. PICK j \in 1..Len(q) - 1 : r[j] = x
    BY <1>11, <1>14, Zenon DEF Range
  <2>2. PICK m \in 1..Len(q) : m # k /\ q[m] = x
    BY <1>1, <1>10, <1>11, <2>1
  <2>3. QED
    BY <1>2, <1>11, <2>2, Zenon DEF Range
<1>15. QED
  BY Zenon, <1>6, <1>9, <1>12, <1>13, <1>14 DEF L, R, r

\* What is left of a sequence without its first k elements.
LEMMA Suffix ==
  ASSUME NEW S, NEW q \in Seq(S), NEW k \in 0..Len(q)
  PROVE  /\ SubSeq(q, k + 1, Len(q)) \in Seq(S)
         /\ Len(SubSeq(q, k + 1, Len(q))) = Len(q) - k
         /\ \A j \in 1..Len(q) - k : SubSeq(q, k + 1, Len(q))[j] = q[j + k]
<1>1. Len(q) \in Nat /\ k \in Nat /\ k <= Len(q)
  OBVIOUS
<1>2. Len(SubSeq(q, k + 1, Len(q))) = Len(q) - k
  BY <1>1
<1>3. SubSeq(q, k + 1, Len(q)) \in Seq(S)
  BY <1>1
<1>4. \A j \in 1..Len(q) - k : SubSeq(q, k + 1, Len(q))[j] = q[j + k]
  BY <1>1
<1>5. QED
  BY <1>2, <1>3, <1>4, Zenon

\* Dropping the k oldest ids and appending a new one.
LEMMA DropAndAppend ==
  ASSUME NEW S, NEW q \in Seq(S), IsInjective(q), NEW k \in 0..Len(q),
         NEW e \in S, e \notin Range(q)
  PROVE  LET r == Append(SubSeq(q, k + 1, Len(q)), e)
         IN  /\ r \in Seq(S)
             /\ IsInjective(r)
             /\ Range(r) = (Range(q) \ {q[j] : j \in 1..k}) \cup {e}
<1> DEFINE L == SubSeq(q, k + 1, Len(q))
           r == Append(L, e)
<1>1. Len(q) \in Nat /\ DOMAIN q = 1..Len(q)
  OBVIOUS
<1>2. L \in Seq(S) /\ Len(L) = Len(q) - k /\ \A j \in 1..Len(q) - k : L[j] = q[j + k]
  BY Suffix, Zenon DEF L
<1> HIDE DEF L
<1>3. /\ r \in Seq(S) /\ Len(r) = Len(L) + 1 /\ r[Len(L) + 1] = e
      /\ \A j \in 1..Len(L) : r[j] = L[j]
  <2>1. L \in Seq(S) /\ Len(L) \in Nat
    BY <1>2
  <2>2. QED
    BY <2>1
<1> HIDE DEF r
<1> DEFINE n == Len(q) - k
<1>4. /\ n \in Nat /\ DOMAIN r = 1..n + 1 /\ r[n + 1] = e
      /\ \A j \in 1..n : r[j] = q[j + k]
  <2>1. n \in Nat /\ Len(L) = n
    BY <1>1, <1>2
  <2>2. DOMAIN r = 1..Len(r)
    BY <1>3
  <2>3. QED
    BY <1>2, <1>3, <2>1, <2>2, Zenon
<1>5. \A j \in 1..n : j + k \in 1..Len(q) /\ j + k > k
  BY <1>1
<1>6. \A j \in 1..Len(q) : j > k => j - k \in 1..n /\ (j - k) + k = j
  BY <1>1
<1>a. \A j \in 1..n + 1 : j \in 1..n \/ j = n + 1
  BY <1>4
<1> HIDE DEF n
<1>7. IsInjective(r)
  <2> SUFFICES ASSUME NEW a \in 1..n + 1, NEW b \in 1..n + 1, r[a] = r[b] PROVE a = b
    BY <1>4, Zenon DEF IsInjective
  <2>1. \A j \in 1..n : r[j] # e
    BY <1>1, <1>4, <1>5, Zenon DEF Range
  <2>2. CASE a \in 1..n /\ b \in 1..n
    <3>1. q[a + k] = q[b + k]
      BY <1>4, <2>2, Zenon
    <3>2. a + k = b + k
      BY <1>1, <1>5, <2>2, <3>1, Zenon DEF IsInjective
    <3>3. QED
      BY <1>4, <3>2
  <2>3. QED
    BY <1>4, <1>a, <2>1, <2>2, Zenon
<1>8. ASSUME NEW x \in Range(r) PROVE x \in (Range(q) \ {q[j] : j \in 1..k}) \cup {e}
  <2>1. PICK j \in 1..n + 1 : r[j] = x
    BY <1>4, <1>8, Zenon DEF Range
  <2>2. CASE j \in 1..n
    <3>1. x = q[j + k] /\ j + k \in 1..Len(q) /\ j + k > k
      BY <1>4, <1>5, <2>1, <2>2, Zenon
    <3>2. \A m \in 1..k : q[m] # x
      BY <1>1, <3>1 DEF IsInjective
    <3>3. QED
      BY <1>1, <3>1, <3>2, Zenon DEF Range
  <2>3. QED
    BY <1>4, <1>a, <2>1, <2>2, Zenon
<1>9. ASSUME NEW x \in Range(q), x \notin {q[j] : j \in 1..k} PROVE x \in Range(r)
  <2>1. PICK j \in 1..Len(q) : q[j] = x
    BY <1>1, <1>9, Zenon DEF Range
  <2>2. j > k
    BY <1>1, <1>9, <2>1
  <2>3. j - k \in 1..n /\ r[j - k] = x
    BY <1>4, <1>6, <2>1, <2>2, Zenon
  <2>4. QED
    BY <1>4, <1>a, <2>3 DEF Range
<1>10. e \in Range(r)
  BY <1>4 DEF Range
<1>11. r \in Seq(S)
  BY <1>3, Zenon
<1>12. Range(r) = (Range(q) \ {q[j] : j \in 1..k}) \cup {e}
  BY <1>8, <1>9, <1>10, Zenon
<1>13. QED
  BY <1>7, <1>11, <1>12, Zenon DEF r, L
\* registerPending on a table within its cap: the loop pops at most the oldest id, so
\* the new one fits, and the order goes on listing the table.
LEMMA Registers ==
  ASSUME TTypeOK, OrderIsPending, NEW i \in Ids, i \notin Keys, registerPending(i)
  PROVE  /\ Keys' \subseteq Keys \cup {i} /\ i \in Keys'
         /\ pending' \in [Keys' -> Inform]
         /\ pending'[i].retries = 0
         /\ \A j \in Keys' \ {i} : pending'[j] = pending[j]
         /\ pendingOrder' \in Seq(Ids)
         /\ OrderIsPending'
<1> DEFINE q == pendingOrder
           n == Cardinality(Keys)
           p == Popped
<1>0. /\ Keys \subseteq 1..MaxInforms /\ MaxInforms \in Nat /\ q \in Seq(Ids)
      /\ IsInjective(q) /\ Range(q) = Keys /\ n <= PendingCap /\ PendingCap \in Nat \ {0}
  BY BoundAssumption, CapAssumption, Zenon DEF TTypeOK, OrderIsPending, Ids
<1>1. /\ n \in Nat
      /\ \A e : Cardinality(Keys \ {e}) = IF e \in Keys THEN n - 1 ELSE n
  BY Zenon, <1>0, KeysCount
<1>2. KeptAfter(0) = Keys
  BY DEF KeptAfter
<1>3. Len(q) \in Nat /\ DOMAIN q = 1..Len(q)
  BY <1>0
<1> DEFINE P(k) == /\ Overflows(k) => k = Len(q)
                   /\ \A j \in 0..k - 1 : Overflows(j)
<1>4. \A k \in 0..Len(q) : P(k) => p \in 0..Len(q) /\ P(p)
  BY Zenon DEF Popped
<1>5. p \in 0..Len(q) /\ ~Overflows(p)
  <2>1. CASE n < PendingCap
    <3>1. ~Overflows(0)
      BY <1>0, <1>1, <1>2, <2>1 DEF Overflows
    <3>2. 0 \in 0..Len(q) /\ P(0)
      BY <1>3, <3>1
    <3>3. p \in 0..Len(q) /\ P(p)
      BY <1>4, <3>2, Zenon
    <3>4. p = 0
      BY <3>1, <3>3
    <3>5. QED
      BY <3>1, <3>3, <3>4, Zenon
  <2>2. CASE n >= PendingCap
    <3>1. Overflows(0)
      BY <1>0, <1>1, <1>2, <2>2, Zenon DEF Overflows
    <3>2. Keys # {}
      BY <1>0, <1>1, <2>2, FS_EmptySet
    <3>3. Len(q) >= 1 /\ q[1] \in Keys
      BY <1>0, <1>3, <3>2 DEF Range
    <3>4. KeptAfter(1) = Keys \ {q[1]}
      BY DEF KeptAfter
    <3>5. ~Overflows(1)
      BY <1>0, <1>1, <3>3, <3>4 DEF Overflows
    <3>6. 1 \in 0..Len(q) /\ P(1)
      <4>1. \A j \in 0..1 - 1 : j = 0
        OBVIOUS
      <4>2. QED
        BY <1>3, <3>1, <3>3, <3>5, <4>1
    <3>7. p \in 0..Len(q) /\ P(p)
      BY Zenon, <1>4, <3>6
    <3>8. p = 1
      <4>a. p \in 0..Len(q)
        BY <3>7, Zenon
      <4>0. p \in Nat
        BY <1>3, <4>a
      <4>1. CASE p = 0
        <5>1. Overflows(p) => p = Len(q)
          BY <3>7, Zenon
        <5>2. Len(q) = 0
          BY <3>1, <4>1, <5>1, Zenon
        <5>3. QED
          BY <1>3, <3>3, <5>2
      <4>2. CASE p > 1
        <5>1. 1 \in 0..p - 1
          BY <4>0, <4>2
        <5>2. \A j \in 0..p - 1 : Overflows(j)
          BY <3>7, Zenon
        <5>3. QED
          BY <3>5, <5>1, <5>2, Zenon
      <4>3. QED
        BY <4>0, <4>1, <4>2
    <3>9. QED
      BY <3>5, <3>7, <3>8, Zenon
  <2>3. QED
    BY <1>0, <1>1, <2>1, <2>2
<1> HIDE DEF P
<1>6. KeptAfter(p) = Keys \ {q[j] : j \in 1..p}
  BY Zenon DEF KeptAfter
<1>7. /\ Keys' = KeptAfter(p) \cup {i}
      /\ pending' = [j \in KeptAfter(p) \cup {i} |->
                       IF j = i THEN [retries |-> 0, due |-> FALSE] ELSE pending[j]]
      /\ pendingOrder' = Append(SubSeq(q, p + 1, Len(q)), i)
  BY Zenon DEF registerPending, Keys
<1>8. KeptAfter(p) \subseteq Keys /\ i \notin KeptAfter(p)
  BY <1>6, Zenon
<1>9. pending' \in [Keys' -> Inform] /\ pending'[i].retries = 0
  <2>1. [retries |-> 0, due |-> FALSE] \in Inform
    BY BoundAssumption DEF Inform
  <2>2. \A j \in Keys : pending[j] \in Inform
    BY Zenon DEF TTypeOK
  <2>3. QED
    BY <1>7, <1>8, <2>1, <2>2, Zenon
<1>10. \A j \in Keys' \ {i} : pending'[j] = pending[j]
  BY <1>7, Zenon
<1>11. pendingOrder' \in Seq(Ids) /\ IsInjective(pendingOrder') /\ Range(pendingOrder') = Keys'
  <2>1. p \in 0..Len(q) /\ q \in Seq(Ids) /\ IsInjective(q) /\ i \in Ids /\ i \notin Range(q)
    BY <1>0, <1>5
  <2>2. /\ Append(SubSeq(q, p + 1, Len(q)), i) \in Seq(Ids)
        /\ IsInjective(Append(SubSeq(q, p + 1, Len(q)), i))
        /\ Range(Append(SubSeq(q, p + 1, Len(q)), i)) = (Range(q) \ {q[j] : j \in 1..p}) \cup {i}
    BY <2>1, DropAndAppend
  <2>3. QED
    BY <1>0, <1>6, <1>7, <2>2, Zenon
<1>12. Cardinality(Keys') <= PendingCap
  <2>1. KeptAfter(p) \subseteq 1..MaxInforms
    BY Zenon, <1>0, <1>8
  <2>2. /\ Cardinality(KeptAfter(p)) \in Nat
        /\ Cardinality(KeptAfter(p) \cup {i}) = Cardinality(KeptAfter(p)) + 1
    BY <1>0, <1>8, <2>1, KeysCount, Zenon
  <2>3. Cardinality(KeptAfter(p)) < PendingCap
    BY <1>0, <1>5, <2>2 DEF Overflows
  <2>4. QED
    BY <1>0, <1>7, <2>2, <2>3
<1>13. QED
  BY <1>7, <1>8, <1>9, <1>10, <1>11, <1>12, Zenon DEF OrderIsPending

\* Forgetting a pending inform takes it out of both.
LEMMA Forgets ==
  ASSUME TTypeOK, OrderIsPending, NEW i \in Keys, Forget(i)
  PROVE  /\ Keys' = Keys \ {i}
         /\ pending' \in [Keys' -> Inform]
         /\ \A j \in Keys' : pending'[j] = pending[j]
         /\ pendingOrder' \in Seq(Ids)
         /\ OrderIsPending'
<1>1. Keys' = Keys \ {i} /\ pending' = [j \in Keys \ {i} |-> pending[j]]
  BY Zenon DEF Forget, Restrict, Keys
<1>2. pending' \in [Keys' -> Inform] /\ \A j \in Keys' : pending'[j] = pending[j]
  BY Zenon, <1>1 DEF TTypeOK
<1>3. /\ pendingOrder' \in Seq(Ids) /\ IsInjective(pendingOrder')
      /\ Range(pendingOrder') = Keys \ {i}
  BY RemoveFromOrder, Zenon DEF Forget, TTypeOK, OrderIsPending
<1>4. Cardinality(Keys') <= PendingCap
  <2>1. Keys \subseteq 1..MaxInforms /\ MaxInforms \in Nat /\ PendingCap \in Nat
    BY BoundAssumption, CapAssumption, Zenon DEF TTypeOK, Ids
  <2>2. Cardinality(Keys) \in Nat /\ Cardinality(Keys') = Cardinality(Keys) - 1
    BY Zenon, <1>1, <2>1, KeysCount
  <2>3. QED
    BY <2>1, <2>2 DEF OrderIsPending
<1>5. QED
  BY <1>1, <1>2, <1>3, <1>4, Zenon DEF OrderIsPending
TableOK == /\ Keys \subseteq Ids /\ pending \in [Keys -> Inform]
           /\ pendingOrder \in Seq(Ids)
           /\ OrderIsPending /\ RetriesLeft

\* What is not registered is not in the table.
LEMMA UnregisteredOut ==
  ASSUME InformInv, NEW i, Unregistered(i) PROVE i \notin Keys
<1>1. nextReqID \in Nat /\ Keys \subseteq 1..nextReqID /\ Fresh
  BY Zenon DEF InformInv, TableInv, CountersTyped, KeysIssued
<1>2. ASSUME i \in Keys PROVE ~(i > nextReqID)
  BY <1>1, <1>2
<1>3. QED
  BY <1>1, <1>2, Zenon DEF Unregistered, Fresh

\* A fire about to register holds an id of its own that is not in the table.
LEMMA AboutToRegister ==
  ASSUME InformInv, NEW s \in Senders, spc[s] = "encoded"
  PROVE  cur[s] \in Ids /\ Unregistered(cur[s]) /\ cur[s] \notin Keys
<1>1. cur[s] \in 1..nextReqID /\ nextReqID \in 0..MaxInforms
  BY Zenon DEF InformInv, TableInv, Fresh, TTypeOK
<1>2. cur[s] \in Ids /\ Unregistered(cur[s])
  BY <1>1, BoundAssumption DEF Ids, Unregistered
<1>3. QED
  BY <1>2, UnregisteredOut, Zenon

\* The table and its order through every step.
LEMMA TableKept == ASSUME InformInv, [TNext]_tvars PROVE TableOK'
<1>0. TTypeOK /\ OrderIsPending /\ RetriesLeft /\ Unsent
  BY Zenon DEF InformInv
<1>a. Keys \subseteq Ids /\ pending \in [Keys -> Inform] /\ pendingOrder \in Seq(Ids)
  BY <1>0, Zenon DEF TTypeOK
<1>1. ASSUME NEW s \in Senders, FireRegister(s) PROVE TableOK'
  <2>1. cur[s] \in Ids /\ cur[s] \notin Keys /\ cur[s] \notin toRetry
    BY <1>0, <1>1, AboutToRegister, Zenon DEF FireRegister, Unsent
  <2>2. registerPending(cur[s]) /\ toRetry' = toRetry
    BY <1>1, Zenon DEF FireRegister, rvars
  <2>3. /\ Keys' \subseteq Keys \cup {cur[s]}
        /\ pending' \in [Keys' -> Inform]
        /\ \A j \in Keys' \ {cur[s]} : pending'[j] = pending[j]
        /\ pendingOrder' \in Seq(Ids)
        /\ OrderIsPending'
    BY <1>0, <2>1, <2>2, Registers, Zenon
  <2>4. RetriesLeft'
    BY <1>0, <2>1, <2>2, <2>3, Zenon DEF RetriesLeft, Retryable
  <2>5. QED
    BY Zenon, <1>a, <2>1, <2>3, <2>4 DEF TableOK
<1>2. ASSUME NEW i \in Keys, Forget(i), toRetry' = toRetry PROVE TableOK'
  <2>1. /\ Keys' = Keys \ {i}
        /\ pending' \in [Keys' -> Inform]
        /\ \A j \in Keys' : pending'[j] = pending[j]
        /\ pendingOrder' \in Seq(Ids)
        /\ OrderIsPending'
    BY <1>0, <1>2, Forgets, Zenon
  <2>2. RetriesLeft'
    BY <1>0, <1>2, <2>1, Zenon DEF RetriesLeft, Retryable
  <2>3. QED
    BY <1>a, <2>1, <2>2, Zenon DEF TableOK
<1>3. ASSUME UNCHANGED <<pending, pendingOrder>>, toRetry' \subseteq toRetry PROVE TableOK'
  BY <1>0, <1>a, <1>3, Zenon DEF TableOK, Keys, OrderIsPending, RetriesLeft, Retryable
<1>4. ASSUME NEW i \in Ids, DeadlinePasses(i) PROVE TableOK'
  <2>1. /\ i \in Keys /\ pending' = [pending EXCEPT ![i].due = TRUE]
        /\ pendingOrder' = pendingOrder /\ toRetry' = toRetry
    BY <1>4, Zenon DEF DeadlinePasses, rvars
  <2>2. Keys' = Keys /\ \A j \in Keys : pending'[j].retries = pending[j].retries
    BY <1>a, <2>1, Zenon DEF Keys, Inform
  <2>3. pending' \in [Keys' -> Inform]
    BY Zenon, <1>a, <2>1, <2>2 DEF Inform
  <2>4. OrderIsPending' /\ RetriesLeft'
    BY <1>0, <2>1, <2>2, Zenon DEF OrderIsPending, RetriesLeft, Retryable
  <2>5. QED
    BY <1>a, <2>1, <2>2, <2>3, <2>4, Zenon DEF TableOK
<1>5. ASSUME NEW i \in Ids, RetryOne(i), i \in Keys PROVE TableOK'
  <2>1. /\ pending' = [pending EXCEPT ![i].retries = @ + 1, ![i].due = FALSE]
        /\ pendingOrder' = pendingOrder /\ i \in toRetry /\ toRetry' = toRetry \ {i}
    BY <1>5, Zenon DEF RetryOne, RetryCharged
  <2>2. Keys' = Keys /\ \A j \in Keys \ {i} : pending'[j] = pending[j]
    BY <1>a, <2>1, Zenon DEF Keys
  <2>3. pending' \in [Keys' -> Inform]
    <3>1. pending[i].retries \in 0..InformRetries /\ pending[i].retries < InformRetries
      BY <1>0, <1>5, <1>a, <2>1, Zenon DEF RetriesLeft, Retryable, Inform
    <3>2. pending[i].retries + 1 \in 0..InformRetries
      BY <3>1, BoundAssumption
    <3>3. QED
      BY Zenon, <1>5, <1>a, <2>1, <2>2, <3>2 DEF Inform
  <2>4. OrderIsPending' /\ RetriesLeft'
    BY Zenon, <1>0, <2>1, <2>2 DEF OrderIsPending, RetriesLeft, Retryable
  <2>5. QED
    BY <1>a, <2>1, <2>2, <2>3, <2>4, Zenon DEF TableOK
<1>6. CASE Scan
  <2>1. /\ UNCHANGED <<pending, pendingOrder>> /\ Keys' = Keys
        /\ toRetry' = {i \in Overdue : Retryable(i)}
    BY <1>6, Zenon DEF Scan, pvars, Keys
  <2>2. RetriesLeft'
    BY <2>1, Zenon DEF RetriesLeft, Retryable
  <2>3. QED
    BY <1>0, <1>a, <2>1, <2>2, Zenon DEF TableOK, OrderIsPending
<1>7. ASSUME NEW s \in Senders,
             FireBegin(s) \/ FireWrite(s) \/ FireCount(s) \/ FireFails(s)
      PROVE  TableOK'
  <2>1. CASE FireFails(s) /\ cur[s] \in Keys
    BY <1>2, <2>1, Zenon DEF FireFails, Undo, rvars
  <2>2. CASE FireFails(s) /\ cur[s] \notin Keys
    BY <1>3, <2>2, Zenon DEF FireFails, Undo, rvars
  <2>3. QED
    BY Zenon, <1>3, <1>7, <2>1, <2>2 DEF FireBegin, FireWrite, FireCount, pvars, rvars
<1>8. ASSUME NEW i \in Ids, Ack(i) \/ FailOne(i) \/ (RetryOne(i) /\ i \notin Keys)
      PROVE  TableOK'
  <2>1. CASE Ack(i) \/ (FailOne(i) /\ i \in Keys)
    BY <1>2, <2>1, Zenon DEF Ack, Settle, FailOne, rvars
  <2>2. CASE FailOne(i) /\ i \notin Keys
    BY ZenonT(40), <1>3, <2>2 DEF FailOne
  <2>3. QED
    BY <1>3, <1>8, <2>1, <2>2, Zenon DEF RetryOne
<1>9. CASE \/ Retransmit \/ ScanEnd \/ CloseBegin \/ CloseEnd \/ Attach \/ DetachPart
           \/ UNCHANGED tvars
  BY <1>3, <1>9, Zenon DEF Retransmit, ScanEnd, CloseBegin, CloseEnd, Attach, DetachPart, tvars,
                    pvars, rvars
<1>10. QED
  BY <1>1, <1>4, <1>5, <1>6, <1>7, <1>8, <1>9, Zenon DEF TNext, RetryLoop
\* The fires: each holds one id, its own, from FireBegin to its return.
LEMMA FiresKept ==
  ASSUME InformInv, [TNext]_tvars
  PROVE  /\ nextReqID' \in 0..MaxInforms
         /\ spc' \in [Senders -> {"idle", "encoded", "registered", "wrote", "counted"}]
         /\ cur' \in [Senders -> Ids \cup {NoId}]
         /\ part' \in [Senders -> BOOLEAN]
         /\ Holders'
<1> DEFINE Goal == /\ nextReqID' \in 0..MaxInforms
                   /\ spc' \in [Senders -> {"idle", "encoded", "registered", "wrote", "counted"}]
                   /\ cur' \in [Senders -> Ids \cup {NoId}]
                   /\ part' \in [Senders -> BOOLEAN]
                   /\ Holders'
<1> SUFFICES Goal
  BY Zenon
<1>0. /\ nextReqID \in 0..MaxInforms /\ MaxInforms \in Nat
      /\ spc \in [Senders -> {"idle", "encoded", "registered", "wrote", "counted"}]
      /\ cur \in [Senders -> Ids \cup {NoId}]
      /\ part \in [Senders -> BOOLEAN]
      /\ scenPart \in BOOLEAN
      /\ Holders
  BY BoundAssumption, Zenon DEF InformInv, TTypeOK
<1>1. ASSUME NEW s \in Senders, FireBegin(s) PROVE Goal
  <2>1. /\ nextReqID' = nextReqID + 1 /\ nextReqID < MaxInforms /\ spc[s] = "idle"
        /\ cur' = [cur EXCEPT ![s] = nextReqID + 1]
        /\ part' = [part EXCEPT ![s] = scenPart]
        /\ spc' = [spc EXCEPT ![s] = "encoded"]
    BY <1>1, Zenon DEF FireBegin
  <2>2. nextReqID + 1 \in Ids /\ nextReqID + 1 # NoId
    BY <1>0, <2>1 DEF Ids, NoId
  <2>3. \A r \in Senders : cur[r] # nextReqID + 1 /\ cur[r] \in 0..nextReqID + 1
    BY <1>0 DEF Holders
  <2>4. Holders'
    BY <1>0, <2>1, <2>2, <2>3 DEF Holders
  <2>5. part' \in [Senders -> BOOLEAN]
    BY <1>0, <2>1, Zenon
  <2>6. QED
    BY <1>0, <2>1, <2>2, <2>4, <2>5
<1>2. ASSUME NEW s \in Senders, NEW x \in {"registered", "wrote", "counted"},
             spc[s] # "idle", spc' = [spc EXCEPT ![s] = x], UNCHANGED <<nextReqID, cur, part>>
      PROVE  Goal
  BY <1>0, <1>2, Zenon DEF Holders
<1>3. ASSUME NEW s \in Senders, FireEnds(s), nextReqID' = nextReqID PROVE Goal
  <2>1. part' \in [Senders -> BOOLEAN]
    BY <1>0, <1>3, Zenon DEF FireEnds
  <2>2. Holders'
    BY <1>0, <1>3 DEF FireEnds, Holders, NoId
  <2>3. QED
    BY <1>0, <1>3, <2>1, <2>2, Zenon DEF FireEnds
<1>4. ASSUME UNCHANGED fvars PROVE Goal
  BY ZenonT(40), <1>0, <1>4 DEF fvars, Holders
<1> HIDE DEF Goal
<1>5. ASSUME NEW s \in Senders,
             FireRegister(s) \/ FireWrite(s) \/ FireFails(s) \/ FireCount(s)
      PROVE  Goal
  BY <1>2, <1>3, <1>5, Zenon DEF FireRegister, FireWrite, FireFails, FireCount
<1>6. ASSUME NEW i \in Ids, Ack(i) \/ DeadlinePasses(i) \/ FailOne(i) \/ RetryOne(i) PROVE Goal
  BY <1>4, <1>6, Zenon DEF Ack, DeadlinePasses, FailOne, RetryOne
<1>7. CASE \/ Scan \/ Retransmit \/ ScanEnd \/ CloseBegin \/ CloseEnd \/ Attach \/ DetachPart
           \/ UNCHANGED tvars
  <2>1. UNCHANGED fvars
    BY <1>7, Zenon DEF Scan, Retransmit, ScanEnd, CloseBegin, CloseEnd, Attach, DetachPart, tvars
  <2>2. QED
    BY <1>4, <2>1, Zenon
<1>8. QED
  BY <1>1, <1>5, <1>6, <1>7, Zenon DEF TNext, RetryLoop
One(b) == IF b THEN 1 ELSE 0

SendsOK == tx \in [Ids -> Nat] /\ Unsent /\ SendsPaid

\* The budget spent is a number, and no more than the whole.
LEMMA SpentType ==
  ASSUME InformInv, NEW i PROVE Spent(i) \in Nat /\ Spent(i) <= InformRetries
<1>1. InformRetries \in Nat /\ pending \in [Keys -> Inform]
  BY BoundAssumption, Zenon DEF InformInv, TTypeOK
<1>2. QED
  BY <1>1 DEF Spent, Inform

\* A step that sends nothing, frees no fire's debt and keeps what is spent.
LEMMA NothingSent ==
  ASSUME InformInv, UNCHANGED <<tx, again>>,
         \A j \in Ids : Awaiting(j)' => Awaiting(j),
         \A j \in Ids : Spent(j)' \in Nat /\ Spent(j) <= Spent(j)',
         \A j \in Ids : Unregistered(j)' => Unregistered(j) /\ j \notin toRetry'
  PROVE  SendsOK'
<1>1. tx \in [Ids -> Nat] /\ Unsent /\ SendsPaid
  BY Zenon DEF InformInv, TTypeOK
<1>2. Unsent'
  BY <1>1, Zenon DEF Unsent
<1>3. SendsPaid'
  <2> SUFFICES ASSUME NEW j \in Ids
               PROVE  tx'[j] + One(again' = j) + One(Awaiting(j)') <= 1 + Spent(j)'
    BY Zenon DEF SendsPaid, One
  <2>1. tx[j] + One(again = j) + One(Awaiting(j)) <= 1 + Spent(j)
    BY <1>1, Zenon DEF SendsPaid, One
  <2>2. One(Awaiting(j)') \in Nat /\ One(Awaiting(j)) \in Nat
        /\ One(Awaiting(j)') <= One(Awaiting(j)) /\ One(again = j) \in Nat
    BY DEF One
  <2>3. tx[j] \in Nat /\ Spent(j) \in Nat /\ Spent(j)' \in Nat /\ Spent(j) <= Spent(j)'
    BY <1>1, SpentType, Zenon
  <2>4. QED
    BY <2>1, <2>2, <2>3
<1>4. QED
  BY ZenonT(40), <1>1, <1>2, <1>3 DEF SendsOK

\* Entries that stay as they are, or leave, lower nothing.
LEMMA SpentGrows ==
  ASSUME InformInv, NEW j \in Ids,
         j \in Keys' => j \in Keys /\ pending'[j].retries = pending[j].retries
  PROVE  Spent(j)' \in Nat /\ Spent(j) <= Spent(j)'
<1>1. InformRetries \in Nat /\ Spent(j) \in Nat /\ Spent(j) <= InformRetries
  BY ZenonT(40), BoundAssumption, SpentType
<1>2. QED
  BY <1>1 DEF Spent

\* Steps of the reader, of the retry loop but for its writes, of Close and of scenarios.
LEMMA SendsIdle ==
  ASSUME InformInv, UNCHANGED <<tx, again, nextReqID, spc, cur>>,
         \A j \in Keys' : j \in Keys /\ pending'[j].retries = pending[j].retries,
         \A j \in toRetry' : j \in toRetry \/ j \in Keys
  PROVE  SendsOK'
<1>1. \A j : Awaiting(j)' <=> Awaiting(j)
  BY Zenon DEF Awaiting
<1>2. \A j : Unregistered(j)' <=> Unregistered(j)
  BY Zenon DEF Unregistered
<1>3. ASSUME NEW j \in Ids, Unregistered(j) PROVE j \notin toRetry'
  BY <1>3, UnregisteredOut, Zenon DEF InformInv, Unsent
<1>4. \A j \in Ids : Spent(j)' \in Nat /\ Spent(j) <= Spent(j)'
  BY SpentGrows, Zenon
<1>5. QED
  BY <1>1, <1>2, <1>3, <1>4, NothingSent, Zenon
\* The steps of a fire.
LEMMA SendsFire ==
  ASSUME InformInv, NEW s \in Senders,
         FireBegin(s) \/ FireRegister(s) \/ FireWrite(s) \/ FireFails(s) \/ FireCount(s)
  PROVE  SendsOK'
<1>0. /\ tx \in [Ids -> Nat] /\ Unsent /\ SendsPaid /\ Holders
      /\ spc \in [Senders -> {"idle", "encoded", "registered", "wrote", "counted"}]
      /\ cur \in [Senders -> Ids \cup {NoId}] /\ NoId \notin Ids
      /\ nextReqID \in Nat /\ InformRetries \in Nat
  BY BoundAssumption DEF InformInv, TTypeOK, NoId, Ids
<1>1. CASE FireBegin(s)
  <2> DEFINE i == nextReqID + 1
  <2>1. /\ nextReqID' = i /\ spc[s] = "idle"
        /\ cur' = [cur EXCEPT ![s] = i] /\ spc' = [spc EXCEPT ![s] = "encoded"]
        /\ UNCHANGED <<pending, tx, again, toRetry>>
    BY <1>1, Zenon DEF FireBegin, pvars, rvars, nvars
  <2>2. \A j \in Ids : Spent(j)' = Spent(j)
    BY <2>1, Zenon DEF Spent, Keys
  <2>3. \A j \in Ids : j # i => (Awaiting(j)' => Awaiting(j))
    BY <1>0, <2>1, Zenon DEF Awaiting
  <2>4. \A j \in Ids : Unregistered(j)' => Unregistered(j)
    BY <1>0, <2>1 DEF Unregistered, Ids
  <2>5. Unsent'
    BY <1>0, <2>1, <2>4, Zenon DEF Unsent
  <2>6. SendsPaid'
    <3> SUFFICES ASSUME NEW j \in Ids
                 PROVE  tx'[j] + One(again' = j) + One(Awaiting(j)') <= 1 + Spent(j)'
      BY Zenon DEF SendsPaid, One
    <3>0. One(Awaiting(j)') \in {0, 1} /\ tx[j] \in Nat /\ Spent(j) \in Nat
      BY <1>0, SpentType, Zenon DEF One
    <3>1. CASE j = i
      <4>1. Unregistered(j)
        BY <1>0, <3>1 DEF Unregistered
      <4>2. tx[j] = 0 /\ One(again = j) = 0
        BY <1>0, <4>1, Zenon DEF Unsent, One
      <4>3. QED
        BY <2>1, <2>2, <3>0, <4>2
    <3>2. CASE j # i
      <4>1. tx[j] + One(again = j) + One(Awaiting(j)) <= 1 + Spent(j)
        BY <1>0, Zenon DEF SendsPaid, One
      <4>2. One(Awaiting(j)') <= One(Awaiting(j)) /\ One(Awaiting(j)) \in Nat
            /\ One(again = j) \in Nat
        BY <2>3, <3>2 DEF One
      <4>3. QED
        BY <2>1, <2>2, <3>0, <4>1, <4>2
    <3>3. QED
      BY <3>1, <3>2, Zenon
  <2>7. QED
    BY Zenon, <1>0, <2>1, <2>5, <2>6 DEF SendsOK
<1>2. CASE FireRegister(s)
  <2> DEFINE i == cur[s]
  <2>1. /\ spc[s] = "encoded" /\ registerPending(i) /\ spc' = [spc EXCEPT ![s] = "registered"]
        /\ UNCHANGED <<nextReqID, cur, tx, again, toRetry>>
    BY <1>2, Zenon DEF FireRegister, rvars, nvars
  <2>2. i \in Ids /\ Unregistered(i) /\ i \notin Keys
    BY ZenonT(40), <2>1, AboutToRegister
  <2>3. /\ Keys' \subseteq Keys \cup {i} /\ i \in Keys' /\ pending'[i].retries = 0
        /\ \A j \in Keys' \ {i} : pending'[j] = pending[j]
    BY <2>1, <2>2, Registers, Zenon DEF InformInv
  <2>4. \A j : Awaiting(j)' <=> Awaiting(j)
    BY ZenonT(40), <1>0, <2>1 DEF Awaiting
  <2>5. \A j : Unregistered(j)' => Unregistered(j)
    BY Zenon, <1>0, <2>1 DEF Unregistered
  <2>6. Unsent'
    BY ZenonT(40), <1>0, <2>1, <2>5 DEF Unsent
  <2>7. SendsPaid'
    <3> SUFFICES ASSUME NEW j \in Ids
                 PROVE  tx'[j] + One(again' = j) + One(Awaiting(j)') <= 1 + Spent(j)'
      BY Zenon DEF SendsPaid, One
    <3>1. CASE j = i
      <4>1. tx[j] = 0 /\ One(again = j) = 0
        BY ZenonT(40), <1>0, <2>2, <3>1 DEF Unsent, One
      <4>2. Spent(j)' = 0 /\ One(Awaiting(j)') \in {0, 1}
        BY <2>3, <3>1, Zenon DEF Spent, One
      <4>3. QED
        BY <2>1, <4>1, <4>2
    <3>2. CASE j # i
      <4>1. tx[j] + One(again = j) + One(Awaiting(j)) <= 1 + Spent(j)
        BY ZenonT(40), <1>0 DEF SendsPaid, One
      <4>2. Spent(j)' \in Nat /\ Spent(j) <= Spent(j)'
        BY <2>3, <3>2, SpentGrows, Zenon
      <4>3. /\ One(Awaiting(j)') = One(Awaiting(j)) /\ One(Awaiting(j)) \in Nat
            /\ One(again = j) \in Nat /\ tx[j] \in Nat /\ Spent(j) \in Nat
        BY ZenonT(40), <1>0, <2>4, SpentType DEF One
      <4>4. QED
        BY <2>1, <4>1, <4>2, <4>3
    <3>3. QED
      BY <3>1, <3>2, Zenon
  <2>8. QED
    BY <1>0, <2>1, <2>6, <2>7, Zenon DEF SendsOK
<1>3. CASE FireWrite(s)
  <2> DEFINE i == cur[s]
  <2>1. /\ spc[s] = "registered" /\ spc' = [spc EXCEPT ![s] = "wrote"]
        /\ tx' = [tx EXCEPT ![i] = @ + 1]
        /\ UNCHANGED <<pending, nextReqID, cur, again, toRetry>>
    BY Zenon, <1>3 DEF FireWrite, pvars, rvars
  <2>2. i \in Ids /\ i \in 0..nextReqID /\ \A r \in Senders \ {s} : cur[r] # i
    BY ZenonT(40), <1>0, <2>1 DEF Holders
  <2>3. /\ Awaiting(i) /\ ~Awaiting(i)' /\ ~Unregistered(i)
        /\ \A j : j # i => (Awaiting(j)' <=> Awaiting(j))
    BY <1>0, <2>1, <2>2 DEF Awaiting, Unregistered
  <2>4. \A j : Unregistered(j)' <=> Unregistered(j)
    BY <1>0, <2>1, Zenon DEF Unregistered
  <2>5. Unsent'
    BY Zenon, <1>0, <2>1, <2>2, <2>3, <2>4 DEF Unsent
  <2>6. \A j \in Ids : Spent(j)' = Spent(j) /\ Spent(j) \in Nat
    BY ZenonT(40), <2>1, SpentType DEF Spent, Keys
  <2>7. SendsPaid'
    <3> SUFFICES ASSUME NEW j \in Ids
                 PROVE  tx'[j] + One(again' = j) + One(Awaiting(j)') <= 1 + Spent(j)'
      BY Zenon DEF SendsPaid, One
    <3>1. tx[j] + One(again = j) + One(Awaiting(j)) <= 1 + Spent(j)
      BY ZenonT(40), <1>0 DEF SendsPaid, One
    <3>2. tx'[j] + One(Awaiting(j)') = tx[j] + One(Awaiting(j))
      BY <1>0, <2>1, <2>2, <2>3, SMTT(20) DEF One
    <3>3. /\ tx[j] \in Nat /\ tx'[j] \in Nat /\ One(again = j) \in Nat
          /\ One(Awaiting(j)) \in Nat /\ One(Awaiting(j)') \in Nat
      BY <1>0, <2>1, <2>2, SMTT(20) DEF One
    <3>4. QED
      BY <2>1, <2>6, <3>1, <3>2, <3>3
  <2>8. QED
    BY <1>0, <2>1, <2>2, <2>5, <2>7 DEF SendsOK
<1>4. CASE FireFails(s) \/ FireCount(s)
  <2>1. /\ UNCHANGED <<tx, again, nextReqID, toRetry>>
        /\ spc'[s] \notin {"encoded", "registered"}
        /\ \A r \in Senders \ {s} : spc'[r] = spc[r] /\ cur'[r] = cur[r]
    BY Zenon, <1>0, <1>4 DEF FireFails, FireCount, FireEnds, rvars, nvars
  <2>2. \A j \in Keys' : j \in Keys /\ pending'[j].retries = pending[j].retries
    <3>1. CASE FireFails(s) /\ cur[s] \in Keys
      BY Zenon, <3>1 DEF FireFails, Undo, Forget, Restrict, Keys
    <3>2. CASE (FireFails(s) /\ cur[s] \notin Keys) \/ FireCount(s)
      BY Zenon, <3>2 DEF FireFails, FireCount, Undo, Keys, pvars
    <3>3. QED
      BY Zenon, <1>4, <3>1, <3>2
  <2>3. \A j \in Ids : Awaiting(j)' => Awaiting(j)
    BY ZenonT(40), <2>1 DEF Awaiting
  <2>4. \A j \in Ids : Unregistered(j)' => Unregistered(j) /\ j \notin toRetry'
    BY <1>0, <2>1, Zenon DEF Unregistered, Unsent
  <2>5. QED
    BY Zenon, <2>1, <2>2, <2>3, <2>4, SpentGrows, NothingSent
<1>5. QED
  BY ZenonT(40), <1>1, <1>2, <1>3, <1>4

\* The retry loop's charge and its write.
LEMMA SendsRetry ==
  ASSUME InformInv, Retransmit \/ \E i \in Ids : RetryOne(i) /\ i \in Keys
  PROVE  SendsOK'
<1>0. /\ tx \in [Ids -> Nat] /\ Unsent /\ SendsPaid /\ again \in Ids \cup {NoId}
      /\ pending \in [Keys -> Inform] /\ NoId \notin Ids
  BY SMTT(20) DEF InformInv, TTypeOK, NoId, Ids
<1>1. UNCHANGED <<nextReqID, spc, cur>> /\ toRetry' \subseteq toRetry
  BY Zenon DEF Retransmit, RetryOne, fvars
<1>2. /\ \A j : Awaiting(j)' <=> Awaiting(j)
      /\ \A j : Unregistered(j)' <=> Unregistered(j)
  BY <1>1, Zenon DEF Awaiting, Unregistered
<1>3. ASSUME NEW j \in Ids
      PROVE  /\ tx[j] + One(again = j) + One(Awaiting(j)) <= 1 + Spent(j)
             /\ tx[j] \in Nat /\ One(again = j) \in Nat /\ Spent(j) \in Nat
             /\ One(Awaiting(j)) \in Nat /\ One(Awaiting(j)') = One(Awaiting(j))
  BY <1>0, <1>2, SpentType, Zenon DEF SendsPaid, One
<1>4. CASE Retransmit
  <2>1. /\ again' = NoId /\ pending' = pending
        /\ tx' = [tx EXCEPT ![again] = @ + 1] \/ tx' = tx
    BY <1>4, Zenon DEF Retransmit, pvars
  <2>2. Unsent'
    BY <1>0, <1>1, <1>2, <2>1, Zenon DEF Unsent
  <2>3. \A j \in Ids : Spent(j)' = Spent(j)
    BY <2>1, Zenon DEF Spent, Keys
  <2>4. \A j \in Ids : tx'[j] \in Nat /\ One(again' = j) = 0 /\ tx'[j] <= tx[j] + One(again = j)
    BY <1>0, <2>1 DEF One
  <2>5. SendsPaid'
    <3> SUFFICES ASSUME NEW j \in Ids
                 PROVE  tx'[j] + One(again' = j) + One(Awaiting(j)') <= 1 + Spent(j)'
      BY Zenon DEF SendsPaid, One
    <3>1. QED
      BY <1>3, <2>3, <2>4
  <2>6. tx' \in [Ids -> Nat]
    BY <1>0, <2>1
  <2>7. QED
    BY <2>2, <2>5, <2>6, Zenon DEF SendsOK
<1>5. ASSUME NEW i \in Ids, RetryOne(i), i \in Keys PROVE SendsOK'
  <2>1. /\ again' = i /\ tx' = tx
        /\ pending' = [pending EXCEPT ![i].retries = @ + 1, ![i].due = FALSE]
    BY <1>5, Zenon DEF RetryOne, RetryCharged, nvars
  <2>2. ~Unregistered(i)
    BY <1>5, UnregisteredOut, Zenon
  <2>3. Unsent'
    BY <1>0, <1>1, <1>2, <2>1, <2>2, Zenon DEF Unsent
  <2>4. \A j \in Ids : Spent(j)' = Spent(j) + One(j = i)
    BY <1>0, <1>3, <1>5, <2>1 DEF Spent, Keys, Inform, One
  <2>5. SendsPaid'
    <3> SUFFICES ASSUME NEW j \in Ids
                 PROVE  tx'[j] + One(again' = j) + One(Awaiting(j)') <= 1 + Spent(j)'
      BY Zenon DEF SendsPaid, One
    <3>1. One(again' = j) = One(j = i) /\ One(j = i) \in Nat
      BY <2>1, Zenon DEF One
    <3>2. QED
      BY <1>3, <2>1, <2>4, <3>1
  <2>6. QED
    BY <1>0, <2>1, <2>3, <2>5, Zenon DEF SendsOK
<1>6. QED
  BY ZenonT(40), <1>4, <1>5

\* The transmissions through every step.
LEMMA SendsKept == ASSUME InformInv, [TNext]_tvars PROVE SendsOK'
<1>1. ASSUME NEW i \in Ids, Ack(i) \/ FailOne(i) PROVE SendsOK'
  <2>1. UNCHANGED <<tx, again, nextReqID, spc, cur, toRetry>>
    BY ZenonT(40), <1>1 DEF Ack, FailOne, fvars, rvars, nvars
  <2>2. \A j \in Keys' : j \in Keys /\ pending'[j].retries = pending[j].retries
    <3>1. CASE Forget(i)
      BY <3>1, Zenon DEF Forget, Restrict, Keys
    <3>2. CASE pending' = pending
      BY <3>2, Zenon DEF Keys
    <3>3. QED
      BY <1>1, <3>1, <3>2, Zenon DEF Ack, Settle, FailOne
  <2>3. QED
    BY <2>1, <2>2, SendsIdle, Zenon
<1>2. ASSUME NEW i \in Ids, DeadlinePasses(i) PROVE SendsOK'
  <2>1. UNCHANGED <<tx, again, nextReqID, spc, cur, toRetry>>
    BY <1>2, Zenon DEF DeadlinePasses, fvars, rvars, nvars
  <2>2. \A j \in Keys' : j \in Keys /\ pending'[j].retries = pending[j].retries
    BY <1>2, Zenon DEF DeadlinePasses, Keys, InformInv, TTypeOK, Inform
  <2>3. QED
    BY <2>1, <2>2, SendsIdle, Zenon
<1>3. ASSUME NEW i \in Ids, RetryOne(i) PROVE SendsOK'
  <2>1. CASE i \in Keys
    BY <1>3, <2>1, SendsRetry, Zenon
  <2>2. CASE i \notin Keys
    <3>1. UNCHANGED <<tx, again, nextReqID, spc, cur, pending>> /\ toRetry' \subseteq toRetry
      BY <1>3, <2>2, Zenon DEF RetryOne, fvars, nvars
    <3>2. QED
      BY <3>1, SendsIdle, Zenon DEF Keys
  <2>3. QED
    BY <2>1, <2>2, Zenon
<1>4. CASE \/ Scan \/ ScanEnd \/ CloseBegin \/ CloseEnd \/ Attach \/ DetachPart
           \/ UNCHANGED tvars
  <2>1. /\ UNCHANGED <<tx, again, nextReqID, spc, cur, pending>>
        /\ \A j \in toRetry' : j \in toRetry \/ j \in Keys
    BY <1>4, Zenon DEF Scan, Overdue, ScanEnd, CloseBegin, CloseEnd, Attach, DetachPart, tvars, pvars,
                fvars, rvars, nvars
  <2>2. QED
    BY ZenonT(40), <2>1, SendsIdle DEF Keys
<1>5. QED
  BY Zenon, <1>1, <1>2, <1>3, <1>4, SendsFire, SendsRetry DEF TNext, RetryLoop
P1 == {"encoded"}
P2 == {"encoded", "registered", "wrote"}
P3 == {"encoded", "registered", "wrote", "counted"}

\* What is left of the ids handed out is counted.
LEMMA BeyondCount ==
  ASSUME InformInv, NEW P
  PROVE  /\ Cardinality(Beyond(P)) \in Nat
         /\ Cardinality(Beyond(P)) <= nextReqID
         /\ \A e : e \notin Beyond(P) =>
              Cardinality(Beyond(P) \cup {e}) = Cardinality(Beyond(P)) + 1
<1>1. nextReqID \in Nat /\ Beyond(P) \subseteq 1..nextReqID
  BY Zenon DEF InformInv, TableInv, CountersTyped, Beyond
<1>2. /\ Cardinality(Beyond(P)) \in Nat
      /\ \A e : e \notin Beyond(P) =>
           Cardinality(Beyond(P) \cup {e}) = Cardinality(Beyond(P)) + 1
  BY <1>1, KeysCount, Zenon
<1>3. Cardinality(Beyond(P)) <= Cardinality(1..nextReqID)
  BY <1>1, KeysCount, Zenon
<1>4. Cardinality(1..nextReqID) = nextReqID
  <2>1. 1 \in Int /\ nextReqID \in Int
    BY <1>1
  <2>2. Cardinality(1..nextReqID) = IF 1 > nextReqID THEN 0 ELSE nextReqID - 1 + 1
    BY Zenon, <2>1, FS_Interval
  <2>3. QED
    BY <1>1, <2>2
<1>5. QED
  BY <1>2, <1>3, <1>4, Zenon

\* A fire that passes the steps P leaves its id behind.
LEMMA BeyondPass ==
  ASSUME InformInv, NEW s \in Senders, NEW P, spc[s] \in P, spc[s] # "idle",
         nextReqID' = nextReqID, spc'[s] \notin P,
         \A r \in Senders \ {s} : spc'[r] = spc[r] /\ cur'[r] = cur[r]
  PROVE  Cardinality(Beyond(P))' = Cardinality(Beyond(P)) + 1
<1>1. cur[s] \in 1..nextReqID /\ \A r \in Senders \ {s} : cur[r] # cur[s]
  <2>1. nextReqID \in Nat /\ cur[s] # NoId /\ cur[s] \in 0..nextReqID /\ Holders
    BY Zenon DEF InformInv, TableInv, CountersTyped, Holders
  <2>2. QED
    BY <2>1 DEF Holders, NoId
<1>2. cur[s] \notin Beyond(P)
  BY ZenonT(40) DEF Beyond
<1>3. Beyond(P)' = Beyond(P) \cup {cur[s]}
  BY <1>1, Zenon DEF Beyond
<1>4. QED
  BY Zenon, <1>2, <1>3, BeyondCount

\* A fire that moves within P, or outside it, changes nothing.
LEMMA BeyondStay ==
  ASSUME InformInv, NEW s \in Senders, NEW P, nextReqID' = nextReqID,
         \A r \in Senders \ {s} : spc'[r] = spc[r] /\ cur'[r] = cur[r],
         \/ spc[s] \in P /\ spc'[s] \in P /\ cur'[s] = cur[s]
         \/ spc[s] \notin P /\ spc'[s] \notin P
  PROVE  Cardinality(Beyond(P))' = Cardinality(Beyond(P))
<1>1. Beyond(P)' = Beyond(P)
  BY Zenon DEF Beyond
<1>2. QED
  BY <1>1, Zenon

\* A new id is in the hands of its fire.
LEMMA BeyondBegin ==
  ASSUME InformInv, NEW s \in Senders, FireBegin(s), NEW P, "encoded" \in P, "idle" \notin P
  PROVE  Cardinality(Beyond(P))' = Cardinality(Beyond(P))
<1>1. /\ nextReqID \in Nat /\ nextReqID' = nextReqID + 1 /\ spc[s] = "idle"
      /\ DOMAIN cur = Senders /\ DOMAIN spc = Senders
      /\ cur' = [cur EXCEPT ![s] = nextReqID + 1] /\ spc' = [spc EXCEPT ![s] = "encoded"]
  BY Zenon DEF InformInv, TableInv, CountersTyped, FiresTyped, FireBegin
<1>2. 1..nextReqID + 1 = (1..nextReqID) \cup {nextReqID + 1} /\ nextReqID + 1 \notin 1..nextReqID
  BY <1>1
<1>3. Beyond(P)' = Beyond(P)
  BY Zenon, <1>1, <1>2 DEF Beyond
<1>4. QED
  BY <1>3, Zenon

\* The counters through every step.
LEMMA TallyKept == ASSUME InformInv, [TNext]_tvars PROVE Tallied'
<1> DEFINE C(P) == Cardinality(Beyond(P))
<1>0. /\ originated <= C(P1) /\ sSent <= C(P2) /\ sOriginated <= C(P3) /\ sAcked <= acked
      /\ C(P1) \in Nat /\ C(P2) \in Nat /\ C(P3) \in Nat
  BY ZenonT(40), BeyondCount DEF InformInv, Tallied, P1, P2, P3
<1>a. /\ originated \in Nat /\ acked \in Nat /\ sSent \in Nat /\ sOriginated \in Nat
      /\ sAcked \in Nat
      /\ spc \in [Senders -> {"idle", "encoded", "registered", "wrote", "counted"}]
      /\ DOMAIN cur = Senders
  BY DEF InformInv, TTypeOK, TableInv, CountersTyped, FiresTyped
<1> SUFFICES /\ originated' <= C(P1)' /\ sSent' <= C(P2)' /\ sOriginated' <= C(P3)'
             /\ sAcked' <= acked'
  BY Zenon DEF Tallied, P1, P2, P3
<1>1. ASSUME NEW s \in Senders, FireBegin(s)
      PROVE  /\ originated' <= C(P1)' /\ sSent' <= C(P2)' /\ sOriginated' <= C(P3)'
             /\ sAcked' <= acked'
  <2>1. C(P1)' = C(P1) /\ C(P2)' = C(P2) /\ C(P3)' = C(P3)
    BY <1>1, BeyondBegin, Zenon DEF P1, P2, P3
  <2>2. UNCHANGED <<originated, acked, sSent, sOriginated, sAcked>>
    BY ZenonT(40), <1>1 DEF FireBegin, pvars, svars
  <2>3. QED
    BY <1>0, <2>1, <2>2, Zenon
<1>2. ASSUME NEW s \in Senders, FireRegister(s)
      PROVE  /\ originated' <= C(P1)' /\ sSent' <= C(P2)' /\ sOriginated' <= C(P3)'
             /\ sAcked' <= acked'
  <2>1. /\ spc[s] = "encoded" /\ spc'[s] = "registered" /\ nextReqID' = nextReqID
        /\ cur' = cur /\ \A r \in Senders \ {s} : spc'[r] = spc[r]
        /\ originated' = originated + 1 /\ UNCHANGED <<acked, sSent, sOriginated, sAcked>>
    BY Zenon, <1>2, <1>a DEF FireRegister, registerPending, svars
  <2>2. C(P1)' = C(P1) + 1
    BY Zenon, <2>1, BeyondPass DEF P1
  <2>3. C(P2)' = C(P2) /\ C(P3)' = C(P3)
    BY Zenon, <2>1, BeyondStay DEF P2, P3
  <2>4. QED
    BY <1>0, <1>a, <2>1, <2>2, <2>3
<1>3. ASSUME NEW s \in Senders, FireWrite(s)
      PROVE  /\ originated' <= C(P1)' /\ sSent' <= C(P2)' /\ sOriginated' <= C(P3)'
             /\ sAcked' <= acked'
  <2>1. /\ spc[s] = "registered" /\ spc'[s] = "wrote" /\ nextReqID' = nextReqID
        /\ cur' = cur /\ \A r \in Senders \ {s} : spc'[r] = spc[r]
        /\ UNCHANGED <<originated, acked, sSent, sOriginated, sAcked>>
    BY Zenon, <1>3, <1>a DEF FireWrite, pvars, svars
  <2>2. C(P1)' = C(P1) /\ C(P2)' = C(P2) /\ C(P3)' = C(P3)
    BY ZenonT(40), <2>1, BeyondStay DEF P1, P2, P3
  <2>3. QED
    BY Zenon, <1>0, <2>1, <2>2
<1>4. ASSUME NEW s \in Senders, FireFails(s)
      PROVE  /\ originated' <= C(P1)' /\ sSent' <= C(P2)' /\ sOriginated' <= C(P3)'
             /\ sAcked' <= acked'
  <2>1. /\ spc[s] = "registered" /\ spc'[s] = "idle" /\ nextReqID' = nextReqID
        /\ \A r \in Senders \ {s} : spc'[r] = spc[r] /\ cur'[r] = cur[r]
        /\ originated' = originated \/ originated' = originated - 1
        /\ UNCHANGED <<acked, sSent, sOriginated, sAcked>>
    BY Zenon, <1>4, <1>a DEF FireFails, FireEnds, Undo, svars
  <2>2. C(P1)' = C(P1)
    BY Zenon, <2>1, BeyondStay DEF P1
  <2>3. C(P2)' = C(P2) + 1 /\ C(P3)' = C(P3) + 1
    BY Zenon, <2>1, BeyondPass DEF P2, P3
  <2>4. QED
    BY <1>0, <1>a, <2>1, <2>2, <2>3
<1>5. ASSUME NEW s \in Senders, FireCount(s)
      PROVE  /\ originated' <= C(P1)' /\ sSent' <= C(P2)' /\ sOriginated' <= C(P3)'
             /\ sAcked' <= acked'
  <2>0. /\ nextReqID' = nextReqID /\ UNCHANGED <<originated, acked, sAcked>>
        /\ \A r \in Senders \ {s} : spc'[r] = spc[r] /\ cur'[r] = cur[r]
    BY ZenonT(40), <1>5, <1>a DEF FireCount, FireEnds, pvars
  <2>1. CASE spc[s] = "wrote"
    <3>1. /\ spc'[s] = "counted" /\ cur' = cur /\ sOriginated' = sOriginated
          /\ sSent' = sSent \/ sSent' = sSent + 1
      BY Zenon, <1>5, <1>a, <2>1 DEF FireCount
    <3>2. C(P2)' = C(P2) + 1
      BY Zenon, <2>0, <2>1, <3>1, BeyondPass DEF P2
    <3>3. C(P1)' = C(P1) /\ C(P3)' = C(P3)
      BY ZenonT(40), <2>0, <2>1, <3>1, BeyondStay DEF P1, P3
    <3>4. QED
      BY <1>0, <1>a, <2>0, <3>1, <3>2, <3>3
  <2>2. CASE spc[s] = "counted"
    <3>1. /\ spc'[s] = "idle" /\ sSent' = sSent
          /\ sOriginated' = sOriginated \/ sOriginated' = sOriginated + 1
      BY Zenon, <1>5, <1>a, <2>2 DEF FireCount, FireEnds
    <3>2. C(P3)' = C(P3) + 1
      BY Zenon, <2>0, <2>2, <3>1, BeyondPass DEF P3
    <3>3. C(P1)' = C(P1) /\ C(P2)' = C(P2)
      BY ZenonT(40), <2>0, <2>2, <3>1, BeyondStay DEF P1, P2
    <3>4. QED
      BY <1>0, <1>a, <2>0, <3>1, <3>2, <3>3
  <2>3. QED
    BY Zenon, <1>5, <2>1, <2>2 DEF FireCount
<1>6. ASSUME UNCHANGED <<nextReqID, spc, cur, originated, sSent, sOriginated>>, sAcked' <= acked'
      PROVE  /\ originated' <= C(P1)' /\ sSent' <= C(P2)' /\ sOriginated' <= C(P3)'
             /\ sAcked' <= acked'
  BY <1>0, <1>6, Zenon DEF Beyond
<1>7. ASSUME NEW i \in Ids, Ack(i) \/ DeadlinePasses(i) \/ FailOne(i) \/ RetryOne(i)
      PROVE  /\ UNCHANGED <<nextReqID, spc, cur, originated, sSent, sOriginated>>
             /\ sAcked' <= acked'
  BY <1>0, <1>7, <1>a DEF Ack, Settle, DeadlinePasses, FailOne, RetryOne, fvars, svars
<1>8. ASSUME \/ Scan \/ Retransmit \/ ScanEnd \/ CloseBegin \/ CloseEnd \/ Attach \/ DetachPart
             \/ UNCHANGED tvars
      PROVE  /\ UNCHANGED <<nextReqID, spc, cur, originated, sSent, sOriginated>>
             /\ sAcked' <= acked'
  BY Zenon, <1>0, <1>8 DEF Scan, Retransmit, ScanEnd, CloseBegin, CloseEnd, Attach, DetachPart, tvars,
                    pvars, fvars, svars
<1> HIDE DEF C
<1>9. QED
  BY Zenon, <1>1, <1>2, <1>3, <1>4, <1>5, <1>6, <1>7, <1>8 DEF TNext, RetryLoop
\* The work of the retry loop, and the flags.
LEMMA LoopTyped ==
  ASSUME InformInv, [TNext]_tvars
  PROVE  /\ rpc' \in {"idle", "busy", "writing"}
         /\ toFail' \subseteq Ids /\ toRetry' \subseteq Ids
         /\ again' \in Ids \cup {NoId}
         /\ {shutting', exited', scenPart'} \subseteq BOOLEAN
         /\ ran' \in 0..MaxRuns
<1> DEFINE Goal == /\ rpc' \in {"idle", "busy", "writing"}
                   /\ toFail' \subseteq Ids /\ toRetry' \subseteq Ids
                   /\ again' \in Ids \cup {NoId}
                   /\ {shutting', exited', scenPart'} \subseteq BOOLEAN
                   /\ ran' \in 0..MaxRuns
<1> SUFFICES Goal
  BY Zenon
<1>0. /\ rpc \in {"idle", "busy", "writing"}
      /\ toFail \subseteq Ids /\ toRetry \subseteq Ids /\ Keys \subseteq Ids
      /\ again \in Ids \cup {NoId}
      /\ {shutting, exited, scenPart} \subseteq BOOLEAN
      /\ ran \in 0..MaxRuns /\ MaxRuns \in Nat
  BY ZenonT(40), BoundAssumption DEF InformInv, TTypeOK
<1>1. ASSUME NEW s \in Senders,
             FireBegin(s) \/ FireRegister(s) \/ FireWrite(s) \/ FireFails(s) \/ FireCount(s)
      PROVE  Goal
  BY <1>0, <1>1, Zenon DEF FireBegin, FireRegister, FireWrite, FireFails, FireCount, rvars, nvars,
     svars
<1>2. ASSUME NEW i \in Ids, Ack(i) \/ DeadlinePasses(i) PROVE Goal
  BY Zenon, <1>0, <1>2 DEF Ack, DeadlinePasses, rvars, nvars, svars
<1>3. ASSUME NEW i \in Ids, FailOne(i) \/ RetryOne(i) PROVE Goal
  BY Zenon, <1>0, <1>3 DEF FailOne, RetryOne, nvars, svars
<1>4. CASE Scan \/ Retransmit \/ ScanEnd
  BY Zenon, <1>0, <1>4 DEF Scan, Overdue, Retransmit, ScanEnd, nvars, svars
<1>5. CASE CloseBegin \/ CloseEnd \/ DetachPart \/ UNCHANGED tvars
  BY Zenon, <1>0, <1>5 DEF CloseBegin, CloseEnd, DetachPart, tvars, rvars, nvars, svars
<1>6. CASE Attach
  BY <1>0, <1>6 DEF Attach, rvars, nvars
<1>7. QED
  BY Zenon, <1>1, <1>2, <1>3, <1>4, <1>5, <1>6 DEF TNext, RetryLoop

\* What bounds the counters, and the bounds.
CountsBacked ==
  /\ TableInv /\ Tallied /\ nextReqID \in 0..MaxInforms
  /\ sSent \in Nat /\ sOriginated \in Nat /\ sAcked \in Nat
  /\ \A P \in {P1, P2, P3} :
       Cardinality(Beyond(P)) \in Nat /\ Cardinality(Beyond(P)) <= nextReqID

CountsInRange ==
  /\ {originated, acked, failed, dropped} \subseteq 0..MaxInforms
  /\ {sSent, sOriginated, sAcked} \subseteq 0..MaxInforms

\* Every counter is bounded by the ids handed out.
LEMMA CountsBounded == CountsBacked => CountsInRange
<1> SUFFICES ASSUME CountsBacked PROVE CountsInRange
  BY Zenon
<1>1. /\ originated \in Nat /\ acked \in Nat /\ failed \in Nat /\ dropped \in Nat
      /\ Cardinality(Keys) \in Nat
      /\ Cardinality(Keys) + acked + failed + dropped = originated
  BY Zenon, KeysCount DEF CountsBacked, TableInv, CountersTyped, KeysIssued, Conservation
<1>2. originated <= nextReqID /\ sSent <= nextReqID /\ sOriginated <= nextReqID /\ sAcked <= acked
  <2>1. /\ originated <= Cardinality(Beyond(P1)) /\ sSent <= Cardinality(Beyond(P2))
        /\ sOriginated <= Cardinality(Beyond(P3)) /\ sAcked <= acked
    BY Zenon DEF CountsBacked, Tallied, P1, P2, P3
  <2>2. /\ Cardinality(Beyond(P1)) \in Nat /\ Cardinality(Beyond(P1)) <= nextReqID
        /\ Cardinality(Beyond(P2)) \in Nat /\ Cardinality(Beyond(P2)) <= nextReqID
        /\ Cardinality(Beyond(P3)) \in Nat /\ Cardinality(Beyond(P3)) <= nextReqID
    BY Zenon DEF CountsBacked
  <2>3. nextReqID \in Nat
    BY BoundAssumption DEF CountsBacked
  <2>4. QED
    BY <1>1, <2>1, <2>2, <2>3 DEF CountsBacked
<1>3. /\ originated <= MaxInforms /\ acked <= MaxInforms /\ failed <= MaxInforms
      /\ dropped <= MaxInforms /\ sSent <= MaxInforms /\ sOriginated <= MaxInforms
      /\ sAcked <= MaxInforms
  BY <1>1, <1>2, BoundAssumption DEF CountsBacked
<1>4. QED
  BY <1>1, <1>3, BoundAssumption DEF CountsBacked, CountsInRange

\* The same after a step.
LEMMA CountsBoundedNext == CountsBacked' => CountsInRange'
  BY CountsBounded, PTL

\* The scenario's ledger only counts up.
LEMMA LedgerCounts ==
  ASSUME InformInv, [TNext]_tvars
  PROVE  sSent' \in Nat /\ sOriginated' \in Nat /\ sAcked' \in Nat
<1>0. sSent \in Nat /\ sOriginated \in Nat /\ sAcked \in Nat
  BY DEF InformInv, TTypeOK
<1>1. CASE \E s \in Senders : FireCount(s)
  BY <1>0, <1>1 DEF FireCount
<1>2. CASE \E i \in Ids : Ack(i)
  BY <1>0, <1>2 DEF Ack
<1>3. CASE UNCHANGED <<sSent, sOriginated, sAcked>>
  BY <1>0, <1>3, Zenon
<1>4. QED
  BY ZenonT(40), <1>1, <1>2, <1>3
     DEF TNext, RetryLoop, FireBegin, FireRegister, FireWrite, FireFails, DeadlinePasses, Scan,
         FailOne, RetryOne, Retransmit, ScanEnd, CloseBegin, CloseEnd, Attach, DetachPart, tvars,
         svars

\* Nothing is pending, sent or counted at first.
LEMMA InformInit == TInit => InformInv
<1> SUFFICES ASSUME TInit PROVE InformInv
  BY Zenon
<1>0. MaxInforms \in Nat /\ InformRetries \in Nat /\ MaxRuns \in Nat /\ PendingCap \in Nat
  BY Zenon, BoundAssumption, CapAssumption
<1>1. TableInv /\ Keys = {} /\ Cardinality(Keys) = 0
  BY TableInit, FS_EmptySet DEF TInit, Keys
<1>2. TTypeOK
  <2>1. pending \in [Keys -> Inform] /\ pendingOrder \in Seq(Ids)
    BY <1>1 DEF TInit, Keys
  <2>2. /\ part \in [Senders -> BOOLEAN] /\ {shutting, exited, scenPart} \subseteq BOOLEAN
    BY Zenon DEF TInit
  <2>3. /\ nextReqID \in 0..MaxInforms /\ Keys \subseteq Ids
        /\ {originated, acked, failed, dropped} \subseteq 0..MaxInforms
        /\ spc \in [Senders -> {"idle", "encoded", "registered", "wrote", "counted"}]
        /\ cur \in [Senders -> Ids \cup {NoId}]
        /\ rpc \in {"idle", "busy", "writing"}
        /\ toFail \subseteq Ids /\ toRetry \subseteq Ids /\ again \in Ids \cup {NoId}
        /\ tx \in [Ids -> Nat] /\ ran \in 0..MaxRuns
        /\ {sSent, sOriginated, sAcked} \subseteq 0..MaxInforms
    BY <1>0, <1>1 DEF TInit
  <2>4. QED
    BY <2>1, <2>2, <2>3, Zenon DEF TTypeOK
<1>3. Holders
  BY <1>0 DEF TInit, Holders, NoId
<1>4. OrderIsPending
  BY <1>0, <1>1 DEF TInit, OrderIsPending, IsInjective, Range
<1>5. RetriesLeft /\ Unsent
  BY <1>0 DEF TInit, RetriesLeft, Unsent, Ids, NoId
<1>6. SendsPaid
  <2>1. \A i \in Ids : tx[i] = 0 /\ again # i /\ ~Awaiting(i) /\ Spent(i) = InformRetries
    BY <1>0, <1>1 DEF TInit, Ids, NoId, Awaiting, Spent
  <2>2. QED
    BY <1>0, <2>1 DEF SendsPaid
<1>7. Tallied
  <2>1. \A P : "idle" \notin P => Beyond(P) = {}
    BY DEF TInit, Beyond
  <2>2. Cardinality({}) = 0
    BY FS_EmptySet, Zenon
  <2>3. /\ Cardinality(Beyond(P1)) = 0 /\ Cardinality(Beyond(P2)) = 0
        /\ Cardinality(Beyond(P3)) = 0
    BY <2>1, <2>2, Zenon DEF P1, P2, P3
  <2>4. originated = 0 /\ sSent = 0 /\ sOriginated = 0 /\ sAcked = 0 /\ acked = 0
    BY Zenon DEF TInit
  <2>5. QED
    BY <2>3, <2>4 DEF Tallied, P1, P2, P3
<1>8. QED
  BY <1>1, <1>2, <1>3, <1>4, <1>5, <1>6, <1>7, Zenon DEF InformInv

\* The strengthening of InformsKept holds in every reachable state.
THEOREM InformInvariant == TSpec => []InformInv
<1>1. InformInv /\ [TNext]_tvars => InformInv'
  <2> SUFFICES ASSUME InformInv, [TNext]_tvars PROVE InformInv'
    BY Zenon
  <2>1. TableInv' /\ TableOK' /\ SendsOK' /\ Tallied'
    BY TableStep, TableKept, SendsKept, TallyKept, Zenon DEF InformInv
  <2>2. /\ nextReqID' \in 0..MaxInforms
        /\ spc' \in [Senders -> {"idle", "encoded", "registered", "wrote", "counted"}]
        /\ cur' \in [Senders -> Ids \cup {NoId}]
        /\ part' \in [Senders -> BOOLEAN]
        /\ Holders'
    BY FiresKept, Zenon
  <2>3. /\ rpc' \in {"idle", "busy", "writing"}
        /\ toFail' \subseteq Ids /\ toRetry' \subseteq Ids
        /\ again' \in Ids \cup {NoId}
        /\ {shutting', exited', scenPart'} \subseteq BOOLEAN
        /\ ran' \in 0..MaxRuns
    BY LoopTyped, Zenon
  <2>4. \A P : Cardinality(Beyond(P))' \in Nat /\ Cardinality(Beyond(P))' <= nextReqID'
    <3> SUFFICES ASSUME NEW P
                 PROVE  Cardinality(Beyond(P))' \in Nat /\ Cardinality(Beyond(P))' <= nextReqID'
      BY Zenon
    <3> DEFINE n == nextReqID'
               B == Beyond(P)'
    <3>1. n \in Nat /\ B \subseteq 1..n
      BY <2>1, Zenon DEF TableInv, CountersTyped, Beyond
    <3> HIDE DEF n, B
    <3>2. Cardinality(B) \in Nat /\ Cardinality(B) <= Cardinality(1..n)
      BY Zenon, <3>1, KeysCount
    <3>3. Cardinality(1..n) = n
      <4>1. 1 \in Int /\ n \in Int
        BY <3>1
      <4>2. Cardinality(1..n) = IF 1 > n THEN 0 ELSE n - 1 + 1
        BY <4>1, FS_Interval, Zenon
      <4>3. QED
        BY <3>1, <4>2
    <3>4. QED
      BY <3>2, <3>3, Zenon DEF n, B
  <2>5. /\ {originated', acked', failed', dropped'} \subseteq 0..MaxInforms
        /\ {sSent', sOriginated', sAcked'} \subseteq 0..MaxInforms
    <3>1. CountsBacked'
      BY ZenonT(40), <2>1, <2>2, <2>4, LedgerCounts DEF CountsBacked
    <3>2. QED
      BY Zenon, <3>1, CountsBoundedNext DEF CountsInRange
  <2>6. TTypeOK'
    BY <2>1, <2>2, <2>3, <2>5, Zenon DEF TTypeOK, TableOK, SendsOK
  <2>7. QED
    BY <2>1, <2>2, <2>6, Zenon DEF InformInv, TableOK, SendsOK
<1>2. QED
  BY <1>1, InformInit, PTL DEF TSpec

\* For any number of senders and informs, any capacity and any retry budget: no inform
\* is lost or counted twice, the table and its order list the same ids within the cap,
\* and none is sent more often than its retries allow (trap_exporter.go).
THEOREM InformsAlwaysKept == TSpec => []InformsKept
<1>1. InformInv => InformsKept
  <2> SUFFICES ASSUME InformInv PROVE InformsKept
    BY Zenon
  <2>1. TTypeOK /\ Conservation /\ OrderIsPending
    BY Zenon DEF InformInv, TableInv
  <2>2. TransmissionsBounded
    <3> SUFFICES ASSUME NEW i \in Ids PROVE tx[i] <= 1 + InformRetries
      BY Zenon DEF TransmissionsBounded
    <3>1. tx[i] + One(again = i) + One(Awaiting(i)) <= 1 + Spent(i)
      BY ZenonT(40) DEF InformInv, SendsPaid, One
    <3>2. /\ tx[i] \in Nat /\ One(again = i) \in Nat /\ One(Awaiting(i)) \in Nat
          /\ Spent(i) \in Nat /\ Spent(i) <= InformRetries /\ InformRetries \in Nat
      BY BoundAssumption, SpentType, Zenon DEF InformInv, TTypeOK, One
    <3>3. QED
      BY <3>1, <3>2
  <2>3. QED
    BY <2>1, <2>2, Zenon DEF InformsKept
<1>2. QED
  BY <1>1, InformInvariant, PTL
=============================================================================
