------------------------------ MODULE TrapInform ------------------------------
(***************************************************************************)
(* The INFORM side of one device's trap exporter (trap_exporter.go): fires *)
(* register a request, write it and account for it; the reader settles     *)
(* acknowledgements; the retry loop scans, fails and retransmits; Close    *)
(* stops both loops.  The network loses, delays and duplicates.  Everything*)
(* the code does under pendingMu is one step; between two critical         *)
(* sections anything may happen.                                           *)
(*                                                                         *)
(* A request id is used once: the 2^32 ids wrap after far longer than an   *)
(* inform can stay pending.                                                *)
(***************************************************************************)
EXTENDS Integers, FiniteSets, Sequences, Functions

CONSTANTS
  Senders,          \* goroutines that may fire
  MaxInforms,       \* bound on the informs fired
  PendingCap,       \* TrapExporter.pendingCap
  InformRetries,    \* TrapExporter.informRetries
  MaxRuns           \* bound on the scenarios that use the exporter

ASSUME CapAssumption == PendingCap \in Nat \ {0}
ASSUME BoundAssumption == /\ MaxInforms \in Nat /\ InformRetries \in Nat
                          /\ MaxRuns \in Nat

Ids == 1..MaxInforms
NoId == 0

VARIABLES
  nextReqID,        \* the last request id handed out
  pending,          \* TrapExporter.pending: id -> pendingInform
  pendingOrder,     \* TrapExporter.pendingOrder
  originated, acked, failed, dropped,    \* TrapStats
  spc,              \* where each sender is in fireWithCtx
  cur,              \* the request id it holds
  part,             \* whether it loaded a participation handle
  rpc,              \* where checkPending is
  toFail, toRetry,  \* the work of the current scan
  again,            \* the inform being retransmitted
  tx,               \* history: transmissions of each inform
  shutting,         \* TrapExporter.closing
  exited,           \* both loops have returned
  scenPart,         \* a scenario's handle is in scenPart
  ran,              \* scenarios so far (bound)
  sSent, sOriginated, sAcked             \* the scenario's ledger

pvars == <<pending, pendingOrder, originated, acked, failed, dropped>>
fvars == <<nextReqID, spc, cur, part>>
rvars == <<rpc, toFail, toRetry, again>>
nvars == <<tx, shutting, exited>>
svars == <<scenPart, ran, sSent, sOriginated, sAcked>>
tvars == <<pvars, fvars, rvars, nvars, svars>>

\* pendingInform; due says that the deadline has passed.
Inform == [retries : 0..InformRetries, due : BOOLEAN]
Keys == DOMAIN pending

TTypeOK == /\ nextReqID \in 0..MaxInforms
           /\ Keys \subseteq Ids /\ pending \in [Keys -> Inform]
           /\ pendingOrder \in Seq(Ids)
           /\ {originated, acked, failed, dropped} \subseteq 0..MaxInforms
           /\ spc \in [Senders -> {"idle", "encoded", "registered", "wrote", "counted"}]
           /\ cur \in [Senders -> Ids \cup {NoId}]
           /\ part \in [Senders -> BOOLEAN]
           /\ rpc \in {"idle", "busy", "writing"}
           /\ toFail \subseteq Ids /\ toRetry \subseteq Ids
           /\ again \in Ids \cup {NoId}
           /\ tx \in [Ids -> Nat]
           /\ {shutting, exited, scenPart} \subseteq BOOLEAN
           /\ ran \in 0..MaxRuns
           /\ {sSent, sOriginated, sAcked} \subseteq 0..MaxInforms

TInit == /\ nextReqID = 0
         /\ pending = <<>> /\ pendingOrder = <<>>
         /\ originated = 0 /\ acked = 0 /\ failed = 0 /\ dropped = 0
         /\ spc = [s \in Senders |-> "idle"]
         /\ cur = [s \in Senders |-> NoId]
         /\ part = [s \in Senders |-> FALSE]
         /\ rpc = "idle" /\ toFail = {} /\ toRetry = {} /\ again = NoId
         /\ tx = [i \in Ids |-> 0]
         /\ shutting = FALSE /\ exited = FALSE
         /\ scenPart = FALSE /\ ran = 0
         /\ sSent = 0 /\ sOriginated = 0 /\ sAcked = 0
-------------------------------------------------------------------------------
(* The pending table; each operator is the body of one critical section. *)

\* The order without its first i.
removeFromOrder(q, i) ==
  IF i \in Range(q)
  THEN LET k == CHOOSE k \in 1..Len(q) : q[k] = i /\ \A j \in 1..k - 1 : q[j] # i
       IN  SubSeq(q, 1, k - 1) \o SubSeq(q, k + 1, Len(q))
  ELSE q

\* Leaving the table by any way but overflow: delete and removeFromOrder.
Forget(i) == /\ pending' = Restrict(pending, Keys \ {i})
             /\ pendingOrder' = removeFromOrder(pendingOrder, i)

\* What is left after the overflow loop has popped k ids.
KeptAfter(k) == Keys \ {pendingOrder[j] : j \in 1..k}

\* The condition of the overflow loop.
Overflows(k) == Cardinality(KeptAfter(k)) >= PendingCap

\* How many ids the loop pops: until there is room, or the order is empty.
Popped == CHOOSE k \in 0..Len(pendingOrder) :
            /\ Overflows(k) => k = Len(pendingOrder)
            /\ \A j \in 0..k - 1 : Overflows(j)

\* registerPending.
registerPending(i) ==
  /\ pending' = [j \in KeptAfter(Popped) \cup {i} |->
                   IF j = i THEN [retries |-> 0, due |-> FALSE] ELSE pending[j]]
  /\ pendingOrder' = Append(SubSeq(pendingOrder, Popped + 1, Len(pendingOrder)), i)
  /\ dropped' = dropped + Cardinality(Keys) - Cardinality(KeptAfter(Popped))
  /\ originated' = originated + 1
  /\ UNCHANGED <<acked, failed>>

\* The undo after a failed first write.
Undo(i) == /\ IF i \in Keys THEN Forget(i) /\ originated' = originated - 1
                            ELSE UNCHANGED <<pending, pendingOrder, originated>>
           /\ UNCHANGED <<acked, failed, dropped>>

\* A slip in resolveAck: duplicate acknowledgements are counted.
SettleAlways(i) == /\ Forget(i)
                   /\ acked' = acked + 1
                   /\ UNCHANGED <<originated, failed, dropped>>

\* resolveAck: an ack of nothing pending is ignored.
Settle(i) == /\ i \in Keys
             /\ Forget(i)
             /\ acked' = acked + 1
             /\ UNCHANGED <<originated, failed, dropped>>
-------------------------------------------------------------------------------
(* A fire. *)

\* fireWithSource and the first half of fireWithCtx, for a fire that resolves and
\* encodes: one look at closing, one at the handle, then the next id.
FireBegin(s) == /\ spc[s] = "idle"
                /\ ~shutting
                /\ nextReqID < MaxInforms
                /\ nextReqID' = nextReqID + 1
                /\ cur' = [cur EXCEPT ![s] = nextReqID']
                /\ part' = [part EXCEPT ![s] = scenPart]
                /\ spc' = [spc EXCEPT ![s] = "encoded"]
                /\ UNCHANGED <<pvars, rvars, nvars, svars>>

FireRegister(s) == /\ spc[s] = "encoded"
                   /\ registerPending(cur[s])
                   /\ spc' = [spc EXCEPT ![s] = "registered"]
                   /\ UNCHANGED <<nextReqID, cur, part, rvars, nvars, svars>>

\* The first transmission: writePDU needs the socket Close takes away.
FireWrite(s) == /\ spc[s] = "registered"
                /\ ~exited
                /\ tx' = [tx EXCEPT ![cur[s]] = @ + 1]
                /\ spc' = [spc EXCEPT ![s] = "wrote"]
                /\ UNCHANGED <<pvars, nextReqID, cur, part, rvars, shutting, exited, svars>>

\* The fire returns.
FireEnds(s) == /\ spc' = [spc EXCEPT ![s] = "idle"]
               /\ cur' = [cur EXCEPT ![s] = NoId]
               /\ part' = [part EXCEPT ![s] = FALSE]

FireFails(s) == /\ spc[s] = "registered"
                /\ Undo(cur[s])
                /\ FireEnds(s)
                /\ UNCHANGED <<nextReqID, rvars, nvars, svars>>

\* The scenario accounting: sent, then informsOriginated.
FireCount(s) ==
  /\ \/ /\ spc[s] = "wrote"
        /\ sSent' = IF part[s] THEN sSent + 1 ELSE sSent
        /\ spc' = [spc EXCEPT ![s] = "counted"]
        /\ UNCHANGED <<cur, part, sOriginated>>
     \/ /\ spc[s] = "counted"
        /\ sOriginated' = IF part[s] THEN sOriginated + 1 ELSE sOriginated
        /\ FireEnds(s)
        /\ UNCHANGED sSent
  /\ UNCHANGED <<pvars, nextReqID, rvars, nvars, scenPart, ran, sAcked>>

\* readerLoop: an acknowledgement of anything the collector has seen, perhaps
\* again; an attached scenario takes the credit.
Ack(i) == /\ tx[i] > 0
          /\ ~exited
          /\ Settle(i)
          /\ sAcked' = IF scenPart THEN sAcked + 1 ELSE sAcked
          /\ UNCHANGED <<fvars, rvars, nvars, scenPart, ran, sSent, sOriginated>>
-------------------------------------------------------------------------------
(* The retry loop. *)

DeadlinePasses(i) == /\ i \in Keys
                     /\ ~pending[i].due
                     /\ pending' = [pending EXCEPT ![i].due = TRUE]
                     /\ UNCHANGED <<pendingOrder, originated, acked, failed, dropped, fvars,
                                    rvars, nvars, svars>>

\* The budget of an inform is not spent.
Retryable(i) == pending[i].retries < InformRetries

Overdue == {i \in Keys : pending[i].due}

\* checkPending, the scan.
Scan == /\ rpc = "idle"
        /\ ~shutting
        /\ toRetry' = {i \in Overdue : Retryable(i)}
        /\ toFail' = {i \in Overdue : ~Retryable(i)}
        /\ toRetry' \cup toFail' # {}
        /\ rpc' = "busy"
        /\ UNCHANGED <<pvars, fvars, again, nvars, svars>>

\* An exhausted inform fails, unless it has settled since the scan.
FailOne(i) == /\ rpc = "busy"
              /\ i \in toFail
              /\ toFail' = toFail \ {i}
              /\ IF i \in Keys THEN Forget(i) /\ failed' = failed + 1
                               ELSE UNCHANGED <<pending, pendingOrder, failed>>
              /\ UNCHANGED <<originated, acked, dropped, fvars, rpc, toRetry, again, nvars, svars>>

\* The retransmission is counted and gets a new deadline.
RetryCharged(i) == pending' = [pending EXCEPT ![i].retries = @ + 1, ![i].due = FALSE]

\* A timed-out inform is retried, unless it has settled while the loop waited for
\* its token.
RetryOne(i) == /\ rpc = "busy"
               /\ toFail = {}
               /\ i \in toRetry
               /\ ~shutting
               /\ toRetry' = toRetry \ {i}
               /\ IF i \in Keys THEN RetryCharged(i) /\ rpc' = "writing" /\ again' = i
                                ELSE UNCHANGED <<pending, rpc, again>>
               /\ UNCHANGED <<pendingOrder, originated, acked, failed, dropped, fvars, toFail,
                              nvars, svars>>

\* The retransmission leaves the lock before it writes, and may fail.
Retransmit == /\ rpc = "writing"
              /\ rpc' = "busy"
              /\ again' = NoId
              /\ \/ ~exited /\ tx' = [tx EXCEPT ![again] = @ + 1]
                 \/ UNCHANGED tx
              /\ UNCHANGED <<pvars, fvars, toFail, toRetry, shutting, exited, svars>>

\* The pass is over, or Close cuts the retries short.
ScanEnd == /\ rpc = "busy"
           /\ toFail = {}
           /\ toRetry = {} \/ shutting
           /\ rpc' = "idle"
           /\ toRetry' = {}
           /\ UNCHANGED <<pvars, fvars, toFail, again, nvars, svars>>

RetryLoop == Scan \/ (\E i \in Ids : FailOne(i) \/ RetryOne(i)) \/ Retransmit \/ ScanEnd
-------------------------------------------------------------------------------
(* Close and the scenario. *)

CloseBegin == /\ ~shutting
              /\ shutting' = TRUE
              /\ UNCHANGED <<pvars, fvars, rvars, tx, exited, svars>>

\* The socket is gone and loopsWG.Wait has returned.
CloseEnd == /\ shutting
            /\ ~exited
            /\ rpc = "idle"
            /\ exited' = TRUE
            /\ UNCHANGED <<pvars, fvars, rvars, tx, shutting, svars>>

\* A scenario claims the exporter.
Attach == /\ ~scenPart
          /\ ran < MaxRuns /\ ran' = ran + 1
          /\ scenPart' = TRUE
          /\ UNCHANGED <<pvars, fvars, rvars, nvars, sSent, sOriginated, sAcked>>

\* finish detaches after a drained barrier: no fire of its own is under way.
DetachPart == /\ scenPart
              /\ \A s \in Senders : ~part[s]
              /\ scenPart' = FALSE
              /\ UNCHANGED <<pvars, fvars, rvars, nvars, ran, sSent, sOriginated, sAcked>>

TNext == \/ \E s \in Senders : \/ FireBegin(s) \/ FireRegister(s) \/ FireWrite(s)
                               \/ FireFails(s) \/ FireCount(s)
         \/ \E i \in Ids : Ack(i) \/ DeadlinePasses(i)
         \/ RetryLoop
         \/ CloseBegin \/ CloseEnd \/ Attach \/ DetachPart

\* The retry ticker and time go on; of the senders and the network nothing is
\* assumed.
TFairness == /\ WF_tvars(RetryLoop)
             /\ \A i \in Ids : WF_tvars(DeadlinePasses(i))

TSpec == TInit /\ [][TNext]_tvars /\ TFairness
-------------------------------------------------------------------------------
(* Properties. *)

\* The counter invariant of TrapStats and of the status page: every inform
\* originated is pending, acked, failed or dropped, through undone writes, late
\* and duplicate acks, overflow and a retry loop working on an old scan.
Conservation == Cardinality(Keys) + acked + failed + dropped = originated

\* The table never grows past pendingCap, and pendingOrder lists exactly its keys:
\* otherwise overflow would pop settled ids and not the oldest pending one.
OrderIsPending == /\ Cardinality(Keys) <= PendingCap
                  /\ IsInjective(pendingOrder)
                  /\ Range(pendingOrder) = Keys

\* No inform is sent more than once plus its retries.
TransmissionsBounded == \A i \in Ids : tx[i] <= 1 + InformRetries

\* Every inform settles: it is acked, failed, dropped or undone unless the exporter
\* closes, because each expiry spends budget.
InformSettles == \A i \in Ids : (i \in Keys) ~> (i \notin Keys \/ shutting)

\* No inform is lost or counted twice, the table and its order list the same ids
\* within the cap, and none is sent more often than its retries allow
\* (trap_exporter.go).
InformsKept ==
  /\ TTypeOK /\ Conservation /\ OrderIsPending /\ TransmissionsBounded
===============================================================================
