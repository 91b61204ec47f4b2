--------------------------- MODULE ExportProofs ----------------------------
(***************************************************************************)
(* Proofs about the exporters: the flow encoders' arithmetic, and the      *)
(* trap scheduler with the fleet it fires for.                             *)
(***************************************************************************)
EXTENDS FlowEncoding, TrapFleet, TLAPS

(***************************************************************************)
(* The datagram arithmetic, for every MTU an operator can set and every    *)
(* number of waiting records.                                              *)
(***************************************************************************)
\* The smallest budget, IPv6 at the minimum MTU, bounds the budgets from below.
LEMMA BudgetLow ==
  ASSUME BudgetTypeOK, NEW v4 \in BOOLEAN
  PROVE  PayloadBudget(v4) \in Nat /\ PayloadBudget(v4) >= 528
BY SMT DEF BudgetTypeOK, PayloadBudget, MinLinkMTU

\* The data set of a template protocol is padded by two bytes exactly when its
\* number of records is odd: 46 and 54 leave remainder two.
LEMMA PadSize ==
  ASSUME NEW e \in {"netflow9", "ipfix"}, NEW n \in Nat
  PROVE  TrailingPadBytes(e, n) = IF n % 2 = 0 THEN 0 ELSE 2
<1>1. CASE e = "netflow9" BY <1>1, SMT DEF TrailingPadBytes, PacketSizes, Padded
<1>2. CASE e = "ipfix" BY <1>2, SMT DEF TrailingPadBytes, PacketSizes, Padded
<1> QED BY <1>1, <1>2
\* Tick's capacity and the encoder's own agree for the template protocols: one
\* record less than what fits without the pad, or all of them.
LEMMA TakesAllTemplated ==
  ASSUME NEW e \in {"netflow9", "ipfix"}, NEW len \in Nat, NEW waiting \in Nat,
         NEW templ \in BOOLEAN, len >= 528
  PROVE  TakesAll(e, len, waiting, templ)
<1> DEFINE over == Overhead(e, templ)
           rec == PacketSizes(e).rec
           full == (len - over) \div rec
           cap == TickCapacity(e, len, templ)
           batch == BatchSize(e, len, waiting, templ)
<1>1. /\ over \in {20, 24, 104, 108} /\ rec \in {46, 54}
      /\ PerRec(e) = rec /\ MaxRecordsPerDatagram(e) = 0
  BY SMT DEF Overhead, PacketSizes, PerRec, MaxRecordSize, MaxRecordsPerDatagram
<1>2. full \in Nat /\ full > 1 /\ over + full * rec <= len
  BY <1>1, SMT
<1>3. cap = IF over + full * rec + TrailingPadBytes(e, full) > len THEN full - 1 ELSE full
  BY <1>1, <1>2, SMT DEF TickCapacity, DatagramSize
<1>4. cap \in Nat /\ cap > 0 
  BY <1>2, <1>3, SMT
<1>5. over + cap * rec + TrailingPadBytes(e, cap) <= len
  <2>1. CASE cap = full BY <2>1, <1>1, <1>2, <1>3, PadSize, SMT
  <2>2. CASE cap = full - 1 BY <2>2, <1>1, <1>2, PadSize, SMT
  <2> QED BY <2>1, <2>2, <1>3, SMT
<1>6. batch \in 0..cap BY <1>4, SMT DEF BatchSize, Least
<1>7. over + batch * rec + TrailingPadBytes(e, batch) <= len
  <2>1. CASE batch = cap BY <2>1, <1>5
  <2>2. CASE batch < cap
    <3>1. batch * rec <= (cap - 1) * rec BY <2>2, <1>1, <1>4, <1>6, SMT
    <3>2. TrailingPadBytes(e, batch) <= 2 BY <1>6, PadSize, SMT
    <3>3. over + cap * rec <= len BY <1>4, <1>5, PadSize, <1>1, SMT
    <3> QED BY <3>1, <3>2, <3>3, <1>1, <1>4, <1>6, PadSize, SMT
  <2> QED BY <2>1, <2>2, <1>4, <1>6, SMT
<1>8. len >= over + rec + TrailingPadBytes(e, 1) BY <1>1, PadSize, SMT
<1>9. ASSUME batch > 0
      PROVE  EncodeTemplated(e, batch, templ, len) =
               [n |-> over + batch * rec + TrailingPadBytes(e, batch), records |-> batch,
                err |-> FALSE]
  <2> DEFINE max == IF full > 0 /\ over + full * rec + TrailingPadBytes(e, full) > len
                    THEN full - 1 ELSE full
  <2>1. max = cap
    BY <1>2, <1>3, SMT
  <2>2. Least(batch, max) = batch
    BY <2>1, <1>4, <1>6, SMT DEF Least
  <2>3. ~(len < over) /\ ~(len < over + rec + TrailingPadBytes(e, 1)) /\ batch # 0
    BY <1>1, <1>6, <1>8, <1>9, PadSize, SMT
  <2> HIDE DEF batch
  <2>4. EncodeTemplated(e, batch, templ, len) =
          [n |-> IF Least(batch, max) = 0 THEN over - 4
                 ELSE over + Least(batch, max) * rec + TrailingPadBytes(e, Least(batch, max)),
           records |-> Least(batch, max), err |-> FALSE]
    BY <2>3, Zenon DEF EncodeTemplated
  <2> HIDE DEF max, over, rec
  <2> QED BY <2>2, <2>3, <2>4, Zenon
<1>10. EncodePacket(e, batch, templ, len) = EncodeTemplated(e, batch, templ, len)
  BY SMT DEF EncodePacket
<1> HIDE DEF batch, over, rec
<1> QED BY <1>6, <1>7, <1>9, <1>10, SMT DEF TakesAll, batch

\* NetFlow v5: the record ceiling bounds the batch as the encoder does.
LEMMA TakesAllV5 ==
  ASSUME NEW len \in Nat, NEW waiting \in Nat, NEW templ \in BOOLEAN, len >= 528
  PROVE  TakesAll("netflow5", len, waiting, templ)
<1> DEFINE e == "netflow5"
           cap == TickCapacity(e, len, templ)
           batch == BatchSize(e, len, waiting, templ)
<1>1. Overhead(e, templ) = 24 /\ PerRec(e) = 48 /\ MaxRecordsPerDatagram(e) = 30
  BY SMT DEF Overhead, PacketSizes, PerRec, MaxRecordSize, MaxRecordsPerDatagram
<1>2. \A n : TrailingPadBytes(e, n) = 0
  BY SMT DEF TrailingPadBytes
<1>3. cap \in 1..30 /\ 24 + cap * 48 <= len
  BY <1>1, <1>2, SMT DEF TickCapacity, DatagramSize, Least
<1>4. batch \in 0..30 /\ 24 + batch * 48 <= len
  BY <1>3, SMT DEF BatchSize, Least
<1>5. batch > 0 => EncodeV5(batch, len) = [n |-> 24 + batch * 48, records |-> batch, err |-> FALSE]
  <2>1. Least(batch, 30) = batch
    BY <1>4, SMT DEF Least
  <2>2. batch > 0 => batch # 0 /\ ~(len < 24 + batch * 48)
    BY <1>4, SMT
  <2> HIDE DEF batch
  <2> QED BY <2>1, <2>2, Zenon DEF EncodeV5
<1>6. EncodePacket(e, batch, templ, len) = EncodeV5(batch, len)
  BY SMT DEF EncodePacket
<1> HIDE DEF batch
<1> QED BY <1>4, <1>5, <1>6, SMT DEF TakesAll, batch

\* sFlow: Tick budgets 128 bytes a sample, the encoder writes at most 104.
LEMMA TakesAllSFlow ==
  ASSUME NEW len \in Nat, NEW waiting \in Nat, NEW templ \in BOOLEAN, len >= 528
  PROVE  TakesAll("sflow", len, waiting, templ)
<1> DEFINE e == "sflow"
           cap == TickCapacity(e, len, templ)
           batch == BatchSize(e, len, waiting, templ)
<1>1. Overhead(e, templ) = 28 /\ PerRec(e) = 128 /\ MaxRecordsPerDatagram(e) = 0
  BY SMT DEF Overhead, PacketSizes, PerRec, MaxRecordSize, MaxRecordsPerDatagram
<1>2. \A n : TrailingPadBytes(e, n) = 0
  BY SMT DEF TrailingPadBytes
<1>3. cap \in Nat /\ cap > 0 /\ cap = (len - 28) \div 128 /\ 28 + cap * 128 <= len
  BY <1>1, <1>2, SMT DEF TickCapacity, DatagramSize
<1>4. batch \in 0..cap /\ 28 + batch * 128 <= len
  BY <1>3, SMT DEF BatchSize, Least
<1>5. FlowSampleSize("tcp") = 104
  BY SMT DEF FlowSampleSize, Padded
<1>6. batch > 0 => EncodeSFlow(batch, len) = [n |-> 28 + batch * 104, records |-> batch, err |-> FALSE]
  <2>1. Least(batch, (len - 28) \div 128) = batch
    BY <1>3, <1>4, SMT DEF Least
  <2>2. batch > 0 => batch # 0 /\ ~(len < 28 + 128)
    BY <1>4, SMT
  <2> HIDE DEF batch, cap
  <2> QED BY <2>1, <2>2, <1>5, Zenon DEF EncodeSFlow
<1>7. EncodePacket(e, batch, templ, len) = EncodeSFlow(batch, len)
  BY SMT DEF EncodePacket
<1> HIDE DEF batch, cap
<1> QED BY <1>3, <1>4, <1>6, <1>7, SMT DEF TakesAll, batch

\* The configured MTU stays in range (SetLinkMTU refuses the rest).
THEOREM BudgetTypeCorrect == BudgetSpec => []BudgetTypeOK
<1>1. BudgetInit => BudgetTypeOK
  BY SMT DEF BudgetInit, BudgetTypeOK, DefaultLinkMTU, MinLinkMTU
<1>2. BudgetTypeOK /\ [BudgetNext]_linkMTU => BudgetTypeOK'
  <2> SUFFICES ASSUME BudgetTypeOK, [BudgetNext]_linkMTU PROVE BudgetTypeOK'
    BY Zenon
  <2>1. ASSUME NEW mtu \in MTUs, SetLinkMTU(mtu) PROVE BudgetTypeOK'
    <3>1. mtu \in Int BY MTUAssumption, Zenon
    <3> QED BY <2>1, <3>1, SMT DEF BudgetTypeOK, SetLinkMTU, MinLinkMTU
  <2>2. CASE UNCHANGED linkMTU BY <2>2, SMT DEF BudgetTypeOK, MinLinkMTU
  <2> QED BY <2>1, <2>2, SMT DEF BudgetNext
<1> QED BY <1>1, <1>2, PTL DEF BudgetSpec

\* In every reachable state Tick hands each encoder a batch it takes whole and that
\* fits the budget: no record is cut off at any MTU.
THEOREM NoRecordCutOff == BudgetSpec => []NothingCutOff
<1>1. BudgetTypeOK => NothingCutOff
  <2> SUFFICES ASSUME BudgetTypeOK, NEW e \in FixedEncoders, NEW v4 \in BOOLEAN,
                      NEW templ \in BOOLEAN, NEW waiting \in 0..MaxWaiting
               PROVE  TakesAll(e, PayloadBudget(v4), waiting, templ)
    BY Zenon DEF NothingCutOff
  <2>1. waiting \in Nat
    BY MTUAssumption, SMT
  <2>2. CASE e \in {"netflow9", "ipfix"}
    BY <2>1, <2>2, BudgetLow, TakesAllTemplated, SMT
  <2>3. CASE e = "netflow5"
    BY <2>1, <2>3, BudgetLow, TakesAllV5, Zenon
  <2>4. CASE e = "sflow"
    BY <2>1, <2>4, BudgetLow, TakesAllSFlow, Zenon
  <2> QED BY <2>2, <2>3, <2>4, Zenon DEF FixedEncoders
<1> QED BY <1>1, BudgetTypeCorrect, PTL

\* In every reachable state a datagram without the template holds a record, so the
\* loop of Tick ends because everything was sent.
THEOREM LoopAlwaysProgresses == BudgetSpec => []LoopProgresses
<1>1. BudgetTypeOK => LoopProgresses
  <2> SUFFICES ASSUME BudgetTypeOK, NEW e \in FixedEncoders, NEW v4 \in BOOLEAN
               PROVE  TickCapacity(e, PayloadBudget(v4), FALSE) > 0
    BY Zenon DEF LoopProgresses
  <2>1. PICK len \in Nat : len = PayloadBudget(v4) /\ len >= 528
    BY BudgetLow, Zenon
  <2>2. TickCapacity(e, len, FALSE) > 0
    BY <2>1, SMT DEF FixedEncoders, TickCapacity, DatagramSize, Overhead, PacketSizes, PerRec,
       MaxRecordSize, TrailingPadBytes, Padded, MaxRecordsPerDatagram, Least
  <2> QED BY <2>1, <2>2, Zenon
<1> QED BY <1>1, BudgetTypeCorrect, PTL

\* In every reachable state the option, application and counter tables paginate
\* without an error and without losing a record.
THEOREM TablesAlwaysFit == BudgetSpec => []TablesFit
<1>1. ASSUME NEW len \in Nat, len >= 528, NEW r \in Nat, r > 0,
             NEW e \in {"netflow9", "ipfix"}, NEW shape \in {"if-scoped", "system-scoped"}
      PROVE  OptionsFit(e, shape, r, len)
  BY <1>1, SMT DEF OptionsFit, EncodeOptions, OptionsTemplSize, OptionRecSize, Padded, Least, NoPacket,
     TooSmall
<1>2. ASSUME NEW len \in Nat, len >= 528, NEW r \in Nat, r > 0
      PROVE  AppTableFits(r, len) /\ CountersFit(r, len)
  <2>1. AppTableFits(r, len)
    BY <1>2, SMT DEF AppTableFits, EncodeAppTable, AppRecSize, Padded, Least, NoPacket, TooSmall
  <2>2. CountersFit(r, len)
    BY <1>2, SMT DEF CountersFit, CounterBatch, EncodeCounters, Padded, Least, NoPacket, TooSmall
  <2> QED BY <2>1, <2>2
<1>3. BudgetTypeOK => TablesFit
  <2> SUFFICES ASSUME BudgetTypeOK, NEW v4 \in BOOLEAN, NEW r \in 1..MaxWaiting
               PROVE  /\ \A e \in {"netflow9", "ipfix"}, shape \in {"if-scoped", "system-scoped"} :
                           OptionsFit(e, shape, r, PayloadBudget(v4))
                      /\ AppTableFits(r, PayloadBudget(v4))
                      /\ CountersFit(r, PayloadBudget(v4))
    BY Zenon DEF TablesFit
  <2>1. r \in Nat /\ r > 0
    BY MTUAssumption, SMT
  <2> QED BY <2>1, <1>1, <1>2, BudgetLow, SMT
<1> QED BY <1>3, BudgetTypeCorrect, PTL
\* BatchesFit for any accepted MTU and any backlog: no record is cut off, Tick's loop
\* progresses and the tables paginate (flow_exporter.go and the four encoders).
THEOREM BatchesAlwaysFit == BudgetSpec => []BatchesFit
<1>1. BudgetTypeOK /\ NothingCutOff /\ LoopProgresses /\ TablesFit => BatchesFit
  BY Zenon DEF BatchesFit
<1> QED BY <1>1, BudgetTypeCorrect, NoRecordCutOff, LoopAlwaysProgresses, TablesAlwaysFit, PTL

(***************************************************************************)
(* Proofs about the trap scheduler and the devices around it: the heap,    *)
(* byIP and the exporters agree; a closed runDone means that nothing is in *)
(* flight; StopTrapExport finds the pool quiet; a device that was torn     *)
(* down is out of the scheduler; what the shutdown books is final, and a   *)
(* published device keeps its schedule unless DeleteAllDevices was tearing *)
(* down its address.  For any set of devices and workers, any number of    *)
(* incarnations and any capacity of the queue.                             *)
(***************************************************************************)
\* Where Run is determines what its flags say; before Run is entered and
\* after it has returned the pool is idle.
RunFlags ==
  /\ started = (pc # "off") /\ runDone = (pc = "done")
  /\ pc \in {"off", "done"} => jobs = <<>> /\ \A w \in Workers : busy[w] = None
  /\ pc \in {"pick", "send"} => popped # None

HeapInv == HeapTypeOK /\ OneEntryEach
PoolInv == RunTypeOK /\ PoolTypeOK /\ RunFlags
SchedInv == HeapInv /\ PoolInv

\* An exporter is a pair of its address and a positive number.
LEMMA ExportersArePairs ==
  \A e \in Exporters : e = <<e[1], e[2]>> /\ e[1] \in Devices /\ e[2] \in Nat \ {0} /\ e # None
<1> SUFFICES ASSUME NEW e \in Exporters
             PROVE  e = <<e[1], e[2]>> /\ e[1] \in Devices /\ e[2] \in Nat \ {0} /\ e # None
  BY Zenon
<1>1. PICK d \in Devices : e \in {d} \X (1..MaxGen[d])
  BY Zenon DEF Exporters
<1>2. e = <<e[1], e[2]>> /\ e[1] = d /\ e[2] \in 1..MaxGen[d]
  BY <1>1
<1>3. e # None
  <2>1. \A x, y : <<x, y>> # <<>>
    BY Zenon
  <2>2. QED
    BY <1>2, <2>1, Zenon DEF None
<1>4. MaxGen[d] \in Nat
  BY GenAssumption, Zenon
<1>5. e[2] \in Nat \ {0}
  BY <1>2, <1>4
<1>6. QED
  BY <1>2, <1>3, <1>5, Zenon

\* Before the first registration everything agrees.
LEMMA SchedInitInv == SchedInit => SchedInv
<1> SUFFICES ASSUME SchedInit PROVE SchedInv
  BY Zenon
<1>1. HeapTypeOK
  BY Zenon DEF SchedInit, HeapTypeOK, NotQueued
<1>2. RunTypeOK
  BY Zenon DEF SchedInit, RunTypeOK
<1>3. PoolTypeOK
  BY QueueAssumption DEF SchedInit, PoolTypeOK
<1>4. OneEntryEach
  BY Zenon DEF SchedInit, OneEntryEach, Queued
<1>5. RunFlags
  BY Zenon DEF SchedInit, RunFlags
<1>6. QED
  BY <1>1, <1>2, <1>3, <1>4, <1>5, Zenon DEF SchedInv, HeapInv, PoolInv

\* A deadline lies after the present, so it is never NotQueued.
LEMMA DeadlinesAreSet ==
  \A n \in Nat : \A o \in Offsets : n + o \in Nat /\ n + o # NotQueued
BY ClockAssumption DEF Offsets, NotQueued

-----------------------------------------------------------------------------
(* The heap, byIP and the exporters. *)

\* Whoever changes the heap registers, deregisters, drops or requeues.
LEMMA RegisterKeeps ==
  ASSUME HeapInv, NEW d \in Devices, NEW e \in Exporters, Register(d, e), now' = now
  PROVE  HeapInv'
<1> USE DEF HeapInv, HeapTypeOK, OneEntryEach, Queued, NotQueued
<1>1. CASE d \in byIP /\ UNCHANGED <<heap, byIP, wake>>
  BY <1>1, ExportersArePairs, Zenon DEF Register
<1>2. CASE d \notin byIP
  <2>1. PICK o \in Offsets : heap' = [heap EXCEPT ![d] = now + o]
    BY <1>2, Zenon DEF Register
  <2>2. byIP' = byIP \cup {d} /\ wake' = TRUE /\ firer' = [firer EXCEPT ![d] = e]
    BY <1>2, Zenon DEF Register, nudge
  <2>3. now + o \in Nat /\ now + o # 0 /\ e # None
    BY DeadlinesAreSet, ExportersArePairs, Zenon
  <2>4. HeapTypeOK'
    BY <2>1, <2>2, <2>3, Zenon
  <2>5. Queued' = Queued \cup {d}
    BY <2>1, <2>3, Zenon
  <2>6. {q \in Devices : firer'[q] # None} = {q \in Devices : firer[q] # None} \cup {d}
    BY <2>2, <2>3, Zenon
  <2>7. QED
    BY <2>2, <2>4, <2>5, <2>6, Zenon
<1>3. QED
  BY <1>1, <1>2, Zenon DEF Register

\* Deregister takes the device out of all three.
LEMMA DeregisterKeeps ==
  ASSUME HeapInv, NEW d \in Devices, Deregister(d), now' = now
  PROVE  HeapInv'
<1> USE DEF HeapInv, HeapTypeOK, OneEntryEach, Queued, NotQueued
<1>1. firer' = [firer EXCEPT ![d] = None]
  BY Zenon DEF Deregister
<1>2. CASE d \notin byIP /\ UNCHANGED <<heap, byIP, wake>>
  <2>1. firer[d] = None /\ firer' = firer
    BY <1>1, <1>2, Zenon
  <2>2. QED
    BY <1>2, <2>1, Zenon
<1>3. CASE d \in byIP /\ heap' = [heap EXCEPT ![d] = NotQueued] /\ byIP' = byIP \ {d} /\ wake' = TRUE
  <2>1. HeapTypeOK'
    BY <1>1, <1>3, Zenon
  <2>2. Queued' = Queued \ {d}
    BY <1>3, Zenon
  <2>3. {q \in Devices : firer'[q] # None} = {q \in Devices : firer[q] # None} \ {d}
    BY <1>1, Zenon
  <2>4. QED
    BY <1>3, <2>1, <2>2, <2>3, Zenon
<1>4. QED
  BY <1>2, <1>3, Zenon DEF Deregister, nudge

\* So does the drop of an entry whose device is gone; a requeue keeps it in.
LEMMA PopKeeps == HeapInv /\ RunPop => HeapInv'
<1> SUFFICES ASSUME HeapInv, RunPop PROVE HeapInv'
  BY Zenon
<1> USE DEF HeapInv, HeapTypeOK, OneEntryEach, Queued, NotQueued
<1>1. UNCHANGED <<now, firer, wake>>
  BY Zenon DEF RunPop
<1>2. CASE UNCHANGED <<heap, byIP>>
  BY <1>1, <1>2, Zenon
<1>3. ASSUME NEW d \in Heads, IF firer[d] = None THEN Drop(d) ELSE Requeue(d)
      PROVE  HeapInv'
  <2>1. d \in Devices /\ d \in byIP /\ firer[d] # None
    BY Zenon DEF Heads
  <2>2. PICK o \in Offsets : heap' = [heap EXCEPT ![d] = now + o]
    BY <1>3, <2>1, Zenon DEF Requeue
  <2>3. byIP' = byIP
    BY <1>3, <2>1, Zenon DEF Requeue
  <2>4. now + o \in Nat /\ now + o # 0
    BY DeadlinesAreSet, Zenon
  <2>5. HeapTypeOK' /\ Queued' = Queued
    BY <1>1, <2>1, <2>2, <2>3, <2>4, Zenon
  <2>6. QED
    BY <1>1, <2>3, <2>5, Zenon
<1>4. QED
  BY <1>2, <1>3, Zenon DEF RunPop

\* Steps that leave the heap alone keep it consistent, as time passes.
LEMMA HeapStill ==
  HeapInv /\ UNCHANGED heapvars /\ now' \in Nat /\ wake' \in BOOLEAN => HeapInv'
BY Zenon DEF HeapInv, HeapTypeOK, OneEntryEach, Queued, heapvars

-----------------------------------------------------------------------------
(* Run's flags and the pool. *)

\* Everything of Run except the hand-over leaves the pool alone.
LEMMA RunKeepsPool == PoolInv /\ HeapTypeOK /\ Run => PoolInv'
<1> SUFFICES ASSUME PoolInv, HeapTypeOK, Run PROVE PoolInv'
  BY Zenon
<1> USE DEF PoolInv, RunTypeOK, RunFlags
<1>1. CASE RunEnter
  BY <1>1, Zenon DEF RunEnter, poolvars, PoolTypeOK
<1>2. CASE RunLeaves
  BY <1>2, Zenon DEF RunLeaves, Leave, poolvars, PoolTypeOK
<1>3. CASE RunPeek
  <2>1. peeked' \in Nat
    BY <1>3, Zenon DEF RunPeek, Goto, HeapTypeOK, Heads, Queued
  <2>2. pc' \in {"empty", "timer", "token"} /\ pc = "top"
    BY <1>3, Zenon DEF RunPeek, Goto
  <2>3. UNCHANGED <<stopCh, started, runDone, popped, poolvars, closing>>
    BY <1>3, Zenon DEF RunPeek, Goto
  <2>4. QED
    BY <2>1, <2>2, <2>3, Zenon DEF poolvars, PoolTypeOK
<1>4. CASE RunWoken
  BY <1>4, Zenon DEF RunWoken, Leave, poolvars, PoolTypeOK
<1>5. CASE RunTimer
  BY <1>5, Zenon DEF RunTimer, Goto, poolvars, PoolTypeOK
<1>6. CASE RunToken
  BY <1>6, Zenon DEF RunToken, Leave, poolvars, PoolTypeOK
<1>7. CASE RunPop
  <2>1. CASE Queued = {} /\ Goto("top")
    BY <1>7, <2>1, Zenon DEF RunPop, Goto, poolvars, PoolTypeOK
  <2>2. ASSUME NEW d \in Heads, IF firer[d] = None THEN Drop(d) ELSE Requeue(d)
        PROVE  PoolInv'
    <3>1. CASE firer[d] = None
      BY <1>7, <2>2, <3>1, Zenon DEF RunPop, Drop, Goto, poolvars, PoolTypeOK
    <3>2. CASE firer[d] # None
      <4>1. firer[d] \in Exporters
        BY <3>2, Zenon DEF HeapTypeOK, Heads, Queued
      <4>2. popped' = firer[d] /\ pc' = "pick" /\ UNCHANGED <<started, runDone, peeked>>
        BY Zenon, <2>2, <3>2 DEF Requeue
      <4>3. QED
        BY <1>7, <3>2, <4>1, <4>2, Zenon DEF RunPop, poolvars, PoolTypeOK
    <3>3. QED
      BY <3>1, <3>2, Zenon
  <2>3. QED
    BY <1>7, <2>1, <2>2, Zenon DEF RunPop
<1>8. CASE RunPick
  <2>1. CASE Goto("send")
    BY <1>8, <2>1, Zenon DEF RunPick, Goto, poolvars, PoolTypeOK
  <2>2. CASE Leave("top")
    BY <1>8, <2>2, Zenon DEF RunPick, Leave, poolvars, PoolTypeOK
  <2>3. QED
    BY <1>8, <2>1, <2>2, Zenon DEF RunPick
<1>9. CASE RunSend
  <2>1. popped \in Exporters
    BY <1>9, Zenon DEF RunSend
  <2>2. jobs' \in Seq(Exporters) /\ Len(jobs') = Len(jobs) + 1
    BY <1>9, <2>1 DEF RunSend, PoolTypeOK
  <2>3. Len(jobs') <= QueueCap
    BY <1>9, <2>2, QueueAssumption DEF RunSend, PoolTypeOK
  <2>4. PoolTypeOK'
    BY <1>9, <2>2, <2>3, Zenon DEF RunSend, PoolTypeOK
  <2>5. QED
    BY <1>9, <2>4, Zenon DEF RunSend, Leave
<1>10. CASE RunDone
  BY <1>10, Zenon DEF RunDone, poolvars, PoolTypeOK
<1>11. QED
  BY <1>1, <1>2, <1>3, <1>4, <1>5, <1>6, <1>7, <1>8, <1>9, <1>10, Zenon DEF Run

\* The workers only take jobs out.
LEMMA EmitKeepsPool ==
  ASSUME PoolInv, NEW w \in Workers, Emit(w)
  PROVE  PoolInv'
<1> USE DEF PoolInv, RunTypeOK, RunFlags
<1>1. CASE EmitTake(w)
  <2>1. jobs # <<>> /\ Head(jobs) \in Exporters /\ Tail(jobs) \in Seq(Exporters)
          /\ Len(Tail(jobs)) <= QueueCap
    BY <1>1, QueueAssumption DEF EmitTake, PoolTypeOK
  <2>2. PoolTypeOK'
    BY <1>1, <2>1, Zenon DEF EmitTake, PoolTypeOK
  <2>3. pc \notin {"off", "done"}
    BY <2>1, Zenon
  <2>4. QED
    BY <1>1, <2>2, <2>3, Zenon DEF EmitTake, runvars
<1>2. CASE EmitDone(w)
  <2>1. busy[w] \in Exporters
    BY <1>2, Zenon DEF EmitDone, PoolTypeOK
  <2>2. PoolTypeOK'
    BY <1>2, <2>1 DEF EmitDone, PoolTypeOK
  <2>3. QED
    BY <1>2, <2>2, Zenon DEF EmitDone, runvars
<1>3. QED
  BY <1>1, <1>2, Zenon DEF Emit

\* Callers of Register, Deregister and Stop do not touch Run or the pool.
LEMMA PoolStill ==
  PoolInv /\ UNCHANGED <<runvars, poolvars>> /\ stopCh' \in BOOLEAN /\ closing' \subseteq Exporters
    => PoolInv'
BY Zenon DEF PoolInv, RunTypeOK, PoolTypeOK, RunFlags, runvars, poolvars

-----------------------------------------------------------------------------
(* The scheduler on its own. *)

\* Every step of Run keeps the scheduler's invariant.
LEMMA RunKeepsSched == SchedInv /\ Run => SchedInv'
<1> SUFFICES ASSUME SchedInv, Run PROVE SchedInv'
  BY Zenon
<1>1. HeapInv'
  <2>1. CASE RunPop
    BY <2>1, PopKeeps, Zenon DEF SchedInv
  <2>2. CASE ~RunPop
    <3>1. UNCHANGED heapvars /\ now' = now /\ wake' \in {wake, FALSE}
      BY <2>2, Zenon DEF Run, RunEnter, RunLeaves, RunPeek, RunWoken, RunTimer, RunToken, RunPick,
                  RunSend, RunDone
    <3>2. QED
      BY <3>1, HeapStill, Zenon DEF SchedInv, HeapInv, HeapTypeOK
  <2>3. QED
    BY <2>1, <2>2, Zenon
<1>2. PoolInv'
  BY RunKeepsPool, Zenon DEF SchedInv, HeapInv
<1>3. QED
  BY <1>1, <1>2, Zenon DEF SchedInv

\* So does the passing of time,
LEMMA TickKeepsSched == SchedInv /\ ClockTick => SchedInv'
<1> SUFFICES ASSUME SchedInv, ClockTick PROVE SchedInv'
  BY Zenon
<1>1. now' \in Nat
  BY DEF SchedInv, HeapInv, HeapTypeOK, ClockTick
<1>2. UNCHANGED <<heapvars, wake, stopCh, runvars, poolvars, closing>>
  BY Zenon DEF ClockTick
<1>3. HeapInv'
  BY <1>1, <1>2, HeapStill, Zenon DEF SchedInv, HeapInv, HeapTypeOK
<1>4. PoolInv'
  BY <1>2, PoolStill, Zenon DEF SchedInv, PoolInv, RunTypeOK, PoolTypeOK
<1>5. QED
  BY <1>3, <1>4, Zenon DEF SchedInv

\* every step of a worker,
LEMMA EmitKeepsSched ==
  ASSUME SchedInv, NEW w \in Workers, Emit(w)
  PROVE  SchedInv'
<1>1. UNCHANGED <<now, heapvars, wake>>
  BY Zenon DEF Emit, EmitTake, EmitDone
<1>2. HeapInv'
  BY <1>1, HeapStill, Zenon DEF SchedInv, HeapInv, HeapTypeOK
<1>3. QED
  BY <1>2, EmitKeepsPool, Zenon DEF SchedInv

\* A caller that registers or deregisters, closes an exporter or stops.
LEMMA CallerKeepsSched ==
  ASSUME SchedInv, now' = now, UNCHANGED <<runvars, poolvars>>,
         stopCh' \in BOOLEAN, closing' \subseteq Exporters,
         \/ UNCHANGED <<heapvars, wake>>
         \/ \E d \in Devices : Deregister(d)
         \/ \E d \in Devices, e \in Exporters : Register(d, e)
  PROVE  SchedInv'
<1>1. PoolInv'
  BY PoolStill, Zenon DEF SchedInv
<1>2. CASE UNCHANGED <<heapvars, wake>>
  <2>1. HeapInv'
    BY <1>2, HeapStill, Zenon DEF SchedInv, HeapInv, HeapTypeOK
  <2>2. QED
    BY <1>1, <2>1, Zenon DEF SchedInv
<1>3. ASSUME NEW d \in Devices, Deregister(d) PROVE SchedInv'
  BY <1>1, <1>3, DeregisterKeeps, Zenon DEF SchedInv
<1>4. ASSUME NEW d \in Devices, NEW e \in Exporters, Register(d, e) PROVE SchedInv'
  BY <1>1, <1>4, RegisterKeeps, Zenon DEF SchedInv
<1>5. QED
  BY <1>2, <1>3, <1>4, Zenon

\* and a step that leaves the scheduler alone.
LEMMA SchedStutters == SchedInv /\ UNCHANGED schedvars => SchedInv'
<1> SUFFICES ASSUME SchedInv, UNCHANGED schedvars PROVE SchedInv'
  BY Zenon
<1>1. /\ now' = now /\ UNCHANGED <<runvars, poolvars>> /\ UNCHANGED <<heapvars, wake>>
      /\ stopCh' = stopCh /\ closing' = closing
  BY Zenon DEF schedvars
<1>2. stopCh \in BOOLEAN /\ closing \subseteq Exporters
  BY Zenon DEF SchedInv, PoolInv, RunTypeOK, PoolTypeOK
<1>3. QED
  BY <1>1, <1>2, CallerKeepsSched, Zenon

\* The scheduler's invariant is inductive.
LEMMA SchedNextKeeps == SchedInv /\ [SchedNext]_schedvars => SchedInv'
<1> SUFFICES ASSUME SchedInv, [SchedNext]_schedvars PROVE SchedInv'
  BY Zenon
<1>1. CASE Run
  BY <1>1, RunKeepsSched, Zenon
<1>2. CASE ClockTick
  BY <1>2, TickKeepsSched, Zenon
<1>3. ASSUME NEW w \in Workers, Emit(w) PROVE SchedInv'
  BY <1>3, EmitKeepsSched, Zenon
<1>4. CASE Environment
  <2>1. stopCh' \in BOOLEAN /\ closing' \subseteq Exporters
    BY <1>4, Zenon DEF Environment, SchedInv, PoolInv, RunTypeOK, PoolTypeOK
  <2>2. now' = now /\ UNCHANGED <<runvars, poolvars>>
    BY <1>4, Zenon DEF Environment
  <2>3. \/ UNCHANGED <<heapvars, wake>>
        \/ \E d \in Devices : Deregister(d)
        \/ \E d \in Devices, e \in Exporters : Register(d, e)
    BY <1>4, Zenon DEF Environment
  <2>4. QED
    BY <2>1, <2>2, <2>3, CallerKeepsSched, Zenon
<1>5. CASE UNCHANGED schedvars
  BY <1>5, SchedStutters, Zenon
<1>6. QED
  BY <1>1, <1>2, <1>3, <1>4, <1>5, Zenon DEF SchedNext

\* It implies the properties.
LEMMA SchedInvImplies == SchedInv => SchedTypeOK /\ OneEntryEach /\ QuietWhenDone
BY Zenon DEF SchedInv, HeapInv, PoolInv, RunFlags, QuietWhenDone, SchedTypeOK

\* A device owns one heap entry and one exporter or none of either, however
\* Register, Deregister and Run's pop interleave.
THEOREM SchedulerConsistent == SchedSpec => []OneEntryEach
<1>1. SchedInit => SchedInv
  BY SchedInitInv, Zenon
<1>2. SchedInv /\ [SchedNext]_schedvars => SchedInv'
  BY SchedNextKeeps, Zenon
<1>3. SchedInv => OneEntryEach
  BY SchedInvImplies, Zenon
<1>4. QED
  BY <1>1, <1>2, <1>3, PTL DEF SchedSpec

\* SchedulerKept for any devices, workers, queue and clock: the types, the agreement of
\* the three tables and the quiet after runDone (trap_scheduler.go).
THEOREM SchedulerAlwaysKept == SchedSpec => []SchedulerKept
<1>1. SchedInit => SchedInv
  BY SchedInitInv, Zenon
<1>2. SchedInv /\ [SchedNext]_schedvars => SchedInv'
  BY SchedNextKeeps, Zenon
<1>3. SchedInv => SchedulerKept
  BY SchedInvImplies, Zenon DEF SchedulerKept
<1>4. QED
  BY <1>1, <1>2, <1>3, PTL DEF SchedSpec

\* When runDone is closed no fire is queued or in flight and none will be.
THEOREM SchedulerQuiet == SchedSpec => []QuietWhenDone
<1>1. SchedInit => SchedInv
  BY SchedInitInv, Zenon
<1>2. SchedInv /\ [SchedNext]_schedvars => SchedInv'
  BY SchedNextKeeps, Zenon
<1>3. SchedInv => QuietWhenDone
  BY SchedInvImplies, Zenon
<1>4. QED
  BY <1>1, <1>2, <1>3, PTL DEF SchedSpec

-----------------------------------------------------------------------------
(* The scheduler among the devices. *)

Early == {"idle", "snapped", "signalled"}
Over == {"none", "gone", "wiped"}

\* StopTrapExport has closed stopCh before it waits, and holds an exporter
\* while it closes one.
ExitInv ==
  /\ exit \in Early \cup {"drained", "taken", "shut", "done"}
  /\ exit \notin {"idle", "snapped"} => stopCh
  /\ exit \in {"taken", "shut"} => exitOne \in Exporters
  /\ QuietAfterStop

\* A device keeps its exporter until it is stopped or StopTrapExport takes
\* it, and the scheduler files an exporter under its own address.  A device
\* of the maps lives, or DeleteDevice is stopping it.
OwnerInv ==
  /\ life \in [Exporters -> Lives] /\ mapped \in [Devices -> Nat]
  /\ exit \in Early => \A e \in Exporters : life[e] \notin Over => e \in attached
  /\ \A d \in Devices : firer[d] # None => firer[d] \in Exporters /\ firer[d][1] = d
  /\ \A e \in Live : life[e] = "live" \/ (e = deleter /\ life[e] \in InStop)
  /\ NoGhost

FleetInv == SchedInv /\ ExitInv /\ OwnerInv

\* A fleet without devices.
LEMMA FleetInitInv == FleetInit => FleetInv
<1> SUFFICES ASSUME FleetInit PROVE FleetInv
  BY Zenon
<1>1. SchedInv
  BY SchedInitInv, Zenon DEF FleetInit
<1>2. ExitInv
  BY Zenon DEF FleetInit, ExitInv, QuietAfterStop, Early
<1>3. OwnerInv
  BY ExportersArePairs, Zenon DEF FleetInit, SchedInit, OwnerInv, NoGhost, Early, Over, Lives, Live
<1>4. QED
  BY <1>1, <1>2, <1>3, Zenon DEF FleetInv

\* The scheduler's own steps.
LEMMA SchedStepKeeps ==
  ASSUME FleetInv, SchedStep, UNCHANGED fleetvars
  PROVE  FleetInv'
<1> USE DEF FleetInv
<1>1. SchedInv'
  <2>1. CASE Schedule
    BY <2>1, RunKeepsSched, Zenon DEF Schedule
  <2>2. CASE ClockTick
    BY <2>2, TickKeepsSched, Zenon
  <2>3. ASSUME NEW w \in Workers, Emit(w) PROVE SchedInv'
    BY <2>3, EmitKeepsSched, Zenon
  <2>4. QED
    BY <2>1, <2>2, <2>3, Zenon DEF SchedStep
<1>2. UNCHANGED <<exit, exitOne, life, attached, mapped, deleter>>
  BY Zenon DEF fleetvars, exitvars, devvars, delvars
<1>3. stopCh' = stopCh /\ firer' = firer
  <2>1. CASE Schedule
    BY <2>1, Zenon DEF Schedule, Run, RunEnter, RunLeaves, RunPeek, RunWoken, RunTimer, RunToken, RunPop,
                RunPick, RunSend, RunDone, heapvars
  <2>2. CASE ClockTick
    BY <2>2, Zenon DEF ClockTick, heapvars
  <2>3. ASSUME NEW w \in Workers, Emit(w) PROVE stopCh' = stopCh /\ firer' = firer
    BY <2>3, Zenon DEF Emit, EmitTake, EmitDone, heapvars
  <2>4. QED
    BY ZenonT(40), <2>1, <2>2, <2>3 DEF SchedStep
<1>4. QuietAfterStop'
  <2>1. SUFFICES ASSUME exit \in {"drained", "taken", "shut", "done"}
                 PROVE  /\ jobs' = <<>> /\ \A w \in Workers : busy'[w] = None
                        /\ pc' \in {"off", "top", "drain", "done"}
    BY <1>2, Zenon DEF QuietAfterStop
  <2>2. /\ stopCh /\ jobs = <<>> /\ \A w \in Workers : busy[w] = None
        /\ pc \in {"off", "top", "drain", "done"}
    BY <2>1, Zenon DEF ExitInv, QuietAfterStop
  <2>3. CASE Schedule
    <3>1. RunEnter \/ RunLeaves \/ RunDone
      BY <2>2, <2>3, Zenon DEF Schedule, Run, RunEnter, RunLeaves, RunPeek, RunWoken, RunTimer,
         RunToken,
                        RunPop, RunPick, RunSend, RunDone
    <3>2. QED
      BY <2>2, <3>1, Zenon DEF RunEnter, RunLeaves, RunDone, Leave, poolvars
  <2>4. CASE ClockTick
    BY <2>2, <2>4, Zenon DEF ClockTick, runvars, poolvars
  <2>5. ASSUME NEW w \in Workers, Emit(w) PROVE FALSE
    BY <2>2, <2>5, Zenon DEF Emit, EmitTake, EmitDone
  <2>6. QED
    BY <2>3, <2>4, <2>5, Zenon DEF SchedStep
<1>5. ExitInv'
  BY <1>2, <1>3, <1>4, Zenon DEF ExitInv
<1>6. OwnerInv'
  BY <1>2, <1>3, Zenon DEF OwnerInv, NoGhost, Live
<1>7. QED
  BY <1>1, <1>5, <1>6, Zenon

\* Steps of the devices and of StopTrapExport that leave Run and the pool
\* alone keep the quiet.
LEMMA QuietStays ==
  ExitInv /\ UNCHANGED <<runvars, poolvars>> /\ (exit' = exit \/ exit' \in Early) => QuietAfterStop'
BY Zenon DEF ExitInv, QuietAfterStop, Early, runvars, poolvars

\* Creating a device files its exporter under its own address.
LEMMA CreationKeeps == FleetInv /\ Creation => FleetInv'
<1> SUFFICES ASSUME FleetInv, NEW e \in Exporters,
                    DeviceAttach(e) \/ DeviceStart(e) \/ DevicePublish(e)
             PROVE  FleetInv'
  BY Zenon DEF Creation
<1> USE DEF FleetInv
<1>1. CASE DeviceAttach(e)
  <2>1. e[1] \in Devices /\ e # None
    BY Zenon, ExportersArePairs
  <2>2. /\ now' = now /\ UNCHANGED <<runvars, poolvars>>
        /\ stopCh' = stopCh /\ closing' = closing /\ Register(e[1], e)
    BY <1>1, Zenon DEF DeviceAttach
  <2>3. stopCh \in BOOLEAN /\ closing \subseteq Exporters
    BY Zenon DEF SchedInv, PoolInv, RunTypeOK, PoolTypeOK
  <2>4. SchedInv'
    BY ZenonT(40), <2>1, <2>2, <2>3, CallerKeepsSched
  <2>5. UNCHANGED exitvars
    BY <1>1, Zenon DEF DeviceAttach
  <2>6. ExitInv'
    BY ZenonT(40), <2>2, <2>5, QuietStays DEF ExitInv, exitvars
  <2>7. /\ firer' = [firer EXCEPT ![e[1]] = e] /\ life' = [life EXCEPT ![e] = "registered"]
        /\ attached' = attached \cup {e}
    BY <1>1, Zenon DEF DeviceAttach, Register, Becomes
  <2>8. firer \in [Devices -> Exporters \cup {None}]
    BY Zenon DEF SchedInv, HeapInv, HeapTypeOK
  <2>9. NoGhost'
    BY <2>1, <2>2, <2>7, <2>8, Zenon DEF OwnerInv, NoGhost
  <2>10. (life \in [Exporters -> Lives] /\ mapped \in [Devices -> Nat])'
    BY <1>1, <2>7, Zenon DEF DeviceAttach, OwnerInv, Lives
  <2>11. (\A d \in Devices : firer[d] # None => firer[d] \in Exporters /\ firer[d][1] = d)'
    BY <2>1, <2>7, <2>8, Zenon DEF OwnerInv
  <2>12. (exit \in Early => \A f \in Exporters : life[f] \notin Over => f \in attached)'
    BY <2>5, <2>7, Zenon DEF OwnerInv, exitvars
  <2>13. (\A f \in Live : life[f] = "live" \/ (f = deleter /\ life[f] \in InStop))'
    <3>1. life[e] = "none" /\ mapped' = mapped /\ deleter' = deleter
      BY <1>1, Zenon DEF DeviceAttach, delvars
    <3>2. e \notin Live
      BY Zenon, <3>1 DEF OwnerInv, InStop
    <3>3. QED
      BY ZenonT(40), <2>7, <3>1, <3>2 DEF OwnerInv, Live
  <2>14. QED
    BY <2>4, <2>6, <2>9, <2>10, <2>11, <2>12, <2>13, Zenon DEF OwnerInv
<1>2. CASE DeviceStart(e) \/ DevicePublish(e)
  <2>1. UNCHANGED schedvars /\ UNCHANGED exitvars /\ attached' = attached
    BY <1>2, Zenon DEF DeviceStart, DevicePublish
  <2>2. PICK l \in Lives \ Over : life' = [life EXCEPT ![e] = l]
    BY Zenon, <1>2 DEF DeviceStart, DevicePublish, Becomes, Lives, Over
  <2>3. life[e] \notin Over
    BY <1>2, Zenon DEF DeviceStart, DevicePublish, Over
  <2>4. SchedInv'
    BY <2>1, SchedStutters, Zenon
  <2>5. ExitInv'
    BY <2>1, QuietStays, Zenon DEF ExitInv, exitvars, schedvars
  <2>6. (\A f \in Live : life[f] = "live" \/ (f = deleter /\ life[f] \in InStop))'
    <3>1. e \notin Live
      BY Zenon, <1>2 DEF DeviceStart, DevicePublish, OwnerInv, InStop
    <3>2. CASE DeviceStart(e)
      BY Zenon, <3>1, <3>2 DEF DeviceStart, Becomes, OwnerInv, Live, delvars
    <3>3. CASE DevicePublish(e)
      <4>1. \A f \in Exporters : f # e /\ mapped'[f[1]] = f[2] => f \in Live
        BY <3>3, ExportersArePairs, Zenon DEF DevicePublish, OwnerInv, Live
      <4>2. QED
        BY <3>3, <4>1, Zenon DEF DevicePublish, Becomes, OwnerInv, Live, delvars
    <3>4. QED
      BY Zenon, <1>2, <3>2, <3>3
  <2>7. (life \in [Exporters -> Lives] /\ mapped \in [Devices -> Nat] /\ NoGhost)'
    <3>1. (life \in [Exporters -> Lives] /\ NoGhost)'
      BY <2>1, <2>2, Zenon DEF OwnerInv, NoGhost, schedvars, heapvars, Over
    <3>2. e[1] \in Devices /\ e[2] \in Nat
      BY ZenonT(40), ExportersArePairs
    <3>3. mapped' \in [Devices -> Nat]
      BY <1>2, <3>2, Zenon DEF DeviceStart, DevicePublish, OwnerInv
    <3>4. QED
      BY ZenonT(40), <3>1, <3>3
  <2>8. (exit \in Early => \A f \in Exporters : life[f] \notin Over => f \in attached)'
    BY ZenonT(40), <2>1, <2>2, <2>3 DEF OwnerInv, exitvars
  <2>9. QED
    BY ZenonT(40), <2>1, <2>4, <2>5, <2>6, <2>7, <2>8 DEF OwnerInv, schedvars, heapvars
<1>3. QED
  BY <1>1, <1>2, Zenon

\* A step of a device in which the scheduler, StopTrapExport and the
\* exporters stay as they are and the device e goes on being stopped.
LEMMA LifeStepKeeps ==
  ASSUME FleetInv, UNCHANGED schedvars, UNCHANGED exitvars, attached' = attached,
         NEW e \in Exporters, NEW l \in InStop,
         life[e] \notin Over, life' = [life EXCEPT ![e] = l],
         mapped' = mapped,
         \/ deleter' = deleter /\ life[e] # "live"
         \/ deleter = None /\ deleter' = e
  PROVE  FleetInv'
<1> USE DEF FleetInv
<1>1. SchedInv'
  BY SchedStutters, Zenon
<1>2. ExitInv'
  BY QuietStays, Zenon DEF ExitInv, exitvars, schedvars
<1>3. l \in Lives \ Over
  BY Zenon DEF InStop, Lives, Over
<1>4. (life \in [Exporters -> Lives] /\ NoGhost)'
  BY ZenonT(40), <1>3 DEF OwnerInv, NoGhost, schedvars, heapvars, Over
<1>5. (exit \in Early => \A f \in Exporters : life[f] \notin Over => f \in attached)'
  BY <1>3, Zenon DEF OwnerInv, exitvars
<1>6. (\A f \in Live : life[f] = "live" \/ (f = deleter /\ life[f] \in InStop))'
  BY ExportersArePairs DEF OwnerInv, Live
<1>7. QED
  BY <1>1, <1>2, <1>4, <1>5, <1>6, Zenon DEF OwnerInv, schedvars, heapvars

\* Both deletions begin with devices of the maps.
LEMMA DeletionKeeps == FleetInv /\ Deletion => FleetInv'
<1> SUFFICES ASSUME FleetInv, Deletion PROVE FleetInv'
  BY ZenonT(40)
<1> USE DEF FleetInv
<1>1. CASE DeleteAllDevices
  <2>1. UNCHANGED <<schedvars, exitvars, attached, deleter>>
    BY <1>1, Zenon DEF DeleteAllDevices, delvars
  <2>2. SchedInv'
    BY <2>1, SchedStutters, Zenon
  <2>3. ExitInv'
    BY <2>1, QuietStays, Zenon DEF ExitInv, exitvars, schedvars
  <2>4. life' = [e \in Exporters |-> IF e \in Live THEN "doomed" ELSE life[e]]
    BY <1>1, Zenon DEF DeleteAllDevices
  <2>5. \A e \in Live : life[e] \notin Over
    BY Zenon DEF OwnerInv, InStop, Over
  <2>6. (life \in [Exporters -> Lives] /\ NoGhost)'
    BY <2>1, <2>4, Zenon DEF OwnerInv, NoGhost, schedvars, heapvars, Lives
  <2>7. (exit \in Early => \A e \in Exporters : life[e] \notin Over => e \in attached)'
    BY <2>1, <2>4, <2>5, Zenon DEF OwnerInv, exitvars, Live
  <2>8. mapped' \in [Devices -> Nat] /\ Live' = {}
    BY <1>1, ExportersArePairs, Zenon DEF DeleteAllDevices, Live
  <2>9. QED
    BY <2>1, <2>2, <2>3, <2>6, <2>7, <2>8, Zenon DEF OwnerInv, schedvars, heapvars
<1>2. ASSUME NEW e \in Exporters, DeleteDevice(e) PROVE FleetInv'
  <2>1. life[e] \notin Over
    BY <1>2, Zenon DEF DeleteDevice, OwnerInv, InStop, Over
  <2>2. /\ UNCHANGED schedvars /\ UNCHANGED exitvars /\ attached' = attached /\ mapped' = mapped
        /\ life' = [life EXCEPT ![e] = "stopping"] /\ deleter = None /\ deleter' = e
    BY <1>2, Zenon DEF DeleteDevice, Becomes, SmFree
  <2>3. QED
    BY <2>1, <2>2, LifeStepKeeps, Zenon DEF InStop
<1>3. ASSUME NEW e \in Exporters, WipeNext(e) PROVE FleetInv'
  <2>1. life[e] \notin Over /\ life[e] # "live"
    BY <1>3, Zenon DEF WipeNext, Over
  <2>2. /\ UNCHANGED schedvars /\ UNCHANGED exitvars /\ attached' = attached /\ mapped' = mapped
        /\ life' = [life EXCEPT ![e] = "stopping"] /\ deleter' = deleter
    BY Zenon, <1>3 DEF WipeNext, Becomes
  <2>3. QED
    BY <2>1, <2>2, LifeStepKeeps, Zenon DEF InStop
<1>4. QED
  BY <1>1, <1>2, <1>3, Zenon DEF Deletion

\* The last step of a teardown.
LEMMA ReturnKeeps ==
  ASSUME FleetInv, SchedInv', UNCHANGED <<runvars, poolvars, stopCh>>,
         NEW e \in Exporters, life[e] \in InStop, StopReturns(e),
         stopCh \/ (\A d \in Devices : firer'[d] # e),
         \A d \in Devices : firer'[d] # None => firer'[d] = firer[d]
  PROVE  FleetInv'
<1> USE DEF FleetInv
<1>1. UNCHANGED exitvars
  BY Zenon DEF StopReturns
<1>2. ExitInv'
  BY <1>1, QuietStays, Zenon DEF ExitInv, exitvars
<1>3. PICK l \in {"wiped", "gone"} : life' = [life EXCEPT ![e] = l]
  BY Zenon DEF StopReturns, Becomes
<1>4. attached' = attached \ {e}
  BY Zenon DEF StopReturns
<1>5. life' \in [Exporters -> Lives]
  BY Zenon, <1>3 DEF OwnerInv, Lives
<1>6. NoGhost'
  BY Zenon, <1>3 DEF OwnerInv, NoGhost
<1>7. (exit \in Early => \A f \in Exporters : life[f] \notin Over => f \in attached)'
  BY <1>1, <1>3, <1>4, Zenon DEF OwnerInv, exitvars, Over
<1>8. mapped' \in [Devices -> Nat]
  BY Zenon DEF StopReturns, OwnerInv
<1>9. (\A f \in Live : life[f] = "live" \/ (f = deleter /\ life[f] \in InStop))'
  <2>1. e \notin Live'
    <3>1. CASE e = deleter
      BY Zenon, <3>1, ExportersArePairs DEF StopReturns, OwnerInv, Live
    <3>2. CASE e # deleter
      BY ZenonT(40), <3>2 DEF StopReturns, OwnerInv, Live, InStop
    <3>3. QED
      BY <3>1, <3>2, Zenon
  <2>2. ASSUME NEW f \in Exporters, f # e, f \in Live'
        PROVE  life[f] = "live" \/ (f = deleter' /\ life[f] \in InStop)
    <3>1. f \in Live
      BY ZenonT(40), <2>2, ExportersArePairs DEF StopReturns, OwnerInv, Live
    <3>2. QED
      BY <2>2, <3>1, Zenon DEF StopReturns, OwnerInv
  <2>3. QED
    BY Zenon, <1>3, <2>1, <2>2 DEF Live, OwnerInv
<1>10. (\A d \in Devices : firer[d] # None => firer[d] \in Exporters /\ firer[d][1] = d)'
  BY Zenon DEF OwnerInv
<1>11. QED
  BY Zenon, <1>2, <1>5, <1>6, <1>7, <1>8, <1>9, <1>10 DEF OwnerInv

\* Every step of device.Stop.
LEMMA TeardownKeeps ==
  ASSUME FleetInv, NEW e \in Exporters, Teardown(e)
  PROVE  FleetInv'
<1> USE DEF FleetInv
<1>1. CASE StopListeners(e) \/ StopPersists(e)
  <2>1. life[e] \in {"stopping", "deaf"}
    BY <1>1, Zenon DEF StopListeners, StopPersists
  <2>2. PICK l \in {"deaf", "booked"} : life' = [life EXCEPT ![e] = l]
    BY <1>1, Zenon DEF StopListeners, StopPersists, Becomes
  <2>3. /\ UNCHANGED schedvars /\ UNCHANGED exitvars
        /\ attached' = attached /\ mapped' = mapped /\ deleter' = deleter
    BY <1>1, Zenon DEF StopListeners, StopPersists, delvars
  <2>4. QED
    BY <2>1, <2>2, <2>3, LifeStepKeeps, Zenon DEF InStop, Over
<1>2. CASE StopCloses(e)
  <2>1. /\ now' = now /\ UNCHANGED <<runvars, poolvars>> /\ UNCHANGED <<heapvars, wake>>
        /\ stopCh' = stopCh /\ closing' = closing \cup {e} /\ UNCHANGED exitvars
        /\ life[e] \in {"booked", "refused"}
        /\ \E l \in {"closed", "unmade"} : life' = [life EXCEPT ![e] = l]
        /\ attached' = attached /\ mapped' = mapped /\ deleter' = deleter
    BY Zenon, <1>2 DEF StopCloses, Becomes, delvars
  <2>2. stopCh' \in BOOLEAN /\ closing' \subseteq Exporters
    BY <2>1, Zenon DEF SchedInv, PoolInv, RunTypeOK, PoolTypeOK
  <2>3. SchedInv'
    BY <2>1, <2>2, CallerKeepsSched, Zenon
  <2>4. ExitInv'
    BY ZenonT(40), <2>1, QuietStays DEF ExitInv, exitvars
  <2>5. (life \in [Exporters -> Lives] /\ NoGhost)'
    BY <2>1 DEF OwnerInv, NoGhost, heapvars, Lives
  <2>6. (exit \in Early => \A f \in Exporters : life[f] \notin Over => f \in attached)'
    BY ZenonT(40), <2>1 DEF OwnerInv, exitvars, Over
  <2>7. (\A f \in Live : life[f] = "live" \/ (f = deleter /\ life[f] \in InStop))'
    BY <2>1 DEF OwnerInv, Live, InStop
  <2>8. QED
    BY <2>1, <2>3, <2>4, <2>5, <2>6, <2>7, Zenon DEF OwnerInv, heapvars
<1>3. CASE StopDeregisters(e)
  <2>1. e[1] \in Devices
    BY ZenonT(40), ExportersArePairs
  <2>2. /\ now' = now /\ UNCHANGED <<runvars, poolvars>> /\ stopCh' = stopCh /\ closing' = closing
        /\ StopReturns(e) /\ life[e] \in InStop
        /\ IF exit = "done" THEN UNCHANGED <<heapvars, wake>> ELSE Deregister(e[1])
    BY <1>3, Zenon DEF StopDeregisters, InStop
  <2>3. stopCh' \in BOOLEAN /\ closing' \subseteq Exporters
    BY <2>2, Zenon DEF SchedInv, PoolInv, RunTypeOK, PoolTypeOK
  <2>4. SchedInv'
    BY <2>1, <2>2, <2>3, CallerKeepsSched, Zenon
  <2>5. CASE exit = "done"
    <3>1. stopCh /\ firer' = firer
      BY Zenon, <2>2, <2>5 DEF ExitInv, heapvars
    <3>2. QED
      BY Zenon, <2>2, <2>4, <3>1, ReturnKeeps
  <2>6. CASE exit # "done"
    <3>1. firer \in [Devices -> Exporters \cup {None}] /\ firer' = [firer EXCEPT ![e[1]] = None]
      BY <2>2, <2>6, Zenon DEF Deregister, SchedInv, HeapInv, HeapTypeOK
    <3>2. \A d \in Devices : firer'[d] # e /\ (firer'[d] # None => firer'[d] = firer[d])
      BY <3>1, ExportersArePairs, Zenon DEF OwnerInv
    <3>3. QED
      BY ZenonT(40), <2>2, <2>4, <3>2, ReturnKeeps
  <2>7. QED
    BY <2>5, <2>6, Zenon
<1>4. CASE StopDetached(e)
  <2>1. UNCHANGED schedvars /\ StopReturns(e) /\ life[e] = "deaf" /\ e \notin attached
    BY ZenonT(40), <1>4 DEF StopDetached
  <2>2. stopCh
    BY <2>1, Zenon DEF OwnerInv, ExitInv, Early, Over
  <2>3. SchedInv'
    BY <2>1, SchedStutters, Zenon
  <2>4. /\ UNCHANGED <<runvars, poolvars, stopCh>> /\ life[e] \in InStop
        /\ \A d \in Devices : firer'[d] # None => firer'[d] = firer[d]
    BY <2>1, Zenon DEF schedvars, heapvars, InStop
  <2>5. QED
    BY <2>1, <2>2, <2>3, <2>4, ReturnKeeps, Zenon
<1>5. QED
  BY <1>1, <1>2, <1>3, <1>4, Zenon DEF Teardown

\* What the devices own is not touched by a step that changes no device.
LEMMA OwnersStay ==
  ASSUME OwnerInv, UNCHANGED <<life, mapped, deleter, heapvars>>,
         stopCh' = TRUE \/ stopCh' = stopCh,
         attached' = attached \/ exit' \notin Early,
         exit' \in Early => exit \in Early
  PROVE  OwnerInv'
<1>1. NoGhost'
  BY Zenon DEF OwnerInv, NoGhost, heapvars
<1>2. (exit \in Early => \A e \in Exporters : life[e] \notin Over => e \in attached)'
  BY Zenon DEF OwnerInv
<1>3. (\A e \in Live : life[e] = "live" \/ (e = deleter /\ life[e] \in InStop))'
  BY Zenon DEF OwnerInv, Live
<1>4. QED
  BY Zenon, <1>1, <1>2, <1>3 DEF OwnerInv, heapvars

\* Every step of StopTrapExport.
LEMMA ExitKeeps == FleetInv /\ Exit => FleetInv'
<1> SUFFICES ASSUME FleetInv, Exit PROVE FleetInv'
  BY Zenon
<1> USE DEF FleetInv
<1>1. CASE ExitSnapshot \/ ExitDone \/ ExitPersist
  <2>1. UNCHANGED schedvars /\ UNCHANGED devvars /\ UNCHANGED delvars
    BY <1>1, Zenon DEF ExitSnapshot, ExitDone, ExitPersist
  <2>2. SchedInv'
    BY <2>1, SchedStutters, Zenon
  <2>3. ExitInv'
    BY Zenon, <1>1, <2>1 DEF ExitSnapshot, ExitDone, ExitPersist, ExitInv, QuietAfterStop, Early,
                      schedvars, runvars, poolvars
  <2>4. OwnerInv'
    BY <1>1, <2>1, OwnersStay, Zenon DEF ExitSnapshot, ExitDone, ExitPersist, Early, devvars, delvars,
       schedvars
  <2>5. QED
    BY <2>2, <2>3, <2>4, Zenon
<1>2. CASE ExitSignal
  <2>1. /\ now' = now /\ UNCHANGED <<runvars, poolvars>> /\ UNCHANGED <<heapvars, wake>>
        /\ stopCh' = TRUE /\ closing' = closing /\ exit = "snapped" /\ exit' = "signalled"
        /\ UNCHANGED <<devvars, delvars, exitOne>>
    BY <1>2, Zenon DEF ExitSignal
  <2>2. closing' \subseteq Exporters
    BY <2>1, Zenon DEF SchedInv, PoolInv, PoolTypeOK
  <2>3. SchedInv'
    BY <2>1, <2>2, CallerKeepsSched, Zenon
  <2>4. ExitInv'
    BY <2>1, QuietStays, Zenon DEF ExitInv, Early
  <2>5. OwnerInv'
    BY <2>1, OwnersStay, Zenon DEF Early, devvars, delvars
  <2>6. QED
    BY <2>3, <2>4, <2>5, Zenon
\* Run has not been entered, or has closed runDone: either way nothing is in flight.
<1>3. CASE ExitDrained
  <2>1. /\ UNCHANGED <<schedvars, devvars, delvars, exitOne>>
        /\ exit = "signalled" /\ exit' = "drained" /\ (started => runDone)
    BY <1>3, Zenon DEF ExitDrained
  <2>2. SchedInv'
    BY <2>1, SchedStutters, Zenon
  <2>3. pc \in {"off", "done"}
    BY <2>1, Zenon DEF SchedInv, PoolInv, RunFlags
  <2>4. jobs = <<>> /\ \A w \in Workers : busy[w] = None
    BY <2>3, Zenon DEF SchedInv, PoolInv, RunFlags
  <2>5. ExitInv'
    BY <2>1, <2>3, <2>4, Zenon DEF ExitInv, QuietAfterStop, Early, schedvars, runvars, poolvars
  <2>6. OwnerInv'
    BY <2>1, OwnersStay, Zenon DEF Early, devvars, delvars, schedvars
  <2>7. QED
    BY <2>2, <2>5, <2>6, Zenon
<1>4. ASSUME NEW e \in Exporters, ExitTake(e) PROVE FleetInv'
  <2>1. /\ UNCHANGED <<schedvars, life, mapped, delvars>> /\ exit = "drained"
        /\ (exit' = "taken" /\ exitOne' = e) \/ (exit' = exit /\ exitOne' = exitOne)
    BY <1>4, Zenon DEF ExitTake
  <2>2. SchedInv'
    BY <2>1, SchedStutters, Zenon
  <2>3. ExitInv'
    BY <2>1, Zenon DEF ExitInv, QuietAfterStop, Early, schedvars, runvars, poolvars
  <2>4. OwnerInv'
    BY <2>1, OwnersStay, Zenon DEF Early, delvars, schedvars
  <2>5. QED
    BY <2>2, <2>3, <2>4, Zenon
<1>5. CASE ExitClose
  <2>1. /\ now' = now /\ UNCHANGED <<runvars, poolvars>> /\ UNCHANGED <<heapvars, wake>>
        /\ stopCh' = stopCh /\ closing' = closing \cup {exitOne} /\ exit = "taken" /\ exit' = "shut"
        /\ UNCHANGED <<devvars, delvars, exitOne>>
    BY <1>5, Zenon DEF ExitClose
  <2>2. stopCh' \in BOOLEAN /\ closing' \subseteq Exporters
    BY <2>1, Zenon DEF SchedInv, PoolInv, RunTypeOK, PoolTypeOK, ExitInv
  <2>3. SchedInv'
    BY <2>1, <2>2, CallerKeepsSched, Zenon
  <2>4. ExitInv'
    BY <2>1, Zenon DEF ExitInv, QuietAfterStop, Early, runvars, poolvars
  <2>5. OwnerInv'
    BY <2>1, OwnersStay, Zenon DEF Early, devvars, delvars
  <2>6. QED
    BY <2>3, <2>4, <2>5, Zenon
<1>6. QED
  BY <1>1, <1>2, <1>3, <1>4, <1>5, Zenon DEF Exit

\* Reading the status page, and stuttering, change nothing that matters here.
LEMMA ReadersKeep ==
  ASSUME FleetInv, Status \/ UNCHANGED vars
  PROVE  FleetInv'
<1> USE DEF FleetInv
<1>1. UNCHANGED <<schedvars, devvars, delvars, exitvars>>
  BY Zenon DEF Status, StatusLive, StatusFold, vars, fleetvars
<1>2. SchedInv'
  BY <1>1, SchedStutters, Zenon
<1>3. ExitInv'
  BY <1>1, QuietStays, Zenon DEF ExitInv, exitvars, schedvars
<1>4. OwnerInv'
  BY <1>1, OwnersStay, Zenon DEF devvars, delvars, exitvars, schedvars
<1>5. QED
  BY ZenonT(40), <1>2, <1>3, <1>4

\* The fleet's invariant holds in every behaviour.
LEMMA FleetStep == ASSUME FleetInv, [FleetNext]_vars PROVE FleetInv'
<1>1. CASE SchedStep /\ UNCHANGED fleetvars
  BY <1>1, SchedStepKeeps, Zenon
<1>2. CASE Creation
  BY <1>2, CreationKeeps, Zenon
<1>3. CASE Deletion
  BY <1>3, DeletionKeeps, Zenon
<1>4. ASSUME NEW e \in Exporters, Teardown(e) PROVE FleetInv'
  BY <1>4, TeardownKeeps, Zenon
<1>5. CASE Exit
  BY <1>5, ExitKeeps, Zenon
<1>6. CASE Status \/ Terminated \/ UNCHANGED vars
  BY <1>6, ReadersKeep, Zenon DEF Terminated
<1>7. QED
  BY <1>1, <1>2, <1>3, <1>4, <1>5, <1>6, Zenon DEF FleetNext

\* The books of the fleet, in every reachable state.
LEMMA FleetInvariant == FleetSpec => []FleetInv
<1>1. FleetInv /\ [FleetNext]_vars => FleetInv'
  BY FleetStep, Zenon
<1>2. QED
  BY <1>1, FleetInitInv, PTL DEF FleetSpec

\* StopTrapExport closes the exporters of a pool that is quiet and stays
\* quiet, whether or not Run had started when it was called.
THEOREM ExitFindsQuiet == FleetSpec => []QuietAfterStop
<1>1. FleetInv => QuietAfterStop
  BY Zenon DEF FleetInv, ExitInv
<1>2. QED
  BY <1>1, FleetInvariant, PTL

\* No exporter of a device that was torn down stays in the scheduler.
THEOREM NoGhostFires == FleetSpec => []NoGhost
<1>1. FleetInv => NoGhost
  BY Zenon DEF FleetInv, OwnerInv
<1>2. QED
  BY <1>1, FleetInvariant, PTL

\* Among the devices too, a device owns one heap entry and one exporter or
\* none of either.
THEOREM FleetConsistent == FleetSpec => []OneEntryEach
<1>1. FleetInv => OneEntryEach
  BY SchedInvImplies, Zenon DEF FleetInv
<1>2. QED
  BY <1>1, FleetInvariant, PTL
-----------------------------------------------------------------------------
(* The incarnations of an address, and the counts that are persisted.  A       *)
(* younger incarnation finds the older ones out of the maps and past their     *)
(* creation; a Stop runs on behalf of DeleteDevice, of DeleteAllDevices or of  *)
(* the creation that failed.                                                   *)

Stopping == {"stopping", "deaf", "booked", "closed"}
\* From its registration until a deletion picks it.
Standing == {"registered", "up", "live"}

\* Who stops a device.
StopperInv ==
  /\ deleter \in Exporters \cup {None} /\ wiper \in Exporters \cup {None}
  /\ deleter # None => deleter \in Live /\ life[deleter] \in Stopping
  /\ \A e \in Exporters : life[e] \in Stopping => e = deleter \/ e = wiper

\* Where the incarnations of an address are.
AgeInv ==
  /\ \A e \in Exporters : life[e] = "live" => mapped[e[1]] = e[2]
  /\ \A e \in Exporters : life[e] \in Creating => mapped[e[1]] = 0
  /\ \A e, f \in Exporters : f[1] = e[1] /\ f[2] < e[2] /\ life[e] # "none" =>
       life[f] \notin Creating \cup {"none", "live"}

\* Only the Stop of an older incarnation that DeleteAllDevices took out of the
\* maps can take a standing device out of the scheduler.
StandingInv ==
  \A e \in Exporters : life[e] \in Standing /\ e \in attached =>
    \/ firer[e[1]] = e
    \/ \E f \in Exporters : f[1] = e[1] /\ f[2] < e[2] /\ life[f] = "wiped"

\* No creation overlaps the shutdown; before Stop has drained the pool only a
\* deletion persists counts.
CountInv ==
  /\ persisted \subseteq Exporters /\ booked \in [Exporters -> Nat]
  /\ exit # "idle" => \A e \in Exporters : life[e] \notin Creating
  /\ exit \in Early => \A e \in persisted : life[e] \in {"booked", "closed", "gone", "wiped"}
  /\ exit \in {"drained", "taken", "shut"} =>
       \A e \in persisted : life[e] = "live" => booked[e] = sent[e]

\* The rest of the types.
ReadersTyped ==
  /\ attached \subseteq Exporters
  /\ exitSet \subseteq Exporters /\ exitOne \in Exporters \cup {None}
  /\ reading \in BOOLEAN /\ reads \in Nat
  /\ acc \in [Exporters -> Nat] /\ shown \in [Exporters -> Nat]

LedgerInv == FleetInv /\ StopperInv /\ AgeInv /\ StandingInv /\ CountInv /\ ReadersTyped
OwnInv == StopperInv /\ AgeInv /\ StandingInv
LifeInv == OwnInv /\ CountInv /\ ReadersTyped

\* Two exporters of an address differ in their number.
LEMMA SameExporter ==
  \A e, f \in Exporters : f[1] = e[1] /\ f[2] = e[2] => f = e
BY Zenon, ExportersArePairs

\* The facts about the fleet that the steps below use.
LEMMA LedgerFacts ==
  ASSUME LedgerInv
  PROVE  /\ life \in [Exporters -> Lives] /\ mapped \in [Devices -> Nat]
         /\ \A e \in Exporters : e[1] \in Devices /\ e[2] \in Nat /\ e[2] # 0 /\ e # None
         /\ \A e \in Live : life[e] = "live" \/ e = deleter
         /\ sent \in [Exporters -> Nat] /\ firer \in [Devices -> Exporters \cup {None}]
<1>1. \A e \in Exporters : e[1] \in Devices /\ e[2] \in Nat /\ e[2] # 0 /\ e # None
  BY ExportersArePairs, Zenon
<1>2. QED
  BY <1>1, Zenon DEF LedgerInv, FleetInv, OwnerInv, SchedInv, HeapInv, HeapTypeOK, PoolInv, PoolTypeOK

\* A fleet without devices.
LEMMA LedgerInit == FleetInit => LedgerInv
<1> SUFFICES ASSUME FleetInit PROVE LedgerInv
  BY Zenon
<1>1. FleetInv
  BY Zenon, FleetInitInv
<1>2. StopperInv /\ AgeInv /\ StandingInv
  BY ExportersArePairs, Zenon
     DEF FleetInit, StopperInv, AgeInv, StandingInv, Stopping, Standing, Creating, Live
<1>3. CountInv /\ ReadersTyped
  BY Zenon DEF FleetInit, CountInv, ReadersTyped, NoCounts, Creating, Early
<1>4. QED
  BY <1>1, <1>2, <1>3, Zenon DEF LedgerInv

\* One device moves on in its life, in the maps as before.
LEMMA LifeMoves ==
  ASSUME LedgerInv, NEW e \in Exporters, NEW l,
         life' = [life EXCEPT ![e] = l], UNCHANGED <<mapped, deleter, attached, firer>>,
         wiper' \in Exporters \cup {None},
         l \in Stopping => e = deleter \/ e = wiper',
         \A f \in Exporters : f # e /\ life[f] \in Stopping => f = deleter \/ f = wiper',
         e = deleter => l \in Stopping,
         l # "live", l # "none", life[e] # "none", life[e] # "wiped",
         l \in Creating => life[e] \in Creating,
         l \in Standing => life[e] \in Standing
  PROVE  OwnInv'
<1>1. life'[e] = l /\ \A f \in Exporters : f # e => life'[f] = life[f]
  BY Zenon, LedgerFacts
<1>2. /\ StopperInv /\ AgeInv /\ StandingInv
  BY Zenon DEF LedgerInv
<1>3. StopperInv'
  BY Zenon, <1>1, <1>2 DEF StopperInv, Live
<1>4. AgeInv'
  <2>1. \A f \in Exporters : life'[f] = "live" => mapped'[f[1]] = f[2]
    BY Zenon, <1>1, <1>2 DEF AgeInv
  <2>2. \A f \in Exporters : life'[f] \in Creating => mapped'[f[1]] = 0
    BY ZenonT(40), <1>1, <1>2 DEF AgeInv
  <2>3. ASSUME NEW f \in Exporters, NEW g \in Exporters, g[1] = f[1], g[2] < f[2], life'[f] # "none"
        PROVE  life'[g] \notin Creating \cup {"none", "live"}
    <3>1. life[f] # "none"
      BY Zenon, <1>1, <2>3
    <3>2. life[g] \notin Creating \cup {"none", "live"}
      BY Zenon, <1>2, <2>3, <3>1 DEF AgeInv
    <3>3. QED
      BY Zenon, <1>1, <3>2
  <2>4. QED
    BY Zenon, <2>1, <2>2, <2>3 DEF AgeInv
<1>5. StandingInv'
  <2> SUFFICES ASSUME NEW f \in Exporters, life'[f] \in Standing, f \in attached,
                      firer[f[1]] # f
               PROVE  \E g \in Exporters : g[1] = f[1] /\ g[2] < f[2] /\ life'[g] = "wiped"
    BY Zenon DEF StandingInv
  <2>1. life[f] \in Standing
    BY Zenon, <1>1
  <2>2. PICK g \in Exporters : g[1] = f[1] /\ g[2] < f[2] /\ life[g] = "wiped"
    BY Zenon, <1>2, <2>1 DEF StandingInv
  <2>3. QED
    BY Zenon, <1>1, <2>2
<1>6. QED
  BY Zenon, <1>3, <1>4, <1>5 DEF OwnInv

\* The counts are as they were, and no device comes to life during the shutdown.
LEMMA CountsStay ==
  ASSUME LedgerInv, UNCHANGED <<persisted, booked, sent, exit>>,
         \A f \in Exporters :
           \/ life'[f] = life[f]
           \/ /\ life[f] \in {"booked", "closed", "gone", "wiped"}
                   => life'[f] \in {"booked", "closed", "gone", "wiped"}
              /\ exit # "idle" => life'[f] # "live" /\ life'[f] \notin Creating
  PROVE  CountInv'
<1>1. CountInv
  BY Zenon DEF LedgerInv
<1>2. (exit # "idle" => \A e \in Exporters : life[e] \notin Creating)'
  BY Zenon, <1>1 DEF CountInv
<1>3. (exit \in Early => \A e \in persisted : life[e] \in {"booked", "closed", "gone", "wiped"})'
  BY Zenon, <1>1 DEF CountInv
<1>4. (exit \in {"drained", "taken", "shut"} =>
        \A e \in persisted : life[e] = "live" => booked[e] = sent[e])'
  BY <1>1, Zenon DEF CountInv
<1>5. QED
  BY Zenon, <1>1, <1>2, <1>3, <1>4 DEF CountInv

\* Creating a device.
LEMMA CreationLedger == ASSUME LedgerInv, Creation PROVE LifeInv'
<1>0. /\ life \in [Exporters -> Lives] /\ mapped \in [Devices -> Nat]
      /\ \A e \in Exporters : e[1] \in Devices /\ e[2] \in Nat /\ e[2] # 0 /\ e # None
      /\ firer \in [Devices -> Exporters \cup {None}]
      /\ StopperInv /\ AgeInv /\ StandingInv /\ CountInv /\ ReadersTyped
  BY LedgerFacts, Zenon DEF LedgerInv
<1>1. ASSUME NEW e \in Exporters, DeviceStart(e) PROVE LifeInv'
  <2>1. PICK l \in {"refused", "up"} : life' = [life EXCEPT ![e] = l]
    BY Zenon, <1>1 DEF DeviceStart, Becomes
  <2>2. /\ life[e] = "registered" /\ UNCHANGED <<mapped, deleter, wiper, attached, firer>>
        /\ UNCHANGED <<persisted, booked, sent, exit>> /\ UNCHANGED readvars
        /\ UNCHANGED <<exitSet, exitOne>>
    BY Zenon, <1>1 DEF DeviceStart, schedvars, heapvars, poolvars, delvars, bookvars, exitvars
  <2>3. OwnInv'
    BY ZenonT(40), <1>0, <2>1, <2>2, LifeMoves DEF StopperInv, Stopping, Creating, Standing
  <2>4. exit = "idle"
    BY <1>0, <2>2, Zenon DEF CountInv, Creating
  <2>5. life'[e] = l /\ \A f \in Exporters : f # e => life'[f] = life[f]
    BY Zenon, <1>0, <2>1
  <2>6. CountInv'
    BY ZenonT(40), <2>2, <2>4, <2>5, CountsStay
  <2>7. ReadersTyped'
    BY <1>0, <2>2, Zenon DEF ReadersTyped, readvars
  <2>8. QED
    BY <2>3, <2>6, <2>7, Zenon DEF LifeInv
<1>2. ASSUME NEW e \in Exporters, DevicePublish(e) PROVE LifeInv'
  <2>1. /\ life[e] = "up" /\ deleter = None
        /\ life' = [life EXCEPT ![e] = "live"] /\ mapped' = [mapped EXCEPT ![e[1]] = e[2]]
        /\ UNCHANGED <<deleter, wiper, attached, firer>>
        /\ UNCHANGED <<persisted, booked, sent, exit>> /\ UNCHANGED readvars
        /\ UNCHANGED <<exitSet, exitOne>>
    BY <1>2, Zenon DEF DevicePublish, SmFree, Becomes, schedvars, heapvars, poolvars, delvars, bookvars,
                exitvars
  <2>2. life'[e] = "live" /\ \A f \in Exporters : f # e => life'[f] = life[f]
    BY ZenonT(40), <1>0, <2>1
  <2>3. /\ mapped'[e[1]] = e[2] /\ \A d \in Devices : d # e[1] => mapped'[d] = mapped[d]
        /\ mapped[e[1]] = 0 /\ exit = "idle"
    BY <1>0, <2>1, Zenon DEF AgeInv, CountInv, Creating
  <2>4. ASSUME NEW f \in Exporters, f # e, f[1] = e[1]
        PROVE  life[f] # "live" /\ life[f] \notin Creating /\ (e[2] < f[2] => life[f] = "none")
    <3>1. f[2] # e[2] /\ f[2] \in Nat /\ e[2] \in Nat
      BY Zenon, <1>0, <2>4, SameExporter
    <3>2. e[2] < f[2] => life[f] = "none"
      BY Zenon, <1>0, <2>1, <2>4 DEF AgeInv, Creating
    <3>3. f[2] < e[2] => life[f] \notin Creating
      BY Zenon, <1>0, <2>1, <2>4 DEF AgeInv
    <3>4. life[f] # "live"
      BY <1>0, <2>3, <2>4 DEF AgeInv
    <3>5. QED
      BY <3>1, <3>2, <3>3, <3>4 DEF Creating
  <2>5. StopperInv'
    BY Zenon, <1>0, <2>1, <2>2 DEF StopperInv, Stopping
  <2>6. AgeInv'
    <3>1. \A f \in Exporters : life'[f] = "live" => mapped'[f[1]] = f[2]
      BY ZenonT(40), <1>0, <2>2, <2>3, <2>4 DEF AgeInv
    <3>2. \A f \in Exporters : life'[f] \in Creating => mapped'[f[1]] = 0
      BY <1>0, <2>2, <2>3, <2>4, Zenon DEF AgeInv, Creating
    <3>3. ASSUME NEW f \in Exporters, NEW g \in Exporters, g[1] = f[1], g[2] < f[2],
                 life'[f] # "none"
          PROVE  life'[g] \notin Creating \cup {"none", "live"}
      <4>1. life[f] # "none"
        BY Zenon, <2>1, <2>2, <3>3
      <4>2. life[g] \notin Creating \cup {"none", "live"}
        BY Zenon, <1>0, <3>3, <4>1 DEF AgeInv
      <4>3. g # e
        BY Zenon, <2>1, <4>2 DEF Creating
      <4>4. QED
        BY Zenon, <2>2, <4>2, <4>3
    <3>4. QED
      BY Zenon, <3>1, <3>2, <3>3 DEF AgeInv
  <2>7. StandingInv'
    <3> SUFFICES ASSUME NEW f \in Exporters, life'[f] \in Standing, f \in attached, firer[f[1]] # f
                 PROVE  \E g \in Exporters : g[1] = f[1] /\ g[2] < f[2] /\ life'[g] = "wiped"
      BY Zenon, <2>1 DEF StandingInv
    <3>1. life[f] \in Standing
      BY Zenon, <2>1, <2>2 DEF Standing
    <3>2. PICK g \in Exporters : g[1] = f[1] /\ g[2] < f[2] /\ life[g] = "wiped"
      BY Zenon, <1>0, <3>1 DEF StandingInv
    <3>3. QED
      BY Zenon, <2>1, <2>2, <3>2
  <2>8. CountInv'
    BY ZenonT(40), <2>1, <2>2, <2>3, CountsStay
  <2>9. ReadersTyped'
    BY <1>0, <2>1, Zenon DEF ReadersTyped, readvars
  <2>10. QED
    BY ZenonT(40), <2>5, <2>6, <2>7, <2>8, <2>9 DEF LifeInv, OwnInv
<1>3. ASSUME NEW e \in Exporters, DeviceAttach(e) PROVE LifeInv'
  <2>1. /\ life[e] = "none" /\ deleter = None /\ mapped[e[1]] = 0 /\ exit = "idle"
        /\ life' = [life EXCEPT ![e] = "registered"] /\ firer' = [firer EXCEPT ![e[1]] = e]
        /\ attached' = attached \cup {e}
        /\ UNCHANGED <<deleter, wiper, mapped>>
        /\ UNCHANGED <<persisted, booked, sent, exit>> /\ UNCHANGED readvars
        /\ UNCHANGED <<exitSet, exitOne>>
    BY <1>3, Zenon DEF DeviceAttach, SmFree, Register, Becomes, poolvars, delvars, bookvars, exitvars
  <2>2. life'[e] = "registered" /\ \A f \in Exporters : f # e => life'[f] = life[f]
    BY Zenon, <1>0, <2>1
  <2>3. firer'[e[1]] = e /\ \A d \in Devices : d # e[1] => firer'[d] = firer[d]
    BY <1>0, <2>1, Zenon
  <2>4. ASSUME NEW f \in Exporters, f # e, f[1] = e[1]
        PROVE  /\ life[f] # "live" /\ life[f] \notin Creating
               /\ e[2] < f[2] => life[f] = "none"
               /\ f[2] < e[2] => life[f] # "none"
    <3>1. life[f] \notin Creating /\ (f[2] < e[2] <=> life[f] # "none")
      BY ZenonT(40), <1>3, <2>4 DEF DeviceAttach
    <3>2. life[f] # "live"
      BY <1>0, <2>1, <2>4, Zenon DEF AgeInv
    <3>3. f[2] \in Nat /\ e[2] \in Nat
      BY Zenon, <1>0
    <3>4. QED
      BY <3>1, <3>2, <3>3
  <2>5. StopperInv'
    BY Zenon, <1>0, <2>1, <2>2 DEF StopperInv, Stopping
  <2>6. AgeInv'
    <3>1. \A f \in Exporters : life'[f] = "live" => mapped'[f[1]] = f[2]
      BY Zenon, <1>0, <2>1, <2>2 DEF AgeInv
    <3>2. \A f \in Exporters : life'[f] \in Creating => mapped'[f[1]] = 0
      BY <1>0, <2>1, <2>2, Zenon DEF AgeInv
    <3>3. ASSUME NEW f \in Exporters, NEW g \in Exporters, g[1] = f[1], g[2] < f[2],
                 life'[f] # "none"
          PROVE  life'[g] \notin Creating \cup {"none", "live"}
      <4>1. f # g /\ f[2] \in Nat /\ g[2] \in Nat
        BY <1>0, <3>3
      <4>2. CASE f = e
        BY Zenon, <2>2, <2>4, <3>3, <4>1, <4>2
      <4>3. CASE f # e
        <5>1. g # e
          BY Zenon, <2>2, <2>4, <3>3, <4>1, <4>3
        <5>2. QED
          BY Zenon, <1>0, <2>2, <3>3, <4>3, <5>1 DEF AgeInv
      <4>4. QED
        BY ZenonT(40), <4>2, <4>3
    <3>4. QED
      BY Zenon, <3>1, <3>2, <3>3 DEF AgeInv
  <2>7. StandingInv'
    <3> SUFFICES ASSUME NEW f \in Exporters, life'[f] \in Standing, f \in attached',
                        firer'[f[1]] # f
                 PROVE  \E g \in Exporters : g[1] = f[1] /\ g[2] < f[2] /\ life'[g] = "wiped"
      BY Zenon DEF StandingInv
    <3>1. f # e /\ f[1] # e[1] /\ f[1] \in Devices
      BY Zenon, <1>0, <2>2, <2>3, <2>4 DEF Standing, Creating
    <3>2. PICK g \in Exporters : g[1] = f[1] /\ g[2] < f[2] /\ life[g] = "wiped"
      BY ZenonT(40), <1>0, <2>1, <2>2, <2>3, <3>1 DEF StandingInv
    <3>3. QED
      BY Zenon, <2>1, <2>2, <3>2
  <2>8. CountInv'
    BY Zenon, <2>1, <2>2, CountsStay
  <2>9. ReadersTyped'
    BY <1>0, <2>1, Zenon DEF ReadersTyped, readvars
  <2>10. QED
    BY ZenonT(40), <2>5, <2>6, <2>7, <2>8, <2>9 DEF LifeInv, OwnInv
<1>4. QED
  BY <1>1, <1>2, <1>3, Zenon DEF Creation
\* Picking a device to delete, or all of them.
LEMMA DeletionLedger == ASSUME LedgerInv, Deletion PROVE LifeInv'
<1>0. /\ life \in [Exporters -> Lives] /\ mapped \in [Devices -> Nat]
      /\ \A e \in Exporters : e[1] \in Devices /\ e[2] \in Nat /\ e[2] # 0 /\ e # None
      /\ \A e \in Live : life[e] = "live" \/ e = deleter
      /\ StopperInv /\ AgeInv /\ StandingInv /\ CountInv /\ ReadersTyped
  BY LedgerFacts, Zenon DEF LedgerInv
<1>1. ASSUME NEW e \in Exporters, DeleteDevice(e) PROVE LifeInv'
  <2>1. /\ deleter = None /\ e \in Live /\ deleter' = e
        /\ life' = [life EXCEPT ![e] = "stopping"]
        /\ UNCHANGED <<mapped, wiper, attached, firer>>
        /\ UNCHANGED <<persisted, booked, sent, exit>> /\ UNCHANGED readvars
        /\ UNCHANGED <<exitSet, exitOne>>
    BY <1>1, Zenon DEF DeleteDevice, SmFree, Becomes, schedvars, heapvars, poolvars, bookvars, exitvars
  <2>2. life[e] = "live" /\ life'[e] = "stopping"
        /\ \A f \in Exporters : f # e => life'[f] = life[f]
    BY Zenon, <1>0, <2>1
  <2>3. StopperInv'
    BY Zenon, <1>0, <2>1, <2>2 DEF StopperInv, Stopping, Live
  <2>4. AgeInv'
    BY ZenonT(40), <1>0, <2>1, <2>2 DEF AgeInv, Creating
  <2>5. StandingInv'
    BY Zenon, <1>0, <2>1, <2>2 DEF StandingInv, Standing
  <2>6. CountInv'
    BY Zenon, <2>1, <2>2, CountsStay DEF Creating
  <2>7. ReadersTyped'
    BY <1>0, <2>1, Zenon DEF ReadersTyped, readvars
  <2>8. QED
    BY Zenon, <2>3, <2>4, <2>5, <2>6, <2>7 DEF LifeInv, OwnInv
<1>2. ASSUME NEW e \in Exporters, WipeNext(e) PROVE LifeInv'
  <2>1. /\ wiper = None /\ life[e] = "doomed" /\ wiper' = e
        /\ life' = [life EXCEPT ![e] = "stopping"]
        /\ UNCHANGED <<mapped, deleter, attached, firer>>
        /\ UNCHANGED <<persisted, booked, sent, exit>> /\ UNCHANGED readvars
        /\ UNCHANGED <<exitSet, exitOne>>
    BY Zenon, <1>2 DEF WipeNext, Becomes, schedvars, heapvars, poolvars, bookvars, exitvars
  <2>2. \A f \in Exporters : life[f] \in Stopping => f = deleter
    BY Zenon, <1>0, <2>1 DEF StopperInv
  <2>3. OwnInv'
    BY Zenon, <2>1, <2>2, LifeMoves DEF Stopping, Creating, Standing
  <2>4. life'[e] = "stopping" /\ \A f \in Exporters : f # e => life'[f] = life[f]
    BY Zenon, <1>0, <2>1
  <2>5. CountInv'
    BY ZenonT(40), <2>1, <2>4, CountsStay DEF Creating
  <2>6. ReadersTyped'
    BY <1>0, <2>1, Zenon DEF ReadersTyped, readvars
  <2>7. QED
    BY Zenon, <2>3, <2>5, <2>6 DEF LifeInv
<1>3. CASE DeleteAllDevices
  <2>1. /\ deleter = None
        /\ life' = [e \in Exporters |-> IF e \in Live THEN "doomed" ELSE life[e]]
        /\ mapped' = [d \in Devices |-> 0]
        /\ UNCHANGED <<deleter, wiper, attached, firer>>
        /\ UNCHANGED <<persisted, booked, sent, exit>> /\ UNCHANGED readvars
        /\ UNCHANGED <<exitSet, exitOne>>
    BY Zenon, <1>3 DEF DeleteAllDevices, SmFree, delvars, schedvars, heapvars, poolvars, bookvars,
       exitvars
  <2>2. \A e \in Exporters : \/ life'[e] = life[e] /\ life[e] # "live"
                             \/ life'[e] = "doomed" /\ life[e] = "live"
    BY Zenon, <1>0, <2>1 DEF AgeInv, Live
  <2>3. StopperInv'
    BY Zenon, <1>0, <2>1, <2>2 DEF StopperInv, Stopping
  <2>4. AgeInv'
    BY Zenon, <1>0, <2>1, <2>2 DEF AgeInv, Creating
  <2>5. StandingInv'
    BY Zenon, <1>0, <2>1, <2>2 DEF StandingInv, Standing
  <2>6. CountInv'
    BY Zenon, <2>1, <2>2, CountsStay DEF Creating
  <2>7. ReadersTyped'
    BY Zenon, <1>0, <2>1 DEF ReadersTyped, readvars
  <2>8. QED
    BY Zenon, <2>3, <2>4, <2>5, <2>6, <2>7 DEF LifeInv, OwnInv
<1>4. QED
  BY <1>1, <1>2, <1>3, Zenon DEF Deletion

\* The end of device.Stop: the scheduler forgets the address at most.
LEMMA ReturnLedger ==
  ASSUME LedgerInv, NEW e \in Exporters, StopReturns(e), sent' = sent,
         life[e] \in {"deaf", "closed", "unmade"},
         \A d \in Devices : firer'[d] = firer[d] \/ (d = e[1] /\ life[e] # "deaf")
  PROVE  LifeInv'
<1>0. /\ life \in [Exporters -> Lives] /\ mapped \in [Devices -> Nat]
      /\ \A f \in Exporters : f[1] \in Devices /\ f[2] \in Nat /\ f[2] # 0 /\ f # None
      /\ StopperInv /\ AgeInv /\ StandingInv /\ CountInv /\ ReadersTyped
  BY Zenon, LedgerFacts DEF LedgerInv
<1>1. /\ life' = [life EXCEPT ![e] = IF e = wiper THEN "wiped" ELSE "gone"]
      /\ attached' = attached \ {e}
      /\ mapped' = IF e = deleter THEN [mapped EXCEPT ![e[1]] = 0] ELSE mapped
      /\ deleter' = (IF e = deleter THEN None ELSE deleter)
      /\ wiper' = (IF e = wiper THEN None ELSE wiper)
      /\ UNCHANGED <<persisted, booked, exit>> /\ UNCHANGED readvars
      /\ UNCHANGED <<exitSet, exitOne>>
  BY Zenon DEF StopReturns, Becomes, bookvars, exitvars
<1>2. /\ life'[e] \in {"wiped", "gone"} /\ (e = wiper => life'[e] = "wiped")
      /\ \A f \in Exporters : f # e => life'[f] = life[f]
  BY Zenon, <1>0, <1>1
<1>3. \A d \in Devices : mapped'[d] = mapped[d] \/ (mapped'[d] = 0 /\ e = deleter /\ d = e[1])
  BY Zenon, <1>0, <1>1
<1>4. StopperInv'
  <2>1. deleter' # None => deleter' = deleter /\ deleter # e
    BY <1>1, Zenon
  <2>2. deleter' # None => deleter' \in Live' /\ life'[deleter'] \in Stopping
    BY Zenon, <1>0, <1>1, <1>2, <2>1 DEF StopperInv, Live
  <2>3. \A f \in Exporters : life'[f] \in Stopping => f = deleter' \/ f = wiper'
    <3> SUFFICES ASSUME NEW f \in Exporters, life'[f] \in Stopping
                 PROVE  f = deleter' \/ f = wiper'
      BY Zenon
    <3>1. f # e
      BY Zenon, <1>2 DEF Stopping
    <3>2. f = deleter \/ f = wiper
      BY Zenon, <1>0, <1>2, <3>1 DEF StopperInv
    <3>3. /\ deleter' = (IF e = deleter THEN None ELSE deleter)
          /\ wiper' = (IF e = wiper THEN None ELSE wiper)
      BY Zenon, <1>1
    <3>4. CASE f = deleter
      BY Zenon, <3>1, <3>3, <3>4
    <3>5. CASE f = wiper
      BY Zenon, <3>1, <3>3, <3>5
    <3>6. QED
      BY Zenon, <3>2, <3>4, <3>5
  <2>4. QED
    BY ZenonT(40), <1>0, <1>1, <2>2, <2>3 DEF StopperInv
<1>5. AgeInv'
  <2>1. ASSUME NEW f \in Exporters, life'[f] = "live" PROVE mapped'[f[1]] = f[2]
    <3>1. f # e /\ life[f] = "live" /\ mapped[f[1]] = f[2]
      BY Zenon, <1>0, <1>2, <2>1 DEF AgeInv
    <3>2. e = deleter => f[1] # e[1]
      BY Zenon, <1>0, <3>1, SameExporter DEF StopperInv, Live
    <3>3. QED
      BY Zenon, <1>0, <1>3, <3>1, <3>2
  <2>2. \A f \in Exporters : life'[f] \in Creating => mapped'[f[1]] = 0
    BY Zenon, <1>0, <1>2, <1>3 DEF AgeInv, Creating
  <2>3. ASSUME NEW f \in Exporters, NEW g \in Exporters, g[1] = f[1], g[2] < f[2], life'[f] # "none"
        PROVE  life'[g] \notin Creating \cup {"none", "live"}
    <3>1. life[f] # "none"
      BY Zenon, <1>2, <2>3
    <3>2. life[g] \notin Creating \cup {"none", "live"}
      BY Zenon, <1>0, <2>3, <3>1 DEF AgeInv
    <3>3. QED
      BY Zenon, <1>2, <3>2 DEF Creating
  <2>4. QED
    BY Zenon, <2>1, <2>2, <2>3 DEF AgeInv
<1>6. StandingInv'
  <2> SUFFICES ASSUME NEW f \in Exporters, life'[f] \in Standing, f \in attached', firer'[f[1]] # f
               PROVE  \E g \in Exporters : g[1] = f[1] /\ g[2] < f[2] /\ life'[g] = "wiped"
    BY Zenon DEF StandingInv
  <2>1. f # e /\ life[f] \in Standing /\ f \in attached /\ f[1] \in Devices
    BY Zenon, <1>0, <1>1, <1>2 DEF Standing
  <2>2. CASE firer'[f[1]] = firer[f[1]]
    <3>1. PICK g \in Exporters : g[1] = f[1] /\ g[2] < f[2] /\ life[g] = "wiped"
      BY Zenon, <1>0, <2>1, <2>2 DEF StandingInv
    <3>2. QED
      BY Zenon, <1>2, <3>1
  <2>3. CASE f[1] = e[1] /\ life[e] # "deaf"
    <3>1. f[2] # e[2] /\ f[2] \in Nat /\ e[2] \in Nat
      BY ZenonT(40), <1>0, <2>1, <2>3, SameExporter
    <3>2. e[2] < f[2]
      <4>1. ~(f[2] < e[2])
        BY Zenon, <1>0, <2>1, <2>3 DEF AgeInv, Standing, Creating
      <4>2. QED
        BY <3>1, <4>1
    <3>3. life[e] = "closed"
      BY Zenon, <1>0, <2>1, <2>3, <3>2 DEF AgeInv, Standing, Creating
    <3>4. e # deleter
      <4>1. life[f] \in Creating \/ life[f] = "live"
        BY Zenon, <2>1 DEF Standing, Creating
      <4>2. mapped[f[1]] = 0 \/ mapped[f[1]] = f[2]
        BY Zenon, <1>0, <4>1 DEF AgeInv
      <4>3. QED
        BY Zenon, <1>0, <2>3, <3>1, <4>2 DEF StopperInv, Live
    <3>5. e = wiper
      BY Zenon, <1>0, <3>3, <3>4 DEF StopperInv, Stopping
    <3>6. QED
      BY Zenon, <1>2, <2>3, <3>2, <3>5
  <2>4. QED
    BY Zenon, <2>1, <2>2, <2>3
<1>7. CountInv'
  BY ZenonT(40), <1>1, <1>2, CountsStay DEF Creating
<1>8. ReadersTyped'
  BY <1>0, <1>1, Zenon DEF ReadersTyped, readvars
<1>9. QED
  BY Zenon, <1>4, <1>5, <1>6, <1>7, <1>8 DEF LifeInv, OwnInv

\* The steps of device.Stop.
LEMMA TeardownLedger == ASSUME LedgerInv, NEW e \in Exporters, Teardown(e) PROVE LifeInv'
<1>0. /\ life \in [Exporters -> Lives] /\ e # None /\ sent \in [Exporters -> Nat]
      /\ e[1] \in Devices /\ firer \in [Devices -> Exporters \cup {None}]
      /\ StopperInv /\ CountInv /\ ReadersTyped
  BY Zenon, LedgerFacts DEF LedgerInv
<1>1. ASSUME NEW l \in {"deaf", "booked", "closed", "unmade"},
             life' = [life EXCEPT ![e] = l], UNCHANGED <<mapped, deleter, wiper, attached, firer>>,
             \/ l = "deaf" /\ life[e] = "stopping"
             \/ l = "booked" /\ life[e] = "deaf"
             \/ l = "closed" /\ life[e] = "booked"
             \/ l = "unmade" /\ life[e] = "refused"
      PROVE  OwnInv'
  <2>1. /\ l \in Stopping => life[e] \in Stopping
        /\ l \in Creating => life[e] \in Creating
        /\ l \notin Standing /\ l # "live" /\ l # "none" /\ life[e] # "none" /\ life[e] # "wiped"
    BY Zenon, <1>1 DEF Stopping, Creating, Standing
  <2>2. /\ l \in Stopping => e = deleter \/ e = wiper
        /\ \A f \in Exporters : life[f] \in Stopping => f = deleter \/ f = wiper
        /\ wiper \in Exporters \cup {None}
    BY Zenon, <1>0, <2>1 DEF StopperInv
  <2>3. e = deleter => l \in Stopping
    BY Zenon, <1>0, <1>1 DEF StopperInv, Stopping
  <2>4. QED
    BY Zenon, <1>1, <2>1, <2>2, <2>3, LifeMoves
<1>2. CASE StopListeners(e)
  <2>1. /\ life[e] = "stopping" /\ life' = [life EXCEPT ![e] = "deaf"]
        /\ UNCHANGED <<mapped, deleter, wiper, attached, firer>>
        /\ UNCHANGED <<persisted, booked, sent, exit>> /\ UNCHANGED readvars
        /\ UNCHANGED <<exitSet, exitOne>>
    BY <1>2, Zenon DEF StopListeners, Becomes, schedvars, heapvars, poolvars, delvars, bookvars, exitvars
  <2>2. life'[e] = "deaf" /\ \A f \in Exporters : f # e => life'[f] = life[f]
    BY Zenon, <1>0, <2>1
  <2>3. CountInv'
    BY Zenon, <2>1, <2>2, CountsStay DEF Creating
  <2>4. ReadersTyped'
    BY Zenon, <1>0, <2>1 DEF ReadersTyped, readvars
  <2>5. QED
    BY ZenonT(40), <1>1, <2>1, <2>3, <2>4 DEF LifeInv
<1>3. CASE StopPersists(e)
  <2>1. /\ life[e] = "deaf" /\ life' = [life EXCEPT ![e] = "booked"] /\ Persist(e)
        /\ UNCHANGED <<mapped, deleter, wiper, attached, firer>>
        /\ UNCHANGED <<sent, exit>> /\ UNCHANGED readvars
        /\ UNCHANGED <<exitSet, exitOne>>
    BY <1>3, Zenon DEF StopPersists, Becomes, schedvars, heapvars, poolvars, delvars, exitvars
  <2>2. life'[e] = "booked" /\ \A f \in Exporters : f # e => life'[f] = life[f]
    BY Zenon, <1>0, <2>1
  <2>3. /\ persisted' = persisted \cup {e} /\ booked' \in [Exporters -> Nat]
        /\ \A f \in Exporters : f # e => booked'[f] = booked[f]
    BY Zenon, <1>0, <2>1 DEF Persist, CountInv
  <2>4. CountInv'
    BY Zenon, <1>0, <2>1, <2>2, <2>3 DEF CountInv, Creating
  <2>5. ReadersTyped'
    BY Zenon, <1>0, <2>1 DEF ReadersTyped, readvars
  <2>6. QED
    BY Zenon, <1>1, <2>1, <2>4, <2>5 DEF LifeInv
<1>4. CASE StopCloses(e)
  <2>1. PICK l \in {"closed", "unmade"} :
          /\ life' = [life EXCEPT ![e] = l]
          /\ \/ l = "closed" /\ life[e] = "booked"
             \/ l = "unmade" /\ life[e] = "refused"
    BY Zenon, <1>4 DEF StopCloses, Becomes
  <2>2. /\ UNCHANGED <<mapped, deleter, wiper, attached, firer>>
        /\ UNCHANGED <<persisted, booked, sent, exit>> /\ UNCHANGED readvars
        /\ UNCHANGED <<exitSet, exitOne>>
    BY <1>4, Zenon DEF StopCloses, heapvars, poolvars, delvars, bookvars, exitvars
  <2>3. life'[e] = l /\ \A f \in Exporters : f # e => life'[f] = life[f]
    BY <1>0, <2>1, Zenon
  <2>4. life[e] = "refused" => exit = "idle"
    BY Zenon, <1>0 DEF CountInv, Creating
  <2>5. CountInv'
    BY Zenon, <2>1, <2>2, <2>3, <2>4, CountsStay DEF Creating
  <2>6. ReadersTyped'
    BY Zenon, <1>0, <2>2 DEF ReadersTyped, readvars
  <2>7. QED
    BY Zenon, <1>1, <2>1, <2>2, <2>5, <2>6 DEF LifeInv
<1>5. CASE StopDeregisters(e)
  <2>1. /\ life[e] \in {"closed", "unmade"} /\ StopReturns(e) /\ sent' = sent
    BY Zenon, <1>5 DEF StopDeregisters, poolvars
  <2>2. \A d \in Devices : firer'[d] = firer[d] \/ d = e[1]
    BY ZenonT(40), <1>0, <1>5 DEF StopDeregisters, Deregister, heapvars
  <2>3. QED
    BY Zenon, <2>1, <2>2, ReturnLedger
<1>6. CASE StopDetached(e)
  <2>1. /\ life[e] = "deaf" /\ StopReturns(e) /\ sent' = sent /\ firer' = firer
    BY ZenonT(40), <1>6 DEF StopDetached, schedvars, heapvars, poolvars
  <2>2. QED
    BY <2>1, ReturnLedger, Zenon
<1>7. QED
  BY <1>2, <1>3, <1>4, <1>5, <1>6, Zenon DEF Teardown

\* Who stops what, and who is scheduled, depends on these alone.
LEMMA OwnStays ==
  ASSUME LedgerInv, UNCHANGED <<life, mapped, deleter, wiper, firer>>, attached' \subseteq attached
  PROVE  OwnInv'
BY Zenon DEF LedgerInv, OwnInv, StopperInv, AgeInv, StandingInv, Live

\* StopTrapExport.
LEMMA ExitLedger == ASSUME LedgerInv, Exit PROVE LifeInv'
<1>0. /\ CountInv /\ ReadersTyped /\ sent \in [Exporters -> Nat]
      /\ exit \in {"taken", "shut"} => exitOne \in Exporters
  BY LedgerFacts, Zenon DEF LedgerInv, FleetInv, ExitInv
<1>1. CASE ExitSnapshot \/ ExitSignal \/ ExitDrained
  <2>1. /\ UNCHANGED <<life, mapped, attached, deleter, wiper, firer>>
        /\ UNCHANGED <<persisted, booked, sent>> /\ UNCHANGED readvars
        /\ exitOne' = exitOne
    BY Zenon, <1>1 DEF ExitSnapshot, ExitSignal, ExitDrained, schedvars, heapvars, poolvars, devvars,
                delvars, bookvars
  <2>2. exitSet' \subseteq Exporters
    BY Zenon, <1>0, <1>1 DEF ExitSnapshot, ExitSignal, ExitDrained, ReadersTyped
  <2>3. /\ exit \in Early /\ exit' \in {"snapped", "signalled", "drained"}
        /\ exit = "idle" => \A e \in Exporters : life[e] \notin Creating
    BY Zenon, <1>1 DEF ExitSnapshot, ExitSignal, ExitDrained, Early
  <2>4. CountInv'
    BY Zenon, <1>0, <2>1, <2>3 DEF CountInv
  <2>5. ReadersTyped'
    BY <1>0, <2>1, <2>2, Zenon DEF ReadersTyped, readvars
  <2>6. QED
    BY Zenon, <2>1, <2>4, <2>5, OwnStays DEF LifeInv
<1>2. ASSUME NEW e \in Exporters, ExitTake(e) PROVE LifeInv'
  <2>1. /\ UNCHANGED <<life, mapped, deleter, wiper, firer>>
        /\ UNCHANGED <<persisted, booked, sent>> /\ UNCHANGED readvars
        /\ attached' = attached \ {e} /\ exitSet' = exitSet \ {e}
        /\ exit = "drained" /\ exit' \in {"drained", "taken"}
        /\ exitOne' \in {e, exitOne}
    BY Zenon, <1>2 DEF ExitTake, schedvars, heapvars, poolvars, delvars, bookvars
  <2>2. CountInv'
    BY Zenon, <1>0, <2>1 DEF CountInv, Early
  <2>3. ReadersTyped'
    BY <1>0, <2>1, Zenon DEF ReadersTyped, readvars
  <2>4. QED
    BY Zenon, <2>1, <2>2, <2>3, OwnStays DEF LifeInv
<1>3. CASE ExitClose
  <2>1. /\ UNCHANGED <<life, mapped, attached, deleter, wiper, firer>>
        /\ UNCHANGED <<persisted, booked, sent>> /\ UNCHANGED readvars
        /\ UNCHANGED <<exitSet, exitOne>> /\ exit = "taken" /\ exit' = "shut"
    BY Zenon, <1>3 DEF ExitClose, heapvars, poolvars, devvars, delvars, bookvars
  <2>2. CountInv'
    BY Zenon, <1>0, <2>1 DEF CountInv, Early
  <2>3. ReadersTyped'
    BY <1>0, <2>1, Zenon DEF ReadersTyped, readvars
  <2>4. QED
    BY Zenon, <2>1, <2>2, <2>3, OwnStays DEF LifeInv
<1>4. CASE ExitPersist
  <2>1. /\ UNCHANGED <<life, mapped, attached, deleter, wiper, firer>>
        /\ sent' = sent /\ UNCHANGED readvars /\ Persist(exitOne)
        /\ exitSet' = exitSet /\ exitOne' = None /\ exit = "shut" /\ exit' = "drained"
    BY Zenon, <1>4 DEF ExitPersist, schedvars, heapvars, poolvars, devvars, delvars
  <2>2. /\ exitOne \in Exporters /\ persisted' = persisted \cup {exitOne}
        /\ booked' \in [Exporters -> Nat]
        /\ \A f \in Exporters : f # exitOne => booked'[f] = booked[f]
        /\ exitOne \in persisted => booked'[exitOne] = booked[exitOne]
        /\ exitOne \notin persisted => booked'[exitOne] = sent[exitOne]
    BY Zenon, <1>0, <2>1 DEF Persist, CountInv
  <2>3. \A f \in persisted' : life[f] = "live" => booked'[f] = sent[f]
    BY Zenon, <1>0, <2>1, <2>2 DEF CountInv
  <2>4. CountInv'
    BY Zenon, <1>0, <2>1, <2>2, <2>3 DEF CountInv, Early
  <2>5. ReadersTyped'
    BY <1>0, <2>1, Zenon DEF ReadersTyped, readvars
  <2>6. QED
    BY Zenon, <2>1, <2>4, <2>5, OwnStays DEF LifeInv
<1>5. CASE ExitDone
  <2>1. /\ UNCHANGED <<life, mapped, attached, deleter, wiper, firer>>
        /\ UNCHANGED <<persisted, sent>> /\ UNCHANGED readvars /\ booked' = NoCounts
        /\ UNCHANGED <<exitSet, exitOne>> /\ exit = "drained" /\ exit' = "done"
    BY Zenon, <1>5 DEF ExitDone, schedvars, heapvars, poolvars, devvars, delvars
  <2>2. CountInv'
    BY Zenon, <1>0, <2>1 DEF CountInv, Early, NoCounts
  <2>3. ReadersTyped'
    BY <1>0, <2>1, Zenon DEF ReadersTyped, readvars
  <2>4. QED
    BY Zenon, <2>1, <2>2, <2>3, OwnStays DEF LifeInv
<1>6. QED
  BY Zenon, <1>1, <1>2, <1>3, <1>4, <1>5 DEF Exit

\* The scheduler's own steps: once the pool is quiet nothing more is counted.
LEMMA SchedLedger ==
  ASSUME LedgerInv, SchedStep, UNCHANGED fleetvars
  PROVE  LifeInv'
<1>0. CountInv /\ ReadersTyped /\ QuietAfterStop
  BY Zenon DEF LedgerInv, FleetInv, ExitInv
<1>1. /\ UNCHANGED <<life, mapped, attached, deleter, wiper>> /\ UNCHANGED readvars
      /\ UNCHANGED <<persisted, booked, exit, exitSet, exitOne>>
  BY Zenon DEF fleetvars, devvars, delvars, bookvars, exitvars
<1>2. firer' = firer
  <2>1. CASE Schedule
    BY Zenon, <2>1 DEF Schedule, Run, RunEnter, RunLeaves, RunPeek, RunWoken, RunTimer, RunToken,
       RunPop,
                RunPick, RunSend, RunDone, heapvars
  <2>2. CASE ClockTick
    BY <2>2, Zenon DEF ClockTick, heapvars
  <2>3. ASSUME NEW w \in Workers, Emit(w) PROVE firer' = firer
    BY <2>3, Zenon DEF Emit, EmitTake, EmitDone, heapvars
  <2>4. QED
    BY Zenon, <2>1, <2>2, <2>3 DEF SchedStep
<1>3. exit \in {"drained", "taken", "shut"} => sent' = sent
  <2>1. CASE Schedule
    BY <2>1, Zenon DEF Schedule, Run, RunEnter, RunLeaves, RunPeek, RunWoken, RunTimer, RunToken, RunPop,
                RunPick, RunSend, RunDone, poolvars
  <2>2. CASE ClockTick
    BY Zenon, <2>2 DEF ClockTick, poolvars
  <2>3. ASSUME NEW w \in Workers, Emit(w), exit \in {"drained", "taken", "shut"} PROVE FALSE
    BY Zenon, <1>0, <2>3 DEF Emit, EmitTake, EmitDone, QuietAfterStop
  <2>4. QED
    BY ZenonT(40), <2>1, <2>2, <2>3 DEF SchedStep
<1>4. CountInv'
  BY Zenon, <1>0, <1>1, <1>3 DEF CountInv
<1>5. ReadersTyped'
  BY <1>0, <1>1, Zenon DEF ReadersTyped, readvars
<1>6. QED
  BY <1>1, <1>2, <1>4, <1>5, OwnStays, Zenon DEF LifeInv

\* A sum of naturals is a natural.
LEMMA NatSum == \A m, n \in Nat : m + n \in Nat
OBVIOUS

\* GetTrapStatus, and stuttering.
LEMMA StatusLedger ==
  ASSUME LedgerInv, Status \/ UNCHANGED vars
  PROVE  LifeInv'
<1>0. CountInv /\ ReadersTyped /\ sent \in [Exporters -> Nat]
  BY ZenonT(40), LedgerFacts DEF LedgerInv
<1>1. UNCHANGED <<schedvars, devvars, delvars, bookvars, exitvars>>
  BY Zenon DEF Status, StatusLive, StatusFold, vars, fleetvars
<1>2. /\ UNCHANGED <<life, mapped, attached, deleter, wiper, firer>>
      /\ UNCHANGED <<persisted, booked, exit, exitSet, exitOne, sent>>
  BY <1>1, Zenon DEF schedvars, heapvars, poolvars, devvars, delvars, bookvars, exitvars
<1>3. CountInv'
  BY <1>2, CountsStay, Zenon
<1>4. /\ reading' \in BOOLEAN /\ reads' \in Nat
      /\ acc' \in [Exporters -> Nat] /\ shown' \in [Exporters -> Nat]
  <2>1. CASE StatusLive
    BY <1>0, <2>1 DEF StatusLive, ReadersTyped, CountsOf
  <2>2. CASE StatusFold
    <3>1. \A f \in Exporters : acc[f] \in Nat /\ CountsOf(booked, persisted)[f] \in Nat
      BY Zenon, <1>0 DEF ReadersTyped, CountsOf, CountInv
    <3>2. shown' \in [Exporters -> Nat]
      BY Zenon, <2>2, <3>1, NatSum DEF StatusFold
    <3>3. QED
      BY Zenon, <1>0, <2>2, <3>2 DEF StatusFold, ReadersTyped, NoCounts
  <2>3. CASE UNCHANGED vars
    BY Zenon, <1>0, <2>3 DEF vars, fleetvars, readvars, ReadersTyped
  <2>4. QED
    BY Zenon, <2>1, <2>2, <2>3 DEF Status
<1>5. ReadersTyped'
  BY <1>0, <1>2, <1>4, Zenon DEF ReadersTyped
<1>6. QED
  BY <1>2, <1>3, <1>5, OwnStays, Zenon DEF LifeInv

\* The incarnations, their schedule and their counts, in every reachable state.
THEOREM LedgerInvariant == FleetSpec => []LedgerInv
<1>1. LedgerInv /\ [FleetNext]_vars => LedgerInv'
  <2> SUFFICES ASSUME LedgerInv, [FleetNext]_vars PROVE LedgerInv'
    BY Zenon
  <2>1. FleetInv'
    BY FleetStep, Zenon DEF LedgerInv
  <2>2. LifeInv'
    <3>1. CASE SchedStep /\ UNCHANGED fleetvars
      BY <3>1, SchedLedger, Zenon
    <3>2. CASE Creation \/ Deletion \/ Exit
      BY <3>2, CreationLedger, DeletionLedger, ExitLedger, Zenon
    <3>3. ASSUME NEW e \in Exporters, Teardown(e) PROVE LifeInv'
      BY <3>3, TeardownLedger, Zenon
    <3>4. CASE Status \/ Terminated \/ UNCHANGED vars
      BY <3>4, StatusLedger, Zenon DEF Terminated
    <3>5. QED
      BY <3>1, <3>2, <3>3, <3>4, Zenon DEF FleetNext
  <2>3. QED
    BY <2>1, <2>2, Zenon DEF LedgerInv, LifeInv, OwnInv
<1>2. QED
  BY <1>1, LedgerInit, PTL DEF FleetSpec

\* FleetQuiet for every fleet: no exporter of a finished device.Stop is scheduled, and
\* StopTrapExport closes the exporters of a pool in which nothing is in flight.
THEOREM FleetAlwaysQuiet == FleetSpec => []FleetQuiet
<1>1. LedgerInv => FleetQuiet
  <2> SUFFICES ASSUME LedgerInv PROVE FleetQuiet
    BY Zenon
  <2>1. SchedTypeOK
    BY Zenon DEF LedgerInv, FleetInv, SchedInv, HeapInv, PoolInv, SchedTypeOK
  <2>2. NoGhost /\ QuietAfterStop
    BY ZenonT(40) DEF LedgerInv, FleetInv, OwnerInv, ExitInv
  <2>3. FleetTypeOK
    BY <2>1, Zenon DEF FleetTypeOK, LedgerInv, FleetInv, OwnerInv, ExitInv, Early, StopperInv, CountInv,
                ReadersTyped
  <2>4. QED
    BY <2>2, <2>3, Zenon DEF FleetQuiet
<1>2. QED
  BY <1>1, LedgerInvariant, PTL

\* FleetCounted for every fleet: what StopTrapExport persists is final, and a published
\* device stays scheduled unless DeleteAllDevices was tearing down its address.
THEOREM FleetAlwaysCounted == FleetSpec => []FleetCounted
<1>1. LedgerInv => FleetCounted
  <2> SUFFICES ASSUME LedgerInv PROVE FleetCounted
    BY Zenon
  <2>1. ShutdownCountsAll
    BY Zenon DEF LedgerInv, CountInv, ShutdownCountsAll
  <2>2. PublishedIsScheduled
    <3> SUFFICES ASSUME NEW e \in Exporters, life[e] = "live", e \in attached,
                        ~\E f \in Exporters : f[1] = e[1] /\ f[2] < e[2] /\ life[f] = "wiped"
                 PROVE  Scheduled(e)
      BY Zenon DEF PublishedIsScheduled, Live
    <3>1. firer[e[1]] = e /\ e[1] \in Devices /\ e # None
      BY LedgerFacts, Zenon DEF LedgerInv, StandingInv, Standing
    <3>2. OneEntryEach
      BY Zenon DEF LedgerInv, FleetInv, SchedInv, HeapInv
    <3>3. QED
      BY Zenon, <3>1, <3>2 DEF OneEntryEach, Scheduled
  <2>3. QED
    BY <2>1, <2>2, Zenon DEF FleetCounted
<1>2. QED
  BY <1>1, LedgerInvariant, PTL

============================================================================
