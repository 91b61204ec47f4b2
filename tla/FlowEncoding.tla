----------------------------- MODULE FlowEncoding -----------------------------
(***************************************************************************)
(* The arithmetic of flow export: the datagram budget that -datagram-mtu   *)
(* sets (datagram_budget.go), what each encoder reports about its sizes    *)
(* and what it writes (netflow5.go, netflow9.go, ipfix.go, ipfix_avc.go,   *)
(* sflow.go), and the number of records FlowExporter.Tick hands to it.  A  *)
(* record is its size on the wire, a datagram its length and its record    *)
(* count.                                                                  *)
(*                                                                         *)
(* The one variable is the path MTU, set once at startup.                  *)
(***************************************************************************)
EXTENDS Integers, Sequences

CONSTANTS
  MTUs,         \* the MTUs the operator may ask for
  MaxWaiting    \* bound on the expired records that wait for a datagram

ASSUME MTUAssumption == MTUs \subseteq Int /\ MaxWaiting \in Nat

VARIABLE linkMTU

DefaultLinkMTU == 1500
MinLinkMTU == 576

BudgetInit == linkMTU = DefaultLinkMTU

\* SetLinkMTU: out of range is an error and startup fails with nothing changed.
SetLinkMTU(mtu) == /\ mtu >= MinLinkMTU /\ mtu <= 65535
                   /\ linkMTU' = mtu

\* recomputeDatagramBudgets and flowPayloadBudget: the MTU less the UDP and IP
\* headers; an address that is not IPv4 takes the IPv6 budget.
PayloadBudget(v4) == linkMTU - 8 - (IF v4 THEN 20 ELSE 40)

-------------------------------------------------------------------------------
(* The encoders. *)

\* buildFlowEncoder, and the swap attachFlowExporter makes for an NBAR2 device.
FixedEncoders == {"netflow5", "netflow9", "ipfix", "sflow"}
Encoders == FixedEncoders \cup {"avc"}

\* PacketSizes: overhead of a datagram, size of the template set, record size.
PacketSizes(e) ==
  CASE e = "netflow5" -> [base |-> 24, templ |-> 0, rec |-> 48]
    [] e = "netflow9" -> [base |-> 24, templ |-> 84, rec |-> 46]
    [] e = "ipfix"    -> [base |-> 20, templ |-> 84, rec |-> 54]
    [] e = "sflow"    -> [base |-> 28, templ |-> 0, rec |-> 128]
    [] e = "avc"      -> [base |-> 20, templ |-> 104, rec |-> 0]

\* MaxRecordSize: a non-zero worst case replaces the record size (sFlow).
MaxRecordSize(e) == IF e = "sflow" THEN 128 ELSE 0

PerRec(e) == IF MaxRecordSize(e) > 0 THEN MaxRecordSize(e) ELSE PacketSizes(e).rec

\* The next multiple of four bytes.
Padded(n) == ((n + 3) \div 4) * 4

\* nf9DataPadBytes and ipfixDataPadBytes: the data set, its header included, is
\* padded to four bytes.
TrailingPadBytes(e, n) ==
  IF e \in {"netflow9", "ipfix"}
  THEN Padded(4 + n * PacketSizes(e).rec) - (4 + n * PacketSizes(e).rec)
  ELSE 0

\* MaxRecordsPerDatagram: NetFlow v5 stops at 30 whatever the buffer holds.
MaxRecordsPerDatagram(e) == IF e = "netflow5" THEN 30 ELSE 0

\* SeqIncrement: v9 and sFlow count datagrams, v5 and IPFIX count data records.
SeqIncrement(e, n) == IF e \in {"netflow9", "sflow"} THEN 1 ELSE n

Least(a, b) == IF a < b THEN a ELSE b

\* The overhead of a datagram, with or without the template.
Overhead(e, templ) == PacketSizes(e).base + (IF templ THEN PacketSizes(e).templ ELSE 0)

\* Size of a datagram with n records.
DatagramSize(e, n, templ) ==
  Overhead(e, templ) + n * PerRec(e) + TrailingPadBytes(e, n)

\* A slip in Tick: the trailing pad is not budgeted.
TickCapacityUnpadded(e, len, templ) ==
  IF len < Overhead(e, templ) + PerRec(e) THEN 0
  ELSE LET cap == (len - Overhead(e, templ)) \div PerRec(e) IN
       IF MaxRecordsPerDatagram(e) > 0 THEN Least(cap, MaxRecordsPerDatagram(e)) ELSE cap

\* How many records Tick puts in the next batch when more are waiting.
TickCapacity(e, len, templ) ==
  IF len < Overhead(e, templ) + PerRec(e) THEN 0
  ELSE LET full == (len - Overhead(e, templ)) \div PerRec(e)
           cap == IF DatagramSize(e, full, templ) > len THEN full - 1 ELSE full IN
       IF MaxRecordsPerDatagram(e) > 0 THEN Least(cap, MaxRecordsPerDatagram(e)) ELSE cap

\* The batch: what fits of what has expired.
BatchSize(e, len, waiting, templ) == Least(waiting, TickCapacity(e, len, templ))

NoPacket == [n |-> 0, records |-> 0, err |-> FALSE]
TooSmall == [n |-> 0, records |-> 0, err |-> TRUE]

\* EncodePacket of v9 and IPFIX: records beyond the encoder's own capacity are cut
\* off; a template without records is header and template only.
EncodeTemplated(e, r, templ, len) ==
  LET over == Overhead(e, templ)
      rec == PacketSizes(e).rec
      full == (len - over) \div rec
      max == IF full > 0 /\ over + full * rec + TrailingPadBytes(e, full) > len
             THEN full - 1 ELSE full
      kept == Least(r, max) IN
  IF r = 0 /\ ~templ THEN NoPacket
  ELSE IF len < over \/ (r > 0 /\ len < over + rec + TrailingPadBytes(e, 1)) THEN TooSmall
  ELSE [n |-> IF kept = 0 THEN over - 4 ELSE over + kept * rec + TrailingPadBytes(e, kept),
        records |-> kept, err |-> FALSE]

\* NetFlow v5: the first 30 (all synthetic records are IPv4, none is filtered).
EncodeV5(r, len) ==
  LET kept == Least(r, 30) IN
  IF kept = 0 THEN NoPacket
  ELSE IF len < 24 + kept * 48 THEN TooSmall
  ELSE [n |-> 24 + kept * 48, records |-> kept, err |-> FALSE]

\* The bytes of one flow_sample, by IP protocol: sample header, eight words, record
\* header, sampled_header with its opaque length and the padded IPv4 packet.
FlowSampleSize(proto) ==
  LET transport == IF proto = "udp" THEN 8 ELSE IF proto = "tcp" THEN 20 ELSE 0 IN
  8 + 32 + 8 + 12 + 4 + Padded(20 + transport)

\* EncodeFlowDatagram; n is the worst case over the samples.
EncodeSFlow(r, len) ==
  LET kept == Least(r, (len - 28) \div 128) IN
  IF r = 0 THEN NoPacket
  ELSE IF len < 28 + 128 THEN TooSmall
  ELSE [n |-> 28 + kept * FlowSampleSize("tcp"), records |-> kept, err |-> FALSE]

EncodePacket(e, r, templ, len) ==
  CASE e \in {"netflow9", "ipfix"} -> EncodeTemplated(e, r, templ, len)
    [] e = "netflow5" -> EncodeV5(r, len)
    [] e = "sflow" -> EncodeSFlow(r, len)
-------------------------------------------------------------------------------
(* Variable-length records: the AVC encoder. *)

\* ipfixVarLenSize.
VarLenSize(n) == IF n < 255 THEN 1 + n ELSE 3 + n

\* encodeRecord of the AVC encoder: the plain record, the application id, the host
\* behind its constant six bytes, and the URI with its NUL and hit count.
AVCRecordSize(host, uri) ==
  54 + 4 + VarLenSize(6 + host) + VarLenSize(IF uri = 0 THEN 0 ELSE uri + 3)

\* Sum of the first n sizes of a sequence.
PrefixSum(q, n) ==
  LET sum[i \in 0..n] == IF i = 0 THEN 0 ELSE sum[i - 1] + q[i] IN sum[n]

\* How many leading records of q end within limit when writing starts at pos.
Fitting(q, pos, limit) ==
  LET fits(n) == \A i \in 1..n : pos + PrefixSum(q, i) <= limit IN
  CHOOSE n \in 0..Len(q) : fits(n) /\ (n = Len(q) \/ ~fits(n + 1))

\* A slip in EncodeMeasured: an oversized record is not consumed.
EncodeMeasuredStuck(q, templ, len) ==
  LET over == 16 + (IF templ THEN 104 ELSE 0)
      kept == Fitting(q, over + 4, len - 3) IN
  IF q = <<>> THEN [n |-> IF templ THEN over ELSE 0, consumed |-> 0, dropped |-> 0]
  ELSE IF kept > 0 THEN [n |-> over + Padded(4 + PrefixSum(q, kept)), consumed |-> kept,
                         dropped |-> 0]
  ELSE IF templ THEN [n |-> over, consumed |-> 0, dropped |-> 0]
  ELSE [n |-> 0, consumed |-> 0, dropped |-> 1]

\* EncodeMeasured: as many leading records as fit before the worst-case pad.  One
\* that fits no empty datagram is consumed as dropped; behind a template it waits
\* for the next datagram.  (The budget is never below header and template.)
EncodeMeasured(q, templ, len) ==
  LET over == 16 + (IF templ THEN 104 ELSE 0)
      kept == Fitting(q, over + 4, len - 3) IN
  IF q = <<>> THEN [n |-> IF templ THEN over ELSE 0, consumed |-> 0, dropped |-> 0]
  ELSE IF kept > 0 THEN [n |-> over + Padded(4 + PrefixSum(q, kept)), consumed |-> kept,
                         dropped |-> 0]
  ELSE IF templ THEN [n |-> over, consumed |-> 0, dropped |-> 0]
  ELSE [n |-> 0, consumed |-> 1, dropped |-> 1]
-------------------------------------------------------------------------------
(* Option tables and counter samples. *)

\* The options template has one scope and two option specifiers, padded.
OptionsTemplSize == Padded(4 + 6 + 4 + 2 * 4)

OptionRecSize(shape) == IF shape = "if-scoped" THEN 4 + 2 * 32 ELSE 4 + 4 + 32

\* EncodeOptionsDatagram of v9 (header 20) and IPFIX (header 16), with
\* encodeOptionRecords: how many of r interfaces one datagram carries.
EncodeOptions(e, shape, r, len) ==
  LET over == (IF e = "netflow9" THEN 20 ELSE 16) + OptionsTemplSize + 4
      rec == OptionRecSize(shape)
      kept == Least(r, (len - over) \div rec) IN
  IF r = 0 THEN NoPacket
  ELSE IF len < over + rec THEN TooSmall
  ELSE [n |-> over + kept * rec, records |-> kept, err |-> FALSE]

AppRecSize == 4 + 24 + 55

\* EncodeAppTableDatagram: 83-byte records, the set padded.
EncodeAppTable(r, len) ==
  LET over == 16 + Padded(4 + 6 + 3 * 4) + 4
      kept == Least(r, (len - over - 3) \div AppRecSize) IN
  IF r = 0 THEN NoPacket
  ELSE IF len < over + AppRecSize + 3 THEN TooSmall
  ELSE [n |-> over - 4 + Padded(4 + kept * AppRecSize), records |-> kept, err |-> FALSE]

\* Tick's batch of counter records.
CounterBatch(r, len) == Least(r, (len - 28 - 20) \div 256)

\* EncodeCounterDatagram when every record has a source of its own, the worst case:
\* a wrapper and a record header each; one that no longer fits is dropped.
EncodeCounters(r, body, len) ==
  LET size == 20 + 8 + Padded(body)
      kept == Least(r, (len - 28) \div size) IN
  IF r = 0 THEN NoPacket
  ELSE IF len < 28 + 256 THEN TooSmall
  ELSE [n |-> IF kept = 0 THEN 0 ELSE 28 + kept * size, records |-> kept, err |-> FALSE]
-------------------------------------------------------------------------------
(* Record layouts: what the templates announce and what the encoders write. *)

\* nf9Fields, the template; each entry a field and its width.
NF9Fields ==
  <<<<"bytes", 4>>, <<"packets", 4>>, <<"protocol", 1>>, <<"tos", 1>>, <<"flags", 1>>,
    <<"srcPort", 2>>, <<"src", 4>>, <<"srcMask", 1>>, <<"in", 2>>, <<"dstPort", 2>>,
    <<"dst", 4>>, <<"dstMask", 1>>, <<"out", 2>>, <<"nextHop", 4>>, <<"srcAS", 2>>,
    <<"dstAS", 2>>, <<"end", 4>>, <<"start", 4>>, <<"direction", 1>>>>

\* ipfixFields: absolute times of eight bytes, the start first.
IPFIXFields ==
  <<<<"bytes", 4>>, <<"packets", 4>>, <<"protocol", 1>>, <<"tos", 1>>, <<"flags", 1>>,
    <<"srcPort", 2>>, <<"src", 4>>, <<"srcMask", 1>>, <<"in", 2>>, <<"dstPort", 2>>,
    <<"dst", 4>>, <<"dstMask", 1>>, <<"out", 2>>, <<"nextHop", 4>>, <<"srcAS", 2>>,
    <<"dstAS", 2>>, <<"start", 8>>, <<"end", 8>>, <<"direction", 1>>>>

\* What the two record writers share, up to the times.
WritePrefix ==
  <<<<"bytes", 4>>, <<"packets", 4>>, <<"protocol", 1>>, <<"tos", 1>>, <<"flags", 1>>,
    <<"srcPort", 2>>, <<"src", 4>>, <<"srcMask", 1>>, <<"in", 2>>, <<"dstPort", 2>>,
    <<"dst", 4>>, <<"dstMask", 1>>, <<"out", 2>>, <<"nextHop", 4>>, <<"srcAS", 2>>,
    <<"dstAS", 2>>>>

\* encodeNF9Record writes the last packet's uptime before the first's.
NF9Write == WritePrefix \o <<<<"end", 4>>, <<"start", 4>>, <<"direction", 1>>>>

\* encodeIPFIXRecord.
IPFIXWrite == WritePrefix \o <<<<"start", 8>>, <<"end", 8>>, <<"direction", 1>>>>

\* NetFlow v5 has no template; its record is fixed at 48 bytes.
V5Write ==
  <<<<"src", 4>>, <<"dst", 4>>, <<"nextHop", 4>>, <<"in", 2>>, <<"out", 2>>,
    <<"packets", 4>>, <<"bytes", 4>>, <<"start", 4>>, <<"end", 4>>, <<"srcPort", 2>>,
    <<"dstPort", 2>>, <<"pad1", 1>>, <<"flags", 1>>, <<"protocol", 1>>, <<"tos", 1>>,
    <<"srcAS", 2>>, <<"dstAS", 2>>, <<"srcMask", 1>>, <<"dstMask", 1>>, <<"pad2", 2>>>>

\* ipfixAVCFields: the plain fields, the application and two Cisco fields of
\* variable length, whose specifiers carry the enterprise number.
AVCFields == IPFIXFields \o <<<<"app", 4>>, <<"host", 65535>>, <<"uri", 65535>>>>

\* buildNF9Template, buildIPFIXTemplateSet, buildIPFIXAVCTemplateSet.
TemplateSize(fields) ==
  LET spec == [i \in DOMAIN fields |-> IF fields[i][2] = 65535 THEN 8 ELSE 4] IN
  4 + 4 + PrefixSum(spec, Len(spec))

Width(layout) == PrefixSum([i \in DOMAIN layout |-> layout[i][2]], Len(layout))
-------------------------------------------------------------------------------
(* The specification and its properties. *)

BudgetNext == \E mtu \in MTUs : SetLinkMTU(mtu)

BudgetSpec == BudgetInit /\ [][BudgetNext]_linkMTU

BudgetTypeOK == linkMTU \in Nat /\ linkMTU >= MinLinkMTU /\ linkMTU <= 65535

\* Tick never hands an encoder a record it will cut off or refuse, and never a
\* datagram larger than the budget (the two capacity computations agree, pad and
\* record ceiling included), with and without a template, on both families.
TakesAll(e, len, waiting, templ) ==
  LET batch == BatchSize(e, len, waiting, templ)
      out == EncodePacket(e, batch, templ, len) IN
  batch > 0 => /\ ~out.err
               /\ out.records = batch
               /\ out.n <= len

NothingCutOff == \A e \in FixedEncoders, v4, templ \in BOOLEAN, waiting \in 0..MaxWaiting :
                   TakesAll(e, PayloadBudget(v4), waiting, templ)

\* At every MTU an operator can configure, a datagram without the template holds a
\* record: Tick's loop ends by sending, never by an encoder that fits nothing.
LoopProgresses == \A e \in FixedEncoders, v4 \in BOOLEAN :
                    TickCapacity(e, PayloadBudget(v4), FALSE) > 0

\* Records of the AVC encoder: short and long hosts and URIs, one for the host's
\* three-byte length and one larger than any small datagram.
AVCSizes == {AVCRecordSize(0, 0), AVCRecordSize(249, 10), AVCRecordSize(200, 400)}
AVCQueues == {<<>>} \cup {<<a>> : a \in AVCSizes} \cup {<<a, b>> : a, b \in AVCSizes}

\* EncodeMeasured stays within the buffer, and a call with records waiting always
\* consumes one or spends the template: the loop around it ends.
MeasuredProgress == \A v4, templ \in BOOLEAN, q \in AVCQueues :
                      LET len == PayloadBudget(v4)
                          m == EncodeMeasured(q, templ, len) IN
                      /\ m.n <= len
                      /\ m.consumed <= Len(q)
                      /\ q # <<>> => m.consumed > 0 \/ (templ /\ m.n > 0)

OptionsFit(e, shape, r, len) == LET out == EncodeOptions(e, shape, r, len) IN
                                ~out.err /\ out.records > 0 /\ out.n <= len

AppTableFits(r, len) == LET out == EncodeAppTable(r, len) IN
                        ~out.err /\ out.records > 0 /\ out.n <= len

CountersFit(r, len) == LET batch == CounterBatch(r, len)
                           out == EncodeCounters(batch, 88, len) IN
                       batch > 0 /\ ~out.err /\ out.records = batch /\ out.n <= len

\* The option tables, the application table and the counter samples paginate
\* without an error and without losing a record at any MTU: counter bodies are
\* at most the 88 bytes of if_counters.
TablesFit ==
  \A v4 \in BOOLEAN, r \in 1..MaxWaiting :
    /\ \A e \in {"netflow9", "ipfix"}, shape \in {"if-scoped", "system-scoped"} :
         OptionsFit(e, shape, r, PayloadBudget(v4))
    /\ AppTableFits(r, PayloadBudget(v4))
    /\ CountersFit(r, PayloadBudget(v4))

\* At every MTU an operator can set, each encoder takes the whole batch Tick predicts,
\* no tick is stuck on a batch of nothing, and the tables it appends fit
\* (datagram_budget.go, flow_exporter.go and the encoders).
BatchesFit ==
  /\ BudgetTypeOK /\ NothingCutOff /\ LoopProgresses /\ TablesFit
===============================================================================
