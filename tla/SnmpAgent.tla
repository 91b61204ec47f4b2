------------------------------- MODULE SnmpAgent ------------------------------
(***************************************************************************)
(* What a device's SNMP agent serves at an object identifier and what      *)
(* follows it: GET (findResponseAt), the successor a walk gets             *)
(* (findNextOIDWithServed, with its fast path over the precomputed next    *)
(* map) and the sources they draw on: the profile's static rows, sysName   *)
(* and sysLocation, the metric objects, the interface counter columns and  *)
(* the LLDP / ifAlias rows of the topology.                                *)
(*                                                                         *)
(* An object identifier is a number spelled by its sub-identifiers         *)
(* (subtree, column, row, trailing one), so that compareOIDs is <.  The    *)
(* subtrees are, in order: 0 LLDP-MIB, 1 system, 2 ifTable, 3 what lies    *)
(* between, 4 ifXTable, 5 enterprises, 6 a name of two arcs beyond them.   *)
(* A value is named by its source.                                         *)
(***************************************************************************)
EXTENDS Integers, FiniteSets, FiniteSetsExt, Sequences, SequencesExt

VARIABLE mib  \* [static, ifs, metrics, cycler, lldp]: what one device has

OID(subtree, col, row, extra) == 1000 * subtree + 100 * col + 10 * row + extra
SubtreeOf(o) == o \div 1000
ColumnOf(o) == (o \div 100) * 100
RowOf(o) == (o \div 10) % 10
NoOID == -1

SysName == OID(1, 5, 0, 0)
SysLocation == OID(1, 6, 0, 0)
SystemScalars == {SysName, SysLocation}

\* ifCyclerColumns: the columns the counter cycler serves, ascending; the last is one of
\* the 64-bit ones.  ifAlias follows them in ifXTable.
CyclerColumns == {OID(2, 2, 0, 0), OID(2, 3, 0, 0), OID(4, 2, 0, 0), OID(4, 3, 0, 0)}
Counter64Column == OID(4, 3, 0, 0)

\* snmpTypeTag(oid) == ASN1_COUNTER64
IsCounter64(o) == ColumnOf(o) = Counter64Column

After(S, o) == {x \in S : x > o}
LeastOf(S) == IF S = {} THEN NoOID ELSE Min(S)
LeastAfter(S, o) == LeastOf(After(S, o))

-------------------------------------------------------------------------------
\* The sources.

\* GetDynamicAt: an owned column at an owned row.
CyclerOwns == {c + 10 * i : c \in CyclerColumns, i \in mib.ifs}

FirstRow(c) == c + 10 * Min(mib.ifs)

\* NextDynamicOID: from inside a table the next row of the column, else the next owned
\* column; from anywhere else the very first row, or nothing past it.  A name that only
\* spells the table is not inside it.
NextDynamic(o) ==
  LET inTable == SubtreeOf(o) \in {2, 4} /\ o % 1000 # 0
      first == FirstRow(Min(CyclerColumns))
      here == {c \in CyclerColumns : c >= ColumnOf(o)}
      c == Min(here)
      rows == {i \in mib.ifs : i >= RowOf(o) + 1}
  IN
  IF mib.ifs = {} THEN NoOID
  ELSE IF ~inTable THEN IF o < first THEN first ELSE NoOID
  ELSE IF here = {} THEN NoOID
  ELSE IF c # ColumnOf(o) THEN FirstRow(c)
  ELSE IF rows # {} THEN c + 10 * Min(rows)
  ELSE IF here = {c} THEN NoOID ELSE FirstRow(Min(here \ {c}))

\* GetSortedMetricOIDs: what the profile's vendor defines.
VendorMetrics == mib.metrics

\* getMetricValue answers only on a device with a cycler.
ServedMetrics == IF mib.cycler THEN VendorMetrics ELSE {}

\* findResponseAt: the first source that answers.
GetSource(o) ==
  IF o \in SystemScalars THEN "system"
  ELSE IF o \in ServedMetrics THEN "metric"
  ELSE IF o \in CyclerOwns THEN "counter"
  ELSE IF o \in mib.lldp THEN "lldp"
  ELSE IF o \in mib.static THEN "static"
  ELSE "noSuchObject"

Served == SystemScalars \cup ServedMetrics \cup CyclerOwns \cup mib.lldp \cup mib.static

-------------------------------------------------------------------------------
\* The successor.

\* oidNextMap, built with the profile: only a static object has an entry.
Precomputed(o) == IF o \in mib.static THEN LeastAfter(mib.static, o) ELSE NoOID

\* overrideIfHC, then overrideLLDP: the dynamic value wins over the candidate's.
Override(o, source) ==
  IF o \in mib.lldp THEN "lldp"
  ELSE IF o \in CyclerOwns THEN "counter"
  ELSE source

\* A slip: the LLDP rows are left out of the clearance.
FastPathClearBlind(o, next) ==
  /\ \/ VendorMetrics = {} \/ next <= Min(VendorMetrics) \/ o >= Max(VendorMetrics)
  /\ \/ mib.ifs = {} \/ next <= FirstRow(Min(CyclerColumns)) \/ o >= Max(CyclerOwns)

\* The fast path: nothing dynamic lies between the name and its static successor.
FastPathClear(o, next) ==
  /\ \/ VendorMetrics = {} \/ next <= Min(VendorMetrics) \/ o >= Max(VendorMetrics)
  /\ \/ mib.ifs = {} \/ next <= FirstRow(Min(CyclerColumns)) \/ o >= Max(CyclerOwns)
  /\ LET l == LeastAfter(mib.lldp, o) IN l = NoOID \/ l > next

\* The candidates of the slow path, each with the value it came with; the static one is
\* first and wins a tie.  A profile with no rows at all offers only the scalars and LLDP.
Candidates(o) ==
  LET from(source, S) == {<<x, source>> : x \in S \ {NoOID}} IN
  from("system", After(SystemScalars, o)) \cup from("lldp", {LeastAfter(mib.lldp, o)}) \cup
  IF mib.static = {} THEN {}
  ELSE from("static", {LeastAfter(mib.static, o)}) \cup from("metric", {LeastAfter(ServedMetrics, o)})
         \cup from("counter", {NextDynamic(o)})

\* What a walk finds: a name and the source of its value, or the end of the MIB.
Found(o, source) == [oid |-> o, source |-> source]
EndOfMib == Found(NoOID, "endOfMibView")

LeastCandidate(cands) ==
  IF cands = {} THEN EndOfMib
  ELSE LET best == Min({c[1] : c \in cands}) IN
       Found(best, Override(best, IF <<best, "static">> \in cands THEN "static"
                                  ELSE (CHOOSE c \in cands : c[1] = best)[2]))

\* findNextOIDWithServed
FindNext(o) ==
  IF Precomputed(o) # NoOID /\ FastPathClear(o, Precomputed(o))
  THEN Found(Precomputed(o), Override(Precomputed(o), "static"))
  ELSE LeastCandidate(Candidates(o))

\* The binding a name is answered with: its successor, or itself at the end.
BoundTo(o, n) == <<IF n.oid = NoOID THEN o ELSE n.oid, n.source>>

-------------------------------------------------------------------------------
\* Where a walk goes, over the names a manager may send.

\* A successor is beyond the name it was asked for and is served by a GET: a walk
\* can neither loop nor name an object that is not there.
WalkAdvances(o) ==
  LET n == FindNext(o).oid IN n # NoOID => n > o /\ n \in Served

\* A walk passes over nothing a GET would answer, the two scalars apart.
WalkSkipsNothing(o) ==
  \A x \in After(Served \ SystemScalars, o) : FindNext(o).oid # NoOID /\ FindNext(o).oid <= x

\* A walk serves an object from the source a GET serves it from, unless it is a metric
\* the profile also ships a row for.
WalkAgreesWithGet(o) ==
  LET n == FindNext(o) IN
  n.oid # NoOID /\ n.oid \notin ServedMetrics \cap mib.static => n.source = GetSource(n.oid)

-------------------------------------------------------------------------------
(***************************************************************************)
(* One request to a device's SNMP agent and its answer: GET, GETNEXT and   *)
(* GETBULK at v1, v2c (handleSNMPv2cRequest, createVarbindResponse) and v3 *)
(* (handleSNMPv3Request, handleSNMPv3GetBulk, largestFittingPrefix) over   *)
(* the objects of SnmpWalk.  A request's list of names parsed, or was      *)
(* malformed, or was not reached.  A binding is <<name, source>>; only its *)
(* size and its source are kept of its value.                              *)
(***************************************************************************)
CONSTANTS
  Mibs,            \* the devices looked at
  Requests,        \* the requests sent to them
  MaxResponseSize, \* maxSNMPResponseSize
  MinMsgMaxSize,   \* snmpV3MinMsgMaxSize
  LongestRun       \* longestShippedCounter64Run

VARIABLES
  req,    \* [version, kind, list, names, nonRep, maxRep, maxSize]
  answer  \* [status, index, bindings]

agentVars == <<mib, req, answer>>

Pending == [status |-> "pending", index |-> 0, bindings |-> <<>>]
Silence == [Pending EXCEPT !.status = "silence"]
Reply(status, index, bs) == [status |-> status, index |-> index, bindings |-> bs]
SysDescr == OID(1, 1, 0, 0)
Exceptions == {"noSuchObject", "endOfMibView"}

MinVarbindSize == 15
NameBytes(o) == IF SubtreeOf(o) = 6 THEN 1 ELSE 8 + RowOf(o)

\* What a binding takes: a description is long, a value has one byte at least, and an
\* exception has none, so that it can be smaller than minVarbindSize.
BindingSize(b) ==
  IF b[2] \in Exceptions THEN 6 + NameBytes(b[1])
  ELSE IF b[1] = SysDescr THEN 130 ELSE 7 + NameBytes(b[1])

\* The sizes of a list, summed size by size.
ListSize(bs) ==
  FoldSet(LAMBDA z, n : n + z * Cardinality({i \in DOMAIN bs : BindingSize(bs[i]) = z}),
          0, {BindingSize(bs[i]) : i \in DOMAIN bs})

LenBytesFor(n) == IF n < 128 THEN 1 ELSE IF n < 256 THEN 2 ELSE 3
Tlv(n) == 1 + LenBytesFor(n) + n

\* snmpMessageSizeFor, with the version and community, and the three PDU integers.
MsgPrefix == 11
PduPrefix == 9
MessageSizeFor(n) == Tlv(MsgPrefix + Tlv(PduPrefix + Tlv(n)))
MeasuredV3Size(bs) == MessageSizeFor(ListSize(bs)) + 40

-------------------------------------------------------------------------------
\* GETNEXT at v1 and v2c.

MaxGetNextBindings == MaxResponseSize \div MinVarbindSize

\* counter64SkipBudgetSteps
SkipBudget == MaxGetNextBindings * LongestRun

\* The skip run of getNextBinding: a v1 manager is given the first successor that is not
\* a 64-bit counter; the run ends on the budget or on a successor that does not advance.
RECURSIVE Skip(_, _)
Skip(n, budget) ==
  IF n.oid = NoOID \/ ~IsCounter64(n.oid) THEN [next |-> n, left |-> budget]
  ELSE IF budget = 0 THEN [next |-> EndOfMib, left |-> 0]
  ELSE LET s == FindNext(n.oid) IN
       IF s.oid # NoOID /\ s.oid <= n.oid
         THEN [next |-> EndOfMib, left |-> budget - 1]
         ELSE Skip(s, budget - 1)

\* getNextBindingsForRequest: each name's own successor, the skip budget shared; a name
\* with no successor is answered under its own name.
GetNextBindings(names, version) ==
  LET add(acc, o, s) == [left |-> s.left, bs |-> Append(acc.bs, BoundTo(o, s.next))]
  IN FoldLeft(LAMBDA acc, o :
                IF version = "v1" THEN add(acc, o, Skip(FindNext(o), acc.left))
                ELSE add(acc, o, [next |-> FindNext(o), left |-> acc.left]),
              [left |-> SkipBudget, bs |-> <<>>], names).bs

-------------------------------------------------------------------------------
\* createVarbindResponse.

\* The longest prefix that fits the datagram.
Fitting(bs) == Max({k \in 0..Len(bs) : MessageSizeFor(ListSize(SubSeq(bs, 1, k))) <= MaxResponseSize})

\* The position of the first binding a v1 manager cannot be given, or 0.
FirstOffence(bs, counter64Too) ==
  LET bad == {k \in 1..Len(bs) : bs[k][2] \in Exceptions \/ (counter64Too /\ IsCounter64(bs[k][1]))}
  IN IF bad = {} THEN 0 ELSE Min(bad)

\* The rules of the three constructors: GETBULK truncates, to one binding at least, and
\* diverts nothing; GET and GETNEXT say tooBig; GETNEXT diverts exceptions only.
VarbindResponse(kind, version, names, bs) ==
  LET offence == IF version = "v1" /\ kind # "getbulk" THEN FirstOffence(bs, kind = "get") ELSE 0
      k == Fitting(bs)
  IN
  IF offence > 0 THEN Reply("noSuchName", offence, [i \in 1..Len(names) |-> <<names[i], "null">>])
  ELSE IF k = Len(bs) THEN Reply("noError", 0, bs)
  ELSE IF kind = "getbulk" THEN Reply("noError", 0, SubSeq(bs, 1, IF k = 0 THEN 1 ELSE k))
  ELSE Reply("tooBig", 0, <<>>)

-------------------------------------------------------------------------------
\* GETBULK.

\* clampBulkWalk
ClampBulkWalk(maxRep, cols) ==
  LET ceiling == (MaxResponseSize \div MinVarbindSize) \div cols + 1 IN
  IF maxRep > ceiling THEN ceiling ELSE maxRep

\* bulkStep: v3 also ends a column on a successor that does not advance.
BulkStep(o, version) ==
  LET advancing(n) == IF version = "v3" /\ n.oid # NoOID /\ n.oid <= o THEN EndOfMib ELSE n
  IN advancing(FindNext(o))

\* One repetition: each column's next binding; an ended column is padded under the name
\* it was asked for.  at holds the columns' cursors, NoOID for an ended one.
Repetition(at, cols, version) ==
  LET bound(step) == [at |-> [c \in DOMAIN cols |-> step[c].oid],
                      bs |-> [c \in DOMAIN cols |-> BoundTo(cols[c], step[c])]]
  IN bound([c \in DOMAIN cols |-> IF at[c] = NoOID THEN EndOfMib ELSE BulkStep(at[c], version)])

\* The repeater loop; v3 with a single column stops where it ended instead of padding.
RECURSIVE Repeat(_, _, _, _)
Repeat(at, cols, version, reps) ==
  LET then(r) == r.bs \o Repeat(r.at, cols, version, reps - 1) IN
  IF reps = 0 \/ (version = "v3" /\ Len(cols) = 1 /\ at[1] = NoOID) THEN <<>>
  ELSE then(Repetition(at, cols, version))

\* The single v3 column drops an ended repetition unless it is the first.
Repeaters(cols, version, reps) ==
  LET trimmed(bs) == IF version = "v3" /\ Len(cols) = 1 /\ Len(bs) > 1 /\ Last(bs)[2] = "endOfMibView"
                     THEN Front(bs) ELSE bs
  IN trimmed(Repeat(cols, cols, version, reps))

BulkBindings(names, version, nonRep, reps) ==
  LET n == IF nonRep > Len(names) THEN Len(names) ELSE nonRep
      first == [i \in 1..n |-> BoundTo(names[i], BulkStep(names[i], version))]
      cols == SubSeq(names, n + 1, Len(names))
  IN first \o (IF cols = <<>> \/ reps = 0 THEN <<>> ELSE Repeaters(cols, version, reps))

\* parseGetBulkParams and parseSNMPv3GetBulkParams: -1 stands for one that is negative or
\* cannot be read.
NonRepeaters(r) == IF r.nonRep < 0 THEN 0 ELSE r.nonRep
MaxRepetitions(r) == IF r.maxRep < 0 THEN 10 ELSE r.maxRep

\* What the handlers walk: the repetitions are clamped by the columns that repeat.
WalkedBulk(r) ==
  LET cols == Len(r.names) - NonRepeaters(r) IN
  BulkBindings(r.names, r.version, NonRepeaters(r), IF cols <= 0 THEN 0 ELSE ClampBulkWalk(MaxRepetitions(r), cols))

-------------------------------------------------------------------------------
\* createSNMPv3GetBulkResponse: the bisection of largestFittingPrefix.

V3Limit(r) == IF r.maxSize >= MinMsgMaxSize /\ r.maxSize < MaxResponseSize THEN r.maxSize ELSE MaxResponseSize

RECURSIVE Bisect(_, _, _, _)
Bisect(bs, limit, lo, hi) ==
  LET mid == lo + (hi - lo) \div 2 IN
  IF hi - lo <= 1 THEN lo
  ELSE IF MeasuredV3Size(SubSeq(bs, 1, mid)) <= limit THEN Bisect(bs, limit, mid, hi)
  ELSE Bisect(bs, limit, lo, mid)

LargestFittingPrefix(bs, limit) ==
  IF MeasuredV3Size(bs) <= limit \/ Len(bs) = 1 THEN bs ELSE SubSeq(bs, 1, Bisect(bs, limit, 1, Len(bs)))

-------------------------------------------------------------------------------
\* The two dispatchers.

GetBindings(names) == [i \in 1..Len(names) |-> <<names[i], GetSource(names[i])>>]

\* parseAllOIDsFromRequest, and parseIncomingRequest for what is answered without a list.
AllOIDs(r) == IF r.list = "absent" \/ r.names = <<>> THEN <<SysDescr>> ELSE r.names

\* extractOIDAndTypeFromScopedPDU: the first name, whatever comes after it.
HasFirstOID(r) == r.list # "absent" /\ r.names # <<>>

\* getPDUType: whatever is not one of the others is taken for a GET; v3 discards it
\* (servedPDUTag).
KindOf(r) == IF r.kind = "other" THEN "get" ELSE r.kind

\* handleSNMPv2cRequest: a malformed list is discarded, a missing or empty one falls back
\* on the name the request parser defaults to.
AnswerV2c(r) ==
  LET names == AllOIDs(r)
      q == [r EXCEPT !.names = names]
  IN
  IF r.list = "malformed" THEN Silence
  ELSE IF KindOf(r) = "get" THEN VarbindResponse("get", r.version, names, GetBindings(names))
  ELSE IF r.kind = "getbulk" THEN VarbindResponse("getbulk", r.version, names, WalkedBulk(q))
  ELSE IF Len(names) > MaxGetNextBindings THEN Reply("tooBig", 0, <<>>)
  ELSE VarbindResponse("getnext", r.version, names, GetNextBindings(names, r.version))

\* handleSNMPv3Request after the security checks: without a first name there is nothing
\* to serve; GET and GETNEXT answer the first name, GETBULK every column.
AnswerV3(r) ==
  LET fitted(bs) == IF bs = <<>> THEN bs ELSE LargestFittingPrefix(bs, V3Limit(r)) IN
  IF ~HasFirstOID(r) \/ r.kind = "other" THEN Silence
  ELSE IF r.kind = "get" THEN Reply("noError", 0, GetBindings(<<r.names[1]>>))
  ELSE IF r.kind = "getnext" THEN Reply("noError", 0, <<BoundTo(r.names[1], FindNext(r.names[1]))>>)
  ELSE IF r.list = "malformed" THEN Silence
  ELSE Reply("noError", 0, fitted(WalkedBulk(r)))

AgentInit == mib \in Mibs /\ req \in Requests /\ answer = Pending

\* handleSingleRequest
HandleSingleRequest ==
  /\ answer = Pending
  /\ answer' = IF req.version = "v3" THEN AnswerV3(req) ELSE AnswerV2c(req)
  /\ UNCHANGED <<mib, req>>

\* The same loop reads the next datagram.
Sent == answer # Pending /\ answer' = Pending /\ UNCHANGED <<mib, req>>

AgentNext == HandleSingleRequest \/ Sent

-------------------------------------------------------------------------------
\* Properties.

Answered == answer # Pending
Bindings == answer.bindings
SuccessorOf(o) == BoundTo(o, FindNext(o))

\* A successor lies beyond the name it was asked for and a GET would find it there, so
\* that a walk ends and names nothing that is absent (findNextOIDWithServed).
WalksAdvance == \A i \in 1..Len(req.names) : WalkAdvances(req.names[i])

\* A walk passes over no object a GET would answer, sysName and sysLocation apart,
\* whatever source holds it (the fast path's clearance against five sources).
WalksSkipNothing == \A i \in 1..Len(req.names) : WalkSkipsNothing(req.names[i])

\* A walk serves what a GET serves: the live value wins over the profile's row on the
\* fast path too (overrideIfHC, overrideLLDP), metrics with a shipped row apart.
WalksAgreeWithGet == \A i \in 1..Len(req.names) : WalkAgreesWithGet(req.names[i])

\* A v1 manager is never given a 64-bit counter or an exception value, and is told
\* noSuchName on a walk only when nothing it could be given follows the name at the index
\* (createVarbindResponse's diversions, the shared skip budget of getNextBinding).
V1WalkWhole ==
  Answered /\ req.version = "v1" /\ req.kind # "getbulk" =>
    /\ answer.status = "noError" =>
         \A i \in 1..Len(Bindings) : ~IsCounter64(Bindings[i][1]) /\ Bindings[i][2] \notin Exceptions
    /\ answer.status = "noSuchName" /\ req.kind = "getnext" =>
         \A x \in After(Served \ SystemScalars, req.names[answer.index]) : IsCounter64(x)

\* GET and GETNEXT are all or nothing: every name is answered, or none; an error echoes
\* the names of the request and points at the first that failed.
AllOrNothing ==
  LET names == AllOIDs(req) IN
  Answered /\ req.version # "v3" /\ req.kind # "getbulk" /\ answer # Silence =>
    \/ answer.status = "noError" /\ Len(Bindings) = Len(names) /\ MessageSizeFor(ListSize(Bindings)) <= MaxResponseSize
    \/ answer.status = "tooBig" /\ Bindings = <<>>
    \/ /\ answer.status = "noSuchName"
       /\ [i \in 1..Len(Bindings) |-> Bindings[i][1]] = names
       /\ \A i \in 1..answer.index - 1 :
            KindOf(req) = "get" => GetSource(names[i]) # "noSuchObject" /\ ~IsCounter64(names[i])

\* A GETBULK answer is the part of the unclamped walk that fits the datagram and the
\* manager's own limit, one binding at least: neither clampBulkWalk nor the bisection of
\* largestFittingPrefix costs it a binding, unless it has an exception smaller than the
\* minVarbindSize the clamp counts with (snmp_handlers.go:997); then it may stop short.
BulkIsMaximal ==
  Answered /\ req.kind = "getbulk" /\ req.list = "ok" /\ req.names # <<>> =>
    LET size(bs) == IF req.version = "v3" THEN MeasuredV3Size(bs) ELSE MessageSizeFor(ListSize(bs))
        limit == IF req.version = "v3" THEN V3Limit(req) ELSE MaxResponseSize
        fitting(bs) == {k \in 1..Len(bs) : size(SubSeq(bs, 1, k)) <= limit}
        cut(bs) == IF bs = <<>> THEN bs ELSE SubSeq(bs, 1, Max(fitting(bs) \cup {1}))
        whole == cut(BulkBindings(req.names, req.version, NonRepeaters(req), MaxRepetitions(req)))
    IN /\ IsPrefix(Bindings, whole)
       /\ Bindings = whole \/ \E b \in Range(Bindings) : BindingSize(b) < MinVarbindSize

\* GETBULK is a GETNEXT for every binding: the non-repeaters' successors, then in each
\* repetition every column's successor of its previous binding, an ended column staying
\* ended under the name asked for (handleGetBulk, handleSNMPv3GetBulk).
BulkIsIteratedNext ==
  Answered /\ req.kind = "getbulk" /\ req.list = "ok" /\ req.names # <<>> =>
    LET n == IF NonRepeaters(req) > Len(req.names) THEN Len(req.names) ELSE NonRepeaters(req)
        cols == Len(req.names) - n
    IN \A k \in 1..Len(Bindings) :
         IF k <= Len(req.names) THEN Bindings[k] = SuccessorOf(req.names[k])
         ELSE IF Bindings[k - cols][2] = "endOfMibView" THEN Bindings[k] = Bindings[k - cols]
         ELSE LET s == SuccessorOf(Bindings[k - cols][1]) IN
              Bindings[k] = IF s[2] = "endOfMibView" THEN <<req.names[n + ((k - n - 1) % cols) + 1], s[2]>> ELSE s

\* A manager that walks sees every object once, in order and as a GET shows it, by
\* GETNEXT or by GETBULK, at v1, v2c and v3, and every answer fits (snmp_handlers.go,
\* snmp_response.go, snmpv3.go).
WalksWhole ==
  /\ WalksAdvance /\ WalksSkipNothing /\ WalksAgreeWithGet /\ V1WalkWhole
  /\ AllOrNothing /\ BulkIsMaximal /\ BulkIsIteratedNext
===============================================================================
