-------------------------------- MODULE DnsZone --------------------------------
(***************************************************************************)
(* The DNS view derived from the fleet: labels from system names           *)
(* (dns_zone.go), forward and reverse records, the zones built from them,  *)
(* direct answers and the envelopes of a transfer (dns_server.go).         *)
(*                                                                         *)
(* A label is a sequence of one-character strings, a domain name a         *)
(* sequence of labels, an address a sequence of four octets of one digit.  *)
(* SOA and NS appear only where a transfer frames the records with them.   *)
(***************************************************************************)
EXTENDS Integers, Sequences, SequencesExt, FiniteSets

CONSTANTS
  Addresses,     \* addresses devices may have
  SysNames,      \* system names devices may have
  ReverseNets,   \* the networks of the configured reverse zones: octet prefixes
  LabelMax,      \* dnsLabelMax
  ChunkRecords   \* axfrChunkRecords

VARIABLE namesNow   \* the fleet: the system name of every device, by address

NoDeviceAt == << "none" >>
Letters == {"a", "b", "d", "e", "i", "p", "m", "g", "t", "v"}
DigitOf == <<"1", "2", "3", "4", "5", "6", "7", "8", "9">>
Char(n) == IF n = 0 THEN "0" ELSE DigitOf[n]
DigitChars == {Char(n) : n \in 0 .. 9}

--------------------------------------------------------------------------
(* sanitiseDNSLabel: lower case, '-' for anything else, runs collapsed,    *)
(* ends trimmed, cut to the limit and trimmed again.                       *)
ToLower(c) == IF c = "A" THEN "a" ELSE IF c = "B" THEN "b" ELSE c
KeptChar(c) == IF ToLower(c) \in Letters \cup DigitChars THEN ToLower(c) ELSE "-"
TrimRight(s) ==
  LET kept == {i \in DOMAIN s : s[i] # "-"}
  IN  IF kept = {} THEN << >> ELSE SubSeq(s, 1, CHOOSE i \in kept : \A j \in kept : j <= i)
TrimLeft(s) == Reverse(TrimRight(Reverse(s)))
Collapsed(s) ==
  FoldLeft(LAMBDA out, c : IF c = "-" /\ out # << >> /\ Last(out) = "-" THEN out ELSE Append(out, c), << >>, s)
Cut(s, n) == IF Len(s) > n THEN TrimRight(SubSeq(s, 1, n)) ELSE s
sanitiseDNSLabel(s) ==
  Cut(TrimLeft(TrimRight(Collapsed([i \in DOMAIN s |-> KeptChar(s[i])]))), LabelMax)

Dashed(octets) == FoldLeft(LAMBDA out, o : IF out = << >> THEN <<Char(o)>> ELSE out \o <<"-", Char(o)>>, << >>, octets)
ipv4Label(ip) == <<"d", "e", "v", "-">> \o Dashed(ip)
ipSuffixShort(ip) == Dashed(SubSeq(ip, 3, 4))
ipSuffixFull(ip) == Dashed(ip)

(* joinLabel: the base gives way, never the suffix.                        *)
joinLabel(base, suffix) == Cut(base, LabelMax - Len(suffix) - 1) \o <<"-">> \o suffix

(* disambiguate: the short suffix, the full address, then a counter.       *)
disambiguate(base, ip, taken) ==
  LET short == joinLabel(base, ipSuffixShort(ip))
      full == joinLabel(base, ipSuffixFull(ip))
      counted(i) == joinLabel(base, <<Char(i)>>)
      first == CHOOSE i \in 2 .. 9 : counted(i) \notin taken /\ \A j \in 2 .. i - 1 : counted(j) \in taken
  IN  IF short \notin taken THEN short ELSE IF full \notin taken THEN full ELSE counted(first)

--------------------------------------------------------------------------
(* buildZoneView, pass 1: labels in ascending order of address.            *)
NamedDevices == {ip \in Addresses : namesNow[ip] # NoDeviceAt}
AsNumber(ip) == ((ip[1] * 10 + ip[2]) * 10 + ip[3]) * 10 + ip[4]
Sorted == SetToSortSeq(NamedDevices, LAMBDA a, b : AsNumber(a) < AsNumber(b))

BaseLabel(ip) ==
  IF sanitiseDNSLabel(namesNow[ip]) = << >> THEN ipv4Label(ip) ELSE sanitiseDNSLabel(namesNow[ip])

(* The labels of the devices, in the order of Sorted.                      *)
Labels ==
  FoldLeft(LAMBDA out, ip : LET base == BaseLabel(ip)
                            IN  Append(out, IF base \in Range(out) THEN disambiguate(base, ip, Range(out)) ELSE base),
           << >>, Sorted)

(* Pass 2: two addresses and a pointer for every device.                   *)
Domain == << <<"n">>, <<"l">> >>
Arpa == << <<"a", "r">> >>
OwnName(label) == <<label>> \o Domain
MgmtName(label) == << <<"i", "p">>, <<"m", "g", "m", "t">>, label>> \o Domain
reversePTRName(ip) == [i \in 1 .. 4 |-> <<Char(ip[5 - i])>>] \o Arpa
OriginOf(net) == [i \in 1 .. Len(net) |-> <<Char(net[Len(net) + 1 - i])>>] \o Arpa

Containing(ip) == {net \in ReverseNets : IsPrefix(net, ip)}
\* Slip: the widest zone wins.
reverseZoneForWidest(ip) == CHOOSE net \in Containing(ip) : \A other \in Containing(ip) : Len(net) <= Len(other)
reverseZoneFor(ip) == CHOOSE net \in Containing(ip) : \A other \in Containing(ip) : Len(other) <= Len(net)

Record(name, kind, value) == [name |-> name, kind |-> kind, value |-> value]

(* buildZones: the records of every served origin; a reverse zone with no  *)
(* device in it exists and is empty.  The sort of the records is left out. *)
Origins == {Domain} \cup {OriginOf(net) : net \in ReverseNets}
ForwardRecords(sorted, names) ==
  FlattenSeq([i \in DOMAIN names |->
                <<Record(OwnName(names[i]), "A", <<sorted[i]>>), Record(MgmtName(names[i]), "A", <<sorted[i]>>)>>])
ReverseRecords(sorted, names, net) ==
  FlattenSeq([i \in DOMAIN names |->
                IF Containing(sorted[i]) # {} /\ reverseZoneFor(sorted[i]) = net
                THEN <<Record(reversePTRName(sorted[i]), "PTR", MgmtName(names[i]))>> ELSE << >>])
buildZones(sorted, names) ==
  [origin \in Origins |->
     IF origin = Domain THEN ForwardRecords(sorted, names)
     ELSE ReverseRecords(sorted, names, CHOOSE net \in ReverseNets : OriginOf(net) = origin)]

--------------------------------------------------------------------------
(* zoneForName and handleQuery.                                            *)
Parents(qname) == {origin \in Origins : IsSuffix(origin, qname)}
zoneForName(qname) == CHOOSE origin \in Parents(qname) : \A other \in Parents(qname) : Len(other) <= Len(origin)

handleQuery(zones, qname, qtype) ==
  LET body == Range(zones[zoneForName(qname)])
      answers == {rr \in body : rr.name = qname /\ rr.kind = qtype}
  IN  IF Parents(qname) = {} THEN [rcode |-> "REFUSED", answers |-> {}]
      ELSE IF answers # {} THEN [rcode |-> "NOERROR", answers |-> answers]
      ELSE IF \E rr \in body : rr.name = qname THEN [rcode |-> "NODATA", answers |-> {}]
      ELSE IF qname \in Origins THEN [rcode |-> "NODATA", answers |-> {}]
      ELSE [rcode |-> "NXDOMAIN", answers |-> {}]

(* handleTransfer: SOA, NS, the body and the closing SOA, in envelopes of  *)
(* at most ChunkRecords records.                                           *)
Marker(kind) == Record(<< >>, kind, << >>)
Transfer(body) == <<Marker("SOA"), Marker("NS")>> \o body \o <<Marker("SOA")>>

Envelopes(all) ==
  [k \in 1 .. (Len(all) + ChunkRecords - 1) \div ChunkRecords |->
     SubSeq(all, (k - 1) * ChunkRecords + 1,
            IF k * ChunkRecords < Len(all) THEN k * ChunkRecords ELSE Len(all))]

--------------------------------------------------------------------------
ZoneInit == namesNow = [ip \in Addresses |-> NoDeviceAt]

(* The fleet changes; the view is derived anew for every answer.           *)
DeviceAdded(ip) == namesNow[ip] = NoDeviceAt /\ \E n \in SysNames : namesNow' = [namesNow EXCEPT ![ip] = n]
DeviceRemoved(ip) == namesNow[ip] # NoDeviceAt /\ namesNow' = [namesNow EXCEPT ![ip] = NoDeviceAt]

ZoneNext == \E ip \in Addresses : DeviceAdded(ip) \/ DeviceRemoved(ip)
ZoneSpec == ZoneInit /\ [][ZoneNext]_namesNow

(* Every device gets a label of its own that is a valid label: not empty,  *)
(* within the limit, with no dash at either end, whatever the system names *)
(* are and however disambiguated names collide with given ones.            *)
LabelsAreValidAndDistinct ==
  LET names == Labels
  IN  /\ IsInjective(names)
      /\ \A i \in DOMAIN names :
           names[i] # << >> /\ Len(names[i]) <= LabelMax /\ Head(names[i]) # "-" /\ Last(names[i]) # "-"

(* Reverse and forward answers round-trip: asking for the pointer of a     *)
(* device's address yields one name, and asking for that name yields the   *)
(* address; so does the device's own name.  An address no reverse zone     *)
(* covers has no pointer.                                                  *)
AnswersRoundTrip ==
  LET sorted == Sorted
      names == Labels
      zones == buildZones(sorted, names)
      A(name) == handleQuery(zones, name, "A").answers
  IN  \A i \in DOMAIN sorted :
        LET ip == sorted[i]
            ptr == handleQuery(zones, reversePTRName(ip), "PTR")
        IN  /\ {rr.value : rr \in A(OwnName(names[i]))} = {<<ip>>}
            /\ IF Containing(ip) = {} THEN ptr.rcode = "REFUSED"
               ELSE /\ Cardinality(ptr.answers) = 1
                    /\ \A rr \in ptr.answers : {a.value : a \in A(rr.value)} = {<<ip>>}

(* A transfer loses nothing: its envelopes, each within the limit, carry   *)
(* every record of the zone between an opening and a closing SOA.          *)
TransferIsWhole ==
  LET zones == buildZones(Sorted, Labels)
  IN  \A origin \in Origins :
        LET env == Envelopes(Transfer(zones[origin]))
            got == FlattenSeq(env)
        IN  /\ \A k \in DOMAIN env : Len(env[k]) \in 1 .. ChunkRecords
            /\ Len(got) >= 3 /\ Head(got) = Marker("SOA") /\ Last(got) = Marker("SOA")
            /\ zones[origin] = SubSeq(got, 3, Len(got) - 1)

\* Every device has a valid name of its own, its address and its name lead to each
\* other, and a transfer carries the zone once between two SOA records (dns_zone.go,
\* dns_server.go).
ZonesAnswer ==
  /\ LabelsAreValidAndDistinct /\ AnswersRoundTrip /\ TransferIsWhole
=============================================================================
