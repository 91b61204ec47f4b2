-------------------------------- MODULE Framing -------------------------------
(***************************************************************************)
(* The syslog encoders (RFC 5424 and RFC 3164) and the framings of the     *)
(* stream transports (RFC 6587): fields are sanitised, structured-data     *)
(* values are escaped, an oversized message is refused, and what was       *)
(* encoded is framed and appended to the stream.                           *)
(*                                                                         *)
(* A field is a short sequence over character classes: "a" stands for the  *)
(* printable characters that mean nothing to a parser, the rest for the    *)
(* ones that do.  PRI with the version, the timestamp, the structured-data *)
(* identifier and each key are one character each: they are built from     *)
(* numbers and checked names, never from what a caller supplies.           *)
(* Reference definitions of what a collector reads (Parse5424, Parse3164,  *)
(* Unframe) follow the RFCs, as the comments in the code cite them.        *)
(***************************************************************************)
EXTENDS Integers, Sequences, SequencesExt, TLC, FiniteSetsExt

CONSTANTS
  WireMessages,       \* the resolved messages that may be fired
  MaxMessageBytes,    \* maxSyslogMessageBytes
  TagMax,             \* syslogTagMaxLen
  MaxFrames           \* bound on the messages on one stream

ASSUME WireConstants ==
  /\ MaxMessageBytes \in Nat /\ TagMax \in Nat /\ MaxFrames \in Nat
  /\ \A m \in WireMessages : DOMAIN m = {"host", "app", "id", "sd", "msg"}

VARIABLES
  format,   \* SyslogFormat of the exporter
  framing,  \* SyslogFraming of its transport
  stream,   \* the bytes on the connection
  sent      \* the encoded messages, in order

wireVars == <<format, framing, stream, sent>>

(***************************************************************************)
(* Sanitising.  "RB" stands for every delimiter the code lists: the angle  *)
(* and square brackets; the double quote is "Q".                           *)
(***************************************************************************)
\* Slip: only control characters are replaced in a host name.
sanitiseHostnameControlsOnly(s) == [i \in DOMAIN s |-> IF s[i] = "LF" THEN "_" ELSE s[i]]

sanitiseHostname(s) ==
  [i \in DOMAIN s |-> CASE s[i] = "SP" -> "-"
                        [] s[i] \in {"LF", "RB", "Q"} -> "_"
                        [] OTHER -> s[i]]

sanitiseHeaderField(s) ==
  [i \in DOMAIN s |-> IF s[i] \in {"SP", "LF", "RB", "Q"} THEN "_" ELSE s[i]]

sanitiseMessageBody(s) == [i \in DOMAIN s |-> IF s[i] = "LF" THEN "SP" ELSE s[i]]

(***************************************************************************)
(* RFC 5424.  PROCID is always the nil value; m.id is MSGID.               *)
(***************************************************************************)
writeField(s) == IF s = <<>> THEN <<"NIL">> ELSE s

writeSDParamValue(s) ==
  FlattenSeq([i \in DOMAIN s |-> IF s[i] \in {"Q", "BS", "RB"} THEN <<"BS", s[i]>> ELSE <<s[i]>>])

StructuredData(values) ==
  IF values = <<>> THEN <<"NIL">>
  ELSE <<"LB">> \o FlattenSeq([i \in DOMAIN values |->
         <<"SP", "KEY", "Q">> \o writeSDParamValue(sanitiseMessageBody(values[i])) \o <<"Q">>])
       \o <<"RB">>

Body(m) == IF m.msg = <<>> THEN <<>> ELSE <<"SP">> \o sanitiseMessageBody(m.msg)

Encode5424(m) ==
  <<"PRI", "SP", "TS", "SP">> \o writeField(sanitiseHostname(m.host)) \o <<"SP">>
    \o writeField(sanitiseHeaderField(m.app)) \o <<"SP", "NIL", "SP">>
    \o writeField(sanitiseHeaderField(m.id)) \o <<"SP">>
    \o StructuredData(m.sd) \o Body(m)

(***************************************************************************)
(* RFC 3164: no host, no message; the tag is cut to its maximum.           *)
(***************************************************************************)
Tag(m) ==
  LET t == IF m.app = <<>> THEN <<"a">> ELSE sanitiseHeaderField(m.app)
  IN  SubSeq(t, 1, IF Len(t) > TagMax THEN TagMax ELSE Len(t))

Encode3164(m) ==
  <<"PRI", "TS", "SP">> \o sanitiseHostname(m.host) \o <<"SP">> \o Tag(m) \o <<"COLON">>
    \o Body(m)

Encode(f, m) == IF f = "5424" THEN Encode5424(m) ELSE Encode3164(m)

Encodes(f, m) ==
  /\ f = "3164" => m.host # <<>>
  /\ Len(Encode(f, m)) <= MaxMessageBytes

(***************************************************************************)
(* Framing: the byte count and a space before the message, or a line feed  *)
(* after it.                                                               *)
(***************************************************************************)

frame(fr, b) ==
  IF fr = "non-transparent" THEN Append(b, "LF") ELSE <<ToString(Len(b)), "SP">> \o b

WireInit ==
  /\ format \in {"5424", "3164"}
  /\ framing \in {"octet-counting", "non-transparent"}
  /\ stream = <<>> /\ sent = <<>>

\* One message is resolved, encoded and written; one that does not encode
\* counts as a failure and leaves the stream alone.
FireMessage(m) ==
  /\ Len(sent) < MaxFrames
  /\ Encodes(format, m)
  /\ sent' = Append(sent, m)
  /\ stream' = stream \o frame(framing, Encode(format, m))
  /\ UNCHANGED <<format, framing>>

WireNext == \E m \in WireMessages : FireMessage(m)

(***************************************************************************)
(* What a collector reads.                                                 *)
(***************************************************************************)
Lengths == [n \in {ToString(i) : i \in 0 .. MaxMessageBytes + 1} |->
              CHOOSE i \in 0 .. MaxMessageBytes + 1 : ToString(i) = n]

First(s, c) == CHOOSE i \in DOMAIN s : s[i] = c /\ \A j \in 1 .. i - 1 : s[j] # c

Rest(s, i) == SubSeq(s, i + 1, Len(s))

Unframe[s \in Seq(STRING)] ==
  IF s = <<>> THEN <<>>
  ELSE IF framing = "non-transparent"
       THEN IF \A i \in DOMAIN s : s[i] # "LF" THEN <<s>>
            ELSE LET n == First(s, "LF")
                 IN  <<SubSeq(s, 1, n - 1)>> \o Unframe[Rest(s, n)]
       ELSE IF s[1] \notin DOMAIN Lengths THEN << <<"garbage">> >>
            ELSE LET n == Lengths[s[1]]
                 IN  <<SubSeq(s, 3, n + 2)>> \o Unframe[Rest(s, n + 2)]

\* The end of a quoted value that starts after position i, and what it says.
ValueEnd[i \in Nat, s \in Seq(STRING)] ==
  IF i > Len(s) THEN i
  ELSE IF s[i] = "Q" THEN i
  ELSE IF s[i] = "BS" THEN ValueEnd[i + 2, s] ELSE ValueEnd[i + 1, s]

Unescape[s \in Seq(STRING)] ==
  IF s = <<>> THEN <<>>
  ELSE IF s[1] = "BS" /\ Len(s) > 1 THEN <<s[2]>> \o Unescape[Rest(s, 2)]
  ELSE <<s[1]>> \o Unescape[Rest(s, 1)]

\* The values of a structured-data element, and what follows it.
ParseSD[s \in Seq(STRING)] ==
  IF s = <<>> THEN [values |-> << <<"unterminated">> >>, rest |-> <<>>]
  ELSE IF s[1] = "RB" THEN [values |-> <<>>, rest |-> Rest(s, 1)]
  ELSE LET e == ValueEnd[4, s]
           next == ParseSD[Rest(s, e)]
       IN  [values |-> <<Unescape[SubSeq(s, 4, e - 1)]>> \o next.values, rest |-> next.rest]

BodyOf(s) == IF s = <<>> THEN <<>> ELSE Rest(s, 1)

\* A header field ends at the first space; what follows the space.
Token(s) == SubSeq(s, 1, First(s, "SP") - 1)
After(s) == Rest(s, First(s, "SP"))

Parse5424(b) ==
  LET host == SubSeq(b, 5, Len(b))
      app == After(host)
      proc == After(app)
      id == After(proc)
      d == After(id)
      sd == IF d[1] = "NIL" THEN [values |-> <<>>, rest |-> Rest(d, 1)]
            ELSE ParseSD[Rest(d, 1)]
  IN  [host |-> Token(host), app |-> Token(app), proc |-> Token(proc), id |-> Token(id),
       sd |-> sd.values, msg |-> BodyOf(sd.rest)]

\* The tag ends at the first colon; what follows it is the message.
Parse3164(b) ==
  LET host == SubSeq(b, 4, Len(b))
      tag == After(host)
      k == First(tag, "COLON")
  IN  [host |-> Token(host), app |-> SubSeq(tag, 1, k - 1), msg |-> Rest(tag, k)]

Sent5424(m) ==
  [host |-> writeField(sanitiseHostname(m.host)), app |-> writeField(sanitiseHeaderField(m.app)),
   proc |-> <<"NIL">>, id |-> writeField(sanitiseHeaderField(m.id)),
   sd |-> [i \in DOMAIN m.sd |-> sanitiseMessageBody(m.sd[i])], msg |-> sanitiseMessageBody(m.msg)]

\* Where a tag holds a colon, which sanitiseHeaderField lets through, the rest of it is
\* read as the start of the message.
Sent3164(m) ==
  LET tag == Tag(m)
      k == IF "COLON" \in Range(tag) THEN First(tag, "COLON") ELSE Len(tag) + 1
  IN  [host |-> sanitiseHostname(m.host), app |-> SubSeq(tag, 1, k - 1),
       msg |-> (IF k > Len(tag) THEN <<>> ELSE Rest(tag, k) \o <<"COLON">>) \o Body(m)]

(***************************************************************************)
(* Properties.                                                             *)
(***************************************************************************)
\* A collector that follows RFC 6587 splits the stream into exactly the
\* messages sent, whatever they contain: line-feed framing relies on the
\* sanitising of every field that reaches the wire.
FramesSplitBack ==
  Unframe[stream] = [i \in DOMAIN sent |-> Encode(format, sent[i])]

\* Every RFC 5424 message parses back into the sanitised fields it was built from: no
\* field, escaped value or message body can pose as another field.  Of RFC 3164 the same
\* holds of the host, and of the tag and the message unless the tag holds a colon: then
\* the tag ends there, and the message begins with what is left of it.
FieldsParseBack ==
  \A i \in DOMAIN sent :
    LET b == Encode(format, sent[i])
    IN  IF format = "5424" THEN Parse5424(b) = Sent5424(sent[i]) ELSE Parse3164(b) = Sent3164(sent[i])

-------------------------------------------------------------------------------
(***************************************************************************)
(* NETCONF message framing (netconf_framing.go): the end-of-message marker *)
(* of base:1.0 and the chunks of base:1.1.  The stream carries what the    *)
(* framer wrote, or what a client wrote in chunks of its own; the reader   *)
(* is run over all of it.                                                  *)
(***************************************************************************)
CONSTANTS
  FrameBytes,      \* the bytes of messages
  LongestMessage,  \* bound: their length
  MaxBytes,        \* netconfMaxMessageBytes
  MaxMessages      \* bound: messages in the stream

VARIABLES
  chunked,   \* framer.chunked
  frBytes,    \* the bytes
  frWritten    \* what was written: messages, and frames to be refused

frVars == <<chunked, frBytes, frWritten>>

EOM == <<"]", "]", ">", "]", "]", ">">>
DecDigits == <<"0", "1", "2", "3", "4", "5", "6", "7", "8", "9">>
FrameMessages == BoundedSeq(FrameBytes, LongestMessage)
Value(d) == SelectInSeq(DecDigits, LAMBDA x : x = d) - 1
Digit(n) == DecDigits[n + 1]

FrameRefused == [ok |-> FALSE, msg |-> << >>, rest |-> << >>]
Got(msg, rest) == [ok |-> TRUE, msg |-> msg, rest |-> rest]

\* readEOM: up to the first marker.
readEOM(s) ==
  LET ends == {i \in Len(EOM) .. Len(s) : SubSeq(s, i - Len(EOM) + 1, i) = EOM} IN
  IF ends = {} \/ Min(ends) - Len(EOM) > MaxBytes THEN FrameRefused
  ELSE Got(SubSeq(s, 1, Min(ends) - Len(EOM)), SubSeq(s, Min(ends) + 1, Len(s)))

\* The digits of a chunk size: at most ten, none but digits, no leading zero.
SizeOK(d) ==
  /\ Len(d) \in 1 .. 10 /\ d[1] # "0"
  /\ \A i \in 1 .. Len(d) : d[i] \in Range(DecDigits)

SizeOf(d) == FoldLeft(LAMBDA n, x : 10 * n + Value(x), 0, d)

\* The size limit covers the message, summed over its chunks.
TooLong(msg, n) == Len(msg) + n > MaxBytes

RECURSIVE readChunked(_, _)
readChunked(s, msg) ==
  LET ends == {i \in 3 .. Len(s) : s[i] = "\n"} IN
  IF Len(s) < 4 \/ ends = {} \/ SubSeq(s, 1, 2) # <<"\n", "#">> THEN FrameRefused
  ELSE IF s[3] = "#"
  THEN IF s[4] = "\n" THEN Got(msg, SubSeq(s, 5, Len(s))) ELSE FrameRefused
  ELSE LET size == SubSeq(s, 3, Min(ends) - 1) IN
       IF ~SizeOK(size) THEN FrameRefused
       ELSE LET from == Min(ends) + 1
                to == from + SizeOf(size) - 1 IN
            IF TooLong(msg, SizeOf(size)) \/ to > Len(s) THEN FrameRefused
            ELSE readChunked(SubSeq(s, to + 1, Len(s)), msg \o SubSeq(s, from, to))

ReadMessage(s) == IF chunked THEN readChunked(s, << >>) ELSE readEOM(s)

Chunk(bytes) == <<"\n", "#", Digit(Len(bytes)), "\n">> \o bytes
EndOfChunks == <<"\n", "#", "#", "\n">>

\* WriteMessage: one chunk, none for an empty message.
WriteMessage(msg) ==
  IF ~chunked THEN msg \o EOM
  ELSE (IF msg = << >> THEN << >> ELSE Chunk(msg)) \o EndOfChunks
-------------------------------------------------------------------------------
FrInit == chunked \in BOOLEAN /\ frBytes = << >> /\ frWritten = << >>

FramePut(bytes, item) ==
  /\ Len(frWritten) < MaxMessages
  /\ frBytes' = frBytes \o bytes /\ frWritten' = Append(frWritten, item)
  /\ UNCHANGED chunked

\* Under the marker a message must not carry one, nor form one with its own.
Writes(msg) ==
  /\ ~chunked => \A i \in Len(EOM) .. Len(msg) + Len(EOM) - 1 :
                   SubSeq(msg \o EOM, i - Len(EOM) + 1, i) # EOM
  /\ FramePut(WriteMessage(msg), [refuse |-> FALSE, msg |-> msg])

\* A client cuts its message into two chunks.
ClientChunks(msg, n) ==
  /\ chunked /\ n \in 1 .. Len(msg) - 1
  /\ FramePut(Chunk(SubSeq(msg, 1, n)) \o Chunk(SubSeq(msg, n + 1, Len(msg))) \o EndOfChunks,
          [refuse |-> FALSE, msg |-> msg])

\* A client sends a header the protocol does not allow.
ClientBadSize(size) ==
  /\ chunked
  /\ FramePut(<<"\n", "#">> \o size \o <<"\n">> \o EndOfChunks, [refuse |-> TRUE, msg |-> << >>])

BadSizes == {<<"0">>, <<"0", "1">>, <<"#", "1">>, <<"1", "#">>}

FrNext ==
  \/ \E m \in FrameMessages : Writes(m)
  \/ \E m \in FrameMessages : \E n \in 1 .. LongestMessage - 1 : ClientChunks(m, n)
  \/ \E b \in BadSizes : ClientBadSize(b)
-------------------------------------------------------------------------------
RECURSIVE ReadAll(_)
ReadAll(s) ==
  LET r == ReadMessage(s) IN IF r.ok THEN <<r.msg>> \o ReadAll(r.rest) ELSE << >>

Acceptable(w) == ~w.refuse /\ Len(w.msg) <= MaxBytes
FirstRefused == Min({i \in 1 .. Len(frWritten) : ~Acceptable(frWritten[i])} \cup {Len(frWritten) + 1})

\* ReadMessage over a whole stream returns the messages that were written, in
\* order and byte for byte, up to the first one over the size limit or with a
\* bad header: both framings agree on the limit, to the byte.
NcFramesReadBack ==
  ReadAll(frBytes) = [i \in 1 .. FirstRefused - 1 |-> frWritten[i].msg]

\* What is framed and encoded reads back as it was meant, whatever bytes it holds,
\* but for a colon in an RFC 3164 tag, which ends the tag (syslog_wire.go, syslog_transport_tcp.go, netconf_framing.go).
FramesReadBack ==
  /\ FramesSplitBack /\ FieldsParseBack /\ NcFramesReadBack
===============================================================================
