----------------------------- MODULE SnmpSecurity -----------------------------
(***************************************************************************)
(* What a device's agent asks of a request before it serves it, and what a *)
(* SET does: the write community of v1 and v2c (admitSetV2c), the checks   *)
(* of SNMPv3 in the order the code makes them (handleSNMPv3Request,        *)
(* authenticateInbound, withinTimeWindow, admitSetV3), the reports they    *)
(* end in, the level an answer travels at, and the all-or-none SET      *)
(* (validateSetBindings, applySetActions) with its v1 translation.         *)
(* Keys and digests are what they decide: whether a digest verifies and    *)
(* whether a scoped PDU decrypts.                                          *)
(***************************************************************************)
EXTENDS Integers, Sequences, FiniteSets, FiniteSetsExt, SequencesExt

CONSTANTS
  Agents,      \* configurations: [v3, auth, priv : BOOLEAN, minLevel, writeCommunity]
  SetIfs,      \* the interfaces the device has
  SetLists,    \* the lists of bindings a SET may carry
  WindowTicks, \* usmTimeWindowSeconds, in ticks of the model's clock
  MaxTime,     \* math.MaxUint32, the greatest engine time, in the same ticks
  MaxClock     \* bound on the clock

VARIABLES
  agent,   \* the device's configuration
  adminOf, \* ifIndex -> ifAdminStatus, 1..3
  clock,   \* the wall clock
  bootedAt,\* usmServerState.bootedAt, -1 before its first use
  notion,  \* the manager's notion of the engine: [known, offset]
  last     \* the last exchange: [msg, ans, before]

secVars == <<agent, adminOf, clock, bootedAt, notion, last>>

NoAuthNoPriv == 1
AuthNoPriv == 2
AuthPriv == 3

\* An answer: what it is, how it travels and the engine time it tells.
Answer(kind, what, level, time) == [kind |-> kind, what |-> what, index |-> 0, level |-> level, time |-> time]
SecSilence == Answer("silence", "", NoAuthNoPriv, 0)
NoExchange == [msg |-> [version |-> "none"], ans |-> SecSilence, before |-> <<>>]

-------------------------------------------------------------------------------
\* SET.

\* validateSetBindings, for one binding: the object, its type, its encoding, its value,
\* then its instance.  A binding is [object, type, enc, value, inst].
BindingError(b) ==
  IF b.object # "ifAdminStatus" THEN "notWritable"
  ELSE IF b.type # "integer" THEN "wrongType"
  ELSE IF ~b.enc THEN "wrongEncoding"
  ELSE IF b.value \notin 1..3 THEN "wrongValue"
  ELSE IF b.inst \notin SetIfs THEN "noCreation"
  ELSE "noError"

FirstRefused(bs) ==
  LET bad == {i \in 1..Len(bs) : BindingError(bs[i]) # "noError"} IN IF bad = {} THEN 0 ELSE Min(bad)

Applied(a, bs) == FoldLeft(LAMBDA s, b : [s EXCEPT ![b.inst] = b.value], a, bs)

\* A slip: the bindings before the refused one are applied.
DecideSetPrefix(bs) ==
  LET k == FirstRefused(bs) IN
  IF k = 0 THEN [status |-> "noError", index |-> 0, admin |-> Applied(adminOf, bs)]
  ELSE [status |-> BindingError(bs[k]), index |-> k, admin |-> Applied(adminOf, SubSeq(bs, 1, k - 1))]

\* decideSet: nothing is applied unless every binding is valid; then in order.
DecideSet(bs) ==
  LET k == FirstRefused(bs) IN
  IF k = 0 THEN [status |-> "noError", index |-> 0, admin |-> Applied(adminOf, bs)]
  ELSE [status |-> BindingError(bs[k]), index |-> k, admin |-> adminOf]

\* v1SetErrorStatus
V1SetErrorStatus(e) ==
  IF e \in {"notWritable", "noCreation"} THEN "noSuchName"
  ELSE IF e \in {"wrongType", "wrongEncoding", "wrongValue"} THEN "badValue"
  ELSE e

\* createSetResponse, createScopedPDUEncoded: v1 gets the translated status.
SetAnswer(v, version, level, time) ==
  [Answer("response", IF version = "v1" THEN V1SetErrorStatus(v.status) ELSE v.status, level, time)
     EXCEPT !.index = v.index]

-------------------------------------------------------------------------------
\* v1 and v2c.

\* admitSetV2c
AdmitSetV2c(m) == agent.writeCommunity # "" /\ m.communityParsed /\ m.community = agent.writeCommunity

-------------------------------------------------------------------------------
\* SNMPv3.

\* usmState: boots is 1 and the engine's time starts at the first use.
Booted == IF bootedAt = -1 THEN clock ELSE bootedAt
EngineTime == clock - Booted

\* createSNMPv3ReportResponseSigned: signed only with a key.
Report(what, sign) == Answer("report", what, IF sign /\ agent.auth THEN AuthNoPriv ELSE NoAuthNoPriv, EngineTime)

SecurityLevelOf(m) == IF m.auth /\ m.priv THEN AuthPriv ELSE IF m.auth THEN AuthNoPriv ELSE NoAuthNoPriv

\* withinTimeWindow; a manager that never heard of the engine does not know its boots.
\* A claim out of the range of an engine time is refused however near it is.
WithinTimeWindow(m) ==
  m.boots = 1 /\ m.time \in 0..MaxTime /\ m.time - EngineTime <= WindowTicks /\ EngineTime - m.time <= WindowTicks

\* usmVerifyAuthDigest, decryptScopedPDUAt and parseSNMPv3Message, by what they find.
VerifyAuthDigest(m) == m.digest
DecryptScopedPDU(m) == m.decrypts
ParseSNMPv3Message(m) == m.wellFormed

\* authenticateInbound: the report to send, or none.
AuthenticateInbound(m) ==
  IF ~m.auth THEN IF m.priv THEN "unsupportedSecLevels" ELSE ""
  ELSE IF ~agent.auth THEN "unsupportedSecLevels"
  ELSE IF ~VerifyAuthDigest(m) THEN "wrongDigests"
  ELSE IF ~WithinTimeWindow(m) THEN "notInTimeWindows"
  ELSE ""

\* effectiveMinSecurityLevel: unset is authNoPriv.
EffectiveMinLevel == IF agent.minLevel = 0 THEN AuthNoPriv ELSE agent.minLevel

\* wrapScopedPDUInV3MessageWith: the request's flags, as far as the device has the keys.
ResponseLevel(m) ==
  IF m.auth /\ agent.auth THEN IF m.priv /\ agent.priv THEN AuthPriv ELSE AuthNoPriv ELSE NoAuthNoPriv

\* extractOIDAndTypeFromScopedPDU: a served kind of PDU with a first name; the bindings
\* after it are looked at by whoever serves them.
HasFirstName(m) == m.pdu # "malformed" /\ (m.pdu = "set" => m.binds # <<>>)

\* handleSNMPv3Request
HandleSNMPv3Request(m) ==
  LET refused == AuthenticateInbound(m) IN
  IF ~agent.v3 \/ ~ParseSNMPv3Message(m) THEN SecSilence
  ELSE IF m.user = "" /\ m.engine = "" /\ m.reportable THEN Report("unknownEngineIDs", FALSE)
  ELSE IF m.user # "manager" THEN Report("unknownUserNames", FALSE)
  ELSE IF refused # "" THEN Report(refused, refused = "notInTimeWindows")
  ELSE IF m.priv /\ ~agent.priv THEN Report("unsupportedSecLevels", FALSE)
  ELSE IF m.priv /\ ~DecryptScopedPDU(m) THEN Report("decryptionErrors", FALSE)
  ELSE IF ~HasFirstName(m) THEN SecSilence
  ELSE IF m.pdu \in {"set", "garbledSet"} THEN
    IF SecurityLevelOf(m) < EffectiveMinLevel
      THEN Report("unsupportedSecLevels", SecurityLevelOf(m) >= AuthNoPriv)
      ELSE IF m.pdu = "garbledSet" THEN SecSilence
      ELSE SetAnswer(DecideSet(m.binds), "v3", ResponseLevel(m), EngineTime)
  ELSE Answer("response", "noError", ResponseLevel(m), EngineTime)

\* Who reaches usmState, which starts the engine's clock: every answer and every
\* message whose digest is looked at.
TouchesUsm(m, ans) == ans.kind # "silence" \/ (agent.v3 /\ m.wellFormed /\ m.user = "manager" /\ m.auth)

-------------------------------------------------------------------------------
\* The device and one manager.  Privacy needs authentication (Validate).

SecInit ==
  /\ agent \in Agents /\ (agent.priv => agent.auth) /\ adminOf = [i \in SetIfs |-> 1] /\ clock = 0 /\ bootedAt = -1
  /\ notion = [known |-> FALSE, offset |-> 0] /\ last = NoExchange

\* What a manager learns: the engine's time at its own clock, from any report or answer.
Learns(ans) ==
  IF ans.kind = "silence" THEN notion ELSE [known |-> TRUE, offset |-> ans.time - clock]

\* A v3 message whose sender keeps the engine's time as it last learned it; late is how
\* many ticks it spent on the way or in a clock that drifted (below zero: a fast one).
V3Message(auth, priv, digest, decrypts, pdu, binds, late) ==
  [version |-> "v3", auth |-> auth, priv |-> priv, digest |-> digest, decrypts |-> decrypts,
   pdu |-> pdu, binds |-> binds, wellFormed |-> TRUE, reportable |-> TRUE,
   user |-> IF notion.known THEN "manager" ELSE "", engine |-> IF notion.known THEN "engine" ELSE "",
   boots |-> IF notion.known THEN 1 ELSE 0,
   time |-> IF notion.known THEN clock + notion.offset - late ELSE 0, late |-> late]

ExchangeV3(auth, priv, digest, decrypts, pdu, binds, late, user) ==
  LET m == [V3Message(auth, priv, digest, decrypts, pdu, binds, late)
              EXCEPT !.user = IF notion.known THEN user ELSE @, !.wellFormed = user # "garbled"]
      ans == HandleSNMPv3Request(m)
  IN
  /\ last' = [msg |-> m, ans |-> ans, before |-> adminOf]
  /\ adminOf' = IF ans.kind = "response" /\ pdu = "set" THEN DecideSet(binds).admin ELSE adminOf
  /\ bootedAt' = IF bootedAt = -1 /\ TouchesUsm(m, ans) THEN clock ELSE bootedAt
  /\ notion' = Learns(ans)
  /\ UNCHANGED <<agent, clock>>

\* handleSNMPv2cRequest's SET branch: admission before the bindings are looked at.
ExchangeSetV12(version, community, parsed, listOK, binds) ==
  LET m == [version |-> version, community |-> community, communityParsed |-> parsed, pdu |-> "set",
            binds |-> binds, listOK |-> listOK]
      v == DecideSet(binds)
      served == AdmitSetV2c(m) /\ listOK
  IN
  /\ last' = [msg |-> m, ans |-> IF served THEN SetAnswer(v, version, NoAuthNoPriv, 0) ELSE SecSilence,
              before |-> adminOf]
  /\ adminOf' = IF served THEN v.admin ELSE adminOf
  /\ UNCHANGED <<agent, clock, bootedAt, notion>>

SecTick == clock < MaxClock /\ last = NoExchange /\ clock' = clock + 1 /\ UNCHANGED <<agent, adminOf, bootedAt, notion, last>>

\* The loop of handleRequests takes the next datagram.
NextDatagram == last # NoExchange /\ last' = NoExchange /\ UNCHANGED <<agent, adminOf, clock, bootedAt, notion>>

\* The flags a manager may set, with what its keys are worth.
Protections == {p \in BOOLEAN \X BOOLEAN \X BOOLEAN \X BOOLEAN : (p[1] \/ ~p[3]) /\ (p[2] \/ ~p[4])}

SecNext ==
  \/ SecTick \/ NextDatagram
  \/ /\ last = NoExchange
     /\ \/ \E p \in Protections, late \in {-WindowTicks, 0, WindowTicks, WindowTicks + 1}, user \in {"manager", "nobody"} :
             ExchangeV3(p[1], p[2], p[3], p[4], "get", <<>>, late, user)
        \/ \E p \in Protections, bs \in SetLists : ExchangeV3(p[1], p[2], p[3], p[4], "set", bs, 0, "manager")
        \/ \E p \in Protections, user \in {"manager", "garbled"} :
             \E pdu \in {"malformed", "garbledSet"} : ExchangeV3(p[1], p[2], p[3], p[4], pdu, <<>>, 0, user)
        \/ \E version \in {"v1", "v2c"}, community \in {"", "write"}, parsed, listOK \in BOOLEAN, bs \in SetLists :
             ExchangeSetV12(version, community, parsed, listOK, bs)

-------------------------------------------------------------------------------
\* Properties.

\* A SET takes effect whole or not at all, and says noError exactly when it did: no
\* binding before a refused one is left applied (decideSet).
SetAllOrNone ==
  [][ last' # last /\ last' # NoExchange /\ last'.msg.pdu = "set" =>
        adminOf' = IF last'.ans.kind = "response" /\ last'.ans.what = "noError"
                   THEN Applied(adminOf, last'.msg.binds) ELSE adminOf ]_secVars

\* An interface changes only at the hands of a manager the configuration admits: one with
\* the write community, or one whose message verified at the minimum level or above it.
OnlyAdmittedWrites ==
  [][ adminOf' # adminOf =>
        LET m == last'.msg IN
        IF m.version = "v3"
          THEN /\ m.user = "manager" /\ SecurityLevelOf(m) >= EffectiveMinLevel
               /\ m.auth => m.digest /\ WithinTimeWindow(m)
          ELSE m.community = agent.writeCommunity /\ m.community # "" ]_secVars

\* An answer that carries data travels at the level the request asked for; whatever could
\* not be read at that level gets a report or nothing (decryptFailed, the level checks).
LevelKept ==
  last.msg.version = "v3" /\ last.ans.kind = "response" =>
    /\ last.ans.level = SecurityLevelOf(last.msg)
    /\ last.msg.priv => last.msg.decrypts

\* Only a sender that proved it holds the key gets a signed report, and one that is out of
\* the time window gets it signed, so that it may believe the time in it.
ReportsSignedForKeyHolders ==
  last.msg.version = "v3" /\ last.ans.kind = "report" =>
    /\ last.ans.level = AuthNoPriv => last.msg.auth /\ last.msg.digest
    /\ last.ans.what = "notInTimeWindows" => last.ans.level = AuthNoPriv

\* A v1 manager is told only error-statuses of RFC 1157, and the same index (one ladder of
\* verdicts, translated once at the response).
V1ErrorsOnly ==
  last.msg.version = "v1" /\ last.ans.kind = "response" =>
    /\ last.ans.what \in {"noError", "noSuchName", "badValue"}
    /\ last.ans.index = FirstRefused(last.msg.binds)

\* A manager that keeps the time it last learned is never out of the window, even by as
\* many ticks as the window is wide, for as long as what it claims is an engine time: the
\* time in every report and answer is the engine's.
SynchronisedStaysInWindow ==
  last.msg.version = "v3" /\ last.ans.what = "notInTimeWindows" =>
    last.msg.late > WindowTicks \/ last.msg.time \notin 0..MaxTime

\* Answers and reports keep to the level the sender proved, and a SET takes effect
\* whole, or not at all, for a sender the configuration admits (snmpv3.go,
\* snmpv3_usm.go, snmp_set.go).
SecurityKept ==
  /\ [](/\ LevelKept /\ ReportsSignedForKeyHolders /\ V1ErrorsOnly
        /\ SynchronisedStaysInWindow)
  /\ SetAllOrNone
  /\ OnlyAdmittedWrites
===============================================================================
