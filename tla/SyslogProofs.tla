----------------------------- MODULE SyslogProofs -----------------------------
(******************************************************************************)
(* What the syslog streams and the syslog fleet keep, for any number of       *)
(* transports, connections, senders, devices and firers.                      *)
(******************************************************************************)
EXTENDS SyslogFleet, TLAPS

(******************************************************************************)
(* The streams.  The invariant says who refers to a connection: a loop to the *)
(* one it dialled, a sender to the one it loaded, and no two loops to one.    *)
(******************************************************************************)
\* What each loop refers to, and what Close has seen.
LoopHolds ==
  \A t \in Transports :
    /\ mine[t] # NoConn <=> loop[t] \in {"publish", "reading", "lost"}
    /\ conn[t] # NoConn => conn[t] = mine[t] /\ loop[t] \in {"reading", "lost"}
    /\ watch[t] # NoConn => watch[t] = mine[t] /\ loop[t] = "reading"
    /\ t \in dialling => loop[t] = "dial"
    /\ closer[t] # "no" => cancelled[t]
    /\ closer[t] = "closed" => loop[t] = "done"
    /\ \A u \in Transports : mine[u] = mine[t] /\ mine[t] # NoConn => u = t

\* What each sender refers to: a connection of its own transport's, or one nobody
\* else will get.
SendersHold ==
  \A s \in Senders :
    /\ send[s].at = "idle" => send[s].conn = NoConn
    /\ send[s].at = "write" => writeMu[SenderOf[s]] = s
    /\ \A t \in Transports : send[s].conn = mine[t] /\ mine[t] # NoConn => t = SenderOf[s]
       /\ loop[t] # "publish"

\* Only what a loop holds is open, and what was not yet published is whole.
OpenHeld ==
  /\ OneConnection /\ torn \subseteq open
  /\ \A t \in Transports : loop[t] = "publish" => mine[t] \notin torn

StreamInv == /\ StreamTypeOK /\ LoopHolds /\ SendersHold /\ OpenHeld
             /\ LiveIsPublished /\ TornIsDropped
--------------------------------------------------------------------------------
(* Steps. *)

\* Check keeps the invariant.
LEMMA CheckKeeps ==
  ASSUME StreamInv, NEW t \in Transports, Check(t)
  PROVE  StreamInv'
<1>0. StreamTypeOK /\ LoopHolds /\ SendersHold /\ OpenHeld /\ LiveIsPublished /\ TornIsDropped
  BY Zenon DEF StreamInv
<1>1. StreamTypeOK'
  BY <1>0, StreamConstants, Zenon DEF Check, Goto, StreamTypeOK, StreamConstants
<1>2. LoopHolds'
  BY <1>0, StreamConstants DEF Check, Goto, StreamTypeOK, LoopHolds, StreamConstants
<1>3. SendersHold'
  BY <1>0, StreamConstants DEF Check, Goto, StreamTypeOK, LoopHolds, SendersHold, StreamConstants
<1>4. OpenHeld'
  BY <1>0, StreamConstants DEF Check, Goto, StreamTypeOK, LoopHolds, SendersHold, OpenHeld,
     OneConnection, StreamConstants
<1>5. LiveIsPublished'
  BY <1>0, StreamConstants DEF Check, Goto, StreamTypeOK, LoopHolds, SendersHold, OpenHeld,
     OneConnection, LiveIsPublished, StreamConstants
<1>6. TornIsDropped'
  BY <1>0, StreamConstants, Zenon DEF Check, Goto, StreamTypeOK, LoopHolds, SendersHold, OpenHeld,
     OneConnection, TornIsDropped, StreamConstants
<1>7. QED
  BY <1>1, <1>2, <1>3, <1>4, <1>5, <1>6, Zenon DEF StreamInv

\* Acquire keeps the invariant.
LEMMA AcquireKeeps ==
  ASSUME StreamInv, NEW t \in Transports, Acquire(t)
  PROVE  StreamInv'
<1>0. StreamTypeOK /\ LoopHolds /\ SendersHold /\ OpenHeld /\ LiveIsPublished /\ TornIsDropped
  BY Zenon DEF StreamInv
<1>1. StreamTypeOK'
  BY <1>0, StreamConstants, Zenon DEF Acquire, Goto, StreamTypeOK, StreamConstants
<1>2. LoopHolds'
  BY <1>0, StreamConstants DEF Acquire, Goto, StreamTypeOK, LoopHolds, StreamConstants
<1>3. SendersHold'
  BY <1>0, StreamConstants DEF Acquire, Goto, StreamTypeOK, LoopHolds, SendersHold, StreamConstants
<1>4. OpenHeld'
  BY <1>0, StreamConstants DEF Acquire, Goto, StreamTypeOK, LoopHolds, SendersHold, OpenHeld,
     OneConnection, StreamConstants
<1>5. LiveIsPublished'
  BY <1>0, StreamConstants DEF Acquire, Goto, StreamTypeOK, LoopHolds, SendersHold, OpenHeld,
     OneConnection, LiveIsPublished, StreamConstants
<1>6. TornIsDropped'
  BY <1>0, StreamConstants, Zenon DEF Acquire, Goto, StreamTypeOK, LoopHolds, SendersHold, OpenHeld,
     OneConnection, TornIsDropped, StreamConstants
<1>7. QED
  BY <1>1, <1>2, <1>3, <1>4, <1>5, <1>6, Zenon DEF StreamInv

\* What is dialled is a connection nobody refers to.
LEMMA UnusedIsFree ==
  ASSUME NEW c \in Unused
  PROVE  /\ c \in Conns
         /\ \A t \in Transports : mine[t] # c /\ conn[t] # c /\ watch[t] # c
         /\ \A s \in Senders : send[s].conn # c
BY Zenon DEF Unused, Referred

\* Dial keeps the invariant.
LEMMA DialKeeps ==
  ASSUME StreamInv, NEW t \in Transports, Dial(t)
  PROVE  StreamInv'
<1>0. StreamTypeOK /\ LoopHolds /\ SendersHold /\ OpenHeld /\ LiveIsPublished /\ TornIsDropped
  BY Zenon DEF StreamInv
<1>1. /\ loop[t] = "dial" /\ dialling' = dialling \ {t}
      /\ UNCHANGED <<backoff, conn, watch, cancelled, closer, send, writeMu, gone, torn>>
  BY Zenon DEF Dial, DialReleasing
<1>2. CASE loop' = [loop EXCEPT ![t] = "sleep"] /\ UNCHANGED <<mine, open>>
  <2>1. StreamTypeOK'
    BY <1>0, <1>1, <1>2, Zenon DEF StreamTypeOK
  <2>2. LoopHolds' /\ SendersHold'
    BY <1>0, <1>1, <1>2 DEF StreamTypeOK, LoopHolds, SendersHold
  <2>3. OpenHeld' /\ LiveIsPublished' /\ TornIsDropped'
    BY <1>0, <1>1, <1>2 DEF StreamTypeOK, OpenHeld, OneConnection, LiveIsPublished, TornIsDropped
  <2>4. QED
    BY <2>1, <2>2, <2>3, Zenon DEF StreamInv
<1>3. ASSUME NEW c \in Unused, mine' = [mine EXCEPT ![t] = c], open' = open \cup {c},
             loop' = [loop EXCEPT ![t] = "publish"]
      PROVE  StreamInv'
  <2>0. /\ c \in Conns /\ c # NoConn
        /\ \A u \in Transports : mine[u] # c /\ conn[u] # c /\ watch[u] # c
        /\ \A s \in Senders : send[s].conn # c
    BY UnusedIsFree, StreamConstants, Zenon DEF StreamConstants
  <2>1. StreamTypeOK'
    BY <1>0, <1>1, <1>3, <2>0, Zenon DEF StreamTypeOK
  <2>2. LoopHolds'
    BY <1>0, <1>1, <1>3, <2>0 DEF StreamTypeOK, LoopHolds
  <2>3. SendersHold'
    BY <1>0, <1>1, <1>3, <2>0 DEF StreamTypeOK, SendersHold
  <2>4. OpenHeld'
    <3>1. mine'[t] = c /\ loop'[t] = "publish" /\ \A u \in Transports : u # t => mine'[u] = mine[u]
          /\ loop'[u] = loop[u]
      BY <1>0, <1>3, Zenon DEF StreamTypeOK
    <3>2. mine[t] = NoConn
      BY <1>0, <1>1, Zenon DEF LoopHolds
    <3>3. \A d \in open : d # NoConn /\ d # c /\ \E u \in Transports : mine[u] = d
      BY <1>0, <2>0, StreamConstants, Zenon DEF OpenHeld, OneConnection, StreamTypeOK, StreamConstants
    <3>4. OneConnection'
      BY <1>3, <3>1, <3>2, <3>3, Zenon DEF OneConnection
    <3>5. QED
      BY <1>0, <1>1, <1>3, <3>1, <3>3, <3>4 DEF OpenHeld
  <2>5. LiveIsPublished' /\ TornIsDropped'
    BY <1>0, <1>1, <1>3, <2>0, Zenon DEF StreamTypeOK, LiveIsPublished, TornIsDropped
  <2>6. QED
    BY <2>1, <2>2, <2>3, <2>4, <2>5, Zenon DEF StreamInv
<1>4. QED
  BY <1>2, <1>3, Zenon DEF Dial, DialReleasing, Goto

\* Publish keeps the invariant.
LEMMA PublishKeeps ==
  ASSUME StreamInv, NEW t \in Transports, Publish(t)
  PROVE  StreamInv'
<1>0. StreamTypeOK /\ LoopHolds /\ SendersHold /\ OpenHeld /\ LiveIsPublished /\ TornIsDropped
  BY Zenon DEF StreamInv
<1>1. StreamTypeOK'
  BY <1>0, StreamConstants, Zenon DEF Publish, PublishWatched, Goto, StreamTypeOK, StreamConstants
<1>2. LoopHolds'
  BY <1>0, StreamConstants DEF Publish, PublishWatched, Goto, StreamTypeOK, LoopHolds, StreamConstants
<1>3. SendersHold'
  BY <1>0, StreamConstants DEF Publish, PublishWatched, Goto, StreamTypeOK, LoopHolds, SendersHold,
     StreamConstants
<1>4. OpenHeld'
  BY <1>0, StreamConstants DEF Publish, PublishWatched, Goto, StreamTypeOK, LoopHolds, SendersHold,
     OpenHeld, OneConnection, StreamConstants
<1>5. LiveIsPublished'
  BY <1>0, StreamConstants DEF Publish, PublishWatched, Goto, StreamTypeOK, LoopHolds, SendersHold,
     OpenHeld, OneConnection, LiveIsPublished, StreamConstants
<1>6. TornIsDropped'
  BY <1>0, StreamConstants DEF Publish, PublishWatched, Goto, StreamTypeOK, LoopHolds, SendersHold,
     OpenHeld, OneConnection, TornIsDropped, StreamConstants
<1>7. QED
  BY <1>1, <1>2, <1>3, <1>4, <1>5, <1>6, Zenon DEF StreamInv

\* Watcher keeps the invariant.
LEMMA WatcherKeeps ==
  ASSUME StreamInv, NEW t \in Transports, Watcher(t)
  PROVE  StreamInv'
<1>0. StreamTypeOK /\ LoopHolds /\ SendersHold /\ OpenHeld /\ LiveIsPublished /\ TornIsDropped
  BY Zenon DEF StreamInv
<1>1. StreamTypeOK'
  BY <1>0, StreamConstants, Zenon DEF Watcher, Shut, StreamTypeOK, StreamConstants
<1>2. LoopHolds'
  BY <1>0, StreamConstants, Zenon DEF Watcher, Shut, StreamTypeOK, LoopHolds, StreamConstants
<1>3. SendersHold'
  BY <1>0, StreamConstants DEF Watcher, Shut, StreamTypeOK, LoopHolds, SendersHold, StreamConstants
<1>4. OpenHeld'
  BY <1>0, StreamConstants, Zenon DEF Watcher, Shut, StreamTypeOK, LoopHolds, SendersHold, OpenHeld,
     OneConnection, StreamConstants
<1>5. LiveIsPublished'
  BY <1>0, StreamConstants DEF Watcher, Shut, StreamTypeOK, LoopHolds, SendersHold, OpenHeld,
     OneConnection, LiveIsPublished, StreamConstants
<1>6. TornIsDropped'
  BY <1>0, StreamConstants DEF Watcher, Shut, StreamTypeOK, LoopHolds, SendersHold, OpenHeld,
     OneConnection, TornIsDropped, StreamConstants
<1>7. QED
  BY <1>1, <1>2, <1>3, <1>4, <1>5, <1>6, Zenon DEF StreamInv

\* ReadFails keeps the invariant.
LEMMA ReadFailsKeeps ==
  ASSUME StreamInv, NEW t \in Transports, ReadFails(t)
  PROVE  StreamInv'
<1>0. StreamTypeOK /\ LoopHolds /\ SendersHold /\ OpenHeld /\ LiveIsPublished /\ TornIsDropped
  BY Zenon DEF StreamInv
<1>1. StreamTypeOK'
  BY <1>0, StreamConstants, Zenon DEF ReadFails, Goto, StreamTypeOK, StreamConstants
<1>2. LoopHolds'
  BY <1>0, StreamConstants DEF ReadFails, Goto, StreamTypeOK, LoopHolds, StreamConstants
<1>3. SendersHold'
  BY <1>0, StreamConstants DEF ReadFails, Goto, StreamTypeOK, LoopHolds, SendersHold, StreamConstants
<1>4. OpenHeld'
  BY <1>0, StreamConstants DEF ReadFails, Goto, StreamTypeOK, LoopHolds, SendersHold, OpenHeld,
     OneConnection, StreamConstants
<1>5. LiveIsPublished'
  BY <1>0, StreamConstants DEF ReadFails, Goto, StreamTypeOK, LoopHolds, SendersHold, OpenHeld,
     OneConnection, LiveIsPublished, StreamConstants
<1>6. TornIsDropped'
  BY <1>0, StreamConstants, Zenon DEF ReadFails, Goto, StreamTypeOK, LoopHolds, SendersHold, OpenHeld,
     OneConnection, TornIsDropped, StreamConstants
<1>7. QED
  BY <1>1, <1>2, <1>3, <1>4, <1>5, <1>6, Zenon DEF StreamInv

\* Lost keeps the invariant.
LEMMA LostKeeps ==
  ASSUME StreamInv, NEW t \in Transports, Lost(t)
  PROVE  StreamInv'
<1>0. StreamTypeOK /\ LoopHolds /\ SendersHold /\ OpenHeld /\ LiveIsPublished /\ TornIsDropped
  BY Zenon DEF StreamInv
<1>1. StreamTypeOK'
  BY <1>0, StreamConstants DEF Lost, LostLeaving, Shut, Goto, StreamTypeOK, StreamConstants
<1>2. LoopHolds'
  BY <1>0, StreamConstants DEF Lost, LostLeaving, Shut, Goto, StreamTypeOK, LoopHolds, StreamConstants
<1>3. SendersHold'
  BY <1>0, StreamConstants DEF Lost, LostLeaving, Shut, Goto, StreamTypeOK, LoopHolds, SendersHold,
     StreamConstants
<1>4. OpenHeld'
  BY <1>0, StreamConstants DEF Lost, LostLeaving, Shut, Goto, StreamTypeOK, LoopHolds, SendersHold,
     OpenHeld, OneConnection, StreamConstants
<1>5. LiveIsPublished'
  BY <1>0, StreamConstants DEF Lost, LostLeaving, Shut, Goto, StreamTypeOK, LoopHolds, SendersHold,
     OpenHeld, OneConnection, LiveIsPublished, StreamConstants
<1>6. TornIsDropped'
  BY <1>0, StreamConstants DEF Lost, LostLeaving, Shut, Goto, StreamTypeOK, LoopHolds, SendersHold,
     OpenHeld, OneConnection, TornIsDropped, StreamConstants
<1>7. QED
  BY <1>1, <1>2, <1>3, <1>4, <1>5, <1>6, Zenon DEF StreamInv

\* Sleep keeps the invariant.
LEMMA SleepKeeps ==
  ASSUME StreamInv, NEW t \in Transports, Sleep(t)
  PROVE  StreamInv'
<1>0. StreamTypeOK /\ LoopHolds /\ SendersHold /\ OpenHeld /\ LiveIsPublished /\ TornIsDropped
  BY Zenon DEF StreamInv
<1>1. StreamTypeOK'
  BY <1>0, StreamConstants DEF Sleep, Goto, StreamTypeOK, StreamConstants
<1>2. LoopHolds'
  BY <1>0, StreamConstants DEF Sleep, Goto, StreamTypeOK, LoopHolds, StreamConstants
<1>3. SendersHold'
  BY <1>0, StreamConstants DEF Sleep, Goto, StreamTypeOK, LoopHolds, SendersHold, StreamConstants
<1>4. OpenHeld'
  BY <1>0, StreamConstants DEF Sleep, Goto, StreamTypeOK, LoopHolds, SendersHold, OpenHeld,
     OneConnection, StreamConstants
<1>5. LiveIsPublished'
  BY <1>0, StreamConstants DEF Sleep, Goto, StreamTypeOK, LoopHolds, SendersHold, OpenHeld,
     OneConnection, LiveIsPublished, StreamConstants
<1>6. TornIsDropped'
  BY <1>0, StreamConstants, Zenon DEF Sleep, Goto, StreamTypeOK, LoopHolds, SendersHold, OpenHeld,
     OneConnection, TornIsDropped, StreamConstants
<1>7. QED
  BY <1>1, <1>2, <1>3, <1>4, <1>5, <1>6, Zenon DEF StreamInv

\* SendLoad keeps the invariant.
LEMMA SendLoadKeeps ==
  ASSUME StreamInv, NEW s \in Senders, SendLoad(s)
  PROVE  StreamInv'
<1>0. StreamTypeOK /\ LoopHolds /\ SendersHold /\ OpenHeld /\ LiveIsPublished /\ TornIsDropped
  BY Zenon DEF StreamInv
<1>1. StreamTypeOK'
  BY <1>0, StreamConstants, Zenon DEF SendLoad, SenderAt, Idle, StreamTypeOK, StreamConstants
<1>2. LoopHolds'
  BY <1>0, StreamConstants, Zenon DEF SendLoad, SenderAt, Idle, StreamTypeOK, LoopHolds,
     StreamConstants
<1>3. SendersHold'
  BY <1>0, StreamConstants DEF SendLoad, SenderAt, Idle, StreamTypeOK, LoopHolds, SendersHold,
     StreamConstants
<1>4. OpenHeld'
  BY <1>0, StreamConstants, Zenon DEF SendLoad, SenderAt, Idle, StreamTypeOK, LoopHolds, SendersHold,
     OpenHeld, OneConnection, StreamConstants
<1>5. LiveIsPublished'
  BY <1>0, StreamConstants DEF SendLoad, SenderAt, Idle, StreamTypeOK, LoopHolds, SendersHold,
     OpenHeld, OneConnection, LiveIsPublished, StreamConstants
<1>6. TornIsDropped'
  BY <1>0, StreamConstants DEF SendLoad, SenderAt, Idle, StreamTypeOK, LoopHolds, SendersHold,
     OpenHeld, OneConnection, TornIsDropped, StreamConstants
<1>7. QED
  BY <1>1, <1>2, <1>3, <1>4, <1>5, <1>6, Zenon DEF StreamInv

\* SendLock keeps the invariant.
LEMMA SendLockKeeps ==
  ASSUME StreamInv, NEW s \in Senders, SendLock(s)
  PROVE  StreamInv'
<1>0. StreamTypeOK /\ LoopHolds /\ SendersHold /\ OpenHeld /\ LiveIsPublished /\ TornIsDropped
  BY Zenon DEF StreamInv
<1>1. StreamTypeOK'
  BY <1>0, StreamConstants, Zenon DEF SendLock, SenderAt, StreamTypeOK, StreamConstants
<1>2. LoopHolds'
  BY <1>0, StreamConstants DEF SendLock, SenderAt, StreamTypeOK, LoopHolds, StreamConstants
<1>3. SendersHold'
  BY <1>0, StreamConstants DEF SendLock, SenderAt, StreamTypeOK, LoopHolds, SendersHold,
     StreamConstants
<1>4. OpenHeld'
  BY <1>0, StreamConstants, Zenon DEF SendLock, SenderAt, StreamTypeOK, LoopHolds, SendersHold,
     OpenHeld, OneConnection, StreamConstants
<1>5. LiveIsPublished'
  BY <1>0, StreamConstants DEF SendLock, SenderAt, StreamTypeOK, LoopHolds, SendersHold, OpenHeld,
     OneConnection, LiveIsPublished, StreamConstants
<1>6. TornIsDropped'
  BY <1>0, StreamConstants DEF SendLock, SenderAt, StreamTypeOK, LoopHolds, SendersHold, OpenHeld,
     OneConnection, TornIsDropped, StreamConstants
<1>7. QED
  BY <1>1, <1>2, <1>3, <1>4, <1>5, <1>6, Zenon DEF StreamInv

\* SendWrite keeps the invariant.
LEMMA SendWriteKeeps ==
  ASSUME StreamInv, NEW s \in Senders, SendWrite(s)
  PROVE  StreamInv'
<1>0. StreamTypeOK /\ LoopHolds /\ SendersHold /\ OpenHeld /\ LiveIsPublished /\ TornIsDropped
  BY Zenon DEF StreamInv
<1>1. StreamTypeOK'
  BY <1>0, StreamConstants DEF SendWrite, SenderAt, StreamTypeOK, StreamConstants
<1>2. LoopHolds'
  BY <1>0, StreamConstants, Zenon DEF SendWrite, SenderAt, StreamTypeOK, LoopHolds, StreamConstants
<1>3. SendersHold'
  BY <1>0, StreamConstants DEF SendWrite, SenderAt, StreamTypeOK, LoopHolds, SendersHold,
     StreamConstants
<1>4. OpenHeld'
  BY <1>0, StreamConstants DEF SendWrite, SenderAt, StreamTypeOK, LoopHolds, SendersHold, OpenHeld,
     OneConnection, StreamConstants
<1>5. LiveIsPublished'
  BY <1>0, StreamConstants DEF SendWrite, SenderAt, StreamTypeOK, LoopHolds, SendersHold, OpenHeld,
     OneConnection, LiveIsPublished, StreamConstants
<1>6. TornIsDropped'
  BY <1>0, StreamConstants DEF SendWrite, SenderAt, StreamTypeOK, LoopHolds, SendersHold, OpenHeld,
     OneConnection, TornIsDropped, StreamConstants
<1>7. QED
  BY <1>1, <1>2, <1>3, <1>4, <1>5, <1>6, Zenon DEF StreamInv

\* SendDrop keeps the invariant.
LEMMA SendDropKeeps ==
  ASSUME StreamInv, NEW s \in Senders, SendDrop(s)
  PROVE  StreamInv'
<1>0. StreamTypeOK /\ LoopHolds /\ SendersHold /\ OpenHeld /\ LiveIsPublished /\ TornIsDropped
  BY Zenon DEF StreamInv
<1>1. StreamTypeOK'
  <2>1. /\ SenderOf[s] \in Transports /\ send[s].conn \in Conns \cup {NoConn}
        /\ conn' = conn \/ conn' = [conn EXCEPT ![SenderOf[s]] = NoConn]
        /\ \E at \in {"idle", "close"},
           c \in Conns \cup {NoConn} : send' = [send EXCEPT ![s] = [at |-> at, conn |-> c]]
        /\ UNCHANGED <<loop, mine, backoff, watch, cancelled, closer, writeMu, open, gone, torn,
           dialling>>
    BY <1>0, StreamConstants, Zenon DEF SendDrop, DropTaking, SenderAt, StreamTypeOK, StreamConstants
  <2>2. conn' \in [Transports -> Conns \cup {NoConn}]
    BY <1>0, <2>1, Zenon DEF StreamTypeOK
  <2>3. send' \in [Senders -> [at : {"idle", "lock", "write", "drop", "close"},
        conn : Conns \cup {NoConn}]]
    BY <1>0, <2>1 DEF StreamTypeOK
  <2>4. QED
    BY <1>0, <2>1, <2>2, <2>3, Zenon DEF StreamTypeOK
<1>2. LoopHolds'
  BY <1>0, StreamConstants DEF SendDrop, DropTaking, SenderAt, StreamTypeOK, LoopHolds,
     StreamConstants
<1>3. SendersHold'
  BY <1>0, StreamConstants DEF SendDrop, DropTaking, SenderAt, StreamTypeOK, LoopHolds, SendersHold,
     StreamConstants
<1>4. OpenHeld'
  BY <1>0, StreamConstants, Zenon DEF SendDrop, DropTaking, SenderAt, StreamTypeOK, LoopHolds,
     SendersHold, OpenHeld, OneConnection, StreamConstants
<1>5. LiveIsPublished'
  BY <1>0, StreamConstants DEF SendDrop, DropTaking, SenderAt, StreamTypeOK, LoopHolds, SendersHold,
     OpenHeld, OneConnection, LiveIsPublished, StreamConstants
<1>6. TornIsDropped'
  BY <1>0, StreamConstants DEF SendDrop, DropTaking, SenderAt, StreamTypeOK, LoopHolds, SendersHold,
     OpenHeld, OneConnection, TornIsDropped, StreamConstants
<1>7. QED
  BY <1>1, <1>2, <1>3, <1>4, <1>5, <1>6, Zenon DEF StreamInv

\* SendClose keeps the invariant.
LEMMA SendCloseKeeps ==
  ASSUME StreamInv, NEW s \in Senders, SendClose(s)
  PROVE  StreamInv'
<1>0. StreamTypeOK /\ LoopHolds /\ SendersHold /\ OpenHeld /\ LiveIsPublished /\ TornIsDropped
  BY Zenon DEF StreamInv
<1>1. StreamTypeOK'
  BY <1>0, StreamConstants, Zenon DEF SendClose, SenderAt, Shut, StreamTypeOK, StreamConstants
<1>2. LoopHolds'
  BY <1>0, StreamConstants, Zenon DEF SendClose, SenderAt, Shut, StreamTypeOK, LoopHolds,
     StreamConstants
<1>3. SendersHold'
  BY <1>0, StreamConstants DEF SendClose, SenderAt, Shut, StreamTypeOK, LoopHolds, SendersHold,
     StreamConstants
<1>4. OpenHeld'
  BY <1>0, StreamConstants, Zenon DEF SendClose, SenderAt, Shut, StreamTypeOK, LoopHolds, SendersHold,
     OpenHeld, OneConnection, StreamConstants
<1>5. LiveIsPublished'
  BY <1>0, StreamConstants DEF SendClose, SenderAt, Shut, StreamTypeOK, LoopHolds, SendersHold,
     OpenHeld, OneConnection, LiveIsPublished, StreamConstants
<1>6. TornIsDropped'
  BY <1>0, StreamConstants DEF SendClose, SenderAt, Shut, StreamTypeOK, LoopHolds, SendersHold,
     OpenHeld, OneConnection, TornIsDropped, StreamConstants
<1>7. QED
  BY <1>1, <1>2, <1>3, <1>4, <1>5, <1>6, Zenon DEF StreamInv

\* CloseBegin keeps the invariant.
LEMMA CloseBeginKeeps ==
  ASSUME StreamInv, NEW t \in Transports, CloseBegin(t)
  PROVE  StreamInv'
<1>0. StreamTypeOK /\ LoopHolds /\ SendersHold /\ OpenHeld /\ LiveIsPublished /\ TornIsDropped
  BY Zenon DEF StreamInv
<1>1. StreamTypeOK'
  BY <1>0, StreamConstants, Zenon DEF CloseBegin, StreamTypeOK, StreamConstants
<1>2. LoopHolds'
  BY <1>0, StreamConstants DEF CloseBegin, StreamTypeOK, LoopHolds, StreamConstants
<1>3. SendersHold'
  BY <1>0, StreamConstants DEF CloseBegin, StreamTypeOK, LoopHolds, SendersHold, StreamConstants
<1>4. OpenHeld'
  BY <1>0, StreamConstants, Zenon DEF CloseBegin, StreamTypeOK, LoopHolds, SendersHold, OpenHeld,
     OneConnection, StreamConstants
<1>5. LiveIsPublished'
  BY <1>0, StreamConstants DEF CloseBegin, StreamTypeOK, LoopHolds, SendersHold, OpenHeld,
     OneConnection, LiveIsPublished, StreamConstants
<1>6. TornIsDropped'
  BY <1>0, StreamConstants, Zenon DEF CloseBegin, StreamTypeOK, LoopHolds, SendersHold, OpenHeld,
     OneConnection, TornIsDropped, StreamConstants
<1>7. QED
  BY <1>1, <1>2, <1>3, <1>4, <1>5, <1>6, Zenon DEF StreamInv

\* CloseSwap keeps the invariant.
LEMMA CloseSwapKeeps ==
  ASSUME StreamInv, NEW t \in Transports, CloseSwap(t)
  PROVE  StreamInv'
<1>0. StreamTypeOK /\ LoopHolds /\ SendersHold /\ OpenHeld /\ LiveIsPublished /\ TornIsDropped
  BY Zenon DEF StreamInv
<1>1. StreamTypeOK'
  BY <1>0, StreamConstants, Zenon DEF CloseSwap, Shut, StreamTypeOK, StreamConstants
<1>2. LoopHolds'
  BY <1>0, StreamConstants DEF CloseSwap, Shut, StreamTypeOK, LoopHolds, StreamConstants
<1>3. SendersHold'
  BY <1>0, StreamConstants DEF CloseSwap, Shut, StreamTypeOK, LoopHolds, SendersHold, StreamConstants
<1>4. OpenHeld'
  BY <1>0, StreamConstants, Zenon DEF CloseSwap, Shut, StreamTypeOK, LoopHolds, SendersHold, OpenHeld,
     OneConnection, StreamConstants
<1>5. LiveIsPublished'
  BY <1>0, StreamConstants DEF CloseSwap, Shut, StreamTypeOK, LoopHolds, SendersHold, OpenHeld,
     OneConnection, LiveIsPublished, StreamConstants
<1>6. TornIsDropped'
  BY <1>0, StreamConstants DEF CloseSwap, Shut, StreamTypeOK, LoopHolds, SendersHold, OpenHeld,
     OneConnection, TornIsDropped, StreamConstants
<1>7. QED
  BY <1>1, <1>2, <1>3, <1>4, <1>5, <1>6, Zenon DEF StreamInv

\* CloseJoin keeps the invariant.
LEMMA CloseJoinKeeps ==
  ASSUME StreamInv, NEW t \in Transports, CloseJoin(t)
  PROVE  StreamInv'
<1>0. StreamTypeOK /\ LoopHolds /\ SendersHold /\ OpenHeld /\ LiveIsPublished /\ TornIsDropped
  BY Zenon DEF StreamInv
<1>1. StreamTypeOK'
  BY <1>0, StreamConstants, Zenon DEF CloseJoin, CloseDone, StreamTypeOK, StreamConstants
<1>2. LoopHolds'
  BY <1>0, StreamConstants DEF CloseJoin, CloseDone, StreamTypeOK, LoopHolds, StreamConstants
<1>3. SendersHold'
  BY <1>0, StreamConstants DEF CloseJoin, CloseDone, StreamTypeOK, LoopHolds, SendersHold,
     StreamConstants
<1>4. OpenHeld'
  BY <1>0, StreamConstants, Zenon DEF CloseJoin, CloseDone, StreamTypeOK, LoopHolds, SendersHold,
     OpenHeld, OneConnection, StreamConstants
<1>5. LiveIsPublished'
  BY <1>0, StreamConstants DEF CloseJoin, CloseDone, StreamTypeOK, LoopHolds, SendersHold, OpenHeld,
     OneConnection, LiveIsPublished, StreamConstants
<1>6. TornIsDropped'
  BY <1>0, StreamConstants, Zenon DEF CloseJoin, CloseDone, StreamTypeOK, LoopHolds, SendersHold,
     OpenHeld, OneConnection, TornIsDropped, StreamConstants
<1>7. QED
  BY <1>1, <1>2, <1>3, <1>4, <1>5, <1>6, Zenon DEF StreamInv

\* Drops keeps the invariant.
LEMMA DropsKeeps ==
  ASSUME StreamInv, NEW c \in Conns, Drops(c)
  PROVE  StreamInv'
<1>0. StreamTypeOK /\ LoopHolds /\ SendersHold /\ OpenHeld /\ LiveIsPublished /\ TornIsDropped
  BY Zenon DEF StreamInv
<1>1. StreamTypeOK'
  BY <1>0, StreamConstants, Zenon DEF Drops, StreamTypeOK, StreamConstants
<1>2. LoopHolds'
  BY <1>0, StreamConstants, Zenon DEF Drops, StreamTypeOK, LoopHolds, StreamConstants
<1>3. SendersHold'
  BY <1>0, StreamConstants DEF Drops, StreamTypeOK, LoopHolds, SendersHold, StreamConstants
<1>4. OpenHeld'
  BY <1>0, StreamConstants, Zenon DEF Drops, StreamTypeOK, LoopHolds, SendersHold, OpenHeld,
     OneConnection, StreamConstants
<1>5. LiveIsPublished'
  BY <1>0, StreamConstants DEF Drops, StreamTypeOK, LoopHolds, SendersHold, OpenHeld, OneConnection,
     LiveIsPublished, StreamConstants
<1>6. TornIsDropped'
  BY <1>0, StreamConstants, Zenon DEF Drops, StreamTypeOK, LoopHolds, SendersHold, OpenHeld,
     OneConnection, TornIsDropped, StreamConstants
<1>7. QED
  BY <1>1, <1>2, <1>3, <1>4, <1>5, <1>6, Zenon DEF StreamInv

\* Every step of the streams keeps their invariant.
LEMMA StreamStepKeeps ==
  ASSUME StreamInv, [StreamNext]_streamVars
  PROVE  StreamInv'
<1>1. ASSUME NEW t \in Transports, LoopStep(t) \/ Watcher(t) \/ CloseStep(t) PROVE StreamInv'
  BY <1>1, CheckKeeps, AcquireKeeps, DialKeeps, PublishKeeps, ReadFailsKeeps, LostKeeps, SleepKeeps,
     WatcherKeeps, CloseBeginKeeps, CloseSwapKeeps, CloseJoinKeeps, Zenon DEF LoopStep, CloseStep
<1>2. ASSUME NEW s \in Senders, SenderStep(s) PROVE StreamInv'
  BY <1>2, SendLoadKeeps, SendLockKeeps, SendWriteKeeps, SendDropKeeps, SendCloseKeeps, Zenon
     DEF SenderStep
<1>3. ASSUME NEW c \in Conns, Drops(c) PROVE StreamInv'
  BY <1>3, DropsKeeps, Zenon
<1>4. CASE UNCHANGED streamVars
  BY <1>4 DEF streamVars, StreamInv, StreamTypeOK, LoopHolds, SendersHold, OpenHeld, OneConnection,
              LiveIsPublished, TornIsDropped
<1>5. QED
  BY <1>1, <1>2, <1>3, <1>4, Zenon DEF StreamNext

\* The streams start in the invariant.
LEMMA StreamStarts ==
  ASSUME StreamInit
  PROVE  StreamInv
<1>1. StreamTypeOK
  BY StreamConstants DEF StreamInit, StreamTypeOK, StreamConstants, Idle
<1>2. LoopHolds /\ SendersHold
  BY StreamConstants, Zenon DEF StreamInit, LoopHolds, SendersHold, StreamConstants, Idle
<1>3. OpenHeld /\ LiveIsPublished /\ TornIsDropped
  BY Zenon DEF StreamInit, OpenHeld, OneConnection, LiveIsPublished, TornIsDropped
<1>4. QED
  BY <1>1, <1>2, <1>3, Zenon DEF StreamInv

StreamKept == /\ StreamTypeOK /\ OneConnection /\ LiveIsPublished
              /\ TornIsDropped /\ ClosedIsQuiet /\ FramesDoNotInterleave

\* The part of SyslogKept about the streams.
LEMMA StreamAlwaysKept == StreamSpec => []StreamKept
<1>1. StreamInit => StreamInv
  BY StreamStarts, Zenon
<1>2. StreamInv /\ [StreamNext]_streamVars => StreamInv'
  BY StreamStepKeeps, Zenon
<1>3. StreamInv => StreamKept
  <2>1. SUFFICES ASSUME StreamInv PROVE StreamKept
    BY Zenon
  <2>2. StreamTypeOK /\ OneConnection /\ LiveIsPublished /\ TornIsDropped
    BY <2>1, Zenon DEF StreamInv, OpenHeld
  <2>3. ClosedIsQuiet
    BY <2>1, Zenon DEF StreamInv, StreamTypeOK, LoopHolds, ClosedIsQuiet
  <2>4. FramesDoNotInterleave
    BY <2>1, Zenon DEF StreamInv, SendersHold, FramesDoNotInterleave
  <2>5. QED
    BY <2>2, <2>3, <2>4, Zenon DEF StreamKept
<1>4. QED
  BY <1>1, <1>2, <1>3, PTL DEF StreamSpec
--------------------------------------------------------------------------------
(******************************************************************************)
(* The fleet.  The invariant names the one owner of every open socket, and    *)
(* what StopSyslogExport has left of them at each of its steps.               *)
(******************************************************************************)
OwnSocket(d) == <<"own", d>>
PoolSocket(d) == <<"pool", d>>

\* Before StopSyslogExport closes the pool.
Pooling == logSub \in {"off", "on", "capture", "join", "close"}

\* Each socket has one owner: the pool, the worker that opened it, or its device.
SocketsHeld ==
  /\ None \notin opened
  /\ \A d \in LogDevices :
       /\ hand[d] = IF attach[d] = "store" THEN PoolSocket(d) ELSE None
       /\ PoolSocket(d) \in opened => PoolSocket(d) \in {hand[d], pool[KeyOf[d]]}
       /\ OwnSocket(d) \in opened => exporter[d].own = OwnSocket(d)
       /\ exporter[d].own # None => exporter[d].own = OwnSocket(d) /\ attach[d] \in {"expose",
          "register", "up", "stop"}
       /\ exporter[d].own # None => exporter[d].own \in opened

\* A socket in a worker's hand is open.
HandsOpen == \A d \in LogDevices : attach[d] = "store" => PoolSocket(d) \in opened

\* A socket of the pool was stored there by a worker of its key.
Stored(d) == attach[d] \notin {"no", "begun", "load", "store"}
PoolHeld ==
  \A k \in Keys : pool[k] # None =>
    /\ Pooling /\ pool[k] \in opened
    /\ \E d \in LogDevices : KeyOf[d] = k /\ pool[k] = PoolSocket(d) /\ Stored(d)

\* What an exporter that is not closed writes to.
ExportersHeld ==
  \A d \in LogDevices :
    /\ Pooling => exporter[d].shared \in {None, pool[KeyOf[d]]}
    /\ Pooling /\ attach[d] \in {"expose", "register", "up"} /\ d \notin shut =>
         exporter[d].own # None \/ exporter[d].shared # None
    /\ attach[d] \in {"no", "begun", "load", "store", "refused"} =>
         exporter[d].own = None /\ exporter[d].shared = None

\* A device that is up is in the fleet's hands, in StopSyslogExport's, or closed.
DevicesHeld ==
  /\ \A d \in LogDevices :
       /\ d \in exposed => attach[d] \in {"register", "up", "stop"}
       /\ d \in captured => attach[d] = "up" /\ d \notin exposed
       /\ d \in shut \cup deleted => attach[d] \in {"up", "stop", "stopped"}
       /\ d \in entered => attach[d] \in {"up", "stop"}
       /\ attach[d] \in {"register", "up"} => d \in exposed \cup captured \cup shut
       /\ attach[d] \in {"stop", "stopped"} => d \in shut
       /\ attach[d] \in {"register", "stop"} => d \in exposed
       /\ exporter[d].own # None /\ attach[d] # "expose" => d \in exposed \cup captured

\* How far StopSyslogExport has come.
ExportHeld ==
  /\ \A d \in LogDevices :
       /\ logSub = "off" => attach[d] \in {"no", "refused"}
       /\ logSub \notin {"off", "on"} => attach[d] \in {"no", "up", "stop", "stopped", "refused"}
       /\ logSub = "capture" /\ attach[d] = "stop" => d \in deleted
  /\ logSub \in {"join", "close", "pool", "done"} => exposed \subseteq deleted
  /\ captured # {} => logSub \in {"capture", "join", "close"}

\* A write fails only on an exporter that is closed, or that StopSyslogExport missed.
FiresHeld ==
  /\ \A f \in LogFirers : firing[f].at # "idle" =>
       /\ firing[f].dev \in LogDevices
       /\ attach[firing[f].dev] \in {"register", "up", "stop", "stopped"}
       /\ firing[f].at = "failed" => firing[f].dev \in shut \cup deleted
  /\ \A d \in LogDevices : failures[d] # 0 => d \in deleted

LogInv == /\ LogTypeOK /\ SocketsHeld /\ HandsOpen /\ PoolHeld /\ ExportersHeld /\ DevicesHeld
          /\ ExportHeld /\ FiresHeld
--------------------------------------------------------------------------------
(* Steps. *)

\* The names given to sockets are one-to-one, and the kinds apart.
LEMMA SocketFacts ==
  /\ \A d, e : OwnSocket(d) # PoolSocket(e) /\ OwnSocket(d) # None /\ PoolSocket(d) # None
  /\ \A d, e : OwnSocket(d) = OwnSocket(e) => d = e
  /\ \A d, e : PoolSocket(d) = PoolSocket(e) => d = e
  /\ None \in Sockets /\ \A d \in LogDevices : OwnSocket(d) \in Sockets /\ PoolSocket(d) \in Sockets
  /\ \A d \in LogDevices : KeyOf[d] \in Keys
BY DEF OwnSocket, PoolSocket, None, Sockets, Keys

\* A field of an exporter replaced leaves it an exporter.
LEMMA ExporterTyped ==
  ASSUME exporter \in [LogDevices -> [own : Sockets, shared : Sockets]], NEW d \in LogDevices,
         NEW x \in Sockets
  PROVE  /\ [exporter EXCEPT ![d].own = x] \in [LogDevices -> [own : Sockets, shared : Sockets]]
         /\ [exporter EXCEPT ![d].shared = x] \in [LogDevices -> [own : Sockets, shared : Sockets]]
BY Zenon

\* StartSyslogSubsystem keeps the invariant.
LEMMA StartSyslogSubsystemKeeps ==
  ASSUME LogInv, StartSyslogSubsystem
  PROVE  LogInv'
<1>0. LogTypeOK /\ SocketsHeld /\ HandsOpen /\ PoolHeld /\ ExportersHeld /\ DevicesHeld /\ ExportHeld
      /\ FiresHeld
  BY Zenon DEF LogInv
<1>1. LogTypeOK'
  BY <1>0, LogConstants, SocketFacts, Zenon DEF StartSyslogSubsystem, LogTypeOK, LogConstants,
     OwnSocket, PoolSocket
<1>2. /\ logSub = "off"
      /\ logSub' = "on"
      /\ UNCHANGED <<attach, hand, exporter, exposed, entered, shut, pool, opened, captured, deleted,
         firing, failures>>
  BY <1>0, SocketFacts, Zenon DEF StartSyslogSubsystem, LogTypeOK, OwnSocket, PoolSocket
<1>3. SocketsHeld'
  BY <1>0, <1>2, Zenon DEF SocketsHeld
<1>4. HandsOpen'
  BY <1>0, <1>2, Zenon DEF HandsOpen
<1>5. PoolHeld'
  BY <1>0, <1>2, Zenon DEF PoolHeld, Stored, Pooling
<1>6. ExportersHeld'
  BY <1>0, <1>2, Zenon DEF ExportersHeld, Pooling
<1>7. DevicesHeld'
  BY <1>0, <1>2, Zenon DEF DevicesHeld
<1>8. ExportHeld'
  BY <1>0, <1>2, Zenon DEF ExportHeld
<1>9. FiresHeld'
  BY <1>0, <1>2, Zenon DEF FiresHeld
<1>10. QED
  BY <1>1, <1>3, <1>4, <1>5, <1>6, <1>7, <1>8, <1>9, Zenon DEF LogInv

\* AttachBegin keeps the invariant.
LEMMA AttachBeginKeeps ==
  ASSUME LogInv, NEW d \in LogDevices, AttachBegin(d)
  PROVE  LogInv'
<1>0. LogTypeOK /\ SocketsHeld /\ HandsOpen /\ PoolHeld /\ ExportersHeld /\ DevicesHeld /\ ExportHeld
      /\ FiresHeld
  BY Zenon DEF LogInv
<1>1. LogTypeOK'
  BY <1>0, LogConstants, SocketFacts, Zenon DEF AttachBegin, To, LogTypeOK, LogConstants, OwnSocket,
     PoolSocket
<1>2. /\ attach[d] = "no"
      /\ attach'[d] = (IF logSub = "on" THEN "begun" ELSE "refused")
      /\ \A e \in LogDevices : e # d => attach'[e] = attach[e]
      /\ logSub \in {"off", "on"}
      /\ UNCHANGED <<logSub, hand, exporter, exposed, entered, shut, pool, opened, captured, deleted,
         firing, failures>>
  BY <1>0, SocketFacts, Zenon DEF AttachBegin, To, LogTypeOK, OwnSocket, PoolSocket
<1>3. SocketsHeld'
  BY <1>0, <1>2, Zenon DEF SocketsHeld
<1>4. HandsOpen'
  BY <1>0, <1>2, Zenon DEF HandsOpen
<1>5. PoolHeld'
  BY <1>0, <1>2 DEF PoolHeld, Stored, Pooling
<1>6. ExportersHeld'
  BY <1>0, <1>2, Zenon DEF ExportersHeld, Pooling
<1>7. DevicesHeld'
  BY <1>0, <1>2, Zenon DEF DevicesHeld
<1>8. ExportHeld'
  BY <1>0, <1>2, Zenon DEF ExportHeld
<1>9. FiresHeld'
  BY <1>0, <1>2, Zenon DEF FiresHeld
<1>10. QED
  BY <1>1, <1>3, <1>4, <1>5, <1>6, <1>7, <1>8, <1>9, Zenon DEF LogInv

\* AttachBind keeps the invariant.
LEMMA AttachBindKeeps ==
  ASSUME LogInv, NEW d \in LogDevices, AttachBind(d)
  PROVE  LogInv'
<1>0. LogTypeOK /\ SocketsHeld /\ HandsOpen /\ PoolHeld /\ ExportersHeld /\ DevicesHeld /\ ExportHeld
      /\ FiresHeld
  BY Zenon DEF LogInv
<1>1. LogTypeOK'
  <2>1. exporter' \in [LogDevices -> [own : Sockets, shared : Sockets]]
    <3>1. exporter' = [exporter EXCEPT ![d].own = OwnSocket(d)] \/ exporter' = exporter
      BY Zenon DEF AttachBind, OwnSocket
    <3>2. exporter \in [LogDevices -> [own : Sockets, shared : Sockets]] /\ OwnSocket(d) \in Sockets
      BY <1>0, SocketFacts, Zenon DEF LogTypeOK
    <3>3. QED
      BY <3>1, <3>2, ExporterTyped, Zenon
  <2>2. attach' \in [LogDevices -> {"no", "begun", "load", "store", "expose", "register", "up",
        "stop", "stopped", "refused"}]
    BY <1>0, Zenon DEF AttachBind, To, LogTypeOK
  <2>3. QED
    BY <1>0, <2>1, <2>2, SocketFacts DEF AttachBind, OwnSocket, LogTypeOK
<1>2. /\ attach[d] = "begun"
      /\ \A e \in LogDevices : e # d => attach'[e] = attach[e] /\ exporter'[e] = exporter[e]
      /\ exporter'[d].shared = exporter[d].shared
      /\ \/ attach'[d] = "expose" /\ opened' = opened \cup {OwnSocket(d)}
            /\ exporter'[d].own = OwnSocket(d)
         \/ attach'[d] = "load" /\ UNCHANGED <<opened, exporter>>
      /\ UNCHANGED <<logSub, hand, exposed, entered, shut, pool, captured, deleted, firing, failures>>
  BY <1>0, SocketFacts DEF AttachBind, To, LogTypeOK, OwnSocket, PoolSocket
<1>3. SocketsHeld'
  BY <1>0, <1>2, SocketFacts DEF LogTypeOK, SocketsHeld
<1>4. HandsOpen'
  BY <1>0, <1>2, Zenon DEF HandsOpen
<1>5. PoolHeld'
  BY <1>0, <1>2, Zenon DEF PoolHeld, Stored, Pooling
<1>6. ExportersHeld'
  BY <1>0, <1>2, SocketFacts DEF LogTypeOK, ExportersHeld, Pooling
<1>7. DevicesHeld'
  BY <1>0, <1>2, Zenon DEF DevicesHeld
<1>8. ExportHeld'
  BY <1>0, <1>2, Zenon DEF ExportHeld
<1>9. FiresHeld'
  BY <1>0, <1>2, Zenon DEF FiresHeld
<1>10. QED
  BY <1>1, <1>3, <1>4, <1>5, <1>6, <1>7, <1>8, <1>9, Zenon DEF LogInv

\* ConnLoad keeps the invariant.
LEMMA ConnLoadKeeps ==
  ASSUME LogInv, NEW d \in LogDevices, ConnLoad(d)
  PROVE  LogInv'
<1>0. LogTypeOK /\ SocketsHeld /\ HandsOpen /\ PoolHeld /\ ExportersHeld /\ DevicesHeld /\ ExportHeld
      /\ FiresHeld
  BY Zenon DEF LogInv
<1>1. LogTypeOK'
  <2>1. pool[KeyOf[d]] \in Sockets
    BY <1>0, SocketFacts, Zenon DEF LogTypeOK
  <2>2. exporter' \in [LogDevices -> [own : Sockets, shared : Sockets]]
    <3>1. exporter' = [exporter EXCEPT ![d].shared = pool[KeyOf[d]]] \/ exporter' = exporter
      BY Zenon DEF ConnLoad
    <3>2. exporter \in [LogDevices -> [own : Sockets, shared : Sockets]]
      BY <1>0, Zenon DEF LogTypeOK
    <3>3. QED
      BY <2>1, <3>1, <3>2, ExporterTyped
  <2>3. attach' \in [LogDevices -> {"no", "begun", "load", "store", "expose", "register", "up",
        "stop", "stopped", "refused"}]
    BY <1>0 DEF ConnLoad, To, LogTypeOK
  <2>4. hand' \in [LogDevices -> Sockets] /\ opened' \subseteq Sockets
    BY <1>0, SocketFacts DEF ConnLoad, PoolSocket, LogTypeOK
  <2>5. QED
    BY <1>0, <2>2, <2>3, <2>4, Zenon DEF ConnLoad, LogTypeOK
<1>2. /\ attach[d] = "load"
      /\ \A e \in LogDevices : e # d => attach'[e] = attach[e] /\ exporter'[e] = exporter[e]
         /\ hand'[e] = hand[e]
      /\ exporter'[d].own = exporter[d].own
      /\ \/ /\ pool[KeyOf[d]] # None /\ exporter'[d].shared = pool[KeyOf[d]] /\ attach'[d] = "expose"
            /\ UNCHANGED <<hand, opened>>
         \/ /\ hand'[d] = PoolSocket(d) /\ opened' = opened \cup {PoolSocket(d)}
               /\ attach'[d] = "store" /\ UNCHANGED exporter
         \/ attach'[d] = "refused" /\ UNCHANGED <<hand, opened, exporter>>
      /\ UNCHANGED <<logSub, exposed, entered, shut, pool, captured, deleted, firing, failures>>
  BY <1>0, SocketFacts DEF ConnLoad, To, LogTypeOK, OwnSocket, PoolSocket
<1>3. SocketsHeld'
  BY <1>0, <1>2, SocketFacts DEF LogTypeOK, SocketsHeld
<1>4. HandsOpen'
  BY <1>0, <1>2, Zenon DEF HandsOpen
<1>5. PoolHeld'
  BY <1>0, <1>2, SMTT(20) DEF PoolHeld, Stored, Pooling
<1>6. ExportersHeld'
  BY <1>0, <1>2, Zenon DEF ExportersHeld, Pooling
<1>7. DevicesHeld'
  BY <1>0, <1>2, Zenon DEF DevicesHeld
<1>8. ExportHeld'
  BY <1>0, <1>2, Zenon DEF ExportHeld
<1>9. FiresHeld'
  BY <1>0, <1>2, Zenon DEF FiresHeld
<1>10. QED
  BY <1>1, <1>3, <1>4, <1>5, <1>6, <1>7, <1>8, <1>9, Zenon DEF LogInv

\* ConnStore keeps the invariant.
LEMMA ConnStoreKeeps ==
  ASSUME LogInv, NEW d \in LogDevices, ConnStore(d)
  PROVE  LogInv'
<1>0. LogTypeOK /\ SocketsHeld /\ HandsOpen /\ PoolHeld /\ ExportersHeld /\ DevicesHeld /\ ExportHeld
      /\ FiresHeld
  BY Zenon DEF LogInv
<1>1. LogTypeOK'
  BY <1>0, LogConstants, SocketFacts DEF ConnStore, StoreKeeping, To, LogTypeOK, LogConstants,
     OwnSocket, PoolSocket
<1>2. /\ attach[d] = "store"
      /\ attach'[d] = "expose"
      /\ \A e \in LogDevices : e # d => attach'[e] = attach[e] /\ exporter'[e] = exporter[e]
         /\ hand'[e] = hand[e]
      /\ exporter'[d].own = exporter[d].own
      /\ exporter'[d].shared = pool'[KeyOf[d]]
      /\ hand'[d] = None
      /\ pool'[KeyOf[d]] = (IF pool[KeyOf[d]] = None THEN hand[d] ELSE pool[KeyOf[d]])
      /\ \A k \in Keys : k # KeyOf[d] => pool'[k] = pool[k]
      /\ opened' = IF pool'[KeyOf[d]] = hand[d] THEN opened ELSE opened \ {hand[d]}
      /\ UNCHANGED <<logSub, exposed, entered, shut, captured, deleted, firing, failures>>
  BY <1>0, SocketFacts, Zenon DEF ConnStore, StoreKeeping, To, LogTypeOK, OwnSocket, PoolSocket
<1>3. SocketsHeld'
  BY <1>0, <1>2, SocketFacts DEF LogTypeOK, SocketsHeld
<1>4. HandsOpen'
  BY <1>0, <1>2, SocketFacts DEF LogTypeOK, SocketsHeld, DevicesHeld, ExportHeld, HandsOpen
<1>5. PoolHeld'
  <2>1. hand[d] = PoolSocket(d) /\ KeyOf[d] \in Keys /\ Pooling'
    BY <1>0, <1>2, SocketFacts, Zenon DEF SocketsHeld, ExportHeld, LogTypeOK, Pooling
  <2>2. SUFFICES ASSUME NEW k \in Keys, pool'[k] # None
                 PROVE  /\ pool'[k] \in opened'
                        /\ \E e \in LogDevices : KeyOf[e] = k /\ pool'[k] = PoolSocket(e)
                           /\ Stored(e)'
    BY <2>1, Zenon DEF PoolHeld
  <2>3. CASE pool[k] # None
    <3>1. pool'[k] = pool[k] /\ pool[k] \in opened
      BY <1>0, <1>2, <2>3, Zenon DEF PoolHeld
    <3>2. PICK e \in LogDevices : KeyOf[e] = k /\ pool[k] = PoolSocket(e) /\ Stored(e)
      BY <1>0, <2>3, Zenon DEF PoolHeld
    <3>3. e # d /\ attach'[e] = attach[e]
      BY <1>2, <3>2, Zenon DEF Stored
    <3>4. pool[k] # hand[d]
      BY <2>1, <3>2, <3>3, SocketFacts, Zenon
    <3>5. QED
      BY <1>2, <3>1, <3>2, <3>3, <3>4, Zenon DEF Stored
  <2>4. CASE pool[k] = None
    <3>1. k = KeyOf[d] /\ pool'[k] = PoolSocket(d)
      BY <1>2, <2>1, <2>2, <2>4, Zenon
    <3>2. pool'[k] \in opened'
      BY <1>0, <1>2, <2>1, <3>1, Zenon DEF HandsOpen
    <3>3. QED
      BY <1>2, <3>1, <3>2, Zenon DEF Stored
  <2>5. QED
    BY <2>3, <2>4, Zenon
<1>6. ExportersHeld'
  BY <1>0, <1>2, SocketFacts, SMTT(20) DEF LogTypeOK, SocketsHeld, DevicesHeld, ExportHeld, ExportersHeld,
     Pooling
<1>7. DevicesHeld'
  BY <1>0, <1>2, Zenon DEF DevicesHeld
<1>8. ExportHeld'
  BY <1>0, <1>2, Zenon DEF ExportHeld
<1>9. FiresHeld'
  BY <1>0, <1>2, Zenon DEF FiresHeld
<1>10. QED
  BY <1>1, <1>3, <1>4, <1>5, <1>6, <1>7, <1>8, <1>9, Zenon DEF LogInv

\* AttachExpose keeps the invariant.
LEMMA AttachExposeKeeps ==
  ASSUME LogInv, NEW d \in LogDevices, AttachExpose(d)
  PROVE  LogInv'
<1>0. LogTypeOK /\ SocketsHeld /\ HandsOpen /\ PoolHeld /\ ExportersHeld /\ DevicesHeld /\ ExportHeld
      /\ FiresHeld
  BY Zenon DEF LogInv
<1>1. LogTypeOK'
  BY <1>0, LogConstants, SocketFacts, Zenon DEF AttachExpose, To, LogTypeOK, LogConstants, OwnSocket,
     PoolSocket
<1>2. /\ attach[d] = "expose"
      /\ attach'[d] = "register"
      /\ \A e \in LogDevices : e # d => attach'[e] = attach[e]
      /\ exposed' = exposed \cup {d}
      /\ UNCHANGED <<logSub, hand, exporter, entered, shut, pool, opened, captured, deleted, firing,
         failures>>
  BY <1>0, SocketFacts, Zenon DEF AttachExpose, To, LogTypeOK, OwnSocket, PoolSocket
<1>3. SocketsHeld'
  BY <1>0, <1>2, Zenon DEF SocketsHeld
<1>4. HandsOpen'
  BY <1>0, <1>2, Zenon DEF HandsOpen
<1>5. PoolHeld'
  BY <1>0, <1>2, SMTT(20) DEF PoolHeld, Stored, Pooling
<1>6. ExportersHeld'
  BY <1>0, <1>2, Zenon DEF ExportersHeld, Pooling
<1>7. DevicesHeld'
  BY <1>0, <1>2, Zenon DEF DevicesHeld
<1>8. ExportHeld'
  BY <1>0, <1>2, Zenon DEF ExportHeld
<1>9. FiresHeld'
  BY <1>0, <1>2, Zenon DEF FiresHeld
<1>10. QED
  BY <1>1, <1>3, <1>4, <1>5, <1>6, <1>7, <1>8, <1>9, Zenon DEF LogInv

\* AttachRegister keeps the invariant.
LEMMA AttachRegisterKeeps ==
  ASSUME LogInv, NEW d \in LogDevices, AttachRegister(d)
  PROVE  LogInv'
<1>0. LogTypeOK /\ SocketsHeld /\ HandsOpen /\ PoolHeld /\ ExportersHeld /\ DevicesHeld /\ ExportHeld
      /\ FiresHeld
  BY Zenon DEF LogInv
<1>1. LogTypeOK'
  BY <1>0, LogConstants, SocketFacts, Zenon DEF AttachRegister, To, LogTypeOK, LogConstants,
     OwnSocket, PoolSocket
<1>2. /\ attach[d] = "register"
      /\ attach'[d] = "up"
      /\ \A e \in LogDevices : e # d => attach'[e] = attach[e]
      /\ entered' = entered \cup {d}
      /\ UNCHANGED <<logSub, hand, exporter, exposed, shut, pool, opened, captured, deleted, firing,
         failures>>
  BY <1>0, SocketFacts, Zenon DEF AttachRegister, To, LogTypeOK, OwnSocket, PoolSocket
<1>3. SocketsHeld'
  BY <1>0, <1>2, Zenon DEF SocketsHeld
<1>4. HandsOpen'
  BY <1>0, <1>2, Zenon DEF HandsOpen
<1>5. PoolHeld'
  BY <1>0, <1>2 DEF PoolHeld, Stored, Pooling
<1>6. ExportersHeld'
  BY <1>0, <1>2, Zenon DEF ExportersHeld, Pooling
<1>7. DevicesHeld'
  BY <1>0, <1>2, Zenon DEF DevicesHeld
<1>8. ExportHeld'
  BY <1>0, <1>2, Zenon DEF ExportHeld
<1>9. FiresHeld'
  BY <1>0, <1>2, Zenon DEF FiresHeld
<1>10. QED
  BY <1>1, <1>3, <1>4, <1>5, <1>6, <1>7, <1>8, <1>9, Zenon DEF LogInv

\* FireLoad keeps the invariant.
LEMMA FireLoadKeeps ==
  ASSUME LogInv, NEW f \in LogFirers, NEW d \in LogDevices, FireLoad(f, d)
  PROVE  LogInv'
<1>0. LogTypeOK /\ SocketsHeld /\ HandsOpen /\ PoolHeld /\ ExportersHeld /\ DevicesHeld /\ ExportHeld
      /\ FiresHeld
  BY Zenon DEF LogInv
<1>1. LogTypeOK'
  BY <1>0, LogConstants, SocketFacts, Zenon DEF FireLoad, FirerAt, NotFiring, LogTypeOK, LogConstants,
     OwnSocket, PoolSocket
<1>2. /\ d \in entered \/ d \in exposed
      /\ firing'[f].at = "fire"
      /\ firing'[f].dev = d
      /\ \A g \in LogFirers : g # f => firing'[g] = firing[g]
      /\ UNCHANGED <<logSub, attach, hand, exporter, exposed, entered, shut, pool, opened, captured,
         deleted, failures>>
  BY <1>0, SocketFacts, Zenon DEF FireLoad, FirerAt, NotFiring, LogTypeOK, OwnSocket, PoolSocket
<1>3. SocketsHeld'
  BY <1>0, <1>2, Zenon DEF SocketsHeld
<1>4. HandsOpen'
  BY <1>0, <1>2, Zenon DEF HandsOpen
<1>5. PoolHeld'
  BY <1>0, <1>2, Zenon DEF PoolHeld, Stored, Pooling
<1>6. ExportersHeld'
  BY <1>0, <1>2, Zenon DEF ExportersHeld, Pooling
<1>7. DevicesHeld'
  BY <1>0, <1>2, Zenon DEF DevicesHeld
<1>8. ExportHeld'
  BY <1>0, <1>2, Zenon DEF ExportHeld
<1>9. FiresHeld'
  BY <1>0, <1>2, SocketFacts DEF LogTypeOK, SocketsHeld, DevicesHeld, ExportHeld, FiresHeld
<1>10. QED
  BY <1>1, <1>3, <1>4, <1>5, <1>6, <1>7, <1>8, <1>9, Zenon DEF LogInv

\* FireCheck keeps the invariant.
LEMMA FireCheckKeeps ==
  ASSUME LogInv, NEW f \in LogFirers, FireCheck(f)
  PROVE  LogInv'
<1>0. LogTypeOK /\ SocketsHeld /\ HandsOpen /\ PoolHeld /\ ExportersHeld /\ DevicesHeld /\ ExportHeld
      /\ FiresHeld
  BY Zenon DEF LogInv
<1>1. LogTypeOK'
  BY <1>0, LogConstants, SocketFacts DEF FireCheck, FirerAt, LogTypeOK, LogConstants, OwnSocket,
     PoolSocket
<1>2. /\ firing[f].at = "fire"
      /\ firing'[f].at \in {"idle", "send"}
      /\ firing'[f].at = "send" => firing'[f].dev = firing[f].dev
      /\ \A g \in LogFirers : g # f => firing'[g] = firing[g]
      /\ UNCHANGED <<logSub, attach, hand, exporter, exposed, entered, shut, pool, opened, captured,
         deleted, failures>>
  BY <1>0, SocketFacts DEF FireCheck, FirerAt, LogTypeOK, OwnSocket, PoolSocket
<1>3. SocketsHeld'
  BY <1>0, <1>2, Zenon DEF SocketsHeld
<1>4. HandsOpen'
  BY <1>0, <1>2, Zenon DEF HandsOpen
<1>5. PoolHeld'
  BY <1>0, <1>2, Zenon DEF PoolHeld, Stored, Pooling
<1>6. ExportersHeld'
  BY <1>0, <1>2, Zenon DEF ExportersHeld, Pooling
<1>7. DevicesHeld'
  BY <1>0, <1>2, Zenon DEF DevicesHeld
<1>8. ExportHeld'
  BY <1>0, <1>2, Zenon DEF ExportHeld
<1>9. FiresHeld'
  BY <1>0, <1>2, Zenon DEF FiresHeld
<1>10. QED
  BY <1>1, <1>3, <1>4, <1>5, <1>6, <1>7, <1>8, <1>9, Zenon DEF LogInv

\* FireSend keeps the invariant.
LEMMA FireSendKeeps ==
  ASSUME LogInv, NEW f \in LogFirers, FireSend(f)
  PROVE  LogInv'
<1>0. LogTypeOK /\ SocketsHeld /\ HandsOpen /\ PoolHeld /\ ExportersHeld /\ DevicesHeld /\ ExportHeld
      /\ FiresHeld
  BY Zenon DEF LogInv
<1>1. LogTypeOK'
  BY <1>0, LogConstants, SocketFacts DEF FireSend, FirerAt, LogTypeOK, LogConstants, OwnSocket,
     PoolSocket
<1>2. /\ firing[f].at = "send"
      /\ firing'[f].at = (IF Writable(firing[f].dev) THEN "idle" ELSE "failed")
      /\ firing'[f].at = "failed" => firing'[f].dev = firing[f].dev
      /\ \A g \in LogFirers : g # f => firing'[g] = firing[g]
      /\ UNCHANGED <<logSub, attach, hand, exporter, exposed, entered, shut, pool, opened, captured,
         deleted, failures>>
  BY <1>0, SocketFacts DEF FireSend, FirerAt, LogTypeOK, OwnSocket, PoolSocket
<1>3. SocketsHeld'
  BY <1>0, <1>2, Zenon DEF SocketsHeld
<1>4. HandsOpen'
  BY <1>0, <1>2, Zenon DEF HandsOpen
<1>5. PoolHeld'
  BY <1>0, <1>2, Zenon DEF PoolHeld, Stored, Pooling
<1>6. ExportersHeld'
  BY <1>0, <1>2, Zenon DEF ExportersHeld, Pooling
<1>7. DevicesHeld'
  BY <1>0, <1>2, Zenon DEF DevicesHeld
<1>8. ExportHeld'
  BY <1>0, <1>2, Zenon DEF ExportHeld
<1>9. FiresHeld'
  <2> DEFINE d == firing[f].dev
  <2>1. d \in LogDevices /\ attach[d] \in {"register", "up", "stop", "stopped"}
    BY <1>0, <1>2, Zenon DEF FiresHeld
  <2>2. ASSUME ~Writable(d) PROVE d \in shut \cup deleted
    <3>1. CASE Pooling /\ d \notin shut
      <4>1. attach[d] \in {"register", "up"}
        BY <1>0, <2>1, <3>1, Zenon DEF DevicesHeld
      <4>2. exporter[d].own \in opened \/ exporter[d].shared \in opened
        BY <1>0, <2>1, <3>1, <4>1, SocketFacts DEF ExportersHeld, SocketsHeld, PoolHeld
      <4>3. QED
        BY <2>2, <4>2, Zenon DEF Writable
    <3>2. CASE ~Pooling /\ d \notin shut
      <4>1. logSub \in {"pool", "done"}
        BY <1>0, <3>2, Zenon DEF LogTypeOK, Pooling
      <4>2. attach[d] = "up" /\ captured = {} /\ exposed \subseteq deleted
        BY <1>0, <2>1, <3>2, <4>1, Zenon DEF DevicesHeld, ExportHeld
      <4>3. QED
        BY <1>0, <2>1, <3>2, <4>2, Zenon DEF DevicesHeld
    <3>3. QED
      BY <3>1, <3>2, Zenon
  <2>3. QED
    BY <1>0, <1>2, <2>1, <2>2, Zenon DEF FiresHeld
<1>10. QED
  BY <1>1, <1>3, <1>4, <1>5, <1>6, <1>7, <1>8, <1>9, Zenon DEF LogInv

\* FireFailed keeps the invariant.
LEMMA FireFailedKeeps ==
  ASSUME LogInv, NEW f \in LogFirers, FireFailed(f)
  PROVE  LogInv'
<1>0. LogTypeOK /\ SocketsHeld /\ HandsOpen /\ PoolHeld /\ ExportersHeld /\ DevicesHeld /\ ExportHeld
      /\ FiresHeld
  BY Zenon DEF LogInv
<1>1. LogTypeOK'
  <2>1. firing' \in [LogFirers -> [at : {"idle", "fire", "send", "failed"},
        dev : LogDevices \cup {NoDevice}]]
    BY <1>0, Zenon DEF FireFailed, FirerAt, LogTypeOK
  <2>2. firing[f].dev \in LogDevices
    BY <1>0, Zenon DEF FireFailed, FiresHeld
  <2>3. failures' \in [LogDevices -> 0 .. 1]
    BY <1>0, <2>2 DEF FireFailed, LogTypeOK
  <2>4. QED
    BY <1>0, <2>1, <2>3, Zenon DEF FireFailed, LogTypeOK
<1>2. /\ firing[f].at = "failed"
      /\ firing'[f].at = "idle"
      /\ \A g \in LogFirers : g # f => firing'[g] = firing[g]
      /\ \A d \in LogDevices : failures'[d] # failures[d] => d = firing[f].dev /\ d \notin shut
      /\ UNCHANGED <<logSub, attach, hand, exporter, exposed, entered, shut, pool, opened, captured,
         deleted>>
  BY <1>0, SocketFacts, Zenon DEF FireFailed, FirerAt, LogTypeOK, OwnSocket, PoolSocket
<1>3. SocketsHeld'
  BY <1>0, <1>2, Zenon DEF SocketsHeld
<1>4. HandsOpen'
  BY <1>0, <1>2, Zenon DEF HandsOpen
<1>5. PoolHeld'
  BY <1>0, <1>2, Zenon DEF PoolHeld, Stored, Pooling
<1>6. ExportersHeld'
  BY <1>0, <1>2, Zenon DEF ExportersHeld, Pooling
<1>7. DevicesHeld'
  BY <1>0, <1>2, Zenon DEF DevicesHeld
<1>8. ExportHeld'
  BY <1>0, <1>2, Zenon DEF ExportHeld
<1>9. FiresHeld'
  BY <1>0, <1>2, Zenon DEF FiresHeld
<1>10. QED
  BY <1>1, <1>3, <1>4, <1>5, <1>6, <1>7, <1>8, <1>9, Zenon DEF LogInv

\* DeleteAllDevices keeps the invariant.
LEMMA DeleteAllDevicesKeeps ==
  ASSUME LogInv, DeleteAllDevices
  PROVE  LogInv'
<1>0. LogTypeOK /\ SocketsHeld /\ HandsOpen /\ PoolHeld /\ ExportersHeld /\ DevicesHeld /\ ExportHeld
      /\ FiresHeld
  BY Zenon DEF LogInv
<1>1. LogTypeOK'
  BY <1>0, LogConstants, SocketFacts, Zenon DEF DeleteAllDevices, LogTypeOK, LogConstants, OwnSocket,
     PoolSocket
<1>2. /\ deleted' = deleted \cup {d \in LogDevices : attach[d] = "up"}
      /\ UNCHANGED <<logSub, attach, hand, exporter, exposed, entered, shut, pool, opened, captured,
         firing, failures>>
  BY <1>0, SocketFacts, Zenon DEF DeleteAllDevices, LogTypeOK, OwnSocket, PoolSocket
<1>3. SocketsHeld'
  BY <1>0, <1>2, Zenon DEF SocketsHeld
<1>4. HandsOpen'
  BY <1>0, <1>2, Zenon DEF HandsOpen
<1>5. PoolHeld'
  BY <1>0, <1>2, Zenon DEF PoolHeld, Stored, Pooling
<1>6. ExportersHeld'
  BY <1>0, <1>2, Zenon DEF ExportersHeld, Pooling
<1>7. DevicesHeld'
  BY <1>0, <1>2, Zenon DEF DevicesHeld
<1>8. ExportHeld'
  BY <1>0, <1>2, Zenon DEF ExportHeld
<1>9. FiresHeld'
  BY <1>0, <1>2, Zenon DEF FiresHeld
<1>10. QED
  BY <1>1, <1>3, <1>4, <1>5, <1>6, <1>7, <1>8, <1>9, Zenon DEF LogInv

\* StopBegin keeps the invariant.
LEMMA StopBeginKeeps ==
  ASSUME LogInv, NEW d \in LogDevices, StopBegin(d)
  PROVE  LogInv'
<1>0. LogTypeOK /\ SocketsHeld /\ HandsOpen /\ PoolHeld /\ ExportersHeld /\ DevicesHeld /\ ExportHeld
      /\ FiresHeld
  BY Zenon DEF LogInv
<1>1. LogTypeOK'
  BY <1>0, LogConstants, SocketFacts, Zenon DEF StopBegin, To, LogTypeOK, LogConstants, OwnSocket,
     PoolSocket
<1>2. /\ attach[d] = "up"
      /\ attach'[d] = "stop"
      /\ \A e \in LogDevices : e # d => attach'[e] = attach[e]
      /\ d \in exposed
      /\ d \in deleted \/ logSub # "capture"
      /\ shut' = shut \cup {d}
      /\ UNCHANGED <<logSub, hand, exporter, exposed, entered, pool, opened, captured, deleted,
         firing, failures>>
  BY <1>0, SocketFacts, Zenon DEF StopBegin, To, LogTypeOK, OwnSocket, PoolSocket
<1>3. SocketsHeld'
  BY <1>0, <1>2, Zenon DEF SocketsHeld
<1>4. HandsOpen'
  BY <1>0, <1>2, Zenon DEF HandsOpen
<1>5. PoolHeld'
  BY <1>0, <1>2, Zenon DEF PoolHeld, Stored, Pooling
<1>6. ExportersHeld'
  BY <1>0, <1>2, Zenon DEF ExportersHeld, Pooling
<1>7. DevicesHeld'
  BY <1>0, <1>2, Zenon DEF DevicesHeld
<1>8. ExportHeld'
  BY <1>0, <1>2, Zenon DEF ExportHeld
<1>9. FiresHeld'
  BY <1>0, <1>2, Zenon DEF FiresHeld
<1>10. QED
  BY <1>1, <1>3, <1>4, <1>5, <1>6, <1>7, <1>8, <1>9, Zenon DEF LogInv

\* StopClose keeps the invariant.
LEMMA StopCloseKeeps ==
  ASSUME LogInv, NEW d \in LogDevices, StopClose(d)
  PROVE  LogInv'
<1>0. LogTypeOK /\ SocketsHeld /\ HandsOpen /\ PoolHeld /\ ExportersHeld /\ DevicesHeld /\ ExportHeld
      /\ FiresHeld
  BY Zenon DEF LogInv
<1>1. LogTypeOK'
  BY <1>0, LogConstants, SocketFacts DEF StopClose, StopClosing, To, LogTypeOK, LogConstants,
     OwnSocket, PoolSocket
<1>2. /\ attach[d] = "stop"
      /\ attach'[d] = "stopped"
      /\ \A e \in LogDevices : e # d => attach'[e] = attach[e]
      /\ exporter'[d].own = None
      /\ exporter'[d].shared = exporter[d].shared
      /\ \A e \in LogDevices : e # d => exporter'[e] = exporter[e]
      /\ opened' = opened \ {exporter[d].own}
      /\ exposed' = exposed \ {d}
      /\ entered' = entered \ {d}
      /\ UNCHANGED <<logSub, hand, shut, pool, captured, deleted, firing, failures>>
  BY <1>0, SocketFacts, Zenon DEF StopClose, StopClosing, To, LogTypeOK, OwnSocket, PoolSocket
<1>3. SocketsHeld'
  BY <1>0, <1>2, SocketFacts DEF LogTypeOK, SocketsHeld
<1>4. HandsOpen'
  BY <1>0, <1>2, SocketFacts DEF LogTypeOK, SocketsHeld, DevicesHeld, ExportHeld, HandsOpen
<1>5. PoolHeld'
  BY <1>0, <1>2, SocketFacts DEF LogTypeOK, SocketsHeld, DevicesHeld, ExportHeld, PoolHeld, Stored,
     Pooling
<1>6. ExportersHeld'
  BY <1>0, <1>2, Zenon DEF ExportersHeld, Pooling
<1>7. DevicesHeld'
  BY <1>0, <1>2, Zenon DEF DevicesHeld
<1>8. ExportHeld'
  BY <1>0, <1>2, Zenon DEF ExportHeld
<1>9. FiresHeld'
  BY <1>0, <1>2, Zenon DEF FiresHeld
<1>10. QED
  BY <1>1, <1>3, <1>4, <1>5, <1>6, <1>7, <1>8, <1>9, Zenon DEF LogInv

\* ExportStop keeps the invariant.
LEMMA ExportStopKeeps ==
  ASSUME LogInv, ExportStop
  PROVE  LogInv'
<1>0. LogTypeOK /\ SocketsHeld /\ HandsOpen /\ PoolHeld /\ ExportersHeld /\ DevicesHeld /\ ExportHeld
      /\ FiresHeld
  BY Zenon DEF LogInv
<1>1. LogTypeOK'
  BY <1>0, LogConstants, SocketFacts, Zenon DEF ExportStop, DeleteHolds, LogTypeOK, LogConstants,
     OwnSocket, PoolSocket
<1>2. /\ logSub = "on"
      /\ logSub' = "capture"
      /\ \A d \in LogDevices : attach[d] \in {"no", "up", "stop", "stopped", "refused"}
      /\ \A d \in LogDevices : attach[d] = "stop" => d \in deleted
      /\ UNCHANGED <<attach, hand, exporter, exposed, entered, shut, pool, opened, captured, deleted,
         firing, failures>>
  BY <1>0, SocketFacts, Zenon DEF ExportStop, DeleteHolds, LogTypeOK, OwnSocket, PoolSocket
<1>3. SocketsHeld'
  BY <1>0, <1>2, Zenon DEF SocketsHeld
<1>4. HandsOpen'
  BY <1>0, <1>2, Zenon DEF HandsOpen
<1>5. PoolHeld'
  BY <1>0, <1>2, Zenon DEF PoolHeld, Stored, Pooling
<1>6. ExportersHeld'
  BY <1>0, <1>2, Zenon DEF ExportersHeld, Pooling
<1>7. DevicesHeld'
  BY <1>0, <1>2, Zenon DEF DevicesHeld
<1>8. ExportHeld'
  BY <1>0, <1>2, Zenon DEF ExportHeld
<1>9. FiresHeld'
  BY <1>0, <1>2, Zenon DEF FiresHeld
<1>10. QED
  BY <1>1, <1>3, <1>4, <1>5, <1>6, <1>7, <1>8, <1>9, Zenon DEF LogInv

\* ExportTake keeps the invariant.
LEMMA ExportTakeKeeps ==
  ASSUME LogInv, NEW d \in LogDevices, ExportTake(d)
  PROVE  LogInv'
<1>0. LogTypeOK /\ SocketsHeld /\ HandsOpen /\ PoolHeld /\ ExportersHeld /\ DevicesHeld /\ ExportHeld
      /\ FiresHeld
  BY Zenon DEF LogInv
<1>1. LogTypeOK'
  BY <1>0, LogConstants, SocketFacts, Zenon DEF ExportTake, LogTypeOK, LogConstants, OwnSocket,
     PoolSocket
<1>2. /\ logSub = "capture"
      /\ d \in exposed \ deleted
      /\ exposed' = exposed \ {d}
      /\ captured' = captured \cup {d}
      /\ UNCHANGED <<logSub, attach, hand, exporter, entered, shut, pool, opened, deleted, firing,
         failures>>
  BY <1>0, SocketFacts, Zenon DEF ExportTake, LogTypeOK, OwnSocket, PoolSocket
<1>3. SocketsHeld'
  BY <1>0, <1>2, Zenon DEF SocketsHeld
<1>4. HandsOpen'
  BY <1>0, <1>2, Zenon DEF HandsOpen
<1>5. PoolHeld'
  BY <1>0, <1>2, Zenon DEF PoolHeld, Stored, Pooling
<1>6. ExportersHeld'
  BY <1>0, <1>2, Zenon DEF ExportersHeld, Pooling
<1>7. DevicesHeld'
  BY <1>0, <1>2, SocketFacts, Zenon DEF LogTypeOK, SocketsHeld, DevicesHeld, ExportHeld
<1>8. ExportHeld'
  BY <1>0, <1>2, Zenon DEF ExportHeld
<1>9. FiresHeld'
  BY <1>0, <1>2, Zenon DEF FiresHeld
<1>10. QED
  BY <1>1, <1>3, <1>4, <1>5, <1>6, <1>7, <1>8, <1>9, Zenon DEF LogInv

\* ExportTaken keeps the invariant.
LEMMA ExportTakenKeeps ==
  ASSUME LogInv, ExportTaken
  PROVE  LogInv'
<1>0. LogTypeOK /\ SocketsHeld /\ HandsOpen /\ PoolHeld /\ ExportersHeld /\ DevicesHeld /\ ExportHeld
      /\ FiresHeld
  BY Zenon DEF LogInv
<1>1. LogTypeOK'
  BY <1>0, LogConstants, SocketFacts, Zenon DEF ExportTaken, LogTypeOK, LogConstants, OwnSocket,
     PoolSocket
<1>2. /\ logSub = "capture"
      /\ logSub' = "join"
      /\ exposed \subseteq deleted
      /\ UNCHANGED <<attach, hand, exporter, exposed, entered, shut, pool, opened, captured, deleted,
         firing, failures>>
  BY <1>0, SocketFacts, Zenon DEF ExportTaken, LogTypeOK, OwnSocket, PoolSocket
<1>3. SocketsHeld'
  BY <1>0, <1>2, Zenon DEF SocketsHeld
<1>4. HandsOpen'
  BY <1>0, <1>2, Zenon DEF HandsOpen
<1>5. PoolHeld'
  BY <1>0, <1>2, Zenon DEF PoolHeld, Stored, Pooling
<1>6. ExportersHeld'
  BY <1>0, <1>2, Zenon DEF ExportersHeld, Pooling
<1>7. DevicesHeld'
  BY <1>0, <1>2, Zenon DEF DevicesHeld
<1>8. ExportHeld'
  BY <1>0, <1>2, Zenon DEF ExportHeld
<1>9. FiresHeld'
  BY <1>0, <1>2, Zenon DEF FiresHeld
<1>10. QED
  BY <1>1, <1>3, <1>4, <1>5, <1>6, <1>7, <1>8, <1>9, Zenon DEF LogInv

\* ExportJoin keeps the invariant.
LEMMA ExportJoinKeeps ==
  ASSUME LogInv, ExportJoin
  PROVE  LogInv'
<1>0. LogTypeOK /\ SocketsHeld /\ HandsOpen /\ PoolHeld /\ ExportersHeld /\ DevicesHeld /\ ExportHeld
      /\ FiresHeld
  BY Zenon DEF LogInv
<1>1. LogTypeOK'
  BY <1>0, LogConstants, SocketFacts, Zenon DEF ExportJoin, LogTypeOK, LogConstants, OwnSocket,
     PoolSocket
<1>2. /\ logSub = "join"
      /\ logSub' = "close"
      /\ UNCHANGED <<attach, hand, exporter, exposed, entered, shut, pool, opened, captured, deleted,
         firing, failures>>
  BY <1>0, SocketFacts, Zenon DEF ExportJoin, LogTypeOK, OwnSocket, PoolSocket
<1>3. SocketsHeld'
  BY <1>0, <1>2, Zenon DEF SocketsHeld
<1>4. HandsOpen'
  BY <1>0, <1>2, Zenon DEF HandsOpen
<1>5. PoolHeld'
  BY <1>0, <1>2, Zenon DEF PoolHeld, Stored, Pooling
<1>6. ExportersHeld'
  BY <1>0, <1>2, Zenon DEF ExportersHeld, Pooling
<1>7. DevicesHeld'
  BY <1>0, <1>2, Zenon DEF DevicesHeld
<1>8. ExportHeld'
  BY <1>0, <1>2, Zenon DEF ExportHeld
<1>9. FiresHeld'
  BY <1>0, <1>2, Zenon DEF FiresHeld
<1>10. QED
  BY <1>1, <1>3, <1>4, <1>5, <1>6, <1>7, <1>8, <1>9, Zenon DEF LogInv

\* ExportMark keeps the invariant.
LEMMA ExportMarkKeeps ==
  ASSUME LogInv, NEW d \in LogDevices, ExportMark(d)
  PROVE  LogInv'
<1>0. LogTypeOK /\ SocketsHeld /\ HandsOpen /\ PoolHeld /\ ExportersHeld /\ DevicesHeld /\ ExportHeld
      /\ FiresHeld
  BY Zenon DEF LogInv
<1>1. LogTypeOK'
  BY <1>0, LogConstants, SocketFacts, Zenon DEF ExportMark, LogTypeOK, LogConstants, OwnSocket,
     PoolSocket
<1>2. /\ logSub = "close"
      /\ d \in captured
      /\ shut' = shut \cup {d}
      /\ UNCHANGED <<logSub, attach, hand, exporter, exposed, entered, pool, opened, captured,
         deleted, firing, failures>>
  BY <1>0, SocketFacts, Zenon DEF ExportMark, LogTypeOK, OwnSocket, PoolSocket
<1>3. SocketsHeld'
  BY <1>0, <1>2, Zenon DEF SocketsHeld
<1>4. HandsOpen'
  BY <1>0, <1>2, Zenon DEF HandsOpen
<1>5. PoolHeld'
  BY <1>0, <1>2, Zenon DEF PoolHeld, Stored, Pooling
<1>6. ExportersHeld'
  BY <1>0, <1>2, Zenon DEF ExportersHeld, Pooling
<1>7. DevicesHeld'
  BY <1>0, <1>2, Zenon DEF DevicesHeld
<1>8. ExportHeld'
  BY <1>0, <1>2, Zenon DEF ExportHeld
<1>9. FiresHeld'
  BY <1>0, <1>2, Zenon DEF FiresHeld
<1>10. QED
  BY <1>1, <1>3, <1>4, <1>5, <1>6, <1>7, <1>8, <1>9, Zenon DEF LogInv

\* ExportClose keeps the invariant.
LEMMA ExportCloseKeeps ==
  ASSUME LogInv, NEW d \in LogDevices, ExportClose(d)
  PROVE  LogInv'
<1>0. LogTypeOK /\ SocketsHeld /\ HandsOpen /\ PoolHeld /\ ExportersHeld /\ DevicesHeld /\ ExportHeld
      /\ FiresHeld
  BY Zenon DEF LogInv
<1>1. LogTypeOK'
  BY <1>0, LogConstants, SocketFacts DEF ExportClose, LogTypeOK, LogConstants, OwnSocket, PoolSocket
<1>2. /\ logSub = "close"
      /\ d \in captured \cap shut
      /\ opened' = opened \ {exporter[d].own}
      /\ exporter'[d].own = None
      /\ exporter'[d].shared = exporter[d].shared
      /\ \A e \in LogDevices : e # d => exporter'[e] = exporter[e]
      /\ captured' = captured \ {d}
      /\ UNCHANGED <<logSub, attach, hand, exposed, entered, shut, pool, deleted, firing, failures>>
  BY <1>0, SocketFacts, Zenon DEF ExportClose, LogTypeOK, OwnSocket, PoolSocket
<1>3. SocketsHeld'
  BY <1>0, <1>2, SocketFacts DEF LogTypeOK, SocketsHeld
<1>4. HandsOpen'
  BY <1>0, <1>2, SocketFacts, Zenon DEF LogTypeOK, SocketsHeld, DevicesHeld, ExportHeld, HandsOpen
<1>5. PoolHeld'
  BY <1>0, <1>2, SocketFacts DEF LogTypeOK, SocketsHeld, DevicesHeld, ExportHeld, PoolHeld, Stored,
     Pooling
<1>6. ExportersHeld'
  BY <1>0, <1>2, Zenon DEF ExportersHeld, Pooling
<1>7. DevicesHeld'
  BY <1>0, <1>2, Zenon DEF DevicesHeld
<1>8. ExportHeld'
  BY <1>0, <1>2, Zenon DEF ExportHeld
<1>9. FiresHeld'
  BY <1>0, <1>2, Zenon DEF FiresHeld
<1>10. QED
  BY <1>1, <1>3, <1>4, <1>5, <1>6, <1>7, <1>8, <1>9, Zenon DEF LogInv

\* ExportPool keeps the invariant.
LEMMA ExportPoolKeeps ==
  ASSUME LogInv, ExportPool
  PROVE  LogInv'
<1>0. LogTypeOK /\ SocketsHeld /\ HandsOpen /\ PoolHeld /\ ExportersHeld /\ DevicesHeld /\ ExportHeld
      /\ FiresHeld
  BY Zenon DEF LogInv
<1>1. LogTypeOK'
  BY <1>0, LogConstants, SocketFacts, Zenon DEF ExportPool, PoolCloses, LogTypeOK, LogConstants,
     OwnSocket, PoolSocket
<1>2. /\ logSub = "close"
      /\ captured = {}
      /\ logSub' = "pool"
      /\ \A k \in Keys : pool'[k] = None
      /\ opened' = opened \ {pool[k] : k \in Keys}
      /\ UNCHANGED <<attach, hand, exporter, exposed, entered, shut, captured, deleted, firing,
         failures>>
  BY <1>0, SocketFacts, Zenon DEF ExportPool, PoolCloses, LogTypeOK, OwnSocket, PoolSocket
<1>3. SocketsHeld'
  BY <1>0, <1>2, SocketFacts DEF LogTypeOK, SocketsHeld, PoolHeld, Stored, ExportersHeld, DevicesHeld,
     ExportHeld, FiresHeld, HandsOpen, Pooling
<1>4. HandsOpen'
  BY <1>0, <1>2, SocketFacts, Zenon DEF LogTypeOK, SocketsHeld, DevicesHeld, ExportHeld, HandsOpen
<1>5. PoolHeld'
  BY <1>0, <1>2, Zenon DEF PoolHeld, Stored, Pooling
<1>6. ExportersHeld'
  BY <1>0, <1>2, Zenon DEF ExportersHeld, Pooling
<1>7. DevicesHeld'
  BY <1>0, <1>2, Zenon DEF DevicesHeld
<1>8. ExportHeld'
  BY <1>0, <1>2, Zenon DEF ExportHeld
<1>9. FiresHeld'
  BY <1>0, <1>2, Zenon DEF FiresHeld
<1>10. QED
  BY <1>1, <1>3, <1>4, <1>5, <1>6, <1>7, <1>8, <1>9, Zenon DEF LogInv

\* ExportReset keeps the invariant.
LEMMA ExportResetKeeps ==
  ASSUME LogInv, ExportReset
  PROVE  LogInv'
<1>0. LogTypeOK /\ SocketsHeld /\ HandsOpen /\ PoolHeld /\ ExportersHeld /\ DevicesHeld /\ ExportHeld
      /\ FiresHeld
  BY Zenon DEF LogInv
<1>1. LogTypeOK'
  BY <1>0, LogConstants, SocketFacts, Zenon DEF ExportReset, LogTypeOK, LogConstants, OwnSocket,
     PoolSocket
<1>2. /\ logSub = "pool"
      /\ logSub' = "done"
      /\ entered' = {}
      /\ UNCHANGED <<attach, hand, exporter, exposed, shut, pool, opened, captured, deleted, firing,
         failures>>
  BY <1>0, SocketFacts, Zenon DEF ExportReset, LogTypeOK, OwnSocket, PoolSocket
<1>3. SocketsHeld'
  BY <1>0, <1>2, Zenon DEF SocketsHeld
<1>4. HandsOpen'
  BY <1>0, <1>2, Zenon DEF HandsOpen
<1>5. PoolHeld'
  BY <1>0, <1>2, Zenon DEF PoolHeld, Stored, Pooling
<1>6. ExportersHeld'
  BY <1>0, <1>2, Zenon DEF ExportersHeld, Pooling
<1>7. DevicesHeld'
  BY <1>0, <1>2, Zenon DEF DevicesHeld
<1>8. ExportHeld'
  BY <1>0, <1>2, Zenon DEF ExportHeld
<1>9. FiresHeld'
  BY <1>0, <1>2, Zenon DEF FiresHeld
<1>10. QED
  BY <1>1, <1>3, <1>4, <1>5, <1>6, <1>7, <1>8, <1>9, Zenon DEF LogInv

\* The initial state satisfies the invariant.
LEMMA LogStarts ==
  ASSUME LogInit
  PROVE  LogInv
<1>1. LogTypeOK
  BY SocketFacts, LogConstants DEF LogInit, LogTypeOK, LogConstants, NoExporter, NotFiring
<1>2. SocketsHeld /\ HandsOpen /\ PoolHeld /\ ExportersHeld
  BY SocketFacts, Zenon DEF LogInit, SocketsHeld, HandsOpen, PoolHeld, ExportersHeld, NoExporter
<1>3. DevicesHeld /\ ExportHeld /\ FiresHeld
  BY SocketFacts, Zenon DEF LogInit, DevicesHeld, ExportHeld, FiresHeld, NoExporter, NotFiring
<1>4. QED
  BY <1>1, <1>2, <1>3, Zenon DEF LogInv

\* Every step of the subsystem keeps the invariant.
LEMMA LogStepKeeps ==
  ASSUME LogInv, [LogNext]_logVars
  PROVE  LogInv'
<1>1. CASE StartSyslogSubsystem \/ DeleteAllDevices
  BY <1>1, StartSyslogSubsystemKeeps, DeleteAllDevicesKeeps, Zenon
<1>2. CASE Export
  BY <1>2, ExportStopKeeps, ExportTakenKeeps, ExportJoinKeeps, ExportPoolKeeps, ExportResetKeeps,
     ExportTakeKeeps, ExportMarkKeeps, ExportCloseKeeps, Zenon DEF Export
<1>3. CASE \E d \in LogDevices : Attach(d) \/ StopBegin(d) \/ StopClose(d)
  BY <1>3, AttachBeginKeeps, AttachBindKeeps, ConnLoadKeeps, ConnStoreKeeps, AttachExposeKeeps,
     AttachRegisterKeeps, StopBeginKeeps, StopCloseKeeps, Zenon DEF Attach
<1>4. CASE \E f \in LogFirers : Firing(f)
  BY <1>4, FireLoadKeeps, FireCheckKeeps, FireSendKeeps, FireFailedKeeps, Zenon DEF Firing
<1>5. CASE UNCHANGED logVars
  <2>1. UNCHANGED <<logSub, attach, hand, exporter, exposed, entered, shut, pool, opened, captured,
                    deleted, firing, failures>>
    BY <1>5, Zenon DEF logVars
  <2>2. LogTypeOK' /\ SocketsHeld' /\ HandsOpen' /\ PoolHeld'
    BY <2>1, Zenon DEF LogInv, LogTypeOK, SocketsHeld, HandsOpen, PoolHeld, Stored, Pooling
  <2>3. ExportersHeld' /\ DevicesHeld' /\ ExportHeld' /\ FiresHeld'
    BY <2>1, Zenon DEF LogInv, ExportersHeld, DevicesHeld, ExportHeld, FiresHeld, Pooling
  <2>4. QED
    BY <2>2, <2>3, Zenon DEF LogInv
<1>6. QED
  BY <1>1, <1>2, <1>3, <1>4, <1>5, Zenon DEF LogNext

\* What the invariant says of the fleet's sockets, exporters and counters.
LEMMA FleetKept ==
  ASSUME LogInv
  PROVE  LogTypeOK /\ OneSocketPerKey /\ ExposedIsWritable /\ NoFailureForShutdown
         /\ StopLeavesNothing
<1>1. OneSocketPerKey
  BY Zenon DEF LogInv, SocketsHeld, PoolSocket, OneSocketPerKey
<1>2. ExposedIsWritable
  <2>1. SUFFICES ASSUME NEW d \in exposed \ deleted, d \notin shut PROVE Writable(d)
    BY Zenon DEF ExposedIsWritable
  <2>2. d \in LogDevices
    BY Zenon DEF LogInv, LogTypeOK
  <2>3. Pooling
    BY <2>1, Zenon DEF LogInv, LogTypeOK, ExportHeld, Pooling
  <2>4. attach[d] \in {"register", "up"}
    BY <2>1, <2>2, Zenon DEF LogInv, DevicesHeld
  <2>5. exporter[d].own \in opened \/ (exporter[d].shared = pool[KeyOf[d]] /\ pool[KeyOf[d]] # None)
    BY <2>1, <2>2, <2>3, <2>4, Zenon DEF LogInv, ExportersHeld, SocketsHeld
  <2>6. QED
    BY <2>2, <2>5, SocketFacts, Zenon DEF LogInv, PoolHeld, Writable
<1>3. NoFailureForShutdown
  BY Zenon DEF LogInv, FiresHeld, NoFailureForShutdown
<1>4. StopLeavesNothing
  <2>1. SUFFICES ASSUME logSub = "done"
                 PROVE  /\ exposed \subseteq deleted /\ captured = {}
                        /\ \A s \in opened : \E d \in exposed : s = exporter[d].own
    BY Zenon DEF StopLeavesNothing
  <2>2. exposed \subseteq deleted /\ captured = {}
    BY <2>1, Zenon DEF LogInv, ExportHeld
  <2>3. ASSUME NEW s \in opened PROVE \E d \in exposed : s = exporter[d].own
    <3>1. PICK d \in LogDevices : s = OwnSocket(d) \/ s = PoolSocket(d)
      BY DEF LogInv, LogTypeOK, SocketsHeld, Sockets, None, OwnSocket, PoolSocket
    <3>2. attach[d] \notin {"store", "expose"}
      BY <2>1, Zenon DEF LogInv, ExportHeld
    <3>3. s # PoolSocket(d)
      BY <2>1, <3>2, SocketFacts, Zenon DEF LogInv, SocketsHeld, PoolHeld, Pooling
    <3>4. exporter[d].own = s /\ exporter[d].own # None
      BY <3>1, <3>3, SocketFacts, Zenon DEF LogInv, SocketsHeld
    <3>5. QED
      BY <2>2, <3>2, <3>4, Zenon DEF LogInv, DevicesHeld
  <2>4. QED
    BY <2>2, <2>3, Zenon
<1>5. QED
  BY <1>1, <1>2, <1>3, <1>4, Zenon DEF LogInv

\* The part of SyslogKept about the fleet.
LEMMA FleetAlwaysKept ==
  LogSpec => [](LogTypeOK /\ OneSocketPerKey /\ ExposedIsWritable /\ NoFailureForShutdown
  /\ StopLeavesNothing)
<1>1. LogInit => LogInv
  BY LogStarts, Zenon
<1>2. LogInv /\ [LogNext]_logVars => LogInv'
  BY LogStepKeeps, Zenon
<1>3. LogInv => LogTypeOK /\ OneSocketPerKey /\ ExposedIsWritable /\ NoFailureForShutdown
      /\ StopLeavesNothing
  BY FleetKept, Zenon
<1>4. QED
  BY <1>1, <1>2, <1>3, PTL DEF LogSpec
--------------------------------------------------------------------------------
(******************************************************************************)
(* Both together.                                                             *)
(******************************************************************************)
\* Whatever the loops, senders, watchers and Close of the streams do, and however
\* attaches, fires, device stops, DeleteAllDevices and StopSyslogExport interleave,
\* one connection or socket serves each stream and each key of the pool, frames
\* do not mix, an exposed exporter can write, no shutdown is charged as a failure,
\* and Close and StopSyslogExport leave nothing behind.
THEOREM SyslogAlwaysKept == StreamSpec /\ LogSpec => []SyslogKept
<1>1. StreamKept /\ LogTypeOK /\ OneSocketPerKey /\ ExposedIsWritable /\ NoFailureForShutdown
        /\ StopLeavesNothing => SyslogKept
  BY DEF StreamKept, SyslogKept
<1>2. QED
  BY <1>1, StreamAlwaysKept, FleetAlwaysKept, PTL
================================================================================
