---------------------------- MODULE TrapScheduler ----------------------------
(***************************************************************************)
(* The fleet's trap scheduler (trap_scheduler.go): one goroutine, Run,     *)
(* waits for the earliest deadline of a heap, takes a token of the global  *)
(* limiter, pops, requeues and hands the fire to a pool of workers through *)
(* a bounded queue.  Register and Deregister change the heap under its     *)
(* lock and nudge Run; Stop closes a channel and waits until the pool has  *)
(* drained.                                                                *)
(*                                                                         *)
(* A device is its address; an exporter is the device together with the    *)
(* number of the incarnation that owns it, because an address may be given *)
(* to a new device while the old one is still being torn down.  Time is a  *)
(* bounded clock and a draw of the exponential distribution is any offset  *)
(* of Offsets.                                                             *)
(***************************************************************************)
EXTENDS Integers, FiniteSets, Sequences

CONSTANTS
  Devices,      \* the addresses
  MaxGen,       \* bound on the incarnations of each address
  Workers,      \* the emission pool
  QueueCap,     \* capacity of the jobs channel
  Capped,       \* whether a global cap installed a limiter
  Pickable,     \* devices whose catalog has an entry to pick
  MaxNow,       \* bound on the clock
  MaxOffset     \* bound on a draw

ASSUME GenAssumption == MaxGen \in [Devices -> Nat]
ASSUME QueueAssumption == QueueCap \in Nat \ {0}
ASSUME SetupAssumption == Capped \in BOOLEAN /\ Pickable \subseteq Devices
ASSUME ClockAssumption == MaxNow \in Nat \ {0} /\ MaxOffset \in Nat \ {0}

Exporters == UNION {{d} \X (1..MaxGen[d]) : d \in Devices}
None == <<>>
NotQueued == 0
Offsets == 1..MaxOffset

VARIABLES
  now,          \* the clock
  heap,         \* next fire of each queued device, NotQueued otherwise
  byIP,         \* TrapScheduler.byIP: devices that own a heap entry
  firer,        \* TrapScheduler.devices: the exporter to fire
  wake,         \* a nudge is pending
  stopCh,       \* stopCh is closed
  started,      \* Run was entered
  runDone,      \* runDone is closed
  pc,           \* where Run is
  peeked,       \* the deadline Run waits for
  popped,       \* the exporter of the entry Run popped
  jobs,         \* the jobs channel
  busy,         \* the exporter each worker is firing
  closing,      \* exporters whose closing flag is set
  sent          \* traps counted by each exporter

heapvars == <<heap, byIP, firer>>
runvars == <<started, runDone, pc, peeked, popped>>
poolvars == <<jobs, busy, sent>>
schedvars == <<now, heapvars, wake, stopCh, runvars, poolvars, closing>>

Queued == {d \in Devices : heap[d] # NotQueued}
\* What heap[0] may be: an entry no other is earlier than.
Heads == {d \in Queued : \A q \in Queued : heap[d] <= heap[q]}

HeapTypeOK ==
  /\ now \in Nat /\ wake \in BOOLEAN
  /\ heap \in [Devices -> Nat] /\ byIP \subseteq Devices
  /\ firer \in [Devices -> Exporters \cup {None}]

RunTypeOK ==
  /\ stopCh \in BOOLEAN /\ started \in BOOLEAN /\ runDone \in BOOLEAN
  /\ pc \in {"off", "top", "empty", "timer", "token", "pop", "pick", "send", "drain", "done"}
  /\ peeked \in Nat /\ popped \in Exporters \cup {None}

PoolTypeOK ==
  /\ jobs \in Seq(Exporters) /\ Len(jobs) <= QueueCap
  /\ busy \in [Workers -> Exporters \cup {None}]
  /\ closing \subseteq Exporters /\ sent \in [Exporters -> Nat]

SchedTypeOK == HeapTypeOK /\ RunTypeOK /\ PoolTypeOK

SchedInit ==
  /\ now = 1 /\ heap = [d \in Devices |-> NotQueued] /\ byIP = {}
  /\ firer = [d \in Devices |-> None]
  /\ wake = FALSE /\ stopCh = FALSE /\ started = FALSE /\ runDone = FALSE
  /\ pc = "off" /\ peeked = 0 /\ popped = None
  /\ jobs = <<>> /\ busy = [w \in Workers |-> None]
  /\ closing = {} /\ sent = [e \in Exporters |-> 0]

-----------------------------------------------------------------------------
(* Register and Deregister; the callers add what they change. *)

nudge == wake' = TRUE

\* A slip in Register: the entry is pushed and Run is not told.
RegisterSilently(d, e) ==
  /\ firer' = [firer EXCEPT ![d] = e]
  /\ \/ d \in byIP /\ UNCHANGED <<heap, byIP>>
     \/ /\ d \notin byIP
        /\ \E o \in Offsets : heap' = [heap EXCEPT ![d] = now + o]
        /\ byIP' = byIP \cup {d}
  /\ UNCHANGED wake

\* A device that is queued keeps its deadline and only changes its exporter.
Register(d, e) ==
  /\ firer' = [firer EXCEPT ![d] = e]
  /\ \/ d \in byIP /\ UNCHANGED <<heap, byIP, wake>>
     \/ /\ d \notin byIP
        /\ \E o \in Offsets : heap' = [heap EXCEPT ![d] = now + o]
        /\ byIP' = byIP \cup {d}
        /\ nudge

\* A slip in Deregister: the heap entry goes, byIP keeps it.
DeregisterHeapOnly(d) ==
  /\ firer' = [firer EXCEPT ![d] = None]
  /\ heap' = [heap EXCEPT ![d] = NotQueued]
  /\ nudge /\ UNCHANGED byIP

Deregister(d) ==
  /\ firer' = [firer EXCEPT ![d] = None]
  /\ \/ d \notin byIP /\ UNCHANGED <<heap, byIP, wake>>
     \/ /\ d \in byIP
        /\ heap' = [heap EXCEPT ![d] = NotQueued]
        /\ byIP' = byIP \ {d}
        /\ nudge

-----------------------------------------------------------------------------
(* Run *)

Goto(l) == pc' = l /\ UNCHANGED <<started, runDone, peeked, popped>>
\* A new round of the loop: what the last one peeked and popped is forgotten.
Leave(l) == pc' = l /\ peeked' = 0 /\ popped' = None /\ UNCHANGED <<started, runDone>>

RunEnter ==
  /\ pc = "off"
  /\ pc' = "top" /\ started' = TRUE
  /\ UNCHANGED <<now, heapvars, wake, stopCh, runDone, peeked, popped, poolvars, closing>>

\* Every way out of the loop closes the jobs channel.
RunLeaves ==
  /\ stopCh
  /\ pc \in {"top", "empty", "timer", "send"} \/ (pc = "token" /\ Capped)
  /\ Leave("drain")
  /\ UNCHANGED <<now, heapvars, wake, stopCh, poolvars, closing>>

RunPeek ==
  /\ pc = "top" /\ ~stopCh
  /\ \/ Queued = {} /\ Goto("empty")
     \/ /\ Queued # {}
        /\ peeked' \in {heap[d] : d \in Heads}
        /\ pc' = IF peeked' > now THEN "timer" ELSE "token"
        /\ UNCHANGED <<started, runDone, popped>>
  /\ UNCHANGED <<now, heapvars, wake, stopCh, poolvars, closing>>

\* The heap changed while Run waited.
RunWoken ==
  /\ pc \in {"empty", "timer"} /\ wake
  /\ wake' = FALSE /\ Leave("top")
  /\ UNCHANGED <<now, heapvars, stopCh, poolvars, closing>>

RunTimer ==
  /\ pc = "timer" /\ peeked <= now
  /\ Goto("token")
  /\ UNCHANGED <<now, heapvars, wake, stopCh, poolvars, closing>>

\* The limiter grants a token, or there is none.  A stop that closed stopCh
\* a moment ago need not have cancelled the wait yet.
RunToken ==
  /\ pc = "token"
  /\ Leave("pop")
  /\ UNCHANGED <<now, heapvars, wake, stopCh, poolvars, closing>>

\* Deregistered while Run waited.
Drop(d) ==
  /\ heap' = [heap EXCEPT ![d] = NotQueued] /\ byIP' = byIP \ {d}
  /\ Goto("top")

Requeue(d) ==
  /\ \E o \in Offsets : heap' = [heap EXCEPT ![d] = now + o]
  /\ byIP' = byIP \cup {d} /\ popped' = firer[d] /\ pc' = "pick"
  /\ UNCHANGED <<started, runDone, peeked>>

\* The head is whatever the heap holds now, not the entry Run peeked.
RunPop ==
  /\ pc = "pop"
  /\ \/ Queued = {} /\ Goto("top") /\ UNCHANGED <<heap, byIP>>
     \/ \E d \in Heads : IF firer[d] = None THEN Drop(d) ELSE Requeue(d)
  /\ UNCHANGED <<now, firer, wake, stopCh, poolvars, closing>>

\* catalogFor, outside the scheduler's lock, then Pick under it.
RunPick ==
  /\ pc = "pick"
  /\ IF popped[1] \in Pickable THEN Goto("send") ELSE Leave("top")
  /\ UNCHANGED <<now, heapvars, wake, stopCh, poolvars, closing>>

RunSend ==
  /\ pc = "send" /\ Len(jobs) < QueueCap
  /\ jobs' = Append(jobs, popped)
  /\ Leave("top")
  /\ UNCHANGED <<now, heapvars, wake, stopCh, busy, sent, closing>>

\* The workers have drained the channel and returned.
RunDone ==
  /\ pc = "drain" /\ jobs = <<>> /\ \A w \in Workers : busy[w] = None
  /\ pc' = "done" /\ runDone' = TRUE
  /\ UNCHANGED <<now, heapvars, wake, stopCh, started, peeked, popped, poolvars, closing>>

Run == RunEnter \/ RunLeaves \/ RunPeek \/ RunWoken \/ RunTimer \/ RunToken
         \/ RunPop \/ RunPick \/ RunSend \/ RunDone

-----------------------------------------------------------------------------
(* The pool *)

\* A worker takes a job; Fire returns at once if the exporter is closing.
EmitTake(w) ==
  /\ busy[w] = None /\ jobs # <<>>
  /\ jobs' = Tail(jobs)
  /\ busy' = [busy EXCEPT ![w] = IF Head(jobs) \in closing THEN None ELSE Head(jobs)]
  /\ UNCHANGED <<now, heapvars, wake, stopCh, runvars, sent, closing>>

EmitDone(w) ==
  /\ busy[w] # None
  /\ sent' = [sent EXCEPT ![busy[w]] = @ + 1]
  /\ busy' = [busy EXCEPT ![w] = None]
  /\ UNCHANGED <<now, heapvars, wake, stopCh, runvars, jobs, closing>>

ClockTick ==
  /\ now < MaxNow
  /\ now' = now + 1
  /\ UNCHANGED <<heapvars, wake, stopCh, runvars, poolvars, closing>>

-----------------------------------------------------------------------------
(* The scheduler on its own: anyone may register and deregister, and stop.  *)

Emit(w) == EmitTake(w) \/ EmitDone(w)

Environment ==
  /\ \/ /\ \E d \in Devices : (\E e \in Exporters : e[1] = d /\ Register(d, e)) \/ Deregister(d)
        /\ UNCHANGED stopCh
     \/ stopCh' = TRUE /\ UNCHANGED <<heapvars, wake>>
  /\ UNCHANGED <<now, runvars, poolvars, closing>>

SchedNext == Run \/ ClockTick \/ (\E w \in Workers : Emit(w)) \/ Environment

\* Run and the workers move when they can; the clock moves, and the limiter
\* grants.
SchedFairness ==
  /\ WF_schedvars(Run) /\ WF_schedvars(ClockTick)
  /\ \A w \in Workers : WF_schedvars(Emit(w))

SchedSpec == SchedInit /\ [][SchedNext]_schedvars /\ SchedFairness

-----------------------------------------------------------------------------
(* Properties of the scheduler *)

\* byIP, the heap and the exporters name the same devices: a device owns one
\* heap entry and one exporter, or none of either, however Register,
\* Deregister and the pop of Run follow each other (trap_scheduler.go).
OneEntryEach == byIP = Queued /\ byIP = {d \in Devices : firer[d] # None}

\* When runDone is closed nothing is queued, nothing is being sent and Run
\* will queue nothing more: what Stop and StopTrapExport rely on.
QuietWhenDone ==
  runDone => /\ pc = "done" /\ jobs = <<>>
             /\ \A w \in Workers : busy[w] = None

\* Every deadline within the clock's bound is met: the device fires, or is
\* taken out, or the scheduler stops.  No nudge is lost and Run is not
\* starved (Run, nudge).
DeadlinesMet ==
  \A d \in Devices, t \in 1..MaxNow : heap[d] = t ~> (heap[d] # t \/ stopCh)

\* A Stop that waits is answered, at whatever point of Run it comes (Stop).
StopAnswered == (stopCh /\ started) ~> runDone

\* The scheduler's three tables name the same devices, and a closed runDone means
\* nothing is queued or being sent (trap_scheduler.go).
SchedulerKept ==
  /\ SchedTypeOK /\ OneEntryEach /\ QuietWhenDone
=============================================================================
