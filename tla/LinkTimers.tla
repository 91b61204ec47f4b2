------------------------------ MODULE LinkTimers ------------------------------
(***************************************************************************)
(* The timed state changes of the REST API (interface_state_api.go): a     *)
(* POST with a duration sets a leaf now and starts a goroutine that puts   *)
(* the earlier value back.  A later POST on the same leaf supersedes the   *)
(* pending one, deleting the device cancels all of its timers, and a       *)
(* counter bounds how many a device may have.                              *)
(***************************************************************************)
EXTENDS Integers, FiniteSets

CONSTANTS
  Leaves,     \* the (interface, leaf) keys of one device
  Handlers,   \* HTTP handlers
  MaxTimers,  \* bound on the timed POSTs, each of which numbers its timer
  RevertCap   \* maxRevertTimersPerDevice

VARIABLES
  leaf,          \* the value of each leaf
  handler,       \* where each handler stands
  posts,         \* timed POSTs so far
  timer,         \* the revertTimer of each POST and its goroutine
  revertTimers,  \* the map: key |-> timer, 0 for none
  counter,       \* the device's revertCounterFor
  stopped        \* device.Stop has run cancelAutoRevertsForDevice

revertvars == <<leaf, handler, posts, timer, revertTimers, counter, stopped>>

ASSUME RevertAssumption ==
  /\ Leaves # {} /\ IsFiniteSet(Handlers)
  /\ MaxTimers \in Nat /\ RevertCap \in Nat

RevertTimers == 1..MaxTimers
LeafValues == {1, 2}
NoPost == [pc |-> "idle"]
Unused == [pc |-> "unused", key |-> CHOOSE k \in Leaves : TRUE, revertTo |-> 1, done |-> FALSE,
           stop |-> FALSE]

\* The goroutines that have started and not run their deferred exit.
Running == {t \in RevertTimers : timer[t].pc \in {"select", "cas", "mutate", "exit"}}
-------------------------------------------------------------------------------
\* mutateInterfaceState: snapshot the leaf (the link, not the derived oper), set it.
Post(h, k, v) ==
  /\ handler[h].pc = "idle" /\ posts < MaxTimers
  /\ posts' = posts + 1
  /\ handler' = [handler EXCEPT ![h] = [pc |-> "count", key |-> k, pre |-> leaf[k],
                                       id |-> posts + 1, old |-> 0]]
  /\ leaf' = [leaf EXCEPT ![k] = v]
  /\ UNCHANGED <<timer, revertTimers, counter, stopped>>

\* scheduleAutoRevert: the cap.
Count(h) ==
  /\ handler[h].pc = "count"
  /\ counter' = counter + 1
  /\ handler' = [handler EXCEPT ![h].pc = IF counter + 1 > RevertCap THEN "backout" ELSE "swap"]
  /\ UNCHANGED <<leaf, posts, timer, revertTimers, stopped>>

\* Over the cap: the answer is 429, and the change stays in place.
BackOut(h) ==
  /\ handler[h].pc = "backout"
  /\ counter' = counter - 1
  /\ handler' = [handler EXCEPT ![h] = NoPost]
  /\ UNCHANGED <<leaf, posts, timer, revertTimers, stopped>>

NewTimer(h) == [pc |-> "new", key |-> handler[h].key, revertTo |-> handler[h].pre,
                done |-> FALSE, stop |-> FALSE]

\* A slip: the superseded goroutine is only asked to stop.
CancelledAsking(rt) == [rt EXCEPT !.stop = TRUE]

\* timer.Stop, done.Store(true), closeStop: what every canceller does.
Cancelled(rt) == [rt EXCEPT !.done = TRUE, !.stop = TRUE]

\* revertTimers.Swap: the new timer becomes the leaf's timer.  The one it replaces is out
\* of the map and not cancelled yet; only this handler still knows it.
Swap(h) ==
  LET p == handler[h] IN
  /\ p.pc = "swap"
  /\ timer' = [timer EXCEPT ![p.id] = NewTimer(h)]
  /\ revertTimers' = [revertTimers EXCEPT ![p.key] = p.id]
  /\ handler' = [handler EXCEPT ![h].pc = "start", ![h].old = revertTimers[p.key]]
  /\ UNCHANGED <<leaf, posts, counter, stopped>>

\* The replaced timer is cancelled and the new one's goroutine starts.  Another canceller
\* may have come first.
Start(h) ==
  LET p == handler[h] IN
  /\ p.pc = "start"
  /\ timer' = [t \in RevertTimers |-> IF t = p.id THEN [timer[t] EXCEPT !.pc = "select"]
                                     ELSE IF t = p.old THEN Cancelled(timer[t])
                                     ELSE timer[t]]
  /\ handler' = [handler EXCEPT ![h] = NoPost]
  /\ UNCHANGED <<leaf, posts, revertTimers, counter, stopped>>
-------------------------------------------------------------------------------
RevertGoto(t, pc) == timer' = [timer EXCEPT ![t].pc = pc]

\* The goroutine's select: stopped, or the time has come; with both ready either one.
Select(t) ==
  /\ timer[t].pc = "select"
  /\ \/ timer[t].stop /\ timer' = [timer EXCEPT ![t].pc = "exit", ![t].done = TRUE]
     \/ RevertGoto(t, "cas")
  /\ UNCHANGED <<leaf, handler, posts, revertTimers, counter, stopped>>

\* done.CompareAndSwap: a canceller that was here first wins.
Win(t) ==
  /\ timer[t].pc = "cas"
  /\ IF timer[t].done THEN RevertGoto(t, "exit")
     ELSE timer' = [timer EXCEPT ![t].pc = "mutate", ![t].done = TRUE]
  /\ UNCHANGED <<leaf, handler, posts, revertTimers, counter, stopped>>

\* The leaf goes back to what it was.
Revert(t) ==
  /\ timer[t].pc = "mutate"
  /\ leaf' = [leaf EXCEPT ![timer[t].key] = timer[t].revertTo]
  /\ RevertGoto(t, "exit")
  /\ UNCHANGED <<handler, posts, revertTimers, counter, stopped>>

\* The deferred exit: the counter, then CompareAndDelete.
Exit(t) ==
  /\ timer[t].pc = "exit"
  /\ counter' = counter - 1
  /\ revertTimers' = [revertTimers EXCEPT ![timer[t].key] = IF @ = t THEN 0 ELSE @]
  /\ RevertGoto(t, "gone")
  /\ UNCHANGED <<leaf, handler, posts, stopped>>

\* cancelAutoRevertsForDevice (from device.Stop) and cancelAllAutoReverts.
CancelAll ==
  /\ ~stopped
  /\ stopped' = TRUE
  /\ timer' = [t \in RevertTimers |-> IF \E k \in Leaves : revertTimers[k] = t THEN Cancelled(timer[t])
                                ELSE timer[t]]
  /\ revertTimers' = [k \in Leaves |-> 0]
  /\ UNCHANGED <<leaf, handler, posts, counter>>
-------------------------------------------------------------------------------
RevertInit ==
  /\ leaf = [k \in Leaves |-> 1]
  /\ handler = [h \in Handlers |-> NoPost] /\ posts = 0
  /\ timer = [t \in RevertTimers |-> Unused]
  /\ revertTimers = [k \in Leaves |-> 0] /\ counter = 0 /\ stopped = FALSE

HandlerStep(h) == Count(h) \/ BackOut(h) \/ Swap(h) \/ Start(h)
Goroutine(t) == Select(t) \/ Win(t) \/ Revert(t) \/ Exit(t)

RevertNext ==
  \/ \E h \in Handlers :
       \/ \E k \in Leaves, v \in LeafValues : ~stopped /\ Post(h, k, v)
       \/ HandlerStep(h)
  \/ \E t \in RevertTimers : Goroutine(t)
  \/ CancelAll

\* The Go scheduler runs every goroutine that can run, and a timer of at most 24 hours
\* fires.
RevertFairness ==
  /\ \A h \in Handlers : WF_revertvars(HandlerStep(h))
  /\ \A t \in RevertTimers : WF_revertvars(Goroutine(t))

RevertSpec == RevertInit /\ [][RevertNext]_revertvars /\ RevertFairness
-------------------------------------------------------------------------------
\* A timer that still waits and was not cancelled is in the map, where a superseding
\* POST, the deletion of the device and the shutdown find it, or it has just been taken
\* out by a POST that is about to cancel it: none waits that nobody can cancel.
WaitingIsReachable ==
  \A t \in RevertTimers : timer[t].pc \in {"new", "select"} /\ ~timer[t].stop =>
    \/ revertTimers[timer[t].key] = t
    \/ \E h \in Handlers : handler[h].pc = "start" /\ handler[h].old = t

\* The per-device counter counts exactly the goroutines and the POSTs about to start one,
\* so it never locks a device out and never lets it past the cap.
CounterExact ==
  /\ counter = Cardinality(Running) + Cardinality({h \in Handlers : handler[h].pc \in {"swap", "backout", "start"}})
  /\ Cardinality(Running) <= RevertCap

\* A goroutine that was cancelled before it won its compare-and-swap never writes the
\* leaf, however far past its select it is.
CancelledNeverWrites ==
  [][\A t \in RevertTimers : timer[t].stop /\ timer[t].pc \in {"select", "cas"} =>
       timer'[t].pc # "mutate"]_revertvars

\* Every revert goroutine ends, and the device's counter drains with it.
RevertsDrain == <>[](counter = 0 /\ Running = {})

-------------------------------------------------------------------------------
(***************************************************************************)
(* The link-flap scheduler (flap_scheduler.go, flap_manager.go): one heap  *)
(* of the next action of every flapping interface in the fleet, and one    *)
(* goroutine that waits for the earliest, asks the limiter, pops whatever  *)
(* is earliest then, schedules the counterpart and fires outside the lock. *)
(* Devices come and go, and Stop must not return while a fire is running.  *)
(* An entry's due time is what is left of it; Tick lets it pass.           *)
(***************************************************************************)
CONSTANTS
  FlapDevices,      \* device addresses
  FlapIfs,          \* the interfaces of a device
  Linkless,         \* subinterfaces and loopbacks among them
  Offsets,          \* delays the random draws yield, all positive
  MaxLag,           \* bound on how late the loop is when time passes
  MaxRegistrations, \* bound on how often devices are created
  MaxPosted         \* bound on the links that POSTs have out of step at a time

VARIABLES
  heap,           \* scheduled entries: [key, left, action, engine]
  byKey,          \* key |-> its entry, or NoEntry
  engine,         \* device |-> generation of its state engine, 0 when there is none
  stopping,       \* (device, generation) out of the manager's maps, Stop to come
  heirs,          \* generations created while such a Stop of their address was to come
  posted,         \* (key, generation) whose link a POST set since its last fire
  links,          \* (key, generation) |-> the link of that engine
  registrations,  \* devices created so far
  wake,           \* the wake channel holds a token
  runner,         \* the goroutine of Run
  started, stopCh, stopReturned

deviceVars == <<engine, stopping, heirs, registrations>>
flapvars == <<heap, byKey, deviceVars, posted, links, wake, runner, started, stopCh, stopReturned>>

ASSUME FlapAssumption == Offsets \subseteq Int /\ MaxRegistrations \in Nat

Keys == FlapDevices \X FlapIfs
Entry(k, left, action, g) == [key |-> k, left |-> left, action |-> action, engine |-> g]
NoEntry == Entry(<<>>, 0, "none", 0)
Earliest(e) == \A f \in heap : e.left <= f.left
CounterpartSame(action) == action  \* a slip: the entry goes back as it is
Counterpart(action) == IF action = "down" THEN "up" ELSE "down"
OfDevice(d) == {k \in Keys : k[1] = d}
-------------------------------------------------------------------------------

Flapping(d) == {k \in OfDevice(d) : k[2] \notin Linkless}

\* A device is created and Register schedules a first "down" for each interface that
\* has a link of its own, in place of an entry the key may still have.
Register(d) ==
  /\ engine[d] = 0 /\ registrations < MaxRegistrations
  /\ registrations' = registrations + 1
  /\ engine' = [engine EXCEPT ![d] = registrations + 1]
  /\ heirs' = IF \E x \in stopping : x[1] = d THEN heirs \cup {registrations + 1} ELSE heirs
  /\ \E left \in [Flapping(d) -> Offsets] :
       LET entries == [k \in Flapping(d) |-> Entry(k, left[k], "down", registrations + 1)] IN
       /\ heap' = (heap \ {e \in heap : e.key \in Flapping(d)}) \cup {entries[k] : k \in Flapping(d)}
       /\ byKey' = [k \in Keys |-> IF k \in Flapping(d) THEN entries[k] ELSE byKey[k]]
  /\ wake' = TRUE
  /\ UNCHANGED <<stopping, posted, links, runner, started, stopCh, stopReturned>>

\* The scheduler's Deregister: every entry of the address goes, whose ever it is.
Deregister(d) ==
  /\ heap' = {e \in heap : e.key[1] # d}
  /\ byKey' = [k \in Keys |-> IF k[1] = d THEN NoEntry ELSE byKey[k]]
  /\ wake' = TRUE

\* DeleteDevice: Stop, which deregisters, and the maps, under the manager's lock.  A
\* creation whose Start fails ends the same way, before the maps have the device.
DeleteOne(d) ==
  /\ engine[d] # 0
  /\ engine' = [engine EXCEPT ![d] = 0]
  /\ Deregister(d)
  /\ UNCHANGED <<stopping, heirs, registrations, posted, links, runner, started, stopCh, stopReturned>>

\* DeleteAllDevices empties the maps under the lock and stops the devices after it.
ClearDevices ==
  /\ \E d \in FlapDevices : engine[d] # 0
  /\ stopping' = stopping \cup {<<d, engine[d]>> : d \in {c \in FlapDevices : engine[c] # 0}}
  /\ engine' = [d \in FlapDevices |-> 0]
  /\ UNCHANGED <<heap, byKey, heirs, registrations, posted, links, wake, runner, started, stopCh,
                 stopReturned>>

\* The Stop of one of them.  The address may have a new device by now.
StopDevice(x) ==
  /\ x \in stopping
  /\ stopping' = stopping \ {x}
  /\ Deregister(x[1])
  /\ UNCHANGED <<engine, heirs, registrations, posted, links, runner, started, stopCh, stopReturned>>

\* A POST of oper-status sets the link of a device in the maps; the scheduler is not told.
PostLink(k) ==
  LET x == <<k, engine[k[1]]>> IN
  /\ engine[k[1]] # 0 /\ k[2] \notin Linkless /\ Cardinality(posted) < MaxPosted
  /\ links' = [links EXCEPT ![x] = Counterpart(@)]
  /\ posted' = posted \cup {x}
  /\ UNCHANGED <<heap, byKey, deviceVars, wake, runner, started, stopCh, stopReturned>>

\* StopFlapSubsystem: Stop closes stopCh, and returns at once when Run has not started.
Stop ==
  /\ ~stopCh
  /\ stopCh' = TRUE
  /\ stopReturned' = ~started
  /\ UNCHANGED <<heap, byKey, deviceVars, posted, links, wake, runner, started>>

\* Otherwise it waits for runDone.
StopReturn ==
  /\ stopCh /\ ~stopReturned /\ runner.pc = "done"
  /\ stopReturned' = TRUE
  /\ UNCHANGED <<heap, byKey, deviceVars, posted, links, wake, runner, started, stopCh>>
-------------------------------------------------------------------------------
At(pc) == [pc |-> pc]
NoTimer == -1

RunStart ==
  /\ runner.pc = "new"
  /\ started' = TRUE /\ runner' = At("peek")
  /\ UNCHANGED <<heap, byKey, deviceVars, posted, links, wake, stopCh, stopReturned>>

\* The top of the loop: done when stopped; otherwise the earliest entry says how long to
\* wait, if at all, and with none there is only the wake channel to wait for.
Peek ==
  /\ runner.pc = "peek"
  /\ \/ stopCh /\ runner' = At("done")
     \/ ~stopCh /\ heap = {} /\ runner' = [pc |-> "wait", left |-> NoTimer]
     \/ ~stopCh /\ \E e \in heap :
          /\ Earliest(e)
          /\ runner' = IF e.left > 0 THEN [pc |-> "wait", left |-> e.left] ELSE At("limit")
  /\ UNCHANGED <<heap, byKey, deviceVars, posted, links, wake, started, stopCh, stopReturned>>

\* The wait ends by the timer, the wake channel or Stop; with several ready, by any.
Wait ==
  /\ runner.pc = "wait"
  /\ \/ runner.left = 0 /\ runner' = At("limit") /\ UNCHANGED wake
     \/ wake /\ wake' = FALSE /\ runner' = At("peek")
     \/ stopCh /\ runner' = At("done") /\ UNCHANGED wake
  /\ UNCHANGED <<heap, byKey, deviceVars, posted, links, started, stopCh, stopReturned>>

\* The limiter hands out a token, or sees the context that Stop cancels.
Limit ==
  /\ runner.pc = "limit"
  /\ \/ runner' = At("pop")
     \/ stopCh /\ runner' = At("done")
  /\ UNCHANGED <<heap, byKey, deviceVars, posted, links, wake, started, stopCh, stopReturned>>

\* Pop the entry that is earliest now, drop it when it is not the key's entry, otherwise
\* schedule its counterpart.
Pop ==
  /\ runner.pc = "pop"
  /\ IF heap = {} THEN runner' = At("peek") /\ UNCHANGED <<heap, byKey>>
     ELSE \E e \in heap : \E left \in Offsets :
       LET next == Entry(e.key, left, Counterpart(e.action), e.engine) IN
       /\ Earliest(e)
       /\ IF byKey[e.key] # e
          THEN heap' = heap \ {e} /\ runner' = At("peek") /\ UNCHANGED byKey
          ELSE /\ heap' = (heap \ {e}) \cup {next}
               /\ byKey' = [byKey EXCEPT ![e.key] = next]
               /\ runner' = [pc |-> "fire", entry |-> e]
  /\ UNCHANGED <<deviceVars, posted, links, wake, started, stopCh, stopReturned>>

\* fireWithRecover: SetLinkState on the engine the entry was registered with.
Fire ==
  LET e == runner.entry IN
  /\ runner.pc = "fire"
  /\ links' = [links EXCEPT ![<<e.key, e.engine>>] = e.action]
  /\ posted' = posted \ {<<e.key, e.engine>>}
  /\ runner' = At("peek")
  /\ UNCHANGED <<heap, byKey, deviceVars, wake, started, stopCh, stopReturned>>

\* Time passes for every entry and for the timer of the wait; what is overdue keeps
\* its place in the heap's order.
Passed(e) == [e EXCEPT !.left = @ - 1]

Tick ==
  /\ heap # {} /\ \A e \in heap : e.left > -MaxLag
  /\ heap' = {Passed(e) : e \in heap}
  /\ byKey' = [k \in Keys |-> IF byKey[k] = NoEntry THEN NoEntry ELSE Passed(byKey[k])]
  /\ runner' = IF runner.pc = "wait" /\ runner.left \in Nat \ {0} THEN Passed(runner) ELSE runner
  /\ UNCHANGED <<deviceVars, posted, links, wake, started, stopCh, stopReturned>>
-------------------------------------------------------------------------------
FlapInit ==
  /\ heap = {} /\ byKey = [k \in Keys |-> NoEntry]
  /\ engine = [d \in FlapDevices |-> 0] /\ stopping = {} /\ heirs = {} /\ posted = {}
  /\ links = [x \in Keys \X (1..MaxRegistrations) |-> "up"]
  /\ registrations = 0 /\ wake = FALSE /\ runner = At("new")
  /\ started = FALSE /\ stopCh = FALSE /\ stopReturned = FALSE

RunStep == RunStart \/ Peek \/ Wait \/ Limit \/ Pop \/ Fire

FlapNext ==
  \/ \E d \in FlapDevices : Register(d) \/ DeleteOne(d)
  \/ ClearDevices \/ \E x \in stopping : StopDevice(x)
  \/ \E k \in Keys : PostLink(k)
  \/ Stop \/ StopReturn \/ RunStep \/ Tick

\* The runtime schedules the loop's goroutine, timers fire, and Stop's caller runs.
FlapFairness == WF_flapvars(RunStep) /\ WF_flapvars(Tick) /\ WF_flapvars(StopReturn)

FlapSpec == FlapInit /\ [][FlapNext]_flapvars /\ FlapFairness
-------------------------------------------------------------------------------
InFlight(k) == runner.pc = "fire" /\ runner.entry.key = k

\* The heap holds the map's entries and no other.
HeapIsByKey == heap = {byKey[k] : k \in {q \in Keys : byKey[q] # NoEntry}}

\* The heap and the map agree through registration, deletion, re-creation and firing.
\* An entry drives the engine of the device that has the address, or of one whose Stop
\* is still to come and will take it out; and a device has an entry for each of its links
\* unless it was created before such a Stop, which deregisters by address and takes the
\* entries of the new device.
HeapMatchesDevices ==
  /\ HeapIsByKey
  /\ \A k \in Keys : byKey[k] # NoEntry =>
       /\ k[2] \notin Linkless
       /\ byKey[k].engine = engine[k[1]] \/ <<k[1], byKey[k].engine>> \in stopping
  /\ \A k \in Keys : engine[k[1]] \notin heirs \cup {0} /\ k[2] \notin Linkless =>
       byKey[k] # NoEntry /\ byKey[k].engine = engine[k[1]]

\* The schedule keeps track of the link it drives: whenever no fire is running, a link
\* no POST has set since its last fire is down exactly when its next action is "up", so
\* what a POST disturbs the next fire puts right (flap_scheduler.go:436-439).
LinkFollowsSchedule ==
  \A k \in Keys :
    (/\ byKey[k] # NoEntry /\ runner.pc # "fire"
     /\ <<k, byKey[k].engine>> \notin posted) =>
      (links[<<k, byKey[k].engine>>] = "down" <=> byKey[k].action = "up")

\* Once Stop has returned, no fire is in flight and none follows.
NoFireAfterStop == stopReturned => runner.pc # "fire"

\* A link that is down, flapped or by a POST, comes up again, unless its device is deleted,
\* the scheduler stopped, or the Stop of an earlier device was still to come when the
\* device was created: that one may take the entry, and the link stays down.
FlapRecovers ==
  \A k \in {q \in Keys : q[2] \notin Linkless}, g \in 1..MaxRegistrations :
    links[<<k, g>>] = "down" ~>
      (links[<<k, g>>] = "up" \/ engine[k[1]] # g \/ stopCh \/ g \in heirs)

\* Stop does not hang.
StopCompletes == stopCh ~> stopReturned

\* No timed change is counted twice or carried out after it was cancelled, and no flap
\* entry is left over or follows anything but its link, through deletion and re-creation
\* of devices and the stop of the scheduler (interface_state_api.go, flap_scheduler.go).
LinkTimersExact ==
  /\ [](/\ WaitingIsReachable /\ CounterExact /\ HeapMatchesDevices
        /\ LinkFollowsSchedule /\ NoFireAfterStop)
  /\ CancelledNeverWrites
===============================================================================
