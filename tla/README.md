# nl6: a formal model

nl6 simulates a fleet of network devices: SNMP agents, trap, syslog, flow and gNMI exporters,
NETCONF servers, a DNS view of the fleet, and a load-test harness that turns part of the fleet on for
a measured window and reports what was sent. This directory models the parts whose correctness
depends on the order of events or on arithmetic at a boundary, checks them with TLC on small
instances, and proves the results that matter most with TLAPS for every size.

## The system and how its parts interact

The **manager** creates and deletes devices in batches; a device owns its exporters and servers, and
deleting it stops them one after another. **Schedulers** (traps, syslog, flaps, optical alarms) are one
goroutine over a heap each; they call into devices without holding their lock, so a device can go
while its turn is under way. **Exporters** (traps, syslog, flows, gNMI dial-out) write to sockets that
fail and block. **Scenarios** (load tests) claim exporters, freeze the fleet, open a gate in front of
every send for a window, close it, wait for what is in flight and report counters. The **interface
state engine** of a device is changed by REST, SNMP SET, the flap scheduler and auto-revert timers,
and feeds counters, gNMI ON_CHANGE streams and NETCONF pushes by events that can be dropped. The
**DNS** subsystem follows the set of devices with a debounce, and a **fidelity** switch mutes the
background traffic of the fleet.

What is hard about it is not any one handler. It is the arm that runs while a delete is looking, the
straggler that returns after the report, the acknowledgement that races the retry, the address that
changes hands during a teardown, the listener channel that is full.

## Modules

One module per part, with the state as variables and one action per operation, handler or step. A
critical section is one step; so is every atomic load, store or add that another goroutine can see
between. Loops that block are split where they can be overtaken. Data is abstracted to what the
properties tell apart: a message is its kind, a datagram its length and record count, a label a
short word.

### Load-test scenarios

* `DrainBarrier` says what a drain barrier promises: sends are admitted while it is open, one verdict,
  0 only when nothing is outstanding, otherwise an upper bound.
* `DrainGate` is `scenario_drain.go`. The WaitGroup is the set `wg` of admitted sends, `inflight` its
  readable shadow, `leaving` the sends between `wg.Done()` and the shadow's decrement.
  `closeAndWaitUntil` is split where the waiter goroutine, the deadline and the two `select`s
  interleave. It implements `DrainBarrier` (`ImplementsBarrier`).
* `ScenarioWindow` is one participant from arm to report, built on `DrainGate`, which it implements
  under its own mapping (`ImplementsGate`). Each atomic step of a fire is a step (`fpc`), each step of
  `finishLabelled` (`fin`) and each load of the snapshot.
* `ScenarioLifecycle` has the registry, the controllers, the handles and the freeze. `mu[s]` is the
  operation that holds scenario `s`'s lock and how far it is; `slot[d]` the owner of the handle on a
  device's exporter; requests wait in `reqs` between lookup and lock, fired timers in `fired`.
* `Fidelity` has the mute switch, its revert timer and a scenario that samples both atomics.

### Exporters

* `TrapInform` is the INFORM side of a trap exporter: the pending table and its order, a retry loop
  that works on an old scan, a network that loses, delays and repeats.
* `TrapScheduler` is `trap_scheduler.go`: `heap[d]` a device's deadline, `byIP` and `firer` the two
  maps, `pc` where `Run` is between its locks and selects, `jobs` the channel, `busy` the workers.
* `TrapFleet` composes it with the devices: `life[e]` is where an incarnation `e` of an address is
  between attach and the end of `device.Stop`, `deleter` holds `sm.mu`, `wiper` does not, `exit` is
  where `StopTrapExport` is. It extends `TrapScheduler`, and its callers of `Register` and
  `Deregister` take the place of the free environment there.
* `FlowExport` is one flow exporter with the fleet ticker, the tickers of scenarios that claim it one
  after another, device Stop and Shutdown. It extends `FlowEncoding`, the datagram arithmetic.
  `FlowCache` is the cache under the calls of a tick; `FlowPacing` the arithmetic around it.
* `SyslogStream` is the TCP and TLS transport (dial, send, watch, close), `SyslogFleet` the exporters
  and their shared sockets. `Framing` encodes and frames syslog messages and NETCONF messages and
  reads them back with reference parsers.
* `DialOut` is the gNMI dial-out exporter in on-change mode.

### Devices and sessions

* `DeviceBatch` has creation batches, pre-allocation with late workers, names, addresses, deletion
  and reload. `Topology` has the link graph with its cached LLDP rows, and the stacking of interfaces.
* `InterfaceState` is the state engine, `CounterHold` the counters that stand still while an
  interface is down, `LinkTimers` the auto-reverts of the REST API and the flap scheduler, `Optical`
  the alarms and the degradation episodes.
* `SnmpAgent` answers GET, GETNEXT and GETBULK from five sources of objects; `SnmpSecurity` has USM
  and SET.
* `GnmiSubscribe` and `GnmiOnChange` are the two kinds of streams; `NetconfPush` the sessions of a
  device with their dispatcher, `NetconfServer` the listener and the call-home loop.
* `DnsZone` derives records, zones and transfers from the fleet; `DnsService` publishes them.

The theorems are in eight modules: `ScenarioProofs` (about `Fidelity` and `ScenarioLifecycle`),
`ScenarioWindowProofs` (`DrainGate` and `ScenarioWindow`), `TrapInformProofs`, `ExportProofs`
(`FlowEncoding` and `TrapFleet`), `SyslogProofs` (`SyslogStream` and `SyslogFleet`), `TimerProofs`
(`DnsService`, `FlowCache` and `LinkTimers`), `DeviceBatchProofs` and `NetconfServerProofs`. `MC*` modules
instantiate the components for TLC.

## Runs

| Run | Module | Expect | What it shows |
|---|---|---|---|
| `state` | `MCState`, `MCState.cfg` | pass | Six parts with shared state under every interleaving, one at a time: two scenarios that compete for two devices under the fleet freeze, two goroutines that move an interface family, a poll of held counters, the optical alarm evaluator, the log of optical episodes, and the DNS zone. (`RunsHeld`, `EpisodesKept`, `ZonesAnswer`, `ClaimsKept`, `InterfacesReported`, `CountersHeld`, `AlarmsTruthful`) |
| `window` | `MCScenarioWindow`, `MCScenarioWindow.cfg` | pass | The scenario's scheduler and an operator's on-demand fire race start, early and late finish, the join and drain deadlines, shutdown and the next scenario's claim: a clean report is exact, a give-up is disclosed, finish always ends, and the barrier keeps its abstract promise. (`VerdictHonest`, `WindowAccounted`, `CleanReportExact`, `SettledIsFinal`, `ImplementsGate`, `ImplementsBarrier`, `FinishCompletes`) |
| `traps` | `MCTraps`, `MCTraps.cfg` | pass | Informs into a table of one against lost, late and repeated acknowledgements; and three devices that register and deregister around the scheduler's run loop and its pool: nothing is lost, every deadline is met, a stop is answered. (`InformsKept`, `SchedulerKept`, `TrapsProgress`) |
| `export` | `MCExport`, `MCExport.cfg` | pass | A flow exporter under the fleet ticker and two scenarios in turn, the flow cache, and the trap devices through creation, deletion, re-creation and shutdown; deadlock is checked. (`FleetQuiet`, `FleetCounted`, `FlowsAccounted`, `CacheKept`) |
| `wire` | `MCWire`, `MCWire.cfg` | pass | Every MTU from 576 to 700 and the larger ones: the predicted batch is what each encoder takes, every loop progresses, templates announce what is written, and every device is swept once a period. (`BatchesFit`, `WireDescribed`, `PacingExact`) |
| `devices` | `MCDevices`, `MCDevices.cfg` | pass | How devices come and go and what they serve. Two batches, a reload and a deletion around late pre-allocation workers: names, addresses, links and routes stay right and the gate is released. The SNMP agent over small profiles: walks are complete and in order, bulk answers are maximal, v1 managers are served what they can hold; security checks and SET; the link cache; how interfaces stack. (`WalksWhole`, `TopologyKept`, `DevicesKept`, `SecurityKept`, `GateReleased`) |
| `timers` | `MCTimers`, `MCTimers.cfg` | pass | Timed interface changes, the flap scheduler, scheduled starts, the DNS change worker and timed silences of the fleet: no timer is lost, no cancelled one acts, every loop ends, and what must happen happens. (`SchedulesHeld`, `PublishedZoneCurrent`, `LinkTimersExact`, `SilenceExact`, `TimersProgress`) |
| `sessions` | `MCSessions`, `MCSessions.cfg` | pass | Long-lived connections, one part at a time: syslog streams and sockets, gNMI streams and dial-out, NETCONF sessions, servers and call home, and the formats written on them, under disconnects, stalls, kills and shutdown. (`SyslogKept`, `GnmiKept`, `NetconfKept`, `NetconfServersKept`, `FramesReadBack`) |
| `progress` | `MCSessions`, `MCProgress.cfg` | pass | The same parts on smaller instances: what they must do eventually (reconnect, repair, answer a close) under the scheduling Go gives. (`SessionsProgress`) |
| `stranded` | `MCExport`, `MCTrapStranded.cfg` | violation | A device created while DeleteAllDevices still stops its predecessor loses its place in the scheduler. (`EveryDeviceFires`) |
| `dropped_holds` | `MCState`, `MCScenarioDropped.cfg` | violation | An arm request that looked its scenario up before a DELETE arms it after the DELETE and leaves it holding devices. (`DroppedHoldsNothing`) |
| `half_frame` | `MCSessions`, `MCHalfFrame.cfg` | violation | A sender that waited for the write lock writes behind the half frame of the one before it. (`NothingAfterHalfFrame`) |

A run over several parts has a variable (`focus` or `part`) chosen by the initial state; only that part
moves in a behaviour, and the others stay at their initial values. Parts in one run share no
state in the model, so the behaviours of such a run are those of its parts, side by side. Where parts do
interact they are composed in a module (`ScenarioWindow` over `DrainGate`, `TrapFleet` over
`TrapScheduler`, `FlowExport` over `FlowEncoding`).

A property is a conjunction of the statements about one part, each with a comment of its own in the
module. Properties that end in *Progress*, `FinishCompletes` and `GateReleased` are liveness.

Runs that expect a violation state what a document or comment of the repository says and show a
behaviour of the code that does otherwise; the findings quote the line. `half_frame` is a safety
property; `dropped_holds` and `stranded` are invariants.

The export run checks deadlock: locks, the full queue and `StopTrapExport` wait for each other there,
and only a finished shutdown may stop. Elsewhere deadlock is not checked, because the bounded
environment runs out of requests; the liveness properties say what must go on.

### Bounds

Every bound is a constant of the module it bounds, and sits in the guard of the action it limits.

* `state`: two scenarios and two devices are the smallest fleet in which arms conflict, overlap in
  part and must disclose each other; the devices are symmetric. The state engine has a parent, a child
  and a stand-alone interface, the counters two members, their bundle and its child; the listener's
  channel holds one event, so that the second is dropped. Two engines at one address are an alarm's
  device and its successor; after the replacement the clock ends a tick earlier, and the subsystem
  stops by the second tick or not at all (`AlarmBound`). A poll samples an interface, the bundle or its child (`Polled`).
* `window`: one scheduler and one operator with two fires are enough for two stragglers, for a
  send on each side of every step of finish, and for a fire that outlives its scenario.
* `traps`: two senders and a table of one, so that every second inform overflows; three devices, so
  that the head of the heap, another entry and a newcomer differ; a queue of one with two workers, so
  that `Run` blocks; a device whose catalog is empty.
* `export`: two incarnations of one address, the fewest in which a teardown meets a successor; two
  scenarios that hand an exporter over; a cache one smaller than the keys.
* `wire`: every MTU at which a record more or less fits, 0, the minimum and the maximum; up to 40 waiting
  records, more than the largest datagram takes of the largest record.
* `devices`: profiles with and without interfaces, with rows before, between and after the live
  columns; names of different encoded lengths and a response limit (210) at which the walk's own ceiling and
  the size of the message both end a GETBULK; an engine time that can pass its maximum (`MaxTime`) and messages
  early and late by a window and more; batches of one and two devices in an address space of four per network,
  so that a batch crosses its end, with the route of the second network refused or not (`BatchBound`).
* `timers`: three timers on one leaf with a cap of two, so that requests supersede each other; one link
  that a POST may set (`MaxPosted`) and two creations, so that a late Stop meets a successor at its address;
  four generations of a schedule: schedule, re-arm, schedule again, and a fire of the first that still waits; three toggles of the fidelity switch.
* `sessions`: queues of one or two with one more producer step than they hold, two senders or
  sessions, dial limit one, a message alphabet of the bytes the framings give a meaning to. Two mutators of one
  port broadcast in either order; a third change then finds the session at rest, and two
  sessions open and close over one change (`NcBound`). A stop of the NETCONF server meets one session.
* `progress`: the same parts with fewer changes, for the liveness checks.

### Fairness

A goroutine that can run is run (weak fairness for each), timers fire and clocks advance. Strong
fairness is assumed where a step needs a lock or a semaphore that others keep taking: Go's `Mutex`
hands itself to a starving waiter, `RWMutex` blocks new readers while a writer waits, and a channel
serves its waiters in order. A dial succeeds if it is tried for ever (`Reconnects` says what follows
from that). Nothing is assumed of requests, senders, collectors, clients, or of a write, which may
stay in the kernel for ever: properties that need a write to end are stated for behaviours in which
the peer is gone or reads.

## Proofs

Each theorem is for every value of the constants under the module's `ASSUME`s, which TLC evaluates on
the run that extends the module. Each rests on an inductive invariant: it holds initially, every action
keeps it (one step of the proof per action), and it implies the property. Leaves without arithmetic name
Zenon, which needs no translation of the whole context; the others go to SMT.

* `ScenarioWindowProofs`, the barrier (finitely many sends). `GateInv`: the shadow counter exceeds the WaitGroup by the
  sends inside `leave()`, a closed `done` means an empty WaitGroup, the barrier closes before it is
  waited for, a result is set exactly when the wait has returned. Hence `VerdictAlwaysHonest` (with the
  clean verdict and the straggler bound it is made of) and the refinement of `DrainBarrier`.
* `ScenarioWindowProofs`, the window (any fires of any source, any window). `WInv` joins `GateInv`, the position of
  every fire relative to the barrier, the balance of the ledger with the fires still on their way, and
  the agreement of the snapshot with the ledger once the barrier has drained. Hence the books, the
  clean report, the finality of a settled ledger and the refinements of `DrainGate` and `DrainBarrier`.
  `TimingInv` adds the handle from arm to detach, who pops a fire, what a completed join has found,
  that a write which returned at or after T1 has not been put in a bucket of the window (`LateWritten`), and
  that no fire passes the gate before T0. Hence `WindowAlwaysAccounted`.
* `ScenarioProofs`, the life of a scenario (any scenarios, devices, selectors and bounds). `LifecycleInv` says, for
  each place `mu[s]` an operation can be at, which phase, freeze and handles go with it; without
  it "running scenarios own their participants" is not inductive, because start passes through states
  in which the phase, the freeze and the handles disagree. `FullInv` adds that nothing happens to a
  scenario before it is submitted, that scenarios which emit at once name each other, and what every
  timer, fired start and launch under way knows of the schedule it acts for. Hence `RunsAlwaysHeld`,
  `SchedulesAlwaysHeld` and, for the steps, `ClaimsAlwaysKept`.
* `ScenarioProofs`, the fidelity switch (any number of requests, timers and callbacks). `FidelityInv`
  says that one timer at most is current and that it leads back to the standing mode. `MeasureInv` says what the
  sampled value and count of changes tell a scenario while a writer is between its two atomics: a change
  in the window is counted, or its writer still owes the count. Hence `SilenceAlwaysExact`.
* `TrapInformProofs` (any senders and informs, capacity and retry budget). `TableInv` adds to
  conservation that the id a sender is about to register is in nobody's table. `InformInv` adds who
  holds an id, that table and order list the same ids, that what the scan chose still has
  budget or has settled, and that transmissions are paid for, the ones under way included. Hence
  `InformsAlwaysKept`.
* `ExportProofs`, traps (any devices, workers, incarnations and queue). `SchedInv` ties the flags of `Run` to
  its position and the idle pool to "not entered" and "done". `FleetInv` adds that `StopTrapExport` has
  closed `stopCh` before it waits, that a device keeps its exporter until one of the two stops takes it,
  and that the scheduler files an exporter under its own address. `LedgerInv` adds who stops a device, the
  order of incarnations at an address, that only the Stop of an older incarnation which
  DeleteAllDevices took out of the maps can unschedule a standing device, and that no creation overlaps
  the shutdown. Hence `SchedulerAlwaysKept`, `FleetAlwaysQuiet` and `FleetAlwaysCounted`.
* `ExportProofs`, flow datagrams (any MTU, any number of waiting records): a batch is never cut off, every
  encoder moves on, and tables fit (`BatchesAlwaysFit`), from lemmas on each encoder's sizes.
* `SyslogProofs` (any transports, connections and senders; any devices, keys and firers). Of the streams
  `StreamInv` says who refers to a connection: a loop to the one it dialled, no two loops to one, a sender to
  one its own transport has published or to one that nobody holds any more, and only what a loop holds is
  open. Of the fleet `LogInv` names the one owner of every open socket (a worker that is about to store it,
  an exporter, the pool), says in whose hands a device that is up is at each step of StopSyslogExport, and
  that a write fails only on an exporter that is closed or that a deletion hid from it. Hence
  `SyslogAlwaysKept`.
* `TimerProofs`, DNS (any hosts, any number of goroutines that change the fleet, any clock). `DnsInv` counts
  the changes that no serial stands for yet; a bump is paid for by a change of its own, so a serial never
  returns, and a copy with the current serial that no bump straddled was read after the last change. Hence
  `PublishedZoneAlwaysCurrent`.
* `TimerProofs`, the flow cache (any finite set of flows, any timeouts, overrides and jitters). A refill that
  counted before another call took its lock never overshoots, because what it adds is bounded when it adds it.
  Hence `CacheAlwaysKept`, which is an invariant and an action property.
* `TimerProofs`, timed changes of a link (any handlers, leaves, timers and cap; any fleet, draws and creations). `RevertInv`: a
  request owns the number it drew and the timer it swapped out (`OwnNumbers`); every timer that waits is in the
  map or with such a request (`MapInv`); the counter is the number of goroutines and of requests between count
  and start. Between the swap and the cancel a waiting timer is in nobody's map, which is why the hand
  of the request is part of the invariant. `FlapInv`: heap and map are one; an entry drives the device at its
  address or one in `stopping`, whose Stop is still to come; whatever is at an address with such a Stop
  outstanding is among its `heirs` (`HeirsKnown`), the devices whose entries it may take; a link no POST has set
  is down exactly when its entry will bring it up, a fire under way excepted; and `Run` is past its loop
  once `Stop` has returned. Hence `LinkTimersAlwaysExact`.
* `DeviceBatchProofs` (any number of batches, any blocks of addresses, any names). `BatchInv` follows the
  gate's token to its holder; ties each batch's cursor to the addresses it has visited (`Walk`, by induction
  over the number of steps); gives every link one place (numbered, with a worker, in the pool, with a device
  being made, with a device, in a teardown); counts host names by devices; and says that a device whose
  network has no route has a batch that will ask for it, the host having refused it otherwise. Hence `DevicesAlwaysKept`.
* `NetconfServerProofs` (any connections and channels; any cycle, keepalive period, number of misses and
  clock). `SrvInv` counts the WaitGroup against the set of goroutines that run, each under a name of its own,
  so that Close, which waits for zero, leaves none. `ChInv` places the timer at a point of the grid that no
  attempt has used and dates a silent client by the ticks that found it so. Hence
  `NetconfServersAlwaysKept`.

The theorems speak of the modules' own specifications. Those and the `MC` specifications differ in two ways:
the runs add fairness, which safety does not need, and restrict some parts (`AlarmBound`,
`NcBound` and the like) to keep them small.

### Only model-checked

* Liveness under fairness (`FinishCompletes`, `GateReleased`, the `*Progress` properties): the proof
  system has no rules for it here.
* What RECURSIVE operators and folds compute for every input: the successor order of `SnmpAgent`,
  the folds of `Optical` and `CounterHold`, the admission of links in `Topology`, parsers of `Framing`, labels
  and transfers of `DnsZone`, and the record layouts of `FlowPacing`. The proof system takes no RECURSIVE
  operator; where the induction runs over the naturals, as for the walk of a batch, it is proved from the
  least element of a set.
* The safety properties of `InterfaceState`, `FlowExport`, `SnmpSecurity`, `NetconfPush` and of the gNMI
  streams and dial-out. Nothing stands in the way of proving them but the work; several are about sequences
  used as channels.

## Where code and words differ

The three violation runs are disagreements a run demonstrates. The following were met while modelling; they are
recorded here without a run.

* Reports. The identity a report states as exact (`docs/reference/loadtest-report-schema.md:304`) can miss
  one: an on-demand fire that is suppressed or refused adds to emitted and to its bucket outside the
  barrier (`syslog_exporter.go:296`), and finish may read between the two. A DELETE drops a terminal
  scenario without waiting for its drain, so that a scenario started meanwhile does not find the peer
  `scenario_manager.go:301` says it must record. An acknowledgement is credited to the handle attached
  when it arrives, so informs sent before the arm make `informs_acked` exceed `sent`
  (`scenario_report.go:325`, `trap_exporter.go:706`).
* Status totals. They fall for an instant between a device's removal from the maps and the persisting of
  its counts, and a read that overlaps a deletion can count a device twice
  (`docs/reference/snmp-traps.md:421`, `manager.go:556`; flows at `flow_exporter.go:1482`).
* Interfaces. A held child of an aggregate is served from its parent's ledger, which moves when the
  parent or a member goes down and up again, so the held counter rises (`if_counter_hold.go:13` and `:83`).
  The counts of events are called approximate under contention (`interface_state.go:869`); `EventsAccounted`
  finds them exact with two producers.
  Broadcasts run after the family lock is released, so that the last event a listener gets may not be
  the last change (`interface_state.go:166`); streams read the value again and are not affected. The
  ON_CHANGE handler registers its listener before it reads the snapshot, where `interface_state.go:809`
  says the opposite; the order it uses is the safe one. A revert that won its compare-and-swap before
  the cancel may write after `cancelAutoRevertsForDevice` has returned (`interface_state_api.go:463`).
* Optical. `DeleteDevice` and `DeleteAllDevices` deregister an address after they have released `sm.mu`, so
  that they can take out the enrolment of a device created there meanwhile (`manager.go:462` and `:596`;
  `optical_alarm_manager.go:148` says such a device still raises alarms). An episode's start is
  read before it is published, and a reader in between sees the block counter fall
  (`optical_degrade.go:33`).
* SNMP. The fast path of GETNEXT does not ask about `sysName.0` and `sysLocation.0`, so a walk from a
  static `sysContact.0` steps over both (`snmp_handlers.go:242` and `:247`); `WalksWhole` leaves
  these two apart.
  `minVarbindSize` is said to be a floor (`snmp_handlers.go:496` and `:997`), but a binding of a short name and an
  exception value is smaller, so that the ceiling of a GETBULK walk can end a response that had room
  (`snmpv3.go:647`); `BulkIsMaximal` leaves such bindings apart.
* Flaps. `DeleteAllDevices` stops devices after it has released `sm.mu`, and Stop deregisters by address
  (`device.go:1415`): a device created there meanwhile loses its entries, and a link of it that is
  down then stays down. `LinkTimers` has these devices as `heirs`. `stranded` shows the same for traps.
* NETCONF. Two mutators broadcast after they have released the lock, in either order, so that the last push
  of a session at rest may be the older of the two changes; `QuietSessionIsCurrent` leaves such a pair
  apart until the next change.
* Syslog. A colon in the APP-NAME of an RFC 3164 message ends its tag early for a receiver
  (`syslog_wire.go:118`, `:334`); `FieldsParseBack` says what is read then.
* gNMI. A slow client with more sampled subscriptions than the queue holds loses a snapshot to drop-oldest
  and still gets the sync response (`gnmi_subscribe.go:238`).
* Flows. A scenario that is armed but not running survives `abortActiveScenario`; started then, its tick
  may write to a pooled socket `Shutdown` closes (`manager.go:672`), and `shutdownFast`, which does not look at
  the freeze, persists the counters of a device the scenario still ticks (`manager.go:763`).
* DNS. A transfer that straddles a bump of the serial may carry one zone's records under another's serial
  (`dns_server.go:361` and `:420`); `PublishedZoneCurrent` is stated for a worker at rest.
* Fidelity. A timed request in the other direction begins a new chain: a timed pause inside a timed
  silence ends silent for good. A toggle that is under way when a scenario samples T0 can go
  undisclosed (`scenario_controller.go:1307`); `SilenceExact` is stated for samples no toggle overlaps.
* Devices. `DeleteAllDevices` reads the interface of a device after `Stop` has cleared it for
  interfaces made on demand (`manager.go:613`, `device.go:1431`), so their links stay; `DeleteDevice`
  avoids this and says why (`manager.go:485`). It also empties the pool without removing the
  links that were never used (`manager.go:587`, `prealloc.go:426`). Submitting an existing range of ten or
  more again pre-allocates links twice. A device whose `Start` fails leaves its link
  (`docs/reference/web-api.md:422` concedes it).
* Traps. A fire on demand may be in flight when `StopTrapExport` returns; its comment concedes this
  (`trap_manager.go:612`).
* YANG push. `ensureStarted` and `emit` each look at the mute, so that a mute lifted between them sends a push
  before subscription-started (`yangpush_exporter.go:187`, `:202`, `:211`).

## What is not modelled

* Encoders of fixed layout and catalogs of traps, gNMI paths and values, NETCONF dialects, YANG
  push over UDP, metric generators over floating point, system calls, resource files, report rendering, request
  routing and the command-line tools. Apart from YANG push they are sequential input and output, best covered
  by tests; the handlers that change state are actions of the components' modules.
* Lock order between `sm.mu` and a lock inside a scheduler: critical sections of the latter are single steps,
  so that of the ways Stop and Run can wait for each other only the one over the full queue is in the model.
* Within modelled parts: TRAP mode and the wrap of request ids; the closing check of an inform retry apart from the lock it takes next; the sample mode and the scenario gate
  of gNMI dial-out; the steps inside a gNMI ONCE; the goroutine of a keepalive request
  to a NETCONF client,
  the retry of a failed accept and the refusal of what a connection had pending; the heap of the
  syslog scheduler, which has the shape of the trap scheduler's; packet,
  error and discard counters, which follow the octets; XPath filters and Junos logical units;
  certificates and host keys; the branch of the SNMP agent for a device without a state engine;
  engine boots, which are always 1; sub-window arithmetic and the application ledgers of a report.
* External to the code and modelled from its use: the network and the kernel, collectors and clients,
  the SSH mux, the DNS secondary, and links in the kernel.
