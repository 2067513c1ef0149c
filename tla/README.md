# The ALPHA HWR component in TLA+

This directory is a verification development of the ESPHome component in
`src/components/alpha_hwr`, which drives a Grundfos ALPHA HWR circulation pump
over Bluetooth Low Energy, and of its companion `src/components/dhw_demand`.
It holds TLA+ modules translated from the C++ sources, TLC configurations that
check them on small instances, and theorems that TLAPS proves for every value
of the constants.

How to run it: `tlc -config MCTransport_commands.cfg MCTransport.tla` checks
one configuration, `tlapm TransportProofs.tla` one module of proofs. The runs,
the theorems, the source lines each definition stands for and the hazards are
listed in `PROJECT.json`.

## 1. The system

Everything runs in the one ESPHome loop: there are no threads. The
concurrency is that of callbacks and timers: a BLE event, a notification, a
timer or a transport timeout calls back into a service, and the callback may
queue the next command, end an operation, or start another one while the
caller is still on the stack. Beyond the loop are the radio, the pump, the
person at the pump's panel and the clients of the write operations.

| Component | State | Operations | Correct means |
|---|---|---|---|
| Command transport (`transport.cpp`) | command queue, send state, chunk count, reply debt, resync hold, drain state | `send_command`, `send_apdu`, `loop`, `on_notification`, `reset` | each callback runs once; a reply completes no command but one it can belong to; a broken frame is not continued by the next one; nothing crosses a reconnection |
| Frame reassembly (`transport.cpp`, `on_notification`) | partial frame, its stamp, drop counter | one notification | lost fragments cost no intact frame for ever; the buffer never overflows; drops are counted once |
| Write operations (`write_operation_service.cpp`) | FIFO of operations, phase, watchdog, attempts | `submit_*`, `start_front_`, `finish_`, `on_disconnect`, the confirm reads | one terminal result per operation; one in flight; last writer wins; verdicts say what the pump did |
| Control service (`control_service.cpp`) | optimistic cache of run state, mode and setpoints; the pending mode command | the control frames, `get_mode_async`, `sync_cache_async` | no readback overrides a command under way; a change at the pump is noticed |
| Facade (`alpha_hwr.cpp`) | initial read chain, poll timers, link watchdogs, suspension | `loop`, `update`, connection callbacks, `set_suspended` | writes wait for a synchronised cache; a dead link is recycled; a suspended link stays down |
| Connection manager (`ble_connection_manager.cpp`) and session (`session.cpp`) | discovery retries, deferred subscription, encryption, failure hold, pairing-stall detector | GATT and GAP events | subscription once and after encryption; a fault is reported by rank; nothing of an old connection acts on a new one |
| Schedule service (`schedule_service.cpp`) | cached layers, overview and events | reads and writes of a layer, the overview, an event; the commit | a cached image never undoes somebody else's edit; a live event is never overwritten; the reported hash is the pump's |
| Event log, history, device information | one cache and one chain of reads each | chained reads started by the facade's legs | one chain at a time, released on every path; what is shown as read was read over this link |
| Time service and DST rule | gate of the clock sync | clock read and write | the clock is written at most as often as the gate allows |
| DHW demand detector (`dhw_demand`) | pump state, continuation, hold, session | `update` on every sample | demand follows the pump within its hold, over a wrapping `millis()` |
| Telemetry, sensor publisher, API bridge, codec | decoded values | polls, argument checks, encoding | data conversion, little control |
| Python schema, packages, schedule card, tools | none at run time | code generation, user interface | outside the running program |

How they interact: every service queues its commands at the one transport and
gets a callback per command. The write operations and the poll share the
control service's cache. The connection manager calls the facade when a link
opens, is subscribed and is lost; on loss the facade invalidates the caches,
ends the write operations and the event log's chain, and resets the transport,
in that order, so that the callbacks of drained commands find nobody to tell.
The facade's watchdogs force a disconnection through the connection manager.

The behaviours that are hard to test, at their lines, are the "hazards" of
`PROJECT.json`. In short: replies carry no request identifier, so a late one
can be taken for another command's; a chunked frame can break half way; the
cache is optimistic and is read when an operation starts but used when its
frame arrives; a watchdog races a confirm read; a poll queued before a command
reads the value from before it; a disconnection runs a cascade of callbacks.

## 2. Modules

| Module | Role |
|---|---|
| `Transport` | the command transport: queue, pacing, chunks, matching, reply debt, hold, drain |
| `CommandQueue` | what the transport promises its services; `Transport` implements it |
| `Reassembly` | the receive buffer over a lossy link |
| `WriteOperations` | the write service over the control cache, the poll and the initial sync |
| `WritePromise` | what the write service promises its clients; `WriteOperations` implements it |
| `Selection` | taking elements out of a sequence, used by the two above |
| `Schedule` | the schedule service's caches and the schedule operations, over the pump, the phone app and a transport that loses and delays |
| `Slots` | the choice of single-event slots, used by `Schedule`: pure operators |
| `ReadChains` | what is read once per connection: the legs, the chains, the re-arm and the drain |
| `Connection` | the link: connection manager, session, watchdogs, holds, suspension |
| `Demand` | the hot-water demand detector over a house with a pump and a tap |
| `TransportProofs`, `ReassemblyProofs`, `WriteOperationsProofs`, `ConnectionProofs`, `SlotsProofs`, `ScheduleProofs`, `ReadChainsProofs`, `DemandProofs` | theorems about the module they are named after |
| `MCTransport`, `MCReassembly`, `MCWriteOperations`, `MCSchedule`, `MCReadChains`, `MCDemand` | instances for TLC (`Connection` needs none) |

`Transport` stands below the services. The modules above it use what it
promises and no more: their transport is a queue whose oldest command ends,
answered or not, and each callback runs once (`CommandQueue`, with `EverySettles`
as the fairness). `WriteOperations` and `Schedule` split the write service the
same way: the first has the queue of operations, the second one operation at a
time with the caches it works on.

The names of variables and actions are the source's wherever TLA+ allows it
(`owed_replies` is `owed_replies_`, `FailFront` is `fail_front_`). Each module
has its variables in three groups: state of the code, state of the environment
marked external, and history variables that only properties read. Operators
headed "Faulty variant of" are used by no specification: they say what a
plausible bug would look like, and replacing the definition that follows by
one of them makes TLC refute the property the bug would break.

### Transport

An action is one call of the loop: `Loop` (idle, sending a chunk, timeout),
`OnReply` (a complete frame whose CRC is good), `SendCommand`, `Reset` and the
steps of its drain. A chunk write may succeed or fail at any point; a failure
after the first chunk starts `peer_resync_pending_`. Time is an age per stamp
in ticks, since the code only ever reads `now - stamp`. Frames are abstracted
to the five kinds the matcher distinguishes. The five kinds of command are the
five matching rules the services use: SETs (any acknowledgement completes
them), typed reads, wildcard reads, class reads, and polls without a callback.
A callback may queue one further command of its chain, also during the drain.

What the model shows about reply debt, and its limits, is in the preconditions
of `NoFalseSuccess` and `DamageBounded`: no SET is completed by another's
acknowledgement as long as at most one reply of the run comes late and, where
the pump may refuse a callback-less read, none of those was issued. With more
late replies acknowledgements can shift, but never in a chain: frames withheld
plus debt never exceed the commands that failed. A read may be completed by the
late reply of an earlier read of the same object: the code accepts that.
`register_response_handler` and `check_timeouts` are called by nothing and are
left out.

### Reassembly

The buffer is a sequence of bytes from a small alphabet with a start byte, a
length byte and one CRC byte; frames are scaled down but keep their layout.
The link delivers fragments, drops and corrupts some of them, bounded by
`MaxTroubles`, and time may pass between any two. The actions are those of
`on_notification`: stale-buffer discard, start-byte search, overflow guard,
CRC check, completion.

### WriteOperations

Four operations are carried to the wire: SET_PUMP_ENABLED, SET_MODE,
SET_SETPOINT (the fused frame, which carries the run state) and SET_CLOCK; the
schedule commands are in `Schedule`. The others share `submit_`, `start_front_`,
`finish_` and the watchdog with these. The transport below is abstract: commands
end in order, each callback runs once. The environment may refuse a
frame, lose it or its reply, let a watchdog fire, drop the link, or change the
pump at its panel; `Faults`, `MaxPolls` and `MaxPanel` bound that.

`start_front_` is a step of its own, with `starting` true until it ran: the
code calls it at the end of `finish_` and of `submit_` in the same call stack,
so no other action is enabled in between. `find_(seq)` guards of the callbacks
are `InFlight(o)`. The phase "new" stands for an operation not submitted yet.

Left out here: the two-second retry timer of the initial sync is not tied to
a read-chain generation in the code, and a retry of an old connection can
coincide with a new chain; `chain_products_complete_` can re-arm the chain on
grounds that do not concern the control cache. A timed-out operation's rollback
(`pump_enabled_valid_ = false`) closes the ready check for every write until
the next poll, so the read of `with_resolved_enabled_state` is not reachable
behind it in this model either.

### Connection

An action is one BLE event, timer, watchdog tick or flip of the switch, with
every callback it runs: `Opened` is `handle_connection_opened()` with the
component's connection callback inside, `Disconnected` the DISCONNECT branch
with the disconnection callback. `teardown_requested_` lives only inside the
open handler, so it is the difference between `Opened` and `OpenedSuspended`. A
scheduler callback of an older sequence does nothing, so moving the sequence
on is `retry_timer' = FALSE`; the post-connect callback only logs. A watchdog's
window is a flag, over or not over. `phys`, `searching`, `smp` and `registered`
stand for the radio, ESPHome's client and the pump. A teardown is
asynchronous: until DISCONNECT every event of the connection may still
arrive, with one exception, the search that ESPHome asks for together with an
open that is refused while suspended.

Of the environment it is assumed that a teardown takes less time than a
watchdog's window, that the pump offers to pair only when no bond is stored,
and that no authentication ends that was not begun. Left out: the lengths of the
windows and their back-off, the status ladder and its counters, the gap
sampler, connection parameters, advertisements, events of other peers, and a
teardown that completes without any DISCONNECT.

One thing the model keeps and no property states: a successful AUTH_CMPL drops
an authentication hold without clearing its text, unlike every other release
(`on_session_ready` says why they clear it), so the text stays on display
until the pump is ready or another reason replaces it.

### Schedule

What a callback or a step of an operation does is an operator from the state it
finds (`w`: the operation, the three caches, the commands it sends) to the state
it leaves, so that a callback that goes on to the next layer, finishes the
upload or commits is one step, as it is in the code. `Done` dispatches the end
of a command: first what `ScheduleService` does with the cache whoever asked,
then the operation's own callback if that operation is still in flight
(`InFlight` is `find_(seq)`). A layer is written whole, its cache takes the image
when it is sent, and the verdict comes from a read-back. The cells are off or
carry one of a few times; a day that is switched off keeps its times at the pump
and `Canonical` forgets them, as the image compared and the hash do.

The pump answers a read by its type only, so a late layer or slot can pass for
another one (`Misanswered`). The faults are named: a lost command, one whose
answer is lost or late, one the pump acknowledges and ignores, the watchdog, a
dropped link, an edit by the phone app and a background read of the slots or
of the grid. Timers (the settle delay, the poll) may fire at any time.

Left out: parsing of uploads, the local-time shift with its range check, the
daylight-saving shift, display and JSON. `ensure_overview_()` finds the overview:
the ready check in front of it asks for the same flag, so its polling branch
cannot be reached from a write operation.

### ReadChains

`Trigger` sets the timers of `trigger_initial_data_reads()`, a leg action is one
of its lambdas, `Complete` ends the oldest command and runs its callback
(`StringEnd` to `OtherEnd`), `Disconnect` is the disconnection callback up to the
drain and `DrainStep` one turn of `abandon_queue_()`. Timers and commands
carry the generation their lambda captured; each callback says whether it
checks it, and several do not. The re-arm may come whenever its conditions
hold, so every length of the back-off is covered. `began` counts the runs of a
leg, for the properties only. Display texts and the control cache's sync (in
`WriteOperations`) are left out.

### Demand

`Tick` is one `update()`, with the whole chain of decisions of
`dhw_demand_logic.h`; the other actions are the sensor callbacks and the house.
Every stamp is an age in ticks, kept exact up to the largest bound it is
compared with; `Rollover` lets a stamp nobody renews look new after 2^32 ms. The
two temperature signals and the heater's flag are free inputs of each tick.
Pump speeds are classes, some of them trusted (at or above `min_speed_rpm`);
flows are small integers. The pump's estimate reads low until the impeller has
settled. Left out: the motor-current fallback, confidence and level numbers, the
duration of a session.

## 3. The runs

| Run | Question | Bounds |
|---|---|---|
| `commands` | callbacks, debt, hold, reset, liveness and the refinement of `CommandQueue`, with every fault | a two-chunk SET, a SET, a refusable read, a poll; two late replies; latency up to 3 ticks; the debt saturates at 2; the drain's cap is 3 |
| `link` | reassembly | three frames, three troubles, fragments of at most 3 bytes, two counted CRC drops |
| `writes` | safety and the refinement of `WritePromise` | three operations (START, a setpoint, a clamped setpoint), one poll in flight, every fault |
| `all_settle` | liveness under every fault | clock, mode change, setpoint for a mode without one |
| `noticed` | a change at the panel is noticed (issue #54) | STOP, mode change, one change at the panel |
| `connection` | holds, suspension, subscription, faults and watchdogs; liveness | pairing, both watchdogs and both holds on; two recycles, two discovery retries, three stall cycles |
| `chains` | the reads of a connection | two strings, two trends, log counts 0, 1 and 3 clamped at 2, two drops or re-arms, a drain of at most 4 steps |
| `schedule` | the schedule operations and their caches | two operations out of eleven requests, two layers of two days, two slots, one fault of each kind in turn, one late reply, one retry |
| `house` | the demand detector's decisions | two running speeds, one trusted; two changes of pump, tap or link, or wraps of three stamps |
| `demand_ends` | liveness of the published demand | one running speed; two changes; every window one or two ticks |
| `last_write`, `vacation` | disagreements of the code with its documentation, refuted by TLC | as small as shows them |

Why the bounds are enough to be interesting: in `commands`, with one tick about
200 ms, the order of the constants (`Pacing < PeerStale <= AckTimeout <
StaleWindow`, `PeerStale < ResyncHold`) is the code's, a late reply can overtake
one timeout and reach the next, the debt counter reaches its saturation and the
drain its cap. For the write service three operations are one in flight, one to
supersede and one that supersedes; every attempt limit is 1, so a retry happens
and the limit is reached. In `chains` the cap of the drain exceeds the longest
chain by one, as the code's static assertion asks, and five strings or two drops
more would repeat what two show: a re-armed attempt overlaps its predecessor. In
`schedule` two operations are the one that leaves something behind and the one
that meets it, two layers are one that is being written and one that is not, and
with two slots the pump can be full. In `house` each window is a tick or two, so
an age below, at and above every bound occurs. The theorems of the next
section hold without these bounds.

Fairness. `Transport`: the loop runs, the drain goes on, time passes and a
reply arrives or is lost: weak fairness of these four, which ESPHome's loop
and the time-out give. `WriteOperations`: weak fairness of the transport
ending a command (that is `EverySettles` of `Transport`), of every timer the
services set, and of a reconnection. No fairness is assumed of submissions,
faults or the panel. `Connection`: timers and windows end, `loop()` ticks, a
connect ends one way or the other, a requested teardown is completed by a
DISCONNECT, and the pump advertises again; nothing is assumed of discovery,
encryption, subscription, notifications or the switch. `ChangesNoticed` is
checked without faults: a poll that is always lost notices nothing. `Demand`:
`update()` is called, the meter reports a value that has changed, the motor's
poll is answered again and again; nothing is assumed of the loop's flow, the
heater's flag or the temperatures. `chains`, `schedule` and `house` check safety
only, and their systems may stop.

## 4. The proofs

All theorems hold for every value of the constants within the named
assumptions of the modules (`ProfileAssumption`, `TimingAssumption`,
`OpsAssumption`, `PumpAssumption`, `ChainAssumption`, `SpeedAssumption`,
`BoundAssumption`, `ScheduleAssumption`, `ProgramAssumption` and those of
`Reassembly`); a theorem that needs more says so
in its ASSUME. Six do:

* `NoFalseSuccessAlways` needs `LatencyAssumption`: a reply comes, if at all,
  within the acknowledgement timeout and the stale window, in which its debt is
  remembered. The longest latency measured (`transport.h:130`) is below the
  stale window alone.
* `NoDrawInvented` needs `BiasAssumption`: at no speed does the pump's own
  reading fall further below the loop than the threshold and
  `dhw_in_use_loop_bias` together, which is what that setting is for
  (`docs/configuration.md:1356`).
* `KnownEventsKeptAlways` needs `SlotsAssumption`: the pump holds no more single
  events than the 35 that a read of the slots covers when the overview is not
  known yet (`schedule_service.h:618`; both units on the bench have five). It is
  needed: with `FallbackSlots` 1 below `PumpSlots` 2 and the live event in the
  second slot TLC finds a background read, queued before the overview arrives,
  that misses the event, and a new one that is written over it.
* `LoopNotScored`, `CarriedIsRecent` and `SessionsSpan` leave the stamps they
  compare (one, one and three) out of `Rollovers`: each is renewed or retired
  within the 49.7 days after which it would look new.

Module by module:

* `Transport`. The invariant ties calls, outcome, queue and the drain: a
  command is in the queue exactly when it was issued and has been neither told
  nor stranded; the state of the sender agrees with the chunks written; a partial
  frame at the pump is at most as old as the hold. From it follow
  `TypeCorrect`, `CallbackRunsOnce`, `NothingCarriedOver`,
  `HoldProtectsFrames` (which needs `ResyncHold > PeerStale`, the 100 ms the
  code adds), `DamageIsBounded`, and `TransportKeepsPromise`, the refinement
  of `CommandQueue`. They cover every kind of command, the two the TLC
  instance has no room for included.
  `NoFalseSuccessAlways` is about replies that carry no request identifier. Its
  invariant has two halves. `WireInv`: the frames on the wire are in the order
  of the commands, and only the front command's own reply can be the last.
  `OwedInv`: the reply of a SET that gave up is owed, and its debt is younger
  than the reply can be, so it is withheld from whoever is in front when it
  comes. The preconditions are the property's own: no reply is later than that,
  and where the pump may refuse it no callback-less read was issued.
* `Reassembly`. `GuardUnreachable`: the buffer's length stays below its
  announced length, which the length check has bounded, so the overflow guard
  cannot fire. `Recovers` and `DropsCounted` compare the buffer with the frame
  that is being sent. They agree (`Synced`: the buffer holds the frame's bytes
  so far, announced length and age included), or what the buffer holds is older
  than the last disturbance and is gone once that is a timeout ago
  (`RecoveryInv`); a buffer that does not agree has been paid for by a
  disturbance that is not yet counted as a drop (`DropsInv`).
* `WriteOperations`. `OneResult` and `OneInFlight` are not inductive alone: a
  callback may name an operation whose front place another took, so the
  invariant adds that no operation stands twice in the queue (`Distinct`) and
  what a command at the transport may assume of its operation (`WireInv`).
  For `ServiceKeepsPromise` it adds `Unstarted`: an operation not settled has
  status "none". The hard case is a submission: erasing the superseded from the
  queue and then dropping the front is the same as dropping the front and then
  erasing (`PickBehind`).
  `VerdictsAreHonest` follows a verdict back to the frame: an operation in flight
  is one the pump understands (`FrontValid`), each operation has one frame and it
  goes before its confirm reads (`FramesInv`), so what is read back was read
  after the pump had it. `SetpointsKeepRun`: as long as nobody changes the run
  state behind the services' back, each setpoint frame on its way carries what
  the pump does, no START or STOP stands ahead of the setpoint that was fused
  without it, and the cache is the pump's unless a START or STOP is just being
  confirmed (`RunInv`). `CommandedModeKept`: the initial sync has at most one
  read out (`SyncInv`), and a mode operation in flight has its mode forced, or
  a cache that follows the pump (`ModeInv`).
* `Connection`. `HoldsKeepLinkDown` needs `HoldInv`: the boot hold and a settle
  hold cannot overlap, because a settle hold begins with a connection and none
  begins before boot is over; so `BootDue` and `SettleDue` may look at the
  suspension alone. `LinkInv` says that a search, a scheduled retry and a
  deferred subscription exclude each other and that all three are over once
  the session is idle: from it follow `SubscribedOnce`, `SuspendedStaysDown`
  and `StabilizesFirst`. `RecycleInv`, that a recycle leaves no window over
  and the teardown requested, gives `OneRecycle`.
* `Slots`. `FreeSlotAnswers` says what the three passes of
  `find_free_single_event_slot()` come to, and `LiveEventSpared` that the slot
  chosen holds no event, or one that is certainly over. A least slot exists by
  well-founded inclusion of the sets of slots below it, since TLAPS cannot
  instantiate the induction theorems of its library. `VacationsMeant` says which
  slots `find_vacation_slots()` names: all the vacations that cover now, else
  exactly one, else none because none is held.
* `Schedule`. `OtherDaysAreKept`, issue #92's property. The invariant says of a
  queued write of one day that each other day it carries is the pump's, or is
  in `edited` (`Spares`). For that to last, no write or read of a layer may stand
  ahead of a write in the queue: an operation writes a layer only in the
  callback of its own read, and what was queued before that read is gone when it
  ends, because the transport is first come, first served; and while the
  operation waits, nothing else queues a write or a read of a single layer
  (`QueueOk`). The proof follows each function of
  an operation to one of three outcomes: its end, its settle delay, or one
  command of its own (`Result`). It assumes `ProgramAssumption`: the requests
  name the nine commands and times of a day, the pump's program is well formed.
  `ScheduleTyped` needs that a read-back names a slot of the range (`Named`).
  `AcceptedIsHeldAlways` and `HashIsPumpsAlways` share one invariant, `Sound`: of
  an operation in flight the pump holds what it has verified so far (`Reached`),
  and nothing is queued that could undo it (`Quiet`). The hard case is what a
  cut-short operation left at the transport: it is gone by the time the next
  one's first read ends, since commands end in order. Each function of an
  operation then leaves it in flight with more reached, or settled on what the
  pump holds (`Honest`). TLC checked `Sound` first, on the bounds of the run.
  `KnownEventsKeptAlways`: doubtful slots apart, what is cached shows the pump's
  enabled events (`CacheSure`), so does what each queued read of the slots has
  found up to the slot it asks for, and no queued write to a chosen slot
  is to one with a live event (`Sure`). TLC checked this one on three variants
  of the instance. The attempt showed that the property was too strong as first
  written: the second race under `LiveEventsKept` in the next section.
* `ReadChains`. `FlagIsHonest`: a drain lowers the log's flag first and no
  callback raises it, so the two halves (flag down while draining; flag up
  exactly while one log read is queued, otherwise) are one invariant.
  `DropsInert`: the drop starts a generation before it drains, so every queued
  clock reading is behind (`Ahead` is empty), the session is down for the
  terminal branches, and a failed string makes the count of failures positive.
  `InfoOfThisLink`: the strings are queued in turn, read after read, however often
  a re-arm restarts them (`Cycle`), so a count that has seen no failure lacks
  only those that are still to end (`Counted`); no leg and no string of an older
  link reaches this one (`InfoInv`).
  `OncePerAttempt`: the attempt's second chain has one token (a timer of the
  log's, the history's or the events' leg, or one queued read), which `Order`
  moves along; what earlier generations still have queued carries theirs and
  arms timers that are stale.
* `Demand`. `NoRevival`: a retired run has no capture, and a capture that is
  there is dated (`CaptureInv`). `LoopNotScored`: since the last reading that
  says off, the pump has run for no longer than that reading is old; it assumes
  that the motor's stamp does not survive a turn of the clock (49.7 days without
  a reading). `CarriedIsRecent`: a support stamp is retired one tick after its
  window and so never reaches the age at which it would wrap. `SessionsSpan`:
  while no demand is published, the ticks since the last demand found exceed
  those since the last one published by the release. `DemandTyped` adds the
  types of the memories to those of the ages. `NoDrawInvented`: a meter above the
  loop's reading by more than threshold and bias saw a tap, with both readings
  noted at the speeds they were taken at.

Only model-checked: the liveness properties (`EverySettles` twice,
`ChangesNoticed`, `DeafIsRecycled`, `NeverReadyIsNamed`, `Reconnects`,
`SuspensionFrees`, `DemandEnds`), since TLAPS has no ENABLED. Every other
property of a passing run is a theorem. No module declares a RECURSIVE operator.

## 5. Where the code and its documentation disagree

1. `programmatic-interface.md:693`, "last write wins": superseding a queued
   START clears the run state's validity and the ready check refuses the STOP
   that superseded it (run `last_write`).
2. `write_operation_service.cpp:2390`, "ACCEPTED means the pump confirmed the
   requested value": a clear of a vacation whose frame was lost removes the
   event from the cache all the same (`schedule_service.cpp:971`), so the second
   clear finds none and settles ACCEPTED while the pump is held off (run
   `vacation`).

Further formulas that TLC refutes stand in the modules, without a run of their
own; what it takes to see each is told here.

* `Transport!SuppressedMeansPaid`. `transport.h:234` says a suppressed command's
  own reply was the one withheld from it; it may be another's (no debt is
  recorded then). A typed read and a SET with one late reply show it.
* `WriteOperations!ForcingIsBounded`. `control_service.h:483`: after a setpoint
  write that failed because the pump did not enter the mode, the commanded mode
  is forced on every later poll, not a bounded number of times.
* `WriteOperations!AbandonedRunNeverGuessed`. `write_operation_service.cpp:321`,
  "abort rather than guess": a poll queued before an abandoned STOP can restore
  the old run state, which a later setpoint frame then carries.
* `Connection!NoPlainSubscription`. `ble_connection_manager.cpp:739`: the failed
  encryption clears the flag that defers the subscription, so a discovery that
  completes before the requested teardown does subscribes at once.
* `Schedule!LiveEventsKept`. A background read of the slots that spans an event's
  write replaces the cache with the older picture, and the next event may take
  a live slot (an empty pump, two events, the fault "reread"). The same happens
  without a read: an event's write waits at the transport when the watchdog
  gives its operation up; the cache takes the event only in the write's callback
  (`schedule_service.cpp:971`), so the next event, decided on the cache as it is,
  is given the same slot and is written over the first (two events in a free
  slot, the fault "watchdog").
* `Schedule!LayersStayApart`. The late reply of one layer passes for another's,
  and the patched image goes out to the wrong layer (entries of layers 0 and 1,
  the fault "unheard", one late reply).
* `Demand!NoRampDifference`. `dhw_demand_logic.h:393` asks whether the pump has
  run for the settle time now, not whether the loop was read after it (line 413,
  used by another tier, does): with one poll missed the difference uses a
  reading from the ramp.
* `NoLoopScored` with "motor" in `Rollovers`: a motor channel that froze at 0 RPM
  looks fresh again after 2^32 ms, for another staleness window.

Seen while translating, and stated by no formula: the commit after a control
write sends the overview as cached and so reverts a flag the app toggled since
the last poll; an upload skips writing the flag when the cached one agrees; the
comparison of a layer ignores a cell's action byte; a layer's cache keeps the
image of a write whose read-back timed out; a successful AUTH_CMPL drops an
authentication hold without clearing its text, unlike every other release.

## 6. Not modelled

* The commands SET_REMOTE_MODE, SET_TEMPERATURE_RANGE, SET_CYCLE_TIMES,
  SET_FLOW_LIMITER and the pump-state switch: they queue, retry and settle like
  the four in `WriteOperations`; their frames carry several values that are read
  back together, which would add data and no control the others lack.
* The back-off of the watchdogs' windows and of the re-arm, and the gate of the
  clock's sync: they decide when, and the models let the step happen at any
  time its conditions hold.
* The link status ladder, diagnostics counters, the gap sampler, connection
  parameters and advertisements: reports that no decision rests on.
* Calendar arithmetic (`dst_rule.h`), encoding and decoding of frames and
  values, argument checks of the API bridge, change detection of the sensor
  publisher: data conversion without control.
* The Python schema, the packages, the schedule card and the tools: not part of
  the running program.
