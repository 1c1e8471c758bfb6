# A TLA+ model of esp-ash-components

`esp-ash-components` is a collection of C++ components for ESP32 firmware on
FreeRTOS: an event loop, timers and polled buttons, GPIO and I2C, values kept in
flash, an analogue converter, LEDs, and application layers over the Zigbee,
Matter and Modbus stacks. The code has no tests. This directory holds TLA+
modules of the components where the order of steps matters and of the data
structures they stand on, TLC configurations that check them on small
instances, and TLAPS proofs, for any value of the constants, of every safety
property the passing runs check on the state machines, and of the safety part of the two
refinements.

Run, in this directory:

    tlc -config MCEventLoop.cfg MCEventLoop      (and so on for each .cfg)
    tlapm EventLoopProofs.tla                    (and so on for each ...Proofs.tla,
                                                  and SequenceCounts.tla)

`PROJECT.json` maps every definition to the lines it models, lists the hazards
of the code and, for each checked property, a mutated definition that breaks it.

## Inventory

Tasks that appear below: *application* tasks; the *event loop* task of an
`EventLoop`; the *Zigbee* task (`esp_zb_stack_main_loop`); the *esp_timer* task,
which runs `ScheduledTask` and `PeriodicSoftTask` callbacks; timer and GPIO
*interrupts*.

| Component | State it keeps | Operations | Talks to | What is hard | What makes it correct |
|---|---|---|---|---|---|
| `eventLoop` | two callable buffers, `_mutex`, `_condVar`, `_running` | constructor, `enqueue`, `taskFunc`, destructor | every task that posts | many producers, callables that enqueue, notify after unlock, deletion at any point | nothing lost, run twice or overtaken; no sleep on pending work; mutex discipline |
| `zigbee` node | the stack's network state, retry timers, registered handlers | `start`, `joinNetwork`, `leaveNetwork`, `handleBdbEvent`, `postEvent` | Zigbee, timer, loop and application tasks | four tasks calling the same methods, retries, leaves decided by the network | bounded retries, eventual join, handlers that know the truth once all is handled |
| `zigbee` clusters and endpoints | the stack's attribute store per role, handlers | `readAttribute`, `setAttribute`, `handleZbActions`, `postEvent`, mounting, `sendCommand`, `setReporting` | Zigbee and loop tasks | lost and overtaking messages, pointers read later by another task | handlers end up with what the network stored |
| `zigbee` Time client | `isSync`, system clock, `TZ`, a monthly timer | `syncRTC`, `processSync`, `isSynchronized` | the cluster, a `ScheduledTask` | one lost answer, incomplete answers | synchronised every month, number of timers bounded |
| `scheduledTask` | a one-shot `esp_timer` | constructor, timer callback, destructor | esp_timer task | deletion of an armed timer | runs once, then deletes itself |
| `periodicSoftTask` | a periodic `esp_timer` | start, callback, destructor | esp_timer task | destructor against a running callback | no callback after destruction |
| `periodicTask` | a gptimer; `ButtonTask` adds the debouncing state, two handlers and an event loop of its own; `BlinkTask` a pin | start, stop, delay; set and clear handlers, `setPollPeriod`, `canSleep` | timer interrupt, application | bouncing contacts, double reads of the pin, configuration changed while polling | one report per press, long presses are long |
| `persistedValue` | one NVS handle shared by all objects, a value per object | constructor, `setValue`, `save`, destructor | flash | power loss between two calls, shared handle without a lock | saved values survive, flash spared |
| `cppgpio` | per input pin: trigger, where the interrupt reports (queue, custom loop, default loop), handler and data | `init`, enable and disable the interrupt, both `setEventHandler`, `setQueueHandle`, `clearEventHandlers`; outputs set a level | GPIO interrupt, the SDK's event loops | the interrupt between two assignments, failing registrations | the interrupt reports to the place set last, and handlers set before are gone |
| `cppi2c` | bus and device handles | add, remove, read, write | I2C driver | transfers that fail, devices removed | a removed device is not used |
| `ads1115` | `_config`, `_useReadyPin`, the pointers and the flag of `_intArgs` | `getRaw`, `getVoltage`, `setReadyPin`, `removeReadyPin`, `setConfig`, `isBusy`, the event handler, destructor | `cppi2c`, `cppgpio`, the default event loop | the event handler reads the object later than the interrupt that posted it | an answer belongs to its request; no pointer outlives its object; every request is answered |
| `modbus` | the stack's handle | `getRequest`, `setRequest`, register conversions | modbus stack | word order, signedness | conversions are inverse to each other |
| `ws2812` | LED states, transmit buffer, on/off | set colours, modes, `send` | RMT driver | buffer changed during an asynchronous send | what is shown is what was set |
| `matter` | `MatterMap`, vectors ordered by id, for endpoints, clusters, attributes and handlers; `MatterValue`, a tagged union | create and add parts of the data model, look up, register handlers, `start`, `factoryReset`; `attribute_update_cb`, `identification_cb`, `matter_event_cb` | Matter task, event loop | lookups that insert, blocks inserted into a map, callbacks for what nobody registered, fabrics that come and go before an event is handled | objects mirror the SDK's data model; values are read as they were written; a node without a fabric can be commissioned again |
| OTA client, APS and debug printing, `utils` | none of interest | – | – | – | – |

How the parts interact: every asynchronous notification goes through an
`EventLoop` (the default loop of the SDK for `cppgpio`), one queued call for
every registered handler; a delayed action goes through a self-deleting
`ScheduledTask`. So `EventLoop` is modelled statement by statement and shown to
implement `SerialExecutor`; the Zigbee modules then use what `SerialExecutor`
promises, a first-in first-out queue served by one task, in place of the buffers
and the mutex.

The hazards of the code, each with its line and the properties aimed at it, are in
`PROJECT.json` under `hazards`. A note says where no property covers one, or where the
code goes wrong and the property leaves the case out.

## Modules

| Module | Models | Checked by |
|---|---|---|
| `SerialExecutor` | what an `EventLoop` promises (abstract specification) | refinement in `event_loop`, proved in `EventLoopProofs` |
| `EventLoop` | `src/eventLoop` | `event_loop` |
| `EventLoopProofs` | theorems about `EventLoop` | `tlapm` |
| `ZbNode` | `src/zigbee/zbNode.cpp`: network life of a node | `zb_network` |
| `NodeNews` | what a node promises the handlers of its events (abstract specification) | refinement in `zb_network`, its safety proved in `ZbNodeProofs` |
| `ZbNodeNews` | `ZbNode` with the history of the outcomes it posted, and the refinement mapping | `zb_network` |
| `ZbNodeProofs` | theorems about `ZbNode` and `ZbNodeNews` | `tlapm` |
| `ZbCluster` | `src/zigbee/zbCluster.cpp` and the ZCL callbacks of `zbNode.cpp` | through `ZbTimeClient` |
| `ZbTimeClient` | `zbTimeClusterClient.h` over `ZbCluster` and `ScheduledTask` | `zb_time`, `zb_later_handlers`, `zb_monthly_sync` |
| `ZbTimeClientProofs` | theorems about `ZbTimeClient` and `ZbCluster` | `tlapm` |
| `SequenceCounts` | lemmas: how many elements of a queue, how many tasks, are in a set | `tlapm` |
| `ZbAttributes` | attribute lists, copies and mounting of clusters: `zbCluster.cpp`, `zbEndpoint.cpp`, `zbTimeCluster.h`, `zbCustomCluster.h` | `zb_time`, `zb_mounted_client` |
| `PersistedValue` | `src/persistedValue` | `persisted` |
| `PersistedValueProofs` | theorems about `PersistedValue` | `tlapm` |
| `PeriodicTask` | `src/periodicTask/periodicTask.cpp` | through `ButtonTask` |
| `ButtonTask` | `src/periodicTask/buttonTask.cpp` over `PeriodicTask` | `button` |
| `ButtonTaskProofs` | theorems about `ButtonTask`: handlers and debouncing | `tlapm` |
| `GpioInput` | `src/cppgpio/cppgpio_input.cpp` | `gpio_adc` |
| `I2c` | `src/cppi2c`, as `Ads1115` uses it | through `Ads1115` |
| `Ads1115` | `src/ads1115` over `GpioInput` and `I2c` | `gpio_adc`, `ads_twice` |
| `Ads1115Proofs` | theorems about `Ads1115` and the pin of `GpioInput` in it | `tlapm` |
| `IdMap` | the function a `MatterMap` promises to be (abstract) | through `MatterNode`; `MatterMap` shown to act as it in `matter` and `MatterProofs` |
| `MatterMap`, `MatterValue` | `matterMap.h`, `matterValue.h`, as operators | `matter`, `matter_block` |
| `MatterNode` | the node, endpoints, clusters and attributes of `src/matter`, over `IdMap` | `matter` |
| `MatterProofs` | theorems about `MatterNode`, `MatterMap` as an `IdMap`, and `MatterValue` | `tlapm` |

`MC…` modules extend these for TLC; two of them also enumerate the arguments of
the pure operators. Operators commented `Mutant:` stand
for a plausible bug of the definition that follows them; no specification uses
them.

### EventLoop

`writeBuffer` and `mutex` are `_writeBuffer` and `_mutex`; `readBuffer` and `ran`
are `taskFunc`'s local buffer and iterator; `running` is `_running`. `at` is the
place of the loop task in `taskFunc`, `pc[t]` and `arg[t]` the place of task `t` in
`enqueue` and its callable: the loop task has a `pc` as well, because callables
enqueue. Each statement that another task can observe is an action: `Lock`,
`Push`, `Unlock`, `Notify` for `enqueue`; `TestRunning`, `Acquire`, `WaitForWork`
(`wait` releases the mutex and blocks in one step), `FindWork`, `Swap`, `Release`,
`Invoke`, `CallReturns`, `BatchDone`, `ClearBatch` for `taskFunc`; `BeginDestroy`
(which enqueues the callable that clears `_running`) and `DeleteTask` for the
destructor. `SpuriousWakeup` is part of the condition variable. The constructor
ignores the result of `xTaskCreate`, hence the initial `at = "none"`. `posted` and
`called` are history. The destructor starts when no other task is inside
`enqueue`, as C++ asks of its caller.

### ZbNode

`stack`, `joined`, `factoryNew`, `steering` are the external stack; `signals` the
BDB signals on their way to `handleBdbEvent`. `HandleSkipStartup`,
`HandleDeviceReboot`, `HandleNetworkSteering`, `HandleLeaveNetwork` and
`HandleNetworkStatus` are its branches. `joinNetwork` is `Join` (the `isJoined`
test, `JOINING` posted) and `Steer` (the commissioning call), `leaveNetwork` is
`Leave` and `RequestLeave`: between the two, other tasks run. `postEvent` puts one
call per handler in `todo[t]`, and `Enqueue` moves them to the loop's `queue` one
at a time, so two tasks' posts mix. `ScheduleRetry` and `RetryFires` are the
`ScheduledTask` of a failure. A handler (`RunHandler`) may itself join or leave.
Two simplifications: the application calls the node once its stack has started
(`AppCalls`; the code does not ask, and a call before would use a stack that is not
there), and the leave that `leaveNetwork` requests has happened when the request
returns (`RequestLeave`; the stack decides later and could refuse). `RemovedByNetwork`
is a leave that comes at any other time.

`NodeNews` is what is left of this for a handler: a list of outcomes (`JOINED`,
`JOIN_FAIL`, `LEFT`) that grows, of which every handler has heard a beginning; it is
the turn of the first handler that has heard less than those before it. Anything else
(`JOINING`, `LEAVING`, `NLME_STATUS`) may be said at any time. `ZbNodeNews` adds the
list as a history variable, `news`, written by the step in which `postEvent` begins to
post an outcome, and read by nothing; what a handler has `heard` is counted in what it
has `seen`. `Hear` is then a `RunHandler` of an outcome, `Chat` one of any other
event, `Announce` the handling of a signal, and all other steps stutter.

### ZbCluster and ZbTimeClient

A cluster id is mounted as a client and as a server object, `store[role]` being the
stack's attributes of each. A value is a version number. `attributesWereRead` and
`attributeWasSet` post sets of attributes and not values, as the code posts
pointers: `RunHandler` reads them later, and `Sight` says what it can find, the
store's value of that moment after a read, anything at all after a remote write,
whose pointer leads into a message the stack has freed. `CallsFor` moves the
attributes into the first handler's call, as `postEvent` does. `ZbTimeClient` adds
`isSync`, `clock`, `tz` and `armed`, the timers for the next `syncRTC`;
`ProcessSync` is the client's first handler. Messages can be lost
(`LoseRequest`, `LoseResponse`) and are taken in any order. There is one server to
read from: that the `readAttribute` of a single attribute drops the destination it was
given (`zbCluster.cpp:264`) makes no difference in the model. `ReportConfirmed`, what
the stack makes of an attribute report, is external.

### ZbAttributes

What the objects are before the stack runs: a cluster is a kind, a role, a list of
attributes and whether it is mounted. `NewTime` and `NewCustom` are the constructors,
`Copy` the copy constructors (with `CopyStops` for the null pointers they follow and
the `ESP_ERROR_CHECK`s that stop the program), `GetAttribute` and `AddCluster` the
methods of the same names. `CopyKeepsAttributes` says what a copy has: the ids, values
and role of a cluster that is not mounted and has only attributes its `addAttribute`
takes. (The copy of a custom cluster has its attributes without their types, and the
copy of a mounted client stops: the model has both, the property speaks of neither.)
`MountedFindsItsOwn` is what `zbCluster.h` says of `getAttribute`; a mounted client
looks its attributes up in the server's list instead. The runs ask the two of all
enumerated clusters (`CopiesKeepAttributes`, `MountedFindTheirAttributes`).

### PersistedValue

`nvs` is what `nvs_get` returns, `durable` what has been committed. `handle` is the
static `_handle`; between `nvs_close` and the assignment of -1 it is `"stale"`.
`pc[k]` is the place of the object of key `k` in its constructor, `save` or
destructor, every NVS call being a step of its own; so is the constructor's test for
-1 (`Construct`) before the `nvs_open` (`OpenHandle`). `Fresh` is the uninitialised
`T read` of `save`. A string read back keeps its terminating NUL (`Texts`). A
`Reboot` keeps any set of the values written and not committed; `Abort` is
`ESP_ERROR_CHECK` on a handle that is not open.

### PeriodicTask and ButtonTask

`PeriodicTask` has the period and whether the timer runs; `Alarm` is its interrupt,
which calls what the derived class gives it. In `ButtonTask`, `history`, `counter`,
`pressed` are the static locals of `timerCallback`, `idle` is `_idleCounter`.
`Sample` is one interrupt: it picks the two reads of the pin independently, and its
disjuncts are the branches of the callback. `ContactMoves` is the button. The
application's calls are steps between which the interrupt runs when the timer
does: `setPollPeriod` changes the period (`SetPollPeriod`) before the threshold
(`SetThreshold`), rounded with the code's integer division; setting a handler stops
the timer, clears the old one, which starts the timer again, stops it a second time
and sets the new one (`BeginSet`, `ClearHandler`, `StopAgain`, `SetHandler`). `got` is
what was detected since the contact began to close; a press found while its
handler is not set is `"unheard"`, as nothing is posted then. The properties speak of
what is detected: the result of the post, which the callback ignores, and the queue of
the handlers' loop (five events) are not modelled, nor is the unregistration with a
null instance in `clearShortPressHandler`, after which the loop keeps the handler until
it is deleted. Calls that stop the
timer are taken to be short: no bounce goes by meanwhile.

### GpioInput

The flags are those of the object; `registered[loop][h]` is how often an event loop has
handler `h` for the pin and `events[loop]` what it has not dispatched of the pin's
events. `Edge` is the pin with its interrupt, which finds its destination (`Place`) in
the flags. The interrupt runs on the core of the task, so the set functions, which
change the flags in a critical section, are one step, and `clearEventHandlers`, which an
application may call outside one, is three: `ClearLoops`, `ClearHandle`,
`ClearEnabled`. An interrupt between the last two sends to a null queue, which halts the
program (`halted`).

What may fail does: `EnableInterrupt` stops at the first of the ISR service, the
trigger and the handler; a registration fails, or finds the loop full
(`MaxRegistered`); a custom loop fails to unregister a handler (`stray` is the history
of it); an event loop drops an event at any time, since other events share its queue
(`Post`). `esp_event_handler_instance_unregister` is called with a null instance, as
the one a registration gives is never kept, and does nothing: the default loop keeps
every handler that was ever set. `wanted` is history, the place that was set last.
`LastSetWins` says where the interrupt reports and who is registered there, and of the
custom loop that nobody else is; of the default loop it cannot.

### I2c and Ads1115

`device` says whether the device is on the bus; any transfer may fail, which aborts a
read and is handed to the caller of a write; a read through a handle that is null or
removed is a `crash` of its own. `Ads1115` has a `chip` (external), which converts and
asserts its pin when its thresholds make it a ready pin. `setReadyPin`,
`removeReadyPin` and the destructor are steps (`app`) in the order of their
statements, and so is the event handler (`handler`), on the task of the default event
loop: it reads MUX when it begins, the value next, voltage flag and range when it
calls back. It handles an event once for each time it is registered (`calls`).
`getRaw` without a ready pin polls (`Poll`). `asked` is history: the request that is
under way, if it was made while nothing else was, and no call of the application has
followed. A request is also not watched when `setReadyPin` had failed somewhere
(`PinWorks`) or a `getVoltage` without an answer has left its flag (`unanswered`).
`owner` is who uses the pin: in half of the initial states an application that calls
`GpioInput` in any order, in the other half the converter. `getConfig`, and the
pointer to the configuration the event handler has before the first `getRaw`, are not
modelled.

### IdMap, MatterMap, MatterValue, MatterNode

`MatterMap` is sequences of entries and one operator per method (`ContainsId`, `Get`,
`Subscript`, `Store`, `InsertBlock`): `LowerBound` counts the entries below an id,
which on an ordered vector is `std::lower_bound`. `IdMap` has the same operations
(`Has`, `At`, `Touch`, `Put`, `Over`) on functions. `MapOf` is the vector that keeps a
function. `MapIsFunction` compares the two for every small map, and the theorem
`EveryMapActsAsFunction` for every map, `insert_block` where a block meets the map
with its first ids only. `BlocksKeepTheMap` asks it of any block, as the header does,
and fails past a gap; `MatterNode`, which inserts no blocks, so keeps functions in
place of vectors. The mutex, which only `at` takes, is left out: maps are built before
`start`. Ids are natural numbers: a block that runs past 2^32 is not modelled.
`MatterValue` is a tag, eight bytes and `_typeCreate`; what an assignment writes and a
conversion accepts are tables of kinds; a tag is a kind and whether the value may be
null. `MatterNode` keeps the SDK's data model (`sdkClusters`, `sdkAttributes`) next to
the objects' maps; the three lookups go through the `operator[]` that inserts
(`Touch`). A map's value is the ids an object took from its parents, or `Null`.
`AttributeUpdate` is `attribute_update_cb` with its three lookups and `crash` for the
one that is not tested; the pointer to the SDK's value that it hands to the queued
calls (`matterNode.cpp:70`), which may be gone when they run, is not modelled: the
model's handlers are told which attribute, not its value. `HandleFabricRemoved` runs
later than the `FabricRemoved` it is about, with others in between; the SDK posts the
event after it has taken the fabric out of its table, and creating a cluster that
exists returns it. `FactoryReset` restarts the chip.

## Runs

| Run | Shows | Bounds |
|---|---|---|
| `event_loop` | exactly-once FIFO, mutex discipline, no lost wake-up, the loop is a `SerialExecutor`, every call runs, `enqueue` returns | 2 producers, 3 callables, each queued once; the callables may be queued by the loop itself |
| `zb_network` | outcomes follow `JOINING`, handlers know the truth when all is quiet, retries do not multiply, the node joins in the end; it implements `NodeNews`: every outcome is told to every handler, in order and in turn, and in the end | 2 handlers, 1 application task besides the handlers; one application call, one failure, one incident |
| `zb_time` | the first handler ends up with what the network stored, syncs are conserved, syncing goes on while no message is lost; in the initial states, copies of clusters keep their attributes | 2 handlers, 3 attributes of which 2 known, 2 reads, 1 loss, 1 change |
| `persisted` | the handle is open until a destructor runs, committed values survive, constructors restore them, numbers are only written when new | 1 number and 1 string object, 2 values, 2 reboots |
| `button` | exactly one report per press, a long press was long, a held button is reported, no sleep before the report, handlers have a loop and the timer runs between calls | periods 1 and 2, thresholds 4 and 2, bounce of at most 3 samples |
| `gpio_adc` | the last destination wins, the first answer is that of its request, requests are answered, no pointer outlives its object unless the pin is taken away from a busy device | 2 handlers registered up to twice, 2 inputs, 1 range, event queues of 1; any number of failures |
| `matter` | the objects mirror the data model, a node without fabrics reopens its window; in the initial states, the map is a function and values are read back | 1 endpoint, 2 clusters, 2 attributes; maps of ids 0 to 3, blocks of up to 3, every tag and type |
| `zb_later_handlers`, `zb_monthly_sync`, `zb_mounted_client`, `ads_twice`, `matter_block` | the five disagreements below | as above |

`CopiesKeepAttributes`, `MountedFindTheirAttributes`, `MapIsFunction`,
`BlocksKeepTheMap` and `ValueReadsBack` are statements about pure operators for all
enumerated arguments, which are evaluated once, in the initial states.

Why the bounds are enough for what they are meant to show. Two producers and the loop
task are all the parties of a race on the mutex, and three callables fill one batch
while another is run and a third is queued; the theorems remove the bound. In `ZbNode`
each kind of disturbance (a failure, a leave decided by the network, a call of the
application) happens once and at any time, which gives all their pairwise orders; two
of the same kind do not fit in a short run. Two handlers are the least for a turn; the
theorem on `NodeNews` is for any number. In `ZbTimeClient` two reads and one loss are
the least that let answers overtake and one series end while the other goes on. Two
reboots let a value be saved, lost or kept, and read again. The debouncing ignores
three samples between the old and the new level, hence a bounce of at most three
samples and a rest of at least three; a contact that bounces longer is outside what
the code claims to handle. `IdleWrap` stands for 2^32 and `SleepMs` for 5000 and are
larger than any press of the model. In `gpio_adc` an application and the converter use
at most one handler at a time, so a second handler is enough to tell a stale
registration, and two registrations are the least that a ready pin set twice makes;
with one range a request still differs from another in its input and its unit, and a
second range only renames what `SetConfig` does (it clears the watched request). A
queue of one event shows both a queued and a dropped event. In `matter` two clusters
of two attributes are the least with which a lookup, a feature and an attribute can
meet at one entry and leave another alone; ids 0 to 3 and blocks of three give every
way a block can meet a map: before, after, over, and across a gap. Where a run sets
`CHECK_DEADLOCK FALSE`, the system may really stop: an idle or destroyed loop, a
joined node, a client whose timer series ended, a destroyed converter, a program that
aborted.

## Fairness

- FreeRTOS runs every ready task (weak fairness of each task's steps) and a task
  that keeps asking for `_mutex` gets it (strong fairness of `Lock` and `Acquire`:
  the mutex is enabled again and again and not continuously). Callables return.
- The Zigbee stack answers what it was asked; the network rejects at most
  `MaxFailures` attempts and the radio loses at most `MaxLosses` messages.
- esp_timer timers expire.
- The converter ends a conversion it began; the polling task and the task of the
  default event loop are scheduled. An answer is owed only until the application's
  next call or an abort.
- The Matter task handles its events.
- A stack whose initialisation failed still accepts a steering, as the code
  expects of it: its retry is `joinNetwork` and not a new initialisation.
- Nobody is obliged to call anything: no fairness on `BeginEnqueue`,
  `BeginDestroy`, application calls, losses, spurious wake-ups or incidents.

`PersistedValue` and `ButtonTask` are checked for safety only and state none.

## What is proved

Every invariant and action property that a passing run checks on a state machine is also a
theorem, for any value of the constants that meets the assumptions:

- Tasks, callables, handlers and "nobody" are different values; counters have natural
  bounds; queues and sets the code always has members of are not empty. `Ads1115` has an
  input and a range, `PersistedValue` an empty value and no key of both kinds.
- `ButtonAssumption`: a contact bounces for at most three samples, which is what the
  debouncing masks ignore; the idle time is at least seven polling periods, so that
  the samples of one press cannot add up to it, and the idle counter does not wrap
  before it (5000 ms against 2^32).

Each proof is of one inductive invariant (`IInv`, `ControlCorrect`'s, or the conjunction
named below), with one lemma per action or group of actions; the properties are then
consequences.

**EventLoop** (`EventLoopProofs`): `TypeCorrect`, `LockDisciplineHolds`,
`NoLostWakeupHolds` and `ReturnsOnlyInDestructorHolds` (`taskFunc` returns only in a
destructor, which no run checks) follow from `ControlCorrect`; `FifoHolds` (`posted =
called \o Pending`); `ImplementsSerialExecutor`, the safety part of the refinement, by
step simulation: `Push` is `Accept`, `Invoke` is `Begin`, `CallReturns` is `End`,
`DeleteTask` and the return of `taskFunc` are `Retire`, the rest are stutters.
`LockDiscipline` is not inductive: that the mutex is held in `enqueue`'s section says
nothing about who else believes to hold it. The strengthening says who may hold the
mutex (the holder is in a section, so two tasks are never in one), what `readBuffer`
and `ran` are at each place of `taskFunc` (empty outside a batch; this is what makes
`Swap` keep `Pending`), that a task is in `enqueue` with a callable exactly when `pc`
says so, that only a callable enqueues from the loop, and that `running` is cleared
only after the destructor's callable was queued.

**ZbNode** (`ZbNodeProofs`): `NodeTypes`, `RetryChainsBoundedHolds`,
`OutcomeAfterJoiningHolds`, `QuietHandlersKnowHolds`, `HandlersAgreeHolds`, from
`NodeCorrect`. Attempts are conserved: the boot, steerings, their signals, retries and
tasks about to steer are no more than one plus the calls (`ChainsInv`). A task that
steers has queued its `JOINING` first, so that for each prefix of the queue the
outcomes are within one of the `JOINING`s (`AnnouncedInv`, `PrefixInv`). Only the
Zigbee task tells outcomes, so there is one story of them: each handler was told a
prefix, the queue and the Zigbee task hold the rest, and with the signals not handled
yet the end of the story is whether the node is joined (`StoryInv`). `HandlersAgree`,
which `TellsInTurn` contains and no run checks by itself, compares the n-th outcomes
of two handlers, and `QuietHandlersKnow` looks for a `JOINED` with no `LEFT` behind
it; both counts are what `SequenceCounts` has lemmas about.

`TellsInTurnHolds` is the safety part of the refinement of `NodeNews`, for any number of
handlers and tasks; `NewsCorrect` is its invariant. The obvious one, that the calls of
outcomes in the queue are in turn, is not inductive: a step takes the queue's head
and others add to its end. What each handler has heard, what is
queued for it and what the Zigbee task has still to queue for it make up `news` (`Tells`).
`SuffixInv` says that what the Zigbee task has still to queue for an event is the last
part of a round: it is for the handlers registered last. So, of two handlers, the one
registered earlier is level with the other or one outcome ahead of it, counting the calls
up to any place of the queue (`RoundInv`). Taken at the queue's head, that is `Turn` of
the handler called next (`RunTurn`);
the steps are then matched one by one (`PromiseRun`, `PromiseStep`).

**ZbTimeClient and ZbCluster** (`ZbTimeClientProofs`): `TimeClientTypes`,
`SyncsConservedHolds`, `FirstHandlerUpToDateHolds`, from `TimeClientCorrect`. The
types need that the remote server counts no further than the changes made
(`RemoteBound`). A sync is at one place of its round at a time (`ConservedInv`), given
how many calls of `processSync` each action queues. An attribute the network wrote and
the first handler has not seen is told by a call still queued (`PendingInv`).

**PersistedValue** (`PersistedValueProofs`): `PersistedTypes`, `HandleOpenHolds`,
`SavedSurvivesHolds`, `RestoresSavedHolds`, `NumbersWrittenWhenNewHolds`, from
`PersistedCorrect`. The handle is open before the first destructor because nothing else
closes it (`HandleInv`); what is committed is what was set because an object's value
cannot change between `nvs_set` and `nvs_commit` (`CommitInv`); a number never
carries the NUL that makes a string differ from its copy in the flash.

**GpioInput and Ads1115** (`Ads1115Proofs`): `LastSetWinsHolds` on an application's
pin as on a converter's, `Ads1115Types`, `PointersOutliveEventsHolds`, and the action
property `ReportsTheRequestHolds`. `LastSetWins` says nothing of the state inside
`clearEventHandlers`; `FlagsInv` says at each of its statements which registrations
the flags tell of, and `TurnInv` that on a converter's pin only `removeReadyPin` and
the destructor stop inside it. Without its pointers the converter's pin is silent
(`SilentInv`), and one that was quiet when taken away stays so (`CalmInv`). `AskedInv`
says at each stage of an answer that what is under way is what was asked for, its unit
until the first of the callbacks for it, and `VoltsInv` that the flag of `getVoltage`
is only up while an answer that clears it is coming or cannot come.

**ButtonTask** (`ButtonTaskProofs`): `HandlersHaveLoopHolds`; `ButtonTypes`,
`OneReportPerPressHolds`, `HeldIsLongHolds`, `SleepsOnlyAfterReportHolds` and the action
property `LongWasHeldHolds`, from `ButtonCorrect`. `WindowInv` says at each place of the
contact what the eight samples of `history` can be: how far the levels before the bounce
still fill it and which of the new ones do. `ThresholdInv` bounds the
threshold while the period has changed and it has not.

**MatterNode and MatterMap** (`MatterProofs`): `MatterTypes` and `PopulatedHolds`,
from `MatterCorrect`: an entry is the object of an attribute there is, or a null one
that was asked for early, and every attribute of the data model has an entry
(`ObjectsInv`). `MapActsAsFunction`: on any vector that is in order, `contains`, `get`
and both uses of `operator[]` act as on a function and keep the order.
`BlockActsAsFunction`: so does `insert_block` when the ids of the block the map has
are its first ones, and `BlockKeepsOrder`: in no other case, because an id of the
block behind a gap is then there twice. That is what the run `matter_block` meets, for
every map. `EveryMapActsAsFunction` puts these together for every function over
finitely many ids: it has a vector (`VectorExists`) and no other (`VectorsEqual`), the
one `MapOf` chooses. `MapIsFunctionHolds` is its instance that the run checks. Where
an induction over the search or the number of ids would be used, the least element of
a set is taken (`Least`, from the well-foundedness of the naturals): the first place
not below an id, the least number of ids some function without a vector has.

**MatterValue** (`MatterProofs`): `ValuesReadBack`, for every tag, type, bytes and
`_typeCreate`, and `ValueReadsBackHolds`, the instances the run checks. The tag an
assignment gives is accepted by its own type and by no other (`TagFits`), since each
kind is read by one type (`ReaderIs`).

Only model-checked, and why:

- Liveness, which the proof system does not reach: `EveryCallRuns`, `EnqueueReturns`,
  `JoinsInTheEnd`, `EverybodyHears`, `KeepsSyncing`, `Answered`, `LastFabricReopens`,
  and the fairness part of the refinement of `SerialExecutor`.
- `CopiesKeepAttributes`: `_copyAttributes` is a fold over a list, and what a fold
  gives for every list needs an induction over it, which the installed provers cannot
  instantiate.
- The five disagreements, which are counterexamples.

## Disagreements found

Each is the counterexample of one run; `PROJECT.json` quotes the lines.

1. `zb_later_handlers`: `ZbCluster::postEvent` moves the attributes inside the
   loop over the handlers; every handler but the first gets an empty vector.
2. `zb_monthly_sync`: the next sync of the Time client is scheduled only when an answer is
   handled; one lost message ends the monthly series.
3. `zb_mounted_client`: `getAttribute` of a mounted client looks in the server role: it
   finds nothing, or the attribute of the server beside it.
4. `ads_twice`: handlers of the default event loop are never unregistered. After
   `setReadyPin`, `removeReadyPin`, `setReadyPin` the callback is called twice for one
   conversion, the second time without the unit that was asked for.
5. `matter_block`: `insert_block` past a gap leaves ids twice or out of order.

Also read in the code against its documentation; the models behave so, and no run
checks it:

- `isSynchronized()` is "true if internal clock is synchronized"
  (`zbTimeClusterClient.h:219`); `isSync` is set by any answer, also one without the time
  (`:166`).
- `save()` logs "Same value on NVS, nothing to write" (`persistedValue.h:76`) when
  the value equals an uninitialised variable, for a key that is not in the flash (`:69`).
- An update of an attribute without a handler should return `ESP_OK`
  (`matterNode.h:184`); in a cluster with a handler for another attribute it
  dereferences a null pointer (`matterNode.cpp:69`, `crash` in `MatterNode`).
- `removeReadyPin` promises that the callback is never called again (`ads1115.h:172`);
  removing the ready pin of a busy converter lets the event handler follow null
  pointers (`raced`).
- Copies of mounted clusters, which `zbCluster.h:113` and `zbEndpoint.h:49` make
  possible, dereference what `getAttribute` found (`CopyStops`).

Without a document that says otherwise: a `getVoltage` that fails leaves its flag set,
so that the next raw value is reported in volts (`unanswered` in `Ads1115`); a failure
inside `setReadyPin` is ignored and requests are never answered (`PinWorks`); a Matter
attribute looked up before it exists never gets its object (`asked` in `MatterNode`).

## Not modelled, and why

- `utils`, `zbDebug`, `zbApsData`: logging and printing. The OTA client: its event
  handler is the Time client's without the effects.
- `cppgpio` outputs, `BlinkTask`, the pull-up calls: one register write each. (A look
  at `toggle` shows that it ignores `_active_low`; no document says it should not.)
- `ws2812`: colour arithmetic on floating-point numbers into a buffer that one task
  writes; the asynchronous reader is the RMT peripheral, whose timing is not in the
  code. `modbus`: one blocking request per call, and shifts of the bytes of a word.
- `periodicSoftTask` and a `ScheduledTask` deleted by its owner: both destructors rest
  on what `esp_timer` does with a running callback, which the repository does not show.
- Handlers registered after the node has started, in `zigbee` and `matter`: the queued
  calls hold references to a vector's elements, which a later registration may move.
- `sendCommand` and `setReporting`: their answers are not looked at. The other cluster
  wrappers: as the Time cluster, with other attributes.
- Several `ButtonTask` objects, which share the static locals of the interrupt.
- `Ads1115`: continuous conversion and data rates (the rate is the pace of polling).

## Plan

Done: all modules above; theorems for every invariant and action property of the state
machines, for the safety part of both refinements, and for the map and the value of
`src/matter`.

Left, in the order of their worth: `ButtonTask` twice over one set of static locals;
handlers registered while events are queued; the unit of an answer after a failed
`getVoltage`, once a document says what it should be.
