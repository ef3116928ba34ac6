# eerie_leap_common in TLA+

Models, model checks and proofs for eerie_leap_common, the C++ library the Eerie
Leap boards are built from: Zephyr RTOS, one or more CAN buses, an internal
flash file system, an SD card, analog and digital sensors. The library has no
`main` and no tests; its design documents are `src/src/subsys/cdmp/README.md` (the
CAN device management protocol, CDMP) and
`src/src/domain/script_domain/README.md`. Everything here is translated from the
code; where a document or a comment says something else, that is recorded in
section 5.

Source paths below are relative to `src/src`, those under `libs/` to `src`.
`PROJECT.json` maps every definition that models code to the lines it stands for.

## 1. Files

| modules | what they are |
|---|---|
| `CdmpStatus` | the statuses of a device and the transitions `CdmpStatusMachine` allows; used by the three CDMP models |
| `CdmpNetwork`, `CdmpNetworkProofs`, `CdmpJoiningProofs` | discovery, ID claims, the device table, validation; theorems for any timing, and, for devices that join one by one, that IDs differ and who knows whom |
| `CdmpCommands`, `CommandCalls`, `CdmpCommandsProofs`, `CdmpTransactionsProofs` | commands and their transactions; the abstract specification of a call; theorems, the refinement among them; theorems about transaction IDs |
| `CdmpHeartbeats`, `CdmpHeartbeatsProofs` | the heartbeat task of a device and the entry a peer keeps of it; theorems |
| `ConfigurationStore`, `ConfigurationStoreProofs` | a configuration kept on the flash and on the SD card; theorems |
| `WorkQueue` | a Zephyr work queue with its delayed items and `WorkQueueThread`'s tasks and jobs; used by the next and by `CdmpHeartbeats` |
| `SensorProcessing`, `SensorProcessingProofs` | scheduler, ISR readers, processors, the readings frame, calibration, the application's calls; theorems, with the lemmas about `WorkQueue` |
| `CanBus`, `CanBusProofs` | `Canbus`: handlers, filters, bit rate detection, the bus thread; theorems |
| `Conversions`, which extends those down to `CdmpMessages` | configurations and messages on their way through the representations they take |
| `Wire` | CBOR as tokens with their sizes |
| `SensorsConfig`, `CanbusConfig`, `AdcConfig`, `SystemConfig` | one configuration each: JSON, validator, CBOR structure, bytes, and back |
| `Interpolation`, `Fractions` | both voltage interpolators, in exact arithmetic; the ADC calibrator is in `AdcConfig` |
| `Adc` | the channels of a board's ADCs, their samples and references |
| `CdmpMessages` | the messages of CDMP, their CAN IDs, and frames over a classical or FD bus |
| `ExpressionReader`, `ExpressionCode`, `Expressions` | muparser as `ExpressionEvaluator` uses it: token reader, bytecode with its optimiser, the parser and the loop that runs it |
| `SignalCoding`, `DbcNetwork`, `DbcWriter`, `Dbc` | dbcppp as `Dbc` uses it: signals in frames, from statements to a network, the writer, the wrapper with its index |
| `MdfBlocks`, `Mdf4` | MDF 4 blocks and their links; files, groups, channels and records |
| `MC*` | instances for TLC: values of the constants that a `.cfg` cannot write |

The twelve configurations are the runs of section 5, listed in `PROJECT.json`.
`tlc -config NetworkFaults.cfg MCCdmpNetwork` repeats a run, `tlapm
CdmpNetworkProofs.tla` the proofs of a module. A definition under the comment
"Mutant:" is a plausible bug, not part of any specification: put in the place of
the definition it varies, it makes the property named in `PROJECT.json` fail,
which is how each property was shown to depend on the code it is about.

## 2. The system

### Components

| component | state | operations | modelled |
|---|---|---|---|
| CDMP network (`subsys/cdmp/services/cdmp_network_service`, `models/cdmp_device`, `utilities/cdmp_status_machine`) | status, device ID, device table with heartbeat times, lowest-ID flag, the claim and the discovery under way | frame handlers for discovery and claims; jobs StartInitialization, SendIdClaim, SendDiscoveryResponse, PeriodicValidation; status callbacks | `CdmpNetwork` |
| CDMP commands (`cdmp_command_service`, `command_service/cdmp_transaction_service`) | table of pending transactions, next transaction ID, mark of the timeout task | SendCommand, request and response frames, timeout job, Start and Stop by status | `CdmpCommands` |
| CDMP heartbeats (`cdmp_heartbeat_service`) | mark of the heartbeat task, enabling, handler | heartbeat job, heartbeat frames, Start, Stop, status changes | `CdmpHeartbeats` |
| CDMP service, CAN IDs, messages (`cdmp_service`, `utilities`, `models/messages`) | base CAN ID, thread, work queue | Start, Stop; packing and unpacking | `CdmpNetwork`, `CdmpHeartbeats` (the thread), `CdmpMessages` |
| CDMP state service | | | no: commented out in full |
| CAN bus (`subsys/canbus`) | handlers and filters, bit rate, message queue | register, remove, send, receive interrupt, bus thread, bit rate detection | `CanBus`; lengths of frames in `CdmpMessages` |
| threads, work queues (`subsys/threading`) | queue, delays, tasks, jobs | Run, Schedule, Reschedule, Cancel, Initialize | `WorkQueue` |
| configuration storage (`configuration/services`, managers in `domain/*/configuration`) | configuration and checksum in memory; CBOR file on the flash; JSON document on the card | start, taking in a document, Update, Get | `ConfigurationStore` |
| configuration parsers, validators, CBOR codecs, JSON descriptors (`configuration/cbor`, `domain/*/configuration`) | none | JSON to memory, memory to CBOR and bytes, all ways back | `Conversions` and its modules |
| system configuration (`domain/system_domain`) | device ID, versions, build number | start, update | `SystemConfig` |
| sensor processing (`domain/sensor_domain`), scripts (`domain/script_domain`) | readings frame, tasks, ISR readers, calibration task | processing chain, start, stop, pause, resume, calibration | `SensorProcessing`, `WorkQueue` |
| CAN bus service, CAN commands (`domain/canbus_domain`, `domain/canbus_com_domain`) | buses by channel, their DBCs | saving a detected bit rate, user messages | `CanBus`, `Dbc`, `CdmpMessages` |
| expressions (`subsys/math_parser`, `libs/muparser`) | bytecode, bound variables | check, bind, evaluate | `Expressions` and its modules |
| DBC (`subsys/dbc`, `libs/dbcppp`) | network, indexes | load, extend, index, read, encode, write | `Dbc` and its modules |
| MDF 4 (`subsys/mdf`) | blocks, places on the stream, offsets | build, write, records | `Mdf4`, `MdfBlocks` |
| ADC, interpolation (`subsys/adc`, `utilities/voltage_interpolator`) | references, sample counts, tables | start, configuration, reading a channel, calibration, interpolation | `Adc`, `AdcConfig`, `Interpolation` |
| file systems (`subsys/fs`) | mount point, presence of the card | files, directories, card monitor | the part the storage meets |
| GPIO, Modbus, random numbers, time, display | | wrappers of drivers | no: input and output |
| `libs/nameof`, `libs/eerie_memory` | | | no: third-party, names and placement |

### How they interact

`CdmpService` owns one thread, which starts the services and sets INIT, and one
work queue. Every CAN frame arrives in the driver's interrupt, goes through a
message queue of four entries to the thread of `Canbus`, whose handler wraps it
into a job of the work queue. The status machine calls the status callbacks of the
network, heartbeat and command services synchronously, on whichever thread set
the status. They append jobs: INIT starts discovery, CLAIMING the claim, ONLINE
the validation, heartbeat and timeout tasks. Heartbeats refresh the network
service's table. The application calls `SendCommand` from its own threads.

The sensor services share one work queue and one `SensorReadingsFrame`; readers
feed it from CAN handlers and GPIO interrupts, tasks from the ADC and from
expressions over other sensors' values. Calibration has a queue of its own. The
configuration managers run their file operations as jobs of the system work queue and
wait for each of them, over `FsService` for the flash and `SdmmcService` for the
card, which a monitor thread polls. A configuration is JSON on the card, a C++
structure in memory, a CBOR structure, and bytes on the flash; the parsers lead from one to the
next and back. `CanbusService` loads the DBC files its configuration names, adds
the user's messages, and sensors read frames through the pointers `Dbc` gives them.

### What is hard in it

- **A job that sleeps holds its queue.** Discovery and claims wait for answers with
  `k_msleep` on the one queue that should deliver these answers.
- **One status, many callbacks**, each of which leaves jobs and timers that may be
  stale when they run.
- **Tasks that schedule themselves**, and callers that cancel them while they run.
- **Loss, duplication of identities, power loss** on a bus without a master:
  lost frames, equal UIDs, devices that come back before they are forgotten.
- **Calls that end by an answer, a timeout, a cancellation or a retry**, with eight-bit
  transaction IDs that are reused, and callbacks that call back in.
- **Objects that outlive each other**: readers destroyed with frames in work, handlers removed
  while a frame is handed out, pointers into vectors that grow.
- **Two copies of a configuration** on media that fail separately.
- **Representations that must agree**: sizes computed apart from encoders, decoders
  narrower than readers, validators before and after, bit layouts packed by hand.

`PROJECT.json` lists the hazards one by one, each at its line, with the
properties that would catch it.

## 3. What would make it correct

| component | correct when |
|---|---|
| network | online devices have different IDs; a device that joins comes to an end; the table names the devices that exist; one device is the lowest; an error stops the service for good |
| commands | every call ends exactly once, with an answer that was given to it, a timeout or a cancellation; no call is displaced by another; the timeout job lives as long as the device is online |
| heartbeats | a live device is never forgotten while its heartbeats arrive, a dead one is forgotten within the limit; the task runs when its mark says so, and stays silent after a stop |
| CAN bus | a registered handler gets the frames of its ID, once each; a removed one is gone; the bit rate is found |
| configuration | what was acknowledged is in effect after any restart; a document of the user is taken in; an older state never comes back |
| conversions | what is saved is what is read; what was accepted can be saved and loaded again; what is refused is refused for a reason; buffers suffice |
| sensors | inputs before the sensors that read them; a paused service runs nothing; an ISR reader never goes deaf; nothing is freed in use |
| expressions | an accepted expression gives its meaning, with and without the optimiser, inside its stack; every expression is accepted |
| DBC | every statement is about its object; a signal is its bits; an index points into what is loaded; what is written is read |
| MDF 4 | links lead to blocks; a reader that has only the file finds every record and every value |

## 4. The models

### 4.1 `CdmpNetwork`

State is one record `dev[d]` per device, everything it keeps in RAM under the
names of the members (`table` is `network_devices_`, `requesting` is
`discovery_requesting_uids_`, `lowest` is `is_lowest_id_on_network_`), plus the
work queue: `queue`, the jobs in order, and `sleeping`, the job that holds the
queue in a `k_msleep`. A job is one step up to its first sleep, then one step per
sleep (`StartInitialization`, `WakeInitialization`). Handlers without a sleep are
one step. A frame in the queue is a job whose type tells the handler.

`Send` puts a frame on the queue of every device whose handler is registered.
A send may miss any set of receivers at the cost of one loss, which stands for a
frame without acknowledgement and for one dropped at a full message queue.
`SetStatus` is the status machine: forbidden transitions change nothing,
allowed ones run `OnDeviceStatusChanged` in the same step. `PowerOff` loses the
RAM. `ProcessPeriodicValidation` forgets any stale entries; an entry is stale when its
owner has been gone for nine seconds, or, as one of the losses, when all heartbeats
of a live owner were missed.

Abstracted: the UID comparison decides who yields, the UIDs themselves are small
numbers; delays are sleeps that end at any time (`Timely = FALSE`) or, for the
back-off and claim delays of 50 ms and more, after the traffic they wait for
(`Timely = TRUE`); heartbeats appear as the staleness of entries only and
have a model of their own (4.5).

### 4.2 `CdmpCommands` and `CommandCalls`

A call `c` is one use of `SendCommand`; `From`, `Target`, `Code`, `Retry` say who
makes it, for whom, of what kind, and which call its callback makes at a timeout.
`dev[d].pending` is `pending_transactions_`, `next` is `next_transaction_id_`,
`age` counts the runs of the timeout job a transaction has survived: the job runs
every half timeout, so the third run finds it expired and an earlier one may.
`expired` is the list between the two loops of `CleanupExpiredTransactions`, so
that `SendCommand` of other threads interleaves with it, and a callback that
retries changes the table between two of its turns (`Expire`). `StopTransactions` erases
from the table it iterates over: the iterator is then invalid, and the model takes
every outcome: any non-empty set of IDs cancelled, and the loop left or never
left (`halted`).

`made`, `results` and `answered` are history: what was asked, what the callbacks
were given, what some device answered. `CommandCalls` is the promise: a call is
made, is open, ends once. `Outcome` is the refinement mapping.

Abstracted: a frame names its call, from which target, code and payload follow,
while the code under test matches by ID only; one table operation is atomic
(see hazards); the status changes while no job is half done; a retry is made by the
timeout callback only.

### 4.3 `ConfigurationStore`

One manager (`kind`), its flash file, the document on the card, and `pc`, the
place between two file operations: the constructor (`Load`,
`ApplyJsonConfiguration`), then `Update` as `ChooseCopies`, `OpenDocument`,
`WriteDocument`, `CheckDocument`, `SaveFlash`, `Reload`. Power loss, removal and
insertion of the card (with the user's edits) and the monitor's poll interleave with
all of them, and every write may fail.

A document is what it says and whether its text is the user's; as texts
do not share a checksum, a document is its own checksum. The flash file system
replaces a file when it is closed (littlefs); the card's truncates it when it is opened
(FAT), so that a document can be left `Torn`. The manager of the CAN bus differs from
the other two: it writes the document again when it could not be loaded and takes
a document in by way of a full update.

Left out: callers of one manager from several threads; flash reads that fail; a card
exchanged between the write of a document and its reading back. An
uninitialised `json_config_checksum_` (sensors) is `NoSum`, the checksum of no
document.

### 4.4 `WorkQueue` and `SensorProcessing`

`WorkQueue` has no variables: a queue is a record (what waits, what runs, what is
delayed, what is being cancelled, which jobs are allocated) and its operators are the
kernel's and `WorkQueueThread`'s calls on it. What matters is Zephyr's rule that an item is
queued once at most, that a cancelled item which is running may have set its own timer
again, and that `Cancel` of the library only asks and reports whether the item is gone.

`SensorProcessing` keeps `frame` (the ISR, raw, processed and value maps of
`SensorReadingsFrame`), the processing queue `wq`, the calibration's queue `cq`, the chain of the
item that runs (`chain`: script, reader, expression, script, interpolation), `reader` and `gate` per ISR
sensor (which reader object is alive, its semaphore), and `plan`, what is left of the application call under
way: `Start`, `Stop`, `Pause`, `Resume`, `StartCalibration`, `StopCalibration` are sequences of
steps, because each takes and gives locks between which the queue runs. Readers are made one by
one, in the sensors' order; when a handler is not registered the reader's constructor throws, the
readers before it stay and the rest of the call is not reached (`phase` "failed"). `StartCalibration` may come
while a calibration is active, and its task is then moved over the old one. A value
is there or not, with the set of steps it went through; `bound` is what an expression's variables
point to. `missed` remembers a cycle that a pause cancelled or a read that failed, `faults` what cannot be undone, so
that the properties can say "unless": a use of a destroyed reader ("reader"), a variable bound to nothing or to
freed memory ("null", "dangling"), the exception nobody catches when a sensor without a task reads
another ("unknown", `Unreachable`), a calibration task replaced while it was busy ("calibration").

Some of what the model shows is not in a comment anywhere: a pause right after a start cancels an
input's first cycle, and the expression that is evaluated first then binds a null pointer for good.
Four definitions at the end of the properties state what one might expect and does not hold, though no document says it:
a job is done before its reader is destroyed (`JobsKeepTheirReader`), a calibration that runs is not
replaced (`CalibrationNotReplaced`), nothing outlives a `Stop` (`StopLeavesNothing`: a script may hold a
reading over it and put it back), and every call returns (`EveryCallEnds`: a task sampled every millisecond,
which the validator accepts, can hold the loop of a cancellation). TLC ends with a counterexample when one
of them is added to `Sensors`.

Left out: what the calibrating reader computes, GPIO interrupts, the Lua
state; after a call that failed, anything but a stop; the handler of a CAN reader that gets a frame before its
constructor is through. Bounds: three sensors (an analog input sampled slowly, a fast virtual sensor made from it, a CAN
signal whose script updates the input), two starts, three job addresses. With one CAN sensor a start
fails before or after its only reader; several readers, of which some are made, are covered by the theorems.

### 4.5 `CdmpHeartbeats`

One device and the entry a peer keeps of it. `wq`, `timer`, `running`
(`is_heartbeat_task_running_`), `enabled`, `registered` (the handler) and `status` are the
service; `plan` is `Stop`, taken step by step on another thread; `late` remembers what overtook a stop or
an error. `known`, `age`, `check` are the peer's entry and its validation; `lost` counts heartbeats in a
row that did not come. Time passes in units of 500 ms: interval 6, timeout 18,
validation 10, staggers 0 and 2 units; `TimingAssumption` is what the code's 3000 ms, 9000 ms and
254 × 5 ms satisfy (8540 ≤ 9000): two staggered intervals fit into a timeout.

### 4.6 `CanBus`

Two threads register and remove handlers of two IDs (`call[t]` is where each thread
is: check, filter, add, or find, erase, filter) while the bus thread (`pc`) finds the bit
rate, registers the filters of what was registered before, and hands out frames from
`queue`; `driver` is the controller's filter table, `running` the rate it is started at. `held` is what owners count on,
`odd` names what the code cannot undo once it has happened: `raced` (two threads
found no filter for an ID and both added one), `crossed` (a removal erased the list another thread
had just put a handler into), `leaked`, `taken`, `short` (filters left behind, removed for another ID, or not to be had).
A handler registered before detection is told 0 as its number and can never be removed (`blind`).
One of the IDs is also a filter's number, on purpose: `RemoveFrameReceivedHandler` confuses the two.

Left out: the data phase of FD, `SendFrame` (its lengths are in `CdmpMessages`), the
printing of timing limits. A frame the driver drops for want of room is a frame that is not seen.

### 4.7 `Conversions`

A configuration is `value` in a form `form`: a document is imported
(`json` → `parsed`), or refused; `parsed` → `cbor` structure → `bytes` → `decoded` → `config` in use → back to a
document. `first` is what was accepted first. The device may be switched off
and on again anywhere, with other `files` on its card. Each arrow is an operator of
`SensorsConfig`, `CanbusConfig`, `AdcConfig` or `SystemConfig`: what the parser copies, defaults,
narrows (`% 256`, `% 65536`), sorts, and throws at. `Wire` gives CBOR items the sizes zcbor gives them
(indefinite lengths: `ZCBOR_CANONICAL` is not set), so that `BufferFits` compares the encoder's output
with the sizes the library computes by hand. Texts are a name, a length and whether
they are words. `Interpolation` is in exact fractions; where the code reads before or past its table, it gives
`Outside`. `CdmpMessages` follows one message into a frame, over a bus that pads lengths, to the
handlers that read it. `Adc` is what becomes of an ADC configuration in use: `NewManager` starts the
ADCs of a board, `UpdateConfiguration` and the calibration's sample counts set them up, and
`ReadingOf` is a channel's reading; three boards have one ADC, several with an empty one between them, and
an input that cannot be set up.

What a reader may not expect: a sensor named `x` can never be an input of an expression;
sensors with equal IDs are dropped silently (`sensors_order_resolver.cpp:12`), so
`NothingDropped` is about channels only; a stored configuration whose script or DBC file is missing at the
next start is refused and replaced by the default, which is why `AcceptedInv` is about equal files;
an expression muparser cannot read escapes `catch (const std::exception&)`, and the
device is down at every start until the document is changed; equal voltages pass validation and have no spline
(`CurveHitsPoints` asks for distinct ones); only the ADC calibrator's interior points are exact, because its linear
interpolation is not clamped; a sensor's channel is checked against the board's inputs, and the reader of a channel
that the ADC configuration lacks throws at every start (`adc_manager.cpp:47`, nobody catches it); an ADC that fails to
start is used all the same, and a sample that fails makes a reading of 0; a signal is not checked against the size of its message.

Bounds: about a hundred thousand documents: every graph of three sensors, every combination of one
sensor's members at the validators' limits, every member missing, every variation of a bus, a message
and a signal, all calibration tables of two and three points in any order. UIDs below 2^31 (TLC's integers).

### 4.8 `Expressions`

A text grows token by token over one of seven alphabets. `check` is the parser of the
constructor, which collects names, `bound` the one of the first evaluation; each keeps the
token reader's flags (`ExpressionReader`), the operator and argument stacks and the bytecode (`ExpressionCode`,
with the optimiser's foldings as they happen). `Evaluate` runs the bytecode on a stack of the reserved
depth. `Intended`, in contrast, reads the text's meaning by precedence and brackets, and knows no stack.

Left out: string functions, user-defined operators, bulk mode, the characters of numbers and names, rounding
(values are fractions; too large is NaN). Constant `&&` and `||` of fractions are cut to whole numbers
when folded and not when run: no alphabet has both. Powers are whole from −6 to 6.

### 4.9 `Dbc`

`DbcNetwork` builds a network from a file's statements in the order dbcppp does; `SignalCoding` decodes and
encodes a signal as the code's shifts and masks do, over frames as sets of bits, the bytes beyond a short frame included,
since eight are read; `DbcWriter` writes a network. `Dbc` is the wrapper: `content` and `net` are
the file and the network, the indexes are positions in vectors together with the vector's capacity, so that a
pointer kept over a reallocation is visible. Actions load, add the user's messages,
index one message or all, and register readers.

What a reader may not expect: `ParseFromMemory` drops nodes and bit timing; loading again
clears the messages but not the mark that all are indexed; a read error between
two statements looks like the end of the file; a user's message with a name that exists throws out of
`CanbusService`'s constructor; a signal is decoded whatever the switch of its multiplexer says.
Left out: characters of the grammar, physical values, the writer for people.

### 4.10 `Mdf4`

`MdfBlocks` has the block kinds, their sizes and links. `Mdf4` builds a file (data groups, channel groups,
channels, CAN groups), writes it block by block to a stream that may have no room for the last
ones (`Rooms`), and then writes records. `disk` is what is on the medium: blocks at addresses, the bytes behind them, and
`log`, what the application was told it had written. `Found` reads the records back as a
program would that has only the file. After a file has been written one thing more may be made and the file written again.

What a reader may not expect: the length code of an FD frame overflows its four bits
(`CanFramesRead` asks for eight bytes or fewer there); a record ID is checked for uniqueness in 64 bits and
written in one byte or more; with several data groups only the last one's records follow its data block;
two CAN groups that share a data group count their offsets apart (`AloneInGroup`).
Left out: start times, value limits, data types, `FsServiceStreamBuf`.

## 5. The runs

Some properties of the runs are conjunctions of named ones (in brackets); each part has its
own comment in the module and at least one mutant of its own breaks the whole.

| run (configuration, module) | properties | what it shows |
|---|---|---|
| `network_any_timing` (`NetworkAnyTiming`, `MCCdmpNetwork`) | `InductiveInv`, `TableTruthful`, `ClaimsLowestFree` | two devices, every interleaving of their work queues and sleeps |
| `network_faults` (`NetworkFaults`, `MCCdmpNetwork`) | `UniqueIds`, `LowestFlagExact`, `KnowledgeInv` (`LaterKnowsEarlier`, `LowestKnowsAll`, `OneLowest`) | three devices one after the other, one loss of a frame or of a run of heartbeats, one power loss |
| `network_join_or_error` (`NetworkJoinOrError`, `MCCdmpNetwork`) | `StoppedStaysStopped`, `JoinTerminates` | equal UIDs, incompatible versions and one ID, one loss, with fairness |
| `commands_one_requester` (`CommandsOneRequester`, `MCCdmpCommands`) | `CallInv`, `NoCallLost`, `AnswerIsOwn`, `TimeoutJobAlive`, `CallsImplemented`, `CallsEndOnline` | one device, three calls (to one, to all, a retry), one loss, two status changes, with fairness; the refinement of `CommandCalls` |
| `configuration_faults` (`ConfigurationFaults`, `MCConfigurationStore`) | `InEffect`, `NeverDefaulted`, `NoHiddenEdit`, `Unreverted` | two managers, three starts, two updates, faults of card and flash |
| `sensors` (`Sensors`, `MCSensorProcessing`) | `PausedIsQuiet`, `ReadersInv` (`GateInv`, `JobsAllocated`, `CompletedBounded`), `ValuesInv` (`PublishedComplete`, `StoppedStaysClear`, `InputsArrive`), `CalibrationAlone`, `NothingWaitsForEver` (`CallEnds`, `GateOpens`) | starts that may fail half way, stops, pauses, calibrations that may be started twice, at any moment, with fairness |
| `heartbeats` (`Heartbeats`, `MCCdmpHeartbeats`) | `TaskInv` (`StoppedIsSilent`, `MarkIsTrue`, `OnlineHears`), `ForgottenRightly` (`ForgottenOnlyIfSilent`, `ForgottenInTime`), `NothingStalls` (`SendsForEver`, `DeadIsForgotten`) | statuses, a stop on another thread, disabling, losses, power loss, with fairness |
| `can_bus` (`CanBus`, `MCCanBus`) | `HandlersInv` (`HandlersServed`, `NoDeadHandler`), `HeardOnce` (`RegisteredIsHeard`, `NeverTwice`), `DetectionEnds` | two threads against the bus thread, with fairness |
| `conversions` (`Conversions`, `MCConversions`) | `SavedInv` (`SavedIsRead`, `BuildBelongs`), `AcceptedInv` (`AcceptedStays`, `BufferFits`), `VoltagesInv` (`CurveHitsPoints`, `SplineIsSmooth`, `CalibrationInverts`, `ChannelsAreRead`), `MessagesAreHeard`, `DocumentsAreTaken` (`InputsComeFirst`, `RefusedForAReason`, `NothingDropped`) | four configurations and the messages, all forms |
| `expressions` (`Expressions`, `MCExpressions`) | `EvaluationInv` (`GivesItsMeaning`, `StaysInside`, `CheckedIsBound`), `ExpressionsAreAccepted` | every text of up to six to nine tokens of seven alphabets, four assignments of the variables |
| `dbc` (`Dbc`, `MCDbc`) | `IndexInv` (`IndexPointsIn`, `ReadersFind`), `ReadingInv` (`NothingMisplaced`, `ReadsItsBits`, `EncodedIsRead`, `WrittenIsRead`) | about 1900 files, whole or cut off, with the user's messages |
| `mdf4` (`Mdf4`, `MCMdf4`) | `FileInv` (`LinksPoint`, `IdsDiffer`), `RecordsInv` (`RecordsFound`, `CanFramesRead`) | files built in any order, streams that fill up |

**Bounds.** Two devices show every race between a device and another; the third in
`network_faults` is what makes forgetting and rejoining interesting (one knows what
another has missed). `MaxLosses` counts sends that miss anybody, whichever and how
many receivers, and runs of lost heartbeats; `MaxPowerCycles` power losses. Two
back-offs and one or two claim attempts (3 and 10 in the code) keep every branch
of the loops: first, middle and last turn. `MaxTx` = 4 makes IDs plentiful for three calls;
wrap-around is reached with `MaxTx` = 2. One status change takes a device online and one off;
three starts of the storage are one that leaves an interrupted update, one
that completes or passes it, one that sees what came of it. Two starts of sensor processing
let a reader of the first be alive in a job during the second. `MaxLosses` = 3 in
`heartbeats` lets a live device be forgotten with and without a stagger (after two and three losses). Three registrations
and two threads let two races follow each other on one ID; a queue of two frames (four in the code) is
full with the two frames there are. Texts of six tokens hold two operators of every pair
of precedences with brackets; of nine, three foldings. The layouts of `dbc` are
every start at which the decoder changes its case with every size that does. `mdf4` has two data groups with up to
four groups, enough for equal IDs, for IDs that differ in the second byte only, and for a
shared data group.

**Deadlock** is checked in `network_any_timing`, where validation goes on for ever. Elsewhere the
system may stop: all devices in ERROR; all calls made and no device online;
all starts used up; a stopped sensor service and no reader left; a device without power; all
registrations and frames used up; a configuration refused; a text that is read or refused; a file loaded and
indexed; a full stream.

**Fairness.** Weak fairness of the service thread, of each work queue and of
each timer: Zephyr runs every ready thread in the end (the work queues are not starved,
since the threads above them block on events) and expires every timeout. No
fairness of frames, power, the application or the user. A sleeping job counts as
a step of its queue, because `k_msleep` returns. Two cases need strong fairness.
In `SensorProcessing`, `CancelsInTime`: the loop that cancels a task tries again after one millisecond, so
that it meets the timer of a task that waits for longer, in the end. That is assumed of the calibration, which
waits for a hundred milliseconds (`Kconfig.adc:21`), and of the sensors in the constant `Slow`, whose sampling rate is longer than one
millisecond, and of no others: the validator only asks that a rate is not zero (`sensor_validator.cpp:170`). `CallEnds` therefore
excepts a call that is at a fast task which is busy; the run has a sensor of each kind. In `CanBus`, `TestSucceeds`: a bus with traffic at one of the rates gives a frame within the time a rate is
tested, in the end.

### What the properties say

- `UniqueIds` holds when devices join one after another, even if a frame is
  lost or a device loses power and rejoins, before or after it is forgotten.
- `ClaimsLowestFree`: what a device claims stays the lowest ID its table leaves free while it
  claims (CDMP README:153), since the claim holds the work queue that would change the table.
  The invariant `NoAnswerCounts` is the other side of this, and a departure (below): no answer
  to a claim is ever stored, so ACCEPT, REJECT and VERSION_INCOMPATIBLE have no effect on the claimer.
- `LowestFlagExact`, `OneLowest`, `LowestKnowsAll`, `LaterKnowsEarlier`: what the
  devices know of each other at rest, and the exact conditions; two power losses can
  leave two lowest devices, one can leave the lowest without knowledge of a successor.
- `StoppedStaysStopped` holds although jobs are left in the queue.
- `CallsImplemented`, `CallInv`: whatever late answers, timeouts, retries and
  cancellations meet, no callback is called twice and the timeout job's lookups
  never miss. `NoCallLost` and `AnswerIsOwn` hold for one requester
  with more IDs than calls.
- `CallsEndOnline`, `TimeoutJobAlive`: the timeout job is neither lost nor doubled by
  status changes, so that a call of a device that stays online ends.
- `InEffect`, `NeverDefaulted`, `Unreverted`, `NoHiddenEdit`: at rest memory and flash agree and
  are no older than the last success; the default never comes back; an interrupted
  update is completed or dropped, never dug up later; without faults no edit of
  the user is passed over. Each condition in them is needed: dropping it makes the
  property fail.
- `PausedIsQuiet` is the loop of `Pause` against tasks that schedule themselves; `GateInv` says that one frame at most is
  in work per reader as long as no reader was destroyed under a job, which `Pause`
  can do (`faults`); `NothingWaitsForEver` that every call returns, unless a task is sampled too fast for it, and
  every semaphore comes back. `InputsArrive` says when an expression may meet a value that is not there: only after a missed
  cycle, or when one of its inputs has no task that makes a value.
- `MarkIsTrue`: a task has its mark, always; the mark has its task while heartbeats are never
  disabled, after which it may stay set with nothing behind it. `ForgottenOnlyIfSilent` composes the
  sender's interval and stagger with the peer's limit: three lost heartbeats, but two if a delay in
  between was staggered, which is not what the document says (below).
- `HandlersServed` and `NoDeadHandler` hold up to one interleaving each
  (`crossed`; a registration before detection). `NeverTwice` holds up to two: two threads
  that register the filter of an ID at once (`raced`), and a removal that forgets an ID whose
  filter stays (`leaked`), after which the next registration of the ID adds a second
  one. The second was found by the proof: TLC shows it from four registrations on.
- `SavedIsRead`, `AcceptedStays`, `BufferFits`: nothing a user's document says is changed by the way through memory,
  CBOR and bytes, and nothing that was accepted is refused at the next start with the same files.
- `GivesItsMeaning` compares bytecode, optimised, with the meaning of the text;
  `ExpressionsAreAccepted` is the opposite direction of `NonsenseIsRefused`, which does not hold.
- `ReadsItsBits` compares shifts, masks and the ninth byte with the plain definition of a DBC
  signal; `RecordsFound` compares the writer of MDF files with a reader.

### Where the code departs from its documents

Each of these is stated in its module with the line it quotes, and TLC ends with a
counterexample when the definition is added to a configuration of the module's run, with
the change in brackets.

| definition | what a document, a comment or a message says | what the code does |
|---|---|---|
| `UniqueIds` (`NetworkFaults`, with `Spec` for `OneByOneSpec`) | devices that join together get different IDs (CDMP README:821) | while a device sleeps in its discovery or claim, the frames of the others wait behind that very job: both take the same ID |
| `AnswerEndsDiscovery`, an action property (`NetworkAnyTiming`) | "If no responses received, retry with backoff" (CDMP README:151); the loop breaks on a response (`cdmp_network_service.cpp:143`) | the responses wait in the queue behind the job that sends the requests: all three requests are sent, and :143 never sees one |
| `ErrorIsSilent` (`NetworkJoinOrError`) | a device with a UID conflict "shall enter ERROR status immediately and cease all protocol transmissions" (CDMP README:257) | the claim already queued is not withdrawn |
| `AnswerIsOwn` (`CommandsOneRequester`, with three devices, two calls, `FromBoth`, `AllToTwo`, `AllOnline`, `MaxTx = 2`) | a response belongs to its request | it is matched by transaction ID only, and sent to all: two devices with equal IDs get each other's answers |
| `NextIsFree` (`CommandsOneRequester`, with `AllOnline`, `MaxTx = 2`) | "Skip transaction ID 0 and find next available" (`cdmp_transaction_service.cpp:49`) | after a full table, an open call is replaced although IDs are free |
| `StopCancelsAll`, an action property (`CommandsOneRequester`) | leaving the bus cancels the calls | it erases from the table it iterates over, and may leave some |
| `ForgottenAfterThree`, an action property (`Heartbeats`) | "missing 3 consecutive = presumed offline" (CDMP README:280) | the timeout is three intervals (`constants.h:14`), the delays are an interval and a stagger: after two lost heartbeats a validation can come before the third |
| `EnabledSends` (`Heartbeats`) | "Heartbeat enabled" (`cdmp_heartbeat_service.cpp:128`) | the handler that finds heartbeats disabled ends the task and leaves its mark set (:131-135); enabling them again starts no other (:126) |
| `ScheduledSensorsCreate` (`Sensors`, with `v` a `USER_ANALOG`) | a user sensor whose script lacks `create_sensor_value` "will not be added to the schedule" (`script_domain/README.md:33`) | it is scheduled (`processing_scheduler_service.cpp:98-109`) and read without a value (`sensor_reader_user_value_type.cpp:41-46`); its script may give it one later, which is published without its formula |
| `ClaimAnswerAsDocumented` (`Conversions`) | ID_CLAIM_RESPONSE has eight bytes: the claimer's UID in bytes 3 to 6, the result in byte 7 (CDMP README:206-210) | four bytes, the result in byte 3, no UID (`cdmp_id_claim_response_message.h:36-45`); `MessagesAreHeard` therefore leaves the UID out |
| `StatusAnswerAsDocumented` (`Conversions`) | the answer to a status request has status, version and health in bytes 3 to 5 (CDMP README:412-414, `cdmp_command_response_message.h:51-53`) | they are in bytes 4 to 6, after the result code (`cdmp_command_response_message.h:34-43`) |
| `UnitsFit` (`Conversions`) | "Unit cannot be longer than 32 characters." (`canbus_configuration_validator.cpp:334`) | the name is measured (:329) |
| `FilterRemoved` (`CanBus`) | "// Remove filter" (`canbus.cpp:276`) | the CAN ID is passed where the filter's number is asked for (:278) |
| `BitrateSaved` (`CanBus`) | "Bitrate for bus channel %d updated to %d bps." (`canbus_service.cpp:76`) | the configuration just read is saved again, without the rate |
| `NonsenseIsRefused` (`Expressions`) | "to avoid unexpected end of formula" (`muParserTokenReader.h:103`) | `a , -` is accepted: the flags after a sign lack `noEND` (`muParserTokenReader.cpp:593`) |

Without a definition of their own:

- VERSION_INCOMPATIBLE never takes a device to VERSION_MISMATCH (CDMP README:195, 225);
  theorem `AnswersNeverCount`, and `JoinTerminates`, which knows only ONLINE and ERROR in
  a run with two versions.
- Calls made before ONLINE never time out (README:648): the timeout job runs only
  online. `CallsEndOnline` is stated with that condition.
- No retries exist in the command service (README:446-450, 826).
- `CdmpService::Stop` (`cdmp_service.cpp:93`) and `~Canbus` join threads that never end.
- Storage: a failing `fs_close` is reported as success; a first start overwrites, with the default, a
  document it has not read, an update overwrites
  an edit made since the start; an apply that fails leaves the document's checksum in memory;
  if saving a document fails and the older one can still be read, the flash
  records the older one's checksum with the newer configuration; after an update
  without the card, an interrupted older one on the card is taken in. On
  a flash file system that truncates at open, a power loss would lose both copies.

## 6. The proofs

Every theorem holds for every value of the constants, under the assumptions the
modules name (`UidAssumption`, `CallAssumption`, `ConfigAssumption`, ...): any number
of devices, calls and configurations, any bound on losses, power cycles and faults.

**Network.** `TypeOK` is not inductive. `InductiveInv` adds, for each device
by itself, what its sleeping job implies (`SleepInv`), that joining is one thread of
control, queued or asleep at most once (`JoinInv`), and the same of the
validation task (`ValidationInv`). The other devices appear only as frames, which
the types bound. `CdmpNetworkProofs` therefore proves lemmas about operators on one
record (`Enqueue`, `Stop`, `SetStatus`, ...), lifts them through `Become` and `Send`, and
has one lemma per action. `Invariance` gives `TypeCorrect`,
`AnswersNeverCount`, `LowestFlagCorrect`, `StopIsFinal`, and `ClaimsLowestFreeHolds`: a step of
another device only sends a frame (`OthersLemma`), and of the device's own steps, two make a claim.

`TableTruthful` speaks of two devices, the one that keeps an entry and the one it names. The
entry was read from a frame, so `Truthful` says of the frames still in the queues what the
property says of the tables: the ID they carry is one their sender has or claims. It lasts because an ID is
not given back (`OneClaim`: who has an ID has no joining job left). A loss of power gives it back,
so the theorem ends with the first one.

**Joining.** `UniqueIdsHold` and `LaterKnowsEarlierHolds` are about `OneByOneSpec` with `Timely`, that is,
the bring-up the protocol is used with; without either the IDs do collide (section 5). Devices
may lose power and come back at any time. The invariant, `JoiningInv`, holds as long as fewer sends were lost
than a discovery has requests: with as many, each request may miss the same device. One device joins at a
time, and while one starts the others are quiet. `Meets` says what a joining device knows of an online
one: after each request, either it has the ID, or the answer is in its queue, or it is asked
for and the other has yet to answer, or each request so far has cost a loss. The last request
leaves only the first two, and an answer in the queue stands before the job that
chooses the ID (`HasInTime`). The frames and entries for that ID name its owner, so that the answer is not passed over
for an ID already known. One of the lemmas shows that a step that `Moves` its device as it should keeps `Meets`
between all of them, whoever hears what it sends (`StepsMeet`); the others show that each action is such a step.

`KnowledgeHolds` is about what that bring-up leaves in the tables when nothing was lost, power losses apart: the whole
of `KnowledgeInv`, of which `LowestKnowsAll` and `OneLowest` need a second invariant, `KnowInv`. Three
facts carry it. The first is that an ID is chosen as the first that the chooser's table leaves free (`SoundInv`), and what it was told
is true but for one power loss (`ToldInv`): so an online device knows all lower IDs, which are all taken, or with one
loss at least one of two or more (`LowerInv`). The second is that a device that knows no ID below its
own but the one claimed takes itself for the lowest, and therefore files the claimer: it knows the ID, or the claim is in
its queue (`HeedInv`). The third is that the flag by which it decides is up to date whenever it has a claim to decide; it is not
between going online and the first validation (`GoOnline` does not refresh it), but then the network is
quiet and nobody joins (`FlagInv`). At rest, the lowest device has ID 1 without a power loss, so that the second
fact makes it know all; and of two that take themselves for the lowest, the larger ID would know a lower one,
by the first fact from ID 3 on, and by the second for ID 2. Again one lemma shows that a device that `Learns` as it should
keeps the invariant (`LearnsKnow`), and the others that each action is such a step.
The hypotheses, besides `Timely`: the UIDs differ, so that no device hears its own from another
(`HearsayInv`), which would take it into ERROR; and all devices speak one version. The latter is needed: with `MixedVersions` TLC finds `KnowledgeInv` violated, since the
lowest device answers VERSION_INCOMPATIBLE, does not file the claimer, and the claimer goes online all the same
(section 5).

**Commands.** Every action is a step of the calls, of the tables, or of both, of one
device: the lemmas say so per action. `CallInv` (a filed call was made by this
device, has no result, is filed once; what has expired is still filed) is
inductive with `TypeOK`. From it, every step changes the outcome of a call only along
`Course`, which is `Refinement`: the specification implements `CommandCalls`.
It needs no bound on calls against `MaxTx`: a replaced call is "lost", which
is an end.

`CdmpTransactionsProofs` is about what needs more. `TimeoutJobAlive` follows from `OneTimeoutJob`: the job is queued, delayed
or between two callbacks, in exactly one of the three while the device is online. `NoCallLost` needs that the ID
handed out next is free. That is so while a device with calls to come keeps one more ID free, and therefore with no more calls
than IDs (`NoCallLostIfFew`); after a full table the search for an ID ends where it began, and the open call there is
replaced. `AnswerIsOwn` needs that an ID means one call: one device calls, and its IDs do not come
round; then the IDs are handed out in order, and every frame under way carries one handed out before
(`AnswerIsOwnIfOneCaller`). Both conditions are needed (section 5).

**Configuration.** `InductiveInv` is `NeverDefaulted` with four parts: the memory
follows the flash (`MemoryInv`), the flash holds the acknowledged configuration or
a later one (`FlashInv`), what the device wrote to the card is no older or is
vouched for by the flash's checksum (`CardInv`, which is why the checksum must be taken over
with the document), and a checksum of a user's document is only that of
one taken in (`EditInv`). One lemma per action; `UnrevertedHolds` is an action
property proved from `CardInv`.

**Sensors.** `InductiveInv` adds to the properties what makes them last. A call
of the application is a sequence of steps, so the invariant says what is left of one:
steps of that call in their order (`PlanInv`); the samples count of the ADCs is that of
the calibration exactly between two steps of two calls, and no task is busy in between
(`CalibrationInv`). While the loop that makes the readers has not come to a sensor, the sensor has none, and no job of
this start (`NotMade`). The stage belongs to the item that runs, so that a stage of a task is
never met while a job runs (`StageInv`), an item waits once at most, a job is on the heap from `Run`
to the end of its handler (`QueueInv`), and jobs of earlier starts have smaller numbers than
readers of this one (`ReaderInv`). `SensorProcessingProofs` first proves
what each operator of `WorkQueue` does to a queue whose items are distinct (`SubmitIs`, `TakeIs`, `CancelIs`,
`RunnerDoneIs`, ...), and what the calls' sequences of steps are for any order of the sensors
(`PositionsAre`, `Chained`); then `ItemWorks` treats the eleven actions of a chain at
once, `QueueMoves` the actions of the queue's thread, `PlanMoves` the steps of calls. `PausedIsQuiet` is the loop that cancels a
task: each turn makes no task busy, and the last one found the task idle.

`ValuesInv` has an invariant of its own, on top of that one (`ValuesInductiveInv`). What the item in hand
carries, and what is in the frame for it, has come as far as the stage it is at
(`ChainOf`, `Reached`): a status, and with it whether the value is interpolated and
evaluated; nothing that says it is processed is half-made, wherever a script or a job of another sensor puts it
(`FrameInv`, `Consistent`). A stop ends with the step that clears (`ClearedInv`),
and after it only a job runs, which `LeavesTasks` keeps off the tasks' readings but
for those in the hands of a script (`InHands`). For `InputsArrive`, a task has its
turn only when the values it reads are there: tasks are scheduled behind those of their
inputs (`InputsFirst`, from `OrderAssumption`), stay behind them in the queue
(`InTurn`), and leave a value when their turn is over (`Delivers`), unless a
cycle was missed. `WorkKeeps` treats the stages of a chain, `JoinsBehind` what enters the queue,
`CallStepStays` the steps of calls that leave the queue alone.
The theorem has no hypotheses but the validator's. A sensor that is read without a value (a virtual one, or one
of the user's whose script does not create it) passes the expression stage untouched if its formula
needs the value, and a script may give it one afterwards; `Passes` and `StatusAt` say which readings
those are, `Makes` which tasks leave a value after every cycle, and `NullsExplained` is what `InputsArrive` rests on for the others.

**Heartbeats.** `TaskInv` is inductive with the state of the item (`CancelInv`), the steps left of `Stop` (`StopInv`), and what an
undisturbed device is (`UndisturbedInv`). `ForgottenOnlyIfSilent` needs the arithmetic of `AgeInv`: when the next heartbeat is
due, the entry is no older than half a timeout for each of the last one and the lost ones; `TimingAssumption`, that two staggered
intervals fit into a timeout, is what makes it inductive. `ForgottenInTime` follows from `PeerInv`.

**CAN bus.** A registration is a token: the call that makes it, the entry in the table and the owner who
holds its number mean the same place (`TokenInv`). `HandlersServed` follows because a number is given to one token only
as long as its list is not forgotten (`ServedInv`); `RegisteredIsHeard` from the detection's phases (`DetectionInv`) and where a filter
may be: in the driver, on its way there in a call, or awaited from the bus thread (`FilterInv`,
`SettledInv`); `NeverTwice` from one filter per ID (`OnceInv`). The library's rates, filters and queue are
any that `CanBusAssumption` allows.

**Only model-checked**: liveness (`JoinTerminates`, `CallsEndOnline`, `NothingWaitsForEver`,
`SendsForEver`, `DeadIsForgotten`, `DetectionEnds`), which is out of the prover's reach; and the properties of 4.7 to 4.10.

The models of 4.7 to 4.10 have no theorems. `Wire` and the configurations
above it, `Expressions`, `Dbc` and `Mdf4` are about data: what they say is that a pure
function agrees with a reference, by recursion over trees, texts, bits and blocks, which is
out of the prover's reach (induction over data, `RECURSIVE` operators), and stays with TLC.

## 7. Not modelled

- `cdmp_state_service`: commented out in full. `WorkQueueLoadBalancer` and `Network2DBC`'s
  printing for people: nothing calls them.
- The ADC emulator and simulator: made-up values for tests. The emulator looks for a channel's ADC by adding where
  `AdcManager` subtracts (`adc_emulator.cpp`), which only a second emulated ADC would show.
- GPIO, Modbus, random numbers, time, display: calls of drivers, without state that could go wrong.
- Drivers, the kernel and the file systems below the library: modelled from how the
  library uses them, and marked external in `PROJECT.json`.
- `libs/nameof` and `libs/eerie_memory`: third-party; names and placement. Of muparser and dbcppp, what the library
  does not use: bulk mode, string functions, integer parser, the C interface, the characters of grammars and numbers.
- `FsServiceStreamBuf`, directories, formatting and free space of file systems; the Lua
  state; the exponential filter, one line of arithmetic.
- Timing beyond order (except in `CdmpHeartbeats`), memory exhaustion, C++ undefined
  behaviour other than the outcomes named above, callers of one configuration manager from several threads.
- Hazards known and covered by no property, for the same reasons: a table change of `SendCommand` in the middle of the
  work queue's (`cdmp_transaction_service.cpp:62`), the
  discovery requests an online device files and never forgets (`cdmp_network_service.cpp:170`),
  cards exchanged between writing a document and reading it back.

## 8. Plan

Done: the models of section 4, the proofs of section 6. To come:

- an abstract queue, of which `WorkQueue` and the queues inside the network and command models are
  shown to be implementations;
- the system configuration manager as a fourth kind of `ConfigurationStore`.
