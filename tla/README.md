# A TLA+ model of modpoll2mqtt

modpoll2mqtt is a gateway: it polls registers of Modbus devices over one serial
or TCP bus, publishes their values over MQTT, and accepts commands from MQTT
that read or write registers. This directory holds TLA+ modules that model its
control logic, configurations that check them with TLC, and proofs checked by
TLAPS. Paths are relative to `src/`; `PROJECT.json` maps every definition to
the lines it models.

## 1. The system

### Threads and shared state

There are two threads.

- The **owner loop**, `app()` in `modpoll/main.py`, is the only user of the bus.
  It polls every `--rate` seconds, publishes, executes received commands, writes
  snapshots and diagnostics. Each of these is a plain call; bus operations go
  through `ModbusConnectionManager.execute(callback)`.
- paho's **network thread** runs the callbacks of `modpoll/mqtt_task.py`:
  `_on_connect`, `_on_message`, `_on_publish`, `_on_disconnect`. It reconnects
  by itself.

They share the receive queue and its byte count (under `_rx_lock`), the queue of
rejections and the wakeup event (not under it), the list of pending
publications (under `_pending_lock`), and counters that the owner compares with
what it saw last (`publish_errors`, `connection_generation`). Outside the
process are the bus, the broker, the clients that send commands, signals, time.

### Inventory

| component | state | operations | correct when |
|---|---|---|---|
| Modbus connection manager, `modbus_connection.py` | state, backoff deadline and delay, age of the connection, counters | `execute`, `ensure_connected`, `close` | the bus is left alone during backoff, the delay grows and resets as promised, state and counters never contradict each other, service resumes when the bus does |
| poll cycle, `main.py`, `modbus_task.py`, `modbus_models.py` | values, `pollSuccess`, failure counts, disabled blocks and their retry deadlines | `begin_poll_cycle`, `ModbusHandler.poll`, `Poller.poll`, autoremove and recovery | no old value is published as new, success means everything was read, autoremove counts exactly, no block starves |
| MQTT receive queue, `mqtt_task.py` | queue, byte count, rejections, wakeup event | `_on_message`, `_reject`, `receive`, `wait` | limits hold, no message is lost or handled twice, no sleep on queued work |
| publishing on change, `modbus_task.py`, `mqtt_task.py` | remembered payloads, two remembered counters | `publish_data`, `publish` | subscribers end with the current values, whatever was lost or rejected, and publishing then stops |
| command dispatch and cache, `main.py`, `commands.py` | remembered results and their bytes | `_handle_command`, `RequestCache.lookup`, `save` | a repeated request is not executed again, the cache stays in its limits |
| write path, `reference_write.py`, `modbus_task.py` | outcomes of a command, device counters | `write_references` | validated before anything is written; the outcomes reported are true; expiry and stop are respected |
| read path, `reference_read.py`, `modbus_task.py` | outcomes, counters | `read_references`, batches | each reference decoded from its own registers, alike in a poll and in every get |
| MQTT session, `mqtt_task.py`, `main.py` | connected, closed, pending publications, retained status, exit status | `start`, `connect`, `publish`, `flush`, `close`, the last will | presence is true in the end after crashes, reconnections and shutdown; `--once` reports failures |
| owner loop scheduling, `main.py` | deadlines of polls and diagnostics | the loop | periods are kept, overruns cause no bursts, commands do not starve polls |
| configuration, `configuration.py`, `modbus_models.py` | while parsing: the current device and poller; then devices, pollers, references | `parse_config` row by row, `load_configurations` | a reference is bound to the device it was written under and to a block that covers it; names are unique |
| register codec, `register_decode.py` | none | decode, encode | encoding and decoding are inverse |
| snapshot export, `export.py` | a temporary file, the destination | write, fsync, replace | a reader sees a whole snapshot, also after a power loss |
| diagnostics; command line, transport setup; types, utilities | none of their own | | |

How they meet: the loop calls `manager.execute("poll", handler.poll)` for each
handler (one per configuration file), then `publish_data` and the export; it
takes at most one command per round from the receive queue and executes it with
`_handle_command`, which calls `manager.execute` again. `publish_data` and
`_handle_command` publish through the session, whose errors and reconnections
come back to `publish_data` through the two counters.

What is hard to test is listed in `PROJECT.json` under `hazards`, each with its
line: the clock read before a blocking call, the state a half-done poll leaves
behind, wakeups and budgets under two threads, acknowledgements that come after
the value was remembered, commands that expire between two writes, presence
when a reconnection meets a shutdown.

## 2. Modules

| module | models | composed of |
|---|---|---|
| `BusAccess` | abstract: what the connection manager promises, a circuit breaker | |
| `ModbusConnection` | the connection manager | implements `BusAccess` |
| `ModbusConnection_proofs` | theorems about it | `ModbusConnection` |
| `PollCycle`, `MCPollCycle` | the poll part of the loop, `ModbusHandler.poll`, `Poller.poll` | uses `BusAccess` in place of the manager |
| `PollCycle_proofs` | theorems about it | `PollCycle` |
| `CommandQueue` | receive queue, rejections, wakeup, under two threads | |
| `CommandQueue_proofs` | theorems about it | `CommandQueue` |
| `OnChangePublisher`, `MCOnChangePublisher` | `publish_data` with `--mqtt-on-change` and the broker behind it | |
| `OnChangePublisher_proofs` | theorems about it | `OnChangePublisher` |
| `RequestCache` | the cache, as operators on a record | |
| `CommandDispatch`, `MCCommandDispatch` | `_handle_command`, `write_references`, outcomes of `read_references` | extends `RequestCache` |
| `CommandDispatch_proofs` | theorems about it and about the cache | `CommandDispatch` |
| `MqttSession` | connection, presence, flush, exit status of `--once` | |
| `MqttSession_proofs` | theorems about it | `MqttSession` |
| `CyclePacing` | abstract: poll cycles are not bunched | |
| `SnapshotExport` | `export_snapshot` and the file system | |
| `OwnerLoop` | the loop of `app()`: deadlines, diagnostics, commands, waiting, export | instantiates `SnapshotExport`, implements `CyclePacing` |
| `OwnerLoop_proofs` | theorems about it | `OwnerLoop` |
| `RegisterCodec` | byte and word order, as operators | |
| `Configuration` | `parse_config`, `load_configurations` | extends `RegisterCodec` |
| `ReferenceAccess`, `MCReferenceAccess` | decoding of polls and gets, writes to coils and registers, another bus master | extends `Configuration` |
| `ReferenceAccess_proofs` | theorems about `RegisterCodec`, `Configuration`, reads and writes | `ReferenceAccess` |

Conventions. Variables and actions have the source's names where TLA+ allows.
An action is a stretch of code that the other actor cannot be seen to
interrupt: the owner is cut where it blocks (a connect, a request, a wait) and
where the network thread may change what it reads. A definition commented
`Mistake:` is a plausible bug, used to show that a property can fail; no
specification uses it. "history" variables record what properties need and
the code does not keep. Python's `None` is the model value `NONE`. The MC
modules only name values.

### Connection manager

`execute` is `ReuseConnection` or `StartConnect` followed by `ConnectSucceeds`
or `ConnectFails`, then `CallbackReturns` or `CallbackRaises`. Clock readings
are kept relative to the present (`backoff_left`, `connected_age`,
`attempt_age`), so the state is finite and `Tick` is the only clock. The `now`
that `ensure_connected` reads before `client.connect()` is `attempt_age`: this
is what makes a slow connect visible. `access` is the refinement mapping to
`BusAccess`.

### Poll cycle

A value is `"fresh"` (read in this cycle), `"stale"` (left over) or `"none"`.
`BeginCycle` is `begin_poll_cycle` of every handler; `EnterPoll` the same for
one handler, as `poll()` repeats it. `PollAnswered(got)` is one block that
comes back with the references in `got` decoded (an error response, a short
block and undecodable data are all smaller `got`); `PollRaises` is the exception
path, which has its own copy of the bookkeeping and abandons the handler.
`Refused`, `ConnectFails` and `Bus!...` are `execute` seen through the breaker.
A block without readable references is left out: it can make a device count as
polled with no value (publishing then skips it, see `SkipEmpty` below).

### Receive queue

The owner's critical section is two steps, `Get` and `Release`, because
`_on_connect` and rejections of retained messages set the event without the
lock, while the owner holds it. A message is its
arrival number with a size and an age; `Sizes` has one that fits with others,
one that is large enough to be dropped without a rejection, and one too large
for the limit.

### Publishing on change

The two counters only grow, so the model keeps whether each has grown since it
was last looked at. `Publish` is `MqttHandler.publish` of one topic. The network
actions fall between any two steps of the owner. `Settle` says that from now on
nothing changes and nothing fails; `calm` is for the liveness properties only.

### Commands

`Accept` ... `Answer` are `_handle_command` for one device. `Tick`,
`CommandExpires` and `Stop` fall anywhere, also between the check before a write
and the write (`CheckWrite`, `WriteAnswered`/`WriteRaises`). `results` is what
the client is told, `issued` and `applied` what happened on the bus. `open` is
the balance of the counters `setCount - setSuccess - setErrors` (and for get):
`BeginGet` and `BeginWrites` open it as the read and the write path count a
command, `GetReturns` and `FinishWrites` close it, and after a transport failure
`CountFailure` has to know whether the command was counted already.
Requests that do not parse are answered and change nothing (an expired one is
`RejectExpired`, for the expiry of the cache); one for an unknown device is
rejected whole and saved, which is what `Refuse` does to the state.
An entry of the cache is an identifier: the digest only chooses which answer a
repeated request gets.

### MQTT session

`out` is what was accepted and not answered, in the order of `publish()`. That is
not the order in which the broker receives it after a reconnection: paho calls
`_on_connect` first, so the `online` it publishes goes ahead, and only then sends
the publications of earlier connections again (`Resend`). `older` says how many
those are, `ahead` how many of the others went before them; `Sent` is what the
broker may have received in the end, `FirstSent` what it answers next. `session` is the broker's view of the
connection: it outlives `connected` until the broker notices (`BrokerNotices`,
or `Connack` taking over), and then the last will is published. `on_connect` is
the gap between paho counting itself connected and the callback. `stop` is the
event that a signal sets.

### Owner loop and snapshot

`phase` says where a round of the loop is. `poll_due` and `diag_due` are
`next_poll` and `next_diag` minus the clock. An operation that takes time has a
`budget` of ticks, of which it uses any number: `Tick` is enabled in it only.
What a poll, a command or the queue does inside is left to the other modules;
`Take(n)` is `receive()` taking `n` messages, the last of which may be a
command, the others having expired. `ReadClock` keeps the one comparison that the
code makes with a clock reading that may be old by then: `diag_seen`.
`CrashAndRestart` may fall anywhere.

`SnapshotExport` follows `export_snapshot` call by call. `disk` is the set of
contents that a power loss may leave under the destination's name: a rename that
was not written back yet leaves the old or the new one, and a file that was not
synced is torn. Contents are `"new"` (of this cycle), `"old"`, `"torn"`,
`"none"`.

### Configuration

One action per kind of row, each with the checks of the constructors it calls,
so a row that fails any of them is `RejectRow`. The code takes the current device
to be the last one and keeps the current poller in a variable: that is the
`poller` variable here, a pair of a device's and a poller's number. `EndFile` is
what is checked when a file is complete, together with the check of device names
across files in `load_configurations`. Whether two references would share a
payload key depends on the text of names and units; the sets that would are the
constant `Collisions`. A cell that is no number never becomes a row
(`RowAssumption`).

### Codec, reads and writes

A byte is a function from bit numbers, so `ByteBits` may be small; a word is a
pair of bytes. The operators do not look at what a bit is. Reads use this: the
response of a slave holds the *names* of cells `<<slave, table, address, bit>>`,
and a decoded value is made of the cells it came from, whatever they hold. So
`ReadsAgree` compares where a value comes from, not one example of a value.
`OwnValue` says where it should come from without using the decoder.

`StartWrite` is the request as it is accepted and, for a bit of a register with
the read-modify-write strategy, the read; `WriteConfirmed` is the write carried
out by the slave. `OtherMaster` falls in between. `others` is what memory would
be without the write, `touched` the cells the other master changed meanwhile.
With the mask strategy the slave merges at once, with its present value.

## 3. Runs

| run | instance | shows |
|---|---|---|
| `connection` | base 1, maximum 5, age 3, connect up to 3 ticks, counters to 5 | consistency, exponential backoff, agreeing counters, pacing, refinement of the breaker, service resumes |
| `poll_cycle` | two files, three blocks, two devices, recovery off or after one tick | freshness at publication, success implies all read, exact autoremove, no starvation |
| `command_queue` | 4 arrivals of 3 sizes, 2 places, 4 bytes | byte budget, wakeups, one fate per message, everything answered |
| `on_change` | one device, two references, grouped and single | honest cache, convergence, rest |
| `command_dispatch` | 7 requests, 3 identifiers, cache of 2 entries and 3 bytes | no replay, truthful outcomes, validation first, at most one late write; `TypeOK` includes the accounting of the cache and of the counters |
| `session` | room for 3, 2 data publications, `--once` or not | presence and exit status |
| `owner_loop` | rate 2, diagnostics off or every 3 ticks, polls up to 5, commands up to 3, diagnostics up to 1, queue of 2 | bounded lateness, no bunched cycles (refinement of `CyclePacing`), whole snapshots |
| `registers` | every choice of six rows out of eleven, in two files; bytes of two bits; one write, one change by another master | references bound as written, polls and gets agree, writes exact |
| `connection_stale_clock` | connect as long as the delay | **violation** of `FailedConnectBacksOff` |
| `session_close_race` | as `session` | **violation** of `CleanShutdownIsOffline` |
| `session_once_exit` | as `session` | **violation** of `OnceSuccessMeansAccepted` |
| `session_full_queue` | room for 2 | **violation** of `OnlineOnEveryReconnect` |

Why these bounds are enough. Maximum 5 with base 1 makes the doubling reach the
cap from a value that is not a power of two, and a connect may last as long as
a delay. Three failures disable a block, so streaks are counted to three; two
handlers and two blocks in one of them give a block after an aborted one, and
a handler after a refused one. Two places and four bytes let the queue be
full by count and by bytes separately; four arrivals are two more than fit.
Cache of two entries and three bytes: eviction by count, by bytes, by age, and
of an entry longer than the cache (the get of four names). Three places in the
transmit queue hold a cycle of two and one status; with two the status finds it
full, which is the violation run. A poll of 5 ticks overruns two periods of 2,
and together with a command overruns a diagnostics period; deadlines are then
late in every order. Six rows are the shortest configurations with two devices
that each have a block and a reference, or one block with four references; the
eleven rows have two orders of bytes and words on registers, coils with a block
that is no whole number of groups, and references that touch, overlap or contain
one another. No accepted choice of them makes a get of two batches in one block;
that case is in the theorem `ReadAlike`. A byte of two bits distinguishes byte, word and bit order (a word has
four bits), and two coil groups need few coils. One write is enough because the
next starts from any memory the properties allow, and nothing else of a write is
kept. `CounterCap`, `MaxArrivals`, `MaxData`, `MaxRows`, `MaxWrites` and
`MaxChanges` are bounds of the model only, and `MaxPoll`, `MaxDiag` and
`MaxCommand` stand for the timeouts of the bus; the other constants are parameters
of the program.

Deadlock is not checked: every system here may end (a signal, the last
message, `--once`). That nothing blocks for ever before is what the liveness
properties say.

Fairness. The owner loop always goes on: `wait` sleeps at most 0.1 s, connects
and requests have timeouts, `flush` has one (`WF` on the owner). Time passes.
paho's thread runs, reconnects and calls back; the broker answers what it
receives and finds dead connections by the keepalive. Nothing is assumed of
failures, signals, crashes, arrivals or of a connection staying up: properties
that need a healthy bus or a calm network say so in their premise.

## 4. Disagreements with the documentation

- **Backoff after a slow connect** (`connection_stale_clock`).
  `ensure_connected` reads the clock, connects, and passes that reading to
  `_record_failure`. If the connect blocks for the delay or longer, the deadline
  is already past and the next operation blocks in connect again, where the
  documentation promises a non-blocking backoff. What does hold, for all delays,
  is `ReconnectsArePaced`: attempts *start* at least a delay apart.
- **Presence after shutdown** (`session_close_race`). `close()` publishes
  `online=false` only if it sees a connection. When a CONNACK arrives after it saw
  none, `_on_connect`, which does not look at `_closed`, publishes `online=true`,
  and the DISCONNECT discards the will: the gateway stays online for ever.
  `EndsOffline` names the three ways in which a shutdown can leave it so: a late
  `_on_connect`; no room in the queue for the last status; and a `close()` that
  publishes it between `_on_connect` and paho's sending again of an older `online`,
  which then arrives last.
- **Exit status of `--once`** (`session_once_exit`). `publish_errors` is read
  before `flush()` waits for the answers that may raise it.
- **Presence after a reconnection** (`session_full_queue`). The status goes
  through the same bounded queue as data; if that is full when the connection
  comes back it is dropped, and nothing publishes it later: the offline status of
  the will stays.

## 5. Proofs

`ModbusConnection_proofs` proves for every base, maximum, age, connect timeout
and counter bound, from the assumptions in `ModbusConnection` alone:

- `TypeCorrect`, `Consistent`: `TypeOK` and `StateConsistent` together are
  inductive.
- `Paced`: `ReconnectsArePaced`. The action property follows from `PacingInv`:
  in backoff, what is left of the pause and the age of the attempt together
  are at least the delay. Types alone do not give this: it ties the deadline to
  the attempt, and the case that needs care is the failing callback, which reads
  the clock anew.
- `Exponential`: `BackoffIsExponential`, which is inductive with the types. What
  it needs is that the next power of two is the double of the last
  (`PowersOfTwo`, from the number of subsets of an interval) and that capping
  before or after a doubling makes no difference (`CappedDoubling`).
- `Counted`: `CountersAgree`, from `FirstAttemptInv`, which says of the first
  attempt what the counters cannot: before it there is nothing to count as a
  reconnect, and after it either a connection or a failure is on record.
- `BreakerImplemented`: every step is a step of `BusAccess` or leaves `access`
  alone.

`MqttSession_proofs` proves for every transmit queue and every number of
publications, from the assumptions in `MqttSession`:

- `TypeCorrect`: `TypeOK`. That the broker never answers more than was published
  needs `AnswerInv`: answered publications and the data still out are together
  at most those published. Counting data in a queue that grows at one end and
  loses one anywhere takes the lemmas `DataAppended` and `DataAnswered`
  (a bijection between the places of a queue and those left after a removal).
- `PresenceHasWill`: `OnlineHasWill`, from `WillInv`: a connected gateway has a
  session at the broker, and while `connect()` waits no status was published.
- `ShutdownEndsOffline`: `EndsOffline`, from `ClosingInv`: between `close()` and
  the end, a connection on which `on_connect` has run still has `offline` as its
  last publication, sent after all older ones (`OfflineLast`: there are none, or
  some that were sent again before it), or nothing unanswered and a broker that
  does not show online. `OfflineAnswered` shows that answers keep it so, `OfflineSent`
  and `OfflineRetained` that this is what the broker is left with.
- `OnceSuccessIsAnswered`: `OnceSuccessMeansAnswered`, from `OnceInv`: without
  errors nothing published is unaccounted for; during the flush all data lies
  among the publications it waits for, so a flush that ends with none left has
  seen every one answered, although `online` may have been appended meanwhile.

`OwnerLoop_proofs` proves for every rate, diagnostics rate, duration and queue
size, from `LoopAssumption`:

- `TypeCorrect`: `TypeOK`.
- `DeadlinesBounded`: `LatenessBounded`, from `PollInv` and `DiagInv`, which say
  for each phase how late each deadline can be, counting what the operation in
  progress has used of its budget. `SeenInv` is needed because diagnostics are
  decided at the top of the round.
- `Paced`: `CyclesArePaced`, from `PaceInv`: while a deadline is `poll_due` ahead,
  the last cycle but one began longer ago than the rate less that. This is what
  replaces the deadline in `CyclePacing`, which has none.
- `SnapshotsWhole`: `SnapshotHonest`, which is inductive as it stands.

`ReferenceAccess_proofs` proves about the operators of `RegisterCodec`, for payloads
of every length, bytes of every size and each of the four orders: encoding and
decoding undo each other (`PackUnpack`, from `SwapTwice` and `ReverseTwice`), a value written is the
value read (`WriteThenRead`), decoding from a batch is decoding from the block
(`BatchDecodesAlike`), and a merge changes exactly the bits it names
(`MergeIsExact`).

It also proves `BoundAsWritten`: `ReferencesBound`, for every set
of rows in any order and any number of files. The invariant is `BoundInv`: the
type of what was built, `FileBound` for every file including the one being read,
and `CursorInv`: a current poller belongs to the last device. Without `CursorInv`
a reference row could be bound to a poller of an earlier device, and this is where
the `poller = None` of a device row and of a new file is needed. One lemma per
kind of row; `SaneIsCovered` is the arithmetic of `check_sanity`, with the product
in the address of a coil group.

And about writes, from those two, for every configuration, number of writes and
changes by the other master, and every size of a byte:

- `TypeCorrect`: `TypeOK`. `ConfigInv` adds that a file is read only while fewer
  than `MaxFiles` were (there is at least one, `LimitAssumption`).
- `WrittenAsMeant`: `WritesExact`. The invariant `AccessInv` adds `WriteInv`: what
  is written is a sane reference of an accepted file with a value of its type
  (`ProperWrite`, from `RefIsSane`, which is why `FileBound` keeps what each
  reference was accepted for), and the register read before a read-modify-write
  is what is held now but for the bits the other master has changed since
  (`ReadHolds`). With that, `ImageIsWritten` is about one step, in three cases:
  coils (`CoilsWritten`: a partial group, which `validate_write` refuses, would
  reach past the block); bits of a register (`RegisterBitsWritten`, from
  `BitsReplaced`: both strategies replace the same raw bits, as the encoder moves
  bit b of mask and value alike to `RawBit`); numbers and strings (`BytesWritten`,
  from `EncodedWordsAre`: which word each pair of bytes is sent as).

And about reads, from `BoundInv` alone, for every configuration, every set of
references asked and every size of a byte, `ReadAlike`: `ReadsAgree`. A response is
named by where it starts, so a poll and a get are two cases of one lemma each:
`CoilsDecoded` (a coil group is padded exactly where the block ends) and
`RegistersDecoded` (any response that holds the registers gives the same words;
`BitsDecoded` and `BytesDecoded` say which cell each bit and byte of them is).
That a batch is such a response is `BatchesCover`. It follows the references as
they are taken in the order of addresses, with the invariant `Taken`: what is left
and what is in the batches make up what was asked, every batch covers its
references inside the block, and none starts after a reference that is left.
Without the last part a batch could be extended by a reference that begins before
it; this is what the sort is for. `TakeKeeps` is one turn of the loop
(`ExtendGroups`, where `max` keeps the longest end), and counting what is left
shows that in the end everything was taken.

`CommandQueue_proofs` proves for every limit on messages, bytes and rejections,
every delay and number of deliveries:

- `TypeCorrect`: `TypeOK`, with `HandInv`: `receive()` has a message in its hand
  exactly between taking it from the queue and checking its age.
- `BytesExact`: `BytesAccounted`. The step is short once `BytesAppend`,
  `BytesTail` and `BytesSame` say what an arrival, a removal and a tick do to the
  sum over the queue (see *Induction* below).
- `WakeupsKept`: `NoLostWakeup`, from the stronger `WakeInv`: while anything is
  queued the event is set, in the owner's critical section too, because the event
  is cleared only there and only when nothing is left.
- `FatesKept`: `OneFate`, from `FateInv` (each message that arrived is in one
  place), `OrderInv` (numbers grow from the delivered messages over the one taken
  to those that wait) and `AnswerInv` (only what expired or was dropped is
  answered as rejected). That commands are delivered in order follows only when
  the order of the queue is part of the invariant.

`PollCycle_proofs` proves for every layout of files, devices, blocks and
references that satisfies `LayoutAssumption`, which is what `Configuration`
guarantees (a block has one place, a reference one block, a device one file):

- `TypeCorrect`: `TypeOK`, with `PlaceInv`: `poll()` runs for a handler that exists.
- `AutoremoveExact`: `AutoremoveIsExact`, from `CountInv`: the counter of the code
  and the failures in a row differ only where a probe started the counter anew.
- `PublishedFresh`: `PublishedValuesAreFresh`. `ReadInv` holds throughout the cycle,
  and `AheadInv` says that the blocks ahead in `poll()` have no value, so that
  abandoning them after a transport error leaves nothing behind. That a device is
  in one file is needed: otherwise the second file would unmark what the first read.
- `SuccessIsHonest`: `SuccessMeansAllRead`, from `DoneInv`: without a failure and
  without a stop, the handlers and the blocks before the current ones have been
  read. A stop makes `poll()` report a success it has not had, and the loop may
  not publish after one.

`OnChangePublisher_proofs` proves for every set of references and readings, and
every transmit queue, also one that cannot hold a cycle:

- `TypeCorrect`: `TypeOK`, with `TopicInv`: the topics of a cycle are those of the
  device's values, and there are none outside `publish_data`.
- `HonestCache`: `CacheIsHonest`. What subscribers will have of a topic is the last
  datum on its way there, or else what they saw last. `IsFinal` says so of any
  queue, and `FinalAppended` and `FinalAnswered` say how publications and answers
  change it: an answer to a datum that is accepted changes nothing, one that is
  refused does and is an error. `HonestInv` claims it in the middle of
  `publish_data` also, for the old cache together with the topics already
  published; the new cache is then honest when it replaces the old one.

`CommandDispatch_proofs` proves for every set of requests, references and
conflicts, and every size, age and byte limit of the cache, about a command:

- `Truthful`: `ResultsAreTruthful`; `ValidatedWhole`: `AllOrNothing`;
  `OneLateWrite`: `LateWritesBounded`. One invariant, `CommandInv`, holds at every
  point of the execution: a command with references still to write was validated
  whole (`IssuedInv`); each of these was not sent and is reported as not attempted
  (`TodoInv`), which needs the list of writes to be injective; `ResultsInv` is the
  truth of the outcomes between two writes and not only at the answer; a write
  was late only if the check after it ends the command (`LateInv`). What
  `Accepted` returns (a subset of the valid names, in order, without a conflict,
  and all of them only if there is no conflict) is by induction on the names.

and about what is remembered:

- `TypeCorrect`: `TypeOK`, with the accounting of the cache: its byte count is the
  bytes of its entries, both limits hold, ages grow towards the oldest entry.
- `RemembersLatest`: `CacheRemembersLatest`; `NoReplay`: `NoReplayWhileRemembered`.
  `MemoryInv` is `CacheInv`, `JournalInv` and `Agreed`: what the cache would
  answer from is the longest recent part of the journal that fits in a cache. The
  code pops one entry at a time until a condition holds. `PoppedIs`, `ExpireIs`,
  `ShrinkIs` and `SaveIs` say what is left in the end, and `KeptAppend` and
  `KeptFrom` that forgetting early what does not fit makes no difference later.
  `Agreed` needs that an identifier is executed only when it is not remembered, so
  that a save never replaces an entry that is still alive (`Unsaved`).

*Induction.* The library's induction theorems take an operator as a parameter,
which the provers at hand cannot instantiate. That the strict order of the finite
subsets of a set is well founded, with `WFMin`, is first-order: from it
follow, over sets of numbers, that each set of numbers has a least one
(`LeastNumber`), induction (`Induction`), and that functions on `0..n` given by
their first value and a step exist and are unique. Sums, repeated pops and the
list of writes are such functions in the modules.

Only model-checked: the liveness properties, as fairness and ENABLED are beyond the
proof system. Every invariant that a passing run checks is a theorem.

## 6. Assumptions and what is not modelled

- QoS 1 for the session: publications are answered in order and sent again after
  a reconnection. `OnChangePublisher` also covers QoS 0, where a disconnection
  may lose what was in flight.
- The instance of `OnChangePublisher` has a transmit queue that holds one cycle of
  the device. A smaller one refuses the last topics of every cycle, and each refusal
  empties the cache: it neither converges nor comes to rest. What is proved of the
  module, types and the honest cache, is for every size.
- A list of bits (`bool8`, `bool16`) is published in single mode as one topic per
  bit, and the rest is abandoned at the first refusal; here it is one topic that
  is refused or not.
- `OnlineWhenUp` is checked with room for all publications of the run and a status;
  what a full queue does to it is `session_full_queue`. paho's limit of QoS 1
  publications in flight is not modelled.
- With recovery on, `PollCycle` counts failures in a row to three and no further;
  probes of a disabled block only have to find it disabled.
- `CommandDispatch` has one device; the values written are abstracted to whether
  validation accepts them. Duplicate names in a request cannot occur (JSON
  objects).
- Processor time is not modelled: after `_on_connect` or a rejection the event
  may stay set with nothing queued, and the loop then spins until the next
  command clears it.
- The request of one block is one step of `PollCycle`. Other masters on the bus
  matter to writes only and appear in `ReferenceAccess`.
- `ReferenceAccess` takes one write at a time, since the owner loop does; failing
  requests, expiry and several references in one command are in
  `CommandDispatch`, disabled blocks in `PollCycle`.
- Left out of the components that are modelled: fetching a configuration and its
  size limit, the syntax of a cell, the checks of a reference that look at one cell
  only (its name, permission and scale: a row that fails them is not among the
  rows), warnings, numeric ranges and scaling, which
  numbers the bytes of an integer or a float stand for (all types of one width
  are decoded alike up to `struct`), the mapping of topics to devices, and the
  limit of 247 on serial slave numbers (`MaxDeviceId`).
- Not modelled because there is no state to go wrong: diagnostics (they report
  the counters other modules keep), the command line, transport construction,
  types and utilities.

## 7. Plan

What carries state is modelled, and every safety property the runs check is
proved. What could be added is finer data: numeric ranges and scaling of values,
and the text of names and units behind `Collisions`.

None of these modules declares a RECURSIVE operator.
