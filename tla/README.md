# Formal model of distributed_logger

TLA+ modules, TLC configurations and TLAPS proofs about the logging library and
server of this repository: the two client transports (C++), the framing
listener, the worker pool, the generated storage adapters and the server process
around them (Go, written by `tools/code_gen.py`), and the example clients. Paths
below are relative to the repository's root.

## 1. The system

An application calls a generated `LogEvent` function. The event is encoded in a
buffer, given to a transport (`send`), written to a TCP or TLS connection as a
frame `[uint32 length][uint64 event_id][payload]`, cut out of the stream by the
server's listener, put on a bounded channel, gathered in a batch by a worker and
written to MongoDB or ClickHouse.

    LogEvent -> IIO::send -> queue -> socket ==> handleConnection -> Enqueue
                                                        |
                                       channel -> workerMain -> Flush -> database

### Inventory

| Component | Source | State | Operations | Status |
|---|---|---|---|---|
| POSIX transport | `client/posix_io` | descriptor, mode, queue of buffers with read offsets, byte count and limit, three counters | constructor, `send`, `onWriteOpportunity`, setters, `connectionGracefulShutdown` | modelled: `PosixIO` |
| Seastar transport | `client/seastar_io` | connection flags, queue, byte count, timer, `_tx_finished` | `connect`, `reconnect` and its timer, `send` and the transmit loop, `disconnect`, TLS variant | modelled: `SeastarIO` |
| Listener | `server/listener` | per connection: header, body buffer, length, bytes read | accept loop, `handleConnection` | modelled: `Listener` |
| Worker pool | `server/ingester` | channel, batch and ticker of every worker | `Enqueue`, `workerMain` | modelled: `Ingester` |
| Storage adapters | `tools/code_gen.py` | prepared statements, database | `Flush`, `GetMigrations` | modelled: `Storage`, `Server` |
| Storage set-up, migrations | `tools/codegen/templates` | tables, views | `Init`, `Migrate` | modelled: `Server` |
| Encoding, decoding | `client/api/LogAPIs.hh`, `server/decoder`, `tools/code_gen.py` | none (pure) | generated `LogEvent`, `encode`, generated decoder, `DecodeUint64`, `DecodeString` | modelled: `Codec` |
| Buffers | `client/posix_buffer`, `client/seastar_buffer` | capacity, read and write offset | write, read, advance | partly: `Codec` has writing, `PosixIO` the read offset |
| Example clients | `examples` | place in `run_loop`, epoll set | `run_loop` | partly: `PosixClients` has the two POSIX clients |
| Server start-up | `server/main`, `server/config` | configuration | `main` | modelled: `Server` |
| Interfaces | `client/api/iio`, `client/api/buffer` | none | abstract classes | not modelled: no code |
| Code generator | `tools` | none at run time | text processing | not modelled: keeps no state a run depends on |
| Deployment | `docker` | none | images, configuration | not modelled: no logic |

### What is hard, and what makes each part correct

* **POSIX transport.** Partial writes, failing writes and reconnections meet a
  queue whose head may be half on the wire. Correct when no buffer is lost,
  repeated or overtaken, when every connection carries whole frames, when the
  byte count behind the limit agrees with what is held, and when a reconnection
  or a mode change leaves the socket in the mode the caller asked for.
* **Seastar transport.** `send` and the transmit loop share flags that are read
  in one continuation and written in another, and a new connection replaces the stream a
  loop writes to. Correct when at most one loop writes, to a stream that stays as long as its
  write, the flag never outlives its loop, the byte count behind the limit agrees with
  what is held, nothing is written after the streams close, and a disconnection resolves.
* **Listener.** A frame comes in any number of reads, and header and body share
  one offset. Correct when what is enqueued is exactly the bodies sent, in order.
* **Encoding and decoding.** The length of an event is computed three times, by the
  generated function, by `encode` and by the decoder, and a write that does not fit
  is clipped silently. Correct when the three agree and every event is decoded as logged.
* **Worker pool and storage.** Handlers and workers share a channel; a flush may
  fail, having written some events; a worker may end. Correct when every message
  is in one place, ends with one fate, is written at most once, and does not wait
  for ever.
* **Server process.** A set-up may fail half way and is run again by the next
  process, perhaps a build with other events or other numbers for them, over views
  that keep the numbers they were created with; a process may end while it holds
  messages and while the database takes rows. Correct when every row is in the typed table of
  its event and in no other, and no message is written by, or after, two processes.
* **Example clients.** They decide when the transport's queue is drained, and one of
  them gave the transport's descriptor to epoll. Correct when what they log leaves the
  queue while the connection works.

## 2. The modules

| Module | What it is |
|---|---|
| `PosixIO` | The POSIX transport under a most general single-threaded client and a network that may break a connection between any two writes |
| `PosixIOProofs`, `PosixIOWireProofs` | Its theorems: types, queue and byte accounting; frames on the wire, connections, their order and what they carry |
| `SeastarIO` | The Seastar transport, continuation by continuation |
| `SeastarIOProofs` | Its theorems: the transmit loop, the closing, the byte accounting, conservation and order |
| `Listener` | The accept loop and `handleConnection`, read by read, over byte streams |
| `ListenerProofs` | Its theorems: types, framing, what a handler leaves behind, why it closes |
| `Storage` | What one `Flush` may write and return, for each database |
| `Ingester` | Handlers, channel, workers and ticker; extends `Storage` |
| `EventLog` | The abstract promise of the ingester |
| `IngesterProofs` | Its theorems, the refinement of `EventLog` included |
| `Server` | The server as a process that starts, sets its storage up, accepts, serves and ends; extends `Ingester` |
| `ServerProofs` | Its theorems; extends `IngesterProofs` |
| `PosixClients` | The `run_loop` of the two POSIX examples; extends `PosixIO` |
| `PosixClientsProofs` | Its theorem |
| `Codec` | One event through the generated `LogEvent`, `encode`, the buffer and the generated decoder |
| `CodecProofs` | Its theorems: types, the computed length, the round trip |
| `MC*` | Values of the constants for TLC |

### PosixIO

The variables are the members of `PosixIO` (`_fd`, `_connected`, `_asyncMode`,
`_queue`, `_queuesize`, `_queuemaxsize`, the counters), the state of each
connection's socket, its `O_NONBLOCK` flag and the frame ranges it accepted, and
a control point `pc`. A buffer is its posting number, capacity and read offset;
`start` and `postedBytes` are history used to state the byte accounting.

* `Construct` is the constructor with `initialize_connection`, whose outcomes are
  `LookupFails`, `ConnectFails`, `TLSFails` (which calls `exit()`) and `Connects`.
* `Send` is `send`: refused over the limit, queued in async mode or behind other
  buffers, written (all or in part), or failed with a reconnection.
* `OnWriteOpportunity` enters the drain loop, each `DrainWrite` is one turn of it.
  `written` is a `size_t`: the -1 of a failed write is 2^w - 1 and takes the branch
  of progress, exactly as in the source.
* `SendKilled` and `DrainKilled` are `SIGPIPE`. `Break` is the peer.

Over-approximation: `SSL_write` may take a record or return 0 or -1 at any moment,
also when a real library would not. Left out: reuse of a descriptor number by the
rest of the process, the destructor (it only frees memory), logging.

### SeastarIO

Everything runs on one shard, so a step is a task between two waits. A loop is
`writing`, at its `check` (the stop predicate), or `ended` with its final
continuation pending; `Send` and `Disconnect` run between these. `Loops` has room
for two loops: a patient client never has more than one, and two calls of `connect` give no
other client more than two. (For more calls than that, what is proved of such a client is
about its behaviours with at most two loops at a time.)

`timer` is armed or not, and `attempts` counts the calls of `seastar::connect` that
have not returned: while one is under way the timer is *not* armed, and `reconnect()`
looks at nothing else, so another `connect()` starts a second attempt. `stream` numbers the
connections `_out` has had, and `out` is the one each loop's write began on. The client is
of one of two kinds:

* `patient`: it calls `connect` only without a connection and without an attempt
  to get one (`Connect`), as a client that connects once does;
* any other: it calls `connect` at any time, and a second connection may replace the stream under
  a write, or between a failed write and the stop predicate, so that the old loop goes on
  beside a new one.

`OneLoop`, `Conservation`, `StreamKept` and `NoWriteAfterClose` are about the
patient client only, and say so; the others are about both. What Seastar does with a write whose
stream is replaced under it is not defined; the model lets it end well or fail.

`TimerFires` waits until no continuation of a loop is ready: the timer takes a second,
while a ready continuation is run at once. The client disconnects once. It logs no more then, as
`examples/seastar_app_logging` does, or (`shared`) it has several fibers, one of which
may log while another disconnects. `NoWriteAfterClose` and `DisconnectResolves` are about
the first kind only: with the second a write may start under the close.

### Listener

`sent` holds the frames a client sent and `wire` their bytes, header and body. `ClientSends`
appends a frame at any time, whatever the handler has read, so a read may end in the
middle of a header or a body. A read returns any part of what it asks
for, with or without an error. `handler` has the local variables of `handleConnection`, whose
code is `AfterHeader`, `AfterBody` and `NextFrame`: the assignments of the
Go code to `packetLength`, `alreadyRead` and the buffers. `enqueued` is what
`ingester.Enqueue` accepted; the call may take any time. `up` is false once a failing `Accept`
has ended the process. `ShortBody` is the length of the longest body the server
refuses, 12 in the source.

### Ingester, Storage, EventLog

`Enqueue` either fills a slot or blocks its handler (`sendq`, the runtime's queue
of senders). `Receive` and `Tick` are the arms of `workerMain`'s select. A `Flush`
is a call (`pc` becomes `full` or `tick`) and a return, between which everything
else may run. Its outcome is in `Outcomes`: MongoDB translates the batch, then
inserts in order up to an error; ClickHouse prepares, appends and sends the batch
as a whole. A worker survives an error of a full batch, whose messages it drops,
and ends on an error of the ticker's flush. The branch for a closed channel has no
action because nothing closes the channel.

`EventLog` has two actions: accept the next event, and settle some accepted
events, each with its one row or with none. The refinement maps `accepted` to `posted`
and `settled` to the ids with a row, dropped or ignored.

### Server

`Server` adds to `Ingester` a `phase` (no process, one that starts, one that serves),
the open connections, the objects of the database (`objects`: the events table, a
typed table and a view for every event) and the typed rows (`typed`: in whose tables
each message has a row). `Start(d)` is a process of build `d`, which knows the events `d`.
An event's number is its place in `d` (the `iota` of the generated code), a row of the
events table has the number of its event in the running build, and a view selects the number its event had in
the build that created it: `View(e, i)` is one object for each number, of one name, and `Created` is
`IF NOT EXISTS`, which keeps whatever has the name. `Copied` is what
follows: a row goes to the table of every view that selects its number. `Execute` and `ExecuteFails` are single
statements of `clickhouse.Init` and `Migrate`; `StartFails` is every other way `main` returns
before it listens. `Accept`, `Close` and `Deliver` are `LaunchListener` and
`handleConnection` at the grain of whole messages; `Listener` has the bytes. `Flush` is
`FlushReturns` of `Ingester` with what the views copy.

`AcceptFails` and `FlushPanics` end the process (`ProcessEnds`). The channel, the
batches and the blocked handlers are gone, the connections are closed, and each call of `Flush` under
way may have had one of its outcomes or none. `SIGKILL` has the same effect. The
messages that were in memory are counted as `lost`: they are settled, without a row or with the row
the database took.

`storageType` is the configured `StorageType`. With `"other"` `main` leaves `storageApi`
nil, the server accepts events, and the first `Flush` panics.

### PosixClients

`at` is the place in `run_loop` between two calls of the transport; the calls are
the actions of `PosixIO`. `watched` is the descriptor in the epoll set of the
asynchronous client. A run may end at any turn of its loop. The clients run over TCP:
`SSL_write` of `PosixIO` may refuse a record for ever, so nothing can be said there
about what leaves the queue.

### Codec

`CountField` is `total_length += ...` of the generated `LogEvent`, one field at a time, and
`lengths` the values `total_length` has had. `MakeBuffer` allocates a buffer of the last one,
`EncodeField` writes the next field behind the four bytes of the header, `SendPacket`
sends the whole buffer, used or not. `DecodeUint64`, `DecodeString`, `DecodeFails` and
`DecodeReturns` are the steps of the generated decoder, which knows the types
of the fields from the id. A byte has `Base` values, 256 in the code; a string's
length has two bytes and an integer eight, as there. A byte nothing was written to is `Unset`: zero
in a `PosixBuffer`, arbitrary in a `SeastarBuffer`.

## 3. What the runs check

| Run | Question | Bounds |
|---|---|---|
| `posix` | Queue, byte accounting, framing, order, mode and drops of the POSIX transport; TCP and TLS | sizes 2 and 3, limits none and 4, 3 sends, 2 failing drains, 2 connections, `size_t` of 4 bits |
| `posix_frames` | A connection carries whole frames, also after a failing write in the drain loop: **violated** | 2 sends, 1 connection |
| `seastar` | One loop, flag, conservation, byte count, stream, closing, disconnection, connecting; one fiber and several; patient and not | 4 sends, 2 failing writes, 2 calls of `connect`, sizes 2 and 3, limits none and 6 |
| `seastar_drain` | The queue is empty when a disconnection resolves: **violated** | 2 sends, no failure |
| `seastar_limit` | An event is dropped only when the queue is full: **violated** | 2 sends, 1 failing write, 2 calls of `connect`, limits none and 3 |
| `ingester` | Conservation, order, at most one row, `EventLog`, every message settled | 2 handlers, 2 workers, channel and batch of 2, 4 messages of 3 kinds, both databases |
| `server` | Typed tables, `EventLog` and settlement over set-ups that fail, builds that change and processes that end | 2 processes, 3 builds of 1 and 2 events (one numbers an event anew), 1 handler, 2 workers, channel and batch of 2, 3 messages of 3 kinds, three values of `StorageType` |
| `clients` | The asynchronous client watches the socket it logs to; what it logs leaves the queue | 5 events of sizes 2 and 3, limits none and 5, 3 failing drains, 2 connections |
| `clients_sync` | The same of the simple client, in sync mode: **violated** | 2 events |
| `listener` | Framing over all divisions into reads; every body delivered | 2 connections, up to 2 frames each, 4 bodies of lengths 0, 2, 3 and 4, minimum scaled from 12 to 2 |
| `codec` | The computed length is the length written; decoding returns what was logged | bytes of 2 values, strings of up to 4 bytes (2 bytes hold lengths up to 3), 4 fields |
| `codec_long` | A stored event is the full event: **violated** | one string of up to 4 bytes |

What the passing runs show, property by property:

* `posix`: `QueueIsUnsentSuffix` (the accepted buffers are the sent ones followed by
  the queued ones, failures included); `QueueSizeExact` (the byte count is exact until a
  drain fails); `NoSpuriousDrop` and `QueueBoundedUntilFailure` (the limit refuses
  neither too early nor, before a failing drain, too late);
  `FramesOnWireUntilFailure`, `SentIsOnWire`, `NoFrameSpansConnections`,
  `WireInPostingOrder` (the wire); `SocketModeAgrees`; `HealthyNeverAbandoned`.
* `seastar`: `OneLoop`, `FlagHasLoop`, `Conservation`, `QueueSizeExact` (the byte
  count is what is held until a write fails; what it is afterwards is the finding of
  `seastar_limit`), `QueueBounded`, `StreamKept` (no new connection replaces the stream of a write, and
  no loop goes on writing to a broken one), `NoWriteAfterClose`, `DisconnectResolves`, `KeepsTrying` (once asked to
  connect, the transport tries until it has a connection; only TLS may give up, on
  credentials it cannot build).
* `ingester`: `QueueInOrder`, `Accounted`, `NoSilentLoss` (a good event has no row only
  if the `Flush` of its batch failed), `WorkerInOrder`, `ImplementsEventLog`,
  `EveryMessageSettled`.
* `server`: `TypedExact` (a row that a successful `Flush` wrote to the events table is
  in the typed table of its event and in no other, as long as the builds started so far keep
  the numbers of their events, `NumbersKept`), `ServerImplementsEventLog` (at most one row per event,
  in the step that settles it, also over the end of a process), `SettledAcrossRestarts`.
* `clients`: `EpollWatchesSocket` (no call replaces the connection behind epoll's back; so a
  broken connection stays broken), `AsyncEventsLeave`.
* `listener`: `DeliveredIsPrefix`, `EveryBodyDelivered`.
* `codec`: `FillsBuffer` (the packet holds every field in full and nothing else),
  `RoundTrip` (for strings with a 16-bit length; the longer ones are in the run too, for
  `FillsBuffer` and `TypeOK`).

**Why the bounds are enough.** The smallest sizes that can be written in parts are
two and three bytes; two buffers fit under no common limit of four; a third send
meets a queue left by an earlier connection; a second connection is enough for a frame
to span two. Four bits of `size_t` keep 2^w - 1 above every size, which is all the
code's comparison tells apart. Four messages fill one batch for each worker, and
two workers reorder and end one after the other. Two frames let a length or an
offset leak from one to the next; two connections interleave in the channel. Four
sends fill the Seastar queue behind a write, enter the window after a loop's last
test, and start a loop on a second connection; two calls of `connect` are enough for two attempts
at a time and for a stream that is replaced. Two processes let a set-up fail half way and
be run again, by the same build or by another; a build of two events has typed tables
that a build of one does not know, and the other way round; the build that gives `logout` the
number of `login` meets the older one's views; three messages are more
than a batch. Two turns of a client's loop let the second find what the first
left queued. With two values for a byte, a string of
four bytes is to a two-byte length what one of 65536 bytes is in the code; a
long field displaces the next, and the third may then run past the packet.

`CHECK_DEADLOCK FALSE` is set because the bounds stop the clients, a process may
end, and dead workers stop the server.

**Fairness.** `posix` and the violated invariants need none. `Ingester`: the Go
scheduler runs every goroutine that can go on, the ticker keeps firing, every
`Flush` returns (external); there is no fairness of the clients. `Server`: the same
while a process serves; nothing says that another process is ever started.
`Listener`: a connection is accepted, a read with bytes to deliver returns, and
`Enqueue` returns; no client has to send anything. `SeastarIO`: the reactor runs ready tasks and timers; a write and a
close end (external); a server that is tried again and again is reached in the end
(`SF` of `Established`, external). `PosixClients`: the thread runs, and a socket
of a connection that holds becomes writable again (external); a client's run need not
end. All of it but `Established` is weak fairness.

`EveryMessageSettled` excepts the state in which all workers have ended, which the
code allows: the workers are not restarted and `Enqueue` then blocks for ever.

## 4. What is proved

TLAPS proves these for all values of the constants, under the assumptions named in
the modules (`SizesAssumption`, `BoundsAssumption`, `SizeModAssumption`,
`IngesterAssumption`, `SeastarAssumption`, `ServerAssumption`, `ClientsAssumption`, `ListenerAssumption`, `CodecAssumption`): sizes are
positive and bounded, bounds are natural numbers, `size_t` is wider than a size plus the
failures counted, the channel has room for at least one message, a body's length has
four bytes, a byte has at least two values, and an integer is below the eighth power of
their number. Every invariant and action property of a passing run is a theorem.

| Theorem | Statement |
|---|---|
| `PosixIOProofs!TypeCorrect` | `Spec => []TypeOK` |
| `PosixIOProofs!QueueCorrect` | `Spec => []QueueIsUnsentSuffix` |
| `PosixIOProofs!QueueSizeExactCorrect`, `QueueSizeNeverOvercountsCorrect` | the byte accounting |
| `PosixIOProofs!NoSpuriousDropCorrect`, `QueueBoundedCorrect` | the limit, as action properties |
| `PosixIOWireProofs!FramesCorrect` | `Spec => []FramesOnWireUntilFailure` |
| `PosixIOWireProofs!SocketModeCorrect` | `Spec => []SocketModeAgrees` |
| `PosixIOWireProofs!HealthyNeverAbandonedCorrect` | `~Interruptible => (Spec => []HealthyNeverAbandoned)` |
| `PosixIOWireProofs!WireOrderCorrect`, `NoFrameSpansConnectionsCorrect`, `SentIsOnWireCorrect` | what connections carry, and in which order |
| `IngesterProofs!TypeCorrect` | `Spec => []TypeOK` |
| `IngesterProofs!QueueInOrderCorrect`, `AccountedCorrect`, `WorkerInOrderCorrect`, `NoSilentLossCorrect` | the safety of the worker pool |
| `IngesterProofs!EventLogImplemented` | `Spec => ImplementsEventLog` |
| `ServerProofs!ServerTypeCorrect` | `ServerSpec => []ServerTypeOK` |
| `ServerProofs!ServerAccounted` | `ServerSpec => []Accounted` |
| `ServerProofs!ServerEventLogImplemented` | `ServerSpec => ServerImplementsEventLog` |
| `ServerProofs!TypedExactCorrect` | `ServerSpec => []TypedExact` |
| `PosixClientsProofs!EpollWatchesSocketCorrect` | `ClientSpec => []EpollWatchesSocket` |
| `SeastarIOProofs!TypeCorrect` | `Spec => []TypeOK` |
| `SeastarIOProofs!OneLoopCorrect`, `FlagHasLoopCorrect`, `StreamKeptCorrect`, `NoWriteAfterCloseCorrect` | the transmit loop and its stream |
| `SeastarIOProofs!QueueSizeExactCorrect`, `QueueSizeCountsFailedCorrect`, `QueueBoundedCorrect` | the byte accounting, until and after a failed write, and the limit |
| `SeastarIOProofs!ConservationCorrect` | `Spec => []Conservation` |
| `ListenerProofs!TypeCorrect` | `Spec => []TypeOK`; a handler that reads has room left in its buffer |
| `ListenerProofs!DeliveredIsPrefixCorrect` | `Spec => []DeliveredIsPrefix` |
| `ListenerProofs!NothingLeftBehindCorrect` | a handler that waits and has read all has enqueued all it has to |
| `ListenerProofs!ClosesOnlyOnErrorOrShortCorrect` | a handler without a failing read ends only on a short frame |
| `CodecProofs!TypeCorrect` | `Spec => []TypeOK`; every byte of a packet is one that was written |
| `CodecProofs!FillsBufferCorrect` | `Spec => []FillsBuffer` |
| `CodecProofs!RoundTripCorrect` | `Spec => []RoundTrip` |

**The argument for PosixIO.** `TypeInv` is `TypeOK` with what the drain loop needs (a
loop has a queue). `QueueInv` adds that ids and start positions of neighbours
in the queue follow on one another, that a capacity and a start stay within the
bytes posted, and that only the head's offset has moved, by less than its
capacity forwards and by at most `fails` backwards: this bound on the
-1s is why `SizeModAssumption` has the failures in it, and
without it nothing says that `off + written` wraps the way the code relies on.
`AccountInv` adds `queuesize <= Pending`, with equality while `fails = 0`; `Pending`
changes by the same amounts as `_queuesize` in `send` and in a turn of the loop.
`WireInv` relates the last range on each connection to the head of the queue: it ends
where the head's offset stands, and new connections carry nothing yet. Each step is
one lemma per operation.

The rest of `PosixIOWireProofs` has no use for `fails`: its invariants hold after failing
drains too.
`LastConn` says that connections are made in the order of their numbers and the present
one is the last. `HeadLast` says that nothing on the wire is of a later buffer than the
queue's head, and of the head only on the present connection: `send` reconnects only with
an empty queue, and nothing else reconnects. Order and whole frames over
connections follow from the two. `CoverInv` adds the bytes of the head below its
position, all of which the present connection accepted: a -1 moves the position back and
so asks for less, and a frame whose position reaches its capacity is covered whole.
`HealthyInv` says that a connection which is not the present one is not open; a failing
TCP write without a signal means that the present one is not open either, which is why the theorem
has `~Interruptible` as a hypothesis.

**The argument for the Ingester.** `TypeInv`, then `QueueInv` (channel and blocked
senders are one sequence of consecutive ids), then `AccountInv`: the batches and the
settled ids partition `1..Received`, batches ascend beyond `newest`, and rows are at
most one. The step that returns from a `Flush` uses only `OutcomesProperties`, a lemma
about both databases: rows are ids of the batch, and without an error every good
message has one. The refinement maps `Enqueue` to `Accept`,
`FlushReturns` to `Settle`, and the others to a stutter.

**The argument for the Server.** Its steps are those of the ingester, and steps that
leave the ingester's part alone, but for `ProcessEnds`: it settles all that was posted
and not settled, with the rows the database may have taken, so batches and settled ids still
partition what was posted. `TypedExact` needs to know that the views are there before a
`Flush` may succeed: a process serves only after every statement of its build took
effect (`SetupInv`), which says that something has each view's *name*. That it selects the right number
comes from `ShapeInv`, where every object is one of some build that was started: such a view has
the event at the number it selects, and under `NumbersKept` and without an event listed
twice (`ServerAssumption`) this is the running build's number (`ViewsThere`), and no other
event's view selects it (`NoOtherView`). The good events in memory are events of the
build that runs (`GoodInv`), because memory does not outlive a process. `NumbersKept` can only become
false, so a later build that breaks it takes nothing back.

**The argument for PosixClients.** Once the descriptor is in the epoll set the client is in
async mode for good, and in async mode `send` only queues; `onWriteOpportunity` never
reconnects. So `fd` stays what it was when it was given to epoll.

**The argument for SeastarIO.** `OneLoop` is not inductive: a failed write resets the
flag before its loop has ended, so "the flag is set while a loop runs" is false.
What is inductive for a patient client is `LoopInv`: `Guarded`, the same with "and the transport
is connected"; `OneAttempt`, that there is no attempt and no armed timer beside a connection, one
attempt at most otherwise, and none while a loop runs (the timer waits for ready
continuations, and a write that goes on has a connection); `OnStream`, that a write is on the
stream of the present connection; and `Closing`, once a disconnection goes on
there is no loop. `OneLoop`, `StreamKept` and `NoWriteAfterClose` follow. None of the three
holds of the other clients. The accounting needs no patience: `AccountInv` is `QueueSizeCountsFailed` (the count is the bytes held
and those of failed writes) with a queue that is chained: each buffer starts where
the one before it ends, so moving the head from the queue into flight keeps what
is held. `QueueSizeExact` and `QueueBounded` follow from it.
`OrderInv` places the wire, the buffer in flight and the queue one after the other
in the order of posting; with `OneLoop` there is at most one in flight.

**The argument for the Listener.** `DeliveredIsPrefix` says nothing of a frame that is half
read. `IInv` says of each connection that its four values agree (`Agree`): the wire
is the frames one after the other (`Framed`), and the handler is at one of them
(`AtFrame`), either in its header, of which the buffer holds the beginning
(`InHeader`), or in its body, whose length it knows (`InBody`). One offset
serves header and body, so the proof that a header is read whole is also the proof that the offset
is reset before the body. `HeaderReads` shows that the four bytes of a length read back as the
length. There is one lemma for each kind of step, about one connection
(`SendAgrees`, `AcceptAgrees`, `HeaderAgrees`, `BodyAgrees`, `EnqueueAgrees`), and `Step` puts
the connections together. How many bodies were enqueued is the number of frames the server had
to take before the handler's: that gives the prefix and `NothingLeftBehind`.

**The argument for the Codec.** The wide numbers come first: two digits read back the low part of a
number (`TwoDigits`), and eight of them an integer (`Bytes8Reads`), whatever `Base` is.
`EncodeFits` says that a field with room for the length counted for it is written in full, one field
at a time, so nothing is said by induction over the event: `lengths` keeps the sums, and
`IInv` says that they ascend (`Sums`), that each field encoded is where its sum says
(`Written`, then `Packed`), and that the decoder is where its next field begins (`InStep`) as
long as the strings are short. The step of the decoder (`Ahead`, `StepsOn`) then finds its
field's bytes under its offset, and `DecodeFails` cannot happen.

**Only model-checked**: all liveness (`EveryMessageSettled`, `SettledAcrossRestarts`,
`EveryBodyDelivered`, `DisconnectResolves`, `KeepsTrying`, `AsyncEventsLeave`), which is out of the
prover's reach, and the properties that are violated. **Only proved**, in no run:
`QueueSizeNeverOvercounts`, `QueueSizeCountsFailed` (of the Seastar transport: what the code
does, not what it should), `NothingLeftBehind` (the safety half of `EveryBodyDelivered`) and
`ClosesOnlyOnErrorOrShort`.

## 5. What the models found

* `client/posix_io/PosixIO.cc:217`: `onWriteOpportunity` keeps the result of `write`
  in a `size_t`; a failed write moves the read offset back, puts a stray byte on
  the wire and empties the byte count; the reconnecting branch is dead code
  (`posix_frames`).
* `client/posix_io/PosixIO.cc:177`: in sync mode a buffer left in the queue by a
  failed or partial write keeps every later event in the queue, because only
  `onWriteOpportunity` takes from it and a client in sync mode has no reason to call it;
  `docs/architecture.md:259-263` promises that `LogEvent` blocks and loses nothing
  (`clients_sync`).
* `client/seastar_io/SeastarIO.cc:107`: a buffer sent between the loop's last test
  and its final continuation waits for another send and is left behind by a
  disconnection (`seastar_drain`).
* `client/seastar_io/SeastarIO.cc:131`: the bytes of a failed write stay in `_queuesize` for good, so
  after a reconnection events are dropped with an empty queue, and after enough failures all of
  them; `docs/architecture.md:269-275` says that events are discarded when the queue has reached its
  capacity (`seastar_limit`).
* `client/api/LogAPIs.hh:25`: a string of 65536 bytes or more is encoded with its length
  cut to 16 bits; the server decodes another event (`codec_long`).

Seen while modelling, without a run of their own:

* `client/posix_io/PosixIO.cc:183`: a write on a connection the server closed ends the
  application by `SIGPIPE` (`SendKilled`, `DrainKilled`), and every failure of the TLS set-up
  calls `exit()` (`TLSFails`).
* `client/posix_io/PosixIO.cc:226`: the asynchronous client never gets a new connection
  once its own broke (`EpollWatchesSocket`), though `docs/architecture.md:165` says that
  clients re-establish connections. A reconnection would not help it: its epoll set
  holds the old descriptor.
* `client/posix_io/PosixIO.cc:56`: `initialize_connection` never closes the descriptor it replaces.
  `HealthyNeverAbandoned` says that it replaces only broken connections; each of these
  leaks its descriptor all the same.
* `server/listener/listener.go:51`: bodies of up to 12 bytes end the connection, with every event
  behind them, though an event with one string of at most two characters has such a body;
  `ClosesOnlyOnErrorOrShort` is what holds instead of "a handler ends only on an error".
* `client/seastar_io/SeastarIO.cc:45`: `reconnect()` tests `armed()`, which is false while the
  callback's connect is under way. A `connect()` then starts a second attempt, whose line 40 replaces
  `_out` under a write, or between a failed write and the stop predicate, which then lets the
  old loop go on beside a new one. `OneLoop`, `Conservation`, `StreamKept` and
  `NoWriteAfterClose` are false of such a client (without `patient` in the property, TLC
  shows it).
* `client/seastar_io/SeastarTLS_IO.cc:25`: a failure to build TLS credentials ends the
  attempts to connect (the exception in `KeepsTrying`).
* `client/seastar_io/SeastarIO.cc:67`: a fiber that logs while another disconnects may start a
  write between the end of the awaited loop and the close (the exception in `NoWriteAfterClose`).
* `server/main/main.go:65-79`: any other `StorageType` leaves `storageApi` nil; the
  server accepts events, and its first `Flush` panics (`FlushPanics`).
* `tools/code_gen.py:225-230`: a view selects the number its event had in the build that
  created it, and `IF NOT EXISTS` keeps it. After a build that inserts, removes or reorders
  events, rows go to no typed table or to a wrong one, though `docs/storage.md:97` says that the
  tables are populated automatically. (`TypedExact` without `NumbersKept` is false: in the shortest
  trace the build with only `logout` follows the one with only `login`, and its first
  row is copied to both tables.) A changed field reaches no column for the same reason.
* `tools/codegen/templates/clickhouse_init.go:35`: `USE` chooses the database of one
  connection of the driver's pool, and its error is only printed.
* `examples/seastar_app_logging/seastar_app_logging.cc:50`: without a connection the loop
  continues without a yield, and no other task of its shard runs.

## 6. Not modelled

Descriptor numbers reused by other parts of the process; the text of the JSON a ClickHouse row holds;
memory (`listener.go:39` allocates a body buffer of up to 4 GB); DNS and certificates beyond success and
failure; the contents of the configuration; the closed-channel branch of the worker; the
destruction of a `SeastarIO` with a pending timer; an event whose fields change
from build to build; the connections of the ClickHouse driver's pool; what a
failing `INSERT` leaves in a typed table. Of the examples: the Seastar client, which
`SeastarIO` has as the assumptions on its client, the options, and the threads that
each have a transport of their own. The interfaces have no code, the code generator
runs at build time, and the container images have no logic.

## 7. Plan

1. Done: `PosixIO`, `SeastarIO`, `Storage`, `Ingester`, `EventLog`, `Server`,
   `PosixClients`, `Listener` and `Codec`, all with proofs.
2. An abstract transport, a queue in order of posting that may lose what its connection
   carried, implemented by both `PosixIO` and `SeastarIO`.
3. The Seastar example composed with `SeastarIO`: its loop does not yield while the
   connection is down.
