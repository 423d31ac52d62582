------------------------------ MODULE Ingester ------------------------------
(***************************************************************************)
(* The worker pool of the server, server/ingester/ingester.go: a bounded   *)
(* channel filled by the connection handlers, and workers that gather      *)
(* messages in batches and flush them when a batch is full or the ticker   *)
(* fires.                                                                  *)
(*                                                                         *)
(* Concurrency: handlers and workers are goroutines.  A worker is outside  *)
(* its select only while Flush runs, so a Flush is a call and a return and *)
(* everything else interleaves between the two.                            *)
(*                                                                         *)
(* Abstractions: messages are numbered in the order of the calls of        *)
(* Enqueue; time is abstract, the ticker may fire at any moment.  The      *)
(* channel is never closed, so the worker's branch for a closed channel    *)
(* has no action.                                                          *)
(***************************************************************************)
EXTENDS Storage, FiniteSets

CONSTANTS
    Handlers,     \* goroutines that call Enqueue
    Workers,      \* goroutines that run workerMain
    BufferSize,   \* workersBufferSize: capacity of the channel and of a batch
    Backends,     \* subset of {"mongo", "clickhouse"}: storages explored
    InKinds,      \* kinds of messages the handlers pass on
    MaxMsgs       \* bound: calls of Enqueue

ASSUME IngesterAssumption ==
    /\ BufferSize \in Nat \ {0}
    /\ Backends \subseteq {"mongo", "clickhouse"}
    /\ InKinds \subseteq Kinds
    /\ MaxMsgs \in Nat

Ids      == 1..MaxMsgs
Messages == [id : Ids, from : Handlers, kind : InKinds]

VARIABLES
    backend,    \* the storage s
    posted,     \* messages given to Enqueue so far
    channel,    \* channel's buffer
    sendq,      \* messages whose handlers are blocked in Enqueue, in order
    batch,      \* batch of each worker
    pc,         \* "select", "full" or "tick" (the Flush it is in), "dead"
    rows,       \* database: rows of each message
    lost,       \* history: messages dropped with a batch whose Flush failed
    ignored,    \* history: messages a successful Flush made no row of
    newest      \* history: newest message each worker has flushed

vars == <<backend, posted, channel, sendq, batch, pc, rows, lost, ignored, newest>>

-----------------------------------------------------------------------------
Init ==
    /\ backend \in Backends
    /\ posted = 0
    /\ channel = <<>>
    /\ sendq = <<>>
    /\ batch = [w \in Workers |-> <<>>]
    /\ pc = [w \in Workers |-> "select"]
    /\ rows = [id \in Ids |-> 0]
    /\ lost = {}
    /\ ignored = {}
    /\ newest = [w \in Workers |-> 0]

Blocked(h) == \E i \in 1..Len(sendq) : sendq[i].from = h

\* Enqueue(msg): blocks while the channel is full.
ChannelFullEarly == Len(channel) >= BufferSize - 1  \* mutant
ChannelFull == Len(channel) >= BufferSize

Enqueue(h, kind) ==
    LET msg == [id |-> posted + 1, from |-> h, kind |-> kind]
    IN /\ ~Blocked(h)
       /\ posted < MaxMsgs
       /\ posted' = posted + 1
       /\ IF ChannelFull
          THEN channel' = channel /\ sendq' = Append(sendq, msg)
          ELSE channel' = Append(channel, msg) /\ sendq' = sendq
       /\ UNCHANGED <<backend, batch, pc, rows, lost, ignored, newest>>

\* The receive of the select.  The slot it frees goes to the handler that has
\* waited longest.  A full batch is flushed.
BatchFullLate(msgs) == Len(msgs) > BufferSize  \* mutant
BatchFull(msgs) == Len(msgs) >= BufferSize

Receive(w) ==
    /\ pc[w] = "select"
    /\ channel # <<>>
    /\ LET msgs == Append(batch[w], Head(channel))
       IN /\ batch' = [batch EXCEPT ![w] = msgs]
          /\ pc' = [pc EXCEPT ![w] = IF BatchFull(msgs) THEN "full" ELSE "select"]
    /\ IF sendq = <<>>
       THEN channel' = Tail(channel) /\ sendq' = sendq
       ELSE channel' = Append(Tail(channel), Head(sendq)) /\ sendq' = Tail(sendq)
    /\ UNCHANGED <<backend, posted, rows, lost, ignored, newest>>

\* The ticker fires: a batch that is not empty is flushed.
TickNeverFlushes(msgs) == BatchFull(msgs)  \* mutant
TickFlushes(msgs) == Len(msgs) > 0

Tick(w) ==
    /\ pc[w] = "select"
    /\ TickFlushes(batch[w])
    /\ pc' = [pc EXCEPT ![w] = "tick"]
    /\ UNCHANGED <<backend, posted, channel, sendq, batch, rows, lost, ignored, newest>>

\* Flush returns.  A worker survives an error on a full batch, whose messages
\* it drops, and ends on an error of the ticker's flush.
KeepBatch(msgs) == msgs  \* mutant: no batch[:0]
ResetBatch(msgs) == <<>>

AfterFlush(w, err) == IF err /\ pc[w] = "tick" THEN "dead" ELSE "select"

MessageIds(msgs) == {msgs[i].id : i \in 1..Len(msgs)}
WithoutRow(msgs, ids) == {msgs[i] : i \in {j \in 1..Len(msgs) : msgs[j].id \notin ids}}

FlushReturns(w) ==
    /\ pc[w] \in {"full", "tick"}
    /\ \E o \in Outcomes(backend, batch[w]) :
        /\ rows' = [id \in Ids |-> IF id \in o.rows THEN rows[id] + 1 ELSE rows[id]]
        /\ IF o.err
           THEN lost' = lost \cup MessageIds(batch[w]) /\ ignored' = ignored
           ELSE /\ lost' = lost
                /\ ignored' = ignored \cup WithoutRow(batch[w], o.rows)
        /\ pc' = [pc EXCEPT ![w] = AfterFlush(w, o.err)]
        /\ newest' = [newest EXCEPT ![w] = batch[w][Len(batch[w])].id]
    /\ batch' = [batch EXCEPT ![w] = ResetBatch(@)]
    /\ UNCHANGED <<backend, posted, channel, sendq>>

Next ==
    \/ \E h \in Handlers, kind \in InKinds : Enqueue(h, kind)
    \/ \E w \in Workers : Receive(w)
    \/ \E w \in Workers : Tick(w)
    \/ \E w \in Workers : FlushReturns(w)

Spec == Init /\ [][Next]_vars

\* The runtime runs every goroutine that can go on, the ticker keeps firing,
\* and (external) every Flush returns.
Fairness ==
    \A w \in Workers :
        /\ WF_vars(Receive(w))
        /\ WF_vars(Tick(w))
        /\ WF_vars(FlushReturns(w))

FairSpec == Spec /\ Fairness

-----------------------------------------------------------------------------
(* Properties *)

\* Every variable stays in its type; the channel and the batches stay within
\* workersBufferSize, and a worker in its select holds less than a full batch.
TypeOK ==
    /\ backend \in Backends
    /\ posted \in 0..MaxMsgs
    /\ channel \in Seq(Messages) /\ Len(channel) <= BufferSize
    /\ sendq \in Seq(Messages)
    /\ batch \in [Workers -> Seq(Messages)]
    /\ pc \in [Workers -> {"select", "full", "tick", "dead"}]
    /\ \A w \in Workers :
        Len(batch[w]) < BufferSize \/ (Len(batch[w]) = BufferSize /\ pc[w] = "full")
    /\ rows \in [Ids -> Nat]
    /\ lost \subseteq Ids
    /\ ignored \subseteq Messages
    /\ newest \in [Workers -> 0..MaxMsgs]

\* Messages a worker has taken from the channel.
Received == posted - Len(channel) - Len(sendq)

\* The channel and the blocked handlers behind it form one queue in the order
\* of the calls of Enqueue: none is skipped, repeated or overtaken, and none
\* blocks while the channel has room.
QueueInOrder ==
    /\ sendq # <<>> => Len(channel) = BufferSize
    /\ \A i \in 1..Len(channel) : channel[i].id = Received + i
    /\ \A i \in 1..Len(sendq) : sendq[i].id = Received + Len(channel) + i

InBatch == UNION {MessageIds(batch[w]) : w \in Workers}
Settled == {id \in Ids : rows[id] > 0} \cup lost \cup {m.id : m \in ignored}

\* Conservation over workers, failing flushes and dying workers: a received
\* message is in the batch of exactly one worker or has its fate settled, and
\* never both.
Accounted ==
    /\ InBatch \cup Settled = 1..Received
    /\ InBatch \cap Settled = {}
    /\ \A v, w \in Workers :
        v # w => MessageIds(batch[v]) \cap MessageIds(batch[w]) = {}

\* The only good events without a row are those of a batch whose Flush failed:
\* a Flush that returns nil has written them all.
NoSilentLoss == \A m \in ignored : m.kind # "good"

\* One worker writes in the order of the calls of Enqueue, so with one worker
\* the database does; several workers reorder freely.
WorkerInOrder ==
    \A w \in Workers : \A i \in 1..Len(batch[w]) :
        /\ batch[w][i].id > newest[w]
        /\ \A j \in 1..(i - 1) : batch[w][j].id < batch[w][i].id

\* The ingester implements EventLog: at most one row for an event, and none
\* after it was given up.
Log == INSTANCE EventLog WITH accepted <- posted, settled <- Settled
ImplementsEventLog == Log!LogSpec

AllDead == \A w \in Workers : pc[w] = "dead"

\* Every call of Enqueue completes and its message is settled, a partial batch
\* by the ticker, unless every worker has ended on a failed flush of its ticker.
EveryMessageSettled ==
    \A id \in Ids : (posted >= id) ~> (id \in Settled \/ AllDead)
=============================================================================
