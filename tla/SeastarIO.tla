----------------------------- MODULE SeastarIO -----------------------------
(***************************************************************************)
(* The Seastar transport of the client library, client/seastar_io/         *)
(* SeastarIO.cc and SeastarTLS_IO.cc: the transmit loop, the reconnect     *)
(* timer and the disconnection.                                            *)
(*                                                                         *)
(* Everything runs on one shard: a task runs until it waits, then another  *)
(* ready task runs.  A transmit loop is a chain of continuations: the body *)
(* up to its write, the write's completion, the stop predicate and the     *)
(* final step are tasks of their own, and tasks of the application (send,  *)
(* disconnect) run between them.                                           *)
(*                                                                         *)
(* What is assumed of the client.  A patient client calls connect only     *)
(* when it has no connection and no attempt to get one is under way, which *)
(* is what a client that connects once does.  Any other may call it at any *)
(* time: reconnect() only looks whether its timer is armed, so a second    *)
(* attempt may start beside the first and replace the streams of a         *)
(* connection in use.  What holds for the patient client only says so.     *)
(* Both disconnect once.  As the example client does, they log no more     *)
(* then, or they have several fibers and one logs on while another         *)
(* disconnects (shared).                                                   *)
(*                                                                         *)
(* A buffer is its number, its size and the bytes posted before it; the    *)
(* un-awaited flush is part of the stream.  What Seastar does with a write *)
(* whose stream is replaced under it is not defined: it ends well or not.  *)
(***************************************************************************)
EXTENDS Integers, Sequences, FiniteSets

CONSTANTS
    Sizes,          \* sizes of the buffers the client logs
    QueueMaxSizes,  \* values given to setQueueMaxSize; 0 is "no limit"
    Transports,     \* subset of {"tcp", "tls"}: SeastarIO and SeastarTLS_IO
    Sharing,        \* subset of BOOLEAN: the values of shared explored
    Patience,       \* subset of BOOLEAN: the values of patient explored
    MaxMsgs,        \* bound: calls of send
    MaxFails,       \* bound: writes that fail
    MaxConnects     \* bound: calls of connect

ASSUME SeastarAssumption ==
    /\ Sizes \subseteq Nat \ {0}
    /\ QueueMaxSizes \subseteq Nat
    /\ Transports \subseteq {"tcp", "tls"}
    /\ Sharing \subseteq BOOLEAN /\ Patience \subseteq BOOLEAN
    /\ MaxMsgs \in Nat /\ MaxFails \in Nat /\ MaxConnects \in Nat

Loops == 1..2        \* bound: transmit loops at a time.  A patient client has one;
                     \* two calls of connect give no client more than two.
None  == [id |-> 0, size |-> 0, start |-> 0]

VARIABLES
    transport,     \* which of the two classes
    shared,        \* whether several fibers of the client use the object
    patient,       \* whether connect is called only without a connection or attempt
    connected,     \* _connected
    transmitting,  \* _transmitting
    shuttingDown,  \* _shutting_down
    queuemaxsize,  \* _queuemaxsize
    queuesize,     \* _queuesize
    wqueue,        \* _wqueue
    posted,        \* _logPostedCnt
    dropped,       \* _logDroppedCnt
    sentCnt,       \* _logSentCnt
    timer,         \* _reconnect_timer: "off", "armed"
    attempts,      \* calls of seastar::connect that have not returned
    stream,        \* history: number of the connection _out writes to
    loop,          \* each transmit loop: "none", "writing", "check", "ended"
    out,           \* history: number of the connection each loop's write began on, or 0
    txLoop,        \* the loop whose end resolves _tx_finished
    inflight,      \* the buffer each loop is writing
    disc,          \* disconnect: "none", "waiting" (for _tx_finished), "ready",
                   \* "closing" (the streams), "closed" (resolved)
    uncounted,     \* history: buffers send let go without counting
    fails,         \* history: writes that failed
    failedBytes,   \* history: and their bytes
    postedBytes,   \* history: bytes of all posted buffers
    wire,          \* history: ids of the buffers written, in order
    connects       \* history: calls of connect

conf  == <<transport, shared, patient, queuemaxsize>>
conn  == <<connected, timer, attempts, stream, connects>>
count == <<posted, dropped, uncounted, postedBytes>>
sendq == <<wqueue, queuesize, loop, inflight, out, txLoop, transmitting>>
past  == <<sentCnt, fails, failedBytes, wire>>
vars  == <<conf, conn, count, sendq, past, shuttingDown, disc>>

-----------------------------------------------------------------------------
Init ==
    /\ transport \in Transports /\ shared \in Sharing /\ patient \in Patience
    /\ connected = FALSE /\ transmitting = FALSE /\ shuttingDown = FALSE
    /\ queuemaxsize = 0 /\ queuesize = 0 /\ wqueue = <<>>
    /\ posted = 0 /\ dropped = 0 /\ sentCnt = 0
    /\ timer = "off" /\ attempts = 0 /\ stream = 0
    /\ loop = [l \in Loops |-> "none"]
    /\ inflight = [l \in Loops |-> None]
    /\ out = [l \in Loops |-> 0] /\ txLoop = 1
    /\ disc = "none"
    /\ uncounted = 0 /\ fails = 0 /\ failedBytes = 0 /\ postedBytes = 0
    /\ wire = <<>> /\ connects = 0

Active == {l \in Loops : loop[l] # "none"}

\* No continuation of a loop is ready to run.
Quiet == \A l \in Loops : loop[l] \in {"none", "writing"}

-----------------------------------------------------------------------------
(* connect(), reconnect() and its timer                                    *)

Trying == timer = "armed" \/ attempts > 0

\* An armed timer is left alone.
Connect ==
    /\ disc = "none"
    /\ patient => ~connected /\ ~Trying
    /\ connects < MaxConnects
    /\ connects' = connects + 1
    /\ timer' = "armed"
    /\ UNCHANGED <<conf, connected, attempts, stream, count, sendq, past,
                   shuttingDown, disc>>

\* A second after it was armed; a ready continuation does not wait as long.
TimerFires ==
    /\ timer = "armed"
    /\ Quiet
    /\ timer' = "off"
    /\ attempts' = attempts + 1
    /\ UNCHANGED <<conf, connected, stream, connects, count, sendq, past,
                   shuttingDown, disc>>

\* initializeConnectedSocket() replaces _out, whatever writes to it.  disconnect
\* does not cancel the timer, so this may happen after it.
ArmsAgain == "armed"  \* mutant: the timer is armed again on success too
AfterEstablished == timer

Established ==
    /\ attempts > 0
    /\ attempts' = attempts - 1
    /\ timer' = AfterEstablished
    /\ connected' = TRUE
    /\ stream' = stream + 1
    /\ UNCHANGED <<conf, connects, count, sendq, past, shuttingDown, disc>>

\* A failing connect arms the timer again.  The TLS class does not handle a
\* failure to build its credentials: nothing arms the timer again.
GivesUp == {timer}  \* mutant: a failure that nothing handles
AfterConnectFails == IF transport = "tls" THEN {"armed", timer} ELSE {"armed"}

ConnectFails ==
    /\ attempts > 0
    /\ attempts' = attempts - 1
    /\ timer' \in AfterConnectFails
    /\ UNCHANGED <<conf, connected, stream, connects, count, sendq, past,
                   shuttingDown, disc>>

-----------------------------------------------------------------------------
(* send(buffer)                                                            *)

OverLimitAlready(size) == queuemaxsize # 0 /\ queuesize > queuemaxsize  \* mutant
OverLimit(size) == queuemaxsize # 0 /\ queuesize + size > queuemaxsize

SendDropped(size) ==
    /\ OverLimit(size)
    /\ dropped' = dropped + 1
    /\ UNCHANGED <<posted, uncounted, postedBytes, sendq>>

\* Without a connection the buffer is let go; no counter says so.
SendLetGo(size) ==
    /\ ~OverLimit(size)
    /\ shuttingDown \/ ~connected
    /\ uncounted' = uncounted + 1
    /\ UNCHANGED <<posted, dropped, postedBytes, sendq>>

\* A loop takes the oldest buffer off the queue q and writes it.
StartWriteOfNothing(l, q) ==  \* mutant
    /\ loop' = [loop EXCEPT ![l] = "writing"]
    /\ wqueue' = Tail(q)
    /\ transmitting' = TRUE
    /\ out' = [out EXCEPT ![l] = stream]
    /\ UNCHANGED inflight

StartWrite(l, q) ==
    /\ loop' = [loop EXCEPT ![l] = "writing"]
    /\ inflight' = [inflight EXCEPT ![l] = Head(q)]
    /\ wqueue' = Tail(q)
    /\ transmitting' = TRUE
    /\ out' = [out EXCEPT ![l] = stream]

\* With a loop running the buffer is only queued; otherwise a new loop starts
\* at once, with its first write in this very call, and its future is
\* _tx_finished (disconnect has taken its copy when it was called).
AlwaysStarts == FALSE  \* mutant
LoopRuns == transmitting

SendPosted(size) ==
    LET buf == [id |-> posted + 1, size |-> size, start |-> postedBytes]
        q   == Append(wqueue, buf)
    IN /\ ~OverLimit(size)
       /\ ~shuttingDown /\ connected
       /\ posted' = posted + 1
       /\ postedBytes' = postedBytes + size
       /\ queuesize' = queuesize + size
       /\ IF LoopRuns
          THEN wqueue' = q /\ UNCHANGED <<loop, inflight, out, txLoop, transmitting>>
          ELSE \E l \in Loops :
                  /\ loop[l] = "none"
                  /\ \A k \in Loops : k < l => loop[k] # "none"
                  /\ StartWrite(l, q)
                  /\ txLoop' = IF disc = "none" THEN l ELSE txLoop
       /\ UNCHANGED <<dropped, uncounted>>

\* The application may call.
Logs == disc = "none" \/ shared

Send(size) ==
    /\ Logs
    /\ posted + dropped + uncounted < MaxMsgs
    /\ SendDropped(size) \/ SendLetGo(size) \/ SendPosted(size)
    /\ UNCHANGED <<conf, conn, past, shuttingDown, disc>>

-----------------------------------------------------------------------------
(* The transmit loop                                                       *)

\* _queuesize less the size of a written buffer, not below 0.
TakeOffNothing(size) == queuesize  \* mutant
TakeOff(size) == IF size >= queuesize THEN 0 ELSE queuesize - size

WriteDone(l) ==
    /\ loop[l] = "writing"
    /\ loop' = [loop EXCEPT ![l] = "check"]
    /\ inflight' = [inflight EXCEPT ![l] = None]
    /\ out' = [out EXCEPT ![l] = 0]
    /\ queuesize' = TakeOff(inflight[l].size)
    /\ sentCnt' = sentCnt + 1
    /\ wire' = Append(wire, inflight[l].id)
    /\ UNCHANGED <<conf, conn, count, wqueue, txLoop, transmitting, fails,
                   failedBytes, shuttingDown, disc>>

\* The buffer of a failed write is lost and stays in _queuesize; nothing here
\* calls reconnect().
WriteFails(l) ==
    /\ loop[l] = "writing"
    /\ fails < MaxFails
    /\ loop' = [loop EXCEPT ![l] = "check"]
    /\ inflight' = [inflight EXCEPT ![l] = None]
    /\ out' = [out EXCEPT ![l] = 0]
    /\ transmitting' = FALSE
    /\ connected' = FALSE
    /\ fails' = fails + 1
    /\ failedBytes' = failedBytes + inflight[l].size
    /\ UNCHANGED <<conf, timer, attempts, stream, connects, count, wqueue, queuesize,
                   txLoop, sentCnt, wire, shuttingDown, disc>>

\* The stop predicate, and the next turn of the body unless it holds.
StopsAtShutdownOnly == wqueue = <<>> \/ shuttingDown  \* mutant
Stops == wqueue = <<>> \/ ~connected \/ shuttingDown

Check(l) ==
    /\ loop[l] = "check"
    /\ IF Stops
       THEN /\ loop' = [loop EXCEPT ![l] = "ended"]
            /\ UNCHANGED <<wqueue, inflight, out, transmitting>>
       ELSE StartWrite(l, wqueue)
    /\ UNCHANGED <<conf, conn, count, queuesize, txLoop, past, shuttingDown, disc>>

\* The step after the loop, which resolves its future.  A send since the stop
\* predicate held has only queued its buffer.
KeepFlag == transmitting  \* mutant
FlagAfterLoop == FALSE

Finally(l) ==
    /\ loop[l] = "ended"
    /\ loop' = [loop EXCEPT ![l] = "none"]
    /\ transmitting' = FlagAfterLoop
    /\ disc' = IF disc = "waiting" /\ l = txLoop THEN "ready" ELSE disc
    /\ UNCHANGED <<conf, conn, count, wqueue, queuesize, inflight, out, txLoop, past,
                   shuttingDown>>

-----------------------------------------------------------------------------
(* disconnect()                                                            *)

AtOnce == "ready"        \* mutant
AlwaysWaits == "waiting"  \* mutant
AfterTxFinished == IF loop[txLoop] = "none" THEN "ready" ELSE "waiting"

Disconnect ==
    /\ disc = "none"
    /\ disc' = IF connected THEN AfterTxFinished ELSE "closed"
    /\ UNCHANGED <<conf, conn, count, sendq, past, shuttingDown>>

\* The continuation of _tx_finished.  _connected stays TRUE.
Close ==
    /\ disc = "ready"
    /\ shuttingDown' = TRUE
    /\ disc' = "closing"
    /\ UNCHANGED <<conf, conn, count, sendq, past>>

\* Both streams are closed; their failures are swallowed.
Closed ==
    /\ disc = "closing"
    /\ disc' = "closed"
    /\ UNCHANGED <<conf, conn, count, sendq, past, shuttingDown>>

SetQueueMaxSize(n) ==
    /\ Logs
    /\ queuemaxsize' = n
    /\ UNCHANGED <<transport, shared, patient, conn, count, sendq, past, shuttingDown,
                   disc>>

Next ==
    \/ Connect \/ TimerFires \/ Established \/ ConnectFails
    \/ \E size \in Sizes : Send(size)
    \/ \E l \in Loops : WriteDone(l)
    \/ \E l \in Loops : WriteFails(l)
    \/ \E l \in Loops : Check(l)
    \/ \E l \in Loops : Finally(l)
    \/ Disconnect \/ Close \/ Closed
    \/ \E n \in QueueMaxSizes : SetQueueMaxSize(n)

Spec == Init /\ [][Next]_vars

\* The reactor runs every ready task and timer, and (external) a write and a
\* close end and a server that is tried again and again is reached.
FairSpec ==
    /\ Spec
    /\ \A l \in Loops :
        /\ WF_vars(WriteDone(l) \/ WriteFails(l))
        /\ WF_vars(Check(l))
        /\ WF_vars(Finally(l))
    /\ WF_vars(Close)
    /\ WF_vars(Closed)
    /\ WF_vars(TimerFires)
    /\ SF_vars(Established)

-----------------------------------------------------------------------------
(* Properties *)

Buffers == [id : Nat \ {0}, size : Sizes, start : Nat]

\* Every variable stays in its type.
TypeOK ==
    /\ transport \in Transports /\ shared \in BOOLEAN /\ patient \in BOOLEAN
    /\ connected \in BOOLEAN /\ transmitting \in BOOLEAN /\ shuttingDown \in BOOLEAN
    /\ queuemaxsize \in Nat /\ queuesize \in Nat
    /\ wqueue \in Seq(Buffers)
    /\ posted \in Nat /\ dropped \in Nat /\ sentCnt \in Nat
    /\ timer \in {"off", "armed"} /\ attempts \in Nat /\ stream \in Nat
    /\ loop \in [Loops -> {"none", "writing", "check", "ended"}]
    /\ inflight \in [Loops -> Buffers \cup {None}]
    /\ \A l \in Loops : loop[l] = "writing" <=> inflight[l] # None
    /\ out \in [Loops -> Nat] /\ txLoop \in Loops
    /\ disc \in {"none", "waiting", "ready", "closing", "closed"}
    /\ uncounted \in Nat /\ fails \in Nat /\ failedBytes \in Nat
    /\ postedBytes \in Nat /\ wire \in Seq(Nat) /\ connects \in Nat

\* Two writes on one output stream at a time are not allowed: over all tasks
\* that run between a loop's steps, and over failures and new connections, no
\* second transmit loop of a patient client starts while one has not ended.
OneLoop == patient => \A k, l \in Active : k = l

\* _transmitting never stays set without a loop that will reset it; if it did,
\* every later send would only queue.
FlagHasLoop == transmitting => Active # {}

\* The buffers a patient client posted are those sent, failed, in flight and
\* queued; the queue holds the latest ones, in order, and the wire the earlier
\* ones.
Conservation ==
    patient =>
        /\ posted = sentCnt + fails + Cardinality({l \in Loops : loop[l] = "writing"})
                      + Len(wqueue)
        /\ \A i \in 1..Len(wqueue) : wqueue[i].id = posted - Len(wqueue) + i
        /\ \A i, j \in 1..Len(wire) : i < j => wire[i] < wire[j]
        /\ \A l \in Active, i \in 1..Len(wire) :
                inflight[l] # None => wire[i] < inflight[l].id

\* The bytes the transport still holds, those in flight included.
Queued == IF wqueue = <<>> THEN 0 ELSE postedBytes - Head(wqueue).start
Held == Queued + inflight[1].size + inflight[2].size

\* _queuesize is exact until a write fails: over partial turns of the loops and
\* new connections the clipping of its subtraction never applies.
QueueSizeExact == fails = 0 => queuesize = Held

\* docs/architecture.md:269-275: an event is discarded when the queue has reached
\* its capacity, and so, on a connection that works, only then.  A failed write's
\* bytes stay in _queuesize, so the code discards events with an empty queue.
DropsOnlyWhenFull ==
    [][dropped' # dropped /\ connected =>
         \E size \in Sizes : queuemaxsize # 0 /\ Held + size > queuemaxsize]_vars

\* A buffer is accepted only within the limit, also after failures.
AcceptWithinLimit ==
    posted' # posted /\ queuemaxsize # 0
        => Held + (postedBytes' - postedBytes) <= queuemaxsize
QueueBounded == [][AcceptWithinLimit]_vars

\* The stream of a patient client's write stays as long as the write: it is the
\* one of the present connection, no loop goes on writing to a broken one, and no
\* new connection replaces it.
StreamKept ==
    patient => \A l \in Loops : loop[l] = "writing" => connected /\ out[l] = stream

\* The streams are closed only when no write is in flight, and none starts
\* afterwards.  A fiber that logs while another disconnects breaks this (the
\* disconnect waits for the loop it found, not for one that starts behind it),
\* and so does a client with two loops.
NoWriteAfterClose ==
    shuttingDown /\ ~shared /\ patient => \A l \in Loops : loop[l] # "writing"

\* A disconnect resolves.  (A fiber that logs on may keep the loop running.)
DisconnectResolves == (disc # "none" /\ ~shared) ~> (disc = "closed")

\* Once asked to connect the transport goes on trying, over any number of
\* failures and a disconnection, until it has a connection; only the TLS class
\* may give up, on credentials it cannot build.
KeepsTrying == Trying ~> (connected \/ (transport = "tls" /\ ~Trying))

\* What was queued has been sent when a disconnect resolves, if no write failed.
DrainedAtClose == disc = "closed" /\ fails = 0 => wqueue = <<>>
=============================================================================
