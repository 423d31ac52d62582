------------------------------ MODULE PosixIO ------------------------------
(***************************************************************************)
(* The POSIX transport of the client library, client/posix_io/PosixIO.cc:  *)
(* the send path, the queue of unsent buffers, the drain loop, the byte    *)
(* accounting, the three counters and the life of the connection.          *)
(*                                                                         *)
(* A PosixIO is used from one thread, so its operations do not interleave  *)
(* with one another; they interleave with the network, which may break a   *)
(* connection at any moment, between two writes of a drain loop too.  The  *)
(* module is a most general client: it calls the public operations in any  *)
(* order.                                                                  *)
(*                                                                         *)
(* Abstractions: a buffer is its number in the order of posting, its       *)
(* capacity and its read offset; its bytes are positions 0 .. cap-1, and a *)
(* frame on the wire is a range of positions.  A file descriptor is the    *)
(* number of the connection it was made for, so a descriptor number reused *)
(* by another part of the process is outside the model.  A kernel socket   *)
(* accepts any part of a write.                                            *)
(***************************************************************************)
EXTENDS Integers, Sequences

CONSTANTS
    Sizes,          \* buffer capacities the client allocates
    MaxSize,        \* a bound of Sizes
    SIZE_MOD,       \* 2^w, w the width of size_t
    QueueMaxSizes,  \* values given to setQueueMaxSize; 0 is "no limit"
    Transports,     \* subset of {"tcp", "tls"}: kinds of construction explored
    Interruptible,  \* TRUE: a signal handler may interrupt a write (EINTR)
    MaxMsgs,        \* bound: calls of send
    MaxFails,       \* bound: drains that saw a failing write
    MaxConns        \* bound: connections established

ASSUME SizesAssumption ==
    /\ MaxSize \in Nat
    /\ Sizes \subseteq 1..MaxSize
ASSUME BoundsAssumption ==
    /\ MaxMsgs \in Nat /\ MaxFails \in Nat /\ MaxConns \in Nat
    /\ QueueMaxSizes \subseteq Nat
    /\ Transports \subseteq {"tcp", "tls"}
    /\ Interruptible \in BOOLEAN
ASSUME SizeModAssumption == SIZE_MOD \in Nat /\ MaxSize + MaxFails < SIZE_MOD

Conns == 1..MaxConns
NoFd  == -1

VARIABLES
    transport,     \* "tls" iff _cert and _key are both given
    fd,            \* _fd
    connected,     \* _connected
    asyncMode,     \* _asyncMode
    queuemaxsize,  \* _queuemaxsize
    queuesize,     \* _queuesize
    queue,         \* _queue
    posted,        \* _logPostedCnt
    dropped,       \* _logDroppedCnt
    sentCnt,       \* _logSentCnt
    pc,            \* "new", "idle", "draining" (in onWriteOpportunity), "exited"
    sock,          \* kernel: state of each connection's socket
    nonblock,      \* kernel: O_NONBLOCK of each socket
    wire,          \* kernel: frame ranges each connection accepted, in order
    postedBytes,   \* history: bytes of all accepted buffers
    fails          \* history: drains that saw a failing write

conf     == <<transport, asyncMode, queuemaxsize>>
counters == <<posted, dropped, sentCnt, postedBytes>>
kernel   == <<sock, nonblock, wire>>
vars     == <<transport, fd, connected, asyncMode, queuemaxsize, queuesize, queue,
              posted, dropped, sentCnt, pc, sock, nonblock, wire, postedBytes, fails>>

-----------------------------------------------------------------------------
(* size_t arithmetic: one addition or subtraction of values below SIZE_MOD *)
(* leaves the range by less than SIZE_MOD.                                 *)
WrapSigned(n) == n  \* mutant: a signed written
Wrap(n) == IF n < 0 THEN n + SIZE_MOD
           ELSE IF n >= SIZE_MOD THEN n - SIZE_MOD ELSE n

\* The address data + off, relative to data: an offset that wrapped below 0
\* points before the buffer.
Position(off) == IF off <= MaxSize THEN off ELSE off - SIZE_MOD

Buffer(cap) == [id |-> posted + 1, cap |-> cap, off |-> 0, start |-> postedBytes]
Remaining(buf) == Wrap(buf.cap - buf.off)

-----------------------------------------------------------------------------
(* The kernel and the TLS library *)

SockStates == {"none", "open", "reset", "pipe", "closed"}

\* What write(_fd, ..., len) or SSL_write may return.  A socket takes a part of
\* a TCP write; SSL_write takes all of a record or fails with 0 or -1.
WriteResults(len) ==
    IF fd = NoFd THEN {-1}
    ELSE IF sock[fd] # "open" THEN IF transport = "tls" THEN {0, -1} ELSE {-1}
    ELSE IF transport = "tls" THEN {len, 0, -1}
    ELSE 1..len \cup (IF nonblock[fd] \/ Interruptible THEN {-1} ELSE {})

\* A write reports a reset once; the ones after it find a broken pipe.
SockAfterWrite ==
    IF fd # NoFd /\ sock[fd] = "reset" THEN [sock EXCEPT ![fd] = "pipe"] ELSE sock

\* A write on a broken pipe raises SIGPIPE, which ends a process that neither
\* ignores nor handles it.
MayRaiseSigpipe == fd # NoFd /\ sock[fd] = "pipe"

\* Positions from .. to-1 of a frame are accepted by the connection: a write
\* that continues the last range extends it.
Put(frames, buf, n) ==
    LET from == Position(buf.off)
        range(a) == [id |-> buf.id, cap |-> buf.cap, from |-> a, to |-> from + n]
        last == Len(frames)
    IN IF last > 0 /\ frames[last].id = buf.id /\ frames[last].to = from
       THEN [frames EXCEPT ![last] = range(frames[last].from)]
       ELSE Append(frames, range(from))

-----------------------------------------------------------------------------
(* initialize_connection(), called with the socket states sk.  The file    *)
(* descriptor it replaces is not closed, and _connected is never reset.    *)
(* Its caller returns to the application: pc' is "idle".                   *)

LookupFails(sk) ==
    /\ transport = "tcp"
    /\ sock' = sk
    /\ pc' = "idle"
    /\ UNCHANGED <<fd, connected, nonblock>>

ConnectFails(sk) ==
    /\ transport = "tcp"
    /\ fd' = NoFd
    /\ sock' = sk
    /\ pc' = "idle"
    /\ UNCHANGED <<connected, nonblock>>

\* Every failure of the TLS branch calls exit().
TLSFails(sk) ==
    /\ transport = "tls"
    /\ pc' = "exited"
    /\ sock' = sk
    /\ UNCHANGED <<fd, connected, nonblock>>

\* The new socket gets the descriptor flags of the current mode (fixAsyncMode).
Connects(sk) ==
    \E c \in Conns :
        /\ sk[c] = "none"
        /\ \A d \in Conns : d < c => sk[d] # "none"
        /\ fd' = c
        /\ connected' = TRUE
        /\ sock' = [sk EXCEPT ![c] = "open"]
        /\ nonblock' = [nonblock EXCEPT ![c] = asyncMode]
        /\ pc' = "idle"

InitializeConnection(sk) ==
    LookupFails(sk) \/ ConnectFails(sk) \/ TLSFails(sk) \/ Connects(sk)

-----------------------------------------------------------------------------
Init ==
    /\ transport \in Transports
    /\ fd = NoFd
    /\ connected = FALSE
    /\ asyncMode = FALSE
    /\ queuemaxsize = 0
    /\ queuesize = 0
    /\ queue = <<>>
    /\ posted = 0 /\ dropped = 0 /\ sentCnt = 0
    /\ pc = "new"
    /\ sock = [c \in Conns |-> "none"]
    /\ nonblock = [c \in Conns |-> FALSE]
    /\ wire = [c \in Conns |-> <<>>]
    /\ postedBytes = 0
    /\ fails = 0

\* The constructor's body.
Construct ==
    /\ pc = "new"
    /\ InitializeConnection(sock)
    /\ UNCHANGED <<conf, counters, queuesize, queue, wire, fails>>

-----------------------------------------------------------------------------
(* send(buf).  A buffer over the limit is handed back; the generated       *)
(* LogEvent functions ignore what send returns.                            *)

OverLimitOrFull(cap) == queuemaxsize # 0 /\ queuesize + cap >= queuemaxsize  \* mutant
OverLimitAlready(cap) == queuemaxsize # 0 /\ queuesize > queuemaxsize        \* mutant
OverLimit(cap) == queuemaxsize # 0 /\ queuesize + cap > queuemaxsize

SendDropped(cap) ==
    /\ OverLimit(cap)
    /\ dropped' = dropped + 1
    /\ UNCHANGED <<conf, kernel, fd, connected, queuesize, queue, posted, sentCnt, pc,
                   postedBytes, fails>>

MustQueueInAsyncMode == asyncMode  \* mutant
MustQueueBehindOthers == queue # <<>>  \* mutant
MustQueue == asyncMode \/ queue # <<>>

\* _queuesize less what was written, not below 0.
TakeOffNothing(size, written) == size  \* mutant
TakeOff(size, written) == IF written >= size THEN 0 ELSE size - written

CompleteOnProgress(buf, off) == off > 0  \* mutant
Complete(buf, off) == off = buf.cap

Post(cap) ==
    /\ ~OverLimit(cap)
    /\ posted' = posted + 1
    /\ postedBytes' = postedBytes + cap
    /\ UNCHANGED <<conf, dropped, fails>>

\* In async mode, and behind buffers that wait already, the buffer is queued.
SendQueued(cap) ==
    /\ Post(cap)
    /\ MustQueue
    /\ queuesize' = queuesize + cap
    /\ queue' = Append(queue, Buffer(cap))
    /\ UNCHANGED <<kernel, fd, connected, sentCnt, pc>>

\* Otherwise it is written at once; what the socket does not take is queued.
SendWritten(cap) ==
    /\ Post(cap)
    /\ ~MustQueue
    /\ \E n \in WriteResults(cap) :
        /\ n > 0
        /\ wire' = [wire EXCEPT ![fd] = Put(@, Buffer(cap), n)]
        /\ queuesize' = TakeOff(queuesize + cap, n)
        /\ IF Complete(Buffer(cap), n)
           THEN sentCnt' = sentCnt + 1 /\ queue' = queue
           ELSE sentCnt' = sentCnt /\ queue' = Append(queue, [Buffer(cap) EXCEPT !.off = n])
    /\ UNCHANGED <<fd, connected, pc, sock, nonblock>>

FailsOrIsPartial(cap) == \E n \in WriteResults(cap) : n < cap  \* mutant
Fails(cap) == \E n \in WriteResults(cap) : n <= 0

\* A failing write replaces the connection, unless errno reads 0, which only
\* SSL_write leaves possible.  The buffer waits for onWriteOpportunity (unless
\* the new connection's setup ended the process).
SendFailed(cap) ==
    /\ Post(cap)
    /\ ~MustQueue
    /\ Fails(cap)
    /\ queuesize' = queuesize + cap
    /\ queue' = Append(queue, Buffer(cap))
    /\ \/ InitializeConnection(SockAfterWrite)
       \/ /\ transport = "tls"
          /\ sock' = SockAfterWrite
          /\ UNCHANGED <<fd, connected, nonblock, pc>>
    /\ UNCHANGED <<sentCnt, wire>>

\* SIGPIPE's default action ends the process inside the write.
SendKilled(cap) ==
    /\ ~OverLimit(cap)
    /\ ~MustQueue
    /\ MayRaiseSigpipe
    /\ pc' = "exited"
    /\ UNCHANGED <<conf, counters, kernel, fd, connected, queuesize, queue, fails>>

Send(cap) ==
    /\ pc = "idle"
    /\ posted + dropped < MaxMsgs
    /\ \/ SendDropped(cap) \/ SendQueued(cap) \/ SendWritten(cap)
       \/ SendFailed(cap) \/ SendKilled(cap)

-----------------------------------------------------------------------------
(* onWriteOpportunity(): one DrainWrite per turn of its loop.              *)

OnWriteOpportunity ==
    /\ pc = "idle"
    /\ queue # <<>>
    /\ fails < MaxFails
    /\ pc' = "draining"
    /\ UNCHANGED <<conf, counters, kernel, fd, connected, queuesize, queue, fails>>

\* The loop body after its write.  written is a size_t: a returned -1 is
\* SIZE_MOD - 1, which is "> 0", so the failure takes the branch of progress.
Advance(written) ==
    LET buf == Head(queue)
        off == Wrap(buf.off + written)
    IN IF Complete(buf, off)
       THEN /\ queue' = Tail(queue)
            /\ sentCnt' = sentCnt + 1
            /\ pc' = IF Tail(queue) = <<>> THEN "idle" ELSE "draining"
       ELSE /\ queue' = [queue EXCEPT ![1].off = off]
            /\ sentCnt' = sentCnt
            /\ pc' = "idle"

DrainWrite ==
    /\ pc = "draining"
    /\ \E r \in WriteResults(Remaining(Head(queue))) :
        LET written == Wrap(r)
        IN /\ Advance(written)
           /\ queuesize' = TakeOff(queuesize, written)
           /\ wire' = IF r > 0 THEN [wire EXCEPT ![fd] = Put(@, Head(queue), r)] ELSE wire
           /\ fails' = IF r = -1 THEN fails + 1 ELSE fails
    /\ sock' = SockAfterWrite
    /\ UNCHANGED <<conf, fd, connected, posted, dropped, postedBytes, nonblock>>

DrainKilled ==
    /\ pc = "draining"
    /\ MayRaiseSigpipe
    /\ pc' = "exited"
    /\ UNCHANGED <<conf, counters, kernel, fd, connected, queuesize, queue, fails>>

-----------------------------------------------------------------------------
(* The setters and connectionGracefulShutdown()                            *)

\* fixAsyncMode fails on a descriptor that is not open and then does nothing.
FixNothing(mode) == nonblock' = nonblock  \* mutant
FixAsyncMode(mode) ==
    nonblock' = IF fd # NoFd /\ sock[fd] # "closed"
                THEN [nonblock EXCEPT ![fd] = mode] ELSE nonblock

SetAsyncMode(mode) ==
    /\ pc = "idle"
    /\ mode # asyncMode
    /\ asyncMode' = mode
    /\ FixAsyncMode(mode)
    /\ UNCHANGED <<transport, queuemaxsize, counters, fd, connected, queuesize, queue, pc,
                   sock, wire, fails>>

SetQueueMaxSize(n) ==
    /\ pc = "idle"
    /\ queuemaxsize' = n
    /\ UNCHANGED <<transport, asyncMode, counters, kernel, fd, connected, queuesize, queue,
                   pc, fails>>

\* The descriptor is closed and its number kept.
ConnectionGracefulShutdown ==
    /\ pc = "idle"
    /\ fd # NoFd
    /\ sock' = [sock EXCEPT ![fd] = "closed"]
    /\ UNCHANGED <<conf, counters, fd, connected, queuesize, queue, pc, nonblock, wire, fails>>

-----------------------------------------------------------------------------
(* Outside the library *)

\* The peer resets a connection, or closes it so that the next write finds a
\* broken pipe.
Break(c) ==
    /\ pc # "exited"
    /\ sock[c] = "open"
    /\ \E s \in {"reset", "pipe"} : sock' = [sock EXCEPT ![c] = s]
    /\ UNCHANGED <<conf, counters, fd, connected, queuesize, queue, pc, nonblock, wire, fails>>

Next ==
    \/ Construct
    \/ \E cap \in Sizes : Send(cap)
    \/ OnWriteOpportunity
    \/ DrainWrite
    \/ DrainKilled
    \/ \E mode \in BOOLEAN : SetAsyncMode(mode)
    \/ \E n \in QueueMaxSizes : SetQueueMaxSize(n)
    \/ ConnectionGracefulShutdown
    \/ \E c \in Conns : Break(c)

Spec == Init /\ [][Next]_vars

-----------------------------------------------------------------------------
(* Properties *)

\* Every variable stays in its type: size_t values below SIZE_MOD for offsets,
\* a queue that is a sequence of buffers, ranges of frames on the wire.
Buffers == [id : Nat, cap : 1..MaxSize, off : 0..(SIZE_MOD - 1), start : Nat]
Ranges  == [id : Nat, cap : 1..MaxSize, from : Int, to : Int]

TypeOK ==
    /\ transport \in Transports
    /\ fd \in Conns \cup {NoFd}
    /\ connected \in BOOLEAN /\ asyncMode \in BOOLEAN
    /\ queuemaxsize \in Nat /\ queuesize \in Nat
    /\ queue \in Seq(Buffers)
    /\ posted \in Nat /\ dropped \in Nat /\ sentCnt \in Nat
    /\ postedBytes \in Nat /\ fails \in Nat
    /\ pc \in {"new", "idle", "draining", "exited"}
    /\ sock \in [Conns -> SockStates]
    /\ nonblock \in [Conns -> BOOLEAN]
    /\ wire \in [Conns -> Seq(Ranges)]

\* Bytes the transport still holds, -1s of the drain loop included: a buffer
\* whose offset moved below 0 has more than its capacity to write.
Pending == IF queue = <<>> THEN 0
           ELSE postedBytes - (Head(queue).start + Position(Head(queue).off))

\* FIFO conservation: the accepted buffers are the sent ones followed by the
\* queued ones, in the order of posting: no path of send or onWriteOpportunity
\* loses, repeats or overtakes a buffer, failing writes included.
QueueIsUnsentSuffix ==
    /\ posted = sentCnt + Len(queue)
    /\ \A i \in 1..Len(queue) : queue[i].id = sentCnt + i

\* The byte accounting behind QueueSize() is exact until a drain sees a failing
\* write, over partial writes and reconnections.
QueueSizeExact == fails = 0 => queuesize = Pending

\* It never counts more than what is held, so it never refuses too early.
QueueSizeNeverOvercounts == queuesize <= Pending

\* An event is dropped only when the bytes held and the event exceed the limit.
DropAtLimit ==
    dropped' # dropped =>
        queuemaxsize > 0 /\ \E cap \in Sizes : Pending + cap > queuemaxsize
NoSpuriousDrop == [][DropAtLimit]_vars

\* The documented bound: an event is accepted only within the limit.
AcceptWithinLimit ==
    posted' # posted /\ queuemaxsize # 0
        => Pending + (postedBytes' - postedBytes) <= queuemaxsize

\* The limit bounds the queue, as long as no drain saw a failing write.
QueueBoundedUntilFailure == [][fails = 0 => AcceptWithinLimit]_vars
QueueBounded == [][AcceptWithinLimit]_vars

\* What a connection carries is whole frames one after the other, the last one
\* perhaps still incomplete.
WholeFrames(frames) ==
    \A i \in 1..Len(frames) :
        /\ frames[i].from = 0
        /\ frames[i].to <= frames[i].cap
        /\ i < Len(frames) => frames[i].to = frames[i].cap

FramesOnWire == \A c \in Conns : WholeFrames(wire[c])
FramesOnWireUntilFailure == fails = 0 => FramesOnWire

\* A buffer counted as sent had each of its bytes accepted by one connection,
\* drains with failing writes included.
SentIsOnWire ==
    \A id \in 1..sentCnt : \E c \in Conns :
        \E i \in 1..Len(wire[c]) :
            /\ wire[c][i].id = id
            /\ \A p \in 0..(wire[c][i].cap - 1) :
                \E j \in 1..Len(wire[c]) :
                    wire[c][j].id = id /\ wire[c][j].from <= p /\ p < wire[c][j].to

\* No frame is cut in two by a reconnection: its parts are on one connection.
NoFrameSpansConnections ==
    \A c, d \in Conns : \A i \in 1..Len(wire[c]), j \in 1..Len(wire[d]) :
        wire[c][i].id = wire[d][j].id => c = d

\* Events leave in the order of posting, over all the connections.
WireInPostingOrder ==
    \A c, d \in Conns : \A i \in 1..Len(wire[c]), j \in 1..Len(wire[d]) :
        (c < d \/ (c = d /\ i < j)) => wire[c][i].id <= wire[d][j].id

\* A usable socket is blocking exactly in sync mode, also after a reconnection
\* or a mode set while there was no connection.
SocketModeAgrees ==
    fd # NoFd /\ sock[fd] # "closed" => nonblock[fd] = asyncMode

\* Over TCP only a connection that broke is ever replaced: a healthy one is
\* never abandoned open (initialize_connection does not close what it replaces).
HealthyNeverAbandoned ==
    transport = "tcp" => \A c \in Conns : sock[c] = "open" => c = fd
=============================================================================
