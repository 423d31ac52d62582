--------------------------- MODULE PosixIOProofs ---------------------------
(***************************************************************************)
(* Proofs, for every value of the constants, of the safety properties of   *)
(* PosixIO.                                                                *)
(***************************************************************************)
EXTENDS PosixIO, SequenceTheorems, TLAPS

\* The drain loop runs only while a buffer waits.
DrainInv == pc = "draining" => queue # <<>>

TypeInv == TypeOK /\ DrainInv

-----------------------------------------------------------------------------
(* The operators of the model *)

\* size_t arithmetic stays in the range of size_t.
LEMMA WrapRange ==
    ASSUME NEW n \in -SIZE_MOD..(2 * SIZE_MOD - 1)
    PROVE  Wrap(n) \in 0..(SIZE_MOD - 1)
BY SizeModAssumption, SizesAssumption, BoundsAssumption DEF Wrap

\* A write returns -1, 0 or a number of bytes not above its length.
LEMMA WriteResultsRange ==
    ASSUME NEW len \in 0..(SIZE_MOD - 1), NEW r \in WriteResults(len)
    PROVE  /\ r \in -1..len
           /\ r > 0 => fd # NoFd /\ sock[fd] = "open"
BY SizeModAssumption, SizesAssumption, BoundsAssumption DEF WriteResults

\* A new buffer is a buffer.
LEMMA BufferType ==
    ASSUME TypeOK, NEW cap \in Sizes
    PROVE  /\ Buffer(cap) \in Buffers
           /\ cap \in 1..MaxSize
           /\ \A n \in 0..cap : [Buffer(cap) EXCEPT !.off = n] \in Buffers
<1> USE SizeModAssumption, SizesAssumption, BoundsAssumption
<1>1. cap \in 1..MaxSize
  OBVIOUS
<1>2. Buffer(cap) \in Buffers
  BY <1>1 DEF TypeOK, Buffer, Buffers
<1>3. ASSUME NEW n \in 0..cap PROVE [Buffer(cap) EXCEPT !.off = n] \in Buffers
  <2>1. n \in 0..(SIZE_MOD - 1)
    BY <1>1
  <2> QED BY <1>2, <2>1 DEF Buffers
<1> QED BY <1>1, <1>2, <1>3

\* Recording an accepted write keeps a connection's history a sequence of ranges.
LEMMA PutType ==
    ASSUME NEW frames \in Seq(Ranges), NEW buf \in Buffers, NEW n \in Nat
    PROVE  Put(frames, buf, n) \in Seq(Ranges)
<1> DEFINE from == Position(buf.off)
           last == Len(frames)
           range(a) == [id |-> buf.id, cap |-> buf.cap, from |-> a, to |-> from + n]
<1>1. from \in Int
  BY SizeModAssumption, SizesAssumption, BoundsAssumption DEF Position, Buffers
<1>2. \A a \in Int : range(a) \in Ranges
  BY <1>1 DEF Ranges, Buffers
<1>3. CASE last > 0 /\ frames[last].id = buf.id /\ frames[last].to = from
  <2>1. last \in 1..Len(frames) /\ frames[last] \in Ranges
    BY <1>3
  <2>2. range(frames[last].from) \in Ranges
    BY <2>1, <1>2 DEF Ranges
  <2>3. [frames EXCEPT ![last] = range(frames[last].from)] \in Seq(Ranges)
    BY <2>1, <2>2
  <2> QED BY <1>3, <2>3 DEF Put
<1>4. CASE ~(last > 0 /\ frames[last].id = buf.id /\ frames[last].to = from)
  BY <1>1, <1>2, <1>4 DEF Put
<1> QED BY <1>3, <1>4

\* Whatever becomes of a connection attempt, the connection's state is well typed.
LEMMA InitializeConnectionType ==
    ASSUME TypeOK, NEW sk \in [Conns -> SockStates], InitializeConnection(sk)
    PROVE  /\ fd' \in Conns \cup {NoFd}
           /\ connected' \in BOOLEAN
           /\ pc' \in {"idle", "exited"}
           /\ sock' \in [Conns -> SockStates]
           /\ nonblock' \in [Conns -> BOOLEAN]
<1>1. CASE LookupFails(sk) BY <1>1 DEF LookupFails, TypeOK
<1>2. CASE ConnectFails(sk) BY <1>2 DEF ConnectFails, TypeOK
<1>3. CASE TLSFails(sk) BY <1>3 DEF TLSFails, TypeOK
<1>4. CASE Connects(sk) BY <1>4 DEF Connects, TypeOK, SockStates
<1> QED BY <1>1, <1>2, <1>3, <1>4 DEF InitializeConnection

LEMMA SockAfterWriteType ==
    ASSUME TypeOK PROVE SockAfterWrite \in [Conns -> SockStates]
BY DEF TypeOK, SockAfterWrite, SockStates

-----------------------------------------------------------------------------
(* Type correctness *)

LEMMA InitTypeInv == Init => TypeInv
<1> SUFFICES ASSUME Init PROVE TypeInv
  OBVIOUS
<1>1. sock \in [Conns -> SockStates] /\ nonblock \in [Conns -> BOOLEAN]
  BY DEF Init, SockStates
<1>2. queue \in Seq(Buffers) /\ wire \in [Conns -> Seq(Ranges)]
  BY DEF Init
<1>3. connected \in BOOLEAN /\ asyncMode \in BOOLEAN
  BY Zenon DEF Init
<1> QED BY <1>1, <1>2, <1>3, BoundsAssumption DEF Init, TypeInv, TypeOK, DrainInv

LEMMA SendTypeInv ==
    ASSUME TypeInv, NEW cap \in Sizes, Send(cap) PROVE TypeInv'
<1> USE SizeModAssumption, SizesAssumption, BoundsAssumption
<1>0. cap \in 1..MaxSize /\ Buffer(cap) \in Buffers /\ cap \in 0..(SIZE_MOD - 1)
  BY BufferType DEF TypeInv
<1>1. CASE SendDropped(cap)
  BY <1>1 DEF SendDropped, TypeInv, TypeOK, DrainInv, conf, kernel
<1>2. CASE SendQueued(cap)
  BY <1>0, <1>2 DEF SendQueued, Send, Post, TypeInv, TypeOK, DrainInv, conf, kernel
<1>3. CASE SendWritten(cap)
  <2>1. PICK n \in WriteResults(cap) :
          /\ n > 0
          /\ wire' = [wire EXCEPT ![fd] = Put(@, Buffer(cap), n)]
          /\ queuesize' = TakeOff(queuesize + cap, n)
          /\ IF Complete(Buffer(cap), n)
             THEN sentCnt' = sentCnt + 1 /\ queue' = queue
             ELSE sentCnt' = sentCnt /\ queue' = Append(queue, [Buffer(cap) EXCEPT !.off = n])
    BY <1>3 DEF SendWritten
  <2>2. n \in 1..cap /\ fd \in Conns
    BY <1>0, <2>1, WriteResultsRange DEF TypeInv, TypeOK
  <2>3. wire' \in [Conns -> Seq(Ranges)]
    BY <1>0, <2>1, <2>2, PutType DEF TypeInv, TypeOK
  <2>4. queuesize' \in Nat
    BY <1>0, <2>1, <2>2 DEF TypeInv, TypeOK, TakeOff
  <2>5. queue' \in Seq(Buffers) /\ sentCnt' \in Nat
    <3>1. [Buffer(cap) EXCEPT !.off = n] \in Buffers
      BY <2>2, BufferType DEF TypeInv
    <3>2. Append(queue, [Buffer(cap) EXCEPT !.off = n]) \in Seq(Buffers)
      BY <3>1 DEF TypeInv, TypeOK
    <3>3. CASE Complete(Buffer(cap), n)
      BY <2>1, <3>3 DEF TypeInv, TypeOK
    <3>4. CASE ~Complete(Buffer(cap), n)
      BY <2>1, <3>2, <3>4 DEF TypeInv, TypeOK
    <3> QED BY <3>3, <3>4
  <2> QED BY <1>0, <1>3, <2>3, <2>4, <2>5 DEF SendWritten, Send, Post, TypeInv, TypeOK, DrainInv, conf
<1>4. CASE SendFailed(cap)
  <2>1. /\ fd' \in Conns \cup {NoFd}
        /\ connected' \in BOOLEAN
        /\ pc' \in {"idle", "exited"}
        /\ sock' \in [Conns -> SockStates]
        /\ nonblock' \in [Conns -> BOOLEAN]
    BY <1>4, InitializeConnectionType, SockAfterWriteType DEF SendFailed, Send, TypeInv, TypeOK
  <2> QED BY <1>0, <1>4, <2>1 DEF SendFailed, Send, Post, TypeInv, TypeOK, DrainInv, conf
<1>5. CASE SendKilled(cap)
  BY <1>5 DEF SendKilled, TypeInv, TypeOK, DrainInv, conf, kernel, counters
<1> QED BY <1>1, <1>2, <1>3, <1>4, <1>5 DEF Send

\* The head of a draining queue, and what a turn of the loop makes of it.
LEMMA DrainHeadType ==
    ASSUME TypeInv, pc = "draining"
    PROVE  /\ Head(queue) \in Buffers /\ queue # <<>>
           /\ Remaining(Head(queue)) \in 0..(SIZE_MOD - 1)
<1> USE SizeModAssumption, SizesAssumption, BoundsAssumption
<1>1. Head(queue) \in Buffers /\ queue # <<>>
  BY DEF TypeInv, TypeOK, DrainInv
<1>2. Head(queue).cap - Head(queue).off \in -SIZE_MOD..(2 * SIZE_MOD - 1)
  <2>1. Head(queue).off \in 0..(SIZE_MOD - 1) /\ Head(queue).cap \in 1..MaxSize
    BY <1>1 DEF Buffers
  <2> QED BY <2>1
<1> QED BY <1>1, <1>2, WrapRange DEF Remaining

LEMMA AdvanceType ==
    ASSUME TypeInv, pc = "draining", NEW written \in 0..(SIZE_MOD - 1), Advance(written)
    PROVE  /\ queue' \in Seq(Buffers)
           /\ sentCnt' \in Nat
           /\ pc' \in {"idle", "draining"}
           /\ pc' = "draining" => queue' # <<>>
<1> USE SizeModAssumption, SizesAssumption, BoundsAssumption
<1> DEFINE off == Wrap(Head(queue).off + written)
<1>1. Head(queue) \in Buffers /\ queue # <<>> /\ queue \in Seq(Buffers) /\ sentCnt \in Nat
  BY DrainHeadType DEF TypeInv, TypeOK
<1>2. off \in 0..(SIZE_MOD - 1)
  <2>1. Head(queue).off \in 0..(SIZE_MOD - 1)
    BY <1>1 DEF Buffers
  <2>2. Head(queue).off + written \in -SIZE_MOD..(2 * SIZE_MOD - 1)
    BY <2>1
  <2> QED BY <2>2, WrapRange
<1>3. CASE Complete(Head(queue), off)
  <2>1. queue' = Tail(queue) /\ sentCnt' = sentCnt + 1
        /\ pc' = IF Tail(queue) = <<>> THEN "idle" ELSE "draining"
    BY <1>3 DEF Advance
  <2>2. Tail(queue) \in Seq(Buffers)
    BY <1>1
  <2> QED BY <1>1, <2>1, <2>2
<1>4. CASE ~Complete(Head(queue), off)
  <2>1. 1 \in 1..Len(queue) /\ [queue[1] EXCEPT !.off = off] \in Buffers
    <3>1. 1 \in 1..Len(queue) /\ queue[1] \in Buffers
      BY <1>1
    <3> QED BY <3>1, <1>2 DEF Buffers
  <2>2. [queue EXCEPT ![1].off = off] \in Seq(Buffers)
    BY <1>1, <2>1
  <2> QED BY <1>1, <1>4, <2>2 DEF Advance
<1> QED BY <1>3, <1>4

LEMMA DrainWriteTypeInv ==
    ASSUME TypeInv, DrainWrite PROVE TypeInv'
<1> USE SizeModAssumption, SizesAssumption, BoundsAssumption
<1>1. PICK r \in WriteResults(Remaining(Head(queue))) :
        /\ Advance(Wrap(r))
        /\ queuesize' = TakeOff(queuesize, Wrap(r))
        /\ wire' = IF r > 0 THEN [wire EXCEPT ![fd] = Put(@, Head(queue), r)] ELSE wire
        /\ fails' = IF r = -1 THEN fails + 1 ELSE fails
  BY DEF DrainWrite
<1>2. pc = "draining" /\ Head(queue) \in Buffers
  BY DrainHeadType DEF DrainWrite
<1>3. /\ r \in -1..Remaining(Head(queue))
      /\ r \in -1..(SIZE_MOD - 1)
      /\ r > 0 => fd # NoFd
  BY <1>2, DrainHeadType, WriteResultsRange
<1>4. Wrap(r) \in 0..(SIZE_MOD - 1)
  BY <1>3, WrapRange
<1>5. /\ queue' \in Seq(Buffers)
      /\ sentCnt' \in Nat
      /\ pc' \in {"idle", "draining"}
      /\ pc' = "draining" => queue' # <<>>
  BY <1>1, <1>2, <1>4, AdvanceType
<1>6. queuesize' \in Nat
  BY <1>1, <1>4 DEF TakeOff, TypeInv, TypeOK
<1>7. wire' \in [Conns -> Seq(Ranges)]
  <2>1. CASE r > 0
    <3>1. fd \in Conns /\ r \in Nat /\ wire \in [Conns -> Seq(Ranges)]
      BY <1>3, <2>1 DEF TypeInv, TypeOK
    <3>2. Put(wire[fd], Head(queue), r) \in Seq(Ranges)
      BY <1>2, <3>1, PutType
    <3> QED BY <1>1, <2>1, <3>1, <3>2
  <2>2. CASE ~(r > 0)
    BY <1>1, <2>2 DEF TypeInv, TypeOK
  <2> QED BY <2>1, <2>2
<1>8. sock' \in [Conns -> SockStates]
  BY SockAfterWriteType DEF DrainWrite, TypeInv
<1>9. fails' \in Nat
  BY <1>1 DEF TypeInv, TypeOK
<1> QED BY <1>5, <1>6, <1>7, <1>8, <1>9 DEF DrainWrite, TypeInv, TypeOK, DrainInv, conf

\* Every step keeps the types.
LEMMA NextTypeInv == TypeInv /\ [Next]_vars => TypeInv'
<1> SUFFICES ASSUME TypeInv, [Next]_vars PROVE TypeInv'
  OBVIOUS
<1> USE SizeModAssumption, SizesAssumption, BoundsAssumption
<1>1. CASE Construct
  <2>1. /\ fd' \in Conns \cup {NoFd}
        /\ connected' \in BOOLEAN
        /\ pc' \in {"idle", "exited"}
        /\ sock' \in [Conns -> SockStates]
        /\ nonblock' \in [Conns -> BOOLEAN]
    BY <1>1, InitializeConnectionType DEF Construct, TypeInv, TypeOK
  <2> QED BY <1>1, <2>1 DEF Construct, TypeInv, TypeOK, DrainInv, conf, counters
<1>2. ASSUME NEW cap \in Sizes, Send(cap) PROVE TypeInv'
  BY <1>2, SendTypeInv
<1>3. CASE OnWriteOpportunity
  BY <1>3 DEF OnWriteOpportunity, TypeInv, TypeOK, DrainInv, conf, counters, kernel
<1>4. CASE DrainWrite
  BY <1>4, DrainWriteTypeInv
<1>5. CASE DrainKilled
  BY <1>5 DEF DrainKilled, TypeInv, TypeOK, DrainInv, conf, counters, kernel
<1>6. ASSUME NEW mode \in BOOLEAN, SetAsyncMode(mode) PROVE TypeInv'
  <2>1. nonblock' \in [Conns -> BOOLEAN]
    BY <1>6 DEF SetAsyncMode, FixAsyncMode, TypeInv, TypeOK
  <2> QED BY <1>6, <2>1 DEF SetAsyncMode, TypeInv, TypeOK, DrainInv, counters
<1>7. ASSUME NEW n \in QueueMaxSizes, SetQueueMaxSize(n) PROVE TypeInv'
  BY <1>7 DEF SetQueueMaxSize, TypeInv, TypeOK, DrainInv, counters, kernel
<1>8. CASE ConnectionGracefulShutdown
  <2>1. sock' \in [Conns -> SockStates]
    BY <1>8 DEF ConnectionGracefulShutdown, TypeInv, TypeOK, SockStates
  <2> QED BY <1>8, <2>1 DEF ConnectionGracefulShutdown, TypeInv, TypeOK, DrainInv, conf, counters
<1>9. ASSUME NEW c \in Conns, Break(c) PROVE TypeInv'
  <2>1. sock' \in [Conns -> SockStates]
    BY <1>9 DEF Break, TypeInv, TypeOK, SockStates
  <2> QED BY <1>9, <2>1 DEF Break, TypeInv, TypeOK, DrainInv, conf, counters
<1>10. CASE UNCHANGED vars
  BY <1>10 DEF vars, TypeInv, TypeOK, DrainInv
<1> QED BY <1>1, <1>2, <1>3, <1>4, <1>5, <1>6, <1>7, <1>8, <1>9, <1>10 DEF Next

\* Type correctness: every variable keeps its type in every behaviour.
THEOREM TypeCorrect == Spec => []TypeOK
<1>1. Spec => []TypeInv
  BY InitTypeInv, NextTypeInv, PTL DEF Spec
<1>2. TypeInv => TypeOK
  BY DEF TypeInv
<1> QED BY <1>1, <1>2, PTL

-----------------------------------------------------------------------------
(* The queue: an unsent suffix of what was posted, chained byte by byte    *)

\* Each buffer of the queue begins where the one before it ends, the last one
\* ending at postedBytes: what makes Pending the bytes of the whole queue.
Chained ==
    \A i \in 1..Len(queue) :
        queue[i].start + queue[i].cap =
            IF i = Len(queue) THEN postedBytes ELSE queue[i + 1].start

Within ==
    \A i \in 1..Len(queue) : queue[i].start + queue[i].cap <= postedBytes

\* Only the head was written from, and never completely; each failing drain
\* moved its offset back by one, perhaps below 0.
Offsets ==
    /\ \A i \in 2..Len(queue) : queue[i].off = 0
    /\ queue # <<>> => /\ -fails <= Position(queue[1].off)
                       /\ Position(queue[1].off) < queue[1].cap
    /\ fails <= MaxFails
    /\ pc = "draining" => fails < MaxFails

QueueInv == TypeInv /\ QueueIsUnsentSuffix /\ Chained /\ Within /\ Offsets

\* One write of the drain loop in size_t arithmetic moves the position by what
\* the write returned, -1 included.
LEMMA OffsetStep ==
    ASSUME NEW cap \in 1..MaxSize, NEW off \in 0..(SIZE_MOD - 1), NEW r \in Int,
           -MaxFails <= Position(off), Position(off) < cap,
           -1 <= r, r <= Wrap(cap - off), r = -1 => -MaxFails < Position(off)
    PROVE  /\ Wrap(cap - off) = cap - Position(off)
           /\ Wrap(r) = IF r = -1 THEN SIZE_MOD - 1 ELSE r
           /\ Wrap(off + Wrap(r)) = cap <=> Position(off) + r = cap
           /\ Position(Wrap(off + Wrap(r))) = Position(off) + r
<1> USE SizeModAssumption, SizesAssumption, BoundsAssumption
<1>1. Wrap(cap - off) = cap - Position(off)
  BY DEF Wrap, Position
<1>2. Wrap(r) = IF r = -1 THEN SIZE_MOD - 1 ELSE r
  BY <1>1 DEF Wrap, Position
<1>3. CASE r = -1
  BY <1>2, <1>3 DEF Wrap, Position
<1>4. CASE r # -1
  BY <1>1, <1>2, <1>4 DEF Wrap, Position
<1> QED BY <1>1, <1>2, <1>3, <1>4

\* What a turn of the drain loop does to the head, with r what its write returned.
LEMMA DrainStep ==
    ASSUME QueueInv, DrainWrite
    PROVE  \E r \in Int :
             /\ r \in WriteResults(Remaining(queue[1]))
             /\ -1 <= r /\ Position(queue[1].off) + r <= queue[1].cap
             /\ Remaining(queue[1]) = queue[1].cap - Position(queue[1].off)
             /\ Remaining(queue[1]) \in 0..(SIZE_MOD - 1)
             /\ r > 0 => fd \in Conns /\ sock[fd] = "open"
             /\ fails' = IF r = -1 THEN fails + 1 ELSE fails
             /\ queuesize' = TakeOff(queuesize, IF r = -1 THEN SIZE_MOD - 1 ELSE r)
             /\ wire' = IF r > 0 THEN [wire EXCEPT ![fd] = Put(@, queue[1], r)] ELSE wire
             /\ IF Position(queue[1].off) + r = queue[1].cap
                THEN queue' = Tail(queue) /\ sentCnt' = sentCnt + 1
                ELSE /\ sentCnt' = sentCnt /\ pc' = "idle"
                     /\ \E off \in 0..(SIZE_MOD - 1) :
                          /\ queue' = [queue EXCEPT ![1].off = off]
                          /\ Position(off) = Position(queue[1].off) + r
<1> USE SizeModAssumption, SizesAssumption, BoundsAssumption
<1>1. PICK r \in WriteResults(Remaining(Head(queue))) :
        /\ Advance(Wrap(r))
        /\ queuesize' = TakeOff(queuesize, Wrap(r))
        /\ wire' = IF r > 0 THEN [wire EXCEPT ![fd] = Put(@, Head(queue), r)] ELSE wire
        /\ fails' = IF r = -1 THEN fails + 1 ELSE fails
  BY DEF DrainWrite
<1>2. /\ pc = "draining" /\ queue # <<>> /\ Head(queue) = queue[1]
      /\ queue[1] \in Buffers /\ Remaining(queue[1]) \in 0..(SIZE_MOD - 1)
  BY DrainHeadType DEF DrainWrite, QueueInv, TypeInv, TypeOK
<1>3. /\ r \in -1..Remaining(queue[1])
      /\ r > 0 => fd \in Conns /\ sock[fd] = "open"
  BY <1>1, <1>2, WriteResultsRange DEF QueueInv, TypeInv, TypeOK
<1> DEFINE cap == queue[1].cap
           off == queue[1].off
           off2 == Wrap(off + Wrap(r))
<1>4. /\ cap \in 1..MaxSize /\ off \in 0..(SIZE_MOD - 1) /\ r \in Int
      /\ -MaxFails <= Position(off) /\ Position(off) < cap
      /\ r <= Wrap(cap - off) /\ -1 <= r /\ (r = -1 => -MaxFails < Position(off))
      /\ Position(off) \in Int
  <2>1. cap \in 1..MaxSize /\ off \in 0..(SIZE_MOD - 1)
    BY <1>2 DEF Buffers
  <2>2. Position(off) \in Int
    BY <2>1 DEF Position
  <2>3. fails \in Nat /\ fails < MaxFails /\ -fails <= Position(off) /\ Position(off) < cap
    BY <1>2 DEF QueueInv, Offsets, TypeInv, TypeOK
  <2>4. r \in Int /\ -1 <= r /\ r <= Wrap(cap - off)
    BY <1>2, <1>3 DEF Remaining
  <2> QED BY <2>1, <2>2, <2>3, <2>4
<1>5. /\ Wrap(cap - off) = cap - Position(off)
      /\ Wrap(r) = IF r = -1 THEN SIZE_MOD - 1 ELSE r
      /\ off2 = cap <=> Position(off) + r = cap
      /\ Position(off2) = Position(off) + r
  BY <1>4, OffsetStep
<1>6. off2 \in 0..(SIZE_MOD - 1)
  <2>1. Wrap(r) \in 0..(SIZE_MOD - 1)
    BY <1>2, <1>3, <1>5
  <2>2. off + Wrap(r) \in -SIZE_MOD..(2 * SIZE_MOD - 1)
    BY <2>1, <1>4
  <2> QED BY <2>2, WrapRange
<1>7. IF off2 = cap
      THEN queue' = Tail(queue) /\ sentCnt' = sentCnt + 1
      ELSE /\ queue' = [queue EXCEPT ![1].off = off2]
           /\ sentCnt' = sentCnt /\ pc' = "idle"
  BY <1>1, <1>2 DEF Advance, Complete
<1>8. Position(off) + r <= cap
  BY <1>4, <1>5
<1>9. IF Position(off) + r = cap
      THEN queue' = Tail(queue) /\ sentCnt' = sentCnt + 1
      ELSE /\ sentCnt' = sentCnt /\ pc' = "idle"
           /\ \E o \in 0..(SIZE_MOD - 1) :
                /\ queue' = [queue EXCEPT ![1].off = o]
                /\ Position(o) = Position(off) + r
  <2>1. CASE off2 = cap
    BY <1>5, <1>7, <2>1
  <2>2. CASE off2 # cap
    <3>1. \E o \in 0..(SIZE_MOD - 1) :
             queue' = [queue EXCEPT ![1].off = o] /\ Position(o) = Position(off) + r
      BY <1>5, <1>6, <1>7, <2>2
    <3> QED BY <1>5, <1>7, <2>2, <3>1
  <2> QED BY <2>1, <2>2
<1>10. queuesize' = TakeOff(queuesize, IF r = -1 THEN SIZE_MOD - 1 ELSE r)
  BY <1>1, <1>5
<1>11. Remaining(queue[1]) = cap - Position(off)
  BY <1>5 DEF Remaining
<1> HIDE DEF cap, off, off2
<1>12. r \in WriteResults(Remaining(queue[1])) /\ wire' = IF r > 0 THEN [wire EXCEPT ![fd] = Put(@, queue[1], r)] ELSE wire
  BY <1>1, <1>2
<1> QED BY <1>1, <1>2, <1>3, <1>4, <1>8, <1>9, <1>10, <1>11, <1>12 DEF cap, off

\* Posting a buffer behind the queue keeps the queue's invariant.
LEMMA PushKeepsQueueInv ==
    ASSUME QueueInv, TypeInv', NEW cap \in Sizes, NEW off \in 0..(cap - 1),
           queue' = Append(queue, [Buffer(cap) EXCEPT !.off = off]),
           off # 0 => queue = <<>>,
           posted' = posted + 1, postedBytes' = postedBytes + cap,
           sentCnt' = sentCnt, fails' = fails, pc' # "draining"
    PROVE  QueueInv'
<1> USE SizeModAssumption, SizesAssumption, BoundsAssumption
<1>1. PICK buf \in Buffers :
        /\ buf = [Buffer(cap) EXCEPT !.off = off]
        /\ buf.id = posted + 1 /\ buf.cap = cap /\ buf.off = off /\ buf.start = postedBytes
  BY BufferType DEF QueueInv, TypeInv, Buffer
<1>2. /\ queue \in Seq(Buffers) /\ Len(queue) \in Nat
      /\ posted \in Nat /\ sentCnt \in Nat /\ fails \in Nat /\ postedBytes \in Nat
      /\ cap \in 1..MaxSize /\ off \in 0..MaxSize /\ off < cap
  BY DEF QueueInv, TypeInv, TypeOK
<1>3. /\ Len(queue') = Len(queue) + 1
      /\ \A i \in 1..Len(queue) : queue'[i] = queue[i]
      /\ queue'[Len(queue) + 1] = buf
  BY <1>1, <1>2, AppendProperties
<1>4. Position(off) = off
  BY <1>2 DEF Position
<1>5. QueueIsUnsentSuffix'
  <2>1. posted = sentCnt + Len(queue) /\ \A i \in 1..Len(queue) : queue[i].id = sentCnt + i
    BY DEF QueueInv, QueueIsUnsentSuffix
  <2>2. ASSUME NEW i \in 1..Len(queue') PROVE queue'[i].id = sentCnt' + i
    <3>1. CASE i = Len(queue) + 1
      BY SMTT(60), <1>1, <1>2, <1>3, <2>1, <3>1
    <3>2. CASE i # Len(queue) + 1
      BY SMTT(60), <1>2, <1>3, <2>1, <3>2
    <3> QED BY <3>1, <3>2
  <2>3. posted' = sentCnt' + Len(queue')
    BY <1>2, <1>3, <2>1
  <2> QED BY <2>2, <2>3 DEF QueueIsUnsentSuffix
<1>6. Chained'
  <2> SUFFICES ASSUME NEW i \in 1..Len(queue')
               PROVE queue'[i].start + queue'[i].cap =
                       IF i = Len(queue') THEN postedBytes' ELSE queue'[i + 1].start
    BY DEF Chained
  <2>1. CASE i = Len(queue) + 1
    BY <1>1, <1>3, <2>1
  <2>2. CASE i = Len(queue)
    <3>1. /\ queue[i].start + queue[i].cap = postedBytes
          /\ queue'[i] = queue[i] /\ i # Len(queue') /\ queue'[i + 1] = buf
      BY <1>2, <1>3, <2>2 DEF QueueInv, Chained
    <3> QED BY <1>1, <3>1
  <2>3. CASE i # Len(queue) /\ i # Len(queue) + 1
    <3>1. i \in 1..Len(queue) /\ i + 1 \in 1..Len(queue) /\ i # Len(queue')
      BY <1>2, <1>3, <2>3
    <3> QED BY <1>3, <2>3, <3>1 DEF QueueInv, Chained
  <2> QED BY <2>1, <2>2, <2>3
<1>6a. Within'
  <2> SUFFICES ASSUME NEW i \in 1..Len(queue') PROVE queue'[i].start + queue'[i].cap <= postedBytes'
    BY DEF Within
  <2>1. CASE i = Len(queue) + 1
    BY SMTT(60), <1>1, <1>2, <1>3, <2>1
  <2>2. CASE i # Len(queue) + 1
    <3>0. i \in 1..Len(queue) /\ queue'[i] = queue[i]
      BY <1>2, <1>3, <2>2
    <3>1. i \in 1..Len(queue) /\ queue'[i] = queue[i] /\ queue[i].start \in Nat /\ queue[i].cap \in Nat
      <4>1. queue[i] \in Buffers
        BY <1>2, <3>0
      <4> QED BY SMTT(60), <3>0, <4>1 DEF Buffers
    <3>2. queue[i].start + queue[i].cap <= postedBytes
      BY <3>1 DEF QueueInv, Within
    <3> QED BY <1>2, <3>1, <3>2
  <2> QED BY <2>1, <2>2
<1>7. Offsets'
  <2>1. ASSUME NEW i \in 2..Len(queue') PROVE queue'[i].off = 0
    <3>1. CASE i = Len(queue) + 1
      <4>1. queue # <<>>
        BY <1>2, <1>3, <3>1
      <4> QED BY <1>1, <1>3, <3>1, <4>1
    <3>2. CASE i # Len(queue) + 1
      BY <1>2, <1>3, <3>2 DEF QueueInv, Offsets
    <3> QED BY <3>1, <3>2
  <2>2. -fails <= Position(queue'[1].off) /\ Position(queue'[1].off) < queue'[1].cap
    <3>1. CASE queue = <<>>
      <4>1. queue'[1] = buf
        BY <1>2, <1>3, <3>1
      <4>2. queue'[1].off = off /\ queue'[1].cap = cap
        BY <1>1, <4>1
      <4> QED BY <1>2, <1>4, <4>2
    <3>2. CASE queue # <<>>
      <4>1. queue'[1] = queue[1]
        BY <1>2, <1>3, <3>2
      <4> QED BY <3>2, <4>1 DEF QueueInv, Offsets
    <3> QED BY <3>1, <3>2
  <2> QED BY <2>1, <2>2 DEF QueueInv, Offsets
<1> QED BY <1>5, <1>6, <1>6a, <1>7 DEF QueueInv

LEMMA DrainKeepsQueueInv ==
    ASSUME QueueInv, TypeInv', DrainWrite PROVE QueueInv'
<1> USE SizeModAssumption, SizesAssumption, BoundsAssumption
<1>1. PICK r \in Int :
        /\ -1 <= r /\ Position(queue[1].off) + r <= queue[1].cap
        /\ fails' = IF r = -1 THEN fails + 1 ELSE fails
        /\ IF Position(queue[1].off) + r = queue[1].cap
           THEN queue' = Tail(queue) /\ sentCnt' = sentCnt + 1
           ELSE /\ sentCnt' = sentCnt /\ pc' = "idle"
                /\ \E off \in 0..(SIZE_MOD - 1) :
                     /\ queue' = [queue EXCEPT ![1].off = off]
                     /\ Position(off) = Position(queue[1].off) + r
  BY DrainStep
<1>2. /\ queue \in Seq(Buffers) /\ queue # <<>> /\ Len(queue) \in Nat \ {0}
      /\ queue[1] \in Buffers /\ sentCnt \in Nat /\ posted \in Nat /\ fails \in Nat
      /\ fails < MaxFails
  BY DEF QueueInv, TypeInv, TypeOK, DrainInv, DrainWrite, Offsets
<1>3. posted' = posted /\ postedBytes' = postedBytes
  BY DEF DrainWrite
<1>4. queue[1].cap \in 1..MaxSize /\ Position(queue[1].off) \in Int
      /\ -fails <= Position(queue[1].off) /\ Position(queue[1].off) < queue[1].cap
  <2>1. queue[1].cap \in 1..MaxSize /\ queue[1].off \in Int
    BY <1>2 DEF Buffers
  <2> QED BY <1>2, <2>1 DEF QueueInv, Offsets, Position
<1>5. CASE Position(queue[1].off) + r = queue[1].cap
  <2>1. /\ queue' = Tail(queue) /\ sentCnt' = sentCnt + 1 /\ r # -1 /\ fails' = fails
    BY <1>1, <1>4, <1>5
  <2>2. /\ Len(queue') = Len(queue) - 1
        /\ \A i \in 1..Len(queue') : queue'[i] = queue[i + 1]
    BY <1>2, <2>1, HeadTailProperties
  <2>3. QueueIsUnsentSuffix'
    BY <1>2, <1>3, <2>1, <2>2 DEF QueueInv, QueueIsUnsentSuffix
  <2>4. Chained'
    BY <1>2, <1>3, <2>2 DEF QueueInv, Chained
  <2>6. Within'
    BY <1>2, <1>3, <2>2 DEF QueueInv, Within
  <2>5. Offsets'
    <3>1. \A i \in 1..Len(queue') : queue'[i].off = 0 /\ queue'[i] \in Buffers
      BY <1>2, <2>2 DEF QueueInv, Offsets
    <3>2. queue' # <<>> => 1 \in 1..Len(queue')
      BY <1>2, <2>1, <2>2
    <3>3. queue' # <<>> => -fails <= Position(queue'[1].off) /\ Position(queue'[1].off) < queue'[1].cap
      <4>1. Position(0) = 0
        BY DEF Position
      <4>2. queue' # <<>> => queue'[1].off = 0 /\ queue'[1].cap \in 1..MaxSize
        BY <3>1, <3>2 DEF Buffers
      <4> QED BY <1>2, <4>1, <4>2
    <3> QED BY <1>2, <2>1, <3>1, <3>3 DEF Offsets
  <2> QED BY <2>3, <2>4, <2>5, <2>6 DEF QueueInv
<1>6. CASE Position(queue[1].off) + r # queue[1].cap
  <2>1. PICK off \in 0..(SIZE_MOD - 1) :
          /\ queue' = [queue EXCEPT ![1].off = off]
          /\ Position(off) = Position(queue[1].off) + r
    BY <1>1, <1>6
  <2>2. sentCnt' = sentCnt /\ pc' = "idle"
    BY <1>1, <1>6
  <2>3. /\ Len(queue') = Len(queue)
        /\ queue'[1] = [queue[1] EXCEPT !.off = off]
    <3>1. 1 \in DOMAIN queue /\ DOMAIN queue' = DOMAIN queue
      BY <1>2, <2>1
    <3>2. queue'[1] = [queue[1] EXCEPT !.off = off]
      BY <2>1, <3>1
    <3>3. queue' \in Seq(Buffers)
      BY DEF TypeInv, TypeOK
    <3> QED BY <1>2, <3>1, <3>2, <3>3, LenProperties
  <2>4. /\ queue'[1].id = queue[1].id /\ queue'[1].cap = queue[1].cap
        /\ queue'[1].start = queue[1].start /\ queue'[1].off = off
    BY <1>2, <2>3 DEF Buffers
  <2>9. ASSUME NEW i \in 2..Len(queue) PROVE queue'[i] = queue[i]
    BY <1>2, <2>1
  <2>5. ASSUME NEW i \in 1..Len(queue)
        PROVE /\ queue'[i].id = queue[i].id
              /\ queue'[i].cap = queue[i].cap
              /\ queue'[i].start = queue[i].start
    <3>1. CASE i = 1
      BY <2>4, <3>1
    <3>2. CASE i # 1
      BY <1>2, <2>9, <3>2
    <3> QED BY <3>1, <3>2
  <2>6. QueueIsUnsentSuffix'
    BY <1>3, <2>2, <2>3, <2>5 DEF QueueInv, QueueIsUnsentSuffix
  <2>7. Chained'
    <3> SUFFICES ASSUME NEW i \in 1..Len(queue)
                 PROVE queue'[i].start + queue'[i].cap =
                         IF i = Len(queue) THEN postedBytes ELSE queue'[i + 1].start
      BY <1>3, <2>3 DEF Chained
    <3>1. CASE i = Len(queue)
      BY <2>5, <3>1 DEF QueueInv, Chained
    <3>2. CASE i # Len(queue)
      <4>1. i + 1 \in 1..Len(queue)
        BY <1>2, <3>2
      <4> QED BY <2>5, <3>2, <4>1 DEF QueueInv, Chained
    <3> QED BY <3>1, <3>2
  <2>8. Offsets'
    <3>1. \A i \in 2..Len(queue') : queue'[i].off = 0
      BY <2>3, <2>9 DEF QueueInv, Offsets
    <3>2. -fails' <= Position(off) /\ Position(off) < queue[1].cap /\ fails' <= MaxFails
      <4>1. PICK p \in Int : p = Position(queue[1].off)
        BY <1>4
      <4>2. Position(off) = p + r /\ -fails <= p /\ p + r < queue[1].cap
        <5>1. p + r <= queue[1].cap /\ p + r # queue[1].cap
          BY <1>1, <1>6, <4>1
        <5> QED BY <1>4, <2>1, <4>1, <5>1
      <4>3. -1 <= r /\ fails' = IF r = -1 THEN fails + 1 ELSE fails
        BY <1>1
      <4> QED BY <1>2, <4>2, <4>3
    <3> QED BY <2>2, <2>4, <3>1, <3>2 DEF Offsets
  <2>10. Within'
    BY <1>3, <2>3, <2>5 DEF QueueInv, Within
  <2> QED BY <2>6, <2>7, <2>8, <2>10 DEF QueueInv
<1> QED BY <1>5, <1>6

\* A step that leaves the queue and its counters alone keeps the invariant.
LEMMA OthersKeepQueueInv ==
    ASSUME QueueInv, TypeInv',
           UNCHANGED <<queue, posted, sentCnt, postedBytes, fails>>,
           pc' = "draining" => fails < MaxFails
    PROVE  QueueInv'
BY DEF QueueInv, QueueIsUnsentSuffix, Chained, Within, Offsets

\* The step of send, cut in the ways it treats the queue.
LEMMA SendEffect ==
    ASSUME QueueInv, NEW cap \in Sizes, Send(cap)
    PROVE  /\ pc' # "draining" /\ fails' = fails
           /\ \/ UNCHANGED <<queue, posted, sentCnt, postedBytes, queuesize, wire>>
              \/ /\ posted' = posted + 1 /\ postedBytes' = postedBytes + cap
                 /\ ~OverLimit(cap)
                 /\ \/ /\ \E off \in 0..(cap - 1) :
                            /\ queue' = Append(queue, [Buffer(cap) EXCEPT !.off = off])
                            /\ off # 0 => queue = <<>>
                            /\ queuesize' = TakeOff(queuesize + cap, off)
                       /\ sentCnt' = sentCnt
                    \/ /\ queue = <<>> /\ queue' = queue /\ sentCnt' = sentCnt + 1
                       /\ queuesize' = TakeOff(queuesize + cap, cap)
<1> USE SizeModAssumption, SizesAssumption, BoundsAssumption
<1>1. cap \in 1..MaxSize /\ queuesize \in Nat
  BY DEF QueueInv, TypeInv, TypeOK
<1>2. Buffer(cap) = [Buffer(cap) EXCEPT !.off = 0] /\ TakeOff(queuesize + cap, 0) = queuesize + cap
  BY <1>1 DEF Buffer, TakeOff
<1>3. CASE SendDropped(cap)
  BY <1>3 DEF Send, SendDropped, kernel
<1>4. CASE SendQueued(cap)
  <2>1. 0 \in 0..(cap - 1)
    BY <1>1
  <2> QED BY <1>2, <1>4, <2>1 DEF Send, SendQueued, Post
<1>5. CASE SendWritten(cap)
  <2>1. PICK n \in WriteResults(cap) :
          /\ n > 0
          /\ queuesize' = TakeOff(queuesize + cap, n)
          /\ IF Complete(Buffer(cap), n)
             THEN sentCnt' = sentCnt + 1 /\ queue' = queue
             ELSE sentCnt' = sentCnt /\ queue' = Append(queue, [Buffer(cap) EXCEPT !.off = n])
    BY <1>5 DEF SendWritten
  <2>2. n \in 1..cap
    BY <1>1, <2>1, WriteResultsRange
  <2>3. Complete(Buffer(cap), n) <=> n = cap
    BY DEF Complete, Buffer
  <2>4. queue = <<>> /\ pc' = "idle" /\ fails' = fails /\ posted' = posted + 1
        /\ postedBytes' = postedBytes + cap /\ ~OverLimit(cap)
    BY <1>5 DEF Send, SendWritten, Post, MustQueue
  <2>5. CASE n = cap
    BY <2>1, <2>3, <2>4, <2>5
  <2>6. CASE n # cap
    <3>1. n \in 0..(cap - 1)
      BY <1>1, <2>2, <2>6
    <3> QED BY <2>1, <2>3, <2>4, <2>6, <3>1
  <2> QED BY <2>5, <2>6
<1>6. CASE SendFailed(cap)
  <2>1. pc' # "draining"
    BY <1>6 DEF SendFailed, Send, InitializeConnection, LookupFails, ConnectFails, TLSFails, Connects
  <2>2. 0 \in 0..(cap - 1)
    BY <1>1
  <2> QED BY <1>2, <1>6, <2>1, <2>2 DEF SendFailed, Post
<1>7. CASE SendKilled(cap)
  BY <1>7 DEF SendKilled, counters, kernel
<1> QED BY <1>3, <1>4, <1>5, <1>6, <1>7 DEF Send

\* No step of another operation touches the queue.
LEMMA OtherEffect ==
    ASSUME QueueInv, Construct \/ OnWriteOpportunity \/ DrainKilled
                     \/ (\E mode \in BOOLEAN : SetAsyncMode(mode))
                     \/ (\E n \in QueueMaxSizes : SetQueueMaxSize(n))
                     \/ ConnectionGracefulShutdown \/ (\E c \in Conns : Break(c))
                     \/ UNCHANGED vars
    PROVE  /\ UNCHANGED <<queue, queuesize, posted, dropped, sentCnt, postedBytes, fails, wire>>
           /\ pc' = "draining" => fails < MaxFails
<1>1. CASE Construct
  BY <1>1 DEF Construct, conf, counters, InitializeConnection, LookupFails, ConnectFails, TLSFails, Connects
<1>2. CASE OnWriteOpportunity
  BY <1>2 DEF OnWriteOpportunity, counters, kernel
<1>3. CASE DrainKilled
  BY <1>3 DEF DrainKilled, counters, kernel
<1>4. ASSUME NEW mode \in BOOLEAN, SetAsyncMode(mode)
      PROVE /\ UNCHANGED <<queue, queuesize, posted, dropped, sentCnt, postedBytes, fails, wire>>
            /\ pc' = "draining" => fails < MaxFails
  BY <1>4 DEF SetAsyncMode, counters
<1>5. ASSUME NEW n \in QueueMaxSizes, SetQueueMaxSize(n)
      PROVE /\ UNCHANGED <<queue, queuesize, posted, dropped, sentCnt, postedBytes, fails, wire>>
            /\ pc' = "draining" => fails < MaxFails
  BY <1>5 DEF SetQueueMaxSize, counters, kernel
<1>6. CASE ConnectionGracefulShutdown
  BY <1>6 DEF ConnectionGracefulShutdown, counters
<1>7. ASSUME NEW c \in Conns, Break(c)
      PROVE /\ UNCHANGED <<queue, queuesize, posted, dropped, sentCnt, postedBytes, fails, wire>>
            /\ pc' = "draining" => fails < MaxFails
  BY <1>7 DEF Break, counters, QueueInv, Offsets
<1>8. CASE UNCHANGED vars
  BY <1>8 DEF vars, QueueInv, Offsets
<1> QED BY <1>1, <1>2, <1>3, <1>4, <1>5, <1>6, <1>7, <1>8

LEMMA InitQueueInv == Init => QueueInv
<1> SUFFICES ASSUME Init PROVE QueueInv
  OBVIOUS
<1>1. queue = <<>> /\ Len(queue) = 0 /\ fails = 0 /\ posted = 0 /\ sentCnt = 0 /\ pc # "draining"
  BY EmptySeq DEF Init
<1> QED BY <1>1, InitTypeInv, BoundsAssumption
        DEF QueueInv, QueueIsUnsentSuffix, Chained, Within, Offsets

LEMMA NextQueueInv == QueueInv /\ [Next]_vars => QueueInv'
<1> SUFFICES ASSUME QueueInv, [Next]_vars PROVE QueueInv'
  OBVIOUS
<1> USE SizeModAssumption, SizesAssumption, BoundsAssumption
<1>1. TypeInv'
  BY NextTypeInv DEF QueueInv
<1>2. ASSUME NEW cap \in Sizes, Send(cap) PROVE QueueInv'
  <2>1. pc' # "draining" /\ fails' = fails
    BY <1>2, SendEffect
  <2>2. CASE UNCHANGED <<queue, posted, sentCnt, postedBytes, queuesize, wire>>
    BY <1>1, <2>1, <2>2, OthersKeepQueueInv
  <2>3. CASE /\ posted' = posted + 1 /\ postedBytes' = postedBytes + cap
             /\ sentCnt' = sentCnt
             /\ \E off \in 0..(cap - 1) :
                  /\ queue' = Append(queue, [Buffer(cap) EXCEPT !.off = off])
                  /\ off # 0 => queue = <<>>
    BY <1>1, <2>1, <2>3, PushKeepsQueueInv
  <2>4. CASE posted' = posted + 1 /\ queue = <<>> /\ queue' = queue /\ sentCnt' = sentCnt + 1
    <3>1. Len(queue) = 0 /\ Len(queue') = 0 /\ posted \in Nat /\ sentCnt \in Nat
      BY <2>4, EmptySeq DEF QueueInv, TypeInv, TypeOK
    <3> QED BY <1>1, <2>1, <2>4, <3>1 DEF QueueInv, QueueIsUnsentSuffix, Chained, Within, Offsets
  <2> QED BY <1>2, <2>2, <2>3, <2>4, SendEffect
<1>3. CASE DrainWrite
  BY <1>1, <1>3, DrainKeepsQueueInv
<1>4. CASE \/ Construct \/ OnWriteOpportunity \/ DrainKilled
           \/ (\E mode \in BOOLEAN : SetAsyncMode(mode))
           \/ (\E n \in QueueMaxSizes : SetQueueMaxSize(n))
           \/ ConnectionGracefulShutdown \/ (\E c \in Conns : Break(c))
           \/ UNCHANGED vars
  BY <1>1, <1>4, OtherEffect, OthersKeepQueueInv
<1> QED BY <1>2, <1>3, <1>4 DEF Next

\* FIFO conservation in every behaviour.
THEOREM QueueCorrect == Spec => []QueueIsUnsentSuffix
<1>1. Spec => []QueueInv
  BY InitQueueInv, NextQueueInv, PTL DEF Spec
<1>2. QueueInv => QueueIsUnsentSuffix
  BY DEF QueueInv
<1> QED BY <1>1, <1>2, PTL

-----------------------------------------------------------------------------
(* The byte accounting                                                     *)

AccountInv == QueueInv /\ QueueSizeExact /\ QueueSizeNeverOvercounts

PendingIsNat == Pending \in Nat

\* Pending is a number of bytes.
LEMMA PendingNat == QueueInv => PendingIsNat
<1> SUFFICES ASSUME QueueInv PROVE Pending \in Nat
  BY DEF PendingIsNat
<1> USE SizeModAssumption, SizesAssumption, BoundsAssumption
<1>1. CASE queue = <<>>
  BY <1>1 DEF Pending
<1>2. CASE queue # <<>>
  <2>1. /\ queue \in Seq(Buffers) /\ 1 \in 1..Len(queue) /\ Head(queue) = queue[1]
        /\ postedBytes \in Nat /\ queue[1] \in Buffers
    BY <1>2 DEF QueueInv, TypeInv, TypeOK
  <2>2. queue[1].off \in 0..(SIZE_MOD - 1) /\ queue[1].start \in Nat /\ queue[1].cap \in 1..MaxSize
    BY <2>1 DEF Buffers
  <2>3. Position(queue[1].off) \in Int
    BY <2>2 DEF Position
  <2>4. Position(queue[1].off) < queue[1].cap /\ queue[1].start + queue[1].cap <= postedBytes
    BY <1>2, <2>1 DEF QueueInv, Offsets, Within
  <2>5. Pending = postedBytes - (queue[1].start + Position(queue[1].off))
    BY <1>2, <2>1 DEF Pending
  <2> QED BY <2>1, <2>2, <2>3, <2>4, <2>5
<1> QED BY <1>1, <1>2

\* Posting a buffer of which off bytes were written adds the others.
LEMMA PendingPush ==
    ASSUME QueueInv, NEW cap \in Sizes, NEW off \in 0..(cap - 1),
           queue' = Append(queue, [Buffer(cap) EXCEPT !.off = off]),
           off # 0 => queue = <<>>, postedBytes' = postedBytes + cap
    PROVE  Pending' = Pending + cap - off
<1> USE SizeModAssumption, SizesAssumption, BoundsAssumption
<1>1. PICK buf \in Buffers :
        /\ buf = [Buffer(cap) EXCEPT !.off = off]
        /\ buf.off = off /\ buf.start = postedBytes
  BY BufferType DEF QueueInv, TypeInv, Buffer
<1>2. /\ queue \in Seq(Buffers) /\ postedBytes \in Nat
      /\ cap \in 1..MaxSize /\ off \in 0..MaxSize
  BY DEF QueueInv, TypeInv, TypeOK
<1>3. queue' = Append(queue, buf) /\ queue' # <<>> /\ Position(off) = off
  BY SMTT(60), <1>1, <1>2, AppendProperties DEF Position
<1>4. CASE queue = <<>>
  <2>1. Head(queue') = buf
    BY <1>1, <1>2, <1>3, <1>4
  <2>2. Pending' = postedBytes' - (postedBytes + off) /\ Pending = 0
    BY <1>1, <1>3, <1>4, <2>1 DEF Pending, Position
  <2> QED BY <1>2, <2>2
<1>5. CASE queue # <<>>
  <2>1. Head(queue') = Head(queue) /\ Head(queue) \in Buffers
    BY <1>1, <1>2, <1>3, <1>5
  <2>2. Head(queue).start + Position(Head(queue).off) \in Int
    BY SMTT(60), <2>1 DEF Buffers, Position
  <2>3. /\ Pending = postedBytes - (Head(queue).start + Position(Head(queue).off))
        /\ Pending' = postedBytes' - (Head(queue).start + Position(Head(queue).off))
    BY <1>3, <1>5, <2>1 DEF Pending, Position
  <2> QED BY <1>2, <1>5, <2>2, <2>3
<1> QED BY <1>4, <1>5

\* A write of the drain loop that returned r takes r off, or adds one for -1.
HeadMoves(r) ==
    IF Position(queue[1].off) + r = queue[1].cap
    THEN queue' = Tail(queue)
    ELSE \E off \in 0..(SIZE_MOD - 1) :
            /\ queue' = [queue EXCEPT ![1].off = off]
            /\ Position(off) = Position(queue[1].off) + r

LEMMA PendingDrain ==
    ASSUME QueueInv, DrainWrite, NEW r \in Int, HeadMoves(r)
    PROVE  Pending' = Pending - r
<1> USE SizeModAssumption, SizesAssumption, BoundsAssumption
<1>1. /\ queue \in Seq(Buffers) /\ queue # <<>> /\ Len(queue) \in Nat \ {0}
      /\ queue[1] \in Buffers /\ Head(queue) = queue[1] /\ 1 \in 1..Len(queue)
      /\ postedBytes \in Nat /\ postedBytes' = postedBytes
  <2>1. queue \in Seq(Buffers) /\ queue # <<>> /\ postedBytes \in Nat /\ postedBytes' = postedBytes
    BY DEF QueueInv, TypeInv, TypeOK, DrainInv, DrainWrite
  <2>2. Len(queue) \in Nat \ {0}
    BY <2>1, EmptySeq
  <2> QED BY <2>1, <2>2
<1>2. queue[1].start \in Nat /\ queue[1].cap \in 1..MaxSize /\ queue[1].off \in Int
  BY <1>1 DEF Buffers
<1>3. PICK p \in Int : p = Position(queue[1].off)
  <2>1. Position(queue[1].off) \in Int
    BY <1>2 DEF Position
  <2> QED BY <2>1
<1>4. Pending = postedBytes - (queue[1].start + p)
  BY <1>1, <1>3 DEF Pending
<1>5. CASE p + r = queue[1].cap
  <2>1. queue' = Tail(queue) /\ Len(queue') = Len(queue) - 1
        /\ \A i \in 1..Len(queue') : queue'[i] = queue[i + 1]
    BY <1>1, <1>3, <1>5, HeadTailProperties DEF HeadMoves
  <2>2. CASE Len(queue) = 1
    <3>1. queue' = <<>> /\ queue[1].start + queue[1].cap = postedBytes
      BY <1>1, <2>1, <2>2 DEF QueueInv, Chained
    <3>2. Pending' = 0
      BY <3>1 DEF Pending
    <3> QED BY <1>2, <1>3, <1>4, <1>5, <3>1, <3>2
  <2>3. CASE Len(queue) # 1
    <3>1. /\ queue' # <<>> /\ queue' \in Seq(Buffers) /\ Head(queue') = queue[2]
          /\ 2 \in 2..Len(queue)
      <4>1. queue' \in Seq(Buffers)
        BY <1>1, <2>1, HeadTailProperties
      <4>2. 2 \in 2..Len(queue) /\ 1 \in 1..Len(queue')
        <5>1. Len(queue) \in Nat \ {0} /\ Len(queue') = Len(queue) - 1
          BY <1>1, <2>1
        <5> QED BY <2>3, <5>1
      <4>3. queue'[1] = queue[2]
        BY <2>1, <4>2
      <4>4. queue' # <<>> /\ Head(queue') = queue'[1]
        BY <4>1, <4>2
      <4> QED BY <4>1, <4>2, <4>3, <4>4
    <3>2. queue[1].start + queue[1].cap = queue[2].start /\ queue[2].off = 0
      <4>1. queue[1].start + queue[1].cap = IF 1 = Len(queue) THEN postedBytes ELSE queue[1 + 1].start
        BY <1>1 DEF QueueInv, Chained
      <4>2. queue[2].off = 0
        BY <1>1, <2>3, <3>1 DEF QueueInv, Offsets
      <4> QED BY <2>3, <4>1, <4>2
    <3>3. Position(0) = 0
      BY DEF Position
    <3>4. Pending' = postedBytes' - (Head(queue').start + Position(Head(queue').off))
      BY <3>1 DEF Pending, Position
    <3>5. Pending' = postedBytes - (queue[1].start + queue[1].cap + 0)
      BY <1>1, <1>2, <3>1, <3>2, <3>3, <3>4
    <3>6. PICK s \in Nat, c \in Nat, b \in Nat : s = queue[1].start /\ c = queue[1].cap /\ b = postedBytes
      BY <1>1, <1>2
    <3>7. Pending' = b - (s + c + 0) /\ Pending = b - (s + p) /\ p + r = c
      BY <1>4, <1>5, <3>5, <3>6
    <3> QED BY <3>6, <3>7
  <2> QED BY <2>2, <2>3
<1>6. CASE p + r # queue[1].cap
  <2>1. PICK off \in 0..(SIZE_MOD - 1) :
          queue' = [queue EXCEPT ![1].off = off] /\ Position(off) = p + r
    BY <1>3, <1>6 DEF HeadMoves
  <2>2. queue'[1].off = off /\ queue'[1].start = queue[1].start
    BY SMTT(60), <1>1, <2>1 DEF Buffers
  <2>3. queue' # <<>> /\ Head(queue') = queue'[1]
    <3>1. 1 \in DOMAIN queue'
      BY <1>1, <2>1
    <3> QED BY <3>1
  <2>4. Pending' = postedBytes' - (queue'[1].start + Position(queue'[1].off))
    BY <2>3 DEF Pending, Position
  <2>5. Pending' = postedBytes - (queue[1].start + (p + r))
    BY <1>1, <2>1, <2>2, <2>4
  <2> QED BY <1>1, <1>2, <1>3, <1>4, <2>5
<1> QED BY <1>3, <1>5, <1>6

LEMMA NextAccountInv == AccountInv /\ [Next]_vars => AccountInv'
<1> SUFFICES ASSUME AccountInv, [Next]_vars PROVE AccountInv'
  OBVIOUS
<1> USE SizeModAssumption, SizesAssumption, BoundsAssumption
<1>1. QueueInv /\ QueueInv' /\ Pending \in Nat /\ Pending' \in Nat
  <2>1. QueueInv /\ QueueInv'
    BY NextQueueInv DEF AccountInv
  <2>2. PendingIsNat'
    BY <2>1, PendingNat, PTL
  <2> QED BY <2>1, <2>2, PendingNat DEF PendingIsNat
<1>2. queuesize \in Nat /\ queuesize <= Pending /\ (fails = 0 => queuesize = Pending) /\ fails \in Nat
  BY DEF AccountInv, QueueSizeExact, QueueSizeNeverOvercounts, QueueInv, TypeInv, TypeOK
<1>3. ASSUME NEW cap \in Sizes, Send(cap) PROVE AccountInv'
  <2>1. fails' = fails /\ cap \in 1..MaxSize
    BY <1>1, <1>3, SendEffect
  <2>2. CASE UNCHANGED <<queue, posted, sentCnt, postedBytes, queuesize, wire>>
    <3>1. Pending' = Pending
      BY <2>2 DEF Pending, Position
    <3> QED BY <1>1, <1>2, <2>1, <2>2, <3>1 DEF AccountInv, QueueSizeExact, QueueSizeNeverOvercounts
  <2>3. ASSUME NEW off \in 0..(cap - 1), postedBytes' = postedBytes + cap,
               queue' = Append(queue, [Buffer(cap) EXCEPT !.off = off]),
               off # 0 => queue = <<>>, queuesize' = TakeOff(queuesize + cap, off)
        PROVE  AccountInv'
    <3>1. Pending' = Pending + cap - off
      BY <1>1, <2>3, PendingPush
    <3>2. queuesize' = queuesize + cap - off
      BY <1>2, <2>1, <2>3 DEF TakeOff
    <3> QED BY <1>1, <1>2, <2>1, <3>1, <3>2 DEF AccountInv, QueueSizeExact, QueueSizeNeverOvercounts
  <2>4. CASE queue = <<>> /\ queue' = queue /\ queuesize' = TakeOff(queuesize + cap, cap)
    <3>1. Pending = 0 /\ Pending' = 0
      BY <2>4 DEF Pending
    <3>2. queuesize' = 0
      BY <1>2, <2>1, <2>4, <3>1 DEF TakeOff
    <3> QED BY <1>1, <1>2, <2>1, <3>1, <3>2 DEF AccountInv, QueueSizeExact, QueueSizeNeverOvercounts
  <2> QED BY <1>1, <1>3, <2>2, <2>3, <2>4, SendEffect
<1>4. CASE DrainWrite
  <2>1. PICK r \in Int :
          /\ -1 <= r /\ Position(queue[1].off) + r <= queue[1].cap
          /\ fails' = IF r = -1 THEN fails + 1 ELSE fails
          /\ queuesize' = TakeOff(queuesize, IF r = -1 THEN SIZE_MOD - 1 ELSE r)
          /\ HeadMoves(r)
    BY <1>1, <1>4, DrainStep DEF HeadMoves
  <2>2. Pending' = Pending - r
    BY <1>1, <1>4, <2>1, PendingDrain
  <2>3. queuesize' \in Nat
    BY <1>1 DEF QueueInv, TypeInv, TypeOK
  <2>4. queuesize' <= Pending' /\ (fails' = 0 => queuesize' = Pending')
    BY <1>1, <1>2, <2>1, <2>2, <2>3 DEF TakeOff
  <2> QED BY <1>1, <2>4 DEF AccountInv, QueueSizeExact, QueueSizeNeverOvercounts
<1>5. CASE \/ Construct \/ OnWriteOpportunity \/ DrainKilled
           \/ (\E mode \in BOOLEAN : SetAsyncMode(mode))
           \/ (\E n \in QueueMaxSizes : SetQueueMaxSize(n))
           \/ ConnectionGracefulShutdown \/ (\E c \in Conns : Break(c))
           \/ UNCHANGED vars
  <2>1. UNCHANGED <<queue, queuesize, postedBytes, fails>>
    BY <1>1, <1>5, OtherEffect
  <2>2. Pending' = Pending
    BY <2>1 DEF Pending, Position
  <2> QED BY <1>1, <1>2, <2>1, <2>2 DEF AccountInv, QueueSizeExact, QueueSizeNeverOvercounts
<1> QED BY <1>3, <1>4, <1>5 DEF Next

LEMMA AccountInvariant == Spec => []AccountInv
<1>1. Init => AccountInv
  <2> SUFFICES ASSUME Init PROVE AccountInv
    OBVIOUS
  <2>1. Pending = 0 /\ queuesize = 0
    BY DEF Init, Pending
  <2> QED BY <2>1, InitQueueInv DEF AccountInv, QueueSizeExact, QueueSizeNeverOvercounts
<1> QED BY <1>1, NextAccountInv, PTL DEF Spec

\* QueueSize() is the bytes held, until a drain sees a failing write.
THEOREM QueueSizeExactCorrect == Spec => []QueueSizeExact
<1>1. AccountInv => QueueSizeExact
  BY DEF AccountInv
<1> QED BY <1>1, AccountInvariant, PTL

\* QueueSize() never counts more than the bytes held, failing drains included.
THEOREM QueueSizeNeverOvercountsCorrect == Spec => []QueueSizeNeverOvercounts
<1>1. AccountInv => QueueSizeNeverOvercounts
  BY DEF AccountInv
<1> QED BY <1>1, AccountInvariant, PTL

\* Only a send that meets the limit raises the count of dropped events.
LEMMA DropStep ==
    ASSUME QueueInv, [Next]_vars, dropped' # dropped
    PROVE  \E cap \in Sizes : OverLimit(cap)
<1>1. ASSUME NEW cap \in Sizes, Send(cap) PROVE OverLimit(cap)
  BY <1>1 DEF Send, SendDropped, SendQueued, SendWritten, SendFailed, SendKilled, Post, counters
<1>2. CASE DrainWrite
  BY <1>2 DEF DrainWrite
<1>3. CASE \/ Construct \/ OnWriteOpportunity \/ DrainKilled
           \/ (\E mode \in BOOLEAN : SetAsyncMode(mode))
           \/ (\E n \in QueueMaxSizes : SetQueueMaxSize(n))
           \/ ConnectionGracefulShutdown \/ (\E c \in Conns : Break(c))
           \/ UNCHANGED vars
  <2>1. UNCHANGED dropped
    BY <1>3, OtherEffect
  <2> QED BY <2>1
<1> QED BY <1>1, <1>2, <1>3 DEF Next

\* No event is dropped while it fits within the limit: the drop policy never
\* sheds load early, whatever failures came before.
THEOREM NoSpuriousDropCorrect == Spec => NoSpuriousDrop
<1>1. AccountInv /\ [Next]_vars => [DropAtLimit]_vars
  <2> SUFFICES ASSUME AccountInv, [Next]_vars, dropped' # dropped
               PROVE queuemaxsize > 0 /\ \E cap \in Sizes : Pending + cap > queuemaxsize
    BY DEF DropAtLimit
  <2>1. PICK cap \in Sizes : OverLimit(cap)
    BY DropStep DEF AccountInv
  <2>2. /\ queuesize \in Nat /\ queuemaxsize \in Nat /\ cap \in 1..MaxSize
        /\ Pending \in Nat /\ queuesize <= Pending
    BY SizesAssumption, PendingNat
    DEF PendingIsNat, AccountInv, QueueSizeNeverOvercounts, QueueInv, TypeInv, TypeOK
  <2> QED BY <2>1, <2>2 DEF OverLimit
<1> QED BY <1>1, AccountInvariant, PTL DEF Spec, NoSpuriousDrop

\* Until a drain sees a failing write, the limit bounds what is held.
THEOREM QueueBoundedCorrect == Spec => QueueBoundedUntilFailure
<1>1. AccountInv /\ [Next]_vars => [fails = 0 => AcceptWithinLimit]_vars
  <2> SUFFICES ASSUME AccountInv, [Next]_vars, fails = 0, posted' # posted, queuemaxsize # 0
               PROVE Pending + (postedBytes' - postedBytes) <= queuemaxsize
    BY DEF AcceptWithinLimit
  <2>1. QueueInv /\ queuesize = Pending /\ Pending \in Nat
    BY PendingNat DEF PendingIsNat, AccountInv, QueueSizeExact
  <2>2. ASSUME NEW cap \in Sizes, Send(cap)
        PROVE Pending + (postedBytes' - postedBytes) <= queuemaxsize
    <3>1. ~OverLimit(cap) /\ postedBytes' = postedBytes + cap
      BY <2>1, <2>2, SendEffect
    <3>2. postedBytes \in Nat /\ queuemaxsize \in Nat /\ cap \in Nat
      BY <2>1, SizesAssumption DEF QueueInv, TypeInv, TypeOK
    <3> QED BY <2>1, <3>1, <3>2 DEF OverLimit
  <2>3. CASE DrainWrite
    BY <2>3 DEF DrainWrite
  <2>4. CASE \/ Construct \/ OnWriteOpportunity \/ DrainKilled
             \/ (\E mode \in BOOLEAN : SetAsyncMode(mode))
             \/ (\E n \in QueueMaxSizes : SetQueueMaxSize(n))
             \/ ConnectionGracefulShutdown \/ (\E c \in Conns : Break(c))
             \/ UNCHANGED vars
    <3>1. UNCHANGED posted
      BY <2>1, <2>4, OtherEffect
    <3> QED BY <3>1
  <2> QED BY <2>2, <2>3, <2>4 DEF Next
<1> QED BY <1>1, AccountInvariant, PTL DEF Spec, QueueBoundedUntilFailure
=============================================================================
