------------------------- MODULE PosixIOWireProofs -------------------------
(***************************************************************************)
(* Proofs, for every value of the constants, about the connections of      *)
(* PosixIO.  First: they carry whole frames, as long as no drain saw a     *)
(* failing write.  Then, failing writes included: their mode, when they    *)
(* are replaced, and which frames they carry, in which order.              *)
(***************************************************************************)
EXTENDS PosixIOProofs

LastComplete(frames) == frames # <<>> => frames[Len(frames)].to = frames[Len(frames)].cap

\* The last range of a connection is the written part of buf.
LastIs(frames, buf) ==
    /\ frames # <<>>
    /\ frames[Len(frames)].id = buf.id
    /\ frames[Len(frames)].cap = buf.cap
    /\ frames[Len(frames)].to = buf.off

PartialHead == queue # <<>> /\ queue[1].off > 0

\* The current connection ends with the written part of the queue's head, or
\* else with a complete frame.
HeadOnWire ==
    /\ PartialHead => fd # NoFd /\ LastIs(wire[fd], queue[1])
    /\ ~PartialHead /\ fd # NoFd => LastComplete(wire[fd])

\* A connection not made yet carries nothing.
FreshConns ==
    /\ \A c \in Conns : sock[c] = "none" => wire[c] = <<>>
    /\ fd # NoFd => sock[fd] # "none"

WireInv == QueueInv /\ FreshConns /\ (fails = 0 => FramesOnWire /\ HeadOnWire)

\* Writing the next n bytes of a frame after its written part, or of a fresh
\* frame after a complete one, leaves whole frames.
LEMMA PutFrames ==
    ASSUME NEW frames \in Seq(Ranges), WholeFrames(frames),
           NEW buf \in Buffers, NEW n \in Nat \ {0},
           Position(buf.off) = buf.off, buf.off + n <= buf.cap,
           buf.off > 0 => LastIs(frames, buf),
           buf.off = 0 => LastComplete(frames)
    PROVE  /\ WholeFrames(Put(frames, buf, n))
           /\ Put(frames, buf, n) # <<>>
           /\ Put(frames, buf, n)[Len(Put(frames, buf, n))].id = buf.id
           /\ Put(frames, buf, n)[Len(Put(frames, buf, n))].cap = buf.cap
           /\ Put(frames, buf, n)[Len(Put(frames, buf, n))].to = buf.off + n
<1> DEFINE last == Len(frames)
           range(a) == [id |-> buf.id, cap |-> buf.cap, from |-> a, to |-> buf.off + n]
<1>1. /\ buf.off \in Nat /\ buf.cap \in Nat \ {0} /\ buf.id \in Nat /\ last \in Nat
      /\ \A i \in 1..last : frames[i] \in Ranges
  BY SizesAssumption DEF Buffers
<1>2. CASE buf.off > 0
  <2>1. /\ last > 0 /\ last \in 1..last /\ frames[last].id = buf.id
        /\ frames[last].to = buf.off /\ frames[last].cap = buf.cap
    BY <1>1, <1>2, EmptySeq DEF LastIs
  <2>2. frames[last].from = 0
    BY <2>1 DEF WholeFrames
  <2>3. Put(frames, buf, n) = [frames EXCEPT ![last] = range(0)]
    BY <2>1, <2>2 DEF Put
  <2>4. range(0) \in Ranges
    BY <1>1 DEF Ranges, Buffers
  <2>5. PICK new \in Seq(Ranges) :
          /\ new = Put(frames, buf, n) /\ Len(new) = Len(frames)
          /\ new[last].id = buf.id /\ new[last].cap = buf.cap
          /\ new[last].from = 0 /\ new[last].to = buf.off + n
          /\ \A i \in 1..last : i # last => new[i] = frames[i]
    BY <2>1, <2>3, <2>4
  <2>6. ASSUME NEW i \in 1..Len(new)
        PROVE  /\ new[i].from = 0 /\ new[i].to <= new[i].cap
               /\ i < Len(new) => new[i].to = new[i].cap
    <3>1. CASE i = last
      BY <2>5, <3>1
    <3>2. CASE i # last
      <4>1. new[i] = frames[i] /\ i \in 1..last /\ i < last
        BY <1>1, <2>5, <3>2
      <4> QED BY <4>1 DEF WholeFrames
    <3> QED BY <3>1, <3>2
  <2>7. WholeFrames(new)
    BY <2>6 DEF WholeFrames
  <2>8. new # <<>>
    <3>1. Len(new) # 0 /\ Len(<<>>) = 0
      BY <2>1, <2>5, EmptySeq
    <3> QED BY <3>1
  <2> QED BY <2>5, <2>7, <2>8
<1>3. CASE buf.off = 0
  <2>1. last > 0 => frames[last].to # 0
    <3>1. ASSUME last > 0 PROVE frames[last].to # 0
      <4>1. last \in 1..last /\ frames # <<>>
        BY <1>1, <3>1, EmptySeq
      <4>2. frames[last].cap \in 1..MaxSize
        BY <1>1, <4>1 DEF Ranges
      <4> QED BY <1>3, <4>1, <4>2, SizesAssumption DEF LastComplete
    <3> QED BY <3>1
  <2>2. Put(frames, buf, n) = Append(frames, range(0))
    BY <1>3, <2>1 DEF Put
  <2>3. range(0) \in Ranges
    BY <1>1 DEF Ranges, Buffers
  <2>4. PICK new \in Seq(Ranges) :
          /\ new = Put(frames, buf, n) /\ Len(new) = last + 1 /\ new # <<>>
          /\ new[last + 1].id = buf.id /\ new[last + 1].cap = buf.cap
          /\ new[last + 1].from = 0 /\ new[last + 1].to = buf.off + n
          /\ \A i \in 1..last : new[i] = frames[i]
    BY SMTT(60), <2>2, <2>3, AppendProperties
  <2>5. ASSUME NEW i \in 1..Len(new)
        PROVE  /\ new[i].from = 0 /\ new[i].to <= new[i].cap
               /\ i < Len(new) => new[i].to = new[i].cap
    <3>1. CASE i = last + 1
      BY <2>4, <3>1
    <3>2. CASE i = last
      <4>1. frames # <<>> /\ i \in 1..last /\ new[i] = frames[last]
        BY <1>1, <2>4, <3>2, EmptySeq
      <4> QED BY <1>3, <3>2, <4>1 DEF WholeFrames, LastComplete
    <3>3. CASE i # last /\ i # last + 1
      <4>1. i \in 1..last /\ i < last /\ new[i] = frames[i]
        BY <1>1, <2>4, <3>3
      <4> QED BY <4>1 DEF WholeFrames
    <3> QED BY <3>1, <3>2, <3>3
  <2>6. WholeFrames(new)
    BY <2>5 DEF WholeFrames
  <2> QED BY <2>4, <2>6
<1> QED BY <1>1, <1>2, <1>3

\* A connection attempt with no partly written buffer keeps the invariant.
LEMMA ReconnectKeepsWireInv ==
    ASSUME WireInv, QueueInv', NEW sk \in [Conns -> SockStates],
           \A c \in Conns : sk[c] = "none" <=> sock[c] = "none",
           InitializeConnection(sk), ~PartialHead, ~PartialHead',
           wire' = wire, fails' = fails
    PROVE  WireInv'
<1>1. /\ sock \in [Conns -> SockStates] /\ fd \in Conns \cup {NoFd}
      /\ \A c \in Conns : sock[c] = "none" => wire[c] = <<>>
      /\ fd # NoFd => sock[fd] # "none"
  BY DEF WireInv, FreshConns, QueueInv, TypeInv, TypeOK
<1>2. (fails = 0 => FramesOnWire)'
  BY DEF WireInv, FramesOnWire, WholeFrames
<1>3. CASE LookupFails(sk) \/ TLSFails(sk)
  <2>1. sock' = sk /\ fd' = fd
    BY <1>3 DEF LookupFails, TLSFails
  <2>2. FreshConns'
    BY <1>1, <2>1 DEF FreshConns
  <2>3. (fails = 0 => HeadOnWire)'
    BY <2>1 DEF WireInv, HeadOnWire, LastComplete
  <2> QED BY <1>2, <2>2, <2>3 DEF WireInv
<1>4. CASE ConnectFails(sk)
  <2>1. sock' = sk /\ fd' = NoFd
    BY <1>4 DEF ConnectFails
  <2>2. FreshConns'
    BY <1>1, <2>1 DEF FreshConns
  <2>3. HeadOnWire'
    BY <2>1 DEF HeadOnWire
  <2> QED BY <1>2, <2>2, <2>3 DEF WireInv
<1>5. CASE Connects(sk)
  <2>1. PICK c \in Conns : sk[c] = "none" /\ fd' = c /\ sock' = [sk EXCEPT ![c] = "open"]
    BY <1>5 DEF Connects
  <2>2. FreshConns'
    BY <1>1, <2>1 DEF FreshConns
  <2>3. wire'[fd'] = <<>>
    BY <1>1, <2>1
  <2>4. HeadOnWire'
    BY <2>3 DEF HeadOnWire, LastComplete
  <2> QED BY <1>2, <2>2, <2>4 DEF WireInv
<1> QED BY <1>3, <1>4, <1>5 DEF InitializeConnection

\* A step that leaves the wire, the descriptor and the head alone keeps it.
LEMMA OthersKeepWireInv ==
    ASSUME WireInv, QueueInv', UNCHANGED <<wire, fd, fails>>,
           \A c \in Conns : sock'[c] = "none" <=> sock[c] = "none",
           PartialHead' <=> PartialHead,
           PartialHead => /\ queue'[1] = queue[1]
    PROVE  WireInv'
<1>1. FreshConns'
  BY DEF WireInv, FreshConns, QueueInv, TypeInv, TypeOK
<1>2. (fails = 0 => FramesOnWire)'
  BY DEF WireInv, FramesOnWire, WholeFrames
<1>3. (fails = 0 => HeadOnWire)'
  BY DEF WireInv, HeadOnWire, LastComplete, LastIs
<1> QED BY <1>1, <1>2, <1>3 DEF WireInv

\* An accepted write of n bytes of buf on the current connection keeps it, when
\* the queue that is left begins with the rest of buf or with a fresh buffer.
LEMMA WriteKeepsWireInv ==
    ASSUME WireInv, QueueInv', NEW buf \in Buffers, NEW n \in Nat \ {0},
           fails' = fails, fd' = fd, fd \in Conns,
           sock[fd] = "open", sock' = sock,
           wire' = [wire EXCEPT ![fd] = Put(@, buf, n)],
           fails = 0 => /\ Position(buf.off) = buf.off
                        /\ buf.off + n <= buf.cap
                        /\ buf.off > 0 => LastIs(wire[fd], buf)
                        /\ buf.off = 0 => LastComplete(wire[fd])
                        /\ PartialHead' => /\ queue'[1].id = buf.id
                                           /\ queue'[1].cap = buf.cap
                                           /\ queue'[1].off = buf.off + n
                        /\ ~PartialHead' => buf.off + n = buf.cap
    PROVE  WireInv'
<1>1. wire \in [Conns -> Seq(Ranges)] /\ sock \in [Conns -> SockStates]
  BY DEF WireInv, QueueInv, TypeInv, TypeOK
<1>2. wire'[fd] = Put(wire[fd], buf, n) /\ \A c \in Conns : c # fd => wire'[c] = wire[c]
  BY <1>1
<1>3. FreshConns'
  BY <1>1, <1>2 DEF WireInv, FreshConns
<1>4. ASSUME fails = 0 PROVE (FramesOnWire /\ HeadOnWire)'
  <2>1. WholeFrames(wire[fd])
    BY <1>4 DEF WireInv, FramesOnWire
  <2>2. PICK new \in Seq(Ranges) :
          /\ new = Put(wire[fd], buf, n) /\ WholeFrames(new) /\ new # <<>>
          /\ new[Len(new)].id = buf.id /\ new[Len(new)].cap = buf.cap
          /\ new[Len(new)].to = buf.off + n
    <3>1. /\ wire[fd] \in Seq(Ranges) /\ n \in Nat
          /\ Position(buf.off) = buf.off /\ buf.off + n <= buf.cap
          /\ buf.off > 0 => LastIs(wire[fd], buf)
          /\ buf.off = 0 => LastComplete(wire[fd])
      BY <1>1, <1>4
    <3> DEFINE new == Put(wire[fd], buf, n)
    <3>2. new \in Seq(Ranges)
      BY <3>1, PutType
    <3>3. /\ WholeFrames(new) /\ new # <<>>
          /\ new[Len(new)].id = buf.id /\ new[Len(new)].cap = buf.cap
          /\ new[Len(new)].to = buf.off + n
      BY <2>1, <3>1, PutFrames
    <3> HIDE DEF new
    <3> QED BY <3>2, <3>3 DEF new
  <2>3. FramesOnWire'
    <3> SUFFICES ASSUME NEW c \in Conns PROVE WholeFrames(wire'[c])
      BY DEF FramesOnWire, WholeFrames
    <3>1. CASE c = fd
      BY <1>2, <2>2, <3>1
    <3>2. CASE c # fd
      BY <1>2, <1>4, <3>2 DEF WireInv, FramesOnWire
    <3> QED BY <3>1, <3>2
  <2>4. wire'[fd'] = new
    BY <1>2, <2>2
  <2>5. PartialHead' => fd' # NoFd /\ LastIs(wire'[fd'], queue'[1])
    BY <1>4, <2>2, <2>4 DEF LastIs, Conns, NoFd
  <2>6. ~PartialHead' => LastComplete(wire'[fd'])
    BY <1>4, <2>2, <2>4 DEF LastComplete
  <2>7. HeadOnWire'
    BY <2>5, <2>6 DEF HeadOnWire, LastIs, LastComplete
  <2> QED BY <2>3, <2>7
<1> QED BY <1>3, <1>4 DEF WireInv

LEMMA SendKeepsWireInv ==
    ASSUME WireInv, QueueInv', NEW cap \in Sizes, Send(cap) PROVE WireInv'
<1> USE SizeModAssumption, SizesAssumption, BoundsAssumption
<1>1. /\ cap \in 1..MaxSize /\ Buffer(cap) \in Buffers /\ queue \in Seq(Buffers)
      /\ Buffer(cap).off = 0 /\ Buffer(cap).cap = cap /\ cap \in 0..(SIZE_MOD - 1)
  <2>1. cap \in 1..MaxSize /\ Buffer(cap) \in Buffers
    BY BufferType DEF WireInv, QueueInv, TypeInv
  <2>2. queue \in Seq(Buffers)
    BY DEF WireInv, QueueInv, TypeInv, TypeOK
  <2>3. Buffer(cap).off = 0 /\ Buffer(cap).cap = cap
    BY DEF Buffer
  <2> QED BY <2>1, <2>2, <2>3
<1>2. \A c \in Conns : SockAfterWrite[c] = "none" <=> sock[c] = "none"
  BY DEF SockAfterWrite, WireInv, QueueInv, TypeInv, TypeOK
<1>3. CASE SendDropped(cap) \/ SendKilled(cap)
  <2>1. UNCHANGED <<wire, fd, fails, sock, queue>>
    BY <1>3 DEF SendDropped, SendKilled, kernel, counters
  <2> QED BY <2>1, OthersKeepWireInv DEF PartialHead
<1>4. CASE SendQueued(cap)
  <2>1. UNCHANGED <<wire, fd, fails, sock>> /\ queue' = Append(queue, Buffer(cap))
    BY <1>4 DEF SendQueued, Post, kernel
  <2>2. CASE queue = <<>>
    <3>1. queue'[1] = Buffer(cap)
      BY <1>1, <2>1, <2>2
    <3>2. ~PartialHead /\ ~PartialHead'
      BY <1>1, <2>2, <3>1 DEF PartialHead
    <3> QED BY <2>1, <3>2, OthersKeepWireInv
  <2>3. CASE queue # <<>>
    <3>1. queue'[1] = queue[1] /\ queue' # <<>>
      BY <1>1, <2>1, <2>3
    <3>2. PartialHead' <=> PartialHead
      BY <2>3, <3>1 DEF PartialHead
    <3> QED BY <2>1, <3>1, <3>2, OthersKeepWireInv
  <2> QED BY <2>2, <2>3
<1>5. CASE SendWritten(cap)
  <2>1. PICK n \in WriteResults(cap) :
          /\ n > 0
          /\ wire' = [wire EXCEPT ![fd] = Put(@, Buffer(cap), n)]
          /\ IF Complete(Buffer(cap), n)
             THEN sentCnt' = sentCnt + 1 /\ queue' = queue
             ELSE sentCnt' = sentCnt /\ queue' = Append(queue, [Buffer(cap) EXCEPT !.off = n])
    BY <1>5 DEF SendWritten
  <2>2. /\ n \in 1..cap /\ fd # NoFd /\ sock[fd] = "open" /\ fd \in Conns
    BY SMTT(60), <1>1, <2>1, WriteResultsRange DEF WireInv, QueueInv, TypeInv, TypeOK
  <2>3. fd' = fd /\ sock' = sock /\ fails' = fails /\ queue = <<>>
    BY <1>5 DEF SendWritten, Post, MustQueue
  <2>4. fails = 0 => LastComplete(wire[fd])
    BY <2>2, <2>3 DEF WireInv, HeadOnWire, PartialHead
  <2>5. Position(0) = 0
    BY DEF Position
  <2>6. /\ PartialHead' => /\ queue'[1].id = Buffer(cap).id
                           /\ queue'[1].cap = cap /\ queue'[1].off = n
        /\ ~PartialHead' => n = cap
    <3>1. CASE Complete(Buffer(cap), n)
      BY <1>1, <2>1, <2>3, <3>1 DEF Complete, PartialHead
    <3>2. CASE ~Complete(Buffer(cap), n)
      <4>1. [Buffer(cap) EXCEPT !.off = n] \in Buffers
        BY <1>1, <2>2, BufferType DEF WireInv, QueueInv, TypeInv
      <4>2. queue'[1] = [Buffer(cap) EXCEPT !.off = n] /\ queue' # <<>>
        <5>1. PICK buf \in Buffers : buf = [Buffer(cap) EXCEPT !.off = n]
          BY <4>1
        <5>2. queue' = Append(<<>>, buf)
          BY <2>1, <2>3, <3>2, <5>1
        <5> QED BY <5>1, <5>2
      <4>3. queue'[1].id = Buffer(cap).id /\ queue'[1].cap = cap /\ queue'[1].off = n
        BY <1>1, <4>2 DEF Buffer
      <4> QED BY <2>1, <4>2, <4>3 DEF PartialHead
    <3> QED BY <3>1, <3>2
  <2>7. PICK buf \in Buffers : buf = Buffer(cap) /\ buf.off = 0 /\ buf.cap = cap
    BY <1>1
  <2>8. n \in Nat \ {0} /\ wire' = [wire EXCEPT ![fd] = Put(@, buf, n)]
    BY <1>1, <2>1, <2>2, <2>7
  <2>9. fails = 0 => /\ Position(buf.off) = buf.off
                     /\ buf.off + n <= buf.cap
                     /\ buf.off > 0 => LastIs(wire[fd], buf)
                     /\ buf.off = 0 => LastComplete(wire[fd])
                     /\ PartialHead' => /\ queue'[1].id = buf.id
                                        /\ queue'[1].cap = buf.cap
                                        /\ queue'[1].off = buf.off + n
                     /\ ~PartialHead' => buf.off + n = buf.cap
    BY <1>1, <2>2, <2>4, <2>5, <2>6, <2>7
  <2> QED BY <2>2, <2>3, <2>8, <2>9, WriteKeepsWireInv
<1>6. CASE SendFailed(cap)
  <2>1. wire' = wire /\ fails' = fails /\ queue = <<>> /\ queue' = Append(queue, Buffer(cap))
    BY <1>6 DEF SendFailed, Post, MustQueue
  <2>2. queue'[1] = Buffer(cap)
    BY <1>1, <2>1
  <2>3. ~PartialHead /\ ~PartialHead'
    BY <1>1, <2>1, <2>2 DEF PartialHead
  <2>4. CASE InitializeConnection(SockAfterWrite)
    BY <1>2, <2>1, <2>3, <2>4, SockAfterWriteType, ReconnectKeepsWireInv
    DEF WireInv, QueueInv, TypeInv
  <2>5. CASE sock' = SockAfterWrite /\ fd' = fd
    BY <1>2, <2>1, <2>3, <2>5, OthersKeepWireInv
  <2> QED BY <1>6, <2>4, <2>5 DEF SendFailed
<1> QED BY <1>3, <1>4, <1>5, <1>6 DEF Send

LEMMA DrainKeepsWireInv ==
    ASSUME WireInv, QueueInv', DrainWrite PROVE WireInv'
<1> USE SizeModAssumption, SizesAssumption, BoundsAssumption
<1>1. PICK r \in Int :
        /\ -1 <= r /\ Position(queue[1].off) + r <= queue[1].cap
        /\ r > 0 => fd \in Conns /\ sock[fd] = "open"
        /\ fails' = IF r = -1 THEN fails + 1 ELSE fails
        /\ wire' = IF r > 0 THEN [wire EXCEPT ![fd] = Put(@, queue[1], r)] ELSE wire
        /\ HeadMoves(r)
  BY DrainStep DEF WireInv, HeadMoves
<1>2. /\ queue \in Seq(Buffers) /\ queue # <<>> /\ queue[1] \in Buffers
      /\ Len(queue) \in Nat \ {0} /\ fails \in Nat
  <2>1. queue \in Seq(Buffers) /\ queue # <<>> /\ fails \in Nat
    BY DEF WireInv, QueueInv, TypeInv, TypeOK, DrainInv, DrainWrite
  <2> QED BY <2>1, EmptySeq
<1>3. fd' = fd /\ sock' = SockAfterWrite
  BY DEF DrainWrite
<1>4. \A c \in Conns : sock'[c] = "none" <=> sock[c] = "none"
  BY <1>3 DEF SockAfterWrite, WireInv, QueueInv, TypeInv, TypeOK
<1>5. queue[1].off \in 0..(SIZE_MOD - 1) /\ queue[1].cap \in 1..MaxSize
  <2>1. queue[1] \in Buffers
    BY <1>2
  <2> QED BY <2>1 DEF Buffers
<1>6. fails = 0 => /\ Position(queue[1].off) = queue[1].off
                   /\ queue[1].off < queue[1].cap
  <2>1. Position(queue[1].off) < queue[1].cap /\ -fails <= Position(queue[1].off)
    BY <1>2 DEF WireInv, QueueInv, Offsets
  <2> QED BY <1>5, <2>1 DEF Position
<1>7. CASE r = -1
  <2>1. fails' # 0 /\ wire' = wire
    BY <1>1, <1>2, <1>7
  <2>2. FreshConns'
    BY <1>3, <1>4, <2>1 DEF WireInv, FreshConns, QueueInv, TypeInv, TypeOK
  <2> QED BY <2>1, <2>2 DEF WireInv
<1>8. CASE r = 0
  <2>1. /\ wire' = wire /\ fails' = fails
    BY <1>1, <1>8
  <2>2. CASE fails # 0
    <3>1. FreshConns'
      BY <1>3, <1>4, <2>1 DEF WireInv, FreshConns, QueueInv, TypeInv, TypeOK
    <3> QED BY <2>1, <2>2, <3>1 DEF WireInv
  <2>3. CASE fails = 0
    <3>1. Position(queue[1].off) + r = queue[1].off /\ queue[1].off # queue[1].cap
      BY <1>5, <1>6, <1>8, <2>3
    <3>2. PICK off \in 0..(SIZE_MOD - 1) :
            queue' = [queue EXCEPT ![1].off = off] /\ Position(off) = queue[1].off
      BY <1>1, <3>1 DEF HeadMoves
    <3>3. off = queue[1].off
      BY <1>5, <1>6, <2>3, <3>2 DEF Position
    <3>4. queue' = queue
      BY <1>2, <3>2, <3>3 DEF Buffers
    <3> QED BY <1>3, <1>4, <2>1, <3>4, OthersKeepWireInv DEF PartialHead
  <2> QED BY <2>2, <2>3
<1>9. CASE r > 0
  <2>1. /\ wire' = [wire EXCEPT ![fd] = Put(@, queue[1], r)] /\ fd \in Conns
        /\ sock[fd] = "open" /\ fails' = fails /\ r \in Nat \ {0}
    BY <1>1, <1>9
  <2>2. sock' = sock
    BY <1>3, <2>1 DEF SockAfterWrite
  <2>3. fails = 0 => /\ queue[1].off > 0 => LastIs(wire[fd], queue[1])
                     /\ queue[1].off = 0 => LastComplete(wire[fd])
    BY <1>2, <1>5, <2>1 DEF WireInv, HeadOnWire, PartialHead, Conns, NoFd
  <2>4. ASSUME fails = 0
        PROVE  /\ queue[1].off + r <= queue[1].cap
               /\ PartialHead' => /\ queue'[1].id = queue[1].id
                                  /\ queue'[1].cap = queue[1].cap
                                  /\ queue'[1].off = queue[1].off + r
               /\ ~PartialHead' => queue[1].off + r = queue[1].cap
    <3>1. Position(queue[1].off) = queue[1].off /\ queue[1].off + r <= queue[1].cap
      BY <1>1, <1>6, <2>4
    <3>2. CASE queue[1].off + r = queue[1].cap
      <4>1. queue' = Tail(queue)
        BY <1>1, <3>1, <3>2 DEF HeadMoves
      <4>2. ~PartialHead'
        <5>1. CASE queue' # <<>>
          <6>1. queue' \in Seq(Buffers) /\ Len(queue') = Len(queue) - 1 /\ Len(queue') # 0
            <7>1. queue' \in Seq(Buffers) /\ Len(queue') = Len(queue) - 1
              BY <1>2, <4>1, HeadTailProperties
            <7> QED BY <5>1, <7>1, EmptySeq
          <6>2. 2 \in 2..Len(queue) /\ 1 \in 1..Len(queue')
            BY <1>2, <6>1
          <6>3. queue'[1] = queue[2]
            BY <1>2, <4>1, <6>2, HeadTailProperties
          <6>4. queue[2].off = 0
            BY <6>2 DEF WireInv, QueueInv, Offsets
          <6> QED BY <6>3, <6>4 DEF PartialHead
        <5>2. CASE queue' = <<>>
          BY <5>2 DEF PartialHead
        <5> QED BY <5>1, <5>2
      <4> QED BY <3>1, <3>2, <4>2
    <3>3. CASE queue[1].off + r # queue[1].cap
      <4>1. PICK off \in 0..(SIZE_MOD - 1) :
              queue' = [queue EXCEPT ![1].off = off] /\ Position(off) = queue[1].off + r
        BY <1>1, <3>1, <3>3 DEF HeadMoves
      <4>2. off = queue[1].off + r
        BY <1>5, <2>1, <3>1, <4>1 DEF Position
      <4>3. 1 \in DOMAIN queue' /\ queue'[1] = [queue[1] EXCEPT !.off = off]
        BY <1>2, <4>1
      <4>4. queue' # <<>>
        BY <4>3
      <4>5. queue'[1].id = queue[1].id /\ queue'[1].cap = queue[1].cap /\ queue'[1].off = off
        BY <1>2, <4>3 DEF Buffers
      <4>6. PartialHead'
        BY <1>5, <2>1, <4>2, <4>4, <4>5 DEF PartialHead
      <4> QED BY <3>1, <4>2, <4>5, <4>6
    <3> QED BY <3>2, <3>3
  <2> QED BY <1>2, <1>3, <1>6, <2>1, <2>2, <2>3, <2>4, WriteKeepsWireInv
<1> QED BY <1>1, <1>7, <1>8, <1>9

\* The constructor runs on an empty queue.
NewInv == pc = "new" => queue = <<>>

LEMMA NextNewInv == NewInv /\ [Next]_vars => NewInv'
<1> SUFFICES ASSUME NewInv, [Next]_vars PROVE NewInv'
  OBVIOUS
<1>1. pc' = "new" => pc = "new" /\ queue' = queue
  <2>1. ASSUME NEW sk, InitializeConnection(sk) PROVE pc' # "new"
    BY <2>1 DEF InitializeConnection, LookupFails, ConnectFails, TLSFails, Connects
  <2>2. CASE Construct
    BY <2>1, <2>2 DEF Construct
  <2>3. ASSUME NEW cap \in Sizes, Send(cap) PROVE pc' # "new"
    BY <2>1, <2>3 DEF Send, SendDropped, SendQueued, SendWritten, SendFailed, SendKilled
  <2>4. CASE DrainWrite
    BY <2>4 DEF DrainWrite, Advance
  <2>5. CASE OnWriteOpportunity \/ DrainKilled \/ ConnectionGracefulShutdown
             \/ (\E mode \in BOOLEAN : SetAsyncMode(mode))
             \/ (\E n \in QueueMaxSizes : SetQueueMaxSize(n))
    BY <2>5 DEF OnWriteOpportunity, DrainKilled, ConnectionGracefulShutdown,
                SetAsyncMode, SetQueueMaxSize
  <2>6. CASE (\E c \in Conns : Break(c)) \/ UNCHANGED vars
    BY <2>6 DEF Break, vars
  <2> QED BY <2>2, <2>3, <2>4, <2>5, <2>6 DEF Next
<1> QED BY <1>1 DEF NewInv

LEMMA NextWireInv == WireInv /\ NewInv /\ [Next]_vars => WireInv'
<1> SUFFICES ASSUME WireInv, NewInv, [Next]_vars PROVE WireInv'
  OBVIOUS
<1>1. QueueInv' /\ QueueInv /\ sock \in [Conns -> SockStates]
  BY NextQueueInv DEF WireInv, QueueInv, TypeInv, TypeOK
<1>2. ASSUME NEW cap \in Sizes, Send(cap) PROVE WireInv'
  BY <1>1, <1>2, SendKeepsWireInv
<1>3. CASE DrainWrite
  BY <1>1, <1>3, DrainKeepsWireInv
<1>4. CASE Construct
  <2>1. /\ wire' = wire /\ fails' = fails /\ queue' = queue /\ InitializeConnection(sock)
        /\ queue = <<>>
    BY <1>4 DEF Construct, NewInv
  <2>2. ~PartialHead /\ ~PartialHead'
    BY <2>1 DEF PartialHead
  <2> QED BY <1>1, <2>1, <2>2, ReconnectKeepsWireInv
<1>5. CASE \/ OnWriteOpportunity \/ DrainKilled
           \/ (\E mode \in BOOLEAN : SetAsyncMode(mode))
           \/ (\E n \in QueueMaxSizes : SetQueueMaxSize(n))
           \/ ConnectionGracefulShutdown \/ (\E c \in Conns : Break(c))
           \/ UNCHANGED vars
  <2>1. UNCHANGED <<wire, fails, queue>>
    BY <1>1, <1>5, OtherEffect
  <2>2. fd' = fd
    BY <1>5 DEF OnWriteOpportunity, DrainKilled, SetAsyncMode, SetQueueMaxSize,
                ConnectionGracefulShutdown, Break, vars
  <2>3. \A c \in Conns : sock'[c] = "none" <=> sock[c] = "none"
    <3>1. CASE ConnectionGracefulShutdown
      BY <1>1, <3>1 DEF ConnectionGracefulShutdown, WireInv, FreshConns
    <3>2. CASE \E c \in Conns : Break(c)
      BY <1>1, <3>2 DEF Break
    <3>3. CASE sock' = sock
      BY <3>3
    <3> QED BY <1>5, <3>1, <3>2, <3>3
            DEF OnWriteOpportunity, DrainKilled, SetAsyncMode, SetQueueMaxSize, kernel, vars
  <2> QED BY <1>1, <2>1, <2>2, <2>3, OthersKeepWireInv DEF PartialHead
<1> QED BY <1>2, <1>3, <1>4, <1>5 DEF Next

-----------------------------------------------------------------------------
(* What follows from the invariants *)

\* What is known of every reachable state.
Known == WireInv /\ NewInv

LEMMA SpecKnown == Spec => []Known
<1>1. Init => Known
  <2> SUFFICES ASSUME Init PROVE Known
    OBVIOUS
  <2>1. (\A c \in Conns : wire[c] = <<>>) /\ queue = <<>> /\ fd = NoFd
    BY DEF Init
  <2>2. FramesOnWire
    BY <2>1, EmptySeq DEF FramesOnWire, WholeFrames
  <2> QED BY <2>1, <2>2, InitQueueInv
          DEF Known, WireInv, NewInv, FreshConns, HeadOnWire, PartialHead
<1>2. Known /\ [Next]_vars => Known'
  BY NextWireInv, NextNewInv DEF Known
<1> QED BY <1>1, <1>2, PTL DEF Spec

\* Until a drain sees a failing write, every connection carries whole frames in
\* sequence, the last one perhaps incomplete: partial writes, queueing, drains
\* and reconnections never tear, repeat or interleave a frame.
THEOREM FramesCorrect == Spec => []FramesOnWireUntilFailure
<1>1. Known => FramesOnWireUntilFailure
  BY DEF Known, WireInv, FramesOnWireUntilFailure
<1> QED BY <1>1, SpecKnown, PTL

LEMMA KnownType == Known => TypeOK
BY DEF Known, WireInv, QueueInv, TypeInv

\* A failed write changes no socket but one that was reset.
LEMMA SockAfterWriteKeeps ==
    ASSUME TypeOK
    PROVE  /\ SockAfterWrite \in [Conns -> SockStates]
           /\ \A c \in Conns : /\ SockAfterWrite[c] = "none" <=> sock[c] = "none"
                               /\ SockAfterWrite[c] = "open" <=> sock[c] = "open"
                               /\ SockAfterWrite[c] = "closed" <=> sock[c] = "closed"
<1>1. SockAfterWrite \in [Conns -> SockStates]
  BY SockAfterWriteType
<1>2. CASE fd # NoFd /\ sock[fd] = "reset"
  BY <1>1, <1>2 DEF SockAfterWrite, TypeOK
<1>3. CASE ~(fd # NoFd /\ sock[fd] = "reset")
  BY <1>1, <1>3 DEF SockAfterWrite
<1> QED BY <1>2, <1>3

-----------------------------------------------------------------------------
(* The mode of the socket *)

LEMMA InitializeConnectionMode ==
    ASSUME TypeOK, SocketModeAgrees, NEW sk \in [Conns -> SockStates],
           \A c \in Conns : sk[c] = "closed" <=> sock[c] = "closed",
           InitializeConnection(sk), asyncMode' = asyncMode
    PROVE  SocketModeAgrees'
<1>1. CASE LookupFails(sk) \/ TLSFails(sk)
  BY <1>1 DEF LookupFails, TLSFails, SocketModeAgrees, TypeOK
<1>2. CASE ConnectFails(sk)
  BY <1>2 DEF ConnectFails, SocketModeAgrees
<1>3. CASE Connects(sk)
  BY <1>3 DEF Connects, SocketModeAgrees, TypeOK
<1> QED BY <1>1, <1>2, <1>3 DEF InitializeConnection

LEMMA NextMode == TypeOK /\ SocketModeAgrees /\ [Next]_vars => SocketModeAgrees'
<1> SUFFICES ASSUME TypeOK, SocketModeAgrees, [Next]_vars PROVE SocketModeAgrees'
  OBVIOUS
<1>1. CASE Construct
  BY <1>1, InitializeConnectionMode DEF Construct, conf, TypeOK
<1>2. ASSUME NEW cap \in Sizes, Send(cap) PROVE SocketModeAgrees'
  <2>1. CASE SendFailed(cap)
    <3>1. asyncMode' = asyncMode
      BY <2>1 DEF SendFailed, Post, conf
    <3>2. CASE InitializeConnection(SockAfterWrite)
      BY <3>1, <3>2, InitializeConnectionMode, SockAfterWriteKeeps
    <3>3. CASE sock' = SockAfterWrite /\ UNCHANGED <<fd, nonblock>>
      BY <3>1, <3>3, SockAfterWriteKeeps DEF SocketModeAgrees, TypeOK
    <3> QED BY <2>1, <3>2, <3>3 DEF SendFailed
  <2>2. CASE ~SendFailed(cap)
    <3>1. UNCHANGED <<asyncMode, fd, sock, nonblock>>
      BY <1>2, <2>2 DEF Send, SendDropped, SendQueued, SendWritten, SendKilled, Post, conf, kernel
    <3> QED BY <3>1 DEF SocketModeAgrees
  <2> QED BY <2>1, <2>2
<1>3. CASE DrainWrite
  <2>1. sock' = SockAfterWrite /\ UNCHANGED <<asyncMode, fd, nonblock>>
    BY <1>3 DEF DrainWrite, conf
  <2> QED BY <2>1, SockAfterWriteKeeps DEF SocketModeAgrees, TypeOK
<1>4. ASSUME NEW mode \in BOOLEAN, SetAsyncMode(mode) PROVE SocketModeAgrees'
  BY <1>4 DEF SetAsyncMode, FixAsyncMode, SocketModeAgrees, TypeOK
<1>5. CASE ConnectionGracefulShutdown
  BY <1>5 DEF ConnectionGracefulShutdown, SocketModeAgrees, TypeOK, conf
<1>6. ASSUME NEW c \in Conns, Break(c) PROVE SocketModeAgrees'
  BY <1>6 DEF Break, SocketModeAgrees, TypeOK, conf
<1>7. CASE \/ OnWriteOpportunity \/ DrainKilled \/ UNCHANGED vars
           \/ \E n \in QueueMaxSizes : SetQueueMaxSize(n)
  BY <1>7 DEF OnWriteOpportunity, DrainKilled, SetQueueMaxSize, SocketModeAgrees, conf, kernel, vars
<1> QED BY <1>1, <1>2, <1>3, <1>4, <1>5, <1>6, <1>7 DEF Next

\* A usable socket is blocking exactly in sync mode, over reconnections and
\* modes set without a connection (PosixIO.cc: fixAsyncMode, initialize_connection).
THEOREM SocketModeCorrect == Spec => []SocketModeAgrees
<1>1. Init => SocketModeAgrees
  BY DEF Init, SocketModeAgrees
<1> QED BY <1>1, TypeCorrect, NextMode, PTL DEF Spec

-----------------------------------------------------------------------------
(* Which connections are replaced *)

\* Before the constructor's body there is no connection.
NoneYet == pc = "new" => \A c \in Conns : sock[c] = "none"

HealthyInv == HealthyNeverAbandoned /\ NoneYet

\* A write in sync mode fails only on a connection that is not open.
LEMMA FailsOnBroken ==
    ASSUME TypeOK, SocketModeAgrees, ~Interruptible, transport = "tcp",
           NEW cap \in Sizes, ~MustQueue, Fails(cap), fd # NoFd
    PROVE  sock[fd] # "open"
<1> SUFFICES ASSUME sock[fd] = "open" PROVE FALSE
  OBVIOUS
<1>1. ~nonblock[fd]
  BY DEF SocketModeAgrees, MustQueue, TypeOK
<1>2. WriteResults(cap) = 1..cap
  BY <1>1 DEF WriteResults
<1> QED BY <1>2 DEF Fails

LEMMA NextHealthy ==
    ~Interruptible /\ TypeOK /\ SocketModeAgrees /\ HealthyInv /\ [Next]_vars => HealthyInv'
<1> SUFFICES ASSUME ~Interruptible, TypeOK, SocketModeAgrees, HealthyInv, [Next]_vars
             PROVE  HealthyInv'
  OBVIOUS
<1>0. ASSUME NEW sk \in [Conns -> SockStates], InitializeConnection(sk), transport' = transport,
             transport = "tcp" => \A c \in Conns : sk[c] # "open"
      PROVE  HealthyInv'
  <2>1. pc' # "new"
    BY <1>0 DEF InitializeConnection, LookupFails, ConnectFails, TLSFails, Connects
  <2>2. CASE ~Connects(sk)
    BY <1>0, <2>1, <2>2 DEF InitializeConnection, LookupFails, ConnectFails, TLSFails,
                            HealthyInv, HealthyNeverAbandoned, NoneYet
  <2>3. CASE Connects(sk)
    BY <1>0, <2>1, <2>3 DEF Connects, HealthyInv, HealthyNeverAbandoned, NoneYet
  <2> QED BY <2>2, <2>3
<1>1. CASE Construct
  <2>1. transport' = transport /\ sock \in [Conns -> SockStates]
        /\ \A c \in Conns : sock[c] # "open"
    BY <1>1 DEF Construct, conf, TypeOK, HealthyInv, NoneYet
  <2> QED BY <1>0, <1>1, <2>1 DEF Construct
<1>2. ASSUME NEW cap \in Sizes, Send(cap) PROVE HealthyInv'
  <2>1. transport' = transport /\ pc' # "new"
    BY <1>2 DEF Send, SendDropped, SendQueued, SendWritten, SendFailed, SendKilled, Post, conf,
                InitializeConnection, LookupFails, ConnectFails, TLSFails, Connects
  <2>2. CASE SendFailed(cap)
    <3>1. CASE InitializeConnection(SockAfterWrite)
      <4>1. transport = "tcp" => \A c \in Conns : sock[c] # "open"
        BY <2>2, FailsOnBroken DEF SendFailed, HealthyInv, HealthyNeverAbandoned, Conns, NoFd
      <4> QED BY <1>0, <2>1, <3>1, <4>1, SockAfterWriteKeeps
    <3>2. CASE transport = "tls"
      BY <2>1, <3>2 DEF HealthyInv, HealthyNeverAbandoned, NoneYet
    <3> QED BY <2>2, <3>1, <3>2 DEF SendFailed
  <2>3. CASE ~SendFailed(cap)
    <3>1. UNCHANGED <<fd, sock>>
      BY <1>2, <2>3 DEF Send, SendDropped, SendQueued, SendWritten, SendKilled, kernel
    <3> QED BY <2>1, <3>1 DEF HealthyInv, HealthyNeverAbandoned, NoneYet
  <2> QED BY <2>2, <2>3
<1>3. CASE DrainWrite
  <2>1. sock' = SockAfterWrite /\ UNCHANGED <<transport, fd>> /\ pc' # "new"
    BY <1>3 DEF DrainWrite, Advance, conf
  <2> QED BY <2>1, SockAfterWriteKeeps DEF HealthyInv, HealthyNeverAbandoned, NoneYet
<1>4. CASE \/ OnWriteOpportunity \/ DrainKilled \/ UNCHANGED vars
           \/ (\E mode \in BOOLEAN : SetAsyncMode(mode))
           \/ \E n \in QueueMaxSizes : SetQueueMaxSize(n)
  <2>1. UNCHANGED <<transport, fd, sock>> /\ (pc' = "new" => pc = "new")
    BY <1>4 DEF OnWriteOpportunity, DrainKilled, SetAsyncMode, SetQueueMaxSize, conf, kernel, vars
  <2> QED BY <2>1 DEF HealthyInv, HealthyNeverAbandoned, NoneYet
<1>5. CASE ConnectionGracefulShutdown
  BY <1>5 DEF ConnectionGracefulShutdown, conf, HealthyInv, HealthyNeverAbandoned, NoneYet, TypeOK
<1>6. ASSUME NEW c \in Conns, Break(c) PROVE HealthyInv'
  BY <1>6 DEF Break, conf, HealthyInv, HealthyNeverAbandoned, NoneYet, TypeOK
<1> QED BY <1>1, <1>2, <1>3, <1>4, <1>5, <1>6 DEF Next

\* Over TCP, when no signal handler interrupts writes, only a connection that
\* broke is ever replaced (PosixIO.cc: send, initialize_connection).
THEOREM HealthyNeverAbandonedCorrect == ~Interruptible => (Spec => []HealthyNeverAbandoned)
<1> SUFFICES ASSUME ~Interruptible PROVE Spec => []HealthyNeverAbandoned
  OBVIOUS
<1>1. Init => HealthyInv
  BY DEF Init, HealthyInv, HealthyNeverAbandoned, NoneYet
<1>2. TypeOK /\ SocketModeAgrees /\ HealthyInv /\ [Next]_vars => HealthyInv'
  BY NextHealthy
<1>3. Spec => [](TypeOK /\ SocketModeAgrees)
  BY TypeCorrect, SocketModeCorrect, PTL
<1>4. HealthyInv => HealthyNeverAbandoned
  BY DEF HealthyInv
<1> QED BY <1>1, <1>2, <1>3, <1>4, PTL DEF Spec

-----------------------------------------------------------------------------
(* Which frames a connection carries, in which order                       *)

\* Connections are made in the order of their numbers, and the present one is
\* the last.
LastConn ==
    /\ \A c, d \in Conns : sock[c] = "none" /\ c < d => sock[d] = "none"
    /\ fd # NoFd => \A d \in Conns : fd < d => sock[d] = "none"

\* Nothing on the wire is of a later buffer than the queue's head, and of the
\* head only on the present connection: send reconnects only with an empty queue.
HeadLast ==
    \A c \in Conns : \A i \in 1..Len(wire[c]) :
        /\ wire[c][i].id <= sentCnt + 1
        /\ wire[c][i].id = sentCnt + 1 => c = fd /\ queue # <<>>

OrderInv == LastConn /\ HeadLast /\ WireInPostingOrder /\ NoFrameSpansConnections

\* Recording a write extends the last range of its buffer, or adds one.
LEMMA PutIds ==
    ASSUME NEW frames \in Seq(Ranges), NEW buf \in Buffers, NEW n \in Nat
    PROVE  /\ Put(frames, buf, n) \in Seq(Ranges)
           /\ Len(Put(frames, buf, n)) \in {Len(frames), Len(frames) + 1}
           /\ \A i \in 1..Len(Put(frames, buf, n)) :
                \/ i \in 1..Len(frames) /\ Put(frames, buf, n)[i].id = frames[i].id
                \/ i = Len(frames) + 1 /\ Put(frames, buf, n)[i].id = buf.id
<1> DEFINE from == Position(buf.off)
           last == Len(frames)
           range(a) == [id |-> buf.id, cap |-> buf.cap, from |-> a, to |-> from + n]
<1>1. from \in Int
  BY SizeModAssumption, SizesAssumption, BoundsAssumption DEF Position, Buffers
<1>2. \A a \in Int : range(a) \in Ranges
  BY <1>1 DEF Ranges, Buffers
<1>3. CASE last > 0 /\ frames[last].id = buf.id /\ frames[last].to = from
  <2>0. last \in Nat /\ last \in 1..last
    BY <1>3
  <2>1. last \in 1..last /\ frames[last].from \in Int
    <3>1. frames[last] \in Ranges
      BY <2>0
    <3> QED BY <2>0, <3>1 DEF Ranges
  <2>2. Put(frames, buf, n) = [frames EXCEPT ![last] = range(frames[last].from)]
    BY <1>3 DEF Put
  <2>3. PICK r \in Ranges : r = range(frames[last].from) /\ r.id = frames[last].id
    BY <1>2, <1>3, <2>1
  <2>4. [frames EXCEPT ![last] = r] \in Seq(Ranges) /\ Len([frames EXCEPT ![last] = r]) = last
    BY <2>1, <2>3
  <2>5. \A i \in 1..last : [frames EXCEPT ![last] = r][i].id = frames[i].id
    BY <2>1, <2>3
  <2> QED BY <2>2, <2>3, <2>4, <2>5
<1>4. CASE ~(last > 0 /\ frames[last].id = buf.id /\ frames[last].to = from)
  <2>1. Put(frames, buf, n) = Append(frames, range(from))
    BY <1>4 DEF Put
  <2>2. PICK r \in Ranges : r = range(from) /\ r.id = buf.id
    BY <1>1, <1>2
  <2>3. Append(frames, r) \in Seq(Ranges) /\ Len(Append(frames, r)) = last + 1
        /\ Append(frames, r)[last + 1] = r /\ \A i \in 1..last : Append(frames, r)[i] = frames[i]
    BY <2>2, AppendProperties
  <2> QED BY <2>1, <2>2, <2>3
<1> QED BY <1>3, <1>4

\* A write of the head, or of a buffer that finds no queue, keeps the order.
LEMMA WriteKeepsOrder ==
    ASSUME TypeOK, TypeOK', FreshConns, OrderInv, NEW buf \in Buffers, NEW n \in Nat,
           buf.id = sentCnt + 1, fd \in Conns, sock[fd] = "open",
           wire' = [wire EXCEPT ![fd] = Put(@, buf, n)],
           fd' = fd, sock' = sock,
           \/ sentCnt' = sentCnt /\ queue' # <<>>
           \/ sentCnt' = sentCnt + 1
    PROVE  OrderInv'
<1>1. wire \in [Conns -> Seq(Ranges)] /\ sentCnt \in Nat
  BY DEF TypeOK
<1>2. PICK new \in Seq(Ranges) :
        /\ wire' = [wire EXCEPT ![fd] = new]
        /\ \A i \in 1..Len(new) :
             \/ i \in 1..Len(wire[fd]) /\ new[i].id = wire[fd][i].id
             \/ i = Len(wire[fd]) + 1 /\ new[i].id = sentCnt + 1
  <2>1. wire[fd] \in Seq(Ranges)
    BY <1>1
  <2>2. Put(wire[fd], buf, n) \in Seq(Ranges)
    BY <2>1, PutIds
  <2>3. \A i \in 1..Len(Put(wire[fd], buf, n)) :
             \/ i \in 1..Len(wire[fd]) /\ Put(wire[fd], buf, n)[i].id = wire[fd][i].id
             \/ i = Len(wire[fd]) + 1 /\ Put(wire[fd], buf, n)[i].id = buf.id
    BY <2>1, PutIds
  <2> QED BY <2>2, <2>3
<1>3. ASSUME NEW c \in Conns, NEW i \in 1..Len(wire'[c])
      PROVE  /\ i \in Int /\ wire'[c][i].id \in Int
             /\ \/ i \in 1..Len(wire[c]) /\ wire'[c][i].id = wire[c][i].id
                \/ c = fd /\ i = Len(wire[c]) + 1 /\ wire'[c][i].id = sentCnt + 1
  <2>1. wire'[c] = IF c = fd THEN new ELSE wire[c]
    BY <1>1, <1>2
  <2>2. wire'[c] \in Seq(Ranges)
    BY <1>1, <2>1
  <2>3. wire'[c][i] \in Ranges
    BY <2>2
  <2> QED BY SMTT(60), <1>2, <2>1, <2>3 DEF Ranges
<1>4. LastConn'
  BY DEF OrderInv, LastConn
<1>5. HeadLast'
  <2> SUFFICES ASSUME NEW c \in Conns, NEW i \in 1..Len(wire'[c])
               PROVE  /\ wire'[c][i].id <= sentCnt' + 1
                      /\ wire'[c][i].id = sentCnt' + 1 => c = fd' /\ queue' # <<>>
    BY DEF HeadLast
  <2>1. wire'[c][i].id <= sentCnt + 1 /\ (wire'[c][i].id = sentCnt + 1 => c = fd)
    BY <1>1, <1>3 DEF OrderInv, HeadLast
  <2> QED BY <1>1, <1>3, <2>1
<1>6. WireInPostingOrder'
  <2> SUFFICES ASSUME NEW c \in Conns, NEW d \in Conns,
                      NEW i \in 1..Len(wire'[c]), NEW j \in 1..Len(wire'[d]),
                      c < d \/ (c = d /\ i < j)
               PROVE  wire'[c][i].id <= wire'[d][j].id
    BY DEF WireInPostingOrder
  <2>1. wire'[c][i].id <= sentCnt + 1
    BY <1>1, <1>3 DEF OrderInv, HeadLast
  <2>2. CASE j \in 1..Len(wire[d]) /\ wire'[d][j].id = wire[d][j].id
    <3>1. i \in 1..Len(wire[c]) /\ wire'[c][i].id = wire[c][i].id
      <4>1. CASE c = fd /\ c < d
        <5>1. wire[d] = <<>>
          BY <4>1 DEF OrderInv, LastConn, FreshConns, Conns, NoFd
        <5> QED BY <2>2, <5>1
      <4>2. CASE c = fd /\ c = d
        <5>1. Len(wire[c]) \in Nat /\ i \in Int /\ i < j /\ j <= Len(wire[c])
          BY <1>1, <1>3, <2>2, <4>2 DEF Conns
        <5> QED BY <1>3, <5>1
      <4>3. CASE c # fd
        BY <1>3, <4>3
      <4> QED BY <4>1, <4>2, <4>3
    <3> QED BY <2>2, <3>1 DEF OrderInv, WireInPostingOrder
  <2>3. CASE wire'[d][j].id = sentCnt + 1
    BY <2>1, <2>3
  <2> QED BY <1>3, <2>2, <2>3
<1>7. NoFrameSpansConnections'
  <2> SUFFICES ASSUME NEW c \in Conns, NEW d \in Conns,
                      NEW i \in 1..Len(wire'[c]), NEW j \in 1..Len(wire'[d]),
                      wire'[c][i].id = wire'[d][j].id
               PROVE  c = d
    BY DEF NoFrameSpansConnections
  <2>1. wire'[c][i].id = sentCnt + 1 => c = fd
    BY <1>3 DEF OrderInv, HeadLast
  <2>2. wire'[d][j].id = sentCnt + 1 => d = fd
    BY <1>3 DEF OrderInv, HeadLast
  <2>3. CASE wire'[c][i].id # sentCnt + 1
    BY <1>3, <2>3 DEF OrderInv, NoFrameSpansConnections
  <2> QED BY <2>1, <2>2, <2>3
<1> QED BY <1>4, <1>5, <1>6, <1>7 DEF OrderInv

\* A step that writes nothing keeps the order, when the connection stays or no
\* buffer waits.
LEMMA OthersKeepOrder ==
    ASSUME TypeOK, OrderInv, LastConn', wire' = wire, sentCnt' = sentCnt,
           (fd' = fd /\ (queue # <<>> => queue' # <<>>)) \/ queue = <<>>
    PROVE  OrderInv'
<1>1. HeadLast'
  BY DEF OrderInv, HeadLast
<1> QED BY <1>1 DEF OrderInv, WireInPostingOrder, NoFrameSpansConnections

LEMMA ReconnectKeepsLastConn ==
    ASSUME TypeOK, LastConn, NEW sk \in [Conns -> SockStates],
           \A c \in Conns : sk[c] = "none" <=> sock[c] = "none",
           InitializeConnection(sk)
    PROVE  LastConn'
<1>1. CASE LookupFails(sk) \/ TLSFails(sk)
  BY <1>1 DEF LookupFails, TLSFails, LastConn, TypeOK
<1>2. CASE ConnectFails(sk)
  BY <1>2 DEF ConnectFails, LastConn
<1>3. CASE Connects(sk)
  <2>1. PICK c \in Conns : /\ sk[c] = "none" /\ \A d \in Conns : d < c => sk[d] # "none"
                           /\ fd' = c /\ sock' = [sk EXCEPT ![c] = "open"]
    BY <1>3 DEF Connects
  <2>2. \A d \in Conns : sock'[d] = "none" <=> (d # c /\ sk[d] = "none")
    BY <2>1
  <2>3. \A d \in Conns : c < d => sock'[d] = "none"
    BY <2>1, <2>2 DEF LastConn, Conns
  <2>4. \A d \in Conns : sock'[d] = "none" => c < d
    BY <2>1, <2>2 DEF Conns
  <2>5. \A d, e \in Conns : sock'[d] = "none" /\ d < e => sock'[e] = "none"
    BY <2>3, <2>4 DEF Conns
  <2> QED BY <2>1, <2>3, <2>5 DEF LastConn
<1> QED BY <1>1, <1>2, <1>3 DEF InitializeConnection

LEMMA SameSocketsKeepLastConn ==
    ASSUME TypeOK, LastConn, fd' = fd,
           \A c \in Conns : sock'[c] = "none" <=> sock[c] = "none"
    PROVE  LastConn'
BY DEF LastConn, TypeOK

LEMMA SendKeepsOrder ==
    ASSUME Known, TypeOK', OrderInv, NEW cap \in Sizes, Send(cap) PROVE OrderInv'
<1> USE SizeModAssumption, SizesAssumption, BoundsAssumption
<1>1. /\ TypeOK /\ FreshConns /\ cap \in 0..(SIZE_MOD - 1)
      /\ queue = <<>> => posted = sentCnt
  <2>1. TypeOK /\ FreshConns /\ cap \in 0..(SIZE_MOD - 1)
    BY DEF Known, WireInv, QueueInv, TypeInv
  <2>2. posted = sentCnt + Len(queue) /\ posted \in Nat /\ sentCnt \in Nat
    BY DEF Known, WireInv, QueueInv, QueueIsUnsentSuffix, TypeInv, TypeOK
  <2>3. queue = <<>> => Len(queue) = 0
    BY EmptySeq
  <2> QED BY <2>1, <2>2, <2>3
<1>2. CASE SendDropped(cap) \/ SendKilled(cap) \/ SendQueued(cap)
  <2>1. UNCHANGED <<wire, fd, sock, sentCnt>>
    BY <1>2 DEF SendDropped, SendKilled, SendQueued, kernel, counters
  <2>2. queue # <<>> => queue' # <<>>
    <3>1. CASE queue' = queue
      BY <3>1
    <3>2. CASE queue' = Append(queue, Buffer(cap))
      <4>1. queue \in Seq(Buffers) /\ Buffer(cap) \in Buffers
        BY <1>1, BufferType DEF TypeOK
      <4> QED BY <3>2, <4>1
    <3> QED BY <1>2, <3>1, <3>2 DEF SendDropped, SendKilled, SendQueued
  <2> QED BY <1>1, <2>1, <2>2, OthersKeepOrder, SameSocketsKeepLastConn DEF OrderInv
<1>3. CASE SendWritten(cap)
  <2>1. PICK n \in WriteResults(cap) :
          /\ n > 0
          /\ wire' = [wire EXCEPT ![fd] = Put(@, Buffer(cap), n)]
          /\ IF Complete(Buffer(cap), n)
             THEN sentCnt' = sentCnt + 1 /\ queue' = queue
             ELSE sentCnt' = sentCnt /\ queue' = Append(queue, [Buffer(cap) EXCEPT !.off = n])
    BY <1>3 DEF SendWritten
  <2>2. n \in 1..cap /\ fd # NoFd /\ sock[fd] = "open" /\ fd \in Conns
    BY <1>1, <2>1, WriteResultsRange DEF TypeOK
  <2>3. fd' = fd /\ sock' = sock /\ queue = <<>>
    BY <1>3 DEF SendWritten, MustQueue
  <2>4. Buffer(cap) \in Buffers /\ Buffer(cap).id = sentCnt + 1 /\ n \in Nat
    <3>1. Buffer(cap) \in Buffers /\ n \in Nat
      BY <1>1, <2>2, BufferType
    <3>2. Buffer(cap).id = posted + 1
      BY DEF Buffer
    <3> QED BY <1>1, <2>3, <3>1, <3>2
  <2>5. \/ sentCnt' = sentCnt /\ queue' # <<>>
        \/ sentCnt' = sentCnt + 1
    <3>1. CASE Complete(Buffer(cap), n)
      BY <2>1, <3>1
    <3>2. CASE ~Complete(Buffer(cap), n)
      <4>1. [Buffer(cap) EXCEPT !.off = n] \in Buffers
        BY <1>1, <2>2, BufferType
      <4>2. PICK buf \in Buffers : buf = [Buffer(cap) EXCEPT !.off = n]
        BY <4>1
      <4>3. queue \in Seq(Buffers) /\ Append(queue, buf) # <<>>
        <5>1. queue \in Seq(Buffers)
          BY <1>1 DEF TypeOK
        <5> QED BY <5>1, AppendProperties
      <4> QED BY <2>1, <3>2, <4>2, <4>3
    <3> QED BY <3>1, <3>2
  <2> QED BY <1>1, <2>1, <2>2, <2>3, <2>4, <2>5, WriteKeepsOrder
<1>4. CASE SendFailed(cap)
  <2>1. wire' = wire /\ sentCnt' = sentCnt /\ queue = <<>>
    BY <1>4 DEF SendFailed, MustQueue
  <2>2. LastConn'
    <3>1. CASE InitializeConnection(SockAfterWrite)
      BY <1>1, <3>1, ReconnectKeepsLastConn, SockAfterWriteKeeps DEF OrderInv
    <3>2. CASE sock' = SockAfterWrite /\ fd' = fd
      BY <1>1, <3>2, SameSocketsKeepLastConn, SockAfterWriteKeeps DEF OrderInv
    <3> QED BY <1>4, <3>1, <3>2 DEF SendFailed
  <2> QED BY <1>1, <2>1, <2>2, OthersKeepOrder
<1> QED BY <1>2, <1>3, <1>4 DEF Send

LEMMA DrainKeepsOrder ==
    ASSUME Known, TypeOK', OrderInv, DrainWrite PROVE OrderInv'
<1> USE SizeModAssumption, SizesAssumption, BoundsAssumption
<1>1. TypeOK /\ FreshConns /\ QueueInv
  BY DEF Known, WireInv, QueueInv, TypeInv
<1>2. PICK r \in Int :
        /\ -1 <= r /\ Position(queue[1].off) + r <= queue[1].cap
        /\ r > 0 => fd \in Conns /\ sock[fd] = "open"
        /\ wire' = IF r > 0 THEN [wire EXCEPT ![fd] = Put(@, queue[1], r)] ELSE wire
        /\ IF Position(queue[1].off) + r = queue[1].cap
           THEN sentCnt' = sentCnt + 1
           ELSE sentCnt' = sentCnt /\ \E off : queue' = [queue EXCEPT ![1].off = off]
  BY <1>1, DrainStep
<1>3. /\ queue \in Seq(Buffers) /\ queue # <<>> /\ queue[1] \in Buffers
      /\ queue[1].id = sentCnt + 1 /\ Len(queue) \in Nat \ {0}
  <2>1. queue \in Seq(Buffers) /\ queue # <<>>
    BY <1>1 DEF QueueInv, TypeInv, TypeOK, DrainInv, DrainWrite
  <2>2. Len(queue) \in Nat \ {0} /\ queue[1] \in Buffers
    BY <2>1, EmptySeq
  <2>3. queue[1].id = sentCnt + 1
    BY <1>1, <2>2 DEF QueueInv, QueueIsUnsentSuffix
  <2> QED BY <2>1, <2>2, <2>3
<1>4. fd' = fd /\ sock' = SockAfterWrite
  BY DEF DrainWrite
<1>5. LastConn'
  BY <1>1, <1>4, SameSocketsKeepLastConn, SockAfterWriteKeeps DEF OrderInv
<1>6. ASSUME NEW off, queue' = [queue EXCEPT ![1].off = off] PROVE queue' # <<>>
  <2>1. 1 \in DOMAIN queue /\ DOMAIN queue' = DOMAIN queue
    BY <1>3, <1>6
  <2> QED BY <2>1
<1>7. CASE r > 0
  <2>1. sock' = sock
    BY <1>2, <1>4, <1>7 DEF SockAfterWrite
  <2>2. \/ sentCnt' = sentCnt /\ queue' # <<>>
        \/ sentCnt' = sentCnt + 1
    BY <1>2, <1>6
  <2>3. r \in Nat /\ fd \in Conns /\ sock[fd] = "open"
        /\ wire' = [wire EXCEPT ![fd] = Put(@, queue[1], r)]
    BY <1>2, <1>7
  <2> QED BY <1>1, <1>3, <1>4, <2>1, <2>2, <2>3, WriteKeepsOrder
<1>8. CASE r <= 0
  <2>1. Position(queue[1].off) + r # queue[1].cap
    <3>1. queue[1].off \in 0..(SIZE_MOD - 1) /\ queue[1].cap \in 1..MaxSize
      BY <1>3 DEF Buffers
    <3>2. Position(queue[1].off) \in Int /\ Position(queue[1].off) < queue[1].cap
      BY <1>1, <1>3, <3>1 DEF QueueInv, Offsets, Position
    <3> QED BY <1>8, <3>1, <3>2
  <2>2. sentCnt' = sentCnt /\ queue' # <<>> /\ wire' = wire
    BY <1>2, <1>6, <1>8, <2>1
  <2> QED BY <1>1, <1>4, <1>5, <2>2, OthersKeepOrder
<1> QED BY <1>7, <1>8

LEMMA NextOrder == Known /\ TypeOK' /\ OrderInv /\ [Next]_vars => OrderInv'
<1> SUFFICES ASSUME Known, TypeOK', OrderInv, [Next]_vars PROVE OrderInv'
  OBVIOUS
<1>1. TypeOK /\ FreshConns /\ QueueInv /\ sock \in [Conns -> SockStates]
  BY DEF Known, WireInv, QueueInv, TypeInv, TypeOK
<1>2. CASE \E cap \in Sizes : Send(cap)
  BY <1>2, SendKeepsOrder
<1>3. CASE DrainWrite
  BY <1>3, DrainKeepsOrder
<1>4. CASE Construct
  <2>1. queue = <<>> /\ wire' = wire /\ sentCnt' = sentCnt /\ InitializeConnection(sock)
    BY <1>4 DEF Construct, Known, NewInv, counters
  <2> QED BY <1>1, <2>1, ReconnectKeepsLastConn, OthersKeepOrder DEF OrderInv
<1>5. CASE \/ OnWriteOpportunity \/ DrainKilled
           \/ (\E mode \in BOOLEAN : SetAsyncMode(mode))
           \/ (\E n \in QueueMaxSizes : SetQueueMaxSize(n))
           \/ ConnectionGracefulShutdown \/ (\E c \in Conns : Break(c))
           \/ UNCHANGED vars
  <2>1. UNCHANGED <<wire, queue, sentCnt>>
    BY <1>1, <1>5, OtherEffect
  <2>2. fd' = fd
    BY <1>5 DEF OnWriteOpportunity, DrainKilled, SetAsyncMode, SetQueueMaxSize,
                ConnectionGracefulShutdown, Break, vars
  <2>3. \A c \in Conns : sock'[c] = "none" <=> sock[c] = "none"
    <3>1. CASE ConnectionGracefulShutdown
      BY <1>1, <3>1 DEF ConnectionGracefulShutdown, FreshConns
    <3>2. CASE \E c \in Conns : Break(c)
      BY <1>1, <3>2 DEF Break
    <3>3. CASE sock' = sock
      BY <3>3
    <3> QED BY <1>5, <3>1, <3>2, <3>3
            DEF OnWriteOpportunity, DrainKilled, SetAsyncMode, SetQueueMaxSize, kernel, vars
  <2> QED BY <1>1, <2>1, <2>2, <2>3, SameSocketsKeepLastConn, OthersKeepOrder DEF OrderInv
<1> QED BY <1>2, <1>3, <1>4, <1>5 DEF Next

LEMMA SpecOrder == Spec => []OrderInv
<1>1. Init => OrderInv
  <2> SUFFICES ASSUME Init PROVE OrderInv
    OBVIOUS
  <2>1. (\A c \in Conns : sock[c] = "none" /\ wire[c] = <<>>) /\ fd = NoFd
    BY DEF Init
  <2> QED BY <2>1, EmptySeq
          DEF OrderInv, LastConn, HeadLast, WireInPostingOrder, NoFrameSpansConnections
<1> QED BY <1>1, SpecKnown, TypeCorrect, NextOrder, PTL DEF Spec

\* Events leave in the order of posting, over all connections
\* (PosixIO.cc: send, onWriteOpportunity).
THEOREM WireOrderCorrect == Spec => []WireInPostingOrder
BY SpecOrder, PTL DEF OrderInv

\* No frame is cut in two by a reconnection (PosixIO.cc: send,
\* initialize_connection).
THEOREM NoFrameSpansConnectionsCorrect == Spec => []NoFrameSpansConnections
BY SpecOrder, PTL DEF OrderInv

-----------------------------------------------------------------------------
(* Each byte of a buffer counted as sent was accepted                      *)

\* The byte at q of frame id is in one of the ranges.
Covered(frames, id, q) ==
    \E j \in 1..Len(frames) :
        frames[j].id = id /\ frames[j].from <= q /\ q < frames[j].to

OnWire(frames, id) ==
    \E i \in 1..Len(frames) :
        frames[i].id = id /\ \A p \in 0..(frames[i].cap - 1) : Covered(frames, id, p)

\* Recording a write changes no range but by extending it at its end.
Grows(f, g) ==
    \A i \in 1..Len(f) :
        /\ i \in 1..Len(g)
        /\ g[i].id = f[i].id /\ g[i].cap = f[i].cap /\ g[i].from = f[i].from
        /\ f[i].to <= g[i].to

\* Ranges run forwards and agree on the capacity of the head, whose bytes below
\* its position were accepted by the present connection.
CoverInv ==
    /\ SentIsOnWire
    /\ \A c \in Conns : \A i \in 1..Len(wire[c]) : wire[c][i].from <= wire[c][i].to
    /\ queue # <<>> =>
        /\ \A c \in Conns : \A i \in 1..Len(wire[c]) :
              wire[c][i].id = sentCnt + 1 => wire[c][i].cap = queue[1].cap
        /\ \A q \in Nat : q < Position(queue[1].off) =>
              fd \in Conns /\ Covered(wire[fd], sentCnt + 1, q)

LEMMA GrowsKeepsOnWire ==
    ASSUME NEW f \in Seq(Ranges), NEW g \in Seq(Ranges), Grows(f, g), NEW id \in Nat
    PROVE  /\ \A q \in Int : Covered(f, id, q) => Covered(g, id, q)
           /\ OnWire(f, id) => OnWire(g, id)
<1>1. ASSUME NEW q \in Int, Covered(f, id, q) PROVE Covered(g, id, q)
  <2>1. PICK j \in 1..Len(f) : f[j].id = id /\ f[j].from <= q /\ q < f[j].to
    BY <1>1 DEF Covered
  <2>2. j \in 1..Len(g) /\ g[j].id = id /\ g[j].from = f[j].from /\ f[j].to <= g[j].to
    BY <2>1 DEF Grows
  <2>3. f[j] \in Ranges /\ g[j] \in Ranges
    BY <2>1, <2>2
  <2>4. f[j].to \in Int /\ g[j].to \in Int
    BY <2>3 DEF Ranges
  <2> QED BY <2>1, <2>2, <2>4 DEF Covered
<1>2. ASSUME OnWire(f, id) PROVE OnWire(g, id)
  <2>1. PICK i \in 1..Len(f) :
          f[i].id = id /\ \A p \in 0..(f[i].cap - 1) : Covered(f, id, p)
    BY <1>2 DEF OnWire
  <2>2. i \in 1..Len(g) /\ g[i].id = id /\ g[i].cap = f[i].cap
    BY <2>1 DEF Grows
  <2> QED BY <1>1, <2>1, <2>2 DEF OnWire
<1> QED BY <1>1, <1>2

\* Recording a write of n bytes covers them.
LEMMA PutCovers ==
    ASSUME NEW frames \in Seq(Ranges), NEW buf \in Buffers, NEW n \in Nat,
           \A i \in 1..Len(frames) : frames[i].from <= frames[i].to,
           \A i \in 1..Len(frames) : frames[i].id = buf.id => frames[i].cap = buf.cap
    PROVE  /\ Grows(frames, Put(frames, buf, n))
           /\ \A i \in 1..Len(Put(frames, buf, n)) :
                /\ Put(frames, buf, n)[i].from <= Put(frames, buf, n)[i].to
                /\ Put(frames, buf, n)[i].id = buf.id => Put(frames, buf, n)[i].cap = buf.cap
           /\ \A q \in Int : Position(buf.off) <= q /\ q < Position(buf.off) + n
                => Covered(Put(frames, buf, n), buf.id, q)
<1> DEFINE last == Len(frames)
           range(a, b) == [id |-> buf.id, cap |-> buf.cap, from |-> a, to |-> b]
<1>1. PICK from \in Int : from = Position(buf.off)
  <2>1. Position(buf.off) \in Int
    BY SizeModAssumption, SizesAssumption, BoundsAssumption DEF Position, Buffers
  <2> QED BY <2>1
<1>2. \A a, b \in Int : range(a, b) \in Ranges
  BY DEF Ranges, Buffers
<1>3. last \in Nat /\ from + n \in Int /\ from <= from + n
  OBVIOUS
<1>4. CASE last > 0 /\ frames[last].id = buf.id /\ frames[last].to = from
  <2>1. last \in 1..last
    BY <1>3, <1>4
  <2>2. frames[last] \in Ranges
    BY <2>1
  <2>3. frames[last].from \in Int /\ frames[last].from <= from
        /\ frames[last].cap = buf.cap
    BY <1>4, <2>1, <2>2 DEF Ranges
  <2>4. Put(frames, buf, n) = [frames EXCEPT ![last] = range(frames[last].from, from + n)]
    BY <1>1, <1>4 DEF Put
  <2>5. PICK r \in Ranges : /\ r = range(frames[last].from, from + n)
                            /\ r.id = buf.id /\ r.cap = buf.cap
                            /\ r.from = frames[last].from /\ r.to = from + n
    BY <1>2, <1>3, <2>3
  <2>6. PICK g \in Seq(Ranges) :
          /\ g = Put(frames, buf, n) /\ Len(g) = last /\ g[last] = r
          /\ \A i \in 1..last : i # last => g[i] = frames[i]
    <3>1. [frames EXCEPT ![last] = r] \in Seq(Ranges) /\ Len([frames EXCEPT ![last] = r]) = last
      BY <2>1
    <3>2. /\ [frames EXCEPT ![last] = r][last] = r
          /\ \A i \in 1..last : i # last => [frames EXCEPT ![last] = r][i] = frames[i]
      BY <2>1
    <3>3. Put(frames, buf, n) = [frames EXCEPT ![last] = r]
      BY <2>4, <2>5
    <3> QED BY <3>1, <3>2, <3>3
  <2>7. Grows(frames, g)
    <3> SUFFICES ASSUME NEW i \in 1..last
                 PROVE  /\ g[i].id = frames[i].id /\ g[i].cap = frames[i].cap
                        /\ g[i].from = frames[i].from /\ frames[i].to <= g[i].to
      BY <2>6 DEF Grows
    <3>1. frames[i].to \in Int
      <4>1. frames[i] \in Ranges
        OBVIOUS
      <4> QED BY <4>1 DEF Ranges
    <3>2. CASE i = last
      BY <1>3, <1>4, <2>3, <2>5, <2>6, <3>2
    <3>3. CASE i # last
      BY <2>6, <3>1, <3>3
    <3> QED BY <3>2, <3>3
  <2>8. \A i \in 1..Len(g) : g[i].from <= g[i].to /\ (g[i].id = buf.id => g[i].cap = buf.cap)
    BY <1>3, <2>3, <2>5, <2>6
  <2>9. \A q \in Int : from <= q /\ q < from + n => Covered(g, buf.id, q)
    BY <2>1, <2>3, <2>5, <2>6 DEF Covered
  <2> QED BY <1>1, <2>6, <2>7, <2>8, <2>9
<1>5. CASE ~(last > 0 /\ frames[last].id = buf.id /\ frames[last].to = from)
  <2>1. Put(frames, buf, n) = Append(frames, range(from, from + n))
    BY <1>1, <1>5 DEF Put
  <2>2. PICK r \in Ranges : /\ r = range(from, from + n)
                            /\ r.id = buf.id /\ r.cap = buf.cap
                            /\ r.from = from /\ r.to = from + n
    BY <1>2, <1>3
  <2>3. PICK g \in Seq(Ranges) :
          /\ g = Put(frames, buf, n) /\ Len(g) = last + 1 /\ g[last + 1] = r
          /\ \A i \in 1..last : g[i] = frames[i]
    <3>1. Put(frames, buf, n) = Append(frames, r)
      BY <2>1, <2>2
    <3>2. /\ Append(frames, r) \in Seq(Ranges) /\ Len(Append(frames, r)) = last + 1
          /\ Append(frames, r)[last + 1] = r
          /\ \A i \in 1..last : Append(frames, r)[i] = frames[i]
      BY AppendProperties
    <3> QED BY <3>1, <3>2
  <2>4. Grows(frames, g)
    <3>1. \A i \in 1..last : frames[i] \in Ranges
      OBVIOUS
    <3>2. \A i \in 1..last : frames[i].to \in Int
      BY <3>1 DEF Ranges
    <3> QED BY <1>3, <2>3, <3>2 DEF Grows
  <2>5. \A i \in 1..Len(g) : i = last + 1 \/ i \in 1..last
    BY <1>3, <2>3
  <2>6. \A i \in 1..Len(g) : g[i].from <= g[i].to /\ (g[i].id = buf.id => g[i].cap = buf.cap)
    BY <1>3, <2>2, <2>3, <2>5
  <2>7. \A q \in Int : from <= q /\ q < from + n => Covered(g, buf.id, q)
    <3>1. last + 1 \in 1..Len(g)
      BY <1>3, <2>3
    <3> QED BY <2>2, <2>3, <3>1 DEF Covered
  <2> QED BY <1>1, <2>3, <2>4, <2>6, <2>7
<1> QED BY <1>4, <1>5

\* A write of n bytes of the frame after the sent ones.
LEMMA WriteCovers ==
    ASSUME TypeOK, SentIsOnWire, HeadLast, NEW buf \in Buffers, NEW n \in Nat,
           buf.id = sentCnt + 1, fd \in Conns,
           \A c \in Conns : \A i \in 1..Len(wire[c]) :
              /\ wire[c][i].from <= wire[c][i].to
              /\ wire[c][i].id = sentCnt + 1 => wire[c][i].cap = buf.cap,
           \A q \in Nat : q < Position(buf.off) => Covered(wire[fd], sentCnt + 1, q),
           wire' = [wire EXCEPT ![fd] = Put(@, buf, n)]
    PROVE  /\ \A id \in 1..sentCnt : \E c \in Conns : OnWire(wire'[c], id)
           /\ \A c \in Conns : \A i \in 1..Len(wire'[c]) :
                /\ wire'[c][i].from <= wire'[c][i].to
                /\ wire'[c][i].id = sentCnt + 1 => wire'[c][i].cap = buf.cap
                /\ wire'[c][i].id # sentCnt + 2
           /\ \A q \in Nat : q < Position(buf.off) + n => Covered(wire'[fd], sentCnt + 1, q)
<1>1. wire \in [Conns -> Seq(Ranges)] /\ sentCnt \in Nat /\ wire[fd] \in Seq(Ranges)
  BY DEF TypeOK
<1>2. PICK g \in Seq(Ranges) : g = Put(wire[fd], buf, n)
  BY <1>1, PutIds
<1>3. wire' = [wire EXCEPT ![fd] = g]
  BY <1>2
<1>4. \A c \in Conns : wire'[c] = IF c = fd THEN g ELSE wire[c]
  BY <1>1, <1>3
<1>5. /\ Grows(wire[fd], g)
      /\ \A i \in 1..Len(g) : g[i].from <= g[i].to /\ (g[i].id = buf.id => g[i].cap = buf.cap)
      /\ \A q \in Int : Position(buf.off) <= q /\ q < Position(buf.off) + n
            => Covered(g, buf.id, q)
  <2>1. \A i \in 1..Len(wire[fd]) :
          wire[fd][i].from <= wire[fd][i].to /\ (wire[fd][i].id = buf.id => wire[fd][i].cap = buf.cap)
    OBVIOUS
  <2> QED BY <1>1, <1>2, <2>1, PutCovers
<1>6. \A id \in 1..sentCnt : \E c \in Conns : OnWire(wire'[c], id)
  <2> SUFFICES ASSUME NEW id \in 1..sentCnt PROVE \E c \in Conns : OnWire(wire'[c], id)
    OBVIOUS
  <2>1. PICK c \in Conns : OnWire(wire[c], id)
    BY DEF SentIsOnWire, OnWire, Covered
  <2>2. CASE c = fd
    <3>1. OnWire(g, id)
      BY <1>1, <1>5, <2>1, <2>2, GrowsKeepsOnWire
    <3> QED BY <1>4, <2>2, <3>1
  <2>3. CASE c # fd
    BY <1>4, <2>1, <2>3
  <2> QED BY <2>2, <2>3
<1>7. ASSUME NEW c \in Conns, NEW i \in 1..Len(wire'[c])
      PROVE  /\ wire'[c][i].from <= wire'[c][i].to
             /\ wire'[c][i].id = sentCnt + 1 => wire'[c][i].cap = buf.cap
             /\ wire'[c][i].id # sentCnt + 2
  <2>1. CASE c = fd
    <3>1. i \in 1..Len(g) /\ wire'[c][i] = g[i]
      BY <1>4, <2>1
    <3>2. g[i].id # sentCnt + 2
      <4>1. \/ i \in 1..Len(wire[fd]) /\ g[i].id = wire[fd][i].id
            \/ g[i].id = buf.id
        BY <1>1, <1>2, <3>1, PutIds
      <4>2. i \in 1..Len(wire[fd]) => wire[fd][i].id <= sentCnt + 1
        BY DEF HeadLast
      <4> QED BY <1>1, <4>1, <4>2
    <3> QED BY <1>5, <3>1, <3>2
  <2>2. CASE c # fd
    BY <1>1, <1>4, <2>2 DEF HeadLast
  <2> QED BY <2>1, <2>2
<1>8. ASSUME NEW q \in Nat, q < Position(buf.off) + n PROVE Covered(wire'[fd], sentCnt + 1, q)
  <2>1. PICK from \in Int : from = Position(buf.off)
    <3>1. Position(buf.off) \in Int
      BY SizeModAssumption, SizesAssumption, BoundsAssumption DEF Position, Buffers
    <3> QED BY <3>1
  <2>2. CASE q < from
    <3>1. Covered(wire[fd], sentCnt + 1, q)
      BY <2>1, <2>2
    <3> QED BY <1>1, <1>4, <1>5, <3>1, GrowsKeepsOnWire
  <2>3. CASE from <= q
    BY <1>4, <1>5, <1>8, <2>1, <2>3
  <2> QED BY <2>1, <2>2, <2>3
<1> QED BY <1>6, <1>7, <1>8

\* A step that writes nothing and sends nothing keeps the coverage, when the
\* head stays, or moves back, or arrives fresh.
LEMMA OthersCover ==
    ASSUME TypeOK, HeadLast, CoverInv, wire' = wire, sentCnt' = sentCnt,
           \/ queue' = <<>>
           \/ /\ queue = <<>>
              /\ Position(queue'[1].off) = 0
           \/ /\ queue # <<>> /\ fd' = fd /\ queue'[1].cap = queue[1].cap
              /\ Position(queue[1].off) \in Int /\ Position(queue'[1].off) \in Int
              /\ Position(queue'[1].off) <= Position(queue[1].off)
    PROVE  CoverInv'
<1>1. SentIsOnWire' /\ \A c \in Conns : \A i \in 1..Len(wire'[c]) : wire'[c][i].from <= wire'[c][i].to
  BY DEF CoverInv, SentIsOnWire
<1>2. CASE queue' = <<>>
  BY <1>1, <1>2 DEF CoverInv
<1>3. CASE queue = <<>> /\ Position(queue'[1].off) = 0
  <2>1. \A c \in Conns : \A i \in 1..Len(wire[c]) : wire[c][i].id # sentCnt + 1
    BY <1>3 DEF HeadLast
  <2> QED BY <1>1, <1>3, <2>1 DEF CoverInv
<1>4. CASE /\ queue # <<>> /\ fd' = fd /\ queue'[1].cap = queue[1].cap
           /\ Position(queue[1].off) \in Int /\ Position(queue'[1].off) \in Int
           /\ Position(queue'[1].off) <= Position(queue[1].off)
  <2>1. \A c \in Conns : \A i \in 1..Len(wire'[c]) :
          wire'[c][i].id = sentCnt' + 1 => wire'[c][i].cap = queue'[1].cap
    BY <1>4 DEF CoverInv
  <2>2. \A q \in Nat : q < Position(queue'[1].off) =>
          fd' \in Conns /\ Covered(wire'[fd'], sentCnt' + 1, q)
    BY <1>4 DEF CoverInv
  <2> QED BY <1>1, <2>1, <2>2 DEF CoverInv
<1> QED BY <1>2, <1>3, <1>4

\* What a write of n bytes of the next frame leaves: the frame sent, or at the
\* head with its position moved by n.
LEMMA WriteKeepsCover ==
    ASSUME TypeOK, HeadLast, SentIsOnWire, NEW buf \in Buffers, NEW n \in Nat,
           buf.id = sentCnt + 1, fd \in Conns, fd' = fd,
           \A c \in Conns : \A i \in 1..Len(wire[c]) :
              /\ wire[c][i].from <= wire[c][i].to
              /\ wire[c][i].id = sentCnt + 1 => wire[c][i].cap = buf.cap,
           \A q \in Nat : q < Position(buf.off) => Covered(wire[fd], sentCnt + 1, q),
           wire' = [wire EXCEPT ![fd] = Put(@, buf, n)],
           \/ /\ sentCnt' = sentCnt /\ queue' # <<>> /\ queue'[1].cap = buf.cap
              /\ Position(queue'[1].off) = Position(buf.off) + n
           \/ /\ sentCnt' = sentCnt + 1 /\ Position(buf.off) + n = buf.cap
              /\ queue' # <<>> => Position(queue'[1].off) = 0
    PROVE  CoverInv'
<1>0. /\ \A id \in 1..sentCnt : \E c \in Conns : OnWire(wire'[c], id)
      /\ \A c \in Conns : \A i \in 1..Len(wire'[c]) :
           /\ wire'[c][i].from <= wire'[c][i].to
           /\ wire'[c][i].id = sentCnt + 1 => wire'[c][i].cap = buf.cap
           /\ wire'[c][i].id # sentCnt + 2
      /\ \A q \in Nat : q < Position(buf.off) + n => Covered(wire'[fd], sentCnt + 1, q)
  BY WriteCovers
<1>1. sentCnt \in Nat /\ buf.cap \in 1..MaxSize
  BY DEF TypeOK, Buffers
<1>2. CASE /\ sentCnt' = sentCnt /\ queue' # <<>> /\ queue'[1].cap = buf.cap
           /\ Position(queue'[1].off) = Position(buf.off) + n
  <2>1. SentIsOnWire'
    BY <1>0, <1>2 DEF SentIsOnWire, OnWire, Covered
  <2> QED BY <1>0, <1>2, <2>1 DEF CoverInv
<1>3. CASE /\ sentCnt' = sentCnt + 1 /\ Position(buf.off) + n = buf.cap
           /\ queue' # <<>> => Position(queue'[1].off) = 0
  <2>1. OnWire(wire'[fd], sentCnt + 1)
    <3>1. \A q \in 0..(buf.cap - 1) : Covered(wire'[fd], sentCnt + 1, q)
      BY <1>0, <1>1, <1>3, SizesAssumption
    <3>2. PICK i \in 1..Len(wire'[fd]) : wire'[fd][i].id = sentCnt + 1
      <4>1. 0 \in 0..(buf.cap - 1)
        BY <1>1, SizesAssumption
      <4> QED BY <3>1, <4>1 DEF Covered
    <3>3. wire'[fd][i].cap = buf.cap
      BY <1>0, <3>2
    <3> QED BY <3>1, <3>2, <3>3 DEF OnWire
  <2>2. \A id \in 1..sentCnt' : \E c \in Conns : OnWire(wire'[c], id)
    <3>1. \A id \in 1..sentCnt' : id \in 1..sentCnt \/ id = sentCnt + 1
      BY <1>1, <1>3
    <3> QED BY <1>0, <2>1, <3>1
  <2>3. SentIsOnWire'
    BY <2>2 DEF SentIsOnWire, OnWire, Covered
  <2>4. \A c \in Conns : \A i \in 1..Len(wire'[c]) : wire'[c][i].id # sentCnt' + 1
    BY <1>0, <1>1, <1>3
  <2> QED BY <1>0, <1>3, <2>3, <2>4 DEF CoverInv
<1> QED BY <1>2, <1>3

LEMMA SendCovers ==
    ASSUME Known, OrderInv, CoverInv, NEW cap \in Sizes, Send(cap) PROVE CoverInv'
<1> USE SizeModAssumption, SizesAssumption, BoundsAssumption
<1>1. /\ TypeOK /\ HeadLast /\ cap \in 1..MaxSize /\ cap \in 0..(SIZE_MOD - 1)
      /\ queue \in Seq(Buffers) /\ Buffer(cap) \in Buffers
      /\ Buffer(cap).cap = cap /\ Buffer(cap).off = 0
      /\ queue = <<>> => Buffer(cap).id = sentCnt + 1
  <2>1. TypeOK /\ HeadLast /\ cap \in 1..MaxSize /\ cap \in 0..(SIZE_MOD - 1)
    BY DEF Known, WireInv, QueueInv, TypeInv, OrderInv
  <2>2. queue \in Seq(Buffers) /\ Buffer(cap) \in Buffers
    BY <2>1, BufferType DEF TypeOK
  <2>3. posted = sentCnt + Len(queue) /\ sentCnt \in Nat
    BY DEF Known, WireInv, QueueInv, QueueIsUnsentSuffix, TypeInv, TypeOK
  <2>4. queue = <<>> => posted = sentCnt
    BY <2>3, EmptySeq
  <2> QED BY <2>1, <2>2, <2>4 DEF Buffer
<1>2. Position(0) = 0
  BY DEF Position
<1>3. queue # <<>> => Position(queue[1].off) \in Int
  <2>1. queue # <<>> => queue[1] \in Buffers
    BY <1>1, EmptySeq
  <2> QED BY <2>1 DEF Buffers, Position
<1>4. ASSUME wire' = wire, sentCnt' = sentCnt, queue' = Append(queue, Buffer(cap)),
             fd' = fd \/ queue = <<>>
      PROVE  CoverInv'
  <2>1. CASE queue = <<>>
    <3>1. queue'[1] = Buffer(cap)
      BY <1>1, <1>4, <2>1, EmptySeq, AppendProperties
    <3> QED BY <1>1, <1>2, <1>4, <2>1, <3>1, OthersCover
  <2>2. CASE queue # <<>>
    <3>1. queue'[1] = queue[1]
      <4>1. 1 \in 1..Len(queue)
        BY <1>1, <2>2, EmptySeq
      <4> QED BY <1>1, <1>4, <4>1, AppendProperties
    <3> QED BY <1>1, <1>3, <1>4, <2>2, <3>1, OthersCover
  <2> QED BY <2>1, <2>2
<1>5. CASE SendDropped(cap) \/ SendKilled(cap)
  <2>1. UNCHANGED <<wire, fd, sentCnt, queue>>
    BY <1>5 DEF SendDropped, SendKilled, kernel, counters
  <2> QED BY <1>1, <1>3, <2>1, OthersCover
<1>6. CASE SendQueued(cap)
  BY <1>4, <1>6 DEF SendQueued, kernel
<1>7. CASE SendFailed(cap)
  BY <1>4, <1>7 DEF SendFailed, MustQueue
<1>8. CASE SendWritten(cap)
  <2>1. PICK n \in WriteResults(cap) :
          /\ n > 0
          /\ wire' = [wire EXCEPT ![fd] = Put(@, Buffer(cap), n)]
          /\ IF Complete(Buffer(cap), n)
             THEN sentCnt' = sentCnt + 1 /\ queue' = queue
             ELSE sentCnt' = sentCnt /\ queue' = Append(queue, [Buffer(cap) EXCEPT !.off = n])
    BY <1>8 DEF SendWritten
  <2>2. n \in 1..cap /\ n \in Nat /\ fd \in Conns
    BY <1>1, <2>1, WriteResultsRange DEF TypeOK
  <2>3. fd' = fd /\ queue = <<>>
    BY <1>8 DEF SendWritten, MustQueue
  <2>4. PICK buf \in Buffers : /\ buf = Buffer(cap) /\ buf.cap = cap
                               /\ Position(buf.off) = 0 /\ buf.id = sentCnt + 1
    BY <1>1, <1>2, <2>3
  <2>5. \/ /\ sentCnt' = sentCnt /\ queue' # <<>> /\ queue'[1].cap = buf.cap
           /\ Position(queue'[1].off) = Position(buf.off) + n
        \/ /\ sentCnt' = sentCnt + 1 /\ Position(buf.off) + n = buf.cap
           /\ queue' # <<>> => Position(queue'[1].off) = 0
    <3>1. CASE Complete(Buffer(cap), n)
      BY <2>1, <2>2, <2>3, <2>4, <3>1 DEF Complete
    <3>2. CASE ~Complete(Buffer(cap), n)
      <4>1. PICK b \in Buffers : b = [Buffer(cap) EXCEPT !.off = n] /\ b.cap = cap /\ b.off = n
        <5>1. [Buffer(cap) EXCEPT !.off = n] \in Buffers
          BY <1>1, <2>2, BufferType
        <5>2. [Buffer(cap) EXCEPT !.off = n].cap = cap /\ [Buffer(cap) EXCEPT !.off = n].off = n
          BY DEF Buffer
        <5> QED BY <5>1, <5>2
      <4>2. queue' = Append(queue, b) /\ sentCnt' = sentCnt
        BY <2>1, <3>2, <4>1
      <4>3. queue' # <<>> /\ queue'[1] = b
        BY <1>1, <2>3, <4>2, EmptySeq, AppendProperties
      <4>4. Position(n) = n
        BY <1>1, <2>2 DEF Position
      <4>5. queue'[1].off = n /\ queue'[1].cap = buf.cap
        BY <2>4, <4>1, <4>3
      <4>6. Position(queue'[1].off) = n
        BY <4>4, <4>5
      <4>7. Position(buf.off) + n = n
        BY <2>2, <2>4
      <4> QED BY <4>2, <4>3, <4>5, <4>6, <4>7
    <3> QED BY <3>1, <3>2
  <2>6. \A c \in Conns : \A i \in 1..Len(wire[c]) :
              /\ wire[c][i].from <= wire[c][i].to
              /\ wire[c][i].id = sentCnt + 1 => wire[c][i].cap = buf.cap
    BY <1>1, <2>3 DEF CoverInv, HeadLast
  <2>7. \A q \in Nat : q < Position(buf.off) => Covered(wire[fd], sentCnt + 1, q)
    BY <2>4
  <2>8. wire' = [wire EXCEPT ![fd] = Put(@, buf, n)] /\ SentIsOnWire
    BY <2>1, <2>4 DEF CoverInv
  <2> QED BY <1>1, <2>2, <2>3, <2>4, <2>5, <2>6, <2>7, <2>8, WriteKeepsCover
<1> QED BY <1>5, <1>6, <1>7, <1>8 DEF Send

LEMMA DrainCovers ==
    ASSUME Known, OrderInv, CoverInv, DrainWrite PROVE CoverInv'
<1> USE SizeModAssumption, SizesAssumption, BoundsAssumption
<1>1. TypeOK /\ HeadLast /\ QueueInv /\ fd' = fd
  BY DEF Known, WireInv, QueueInv, TypeInv, OrderInv, DrainWrite
<1>2. PICK r \in Int :
        /\ -1 <= r /\ Position(queue[1].off) + r <= queue[1].cap
        /\ r > 0 => fd \in Conns /\ sock[fd] = "open"
        /\ wire' = IF r > 0 THEN [wire EXCEPT ![fd] = Put(@, queue[1], r)] ELSE wire
        /\ IF Position(queue[1].off) + r = queue[1].cap
           THEN queue' = Tail(queue) /\ sentCnt' = sentCnt + 1
           ELSE /\ sentCnt' = sentCnt
                /\ \E off \in 0..(SIZE_MOD - 1) :
                     /\ queue' = [queue EXCEPT ![1].off = off]
                     /\ Position(off) = Position(queue[1].off) + r
  BY <1>1, DrainStep
<1>3. /\ queue \in Seq(Buffers) /\ queue # <<>> /\ queue[1] \in Buffers
      /\ queue[1].id = sentCnt + 1 /\ Len(queue) \in Nat \ {0}
  <2>1. queue \in Seq(Buffers) /\ queue # <<>>
    BY <1>1 DEF QueueInv, TypeInv, TypeOK, DrainInv, DrainWrite
  <2>2. Len(queue) \in Nat \ {0} /\ queue[1] \in Buffers
    BY <2>1, EmptySeq
  <2>3. queue[1].id = sentCnt + 1
    BY <1>1, <2>2 DEF QueueInv, QueueIsUnsentSuffix
  <2> QED BY <2>1, <2>2, <2>3
<1>4. Position(queue[1].off) \in Int /\ Position(queue[1].off) < queue[1].cap
  <2>1. Position(queue[1].off) \in Int
    BY <1>3 DEF Buffers, Position
  <2> QED BY <1>1, <1>3, <2>1 DEF QueueInv, Offsets
<1>5. CASE Position(queue[1].off) + r = queue[1].cap
  <2>1. sentCnt' = sentCnt + 1 /\ queue' = Tail(queue)
    BY <1>2, <1>5
  <2>2. queue' # <<>> => Position(queue'[1].off) = 0
    <3>0. /\ queue' \in Seq(Buffers) /\ Len(queue') = Len(queue) - 1
          /\ \A i \in 1..Len(queue') : queue'[i] = queue[i + 1]
      BY <1>3, <2>1, HeadTailProperties
    <3>1. queue' # <<>> => 2 \in 2..Len(queue) /\ queue'[1] = queue[2]
      <4>1. queue' # <<>> => Len(queue') \in Nat \ {0}
        BY <3>0, EmptySeq
      <4>2. queue' # <<>> => 1 \in 1..Len(queue')
        BY <4>1
      <4> QED BY <1>3, <3>0, <4>1, <4>2
    <3>2. queue' # <<>> => queue'[1].off = 0
      BY <1>1, <3>1 DEF QueueInv, Offsets
    <3> QED BY <3>2 DEF Position
  <2>3. r \in Nat /\ fd \in Conns /\ wire' = [wire EXCEPT ![fd] = Put(@, queue[1], r)]
    <3>1. queue[1].cap \in Int /\ r > 0
      BY <1>3, <1>4, <1>5 DEF Buffers
    <3> QED BY <1>2, <3>1
  <2>4. /\ SentIsOnWire
        /\ \A c \in Conns : \A i \in 1..Len(wire[c]) :
             /\ wire[c][i].from <= wire[c][i].to
             /\ wire[c][i].id = sentCnt + 1 => wire[c][i].cap = queue[1].cap
        /\ \A q \in Nat : q < Position(queue[1].off) => Covered(wire[fd], sentCnt + 1, q)
    BY <1>3 DEF CoverInv
  <2> QED BY <1>1, <1>3, <1>5, <2>1, <2>2, <2>3, <2>4, WriteKeepsCover
<1>6. CASE Position(queue[1].off) + r # queue[1].cap
  <2>1. sentCnt' = sentCnt
    BY <1>2, <1>6
  <2>2. /\ queue' # <<>> /\ queue'[1].cap = queue[1].cap
        /\ Position(queue'[1].off) = Position(queue[1].off) + r
    <3>1. PICK off \in 0..(SIZE_MOD - 1) :
            /\ queue' = [queue EXCEPT ![1].off = off]
            /\ Position(off) = Position(queue[1].off) + r
      BY <1>2, <1>6
    <3>2. 1 \in DOMAIN queue /\ DOMAIN queue' = DOMAIN queue
      BY <1>3, <3>1
    <3>3. queue'[1] = [queue[1] EXCEPT !.off = off]
      BY <1>3, <3>1, <3>2
    <3>4. queue'[1].off = off /\ queue'[1].cap = queue[1].cap
      BY <1>3, <3>3 DEF Buffers
    <3> QED BY <3>1, <3>2, <3>4
  <2>3. CASE r > 0
    <3>1. r \in Nat /\ fd \in Conns /\ wire' = [wire EXCEPT ![fd] = Put(@, queue[1], r)]
      BY <1>2, <2>3
    <3>2. /\ SentIsOnWire
          /\ \A c \in Conns : \A i \in 1..Len(wire[c]) :
               /\ wire[c][i].from <= wire[c][i].to
               /\ wire[c][i].id = sentCnt + 1 => wire[c][i].cap = queue[1].cap
          /\ \A q \in Nat : q < Position(queue[1].off) => Covered(wire[fd], sentCnt + 1, q)
      BY <1>3 DEF CoverInv
    <3> QED BY <1>1, <1>3, <2>1, <2>2, <3>1, <3>2, WriteKeepsCover
  <2>4. CASE r <= 0
    <3>1. wire' = wire /\ Position(queue'[1].off) \in Int
          /\ Position(queue'[1].off) <= Position(queue[1].off)
      BY <1>2, <1>4, <2>2, <2>4
    <3> QED BY <1>1, <1>3, <1>4, <2>1, <2>2, <3>1, OthersCover
  <2> QED BY <2>3, <2>4
<1> QED BY <1>5, <1>6

LEMMA NextCovers == Known /\ OrderInv /\ CoverInv /\ [Next]_vars => CoverInv'
<1> SUFFICES ASSUME Known, OrderInv, CoverInv, [Next]_vars PROVE CoverInv'
  OBVIOUS
<1>1. TypeOK /\ HeadLast /\ QueueInv /\ queue \in Seq(Buffers)
  BY DEF Known, WireInv, QueueInv, TypeInv, TypeOK, OrderInv
<1>2. CASE \E cap \in Sizes : Send(cap)
  BY <1>2, SendCovers
<1>3. CASE DrainWrite
  BY <1>3, DrainCovers
<1>4. queue # <<>> => Position(queue[1].off) \in Int
  <2>1. queue # <<>> => queue[1] \in Buffers
    BY <1>1, EmptySeq
  <2> QED BY <2>1, SizeModAssumption, SizesAssumption, BoundsAssumption DEF Buffers, Position
<1>5. CASE Construct
  <2>1. queue = <<>> /\ UNCHANGED <<wire, queue, sentCnt>>
    BY <1>5 DEF Construct, Known, NewInv, counters
  <2> QED BY <1>1, <2>1, OthersCover
<1>6. CASE \/ OnWriteOpportunity \/ DrainKilled
           \/ (\E mode \in BOOLEAN : SetAsyncMode(mode))
           \/ (\E n \in QueueMaxSizes : SetQueueMaxSize(n))
           \/ ConnectionGracefulShutdown \/ (\E c \in Conns : Break(c))
           \/ UNCHANGED vars
  <2>1. UNCHANGED <<wire, queue, sentCnt>>
    BY <1>1, <1>6, OtherEffect
  <2>2. fd' = fd
    BY <1>6 DEF OnWriteOpportunity, DrainKilled, SetAsyncMode, SetQueueMaxSize,
                ConnectionGracefulShutdown, Break, vars
  <2> QED BY <1>1, <1>4, <2>1, <2>2, OthersCover
<1> QED BY <1>2, <1>3, <1>5, <1>6 DEF Next

\* A buffer is counted as sent only when each of its bytes was accepted by one
\* connection, failing writes included (PosixIO.cc: onWriteOpportunity, send).
THEOREM SentIsOnWireCorrect == Spec => []SentIsOnWire
<1>1. Init => CoverInv
  <2> SUFFICES ASSUME Init PROVE CoverInv
    OBVIOUS
  <2>1. (\A c \in Conns : wire[c] = <<>>) /\ queue = <<>> /\ sentCnt = 0
    BY DEF Init
  <2> QED BY <2>1, EmptySeq DEF CoverInv, SentIsOnWire
<1>2. CoverInv => SentIsOnWire
  BY DEF CoverInv
<1> QED BY <1>1, <1>2, SpecKnown, SpecOrder, NextCovers, PTL DEF Spec
=============================================================================
