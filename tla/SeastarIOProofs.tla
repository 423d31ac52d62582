-------------------------- MODULE SeastarIOProofs --------------------------
(***************************************************************************)
(* Proofs, for every value of the constants, of the safety of the transmit *)
(* loop of SeastarIO: types, one loop at a time, the flag that guards it,  *)
(* the connection under a write, the closing of the streams, the byte      *)
(* accounting and the limit.                                               *)
(***************************************************************************)
EXTENDS SeastarIO, SequenceTheorems, FiniteSetTheorems, TLAPS

\* A buffer send makes is a buffer, and no buffer is None.
LEMMA BufferType ==
    /\ \A size \in Sizes, n \in Nat, start \in Nat :
            [id |-> n + 1, size |-> size, start |-> start] \in Buffers
    /\ None \notin Buffers
    /\ \A b \in Buffers \cup {None} : b.size \in Nat
<1>1. \A b \in Buffers : b.size \in Sizes /\ b.id # 0
  BY DEF Buffers
<1>2. None.id = 0 /\ None.size = 0
  BY DEF None
<1>3. ASSUME NEW size \in Sizes, NEW n \in Nat, NEW start \in Nat
      PROVE  [id |-> n + 1, size |-> size, start |-> start] \in Buffers
  <2> DEFINE b == [id |-> n + 1, size |-> size, start |-> start]
  <2>1. n + 1 \in Nat \ {0}
    OBVIOUS
  <2>2. b \in [id : Nat \ {0}, size : Sizes, start : Nat]
    BY <2>1
  <2> QED BY <2>2 DEF Buffers
<1>4. None \notin Buffers
  BY <1>1, <1>2
<1>5. ASSUME NEW b \in Buffers \cup {None} PROVE b.size \in Nat
  <2>1. CASE b \in Buffers
    <3>1. b.size \in Sizes
      BY <1>1, <2>1
    <3> QED BY <3>1, SeastarAssumption
  <2>2. CASE b = None
    BY <1>2, <2>2
  <2> QED BY <2>1, <2>2
<1>6. \A size \in Sizes, n \in Nat, start \in Nat :
        [id |-> n + 1, size |-> size, start |-> start] \in Buffers
  BY <1>3, Zenon
<1>7. \A b \in Buffers \cup {None} : b.size \in Nat
  BY <1>5, Zenon
<1> QED BY <1>4, <1>6, <1>7, Zenon

LEMMA InitType == Init => TypeOK
<1> SUFFICES ASSUME Init PROVE TypeOK
  OBVIOUS
<1>1. /\ connected \in BOOLEAN /\ transmitting \in BOOLEAN /\ shuttingDown \in BOOLEAN
      /\ shared \in BOOLEAN /\ patient \in BOOLEAN
  BY SeastarAssumption, Zenon DEF Init
<1>2. wqueue \in Seq(Buffers) /\ wire \in Seq(Nat)
  BY DEF Init
<1>3. /\ loop \in [Loops -> {"none", "writing", "check", "ended"}]
      /\ inflight \in [Loops -> Buffers \cup {None}]
      /\ \A l \in Loops : loop[l] = "writing" <=> inflight[l] # None
      /\ out \in [Loops -> Nat] /\ txLoop \in Loops
  BY DEF Init, Loops
<1> QED BY <1>1, <1>2, <1>3, SeastarAssumption DEF Init, TypeOK

\* What a loop writes next is a buffer.
LEMMA StartWriteType ==
    ASSUME TypeOK, NEW l \in Loops, NEW q \in Seq(Buffers), q # <<>>, StartWrite(l, q)
    PROVE  /\ loop' \in [Loops -> {"none", "writing", "check", "ended"}]
           /\ inflight' \in [Loops -> Buffers \cup {None}]
           /\ \A k \in Loops : loop'[k] = "writing" <=> inflight'[k] # None
           /\ out' \in [Loops -> Nat]
           /\ wqueue' \in Seq(Buffers)
           /\ transmitting' = TRUE
<1>1. Head(q) \in Buffers /\ Tail(q) \in Seq(Buffers)
  BY HeadTailProperties
<1> QED BY <1>1, BufferType DEF StartWrite, TypeOK

LEMMA SendType ==
    ASSUME TypeOK, NEW size \in Sizes, Send(size) PROVE TypeOK'
<1>1. CASE SendDropped(size)
  BY <1>1 DEF SendDropped, Send, TypeOK, conf, conn, sendq, past
<1>2. CASE SendLetGo(size)
  BY <1>2 DEF SendLetGo, Send, TypeOK, conf, conn, sendq, past
<1>3. CASE SendPosted(size)
  <2> DEFINE buf == [id |-> posted + 1, size |-> size, start |-> postedBytes]
             q   == Append(wqueue, buf)
  <2>1. /\ q \in Seq(Buffers) /\ q # <<>>
        /\ posted' \in Nat /\ postedBytes' \in Nat /\ queuesize' \in Nat
    <3>1. buf \in Buffers /\ size \in Nat
      BY BufferType, SeastarAssumption DEF TypeOK
    <3>2. posted' = posted + 1 /\ postedBytes' = postedBytes + size
          /\ queuesize' = queuesize + size
      BY <1>3 DEF SendPosted
    <3>3. posted \in Nat /\ postedBytes \in Nat /\ queuesize \in Nat /\ wqueue \in Seq(Buffers)
      BY DEF TypeOK
    <3> QED BY <3>1, <3>2, <3>3, AppendProperties, SeastarAssumption
  <2>2. /\ loop' \in [Loops -> {"none", "writing", "check", "ended"}]
        /\ inflight' \in [Loops -> Buffers \cup {None}]
        /\ \A k \in Loops : loop'[k] = "writing" <=> inflight'[k] # None
        /\ out' \in [Loops -> Nat] /\ txLoop' \in Loops
        /\ wqueue' \in Seq(Buffers)
        /\ transmitting' \in BOOLEAN
    <3>1. CASE LoopRuns
      BY <1>3, <2>1, <3>1 DEF SendPosted, TypeOK
    <3>2. CASE ~LoopRuns
      <4>1. PICK l \in Loops :
                StartWrite(l, q) /\ txLoop' = IF disc = "none" THEN l ELSE txLoop
        BY <1>3, <3>2 DEF SendPosted
      <4>2. txLoop' \in Loops
        BY <4>1 DEF TypeOK
      <4> QED BY <2>1, <4>1, <4>2, StartWriteType
    <3> QED BY <3>1, <3>2
  <2> QED BY <1>3, <2>1, <2>2 DEF SendPosted, Send, TypeOK, conf, conn, past
<1> QED BY <1>1, <1>2, <1>3 DEF Send

LEMMA NextType == TypeOK /\ [Next]_vars => TypeOK'
<1> SUFFICES ASSUME TypeOK, [Next]_vars PROVE TypeOK'
  OBVIOUS
<1>1. CASE Connect \/ TimerFires \/ ConnectFails
  <2>1. connects' \in Nat /\ timer' \in {"off", "armed"} /\ attempts' \in Nat
    BY <1>1 DEF Connect, TimerFires, ConnectFails, AfterConnectFails, TypeOK
  <2>2. UNCHANGED <<conf, connected, stream, count, sendq, past, shuttingDown, disc>>
    BY <1>1 DEF Connect, TimerFires, ConnectFails
  <2> QED BY <2>1, <2>2 DEF TypeOK, conf, count, sendq, past
<1>2. CASE Established
  <2>1. /\ attempts' \in Nat /\ stream' \in Nat /\ connected' = TRUE /\ timer' = timer
        /\ UNCHANGED <<conf, connects, count, sendq, past, shuttingDown, disc>>
    BY <1>2 DEF Established, AfterEstablished, TypeOK
  <2> QED BY <2>1 DEF TypeOK, conf, count, sendq, past
<1>4. ASSUME NEW size \in Sizes, Send(size) PROVE TypeOK'
  BY <1>4, SendType
<1>5. ASSUME NEW l \in Loops, WriteDone(l) PROVE TypeOK'
  <2>1. inflight[l].size \in Nat /\ inflight[l].id \in Nat
    <3>1. inflight[l] \in Buffers
      BY <1>5 DEF WriteDone, TypeOK
    <3> QED BY <3>1, BufferType DEF Buffers
  <2>2. queuesize' \in Nat
    BY <1>5, <2>1 DEF WriteDone, TakeOff, TypeOK
  <2>4. wire' \in Seq(Nat)
    BY <1>5, <2>1, AppendProperties DEF WriteDone, TypeOK
  <2>3. /\ loop' \in [Loops -> {"none", "writing", "check", "ended"}]
        /\ inflight' \in [Loops -> Buffers \cup {None}]
        /\ \A k \in Loops : loop'[k] = "writing" <=> inflight'[k] # None
        /\ out' \in [Loops -> Nat]
    BY <1>5 DEF WriteDone, TypeOK
  <2> QED BY <1>5, <2>2, <2>3, <2>4 DEF WriteDone, TypeOK, conf, conn, count
<1>6. ASSUME NEW l \in Loops, WriteFails(l) PROVE TypeOK'
  <2>1. inflight[l].size \in Nat
    <3>1. inflight[l] \in Buffers
      BY <1>6 DEF WriteFails, TypeOK
    <3> QED BY <3>1, BufferType
  <2>2. failedBytes' \in Nat /\ fails' \in Nat
    BY <1>6, <2>1 DEF WriteFails, TypeOK
  <2>4. connected' \in BOOLEAN /\ transmitting' \in BOOLEAN
    BY <1>6, Zenon DEF WriteFails
  <2>3. /\ loop' \in [Loops -> {"none", "writing", "check", "ended"}]
        /\ inflight' \in [Loops -> Buffers \cup {None}]
        /\ \A k \in Loops : loop'[k] = "writing" <=> inflight'[k] # None
        /\ out' \in [Loops -> Nat]
    BY <1>6 DEF WriteFails, TypeOK
  <2> QED BY <1>6, <2>2, <2>3, <2>4 DEF WriteFails, TypeOK, conf, count
<1>7. ASSUME NEW l \in Loops, Check(l) PROVE TypeOK'
  <2>1. CASE Stops
    <3>1. /\ loop' \in [Loops -> {"none", "writing", "check", "ended"}]
          /\ \A k \in Loops : loop'[k] = "writing" <=> inflight'[k] # None
      BY <1>7, <2>1 DEF Check, TypeOK
    <3> QED BY <1>7, <2>1, <3>1 DEF Check, TypeOK, conf, conn, count, past
  <2>2. CASE ~Stops
    <3>1. wqueue \in Seq(Buffers) /\ wqueue # <<>> /\ StartWrite(l, wqueue)
      BY <1>7, <2>2 DEF Check, Stops, TypeOK
    <3>2. /\ loop' \in [Loops -> {"none", "writing", "check", "ended"}]
          /\ inflight' \in [Loops -> Buffers \cup {None}]
          /\ \A k \in Loops : loop'[k] = "writing" <=> inflight'[k] # None
          /\ out' \in [Loops -> Nat]
          /\ wqueue' \in Seq(Buffers)
          /\ transmitting' = TRUE
      BY <3>1, StartWriteType
    <3> QED BY <1>7, <3>2 DEF Check, TypeOK, conf, conn, count, past
  <2> QED BY <2>1, <2>2
<1>8. ASSUME NEW l \in Loops, Finally(l) PROVE TypeOK'
  <2>1. /\ loop' \in [Loops -> {"none", "writing", "check", "ended"}]
        /\ \A k \in Loops : loop'[k] = "writing" <=> inflight'[k] # None
    BY <1>8 DEF Finally, TypeOK
  <2> QED BY <1>8, <2>1 DEF Finally, FlagAfterLoop, TypeOK, conf, conn, count, past
<1>9. CASE Disconnect
  BY <1>9 DEF Disconnect, AfterTxFinished, TypeOK, conf, conn, count, sendq, past
<1>10. CASE Close \/ Closed
  BY <1>10 DEF Close, Closed, TypeOK, conf, conn, count, sendq, past
<1>11. ASSUME NEW n \in QueueMaxSizes, SetQueueMaxSize(n) PROVE TypeOK'
  BY <1>11, SeastarAssumption DEF SetQueueMaxSize, TypeOK, conn, count, sendq, past
<1>12. CASE UNCHANGED vars
  BY <1>12 DEF vars, TypeOK, conf, conn, count, sendq, past
<1> QED BY <1>1, <1>2, <1>4, <1>5, <1>6, <1>7, <1>8, <1>9, <1>10, <1>11, <1>12 DEF Next

\* Type correctness: every variable keeps its type in every behaviour, and a
\* loop has a buffer in flight exactly while it writes.
THEOREM TypeCorrect == Spec => []TypeOK
BY InitType, NextType, PTL DEF Spec

-----------------------------------------------------------------------------
(* The transmit loops                                                      *)

\* What the client is and what it does not set itself never changes.
LEMMA ClientStays == [Next]_vars => shared' = shared /\ patient' = patient
BY DEF Next, vars, conf, Connect, TimerFires, Established, ConnectFails, Send, WriteDone,
       WriteFails, Check, Finally, Disconnect, Close, Closed, SetQueueMaxSize

LEMMA InitFlag == Init => FlagHasLoop
BY DEF Init, FlagHasLoop

\* Whoever sets the flag is a loop, and each loop resets it when it ends.
LEMMA NextFlag == TypeOK /\ FlagHasLoop /\ [Next]_vars => FlagHasLoop'
<1> SUFFICES ASSUME TypeOK, FlagHasLoop, [Next]_vars PROVE FlagHasLoop'
  OBVIOUS
<1>1. CASE UNCHANGED <<loop, transmitting>>
  BY <1>1 DEF FlagHasLoop, Active
<1>2. ASSUME NEW l \in Loops, loop'[l] # "none" PROVE FlagHasLoop'
  BY <1>2 DEF FlagHasLoop, Active
<1>3. ASSUME NEW size \in Sizes, Send(size) PROVE FlagHasLoop'
  <2>1. CASE UNCHANGED sendq
    BY <1>1, <2>1 DEF sendq
  <2>2. CASE SendPosted(size) /\ LoopRuns
    BY <1>1, <2>2 DEF SendPosted
  <2>3. CASE SendPosted(size) /\ ~LoopRuns
    <3>1. PICK l \in Loops : loop' = [loop EXCEPT ![l] = "writing"]
      BY <2>3 DEF SendPosted, StartWrite
    <3>2. loop'[l] = "writing"
      BY <3>1 DEF TypeOK
    <3> QED BY <1>2, <3>2
  <2> QED BY <1>3, <2>1, <2>2, <2>3 DEF Send, SendDropped, SendLetGo
<1>4. ASSUME NEW l \in Loops, WriteDone(l) \/ WriteFails(l) \/ Check(l) PROVE FlagHasLoop'
  <2>1. \E state \in {"writing", "check", "ended"} : loop' = [loop EXCEPT ![l] = state]
    BY <1>4 DEF WriteDone, WriteFails, Check, StartWrite
  <2>2. loop'[l] # "none"
    BY <2>1 DEF TypeOK
  <2> QED BY <1>2, <2>2
<1>5. ASSUME NEW l \in Loops, Finally(l) PROVE FlagHasLoop'
  BY <1>5 DEF Finally, FlagAfterLoop, FlagHasLoop
<1>6. CASE \/ Connect \/ TimerFires \/ Established \/ ConnectFails
           \/ Disconnect \/ Close \/ Closed \/ UNCHANGED vars
           \/ \E n \in QueueMaxSizes : SetQueueMaxSize(n)
  BY <1>1, <1>6 DEF Connect, TimerFires, Established, ConnectFails, Disconnect, Close, Closed,
                    SetQueueMaxSize, vars, sendq
<1> QED BY <1>3, <1>4, <1>5, <1>6 DEF Next

\* _transmitting is set only while a loop will reset it (SeastarIO.cc: send).
THEOREM FlagHasLoopCorrect == Spec => []FlagHasLoop
BY TypeCorrect, InitFlag, NextFlag, PTL DEF Spec

-----------------------------------------------------------------------------
(* The transmit loop of a patient client                                   *)

SoleLoop == \A k, l \in Active : k = l

\* While a loop has not ended, a connected transport has its flag set: send
\* starts no second one.  The flag is reset early only by a failed write, with
\* which the connection is gone too, and no new one is there before the loop's
\* final step.
Guarded == Active # {} /\ connected => transmitting

OnStream == \A l \in Loops : loop[l] = "writing" => connected /\ out[l] = stream

\* There is no attempt beside a connection or another attempt, and none while a
\* loop runs: its timer fired after the loop of the last connection.
OneAttempt ==
    /\ connected => timer = "off" /\ attempts = 0
    /\ attempts # 0 => attempts = 1 /\ timer = "off" /\ Active = {}

\* disconnect waits for the loop that runs and goes on only after it, and then
\* no loop starts.
Closing ==
    /\ disc = "none" => Active \subseteq {txLoop}
    /\ ~shared => /\ disc \in {"ready", "closing"} => Active = {}
                  /\ shuttingDown => Active = {} /\ disc # "none"

LoopInv == SoleLoop /\ Guarded /\ OnStream /\ OneAttempt /\ Closing

LEMMA InitLoopInv == Init => LoopInv
<1> SUFFICES ASSUME Init PROVE LoopInv
  OBVIOUS
<1>1. Active = {}
  BY DEF Init, Active
<1> QED BY <1>1 DEF Init, LoopInv, SoleLoop, Guarded, OnStream, OneAttempt, Closing

LEMMA StutterLoopInv ==
    ASSUME LoopInv,
           UNCHANGED <<loop, out, txLoop, transmitting, conn, disc, shuttingDown, shared>>
    PROVE  LoopInv'
BY DEF LoopInv, SoleLoop, Guarded, OnStream, OneAttempt, Closing, Active, conn

\* A loop moves on, and is not over.
LEMMA MoveLoopInv ==
    ASSUME TypeOK, LoopInv, NEW l \in Loops, l \in Active, NEW s \in {"writing", "check", "ended"},
           loop' = [loop EXCEPT ![l] = s],
           UNCHANGED <<timer, attempts, stream, txLoop, disc, shuttingDown, shared>>,
           connected' => transmitting' /\ connected,
           s = "writing" => connected' /\ out' = [out EXCEPT ![l] = stream]
    PROVE  LoopInv'
<1>1. Active' = {l} /\ Active = {l}
  BY DEF LoopInv, SoleLoop, Active, TypeOK
<1>2. \A k \in Loops : loop'[k] = "writing" => k = l
  BY <1>1 DEF Active
<1>3. loop'[l] = s /\ (s = "writing" => out'[l] = stream)
  BY DEF TypeOK
<1>4. SoleLoop' /\ Guarded' /\ OnStream'
  BY <1>1, <1>2, <1>3 DEF SoleLoop, Guarded, OnStream
<1>5. OneAttempt' /\ Closing'
  BY <1>1 DEF LoopInv, OneAttempt, Closing
<1> QED BY <1>4, <1>5 DEF LoopInv

LEMMA SendLoopInv ==
    ASSUME TypeOK, LoopInv, NEW size \in Sizes, Send(size) PROVE LoopInv'
<1>1. (disc = "none" \/ shared) /\ UNCHANGED <<conn, disc, shuttingDown, shared>>
  BY DEF Send, Logs, conf
<1>2. CASE UNCHANGED <<loop, out, txLoop, transmitting>>
  BY <1>1, <1>2, StutterLoopInv
<1>3. ASSUME NEW l \in Loops, NEW q, StartWrite(l, q),
             txLoop' = IF disc = "none" THEN l ELSE txLoop,
             connected, ~transmitting, ~shuttingDown
      PROVE  LoopInv'
  <2>1. Active = {}
    BY <1>3 DEF LoopInv, Guarded
  <2>2. /\ loop' = [loop EXCEPT ![l] = "writing"] /\ transmitting' = TRUE
        /\ out' = [out EXCEPT ![l] = stream]
    BY <1>3 DEF StartWrite
  <2>3. Active' = {l} /\ \A k \in Loops : loop'[k] = "writing" => k = l
    BY <2>1, <2>2 DEF Active, TypeOK
  <2>4. out'[l] = stream
    BY <2>2 DEF TypeOK
  <2>5. /\ connected /\ UNCHANGED <<connected, stream, timer, attempts>>
        /\ timer = "off" /\ attempts = 0
    BY <1>1, <1>3 DEF LoopInv, OneAttempt, conn
  <2>6. SoleLoop' /\ Guarded' /\ OnStream' /\ OneAttempt'
    BY <2>2, <2>3, <2>4, <2>5 DEF SoleLoop, Guarded, OnStream, OneAttempt
  <2>7. Closing'
    BY <1>1, <1>3, <2>3 DEF LoopInv, Closing
  <2> QED BY <2>6, <2>7 DEF LoopInv
<1>4. CASE SendPosted(size)
  <2>1. connected /\ ~shuttingDown
    BY <1>4 DEF SendPosted
  <2>2. CASE LoopRuns
    BY <1>2, <1>4, <2>2 DEF SendPosted
  <2>3. CASE ~LoopRuns
    <3>1. PICK l \in Loops, q \in {Append(wqueue, [id |-> posted + 1, size |-> size,
                                                  start |-> postedBytes])} :
            StartWrite(l, q) /\ txLoop' = IF disc = "none" THEN l ELSE txLoop
      BY <1>4, <2>3 DEF SendPosted
    <3> QED BY <1>3, <2>1, <2>3, <3>1 DEF LoopRuns
  <2> QED BY <2>2, <2>3
<1> QED BY <1>2, <1>4 DEF Send, SendDropped, SendLetGo, sendq

LEMMA NextLoopInv == TypeOK /\ patient /\ LoopInv /\ [Next]_vars => LoopInv'
<1> SUFFICES ASSUME TypeOK, patient, LoopInv, [Next]_vars PROVE LoopInv'
  OBVIOUS
<1>0. ASSUME UNCHANGED <<loop, out, transmitting, txLoop, disc, shuttingDown, shared>>,
             OneAttempt', OnStream', Guarded'
      PROVE  LoopInv'
  BY <1>0 DEF LoopInv, SoleLoop, Closing, Active
<1>1. CASE UNCHANGED vars \/ \E n \in QueueMaxSizes : SetQueueMaxSize(n)
  <2>1. UNCHANGED <<loop, out, txLoop, transmitting, conn, disc, shuttingDown, shared>>
    BY <1>1 DEF SetQueueMaxSize, vars, sendq, conf
  <2> QED BY <2>1, StutterLoopInv
<1>2. CASE Connect \/ TimerFires \/ ConnectFails
  <2>1. UNCHANGED <<loop, out, transmitting, txLoop, disc, shuttingDown, shared, connected, stream>>
    BY <1>2 DEF Connect, TimerFires, ConnectFails, sendq, conf
  <2>2. Active' = Active
    BY <2>1 DEF Active
  <2>3. OneAttempt'
    <3>1. CASE Connect
      BY <2>1, <3>1 DEF Connect, Trying, OneAttempt, TypeOK
    <3>2. CASE TimerFires
      <4>1. timer = "armed" /\ timer' = "off" /\ attempts' = attempts + 1
        BY <3>2 DEF TimerFires
      <4>2. ~connected /\ attempts = 0
        BY <4>1 DEF LoopInv, OneAttempt
      <4>3. Active = {}
        BY <3>2, <4>2 DEF TimerFires, Quiet, LoopInv, OnStream, Active
      <4> QED BY <2>1, <2>2, <4>1, <4>2, <4>3 DEF OneAttempt
    <3>3. CASE ConnectFails
      <4>1. attempts # 0 /\ attempts' = attempts - 1
        BY <3>3 DEF ConnectFails, TypeOK
      <4>2. ~connected /\ attempts' = 0
        BY <4>1 DEF LoopInv, OneAttempt
      <4> QED BY <2>1, <4>2 DEF OneAttempt
    <3> QED BY <1>2, <3>1, <3>2, <3>3
  <2>4. OnStream' /\ Guarded'
    BY <2>1, <2>2 DEF LoopInv, OnStream, Guarded
  <2> QED BY <1>0, <2>1, <2>3, <2>4
<1>3. CASE Established
  <2>1. /\ UNCHANGED <<loop, out, transmitting, txLoop, disc, shuttingDown, shared, timer>>
        /\ attempts # 0 /\ attempts' = attempts - 1
    BY <1>3 DEF Established, AfterEstablished, sendq, conf, TypeOK
  <2>2. attempts' = 0 /\ timer' = "off" /\ Active = {}
    BY <2>1 DEF LoopInv, OneAttempt
  <2>3. Active' = {} /\ \A l \in Loops : loop'[l] # "writing"
    BY <2>1, <2>2 DEF Active
  <2> QED BY <1>0, <2>1, <2>2, <2>3 DEF OneAttempt, OnStream, Guarded
<1>4. ASSUME NEW size \in Sizes, Send(size) PROVE LoopInv'
  BY <1>4, SendLoopInv
<1>5. ASSUME NEW l \in Loops, WriteDone(l) PROVE LoopInv'
  <2>1. /\ l \in Active
        /\ loop' = [loop EXCEPT ![l] = "check"]
        /\ UNCHANGED <<timer, attempts, stream, txLoop, disc, shuttingDown, shared>>
        /\ UNCHANGED <<transmitting, connected>>
    BY <1>5 DEF WriteDone, Active, conn, conf
  <2>2. connected' => transmitting' /\ connected
    BY <2>1 DEF LoopInv, Guarded
  <2> QED BY <2>1, <2>2, MoveLoopInv
<1>6. ASSUME NEW l \in Loops, WriteFails(l) PROVE LoopInv'
  <2>1. /\ l \in Active
        /\ loop' = [loop EXCEPT ![l] = "check"]
        /\ connected' = FALSE
        /\ UNCHANGED <<timer, attempts, stream, txLoop, disc, shuttingDown, shared>>
    BY <1>6 DEF WriteFails, Active, conf
  <2> QED BY <2>1, MoveLoopInv
<1>7. ASSUME NEW l \in Loops, Check(l) PROVE LoopInv'
  <2>1. /\ l \in Active
        /\ UNCHANGED <<timer, attempts, stream, txLoop, disc, shuttingDown, shared>>
        /\ connected' = connected
    BY <1>7 DEF Check, Active, conn, conf
  <2>2. connected => transmitting
    BY <2>1 DEF LoopInv, Guarded
  <2>3. CASE Stops
    <3>1. loop' = [loop EXCEPT ![l] = "ended"] /\ transmitting' = transmitting
      BY <1>7, <2>3 DEF Check
    <3>2. connected' => transmitting' /\ connected
      BY <2>1, <2>2, <3>1
    <3> QED BY <2>1, <3>1, <3>2, MoveLoopInv
  <2>4. CASE ~Stops
    <3>1. /\ loop' = [loop EXCEPT ![l] = "writing"] /\ transmitting' = TRUE
          /\ out' = [out EXCEPT ![l] = stream]
      BY <1>7, <2>4 DEF Check, StartWrite
    <3>2. connected
      BY <2>4, Zenon DEF Stops
    <3>3. connected' /\ (connected' => transmitting' /\ connected)
      BY <2>1, <3>1, <3>2, Zenon
    <3> QED BY <2>1, <3>1, <3>3, MoveLoopInv
  <2> QED BY <2>3, <2>4
<1>8. ASSUME NEW l \in Loops, Finally(l) PROVE LoopInv'
  <2>1. /\ l \in Active /\ loop' = [loop EXCEPT ![l] = "none"]
        /\ disc' = (IF disc = "waiting" /\ l = txLoop THEN "ready" ELSE disc)
        /\ UNCHANGED <<conn, txLoop, shuttingDown, shared>>
    BY <1>8 DEF Finally, Active, conf
  <2>2. Active' = {} /\ \A k \in Loops : loop'[k] # "writing"
    BY <2>1 DEF LoopInv, SoleLoop, Active, TypeOK
  <2>3. SoleLoop' /\ Guarded' /\ OnStream'
    BY <2>2 DEF SoleLoop, Guarded, OnStream
  <2>4. OneAttempt'
    BY <2>1, <2>2 DEF LoopInv, OneAttempt, conn
  <2>5. Closing'
    BY <2>1, <2>2 DEF LoopInv, Closing
  <2> QED BY <2>3, <2>4, <2>5 DEF LoopInv
<1>9. CASE Disconnect \/ Close \/ Closed
  <2>1. UNCHANGED <<loop, out, txLoop, transmitting, conn, shared>>
    BY <1>9 DEF Disconnect, Close, Closed, sendq, conf
  <2>2. Active' = Active
    BY <2>1 DEF Active
  <2>3. Closing'
    <3>1. CASE Disconnect
      <4>1. /\ disc = "none" /\ disc' \in {"ready", "waiting", "closed"}
            /\ disc' = "ready" => loop[txLoop] = "none"
            /\ shuttingDown' = shuttingDown
        BY <3>1 DEF Disconnect, AfterTxFinished
      <4>2. disc' = "ready" => Active = {}
        BY <4>1 DEF LoopInv, Closing, Active
      <4> QED BY <2>1, <2>2, <4>1, <4>2 DEF LoopInv, Closing
    <3>2. CASE Close
      BY <2>1, <2>2, <3>2 DEF Close, LoopInv, Closing
    <3>3. CASE Closed
      BY <2>1, <2>2, <3>3 DEF Closed, LoopInv, Closing
    <3> QED BY <1>9, <3>1, <3>2, <3>3
  <2>4. SoleLoop' /\ Guarded' /\ OnStream' /\ OneAttempt'
    BY <2>1, <2>2 DEF LoopInv, SoleLoop, Guarded, OnStream, OneAttempt, conn
  <2> QED BY <2>3, <2>4 DEF LoopInv
<1> QED BY <1>1, <1>2, <1>3, <1>4, <1>5, <1>6, <1>7, <1>8, <1>9 DEF Next

LEMMA SpecLoopInv == Spec => [](TypeOK /\ (patient => LoopInv))
<1>1. Spec => []TypeOK
  BY TypeCorrect
<1>2. Spec => [](patient => LoopInv)
  <2>1. Init => (patient => LoopInv)
    BY InitLoopInv
  <2>2. TypeOK /\ (patient => LoopInv) /\ [Next]_vars => (patient => LoopInv)'
    BY ClientStays, NextLoopInv
  <2> QED BY <1>1, <2>1, <2>2, PTL DEF Spec
<1> QED BY <1>1, <1>2, PTL

\* send starts no second transmit loop for a patient client while one has not
\* ended: an output stream never has two writes at a time (SeastarIO.cc: send).
THEOREM OneLoopCorrect == Spec => []OneLoop
<1>1. (patient => LoopInv) => OneLoop
  BY DEF LoopInv, SoleLoop, OneLoop
<1> QED BY <1>1, SpecLoopInv, PTL

\* The stream a patient client's write began on stays the present connection's
\* until the write ends, over failed writes and new connections (SeastarIO.cc:
\* send, initializeConnectedSocket).
THEOREM StreamKeptCorrect == Spec => []StreamKept
<1>1. (patient => LoopInv) => StreamKept
  BY DEF LoopInv, OnStream, StreamKept
<1> QED BY <1>1, SpecLoopInv, PTL

\* The streams of a patient client of one fiber are closed only when no write is
\* in flight, and none starts afterwards (SeastarIO.cc: disconnect).
THEOREM NoWriteAfterCloseCorrect == Spec => []NoWriteAfterClose
<1>1. (patient => LoopInv) => NoWriteAfterClose
  BY DEF LoopInv, Closing, NoWriteAfterClose, Active
<1> QED BY <1>1, SpecLoopInv, PTL

-----------------------------------------------------------------------------
(* The byte accounting                                                     *)

\* Each buffer of a queue starts where the one before it ends, and the last
\* one ends at bytes.
Chained(q, bytes) ==
    /\ \A i \in 1..Len(q) :
        q[i].start + q[i].size = IF i = Len(q) THEN bytes ELSE q[i + 1].start
    /\ \A i \in 1..Len(q) : q[i].start + q[i].size <= bytes

BytesOf(q, bytes) == IF q = <<>> THEN 0 ELSE bytes - q[1].start

LEMMA HeadFirst ==
    ASSUME NEW q \in Seq(Buffers), q # <<>>
    PROVE  /\ Head(q) = q[1] /\ q[1] \in Buffers /\ 1 \in 1..Len(q)
           /\ q[1].size \in Nat \ {0} /\ q[1].start \in Nat
<1>1. Len(q) \in Nat \ {0}
  BY EmptySeq, LenProperties
<1>2. q[1] \in Buffers /\ 1 \in 1..Len(q)
  BY <1>1, ElementOfSeq
<1>3. q[1].size \in Sizes /\ q[1].start \in Nat
  BY <1>2 DEF Buffers
<1>4. Head(q) = q[1]
  OBVIOUS
<1>5. q[1].size \in Nat \ {0}
  BY <1>3, SeastarAssumption
<1> QED BY <1>2, <1>3, <1>4, <1>5

\* A chained queue holds a natural number of bytes.
LEMMA BytesNat ==
    ASSUME NEW q \in Seq(Buffers), NEW bytes \in Nat, Chained(q, bytes)
    PROVE  /\ BytesOf(q, bytes) \in Nat
           /\ q # <<>> => q[1].size <= BytesOf(q, bytes)
<1>1. CASE q = <<>>
  BY <1>1 DEF BytesOf
<1>2. CASE q # <<>>
  <2>1. q[1].size \in Nat /\ q[1].start \in Nat /\ q[1].start + q[1].size <= bytes
    BY <1>2, HeadFirst DEF Chained
  <2> QED BY <1>2, <2>1 DEF BytesOf
<1> QED BY <1>1, <1>2

\* A buffer posted now is chained to the queue and adds its size.
LEMMA PushChained ==
    ASSUME NEW q \in Seq(Buffers), NEW bytes \in Nat, Chained(q, bytes),
           NEW buf \in Buffers, buf.start = bytes
    PROVE  /\ Append(q, buf) \in Seq(Buffers) /\ Append(q, buf) # <<>>
           /\ Chained(Append(q, buf), bytes + buf.size)
           /\ BytesOf(Append(q, buf), bytes + buf.size) = BytesOf(q, bytes) + buf.size
<1> DEFINE r == Append(q, buf)
<1>1. /\ r \in Seq(Buffers) /\ Len(q) \in Nat /\ Len(r) = Len(q) + 1
      /\ r[Len(q) + 1] = buf /\ \A i \in 1..Len(q) : r[i] = q[i]
  BY AppendProperties, LenProperties
<1>2. r # <<>>
  BY <1>1, EmptySeq
<1>3. buf.size \in Nat
  BY BufferType
<1>4. ASSUME NEW i \in 1..Len(r)
      PROVE  /\ r[i].start + r[i].size = IF i = Len(r) THEN bytes + buf.size ELSE r[i + 1].start
             /\ r[i].start + r[i].size <= bytes + buf.size
  <2>1. CASE i = Len(q) + 1
    BY <1>1, <1>3, <2>1
  <2>2. CASE i # Len(q) + 1
    <3>1. i \in 1..Len(q) /\ r[i] = q[i] /\ i # Len(r)
      BY <1>1, <2>2
    <3>2. q[i].start + q[i].size = (IF i = Len(q) THEN bytes ELSE q[i + 1].start)
          /\ q[i].start + q[i].size <= bytes
      BY <3>1 DEF Chained
    <3>3. q[i].start \in Nat /\ q[i].size \in Nat
      <4>1. q[i] \in Buffers
        BY <3>1, ElementOfSeq
      <4> QED BY <4>1, BufferType DEF Buffers
    <3>4. CASE i = Len(q)
      BY <1>1, <1>3, <3>1, <3>2, <3>3, <3>4
    <3>5. CASE i # Len(q)
      <4>1. i + 1 \in 1..Len(q)
        BY <1>1, <3>1, <3>5
      <4>2. r[i + 1] = q[i + 1]
        BY <1>1, <4>1
      <4> QED BY <1>3, <3>1, <3>2, <3>3, <3>5, <4>2
    <3> QED BY <3>4, <3>5
  <2> QED BY <2>1, <2>2
<1>5. BytesOf(r, bytes + buf.size) = BytesOf(q, bytes) + buf.size
  <2>1. CASE q = <<>>
    <3>1. r[1] = buf
      BY <1>1, <2>1, EmptySeq
    <3> QED BY <1>2, <1>3, <2>1, <3>1 DEF BytesOf
  <2>2. CASE q # <<>>
    <3>1. r[1] = q[1] /\ q[1].start \in Nat
      BY <1>1, <2>2, HeadFirst
    <3> QED BY <1>2, <1>3, <2>2, <3>1 DEF BytesOf
  <2> QED BY <2>1, <2>2
<1> QED BY <1>1, <1>2, <1>4, <1>5 DEF Chained

\* Taking the head off keeps the chain and takes off the head's size.
LEMMA PopChained ==
    ASSUME NEW q \in Seq(Buffers), q # <<>>, NEW bytes \in Nat, Chained(q, bytes)
    PROVE  /\ Tail(q) \in Seq(Buffers)
           /\ Chained(Tail(q), bytes)
           /\ BytesOf(Tail(q), bytes) = BytesOf(q, bytes) - Head(q).size
<1>1. PICK r \in Seq(Buffers) :
      /\ r = Tail(q) /\ Len(q) \in Nat \ {0} /\ Len(r) = Len(q) - 1
      /\ \A i \in 1..Len(r) : r[i] = q[i + 1]
  BY HeadTailProperties, LenProperties, EmptySeq
<1>2. ASSUME NEW i \in 1..Len(r)
      PROVE  /\ r[i].start + r[i].size = IF i = Len(r) THEN bytes ELSE r[i + 1].start
             /\ r[i].start + r[i].size <= bytes
  <2>1. i + 1 \in 1..Len(q) /\ r[i] = q[i + 1] /\ (i = Len(r) <=> i + 1 = Len(q))
    BY <1>1
  <2>2. i # Len(r) => r[i + 1] = q[(i + 1) + 1]
    <3>1. SUFFICES ASSUME i # Len(r) PROVE r[i + 1] = q[(i + 1) + 1]
      OBVIOUS
    <3>2. Len(r) \in Nat /\ i \in 1..Len(r)
      BY LenProperties
    <3>3. i + 1 \in 1..Len(r)
      BY <3>1, <3>2
    <3> QED BY <1>1, <3>3
  <2> QED BY <2>1, <2>2 DEF Chained
<1>3. BytesOf(r, bytes) = BytesOf(q, bytes) - Head(q).size
  <2>1. /\ Head(q) = q[1] /\ q[1].size \in Nat /\ q[1].start \in Nat
        /\ q[1].start + q[1].size = IF 1 = Len(q) THEN bytes ELSE q[2].start
    <3>1. Head(q) = q[1] /\ q[1].size \in Nat /\ q[1].start \in Nat /\ 1 \in 1..Len(q)
      BY HeadFirst
    <3>2. q[1].start + q[1].size = IF 1 = Len(q) THEN bytes ELSE q[1 + 1].start
      BY <3>1 DEF Chained
    <3> QED BY <3>1, <3>2
  <2>2. CASE Len(q) = 1
    <3>1. r = <<>>
      <4>1. Len(r) = 0
        BY <1>1, <2>2
      <4> QED BY <4>1, EmptySeq
    <3> QED BY <2>1, <2>2, <3>1 DEF BytesOf
  <2>3. CASE Len(q) # 1
    <3>1. r # <<>> /\ r[1] = q[2]
      <4>1. 1 \in 1..Len(r)
        BY <1>1, <2>3
      <4>2. r[1] = q[1 + 1]
        BY <1>1, <4>1
      <4> QED BY <4>1, <4>2, EmptySeq
    <3>2. q[2].start = q[1].start + q[1].size
      BY <2>1, <2>3
    <3> QED BY <2>1, <3>1, <3>2 DEF BytesOf
  <2> QED BY <2>2, <2>3
<1> QED BY <1>1, <1>2, <1>3 DEF Chained

\* _queuesize counts the bytes held, and also those of every failed write, for
\* which nothing takes them off: QueueSizeExact when nothing failed.
QueueSizeCountsFailed == queuesize = Held + failedBytes

AccountInv == Chained(wqueue, postedBytes) /\ QueueSizeCountsFailed

Flight == inflight[1].size + inflight[2].size

\* Held in the terms of the lemmas above.
HeldIs ==
    /\ Held = BytesOf(wqueue, postedBytes) + Flight
    /\ Flight \in Nat
    /\ \A l \in Loops : inflight[l].size \in Nat /\ inflight[l].size <= Flight
    /\ \A l \in Loops : loop[l] # "writing" => inflight[l].size = 0

LEMMA HeldBytes == TypeOK => HeldIs
<1> SUFFICES ASSUME TypeOK PROVE HeldIs
  OBVIOUS
<1>1. wqueue # <<>> => Head(wqueue) = wqueue[1]
  BY HeadFirst DEF TypeOK
<1>2. Queued = BytesOf(wqueue, postedBytes)
  BY <1>1 DEF Queued, BytesOf
<1>3. ASSUME NEW l \in Loops PROVE inflight[l].size \in Nat
  <2>1. inflight[l] \in Buffers \cup {None}
    BY DEF TypeOK
  <2> QED BY <2>1, BufferType
<1>4. ASSUME NEW l \in Loops, loop[l] # "writing" PROVE inflight[l].size = 0
  BY <1>4 DEF TypeOK, None
<1>5. inflight[1].size \in Nat /\ inflight[2].size \in Nat
  BY <1>3 DEF Loops
<1>6. Held = BytesOf(wqueue, postedBytes) + Flight
  <2>1. Queued \in Int
    <3>1. wqueue # <<>> => wqueue[1].start \in Nat
      BY HeadFirst DEF TypeOK
    <3> QED BY <1>2, <3>1 DEF BytesOf, TypeOK
  <2> QED BY <1>2, <1>5, <2>1 DEF Held, Flight
<1>7. \A l \in Loops : inflight[l].size <= Flight
  BY <1>5 DEF Flight, Loops
<1> QED BY <1>3, <1>4, <1>5, <1>6, <1>7 DEF HeldIs, Flight

\* A loop that takes on or puts down a buffer changes what is in flight by it.
LEMMA FlightMoves ==
    ASSUME TypeOK, NEW l \in Loops, NEW b \in Buffers \cup {None},
           inflight' = [inflight EXCEPT ![l] = b]
    PROVE  Flight' = Flight - inflight[l].size + b.size
<1>1. inflight \in [Loops -> Buffers \cup {None}]
  BY DEF TypeOK
<1>2. inflight[1].size \in Nat /\ inflight[2].size \in Nat /\ b.size \in Nat
  BY <1>1, BufferType DEF Loops
<1>3. CASE l = 1
  <2>1. inflight'[1] = b /\ inflight'[2] = inflight[2]
    BY <1>1, <1>3 DEF Loops
  <2> QED BY <1>2, <1>3, <2>1 DEF Flight
<1>4. CASE l = 2
  <2>1. inflight'[2] = b /\ inflight'[1] = inflight[1]
    BY <1>1, <1>4 DEF Loops
  <2> QED BY <1>2, <1>4, <2>1 DEF Flight
<1> QED BY <1>3, <1>4 DEF Loops

\* A loop that starts a write moves bytes from the queue to the flight.
LEMMA StartWriteHeld ==
    ASSUME TypeOK, TypeOK', NEW l \in Loops, loop[l] # "writing",
           NEW q \in Seq(Buffers), q # <<>>, StartWrite(l, q),
           Chained(q, postedBytes')
    PROVE  /\ Chained(wqueue', postedBytes')
           /\ Held' = BytesOf(q, postedBytes') + Flight
<1>1. wqueue' = Tail(q) /\ inflight' = [inflight EXCEPT ![l] = Head(q)]
  BY DEF StartWrite
<1>2. postedBytes' \in Nat
  BY DEF TypeOK
<1>3. /\ Chained(wqueue', postedBytes')
      /\ BytesOf(wqueue', postedBytes') = BytesOf(q, postedBytes') - Head(q).size
  BY <1>1, <1>2, PopChained
<1>4. HeldIs /\ HeldIs'
  BY HeldBytes, PTL
<1>5. /\ Held' = BytesOf(wqueue', postedBytes') + Flight'
      /\ inflight[l].size = 0 /\ Flight \in Nat
  BY <1>4 DEF HeldIs
<1>6. Head(q) \in Buffers /\ Head(q).size \in Nat /\ BytesOf(q, postedBytes') \in Nat
  BY <1>2, HeadFirst, BytesNat
<1>7. Flight' = Flight - inflight[l].size + Head(q).size
  BY <1>1, <1>6, FlightMoves
<1> QED BY <1>3, <1>5, <1>6, <1>7

LEMMA InitAccountInv == Init => AccountInv
<1> SUFFICES ASSUME Init PROVE AccountInv
  OBVIOUS
<1>1. Len(wqueue) = 0 /\ wqueue = <<>>
  BY EmptySeq DEF Init
<1>2. Held = 0
  <2>1. inflight[1].size = 0 /\ inflight[2].size = 0
    BY DEF Init, Loops, None
  <2> QED BY <1>1, <2>1 DEF Held, Queued
<1> QED BY <1>1, <1>2 DEF Init, AccountInv, Chained, QueueSizeCountsFailed

\* Steps that leave the queue, what is in flight and the byte count alone.
LEMMA StutterAccountInv ==
    ASSUME AccountInv, UNCHANGED <<wqueue, inflight, queuesize, postedBytes, failedBytes>>
    PROVE  AccountInv'
<1>1. Held' = Held
  BY DEF Held, Queued
<1>2. Chained(wqueue', postedBytes')
  BY DEF AccountInv
<1> QED BY <1>1, <1>2 DEF AccountInv, QueueSizeCountsFailed

\* A posted buffer adds its size to what is held, whether a loop takes it (or an
\* older one) at once or not.
LEMMA PostAccountInv ==
    ASSUME TypeOK, TypeOK', AccountInv, NEW size \in Sizes, SendPosted(size),
           failedBytes' = failedBytes
    PROVE  AccountInv'
<1> DEFINE buf == [id |-> posted + 1, size |-> size, start |-> postedBytes]
<1>1. /\ wqueue \in Seq(Buffers) /\ postedBytes \in Nat /\ posted \in Nat
      /\ buf \in Buffers /\ buf.start = postedBytes /\ buf.size = size
  BY BufferType DEF TypeOK
<1>2. /\ Chained(wqueue, postedBytes)
      /\ postedBytes' = postedBytes + size /\ queuesize' = queuesize + size
  BY DEF AccountInv, SendPosted
<1>3. PICK q \in Seq(Buffers) :
        /\ q = Append(wqueue, buf) /\ q # <<>>
        /\ Chained(q, postedBytes')
        /\ BytesOf(q, postedBytes') = BytesOf(wqueue, postedBytes) + size
  BY <1>1, <1>2, PushChained
<1>4. /\ HeldIs /\ HeldIs'
      /\ BytesOf(wqueue, postedBytes) \in Nat /\ size \in Nat
      /\ queuesize = Held + failedBytes /\ failedBytes \in Nat
  <2>1. HeldIs /\ HeldIs'
    BY HeldBytes, PTL
  <2>2. size \in Nat
    BY SeastarAssumption
  <2> QED BY <1>1, <1>2, <2>1, <2>2, BytesNat DEF AccountInv, QueueSizeCountsFailed, TypeOK
<1>5. Chained(wqueue', postedBytes') /\ Held' = BytesOf(q, postedBytes') + Flight
  <2>1. CASE LoopRuns
    <3>1. wqueue' = q /\ inflight' = inflight
      BY <1>3, <2>1 DEF SendPosted
    <3>2. Flight' = Flight
      BY <3>1 DEF Flight
    <3> QED BY <1>3, <1>4, <3>1, <3>2 DEF HeldIs
  <2>2. CASE ~LoopRuns
    <3>1. PICK l \in Loops : loop[l] = "none" /\ StartWrite(l, q)
      BY <1>3, <2>2 DEF SendPosted
    <3> QED BY <1>3, <3>1, StartWriteHeld
  <2> QED BY <2>1, <2>2
<1>6. Held' = Held + size
  BY <1>3, <1>4, <1>5 DEF HeldIs
<1>7. Held \in Nat
  BY <1>4 DEF HeldIs
<1> QED BY <1>2, <1>4, <1>5, <1>6, <1>7 DEF AccountInv, QueueSizeCountsFailed

\* A loop that ends a write takes its buffer out of what is held.
LEMMA EndWriteHeld ==
    ASSUME TypeOK, TypeOK', AccountInv, NEW l \in Loops,
           inflight' = [inflight EXCEPT ![l] = None], UNCHANGED <<wqueue, postedBytes>>
    PROVE  /\ Chained(wqueue', postedBytes')
           /\ \E n \in 0..Held : n = inflight[l].size /\ Held' = Held - n
           /\ Held \in Nat
<1>1. Flight' = Flight - inflight[l].size + None.size
  BY FlightMoves
<1>2. None.size = 0
  BY DEF None
<1>3. /\ Held = BytesOf(wqueue, postedBytes) + Flight /\ Flight \in Nat
      /\ Held' = BytesOf(wqueue', postedBytes') + Flight'
      /\ inflight[l].size \in Nat /\ inflight[l].size <= Flight
  <2>1. HeldIs /\ HeldIs'
    BY HeldBytes, PTL
  <2> QED BY <2>1 DEF HeldIs
<1>4. BytesOf(wqueue, postedBytes) \in Nat /\ Chained(wqueue', postedBytes')
  BY BytesNat DEF AccountInv, TypeOK
<1>5. BytesOf(wqueue', postedBytes') = BytesOf(wqueue, postedBytes)
  OBVIOUS
<1>6. Held' = Held - inflight[l].size /\ Held \in Nat /\ inflight[l].size <= Held
  BY <1>1, <1>2, <1>3, <1>4, <1>5
<1> QED BY <1>3, <1>4, <1>6

LEMMA NextAccountInv == TypeOK /\ TypeOK' /\ AccountInv /\ [Next]_vars => AccountInv'
<1> SUFFICES ASSUME TypeOK, TypeOK', AccountInv, [Next]_vars PROVE AccountInv'
  OBVIOUS
<1>1. CASE \/ Connect \/ TimerFires \/ Established \/ ConnectFails
           \/ Disconnect \/ Close \/ Closed \/ UNCHANGED vars
           \/ \E n \in QueueMaxSizes : SetQueueMaxSize(n)
  <2>1. UNCHANGED <<wqueue, inflight, queuesize, postedBytes, failedBytes>>
    BY <1>1 DEF Connect, TimerFires, Established, ConnectFails, Disconnect, Close, Closed,
                SetQueueMaxSize, vars, sendq, count, past
  <2> QED BY <2>1, StutterAccountInv
<1>2. /\ HeldIs /\ HeldIs' /\ Chained(wqueue, postedBytes)
      /\ wqueue \in Seq(Buffers) /\ postedBytes \in Nat
      /\ BytesOf(wqueue, postedBytes) \in Nat
      /\ queuesize = Held + failedBytes /\ failedBytes \in Nat
  <2>1. HeldIs /\ HeldIs'
    BY HeldBytes, PTL
  <2> QED BY <2>1, BytesNat DEF AccountInv, QueueSizeCountsFailed, TypeOK
<1>3. ASSUME NEW size \in Sizes, Send(size) PROVE AccountInv'
  <2>1. failedBytes' = failedBytes
    BY <1>3 DEF Send, past
  <2>2. CASE SendDropped(size) \/ SendLetGo(size)
    BY <2>1, <2>2, StutterAccountInv DEF SendDropped, SendLetGo, sendq
  <2>3. CASE SendPosted(size)
    BY <2>1, <2>3, PostAccountInv
  <2> QED BY <1>3, <2>2, <2>3 DEF Send
<1>4. ASSUME NEW l \in Loops, WriteDone(l) PROVE AccountInv'
  <2>1. /\ inflight' = [inflight EXCEPT ![l] = None]
        /\ UNCHANGED <<wqueue, postedBytes>> /\ failedBytes' = failedBytes
        /\ queuesize' = TakeOff(inflight[l].size)
    BY <1>4 DEF WriteDone, count
  <2>2. Chained(wqueue', postedBytes') /\ Held \in Nat
    BY <2>1, EndWriteHeld
  <2>3. PICK n \in 0..Held : n = inflight[l].size /\ Held' = Held - n
    BY <2>1, EndWriteHeld
  <2>4. queuesize' = IF n >= queuesize THEN 0 ELSE queuesize - n
    BY <2>1, <2>3 DEF TakeOff
  <2>5. queuesize' = Held' + failedBytes'
    BY SMTT(60), <1>2, <2>1, <2>2, <2>3, <2>4
  <2> QED BY <2>2, <2>5 DEF AccountInv, QueueSizeCountsFailed
<1>5. ASSUME NEW l \in Loops, WriteFails(l) PROVE AccountInv'
  <2>1. /\ inflight' = [inflight EXCEPT ![l] = None]
        /\ UNCHANGED <<wqueue, postedBytes>> /\ queuesize' = queuesize
        /\ failedBytes' = failedBytes + inflight[l].size
    BY <1>5 DEF WriteFails, count
  <2>2. Chained(wqueue', postedBytes') /\ Held \in Nat
    BY <2>1, EndWriteHeld
  <2>3. PICK n \in 0..Held : n = inflight[l].size /\ Held' = Held - n
    BY <2>1, EndWriteHeld
  <2>4. queuesize' = Held' + failedBytes'
    BY <1>2, <2>1, <2>2, <2>3
  <2> QED BY <2>2, <2>4 DEF AccountInv, QueueSizeCountsFailed
<1>6. ASSUME NEW l \in Loops, Check(l) PROVE AccountInv'
  <2>1. UNCHANGED <<postedBytes, failedBytes, queuesize>> /\ loop[l] # "writing"
    BY <1>6 DEF Check, count, past
  <2>2. CASE Stops
    BY <1>6, <2>1, <2>2, StutterAccountInv DEF Check
  <2>3. CASE ~Stops
    <3>1. wqueue # <<>> /\ StartWrite(l, wqueue)
      BY <1>6, <2>3 DEF Check, Stops
    <3>2. /\ Chained(wqueue', postedBytes')
          /\ Held' = BytesOf(wqueue, postedBytes') + Flight
      BY <1>2, <2>1, <3>1, StartWriteHeld
    <3>3. Held' = Held
      BY <1>2, <2>1, <3>2 DEF HeldIs
    <3> QED BY <1>2, <2>1, <3>2, <3>3 DEF AccountInv, QueueSizeCountsFailed
  <2> QED BY <2>2, <2>3
<1>7. ASSUME NEW l \in Loops, Finally(l) PROVE AccountInv'
  BY <1>7, StutterAccountInv DEF Finally, count, past
<1> QED BY <1>1, <1>3, <1>4, <1>5, <1>6, <1>7 DEF Next

LEMMA SpecAccountInv == Spec => [](TypeOK /\ AccountInv)
<1>1. Spec => []TypeOK
  BY TypeCorrect
<1>2. Spec => []AccountInv
  BY <1>1, InitAccountInv, NextAccountInv, PTL DEF Spec
<1> QED BY <1>1, <1>2, PTL

\* _queuesize is the bytes held and those of every failed write, which never
\* leave it: what the code does, not what it should (SeastarIO.cc: send).
THEOREM QueueSizeCountsFailedCorrect == Spec => []QueueSizeCountsFailed
BY SpecAccountInv, PTL DEF AccountInv

FailedInv == fails = 0 => failedBytes = 0

LEMMA NextFailedInv == TypeOK /\ FailedInv /\ [Next]_vars => FailedInv'
<1> SUFFICES ASSUME TypeOK, FailedInv, [Next]_vars PROVE FailedInv'
  OBVIOUS
<1>1. CASE UNCHANGED <<fails, failedBytes>>
  BY <1>1 DEF FailedInv
<1>2. ASSUME NEW l \in Loops, WriteFails(l) PROVE FailedInv'
  BY <1>2 DEF WriteFails, FailedInv, TypeOK
<1>3. UNCHANGED <<fails, failedBytes>> \/ \E l \in Loops : WriteFails(l)
  BY DEF Next, vars, past, Connect, TimerFires, Established, ConnectFails, Send, WriteDone,
         Check, Finally, Disconnect, Close, Closed, SetQueueMaxSize
<1> QED BY <1>1, <1>2, <1>3

\* Until a write fails _queuesize is the bytes held: the clipping of its
\* subtraction never applies (SeastarIO.cc: send).
THEOREM QueueSizeExactCorrect == Spec => []QueueSizeExact
<1>1. Spec => []FailedInv
  <2>1. Init => FailedInv
    BY DEF Init, FailedInv
  <2> QED BY <2>1, TypeCorrect, NextFailedInv, PTL DEF Spec
<1>2. TypeOK /\ AccountInv /\ FailedInv => QueueSizeExact
  <2> SUFFICES ASSUME TypeOK, AccountInv, FailedInv, fails = 0 PROVE queuesize = Held
    BY DEF QueueSizeExact
  <2>1. queuesize = Held + 0
    BY DEF AccountInv, QueueSizeCountsFailed, FailedInv
  <2>2. Held \in Nat
    BY HeldBytes, BytesNat DEF HeldIs, AccountInv, TypeOK
  <2> QED BY <2>1, <2>2
<1> QED BY <1>1, <1>2, SpecAccountInv, PTL

\* The bytes held stay within the limit when a buffer is accepted, over
\* failures and new connections (SeastarIO.cc: send).
LEMMA AcceptStep == TypeOK /\ AccountInv /\ [Next]_vars => AcceptWithinLimit
<1> SUFFICES ASSUME TypeOK, AccountInv, [Next]_vars,
                    posted' # posted, queuemaxsize # 0
             PROVE  Held + (postedBytes' - postedBytes) <= queuemaxsize
  BY DEF AcceptWithinLimit
<1>1. PICK size \in Sizes : SendPosted(size)
  BY DEF Next, vars, count, Connect, TimerFires, Established, ConnectFails, Send, SendDropped,
         SendLetGo, WriteDone, WriteFails, Check, Finally, Disconnect, Close, Closed,
         SetQueueMaxSize
<1>2. postedBytes' = postedBytes + size /\ queuesize + size <= queuemaxsize
  <2>1. ~(queuesize + size > queuemaxsize) /\ postedBytes' = postedBytes + size
    BY <1>1 DEF SendPosted, OverLimit
  <2>2. queuesize \in Nat /\ queuemaxsize \in Nat /\ size \in Nat
    BY SeastarAssumption DEF TypeOK
  <2> QED BY <2>1, <2>2
<1>3. /\ postedBytes \in Nat /\ failedBytes \in Nat /\ size \in Nat
      /\ queuemaxsize \in Nat
  BY SeastarAssumption DEF TypeOK
<1>4. Held \in Nat /\ queuesize = Held + failedBytes
  <2>1. HeldIs /\ BytesOf(wqueue, postedBytes) \in Nat
    BY HeldBytes, BytesNat DEF AccountInv, TypeOK
  <2> QED BY <2>1 DEF HeldIs, AccountInv, QueueSizeCountsFailed
<1> QED BY <1>2, <1>3, <1>4

\* The limit bounds what is held, over failures and new connections
\* (SeastarIO.cc: send).
THEOREM QueueBoundedCorrect == Spec => QueueBounded
BY SpecAccountInv, AcceptStep, PTL DEF Spec, QueueBounded

-----------------------------------------------------------------------------
(* No buffer is lost without a failure, repeated or overtaken              *)

Writing == IF \E l \in Loops : loop[l] = "writing" THEN 1 ELSE 0

\* The queue q holds the latest of the first n buffers.
Numbered(q, n) == \A i \in 1..Len(q) : q[i].id = n - Len(q) + i

\* For a patient client, the buffer in flight is the one before the queue's, and
\* those on the wire are before it.
OrderInv ==
    /\ posted = sentCnt + fails + Writing + Len(wqueue)
    /\ Numbered(wqueue, posted)
    /\ \A i, j \in 1..Len(wire) : i < j => wire[i] < wire[j]
    /\ \A i \in 1..Len(wire) : wire[i] + Writing <= posted - Len(wqueue)
    /\ \A l \in Loops : loop[l] = "writing" => inflight[l].id = posted - Len(wqueue)

LEMMA InitOrderInv == Init => OrderInv
<1> SUFFICES ASSUME Init PROVE OrderInv
  OBVIOUS
<1>1. Len(wqueue) = 0 /\ Len(wire) = 0 /\ Writing = 0
  BY DEF Init, Writing
<1> QED BY <1>1 DEF Init, OrderInv, Numbered

LEMMA StutterOrderInv ==
    ASSUME OrderInv, UNCHANGED <<posted, sentCnt, fails, wqueue, wire, inflight>>,
           \A l \in Loops : loop'[l] = "writing" <=> loop[l] = "writing"
    PROVE  OrderInv'
<1>1. Writing' = Writing
  BY DEF Writing
<1> QED BY <1>1 DEF OrderInv, Numbered

\* A loop that starts a write takes the next buffer of the queue.
LEMMA StartWriteOrder ==
    ASSUME TypeOK, OrderInv, NEW l \in Loops, NEW q \in Seq(Buffers), q # <<>>,
           StartWrite(l, q), \A k \in Loops : loop[k] # "writing",
           posted' \in Nat, posted' - Len(q) = posted - Len(wqueue), Numbered(q, posted'),
           UNCHANGED <<sentCnt, fails, wire>>
    PROVE  OrderInv'
<1>1. /\ posted \in Nat /\ sentCnt \in Nat /\ fails \in Nat /\ wire \in Seq(Nat)
      /\ Len(wqueue) \in Nat /\ loop \in [Loops -> {"none", "writing", "check", "ended"}]
      /\ inflight \in [Loops -> Buffers \cup {None}]
  BY DEF TypeOK
<1>2. Writing = 0
  BY DEF Writing
<1>3. Len(q) \in Nat \ {0} /\ Head(q) = q[1]
  BY EmptySeq
<1>4. /\ Len(wqueue') = Len(q) - 1
      /\ \A i \in 1..Len(wqueue') : wqueue'[i] = q[i + 1]
  BY HeadTailProperties DEF StartWrite
<1>5. \A k \in Loops : loop'[k] = "writing" <=> k = l
  BY <1>1 DEF StartWrite
<1>6. Writing' = 1
  BY <1>5 DEF Writing
<1>7. inflight'[l] = q[1]
  BY <1>1, <1>3 DEF StartWrite
<1>8. posted' = sentCnt' + fails' + Writing' + Len(wqueue')
  <2>1. posted - Len(wqueue) = sentCnt + fails
    BY <1>1, <1>2 DEF OrderInv
  <2>2. posted' = sentCnt + fails + Len(q)
    BY SMTT(60), <1>1, <1>3, <2>1
  <2> QED BY <1>1, <1>3, <1>4, <1>6, <2>2
<1>9. Numbered(wqueue', posted')
  <2> SUFFICES ASSUME NEW i \in 1..Len(wqueue')
               PROVE  wqueue'[i].id = posted' - Len(wqueue') + i
    BY DEF Numbered
  <2>1. i \in Int /\ i + 1 \in 1..Len(q) /\ wqueue'[i] = q[i + 1]
    BY <1>3, <1>4
  <2>2. q[i + 1].id = posted' - Len(q) + (i + 1)
    BY <2>1 DEF Numbered
  <2> QED BY <1>3, <1>4, <2>1, <2>2
<1>10. \A i \in 1..Len(wire') : wire'[i] + Writing' <= posted' - Len(wqueue')
  BY SMTT(60), <1>1, <1>2, <1>3, <1>4, <1>6 DEF OrderInv
<1>11. \A k \in Loops : loop'[k] = "writing" => inflight'[k].id = posted' - Len(wqueue')
  BY <1>3, <1>4, <1>5, <1>7 DEF Numbered
<1> QED BY <1>8, <1>9, <1>10, <1>11 DEF OrderInv

\* A write that ended leaves no other in flight.
LEMMA EndWriteWriting ==
    ASSUME TypeOK, LoopInv, NEW l \in Loops, loop[l] = "writing",
           loop' = [loop EXCEPT ![l] = "check"]
    PROVE  Writing = 1 /\ Writing' = 0 /\ \A k \in Loops : loop'[k] # "writing"
<1>1. \A k \in Loops : loop[k] = "writing" => k = l
  BY DEF LoopInv, SoleLoop, Active
<1>2. \A k \in Loops : loop'[k] # "writing"
  BY <1>1 DEF TypeOK
<1> QED BY <1>2 DEF Writing

LEMMA PostOrderInv ==
    ASSUME TypeOK, TypeOK', LoopInv, OrderInv, NEW size \in Sizes, SendPosted(size),
           UNCHANGED past
    PROVE  OrderInv'
<1> DEFINE buf == [id |-> posted + 1, size |-> size, start |-> postedBytes]
           q == Append(wqueue, buf)
<1>1. /\ posted \in Nat /\ postedBytes \in Nat /\ wqueue \in Seq(Buffers)
      /\ sentCnt \in Nat /\ fails \in Nat /\ wire \in Seq(Nat) /\ Len(wqueue) \in Nat
      /\ posted' = posted + 1 /\ posted' \in Nat /\ UNCHANGED <<sentCnt, fails, wire>>
  BY DEF TypeOK, SendPosted, past
<1>2. PICK b \in Buffers : b = buf /\ b.id = posted + 1
  BY <1>1, BufferType
<1>3. /\ q \in Seq(Buffers) /\ Len(q) = Len(wqueue) + 1 /\ q # <<>>
      /\ q[Len(wqueue) + 1] = b /\ \A i \in 1..Len(wqueue) : q[i] = wqueue[i]
  BY <1>1, <1>2, AppendProperties
<1>4. Numbered(q, posted')
  <2> SUFFICES ASSUME NEW i \in 1..Len(q) PROVE q[i].id = posted' - Len(q) + i
    BY DEF Numbered
  <2>1. CASE i \in 1..Len(wqueue)
    BY <1>1, <1>3, <2>1 DEF OrderInv, Numbered
  <2>2. CASE i = Len(wqueue) + 1
    BY <1>1, <1>2, <1>3, <2>2
  <2> QED BY <1>1, <1>3, <2>1, <2>2
<1>5. CASE LoopRuns
  <2>1. wqueue' = q /\ UNCHANGED <<loop, inflight>>
    BY <1>5 DEF SendPosted
  <2>2. Writing' = Writing /\ Writing \in Nat
    BY <2>1 DEF Writing
  <2>3. Len(wqueue') = Len(wqueue) + 1 /\ Numbered(wqueue', posted')
    BY <1>3, <1>4, <2>1
  <2>4. posted' - Len(wqueue') = posted - Len(wqueue)
    BY <1>1, <2>3
  <2>5. posted' = sentCnt' + fails' + Writing' + Len(wqueue')
    BY <1>1, <2>2, <2>3 DEF OrderInv
  <2> QED BY <1>1, <2>1, <2>2, <2>3, <2>4, <2>5 DEF OrderInv
<1>6. CASE ~LoopRuns
  <2>1. PICK l \in Loops : StartWrite(l, q)
    BY <1>6 DEF SendPosted
  <2>2. \A k \in Loops : loop[k] # "writing"
    <3>1. Active = {}
      BY <1>6 DEF SendPosted, LoopInv, Guarded, LoopRuns
    <3> QED BY <3>1 DEF Active
  <2>3. posted' - Len(q) = posted - Len(wqueue)
    BY <1>1, <1>3
  <2> HIDE DEF q
  <2> QED BY <1>1, <1>3, <1>4, <2>1, <2>2, <2>3, StartWriteOrder
<1> QED BY <1>5, <1>6

LEMMA NextOrderInv == TypeOK /\ TypeOK' /\ LoopInv /\ OrderInv /\ [Next]_vars => OrderInv'
<1> SUFFICES ASSUME TypeOK, TypeOK', LoopInv, OrderInv, [Next]_vars PROVE OrderInv'
  OBVIOUS
<1>0. /\ posted \in Nat /\ sentCnt \in Nat /\ fails \in Nat /\ wire \in Seq(Nat)
      /\ Len(wqueue) \in Nat /\ wqueue \in Seq(Buffers)
      /\ loop \in [Loops -> {"none", "writing", "check", "ended"}]
      /\ inflight \in [Loops -> Buffers \cup {None}]
      /\ \A l \in Loops : loop[l] = "writing" <=> inflight[l] # None
  BY SMTT(60) DEF TypeOK
<1>1. CASE \/ Connect \/ TimerFires \/ Established \/ ConnectFails
           \/ Disconnect \/ Close \/ Closed \/ UNCHANGED vars
           \/ \E n \in QueueMaxSizes : SetQueueMaxSize(n)
  <2>1. UNCHANGED <<posted, sentCnt, fails, wqueue, wire, inflight, loop>>
    BY <1>1 DEF Connect, TimerFires, Established, ConnectFails, Disconnect, Close, Closed,
                SetQueueMaxSize, vars, sendq, count, past
  <2> QED BY <2>1, StutterOrderInv
<1>2. ASSUME NEW size \in Sizes, Send(size) PROVE OrderInv'
  <2>1. CASE SendDropped(size) \/ SendLetGo(size)
    BY <1>2, <2>1, StutterOrderInv DEF Send, SendDropped, SendLetGo, sendq, past
  <2>2. CASE SendPosted(size)
    BY <1>2, <2>2, PostOrderInv DEF Send
  <2> QED BY <1>2, <2>1, <2>2 DEF Send
<1>3. ASSUME NEW l \in Loops, WriteDone(l) PROVE OrderInv'
  <2>1. Writing = 1 /\ Writing' = 0 /\ \A k \in Loops : loop'[k] # "writing"
    BY <1>3, EndWriteWriting DEF WriteDone
  <2>2. UNCHANGED <<posted, fails, wqueue>> /\ sentCnt' = sentCnt + 1
    BY <1>3 DEF WriteDone, count
  <2>3. PICK id \in Nat : id = inflight[l].id /\ id = posted - Len(wqueue)
    <3>1. inflight[l] \in Buffers /\ inflight[l].id = posted - Len(wqueue)
      BY <1>0, <1>3 DEF WriteDone, OrderInv
    <3> QED BY <3>1 DEF Buffers
  <2>4. wire' = Append(wire, id)
    BY <1>3, <2>3 DEF WriteDone
  <2>5. /\ Len(wire') = Len(wire) + 1 /\ wire'[Len(wire) + 1] = id /\ Len(wire) \in Nat
        /\ \A i \in 1..Len(wire) : wire'[i] = wire[i] /\ wire[i] \in Nat
    BY <1>0, <2>4, AppendProperties
  <2>6. \A i \in 1..Len(wire) : wire[i] < id
    BY <1>0, <2>1, <2>3, <2>5 DEF OrderInv
  <2>7. \A i \in 1..Len(wire') : i \in 1..Len(wire) \/ i = Len(wire) + 1
    BY <2>5
  <2>8. \A i, j \in 1..Len(wire') : i < j => wire'[i] < wire'[j]
    BY <2>5, <2>6, <2>7 DEF OrderInv
  <2>9. \A i \in 1..Len(wire') : wire'[i] + Writing' <= posted' - Len(wqueue')
    <3> SUFFICES ASSUME NEW i \in 1..Len(wire') PROVE wire'[i] <= id
      BY <1>0, <2>1, <2>2, <2>3, <2>5, <2>7
    <3>1. CASE i \in 1..Len(wire)
      BY <2>3, <2>5, <2>6, <3>1
    <3>2. CASE i = Len(wire) + 1
      BY <2>3, <2>5, <3>2
    <3> QED BY <2>7, <3>1, <3>2
  <2>10. posted' = sentCnt' + fails' + Writing' + Len(wqueue')
    BY <1>0, <2>1, <2>2 DEF OrderInv
  <2> QED BY <2>1, <2>2, <2>8, <2>9, <2>10 DEF OrderInv
<1>4. ASSUME NEW l \in Loops, WriteFails(l) PROVE OrderInv'
  <2>1. Writing = 1 /\ Writing' = 0 /\ \A k \in Loops : loop'[k] # "writing"
    BY <1>4, EndWriteWriting DEF WriteFails
  <2>2. UNCHANGED <<posted, sentCnt, wqueue, wire>> /\ fails' = fails + 1
    BY <1>4 DEF WriteFails, count
  <2>3. \A i \in 1..Len(wire') : wire'[i] + Writing' <= posted' - Len(wqueue')
    <3>1. \A i \in 1..Len(wire) : wire[i] \in Nat
      BY <1>0
    <3> QED BY <1>0, <2>1, <2>2, <3>1 DEF OrderInv
  <2>4. posted' = sentCnt' + fails' + Writing' + Len(wqueue')
    BY <1>0, <2>1, <2>2 DEF OrderInv
  <2> QED BY <2>1, <2>2, <2>3, <2>4 DEF OrderInv
<1>5. ASSUME NEW l \in Loops, Check(l) PROVE OrderInv'
  <2>1. loop[l] = "check" /\ UNCHANGED <<posted, sentCnt, fails, wire>>
    BY <1>5 DEF Check, count, past
  <2>2. CASE Stops
    <3>1. UNCHANGED <<wqueue, inflight>> /\ loop' = [loop EXCEPT ![l] = "ended"]
      BY <1>5, <2>2 DEF Check
    <3>2. \A k \in Loops : loop'[k] = "writing" <=> loop[k] = "writing"
      BY <1>0, <2>1, <3>1
    <3> QED BY <2>1, <3>1, <3>2, StutterOrderInv
  <2>3. CASE ~Stops
    <3>1. wqueue # <<>> /\ StartWrite(l, wqueue)
      BY <1>5, <2>3 DEF Check, Stops
    <3>2. \A k \in Loops : loop[k] # "writing"
      BY <2>1 DEF LoopInv, SoleLoop, Active
    <3>3. posted' \in Nat /\ posted' - Len(wqueue) = posted - Len(wqueue)
          /\ Numbered(wqueue, posted')
      BY <1>0, <2>1 DEF OrderInv
    <3> QED BY <1>0, <2>1, <3>1, <3>2, <3>3, StartWriteOrder
  <2> QED BY <2>2, <2>3
<1>6. ASSUME NEW l \in Loops, Finally(l) PROVE OrderInv'
  <2>1. /\ UNCHANGED <<posted, sentCnt, fails, wqueue, wire, inflight>>
        /\ loop[l] = "ended" /\ loop' = [loop EXCEPT ![l] = "none"]
    BY <1>6 DEF Finally, count, past
  <2>2. \A k \in Loops : loop'[k] = "writing" <=> loop[k] = "writing"
    BY <1>0, <2>1
  <2> QED BY <2>1, <2>2, StutterOrderInv
<1> QED BY <1>1, <1>2, <1>3, <1>4, <1>5, <1>6 DEF Next

LEMMA OrderConserves == TypeOK /\ LoopInv /\ OrderInv => Conservation
<1> SUFFICES ASSUME TypeOK, LoopInv, OrderInv PROVE Conservation
  OBVIOUS
<1>1. Cardinality({l \in Loops : loop[l] = "writing"}) = Writing
  <2>1. CASE \E l \in Loops : loop[l] = "writing"
    <3>1. PICK l \in Loops : loop[l] = "writing"
      BY <2>1
    <3>2. {k \in Loops : loop[k] = "writing"} = {l}
      BY <3>1 DEF LoopInv, SoleLoop, Active
    <3> QED BY <2>1, <3>2, FS_Singleton DEF Writing
  <2>2. CASE ~ \E l \in Loops : loop[l] = "writing"
    <3>1. {k \in Loops : loop[k] = "writing"} = {}
      BY <2>2
    <3> QED BY <2>2, <3>1, FS_EmptySet DEF Writing
  <2> QED BY <2>1, <2>2
<1>2. ASSUME NEW l \in Active, NEW i \in 1..Len(wire), inflight[l] # None
      PROVE  wire[i] < inflight[l].id
  <2>1. l \in Loops /\ loop[l] = "writing"
    BY <1>2 DEF Active, TypeOK
  <2>2. Writing = 1 /\ inflight[l].id = posted - Len(wqueue)
    BY <2>1 DEF OrderInv, Writing
  <2>3. posted \in Nat /\ Len(wqueue) \in Nat /\ wire[i] \in Nat
        /\ wire[i] + 1 <= posted - Len(wqueue)
    BY <2>2 DEF OrderInv, TypeOK
  <2> QED BY <2>2, <2>3
<1> QED BY <1>1, <1>2 DEF OrderInv, Numbered, Conservation

\* Every buffer a patient client posted is sent, failed, in flight or queued, and
\* they leave in the order of posting, over failures and new connections
\* (SeastarIO.cc: send).
THEOREM ConservationCorrect == Spec => []Conservation
<1>1. Spec => [](patient => OrderInv)
  <2>1. Init => (patient => OrderInv)
    BY InitOrderInv
  <2>2. TypeOK /\ TypeOK' /\ (patient => LoopInv) /\ (patient => OrderInv) /\ [Next]_vars
          => (patient => OrderInv)'
    BY ClientStays, NextOrderInv
  <2> QED BY <2>1, <2>2, SpecLoopInv, PTL DEF Spec
<1>2. TypeOK /\ (patient => LoopInv) /\ (patient => OrderInv) => Conservation
  BY OrderConserves DEF Conservation
<1> QED BY <1>1, <1>2, SpecLoopInv, PTL
============================================================================
