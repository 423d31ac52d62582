--------------------------- MODULE IngesterProofs ---------------------------
(***************************************************************************)
(* Proofs, for every number of handlers, workers and messages, every       *)
(* buffer size and both storages, of the safety properties of Ingester and *)
(* of its refinement of EventLog.                                          *)
(***************************************************************************)
EXTENDS Ingester, SequenceTheorems, TLAPS

\* A worker calls Flush only with something to flush.
FlushInv == \A w \in Workers : pc[w] \in {"full", "tick"} => batch[w] # <<>>

TypeInv == TypeOK /\ FlushInv

-----------------------------------------------------------------------------
(* The storage *)

\* A Flush reports an error or not, writes rows of messages of its batch only,
\* and when it reports none, it has written every good one.
LEMMA OutcomesProperties ==
    ASSUME NEW msgs \in Seq(Messages), NEW b \in {"mongo", "clickhouse"},
           NEW o \in Outcomes(b, msgs)
    PROVE  /\ o.err \in BOOLEAN
           /\ o.rows \subseteq MessageIds(msgs)
           /\ ~o.err => \A m \in WithoutRow(msgs, o.rows) : m.kind # "good"
<1>1. /\ Len(msgs) \in Nat
      /\ \A n \in 0..Len(msgs) : Rows(msgs, n) \subseteq MessageIds(msgs)
  BY DEF Rows, MessageIds
<1>2. AllRows(msgs) \subseteq MessageIds(msgs)
  BY <1>1 DEF AllRows
<1>3. \A m \in WithoutRow(msgs, AllRows(msgs)) : m.kind # "good"
  BY DEF WithoutRow, AllRows, Rows
<1>4. \/ o.err = TRUE /\ o.rows = {}
      \/ o.err = FALSE /\ o.rows = AllRows(msgs)
      \/ o.err = TRUE /\ \E n \in 0..Len(msgs) : o.rows = Rows(msgs, n)
  <2>1. CASE b = "mongo"
    <3>1. \/ o = Outcome(TRUE, {})
          \/ AllRows(msgs) = {} /\ o = Outcome(FALSE, {})
          \/ o = Outcome(FALSE, AllRows(msgs))
          \/ \E n \in 0..Len(msgs) : o = Outcome(TRUE, Rows(msgs, n))
      BY <2>1 DEF Outcomes, MongoOutcomes
    <3>2. ASSUME NEW n \in 0..Len(msgs), o = Outcome(TRUE, Rows(msgs, n))
          PROVE  o.err = TRUE /\ o.rows = Rows(msgs, n)
      BY <3>2 DEF Outcome
    <3>3. ASSUME NEW R, NEW e, o = Outcome(e, R) PROVE o.err = e /\ o.rows = R
      BY <3>3 DEF Outcome
    <3> QED BY <3>1, <3>2, <3>3
  <2>2. CASE b = "clickhouse"
    <3>1. \/ o = Outcome(TRUE, {})
          \/ o = Outcome(TRUE, AllRows(msgs))
          \/ o = Outcome(FALSE, AllRows(msgs))
      BY <2>2 DEF Outcomes, ClickHouseOutcomes
    <3>2. Len(msgs) \in 0..Len(msgs) /\ AllRows(msgs) = Rows(msgs, Len(msgs))
      BY <1>1 DEF AllRows
    <3> QED BY <3>1, <3>2 DEF Outcome
  <2> QED BY <2>1, <2>2
<1>5. CASE o.err = TRUE /\ o.rows = {}
  BY <1>5
<1>6. CASE o.err = FALSE /\ o.rows = AllRows(msgs)
  BY <1>2, <1>3, <1>6
<1>7. CASE o.err = TRUE /\ \E n \in 0..Len(msgs) : o.rows = Rows(msgs, n)
  BY <1>1, <1>7
<1> QED BY <1>4, <1>5, <1>6, <1>7

\* What a returning Flush does to the worker's variables.
FlushStep(w, o) ==
    /\ rows' = [id \in Ids |-> IF id \in o.rows THEN rows[id] + 1 ELSE rows[id]]
    /\ IF o.err
       THEN lost' = lost \cup MessageIds(batch[w]) /\ ignored' = ignored
       ELSE lost' = lost /\ ignored' = ignored \cup WithoutRow(batch[w], o.rows)
    /\ pc' = [pc EXCEPT ![w] = AfterFlush(w, o.err)]
    /\ newest' = [newest EXCEPT ![w] = batch[w][Len(batch[w])].id]

LEMMA FlushReturnsStep ==
    ASSUME TypeOK, NEW w \in Workers, FlushReturns(w)
    PROVE  \E o \in Outcomes(backend, batch[w]) :
              /\ FlushStep(w, o)
              /\ o.err \in BOOLEAN
              /\ o.rows \subseteq MessageIds(batch[w])
              /\ ~o.err => \A m \in WithoutRow(batch[w], o.rows) : m.kind # "good"
<1>1. PICK o \in Outcomes(backend, batch[w]) : FlushStep(w, o)
  BY DEF FlushReturns, FlushStep
<1>2. batch[w] \in Seq(Messages) /\ backend \in {"mongo", "clickhouse"}
  BY IngesterAssumption DEF TypeOK
<1> QED BY <1>1, <1>2, OutcomesProperties

LEMMA ChannelFullDef == TypeOK => (ChannelFull <=> ~(Len(channel) < BufferSize))
<1> SUFFICES ASSUME TypeOK PROVE ChannelFull <=> ~(Len(channel) < BufferSize)
  OBVIOUS
<1>1. Len(channel) \in Nat
  BY LenProperties DEF TypeOK
<1> QED BY <1>1, IngesterAssumption DEF ChannelFull

-----------------------------------------------------------------------------
(* Type correctness *)

LEMMA InitTypeInv == Init => TypeInv
<1> SUFFICES ASSUME Init PROVE TypeInv
  OBVIOUS
<1>1. channel \in Seq(Messages) /\ sendq \in Seq(Messages)
      /\ batch \in [Workers -> Seq(Messages)] /\ Len(channel) = 0
  BY EmptySeq DEF Init
<1>2. rows \in [Ids -> Nat] /\ newest \in [Workers -> 0..MaxMsgs]
  BY IngesterAssumption DEF Init, Ids
<1>3. \A w \in Workers : Len(batch[w]) < BufferSize
  BY IngesterAssumption DEF Init
<1> QED BY <1>1, <1>2, <1>3, IngesterAssumption DEF Init, TypeInv, TypeOK, FlushInv

LEMMA EnqueueTypeInv ==
    ASSUME TypeInv, NEW h \in Handlers, NEW kind \in InKinds, Enqueue(h, kind)
    PROVE  TypeInv'
<1> USE DEF TypeInv, TypeOK
<1>1. PICK msg : /\ msg = [id |-> posted + 1, from |-> h, kind |-> kind]
                 /\ IF Len(channel) < BufferSize
                    THEN channel' = Append(channel, msg) /\ sendq' = sendq
                    ELSE channel' = channel /\ sendq' = Append(sendq, msg)
  BY ChannelFullDef DEF Enqueue
<1>2. posted' \in 0..MaxMsgs /\ posted + 1 \in Ids
  BY IngesterAssumption DEF Enqueue, Ids
<1>3. msg \in Messages
  BY <1>1, <1>2 DEF Messages
<1>4. /\ channel' \in Seq(Messages) /\ Len(channel') <= BufferSize
      /\ sendq' \in Seq(Messages)
  <2>1. CASE Len(channel) < BufferSize
    <3>1. channel' = Append(channel, msg) /\ sendq' = sendq
      BY <1>1, <2>1
    <3>2. channel' \in Seq(Messages) /\ Len(channel') = Len(channel) + 1
      BY <1>3, <3>1, AppendProperties
    <3>3. Len(channel) \in Nat
      BY LenProperties
    <3> QED BY <2>1, <3>1, <3>2, <3>3, IngesterAssumption
  <2>2. CASE ~(Len(channel) < BufferSize)
    <3>1. channel' = channel /\ sendq' = Append(sendq, msg)
      BY <1>1, <2>2
    <3> QED BY <1>3, <3>1, AppendProperties
  <2> QED BY <2>1, <2>2
<1> QED BY <1>2, <1>4 DEF Enqueue, FlushInv

LEMMA ReceiveTypeInv ==
    ASSUME TypeInv, NEW w \in Workers, Receive(w) PROVE TypeInv'
<1> USE DEF TypeInv, TypeOK
<1>1. PICK msgs : /\ msgs = Append(batch[w], Head(channel))
                  /\ batch' = [batch EXCEPT ![w] = msgs]
                  /\ pc' = [pc EXCEPT ![w] = IF BatchFull(msgs) THEN "full" ELSE "select"]
  BY DEF Receive
<1>2. channel # <<>> /\ pc[w] = "select"
  BY DEF Receive
<1>3. /\ Head(channel) \in Messages
      /\ Tail(channel) \in Seq(Messages) /\ Len(Tail(channel)) = Len(channel) - 1
  BY <1>2, HeadTailProperties
<1>0. Len(channel) \in Nat
  BY LenProperties
<1>4. /\ msgs \in Seq(Messages) /\ msgs # <<>>
      /\ Len(msgs) = Len(batch[w]) + 1 /\ Len(batch[w]) < BufferSize
  BY <1>1, <1>2, <1>3, AppendProperties
<1>5. /\ channel' \in Seq(Messages) /\ Len(channel') <= BufferSize
      /\ sendq' \in Seq(Messages)
  <2>1. CASE sendq = <<>>
    <3>1. channel' = Tail(channel) /\ sendq' = sendq
      BY <2>1 DEF Receive
    <3> QED BY <1>0, <1>3, <3>1, IngesterAssumption
  <2>2. CASE sendq # <<>>
    <3>1. Head(sendq) \in Messages /\ Tail(sendq) \in Seq(Messages)
      BY <2>2, HeadTailProperties
    <3>2. channel' = Append(Tail(channel), Head(sendq)) /\ sendq' = Tail(sendq)
      BY <2>2 DEF Receive
    <3>3. channel' \in Seq(Messages) /\ Len(channel') = Len(Tail(channel)) + 1
      BY <1>3, <3>1, <3>2, AppendProperties
    <3> QED BY <1>0, <1>3, <3>1, <3>2, <3>3, IngesterAssumption
  <2> QED BY <2>1, <2>2
<1>6. /\ batch' \in [Workers -> Seq(Messages)]
      /\ pc' \in [Workers -> {"select", "full", "tick", "dead"}]
  BY <1>1, <1>4
<1>7. Len(msgs) \in Nat /\ (Len(msgs) < BufferSize \/ (Len(msgs) = BufferSize /\ BatchFull(msgs)))
  BY <1>4, IngesterAssumption, LenProperties DEF BatchFull
<1>8. \A v \in Workers :
        \/ Len(batch'[v]) < BufferSize
        \/ Len(batch'[v]) = BufferSize /\ pc'[v] = "full"
  BY <1>1, <1>7
<1>9. FlushInv'
  BY <1>1, <1>4 DEF FlushInv
<1> QED BY <1>5, <1>6, <1>8, <1>9 DEF Receive

LEMMA TickTypeInv ==
    ASSUME TypeInv, NEW w \in Workers, Tick(w) PROVE TypeInv'
<1> USE DEF TypeInv, TypeOK
<1>1. batch[w] # <<>> /\ pc[w] = "select" /\ pc' = [pc EXCEPT ![w] = "tick"]
  BY DEF Tick, TickFlushes
<1> QED BY <1>1 DEF Tick, FlushInv

LEMMA FlushReturnsTypeInv ==
    ASSUME TypeInv, NEW w \in Workers, FlushReturns(w) PROVE TypeInv'
<1> USE DEF TypeInv, TypeOK
<1>1. PICK o \in Outcomes(backend, batch[w]) :
          FlushStep(w, o) /\ o.rows \subseteq MessageIds(batch[w])
  BY FlushReturnsStep
<1>2. batch[w] \in Seq(Messages) /\ batch[w] # <<>> /\ Len(batch[w]) \in 1..Len(batch[w])
  BY EmptySeq DEF FlushReturns, FlushInv
<1>3. MessageIds(batch[w]) \subseteq Ids /\ batch[w][Len(batch[w])].id \in Ids
  <2>1. \A i \in 1..Len(batch[w]) : batch[w][i] \in Messages
    BY <1>2, ElementOfSeq
  <2> QED BY <1>2, <2>1 DEF MessageIds, Messages
<1>4. rows' \in [Ids -> Nat] /\ newest' \in [Workers -> 0..MaxMsgs]
  BY <1>1, <1>3 DEF FlushStep, Ids
<1>5. lost' \subseteq Ids /\ ignored' \subseteq Messages
  BY <1>1, <1>2, <1>3 DEF FlushStep, WithoutRow
<1>6. /\ pc' \in [Workers -> {"select", "full", "tick", "dead"}]
      /\ \A v \in Workers \ {w} : pc'[v] = pc[v]
      /\ pc'[w] \in {"select", "dead"}
  BY <1>1 DEF FlushStep, AfterFlush
<1>7. batch' = [batch EXCEPT ![w] = <<>>]
  BY DEF FlushReturns, ResetBatch
<1>8. batch' \in [Workers -> Seq(Messages)] /\ Len(batch'[w]) = 0
  BY <1>7, EmptySeq
<1>9. \A v \in Workers :
        \/ Len(batch'[v]) < BufferSize
        \/ Len(batch'[v]) = BufferSize /\ pc'[v] = "full"
  BY <1>6, <1>7, <1>8, IngesterAssumption
<1>10. FlushInv'
  <2>1. \A v \in Workers \ {w} : batch'[v] = batch[v]
    BY <1>7
  <2>2. ASSUME NEW v \in Workers, pc'[v] \in {"full", "tick"} PROVE batch'[v] # <<>>
    <3>1. v \in Workers \ {w}
      BY <1>6, <2>2
    <3> QED BY <1>6, <2>1, <2>2, <3>1 DEF FlushInv
  <2> QED BY <2>2 DEF FlushInv
<1>11. UNCHANGED <<backend, posted, channel, sendq>>
  BY DEF FlushReturns
<1> QED BY <1>4, <1>5, <1>6, <1>8, <1>9, <1>10, <1>11

LEMMA NextTypeInv == TypeInv /\ [Next]_vars => TypeInv'
<1> SUFFICES ASSUME TypeInv, [Next]_vars PROVE TypeInv'
  OBVIOUS
<1>1. CASE UNCHANGED vars
  BY <1>1 DEF TypeInv, TypeOK, FlushInv, vars
<1> QED
  BY <1>1, EnqueueTypeInv, ReceiveTypeInv, TickTypeInv, FlushReturnsTypeInv DEF Next

\* Every variable stays in its type, the channel and the batches within
\* workersBufferSize (ingester.go: the channel's capacity, the test of Receive).
THEOREM TypeCorrect == Spec => []TypeOK
<1>1. Spec => []TypeInv
  BY InitTypeInv, NextTypeInv, PTL DEF Spec
<1> QED BY <1>1, PTL DEF TypeInv

-----------------------------------------------------------------------------
(* The queue in front of the workers *)

QueueInv == QueueInOrder /\ Received \in Nat

LEMMA InitQueueInv == Init => QueueInv
<1> SUFFICES ASSUME Init PROVE QueueInv
  OBVIOUS
<1>1. posted = 0 /\ Len(channel) = 0 /\ Len(sendq) = 0 /\ sendq = <<>>
  BY DEF Init
<1> QED BY <1>1 DEF QueueInv, QueueInOrder, Received

LEMMA EnqueueQueueInv ==
    ASSUME TypeInv, QueueInv, NEW h \in Handlers, NEW kind \in InKinds, Enqueue(h, kind)
    PROVE  QueueInv' /\ Received' = Received
<1> USE DEF TypeInv, TypeOK
<1>1. PICK msg : /\ msg = [id |-> posted + 1, from |-> h, kind |-> kind]
                 /\ IF Len(channel) < BufferSize
                    THEN channel' = Append(channel, msg) /\ sendq' = sendq
                    ELSE channel' = channel /\ sendq' = Append(sendq, msg)
  BY ChannelFullDef DEF Enqueue
<1>2. posted' = posted + 1 /\ posted \in Nat /\ Len(channel) \in Nat /\ Len(sendq) \in Nat
  BY LenProperties DEF Enqueue
<1>3. msg.id = posted + 1
  BY <1>1
<1>4. posted + 1 \in Ids
  BY IngesterAssumption DEF Enqueue, Ids
<1>5. msg \in Messages
  BY <1>1, <1>4 DEF Messages
<1>6. /\ \A i \in 1..Len(channel) : channel[i].id = Received + i
      /\ \A i \in 1..Len(sendq) : sendq[i].id = Received + Len(channel) + i
      /\ Received = posted - Len(channel) - Len(sendq) /\ Received \in Nat
  BY DEF QueueInv, QueueInOrder, Received
<1>7. CASE Len(channel) < BufferSize
  <2>1. channel' = Append(channel, msg) /\ sendq' = sendq
    BY <1>1, <1>7
  <2>2. /\ Len(channel') = Len(channel) + 1
        /\ \A i \in 1..Len(channel) : channel'[i] = channel[i]
        /\ channel'[Len(channel) + 1] = msg
    BY <1>5, <2>1, AppendProperties
  <2>3. Received' = Received
    BY <1>2, <1>6, <2>1, <2>2 DEF Received
  <2>4. Len(sendq) = 0
    BY <1>7, EmptySeq DEF QueueInv, QueueInOrder
  <2>5. sendq' = <<>>
    BY <2>1, <2>4, EmptySeq
  <2>6. \A i \in 1..Len(channel') : channel'[i].id = Received' + i
    <3>1. posted + 1 = Received + Len(channel) + 1
      BY <1>2, <1>6, <2>4
    <3>2. channel'[Len(channel) + 1].id = Received + (Len(channel) + 1)
      BY <1>2, <1>3, <1>6, <2>2, <3>1
    <3>3. ASSUME NEW i \in 1..Len(channel') PROVE channel'[i].id = Received + i
      <4>1. i \in 1..Len(channel) \/ i = Len(channel) + 1
        BY <1>2, <2>2
      <4> QED BY <1>6, <2>2, <3>2, <4>1
    <3> QED BY <2>3, <3>3
  <2> QED BY <1>6, <2>3, <2>5, <2>6 DEF QueueInv, QueueInOrder
<1>8. CASE ~(Len(channel) < BufferSize)
  <2>1. channel' = channel /\ sendq' = Append(sendq, msg)
    BY <1>1, <1>8
  <2>2. /\ Len(sendq') = Len(sendq) + 1
        /\ \A i \in 1..Len(sendq) : sendq'[i] = sendq[i]
        /\ sendq'[Len(sendq) + 1] = msg
    BY <1>5, <2>1, AppendProperties
  <2>3. Received' = Received
    BY <1>2, <1>6, <2>1, <2>2 DEF Received
  <2>4. \A i \in 1..Len(sendq') : sendq'[i].id = Received' + Len(channel') + i
    BY <1>2, <1>3, <1>6, <2>1, <2>2, <2>3
  <2>5. Len(channel') = BufferSize
    BY <1>2, <1>8, <2>1, IngesterAssumption
  <2> QED BY <1>6, <2>1, <2>3, <2>4, <2>5 DEF QueueInv, QueueInOrder
<1> QED BY <1>7, <1>8

\* A worker receives the oldest message that waits.
LEMMA ReceiveQueueInv ==
    ASSUME TypeInv, QueueInv, NEW w \in Workers, Receive(w)
    PROVE  /\ QueueInv'
           /\ Received' = Received + 1
           /\ Head(channel).id = Received + 1
<1> USE DEF TypeInv, TypeOK
<1>1. /\ channel # <<>> /\ posted' = posted /\ posted \in Nat
      /\ Len(channel) \in Nat \ {0} /\ Len(sendq) \in Nat
  BY LenProperties, EmptySeq DEF Receive
<1>2. /\ \A i \in 1..Len(channel) : channel[i].id = Received + i
      /\ \A i \in 1..Len(sendq) : sendq[i].id = Received + Len(channel) + i
      /\ Received = posted - Len(channel) - Len(sendq) /\ Received \in Nat
      /\ sendq # <<>> => Len(channel) = BufferSize
  BY DEF QueueInv, QueueInOrder, Received
<1>3. /\ Head(channel) = channel[1] /\ Tail(channel) \in Seq(Messages)
      /\ Len(Tail(channel)) = Len(channel) - 1
      /\ \A i \in 1..Len(Tail(channel)) : Tail(channel)[i] = channel[i + 1]
  BY <1>1, HeadTailProperties
<1>4. Head(channel).id = Received + 1
  BY <1>1, <1>2, <1>3
<1>5. CASE sendq = <<>>
  <2>1. channel' = Tail(channel) /\ sendq' = <<>> /\ Len(sendq') = 0
    BY <1>5 DEF Receive
  <2>2. Received' = Received + 1
    BY <1>1, <1>2, <1>3, <1>5, <2>1 DEF Received
  <2>3. \A i \in 1..Len(channel') : channel'[i].id = Received' + i
    <3>1. ASSUME NEW i \in 1..Len(channel') PROVE channel'[i].id = Received' + i
      <4>1. i \in 1..Len(Tail(channel)) /\ i \in Nat /\ i + 1 \in 1..Len(channel)
        BY <1>1, <1>3, <2>1
      <4>2. channel'[i].id = Received + (i + 1)
        BY <1>2, <1>3, <2>1, <4>1
      <4> QED BY <1>2, <2>2, <4>1, <4>2
    <3> QED BY <3>1
  <2> QED BY <1>2, <1>4, <2>1, <2>2, <2>3 DEF QueueInv, QueueInOrder
<1>6. CASE sendq # <<>>
  <2>1. channel' = Append(Tail(channel), Head(sendq)) /\ sendq' = Tail(sendq)
    BY <1>6 DEF Receive
  <2>2. /\ Head(sendq) = sendq[1] /\ Head(sendq) \in Messages
        /\ Len(sendq) >= 1 /\ Len(Tail(sendq)) = Len(sendq) - 1
        /\ \A i \in 1..Len(Tail(sendq)) : Tail(sendq)[i] = sendq[i + 1]
    BY <1>1, <1>6, HeadTailProperties, EmptySeq
  <2>3. /\ Len(channel') = Len(channel)
        /\ \A i \in 1..(Len(channel) - 1) : channel'[i] = channel[i + 1]
        /\ channel'[Len(channel)] = sendq[1]
    <3>1. /\ Len(channel') = Len(Tail(channel)) + 1
          /\ \A i \in 1..Len(Tail(channel)) : channel'[i] = Tail(channel)[i]
          /\ channel'[Len(Tail(channel)) + 1] = Head(sendq)
      BY <1>3, <2>1, <2>2, AppendProperties
    <3> QED BY <1>1, <1>3, <2>2, <3>1
  <2>4. Received' = Received + 1
    <3>1. Received' = posted - Len(channel) - (Len(sendq) - 1)
      BY <1>1, <2>1, <2>2, <2>3 DEF Received
    <3> QED BY <1>1, <1>2, <3>1
  <2>5. \A i \in 1..Len(channel') : channel'[i].id = Received' + i
    <3>1. sendq[1].id = Received + Len(channel) + 1
      BY <1>1, <1>2, <2>2
    <3>2. ASSUME NEW i \in 1..Len(channel') PROVE channel'[i].id = Received' + i
      <4>1. CASE i = Len(channel)
        BY <1>1, <1>2, <2>3, <2>4, <3>1, <4>1
      <4>2. CASE i # Len(channel)
        <5>1. i \in 1..(Len(channel) - 1) /\ i \in Nat /\ i + 1 \in 1..Len(channel)
          BY <1>1, <2>3, <4>2
        <5>2. channel'[i].id = Received + (i + 1)
          BY <1>2, <2>3, <5>1
        <5> QED BY <1>2, <2>4, <5>1, <5>2
      <4> QED BY <4>1, <4>2
    <3> QED BY <3>2
  <2>6. \A i \in 1..Len(sendq') : sendq'[i].id = Received' + Len(channel') + i
    BY <1>1, <1>2, <2>1, <2>2, <2>3, <2>4
  <2>7. Len(channel') = BufferSize
    BY <1>2, <1>6, <2>3
  <2> QED BY <1>2, <1>4, <2>4, <2>5, <2>6, <2>7 DEF QueueInv, QueueInOrder
<1> QED BY <1>5, <1>6

LEMMA NextQueueInv == TypeInv /\ QueueInv /\ [Next]_vars => QueueInv'
<1> SUFFICES ASSUME TypeInv, QueueInv, [Next]_vars PROVE QueueInv'
  OBVIOUS
<1>1. CASE UNCHANGED <<posted, channel, sendq>>
  BY <1>1 DEF QueueInv, QueueInOrder, Received
<1>2. CASE UNCHANGED vars
  BY <1>1, <1>2 DEF vars
<1>3. ASSUME NEW w \in Workers, Tick(w) \/ FlushReturns(w) PROVE QueueInv'
  BY <1>1, <1>3 DEF Tick, FlushReturns
<1> QED BY <1>2, <1>3, EnqueueQueueInv, ReceiveQueueInv DEF Next

\* Messages leave the queue in the order of the calls of Enqueue, and a handler
\* blocks only while the channel is full (ingester.go: Enqueue, workerMain).
THEOREM QueueInOrderCorrect == Spec => []QueueInOrder
<1>1. Spec => []TypeInv
  BY InitTypeInv, NextTypeInv, PTL DEF Spec
<1>2. Spec => []QueueInv
  BY <1>1, InitQueueInv, NextQueueInv, PTL DEF Spec
<1> QED BY <1>2, PTL DEF QueueInv

-----------------------------------------------------------------------------
(* The fate of the messages *)

NewestInv == \A w \in Workers : newest[w] <= Received
RowsInv   == \A id \in Ids : rows[id] <= 1

AccountInv == Accounted /\ WorkerInOrder /\ NoSilentLoss /\ NewestInv /\ RowsInv

LEMMA InitAccountInv == Init => AccountInv
<1> SUFFICES ASSUME Init PROVE AccountInv
  OBVIOUS
<1>1. Received = 0
  <2>1. posted = 0 /\ Len(channel) = 0 /\ Len(sendq) = 0
    BY DEF Init
  <2> QED BY <2>1 DEF Received
<1>2. \A w \in Workers : Len(batch[w]) = 0 /\ newest[w] = 0 /\ MessageIds(batch[w]) = {}
  BY DEF Init, MessageIds
<1>3. Settled = {} /\ ignored = {}
  BY DEF Init, Settled
<1>4. InBatch = {}
  BY <1>2 DEF InBatch
<1>5. Accounted
  BY <1>1, <1>2, <1>3, <1>4 DEF Accounted
<1>6. RowsInv
  BY DEF Init, RowsInv
<1> QED BY <1>1, <1>2, <1>3, <1>5, <1>6
        DEF AccountInv, WorkerInOrder, NoSilentLoss, NewestInv

\* Steps that leave the workers' batches and the fates alone.
LEMMA StutterAccountInv ==
    ASSUME AccountInv, UNCHANGED <<batch, rows, lost, ignored, newest>>,
           Received' = Received
    PROVE  AccountInv' /\ Settled' = Settled
<1>1. Settled' = Settled /\ InBatch' = InBatch
  BY DEF Settled, InBatch
<1>2. Accounted'
  BY <1>1 DEF AccountInv, Accounted
<1> QED BY <1>1, <1>2
        DEF AccountInv, WorkerInOrder, NoSilentLoss, NewestInv, RowsInv

\* The messages a worker holds have been received.
LEMMA BatchReceived ==
    ASSUME AccountInv, NEW w \in Workers
    PROVE  MessageIds(batch[w]) \subseteq 1..Received
BY DEF AccountInv, Accounted, InBatch

LEMMA ReceiveAccountInv ==
    ASSUME TypeInv, QueueInv, AccountInv, NEW w \in Workers, Receive(w)
    PROVE  AccountInv' /\ Settled' = Settled
<1>1. /\ Received \in Nat /\ Received' = Received + 1
      /\ Head(channel).id = Received + 1
  BY ReceiveQueueInv DEF QueueInv
<1>2. /\ batch[w] \in Seq(Messages) /\ Head(channel) \in Messages
      /\ Len(batch[w]) \in Nat
      /\ \A v \in Workers : newest[v] \in Nat
  BY HeadTailProperties, LenProperties, IngesterAssumption
     DEF Receive, TypeInv, TypeOK
<1>3. /\ batch'[w] = Append(batch[w], Head(channel))
      /\ \A v \in Workers \ {w} : batch'[v] = batch[v]
      /\ UNCHANGED <<rows, lost, ignored, newest>>
  BY DEF Receive, TypeInv, TypeOK
<1>4. /\ Len(batch'[w]) = Len(batch[w]) + 1
      /\ \A i \in 1..Len(batch[w]) : batch'[w][i] = batch[w][i]
      /\ batch'[w][Len(batch[w]) + 1] = Head(channel)
  BY <1>2, <1>3, AppendProperties
<1>5. MessageIds(batch'[w]) = MessageIds(batch[w]) \cup {Received + 1}
  <2>1. 1..Len(batch'[w]) = 1..Len(batch[w]) \cup {Len(batch[w]) + 1}
    BY <1>2, <1>4
  <2> QED BY <1>1, <1>4, <2>1 DEF MessageIds
<1>6. \A v \in Workers : MessageIds(batch[v]) \subseteq 1..Received
  BY BatchReceived
<1>7. Settled' = Settled
  BY <1>3 DEF Settled
<1>8. InBatch' = InBatch \cup {Received + 1}
  BY <1>3, <1>5 DEF InBatch
<1>9. Settled \subseteq 1..Received
  BY DEF AccountInv, Accounted
<1>10. Accounted'
  <2>1. InBatch' \cup Settled' = 1..Received'
    BY <1>1, <1>7, <1>8 DEF AccountInv, Accounted
  <2>2. InBatch' \cap Settled' = {}
    BY <1>1, <1>7, <1>8, <1>9 DEF AccountInv, Accounted
  <2>3. \A u, v \in Workers :
          u # v => MessageIds(batch'[u]) \cap MessageIds(batch'[v]) = {}
    <3>1. \A v \in Workers : Received + 1 \notin MessageIds(batch[v])
      BY <1>1, <1>6
    <3>2. \A u, v \in Workers :
            u # v => MessageIds(batch[u]) \cap MessageIds(batch[v]) = {}
      BY DEF AccountInv, Accounted
    <3>3. \A v \in Workers \ {w} : MessageIds(batch'[v]) = MessageIds(batch[v])
      BY <1>3
    <3> QED BY <1>5, <3>1, <3>2, <3>3
  <2> QED BY <2>1, <2>2, <2>3 DEF Accounted
<1>11. WorkerInOrder'
  <2>1. ASSUME NEW v \in Workers, NEW i \in 1..Len(batch'[v])
        PROVE  /\ batch'[v][i].id > newest[v]
               /\ \A j \in 1..(i - 1) : batch'[v][j].id < batch'[v][i].id
    <3>1. CASE v # w
      BY <1>3, <2>1, <3>1 DEF AccountInv, WorkerInOrder
    <3>2. CASE v = w /\ i \in 1..Len(batch[w])
      <4>1. \A j \in 1..(i - 1) : j \in 1..Len(batch[w])
        BY <1>2, <3>2
      <4>2. /\ batch[w][i].id > newest[w]
            /\ \A j \in 1..(i - 1) : batch[w][j].id < batch[w][i].id
        BY <3>2 DEF AccountInv, WorkerInOrder
      <4> QED BY <1>4, <3>2, <4>1, <4>2
    <3>3. CASE v = w /\ i = Len(batch[w]) + 1
      <4>1. batch'[w][i].id = Received + 1
        BY <1>1, <1>4, <3>3
      <4>2. newest[w] < Received + 1
        BY <1>1, <1>2 DEF AccountInv, NewestInv
      <4>3. ASSUME NEW j \in 1..(i - 1) PROVE batch'[w][j].id < Received + 1
        <5>1. j \in 1..Len(batch[w]) /\ batch'[w][j] = batch[w][j]
          BY <1>2, <1>4, <3>3
        <5>2. batch[w][j].id \in 1..Received
          BY <1>6, <5>1 DEF MessageIds
        <5> QED BY <1>1, <5>1, <5>2
      <4> QED BY <1>1, <1>2, <3>3, <4>1, <4>2, <4>3
    <3> QED BY <1>2, <1>4, <3>1, <3>2, <3>3
  <2> QED BY <1>3, <2>1 DEF WorkerInOrder
<1>12. NewestInv'
  BY <1>1, <1>2, <1>3 DEF AccountInv, NewestInv
<1>13. NoSilentLoss' /\ RowsInv'
  BY <1>3 DEF AccountInv, NoSilentLoss, RowsInv
<1> QED BY <1>7, <1>10, <1>11, <1>12, <1>13 DEF AccountInv

\* A Flush that returns settles the messages of its batch, none of which had
\* been settled before, and gives rows to some of them.
LEMMA FlushReturnsAccountInv ==
    ASSUME TypeInv, QueueInv, AccountInv, NEW w \in Workers, FlushReturns(w)
    PROVE  /\ AccountInv'
           /\ \E R \in SUBSET MessageIds(batch[w]) :
                /\ MessageIds(batch[w]) \subseteq 1..Received \ Settled
                /\ Settled' = Settled \cup MessageIds(batch[w])
                /\ rows' = [id \in Ids |-> IF id \in R THEN 1 ELSE rows[id]]
<1>1. PICK o \in Outcomes(backend, batch[w]) :
              /\ FlushStep(w, o)
              /\ o.err \in BOOLEAN
              /\ o.rows \subseteq MessageIds(batch[w])
              /\ ~o.err => \A m \in WithoutRow(batch[w], o.rows) : m.kind # "good"
  BY FlushReturnsStep DEF TypeInv
<1>2. /\ Received \in Nat /\ Received' = Received
      /\ batch' = [batch EXCEPT ![w] = <<>>]
      /\ batch \in [Workers -> Seq(Messages)]
  BY DEF QueueInv, FlushReturns, ResetBatch, Received, TypeInv, TypeOK
<1>3. /\ MessageIds(batch'[w]) = {} /\ Len(batch'[w]) = 0
      /\ \A v \in Workers \ {w} : batch'[v] = batch[v]
  BY <1>2 DEF MessageIds
<1>4. MessageIds(batch[w]) \subseteq 1..Received
  BY BatchReceived
<1>5. MessageIds(batch[w]) \cap Settled = {}
  BY DEF AccountInv, Accounted, InBatch
<1>6. MessageIds(batch[w]) \subseteq Ids
  <2>1. \A i \in 1..Len(batch[w]) : batch[w][i] \in Messages
    BY <1>2, ElementOfSeq
  <2> QED BY <2>1 DEF MessageIds, Messages
<1>7. \A id \in o.rows : id \in Ids /\ rows[id] = 0
  BY <1>1, <1>5, <1>6 DEF Settled, TypeInv, TypeOK
<1>8. rows' = [id \in Ids |-> IF id \in o.rows THEN 1 ELSE rows[id]]
  <2>1. rows' = [id \in Ids |-> IF id \in o.rows THEN rows[id] + 1 ELSE rows[id]]
    BY <1>1 DEF FlushStep
  <2>2. \A id \in Ids : id \in o.rows => rows[id] + 1 = 1
    BY <1>7
  <2> QED BY <2>1, <2>2
<1>9. {id \in Ids : rows'[id] > 0} = {id \in Ids : rows[id] > 0} \cup o.rows
  BY <1>7, <1>8 DEF TypeInv, TypeOK
<1>10. Settled' = Settled \cup MessageIds(batch[w])
  <2>1. CASE o.err
    <3>1. lost' = lost \cup MessageIds(batch[w]) /\ ignored' = ignored
      BY <1>1, <2>1 DEF FlushStep
    <3> QED BY <1>1, <1>9, <3>1 DEF Settled
  <2>2. CASE ~o.err
    <3>1. lost' = lost /\ ignored' = ignored \cup WithoutRow(batch[w], o.rows)
      BY <1>1, <2>2 DEF FlushStep
    <3>2. {m.id : m \in WithoutRow(batch[w], o.rows)} = MessageIds(batch[w]) \ o.rows
      BY DEF WithoutRow, MessageIds
    <3>3. {m.id : m \in ignored'} =
              {m.id : m \in ignored} \cup (MessageIds(batch[w]) \ o.rows)
      BY <3>1, <3>2
    <3> QED BY <1>1, <1>9, <3>1, <3>3 DEF Settled
  <2> QED BY <2>1, <2>2
<1>11. InBatch' = InBatch \ MessageIds(batch[w])
  <2>1. \A v \in Workers \ {w} :
          /\ MessageIds(batch'[v]) = MessageIds(batch[v])
          /\ MessageIds(batch[v]) \cap MessageIds(batch[w]) = {}
    BY <1>3 DEF AccountInv, Accounted
  <2> QED BY <1>3, <2>1 DEF InBatch
<1>12. Accounted'
  <2>1. MessageIds(batch[w]) \subseteq InBatch
    BY DEF InBatch
  <2>2. InBatch' \cup Settled' = 1..Received' /\ InBatch' \cap Settled' = {}
    BY <1>2, <1>10, <1>11, <2>1 DEF AccountInv, Accounted
  <2>3. \A u, v \in Workers :
          u # v => MessageIds(batch'[u]) \cap MessageIds(batch'[v]) = {}
    BY <1>3 DEF AccountInv, Accounted
  <2> QED BY <2>2, <2>3 DEF Accounted
<1>13. batch[w] # <<>> /\ Len(batch[w]) \in 1..Len(batch[w])
  BY <1>2, EmptySeq DEF FlushReturns, TypeInv, FlushInv
<1>14. newest' = [newest EXCEPT ![w] = batch[w][Len(batch[w])].id]
       /\ newest \in [Workers -> 0..MaxMsgs]
       /\ batch[w][Len(batch[w])].id \in 1..Received
  BY <1>1, <1>4, <1>13 DEF FlushStep, TypeInv, TypeOK, MessageIds
<1>15. WorkerInOrder'
  <2>1. ASSUME NEW v \in Workers, NEW i \in 1..Len(batch'[v])
        PROVE  /\ batch'[v][i].id > newest'[v]
               /\ \A j \in 1..(i - 1) : batch'[v][j].id < batch'[v][i].id
    <3>1. v # w
      BY <1>3, <2>1
    <3>2. batch'[v] = batch[v] /\ newest'[v] = newest[v]
      BY <1>3, <1>14, <3>1
    <3> QED BY <2>1, <3>2 DEF AccountInv, WorkerInOrder
  <2> QED BY <2>1 DEF WorkerInOrder
<1>16. NewestInv'
  BY <1>2, <1>14 DEF AccountInv, NewestInv
<1>17. RowsInv'
  BY <1>8 DEF AccountInv, RowsInv
<1>18. NoSilentLoss'
  BY <1>1 DEF FlushStep, AccountInv, NoSilentLoss
<1>19. AccountInv'
  BY <1>12, <1>15, <1>16, <1>17, <1>18 DEF AccountInv
<1> QED BY <1>1, <1>4, <1>5, <1>8, <1>10, <1>19

LEMMA NextAccountInv == TypeInv /\ QueueInv /\ AccountInv /\ [Next]_vars => AccountInv'
<1> SUFFICES ASSUME TypeInv, QueueInv, AccountInv, [Next]_vars PROVE AccountInv'
  OBVIOUS
<1>1. ASSUME NEW h \in Handlers, NEW kind \in InKinds, Enqueue(h, kind) PROVE AccountInv'
  <2>1. Received' = Received
    BY <1>1, EnqueueQueueInv
  <2>2. UNCHANGED <<batch, rows, lost, ignored, newest>>
    BY <1>1 DEF Enqueue
  <2> QED BY <2>1, <2>2, StutterAccountInv
<1>2. ASSUME NEW w \in Workers, Tick(w) PROVE AccountInv'
  BY <1>2, StutterAccountInv DEF Tick, Received
<1>3. CASE UNCHANGED vars
  BY <1>3, StutterAccountInv DEF vars, Received
<1> QED BY <1>1, <1>2, <1>3, ReceiveAccountInv, FlushReturnsAccountInv DEF Next

LEMMA SpecInv == Spec => [](TypeInv /\ QueueInv /\ AccountInv)
<1>1. Spec => []TypeInv
  BY InitTypeInv, NextTypeInv, PTL DEF Spec
<1>2. Spec => []QueueInv
  BY <1>1, InitQueueInv, NextQueueInv, PTL DEF Spec
<1>3. Spec => []AccountInv
  BY <1>1, <1>2, InitAccountInv, NextAccountInv, PTL DEF Spec
<1> QED BY <1>1, <1>2, <1>3, PTL

\* A received message is in one worker's batch or settled, never both, over
\* failing flushes and dying workers (ingester.go: workerMain).
THEOREM AccountedCorrect == Spec => []Accounted
<1>1. AccountInv => Accounted
  BY DEF AccountInv
<1> QED BY <1>1, SpecInv, PTL

\* A worker writes messages in the order in which Enqueue was called.
THEOREM WorkerInOrderCorrect == Spec => []WorkerInOrder
<1>1. AccountInv => WorkerInOrder
  BY DEF AccountInv
<1> QED BY <1>1, SpecInv, PTL

\* A good event without a row was in a batch whose Flush failed (code_gen.py:
\* the two generated Flush methods).
THEOREM NoSilentLossCorrect == Spec => []NoSilentLoss
<1>1. AccountInv => NoSilentLoss
  BY DEF AccountInv
<1> QED BY <1>1, SpecInv, PTL

-----------------------------------------------------------------------------
(* Refinement *)

LEMMA InitLog == Init => Log!LogInit
<1> SUFFICES ASSUME Init PROVE Log!LogInit
  OBVIOUS
<1>1. Settled = {}
  BY DEF Init, Settled
<1> QED BY <1>1 DEF Init, Log!LogInit, Log!Ids, Ids

LEMMA StepLog ==
    TypeInv /\ QueueInv /\ AccountInv /\ [Next]_vars
        => [Log!Accept \/ Log!Settle]_(Log!logVars)
<1> SUFFICES ASSUME TypeInv, QueueInv, AccountInv, [Next]_vars
             PROVE  Log!Accept \/ Log!Settle \/ UNCHANGED <<posted, Settled, rows>>
  BY DEF Log!logVars
<1>1. ASSUME NEW h \in Handlers, NEW kind \in InKinds, Enqueue(h, kind) PROVE Log!Accept
  <2>1. Settled' = Settled
    BY <1>1 DEF Enqueue, Settled
  <2> QED BY <1>1, <2>1 DEF Enqueue, Log!Accept
<1>2. ASSUME NEW w \in Workers, Receive(w) PROVE UNCHANGED <<posted, Settled, rows>>
  BY <1>2, ReceiveAccountInv DEF Receive
<1>3. ASSUME NEW w \in Workers, Tick(w) PROVE UNCHANGED <<posted, Settled, rows>>
  BY <1>3 DEF Tick, Settled
<1>4. ASSUME NEW w \in Workers, FlushReturns(w) PROVE Log!Settle
  <2>1. PICK R \in SUBSET MessageIds(batch[w]) :
          /\ MessageIds(batch[w]) \subseteq 1..Received \ Settled
          /\ Settled' = Settled \cup MessageIds(batch[w])
          /\ rows' = [id \in Ids |-> IF id \in R THEN 1 ELSE rows[id]]
    BY <1>4, FlushReturnsAccountInv
  <2>2. 1..Received \subseteq 1..posted
    <3>1. Len(channel) \in Nat /\ Len(sendq) \in Nat /\ posted \in Nat
      BY LenProperties DEF TypeInv, TypeOK
    <3> QED BY <3>1 DEF Received
  <2>3. MessageIds(batch[w]) \in SUBSET (1..posted \ Settled)
    BY <2>1, <2>2
  <2>4. posted' = posted
    BY <1>4 DEF FlushReturns
  <2> QED BY <2>1, <2>3, <2>4 DEF Log!Settle, Log!Ids, Ids
<1>5. CASE UNCHANGED vars
  BY <1>5 DEF vars, Settled
<1> QED BY <1>1, <1>2, <1>3, <1>4, <1>5 DEF Next

\* The ingester implements EventLog: an event gets at most one row, in the step
\* that settles it.
THEOREM EventLogImplemented == Spec => ImplementsEventLog
BY InitLog, StepLog, SpecInv, PTL DEF Spec, ImplementsEventLog, Log!LogSpec
=============================================================================
