---------------------------- MODULE ServerProofs ----------------------------
(***************************************************************************)
(* Proofs, for every number of handlers, workers, messages and builds,     *)
(* that the server keeps over its restarts what the worker pool promises   *)
(* in one process, and that the typed tables of ClickHouse are exact.      *)
(***************************************************************************)
EXTENDS Server, IngesterProofs

PoolInv == TypeInv /\ QueueInv /\ AccountInv

-----------------------------------------------------------------------------
(* The end of a process                                                    *)

\* The rows a call of Flush may leave when the process ends under it are of
\* messages in a batch.
InFlight == UNION {MessageIds(batch[w]) : w \in Flushing}

\* What is in memory is what Enqueue got and is not settled.
LEMMA UnwrittenIsUnsettled ==
    ASSUME PoolInv
    PROVE  Unwritten = 1..posted \ Settled
<1> USE DEF PoolInv, TypeInv, TypeOK
<1>1. /\ posted \in Nat /\ Len(channel) \in Nat /\ Len(sendq) \in Nat
      /\ Received = posted - Len(channel) - Len(sendq) /\ Received \in Nat
  BY LenProperties, IngesterAssumption DEF QueueInv, Received
<1>2. MessageIds(channel) = (Received + 1)..(Received + Len(channel))
  <2>1. \A i \in 1..Len(channel) : channel[i].id = Received + i
    BY DEF QueueInv, QueueInOrder
  <2>2. ASSUME NEW id \in (Received + 1)..(Received + Len(channel))
        PROVE  id \in MessageIds(channel)
    <3>1. id - Received \in 1..Len(channel) /\ Received + (id - Received) = id
      BY <1>1, <2>2
    <3> QED BY <2>1, <3>1 DEF MessageIds
  <2>3. ASSUME NEW i \in 1..Len(channel)
        PROVE  channel[i].id \in (Received + 1)..(Received + Len(channel))
    BY <1>1, <2>1
  <2> QED BY <2>2, <2>3 DEF MessageIds
<1>3. MessageIds(sendq) = (Received + Len(channel) + 1)..posted
  <2>1. \A i \in 1..Len(sendq) : sendq[i].id = Received + Len(channel) + i
    BY DEF QueueInv, QueueInOrder
  <2>2. ASSUME NEW id \in (Received + Len(channel) + 1)..posted
        PROVE  id \in MessageIds(sendq)
    <3>1. /\ id - (Received + Len(channel)) \in 1..Len(sendq)
          /\ Received + Len(channel) + (id - (Received + Len(channel))) = id
      BY <1>1, <2>2
    <3> QED BY <2>1, <3>1 DEF MessageIds
  <2>3. ASSUME NEW i \in 1..Len(sendq)
        PROVE  sendq[i].id \in (Received + Len(channel) + 1)..posted
    BY <1>1, <2>1
  <2> QED BY <2>2, <2>3 DEF MessageIds
<1>4. InBatch \cup Settled = 1..Received /\ InBatch \cap Settled = {}
  BY DEF AccountInv, Accounted
<1>5. 1..posted = 1..Received \cup (Received + 1)..(Received + Len(channel))
                    \cup (Received + Len(channel) + 1)..posted
  BY <1>1
<1>6. /\ 1..Received \cap (Received + 1)..(Received + Len(channel)) = {}
      /\ 1..Received \cap (Received + Len(channel) + 1)..posted = {}
  BY <1>1
<1> QED BY <1>2, <1>3, <1>4, <1>5, <1>6 DEF Unwritten

\* The end of a process settles all of it in one step, with rows for some.
LEMMA ProcessEndsPool ==
    ASSUME PoolInv, ProcessEnds
    PROVE  /\ PoolInv' /\ Unwritten' = {}
           /\ \E R \in SUBSET Unwritten :
                /\ Settled' = Settled \cup Unwritten
                /\ rows' = [id \in Ids |-> IF id \in R THEN 1 ELSE rows[id]]
<1>1. PICK R \in SUBSET InFlight :
         rows' = [id \in Ids |-> IF id \in R THEN rows[id] + 1 ELSE rows[id]]
  BY DEF ProcessEnds, InFlight
<1>2. R \subseteq Unwritten
  BY <1>1 DEF InFlight, Flushing, Unwritten, InBatch
<1>3. Unwritten = 1..posted \ Settled
  BY UnwrittenIsUnsettled
<1>4. posted \in 0..MaxMsgs /\ 1..posted \subseteq Ids /\ posted \in Nat
  BY IngesterAssumption DEF PoolInv, TypeInv, TypeOK, Ids
<1>5. \A id \in R : id \in Ids /\ rows[id] = 0
  BY <1>2, <1>3, <1>4 DEF Settled, PoolInv, TypeInv, TypeOK
<1>6. rows' = [id \in Ids |-> IF id \in R THEN 1 ELSE rows[id]]
  <2>1. \A id \in Ids : id \in R => rows[id] + 1 = 1
    BY <1>5
  <2> QED BY <1>1, <2>1
<1>7. /\ channel' = <<>> /\ sendq' = <<>>
      /\ batch' = [w \in Workers |-> <<>>]
      /\ pc' = [w \in Workers |-> "select"]
      /\ lost' = lost \cup Unwritten
      /\ UNCHANGED <<backend, posted, ignored, newest>>
  BY DEF ProcessEnds
<1>8. /\ Len(channel') = 0 /\ Len(sendq') = 0
      /\ \A w \in Workers : Len(batch'[w]) = 0 /\ MessageIds(batch'[w]) = {}
      /\ Unwritten' = {}
  <2>1. Len(channel') = 0 /\ Len(sendq') = 0
    BY <1>7
  <2>2. \A w \in Workers : Len(batch'[w]) = 0 /\ MessageIds(batch'[w]) = {}
    BY <1>7 DEF MessageIds
  <2>3. MessageIds(channel)' = {} /\ MessageIds(sendq)' = {} /\ InBatch' = {}
    BY <2>1, <2>2 DEF MessageIds, InBatch
  <2> QED BY <2>1, <2>2, <2>3 DEF Unwritten
<1>9. {id \in Ids : rows'[id] > 0} = {id \in Ids : rows[id] > 0} \cup R
  BY <1>5, <1>6 DEF PoolInv, TypeInv, TypeOK
<1>10. Settled' = Settled \cup Unwritten
  BY <1>2, <1>7, <1>9 DEF Settled
<1>11. TypeInv'
  <2>1. channel' \in Seq(Messages) /\ sendq' \in Seq(Messages)
        /\ batch' \in [Workers -> Seq(Messages)]
    BY <1>7, EmptySeq
  <2>2. rows' \in [Ids -> Nat] /\ lost' \subseteq Ids
    BY <1>3, <1>4, <1>6, <1>7 DEF PoolInv, TypeInv, TypeOK
  <2>3. FlushInv'
    BY <1>7 DEF FlushInv
  <2>4. pc' \in [Workers -> {"select", "full", "tick", "dead"}]
    BY <1>7
  <2>5. \A w \in Workers : Len(batch'[w]) < BufferSize
    BY <1>8, IngesterAssumption
  <2>6. Len(channel') <= BufferSize
    BY <1>8, IngesterAssumption
  <2> QED BY <1>7, <2>1, <2>2, <2>3, <2>4, <2>5, <2>6 DEF PoolInv, TypeInv, TypeOK
<1>12. QueueInv' /\ Received' = posted
  BY <1>4, <1>7, <1>8 DEF QueueInv, QueueInOrder, Received
<1>13. Accounted'
  <2>1. InBatch' = {}
    BY <1>8 DEF InBatch
  <2>2. Settled \subseteq 1..posted
    <3>1. Settled \subseteq 1..Received
      BY DEF PoolInv, AccountInv, Accounted
    <3>2. Len(channel) \in Nat /\ Len(sendq) \in Nat /\ Received \in Nat
      BY LenProperties DEF PoolInv, TypeInv, TypeOK, QueueInv
    <3> QED BY <1>4, <3>1, <3>2 DEF Received
  <2>3. Settled' = 1..Received'
    BY <1>3, <1>10, <1>12, <2>2
  <2> QED BY <1>8, <2>1, <2>3 DEF Accounted
<1>14. NewestInv'
  <2>1. Received \in Nat /\ Len(channel) \in Nat /\ Len(sendq) \in Nat
    BY LenProperties DEF PoolInv, TypeInv, TypeOK, QueueInv
  <2>2. Received <= posted
    BY <1>4, <2>1 DEF Received
  <2>3. newest \in [Workers -> 0..MaxMsgs]
    BY DEF PoolInv, TypeInv, TypeOK
  <2> QED BY <1>4, <1>7, <1>12, <2>1, <2>2, <2>3 DEF PoolInv, AccountInv, NewestInv
<1>15. WorkerInOrder' /\ NoSilentLoss' /\ RowsInv'
  BY <1>6, <1>7, <1>8 DEF PoolInv, AccountInv, WorkerInOrder, NoSilentLoss, RowsInv
<1>16. AccountInv'
  BY <1>13, <1>14, <1>15 DEF AccountInv
<1> QED BY <1>2, <1>6, <1>8, <1>10, <1>11, <1>12, <1>16 DEF PoolInv

-----------------------------------------------------------------------------
(* The worker pool over restarts                                           *)

LEMMA PoolStep == [ServerNext]_allVars => [Next]_vars \/ ProcessEnds
<1> SUFFICES ASSUME [ServerNext]_allVars PROVE [Next]_vars \/ ProcessEnds
  OBVIOUS
<1>1. ASSUME NEW h \in Handlers, NEW e \in Events, Deliver(h, e) PROVE Next
  <2>1. PICK kind \in KindsOf(e) : Enqueue(h, kind)
    BY <1>1 DEF Deliver
  <2>2. kind \in InKinds
    BY <2>1, ServerAssumption DEF KindsOf
  <2> QED BY <2>1, <2>2 DEF Next
<1>2. ASSUME NEW w \in Workers, WorkerReceives(w) \/ WorkerTicks(w) \/ Flush(w) PROVE Next
  BY <1>2 DEF WorkerReceives, WorkerTicks, Flush, Next
<1>3. ASSUME NEW w \in Workers, FlushPanics(w) PROVE ProcessEnds
  BY <1>3 DEF FlushPanics
<1>4. ASSUME AcceptFails PROVE ProcessEnds
  BY <1>4 DEF AcceptFails
<1>5. ASSUME NEW d \in Deployments, Start(d) PROVE UNCHANGED vars
  BY <1>5 DEF Start
<1>6. ASSUME Execute \/ ExecuteFails \/ LaunchListener \/ StartFails PROVE UNCHANGED vars
  BY <1>6 DEF Execute, ExecuteFails, LaunchListener, StartFails
<1>7. ASSUME NEW h \in Handlers, Accept(h) \/ Close(h) PROVE UNCHANGED vars
  BY <1>7 DEF Accept, Close
<1>8. CASE UNCHANGED allVars
  BY <1>8 DEF allVars
<1> QED BY <1>1, <1>2, <1>3, <1>4, <1>5, <1>6, <1>7, <1>8 DEF ServerNext

LEMMA NextPoolInv == PoolInv /\ [ServerNext]_allVars => PoolInv'
BY PoolStep, ProcessEndsPool, NextTypeInv, NextQueueInv, NextAccountInv DEF PoolInv

LEMMA InitPoolInv == ServerInit => PoolInv
BY InitTypeInv, InitQueueInv, InitAccountInv DEF ServerInit, PoolInv

LEMMA ServerPoolInv == ServerSpec => []PoolInv
BY InitPoolInv, NextPoolInv, PTL DEF ServerSpec

\* Over restarts too, every message a worker received is in one batch or
\* settled, never both: what a process held is settled when it ends.
THEOREM ServerAccounted == ServerSpec => []Accounted
<1>1. PoolInv => Accounted
  BY DEF PoolInv, AccountInv
<1> QED BY <1>1, ServerPoolInv, PTL

\* The server implements EventLog over restarts: at most one row for an event,
\* and none once the process that held it has ended.
THEOREM ServerEventLogImplemented == ServerSpec => ServerImplementsEventLog
<1>1. PoolInv /\ [ServerNext]_allVars => [Log!Accept \/ Log!Settle]_(Log!logVars)
  <2> SUFFICES ASSUME PoolInv, ProcessEnds PROVE Log!Settle
    BY PoolStep, StepLog DEF PoolInv
  <2>1. PICK R \in SUBSET Unwritten :
          /\ Settled' = Settled \cup Unwritten
          /\ rows' = [id \in Ids |-> IF id \in R THEN 1 ELSE rows[id]]
    BY ProcessEndsPool
  <2>2. Unwritten \in SUBSET (1..posted \ Settled)
    BY UnwrittenIsUnsettled
  <2>3. posted' = posted
    BY DEF ProcessEnds
  <2> QED BY <2>1, <2>2, <2>3 DEF Log!Settle, Log!Ids, Ids
<1>2. ServerInit => Log!LogInit
  BY InitLog DEF ServerInit
<1> QED BY <1>1, <1>2, ServerPoolInv, PTL
        DEF ServerSpec, ServerImplementsEventLog, Log!LogSpec

-----------------------------------------------------------------------------
(* The set-up of the storage                                               *)

\* What a build makes: the table of all events, and for each of its events the
\* typed table and the view that selects the event's place in this build.
ObjectsOf(b) ==
    {EventTable} \cup {Table(b[i]) : i \in 1..Len(b)} \cup {View(b[i], i) : i \in 1..Len(b)}

\* Every statement makes an object of the build, and each event has its view.
LEMMA StatementsProperties ==
    ASSUME known \in Seq(Events)
    PROVE  /\ Statements \in Seq(ObjectsOf(known)) /\ Len(Statements) \in Nat
           /\ storageType = "clickhouse" =>
                \A i \in 1..Len(known) :
                    \E j \in 1..Len(Statements) : Statements[j] = View(known[i], i)
<1>1. Len(known) \in Nat
  BY LenProperties
<1>2. ASSUME NEW i \in 1..(2 * Len(known)) PROVE Migrations[i] \in ObjectsOf(known)
  <2>1. CASE i % 2 = 1
    <3>1. (i + 1) \div 2 \in 1..Len(known)
      BY <1>1, <2>1
    <3>2. Migrations[i] = Table(known[(i + 1) \div 2])
      BY <2>1 DEF Migrations
    <3> QED BY <3>1, <3>2 DEF ObjectsOf
  <2>2. CASE i % 2 # 1
    <3>1. i \div 2 \in 1..Len(known)
      BY <1>1, <2>2
    <3>2. Migrations[i] = View(known[i \div 2], i \div 2)
      BY <2>2 DEF Migrations
    <3> QED BY <3>1, <3>2 DEF ObjectsOf
  <2> QED BY <2>1, <2>2
<1>3. Migrations \in Seq(ObjectsOf(known)) /\ Len(Migrations) = 2 * Len(known)
  BY <1>1, <1>2 DEF Migrations
<1>4. <<EventTable>> \in Seq(ObjectsOf(known)) /\ Len(<<EventTable>>) = 1
  BY DEF ObjectsOf
<1>5. CASE storageType = "clickhouse"
  <2>1. Statements = <<EventTable>> \o Migrations
    BY <1>5 DEF Statements
  <2>2. /\ Statements \in Seq(ObjectsOf(known)) /\ Len(Statements) = 1 + 2 * Len(known)
        /\ \A i \in 1..(2 * Len(known)) : Statements[i + 1] = Migrations[i]
    BY <1>1, <1>3, <1>4, <2>1, ConcatProperties
  <2>3. ASSUME NEW i \in 1..Len(known)
        PROVE  \E j \in 1..Len(Statements) : Statements[j] = View(known[i], i)
    <3>1. 2 * i \in 1..(2 * Len(known)) /\ (2 * i) % 2 = 0 /\ (2 * i) \div 2 = i
      BY <1>1
    <3>2. Migrations[2 * i] = View(known[i], i)
      BY <3>1 DEF Migrations
    <3>3. 2 * i + 1 \in 1..Len(Statements) /\ Statements[2 * i + 1] = View(known[i], i)
      BY <1>1, <2>2, <3>1, <3>2
    <3> QED BY <3>3
  <2> QED BY <1>1, <2>2, <2>3
<1>6. CASE storageType # "clickhouse"
  BY <1>6, EmptySeq DEF Statements
<1> QED BY <1>5, <1>6

LEMMA StatementsLength == known \in Seq(Events) => Len(Statements) \in Nat
BY StatementsProperties

\* The part of ServerTypeOK about the variables of this module, with every
\* object traced to a build that was started.
ShapeInv ==
    /\ storageType \in StorageTypes
    /\ phase \in {"down", "starting", "serving"}
    /\ builds \subseteq Deployments
    /\ known \in {<<>>} \cup builds
    /\ phase # "down" => known \in builds
    /\ step \in 0..Len(Statements)
    /\ objects \subseteq UNION {ObjectsOf(b) : b \in builds}
    /\ typed \in [Ids -> SUBSET Events]
    /\ eventOf \in Seq(Events) /\ Len(eventOf) = posted
    /\ conns \subseteq Handlers
    /\ starts \in 0..MaxStarts
    /\ phase # "serving" => conns = {} /\ Unwritten = {}

\* The process has executed its statements in order, and all of them before it
\* serves: something has the name each of them gives.
SetupInv ==
    /\ phase # "down" => \A i \in 1..step : \E o \in objects : o.name = Statements[i].name
    /\ phase = "serving" => step = Len(Statements)

LEMMA KnownIsSeq == ShapeInv => known \in Seq(Events)
BY ServerAssumption, EmptySeq DEF ShapeInv

LEMMA BuildsAreLists ==
    ASSUME ShapeInv
    PROVE  \A b \in builds :
             /\ b \in Seq(Events) /\ Len(b) \in Nat /\ DOMAIN b = 1..Len(b)
             /\ \A i, k \in 1..Len(b) : b[i] = b[k] => i = k
<1>1. \A b \in builds : b \in Seq(Events) /\ IsInjective(b)
  BY ServerAssumption DEF ShapeInv
<1>2. \A b \in builds : Len(b) \in Nat /\ DOMAIN b = 1..Len(b)
  BY <1>1, LenProperties
<1> QED BY <1>1, <1>2 DEF IsInjective

\* A view in the database was made by a build that has its event at the place
\* it selects.
LEMMA ViewOfBuild ==
    ASSUME ShapeInv, NEW o \in objects, NEW e, o.name = View(e, 0).name
    PROVE  \E b \in builds : \E k \in 1..Len(b) : b[k] = e /\ o = View(e, k)
<1>1. PICK b \in builds : o \in ObjectsOf(b)
  BY DEF ShapeInv
<1>2. o.name # EventTable.name
  BY DEF View, EventTable
<1>3. \A f : o.name # Table(f).name
  BY DEF View, Table
<1>4. PICK k \in 1..Len(b) : o = View(b[k], k)
  BY <1>1, <1>2, <1>3 DEF ObjectsOf
<1>5. b[k] = e
  BY <1>4 DEF View
<1> QED BY <1>4, <1>5

\* While builds keep the numbers of their events, the running build finds each
\* of its views with the number it means, whoever made it.
LEMMA ViewsThere ==
    ASSUME ShapeInv, SetupInv, phase = "serving", storageType = "clickhouse", NumbersKept,
           NEW i \in 1..Len(known)
    PROVE  View(known[i], i) \in objects
<1>1. PICK j \in 1..Len(Statements) : Statements[j] = View(known[i], i)
  BY KnownIsSeq, StatementsProperties
<1>2. PICK o \in objects : o.name = View(known[i], i).name
  BY <1>1 DEF SetupInv
<1>3. PICK b \in builds : \E k \in 1..Len(b) : b[k] = known[i] /\ o = View(known[i], k)
  <2>1. o.name = View(known[i], 0).name
    BY <1>2 DEF View
  <2> QED BY <2>1, ViewOfBuild
<1>4. PICK k \in 1..Len(b) : b[k] = known[i] /\ o = View(known[i], k)
  BY <1>3
<1>5. known \in builds
  BY DEF ShapeInv
<1>6. k = i
  <2>1. CASE k <= Len(known)
    <3>1. k \in 1..Len(known)
      BY <1>4, <1>5, <2>1, BuildsAreLists
    <3>2. b[k] = known[k]
      BY <1>4, <1>5, <2>1 DEF NumbersKept
    <3> QED BY <1>4, <1>5, <3>1, <3>2, BuildsAreLists
  <2>2. CASE ~(k <= Len(known))
    <3>1. i \in 1..Len(b)
      BY <1>4, <1>5, <2>2, BuildsAreLists
    <3>2. b[i] = known[i]
      BY <1>4, <1>5, <3>1, BuildsAreLists DEF NumbersKept
    <3> QED BY <1>4, <3>1, <3>2, BuildsAreLists
  <2> QED BY <2>1, <2>2
<1> QED BY <1>4, <1>6

\* ... and no view of another event selects that number.
LEMMA NoOtherView ==
    ASSUME ShapeInv, phase = "serving", NumbersKept, NEW i \in 1..Len(known), NEW e,
           View(e, i) \in objects
    PROVE  e = known[i]
<1>1. PICK b \in builds : \E k \in 1..Len(b) : b[k] = e /\ View(e, i) = View(e, k)
  <2>1. View(e, i).name = View(e, 0).name
    BY DEF View
  <2> QED BY <2>1, ViewOfBuild
<1>2. i \in 1..Len(b) /\ b[i] = e
  BY <1>1 DEF View
<1>3. known \in builds
  BY DEF ShapeInv
<1> QED BY <1>2, <1>3, BuildsAreLists DEF NumbersKept

LEMMA InitShapeInv == ServerInit => ShapeInv /\ SetupInv
<1> SUFFICES ASSUME ServerInit PROVE ShapeInv /\ SetupInv
  OBVIOUS
<1>1. channel = <<>> /\ sendq = <<>> /\ batch = [w \in Workers |-> <<>>] /\ posted = 0
  BY DEF ServerInit, Init
<1>2. MessageIds(channel) = {} /\ MessageIds(sendq) = {} /\ InBatch = {}
  BY <1>1 DEF MessageIds, InBatch
<1>3. known \in Seq(Events) /\ step = 0
  BY EmptySeq DEF ServerInit
<1>4. step \in 0..Len(Statements) /\ \A i \in 1..step : FALSE
  BY <1>3, StatementsProperties
<1>5. eventOf \in Seq(Events) /\ Len(eventOf) = posted
  BY <1>1, EmptySeq DEF ServerInit
<1> QED BY <1>1, <1>2, <1>3, <1>4, <1>5, ServerAssumption
        DEF ServerInit, ShapeInv, SetupInv, Unwritten

\* Steps that change nothing of the set-up but what is given here.
LEMMA SameStatements ==
    ASSUME UNCHANGED <<storageType, known>> PROVE Statements' = Statements
BY DEF Statements, Migrations

LEMMA SameMemory == UNCHANGED vars => Unwritten' = Unwritten /\ posted' = posted
BY DEF vars, Unwritten, InBatch

LEMMA StartShape ==
    ASSUME ShapeInv, SetupInv, NEW d \in Deployments, Start(d)
    PROVE  ShapeInv' /\ SetupInv'
<1> USE DEF Start
<1>1. known' \in Seq(Events) /\ step' = 0
  BY ServerAssumption
<1>2. Len(Statements)' \in Nat
  <2>1. (known \in Seq(Events) => Len(Statements) \in Nat)'
    BY StatementsLength, PTL
  <2> QED BY <1>1, <2>1
<1>3. Unwritten = {} /\ Unwritten' = {}
  BY SameMemory DEF ShapeInv
<1>4. starts' \in 0..MaxStarts
  BY ServerAssumption DEF ShapeInv
<1>5. /\ builds \subseteq builds' /\ builds' \subseteq Deployments /\ known' \in builds'
      /\ objects' = objects
  BY DEF ShapeInv
<1>6. objects' \subseteq UNION {ObjectsOf(b) : b \in builds'}
  BY <1>5 DEF ShapeInv
<1>7. /\ posted' = posted /\ typed' = typed /\ eventOf' = eventOf /\ conns' = conns
      /\ storageType' = storageType /\ phase = "down" /\ phase' = "starting"
  BY DEF vars
<1>8. step' \in 0..Len(Statements') /\ \A i \in 1..step' : FALSE
  BY <1>1, <1>2
<1> QED BY <1>3, <1>4, <1>5, <1>6, <1>7, <1>8 DEF ShapeInv, SetupInv

LEMMA ExecuteShape ==
    ASSUME ShapeInv, SetupInv, Execute \/ ExecuteFails PROVE ShapeInv' /\ SetupInv'
<1> USE DEF Execute, ExecuteFails, AfterError
<1>1. Statements' = Statements
  BY SameStatements
<1>2. Statements \in Seq(ObjectsOf(known)) /\ Len(Statements) \in Nat
  BY KnownIsSeq, StatementsProperties
<1>3. /\ step \in Nat /\ step < Len(Statements) /\ step' = step + 1 /\ phase = "starting"
      /\ known \in builds /\ UNCHANGED <<builds, known, typed, eventOf, conns, starts>>
  BY <1>2 DEF ShapeInv
<1>4. Statements[step + 1] \in ObjectsOf(known)
  BY <1>2, <1>3, ElementOfSeq
<1>5. /\ objects \subseteq objects'
      /\ objects' \subseteq objects \cup {Statements[step + 1]}
  BY DEF Created
<1>6. /\ step' \in 0..Len(Statements')
      /\ objects' \subseteq UNION {ObjectsOf(b) : b \in builds'}
  BY <1>1, <1>2, <1>3, <1>4, <1>5 DEF ShapeInv
<1>7. Unwritten' = {} /\ conns' = {} /\ posted' = posted
  <2>1. Unwritten = {} /\ conns = {}
    BY <1>3 DEF ShapeInv
  <2> QED BY <1>3, <2>1, SameMemory
<1>8. SetupInv'
  <2>1. phase' # "down" => \E o \in objects' : o.name = Statements[step + 1].name
    BY DEF Created
  <2>2. \A i \in 1..step' : i \in 1..step \/ i = step + 1
    BY <1>3
  <2>3. phase' # "serving"
    BY <1>3
  <2>4. ASSUME phase' # "down", NEW i \in 1..step'
        PROVE  \E o \in objects' : o.name = Statements[i].name
    <3>1. CASE i \in 1..step
      BY <1>3, <1>5, <3>1 DEF SetupInv
    <3> QED BY <2>1, <2>2, <2>4, <3>1
  <2> QED BY <1>1, <2>3, <2>4 DEF SetupInv
<1>9. phase' \in {"down", "starting", "serving"} /\ phase' # "serving"
      /\ storageType' = storageType
  BY <1>3
<1> QED BY <1>3, <1>6, <1>7, <1>8, <1>9 DEF ShapeInv

LEMMA OtherShape ==
    ASSUME ShapeInv, SetupInv, UNCHANGED setup,
           phase' \in {"down", "starting", "serving"},
           phase' # phase => phase' = "down" \/ step = Len(Statements),
           phase = "down" => phase' = "down",
           typed' \in [Ids -> SUBSET Events], conns' \subseteq Handlers,
           eventOf' \in Seq(Events) /\ Len(eventOf') = posted',
           phase' # "serving" => conns' = {} /\ Unwritten' = {}
    PROVE  ShapeInv' /\ SetupInv'
<1>1. UNCHANGED <<storageType, known, step, objects, starts, builds>>
  BY DEF setup
<1>2. Statements' = Statements
  BY <1>1, SameStatements
<1> QED BY <1>1, <1>2 DEF ShapeInv, SetupInv

LEMMA PostedGrows ==
    ASSUME ShapeInv, PoolInv, NEW h \in Handlers, NEW e \in Events, Deliver(h, e)
    PROVE  /\ eventOf' \in Seq(Events) /\ Len(eventOf') = posted'
           /\ posted' = posted + 1 /\ eventOf'[posted + 1] = e
           /\ \A id \in 1..posted : eventOf'[id] = eventOf[id]
<1>1. posted' = posted + 1 /\ eventOf' = Append(eventOf, e)
  BY DEF Deliver, Enqueue
<1> QED BY <1>1, AppendProperties DEF ShapeInv

LEMMA NextShapeInv ==
    PoolInv /\ ShapeInv /\ SetupInv /\ [ServerNext]_allVars => ShapeInv' /\ SetupInv'
<1> SUFFICES ASSUME PoolInv, ShapeInv, SetupInv, [ServerNext]_allVars
             PROVE  ShapeInv' /\ SetupInv'
  OBVIOUS
<1>1. ASSUME NEW d \in Deployments, Start(d) PROVE ShapeInv' /\ SetupInv'
  BY <1>1, StartShape
<1>2. CASE Execute \/ ExecuteFails
  BY <1>2, ExecuteShape
<1>3. CASE LaunchListener \/ StartFails
  BY SameMemory, <1>3, OtherShape DEF LaunchListener, StartFails, ShapeInv
<1>4. ASSUME NEW h \in Handlers, Accept(h) \/ Close(h) PROVE ShapeInv' /\ SetupInv'
  <2>1. UNCHANGED <<vars, setup, phase, typed, eventOf>> /\ conns' \subseteq Handlers
    BY <1>4 DEF Accept, Close, ShapeInv
  <2>2. phase = "serving"
    BY <1>4 DEF Accept, Close, ShapeInv
  <2> QED BY SameMemory, <2>1, <2>2, OtherShape DEF ShapeInv
<1>5. ASSUME NEW h \in Handlers, NEW e \in Events, Deliver(h, e) PROVE ShapeInv' /\ SetupInv'
  BY <1>5, PostedGrows, OtherShape DEF Deliver, ShapeInv
<1>6. ASSUME NEW w \in Workers, WorkerReceives(w) \/ WorkerTicks(w) PROVE ShapeInv' /\ SetupInv'
  <2>1. phase = "serving" /\ UNCHANGED serverVars /\ posted' = posted
    BY <1>6 DEF WorkerReceives, WorkerTicks, Receive, Tick
  <2>2. UNCHANGED <<setup, phase, typed, eventOf, conns>>
    BY <2>1 DEF serverVars
  <2> QED BY <2>1, <2>2, OtherShape DEF ShapeInv
<1>7. ASSUME NEW w \in Workers, Flush(w) PROVE ShapeInv' /\ SetupInv'
  <2>1. /\ phase = "serving" /\ UNCHANGED <<setup, phase, eventOf, conns>>
        /\ posted' = posted /\ typed' \in [Ids -> SUBSET Events]
    BY <1>7 DEF Flush, FlushReturns, Copied, ShapeInv
  <2> QED BY <2>1, OtherShape DEF ShapeInv
<1>8. CASE ProcessEnds
  <2>1. Unwritten' = {}
    BY <1>8, ProcessEndsPool
  <2>2. /\ phase = "serving" /\ phase' = "down" /\ conns' = {}
        /\ UNCHANGED <<setup, typed, eventOf, posted>>
    BY <1>8 DEF ProcessEnds
  <2>3. step = Len(Statements)
    BY <2>2 DEF SetupInv
  <2> QED BY <2>1, <2>2, <2>3, OtherShape DEF ShapeInv
<1>9. CASE UNCHANGED allVars
  <2>1. UNCHANGED vars /\ UNCHANGED <<setup, phase, typed, eventOf, conns>>
    BY <1>9 DEF allVars, serverVars
  <2> QED BY SameMemory, <2>1, OtherShape DEF ShapeInv
<1> QED BY <1>1, <1>2, <1>3, <1>4, <1>5, <1>6, <1>7, <1>8, <1>9
        DEF ServerNext, FlushPanics, AcceptFails

LEMMA ServerShapeInv == ServerSpec => [](PoolInv /\ ShapeInv /\ SetupInv)
BY InitPoolInv, NextPoolInv, InitShapeInv, NextShapeInv, PTL DEF ServerSpec

\* Every variable stays in its type over starts and ends of processes, and
\* nothing is in memory while none serves (main.go, listener.go).
THEOREM ServerTypeCorrect == ServerSpec => []ServerTypeOK
<1>1. ASSUME PoolInv, ShapeInv PROVE ServerTypeOK
  <2>1. ASSUME NEW o \in objects PROVE IsObject(o)
    <3>1. PICK b \in builds : o \in ObjectsOf(b)
      BY <1>1 DEF ShapeInv
    <3>2. \A i \in 1..Len(b) : b[i] \in Events /\ i \in Nat \ {0}
      BY <1>1, BuildsAreLists, ElementOfSeq
    <3> QED BY <3>1, <3>2 DEF ObjectsOf, IsObject, View
  <2>2. known \in {<<>>} \cup Deployments
    BY <1>1 DEF ShapeInv
  <2> QED BY <1>1, <2>1, <2>2 DEF PoolInv, TypeInv, ShapeInv, ServerTypeOK
<1> QED BY <1>1, ServerShapeInv, PTL

-----------------------------------------------------------------------------
(* The typed tables                                                        *)

ElementsOf(msgs) == {msgs[i] : i \in 1..Len(msgs)}

\* The messages in memory.
InMemory ==
    ElementsOf(channel) \cup ElementsOf(sendq) \cup UNION {ElementsOf(batch[w]) : w \in Workers}

\* A message in memory that is good is of an event the running build knows.
GoodInv ==
    \A m \in InMemory : m.kind = "good" => \E i \in 1..Len(known) : known[i] = eventOf[m.id]

\* A message without a row is in no typed table.
UntypedInv == \A id \in Ids : rows[id] = 0 => typed[id] = {}

TypedInv  == UntypedInv /\ TypedExact
ServerInv == PoolInv /\ ShapeInv /\ SetupInv /\ GoodInv /\ TypedInv

LEMMA RowsArePosted ==
    ASSUME PoolInv, NEW id \in Ids, rows[id] > 0
    PROVE  id \in 1..posted
<1>1. id \in Settled
  BY DEF Settled
<1>2. Settled \subseteq 1..Received
  BY DEF PoolInv, AccountInv, Accounted
<1>3. Len(channel) \in Nat /\ Len(sendq) \in Nat /\ Received \in Nat /\ posted \in Nat
  BY LenProperties, IngesterAssumption DEF PoolInv, TypeInv, TypeOK, QueueInv
<1> QED BY <1>1, <1>2, <1>3 DEF Received

LEMMA ElementsOfAppend ==
    ASSUME NEW msgs \in Seq(Messages), NEW m \in Messages
    PROVE  ElementsOf(Append(msgs, m)) \subseteq ElementsOf(msgs) \cup {m}
<1>1. /\ Len(msgs) \in Nat /\ Len(Append(msgs, m)) = Len(msgs) + 1
      /\ \A i \in 1..Len(msgs) : Append(msgs, m)[i] = msgs[i]
      /\ Append(msgs, m)[Len(msgs) + 1] = m
  BY LenProperties, AppendProperties
<1>2. ASSUME NEW i \in 1..Len(Append(msgs, m))
      PROVE  Append(msgs, m)[i] \in ElementsOf(msgs) \cup {m}
  <2>1. i \in 1..Len(msgs) \/ i = Len(msgs) + 1
    BY <1>1, <1>2
  <2> QED BY <1>1, <2>1 DEF ElementsOf
<1> QED BY <1>2 DEF ElementsOf

LEMMA InMemoryIds == Unwritten = {m.id : m \in InMemory}
<1>1. ASSUME NEW msgs PROVE MessageIds(msgs) = {m.id : m \in ElementsOf(msgs)}
  BY DEF MessageIds, ElementsOf
<1> QED BY <1>1 DEF Unwritten, InBatch, InMemory

LEMMA InitServerInv == ServerInit => ServerInv
<1> SUFFICES ASSUME ServerInit PROVE ServerInv
  OBVIOUS
<1>1. channel = <<>> /\ sendq = <<>> /\ batch = [w \in Workers |-> <<>>]
  BY DEF ServerInit, Init
<1>2. InMemory = {}
  BY <1>1 DEF InMemory, ElementsOf
<1>3. TypedInv
  BY DEF ServerInit, Init, TypedInv, UntypedInv, TypedExact
<1> QED BY <1>2, <1>3, InitPoolInv, InitShapeInv DEF ServerInv, GoodInv

\* Every row a Flush writes is of a good message of its batch.
LEMMA RowsAreGood ==
    ASSUME NEW msgs \in Seq(Messages), NEW b \in {"mongo", "clickhouse"},
           NEW o \in Outcomes(b, msgs), NEW id \in o.rows
    PROVE  \E m \in ElementsOf(msgs) : m.id = id /\ m.kind = "good"
<1>1. /\ Len(msgs) \in Nat
      /\ \A n \in 0..Len(msgs) : \A r \in Rows(msgs, n) :
            \E m \in ElementsOf(msgs) : m.id = r /\ m.kind = "good"
  BY LenProperties DEF Rows, ElementsOf
<1>2. AllRows(msgs) = Rows(msgs, Len(msgs)) /\ Len(msgs) \in 0..Len(msgs)
  BY <1>1 DEF AllRows
<1>3. \/ o.rows = {}
      \/ \E n \in 0..Len(msgs) : o.rows = Rows(msgs, n)
  <2>1. CASE b = "mongo"
    <3>1. \/ \E e \in BOOLEAN : o = Outcome(e, {})
          \/ o = Outcome(FALSE, AllRows(msgs))
          \/ \E n \in 0..Len(msgs) : o = Outcome(TRUE, Rows(msgs, n))
      BY <2>1 DEF Outcomes, MongoOutcomes
    <3> QED BY <1>2, <3>1 DEF Outcome
  <2>2. CASE b = "clickhouse"
    <3>1. \/ o = Outcome(TRUE, {})
          \/ \E e \in BOOLEAN : o = Outcome(e, AllRows(msgs))
      BY <2>2 DEF Outcomes, ClickHouseOutcomes
    <3> QED BY <1>2, <3>1 DEF Outcome
  <2> QED BY <2>1, <2>2
<1> QED BY <1>1, <1>3

\* Memory that only shrinks, in the same build, stays good.
LEMMA LessInMemory ==
    ASSUME GoodInv, UNCHANGED <<known, eventOf>>, InMemory' \subseteq InMemory
    PROVE  GoodInv'
BY DEF GoodInv

LEMMA DeliverGood ==
    ASSUME ServerInv, NEW h \in Handlers, NEW e \in Events, Deliver(h, e)
    PROVE  GoodInv'
<1> USE DEF ServerInv
<1>1. PICK kind \in KindsOf(e) : Enqueue(h, kind)
  BY DEF Deliver
<1>2. PICK msg : /\ msg = [id |-> posted + 1, from |-> h, kind |-> kind]
                 /\ \/ channel' = Append(channel, msg) /\ sendq' = sendq
                    \/ channel' = channel /\ sendq' = Append(sendq, msg)
                 /\ batch' = batch
  BY <1>1 DEF Enqueue
<1>3. channel \in Seq(Messages) /\ sendq \in Seq(Messages) /\ msg \in Messages
  <2>1. posted + 1 \in Ids /\ kind \in InKinds
    BY <1>1, ServerAssumption, IngesterAssumption
       DEF Enqueue, Ids, KindsOf, PoolInv, TypeInv, TypeOK
  <2> QED BY <1>2, <2>1 DEF Messages, PoolInv, TypeInv, TypeOK
<1>4. /\ ElementsOf(channel') \subseteq ElementsOf(channel) \cup {msg}
      /\ ElementsOf(sendq') \subseteq ElementsOf(sendq) \cup {msg}
  <2>1. CASE channel' = Append(channel, msg) /\ sendq' = sendq
    BY <1>3, <2>1, ElementsOfAppend
  <2>2. CASE channel' = channel /\ sendq' = Append(sendq, msg)
    BY <1>3, <2>2, ElementsOfAppend
  <2> QED BY <1>2, <2>1, <2>2
<1>5. InMemory' \subseteq InMemory \cup {msg}
  <2>1. ASSUME NEW w \in Workers PROVE ElementsOf(batch'[w]) \subseteq InMemory
    BY <1>2 DEF InMemory
  <2> QED BY <1>4, <2>1 DEF InMemory
<1>6. ASSUME NEW m \in InMemory PROVE m.id \in 1..posted
  BY InMemoryIds, UnwrittenIsUnsettled, <1>6
<1>7. ASSUME NEW m \in InMemory', m.kind = "good"
      PROVE  \E i \in 1..Len(known') : known'[i] = eventOf'[m.id]
  <2>1. known' = known
    BY DEF Deliver, setup
  <2>2. CASE m \in InMemory
    <3>1. eventOf'[m.id] = eventOf[m.id]
      BY <1>6, <2>2, PostedGrows
    <3> QED BY <1>7, <2>1, <2>2, <3>1 DEF GoodInv
  <2>3. CASE m = msg
    <3>1. kind = "good" /\ m.id = posted + 1
      BY <1>2, <1>7, <2>3
    <3>2. \E i \in 1..Len(known) : known[i] = e
      BY <3>1 DEF KindsOf
    <3> QED BY <2>1, <3>1, <3>2, PostedGrows
  <2> QED BY <1>5, <1>7, <2>2, <2>3
<1> QED BY <1>7 DEF GoodInv

LEMMA ReceiveGood ==
    ASSUME ServerInv, NEW w \in Workers, Receive(w), UNCHANGED serverVars
    PROVE  GoodInv'
<1> USE DEF ServerInv, PoolInv, TypeInv, TypeOK
<1>1. channel # <<>> /\ channel \in Seq(Messages) /\ sendq \in Seq(Messages)
      /\ batch[w] \in Seq(Messages)
  BY DEF Receive
<1>2. /\ Head(channel) \in ElementsOf(channel) /\ Head(channel) \in Messages
      /\ ElementsOf(Tail(channel)) \subseteq ElementsOf(channel)
      /\ Tail(channel) \in Seq(Messages)
  BY <1>1, HeadTailProperties, LenProperties, EmptySeq DEF ElementsOf
<1>4. ElementsOf(channel') \cup ElementsOf(sendq') \subseteq InMemory
  <2>1. CASE sendq = <<>>
    BY <1>2, <2>1 DEF Receive, InMemory
  <2>2. CASE sendq # <<>>
    <3>1. /\ Head(sendq) \in ElementsOf(sendq) /\ Head(sendq) \in Messages
          /\ ElementsOf(Tail(sendq)) \subseteq ElementsOf(sendq)
      BY <1>1, <2>2, HeadTailProperties, LenProperties, EmptySeq DEF ElementsOf
    <3>2. channel' = Append(Tail(channel), Head(sendq)) /\ sendq' = Tail(sendq)
      BY <2>2 DEF Receive
    <3>3. ElementsOf(channel') \subseteq ElementsOf(Tail(channel)) \cup {Head(sendq)}
      BY <1>2, <3>1, <3>2, ElementsOfAppend
    <3> QED BY <1>2, <3>1, <3>2, <3>3 DEF InMemory
  <2> QED BY <2>1, <2>2
<1>5. batch' = [batch EXCEPT ![w] = Append(batch[w], Head(channel))]
  BY DEF Receive
<1>6. ASSUME NEW v \in Workers PROVE ElementsOf(batch'[v]) \subseteq InMemory
  <2>1. CASE v = w
    <3>1. ElementsOf(batch'[v]) \subseteq ElementsOf(batch[w]) \cup {Head(channel)}
      BY <1>1, <1>2, <1>5, <2>1, ElementsOfAppend
    <3> QED BY <1>2, <3>1 DEF InMemory
  <2>2. CASE v # w
    BY <1>5, <2>2 DEF InMemory
  <2> QED BY <2>1, <2>2
<1>7. InMemory' \subseteq InMemory
  BY <1>4, <1>6 DEF InMemory
<1> QED BY <1>7, LessInMemory DEF serverVars, setup

\* The views of the running build copy a row to the table of its event and to
\* no other.
LEMMA CopiedExactly ==
    ASSUME ServerInv, phase = "serving", storageType = "clickhouse", NumbersKept,
           NEW id \in Ids, rows'[id] > rows[id], id \notin lost',
           NEW i \in 1..Len(known), known[i] = eventOf[id]
    PROVE  Copied(id) = {eventOf[id]}
<1> USE DEF ServerInv
<1>1. eventOf[id] \in Events
  BY KnownIsSeq, ElementOfSeq
<1>2. View(eventOf[id], i) \in objects
  BY ViewsThere
<1>3. ASSUME NEW e \in Copied(id) PROVE e = eventOf[id]
  BY <1>3, NoOtherView DEF Copied
<1>4. eventOf[id] \in Copied(id)
  BY <1>1, <1>2 DEF Copied
<1> QED BY <1>3, <1>4

LEMMA FlushGood ==
    ASSUME ServerInv, NEW w \in Workers, Flush(w)
    PROVE  GoodInv' /\ TypedInv'
<1> USE DEF ServerInv
<1>1. PICK o \in Outcomes(backend, batch[w]) :
         /\ rows' = [id \in Ids |-> IF id \in o.rows THEN rows[id] + 1 ELSE rows[id]]
         /\ lost \subseteq lost'
  BY DEF Flush, FlushReturns
<1>2. /\ batch[w] \in Seq(Messages) /\ backend \in {"mongo", "clickhouse"}
      /\ rows \in [Ids -> Nat] /\ batch \in [Workers -> Seq(Messages)]
      /\ typed \in [Ids -> SUBSET Events]
  BY IngesterAssumption DEF PoolInv, TypeInv, TypeOK, ShapeInv
<1>3. /\ batch' = [batch EXCEPT ![w] = <<>>] /\ UNCHANGED <<channel, sendq>>
      /\ UNCHANGED <<storageType, known, objects, builds, eventOf>> /\ phase = "serving"
      /\ typed' = [id \in Ids |-> typed[id] \cup Copied(id)]
  BY DEF Flush, FlushReturns, ResetBatch, setup
<1>4. GoodInv'
  <2>1. ElementsOf(<<>>) = {}
    BY DEF ElementsOf
  <2>2. ASSUME NEW v \in Workers PROVE ElementsOf(batch'[v]) \subseteq ElementsOf(batch[v])
    BY <1>2, <1>3, <2>1
  <2>3. InMemory' \subseteq InMemory
    BY <1>3, <2>2 DEF InMemory
  <2> QED BY <1>3, <2>3, LessInMemory
<1>5. ASSUME NEW id \in Ids, ~(rows'[id] > rows[id])
      PROVE  typed'[id] = typed[id] /\ rows'[id] = rows[id]
  <2>1. Copied(id) = {}
    BY <1>5 DEF Copied
  <2> QED BY <1>1, <1>2, <1>3, <1>5, <2>1
<1>6. UntypedInv'
  <2>1. ASSUME NEW id \in Ids, rows'[id] = 0 PROVE typed'[id] = {}
    <3>1. ~(rows'[id] > rows[id]) /\ rows[id] = 0
      BY <1>1, <1>2, <2>1
    <3> QED BY <1>5, <3>1 DEF TypedInv, UntypedInv
  <2> QED BY <2>1 DEF UntypedInv
<1>7. ASSUME storageType' = "clickhouse", NumbersKept', NEW id \in Ids,
             rows'[id] > 0, id \notin lost'
      PROVE  typed'[id] = {eventOf'[id]}
  <2>1. NumbersKept /\ storageType = "clickhouse"
    BY <1>3, <1>7 DEF NumbersKept
  <2>2. CASE id \in o.rows
    <3>1. PICK m \in ElementsOf(batch[w]) : m.id = id /\ m.kind = "good"
      BY <1>2, <2>2, RowsAreGood
    <3>2. m \in InMemory
      BY <3>1 DEF InMemory
    <3>3. PICK i \in 1..Len(known) : known[i] = eventOf[id]
      BY <3>1, <3>2 DEF GoodInv
    <3>4. rows'[id] > rows[id]
      BY <1>1, <1>2, <2>2
    <3>5. Copied(id) = {eventOf[id]}
      BY <1>3, <1>7, <2>1, <3>3, <3>4, CopiedExactly
    <3>6. rows[id] = 0
      <4>1. id \in Unwritten
        BY <3>1, <3>2, InMemoryIds
      <4> QED BY <1>2, <4>1, UnwrittenIsUnsettled DEF Settled
    <3> QED BY <1>3, <3>5, <3>6 DEF TypedInv, UntypedInv
  <2>3. CASE id \notin o.rows
    <3>1. rows'[id] = rows[id]
      BY <1>1, <2>3
    <3>2. rows[id] > 0 /\ id \notin lost /\ ~(rows'[id] > rows[id])
      BY <1>1, <1>2, <1>7, <3>1
    <3> QED BY <1>3, <1>5, <2>1, <3>2 DEF TypedInv, TypedExact
  <2> QED BY <2>2, <2>3
<1> QED BY <1>4, <1>6, <1>7 DEF TypedInv, TypedExact

LEMMA ProcessEndsGood ==
    ASSUME ServerInv, ProcessEnds PROVE GoodInv' /\ TypedInv'
<1> USE DEF ServerInv
<1>1. PICK R \in SUBSET InFlight :
         rows' = [id \in Ids |-> IF id \in R THEN rows[id] + 1 ELSE rows[id]]
  BY DEF ProcessEnds, InFlight
<1>2. /\ R \subseteq lost' /\ lost \subseteq lost'
      /\ UNCHANGED <<typed, storageType, builds, eventOf>> /\ rows \in [Ids -> Nat]
  BY <1>1 DEF ProcessEnds, InFlight, Flushing, Unwritten, InBatch, setup, PoolInv, TypeInv, TypeOK
<1>3. TypedExact'
  BY <1>1, <1>2 DEF TypedInv, TypedExact, NumbersKept
<1>4. UntypedInv'
  BY <1>1, <1>2 DEF TypedInv, UntypedInv
<1>5. channel' = <<>> /\ sendq' = <<>> /\ batch' = [w \in Workers |-> <<>>]
  BY DEF ProcessEnds
<1>6. InMemory' = {}
  BY <1>5 DEF InMemory, ElementsOf
<1> QED BY <1>3, <1>4, <1>6 DEF GoodInv, TypedInv

\* Steps that leave the rows alone; with more builds, fewer histories keep the
\* numbers.
LEMMA SameRows ==
    ASSUME TypedInv, UNCHANGED <<storageType, rows, lost, typed>>, builds \subseteq builds',
           \A id \in Ids : rows[id] > 0 => eventOf'[id] = eventOf[id]
    PROVE  TypedInv'
<1>1. NumbersKept' => NumbersKept
  BY DEF NumbersKept
<1> QED BY <1>1 DEF TypedInv, UntypedInv, TypedExact

LEMMA NextServerInv == ServerInv /\ [ServerNext]_allVars => ServerInv'
<1> SUFFICES ASSUME ServerInv, [ServerNext]_allVars PROVE GoodInv' /\ TypedInv'
  BY NextPoolInv, NextShapeInv DEF ServerInv
<1> USE DEF ServerInv
<1>1. ASSUME NEW d \in Deployments, Start(d) PROVE GoodInv' /\ TypedInv'
  <2>1. Unwritten = {} /\ UNCHANGED <<vars, storageType, typed>>
    BY <1>1 DEF Start, ShapeInv
  <2>2. InMemory = {}
    BY <2>1, InMemoryIds
  <2>3. InMemory' = {}
    BY <2>1, <2>2 DEF vars, InMemory
  <2>4. builds \subseteq builds' /\ eventOf' = eventOf
    BY <1>1 DEF Start
  <2> QED BY <2>1, <2>3, <2>4, SameRows DEF GoodInv, vars
<1>2. ASSUME UNCHANGED <<vars, storageType, known, builds, typed, eventOf>>
      PROVE  GoodInv' /\ TypedInv'
  <2>1. InMemory' = InMemory
    BY <1>2 DEF vars, InMemory
  <2> QED BY <1>2, <2>1, LessInMemory, SameRows DEF vars
<1>3. CASE Execute \/ ExecuteFails \/ LaunchListener \/ StartFails
  BY <1>2, <1>3 DEF Execute, ExecuteFails, LaunchListener, StartFails, setup
<1>4. ASSUME NEW h \in Handlers, Accept(h) \/ Close(h) PROVE GoodInv' /\ TypedInv'
  BY <1>2, <1>4 DEF Accept, Close, setup
<1>5. ASSUME NEW h \in Handlers, NEW e \in Events, Deliver(h, e)
      PROVE  GoodInv' /\ TypedInv'
  <2>1. UNCHANGED <<storageType, rows, lost, typed, builds>>
    BY <1>5 DEF Deliver, Enqueue, setup
  <2>2. \A id \in Ids : rows[id] > 0 => eventOf'[id] = eventOf[id]
    BY <1>5, PostedGrows, RowsArePosted
  <2> QED BY <1>5, <2>1, <2>2, DeliverGood, SameRows
<1>6. ASSUME NEW w \in Workers, WorkerReceives(w) PROVE GoodInv' /\ TypedInv'
  <2>1. UNCHANGED <<storageType, rows, lost, typed, builds, eventOf>>
    BY <1>6 DEF WorkerReceives, Receive, serverVars, setup
  <2> QED BY <1>6, <2>1, ReceiveGood, SameRows DEF WorkerReceives
<1>7. ASSUME NEW w \in Workers, WorkerTicks(w) PROVE GoodInv' /\ TypedInv'
  <2>1. /\ UNCHANGED <<storageType, known, builds, eventOf, typed>>
        /\ UNCHANGED <<channel, sendq, batch, rows, lost>>
    BY <1>7 DEF WorkerTicks, Tick, serverVars, setup
  <2>2. InMemory' = InMemory
    BY <2>1 DEF InMemory
  <2> QED BY <2>1, <2>2, LessInMemory, SameRows
<1>8. CASE UNCHANGED allVars
  BY <1>2, <1>8 DEF allVars, serverVars, setup
<1> QED BY <1>1, <1>3, <1>4, <1>5, <1>6, <1>7, <1>8, FlushGood, ProcessEndsGood
        DEF ServerNext, FlushPanics, AcceptFails

\* The typed tables are exact, for every sequence of builds that keep the
\* numbers of their events and of set-ups that failed half way: every row a
\* successful Flush wrote is in the typed table of its event and in no other
\* (clickhouse_init.go: Init, Migrate; the views of code_gen.py).
THEOREM TypedExactCorrect == ServerSpec => []TypedExact
<1>1. ServerInv => TypedExact
  BY DEF ServerInv, TypedInv
<1> QED BY <1>1, InitServerInv, NextServerInv, PTL DEF ServerSpec
=============================================================================
