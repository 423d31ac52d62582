------------------------------- MODULE Server -------------------------------
(***************************************************************************)
(* The logging server as a process that starts, serves and ends over a     *)
(* database that stays: server/main/main.go, the set-up of the storage     *)
(* (tools/codegen/templates, and the migrations tools/code_gen.py writes), *)
(* the accept loop of server/listener and, EXTENDed, the worker pool.      *)
(*                                                                         *)
(* A process ends when Accept fails (being killed has the same effect) or  *)
(* when Flush is called on a storage that was never set.  What it holds in *)
(* memory is gone, and a Flush under way may have written rows or not.     *)
(* The next process may be a newer or an older build, with other events.   *)
(* The number of an event is its place in the list its build was generated *)
(* from (counted from 0 there and from 1 here); a row of the events table  *)
(* has the number, and a view has the one of the build that created it.    *)
(*                                                                         *)
(* Abstractions: a connection delivers whole messages (module Listener has *)
(* the bytes).  The event of a message is what the running build takes its *)
(* number for, whatever the client that sent it was built from.  An event  *)
(* keeps its fields from build to build.  What a failing INSERT leaves in  *)
(* a typed table is left open: typed has the rows of the others.           *)
(***************************************************************************)
EXTENDS Ingester, Functions

CONSTANTS
    Events,        \* event types
    Deployments,   \* builds of the server: their generated events, in order
    StorageTypes,  \* values of StorageType explored; "other" is neither database
    MaxStarts      \* bound: processes started

ASSUME ServerAssumption ==
    /\ Deployments \subseteq Seq(Events)
    /\ \A d \in Deployments : IsInjective(d)
    /\ Backends \subseteq StorageTypes
    /\ StorageTypes \subseteq Backends \cup {"other"}
    /\ {"good", "unknown", "bad"} \subseteq InKinds
    /\ MaxStarts \in Nat

VARIABLES
    storageType,   \* storageConfig.StorageType
    phase,         \* "down", "starting" (until LaunchListener listens), "serving"
    known,         \* the events of the running build
    step,          \* statements of the set-up it has executed
    objects,       \* database: ClickHouse tables and materialized views
    typed,         \* database: the events in whose typed tables each message has a row
    eventOf,       \* the event type of each message given to Enqueue
    conns,         \* handlers with an open connection
    starts,        \* history: processes started
    builds         \* history: their builds

setup      == <<storageType, known, step, objects, starts, builds>>
serverVars == <<setup, phase, typed, eventOf, conns>>
allVars    == <<vars, serverVars>>

-----------------------------------------------------------------------------
(* Start-up                                                                *)

\* An object of the database has a name, and a view the number it selects.
Table(e)   == [name |-> <<"table", e>>, selects |-> 0]
View(e, i) == [name |-> <<"view", e>>, selects |-> i]
EventTable == [name |-> <<"events">>, selects |-> 0]

\* What clickhouse.Init executes: the table of all events, then for every event
\* its typed table and the view that fills it.  mongo.Init executes nothing.
Migrations ==
    [i \in 1..(2 * Len(known)) |->
        IF i % 2 = 1 THEN Table(known[(i + 1) \div 2]) ELSE View(known[i \div 2], i \div 2)]
Statements == IF storageType = "clickhouse" THEN <<EventTable>> \o Migrations ELSE <<>>

\* CREATE ... IF NOT EXISTS: what has the name stays as it is, whatever a view
\* of that name selects.
Created(o) == IF \E p \in objects : p.name = o.name THEN objects ELSE objects \cup {o}

ServerInit ==
    /\ Init
    /\ storageType \in StorageTypes
    /\ storageType \in {backend, "other"}
    /\ phase = "down" /\ known = <<>> /\ step = 0 /\ starts = 0 /\ builds = {}
    /\ objects = {} /\ typed = [id \in Ids |-> {}] /\ conns = {} /\ eventOf = <<>>

Start(d) ==
    /\ phase = "down"
    /\ starts < MaxStarts
    /\ starts' = starts + 1
    /\ builds' = builds \cup {d}
    /\ phase' = "starting"
    /\ known' = d
    /\ step' = 0
    /\ UNCHANGED <<vars, storageType, objects, typed, eventOf, conns>>

\* One statement of the set-up.
Execute ==
    /\ phase = "starting"
    /\ step < Len(Statements)
    /\ objects' = Created(Statements[step + 1])
    /\ step' = step + 1
    /\ UNCHANGED <<vars, storageType, phase, known, starts, builds, typed, eventOf, conns>>

\* It fails, with or without effect: Migrate and Init return the error, and
\* main ends the process.
GoesOn == "starting"  \* mutant: an error that is printed and ignored
AfterError == "down"

ExecuteFails ==
    /\ phase = "starting"
    /\ step < Len(Statements)
    /\ objects' \in {objects, Created(Statements[step + 1])}
    /\ step' = step + 1
    /\ phase' = AfterError
    /\ UNCHANGED <<vars, storageType, known, starts, builds, typed, eventOf, conns>>

\* ingester.Init and LaunchListener, up to a listening socket.
LaunchListener ==
    /\ phase = "starting"
    /\ step = Len(Statements)
    /\ phase' = "serving"
    /\ UNCHANGED <<vars, setup, typed, eventOf, conns>>

\* The configuration, the connection to the database or the socket fails.
StartFails ==
    /\ phase = "starting"
    /\ phase' = "down"
    /\ UNCHANGED <<vars, setup, typed, eventOf, conns>>

-----------------------------------------------------------------------------
(* Serving                                                                 *)

Accept(h) ==
    /\ phase = "serving"
    /\ h \notin conns
    /\ conns' = conns \cup {h}
    /\ UNCHANGED <<vars, setup, phase, typed, eventOf>>

\* handleConnection ends; not while it is blocked in Enqueue.
Close(h) ==
    /\ h \in conns
    /\ ~Blocked(h)
    /\ conns' = conns \ {h}
    /\ UNCHANGED <<vars, setup, phase, typed, eventOf>>

\* What the Flush of the running build will make of a message of event type e.
KindsOf(e) ==
    IF \E i \in 1..Len(known) : known[i] = e THEN {"good", "bad"} ELSE {"unknown"}

Deliver(h, e) ==
    /\ phase = "serving"
    /\ h \in conns
    /\ \E kind \in KindsOf(e) : Enqueue(h, kind)
    /\ eventOf' = Append(eventOf, e)
    /\ UNCHANGED <<setup, phase, typed, conns>>

WorkerReceives(w) == phase = "serving" /\ Receive(w) /\ UNCHANGED serverVars
WorkerTicks(w)    == phase = "serving" /\ Tick(w) /\ UNCHANGED serverVars

\* A row of the events table has the number its event has in the running build;
\* every view that selects this number copies it to the table of its own event.
Copied(id) ==
    {e \in Events :
        /\ rows'[id] > rows[id] /\ id \notin lost'
        /\ \E i \in 1..Len(known) : known[i] = eventOf[id] /\ View(e, i) \in objects}

Flush(w) ==
    /\ phase = "serving"
    /\ storageType # "other"
    /\ FlushReturns(w)
    /\ typed' = [id \in Ids |-> typed[id] \cup Copied(id)]
    /\ UNCHANGED <<setup, phase, eventOf, conns>>

-----------------------------------------------------------------------------
(* The end of a process                                                    *)

Flushing == {w \in Workers : pc[w] \in {"full", "tick"}}

\* Rows the database may have taken of the calls of Flush that were under way.
MayHaveWritten(R) ==
    \A w \in Flushing :
        \/ R \cap MessageIds(batch[w]) = {}
        \/ /\ storageType # "other"
           /\ \E o \in Outcomes(backend, batch[w]) : R \cap MessageIds(batch[w]) = o.rows

Unwritten == MessageIds(channel) \cup MessageIds(sendq) \cup InBatch

ProcessEnds ==
    /\ phase = "serving"
    /\ phase' = "down"
    /\ conns' = {}
    /\ channel' = <<>>
    /\ sendq' = <<>>
    /\ batch' = [w \in Workers |-> <<>>]
    /\ pc' = [w \in Workers |-> "select"]
    /\ lost' = lost \cup Unwritten
    /\ \E R \in SUBSET UNION {MessageIds(batch[w]) : w \in Flushing} :
          /\ MayHaveWritten(R)
          /\ rows' = [id \in Ids |-> IF id \in R THEN rows[id] + 1 ELSE rows[id]]
    /\ UNCHANGED <<backend, posted, ignored, newest, setup, typed, eventOf>>

AcceptFails == ProcessEnds

\* StorageType is neither database: storageApi is nil, and Flush panics.
FlushPanics(w) == storageType = "other" /\ w \in Flushing /\ ProcessEnds

ServerNext ==
    \/ \E d \in Deployments : Start(d)
    \/ Execute
    \/ ExecuteFails
    \/ LaunchListener
    \/ StartFails
    \/ \E h \in Handlers : Accept(h)
    \/ \E h \in Handlers : Close(h)
    \/ \E h \in Handlers, e \in Events : Deliver(h, e)
    \/ \E w \in Workers : WorkerReceives(w)
    \/ \E w \in Workers : WorkerTicks(w)
    \/ \E w \in Workers : Flush(w)
    \/ \E w \in Workers : FlushPanics(w)
    \/ AcceptFails

ServerSpec == ServerInit /\ [][ServerNext]_allVars

\* As for Ingester while a process serves.  Nothing has to start one again.
ServerFairness ==
    \A w \in Workers :
        /\ WF_allVars(WorkerReceives(w))
        /\ WF_allVars(WorkerTicks(w))
        /\ WF_allVars(Flush(w))
        /\ WF_allVars(FlushPanics(w))

ServerFairSpec == ServerSpec /\ ServerFairness

-----------------------------------------------------------------------------
(* Properties *)

IsObject(o) ==
    \/ o = EventTable
    \/ \E e \in Events : o = Table(e)
    \/ \E e \in Events : o = View(e, o.selects) /\ o.selects \in Nat \ {0}

\* Every variable stays in its type, over every start and end of a process; no
\* message is in memory while no process runs.
ServerTypeOK ==
    /\ TypeOK
    /\ storageType \in StorageTypes
    /\ phase \in {"down", "starting", "serving"}
    /\ known \in {<<>>} \cup Deployments
    /\ step \in 0..Len(Statements)
    /\ \A o \in objects : IsObject(o)
    /\ typed \in [Ids -> SUBSET Events]
    /\ eventOf \in Seq(Events) /\ Len(eventOf) = posted
    /\ conns \subseteq Handlers
    /\ starts \in 0..MaxStarts /\ builds \subseteq Deployments
    /\ phase # "serving" => conns = {} /\ Unwritten = {}

\* No build started so far gives a number to an event that another gives to a
\* different one: events were only added behind the others, or removed there.
NumbersKept ==
    \A b, c \in builds : \A i \in 1..Len(b) : i <= Len(c) => b[i] = c[i]

\* The typed tables are exact: over set-ups that failed half way and ran again,
\* and over builds that keep the numbers of their events, every row a successful
\* Flush wrote to the events table is in the typed table of its event and in no
\* other.  (A build that inserts, removes or reorders events meets views that
\* select the old numbers, and rows go to a wrong table or to none.)
TypedExact ==
    storageType = "clickhouse" /\ NumbersKept =>
        \A id \in Ids : rows[id] > 0 /\ id \notin lost => typed[id] = {eventOf[id]}

\* The server implements EventLog over restarts: a process that ends settles
\* what it held, and nothing is written for it later or twice.
ServerImplementsEventLog == Log!LogSpec

\* Every message given to Enqueue is settled, by a Flush or by the end of the
\* process, unless every worker has ended on a failed flush of its ticker.
SettledAcrossRestarts ==
    \A id \in Ids : (posted >= id) ~> (id \in Settled \/ AllDead)
=============================================================================
