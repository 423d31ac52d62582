---------------------------- MODULE PosixClients ----------------------------
(***************************************************************************)
(* The two example clients of the POSIX transport: run_loop of             *)
(* examples/simple_logging, which logs in sync mode, and run_loop of       *)
(* examples/async_logging, which waits with epoll for its socket to be     *)
(* writable.  PosixIO is a most general client; these two call its         *)
(* operations in one order, and are what decides whether what the          *)
(* transport queues ever leaves it.                                        *)
(*                                                                         *)
(* Every thread of an example has a PosixIO of its own: one is modelled.   *)
(* A run may end at any turn of its loop.  A socket stays in the epoll set *)
(* when it breaks (epoll then reports it at once, every time).             *)
(***************************************************************************)
EXTENDS PosixIO

CONSTANTS
    Clients,      \* subset of {"simple", "async"}: clients explored
    EventSizes    \* capacities of the buffers of event0 and event1

ASSUME ClientsAssumption ==
    /\ Clients \subseteq {"simple", "async"}
    /\ EventSizes \in Sizes \X Sizes

VARIABLES
    client,    \* which of the two runs
    at,        \* where in run_loop it is
    watched    \* descriptor in the epoll set

clientVars == <<client, at, watched>>
allVars    == <<vars, clientVars>>

\* An operation of the transport returns before run_loop goes on.
Steps(from, to) ==
    /\ at = from
    /\ at' = to
    /\ pc \in {"new", "idle"}
    /\ UNCHANGED <<client, watched>>

ClientInit ==
    /\ Init
    /\ client \in Clients
    /\ at = "construct"
    /\ watched = NoFd

ClientConstructs == Steps("construct", "limit") /\ Construct

SetsLimit(n) ==
    /\ Steps("limit", IF client = "async" THEN "mode" ELSE "event0")
    /\ SetQueueMaxSize(n)

SetsMode == Steps("mode", "epoll_ctl") /\ SetAsyncMode(TRUE)

EpollAdds ==
    /\ at = "epoll_ctl"
    /\ fd # NoFd
    /\ watched' = fd
    /\ at' = "epoll_wait"
    /\ UNCHANGED <<vars, client>>

\* There is no connection: run_loop returns.
EpollAddFails == Steps("epoll_ctl", "stopped") /\ fd = NoFd /\ UNCHANGED vars

\* The watched socket is writable or broken; an event of another descriptor
\* than the transport's is passed over.
EpollReturns ==
    /\ Steps("epoll_wait", IF watched = fd THEN "event0" ELSE "epoll_wait")
    /\ UNCHANGED vars

\* Once MaxMsgs events were logged a call has no effect: a bound.
LogEvent(i) ==
    \/ Send(EventSizes[i])
    \/ posted + dropped = MaxMsgs /\ UNCHANGED vars

LogsEvent0 == Steps("event0", "event1") /\ LogEvent(1)

NeverDrains == IF client = "async" THEN "epoll_wait" ELSE "event0"  \* mutant
AfterEvents == IF client = "async" THEN "onWriteOpportunity" ELSE "event0"

LogsEvent1 == Steps("event1", AfterEvents) /\ LogEvent(2)

Drains ==
    /\ Steps("onWriteOpportunity", "epoll_wait")
    /\ OnWriteOpportunity \/ (queue = <<>> /\ UNCHANGED vars)

DrainGoesOn == (DrainWrite \/ DrainKilled) /\ UNCHANGED clientVars

\* The time to run is over: the async client shuts its connection down, the
\* simple one just reads the counters.
AsyncEnds  == client = "async" /\ Steps("epoll_wait", "stopped") /\ ConnectionGracefulShutdown
SimpleEnds == client = "simple" /\ Steps("event0", "stopped") /\ UNCHANGED vars

NetworkBreaks(c) == Break(c) /\ UNCHANGED clientVars

Progress ==
    \/ ClientConstructs
    \/ \E n \in QueueMaxSizes : SetsLimit(n)
    \/ SetsMode
    \/ EpollAdds
    \/ EpollAddFails
    \/ EpollReturns
    \/ LogsEvent0
    \/ LogsEvent1
    \/ Drains
    \/ DrainGoesOn

ClientNext ==
    \/ Progress
    \/ AsyncEnds
    \/ SimpleEnds
    \/ \E c \in Conns : NetworkBreaks(c)

ClientSpec == ClientInit /\ [][ClientNext]_allVars

\* The thread runs, and (external) a socket becomes writable again: the server
\* goes on reading.  No run has to end.
ClientFairSpec == ClientSpec /\ WF_allVars(Progress)

-----------------------------------------------------------------------------
(* Properties *)

\* The async client waits on the socket it logs to: no call replaces the
\* connection behind epoll's back, which would leave the loop waiting on the
\* old descriptor and passing over its events.  So a connection that broke is
\* not replaced either.
EpollWatchesSocket == watched # NoFd => watched = fd

Open == fd # NoFd /\ sock[fd] = "open"

\* An accepted event is sent, unless the connection breaks or the run ends.
EventsLeave(kind) ==
    \A id \in 1..MaxMsgs :
        (client = kind /\ posted >= id) ~>
            (sentCnt >= id \/ ~Open \/ at = "stopped" \/ fails = MaxFails)

\* It holds of the async client over partial writes and refused ones (a bound
\* on these, fails, ends what is explored).
AsyncEventsLeave == EventsLeave("async")

\* What docs/architecture.md says of sync mode: LogEvent blocks until capacity
\* becomes available, and no event is lost.  The simple client breaks it:
\* behind a buffer that a failed or partial write left in the queue every event
\* is only queued, and nothing drains the queue.
SyncEventsLeave == EventsLeave("simple")
=============================================================================
