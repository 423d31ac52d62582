------------------------- MODULE PosixClientsProofs -------------------------
(***************************************************************************)
(* Proof, for every value of the constants, that the asynchronous client   *)
(* waits on the socket it logs to.                                         *)
(***************************************************************************)
EXTENDS PosixClients, TLAPS

\* Whoever watches a socket is the asynchronous client, in async mode, in which
\* send never writes and so never reconnects.
Watching == watched = fd /\ asyncMode /\ client = "async"

WatchInv ==
    /\ watched # NoFd => Watching /\ at \notin {"construct", "limit", "mode", "epoll_ctl"}
    /\ at = "mode" => client = "async"
    /\ at = "epoll_ctl" => client = "async" /\ asyncMode
    /\ at \in {"epoll_wait", "onWriteOpportunity"} => watched # NoFd
    /\ client = "async" /\ at \in {"event0", "event1"} => watched # NoFd

\* In async mode send leaves the connection and the mode alone.
LEMMA AsyncSendKeepsFd ==
    ASSUME asyncMode, NEW cap, Send(cap) PROVE UNCHANGED <<fd, asyncMode>>
BY DEF Send, SendDropped, SendQueued, SendWritten, SendFailed, SendKilled, Post, MustQueue,
       conf, kernel, counters

\* Whatever the client does, once its socket is watched the descriptor and the
\* mode stay.
LEMMA WatchStep == WatchInv /\ [ClientNext]_allVars => WatchInv'
<1> SUFFICES ASSUME WatchInv, [ClientNext]_allVars PROVE WatchInv'
  OBVIOUS
<1>1. CASE ClientConstructs
  BY <1>1 DEF ClientConstructs, Steps, WatchInv, Watching
<1>2. ASSUME NEW n \in QueueMaxSizes, SetsLimit(n) PROVE WatchInv'
  BY <1>2 DEF SetsLimit, Steps, WatchInv, Watching
<1>3. CASE SetsMode
  <2>1. at = "mode" /\ at' = "epoll_ctl" /\ asyncMode' = TRUE /\ UNCHANGED <<client, watched, fd>>
    BY <1>3 DEF SetsMode, Steps, SetAsyncMode
  <2>2. client = "async"
    BY <2>1 DEF WatchInv
  <2> QED BY <2>1, <2>2 DEF WatchInv, Watching
<1>4. CASE EpollAdds
  BY <1>4 DEF EpollAdds, WatchInv, Watching, vars
<1>5. CASE EpollAddFails \/ EpollReturns
  BY <1>5 DEF EpollAddFails, EpollReturns, Steps, WatchInv, Watching, vars
<1>6. ASSUME NEW i, NEW to, LogEvent(i), at \in {"event0", "event1"},
             to \in {"event0", "event1", "onWriteOpportunity"},
             client # "async" => to # "onWriteOpportunity",
             at' = to, UNCHANGED <<client, watched>>
      PROVE  WatchInv'
  <2>1. CASE watched = NoFd
    BY <1>6, <2>1 DEF WatchInv, Watching
  <2>2. CASE watched # NoFd
    <3>1. asyncMode /\ client = "async" /\ watched = fd
      BY <2>2 DEF WatchInv, Watching
    <3>2. UNCHANGED <<fd, asyncMode>>
      BY <1>6, <3>1, AsyncSendKeepsFd DEF LogEvent, vars
    <3> QED BY <1>6, <2>2, <3>1, <3>2 DEF WatchInv, Watching
  <2> QED BY <2>1, <2>2
<1>7. CASE LogsEvent0 \/ LogsEvent1
  BY <1>6, <1>7 DEF LogsEvent0, LogsEvent1, AfterEvents, Steps
<1>8. CASE Drains \/ DrainGoesOn
  <2>1. UNCHANGED <<fd, asyncMode, client, watched>>
    BY <1>8 DEF Drains, DrainGoesOn, Steps, OnWriteOpportunity, DrainWrite, DrainKilled,
                clientVars, conf, vars
  <2>2. at' \in {at, "epoll_wait"}
    BY <1>8 DEF Drains, DrainGoesOn, Steps, clientVars
  <2>3. at' = "epoll_wait" /\ at # "epoll_wait" => at = "onWriteOpportunity"
    BY <1>8 DEF Drains, DrainGoesOn, Steps, clientVars
  <2> QED BY <2>1, <2>2, <2>3 DEF WatchInv, Watching
<1>9. CASE AsyncEnds \/ SimpleEnds
  BY <1>9 DEF AsyncEnds, SimpleEnds, Steps, ConnectionGracefulShutdown, WatchInv, Watching, conf, vars
<1>10. ASSUME NEW c \in Conns, NetworkBreaks(c) PROVE WatchInv'
  BY <1>10 DEF NetworkBreaks, Break, WatchInv, Watching, clientVars, conf
<1>11. CASE UNCHANGED allVars
  BY <1>11 DEF allVars, clientVars, vars, WatchInv, Watching
<1> QED BY <1>1, <1>2, <1>3, <1>4, <1>5, <1>7, <1>8, <1>9, <1>10, <1>11
        DEF ClientNext, Progress

\* The asynchronous client waits on the socket it logs to: no call of send or
\* onWriteOpportunity replaces the connection behind epoll's back
\* (examples/async_logging: run_loop; PosixIO.cc: send).
THEOREM EpollWatchesSocketCorrect == ClientSpec => []EpollWatchesSocket
<1>1. ClientInit => WatchInv
  BY DEF ClientInit, WatchInv, Watching
<1>2. WatchInv => EpollWatchesSocket
  BY DEF WatchInv, Watching, EpollWatchesSocket
<1> QED BY <1>1, <1>2, WatchStep, PTL DEF ClientSpec
=============================================================================
