------------------------------ MODULE Listener ------------------------------
(***************************************************************************)
(* The receiving side of the server, server/listener/listener.go: the      *)
(* accept loop and one handleConnection per connection, which cuts a byte  *)
(* stream back into frames and gives their bodies to ingester.Enqueue.     *)
(*                                                                         *)
(* A read may return any part of what it asks for, with or without an      *)
(* error, so a header and a body may come in any number of pieces.  The    *)
(* handlers are goroutines; each is blocked in a read or in Enqueue        *)
(* between two steps.                                                      *)
(*                                                                         *)
(* Abstractions: a connection is the sequence of bytes its client wrote to *)
(* it.  A buffer holds the bytes read into it.  The channel behind Enqueue *)
(* is, for each connection, the sequence of the bodies it accepted; the    *)
(* call may take any time (module Ingester).                               *)
(***************************************************************************)
EXTENDS Integers, Sequences, FiniteSets

CONSTANTS
    Conns,       \* connections
    Bodies,      \* bodies of the frames clients send
    ShortBody,   \* length of the longest body that is refused: 12 in the code
    MaxFrames    \* bound: frames of a connection

Byte == 0..255

\* The header of a frame is a uint32: a longer body has no frame.
ASSUME ListenerAssumption ==
    /\ Bodies \subseteq Seq(Byte)
    /\ \A body \in Bodies : Len(body) \div 16777216 \in Byte
    /\ ShortBody \in Nat \ {0}
    /\ MaxFrames \in Nat

HeaderLen == 4

\* The bodies a handler passes on are longer than an event id and four bytes.
LongerByOne(len) == len > ShortBody + 1  \* mutant
LongEnough(len) == len > ShortBody

VARIABLES
    sent,       \* frames the client of each connection sent: where each one
                \* begins on the wire, and its body
    wire,       \* their bytes, as the connection carries them
    handler,    \* local variables of each handleConnection
    enqueued,   \* bodies of each connection that ingester.Enqueue has accepted
    up          \* FALSE once LaunchListener, and with it the process, has ended

vars == <<sent, wire, handler, enqueued, up>>

-----------------------------------------------------------------------------
(* Streams of bytes *)

HeaderBytes(len) ==
    <<len \div 16777216, (len \div 65536) % 256, (len \div 256) % 256, len % 256>>

\* binary.Read of a big-endian uint32
Uint32(buf) == ((buf[1] * 256 + buf[2]) * 256 + buf[3]) * 256 + buf[4]

\* conn.Read into a buffer with room for want bytes: the n bytes that follow.
ReadSizes(c, want) ==
    LET left == Len(wire[c]) - handler[c].pos
    IN 0..(IF want < left THEN want ELSE left)
Data(c, n) == SubSeq(wire[c], handler[c].pos + 1, handler[c].pos + n)

\* buf[:at] followed by what a read put into buf[at:]
Fill(buf, at, data) == SubSeq(buf, 1, at) \o data

-----------------------------------------------------------------------------
(* handleConnection.  Its states: "none" before the connection, "read" in a  *)
(* read, "enqueue" in ingester.Enqueue, "closed".                            *)

NoHandler == [pc |-> "none", pos |-> 0, packetLength |-> 0, alreadyRead |-> 0,
              headerBuf |-> <<>>, readBuf |-> <<>>, failed |-> FALSE]

Init ==
    /\ sent = [c \in Conns |-> <<>>]
    /\ wire = [c \in Conns |-> <<>>]
    /\ handler = [c \in Conns |-> NoHandler]
    /\ enqueued = [c \in Conns |-> <<>>]
    /\ up = TRUE

\* A client sends a frame, whatever the handler has read.
ClientSends(c) ==
    /\ up
    /\ handler[c].pc # "closed"
    /\ Len(sent[c]) < MaxFrames
    /\ \E body \in Bodies :
        /\ sent' = [sent EXCEPT ![c] = Append(@, [at |-> Len(wire[c]), body |-> body])]
        /\ wire' = [wire EXCEPT ![c] = @ \o HeaderBytes(Len(body)) \o body]
    /\ UNCHANGED <<handler, enqueued, up>>

Accept(c) ==
    /\ up
    /\ handler[c].pc = "none"
    /\ handler' = [handler EXCEPT ![c].pc = "read"]
    /\ UNCHANGED <<sent, wire, enqueued, up>>

\* A failing Accept ends LaunchListener and main, whatever the handlers do.
AcceptFails ==
    /\ up
    /\ up' = FALSE
    /\ UNCHANGED <<sent, wire, handler, enqueued>>

\* The handler h after a read of its header returned data, and an error if err.
AfterHeader(h, data, err) ==
    LET buf == Fill(h.headerBuf, h.alreadyRead, data)
        got == h.alreadyRead + Len(data)
        next == [h EXCEPT !.pos = @ + Len(data),
                          !.headerBuf = buf,
                          !.failed = err,
                          !.pc = IF err THEN "closed" ELSE "read"]
    IN IF got = HeaderLen
       THEN [next EXCEPT !.packetLength = Uint32(buf), !.alreadyRead = 0, !.readBuf = <<>>]
       ELSE [next EXCEPT !.alreadyRead = got]

\* After a read of its body: a body that is complete goes to Enqueue, a short
\* one ends the connection.
ShortIsSkipped(len, err) == IF err THEN "closed" ELSE "read"  \* mutant
AfterShort(len, err) == "closed"

AfterBody(h, data, err) ==
    LET got == h.alreadyRead + Len(data)
    IN [h EXCEPT !.pos = @ + Len(data),
                 !.readBuf = Fill(@, h.alreadyRead, data),
                 !.alreadyRead = got,
                 !.failed = err,
                 !.pc = IF got = h.packetLength
                        THEN IF LongEnough(got) THEN "enqueue" ELSE AfterShort(got, err)
                        ELSE IF err THEN "closed" ELSE "read"]

Read(c) ==
    /\ up
    /\ handler[c].pc = "read"
    /\ \E err \in BOOLEAN :
        IF handler[c].packetLength = 0
        THEN \E n \in ReadSizes(c, HeaderLen - handler[c].alreadyRead) :
                /\ n > 0 \/ err
                /\ handler' = [handler EXCEPT ![c] = AfterHeader(@, Data(c, n), err)]
        ELSE \E n \in ReadSizes(c, handler[c].packetLength - handler[c].alreadyRead) :
                /\ n > 0 \/ err
                /\ handler' = [handler EXCEPT ![c] = AfterBody(@, Data(c, n), err)]
    /\ UNCHANGED <<sent, wire, enqueued, up>>

\* Enqueue returns: the handler turns to the next header, or ends if the read
\* had failed.
Resume(h) == [h EXCEPT !.alreadyRead = 0, !.pc = IF h.failed THEN "closed" ELSE "read"]
KeepLength(h) == Resume(h)  \* mutant
NextFrame(h) == [Resume(h) EXCEPT !.packetLength = 0]

EnqueueReturns(c) ==
    /\ up
    /\ handler[c].pc = "enqueue"
    /\ enqueued' = [enqueued EXCEPT ![c] = Append(@, handler[c].readBuf)]
    /\ handler' = [handler EXCEPT ![c] = NextFrame(@)]
    /\ UNCHANGED <<sent, wire, up>>

Next ==
    \/ AcceptFails
    \/ \E c \in Conns : ClientSends(c)
    \/ \E c \in Conns : Accept(c)
    \/ \E c \in Conns : Read(c)
    \/ \E c \in Conns : EnqueueReturns(c)

Spec == Init /\ [][Next]_vars

\* Goroutines that can go on are run, a read that has bytes to take returns,
\* and (module Ingester) Enqueue returns.  No client has to send a frame.
FairSpec ==
    /\ Spec
    /\ \A c \in Conns :
        /\ WF_vars(Accept(c))
        /\ WF_vars(handler[c].pos < Len(wire[c]) /\ Read(c))
        /\ WF_vars(EnqueueReturns(c))

-----------------------------------------------------------------------------
(* Properties *)

Frame == [at : Nat, body : Bodies]
HandlerState ==
    [pc : {"none", "read", "enqueue", "closed"}, pos : Nat, packetLength : Nat,
     alreadyRead : Nat, headerBuf : Seq(Byte), readBuf : Seq(Byte), failed : BOOLEAN]

\* Every variable stays in its type, and a handler that reads a body has room
\* left in it: a full buffer would make its loop spin without reading.
TypeOK ==
    /\ sent \in [Conns -> Seq(Frame)]
    /\ wire \in [Conns -> Seq(Byte)]
    /\ handler \in [Conns -> HandlerState]
    /\ enqueued \in [Conns -> Seq(Seq(Byte))]
    /\ up \in BOOLEAN
    /\ \A c \in Conns : LET h == handler[c] IN
        /\ h.pos <= Len(wire[c])
        /\ Len(h.headerBuf) <= HeaderLen
        /\ h.packetLength > 0 => Len(h.readBuf) <= h.packetLength
        /\ h.pc = "read" =>
            h.alreadyRead < (IF h.packetLength = 0 THEN HeaderLen ELSE h.packetLength)

\* Of the frames a client sent, those the server has to take: they are not empty,
\* and neither they nor a frame before them is short.  The server skips empty
\* frames and closes on short ones.
Short(len) == len > 0 /\ len <= ShortBody
Acceptable(frames) ==
    {k \in DOMAIN frames : /\ Len(frames[k].body) > 0
                           /\ \A j \in 1..k : ~Short(Len(frames[j].body))}
Upto(frames, k) == {j \in Acceptable(frames) : j <= k}

\* The bodies are the first of those the server has to take, each of them whole,
\* once and in the order they were sent.
FirstBodies(frames, bodies) ==
    \A i \in DOMAIN bodies :
        \E k \in Acceptable(frames) :
            Cardinality(Upto(frames, k)) = i /\ bodies[i] = frames[k].body

\* Framing over any division of a stream into reads: what a connection's handler
\* enqueues are the first of the bodies its client sent that the server takes.
DeliveredIsPrefix == \A c \in Conns : FirstBodies(sent[c], enqueued[c])

\* Every body a client sent is enqueued in the end, unless a read fails, a short
\* frame comes first or the process ends.
EveryBodyDelivered ==
    \A c \in Conns :
        []<>(Len(enqueued[c]) = Cardinality(Acceptable(sent[c])) \/ handler[c].failed \/ ~up)

\* The safety half of it: a handler that waits for bytes and has read all that
\* its client sent has enqueued all the bodies the server has to take.
NothingLeftBehind ==
    \A c \in Conns :
        handler[c].pc = "read" /\ handler[c].pos = Len(wire[c]) =>
            Len(enqueued[c]) = Cardinality(Acceptable(sent[c]))

\* A handler whose reads do not fail ends only on a short frame.
ClosesOnlyOnErrorOrShort ==
    \A c \in Conns :
        handler[c].pc = "closed" /\ ~handler[c].failed =>
            \E k \in DOMAIN sent[c] : Short(Len(sent[c][k].body))
=============================================================================
