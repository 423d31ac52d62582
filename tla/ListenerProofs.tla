--------------------------- MODULE ListenerProofs ---------------------------
(***************************************************************************)
(* Proofs about module Listener.  All that is said of a connection is said *)
(* of its four values: the frames sent, the bytes on the wire, the handler *)
(* and the bodies enqueued.  A lemma for each kind of step shows that they *)
(* stay in agreement; the theorems put the connections together.           *)
(***************************************************************************)
EXTENDS Listener, FiniteSetTheorems, SequenceTheorems, TLAPS

\* Where the k-th frame begins on the wire, or will.
Begin(s, w, k) == IF k <= Len(s) THEN s[k].at ELSE Len(w)

\* The wire is the frames one after the other, each its header and its body.
Framed(s, w) ==
    /\ Begin(s, w, 1) = 0
    /\ \A k \in 1..Len(s) :
        /\ Begin(s, w, k + 1) = s[k].at + HeaderLen + Len(s[k].body)
        /\ Begin(s, w, k + 1) <= Len(w)
        /\ \A i \in 1..HeaderLen : w[s[k].at + i] = HeaderBytes(Len(s[k].body))[i]
        /\ \A i \in 1..Len(s[k].body) : w[s[k].at + HeaderLen + i] = s[k].body[i]

\* The frames the server has to take before the k-th.
Before(s, k) == {j \in Acceptable(s) : j < k}

\* The handler reads the header of the k-th frame: what it has of it is the
\* beginning of that header.
InHeader(s, w, h, k) ==
    /\ h.packetLength = 0
    /\ h.pc # "enqueue"
    /\ h.pc = "closed" => h.failed
    /\ h.alreadyRead < HeaderLen
    /\ h.alreadyRead <= Len(h.headerBuf)
    /\ h.pos = Begin(s, w, k) + h.alreadyRead
    /\ \A i \in 1..h.alreadyRead : h.headerBuf[i] = w[Begin(s, w, k) + i]

\* The handler knows the length of the k-th frame: what it has of its body is
\* the beginning of that body.
InBody(s, w, h, k) ==
    /\ k <= Len(s)
    /\ h.packetLength = Len(s[k].body)
    /\ h.packetLength > 0
    /\ h.pc # "none"
    /\ h.pc = "read" => h.alreadyRead < h.packetLength
    /\ h.pc = "enqueue" => h.alreadyRead = h.packetLength /\ h.packetLength > ShortBody
    /\ h.pc = "closed" /\ ~h.failed => h.packetLength <= ShortBody
    /\ h.alreadyRead <= h.packetLength
    /\ Len(h.readBuf) = h.alreadyRead
    /\ h.pos = s[k].at + HeaderLen + h.alreadyRead
    /\ \A i \in 1..h.alreadyRead : h.readBuf[i] = s[k].body[i]

\* The handler is at the k-th frame and has passed on those before it.
AtFrame(s, w, h, e, k) ==
    /\ \A j \in 1..(k - 1) : ~Short(Len(s[j].body))
    /\ Len(e) = Cardinality(Before(s, k))
    /\ h.pos <= Len(w)
    /\ Len(h.headerBuf) <= HeaderLen
    /\ InHeader(s, w, h, k) \/ InBody(s, w, h, k)

Agree(s, w, h, e) ==
    /\ s \in Seq(Frame) /\ w \in Seq(Byte) /\ h \in HandlerState /\ e \in Seq(Seq(Byte))
    /\ Framed(s, w)
    /\ FirstBodies(s, e)
    /\ \E k \in 1..(Len(s) + 1) : AtFrame(s, w, h, e, k)

\* The inductive invariant.
IInv ==
    /\ sent \in [Conns -> Seq(Frame)]
    /\ wire \in [Conns -> Seq(Byte)]
    /\ handler \in [Conns -> HandlerState]
    /\ enqueued \in [Conns -> Seq(Seq(Byte))]
    /\ up \in BOOLEAN
    /\ \A c \in Conns : Agree(sent[c], wire[c], handler[c], enqueued[c])

-----------------------------------------------------------------------------
(* Headers *)

LEMMA BodyType ==
    ASSUME NEW body \in Bodies
    PROVE  body \in Seq(Byte) /\ Len(body) \in Nat /\ Len(body) \div 16777216 \in Byte
BY ListenerAssumption, SMT

\* A header is four bytes, and they read as the length they were made of.
LEMMA HeaderReads ==
    ASSUME NEW len \in Nat, len \div 16777216 \in Byte
    PROVE  /\ HeaderBytes(len) \in Seq(Byte)
           /\ Len(HeaderBytes(len)) = HeaderLen
           /\ Uint32(HeaderBytes(len)) = len
<1> DEFINE a == len \div 16777216
           b == len \div 65536
           d == len \div 256
<1>1. a \in Byte /\ b % 256 \in Byte /\ d % 256 \in Byte /\ len % 256 \in Byte
      /\ b \in Nat /\ d \in Nat
  BY SMT DEF Byte
<1>2. len = d * 256 + (len % 256)
  BY SMT
<1>3. d = b * 256 + (d % 256)
  BY SMT
<1>4. b = a * 256 + (b % 256)
  BY SMT
<1>5. ((a * 256 + (b % 256)) * 256 + (d % 256)) * 256 + (len % 256) = len
  <2> HIDE DEF a, b, d
  <2> QED BY <1>1, <1>2, <1>3, <1>4, SMT DEF Byte
<1>6. HeaderBytes(len) = <<a, b % 256, d % 256, len % 256>>
  BY SMT DEF HeaderBytes
<1> QED
  <2> HIDE DEF a, b, d
  <2>1. HeaderBytes(len) \in Seq(Byte) /\ Len(HeaderBytes(len)) = HeaderLen
    BY <1>1, <1>6, SMT DEF HeaderLen
  <2>2. Uint32(HeaderBytes(len)) = len
    BY <1>5, <1>6, SMT DEF Uint32
  <2> QED BY <2>1, <2>2, SMT

LEMMA FrameBytes ==
    ASSUME NEW body \in Bodies
    PROVE  /\ body \in Seq(Byte) /\ Len(body) \in Nat
           /\ HeaderBytes(Len(body)) \in Seq(Byte)
           /\ Len(HeaderBytes(Len(body))) = HeaderLen
           /\ Uint32(HeaderBytes(Len(body))) = Len(body)
BY BodyType, HeaderReads, SMT

LEMMA FramesOf ==
    ASSUME NEW s \in Seq(Frame), NEW j \in 1..Len(s)
    PROVE  /\ s[j] \in Frame /\ s[j].at \in Nat /\ s[j].body \in Bodies
           /\ s[j].body \in Seq(Byte) /\ Len(s[j].body) \in Nat
<1>1. s[j] \in Frame
  OBVIOUS
<1>2. s[j].at \in Nat /\ s[j].body \in Bodies
  BY <1>1 DEF Frame
<1> QED BY <1>1, <1>2, FrameBytes

LEMMA Within ==
    ASSUME NEW at \in Nat, NEW len \in Nat, NEW all \in Nat, at + HeaderLen + len <= all
    PROVE  /\ \A i \in 1..HeaderLen : at + i \in 1..all
           /\ \A i \in 1..len : at + HeaderLen + i \in 1..all
           /\ \A more \in Nat : at + HeaderLen + len <= all + HeaderLen + more
BY DEF HeaderLen

\* Only the four bytes matter.
LEMMA Uint32OfSame ==
    ASSUME NEW x, NEW y, \A i \in 1..HeaderLen : x[i] = y[i]
    PROVE  Uint32(x) = Uint32(y)
BY DEF Uint32, HeaderLen

LEMMA ConcatBytes ==
    ASSUME NEW x \in Seq(Byte), NEW y \in Seq(Byte)
    PROVE  /\ x \o y \in Seq(Byte)
           /\ Len(x \o y) = Len(x) + Len(y)
           /\ \A i \in 1..Len(x) : (x \o y)[i] = x[i]
           /\ \A i \in 1..Len(y) : (x \o y)[Len(x) + i] = y[i]
<1>1. /\ x \o y \in Seq(Byte)
      /\ Len(x \o y) = Len(x) + Len(y)
      /\ \A i \in 1..(Len(x) + Len(y)) :
            (x \o y)[i] = IF i <= Len(x) THEN x[i] ELSE y[i - Len(x)]
  BY ConcatProperties
<1>2. Len(x) \in Nat /\ Len(y) \in Nat
  OBVIOUS
<1>3. ASSUME NEW i \in 1..Len(y)
      PROVE  (x \o y)[Len(x) + i] = y[i]
  <2>1. Len(x) + i \in 1..(Len(x) + Len(y)) /\ ~(Len(x) + i <= Len(x))
        /\ (Len(x) + i) - Len(x) = i
    BY <1>2
  <2> QED BY <1>1, <2>1
<1>4. ASSUME NEW i \in 1..Len(x)
      PROVE  (x \o y)[i] = x[i]
  <2>1. i \in 1..(Len(x) + Len(y)) /\ i <= Len(x)
    BY <1>2
  <2> QED BY <1>1, <2>1
<1> QED BY <1>1, <1>3, <1>4

\* A part of what a read can return.
LEMMA PartBytes ==
    ASSUME NEW x \in Seq(Byte), NEW p \in Nat, NEW n \in Nat, p + n <= Len(x)
    PROVE  /\ SubSeq(x, p + 1, p + n) \in Seq(Byte)
           /\ Len(SubSeq(x, p + 1, p + n)) = n
           /\ \A i \in 1..n : SubSeq(x, p + 1, p + n)[i] = x[p + i]
<1>1. Len(x) \in Nat /\ p + 1 \in Int /\ p + n \in Int
  OBVIOUS
<1>2. \A i \in (p + 1)..(p + n) : x[i] \in Byte
  BY <1>1
<1> QED BY <1>1, <1>2, SubSeqProperties

-----------------------------------------------------------------------------
(* The frames to take *)

LEMMA BeforeFinite ==
    ASSUME NEW s \in Seq(Frame), NEW k \in 1..(Len(s) + 1)
    PROVE  IsFiniteSet(Before(s, k)) /\ Cardinality(Before(s, k)) \in Nat
<1>1. Before(s, k) \subseteq 1..Len(s)
  BY DEF Before, Acceptable
<1>2. IsFiniteSet(1..Len(s))
  BY FS_Interval
<1> QED BY <1>1, <1>2, FS_Subset, FS_CardinalityType

\* Past the k-th frame there is one more to take exactly if it is long.
LEMMA BeforeNext ==
    ASSUME NEW s \in Seq(Frame), NEW k \in 1..Len(s),
           \A j \in 1..k : ~Short(Len(s[j].body))
    PROVE  Before(s, k + 1) = IF Len(s[k].body) > 0 THEN Before(s, k) \cup {k}
                                                     ELSE Before(s, k)
<1>1. k \in Acceptable(s) <=> Len(s[k].body) > 0
  BY DEF Acceptable
<1>2. Before(s, k + 1) = Before(s, k) \cup (Acceptable(s) \cap {k})
  BY DEF Before, Acceptable
<1> QED BY <1>1, <1>2

\* A frame sent later changes nothing for those before it.
LEMMA AcceptableAppend ==
    ASSUME NEW s \in Seq(Frame), NEW f \in Frame
    PROVE  /\ \A k \in 1..Len(s) : k \in Acceptable(Append(s, f)) <=> k \in Acceptable(s)
           /\ \A k \in 1..Len(s) : Upto(Append(s, f), k) = Upto(s, k)
           /\ \A k \in 1..(Len(s) + 1) : Before(Append(s, f), k) = Before(s, k)
<1> DEFINE t == Append(s, f)
<1>1. t \in Seq(Frame) /\ Len(t) = Len(s) + 1 /\ \A k \in 1..Len(s) : t[k] = s[k]
  BY AppendProperties
<1> HIDE DEF t
<1>2. \A k \in 1..Len(s) : k \in Acceptable(t) <=> k \in Acceptable(s)
  <2> SUFFICES ASSUME NEW k \in 1..Len(s)
               PROVE  k \in Acceptable(t) <=> k \in Acceptable(s)
    OBVIOUS
  <2>1. \A j \in 1..k : t[j] = s[j]
    BY <1>1
  <2> QED BY <1>1, <2>1 DEF Acceptable
<1>3. \A j \in Acceptable(s) : j \in 1..Len(s)
  BY DEF Acceptable
<1>4. \A j \in Acceptable(t) : j \in 1..(Len(s) + 1)
  BY <1>1 DEF Acceptable
<1>5. \A k \in 1..Len(s) : Upto(t, k) = Upto(s, k)
  BY <1>2, <1>3, <1>4 DEF Upto
<1>6. \A k \in 1..(Len(s) + 1) : Before(t, k) = Before(s, k)
  BY <1>2, <1>3, <1>4 DEF Before
<1> QED BY <1>2, <1>5, <1>6 DEF t

-----------------------------------------------------------------------------
(* The steps *)

\* A frame more: nothing changes in front of it.
LEMMA SendAgrees ==
    ASSUME NEW s, NEW w, NEW h, NEW e, Agree(s, w, h, e), NEW body \in Bodies
    PROVE  Agree(Append(s, [at |-> Len(w), body |-> body]),
                 w \o HeaderBytes(Len(body)) \o body, h, e)
<1> DEFINE f == [at |-> Len(w), body |-> body]
           t == Append(s, f)
           hd == HeaderBytes(Len(body))
           v == w \o hd \o body
<1>1. s \in Seq(Frame) /\ w \in Seq(Byte) /\ h \in HandlerState /\ e \in Seq(Seq(Byte))
  BY DEF Agree
<1>2. body \in Seq(Byte) /\ hd \in Seq(Byte) /\ Len(hd) = HeaderLen
  BY FrameBytes
<1>3. f \in Frame
  BY <1>1 DEF Frame
<1>4. t \in Seq(Frame) /\ Len(t) = Len(s) + 1 /\ t[Len(s) + 1] = f
      /\ \A k \in 1..Len(s) : t[k] = s[k]
  BY <1>1, <1>3, AppendProperties
<1>5. /\ v \in Seq(Byte)
      /\ Len(v) = Len(w) + HeaderLen + Len(body)
      /\ \A i \in 1..Len(w) : v[i] = w[i]
      /\ \A i \in 1..HeaderLen : v[Len(w) + i] = hd[i]
      /\ \A i \in 1..Len(body) : v[Len(w) + HeaderLen + i] = body[i]
  <2> DEFINE u == w \o hd
  <2>1. u \in Seq(Byte) /\ Len(u) = Len(w) + HeaderLen
        /\ (\A i \in 1..Len(w) : u[i] = w[i])
        /\ (\A i \in 1..HeaderLen : u[Len(w) + i] = hd[i])
    BY <1>1, <1>2, ConcatBytes
  <2> HIDE DEF u
  <2>2. u \o body \in Seq(Byte) /\ Len(u \o body) = Len(u) + Len(body)
        /\ (\A i \in 1..Len(u) : (u \o body)[i] = u[i])
        /\ (\A i \in 1..Len(body) : (u \o body)[Len(u) + i] = body[i])
    BY <1>2, <2>1, ConcatBytes
  <2>3. v = u \o body
    BY DEF u
  <2> HIDE DEF v
  <2>4. Len(w) \in Nat /\ Len(body) \in Nat
    BY <1>1, <1>2
  <2> QED BY SMTT(60), <2>1, <2>2, <2>3, <2>4 DEF HeaderLen
<1>6. PICK k \in 1..(Len(s) + 1) : AtFrame(s, w, h, e, k)
  BY DEF Agree
<1>7. Framed(s, w) /\ FirstBodies(s, e)
  BY DEF Agree
<1>8. /\ \A j \in 1..Len(s) : j \in Acceptable(t) <=> j \in Acceptable(s)
      /\ \A j \in 1..Len(s) : Upto(t, j) = Upto(s, j)
      /\ \A j \in 1..(Len(s) + 1) : Before(t, j) = Before(s, j)
  BY <1>1, <1>3, AcceptableAppend
<1>9. f.at = Len(w) /\ f.body = body
  OBVIOUS
<1>10. Len(s) \in Nat /\ Len(w) \in Nat /\ Len(body) \in Nat
  BY <1>1, <1>2
<1> HIDE DEF t, v, f, hd
<1>11. /\ \A j \in 1..(Len(s) + 1) : Begin(t, v, j) = Begin(s, w, j)
       /\ Begin(t, v, Len(s) + 2) = Len(v)
  BY <1>4, <1>9, <1>10 DEF Begin
<1>12. ASSUME NEW j \in 1..Len(s)
       PROVE  s[j].at \in Nat /\ s[j].body \in Seq(Byte) /\ Len(s[j].body) \in Nat
  BY <1>1, FramesOf
<1>13. Framed(t, v)
  <2>1. Begin(t, v, 1) = 0
    BY <1>7, <1>10, <1>11 DEF Framed
  <2>2. ASSUME NEW j \in 1..Len(s)
        PROVE  /\ Begin(t, v, j + 1) = t[j].at + HeaderLen + Len(t[j].body)
               /\ Begin(t, v, j + 1) <= Len(v)
               /\ \A i \in 1..HeaderLen : v[t[j].at + i] = HeaderBytes(Len(t[j].body))[i]
               /\ \A i \in 1..Len(t[j].body) : v[t[j].at + HeaderLen + i] = t[j].body[i]
    <3>1. /\ Begin(s, w, j + 1) = s[j].at + HeaderLen + Len(s[j].body)
          /\ Begin(s, w, j + 1) <= Len(w)
          /\ \A i \in 1..HeaderLen : w[s[j].at + i] = HeaderBytes(Len(s[j].body))[i]
          /\ \A i \in 1..Len(s[j].body) : w[s[j].at + HeaderLen + i] = s[j].body[i]
      BY <1>7 DEF Framed
    <3>2. t[j] = s[j]
      BY <1>4
    <3>9. s[j].at \in Nat /\ Len(s[j].body) \in Nat
      BY <1>12
    <3>3. Begin(t, v, j + 1) = Begin(s, w, j + 1)
      BY <1>10, <1>11
    <3>7. s[j].at + HeaderLen + Len(s[j].body) <= Len(w)
      BY <3>1
    <3>4. /\ \A i \in 1..HeaderLen : s[j].at + i \in 1..Len(w)
          /\ \A i \in 1..Len(s[j].body) : s[j].at + HeaderLen + i \in 1..Len(w)
          /\ s[j].at + HeaderLen + Len(s[j].body) <= Len(w) + HeaderLen + Len(body)
      BY <1>10, <3>7, <3>9, Within
    <3>8. s[j].at + HeaderLen + Len(s[j].body) <= Len(v)
      BY <1>5, <3>4
    <3>6. Begin(t, v, j + 1) <= Len(v)
      BY <3>1, <3>8, <3>3
    <3> QED BY <1>5, <3>1, <3>2, <3>3, <3>4, <3>6
  <2>3. /\ Begin(t, v, Len(s) + 2) = f.at + HeaderLen + Len(f.body)
        /\ \A i \in 1..HeaderLen : v[f.at + i] = HeaderBytes(Len(f.body))[i]
        /\ \A i \in 1..Len(f.body) : v[f.at + HeaderLen + i] = f.body[i]
    BY <1>5, <1>9, <1>11 DEF hd
  <2>4. ASSUME NEW j \in 1..Len(t), j = Len(s) + 1
        PROVE  /\ Begin(t, v, j + 1) = t[j].at + HeaderLen + Len(t[j].body)
               /\ Begin(t, v, j + 1) <= Len(v)
               /\ \A i \in 1..HeaderLen : v[t[j].at + i] = HeaderBytes(Len(t[j].body))[i]
               /\ \A i \in 1..Len(t[j].body) : v[t[j].at + HeaderLen + i] = t[j].body[i]
    <3>1. t[j] = f /\ j + 1 = Len(s) + 2
      BY <1>4, <1>10, <2>4
    <3>2. Len(v) <= Len(v)
      BY <1>5, <1>10 DEF HeaderLen
    <3> QED BY <1>11, <2>3, <3>1, <3>2
  <2>5. \A j \in 1..Len(t) : j \in 1..Len(s) \/ j = Len(s) + 1
    BY <1>4, <1>10
  <2> QED BY <2>1, <2>2, <2>4, <2>5 DEF Framed
<1>14. FirstBodies(t, e)
  <2> SUFFICES ASSUME NEW i \in DOMAIN e
               PROVE  \E j \in Acceptable(t) :
                        Cardinality(Upto(t, j)) = i /\ e[i] = t[j].body
    BY DEF FirstBodies
  <2>1. PICK j \in Acceptable(s) : Cardinality(Upto(s, j)) = i /\ e[i] = s[j].body
    BY <1>7 DEF FirstBodies
  <2>2. j \in 1..Len(s)
    BY <1>1 DEF Acceptable
  <2> QED BY <1>4, <1>8, <2>1, <2>2
<1>15. AtFrame(t, v, h, e, k)
  <2>1. \A j \in 1..(k - 1) : t[j] = s[j]
    BY <1>4, <1>10
  <2>2. \A j \in 1..(k - 1) : ~Short(Len(t[j].body))
    BY <1>6, <2>1 DEF AtFrame
  <2>3. Len(e) = Cardinality(Before(t, k)) /\ h.pos <= Len(w)
        /\ Len(h.headerBuf) <= HeaderLen
    BY <1>6, <1>8 DEF AtFrame
  <2>4. h.pos <= Len(v)
    BY SMTT(60), <1>1, <1>5, <1>10, <2>3 DEF HandlerState, HeaderLen
  <2>5. CASE InHeader(s, w, h, k)
    <3>1. Begin(t, v, k) = Begin(s, w, k)
      BY <1>11
    <3>2. Begin(s, w, k) \in Nat
      BY <1>10, <1>12 DEF Begin
    <3>3. h.alreadyRead \in Nat /\ h.pos = Begin(s, w, k) + h.alreadyRead
      BY <1>1, <2>5 DEF HandlerState, InHeader
    <3>4. \A i \in 1..h.alreadyRead : Begin(s, w, k) + i \in 1..Len(w)
      BY <1>10, <2>3, <3>2, <3>3
    <3>5. \A i \in 1..h.alreadyRead : h.headerBuf[i] = v[Begin(t, v, k) + i]
      BY <1>5, <2>5, <3>1, <3>4 DEF InHeader
    <3> QED BY <2>2, <2>3, <2>4, <2>5, <3>1, <3>5 DEF AtFrame, InHeader
  <2>6. CASE InBody(s, w, h, k)
    <3>1. k \in 1..Len(s) /\ t[k] = s[k] /\ k <= Len(t)
      BY <1>4, <1>10, <2>6 DEF InBody
    <3> QED BY <2>2, <2>3, <2>4, <2>6, <3>1 DEF AtFrame, InBody
  <2> QED BY <1>6, <2>5, <2>6 DEF AtFrame
<1>16. k \in 1..(Len(t) + 1)
  BY <1>4, <1>10
<1>17. Agree(t, v, h, e)
  BY <1>1, <1>4, <1>5, <1>13, <1>14, <1>15, <1>16 DEF Agree
<1> QED BY <1>17 DEF t, v, f, hd

\* The connection is accepted.
LEMMA AcceptAgrees ==
    ASSUME NEW s, NEW w, NEW h, NEW e, Agree(s, w, h, e), h.pc = "none"
    PROVE  Agree(s, w, [h EXCEPT !.pc = "read"], e)
<1> DEFINE g == [h EXCEPT !.pc = "read"]
<1>1. s \in Seq(Frame) /\ h \in HandlerState
  BY DEF Agree
<1>2. /\ g \in HandlerState /\ g.pc = "read" /\ g.packetLength = h.packetLength
      /\ g.alreadyRead = h.alreadyRead /\ g.headerBuf = h.headerBuf /\ g.pos = h.pos
  BY <1>1 DEF HandlerState
<1>3. PICK k \in 1..(Len(s) + 1) : AtFrame(s, w, h, e, k)
  BY DEF Agree
<1> HIDE DEF g
<1>4. InHeader(s, w, h, k)
  BY <1>3 DEF AtFrame, InBody
<1>5. InHeader(s, w, g, k)
  BY <1>2, <1>4 DEF InHeader
<1>6. AtFrame(s, w, g, e, k)
  BY <1>2, <1>3, <1>5 DEF AtFrame
<1>7. Agree(s, w, g, e)
  BY <1>2, <1>6 DEF Agree
<1> QED BY <1>7 DEF g

LEMMA Shift ==
    ASSUME NEW m \in Nat, NEW n \in Nat, NEW base \in Nat, NEW i \in 1..(m + n), ~(i <= m)
    PROVE  \E j \in 1..n : m + j = i /\ base + m + j = base + i
<1>1. i - m \in 1..n /\ m + (i - m) = i /\ base + m + (i - m) = base + i
  OBVIOUS
<1> QED BY <1>1

\* The first at bytes of a buffer are those of the wire behind base, and a read
\* returns the next n.
ReadAt(w, buf, base, at, n, data) ==
    /\ w \in Seq(Byte) /\ buf \in Seq(Byte)
    /\ base \in Nat /\ at \in Nat /\ n \in Nat
    /\ at <= Len(buf) /\ base + at + n <= Len(w)
    /\ \A i \in 1..at : buf[i] = w[base + i]
    /\ data = SubSeq(w, base + at + 1, base + at + n)

\* What a read puts behind the first bytes of a buffer continues them.
LEMMA ReadContinues ==
    ASSUME NEW w, NEW buf, NEW base, NEW at, NEW n, NEW data,
           ReadAt(w, buf, base, at, n, data)
    PROVE  /\ Len(data) = n
           /\ Fill(buf, at, data) \in Seq(Byte)
           /\ Len(Fill(buf, at, data)) = at + n
           /\ \A i \in 1..(at + n) : Fill(buf, at, data)[i] = w[base + i]
<1> USE DEF ReadAt
<1>1. data \in Seq(Byte) /\ Len(data) = n /\ \A i \in 1..n : data[i] = w[base + at + i]
  <2>1. base + at \in Nat
    OBVIOUS
  <2> QED BY <2>1, PartBytes
<1> DEFINE old == SubSeq(buf, 1, at)
<1>2. old \in Seq(Byte) /\ Len(old) = at /\ \A i \in 1..at : old[i] = buf[i]
  <2>1. \A i \in 1..at : buf[i] \in Byte
    OBVIOUS
  <2> QED BY <2>1, SubSeqProperties
<1> HIDE DEF old
<1>3. /\ old \o data \in Seq(Byte) /\ Len(old \o data) = at + n
      /\ \A i \in 1..at : (old \o data)[i] = old[i]
      /\ \A i \in 1..n : (old \o data)[at + i] = data[i]
  <2>1. old \in Seq(Byte) /\ data \in Seq(Byte)
    BY <1>1, <1>2
  <2>2. /\ old \o data \in Seq(Byte) /\ Len(old \o data) = Len(old) + Len(data)
        /\ \A i \in 1..Len(old) : (old \o data)[i] = old[i]
        /\ \A i \in 1..Len(data) : (old \o data)[Len(old) + i] = data[i]
    BY ONLY <2>1, ConcatBytes
  <2> QED BY <1>1, <1>2, <2>2
<1>4. ASSUME NEW i \in 1..(at + n)
      PROVE  (old \o data)[i] = w[base + i]
  <2>1. CASE i <= at
    <3>1. i \in 1..at
      BY <2>1
    <3> QED BY <1>2, <1>3, <3>1
  <2>2. CASE ~(i <= at)
    <3>1. PICK j \in 1..n : at + j = i /\ base + at + j = base + i
      BY <2>2, Shift
    <3> QED BY <1>1, <1>3, <3>1
  <2> QED BY <2>1, <2>2
<1>5. Fill(buf, at, data) = old \o data
  BY DEF Fill, old
<1> QED BY <1>1, <1>3, <1>4, <1>5

LEMMA BeginType ==
    ASSUME NEW s \in Seq(Frame), NEW w \in Seq(Byte), NEW k \in 1..(Len(s) + 1)
    PROVE  Begin(s, w, k) \in Nat
<1>1. CASE k <= Len(s)
  <2>1. k \in 1..Len(s)
    BY <1>1
  <2>2. s[k].at \in Nat
    BY <2>1, FramesOf
  <2> QED BY <1>1, <2>2 DEF Begin
<1>2. CASE ~(k <= Len(s))
  BY <1>2 DEF Begin
<1> QED BY <1>1, <1>2

\* The handler after a read of its header.
LEMMA AfterHeaderFields ==
    ASSUME NEW h \in HandlerState, NEW data, NEW n \in Nat, Len(data) = n,
           NEW err \in BOOLEAN,
           Fill(h.headerBuf, h.alreadyRead, data) \in Seq(Byte),
           Uint32(Fill(h.headerBuf, h.alreadyRead, data)) \in Nat
                \/ h.alreadyRead + n # HeaderLen
    PROVE  LET r == AfterHeader(h, data, err)
               buf == Fill(h.headerBuf, h.alreadyRead, data)
               all == h.alreadyRead + n = HeaderLen
           IN /\ r \in HandlerState
              /\ r.pos = h.pos + n
              /\ r.headerBuf = buf
              /\ r.pc = IF err THEN "closed" ELSE "read"
              /\ r.packetLength = IF all THEN Uint32(buf) ELSE h.packetLength
              /\ r.alreadyRead = IF all THEN 0 ELSE h.alreadyRead + n
              /\ r.readBuf = IF all THEN <<>> ELSE h.readBuf
              /\ r.failed = err
<1> DEFINE buf == Fill(h.headerBuf, h.alreadyRead, data)
           got == h.alreadyRead + n
           next == [h EXCEPT !.pos = @ + n, !.headerBuf = buf, !.failed = err,
                             !.pc = IF err THEN "closed" ELSE "read"]
<1>1. h.alreadyRead \in Nat /\ h.pos \in Nat
  BY DEF HandlerState
<1>2. got \in Nat
  BY <1>1
<1>3. /\ next \in HandlerState /\ next.pos = h.pos + n /\ next.headerBuf = buf
      /\ next.pc = (IF err THEN "closed" ELSE "read")
      /\ next.packetLength = h.packetLength /\ next.readBuf = h.readBuf /\ next.failed = err
  <2> DEFINE p == h.pos + n
             c == IF err THEN "closed" ELSE "read"
  <2>1. p \in Nat /\ buf \in Seq(Byte) /\ c \in {"none", "read", "enqueue", "closed"}
    BY <1>1
  <2>2. next = [h EXCEPT !.pos = p, !.headerBuf = buf, !.failed = err, !.pc = c]
    OBVIOUS
  <2> HIDE DEF next, p, c, buf
  <2>3. /\ next \in HandlerState /\ next.pos = p /\ next.headerBuf = buf /\ next.pc = c
        /\ next.packetLength = h.packetLength /\ next.readBuf = h.readBuf /\ next.failed = err
    BY <2>1, <2>2 DEF HandlerState
  <2> QED BY <2>3 DEF p, c
<1>4. AfterHeader(h, data, err) =
        IF got = HeaderLen
        THEN [next EXCEPT !.packetLength = Uint32(buf), !.alreadyRead = 0, !.readBuf = <<>>]
        ELSE [next EXCEPT !.alreadyRead = got]
  BY DEF AfterHeader
<1> HIDE DEF next, buf, got
<1>5. CASE got = HeaderLen
  <2>1. Uint32(buf) \in Nat
    BY <1>5 DEF buf, got
  <2>2. AfterHeader(h, data, err) =
          [next EXCEPT !.packetLength = Uint32(buf), !.alreadyRead = 0, !.readBuf = <<>>]
    BY <1>4, <1>5
  <2>3. <<>> \in Seq(Byte)
    OBVIOUS
  <2> DEFINE num == Uint32(buf)
  <2> HIDE DEF num
  <2>4. LET r == [next EXCEPT !.packetLength = num, !.alreadyRead = 0, !.readBuf = <<>>]
        IN /\ r \in HandlerState /\ r.pos = next.pos /\ r.headerBuf = next.headerBuf
           /\ r.pc = next.pc /\ r.packetLength = num /\ r.alreadyRead = 0 /\ r.readBuf = <<>>
           /\ r.failed = next.failed
    BY <1>3, <2>1, <2>3 DEF HandlerState, num
  <2> QED BY <1>3, <1>5, <2>2, <2>4 DEF got, buf, num
<1>6. CASE got # HeaderLen
  <2>1. AfterHeader(h, data, err) = [next EXCEPT !.alreadyRead = got]
    BY <1>4, <1>6
  <2>2. LET r == [next EXCEPT !.alreadyRead = got]
        IN /\ r \in HandlerState /\ r.pos = next.pos /\ r.headerBuf = next.headerBuf
           /\ r.pc = next.pc /\ r.packetLength = next.packetLength
           /\ r.alreadyRead = got /\ r.readBuf = next.readBuf /\ r.failed = next.failed
    BY <1>2, <1>3 DEF HandlerState
  <2> QED BY <1>3, <1>6, <2>1, <2>2 DEF got, buf
<1> QED BY <1>5, <1>6

\* A read of a header, whatever it returns.
LEMMA HeaderAgrees ==
    ASSUME NEW s, NEW w, NEW h, NEW e, Agree(s, w, h, e), NEW err \in BOOLEAN,
           h.pc = "read", h.packetLength = 0,
           NEW n \in Nat, h.alreadyRead + n <= HeaderLen, h.pos + n <= Len(w)
    PROVE  Agree(s, w, AfterHeader(h, SubSeq(w, h.pos + 1, h.pos + n), err), e)
<1> DEFINE data == SubSeq(w, h.pos + 1, h.pos + n)
           buf == Fill(h.headerBuf, h.alreadyRead, data)
           got == h.alreadyRead + n
           g == AfterHeader(h, data, err)
<1>1. s \in Seq(Frame) /\ w \in Seq(Byte) /\ h \in HandlerState /\ e \in Seq(Seq(Byte))
  BY DEF Agree
<1>2. Framed(s, w) /\ FirstBodies(s, e)
  BY DEF Agree
<1>3. PICK k \in 1..(Len(s) + 1) : AtFrame(s, w, h, e, k)
  BY DEF Agree
<1>4. h.alreadyRead \in Nat /\ h.pos \in Nat /\ h.headerBuf \in Seq(Byte)
  BY <1>1 DEF HandlerState
<1>5. InHeader(s, w, h, k)
  BY <1>3 DEF AtFrame, InBody
<1>6. Begin(s, w, k) \in Nat
  BY <1>1, BeginType
<1>7. h.pos = Begin(s, w, k) + h.alreadyRead /\ h.alreadyRead <= Len(h.headerBuf)
      /\ \A i \in 1..h.alreadyRead : h.headerBuf[i] = w[Begin(s, w, k) + i]
  BY <1>5 DEF InHeader
<1>8. /\ Len(data) = n /\ buf \in Seq(Byte) /\ Len(buf) = got
      /\ \A i \in 1..got : buf[i] = w[Begin(s, w, k) + i]
  <2>1. Begin(s, w, k) + h.alreadyRead + n <= Len(w)
    BY <1>7
  <2>2. data = SubSeq(w, Begin(s, w, k) + h.alreadyRead + 1, Begin(s, w, k) + h.alreadyRead + n)
    BY <1>7
  <2> DEFINE base == Begin(s, w, k)
             at == h.alreadyRead
             old == h.headerBuf
  <2>3. ReadAt(w, old, base, at, n, data)
    BY <1>1, <1>4, <1>6, <1>7, <2>1, <2>2 DEF ReadAt
  <2> HIDE DEF data, base, at, old
  <2>4. /\ Len(data) = n
        /\ Fill(old, at, data) \in Seq(Byte)
        /\ Len(Fill(old, at, data)) = at + n
        /\ \A i \in 1..(at + n) : Fill(old, at, data)[i] = w[base + i]
    BY <2>3, ReadContinues
  <2> QED BY <2>4 DEF base, at, old
<1>9. got = HeaderLen => k \in 1..Len(s) /\ Uint32(buf) = Len(s[k].body)
  <2> SUFFICES ASSUME got = HeaderLen
               PROVE  k \in 1..Len(s) /\ Uint32(buf) = Len(s[k].body)
    OBVIOUS
  <2>1. k \in 1..Len(s)
    <3> SUFFICES ASSUME ~(k <= Len(s))
                 PROVE  FALSE
      OBVIOUS
    <3>1. Begin(s, w, k) = Len(w)
      BY DEF Begin
    <3>2. Len(w) \in Nat
      BY <1>1
    <3>3. h.pos + n = Len(w) + HeaderLen
      BY <1>4, <1>7, <3>1, <3>2
    <3> HIDE DEF got
    <3> QED BY <3>2, <3>3 DEF HeaderLen
  <2>2. Begin(s, w, k) = s[k].at /\ s[k].body \in Bodies
    BY <1>1, <2>1, FramesOf DEF Begin
  <2>3. \A i \in 1..HeaderLen : buf[i] = HeaderBytes(Len(s[k].body))[i]
    BY <1>2, <1>8, <2>1, <2>2 DEF Framed
  <2> HIDE DEF buf
  <2> QED BY <2>1, <2>2, <2>3, FrameBytes, Uint32OfSame
<1>10. /\ g \in HandlerState
       /\ g.pos = h.pos + n
       /\ g.headerBuf = buf
       /\ g.pc = IF err THEN "closed" ELSE "read"
       /\ g.packetLength = IF got = HeaderLen THEN Uint32(buf) ELSE h.packetLength
       /\ g.alreadyRead = IF got = HeaderLen THEN 0 ELSE got
       /\ g.readBuf = IF got = HeaderLen THEN <<>> ELSE h.readBuf
       /\ g.failed = err
  <2>1. Uint32(buf) \in Nat \/ got # HeaderLen
    BY <1>1, <1>9, FramesOf
  <2> HIDE DEF data
  <2> QED BY <1>1, <1>8, <2>1, AfterHeaderFields
<1>11. /\ \A j \in 1..(k - 1) : ~Short(Len(s[j].body))
       /\ Len(e) = Cardinality(Before(s, k))
       /\ h.pos + n <= Len(w)
       /\ Len(buf) <= HeaderLen
       /\ got \in Nat
  BY <1>3, <1>4, <1>8 DEF AtFrame, HeaderLen
<1> HIDE DEF g, buf, got, data
<1>12. CASE got # HeaderLen
  <2>1. InHeader(s, w, g, k)
    <3>1. h.pos + n = Begin(s, w, k) + got
      BY <1>4, <1>6, <1>7 DEF got
    <3>2. got < HeaderLen
      BY <1>12, <1>11 DEF got, HeaderLen
    <3>3. g.alreadyRead = got /\ g.packetLength = 0
      BY <1>10, <1>12
    <3>4. g.pc # "enqueue" /\ (g.pc = "closed" => g.failed)
      BY <1>10
    <3>5. got <= Len(buf)
      BY <1>8, <1>11
    <3> QED BY <1>8, <1>10, <3>1, <3>2, <3>3, <3>4, <3>5 DEF InHeader
  <2>2. AtFrame(s, w, g, e, k)
    BY <1>10, <1>11, <2>1 DEF AtFrame
  <2> QED BY <1>1, <1>2, <1>10, <2>2 DEF Agree, g, data
<1>13. CASE got = HeaderLen /\ Len(s[k].body) > 0
  <2>1. k \in 1..Len(s) /\ g.packetLength = Len(s[k].body)
        /\ g.alreadyRead = 0 /\ g.readBuf = <<>>
    BY <1>9, <1>10, <1>13
  <2>2. g.pos = s[k].at + HeaderLen + 0
    <3>1. Begin(s, w, k) = s[k].at
      BY <2>1 DEF Begin
    <3>2. h.pos + n = Begin(s, w, k) + got
      BY <1>4, <1>6, <1>7 DEF got
    <3> QED BY <1>6, <1>10, <1>13, <3>1, <3>2 DEF HeaderLen
  <2>3. InBody(s, w, g, k)
    <3>1. /\ g.pc # "none" /\ g.pc # "enqueue" /\ Len(<<>>) = 0
          /\ g.pc = "closed" => g.failed
      BY <1>10
    <3>2. Len(s[k].body) \in Nat
      BY <1>1, <2>1, FramesOf
    <3> QED BY <1>13, <2>1, <2>2, <3>1, <3>2 DEF InBody
  <2>4. AtFrame(s, w, g, e, k)
    BY <1>10, <1>11, <2>3 DEF AtFrame
  <2> QED BY <1>1, <1>2, <1>10, <2>4 DEF Agree, g, data
<1>14. CASE got = HeaderLen /\ ~(Len(s[k].body) > 0)
  <2>1. k \in 1..Len(s) /\ Len(s[k].body) = 0
    BY <1>1, <1>9, <1>14, FramesOf
  <2>2. g.packetLength = 0 /\ g.alreadyRead = 0
    BY <1>9, <1>10, <1>14, <2>1
  <2>3. k + 1 \in 1..(Len(s) + 1) /\ (k + 1) - 1 = k
    BY <1>1, <2>1
  <2>4. \A j \in 1..k : ~Short(Len(s[j].body))
    <3>1. ~Short(Len(s[k].body))
      BY <2>1 DEF Short
    <3>2. \A j \in 1..k : j \in 1..(k - 1) \/ j = k
      OBVIOUS
    <3> QED BY <1>11, <3>1, <3>2
  <2>5. Before(s, k + 1) = Before(s, k)
    BY <1>1, <1>14, <2>1, <2>4, BeforeNext
  <2>6. g.pos = Begin(s, w, k + 1) + 0
    <3>1. Begin(s, w, k) = s[k].at
      BY <2>1 DEF Begin
    <3>2. h.pos + n = Begin(s, w, k) + got
      BY <1>4, <1>6, <1>7 DEF got
    <3>3. Begin(s, w, k + 1) = s[k].at + HeaderLen + Len(s[k].body)
      BY <1>2, <2>1 DEF Framed
    <3> QED BY <1>6, <1>10, <1>14, <2>1, <3>1, <3>2, <3>3 DEF HeaderLen
  <2>7. InHeader(s, w, g, k + 1)
    <3>1. g.pc # "enqueue" /\ (g.pc = "closed" => g.failed) /\ 0 < HeaderLen
      BY <1>10 DEF HeaderLen
    <3>2. 0 <= Len(g.headerBuf)
      BY <1>8, <1>10
    <3> QED BY <2>2, <2>6, <3>1, <3>2 DEF InHeader
  <2>8. AtFrame(s, w, g, e, k + 1)
    BY <1>10, <1>11, <2>3, <2>4, <2>5, <2>7 DEF AtFrame
  <2> QED BY <1>1, <1>2, <1>10, <2>3, <2>8 DEF Agree, g, data
<1> QED BY <1>12, <1>13, <1>14

\* The handler after a read of its body.
AfterBodyPc(h, got, err) ==
    IF got = h.packetLength THEN IF LongEnough(got) THEN "enqueue" ELSE AfterShort(got, err)
                            ELSE IF err THEN "closed" ELSE "read"

LEMMA AfterBodyFields ==
    ASSUME NEW h \in HandlerState, NEW data, NEW n \in Nat, Len(data) = n,
           NEW err \in BOOLEAN,
           Fill(h.readBuf, h.alreadyRead, data) \in Seq(Byte)
    PROVE  LET r == AfterBody(h, data, err)
           IN /\ r \in HandlerState
              /\ r.pos = h.pos + n
              /\ r.readBuf = Fill(h.readBuf, h.alreadyRead, data)
              /\ r.alreadyRead = h.alreadyRead + n
              /\ r.pc = AfterBodyPc(h, h.alreadyRead + n, err)
              /\ r.packetLength = h.packetLength
              /\ r.headerBuf = h.headerBuf
              /\ r.failed = err
<1> DEFINE buf == Fill(h.readBuf, h.alreadyRead, data)
           got == h.alreadyRead + n
           p == h.pos + n
           c == AfterBodyPc(h, got, err)
<1>1. h.alreadyRead \in Nat /\ h.pos \in Nat
  BY DEF HandlerState
<1>2. /\ got \in Nat /\ p \in Nat /\ buf \in Seq(Byte)
      /\ c \in {"none", "read", "enqueue", "closed"}
  <2>1. got \in Nat /\ p \in Nat /\ buf \in Seq(Byte)
    BY <1>1
  <2>2. c \in {"none", "read", "enqueue", "closed"}
    BY DEF AfterBodyPc, AfterShort
  <2> QED BY <2>1, <2>2
<1>3. AfterBody(h, data, err) =
        [h EXCEPT !.pos = p, !.readBuf = buf, !.alreadyRead = got, !.failed = err, !.pc = c]
  BY DEF AfterBody, AfterBodyPc
<1> HIDE DEF buf, got, p, c
<1>4. LET r == [h EXCEPT !.pos = p, !.readBuf = buf, !.alreadyRead = got, !.failed = err,
                         !.pc = c]
      IN /\ r \in HandlerState /\ r.pos = p /\ r.readBuf = buf /\ r.alreadyRead = got
         /\ r.pc = c /\ r.packetLength = h.packetLength /\ r.headerBuf = h.headerBuf
         /\ r.failed = err
  BY <1>2 DEF HandlerState
<1> QED BY <1>3, <1>4 DEF buf, got, p, c

LEMMA BodyOffset ==
    ASSUME NEW a \in Nat, NEW m \in Nat, NEW n \in Nat, NEW p \in Nat, p = a + HeaderLen + m
    PROVE  /\ a + HeaderLen \in Nat
           /\ p + n = a + HeaderLen + m + n
           /\ p + n = a + HeaderLen + (m + n)
BY DEF HeaderLen

\* A read of a body, whatever it returns.
LEMMA BodyAgrees ==
    ASSUME NEW s, NEW w, NEW h, NEW e, Agree(s, w, h, e), NEW err \in BOOLEAN,
           h.pc = "read", h.packetLength # 0,
           NEW n \in Nat, h.alreadyRead + n <= h.packetLength, h.pos + n <= Len(w)
    PROVE  Agree(s, w, AfterBody(h, SubSeq(w, h.pos + 1, h.pos + n), err), e)
<1> DEFINE data == SubSeq(w, h.pos + 1, h.pos + n)
           buf == Fill(h.readBuf, h.alreadyRead, data)
           got == h.alreadyRead + n
           g == AfterBody(h, data, err)
<1>1. s \in Seq(Frame) /\ w \in Seq(Byte) /\ h \in HandlerState /\ e \in Seq(Seq(Byte))
  BY DEF Agree
<1>2. Framed(s, w) /\ FirstBodies(s, e)
  BY DEF Agree
<1>3. PICK k \in 1..(Len(s) + 1) : AtFrame(s, w, h, e, k)
  BY DEF Agree
<1>4. h.alreadyRead \in Nat /\ h.pos \in Nat /\ h.readBuf \in Seq(Byte) /\ h.packetLength \in Nat
  BY <1>1 DEF HandlerState
<1>5. InBody(s, w, h, k)
  BY <1>3 DEF AtFrame, InHeader
<1>6. k \in 1..Len(s)
  BY <1>1, <1>5 DEF InBody
<1>7. s[k].at \in Nat /\ s[k].body \in Seq(Byte) /\ Len(s[k].body) \in Nat
  BY <1>1, <1>6, FramesOf
<1>8. /\ h.packetLength = Len(s[k].body) /\ h.packetLength > 0
      /\ Len(h.readBuf) = h.alreadyRead
      /\ h.pos = s[k].at + HeaderLen + h.alreadyRead
      /\ \A i \in 1..h.alreadyRead : h.readBuf[i] = s[k].body[i]
  BY <1>5 DEF InBody
<1>9. \A i \in 1..Len(s[k].body) : w[s[k].at + HeaderLen + i] = s[k].body[i]
  BY <1>2, <1>6 DEF Framed
<1>10. got \in Nat /\ got <= Len(s[k].body) /\ h.alreadyRead <= Len(s[k].body)
  BY SMTT(60), <1>4, <1>7, <1>8
<1>11. /\ Len(data) = n /\ buf \in Seq(Byte) /\ Len(buf) = got
       /\ \A i \in 1..got : buf[i] = s[k].body[i]
  <2> DEFINE base == s[k].at + HeaderLen
             at == h.alreadyRead
             old == h.readBuf
  <2>1. base \in Nat /\ h.pos = base + at /\ base + at + n <= Len(w)
    <3>1. h.pos = s[k].at + HeaderLen + h.alreadyRead
      BY <1>8
    <3>2. s[k].at + HeaderLen \in Nat /\ h.pos + n = s[k].at + HeaderLen + h.alreadyRead + n
      BY <1>4, <1>7, <3>1, BodyOffset
    <3> QED BY <3>1, <3>2
  <2>2. data = SubSeq(w, base + at + 1, base + at + n)
    BY <2>1
  <2>3. \A i \in 1..at : i \in 1..Len(s[k].body)
    BY <1>4, <1>7, <1>10
  <2>4. \A i \in 1..at : old[i] = w[base + i]
    BY <1>8, <1>9, <2>3
  <2>5. at \in Nat /\ old \in Seq(Byte) /\ at <= Len(old)
    BY <1>4, <1>8
  <2> HIDE DEF data, base, at, old
  <2>6. ReadAt(w, old, base, at, n, data)
    BY <1>1, <2>1, <2>2, <2>4, <2>5 DEF ReadAt
  <2>7. /\ Len(data) = n
        /\ Fill(old, at, data) \in Seq(Byte)
        /\ Len(Fill(old, at, data)) = at + n
        /\ \A i \in 1..(at + n) : Fill(old, at, data)[i] = w[base + i]
    BY <2>6, ReadContinues
  <2>8. \A i \in 1..got : i \in 1..Len(s[k].body)
    BY <1>7, <1>10
  <2> QED BY <1>9, <2>7, <2>8 DEF base, at, old
<1>12. /\ g \in HandlerState /\ g.pos = h.pos + n /\ g.readBuf = buf
       /\ g.alreadyRead = got /\ g.pc = AfterBodyPc(h, got, err)
       /\ g.packetLength = h.packetLength /\ g.headerBuf = h.headerBuf /\ g.failed = err
  <2> HIDE DEF data
  <2> QED BY <1>1, <1>11, AfterBodyFields
<1>13. h.pos + n = s[k].at + HeaderLen + got
  <2>1. h.pos = s[k].at + HeaderLen + h.alreadyRead
    BY <1>8
  <2> QED BY SMTT(60), <1>4, <1>7, <2>1, BodyOffset
<1> HIDE DEF g, buf, got, data
<1>14. InBody(s, w, g, k)
  <2>1. g.pc # "none"
    BY <1>12 DEF AfterBodyPc, AfterShort
  <2>2. g.pc = "read" => got < h.packetLength
    BY <1>8, <1>10, <1>12 DEF AfterBodyPc, AfterShort
  <2>3. g.pc = "enqueue" => got = h.packetLength /\ h.packetLength > ShortBody
    BY <1>12 DEF AfterBodyPc, AfterShort, LongEnough
  <2>4. g.pc = "closed" /\ ~g.failed => h.packetLength <= ShortBody
    <3> SUFFICES ASSUME g.pc = "closed", ~g.failed
                 PROVE  h.packetLength <= ShortBody
      OBVIOUS
    <3>1. AfterBodyPc(h, got, FALSE) = "closed"
      BY <1>12
    <3>2. got = h.packetLength /\ ~(h.packetLength > ShortBody)
      BY <3>1 DEF AfterBodyPc, LongEnough
    <3> QED BY <1>4, <3>2, ListenerAssumption
  <2> QED BY <1>5, <1>8, <1>10, <1>11, <1>12, <1>13, <2>1, <2>2, <2>3, <2>4 DEF InBody
<1>15. AtFrame(s, w, g, e, k)
  BY <1>3, <1>12, <1>14 DEF AtFrame
<1> QED BY <1>1, <1>2, <1>12, <1>15 DEF Agree, g, data

\* Enqueue returns.
LEMMA EnqueueAgrees ==
    ASSUME NEW s, NEW w, NEW h, NEW e, Agree(s, w, h, e), h.pc = "enqueue"
    PROVE  Agree(s, w, NextFrame(h), Append(e, h.readBuf))
<1> DEFINE g == NextFrame(h)
           d == Append(e, h.readBuf)
<1>1. s \in Seq(Frame) /\ w \in Seq(Byte) /\ h \in HandlerState /\ e \in Seq(Seq(Byte))
  BY DEF Agree
<1>2. Framed(s, w) /\ FirstBodies(s, e)
  BY DEF Agree
<1>3. PICK k \in 1..(Len(s) + 1) : AtFrame(s, w, h, e, k)
  BY DEF Agree
<1>4. InBody(s, w, h, k)
  BY <1>3 DEF AtFrame, InHeader
<1>5. k \in 1..Len(s) /\ k + 1 \in 1..(Len(s) + 1) /\ (k + 1) - 1 = k
  BY <1>1, <1>4 DEF InBody
<1>6. s[k].at \in Nat /\ s[k].body \in Seq(Byte) /\ Len(s[k].body) \in Nat
  BY <1>1, <1>5, FramesOf
<1>7. /\ h.packetLength = Len(s[k].body) /\ h.packetLength > 0 /\ h.packetLength > ShortBody
      /\ h.alreadyRead = Len(s[k].body) /\ Len(h.readBuf) = Len(s[k].body)
      /\ h.pos = s[k].at + HeaderLen + Len(s[k].body)
      /\ \A i \in 1..Len(s[k].body) : h.readBuf[i] = s[k].body[i]
  BY <1>4 DEF InBody
<1>8. h.readBuf \in Seq(Byte) /\ h.readBuf = s[k].body
  <2>1. h.readBuf \in Seq(Byte)
    BY <1>1 DEF HandlerState
  <2> DEFINE x == h.readBuf
             y == s[k].body
  <2>2. /\ x \in Seq(Byte) /\ y \in Seq(Byte) /\ Len(x) = Len(y)
        /\ \A i \in 1..Len(y) : x[i] = y[i]
    BY <1>6, <1>7, <2>1
  <2> HIDE DEF x, y
  <2>3. x = y
    BY <2>2
  <2> QED BY <2>1, <2>3 DEF x, y
<1>9. /\ g \in HandlerState /\ g.packetLength = 0 /\ g.alreadyRead = 0 /\ g.pos = h.pos
      /\ g.headerBuf = h.headerBuf /\ g.pc \in {"closed", "read"}
      /\ g.pc = "closed" => g.failed
  BY <1>1 DEF NextFrame, Resume, HandlerState
<1>10. d \in Seq(Seq(Byte)) /\ Len(d) = Len(e) + 1 /\ d[Len(e) + 1] = h.readBuf
       /\ \A i \in 1..Len(e) : d[i] = e[i]
  <2> DEFINE x == h.readBuf
  <2>1. x \in Seq(Byte)
    BY <1>8
  <2> HIDE DEF x
  <2>2. Append(e, x) \in Seq(Seq(Byte)) /\ Len(Append(e, x)) = Len(e) + 1
        /\ Append(e, x)[Len(e) + 1] = x /\ \A i \in 1..Len(e) : Append(e, x)[i] = e[i]
    BY <1>1, <2>1, AppendProperties
  <2> QED BY <2>2 DEF x
<1> HIDE DEF g, d
<1>11. \A j \in 1..k : ~Short(Len(s[j].body))
  <2>1. ~Short(Len(s[k].body))
    BY <1>6, <1>7, ListenerAssumption, SMT DEF Short
  <2>2. \A j \in 1..k : j \in 1..(k - 1) \/ j = k
    OBVIOUS
  <2>3. \A j \in 1..(k - 1) : ~Short(Len(s[j].body))
    BY <1>3 DEF AtFrame
  <2> QED BY <2>1, <2>2, <2>3
<1>12. k \in Acceptable(s)
  BY <1>5, <1>7, <1>11 DEF Acceptable
<1>13. /\ Before(s, k + 1) = Before(s, k) \cup {k}
       /\ Upto(s, k) = Before(s, k + 1)
  <2>1. Before(s, k + 1) = Before(s, k) \cup {k}
    BY <1>1, <1>5, <1>7, <1>11, BeforeNext
  <2>2. Upto(s, k) = Before(s, k + 1)
    BY <1>1, <1>5 DEF Upto, Before, Acceptable
  <2> QED BY <2>1, <2>2
<1>14. Cardinality(Before(s, k + 1)) = Len(e) + 1
  <2>1. IsFiniteSet(Before(s, k)) /\ k \notin Before(s, k)
    BY <1>1, BeforeFinite DEF Before
  <2>2. Cardinality(Before(s, k) \cup {k}) = Cardinality(Before(s, k)) + 1
    BY <2>1, FS_AddElement
  <2> QED BY <1>3, <1>13, <2>2 DEF AtFrame
<1>15. FirstBodies(s, d)
  <2> SUFFICES ASSUME NEW i \in DOMAIN d
               PROVE  \E j \in Acceptable(s) :
                        Cardinality(Upto(s, j)) = i /\ d[i] = s[j].body
    BY DEF FirstBodies
  <2>1. i \in 1..Len(e) \/ i = Len(e) + 1
    BY <1>1, <1>10
  <2>2. CASE i \in 1..Len(e)
    <3>1. i \in DOMAIN e
      BY <1>1, <2>2
    <3>2. \E j \in Acceptable(s) : Cardinality(Upto(s, j)) = i /\ e[i] = s[j].body
      BY <1>2, <3>1 DEF FirstBodies
    <3> QED BY <1>10, <2>2, <3>2
  <2>3. CASE i = Len(e) + 1
    BY <1>8, <1>10, <1>12, <1>13, <1>14, <2>3
  <2> QED BY <2>1, <2>2, <2>3
<1>16. InHeader(s, w, g, k + 1)
  <2>1. Begin(s, w, k + 1) = s[k].at + HeaderLen + Len(s[k].body)
    BY <1>2, <1>5 DEF Framed
  <2>2. g.pos = Begin(s, w, k + 1) + 0
    BY <1>6, <1>7, <1>9, <2>1 DEF HeaderLen
  <2>3. 0 < HeaderLen /\ 0 <= Len(g.headerBuf)
    <3>1. g.headerBuf \in Seq(Byte)
      BY <1>9 DEF HandlerState
    <3> QED BY <3>1 DEF HeaderLen
  <2>4. g.pc # "enqueue"
    BY <1>9
  <2> QED BY <1>9, <2>2, <2>3, <2>4 DEF InHeader
<1>17. AtFrame(s, w, g, d, k + 1)
  BY <1>3, <1>5, <1>9, <1>10, <1>11, <1>14, <1>16 DEF AtFrame
<1> QED BY <1>1, <1>2, <1>5, <1>9, <1>10, <1>15, <1>17 DEF Agree, g, d

-----------------------------------------------------------------------------
(* The invariant *)

LEMMA InitAgrees == Agree(<<>>, <<>>, NoHandler, <<>>)
<1>1. NoHandler \in HandlerState
  BY DEF NoHandler, HandlerState
<1>2. Len(<<>>) = 0
  OBVIOUS
<1>3. Framed(<<>>, <<>>) /\ FirstBodies(<<>>, <<>>)
  BY <1>2 DEF Framed, FirstBodies, Begin
<1>4. Before(<<>>, 1) = {}
  BY DEF Before, Acceptable
<1>5. Cardinality(Before(<<>>, 1)) = 0
  BY <1>4, FS_EmptySet
<1>6. InHeader(<<>>, <<>>, NoHandler, 1)
  BY <1>2 DEF InHeader, NoHandler, Begin, HeaderLen
<1>7. AtFrame(<<>>, <<>>, NoHandler, <<>>, 1)
  BY <1>2, <1>5, <1>6 DEF AtFrame, NoHandler, HeaderLen
<1>8. <<>> \in Seq(Frame) /\ <<>> \in Seq(Byte) /\ <<>> \in Seq(Seq(Byte))
  OBVIOUS
<1> QED BY <1>1, <1>2, <1>3, <1>7, <1>8 DEF Agree

LEMMA InitIInv == Init => IInv
BY InitAgrees DEF Init, IInv, Agree

\* A step of one connection, after which its values are s, w, h and e.
Moves(c, s, w, h, e) ==
    /\ sent' = [sent EXCEPT ![c] = s] /\ wire' = [wire EXCEPT ![c] = w]
    /\ handler' = [handler EXCEPT ![c] = h] /\ enqueued' = [enqueued EXCEPT ![c] = e]
    /\ up' = up

\* A step of one connection keeps the invariant if its values still agree.
LEMMA OneConnection ==
    IInv => \A c \in Conns : \A s, w, h, e :
        Agree(s, w, h, e) /\ Moves(c, s, w, h, e) => IInv'
<1> SUFFICES ASSUME IInv, NEW c \in Conns, NEW s, NEW w, NEW h, NEW e, Agree(s, w, h, e),
                    Moves(c, s, w, h, e)
             PROVE  IInv'
  OBVIOUS
<1>1. s \in Seq(Frame) /\ w \in Seq(Byte) /\ h \in HandlerState /\ e \in Seq(Seq(Byte))
  BY DEF Agree
<1>2. /\ sent' \in [Conns -> Seq(Frame)] /\ wire' \in [Conns -> Seq(Byte)]
      /\ handler' \in [Conns -> HandlerState]
      /\ enqueued' \in [Conns -> Seq(Seq(Byte))] /\ up' \in BOOLEAN
  BY <1>1 DEF IInv, Moves
<1>3. ASSUME NEW d \in Conns
      PROVE  Agree(sent'[d], wire'[d], handler'[d], enqueued'[d])
  <2>1. CASE d = c
    <3>1. sent'[d] = s /\ wire'[d] = w /\ handler'[d] = h /\ enqueued'[d] = e
      BY <2>1 DEF IInv, Moves
    <3> QED BY <3>1
  <2>2. CASE d # c
    <3>1. /\ sent'[d] = sent[d] /\ wire'[d] = wire[d]
          /\ handler'[d] = handler[d] /\ enqueued'[d] = enqueued[d]
      BY <2>2 DEF IInv, Moves
    <3> QED BY <3>1 DEF IInv
  <2> QED BY <2>1, <2>2
<1> QED BY <1>2, <1>3 DEF IInv

LEMMA Step == IInv /\ [Next]_vars => IInv'
<1> SUFFICES ASSUME IInv, [Next]_vars
             PROVE  IInv'
  OBVIOUS
<1>1. ASSUME NEW c \in Conns
      PROVE  /\ Agree(sent[c], wire[c], handler[c], enqueued[c])
             /\ handler[c] \in HandlerState
             /\ handler[c].pos \in Nat /\ handler[c].alreadyRead \in Nat
             /\ handler[c].packetLength \in Nat
             /\ wire[c] \in Seq(Byte) /\ Len(wire[c]) \in Nat
             /\ sent = [sent EXCEPT ![c] = sent[c]] /\ wire = [wire EXCEPT ![c] = wire[c]]
             /\ handler = [handler EXCEPT ![c] = handler[c]]
             /\ enqueued = [enqueued EXCEPT ![c] = enqueued[c]]
  BY DEF IInv, HandlerState
<1>2. CASE AcceptFails
  BY <1>2 DEF AcceptFails, IInv
<1>3. ASSUME NEW c \in Conns, ClientSends(c)
      PROVE  IInv'
  <2>1. PICK body \in Bodies :
          /\ sent' = [sent EXCEPT ![c] = Append(@, [at |-> Len(wire[c]), body |-> body])]
          /\ wire' = [wire EXCEPT ![c] = @ \o HeaderBytes(Len(body)) \o body]
    BY <1>3 DEF ClientSends
  <2>2. handler' = handler /\ enqueued' = enqueued /\ up' = up
    BY <1>3 DEF ClientSends
  <2> DEFINE s == Append(sent[c], [at |-> Len(wire[c]), body |-> body])
             w == wire[c] \o HeaderBytes(Len(body)) \o body
  <2>3. Agree(s, w, handler[c], enqueued[c])
    BY <1>1, SendAgrees
  <2>4. sent' = [sent EXCEPT ![c] = s] /\ wire' = [wire EXCEPT ![c] = w]
    BY <2>1
  <2>5. Moves(c, s, w, handler[c], enqueued[c])
    BY <1>1, <2>2, <2>4 DEF Moves
  <2> HIDE DEF s, w
  <2> QED BY <2>3, <2>5, OneConnection
<1>4. ASSUME NEW c \in Conns, Accept(c)
      PROVE  IInv'
  <2> DEFINE h == [handler[c] EXCEPT !.pc = "read"]
  <2>1. Agree(sent[c], wire[c], h, enqueued[c])
    BY <1>1, <1>4, AcceptAgrees DEF Accept
  <2>2. handler' = [handler EXCEPT ![c] = h]
    BY <1>4 DEF Accept
  <2>3. sent' = sent /\ wire' = wire /\ enqueued' = enqueued /\ up' = up
    BY <1>4 DEF Accept
  <2>4. Moves(c, sent[c], wire[c], h, enqueued[c])
    BY <1>1, <2>2, <2>3 DEF Moves
  <2> HIDE DEF h
  <2> QED BY <2>1, <2>4, OneConnection
<1>5. ASSUME NEW c \in Conns, Read(c)
      PROVE  IInv'
  <2>1. /\ handler[c].pc = "read"
        /\ sent' = sent /\ wire' = wire /\ enqueued' = enqueued /\ up' = up
    BY <1>5 DEF Read
  <2>2. PICK err \in BOOLEAN :
          IF handler[c].packetLength = 0
          THEN \E n \in ReadSizes(c, HeaderLen - handler[c].alreadyRead) :
                  handler' = [handler EXCEPT ![c] = AfterHeader(@, Data(c, n), err)]
          ELSE \E n \in ReadSizes(c, handler[c].packetLength - handler[c].alreadyRead) :
                  handler' = [handler EXCEPT ![c] = AfterBody(@, Data(c, n), err)]
    BY <1>5 DEF Read
  <2>3. CASE handler[c].packetLength = 0
    <3>1. PICK n \in ReadSizes(c, HeaderLen - handler[c].alreadyRead) :
            handler' = [handler EXCEPT ![c] = AfterHeader(@, Data(c, n), err)]
      BY <2>2, <2>3
    <3>2. n \in Nat /\ handler[c].alreadyRead + n <= HeaderLen
          /\ handler[c].pos + n <= Len(wire[c])
      BY SMTT(60), <1>1 DEF ReadSizes, HeaderLen
    <3> DEFINE h == AfterHeader(handler[c], Data(c, n), err)
    <3>3. Agree(sent[c], wire[c], h, enqueued[c])
      BY <1>1, <2>1, <2>3, <3>2, HeaderAgrees DEF Data
    <3>4. handler' = [handler EXCEPT ![c] = h]
      BY <3>1
    <3>5. Moves(c, sent[c], wire[c], h, enqueued[c])
      BY <1>1, <2>1, <3>4 DEF Moves
    <3> HIDE DEF h
    <3> QED BY <3>3, <3>5, OneConnection
  <2>4. CASE handler[c].packetLength # 0
    <3>1. PICK n \in ReadSizes(c, handler[c].packetLength - handler[c].alreadyRead) :
            handler' = [handler EXCEPT ![c] = AfterBody(@, Data(c, n), err)]
      BY <2>2, <2>4
    <3>2. n \in Nat /\ handler[c].alreadyRead + n <= handler[c].packetLength
          /\ handler[c].pos + n <= Len(wire[c])
      BY SMTT(60), <1>1 DEF ReadSizes
    <3> DEFINE h == AfterBody(handler[c], Data(c, n), err)
    <3>3. Agree(sent[c], wire[c], h, enqueued[c])
      BY <1>1, <2>1, <2>4, <3>2, BodyAgrees DEF Data
    <3>4. handler' = [handler EXCEPT ![c] = h]
      BY <3>1
    <3>5. Moves(c, sent[c], wire[c], h, enqueued[c])
      BY <1>1, <2>1, <3>4 DEF Moves
    <3> HIDE DEF h
    <3> QED BY <3>3, <3>5, OneConnection
  <2> QED BY <2>3, <2>4
<1>6. ASSUME NEW c \in Conns, EnqueueReturns(c)
      PROVE  IInv'
  <2> DEFINE h == NextFrame(handler[c])
             e == Append(enqueued[c], handler[c].readBuf)
  <2>1. Agree(sent[c], wire[c], h, e)
    BY <1>1, <1>6, EnqueueAgrees DEF EnqueueReturns
  <2>2. handler' = [handler EXCEPT ![c] = h] /\ enqueued' = [enqueued EXCEPT ![c] = e]
    BY <1>6 DEF EnqueueReturns
  <2>3. sent' = sent /\ wire' = wire /\ up' = up
    BY <1>6 DEF EnqueueReturns
  <2>4. Moves(c, sent[c], wire[c], h, e)
    BY <1>1, <2>2, <2>3 DEF Moves
  <2> HIDE DEF h, e
  <2> QED BY <2>1, <2>4, OneConnection
<1>7. CASE UNCHANGED vars
  BY <1>7 DEF vars, IInv
<1> QED BY <1>2, <1>3, <1>4, <1>5, <1>6, <1>7 DEF Next

\* The invariant says more than either property.
LEMMA IInvGives == IInv => TypeOK /\ DeliveredIsPrefix
<1> SUFFICES ASSUME IInv
             PROVE  TypeOK /\ DeliveredIsPrefix
  OBVIOUS
<1>1. ASSUME NEW c \in Conns
      PROVE  LET h == handler[c] IN
             /\ h.pos <= Len(wire[c])
             /\ Len(h.headerBuf) <= HeaderLen
             /\ h.packetLength > 0 => Len(h.readBuf) <= h.packetLength
             /\ h.pc = "read" =>
                 h.alreadyRead < (IF h.packetLength = 0 THEN HeaderLen ELSE h.packetLength)
  <2>1. PICK k : AtFrame(sent[c], wire[c], handler[c], enqueued[c], k)
    BY DEF IInv, Agree
  <2>2. handler[c] \in HandlerState
    BY DEF IInv
  <2>3. handler[c].packetLength \in Nat
    BY <2>2 DEF HandlerState
  <2>4. CASE InHeader(sent[c], wire[c], handler[c], k)
    BY <2>1, <2>3, <2>4 DEF AtFrame, InHeader
  <2>5. CASE InBody(sent[c], wire[c], handler[c], k)
    BY <2>1, <2>3, <2>5 DEF AtFrame, InBody
  <2> QED BY <2>1, <2>4, <2>5 DEF AtFrame
<1>2. TypeOK
  BY <1>1 DEF IInv, TypeOK
<1>3. DeliveredIsPrefix
  BY DEF IInv, Agree, DeliveredIsPrefix
<1> QED BY <1>2, <1>3

LEMMA NotAtEnd ==
    ASSUME NEW a \in Nat, NEW l \in Nat, NEW m \in Nat, NEW z \in Nat, a + HeaderLen + l <= z
    PROVE  m < HeaderLen => z # a + m
BY DEF HeaderLen

\* A handler at the end of what was sent is behind the last frame.
LEMMA NothingLeft == IInv => NothingLeftBehind
<1> SUFFICES ASSUME IInv, NEW c \in Conns, handler[c].pc = "read",
                    handler[c].pos = Len(wire[c])
             PROVE  Len(enqueued[c]) = Cardinality(Acceptable(sent[c]))
  BY DEF NothingLeftBehind
<1> DEFINE s == sent[c]
           w == wire[c]
           h == handler[c]
           e == enqueued[c]
<1>1. /\ s \in Seq(Frame) /\ Len(s) \in Nat /\ w \in Seq(Byte) /\ h \in HandlerState
      /\ Framed(s, w) /\ h.pos = Len(w) /\ h.pc = "read"
  BY DEF IInv, Agree
<1>2. PICK k \in 1..(Len(s) + 1) : AtFrame(s, w, h, e, k)
  BY DEF IInv, Agree
<1> HIDE DEF s, w, h, e
<1>3. h.alreadyRead \in Nat /\ h.packetLength \in Nat /\ Len(w) \in Nat
  BY <1>1 DEF HandlerState
<1>4. ASSUME k \in 1..Len(s)
      PROVE  FALSE
  <2>1. /\ s[k].at \in Nat /\ s[k].body \in Bodies
        /\ s[k].at + HeaderLen + Len(s[k].body) <= Len(w) /\ Begin(s, w, k) = s[k].at
    <3>1. s[k].at \in Nat /\ s[k].body \in Bodies
      BY <1>1, <1>4, FramesOf
    <3>2. Begin(s, w, k + 1) = s[k].at + HeaderLen + Len(s[k].body) /\ Begin(s, w, k + 1) <= Len(w)
      BY <1>1, <1>4 DEF Framed
    <3>3. Begin(s, w, k) = s[k].at
      BY <1>4 DEF Begin
    <3> QED BY <3>1, <3>2, <3>3
  <2>2. Len(s[k].body) \in Nat
    BY <2>1, ListenerAssumption
  <2>3. CASE InHeader(s, w, h, k)
    <3>1. h.alreadyRead < HeaderLen /\ Len(w) = s[k].at + h.alreadyRead
      BY <1>1, <2>1, <2>3 DEF InHeader
    <3> QED BY <1>3, <2>1, <2>2, <3>1, NotAtEnd
  <2>4. CASE InBody(s, w, h, k)
    <3>1. h.alreadyRead < Len(s[k].body) /\ Len(w) = s[k].at + HeaderLen + h.alreadyRead
      BY <1>1, <2>4 DEF InBody
    <3> QED BY SMTT(60), <1>3, <2>1, <2>2, <3>1 DEF HeaderLen
  <2> QED BY <1>2, <2>3, <2>4 DEF AtFrame
<1>5. k = Len(s) + 1
  BY <1>1, <1>4
<1>6. Before(s, k) = Acceptable(s)
  BY <1>1, <1>5 DEF Before, Acceptable
<1> QED BY <1>2, <1>6 DEF AtFrame, s, e

LEMMA ClosesRightly == IInv => ClosesOnlyOnErrorOrShort
<1> SUFFICES ASSUME IInv, NEW c \in Conns, handler[c].pc = "closed", ~handler[c].failed
             PROVE  \E k \in DOMAIN sent[c] : Short(Len(sent[c][k].body))
  BY DEF ClosesOnlyOnErrorOrShort
<1>1. PICK k \in 1..(Len(sent[c]) + 1) :
            AtFrame(sent[c], wire[c], handler[c], enqueued[c], k)
  BY DEF IInv, Agree
<1>2. InBody(sent[c], wire[c], handler[c], k)
  BY <1>1 DEF AtFrame, InHeader
<1>3. sent[c] \in Seq(Frame) /\ k \in DOMAIN sent[c]
  BY <1>2 DEF IInv, InBody
<1>4. Short(Len(sent[c][k].body))
  BY <1>2 DEF InBody, Short
<1> QED BY <1>3, <1>4

LEMMA Invariance == Spec => []IInv
BY InitIInv, Step, PTL DEF Spec

\* Every variable stays in its type, and a handler never waits with a full
\* buffer: handleConnection (listener.go 26-65) always makes progress on what
\* it reads.
THEOREM TypeCorrect == Spec => []TypeOK
BY Invariance, IInvGives, PTL

\* handleConnection cuts every stream of frames back into their bodies, however
\* the reads divide it: what it enqueues are the first of those the server has
\* to take, byte for byte and in order.
THEOREM DeliveredIsPrefixCorrect == Spec => []DeliveredIsPrefix
BY Invariance, IInvGives, PTL

\* A handler with nothing left to read has passed on every body it has to: none
\* waits in its buffers for the next frame to push it out.
THEOREM NothingLeftBehindCorrect == Spec => []NothingLeftBehind
BY Invariance, NothingLeft, PTL

\* Without a read error handleConnection ends only behind a frame whose body is
\* not empty and not longer than ShortBody (listener.go 51-56).
THEOREM ClosesOnlyOnErrorOrShortCorrect == Spec => []ClosesOnlyOnErrorOrShort
BY Invariance, ClosesRightly, PTL
=============================================================================
