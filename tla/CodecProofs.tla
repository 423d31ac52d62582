---------------------------- MODULE CodecProofs ----------------------------
(***************************************************************************)
(* Proofs about module Codec, for every event, number of fields and length *)
(* of a string: a number reads back from its bytes, a field is encoded to  *)
(* as many bytes as were counted for it, and a decoder in step with the    *)
(* packet stays in step.  IInv adds to the properties where each field is  *)
(* while they are encoded and while they are decoded.                      *)
(***************************************************************************)
EXTENDS Codec, SequenceTheorems, TLAPS

-----------------------------------------------------------------------------
(* Numbers as bytes *)

\* Division by a number that is not a constant.
LEMMA Division ==
    ASSUME NEW n \in Nat, NEW d \in Nat \ {0}
    PROVE  /\ n \div d \in Nat
           /\ n % d \in Nat
           /\ n % d < d
           /\ n = d * (n \div d) + (n % d)
OBVIOUS

LEMMA DivisionUnique ==
    ASSUME NEW d \in Nat \ {0}, NEW p \in Nat, NEW q \in Nat,
           NEW r \in Nat, NEW t \in Nat, r < d, t < d, d * p + r = d * q + t
    PROVE  p = q /\ r = t
<1>1. d * (p - q) = t - r
  OBVIOUS
<1>2. CASE p - q >= 1
  <2>1. d * (p - q) >= d
    BY <1>2
  <2> QED BY <1>1, <2>1
<1>3. CASE p - q <= -1
  <2>1. d * (p - q) <= -d
    BY <1>3
  <2> QED BY <1>1, <2>1
<1>4. CASE p = q
  BY <1>1, <1>4
<1> QED BY <1>2, <1>3, <1>4

\* The low digit and the digit above it are the number's low two digits.
LEMMA TwoDigits ==
    ASSUME NEW n \in Nat, NEW d \in Nat \ {0}, NEW e \in Nat \ {0}
    PROVE  ((n \div d) % e) * d + (n % d) = n % (d * e)
<1> DEFINE q == n \div d
           r == n % d
           p == q \div e
           t == q % e
<1>1. q \in Nat /\ r \in Nat /\ r < d /\ n = d * q + r
  BY Division
<1>2. p \in Nat /\ t \in Nat /\ t < e /\ q = e * p + t
  BY <1>1, Division
<1>3. d * e \in Nat \ {0}
  OBVIOUS
<1> DEFINE u == n \div (d * e)
           v == n % (d * e)
<1>4. u \in Nat /\ v \in Nat /\ v < d * e /\ n = (d * e) * u + v
  BY <1>3, Division
<1> HIDE DEF q, r, p, t, u, v
<1>5. n = (d * e) * p + (t * d + r)
  <2>1. d * q = (d * e) * p + t * d
    BY <1>2
  <2> QED BY <1>1, <1>2, <2>1
<1>6. t * d + r \in Nat /\ t * d + r < d * e
  <2>1. t * d + d <= d * e
    <3>1. t + 1 <= e
      BY <1>2
    <3>2. (t + 1) * d <= e * d
      BY <1>2, <3>1
    <3> QED BY <1>2, <3>2
  <2> QED BY <1>1, <1>2, <2>1
<1>7. v = t * d + r
  <2> DEFINE x == t * d + r
             y == d * e
  <2>1. x \in Nat /\ x < y /\ y \in Nat \ {0} /\ y * u + v = y * p + x
    BY <1>3, <1>4, <1>5, <1>6
  <2> HIDE DEF x, y
  <2>2. v < y
    BY <1>4 DEF y
  <2>3. v = x
    BY <1>2, <1>4, <2>1, <2>2, DivisionUnique
  <2> QED BY <2>3 DEF x
<1> QED BY <1>7 DEF q, r, t, v

LEMMA Bases ==
    /\ Base \in Nat \ {0} /\ Base2 \in Nat \ {0} /\ Base4 \in Nat \ {0}
    /\ Base8 \in Nat \ {0}
<1>1. Base \in Nat \ {0}
  BY CodecAssumption
<1>2. Base2 \in Nat \ {0}
  BY <1>1 DEF Base2
<1>3. Base4 \in Nat \ {0}
  BY <1>2 DEF Base4
<1>4. Base8 \in Nat \ {0}
  BY <1>3 DEF Base8
<1> QED BY <1>1, <1>2, <1>3, <1>4

\* Two sequences one after the other.
LEMMA Concat ==
    ASSUME NEW T, NEW x \in Seq(T), NEW y \in Seq(T)
    PROVE  /\ x \o y \in Seq(T)
           /\ Len(x \o y) = Len(x) + Len(y)
           /\ \A i \in 1..Len(x) : (x \o y)[i] = x[i]
           /\ \A i \in 1..Len(y) : (x \o y)[Len(x) + i] = y[i]
<1>1. /\ x \o y \in Seq(T)
      /\ Len(x \o y) = Len(x) + Len(y)
      /\ \A i \in 1..(Len(x) + Len(y)) :
            (x \o y)[i] = IF i <= Len(x) THEN x[i] ELSE y[i - Len(x)]
  BY ConcatProperties
<1>2. Len(x) \in Nat /\ Len(y) \in Nat
  OBVIOUS
<1>3. ASSUME NEW i \in 1..Len(y)
      PROVE  (x \o y)[Len(x) + i] = y[i]
  <2>1. Len(x) + i \in 1..(Len(x) + Len(y)) /\ ~(Len(x) + i <= Len(x))
        /\ (Len(x) + i) - Len(x) = i
    BY <1>2
  <2> QED BY <1>1, <2>1
<1>4. ASSUME NEW i \in 1..Len(x)
      PROVE  (x \o y)[i] = x[i]
  <2>1. i \in 1..(Len(x) + Len(y)) /\ i <= Len(x)
    BY <1>2
  <2> QED BY <1>1, <2>1
<1> QED BY <1>1, <1>3, <1>4

LEMMA Part ==
    ASSUME NEW T, NEW x \in Seq(T), NEW p \in Nat, NEW n \in Nat, p + n <= Len(x)
    PROVE  /\ SubSeq(x, p + 1, p + n) \in Seq(T)
           /\ Len(SubSeq(x, p + 1, p + n)) = n
           /\ \A i \in 1..n : SubSeq(x, p + 1, p + n)[i] = x[p + i]
<1>1. Len(x) \in Nat /\ p + 1 \in Int /\ p + n \in Int
  OBVIOUS
<1>2. \A i \in (p + 1)..(p + n) : x[i] \in T
  BY <1>1
<1> QED BY <1>1, <1>2, SubSeqProperties

LEMMA ConcatBytes ==
    ASSUME NEW x \in Seq(Byte), NEW y \in Seq(Byte)
    PROVE  /\ x \o y \in Seq(Byte)
           /\ Len(x \o y) = Len(x) + Len(y)
           /\ \A i \in 1..Len(x) : (x \o y)[i] = x[i]
           /\ \A i \in 1..Len(y) : (x \o y)[Len(x) + i] = y[i]
BY Concat

\* Two bytes read as the number's two low digits.
LEMMA Bytes2Reads ==
    ASSUME NEW n \in Nat
    PROVE  /\ Bytes2(n) \in Seq(Byte) /\ Len(Bytes2(n)) = 2
           /\ Number2(Bytes2(n)) = n % Base2
<1> DEFINE a == (n \div Base) % Base
           b == n % Base
<1>1. n \div Base \in Nat
  BY Bases, Division
<1>2. a \in Nat /\ a < Base /\ b \in Nat /\ b < Base
  BY <1>1, Bases, Division
<1>3. a * Base + b = n % Base2
  BY Bases, TwoDigits DEF Base2
<1>4. Bytes2(n) = <<a, b>>
  BY DEF Bytes2
<1> HIDE DEF a, b
<1>5. a \in Byte /\ b \in Byte
  BY <1>2, Bases DEF Byte
<1> QED BY <1>3, <1>4, <1>5 DEF Number2

\* The bytes a number is read from.
LEMMA Number4Digits ==
    ASSUME NEW x \in Seq(Byte), Len(x) >= 4
    PROVE  Number4(x) = (x[1] * Base + x[2]) * Base2 + (x[3] * Base + x[4])
<1>1. \A i \in 1..2 : SubSeq(x, 0 + 1, 0 + 2)[i] = x[0 + i]
  BY Part
<1>2. \A i \in 1..2 : SubSeq(x, 2 + 1, 2 + 2)[i] = x[2 + i]
  BY Part
<1>3. /\ SubSeq(x, 1, 2)[1] = x[1] /\ SubSeq(x, 1, 2)[2] = x[2]
      /\ SubSeq(x, 3, 4)[1] = x[3] /\ SubSeq(x, 3, 4)[2] = x[4]
  BY <1>1, <1>2
<1> QED BY <1>3 DEF Number4, Number2

Digits8(x) ==
    ((x[1] * Base + x[2]) * Base2 + (x[3] * Base + x[4])) * Base4
        + ((x[5] * Base + x[6]) * Base2 + (x[7] * Base + x[8]))

LEMMA Number8Digits ==
    ASSUME NEW x \in Seq(Byte), Len(x) >= 8
    PROVE  Number8(x) = Digits8(x)
<1> DEFINE a == SubSeq(x, 1, 4)
           b == SubSeq(x, 5, 8)
<1>1. /\ SubSeq(x, 0 + 1, 0 + 4) \in Seq(Byte) /\ Len(SubSeq(x, 0 + 1, 0 + 4)) = 4
      /\ \A i \in 1..4 : SubSeq(x, 0 + 1, 0 + 4)[i] = x[0 + i]
  BY Part
<1>2. /\ SubSeq(x, 4 + 1, 4 + 4) \in Seq(Byte) /\ Len(SubSeq(x, 4 + 1, 4 + 4)) = 4
      /\ \A i \in 1..4 : SubSeq(x, 4 + 1, 4 + 4)[i] = x[4 + i]
  BY Part
<1>3. /\ a \in Seq(Byte) /\ Len(a) = 4 /\ b \in Seq(Byte) /\ Len(b) = 4
      /\ a[1] = x[1] /\ a[2] = x[2] /\ a[3] = x[3] /\ a[4] = x[4]
      /\ b[1] = x[5] /\ b[2] = x[6] /\ b[3] = x[7] /\ b[4] = x[8]
  BY <1>1, <1>2
<1> HIDE DEF a, b
<1>4. /\ Number4(a) = (a[1] * Base + a[2]) * Base2 + (a[3] * Base + a[4])
      /\ Number4(b) = (b[1] * Base + b[2]) * Base2 + (b[3] * Base + b[4])
  BY SMTT(60), <1>3, Number4Digits
<1>5. Number8(x) = Number4(a) * Base4 + Number4(b)
  BY DEF Number8, a, b
<1> QED BY <1>3, <1>4, <1>5 DEF Digits8

LEMMA Bytes4Reads ==
    ASSUME NEW n \in Nat
    PROVE  /\ Bytes4(n) \in Seq(Byte) /\ Len(Bytes4(n)) = 4
           /\ Number4(Bytes4(n)) = n % Base4
<1> DEFINE x == Bytes2(n \div Base2)
           y == Bytes2(n)
           z == x \o y
<1>1. n \div Base2 \in Nat
  BY Bases, Division
<1>2. /\ x \in Seq(Byte) /\ Len(x) = 2 /\ Number2(x) = (n \div Base2) % Base2
      /\ y \in Seq(Byte) /\ Len(y) = 2 /\ Number2(y) = n % Base2
  BY <1>1, Bytes2Reads
<1> HIDE DEF x, y
<1>3. /\ z \in Seq(Byte) /\ Len(z) = Len(x) + Len(y)
      /\ \A i \in 1..Len(x) : z[i] = x[i]
      /\ \A i \in 1..Len(y) : z[Len(x) + i] = y[i]
  BY <1>2, ConcatBytes
<1>4. z \in Seq(Byte) /\ Len(z) = 4 /\ Len(z) >= 4 /\ z[1] = x[1] /\ z[2] = x[2] /\ z[3] = y[1] /\ z[4] = y[2]
  BY <1>2, <1>3
<1> HIDE DEF z
<1>5. Number4(z) = (z[1] * Base + z[2]) * Base2 + (z[3] * Base + z[4])
  <2>1. z \in Seq(Byte) /\ Len(z) >= 4
    BY <1>4
  <2> QED BY <2>1, Number4Digits
<1>6. Number2(x) = z[1] * Base + z[2] /\ Number2(y) = z[3] * Base + z[4]
  BY <1>4 DEF Number2
<1>7. Number4(z) = ((n \div Base2) % Base2) * Base2 + (n % Base2)
  BY <1>2, <1>5, <1>6
<1>8. Number4(z) = n % Base4
  BY <1>7, Bases, TwoDigits DEF Base4
<1> QED BY <1>3, <1>4, <1>8 DEF Bytes4, x, y, z

LEMMA Bytes8Reads ==
    ASSUME NEW n \in Nat
    PROVE  /\ Bytes8(n) \in Seq(Byte) /\ Len(Bytes8(n)) = 8
           /\ n < Base8 => Number8(Bytes8(n)) = n
<1> DEFINE x == Bytes4(n \div Base4)
           y == Bytes4(n)
           z == x \o y
<1>1. n \div Base4 \in Nat
  BY Bases, Division
<1>2. /\ x \in Seq(Byte) /\ Len(x) = 4 /\ Number4(x) = (n \div Base4) % Base4
      /\ y \in Seq(Byte) /\ Len(y) = 4 /\ Number4(y) = n % Base4
  BY <1>1, Bytes4Reads
<1> HIDE DEF x, y
<1>3. /\ z \in Seq(Byte) /\ Len(z) = Len(x) + Len(y)
      /\ \A i \in 1..Len(x) : z[i] = x[i]
      /\ \A i \in 1..Len(y) : z[Len(x) + i] = y[i]
  BY <1>2, ConcatBytes
<1>4. /\ z \in Seq(Byte) /\ Len(z) = 8 /\ Len(z) >= 8
      /\ z[1] = x[1] /\ z[2] = x[2] /\ z[3] = x[3] /\ z[4] = x[4]
      /\ z[5] = y[1] /\ z[6] = y[2] /\ z[7] = y[3] /\ z[8] = y[4]
  BY <1>2, <1>3
<1> HIDE DEF z
<1>5. Number8(z) = Digits8(z)
  <2>1. z \in Seq(Byte) /\ Len(z) >= 8
    BY <1>4
  <2> QED BY <2>1, Number8Digits
<1>6. /\ Number4(x) = (x[1] * Base + x[2]) * Base2 + (x[3] * Base + x[4])
      /\ Number4(y) = (y[1] * Base + y[2]) * Base2 + (y[3] * Base + y[4])
  <2>1. x \in Seq(Byte) /\ Len(x) >= 4 /\ y \in Seq(Byte) /\ Len(y) >= 4
    BY <1>2
  <2> QED BY <2>1, Number4Digits
<1>7. Number8(z) = ((n \div Base4) % Base4) * Base4 + (n % Base4)
  BY <1>2, <1>4, <1>5, <1>6 DEF Digits8
<1>8. Number8(z) = n % Base8
  BY <1>7, Bases, TwoDigits DEF Base8
<1>9. n < Base8 => n % Base8 = n
  BY Bases
<1> QED BY <1>3, <1>4, <1>8, <1>9 DEF Bytes8, x, y, z

\* A length of 16 bits is read as it was written.
LEMMA LengthReads ==
    ASSUME NEW n \in Nat, n < Base2
    PROVE  Number2(Bytes2(n)) = n
<1>1. n % Base2 = n
  BY Bases
<1> QED BY <1>1, Bytes2Reads

-----------------------------------------------------------------------------
(* Writing into the buffer *)

\* A byte of a buffer.
Cell == Byte \cup {Unset}
Buffers == [bytes : Seq(Cell), at : Nat]

LEMMA ConcatCells ==
    ASSUME NEW x \in Seq(Cell), NEW y \in Seq(Cell)
    PROVE  /\ x \o y \in Seq(Cell)
           /\ Len(x \o y) = Len(x) + Len(y)
           /\ \A i \in 1..Len(x) : (x \o y)[i] = x[i]
           /\ \A i \in 1..Len(y) : (x \o y)[Len(x) + i] = y[i]
BY Concat

\* after is before with data behind what was written.
Writes(before, after, data) ==
    /\ after \in Buffers
    /\ after.at = before.at + Len(data)
    /\ Len(after.bytes) = Len(before.bytes)
    /\ \A i \in 1..before.at : after.bytes[i] = before.bytes[i]
    /\ \A i \in 1..Len(data) : after.bytes[before.at + i] = data[i]

LEMMA WriteFits ==
    ASSUME NEW buf \in Buffers, NEW data \in Seq(Byte), buf.at + Len(data) <= Len(buf.bytes)
    PROVE  Writes(buf, WriteData(buf, data), data)
<1> DEFINE old == buf.bytes
           at == buf.at
           n == Len(data)
           size == Len(old)
           p == SubSeq(old, 1, at)
           d == SubSeq(data, 1, n)
           q == SubSeq(old, at + n + 1, size)
           r == [bytes |-> p \o d \o q, at |-> at + n]
<1>1. old \in Seq(Cell) /\ at \in Nat /\ n \in Nat /\ size \in Nat /\ at + n <= size
  BY DEF Buffers
<1>2. WriteData(buf, data) = r
  <2>1. (IF size <= n + at THEN size - at ELSE n) = n
    BY <1>1
  <2> QED BY <2>1 DEF WriteData
<1>3. p \in Seq(Cell) /\ Len(p) = at /\ \A i \in 1..at : p[i] = old[i]
  <2>1. 0 \in Nat /\ 0 + at <= Len(old)
    BY <1>1
  <2>2. /\ SubSeq(old, 0 + 1, 0 + at) \in Seq(Cell) /\ Len(SubSeq(old, 0 + 1, 0 + at)) = at
        /\ \A i \in 1..at : SubSeq(old, 0 + 1, 0 + at)[i] = old[0 + i]
    BY <1>1, <2>1, Part
  <2>3. 0 + at = at /\ \A i \in 1..at : 0 + i = i
    BY <1>1
  <2> HIDE DEF old, at
  <2> QED BY <2>2, <2>3
<1>4. d \in Seq(Cell) /\ Len(d) = n /\ \A i \in 1..n : d[i] = data[i]
  <2>1. \A i \in 1..n : data[i] \in Cell
    BY DEF Cell
  <2>2. /\ d \in Seq(Cell) /\ Len(d) = (IF 1 <= n THEN n - 1 + 1 ELSE 0)
        /\ \A i \in 1..(n - 1 + 1) : d[i] = data[1 + i - 1]
    BY <1>1, <2>1, SubSeqProperties
  <2> QED BY <1>1, <2>2
<1>5. q \in Seq(Cell) /\ Len(q) = size - (at + n)
  <2>1. at + n \in Nat /\ size - (at + n) \in Nat /\ (at + n) + (size - (at + n)) = size
    BY <1>1
  <2> DEFINE m == at + n
             l == size - (at + n)
  <2>2. m \in Nat /\ l \in Nat /\ m + l <= Len(old) /\ m + l = size
    BY <2>1
  <2> HIDE DEF m, l
  <2>3. SubSeq(old, m + 1, m + l) \in Seq(Cell) /\ Len(SubSeq(old, m + 1, m + l)) = l
    BY <1>1, <2>2, Part
  <2> QED BY <2>2, <2>3 DEF m, l
<1> HIDE DEF old, at, n, size, p, d, q
<1> DEFINE u == p \o d
<1>6. /\ u \in Seq(Cell) /\ Len(u) = Len(p) + Len(d)
      /\ \A i \in 1..Len(p) : u[i] = p[i]
      /\ \A i \in 1..Len(d) : u[Len(p) + i] = d[i]
  BY <1>3, <1>4, ConcatCells
<1>7. /\ Len(u) = at + n
      /\ \A i \in 1..at : u[i] = old[i]
      /\ \A i \in 1..n : u[at + i] = data[i]
  BY <1>3, <1>4, <1>6
<1> HIDE DEF u
<1> DEFINE v == u \o q
<1>8. /\ v \in Seq(Cell) /\ Len(v) = Len(u) + Len(q)
      /\ \A i \in 1..Len(u) : v[i] = u[i]
  BY <1>5, <1>6, ConcatCells
<1>9. Len(v) = size
  BY <1>1, <1>5, <1>7, <1>8
<1>10. /\ \A i \in 1..at : i \in 1..Len(u)
       /\ \A i \in 1..n : at + i \in 1..Len(u)
  BY <1>1, <1>7
<1>11. /\ \A i \in 1..at : v[i] = old[i]
       /\ \A i \in 1..n : v[at + i] = data[i]
  BY <1>7, <1>8, <1>10
<1>12. r = [bytes |-> v, at |-> at + n]
  BY DEF u
<1> HIDE DEF v, r
<1>13. r \in Buffers /\ r.bytes = v /\ r.at = at + n
  BY <1>1, <1>8, <1>12 DEF Buffers
<1> QED BY <1>2, <1>9, <1>11, <1>13 DEF Writes, old, at, n, size

LEMMA WritesTwice ==
    ASSUME NEW a \in Buffers, NEW b, NEW c, NEW x \in Seq(Byte), NEW y \in Seq(Byte),
           Writes(a, b, x), Writes(b, c, y)
    PROVE  Writes(a, c, x \o y)
<1> DEFINE z == x \o y
<1>1. /\ z \in Seq(Byte) /\ Len(z) = Len(x) + Len(y)
      /\ \A i \in 1..Len(x) : z[i] = x[i]
      /\ \A i \in 1..Len(y) : z[Len(x) + i] = y[i]
  BY ConcatBytes
<1> HIDE DEF z
<1>2. Len(x) \in Nat /\ Len(y) \in Nat /\ a.at \in Nat
  BY DEF Buffers
<1>3. b.at = a.at + Len(x) /\ c.at = b.at + Len(y)
  BY DEF Writes
<1>4. \A i \in 1..b.at : c.bytes[i] = b.bytes[i]
  BY DEF Writes
<1>5. \A i \in 1..a.at : c.bytes[i] = a.bytes[i]
  <2>1. \A i \in 1..a.at : i \in 1..b.at
    BY <1>2, <1>3
  <2> QED BY <1>4, <2>1 DEF Writes
<1>6. ASSUME NEW i \in 1..Len(z)
      PROVE  c.bytes[a.at + i] = z[i]
  <2>1. CASE i <= Len(x)
    <3>1. i \in 1..Len(x) /\ a.at + i \in 1..b.at
      BY <1>1, <1>2, <1>3, <2>1
    <3>2. b.bytes[a.at + i] = x[i]
      BY <3>1 DEF Writes
    <3> QED BY <1>1, <1>4, <3>1, <3>2
  <2>2. CASE ~(i <= Len(x))
    <3>1. i - Len(x) \in 1..Len(y) /\ Len(x) + (i - Len(x)) = i
          /\ b.at + (i - Len(x)) = a.at + i
      BY <1>1, <1>2, <1>3, <2>2
    <3> DEFINE j == i - Len(x)
    <3>2. j \in 1..Len(y) /\ Len(x) + j = i /\ b.at + j = a.at + i
      BY <3>1
    <3> HIDE DEF j
    <3>3. c.bytes[b.at + j] = y[j]
      BY <3>2 DEF Writes
    <3> QED BY <1>1, <3>2, <3>3
  <2> QED BY <2>1, <2>2
<1>7. c.at = a.at + Len(z)
  BY <1>1, <1>2, <1>3
<1>8. Writes(a, c, z)
  BY <1>5, <1>6, <1>7 DEF Writes
<1> QED BY <1>8 DEF z

-----------------------------------------------------------------------------
(* Fields *)

LEMMA FieldTypes ==
    ASSUME NEW field \in Fields
    PROVE  /\ IsString(field) => field \in [string : Strings] /\ field.string \in Seq(Byte)
                                 /\ Len(field.string) \in Nat
           /\ ~IsString(field) => field \in [uint64 : Ints] /\ field.uint64 \in Nat
                                  /\ field.uint64 < Base8
<1>1. CASE field \in [uint64 : Ints]
  <2>1. ~IsString(field)
    BY <1>1 DEF IsString
  <2>2. field.uint64 \in Ints
    BY <1>1
  <2>3. field.uint64 \in 0..(Base8 - 1)
    BY <2>2, CodecAssumption
  <2>4. field.uint64 \in Nat /\ field.uint64 < Base8
    BY <2>3, Bases
  <2> QED BY <1>1, <2>1, <2>4
<1>2. CASE field \in [string : Strings]
  <2>1. IsString(field)
    BY <1>2 DEF IsString
  <2>2. field.string \in Strings
    BY <1>2
  <2>3. PICK n \in 0..MaxLen : field.string \in [1..n -> Byte]
    BY <2>2 DEF Strings
  <2>4. field.string \in Seq(Byte)
    BY <2>3, CodecAssumption
  <2> QED BY <1>2, <2>1, <2>4
<1> QED BY <1>1, <1>2 DEF Fields

\* What is counted for a field is what it is encoded to.
LEMMA FieldLength ==
    ASSUME NEW field \in Fields
    PROVE  /\ FieldBytes(field) \in Seq(Byte)
           /\ Len(FieldBytes(field)) = LengthOf(field)
           /\ LengthOf(field) \in Nat
<1>1. CASE IsString(field)
  <2> DEFINE s == field.string
  <2>1. s \in Seq(Byte) /\ Len(s) \in Nat
    BY <1>1, FieldTypes
  <2>2. Bytes2(Len(s)) \in Seq(Byte) /\ Len(Bytes2(Len(s))) = 2
    BY <2>1, Bytes2Reads
  <2>3. /\ Bytes2(Len(s)) \o s \in Seq(Byte)
        /\ Len(Bytes2(Len(s)) \o s) = Len(Bytes2(Len(s))) + Len(s)
    BY <2>1, <2>2, ConcatBytes
  <2>4. LengthOf(field) = Len(s) + 2 /\ FieldBytes(field) = Bytes2(Len(s)) \o s
    BY <1>1 DEF LengthOf, FieldBytes, LengthWidth
  <2> HIDE DEF s
  <2> QED BY <2>1, <2>2, <2>3, <2>4
<1>2. CASE ~IsString(field)
  <2>1. field.uint64 \in Nat
    BY <1>2, FieldTypes
  <2>2. Bytes8(field.uint64) \in Seq(Byte) /\ Len(Bytes8(field.uint64)) = 8
    BY <2>1, Bytes8Reads
  <2> QED BY <1>2, <2>2 DEF LengthOf, FieldBytes, IntWidth
<1> QED BY <1>1, <1>2

\* encode() writes the bytes of a field that has room.
LEMMA EncodeFits ==
    ASSUME NEW buf \in Buffers, NEW field \in Fields,
           buf.at + LengthOf(field) <= Len(buf.bytes)
    PROVE  Writes(buf, Encode(buf, field), FieldBytes(field))
<1>0. buf.at \in Nat /\ buf.bytes \in Seq(Cell) /\ Len(buf.bytes) \in Nat
  BY DEF Buffers
<1>1. CASE IsString(field)
  <2> DEFINE s == field.string
             l == Bytes2(Len(s))
             b == WriteData(buf, l)
             c == WriteData(b, s)
  <2>1. s \in Seq(Byte) /\ Len(s) \in Nat
    BY <1>1, FieldTypes
  <2>2. l \in Seq(Byte) /\ Len(l) = 2
    BY <2>1, Bytes2Reads
  <2>3. LengthOf(field) = Len(s) + 2
    BY <1>1 DEF LengthOf, LengthWidth
  <2>4. Encode(buf, field) = c /\ FieldBytes(field) = l \o s
    BY <1>1 DEF Encode, FieldBytes
  <2> HIDE DEF s, l
  <2>5. buf.at + Len(l) <= Len(buf.bytes)
    BY <1>0, <2>1, <2>2, <2>3
  <2>6. Writes(buf, b, l)
    BY <2>2, <2>5, WriteFits
  <2> HIDE DEF b
  <2>7. b \in Buffers /\ b.at = buf.at + 2 /\ Len(b.bytes) = Len(buf.bytes)
    BY <2>2, <2>6 DEF Writes
  <2>8. b.at + Len(s) <= Len(b.bytes)
    BY <1>0, <2>1, <2>3, <2>7
  <2>9. Writes(b, c, s)
    BY <2>1, <2>7, <2>8, WriteFits
  <2> HIDE DEF c
  <2>10. Writes(buf, c, l \o s)
    BY <2>1, <2>2, <2>6, <2>9, WritesTwice
  <2> QED BY <2>4, <2>10
<1>2. CASE ~IsString(field)
  <2> DEFINE d == Bytes8(field.uint64)
  <2>1. field.uint64 \in Nat
    BY <1>2, FieldTypes
  <2>2. d \in Seq(Byte) /\ Len(d) = 8
    BY <2>1, Bytes8Reads
  <2>3. LengthOf(field) = 8 /\ Encode(buf, field) = WriteData(buf, d) /\ FieldBytes(field) = d
    BY <1>2 DEF LengthOf, IntWidth, Encode, FieldBytes
  <2> HIDE DEF d
  <2> QED BY <2>2, <2>3, WriteFits
<1> QED BY <1>1, <1>2

-----------------------------------------------------------------------------
(* The inductive invariant *)

\* data is in bytes behind the first p of them.
IsAt(bytes, p, data) == \A i \in 1..Len(data) : bytes[p + i] = data[i]

\* What the generated function has counted: where each field will begin.
Sums(fields, sums) ==
    /\ sums \in Seq(Nat) /\ Len(sums) \in 1..(Len(fields) + 1)
    /\ sums[1] = HeaderLen
    /\ \A k \in 1..(Len(sums) - 1) : sums[k + 1] = sums[k] + LengthOf(fields[k])
    /\ \A i, j \in 1..Len(sums) : i <= j => sums[i] <= sums[j]

Counted(fields, sums) == Sums(fields, sums) /\ Len(sums) = Len(fields) + 1

\* The first n fields are written, each where its sum says.
Written(fields, sums, buf, n) ==
    /\ buf \in Buffers /\ Len(buf.bytes) = sums[Len(sums)]
    /\ n \in 0..Len(fields) /\ buf.at = sums[n + 1]
    /\ \A k \in 1..n : IsAt(buf.bytes, sums[k], FieldBytes(fields[k]))
    /\ \A i \in (HeaderLen + 1)..buf.at : buf.bytes[i] \in Byte

Packed(fields, sums, bytes) ==
    /\ bytes \in Seq(Byte) /\ Len(bytes) = sums[Len(sums)] - HeaderLen
    /\ \A k \in 1..Len(fields) : IsAt(bytes, sums[k] - HeaderLen, FieldBytes(fields[k]))

Values == [uint64 : Nat] \cup [string : Seq(Byte)]

\* The fields decoded so far are the first ones of the event, and the offset is
\* where the next one begins.
InStep(fields, sums, values, at) ==
    /\ Len(values) <= Len(fields)
    /\ \A k \in 1..Len(values) : values[k] = fields[k]
    /\ at = sums[Len(values) + 1] - HeaderLen

Fresh == decoded = <<>> /\ offset = 0
Decoder ==
    /\ decoded \in Seq(Values) /\ offset \in 0..Len(packet)
    /\ Len(decoded) <= Len(event)
    /\ pc = "done" => Len(decoded) = Len(event)
    /\ ShortStrings(event) => pc # "failed" /\ InStep(event, lengths, decoded, offset)

IInv ==
    /\ event \in Events
    /\ pc \in {"count", "encode", "decode", "done", "failed"}
    /\ Sums(event, lengths)
    /\ pc = "count" => buffer \in Buffers /\ encoded = 0 /\ packet = <<>> /\ Fresh
    /\ pc # "count" => Counted(event, lengths) /\ Written(event, lengths, buffer, encoded)
    /\ pc = "encode" => packet = <<>> /\ Fresh
    /\ Sent => encoded = Len(event) /\ Packed(event, lengths, packet) /\ Decoder

LEMMA EventTypes ==
    ASSUME NEW e \in Events
    PROVE  /\ e \in Seq(Fields) /\ Len(e) \in Nat /\ Len(e) >= 1
           /\ \A k \in 1..Len(e) : e[k] \in Fields
<1> DEFINE Rests == UNION {[1..n -> Fields] : n \in 0..(MaxFields - 1)}
           With(id, rest) == <<[uint64 |-> id]>> \o rest
<1>0. Events = {With(id, rest) : id \in Ints, rest \in Rests}
  BY DEF Events
<1> HIDE DEF Rests, With
<1>1. PICK id \in Ints, rest \in Rests : e = With(id, rest)
  BY <1>0
<1> USE DEF With
<1>2. PICK n \in 0..(MaxFields - 1) : rest \in [1..n -> Fields]
  BY DEF Rests
<1>3. rest \in Seq(Fields)
  BY <1>2, CodecAssumption
<1>4. [uint64 |-> id] \in Fields
  BY DEF Fields
<1>5. <<[uint64 |-> id]>> \in Seq(Fields) /\ Len(<<[uint64 |-> id]>>) = 1
  BY <1>4
<1>6. e \in Seq(Fields) /\ Len(e) = Len(<<[uint64 |-> id]>>) + Len(rest)
  BY <1>1, <1>3, <1>5, ConcatProperties
<1>7. Len(e) >= 1
  BY <1>3, <1>5, <1>6
<1> QED BY <1>6, <1>7

\* The next length is as far behind the last as the field is long.
LEMMA SumsGrow ==
    ASSUME NEW e \in Events, NEW s, Sums(e, s), Len(s) <= Len(e)
    PROVE  Sums(e, Append(s, s[Len(s)] + LengthOf(e[Len(s)])))
<1> DEFINE n == Len(s)
           l == LengthOf(e[n])
           x == s[n] + l
           t == Append(s, x)
<1>1. s \in Seq(Nat) /\ n \in 1..Len(e) /\ Len(e) \in Nat
  BY EventTypes DEF Sums
<1>2. e[n] \in Fields
  BY <1>1, EventTypes
<1>3. l \in Nat
  BY <1>2, FieldLength
<1>4. s[n] \in Nat /\ x \in Nat /\ s[n] <= x
  BY <1>1, <1>3
<1>5. n = Len(s) /\ x = s[n] + LengthOf(e[n]) /\ t = Append(s, x)
  OBVIOUS
<1> HIDE DEF l, x, t, n
<1>6. /\ t \in Seq(Nat) /\ Len(t) = n + 1 /\ t[n + 1] = x
      /\ \A i \in 1..n : t[i] = s[i]
  BY <1>1, <1>4, <1>5
<1>7. n \in 1..n /\ 1 \in 1..n /\ n \in Nat /\ n + 1 <= Len(e) + 1
  BY <1>1
<1>8. \A k \in 1..(n - 1) : s[k + 1] = s[k] + LengthOf(e[k])
  BY <1>5 DEF Sums
<1>9. \A i, j \in 1..n : i <= j => s[i] <= s[j]
  BY <1>5 DEF Sums
<1>10. ASSUME NEW k \in 1..n
       PROVE  t[k + 1] = t[k] + LengthOf(e[k])
  <2>1. CASE k = n
    BY <1>5, <1>6, <1>7, <2>1
  <2>2. CASE k # n
    <3>1. k \in 1..(n - 1) /\ k + 1 \in 1..n
      BY <1>7, <2>2
    <3> QED BY <1>6, <1>8, <3>1
  <2> QED BY <2>1, <2>2
<1>11. ASSUME NEW i \in 1..(n + 1), NEW j \in 1..(n + 1), i <= j
       PROVE  t[i] <= t[j]
  <2>1. CASE j = n + 1 /\ i = n + 1
    BY <1>4, <1>6, <2>1
  <2>2. CASE j = n + 1 /\ i # n + 1
    <3>1. i \in 1..n /\ i <= n
      BY <1>7, <2>2
    <3>2. s[i] <= s[n] /\ s[i] \in Nat
      BY <1>1, <1>5, <1>7, <1>9, <3>1
    <3>3. t[i] = s[i] /\ t[j] = x
      BY <1>6, <2>2, <3>1
    <3> QED BY <1>4, <3>2, <3>3
  <2>3. CASE j # n + 1
    <3>1. i \in 1..n /\ j \in 1..n
      BY <1>7, <1>11, <2>3
    <3> QED BY <1>6, <1>9, <1>11, <3>1
  <2> QED BY <2>1, <2>2, <2>3
<1>12. t[1] = HeaderLen
  BY <1>6, <1>7 DEF Sums
<1>13. Len(t) \in 1..(Len(e) + 1) /\ Len(t) - 1 = n
  BY <1>1, <1>6, <1>7
<1>14. Sums(e, t)
  BY <1>6, <1>10, <1>11, <1>12, <1>13 DEF Sums
<1> QED BY <1>5, <1>14

\* Where the k-th field begins and ends.
LEMMA Bounds ==
    ASSUME NEW e \in Events, NEW s, Counted(e, s), NEW k \in 1..Len(e)
    PROVE  /\ s[k] \in Nat /\ s[k + 1] \in Nat /\ s[Len(s)] \in Nat
           /\ HeaderLen <= s[k] /\ s[k + 1] = s[k] + LengthOf(e[k])
           /\ s[k + 1] <= s[Len(s)]
           /\ e[k] \in Fields /\ LengthOf(e[k]) \in Nat
           /\ FieldBytes(e[k]) \in Seq(Byte) /\ Len(FieldBytes(e[k])) = LengthOf(e[k])
<1>1. /\ s \in Seq(Nat) /\ Len(s) = Len(e) + 1 /\ Len(e) \in Nat /\ s[1] = HeaderLen
      /\ \A j \in 1..(Len(s) - 1) : s[j + 1] = s[j] + LengthOf(e[j])
      /\ \A i, j \in 1..Len(s) : i <= j => s[i] <= s[j]
  BY EventTypes DEF Counted, Sums
<1>2. /\ k \in 1..(Len(s) - 1) /\ k \in 1..Len(s) /\ 1 \in 1..Len(s) /\ k + 1 \in 1..Len(s)
      /\ Len(s) \in 1..Len(s) /\ 1 <= k /\ k + 1 <= Len(s)
  BY <1>1
<1>3. e[k] \in Fields
  BY EventTypes
<1>4. s[k] \in Nat /\ s[k + 1] \in Nat /\ s[Len(s)] \in Nat
  BY <1>1, <1>2
<1>5. s[1] <= s[k] /\ s[k + 1] <= s[Len(s)]
  BY <1>1, <1>2
<1> QED BY <1>1, <1>2, <1>3, <1>4, <1>5, FieldLength

LEMMA InitInv == Init => IInv
<1> SUFFICES ASSUME Init PROVE IInv
  OBVIOUS
<1>1. /\ event \in Events /\ pc = "count" /\ lengths = <<HeaderLen>>
      /\ buffer = [bytes |-> <<>>, at |-> 0] /\ encoded = 0 /\ packet = <<>> /\ Fresh
  BY DEF Init, Fresh
<1>2. event \in Seq(Fields) /\ Len(event) \in Nat /\ Len(event) >= 1
  BY <1>1, EventTypes
<1>3. lengths \in Seq(Nat) /\ Len(lengths) = 1 /\ lengths[1] = HeaderLen /\ HeaderLen \in Nat
  BY <1>1 DEF HeaderLen
<1>4. Sums(event, lengths)
  <2>1. Len(lengths) \in 1..(Len(event) + 1)
    BY <1>2, <1>3
  <2>2. ASSUME NEW k \in 1..(Len(lengths) - 1) PROVE FALSE
    BY <1>3
  <2>3. \A i, j \in 1..Len(lengths) : i <= j => lengths[i] <= lengths[j]
    BY <1>3
  <2> QED BY <1>3, <2>1, <2>2, <2>3 DEF Sums
<1>5. buffer \in Buffers
  BY <1>1 DEF Buffers
<1> QED BY <1>1, <1>4, <1>5 DEF IInv, Sent

LEMMA CountKeeps == IInv /\ CountField => IInv'
<1> SUFFICES ASSUME IInv, CountField PROVE IInv'
  OBVIOUS
<1>1. /\ pc = "count" /\ Len(lengths) <= Len(event)
      /\ lengths' = Append(lengths, lengths[Len(lengths)] + LengthOf(event[Len(lengths)]))
      /\ UNCHANGED <<event, pc, buffer, encoded, packet, decoded, offset>>
  BY DEF CountField, TotalLength, server
<1>2. event \in Events /\ Sums(event, lengths) /\ Fresh /\ buffer \in Buffers
      /\ encoded = 0 /\ packet = <<>>
  BY <1>1 DEF IInv
<1>3. Sums(event, lengths')
  BY <1>1, <1>2, SumsGrow
<1> QED BY <1>1, <1>2, <1>3 DEF IInv, Sent, Fresh

LEMMA MakeBufferKeeps == IInv /\ MakeBuffer => IInv'
<1> SUFFICES ASSUME IInv, MakeBuffer PROVE IInv'
  OBVIOUS
<1> DEFINE size == lengths[Len(lengths)]
<1>1. /\ pc = "count" /\ Len(lengths) > Len(event)
      /\ buffer' = [bytes |-> [i \in 1..size |-> Unset], at |-> HeaderLen] /\ pc' = "encode"
      /\ UNCHANGED <<event, lengths, encoded, packet, decoded, offset>>
  BY DEF MakeBuffer, TotalLength, NewBuffer, server
<1>2. event \in Events /\ Sums(event, lengths) /\ Fresh /\ encoded = 0 /\ packet = <<>>
  BY <1>1 DEF IInv
<1>3. /\ lengths \in Seq(Nat) /\ Len(lengths) = Len(event) + 1 /\ lengths[1] = HeaderLen
      /\ Len(event) \in Nat
  BY <1>1, <1>2, EventTypes DEF Sums
<1>4. size \in Nat
  BY <1>3
<1> HIDE DEF size
<1>5. /\ buffer' \in Buffers /\ Len(buffer'.bytes) = size /\ buffer'.at = HeaderLen
  <2> DEFINE b == [i \in 1..size |-> Unset]
  <2>1. b \in Seq(Cell) /\ Len(b) = size
    BY <1>4 DEF Cell
  <2> HIDE DEF b
  <2>2. buffer' = [bytes |-> b, at |-> HeaderLen]
    BY <1>1 DEF b
  <2> QED BY <2>1, <2>2 DEF Buffers, HeaderLen
<1>6. Counted(event, lengths)
  BY <1>2, <1>3 DEF Counted
<1>7. Written(event, lengths, buffer', 0)
  <2>1. 0 \in 0..Len(event) /\ buffer'.at = lengths[0 + 1]
    BY <1>3, <1>5
  <2>2. \A k \in 1..0 : FALSE
    OBVIOUS
  <2>3. \A i \in (HeaderLen + 1)..buffer'.at : FALSE
    BY <1>5 DEF HeaderLen
  <2> QED BY <1>5, <2>1, <2>2, <2>3 DEF Written, size
<1> QED BY <1>1, <1>2, <1>6, <1>7 DEF IInv, Sent, Fresh

\* Writing the next field leaves those before it where they are.
LEMMA WrittenGrows ==
    ASSUME NEW e \in Events, NEW s, NEW b, NEW n, NEW c,
           Counted(e, s), Written(e, s, b, n), n < Len(e),
           Writes(b, c, FieldBytes(e[n + 1]))
    PROVE  Written(e, s, c, n + 1)
<1> DEFINE m == n + 1
           data == FieldBytes(e[m])
<1>1. Len(e) \in Nat /\ n \in Nat /\ m \in 1..Len(e) /\ m \in 0..Len(e)
  BY EventTypes DEF Written
<1>2. /\ s[m] \in Nat /\ s[m + 1] = s[m] + LengthOf(e[m]) /\ HeaderLen <= s[m]
      /\ data \in Seq(Byte) /\ Len(data) = LengthOf(e[m]) /\ LengthOf(e[m]) \in Nat
  BY <1>1, Bounds
<1>3. b.at = s[m] /\ b \in Buffers
  BY DEF Written
<1> HIDE DEF data
<1>4. /\ c \in Buffers /\ c.at = s[m] + Len(data) /\ Len(c.bytes) = Len(b.bytes)
      /\ \A i \in 1..s[m] : c.bytes[i] = b.bytes[i]
      /\ \A i \in 1..Len(data) : c.bytes[s[m] + i] = data[i]
  BY <1>3 DEF Writes, data
<1>5. ASSUME NEW k \in 1..m
      PROVE  IsAt(c.bytes, s[k], FieldBytes(e[k]))
  <2>1. CASE k = m
    BY <1>4, <2>1 DEF IsAt, data
  <2>2. CASE k # m
    <3> DEFINE d == FieldBytes(e[k])
    <3>1. k \in 1..n /\ k \in 1..Len(e) /\ k \in Nat /\ k + 1 <= m
      BY <1>1, <2>2
    <3>2. /\ s[k] \in Nat /\ s[k + 1] = s[k] + LengthOf(e[k]) /\ Len(d) = LengthOf(e[k])
          /\ LengthOf(e[k]) \in Nat
      BY <3>1, Bounds
    <3>3. s[k + 1] <= s[m]
      <4>1. k + 1 \in 1..Len(s) /\ m \in 1..Len(s)
        BY <1>1, <3>1 DEF Counted
      <4> QED BY <3>1, <4>1 DEF Counted, Sums
    <3>4. IsAt(b.bytes, s[k], d)
      BY <3>1 DEF Written
    <3> HIDE DEF d
    <3>5. ASSUME NEW i \in 1..Len(d)
          PROVE  c.bytes[s[k] + i] = d[i]
      <4>1. s[k] + i \in 1..s[m]
        BY <1>2, <3>2, <3>3
      <4> QED BY <1>4, <3>4, <4>1 DEF IsAt
    <3> QED BY <3>5 DEF IsAt, d
  <2> QED BY <2>1, <2>2
<1>6. ASSUME NEW i \in (HeaderLen + 1)..c.at
      PROVE  c.bytes[i] \in Byte
  <2>0. HeaderLen \in Nat
    BY DEF HeaderLen
  <2>1. CASE i <= s[m]
    <3>1. i \in 1..s[m] /\ i \in (HeaderLen + 1)..s[m]
      BY <1>2, <2>0, <2>1
    <3> QED BY <1>3, <1>4, <3>1 DEF Written
  <2>2. CASE ~(i <= s[m])
    <3> DEFINE j == i - s[m]
    <3>1. j \in 1..Len(data) /\ s[m] + j = i
      BY <1>2, <1>4, <2>0, <2>2
    <3> HIDE DEF j
    <3>2. c.bytes[i] = data[j]
      BY <1>4, <3>1
    <3>3. data[j] \in Byte
      BY <1>2, <3>1 DEF data
    <3> QED BY <3>2, <3>3
  <2> QED BY <2>1, <2>2
<1>7. Len(c.bytes) = s[Len(s)] /\ c.at = s[m + 1]
  BY <1>2, <1>4 DEF Written, data
<1>8. Written(e, s, c, m)
  BY <1>1, <1>4, <1>5, <1>6, <1>7 DEF Written
<1> QED BY <1>8

LEMMA EncodeKeeps == IInv /\ EncodeField => IInv'
<1> SUFFICES ASSUME IInv, EncodeField PROVE IInv'
  OBVIOUS
<1> DEFINE m == encoded + 1
<1>1. /\ pc = "encode" /\ encoded < Len(event)
      /\ buffer' = Encode(buffer, event[m]) /\ encoded' = m
      /\ UNCHANGED <<event, pc, lengths, packet, decoded, offset>>
  BY DEF EncodeField, server
<1>2. /\ event \in Events /\ Sums(event, lengths) /\ Counted(event, lengths)
      /\ Written(event, lengths, buffer, encoded) /\ packet = <<>> /\ Fresh
  BY <1>1 DEF IInv
<1>3. m \in 1..Len(event)
  BY <1>1, <1>2, EventTypes DEF Written
<1>4. /\ lengths[m + 1] = lengths[m] + LengthOf(event[m]) /\ event[m] \in Fields
      /\ lengths[m + 1] <= lengths[Len(lengths)]
  BY <1>2, <1>3, Bounds
<1>5. buffer \in Buffers /\ buffer.at + LengthOf(event[m]) <= Len(buffer.bytes)
  BY <1>2, <1>4 DEF Written
<1>6. Writes(buffer, Encode(buffer, event[m]), FieldBytes(event[m]))
  BY <1>4, <1>5, EncodeFits
<1>7. Written(event, lengths, Encode(buffer, event[m]), m)
  BY <1>1, <1>2, <1>6, WrittenGrows
<1> QED BY <1>1, <1>2, <1>7 DEF IInv, Sent, Fresh

LEMMA SendKeeps == IInv /\ SendPacket => IInv'
<1> SUFFICES ASSUME IInv, SendPacket PROVE IInv'
  OBVIOUS
<1> DEFINE all == lengths[Len(lengths)]
           bytes == buffer.bytes
           part == SubSeq(bytes, HeaderLen + 1, Len(bytes))
<1>1. /\ pc = "encode" /\ encoded = Len(event) /\ packet' = part /\ pc' = "decode"
      /\ UNCHANGED <<event, lengths, buffer, encoded, decoded, offset>>
  BY DEF SendPacket, client
<1>2. /\ event \in Events /\ Sums(event, lengths) /\ Counted(event, lengths)
      /\ Written(event, lengths, buffer, encoded) /\ Fresh
  BY <1>1 DEF IInv
<1>3. /\ Len(event) \in 1..Len(event) /\ Len(lengths) = Len(event) + 1
      /\ 1 \in 1..Len(event) /\ Len(event) \in Nat
  BY <1>2, EventTypes DEF Counted
<1>4. all \in Nat /\ HeaderLen <= all /\ buffer.at = all /\ Len(bytes) = all
  <2>1. /\ lengths[Len(event)] \in Nat /\ all \in Nat
        /\ HeaderLen <= lengths[Len(event)]
        /\ lengths[Len(event) + 1] = lengths[Len(event)] + LengthOf(event[Len(event)])
        /\ LengthOf(event[Len(event)]) \in Nat
    BY <1>2, <1>3, Bounds
  <2> QED BY <1>1, <1>2, <1>3, <2>1 DEF Written, HeaderLen
<1>5. \A i \in (HeaderLen + 1)..all : bytes[i] \in Byte
  BY <1>2, <1>4 DEF Written
<1>6. /\ part \in Seq(Byte) /\ Len(part) = all - HeaderLen
      /\ \A i \in 1..(all - HeaderLen) : part[i] = bytes[HeaderLen + i]
  <2>1. \A i \in (HeaderLen + 1)..Len(bytes) : bytes[i] \in Byte
    BY <1>4, <1>5
  <2>2. bytes \in Seq(Cell)
    BY <1>2 DEF Written, Buffers
  <2> HIDE DEF bytes, all
  <2>3. HeaderLen + 1 \in 1..(Len(bytes) + 1) /\ Len(bytes) \in 0..Len(bytes)
    BY <1>4 DEF HeaderLen
  <2>4. /\ part \in Seq(Byte)
        /\ Len(part) = (IF HeaderLen + 1 <= Len(bytes) THEN Len(bytes) - (HeaderLen + 1) + 1 ELSE 0)
        /\ \A i \in 1..(Len(bytes) - (HeaderLen + 1) + 1) :
              part[i] = bytes[(HeaderLen + 1) + i - 1]
    BY <2>1, <2>2, <2>3, SubSeqProperties
  <2> QED BY <1>4, <2>4 DEF HeaderLen
<1>7. ASSUME NEW k \in 1..Len(event)
      PROVE  IsAt(part, lengths[k] - HeaderLen, FieldBytes(event[k]))
  <2> DEFINE d == FieldBytes(event[k])
             s == lengths[k]
  <2>1. /\ s \in Nat /\ HeaderLen <= s /\ lengths[k + 1] = s + Len(d)
        /\ lengths[k + 1] <= all /\ Len(d) \in Nat
    BY <1>2, Bounds
  <2>2. IsAt(bytes, s, d)
    BY <1>1, <1>2 DEF Written
  <2> HIDE DEF d, s, bytes, all, part
  <2>3. ASSUME NEW i \in 1..Len(d)
        PROVE  part[(s - HeaderLen) + i] = d[i]
    <3>1. /\ (s - HeaderLen) + i \in 1..(all - HeaderLen)
          /\ HeaderLen + ((s - HeaderLen) + i) = s + i
      BY <1>4, <2>1 DEF HeaderLen
    <3>2. part[(s - HeaderLen) + i] = bytes[s + i]
      BY <1>6, <3>1
    <3> QED BY <2>2, <3>2 DEF IsAt
  <2> QED BY <2>3 DEF IsAt, d, s
<1>8. Packed(event, lengths, part)
  BY <1>6, <1>7 DEF Packed
<1>9. Decoder'
  <2>1. decoded' = <<>> /\ offset' = 0 /\ Len(<<>>) = 0
    BY <1>1, <1>2 DEF Fresh
  <2>2. decoded' \in Seq(Values) /\ Len(decoded') = 0
    BY <2>1
  <2>3. offset' \in 0..Len(packet')
    BY <1>1, <1>4, <1>6, <2>1 DEF HeaderLen
  <2>4. InStep(event, lengths, <<>>, 0)
    BY <1>2, <1>3, <2>1 DEF InStep, Sums, HeaderLen
  <2> QED BY <1>1, <1>3, <2>1, <2>2, <2>3, <2>4 DEF Decoder, HeaderLen
<1> QED BY <1>1, <1>2, <1>8, <1>9 DEF IInv, Sent

-----------------------------------------------------------------------------
(* Decoding *)

\* What is left of a packet.
LEMMA Left ==
    ASSUME NEW p \in Seq(Byte), NEW o \in 0..Len(p)
    PROVE  /\ SubSeq(p, o + 1, Len(p)) \in Seq(Byte)
           /\ Len(SubSeq(p, o + 1, Len(p))) = Len(p) - o
           /\ \A i \in 1..(Len(p) - o) : SubSeq(p, o + 1, Len(p))[i] = p[o + i]
<1> DEFINE l == Len(p) - o
<1>1. o \in Nat /\ l \in Nat /\ o + l = Len(p)
  OBVIOUS
<1> HIDE DEF l
<1>2. /\ SubSeq(p, o + 1, o + l) \in Seq(Byte) /\ Len(SubSeq(p, o + 1, o + l)) = l
      /\ \A i \in 1..l : SubSeq(p, o + 1, o + l)[i] = p[o + i]
  BY <1>1, Part
<1>3. o + l = Len(p)
  BY <1>1
<1> QED BY <1>2, <1>3 DEF l

LEMMA RestIs ==
    ASSUME packet \in Seq(Byte), offset \in 0..Len(packet)
    PROVE  /\ Rest \in Seq(Byte) /\ Len(Rest) = Len(packet) - offset
           /\ \A i \in 1..(Len(packet) - offset) : Rest[i] = packet[offset + i]
BY Left DEF Rest

\* Numbers read from bytes.
LEMMA Digit ==
    ASSUME NEW a \in Nat, NEW b \in Nat, NEW c \in Nat
    PROVE  a * b + c \in Nat
OBVIOUS

LEMMA Number2IsNat ==
    ASSUME NEW x \in Seq(Byte), Len(x) >= 2
    PROVE  Number2(x) \in Nat
<1>1. x[1] \in Byte /\ x[2] \in Byte
  OBVIOUS
<1>2. x[1] \in Nat /\ x[2] \in Nat /\ Base \in Nat
  BY <1>1, Bases DEF Byte
<1> QED BY <1>2, Digit DEF Number2

LEMMA Number8IsNat ==
    ASSUME NEW x \in Seq(Byte), Len(x) >= 8
    PROVE  Number8(x) \in Nat
<1>1. /\ x[1] \in Byte /\ x[2] \in Byte /\ x[3] \in Byte /\ x[4] \in Byte
      /\ x[5] \in Byte /\ x[6] \in Byte /\ x[7] \in Byte /\ x[8] \in Byte
  OBVIOUS
<1>2. Byte \subseteq Nat /\ Base \in Nat /\ Base2 \in Nat /\ Base4 \in Nat
  BY Bases DEF Byte
<1> DEFINE a == x[1] * Base + x[2]
           b == x[3] * Base + x[4]
           c == x[5] * Base + x[6]
           d == x[7] * Base + x[8]
<1>3. a \in Nat /\ b \in Nat /\ c \in Nat /\ d \in Nat
  BY <1>1, <1>2, Digit
<1>4. Digits8(x) = (a * Base2 + b) * Base4 + (c * Base2 + d)
  BY DEF Digits8
<1> HIDE DEF a, b, c, d
<1>5. a * Base2 + b \in Nat /\ c * Base2 + d \in Nat
  BY <1>2, <1>3, Digit
<1>6. Digits8(x) \in Nat
  BY <1>2, <1>4, <1>5, Digit
<1> QED BY <1>6, Number8Digits

\* Bytes that begin with those of a field are read as the field.
LEMMA Uint64Reads ==
    ASSUME NEW x \in Seq(Byte), NEW n \in Nat, n < Base8, Len(x) >= 8,
           \A i \in 1..8 : x[i] = Bytes8(n)[i]
    PROVE  Number8(x) = n
<1> DEFINE y == Bytes8(n)
<1>1. y \in Seq(Byte) /\ Len(y) >= 8 /\ Number8(y) = n
  BY Bytes8Reads
<1> HIDE DEF y
<1>2. /\ x[1] = y[1] /\ x[2] = y[2] /\ x[3] = y[3] /\ x[4] = y[4]
      /\ x[5] = y[5] /\ x[6] = y[6] /\ x[7] = y[7] /\ x[8] = y[8]
  BY DEF y
<1>3. Number8(x) = Digits8(x) /\ Number8(y) = Digits8(y)
  BY <1>1, Number8Digits
<1> QED BY <1>1, <1>2, <1>3 DEF Digits8

LEMMA StringReads ==
    ASSUME NEW x \in Seq(Byte), NEW s \in Seq(Byte), Len(s) < Base2, Len(x) >= Len(s) + 2,
           \A i \in 1..(Len(s) + 2) : x[i] = (Bytes2(Len(s)) \o s)[i]
    PROVE  /\ Number2(x) = Len(s)
           /\ SubSeq(x, LengthWidth + 1, LengthWidth + Len(s)) = s
<1> DEFINE n == Len(s)
           y == Bytes2(n)
           z == y \o s
           t == SubSeq(x, 2 + 1, 2 + n)
<1>1. n \in Nat /\ y \in Seq(Byte) /\ Len(y) = 2 /\ Number2(y) = n
  BY LengthReads, Bytes2Reads
<1> HIDE DEF y
<1>2. /\ \A i \in 1..Len(y) : z[i] = y[i]
      /\ \A i \in 1..Len(s) : z[Len(y) + i] = s[i]
  BY <1>1, ConcatBytes
<1>3. x[1] = y[1] /\ x[2] = y[2] /\ \A i \in 1..n : x[2 + i] = s[i]
  <2>1. \A i \in 1..n : 2 + i \in 1..(n + 2)
    BY <1>1
  <2>2. 1 \in 1..(n + 2) /\ 2 \in 1..(n + 2) /\ 1 \in 1..2 /\ 2 \in 1..2
    BY <1>1
  <2>3. \A i \in 1..(n + 2) : x[i] = z[i]
    BY DEF y
  <2> HIDE DEF z
  <2> QED BY SMTT(60), <1>1, <1>2, <2>1, <2>2, <2>3
<1>4. Number2(x) = n
  BY <1>1, <1>3 DEF Number2
<1>5. t \in Seq(Byte) /\ Len(t) = n /\ \A i \in 1..n : t[i] = x[2 + i]
  <2>1. 2 \in Nat /\ n \in Nat /\ 2 + n <= Len(x)
    BY <1>1
  <2> HIDE DEF n
  <2> QED BY <2>1, Part
<1> HIDE DEF t
<1>6. t = s
  BY <1>1, <1>3, <1>5, SeqEqual
<1> QED BY <1>4, <1>6 DEF LengthWidth, t

\* A decoder in step with the packet finds the next field ahead.
LEMMA Ahead ==
    ASSUME NEW k \in 1..Len(event), event \in Events, Counted(event, lengths),
           Packed(event, lengths, packet), offset = lengths[k] - HeaderLen
    PROVE  /\ Len(Rest) >= LengthOf(event[k])
           /\ \A i \in 1..LengthOf(event[k]) : Rest[i] = FieldBytes(event[k])[i]
<1> DEFINE e == event
           s == lengths
           p == packet
           o == offset
           d == FieldBytes(e[k])
           l == LengthOf(e[k])
           r == Rest
           all == s[Len(s)]
<1>1. /\ s[k] \in Nat /\ all \in Nat /\ HeaderLen <= s[k] /\ s[k + 1] = s[k] + l
      /\ s[k + 1] <= all /\ l \in Nat /\ Len(d) = l
  BY Bounds
<1>2. p \in Seq(Byte) /\ Len(p) = all - HeaderLen /\ IsAt(p, o, d)
  BY DEF Packed
<1>3. o \in 0..Len(p) /\ Len(p) - o >= l
  <2> HIDE DEF all, l, d
  <2> QED BY SMTT(60), <1>1, <1>2 DEF HeaderLen
<1>4. Len(r) = Len(p) - o /\ \A i \in 1..(Len(p) - o) : r[i] = p[o + i]
  BY <1>2, <1>3, RestIs
<1> HIDE DEF d, l, r
<1>5. \A i \in 1..l : i \in 1..(Len(p) - o)
  BY <1>1, <1>2, <1>3
<1>6. \A i \in 1..l : r[i] = d[i]
  BY <1>1, <1>2, <1>4, <1>5 DEF IsAt
<1>7. Len(r) >= l
  BY <1>3, <1>4
<1> QED BY <1>6, <1>7 DEF r, d, l

\* One more value keeps it in step.
LEMMA StepsOn ==
    ASSUME NEW e \in Events, NEW s, NEW d \in Seq(Values), NEW o, NEW v \in Values,
           Counted(e, s), InStep(e, s, d, o), Len(d) < Len(e), v = e[Len(d) + 1]
    PROVE  InStep(e, s, Append(d, v), o + LengthOf(v))
<1> DEFINE n == Len(d)
           t == Append(d, v)
<1>1. n \in Nat /\ Len(e) \in Nat /\ n + 1 \in 1..Len(e)
  BY EventTypes
<1>2. /\ Len(t) = n + 1 /\ t[n + 1] = v
      /\ \A i \in 1..n : t[i] = d[i]
  OBVIOUS
<1> HIDE DEF t
<1>3. ASSUME NEW k \in 1..(n + 1)
      PROVE  t[k] = e[k]
  <2>1. CASE k = n + 1
    BY <1>2, <2>1
  <2>2. CASE k # n + 1
    <3>1. k \in 1..n
      BY <1>1, <2>2
    <3> QED BY <1>2, <3>1 DEF InStep
  <2> QED BY <2>1, <2>2
<1>4. /\ s[n + 1] \in Nat /\ s[n + 1 + 1] = s[n + 1] + LengthOf(e[n + 1])
      /\ LengthOf(e[n + 1]) \in Nat
  BY <1>1, Bounds
<1>5. o = s[n + 1] - HeaderLen
  BY DEF InStep
<1>6. o + LengthOf(v) = s[(n + 1) + 1] - HeaderLen
  BY <1>4, <1>5 DEF HeaderLen
<1>7. Len(t) <= Len(e)
  BY <1>1, <1>2
<1>8. InStep(e, s, t, o + LengthOf(v))
  BY <1>2, <1>3, <1>6, <1>7 DEF InStep
<1> QED BY <1>8 DEF t

LEMMA DecodeUint64Keeps == IInv /\ DecodeUint64 => IInv'
<1> SUFFICES ASSUME IInv, DecodeUint64 PROVE IInv'
  OBVIOUS
<1> DEFINE k == Len(decoded) + 1
           v == [uint64 |-> Number8(Rest)]
<1>1. /\ pc = "decode" /\ Len(decoded) < Len(event) /\ ~IsString(event[k])
      /\ Len(Rest) >= 8
      /\ decoded' = Append(decoded, v) /\ offset' = offset + 8
      /\ UNCHANGED <<event, pc, lengths, buffer, encoded, packet>>
  BY DEF DecodeUint64, Decoding, NextIsString, Enough, Has, client, IntWidth
<1>2. /\ event \in Events /\ Sums(event, lengths) /\ Counted(event, lengths)
      /\ Written(event, lengths, buffer, encoded) /\ encoded = Len(event)
      /\ Packed(event, lengths, packet) /\ Decoder
  BY <1>1 DEF IInv, Sent
<1>3. /\ decoded \in Seq(Values) /\ offset \in 0..Len(packet) /\ Len(event) \in Nat
      /\ packet \in Seq(Byte)
  BY <1>2, EventTypes DEF Decoder, Packed
<1>4. k \in 1..Len(event) /\ Len(decoded') = k
  BY <1>1, <1>3
<1>5. Rest \in Seq(Byte) /\ Len(Rest) = Len(packet) - offset
  BY <1>3, RestIs
<1>6. v \in Values /\ LengthOf(v) = 8
  <2>1. Number8(Rest) \in Nat
    BY <1>1, <1>5, Number8IsNat
  <2>2. ~IsString(v)
    BY DEF IsString
  <2> QED BY <2>1, <2>2 DEF Values, LengthOf, IntWidth
<1>7. offset' \in 0..Len(packet)
  BY <1>1, <1>3, <1>5
<1>8. ASSUME ShortStrings(event)
      PROVE  InStep(event, lengths, decoded', offset')
  <2>1. InStep(event, lengths, decoded, offset)
    BY <1>2, <1>8 DEF Decoder
  <2>2. event[k] \in Fields
    BY <1>2, <1>4, EventTypes
  <2> DEFINE n == event[k].uint64
  <2>3. event[k] = [uint64 |-> n] /\ n \in Nat /\ n < Base8 /\ LengthOf(event[k]) = 8
        /\ FieldBytes(event[k]) = Bytes8(n)
    BY <1>1, <2>2, FieldTypes DEF LengthOf, FieldBytes, IntWidth
  <2> HIDE DEF n
  <2>4. offset = lengths[k] - HeaderLen
    BY <2>1 DEF InStep
  <2>5. \A i \in 1..8 : Rest[i] = Bytes8(n)[i]
    BY <1>2, <1>4, <2>3, <2>4, Ahead
  <2>6. Number8(Rest) = n
    BY <1>1, <1>5, <2>3, <2>5, Uint64Reads
  <2>7. v = event[k]
    BY <2>3, <2>6
  <2> HIDE DEF v
  <2> QED BY <1>1, <1>2, <1>3, <1>6, <2>1, <2>7, StepsOn
<1> HIDE DEF v
<1>9. decoded' \in Seq(Values)
  BY <1>1, <1>3, <1>6
<1>10. Decoder'
  BY <1>1, <1>4, <1>7, <1>8, <1>9 DEF Decoder
<1> QED BY <1>1, <1>2, <1>10 DEF IInv, Sent

LEMMA DecodeStringKeeps == IInv /\ DecodeString => IInv'
<1> SUFFICES ASSUME IInv, DecodeString PROVE IInv'
  OBVIOUS
<1> DEFINE k == Len(decoded) + 1
           n == Number2(Rest)
           t == SubSeq(Rest, LengthWidth + 1, LengthWidth + n)
           v == [string |-> t]
<1>1. /\ pc = "decode" /\ Len(decoded) < Len(event) /\ IsString(event[k])
      /\ Len(Rest) >= 2 /\ Len(Rest) >= 2 + n
      /\ decoded' = Append(decoded, v) /\ offset' = offset + 2 + n
      /\ UNCHANGED <<event, pc, lengths, buffer, encoded, packet>>
  BY DEF DecodeString, Decoding, NextIsString, Enough, Has, client, LengthWidth, StringLength
<1>2. /\ event \in Events /\ Sums(event, lengths) /\ Counted(event, lengths)
      /\ Written(event, lengths, buffer, encoded) /\ encoded = Len(event)
      /\ Packed(event, lengths, packet) /\ Decoder
  BY <1>1 DEF IInv, Sent
<1>3. /\ decoded \in Seq(Values) /\ offset \in 0..Len(packet) /\ Len(event) \in Nat
      /\ packet \in Seq(Byte)
  BY <1>2, EventTypes DEF Decoder, Packed
<1>4. k \in 1..Len(event) /\ Len(decoded') = k
  BY <1>1, <1>3
<1>5. Rest \in Seq(Byte) /\ Len(Rest) = Len(packet) - offset
  BY <1>3, RestIs
<1>6. n \in Nat
  BY <1>1, <1>5, Number2IsNat
<1>7. t \in Seq(Byte) /\ Len(t) = n
  <2> HIDE DEF n
  <2>1. 2 \in Nat /\ 2 + n <= Len(Rest)
    BY <1>1, <1>6
  <2>2. SubSeq(Rest, 2 + 1, 2 + n) \in Seq(Byte) /\ Len(SubSeq(Rest, 2 + 1, 2 + n)) = n
    BY <1>5, <1>6, <2>1, Part
  <2> QED BY <2>2 DEF LengthWidth
<1> HIDE DEF n, t
<1>8. v \in Values /\ LengthOf(v) = n + 2
  <2>1. IsString(v) /\ v.string = t
    BY DEF IsString
  <2> QED BY <1>7, <2>1 DEF Values, LengthOf, LengthWidth
<1>9. offset' \in 0..Len(packet)
  BY <1>1, <1>3, <1>5, <1>6
<1>10. ASSUME ShortStrings(event)
       PROVE  InStep(event, lengths, decoded', offset')
  <2>1. InStep(event, lengths, decoded, offset)
    BY <1>2, <1>10 DEF Decoder
  <2>2. event[k] \in Fields
    BY <1>2, <1>4, EventTypes
  <2> DEFINE s == event[k].string
  <2>3. event[k] \in [string : Strings] /\ s \in Seq(Byte) /\ Len(s) \in Nat
    BY <1>1, <2>2, FieldTypes
  <2>4. /\ event[k] = [string |-> s] /\ LengthOf(event[k]) = Len(s) + 2
        /\ FieldBytes(event[k]) = Bytes2(Len(s)) \o s
    BY <1>1, <2>3 DEF LengthOf, FieldBytes, LengthWidth
  <2>5. Len(s) < Base2
    BY <1>1, <1>4, <1>10, <1>2, EventTypes DEF ShortStrings
  <2> HIDE DEF s
  <2>6. offset = lengths[k] - HeaderLen
    BY <2>1 DEF InStep
  <2>7. /\ Len(Rest) >= Len(s) + 2
        /\ \A i \in 1..(Len(s) + 2) : Rest[i] = (Bytes2(Len(s)) \o s)[i]
    BY <1>2, <1>4, <2>4, <2>6, Ahead
  <2>8. Number2(Rest) = Len(s) /\ SubSeq(Rest, LengthWidth + 1, LengthWidth + Len(s)) = s
    BY <1>5, <2>3, <2>5, <2>7, StringReads
  <2>9. v = event[k]
    BY <2>4, <2>8 DEF t, n
  <2>10. offset' = offset + LengthOf(v)
    BY <1>1, <1>3, <1>6, <1>8
  <2> HIDE DEF v
  <2> QED BY <1>1, <1>2, <1>3, <1>8, <2>1, <2>9, <2>10, StepsOn
<1> HIDE DEF v
<1>11. decoded' \in Seq(Values)
  BY <1>1, <1>3, <1>8
<1>12. Decoder'
  BY <1>1, <1>4, <1>9, <1>10, <1>11 DEF Decoder
<1> QED BY <1>1, <1>2, <1>12 DEF IInv, Sent

LEMMA FailKeeps == IInv /\ DecodeFails => IInv'
<1> SUFFICES ASSUME IInv, DecodeFails PROVE IInv'
  OBVIOUS
<1> DEFINE k == Len(decoded) + 1
<1>1. /\ pc = "decode" /\ Len(decoded) < Len(event) /\ ~Enough /\ pc' = "failed"
      /\ UNCHANGED <<event, lengths, buffer, encoded, packet, decoded, offset>>
  BY DEF DecodeFails, Decoding, client, server
<1>2. /\ event \in Events /\ Sums(event, lengths) /\ Counted(event, lengths)
      /\ Written(event, lengths, buffer, encoded) /\ encoded = Len(event)
      /\ Packed(event, lengths, packet) /\ Decoder
  BY <1>1 DEF IInv, Sent
<1>3. /\ decoded \in Seq(Values) /\ offset \in 0..Len(packet) /\ Len(event) \in Nat
      /\ packet \in Seq(Byte)
  BY <1>2, EventTypes DEF Decoder, Packed
<1>4. k \in 1..Len(event)
  BY <1>1, <1>3
<1>5. ~ShortStrings(event)
  <2> SUFFICES ASSUME ShortStrings(event) PROVE Enough
    BY <1>1
  <2>1. InStep(event, lengths, decoded, offset)
    BY <1>2 DEF Decoder
  <2>2. offset = lengths[k] - HeaderLen
    BY <2>1 DEF InStep
  <2>3. /\ Len(Rest) >= LengthOf(event[k])
        /\ \A i \in 1..LengthOf(event[k]) : Rest[i] = FieldBytes(event[k])[i]
    BY <1>2, <1>4, <2>2, Ahead
  <2>4. event[k] \in Fields /\ Rest \in Seq(Byte)
    BY <1>2, <1>3, <1>4, EventTypes, RestIs
  <2>5. CASE ~IsString(event[k])
    BY <2>3, <2>5 DEF Enough, NextIsString, Has, LengthOf
  <2>6. CASE IsString(event[k])
    <3> DEFINE s == event[k].string
    <3>1. s \in Seq(Byte) /\ Len(s) \in Nat
      BY <2>4, <2>6, FieldTypes
    <3>2. LengthOf(event[k]) = Len(s) + 2 /\ FieldBytes(event[k]) = Bytes2(Len(s)) \o s
      BY <2>6 DEF LengthOf, FieldBytes, LengthWidth
    <3>3. Len(s) < Base2
      BY <1>2, <1>4, <2>6, EventTypes DEF ShortStrings
    <3> HIDE DEF s
    <3>4. Number2(Rest) = Len(s)
      BY <2>3, <2>4, <3>1, <3>2, <3>3, StringReads
    <3> QED BY <2>3, <2>6, <3>1, <3>2, <3>4
            DEF Enough, NextIsString, Has, StringLength, LengthWidth
  <2> QED BY <2>5, <2>6
<1>6. Decoder'
  BY <1>1, <1>2, <1>5 DEF Decoder
<1> QED BY <1>1, <1>2, <1>6 DEF IInv, Sent

LEMMA ReturnKeeps == IInv /\ DecodeReturns => IInv'
<1> SUFFICES ASSUME IInv, DecodeReturns PROVE IInv'
  OBVIOUS
<1>1. /\ pc = "decode" /\ Len(decoded) = Len(event) /\ pc' = "done"
      /\ UNCHANGED <<event, lengths, buffer, encoded, packet, decoded, offset>>
  BY DEF DecodeReturns, client, server
<1>2. /\ event \in Events /\ Sums(event, lengths) /\ Counted(event, lengths)
      /\ Written(event, lengths, buffer, encoded) /\ encoded = Len(event)
      /\ Packed(event, lengths, packet) /\ Decoder
  BY <1>1 DEF IInv, Sent
<1>3. Decoder'
  BY <1>1, <1>2 DEF Decoder
<1> QED BY <1>1, <1>2, <1>3 DEF IInv, Sent

LEMMA StutterKeeps == IInv /\ UNCHANGED vars => IInv'
<1> SUFFICES ASSUME IInv, UNCHANGED vars PROVE IInv'
  OBVIOUS
<1>1. UNCHANGED <<event, pc, lengths, buffer, encoded, packet, decoded, offset>>
  BY DEF vars
<1>2. Decoder = Decoder' /\ Sent = Sent' /\ Fresh = Fresh'
  BY <1>1 DEF Decoder, Sent, Fresh
<1> QED BY <1>1, <1>2 DEF IInv

LEMMA Keeps == IInv /\ [Next]_vars => IInv'
BY CountKeeps, MakeBufferKeeps, EncodeKeeps, SendKeeps, DecodeUint64Keeps,
   DecodeStringKeeps, FailKeeps, ReturnKeeps, StutterKeeps DEF Next

LEMMA Invariant == Spec => []IInv
BY InitInv, Keeps, PTL DEF Spec

-----------------------------------------------------------------------------
(* The theorems *)

\* Every byte sent is one that encode() wrote, whatever the lengths of the
\* strings, and the decoder never reads past the end of its packet.
THEOREM TypeCorrect == Spec => []TypeOK
<1>1. IInv => TypeOK
  <2> SUFFICES ASSUME IInv PROVE TypeOK
    OBVIOUS
  <2>1. event \in Events /\ pc \in {"count", "encode", "decode", "done", "failed"}
        /\ lengths \in Seq(Nat)
    BY DEF IInv, Sums
  <2>2. Len(event) \in Nat
    BY <2>1, EventTypes
  <2>3. buffer \in [bytes : Seq(Byte \cup {Unset}), at : Nat] /\ encoded \in 0..Len(event)
    BY <2>1, <2>2 DEF IInv, Written, Buffers, Cell
  <2>4. CASE Sent
    BY <2>1, <2>3, <2>4 DEF IInv, Packed, Decoder, Values, TypeOK
  <2>5. CASE ~Sent
    <3>1. packet = <<>> /\ decoded = <<>> /\ offset = 0
      BY <2>1, <2>5 DEF IInv, Sent, Fresh
    <3>2. packet \in Seq(Byte) /\ Len(packet) = 0
      BY <3>1
    <3> QED BY <2>1, <2>3, <3>1, <3>2 DEF TypeOK
  <2> QED BY <2>4, <2>5
<1> QED BY <1>1, Invariant, PTL

\* The length LogEvent adds up is the length its fields are encoded to: the
\* packet is the bytes of the fields, each where the sum before it says.
THEOREM FillsBufferCorrect == Spec => []FillsBuffer
<1>1. IInv => FillsBuffer
  <2> SUFFICES ASSUME IInv, Sent
               PROVE  /\ Len(packet) = lengths[Len(lengths)] - HeaderLen
                      /\ \A k \in DOMAIN event :
                            SubSeq(packet, lengths[k] - HeaderLen + 1, lengths[k + 1] - HeaderLen)
                                = FieldBytes(event[k])
    BY DEF FillsBuffer, TotalLength
  <2>1. event \in Events /\ Counted(event, lengths) /\ Packed(event, lengths, packet)
    BY DEF IInv, Sent
  <2>2. ASSUME NEW k \in DOMAIN event
        PROVE  SubSeq(packet, lengths[k] - HeaderLen + 1, lengths[k + 1] - HeaderLen)
                    = FieldBytes(event[k])
    <3> DEFINE d == FieldBytes(event[k])
               n == Len(d)
               p == lengths[k] - HeaderLen
               t == SubSeq(packet, p + 1, p + n)
    <3>1. k \in 1..Len(event)
      BY <2>1, EventTypes
    <3>2. /\ lengths[k] \in Nat /\ HeaderLen <= lengths[k]
          /\ lengths[k + 1] = lengths[k] + n /\ lengths[Len(lengths)] \in Nat
          /\ lengths[k + 1] <= lengths[Len(lengths)] /\ d \in Seq(Byte) /\ n \in Nat
      BY <2>1, <3>1, Bounds
    <3>3. packet \in Seq(Byte) /\ Len(packet) = lengths[Len(lengths)] - HeaderLen
          /\ IsAt(packet, p, d)
      BY <2>1, <3>1 DEF Packed
    <3> HIDE DEF d
    <3>4. p \in Nat /\ p + n <= Len(packet) /\ lengths[k + 1] - HeaderLen = p + n
      BY <3>2, <3>3 DEF HeaderLen
    <3> HIDE DEF p, n
    <3>5. t \in Seq(Byte) /\ Len(t) = n /\ \A i \in 1..n : t[i] = packet[p + i]
      BY SMTT(60), <3>2, <3>3, <3>4, Part
    <3> HIDE DEF t
    <3>6. t = d
      BY <3>2, <3>3, <3>5, SeqEqual DEF IsAt, n
    <3> QED BY <3>4, <3>6 DEF t, d, p
  <2> QED BY <2>1, <2>2 DEF Packed
<1> QED BY <1>1, Invariant, PTL

\* An event whose strings are shorter than 2^16 bytes is decoded field by field
\* as it was logged, from all of its packet, and never fails to decode.
THEOREM RoundTripCorrect == Spec => []RoundTrip
<1>1. IInv => RoundTrip
  <2> SUFFICES ASSUME IInv, ShortStrings(event)
               PROVE  /\ pc # "failed"
                      /\ Len(decoded) <= Len(event)
                      /\ \A k \in DOMAIN decoded : decoded[k] = event[k]
                      /\ pc = "done" => decoded = event /\ offset = Len(packet)
    BY DEF RoundTrip
  <2>1. event \in Events /\ pc \in {"count", "encode", "decode", "done", "failed"}
    BY DEF IInv
  <2>2. event \in Seq(Fields) /\ Len(event) \in Nat
    BY <2>1, EventTypes
  <2>3. CASE Sent
    <3>1. /\ Counted(event, lengths) /\ Packed(event, lengths, packet) /\ pc # "failed"
          /\ decoded \in Seq(Values) /\ InStep(event, lengths, decoded, offset)
          /\ pc = "done" => Len(decoded) = Len(event)
      BY <2>3 DEF IInv, Sent, Decoder
    <3>2. \A k \in 1..Len(decoded) : decoded[k] = event[k]
      BY <3>1 DEF InStep
    <3>3. DOMAIN decoded = 1..Len(decoded) /\ Len(decoded) <= Len(event)
      BY <3>1 DEF InStep
    <3>4. ASSUME pc = "done" PROVE decoded = event /\ offset = Len(packet)
      <4>1. Len(decoded) = Len(event) /\ Len(lengths) = Len(decoded) + 1
        BY <3>1, <3>4 DEF Counted
      <4>2. offset = Len(packet)
        BY <3>1, <4>1 DEF InStep, Packed
      <4>3. decoded = event
        BY <2>2, <3>1, <3>2, <4>1, SeqEqual
      <4> QED BY <4>2, <4>3
    <3> QED BY <3>1, <3>2, <3>3, <3>4
  <2>4. CASE ~Sent
    <3>1. decoded = <<>> /\ pc # "failed" /\ pc # "done"
      BY <2>1, <2>4 DEF IInv, Sent, Fresh
    <3> QED BY <2>2, <3>1
  <2> QED BY <2>3, <2>4
<1> QED BY <1>1, Invariant, PTL
=============================================================================
