------------------------------- MODULE Codec -------------------------------
(***************************************************************************)
(* One event from the call of a generated LogEvent function to the value   *)
(* the server decodes: the length the function adds up for its buffer, a   *)
(* field at a time, the fields encode() then writes one after the other    *)
(* (client/api/LogAPIs.hh, client/posix_buffer), and the decoder           *)
(* tools/code_gen.py generates over server/decoder.                        *)
(*                                                                         *)
(* A uint64_t is eight big-endian bytes; a string is the 16 low bits of    *)
(* its length and then all its bytes.  The lengths of the buffer and of    *)
(* each field are computed apart from one another, on the client and on    *)
(* the server; the client clips a write that does not fit.                 *)
(*                                                                         *)
(* Abstractions: a byte is a number below Base.  The first field is the    *)
(* event's id, which names the types of the others.  The four bytes of the *)
(* header are left free here: send() fills them in, and the listener       *)
(* (module Listener) takes them off.                                       *)
(***************************************************************************)
EXTENDS Integers, Sequences

CONSTANTS
    Base,        \* values of a byte: 256 in the code
    Ints,        \* uint64_t values the application logs
    MaxLen,      \* bound: length of a string
    MaxFields    \* bound: fields of an event, its id included

IntWidth    == 8
LengthWidth == 2
HeaderLen   == 4

Base2 == Base * Base     \* values of two bytes, of four and of eight
Base4 == Base2 * Base2
Base8 == Base4 * Base4

ASSUME CodecAssumption ==
    /\ Base \in Nat \ {0, 1}
    /\ Ints \subseteq 0..(Base8 - 1)
    /\ MaxLen \in Nat /\ MaxFields \in Nat

Byte    == 0..(Base - 1)
Unset   == -1          \* a byte of a new buffer that nothing was written to
Strings == UNION {[1..n -> Byte] : n \in 0..MaxLen}
Fields  == [uint64 : Ints] \cup [string : Strings]
Events  == {<<[uint64 |-> id]>> \o rest : id \in Ints,
                rest \in UNION {[1..n -> Fields] : n \in 0..(MaxFields - 1)}}

IsString(field) == DOMAIN field = {"string"}

VARIABLES
    event,      \* the arguments of the call
    pc,         \* "count", "encode", "decode", "done", "failed"
    lengths,    \* the values total_length has had, the last one its present value
    buffer,     \* the buffer and its write offset
    encoded,    \* how many fields encode() has written
    packet,     \* the bytes behind the header, as a worker receives them
    decoded,    \* fields the server has decoded
    offset      \* decodedThisTime and decoded of the code: bytes they took

vars == <<event, pc, lengths, buffer, encoded, packet, decoded, offset>>
client == <<event, lengths, buffer, encoded>>
server == <<packet, decoded, offset>>

-----------------------------------------------------------------------------
(* The client *)

\* htons: the two low bytes of a number, the high one first.
NotCut(n) == <<n \div Base, n % Base>>  \* mutant
Bytes2(n) == <<(n \div Base) % Base, n % Base>>

Bytes4(n) == Bytes2(n \div Base2) \o Bytes2(n)

\* htobe64
HalvesSwapped(n) == Bytes4(n) \o Bytes4(n \div Base4)  \* mutant
Bytes8(n) == Bytes4(n \div Base4) \o Bytes4(n)

StringAlone(field) == IF IsString(field) THEN Len(field.string) ELSE IntWidth  \* mutant
LengthOf(field) == IF IsString(field) THEN Len(field.string) + LengthWidth ELSE IntWidth

\* What does not fit behind the write offset is cut off.
WriteData(buf, data) ==
    LET size == Len(buf.bytes)
        n    == IF size <= Len(data) + buf.at THEN size - buf.at ELSE Len(data)
    IN [bytes |-> SubSeq(buf.bytes, 1, buf.at) \o SubSeq(data, 1, n)
                    \o SubSeq(buf.bytes, buf.at + n + 1, size),
        at    |-> buf.at + n]

Encode(buf, field) ==
    IF IsString(field)
    THEN WriteData(WriteData(buf, Bytes2(Len(field.string))), field.string)
    ELSE WriteData(buf, Bytes8(field.uint64))

NewBuffer(size) == [bytes |-> [i \in 1..size |-> Unset], at |-> HeaderLen]

Init ==
    /\ event \in Events
    /\ pc = "count"
    /\ lengths = <<HeaderLen>>
    /\ buffer = [bytes |-> <<>>, at |-> 0]
    /\ encoded = 0
    /\ packet = <<>>
    /\ decoded = <<>>
    /\ offset = 0

\* The generated function: total_length += the length of the next field ...
TotalLength == lengths[Len(lengths)]

CountField ==
    /\ pc = "count" /\ Len(lengths) <= Len(event)
    /\ lengths' = Append(lengths, TotalLength + LengthOf(event[Len(lengths)]))
    /\ UNCHANGED <<event, pc, buffer, encoded, server>>

\* ... a buffer of that length, with room for the header ...
MakeBuffer ==
    /\ pc = "count" /\ Len(lengths) > Len(event)
    /\ buffer' = NewBuffer(TotalLength)
    /\ pc' = "encode"
    /\ UNCHANGED <<event, lengths, encoded, server>>

\* ... encode() of the next field ...
EncodeField ==
    /\ pc = "encode" /\ encoded < Len(event)
    /\ buffer' = Encode(buffer, event[encoded + 1])
    /\ encoded' = encoded + 1
    /\ UNCHANGED <<event, pc, lengths, server>>

\* ... and send(): all the bytes of the buffer.
SendPacket ==
    /\ pc = "encode" /\ encoded = Len(event)
    /\ packet' = SubSeq(buffer.bytes, HeaderLen + 1, Len(buffer.bytes))
    /\ pc' = "decode"
    /\ UNCHANGED <<client, decoded, offset>>

-----------------------------------------------------------------------------
(* The server *)

\* binary.Read of a big-endian uint16 and uint64
Number2(bytes) == bytes[1] * Base + bytes[2]
Number4(bytes) == Number2(SubSeq(bytes, 1, 2)) * Base2 + Number2(SubSeq(bytes, 3, 4))
Number8(bytes) == Number4(SubSeq(bytes, 1, 4)) * Base4 + Number4(SubSeq(bytes, 5, 8))

Rest == SubSeq(packet, offset + 1, Len(packet))
Has(n) == Len(Rest) >= n
StringLength == Number2(Rest)

\* The bytes the next field is in, if the packet has them; the types of the
\* fields are those of the event the id names.
NextIsString == IsString(event[Len(decoded) + 1])
Enough ==
    IF NextIsString THEN Has(LengthWidth) /\ Has(LengthWidth + StringLength)
                    ELSE Has(IntWidth)

Decoding == pc = "decode" /\ Len(decoded) < Len(event)

DecodeUint64 ==
    /\ Decoding /\ ~NextIsString /\ Enough
    /\ decoded' = Append(decoded, [uint64 |-> Number8(Rest)])
    /\ offset' = offset + IntWidth
    /\ UNCHANGED <<client, pc, packet>>

DecodeString ==
    /\ Decoding /\ NextIsString /\ Enough
    /\ decoded' = Append(decoded,
           [string |-> SubSeq(Rest, LengthWidth + 1, LengthWidth + StringLength)])
    /\ offset' = offset + LengthWidth + StringLength
    /\ UNCHANGED <<client, pc, packet>>

DecodeFails ==
    /\ Decoding /\ ~Enough
    /\ pc' = "failed"
    /\ UNCHANGED <<client, server>>

\* The decoder returns: bytes that are left over are not looked at.
DecodeReturns ==
    /\ pc = "decode" /\ Len(decoded) = Len(event)
    /\ pc' = "done"
    /\ UNCHANGED <<client, server>>

Next ==
    \/ CountField \/ MakeBuffer \/ EncodeField \/ SendPacket
    \/ DecodeUint64 \/ DecodeString \/ DecodeFails \/ DecodeReturns

Spec == Init /\ [][Next]_vars

-----------------------------------------------------------------------------
(* Properties *)

\* A byte of a packet is a byte, one that encode() wrote: calloc in PosixBuffer
\* would hide one it did not, SeastarBuffer would send what the memory held.
\* The decoder stays within its packet.
TypeOK ==
    /\ event \in Events
    /\ pc \in {"count", "encode", "decode", "done", "failed"}
    /\ lengths \in Seq(Nat)
    /\ buffer \in [bytes : Seq(Byte \cup {Unset}), at : Nat]
    /\ encoded \in 0..Len(event)
    /\ packet \in Seq(Byte)
    /\ decoded \in Seq([uint64 : Nat] \cup [string : Seq(Byte)])
    /\ offset \in 0..Len(packet)

Sent == pc \in {"decode", "done", "failed"}

FieldBytes(field) ==
    IF IsString(field) THEN Bytes2(Len(field.string)) \o field.string
                       ELSE Bytes8(field.uint64)

\* The length the generated function adds up is the length encode() needs: the
\* bytes of every field, cut off nowhere, are where the sum of the lengths
\* before it says, and the packet ends with the last of them.
FillsBuffer ==
    Sent =>
        /\ Len(packet) = TotalLength - HeaderLen
        /\ \A k \in DOMAIN event :
            SubSeq(packet, lengths[k] - HeaderLen + 1, lengths[k + 1] - HeaderLen)
                = FieldBytes(event[k])

\* An event whose strings have a length of 16 bits is decoded as it was
\* logged, field by field, and takes the whole packet.
ShortStrings(fields) ==
    \A k \in DOMAIN fields : IsString(fields[k]) => Len(fields[k].string) < Base2

RoundTrip ==
    ShortStrings(event) =>
        /\ pc # "failed"
        /\ Len(decoded) <= Len(event)
        /\ \A k \in DOMAIN decoded : decoded[k] = event[k]
        /\ pc = "done" => decoded = event /\ offset = Len(packet)

\* What docs/storage.md says of a stored event: it is the full event.  A
\* string of 2^16 bytes or more breaks it: its length is cut to 16 bits.
FullEvent ==
    /\ pc # "failed"
    /\ pc = "done" => decoded = event
=============================================================================
