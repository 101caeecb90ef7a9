-------------------------------- MODULE Wire --------------------------------
(***************************************************************************)
(* The protobuf wire format as the decaproto runtime implements it: the    *)
(* constant-level operators that the coded streams, the decoder and the    *)
(* encoder share.  Integers keep their width, but the widths are           *)
(* parameters: the C++ program is the instance                             *)
(*   Base = 2^7, U32 = 2^32, U64 = 2^64, N32 = 4, N64 = 8,                 *)
(* and TLC checks instances with smaller words, in which every boundary    *)
(* (a varint of more than one group, an overflowing one, a value that does *)
(* not fit in 32 bits, a negative number) is reached within a few bytes.   *)
(***************************************************************************)
EXTENDS Integers, Sequences

CONSTANTS
    Base,   \* values of the payload of one varint byte (2^7)
    U32,    \* values of a uint32_t
    U64,    \* values of a uint64_t
    N32,    \* bytes of a fixed 32-bit value
    N64     \* bytes of a fixed 64-bit value

ASSUME WireAssumption ==
    /\ Base \in Nat /\ Base > 1
    /\ U32 \in Nat /\ U32 > 1
    /\ U64 \in Nat /\ U64 >= U32
    /\ N32 \in Nat \ {0}
    /\ N64 \in Nat \ {0}

Byte == 0 .. (2 * Base - 1)

\* How many values n bytes have.
Words(n) ==
    LET words[i \in 0 .. n] == IF i = 0 THEN 1 ELSE 2 * Base * words[i - 1]
    IN  words[n]

ASSUME WordAssumption == U32 = Words(N32) /\ U64 = Words(N64)

\* Bit 0x80 of a varint byte, and its other seven bits.
Continues(b) == b >= Base
Payload(b) == b % Base

-----------------------------------------------------------------------------
(* Wire types and field types. *)

kVarint == 0
kI64 == 1
kLen == 2
kSGroup == 3
kEGroup == 4
kI32 == 5

VarintTypes == {"int32", "int64", "uint32", "uint64", "sint32", "sint64",
                "bool", "enum"}
I32Types == {"fixed32", "sfixed32", "float"}
I64Types == {"fixed64", "sfixed64", "double"}
LenTypes == {"string", "bytes", "message"}
FieldTypes == VarintTypes \cup I32Types \cup I64Types \cup LenTypes

GetWireType(type) ==
    CASE type \in I32Types -> kI32
      [] type \in I64Types -> kI64
      [] type \in LenTypes -> kLen
      [] OTHER -> kVarint

Tag(num, wire) == (num * 8 + wire) % U32

-----------------------------------------------------------------------------
(* Two's complement and ZigZag. *)

ToSigned(u, m) == IF u < m \div 2 THEN u ELSE u - m

\* (value << 1) ^ (value >> 63), as a uint64_t.
EncodeZigZag(v) == (IF v >= 0 THEN 2 * v ELSE -2 * v - 1) % U64

\* (value >> 1) ^ -(value & 1)
DecodeZigZag(u) == IF u % 2 = 0 THEN u \div 2 ELSE -(u \div 2) - 1

\* The values of the C++ type of a number.  A float or a double is its bit
\* pattern.
CppValues(type) ==
    CASE type \in {"int32", "sint32", "sfixed32", "enum"} ->
            -(U32 \div 2) .. (U32 \div 2 - 1)
      [] type \in {"int64", "sint64", "sfixed64"} ->
            -(U64 \div 2) .. (U64 \div 2 - 1)
      [] type \in {"uint32", "fixed32", "float"} -> 0 .. (U32 - 1)
      [] type = "bool" -> {0, 1}
      [] OTHER -> 0 .. (U64 - 1)

\* Mutant: an int32 or an enum keeps all the bits that were read.
ConvertWide(type, u) ==
    CASE type \in {"int32", "enum", "int64", "sfixed64"} -> ToSigned(u, U64)
      [] type \in {"sint32", "sint64"} -> DecodeZigZag(u)
      [] type = "sfixed32" -> ToSigned(u % U32, U32)
      [] type \in {"uint32", "fixed32", "float"} -> u % U32
      [] type = "bool" -> IF u = 0 THEN 0 ELSE 1
      [] OTHER -> u

\* What a field of the given type holds after the decoder stored the raw
\* word u in it: the implicit conversions of the setters' arguments.
Convert(type, u) ==
    CASE type \in {"int32", "enum"} -> ToSigned(u % U32, U32)
      [] type = "sfixed32" -> ToSigned(u % U32, U32)
      [] type \in {"int64", "sfixed64"} -> ToSigned(u, U64)
      [] type \in {"uint32", "fixed32", "float"} -> u % U32
      [] type = "bool" -> IF u = 0 THEN 0 ELSE 1
      [] type = "sint32" -> DecodeZigZag(u % U32)
      [] type = "sint64" -> DecodeZigZag(u)
      [] OTHER -> u

-----------------------------------------------------------------------------
(* A Read call in progress: the value accumulated, the weight of the next  *)
(* group or byte, and the bytes still to read of a fixed-size value (0 for *)
(* a varint, whose last byte says so itself).                              *)

NewVarint == [acc |-> 0, place |-> 1, left |-> 0]
NewFixed(n) == [acc |-> 0, place |-> 1, left |-> n]

FeedVarint(r, b) ==
    [acc |-> (r.acc + Payload(b) * r.place) % U64,
     place |-> r.place * Base,
     left |-> 0]

FeedFixed(r, b) ==
    [acc |-> r.acc + b * r.place,
     place |-> r.place * 2 * Base,
     left |-> r.left - 1]

Feed(r, b) == IF r.left = 0 THEN FeedVarint(r, b) ELSE FeedFixed(r, b)

\* The byte b completes the value.
Ends(r, b) == IF r.left = 0 THEN ~ Continues(b) ELSE r.left = 1

\* The byte b announces a group whose shift would be 64 or more.
Overflows(r, b) == r.left = 0 /\ Continues(b) /\ r.place * Base >= U64

\* ReadVarint32 completes, with a value that does not fit in 32 bits.
TooBig(r, b) == Ends(r, b) /\ Feed(r, b).acc >= U32

-----------------------------------------------------------------------------
(* Writing. *)

\* Mutant: `while (value > 0) { ... }` instead of `do { ... } while`.
VarintBytesOfNonZero(u) ==
    LET bytes[x \in 0 .. u] ==
            IF x = 0 THEN <<>>
            ELSE <<(IF x < Base THEN x ELSE Base + (x % Base))>>
                 \o bytes[x \div Base]
    IN  bytes[u]

\* The bytes WriteVarint64 produces for the word u.
VarintBytes(u) ==
    LET bytes[x \in 0 .. u] ==
            IF x < Base THEN <<x>>
            ELSE <<Base + (x % Base)>> \o bytes[x \div Base]
    IN  bytes[u]

\* The bytes of WriteFixedInt32 (n = N32) and WriteFixedInt64 (n = N64).
FixedBytes(u, n) ==
    LET value[i \in 1 .. n] ==
            IF i = 1 THEN u ELSE value[i - 1] \div (2 * Base)
    IN  [i \in 1 .. n |-> value[i] % (2 * Base)]

ComputeEncodedVarintSize(u) ==
    LET size[x \in 0 .. u] == IF x < Base THEN 1 ELSE 1 + size[x \div Base]
    IN  size[u]

=============================================================================
