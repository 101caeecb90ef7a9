----------------------------- MODULE MCDecoder -----------------------------
(***************************************************************************)
(* The decoder on words of a small width: one-byte 32-bit values and       *)
(* two-byte 64-bit values, so that a varint has up to three groups and a   *)
(* 32-bit one up to two.                                                   *)
(***************************************************************************)
EXTENDS Decoder

F(num, type, repeated, packed) ==
    [num |-> num, type |-> type, repeated |-> repeated, packed |-> packed,
     sub |-> "M"]

\* One recursive message type with a field of each shape the decoder tells
\* apart; the tags of its fields are 10, 18, 26, 32, 45, 50, 56 and 65, and 16
\* is field 2 with the wire type of a varint.
MCSchema ==
    [M |-> <<F(1, "message", FALSE, FALSE), F(2, "message", TRUE, FALSE),
             F(3, "string", TRUE, FALSE), F(4, "int32", FALSE, FALSE),
             F(5, "fixed32", TRUE, FALSE), F(6, "bytes", FALSE, FALSE),
             F(7, "uint32", TRUE, TRUE), F(8, "double", FALSE, FALSE)>>]

=============================================================================
