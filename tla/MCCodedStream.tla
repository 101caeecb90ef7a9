--------------------------- MODULE MCCodedStream ---------------------------
(***************************************************************************)
(* The coded streams on words of a small width: varint groups of 3 bits,   *)
(* 32-bit values of 4 bits and 64-bit values of 8 bits, so that a 64-bit   *)
(* varint has up to three bytes and a 32-bit one up to two.                *)
(***************************************************************************)
EXTENDS CodedStream

\* All pairs of calls: the second call shows whether the first one left the
\* stream where the next value starts.
MCScripts == [1 .. 2 -> Kinds]

\* The strings: empty, one byte, and one with a byte that looks like the
\* continuation of a varint.
MCTexts == {<<>>, <<3>>, <<15, 0>>}

=============================================================================
