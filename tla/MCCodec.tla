------------------------------ MODULE MCCodec ------------------------------
(***************************************************************************)
(* Two versions of a .proto file, on one-byte 32-bit words and two-byte    *)
(* 64-bit words.  The writer's has fields of every wire type that the      *)
(* reader's has not.                                                       *)
(***************************************************************************)
EXTENDS Codec, TLC

F(num, type, repeated, sub) ==
    [num |-> num, type |-> type, repeated |-> repeated, packed |-> FALSE,
     sub |-> sub]

\* R is the outer message, which may contain another R, and S the inner one.
MCWriterSchema ==
    [R |-> <<F(2, "message", TRUE, "S"), F(1, "message", FALSE, "R"),
             F(3, "string", TRUE, "S"), F(4, "float", FALSE, "S")>>,
     S |-> <<F(1, "int64", TRUE, "S"), F(2, "sint64", FALSE, "S"),
             F(3, "fixed32", FALSE, "S"), F(4, "double", FALSE, "S"),
             F(5, "string", FALSE, "S")>>]

\* It reads one field of S, and has one that the writer does not know.
MCReaderSchema ==
    [MCWriterSchema EXCEPT
        !.S = <<F(9, "string", FALSE, "S"), F(1, "int64", TRUE, "S")>>]

R(subs, sub, strs, float) ==
    [type |-> "R", val |-> 1 :> sub @@ 2 :> subs @@ 3 :> strs @@ 4 :> float]
S(ints, z, fixed, double, str) ==
    [type |-> "S",
     val |-> 1 :> ints @@ 2 :> z @@ 3 :> fixed @@ 4 :> double @@ 5 :> str]

\* Inner messages with known and unknown fields; the unknown string could be
\* taken for a field.
Subs ==
    {S(ints, z, fixed, 0, <<>>) :
        ints \in {<<>>, <<0, -1>>, <<300>>}, z \in {0, -200}, fixed \in {0, 7}}
    \cup {S(<<1>>, 0, 0, double, str) :
        double \in {0, 5, 2048}, str \in {<<>>, <<10, 1>>}}

\* No inner message; two of them; or one in a nested outer message.
MCSources ==
    {<<R(<<>>, 0, strs, float)>> :
        strs \in {<<>>, <<<<>>>>, <<<<5>>, <<>>>>}, float \in {0, 128, 255}}
    \cup {<<R(<<2, 3>>, 0, <<>>, 0), s, S(<<0>>, 1, 0, 0, <<>>)>> : s \in Subs}
    \cup {<<R(<<2>>, 3, <<<<9>>>>, 0), S(<<>>, 0, 0, 0, <<>>),
            R(<<4>>, 0, <<<<>>>>, 1), s>> : s \in Subs}

\* The messages above are among those that the theorems are about.
ASSUME MCSourcesAreSizable == \A h \in Sources : Enc!SizableMessages(h)
ASSUME MCSourcesAreReadable == \A h \in Sources : Readable(h)

=============================================================================
