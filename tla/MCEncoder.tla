----------------------------- MODULE MCEncoder -----------------------------
(***************************************************************************)
(* Messages whose encoded size the generated code gets wrong, on one-byte  *)
(* 32-bit words: a tag of one byte has a field number up to 15.  Each has  *)
(* one sub-message with a sint32, one with an int32 and one with bools of  *)
(* which the second has a wide tag.                                        *)
(***************************************************************************)
EXTENDS Encoder

Field(num, type, sub) ==
    [num |-> num, type |-> type, repeated |-> FALSE, packed |-> FALSE,
     sub |-> sub]

MCSchema ==
    [Outer |-> <<Field(1, "message", "Sint32"), Field(2, "message", "Int32"),
                 Field(3, "message", "Wide")>>,
     Sint32 |-> <<Field(1, "sint32", "Outer")>>,
     Int32 |-> <<Field(1, "int32", "Outer")>>,
     Wide |-> <<Field(15, "bool", "Outer"), Field(16, "bool", "Outer")>>]

MCSources ==
    {<<[type |-> "Outer", val |-> <<2, 3, 4>>],
       [type |-> "Sint32", val |-> <<s>>],
       [type |-> "Int32", val |-> <<i>>],
       [type |-> "Wide", val |-> [n \in {15, 16} |-> IF n \in set THEN 1 ELSE 0]]>> :
        s \in {0, -1, 5}, i \in {0, 1, 127, -1}, set \in SUBSET {15, 16}}

=============================================================================
