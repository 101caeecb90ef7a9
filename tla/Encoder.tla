------------------------------ MODULE Encoder ------------------------------
(***************************************************************************)
(* Message::Encode (runtime/decaproto/message.h) on a generated message:   *)
(* the EncodeImpl and ComputeEncodedSize that codegen/encoder.go prints,   *)
(* one byte per step.                                                      *)
(*                                                                         *)
(* A generated EncodeImpl makes a fixed sequence of Write calls, and looks *)
(* at the result of none: when the stream refuses a byte, the call that    *)
(* wrote it gives up and the next call goes on.                            *)
(***************************************************************************)
EXTENDS Wire, SequencesExt

CONSTANTS
    Schema,         \* message type -> sequence of its field descriptors
    Sources,        \* the messages to encode, each with its sub-messages
    MaxRefusals     \* bound: how many bytes the stream refuses at most

VARIABLES
    src,        \* the message objects; the first one is encoded
    calls,      \* the Write calls to come: what is left of the bytes of each
    out,        \* the bytes that the stream took
    written,    \* cos.WrittenSize()
    refused,    \* history: how many bytes the stream refused
    ret         \* what Encode has returned

vars == <<src, calls, out, written, refused, ret>>

-----------------------------------------------------------------------------
(* A message object is a record of its type and of its fields by number;   *)
(* sub-messages are indices into the sequence h of message objects, 0 if   *)
(* absent.  Floats are their bit patterns.                                 *)

\* `holder != cc_type()`, `!holder.empty()` or has_name(), negated; the bit
\* pattern with only the sign set is -0.0, which equals 0.0.
IsDefault(f, v) ==
    CASE f.type = "string" -> v = <<>>
      [] f.type = "float" -> v \in {0, U32 \div 2}
      [] f.type = "double" -> v \in {0, U64 \div 2}
      [] OTHER -> v = 0

\* Mutant: default values are left out of repeated fields too.
EncodedOfNonDefault(f, v) ==
    SelectSeq(IF f.repeated THEN v ELSE <<v>>, LAMBDA e : ~ IsDefault(f, e))

\* The elements of a field that are encoded.
Encoded(f, v) ==
    CASE f.repeated -> v
      [] ~ f.repeated /\ IsDefault(f, v) -> <<>>
      [] OTHER -> <<v>>

\* The number v, converted to the parameter of the Write call for its type.
Word(type, v) ==
    CASE type \in {"int32", "uint32", "enum", "bool"} \cup I32Types -> v % U32
      [] type \in {"sint32", "sint64"} -> EncodeZigZag(v)
      [] OTHER -> v % U64

\* Mutant: no byte for the tag of a string.
ItemSizeUntaggedString(f, v, size) ==
    CASE f.type \in I32Types -> 1 + N32
      [] f.type \in I64Types -> 1 + N64
      [] f.type = "sint32" -> 0
      [] f.type = "sint64" -> 1 + ComputeEncodedVarintSize(EncodeZigZag(v))
      [] f.type = "string" -> ComputeEncodedVarintSize(Len(v)) + Len(v)
      [] f.type = "message" -> 1 + ComputeEncodedVarintSize(size[v]) + size[v]
      [] OTHER -> 1 + ComputeEncodedVarintSize(v % U64)

\* What ComputeEncodedSize adds for an element.  The case of a sint32 in the
\* generator is empty (encoder.go:248 and 318), and an int32 is widened to the
\* uint64_t parameter of ComputeEncodedVarintSize with its sign.
ItemSize(f, v, size) ==
    CASE f.type \in I32Types -> 1 + N32
      [] f.type \in I64Types -> 1 + N64
      [] f.type = "sint32" -> 0
      [] f.type = "sint64" -> 1 + ComputeEncodedVarintSize(EncodeZigZag(v))
      [] f.type = "string" -> 1 + ComputeEncodedVarintSize(Len(v)) + Len(v)
      [] f.type = "message" -> 1 + ComputeEncodedVarintSize(size[v]) + size[v]
      [] OTHER -> 1 + ComputeEncodedVarintSize(v % U64)

\* The ComputeEncodedSize of each message object.
ComputeEncodedSize(h) ==
    LET size[m \in DOMAIN h] ==
            SumFunction([i \in DOMAIN Schema[h[m].type] |->
                LET f == Schema[h[m].type][i]
                    e == Encoded(f, h[m].val[f.num])
                IN  SumFunction([k \in DOMAIN e |-> ItemSize(f, e[k], size)])])
    IN  size

\* The Write calls for an element, each as the bytes it writes, but those of
\* no bytes.
ItemCalls(f, v, size, body) ==
    <<VarintBytes(Tag(f.num, GetWireType(f.type)))>> \o
    CASE f.type \in I32Types -> <<FixedBytes(Word(f.type, v), N32)>>
      [] f.type \in I64Types -> <<FixedBytes(Word(f.type, v), N64)>>
      [] f.type = "string" ->
            <<VarintBytes(Len(v) % U32)>> \o (IF v = <<>> THEN <<>> ELSE <<v>>)
      [] f.type = "message" -> <<VarintBytes(size[v] % U32)>> \o body[v]
      [] OTHER -> <<VarintBytes(Word(f.type, v))>>

\* The Write calls of the EncodeImpl of each message object.
EncodeImpl(h) ==
    LET size == ComputeEncodedSize(h)
        body[m \in DOMAIN h] ==
            FlattenSeq([i \in DOMAIN Schema[h[m].type] |->
                LET f == Schema[h[m].type][i]
                    e == Encoded(f, h[m].val[f.num])
                IN  FlattenSeq([k \in DOMAIN e |->
                        ItemCalls(f, e[k], size, body)])])
    IN  body

-----------------------------------------------------------------------------
Init ==
    /\ src \in Sources
    /\ calls = EncodeImpl(src)[1]
    /\ out = <<>>
    /\ written = 0
    /\ refused = 0
    /\ ret = "running"

\* OutputStreamWrapper::Write, when the stream takes the byte.
WriteByte ==
    /\ calls # <<>>
    /\ out' = Append(out, Head(Head(calls)))
    /\ written' = written + 1
    /\ calls' = (IF Len(Head(calls)) = 1 THEN <<>> ELSE <<Tail(Head(calls))>>)
                \o Tail(calls)
    /\ UNCHANGED <<src, refused, ret>>

\* When it does not.  The call returns false, which EncodeImpl ignores.
WriteRefused ==
    /\ calls # <<>>
    /\ refused < MaxRefusals
    /\ refused' = refused + 1
    /\ calls' = Tail(calls)
    /\ UNCHANGED <<src, out, written, ret>>

Return ==
    /\ calls = <<>>
    /\ ret = "running"
    /\ ret' = "true"
    /\ UNCHANGED <<src, calls, out, written, refused>>

Next == WriteByte \/ WriteRefused \/ Return

Spec == Init /\ [][Next]_vars

-----------------------------------------------------------------------------
(* The messages whose sizes ComputeEncodedSize computes rightly. *)

IsSeq(s) == s \in Seq({s[i] : i \in DOMAIN s})

\* The element v of the field f of the message m: the tag has one byte, the
\* sub-messages are younger than m, what a uint32 holds is less than U32, and
\* a 32-bit number is not widened to another one.
Sizable(h, m, f, v) ==
    /\ f.num \in Nat
    /\ Tag(f.num, GetWireType(f.type)) < Base
    /\ \/ f.type = "string" /\ v \in Seq(Byte) /\ Len(v) < U32
       \/ /\ f.type = "message"
          /\ v \in (m + 1) .. Len(h)
          /\ ComputeEncodedSize(h)[v] < U32
       \/ f.type \in I32Types \cup I64Types \cup {"sint64"} /\ v \in Int
       \/ /\ f.type \in VarintTypes \ {"sint32", "sint64"}
          /\ v \in Int
          /\ Word(f.type, v) = v % U64

SizableMessages(h) ==
    /\ IsSeq(h) /\ h # <<>>
    /\ \A m \in DOMAIN h :
        /\ IsSeq(Schema[h[m].type])
        /\ \A i \in DOMAIN Schema[h[m].type] :
            LET f == Schema[h[m].type][i]
                e == Encoded(f, h[m].val[f.num])
            IN  IsSeq(e) /\ \A k \in DOMAIN e : Sizable(h, m, f, e[k])

-----------------------------------------------------------------------------
(* Properties. *)

\* ComputeEncodedSize() says what Encode() writes, as the tests at
\* encoder_test.cc:20 and 95 compare them: a sub-message is decodable only if
\* the size in front of it is that of the bytes that follow (decoder.cc:33).
SizeIsExact ==
    ret = "true" /\ refused = 0 => written = ComputeEncodedSize(src)[1]

\* The same of the sizes in front of the sub-messages (decoder.cc:33:
\* "len-prefix := size (message | string | bytes | packed);"), in its weakest
\* form: of several sub-messages, one at least has the right size.
ASubSizeIsExact ==
    ret = "true" /\ refused = 0 /\ Len(src) > 1 =>
        \E m \in 2 .. Len(src) :
            ComputeEncodedSize(src)[m] = Len(FlattenSeq(EncodeImpl(src)[m]))

=============================================================================
