------------------------------- MODULE Codec -------------------------------
(***************************************************************************)
(* An Encode and a DecodeMessage at the two ends of a stream that ends     *)
(* when Encode has returned, as in tests/encode_decode_test.cc, or through *)
(* a pipe.  The two programs may be generated from different versions of   *)
(* the .proto files: the reader's schema may lack fields of the writer's,  *)
(* and have others.                                                        *)
(***************************************************************************)
EXTENDS Wire, FiniteSets

CONSTANTS
    WriterSchema, Sources, MaxRefusals,     \* of the Encoder
    ReaderSchema, Root, SIZE_MAX            \* of the Decoder

ASSUME CodecAssumption ==
    /\ SIZE_MAX \in Nat \ {0}
    /\ Root \in DOMAIN ReaderSchema
    /\ \A t \in DOMAIN ReaderSchema :
        /\ ReaderSchema[t] \in
            Seq([num : Nat, type : FieldTypes, repeated : BOOLEAN,
                 packed : BOOLEAN, sub : DOMAIN ReaderSchema])
        /\ \A i, j \in DOMAIN ReaderSchema[t] :
            ReaderSchema[t][i].num = ReaderSchema[t][j].num => i = j

VARIABLES
    src, calls, out, written, refused, ret,
    consumed, stack, pc, rd, field, heap, result, spans, ragged

encVars == <<src, calls, out, written, refused, ret>>
decVars == <<consumed, stack, pc, rd, field, heap, result, spans, ragged>>
vars == <<encVars, decVars>>

Enc == INSTANCE Encoder WITH Schema <- WriterSchema

Dec == INSTANCE Decoder
       WITH Schema <- ReaderSchema, InBytes <- Byte, MaxBytes <- 0

Init == Enc!Init /\ Dec!Init

\* Read waits for a byte of the writer, and fails when there will be no more.
Decode ==
    \/ Dec!LoopHead
    \/ consumed < Len(out) /\ Dec!ReadByte(out[consumed + 1])
    \/ consumed = Len(out) /\ ret # "running" /\ Dec!ReadFails

Next ==
    \/ Enc!Next /\ UNCHANGED decVars
    \/ Decode /\ UNCHANGED encVars

Spec == Init /\ [][Next]_vars

\* Both threads run.
FairSpec == Spec /\ WF_encVars(Enc!Next) /\ WF_decVars(Decode)

-----------------------------------------------------------------------------
(* The messages that the reader's program can take.                        *)

\* The reader's field g may hold the elements e of the writer's field f, which
\* has the same number.
Fits(h, f, e, g) ==
    /\ g.type = f.type /\ g.repeated = f.repeated /\ ~ g.packed
    /\ \A k \in DOMAIN e :
        /\ f.type = "message" => h[e[k]].type = g.sub
        /\ f.type \notin LenTypes => e[k] \in CppValues(f.type)

\* The field numbers of a type are distinct and leave room for the wire type
\* in a uint32 (protoc allows up to 2^29 - 1), and the reader's fields are of
\* the same types as the writer's.
Readable(h) ==
    /\ h[1].type = Root
    /\ Enc!ComputeEncodedSize(h)[1] <= SIZE_MAX
    /\ \A m \in DOMAIN h :
        LET type == h[m].type
            fields == WriterSchema[type]
        IN  \A i \in DOMAIN fields :
            /\ 8 * fields[i].num + 7 < U32
            /\ \A j \in DOMAIN fields : fields[j].num = fields[i].num => j = i
            /\ type \in DOMAIN ReaderSchema =>
                \A g \in Dec!Fields(type) :
                    g.num = fields[i].num =>
                    Fits(h, fields[i],
                         Enc!Encoded(fields[i], h[m].val[g.num]), g)

-----------------------------------------------------------------------------
(* Comparing the message objects of the two sides. *)

\* v == w, for two numbers of a type: -0.0 is not encoded, and equals 0.0.
Same(type, v, w) ==
    \/ v = w
    \/ type = "float" /\ {v, w} \subseteq {0, U32 \div 2}
    \/ type = "double" /\ {v, w} \subseteq {0, U64 \div 2}

InWriter(type, num) ==
    \E i \in DOMAIN WriterSchema[type] : WriterSchema[type][i].num = num

\* The message n of the reader is the message m of the writer, as far as their
\* schemas agree: it is of the same type, the fields that both have are equal,
\* and those that only the reader has are default values.
SameMessage ==
    LET same[m \in DOMAIN src] == [n \in DOMAIN heap |->
            /\ heap[n].type = src[m].type
            /\ \A f \in Dec!Fields(heap[n].type) :
                LET v == src[m].val[f.num]
                    w == heap[n].val[f.num]
                    Agree(x, y) ==
                        IF f.type = "message"
                        THEN IF x = 0 \/ y = 0 THEN x = y ELSE same[x][y]
                        ELSE Same(f.type, x, y)
                IN  IF ~ InWriter(src[m].type, f.num) THEN w = Dec!DefaultValue(f)
                    ELSE IF f.repeated
                         THEN /\ Len(v) = Len(w)
                              /\ \A k \in DOMAIN v : Agree(v[k], w[k])
                         ELSE Agree(v, w)]
    IN  same

\* The message n is what the reader may have of m before it has read all of
\* it: a field that is not the same has its default value, or is a repeated
\* field with its first elements, of which the last string or sub-message, or
\* the only one of a field that is not repeated, may itself be incomplete.
PartOfMessage ==
    LET same == SameMessage
        part[m \in DOMAIN src] == [n \in DOMAIN heap |->
            /\ heap[n].type = src[m].type
            /\ \A f \in Dec!Fields(heap[n].type) :
                LET v == src[m].val[f.num]
                    w == heap[n].val[f.num]
                    Begun(x, y) ==
                        CASE f.type = "message" -> x # 0 /\ y # 0 /\ part[x][y]
                          [] f.type = "string" -> y = SubSeq(x, 1, Len(y))
                          [] OTHER -> Same(f.type, x, y)
                    Agree(x, y) ==
                        IF f.type = "message" THEN same[x][y]
                        ELSE Same(f.type, x, y)
                IN  \/ w = Dec!DefaultValue(f)
                    \/ /\ InWriter(src[m].type, f.num)
                       /\ f.repeated
                       /\ Len(w) <= Len(v)
                       /\ \A k \in 1 .. (Len(w) - 1) : Agree(v[k], w[k])
                       /\ Begun(v[Len(w)], w[Len(w)])
                    \/ /\ InWriter(src[m].type, f.num)
                       /\ ~ f.repeated
                       /\ Begun(v, w)]
    IN  part

-----------------------------------------------------------------------------
(* Properties. *)

\* What encode_decode_test.cc checks for three messages: when the stream took
\* every byte, DecodeMessage returns true and the message it filled is the one
\* that was encoded, whatever fields only one of the two sides knows.
RoundTrip ==
    pc = "done" /\ refused = 0 =>
        /\ result = "true"
        /\ SameMessage[1][1]

\* At no time does the reader's message hold something that the writer's does
\* not: when DecodeMessage fails for want of bytes, or while it runs, the fields
\* filled in so far are right, in order and without gaps.
DecodesAPart == refused = 0 => PartOfMessage[1][1]

\* The sizes in front of the sub-messages, and written_size, are what
\* ComputeEncodedSize() says.
SizeIsExact == Enc!SizeIsExact

\* DecodeMessage returns once the writer is done, even when bytes were lost in
\* the middle of the message.
Decoded == <>(pc = "done")

=============================================================================
