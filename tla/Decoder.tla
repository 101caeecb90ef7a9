------------------------------ MODULE Decoder ------------------------------
(***************************************************************************)
(* decaproto::DecodeMessage (runtime/decaproto/decoder.cc): the reader     *)
(* that fills a message object from an InputStream, one byte per step.     *)
(*                                                                         *)
(* A Read of the stream either delivers a byte or fails; InputStream       *)
(* promises nothing about a Read that follows a failed one, so here it may *)
(* succeed (a user's stream that times out) or fail again (the end of a    *)
(* StlInputStream).  The C++ recursion of DecodeMessage and DecodeLenPrefix*)
(* is the variable stack, one frame per activation; every `return false`   *)
(* but the one of SkipUnknownField and of DecodeTag unwinds the recursion  *)
(* to the caller of the top-level DecodeMessage.                           *)
(***************************************************************************)
EXTENDS Wire, FiniteSets

CONSTANTS
    SIZE_MAX,   \* the largest size_t
    Schema,     \* message type -> sequence of its field descriptors
    Root,       \* the type of the message the application passes
    InBytes,    \* the bytes the stream may deliver
    MaxBytes    \* bound: how many bytes it delivers at most

FieldDescriptors ==
    [num : Nat, type : FieldTypes, repeated : BOOLEAN, packed : BOOLEAN,
     sub : DOMAIN Schema]

ASSUME DecoderAssumption ==
    /\ SIZE_MAX \in Nat \ {0}
    /\ Root \in DOMAIN Schema
    /\ \A t \in DOMAIN Schema :
        /\ Schema[t] \in Seq(FieldDescriptors)
        /\ \A i, j \in DOMAIN Schema[t] :
            Schema[t][i].num = Schema[t][j].num => i = j
    /\ InBytes \subseteq Byte
    /\ MaxBytes \in Nat

VARIABLES
    consumed,   \* cis.ConsumedSize()
    stack,      \* the activations of DecodeMessage, the outermost first
    pc,         \* where the innermost activation is
    rd,         \* the Read call in progress, or the bytes left to copy or skip
    field,      \* the descriptor of the field being decoded
    heap,       \* the message objects; a reference is an index, 0 is null
    result,     \* what the top-level DecodeMessage has returned
    spans,      \* history: the sub-messages entered, from the last byte of
                \* their size to the end they were declared to have
    ragged      \* history: the bytes read are not (tag value)*

vars == <<consumed, stack, pc, rd, field, heap, result, spans, ragged>>

-----------------------------------------------------------------------------
(* Descriptors and message objects. *)

Known(type, num) == \E i \in DOMAIN Schema[type] : Schema[type][i].num = num

\* The first descriptor registered with this number.
FindFieldByNumber(type, num) ==
    LET first == CHOOSE i \in DOMAIN Schema[type] :
                     /\ Schema[type][i].num = num
                     /\ \A j \in 1 .. (i - 1) : Schema[type][j].num # num
    IN  Schema[type][first]

Fields(type) == {Schema[type][i] : i \in DOMAIN Schema[type]}
MessageFields(type) == {f \in Fields(type) : f.type = "message"}
Numbers(type) == {f.num : f \in Fields(type)}

\* A singular sub-message that is absent is 0.
DefaultValue(f) == IF f.repeated \/ f.type = "string" THEN <<>> ELSE 0

NewMessage(type) ==
    [type |-> type,
     val |-> [n \in Numbers(type) |-> DefaultValue(FindFieldByNumber(type, n))]]

\* The objects h with the value v in field num of the message m.
Assign(h, m, num, v) == [h EXCEPT ![m].val[num] = v]

\* Mutants: an element is inserted at the front, or replaces the others.
AddedInFront(f, old, v) == IF f.repeated THEN <<v>> \o old ELSE v
AddedAfresh(f, old, v) == IF f.repeated THEN <<v>> ELSE v

\* `*AddRepeatedT(m, n) = v` appends, `SetT(m, n, v)` replaces.
Added(f, old, v) == IF f.repeated THEN Append(old, v) ELSE v

Store(h, m, f, v) == Assign(h, m, f.num, Added(f, h[m].val[f.num], v))

\* push_back(b) on the string that AddRepeatedString or MutableString returned.
Extended(f, old, b) ==
    IF f.repeated
    THEN [old EXCEPT ![Len(old)] = Append(old[Len(old)], b)]
    ELSE Append(old, b)

PushBack(h, m, f, b) == Assign(h, m, f.num, Extended(f, h[m].val[f.num], b))

-----------------------------------------------------------------------------
(* The call stack. *)

Top == stack[Len(stack)]

Goto(label, call) ==
    /\ pc' = label
    /\ rd' = call
    /\ UNCHANGED <<stack, result>>

ReturnFalse ==
    /\ pc' = "done"
    /\ result' = "false"
    /\ stack' = <<>>
    /\ rd' = NewVarint

ReturnTrue ==
    /\ rd' = NewVarint
    /\ IF Len(stack) = 1
       THEN /\ pc' = "done"
            /\ result' = "true"
            /\ stack' = <<>>
       ELSE /\ pc' = "loop"
            /\ stack' = SubSeq(stack, 1, Len(stack) - 1)
            /\ UNCHANGED result

\* Mutant: a sub-message may be longer than it was declared.
EndOfMessageAtLeast(c) ==
    IF Top.size = SIZE_MAX \/ c - Top.start >= Top.size
    THEN ReturnTrue
    ELSE ReturnFalse

\* The end of DecodeMessage, c bytes of the stream being consumed.
EndOfMessage(c) ==
    IF Top.size = SIZE_MAX \/ c - Top.start = Top.size
    THEN ReturnTrue
    ELSE ReturnFalse

-----------------------------------------------------------------------------
(* InputStreamWrapper::Read, when the stream delivers a byte. *)

\* Mutant: consumed_++ is forgotten.
CountNothing == UNCHANGED consumed

CountByte == consumed' = consumed + 1

-----------------------------------------------------------------------------
(* DecodeMessage: the loop over (tag value) and its tag. *)

LoopHead ==
    /\ pc = "loop"
    /\ IF consumed - Top.start < Top.size
       THEN Goto("tag", NewVarint)
       ELSE EndOfMessage(consumed)
    /\ UNCHANGED <<consumed, field, heap, spans, ragged>>

\* Mutant: an unknown 64-bit value is skipped as a 32-bit one.
SkipUnknownFieldShort(wire) ==
    /\ UNCHANGED field
    /\ ragged' = (ragged \/ wire > kI32)
    /\ CASE wire = kVarint -> Goto("skip", NewVarint)
         [] wire \in {kI64, kI32} -> Goto("skip", NewFixed(N32))
         [] wire = kLen -> Goto("skiplen", NewVarint)
         [] OTHER -> Goto("loop", NewVarint)

\* SkipUnknownField: what is left to read for each wire type.  The two of groups
\* have an empty value in the grammar, 6 and 7 are no wire types.
SkipUnknownField(wire) ==
    /\ UNCHANGED field
    /\ ragged' = (ragged \/ wire > kI32)
    /\ CASE wire = kVarint -> Goto("skip", NewVarint)
         [] wire = kI64 -> Goto("skip", NewFixed(N64))
         [] wire = kI32 -> Goto("skip", NewFixed(N32))
         [] wire = kLen -> Goto("skiplen", NewVarint)
         [] OTHER -> Goto("loop", NewVarint)

\* Mutant: the wire type is not compared with the type of the field.
DecodeFieldUnchecked(f, wire) ==
    /\ field' = f
    /\ UNCHANGED ragged
    /\ CASE wire = kLen -> Goto("len", NewVarint)
         [] wire = kI64 -> Goto("value", NewFixed(N64))
         [] wire = kI32 -> Goto("value", NewFixed(N32))
         [] OTHER -> Goto("value", NewVarint)

DecodeField(f, wire) ==
    /\ field' = f
    /\ UNCHANGED ragged
    /\ IF GetWireType(f.type) # wire \/ f.packed
       THEN ReturnFalse
       ELSE CASE wire = kLen -> Goto("len", NewVarint)
              [] wire = kI64 -> Goto("value", NewFixed(N64))
              [] wire = kI32 -> Goto("value", NewFixed(N32))
              [] OTHER -> Goto("value", NewVarint)

TagDecoded(tag) ==
    LET num == tag \div 8
        wire == tag % 8
        type == heap[Top.msg].type
    IN  IF Known(type, num)
        THEN DecodeField(FindFieldByNumber(type, num), wire)
        ELSE SkipUnknownField(wire)

\* DecodeTag.  A tag that overflows or does not fit in 32 bits ends the loop
\* like the end of the stream does.
TagByte(b) ==
    /\ pc = "tag"
    /\ CountByte
    /\ UNCHANGED <<heap, spans>>
    /\ \/ /\ ~ Ends(rd, b) /\ ~ Overflows(rd, b)
          /\ Goto("tag", Feed(rd, b))
          /\ UNCHANGED <<field, ragged>>
       \/ /\ Overflows(rd, b) \/ TooBig(rd, b)
          /\ EndOfMessage(consumed + 1)
          /\ ragged' = TRUE
          /\ UNCHANGED field
       \/ /\ Ends(rd, b) /\ ~ TooBig(rd, b)
          /\ TagDecoded(Feed(rd, b).acc)

\* Mutant: a tag that cannot be read is tried again instead of ending the loop.
TagFailsAndRetries ==
    /\ pc = "tag"
    /\ Goto("loop", NewVarint)
    /\ UNCHANGED <<consumed, field, heap, spans, ragged>>

TagFails ==
    /\ pc = "tag"
    /\ EndOfMessage(consumed)
    /\ ragged' = IF rd.place = 1 THEN ragged ELSE TRUE
    /\ UNCHANGED <<consumed, field, heap, spans>>

-----------------------------------------------------------------------------
(* SkipUnknownField.  Its result is not looked at: whatever it read, the   *)
(* loop goes on with the next byte as a tag.                               *)

SkipByte(b) ==
    /\ pc = "skip"
    /\ CountByte
    /\ IF Ends(rd, b) \/ Overflows(rd, b)
       THEN Goto("loop", NewVarint)
       ELSE Goto("skip", Feed(rd, b))
    /\ ragged' = (ragged \/ Overflows(rd, b))
    /\ UNCHANGED <<field, heap, spans>>

SkipLenByte(b) ==
    /\ pc = "skiplen"
    /\ CountByte
    /\ UNCHANGED <<field, heap, spans>>
    /\ \/ /\ ~ Ends(rd, b) /\ ~ Overflows(rd, b)
          /\ Goto("skiplen", Feed(rd, b))
          /\ UNCHANGED ragged
       \/ /\ Overflows(rd, b) \/ TooBig(rd, b)
          /\ Goto("loop", NewVarint)
          /\ ragged' = TRUE
       \/ /\ Ends(rd, b) /\ ~ TooBig(rd, b)
          /\ LET len == Feed(rd, b).acc
             IN  Goto(IF len = 0 THEN "loop" ELSE "skipbytes", NewFixed(len))
          /\ UNCHANGED ragged

\* One iteration of Skip, which ignores the result of Read.
SkipOne ==
    Goto(IF rd.left = 1 THEN "loop" ELSE "skipbytes", NewFixed(rd.left - 1))

SkipPayloadByte ==
    /\ pc = "skipbytes"
    /\ CountByte
    /\ SkipOne
    /\ UNCHANGED <<field, heap, spans, ragged>>

SkipPayloadFails ==
    /\ pc = "skipbytes"
    /\ SkipOne
    /\ ragged' = TRUE
    /\ UNCHANGED <<consumed, field, heap, spans>>

SkipFails ==
    /\ pc \in {"skip", "skiplen"}
    /\ Goto("loop", NewVarint)
    /\ ragged' = TRUE
    /\ UNCHANGED <<consumed, field, heap, spans>>

-----------------------------------------------------------------------------
(* DecodeVarint, DecodeFixedInt32 and DecodeFixedInt64. *)

ValueByte(b) ==
    /\ pc = "value"
    /\ CountByte
    /\ UNCHANGED <<field, spans, ragged>>
    /\ \/ /\ ~ Ends(rd, b) /\ ~ Overflows(rd, b)
          /\ Goto("value", Feed(rd, b))
          /\ UNCHANGED heap
       \/ /\ Overflows(rd, b)
          /\ ReturnFalse
          /\ UNCHANGED heap
       \/ /\ Ends(rd, b)
          /\ heap' = Store(heap, Top.msg, field,
                           Convert(field.type, Feed(rd, b).acc))
          /\ Goto("loop", NewVarint)

-----------------------------------------------------------------------------
(* DecodeLenPrefix. *)

\* AddRepeatedString or MutableString, and the clear() of ReadString.
EnterString(size) ==
    /\ heap' = Store(heap, Top.msg, field, <<>>)
    /\ Goto(IF size = 0 THEN "loop" ELSE "string", NewFixed(size))
    /\ UNCHANGED spans

\* Mutant: MutableMessage always creates a sub-message.
NeverMerges(m, f) == FALSE

\* AddRepeatedMessage appends a message; MutableMessage creates one unless
\* the field has one, which the decoder then merges into.
IsMerge(m, f) == ~ f.repeated /\ heap[m].val[f.num] # 0

SubMessage(m, f) == IF IsMerge(m, f) THEN heap[m].val[f.num] ELSE Len(heap) + 1

EnterSubMessage(size) ==
    LET m == Top.msg
        start == consumed + 1
    IN  /\ heap' = IF IsMerge(m, field) THEN heap
                   ELSE Append(Store(heap, m, field, SubMessage(m, field)),
                               NewMessage(field.sub))
        /\ stack' = Append(stack, [msg |-> SubMessage(m, field), via |-> field,
                                   start |-> start, size |-> size])
        /\ spans' = spans \cup {[from |-> consumed, to |-> start + size]}
        /\ pc' = "loop"
        /\ rd' = NewVarint
        /\ UNCHANGED result

LenByte(b) ==
    /\ pc = "len"
    /\ CountByte
    /\ UNCHANGED <<field, ragged>>
    /\ \/ /\ ~ Ends(rd, b) /\ ~ Overflows(rd, b)
          /\ Goto("len", Feed(rd, b))
          /\ UNCHANGED <<heap, spans>>
       \/ /\ \/ Overflows(rd, b)
             \/ TooBig(rd, b)
             \/ Ends(rd, b) /\ field.type = "bytes"
          /\ ReturnFalse
          /\ UNCHANGED <<heap, spans>>
       \/ /\ Ends(rd, b) /\ ~ TooBig(rd, b) /\ field.type = "string"
          /\ EnterString(Feed(rd, b).acc)
       \/ /\ Ends(rd, b) /\ ~ TooBig(rd, b) /\ field.type = "message"
          /\ EnterSubMessage(Feed(rd, b).acc)

StringByte(b) ==
    /\ pc = "string"
    /\ CountByte
    /\ heap' = PushBack(heap, Top.msg, field, b)
    /\ Goto(IF rd.left = 1 THEN "loop" ELSE "string", NewFixed(rd.left - 1))
    /\ UNCHANGED <<field, spans, ragged>>

FieldFails ==
    /\ pc \in {"value", "len", "string"}
    /\ ReturnFalse
    /\ UNCHANGED <<consumed, field, heap, spans, ragged>>

-----------------------------------------------------------------------------
Init ==
    /\ consumed = 0
    /\ heap = <<NewMessage(Root)>>
    /\ field = [num |-> 0, type |-> "message", repeated |-> FALSE,
                packed |-> FALSE, sub |-> Root]
    /\ stack = <<[msg |-> 1, via |-> field, start |-> 0, size |-> SIZE_MAX]>>
    /\ pc = "loop"
    /\ rd = NewVarint
    /\ result = "running"
    /\ spans = {}
    /\ ragged = FALSE

ReadByte(b) ==
    \/ TagByte(b)
    \/ SkipByte(b)
    \/ SkipLenByte(b)
    \/ SkipPayloadByte
    \/ ValueByte(b)
    \/ LenByte(b)
    \/ StringByte(b)

ReadFails ==
    \/ TagFails
    \/ SkipFails
    \/ SkipPayloadFails
    \/ FieldFails

Next ==
    \/ LoopHead
    \/ consumed < MaxBytes /\ \E b \in InBytes : ReadByte(b)
    \/ ReadFails

Spec == Init /\ [][Next]_vars

\* The thread that called DecodeMessage runs, and every Read returns.
FairSpec == Spec /\ WF_vars(Next)

-----------------------------------------------------------------------------
(* Properties. *)

\* What the field f of the message m holds in a heap of n messages: one
\* element of it, and the whole.  A message only owns younger ones.
Elements(f, m, n) ==
    CASE f.type = "string" -> Seq(InBytes)
      [] f.type = "message" -> (m + 1) .. n
      [] OTHER -> CppValues(f.type)

Values(f, m, n) ==
    IF f.repeated THEN Seq(Elements(f, m, n))
    ELSE Elements(f, m, n) \cup (IF f.type = "message" THEN {0} ELSE {})

\* The message objects of h have the fields of their descriptors, and refer
\* to messages up to n.
Typed(h, n) ==
    /\ h \in Seq({h[m] : m \in DOMAIN h})
    /\ \A m \in DOMAIN h :
        /\ DOMAIN h[m] = {"type", "val"}
        /\ h[m].type \in DOMAIN Schema
        /\ DOMAIN h[m].val = Numbers(h[m].type)
        /\ \A f \in Fields(h[m].type) : h[m].val[f.num] \in Values(f, m, n)

HeapOK == heap # <<>> /\ Typed(heap, Len(heap))

Frames == [msg : Nat \ {0}, via : FieldDescriptors, start : Nat, size : Nat]

Labels == {"loop", "tag", "skip", "skiplen", "skipbytes", "value", "len",
           "string", "done"}

\* The type invariant of everything but the message objects.
ControlOK ==
    /\ consumed \in Nat
    /\ stack \in Seq(Frames)
    /\ pc \in Labels
    /\ (pc = "done") <=> (stack = <<>>)
    /\ rd \in [acc : Nat, place : Nat \ {0}, left : Nat]
    /\ field \in FieldDescriptors
    /\ result \in {"running", "true", "false"}
    /\ (pc = "done") <=> (result # "running")
    /\ spans \in SUBSET [from : Nat, to : Nat]
    /\ ragged \in BOOLEAN

TypeOK == ControlOK /\ HeapOK

\* A message that DecodeMessage accepts has properly nested sub-messages: the
\* bytes two sub-messages were declared to occupy, counted from the last byte
\* of the size, are disjoint, or one of them contains the other.  The decoder
\* never compares a declared size with the enclosing one when it descends; only
\* the size test at the end of each activation (decoder.cc:457) rejects a
\* sub-message that runs past the end of the message it is in.
SpansNest ==
    result = "true" =>
        \A s, t \in spans :
            s.from <= t.from => s.to <= t.from \/ t.to <= s.to

\* The recursion of DecodeMessage, which uses the C++ stack of a
\* microcontroller, goes no deeper than one activation for every two bytes
\* read: no input makes it descend without consuming a tag and a size.
DepthBound == 2 * Len(stack) <= consumed + 2

\* The field the activation fr was entered from, in the message object m,
\* still ends with the sub-message that fr decodes into.
Holds(m, fr) ==
    LET from == m.val[fr.via.num]
    IN  IF fr.via.repeated
        THEN from # <<>> /\ from[Len(from)] = fr.msg
        ELSE from = fr.msg

\* A suspended activation resumes with the message it was decoding, and the
\* pointer that AddRepeatedMessage or MutableMessage gave to a nested one
\* still is the last element of the vector, or the sub-message, of the field it
\* came from: no push_back on that vector can have moved it meanwhile.
FramePointersLive ==
    \A i \in 2 .. Len(stack) : Holds(heap[stack[i - 1].msg], stack[i])

\* The sub-messages that the field f of the message m owns.
Owned(m, f) ==
    LET v == heap[m].val[f.num]
    IN  CASE f.repeated -> v
          [] ~ f.repeated /\ v = 0 -> <<>>
          [] OTHER -> <<v>>

\* The places where a message owns a sub-message.
Slots ==
    UNION {UNION {{<<m, f, k>> : k \in DOMAIN Owned(m, f)} :
                  f \in MessageFields(heap[m].type)} : m \in DOMAIN heap}

\* The message objects form a tree: each sub-message the decoder made, and it
\* makes one whenever it does not merge, is owned by exactly one field of one
\* message, so that none is shared, dropped or decoded into twice.
OwnedOnce ==
    /\ {Owned(s[1], s[2])[s[3]] : s \in Slots} = 2 .. Len(heap)
    /\ Cardinality(Slots) = Len(heap) - 1

\* Decoding merges: a step never drops a sub-message or an element of a
\* repeated field, and never changes an element that is not the last.
NothingLost ==
    [][\A m \in DOMAIN heap :
        heap'[m] # heap[m] =>
        \A f \in Fields(heap[m].type) :
            LET old == heap[m].val[f.num]
                new == heap'[m].val[f.num]
            IN  /\ f.repeated =>
                    /\ Len(new) \in {Len(old), Len(old) + 1}
                    /\ \A k \in 1 .. (Len(new) - 1) : new[k] = old[k]
                /\ ~ f.repeated /\ f.type = "message" /\ old # 0 => new = old
      ]_vars

\* Every call of DecodeMessage returns when the input is finite, whatever the
\* bytes are and whenever a Read fails.
Terminates == <>(pc = "done")

\* What the grammar at decoder.cc:14 says of the bytes of an accepted
\* message: they are (tag value)*.
AcceptedIsWellFormed == result = "true" => ~ ragged

=============================================================================
