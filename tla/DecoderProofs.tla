--------------------------- MODULE DecoderProofs ---------------------------
(***************************************************************************)
(* What the decoder guarantees for every schema, every input and every     *)
(* width of the machine's words.                                           *)
(***************************************************************************)
EXTENDS Decoder, WireProofs, FiniteSetTheorems

-----------------------------------------------------------------------------
(* Descriptors and the heap. *)

\* A function on 1 .. n is a sequence of length n.
LEMMA FunctionIsSeq ==
    ASSUME NEW S, NEW n \in Nat, NEW s \in [1 .. n -> S]
    PROVE  s \in Seq(S) /\ Len(s) = n
  <1>1. s \in Seq(S)
    BY SeqDef
  <1>. QED
    BY <1>1, LenProperties

\* Every field of a registered message type is a field descriptor.
LEMMA FieldsAreDescriptors ==
    ASSUME NEW t \in DOMAIN Schema, NEW f \in Fields(t)
    PROVE  f \in FieldDescriptors /\ f.num \in Numbers(t)
  BY DecoderAssumption DEF Fields, Numbers

\* Two descriptors of a type with the same number are the same.
LEMMA NumbersAreDistinct ==
    ASSUME NEW t \in DOMAIN Schema, NEW f \in Fields(t), NEW g \in Fields(t),
           f.num = g.num
    PROVE  f = g
  BY DecoderAssumption DEF Fields

\* FindFieldByNumber returns the field of that number.
LEMMA FindFieldByNumberFinds ==
    ASSUME NEW t \in DOMAIN Schema, NEW num \in Nat, Known(t, num)
    PROVE  /\ FindFieldByNumber(t, num) \in Fields(t)
           /\ FindFieldByNumber(t, num).num = num
  <1> DEFINE IsFirst(i) == /\ Schema[t][i].num = num
                           /\ \A j \in 1 .. (i - 1) : Schema[t][j].num # num
  <1>1. Schema[t] \in Seq(FieldDescriptors)
    BY DecoderAssumption
  <1>2. PICK i \in DOMAIN Schema[t] : Schema[t][i].num = num
    BY DEF Known
  <1>3. \A j \in 1 .. (i - 1) : Schema[t][j].num # num
    BY <1>1, <1>2, DecoderAssumption
  <1>4. IsFirst(CHOOSE k \in DOMAIN Schema[t] : IsFirst(k))
        /\ (CHOOSE k \in DOMAIN Schema[t] : IsFirst(k)) \in DOMAIN Schema[t]
    BY <1>2, <1>3
  <1>. QED
    BY <1>4 DEF FindFieldByNumber, Fields

\* A default value is a value of its field.
LEMMA DefaultValueTyped ==
    ASSUME NEW f \in FieldDescriptors, NEW m \in Nat, NEW n \in Nat
    PROVE  DefaultValue(f) \in Values(f, m, n)
  <1>1. CASE f.repeated
    BY <1>1, EmptySeq DEF DefaultValue, Values
  <1>2. CASE ~ f.repeated /\ f.type = "string"
    BY <1>2, EmptySeq DEF DefaultValue, Values, Elements
  <1>3. CASE ~ f.repeated /\ f.type = "message"
    BY <1>3 DEF DefaultValue, Values, Elements
  <1>4. CASE ~ f.repeated /\ f.type \notin {"string", "message"}
    <2>1. 0 \in CppValues(f.type)
      BY WireAssumption DEF CppValues
    <2>. QED
      BY <1>4, <2>1 DEF DefaultValue, Values, Elements
  <1>. QED
    BY <1>1, <1>2, <1>3, <1>4

\* References stay valid when the heap grows.
LEMMA TypedGrows ==
    ASSUME NEW h, NEW n \in Nat, NEW k \in Nat, n <= k, Typed(h, n)
    PROVE  Typed(h, k)
  <1>1. ASSUME NEW m \in Nat, NEW f
        PROVE  Elements(f, m, n) \subseteq Elements(f, m, k)
    BY DEF Elements
  <1>2. ASSUME NEW m \in Nat, NEW f
        PROVE  Values(f, m, n) \subseteq Values(f, m, k)
    BY <1>1 DEF Values
  <1>3. DOMAIN h \subseteq Nat
    BY DEF Typed
  <1>. QED
    BY <1>2, <1>3 DEF Typed

\* Assigning a value of its type to a field of a message keeps the heap
\* typed, keeps the types of the messages and changes nothing but that field.
LEMMA AssignTyped ==
    ASSUME NEW h, NEW n \in Nat, Typed(h, n), NEW m \in DOMAIN h,
           NEW f \in Fields(h[m].type), NEW w \in Values(f, m, n)
    PROVE  LET g == Assign(h, m, f.num, w)
           IN  /\ Typed(g, n)
               /\ DOMAIN g = DOMAIN h
               /\ Len(g) = Len(h)
               /\ \A i \in DOMAIN h : g[i].type = h[i].type
               /\ \A i \in DOMAIN h : i # m => g[i] = h[i]
               /\ \A k \in DOMAIN h[m].val :
                    k # f.num => g[m].val[k] = h[m].val[k]
               /\ g[m].val[f.num] = w
  <1> DEFINE g == Assign(h, m, f.num, w)
  <1>1. /\ DOMAIN h[m] = {"type", "val"}
        /\ h[m].type \in DOMAIN Schema
        /\ f.num \in DOMAIN h[m].val
    BY FieldsAreDescriptors DEF Typed
  <1>2. g = [h EXCEPT ![m] = [h[m] EXCEPT !["val"] =
                                 [h[m].val EXCEPT ![f.num] = w]]]
    BY DEF Assign
  <1>3. /\ DOMAIN g = DOMAIN h
        /\ \A i \in DOMAIN h : i # m => g[i] = h[i]
        /\ DOMAIN g[m] = {"type", "val"}
        /\ g[m].type = h[m].type
        /\ DOMAIN g[m].val = DOMAIN h[m].val
        /\ \A k \in DOMAIN h[m].val : k # f.num => g[m].val[k] = h[m].val[k]
        /\ g[m].val[f.num] = w
    BY <1>1, <1>2
  <1>4. /\ g \in Seq({g[i] : i \in DOMAIN g})
        /\ Len(g) = Len(h)
    <2>1. h \in Seq({h[i] : i \in DOMAIN h})
      BY DEF Typed
    <2>2. DOMAIN g = 1 .. Len(h) /\ Len(h) \in Nat
      BY <1>3, <2>1
    <2>3. g \in [1 .. Len(h) -> {g[i] : i \in DOMAIN g}]
      BY <1>2, <2>2
    <2>. QED
      BY <2>2, <2>3, FunctionIsSeq
  <1>5. ASSUME NEW i \in DOMAIN g
        PROVE  /\ DOMAIN g[i] = {"type", "val"}
               /\ g[i].type \in DOMAIN Schema
               /\ DOMAIN g[i].val = Numbers(g[i].type)
               /\ \A e \in Fields(g[i].type) : g[i].val[e.num] \in Values(e, i, n)
    <2>1. CASE i # m
      BY <1>3, <2>1 DEF Typed
    <2>2. CASE i = m
      <3>1. ASSUME NEW e \in Fields(h[m].type)
            PROVE  g[m].val[e.num] \in Values(e, m, n)
        <4>1. CASE e = f
          BY <1>3, <4>1
        <4>2. CASE e # f
          BY <1>1, <1>3, <4>2, NumbersAreDistinct, FieldsAreDescriptors DEF Typed
        <4>. QED
          BY <4>1, <4>2
      <3>. QED
        BY <1>1, <1>3, <2>2, <3>1 DEF Typed
    <2>. QED
      BY <2>1, <2>2
  <1>6. Typed(g, n)
    BY <1>4, <1>5 DEF Typed
  <1>. QED
    BY <1>3, <1>4, <1>6

\* Adding a fresh message keeps the heap typed.
LEMMA AppendTyped ==
    ASSUME NEW h, NEW n \in Nat, Typed(h, n), NEW t \in DOMAIN Schema
    PROVE  LET g == Append(h, NewMessage(t))
           IN  /\ Typed(g, n)
               /\ g # <<>>
               /\ Len(h) \in Nat
               /\ Len(g) = Len(h) + 1
               /\ DOMAIN g = 1 .. Len(h) + 1
               /\ DOMAIN h = 1 .. Len(h)
               /\ \A i \in DOMAIN h : g[i] = h[i]
               /\ g[Len(h) + 1] = NewMessage(t)
  <1> DEFINE g == Append(h, NewMessage(t))
             S == {h[i] : i \in DOMAIN h} \cup {NewMessage(t)}
  <1>1. h \in Seq(S) /\ Len(h) \in Nat /\ DOMAIN h = 1 .. Len(h)
    BY SeqMonotonic, LenProperties DEF Typed
  <1>2. /\ g \in Seq(S)
        /\ g # <<>>
        /\ Len(g) = Len(h) + 1
        /\ DOMAIN g = 1 .. Len(h) + 1
        /\ \A i \in DOMAIN h : g[i] = h[i]
        /\ g[Len(h) + 1] = NewMessage(t)
    BY <1>1, AppendProperties, LenProperties
  <1>3. g \in Seq({g[i] : i \in DOMAIN g})
    BY <1>2, SeqDef, LenProperties
  <1>4. /\ DOMAIN NewMessage(t) = {"type", "val"}
        /\ NewMessage(t).type = t
        /\ DOMAIN NewMessage(t).val = Numbers(t)
        /\ \A f \in Fields(t) :
             NewMessage(t).val[f.num] = DefaultValue(FindFieldByNumber(t, f.num))
    BY FieldsAreDescriptors DEF NewMessage
  <1>5. \A f \in Fields(t) : FindFieldByNumber(t, f.num) = f
    <2> SUFFICES ASSUME NEW f \in Fields(t)
                 PROVE  FindFieldByNumber(t, f.num) = f
      OBVIOUS
    <2>1. f.num \in Nat /\ Known(t, f.num)
      BY FieldsAreDescriptors DEF Known, Fields, FieldDescriptors
    <2>. QED
      BY <2>1, FindFieldByNumberFinds, NumbersAreDistinct
  <1>6. \A f \in Fields(t) : DefaultValue(f) \in Values(f, Len(h) + 1, n)
    BY <1>1, FieldsAreDescriptors, DefaultValueTyped
  <1>7. Typed(g, n)
    BY <1>1, <1>2, <1>3, <1>4, <1>5, <1>6 DEF Typed
  <1>. QED
    BY <1>1, <1>2, <1>7

\* Storing an element of its type in a field of a message, the case of the
\* setters and of the repeated adders.
LEMMA StoreTyped ==
    ASSUME NEW h, NEW n \in Nat, Typed(h, n), NEW m \in DOMAIN h,
           NEW f \in Fields(h[m].type), NEW v \in Elements(f, m, n)
    PROVE  /\ Added(f, h[m].val[f.num], v) \in Values(f, m, n)
           /\ f.repeated => Added(f, h[m].val[f.num], v) # <<>>
  <1> DEFINE old == h[m].val[f.num]
             E == Elements(f, m, n)
  <1>1. old \in Values(f, m, n)
    BY DEF Typed
  <1>2. CASE f.repeated
    <2>1. old \in Seq(E) /\ v \in E
      BY <1>1, <1>2 DEF Values
    <2> HIDE DEF old, E
    <2>2. Append(old, v) \in Seq(E) /\ Append(old, v) # <<>>
      BY <2>1, AppendProperties
    <2>. QED
      BY <1>2, <2>2 DEF Added, Values, E, old
  <1>3. CASE ~ f.repeated
    BY <1>3 DEF Added, Values
  <1>. QED
    BY <1>2, <1>3

\* Appending a byte to a string, the last one of a repeated field.
LEMMA PushBackTyped ==
    ASSUME NEW h, NEW n \in Nat, Typed(h, n), NEW m \in DOMAIN h,
           NEW f \in Fields(h[m].type), f.type = "string",
           NEW b \in InBytes,
           f.repeated => h[m].val[f.num] # <<>>
    PROVE  /\ Extended(f, h[m].val[f.num], b) \in Values(f, m, n)
           /\ f.repeated => Extended(f, h[m].val[f.num], b) # <<>>
  <1> DEFINE old == h[m].val[f.num]
  <1>1. old \in Values(f, m, n)
    BY DEF Typed
  <1>2. Elements(f, m, n) = Seq(InBytes)
    BY DEF Elements
  <1>3. CASE ~ f.repeated
    BY <1>1, <1>2, <1>3, AppendProperties DEF Extended, Values
  <1>4. CASE f.repeated
    <2>1. old \in Seq(Seq(InBytes)) /\ old # <<>>
      BY <1>1, <1>2, <1>4 DEF Values
    <2>2. Len(old) \in 1 .. Len(old)
      BY <2>1, EmptySeq
    <2>3. Append(old[Len(old)], b) \in Seq(InBytes)
      BY <2>1, <2>2, ElementOfSeq, AppendProperties
    <2>4. LET w == [old EXCEPT ![Len(old)] = Append(old[Len(old)], b)]
          IN  w \in Seq(Seq(InBytes)) /\ Len(w) = Len(old)
      BY <2>1, <2>2, <2>3, ExceptSeq
    <2>5. [old EXCEPT ![Len(old)] = Append(old[Len(old)], b)] # <<>>
      BY <2>2, <2>4, EmptySeq
    <2>. QED
      BY <1>2, <1>4, <2>4, <2>5 DEF Extended, Values
  <1>. QED
    BY <1>3, <1>4

-----------------------------------------------------------------------------
(* Read calls. *)

Calls == [acc : Nat, place : Nat \ {0}, left : Nat]

\* The product of two natural numbers is one.
LEMMA ProductIsNat ==
    ASSUME NEW i \in Nat, NEW j \in Nat
    PROVE  i * j \in Nat /\ (i # 0 /\ j # 0 => i * j # 0)
  OBVIOUS

\* Reading a byte keeps a Read call well-formed.
LEMMA FeedTyped ==
    ASSUME NEW r \in Calls, NEW b \in Byte
    PROVE  Feed(r, b) \in Calls
  <1>1. Payload(b) \in Nat /\ b \in Nat /\ Base \in Nat \ {0}
    BY WireAssumption DEF Payload, Byte
  <1>2. CASE r.left = 0
    <2>1. (r.acc + Payload(b) * r.place) % U64 \in Nat
      BY <1>1, WireAssumption, ProductIsNat DEF Calls
    <2>2. r.place * Base \in Nat \ {0}
      BY <1>1, ProductIsNat DEF Calls
    <2>. QED
      BY <1>2, <2>1, <2>2 DEF Feed, FeedVarint, Calls
  <1>3. CASE r.left # 0
    <2>1. r.acc + b * r.place \in Nat
      BY <1>1, ProductIsNat DEF Calls
    <2>2. r.place * 2 * Base \in Nat \ {0}
      <3>1. r.place * 2 \in Nat \ {0}
        BY DEF Calls
      <3>. QED
        BY <1>1, <3>1, ProductIsNat
    <2>. QED
      BY <1>3, <2>1, <2>2 DEF Feed, FeedFixed, Calls
  <1>. QED
    BY <1>2, <1>3

\* The conversions of the setters yield values of the C++ type.
LEMMA ConvertTyped ==
    ASSUME NEW type, NEW u \in 0 .. (U64 - 1)
    PROVE  Convert(type, u) \in CppValues(type)
  <1>1. PICK h \in Nat, k \in Nat : U32 = 2 * h /\ U64 = 2 * k
    BY WordsAreEven
  <1>2. /\ U32 \in Nat /\ U32 > 1 /\ U64 \in Nat /\ U64 >= U32
        /\ U32 \div 2 = h /\ U64 \div 2 = k
        /\ u \in Nat /\ u < U64
    BY <1>1, WireAssumption
  <1>3. u % U32 \in 0 .. (U32 - 1)
    BY <1>2
  <1>4. /\ ToSigned(u % U32, U32) \in -h .. (h - 1)
        /\ ToSigned(u, U64) \in -k .. (k - 1)
    BY <1>1, <1>2, <1>3 DEF ToSigned
  <1>5. ASSUME NEW m \in Nat, NEW x \in 0 .. (2 * m - 1)
        PROVE  DecodeZigZag(x) \in -m .. (m - 1)
    BY DEF DecodeZigZag
  <1>6. /\ DecodeZigZag(u % U32) \in -h .. (h - 1)
        /\ DecodeZigZag(u) \in -k .. (k - 1)
    BY <1>1, <1>2, <1>3, <1>5
  <1>. QED
    BY <1>2, <1>3, <1>4, <1>6 DEF Convert, CppValues

-----------------------------------------------------------------------------
(* The Read calls that read a number.  A value of n bytes has no more bits *)
(* than they have, so that what such a call returns always fits in a word. *)

Fits(r) ==
    /\ r \in Calls
    /\ r.acc < U64
    /\ r.left # 0 => r.acc < r.place /\ r.place * Words(r.left) <= U64

CallFits == pc \notin {"skipbytes", "string"} => Fits(rd)

LEMMA NewCallsFit ==
    Fits(NewVarint) /\ Fits(NewFixed(0)) /\ Fits(NewFixed(N32)) /\ Fits(NewFixed(N64))
  <1>1. /\ U64 \in Nat /\ U64 > 1 /\ U32 <= U64
        /\ N32 \in Nat /\ N64 \in Nat
        /\ Words(N32) = U32 /\ Words(N64) = U64
    BY WireAssumption, WordAssumption
  <1>2. ASSUME NEW n \in Nat, n # 0 => Words(n) <= U64
        PROVE  Fits([acc |-> 0, place |-> 1, left |-> n])
    <2>1. Words(n) \in Nat
      BY WordsDef
    <2>. QED
      BY <1>1, <1>2, <2>1 DEF Fits, Calls
  <1>3. U32 \in Nat
    BY WireAssumption
  <1>. QED
    BY <1>1, <1>2, <1>3 DEF NewVarint, NewFixed

\* Reading a byte of a number keeps it in its word.
LEMMA FeedFits ==
    ASSUME NEW r, Fits(r), NEW b \in Byte
    PROVE  Fits(Feed(r, b))
  <1> DEFINE f == Feed(r, b)
  <1>1. r \in Calls /\ f \in Calls
    BY FeedTyped DEF Fits
  <1>2. CASE r.left = 0
    <2>1. f = FeedVarint(r, b)
      BY <1>2 DEF Feed
    <2>2. Payload(b) * r.place \in Nat
      BY <1>1, WireAssumption, ProductIsNat DEF Calls, Payload, Byte
    <2>3. r.acc + Payload(b) * r.place \in Nat
      BY <1>1, <2>2 DEF Calls
    <2>4. (r.acc + Payload(b) * r.place) % U64 < U64
      BY <2>3, WireAssumption
    <2>. QED
      BY <1>1, <2>1, <2>4 DEF Fits, FeedVarint
  <1>3. CASE r.left # 0
    <2> DEFINE p == r.place
               B2 == 2 * Base
               w == Words(r.left - 1)
    <2>1. /\ r.acc \in Nat /\ p \in Nat \ {0} /\ r.left - 1 \in Nat
          /\ B2 \in Nat /\ U64 \in Nat
          /\ b \in Nat /\ b + 1 <= B2
      BY <1>1, <1>3, WireAssumption DEF Calls, Byte
    <2>2. w \in Nat \ {0} /\ Words(r.left) = B2 * w
      BY <1>1, <1>3, <2>1, WordsDef DEF Calls
    <2>3. r.acc < p /\ p * (B2 * w) <= U64
      BY <1>3, <2>2 DEF Fits
    <2>4. f = [acc |-> r.acc + b * p, place |-> p * 2 * Base, left |-> r.left - 1]
      BY <1>3 DEF Feed, FeedFixed
    <2>5. p * 2 * Base = B2 * p
      BY <2>1, WireAssumption
    <2> HIDE DEF p, B2, w
    <2>6. b * p \in Nat /\ (b + 1) * p = b * p + p
      BY <2>1
    <2>7. B2 * p \in Nat /\ (b + 1) * p <= B2 * p
      BY <2>1, AtLeastFactor
    <2>8. f.acc = r.acc + b * p /\ f.acc < B2 * p
      BY <2>1, <2>3, <2>4, <2>6, <2>7
    <2>9. (B2 * p) * w = p * (B2 * w)
      BY <2>1, <2>2
    <2>10. 1 * (B2 * p) <= w * (B2 * p) /\ w * (B2 * p) = (B2 * p) * w
      BY <2>2, <2>7, AtLeastFactor
    <2>11. f.acc < U64 /\ (B2 * p) * w <= U64
      BY <2>1, <2>2, <2>3, <2>7, <2>8, <2>9, <2>10
    <2>12. f.place = B2 * p /\ f.left = r.left - 1
      BY <2>4, <2>5
    <2> HIDE DEF f
    <2>. QED
      BY <1>1, <2>8, <2>11, <2>12 DEF Fits, w, f
  <1>. QED
    BY <1>2, <1>3

\* Every step keeps it, whatever the bytes.
LEMMA CallAlwaysFits == Spec => []CallFits
  <1>1. Init => CallFits
    BY NewCallsFit DEF Init, CallFits
  <1>2. ASSUME CallFits, [Next]_vars
        PROVE  CallFits'
    <2>1. CASE LoopHead
      BY <2>1, NewCallsFit
         DEF LoopHead, EndOfMessage, ReturnTrue, ReturnFalse, Goto, CallFits
    <2>2. CASE ReadFails
      <3>1. CASE SkipPayloadFails
        BY <3>1, NewCallsFit DEF SkipPayloadFails, SkipOne, Goto, CallFits, NewFixed
      <3>2. CASE TagFails \/ SkipFails \/ FieldFails
        BY <3>2, NewCallsFit
           DEF TagFails, SkipFails, FieldFails, EndOfMessage, ReturnTrue,
               ReturnFalse, Goto, CallFits
      <3>. QED
        BY <2>2, <3>1, <3>2 DEF ReadFails
    <2>3. ASSUME NEW b \in InBytes, ReadByte(b)
          PROVE  CallFits'
      <3>1. b \in Byte
        BY DecoderAssumption
      <3>2. pc \notin {"skipbytes", "string"} => Fits(Feed(rd, b))
        BY <1>2, <3>1, FeedFits DEF CallFits
      <3>3. CASE TagByte(b)
        <4>1. ASSUME NEW tag, TagDecoded(tag)
              PROVE  CallFits'
          BY <4>1, NewCallsFit
             DEF TagDecoded, DecodeField, SkipUnknownField, ReturnFalse, Goto,
                 CallFits
        <4>. QED
          BY <3>2, <3>3, <4>1, NewCallsFit
             DEF TagByte, EndOfMessage, ReturnTrue, ReturnFalse, Goto, CallFits
      <3>4. CASE SkipByte(b)
        BY <3>2, <3>4, NewCallsFit DEF SkipByte, Goto, CallFits
      <3>5. CASE SkipLenByte(b)
        BY <3>2, <3>5, NewCallsFit DEF SkipLenByte, Goto, CallFits
      <3>6. CASE SkipPayloadByte
        BY <3>6, NewCallsFit DEF SkipPayloadByte, SkipOne, Goto, CallFits, NewFixed
      <3>7. CASE ValueByte(b)
        BY <3>2, <3>7, NewCallsFit DEF ValueByte, ReturnFalse, Goto, CallFits
      <3>8. CASE LenByte(b)
        BY <3>2, <3>8, NewCallsFit
           DEF LenByte, EnterString, EnterSubMessage, ReturnFalse, Goto, CallFits
      <3>9. CASE StringByte(b)
        BY <3>9, NewCallsFit DEF StringByte, Goto, CallFits, NewFixed
      <3>. QED
        BY <2>3, <3>3, <3>4, <3>5, <3>6, <3>7, <3>8, <3>9 DEF ReadByte
    <2>4. CASE UNCHANGED vars
      BY <1>2, <2>4 DEF CallFits, Fits, vars
    <2>. QED
      BY <1>2, <2>1, <2>2, <2>3, <2>4 DEF Next
  <1>. QED
    BY <1>1, <1>2, PTL DEF Spec

-----------------------------------------------------------------------------
(* Type correctness.  The type of the field descriptor in use depends on   *)
(* the type of the message of the innermost activation, so the inductive   *)
(* invariant says which messages the activations work on, and of what kind *)
(* the field of a pending value is.                                        *)

StackOK ==
    /\ \A i \in 1 .. Len(stack) : stack[i].msg \in DOMAIN heap
    /\ \A i, j \in 1 .. Len(stack) : i < j => stack[i].msg < stack[j].msg

FieldOK ==
    /\ pc \in {"value", "len", "string"} => field \in Fields(heap[Top.msg].type)
    /\ pc = "len" => field.type \in LenTypes
    /\ pc = "value" => field.type \notin LenTypes
    /\ pc = "string" =>
        /\ field.type = "string"
        /\ field.repeated => heap[Top.msg].val[field.num] # <<>>
    /\ pc \in {"skipbytes", "string"} => rd.left # 0

TypeInv == ControlOK /\ HeapOK /\ StackOK /\ FieldOK

\* The new stack consists of the oldest activations of the old one.
Unwinds ==
    /\ stack' \in Seq(Frames)
    /\ Len(stack') <= Len(stack)
    /\ \A i \in 1 .. Len(stack') : stack'[i] = stack[i]

\* The control state after a step is typed.
ControlMoves ==
    /\ stack' \in Seq(Frames)
    /\ pc' \in Labels
    /\ (pc' = "done") <=> (stack' = <<>>)
    /\ rd' \in Calls
    /\ result' \in {"running", "true", "false"}
    /\ (pc' = "done") <=> (result' # "running")

\* An activation is on the stack unless DecodeMessage has returned.
LEMMA TopTyped ==
    ASSUME TypeInv, pc # "done"
    PROVE  /\ Len(stack) \in Nat \ {0}
           /\ Top \in Frames
           /\ Top.msg \in DOMAIN heap
           /\ Top.msg \in Nat
           /\ DOMAIN heap = 1 .. Len(heap)
           /\ Len(heap) \in Nat
           /\ heap[Top.msg].type \in DOMAIN Schema
  <1>1. Len(stack) \in Nat \ {0}
    BY EmptySeq DEF TypeInv, ControlOK
  <1>2. Top \in Frames /\ Top.msg \in DOMAIN heap
    BY <1>1, ElementOfSeq DEF TypeInv, ControlOK, StackOK, Top
  <1>3. DOMAIN heap = 1 .. Len(heap) /\ Len(heap) \in Nat
    BY LenProperties DEF TypeInv, HeapOK, Typed
  <1>. QED
    BY <1>1, <1>2, <1>3 DEF TypeInv, HeapOK, Typed

\* Unwinding, or staying, leaves every activation with the message it had.
LEMMA UnwindingKeepsStackOK ==
    ASSUME StackOK, Unwinds, DOMAIN heap' = DOMAIN heap
    PROVE  StackOK'
  BY DEF StackOK, Unwinds

\* A stack of two or more frames without its last one.
LEMMA PopProperties ==
    ASSUME NEW S, NEW s \in Seq(S), Len(s) > 1
    PROVE  /\ SubSeq(s, 1, Len(s) - 1) \in Seq(S)
           /\ SubSeq(s, 1, Len(s) - 1) # <<>>
           /\ Len(SubSeq(s, 1, Len(s) - 1)) = Len(s) - 1
           /\ \A i \in 1 .. (Len(s) - 1) : SubSeq(s, 1, Len(s) - 1)[i] = s[i]
  <1> DEFINE n == Len(s) - 1
             r == SubSeq(s, 1, n)
  <1>1. n \in Nat \ {0}
    <2>1. n \in Int /\ n > 0
      BY LenProperties
    <2> HIDE DEF n
    <2>. QED
      BY <2>1
  <1>2. \A i \in 1 .. n : s[i] \in S
    BY <1>1, ElementOfSeq
  <1>3. /\ r \in Seq(S)
        /\ Len(r) = IF 1 <= n THEN n - 1 + 1 ELSE 0
        /\ \A i \in 1 .. n - 1 + 1 : r[i] = s[1 + i - 1]
    <2> HIDE DEF n
    <2>. QED
      BY <1>1, <1>2, SubSeqProperties
  <1>4. Len(r) = n
    BY <1>1, <1>3
  <1>5. r # <<>>
    <2> HIDE DEF r
    <2>. QED
      BY <1>1, <1>4, EmptySeq
  <1>6. ASSUME NEW i \in 1 .. n
        PROVE  r[i] = s[i]
    <2>1. i \in 1 .. n - 1 + 1 /\ 1 + i - 1 = i
      BY <1>1
    <2>. QED
      BY <1>3, <2>1
  <1>. QED
    BY <1>3, <1>4, <1>5, <1>6

\* Goto, ReturnTrue and ReturnFalse unwind, and keep the control state typed.
LEMMA GotoTyped ==
    ASSUME TypeInv, pc # "done", NEW label \in Labels \ {"done"},
           NEW call \in Calls, Goto(label, call)
    PROVE  /\ Unwinds
           /\ pc' = label
           /\ ControlMoves
  BY DEF TypeInv, ControlOK, Goto, Unwinds, ControlMoves

\* ReturnTrue and ReturnFalse leave a typed control state.
LEMMA ReturnTyped ==
    ASSUME TypeInv, pc # "done", ReturnTrue \/ ReturnFalse
    PROVE  /\ Unwinds
           /\ pc' \in {"loop", "done"}
           /\ ControlMoves
  <1>1. NewVarint \in Calls
    BY DEF NewVarint, Calls
  <1>2. Len(stack) \in Nat \ {0} /\ stack \in Seq(Frames) /\ result = "running"
    BY TopTyped DEF TypeInv, ControlOK
  <1>3. CASE ReturnFalse \/ Len(stack) = 1
    <2>1. /\ stack' = <<>>
          /\ pc' = "done"
          /\ result' \in {"true", "false"}
          /\ rd' = NewVarint
      BY <1>3 DEF ReturnTrue, ReturnFalse
    <2>2. stack' \in Seq(Frames) /\ Len(stack') = 0
      BY <2>1, EmptySeq
    <2>. QED
      BY <1>1, <1>2, <2>1, <2>2 DEF Unwinds, ControlMoves, Labels
  <1>4. CASE ReturnTrue /\ Len(stack) # 1
    <2>1. /\ stack' = SubSeq(stack, 1, Len(stack) - 1)
          /\ pc' = "loop"
          /\ rd' = NewVarint
          /\ result' = result
      BY <1>2, <1>4 DEF ReturnTrue
    <2>2. Len(stack) > 1
      BY <1>2, <1>4
    <2>3. /\ stack' \in Seq(Frames)
          /\ stack' # <<>>
          /\ Len(stack') = Len(stack) - 1
          /\ \A i \in 1 .. (Len(stack) - 1) : stack'[i] = stack[i]
      BY <1>2, <2>1, <2>2, PopProperties
    <2>. QED
      BY <1>1, <1>2, <2>1, <2>3 DEF Unwinds, ControlMoves, Labels
  <1>. QED
    BY <1>3, <1>4

\* The calls the decoder starts are well-formed, and so is the one it is in.
LEMMA NewCallsTyped ==
    /\ NewVarint \in Calls
    /\ \A n \in Nat : NewFixed(n) \in Calls
    /\ NewFixed(N32) \in Calls
    /\ NewFixed(N64) \in Calls
  BY WireAssumption DEF NewVarint, NewFixed, Calls

\* Feeding a byte to the Read in progress leaves a typed Read.
LEMMA RdTyped ==
    ASSUME TypeInv, NEW b \in Byte
    PROVE  /\ rd \in Calls
           /\ Feed(rd, b) \in Calls
           /\ Feed(rd, b).acc \in Nat
  <1>1. rd \in Calls
    BY DEF TypeInv, ControlOK, Calls
  <1>2. Feed(rd, b) \in Calls
    BY <1>1, FeedTyped
  <1>. QED
    BY <1>1, <1>2 DEF Calls

\* EndOfMessage returns.
LEMMA EndOfMessageTyped ==
    ASSUME TypeInv, pc # "done", NEW c, EndOfMessage(c)
    PROVE  Unwinds /\ ControlMoves /\ pc' \in {"loop", "done"}
  BY ReturnTyped DEF EndOfMessage

\* A step that leaves the message objects alone, and does not end in the
\* middle of a field, keeps the invariant if it keeps the control state typed.
LEMMA QuietStep ==
    ASSUME TypeInv, Unwinds, ControlMoves, heap' = heap,
           consumed' \in Nat, field' \in FieldDescriptors, spans' = spans,
           ragged' \in BOOLEAN,
           pc' \notin {"value", "len", "string"},
           pc' = "skipbytes" => rd'.left # 0
    PROVE  TypeInv'
  <1>1. ControlOK'
    BY DEF TypeInv, ControlOK, ControlMoves, Calls
  <1>2. HeapOK'
    BY DEF TypeInv, HeapOK, Typed
  <1>3. StackOK'
    BY UnwindingKeepsStackOK DEF TypeInv
  <1>4. FieldOK'
    BY DEF FieldOK
  <1>. QED
    BY <1>1, <1>2, <1>3, <1>4 DEF TypeInv

\* The same for a step that goes on with the field it is in.
LEMMA FieldStep ==
    ASSUME TypeInv, stack' = stack, stack # <<>>, ControlMoves, heap' = heap,
           consumed' \in Nat, spans' = spans, ragged' = ragged,
           pc' \in {"value", "len"}, field' \in Fields(heap[Top.msg].type),
           pc' = "len" <=> field'.type \in LenTypes
    PROVE  TypeInv'
  <1>0. pc # "done"
    BY DEF TypeInv, ControlOK
  <1>1. field' \in FieldDescriptors
    BY <1>0, TopTyped, FieldsAreDescriptors
  <1>2. ControlOK'
    BY <1>1 DEF TypeInv, ControlOK, ControlMoves, Calls
  <1>3. HeapOK'
    BY DEF TypeInv, HeapOK, Typed
  <1>4. StackOK'
    BY DEF TypeInv, StackOK
  <1>5. FieldOK'
    BY DEF FieldOK, Top
  <1>. QED
    BY <1>2, <1>3, <1>4, <1>5 DEF TypeInv

\* The initial state is typed.
LEMMA InitTyped == Init => TypeInv
  <1> SUFFICES ASSUME Init PROVE TypeInv
    OBVIOUS
  <1>1. Root \in DOMAIN Schema /\ SIZE_MAX \in Nat
    BY DecoderAssumption
  <1>2. field \in FieldDescriptors
    BY <1>1 DEF Init, FieldDescriptors, FieldTypes, LenTypes
  <1>3. /\ stack \in Seq(Frames)
        /\ Len(stack) = 1
        /\ stack # <<>>
        /\ stack[1].msg = 1
    BY <1>1, <1>2 DEF Init, Frames
  <1>4. ControlOK
    <2>1. rd \in [acc : Nat, place : Nat \ {0}, left : Nat]
      BY DEF Init, NewVarint
    <2>2. spans \in SUBSET [from : Nat, to : Nat]
      BY DEF Init
    <2>. QED
      BY <1>2, <1>3, <2>1, <2>2 DEF Init, ControlOK, Labels
  <1>5. HeapOK
    <2>1. Typed(<<>>, 0)
      BY EmptySeq DEF Typed
    <2>2. heap = Append(<<>>, NewMessage(Root))
      BY DEF Init
    <2>3. Len(<<>>) = 0
      OBVIOUS
    <2>4. /\ Typed(Append(<<>>, NewMessage(Root)), 0)
          /\ Append(<<>>, NewMessage(Root)) # <<>>
          /\ Len(Append(<<>>, NewMessage(Root))) = Len(<<>>) + 1
      BY <1>1, <2>1, AppendTyped
    <2>5. Typed(heap, 0) /\ heap # <<>> /\ Len(heap) = 1
      BY <2>2, <2>3, <2>4
    <2>. QED
      BY <2>5, TypedGrows DEF HeapOK
  <1>6. DOMAIN heap = {1}
    BY DEF Init
  <1>7. StackOK
    BY <1>3, <1>6 DEF StackOK
  <1>8. FieldOK
    BY DEF Init, FieldOK
  <1>. QED
    BY <1>4, <1>5, <1>7, <1>8 DEF TypeInv

\* What DecodeMessage does with a decoded tag.
LEMMA TagDecodedTyped ==
    ASSUME TypeInv, pc = "tag", NEW tag \in Nat, TagDecoded(tag),
           heap' = heap, consumed' \in Nat, spans' = spans
    PROVE  TypeInv'
  <1> DEFINE num == tag \div 8
             wire == tag % 8
             type == heap[Top.msg].type
             f == FindFieldByNumber(type, num)
  <1>1. num \in Nat /\ wire \in Nat
    OBVIOUS
  <1>2. type \in DOMAIN Schema /\ stack # <<>>
    BY TopTyped DEF TypeInv, ControlOK
  <1> HIDE DEF num, wire
  <1>3. CASE Known(type, num)
    <2>1. f \in Fields(type) /\ f \in FieldDescriptors
      BY <1>1, <1>2, <1>3, FindFieldByNumberFinds, FieldsAreDescriptors
    <2>2. DecodeField(f, wire)
      BY <1>3 DEF TagDecoded, num, wire
    <2> HIDE DEF f
    <2>3. field' = f /\ ragged' = ragged
      BY <2>2 DEF DecodeField
    <2>4. CASE GetWireType(f.type) # wire \/ f.packed
      <3>1. ReturnFalse
        BY <2>2, <2>4 DEF DecodeField
      <3>. QED
        BY <2>1, <2>3, <3>1, ReturnTyped, QuietStep DEF TypeInv, ControlOK
    <2>5. CASE GetWireType(f.type) = wire /\ ~ f.packed /\ wire = kLen
      <3>1. Goto("len", NewVarint)
        BY <2>2, <2>5 DEF DecodeField, kLen, kI64, kI32
      <3>2. f.type \in LenTypes
        BY <2>5 DEF GetWireType, kLen, kI32, kI64, kVarint
      <3>3. ControlMoves /\ pc' = "len" /\ stack' = stack
        BY <3>1, NewCallsTyped, GotoTyped DEF Labels, Goto
      <3>. QED
        BY <1>2, <2>1, <2>3, <3>2, <3>3, FieldStep
    <2>6. CASE GetWireType(f.type) = wire /\ ~ f.packed /\ wire # kLen
      <3>1. PICK call \in Calls : Goto("value", call)
        BY <2>2, <2>6, NewCallsTyped DEF DecodeField
      <3>2. f.type \notin LenTypes
        BY <2>6 DEF GetWireType, kLen, LenTypes, I32Types, I64Types
      <3>3. ControlMoves /\ pc' = "value" /\ stack' = stack
        BY <3>1, GotoTyped DEF Labels, Goto
      <3>. QED
        BY <1>2, <2>1, <2>3, <3>2, <3>3, FieldStep
    <2>. QED
      BY <2>4, <2>5, <2>6
  <1>4. CASE ~ Known(type, num)
    <2>1. SkipUnknownField(wire)
      BY <1>4 DEF TagDecoded, num, wire
    <2>2. PICK label \in {"skip", "skiplen", "loop"}, call \in Calls :
             Goto(label, call)
      BY <2>1, NewCallsTyped DEF SkipUnknownField
    <2>3. field' = field /\ ragged' \in BOOLEAN
      BY <2>1 DEF SkipUnknownField, TypeInv, ControlOK
    <2>4. Unwinds /\ ControlMoves /\ pc' = label
      BY <2>2, GotoTyped DEF Labels
    <2>. QED
      BY <2>3, <2>4, QuietStep DEF TypeInv, ControlOK
  <1>. QED
    BY <1>3, <1>4

\* A value stored where its type fits keeps the invariant.
LEMMA AssignStep ==
    ASSUME TypeInv, pc # "done", stack' = stack, ControlMoves,
           field \in Fields(heap[Top.msg].type),
           NEW w \in Values(field, Top.msg, Len(heap)),
           heap' = Assign(heap, Top.msg, field.num, w),
           field' = field, consumed' \in Nat, spans' = spans, ragged' = ragged,
           \/ pc' = "loop"
           \/ /\ pc' = "string"
              /\ field.type = "string"
              /\ field.repeated => w # <<>>
              /\ rd'.left # 0
    PROVE  TypeInv'
  <1> DEFINE m == Top.msg
             n == Len(heap)
  <1>1. /\ m \in DOMAIN heap
        /\ n \in Nat
        /\ DOMAIN heap = 1 .. n
        /\ Typed(heap, n)
        /\ Len(stack) \in Nat \ {0}
    BY TopTyped DEF TypeInv, HeapOK
  <1>2. /\ Typed(heap', n)
        /\ DOMAIN heap' = DOMAIN heap
        /\ Len(heap') = n
        /\ heap'[m].type = heap[m].type
        /\ heap'[m].val[field.num] = w
    BY <1>1, AssignTyped
  <1>3. ControlOK'
    BY DEF TypeInv, ControlOK, ControlMoves, Calls
  <1>4. HeapOK'
    <2>1. heap' # <<>>
      BY <1>1, <1>2
    <2>. QED
      BY <1>2, <2>1 DEF HeapOK
  <1>5. StackOK'
    BY <1>2 DEF TypeInv, StackOK
  <1>6. Top' = Top
    BY DEF Top
  <1>7. FieldOK'
    BY <1>2, <1>6 DEF FieldOK
  <1>. QED
    BY <1>3, <1>4, <1>5, <1>7 DEF TypeInv

\* The last byte of a value stores it.
LEMMA ValueStoredTyped ==
    ASSUME TypeInv, pc = "value", NEW u \in 0 .. (U64 - 1),
           heap' = Store(heap, Top.msg, field, Convert(field.type, u)),
           Goto("loop", NewVarint),
           field' = field, consumed' \in Nat, spans' = spans, ragged' = ragged
    PROVE  TypeInv'
  <1> DEFINE v == Convert(field.type, u)
             w == Added(field, heap[Top.msg].val[field.num], v)
  <1>1. /\ field \in Fields(heap[Top.msg].type)
        /\ field.type \notin LenTypes
    BY DEF TypeInv, FieldOK
  <1>2. v \in Elements(field, Top.msg, Len(heap))
    BY <1>1, ConvertTyped DEF Elements, LenTypes
  <1>3. /\ Typed(heap, Len(heap))
        /\ Len(heap) \in Nat
        /\ Top.msg \in DOMAIN heap
    BY TopTyped DEF TypeInv, HeapOK
  <1>4. heap' = Assign(heap, Top.msg, field.num, w)
    BY DEF Store
  <1> HIDE DEF v
  <1>5. w \in Values(field, Top.msg, Len(heap))
    BY <1>1, <1>2, <1>3, StoreTyped
  <1>6. ControlMoves /\ pc' = "loop" /\ stack' = stack
    BY GotoTyped, NewCallsTyped DEF Labels, Goto
  <1> HIDE DEF w
  <1>. QED
    BY <1>1, <1>4, <1>5, <1>6, AssignStep

\* The size of a string clears it.
LEMMA EnterStringTyped ==
    ASSUME TypeInv, pc = "len", field.type = "string", NEW size \in Nat,
           heap' = Store(heap, Top.msg, field, <<>>),
           Goto(IF size = 0 THEN "loop" ELSE "string", NewFixed(size)),
           field' = field, consumed' \in Nat, spans' = spans, ragged' = ragged
    PROVE  TypeInv'
  <1> DEFINE w == Added(field, heap[Top.msg].val[field.num], <<>>)
  <1>1. field \in Fields(heap[Top.msg].type)
    BY DEF TypeInv, FieldOK
  <1>2. <<>> \in Elements(field, Top.msg, Len(heap))
    BY <1>1, EmptySeq DEF Elements
  <1>3. /\ Typed(heap, Len(heap))
        /\ Len(heap) \in Nat
        /\ Top.msg \in DOMAIN heap
    BY TopTyped DEF TypeInv, HeapOK
  <1>4. heap' = Assign(heap, Top.msg, field.num, w)
    BY DEF Store
  <1>5. /\ w \in Values(field, Top.msg, Len(heap))
        /\ field.repeated => w # <<>>
    BY <1>1, <1>2, <1>3, StoreTyped
  <1>6. /\ ControlMoves
        /\ pc' = IF size = 0 THEN "loop" ELSE "string"
        /\ rd' = NewFixed(size)
        /\ stack' = stack
    BY GotoTyped, NewCallsTyped DEF Labels, Goto
  <1>7. size # 0 => rd'.left # 0
    BY <1>6 DEF NewFixed
  <1> HIDE DEF w
  <1>. QED
    BY <1>1, <1>4, <1>5, <1>6, <1>7, AssignStep

\* A byte of a string is appended to it.
LEMMA StringByteTyped ==
    ASSUME TypeInv, NEW b \in InBytes, StringByte(b)
    PROVE  TypeInv'
  <1> DEFINE w == Extended(field, heap[Top.msg].val[field.num], b)
             label == IF rd.left = 1 THEN "loop" ELSE "string"
  <1>1. /\ pc = "string"
        /\ field \in Fields(heap[Top.msg].type)
        /\ field.type = "string"
        /\ field.repeated => heap[Top.msg].val[field.num] # <<>>
        /\ rd.left # 0
        /\ rd \in Calls
    BY DEF CountByte, StringByte, TypeInv, FieldOK, ControlOK, Calls
  <1>2. /\ Typed(heap, Len(heap))
        /\ Len(heap) \in Nat
        /\ Top.msg \in DOMAIN heap
    BY <1>1, TopTyped DEF TypeInv, HeapOK
  <1>3. /\ w \in Values(field, Top.msg, Len(heap))
        /\ field.repeated => w # <<>>
    BY <1>1, <1>2, PushBackTyped
  <1>4. heap' = Assign(heap, Top.msg, field.num, w)
    BY DEF CountByte, StringByte, PushBack
  <1> HIDE DEF w
  <1>5. rd.left - 1 \in Nat /\ (rd.left # 1 => rd.left - 1 # 0)
    BY <1>1 DEF Calls
  <1>6. Goto(label, NewFixed(rd.left - 1))
    BY DEF CountByte, StringByte
  <1>7. /\ ControlMoves
        /\ pc' = label
        /\ rd' = NewFixed(rd.left - 1)
        /\ stack' = stack
    BY <1>1, <1>5, <1>6, GotoTyped, NewCallsTyped DEF Labels, Goto
  <1>8. rd.left # 1 => rd'.left # 0
    BY <1>5, <1>7 DEF NewFixed
  <1>9. consumed' \in Nat /\ field' = field /\ spans' = spans /\ ragged' = ragged
    BY DEF CountByte, StringByte, TypeInv, ControlOK
  <1>. QED
    BY <1>1, <1>3, <1>4, <1>7, <1>8, <1>9, AssignStep

\* A sub-message to decode into is younger than the message it is in, and
\* the heap stays typed when it is made.
LEMMA SubMessageTyped ==
    ASSUME NEW h, NEW n \in Nat, n = Len(h), h # <<>>, Typed(h, n),
           NEW m \in DOMAIN h, NEW f \in Fields(h[m].type), f.type = "message",
           NEW g, NEW c,
           \/ /\ ~ f.repeated /\ h[m].val[f.num] # 0
              /\ g = h
              /\ c = h[m].val[f.num]
           \/ /\ g = Append(Store(h, m, f, c), NewMessage(f.sub))
              /\ c = n + 1
    PROVE  /\ g # <<>>
           /\ Typed(g, Len(g))
           /\ DOMAIN h \subseteq DOMAIN g
           /\ c \in DOMAIN g
           /\ c > m
  <1>1. DOMAIN h = 1 .. n /\ h[m].type \in DOMAIN Schema
    BY LenProperties DEF Typed
  <1>2. CASE /\ ~ f.repeated /\ h[m].val[f.num] # 0
             /\ g = h
             /\ c = h[m].val[f.num]
    <2>1. h[m].val[f.num] \in Values(f, m, n)
      BY DEF Typed
    <2>2. c \in (m + 1) .. n
      BY <1>2, <2>1 DEF Values, Elements
    <2>. QED
      BY <1>1, <1>2, <2>2
  <1>3. CASE /\ g = Append(Store(h, m, f, c), NewMessage(f.sub))
             /\ c = n + 1
    <2> DEFINE w == Added(f, h[m].val[f.num], c)
               s == Assign(h, m, f.num, w)
    <2>1. Typed(h, n + 1)
      BY TypedGrows
    <2>2. c \in Elements(f, m, n + 1) /\ c > m
      BY <1>1, <1>3 DEF Elements
    <2>3. w \in Values(f, m, n + 1)
      BY <2>1, <2>2, StoreTyped
    <2> HIDE DEF w
    <2>4. Typed(s, n + 1) /\ DOMAIN s = DOMAIN h /\ Len(s) = n
      BY <2>1, <2>3, AssignTyped
    <2>5. g = Append(s, NewMessage(f.sub))
      BY <1>3 DEF Store, w
    <2>6. f.sub \in DOMAIN Schema
      BY <1>1, FieldsAreDescriptors DEF FieldDescriptors
    <2> HIDE DEF s
    <2>7. /\ Typed(g, n + 1)
          /\ g # <<>>
          /\ Len(g) = n + 1
          /\ DOMAIN g = 1 .. n + 1
      BY <2>4, <2>5, <2>6, AppendTyped
    <2>. QED
      BY <1>1, <1>3, <2>2, <2>7
  <1>. QED
    BY <1>2, <1>3

\* Entering a sub-message.
LEMMA EnterSubMessageTyped ==
    ASSUME TypeInv, pc = "len", field.type = "message", NEW size \in Nat,
           EnterSubMessage(size),
           field' = field, consumed' = consumed + 1, ragged' = ragged
    PROVE  TypeInv'
  <1> DEFINE m == Top.msg
             n == Len(heap)
             c == SubMessage(m, field)
             frame == [msg |-> c, via |-> field,
                       start |-> consumed + 1, size |-> size]
  <1>1. /\ field \in Fields(heap[m].type)
        /\ consumed \in Nat
        /\ field \in FieldDescriptors
    BY DEF TypeInv, FieldOK, ControlOK
  <1>2. /\ m \in DOMAIN heap
        /\ n \in Nat
        /\ DOMAIN heap = 1 .. n
        /\ heap # <<>>
        /\ Typed(heap, n)
        /\ Len(stack) \in Nat \ {0}
        /\ stack \in Seq(Frames)
    BY TopTyped DEF TypeInv, HeapOK, ControlOK
  <1>3. \/ /\ ~ field.repeated /\ heap[m].val[field.num] # 0
           /\ heap' = heap
           /\ c = heap[m].val[field.num]
        \/ /\ heap' = Append(Store(heap, m, field, c), NewMessage(field.sub))
           /\ c = n + 1
    BY DEF EnterSubMessage, SubMessage, IsMerge
  <1>4. /\ stack' = Append(stack, frame)
        /\ spans' = spans \cup {[from |-> consumed, to |-> consumed + 1 + size]}
        /\ pc' = "loop"
        /\ rd' = NewVarint
        /\ result' = result
    BY DEF EnterSubMessage
  <1> HIDE DEF c
  <1>5. /\ heap' # <<>>
        /\ Typed(heap', Len(heap'))
        /\ DOMAIN heap \subseteq DOMAIN heap'
        /\ c \in DOMAIN heap'
        /\ c > m
    BY <1>1, <1>2, <1>3, SubMessageTyped
  <1>6. c \in Nat \ {0}
    <2>1. DOMAIN heap' = 1 .. Len(heap')
      BY <1>5, LenProperties DEF Typed
    <2>. QED
      BY <1>2, <1>5, <2>1
  <1>7. frame \in Frames
    BY <1>1, <1>6 DEF Frames
  <1> HIDE DEF frame
  <1>8. /\ stack' \in Seq(Frames)
        /\ stack' # <<>>
        /\ Len(stack') = Len(stack) + 1
        /\ \A i \in 1 .. Len(stack) : stack'[i] = stack[i]
        /\ stack'[Len(stack) + 1] = frame
    BY <1>2, <1>4, <1>7, AppendProperties
  <1>9. ControlOK'
    <2>1. spans' \in SUBSET [from : Nat, to : Nat]
      BY <1>1, <1>4 DEF TypeInv, ControlOK
    <2>2. rd' \in [acc : Nat, place : Nat \ {0}, left : Nat]
      BY <1>4, NewCallsTyped DEF Calls
    <2>3. consumed' \in Nat
      BY <1>1
    <2>. QED
      BY <1>1, <1>4, <1>8, <2>1, <2>2, <2>3 DEF TypeInv, ControlOK, Labels
  <1>10. HeapOK'
    BY <1>5 DEF HeapOK
  <1>11. StackOK'
    <2>1. stack[Len(stack)].msg = m
      BY DEF Top
    <2>2. \A i \in 1 .. Len(stack) : stack[i].msg \in Nat /\ stack[i].msg <= m
      BY <1>2, <2>1 DEF TypeInv, StackOK
    <2>3. frame.msg = c
      BY DEF frame
    <2>4. \A i \in 1 .. Len(stack') : stack'[i].msg \in DOMAIN heap'
      <3> SUFFICES ASSUME NEW i \in 1 .. Len(stack')
                   PROVE  stack'[i].msg \in DOMAIN heap'
        OBVIOUS
      <3>1. CASE i = Len(stack) + 1
        BY <1>5, <1>8, <2>3, <3>1
      <3>2. CASE i \in 1 .. Len(stack)
        BY <1>5, <1>8, <3>2 DEF TypeInv, StackOK
      <3>. QED
        BY <1>2, <1>8, <3>1, <3>2
    <2>5. ASSUME NEW i \in 1 .. Len(stack'), NEW j \in 1 .. Len(stack'), i < j
          PROVE  stack'[i].msg < stack'[j].msg
      <3>1. CASE j = Len(stack) + 1
        <4>1. i \in 1 .. Len(stack)
          BY <1>2, <2>5, <3>1
        <4>. QED
          BY <1>2, <1>5, <1>6, <1>8, <2>2, <2>3, <3>1, <4>1
      <3>2. CASE j # Len(stack) + 1
        <4>1. i \in 1 .. Len(stack) /\ j \in 1 .. Len(stack)
          BY <1>2, <1>8, <2>5, <3>2
        <4>. QED
          BY <1>8, <2>5, <4>1 DEF TypeInv, StackOK
      <3>. QED
        BY <3>1, <3>2
    <2>. QED
      BY <2>4, <2>5 DEF StackOK
  <1>12. FieldOK'
    BY <1>4 DEF FieldOK
  <1>. QED
    BY <1>9, <1>10, <1>11, <1>12 DEF TypeInv

\* A Goto outside a field keeps the invariant.
LEMMA GotoStep ==
    ASSUME TypeInv, pc # "done",
           NEW label \in {"loop", "tag", "skip", "skiplen", "skipbytes"},
           NEW call \in Calls, Goto(label, call),
           label = "skipbytes" => call.left # 0,
           heap' = heap, consumed' \in Nat, field' = field, spans' = spans,
           ragged' \in BOOLEAN
    PROVE  TypeInv'
  <1>1. /\ Unwinds
        /\ ControlMoves
        /\ pc' = label
        /\ rd' = call
    BY GotoTyped DEF Labels, Goto
  <1>2. field' \in FieldDescriptors
    BY DEF TypeInv, ControlOK
  <1>. QED
    BY <1>1, <1>2, QuietStep

\* A return keeps the invariant.
LEMMA ReturnStep ==
    ASSUME TypeInv, pc # "done",
           \/ ReturnFalse
           \/ EndOfMessage(consumed)
           \/ EndOfMessage(consumed + 1),
           heap' = heap, consumed' \in Nat, field' = field, spans' = spans,
           ragged' \in BOOLEAN
    PROVE  TypeInv'
  <1>1. Unwinds /\ ControlMoves /\ pc' \in {"loop", "done"}
    BY ReturnTyped, EndOfMessageTyped
  <1>2. field' \in FieldDescriptors
    BY DEF TypeInv, ControlOK
  <1>. QED
    BY <1>1, <1>2, QuietStep

\* Another byte of a field's value or size.
LEMMA MoreStep ==
    ASSUME TypeInv, pc \in {"value", "len"}, NEW call \in Calls,
           Goto(pc, call), heap' = heap, consumed' \in Nat,
           field' = field, spans' = spans, ragged' = ragged
    PROVE  TypeInv'
  <1>1. ControlMoves /\ pc' = pc /\ stack' = stack
    BY GotoTyped DEF Labels, Goto
  <1>2. field \in Fields(heap[Top.msg].type) /\ stack # <<>>
    BY DEF TypeInv, FieldOK, ControlOK
  <1>3. pc' = "len" <=> field'.type \in LenTypes
    BY <1>1 DEF TypeInv, FieldOK
  <1>. QED
    BY <1>1, <1>2, <1>3, FieldStep

\* The reads of tags and of unknown fields.
LEMMA TagByteTyped ==
    ASSUME TypeInv, NEW b \in Byte, TagByte(b)
    PROVE  TypeInv'
  <1>1. /\ pc = "tag"
        /\ heap' = heap
        /\ spans' = spans
        /\ consumed' = consumed + 1
        /\ consumed' \in Nat
        /\ Feed(rd, b) \in Calls
        /\ Feed(rd, b).acc \in Nat
    BY RdTyped DEF CountByte, TagByte, TypeInv, ControlOK
  <1>2. CASE Goto("tag", Feed(rd, b)) /\ UNCHANGED <<field, ragged>>
    BY <1>1, <1>2, GotoStep DEF TypeInv, ControlOK
  <1>3. CASE EndOfMessage(consumed + 1) /\ ragged' = TRUE /\ UNCHANGED field
    BY <1>1, <1>3, ReturnStep
  <1>4. CASE TagDecoded(Feed(rd, b).acc)
    BY <1>1, <1>4, TagDecodedTyped
  <1>. QED
    BY <1>2, <1>3, <1>4 DEF CountByte, TagByte

\* The reads of an unknown varint or fixed-size value.
LEMMA SkipByteTyped ==
    ASSUME TypeInv, NEW b \in Byte, SkipByte(b)
    PROVE  TypeInv'
  <1>1. /\ pc = "skip"
        /\ heap' = heap /\ spans' = spans /\ field' = field
        /\ consumed' \in Nat
        /\ Feed(rd, b) \in Calls
        /\ NewVarint \in Calls
        /\ ragged' \in BOOLEAN
    BY RdTyped, NewCallsTyped DEF CountByte, SkipByte, TypeInv, ControlOK, Overflows
  <1>2. CASE Goto("loop", NewVarint)
    BY <1>1, <1>2, GotoStep
  <1>3. CASE Goto("skip", Feed(rd, b))
    BY <1>1, <1>3, GotoStep
  <1>. QED
    BY <1>2, <1>3 DEF CountByte, SkipByte

\* The reads of the size of an unknown field.
LEMMA SkipLenByteTyped ==
    ASSUME TypeInv, NEW b \in Byte, SkipLenByte(b)
    PROVE  TypeInv'
  <1> DEFINE len == Feed(rd, b).acc
  <1>1. /\ pc = "skiplen"
        /\ heap' = heap /\ spans' = spans /\ field' = field
        /\ consumed' \in Nat
        /\ Feed(rd, b) \in Calls
        /\ len \in Nat
        /\ NewVarint \in Calls
        /\ NewFixed(len) \in Calls
        /\ NewFixed(len).left = len
    BY RdTyped, NewCallsTyped DEF CountByte, SkipLenByte, TypeInv, ControlOK, NewFixed
  <1>2. ragged' \in BOOLEAN
    BY DEF CountByte, SkipLenByte, TypeInv, ControlOK
  <1>3. CASE Goto("skiplen", Feed(rd, b))
    BY <1>1, <1>2, <1>3, GotoStep
  <1>4. CASE Goto("loop", NewVarint)
    BY <1>1, <1>2, <1>4, GotoStep
  <1>5. CASE len = 0 /\ Goto("loop", NewFixed(len))
    BY <1>1, <1>2, <1>5, GotoStep
  <1>6. CASE len # 0 /\ Goto("skipbytes", NewFixed(len))
    BY <1>1, <1>2, <1>6, GotoStep
  <1>. QED
    BY <1>3, <1>4, <1>5, <1>6 DEF CountByte, SkipLenByte

\* The reads of the payload of an unknown field.
LEMMA SkipPayloadTyped ==
    ASSUME TypeInv, SkipPayloadByte \/ SkipPayloadFails
    PROVE  TypeInv'
  <1> DEFINE left == rd.left - 1
  <1>1. /\ pc = "skipbytes"
        /\ heap' = heap /\ spans' = spans /\ field' = field
        /\ consumed' \in Nat
        /\ SkipOne
        /\ rd.left \in Nat \ {0}
    BY DEF CountByte, SkipPayloadByte, SkipPayloadFails, TypeInv, ControlOK, FieldOK
  <1>2. ragged' \in BOOLEAN
    BY DEF CountByte, SkipPayloadByte, SkipPayloadFails, TypeInv, ControlOK
  <1>3. left \in Nat /\ (rd.left # 1 => left # 0)
    BY <1>1
  <1>4. NewFixed(left) \in Calls /\ NewFixed(left).left = left
    BY <1>3, NewCallsTyped DEF NewFixed
  <1>5. CASE rd.left = 1 /\ Goto("loop", NewFixed(left))
    BY <1>1, <1>2, <1>4, <1>5, GotoStep
  <1>6. CASE rd.left # 1 /\ Goto("skipbytes", NewFixed(left))
    BY <1>1, <1>2, <1>3, <1>4, <1>6, GotoStep
  <1>. QED
    BY <1>1, <1>5, <1>6 DEF SkipOne

\* The reads of a field's value and of its size.
LEMMA ValueByteTyped ==
    ASSUME TypeInv, CallFits, NEW b \in Byte, ValueByte(b)
    PROVE  TypeInv'
  <1>0. Feed(rd, b).acc \in 0 .. (U64 - 1)
    <2>1. Feed(rd, b).acc \in Nat
      BY RdTyped
    <2>2. Fits(Feed(rd, b))
      BY FeedFits DEF CallFits, ValueByte
    <2>. QED
      BY <2>1, <2>2, WireAssumption DEF Fits
  <1>1. /\ pc = "value"
        /\ spans' = spans /\ field' = field /\ ragged' = ragged
        /\ consumed' \in Nat
        /\ Feed(rd, b) \in Calls
        /\ ragged' \in BOOLEAN
    BY RdTyped DEF CountByte, ValueByte, TypeInv, ControlOK
  <1>2. CASE Goto("value", Feed(rd, b)) /\ UNCHANGED heap
    BY <1>1, <1>2, MoreStep
  <1>3. CASE ReturnFalse /\ UNCHANGED heap
    BY <1>1, <1>3, ReturnStep
  <1>4. CASE /\ heap' = Store(heap, Top.msg, field,
                              Convert(field.type, Feed(rd, b).acc))
             /\ Goto("loop", NewVarint)
    BY <1>0, <1>1, <1>4, ValueStoredTyped
  <1>. QED
    BY <1>2, <1>3, <1>4 DEF CountByte, ValueByte

\* The reads of the size of a string or a sub-message.
LEMMA LenByteTyped ==
    ASSUME TypeInv, NEW b \in Byte, LenByte(b)
    PROVE  TypeInv'
  <1> DEFINE size == Feed(rd, b).acc
  <1>1. /\ pc = "len"
        /\ field' = field /\ ragged' = ragged
        /\ consumed' = consumed + 1
        /\ consumed' \in Nat
        /\ Feed(rd, b) \in Calls
        /\ size \in Nat
        /\ ragged' \in BOOLEAN
    BY RdTyped DEF CountByte, LenByte, TypeInv, ControlOK
  <1>2. CASE Goto("len", Feed(rd, b)) /\ UNCHANGED <<heap, spans>>
    BY <1>1, <1>2, MoreStep
  <1>3. CASE ReturnFalse /\ UNCHANGED <<heap, spans>>
    BY <1>1, <1>3, ReturnStep
  <1>4. CASE field.type = "string" /\ EnterString(size)
    BY <1>1, <1>4, EnterStringTyped DEF EnterString
  <1>5. CASE field.type = "message" /\ EnterSubMessage(size)
    BY <1>1, <1>5, EnterSubMessageTyped
  <1>. QED
    BY <1>2, <1>3, <1>4, <1>5 DEF CountByte, LenByte

\* A Read that fails.
LEMMA ReadFailsTyped ==
    ASSUME TypeInv, ReadFails
    PROVE  TypeInv'
  <1>1. CASE TagFails
    <2>1. ragged' \in BOOLEAN
      BY <1>1 DEF TagFails, TypeInv, ControlOK
    <2>2. /\ pc = "tag" /\ EndOfMessage(consumed)
          /\ heap' = heap /\ spans' = spans /\ field' = field
          /\ consumed' \in Nat
      BY <1>1 DEF TagFails, TypeInv, ControlOK
    <2>. QED
      BY <2>1, <2>2, ReturnStep
  <1>2. CASE SkipFails
    BY <1>2, NewCallsTyped, GotoStep DEF SkipFails, TypeInv, ControlOK
  <1>3. CASE SkipPayloadFails
    BY <1>3, SkipPayloadTyped
  <1>4. CASE FieldFails
    BY <1>4, ReturnStep DEF FieldFails, TypeInv, ControlOK
  <1>. QED
    BY <1>1, <1>2, <1>3, <1>4 DEF ReadFails

\* The test at the head of the loop.
LEMMA LoopHeadTyped ==
    ASSUME TypeInv, LoopHead
    PROVE  TypeInv'
  <1>1. /\ pc = "loop"
        /\ heap' = heap /\ spans' = spans /\ field' = field
        /\ consumed' \in Nat
        /\ ragged' \in BOOLEAN
    BY DEF LoopHead, TypeInv, ControlOK
  <1>2. CASE Goto("tag", NewVarint)
    BY <1>1, <1>2, NewCallsTyped, GotoStep
  <1>3. CASE EndOfMessage(consumed)
    BY <1>1, <1>3, ReturnStep
  <1>. QED
    BY <1>2, <1>3 DEF LoopHead

\* The type invariant is inductive.
LEMMA NextTyped == TypeInv /\ CallFits /\ [Next]_vars => TypeInv'
  <1> SUFFICES ASSUME TypeInv, CallFits, [Next]_vars PROVE TypeInv'
    OBVIOUS
  <1>1. CASE LoopHead
    BY <1>1, LoopHeadTyped
  <1>2. ASSUME NEW b \in InBytes, ReadByte(b)
        PROVE  TypeInv'
    <2>1. b \in Byte
      BY DecoderAssumption
    <2>. QED
      BY <1>2, <2>1, TagByteTyped, SkipByteTyped, SkipLenByteTyped,
         SkipPayloadTyped, ValueByteTyped, LenByteTyped, StringByteTyped
         DEF ReadByte
  <1>3. CASE ReadFails
    BY <1>3, ReadFailsTyped
  <1>4. CASE UNCHANGED vars
    BY <1>4 DEF vars, TypeInv, ControlOK, HeapOK, Typed, StackOK, FieldOK, Top
  <1>. QED
    BY <1>1, <1>2, <1>3, <1>4 DEF Next

LEMMA AlwaysTyped == Spec => []TypeInv
  BY InitTyped, NextTyped, CallAlwaysFits, PTL DEF Spec

\* Whatever bytes the stream delivers, and whenever it fails, the decoder's
\* state stays well-formed: in particular it only stores values of the C++ type
\* of the field, in a message that has that field, and only younger messages
\* are owned by older ones (Set..., AddRepeated... and Mutable... of
\* reflection.h).
THEOREM TypeCorrect == Spec => []TypeOK
  <1>1. TypeInv => TypeOK
    BY DEF TypeInv, TypeOK
  <1>. QED
    BY <1>1, AlwaysTyped, PTL

-----------------------------------------------------------------------------
(* Every step stays in the innermost activation, returns from it, or       *)
(* enters a sub-message.                                                   *)

ReadsAtMostOne == consumed' \in {consumed, consumed + 1}

Stays ==
    /\ pc # "done"
    /\ stack' = stack
    /\ spans' = spans
    /\ result' = result
    /\ ReadsAtMostOne
    /\ pc' = "len" => pc = "len" \/ consumed' = consumed + 1
    /\ \A k \in DOMAIN heap : k # Top.msg => heap'[k] = heap[k]

Returns ==
    /\ pc # "done"
    /\ EndOfMessage(consumed') \/ ReturnFalse
    /\ spans' = spans
    /\ heap' = heap
    /\ ReadsAtMostOne

Enters(size) ==
    /\ pc = "len"
    /\ field.type = "message"
    /\ size < U32
    /\ consumed' = consumed + 1
    /\ field' = field
    /\ ragged' = ragged
    /\ EnterSubMessage(size)

\* Assign leaves every other message as it was.
LEMMA AssignChangesOneMessage ==
    ASSUME NEW m, NEW num, NEW v, heap' = Assign(heap, m, num, v)
    PROVE  \A k \in DOMAIN heap : k # m => heap'[k] = heap[k]
  BY DEF Assign

\* Every step of the decoder is of one of the three kinds.
LEMMA StepKinds ==
    ASSUME TypeInv, Next
    PROVE  Stays \/ Returns \/ \E size \in Nat : Enters(size)
  <1>1. CASE LoopHead
    BY <1>1 DEF LoopHead, Stays, Returns, Goto, ReadsAtMostOne
  <1>2. CASE ReadFails
    BY <1>2 DEF ReadFails, TagFails, SkipFails, SkipPayloadFails, SkipOne,
       FieldFails, Stays, Returns, Goto, ReadsAtMostOne
  <1>3. ASSUME NEW b \in InBytes, ReadByte(b)
        PROVE  Stays \/ Returns \/ \E size \in Nat : Enters(size)
    <2>1. b \in Byte /\ Feed(rd, b).acc \in Nat
      BY DecoderAssumption, RdTyped
    <2>2. CASE TagByte(b)
      <3>1. ASSUME NEW tag, TagDecoded(tag)
            PROVE  Stays \/ Returns
        BY <2>2, <3>1 DEF CountByte, TagByte, TagDecoded, DecodeField, SkipUnknownField,
           Stays, Returns, Goto, ReadsAtMostOne
      <3>2. CASE EndOfMessage(consumed + 1)
        BY <2>2, <3>2 DEF CountByte, TagByte, Returns, ReadsAtMostOne
      <3>3. CASE Goto("tag", Feed(rd, b))
        BY <2>2, <3>3 DEF CountByte, TagByte, Goto, Stays, ReadsAtMostOne
      <3>. QED
        BY <2>2, <3>1, <3>2, <3>3 DEF CountByte, TagByte
    <2>3. CASE SkipByte(b) \/ SkipLenByte(b) \/ SkipPayloadByte
      BY <2>3 DEF CountByte, SkipByte, SkipLenByte, SkipPayloadByte, SkipOne, Stays, Goto,
         ReadsAtMostOne
    <2>4. CASE ValueByte(b)
      BY <2>4, AssignChangesOneMessage
         DEF CountByte, ValueByte, Store, Stays, Returns, Goto, ReadsAtMostOne
    <2>5. CASE StringByte(b)
      BY <2>5, AssignChangesOneMessage
         DEF CountByte, StringByte, PushBack, Stays, Goto, ReadsAtMostOne
    <2>6. CASE LenByte(b)
      <3> DEFINE size == Feed(rd, b).acc
      <3>1. CASE Goto("len", Feed(rd, b)) /\ UNCHANGED <<heap, spans>>
        BY <2>6, <3>1 DEF CountByte, LenByte, Stays, Goto, ReadsAtMostOne
      <3>2. CASE ReturnFalse /\ UNCHANGED <<heap, spans>>
        BY <2>6, <3>2 DEF CountByte, LenByte, Returns, ReadsAtMostOne
      <3>3. CASE EnterString(size)
        BY <2>6, <3>3, AssignChangesOneMessage
           DEF CountByte, LenByte, EnterString, Store, Stays, Goto, ReadsAtMostOne
      <3>4. CASE /\ Ends(rd, b) /\ ~ TooBig(rd, b)
                 /\ field.type = "message"
                 /\ EnterSubMessage(size)
        <4>1. size < U32
          BY <2>1, <3>4, WireAssumption DEF TooBig
        <4>. QED
          BY <2>1, <2>6, <3>4, <4>1 DEF CountByte, LenByte, Enters
      <3>. QED
        BY <2>6, <3>1, <3>2, <3>3, <3>4 DEF CountByte, LenByte
    <2>. QED
      BY <1>3, <2>2, <2>3, <2>4, <2>5, <2>6 DEF ReadByte
  <1>. QED
    BY <1>1, <1>2, <1>3 DEF Next

\* A return pops one activation or all of them.
LEMMA ReturnsPops ==
    ASSUME TypeInv, Returns
    PROVE  /\ Unwinds
           /\ pc' \in {"loop", "done"}
           /\ stack' = <<>> <=> pc' = "done"
           /\ Len(stack') \in Nat
           /\ Len(stack) \in Nat \ {0}
           /\ stack' # <<>> => Len(stack') = Len(stack) - 1
           /\ \/ result' = "false"
              \/ /\ Len(stack') = Len(stack) - 1
                 /\ Top.size = SIZE_MAX \/ consumed' - Top.start = Top.size
  <1>1. /\ Unwinds
        /\ pc' \in {"loop", "done"}
        /\ stack' = <<>> <=> pc' = "done"
    BY ReturnTyped DEF Returns, EndOfMessage, ControlMoves
  <1>2. Len(stack) \in Nat \ {0}
    BY TopTyped DEF Returns
  <1>3. CASE ReturnFalse
    BY <1>1, <1>2, <1>3 DEF ReturnFalse
  <1>4. CASE ReturnTrue /\ (Top.size = SIZE_MAX \/ consumed' - Top.start = Top.size)
    <2>1. CASE Len(stack) = 1
      BY <1>1, <1>2, <1>4, <2>1 DEF ReturnTrue
    <2>2. CASE Len(stack) # 1
      <3>1. Len(stack) > 1
        BY <1>2, <2>2
      <3>2. Len(stack') = Len(stack) - 1
        BY <1>4, <2>2, <3>1, PopProperties DEF ReturnTrue, TypeInv, ControlOK
      <3>. QED
        BY <1>1, <1>2, <1>4, <3>1, <3>2
    <2>. QED
      BY <2>1, <2>2
  <1>. QED
    BY <1>3, <1>4 DEF Returns, EndOfMessage

\* What entering a sub-message does to the stack.
LEMMA EntersPushes ==
    ASSUME TypeInv, NEW size \in Nat, Enters(size)
    PROVE  /\ Len(stack) \in Nat \ {0}
           /\ Len(stack') = Len(stack) + 1
           /\ \A i \in 1 .. Len(stack) : stack'[i] = stack[i]
           /\ stack'[Len(stack) + 1] =
                [msg |-> SubMessage(Top.msg, field), via |-> field,
                 start |-> consumed + 1, size |-> size]
           /\ spans' = spans \cup
                {[from |-> consumed, to |-> consumed + 1 + size]}
           /\ pc' = "loop"
           /\ result' = result
           /\ consumed' = consumed + 1
  <1> DEFINE frame == [msg |-> SubMessage(Top.msg, field), via |-> field,
                       start |-> consumed + 1, size |-> size]
  <1>1. /\ stack' = Append(stack, frame)
        /\ spans' = spans \cup {[from |-> consumed, to |-> consumed + 1 + size]}
        /\ pc' = "loop"
        /\ result' = result
        /\ consumed' = consumed + 1
    BY DEF Enters, EnterSubMessage
  <1>2. stack \in Seq(Frames) /\ Len(stack) \in Nat \ {0}
    BY TopTyped DEF Enters, TypeInv, ControlOK
  <1> HIDE DEF frame
  <1>3. stack \in Seq(Frames \cup {frame})
    BY <1>2, SeqMonotonic
  <1>4. /\ Len(stack') = Len(stack) + 1
        /\ \A i \in 1 .. Len(stack) : stack'[i] = stack[i]
        /\ stack'[Len(stack) + 1] = frame
    BY <1>1, <1>3, AppendProperties
  <1>. QED
    BY <1>1, <1>2, <1>4 DEF frame

-----------------------------------------------------------------------------
(* The depth of the recursion.  An activation past the first costs the     *)
(* byte of a tag and the byte of a size; while the size is being read the  *)
(* tag has been paid for.                                                  *)

DepthInv ==
    stack # <<>> =>
        2 * Len(stack) + (IF pc = "len" THEN 1 ELSE 0) <= consumed + 2

\* For every schema and every input, DecodeMessage has at most one activation
\* on the C++ stack for every two bytes read (decoder.cc:353, where it recurs).
THEOREM DepthIsBounded == Spec => []DepthBound
  <1>1. Init => DepthInv
    BY DEF Init, DepthInv
  <1>2. ASSUME TypeInv, DepthInv, [Next]_vars
        PROVE  DepthInv'
    <2>1. consumed \in Nat
      BY <1>2 DEF TypeInv, ControlOK
    <2>2. CASE Stays
      <3>1. Len(stack) \in Nat \ {0} /\ stack # <<>>
        BY <1>2, <2>2, TopTyped DEF Stays, TypeInv, ControlOK
      <3>. QED
        BY <1>2, <2>1, <2>2, <3>1 DEF Stays, DepthInv, ReadsAtMostOne
    <2>3. CASE Returns
      <3>1. /\ stack' # <<>> => Len(stack') = Len(stack) - 1
            /\ pc' # "len"
            /\ Len(stack) \in Nat
            /\ stack # <<>>
            /\ consumed' \in Nat
            /\ consumed' >= consumed
        BY <1>2, <2>1, <2>3, ReturnsPops
           DEF Returns, ReadsAtMostOne, TypeInv, ControlOK
      <3>. QED
        BY <1>2, <2>1, <3>1 DEF DepthInv
    <2>4. ASSUME NEW size \in Nat, Enters(size)
          PROVE  DepthInv'
      <3>1. /\ Len(stack') = Len(stack) + 1
            /\ Len(stack) \in Nat
            /\ pc = "len" /\ pc' = "loop"
            /\ stack # <<>>
            /\ consumed' = consumed + 1
        BY <1>2, <2>4, EntersPushes DEF Enters, TypeInv, ControlOK
      <3>. QED
        BY <1>2, <2>1, <3>1 DEF DepthInv
    <2>5. CASE UNCHANGED vars
      BY <1>2, <2>5 DEF DepthInv, vars
    <2>. QED
      BY <1>2, <2>2, <2>3, <2>4, <2>5, StepKinds
  <1>3. TypeInv /\ DepthInv => DepthBound
    <2> SUFFICES ASSUME TypeInv, DepthInv PROVE DepthBound
      OBVIOUS
    <2>1. consumed \in Nat /\ Len(<<>>) = 0
      BY DEF TypeInv, ControlOK
    <2>2. CASE stack = <<>>
      BY <2>1, <2>2 DEF DepthBound
    <2>3. CASE stack # <<>>
      <3>1. Len(stack) \in Nat
        BY DEF TypeInv, ControlOK
      <3>. QED
        BY <2>1, <2>3, <3>1 DEF DepthBound, DepthInv
    <2>. QED
      BY <2>2, <2>3
  <1>. QED
    BY <1>1, <1>2, <1>3, AlwaysTyped, PTL DEF Spec

-----------------------------------------------------------------------------
(* Suspended activations.                                                  *)

\* However the message objects grow while sub-messages are decoded, the
\* pointer each activation works through still is the sub-message of the
\* field it was entered from (decoder.cc:347-358): an activation only changes
\* its own message, which is younger than those of the activations below it.
THEOREM PointersStayLive == Spec => []FramePointersLive
  <1>1. ASSUME Init
        PROVE  FramePointersLive
    <2> DEFINE frame == [msg |-> 1, via |-> field, start |-> 0, size |-> SIZE_MAX]
    <2>1. stack = <<frame>>
      BY <1>1 DEF Init
    <2> HIDE DEF frame
    <2>2. Len(stack) = 1
      BY <2>1
    <2>. QED
      BY <2>2 DEF FramePointersLive
  <1>2. ASSUME TypeInv, FramePointersLive, [Next]_vars
        PROVE  FramePointersLive'
    <2>1. \A i \in 2 .. Len(stack) : Holds(heap[stack[i - 1].msg], stack[i])
      BY <1>2 DEF FramePointersLive
    <2>2. CASE UNCHANGED vars
      BY <1>2, <2>2 DEF FramePointersLive, vars
    <2>3. CASE Stays \/ Returns
      <3>1. /\ Len(stack') \in Nat
            /\ Len(stack') <= Len(stack)
            /\ Len(stack) \in Nat
            /\ \A i \in 1 .. Len(stack') : stack'[i] = stack[i]
        BY <1>2, <2>3, ReturnsPops, TopTyped DEF Stays, Unwinds
      <3>2. ASSUME NEW i \in 2 .. Len(stack')
            PROVE  heap'[stack[i - 1].msg] = heap[stack[i - 1].msg]
        <4>1. i - 1 \in 1 .. Len(stack) /\ i - 1 < Len(stack)
          BY <3>1
        <4>2. stack[i - 1].msg \in DOMAIN heap /\ stack[i - 1].msg # Top.msg
          <5>1. DOMAIN heap \subseteq Nat
            BY <1>2 DEF TypeInv, HeapOK, Typed
          <5>2. Len(stack) \in 1 .. Len(stack)
            BY <3>1, <4>1
          <5>. QED
            BY <1>2, <4>1, <5>1, <5>2 DEF TypeInv, StackOK, Top
        <4>. QED
          BY <2>3, <4>2 DEF Stays, Returns
      <3>3. ASSUME NEW i \in 2 .. Len(stack')
            PROVE  Holds(heap'[stack'[i - 1].msg], stack'[i])
        <4>1. /\ i \in 2 .. Len(stack)
              /\ i \in 1 .. Len(stack')
              /\ i - 1 \in 1 .. Len(stack')
          BY <3>1
        <4>2. stack'[i] = stack[i] /\ stack'[i - 1] = stack[i - 1]
          BY <3>1, <4>1
        <4>3. Holds(heap[stack[i - 1].msg], stack[i])
          BY <2>1, <4>1
        <4>. QED
          BY <3>2, <4>2, <4>3
      <3>. QED
        BY <3>3 DEF FramePointersLive
    <2>4. ASSUME NEW size \in Nat, Enters(size)
          PROVE  FramePointersLive'
      <3> DEFINE m == Top.msg
                 c == SubMessage(m, field)
      <3>1. /\ pc # "done"
            /\ field \in Fields(heap[m].type)
            /\ field.type = "message"
        BY <1>2, <2>4 DEF Enters, TypeInv, FieldOK
      <3>2. /\ Len(stack) \in Nat \ {0}
            /\ m \in DOMAIN heap
            /\ DOMAIN heap = 1 .. Len(heap)
            /\ Len(heap) \in Nat
            /\ heap # <<>>
            /\ Typed(heap, Len(heap))
        BY <1>2, <3>1, TopTyped DEF TypeInv, HeapOK
      <3>3. /\ Len(stack') = Len(stack) + 1
            /\ \A i \in 1 .. Len(stack) : stack'[i] = stack[i]
            /\ stack'[Len(stack) + 1].msg = c
            /\ stack'[Len(stack) + 1].via = field
        <4>1. /\ Len(stack') = Len(stack) + 1
              /\ \A i \in 1 .. Len(stack) : stack'[i] = stack[i]
              /\ stack'[Len(stack) + 1] =
                   [msg |-> c, via |-> field, start |-> consumed + 1, size |-> size]
          BY <1>2, <2>4, EntersPushes
        <4> HIDE DEF c
        <4>. QED
          BY <4>1
      <3>4. /\ \A k \in DOMAIN heap : k # m => heap'[k] = heap[k]
            /\ IF field.repeated
               THEN /\ heap'[m].val[field.num] # <<>>
                    /\ heap'[m].val[field.num][Len(heap'[m].val[field.num])] = c
               ELSE heap'[m].val[field.num] = c
        <4>1. CASE IsMerge(m, field)
          BY <2>4, <4>1 DEF Enters, EnterSubMessage, SubMessage, IsMerge
        <4>2. CASE ~ IsMerge(m, field)
          <5> DEFINE old == heap[m].val[field.num]
                     n == Len(heap)
                     w == Added(field, old, c)
                     s == Assign(heap, m, field.num, w)
          <5>1. c = n + 1
            BY <4>2 DEF SubMessage
          <5> HIDE DEF c
          <5>2. Typed(heap, n + 1)
            BY <3>2, TypedGrows
          <5>3. c \in Elements(field, m, n + 1)
            BY <3>1, <3>2, <5>1 DEF Elements
          <5>4. w \in Values(field, m, n + 1) /\ (field.repeated => w # <<>>)
            BY <3>1, <3>2, <5>2, <5>3, StoreTyped
          <5>5. IF field.repeated THEN w[Len(w)] = c ELSE w = c
            <6>1. CASE field.repeated
              <7>1. old \in Seq(Elements(field, m, n + 1))
                BY <3>1, <3>2, <5>2, <6>1 DEF Typed, Values
              <7> HIDE DEF old
              <7>2. /\ Append(old, c)[Len(old) + 1] = c
                    /\ Len(Append(old, c)) = Len(old) + 1
                BY <5>3, <7>1, AppendProperties
              <7>. QED
                BY <6>1, <7>2 DEF Added
            <6>2. CASE ~ field.repeated
              BY <6>2 DEF Added
            <6>. QED
              BY <6>1, <6>2
          <5> HIDE DEF w
          <5>6. /\ Typed(s, n + 1)
                /\ DOMAIN s = DOMAIN heap
                /\ \A k \in DOMAIN heap : k # m => s[k] = heap[k]
                /\ s[m].val[field.num] = w
            BY <3>1, <3>2, <5>2, <5>4, AssignTyped
          <5>7. heap' = Append(s, NewMessage(field.sub))
            BY <2>4, <4>2 DEF Enters, EnterSubMessage, Store, w, c
          <5>8. field.sub \in DOMAIN Schema
            BY <3>1, <3>2, FieldsAreDescriptors DEF FieldDescriptors, Typed
          <5> HIDE DEF s
          <5>9. \A k \in DOMAIN s : heap'[k] = s[k]
            BY <3>2, <5>6, <5>7, <5>8, AppendTyped
          <5>. QED
            BY <3>2, <5>4, <5>5, <5>6, <5>9
        <4>. QED
          BY <4>1, <4>2
      <3> HIDE DEF c
      <3>5. ASSUME NEW i \in 2 .. Len(stack')
            PROVE  Holds(heap'[stack'[i - 1].msg], stack'[i])
        <4>1. CASE i = Len(stack) + 1
          <5>1. stack'[i - 1].msg = m
            BY <3>2, <3>3, <4>1 DEF Top
          <5>. QED
            BY <3>3, <3>4, <4>1, <5>1 DEF Holds
        <4>2. CASE i # Len(stack) + 1
          <5>1. /\ i \in 2 .. Len(stack)
                /\ i - 1 \in 1 .. Len(stack)
                /\ i - 1 < Len(stack)
                /\ Len(stack) \in 1 .. Len(stack)
            BY <3>2, <3>3, <4>2
          <5>2. stack[i - 1].msg \in DOMAIN heap /\ stack[i - 1].msg # m
            BY <1>2, <3>2, <5>1 DEF TypeInv, StackOK, Top
          <5>3. stack'[i] = stack[i] /\ stack'[i - 1] = stack[i - 1]
            BY <3>3, <5>1
          <5>4. Holds(heap[stack[i - 1].msg], stack[i])
            BY <2>1, <5>1
          <5>5. heap'[stack[i - 1].msg] = heap[stack[i - 1].msg]
            BY <3>4, <5>2
          <5>. QED
            BY <5>3, <5>4, <5>5
        <4>. QED
          BY <4>1, <4>2
      <3>. QED
        BY <3>5 DEF FramePointersLive
    <2>. QED
      BY <1>2, <2>2, <2>3, <2>4, StepKinds
  <1>. QED
    BY <1>1, <1>2, AlwaysTyped, PTL DEF Spec

-----------------------------------------------------------------------------
(* Nesting of the sub-messages.  A sub-message is active while the decoder *)
(* is in it: only then may it reach past the bytes read so far, or fail to *)
(* contain a sub-message that starts inside it.  The return from it checks *)
(* that it ends where it was declared to end.                              *)

SpanOf(fr) == [from |-> fr.start - 1, to |-> fr.start + fr.size]

\* The activations st are in the sub-message s.
Active(st, s) == \E i \in 2 .. Len(st) : s = SpanOf(st[i])

StartsGrow ==
    /\ \A i \in 1 .. Len(stack) : stack[i].start <= consumed
    /\ \A i, j \in 1 .. Len(stack) : i < j => stack[i].start < stack[j].start
    /\ \A i \in 2 .. Len(stack) : stack[i].size < U32

SpansInv ==
    result # "false" =>
        /\ \A s \in spans : s.from < consumed
        /\ \A s \in spans : Active(stack, s) \/ s.to <= consumed
        /\ \A s, t \in spans :
            s.from <= t.from => Active(stack, s) \/ s.to <= t.from \/ t.to <= s.to

SpanInv == StartsGrow /\ SpansInv

\* The arithmetic facts about frames and spans that the steps below use.
LEMMA SpanTyped ==
    ASSUME TypeInv
    PROVE  /\ consumed \in Nat
           /\ Len(stack) \in Nat
           /\ \A i \in 1 .. Len(stack) : stack[i].start \in Nat /\ stack[i].size \in Nat
           /\ \A s \in spans : s.from \in Nat /\ s.to \in Nat
  <1>1. /\ consumed \in Nat
        /\ stack \in Seq(Frames)
        /\ spans \in SUBSET [from : Nat, to : Nat]
    BY DEF TypeInv, ControlOK
  <1>2. \A i \in 1 .. Len(stack) : stack[i] \in Frames
    BY <1>1
  <1>. QED
    BY <1>1, <1>2 DEF Frames

\* The order in which the activations started is kept by every step.
LEMMA StartsKeepGrowing ==
    ASSUME TypeInv, StartsGrow, Next
    PROVE  StartsGrow'
  <1>1. CASE Stays
    BY <1>1, SpanTyped DEF Stays, StartsGrow, ReadsAtMostOne
  <1>2. CASE Returns
    <2>1. /\ Len(stack') \in Nat
          /\ Len(stack') <= Len(stack)
          /\ \A i \in 1 .. Len(stack') : stack'[i] = stack[i]
          /\ consumed' >= consumed
          /\ consumed' \in Nat
      BY <1>2, ReturnsPops, SpanTyped DEF Unwinds, Returns, ReadsAtMostOne
    <2>2. \A i \in 1 .. Len(stack') : i \in 1 .. Len(stack)
      BY <2>1, SpanTyped
    <2>3. \A i \in 1 .. Len(stack') : stack'[i].start <= consumed'
      BY <2>1, <2>2, SpanTyped DEF StartsGrow
    <2>4. \A i, j \in 1 .. Len(stack') :
              i < j => stack'[i].start < stack'[j].start
      BY <2>1, <2>2 DEF StartsGrow
    <2>5. \A i \in 2 .. Len(stack') : i \in 2 .. Len(stack)
      BY <2>1, SpanTyped
    <2>6. \A i \in 2 .. Len(stack') : stack'[i].size < U32
      BY <2>1, <2>5 DEF StartsGrow
    <2>. QED
      BY <2>3, <2>4, <2>6 DEF StartsGrow
  <1>3. ASSUME NEW size \in Nat, Enters(size)
        PROVE  StartsGrow'
    <2> DEFINE n == Len(stack) + 1
    <2>1. /\ Len(stack') = n
          /\ Len(stack) \in Nat \ {0}
          /\ \A i \in 1 .. Len(stack) : stack'[i] = stack[i]
          /\ stack'[n].start = consumed + 1
          /\ stack'[n].size = size
          /\ size < U32
          /\ consumed' = consumed + 1
      <3>1. stack'[n] = [msg |-> SubMessage(Top.msg, field), via |-> field,
                         start |-> consumed + 1, size |-> size]
        BY <1>3, EntersPushes
      <3>2. stack'[n].start = consumed + 1 /\ stack'[n].size = size
        BY <3>1
      <3>. QED
        BY <1>3, <3>2, EntersPushes DEF Enters
    <2> HIDE DEF n
    <2>2. \A i \in 1 .. n : i = n \/ i \in 1 .. Len(stack)
      BY <2>1 DEF n
    <2>3. \A i \in 2 .. n : i = n \/ i \in 2 .. Len(stack)
      BY <2>1 DEF n
    <2>5. ASSUME NEW i \in 1 .. n
          PROVE  stack'[i].start <= consumed'
      <3>1. CASE i = n
        BY <2>1, <3>1, SpanTyped
      <3>2. CASE i \in 1 .. Len(stack)
        <4>1. /\ stack[i].start <= consumed
              /\ stack[i].start \in Nat /\ consumed \in Nat
          BY <3>2, SpanTyped DEF StartsGrow
        <4>. QED
          BY <2>1, <3>2, <4>1
      <3>. QED
        BY <2>2, <3>1, <3>2
    <2>6. ASSUME NEW i \in 1 .. n, NEW j \in 1 .. n, i < j
          PROVE  stack'[i].start < stack'[j].start
      <3>1. i \in 1 .. Len(stack)
        BY <2>1, <2>6 DEF n
      <3>2. CASE j = n
        BY <2>1, <3>1, <3>2, SpanTyped DEF StartsGrow
      <3>3. CASE j \in 1 .. Len(stack)
        BY <2>1, <2>6, <3>1, <3>3 DEF StartsGrow
      <3>. QED
        BY <2>2, <3>2, <3>3
    <2>7. \A i \in 2 .. n : stack'[i].size < U32
      <3>1. \A i \in 2 .. Len(stack) : stack'[i].size < U32
        BY <2>1 DEF StartsGrow
      <3>. QED
        BY <2>1, <2>3, <3>1
    <2>. QED
      BY <2>1, <2>5, <2>6, <2>7 DEF StartsGrow
  <1>. QED
    BY <1>1, <1>2, <1>3, StepKinds

\* While no activation ends, the active sub-messages stay active.
LEMMA SpansStay ==
    ASSUME TypeInv, SpansInv, Stays
    PROVE  SpansInv'
  <1>1. /\ result # "false"
        /\ \A s \in spans : Active(stack, s) => Active(stack', s)
        /\ consumed' \in Nat /\ consumed' >= consumed
        /\ spans' = spans
    BY SpanTyped DEF Stays, TypeInv, ControlOK, ReadsAtMostOne
  <1>. QED
    BY <1>1, SpanTyped DEF SpansInv

\* The sub-message that an activation returns from ends at the last byte read,
\* so it contains everything that was read since it started.
LEMMA SpansReturn ==
    ASSUME TypeInv, StartsGrow, SpansInv, Returns, U32 <= SIZE_MAX
    PROVE  SpansInv'
  <1> SUFFICES ASSUME result' # "false"
               PROVE  SpansInv'
    BY DEF SpansInv
  <1> DEFINE n == Len(stack)
             last == SpanOf(stack[n])
  <1>1. /\ result # "false"
        /\ consumed' \in Nat /\ consumed' >= consumed
        /\ spans' = spans
        /\ n \in Nat \ {0}
        /\ Len(stack') = n - 1
        /\ \A i \in 1 .. n - 1 : stack'[i] = stack[i]
        /\ stack[n].size = SIZE_MAX \/ consumed' - stack[n].start = stack[n].size
    BY ReturnsPops, SpanTyped
       DEF Returns, TypeInv, ControlOK, Unwinds, ReadsAtMostOne, Top
  <1>2. \A s \in spans : Active(stack, s) => Active(stack', s) \/ (s = last /\ n > 1)
    BY <1>1 DEF Active
  <1>3. n > 1 => last.to = consumed'
    BY <1>1, SpanTyped, WireAssumption, DecoderAssumption
       DEF StartsGrow, SpanOf
  <1>4. ASSUME NEW t \in spans, n > 1, last.from <= t.from
        PROVE  t.to <= consumed'
    <2>1. CASE Active(stack, t)
      <3>1. PICK i \in 2 .. n : t = SpanOf(stack[i])
        BY <2>1 DEF Active
      <3>2. stack[n].start <= stack[i].start
        BY <1>1, <1>4, <3>1, SpanTyped DEF SpanOf
      <3>3. i = n
        BY <1>1, <1>4, <3>2, SpanTyped DEF StartsGrow
      <3>. QED
        BY <1>1, <1>3, <1>4, <3>1, <3>3
    <2>2. CASE ~ Active(stack, t)
      BY <1>1, <1>4, <2>2, SpanTyped DEF SpansInv
    <2>. QED
      BY <2>1, <2>2
  <1> HIDE DEF last, n
  <1>5. \A s \in spans : s.from < consumed'
    BY <1>1, SpanTyped DEF SpansInv
  <1>6. \A s \in spans : Active(stack', s) \/ s.to <= consumed'
    BY <1>1, <1>2, <1>3, SpanTyped DEF SpansInv
  <1>7. ASSUME NEW s \in spans, NEW t \in spans, s.from <= t.from
        PROVE  Active(stack', s) \/ s.to <= t.from \/ t.to <= s.to
    BY <1>1, <1>2, <1>3, <1>4, <1>7 DEF SpansInv
  <1>. QED
    BY <1>1, <1>5, <1>6, <1>7 DEF SpansInv

\* A sub-message starts after every one that has ended.
LEMMA SpansEnter ==
    ASSUME TypeInv, SpansInv, NEW size \in Nat, Enters(size)
    PROVE  SpansInv'
  <1> DEFINE n == Len(stack) + 1
             new == [from |-> consumed, to |-> consumed + 1 + size]
  <1>1. /\ result # "false"
        /\ consumed \in Nat /\ consumed' = consumed + 1
        /\ spans' = spans \cup {new}
        /\ Len(stack) \in Nat \ {0}
        /\ Len(stack') = n
        /\ \A i \in 1 .. Len(stack) : stack'[i] = stack[i]
    BY EntersPushes, SpanTyped DEF Enters, TypeInv, ControlOK
  <1>2. SpanOf(stack'[n]) = new
    <2> DEFINE frame == [msg |-> SubMessage(Top.msg, field), via |-> field,
                         start |-> consumed + 1, size |-> size]
    <2>1. stack'[n] = frame
      BY EntersPushes
    <2>2. frame.start = consumed + 1 /\ frame.size = size
      OBVIOUS
    <2> HIDE DEF frame
    <2>3. frame.start - 1 = consumed
      BY <1>1, <2>2
    <2>. QED
      BY <2>1, <2>2, <2>3 DEF SpanOf
  <1>3. \A s \in spans : Active(stack, s) => Active(stack', s)
    BY <1>1 DEF Active
  <1>4. Active(stack', new)
    <2>1. n \in 2 .. Len(stack')
      BY <1>1
    <2> HIDE DEF new, n
    <2>. QED
      BY <1>2, <2>1 DEF Active
  <1>5. new.from = consumed /\ new.from \in Nat /\ new.to \in Nat
    BY <1>1
  <1> HIDE DEF new, n
  <1>6. \A s \in spans' : s.from < consumed'
    BY <1>1, <1>5, SpanTyped DEF SpansInv
  <1>7. \A s \in spans' : Active(stack', s) \/ s.to <= consumed'
    <2>1. \A s \in spans : Active(stack, s) \/ s.to <= consumed'
      BY <1>1, SpanTyped DEF SpansInv
    <2>. QED
      BY <1>1, <1>3, <1>4, <2>1
  <1>8. ASSUME NEW s \in spans', NEW t \in spans', s.from <= t.from
        PROVE  Active(stack', s) \/ s.to <= t.from \/ t.to <= s.to
    BY <1>1, <1>3, <1>4, <1>5, <1>8, SpanTyped DEF SpansInv
  <1>. QED
    BY <1>6, <1>7, <1>8 DEF SpansInv

\* Wherever size_t is wider than the 32 bits of a size, the sub-messages of an
\* accepted message are properly nested: the size test at the end of every
\* activation (decoder.cc:457) is enough to reject a sub-message that is
\* declared longer than the message it is in.
THEOREM SubMessagesNest ==
    ASSUME U32 <= SIZE_MAX
    PROVE  Spec => []SpansNest
  <1>1. ASSUME Init
        PROVE  SpanInv
    <2> DEFINE frame == [msg |-> 1, via |-> field, start |-> 0, size |-> SIZE_MAX]
    <2>1. stack = <<frame>> /\ frame.start = 0
      BY <1>1 DEF Init
    <2> HIDE DEF frame
    <2>2. Len(stack) = 1 /\ stack[1].start = 0
      BY <2>1
    <2>. QED
      BY <1>1, <2>2 DEF Init, SpanInv, StartsGrow, SpansInv
  <1>2. ASSUME TypeInv, SpanInv, [Next]_vars
        PROVE  SpanInv'
    <2>1. CASE UNCHANGED vars
      BY <1>2, <2>1 DEF SpanInv, StartsGrow, SpansInv, Active, vars
    <2>2. CASE Next
      BY <1>2, <2>2, StepKinds, StartsKeepGrowing, SpansStay, SpansReturn,
         SpansEnter DEF SpanInv
    <2>. QED
      BY <1>2, <2>1, <2>2
  <1>3. TypeInv /\ SpanInv => SpansNest
    <2> SUFFICES ASSUME TypeInv, SpanInv, result = "true"
                 PROVE  \A s, t \in spans :
                            s.from <= t.from => s.to <= t.from \/ t.to <= s.to
      BY DEF SpansNest
    <2>1. stack = <<>>
      BY DEF TypeInv, ControlOK
    <2>2. Len(<<>>) = 0
      OBVIOUS
    <2>3. \A s \in spans : ~ Active(stack, s)
      BY <2>1, <2>2 DEF Active
    <2>. QED
      BY <2>3 DEF SpanInv, SpansInv
  <1>. QED
    BY <1>1, <1>2, <1>3, AlwaysTyped, PTL DEF Spec

-----------------------------------------------------------------------------
(* The steps that change the message objects. *)

\* What a step may do to the value `old` of the field f.
Keeps(f, old, new) ==
    /\ f.repeated =>
        /\ Len(new) \in {Len(old), Len(old) + 1}
        /\ \A k \in 1 .. (Len(new) - 1) : new[k] = old[k]
    /\ ~ f.repeated /\ f.type = "message" /\ old # 0 => new = old

\* The messages of heap, of which only the field of Top.msg is changed.
KeepsHeap ==
    \A m \in DOMAIN heap : heap'[m] # heap[m] =>
        \A f \in Fields(heap[m].type) :
            Keeps(f, heap[m].val[f.num], heap'[m].val[f.num])

LEMMA AddedKeeps ==
    ASSUME NEW f, NEW S, NEW old, NEW v \in S, f.repeated => old \in Seq(S),
           f.repeated \/ f.type # "message" \/ old = 0
    PROVE  Keeps(f, old, Added(f, old, v))
  <1>1. CASE f.repeated
    <2>1. Added(f, old, v) = Append(old, v) /\ old \in Seq(S)
      BY <1>1 DEF Added
    <2>2. /\ Len(Append(old, v)) = Len(old) + 1 /\ Len(old) \in Nat
          /\ \A k \in 1 .. Len(old) : Append(old, v)[k] = old[k]
      BY <2>1, AppendProperties, LenProperties
    <2>. QED
      BY <1>1, <2>1, <2>2 DEF Keeps
  <1>2. CASE ~ f.repeated
    BY <1>2 DEF Keeps
  <1>. QED
    BY <1>1, <1>2

LEMMA ExtendedKeeps ==
    ASSUME NEW f, f.type = "string", NEW S, NEW old, NEW b,
           f.repeated => old \in Seq(S)
    PROVE  Keeps(f, old, Extended(f, old, b))
  <1>1. CASE f.repeated
    <2> DEFINE new == [old EXCEPT ![Len(old)] = Append(old[Len(old)], b)]
    <2>1. Extended(f, old, b) = new
      BY <1>1 DEF Extended
    <2>2. Len(old) \in Nat /\ DOMAIN old = 1 .. Len(old)
      BY <1>1, LenProperties
    <2>3. DOMAIN new = 1 .. Len(old)
          /\ \A k \in 1 .. (Len(old) - 1) : new[k] = old[k]
      <3> DEFINE e == Append(old[Len(old)], b)
      <3> HIDE DEF e, new
      <3>1. new = [old EXCEPT ![Len(old)] = e]
        BY DEF e, new
      <3>2. /\ DOMAIN new = DOMAIN old
            /\ \A k \in DOMAIN old \ {Len(old)} : new[k] = old[k]
        BY <3>1, Zenon
      <3>3. 1 .. (Len(old) - 1) \subseteq DOMAIN old \ {Len(old)}
        BY <2>2
      <3>. QED
        BY <2>2, <3>2, <3>3
    <2>4. Len(new) = Len(old)
      <3> DEFINE R == {new[k] : k \in 1 .. Len(old)}
      <3>1. new \in [1 .. Len(old) -> R]
        BY <2>2
      <3> HIDE DEF new, R
      <3>. QED
        BY <2>2, <3>1, FunctionIsSeq
    <2> HIDE DEF new
    <2>. QED
      BY <1>1, <2>1, <2>2, <2>3, <2>4 DEF Keeps
  <1>2. CASE ~ f.repeated
    BY <1>2 DEF Keeps
  <1>. QED
    BY <1>1, <1>2

LEMMA AssignKeeps ==
    ASSUME NEW h, NEW n \in Nat, Typed(h, n), NEW m \in DOMAIN h,
           NEW f \in Fields(h[m].type), NEW w,
           Keeps(f, h[m].val[f.num], w),
           NEW k \in DOMAIN h, NEW g \in Fields(h[k].type)
    PROVE  /\ DOMAIN Assign(h, m, f.num, w) = DOMAIN h
           /\ Keeps(g, h[k].val[g.num], Assign(h, m, f.num, w)[k].val[g.num])
  <1> DEFINE a == Assign(h, m, f.num, w)
             old == h[k].val[g.num]
  <1>1. /\ DOMAIN h[m] = {"type", "val"}
        /\ h[m].type \in DOMAIN Schema
        /\ DOMAIN h[m].val = Numbers(h[m].type)
        /\ h[k].type \in DOMAIN Schema
        /\ old \in Values(g, k, n)
    BY DEF Typed
  <1>2. /\ DOMAIN a = DOMAIN h
        /\ k # m => a[k] = h[k]
        /\ k = m /\ g.num # f.num => a[k].val[g.num] = old
        /\ k = m /\ g.num = f.num => a[k].val[g.num] = w
    <2>1. f.num \in Numbers(h[m].type)
      BY DEF Numbers
    <2>. QED
      BY <1>1, <2>1 DEF Assign
  <1>3. k = m /\ g.num = f.num => g = f
    BY <1>1, NumbersAreDistinct
  <1>4. Keeps(g, old, old)
    BY DEF Keeps
  <1>. HIDE DEF a
  <1>5. CASE k = m /\ g.num = f.num
    BY <1>2, <1>3, <1>5 DEF a
  <1>6. CASE ~ (k = m /\ g.num = f.num)
    BY <1>2, <1>4, <1>6 DEF a
  <1>. QED
    BY <1>2, <1>5, <1>6 DEF a

\* Added leaves what was there, unless it would replace a sub-message.
LEMMA StoreKeeps ==
    ASSUME TypeInv, pc # "done", field \in Fields(heap[Top.msg].type), NEW v,
           \/ field.repeated
           \/ field.type # "message"
           \/ heap[Top.msg].val[field.num] = 0
    PROVE  LET old == heap[Top.msg].val[field.num]
           IN  Keeps(field, old, Added(field, old, v))
  <1> DEFINE m == Top.msg
             n == Len(heap)
             old == heap[m].val[field.num]
             S == Elements(field, m, n) \cup {v}
  <1>1. m \in DOMAIN heap /\ n \in Nat /\ Typed(heap, n)
    BY TopTyped DEF TypeInv, HeapOK
  <1>2. old \in Values(field, m, n)
    BY <1>1 DEF Typed
  <1>3. field.repeated => old \in Seq(S)
    <2>1. field.repeated => old \in Seq(Elements(field, m, n))
      BY <1>2 DEF Values
    <2>. QED
      BY <2>1, SeqMonotonic
  <1>. QED
    BY <1>3, AddedKeeps

\* A step leaves the message objects, or assigns a value that is no
\* sub-message to one field, or makes one message object.
HeapAssigned ==
    /\ pc # "done" /\ field \in Fields(heap[Top.msg].type)
    /\ field.type # "message"
    /\ \E w : /\ Keeps(field, heap[Top.msg].val[field.num], w)
              /\ heap' = Assign(heap, Top.msg, field.num, w)

HeapGrows ==
    /\ pc # "done" /\ field \in Fields(heap[Top.msg].type)
    /\ field.type = "message" /\ ~ IsMerge(Top.msg, field)
    /\ heap' = Append(Store(heap, Top.msg, field, Len(heap) + 1),
                      NewMessage(field.sub))

LEMMA HeapSteps ==
    ASSUME TypeInv, Next
    PROVE  heap' = heap \/ HeapAssigned \/ HeapGrows
  <1>1. ASSUME pc # "done", field \in Fields(heap[Top.msg].type), NEW v,
               field.type # "message", heap' = Store(heap, Top.msg, field, v)
        PROVE  HeapAssigned
    BY <1>1, StoreKeeps DEF HeapAssigned, Store
  <1>2. ASSUME NEW b \in InBytes, StringByte(b)
        PROVE  HeapAssigned
    <2> DEFINE m == Top.msg
               n == Len(heap)
               old == heap[m].val[field.num]
               w == Extended(field, old, b)
    <2>1. /\ pc = "string" /\ field \in Fields(heap[m].type)
          /\ field.type = "string"
      BY <1>2 DEF StringByte, TypeInv, FieldOK
    <2>2. m \in DOMAIN heap /\ n \in Nat /\ Typed(heap, n)
      BY <2>1, TopTyped DEF TypeInv, HeapOK
    <2>3. field.repeated => old \in Seq(Seq(InBytes))
      BY <2>1, <2>2 DEF Typed, Values, Elements
    <2>4. Keeps(field, old, w)
      BY <2>1, <2>3, ExtendedKeeps
    <2>5. heap' = Assign(heap, m, field.num, w)
      BY <1>2 DEF StringByte, PushBack
    <2> HIDE DEF w
    <2>. QED
      BY <2>1, <2>4, <2>5 DEF HeapAssigned
  <1>3. CASE LoopHead \/ ReadFails
    BY <1>3 DEF LoopHead, ReadFails, TagFails, SkipFails, SkipPayloadFails,
       FieldFails
  <1>4. ASSUME NEW b \in InBytes, ReadByte(b)
        PROVE  heap' = heap \/ HeapAssigned \/ HeapGrows
    <2>1. CASE TagByte(b) \/ SkipByte(b) \/ SkipLenByte(b) \/ SkipPayloadByte
      BY <2>1 DEF TagByte, SkipByte, SkipLenByte, SkipPayloadByte
    <2>2. CASE ValueByte(b)
      <3>1. /\ pc = "value" /\ field \in Fields(heap[Top.msg].type)
            /\ field.type # "message"
        BY <2>2 DEF ValueByte, TypeInv, FieldOK, LenTypes
      <3>. QED
        BY <1>1, <2>2, <3>1 DEF ValueByte
    <2>3. CASE LenByte(b)
      <3>1. pc = "len" /\ field \in Fields(heap[Top.msg].type)
        BY <2>3 DEF LenByte, TypeInv, FieldOK
      <3>2. CASE field.type = "string" /\ EnterString(Feed(rd, b).acc)
        BY <1>1, <3>1, <3>2 DEF EnterString
      <3>3. CASE field.type = "message" /\ EnterSubMessage(Feed(rd, b).acc)
        BY <3>1, <3>3 DEF EnterSubMessage, SubMessage, HeapGrows
      <3>. QED
        BY <2>3, <3>2, <3>3 DEF LenByte
    <2>4. CASE StringByte(b)
      BY <1>2, <2>4
    <2>. QED
      BY <1>4, <2>1, <2>2, <2>3, <2>4 DEF ReadByte
  <1>. QED
    BY <1>3, <1>4 DEF Next

\* A message object that is made changes none but the field it is stored in.
LEMMA GrowthTyped ==
    ASSUME TypeInv, HeapGrows
    PROVE  LET n == Len(heap)
               m == Top.msg
               old == heap[m].val[field.num]
           IN  /\ n \in Nat \ {0} /\ DOMAIN heap = 1 .. n
               /\ m \in DOMAIN heap
               /\ Len(heap') = n + 1 /\ DOMAIN heap' = 1 .. n + 1
               /\ heap'[n + 1] = NewMessage(field.sub)
               /\ field.sub \in DOMAIN Schema
               /\ \A k \in DOMAIN heap :
                    heap'[k] = Assign(heap, m, field.num,
                                      Added(field, old, n + 1))[k]
               /\ \A k \in DOMAIN heap : heap'[k].type = heap[k].type
               /\ \A k \in DOMAIN heap : k # m => heap'[k] = heap[k]
               /\ \A g \in Fields(heap[m].type) :
                    g # field => heap'[m].val[g.num] = heap[m].val[g.num]
               /\ heap'[m].val[field.num] = Added(field, old, n + 1)
  <1> DEFINE n == Len(heap)
             m == Top.msg
             w == Added(field, heap[m].val[field.num], n + 1)
             s == Assign(heap, m, field.num, w)
  <1>1. /\ pc # "done" /\ field \in Fields(heap[m].type)
        /\ field.type = "message"
        /\ heap' = Append(s, NewMessage(field.sub))
    BY DEF HeapGrows, Store
  <1>2. /\ Typed(heap, n) /\ n \in Nat /\ DOMAIN heap = 1 .. n
        /\ m \in DOMAIN heap /\ m \in Nat
        /\ heap[m].type \in DOMAIN Schema
        /\ DOMAIN heap[m].val = Numbers(heap[m].type)
    BY <1>1, TopTyped DEF TypeInv, HeapOK, Typed
  <1>3. Typed(heap, n + 1)
    BY <1>2, TypedGrows
  <1>4. n + 1 \in Elements(field, m, n + 1)
    BY <1>1, <1>2 DEF Elements
  <1>5. w \in Values(field, m, n + 1)
    BY <1>1, <1>2, <1>3, <1>4, StoreTyped
  <1> HIDE DEF w
  <1>6. /\ Typed(s, n + 1) /\ DOMAIN s = DOMAIN heap /\ Len(s) = n
        /\ \A i \in DOMAIN heap : s[i].type = heap[i].type
        /\ \A i \in DOMAIN heap : i # m => s[i] = heap[i]
        /\ \A k \in DOMAIN heap[m].val :
             k # field.num => s[m].val[k] = heap[m].val[k]
        /\ s[m].val[field.num] = w
    BY <1>1, <1>2, <1>3, <1>5, AssignTyped
  <1>7. field.sub \in DOMAIN Schema
    BY <1>1, <1>2, FieldsAreDescriptors DEF FieldDescriptors
  <1> HIDE DEF s
  <1>8. /\ Len(heap') = n + 1 /\ DOMAIN heap' = 1 .. n + 1
        /\ \A i \in DOMAIN heap : heap'[i] = s[i]
        /\ heap'[n + 1] = NewMessage(field.sub)
    <2> DEFINE k == n + 1
    <2>1. k \in Nat
      BY <1>2
    <2>2. Typed(s, k) /\ DOMAIN s = DOMAIN heap /\ Len(s) = n
      BY <1>6
    <2> HIDE DEF k
    <2>3. LET g == Append(s, NewMessage(field.sub))
          IN  /\ Len(g) = Len(s) + 1 /\ DOMAIN g = 1 .. Len(s) + 1
              /\ \A i \in DOMAIN s : g[i] = s[i]
              /\ g[Len(s) + 1] = NewMessage(field.sub)
      BY <1>7, <2>1, <2>2, AppendTyped
    <2>. QED
      BY <1>1, <2>2, <2>3
  <1>9. ASSUME NEW g \in Fields(heap[m].type), g # field
        PROVE  g.num # field.num /\ g.num \in DOMAIN heap[m].val
    BY <1>1, <1>2, <1>9, NumbersAreDistinct, FieldsAreDescriptors
  <1>10. n # 0
    BY <1>2
  <1>. QED
    BY <1>2, <1>6, <1>7, <1>8, <1>9, <1>10 DEF s, w

LEMMA StepKeeps ==
    ASSUME TypeInv, Next
    PROVE  KeepsHeap
  <1>1. CASE heap' = heap
    BY <1>1 DEF KeepsHeap
  <1>2. CASE HeapAssigned
    <2>1. /\ Top.msg \in DOMAIN heap /\ Len(heap) \in Nat
          /\ Typed(heap, Len(heap))
      BY <1>2, TopTyped DEF HeapAssigned, TypeInv, HeapOK
    <2>. QED
      BY <1>2, <2>1, AssignKeeps DEF HeapAssigned, KeepsHeap
  <1>3. CASE HeapGrows
    <2> DEFINE old == heap[Top.msg].val[field.num]
               w == Added(field, old, Len(heap) + 1)
               s == Assign(heap, Top.msg, field.num, w)
    <2>1. /\ Top.msg \in DOMAIN heap /\ Len(heap) \in Nat
          /\ Typed(heap, Len(heap))
      BY <1>3, TopTyped DEF HeapGrows, TypeInv, HeapOK
    <2>2. Keeps(field, old, w)
      <3>1. field.repeated \/ old = 0
        BY <1>3 DEF HeapGrows, IsMerge
      <3>. QED
        BY <1>3, <3>1, StoreKeeps DEF HeapGrows
    <2>3. \A k \in DOMAIN heap : heap'[k] = s[k]
      BY <1>3, GrowthTyped
    <2>4. field \in Fields(heap[Top.msg].type)
      BY <1>3 DEF HeapGrows
    <2> HIDE DEF w
    <2>5. \A k \in DOMAIN heap : \A g \in Fields(heap[k].type) :
            Keeps(g, heap[k].val[g.num], s[k].val[g.num])
      BY <2>1, <2>2, <2>4, AssignKeeps
    <2>. QED
      BY <2>3, <2>5 DEF KeepsHeap
  <1>. QED
    BY <1>1, <1>2, <1>3, HeapSteps

\* Decoding merges: whatever the bytes, no step drops a sub-message or an
\* element of a repeated field, or changes an element that is not the last
\* (AddRepeated... and Mutable... in decoder.cc:332-351).
THEOREM MergingLosesNothing == Spec => NothingLost
  <1>1. TypeInv /\ [Next]_vars =>
          [\A m \in DOMAIN heap :
             heap'[m] # heap[m] =>
             \A f \in Fields(heap[m].type) :
                 LET old == heap[m].val[f.num]
                     new == heap'[m].val[f.num]
                 IN  /\ f.repeated =>
                         /\ Len(new) \in {Len(old), Len(old) + 1}
                         /\ \A k \in 1 .. (Len(new) - 1) : new[k] = old[k]
                     /\ ~ f.repeated /\ f.type = "message" /\ old # 0
                            => new = old]_vars
    BY StepKeeps DEF KeepsHeap, Keeps
  <1>. QED
    BY <1>1, AlwaysTyped, PTL DEF Spec, NothingLost

-----------------------------------------------------------------------------
(* Ownership.  The message objects that are made are stored in one field   *)
(* each, and nothing else is stored in a field for messages.               *)

\* Owned, of any heap.
OwnedOf(h, m, f) ==
    LET v == h[m].val[f.num]
    IN  CASE f.repeated -> v
          [] ~ f.repeated /\ v = 0 -> <<>>
          [] OTHER -> <<v>>

\* Slots of any heap, and what they hold.
SlotsOf(h) ==
    UNION {UNION {{<<m, f, k>> : k \in DOMAIN OwnedOf(h, m, f)} :
                  f \in MessageFields(h[m].type)} : m \in DOMAIN h}

Held(h, s) == OwnedOf(h, s[1], s[2])[s[3]]

OwnedInv ==
    /\ IsFiniteSet(SlotsOf(heap))
    /\ Cardinality(SlotsOf(heap)) = Len(heap) - 1
    /\ {Held(heap, s) : s \in SlotsOf(heap)} = 2 .. Len(heap)

LEMMA SlotsAre ==
    ASSUME NEW h, NEW s
    PROVE  s \in SlotsOf(h) <=>
             \E m \in DOMAIN h : \E f \in MessageFields(h[m].type) :
               \E k \in DOMAIN OwnedOf(h, m, f) : s = <<m, f, k>>
  BY DEF SlotsOf

LEMMA OwnedInvOwns ==
    ASSUME OwnedInv
    PROVE  OwnedOnce
  <1>1. \A m, f : Owned(m, f) = OwnedOf(heap, m, f)
    BY DEF Owned, OwnedOf
  <1>2. Slots = SlotsOf(heap)
    BY <1>1 DEF Slots, SlotsOf
  <1>3. {Owned(s[1], s[2])[s[3]] : s \in Slots}
          = {Held(heap, s) : s \in SlotsOf(heap)}
    BY <1>1, <1>2 DEF Held
  <1>. QED
    BY <1>2, <1>3 DEF OwnedInv, OwnedOnce

\* Two heaps in which the fields for messages hold the same.
LEMMA SlotsSame ==
    ASSUME NEW g, NEW h, DOMAIN g = DOMAIN h,
           \A m \in DOMAIN h : g[m].type = h[m].type,
           \A m \in DOMAIN h : \A f \in MessageFields(h[m].type) :
               OwnedOf(g, m, f) = OwnedOf(h, m, f)
    PROVE  /\ SlotsOf(g) = SlotsOf(h)
           /\ {Held(g, s) : s \in SlotsOf(g)} = {Held(h, s) : s \in SlotsOf(h)}
  <1>1. \A s : s \in SlotsOf(g) <=> s \in SlotsOf(h)
    BY SlotsAre
  <1>2. SlotsOf(g) = SlotsOf(h)
    BY <1>1
  <1>3. \A s \in SlotsOf(h) : Held(g, s) = Held(h, s)
    <2> SUFFICES ASSUME NEW s \in SlotsOf(h) PROVE Held(g, s) = Held(h, s)
      OBVIOUS
    <2>0. PICK m \in DOMAIN h : \E f \in MessageFields(h[m].type) :
            \E k \in DOMAIN OwnedOf(h, m, f) : s = <<m, f, k>>
      BY SlotsAre
    <2>1. PICK f \in MessageFields(h[m].type) :
            \E k \in DOMAIN OwnedOf(h, m, f) : s = <<m, f, k>>
      BY <2>0
    <2>. QED
      BY <2>1 DEF Held
  <1>. QED
    BY <1>2, <1>3

LEMMA NewMessageOwnsNothing ==
    ASSUME NEW t \in DOMAIN Schema, NEW f \in Fields(t)
    PROVE  NewMessage(t).val[f.num] = DefaultValue(f)
  <1>1. f.num \in Nat /\ f.num \in Numbers(t) /\ Known(t, f.num)
    BY FieldsAreDescriptors DEF Known, Fields, FieldDescriptors
  <1>2. FindFieldByNumber(t, f.num) = f
    BY <1>1, FindFieldByNumberFinds, NumbersAreDistinct
  <1>. QED
    BY <1>1, <1>2 DEF NewMessage

LEMMA DefaultOwnsNothing ==
    ASSUME NEW h, NEW m, NEW t \in DOMAIN Schema, h[m] = NewMessage(t),
           NEW f \in MessageFields(t)
    PROVE  OwnedOf(h, m, f) = <<>>
  <1>1. f \in Fields(t) /\ f.type = "message"
    BY DEF MessageFields
  <1>2. h[m].val[f.num] = DefaultValue(f)
    BY <1>1, NewMessageOwnsNothing
  <1>3. CASE f.repeated
    BY <1>2, <1>3 DEF DefaultValue, OwnedOf
  <1>4. CASE ~ f.repeated
    BY <1>1, <1>2, <1>4 DEF DefaultValue, OwnedOf
  <1>. QED
    BY <1>3, <1>4

LEMMA OwnedInit ==
    ASSUME Init
    PROVE  OwnedInv
  <1>1. heap = <<NewMessage(Root)>> /\ Root \in DOMAIN Schema
    BY DecoderAssumption DEF Init
  <1>2. DOMAIN heap = {1} /\ Len(heap) = 1 /\ heap[1] = NewMessage(Root)
    BY <1>1
  <1>3. heap[1].type = Root
    BY <1>2 DEF NewMessage
  <1>4. \A f \in MessageFields(Root) : OwnedOf(heap, 1, f) = <<>>
    BY <1>1, <1>2, DefaultOwnsNothing
  <1>5. \A s : s \notin SlotsOf(heap)
    BY <1>2, <1>3, <1>4, SlotsAre
  <1>6. SlotsOf(heap) = {}
    BY <1>5
  <1>7. {Held(heap, s) : s \in SlotsOf(heap)} = {}
    BY <1>6
  <1>8. 2 .. Len(heap) = {} /\ Len(heap) - 1 = 0
    BY <1>2
  <1>. QED
    BY <1>6, <1>7, <1>8, FS_EmptySet DEF OwnedInv

LEMMA OwnedStays ==
    ASSUME TypeInv, OwnedInv, HeapAssigned
    PROVE  OwnedInv'
  <1> DEFINE m == Top.msg
  <1>1. PICK w : heap' = Assign(heap, m, field.num, w)
    BY DEF HeapAssigned
  <1>2. /\ Typed(heap, Len(heap)) /\ m \in DOMAIN heap
        /\ field \in Fields(heap[m].type) /\ field.type # "message"
    BY TopTyped DEF HeapAssigned, TypeInv, HeapOK
  <1>3. /\ DOMAIN heap[m] = {"type", "val"}
        /\ heap[m].type \in DOMAIN Schema
        /\ field.num \in DOMAIN heap[m].val
    BY <1>2, FieldsAreDescriptors DEF Typed
  <1>4. /\ DOMAIN heap' = DOMAIN heap
        /\ \A i \in DOMAIN heap : heap'[i].type = heap[i].type
        /\ \A i \in DOMAIN heap : i # m => heap'[i] = heap[i]
        /\ \A k : k # field.num /\ k \in DOMAIN heap[m].val
             => heap'[m].val[k] = heap[m].val[k]
    BY <1>1, <1>2, <1>3 DEF Assign
  <1>5. ASSUME NEW i \in DOMAIN heap, NEW f \in MessageFields(heap[i].type)
        PROVE  heap'[i].val[f.num] = heap[i].val[f.num]
    <2>1. CASE i # m
      BY <1>4, <2>1
    <2>2. CASE i = m
      <3>1. f \in Fields(heap[m].type) /\ f # field
        BY <1>2, <1>5, <2>2 DEF MessageFields
      <3>2. f.num # field.num /\ f.num \in DOMAIN heap[m].val
        BY <1>2, <1>3, <3>1, NumbersAreDistinct, FieldsAreDescriptors DEF Typed
      <3>. QED
        BY <1>4, <2>2, <3>2
    <2>. QED
      BY <2>1, <2>2
  <1>6. \A i \in DOMAIN heap : \A f \in MessageFields(heap[i].type) :
          OwnedOf(heap', i, f) = OwnedOf(heap, i, f)
    BY <1>5 DEF OwnedOf
  <1>7. Len(heap') = Len(heap)
    <2>1. DOMAIN heap = 1 .. Len(heap) /\ Len(heap) \in Nat
      BY <1>2, LenProperties DEF Typed
    <2> DEFINE R == {heap'[k] : k \in DOMAIN heap'}
    <2>2. heap' = [k \in DOMAIN heap' |-> heap'[k]]
      BY <1>1 DEF Assign
    <2>3. heap' \in [1 .. Len(heap) -> R]
      BY <1>4, <2>1, <2>2
    <2> HIDE DEF R
    <2>. QED
      BY <2>1, <2>3, FunctionIsSeq
  <1>8. /\ SlotsOf(heap') = SlotsOf(heap)
        /\ {Held(heap', s) : s \in SlotsOf(heap')}
             = {Held(heap, s) : s \in SlotsOf(heap)}
    BY <1>4, <1>6, SlotsSame
  <1>. QED
    BY <1>7, <1>8 DEF OwnedInv

\* The message object that is made gets the one slot that is added.
LEMMA OwnedGrows ==
    ASSUME TypeInv, OwnedInv, HeapGrows
    PROVE  OwnedInv'
  <1> DEFINE n == Len(heap)
             m == Top.msg
             old == OwnedOf(heap, m, field)
             slot == <<m, field, Len(old) + 1>>
  <1>1. /\ n \in Nat \ {0} /\ DOMAIN heap = 1 .. n
        /\ m \in DOMAIN heap
        /\ Len(heap') = n + 1 /\ DOMAIN heap' = 1 .. n + 1
        /\ heap'[n + 1] = NewMessage(field.sub)
        /\ field.sub \in DOMAIN Schema
        /\ \A k \in DOMAIN heap : heap'[k].type = heap[k].type
        /\ \A k \in DOMAIN heap : k # m => heap'[k] = heap[k]
        /\ \A g \in Fields(heap[m].type) :
             g # field => heap'[m].val[g.num] = heap[m].val[g.num]
        /\ heap'[m].val[field.num]
             = Added(field, heap[m].val[field.num], n + 1)
    BY GrowthTyped
  <1>2. /\ field \in MessageFields(heap[m].type)
        /\ field.repeated \/ heap[m].val[field.num] = 0
    BY DEF HeapGrows, MessageFields, IsMerge
  <1>3. old \in Seq(Nat)
    <2>1. heap[m].val[field.num] \in Values(field, m, n)
      BY <1>1, <1>2 DEF TypeInv, HeapOK, Typed, MessageFields
    <2>2. CASE field.repeated
      <3>1. old \in Seq((m + 1) .. n)
        BY <1>2, <2>1, <2>2 DEF OwnedOf, Values, Elements, MessageFields
      <3>. QED
        BY <1>1, <3>1
    <2>3. CASE ~ field.repeated
      BY <1>2, <2>3 DEF OwnedOf
    <2>. QED
      BY <2>2, <2>3
  <1>4. OwnedOf(heap', m, field) = Append(old, n + 1)
    <2>1. CASE field.repeated
      BY <1>1, <2>1 DEF OwnedOf, Added
    <2>2. CASE ~ field.repeated
      <3>1. heap'[m].val[field.num] = n + 1 /\ n + 1 # 0
        BY <1>1, <2>2 DEF Added
      <3>2. old = <<>>
        BY <1>2, <2>2 DEF OwnedOf
      <3>. QED
        BY <2>2, <3>1, <3>2 DEF OwnedOf
    <2>. QED
      BY <2>1, <2>2
  <1>5. ASSUME NEW k \in DOMAIN heap, NEW g \in MessageFields(heap[k].type),
               k # m \/ g # field
        PROVE  OwnedOf(heap', k, g) = OwnedOf(heap, k, g)
    BY <1>1, <1>5 DEF OwnedOf, MessageFields
  <1>6. heap'[n + 1].type = field.sub
    BY <1>1 DEF NewMessage
  <1>7. \A g \in MessageFields(field.sub) : OwnedOf(heap', n + 1, g) = <<>>
    BY <1>1, DefaultOwnsNothing
  <1> HIDE DEF old
  <1>8. /\ Len(old) \in Nat /\ DOMAIN old = 1 .. Len(old)
        /\ DOMAIN Append(old, n + 1) = 1 .. Len(old) + 1
        /\ \A k \in DOMAIN old : Append(old, n + 1)[k] = old[k]
        /\ Append(old, n + 1)[Len(old) + 1] = n + 1
    BY <1>1, <1>3, AppendProperties, LenProperties
  <1> HIDE DEF m, n, slot
  <1>9. ASSUME NEW s
        PROVE  s \in SlotsOf(heap') <=> s \in SlotsOf(heap) \/ s = slot
    <2>1. ASSUME s \in SlotsOf(heap)
          PROVE  s \in SlotsOf(heap')
      <3>0. PICK k \in DOMAIN heap : \E g \in MessageFields(heap[k].type) :
              \E i \in DOMAIN OwnedOf(heap, k, g) : s = <<k, g, i>>
        BY <2>1, SlotsAre
      <3>1. PICK g \in MessageFields(heap[k].type) :
              \E i \in DOMAIN OwnedOf(heap, k, g) : s = <<k, g, i>>
        BY <3>0
      <3>2. k \in DOMAIN heap' /\ g \in MessageFields(heap'[k].type)
        BY <1>1
      <3>3. DOMAIN OwnedOf(heap, k, g) \subseteq DOMAIN OwnedOf(heap', k, g)
        BY <1>4, <1>5, <1>8 DEF old
      <3>. QED
        BY <3>1, <3>2, <3>3, SlotsAre
    <2>2. slot \in SlotsOf(heap')
      <3>1. /\ m \in DOMAIN heap' /\ field \in MessageFields(heap'[m].type)
            /\ Len(old) + 1 \in DOMAIN OwnedOf(heap', m, field)
        BY <1>1, <1>2, <1>4, <1>8
      <3>. QED
        BY <3>1, SlotsAre DEF slot
    <2>3. ASSUME s \in SlotsOf(heap'), s # slot
          PROVE  s \in SlotsOf(heap)
      <3>0. PICK k \in DOMAIN heap' : \E g \in MessageFields(heap'[k].type) :
              \E i \in DOMAIN OwnedOf(heap', k, g) : s = <<k, g, i>>
        BY <2>3, SlotsAre
      <3>1. PICK g \in MessageFields(heap'[k].type) :
              \E i \in DOMAIN OwnedOf(heap', k, g) : s = <<k, g, i>>
        BY <3>0
      <3>2. PICK i \in DOMAIN OwnedOf(heap', k, g) : s = <<k, g, i>>
        BY <3>1
      <3>3. k # n + 1
        BY <1>6, <1>7, <3>2
      <3>4. k \in DOMAIN heap /\ g \in MessageFields(heap[k].type)
        BY <1>1, <3>3
      <3>5. i \in DOMAIN OwnedOf(heap, k, g)
        <4>1. CASE k = m /\ g = field
          BY <1>4, <1>8, <2>3, <3>2, <4>1 DEF slot, old
        <4>2. CASE k # m \/ g # field
          BY <1>5, <3>2, <3>4, <4>2
        <4>. QED
          BY <4>1, <4>2
      <3>. QED
        BY <3>2, <3>4, <3>5, SlotsAre
    <2>. QED
      BY <2>1, <2>2, <2>3
  <1>10. slot \notin SlotsOf(heap)
    <2> SUFFICES ASSUME slot \in SlotsOf(heap) PROVE FALSE
      OBVIOUS
    <2>0. PICK k \in DOMAIN heap : \E g \in MessageFields(heap[k].type) :
            \E i \in DOMAIN OwnedOf(heap, k, g) : slot = <<k, g, i>>
      BY SlotsAre
    <2>1. PICK g \in MessageFields(heap[k].type) :
            \E i \in DOMAIN OwnedOf(heap, k, g) : slot = <<k, g, i>>
      BY <2>0
    <2>2. Len(old) + 1 \in DOMAIN old
      BY <2>1 DEF slot, old
    <2>. QED
      BY <1>8, <2>2
  <1>11. SlotsOf(heap') = SlotsOf(heap) \cup {slot}
    BY <1>9
  <1>12. Held(heap', slot) = n + 1
    BY <1>4, <1>8 DEF Held, slot
  <1>13. ASSUME NEW s \in SlotsOf(heap)
         PROVE  Held(heap', s) = Held(heap, s)
    <2>0. PICK k \in DOMAIN heap : \E g \in MessageFields(heap[k].type) :
            \E i \in DOMAIN OwnedOf(heap, k, g) : s = <<k, g, i>>
      BY SlotsAre
    <2>1. PICK g \in MessageFields(heap[k].type) :
            \E i \in DOMAIN OwnedOf(heap, k, g) : s = <<k, g, i>>
      BY <2>0
    <2>2. PICK i \in DOMAIN OwnedOf(heap, k, g) : s = <<k, g, i>>
      BY <2>1
    <2>3. CASE k = m /\ g = field
      BY <1>4, <1>8, <2>2, <2>3 DEF Held, old
    <2>4. CASE k # m \/ g # field
      BY <1>5, <2>2, <2>4 DEF Held
    <2>. QED
      BY <2>3, <2>4
  <1>14. {Held(heap', s) : s \in SlotsOf(heap')}
           = {Held(heap, s) : s \in SlotsOf(heap)} \cup {n + 1}
    BY <1>11, <1>12, <1>13
  <1>15. (2 .. n) \cup {n + 1} = 2 .. (n + 1)
    BY <1>1 DEF n
  <1>16. /\ IsFiniteSet(SlotsOf(heap'))
         /\ Cardinality(SlotsOf(heap')) = Cardinality(SlotsOf(heap)) + 1
    BY <1>10, <1>11, FS_AddElement DEF OwnedInv
  <1>17. Len(heap') - 1 = (Len(heap) - 1) + 1
    BY <1>1 DEF n
  <1>. QED
    BY <1>1, <1>14, <1>15, <1>16, <1>17 DEF OwnedInv, n

\* Whatever the bytes: each message object that AddRepeated... or Mutable...
\* made during the decode is owned by one field of one message (decoder.cc:347).
THEOREM EachOwnedOnce == Spec => []OwnedOnce
  <1>1. Init => OwnedInv
    BY OwnedInit
  <1>2. TypeInv /\ TypeInv' /\ OwnedInv /\ [Next]_vars => OwnedInv'
    <2> SUFFICES ASSUME TypeInv, TypeInv', OwnedInv, [Next]_vars
                 PROVE  OwnedInv'
      OBVIOUS
    <2>1. CASE heap' = heap
      BY <2>1 DEF OwnedInv
    <2>2. CASE HeapAssigned
      BY <2>2, OwnedStays
    <2>3. CASE HeapGrows
      BY <2>3, OwnedGrows
    <2>. QED
      BY <2>1, <2>2, <2>3, HeapSteps DEF vars
  <1>3. OwnedInv => OwnedOnce
    BY OwnedInvOwns
  <1>. QED
    BY <1>1, <1>2, <1>3, AlwaysTyped, PTL DEF Spec

=============================================================================
