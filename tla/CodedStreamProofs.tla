------------------------- MODULE CodedStreamProofs -------------------------
(***************************************************************************)
(* Proofs about the coded streams, for every width of the words, every     *)
(* kind of stream, every script of calls and every size of the pipe.       *)
(***************************************************************************)
EXTENDS CodedStream, WireProofs

\* A sequence, of whatever elements.
IsSeq(s) == s \in Seq({s[i] : i \in DOMAIN s})

\* A function on 1 .. n is a sequence.
LEMMA RangeIsSeq ==
    ASSUME NEW S, NEW n \in Nat, NEW s \in [1 .. n -> S]
    PROVE  s \in Seq(S)
  BY SeqDef

\* Append adds one element to any sequence.
LEMMA AppendIsSeq ==
    ASSUME NEW s, IsSeq(s), NEW e
    PROVE  /\ IsSeq(Append(s, e))
           /\ Len(Append(s, e)) = Len(s) + 1
           /\ Len(s) \in Nat
  <1> DEFINE S == {s[i] : i \in DOMAIN s} \cup {e}
             t == Append(s, e)
  <1>1. s \in Seq(S) /\ e \in S
    BY SeqMonotonic DEF IsSeq
  <1> HIDE DEF S
  <1>2. /\ t \in Seq(S)
        /\ Len(t) = Len(s) + 1
        /\ Len(s) \in Nat
        /\ Len(t) \in Nat
        /\ DOMAIN t = 1 .. Len(t)
    BY <1>1, AppendProperties
  <1> HIDE DEF t
  <1>3. t \in [1 .. Len(t) -> {t[i] : i \in DOMAIN t}]
    BY <1>2
  <1>4. IsSeq(t)
    BY <1>3, <1>2, RangeIsSeq DEF IsSeq
  <1>. QED
    BY <1>2, <1>4 DEF t

\* Tail removes one element from any sequence that has one.
LEMMA TailIsSeq ==
    ASSUME NEW s, IsSeq(s), s # <<>>
    PROVE  /\ IsSeq(Tail(s))
           /\ Len(Tail(s)) = Len(s) - 1
           /\ Len(s) \in Nat \ {0}
  <1> DEFINE S == {s[i] : i \in DOMAIN s}
             t == Tail(s)
  <1>1. s \in Seq(S)
    BY DEF IsSeq
  <1> HIDE DEF S
  <1>2. /\ t \in Seq(S)
        /\ Len(t) = Len(s) - 1
        /\ Len(s) \in Nat \ {0}
        /\ Len(t) \in Nat
        /\ DOMAIN t = 1 .. Len(t)
    BY <1>1, HeadTailProperties, EmptySeq
  <1> HIDE DEF t
  <1>3. t \in [1 .. Len(t) -> {t[i] : i \in DOMAIN t}]
    BY <1>2
  <1>4. IsSeq(t)
    BY <1>3, <1>2, RangeIsSeq DEF IsSeq
  <1>. QED
    BY <1>2, <1>4 DEF t

CountersInv ==
    /\ IsSeq(buf)
    /\ written \in Nat
    /\ stored \in Nat
    /\ consumed \in Nat
    /\ CountersAgree

\* The reader takes one byte out of the stream and counts it.
LEMMA TakeByteCounts ==
    ASSUME CountersInv, TakeByte
    PROVE  CountersInv'
  <1>1. /\ IsSeq(buf')
        /\ Len(buf') = Len(buf) - 1
        /\ Len(buf) \in Nat
    BY TailIsSeq DEF CountersInv, TakeByte
  <1>. QED
    BY <1>1 DEF CountersInv, CountersAgree, TakeByte, wvars

\* The writer counts the byte that it puts into the stream.
LEMMA WriteByteCounts ==
    ASSUME CountersInv, WriteByte
    PROVE  CountersInv'
  <1>1. CASE failbit
    BY <1>1 DEF CountersInv, CountersAgree, WriteByte, rvars
  <1>2. CASE ~ failbit
    <2>1. /\ IsSeq(buf')
          /\ Len(buf') = Len(buf) + 1
          /\ Len(buf) \in Nat
      BY <1>2, AppendIsSeq DEF CountersInv, WriteByte
    <2>. QED
      BY <1>2, <2>1 DEF CountersInv, CountersAgree, WriteByte, rvars
  <1>. QED
    BY <1>1, <1>2

\* Whatever calls the two sides make on whatever kind of stream, however they
\* are interleaved and whenever a Read or a Write fails, ConsumedSize() and the
\* bytes in the stream account for every byte that the stream took, and
\* WrittenSize() for no less (coded_stream.h:34-40 and 57-63); it is the same
\* number as long as the failbit of a shared std::stringstream is not set.
THEOREM CountersAlwaysAgree == Spec => []CountersAgree
  <1>1. Init => CountersInv
    <2> SUFFICES ASSUME Init PROVE CountersInv
      OBVIOUS
    <2>1. IsSeq(<<>>)
      BY EmptySeq DEF IsSeq
    <2>2. Len(<<>>) = 0
      OBVIOUS
    <2>. QED
      BY <2>1, <2>2 DEF Init, CountersInv, CountersAgree
  <1>2. ASSUME CountersInv, [Next]_vars
        PROVE  CountersInv'
    <2>1. CASE WriteByte
      BY <1>2, <2>1, WriteByteCounts
    <2>2. CASE NumberByte \/ TextByte
      BY <1>2, <2>2, TakeByteCounts DEF NumberByte, TextByte
    <2>3. ASSUME NEW v \in AllArguments, StartWrite(v)
          PROVE  CountersInv'
      BY <1>2, <2>3 DEF StartWrite, CountersInv, CountersAgree, rvars
    <2>4. CASE WriteFails
      BY <1>2, <2>4 DEF WriteFails, CountersInv, CountersAgree, rvars
    <2>5. CASE StartRead
      BY <1>2, <2>5 DEF StartRead, CountersInv, CountersAgree, wvars
    <2>6. CASE ReadFails
      BY <1>2, <2>6 DEF ReadFails, CountersInv, CountersAgree, wvars
    <2>7. CASE UNCHANGED vars
      BY <1>2, <2>7
         DEF CountersInv, CountersAgree, IsSeq, vars, wvars, rvars
    <2>. QED
      BY <1>2, <2>1, <2>2, <2>3, <2>4, <2>5, <2>6, <2>7
         DEF Next, Writer, Reader
  <1>3. CountersInv => CountersAgree
    BY DEF CountersInv
  <1>. QED
    BY <1>1, <1>2, <1>3, PTL DEF Spec

-----------------------------------------------------------------------------
(* Sequences. *)

\* The first element of a concatenation, and what follows it.
LEMMA ConcatHeadTail ==
    ASSUME NEW S, NEW p \in Seq(S), NEW q \in Seq(S), p # <<>>
    PROVE  /\ p \o q \in Seq(S)
           /\ p \o q # <<>>
           /\ Head(p \o q) = Head(p)
           /\ Tail(p \o q) = Tail(p) \o q
  <1> DEFINE c == p \o q
             d == Tail(p) \o q
  <1>1. /\ c \in Seq(S) /\ Len(c) = Len(p) + Len(q)
        /\ \A i \in 1 .. Len(p) + Len(q) :
               c[i] = IF i <= Len(p) THEN p[i] ELSE q[i - Len(p)]
    BY ConcatProperties
  <1>2. Len(p) \in Nat \ {0} /\ Len(q) \in Nat
    BY EmptySeq, LenProperties
  <1>3. /\ Tail(p) \in Seq(S) /\ Len(Tail(p)) = Len(p) - 1
        /\ \A i \in 1 .. Len(Tail(p)) : Tail(p)[i] = p[i + 1]
    BY HeadTailProperties
  <1>4. /\ d \in Seq(S) /\ Len(d) = Len(Tail(p)) + Len(q)
        /\ \A i \in 1 .. Len(Tail(p)) + Len(q) :
               d[i] = IF i <= Len(Tail(p)) THEN Tail(p)[i]
                      ELSE q[i - Len(Tail(p))]
    BY <1>3, ConcatProperties
  <1> HIDE DEF c, d
  <1>5. c # <<>> /\ Len(c) \in Nat \ {0}
    <2>1. Len(c) # 0
      BY <1>1, <1>2
    <2>. QED
      BY <1>1, <2>1, EmptySeq
  <1>6. /\ Tail(c) \in Seq(S) /\ Len(Tail(c)) = Len(c) - 1
        /\ \A i \in 1 .. Len(Tail(c)) : Tail(c)[i] = c[i + 1]
    BY <1>1, <1>5, HeadTailProperties
  <1>7. Head(c) = Head(p)
    <2>1. Head(c) = c[1] /\ Head(p) = p[1]
      BY <1>1, <1>2, <1>5
    <2>2. c[1] = p[1]
      BY <1>1, <1>2
    <2>. QED
      BY <2>1, <2>2
  <1>8. Len(Tail(c)) = Len(d)
    BY <1>1, <1>2, <1>3, <1>4, <1>6
  <1>9. ASSUME NEW i \in 1 .. Len(d)
        PROVE  Tail(c)[i] = d[i]
    <2>1. Tail(c)[i] = c[i + 1]
      BY <1>6, <1>8
    <2>2. i + 1 \in 1 .. Len(p) + Len(q) /\ i \in 1 .. Len(Tail(p)) + Len(q)
      BY <1>2, <1>3, <1>4
    <2>3. CASE i <= Len(Tail(p))
      <3>1. d[i] = p[i + 1] /\ c[i + 1] = p[i + 1]
        BY <1>1, <1>2, <1>3, <1>4, <2>2, <2>3
      <3>. QED
        BY <2>1, <3>1
    <2>4. CASE ~ (i <= Len(Tail(p)))
      <3>1. d[i] = q[i - Len(Tail(p))] /\ c[i + 1] = q[(i + 1) - Len(p)]
        BY <1>1, <1>2, <1>3, <1>4, <2>2, <2>4
      <3>2. i - Len(Tail(p)) = (i + 1) - Len(p)
        BY <1>2, <1>3
      <3>. QED
        BY <2>1, <3>1, <3>2
    <2>. QED
      BY <2>3, <2>4
  <1>10. Tail(c) = d
    BY <1>4, <1>6, <1>8, <1>9, SeqEqual
  <1>. QED
    BY <1>1, <1>5, <1>7, <1>10 DEF c, d

\* Two sequences with the same first element and the same rest are the same.
LEMMA SameHeadTail ==
    ASSUME NEW S, NEW p \in Seq(S), NEW q \in Seq(S), p # <<>>, q # <<>>,
           Head(p) = Head(q), Tail(p) = Tail(q)
    PROVE  p = q
  <1> DEFINE t == Tail(p)
  <1>0. t = Tail(p) /\ t = Tail(q)
    OBVIOUS
  <1> HIDE DEF t
  <1>1. Len(p) \in Nat \ {0} /\ Len(q) \in Nat \ {0}
    BY EmptySeq
  <1>2. /\ Len(t) = Len(p) - 1 /\ \A i \in 1 .. Len(t) : t[i] = p[i + 1]
        /\ Len(t) = Len(q) - 1 /\ \A i \in 1 .. Len(t) : t[i] = q[i + 1]
    <2>1. Len(t) = Len(p) - 1 /\ \A i \in 1 .. Len(t) : t[i] = p[i + 1]
      BY <1>0, HeadTailProperties
    <2>2. Len(t) = Len(q) - 1 /\ \A i \in 1 .. Len(t) : t[i] = q[i + 1]
      BY <1>0, HeadTailProperties
    <2>. QED
      BY <2>1, <2>2
  <1>3. Len(p) = Len(q)
    BY <1>1, <1>2
  <1>4. ASSUME NEW i \in 1 .. Len(p)
        PROVE  p[i] = q[i]
    <2>1. CASE i = 1
      BY <2>1
    <2>2. CASE i # 1
      <3> DEFINE j == i - 1
      <3>1. j \in 1 .. Len(t) /\ j + 1 = i
        BY <1>1, <1>2, <2>2
      <3> HIDE DEF j
      <3>. QED
        BY <1>2, <3>1
    <2>. QED
      BY <2>1, <2>2
  <1>. QED
    BY <1>3, <1>4, SeqEqual

\* Moving the first element of b to the end of a changes nothing of a \o b.
LEMMA MoveHead ==
    ASSUME NEW S, NEW a \in Seq(S), NEW b \in Seq(S), b # <<>>
    PROVE  /\ Append(a, Head(b)) \in Seq(S)
           /\ Tail(b) \in Seq(S)
           /\ Append(a, Head(b)) \o Tail(b) = a \o b
  <1> DEFINE e == Head(b)
             t == Tail(b)
             o == <<e>>
  <1>1. e \in S /\ t \in Seq(S) /\ o \in Seq(S) /\ o # <<>>
    BY HeadTailProperties
  <1>2. Append(a, e) \in Seq(S) /\ Append(a, e) = a \o o
    BY <1>1, AppendProperties, AppendIsConcat
  <1>3. o \o t = b
    <2>1. Head(o) = e /\ Tail(o) = <<>>
      OBVIOUS
    <2> HIDE DEF o, e, t
    <2>2. <<>> \o t = t
      BY <1>1, ConcatEmptySeq
    <2>3. /\ o \o t \in Seq(S) /\ o \o t # <<>>
          /\ Head(o \o t) = Head(o) /\ Tail(o \o t) = Tail(o) \o t
      BY <1>1, ConcatHeadTail
    <2>. QED
      BY <2>1, <2>2, <2>3, SameHeadTail DEF e, t
  <1>4. (a \o o) \o t = a \o (o \o t)
    <2> HIDE DEF o, e, t
    <2>. QED
      BY <1>1, ConcatAssociative
  <1>. QED
    BY <1>1, <1>2, <1>3, <1>4

-----------------------------------------------------------------------------
(* The calls. *)

\* The word that a call writes, and the characters that it writes after it.
Word(kind, v) ==
    CASE kind = "String" -> Len(v)
      [] kind \in {"SignedVarint32", "SignedVarint64"} -> EncodeZigZag(v[1])
      [] OTHER -> v[1]

Characters(kind, v) == IF kind = "String" THEN v ELSE <<>>

\* A call in progress that has read nothing of v yet.
LEMMA WordOfCall ==
    ASSUME NEW kind \in Kinds, NEW v \in Arguments(kind)
    PROVE  /\ Word(kind, v) \in 0 .. (U64 - 1)
           /\ Is32Bit(kind) => Word(kind, v) < U32
           /\ kind = "String" => v \in Texts
           /\ kind # "String" => v = <<Result(kind, Word(kind, v))>>
           /\ kind = "FixedInt32" => Word(kind, v) < Words(N32)
           /\ kind = "FixedInt64" => Word(kind, v) < Words(N64)
  <1>1. U32 \in Nat /\ U64 \in Nat /\ U32 <= U64 /\ U32 > 1
    BY WireAssumption
  <1>2. U32 = Words(N32) /\ U64 = Words(N64)
    BY WordAssumption
  <1>3. CASE kind = "String"
    <2>1. v \in Texts /\ Word(kind, v) = Len(v)
      BY <1>3 DEF Arguments, Word
    <2>2. Len(v) \in Nat /\ Len(v) < U32
      BY <2>1, CodedStreamAssumption
    <2>. QED
      BY <1>1, <1>3, <2>1, <2>2
  <1>4. CASE kind # "String"
    <2>1. PICK u \in Samples : v = <<Argument(kind, u)>>
      BY <1>4 DEF Arguments
    <2>2. u \in Nat /\ u < U64 /\ u \in 0 .. (U64 - 1)
      BY <1>1, CodedStreamAssumption
    <2>3. u % U32 \in 0 .. (U32 - 1) /\ u % U32 \in Nat
      BY <1>1, <2>2
    <2>4. v[1] = Argument(kind, u)
      BY <2>1
    <2>5. CASE kind \in {"SignedVarint32", "SignedVarint64"}
      <3>1. Word(kind, v) = EncodeZigZag(v[1])
        BY <1>4, <2>5 DEF Word
      <3>2. Result(kind, Word(kind, v)) = DecodeZigZag(Word(kind, v))
        BY <2>5 DEF Result
      <3>3. CASE kind = "SignedVarint32"
        <4>1. v[1] = ToSigned(u % U32, U32)
          BY <2>4, <3>3 DEF Argument
        <4>2. PICK h \in Nat : U32 = 2 * h
          BY WordsAreEven
        <4>3. /\ EncodeZigZag(v[1]) \in 0 .. (U32 - 1)
              /\ DecodeZigZag(EncodeZigZag(v[1])) = v[1]
          BY <1>1, <2>3, <4>1, <4>2, ZigZagRestores
        <4>4. v = <<v[1]>>
          BY <2>1, <2>4
        <4>. QED
          BY <1>1, <1>4, <3>1, <3>2, <3>3, <4>3, <4>4
      <3>4. CASE kind = "SignedVarint64"
        <4>1. v[1] = ToSigned(u, U64)
          BY <2>4, <3>4 DEF Argument
        <4>2. PICK h \in Nat : U64 = 2 * h
          BY WordsAreEven
        <4>3. /\ EncodeZigZag(v[1]) \in 0 .. (U64 - 1)
              /\ DecodeZigZag(EncodeZigZag(v[1])) = v[1]
          BY <1>1, <2>2, <4>1, <4>2, ZigZagRestores
        <4>4. v = <<v[1]>>
          BY <2>1, <2>4
        <4>. QED
          BY <1>1, <1>4, <3>1, <3>2, <3>4, <4>3, <4>4 DEF Is32Bit
      <3>. QED
        BY <2>5, <3>3, <3>4
    <2>6. CASE kind \in {"Varint32", "FixedInt32"}
      <3>1. v[1] = u % U32 /\ Word(kind, v) = v[1]
        BY <2>4, <2>6 DEF Argument, Word
      <3>2. Result(kind, Word(kind, v)) = v[1]
        BY <2>6, <3>1 DEF Result
      <3>. QED
        BY <1>1, <1>2, <2>1, <2>3, <2>4, <2>6, <3>1, <3>2
    <2>7. CASE kind \in {"Varint64", "FixedInt64"}
      <3>1. v[1] = u /\ Word(kind, v) = v[1]
        BY <2>4, <2>7 DEF Argument, Word
      <3>2. Result(kind, Word(kind, v)) = v[1]
        BY <2>7, <3>1 DEF Result
      <3>. QED
        BY <1>1, <1>2, <2>1, <2>2, <2>4, <2>7, <3>1, <3>2 DEF Is32Bit
    <2>. QED
      BY <1>4, <2>5, <2>6, <2>7 DEF Kinds
  <1>. QED
    BY <1>3, <1>4

\* The reader's call for a value, before its first byte, expects exactly the
\* bytes that the writer's call for that value writes.
LEMMA CallExpectsBytes ==
    ASSUME NEW kind \in Kinds, NEW v \in Arguments(kind)
    PROVE  /\ Call(kind) \in ReadCalls
           /\ \E rest : /\ Reading(Call(kind), rest, Word(kind, v))
                        /\ rest \in Seq(Byte) /\ rest # <<>>
                        /\ Bytes(kind, v) = rest \o Characters(kind, v)
           /\ Characters(kind, v) \in Seq(Byte)
           /\ Bytes(kind, v) \in Seq(Byte) /\ Bytes(kind, v) # <<>>
  <1> DEFINE w == Word(kind, v)
             c == Characters(kind, v)
             rest == CASE kind = "FixedInt32" -> FixedBytes(w, N32)
                       [] kind = "FixedInt64" -> FixedBytes(w, N64)
                       [] OTHER -> VarintBytes(w)
  <1>1. w \in 0 .. (U64 - 1)
    BY WordOfCall
  <1>2. Call(kind) \in ReadCalls /\ Reading(Call(kind), rest, w)
    <2>1. CASE kind = "FixedInt32"
      <3>1. N32 \in Nat \ {0} /\ w < Words(N32)
        BY <2>1, WordOfCall, WireAssumption
      <3> HIDE DEF w
      <3>. QED
        BY <1>1, <2>1, <3>1, ReadingStarts DEF Call
    <2>2. CASE kind = "FixedInt64"
      <3>1. N64 \in Nat \ {0} /\ w < Words(N64)
        BY <2>2, WordOfCall, WireAssumption
      <3> HIDE DEF w
      <3>. QED
        BY <1>1, <2>2, <3>1, ReadingStarts DEF Call
    <2>3. CASE kind \notin {"FixedInt32", "FixedInt64"}
      <3> HIDE DEF w
      <3>. QED
        BY <1>1, <2>3, ReadingStarts DEF Call
    <2>. QED
      BY <2>1, <2>2, <2>3
  <1>3. c \in Seq(Byte)
    <2>1. kind = "String" => v \in Seq(Byte)
      BY WordOfCall, CodedStreamAssumption
    <2>. QED
      BY <2>1, EmptySeq DEF Characters
  <1>4. rest \in Seq(Byte) /\ rest # <<>>
    <2> HIDE DEF rest, w
    <2>. QED
      BY <1>1, <1>2, ReadingNext
  <1>5. Bytes(kind, v) = rest \o c
    <2>1. CASE kind = "String"
      BY <2>1 DEF Bytes, Characters, Word
    <2>2. CASE kind # "String"
      <3>1. rest \o c = rest
        <4>1. c = <<>>
          BY <2>2 DEF Characters
        <4> HIDE DEF rest, c
        <4>. QED
          BY <1>4, <4>1, ConcatEmptySeq
      <3>2. Bytes(kind, v) = rest
        BY <2>2 DEF Bytes, Word, Kinds
      <3>. QED
        BY <3>1, <3>2
    <2>. QED
      BY <2>1, <2>2
  <1> HIDE DEF rest, c, w
  <1>6. Bytes(kind, v) \in Seq(Byte) /\ Bytes(kind, v) # <<>>
    BY <1>3, <1>4, <1>5, ConcatHeadTail
  <1>. QED
    BY <1>2, <1>3, <1>4, <1>5, <1>6 DEF w, c

-----------------------------------------------------------------------------
(* Where the reader is among the bytes of the values.                      *)
(* vals are the values whose Write calls have been made, the last of which *)
(* may be under way; left are their bytes that the reader has not taken.   *)

\* The arguments of the calls of the script s.
MatchScript(s, vals) ==
    /\ vals \in Seq(AllArguments)
    /\ s \in Seq(Kinds)
    /\ Len(vals) <= Len(s)
    /\ \A k \in 1 .. Len(vals) : vals[k] \in Arguments(s[k])

\* later[k] are the bytes of all values after the first k, and size[k] is the
\* number of bytes of the first k.
Layout(s, vals, later, size) ==
    /\ later \in [0 .. Len(vals) -> Seq(Byte)]
    /\ size \in [0 .. Len(vals) -> Nat]
    /\ later[Len(vals)] = <<>>
    /\ size[0] = 0
    /\ \A k \in 1 .. Len(vals) :
           /\ later[k - 1] = Bytes(s[k], vals[k]) \o later[k]
           /\ size[k] = size[k - 1] + Len(Bytes(s[k], vals[k]))

\* Between two calls.
AtCall(later, size, left, c, m) ==
    /\ left = later[m]
    /\ c = size[m]

\* In a call whose value the writer has not begun to write.
BeforeWrite(s, vals, size, left, r, c, m) ==
    /\ m = Len(vals)
    /\ left = <<>>
    /\ c = size[m]
    /\ r = Call(s[m + 1])

\* In a number, or in the size of a string.
InNumber(s, vals, later, size, left, r, c, m) ==
    /\ m < Len(vals)
    /\ \E rest \in Seq(Byte) :
           LET all == rest \o Characters(s[m + 1], vals[m + 1])
           IN  /\ Reading(r, rest, Word(s[m + 1], vals[m + 1]))
               /\ left = all \o later[m + 1]
               /\ c + Len(all) = size[m + 1]

\* In the characters of a string.
InText(s, vals, later, size, left, r, t, c, m) ==
    /\ m < Len(vals)
    /\ s[m + 1] = "String"
    /\ r.acc = Len(vals[m + 1])
    /\ \E rest \in Seq(Byte) :
           /\ rest # <<>>
           /\ vals[m + 1] = t \o rest
           /\ left = rest \o later[m + 1]
           /\ c + Len(rest) = size[m + 1]

Position(s, vals, later, size, left, pc, r, t, c, m) ==
    /\ pc = "idle" => AtCall(later, size, left, c, m)
    /\ pc = "number" => \/ BeforeWrite(s, vals, size, left, r, c, m)
                        \/ InNumber(s, vals, later, size, left, r, c, m)
    /\ pc = "text" => InText(s, vals, later, size, left, r, t, c, m)

\* The bytes of every value of the script.
LEMMA ScriptBytes ==
    ASSUME NEW s, NEW vals, MatchScript(s, vals), NEW k \in 1 .. Len(vals)
    PROVE  /\ s[k] \in Kinds
           /\ vals[k] \in Arguments(s[k])
           /\ Bytes(s[k], vals[k]) \in Seq(Byte)
  <1>1. s[k] \in Kinds
    <2>1. s \in Seq(Kinds) /\ Len(s) \in Nat /\ k \in 1 .. Len(s)
      BY LenProperties DEF MatchScript
    <2>. QED
      BY <2>1, ElementOfSeq
  <1>2. vals[k] \in Arguments(s[k])
    BY DEF MatchScript
  <1>. QED
    BY <1>1, <1>2, CallExpectsBytes

\* Concatenation of sequences of bytes.
LEMMA ByteConcat ==
    \A x, y, z \in Seq(Byte) : (x \o y) \o z = x \o (y \o z)
  BY ConcatAssociative

\* What the bytes b of the last of the values w change of the layout.
Grown(s, vals, w, later, size, later2, size2, n, b) ==
    /\ n \in Nat /\ n = Len(vals) /\ Len(w) = n + 1
    /\ b \in Seq(Byte) /\ b = Bytes(s[n + 1], w[n + 1])
    /\ \A k \in 1 .. n : w[k] = vals[k]
    /\ \A k \in 0 .. n : later2[k] = later[k] \o b /\ size2[k] = size[k]
    /\ later2[n + 1] = <<>>
    /\ size2[n + 1] = size[n] + Len(b)

LaterWith(later, n, b) ==
    [k \in 0 .. (n + 1) |-> IF k = n + 1 THEN <<>> ELSE later[k] \o b]

SizeWith(size, n, b) ==
    [k \in 0 .. (n + 1) |-> IF k = n + 1 THEN size[n] + Len(b) ELSE size[k]]

\* The writer begins to write one more value.
LEMMA LayoutGrows ==
    ASSUME NEW s, NEW vals, NEW v, NEW later, NEW size,
           MatchScript(s, vals), MatchScript(s, Append(vals, v)),
           v \in AllArguments, Layout(s, vals, later, size),
           NEW n, NEW b, n = Len(vals), b = Bytes(s[n + 1], v)
    PROVE  /\ Layout(s, Append(vals, v),
                     LaterWith(later, n, b), SizeWith(size, n, b))
           /\ Grown(s, vals, Append(vals, v), later, size,
                    LaterWith(later, n, b), SizeWith(size, n, b), n, b)
  <1> DEFINE w == Append(vals, v)
             later2 == LaterWith(later, n, b)
             size2 == SizeWith(size, n, b)
  <1>0. /\ later2 = [k \in 0 .. (n + 1) |->
                        IF k = n + 1 THEN <<>> ELSE later[k] \o b]
        /\ size2 = [k \in 0 .. (n + 1) |->
                        IF k = n + 1 THEN size[n] + Len(b) ELSE size[k]]
    BY DEF LaterWith, SizeWith
  <1> HIDE DEF later2, size2
  <1>1. /\ n \in Nat /\ Len(w) = n + 1
        /\ \A k \in 1 .. n : w[k] = vals[k]
        /\ w[n + 1] = v
    BY AppendProperties, LenProperties DEF MatchScript
  <1>2. b \in Seq(Byte) /\ Len(b) \in Nat
    <2>1. n + 1 \in 1 .. Len(w)
      BY <1>1
    <2>2. Bytes(s[n + 1], w[n + 1]) \in Seq(Byte)
      BY <2>1, ScriptBytes
    <2>. QED
      BY <1>1, <2>2, LenProperties
  <1>3. /\ later \in [0 .. n -> Seq(Byte)]
        /\ size \in [0 .. n -> Nat]
        /\ later[n] = <<>>
        /\ size[0] = 0
        /\ \A k \in 1 .. n :
               /\ later[k - 1] = Bytes(s[k], vals[k]) \o later[k]
               /\ size[k] = size[k - 1] + Len(Bytes(s[k], vals[k]))
    BY DEF Layout
  <1> HIDE DEF w
  <1>4. \A k \in 0 .. n : /\ later[k] \in Seq(Byte)
                          /\ later[k] \o b \in Seq(Byte)
    <2>1. ASSUME NEW k \in 0 .. n
          PROVE  later[k] \in Seq(Byte) /\ later[k] \o b \in Seq(Byte)
      <3>1. later[k] \in Seq(Byte)
        BY <1>3
      <3>. QED
        BY <1>2, <3>1, ConcatProperties
    <2>. QED
      BY <2>1
  <1>5. /\ later2 \in [0 .. (n + 1) -> Seq(Byte)]
        /\ \A k \in 0 .. n : later2[k] = later[k] \o b
        /\ later2[n + 1] = <<>>
    <2>1. <<>> \in Seq(Byte)
      BY EmptySeq
    <2>2. \A k \in 0 .. (n + 1) : later2[k] \in Seq(Byte)
      BY <1>0, <1>1, <1>4, <2>1
    <2>3. later2 = [k \in 0 .. (n + 1) |-> later2[k]]
      BY <1>0
    <2>4. n + 1 \in 0 .. (n + 1) /\ \A k \in 0 .. n : k \in 0 .. (n + 1) /\ k # n + 1
      BY <1>1
    <2>. QED
      BY <1>0, <2>2, <2>3, <2>4
  <1>6. /\ size2 \in [0 .. (n + 1) -> Nat]
        /\ \A k \in 0 .. n : size2[k] = size[k]
        /\ size2[n + 1] = size[n] + Len(b)
    <2>1. n + 1 \in 0 .. (n + 1) /\ \A k \in 0 .. n : k \in 0 .. (n + 1) /\ k # n + 1
      BY <1>1
    <2>2. /\ \A k \in 0 .. n : size2[k] = size[k]
          /\ size2[n + 1] = size[n] + Len(b)
      BY <1>0, <2>1
    <2>3. \A k \in 0 .. n : size[k] \in Nat
      BY <1>3
    <2>4. size[n] + Len(b) \in Nat
      BY <1>1, <1>2, <2>3
    <2>5. \A k \in 0 .. (n + 1) : k = n + 1 \/ k \in 0 .. n
      BY <1>1
    <2>6. \A k \in 0 .. (n + 1) : size2[k] \in Nat
      BY <2>2, <2>3, <2>4, <2>5
    <2>7. size2 = [k \in 0 .. (n + 1) |-> size2[k]]
      BY <1>0
    <2>. QED
      BY <2>2, <2>6, <2>7
  <1>7. size2[0] = 0
    BY <1>1, <1>3, <1>6
  <1>8. ASSUME NEW k \in 1 .. (n + 1)
        PROVE  /\ later2[k - 1] = Bytes(s[k], w[k]) \o later2[k]
               /\ size2[k] = size2[k - 1] + Len(Bytes(s[k], w[k]))
    <2>1. CASE k = n + 1
      <3>1. k - 1 = n /\ n \in 0 .. n /\ Bytes(s[k], w[k]) = b
        BY <1>1, <2>1
      <3>2. later2[k - 1] = b /\ b = b \o <<>>
        <4>1. later2[n] = <<>> \o b
          BY <1>3, <1>5, <3>1
        <4>. QED
          BY <1>2, <3>1, <4>1, ConcatEmptySeq
      <3>. QED
        BY <1>5, <1>6, <2>1, <3>1, <3>2
    <2>2. CASE k # n + 1
      <3> DEFINE a == Bytes(s[k], vals[k])
      <3>1. k \in 1 .. n /\ k \in 0 .. n /\ k - 1 \in 0 .. n
        BY <1>1, <2>2
      <3>2. a \in Seq(Byte) /\ w[k] = vals[k]
        BY <1>1, <3>1, ScriptBytes
      <3>3. later[k - 1] = a \o later[k] /\ size[k] = size[k - 1] + Len(a)
        BY <1>3, <3>1
      <3> HIDE DEF a
      <3>4. (a \o later[k]) \o b = a \o (later[k] \o b)
        <4>1. later[k] \in Seq(Byte)
          BY <1>4, <3>1
        <4>. QED
          BY <1>2, <3>2, <4>1, ByteConcat
      <3>5. later2[k - 1] = a \o later2[k]
        BY <1>5, <3>1, <3>3, <3>4
      <3>6. size2[k] = size2[k - 1] + Len(a)
        BY <1>6, <3>1, <3>3
      <3>. QED
        BY <3>2, <3>5, <3>6 DEF a
    <2>. QED
      BY <2>1, <2>2
  <1>. QED
    BY <1>1, <1>2, <1>5, <1>6, <1>7, <1>8 DEF Layout, Grown, w, later2, size2

\* The bytes of the new value come after those that are left.
LEMMA PositionGrows ==
    ASSUME NEW s, NEW vals, NEW w, NEW later, NEW size, NEW later2, NEW size2,
           NEW n, NEW b, NEW m \in Nat, m <= Len(vals),
           NEW left \in Seq(Byte), NEW pc, NEW r, NEW t, NEW c,
           MatchScript(s, vals), MatchScript(s, w),
           Layout(s, vals, later, size),
           Grown(s, vals, w, later, size, later2, size2, n, b),
           Position(s, vals, later, size, left, pc, r, t, c, m)
    PROVE  Position(s, w, later2, size2, left \o b, pc, r, t, c, m)
  <1>1. n \in Nat /\ n = Len(vals) /\ Len(w) = n + 1 /\ b \in Seq(Byte)
    BY DEF Grown
  <1>2. ASSUME NEW k \in 0 .. n
        PROVE  /\ later[k] \in Seq(Byte)
               /\ later2[k] = later[k] \o b
               /\ size2[k] = size[k]
    BY <1>1, <1>2 DEF Layout, Grown
  <1>3. ASSUME AtCall(later, size, left, c, m)
        PROVE  AtCall(later2, size2, left \o b, c, m)
    <2>1. m \in 0 .. n
      BY <1>1
    <2>2. later2[m] = later[m] \o b /\ size2[m] = size[m]
      BY <1>2, <2>1
    <2>. QED
      BY <1>3, <2>2 DEF AtCall
  <1>4. ASSUME BeforeWrite(s, vals, size, left, r, c, m)
        PROVE  InNumber(s, w, later2, size2, left \o b, r, c, m)
    <2> DEFINE v == w[m + 1]
               kind == s[m + 1]
    <2>1. m = n /\ left = <<>> /\ c = size[m] /\ r = Call(kind)
      BY <1>1, <1>4 DEF BeforeWrite
    <2>2. m + 1 \in 1 .. Len(w)
      BY <1>1, <2>1
    <2>3. kind \in Kinds /\ v \in Arguments(kind)
      BY <2>2, ScriptBytes
    <2>4. /\ b = Bytes(kind, v)
          /\ later2[m + 1] = <<>>
          /\ size2[m + 1] = c + Len(b)
      BY <2>1 DEF Grown
    <2> HIDE DEF v, kind
    <2>5. PICK rest \in Seq(Byte) :
              /\ Reading(r, rest, Word(kind, v))
              /\ b = rest \o Characters(kind, v)
      BY <2>1, <2>3, <2>4, CallExpectsBytes
    <2>6. left \o b = b \o later2[m + 1]
      BY <1>1, <2>1, <2>4, ConcatEmptySeq
    <2>7. m < Len(w)
      BY <1>1, <2>1
    <2>8. \E x \in Seq(Byte) :
              LET all == x \o Characters(kind, v)
              IN  /\ Reading(r, x, Word(kind, v))
                  /\ left \o b = all \o later2[m + 1]
                  /\ c + Len(all) = size2[m + 1]
      BY <2>4, <2>5, <2>6
    <2>. QED
      BY <2>7, <2>8 DEF InNumber, v, kind
  <1>5. ASSUME InNumber(s, vals, later, size, left, r, c, m)
        PROVE  InNumber(s, w, later2, size2, left \o b, r, c, m)
    <2> DEFINE v == vals[m + 1]
               kind == s[m + 1]
               chars == Characters(kind, v)
               after == later[m + 1]
    <2>1. m < n /\ m + 1 \in 1 .. n /\ m + 1 \in 0 .. n
      BY <1>1, <1>5 DEF InNumber
    <2>2. w[m + 1] = v
      BY <2>1 DEF Grown
    <2>3. /\ after \in Seq(Byte)
          /\ later2[m + 1] = after \o b
          /\ size2[m + 1] = size[m + 1]
      BY <1>2, <2>1
    <2>4. PICK rest \in Seq(Byte) :
              /\ Reading(r, rest, Word(kind, v))
              /\ left = (rest \o chars) \o after
              /\ c + Len(rest \o chars) = size[m + 1]
      BY <1>5 DEF InNumber
    <2>5. kind \in Kinds /\ v \in Arguments(kind)
      BY <1>1, <2>1, ScriptBytes
    <2> HIDE DEF kind, v, after
    <2>6. chars \in Seq(Byte)
      BY <2>5, CallExpectsBytes
    <2> HIDE DEF chars
    <2> DEFINE all == rest \o chars
    <2>7. all \in Seq(Byte)
      BY <2>6, ConcatProperties
    <2>8. left = all \o after
      BY <2>4
    <2> HIDE DEF all
    <2>9. left \o b = all \o (after \o b)
      BY <1>1, <2>3, <2>7, <2>8, ByteConcat
    <2>10. m < Len(w)
      BY <1>1, <2>1
    <2>11. /\ left \o b = (rest \o chars) \o later2[m + 1]
           /\ c + Len(rest \o chars) = size2[m + 1]
      BY <2>3, <2>4, <2>9 DEF all
    <2>. QED
      BY <2>2, <2>4, <2>10, <2>11 DEF InNumber, kind, v, chars
  <1>6. ASSUME InText(s, vals, later, size, left, r, t, c, m)
        PROVE  InText(s, w, later2, size2, left \o b, r, t, c, m)
    <2> DEFINE v == vals[m + 1]
               after == later[m + 1]
    <2>1. m < n /\ m + 1 \in 1 .. n /\ m + 1 \in 0 .. n
      BY <1>1, <1>6 DEF InText
    <2>2. w[m + 1] = v
      BY <2>1 DEF Grown
    <2>3. /\ after \in Seq(Byte)
          /\ later2[m + 1] = after \o b
          /\ size2[m + 1] = size[m + 1]
      BY <1>2, <2>1
    <2>4. PICK rest \in Seq(Byte) : /\ rest # <<>>
                                    /\ v = t \o rest
                                    /\ left = rest \o after
                                    /\ c + Len(rest) = size[m + 1]
      BY <1>6 DEF InText
    <2>5. m < Len(w) /\ s[m + 1] = "String" /\ r.acc = Len(w[m + 1])
      BY <1>1, <1>6, <2>1, <2>2 DEF InText
    <2> HIDE DEF v, after
    <2>6. left \o b = rest \o (after \o b)
      BY <1>1, <2>3, <2>4, ByteConcat
    <2>. QED
      BY <2>2, <2>3, <2>4, <2>5, <2>6 DEF InText
  <1>. QED
    BY <1>3, <1>4, <1>5, <1>6 DEF Position

\* The reader makes its next call.
LEMMA CallStarts ==
    ASSUME NEW s, NEW vals, NEW later, NEW size, NEW left, NEW c, NEW m \in Nat,
           MatchScript(s, vals), Layout(s, vals, later, size), m <= Len(vals),
           AtCall(later, size, left, c, m)
    PROVE  \/ BeforeWrite(s, vals, size, left, Call(s[m + 1]), c, m)
           \/ InNumber(s, vals, later, size, left, Call(s[m + 1]), c, m)
  <1>1. Len(vals) \in Nat
    BY LenProperties DEF MatchScript
  <1>2. CASE m = Len(vals)
    BY <1>2 DEF AtCall, Layout, BeforeWrite
  <1>3. CASE m # Len(vals)
    <2> DEFINE v == vals[m + 1]
               kind == s[m + 1]
               all == Bytes(kind, v)
    <2>1. m < Len(vals) /\ m + 1 \in 1 .. Len(vals) /\ (m + 1) - 1 = m
      BY <1>1, <1>3
    <2>2. left = all \o later[m + 1] /\ size[m + 1] = c + Len(all)
      BY <2>1 DEF Layout, AtCall
    <2>3. kind \in Kinds /\ v \in Arguments(kind)
      BY <2>1, ScriptBytes
    <2>4. PICK rest \in Seq(Byte) :
              /\ Reading(Call(kind), rest, Word(kind, v))
              /\ all = rest \o Characters(kind, v)
      <3> HIDE DEF v, kind
      <3>. QED
        BY <2>3, CallExpectsBytes
    <2> HIDE DEF all
    <2>5. InNumber(s, vals, later, size, left, Call(kind), c, m)
      BY <2>1, <2>2, <2>4 DEF InNumber
    <2>. QED
      BY <2>5
  <1>. QED
    BY <1>2, <1>3

\* The reader is fed with a byte of a number: it is the next byte of what the
\* writer wrote, and the call does not reject it.
LEMMA NumberStep ==
    ASSUME NEW s, NEW vals, NEW later, NEW size, NEW left, NEW r \in ReadCalls,
           NEW c \in Nat, NEW m \in Nat,
           MatchScript(s, vals), Layout(s, vals, later, size),
           InNumber(s, vals, later, size, left, r, c, m),
           NEW b, NEW f, NEW kind,
           b = Head(left), f = Feed(r, b), kind = s[m + 1]
    PROVE  /\ m < Len(vals)
           /\ b \in Byte
           /\ f \in ReadCalls
           /\ ~ Overflows(r, b)
           /\ ~ (Is32Bit(kind) /\ TooBig(r, b))
           /\ ~ Ends(r, b)
                => InNumber(s, vals, later, size, Tail(left), f, c + 1, m)
           /\ Ends(r, b) /\ kind # "String"
                => /\ vals[m + 1] = <<Result(kind, f.acc)>>
                   /\ AtCall(later, size, Tail(left), c + 1, m + 1)
           /\ Ends(r, b) /\ kind = "String" /\ f.acc = 0
                => /\ vals[m + 1] = <<>>
                   /\ AtCall(later, size, Tail(left), c + 1, m + 1)
           /\ Ends(r, b) /\ kind = "String" /\ f.acc # 0
                => InText(s, vals, later, size, Tail(left), f, <<>>, c + 1, m)
  <1> DEFINE v == vals[m + 1]
             chars == Characters(kind, v)
             after == later[m + 1]
             word == Word(kind, v)
  <1>1. Len(vals) \in Nat
    BY LenProperties DEF MatchScript
  <1>2. m < Len(vals) /\ m + 1 \in 1 .. Len(vals) /\ m + 1 \in 0 .. Len(vals)
    BY <1>1 DEF InNumber
  <1>3. PICK rest \in Seq(Byte) :
            /\ Reading(r, rest, word)
            /\ left = (rest \o chars) \o after
            /\ c + Len(rest \o chars) = size[m + 1]
    BY DEF InNumber
  <1>4. kind \in Kinds /\ v \in Arguments(kind)
    BY <1>2, ScriptBytes
  <1>5. after \in Seq(Byte) /\ size[m + 1] \in Nat
    BY <1>2 DEF Layout
  <1> HIDE DEF v, after
  <1>6. /\ word \in 0 .. (U64 - 1)
        /\ Is32Bit(kind) => word < U32
        /\ kind = "String" => v \in Texts
        /\ kind # "String" => v = <<Result(kind, word)>>
    BY <1>4, WordOfCall
  <1>7. chars \in Seq(Byte)
    BY <1>4, CallExpectsBytes
  <1> DEFINE all == rest \o chars
             rest2 == Tail(rest)
             all2 == rest2 \o chars
  <1> HIDE DEF chars, word
  <1>8. /\ rest # <<>>
        /\ Feed(r, Head(rest)) \in ReadCalls
        /\ ~ Overflows(r, Head(rest))
        /\ Ends(r, Head(rest)) <=> rest2 = <<>>
        /\ Ends(r, Head(rest)) => Feed(r, Head(rest)).acc = word
        /\ ~ Ends(r, Head(rest))
             => Reading(Feed(r, Head(rest)), rest2, word)
    BY <1>3, <1>6, ReadingNext
  <1>9. /\ all \in Seq(Byte) /\ all # <<>>
        /\ Head(all) = Head(rest)
        /\ Tail(all) = all2
    BY <1>7, <1>8, ConcatHeadTail
  <1>10. rest2 \in Seq(Byte) /\ Head(rest) \in Byte
    BY <1>8, HeadTailProperties
  <1>11. all2 \in Seq(Byte)
    <2> HIDE DEF rest2
    <2>. QED
      BY <1>7, <1>10, ConcatProperties
  <1>12. Len(all) \in Nat /\ Len(all2) = Len(all) - 1 /\ Len(all2) \in Nat
    <2> HIDE DEF all, all2
    <2>. QED
      BY <1>9, <1>11, HeadTailProperties, LenProperties
  <1>13. left = all \o after /\ c + Len(all) = size[m + 1]
    BY <1>3
  <1> HIDE DEF all, all2, rest2
  <1>14. b = Head(rest) /\ Tail(left) = all2 \o after
    BY <1>5, <1>9, <1>13, ConcatHeadTail
  <1>15. (c + 1) + Len(all2) = size[m + 1]
    BY <1>5, <1>12, <1>13
  <1>16. /\ f \in ReadCalls
         /\ ~ Overflows(r, b)
         /\ Ends(r, b) <=> rest2 = <<>>
         /\ Ends(r, b) => f.acc = word
         /\ ~ Ends(r, b) => Reading(f, rest2, word)
    BY <1>8, <1>14
  <1>17. ~ (Is32Bit(kind) /\ TooBig(r, b))
    <2>1. Ends(r, b) /\ Is32Bit(kind) => Feed(r, b).acc < U32
      BY <1>6, <1>16
    <2>2. Ends(r, b) => Feed(r, b).acc \in Nat
      BY <1>6, <1>16, WireAssumption
    <2>3. U32 \in Nat
      BY WireAssumption
    <2>. QED
      BY <2>1, <2>2, <2>3 DEF TooBig
  <1>18. ASSUME ~ Ends(r, b)
         PROVE  InNumber(s, vals, later, size, Tail(left), f, c + 1, m)
    <2>1. \E x \in Seq(Byte) :
              LET a == x \o Characters(s[m + 1], vals[m + 1])
              IN  /\ Reading(f, x, Word(s[m + 1], vals[m + 1]))
                  /\ Tail(left) = a \o later[m + 1]
                  /\ (c + 1) + Len(a) = size[m + 1]
      <3>1. /\ Reading(f, rest2, Word(s[m + 1], vals[m + 1]))
            /\ Tail(left) = (rest2 \o Characters(s[m + 1], vals[m + 1]))
                            \o later[m + 1]
            /\ (c + 1) + Len(rest2 \o Characters(s[m + 1], vals[m + 1]))
               = size[m + 1]
        BY <1>14, <1>15, <1>16, <1>18 DEF all2, chars, v, word, after
      <3>. QED
        BY <1>10, <3>1
    <2>. QED
      BY <1>2, <2>1 DEF InNumber
  <1>19. ASSUME Ends(r, b)
         PROVE  all2 = chars /\ f.acc = word
    BY <1>7, <1>16, <1>19, ConcatEmptySeq DEF all2
  <1>20. ASSUME Ends(r, b), chars = <<>>
         PROVE  AtCall(later, size, Tail(left), c + 1, m + 1)
    <2>1. all2 = <<>>
      BY <1>19, <1>20
    <2>2. Tail(left) = after
      BY <1>5, <1>14, <2>1, ConcatEmptySeq
    <2>3. Len(<<>>) = 0
      OBVIOUS
    <2>4. c + 1 = size[m + 1]
      BY <1>15, <2>1, <2>3
    <2>. QED
      BY <2>2, <2>4 DEF AtCall, after
  <1>21. CASE kind # "String"
    <2>1. chars = <<>>
      BY <1>21 DEF chars, Characters
    <2>2. Ends(r, b) => vals[m + 1] = <<Result(kind, f.acc)>>
      BY <1>6, <1>19, <1>21 DEF v
    <2>. QED
      BY <1>2, <1>10, <1>14, <1>16, <1>17, <1>18, <1>20, <1>21, <2>1, <2>2
  <1>22. CASE kind = "String"
    <2>1. chars = v /\ word = Len(v) /\ v \in Seq(Byte)
      BY <1>6, <1>22, CodedStreamAssumption DEF chars, Characters, word, Word
    <2>2. ASSUME Ends(r, b), f.acc = 0
          PROVE  /\ vals[m + 1] = <<>>
                 /\ AtCall(later, size, Tail(left), c + 1, m + 1)
      <3>1. Len(v) = 0
        BY <1>19, <2>1, <2>2
      <3>2. v = <<>>
        BY <2>1, <3>1, EmptySeq
      <3>. QED
        BY <1>20, <2>1, <2>2, <3>2 DEF v
    <2>3. ASSUME Ends(r, b), f.acc # 0
          PROVE  InText(s, vals, later, size, Tail(left), f, <<>>, c + 1, m)
      <3>1. Len(v) # 0 /\ f.acc = Len(v)
        BY <1>19, <2>1, <2>3
      <3>2. v # <<>> /\ v = <<>> \o v
        BY <2>1, <3>1, ConcatEmptySeq
      <3>3. Tail(left) = v \o after /\ (c + 1) + Len(v) = size[m + 1]
        BY <1>14, <1>15, <1>19, <2>1, <2>3
      <3>4. s[m + 1] = "String" /\ f.acc = Len(vals[m + 1])
        BY <1>22, <3>1 DEF v
      <3>5. \E x \in Seq(Byte) :
                /\ x # <<>>
                /\ vals[m + 1] = <<>> \o x
                /\ Tail(left) = x \o later[m + 1]
                /\ (c + 1) + Len(x) = size[m + 1]
        BY <2>1, <3>2, <3>3 DEF v, after
      <3>. QED
        BY <1>2, <3>4, <3>5 DEF InText
    <2>. QED
      BY <1>2, <1>10, <1>14, <1>16, <1>17, <1>18, <1>22, <2>2, <2>3
  <1>. QED
    BY <1>21, <1>22

\* The reader is fed with a character of a string.
LEMMA TextStep ==
    ASSUME NEW s, NEW vals, NEW later, NEW size, NEW left, NEW r,
           NEW t \in Seq(Byte), NEW c \in Nat, NEW m \in Nat,
           MatchScript(s, vals), Layout(s, vals, later, size),
           InText(s, vals, later, size, left, r, t, c, m)
    PROVE  /\ m < Len(vals)
           /\ Append(t, Head(left)) \in Seq(Byte)
           /\ Len(Append(t, Head(left))) = r.acc
                => /\ vals[m + 1] = Append(t, Head(left))
                   /\ AtCall(later, size, Tail(left), c + 1, m + 1)
           /\ Len(Append(t, Head(left))) # r.acc
                => InText(s, vals, later, size, Tail(left), r,
                          Append(t, Head(left)), c + 1, m)
  <1> DEFINE b == Head(left)
             u == Append(t, b)
             v == vals[m + 1]
             after == later[m + 1]
  <1>1. Len(vals) \in Nat
    BY LenProperties DEF MatchScript
  <1>2. /\ m < Len(vals) /\ m + 1 \in 0 .. Len(vals)
        /\ s[m + 1] = "String"
        /\ r.acc = Len(v)
    BY <1>1 DEF InText
  <1>3. PICK rest \in Seq(Byte) : /\ rest # <<>>
                                  /\ v = t \o rest
                                  /\ left = rest \o after
                                  /\ c + Len(rest) = size[m + 1]
    BY DEF InText
  <1>4. after \in Seq(Byte) /\ size[m + 1] \in Nat
    BY <1>2 DEF Layout
  <1> DEFINE rest2 == Tail(rest)
  <1>5. /\ rest2 \in Seq(Byte) /\ Head(rest) \in Byte
        /\ Len(rest2) = Len(rest) - 1 /\ Len(rest) \in Nat /\ Len(rest2) \in Nat
    BY <1>3, HeadTailProperties, LenProperties
  <1> HIDE DEF v, after, b, u
  <1>6. b = Head(rest) /\ Tail(left) = rest2 \o after
    BY <1>3, <1>4, ConcatHeadTail DEF b
  <1>7. u \in Seq(Byte) /\ u \o rest2 = v
    BY <1>3, <1>6, MoveHead DEF u
  <1>8. (c + 1) + Len(rest2) = size[m + 1]
    BY <1>3, <1>4, <1>5
  <1> HIDE DEF rest2
  <1>9. Len(v) = Len(u) + Len(rest2) /\ Len(u) \in Nat
    BY <1>5, <1>7, ConcatProperties, LenProperties
  <1>10. CASE rest2 = <<>>
    <2>1. u = v /\ Tail(left) = after
      BY <1>4, <1>6, <1>7, <1>10, ConcatEmptySeq
    <2>2. Len(<<>>) = 0
      OBVIOUS
    <2>3. c + 1 = size[m + 1]
      BY <1>8, <1>10, <2>2
    <2>4. AtCall(later, size, Tail(left), c + 1, m + 1)
      BY <2>1, <2>3 DEF AtCall, after
    <2>5. Len(u) = r.acc
      BY <1>2, <2>1
    <2>. QED
      BY <1>2, <1>7, <2>1, <2>4, <2>5 DEF v, u, b
  <1>11. CASE rest2 # <<>>
    <2>1. Len(rest2) # 0
      BY <1>5, <1>11, EmptySeq
    <2>2. Len(u) # r.acc
      BY <1>2, <1>5, <1>9, <2>1
    <2>3. \E x \in Seq(Byte) : /\ x # <<>>
                               /\ vals[m + 1] = u \o x
                               /\ Tail(left) = x \o later[m + 1]
                               /\ (c + 1) + Len(x) = size[m + 1]
      BY <1>5, <1>6, <1>7, <1>8, <1>11 DEF v, after
    <2>4. InText(s, vals, later, size, Tail(left), r, u, c + 1, m)
      BY <1>2, <2>3 DEF InText, v
    <2>. QED
      BY <1>2, <1>7, <2>2, <2>4 DEF u, b
  <1>. QED
    BY <1>10, <1>11

-----------------------------------------------------------------------------
(* The invariant of the coded streams.                                     *)

\* The values whose Write calls have been made.
Vals == IF wpc = "idle" THEN sent ELSE Append(sent, value)

StreamTypes ==
    /\ mode \in Modes
    /\ script \in Scripts
    /\ buf \in Seq(Byte)
    /\ failbit \in BOOLEAN
    /\ failbit => mode = "shared" /\ rpc = "failed"
    /\ rpc \in {"idle", "number", "text", "failed"}
    /\ rd \in ReadCalls
    /\ text \in Seq(Byte)
    /\ written \in Nat /\ stored \in Nat /\ consumed \in Nat

\* A call that has begun, and not returned, has bytes to write.
WriterInv ==
    /\ wpc \in {"idle", "writing", "failed"}
    /\ todo \in Seq(Byte)
    /\ wpc = "idle" <=> todo = <<>>
    /\ value \in AllArguments \cup {<<>>}
    /\ wpc # "idle" => value \in AllArguments
    /\ sent \in Seq(AllArguments)
    /\ MatchScript(script, Vals)

\* What has arrived is what was sent.
ReaderInv ==
    /\ received \in Seq(AllArguments)
    /\ Len(received) <= Len(sent)
    /\ \A k \in 1 .. Len(received) : received[k] = sent[k]
    /\ rpc \in {"number", "text"} => Len(received) < Len(script)

\* Where the reader is in the bytes that the two sides have between them.
InPlace(s, vals, left, pc, r, t, c, m) ==
    \E later, size : /\ Layout(s, vals, later, size)
                     /\ Position(s, vals, later, size, left, pc, r, t, c, m)

StreamInv ==
    /\ StreamTypes
    /\ WriterInv
    /\ ReaderInv
    /\ InPlace(script, Vals, buf \o todo, rpc, rd, text, consumed, Len(received))

\* Facts about the state that every step uses.
LEMMA StreamFacts ==
    ASSUME StreamInv
    PROVE  /\ buf \o todo \in Seq(Byte)
           /\ Len(received) \in Nat /\ Len(sent) \in Nat /\ Len(script) \in Nat
           /\ script \in Seq(Kinds)
           /\ Vals \in Seq(AllArguments) /\ Len(Vals) \in Nat
           /\ Len(Vals) = IF wpc = "idle" THEN Len(sent) ELSE Len(sent) + 1
           /\ Len(received) <= Len(Vals)
           /\ Len(sent) <= Len(Vals) /\ Len(Vals) <= Len(script)
           /\ \A k \in 1 .. Len(sent) : Vals[k] = sent[k]
  <1>1. buf \o todo \in Seq(Byte)
    BY ConcatProperties DEF StreamInv, StreamTypes, WriterInv
  <1>2. /\ received \in Seq(AllArguments) /\ Len(received) <= Len(sent)
        /\ sent \in Seq(AllArguments)
        /\ wpc # "idle" => value \in AllArguments
        /\ MatchScript(script, Vals)
    BY DEF StreamInv, ReaderInv, WriterInv
  <1>3. Len(received) \in Nat /\ Len(sent) \in Nat
    BY <1>2, LenProperties
  <1>4. /\ script \in Seq(Kinds)
        /\ Vals \in Seq(AllArguments) /\ Len(Vals) <= Len(script)
    BY <1>2 DEF MatchScript
  <1>5. Len(script) \in Nat /\ Len(Vals) \in Nat
    BY <1>4, LenProperties
  <1>6. CASE wpc = "idle"
    <2>1. Vals = sent
      BY <1>6 DEF Vals
    <2>. QED
      BY <1>1, <1>2, <1>3, <1>4, <1>5, <1>6, <2>1
  <1>7. CASE wpc # "idle"
    <2>1. Vals = Append(sent, value) /\ value \in AllArguments
      BY <1>2, <1>7 DEF Vals
    <2>2. /\ Len(Vals) = Len(sent) + 1
          /\ \A k \in 1 .. Len(sent) : Vals[k] = sent[k]
      BY <1>2, <2>1, AppendProperties
    <2>. QED
      BY <1>1, <1>2, <1>3, <1>4, <1>5, <1>7, <2>2
  <1>. QED
    BY <1>6, <1>7

LEMMA StreamInit ==
    ASSUME Init
    PROVE  StreamInv
  <1>1. StreamTypes
    <2>1. <<>> \in Seq(Byte) /\ NewVarint \in ReadCalls
      <3>1. 0 \in 0 .. (U64 - 1)
        BY WireAssumption
      <3>. QED
        BY <3>1, EmptySeq, ReadingStarts
    <2>. QED
      BY <2>1 DEF Init, StreamTypes
  <1>2. script \in Seq(Kinds) /\ Len(script) \in Nat
    BY CodedStreamAssumption, LenProperties DEF Init
  <1>3. <<>> \in Seq(AllArguments) /\ Len(<<>>) = 0 /\ <<>> \in Seq(Byte)
    BY EmptySeq
  <1>4. Vals = <<>>
    BY DEF Init, Vals
  <1>5. MatchScript(script, <<>>)
    BY <1>2, <1>3 DEF MatchScript
  <1>6. WriterInv
    BY <1>3, <1>4, <1>5 DEF Init, WriterInv
  <1>7. ReaderInv
    BY <1>3 DEF Init, ReaderInv
  <1> DEFINE later == [k \in 0 .. 0 |-> <<>>]
             size == [k \in 0 .. 0 |-> 0]
  <1>8. Layout(script, <<>>, later, size)
    <2>1. later \in [0 .. 0 -> Seq(Byte)] /\ size \in [0 .. 0 -> Nat]
      BY <1>3
    <2>2. later[0] = <<>> /\ size[0] = 0
      OBVIOUS
    <2> HIDE DEF later, size
    <2>. QED
      BY <1>3, <2>1, <2>2 DEF Layout
  <1>9. Position(script, <<>>, later, size, <<>>, "idle", rd, text, 0, 0)
    BY DEF Position, AtCall
  <1>10. <<>> \o <<>> = <<>>
    BY <1>3, ConcatEmptySeq
  <1> HIDE DEF later, size
  <1>11. InPlace(script, <<>>, <<>>, "idle", rd, text, 0, 0)
    BY <1>8, <1>9 DEF InPlace
  <1>12. InPlace(script, Vals, buf \o todo, rpc, rd, text, consumed, Len(received))
    BY <1>3, <1>4, <1>10, <1>11 DEF Init
  <1>. QED
    BY <1>1, <1>6, <1>7, <1>12 DEF StreamInv

LEMMA StreamStartWrite ==
    ASSUME StreamInv, NEW v \in AllArguments, StartWrite(v)
    PROVE  StreamInv'
  <1> DEFINE n == Len(sent)
             b == Bytes(script[n + 1], v)
             w == Append(sent, v)
             left == buf \o todo
  <1>1. /\ wpc = "idle" /\ wpc' = "writing" /\ value' = v /\ todo' = b
        /\ n < Len(script)
        /\ v \in Arguments(script[n + 1])
        /\ UNCHANGED <<mode, script, buf, failbit, written, sent, stored>>
        /\ UNCHANGED <<rpc, rd, text, consumed, received>>
    BY DEF StartWrite, rvars
  <1>2. Vals = sent /\ Vals' = w
    BY <1>1 DEF Vals
  <1>3. todo = <<>> /\ sent \in Seq(AllArguments) /\ MatchScript(script, sent)
    BY <1>1, <1>2 DEF StreamInv, WriterInv
  <1>4. n \in Nat /\ Len(script) \in Nat /\ script \in Seq(Kinds)
    BY StreamFacts
  <1>5. /\ w \in Seq(AllArguments) /\ Len(w) = n + 1
        /\ \A k \in 1 .. n : w[k] = sent[k]
        /\ w[n + 1] = v
    BY <1>3, AppendProperties
  <1> HIDE DEF n, w
  <1>6. MatchScript(script, w)
    <2>1. \A k \in 1 .. Len(w) : w[k] \in Arguments(script[k])
      <3>1. ASSUME NEW k \in 1 .. (n + 1)
            PROVE  w[k] \in Arguments(script[k])
        <4>1. CASE k = n + 1
          BY <1>1, <1>5, <4>1
        <4>2. CASE k # n + 1
          <5>1. k \in 1 .. n
            BY <1>4, <4>2
          <5>2. sent[k] \in Arguments(script[k])
            BY <1>3, <5>1 DEF MatchScript, n
          <5>. QED
            BY <1>5, <5>1, <5>2
        <4>. QED
          BY <4>1, <4>2
      <3>. QED
        BY <1>5, <3>1
    <2>2. Len(w) <= Len(script)
      BY <1>1, <1>4, <1>5
    <2>. QED
      BY <1>4, <1>5, <2>1, <2>2 DEF MatchScript
  <1>7. b \in Seq(Byte) /\ b # <<>>
    <2>1. script[n + 1] \in Kinds
      <3>1. n + 1 \in 1 .. Len(script)
        BY <1>1, <1>4
      <3>. QED
        BY <1>4, <3>1, ElementOfSeq
    <2>. QED
      BY <1>1, <2>1, CallExpectsBytes
  <1>8. StreamTypes'
    BY <1>1 DEF StreamInv, StreamTypes
  <1>9. WriterInv'
    BY <1>1, <1>2, <1>3, <1>6, <1>7 DEF WriterInv
  <1>10. ReaderInv'
    BY <1>1 DEF StreamInv, ReaderInv
  <1>11. PICK later, size :
             /\ Layout(script, sent, later, size)
             /\ Position(script, sent, later, size, left, rpc, rd, text, consumed,
                         Len(received))
    BY <1>2 DEF StreamInv, InPlace
  <1> DEFINE later2 == LaterWith(later, n, b)
             size2 == SizeWith(size, n, b)
  <1>12. /\ Layout(script, w, later2, size2)
         /\ Grown(script, sent, w, later, size, later2, size2, n, b)
    <2>1. n = Len(sent) /\ w = Append(sent, v) /\ b = Bytes(script[n + 1], v)
      BY DEF n, w
    <2>2. MatchScript(script, Append(sent, v))
      BY <1>6 DEF w
    <2> HIDE DEF b
    <2>. QED
      BY <1>3, <1>11, <2>1, <2>2, LayoutGrows
  <1> HIDE DEF later2, size2
  <1>13. left \in Seq(Byte) /\ Len(received) \in Nat /\ Len(received) <= n
    BY StreamFacts DEF n, StreamInv, ReaderInv
  <1>14. Position(script, w, later2, size2, left \o b, rpc, rd, text, consumed,
                  Len(received))
    <2>1. Len(received) <= Len(sent)
      BY <1>13 DEF n
    <2> HIDE DEF b, left
    <2>. QED
      BY <1>3, <1>6, <1>11, <1>12, <1>13, <2>1, PositionGrows
  <1>15. left \o b = buf' \o todo'
    <2>1. buf \in Seq(Byte)
      BY DEF StreamInv, StreamTypes
    <2>2. left = buf
      BY <1>3, <2>1, ConcatEmptySeq
    <2>. QED
      BY <1>1, <2>2
  <1>16. InPlace(script, w, left \o b, rpc, rd, text, consumed, Len(received))
    BY <1>12, <1>14 DEF InPlace
  <1>17. InPlace(script, Vals, buf \o todo, rpc, rd, text, consumed, Len(received))'
    BY <1>1, <1>2, <1>15, <1>16
  <1>. QED
    BY <1>8, <1>9, <1>10, <1>17 DEF StreamInv

LEMMA StreamWriteByte ==
    ASSUME StreamInv, WriteByte
    PROVE  /\ StreamInv'
           /\ (sent' = sent \/ (sent' = Append(sent, value) /\ value \in AllArguments))
  <1>1. /\ wpc = "writing" /\ todo' = Tail(todo)
        /\ buf' = IF failbit THEN buf ELSE Append(buf, Head(todo))
        /\ stored' = IF failbit THEN stored ELSE stored + 1
        /\ written' = written + 1
        /\ UNCHANGED <<mode, script, failbit, value>>
        /\ UNCHANGED <<rpc, rd, text, consumed, received>>
        /\ \/ todo' = <<>> /\ wpc' = "idle" /\ sent' = Append(sent, value)
           \/ todo' # <<>> /\ wpc' = wpc /\ sent' = sent
    BY DEF WriteByte, rvars
  <1>2. /\ buf \in Seq(Byte) /\ todo \in Seq(Byte) /\ todo # <<>>
        /\ value \in AllArguments /\ sent \in Seq(AllArguments)
        /\ MatchScript(script, Vals)
    BY <1>1 DEF StreamInv, StreamTypes, WriterInv
  <1>3. /\ Append(buf, Head(todo)) \in Seq(Byte)
        /\ Tail(todo) \in Seq(Byte)
        /\ Append(buf, Head(todo)) \o Tail(todo) = buf \o todo
    BY <1>2, MoveHead
  <1>4. Vals' = Vals
    BY <1>1 DEF Vals
  <1>5. StreamTypes'
    <2>1. buf' \in Seq(Byte)
      BY <1>1, <1>2, <1>3
    <2>. QED
      BY <1>1, <2>1 DEF StreamInv, StreamTypes
  <1>6. /\ sent' \in Seq(AllArguments)
        /\ Len(sent) <= Len(sent')
        /\ \A k \in 1 .. Len(sent) : sent'[k] = sent[k]
    <2>1. CASE sent' = Append(sent, value)
      <3>1. /\ Append(sent, value) \in Seq(AllArguments)
            /\ Len(Append(sent, value)) = Len(sent) + 1
            /\ \A k \in 1 .. Len(sent) : Append(sent, value)[k] = sent[k]
        BY <1>2, AppendProperties
      <3>. QED
        BY <2>1, <3>1, StreamFacts
    <2>2. CASE sent' = sent
      BY <1>2, <2>2, StreamFacts
    <2>. QED
      BY <1>1, <2>1, <2>2
  <1>7. WriterInv'
    <2>1. todo' \in Seq(Byte) /\ MatchScript(script, Vals)'
      BY <1>1, <1>2, <1>3, <1>4
    <2>. QED
      BY <1>1, <1>2, <1>6, <2>1 DEF WriterInv
  <1>8. ReaderInv'
    <2>1. /\ Len(received) \in Nat /\ Len(sent) \in Nat
          /\ Len(received) <= Len(sent)
      BY StreamFacts DEF StreamInv, ReaderInv
    <2>2. Len(sent') \in Nat
      BY <1>6, LenProperties
    <2>3. Len(received) <= Len(sent')
      BY <1>6, <2>1, <2>2
    <2>4. ASSUME NEW k \in 1 .. Len(received)
          PROVE  received[k] = sent'[k]
      <3>1. k \in 1 .. Len(sent)
        BY <2>1
      <3>2. received[k] = sent[k]
        BY DEF StreamInv, ReaderInv
      <3>. QED
        BY <1>6, <3>1, <3>2
    <2>. QED
      BY <1>1, <2>3, <2>4 DEF StreamInv, ReaderInv
  <1>9. InPlace(script, Vals, buf \o todo, rpc, rd, text, consumed, Len(received))'
    <2>1. CASE failbit
      <3>1. rpc = "failed"
        BY <2>1 DEF StreamInv, StreamTypes
      <3>2. PICK later, size : Layout(script, Vals, later, size)
        BY DEF StreamInv, InPlace
      <3>3. ASSUME NEW left
            PROVE  Position(script, Vals, later, size, left, rpc, rd, text, consumed,
                            Len(received))
        BY <3>1 DEF Position
      <3>4. ASSUME NEW left
            PROVE  InPlace(script, Vals, left, rpc, rd, text, consumed,
                           Len(received))
        BY <3>2, <3>3 DEF InPlace
      <3>. QED
        BY <1>1, <1>4, <3>4
    <2>2. CASE ~ failbit
      <3>1. buf' \o todo' = buf \o todo
        BY <1>1, <1>3, <2>2
      <3>. QED
        BY <1>1, <1>4, <3>1 DEF StreamInv
    <2>. QED
      BY <2>1, <2>2
  <1>. QED
    BY <1>1, <1>2, <1>5, <1>7, <1>8, <1>9 DEF StreamInv

LEMMA StreamWriteFails ==
    ASSUME StreamInv, WriteFails
    PROVE  StreamInv'
  <1>1. /\ wpc = "writing" /\ wpc' = "failed"
        /\ UNCHANGED <<mode, script, buf, failbit, value, todo, written, sent, stored>>
        /\ UNCHANGED <<rpc, rd, text, consumed, received>>
    BY DEF WriteFails, rvars
  <1>2. Vals' = Vals
    BY <1>1 DEF Vals
  <1>3. StreamTypes' /\ ReaderInv'
    BY <1>1 DEF StreamInv, StreamTypes, ReaderInv
  <1>4. WriterInv'
    BY <1>1, <1>2 DEF StreamInv, WriterInv
  <1>5. InPlace(script, Vals, buf \o todo, rpc, rd, text, consumed, Len(received))'
    BY <1>1, <1>2 DEF StreamInv
  <1>. QED
    BY <1>3, <1>4, <1>5 DEF StreamInv

\* A step of the reader leaves the writer alone.
LEMMA WriterKept ==
    ASSUME WriterInv, UNCHANGED <<script, wvars>>
    PROVE  WriterInv' /\ Vals' = Vals
  <1>1. Vals' = Vals
    BY DEF Vals, wvars
  <1>. QED
    BY <1>1 DEF WriterInv, wvars

LEMMA StreamStartRead ==
    ASSUME StreamInv, StartRead
    PROVE  StreamInv'
  <1> DEFINE m == Len(received)
             left == buf \o todo
             r == Call(script[m + 1])
  <1>1. /\ rpc = "idle" /\ rpc' = "number" /\ rd' = r /\ m < Len(script)
        /\ UNCHANGED <<mode, script, buf, failbit, text, consumed, received>>
        /\ UNCHANGED wvars
    BY DEF StartRead, Kind
  <1>2. WriterInv' /\ Vals' = Vals
    BY <1>1, WriterKept DEF StreamInv
  <1>3. UNCHANGED <<todo, written, stored, sent>>
    BY <1>1 DEF wvars
  <1>4. m \in Nat /\ m <= Len(Vals) /\ m + 1 \in 1 .. Len(script)
        /\ script \in Seq(Kinds)
    BY <1>1, StreamFacts
  <1>5. r \in ReadCalls
    <2>1. script[m + 1] \in Kinds
      BY <1>4, ElementOfSeq
    <2>2. N32 \in Nat \ {0} /\ N64 \in Nat \ {0} /\ 0 \in 0 .. (U64 - 1)
      BY WireAssumption
    <2>. QED
      BY <2>1, <2>2, ReadingStarts DEF Call
  <1> HIDE DEF r
  <1>6. StreamTypes' /\ ReaderInv'
    BY <1>1, <1>3, <1>5 DEF StreamInv, StreamTypes, ReaderInv
  <1>7. PICK later, size :
            /\ Layout(script, Vals, later, size)
            /\ Position(script, Vals, later, size, left, rpc, rd, text, consumed, m)
    BY DEF StreamInv, InPlace
  <1>8. AtCall(later, size, left, consumed, m)
    BY <1>1, <1>7 DEF Position
  <1>9. MatchScript(script, Vals)
    BY DEF StreamInv, WriterInv
  <1>10. \/ BeforeWrite(script, Vals, size, left, r, consumed, m)
         \/ InNumber(script, Vals, later, size, left, r, consumed, m)
    <2> HIDE DEF left, m
    <2>. QED
      BY <1>4, <1>7, <1>8, <1>9, CallStarts DEF r
  <1>11. Position(script, Vals, later, size, left, "number", r, text, consumed, m)
    BY <1>10 DEF Position
  <1>12. InPlace(script, Vals, left, "number", r, text, consumed, m)
    BY <1>7, <1>11 DEF InPlace
  <1>13. InPlace(script, Vals, buf \o todo, rpc, rd, text, consumed, Len(received))'
    BY <1>1, <1>2, <1>3, <1>12
  <1>. QED
    BY <1>2, <1>6, <1>13 DEF StreamInv

LEMMA StreamReadFails ==
    ASSUME StreamInv, ReadFails
    PROVE  StreamInv'
  <1>1. /\ rpc' = "failed" /\ failbit' \in BOOLEAN
        /\ failbit' => mode = "shared"
        /\ UNCHANGED <<mode, script, buf, rd, text, consumed, received>>
        /\ UNCHANGED wvars
    <2>1. failbit \in BOOLEAN /\ (failbit => mode = "shared")
      BY DEF StreamInv, StreamTypes
    <2>2. /\ UNCHANGED failbit \/ (mode = "shared" /\ failbit' = TRUE)
          /\ rpc' = "failed"
          /\ UNCHANGED <<mode, script, buf, rd, text, consumed, received>>
          /\ UNCHANGED wvars
      BY DEF ReadFails
    <2>3. failbit' \in BOOLEAN /\ (failbit' => mode = "shared")
      <3>1. CASE failbit' = failbit
        BY <2>1, <3>1, Zenon
      <3>2. CASE mode = "shared" /\ failbit' = TRUE
        BY <3>2, Zenon
      <3>. QED
        BY <2>2, <3>1, <3>2
    <2>. QED
      BY <2>2, <2>3
  <1>2. WriterInv' /\ Vals' = Vals
    BY <1>1, WriterKept DEF StreamInv
  <1>3. UNCHANGED <<todo, written, stored, sent>>
    BY <1>1 DEF wvars
  <1>4. StreamTypes' /\ ReaderInv'
    BY <1>1, <1>3 DEF StreamInv, StreamTypes, ReaderInv
  <1>5. PICK later, size : Layout(script, Vals, later, size)
    BY DEF StreamInv, InPlace
  <1>6. Position(script, Vals, later, size, buf \o todo, "failed", rd, text,
                 consumed, Len(received))
    BY DEF Position
  <1>7. InPlace(script, Vals, buf \o todo, "failed", rd, text, consumed,
                Len(received))
    BY <1>5, <1>6 DEF InPlace
  <1>8. InPlace(script, Vals, buf \o todo, rpc, rd, text, consumed, Len(received))'
    BY <1>1, <1>2, <1>3, <1>7
  <1>. QED
    BY <1>2, <1>4, <1>8 DEF StreamInv

\* The reader takes the first byte of those that it has not taken.
LEMMA TakeByteMoves ==
    ASSUME StreamInv, TakeByte
    PROVE  /\ Head(buf) = Head(buf \o todo)
           /\ (buf \o todo)' = Tail(buf \o todo)
           /\ buf \o todo # <<>>
           /\ buf' \in Seq(Byte)
           /\ WriterInv' /\ Vals' = Vals
           /\ UNCHANGED <<mode, script, failbit, todo, written, sent, stored>>
           /\ wpc' = wpc
           /\ consumed' = consumed + 1 /\ consumed \in Nat /\ ~ failbit
  <1>1. /\ buf # <<>> /\ ~ failbit /\ buf' = Tail(buf)
        /\ consumed' = consumed + 1
        /\ UNCHANGED <<mode, script, failbit, wvars>>
    BY DEF TakeByte
  <1>2. buf \in Seq(Byte) /\ todo \in Seq(Byte) /\ consumed \in Nat
    BY DEF StreamInv, StreamTypes, WriterInv
  <1>3. WriterInv' /\ Vals' = Vals
    BY <1>1, WriterKept DEF StreamInv
  <1>4. todo' = todo
    BY <1>1 DEF wvars
  <1>5. /\ buf \o todo # <<>>
        /\ Head(buf \o todo) = Head(buf)
        /\ Tail(buf \o todo) = Tail(buf) \o todo
        /\ Tail(buf) \in Seq(Byte)
    BY <1>1, <1>2, ConcatHeadTail, HeadTailProperties
  <1>. QED
    BY <1>1, <1>2, <1>3, <1>4, <1>5 DEF wvars

\* A Read call returns after the last byte of a value: the Write call has
\* returned too, since it had no byte left to write.
LEMMA ReturnDelivers ==
    ASSUME StreamInv, TakeByte, NEW x, NEW later, NEW size,
           Layout(script, Vals, later, size),
           Len(received) < Len(Vals), Vals[Len(received) + 1] = x,
           AtCall(later, size, Tail(buf \o todo), consumed + 1,
                  Len(received) + 1),
           Return(x)
    PROVE  /\ ReaderInv'
           /\ Len(received) < Len(sent)
           /\ x = sent[Len(received) + 1]
           /\ Len(received') = Len(received) + 1
  <1> DEFINE m == Len(received)
             n == Len(sent)
  <1>1. /\ m \in Nat /\ n \in Nat /\ m <= n /\ Len(Vals) \in Nat
        /\ Len(Vals) = IF wpc = "idle" THEN n ELSE n + 1
        /\ \A k \in 1 .. n : Vals[k] = sent[k]
        /\ Len(Vals) <= Len(script)
    BY StreamFacts DEF StreamInv, ReaderInv
  <1>2. /\ (buf \o todo)' = Tail(buf \o todo)
        /\ buf' \in Seq(Byte) /\ WriterInv'
        /\ UNCHANGED <<script, todo, sent>> /\ wpc' = wpc
    BY TakeByteMoves
  <1>3. m < n
    <2>1. SUFFICES ASSUME m = n
                   PROVE  FALSE
      BY <1>1
    <2>2. wpc # "idle" /\ m + 1 = Len(Vals)
      BY <1>1, <2>1
    <2>3. buf' \o todo' = <<>>
      <3>1. later[m + 1] = <<>>
        BY <2>2 DEF Layout
      <3>. QED
        BY <1>2, <3>1 DEF AtCall
    <2>4. todo' \in Seq(Byte)
      BY <1>2 DEF WriterInv
    <2>5. todo' = <<>>
      BY <1>2, <2>3, <2>4, ConcatEqualIffEmpty
    <2>. QED
      BY <1>2, <2>2, <2>5 DEF WriterInv
  <1>4. m + 1 \in 1 .. n
    BY <1>1, <1>3
  <1>5. x = sent[m + 1]
    BY <1>1, <1>4
  <1>6. /\ sent \in Seq(AllArguments)
        /\ received \in Seq(AllArguments)
        /\ \A k \in 1 .. m : received[k] = sent[k]
    BY DEF StreamInv, WriterInv, ReaderInv
  <1>7. x \in AllArguments
    BY <1>4, <1>5, <1>6, ElementOfSeq
  <1>8. /\ received' \in Seq(AllArguments)
        /\ Len(received') = m + 1
        /\ \A k \in 1 .. m : received'[k] = received[k]
        /\ received'[m + 1] = x
    BY <1>6, <1>7, AppendProperties DEF Return
  <1> HIDE DEF m, n
  <1>9. \A k \in 1 .. (m + 1) : received'[k] = sent[k]
    <2>1. \A k \in 1 .. (m + 1) : k \in 1 .. m \/ k = m + 1
      BY <1>1
    <2>. QED
      BY <1>5, <1>6, <1>8, <2>1
  <1>10. rpc' = "idle"
    BY DEF Return
  <1>. QED
    BY <1>1, <1>2, <1>3, <1>5, <1>8, <1>9, <1>10 DEF ReaderInv, m, n

\* A Read call is fed with one byte: it never rejects the byte, and if it
\* returns, then the value that the writer sent.
LEMMA StreamTakesByte ==
    ASSUME StreamInv, NumberByte \/ TextByte
    PROVE  /\ StreamInv'
           /\ rpc' # "failed"
           /\ sent' = sent
           /\ \/ received' = received
              \/ /\ Len(received) < Len(sent)
                 /\ received' = Append(received, sent[Len(received) + 1])
  <1> DEFINE m == Len(received)
             left == buf \o todo
             b == Head(buf)
             f == Feed(rd, b)
             kind == script[m + 1]
             x == Vals[m + 1]
  <1>1. TakeByte /\ rpc \in {"number", "text"}
    BY DEF NumberByte, TextByte
  <1>2. /\ b = Head(left)
        /\ (buf \o todo)' = Tail(left)
        /\ left # <<>>
        /\ buf' \in Seq(Byte)
        /\ WriterInv' /\ Vals' = Vals
        /\ UNCHANGED <<mode, script, failbit, todo, written, sent, stored>>
        /\ consumed' = consumed + 1 /\ consumed \in Nat /\ ~ failbit
    BY <1>1, TakeByteMoves
  <1>3. /\ m \in Nat /\ Len(Vals) \in Nat /\ m <= Len(Vals)
        /\ rd \in ReadCalls /\ text \in Seq(Byte)
        /\ m < Len(script)
        /\ MatchScript(script, Vals)
    BY <1>1, StreamFacts DEF StreamInv, StreamTypes, WriterInv, ReaderInv
  <1>4. PICK later, size :
            /\ Layout(script, Vals, later, size)
            /\ Position(script, Vals, later, size, left, rpc, rd, text, consumed, m)
    BY DEF StreamInv, InPlace
  \* The call goes on, or returns the value that was written.
  <1> DEFINE GoesOn ==
                 /\ received' = received
                 /\ rpc' \in {"number", "text"}
                 /\ Position(script, Vals, later, size, Tail(left), rpc', rd', text',
                             consumed + 1, m)
             Returns ==
                 /\ Return(x)
                 /\ m < Len(Vals)
                 /\ AtCall(later, size, Tail(left), consumed + 1, m + 1)
  <1>5. ASSUME NumberByte
        PROVE  text' \in Seq(Byte) /\ rd' \in ReadCalls /\ (GoesOn \/ Returns)
    <2>1. /\ rpc = "number" /\ rd' = f
          /\ IF Overflows(rd, b) \/ (Is32Bit(kind) /\ TooBig(rd, b))
             THEN rpc' = "failed" /\ UNCHANGED <<text, received>>
             ELSE \/ ~ Ends(rd, b) /\ UNCHANGED <<rpc, text, received>>
                  \/ /\ Ends(rd, b) /\ kind # "String"
                     /\ Return(<<Result(kind, f.acc)>>)
                     /\ UNCHANGED text
                  \/ /\ Ends(rd, b) /\ kind = "String" /\ f.acc = 0
                     /\ Return(<<>>)
                     /\ text' = <<>>
                  \/ /\ Ends(rd, b) /\ kind = "String" /\ f.acc # 0
                     /\ rpc' = "text"
                     /\ text' = <<>>
                     /\ UNCHANGED received
      BY <1>5 DEF NumberByte, Kind
    <2>2. InNumber(script, Vals, later, size, left, rd, consumed, m)
      <3>1. ~ BeforeWrite(script, Vals, size, left, rd, consumed, m)
        BY <1>2 DEF BeforeWrite
      <3>. QED
        BY <1>4, <2>1, <3>1 DEF Position
    <2> HIDE DEF left, b, f, kind, m
    <2>3. b = Head(left) /\ f = Feed(rd, b) /\ kind = script[m + 1]
      BY <1>2 DEF f, kind
    <2>4. /\ m < Len(Vals)
          /\ f \in ReadCalls
          /\ ~ Overflows(rd, b)
          /\ ~ (Is32Bit(kind) /\ TooBig(rd, b))
          /\ ~ Ends(rd, b)
               => InNumber(script, Vals, later, size, Tail(left), f, consumed + 1, m)
          /\ Ends(rd, b) /\ kind # "String"
               => /\ Vals[m + 1] = <<Result(kind, f.acc)>>
                  /\ AtCall(later, size, Tail(left), consumed + 1, m + 1)
          /\ Ends(rd, b) /\ kind = "String" /\ f.acc = 0
               => /\ Vals[m + 1] = <<>>
                  /\ AtCall(later, size, Tail(left), consumed + 1, m + 1)
          /\ Ends(rd, b) /\ kind = "String" /\ f.acc # 0
               => InText(script, Vals, later, size, Tail(left), f, <<>>,
                         consumed + 1, m)
      BY <1>2, <1>3, <1>4, <2>2, <2>3, NumberStep
    <2>5. text' \in Seq(Byte) /\ rd' \in ReadCalls
      BY <1>3, <2>1, <2>4, EmptySeq
    <2>6. GoesOn \/ Returns
      <3>1. CASE ~ Ends(rd, b)
        <4>1. rpc' = "number" /\ received' = received
          BY <2>1, <2>4, <3>1
        <4>2. InNumber(script, Vals, later, size, Tail(left), rd', consumed + 1, m)
          BY <2>1, <2>4, <3>1
        <4>. QED
          BY <4>1, <4>2 DEF Position
      <3>2. CASE Ends(rd, b) /\ kind # "String"
        <4>1. Return(<<Result(kind, f.acc)>>)
          BY <2>1, <2>4, <3>2
        <4>. QED
          BY <2>4, <3>2, <4>1
      <3>3. CASE Ends(rd, b) /\ kind = "String" /\ f.acc = 0
        <4>1. Return(<<>>)
          BY <2>1, <2>4, <3>3
        <4>. QED
          BY <2>4, <3>3, <4>1
      <3>4. CASE Ends(rd, b) /\ kind = "String" /\ f.acc # 0
        <4>1. rpc' = "text" /\ received' = received /\ text' = <<>>
          BY <2>1, <2>4, <3>4
        <4>2. InText(script, Vals, later, size, Tail(left), rd', text',
                     consumed + 1, m)
          BY <2>1, <2>4, <3>4, <4>1
        <4>. QED
          BY <4>1, <4>2 DEF Position
      <3>. QED
        BY <3>1, <3>2, <3>3, <3>4
    <2>. QED
      BY <2>5, <2>6
  <1>6. ASSUME TextByte
        PROVE  text' \in Seq(Byte) /\ rd' \in ReadCalls /\ (GoesOn \/ Returns)
    <2> DEFINE u == Append(text, b)
    <2>1. /\ rpc = "text" /\ rd' = rd /\ text' = u
          /\ IF Len(u) = rd.acc THEN Return(u) ELSE UNCHANGED <<rpc, received>>
      BY <1>6 DEF TextByte
    <2>2. InText(script, Vals, later, size, left, rd, text, consumed, m)
      BY <1>4, <2>1 DEF Position
    <2> HIDE DEF left, b, m, u
    <2>3. u = Append(text, Head(left))
      BY <1>2 DEF u
    <2>4. /\ m < Len(Vals)
          /\ u \in Seq(Byte)
          /\ Len(u) = rd.acc
               => /\ Vals[m + 1] = u
                  /\ AtCall(later, size, Tail(left), consumed + 1, m + 1)
          /\ Len(u) # rd.acc
               => InText(script, Vals, later, size, Tail(left), rd, u,
                         consumed + 1, m)
      <3>1. /\ text \in Seq(Byte) /\ consumed \in Nat /\ m \in Nat
            /\ MatchScript(script, Vals)
            /\ Layout(script, Vals, later, size)
        BY <1>2, <1>3, <1>4
      <3> HIDE DEF GoesOn, Returns
      <3>. QED
        BY <2>2, <2>3, <3>1, TextStep
    <2>5. text' \in Seq(Byte) /\ rd' \in ReadCalls
      BY <1>3, <2>1, <2>4
    <2>6. GoesOn \/ Returns
      <3>1. CASE Len(u) = rd.acc
        <4>1. Return(u)
          BY <2>1, <3>1
        <4>. QED
          BY <2>4, <3>1, <4>1
      <3>2. CASE Len(u) # rd.acc
        <4>1. rpc' = "text" /\ received' = received
          BY <2>1, <3>2
        <4>2. InText(script, Vals, later, size, Tail(left), rd', text',
                     consumed + 1, m)
          BY <2>1, <2>4, <3>2
        <4>. QED
          BY <4>1, <4>2 DEF Position
      <3>. QED
        BY <3>1, <3>2
    <2>. QED
      BY <2>5, <2>6
  <1>7. text' \in Seq(Byte) /\ rd' \in ReadCalls /\ (GoesOn \/ Returns)
    BY <1>5, <1>6
  <1> HIDE DEF GoesOn, Returns
  <1>8. rpc' \in {"idle", "number", "text"}
    BY <1>7 DEF GoesOn, Returns, Return
  <1>9. StreamTypes'
    <2>1. failbit = FALSE
      BY <1>2 DEF StreamInv, StreamTypes
    <2>. QED
      BY <1>2, <1>7, <1>8, <2>1 DEF StreamInv, StreamTypes
  <1>10. CASE GoesOn
    <2>1. /\ received' = received
          /\ Position(script, Vals, later, size, Tail(left), rpc', rd', text',
                      consumed + 1, m)
      BY <1>10 DEF GoesOn
    <2>2. ReaderInv'
      BY <1>2, <1>3, <2>1 DEF StreamInv, ReaderInv
    <2>3. InPlace(script, Vals, Tail(left), rpc', rd', text', consumed + 1, m)
      BY <1>4, <2>1 DEF InPlace
    <2>4. InPlace(script, Vals, buf \o todo, rpc, rd, text, consumed,
                  Len(received))'
      BY <1>2, <2>1, <2>3
    <2>. QED
      BY <1>2, <1>8, <1>9, <2>1, <2>2, <2>4 DEF StreamInv
  <1>11. CASE Returns
    <2>1. /\ Return(x)
          /\ m < Len(Vals)
          /\ AtCall(later, size, Tail(left), consumed + 1, m + 1)
      BY <1>11 DEF Returns
    <2>2. /\ ReaderInv'
          /\ m < Len(sent)
          /\ x = sent[m + 1]
          /\ Len(received') = m + 1
      BY <1>1, <1>4, <2>1, ReturnDelivers
    <2>3. rpc' = "idle" /\ received' = Append(received, x)
      BY <2>1 DEF Return
    <2>4. Position(script, Vals, later, size, Tail(left), "idle", rd', text',
                   consumed + 1, m + 1)
      BY <2>1 DEF Position
    <2>5. InPlace(script, Vals, Tail(left), "idle", rd', text', consumed + 1,
                  m + 1)
      BY <1>4, <2>4 DEF InPlace
    <2>6. InPlace(script, Vals, buf \o todo, rpc, rd, text, consumed,
                  Len(received))'
      BY <1>2, <2>2, <2>3, <2>5
    <2>. QED
      BY <1>2, <1>8, <1>9, <2>2, <2>3, <2>6 DEF StreamInv
  <1>. QED
    BY <1>7, <1>10, <1>11

LEMMA StreamStep ==
    ASSUME StreamInv, [Next]_vars
    PROVE  /\ StreamInv'
           /\ \/ UNCHANGED <<sent, received>>
              \/ /\ received' = received
                 /\ \E v \in AllArguments : sent' = Append(sent, v)
              \/ /\ Len(received) < Len(sent)
                 /\ received' = Append(received, sent[Len(received) + 1])
                 /\ sent' = sent
  <1>1. CASE WriteByte
    <2>1. received' = received
      BY <1>1 DEF WriteByte, rvars
    <2>. QED
      BY <1>1, <2>1, StreamWriteByte
  <1>2. CASE NumberByte \/ TextByte
    BY <1>2, StreamTakesByte
  <1>3. ASSUME NEW v \in AllArguments, StartWrite(v)
        PROVE  StreamInv' /\ UNCHANGED <<sent, received>>
    <2>1. StreamInv'
      BY <1>3, StreamStartWrite
    <2>. QED
      BY <1>3, <2>1 DEF StartWrite, rvars
  <1>4. CASE WriteFails
    <2>1. StreamInv'
      BY <1>4, StreamWriteFails
    <2>. QED
      BY <1>4, <2>1 DEF WriteFails, rvars
  <1>5. CASE StartRead
    <2>1. StreamInv'
      BY <1>5, StreamStartRead
    <2>. QED
      BY <1>5, <2>1 DEF StartRead, wvars
  <1>6. CASE ReadFails
    <2>1. StreamInv'
      BY <1>6, StreamReadFails
    <2>. QED
      BY <1>6, <2>1 DEF ReadFails, wvars
  <1>7. CASE UNCHANGED vars
    <2>1. Vals' = Vals
      BY <1>7 DEF Vals, vars, wvars
    <2>2. StreamTypes' /\ WriterInv' /\ ReaderInv'
      BY <1>7, <2>1
         DEF StreamInv, StreamTypes, WriterInv, ReaderInv, vars, wvars, rvars
    <2>3. InPlace(script, Vals, buf \o todo, rpc, rd, text, consumed,
                  Len(received))'
      BY <1>7, <2>1 DEF StreamInv, vars, wvars, rvars
    <2>. QED
      BY <1>7, <2>2, <2>3 DEF StreamInv, vars, wvars, rvars
  <1>. QED
    BY <1>1, <1>2, <1>3, <1>4, <1>5, <1>6, <1>7 DEF Next, Writer, Reader

LEMMA StreamAlways == Spec => []StreamInv
  <1>1. Init => StreamInv
    BY StreamInit
  <1>2. StreamInv /\ [Next]_vars => StreamInv'
    BY StreamStep
  <1>. QED
    BY <1>1, <1>2, PTL DEF Spec

\* The types of all variables, on any words, kinds of streams and scripts: among
\* other things, that the accumulator of a Read call never leaves its 64 bits.
THEOREM StreamTypeCorrect == Spec => []TypeOK
  <1>1. StreamInv => TypeOK
    <2>1. SUFFICES ASSUME StreamInv
                   PROVE  TypeOK
      OBVIOUS
    <2>2. /\ Len(received) <= Len(sent) /\ Len(sent) <= Len(Vals)
          /\ Len(Vals) <= Len(script)
          /\ Len(received) \in Nat /\ Len(sent) \in Nat /\ Len(Vals) \in Nat
          /\ Len(script) \in Nat
      BY <2>1, StreamFacts DEF StreamInv, ReaderInv
    <2>3. Len(sent) <= Len(script) /\ Len(received) <= Len(script)
      BY <2>2
    <2>. QED
      BY <2>1, <2>3
         DEF StreamInv, StreamTypes, WriterInv, ReaderInv, TypeOK, ReadCalls
  <1>. QED
    BY <1>1, StreamAlways, PTL

\* The coded streams implement a channel of values: whatever words are written,
\* through whatever kind of stream, in whatever interleaving and with whatever
\* failures, each value whose Write call returned true is what the matching Read
\* call returns (coded_stream.h:88-177, coded_stream.cc:7-91).
THEOREM StreamsImplementChannel == Spec => ImplementsChannel
  <1>1. Init => Channel!Init
    BY DEF Init, Channel!Init
  <1>2. StreamInv /\ [Next]_vars => [Channel!Next]_<<sent, received>>
    <2>1. SUFFICES ASSUME StreamInv, [Next]_vars
                   PROVE  [Channel!Next]_<<sent, received>>
      OBVIOUS
    <2>. QED
      BY <2>1, StreamStep
         DEF Channel!Next, Channel!Send, Channel!Receive
  <1>. QED
    BY <1>1, <1>2, StreamAlways, PTL
       DEF Spec, ImplementsChannel, Channel!Spec

\* The values of size in the framing property.
IsSizes(g) ==
    g = [k \in 0 .. Len(sent) |->
            IF k = 0 THEN 0 ELSE g[k - 1] + Len(Bytes(script[k], sent[k]))]

LEMMA SizesAt ==
    ASSUME NEW g, IsSizes(g), NEW k \in 0 .. Len(sent)
    PROVE  g[k] = IF k = 0 THEN 0
                  ELSE g[k - 1] + Len(Bytes(script[k], sent[k]))
  BY Zenon DEF IsSizes

\* Framing, on any words, kinds of streams and scripts: between two calls the
\* reader has consumed exactly the bytes that the writer wrote for the values
\* read (coded_stream.h:34-40 and 57-63; decoder.cc:457 relies on it).
THEOREM FramingHolds == Spec => []ConsumesWhatWasWritten
  <1>1. ASSUME StreamInv
        PROVE  ConsumesWhatWasWritten
    <2> DEFINE n == Len(sent)
               m == Len(received)
    <2>1. /\ n \in Nat /\ m \in 0 .. n
          /\ n <= Len(Vals) /\ Len(Vals) \in Nat
          /\ \A k \in 1 .. n : Vals[k] = sent[k]
      BY <1>1, StreamFacts DEF StreamInv, ReaderInv
    <2>2. PICK later, size :
              /\ Layout(script, Vals, later, size)
              /\ Position(script, Vals, later, size, buf \o todo, rpc, rd, text,
                          consumed, m)
      BY <1>1 DEF StreamInv, InPlace
    <2>3. /\ size[0] = 0
          /\ \A k \in 1 .. n :
                 size[k] = size[k - 1] + Len(Bytes(script[k], sent[k]))
      <3>1. /\ size[0] = 0
            /\ \A k \in 1 .. Len(Vals) :
                   size[k] = size[k - 1] + Len(Bytes(script[k], Vals[k]))
        BY <2>2 DEF Layout
      <3>2. ASSUME NEW k \in 1 .. n
            PROVE  size[k] = size[k - 1] + Len(Bytes(script[k], sent[k]))
        <4>1. k \in 1 .. Len(Vals) /\ Vals[k] = sent[k]
          BY <2>1
        <4> HIDE DEF n
        <4>. QED
          BY <3>1, <4>1
      <3>. QED
        BY <3>1, <3>2
    <2> DEFINE g == [k \in 0 .. n |-> size[k]]
               W == CHOOSE h : IsSizes(h)
    <2>4. IsSizes(g)
      <3>1. ASSUME NEW k \in 0 .. n
            PROVE  g[k] = IF k = 0 THEN 0
                          ELSE g[k - 1] + Len(Bytes(script[k], sent[k]))
        <4>1. CASE k = 0
          BY <2>3, <4>1
        <4>2. CASE k # 0
          <5>1. k \in 1 .. n /\ k - 1 \in 0 .. n
            BY <2>1, <4>2
          <5>2. g[k] = size[k] /\ g[k - 1] = size[k - 1]
            BY <5>1
          <5> HIDE DEF g
          <5>. QED
            BY <2>3, <4>2, <5>1, <5>2
        <4>. QED
          BY <4>1, <4>2
      <3>2. g = [k \in 0 .. n |-> g[k]]
        OBVIOUS
      <3> HIDE DEF g
      <3>3. g = [k \in 0 .. n |->
                    IF k = 0 THEN 0
                    ELSE g[k - 1] + Len(Bytes(script[k], sent[k]))]
        BY <3>1, <3>2, Zenon
      <3>. QED
        BY <3>3, Zenon DEF IsSizes
    <2>5. IsSizes(W)
      BY <2>4, Zenon
    <2>6. \A k \in 0 .. n : W[k] = g[k]
      <3> HIDE DEF W, g
      <3>1. 0 \in 0 .. Len(sent)
        BY <2>1
      <3>2. W[0] = g[0]
        BY <2>4, <2>5, <3>1, SizesAt
      <3>3. ASSUME NEW k \in 1 .. n, W[k - 1] = g[k - 1]
            PROVE  W[k] = g[k]
        <4>1. k \in 0 .. Len(sent) /\ k # 0
          BY <2>1
        <4>2. W[k] = W[k - 1] + Len(Bytes(script[k], sent[k]))
          BY <2>5, <4>1, SizesAt
        <4>3. g[k] = g[k - 1] + Len(Bytes(script[k], sent[k]))
          BY <2>4, <4>1, SizesAt
        <4>. QED
          BY <3>3, <4>2, <4>3
      <3> DEFINE T == {k \in 0 .. n : W[k] = g[k]}
      <3>4. 0 \in T /\ \A k \in 1 .. n : k - 1 \in T => k \in T
        BY <2>1, <3>2, <3>3
      <3> HIDE DEF T, n
      <3>5. \A k \in 0 .. n : k \in T
        BY <2>1, <3>4, BoundedInduction
      <3>. QED
        BY <3>5 DEF T
    <2>7. rpc = "idle" => consumed = W[m]
      <3>1. rpc = "idle" => consumed = size[m]
        BY <2>2 DEF Position, AtCall
      <3>2. g[m] = size[m]
        BY <2>1
      <3>. QED
        BY <2>1, <2>6, <3>1, <3>2
    <2>8. ConsumesWhatWasWritten <=> (rpc = "idle" => consumed = W[m])
      BY Zenon DEF ConsumesWhatWasWritten, IsSizes
    <2>. QED
      BY <2>7, <2>8
  <1>. QED
    BY <1>1, StreamAlways, PTL

\* A Read call fails only because the stream does: on any words, it rejects no
\* byte of what the matching Write call wrote (coded_stream.cc:18 and coded_stream.h:113).
THEOREM NothingWrittenIsRejected == Spec => NothingRejected
  <1>1. ASSUME StreamInv, [Next]_vars
        PROVE  [rpc' = "failed" /\ rpc # "failed" => consumed' = consumed]_vars
    <2>1. CASE NumberByte \/ TextByte
      BY <1>1, <2>1, StreamTakesByte
    <2>2. CASE ~ (NumberByte \/ TextByte)
      BY <1>1, <2>2
         DEF Next, Writer, Reader, WriteByte, WriteFails, StartWrite, StartRead,
             ReadFails, rvars, vars
    <2>. QED
      BY <2>1, <2>2
  <1>. QED
    BY <1>1, StreamAlways, PTL DEF Spec, NothingRejected

=============================================================================
