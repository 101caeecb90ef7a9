---------------------------- MODULE CodedStream ----------------------------
(***************************************************************************)
(* CodedOutputStream and CodedInputStream (stream/coded_stream.h and .cc)  *)
(* at the two ends of a byte stream, one byte per step.                    *)
(*                                                                         *)
(* The two sides make the same calls in the same order, the script, and a  *)
(* side whose call has returned false makes no other one: DecodeMessage    *)
(* does so for the fields it knows.  (EncodeImpl goes on: see Encoder.)    *)
(* Three kinds of streams implement InputStream and OutputStream:          *)
(*   "blocking"  the Stl streams at the ends of a pipe: Write waits for    *)
(*               room, Read waits for a byte;                              *)
(*   "failing"   a user's streams, which may refuse a byte or time out;    *)
(*   "shared"    the Stl streams on one std::stringstream, as in the tests:*)
(*               one thread, which alternates the calls of the two sides;  *)
(*               a Read at the end sets failbit, and from then on Read     *)
(*               fails and put() does nothing.                             *)
(***************************************************************************)
EXTENDS Wire

CONSTANTS
    Modes,      \* the kinds of streams
    Scripts,    \* the sequences of calls
    Samples,    \* the numbers to write, as uint64_t words
    Texts,      \* the strings to write
    Room        \* how many bytes a pipe holds

Kinds == {"Varint32", "Varint64", "SignedVarint32", "SignedVarint64",
          "FixedInt32", "FixedInt64", "String"}

ASSUME CodedStreamAssumption ==
    /\ Modes \subseteq {"blocking", "failing", "shared"}
    /\ Scripts \subseteq Seq(Kinds)
    /\ Samples \subseteq 0 .. (U64 - 1)
    /\ Texts \subseteq Seq(Byte)
    /\ \A t \in Texts : Len(t) < U32
    /\ Room \in Nat \ {0}

VARIABLES
    mode,       \* the kind of stream
    script,     \* the calls the two sides make
    buf,        \* the bytes in the stream
    failbit,    \* the state of the std::stringstream
    wpc,        \* the writer: "idle", "writing" or "failed"
    value,      \* the argument of its call
    todo,       \* the bytes of it not written yet
    written,    \* cos.WrittenSize()
    sent,       \* history: the values whose Write call returned true
    stored,     \* history: how many bytes the stream took
    rpc,        \* the reader: "idle", "number", "text" or "failed"
    rd,         \* the Read call in progress
    text,       \* the string read so far
    consumed,   \* cis.ConsumedSize()
    received    \* history: the values that Read calls returned

wvars == <<wpc, value, todo, written, sent, stored>>
rvars == <<rpc, rd, text, consumed, received>>
vars == <<mode, script, buf, failbit, wvars, rvars>>

-----------------------------------------------------------------------------
(* The calls.  A value is a sequence: a string is that of its bytes, a     *)
(* number that of one element.                                             *)

\* The argument of a call that writes the word u, as its type holds it.
Argument(kind, u) ==
    CASE kind \in {"Varint32", "FixedInt32"} -> u % U32
      [] kind = "SignedVarint32" -> ToSigned(u % U32, U32)
      [] kind = "SignedVarint64" -> ToSigned(u, U64)
      [] OTHER -> u

Arguments(kind) ==
    IF kind = "String" THEN Texts ELSE {<<Argument(kind, u)>> : u \in Samples}

\* Mutant: WriteSignedVarint32 extends the sign without ZigZag.
BytesSignExtended(kind, v) ==
    CASE kind \in {"Varint32", "Varint64"} -> VarintBytes(v[1])
      [] kind = "SignedVarint32" -> VarintBytes(v[1] % U64)
      [] kind = "SignedVarint64" -> VarintBytes(EncodeZigZag(v[1]))
      [] kind = "FixedInt32" -> FixedBytes(v[1], N32)
      [] kind = "FixedInt64" -> FixedBytes(v[1], N64)
      [] kind = "String" -> VarintBytes(Len(v)) \o v

\* The bytes of a call.  A string is written after its length, as the encoder
\* does.  WriteSignedVarint32 widens its argument and writes 64 bits.
Bytes(kind, v) ==
    CASE kind \in {"Varint32", "Varint64"} -> VarintBytes(v[1])
      [] kind \in {"SignedVarint32", "SignedVarint64"} ->
            VarintBytes(EncodeZigZag(v[1]))
      [] kind = "FixedInt32" -> FixedBytes(v[1], N32)
      [] kind = "FixedInt64" -> FixedBytes(v[1], N64)
      [] kind = "String" -> VarintBytes(Len(v)) \o v

\* Mutant: ReadFixedInt32 reads the bytes of a 64-bit value.
CallTooLong(kind) ==
    IF kind \in {"FixedInt32", "FixedInt64"} THEN NewFixed(N64) ELSE NewVarint

\* The Read call that reads it, or the size in front of a string.
Call(kind) ==
    CASE kind = "FixedInt32" -> NewFixed(N32)
      [] kind = "FixedInt64" -> NewFixed(N64)
      [] OTHER -> NewVarint

\* Calls that end with `return result64 <= UINT32_MAX`.
Is32Bit(kind) == kind \in {"Varint32", "SignedVarint32", "String"}

\* Mutant: the sign is put back as if it were two's complement.
ResultTwosComplement(kind, u) ==
    IF kind \in {"SignedVarint32", "SignedVarint64"} THEN ToSigned(u, U64) ELSE u

\* What the call returns for the word u that it has read.
Result(kind, u) ==
    IF kind \in {"SignedVarint32", "SignedVarint64"} THEN DecodeZigZag(u) ELSE u

-----------------------------------------------------------------------------
(* The writer. *)

\* One thread alternates the calls of the two sides of a std::stringstream.
ReaderAway == mode = "shared" => rpc \in {"idle", "failed"}
WriterAway == mode = "shared" => wpc \in {"idle", "failed"}

StartWrite(v) ==
    /\ wpc = "idle"
    /\ ReaderAway
    /\ Len(sent) < Len(script)
    /\ v \in Arguments(script[Len(sent) + 1])
    /\ wpc' = "writing"
    /\ value' = v
    /\ todo' = Bytes(script[Len(sent) + 1], v)
    /\ UNCHANGED <<mode, script, buf, failbit, written, sent, stored, rvars>>

HasRoom == mode = "blocking" => Len(buf) < Room

\* OutputStreamWrapper::Write.  StlOutputStream::Write returns a pointer, so
\* that it reports success even when put() did nothing.
WriteByte ==
    /\ wpc = "writing"
    /\ HasRoom
    /\ buf' = IF failbit THEN buf ELSE Append(buf, Head(todo))
    /\ stored' = IF failbit THEN stored ELSE stored + 1
    /\ written' = written + 1
    /\ todo' = Tail(todo)
    /\ IF todo' = <<>>
       THEN /\ wpc' = "idle"
            /\ sent' = Append(sent, value)
       ELSE UNCHANGED <<wpc, sent>>
    /\ UNCHANGED <<mode, script, failbit, value, rvars>>

\* Mutant: written_++ before the result of Write is looked at.
WriteFailsAndCounts ==
    /\ mode = "failing"
    /\ wpc = "writing"
    /\ wpc' = "failed"
    /\ written' = written + 1
    /\ UNCHANGED <<mode, script, buf, failbit, value, todo, sent, stored, rvars>>

WriteFails ==
    /\ mode = "failing"
    /\ wpc = "writing"
    /\ wpc' = "failed"
    /\ UNCHANGED <<mode, script, buf, failbit, value, todo, written, sent, stored,
                   rvars>>

-----------------------------------------------------------------------------
(* The reader. *)

Kind == script[Len(received) + 1]

StartRead ==
    /\ rpc = "idle"
    /\ WriterAway
    /\ Len(received) < Len(script)
    /\ rpc' = "number"
    /\ rd' = Call(Kind)
    /\ UNCHANGED <<mode, script, buf, failbit, text, consumed, received, wvars>>

Return(v) ==
    /\ rpc' = "idle"
    /\ received' = Append(received, v)

\* InputStreamWrapper::Read, when the stream has a byte.
TakeByte ==
    /\ buf # <<>> /\ ~ failbit
    /\ buf' = Tail(buf)
    /\ consumed' = consumed + 1
    /\ UNCHANGED <<mode, script, failbit, wvars>>

\* ReadVarint64, ReadVarint32, ReadFixedInt32, ReadFixedInt64: one byte.
NumberByte ==
    LET b == Head(buf)
        u == Feed(rd, b).acc
    IN  /\ rpc = "number"
        /\ TakeByte
        /\ rd' = Feed(rd, b)
        /\ IF Overflows(rd, b) \/ (Is32Bit(Kind) /\ TooBig(rd, b))
           THEN /\ rpc' = "failed"
                /\ UNCHANGED <<text, received>>
           ELSE \/ /\ ~ Ends(rd, b)
                   /\ UNCHANGED <<rpc, text, received>>
                \/ /\ Ends(rd, b) /\ Kind # "String"
                   /\ Return(<<Result(Kind, u)>>)
                   /\ UNCHANGED text
                \/ /\ Ends(rd, b) /\ Kind = "String" /\ u = 0
                   /\ Return(<<>>)
                   /\ text' = <<>>
                \/ /\ Ends(rd, b) /\ Kind = "String" /\ u # 0
                   /\ rpc' = "text"
                   /\ text' = <<>>
                   /\ UNCHANGED received

\* ReadString: one byte of as many as the size said, which is in rd.
TextByte ==
    /\ rpc = "text"
    /\ TakeByte
    /\ text' = Append(text, Head(buf))
    /\ IF Len(text') = rd.acc
       THEN Return(text')
       ELSE UNCHANGED <<rpc, received>>
    /\ UNCHANGED rd

ReadFails ==
    /\ rpc \in {"number", "text"}
    /\ \/ mode = "failing" /\ UNCHANGED failbit
       \/ mode = "shared" /\ (buf = <<>> \/ failbit) /\ failbit' = TRUE
    /\ rpc' = "failed"
    /\ UNCHANGED <<mode, script, buf, rd, text, consumed, received, wvars>>

-----------------------------------------------------------------------------
Init ==
    /\ mode \in Modes
    /\ script \in Scripts
    /\ buf = <<>>
    /\ failbit = FALSE
    /\ wpc = "idle" /\ value = <<>> /\ todo = <<>>
    /\ written = 0 /\ sent = <<>> /\ stored = 0
    /\ rpc = "idle" /\ rd = NewVarint /\ text = <<>>
    /\ consumed = 0 /\ received = <<>>

AllArguments == UNION {Arguments(kind) : kind \in Kinds}

Writer == WriteByte \/ WriteFails \/ \E v \in AllArguments : StartWrite(v)

Reader == StartRead \/ NumberByte \/ TextByte \/ ReadFails

Next == Writer \/ Reader

Spec == Init /\ [][Next]_vars

\* Each side runs, and its calls on the stream return once they can.
FairSpec == Spec /\ WF_vars(Writer) /\ WF_vars(Reader)

-----------------------------------------------------------------------------
(* Properties. *)

TypeOK ==
    /\ mode \in Modes
    /\ script \in Scripts
    /\ buf \in Seq(Byte)
    /\ failbit \in BOOLEAN /\ (failbit => mode = "shared")
    /\ wpc \in {"idle", "writing", "failed"}
    /\ value \in AllArguments \cup {<<>>}
    /\ todo \in Seq(Byte) /\ (wpc = "writing" => todo # <<>>)
    /\ written \in Nat /\ stored \in Nat /\ consumed \in Nat
    /\ sent \in Seq(AllArguments) /\ Len(sent) <= Len(script)
    /\ rpc \in {"idle", "number", "text", "failed"}
    /\ rd \in [acc : 0 .. (U64 - 1), place : Nat \ {0}, left : Nat]
    /\ text \in Seq(Byte)
    /\ received \in Seq(AllArguments) /\ Len(received) <= Len(script)

\* Framing: after each call, the reader has consumed exactly the bytes that the
\* writer wrote for the values read, however the two sides are interleaved and
\* whatever fails later.  The decoder rests on it: it compares ConsumedSize()
\* with the size that the sender computed (decoder.cc:457).
ConsumesWhatWasWritten ==
    LET size[k \in 0 .. Len(sent)] ==
            IF k = 0 THEN 0 ELSE size[k - 1] + Len(Bytes(script[k], sent[k]))
    IN  rpc = "idle" => consumed = size[Len(received)]

\* The two counters account for every byte: what ConsumedSize() counts and what
\* is still in the stream are the bytes that the stream took, each once, and
\* WrittenSize() misses none of them.  It counts no other byte either, in any
\* kind of stream, until a Read has set the failbit of a shared stringstream:
\* from then on it also counts those that put() drops (WrittenSizeIsStored).
CountersAgree ==
    /\ stored = consumed + Len(buf)
    /\ IF failbit THEN stored <= written ELSE stored = written

\* The coded streams implement a channel of values, in every kind of stream.
Channel == INSTANCE ValueChannel WITH Value <- AllArguments
ImplementsChannel == Channel!Spec

\* No Read call rejects a byte of what the matching Write call wrote, so that
\* it fails only when the stream does: neither the check for a tenth group
\* (coded_stream.cc:18) nor that for 32 bits (coded_stream.h:113) ever
\* applies to a value of the call's own type.
NothingRejected ==
    [][rpc' = "failed" /\ rpc # "failed" => consumed' = consumed]_vars

\* Through a pipe, whatever its size, every value arrives: the two sides never
\* wait for each other for ever.
EveryValueArrives ==
    (mode = "blocking") ~> (Len(received) = Len(script))

\* What the comment at coded_stream.h:65 says of WrittenSize(): "How much data
\* has been written to the stream."
WrittenSizeIsStored == written = stored

=============================================================================
