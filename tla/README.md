# decaproto in TLA+

decaproto is a Protobuf implementation for C++ programs on microcontrollers: a
code generator in Go (`codegen/`), which prints a C++ class for each message
type, and a C++ runtime (`runtime/decaproto/`), which reads and writes those
messages. The specifications in this directory model the runtime and the code
that the generator prints, down to the byte and to the object in memory, and the
generator itself. TLC checks them on small words, short streams and small
requests, and TLAPS proves the most important properties for every schema, every
input, every width of the words, every request and every number of threads.

Paths of source files are relative to the root of the repository; a file named
without a directory is in `runtime/decaproto/` or `codegen/`.

## The system

| Component | State | Operations | Used by |
|---|---|---|---|
| Streams (`stream/stream.h`, `stl.h`, `string_stream.h`) | the state of a `std::iostream`, or of a user's device | `Read(byte&)`, `Write(byte)`, each true or false | coded streams |
| Coded streams (`stream/coded_stream.h`, `.cc`) | `consumed_`, `written_` | `ReadVarint32`, `ReadFixedInt64`, ..., `Skip`, `ReadString`, and the `Write` calls | decoder, generated encoders |
| Decoder (`decoder.cc`) | the C++ stack of `DecodeMessage`, and the message it fills | `DecodeMessage(stream, message)` | the application |
| Encoder (`message.h`, `encoder.h`, what `encoder.go` prints) | none but the counter of the coded stream | `Encode`, `EncodeImpl`, `ComputeEncodedSize` | the application |
| Message objects (what `field.go` prints, `field.h`) | a holder for each field, a has-flag for each singular sub-message | `x`, `set_x`, `add_x`, `mutable_x`, `has_x`, `clear_x`, and copies | application, reflection |
| Descriptors (`descriptor.h`, what `descriptor.go` prints) | one lazy singleton for each message type | `GetDescriptor`, `FindFieldByNumber` | decoder |
| Reflection (`reflection.h`, `reflection_util.h`, what `reflection.go` prints) | one lazy singleton for each message type: tables of accessors by field number | `GetReflection`, `SetT`, `AddRepeatedT`, `MutableMessage`, ... | decoder |
| Code generator (`main.go`, `template.go`) | a `Context` for each file: the printer, and the scopes it is in | `processReq`, `processMessage`, `processEnum`, `emitResp` | protoc |

Everything is synchronous: the application calls `Encode` or `DecodeMessage`,
which call the stream for one byte at a time, through a wrapper that counts the
bytes. `DecodeMessage` looks each field number up in the Descriptor of the
message and stores the value through its Reflection; for a sub-message it calls
itself. Concurrency comes from outside: two programs, or two threads, at the two
ends of a stream, each generated from its own version of a `.proto` file; and
threads of one program that share the lazily created Descriptors, Reflections and
default sub-messages.

What is hard here:

- **framing**: nothing delimits fields but the number of bytes that each call
  consumes, so that a call which is one byte off shifts everything after it;
- **nesting**: the declared size of a sub-message is compared with nothing until
  the sub-message is over;
- **failures**: a stream may refuse or time out at any byte; some callers look at
  the result (`DecodeVarint`), some do not (`Skip`, `SkipUnknownField`,
  `EncodeImpl`), and a stream may well succeed after it failed;
- **two implementations of one fact**: the size of a message, computed before the
  message is written by code that is not the code that writes it;
- **pointers**: the decoder keeps a pointer into a `std::vector` during a recursion,
  and the application keeps those that `add_x()` and `mutable_x()` return;
- **ownership**: a message owns its sub-messages through pointers, a flag says whether
  one is there, and a copy must share nothing with its source;
- **lazy creation** without a lock, also in a getter that is `const`;
- **three printers of one fact**: the class, the Descriptor and the Reflection of a
  message are printed by different code, in an order that the C++ compiler must accept;
- **merging**, **unknown fields**, **narrowing** of 64-bit words to the types of
  the fields.

`PROJECT.json` lists these as hazards, each at its line, with the properties that
would catch it going wrong.

## The modules

| Module | What it models |
|---|---|
| `Wire` | the wire format: wire types, tags, varints, fixed-size values, ZigZag, conversions to the C++ types. Constant-level; used by all others |
| `Decoder` | `DecodeMessage` and everything it calls |
| `ValueChannel` | the abstract specification of the coded streams: a channel of values |
| `CodedStream` | both coded streams at the two ends of a byte stream; implements `ValueChannel` |
| `Encoder` | `Message::Encode`, with the generated `EncodeImpl` and `ComputeEncodedSize` |
| `Codec` | an `Encoder` and a `Decoder` composed through a stream |
| `Record` | the abstract specification of the message classes: a message is a value |
| `MessageObject` | the generated accessors and copies, on objects in memory; implements `Record` |
| `Generator` | the protoc plugin, from a request to what the headers and sources declare |
| `LazyObjects` | what the generated code creates when first asked for, by several threads |
| `Program` | the `Generator`, and the program built from what it wrote, with its `LazyObjects` |
| `MCDecoder`, `MCCodedStream`, `MCEncoder`, `MCCodec`, `MCMessageObject`, `MCProgram` | the instances for TLC |
| `DecoderProofs`, `CodedStreamProofs`, `CodecProofs`, `RoundTripProofs`, `MessageObjectProofs`, `ProgramProofs` | the theorems and their proofs |
| `Induction`, `WireProofs` | what those rest on: induction over sets of numbers, and the wire format |

**Words.** The widths are constants: `Base` is the number of values of a varint
byte's payload, `U32` and `U64` those of the unsigned words, `N32` and `N64` the
bytes of the fixed-size values. The program is the instance 2^7, 2^32, 2^64, 4, 8.
The theorems hold for all of them.

**Bytes.** One step of a model is one call of the stream's `Read` or `Write`, with
everything the code does until the next one. A call of `ReadVarint64` in progress
is the record `rd` (what has been accumulated, the weight of the next group, the
bytes left of a fixed-size value); `Feed`, `Ends`, `Overflows` and `TooBig` are
its loop.

**Decoder.** `stack` holds an activation of `DecodeMessage` for each frame of the
C++ stack: the message, the field it was entered from, `consumed_start_size` and
`size`. `pc` says where the innermost one is: at the loop head, in `DecodeTag`, in
one of the four places of `SkipUnknownField`, in a value, a length or a string.
`heap` holds the message objects; a pointer is an index. Each `return false`
unwinds the whole stack, as the callers' tests do (`ReturnFalse`); `ReturnTrue`
pops one activation. `EndOfMessage` is `decoder.cc:452-463`. A `Read` delivers any
byte of `InBytes`, or fails, at any time, also after one that failed, since
`InputStream` promises nothing else. Reflection's accessors are the operators
`Store`, `PushBack`, `SubMessage`. `spans` and `ragged` are history
variables: the sub-messages with their declared sizes, and whether the bytes so far are
outside the grammar of `decoder.cc:14`, in which the deprecated wire types of groups have an
empty value.

**Coded streams.** The two sides make the same calls, the `script`. The stream is a
pipe that holds `Room` bytes (`"blocking"`), a user's pair of streams that may fail
at any byte (`"failing"`), or the two Stl streams on one `std::stringstream`
(`"shared"`), whose calls alternate in one thread and whose failbit they share, as
in the tests. `Channel!Spec`, with `sent` and `received`, is the abstract view. It
says that no value arrives that was not sent, or out of order; what a shared stream loses
after a failed Read is the subject of `CountersAgree` and `WrittenSizeIsStored`.

**Encoder.** A generated `EncodeImpl` is a fixed sequence of Write calls, none of
whose results it looks at: `calls` is what is left of it, as the bytes of each call.
`WriteRefused` drops the rest of one call and goes on. `ComputeEncodedSize` is
translated from what `encoder.go` prints, with the empty case of sint32 and the
one-byte tags.

**Codec.** `Enc` and `Dec` are instances with different schemas; `Decode` reads
what `Enc` has written, waits when there is nothing, and fails to read once
`Encode` has returned and all was read.

**Message objects.** `obj` is the memory: an object for each address, of the recursive
class `M { int32 num; M sub; repeated M subs; }`. A holder is an address or 0
(`SubMessagePtr`, `field.h`) or a sequence of addresses (the vector), and `has` is
`has_sub__`. Each accessor is an action, on any object that the application can reach
without a const reference. A vector that is full is copied with all that is in it
(`AddSubsAndGrow`): the classes declare a destructor, and have no move. The implicit
`operator=` is an action for each member, and for the elements of a vector one
activation each in `frames`, since the members of the source are read after parts of
the destination were destroyed. `Record` says what the calls mean, and leaves
no choice to them: `Edited` is the declared message after a call, with what it was given, on
the message in it to which a way leads, and an assignment makes that one equal to its
argument. `ImplementsRecord` maps a message to the tree of its values, where a sub-message
without its flag is absent (`Value`), and the last call to its way (`Place`) and its argument
(`Last0`); it stands still during an assignment, at the end of which the message must have the
value that the source had at the beginning. It is in `MCMessageObject`.

**Generator.** `open` is the stack of activations of `processReq` and the recursive
`processMessage`, each with what is left to visit; `pkg` is `ctx.cpp_nested_pkg`, and
`printer` the `FilePrinter`. `FinishMessage` is the second half of `processMessage`,
with everything it prints: `Class`, and for the source file the registrations of
`printDescriptor` and `printReflection`. `Fatal` is `log.Fatal`. A name is the sequence
of its parts. What the C++ compiler makes of the headers (`Compiles`) is external: each
type is declared before it is named, and complete where it is used by value.

**Lazy objects.** A call of `GetDescriptor()`, `GetReflection()` or a const getter tests
the pointer (`Test`), creates and publishes the object (`Create`), fills it field by
field (`Register`), and returns whatever the pointer holds by then (`Return`): one step
each, by any thread. `raced` is a history variable: the pointers for which a call began
while another was creating the object. From there on the C++ program is undefined, and
no property says anything of those.

**Program.** `Link` hands what the generator printed for one class to the lazy objects,
if all headers compile.

## The runs

| Run | Checks | Result |
|---|---|---|
| `decoder_fields` | `TypeOK`, `Terminates` | hold |
| `decoder_nesting` | `SpansNest`, `DepthBound`, `FramePointersLive`, `OwnedOnce`, `NothingLost` | hold |
| `coded_stream` | `TypeOK`, `ConsumesWhatWasWritten`, `CountersAgree`, `ImplementsChannel`, `NothingRejected`, `EveryValueArrives` | hold |
| `codec` | `RoundTrip`, `DecodesAPart`, `SizeIsExact`, `Decoded` | hold |
| `decoder_grammar` | `AcceptedIsWellFormed` | violated: a truncated unknown field ends an accepted message |
| `decoder_size_max` | `SpansNest`, with `SIZE_MAX` = 2^32 - 1 | violated: a sub-message declared that long is accepted although it has fewer bytes |
| `coded_lost_bytes` | `WrittenSizeIsStored` | violated: bytes lost after a failed Read are counted |
| `encoder_sizes` | `ASubSizeIsExact` | violated: sint32 fields have no size, a negative int32 has the size of 64 bits, a tag above field 15 the size of one byte |
| `program` | `TypesResolve`, `NothingDropped`, `OneCompleteObject`, `AccessorsFound` | hold |
| `program_package` | `PackagesResolve` | violated: the package is in the type of a field, and not in the name of the class |
| `message_object` | `OwnedOnce`, `NeverReadsDestroyed`, `PointersSurvive`, `ImplementsRecord` | hold |
| `message_inner` | `NeverReadsDestroyed` | violated: `m = m.sub()` copies from what it has destroyed |

The violated properties are findings: `PROJECT.json` quotes the line of the code,
comment or test that each of them contradicts. `encoder_sizes` shows three at once: its
message has three sub-messages, and each error gives one of them a wrong size, so that
no sub-message is left with the right one. The receiver then takes the wrong number of
bytes for the sub-message: `DecodeMessage` returns false when they end inside a field or are
not as many as declared; but a sub-message with sint32 fields only has size 0, is taken as
empty, and its bytes are taken for fields of the message around it. In `decoder_size_max` the
sub-message ends where the one around it ends; if it ran past that end, the size test of the
enclosing one would reject it, and directly in the top-level message it takes all that follows.

### Bounds, and why they are enough

- **Words.** In `MCDecoder` and `MCCodec` a 32-bit word has one byte and a 64-bit
  word two, with the real varint groups of 7 bits: a 32-bit varint has one or two
  groups and can be too big, a 64-bit one has up to three and can overflow. In
  `MCCodedStream` the groups have 3 bits, the words 4 and 8. Every boundary of the
  real widths (last group, overflow, narrowing, sign) has its counterpart.
- **Streams.** `decoder_fields` reads up to 5 bytes out of 13 (every wire type, of
  known and unknown fields, a wire type that does not fit the field, field shapes that
  take different paths, sizes 0, 1, 2, 5, and continuation bytes); `decoder_nesting` up to 8 bytes out of 6, enough for three
  nested activations, siblings, a merged sub-message, and overlapping sizes. A
  `Read` may fail before each byte.
- **Scripts.** Two calls of any kinds, with values at 0, at the end of a group, in
  the middle and at the end of the range: a call that leaves the stream one byte off
  is seen by the next one. `Room` is 2, below the longest value.
- **Messages.** In `codec`, up to four objects: empty ones, two siblings, a nested
  pair, with known and unknown fields of each wire type; field numbers up to 15, and
  no sint32 or negative int32, whose sizes are wrong (see the findings). At most
  one byte is refused (`MaxRefusals`).
- **Requests.** In `program`, two files of which one imports the other, in both orders,
  with a message, one nested in it and one that comes later, and enums in a file and in a
  message; fields of each shape that takes a different path (an unsupported type or
  label among them), and each way in which a class may use another: around it, in it,
  before it, after it, itself. The program has two threads that make four calls: one to
  create each of two objects, with one that overlaps and one that comes later. The
  threads are symmetric.
- **Objects.** In `message_object`, two messages and four calls: one to create a
  sub-message in each of two, an assignment between them, and a change of one that must
  not show in the other; or three elements in one vector, and a copy. An assignment
  between messages of which one is inside the other is excluded (`Nested = FALSE`):
  `message_inner` shows what happens then, and `*m.mutable_sub() = m` copies a source
  that changes meanwhile, of which no comment says what it should give.
- `CHECK_DEADLOCK FALSE` everywhere: a call that has returned makes no more steps.

### Fairness

Weak fairness of each side's step, and no more: a thread that can go on does, and a
`Read` or `Write` on which nothing is missing returns. `Decoder` does not assume that
a Read ever succeeds, or ever fails; `Terminates` holds because the loops end in both
cases (the number of bytes delivered is bounded by `MaxBytes`: with a stream that
never ends the top-level loop does not end, by design). `EveryValueArrives` is about
pipes only, where no call fails. `MessageObject`, `Generator` and `Program` are checked
for safety alone: nothing in them waits.

## What is proved

| Theorem | Property | Argument |
|---|---|---|
| `TypeCorrect` | `TypeOK` of `Decoder`, with the numbers in the ranges of their C++ types (`CppValues`) | inductive with `StackOK` (the activations decode existing message objects, each a younger one than the activation around it), `FieldOK` (while a value is being read, the field is one of the message's, and its type fits the kind of call) and `CallFits` (what was accumulated is less than the weight of the next byte of a fixed-size value, and fits in the word when all are read) |
| `DepthIsBounded` | `DepthBound` | `DepthInv`: an activation costs the byte of a tag and the byte of a size; while the size is being read, the byte of its tag has already been paid |
| `PointersStayLive` | `FramePointersLive` | a step changes one message object, the one of the innermost activation, and every reference goes to a younger object, so that no activation below is touched |
| `SubMessagesNest` | `SpansNest`, if `U32 <= SIZE_MAX` | `SpanInv`: activations start later the deeper they are; a sub-message that is not active any more ends at or before `consumed`, and contains every one that starts inside it. Only the active ones may break that, and the size test on the return from one confirms it |
| `MergingLosesNothing` | `NothingLost` | `HeapSteps`: a step leaves the heap as it is, assigns one field of the innermost message that holds no message, or makes one message object; Append and push_back keep what was there |
| `EachOwnedOnce` | `OwnedOnce` | `OwnedInv`: the fields that hold a message are finitely many, as many as there are message objects but the root, and hold all of them; a step that makes an object adds one such field, which did not hold a message before |
| `CountersAlwaysAgree` | `CountersAgree` of `CodedStream`, for every kind of stream | inductive with `buf` being a sequence and the counters numbers: each byte is counted in the step that moves it; a byte that is counted and not stored needs the failbit |
| `FramingHolds` | `ConsumesWhatWasWritten` of `CodedStream` | see below |
| `StreamsImplementChannel` | `ImplementsChannel` of `CodedStream` | see below |
| `NothingWrittenIsRejected` | `NothingRejected` of `CodedStream` | see below |
| `StreamTypeCorrect` | `TypeOK` of `CodedStream` | see below |
| `SizesAreExact` | `SizeIsExact` of `Codec`, if the `Sources` are `SizableMessages` | see below |
| `DecodeMirrorsEncode` | `RoundTrip` of `Codec`, if the `Sources` are `SizableMessages` and `Readable` | `Mirrors`, see below |
| `DecodedIsPart` | `DecodesAPart` of `Codec`, under the same hypothesis | `Mirrors` and `Referring`, see below |
| `NothingMissing` | `NothingDropped` of `Program` | see below |
| `HeadersResolve` | `TypesResolve` of `Program` | see below |
| `OneOwner` | `OwnedOnce` of `MessageObject` | `Shape`, see below; it needs no bound on the nesting of the assignments |
| `OnlyEndangeredDie` | `PointersSurvive` of `MessageObject` | `Shape` and `Stacked`, see below |
| `AssignmentReadsLive` | `NeverReadsDestroyed` of `MessageObject`, if `~ Nested` | `Apart`, see below |
| `CreatedOnce` | `OneCompleteObject` of `Program` | `LazyInv`: before an object exists, one thread at most is in a call for it; the thread that fills it is alone, and has filled a prefix of what is to be registered; afterwards the object is live and complete, and nobody is about to create another. `GenInv`: what is linked was printed for a message of the request |
| `AccessorsMatchDescriptor` | `AccessorsFound` of `Program` | the two tables that are printed for a message agree field by field, whatever its type and label (`CallsAnswer`); `CreatedOnce` says that what a thread holds is filled with them |

**Coded streams.** The invariant of the last four theorems on `CodedStream` says where
the reader is (`Position`): what the writer has written and the reader has not read yet,
with what is left of the value that is being written, is the rest of the value that is
being read, followed by the bytes of the later values, in which nothing was lost. In a shared stream
that holds until a Read has failed, after which the reader takes no byte. That
`ReadVarint64` gets back what `WriteVarint64` wrote, for every word and every width, is
`ReadingNext` in `WireProofs`: after each group, the value is what has been
accumulated plus the rest times the weight of the next group (`VarintNext`); it needs no
logarithm, and no bound on the number of groups. The two checks never
apply because the rest is at least 1 when another group follows. ZigZag is undone
exactly (`ZigZagRestores`) since a word has an even number of values
(`WordsAreEven`).

**Encoder.** `ComputeEncodedSize` and `EncodeImpl` are recursive functions on the messages, one
that adds numbers and one that joins calls; a message is computed from those that are
younger (`SizesExist`, `BodiesExist`, from the last message to the first). The bytes
of an element are as many as its size says if those of its sub-message are
(`ItemMeasured`), the total of the sizes is the length of what was joined whatever the order of
the additions (`TotalOfFlat`), and so each message has the bytes that its size says
(`Measured`). The invariant `Encoding` says that what the stream took and what the calls to come
will write are, together, the bytes of the message, until the stream refuses a byte. The hypothesis
`SizableMessages` is what `encoder_sizes` shows to be needed: no sint32, no 32-bit number
that is widened to another one, no tag of two bytes. TLC evaluates it on the messages of
`codec` (`MCSourcesAreSizable`).

**Codec.** The bytes of a message are those of its elements, each a tag, a number, and the bytes of a
string or of a sub-message (`Laid`); what follows the first so many elements of each field is
`Rest`. The invariant `Mirrors` says that, as long as no byte has been refused, there are a
map `who`, from each message object of the reader to the writer's message that it is made
of, and a map `got`, to how many elements of each of its fields it holds, such that:
each field that the reader knows holds that many of the writer's elements, and no field
anything else (`FieldsOK`); what is left before the end of an activation is the `Rest` of its message
(`Activations`); within an element, the bytes left are those that the `Read` call in progress still
expects, and those behind it (`Cursor`); and objects without an activation are complete
(`Finished`). No check of `DecodeMessage` can fail then: a number has the width of the call
that reads it, the bytes of a sub-message are as many as its size says (`SizesAreExact`), and an
unknown field ends where `SkipUnknownField` thinks it does. When a sub-message starts, its
bytes are cut off the `Rest` of the message around it; when nothing is left of it, its elements
were all read, as each has at least the byte of its tag. `RoundTrip` on its own is not inductive: it
says nothing before `DecodeMessage` has returned.

What is complete is the `SameMessage`: the writer's messages refer to younger ones only, so that the
equations of the recursive function can be followed from the last message to the first
(`CompleteAreSame`). `PartOfMessage` allows only the last element of a field to be incomplete;
`Referring` says which are: an object with an activation is referred to by the object
of the activation below alone, and only from the end of a field.

The hypothesis `Readable` says which messages the reader's program can take: of the root type,
not longer than `SIZE_MAX`, with field numbers that are distinct and leave room for the wire
type, numbers in the range of their C++ type, and fields that, where the reader knows them, have
the same type and label there and are not packed, which `DecodeMessage` rejects. Fields of either
schema that the other does not have are covered, known and unknown in any order and at any depth. TLC evaluates
both hypotheses on the messages of `codec` (`MCSourcesAreSizable`, `MCSourcesAreReadable`).

**Message objects.** What an object holds was constructed after it (`Forward`), so that
the trees of objects are well-defined, and the tree of an object is the smallest set
around it that is closed under its pointers (`TreeLeast`). The invariant `OwnInv` has
three parts. `Shape`: the live objects hold live objects only, no two pointers of theirs go
to one object, and every one but the declared is held. Each action is a `Change`
of one message (`Acts`): the message loses some parts, the trees of these are destroyed, and it
gets the roots of new trees; a copy of a set of trees is such a set of new trees
(`CopiesForest`), since the copies are constructed in the order of the originals. A
`Change` keeps the `Shape` (`ChangeKeepsShape`), and the trees of the objects that are
left differ by what was destroyed and what is new (`TreesAfter`). `Stacked`: the activations
of `operator=` assign to parts of the message that the outermost one assigns to, and an inner
one assigns to nothing around the destination of an outer one, so that none destroys
the destination of another, and all that an assignment destroys is in the outermost
destination. `Apart`: the sources are parts of one message of which the tree is disjoint from
the one that is assigned to. This is what `Nested` breaks, and `message_inner` shows that
`NeverReadsDestroyed` needs it; `OwnedOnce` and `PointersSurvive` do not. `OwnedOnce`
on its own is not inductive: it says nothing while an assignment is in progress.

**Generator.** The messages of a request form trees, which `Chain` climbs by recursion; the
lemma `Chains` says by induction on the numbers of the messages that a chain goes from a
top-level message down, and that the chain of each message on it is its beginning. The invariant
`GenInv` says of the file in progress (`Traversal`) that each of its messages is printed
(`Printed`), or is being visited with the enums that are printed already (`Visiting`), or
is still to come, itself or one around it (`Pending`); that the activations are those of the
messages on one chain (`Stacked`), so that `ctx.cpp_nested_pkg` is the path of
the innermost one; and that each definition is behind those of all messages
of which the declaration ends before (`DefinedAt`). A message is defined at the end of its
activation, when all that is declared inside or in front of it was printed (`EndedBefore`).
`NothingDropped` is what is left of `Traversal` when nothing is pending (`Complete`), and
`TypesResolve` follows from `Complete` of the file and of those it imports.

The theorems assume `WireAssumption`, `WordAssumption`, `DecoderAssumption`,
`CodedStreamAssumption`, `CodecAssumption`, `MessageObjectAssumption` (a number of declared messages) and
`ProgramAssumption`, which the modules name: positive widths,
`U32 <= U64`, words of whole groups of bits (the number of values of a word of n bytes is
the n-th power of that of a byte, a multiple of 2), distinct field numbers in a message type,
bytes that are bytes, texts whose length is a 32-bit word, and requests as protoc
sends them (`WellFormed`): the messages are numbered in the order of their
declarations, each is declared in one place, and each type that a field has is declared in
its file or in one that the file imports. The assumption of `SubMessagesNest` is what
`decoder_size_max` shows to be needed: `SIZE_MAX` must be no size that a
sub-message can declare.

The type invariant of `Decoder` is needed by all its other theorems: it says that the
message an activation refers to exists and has the field in hand, without which a step's
effect on the heap is unknown. That a message refers only to younger ones, a part of it, is
what makes the message objects a tree for `PointersStayLive`.

Induction over data is by the least element of a set of numbers (`Induction`), since
none of the provers instantiates the library's induction theorems, which take
an operator as a parameter. A recursive definition is a function that is chosen: its
equations hold once a lemma says that such a function exists (`ChainsExist`, and the like in
`WireProofs` and `CodedStreamProofs`).

Model-checked only: liveness (`Terminates`, `EveryValueArrives`, `Decoded`), since fairness
and ENABLED are out of the prover's reach; `ImplementsRecord`, since the
abstract specification, `Record`, has RECURSIVE operators, on values of any depth, which is
why the refinement is stated in `MCMessageObject` and not in `MessageObject`. All other
properties that hold in a run are theorems.

## What is not modelled

- The **wording** of the text that the generator prints, the names of the output files,
  the parsing and formatting of protoc's messages, the proto2 warning, build files,
  examples: sequential formatting without state.
- **Names that collide**: names of nested scopes are joined with underscores, and
  enumerators are not scoped, so that two messages or enums of one file may get one name.
- **oneof** and maps, which the generator does not know.
- **Logging** to `std::cerr`, and running out of memory.
- What a program does after two threads **raced** for a lazy object: undefined behaviour.
- The **casts** of `reflection_util.h` between `Message` and the class; the decoder's
  calls of Reflection are the operators `Store`, `PushBack` and `SubMessage` of `Decoder`.
- **bytes and packed** fields are rejected by the decoder, which is modelled; the
  generator does not support them.
- Repeated **bool** fields: `add_x` returns a pointer into a `std::vector<bool>`,
  which does not compile.
- Bits of a NaN, and arithmetic on floats: a float is its bit pattern, and the only
  thing asked of it is whether it equals zero.

## Plan

1. `Wire`, `Decoder` and its proofs; `CodedStream` with `ValueChannel`; `Encoder`;
   `Codec`. Done: the bytes between two programs.
2. `MessageObject` with `Record`. Done: the objects in memory.
3. `Generator`, `LazyObjects`, `Program` and its proof. Done: from a request to a program
   that has its Descriptors and Reflections.
4. Proofs. Done: the safety properties of `Decoder`, of `CodedStream` with its refinement,
   of the `Generator` and of the `Program`, ownership in `MessageObject`, and in `Codec`
   the sizes and the round trip, complete and in part.
