----------------------------- MODULE Generator -----------------------------
(***************************************************************************)
(* The protoc plugin (codegen/): from a CodeGeneratorRequest to the header *)
(* and the source file of each requested .proto file.  processMessage is   *)
(* recursive, and the printers it appends to are what its order matters    *)
(* for; the text of a class is abstracted to what a compiler and the       *)
(* decoder can tell apart.                                                 *)
(*                                                                         *)
(* A name is the sequence of its parts between underscores, since that is  *)
(* what the generator joins the names of nested scopes with.               *)
(***************************************************************************)
EXTENDS Naturals, SequencesExt

CONSTANTS
    Requests    \* the CodeGeneratorRequests that protoc may send

-----------------------------------------------------------------------------
(* What the .proto files say.  A request has the FileDescriptorProtos      *)
(* `file` by name, the DescriptorProtos `msg` of all files in the order of *)
(* their declarations, to which files and messages refer by index, and the *)
(* names `generate` of the files to generate.                              *)

\* The message that m is nested in, if there is one.
Outer(r, m) == {p \in DOMAIN r.msg : m \in Range(r.msg[p].nested)}

\* The messages around each message and itself, the outermost first.
Chain(r) ==
    LET chain[m \in DOMAIN r.msg] ==
            IF Outer(r, m) = {} THEN <<m>>
            ELSE Append(chain[CHOOSE p \in Outer(r, m) : TRUE], m)
    IN  chain

FileOf(r, m) ==
    CHOOSE f \in DOMAIN r.file : Chain(r)[m][1] \in Range(r.file[f].messages)

Path(r, m) == [i \in DOMAIN Chain(r)[m] |-> r.msg[Chain(r)[m][i]].name]

\* The full name of a message type, as protoc gives it in type_name.
TypeName(r, m) == r.file[FileOf(r, m)].package \o Path(r, m)

\* The files that each file imports, and those they import.
Included(r) ==
    LET reach[f \in DOMAIN r.file] ==
            UNION {{d} \cup reach[d] : d \in Range(r.file[f].deps)}
    IN  reach

\* The types that a file may name.
MessageTypes(r, f) ==
    {TypeName(r, n) : n \in {n \in DOMAIN r.msg :
                                FileOf(r, n) \in {f} \cup Included(r)[f]}}

EnumTypes(r, f) ==
    (UNION {{Append(r.file[g].package, e.name) : e \in Range(r.file[g].enums)} :
               g \in DOMAIN r.file \cap ({f} \cup Included(r)[f])})
    \cup
    (UNION {{Append(TypeName(r, n), e.name) : e \in Range(r.msg[n].enums)} :
               n \in {n \in DOMAIN r.msg :
                         FileOf(r, n) \in {f} \cup Included(r)[f]}})

\* The declaration of a, with all that is nested in it, is in front of n.
Precedes(r, a, n) == \A m \in DOMAIN r.msg : a \in Range(Chain(r)[m]) => m < n

Declares(r, s) ==
    /\ s \in Seq(DOMAIN r.msg)
    /\ \A i, j \in DOMAIN s : i < j => Precedes(r, s[i], s[j])

IsSeq(s) == s \in Seq(Range(s))

\* Each message is declared in one place, and each type that a field has is
\* declared in its file or in one that this file imports.
WellFormed(r) ==
    /\ IsSeq(r.msg) /\ r.generate \in Seq(DOMAIN r.file)
    /\ \A f \in DOMAIN r.file :
        Declares(r, r.file[f].messages) /\ IsSeq(r.file[f].enums)
    /\ \A m \in DOMAIN r.msg :
        /\ Declares(r, r.msg[m].nested) /\ IsSeq(r.msg[m].enums)
        /\ \A n \in Range(r.msg[m].nested) : m < n
        /\ LET files == {f \in DOMAIN r.file : m \in Range(r.file[f].messages)}
           IN  \/ Outer(r, m) = {} /\ \E f \in DOMAIN r.file : files = {f}
               \/ files = {} /\ \E p \in DOMAIN r.msg : Outer(r, m) = {p}
        /\ IsSeq(r.msg[m].fields)
        /\ \A x \in Range(r.msg[m].fields) :
            /\ x.type = "message" => x.ref \in MessageTypes(r, FileOf(r, m))
            /\ x.type = "enum" => x.ref \in EnumTypes(r, FileOf(r, m))

-----------------------------------------------------------------------------
VARIABLES
    req,        \* the request
    queue,      \* the files that are left to generate
    open,       \* the activations of processMessage, below them the one of
                \* processReq: the message and what is left to visit in it
    pkg,        \* ctx.cpp_nested_pkg
    printer,    \* ctx.printer
    resp,       \* the files of the response
    status      \* of the process

vars == <<req, queue, open, pkg, printer, resp, status>>

-----------------------------------------------------------------------------
(* Field types (field.go). *)

PrimitiveTypes ==
    {"uint64", "int64", "fixed64", "sfixed64", "sint64", "uint32", "int32",
     "fixed32", "sfixed32", "sint32", "double", "float", "bool"}

\* strings.Join(path, "_")
FullName(path) == FlattenSeq(path)

CcType(f) ==
    IF f.type \in {"message", "enum"} THEN FullName(f.ref) ELSE <<f.type>>

\* The suffix of the accessors of Reflection for a type.
CamelName(type) ==
    CASE type = "message" -> "Message"
      [] type = "enum" -> "EnumValue"
      [] type = "string" -> "String"
      [] OTHER -> type

\* processField and getTypeNameInfo do not end the process.
Supported(f) ==
    /\ f.type \in PrimitiveTypes \cup {"enum", "string", "message"}
    /\ f.label \in {"optional", "repeated"}

-----------------------------------------------------------------------------
(* What is printed for a message. *)

Member(f) ==
    [holder |-> CASE f.label = "repeated" -> "vector"
                  [] f.label # "repeated" /\ f.type = "message" -> "SubMessagePtr"
                  [] OTHER -> "value",
     cc |-> CcType(f), type |-> f.type, num |-> f.num]

\* Mutant: the registrations of descriptor.go without `true` for repeated.
FieldDescriptorSingular(f) == [num |-> f.num, type |-> f.type, repeated |-> FALSE]

FieldDescriptor(f) ==
    [num |-> f.num, type |-> f.type, repeated |-> f.label = "repeated"]

\* The calls Register<op><type>(tag, ...) of the generated GetReflection.
RegisterCalls(f) ==
    [num |-> f.num, of |-> CamelName(f.type),
     ops |-> CASE f.label = "repeated" ->
                    <<"GetRepeated", "AddRepeated", "FieldSize">>
               [] f.label # "repeated" /\ f.type = "string" ->
                    <<"Mutable", "Get">>
               [] f.label # "repeated" /\ f.type = "message" ->
                    <<"Mutable", "Get", "HasField">>
               [] OTHER -> <<"Set", "Get">>]

Class(path, m) ==
    [name |-> FullName(path),
     typedefs |-> [i \in DOMAIN m.nested |->
                      FullName(Append(path, req.msg[m.nested[i]].name))]
                  \o [i \in DOMAIN m.enums |->
                      FullName(Append(path, m.enums[i].name))],
     members |-> [i \in DOMAIN m.fields |-> Member(m.fields[i])]]

Source(path, m) ==
    [class |-> FullName(path),
     descriptor |-> [i \in DOMAIN m.fields |-> FieldDescriptor(m.fields[i])],
     reflection |-> [i \in DOMAIN m.fields |-> RegisterCalls(m.fields[i])]]

EnumDefinition(path, e) == [name |-> FullName(Append(path, e.name)),
                            values |-> e.values]

NewFilePrinter(file) ==
    [includes |-> {file.deps[i] : i \in DOMAIN file.deps}, prototypes |-> <<>>,
     enums |-> <<>>, definitions |-> <<>>, source |-> <<>>]

-----------------------------------------------------------------------------
Init ==
    /\ req \in Requests
    /\ queue = req.generate
    /\ open = <<>>
    /\ pkg = <<>>
    /\ printer = NewFilePrinter([deps |-> <<>>])
    /\ resp = <<>>
    /\ status = "running"

Running == status = "running"
Top == open[Len(open)]
SetTop(a) == [open EXCEPT ![Len(open)] = a]
Pop == SubSeq(open, 1, Len(open) - 1)

\* The activation of processReq has no message, and visits the enums first;
\* that of a message visits the nested messages first.
InFile == Len(open) = 1
InMessage == Len(open) > 1

\* A new iteration of the loop of processReq, with a new Context.
StartFile ==
    /\ Running /\ open = <<>> /\ queue # <<>>
    /\ LET file == req.file[Head(queue)]
       IN  /\ open' = <<[msg |-> 0, nested |-> file.messages,
                         enums |-> file.enums]>>
           /\ printer' = NewFilePrinter(file)
    /\ pkg' = <<>>
    /\ UNCHANGED <<req, queue, resp, status>>

ProcessEnum ==
    /\ Running /\ open # <<>> /\ Top.enums # <<>>
    /\ InFile \/ Top.nested = <<>>
    /\ printer' = [printer EXCEPT
                      !.enums = Append(@, EnumDefinition(pkg, Head(Top.enums)))]
    /\ open' = SetTop([Top EXCEPT !.enums = Tail(@)])
    /\ UNCHANGED <<req, queue, pkg, resp, status>>

\* The first half of processMessage, up to the loops over what is nested.
EnterMessage ==
    /\ Running /\ open # <<>> /\ Top.nested # <<>>
    /\ InMessage \/ Top.enums = <<>>
    /\ LET m == req.msg[Head(Top.nested)]
       IN  /\ pkg' = Append(pkg, m.name)
           /\ open' = Append(SetTop([Top EXCEPT !.nested = Tail(@)]),
                             [msg |-> Head(Top.nested), nested |-> m.nested,
                              enums |-> m.enums])
    /\ UNCHANGED <<req, queue, printer, resp, status>>

Visited == open # <<>> /\ Top.nested = <<>> /\ Top.enums = <<>>
AllSupported(m) == \A i \in DOMAIN m.fields : Supported(m.fields[i])

\* Mutant: an outer class is defined in front of the nested ones.
FinishMessageInFront ==
    /\ Running /\ InMessage /\ Visited /\ AllSupported(req.msg[Top.msg])
    /\ LET m == req.msg[Top.msg]
       IN  printer' = [printer EXCEPT
                          !.prototypes = Append(@, FullName(pkg)),
                          !.source = Append(@, Source(pkg, m)),
                          !.definitions = <<Class(pkg, m)>> \o @]
    /\ pkg' = SubSeq(pkg, 1, Len(pkg) - 1)
    /\ open' = Pop
    /\ UNCHANGED <<req, queue, resp, status>>

\* Mutant: without popPackage.
FinishMessageUnpopped ==
    /\ Running /\ InMessage /\ Visited /\ AllSupported(req.msg[Top.msg])
    /\ LET m == req.msg[Top.msg]
       IN  printer' = [printer EXCEPT
                          !.prototypes = Append(@, FullName(pkg)),
                          !.source = Append(@, Source(pkg, m)),
                          !.definitions = Append(@, Class(pkg, m))]
    /\ open' = Pop
    /\ UNCHANGED <<req, queue, pkg, resp, status>>

\* The second half, with processField, printDescriptor and printReflection.
FinishMessage ==
    /\ Running /\ InMessage /\ Visited /\ AllSupported(req.msg[Top.msg])
    /\ LET m == req.msg[Top.msg]
       IN  printer' = [printer EXCEPT
                          !.prototypes = Append(@, FullName(pkg)),
                          !.source = Append(@, Source(pkg, m)),
                          !.definitions = Append(@, Class(pkg, m))]
    /\ pkg' = SubSeq(pkg, 1, Len(pkg) - 1)
    /\ open' = Pop
    /\ UNCHANGED <<req, queue, resp, status>>

\* log.Fatal in processField: the process ends before anything was written.
Fatal ==
    /\ Running /\ InMessage /\ Visited /\ ~ AllSupported(req.msg[Top.msg])
    /\ status' = "fatal"
    /\ UNCHANGED <<req, queue, open, pkg, printer, resp>>

\* The header and the source file of the file are appended to the response.
FinishFile ==
    /\ Running /\ InFile /\ Visited
    /\ resp' = Append(resp, [file |-> Head(queue), content |-> printer])
    /\ queue' = Tail(queue)
    /\ open' = <<>>
    /\ UNCHANGED <<req, pkg, printer, status>>

\* emitResp, the only output.
EmitResp ==
    /\ Running /\ open = <<>> /\ queue = <<>>
    /\ status' = "written"
    /\ UNCHANGED <<req, queue, open, pkg, printer, resp>>

Next ==
    \/ StartFile \/ ProcessEnum \/ EnterMessage \/ FinishMessage \/ Fatal
    \/ FinishFile \/ EmitResp

Spec == Init /\ [][Next]_vars

-----------------------------------------------------------------------------
(* What the properties say of a request. *)

\* The declaration of n ends before the one of m does, in the same file.
EndsBefore(n, m) ==
    m \in Range(Chain(req)[n]) \/ (n < m /\ n \notin Range(Chain(req)[m]))

FieldsOf(m) == Range(req.msg[m].fields)

\* A repeated field of a message type of which the class is not complete at
\* the end of the one with the field, where add_x() calls its constructor.
RepeatsIncomplete ==
    \E m, n \in DOMAIN req.msg : \E f \in FieldsOf(m) :
        /\ f.label = "repeated" /\ f.type = "message" /\ f.ref = TypeName(req, n)
        /\ FileOf(req, m) = FileOf(req, n) /\ m # n /\ ~ EndsBefore(n, m)

\* add_x() returns the address of an element of a std::vector<bool>.
RepeatsBool ==
    \E m \in DOMAIN req.msg : \E f \in FieldsOf(m) :
        f.label = "repeated" /\ f.type = "bool"

Generated == Range(req.generate)

HasPackage == \E f \in DOMAIN req.file : req.file[f].package # <<>>

-----------------------------------------------------------------------------
(* What the C++ compiler makes of the headers (external). *)

Content(file) ==
    resp[CHOOSE i \in DOMAIN resp : resp[i].file = file].content

\* The types in a header are declared where they are named, and complete where
\* the class is used; a std::vector<bool> has no addresses.  The header of a
\* file includes those of the files it imports.
Compiles(file) ==
    LET h == Content(file)
        before == {Content(f) : f \in Included(req)[file]}
        enums == {e.name : e \in UNION {Range(c.enums) : c \in before \cup {h}}}
        classes == UNION {Range(c.prototypes) : c \in before \cup {h}}
        complete(k) ==
            {h.definitions[i].name : i \in 1 .. k}
            \cup {d.name : d \in UNION {Range(c.definitions) : c \in before}}
    IN  \A k \in DOMAIN h.definitions :
            /\ Range(h.definitions[k].typedefs) \subseteq enums \cup classes
            /\ \A x \in Range(h.definitions[k].members) :
                /\ x.type = "enum" => x.cc \in enums
                /\ x.type = "message" =>
                    x.cc \in IF x.holder = "vector" THEN complete(k) ELSE classes
                /\ x.type = "bool" => x.holder # "vector"

-----------------------------------------------------------------------------
(* Properties. *)

\* def_order.proto:4 wants a message or an enum to be usable before its
\* definition.  The headers resolve every type, whatever the order of the
\* messages, their nesting and the order of the files, but for what the generator
\* does not support: packages, a repeated field of a message that is defined
\* later or around it, and repeated bools.
TypesResolve ==
    status = "written" /\ ~ HasPackage /\ ~ RepeatsIncomplete /\ ~ RepeatsBool
        => \A f \in Generated : Included(req)[f] \subseteq Generated => Compiles(f)

\* The same with packages, which belong to the full name of a class
\* (main.go:149: "full_name string // MyPackage_Nested_MyMessage").
PackagesResolve ==
    status = "written" /\ ~ RepeatsIncomplete /\ ~ RepeatsBool
        => \A f \in Generated : Included(req)[f] \subseteq Generated => Compiles(f)

\* If protoc gets a response, then nothing of the requested files is missing
\* from it: each message, nested or not, has a class named after its path with
\* a member, a descriptor and accessors for each of its fields, and each enum
\* has its definition.  An unsupported field anywhere fails the whole request.
NothingDropped ==
    status = "written" => \A f \in Generated :
        LET h == Content(f)
            Nums(fields) == [i \in DOMAIN fields |-> fields[i].num]
            Defines(path, enums) ==
                {[name |-> FullName(Append(path, e.name)), values |-> e.values] :
                    e \in Range(enums)} \subseteq Range(h.enums)
        IN  /\ Defines(<<>>, req.file[f].enums)
            /\ \A m \in DOMAIN req.msg : FileOf(req, m) = f =>
                /\ \E i \in DOMAIN h.definitions :
                    /\ h.definitions[i].name = FullName(Path(req, m))
                    /\ Nums(h.definitions[i].members) = Nums(req.msg[m].fields)
                /\ \E i \in DOMAIN h.source :
                    /\ h.source[i].class = FullName(Path(req, m))
                    /\ Nums(h.source[i].descriptor) = Nums(req.msg[m].fields)
                    /\ Nums(h.source[i].reflection) = Nums(req.msg[m].fields)
                /\ Defines(Path(req, m), req.msg[m].enums)

=============================================================================
