------------------------------ MODULE Program ------------------------------
(***************************************************************************)
(* The code generator, and the program that is built from what it wrote:   *)
(* once the headers compile, the threads of the program ask for the        *)
(* Descriptor and the Reflection of a message type, with which             *)
(* DecodeMessage finds the accessor for each field, and for a default      *)
(* sub-message.                                                            *)
(***************************************************************************)
EXTENDS LazyObjects, SequencesExt

CONSTANTS
    Requests,           \* of the Generator
    Served              \* the class whose objects the program asks for

VARIABLES
    req, queue, open, pkg, printer, resp, status    \* of the Generator

genVars == <<req, queue, open, pkg, printer, resp, status>>
vars == <<genVars, lazyVars>>

Gen == INSTANCE Generator

ASSUME ProgramAssumption ==
    /\ MaxCalls \in Nat
    /\ Slots = {Served} \X {"Descriptor", "Reflection", "SubMessage"}
    /\ \A r \in Requests :
        /\ Gen!WellFormed(r)
        /\ \A m \in DOMAIN r.msg : \A i \in DOMAIN r.msg[m].fields :
            {Gen!FieldDescriptor(r.msg[m].fields[i]),
             Gen!RegisterCalls(r.msg[m].fields[i])} \subseteq Registrations

Init ==
    /\ Gen!Init
    /\ code = <<>>
    /\ LazyInit

\* The headers compile, and the program is linked: what fills the objects of
\* the class is what the generator printed for it.
Link ==
    /\ status = "written" /\ code = <<>>
    /\ \A f \in Gen!Generated : Gen!Compiles(f)
    /\ \E file \in Range(resp) : \E src \in Range(file.content.source) :
        /\ src.class = Served
        /\ code' = [s \in Slots |-> CASE s[2] = "Descriptor" -> src.descriptor
                                      [] s[2] = "Reflection" -> src.reflection
                                      [] OTHER -> <<>>]
    /\ UNCHANGED <<genVars, ptr, objs, thread, calls, returned, raced>>

Next ==
    \/ Gen!Next /\ UNCHANGED lazyVars
    \/ Link
    \/ LazyNext /\ UNCHANGED genVars

Spec == Init /\ [][Next]_vars

-----------------------------------------------------------------------------
(* Properties. *)

TypesResolve == Gen!TypesResolve
PackagesResolve == Gen!PackagesResolve
NothingDropped == Gen!NothingDropped

\* The accessor with which DecodeMessage stores the value of a field.
DecoderOp(e) ==
    CASE e.repeated -> "AddRepeated"
      [] ~ e.repeated /\ e.type \in {"string", "message"} -> "Mutable"
      [] OTHER -> "Set"

\* No assertion of reflection.h fails during a decode: for each field that the
\* Descriptor a thread holds knows, the Reflection it holds has the accessor
\* that decoder.cc calls, unless the first calls raced.
AccessorsFound ==
    \A d \in returned[<<Served, "Descriptor">>],
       r \in returned[<<Served, "Reflection">>] :
        {<<Served, "Descriptor">>, <<Served, "Reflection">>} \cap raced = {} =>
            \A e \in Range(objs[d].table) : \E a \in Range(objs[r].table) :
                /\ a.num = e.num /\ a.of = Gen!CamelName(e.type)
                /\ DecoderOp(e) \in Range(a.ops)

=============================================================================
