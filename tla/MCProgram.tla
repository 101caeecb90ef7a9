----------------------------- MODULE MCProgram -----------------------------
(***************************************************************************)
(* Requests for a file with an outer message, a nested one and a last one, *)
(* and a file that imports it.  Each name has one part.                    *)
(***************************************************************************)
EXTENDS Program, TLC

Outer == <<"Outer">>
Inner == <<"Inner">>
Final == <<"Final">>
User == <<"User">>
Kind == <<"Kind">>
OuterPath == <<Outer>>
InnerPath == <<Outer, Inner>>
FinalPath == <<Final>>

F(num, type, label, ref) == [num |-> num, type |-> type, label |-> label, ref |-> ref]
Enum(name, value) == [name |-> name, values |-> <<value>>]
Msg(name, nested, enums, fields) ==
    [name |-> name, nested |-> nested, enums |-> enums, fields |-> fields]

\* Message 1 is Outer, 2 the nested Inner, 3 is Final, 4 is User in the other
\* file; every name in a field begins with the package.
Request(package, generate, outer, inner, last) ==
    LET In(path) == package \o path
        Named(fields) == [i \in DOMAIN fields |-> [fields[i] EXCEPT !.ref = In(@)]]
    IN  [generate |-> generate,
         file |-> "f" :> [package |-> package, deps |-> <<>>,
                          enums |-> <<Enum(<<"Other">>, "OTHER")>>,
                          messages |-> <<1, 3>>]
                  @@ "g" :> [package |-> <<>>, deps |-> <<"f">>, enums |-> <<>>,
                             messages |-> <<4>>],
         msg |-> <<Msg(Outer, <<2>>, <<Enum(Kind, "KIND")>>, Named(outer)),
                   Msg(Inner, <<>>, <<>>, Named(inner)),
                   Msg(Final, <<>>, <<>>, Named(last)),
                   Msg(User, <<>>, <<>>,
                       Named(<<F(1, "message", "repeated", InnerPath),
                               F(2, "enum", "repeated", <<Outer, Kind>>)>>))>>]

Labels == {"optional", "repeated"}
Paths == {OuterPath, InnerPath, FinalPath}

MessageFields == {<<F(1, "message", l, p)>> : l \in Labels, p \in Paths}

OuterFields ==
    MessageFields \cup
    {<<F(3, "int32", "optional", <<>>), F(1, "string", l, <<>>)>> : l \in Labels}
    \cup {<<F(2, t, l, <<>>)>> : t \in {"bool", "bytes"}, l \in Labels}
    \cup {<<F(2, "enum", l, <<Outer, Kind>>), F(4, "message", "optional", FinalPath)>> :
             l \in Labels}

InnerFields ==
    {<<>>, <<F(1, "message", "repeated", OuterPath)>>,
     <<F(1, "message", "optional", FinalPath)>>,
     <<F(1, "int32", "required", <<>>)>>}

FinalFields ==
    {<<F(1, "message", "repeated", InnerPath)>>,
     <<F(16, "double", "repeated", <<>>)>>}

MCRequests ==
    {Request(<<>>, <<"g", "f">>, o, <<>>, <<F(1, "message", "repeated", InnerPath)>>) :
        o \in OuterFields}
    \cup {Request(<<>>, <<"f", "g">>, <<F(2, "message", "optional", FinalPath)>>, i, l) :
             i \in InnerFields, l \in FinalFields}

\* The same file in a package.
MCPackaged ==
    {Request(<<<<"P">>>>, <<"f", "g">>, o, <<>>, <<>>) : o \in OuterFields}

MCSlots == {Outer} \X {"Descriptor", "Reflection", "SubMessage"}

MCRegistrations ==
    [num : Nat, type : STRING, repeated : BOOLEAN]
    \cup [num : Nat, of : STRING, ops : Seq(STRING)]

AnyThread == Permutations(Threads)

=============================================================================
