------------------------------- MODULE Record -------------------------------
(***************************************************************************)
(* What the generated message classes promise (field.h:10: "it provides a  *)
(* copy constructor and operator= which copies the instance of the         *)
(* submessage, not the pointer"): a message is a value.  It has a number,  *)
(* a sub-message or none, and a sequence of sub-messages; a call changes   *)
(* the message it is on, and an assignment makes that message equal to the *)
(* one which is assigned.                                                  *)
(***************************************************************************)
EXTENDS Naturals, SequencesExt

CONSTANTS
    Roots,      \* the messages that the application declared
    Nums        \* the values of the number

VARIABLES
    val,        \* root -> its value
    last        \* the last call that returned, with a serial number

Default == [num |-> 0, sub |-> <<>>, subs |-> <<>>]

\* The values in a message, its own included.
RECURSIVE Parts(_)
Parts(v) == {v} \cup (UNION {Parts(w) : w \in Range(v.sub) \cup Range(v.subs)})

\* What an assignment may copy: an absent sub-message reads as the default.
Sources == {Default} \cup (UNION {Parts(val[r]) : r \in Roots})

\* The ways to the messages in v: 0 leads to sub, i to the i-th of subs.
RECURSIVE Paths(_)
Paths(v) ==
    {<<>>}
    \cup (UNION {{<<0>> \o w : w \in Paths(x)} : x \in Range(v.sub)})
    \cup (UNION {{<<i>> \o w : w \in Paths(v.subs[i])} : i \in DOMAIN v.subs})

\* The message v after a call of op on it, with arg for what the call is given.
Result(op, arg, v) ==
    CASE op = "set_num" -> [v EXCEPT !.num = arg.num]
      [] op = "mutable_sub" -> [v EXCEPT !.sub = IF @ = <<>> THEN <<Default>> ELSE @]
      [] op = "clear_sub" -> [v EXCEPT !.sub = <<>>]
      [] op = "add_subs" -> [v EXCEPT !.subs = Append(@, Default)]
      [] op = "clear_subs" -> [v EXCEPT !.subs = <<>>]
      [] op = "assign" -> arg

\* The message v after a call on the message in it to which `way` leads.
RECURSIVE Edited(_, _, _, _)
Edited(op, arg, way, v) ==
    CASE way = <<>> -> Result(op, arg, v)
      [] way # <<>> /\ Head(way) = 0 ->
            [v EXCEPT !.sub = <<Edited(op, arg, Tail(way), @[1])>>]
      [] OTHER -> [v EXCEPT !.subs[Head(way)] = Edited(op, arg, Tail(way), @)]

-----------------------------------------------------------------------------
Init ==
    /\ val = [r \in Roots |-> Default]
    /\ last = [op |-> "none", at |-> <<>>, arg |-> Default, n |-> 0]

Returned(op, at, arg) ==
    last' = [op |-> op, at |-> at, arg |-> arg, n |-> last.n + 1]

\* sub() changes no message, whichever it is called on.
Get == Returned("sub", <<>>, Default) /\ UNCHANGED val

Call(op, r, way, arg) ==
    /\ Returned(op, <<r>> \o way, arg)
    /\ val' = [val EXCEPT ![r] = Edited(op, arg, way, @)]

Next ==
    \/ Get
    \/ \E r \in Roots : \E way \in Paths(val[r]) :
        \/ \E op \in {"mutable_sub", "clear_sub", "add_subs", "clear_subs"} :
            Call(op, r, way, Default)
        \/ \E n \in Nums : Call("set_num", r, way, [Default EXCEPT !.num = n])
        \/ \E v \in Sources : Call("assign", r, way, v)

Spec == Init /\ [][Next]_<<val, last>>

=============================================================================
