--------------------------- MODULE MessageObject ---------------------------
(***************************************************************************)
(* The objects of a generated message class (what codegen/field.go prints, *)
(* and SubMessagePtr of field.h), in memory.  The class is                 *)
(*     message M { int32 num; M sub; repeated M subs; }                    *)
(* and its objects are reached from those that the application declared.   *)
(*                                                                         *)
(* An address is an index of obj, and is never used again.  A class has a  *)
(* virtual destructor (main.go), and thus no move constructor: a vector    *)
(* that grows copies its elements and destroys the old ones.  The          *)
(* application does not use a dangling pointer itself, but an assignment   *)
(* may destroy the message it copies from.                                 *)
(***************************************************************************)
EXTENDS Naturals, SequencesExt, FiniteSetsExt

CONSTANTS
    Declared,   \* the number of messages that the application declared
    Nums,       \* the values of num
    Nested,     \* may a message be assigned one that is inside or around it?
    MaxCalls    \* bound: how many calls are made at most

ASSUME MessageObjectAssumption ==
    /\ Declared \in Nat
    /\ Nested \in BOOLEAN
    /\ MaxCalls \in Nat

VARIABLES
    obj,        \* the objects, those that were destroyed included
    live,       \* the addresses of the others
    frames,     \* the activations of operator=, the outermost first: where
                \* they copy to and from, and which member is next
    last,       \* history: the last call that returned, on which object, where
                \* it was, and the value the call was given
    kept        \* history: the values before the assignment in progress

vars == <<obj, live, frames, last, kept>>

Roots == 1 .. Declared

New == [num |-> 0, sub |-> 0, has |-> FALSE, subs |-> <<>>]

\* The value of a new object, also for the argument of a call without one.
NoValue == [num |-> 0, sub |-> <<>>, subs |-> <<>>]

Children(a) == ({obj[a].sub} \ {0}) \cup Range(obj[a].subs)

\* The objects in each one, itself included.
Tree ==
    LET tree[a \in DOMAIN obj] == {a} \cup UNION {tree[c] : c \in Children(a)}
    IN  tree

InSub(a) == IF obj[a].sub = 0 THEN {} ELSE Tree[obj[a].sub]
InSubs(a) == UNION {Tree[e] : e \in Range(obj[a].subs)}

\* The way to each message: its root, then 0 for sub and i for the i-th of subs.
Place ==
    LET Owner(a) == CHOOSE p \in live : a \in Children(p)
        Step(p, a) == IF obj[p].sub = a THEN 0
                      ELSE CHOOSE i \in DOMAIN obj[p].subs : obj[p].subs[i] = a
        place[a \in live] == IF a \in Roots THEN <<a>>
                             ELSE Append(place[Owner(a)], Step(Owner(a), a))
    IN  place

\* The objects that the application has const references to: what sub() has
\* created.
Constant == UNION {InSub(a) : a \in {b \in live : ~ obj[b].has}}

\* Where the copy constructor puts the copy of a, when it copies all of S.
CopyOf(a, S) == Len(obj) + Cardinality({b \in S : b <= a})

Copies(S) ==
    LET Copy(a) == [obj[a] EXCEPT
                       !.sub = IF @ = 0 THEN 0 ELSE CopyOf(@, S),
                       !.subs = [i \in DOMAIN @ |-> CopyOf(@[i], S)]]
    IN  [i \in 1 .. Cardinality(S) |->
            Copy(CHOOSE a \in S : CopyOf(a, S) = Len(obj) + i)]

CopiesOf(s, S) == [i \in DOMAIN s |-> CopyOf(s[i], S)]

\* The object at p becomes m, `new` are constructed, and `gone` destroyed.
Update(p, m, new, gone) ==
    /\ obj' = [a \in DOMAIN obj |-> IF a = p THEN m
                                    ELSE IF a \in gone THEN New ELSE obj[a]]
              \o new
    /\ live' = (live \ gone) \cup (Len(obj) + 1 .. Len(obj) + Len(new))

-----------------------------------------------------------------------------
Init ==
    /\ obj = [r \in Roots |-> New]
    /\ live = Roots
    /\ frames = <<>>
    /\ last = [op |-> "none", on |-> 0, at |-> <<>>, arg |-> NoValue, n |-> 0]
    /\ kept = <<>>

Returned(op, p, v) ==
    last' = [op |-> op, on |-> p, at |-> Place[p], arg |-> v, n |-> last.n + 1]

Callable == frames = <<>> /\ last.n < MaxCalls

Called(op, p, v) ==
    /\ Callable
    /\ Returned(op, p, v)
    /\ UNCHANGED <<frames, kept>>

\* set_num(), and clear_num()
SetNum(p) ==
    \E n \in Nums :
        /\ Called("set_num", p, [NoValue EXCEPT !.num = n])
        /\ Update(p, [obj[p] EXCEPT !.num = n], <<>>, {})

\* `if (!sub__) sub__.resetDefault();`
IsNull(p) == obj[p].sub = 0
Held(p) == IF IsNull(p) THEN Len(obj) + 1 ELSE obj[p].sub
MadeDefault(p) == IF IsNull(p) THEN <<New>> ELSE <<>>

\* sub() creates what it returns a reference to, and does not set has_sub__.
Sub(p) ==
    /\ Called("sub", p, NoValue)
    /\ Update(p, [obj[p] EXCEPT !.sub = Held(p)], MadeDefault(p), {})

\* Mutant: the sub-message is reset in every call.
MutableSubAfresh(p) ==
    /\ Called("mutable_sub", p, NoValue)
    /\ Update(p, [obj[p] EXCEPT !.sub = Len(obj) + 1, !.has = TRUE], <<New>>,
              InSub(p))

MutableSub(p) ==
    /\ Called("mutable_sub", p, NoValue)
    /\ Update(p, [obj[p] EXCEPT !.sub = Held(p), !.has = TRUE],
              MadeDefault(p), {})

ClearSub(p) ==
    /\ Called("clear_sub", p, NoValue)
    /\ Update(p, [obj[p] EXCEPT !.sub = 0, !.has = FALSE], <<>>, InSub(p))

\* add_subs() when the vector has room.
AddSubs(p) ==
    /\ Called("add_subs", p, NoValue)
    /\ Update(p, [obj[p] EXCEPT !.subs = Append(@, Len(obj) + 1)], <<New>>, {})

\* add_subs() when the vector grows.
AddSubsAndGrow(p) ==
    /\ obj[p].subs # <<>>
    /\ Called("add_subs", p, NoValue)
    /\ LET S == InSubs(p)
           added == Len(obj) + Cardinality(S) + 1
       IN  Update(p, [obj[p] EXCEPT !.subs = Append(CopiesOf(@, S), added)],
                  Append(Copies(S), New), S)

ClearSubs(p) ==
    /\ Called("clear_subs", p, NoValue)
    /\ Update(p, [obj[p] EXCEPT !.subs = <<>>], <<>>, InSubs(p))

-----------------------------------------------------------------------------
(* The implicit operator= of the class, member by member. *)

Frame(p, q) == [dst |-> p, src |-> q, at |-> "num"]
Top == frames[Len(frames)]
Pop == SubSeq(frames, 1, Len(frames) - 1)
Goto(at) == [frames EXCEPT ![Len(frames)].at = at]

Dst == obj[Top.dst]
Src == obj[Top.src]

At(label) == frames # <<>> /\ Top.at = label /\ Top.src \in live

\* The value of each message.
Value ==
    LET value[a \in DOMAIN obj] ==
            [num |-> obj[a].num,
             sub |-> IF ~ obj[a].has THEN <<>>
                     ELSE <<value[obj[a].sub]>>,
             subs |-> [i \in DOMAIN obj[a].subs |-> value[obj[a].subs[i]]]]
    IN  value

Values == [r \in Roots |-> Value[r]]

\* `*p = *q;`, also as set_subs(i, *q) where p is the element.
Assign(p, q) ==
    /\ Callable
    /\ Nested \/ p = q \/ (q \notin Tree[p] /\ p \notin Tree[q])
    /\ frames' = <<Frame(p, q)>>
    /\ kept' = [values |-> Values, arg |-> Value[q]]
    /\ UNCHANGED <<obj, live, last>>

AssignNum ==
    /\ At("num")
    /\ Update(Top.dst, [Dst EXCEPT !.num = Src.num], <<>>, {})
    /\ frames' = Goto("sub")
    /\ UNCHANGED <<last, kept>>

\* Mutant: the pointer is copied, and not the object.
AssignSubShared ==
    /\ At("sub")
    /\ Update(Top.dst, [Dst EXCEPT !.sub = Src.sub], <<>>,
              IF Src.sub = Dst.sub THEN {} ELSE InSub(Top.dst))
    /\ frames' = Goto("has")
    /\ UNCHANGED <<last, kept>>

\* Mutant: operator= leaves an object that it finds as it is.
AssignSubOnce ==
    LET S == IF Dst.sub = 0 THEN InSub(Top.src) ELSE {}
    IN  /\ At("sub")
        /\ Update(Top.dst,
                  [Dst EXCEPT !.sub =
                      IF S = {} THEN @ ELSE CopyOf(Src.sub, S)],
                  Copies(S), {})
        /\ frames' = Goto("has")
        /\ UNCHANGED <<last, kept>>

\* `ptr_.reset(new T(*other.ptr_));`: copies, then destroys the old one.
AssignSub ==
    LET S == InSub(Top.src)
    IN  /\ At("sub")
        /\ Update(Top.dst,
                  [Dst EXCEPT !.sub =
                      IF Src.sub = 0 THEN 0 ELSE CopyOf(Src.sub, S)],
                  Copies(S), InSub(Top.dst))
        /\ frames' = Goto("has")
        /\ UNCHANGED <<last, kept>>

AssignHas ==
    /\ At("has")
    /\ Update(Top.dst, [Dst EXCEPT !.has = Src.has], <<>>, {})
    /\ frames' = Goto("subs")
    /\ UNCHANGED <<last, kept>>

\* An activation returns; with the outermost one, the call does.
ReturnFromAssign ==
    /\ frames' = Pop
    /\ IF Len(frames) = 1
       THEN Returned("assign", Top.dst, kept.arg) /\ kept' = <<>>
       ELSE UNCHANGED <<last, kept>>

AssignSubsToItself ==
    /\ At("subs") /\ Top.src = Top.dst
    /\ ReturnFromAssign
    /\ UNCHANGED <<obj, live>>

\* The vector grows: it is replaced by a copy of the other.
AssignSubsAndGrow ==
    LET S == InSubs(Top.src)
    IN  /\ At("subs") /\ Top.src # Top.dst
        /\ Len(Src.subs) > Len(Dst.subs)
        /\ Update(Top.dst, [Dst EXCEPT !.subs = CopiesOf(Src.subs, S)],
                  Copies(S), InSubs(Top.dst))
        /\ ReturnFromAssign

\* The vector has room: its elements are assigned, the first one first.
AssignSubsInPlace ==
    LET k == Min({Len(Src.subs), Len(Dst.subs)})
    IN  /\ At("subs") /\ Top.src # Top.dst
        /\ frames' = Goto("rest")
                     \o [i \in 1 .. k |-> Frame(Dst.subs[k + 1 - i],
                                                Src.subs[k + 1 - i])]
        /\ UNCHANGED <<obj, live, last, kept>>

\* Then elements are copied to its end, or destroyed.
AssignRest ==
    LET Rest(m) == SubSeq(m.subs, Min({Len(Src.subs), Len(Dst.subs)}) + 1,
                          Len(m.subs))
        S == UNION {Tree[e] : e \in Range(Rest(Src))}
        gone == UNION {Tree[e] : e \in Range(Rest(Dst))}
    IN  /\ At("rest")
        /\ Update(Top.dst,
                  [Dst EXCEPT !.subs = SubSeq(@, 1, Len(@) - Len(Rest(Dst)))
                                       \o CopiesOf(Rest(Src), S)],
                  Copies(S), gone)
        /\ ReturnFromAssign

Next ==
    \/ \E p \in live : Sub(p)
    \/ \E p \in live \ Constant :
        \/ SetNum(p) \/ MutableSub(p) \/ ClearSub(p)
        \/ AddSubs(p) \/ AddSubsAndGrow(p) \/ ClearSubs(p)
        \/ \E q \in live : Assign(p, q)
    \/ AssignNum \/ AssignSub \/ AssignHas
    \/ AssignSubsToItself \/ AssignSubsAndGrow \/ AssignSubsInPlace \/ AssignRest

Spec == Init /\ [][Next]_vars

-----------------------------------------------------------------------------
(* Properties. *)

\* No object has two owners, which would destroy it twice or let a change show
\* in two messages, and none is lost: between calls, the live objects but the
\* declared ones are each held by one live object, in one place.
OwnedOnce ==
    frames = <<>> => \A a \in live :
        /\ Children(a) \subseteq live \ Roots
        /\ a \in Roots \/ \E p \in live :
            /\ {q \in live : a \in Children(q)} = {p}
            /\ Cardinality({i \in DOMAIN obj[p].subs : obj[p].subs[i] = a})
               + (IF obj[p].sub = a THEN 1 ELSE 0) = 1

\* What a call on a message may destroy.
Endangered ==
    LET p == last'.on
    IN  CASE frames # <<>> -> Tree[frames[1].dst] \ {frames[1].dst}
          [] frames = <<>> /\ last'.op = "clear_sub" -> InSub(p)
          [] frames = <<>> /\ last'.op \in {"add_subs", "clear_subs"} -> InSubs(p)
          [] OTHER -> {}

\* A pointer that add_subs() or mutable_sub() returned stays valid until the
\* application clears it, adds to the vector it points into, or assigns to a
\* message around it: the getters, mutable_sub() and calls on any other message
\* destroy nothing.
PointersSurvive == [][live \ live' \subseteq Endangered]_vars

\* "So that we can copy Message instance easily" (field.h:10): an assignment
\* never reads an object that was destroyed, by itself or by what preceded it.
NeverReadsDestroyed == frames # <<>> => Tree[Top.src] \subseteq live

=============================================================================
