---------------------------- MODULE LazyObjects ----------------------------
(***************************************************************************)
(* What the generated code creates when it is first asked for: the         *)
(* Descriptor and the Reflection of a message type (codegen/descriptor.go, *)
(* codegen/reflection.go), and the default sub-message that the const      *)
(* getter of an absent one returns (codegen/field.go).  Each is a pointer  *)
(* that is tested, set and filled without a lock, by the threads of the    *)
(* program.                                                                *)
(*                                                                         *)
(* Once two threads are in the code that creates an object, they race for  *)
(* the pointer and the tables, which is undefined behaviour: the steps     *)
(* here are some of its outcomes, and `raced` says that it happened.       *)
(***************************************************************************)
EXTENDS Naturals, Sequences

CONSTANTS
    Threads,
    Slots,              \* the pointers: <<class, what it points to>>
    Registrations,      \* what may be registered with an object for a field
    MaxCalls            \* bound: how many calls are made at most

VARIABLES
    code,       \* slot -> the registrations that fill its object, field by
                \* field; <<>> before the program is linked
    ptr,        \* slot -> its object, 0 if nullptr
    objs,       \* the objects created, each with its slot, whether it is
                \* live, and what was registered with it
    thread,     \* what each thread does: the slot and the step it is at
    calls,      \* how many calls were made
    returned,   \* history: the objects each slot's calls have returned
    raced       \* history: the slots of which calls overlapped while one of
                \* them was creating the object

lazyVars == <<code, ptr, objs, thread, calls, returned, raced>>

Idle == [at |-> "idle", slot |-> <<>>, next |-> 0]

LazyInit ==
    /\ ptr = [s \in Slots |-> 0]
    /\ objs = <<>>
    /\ thread = [t \in Threads |-> Idle]
    /\ calls = 0
    /\ returned = [s \in Slots |-> {}]
    /\ raced = {}

At(t, label) == thread[t].at = label
Goto(t, label) == thread' = [thread EXCEPT ![t].at = label]

Inside(t, s) == thread[t].at # "idle" /\ thread[t].slot = s

\* A call of s that has begun will create the object, or is creating it.
Creating(s) ==
    \E t \in Threads : Inside(t, s) /\ (ptr[s] = 0 \/ At(t, "fill"))

\* A thread calls GetDescriptor(), GetReflection() or the const getter.
Call(t, s) ==
    /\ At(t, "idle") /\ calls < MaxCalls /\ s \in DOMAIN code
    /\ thread' = [thread EXCEPT ![t] = [at |-> "test", slot |-> s, next |-> 1]]
    /\ calls' = calls + 1
    /\ raced' = IF Creating(s) THEN raced \cup {s} ELSE raced
    /\ UNCHANGED <<code, ptr, objs, returned>>

\* Mutant: the object is created by every call.
TestNothing(t) ==
    /\ At(t, "test")
    /\ Goto(t, "create")
    /\ UNCHANGED <<code, ptr, objs, calls, returned, raced>>

\* `if (kM__Descriptor != nullptr)`
Test(t) ==
    /\ At(t, "test")
    /\ Goto(t, IF ptr[thread[t].slot] = 0 THEN "create" ELSE "return")
    /\ UNCHANGED <<code, ptr, objs, calls, returned, raced>>

\* What a pointer that is set does to the object it pointed to: that of a
\* sub-message is a shared_ptr.
Released(s) ==
    [a \in DOMAIN objs |->
        IF a = ptr[s] /\ s[2] = "SubMessage"
        THEN [objs[a] EXCEPT !.live = FALSE] ELSE objs[a]]

\* `kM__Descriptor = new decaproto::Descriptor();`: published when empty.
Create(t) ==
    /\ At(t, "create")
    /\ LET s == thread[t].slot
       IN  /\ objs' = Append(Released(s),
                             [slot |-> s, live |-> TRUE, table |-> <<>>])
           /\ ptr' = [ptr EXCEPT ![s] = Len(objs) + 1]
    /\ Goto(t, "fill")
    /\ UNCHANGED <<code, calls, returned, raced>>

\* What is registered for the next field, with the object the pointer now
\* points to.
Register(t) ==
    LET s == thread[t].slot
    IN  /\ At(t, "fill") /\ thread[t].next <= Len(code[s])
        /\ objs' = [objs EXCEPT ![ptr[s]].table =
                                    Append(@, code[s][thread[t].next])]
        /\ thread' = [thread EXCEPT ![t].next = @ + 1]
        /\ UNCHANGED <<code, ptr, calls, returned, raced>>

Filled(t) ==
    /\ At(t, "fill") /\ thread[t].next > Len(code[thread[t].slot])
    /\ Goto(t, "return")
    /\ UNCHANGED <<code, ptr, objs, calls, returned, raced>>

\* `return kM__Descriptor;`
Return(t) ==
    /\ At(t, "return")
    /\ returned' = [returned EXCEPT
                       ![thread[t].slot] = @ \cup {ptr[thread[t].slot]}]
    /\ thread' = [thread EXCEPT ![t] = Idle]
    /\ UNCHANGED <<code, ptr, objs, calls, raced>>

LazyNext ==
    \E t \in Threads :
        \/ \E s \in Slots : Call(t, s)
        \/ Test(t) \/ Create(t) \/ Register(t) \/ Filled(t) \/ Return(t)

-----------------------------------------------------------------------------
(* Properties. *)

\* There is one Descriptor, Reflection or default sub-message ("There are
\* singletons for each message type", descriptor.h:80): as long as no call
\* overlaps with the one that creates it, every call returns the same object,
\* which is live and completely filled, each registration once and in order.
OneCompleteObject ==
    \A s \in Slots \ raced : \A a \in returned[s] :
        /\ a = ptr[s]
        /\ objs[a].live
        /\ objs[a].table = code[s]

=============================================================================
