-------------------------- MODULE MCMessageObject --------------------------
(***************************************************************************)
(* The message objects, and the values they stand for.  Record has        *)
(* recursive operators, which the proofs about MessageObject cannot reach. *)
(***************************************************************************)
EXTENDS MessageObject

\* The messages are values: what a call does to the message it is on is what
\* Record says, an assigned message is equal to what it was assigned, no other
\* one changes, and nothing of what a message held before it was cleared or
\* assigned comes back.
Values0 == IF frames = <<>> THEN Values ELSE kept.values
Last0 == [op |-> last.op, at |-> IF last.op = "sub" THEN <<>> ELSE last.at,
          arg |-> last.arg, n |-> last.n]
Rec == INSTANCE Record WITH val <- Values0, last <- Last0
ImplementsRecord == Rec!Spec

=============================================================================
