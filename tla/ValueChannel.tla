---------------------------- MODULE ValueChannel ----------------------------
(***************************************************************************)
(* What CodedOutputStream and CodedInputStream promise to their callers    *)
(* when both sides make the same calls in the same order: a channel of     *)
(* values.  Every value whose Write call returned true arrives unchanged,  *)
(* in order, once, and none arrives that was not written.                  *)
(***************************************************************************)
EXTENDS Naturals, Sequences

CONSTANT Value

VARIABLES
    sent,       \* the values written, in order
    received    \* the values read, in order

Init ==
    /\ sent = <<>>
    /\ received = <<>>

Send(v) ==
    /\ sent' = Append(sent, v)
    /\ UNCHANGED received

Receive ==
    /\ Len(received) < Len(sent)
    /\ received' = Append(received, sent[Len(received) + 1])
    /\ UNCHANGED sent

Next == Receive \/ \E v \in Value : Send(v)

Spec == Init /\ [][Next]_<<sent, received>>

=============================================================================
