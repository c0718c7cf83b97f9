------------------------------- MODULE Relay -------------------------------
(***************************************************************************)
(* What a relay of the tunnel promises: messages come out in the order     *)
(* they went in, each at most once and none skipped.  A relay may stop;    *)
(* what came out is then a prefix of what went in.                         *)
(***************************************************************************)
EXTENDS Naturals, Sequences

CONSTANT Messages

VARIABLES sent, received

Init == sent = <<>> /\ received = <<>>

Send ==
    /\ \E m \in Messages : sent' = Append(sent, m)
    /\ UNCHANGED received

Deliver ==
    /\ Len(received) < Len(sent)
    /\ received' = Append(received, sent[Len(received) + 1])
    /\ UNCHANGED sent

Next == Send \/ Deliver

Spec == Init /\ [][Next]_<<sent, received>>
=============================================================================
