---------------------------- MODULE OrderedChannel ----------------------------
(***************************************************************************)
(* What a secured Ceylith connection promises in each direction: everything *)
(* that is received was sent, once, in the order it was sent.  The channel  *)
(* may stop at any point; it may not skip, repeat, swap or change an item.  *)
(***************************************************************************)
EXTENDS Naturals, Sequences

CONSTANT Item
VARIABLES sent, received

vars == <<sent, received>>

Init == sent = <<>> /\ received = <<>>

Send ==
    /\ \E item \in Item : sent' = Append(sent, item)
    /\ UNCHANGED received

Receive ==
    /\ Len(received) < Len(sent)
    /\ received' = Append(received, sent[Len(received) + 1])
    /\ UNCHANGED sent

Next == Send \/ Receive

Spec == Init /\ [][Next]_vars
=============================================================================
