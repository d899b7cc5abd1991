-------------------------- MODULE AccountLifecycle --------------------------
(***************************************************************************)
(* What the store of one account promises: a row that starts Stopped in    *)
(* generation 0 and changes only by legal transitions, one at a time.      *)
(***************************************************************************)
EXTENDS AccountRow

VARIABLE row

Init == \E createdAt \in 0 .. MaxStored : row = CreatedRow(createdAt)

Move(requested) ==
  /\ ValidTransition(row, requested)
  /\ Storable(Successor(row, requested))
  /\ row' = Successor(row, requested)

Next ==
  \E requested \in
       [next : Phase, reason : ProtectiveReason \union {NoReason},
        occurredAt : 0 .. MaxStored] :
    Move(requested)

Spec == Init /\ [][Next]_row
=============================================================================
