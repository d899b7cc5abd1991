--------------------------- MODULE MCAccountStore ---------------------------
(***************************************************************************)
(* AccountStore in two parts, which the first state chooses:               *)
(*   race    two processes share the database, and no time passes;         *)
(*   clock   one of them only, with every time a caller may report, one    *)
(*           that does not fit its column included.                        *)
(***************************************************************************)
EXTENDS AccountStore, TLC

VARIABLE part

Untimed ==
  \A w \in Writer : \A i \in DOMAIN queue[w] :
    queue[w][i] = Shutdown \/ queue[w][i].occurredAt = 0

\* One process has the database open, and has written what was written.
OneProcess ==
  \E w \in Writer :
    /\ \A v \in Writer \ {w} : pc[v] = "Closed"
    /\ \A r \in receipts : r.by = w

StoreInit ==
  /\ part \in {"race", "clock"}
  /\ Init
  /\ part = "race" => row.updatedAt = 0

StoreNext ==
  /\ Next
  /\ part = "race" => Untimed'
  /\ part = "clock" => OneProcess'
  /\ UNCHANGED part

StoreSpec == StoreInit /\ [][StoreNext]_<<part, vars>>

Symmetry == Permutations(Writer)
=============================================================================
