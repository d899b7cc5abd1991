----------------------- MODULE MCNotificationOutbox -----------------------
(***************************************************************************)
(* NotificationOutbox with one destination, two events of the daemon with  *)
(* one key, of which one is a recovery, and one run of `notify test`.  A   *)
(* warning is tried at once and again before it is abandoned, an           *)
(* informational event is tried once.                                      *)
(***************************************************************************)
EXTENDS NotificationOutbox

OneAdapter == [w \in Worker |-> <<"hook">>]

Lost == [key |-> "lost", recovery |-> FALSE, severity |-> "Warning"]
Restored == [key |-> "lost", recovery |-> TRUE, severity |-> "Info"]
Probe == [key |-> "test", recovery |-> FALSE, severity |-> "Info"]

LostAndRestored == {Lost, Restored}
TwoDelays == <<1, 2>>
Lifetimes == [Info |-> 0, Warning |-> 1, Critical |-> 5]
Once == [w \in Worker |-> 1]
===========================================================================
