----------------------------- MODULE AccountRow -----------------------------
(***************************************************************************)
(* The durable lifecycle row of one account and the rules a transition of  *)
(* it obeys: the data model and the pure half of the store of the crate    *)
(* account-runtime.  AccountStore runs these rules against SQLite,         *)
(* AccountDaemon runs the accounts of an installation over them.           *)
(***************************************************************************)
EXTENDS Naturals

CONSTANT
  \* The largest integer a column can hold (i64::MAX in the code, where a
  \* generation or a time above it fails the conversion `to_i64`).
  MaxStored

ASSUME MaxStoredAssumption == MaxStored \in Nat

Phase == {"Stopped", "Starting", "Active", "ProtectiveOffline"}

ProtectiveReason ==
  {"ProcessRestart", "CeylithContinuity", "GrantUnavailable",
   "ProfileUnavailable", "RemoteSessionEnded", "WorkerFailure"}

\* The absent protective reason (None).
NoReason == "NoReason"

Row == [phase      : Phase,
        generation : 0 .. MaxStored,
        reason     : ProtectiveReason \union {NoReason},
        updatedAt  : 0 .. MaxStored]

Transition == [next       : Phase,
               reason     : ProtectiveReason \union {NoReason},
               occurredAt : Nat]

\* The row that create_schema inserts.
CreatedRow(createdAt) ==
  [phase |-> "Stopped", generation |-> 0, reason |-> NoReason,
   updatedAt |-> createdAt]

Interrupted(row) == row.phase \in {"Starting", "Active"}

ReasonMatches(phase, reason) ==
  (phase = "ProtectiveOffline") <=> (reason # NoReason)

AllowedMove ==
  ({"Stopped", "ProtectiveOffline"} \X {"Starting"})
    \union ({"Starting"} \X {"Active", "Stopped", "ProtectiveOffline"})
    \union ({"Active"} \X {"Stopped", "ProtectiveOffline"})

ValidTransition(previous, requested) ==
  /\ ReasonMatches(requested.next, requested.reason)
  /\ requested.occurredAt >= previous.updatedAt
  /\ <<previous.phase, requested.next>> \in AllowedMove

NextGeneration(previous, requested) ==
  IF requested.next = "Starting"
    THEN previous.generation + 1
    ELSE previous.generation

\* The row a transition writes; it may not fit the columns.
Successor(previous, requested) ==
  [phase      |-> requested.next,
   generation |-> NextGeneration(previous, requested),
   reason     |-> requested.reason,
   updatedAt  |-> requested.occurredAt]

Storable(row) ==
  /\ row.generation <= MaxStored
  /\ row.updatedAt <= MaxStored

\* The transition that crash recovery asks for.
RecoveryTransition(row, recoveryAt) ==
  [next       |-> "ProtectiveOffline",
   reason     |-> "ProcessRestart",
   occurredAt |-> IF recoveryAt >= row.updatedAt THEN recoveryAt
                                                 ELSE row.updatedAt]

(***************************************************************************)
(* How far an account has come: every allowed move of the table strictly   *)
(* increases it, which is what makes (phase, generation) a version number. *)
(***************************************************************************)
PhaseRank(phase) ==
  IF phase = "Starting" THEN 0 ELSE IF phase = "Active" THEN 1 ELSE 2

Progress(row) == 3 * row.generation + PhaseRank(row.phase)
=============================================================================
