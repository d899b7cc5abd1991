---------------------------- MODULE AccountStore ----------------------------
(***************************************************************************)
(* The account actor of crates/account-runtime: a bounded command queue    *)
(* drained by one writer thread over one SQLite database.  Nothing locks   *)
(* the state directory against a second process, so Writer is a set: each  *)
(* writer is one process's actor for the same account, and the only guard  *)
(* between two of them is the conditional UPDATE of commit_transition.     *)
(*                                                                         *)
(* A transition is not atomic: the writer reads a snapshot, validates the  *)
(* request against it and only then commits, in a transaction of its own.  *)
(* The commit is atomic (one SQLite transaction); a crash loses the queue  *)
(* and the half-done transition and keeps the committed rows.              *)
(***************************************************************************)
EXTENDS AccountRow, Sequences

CONSTANTS
  Writer,         \* the processes that have an actor for this account
  MaxTime,        \* bound on the wall-clock times callers report
  QueueCapacity   \* capacity of the actor's command queue

ASSUME QueueCapacityAssumption == QueueCapacity \in Nat \ {0}
ASSUME MaxTimeAssumption == MaxTime \in Nat

VARIABLES
  row,       \* the singleton row of the table account_state
  journal,   \* the table account_transitions
  pc,        \* what each writer is doing
  queue,     \* each writer's command queue
  held,      \* the transition a writer validated and has not yet committed
  receipts   \* the receipts callers hold (history)

vars == <<row, journal, pc, queue, held, receipts>>

NoHeld == [from |-> "none"]
Shutdown == [next |-> "shutdown"]

RequestTime == 0 .. MaxTime

\* What callers ask for: the reason is free, so that the reason check is too.
Requests ==
  [next : {"Starting", "Active", "Stopped"}, reason : {NoReason},
   occurredAt : RequestTime]
    \union
  [next : {"ProtectiveOffline"}, reason : {NoReason, "GrantUnavailable"},
   occurredAt : RequestTime]

-----------------------------------------------------------------------------
Init ==
  /\ \E createdAt \in RequestTime :
       /\ createdAt <= MaxStored
       /\ row = CreatedRow(createdAt)
  /\ journal = <<>>
  /\ pc = [w \in Writer |-> "Closed"]
  /\ queue = [w \in Writer |-> <<>>]
  /\ held = [w \in Writer |-> NoHeld]
  /\ receipts = {}

(***************************************************************************)
(* Opening the store: recovery reads a snapshot and, when that shows an    *)
(* interrupted generation, asks for the protective transition through the  *)
(* same path as any other transition (which reads a snapshot of its own).  *)
(***************************************************************************)
Open(w, recoveryAt) ==
  /\ pc[w] = "Closed"
  /\ IF Interrupted(row)
       THEN /\ pc' = [pc EXCEPT ![w] = "Recovering"]
            /\ queue' = [queue EXCEPT
                           ![w] = <<RecoveryTransition(row, recoveryAt)>>]
       ELSE /\ pc' = [pc EXCEPT ![w] = "Serving"]
            /\ queue' = [queue EXCEPT ![w] = <<>>]
  /\ UNCHANGED <<row, journal, held, receipts>>

Submit(w, command) ==
  /\ pc[w] = "Serving"
  /\ Len(queue[w]) < QueueCapacity
  /\ queue' = [queue EXCEPT ![w] = Append(@, command)]
  /\ UNCHANGED <<row, journal, pc, held, receipts>>

\* What a failed transition does to the writer: while serving it answers the
\* caller with the error, while opening it makes `open` fail.
Refuse(w) ==
  pc' = [pc EXCEPT ![w] = IF @ = "Recovering" THEN "Closed" ELSE @]

\* Broken variant: the request is not checked against the row.
BeginUnchecked(w) ==
  /\ pc[w] \in {"Recovering", "Serving"}
  /\ held[w] = NoHeld
  /\ queue[w] # <<>>
  /\ Head(queue[w]) # Shutdown
  /\ queue' = [queue EXCEPT ![w] = Tail(@)]
  /\ held' = [held EXCEPT
                ![w] = [from |-> row, to |-> Successor(row, Head(queue[w]))]]
  /\ UNCHANGED <<row, journal, pc, receipts>>

\* snapshot() and validate_transition() of one queued command.
Begin(w) ==
  /\ pc[w] \in {"Recovering", "Serving"}
  /\ held[w] = NoHeld
  /\ queue[w] # <<>>
  /\ Head(queue[w]) # Shutdown
  /\ queue' = [queue EXCEPT ![w] = Tail(@)]
  /\ IF ValidTransition(row, Head(queue[w]))
       THEN /\ held' = [held EXCEPT
                          ![w] = [from |-> row,
                                  to |-> Successor(row, Head(queue[w]))]]
            /\ UNCHANGED pc
       ELSE /\ Refuse(w)
            /\ UNCHANGED held
  /\ UNCHANGED <<row, journal, receipts>>

SameVersion(current, previous) ==
  /\ current.phase = previous.phase
  /\ current.generation = previous.generation

\* Broken variant: the UPDATE compares the phase and forgets the generation.
RowMatchesByPhase(w) == row.phase = held[w].from.phase

\* The WHERE clause of the UPDATE: the row is still the version that was read.
RowMatches(w) == SameVersion(row, held[w].from)

\* commit_transition: the conditional UPDATE and the journal INSERT in one
\* transaction, answered with a receipt or with an error.
Commit(w) ==
  /\ held[w] # NoHeld
  /\ held' = [held EXCEPT ![w] = NoHeld]
  /\ IF RowMatches(w) /\ Storable(held[w].to)
       THEN /\ row' = held[w].to
            /\ journal' = Append(journal, held[w])
            /\ receipts' = receipts \union {[by |-> w, of |-> held[w]]}
            /\ pc' = [pc EXCEPT ![w] = "Serving"]
       ELSE /\ Refuse(w)
            /\ UNCHANGED <<row, journal, receipts>>
  /\ UNCHANGED queue

\* SQLite reports a busy database or an I/O error: the transaction is rolled
\* back and the caller gets Persistence.
CommitFails(w) ==
  /\ held[w] # NoHeld
  /\ held' = [held EXCEPT ![w] = NoHeld]
  /\ Refuse(w)
  /\ UNCHANGED <<row, journal, queue, receipts>>

\* The Shutdown command, behind every command queued before it.
Close(w) ==
  /\ pc[w] = "Serving"
  /\ held[w] = NoHeld
  /\ queue[w] # <<>>
  /\ Head(queue[w]) = Shutdown
  /\ pc' = [pc EXCEPT ![w] = "Closed"]
  /\ queue' = [queue EXCEPT ![w] = <<>>]
  /\ UNCHANGED <<row, journal, held, receipts>>

\* The process ends: everything but the database is gone.
Crash(w) ==
  /\ pc[w] # "Closed"
  /\ pc' = [pc EXCEPT ![w] = "Closed"]
  /\ queue' = [queue EXCEPT ![w] = <<>>]
  /\ held' = [held EXCEPT ![w] = NoHeld]
  /\ UNCHANGED <<row, journal, receipts>>

Next ==
  \E w \in Writer :
    \/ \E recoveryAt \in RequestTime : Open(w, recoveryAt)
    \/ \E request \in Requests : Submit(w, request)
    \/ Submit(w, Shutdown)
    \/ Begin(w)
    \/ Commit(w)
    \/ CommitFails(w)
    \/ Close(w)
    \/ Crash(w)

Spec == Init /\ [][Next]_vars

-----------------------------------------------------------------------------
(* Properties                                                              *)

\* A transition as the writer computed it; it may not fit the columns.
Candidate ==
  [from : Row,
   to   : [phase      : Phase,
           generation : Nat,
           reason     : ProtectiveReason \union {NoReason},
           updatedAt  : Nat]]

Committed == [from : Row, to : Row]

(***************************************************************************)
(* The types of the tables, of the actor's state and of the receipts.      *)
(***************************************************************************)
TypeOK ==
  /\ row \in Row
  /\ journal \in Seq(Committed)
  /\ pc \in [Writer -> {"Closed", "Recovering", "Serving"}]
  /\ queue \in [Writer -> Seq(Transition \union {Shutdown})]
  /\ held \in [Writer -> Candidate \union {NoHeld}]
  /\ receipts \subseteq [by : Writer, of : Committed]

(***************************************************************************)
(* account_transitions is the exact history of account_state, although the *)
(* snapshot a journal line was computed from was read in an earlier        *)
(* statement and another process may have committed in between: each line  *)
(* starts from the row the line before it wrote, and the last line is the  *)
(* row (commit_transition).                                                *)
(***************************************************************************)
JournalIsHistory ==
  /\ \A i \in 1 .. Len(journal) - 1 : journal[i + 1].from = journal[i].to
  /\ Len(journal) > 0 => journal[Len(journal)].to = row

(***************************************************************************)
(* A caller that holds a receipt moved the account: no two receipts, of    *)
(* one or of two processes, are for the same version of the row            *)
(* (commit_transition's row count, TransitionReceipt).                     *)
(***************************************************************************)
OneWinner ==
  \A r, s \in receipts : SameVersion(r.of.from, s.of.from) => r = s

(***************************************************************************)
(* (phase, generation) never comes back, so comparing the two in the WHERE *)
(* clause is enough: a writer whose version still matches has read the     *)
(* very row it replaces, reason and time included (no ABA).                *)
(***************************************************************************)
VersionIdentifiesRow ==
  \A w \in Writer :
    held[w] # NoHeld /\ SameVersion(row, held[w].from) => held[w].from = row

(***************************************************************************)
(* A generation ends before the next one starts: for every generation      *)
(* before the current one the journal holds the line that ended it, with   *)
(* the process that ran it alive or crashed (recover_interrupted).         *)
(***************************************************************************)
GenerationsEnd ==
  \A g \in 1 .. row.generation - 1 :
    \E i \in 1 .. Len(journal) :
      /\ journal[i].to.generation = g
      /\ journal[i].to.phase \in {"Stopped", "ProtectiveOffline"}

(***************************************************************************)
(* What a reader of the database and a caller with a receipt rely on,      *)
(* whatever other processes use the same file.                             *)
(***************************************************************************)
StoreIsSound ==
  /\ TypeOK
  /\ JournalIsHistory /\ OneWinner /\ VersionIdentifiesRow /\ GenerationsEnd

(***************************************************************************)
(* The durable row only moves forward: a step that changes it advances the *)
(* lifecycle and never turns its clock back (validate_transition).         *)
(***************************************************************************)
OnlyForward ==
  [][/\ Progress(row') > Progress(row)
     /\ row'.updatedAt >= row.updatedAt]_row

\* What the store promises whoever reads the database.
Lifecycle == INSTANCE AccountLifecycle

(***************************************************************************)
(* The actor, with its queue, its two-statement transition, a second       *)
(* process and crashes, implements the lifecycle in which a transition is  *)
(* one atomic legal move of the row.                                       *)
(***************************************************************************)
ImplementsLifecycle == Lifecycle!Spec
=============================================================================
