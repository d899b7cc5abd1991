------------------------- MODULE AccountStoreProofs -------------------------
(***************************************************************************)
(* Proofs about AccountStore, for every set of processes, every queue      *)
(* capacity and every column width.                                        *)
(*                                                                         *)
(* The properties are not inductive by themselves: that the row a writer   *)
(* read is still the row when its version matches holds because the        *)
(* progress of the row strictly increases, so a snapshot either is the row *)
(* or is behind it.  Inv records that for every snapshot in flight and for *)
(* every receipt handed out.                                               *)
(***************************************************************************)
EXTENDS AccountStore, TLAPS

\* A legal move, as validate_transition and AccountStore::transition make it.
LegalMove(from, to) ==
  \E requested \in Transition :
    /\ ValidTransition(from, requested)
    /\ to = Successor(from, requested)

HeldIsRowOrBehind ==
  \A w \in Writer : held[w] # NoHeld =>
    /\ LegalMove(held[w].from, held[w].to)
    /\ Progress(held[w].from) <= Progress(row)
    /\ Progress(held[w].from) = Progress(row) => held[w].from = row

ReceiptsAreBehind ==
  \A r \in receipts : Progress(r.of.from) < Progress(row)

Inv ==
  /\ TypeOK
  /\ HeldIsRowOrBehind
  /\ ReceiptsAreBehind
  /\ JournalIsHistory
  /\ OneWinner

-----------------------------------------------------------------------------
(* Facts about the rules of AccountRow.                                    *)

LEMMA ProgressType == \A r \in Candidate : Progress(r.from) \in Nat /\ Progress(r.to) \in Nat
  BY MaxStoredAssumption DEF Candidate, Row, Phase, Progress, PhaseRank

LEMMA RowProgress == \A r \in Row : Progress(r) \in Nat
  BY MaxStoredAssumption DEF Row, Phase, Progress, PhaseRank

\* A version determines the progress.
LEMMA SameVersionProgress ==
  ASSUME NEW r \in Row, NEW s \in Row, SameVersion(r, s)
  PROVE  Progress(r) = Progress(s)
  BY DEF SameVersion, Progress

\* Every legal move advances the progress and keeps the time monotone.
LEMMA LegalMoveAdvances ==
  ASSUME NEW r \in Row, NEW s, LegalMove(r, s)
  PROVE  /\ Progress(s) > Progress(r)
         /\ s.updatedAt >= r.updatedAt
<1>1. PICK requested \in Transition :
        /\ ValidTransition(r, requested)
        /\ s = Successor(r, requested)
  BY DEF LegalMove
<1>2. s.updatedAt >= r.updatedAt
  BY <1>1 DEF ValidTransition, Successor
<1>3. /\ r.generation \in Nat
      /\ <<r.phase, requested.next>> \in AllowedMove
  BY <1>1, MaxStoredAssumption DEF ValidTransition, Row
<1>4. CASE requested.next = "Starting"
  <2>1. r.phase \in {"Stopped", "ProtectiveOffline"}
    BY <1>3, <1>4 DEF AllowedMove
  <2>2. s.generation = r.generation + 1 /\ s.phase = "Starting"
    BY <1>1, <1>4 DEF Successor, NextGeneration
  <2>3. QED
    BY <1>2, <1>3, <2>1, <2>2 DEF Progress, PhaseRank
<1>5. CASE requested.next # "Starting"
  <2>1. s.generation = r.generation /\ s.phase = requested.next
    BY <1>1, <1>5 DEF Successor, NextGeneration
  <2>2. \/ r.phase = "Starting" /\ requested.next \in {"Active", "Stopped", "ProtectiveOffline"}
        \/ r.phase = "Active" /\ requested.next \in {"Stopped", "ProtectiveOffline"}
    BY <1>3, <1>5 DEF AllowedMove
  <2>3. QED
    BY <1>2, <1>3, <2>1, <2>2 DEF Progress, PhaseRank
<1>6. QED
  BY <1>4, <1>5

\* What a valid request computes, whether or not it fits the columns.
LEMMA SuccessorType ==
  ASSUME NEW r \in Row, NEW requested \in Transition
  PROVE  [from |-> r, to |-> Successor(r, requested)] \in Candidate
  BY MaxStoredAssumption
     DEF Candidate, Row, Transition, Successor, NextGeneration, Phase

\* What fits the columns is a row.
LEMMA StorableCandidate ==
  ASSUME NEW c \in Candidate, Storable(c.to)
  PROVE  c \in Committed /\ c.to \in Row
  BY MaxStoredAssumption DEF Candidate, Committed, Row, Storable

-----------------------------------------------------------------------------
(* Inv is inductive.                                                       *)

\* A transition the actor takes from its queue is well typed.
LEMMA RecoveryIsTransition ==
  ASSUME NEW r \in Row, NEW t \in RequestTime
  PROVE  RecoveryTransition(r, t) \in Transition
  BY MaxStoredAssumption, MaxTimeAssumption
     DEF Row, RequestTime, RecoveryTransition, Transition, Phase, ProtectiveReason

LEMMA RequestIsTransition == Requests \subseteq Transition
  BY MaxTimeAssumption
     DEF Requests, RequestTime, Transition, Phase, ProtectiveReason

LEMMA InitInv == Init => Inv
<1> SUFFICES ASSUME Init PROVE Inv
  OBVIOUS
<1> USE DEF Init
<1>1. row \in Row
  BY MaxStoredAssumption, MaxTimeAssumption
     DEF Row, CreatedRow, RequestTime, Phase
<1>2. TypeOK
  BY <1>1 DEF TypeOK
<1>3. HeldIsRowOrBehind /\ ReceiptsAreBehind /\ JournalIsHistory /\ OneWinner
  BY DEF HeldIsRowOrBehind, ReceiptsAreBehind, JournalIsHistory, OneWinner
<1> QED
  BY <1>2, <1>3 DEF Inv

\* A step that leaves the tables and the receipts alone and validates nothing.
LEMMA QuietStep ==
  ASSUME Inv, TypeOK', UNCHANGED <<row, journal, receipts>>,
         \A w \in Writer : held'[w] \in {held[w], NoHeld}
  PROVE  Inv'
<1>1. HeldIsRowOrBehind'
  BY DEF Inv, HeldIsRowOrBehind
<1>2. ReceiptsAreBehind' /\ JournalIsHistory' /\ OneWinner'
  BY DEF Inv, ReceiptsAreBehind, JournalIsHistory, OneWinner
<1> QED
  BY <1>1, <1>2 DEF Inv

LEMMA OpenInv ==
  ASSUME Inv, NEW w \in Writer, NEW t \in RequestTime, Open(w, t)
  PROVE  Inv'
<1>1. RecoveryTransition(row, t) \in Transition
  BY RecoveryIsTransition DEF Inv, TypeOK
<1>2. <<RecoveryTransition(row, t)>> \in Seq(Transition \union {Shutdown})
  BY <1>1
<1>3. <<>> \in Seq(Transition \union {Shutdown})
  OBVIOUS
<1>4. PICK q \in Seq(Transition \union {Shutdown}),
           p \in {"Recovering", "Serving"} :
        /\ queue' = [queue EXCEPT ![w] = q]
        /\ pc' = [pc EXCEPT ![w] = p]
        /\ UNCHANGED <<row, journal, held, receipts>>
  BY <1>2, <1>3 DEF Open
<1>5. TypeOK'
  BY <1>4 DEF Inv, TypeOK
<1> QED
  BY <1>4, <1>5, QuietStep

LEMMA SubmitInv ==
  ASSUME Inv, NEW w \in Writer, NEW c \in Requests \union {Shutdown}, Submit(w, c)
  PROVE  Inv'
<1>1. c \in Transition \union {Shutdown}
  BY RequestIsTransition
<1>2. TypeOK'
  BY <1>1 DEF Inv, TypeOK, Submit
<1> QED
  BY <1>2, QuietStep DEF Submit

LEMMA CommitFailsInv ==
  ASSUME Inv, NEW w \in Writer, CommitFails(w)
  PROVE  Inv'
<1>1. TypeOK'
  BY DEF Inv, TypeOK, CommitFails, Refuse
<1> QED
  BY <1>1, QuietStep DEF CommitFails, Inv, TypeOK

LEMMA CloseInv ==
  ASSUME Inv, NEW w \in Writer, Close(w)
  PROVE  Inv'
<1>1. TypeOK'
  BY DEF Inv, TypeOK, Close
<1> QED
  BY <1>1, QuietStep DEF Close

LEMMA CrashInv ==
  ASSUME Inv, NEW w \in Writer, Crash(w)
  PROVE  Inv'
<1>1. TypeOK'
  BY DEF Inv, TypeOK, Crash
<1> QED
  BY <1>1, QuietStep DEF Crash, Inv, TypeOK

\* Validating reads the row that is there, so the snapshot is not behind.
LEMMA BeginInv ==
  ASSUME Inv, NEW w \in Writer, Begin(w)
  PROVE  Inv'
<1> DEFINE request == Head(queue[w])
<1>1. /\ queue[w] \in Seq(Transition \union {Shutdown})
      /\ queue[w] # <<>>
      /\ request # Shutdown
      /\ row \in Row
  BY DEF Inv, TypeOK, Begin
<1>2. request \in Transition
  BY <1>1
<1>3. Tail(queue[w]) \in Seq(Transition \union {Shutdown})
  BY <1>1
<1>4. CASE ValidTransition(row, request)
  <2> DEFINE new == [from |-> row, to |-> Successor(row, request)]
  <2>1. new \in Candidate
    BY <1>1, <1>2, SuccessorType
  <2>2. /\ held' = [held EXCEPT ![w] = new]
        /\ UNCHANGED <<row, journal, pc, receipts>>
        /\ queue' = [queue EXCEPT ![w] = Tail(@)]
    BY <1>4 DEF Begin
  <2> HIDE DEF new
  <2>3. TypeOK'
    BY <1>3, <2>1, <2>2 DEF Inv, TypeOK
  <2>4. LegalMove(new.from, new.to) /\ new.from = row
    BY <1>2, <1>4 DEF LegalMove, new
  <2>5. Progress(row) <= Progress(row)
    BY <1>1, RowProgress
  <2>6. HeldIsRowOrBehind'
    BY <2>2, <2>4, <2>5 DEF Inv, TypeOK, HeldIsRowOrBehind
  <2>7. ReceiptsAreBehind' /\ JournalIsHistory' /\ OneWinner'
    BY <2>2 DEF Inv, ReceiptsAreBehind, JournalIsHistory, OneWinner
  <2> QED
    BY <2>3, <2>6, <2>7 DEF Inv
<1>5. CASE ~ ValidTransition(row, request)
  <2>1. /\ UNCHANGED <<row, journal, held, receipts>>
        /\ Refuse(w)
        /\ queue' = [queue EXCEPT ![w] = Tail(@)]
    BY <1>5 DEF Begin
  <2>2. TypeOK'
    BY <1>3, <2>1 DEF Inv, TypeOK, Refuse
  <2> QED
    BY <2>1, <2>2, QuietStep
<1> QED
  BY <1>4, <1>5

\* The one step that changes the tables.
LEMMA CommitInv ==
  ASSUME Inv, NEW w \in Writer, Commit(w)
  PROVE  Inv'
<1> DEFINE move == held[w]
<1>1. CASE ~ (SameVersion(row, move.from) /\ Storable(move.to))
  <2>1. /\ UNCHANGED <<row, journal, receipts, queue>>
        /\ held' = [held EXCEPT ![w] = NoHeld]
        /\ Refuse(w)
    BY <1>1 DEF Commit, RowMatches
  <2>2. TypeOK'
    BY <2>1 DEF Inv, TypeOK, Refuse
  <2> QED
    BY <2>1, <2>2, QuietStep DEF Inv, TypeOK
<1>2. CASE SameVersion(row, move.from) /\ Storable(move.to)
  <2>1. /\ move \in Candidate
        /\ LegalMove(move.from, move.to)
        /\ Progress(move.from) = Progress(row) => move.from = row
        /\ row \in Row
    BY DEF Commit, Inv, TypeOK, HeldIsRowOrBehind
  <2>2. move \in Committed /\ move.to \in Row /\ move.from \in Row
    BY <1>2, <2>1, StorableCandidate DEF Committed
  <2>3. move.from = row
    BY <1>2, <2>1, <2>2, SameVersionProgress
  <2>4. Progress(move.to) > Progress(row)
    BY <2>1, <2>2, <2>3, LegalMoveAdvances
  <2>5. Progress(row) \in Nat /\ Progress(move.to) \in Nat
    BY <2>1, <2>2, RowProgress
  <2>6. /\ row' = move.to
        /\ journal' = Append(journal, move)
        /\ receipts' = receipts \union {[by |-> w, of |-> move]}
        /\ held' = [held EXCEPT ![w] = NoHeld]
        /\ pc' = [pc EXCEPT ![w] = "Serving"]
        /\ UNCHANGED queue
    BY <1>2 DEF Commit, RowMatches
  <2> HIDE DEF move
  <2>7. TypeOK'
    <3>1. journal' \in Seq(Committed)
      BY <2>2, <2>6 DEF Inv, TypeOK
    <3>2. receipts' \subseteq [by : Writer, of : Committed]
      BY <2>2, <2>6 DEF Inv, TypeOK
    <3> QED
      BY <2>2, <2>6, <3>1, <3>2 DEF Inv, TypeOK
  <2>8. HeldIsRowOrBehind'
    <3> SUFFICES ASSUME NEW v \in Writer, held'[v] # NoHeld
                 PROVE  /\ LegalMove(held'[v].from, held'[v].to)
                        /\ Progress(held'[v].from) <= Progress(row')
                        /\ Progress(held'[v].from) # Progress(row')
      BY DEF HeldIsRowOrBehind
    <3>1. held'[v] = held[v] /\ held[v] # NoHeld
      BY <2>6 DEF Inv, TypeOK
    <3>2. /\ held[v] \in Candidate
          /\ LegalMove(held[v].from, held[v].to)
          /\ Progress(held[v].from) <= Progress(row)
      BY <3>1 DEF Inv, TypeOK, HeldIsRowOrBehind
    <3>3. Progress(held[v].from) \in Nat
      BY <3>2, ProgressType
    <3> QED
      BY <2>4, <2>5, <2>6, <3>1, <3>2, <3>3
  <2>9. ReceiptsAreBehind'
    <3> SUFFICES ASSUME NEW r \in receipts' PROVE Progress(r.of.from) < Progress(row')
      BY DEF ReceiptsAreBehind
    <3>1. CASE r \in receipts
      <4>1. r.of.from \in Row /\ Progress(r.of.from) < Progress(row)
        BY <3>1 DEF Inv, TypeOK, ReceiptsAreBehind, Committed
      <4> QED
        BY <2>4, <2>5, <2>6, <4>1, RowProgress
    <3>2. CASE r = [by |-> w, of |-> move]
      BY <2>3, <2>4, <2>6, <3>2
    <3> QED
      BY <2>6, <3>1, <3>2
  <2>10. OneWinner'
    <3>1. \A r \in receipts : ~ SameVersion(r.of.from, row) /\ ~ SameVersion(row, r.of.from)
      <4> SUFFICES ASSUME NEW r \in receipts
                   PROVE  ~ SameVersion(r.of.from, row) /\ ~ SameVersion(row, r.of.from)
        OBVIOUS
      <4>1. r.of.from \in Row /\ Progress(r.of.from) < Progress(row)
        BY DEF Inv, TypeOK, ReceiptsAreBehind, Committed
      <4>2. Progress(r.of.from) \in Nat
        BY <4>1, RowProgress
      <4> QED
        BY <2>1, <2>5, <4>1, <4>2, SameVersionProgress
    <3>2. \A r, s \in receipts : SameVersion(r.of.from, s.of.from) => r = s
      BY DEF Inv, OneWinner
    <3> QED
      BY <2>3, <2>6, <3>1, <3>2 DEF OneWinner
  <2>11. JournalIsHistory'
    <3>1. /\ journal \in Seq(Committed)
          /\ \A i \in 1 .. Len(journal) - 1 : journal[i + 1].from = journal[i].to
          /\ Len(journal) > 0 => journal[Len(journal)].to = row
      BY DEF Inv, TypeOK, JournalIsHistory
    <3>2. /\ Len(journal') = Len(journal) + 1
          /\ journal'[Len(journal) + 1] = move
          /\ \A i \in 1 .. Len(journal) : journal'[i] = journal[i]
      BY <2>2, <2>6, <3>1
    <3>3. ASSUME NEW i \in 1 .. Len(journal)
          PROVE  journal'[i + 1].from = journal'[i].to
      <4>1. CASE i = Len(journal)
        BY <2>3, <3>1, <3>2, <4>1
      <4>2. CASE i # Len(journal)
        <5>1. i \in 1 .. Len(journal) - 1 /\ i + 1 \in 1 .. Len(journal)
          BY <3>1, <4>2
        <5> QED
          BY <3>1, <3>2, <5>1
      <4> QED
        BY <4>1, <4>2
    <3> QED
      BY <2>6, <3>1, <3>2, <3>3 DEF JournalIsHistory
  <2> QED
    BY <2>7, <2>8, <2>9, <2>10, <2>11 DEF Inv
<1> QED
  BY <1>1, <1>2

LEMMA NextInv == Inv /\ [Next]_vars => Inv'
<1> SUFFICES ASSUME Inv, [Next]_vars PROVE Inv'
  OBVIOUS
<1>1. CASE Next
  BY <1>1, OpenInv, SubmitInv, BeginInv, CommitInv, CommitFailsInv, CloseInv,
     CrashInv DEF Next
<1>2. CASE UNCHANGED vars
  BY <1>2 DEF vars, Inv, TypeOK, HeldIsRowOrBehind, ReceiptsAreBehind,
              JournalIsHistory, OneWinner
<1> QED
  BY <1>1, <1>2

LEMMA InvHolds == Spec => []Inv
  BY InitInv, NextInv, PTL DEF Spec

-----------------------------------------------------------------------------
(* A committing step, seen from the row.                                   *)

LEMMA RowStep ==
  ASSUME Inv, [Next]_vars, row' # row
  PROVE  /\ row \in Row
         /\ row' \in Row
         /\ LegalMove(row, row')
         /\ journal \in Seq(Committed)
         /\ journal' = Append(journal, [from |-> row, to |-> row'])
<1>1. PICK w \in Writer : Commit(w)
  BY DEF Next, vars, Open, Submit, Begin, CommitFails, Close, Crash
<1> DEFINE move == held[w]
<1>2. /\ SameVersion(row, move.from)
      /\ Storable(move.to)
      /\ row' = move.to
      /\ journal' = Append(journal, move)
  BY <1>1 DEF Commit, RowMatches
<1>3. /\ move \in Candidate
      /\ LegalMove(move.from, move.to)
      /\ Progress(move.from) = Progress(row) => move.from = row
      /\ row \in Row
      /\ journal \in Seq(Committed)
  BY <1>1 DEF Commit, Inv, TypeOK, HeldIsRowOrBehind
<1>4. move \in Committed /\ move.to \in Row /\ move.from \in Row
  BY <1>2, <1>3, StorableCandidate DEF Committed
<1>5. move.from = row
  BY <1>2, <1>3, <1>4, SameVersionProgress
<1>6. move = [from |-> row, to |-> row']
  BY <1>2, <1>4, <1>5 DEF Committed
<1> QED
  BY <1>2, <1>3, <1>4, <1>5, <1>6

\* Without a change of the row the journal stays as it is.
LEMMA JournalStep ==
  ASSUME Inv, [Next]_vars, row' = row
  PROVE  journal' = journal
<1>1. CASE \E w \in Writer : Commit(w)
  <2>1. PICK w \in Writer : Commit(w)
    BY <1>1
  <2> DEFINE move == held[w]
  <2>2. CASE SameVersion(row, move.from) /\ Storable(move.to)
    <3>1. /\ row' = move.to
          /\ move \in Candidate
          /\ LegalMove(move.from, move.to)
          /\ Progress(move.from) = Progress(row) => move.from = row
          /\ row \in Row
      BY <2>1, <2>2 DEF Commit, RowMatches, Inv, TypeOK, HeldIsRowOrBehind
    <3>2. move.from \in Row
      BY <3>1 DEF Candidate
    <3>3. move.from = row
      BY <2>2, <3>1, <3>2, SameVersionProgress
    <3>4. Progress(move.to) > Progress(row)
      BY <3>1, <3>3, LegalMoveAdvances
    <3>5. Progress(row) \in Nat
      BY <3>1, RowProgress
    <3> QED
      BY <3>1, <3>4, <3>5
  <2> QED
    BY <2>1, <2>2 DEF Commit, RowMatches
<1>2. CASE ~ \E w \in Writer : Commit(w)
  BY <1>2 DEF Next, vars, Open, Submit, Begin, CommitFails, Close, Crash
<1> QED
  BY <1>1, <1>2

-----------------------------------------------------------------------------
(* The theorems.                                                           *)

\* Every reachable state is well typed: the tables hold rows that fit their
\* columns (to_i64) and the queue holds commands of the actor.
THEOREM TypeCorrect == Spec => []TypeOK
<1>1. Inv => TypeOK
  BY DEF Inv
<1> QED
  BY <1>1, InvHolds, PTL

\* The journal written by commit_transition is the history of the row.
THEOREM JournalCorrect == Spec => []JournalIsHistory
<1>1. Inv => JournalIsHistory
  BY DEF Inv
<1> QED
  BY <1>1, InvHolds, PTL

\* No two receipts are handed out for one version of the row.
THEOREM ReceiptsAreExclusive == Spec => []OneWinner
<1>1. Inv => OneWinner
  BY DEF Inv
<1> QED
  BY <1>1, InvHolds, PTL

\* The WHERE clause of the UPDATE has no ABA: a matching version is the row.
THEOREM VersionCorrect == Spec => []VersionIdentifiesRow
<1>1. Inv => VersionIdentifiesRow
  <2> SUFFICES ASSUME Inv, NEW w \in Writer, held[w] # NoHeld,
                      SameVersion(row, held[w].from)
               PROVE  held[w].from = row
    BY DEF VersionIdentifiesRow
  <2>1. row \in Row /\ held[w] \in Candidate
    BY DEF Inv, TypeOK
  <2>2. held[w].from \in Row
    BY <2>1 DEF Candidate
  <2>3. Progress(held[w].from) = Progress(row)
    BY <2>1, <2>2, SameVersionProgress
  <2> QED
    BY <2>3 DEF Inv, HeldIsRowOrBehind
<1> QED
  BY <1>1, InvHolds, PTL

\* The row advances with every change and its time never goes back.
THEOREM ForwardCorrect == Spec => OnlyForward
<1>1. Inv /\ [Next]_vars =>
        [/\ Progress(row') > Progress(row)
         /\ row'.updatedAt >= row.updatedAt]_row
  BY RowStep, LegalMoveAdvances
<1> QED
  BY <1>1, InvHolds, PTL DEF Spec, OnlyForward

\* The concurrent, crashing store implements the atomic lifecycle.
THEOREM StoreImplementsLifecycle == Spec => ImplementsLifecycle
<1>1. Init => Lifecycle!Init
  BY DEF Init, Lifecycle!Init, RequestTime, CreatedRow, Lifecycle!CreatedRow,
         Lifecycle!NoReason, NoReason
<1>2. Inv /\ [Next]_vars => [Lifecycle!Next]_row
  <2> SUFFICES ASSUME Inv, [Next]_vars, row' # row PROVE Lifecycle!Next
    OBVIOUS
  <2>1. row \in Row /\ row' \in Row /\ LegalMove(row, row')
    BY RowStep
  <2>2. PICK requested \in Transition :
          /\ ValidTransition(row, requested)
          /\ row' = Successor(row, requested)
    BY <2>1 DEF LegalMove
  <2>3. requested.occurredAt \in 0 .. MaxStored
    BY <2>1, <2>2, MaxStoredAssumption DEF Row, Transition, Successor
  <2>4. Storable(row')
    BY <2>1, MaxStoredAssumption DEF Row, Storable
  <2> QED
    BY <2>2, <2>3, <2>4
       DEF Lifecycle!Next, Lifecycle!Move, Transition, Storable, Successor,
           ValidTransition, Phase, ProtectiveReason, NoReason, ReasonMatches,
           AllowedMove, NextGeneration, Lifecycle!Phase,
           Lifecycle!ProtectiveReason, Lifecycle!NoReason, Lifecycle!Storable,
           Lifecycle!Successor, Lifecycle!ValidTransition,
           Lifecycle!ReasonMatches, Lifecycle!AllowedMove,
           Lifecycle!NextGeneration
<1> QED
  BY <1>1, <1>2, InvHolds, PTL DEF Spec, ImplementsLifecycle, Lifecycle!Spec

-----------------------------------------------------------------------------
(* Generations end.  The journal is not empty once a generation started,   *)
(* so its last line, which wrote the row, ended the generation that a move *)
(* to Starting leaves behind.                                              *)

JournalStarts == journal = <<>> => row.generation = 0

GenInv == JournalStarts /\ GenerationsEnd

\* A move to Starting leaves an ended generation, any other keeps it.
LEMMA MoveOfGeneration ==
  ASSUME NEW r \in Row, NEW s \in Row, LegalMove(r, s)
  PROVE  \/ /\ s.generation = r.generation + 1
            /\ r.phase \in {"Stopped", "ProtectiveOffline"}
         \/ /\ s.generation = r.generation
            /\ r.phase \in {"Starting", "Active"}
  BY DEF LegalMove, ValidTransition, Successor, NextGeneration, AllowedMove

LEMMA GenInvInit == Init => GenInv
  BY MaxStoredAssumption
     DEF Init, GenInv, JournalStarts, GenerationsEnd, CreatedRow

LEMMA GenInvNext == Inv /\ GenInv /\ [Next]_vars => GenInv'
<1> SUFFICES ASSUME Inv, GenInv, [Next]_vars PROVE GenInv'
  OBVIOUS
<1>1. CASE row' = row
  BY <1>1, JournalStep DEF GenInv, JournalStarts, GenerationsEnd
<1>2. CASE row' # row
  <2> DEFINE line == [from |-> row, to |-> row']
  <2>1. /\ row \in Row
        /\ row' \in Row
        /\ LegalMove(row, row')
        /\ journal \in Seq(Committed)
        /\ journal' = Append(journal, line)
        /\ line \in Committed
    BY <1>2, RowStep DEF Committed
  <2> HIDE DEF line
  <2>2. /\ Len(journal') = Len(journal) + 1
        /\ Len(journal) \in Nat
        /\ \A i \in 1 .. Len(journal) : journal'[i] = journal[i]
    BY <2>1
  <2>3. row.generation \in Nat /\ row'.generation \in Nat
    BY <2>1, MaxStoredAssumption DEF Row
  <2>4. JournalStarts'
    BY <2>1, <2>2 DEF JournalStarts
  <2>5. \A g \in 1 .. row.generation - 1 :
          \E i \in 1 .. Len(journal') :
            /\ journal'[i].to.generation = g
            /\ journal'[i].to.phase \in {"Stopped", "ProtectiveOffline"}
    <3> SUFFICES ASSUME NEW g \in 1 .. row.generation - 1
                 PROVE  \E i \in 1 .. Len(journal') :
                          /\ journal'[i].to.generation = g
                          /\ journal'[i].to.phase
                               \in {"Stopped", "ProtectiveOffline"}
      OBVIOUS
    <3>1. PICK i \in 1 .. Len(journal) :
            /\ journal[i].to.generation = g
            /\ journal[i].to.phase \in {"Stopped", "ProtectiveOffline"}
      BY DEF GenInv, GenerationsEnd
    <3>2. i \in 1 .. Len(journal') /\ journal'[i] = journal[i]
      BY <2>2
    <3> QED
      BY <3>1, <3>2
  <2>6. GenerationsEnd'
    <3>1. CASE row'.generation = row.generation
      BY <2>5, <3>1 DEF GenerationsEnd
    <3>2. CASE /\ row'.generation = row.generation + 1
               /\ row.phase \in {"Stopped", "ProtectiveOffline"}
      <4>1. ASSUME row.generation >= 1
            PROVE  /\ Len(journal) \in 1 .. Len(journal')
                   /\ journal'[Len(journal)].to = row
        <5>1. Len(journal) > 0
          BY <2>1, <2>3, <4>1 DEF GenInv, JournalStarts
        <5>2. journal[Len(journal)].to = row
          BY <5>1 DEF Inv, JournalIsHistory
        <5> QED
          BY <2>2, <5>1, <5>2
      <4> SUFFICES ASSUME NEW g \in 1 .. row'.generation - 1
                   PROVE  \E i \in 1 .. Len(journal') :
                            /\ journal'[i].to.generation = g
                            /\ journal'[i].to.phase
                                 \in {"Stopped", "ProtectiveOffline"}
        BY DEF GenerationsEnd
      <4>2. CASE g = row.generation
        BY <2>3, <3>2, <4>1, <4>2
      <4>3. CASE g # row.generation
        <5>1. g \in 1 .. row.generation - 1
          BY <2>3, <3>2, <4>3
        <5> QED
          BY <2>5, <5>1
      <4> QED
        BY <4>2, <4>3
    <3> QED
      BY <2>1, <3>1, <3>2, MoveOfGeneration
  <2> QED
    BY <2>4, <2>6 DEF GenInv
<1> QED
  BY <1>1, <1>2

\* Every earlier generation was ended in the journal, whatever crashed.
THEOREM GenerationsCorrect == Spec => []GenerationsEnd
<1>1. GenInv => GenerationsEnd
  BY DEF GenInv
<1> QED
  BY <1>1, GenInvInit, GenInvNext, InvHolds, PTL DEF Spec

\* All that readers of the database and callers with a receipt rely on.
THEOREM StoreSoundCorrect == Spec => []StoreIsSound
<1>1. TypeOK /\ JournalIsHistory /\ OneWinner /\ VersionIdentifiesRow /\ GenerationsEnd
        => StoreIsSound
  BY DEF StoreIsSound
<1> QED
  BY <1>1, TypeCorrect, JournalCorrect, ReceiptsAreExclusive, VersionCorrect,
     GenerationsCorrect, PTL
=============================================================================
