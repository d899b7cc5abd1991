---------------------------- MODULE OnlineProofs ----------------------------
(***************************************************************************)
(* Proofs about what an account does while it is online: OnlineSession, for *)
(* every signed plan, clock and response of QQ; MessageRegistry, for every  *)
(* set of messages and replies, every size of the table and every space of  *)
(* identifiers above it; MediaUpload, for every size of files and blocks    *)
(* and every session QQ offers; EventResolution, for all UIDs, requests and *)
(* answers of QQ; AccountActions, for all messages, however long, pages and *)
(* failures; OnlineSync, for all groups, peers, limits and pushes; and      *)
(* PushEvents, for all limits of the queue and batches.                     *)
(*                                                                          *)
(* A generation is online only behind its gates and keeps a deadline: that  *)
(* needs what was passed at which stage (OnlineInv).  That a lookup of the  *)
(* registry is unique is not inductive: a row could be registered for a     *)
(* message whose correlation another row already has.  RegistryInv adds     *)
(* what a row says, the correlation of its own message, and that no row is  *)
(* of a message this account has yet to send.  That a file is whole when an *)
(* upload ends well follows from what QQ has of it meanwhile (UploadInv),   *)
(* and that a request is announced with its own flag from what its record   *)
(* said when it was found (EventsInv).  An action acts once because of what *)
(* is left of its program (ActionsInv): nothing behind an effect acts or    *)
(* finds fault with the request, uploads come first, and before a signed    *)
(* request of the web a token is taken, then cookies.  The marks of a       *)
(* synchronization cover its cursors because no time of either kind is      *)
(* merged into one and not into the other; that needs the types of all      *)
(* maps, and that what was first is over behind the gates (SyncInv).  The   *)
(* queue of events is counted as it is because recalls count as often as    *)
(* they are queued, and a batch keeps it below twice its limit because only *)
(* its first notice of recalls can fill it (PushInv).                       *)
(***************************************************************************)
EXTENDS OnlineSession, MessageRegistry, MediaUpload, EventResolution, AccountActions,
        OnlineSync, PushEvents, SequenceTheorems, FiniteSetTheorems, WellFoundedInduction, TLAPS

-----------------------------------------------------------------------------
(* The schedule.                                                           *)

\* The runtime and the controller agree on the stage of the generation, and
\* the gates passed so far are those the stage presupposes.
StagesAgree ==
  /\ pc = "Starting" => state = "Stopped"
  /\ pc \in {"Starting", "Synchronizing"} => gates = {}
  /\ pc \in {"Synchronizing", "Bootstrapping", "Confirming"} => state = pc
  /\ pc = "Bootstrapping" => gates = {"InitialSync"}
  /\ pc = "Confirming" =>
       HasConfirmation /\ gates = {"InitialSync", "SecurityBootstrap"}

OnlineInv == TypeOK /\ ContinuityNeverLapses /\ OnlineThroughGates /\ StagesAgree

USE DEF None

LEMMA PlanFacts ==
  /\ MinHeartbeat \in Nat /\ InitialHeartbeat \in Nat /\ MaxHeartbeat \in Nat
  /\ MinDelayed \in Nat /\ MaxDelayed \in Nat /\ MaxNow \in Nat
  /\ InitialHeartbeat \in MinHeartbeat .. MaxHeartbeat
  BY PlanAssumption, InputAssumption

\* Every delay a response can obtain is within the signed bounds.
LEMMA DelaysBounded ==
  ASSUME TypeOK, NEW requested \in Requested \union {None}
  PROVE  /\ HeartbeatInterval(requested) \in MinHeartbeat .. MaxHeartbeat
         /\ requested # None =>
              Clamp(requested, MinDelayed, MaxDelayed)
                \in MinDelayed .. MaxDelayed
  BY PlanAssumption, InputAssumption, PlanFacts
  DEF HeartbeatInterval, Clamp, TypeOK

LEMMA OnlineStarts == Init => OnlineInv
  BY PlanFacts
  DEF Init, OnlineInv, TypeOK, ContinuityNeverLapses, OnlineThroughGates,
      StagesAgree, Deadline

-----------------------------------------------------------------------------
(* One lemma per family of steps: the startup gates, the loop, the ends. *)

LEMMA EndSteps ==
  ASSUME OnlineInv, FailClosed \/ (Abandon /\ pc \notin {"Heartbeat", "Delayed"})
  PROVE  OnlineInv'
<1> USE PlanFacts, DelaysBounded DEF OnlineInv, TypeOK, ContinuityNeverLapses,
      OnlineThroughGates, StagesAgree, Deadline
<1>1. CASE FailClosed
  BY <1>1 DEF FailClosed, ClearSchedule
<1>2. CASE Abandon /\ pc \notin {"Heartbeat", "Delayed"}
  BY <1>2 DEF Abandon, schedule
<1>3. QED
  BY <1>1, <1>2

\* Entering Online from either of the last gates.
LEMMA Enter ==
  ASSUME OnlineInv, NEW gate, EnterOnline(gate), Fits(InitialHeartbeat),
         pc \in {"Bootstrapping", "Confirming"},
         gates \union {gate} = Gates
  PROVE  OnlineInv'
<1>1. now + InitialHeartbeat \in 0 .. MaxNow
  BY PlanFacts DEF Fits, OnlineInv, TypeOK
<1>2. TypeOK'
  BY <1>1 DEF EnterOnline, OnlineInv, TypeOK, Deadline
<1>3. nextHeartbeat' # None
  BY <1>1 DEF EnterOnline
<1>4. /\ ContinuityNeverLapses'
      /\ StagesAgree'
  BY <1>3 DEF EnterOnline, OnlineInv, ContinuityNeverLapses, StagesAgree
<1>5. OnlineThroughGates'
  BY DEF EnterOnline, OnlineThroughGates, Gates
<1>6. QED
  BY <1>2, <1>4, <1>5 DEF OnlineInv

LEMMA GateSteps ==
  ASSUME OnlineInv, NEW requested \in Requested \union {None},
         Start \/ Synchronized(requested) \/ Secured \/ Confirmed
  PROVE  OnlineInv'
<1>1. CASE Start
  BY <1>1, PlanFacts
  DEF Start, ClearSchedule, OnlineInv, TypeOK, ContinuityNeverLapses,
      OnlineThroughGates, StagesAgree, Deadline
<1>2. CASE Synchronized(requested) /\ DelayFits(requested)
  <2>1. nextDelayed' \in Deadline
    BY <1>2, PlanFacts, DelaysBounded
    DEF Synchronized, ArmDelayed, DelayFits, Fits, Deadline, OnlineInv, TypeOK
  <2>2. QED
    BY <1>2, <2>1
    DEF Synchronized, OnlineInv, TypeOK, ContinuityNeverLapses,
        OnlineThroughGates, StagesAgree
<1>3. CASE Synchronized(requested) /\ ~DelayFits(requested)
  BY <1>3, EndSteps DEF Synchronized
<1>4. CASE Secured /\ HasConfirmation
  <2>1. gates' = {"InitialSync", "SecurityBootstrap"}
    BY <1>4 DEF Secured, OnlineInv, StagesAgree
  <2>2. QED
    BY <1>4, <2>1
    DEF Secured, schedule, OnlineInv, TypeOK, ContinuityNeverLapses,
        OnlineThroughGates, StagesAgree
<1>5. CASE Secured /\ ~HasConfirmation
  <2>1. /\ pc = "Bootstrapping"
        /\ EnterOnline("SecurityBootstrap")
        /\ gates \union {"SecurityBootstrap"} = Gates
    BY <1>5 DEF Secured, OnlineInv, StagesAgree, Gates
  <2>2. CASE Fits(InitialHeartbeat)
    BY <2>1, <2>2, Enter
  <2>3. CASE ~Fits(InitialHeartbeat)
    BY <2>1, <2>3, EndSteps DEF EnterOnline
  <2>4. QED
    BY <2>2, <2>3
<1>6. CASE Confirmed
  <2>1. /\ pc = "Confirming"
        /\ EnterOnline("StatusConfirmation")
        /\ gates \union {"StatusConfirmation"} = Gates
    BY <1>6 DEF Confirmed, OnlineInv, StagesAgree, Gates
  <2>2. CASE Fits(InitialHeartbeat)
    BY <2>1, <2>2, Enter
  <2>3. CASE ~Fits(InitialHeartbeat)
    BY <2>1, <2>3, EndSteps DEF EnterOnline
  <2>4. QED
    BY <2>2, <2>3
<1>7. QED
  BY <1>1, <1>2, <1>3, <1>4, <1>5, <1>6

LEMMA LoopSteps ==
  ASSUME OnlineInv, NEW requested \in Requested \union {None},
         \/ Wake
         \/ HeartbeatDone(requested)
         \/ DelayedDone(requested)
  PROVE  OnlineInv'
<1>1. CASE Wake
  BY <1>1 DEF Wake, Due, OnlineInv, TypeOK, ContinuityNeverLapses,
              OnlineThroughGates, StagesAgree
<1>2. CASE HeartbeatDone(requested) /\ Fits(HeartbeatInterval(requested))
  <2>1. /\ interval' \in MinHeartbeat .. MaxHeartbeat
        /\ nextHeartbeat' \in 0 .. MaxNow
    BY <1>2, PlanFacts, DelaysBounded DEF HeartbeatDone, Fits, OnlineInv, TypeOK
  <2>2. TypeOK'
    BY <1>2, <2>1 DEF HeartbeatDone, OnlineInv, TypeOK, Deadline
  <2>3. nextHeartbeat' # None
    BY <2>1, PlanFacts
  <2>4. ContinuityNeverLapses'
    BY <1>2, <2>3 DEF HeartbeatDone, OnlineInv, ContinuityNeverLapses
  <2>5. /\ OnlineThroughGates'
        /\ StagesAgree'
    BY <1>2 DEF HeartbeatDone, OnlineInv, OnlineThroughGates, StagesAgree
  <2>6. QED
    BY <2>2, <2>4, <2>5 DEF OnlineInv
<1>3. CASE HeartbeatDone(requested) /\ ~Fits(HeartbeatInterval(requested))
  BY <1>3, EndSteps DEF HeartbeatDone
<1>4. CASE DelayedDone(requested) /\ DelayFits(requested)
  <2>1. nextDelayed' \in Deadline
    BY <1>4, PlanFacts, DelaysBounded
    DEF DelayedDone, ArmDelayed, DelayFits, Fits, Deadline, OnlineInv, TypeOK
  <2>2. QED
    BY <1>4, <2>1
    DEF DelayedDone, OnlineInv, TypeOK, ContinuityNeverLapses,
        OnlineThroughGates, StagesAgree
<1>5. CASE DelayedDone(requested) /\ ~DelayFits(requested)
  BY <1>5, EndSteps DEF DelayedDone
<1>6. QED
  BY <1>1, <1>2, <1>3, <1>4, <1>5

LEMMA OnlineStep == OnlineInv /\ [Next]_vars => OnlineInv'
<1> SUFFICES ASSUME OnlineInv, [Next]_vars PROVE OnlineInv'
  OBVIOUS
<1>1. ASSUME NEW requested \in Requested \union {None},
             \/ Synchronized(requested)
             \/ HeartbeatDone(requested)
             \/ DelayedDone(requested)
      PROVE  OnlineInv'
  BY <1>1, GateSteps, LoopSteps
<1>2. CASE Start \/ Secured \/ Confirmed
  BY <1>2, GateSteps
<1>3. CASE Wake
  BY <1>3, LoopSteps
<1>4. CASE ContinuityFails \/ SessionFails
  BY <1>4, EndSteps DEF ContinuityFails, SessionFails
<1>5. CASE Stop
  BY <1>5, PlanFacts, DelaysBounded
  DEF Stop, ClearSchedule, OnlineInv, TypeOK, ContinuityNeverLapses,
      OnlineThroughGates, StagesAgree, Deadline
<1>6. CASE Elapse \/ Interrupt \/ Tick
  BY <1>6 DEF Elapse, Interrupt, Tick, schedule, OnlineInv, TypeOK,
              ContinuityNeverLapses, OnlineThroughGates, StagesAgree
<1>7. CASE UNCHANGED vars
  BY <1>7 DEF vars, schedule, OnlineInv, TypeOK, ContinuityNeverLapses,
              OnlineThroughGates, StagesAgree
<1>8. QED
  BY <1>1, <1>2, <1>3, <1>4, <1>5, <1>6, <1>7 DEF Next

LEMMA OnlineIsInv == Spec => []OnlineInv
  BY OnlineStarts, OnlineStep, PTL DEF Spec

-----------------------------------------------------------------------------
\* The controller and the loop keep their types: in particular no response
\* ever moves the heartbeat interval out of the signed bounds.
THEOREM OnlineTypeCorrect == Spec => []TypeOK
<1>1. OnlineInv => TypeOK
  BY DEF OnlineInv
<1>2. QED
  BY <1>1, OnlineIsInv, PTL

\* A session in its loop always has its next heartbeat scheduled, and nothing
\* counts as in flight that is not being executed.
THEOREM ContinuityCorrect == Spec => []ContinuityNeverLapses
<1>1. OnlineInv => ContinuityNeverLapses
  BY DEF OnlineInv
<1>2. QED
  BY <1>1, OnlineIsInv, PTL

\* A generation serves only after every gate of its plan.
THEOREM GatesCorrect == Spec => []OnlineThroughGates
<1>1. OnlineInv => OnlineThroughGates
  BY DEF OnlineInv
<1>2. QED
  BY <1>1, OnlineIsInv, PTL

\* Every delay that is armed lies within the signed bounds.
THEOREM DelaysCorrect == Spec => EveryDelayBounded
<1> DEFINE Bounded ==
      /\ nextHeartbeat' \notin {nextHeartbeat, None} =>
           nextHeartbeat' - now \in MinHeartbeat .. MaxHeartbeat
      /\ nextDelayed' \notin {nextDelayed, None} =>
           nextDelayed' - now \in MinDelayed .. MaxDelayed
<1>1. OnlineInv /\ [Next]_vars => [Bounded]_vars
  <2> SUFFICES ASSUME OnlineInv, Next PROVE Bounded
    BY DEF vars
  <2> USE PlanFacts, DelaysBounded DEF OnlineInv, TypeOK, FailClosed, Abandon, ClearSchedule,
            schedule
  <2>1. ASSUME NEW requested \in Requested \union {None},
               Synchronized(requested)
        PROVE  Bounded
    BY <2>1 DEF Synchronized, ArmDelayed
  <2>2. ASSUME NEW requested \in Requested \union {None},
               HeartbeatDone(requested)
        PROVE  Bounded
    BY <2>2 DEF HeartbeatDone
  <2>3. ASSUME NEW requested \in Requested \union {None},
               DelayedDone(requested)
        PROVE  Bounded
    BY <2>3 DEF DelayedDone, ArmDelayed
  <2>4. CASE Secured \/ Confirmed
    BY <2>4 DEF Secured, Confirmed, EnterOnline
  <2>5. CASE \/ Start \/ Elapse \/ Interrupt \/ Wake \/ ContinuityFails
             \/ SessionFails \/ Stop \/ Tick
    BY <2>5 DEF Start, Elapse, Interrupt, Wake, ContinuityFails, SessionFails,
                Stop, Tick
  <2>6. QED
    BY <2>1, <2>2, <2>3, <2>4, <2>5 DEF Next
<1>2. QED
  BY <1>1, OnlineIsInv, PTL DEF Spec, EveryDelayBounded

\* A generation is online behind its gates, and its continuity never lapses.
THEOREM OnlineSoundCorrect == Spec => []OnlineIsSound
<1>1. TypeOK /\ ContinuityNeverLapses /\ OnlineThroughGates => OnlineIsSound
  BY DEF OnlineIsSound
<1>2. QED
  BY <1>1, OnlineTypeCorrect, ContinuityCorrect, GatesCorrect, PTL

-----------------------------------------------------------------------------
(* The registry of messages.                                               *)

\* What lies before an element of a set.
Ahead(S, before, x) == {y \in S : <<y, x>> \in before}

\* A strict order in which any two elements of S can be compared.
Orders(before, S) ==
  /\ \A x \in S : <<x, x>> \notin before
  /\ \A x, y \in S : x # y => <<x, y>> \in before \/ <<y, x>> \in before
  /\ \A x, y, z \in S :
       <<x, y>> \in before /\ <<y, z>> \in before => <<x, z>> \in before

\* A row says what its own message is found by.
RowsAreOfTheirMessage ==
  \A id \in Retained :
    \E localTime \in BOOLEAN :
      registered[id].target = Target(registered[id].message, localTime)

\* The messages this account has yet to send are not registered.
NothingAhead == \A id \in Retained : Exists(registered[id].message)

RegistryInv ==
  /\ RegistryTypeOK
  /\ RowsAreOfTheirMessage /\ NothingAhead
  /\ LookupsAreUnambiguous /\ RepliesStayInConversation

-----------------------------------------------------------------------------
(* Finite orders.                                                          *)

\* Elements of a finite set lie behind different numbers of others.
LEMMA Ranks ==
  ASSUME NEW S, IsFiniteSet(S), NEW before, Orders(before, S)
  PROVE  /\ \A x \in S : /\ Cardinality(Ahead(S, before, x)) \in Nat
                         /\ Cardinality(Ahead(S, before, x)) < Cardinality(S)
                         /\ IsFiniteSet(Ahead(S, before, x))
         /\ \A x, y \in S :
              x # y => Cardinality(Ahead(S, before, x))
                         # Cardinality(Ahead(S, before, y))
<1>1. Cardinality(S) \in Nat
  BY FS_CardinalityType
<1>2. ASSUME NEW x \in S
      PROVE  /\ Cardinality(Ahead(S, before, x)) \in Nat
             /\ Cardinality(Ahead(S, before, x)) < Cardinality(S)
             /\ IsFiniteSet(Ahead(S, before, x))
  <2>1. Ahead(S, before, x) \in SUBSET S /\ x \notin Ahead(S, before, x)
    BY DEF Ahead, Orders
  <2>2. Ahead(S, before, x) # S
    BY <2>1
  <2>3. /\ IsFiniteSet(Ahead(S, before, x))
        /\ Cardinality(Ahead(S, before, x)) <= Cardinality(S)
        /\ Cardinality(S) # Cardinality(Ahead(S, before, x))
    BY <2>1, <2>2, FS_Subset
  <2>4. Cardinality(Ahead(S, before, x)) \in Nat
    BY <2>3, FS_CardinalityType
  <2>5. QED
    BY <1>1, <2>3, <2>4
<1>3. ASSUME NEW x \in S, NEW y \in S, <<x, y>> \in before
      PROVE  Cardinality(Ahead(S, before, x)) < Cardinality(Ahead(S, before, y))
  <2>1. /\ Ahead(S, before, x) \in SUBSET Ahead(S, before, y)
        /\ x \in Ahead(S, before, y) /\ x \notin Ahead(S, before, x)
    BY <1>3 DEF Ahead, Orders
  <2>2. Ahead(S, before, x) # Ahead(S, before, y)
    BY <2>1
  <2>3. /\ Cardinality(Ahead(S, before, x)) <= Cardinality(Ahead(S, before, y))
        /\ Cardinality(Ahead(S, before, x)) # Cardinality(Ahead(S, before, y))
    BY <1>2, <2>1, <2>2, FS_Subset
  <2>4. QED
    BY <1>2, <2>3
<1>4. ASSUME NEW x \in S, NEW y \in S, x # y
      PROVE  Cardinality(Ahead(S, before, x)) # Cardinality(Ahead(S, before, y))
  <2>1. <<x, y>> \in before \/ <<y, x>> \in before
    BY <1>4 DEF Orders
  <2>2. QED
    BY <1>2, <1>3, <2>1
<1>5. QED
  BY <1>2, <1>4

\* Those with less than k before them are no more than k.
LEMMA FewAreFirst ==
  ASSUME NEW S, IsFiniteSet(S), NEW before, Orders(before, S), NEW k \in Nat
  PROVE  Cardinality({x \in S : Cardinality(Ahead(S, before, x)) < k}) <= k
<1> DEFINE T == {x \in S : Cardinality(Ahead(S, before, x)) < k}
           rank == [x \in T |-> Cardinality(Ahead(S, before, x)) + 1]
<1>1. \A x \in S : Cardinality(Ahead(S, before, x)) \in Nat
  BY Ranks
<1>2. rank \in Injection(T, 1 .. k)
  <2>1. rank \in [T -> 1 .. k]
    BY <1>1
  <2>2. \A x, y \in T : x # y => rank[x] # rank[y]
    BY <1>1, Ranks
  <2> HIDE DEF rank, T
  <2>3. QED
    BY <2>1, <2>2 DEF Injection, IsInjective
<1>3. IsFiniteSet(1 .. k) /\ Cardinality(1 .. k) = k
  BY FS_Interval
<1> HIDE DEF rank, T
<1>4. Cardinality(T) <= k
  BY <1>2, <1>3, FS_Injection
<1>5. QED
  BY <1>4 DEF T

\* A set that is not empty has a first element.
LEMMA FirstExists ==
  ASSUME NEW S, IsFiniteSet(S), S # {}, NEW before, Orders(before, S)
  PROVE  \E x \in S : \A y \in S : y # x => <<x, y>> \in before
<1> DEFINE C == Cardinality(S)
           rank == [x \in S |-> Cardinality(Ahead(S, before, x)) + 1]
<1>1. C \in Nat /\ C # 0
  BY FS_CardinalityType, FS_EmptySet
<1> HIDE DEF C
<1>2. \A x \in S : /\ Cardinality(Ahead(S, before, x)) \in Nat
                   /\ Cardinality(Ahead(S, before, x)) < C
                   /\ IsFiniteSet(Ahead(S, before, x))
  BY Ranks DEF C
<1>3. rank \in Injection(S, 1 .. C)
  <2>1. rank \in [S -> 1 .. C]
    BY <1>1, <1>2
  <2>2. \A x, y \in S : x # y => rank[x] # rank[y]
    BY <1>2, Ranks
  <2> HIDE DEF rank
  <2>3. QED
    BY <2>1, <2>2 DEF Injection, IsInjective
<1>4. IsFiniteSet(1 .. C) /\ Cardinality(1 .. C) = C
  BY <1>1, FS_Interval
<1>5. rank \in Surjection(S, 1 .. C)
  <2> HIDE DEF rank
  <2>1. QED
    BY <1>3, <1>4, FS_Injection DEF C
<1>6. PICK x \in S : Cardinality(Ahead(S, before, x)) = 0
  <2>1. PICK x \in S : rank[x] = 1
    <3>1. 1 \in 1 .. C
      BY <1>1
    <3> HIDE DEF rank
    <3>2. QED
      BY <1>5, <3>1 DEF Surjection
  <2>2. rank[x] = Cardinality(Ahead(S, before, x)) + 1
    OBVIOUS
  <2> HIDE DEF rank
  <2>3. QED
    BY <1>2, <2>1, <2>2
<1>7. Ahead(S, before, x) = {}
  BY <1>2, <1>6, FS_EmptySet
<1>8. QED
  BY <1>7 DEF Ahead, Orders

-----------------------------------------------------------------------------
(* The table.                                                              *)

\* An identifier that is free is found.
LEMMA NextIdFree ==
  ASSUME RegistryTypeOK, NEW message \in Messages
  PROVE  NextId(message) \in Id \ Retained
<1> DEFINE free == Id \ Retained
           P(id) == Probes(Preferred(message), id)
           before == {p \in free \X free :
                        P(p[1]) < P(p[2]) \/ (P(p[1]) = P(p[2]) /\ p[1] < p[2])}
<1>1. IdLimit \in Nat \ {0} /\ MaxMessages \in Nat /\ MaxMessages < IdLimit
  BY RegistryAssumption
<1>2. IsFiniteSet(Id) /\ Cardinality(Id) = IdLimit
  BY <1>1, FS_Interval DEF Id
<1>3. IsFiniteSet(free)
  BY <1>2, FS_Subset
<1>4. free # {}
  <2>1. Retained \in SUBSET Id /\ Cardinality(Retained) <= MaxMessages
    BY DEF RegistryTypeOK
  <2>2. Retained # Id
    BY <1>1, <1>2, <2>1
  <2>3. QED
    BY <2>1, <2>2
<1>5. Preferred(message) \in Int
  <2>1. SequenceOf[message] \in Nat
    BY RegistryAssumption
  <2>2. SequenceOf[message] % (IdLimit + 1) \in Int
    BY <1>1, <2>1
  <2>3. QED
    BY <2>2 DEF Preferred
<1>6. \A id \in free : id \in Nat /\ P(id) \in Int
  <2>1. ASSUME NEW id \in free PROVE id \in Nat /\ P(id) \in Int
    <3>1. id \in Nat
      BY <1>1 DEF Id
    <3>2. (id - Preferred(message)) % IdLimit \in Int
      BY <1>1, <1>5, <3>1
    <3>3. QED
      BY <3>1, <3>2 DEF Probes
  <2>2. QED
    BY <2>1
<1> HIDE DEF free, P
<1>7. Orders(before, free)
  BY <1>6 DEF Orders
<1>8. \A id, other \in free : <<id, other>> \in before => P(id) <= P(other)
  BY <1>6
<1> HIDE DEF before
<1>9. PICK id \in free : \A other \in free : other # id => <<id, other>> \in before
  BY <1>3, <1>4, <1>7, FirstExists
<1>10. ASSUME NEW other \in free PROVE P(id) <= P(other)
  <2>1. CASE other = id
    BY <1>6, <2>1
  <2>2. CASE other # id
    BY <1>8, <1>9, <2>2
  <2>3. QED
    BY <2>1, <2>2
<1>11. QED
  BY <1>10 DEF NextId, free, P

\* prune leaves at most MaxMessages rows.
LEMMA KeptIsBounded ==
  ASSUME NEW table, IsFiniteSet(DOMAIN table),
         \A id \in DOMAIN table : id \in Nat /\ table[id].at \in Nat
  PROVE  Kept(table) \subseteq DOMAIN table /\ Cardinality(Kept(table)) <= MaxMessages
<1> DEFINE all == DOMAIN table
           before == {p \in all \X all : Newer(table, p[1], p[2])}
<1>1. \A id, other \in DOMAIN table :
        <<id, other>> \in before <=> Newer(table, id, other)
  <2> HIDE DEF all
  <2>1. \A id, other \in all : <<id, other>> \in before <=> Newer(table, id, other)
    OBVIOUS
  <2>2. QED
    BY <2>1 DEF all
<1> HIDE DEF before
<1>2. Orders(before, DOMAIN table)
  BY <1>1 DEF Orders, Newer
<1>3. ASSUME NEW id \in DOMAIN table
      PROVE  Ahead(DOMAIN table, before, id)
               = {other \in DOMAIN table : Newer(table, other, id)}
  BY <1>1, <1>3 DEF Ahead
<1>4. Kept(table)
        = {id \in DOMAIN table :
             Cardinality(Ahead(DOMAIN table, before, id)) < MaxMessages}
  BY <1>3 DEF Kept
<1>5. MaxMessages \in Nat
  BY RegistryAssumption
<1>6. QED
  BY <1>2, <1>4, <1>5, FewAreFirst

\* put replaces or adds one row, and prune takes rows away.
LEMMA Put ==
  ASSUME RegistryTypeOK, NEW id \in Id, NEW row, row.at \in Time,
         registered' = With(registered, id, row)
  PROVE  /\ Retained' \subseteq Retained \union {id}
         /\ Cardinality(Retained') <= MaxMessages
         /\ \A i \in Retained' :
              registered'[i] = IF i = id THEN row ELSE registered[i]
<1> DEFINE all == [i \in DOMAIN registered \union {id} |->
                     IF i = id THEN row ELSE registered[i]]
<1>1. DOMAIN all = Retained \union {id}
  BY DEF Retained
<1>2. \A i \in Retained \union {id} : all[i] = IF i = id THEN row ELSE registered[i]
  BY DEF Retained
<1>3. registered' = [i \in Kept(all) |-> all[i]]
  BY DEF With
<1> HIDE DEF all
<1>4. Retained' = Kept(all)
  BY <1>3 DEF Retained
<1>5. Id \subseteq Nat /\ Time \subseteq Nat /\ IsFiniteSet(Id)
  BY RegistryAssumption, FS_Interval DEF Id, Time
<1>6. IsFiniteSet(DOMAIN all)
  <2>1. Retained \union {id} \in SUBSET Id
    BY DEF RegistryTypeOK
  <2>2. QED
    BY <1>1, <1>5, <2>1, FS_Subset
<1>7. \A i \in DOMAIN all : i \in Nat /\ all[i].at \in Nat
  BY <1>1, <1>2, <1>5 DEF RegistryTypeOK
<1>8. Kept(all) \subseteq DOMAIN all /\ Cardinality(Kept(all)) <= MaxMessages
  BY <1>6, <1>7, KeptIsBounded
<1>9. \A i \in Retained' : registered'[i] = all[i]
  BY <1>3, <1>4
<1>10. QED
  BY <1>1, <1>2, <1>4, <1>8, <1>9

-----------------------------------------------------------------------------
(* Correlations.                                                           *)

\* A correlation names one message.
LEMMA TargetNames ==
  ASSUME NEW m \in Messages, NEW n \in Messages,
         NEW k \in BOOLEAN, NEW l \in BOOLEAN,
         Target(m, k) = Target(n, l), Target(m, k).kind # "Unavailable"
  PROVE  m = n
<1>1. Correlated[m] /\ Correlated[n] /\ Acceptable[m] /\ Acceptable[n]
  BY DEF Target
<1>2. CASE IsGroup[m]
  <2>1. Target(m, k).kind = "Group"
    BY <1>1, <1>2 DEF Target
  <2>2. IsGroup[n]
    BY <1>1, <2>1 DEF Target
  <2>3. /\ ConversationOf[m] = ConversationOf[n]
        /\ SequenceOf[m] = SequenceOf[n]
    <3>1. /\ Target(m, k).conversation = ConversationOf[m]
          /\ Target(n, l).conversation = ConversationOf[n]
          /\ Target(m, k).sequence = SequenceOf[m]
          /\ Target(n, l).sequence = SequenceOf[n]
      BY <1>1, <1>2, <2>2 DEF Target
    <3>2. QED
      BY <3>1
  <2>4. QED
    BY <1>2, <2>2, <2>3, GroupsAreNumbered
<1>3. CASE ~IsGroup[m]
  <2>1. Target(m, k).kind = "Private"
    BY <1>1, <1>3 DEF Target
  <2>2. ~IsGroup[n]
    BY <1>1, <2>1 DEF Target
  <2>3. Target(m, k).message = m /\ Target(n, l).message = n
    BY <1>1, <1>3, <2>2 DEF Target
  <2>4. QED
    BY <2>3
<1>4. QED
  BY <1>2, <1>3

\* A lookup by a correlation whose fields are accepted is unique.
LEMMA LookupsSucceed ==
  ASSUME RegistryInv, NEW message \in Messages, Correlated[message], Acceptable[message]
  PROVE  ~Ambiguous(Found(Target(message, FALSE)))
<1> DEFINE found == Found(Target(message, FALSE))
<1>1. Target(message, FALSE).kind # "Unavailable"
  BY DEF Target
<1>2. \A id, other \in found : id = other
  BY <1>1 DEF RegistryInv, LookupsAreUnambiguous, Found
<1> HIDE DEF found
<1>3. found = {} \/ \E id : found = {id}
  <2>1. ASSUME NEW id \in found PROVE found = {id}
    BY <1>2
  <2>2. QED
    BY <2>1
<1>4. Cardinality(found) = 0 \/ Cardinality(found) = 1
  BY <1>3, FS_EmptySet, FS_Singleton
<1>5. ~Ambiguous(found)
  BY <1>4 DEF Ambiguous
<1>6. QED
  BY <1>5 DEF found

\* What a message is found by is registered with its own identifier only.
Unclaimed(id, message, localTime) ==
  /\ id \in Id
  /\ id \in Retained => registered[id].message = message
  /\ \A other \in Retained \ {id} :
       registered[other].target = Target(message, localTime) =>
         Target(message, localTime).kind = "Unavailable"

\* A message that comes again keeps its identifier; another gets a free one.
LEMMA InboundIdUnclaimed ==
  ASSUME RegistryInv, NEW message \in Messages, Acceptable[message]
  PROVE  Unclaimed(InboundId(message), message, FALSE)
<1> DEFINE found == Found(Target(message, FALSE))
<1>1. CASE Correlated[message] /\ found # {}
  <2>1. InboundId(message) \in found
    BY <1>1 DEF InboundId
  <2>2. Target(message, FALSE).kind # "Unavailable"
    BY <1>1 DEF Target
  <2>3. PICK id \in Retained : /\ id = InboundId(message)
                               /\ registered[id].target = Target(message, FALSE)
    BY <2>1 DEF Found
  <2>4. registered[id].message = message
    <3>1. PICK l \in BOOLEAN : registered[id].target = Target(registered[id].message, l)
      BY DEF RegistryInv, RowsAreOfTheirMessage
    <3>2. registered[id].message \in Messages
      BY DEF RegistryInv, RegistryTypeOK
    <3>3. QED
      BY <2>2, <2>3, <3>1, <3>2, TargetNames
  <2>5. \A other \in Retained :
          registered[other].target = Target(message, FALSE) => other = id
    BY <2>2, <2>3 DEF RegistryInv, LookupsAreUnambiguous
  <2>6. QED
    BY <2>3, <2>4, <2>5 DEF Unclaimed, RegistryInv, RegistryTypeOK
<1>2. CASE ~(Correlated[message] /\ found # {})
  <2>1. InboundId(message) = NextId(message)
    BY <1>2 DEF InboundId
  <2>2. NextId(message) \in Id \ Retained
    BY NextIdFree DEF RegistryInv
  <2>3. ~Correlated[message] => Target(message, FALSE).kind = "Unavailable"
    BY DEF Target
  <2>4. found = {} => \A other \in Retained :
                        registered[other].target # Target(message, FALSE)
    BY DEF Found
  <2>5. QED
    BY <1>2, <2>1, <2>2, <2>3, <2>4 DEF Unclaimed
<1>3. QED
  BY <1>1, <1>2

\* A message that this account sends now is not registered yet.
LEMMA OutboundIdUnclaimed ==
  ASSUME RegistryInv, NEW message \in OwnMessages \ accepted, NEW localTime \in BOOLEAN
  PROVE  Unclaimed(NextId(message), message, localTime)
<1>1. message \in Messages
  BY RegistryAssumption
<1>2. NextId(message) \in Id \ Retained
  BY <1>1, NextIdFree DEF RegistryInv
<1>3. ASSUME NEW other \in Retained,
             registered[other].target = Target(message, localTime),
             Target(message, localTime).kind # "Unavailable"
      PROVE  FALSE
  <2>1. PICK l \in BOOLEAN :
          registered[other].target = Target(registered[other].message, l)
    BY DEF RegistryInv, RowsAreOfTheirMessage
  <2>2. registered[other].message \in Messages
    BY DEF RegistryInv, RegistryTypeOK
  <2>3. registered[other].message = message
    BY <1>1, <1>3, <2>1, <2>2, TargetNames
  <2>4. QED
    BY <2>3 DEF RegistryInv, NothingAhead, Exists
<1>4. QED
  BY <1>2, <1>3 DEF Unclaimed

-----------------------------------------------------------------------------
(* The steps.                                                              *)

\* An identifier of a row that stays keeps naming the same message.
MeaningsStay ==
  \A id \in Retained \intersect DOMAIN registered' :
    registered'[id].message = registered[id].message

\* A row is registered under an identifier that nobody else claims.
LEMMA RegisterInv ==
  ASSUME RegistryInv, NEW message \in Messages, NEW localTime \in BOOLEAN, NEW id, NEW row,
         Unclaimed(id, message, localTime),
         row.message = message, row.at = wallClock,
         row.target = Target(message, localTime),
         registered' = With(registered, id, row),
         accepted \subseteq accepted', accepted' \subseteq OwnMessages, Exists(message)',
         UNCHANGED <<wallClock, sessionEnd>>,
         RepliesStayInConversation'
  PROVE  RegistryInv' /\ MeaningsStay
<1>1. RegistryTypeOK
  BY DEF RegistryInv
<1>2. id \in Id /\ row.at \in Time
  BY <1>1 DEF Unclaimed, RegistryTypeOK
<1>3. /\ Retained' \subseteq Retained \union {id}
      /\ Cardinality(Retained') <= MaxMessages
      /\ \A i \in Retained' : registered'[i] = IF i = id THEN row ELSE registered[i]
  BY <1>1, <1>2, Put
<1>4. RegistryTypeOK'
  <2>1. Retained' \subseteq Id
    BY <1>1, <1>2, <1>3 DEF RegistryTypeOK
  <2>2. \A i \in Retained' : registered'[i].message \in Messages /\ registered'[i].at \in Time
    BY <1>1, <1>2, <1>3 DEF RegistryTypeOK
  <2>3. QED
    BY <1>1, <1>3, <2>1, <2>2 DEF RegistryTypeOK
<1>5. RowsAreOfTheirMessage'
  <2>1. ASSUME NEW i \in Retained'
        PROVE  \E l \in BOOLEAN :
                 registered'[i].target = Target(registered'[i].message, l)
    BY <1>3 DEF RegistryInv, RowsAreOfTheirMessage
  <2>2. QED
    BY <2>1 DEF RowsAreOfTheirMessage
<1>6. NothingAhead'
  BY <1>3 DEF RegistryInv, NothingAhead, Exists
<1>7. LookupsAreUnambiguous'
  <2>1. ASSUME NEW i \in Retained', NEW j \in Retained', i # j,
               registered'[i].target = registered'[j].target,
               registered'[i].target.kind # "Unavailable"
        PROVE  FALSE
    <3>1. CASE i # id /\ j # id
      BY <1>3, <2>1, <3>1 DEF RegistryInv, LookupsAreUnambiguous
    <3>2. CASE i = id \/ j = id
      BY <1>3, <2>1, <3>2 DEF Unclaimed
    <3>3. QED
      BY <3>1, <3>2
  <2>2. sessionEnd' # "Lookup"
    BY DEF RegistryInv, LookupsAreUnambiguous
  <2>3. QED
    BY <2>1, <2>2 DEF LookupsAreUnambiguous
<1>8. MeaningsStay
  BY <1>3 DEF MeaningsStay, Unclaimed, Retained
<1>9. QED
  BY <1>4, <1>5, <1>6, <1>7, <1>8 DEF RegistryInv

\* Rows are taken away: by a recall, or when the database is opened again.
LEMMA RemoveInv ==
  ASSUME RegistryInv, NEW S \in SUBSET Retained, registered' = [i \in S |-> registered[i]],
         sessionEnd' \in {"No", sessionEnd}, UNCHANGED <<wallClock, accepted, replied>>
  PROVE  RegistryInv' /\ MeaningsStay
<1>1. /\ Retained' = S
      /\ \A i \in Retained' : i \in Retained /\ registered'[i] = registered[i]
  BY DEF Retained
<1>2. RegistryTypeOK'
  <2>1. RegistryTypeOK
    BY DEF RegistryInv
  <2>2. Cardinality(Retained') <= MaxMessages
    <3>1. MaxMessages \in Nat /\ IdLimit \in Nat
      BY RegistryAssumption
    <3>2. IsFiniteSet(Id)
      BY <3>1, FS_Interval DEF Id
    <3>3. IsFiniteSet(Retained)
      BY <2>1, <3>2, FS_Subset DEF RegistryTypeOK
    <3>4. Cardinality(S) <= Cardinality(Retained) /\ IsFiniteSet(S)
      BY <3>3, FS_Subset
    <3>5. Cardinality(S) \in Nat /\ Cardinality(Retained) \in Nat
      BY <3>3, <3>4, FS_CardinalityType
    <3>6. QED
      BY <1>1, <2>1, <3>1, <3>4, <3>5 DEF RegistryTypeOK
  <2>3. QED
    BY <1>1, <2>1, <2>2 DEF RegistryTypeOK
<1>3. RowsAreOfTheirMessage' /\ NothingAhead'
  BY <1>1 DEF RegistryInv, RowsAreOfTheirMessage, NothingAhead, Exists
<1>4. LookupsAreUnambiguous' /\ RepliesStayInConversation'
  BY <1>1 DEF RegistryInv, LookupsAreUnambiguous, RepliesStayInConversation
<1>5. MeaningsStay
  BY <1>1 DEF MeaningsStay, Retained
<1>6. QED
  BY <1>2, <1>3, <1>4, <1>5 DEF RegistryInv

LEMMA InboundInv ==
  ASSUME RegistryInv, NEW message \in Messages, Inbound(message)
  PROVE  RegistryInv' /\ MeaningsStay
<1>1. CASE InboundFails(message)
  <2>1. /\ sessionEnd' = IF ~Acceptable[message] THEN "Refused"
                          ELSE IF ReplyFails(message) THEN "Reply" ELSE "Lookup"
        /\ UNCHANGED <<registered, replied, wallClock, accepted>>
    BY <1>1 DEF Inbound
  <2>2. ~Acceptable[message] \/ ReplyFails(message)
    BY <1>1, LookupsSucceed DEF InboundFails
  <2>3. QED
    BY <2>1, <2>2 DEF RegistryInv, RegistryTypeOK, RowsAreOfTheirMessage, NothingAhead, Exists,
                      LookupsAreUnambiguous, RepliesStayInConversation, MeaningsStay,
                      Retained
<1>2. CASE ~InboundFails(message)
  <2>1. /\ registered' = With(registered, InboundId(message), InboundRow(message))
        /\ Exists(message) /\ Tell(message)
        /\ UNCHANGED <<sessionEnd, wallClock, accepted>>
    BY <1>2 DEF Inbound
  <2> Acceptable[message]
    BY <1>2 DEF InboundFails
  <2>2. RepliesStayInConversation'
    BY <2>1 DEF Tell, ReplyIds, SameConversation, RegistryInv, RepliesStayInConversation
  <2>3. /\ InboundRow(message).message = message
        /\ InboundRow(message).at = wallClock
        /\ InboundRow(message).target = Target(message, FALSE)
    BY DEF InboundRow
  <2>4. accepted' \subseteq OwnMessages /\ Exists(message)'
    BY <2>1 DEF RegistryInv, RegistryTypeOK, Exists
  <2>5. QED
    BY <2>1, <2>2, <2>3, <2>4, InboundIdUnclaimed, RegisterInv
<1>3. QED
  BY <1>1, <1>2

LEMMA SendInv ==
  ASSUME RegistryInv, NEW message \in OwnMessages, NEW localTime \in BOOLEAN, NEW lost \in BOOLEAN,
         Send(message, localTime, lost)
  PROVE  RegistryInv' /\ MeaningsStay
<1>1. /\ message \in OwnMessages \ accepted /\ accepted' = accepted \union {message}
      /\ UNCHANGED <<wallClock, replied, sessionEnd>>
  BY DEF Send
<1>2. message \in Messages
  BY RegistryAssumption
<1>3. RepliesStayInConversation' /\ accepted' \subseteq OwnMessages /\ Exists(message)'
  BY <1>1 DEF RegistryInv, RegistryTypeOK, RepliesStayInConversation, Exists
<1>4. CASE lost
  <2>1. registered' = registered
    BY <1>4 DEF Send
  <2>2. QED
    BY <1>1, <1>3, <2>1 DEF RegistryInv, RegistryTypeOK, RowsAreOfTheirMessage, NothingAhead,
                            Exists, LookupsAreUnambiguous, MeaningsStay, Retained
<1>5. CASE ~lost
  <2>1. registered' = With(registered, NextId(message), OutboundRow(message, localTime))
    BY <1>5 DEF Send
  <2>2. /\ OutboundRow(message, localTime).message = message
        /\ OutboundRow(message, localTime).at = wallClock
        /\ OutboundRow(message, localTime).target = Target(message, localTime)
    BY DEF OutboundRow
  <2>3. QED
    BY <1>1, <1>2, <1>3, <2>1, <2>2, OutboundIdUnclaimed, RegisterInv
<1>6. QED
  BY <1>4, <1>5

LEMMA RegistryStep ==
  ASSUME RegistryInv, [RegistryNext]_registryVars
  PROVE  RegistryInv' /\ MeaningsStay
<1>1. ASSUME NEW message \in Messages, Inbound(message) PROVE RegistryInv' /\ MeaningsStay
  BY <1>1, InboundInv
<1>2. ASSUME NEW message \in OwnMessages, NEW localTime \in BOOLEAN, NEW lost \in BOOLEAN,
             Send(message, localTime, lost)
      PROVE  RegistryInv' /\ MeaningsStay
  BY <1>2, SendInv
<1>3. ASSUME NEW id \in Retained, Recall(id) PROVE RegistryInv' /\ MeaningsStay
  <2>1. Retained \ {id} \in SUBSET Retained
    OBVIOUS
  <2>2. QED
    BY <1>3, <2>1, RemoveInv DEF Recall
<1>4. ASSUME NEW time \in Time, ClockTick(time) PROVE RegistryInv' /\ MeaningsStay
  BY <1>4 DEF ClockTick, RegistryInv, RegistryTypeOK, RowsAreOfTheirMessage, NothingAhead, Exists,
              LookupsAreUnambiguous, RepliesStayInConversation, MeaningsStay, Retained
<1>5. CASE Reopen
  <2>1. Kept(registered) \in SUBSET Retained
    BY DEF Kept, Retained
  <2>2. QED
    BY <1>5, <2>1, RemoveInv DEF Reopen
<1>6. CASE UNCHANGED registryVars
  BY <1>6 DEF registryVars, RegistryInv, RegistryTypeOK, RowsAreOfTheirMessage, NothingAhead,
              Exists, LookupsAreUnambiguous, RepliesStayInConversation, MeaningsStay,
              Retained
<1>7. QED
  BY <1>1, <1>2, <1>3, <1>4, <1>5, <1>6 DEF RegistryNext

LEMMA RegistryStart == RegistryInit => RegistryInv
<1> SUFFICES ASSUME RegistryInit PROVE RegistryInv
  OBVIOUS
<1>1. Retained = {} /\ accepted = {} /\ replied = {} /\ sessionEnd = "No"
      /\ wallClock \in Time
  BY DEF RegistryInit, Retained
<1>2. Cardinality(Retained) <= MaxMessages
  BY <1>1, FS_EmptySet, RegistryAssumption
<1>3. QED
  BY <1>1, <1>2 DEF RegistryInv, RegistryTypeOK, RowsAreOfTheirMessage, NothingAhead,
                    LookupsAreUnambiguous, RepliesStayInConversation

-----------------------------------------------------------------------------
\* For every set of messages, table and space of identifiers: the table keeps
\* its types and its bound, no correlation is found twice, so that no lookup by
\* accepted fields is ambiguous, and a reply points into its own conversation.
\* A message whose fields the checks refuse, and a quote that is found twice,
\* do end the session.
THEOREM RegistryIsSoundCorrect == RegistrySpec => []RegistryIsSound
<1>1. RegistryInv => RegistryIsSound
  BY DEF RegistryInv, RegistryIsSound
<1>2. RegistryInv /\ [RegistryNext]_registryVars => RegistryInv'
  BY RegistryStep
<1>3. QED
  BY <1>1, <1>2, RegistryStart, PTL DEF RegistrySpec

\* For every set of messages, table and space of identifiers: an identifier
\* names one message as long as that message is registered.
THEOREM IdsKeepTheirMeaningCorrect == RegistrySpec => IdsKeepTheirMeaning
<1>1. RegistryInv /\ [RegistryNext]_registryVars => RegistryInv'
  BY RegistryStep
<1>2. RegistryInv /\ [RegistryNext]_registryVars =>
        [\A id \in Retained \intersect DOMAIN registered' :
           registered'[id].message = registered[id].message]_registryVars
  BY RegistryStep DEF MeaningsStay
<1>3. QED
  BY <1>1, <1>2, RegistryStart, PTL DEF RegistrySpec, IdsKeepTheirMeaning

-----------------------------------------------------------------------------
(* The upload of files.                                                    *)

\* QQ has every unit of a file.
Whole(file) == \A unit \in 0 .. (SizeOf(file) - 1) : Covered(file, unit)

\* The files that may be left to carry.
Plans == {<<>>, <<1>>, <<2>>, <<1, 2>>}

\* What is left to carry at each stage, of a job whose files have a size.
FilesFit ==
    /\ files \in Plans
    /\ phase \in {"Idle", "Negotiating", "Downloading"} => files = <<>>
    /\ phase \in {"Opening", "Sending"} => files # <<>>
    /\ phase # "Idle" =>
          /\ result = "None"
          /\ DOMAIN job.sizes = IF job.kind = "Video" THEN {1, 2} ELSE {1}
          /\ \A file \in DOMAIN job.sizes : job.sizes[file] \in Nat

\* An upload in progress has a session, which has not failed, and is at one of
\* its endpoints.
SessionFits ==
    /\ Len(opened) \in Nat
    /\ opened # <<>> => Len(opened) > 0
    /\ phase = "Opening" => block = 0 /\ tried = 1
    /\ block \in Nat
    /\ phase = "Sending" => opened # <<>> /\ tried <= Len(opened)
    /\ spoiled => opened = <<>>

\* What QQ asked for and is not left to carry has been carried.
CarriedFits ==
    phase # "Idle" =>
        \A file \in wanted : Whole(file) \/ \E i \in DOMAIN files : files[i] = file

UploadInv == UploadTypeOK /\ FilesFit /\ SessionFits /\ CarriedFits /\ UploadsAreSound

-----------------------------------------------------------------------------
\* Plans, blocks and endpoints.
LEMMA TwoFiles == <<1>> \o <<2>> = <<1, 2>>
<1> DEFINE s == <<1>>
           t == <<2>>
           u == <<1, 2>>
<1>1. /\ s \in Seq(Nat) /\ t \in Seq(Nat) /\ u \in Seq(Nat)
      /\ Len(s) = 1 /\ Len(t) = 1 /\ Len(u) = 2
      /\ s[1] = 1 /\ t[1] = 2 /\ u[1] = 1 /\ u[2] = 2
  OBVIOUS
<1> HIDE DEF s, t, u
<1>2. /\ s \o t \in Seq(Nat) /\ Len(s \o t) = Len(s) + Len(t)
      /\ \A i \in 1 .. Len(s) + Len(t) :
           (s \o t)[i] = IF i <= Len(s) THEN s[i] ELSE t[i - Len(s)]
  BY <1>1, ConcatProperties
<1>3. Len(s \o t) = Len(u) /\ \A i \in 1 .. Len(s \o t) : (s \o t)[i] = u[i]
  BY <1>1, <1>2
<1>4. s \o t = u
  BY <1>1, <1>2, <1>3, SeqEqual
<1>5. QED
  BY <1>4 DEF s, t, u

\* The first file of a plan, and those behind it.
LEMMA PlansFit ==
  ASSUME NEW plan \in Plans, plan # <<>>
  PROVE  /\ Head(plan) \in {1, 2} /\ Tail(plan) \in Plans
         /\ \A i \in DOMAIN plan :
              plan[i] = Head(plan) \/ \E j \in DOMAIN Tail(plan) : Tail(plan)[j] = plan[i]
         /\ \A j \in DOMAIN Tail(plan) : \E i \in DOMAIN plan : plan[i] = Tail(plan)[j]
         /\ \E i \in DOMAIN plan : plan[i] = Head(plan)
<1>1. CASE plan = <<1>>
  BY <1>1 DEF Plans
<1>2. CASE plan = <<2>>
  BY <1>2 DEF Plans
<1>3. CASE plan = <<1, 2>>
  <2>1. Head(plan) = 1 /\ Tail(plan) = <<2>>
    BY <1>3
  <2>2. DOMAIN plan = {1, 2} /\ plan[1] = 1 /\ plan[2] = 2
    BY <1>3
  <2>3. DOMAIN <<2>> = {1} /\ <<2>>[1] = 2
    OBVIOUS
  <2>4. QED
    BY <2>1, <2>2, <2>3 DEF Plans
<1>4. QED
  BY <1>1, <1>2, <1>3 DEF Plans

\* The blocks of a file are as many as it takes.
LEMMA BlocksCarryAll ==
  ASSUME NEW size \in Nat, NEW n \in Nat
  PROVE  /\ n + 1 < Blocks(size) => (n + 1) * Chunk <= size
         /\ ~(n + 1 < Blocks(size)) => size <= (n + 1) * Chunk
         /\ n * Chunk \in Nat /\ (n + 1) * Chunk \in Nat
         /\ (n + 1) * Chunk = n * Chunk + Chunk
<1>1. Chunk \in Nat \ {0}
  BY UploadAssumption
<1> DEFINE q == (size + Chunk - 1) \div Chunk
           r == (size + Chunk - 1) % Chunk
<1>2. /\ q \in Nat /\ r \in 0 .. (Chunk - 1)
      /\ size + Chunk - 1 = q * Chunk + r
  BY <1>1, SMTT(60)
<1>3. Blocks(size) = q
  BY DEF Blocks
<1> HIDE DEF q, r
<1>4. /\ n * Chunk \in Nat /\ (n + 1) * Chunk \in Nat
      /\ (n + 1) * Chunk = n * Chunk + Chunk
  BY <1>1, SMTT(30)
<1>5. ASSUME n + 1 < q PROVE (n + 1) * Chunk <= size
  <2>1. (n + 1) * Chunk <= (q - 1) * Chunk
    BY <1>1, <1>2, <1>5, SMTT(30)
  <2>2. (q - 1) * Chunk = q * Chunk - Chunk
    BY <1>1, <1>2, SMTT(30)
  <2>3. q * Chunk \in Nat /\ (n + 1) * Chunk \in Nat
    BY <1>1, <1>2, SMTT(30)
  <2>4. QED
    BY <1>1, <1>2, <2>1, <2>2, <2>3
<1>6. ASSUME ~(n + 1 < q) PROVE size <= (n + 1) * Chunk
  <2>1. q * Chunk <= (n + 1) * Chunk
    BY <1>1, <1>2, <1>6, SMTT(30)
  <2>2. q * Chunk \in Nat /\ (n + 1) * Chunk \in Nat
    BY <1>1, <1>2, SMTT(30)
  <2>3. QED
    BY <1>1, <1>2, <2>1, <2>2
<1>7. QED
  BY <1>3, <1>4, <1>5, <1>6

\* However many endpoints a session answer offers, MaxEndpoints are kept: the
\* last one that is kept was not beyond that number.
LEMMA EndpointsBounded ==
  ASSUME NEW offer \in Candidates
  PROVE  /\ Len(Endpoints(offer)) \in Nat /\ Len(Endpoints(offer)) <= MaxEndpoints
         /\ Endpoints(offer) # <<>> => Len(Endpoints(offer)) > 0
<1> DEFINE Chosen == Keeps(offer)
           k == Cardinality(Chosen)
           First(i) == offer[i].usable /\ \A j \in 1 .. (i - 1) : offer[j] # offer[i]
           Firsts(i) == {j \in 1 .. i : First(j)}
<1>1. /\ Len(offer) \in Nat /\ DOMAIN offer = 1 .. Len(offer)
      /\ MaxEndpoints \in Nat
  BY UploadAssumption
<1>2. /\ Chosen \in SUBSET (1 .. Len(offer))
      /\ \A i \in Chosen : First(i) /\ Cardinality(Firsts(i)) <= MaxEndpoints
  BY <1>1 DEF Keeps
<1>3. IsFiniteSet(Chosen) /\ k \in Nat
  <2>1. IsFiniteSet(1 .. Len(offer))
    BY <1>1, FS_Interval
  <2> HIDE DEF Chosen
  <2>2. QED
    BY <1>2, <2>1, FS_Subset, FS_CardinalityType
<1>4. k <= MaxEndpoints
  <2>1. CASE Chosen = {}
    BY <1>1, <2>1, FS_EmptySet
  <2>2. CASE Chosen # {}
    <3> DEFINE before == {pair \in Chosen \X Chosen : pair[2] < pair[1]}
    <3>1. Orders(before, Chosen)
      <4>1. Chosen \in SUBSET Nat
        BY <1>1, <1>2
      <4> HIDE DEF Chosen
      <4>2. \A x, y \in Chosen : <<x, y>> \in before <=> y < x
        OBVIOUS
      <4> HIDE DEF before
      <4>3. QED
        BY <4>1, <4>2 DEF Orders
    <3>0. /\ \A x, y \in Chosen : <<x, y>> \in before <=> y < x
          /\ Chosen \in SUBSET Nat
      BY <1>1, <1>2
    <3> HIDE DEF Chosen, before
    <3>2. PICK m \in Chosen : \A i \in Chosen : i # m => <<m, i>> \in before
      BY <1>3, <2>2, <3>1, FirstExists
    <3>3. Chosen \in SUBSET Firsts(m)
      <4>1. ASSUME NEW i \in Chosen PROVE i <= m
        <5>1. i \in Nat /\ m \in Nat
          BY <3>0
        <5>2. i = m \/ i < m
          BY <3>0, <3>2
        <5>3. QED
          BY <5>1, <5>2
      <4>2. \A i \in Chosen : i \in 1 .. m
        BY <1>1, <1>2, <4>1
      <4>3. QED
        BY <1>2, <4>2
    <3>4. IsFiniteSet(Firsts(m))
      <4>1. m \in Nat
        BY <1>1, <1>2
      <4>2. IsFiniteSet(1 .. m) /\ Firsts(m) \in SUBSET (1 .. m)
        BY <4>1, FS_Interval
      <4> HIDE DEF Firsts
      <4>3. QED
        BY <4>2, FS_Subset
    <3>5. Cardinality(Firsts(m)) <= MaxEndpoints
      BY <1>2
    <3> HIDE DEF Firsts
    <3>6. k <= Cardinality(Firsts(m)) /\ Cardinality(Firsts(m)) \in Nat
      BY <3>3, <3>4, FS_Subset, FS_CardinalityType
    <3>7. QED
      BY <1>1, <1>3, <3>5, <3>6
  <2>3. QED
    BY <2>1, <2>2
<1>5. Len(Endpoints(offer)) = k /\ (Endpoints(offer) # <<>> => k > 0)
  <2>1. Endpoints(offer) = [n \in 1 .. k |-> Endpoints(offer)[n]]
    BY DEF Endpoints
  <2> HIDE DEF k
  <2>2. DOMAIN Endpoints(offer) = 1 .. k
    BY <2>1
  <2>3. Endpoints(offer) \in Seq({Endpoints(offer)[n] : n \in 1 .. k})
    BY <1>3, <2>1
  <2>4. Len(Endpoints(offer)) = k
    BY <1>3, <2>2, <2>3
  <2>5. Endpoints(offer) # <<>> => Len(Endpoints(offer)) \in Nat \ {0}
    BY <2>3, EmptySeq
  <2>6. QED
    BY <2>4, <2>5
<1>6. QED
  BY <1>3, <1>4, <1>5

-----------------------------------------------------------------------------
\* What QQ has taken of the files of a job it keeps.
LEMMA CoverageStays ==
  ASSUME held \subseteq held', NEW file, NEW unit, Covered(file, unit)
  PROVE  Covered(file, unit)'
BY DEF Covered

LEMMA WholeStays ==
  ASSUME job' = job, held \subseteq held', NEW file, Whole(file)
  PROVE  Whole(file)'
<1>1. SizeOf(file)' = SizeOf(file)
  BY DEF SizeOf
<1>2. QED
  BY <1>1, CoverageStays DEF Whole

\* An upload that fails.
LEMMA EndsInv ==
  ASSUME UploadInv, NEW how, Ends(how), how = "Failed",
         UNCHANGED <<job, held, wanted>>,
         \/ UNCHANGED <<opened, spoiled>>
         \/ opened' = <<>>
  PROVE  UploadInv'
<1>1. UploadTypeOK' /\ FilesFit' /\ SessionFits' /\ CarriedFits'
  <2>1. MaxEndpoints \in Nat \ {0} /\ Len(<<>>) = 0
    BY UploadAssumption
  <2>2. UploadTypeOK'
    BY <2>1 DEF UploadInv, UploadTypeOK, Ends, Phases
  <2>3. FilesFit'
    BY DEF FilesFit, Ends, Plans
  <2>4. SessionFits'
    BY <2>1 DEF UploadInv, SessionFits, Ends
  <2>5. CarriedFits'
    BY DEF CarriedFits, Ends
  <2>6. QED
    BY <2>2, <2>3, <2>4, <2>5
<1>2. UploadsAreSound'
  BY <1>1 DEF UploadsAreSound, DoneMeansWhole, BlocksInOrder, FailedSessionIsDropped,
     Ends
<1>3. QED
  BY <1>1, <1>2 DEF UploadInv

LEMMA AskInv == ASSUME UploadInv, Ask PROVE UploadInv'
<1>1. phase = "Idle" /\ files = <<>> /\ UNCHANGED <<opened, aged, spoiled>>
  BY DEF Ask, UploadInv, FilesFit
<1> PICK kind \in Kinds, source \in Sources, readable \in BOOLEAN :
      \E size \in Obtained(source) :
        /\ job' = [kind |-> kind, sizes |-> Sizes(kind, size)]
        /\ held' = {}
        /\ IF readable /\ size > 0
           THEN /\ phase' = IF Negotiated(kind) THEN "Negotiating" ELSE "Carrying"
                /\ files' = IF Negotiated(kind) THEN <<>> ELSE <<1>>
                /\ wanted' = IF Negotiated(kind) THEN {} ELSE {1}
                /\ result' = "None"
                /\ UNCHANGED <<block, tried>>
           ELSE Ends("Failed") /\ wanted' = {}
  BY DEF Ask
<1>2. PICK size \in Obtained(source) :
        /\ job' = [kind |-> kind, sizes |-> Sizes(kind, size)]
        /\ held' = {}
        /\ IF readable /\ size > 0
           THEN /\ phase' = IF Negotiated(kind) THEN "Negotiating" ELSE "Carrying"
                /\ files' = IF Negotiated(kind) THEN <<>> ELSE <<1>>
                /\ wanted' = IF Negotiated(kind) THEN {} ELSE {1}
                /\ result' = "None"
                /\ UNCHANGED <<block, tried>>
           ELSE Ends("Failed") /\ wanted' = {}
  OBVIOUS
<1>3. size \in Nat
  BY UploadAssumption DEF Obtained
<1>4. /\ DOMAIN job'.sizes = IF job'.kind = "Video" THEN {1, 2} ELSE {1}
      /\ \A file \in DOMAIN job'.sizes : job'.sizes[file] \in Nat
      /\ job'.kind = kind
  <2>1. job'.kind = kind /\ job'.sizes = Sizes(kind, size)
    BY <1>2
  <2>2. CASE kind = "Video"
    BY <1>3, <2>1, <2>2 DEF Sizes
  <2>3. CASE kind # "Video"
    BY <1>3, <2>1, <2>3 DEF Sizes
  <2>4. QED
    BY <2>1, <2>2, <2>3
<1>5. CASE readable /\ size > 0 /\ Negotiated(kind)
  <2>1. /\ phase' = "Negotiating" /\ files' = <<>> /\ wanted' = {} /\ result' = "None"
        /\ UNCHANGED <<block, tried>>
    BY <1>2, <1>5
  <2>2. QED
    BY <1>1, <1>2, <1>4, <2>1 DEF UploadInv, UploadTypeOK, Phases, FilesFit, Plans,
       SessionFits, CarriedFits, UploadsAreSound, DoneMeansWhole, BlocksInOrder,
       FailedSessionIsDropped
<1>6. CASE readable /\ size > 0 /\ ~Negotiated(kind)
  <2>1. /\ phase' = "Carrying" /\ files' = <<1>> /\ wanted' = {1} /\ result' = "None"
        /\ UNCHANGED <<block, tried>>
    BY <1>2, <1>6
  <2>2. /\ \A i \in DOMAIN files' : files'[i] = 1
        /\ \E i \in DOMAIN files' : files'[i] = 1
        /\ 1 \in DOMAIN job'.sizes /\ files' \in Plans
    BY <1>4, <2>1 DEF Plans
  <2>3. QED
    BY <1>1, <1>2, <1>4, <2>1, <2>2 DEF UploadInv, UploadTypeOK, Phases, FilesFit,
       SessionFits, CarriedFits, UploadsAreSound, DoneMeansWhole, BlocksInOrder,
       FailedSessionIsDropped
<1>7. CASE ~(readable /\ size > 0)
  <2>1. /\ phase' = "Idle" /\ files' = <<>> /\ block' = 0 /\ tried' = 1
        /\ result' = "Failed"
    BY <1>2, <1>7 DEF Ends
  <2>2. MaxEndpoints \in Nat \ {0}
    BY UploadAssumption
  <2>3. QED
    BY <1>1, <1>2, <1>4, <2>1, <2>2 DEF UploadInv, UploadTypeOK, Phases, FilesFit, Plans,
       SessionFits, CarriedFits, UploadsAreSound, DoneMeansWhole, BlocksInOrder,
       FailedSessionIsDropped
<1>8. QED
  BY <1>5, <1>6, <1>7

LEMMA NegotiationInv == ASSUME UploadInv, NegotiationAnswered PROVE UploadInv'
<1>1. /\ phase = "Negotiating" /\ files = <<>> /\ result = "None"
      /\ DOMAIN job.sizes = IF job.kind = "Video" THEN {1, 2} ELSE {1}
      /\ \A file \in DOMAIN job.sizes : job.sizes[file] \in Nat
      /\ UNCHANGED <<job, opened, aged, held, spoiled>>
  BY DEF NegotiationAnswered, UploadInv, FilesFit
<1>2. PICK reply \in Replies :
        IF FitsRequest(job.kind, reply)
        THEN /\ phase' = "Carrying"
             /\ files' = Plan(job.kind, reply)
             /\ wanted' = {files'[i] : i \in DOMAIN files'}
             /\ UNCHANGED <<block, tried, result>>
        ELSE Ends("Failed") /\ UNCHANGED wanted
  BY DEF NegotiationAnswered
<1>3. CASE FitsRequest(job.kind, reply)
  <2>1. /\ phase' = "Carrying" /\ files' = Plan(job.kind, reply)
        /\ wanted' = {files'[i] : i \in DOMAIN files'}
        /\ UNCHANGED <<block, tried, result>>
    BY <1>2, <1>3
  <2> PICK some : some = \E j \in DOMAIN reply.subs : reply.subs[j].key
    OBVIOUS
  <2>2. files' \in Plans /\ (~some => files' = <<>> \/ files' = <<1>>)
    <3>1. files' = (IF reply.key THEN <<1>> ELSE <<>>) \o (IF some THEN <<2>> ELSE <<>>)
      BY <2>1 DEF Plan
    <3>2. \A s \in Seq(Nat) : s \o <<>> = s /\ <<>> \o s = s
      BY ConcatEmptySeq
    <3>3. <<1>> \in Seq(Nat) /\ <<2>> \in Seq(Nat) /\ <<>> \in Seq(Nat)
      OBVIOUS
    <3>4. <<1>> \o <<2>> = <<1, 2>>
      BY TwoFiles
    <3>5. QED
      BY <3>1, <3>2, <3>3, <3>4 DEF Plans
  <2>3. (\E j \in DOMAIN reply.subs : reply.subs[j].key) => job.kind = "Video"
    <3>1. Len(reply.subs) = Len(SubFiles(job.kind))
      BY <1>3 DEF FitsRequest
    <3>2. job.kind # "Video" => Len(reply.subs) = 0
      BY <3>1 DEF SubFiles
    <3>3. reply.subs = <<>> \/ \E sub : reply.subs = <<sub>>
      BY DEF Replies
    <3>4. \A sub : Len(<<sub>>) = 1
      OBVIOUS
    <3>5. QED
      BY <3>2, <3>3, <3>4
  <2>4. \A i \in DOMAIN files' : files'[i] \in DOMAIN job.sizes
    <3>1. files' = <<>> \/ files' = <<1>> \/ job.kind = "Video"
      BY <2>2, <2>3
    <3>2. \A i \in DOMAIN files' : files'[i] \in {1, 2}
      BY <2>2 DEF Plans
    <3>3. files' = <<1>> => \A i \in DOMAIN files' : files'[i] = 1
      OBVIOUS
    <3>4. QED
      BY <1>1, <3>1, <3>2, <3>3
  <2>5. QED
    BY <1>1, <2>1, <2>2, <2>4 DEF UploadInv, UploadTypeOK, Phases, FilesFit,
       SessionFits, CarriedFits, UploadsAreSound, DoneMeansWhole, BlocksInOrder,
       FailedSessionIsDropped
<1>4. CASE ~FitsRequest(job.kind, reply)
  <2>1. Ends("Failed") /\ UNCHANGED wanted
    BY <1>2, <1>4
  <2>2. QED
    BY <1>1, <2>1, EndsInv
<1>5. QED
  BY <1>3, <1>4

\* An upload that succeeds had nothing left to carry.
LEMMA DoneInv ==
  ASSUME UploadInv, phase \in {"Carrying", "Downloading"}, files = <<>>, Ends("Done"),
         UNCHANGED <<job, opened, aged, held, wanted, spoiled>>
  PROVE  UploadInv'
<1>1. /\ phase' = "Idle" /\ files' = <<>> /\ block' = 0 /\ tried' = 1
      /\ result' = "Done" /\ MaxEndpoints \in Nat \ {0}
  BY UploadAssumption DEF Ends
<1>2. DoneMeansWhole'
  <2>1. \A file \in wanted : Whole(file)
    BY DEF UploadInv, CarriedFits
  <2>2. \A file : Whole(file) => Whole(file)'
    <3>1. job' = job /\ held \subseteq held'
      OBVIOUS
    <3>2. QED
      BY <3>1, WholeStays
  <2>3. QED
    BY <2>1, <2>2 DEF DoneMeansWhole, Whole
<1>3. QED
  BY <1>1, <1>2 DEF UploadInv, UploadTypeOK, Phases, FilesFit, Plans,
     SessionFits, CarriedFits, UploadsAreSound, BlocksInOrder, FailedSessionIsDropped

LEMMA AllCarriedInv == ASSUME UploadInv, AllCarried PROVE UploadInv'
<1>1. CASE job.kind = "PictureUrl"
  <2>1. /\ phase = "Carrying" /\ files = <<>> /\ phase' = "Downloading"
        /\ UNCHANGED <<files, block, tried, result, job, opened, aged, held, wanted,
                       spoiled>>
    BY <1>1 DEF AllCarried
  <2>2. \A file : Whole(file) => Whole(file)'
    <3>1. job' = job /\ held \subseteq held'
      BY <2>1
    <3>2. QED
      BY <3>1, WholeStays
  <2>3. CarriedFits'
    BY <2>1, <2>2 DEF UploadInv, CarriedFits
  <2>4. QED
    BY <2>1, <2>3 DEF UploadInv, UploadTypeOK, Phases, FilesFit,
       SessionFits, UploadsAreSound, DoneMeansWhole, BlocksInOrder,
       FailedSessionIsDropped
<1>2. CASE job.kind # "PictureUrl"
  BY <1>2, DoneInv DEF AllCarried
<1>3. QED
  BY <1>1, <1>2

LEMMA NextFileInv == ASSUME UploadInv, NextFile PROVE UploadInv'
<1>1. /\ phase = "Carrying" /\ files # <<>> /\ block' = 0 /\ tried' = 1
      /\ phase' = IF opened # <<>> /\ ~aged THEN "Sending" ELSE "Opening"
      /\ UNCHANGED <<job, files, opened, aged, held, wanted, spoiled, result>>
      /\ Chunk \in Nat \ {0} /\ MaxEndpoints \in Nat \ {0}
  BY UploadAssumption DEF NextFile
<1>2. phase' = "Sending" => opened # <<>> /\ ~spoiled /\ tried' <= Len(opened)
  BY <1>1 DEF UploadInv, SessionFits
<1>3. CarriedFits'
  <2>1. ASSUME NEW file, Whole(file) PROVE Whole(file)'
    BY <1>1, <2>1, WholeStays
  <2>2. QED
    BY <1>1, <2>1 DEF UploadInv, CarriedFits
<1>4. FilesFit'
  BY <1>1 DEF UploadInv, FilesFit
<1>5. UploadTypeOK' /\ SessionFits'
  BY <1>1, <1>2 DEF UploadInv, UploadTypeOK, Phases, SessionFits
<1>6. UploadsAreSound'
  <2>1. block' * Chunk' - 1 = -1
    BY <1>1
  <2>2. BlocksInOrder'
    BY <2>1 DEF BlocksInOrder
  <2>3. DoneMeansWhole'
    BY <1>1, <1>4 DEF FilesFit, DoneMeansWhole
  <2>4. QED
    BY <1>2, <1>5, <2>2, <2>3, <1>1 DEF UploadsAreSound, FailedSessionIsDropped
<1>7. QED
  BY <1>3, <1>4, <1>5, <1>6 DEF UploadInv

LEMMA SessionAnsweredInv == ASSUME UploadInv, SessionAnswered PROVE UploadInv'
<1>1. phase = "Opening" /\ files # <<>> /\ UNCHANGED <<job, held, wanted>>
  BY DEF SessionAnswered, UploadInv, FilesFit
<1>2. PICK offer \in Candidates :
        IF Endpoints(offer) = <<>>
        THEN Ends("Failed") /\ UNCHANGED <<opened, aged, spoiled>>
        ELSE /\ phase' = "Sending"
             /\ opened' = Endpoints(offer)
             /\ aged' = FALSE
             /\ spoiled' = FALSE
             /\ UNCHANGED <<files, block, tried, result>>
  BY DEF SessionAnswered
<1>3. CASE Endpoints(offer) = <<>>
  <2>1. Ends("Failed") /\ UNCHANGED <<opened, spoiled>>
    BY <1>2, <1>3
  <2>2. QED
    BY <1>1, <2>1, EndsInv
<1>4. CASE Endpoints(offer) # <<>>
  <2>1. /\ phase' = "Sending" /\ opened' = Endpoints(offer) /\ spoiled' = FALSE
        /\ UNCHANGED <<files, block, tried, result>>
    BY <1>2, <1>4
  <2>2. /\ opened' # <<>> /\ Len(opened') \in Nat /\ Len(opened') > 0
        /\ Len(opened') <= MaxEndpoints
    BY <1>4, <2>1, EndpointsBounded
  <2>3. block = 0 /\ tried = 1
    BY <1>1 DEF UploadInv, SessionFits
  <2>4. UploadTypeOK' /\ SessionFits'
    BY <1>1, <2>1, <2>2, <2>3 DEF UploadInv, UploadTypeOK, Phases, SessionFits
  <2>5. FilesFit'
    BY <1>1, <2>1 DEF UploadInv, FilesFit
  <2>6. CarriedFits'
    <3>1. ASSUME NEW file, Whole(file) PROVE Whole(file)'
      <4>1. job' = job /\ held \subseteq held'
        BY <1>1
      <4>2. QED
        BY <3>1, <4>1, WholeStays
    <3>2. QED
      BY <1>1, <2>1, <3>1 DEF UploadInv, CarriedFits
  <2>7. UploadsAreSound'
    <3>1. block' * Chunk' - 1 = -1
      BY <2>1, <2>3, UploadAssumption
    <3>2. BlocksInOrder'
      BY <3>1 DEF BlocksInOrder
    <3>3. DoneMeansWhole'
      BY <2>1, <2>5 DEF FilesFit, DoneMeansWhole
    <3>4. QED
      BY <2>1, <2>4, <3>2, <3>3 DEF UploadsAreSound, FailedSessionIsDropped
  <2>8. QED
    BY <2>4, <2>5, <2>6, <2>7 DEF UploadInv
<1>5. QED
  BY <1>3, <1>4

\* What one more block adds to the file in flight.
LEMMA PieceCovers ==
  ASSUME UploadInv, phase = "Sending", job' = job, Took,
         NEW file, file = Head(files), NEW unit \in Nat,
         unit < (block + 1) * Chunk, unit < SizeOf(file)
  PROVE  Covered(file, unit)'
<1>1. /\ file \in DOMAIN job.sizes /\ SizeOf(file) \in Nat /\ block \in Nat
      /\ Chunk \in Nat \ {0} /\ files # <<>>
  <2>1. files # <<>> /\ files \in Plans
    BY DEF UploadInv, FilesFit
  <2>2. \E i \in DOMAIN files : files[i] = file
    BY <2>1, PlansFit
  <2>3. QED
    BY <2>1, <2>2, UploadAssumption DEF UploadInv, UploadTypeOK, FilesFit, SessionFits, SizeOf
<1>2. block * Chunk \in Nat /\ (block + 1) * Chunk = block * Chunk + Chunk
  BY <1>1, BlocksCarryAll
<1>3. CASE unit < block * Chunk
  <2>1. Covered(file, unit)
    BY <1>2, <1>3 DEF UploadInv, UploadsAreSound, BlocksInOrder
  <2>2. held \subseteq held'
    BY DEF Took
  <2>3. QED
    BY <2>1, <2>2, CoverageStays
<1>4. CASE ~(unit < block * Chunk)
  <2> PICK piece : piece = Piece(file, block)
    OBVIOUS
  <2>1. /\ piece.file = file /\ piece.first = block * Chunk
        /\ piece.length = IF (block + 1) * Chunk <= SizeOf(file)
                          THEN Chunk ELSE SizeOf(file) - block * Chunk
    BY DEF Piece
  <2>2. piece.first <= unit /\ unit < piece.first + piece.length
    <3> DEFINE start == block * Chunk
               end == (block + 1) * Chunk
               size == SizeOf(file)
    <3>1. /\ start \in Nat /\ Chunk \in Nat /\ end = start + Chunk /\ size \in Nat
          /\ start <= unit /\ unit < end /\ unit < size
      BY <1>1, <1>2, <1>4
    <3>2. piece.first = start /\ piece.length = IF end <= size THEN Chunk ELSE size - start
      BY <2>1
    <3> HIDE DEF start, end, size
    <3> QED
      BY <3>1, <3>2
  <2>3. piece \in held'
    BY DEF Took
  <2>4. QED
    BY <2>1, <2>2, <2>3 DEF Covered
<1>5. QED
  BY <1>3, <1>4

\* The block is the last one of its file, or the next one follows it.
LEMMA BlockTakenInv == ASSUME UploadInv, BlockTaken PROVE UploadInv'
<1> PICK file : file = Head(files)
  OBVIOUS
<1>1. /\ phase = "Sending" /\ Took /\ tried' = 1 /\ files \in Plans /\ files # <<>>
      /\ UNCHANGED <<job, opened, aged, wanted, spoiled, result>>
      /\ result = "None" /\ held \subseteq held'
  BY DEF BlockTaken, UploadInv, FilesFit, Took
<1>2. /\ Tail(files) \in Plans
      /\ \A i \in DOMAIN files :
           files[i] = file \/ \E j \in DOMAIN Tail(files) : Tail(files)[j] = files[i]
      /\ \A j \in DOMAIN Tail(files) : \E i \in DOMAIN files : files[i] = Tail(files)[j]
      /\ \E i \in DOMAIN files : files[i] = file
  BY <1>1, PlansFit
<1>3. /\ SizeOf(file) \in Nat /\ block \in Nat
      /\ Chunk \in Nat \ {0} /\ MaxEndpoints \in Nat \ {0} /\ Len(opened) \in Nat
      /\ Len(opened) > 0 /\ opened # <<>>
  BY <1>1, <1>2, UploadAssumption DEF UploadInv, UploadTypeOK, FilesFit, SessionFits, SizeOf
<1>4. ASSUME NEW unit \in Nat, unit < (block + 1) * Chunk, unit < SizeOf(file)
      PROVE  Covered(file, unit)'
  BY <1>1, <1>4, PieceCovers
<1>5. ASSUME NEW other, Whole(other) PROVE Whole(other)'
  BY <1>1, <1>5, WholeStays
<1>6. CASE block + 1 < Blocks(SizeOf(file))
  <2>1. block' = block + 1 /\ UNCHANGED <<phase, files>>
    BY <1>6 DEF BlockTaken
  <2>2. UploadTypeOK' /\ SessionFits'
    BY <1>1, <1>3, <2>1 DEF UploadInv, UploadTypeOK, SessionFits
  <2>3. FilesFit' /\ CarriedFits'
    BY <1>1, <1>5, <2>1 DEF UploadInv, FilesFit, CarriedFits
  <2>4. BlocksInOrder'
    <3>1. (block + 1) * Chunk <= SizeOf(file) /\ (block + 1) * Chunk \in Nat
      BY <1>3, <1>6, BlocksCarryAll
    <3>2. ASSUME NEW unit \in 0 .. ((block + 1) * Chunk - 1) PROVE Covered(file, unit)'
      <4>1. unit \in Nat /\ unit < (block + 1) * Chunk /\ unit < SizeOf(file)
        BY <1>3, <3>1
      <4>2. QED
        BY <1>4, <4>1
    <3>3. block' = block + 1 /\ Head(files') = file
      BY <2>1
    <3>4. QED
      BY <3>2, <3>3 DEF BlocksInOrder
  <2>5. UploadsAreSound'
    BY <1>1, <2>1, <2>2, <2>4 DEF UploadInv, UploadsAreSound, DoneMeansWhole,
       FailedSessionIsDropped
  <2>6. QED
    BY <2>2, <2>3, <2>5 DEF UploadInv
<1>7. CASE ~(block + 1 < Blocks(SizeOf(file)))
  <2>1. phase' = "Carrying" /\ files' = Tail(files) /\ block' = 0
    BY <1>7 DEF BlockTaken
  <2>2. Whole(file)'
    <3>1. (block + 1) * Chunk \in Nat /\ SizeOf(file) <= (block + 1) * Chunk
      BY <1>3, <1>7, BlocksCarryAll
    <3>2. ASSUME NEW unit \in 0 .. (SizeOf(file) - 1) PROVE Covered(file, unit)'
      <4>1. unit \in Nat /\ unit < (block + 1) * Chunk /\ unit < SizeOf(file)
        BY <1>3, <3>1
      <4>2. QED
        BY <1>4, <4>1
    <3>3. SizeOf(file)' = SizeOf(file)
      BY <1>1 DEF SizeOf
    <3>4. QED
      BY <3>2, <3>3 DEF Whole
  <2>3. CarriedFits'
    <3>1. ASSUME NEW other \in wanted
          PROVE  Whole(other)' \/ \E j \in DOMAIN files' : files'[j] = other
      <4>1. Whole(other) \/ \E i \in DOMAIN files : files[i] = other
        BY <1>1 DEF UploadInv, CarriedFits
      <4>2. CASE other = file
        BY <2>2, <4>2
      <4>3. CASE other # file
        BY <1>2, <1>5, <2>1, <4>1, <4>3
      <4>4. QED
        BY <4>2, <4>3
    <3>2. QED
      BY <1>1, <3>1 DEF CarriedFits
  <2>4. UploadTypeOK' /\ SessionFits'
    BY <1>1, <1>2, <1>3, <2>1 DEF UploadInv, UploadTypeOK, Phases, SessionFits
  <2>5. FilesFit'
    BY <1>1, <1>2, <2>1 DEF UploadInv, FilesFit
  <2>6. UploadsAreSound'
    BY <1>1, <2>1, <2>4 DEF UploadsAreSound, DoneMeansWhole, BlocksInOrder,
       FailedSessionIsDropped
  <2>7. QED
    BY <2>3, <2>4, <2>5, <2>6 DEF UploadInv
<1>8. QED
  BY <1>6, <1>7

LEMMA AbandonInv ==
  ASSUME UploadInv, AbandonUpload, UNCHANGED <<job, wanted>>
  PROVE  UploadInv'
<1>1. /\ phase' = "Idle" /\ files' = <<>> /\ block' = 0 /\ tried' = 1
      /\ result' = "Failed" /\ opened' = <<>> /\ MaxEndpoints \in Nat \ {0}
  BY UploadAssumption DEF AbandonUpload, Ends
<1>2. QED
  BY <1>1 DEF UploadInv, UploadTypeOK, Phases, FilesFit, Plans,
     SessionFits, CarriedFits, UploadsAreSound, DoneMeansWhole, BlocksInOrder,
     FailedSessionIsDropped

LEMMA BlockUnansweredInv == ASSUME UploadInv, BlockUnanswered PROVE UploadInv'
<1>1. phase = "Sending" /\ UNCHANGED <<job, wanted>> /\ held \subseteq held'
  BY DEF BlockUnanswered, Took
<1>2. CASE tried < Len(opened)
  <2>1. tried' = tried + 1 /\ UNCHANGED <<phase, files, opened, aged, block, spoiled, result>>
    BY <1>2 DEF BlockUnanswered
  <2>2. UploadTypeOK' /\ SessionFits'
    BY <1>1, <1>2, <2>1, UploadAssumption DEF UploadInv, UploadTypeOK, SessionFits
  <2>3. ASSUME NEW file, Whole(file) PROVE Whole(file)'
    BY <1>1, <2>3, WholeStays
  <2>4. FilesFit' /\ CarriedFits'
    BY <1>1, <2>1, <2>3 DEF UploadInv, FilesFit, CarriedFits
  <2>5. BlocksInOrder'
    <3>1. ASSUME NEW file, NEW unit, Covered(file, unit) PROVE Covered(file, unit)'
      BY <1>1, <3>1, CoverageStays
    <3>2. QED
      BY <1>1, <2>1, <3>1 DEF UploadInv, UploadsAreSound, BlocksInOrder
  <2>6. result' = "None"
    BY <1>1, <2>1 DEF UploadInv, FilesFit
  <2>7. UploadsAreSound'
    BY <2>1, <2>2, <2>5, <2>6 DEF UploadInv, UploadsAreSound, DoneMeansWhole,
       FailedSessionIsDropped
  <2>8. QED
    BY <2>2, <2>4, <2>7 DEF UploadInv
<1>3. CASE ~(tried < Len(opened))
  BY <1>1, <1>3, AbandonInv DEF BlockUnanswered
<1>4. QED
  BY <1>2, <1>3

\* A session that ages, and steps of other parts of the account.
LEMMA AgingInv ==
  ASSUME UploadInv,
         UNCHANGED <<phase, job, files, opened, block, tried, held, wanted, spoiled, result>>
  PROVE  UploadInv'
<1>1. ASSUME NEW file, NEW unit PROVE Covered(file, unit)' = Covered(file, unit)
  BY DEF Covered
<1>2. ASSUME NEW file PROVE SizeOf(file)' = SizeOf(file)
  BY DEF SizeOf
<1>3. UploadTypeOK' /\ FilesFit' /\ SessionFits'
  BY DEF UploadInv, UploadTypeOK, FilesFit, SessionFits
<1>4. CarriedFits'
  <2>1. ASSUME NEW file, Whole(file) PROVE Whole(file)'
    BY <1>1, <1>2, <2>1 DEF Whole
  <2>2. QED
    BY <2>1 DEF UploadInv, CarriedFits
<1>5. UploadsAreSound'
  BY <1>1, <1>2, <1>3 DEF UploadInv, UploadsAreSound, DoneMeansWhole, BlocksInOrder,
     FailedSessionIsDropped
<1>6. QED
  BY <1>3, <1>4, <1>5 DEF UploadInv

\* Uploads bring QQ the whole of every file it asked for, whatever QQ answers,
\* whichever endpoints take the blocks (HighwayClient::upload, send_block), and
\* no upload goes on over a session that has failed (upload_bytes).
THEOREM UploadsAreSoundCorrect == UploadSpec => []UploadsAreSound
<1>1. UploadInit => UploadInv
  <2>1. MaxEndpoints \in Nat \ {0} /\ Len(<<>>) = 0
    BY UploadAssumption
  <2>2. QED
    BY <2>1 DEF UploadInit, NoJob, UploadInv, UploadTypeOK, Phases, Kinds, FilesFit, Plans,
       SessionFits, CarriedFits, UploadsAreSound, DoneMeansWhole, BlocksInOrder,
       FailedSessionIsDropped
<1>2. UploadInv /\ [UploadNext]_uploadVars => UploadInv'
  <2> SUFFICES ASSUME UploadInv, [UploadNext]_uploadVars PROVE UploadInv'
    OBVIOUS
  <2>1. CASE Ask
    BY <2>1, AskInv
  <2>2. CASE Refused
    BY <2>2, EndsInv DEF Refused
  <2>3. CASE NegotiationAnswered
    BY <2>3, NegotiationInv
  <2>4. CASE AllCarried
    BY <2>4, AllCarriedInv
  <2>5. CASE DownloadAnswered
    <3>1. files = <<>> /\ phase = "Downloading"
      BY <2>5 DEF DownloadAnswered, UploadInv, FilesFit
    <3>2. QED
      BY <2>5, <3>1, DoneInv DEF DownloadAnswered
  <2>6. CASE NextFile
    BY <2>6, NextFileInv
  <2>7. CASE SessionAnswered
    BY <2>7, SessionAnsweredInv
  <2>8. CASE BlockTaken
    BY <2>8, BlockTakenInv
  <2>9. CASE BlockUnanswered
    BY <2>9, BlockUnansweredInv
  <2>10. CASE BlockRejected
    BY <2>10, AbandonInv DEF BlockRejected
  <2>11. CASE SessionAges
    BY <2>11, AgingInv DEF SessionAges
  <2>12. CASE UNCHANGED uploadVars
    BY <2>12, AgingInv DEF uploadVars
  <2>13. QED
    BY <2>1, <2>2, <2>3, <2>4, <2>5, <2>6, <2>7, <2>8, <2>9, <2>10, <2>11, <2>12
       DEF UploadNext
<1>3. UploadInv => UploadsAreSound
  BY DEF UploadInv
<1>4. QED
  BY <1>1, <1>2, <1>3, PTL DEF UploadSpec

-----------------------------------------------------------------------------
(* What becomes of the events.  A request is published with a record that   *)
(* was found some steps before, while QQ's list went on growing and others  *)
(* answered: LookupIsTrue keeps that the record is the one signalled.       *)

EveryKind == EventKinds \union {"UnknownChange", "Message"}

\* An event of a kind the code knows, that says of a request what QQ can say.
Tellable(e) ==
  /\ e.kind \in EveryKind
  /\ e.kind = "Join" => e.by = Nobody
  /\ e.kind = "SelfInvitation" => e.who = Self

Signal ==
  {e \in [kind : EveryKind, who : Uid \union {Self, Nobody}, by : Uid \union {Nobody},
          message : Message \union {Nobody}] : Tellable(e)}

\* What QQ keeps of a request names an inviter only when there is one, and
\* this account when somebody invites it.
OnRecord(r) ==
  /\ r.kind = "Join" => r.by = Nobody
  /\ r.kind = "SelfInvitation" => r.asker = Self

RequestRecord ==
  {r \in [kind : Requests \union {"FriendRequest"}, asker : Uid \union {Self},
          by : Uid \union {Nobody}, pending : BOOLEAN] : OnRecord(r)}

EventsTypeOK == waiting \in Seq(Signal) /\ asking \in Seq(RequestRecord) /\ members \subseteq Uid

\* Whom a request signalled concerns is on its record.
Signalled(e, r) == r.kind = e.kind /\ r.asker = e.who /\ r.by = e.by

\* The event under way is one QQ signalled, and the record found for it still
\* is the one it spoke of.
LookupIsTrue ==
  \/ step = NoLookup
  \/ /\ step.event \in Signal /\ {"at", "event", "record"} \subseteq DOMAIN step
     /\ step.event.kind \in Requests =>
          /\ step.at \in {"Requests", "Subject", "Inviter"}
          /\ step.at \in {"Subject", "Inviter"} =>
               /\ step.record \in DOMAIN asking
               /\ Signalled(step.event, asking[step.record])

\* What was told last is the shape of its event.
ToldIsTrue ==
  told.shape # <<>> => Tellable(told.event) /\ told.shape = Shape(told.event)

EventsInv == EventsTypeOK /\ LookupIsTrue /\ ToldIsTrue /\ FlagsNameTheirAsker

-----------------------------------------------------------------------------
\* Numbers that are bounded have a largest.
LEMMA LargestIs ==
  ASSUME NEW n \in Nat, NEW S \in SUBSET (0 .. n), S # {}
  PROVE  Max(S) \in S /\ \A y \in S : Max(S) >= y
<1> DEFINE below == OpToRel(<, Nat)
           distances == {n - y : y \in S}
<1>1. distances \subseteq Nat /\ distances # {}
  <2>1. PICK y \in S : TRUE
    OBVIOUS
  <2>2. \A x \in S : n - x \in Nat
    OBVIOUS
  <2>3. n - y \in distances
    OBVIOUS
  <2>4. QED
    BY <2>2, <2>3
<1>2. PICK d \in distances : \A x \in distances : ~ (<<x, d>> \in below)
  <2>1. IsWellFoundedOn(below, Nat)
    BY NatLessThanWellFounded
  <2> HIDE DEF below, distances
  <2>2. QED
    BY <1>1, <2>1, WFMin
<1>3. PICK m \in S : d = n - m
  OBVIOUS
<1>4. ASSUME NEW y \in S PROVE m >= y
  <2>1. n - y \in Nat /\ n - m \in Nat /\ n - y \in distances
    OBVIOUS
  <2>2. ~ (<<n - y, n - m>> \in below)
    BY <1>2, <1>3, <2>1
  <2>3. ~ (n - y < n - m)
    BY <2>1, <2>2 DEF OpToRel
  <2>4. QED
    BY <2>3
<1>5. QED
  BY <1>4 DEF Max

\* The kinds have the shapes of the table, and a message none of them.
LEMMA ShapesOfKinds ==
  ASSUME NEW e
  PROVE  /\ e.kind \in Changes => Shape(e) = NoticeShape(e.kind)
         /\ e.kind \in Requests => Shape(e) = RequestShape(e.kind)
         /\ e.kind = "FriendRequest" => Shape(e) = <<"request", "friend">>
         /\ e.kind = "Message" => Shape(e) \in {<<"error">>, <<"message", "group">>}
         /\ e.kind \in EventKinds \ (Changes \union Requests \union {"FriendRequest"}) =>
              Shape(e) = OtherShape(e.kind)
         /\ Shape(e) # <<>>
  BY DEF Shape, Changes, Requests, EventKinds, NoticeShape, RequestShape, OtherShape, MessageShape

LEMMA EventsStart == EventsInit => EventsInv
  BY DEF EventsInit, EventsInv, EventsTypeOK, LookupIsTrue, ToldIsTrue, FlagsNameTheirAsker,
         NothingTold

\* QQ tells of something else: the lookups and what was told are as they were.
LEMMA TellingKeeps ==
  ASSUME EventsInv, NEW e \in Signal, TellEvent(e), members' \subseteq Uid, UNCHANGED asking
  PROVE  EventsInv'
<1>1. waiting' \in Seq(Signal)
  BY AppendProperties DEF EventsInv, EventsTypeOK, TellEvent
<1> QED
  BY <1>1 DEF EventsInv, EventsTypeOK, LookupIsTrue, ToldIsTrue, FlagsNameTheirAsker, TellEvent

\* A request joins those of before, and is signalled.
LEMMA AskingGrows ==
  ASSUME EventsInv, NEW r \in RequestRecord, NEW e \in Signal,
         asking' = Append(asking, r), TellEvent(e), UNCHANGED members
  PROVE  EventsInv'
<1> USE DEF EventsInv, EventsTypeOK
<1>1. waiting' \in Seq(Signal) /\ asking' \in Seq(RequestRecord)
  BY AppendProperties DEF TellEvent
<1>2. \A i \in DOMAIN asking : i \in DOMAIN asking' /\ asking'[i] = asking[i]
  BY AppendProperties
<1>3. LookupIsTrue'
  BY <1>2 DEF LookupIsTrue, TellEvent, Signalled
<1> QED
  BY <1>1, <1>3 DEF ToldIsTrue, FlagsNameTheirAsker, TellEvent

\* A request answered elsewhere is no longer pending, and otherwise the same.
LEMMA AnsweringKeeps ==
  ASSUME EventsInv, RequestAnswered
  PROVE  EventsInv'
<1> USE DEF EventsInv, EventsTypeOK
<1>1. PICK i \in DOMAIN asking : asking' = [asking EXCEPT ![i].pending = FALSE]
  BY DEF RequestAnswered
<1>2. [asking[i] EXCEPT !.pending = FALSE] \in RequestRecord
  <2>1. asking[i] \in RequestRecord
    BY <1>1
  <2> QED BY <2>1 DEF RequestRecord, OnRecord
<1>3. asking' \in Seq(RequestRecord) /\ DOMAIN asking' = DOMAIN asking
  BY <1>1, <1>2, ExceptSeq
<1>4. \A j \in DOMAIN asking : /\ asking'[j].kind = asking[j].kind
                              /\ asking'[j].asker = asking[j].asker
                              /\ asking'[j].by = asking[j].by
  <2>1. asking[i] \in RequestRecord
    BY <1>1
  <2> QED BY <1>1, <2>1 DEF RequestRecord
<1>5. LookupIsTrue'
  BY <1>3, <1>4 DEF LookupIsTrue, RequestAnswered, Signalled
<1> QED
  BY <1>3, <1>5 DEF ToldIsTrue, FlagsNameTheirAsker, RequestAnswered

\* What QQ tells the account of is something it can tell.
LEMMA WorldKeeps ==
  ASSUME EventsInv, World
  PROVE  EventsInv'
<1> USE DEF Event, Signal, Tellable, EveryKind, EventKinds, Changes, Requests, Operators
<1>0. members \subseteq Uid /\ Digits \subseteq Uid /\ asking \in Seq(RequestRecord)
  BY DEF EventsInv, EventsTypeOK, Uid
<1>1. CASE MemberJoins
  BY <1>0, <1>1, TellingKeeps DEF MemberJoins
<1>2. CASE MemberLeaves
  BY <1>0, <1>2, TellingKeeps DEF MemberLeaves
<1>3. CASE NoticeArrives
  BY <1>0, <1>3, TellingKeeps DEF NoticeArrives
<1>4. CASE AboutMessage
  BY <1>0, <1>4, TellingKeeps DEF AboutMessage
<1>5. CASE RequestArrives
  <2>1. PICK who \in Uid, by \in Uid, kind \in Requests \union {"FriendRequest"} :
          LET inviter == IF kind \in {"Invitation", "SelfInvitation"} THEN by ELSE Nobody
              asker   == IF kind = "SelfInvitation" THEN Self ELSE who
          IN /\ asking' = Append(asking,
                    [kind |-> kind, asker |-> asker, by |-> inviter, pending |-> TRUE])
             /\ TellEvent(Event(kind, asker, inviter, Nobody)) /\ UNCHANGED members
    BY <1>5 DEF RequestArrives
  <2> DEFINE inviter == IF kind \in {"Invitation", "SelfInvitation"} THEN by ELSE Nobody
             asker == IF kind = "SelfInvitation" THEN Self ELSE who
             record == [kind |-> kind, asker |-> asker, by |-> inviter, pending |-> TRUE]
             event == Event(kind, asker, inviter, Nobody)
  <2>2. asking' = Append(asking, record) /\ TellEvent(event) /\ UNCHANGED members
    BY <2>1
  <2>3. record \in RequestRecord /\ event \in Signal
    <3>1. /\ inviter \in Uid \union {Nobody} /\ asker \in Uid \union {Self}
          /\ kind = "Join" => inviter = Nobody
          /\ kind = "SelfInvitation" => asker = Self
      OBVIOUS
    <3> HIDE DEF inviter, asker
    <3>2. record \in RequestRecord
      BY <3>1 DEF RequestRecord, OnRecord
    <3>3. event \in Signal
      BY <3>1
    <3> QED BY <3>2, <3>3
  <2> HIDE DEF record, event
  <2> QED
    BY <1>0, <2>2, <2>3, AskingGrows
<1>6. CASE RequestAnswered
  BY <1>6, AnsweringKeeps
<1> QED
  BY <1>1, <1>2, <1>3, <1>4, <1>5, <1>6 DEF World


\* An event given up is not told of.
LEMMA GivenUpKeeps ==
  ASSUME NEW event, NEW answered, GivesUp(event, answered)
  PROVE  ToldIsTrue' /\ FlagsNameTheirAsker'
  BY DEF GivesUp, NothingTold, ToldIsTrue, FlagsNameTheirAsker

\* An event published names whom it is about, when a request has its record.
LEMMA PublishedKeeps ==
  ASSUME NEW event \in Signal, NEW answered, NEW i, Publishes(event, answered, i),
         event.kind \in Requests => i \in DOMAIN asking /\ Signalled(event, asking[i]),
         EventsTypeOK
  PROVE  ToldIsTrue' /\ FlagsNameTheirAsker'
<1>1. told'.event = event /\ told'.shape = Shape(event) /\ told'.record = Record(i)
  BY DEF Publishes
<1>2. ToldIsTrue'
  BY <1>1 DEF ToldIsTrue, Signal
<1>3. ASSUME event.kind \in Requests PROVE Signalled(event, Record(i))
  <2>1. i \in DOMAIN asking /\ i # 0
    BY <1>3 DEF EventsTypeOK
  <2> QED
    BY <1>3, <2>1 DEF Record, Signalled
<1>4. FlagsNameTheirAsker'
  BY <1>1, <1>3 DEF FlagsNameTheirAsker, Signalled
<1> QED
  BY <1>2, <1>4

\* What a lookup leaves to be done.
LEMMA SettlingKeeps ==
  ASSUME EventsInv, ToldIsTrue', FlagsNameTheirAsker', LookupIsTrue',
         waiting' \in Seq(Signal), UNCHANGED <<members, asking>>
  PROVE  EventsInv'
  BY DEF EventsInv, EventsTypeOK

LEMMA TakeKeeps ==
  ASSUME EventsInv, TakeEvent
  PROVE  EventsInv'
<1> DEFINE event == Head(waiting)
<1>1. event \in Signal /\ waiting' \in Seq(Signal) /\ UNCHANGED <<members, asking>>
  BY HeadTailProperties DEF EventsInv, EventsTypeOK, TakeEvent
<1>2. \/ GivesUp(event, FALSE) /\ UNCHANGED step
      \/ Asks(event) = "Nothing" /\ Publishes(event, FALSE, 0) /\ UNCHANGED step
      \/ step' = [at |-> Asks(event), event |-> event, record |-> 0] /\ UNCHANGED told
  BY DEF TakeEvent
<1>3. event.kind \in Requests => Asks(event) = "Requests"
  BY DEF Asks, NeedsMembers, Requests, Changes
<1> HIDE DEF event
<1>4. CASE GivesUp(event, FALSE) /\ UNCHANGED step
  BY <1>1, <1>4, GivenUpKeeps, SettlingKeeps DEF EventsInv, LookupIsTrue, NoLookup, TakeEvent
<1>5. CASE Asks(event) = "Nothing" /\ Publishes(event, FALSE, 0) /\ UNCHANGED step
  <2>1. ToldIsTrue' /\ FlagsNameTheirAsker'
    BY <1>1, <1>3, <1>5, PublishedKeeps DEF EventsInv
  <2> QED
    BY <1>1, <1>5, <2>1, SettlingKeeps DEF EventsInv, LookupIsTrue, NoLookup, TakeEvent
<1>6. CASE step' = [at |-> Asks(event), event |-> event, record |-> 0] /\ UNCHANGED told
  <2>1. LookupIsTrue'
    BY <1>1, <1>3, <1>6 DEF LookupIsTrue
  <2> QED
    BY <1>1, <1>6, <2>1, SettlingKeeps DEF EventsInv, ToldIsTrue, FlagsNameTheirAsker
<1> QED
  BY <1>2, <1>4, <1>5, <1>6

\* The record found is of the request signalled.
LEMMA NewestMatchIsTrue ==
  ASSUME EventsTypeOK, NEW event \in Signal, event.kind \in Requests, NewestMatch(event) # 0
  PROVE  /\ NewestMatch(event) \in DOMAIN asking
         /\ Signalled(event, asking[NewestMatch(event)])
<1> DEFINE hits == {i \in DOMAIN asking : asking[i].pending /\ SignalMatches(event, asking[i])}
<1>1. hits # {} /\ NewestMatch(event) = Max(hits)
  BY DEF NewestMatch
<1>2. Len(asking) \in Nat /\ DOMAIN asking = 1 .. Len(asking)
  BY DEF EventsTypeOK
<1>3. Max(hits) \in hits
  <2>1. hits \in SUBSET (0 .. Len(asking))
    BY <1>2
  <2> QED
    BY <1>1, <1>2, <2>1, LargestIs
<1> DEFINE i == Max(hits)
<1>4. i \in DOMAIN asking /\ SignalMatches(event, asking[i]) /\ asking[i] \in RequestRecord
  BY <1>3 DEF EventsTypeOK
<1> HIDE DEF i
<1>5. Signalled(event, asking[i])
  BY <1>4 DEF SignalMatches, Signalled, RequestRecord, OnRecord, Signal, Tellable, Requests
<1> QED
  BY <1>1, <1>4, <1>5 DEF i

LEMMA NoLookupIsTrue == step' = NoLookup => LookupIsTrue'
  BY DEF LookupIsTrue

LEMMA LookupsKeep ==
  ASSUME EventsInv, Lookups
  PROVE  EventsInv'
<1>1. step # NoLookup => step.event \in Signal
  BY DEF EventsInv, LookupIsTrue
<1>2. waiting \in Seq(Signal) /\ EventsTypeOK
  BY DEF EventsInv, EventsTypeOK
<1>3. step # NoLookup /\ step.event.kind \in Requests =>
        /\ step.at \in {"Requests", "Subject", "Inviter"}
        /\ step.at \in {"Subject", "Inviter"} =>
             /\ step.record \in DOMAIN asking
             /\ Signalled(step.event, asking[step.record])
  BY DEF EventsInv, LookupIsTrue
<1>4. step.at # "Idle" => step # NoLookup
  BY DEF NoLookup
<1>5. CASE MembersAnswered
  <2>1. step.event \in Signal /\ step.event.kind \notin Requests
    BY <1>1, <1>3, <1>4, <1>5 DEF MembersAnswered
  <2>2. ToldIsTrue' /\ FlagsNameTheirAsker'
    BY <1>2, <1>5, <2>1, GivenUpKeeps, PublishedKeeps DEF MembersAnswered
  <2> QED
    BY <1>2, <1>5, <2>2, NoLookupIsTrue, SettlingKeeps DEF MembersAnswered
<1>6. CASE RequestsAnswered
  <2>1. step.event \in Signal /\ step # NoLookup
    BY <1>1, <1>4, <1>6 DEF RequestsAnswered
  <2>2. {"at", "event", "record"} \subseteq DOMAIN step
    BY <2>1 DEF EventsInv, LookupIsTrue
  <2>3. CASE NewestMatch(step.event) = 0
    BY <1>2, <1>6, <2>3, GivenUpKeeps, NoLookupIsTrue, SettlingKeeps DEF RequestsAnswered
  <2>4. CASE NewestMatch(step.event) # 0
    <3> DEFINE found == NewestMatch(step.event)
    <3>1. step' = [step EXCEPT !.at = "Subject", !.record = found] /\ UNCHANGED <<told, asking>>
      BY <1>6, <2>4 DEF RequestsAnswered
    <3>2. step.event.kind \in Requests =>
            found \in DOMAIN asking /\ Signalled(step.event, asking[found])
      BY <1>2, <2>1, <2>4, NewestMatchIsTrue
    <3> HIDE DEF found
    <3>3. /\ step'.event = step.event /\ step'.at = "Subject" /\ step'.record = found
          /\ DOMAIN step' = DOMAIN step
      BY <2>2, <3>1
    <3>4. step'.event.kind \in Requests =>
            step'.record \in DOMAIN asking' /\ Signalled(step'.event, asking'[step'.record])
      BY <3>1, <3>2, <3>3
    <3>5. LookupIsTrue'
      BY <2>1, <2>2, <3>3, <3>4 DEF LookupIsTrue
    <3> QED
      BY <1>2, <1>6, <3>1, <3>5, SettlingKeeps
      DEF RequestsAnswered, EventsInv, ToldIsTrue, FlagsNameTheirAsker
  <2> QED
    BY <2>3, <2>4
<1>7. CASE SubjectAnswered
  <2>1. step.event \in Signal /\ step # NoLookup /\ step.at = "Subject"
    BY <1>1, <1>4, <1>7 DEF SubjectAnswered
  <2>2. CASE step' = [step EXCEPT !.at = "Inviter"] /\ UNCHANGED told
    <3>1. LookupIsTrue'
      BY <1>3, <1>7, <2>1, <2>2 DEF LookupIsTrue, EventsInv, SubjectAnswered
    <3> QED
      BY <1>2, <1>7, <2>2, <3>1, SettlingKeeps
      DEF SubjectAnswered, EventsInv, ToldIsTrue, FlagsNameTheirAsker
  <2>3. CASE step' = NoLookup /\ Publishes(step.event, TRUE, step.record)
    <3>1. ToldIsTrue' /\ FlagsNameTheirAsker'
      BY <1>2, <1>3, <2>1, <2>3, PublishedKeeps
    <3> QED
      BY <1>2, <1>7, <2>3, <3>1, NoLookupIsTrue, SettlingKeeps DEF SubjectAnswered
  <2> QED
    BY <1>7, <2>2, <2>3 DEF SubjectAnswered
<1>8. CASE LastAnswered
  <2>1. /\ step.event \in Signal
        /\ step.event.kind \in Requests =>
             step.record \in DOMAIN asking /\ Signalled(step.event, asking[step.record])
    BY <1>1, <1>3, <1>4, <1>8 DEF LastAnswered
  <2>2. ToldIsTrue' /\ FlagsNameTheirAsker'
    BY <1>2, <1>8, <2>1, PublishedKeeps DEF LastAnswered
  <2> QED
    BY <1>2, <1>8, <2>2, NoLookupIsTrue, SettlingKeeps DEF LastAnswered
<1>9. CASE LookupFails
  <2>1. step.event \in Signal /\ waiting' = waiting
    BY <1>1, <1>9 DEF LookupFails, LeftBehind
  <2>2. ToldIsTrue' /\ FlagsNameTheirAsker'
    <3>1. CASE GivesUp(step.event, FALSE)
      BY <3>1, GivenUpKeeps
    <3>2. CASE step.event.kind \in Changes \union {"Ban", "Lift"} /\ Publishes(step.event, FALSE, 0)
      <4>1. step.event.kind \notin Requests
        BY <3>2 DEF Changes, Requests
      <4> QED
        BY <1>2, <2>1, <3>2, <4>1, PublishedKeeps
    <3> QED
      BY <1>9, <3>1, <3>2 DEF LookupFails
  <2> QED
    BY <1>2, <1>9, <2>1, <2>2, NoLookupIsTrue, SettlingKeeps DEF LookupFails
<1> QED
  BY <1>5, <1>6, <1>7, <1>8, <1>9 DEF Lookups

LEMMA EventsKeep == EventsInv /\ [EventsNext]_eventVars => EventsInv'
<1>1. EventsInv /\ EventsNext => EventsInv'
  BY WorldKeeps, TakeKeeps, LookupsKeep DEF EventsNext
<1>2. EventsInv /\ UNCHANGED eventVars => EventsInv'
  BY DEF eventVars, EventsInv, EventsTypeOK, LookupIsTrue, ToldIsTrue, FlagsNameTheirAsker
<1> QED
  BY <1>1, <1>2

\* Two kinds with a shape in common are the two ways to ask to join.
LEMMA ShapesTellKinds ==
  ASSUME NEW d, NEW e, Tellable(d), e.kind \in EventKinds, e.kind # d.kind, Shape(d) = Shape(e)
  PROVE  {e.kind, d.kind} = {"Join", "Invitation"}
  BY ShapesOfKinds
  DEF Tellable, EveryKind, EventKinds, Changes, Requests, NoticeShape, RequestShape, OtherShape

LEMMA AnnouncementsFollow == EventsInv => AnnouncementsAreSound
<1> SUFFICES ASSUME EventsInv, told.shape # <<>> PROVE ClientsCanTell
  BY DEF EventsInv, AnnouncementsAreSound, ClientsCanTell
<1>1. Tellable(told.event) /\ told.shape = Shape(told.event)
  BY DEF EventsInv, ToldIsTrue
<1>2. ASSUME NEW kind \in EventKinds \ {told.event.kind},
             Shape(Event(kind, Self, Nobody, Nobody)) = told.shape
      PROVE  {kind, told.event.kind} = {"Join", "Invitation"}
  <2>1. Event(kind, Self, Nobody, Nobody).kind = kind
    BY DEF Event
  <2> QED
    BY <1>1, <1>2, <2>1, ShapesTellKinds
<1>3. ASSUME told.event.kind = "UnknownChange" PROVE told.shape = <<"notice", "error">>
  BY <1>1, <1>3, ShapesOfKinds DEF Changes, NoticeShape
<1> QED
  BY <1>2, <1>3 DEF ClientsCanTell

\* For all UIDs, members, requests and answers: a request is announced with the
\* flag of the account named (resolve_group_request), and a client can tell from
\* the shape what happened (project_account_event).
THEOREM AnnouncementsAreSoundCorrect == EventsSpec => []AnnouncementsAreSound
<1>1. EventsSpec => []EventsInv
  BY EventsStart, EventsKeep, PTL DEF EventsSpec
<1>2. QED
  BY <1>1, AnnouncementsFollow, PTL

-----------------------------------------------------------------------------
(* The actions: their stages and programs.                                 *)

Rejection == {"BadParameters", "Unsupported", "QqFailure", "ActionNotFound"}

\* All stages of handlers.
AnyStage ==
  [step : {"Query", "Pages", "Control", "Publish", "FriendList", "Clear", "Unfriend",
           "Ticket", "Upload"}]
  \union [step : {"Check", "Refuse", "Friend"}, answer : Rejection]
  \union [step : {"Row"}, kinds : SUBSET RowKinds, answer : Rejection]
  \union [step : {"Plan"}, files : 0 .. 2]
  \union [step : {"Register", "Forget"}, kind : RowKinds]
  \union [step : {"Segments"}, parts : Seq(Part), group : BOOLEAN, quotes : BOOLEAN]
  \union [step : {"Skey"}, of : {"Token", "Cookie"}]
  \union [step : {"Web"}, signed : BOOLEAN, effect : BOOLEAN]
  \union [step : {"WebPages"}, signed : BOOLEAN]

Signed(stage) == stage.step \in {"Web", "WebPages"} /\ stage.signed
TakesToken(stage) == stage.step = "Skey" /\ stage.of = "Token"
TakesCookie(stage) == stage.step = "Skey" /\ stage.of = "Cookie"

\* Stages of a program as it is received, those without effect, and those that
\* may come behind the effect: of them only failures of QQ are answered.
Planned == {stage \in AnyStage : stage.step # "Upload" /\ ~Signed(stage)}
Quiet == {stage \in Planned : ~Acts(stage)}
Closing ==
  {stage \in Quiet :
     \/ stage.step \in {"Register", "Forget", "Unfriend"}
     \/ stage.step = "Check" /\ stage.answer = "QqFailure"}

\* Nothing but closing stages is behind the effect.
Ordered(stages) ==
  \A i, j \in DOMAIN stages : i < j /\ Acts(stages[i]) => stages[j] \in Closing

\* The uploads that are missing are the next to be uploaded.
UploadsFirst(stages, uploads) ==
  \A i \in DOMAIN stages : stages[i].step = "Upload" <=> i <= uploads

\* Before a signed request cookies are taken, and a token before them.
TicketsCome(stages, tokenTaken, cookieFits) ==
  \A k \in DOMAIN stages : Signed(stages[k]) =>
    \/ tokenTaken /\ cookieFits
    \/ \E i \in DOMAIN stages :
         /\ i < k /\ TakesCookie(stages[i])
         /\ tokenTaken \/ \E j \in DOMAIN stages : j < i /\ TakesToken(stages[j])

\* A program as it is received.
ProgramFits(program) ==
  /\ program \in Seq(AnyStage)
  /\ Ordered(program) /\ UploadsFirst(program, 0) /\ TicketsCome(program, FALSE, FALSE)

\* A program without signed requests.
PlainProgram(program) == program \in Seq(Planned) /\ Ordered(program)

\* The stages that the handlers are made of.
LEMMA StagesFit ==
  /\ {Bad, Unsupported, Query, Pages, Token, Cookies[1], Cookies[2]} \subseteq Quiet
  /\ Fallible \in Closing
  /\ {Control, [step |-> "Publish"]} \subseteq Planned
  /\ \A answered \in Rejection : Friend(answered) \in Quiet /\ RefuseWith(answered) \in Quiet
  /\ \A kinds \in SUBSET RowKinds, answered \in Rejection : Row(kinds, answered) \in Quiet
  /\ \A uploads \in 0 .. 2 : [step |-> "Plan", files |-> uploads] \in Quiet
  /\ \A kind \in RowKinds :
       /\ [step |-> "Register", kind |-> kind] \in Closing
       /\ [step |-> "Forget", kind |-> kind] \in Closing
  /\ \A name \in {"FriendList", "Clear", "Ticket"} : Do(name) \in Quiet
  /\ Do("Unfriend") \in Closing
  /\ \A parts \in Seq(Part), group, quotes \in BOOLEAN :
       [step |-> "Segments", parts |-> parts, group |-> group, quotes |-> quotes] \in Quiet
  /\ Web(FALSE) \in Quiet /\ [step |-> "WebPages", signed |-> FALSE] \in Quiet
<1> USE DEF Quiet, Planned, Closing, AnyStage, Acts, Signed, Rejection
<1>1. {Bad, Unsupported, Query, Pages, Token} \subseteq Quiet
  BY DEF Bad, Unsupported, Query, Pages, Token
<1>2. {Cookies[1], Cookies[2]} \subseteq Quiet
  BY DEF Cookies, Do
<1>3. Fallible \in Closing /\ {Control, [step |-> "Publish"]} \subseteq Planned
  BY DEF Fallible, Control
<1>4. \A answered \in Rejection : Friend(answered) \in Quiet /\ RefuseWith(answered) \in Quiet
  BY DEF Friend, RefuseWith
<1>5. \A kinds \in SUBSET RowKinds, answered \in Rejection : Row(kinds, answered) \in Quiet
  BY DEF Row
<1>6. \A uploads \in 0 .. 2 : [step |-> "Plan", files |-> uploads] \in Quiet
  OBVIOUS
<1>7. \A kind \in RowKinds :
        /\ [step |-> "Register", kind |-> kind] \in Closing
        /\ [step |-> "Forget", kind |-> kind] \in Closing
  OBVIOUS
<1>8. /\ \A name \in {"FriendList", "Clear", "Ticket"} : Do(name) \in Quiet
      /\ Do("Unfriend") \in Closing
  BY DEF Do
<1>9. \A parts \in Seq(Part), group, quotes \in BOOLEAN :
        [step |-> "Segments", parts |-> parts, group |-> group, quotes |-> quotes] \in Quiet
  OBVIOUS
<1>10. Web(FALSE) \in Quiet /\ [step |-> "WebPages", signed |-> FALSE] \in Quiet
  BY DEF Web
<1> HIDE DEF Quiet, Planned, Closing, AnyStage, Acts, Signed, Rejection
<1> QED
  BY <1>1, <1>2, <1>3, <1>4, <1>5, <1>6, <1>7, <1>8, <1>9, <1>10

\* A plain program is one.
LEMMA PlainFits ==
  ASSUME NEW program, PlainProgram(program)
  PROVE  ProgramFits(program)
<1>1. Planned \subseteq AnyStage
  BY DEF Planned
<1>2. program \in Seq(Planned) /\ Ordered(program)
  BY DEF PlainProgram
<1>3. program \in Seq(AnyStage)
  BY <1>1, <1>2
<1>4. \A i \in DOMAIN program :
        program[i].step # "Upload" /\ ~Signed(program[i]) /\ i > 0
  BY <1>2 DEF Planned
<1> QED
  BY <1>2, <1>3, <1>4 DEF ProgramFits, UploadsFirst, TicketsCome

\* Stages without effect may come before a plain program.
LEMMA QuietFirst ==
  ASSUME NEW first \in Seq(Quiet), NEW program, PlainProgram(program)
  PROVE  PlainProgram(first \o program)
<1>1. Quiet \subseteq Planned
  BY DEF Quiet
<1>2. first \in Seq(Planned) /\ program \in Seq(Planned)
  BY <1>1 DEF PlainProgram
<1>3. \A i \in DOMAIN first : ~Acts(first[i])
  BY DEF Quiet
<1> DEFINE all == first \o program
<1>4. /\ all \in Seq(Planned)
      /\ DOMAIN all = 1 .. Len(first) + Len(program)
      /\ \A i \in DOMAIN all :
           IF i <= Len(first) THEN all[i] = first[i] /\ i \in DOMAIN first
           ELSE all[i] = program[i - Len(first)] /\ i - Len(first) \in DOMAIN program
  BY <1>2
<1> HIDE DEF all
<1>5. ASSUME NEW i \in DOMAIN all, NEW j \in DOMAIN all, i < j, Acts(all[i])
      PROVE  all[j] \in Closing
  <2>1. i > Len(first)
    BY <1>3, <1>4, <1>5
  <2>2. j > Len(first) /\ i - Len(first) < j - Len(first)
    BY <2>1, <1>2, <1>4, <1>5
  <2> QED
    BY <2>1, <2>2, <1>4, <1>5 DEF PlainProgram, Ordered
<1> QED
  BY <1>4, <1>5 DEF PlainProgram, Ordered, all

\* Programs of up to seven stages.
LEMMA ShortPrograms ==
  ASSUME NEW y \in Planned, NEW z \in Planned, Acts(y) => z \in Closing
  PROVE  /\ PlainProgram(<<>>) /\ PlainProgram(<<z>>) /\ PlainProgram(<<y, z>>)
         /\ \A a \in Quiet : PlainProgram(<<a, y, z>>)
         /\ \A a, b \in Quiet : PlainProgram(<<a, b, y, z>>)
         /\ \A a, b, c \in Quiet : PlainProgram(<<a, b, c, y, z>>)
         /\ \A a, b, c, d \in Quiet : PlainProgram(<<a, b, c, d, y, z>>)
         /\ \A a, b, c, d, e \in Quiet : PlainProgram(<<a, b, c, d, e, y, z>>)
<1>0. \A a \in Quiet : a \in Planned /\ ~Acts(a)
  BY DEF Quiet
<1> USE DEF PlainProgram, Ordered
<1>1. PlainProgram(<<>>) /\ PlainProgram(<<z>>) /\ PlainProgram(<<y, z>>)
  OBVIOUS
<1>2. \A a \in Quiet : PlainProgram(<<a, y, z>>)
  BY <1>0
<1>3. \A a, b \in Quiet : PlainProgram(<<a, b, y, z>>)
  BY <1>0
<1>4. \A a, b, c \in Quiet : PlainProgram(<<a, b, c, y, z>>)
  BY <1>0
<1>5. \A a, b, c, d \in Quiet : PlainProgram(<<a, b, c, d, y, z>>)
  BY <1>0
<1>6. \A a, b, c, d, e \in Quiet : PlainProgram(<<a, b, c, d, e, y, z>>)
  BY <1>0
<1> HIDE DEF PlainProgram, Ordered
<1> QED
  BY <1>1, <1>2, <1>3, <1>4, <1>5, <1>6

\* Closing stages are quiet, and quiet ones can be planned.
LEMMA StageKinds == Closing \subseteq Quiet /\ Quiet \subseteq Planned /\ Planned \subseteq AnyStage
BY DEF Closing, Quiet, Planned

\* Quiet stages behind quiet ones.
LEMMA QuietBoth == \A first, second \in Seq(Quiet) : first \o second \in Seq(Quiet)
OBVIOUS

\* Programs without effect are plain.
LEMMA QuietPrograms ==
  ASSUME NEW program \in Seq(Quiet)
  PROVE  PlainProgram(program)
<1>1. program \in Seq(Planned)
  BY StageKinds
<1>2. \A i \in DOMAIN program : ~Acts(program[i])
  BY DEF Quiet
<1> QED
  BY <1>1, <1>2 DEF PlainProgram, Ordered

\* The stages of the uploads of a message.
LEMMA MediaQuiet ==
  /\ \A uploads \in 0 .. 2 : Media(uploads) \in Seq(Quiet)
  /\ UploadImage \in Seq(Quiet) /\ UploadRecord \in Seq(Quiet) /\ UploadVideo \in Seq(Quiet)
  /\ UploadImageUrl \in Seq(Quiet)
<1>1. \A uploads \in 0 .. 2 : Media(uploads) \in Seq(Quiet)
  BY StagesFit, StageKinds DEF Media
<1>2. UploadImage \in Seq(Quiet) /\ UploadRecord \in Seq(Quiet) /\ UploadVideo \in Seq(Quiet)
  BY <1>1 DEF UploadImage, UploadRecord, UploadVideo
<1>3. <<Query>> \in Seq(Quiet)
  BY StagesFit
<1>4. UploadImageUrl \in Seq(Quiet)
  BY <1>2, <1>3 DEF UploadImageUrl
<1> QED
  BY <1>1, <1>2, <1>4

\* The stages of a segment: none of them acts at QQ.
LEMMA CompiledQuiet ==
  \A part \in Part, group, quotes \in BOOLEAN : Compiled(part, group, quotes) \in Seq(Quiet)
<1> TAKE part \in Part, group \in BOOLEAN, quotes \in BOOLEAN
<1>1. /\ <<Bad>> \in Seq(Quiet) /\ <<>> \in Seq(Quiet) /\ <<Bad, Fallible>> \in Seq(Quiet)
      /\ <<Bad, RefuseWith("QqFailure")>> \in Seq(Quiet)
      /\ <<RefuseWith("Unsupported")>> \in Seq(Quiet)
  BY StagesFit, StageKinds DEF Rejection
<1>2. /\ <<Bad>> \o UploadImage \in Seq(Quiet)
      /\ <<Bad>> \o UploadRecord \in Seq(Quiet)
      /\ <<Bad>> \o UploadVideo \in Seq(Quiet)
  BY <1>1, MediaQuiet
<1> QED
  BY <1>1, <1>2 DEF Compiled

\* What comes before the effect of a message.
LEMMA CompileQuiet ==
  ASSUME NEW parts \in Seq(Part), NEW group \in BOOLEAN, NEW quotes \in BOOLEAN
  PROVE  Compile(parts, group, quotes) \in Seq(Quiet)
<1>1. /\ <<>> \in Seq(Quiet) /\ <<Pages>> \in Seq(Quiet)
      /\ <<RefuseWith("Unsupported")>> \in Seq(Quiet)
  BY StagesFit DEF Rejection
<1> DEFINE loop == Segments(parts, group, quotes)
<1>2. loop \in Quiet
  BY StagesFit DEF Segments
<1>3. <<loop>> \in Seq(Quiet)
  BY <1>2
<1> DEFINE roster == CASE "Mention" \notin ToSet(parts) -> <<>>
                        [] group -> <<Pages>>
                        [] OTHER -> <<RefuseWith("Unsupported")>>
<1>4. roster \in Seq(Quiet)
  BY <1>1
<1>5. Compile(parts, group, quotes) = roster \o <<loop>>
  BY DEF Compile
<1> QED
  BY <1>3, <1>4, <1>5

\* A reply is looked up without effect.
LEMMA QuotesQuiet ==
  ASSUME NEW parts, NEW kind \in RowKinds, NEW group \in BOOLEAN
  PROVE  QuoteStages(parts, kind, group) \in Seq(Quiet)
<1> DEFINE row == Row(IF group THEN {"Group"} ELSE {"Private"},
                      IF kind \in Own THEN "QqFailure" ELSE "BadParameters")
<1>1. row \in Quiet
  <2>1. {"Group"} \in SUBSET RowKinds /\ {"Private"} \in SUBSET RowKinds
    BY DEF RowKinds
  <2> QED
    BY <2>1, StagesFit DEF Rejection
<1>2. <<Bad, Fallible, row, Bad>> \in Seq(Quiet)
  BY <1>1, StagesFit, StageKinds
<1>3. Quote(kind, group) \in Seq(Quiet)
  BY <1>2 DEF Quote
<1> QED
  BY <1>3 DEF QuoteStages

\* The end of every message.
LEMMA SendPlain ==
  ASSUME NEW kind \in RowKinds
  PROVE  PlainProgram(SendSegments(kind))
<1> DEFINE register == [step |-> "Register", kind |-> kind]
<1>1. register \in Closing /\ Control \in Planned /\ {Bad, Query} \subseteq Quiet
  BY StagesFit
<1>2. PlainProgram(<<Bad, Query, Control, register>>)
  BY <1>1, StageKinds, ShortPrograms
<1> QED
  BY <1>2 DEF SendSegments

\* The messages of a bot.
LEMMA SendsPlain ==
  ASSUME NEW parts \in Seq(Part), NEW kind \in RowKinds,
         NEW action \in DOMAIN Sends(parts, kind)
  PROVE  PlainProgram(Sends(parts, kind)[action])
<1>1. /\ PlainProgram(SendSegments("OwnGroup")) /\ PlainProgram(SendSegments("OwnPrivate"))
  BY SendPlain DEF RowKinds, Own
<1>2. /\ <<Unsupported, Bad>> \in Seq(Quiet) /\ <<Bad>> \in Seq(Quiet)
      /\ <<Bad, Friend("Unsupported"), Bad>> \in Seq(Quiet)
      /\ <<Bad, Friend("Unsupported")>> \in Seq(Quiet)
      /\ <<Bad, Query, Query>> \in Seq(Quiet)
  BY StagesFit DEF Rejection
<1>3. /\ Compile(parts, TRUE, TRUE) \in Seq(Quiet) /\ Compile(parts, FALSE, TRUE) \in Seq(Quiet)
      /\ Compile(parts, FALSE, FALSE) \in Seq(Quiet)
      /\ QuoteStages(parts, kind, TRUE) \in Seq(Quiet)
      /\ QuoteStages(parts, kind, FALSE) \in Seq(Quiet)
  BY CompileQuiet, QuotesQuiet
<1>4. /\ <<Unsupported, Bad>> \o QuoteStages(parts, kind, TRUE) \o Compile(parts, TRUE, TRUE)
           \in Seq(Quiet)
      /\ <<Bad, Friend("Unsupported"), Bad>> \o QuoteStages(parts, kind, FALSE)
           \o Compile(parts, FALSE, TRUE) \in Seq(Quiet)
  <2>1. /\ <<Unsupported, Bad>> \o QuoteStages(parts, kind, TRUE) \in Seq(Quiet)
        /\ <<Bad, Friend("Unsupported"), Bad>> \o QuoteStages(parts, kind, FALSE) \in Seq(Quiet)
    BY <1>2, <1>3, QuietBoth, Zenon
  <2> QED
    BY <2>1, <1>3, QuietBoth, Zenon
<1>5. PlainProgram(SendGroupText(parts, kind)) /\ PlainProgram(SendPrivateText(parts, kind))
  BY <1>1, <1>4, QuietFirst DEF SendGroupText, SendPrivateText
<1>6. UploadForward(parts) \in Seq(Quiet)
  <2>1. <<Bad>> \o Compile(parts, FALSE, FALSE) \in Seq(Quiet)
    BY <1>2, <1>3, QuietBoth, Zenon
  <2>2. (<<Bad>> \o Compile(parts, FALSE, FALSE)) \o <<Bad, Query, Query>> \in Seq(Quiet)
    BY <2>1, <1>2, QuietBoth, Zenon
  <2> QED
    BY <2>2 DEF UploadForward
<1>7. /\ <<Bad>> \o UploadForward(parts) \in Seq(Quiet)
      /\ <<Bad, Friend("Unsupported")>> \o UploadForward(parts) \in Seq(Quiet)
  BY <1>2, <1>6
<1>8. PlainProgram(SendForward(parts, FALSE)) /\ PlainProgram(SendForward(parts, TRUE))
  BY <1>1, <1>7, QuietFirst DEF SendForward
<1>9. PlainProgram(UploadForward(parts))
  BY <1>6, QuietPrograms
<1>10. DOMAIN Sends(parts, kind) =
          {"send_group_msg", "send_private_msg", "send_forward_msg", "send_group_forward_msg",
           "send_private_forward_msg"}
  BY DEF Sends
<1>11. /\ Sends(parts, kind)["send_group_msg"] = SendGroupText(parts, kind)
       /\ Sends(parts, kind)["send_private_msg"] = SendPrivateText(parts, kind)
       /\ Sends(parts, kind)["send_forward_msg"] = UploadForward(parts)
       /\ Sends(parts, kind)["send_group_forward_msg"] = SendForward(parts, FALSE)
       /\ Sends(parts, kind)["send_private_forward_msg"] = SendForward(parts, TRUE)
  BY DEF Sends
<1> QED
  BY <1>5, <1>8, <1>9, <1>10, <1>11

\* Single stages, as sequences.
LEMMA Singles ==
  /\ <<>> \in Seq(Quiet)
  /\ \A a \in Quiet : <<a>> \in Seq(Quiet)
  /\ \A a, b \in Quiet : <<a, b>> \in Seq(Quiet)
  /\ \A a, b, c \in Quiet : <<a, b, c>> \in Seq(Quiet)
  /\ \A a, b, c, d \in Quiet : <<a, b, c, d>> \in Seq(Quiet)
OBVIOUS

\* The stages by name, as the programs use them.
LEMMA CommonStages ==
  /\ Bad \in Quiet /\ Unsupported \in Quiet /\ Query \in Quiet /\ Pages \in Quiet
  /\ Fallible \in Quiet /\ Token \in Quiet /\ Cookies \in Seq(Quiet)
  /\ Fallible \in Closing
  /\ Friend("Unsupported") \in Quiet /\ Friend("QqFailure") \in Quiet
  /\ RefuseWith("ActionNotFound") \in Quiet
  /\ Do("Clear") \in Quiet /\ Do("FriendList") \in Quiet /\ Do("Unfriend") \in Closing
  /\ Web(FALSE) \in Quiet /\ [step |-> "WebPages", signed |-> FALSE] \in Quiet
  /\ Control \in Planned /\ [step |-> "Publish"] \in Planned
<1>1. Cookies \in Seq(Quiet)
  <2>1. Cookies[1] \in Quiet /\ Cookies[2] \in Quiet
    BY StagesFit
  <2>2. Cookies = <<Cookies[1], Cookies[2]>>
    BY DEF Cookies
  <2> QED
    BY <2>1, <2>2, Singles
<1> QED
  BY <1>1, StagesFit, StageKinds DEF Rejection

\* Lists, states and caches.
LEMMA SimplePlain ==
  ASSUME NEW action \in DOMAIN Simple
  PROVE  PlainProgram(Simple[action])
<1>1. /\ FetchGroups \in Seq(Quiet) /\ GroupInfo \in Seq(Quiet) /\ GroupMembers \in Seq(Quiet)
      /\ StrangerInfo \in Seq(Quiet) /\ ListRequests \in Seq(Quiet)
      /\ GetForward \in Seq(Quiet) /\ GroupFileList \in Seq(Quiet)
      /\ GroupFileUrl \in Seq(Quiet) /\ PrivateFileUrl \in Seq(Quiet)
      /\ CustomFaces \in Seq(Quiet) /\ MarketFaceKeys \in Seq(Quiet)
      /\ Characters \in Seq(Quiet) /\ Rkeys \in Seq(Quiet) /\ Generate \in Seq(Quiet)
  <2>1. /\ <<Query>> \in Seq(Quiet) /\ <<Pages>> \in Seq(Quiet) /\ <<Bad>> \in Seq(Quiet)
        /\ <<Fallible>> \in Seq(Quiet) /\ <<Bad, Query>> \in Seq(Quiet)
        /\ <<Query, Pages, Fallible>> \in Seq(Quiet) /\ <<Bad, Pages>> \in Seq(Quiet)
        /\ <<Bad, Query, Query, Fallible>> \in Seq(Quiet)
        /\ <<Bad, Friend("Unsupported"), Bad, Query>> \in Seq(Quiet)
        /\ <<Fallible, Query>> \in Seq(Quiet)
    BY CommonStages, Singles
  <2>2. FetchGroups \in Seq(Quiet) /\ FetchGroupMembers \in Seq(Quiet)
    BY <2>1 DEF FetchGroups, FetchGroupMembers
  <2>3. <<Bad>> \o FetchGroups \in Seq(Quiet) /\ <<Bad>> \o FetchGroupMembers \in Seq(Quiet)
    BY <2>1, <2>2, QuietBoth, Zenon
  <2>4. (<<Bad>> \o FetchGroups) \o <<Fallible>> \in Seq(Quiet)
    BY <2>1, <2>3, QuietBoth, Zenon
  <2>5. (<<Bad>> \o FetchGroupMembers) \o <<Fallible>> \in Seq(Quiet)
    BY <2>1, <2>3, QuietBoth, Zenon
  <2>6. GroupInfo \in Seq(Quiet) /\ GroupMembers \in Seq(Quiet)
    BY <2>4, <2>5 DEF GroupInfo, GroupMembers
  <2> QED
    BY <2>1, <2>2, <2>6
       DEF StrangerInfo, ListRequests, GetForward, GroupFileList, GroupFileUrl,
           PrivateFileUrl, CustomFaces, MarketFaceKeys, Characters, Rkeys, Generate
<1>2. /\ <<>> \in Seq(Quiet) /\ <<Fallible>> \in Seq(Quiet) /\ <<Do("Clear")>> \in Seq(Quiet)
      /\ <<Do("FriendList")>> \in Seq(Quiet) /\ <<Query>> \in Seq(Quiet)
      /\ <<RefuseWith("ActionNotFound")>> \in Seq(Quiet)
  BY CommonStages, Singles
<1>3. AiRecordUrl \in Seq(Quiet)
  <2>1. Generate \o <<Query>> \in Seq(Quiet)
    BY <1>1, <1>2, QuietBoth, Zenon
  <2> QED
    BY <2>1 DEF AiRecordUrl
<1>4. PlainProgram(SendAiRecord)
  <2>1. PlainProgram(SendSegments("OwnGroup"))
    BY SendPlain DEF RowKinds, Own
  <2> QED
    BY <1>1, <2>1, QuietFirst DEF SendAiRecord
<1>5. DOMAIN Simple =
        {"get_status", "can_send_image", "set_restart", "clean_cache", "get_friend_list",
         "get_group_list", "get_group_info", "get_group_member_list", "get_stranger_info",
         "get_group_requests", "get_forward_msg", "get_group_root_files",
         "get_group_file_url", "get_private_file_url", "fetch_custom_face",
         "fetch_mface_key", "get_ai_characters", "get_ai_record", "get_rkey",
         "send_group_ai_record", "unknown"}
  BY DEF Simple
<1>6. CASE action = "send_group_ai_record"
  <2>1. Simple["send_group_ai_record"] = SendAiRecord
    BY DEF Simple
  <2> QED
    BY <1>4, <1>6, <2>1
<1>7. CASE action # "send_group_ai_record"
  <2>1. Simple[action] \in
          {<<>>, <<Fallible>>, <<Do("Clear")>>, <<Do("FriendList")>>, FetchGroups, GroupInfo,
           GroupMembers, StrangerInfo, ListRequests, GetForward, GroupFileList,
           GroupFileUrl, PrivateFileUrl, CustomFaces, MarketFaceKeys, Characters,
           AiRecordUrl, Rkeys, <<RefuseWith("ActionNotFound")>>}
    BY <1>5, <1>7 DEF Simple
  <2>2. Simple[action] \in Seq(Quiet)
    BY <1>1, <1>2, <1>3, <2>1, Zenon
  <2> QED
    BY <2>2, QuietPrograms
<1> QED
  BY <1>6, <1>7

\* Uploads that are not of a message.
LEMMA UploadsPlain ==
  ASSUME NEW action \in DOMAIN Uploads
  PROVE  PlainProgram(Uploads[action])
<1> DEFINE plan == [step |-> "Plan", files |-> 1]
<1>1. plan \in Quiet
  BY StagesFit
<1>2. PlainProgram(UploadAvatar)
  BY CommonStages, StageKinds, ShortPrograms DEF UploadAvatar, Acts, Bad
<1>3. PlainProgram(GroupFile)
  <2>1. plan \in Planned /\ ~Acts(plan)
    BY <1>1 DEF Quiet
  <2>2. PlainProgram(<<Bad, Fallible, Bad, plan, Control>>)
    BY <2>1, CommonStages, ShortPrograms
  <2> QED
    BY <2>2 DEF GroupFile
<1>4. PlainProgram(PrivateFile)
  <2>1. Query \in Planned /\ ~Acts(Query)
    BY CommonStages DEF Quiet
  <2>2. PlainProgram(<<Bad, Friend("Unsupported"), Fallible, Bad, plan, Query, Control>>)
    BY <1>1, <2>1, CommonStages, ShortPrograms
  <2> QED
    BY <2>2 DEF PrivateFile
<1>5. PlainProgram(UploadImageUrl)
  BY MediaQuiet, QuietPrograms
<1>6. PlainProgram(Ocr)
  <2>1. <<Query>> \in Seq(Quiet)
    BY CommonStages, Singles
  <2>2. UploadImageUrl \o <<Query>> \in Seq(Quiet)
    BY <2>1, MediaQuiet, QuietBoth, Zenon
  <2> QED
    BY <2>2, QuietPrograms DEF Ocr
<1>7. DOMAIN Uploads =
        {"upload_image", "ocr_image", "set_qq_avatar", "upload_group_file",
         "upload_private_file"}
  BY DEF Uploads
<1>8. Uploads[action] \in {UploadImageUrl, Ocr, UploadAvatar, GroupFile, PrivateFile}
  BY <1>7 DEF Uploads
<1> QED
  BY <1>2, <1>3, <1>4, <1>5, <1>6, <1>8, Zenon

\* Friends, groups and requests.
LEMMA ControlsPlain ==
  ASSUME NEW action \in DOMAIN Controls
  PROVE  PlainProgram(Controls[action])
<1>0. /\ Bad \in Planned /\ ~Acts(Bad) /\ Unsupported \in Planned /\ ~Acts(Unsupported)
      /\ Do("Unfriend") \in Planned
  BY CommonStages, StageKinds DEF Quiet
<1>1. /\ PlainProgram(<<Bad, Control>>)
      /\ PlainProgram(<<Bad, Pages, Bad, Control>>)
      /\ PlainProgram(<<Bad, Unsupported, Control>>)
      /\ PlainProgram(<<Bad, Friend("QqFailure"), Bad, Control>>)
      /\ PlainProgram(<<Unsupported, Bad, Query, Fallible, Bad, Control>>)
  BY <1>0, CommonStages, ShortPrograms
<1>2. PlainProgram(<<Bad, Friend("QqFailure"), Bad, Control, Do("Unfriend")>>)
  BY <1>0, CommonStages, ShortPrograms
<1>3. DOMAIN Controls =
        {"send_poke", "send_like", "delete_friend", "set_group_kick", "set_group_name",
         "set_group_leave", "set_group_bot_status", "set_friend_add_request",
         "delete_group_file"}
  BY DEF Controls
<1>4. Controls[action] \in
        {Poke, Like, DeleteFriend, MemberControl, GroupControl, GroupLeave,
         AnswerFriendRequest, GroupFileChange}
  BY <1>3 DEF Controls
<1>5. /\ PlainProgram(Poke) /\ PlainProgram(Like) /\ PlainProgram(DeleteFriend)
      /\ PlainProgram(MemberControl) /\ PlainProgram(GroupControl)
      /\ PlainProgram(GroupLeave) /\ PlainProgram(AnswerFriendRequest)
      /\ PlainProgram(GroupFileChange)
  BY <1>1, <1>2 DEF Poke, Like, DeleteFriend, MemberControl, GroupControl, GroupLeave,
                    AnswerFriendRequest, GroupFileChange
<1> QED
  BY <1>4, <1>5, Zenon

\* Actions that name a retained message.
LEMMA RetainedPlain ==
  ASSUME NEW kind \in RowKinds, NEW action \in DOMAIN RetainedActions(kind)
  PROVE  PlainProgram(RetainedActions(kind)[action])
<1> DEFINE any == Row(Grouped \union Direct, "QqFailure")
           grouped == Row(Grouped, "QqFailure")
           direct == Row(Direct, "QqFailure")
           reacted == Row(Grouped \union Direct, "Unsupported")
           kept == Row(RowKinds, "QqFailure")
<1>1. {any, grouped, direct, reacted, kept} \subseteq Quiet
  <2>1. {Grouped \union Direct, Grouped, Direct, RowKinds} \subseteq SUBSET RowKinds
    BY DEF Grouped, Direct, RowKinds, Own
  <2> QED
    BY <2>1, StagesFit DEF Rejection
<1>2. \A k \in RowKinds :
        /\ [step |-> "Register", kind |-> k] \in Closing
        /\ [step |-> "Forget", kind |-> k] \in Closing
  BY StagesFit
<1>3. \A a \in Quiet : a \in Planned /\ ~Acts(a)
  BY StageKinds DEF Quiet
<1> HIDE DEF any, grouped, direct, reacted, kept
<1>4. PlainProgram(RecallMessage(kind))
  <2> DEFINE forget == [step |-> "Forget", kind |-> kind]
             peer == IF kind \in Direct THEN <<Query>> ELSE <<>>
  <2>1. PlainProgram(<<Control, forget>>)
    BY <1>2, StageKinds, CommonStages, ShortPrograms
  <2>2. <<Bad, any>> \in Seq(Quiet) /\ peer \in Seq(Quiet)
    BY <1>1, CommonStages, Singles
  <2>3. <<Bad, any>> \o peer \in Seq(Quiet)
    BY <2>2, QuietBoth, Zenon
  <2>4. PlainProgram((<<Bad, any>> \o peer) \o <<Control, forget>>)
    BY <2>1, <2>3, QuietFirst
  <2> QED
    BY <2>4 DEF RecallMessage, any
<1>5. /\ PlainProgram(<<Bad, any, Query, Control>>)
      /\ PlainProgram(<<Bad, grouped, Control>>)
      /\ PlainProgram(<<Bad, grouped, Bad, Control>>)
      /\ PlainProgram(<<Bad, reacted, Unsupported, Bad, Control>>)
      /\ PlainProgram(<<Bad, direct, Bad, Control>>)
  BY <1>1, <1>3, CommonStages, ShortPrograms
<1>6. /\ PlainProgram(MarkRead) /\ PlainProgram(Essence) /\ PlainProgram(ReactGroup)
      /\ PlainProgram(ReactMessage) /\ PlainProgram(ReactFriend)
  BY <1>5 DEF MarkRead, Essence, ReactGroup, ReactMessage, ReactFriend,
              any, grouped, direct, reacted
<1>7. PlainProgram(GroupHistory) /\ PlainProgram(FriendHistory)
  <2> DEFINE group == [step |-> "Register", kind |-> "Group"]
             friend == [step |-> "Register", kind |-> "Private"]
  <2>1. group \in Planned /\ friend \in Planned
    BY <1>2, StageKinds DEF RowKinds
  <2>2. /\ PlainProgram(<<Bad, grouped, Query, group>>)
        /\ PlainProgram(<<Bad, Friend("QqFailure"), direct, Query, friend>>)
    BY <1>1, <1>3, <2>1, CommonStages, ShortPrograms
  <2> QED
    BY <2>2 DEF GroupHistory, FriendHistory, grouped, direct
<1>8. PlainProgram(<<Bad, kept>>)
  BY <1>1, <1>3, CommonStages, ShortPrograms
<1>9. DOMAIN RetainedActions(kind) =
        {"get_msg", "delete_msg", "mark_msg_as_read", "set_essence_msg",
         "set_group_reaction", "set_msg_emoji_like", "join_friend_emoji_chain",
         "get_group_msg_history", "get_friend_msg_history"}
  BY DEF RetainedActions
<1>10. RetainedActions(kind)[action] \in
         {<<Bad, kept>>, RecallMessage(kind), MarkRead, Essence, ReactGroup, ReactMessage,
          ReactFriend, GroupHistory, FriendHistory}
  BY <1>9 DEF RetainedActions, kept
<1> QED
  BY <1>4, <1>6, <1>7, <1>8, <1>10, Zenon

\* A signed program: the token last before the cookies, then the request, and
\* behind it nothing but closing stages.
LEMMA SignedPrograms ==
  ASSUME NEW taken \in Seq(Quiet), taken # <<>>, TakesToken(taken[Len(taken)]),
         NEW cookies \in Seq(Quiet), cookies # <<>>, TakesCookie(cookies[1]),
         NEW rest \in Seq(AnyStage),
         \A i \in DOMAIN rest : rest[i].step # "Upload",
         \A i \in DOMAIN rest : i > 1 => rest[i] \in Closing
  PROVE  ProgramFits(taken \o cookies \o rest)
<1> DEFINE front == taken \o cookies
           program == front \o rest
<1>1. /\ Len(taken) \in Nat /\ Len(taken) > 0 /\ Len(cookies) \in Nat /\ Len(cookies) > 0
      /\ Len(rest) \in Nat
  OBVIOUS
<1>2. /\ front \in Seq(Quiet) /\ Len(front) = Len(taken) + Len(cookies)
      /\ front[Len(taken)] = taken[Len(taken)] /\ front[Len(taken) + 1] = cookies[1]
  BY <1>1, ConcatProperties
<1> HIDE DEF front
<1>3. front \in Seq(AnyStage)
  BY <1>2, StageKinds
<1>4. /\ program \in Seq(AnyStage) /\ Len(program) = Len(front) + Len(rest)
      /\ \A i \in 1 .. Len(front) + Len(rest) :
           program[i] = IF i <= Len(front) THEN front[i] ELSE rest[i - Len(front)]
  BY <1>3, ConcatProperties
<1> HIDE DEF program
<1>5. \A i \in DOMAIN program :
        /\ i \in 1 .. Len(program)
        /\ i <= Len(front) => program[i] = front[i] /\ front[i] \in Quiet
        /\ i > Len(front) =>
             /\ program[i] = rest[i - Len(front)] /\ i - Len(front) \in DOMAIN rest
  BY <1>1, <1>2, <1>4
<1>6. \A a \in Quiet : a.step # "Upload" /\ ~Signed(a) /\ ~Acts(a)
  BY DEF Quiet, Planned
<1>7. Ordered(program)
  <2>1. SUFFICES ASSUME NEW i \in DOMAIN program, NEW j \in DOMAIN program, i < j,
                        Acts(program[i])
                 PROVE  program[j] \in Closing
    BY DEF Ordered
  <2>2. i > Len(front)
    <3>1. i \in Int /\ Len(front) \in Int
      BY <1>1, <1>2, <1>5, <2>1
    <3>2. ~(i <= Len(front))
      BY <1>5, <1>6, <2>1
    <3> QED
      BY <3>1, <3>2
  <2>3. j > Len(front) /\ j - Len(front) > 1
    BY <1>1, <1>2, <1>5, <2>1, <2>2
  <2>4. program[j] = rest[j - Len(front)] /\ j - Len(front) \in DOMAIN rest
    BY <1>5, <2>1, <2>3
  <2>5. \A n \in DOMAIN rest : n > 1 => rest[n] \in Closing
    OBVIOUS
  <2> QED
    BY <2>3, <2>4, <2>5
<1>8. UploadsFirst(program, 0)
  <2>1. SUFFICES ASSUME NEW i \in DOMAIN program PROVE program[i].step # "Upload"
    BY <1>5 DEF UploadsFirst
  <2>2. CASE i <= Len(front)
    BY <1>5, <1>6, <2>1, <2>2
  <2>3. CASE i > Len(front)
    <3>1. program[i] = rest[i - Len(front)] /\ i - Len(front) \in DOMAIN rest
      BY <1>5, <2>1, <2>3
    <3>2. \A n \in DOMAIN rest : rest[n].step # "Upload"
      OBVIOUS
    <3> QED
      BY <3>1, <3>2
  <2>4. i \in Int /\ Len(front) \in Int
    BY <1>1, <1>2, <1>5, <2>1
  <2> QED
    BY <2>2, <2>3, <2>4
<1>9. TicketsCome(program, FALSE, FALSE)
  <2>1. SUFFICES ASSUME NEW k \in DOMAIN program, Signed(program[k])
                 PROVE  \E i \in DOMAIN program :
                          /\ i < k /\ TakesCookie(program[i])
                          /\ \E j \in DOMAIN program : j < i /\ TakesToken(program[j])
    BY DEF TicketsCome
  <2>2. k > Len(front)
    BY <1>1, <1>2, <1>5, <1>6, <2>1
  <2>3. Len(taken) \in DOMAIN program /\ Len(taken) + 1 \in DOMAIN program
    BY <1>1, <1>2, <1>4
  <2>4. TakesToken(program[Len(taken)]) /\ TakesCookie(program[Len(taken) + 1])
    <3>1. program[Len(taken)] = front[Len(taken)]
      BY <1>1, <1>2, <1>5, <2>3
    <3>2. Len(taken) + 1 <= Len(front)
      BY <1>1, <1>2
    <3>3. program[Len(taken) + 1] = front[Len(taken) + 1]
      BY <1>5, <2>3, <3>2
    <3> QED
      BY <1>2, <3>1, <3>3
  <2>5. Len(taken) + 1 < k
    BY <1>1, <1>2, <2>2, <1>5
  <2> QED
    BY <1>1, <2>3, <2>4, <2>5
<1> QED
  BY <1>4, <1>7, <1>8, <1>9 DEF ProgramFits, program, front

\* Web actions.
LEMMA WebFits ==
  ASSUME NEW action \in DOMAIN WebActions
  PROVE  ProgramFits(WebActions[action])
<1>1. /\ Web(TRUE) \in AnyStage /\ Web(TRUE).step # "Upload"
      /\ WebControl \in AnyStage /\ WebControl.step # "Upload"
      /\ [step |-> "WebPages", signed |-> TRUE] \in AnyStage
      /\ [step |-> "WebPages", signed |-> TRUE].step # "Upload"
      /\ Fallible.step # "Upload" /\ Fallible \in AnyStage
  BY DEF Web, WebControl, AnyStage, Fallible, Rejection
<1>2. /\ Cookies # <<>> /\ TakesCookie(Cookies[1]) /\ Cookies \in Seq(Quiet)
  BY CommonStages DEF Cookies, TakesCookie
<1>3. ASSUME NEW taken, NEW rest,
             \/ taken = <<Bad, Token>> \/ taken = <<Bad, Unsupported, Token>>,
             NEW web \in {Web(TRUE), WebControl, [step |-> "WebPages", signed |-> TRUE]},
             rest = <<web>> \/ rest = <<web, Fallible>>
      PROVE  ProgramFits(taken \o Cookies \o rest)
  <2>1. taken \in Seq(Quiet) /\ taken # <<>> /\ TakesToken(taken[Len(taken)])
    <3>1. TakesToken(Token)
      BY DEF TakesToken, Token
    <3>2. CASE taken = <<Bad, Token>>
      BY <3>1, <3>2, CommonStages
    <3>3. CASE taken = <<Bad, Unsupported, Token>>
      BY <3>1, <3>3, CommonStages
    <3> QED
      BY <1>3, <3>2, <3>3
  <2>2. web \in AnyStage /\ web.step # "Upload"
    BY <1>1, <1>3
  <2>3. /\ rest \in Seq(AnyStage)
        /\ \A i \in DOMAIN rest : rest[i].step # "Upload" /\ (i > 1 => rest[i] \in Closing)
    <3>1. CASE rest = <<web>>
      BY <1>1, <2>2, <3>1
    <3>2. CASE rest = <<web, Fallible>>
      BY <1>1, <2>2, <3>2, CommonStages
    <3> QED
      BY <1>3, <3>1, <3>2
  <2> QED
    BY <1>2, <2>1, <2>3, SignedPrograms
<1>4. /\ ProgramFits(GetNotices) /\ ProgramFits(SendNotice) /\ ProgramFits(DeleteNotice)
      /\ ProgramFits(EssenceList)
  BY <1>3 DEF GetNotices, SendNotice, DeleteNotice, EssenceList
<1>5. /\ <<Bad>> \in Seq(Quiet) /\ <<Token>> \in Seq(Quiet) /\ <<Web(FALSE)>> \in Seq(Quiet)
      /\ <<Web(FALSE), Bad>> \in Seq(Quiet)
      /\ <<[step |-> "WebPages", signed |-> FALSE]>> \in Seq(Quiet)
      /\ Cookies \in Seq(Quiet)
  BY CommonStages, Singles
<1>6. GetCookies \in Seq(Quiet)
  BY <1>5, QuietBoth, Zenon DEF GetCookies
<1>7. GetCredentials \in Seq(Quiet)
  BY <1>5, <1>6, QuietBoth, Zenon DEF GetCredentials, GetCookies
<1>8. <<Bad>> \o Cookies \o <<Web(FALSE)>> \in Seq(Quiet)
  BY <1>5, <1>6, QuietBoth, Zenon DEF GetCookies
<1>9. <<Bad>> \o Cookies \o <<Web(FALSE)>> \o Cookies \in Seq(Quiet)
  BY <1>5, <1>8, QuietBoth, Zenon
<1>10. MusicArk \in Seq(Quiet)
  BY <1>5, <1>9, QuietBoth, Zenon DEF MusicArk
<1>11. Honors \in Seq(Quiet)
  BY <1>5, <1>6, QuietBoth, Zenon DEF Honors, GetCookies
<1>12. GetToken \in Seq(Quiet)
  BY <1>5 DEF GetToken
<1>13. \A p \in Seq(Quiet) : ProgramFits(p)
  BY QuietPrograms, PlainFits
<1>14. DOMAIN WebActions =
         {"get_cookies", "get_csrf_token", "get_credentials", "get_group_notice",
          "send_group_notice", "del_group_notice", "get_music_ark", "get_group_honor_info",
          "get_essence_msg_list"}
  BY DEF WebActions
<1>15. WebActions[action] \in
         {GetCookies, GetToken, GetCredentials, GetNotices, SendNotice, DeleteNotice,
          MusicArk, Honors, EssenceList}
  BY <1>14 DEF WebActions
<1> QED
  BY <1>4, <1>6, <1>7, <1>10, <1>11, <1>12, <1>13, <1>15, Zenon

-----------------------------------------------------------------------------
(* The actions: what is left to do, and what has been done.                *)

ActionTypes ==
  /\ ActionsTypeOK
  /\ todo \in Seq(AnyStage) /\ missing \in 0 .. 2 /\ effects \in {0, 1} /\ due \in BOOLEAN

\* What is left of the program fits what this request has done.
TodoFits ==
  /\ answer # "None" => todo = <<>>
  /\ Ordered(todo) /\ UploadsFirst(todo, missing)
  /\ effects # 0 => missing = 0 /\ \A i \in DOMAIN todo : todo[i] \in Closing
  /\ due /\ effects = 0 =>
       answer # "Ok" /\ (answer = "None" => \E i \in DOMAIN todo : Acts(todo[i]))
  /\ answer \in Rejection \ {"QqFailure"} => effects = 0

\* The token is of the skey that is kept, and cookies will be or are of it too.
TokensFit ==
  /\ token # 0 => token = skey \/ lapsed
  /\ TicketsCome(todo, token # 0, token = cookie \/ lapsed)

ActionsInv == ActionTypes /\ TodoFits /\ TokensFit

\* The stage at hand.
LEMMA StageFits ==
  ASSUME ActionTypes, todo # <<>>
  PROVE  /\ Len(todo) \in Nat /\ Len(todo) > 0 /\ 1 \in DOMAIN todo
         /\ Stage = todo[1] /\ Stage \in AnyStage
         /\ Tail(todo) \in Seq(AnyStage) /\ Len(Tail(todo)) = Len(todo) - 1
         /\ \A i \in 1 .. Len(todo) - 1 : Tail(todo)[i] = todo[i + 1]
         /\ Stage.step \in {"Check", "Refuse", "Friend", "Row"} => Stage.answer \in Rejection
         /\ Stage.step \in {"Register", "Forget"} => Stage.kind \in RowKinds
         /\ Stage.step = "Segments" =>
              /\ Stage.parts \in Seq(Part) /\ Stage.group \in BOOLEAN /\ Stage.quotes \in BOOLEAN
         /\ Stage.step = "Web" => Stage.effect \in BOOLEAN
<1>1. todo \in Seq(AnyStage)
  BY DEF ActionTypes
<1>2. /\ Len(todo) \in Nat /\ Len(todo) > 0 /\ 1 \in DOMAIN todo
      /\ Stage = todo[1] /\ Stage \in AnyStage
      /\ Tail(todo) \in Seq(AnyStage) /\ Len(Tail(todo)) = Len(todo) - 1
      /\ \A i \in 1 .. Len(todo) - 1 : Tail(todo)[i] = todo[i + 1]
  BY <1>1 DEF Stage
<1> DEFINE s == Stage
<1>3. s \in AnyStage
  BY <1>2
<1> HIDE DEF s
<1>4. /\ s.step \in {"Check", "Refuse", "Friend", "Row"} => s.answer \in Rejection
      /\ s.step \in {"Register", "Forget"} => s.kind \in RowKinds
      /\ s.step = "Web" => s.effect \in BOOLEAN
  BY <1>3 DEF AnyStage
<1>5. s.step = "Segments" =>
        /\ s.parts \in Seq(Part) /\ s.group \in BOOLEAN /\ s.quotes \in BOOLEAN
  BY <1>3 DEF AnyStage
<1> QED
  BY <1>2, <1>4, <1>5 DEF s

\* Behind an effect only closing stages are left.
LEMMA ClosingStage ==
  ASSUME ActionTypes, TodoFits, todo # <<>>, effects # 0
  PROVE  /\ missing = 0 /\ Stage \in Closing /\ ~Acts(Stage)
         /\ Stage.step \in {"Register", "Forget", "Unfriend", "Check"}
         /\ Stage.step = "Check" => Stage.answer = "QqFailure"
<1>1. Stage \in Closing /\ missing = 0
  BY StageFits DEF TodoFits
<1> QED
  BY <1>1 DEF Closing, Quiet

\* Files are missing exactly when the stage at hand uploads one.
LEMMA MissingFits ==
  ASSUME ActionTypes, TodoFits, todo # <<>>
  PROVE  Stage.step = "Upload" <=> missing >= 1
<1>1. 1 \in DOMAIN todo /\ Stage = todo[1] /\ missing \in Nat
  BY StageFits DEF ActionTypes
<1> QED
  BY <1>1 DEF TodoFits, UploadsFirst

\* The rest of a program behind its first stage.
LEMMA RestFits ==
  ASSUME NEW stages \in Seq(AnyStage), stages # <<>>, Ordered(stages)
  PROVE  /\ Ordered(Tail(stages))
         /\ \A uploads \in Nat :
              UploadsFirst(stages, uploads + 1) => UploadsFirst(Tail(stages), uploads)
         /\ UploadsFirst(stages, 0) => UploadsFirst(Tail(stages), 0)
         /\ \A taken, fits \in BOOLEAN :
              /\ TicketsCome(stages, taken, fits)
              /\ ~TakesToken(stages[1]) /\ ~TakesCookie(stages[1])
              => TicketsCome(Tail(stages), taken, fits)
         /\ (\E i \in DOMAIN stages : Acts(stages[i])) /\ ~Acts(stages[1])
            => \E i \in DOMAIN Tail(stages) : Acts(Tail(stages)[i])
         /\ Acts(stages[1]) => \A i \in DOMAIN Tail(stages) : Tail(stages)[i] \in Closing
         /\ (\A i \in DOMAIN stages : stages[i] \in Closing)
            => \A i \in DOMAIN Tail(stages) : Tail(stages)[i] \in Closing
<1> DEFINE rest == Tail(stages)
<1>1. /\ Len(stages) \in Nat /\ Len(stages) > 0 /\ DOMAIN stages = 1 .. Len(stages)
      /\ DOMAIN rest = 1 .. Len(stages) - 1
      /\ \A i \in DOMAIN rest : rest[i] = stages[i + 1] /\ i + 1 \in DOMAIN stages /\ i \in Nat
      /\ \A i \in DOMAIN stages : i # 1 => i - 1 \in DOMAIN rest /\ stages[i] = rest[i - 1]
  OBVIOUS
<1> HIDE DEF rest
<1>2. Ordered(rest)
  BY <1>1 DEF Ordered
<1>3. \A uploads \in Nat : UploadsFirst(stages, uploads + 1) => UploadsFirst(rest, uploads)
  <2> SUFFICES ASSUME NEW uploads \in Nat, UploadsFirst(stages, uploads + 1),
                      NEW i \in DOMAIN rest
               PROVE  rest[i].step = "Upload" <=> i <= uploads
    BY DEF UploadsFirst
  <2>1. stages[i + 1].step = "Upload" <=> i + 1 <= uploads + 1
    BY <1>1 DEF UploadsFirst
  <2> QED
    BY <2>1, <1>1
<1>4. UploadsFirst(stages, 0) => UploadsFirst(rest, 0)
  <2> SUFFICES ASSUME UploadsFirst(stages, 0), NEW i \in DOMAIN rest
               PROVE  rest[i].step = "Upload" <=> i <= 0
    BY DEF UploadsFirst
  <2>1. stages[i + 1].step = "Upload" <=> i + 1 <= 0
    BY <1>1 DEF UploadsFirst
  <2> QED
    BY <2>1, <1>1
<1>5. ASSUME NEW taken \in BOOLEAN, NEW fits \in BOOLEAN, TicketsCome(stages, taken, fits),
             ~TakesToken(stages[1]), ~TakesCookie(stages[1])
      PROVE  TicketsCome(rest, taken, fits)
  <2> SUFFICES ASSUME NEW k \in DOMAIN rest, Signed(rest[k]), ~(taken /\ fits)
               PROVE  \E i \in DOMAIN rest :
                        /\ i < k /\ TakesCookie(rest[i])
                        /\ taken \/ \E j \in DOMAIN rest : j < i /\ TakesToken(rest[j])
    BY DEF TicketsCome
  <2>1. k + 1 \in DOMAIN stages /\ Signed(stages[k + 1]) /\ k \in Nat
    BY <1>1
  <2>2. PICK i \in DOMAIN stages :
          /\ i < k + 1 /\ TakesCookie(stages[i])
          /\ taken \/ \E j \in DOMAIN stages : j < i /\ TakesToken(stages[j])
    BY <1>5, <2>1 DEF TicketsCome
  <2>3. i # 1 /\ i \in Nat
    BY <1>1, <1>5, <2>2
  <2>4. i - 1 \in DOMAIN rest /\ i - 1 < k /\ TakesCookie(rest[i - 1])
    BY <1>1, <2>1, <2>2, <2>3
  <2>5. ASSUME ~taken
        PROVE  \E j \in DOMAIN rest : j < i - 1 /\ TakesToken(rest[j])
    <3>1. PICK j \in DOMAIN stages : j < i /\ TakesToken(stages[j])
      BY <2>2, <2>5
    <3>2. j # 1 /\ j \in Nat
      BY <1>1, <1>5, <3>1
    <3>3. j - 1 \in DOMAIN rest /\ j - 1 < i - 1 /\ TakesToken(rest[j - 1])
      BY <1>1, <2>3, <3>1, <3>2
    <3> QED
      BY <3>3
  <2> QED
    BY <2>4, <2>5
<1>6. /\ (\E i \in DOMAIN stages : Acts(stages[i])) /\ ~Acts(stages[1])
         => \E i \in DOMAIN rest : Acts(rest[i])
      /\ (\A i \in DOMAIN stages : stages[i] \in Closing)
         => \A i \in DOMAIN rest : rest[i] \in Closing
  BY <1>1
<1>7. Acts(stages[1]) => \A i \in DOMAIN rest : rest[i] \in Closing
  BY <1>1 DEF Ordered
<1> QED
  BY <1>2, <1>3, <1>4, <1>5, <1>6, <1>7 DEF rest

\* Stages put before the rest of a program: uploads, or quiet ones.
LEMMA FrontFits ==
  ASSUME NEW first \in Seq(AnyStage), NEW rest \in Seq(AnyStage), NEW uploads \in Nat,
         \A i \in DOMAIN first : ~Acts(first[i]) /\ ~Signed(first[i]),
         \/ uploads = 0 /\ \A i \in DOMAIN first : first[i].step # "Upload"
         \/ uploads = Len(first) /\ \A i \in DOMAIN first : first[i].step = "Upload",
         Ordered(rest), UploadsFirst(rest, 0)
  PROVE  /\ first \o rest \in Seq(AnyStage) /\ Ordered(first \o rest)
         /\ UploadsFirst(first \o rest, uploads)
         /\ \A taken, fits \in BOOLEAN :
              TicketsCome(rest, taken, fits) => TicketsCome(first \o rest, taken, fits)
         /\ (\E i \in DOMAIN rest : Acts(rest[i]))
            => \E i \in DOMAIN (first \o rest) : Acts((first \o rest)[i])
<1> DEFINE all == first \o rest
           n == Len(first)
<1>1. /\ all \in Seq(AnyStage) /\ Len(all) = n + Len(rest)
      /\ \A i \in 1 .. n + Len(rest) : all[i] = IF i <= n THEN first[i] ELSE rest[i - n]
  BY ConcatProperties
<1>2. n \in Nat /\ Len(rest) \in Nat /\ DOMAIN first = 1 .. n /\ DOMAIN rest = 1 .. Len(rest)
  OBVIOUS
<1> HIDE DEF all, n
<1>3. \A i \in DOMAIN all :
        /\ i \in Nat
        /\ i <= n => i \in DOMAIN first /\ all[i] = first[i]
        /\ ~(i <= n) => i - n \in DOMAIN rest /\ all[i] = rest[i - n]
  BY <1>1, <1>2
<1>4. \A i \in DOMAIN rest : i + n \in DOMAIN all /\ all[i + n] = rest[i] /\ i \in Nat /\ i > 0
  <2> TAKE i \in DOMAIN rest
  <2>1. i + n \in 1 .. n + Len(rest) /\ ~(i + n <= n) /\ (i + n) - n = i /\ i \in Nat /\ i > 0
    BY <1>2
  <2> QED
    BY <1>1, <2>1
<1>5. Ordered(all)
  <2> SUFFICES ASSUME NEW i \in DOMAIN all, NEW j \in DOMAIN all, i < j, Acts(all[i])
               PROVE  all[j] \in Closing
    BY DEF Ordered
  <2>1. ~(i <= n)
    BY <1>3
  <2>2. ~(j <= n) /\ i - n < j - n
    BY <1>2, <1>3, <2>1
  <2>3. /\ i - n \in DOMAIN rest /\ j - n \in DOMAIN rest
        /\ all[i] = rest[i - n] /\ all[j] = rest[j - n]
    BY <1>3, <2>1, <2>2
  <2> QED
    BY <2>2, <2>3 DEF Ordered
<1>6. UploadsFirst(all, uploads)
  <2> SUFFICES ASSUME NEW i \in DOMAIN all PROVE all[i].step = "Upload" <=> i <= uploads
    BY DEF UploadsFirst
  <2>1. CASE i <= n
    <3>1. all[i] = first[i] /\ i \in DOMAIN first /\ i > 0 /\ i \in Nat
      BY <1>2, <1>3, <2>1
    <3>2. CASE uploads = 0 /\ first[i].step # "Upload"
      BY <3>1, <3>2
    <3>3. CASE uploads = n /\ first[i].step = "Upload"
      BY <2>1, <3>1, <3>3
    <3> QED
      BY <3>1, <3>2, <3>3 DEF n
  <2>2. CASE ~(i <= n)
    <3>1. all[i] = rest[i - n] /\ i - n \in DOMAIN rest /\ i - n > 0
      BY <1>2, <1>3, <2>2
    <3>2. rest[i - n].step # "Upload"
      BY <3>1, <1>2 DEF UploadsFirst
    <3>3. uploads = 0 \/ uploads = n
      BY DEF n
    <3>4. i \in Nat /\ n \in Nat /\ i > n
      BY <1>2, <1>3, <2>2
    <3>5. ~(i <= uploads)
      BY <3>3, <3>4
    <3> QED
      BY <3>1, <3>2, <3>5
  <2> QED
    BY <2>1, <2>2
<1>7. ASSUME NEW taken \in BOOLEAN, NEW fits \in BOOLEAN, TicketsCome(rest, taken, fits)
      PROVE  TicketsCome(all, taken, fits)
  <2> SUFFICES ASSUME NEW k \in DOMAIN all, Signed(all[k]), ~(taken /\ fits)
               PROVE  \E i \in DOMAIN all :
                        /\ i < k /\ TakesCookie(all[i])
                        /\ taken \/ \E j \in DOMAIN all : j < i /\ TakesToken(all[j])
    BY DEF TicketsCome
  <2>1. k - n \in DOMAIN rest /\ Signed(rest[k - n]) /\ k \in Nat
    BY <1>3
  <2>2. PICK i \in DOMAIN rest :
          /\ i < k - n /\ TakesCookie(rest[i])
          /\ taken \/ \E j \in DOMAIN rest : j < i /\ TakesToken(rest[j])
    BY <1>7, <2>1 DEF TicketsCome
  <2>3. i + n \in DOMAIN all /\ i + n < k /\ TakesCookie(all[i + n]) /\ i \in Nat
    BY <1>2, <1>4, <2>1, <2>2
  <2>4. ASSUME ~taken PROVE \E j \in DOMAIN all : j < i + n /\ TakesToken(all[j])
    <3>1. PICK j \in DOMAIN rest : j < i /\ TakesToken(rest[j])
      BY <2>2, <2>4
    <3>2. j + n \in DOMAIN all /\ j + n < i + n /\ TakesToken(all[j + n])
      BY <1>2, <1>4, <2>3, <3>1
    <3> QED
      BY <3>2
  <2> QED
    BY <2>3, <2>4
<1>8. (\E i \in DOMAIN rest : Acts(rest[i])) => \E i \in DOMAIN all : Acts(all[i])
  BY <1>4
<1> QED
  BY <1>1, <1>5, <1>6, <1>7, <1>8 DEF all

\* A step that changes nothing of what is left and done.
LEMMA StagesKept ==
  ASSUME ActionTypes, TodoFits, TokensFit,
         UNCHANGED <<todo, answer, missing, due, effects, lapsed, token, cookie, skey>>
  PROVE  TodoFits' /\ TokensFit'
BY DEF TodoFits, TokensFit, Ordered, UploadsFirst, TicketsCome

\* The stage at hand is done, without an effect and without an skey.
LEMMA StageDone ==
  ASSUME ActionTypes, TodoFits, TokensFit, todo # <<>>, answer = "None",
         ~Acts(Stage), Stage.step \notin {"Upload", "Skey"}, todo' = Tail(todo),
         UNCHANGED <<answer, missing, due, effects, lapsed, token, cookie, skey>>
  PROVE  TodoFits' /\ TokensFit' /\ todo' \in Seq(AnyStage)
<1>1. todo \in Seq(AnyStage) /\ Stage = todo[1] /\ missing = 0 /\ Tail(todo) \in Seq(AnyStage)
  BY StageFits, MissingFits DEF ActionTypes
<1>2. ~TakesToken(todo[1]) /\ ~TakesCookie(todo[1]) /\ ~Acts(todo[1])
  BY <1>1 DEF TakesToken, TakesCookie
<1>3. Ordered(todo) /\ UploadsFirst(todo, 0)
  BY <1>1 DEF TodoFits
<1>4. /\ Ordered(Tail(todo)) /\ UploadsFirst(Tail(todo), 0)
      /\ \A taken, fits \in BOOLEAN :
           TicketsCome(todo, taken, fits) => TicketsCome(Tail(todo), taken, fits)
      /\ (\E i \in DOMAIN todo : Acts(todo[i]))
         => \E i \in DOMAIN Tail(todo) : Acts(Tail(todo)[i])
      /\ (\A i \in DOMAIN todo : todo[i] \in Closing)
         => \A i \in DOMAIN Tail(todo) : Tail(todo)[i] \in Closing
  BY <1>1, <1>2, <1>3, RestFits
<1>5. TodoFits'
  BY <1>1, <1>4 DEF TodoFits
<1>6. TicketsCome(Tail(todo), token # 0, token = cookie \/ lapsed)
  BY <1>4 DEF TokensFit
<1>7. TokensFit'
  BY <1>6 DEF TokensFit
<1> QED
  BY <1>1, <1>5, <1>7

\* Nothing is left of a program that is rejected; one that acted only by a
\* failure of QQ.
LEMMA ProgramRejected ==
  ASSUME ActionTypes, TodoFits, todo' = <<>>, answer' \in Rejection,
         due' = due, effects' \in {0, 1},
         effects' # 0 => missing' = 0 /\ answer' = "QqFailure",
         token' # 0 => token' = skey' \/ lapsed'
  PROVE  TodoFits' /\ TokensFit' /\ todo' \in Seq(AnyStage)
<1>1. Ordered(<<>>) /\ TicketsCome(<<>>, token' # 0, token' = cookie' \/ lapsed')
  BY DEF Ordered, TicketsCome
<1>2. UploadsFirst(<<>>, missing')
  BY DEF UploadsFirst
<1>3. answer' # "Ok" /\ answer' # "None"
  BY DEF Rejection
<1>4. \A i \in DOMAIN <<>> : <<>>[i] \in Closing
  OBVIOUS
<1>5. TodoFits'
  BY <1>1, <1>2, <1>3, <1>4 DEF TodoFits
<1>6. TokensFit'
  BY <1>1 DEF TokensFit
<1> QED
  BY <1>5, <1>6

\* The rejections of a stage without effect.
LEMMA StageRejected ==
  ASSUME ActionTypes, TodoFits, TokensFit, todo # <<>>, todo' = <<>>,
         answer' \in Rejection,
         effects # 0 => answer' = "QqFailure",
         UNCHANGED <<due, effects, lapsed, token, skey>>,
         missing' = missing \/ effects = 0
  PROVE  TodoFits' /\ TokensFit' /\ todo' \in Seq(AnyStage)
<1>1. effects' \in {0, 1}
  BY DEF ActionTypes
<1>2. effects' # 0 => missing' = 0 /\ answer' = "QqFailure"
  BY DEF TodoFits
<1>3. token' # 0 => token' = skey' \/ lapsed'
  BY DEF TokensFit
<1> QED
  BY <1>1, <1>2, <1>3, ProgramRejected

\* A stage is at hand only in a request.
LEMMA AtStage ==
  ASSUME NEW name, At(name)
  PROVE  answer = "None" /\ todo # <<>> /\ Stage.step = name
BY DEF At, Idle, Stage

\* Stages that only go on or reject.
LEMMA CheckSteps ==
  ASSUME ActionsInv, NEW ok \in BOOLEAN,
         Check(ok) \/ Refuse \/ Exchange(ok) \/ UseFriend \/ LookUp
  PROVE  ActionsInv'
<1> USE DEF ActionsInv
<1>1. \/ At("Check") \/ At("Refuse") \/ At("Query") \/ At("Friend") \/ At("Row")
  BY DEF Check, Refuse, Exchange, UseFriend, LookUp
<1>2. /\ answer = "None" /\ todo # <<>>
      /\ Stage.step \in {"Check", "Refuse", "Query", "Friend", "Row"}
  BY <1>1, AtStage
<1>3. ~Acts(Stage) /\ Stage.step \notin {"Upload", "Skey"}
  BY <1>2 DEF Acts
<1>4. /\ UNCHANGED <<friends, rows, session, skey, clientKey, ticket, token, cookie, missing,
                     due, effects, lapsed, count, request>>
      /\ \/ todo' = Tail(todo) /\ UNCHANGED <<answer, pages>>
         \/ /\ todo' = <<>> /\ pages' = 0
            /\ answer' = "QqFailure" \/ (answer' = Stage.answer /\ Stage.step # "Query")
  <2>1. UNCHANGED <<caches, values, history, count>>
    BY DEF Check, Refuse, Exchange, UseFriend, LookUp
  <2>2. ASSUME Check(ok) PROVE Proceed \/ (Reject(Stage.answer) /\ Stage.step # "Query")
    BY <2>2, AtStage DEF Check
  <2>3. ASSUME Refuse PROVE Reject(Stage.answer) /\ Stage.step # "Query"
    BY <2>3, AtStage DEF Refuse
  <2>4. ASSUME Exchange(ok) PROVE Proceed \/ Reject("QqFailure")
    BY <2>4 DEF Exchange
  <2>5. ASSUME UseFriend PROVE Proceed
    BY <2>5 DEF UseFriend
  <2>6. ASSUME LookUp
        PROVE  Proceed \/ Reject("QqFailure") \/ (Reject(Stage.answer) /\ Stage.step # "Query")
    BY <2>6, AtStage DEF LookUp
  <2>7. Proceed \/ Reject("QqFailure") \/ (Reject(Stage.answer) /\ Stage.step # "Query")
    BY <2>2, <2>3, <2>4, <2>5, <2>6
  <2> QED
    BY <2>1, <2>7 DEF caches, values, history, Proceed, Reject
<1>5. CASE todo' = Tail(todo) /\ UNCHANGED <<answer, pages>>
  <2>1. TodoFits' /\ TokensFit' /\ todo' \in Seq(AnyStage)
    BY <1>2, <1>3, <1>4, <1>5, StageDone
  <2>2. ActionTypes'
    BY <1>4, <1>5, <2>1 DEF ActionTypes, ActionsTypeOK
  <2> QED
    BY <2>1, <2>2
<1>6. CASE /\ todo' = <<>> /\ pages' = 0
           /\ answer' = "QqFailure" \/ (answer' = Stage.answer /\ Stage.step # "Query")
  <2>1. answer' \in Rejection
    BY <1>2, <1>6, StageFits DEF Rejection
  <2>2. effects # 0 => answer' = "QqFailure"
    BY <1>2, <1>6, ClosingStage
  <2>3. TodoFits' /\ TokensFit' /\ todo' \in Seq(AnyStage)
    BY <1>2, <1>4, <1>6, <2>1, <2>2, StageRejected
  <2>4. 0 \in 0 .. PageLimit - 1
    BY ActionAssumption
  <2>5. ActionTypes'
    BY <1>4, <1>6, <2>1, <2>3, <2>4 DEF ActionTypes, ActionsTypeOK, Rejection
  <2> QED
    BY <2>3, <2>5
<1> QED
  BY <1>4, <1>5, <1>6

\* Loops over pages, and caches that are filled or emptied.
LEMMA CacheSteps ==
  ASSUME ActionsInv, NEW ok \in BOOLEAN, NEW more \in BOOLEAN, NEW found \in BOOLEAN,
         \/ Page(ok, more) \/ RefreshFriends(ok, more, found) \/ Unfriend
         \/ Register(ok) \/ Forget(ok) \/ DomainTicket(ok)
  PROVE  ActionsInv'
<1> USE DEF ActionsInv
<1>1. \/ At("Pages") \/ At("FriendList") \/ At("Friend") \/ At("Unfriend") \/ At("Clear")
      \/ At("Register") \/ At("Forget") \/ At("Ticket")
  BY DEF Page, RefreshFriends, Unfriend, Register, Forget, DomainTicket
<1>2. /\ answer = "None" /\ todo # <<>>
      /\ Stage.step \in {"Pages", "FriendList", "Friend", "Unfriend", "Clear", "Register",
                         "Forget", "Ticket"}
  BY <1>1, AtStage
<1>3. ~Acts(Stage) /\ Stage.step \notin {"Upload", "Skey"}
  BY <1>2 DEF Acts
<1>4. /\ UNCHANGED <<session, skey, clientKey, token, cookie, missing, due, effects, lapsed>>
      /\ \/ todo' = Tail(todo) /\ answer' = answer /\ pages' \in {pages, 0}
         \/ /\ todo' = <<>> /\ pages' = 0
            /\ answer' = "QqFailure" \/ (answer' = Stage.answer /\ Stage.step = "Friend")
         \/ UNCHANGED <<todo, answer>> /\ pages' = pages + 1 /\ pages + 1 # PageLimit
      /\ friends' \in {friends, found, FALSE} /\ ticket' \in {ticket, TRUE}
      /\ rows' = rows \/ (Stage.step = "Register" /\ rows' = rows \union {Stage.kind})
         \/ (Stage.step = "Forget" /\ rows' = rows \ {Stage.kind})
  <2> USE DEF caches, values, history, Proceed, Reject, Again, LeaveLoop, LastPage
  <2>1. CASE Page(ok, more)
    BY <2>1 DEF Page
  <2>2. CASE RefreshFriends(ok, more, found)
    <3>1. At("Friend") => Stage.step = "Friend"
      BY AtStage
    <3> QED
      BY <2>2, <3>1 DEF RefreshFriends
  <2>3. CASE Unfriend
    BY <2>3 DEF Unfriend
  <2>4. CASE Register(ok)
    <3>1. Stage.step = "Register"
      BY <2>4, AtStage DEF Register
    <3> QED
      BY <2>4, <3>1 DEF Register
  <2>5. CASE Forget(ok)
    <3>1. Stage.step = "Forget"
      BY <2>5, AtStage DEF Forget
    <3> QED
      BY <2>5, <3>1 DEF Forget
  <2>6. CASE DomainTicket(ok)
    BY <2>6 DEF DomainTicket
  <2> QED
    BY <2>1, <2>2, <2>3, <2>4, <2>5, <2>6
<1>5. 0 \in 0 .. PageLimit - 1
  BY ActionAssumption
<1>6. rows' \subseteq RowKinds
  BY <1>2, <1>4, StageFits DEF ActionTypes, ActionsTypeOK
<1>7. ASSUME answer' = answer \/ answer' \in Rejection, todo' \in Seq(AnyStage),
             pages' \in 0 .. PageLimit - 1
      PROVE  ActionTypes'
  BY <1>4, <1>6, <1>7 DEF ActionTypes, ActionsTypeOK, Rejection
<1>8. CASE todo' = Tail(todo) /\ answer' = answer /\ pages' \in {pages, 0}
  <2>1. TodoFits' /\ TokensFit' /\ todo' \in Seq(AnyStage)
    BY <1>2, <1>3, <1>4, <1>8, StageDone
  <2>2. pages' \in 0 .. PageLimit - 1
    BY <1>5, <1>8 DEF ActionTypes, ActionsTypeOK
  <2> QED
    BY <1>7, <1>8, <2>1, <2>2
<1>9. CASE /\ todo' = <<>> /\ pages' = 0
           /\ answer' = "QqFailure" \/ (answer' = Stage.answer /\ Stage.step = "Friend")
  <2>1. answer' \in Rejection
    BY <1>2, <1>9, StageFits DEF Rejection
  <2>2. effects # 0 => answer' = "QqFailure"
    BY <1>2, <1>9, ClosingStage
  <2>3. TodoFits' /\ TokensFit' /\ todo' \in Seq(AnyStage)
    BY <1>2, <1>4, <1>9, <2>1, <2>2, StageRejected
  <2> QED
    BY <1>5, <1>7, <1>9, <2>1, <2>3
<1>10. CASE UNCHANGED <<todo, answer>> /\ pages' = pages + 1 /\ pages + 1 # PageLimit
  <2>1. TodoFits' /\ TokensFit'
    BY <1>4, <1>10, StagesKept
  <2>2. pages' \in 0 .. PageLimit - 1
    BY <1>10, ActionAssumption DEF ActionTypes, ActionsTypeOK
  <2>3. todo' \in Seq(AnyStage)
    BY <1>10 DEF ActionTypes
  <2> QED
    BY <1>7, <1>10, <2>1, <2>2, <2>3
<1> QED
  BY <1>4, <1>8, <1>9, <1>10

\* Quiet stages take the place of the stage at hand, or come before it.
LEMMA StagesAdded ==
  ASSUME ActionTypes, TodoFits, TokensFit, todo # <<>>, answer = "None",
         ~Acts(Stage), Stage.step \notin {"Upload", "Skey"},
         NEW first \in Seq(Quiet), todo' = first \o todo \/ todo' = first \o Tail(todo),
         effects = 0,
         UNCHANGED <<answer, missing, due, effects, lapsed, token, cookie, skey>>
  PROVE  TodoFits' /\ TokensFit' /\ todo' \in Seq(AnyStage)
<1>1. todo \in Seq(AnyStage) /\ Stage = todo[1] /\ missing = 0 /\ Tail(todo) \in Seq(AnyStage)
  BY StageFits, MissingFits DEF ActionTypes
<1>2. ~TakesToken(todo[1]) /\ ~TakesCookie(todo[1]) /\ ~Acts(todo[1])
  BY <1>1 DEF TakesToken, TakesCookie
<1>3. Ordered(todo) /\ UploadsFirst(todo, 0)
  BY <1>1 DEF TodoFits
<1>4. PICK rest \in {todo, Tail(todo)} : todo' = first \o rest
  OBVIOUS
<1>5. /\ rest \in Seq(AnyStage) /\ Ordered(rest) /\ UploadsFirst(rest, 0)
      /\ \A taken, fits \in BOOLEAN :
           TicketsCome(todo, taken, fits) => TicketsCome(rest, taken, fits)
      /\ (\E i \in DOMAIN todo : Acts(todo[i])) => \E i \in DOMAIN rest : Acts(rest[i])
  BY <1>1, <1>2, <1>3, RestFits
<1>6. /\ first \in Seq(AnyStage)
      /\ \A i \in DOMAIN first :
           ~Acts(first[i]) /\ ~Signed(first[i]) /\ first[i].step # "Upload"
  <2>1. \A a \in Quiet : ~Acts(a) /\ ~Signed(a) /\ a.step # "Upload"
    BY DEF Quiet, Planned
  <2> QED
    BY <2>1, StageKinds
<1>7. /\ first \o rest \in Seq(AnyStage) /\ Ordered(first \o rest)
      /\ UploadsFirst(first \o rest, 0)
      /\ \A taken, fits \in BOOLEAN :
           TicketsCome(rest, taken, fits) => TicketsCome(first \o rest, taken, fits)
      /\ (\E i \in DOMAIN rest : Acts(rest[i]))
         => \E i \in DOMAIN (first \o rest) : Acts((first \o rest)[i])
  BY <1>5, <1>6, FrontFits
<1> DEFINE next == first \o rest
<1>8. /\ next \in Seq(AnyStage) /\ Ordered(next) /\ UploadsFirst(next, 0)
      /\ \A taken, fits \in BOOLEAN :
           TicketsCome(todo, taken, fits) => TicketsCome(next, taken, fits)
      /\ (\E i \in DOMAIN todo : Acts(todo[i])) => \E i \in DOMAIN next : Acts(next[i])
  BY <1>5, <1>7
<1>9. todo' = next
  BY <1>4
<1> HIDE DEF next
<1>10. TodoFits'
  BY <1>1, <1>8, <1>9 DEF TodoFits
<1>11. TicketsCome(next, token # 0, token = cookie \/ lapsed)
  BY <1>8 DEF TokensFit
<1>12. TokensFit'
  BY <1>9, <1>11 DEF TokensFit
<1> QED
  BY <1>8, <1>9, <1>10, <1>12

\* The next segment, and a page of the web that needs cookies again.
LEMMA RoundSteps ==
  ASSUME ActionsInv, NEW ok \in BOOLEAN, NEW more \in BOOLEAN,
         CompileNext \/ WebPage(ok, more)
  PROVE  ActionsInv'
<1> USE DEF ActionsInv
<1>1. answer = "None" /\ todo # <<>> /\ Stage.step \in {"Segments", "WebPages"}
  BY AtStage DEF CompileNext, WebPage
<1>2. ~Acts(Stage) /\ Stage.step \notin {"Upload", "Skey"} /\ effects = 0
  BY <1>1, ClosingStage DEF Acts
<1>3. UNCHANGED <<friends, rows, session, skey, clientKey, ticket, token, cookie, missing,
                  due, effects, lapsed>>
  BY DEF CompileNext, WebPage, caches, values, history
<1>4. \/ /\ todo' = Tail(todo) /\ answer' = answer /\ pages' \in {pages, 0}
      \/ todo' = <<>> /\ pages' = 0 /\ answer' = "QqFailure"
      \/ /\ \E first \in Seq(Quiet) : todo' = first \o todo \/ todo' = first \o Tail(todo)
         /\ answer' = answer
         /\ pages' = pages \/ (pages' = pages + 1 /\ pages + 1 # PageLimit)
  <2>1. CASE CompileNext
    <3>1. /\ UNCHANGED <<answer, pages>>
          /\ todo' = IF Stage.parts = <<>> THEN Tail(todo)
                     ELSE Compiled(Head(Stage.parts), Stage.group, Stage.quotes)
                          \o <<Segments(Tail(Stage.parts), Stage.group, Stage.quotes)>>
                          \o Tail(todo)
      BY <2>1 DEF CompileNext
    <3>2. Stage.step = "Segments"
      BY <2>1, AtStage DEF CompileNext
    <3>3. CASE Stage.parts # <<>>
      <4> DEFINE compiled == Compiled(Head(Stage.parts), Stage.group, Stage.quotes)
                 later == Segments(Tail(Stage.parts), Stage.group, Stage.quotes)
      <4>1. /\ Stage.parts \in Seq(Part) /\ Stage.group \in BOOLEAN /\ Stage.quotes \in BOOLEAN
        BY <1>1, <3>2, StageFits
      <4>2. Head(Stage.parts) \in Part /\ Tail(Stage.parts) \in Seq(Part)
        BY <3>3, <4>1
      <4>3. compiled \in Seq(Quiet)
        BY <4>1, <4>2, CompiledQuiet
      <4>5. later \in Quiet
        BY <4>1, <4>2, StagesFit DEF Segments
      <4>6. <<later>> \in Seq(Quiet)
        BY <4>5, Singles
      <4>7. compiled \o <<later>> \in Seq(Quiet)
        BY <4>3, <4>6, QuietBoth, Zenon
      <4>8. todo' = (compiled \o <<later>>) \o Tail(todo)
        BY <3>1, <3>3
      <4> QED
        BY <3>1, <4>7, <4>8
    <3> QED
      BY <3>1, <3>3
  <2>2. CASE WebPage(ok, more)
    BY <2>2, CommonStages DEF WebPage, Reject, LeaveLoop, LastPage
  <2> QED
    BY <2>1, <2>2
<1>5. 0 \in 0 .. PageLimit - 1
  BY ActionAssumption
<1>6. ASSUME answer' \in {answer, "QqFailure"}, todo' \in Seq(AnyStage),
             pages' \in 0 .. PageLimit - 1
      PROVE  ActionTypes'
  BY <1>3, <1>6 DEF ActionTypes, ActionsTypeOK
<1>7. CASE todo' = Tail(todo) /\ answer' = answer /\ pages' \in {pages, 0}
  <2>1. TodoFits' /\ TokensFit' /\ todo' \in Seq(AnyStage)
    BY <1>1, <1>2, <1>3, <1>7, StageDone
  <2>2. pages' \in 0 .. PageLimit - 1
    BY <1>5, <1>7 DEF ActionTypes, ActionsTypeOK
  <2> QED
    BY <1>6, <1>7, <2>1, <2>2
<1>8. CASE todo' = <<>> /\ pages' = 0 /\ answer' = "QqFailure"
  <2>1. answer' \in Rejection
    BY <1>8 DEF Rejection
  <2>2. TodoFits' /\ TokensFit' /\ todo' \in Seq(AnyStage)
    BY <1>1, <1>3, <1>8, <2>1, StageRejected
  <2> QED
    BY <1>5, <1>6, <1>8, <2>2
<1>9. CASE /\ \E first \in Seq(Quiet) : todo' = first \o todo \/ todo' = first \o Tail(todo)
           /\ answer' = answer
           /\ pages' = pages \/ (pages' = pages + 1 /\ pages + 1 # PageLimit)
  <2>1. TodoFits' /\ TokensFit' /\ todo' \in Seq(AnyStage)
    BY <1>1, <1>2, <1>3, <1>9, StagesAdded
  <2>2. pages' \in 0 .. PageLimit - 1
    BY <1>9, ActionAssumption DEF ActionTypes, ActionsTypeOK
  <2> QED
    BY <1>6, <1>9, <2>1, <2>2
<1> QED
  BY <1>4, <1>7, <1>8, <1>9

\* What QQ acts upon, or does not.
LEMMA EffectSteps ==
  ASSUME ActionsInv, NEW outcome \in {"Done", "Lost", "Refused"},
         Act(outcome) \/ Request(outcome)
  PROVE  ActionsInv'
<1> USE DEF ActionsInv
<1>1. answer = "None" /\ todo # <<>> /\ Stage.step \in {"Control", "Web"}
  BY AtStage DEF Act, Request
<1>2. effects = 0
  BY <1>1, ClosingStage
<1>3. missing = 0 /\ todo \in Seq(AnyStage) /\ Stage = todo[1] /\ Tail(todo) \in Seq(AnyStage)
  BY <1>1, StageFits, MissingFits DEF ActionTypes
<1>4. /\ UNCHANGED <<friends, rows, session, skey, clientKey, ticket, token, cookie, missing,
                     due, lapsed>>
      /\ \/ todo' = Tail(todo) /\ UNCHANGED <<answer, pages>>
            /\ outcome = "Done"
         \/ todo' = <<>> /\ pages' = 0 /\ answer' = "QqFailure"
      /\ effects' = IF Acts(Stage) /\ outcome # "Refused" THEN 1 ELSE 0
  <2> USE DEF caches, values, Proceed, Reject, Lost
  <2>1. CASE Act(outcome)
    <3>1. Stage.step = "Control"
      BY <2>1, AtStage DEF Act
    <3>2. Acts(Stage)
      BY <3>1 DEF Acts
    <3> QED
      BY <1>2, <2>1, <3>2 DEF Act
  <2>2. CASE Request(outcome)
    <3>1. Stage.step = "Web"
      BY <2>2, AtStage DEF Request
    <3>2. Acts(Stage) <=> Stage.effect
      BY <3>1 DEF Acts
    <3> QED
      BY <1>2, <2>2, <3>2 DEF Request
  <2> QED
    BY <2>1, <2>2
<1>5. 0 \in 0 .. PageLimit - 1 /\ effects' \in {0, 1}
  BY <1>4, ActionAssumption
<1>6. ASSUME answer' \in {answer, "QqFailure"}, todo' \in Seq(AnyStage),
             pages' \in 0 .. PageLimit - 1
      PROVE  ActionTypes'
  BY <1>4, <1>5, <1>6 DEF ActionTypes, ActionsTypeOK
<1>7. CASE todo' = <<>> /\ pages' = 0 /\ answer' = "QqFailure"
  <2>1. answer' \in Rejection
    BY <1>7 DEF Rejection
  <2>2. token' # 0 => token' = skey' \/ lapsed'
    BY <1>4 DEF TokensFit
  <2>3. TodoFits' /\ TokensFit' /\ todo' \in Seq(AnyStage)
    BY <1>3, <1>4, <1>5, <1>7, <2>1, <2>2, ProgramRejected
  <2> QED
    BY <1>5, <1>6, <1>7, <2>3
<1>8. CASE todo' = Tail(todo) /\ UNCHANGED <<answer, pages>> /\ outcome = "Done"
  <2>1. CASE ~Acts(Stage)
    <3>1. effects' = effects
      BY <1>2, <1>4, <2>1
    <3>2. TodoFits' /\ TokensFit' /\ todo' \in Seq(AnyStage)
      BY <1>1, <1>4, <1>8, <2>1, <3>1, StageDone
    <3> QED
      BY <1>6, <1>8, <3>2 DEF ActionTypes, ActionsTypeOK
  <2>2. CASE Acts(Stage)
    <3>1. effects' = 1
      BY <1>4, <1>8, <2>2
    <3>2. ~TakesToken(todo[1]) /\ ~TakesCookie(todo[1])
      BY <1>1, <1>3 DEF TakesToken, TakesCookie
    <3>3. Ordered(todo) /\ UploadsFirst(todo, 0)
      BY <1>3 DEF TodoFits
    <3>4. /\ Ordered(Tail(todo)) /\ UploadsFirst(Tail(todo), 0)
          /\ \A taken, fits \in BOOLEAN :
               TicketsCome(todo, taken, fits) => TicketsCome(Tail(todo), taken, fits)
          /\ \A i \in DOMAIN Tail(todo) : Tail(todo)[i] \in Closing
      BY <1>1, <1>3, <2>2, <3>2, <3>3, RestFits
    <3>5. TodoFits'
      BY <1>1, <1>3, <1>4, <1>8, <3>1, <3>4 DEF TodoFits, Rejection
    <3>6. TicketsCome(Tail(todo), token # 0, token = cookie \/ lapsed)
      BY <3>4 DEF TokensFit
    <3>7. TokensFit'
      BY <1>4, <1>8, <3>6 DEF TokensFit
    <3> QED
      BY <1>3, <1>6, <1>8, <3>5, <3>7 DEF ActionTypes, ActionsTypeOK
  <2> QED
    BY <2>1, <2>2
<1> QED
  BY <1>4, <1>7, <1>8

\* A token or cookies are taken: the stages behind them are still covered.
LEMMA TicketRest ==
  ASSUME NEW stages \in Seq(AnyStage), stages # <<>>,
         NEW taken \in BOOLEAN, NEW fits \in BOOLEAN, NEW fitsNext \in BOOLEAN,
         TicketsCome(stages, taken, fits)
  PROVE  /\ TakesToken(stages[1]) /\ (taken /\ fits => fitsNext)
            => TicketsCome(Tail(stages), TRUE, fitsNext)
         /\ TakesCookie(stages[1]) /\ (taken => fitsNext)
            => TicketsCome(Tail(stages), taken, fitsNext)
<1> DEFINE rest == Tail(stages)
<1>1. /\ DOMAIN rest \subseteq Nat /\ DOMAIN stages \subseteq Nat
      /\ \A i \in DOMAIN rest : rest[i] = stages[i + 1] /\ i + 1 \in DOMAIN stages
      /\ \A i \in DOMAIN stages : i # 1 => i - 1 \in DOMAIN rest /\ stages[i] = rest[i - 1]
  OBVIOUS
<1> HIDE DEF rest
<1>2. ~(TakesToken(stages[1]) /\ TakesCookie(stages[1]))
  BY DEF TakesToken, TakesCookie
<1>3. ASSUME NEW k \in DOMAIN rest, Signed(rest[k]), ~(taken /\ fits)
      PROVE  \E i \in DOMAIN stages :
               /\ i < k + 1 /\ TakesCookie(stages[i])
               /\ taken \/ \E j \in DOMAIN stages : j < i /\ TakesToken(stages[j])
  <2>1. k + 1 \in DOMAIN stages /\ Signed(stages[k + 1])
    BY <1>1, <1>3
  <2> QED
    BY <1>3, <2>1 DEF TicketsCome
<1>4. ASSUME TakesToken(stages[1]), taken /\ fits => fitsNext
      PROVE  TicketsCome(rest, TRUE, fitsNext)
  <2> SUFFICES ASSUME NEW k \in DOMAIN rest, Signed(rest[k]), ~fitsNext
               PROVE  \E i \in DOMAIN rest : i < k /\ TakesCookie(rest[i])
    BY DEF TicketsCome
  <2>1. PICK i \in DOMAIN stages : i < k + 1 /\ TakesCookie(stages[i])
    BY <1>3, <1>4
  <2>2. i # 1
    BY <1>2, <1>4, <2>1
  <2>3. i - 1 \in DOMAIN rest /\ TakesCookie(rest[i - 1]) /\ i - 1 < k
    BY <1>1, <2>1, <2>2
  <2> QED
    BY <2>3
<1>5. ASSUME TakesCookie(stages[1]), taken => fitsNext
      PROVE  TicketsCome(rest, taken, fitsNext)
  <2> SUFFICES ASSUME NEW k \in DOMAIN rest, Signed(rest[k]), ~(taken /\ fitsNext)
               PROVE  \E i \in DOMAIN rest :
                        /\ i < k /\ TakesCookie(rest[i])
                        /\ taken \/ \E j \in DOMAIN rest : j < i /\ TakesToken(rest[j])
    BY DEF TicketsCome
  <2>1. ~taken
    BY <1>5
  <2>2. PICK i \in DOMAIN stages :
          /\ i < k + 1 /\ TakesCookie(stages[i])
          /\ \E j \in DOMAIN stages : j < i /\ TakesToken(stages[j])
    BY <1>3, <2>1
  <2>3. PICK j \in DOMAIN stages : j < i /\ TakesToken(stages[j])
    BY <2>2
  <2>4. j # 1 /\ i \in Nat /\ j \in Nat
    BY <1>1, <1>2, <1>5, <2>3
  <2>5. j - 1 \in DOMAIN rest /\ TakesToken(rest[j - 1]) /\ j - 1 < i - 1
    BY <1>1, <2>3, <2>4
  <2>6. j > 0
    <3>1. 0 \notin DOMAIN stages
      OBVIOUS
    <3> QED
      BY <2>4, <3>1
  <2>7. i # 1
    BY <2>3, <2>4, <2>6
  <2>8. i - 1 \in DOMAIN rest /\ TakesCookie(rest[i - 1]) /\ i - 1 < k
    BY <1>1, <2>2, <2>7
  <2> QED
    BY <2>5, <2>8
<1> QED
  BY <1>4, <1>5 DEF rest

\* The skey is taken: while the token did not lapse it is the one that is kept.
LEMMA SkeyTaken ==
  ASSUME ActionsInv, At("Skey"), NEW key \in 1 .. MaxKeys, UseSkey(key),
         skey' = key, skey # 0 => key = skey, clientKey' \in BOOLEAN,
         UNCHANGED <<friends, rows, session, ticket, missing, due, effects, lapsed>>
  PROVE  ActionsInv'
<1> USE DEF ActionsInv
<1>1. answer = "None" /\ todo # <<>> /\ Stage.step = "Skey"
  BY AtStage
<1>2. /\ todo \in Seq(AnyStage) /\ Stage = todo[1] /\ Stage \in AnyStage
      /\ missing = 0 /\ Tail(todo) \in Seq(AnyStage)
  BY <1>1, StageFits, MissingFits DEF ActionTypes
<1>3. effects = 0 /\ ~Acts(todo[1])
  BY <1>1, <1>2, ClosingStage DEF Acts
<1>4. Stage.of = "Token" \/ Stage.of = "Cookie"
  <2> DEFINE s == Stage
  <2>1. s \in AnyStage /\ s.step = "Skey"
    BY <1>1, <1>2
  <2> HIDE DEF s
  <2>2. s.of \in {"Token", "Cookie"}
    BY <2>1 DEF AnyStage
  <2> QED
    BY <2>2 DEF s
<1>5. /\ todo' = Tail(todo) /\ UNCHANGED <<answer, pages>>
      /\ token' = IF Stage.of = "Token" THEN key ELSE token
      /\ cookie' = IF Stage.of = "Cookie" THEN key ELSE cookie
  BY DEF UseSkey, Proceed
<1>6. Ordered(todo) /\ UploadsFirst(todo, 0)
  BY <1>2 DEF TodoFits
<1>7. /\ Ordered(Tail(todo)) /\ UploadsFirst(Tail(todo), 0)
      /\ (\E i \in DOMAIN todo : Acts(todo[i]))
         => \E i \in DOMAIN Tail(todo) : Acts(Tail(todo)[i])
  BY <1>1, <1>2, <1>3, <1>6, RestFits
<1>8. TodoFits'
  BY <1>1, <1>2, <1>3, <1>5, <1>7 DEF TodoFits, Rejection
<1>9. /\ token # 0 => token = skey \/ lapsed
      /\ TicketsCome(todo, token # 0, token = cookie \/ lapsed)
      /\ key # 0 /\ lapsed \in BOOLEAN
  BY DEF TokensFit, ActionTypes, ActionsTypeOK
<1>10. TokensFit'
  <2> DEFINE fitsNext == token' = cookie' \/ lapsed
  <2>1. CASE Stage.of = "Token"
    <3>1. token' = key /\ cookie' = cookie /\ TakesToken(todo[1])
      BY <1>1, <1>2, <1>5, <2>1 DEF TakesToken
    <3>2. token # 0 /\ (token = cookie \/ lapsed) => fitsNext
      BY <1>9, <3>1
    <3>3. TicketsCome(Tail(todo), TRUE, fitsNext)
      BY <1>1, <1>2, <1>9, <3>1, <3>2, TicketRest
    <3> QED
      BY <1>5, <1>9, <3>1, <3>3 DEF TokensFit
  <2>2. CASE Stage.of = "Cookie"
    <3>1. token' = token /\ cookie' = key /\ TakesCookie(todo[1])
      BY <1>1, <1>2, <1>5, <2>2 DEF TakesCookie
    <3>2. token # 0 => fitsNext
      BY <1>9, <3>1
    <3>3. TicketsCome(Tail(todo), token # 0, fitsNext)
      BY <1>1, <1>2, <1>9, <3>1, <3>2, TicketRest
    <3> QED
      BY <1>5, <1>9, <3>1, <3>3 DEF TokensFit
  <2> QED
    BY <1>4, <2>1, <2>2
<1>11. token' \in 0 .. MaxKeys /\ cookie' \in 0 .. MaxKeys /\ skey' \in 0 .. MaxKeys
  BY <1>5, ActionAssumption DEF ActionTypes, ActionsTypeOK
<1>12. ActionTypes'
  BY <1>2, <1>5, <1>11 DEF ActionTypes, ActionsTypeOK
<1> QED
  BY <1>8, <1>10, <1>12

\* The skey of the jar, or another one of the web.
LEMMA SkeySteps ==
  ASSUME ActionsInv, NEW ok \in BOOLEAN, NEW key \in 1 .. MaxKeys, NEW keyKept \in BOOLEAN,
         CachedSkey \/ FetchSkey(ok, key, keyKept)
  PROVE  ActionsInv'
<1> USE DEF ActionsInv
<1>1. At("Skey")
  BY DEF CachedSkey, FetchSkey
<1>2. CASE CachedSkey
  <2>1. skey \in 1 .. MaxKeys /\ clientKey' = clientKey /\ clientKey \in BOOLEAN
    BY <1>2, ActionAssumption DEF CachedSkey, caches, ActionTypes, ActionsTypeOK
  <2>2. /\ UseSkey(skey) /\ skey' = skey
        /\ UNCHANGED <<friends, rows, session, ticket, missing, due, effects, lapsed>>
    BY <1>2 DEF CachedSkey, caches, history
  <2> QED
    BY <1>1, <2>1, <2>2, SkeyTaken
<1>3. CASE FetchSkey(ok, key, keyKept) /\ ok
  <2>1. /\ skey = 0 /\ skey' = key /\ UseSkey(key) /\ clientKey' = (clientKey \/ keyKept)
        /\ UNCHANGED <<friends, rows, session, ticket, missing, due, effects, lapsed>>
    BY <1>3 DEF FetchSkey, history
  <2>2. clientKey' \in BOOLEAN
    BY <2>1
  <2> QED
    BY <1>1, <2>1, <2>2, SkeyTaken
<1>4. CASE FetchSkey(ok, key, keyKept) /\ ~ok
  <2>1. /\ Reject("QqFailure") /\ clientKey' = (clientKey \/ keyKept)
        /\ UNCHANGED <<friends, rows, session, ticket, missing, due, effects, lapsed, skey,
                       token, cookie>>
    BY <1>4 DEF FetchSkey, history
  <2>2. todo' = <<>> /\ answer' = "QqFailure" /\ pages' = 0 /\ clientKey' \in BOOLEAN
    BY <2>1 DEF Reject
  <2>3. answer' \in Rejection /\ todo # <<>>
    BY <1>1, <2>2, AtStage DEF Rejection
  <2>4. TodoFits' /\ TokensFit' /\ todo' \in Seq(AnyStage)
    BY <2>1, <2>2, <2>3, StageRejected
  <2>5. 0 \in 0 .. PageLimit - 1
    BY ActionAssumption
  <2>6. ActionTypes'
    BY <2>1, <2>2, <2>4, <2>5 DEF ActionTypes, ActionsTypeOK
  <2> QED
    BY <2>4, <2>6
<1> QED
  BY <1>2, <1>3, <1>4

\* Uploads: QQ plans them, a session is opened, and a file is transferred; the
\* uploads that are missing are as many as the uploads at hand.
LEMMA UploadSteps ==
  ASSUME ActionsInv, NEW ok \in BOOLEAN, NEW uploads \in 0 .. 2,
         PlanUploads(ok, uploads) \/ OpenSession(ok) \/ Transfer(ok)
  PROVE  ActionsInv'
<1> USE DEF ActionsInv
<1>1. answer = "None" /\ todo # <<>> /\ Stage.step \in {"Plan", "Upload", "Publish"}
  BY AtStage DEF PlanUploads, OpenSession, Transfer
<1>2. /\ todo \in Seq(AnyStage) /\ Stage = todo[1] /\ Tail(todo) \in Seq(AnyStage)
      /\ Stage.step = "Upload" <=> missing >= 1
      /\ ~TakesToken(todo[1]) /\ ~TakesCookie(todo[1])
  <2>1. todo \in Seq(AnyStage) /\ Stage = todo[1] /\ Tail(todo) \in Seq(AnyStage)
    BY <1>1, StageFits DEF ActionTypes
  <2> QED
    BY <1>1, <2>1, MissingFits DEF TakesToken, TakesCookie
<1>3. effects = 0 /\ missing \in 0 .. 2
  BY <1>1, ClosingStage DEF ActionTypes
<1>4. 0 \in 0 .. PageLimit - 1
  BY ActionAssumption
<1>5. UNCHANGED <<friends, rows, skey, clientKey, ticket, token, cookie, due, lapsed>>
  BY DEF PlanUploads, OpenSession, Transfer, caches, values, history
<1>6. token # 0 => token = skey \/ lapsed
  BY DEF TokensFit
<1>7. ASSUME answer' \in {answer, "QqFailure"}, todo' \in Seq(AnyStage),
             pages' \in {pages, 0}, session' \in BOOLEAN, missing' \in 0 .. 2,
             effects' \in {0, 1}
      PROVE  ActionTypes'
  BY <1>4, <1>5, <1>7 DEF ActionTypes, ActionsTypeOK
<1>8. ASSUME Reject("QqFailure"), session' \in BOOLEAN, missing' \in 0 .. 2, effects' = 0
      PROVE  ActionsInv'
  <2>1. todo' = <<>> /\ answer' = "QqFailure" /\ pages' = 0 /\ answer' \in Rejection
    BY <1>8 DEF Reject, Rejection
  <2>2. TodoFits' /\ TokensFit' /\ todo' \in Seq(AnyStage)
    BY <1>5, <1>6, <1>8, <2>1, ProgramRejected
  <2> QED
    BY <1>7, <1>8, <2>1, <2>2
<1>9. CASE PlanUploads(ok, uploads)
  <2>1. missing = 0 /\ ~Acts(todo[1])
    BY <1>1, <1>2, <1>3, <1>9, AtStage DEF PlanUploads, Acts
  <2>2. session' = session /\ session \in BOOLEAN /\ effects' = effects
    BY <1>9 DEF PlanUploads, caches, history, ActionTypes, ActionsTypeOK
  <2>3. CASE ok
    <3> DEFINE first == [i \in 1 .. uploads |-> Do("Upload")]
    <3>1. todo' = first \o Tail(todo) /\ missing' = uploads /\ UNCHANGED <<answer, pages>>
      <4>1. /\ todo' = first \o Tail(todo) /\ missing' = missing + uploads
            /\ UNCHANGED <<request, answer, pages>>
        BY <1>9, <2>3, Zenon DEF PlanUploads
      <4>2. missing + uploads = uploads
        BY <2>1
      <4> QED
        BY <4>1, <4>2
    <3>2. /\ first \in Seq(AnyStage) /\ Len(first) = uploads /\ uploads \in Nat
          /\ \A i \in DOMAIN first :
               ~Acts(first[i]) /\ ~Signed(first[i]) /\ first[i].step = "Upload"
      <4>1. /\ Do("Upload") \in AnyStage /\ Do("Upload").step = "Upload"
            /\ ~Acts(Do("Upload")) /\ ~Signed(Do("Upload"))
        BY DEF AnyStage, Do, Acts, Signed
      <4> QED
        BY <4>1
    <3> HIDE DEF first
    <3>3. Ordered(todo) /\ UploadsFirst(todo, 0)
      BY <2>1 DEF TodoFits
    <3>4. /\ Ordered(Tail(todo)) /\ UploadsFirst(Tail(todo), 0)
          /\ \A taken, fits \in BOOLEAN :
               TicketsCome(todo, taken, fits) => TicketsCome(Tail(todo), taken, fits)
          /\ (\E i \in DOMAIN todo : Acts(todo[i]))
             => \E i \in DOMAIN Tail(todo) : Acts(Tail(todo)[i])
      BY <1>1, <1>2, <2>1, <3>3, RestFits
    <3>5. /\ first \o Tail(todo) \in Seq(AnyStage) /\ Ordered(first \o Tail(todo))
          /\ UploadsFirst(first \o Tail(todo), uploads)
          /\ \A taken, fits \in BOOLEAN :
               TicketsCome(Tail(todo), taken, fits)
               => TicketsCome(first \o Tail(todo), taken, fits)
          /\ (\E i \in DOMAIN Tail(todo) : Acts(Tail(todo)[i]))
             => \E i \in DOMAIN (first \o Tail(todo)) : Acts((first \o Tail(todo))[i])
      BY <1>2, <3>2, <3>4, FrontFits
    <3> DEFINE next == first \o Tail(todo)
    <3>6. /\ todo' = next /\ next \in Seq(AnyStage) /\ Ordered(next)
          /\ UploadsFirst(next, uploads)
          /\ \A taken, fits \in BOOLEAN :
               TicketsCome(todo, taken, fits) => TicketsCome(next, taken, fits)
          /\ (\E i \in DOMAIN todo : Acts(todo[i])) => \E i \in DOMAIN next : Acts(next[i])
      BY <3>1, <3>4, <3>5
    <3> HIDE DEF next
    <3>7. TodoFits'
      BY <1>1, <1>3, <1>5, <2>2, <3>1, <3>6 DEF TodoFits, Rejection
    <3>8. TicketsCome(next, token # 0, token = cookie \/ lapsed)
      BY <3>6 DEF TokensFit
    <3>9. TokensFit'
      BY <1>5, <1>6, <3>6, <3>8 DEF TokensFit
    <3> QED
      BY <1>3, <1>7, <2>2, <3>1, <3>6, <3>7, <3>9
  <2>4. CASE ~ok
    BY <1>3, <1>8, <1>9, <2>2, <2>4 DEF PlanUploads
  <2> QED
    BY <2>3, <2>4
<1>10. CASE OpenSession(ok)
  <2>1. UNCHANGED <<missing, effects>>
    BY <1>10 DEF OpenSession, values, history
  <2>2. CASE ok
    <3>1. session' = TRUE /\ UNCHANGED <<todo, answer, pages>>
      BY <1>10, <2>2 DEF OpenSession, flow
    <3>2. TodoFits' /\ TokensFit'
      BY <1>5, <2>1, <3>1, StagesKept
    <3> QED
      BY <1>2, <1>3, <1>7, <2>1, <3>1, <3>2
  <2>3. CASE ~ok
    <3>1. Reject("QqFailure") /\ session' = session /\ session \in BOOLEAN
      BY <1>10, <2>3 DEF OpenSession, ActionTypes, ActionsTypeOK
    <3> QED
      BY <1>3, <1>8, <2>1, <3>1
  <2> QED
    BY <2>2, <2>3
<1>11. CASE Transfer(ok)
  <2>1. At("Upload") <=> Stage.step = "Upload"
    BY <1>1 DEF At, Idle, Stage
  <2>2. At("Publish") <=> Stage.step = "Publish"
    BY <1>1 DEF At, Idle, Stage
  <2>3. Stage.step \in {"Upload", "Publish"}
    BY <1>11, <2>1, <2>2 DEF Transfer
  <2>4. session \in BOOLEAN
    BY DEF ActionTypes, ActionsTypeOK
  <2>5. CASE ~ok
    <3>1. session' = FALSE /\ Reject("QqFailure") /\ missing' = missing /\ effects' = effects
      BY <1>11, <2>5 DEF Transfer, UploadFailed
    <3> QED
      BY <1>3, <1>8, <3>1
  <2>6. CASE ok /\ Stage.step = "Upload"
    <3>1. /\ todo' = Tail(todo) /\ UNCHANGED <<answer, pages, session>>
          /\ missing' = missing - 1 /\ effects' = effects
      BY <1>11, <2>1, <2>2, <2>6 DEF Transfer, Proceed
    <3>2. missing - 1 \in Nat /\ missing = (missing - 1) + 1 /\ missing' \in 0 .. 2
      BY <1>2, <1>3, <2>6, <3>1
    <3>3. Ordered(todo) /\ UploadsFirst(todo, (missing - 1) + 1) /\ ~Acts(todo[1])
      BY <1>2, <2>6, <3>2 DEF TodoFits, Acts
    <3>4. /\ Ordered(Tail(todo)) /\ UploadsFirst(Tail(todo), missing - 1)
          /\ \A taken, fits \in BOOLEAN :
               TicketsCome(todo, taken, fits) => TicketsCome(Tail(todo), taken, fits)
          /\ (\E i \in DOMAIN todo : Acts(todo[i]))
             => \E i \in DOMAIN Tail(todo) : Acts(Tail(todo)[i])
      BY <1>1, <1>2, <3>2, <3>3, RestFits
    <3>5. TodoFits'
      BY <1>1, <1>3, <1>5, <3>1, <3>4 DEF TodoFits, Rejection
    <3>6. TicketsCome(Tail(todo), token # 0, token = cookie \/ lapsed)
      BY <3>4 DEF TokensFit
    <3>7. TokensFit'
      BY <1>5, <1>6, <3>1, <3>6 DEF TokensFit
    <3> QED
      BY <1>2, <1>3, <1>7, <2>4, <3>1, <3>2, <3>5, <3>7
  <2>7. CASE ok /\ Stage.step = "Publish"
    <3>1. /\ todo' = Tail(todo) /\ UNCHANGED <<answer, pages, session>>
          /\ missing' = missing /\ effects' = 1
      BY <1>3, <1>11, <2>1, <2>2, <2>7 DEF Transfer, Proceed
    <3>2. missing = 0 /\ Acts(todo[1])
      BY <1>2, <1>3, <2>7 DEF Acts
    <3>3. Ordered(todo) /\ UploadsFirst(todo, 0)
      BY <3>2 DEF TodoFits
    <3>4. /\ Ordered(Tail(todo)) /\ UploadsFirst(Tail(todo), 0)
          /\ \A taken, fits \in BOOLEAN :
               TicketsCome(todo, taken, fits) => TicketsCome(Tail(todo), taken, fits)
          /\ \A i \in DOMAIN Tail(todo) : Tail(todo)[i] \in Closing
      BY <1>1, <1>2, <3>2, <3>3, RestFits
    <3>5. TodoFits'
      BY <1>1, <1>5, <3>1, <3>2, <3>4 DEF TodoFits, Rejection
    <3>6. TicketsCome(Tail(todo), token # 0, token = cookie \/ lapsed)
      BY <3>4 DEF TokensFit
    <3>7. TokensFit'
      BY <1>5, <1>6, <3>1, <3>6 DEF TokensFit
    <3> QED
      BY <1>2, <1>3, <1>7, <2>4, <3>1, <3>5, <3>7
  <2> QED
    BY <2>3, <2>5, <2>6, <2>7
<1> QED
  BY <1>9, <1>10, <1>11

\* A request is received: nothing is done for it yet, and its program fits.
LEMMA ReceiveSteps ==
  ASSUME ActionsInv, ReceiveAny
  PROVE  ActionsInv'
<1>1. \E wish, program : Receive(wish, program) /\ ProgramFits(program)
  <2>1. CASE \E programs \in {Simple, Uploads, Controls, WebActions} :
               ReceiveOf(programs, "Group", <<>>)
    <3>1. PICK programs \in {Simple, Uploads, Controls, WebActions} :
            ReceiveOf(programs, "Group", <<>>)
      BY <2>1
    <3>2. PICK action \in DOMAIN programs :
            Receive([action |-> action, kind |-> "Group", parts |-> <<>>], programs[action])
      BY <3>1 DEF ReceiveOf
    <3>3. ProgramFits(programs[action])
      BY <3>1, SimplePlain, UploadsPlain, ControlsPlain, WebFits, PlainFits
    <3> QED
      BY <3>2, <3>3
  <2>2. CASE \E kind \in RowKinds : \E programs \in {RetainedActions(kind)} :
               ReceiveOf(programs, kind, <<>>)
    <3>1. PICK kind \in RowKinds : ReceiveOf(RetainedActions(kind), kind, <<>>)
      BY <2>2
    <3>2. PICK action \in DOMAIN RetainedActions(kind) :
            Receive([action |-> action, kind |-> kind, parts |-> <<>>],
                    RetainedActions(kind)[action])
      BY <3>1 DEF ReceiveOf
    <3>3. ProgramFits(RetainedActions(kind)[action])
      BY <3>2, RetainedPlain, PlainFits
    <3> QED
      BY <3>2, <3>3
  <2>3. CASE \E parts \in Contents, kind \in {"Group", "Private", "OwnGroup"} :
               \E programs \in {Sends(parts, kind)} : ReceiveOf(programs, kind, parts)
    <3>1. PICK parts \in Contents, kind \in {"Group", "Private", "OwnGroup"} :
            ReceiveOf(Sends(parts, kind), kind, parts)
      BY <2>3
    <3>2. PICK action \in DOMAIN Sends(parts, kind) :
            Receive([action |-> action, kind |-> kind, parts |-> parts],
                    Sends(parts, kind)[action])
      BY <3>1 DEF ReceiveOf
    <3>3. parts \in Seq(Part) /\ kind \in RowKinds
      BY <3>1, ActionAssumption DEF RowKinds, Own
    <3>4. ProgramFits(Sends(parts, kind)[action])
      BY <3>2, <3>3, SendsPlain, PlainFits
    <3> QED
      BY <3>2, <3>4
  <2> QED
    BY <2>1, <2>2, <2>3 DEF ReceiveAny
<1>2. PICK wish, program : Receive(wish, program) /\ ProgramFits(program)
  BY <1>1
<1>3. /\ todo' = program /\ answer' = "None" /\ pages' = 0 /\ token' = 0 /\ cookie' = 0
      /\ missing' = 0 /\ due' = (\E i \in DOMAIN program : Acts(program[i]))
      /\ effects' = 0 /\ lapsed' = FALSE
      /\ UNCHANGED <<friends, rows, session, skey, clientKey, ticket>>
  BY <1>2 DEF Receive, caches
<1>4. /\ program \in Seq(AnyStage) /\ Ordered(program) /\ UploadsFirst(program, 0)
      /\ TicketsCome(program, FALSE, FALSE)
  BY <1>2 DEF ProgramFits
<1>5. due' \in BOOLEAN
  BY <1>3
<1>6. 0 \in 0 .. PageLimit - 1 /\ 0 \in 0 .. MaxKeys
  BY ActionAssumption
<1>7. ActionTypes'
  <2>1. {friends', session', clientKey', ticket'} \subseteq BOOLEAN /\ rows' \subseteq RowKinds
    BY <1>3 DEF ActionsInv, ActionTypes, ActionsTypeOK
  <2>2. {skey', token', cookie'} \subseteq 0 .. MaxKeys
    BY <1>3, <1>6 DEF ActionsInv, ActionTypes, ActionsTypeOK
  <2>3. lapsed' \in BOOLEAN
    BY <1>3
  <2>4. /\ answer' = "None" /\ pages' \in 0 .. PageLimit - 1 /\ missing' \in 0 .. 2
        /\ effects' \in {0, 1} /\ todo' \in Seq(AnyStage)
    BY <1>3, <1>4, <1>6
  <2> QED
    BY <1>5, <2>1, <2>2, <2>3, <2>4 DEF ActionTypes, ActionsTypeOK
<1>8. TodoFits'
  BY <1>3, <1>4 DEF TodoFits, Rejection
<1>9. TicketsCome(program, FALSE, TRUE)
  BY <1>4 DEF TicketsCome
<1>10. TokensFit'
  BY <1>3, <1>9 DEF TokensFit
<1> QED
  BY <1>7, <1>8, <1>10 DEF ActionsInv

\* Something expires; with the skey, a token that was taken before lapses.
LEMMA ExpireSteps ==
  ASSUME ActionsInv, Expire
  PROVE  ActionsInv'
<1> USE DEF ActionsInv
<1>1. UNCHANGED <<todo, answer, pages, friends, rows, token, cookie, missing, due, effects>>
  BY DEF Expire, flow, values
<1>2. /\ session' \in {session, FALSE} /\ clientKey' \in {clientKey, FALSE}
      /\ ticket' \in {ticket, FALSE}
      /\ \/ skey' = skey /\ lapsed' = lapsed
         \/ skey' = 0 /\ lapsed' = (lapsed \/ token # 0)
  BY DEF Expire
<1>3. 0 \in 0 .. MaxKeys /\ lapsed' \in BOOLEAN /\ lapsed \in BOOLEAN
  <2>1. 0 \in 0 .. MaxKeys
    BY ActionAssumption
  <2>2. lapsed \in BOOLEAN
    BY DEF ActionTypes, ActionsTypeOK
  <2>3. (lapsed \/ token # 0) \in BOOLEAN
    OBVIOUS
  <2> QED
    BY <1>2, <2>1, <2>2, <2>3, Zenon
<1>4. ActionTypes'
  BY <1>1, <1>2, <1>3 DEF ActionTypes, ActionsTypeOK
<1>5. TodoFits'
  BY <1>1 DEF TodoFits, Ordered, UploadsFirst
<1>6. TicketsCome(todo, token # 0, token = cookie \/ lapsed')
  <2>1. TicketsCome(todo, token # 0, token = cookie \/ lapsed)
    BY DEF TokensFit
  <2>2. lapsed => lapsed'
    BY <1>2
  <2> QED
    BY <2>1, <2>2 DEF TicketsCome
<1>7. token # 0 => token = skey' \/ lapsed'
  <2>1. token # 0 => token = skey \/ lapsed
    BY DEF TokensFit
  <2>2. CASE skey' = skey /\ lapsed' = lapsed
    BY <2>1, <2>2
  <2>3. CASE skey' = 0 /\ lapsed' = (lapsed \/ token # 0)
    BY <2>3, Zenon
  <2> QED
    BY <1>2, <2>2, <2>3
<1>8. TokensFit'
  BY <1>1, <1>6, <1>7 DEF TokensFit
<1> QED
  BY <1>4, <1>5, <1>8

\* The bot is answered when nothing is left: what had to be done has been done.
LEMMA FinishSteps ==
  ASSUME ActionsInv, Finish
  PROVE  ActionsInv'
<1> USE DEF ActionsInv
<1>1. /\ answer = "None" /\ todo = <<>> /\ answer' = "Ok" /\ todo' = <<>>
      /\ UNCHANGED <<pages, friends, rows, session, skey, clientKey, ticket, token, cookie,
                     missing, due, effects, lapsed>>
  BY DEF Finish, Idle, caches, values, history
<1>2. ~(due /\ effects = 0)
  BY <1>1 DEF TodoFits
<1>3. ActionTypes'
  BY <1>1 DEF ActionTypes, ActionsTypeOK
<1>4. TodoFits'
  BY <1>1, <1>2 DEF TodoFits, Ordered, UploadsFirst, Rejection
<1>5. TokensFit'
  BY <1>1 DEF TokensFit, TicketsCome
<1> QED
  BY <1>3, <1>4, <1>5

\* At the start no request is in progress.
LEMMA ActionsStart == ActionsInit => ActionsInv
<1> SUFFICES ASSUME ActionsInit PROVE ActionsInv
  OBVIOUS
<1> USE DEF ActionsInit
<1>1. 0 \in 0 .. PageLimit - 1 /\ 0 \in 0 .. MaxKeys
  BY ActionAssumption
<1>2. ActionTypes
  <2>1. {friends, session, clientKey, ticket, lapsed} \subseteq BOOLEAN /\ due \in BOOLEAN
    OBVIOUS
  <2>2. {skey, token, cookie} \subseteq 0 .. MaxKeys /\ pages \in 0 .. PageLimit - 1
    BY <1>1
  <2>3. rows \subseteq RowKinds
    BY DEF RowKinds
  <2>4. answer = "Ok" /\ missing \in 0 .. 2 /\ effects \in {0, 1} /\ todo \in Seq(AnyStage)
    OBVIOUS
  <2> QED
    BY <2>1, <2>2, <2>3, <2>4 DEF ActionTypes, ActionsTypeOK
<1>3. TodoFits
  BY DEF TodoFits, Ordered, UploadsFirst, Rejection
<1>4. TokensFit
  BY DEF TokensFit, TicketsCome
<1> QED
  BY <1>2, <1>3, <1>4 DEF ActionsInv

\* Every step of a request, and of the time, preserves the invariant.
LEMMA ActionsSteps == ActionsInv /\ [ActionsNext]_actionVars => ActionsInv'
<1> SUFFICES ASSUME ActionsInv, [ActionsNext]_actionVars
             PROVE  ActionsInv'
  OBVIOUS
<1>1. CASE Finish \/ ReceiveAny \/ Expire
  BY <1>1, FinishSteps, ReceiveSteps, ExpireSteps
<1>2. CASE Refuse \/ UseFriend \/ LookUp \/ \E ok \in BOOLEAN : Check(ok) \/ Exchange(ok)
  BY <1>2, CheckSteps
<1>3. CASE \/ Unfriend
           \/ \E ok \in BOOLEAN : Register(ok) \/ Forget(ok) \/ DomainTicket(ok)
           \/ \E ok, more \in BOOLEAN : Page(ok, more)
           \/ \E ok, more, found \in BOOLEAN : RefreshFriends(ok, more, found)
  BY <1>3, CacheSteps
<1>4. CASE CompileNext \/ \E ok, more \in BOOLEAN : WebPage(ok, more)
  BY <1>4, RoundSteps
<1>5. CASE \E outcome \in {"Done", "Lost", "Refused"} : Act(outcome) \/ Request(outcome)
  BY <1>5, EffectSteps
<1>6. CASE \E ok \in BOOLEAN :
             \/ OpenSession(ok) \/ Transfer(ok)
             \/ \E uploads \in 0 .. 2 : PlanUploads(ok, uploads)
  <2>1. PICK ok \in BOOLEAN, uploads \in 0 .. 2 :
          PlanUploads(ok, uploads) \/ OpenSession(ok) \/ Transfer(ok)
    BY <1>6
  <2> QED
    BY <2>1, UploadSteps
<1>7. CASE \/ CachedSkey
           \/ \E ok \in BOOLEAN : \E key \in 1 .. MaxKeys, keyKept \in BOOLEAN :
                FetchSkey(ok, key, keyKept)
  <2>1. 1 \in 1 .. MaxKeys
    BY ActionAssumption
  <2>2. PICK ok \in BOOLEAN, key \in 1 .. MaxKeys, keyKept \in BOOLEAN :
          CachedSkey \/ FetchSkey(ok, key, keyKept)
    BY <1>7, <2>1
  <2> QED
    BY <2>2, SkeySteps
<1>8. CASE UNCHANGED actionVars
  <2>1. UNCHANGED <<todo, answer, pages, friends, rows, session, skey, clientKey, ticket,
                    token, cookie, missing, due, effects, lapsed>>
    BY <1>8 DEF actionVars, flow, caches, values, history
  <2>2. TodoFits' /\ TokensFit'
    BY <2>1, StagesKept DEF ActionsInv
  <2>3. ActionTypes'
    BY <2>1 DEF ActionsInv, ActionTypes, ActionsTypeOK
  <2> QED
    BY <2>2, <2>3 DEF ActionsInv
<1> QED
  BY <1>1, <1>2, <1>3, <1>4, <1>5, <1>6, <1>7, <1>8 DEF ActionsNext, Work

\* The invariant says what QQ, its web services and a bot see.
LEMMA ActionsInvSound == ActionsInv => ActionsAreSound
<1> SUFFICES ASSUME ActionsInv PROVE ActionsAreSound
  OBVIOUS
<1> USE DEF ActionsInv
<1>1. ActionsTypeOK
  BY DEF ActionTypes
<1>2. RejectionsAreClean
  BY DEF RejectionsAreClean, TodoFits, Rejection
<1>3. ActsOnce
  BY DEF ActsOnce, ActionTypes, TodoFits
<1>4. FilesBeforeMessage
  BY DEF FilesBeforeMessage, ActionTypes, TodoFits
<1>5. TokenMatchesCookie
  <2> SUFFICES ASSUME At("Web") \/ At("WebPages"), Stage.signed
               PROVE  token = cookie \/ lapsed
    BY DEF TokenMatchesCookie
  <2>1. todo # <<>> /\ Signed(Stage)
    BY AtStage DEF Signed
  <2>2. 1 \in DOMAIN todo /\ Stage = todo[1] /\ DOMAIN todo \subseteq Nat \ {0}
    BY <2>1, StageFits DEF ActionTypes
  <2>3. \A i \in DOMAIN todo : ~(i < 1)
    BY <2>2
  <2> QED
    BY <2>1, <2>2, <2>3 DEF TokensFit, TicketsCome
<1> QED
  BY <1>1, <1>2, <1>3, <1>4, <1>5 DEF ActionsAreSound

\* Whatever answers are lost on the way, a request acts at most once at QQ, one
\* that is answered with success has acted if it had to, one that is answered
\* as malformed has done nothing, no message goes out before its uploads, and the
\* token of a web request is of the skey in its cookies (execute_account_action).
THEOREM ActionsAreSoundCorrect == ActionsSpec => []ActionsAreSound
<1>1. ActionsSpec => []ActionsInv
  BY ActionsStart, ActionsSteps, PTL DEF ActionsSpec
<1> QED
  BY <1>1, ActionsInvSound, PTL

-----------------------------------------------------------------------------
(* Synchronization.                                                         *)

\* Numbers have a smallest.
LEMMA SmallestIs ==
  ASSUME NEW S \in SUBSET Nat, S # {}
  PROVE  Min(S) \in S
<1> DEFINE below == OpToRel(<, Nat)
<1>1. PICK m \in S : \A x \in S : ~ (<<x, m>> \in below)
  <2>1. IsWellFoundedOn(below, Nat)
    BY NatLessThanWellFounded
  <2> HIDE DEF below
  <2> QED
    BY <2>1, WFMin
<1>2. \A x \in S : m <= x
  <2> TAKE x \in S
  <2>1. ~ (x < m)
    BY <1>1 DEF OpToRel
  <2> QED
    BY <2>1
<1> QED
  BY <1>2 DEF Min

\* A largest value is the largest.
LEMMA LargestOnly ==
  ASSUME NEW S \in SUBSET Nat, NEW m \in S, \A x \in S : x <= m
  PROVE  Max(S) = m
<1>1. Max(S) \in S /\ \A y \in S : Max(S) >= y
  BY DEF Max
<1>2. m \in Nat /\ Max(S) \in Nat /\ Max(S) <= m /\ Max(S) >= m
  BY <1>1
<1> QED
  BY <1>2

\* What is kept of an old value and of new ones is none of the smaller ones.
LEMMA NewestFits ==
  ASSUME NEW n \in Nat, NEW old \in 0 .. n, NEW others \in SUBSET (0 .. n)
  PROVE  /\ Newest(old, others) \in 0 .. n
         /\ Newest(old, others) \in {old} \union others
         /\ Newest(old, others) >= old
         /\ \A v \in others : Newest(old, others) >= v
<1>1. {old} \union others \in SUBSET (0 .. n) /\ {old} \union others # {}
  OBVIOUS
<1>2. /\ Max({old} \union others) \in {old} \union others
      /\ \A y \in {old} \union others : Max({old} \union others) >= y
  BY <1>1, LargestIs
<1> QED
  BY <1>1, <1>2 DEF Newest

\* The constants.
SyncNumbers == LastTime \in Nat /\ CursorLimit \in Nat /\ NoKey \notin Group \union Peer

\* What a cursor and the state of a synchronization hold.
Cursor == [sequence : 0 .. 1, message : SyncTime, spoke : SyncTime]

SyncState ==
  [first : BOOLEAN, group : SyncTime, direct : SyncTime, previous : SyncTime,
   last : Group \union {NoKey}, silence : {NoKey, 0, 1}]

\* A finite map of such keys to such entries.
MapFits(map, keys, entries) ==
  /\ DOMAIN map \subseteq keys /\ IsFiniteSet(DOMAIN map)
  /\ \A k \in DOMAIN map : map[k] \in entries

MapsFit ==
  /\ MapFits(cursors, Group, Cursor)
  /\ MapFits(directs, Peer, SyncTime)
  /\ MapFits(recents, Peer, SyncTime)

\* Before the first response nothing has been asked, after it nothing is first.
FirstIsAsked ==
  /\ syncStage = "Sync" => asked = NoRequest
  /\ syncStage \in {"Confirm", "On"} => ~sync.first
  /\ syncStage \in {"Sync", "Confirm", "On", "Over"}

SyncInv ==
  /\ sync \in SyncState /\ MapsFit /\ FirstIsAsked
  /\ MarksCoverCursors /\ BoundsHold

\* What a push says has keys and times of the right kind, and few of them.
ItemsFit(items, keys) ==
  /\ IsFiniteSet(Keys(items)) /\ Keys(items) \subseteq keys
  /\ \A item \in Range(items) : item.key \in keys \union {NoKey} /\ item.time \in SyncTime

PacketFits(packet) ==
  /\ packet.nodes \in Seq(Nodes)
  /\ ItemsFit(packet.nodes, Group) /\ ItemsFit(packet.notifications, Group)
  /\ \A items \in {packet.nodes, packet.notifications, packet.peers} :
       \A item \in Range(items) : item.key # NoKey
  /\ ItemsFit(packet.peers, Peer) /\ ItemsFit(packet.recents, Peer)

\* The constants are as assumed.
LEMMA SyncKnown == SyncNumbers
  BY SyncAssumption DEF SyncNumbers

LEMMA ItemsOf ==
  ASSUME NEW S, NEW keys, NoKey \notin keys, NEW items \in Seq(S),
         \A item \in S : item.key \in keys \union {NoKey} /\ item.time \in SyncTime
  PROVE  ItemsFit(items, keys)
<1>1. /\ Range(items) \subseteq S /\ DOMAIN items = 1 .. Len(items) /\ Len(items) \in Nat
      /\ Range(items) = {items[i] : i \in DOMAIN items}
  BY DEF Range
<1> DEFINE key == [i \in DOMAIN items |-> items[i].key]
           all == {items[i].key : i \in DOMAIN items}
<1>2. key \in Surjection(DOMAIN items, all)
  BY DEF Surjection
<1>3. IsFiniteSet(DOMAIN items)
  BY <1>1, FS_Interval
<1>4. IsFiniteSet(all)
  <2> HIDE DEF key, all
  <2> QED
    BY <1>2, <1>3, FS_Surjection
<1>5. Keys(items) \subseteq all
  BY <1>1 DEF Keys
<1>6. IsFiniteSet(Keys(items))
  <2> HIDE DEF all
  <2> QED
    BY <1>4, <1>5, FS_Subset
<1>7. Keys(items) \subseteq keys
  BY <1>1 DEF Keys
<1> QED
  BY <1>1, <1>6, <1>7 DEF ItemsFit

LEMMA UpToAre ==
  ASSUME NEW n \in Nat, NEW S, NEW items \in UpTo(n, S)
  PROVE  items \in Seq(S)
<1>1. PICK k \in 0 .. n : items \in [1 .. k -> S]
  BY DEF UpTo
<1> QED
  BY <1>1

\* Whatever QQ sends fits.
LEMMA PacketsFit == ASSUME NEW packet \in Packets PROVE PacketFits(packet)
<1> USE SyncKnown DEF SyncNumbers
<1> DEFINE Told == [key : Group, time : SyncTime, sizes : EmbeddedSizes]
<1> DEFINE Noded ==
             {Packet(n, <<>>, <<>>, <<>>, TRUE) : n \in UpTo(MaxItems, Nodes)}
           Paired ==
             UNION {{Packet(<<n>>, <<i>>, <<>>, <<>>, TRUE) :
               i \in [key : Group, time : SyncTime, sizes : {<<>>}]} : n \in Nodes}
           Embedding ==
             UNION {{Packet(<<>>, <<i>>, <<p>>, <<>>, TRUE) :
               i \in [key : Group, time : {LastTime}, sizes : EmbeddedSizes]} : p \in Peers}
           Addressed ==
             {Packet(<<>>, <<>>, p, <<>>, TRUE) : p \in UpTo(1, Peers)}
           Recently ==
             {Packet(<<>>, <<>>, <<>>, r, TRUE) : r \in UpTo(MaxItems, Recents)}
           Unsound ==
             {Packet(<<n>>, <<>>, <<>>, <<>>, FALSE) : n \in Nodes}
<1>1. /\ packet.nodes \in Seq(Nodes) /\ packet.notifications \in Seq(Told)
      /\ packet.peers \in Seq(Peers) /\ packet.recents \in Seq(Recents)
  <2>1. MaxItems \in Nat /\ LastTime \in SyncTime /\ <<>> \in EmbeddedSizes
    BY SyncAssumption DEF SyncTime, EmbeddedSizes
  <2>2. /\ UpTo(MaxItems, Nodes) \subseteq Seq(Nodes)
        /\ UpTo(1, Peers) \subseteq Seq(Peers)
        /\ UpTo(MaxItems, Recents) \subseteq Seq(Recents)
    BY <2>1, UpToAre
  <2>3. /\ \A n \in Nodes : <<n>> \in Seq(Nodes)
        /\ \A i \in Told : <<i>> \in Seq(Told)
        /\ \A p \in Peers : <<p>> \in Seq(Peers)
        /\ <<>> \in Seq(Nodes) /\ <<>> \in Seq(Told) /\ <<>> \in Seq(Peers) /\ <<>> \in Seq(Recents)
    <3> HIDE DEF Told
    <3> QED
      OBVIOUS
  <2> DEFINE Says(n, i, p, r, sound) ==
               n \in Seq(Nodes) /\ i \in Seq(Told) /\ p \in Seq(Peers) /\ r \in Seq(Recents)
                 /\ packet = Packet(n, i, p, r, sound)
  <2>4. \A n, i, p, r, sound :
           Says(n, i, p, r, sound) =>
             /\ packet.nodes \in Seq(Nodes) /\ packet.notifications \in Seq(Told)
             /\ packet.peers \in Seq(Peers) /\ packet.recents \in Seq(Recents)
    <3> HIDE DEF Told
    <3> QED
      BY DEF Packet
  <2>5. CASE packet \in Noded
    <3>1. PICK n \in UpTo(MaxItems, Nodes) : packet = Packet(n, <<>>, <<>>, <<>>, TRUE)
      BY <2>5
    <3>2. Says(n, <<>>, <<>>, <<>>, TRUE)
      BY <2>2, <2>3, <3>1
    <3> QED
      BY <2>4, <3>2
  <2>6. CASE packet \in Paired
    <3>1. PICK n \in Nodes : packet \in {Packet(<<n>>, <<i>>, <<>>, <<>>, TRUE) :
                                          i \in [key : Group, time : SyncTime, sizes : {<<>>}]}
      BY <2>6
    <3>2. PICK i \in [key : Group, time : SyncTime, sizes : {<<>>}] :
            packet = Packet(<<n>>, <<i>>, <<>>, <<>>, TRUE)
      BY <3>1
    <3>3. i \in Told
      BY <2>1, <3>2
    <3>4. Says(<<n>>, <<i>>, <<>>, <<>>, TRUE)
      BY <2>3, <3>2, <3>3
    <3> QED
      BY <2>4, <3>4
  <2>7. CASE packet \in Embedding
    <3>1. PICK p \in Peers : packet \in {Packet(<<>>, <<i>>, <<p>>, <<>>, TRUE) :
                                  i \in [key : Group, time : {LastTime}, sizes : EmbeddedSizes]}
      BY <2>7
    <3>2. PICK i \in [key : Group, time : {LastTime}, sizes : EmbeddedSizes] :
            packet = Packet(<<>>, <<i>>, <<p>>, <<>>, TRUE)
      BY <3>1
    <3>3. i \in Told
      BY <2>1, <3>2
    <3>4. Says(<<>>, <<i>>, <<p>>, <<>>, TRUE)
      BY <2>3, <3>2, <3>3
    <3> QED
      BY <2>4, <3>4
  <2>8. CASE packet \in Addressed
    <3>1. PICK p \in UpTo(1, Peers) : packet = Packet(<<>>, <<>>, p, <<>>, TRUE)
      BY <2>8
    <3>2. Says(<<>>, <<>>, p, <<>>, TRUE)
      BY <2>2, <2>3, <3>1
    <3> QED
      BY <2>4, <3>2
  <2>9. CASE packet \in Recently
    <3>1. PICK r \in UpTo(MaxItems, Recents) : packet = Packet(<<>>, <<>>, <<>>, r, TRUE)
      BY <2>9
    <3>2. Says(<<>>, <<>>, <<>>, r, TRUE)
      BY <2>2, <2>3, <3>1
    <3> QED
      BY <2>4, <3>2
  <2>10. CASE packet \in Unsound
    <3>1. PICK n \in Nodes : packet = Packet(<<n>>, <<>>, <<>>, <<>>, FALSE)
      BY <2>10
    <3>2. Says(<<n>>, <<>>, <<>>, <<>>, FALSE)
      BY <2>3, <3>1
    <3> QED
      BY <2>4, <3>2
  <2>11. Packets = Noded \union Paired \union Embedding \union Addressed
                     \union Recently \union Unsound
    BY Zenon DEF Packets
  <2> HIDE DEF Told, Says, Noded, Paired, Embedding, Addressed, Recently, Unsound
  <2> QED
    BY <2>5, <2>6, <2>7, <2>8, <2>9, <2>10, <2>11
<1>2. /\ \A item \in Nodes : item.key \in Group \union {NoKey} /\ item.time \in SyncTime
      /\ \A item \in Told : item.key \in Group \union {NoKey} /\ item.time \in SyncTime
      /\ \A item \in Peers : item.key \in Peer \union {NoKey} /\ item.time \in SyncTime
      /\ \A item \in Recents : item.key \in Peer \union {NoKey} /\ item.time \in SyncTime
  BY DEF Nodes, Peers, Recents
<1>3. /\ \A item \in Nodes : item.key # NoKey
      /\ \A item \in Told : item.key # NoKey
      /\ \A item \in Peers : item.key # NoKey
  BY DEF Nodes, Peers
<1> HIDE DEF Told
<1>4. /\ ItemsFit(packet.nodes, Group) /\ ItemsFit(packet.notifications, Group)
      /\ ItemsFit(packet.peers, Peer) /\ ItemsFit(packet.recents, Peer)
  BY <1>1, <1>2, ItemsOf
<1>5. /\ Range(packet.nodes) \subseteq Nodes /\ Range(packet.notifications) \subseteq Told
      /\ Range(packet.peers) \subseteq Peers
  BY <1>1 DEF Range
<1> QED
  BY <1>1, <1>3, <1>4, <1>5 DEF PacketFits

\* A map that has room for the keys of a push stays within its limit.
LEMMA RoomIsKept ==
  ASSUME NEW map, IsFiniteSet(DOMAIN map), NEW first, NEW second,
         IsFiniteSet(Keys(first)), IsFiniteSet(Keys(second)), HasRoom(map, first, second)
  PROVE  LET all == DOMAIN map \union Keys(first) \union Keys(second)
         IN  IsFiniteSet(all) /\ Cardinality(all) <= CursorLimit
<1> DEFINE D == DOMAIN map
           N == (Keys(first) \union Keys(second)) \ D
<1>1. IsFiniteSet(D) /\ IsFiniteSet(N)
  BY FS_Union, FS_Difference
<1>2. Cardinality(D) + Cardinality(N) <= CursorLimit
  BY DEF HasRoom, NewKeys
<1>3. DOMAIN map \union Keys(first) \union Keys(second) = D \union N
  OBVIOUS
<1>4. D \intersect N = {}
  OBVIOUS
<1> HIDE DEF D, N
<1>5. /\ IsFiniteSet(D \union N)
      /\ Cardinality(D \union N) = Cardinality(D) + Cardinality(N) - 0
  BY <1>1, <1>4, FS_Union, FS_EmptySet
<1>6. Cardinality(D) \in Nat /\ Cardinality(N) \in Nat
  BY <1>1, FS_CardinalityType
<1>7. CursorLimit \in Nat
  BY SyncKnown DEF SyncNumbers
<1>8. Cardinality(D \union N) <= CursorLimit
  BY <1>2, <1>5, <1>6, <1>7
<1> QED
  BY <1>3, <1>5, <1>8

-----------------------------------------------------------------------------
\* The times of some items are times.
LEMMA TimesFit ==
  ASSUME NEW keys, NEW items, ItemsFit(items, keys)
  PROVE  /\ TimesOf(Range(items)) \in SUBSET SyncTime
         /\ \A k : TimesOf(Of(items, k)) \in SUBSET SyncTime
         /\ \A k : TimesOf(Of(items, k)) \subseteq TimesOf(Range(items))
         /\ \A item \in Range(items) : item.time \in TimesOf(Of(items, item.key))
         /\ \A item \in Range(items) : item.key # NoKey => item.key \in Keys(items)
  BY DEF TimesOf, Of, ItemsFit, Keys

LEMMA TimesNewest ==
  ASSUME NEW old \in SyncTime, NEW others \in SUBSET SyncTime
  PROVE  /\ Newest(old, others) \in SyncTime
         /\ Newest(old, others) \in {old} \union others
         /\ Newest(old, others) >= old
         /\ \A v \in others : Newest(old, others) >= v
  BY SyncKnown, NewestFits DEF SyncNumbers, SyncTime

\* A map of times takes what a push says of its keys, and none goes back.
LEMMA MergedFits ==
  ASSUME NEW keys, NEW map, NEW items, MapFits(map, keys, SyncTime), ItemsFit(items, keys)
  PROVE  LET new == Merged(map, items)
         IN  /\ DOMAIN new = DOMAIN map \union Keys(items)
             /\ \A k \in DOMAIN new :
                  /\ new[k] \in SyncTime
                  /\ new[k] \in {ValueAt(map, k, 0)} \union TimesOf(Of(items, k))
                  /\ \A t \in TimesOf(Of(items, k)) : new[k] >= t
             /\ MapFits(new, keys, SyncTime)
             /\ Advances(map, new)
<1> DEFINE new == Merged(map, items)
<1>1. \A k : ValueAt(map, k, 0) \in SyncTime
  BY SyncKnown DEF ValueAt, MapFits, SyncNumbers, SyncTime
<1>2. /\ DOMAIN new = DOMAIN map \union Keys(items)
      /\ \A k \in DOMAIN new : new[k] = Newest(ValueAt(map, k, 0), TimesOf(Of(items, k)))
  BY DEF Merged
<1> HIDE DEF new
<1>3. \A k \in DOMAIN new :
        /\ new[k] \in SyncTime
        /\ new[k] \in {ValueAt(map, k, 0)} \union TimesOf(Of(items, k))
        /\ new[k] >= ValueAt(map, k, 0)
        /\ \A t \in TimesOf(Of(items, k)) : new[k] >= t
  BY <1>1, <1>2, TimesFit, TimesNewest
<1>4. MapFits(new, keys, SyncTime)
  BY <1>2, <1>3, FS_Union DEF MapFits, ItemsFit
<1>5. Advances(map, new)
  BY <1>2, <1>3 DEF Advances, ValueAt
<1> QED
  BY <1>2, <1>3, <1>4, <1>5 DEF new

\* The newest of the times of a map is the newest before and of the push.
LEMMA MarkFollows ==
  ASSUME NEW keys, NEW map, NEW items, MapFits(map, keys, SyncTime), ItemsFit(items, keys),
         \A item \in Range(items) : item.key # NoKey,
         NEW mark \in SyncTime, mark = Max({0} \union Entries(map))
  PROVE  Newest(mark, TimesOf(Range(items))) = Max({0} \union Entries(Merged(map, items)))
<1> DEFINE new == Merged(map, items)
           then == Newest(mark, TimesOf(Range(items)))
           all == {0} \union Entries(new)
<1>1. LastTime \in Nat /\ SyncTime \subseteq Nat /\ SyncTime = 0 .. LastTime
  BY SyncKnown DEF SyncNumbers, SyncTime
<1>2. mark \in {0} \union Entries(map) /\ \A t \in {0} \union Entries(map) : mark >= t
  <2>1. Entries(map) \subseteq SyncTime
    BY DEF MapFits, Entries
  <2>2. {0} \union Entries(map) \in SUBSET (0 .. LastTime)
    BY <1>1, <2>1
  <2> QED
    BY <1>1, <2>2, LargestIs
<1>3. /\ then \in SyncTime /\ then \in {mark} \union TimesOf(Range(items)) /\ then >= mark
      /\ \A t \in TimesOf(Range(items)) : then >= t
  BY TimesFit, TimesNewest
<1>4. /\ DOMAIN new = DOMAIN map \union Keys(items)
      /\ \A k \in DOMAIN new :
           /\ new[k] \in SyncTime
           /\ new[k] \in {ValueAt(map, k, 0)} \union TimesOf(Of(items, k))
           /\ \A t \in TimesOf(Of(items, k)) : new[k] >= t
      /\ Advances(map, new)
  BY MergedFits
<1> HIDE DEF new, then
<1>5. \A k \in DOMAIN new : then >= new[k]
  <2> TAKE k \in DOMAIN new
  <2>1. CASE new[k] \in TimesOf(Of(items, k))
    BY <1>3, <2>1, TimesFit
  <2>2. CASE new[k] = ValueAt(map, k, 0)
    <3>1. new[k] \in {0} \union Entries(map)
      BY <2>2 DEF ValueAt, Entries
    <3>2. mark >= new[k] /\ new[k] \in SyncTime
      BY <1>2, <1>4, <3>1
    <3> QED
      BY <1>1, <1>3, <3>2
  <2> QED
    BY <1>4, <2>1, <2>2
<1>6. then \in all
  <2>1. CASE then = mark
    <3>1. CASE mark = 0
      BY <2>1, <3>1
    <3>2. CASE mark # 0
      <4>1. PICK k \in DOMAIN map : mark = map[k]
        BY <1>2, <3>2 DEF Entries
      <4>2. k \in DOMAIN new /\ new[k] >= mark /\ new[k] \in SyncTime
        BY <1>4, <4>1 DEF Advances
      <4>3. then >= new[k] /\ new[k] >= then
        BY <1>5, <2>1, <4>2
      <4>4. then \in Nat /\ new[k] \in Nat
        BY <1>1, <1>3, <4>2
      <4>5. then = new[k]
        BY <4>3, <4>4
      <4> QED
        BY <4>2, <4>5 DEF Entries
    <3> QED
      BY <3>1, <3>2
  <2>2. CASE then \in TimesOf(Range(items))
    <3>1. PICK item \in Range(items) : then = item.time
      BY <2>2 DEF TimesOf
    <3> DEFINE k == item.key
    <3>2. k \in DOMAIN new /\ then \in TimesOf(Of(items, k))
      BY <1>4, <3>1, TimesFit
    <3> HIDE DEF k
    <3>3. new[k] >= then /\ then >= new[k] /\ new[k] \in SyncTime
      BY <1>4, <1>5, <3>2
    <3>4. then = new[k]
      BY <1>1, <1>3, <3>3
    <3> QED
      BY <3>2, <3>4 DEF Entries
  <2> QED
    BY <1>3, <2>1, <2>2
<1>7. all \in SUBSET Nat /\ \A t \in all : t <= then
  BY <1>1, <1>3, <1>4, <1>5 DEF Entries
<1> HIDE DEF all
<1>8. Max(all) = then
  BY <1>6, <1>7, LargestOnly
<1> QED
  BY <1>8 DEF all, new, then

\* A cursor takes what a push says of its group, and no part of it goes back.
LEMMA AdvancedFits ==
  ASSUME NEW old \in Cursor, NEW nodes \in SUBSET Nodes, NEW items,
         TimesOf(items) \in SUBSET SyncTime
  PROVE  LET new == Advanced(old, nodes, items)
         IN  /\ new \in Cursor
             /\ new.sequence >= old.sequence
             /\ new.message \in {old.message} \union TimesOf(nodes) /\ new.message >= old.message
             /\ \A t \in TimesOf(nodes) : new.message >= t
             /\ new.spoke \in {old.spoke} \union TimesOf(items) /\ new.spoke >= old.spoke
             /\ \A t \in TimesOf(items) : new.spoke >= t
<1>1. /\ old.sequence \in 0 .. 1 /\ old.message \in SyncTime /\ old.spoke \in SyncTime
      /\ {node.sequence : node \in nodes} \in SUBSET (0 .. 1)
      /\ TimesOf(nodes) \in SUBSET SyncTime
  BY DEF Cursor, Nodes, TimesOf
<1>2. /\ Newest(old.sequence, {node.sequence : node \in nodes}) \in 0 .. 1
      /\ Newest(old.sequence, {node.sequence : node \in nodes}) >= old.sequence
  BY <1>1, NewestFits
<1>3. /\ Newest(old.message, TimesOf(nodes)) \in SyncTime
      /\ Newest(old.message, TimesOf(nodes)) \in {old.message} \union TimesOf(nodes)
      /\ Newest(old.message, TimesOf(nodes)) >= old.message
      /\ \A t \in TimesOf(nodes) : Newest(old.message, TimesOf(nodes)) >= t
  BY <1>1, TimesNewest
<1>4. /\ Newest(old.spoke, TimesOf(items)) \in SyncTime
      /\ Newest(old.spoke, TimesOf(items)) \in {old.spoke} \union TimesOf(items)
      /\ Newest(old.spoke, TimesOf(items)) >= old.spoke
      /\ \A t \in TimesOf(items) : Newest(old.spoke, TimesOf(items)) >= t
  BY <1>1, TimesNewest
<1> QED
  BY <1>2, <1>3, <1>4 DEF Advanced, Cursor

\* What the cursors are after a push.
CursorsFollow(packet) ==
  LET new == CursorsAfter(packet)
  IN  /\ DOMAIN new = DOMAIN cursors \union Keys(packet.nodes) \union Keys(packet.notifications)
      /\ \A g \in DOMAIN new :
           LET old == ValueAt(cursors, g, NewCursor)
           IN  /\ new[g] \in Cursor /\ new[g].sequence >= old.sequence
               /\ new[g].message \in {old.message} \union TimesOf(Of(packet.nodes, g))
               /\ new[g].message >= old.message
               /\ \A t \in TimesOf(Of(packet.nodes, g)) : new[g].message >= t
               /\ new[g].spoke \in {old.spoke} \union TimesOf(Of(packet.notifications, g))
               /\ new[g].spoke >= old.spoke
               /\ \A t \in TimesOf(Of(packet.notifications, g)) : new[g].spoke >= t

LEMMA CursorsFit ==
  ASSUME MapFits(cursors, Group, Cursor), NEW packet, PacketFits(packet)
  PROVE  CursorsFollow(packet) /\ MapFits(CursorsAfter(packet), Group, Cursor)
<1> DEFINE new == CursorsAfter(packet)
           nodes(g) == Of(packet.nodes, g)
           items(g) == Of(packet.notifications, g)
<1>1. /\ DOMAIN new = DOMAIN cursors \union Keys(packet.nodes) \union Keys(packet.notifications)
      /\ \A g \in DOMAIN new : new[g] = Advanced(ValueAt(cursors, g, NewCursor), nodes(g), items(g))
  BY DEF CursorsAfter
<1>2. \A g : ValueAt(cursors, g, NewCursor) \in Cursor
  <2>1. NewCursor \in Cursor
    BY SyncKnown DEF SyncNumbers, NewCursor, Cursor, SyncTime
  <2> QED
    BY <2>1 DEF ValueAt, MapFits
<1>3. \A g : nodes(g) \in SUBSET Nodes /\ TimesOf(items(g)) \in SUBSET SyncTime
  <2>1. Range(packet.nodes) \subseteq Nodes
    BY DEF PacketFits, Range
  <2>2. \A g : nodes(g) \in SUBSET Nodes
    BY <2>1 DEF Of
  <2>3. \A g : TimesOf(items(g)) \in SUBSET SyncTime
    BY TimesFit DEF PacketFits
  <2> QED
    BY <2>2, <2>3
<1> HIDE DEF new, nodes, items
<1>4. \A g \in DOMAIN new :
        LET old == ValueAt(cursors, g, NewCursor)
        IN  /\ new[g] \in Cursor /\ new[g].sequence >= old.sequence
            /\ new[g].message \in {old.message} \union TimesOf(nodes(g))
            /\ new[g].message >= old.message
            /\ \A t \in TimesOf(nodes(g)) : new[g].message >= t
            /\ new[g].spoke \in {old.spoke} \union TimesOf(items(g))
            /\ new[g].spoke >= old.spoke
            /\ \A t \in TimesOf(items(g)) : new[g].spoke >= t
  BY <1>1, <1>2, <1>3, AdvancedFits
<1>5. CursorsFollow(packet)
  BY <1>1, <1>4 DEF CursorsFollow, new, nodes, items
<1>6. MapFits(new, Group, Cursor)
  <2>1. /\ IsFiniteSet(DOMAIN cursors) /\ DOMAIN cursors \subseteq Group
        /\ IsFiniteSet(Keys(packet.nodes)) /\ Keys(packet.nodes) \subseteq Group
        /\ IsFiniteSet(Keys(packet.notifications)) /\ Keys(packet.notifications) \subseteq Group
    BY DEF MapFits, PacketFits, ItemsFit
  <2>2. IsFiniteSet(DOMAIN cursors \union Keys(packet.nodes))
    BY <2>1, FS_Union
  <2>3. IsFiniteSet(DOMAIN new) /\ DOMAIN new \subseteq Group
    BY <1>1, <2>1, <2>2, FS_Union
  <2> QED
    BY <1>4, <2>3 DEF MapFits
<1> QED
  BY <1>5, <1>6 DEF new

\* The times the cursors of some groups hold.
LEMMA TimesOfCursors ==
  ASSUME NEW map, NEW t
  PROVE  t \in UNION {{c.message, c.spoke} : c \in Entries(map)}
           <=> \E g \in DOMAIN map : t = map[g].message \/ t = map[g].spoke
  BY DEF Entries

\* The newest of the times of all cursors follows a push, from either kind.
LEMMA GroupMarkFollows ==
  ASSUME MapFits(cursors, Group, Cursor), NEW packet, PacketFits(packet), sync.group \in SyncTime,
         sync.group = Max({0} \union UNION {{c.message, c.spoke} : c \in Entries(cursors)})
  PROVE  GroupMark(packet)
           = Max({0} \union UNION {{c.message, c.spoke} : c \in Entries(CursorsAfter(packet))})
<1> DEFINE mark == sync.group
           already == UNION {{c.message, c.spoke} : c \in Entries(cursors)}
           new == CursorsAfter(packet)
           kept == UNION {{c.message, c.spoke} : c \in Entries(new)}
           said == TimesOf(Range(packet.nodes)) \union TimesOf(Range(packet.notifications))
           then == GroupMark(packet)
           nodes(g) == TimesOf(Of(packet.nodes, g))
           items(g) == TimesOf(Of(packet.notifications, g))
           old(g) == ValueAt(cursors, g, NewCursor)
<1>1. LastTime \in Nat /\ SyncTime \subseteq Nat /\ SyncTime = 0 .. LastTime
  BY SyncKnown DEF SyncNumbers, SyncTime
<1>2. \A g \in DOMAIN cursors : cursors[g].message \in SyncTime /\ cursors[g].spoke \in SyncTime
  BY DEF MapFits, Cursor
<1>3. \A t : t \in already
              <=> \E g \in DOMAIN cursors : t = cursors[g].message \/ t = cursors[g].spoke
  BY TimesOfCursors
<1>4. mark \in {0} \union already /\ \A t \in {0} \union already : mark >= t
  <2> HIDE DEF already
  <2>1. already \subseteq SyncTime
    BY <1>2, <1>3
  <2>2. {0} \union already \in SUBSET (0 .. LastTime) /\ {0} \union already # {}
    BY <1>1, <2>1
  <2>3. mark = Max({0} \union already)
    BY DEF already
  <2> QED
    BY <1>1, <2>2, <2>3, LargestIs
<1>5. said \in SUBSET SyncTime
  BY TimesFit DEF PacketFits
<1>6. then \in SyncTime /\ then \in {mark} \union said /\ then >= mark /\ \A t \in said : then >= t
  <2> HIDE DEF said
  <2>1. then = Newest(mark, said)
    BY DEF GroupMark, said
  <2> QED
    BY <1>5, <2>1, TimesNewest
<1>7. /\ DOMAIN new = DOMAIN cursors \union Keys(packet.nodes) \union Keys(packet.notifications)
      /\ \A g \in DOMAIN new :
           /\ new[g].message \in SyncTime /\ new[g].spoke \in SyncTime
           /\ new[g].message \in {old(g).message} \union nodes(g)
           /\ new[g].spoke \in {old(g).spoke} \union items(g)
           /\ new[g].message >= old(g).message /\ new[g].spoke >= old(g).spoke
           /\ \A t \in nodes(g) : new[g].message >= t
           /\ \A t \in items(g) : new[g].spoke >= t
  BY CursorsFit DEF CursorsFollow, MapFits, Cursor
<1>8. \A g : nodes(g) \subseteq said /\ items(g) \subseteq said
  BY TimesFit DEF PacketFits
<1>9. \A g : old(g).message \in {0} \union already /\ old(g).spoke \in {0} \union already
  <2> HIDE DEF already
  <2> TAKE g
  <2>1. CASE g \in DOMAIN cursors
    BY <1>3, <2>1 DEF ValueAt
  <2>2. CASE g \notin DOMAIN cursors
    BY <2>2 DEF ValueAt, NewCursor
  <2> QED
    BY <2>1, <2>2
<1>10. /\ \A item \in Range(packet.nodes) :
           item.key \in Keys(packet.nodes) /\ item.time \in nodes(item.key)
      /\ \A item \in Range(packet.notifications) :
           item.key \in Keys(packet.notifications) /\ item.time \in items(item.key)
  BY TimesFit DEF PacketFits
<1>11. \A t \in already : \E g \in DOMAIN cursors : t = old(g).message \/ t = old(g).spoke
  <2> HIDE DEF already
  <2> QED
    BY <1>3 DEF ValueAt
<1>12. \A t : t \in kept <=> \E g \in DOMAIN new : t = new[g].message \/ t = new[g].spoke
  <2> HIDE DEF new
  <2> QED
    BY TimesOfCursors
<1>13. \A t \in said : \E g : \/ g \in Keys(packet.nodes) /\ t \in nodes(g)
                              \/ g \in Keys(packet.notifications) /\ t \in items(g)
  <2>1. \A things : \A t \in TimesOf(things) : \E item \in things : t = item.time
    BY DEF TimesOf
  <2> SUFFICES ASSUME NEW t \in said
               PROVE  \E g : \/ g \in Keys(packet.nodes) /\ t \in nodes(g)
                             \/ g \in Keys(packet.notifications) /\ t \in items(g)
    OBVIOUS
  <2> HIDE DEF nodes, items
  <2>2. CASE t \in TimesOf(Range(packet.nodes))
    <3>1. PICK item \in Range(packet.nodes) : t = item.time
      BY <2>1, <2>2
    <3> QED
      BY <1>10, <3>1
  <2>3. CASE t \in TimesOf(Range(packet.notifications))
    <3>1. PICK item \in Range(packet.notifications) : t = item.time
      BY <2>1, <2>3
    <3> QED
      BY <1>10, <3>1
  <2> QED
    BY <2>2, <2>3
<1> HIDE DEF mark, already, new, kept, said, then, nodes, items, old
<1>14. \A g \in DOMAIN new : then >= new[g].message /\ then >= new[g].spoke
  <2> TAKE g \in DOMAIN new
  <2>1. \A t \in {0} \union already \union said : then >= t
    <3>1. mark \in Nat /\ then \in Nat
      BY <1>1, <1>6 DEF mark
    <3>2. \A t \in SyncTime : mark >= t => then >= t
      BY <1>1, <1>6, <3>1
    <3>3. already \subseteq SyncTime
      BY <1>2, <1>3
    <3>4. 0 \in SyncTime
      BY <1>1
    <3> QED
      BY <1>4, <1>6, <3>2, <3>3, <3>4
  <2> QED
    BY <1>7, <1>8, <1>9, <2>1
<1>15. then \in {0} \union kept
  <2>1. CASE then = mark /\ mark # 0
    <3>1. PICK g \in DOMAIN cursors : then = old(g).message \/ then = old(g).spoke
      BY <1>4, <1>11, <2>1
    <3>2. g \in DOMAIN new /\ (new[g].message >= then \/ new[g].spoke >= then)
      BY <1>7, <3>1
    <3>3. then = new[g].message \/ then = new[g].spoke
      BY <1>1, <1>6, <1>7, <1>14, <3>2
    <3> QED
      BY <1>12, <3>2, <3>3
  <2>2. CASE then \in said
    <3>1. PICK g : \/ g \in Keys(packet.nodes) /\ then \in nodes(g)
                   \/ g \in Keys(packet.notifications) /\ then \in items(g)
      BY <1>13, <2>2
    <3>2. g \in DOMAIN new /\ (new[g].message >= then \/ new[g].spoke >= then)
      BY <1>7, <3>1
    <3>3. then = new[g].message \/ then = new[g].spoke
      BY <1>1, <1>6, <1>7, <1>14, <3>2
    <3> QED
      BY <1>12, <3>2, <3>3
  <2> QED
    BY <1>6, <2>1, <2>2
<1>16. {0} \union kept \in SUBSET Nat /\ \A t \in {0} \union kept : t <= then
  <2>1. kept \subseteq Nat
    BY <1>1, <1>7, <1>12
  <2>2. \A t \in kept : then >= t
    BY <1>12, <1>14
  <2> QED
    BY <1>1, <1>6, <2>1, <2>2
<1>17. Max({0} \union kept) = then
  BY <1>15, <1>16, LargestOnly
<1> QED
  BY <1>17 DEF then, kept, new

-----------------------------------------------------------------------------
\* The group of the latest node is one, or remains.
LEMMA LastGroupFits ==
  ASSUME NEW nodes \in Seq(Nodes), sync.last \in Group \union {NoKey}
  PROVE  LastGroup(nodes) \in Group \union {NoKey}
<1> DEFINE latest == Newest(0, TimesOf(Range(nodes)))
           newest == {i \in DOMAIN nodes : nodes[i].time = latest}
<1>1. CASE nodes = <<>>
  BY <1>1 DEF LastGroup
<1>2. CASE nodes # <<>>
  <2>1. /\ DOMAIN nodes = 1 .. Len(nodes) /\ Len(nodes) \in Nat /\ 1 \in DOMAIN nodes
        /\ \A i \in DOMAIN nodes : nodes[i].key \in Group /\ nodes[i].time \in SyncTime
    <3>1. /\ DOMAIN nodes = 1 .. Len(nodes) /\ Len(nodes) \in Nat /\ 1 \in DOMAIN nodes
          /\ \A i \in DOMAIN nodes : nodes[i] \in Nodes
      BY <1>2
    <3> QED
      BY <3>1 DEF Nodes
  <2>2. /\ \A i \in DOMAIN nodes : nodes[i].time \in TimesOf(Range(nodes))
        /\ \A t \in TimesOf(Range(nodes)) : \E i \in DOMAIN nodes : t = nodes[i].time
    BY DEF TimesOf, Range
  <2>3. TimesOf(Range(nodes)) \in SUBSET SyncTime /\ 0 \in SyncTime /\ SyncTime \subseteq Nat
    BY <2>1, <2>2, SyncKnown DEF SyncNumbers, SyncTime
  <2>4. /\ latest \in {0} \union TimesOf(Range(nodes)) /\ latest >= 0
        /\ \A t \in TimesOf(Range(nodes)) : latest >= t
    BY <2>3, TimesNewest
  <2> HIDE DEF latest
  <2>5. newest # {}
    <3>1. CASE latest = 0
      <4>1. nodes[1].time \in Nat /\ 0 >= nodes[1].time
        BY <2>1, <2>2, <2>3, <2>4, <3>1
      <4>2. nodes[1].time = latest
        BY <3>1, <4>1
      <4> QED
        BY <2>1, <4>2
    <3>2. CASE latest \in TimesOf(Range(nodes))
      BY <2>2, <3>2
    <3> QED
      BY <2>4, <3>1, <3>2
  <2>6. newest \in SUBSET Nat
    BY <2>1
  <2>7. Min(newest) \in newest
    <3> HIDE DEF newest
    <3> QED
      BY <2>5, <2>6, SmallestIs
  <2>8. nodes[Min(newest)].key \in Group
    BY <2>1, <2>7
  <2> HIDE DEF newest
  <2>9. LastGroup(nodes) \in {sync.last, nodes[Min(newest)].key}
    BY DEF LastGroup, newest, latest
  <2> QED
    BY <2>8, <2>9
<1> QED
  BY <1>1, <1>2

-----------------------------------------------------------------------------
\* No messages have no bytes.
LEMMA NothingDelivered == Total(<<>>) = 0
<1>1. SUBSET DOMAIN <<>> = {{}}
  OBVIOUS
<1> QED
  BY <1>1 DEF Total, FoldLeft, MapThenFoldSet

\* A generation begins with nothing.
LEMMA SyncStart == SyncInit => SyncInv
<1> SUFFICES ASSUME SyncInit PROVE SyncInv
  OBVIOUS
<1> USE SyncKnown DEF SyncNumbers
<1>1. /\ DOMAIN cursors = {} /\ DOMAIN directs = {} /\ DOMAIN recents = {}
      /\ Cardinality({}) = 0 /\ IsFiniteSet({})
  BY FS_EmptySet DEF SyncInit
<1>2. sync \in SyncState /\ sync.group = 0 /\ sync.direct = 0 /\ sync.previous = 0
  BY DEF SyncInit, SyncState, SyncTime
<1>3. MapsFit
  BY <1>1 DEF MapsFit, MapFits
<1>4. FirstIsAsked
  BY DEF FirstIsAsked, SyncInit
<1>5. Max({0}) = 0
  BY LargestOnly
<1>6. MarksCoverCursors
  <2>1. /\ UNION {{c.message, c.spoke} : c \in Entries(cursors)} = {}
        /\ Entries(directs) = {}
    BY <1>1, TimesOfCursors DEF Entries
  <2>2. /\ {0} \union UNION {{c.message, c.spoke} : c \in Entries(cursors)} = {0}
        /\ {0} \union Entries(directs) = {0}
    BY <2>1
  <2> QED
    BY <1>2, <1>5, <2>2 DEF MarksCoverCursors
<1>7. BoundsHold
  <2>1. delivered.sizes = <<>> /\ delivered.slots = 0 /\ delivered.bytes = 0 /\ Len(<<>>) = 0
    BY DEF SyncInit
  <2> QED
    BY <1>1, <2>1, NothingDelivered DEF BoundsHold
<1> QED
  BY <1>2, <1>3, <1>4, <1>6, <1>7 DEF SyncInv

\* What an exchange leaves alone holds still.
LEMMA MarksStay ==
  ASSUME SyncInv, UNCHANGED <<cursors, directs, recents, delivered>>, sync' \in SyncState,
         sync'.group = sync.group, sync'.direct = sync.direct, sync'.previous = sync.previous,
         FirstIsAsked', asked # NoRequest /\ asked' # asked => ~asked'.first
  PROVE  SyncInv' /\ NeverGoesBack
<1>1. MapsFit' /\ BoundsHold' /\ MarksCoverCursors'
  <2>1. MapsFit'
    BY DEF SyncInv, MapsFit
  <2>2. BoundsHold'
    BY DEF SyncInv, BoundsHold
  <2>3. MarksCoverCursors'
    BY DEF SyncInv, MarksCoverCursors
  <2> QED
    BY <2>1, <2>2, <2>3
<1>2. /\ \A g \in DOMAIN cursors : \A f \in DOMAIN NewCursor : cursors'[g][f] >= cursors[g][f]
      /\ Advances(directs, directs') /\ Advances(recents, recents')
      /\ \A f \in {"group", "direct", "previous"} : sync'[f] >= sync[f]
  <2>1. LastTime \in Nat
    BY SyncKnown DEF SyncNumbers
  <2>2. /\ \A g \in DOMAIN cursors : cursors[g] \in Cursor
        /\ \A k \in DOMAIN directs : directs[k] \in SyncTime
        /\ \A k \in DOMAIN recents : recents[k] \in SyncTime
    BY DEF SyncInv, MapsFit, MapFits
  <2>3. \A c \in Cursor : \A f \in DOMAIN NewCursor : c[f] >= c[f]
    BY <2>1 DEF Cursor, NewCursor, SyncTime
  <2>4. \A f \in {"group", "direct", "previous"} : sync'[f] >= sync[f]
    BY <2>1 DEF SyncState, SyncTime
  <2>5. \A t \in SyncTime : t >= t
    BY <2>1 DEF SyncTime
  <2> QED
    BY <2>2, <2>3, <2>4, <2>5 DEF Advances
<1> QED
  BY <1>1, <1>2 DEF SyncInv, NeverGoesBack

\* Exchanges: what was first is asked before anything else, and once.
LEMMA ExchangesKeep ==
  ASSUME SyncInv,
         \/ WithoutConfirmation
         \/ \E response \in Answers : Synchronize(response) \/ ConfirmStatus(response)
  PROVE  SyncInv' /\ NeverGoesBack
<1>1. sync \in SyncState /\ FirstIsAsked
  BY DEF SyncInv
<1>2. ASSUME NEW response \in Answers PROVE Silenced(response) \in {NoKey, 0, 1}
  BY <1>1 DEF Silenced, Answers, SyncState
<1>3. ASSUME NEW response \in Answers, Synchronize(response) PROVE SyncInv' /\ NeverGoesBack
  <2>1. /\ UNCHANGED <<cursors, directs, recents, delivered>>
        /\ sync' \in SyncState
        /\ sync'.group = sync.group /\ sync'.direct = sync.direct /\ sync'.previous = sync.previous
    BY <1>1, <1>2, <1>3 DEF Synchronize, SyncEnds, SyncState, Registered
  <2>2. FirstIsAsked'
    BY <1>1, <1>3 DEF Synchronize, SyncEnds, SyncState, Registered, FirstIsAsked
  <2>3. asked # NoRequest /\ asked' # asked => ~asked'.first
    BY <1>1, <1>3 DEF Synchronize, FirstIsAsked
  <2> QED
    BY <2>1, <2>2, <2>3, MarksStay
<1>4. ASSUME NEW response \in Answers, ConfirmStatus(response) PROVE SyncInv' /\ NeverGoesBack
  <2>1. /\ UNCHANGED <<cursors, directs, recents, delivered, asked>>
        /\ sync' \in SyncState
        /\ sync'.group = sync.group /\ sync'.direct = sync.direct /\ sync'.previous = sync.previous
    BY <1>1, <1>2, <1>4 DEF ConfirmStatus, SyncEnds, SyncState
  <2>2. FirstIsAsked'
    BY <1>1, <1>4 DEF ConfirmStatus, SyncEnds, SyncState, FirstIsAsked
  <2> QED
    BY <2>1, <2>2, MarksStay
<1>5. CASE WithoutConfirmation
  BY <1>1, <1>5, MarksStay DEF WithoutConfirmation, FirstIsAsked
<1> QED
  BY <1>3, <1>4, <1>5

\* A push that is accepted takes no map above its limit.
LEMMA AcceptedFits ==
  ASSUME MapsFit, NEW packet, PacketFits(packet), NEW slots, NEW bytes,
         Accepts(packet, slots, bytes)
  PROVE  /\ Cardinality(DOMAIN CursorsAfter(packet)) <= CursorLimit
         /\ Cardinality(DOMAIN Merged(directs, packet.peers)) <= CursorLimit
         /\ Cardinality(DOMAIN Merged(recents, packet.recents)) <= CursorLimit
<1>1. /\ IsFiniteSet(DOMAIN cursors) /\ IsFiniteSet(DOMAIN directs) /\ IsFiniteSet(DOMAIN recents)
      /\ IsFiniteSet(Keys(packet.nodes)) /\ IsFiniteSet(Keys(packet.notifications))
      /\ IsFiniteSet(Keys(packet.peers)) /\ IsFiniteSet(Keys(packet.recents))
  BY DEF MapsFit, MapFits, PacketFits, ItemsFit
<1>2. /\ HasRoom(cursors, packet.nodes, packet.notifications)
      /\ HasRoom(directs, packet.peers, <<>>) /\ HasRoom(recents, packet.recents, <<>>)
  BY DEF Accepts
<1>3. Keys(<<>>) = {} /\ IsFiniteSet({})
  BY FS_EmptySet DEF Keys, Range
<1>4. Cardinality(DOMAIN cursors \union Keys(packet.nodes) \union Keys(packet.notifications))
        <= CursorLimit
  BY <1>1, <1>2, RoomIsKept
<1>5. /\ Cardinality(DOMAIN directs \union Keys(packet.peers) \union Keys(<<>>)) <= CursorLimit
      /\ Cardinality(DOMAIN recents \union Keys(packet.recents) \union Keys(<<>>)) <= CursorLimit
  BY <1>1, <1>2, <1>3, RoomIsKept
<1>6. /\ DOMAIN directs \union Keys(packet.peers) \union Keys(<<>>)
           = DOMAIN directs \union Keys(packet.peers)
      /\ DOMAIN recents \union Keys(packet.recents) \union Keys(<<>>)
           = DOMAIN recents \union Keys(packet.recents)
  BY <1>3
<1> QED
  BY <1>4, <1>5, <1>6 DEF CursorsAfter, Merged

\* A push, all of it or nothing.
LEMMA PushKeeps ==
  ASSUME SyncInv, NEW packet \in Packets, NEW slots, NEW bytes, Push(packet, slots, bytes)
  PROVE  SyncInv' /\ NeverGoesBack
<1>1. PacketFits(packet) /\ MapsFit /\ sync \in SyncState /\ FirstIsAsked
  BY PacketsFit DEF SyncInv
<1>2. CASE ~Accepts(packet, slots, bytes)
  <2>1. SyncEnds /\ UNCHANGED asked
    BY <1>2 DEF Push
  <2>2. UNCHANGED <<cursors, directs, recents, delivered, sync, asked>> /\ FirstIsAsked'
    BY <1>1, <2>1 DEF Push, SyncEnds, FirstIsAsked
  <2> QED
    BY <1>1, <2>2, MarksStay
<1>3. CASE Accepts(packet, slots, bytes)
  <2>1. /\ syncStage = "On" /\ syncStage' = syncStage /\ asked' = asked
        /\ cursors' = CursorsAfter(packet)
        /\ directs' = Merged(directs, packet.peers)
        /\ recents' = Merged(recents, packet.recents)
        /\ sync' = Marked(packet)
        /\ delivered' = [sizes |-> SelectSeq(Embedded(packet), Taken),
                         slots |-> slots, bytes |-> bytes]
    BY <1>3 DEF Push
  <2>2. /\ MapFits(cursors, Group, Cursor) /\ MapFits(directs, Peer, SyncTime)
        /\ MapFits(recents, Peer, SyncTime)
        /\ ItemsFit(packet.peers, Peer) /\ ItemsFit(packet.recents, Peer)
        /\ \A item \in Range(packet.peers) : item.key # NoKey
        /\ packet.nodes \in Seq(Nodes)
    BY <1>1 DEF MapsFit, PacketFits
  <2>3. /\ MapFits(cursors', Group, Cursor) /\ CursorsFollow(packet)
        /\ MapFits(directs', Peer, SyncTime) /\ Advances(directs, directs')
        /\ MapFits(recents', Peer, SyncTime) /\ Advances(recents, recents')
    BY <1>1, <2>1, <2>2, CursorsFit, MergedFits
  <2>4. /\ sync.group \in SyncTime /\ sync.direct \in SyncTime /\ sync.previous \in SyncTime
        /\ sync.last \in Group \union {NoKey} /\ sync.first \in BOOLEAN
        /\ sync.silence \in {NoKey, 0, 1}
        /\ sync.direct = sync.previous
        /\ sync.group = Max({0} \union UNION {{c.message, c.spoke} : c \in Entries(cursors)})
        /\ sync.previous = Max({0} \union Entries(directs))
    BY DEF SyncInv, SyncState, MarksCoverCursors
  <2>5. /\ sync'.group = GroupMark(packet) /\ sync'.direct = DirectMark(sync.direct, packet)
        /\ sync'.previous = DirectMark(sync.previous, packet)
        /\ sync'.last = LastGroup(packet.nodes)
        /\ sync'.first = sync.first /\ sync'.silence = sync.silence
        /\ sync' = [first |-> sync'.first, group |-> sync'.group, direct |-> sync'.direct,
                    previous |-> sync'.previous, last |-> sync'.last, silence |-> sync'.silence]
    BY <1>1, <2>1 DEF Marked, SyncState
  <2>6. /\ GroupMark(packet)
             = Max({0} \union UNION {{c.message, c.spoke} : c \in Entries(CursorsAfter(packet))})
        /\ DirectMark(sync.previous, packet)
             = Max({0} \union Entries(Merged(directs, packet.peers)))
    BY <1>1, <2>2, <2>4, GroupMarkFollows, MarkFollows DEF DirectMark
  <2>7. /\ GroupMark(packet) \in SyncTime /\ GroupMark(packet) >= sync.group
        /\ DirectMark(sync.direct, packet) \in SyncTime
        /\ DirectMark(sync.direct, packet) >= sync.direct
    <3>1. /\ TimesOf(Range(packet.nodes)) \union TimesOf(Range(packet.notifications))
               \in SUBSET SyncTime
          /\ TimesOf(Range(packet.peers)) \in SUBSET SyncTime
      BY <1>1, TimesFit DEF PacketFits
    <3> QED
      BY <2>4, <3>1, TimesNewest DEF GroupMark, DirectMark
  <2>8. sync' \in SyncState
    <3>1. LastGroup(packet.nodes) \in Group \union {NoKey}
      BY <2>2, <2>4, LastGroupFits
    <3> QED
      BY <2>4, <2>5, <2>7, <3>1 DEF SyncState
  <2>9. MarksCoverCursors'
    BY <2>1, <2>4, <2>5, <2>6 DEF MarksCoverCursors
  <2>10. BoundsHold'
    <3>1. /\ Cardinality(DOMAIN cursors') <= CursorLimit
          /\ Cardinality(DOMAIN directs') <= CursorLimit
          /\ Cardinality(DOMAIN recents') <= CursorLimit
      BY <1>1, <1>3, <2>1, AcceptedFits
    <3>2. SelectSeq(Embedded(packet), Counted) = SelectSeq(Embedded(packet), Taken)
      BY DEF Counted, Taken
    <3>3. /\ Len(SelectSeq(Embedded(packet), Counted)) <= slots
          /\ Total(SelectSeq(Embedded(packet), Counted)) <= bytes
      BY <1>3 DEF Accepts
    <3>4. Len(delivered'.sizes) <= delivered'.slots /\ Total(delivered'.sizes) <= delivered'.bytes
      BY <2>1, <3>2, <3>3
    <3> QED
      BY <3>1, <3>4 DEF BoundsHold
  <2>11. MapsFit' /\ FirstIsAsked'
    BY <1>1, <2>1, <2>3, <2>5 DEF MapsFit, FirstIsAsked
  <2>12. \A g \in DOMAIN cursors :
          g \in DOMAIN cursors' /\ \A f \in DOMAIN NewCursor : cursors'[g][f] >= cursors[g][f]
    <3> SUFFICES ASSUME NEW g \in DOMAIN cursors
                 PROVE  /\ g \in DOMAIN cursors'
                        /\ \A f \in DOMAIN NewCursor : cursors'[g][f] >= cursors[g][f]
      OBVIOUS
    <3>1. /\ g \in DOMAIN cursors' /\ ValueAt(cursors, g, NewCursor) = cursors[g]
          /\ cursors'[g].sequence >= cursors[g].sequence
          /\ cursors'[g].message >= cursors[g].message
          /\ cursors'[g].spoke >= cursors[g].spoke
      BY <2>1, <2>3 DEF CursorsFollow, ValueAt
    <3>2. DOMAIN NewCursor = {"sequence", "message", "spoke"}
      BY DEF NewCursor
    <3> QED
      BY <3>1, <3>2
  <2>13. \A f \in {"group", "direct", "previous"} : sync'[f] >= sync[f]
    BY <2>4, <2>5, <2>7
  <2>14. NeverGoesBack
    BY <2>1, <2>3, <2>12, <2>13 DEF NeverGoesBack
  <2> QED
    BY <2>8, <2>9, <2>10, <2>11, <2>14 DEF SyncInv
<1> QED
  BY <1>2, <1>3

\* Every step preserves the invariant and goes nowhere back.
LEMMA SyncStep == SyncInv /\ [SyncNext]_syncVars => SyncInv' /\ [NeverGoesBack]_syncVars
<1> SUFFICES ASSUME SyncInv, [SyncNext]_syncVars PROVE SyncInv' /\ [NeverGoesBack]_syncVars
  OBVIOUS
<1>1. CASE UNCHANGED syncVars
  BY <1>1 DEF syncVars, SyncInv, MapsFit, FirstIsAsked, MarksCoverCursors, BoundsHold
<1>2. CASE \/ WithoutConfirmation
           \/ \E response \in Answers : Synchronize(response) \/ ConfirmStatus(response)
  BY <1>2, ExchangesKeep
<1>3. CASE \E packet \in Packets, slots \in 0 .. 1 : Push(packet, slots, slots * MaxEmbedded)
  BY <1>3, PushKeeps
<1> QED
  BY <1>1, <1>2, <1>3 DEF SyncNext

\* However many pushes come, in any order and repeated: the marks of a generation
\* are the newest times of its cursors, its maps stay within their limits, a push
\* delivers no more than there was room for, and nothing goes back (state.rs:168,
\* apply.rs:99, validate.rs:75).
THEOREM SyncIsSoundCorrect == SyncSpec => SyncIsSound
<1>1. SyncInv => MarksCoverCursors /\ BoundsHold
  BY DEF SyncInv
<1> QED
  BY <1>1, SyncStart, SyncStep, PTL DEF SyncSpec, SyncIsSound, CursorsOnlyAdvance

-----------------------------------------------------------------------------
(* The pushes.                                                             *)

\* Numbers that hold for zero, and for one more than any, hold for all.
LEMMA Inductive ==
  ASSUME NEW S \in SUBSET Nat, 0 \in S, \A n \in S : n + 1 \in S
  PROVE  S = Nat
<1> SUFFICES ASSUME Nat \ S # {} PROVE FALSE
  OBVIOUS
<1> DEFINE below == OpToRel(<, Nat)
           rest == Nat \ S
<1>1. PICK m \in rest : \A x \in rest : ~ (<<x, m>> \in below)
  <2>1. IsWellFoundedOn(below, Nat)
    BY NatLessThanWellFounded
  <2>2. rest \subseteq Nat /\ rest # {}
    OBVIOUS
  <2> HIDE DEF below, rest
  <2> QED
    BY <2>1, <2>2, WFMin
<1>2. m \in Nat /\ m # 0 /\ m - 1 \in Nat
  OBVIOUS
<1>3. m - 1 \in rest
  <2>1. (m - 1) + 1 = m
    BY <1>2
  <2> QED
    BY <1>2, <2>1
<1>4. <<m - 1, m>> \in below
  BY <1>2 DEF OpToRel
<1> QED
  BY <1>1, <1>3, <1>4

\* What the queue is counted as, up to each of its events.
IsCount(queue, sums) ==
  /\ sums \in [0 .. Len(queue) -> Int]
  /\ sums[0] = 0
  /\ \A n \in 1 .. Len(queue) : sums[n] = sums[n - 1] + queue[n]

\* A queue has such a count: one more event is one more sum.
LEMMA CountExists ==
  ASSUME NEW queue \in Seq(Nat)
  PROVE  \E sums : IsCount(queue, sums)
<1> DEFINE Counts(n, c) == /\ c \in [0 .. n -> Int] /\ c[0] = 0
                           /\ \A i \in 1 .. n : c[i] = c[i - 1] + queue[i]
           S == {n \in Nat : n <= Len(queue) => \E c : Counts(n, c)}
<1>1. Len(queue) \in Nat
  OBVIOUS
<1>2. 0 \in S
  <2>1. Counts(0, [i \in 0 .. 0 |-> 0])
    OBVIOUS
  <2> QED
    BY <2>1
<1>3. ASSUME NEW n \in S PROVE n + 1 \in S
  <2> SUFFICES ASSUME n + 1 <= Len(queue) PROVE \E c : Counts(n + 1, c)
    <3> HIDE DEF Counts
    <3> QED
      OBVIOUS
  <2>1. n \in Nat /\ queue[n + 1] \in Nat /\ n <= Len(queue)
    BY <1>1
  <2>2. PICK c : Counts(n, c)
    BY <2>1
  <2> DEFINE d == [i \in 0 .. n + 1 |-> IF i = n + 1 THEN c[n] + queue[n + 1] ELSE c[i]]
  <2>3. d \in [0 .. n + 1 -> Int] /\ d[0] = 0
    BY <2>1, <2>2
  <2>4. ASSUME NEW i \in 1 .. n + 1 PROVE d[i] = d[i - 1] + queue[i]
    <3>1. CASE i = n + 1
      BY <2>1, <3>1
    <3>2. CASE i # n + 1
      <4>1. i \in 1 .. n /\ i \in 0 .. n + 1 /\ i - 1 \in 0 .. n + 1 /\ i - 1 # n + 1
        BY <2>1, <3>2
      <4> QED
        BY <2>2, <3>2, <4>1
    <3> QED
      BY <3>1, <3>2
  <2> QED
    BY <2>3, <2>4
<1>4. S = Nat
  <2> HIDE DEF S
  <2>1. S \in SUBSET Nat
    BY DEF S
  <2> QED
    BY <1>2, <1>3, <2>1, Inductive
<1>5. Len(queue) \in S
  BY <1>1, <1>4
<1> QED
  BY <1>5 DEF IsCount

\* Two counts of a queue agree, so that it is counted as the last of any.
LEMMA CountsAgree ==
  ASSUME NEW queue \in Seq(Nat), NEW c, NEW d, IsCount(queue, c), IsCount(queue, d)
  PROVE  c = d
<1> DEFINE S == {n \in Nat : n <= Len(queue) => c[n] = d[n]}
<1>1. 0 \in S
  BY DEF IsCount
<1>2. ASSUME NEW n \in S PROVE n + 1 \in S
  <2> SUFFICES ASSUME n + 1 <= Len(queue) PROVE c[n + 1] = d[n + 1]
    OBVIOUS
  <2>1. n + 1 \in 1 .. Len(queue) /\ (n + 1) - 1 = n /\ c[n] = d[n]
    OBVIOUS
  <2> QED
    BY <2>1 DEF IsCount
<1>3. S = Nat
  <2> HIDE DEF S
  <2>1. S \in SUBSET Nat
    BY DEF S
  <2> QED
    BY <1>1, <1>2, <2>1, Inductive
<1>4. \A n \in 0 .. Len(queue) : c[n] = d[n]
  BY <1>3
<1> QED
  BY <1>4 DEF IsCount

LEMMA BytesAreCounted ==
  ASSUME NEW queue \in Seq(Nat), NEW sums, IsCount(queue, sums)
  PROVE  QueueBytes(queue) = sums[Len(queue)] /\ QueueBytes(queue) \in Int
<1> DEFINE Equation(f) ==
             f = [n \in 0 .. Len(queue) |-> IF n = 0 THEN 0 ELSE f[n - 1] + queue[n]]
           chosen == CHOOSE f : Equation(f)
<1>1. Equation(sums)
  <2>1. \A n \in 0 .. Len(queue) : sums[n] = IF n = 0 THEN 0 ELSE sums[n - 1] + queue[n]
    BY DEF IsCount
  <2> QED
    BY <2>1 DEF IsCount
<1>2. Equation(chosen)
  <2> HIDE DEF Equation
  <2> QED
    BY <1>1
<1>3. IsCount(queue, chosen)
  <2>0. /\ DOMAIN chosen = 0 .. Len(queue) /\ chosen[0] = 0
        /\ \A n \in 1 .. Len(queue) : chosen[n] = chosen[n - 1] + queue[n]
    <3> HIDE DEF chosen
    <3> QED
      BY <1>2
  <2> HIDE DEF chosen
  <2> DEFINE S == {n \in Nat : n <= Len(queue) => chosen[n] \in Int}
  <2>1. 0 \in S
    BY <2>0
  <2>2. ASSUME NEW n \in S PROVE n + 1 \in S
    <3> SUFFICES ASSUME n + 1 <= Len(queue) PROVE chosen[n + 1] \in Int
      OBVIOUS
    <3>1. n + 1 \in 1 .. Len(queue) /\ (n + 1) - 1 = n /\ chosen[n] \in Int
          /\ queue[n + 1] \in Nat
      OBVIOUS
    <3> QED
      BY <2>0, <3>1
  <2>3. S = Nat
    <3> HIDE DEF S
    <3>1. S \in SUBSET Nat
      BY DEF S
    <3> QED
      BY <2>1, <2>2, <3>1, Inductive
  <2>4. \A n \in 0 .. Len(queue) : chosen[n] \in Int
    BY <2>3
  <2>5. chosen = [n \in 0 .. Len(queue) |-> chosen[n]]
    BY <1>2
  <2> QED
    BY <2>0, <2>4, <2>5 DEF IsCount
<1>4. QueueBytes(queue) = chosen[Len(queue)]
  BY DEF QueueBytes
<1> HIDE DEF chosen
<1>5. chosen = sums
  BY <1>3, CountsAgree
<1> QED
  BY <1>3, <1>4, <1>5 DEF IsCount


LEMMA EmptyIsCounted == QueueBytes(<<>>) = 0
<1>1. IsCount(<<>>, [n \in 0 .. 0 |-> 0])
  BY DEF IsCount
<1> QED
  BY <1>1, BytesAreCounted

LEMMA AppendIsCounted ==
  ASSUME NEW queue \in Seq(Nat), NEW size \in Nat
  PROVE  QueueBytes(Append(queue, size)) = QueueBytes(queue) + size
<1> DEFINE longer == Append(queue, size)
<1>1. PICK c : IsCount(queue, c)
  BY CountExists
<1>0. /\ \A n \in 0 .. Len(queue) : c[n] \in Int
      /\ c[0] = 0 /\ \A n \in 1 .. Len(queue) : c[n] = c[n - 1] + queue[n]
  BY <1>1 DEF IsCount
<1> DEFINE d == [n \in 0 .. Len(queue) + 1 |->
                   IF n = Len(queue) + 1 THEN c[Len(queue)] + size ELSE c[n]]
<1>2. /\ longer \in Seq(Nat) /\ Len(longer) = Len(queue) + 1 /\ Len(queue) \in Nat
      /\ longer[Len(queue) + 1] = size
      /\ \A n \in 1 .. Len(queue) : longer[n] = queue[n]
  OBVIOUS
<1> HIDE DEF longer
<1>3. IsCount(longer, d)
  <2>1. d \in [0 .. Len(longer) -> Int] /\ d[0] = 0
    <3>1. c[Len(queue)] + size \in Int /\ 0 # Len(queue) + 1
      BY <1>0, <1>2
    <3>2. \A n \in 0 .. Len(queue) + 1 : n # Len(queue) + 1 => c[n] \in Int
      BY <1>0, <1>2
    <3> QED
      BY <1>0, <1>2, <3>1, <3>2
  <2>2. ASSUME NEW n \in 1 .. Len(longer) PROVE d[n] = d[n - 1] + longer[n]
    <3>1. CASE n = Len(queue) + 1
      <4>1. n - 1 = Len(queue) /\ n - 1 \in 0 .. Len(queue) + 1 /\ n - 1 # Len(queue) + 1
            /\ n \in 0 .. Len(queue) + 1
        BY <1>2, <3>1
      <4> QED
        BY <1>2, <3>1, <4>1
    <3>2. CASE n # Len(queue) + 1
      <4>1. /\ n \in 1 .. Len(queue) /\ n \in 0 .. Len(queue) + 1
            /\ n - 1 \in 0 .. Len(queue) + 1 /\ n - 1 # Len(queue) + 1
        BY <1>2, <3>2
      <4> QED
        BY <1>1, <1>2, <3>2, <4>1 DEF IsCount
    <3> QED
      BY <3>1, <3>2
  <2> HIDE DEF d
  <2> QED
    BY <2>1, <2>2 DEF IsCount
<1>4. d[Len(longer)] = c[Len(queue)] + size
  BY <1>2
<1> HIDE DEF d
<1>5. QueueBytes(longer) = d[Len(longer)] /\ QueueBytes(queue) = c[Len(queue)]
  BY <1>1, <1>2, <1>3, BytesAreCounted
<1> QED
  BY <1>4, <1>5 DEF longer

LEMMA TailIsCounted ==
  ASSUME NEW queue \in Seq(Nat), queue # <<>>
  PROVE  QueueBytes(queue) = Head(queue) + QueueBytes(Tail(queue))
<1> DEFINE rest == Tail(queue)
<1>1. PICK c : IsCount(queue, c)
  BY CountExists
<1>0. /\ \A n \in 0 .. Len(queue) : c[n] \in Int
      /\ c[0] = 0 /\ \A n \in 1 .. Len(queue) : c[n] = c[n - 1] + queue[n]
  BY <1>1 DEF IsCount
<1>2. /\ rest \in Seq(Nat) /\ Len(rest) = Len(queue) - 1 /\ Len(queue) \in Nat \ {0}
      /\ Head(queue) = queue[1] /\ queue[1] \in Nat
      /\ \A n \in 1 .. Len(rest) : rest[n] = queue[n + 1]
  OBVIOUS
<1> DEFINE d == [n \in 0 .. Len(rest) |-> c[n + 1] - queue[1]]
<1> HIDE DEF rest
<1>3. IsCount(rest, d)
  <2>1. \A n \in 0 .. Len(rest) : n + 1 \in 0 .. Len(queue)
    BY <1>2
  <2>2. 1 \in 1 .. Len(queue) /\ c[1] = c[1 - 1] + queue[1] /\ c[0] = 0
    BY <1>1, <1>2 DEF IsCount
  <2>3. d \in [0 .. Len(rest) -> Int] /\ d[0] = 0
    BY <1>1, <1>2, <2>1, <2>2 DEF IsCount
  <2>4. ASSUME NEW n \in 1 .. Len(rest) PROVE d[n] = d[n - 1] + rest[n]
    <3>1. /\ n + 1 \in 1 .. Len(queue) /\ n \in 0 .. Len(rest) /\ n - 1 \in 0 .. Len(rest)
          /\ (n + 1) - 1 = n /\ (n - 1) + 1 = n /\ n \in 0 .. Len(queue)
      BY <1>2
    <3>2. c[n + 1] = c[n] + queue[n + 1]
      BY <1>0, <3>1
    <3>3. c[n] \in Int /\ queue[n + 1] \in Nat
      BY <1>0, <3>1
    <3>4. d[n] = c[n + 1] - queue[1] /\ d[n - 1] = c[n] - queue[1]
      BY <3>1
    <3>5. rest[n] = queue[n + 1] /\ queue[1] \in Int
      BY <1>2
    <3> HIDE DEF d
    <3> QED
      BY <3>2, <3>3, <3>4, <3>5
  <2> HIDE DEF d
  <2> QED
    BY <2>3, <2>4 DEF IsCount
<1>4. d[Len(rest)] = c[Len(queue)] - queue[1]
  BY <1>2
<1>5. c[Len(queue)] \in Int
  BY <1>0, <1>2
<1> HIDE DEF d
<1>6. QueueBytes(rest) = d[Len(rest)] /\ QueueBytes(queue) = c[Len(queue)]
  BY <1>1, <1>2, <1>3, BytesAreCounted
<1> QED
  BY <1>2, <1>4, <1>5, <1>6 DEF rest

\* A queue is counted as no less than nothing.
LEMMA BytesAreNatural ==
  ASSUME NEW queue \in Seq(Nat)
  PROVE  QueueBytes(queue) \in Nat
<1>1. PICK c : IsCount(queue, c)
  BY CountExists
<1> DEFINE S == {n \in Nat : n <= Len(queue) => c[n] \in Nat}
<1>2. 0 \in S
  BY <1>1 DEF IsCount
<1>3. ASSUME NEW n \in S PROVE n + 1 \in S
  <2> SUFFICES ASSUME n + 1 <= Len(queue) PROVE c[n + 1] \in Nat
    OBVIOUS
  <2>1. n + 1 \in 1 .. Len(queue) /\ (n + 1) - 1 = n /\ c[n] \in Nat /\ queue[n + 1] \in Nat
    OBVIOUS
  <2> QED
    BY <1>1, <2>1 DEF IsCount
<1>4. S = Nat
  <2> HIDE DEF S
  <2>1. S \in SUBSET Nat
    BY DEF S
  <2> QED
    BY <1>2, <1>3, <2>1, Inductive
<1>5. c[Len(queue)] \in Nat
  BY <1>4
<1> QED
  BY <1>1, <1>5, BytesAreCounted

\* Several events of one size count as that many times the size.
LEMMA RepeatsAreCounted ==
  ASSUME NEW queue \in Seq(Nat), NEW size \in Nat, NEW many \in Nat
  PROVE  /\ queue \o [i \in 1 .. many |-> size] \in Seq(Nat)
         /\ Len(queue \o [i \in 1 .. many |-> size]) = Len(queue) + many
         /\ QueueBytes(queue \o [i \in 1 .. many |-> size]) = QueueBytes(queue) + size * many
<1> DEFINE Copies(n) == [i \in 1 .. n |-> size]
           S == {n \in Nat : QueueBytes(queue \o Copies(n)) = QueueBytes(queue) + size * n}
<1>0. \A n \in Nat : Copies(n) \in Seq(Nat) /\ Len(Copies(n)) = n
  OBVIOUS
<1>1. 0 \in S
  <2>1. queue \o Copies(0) = queue
    OBVIOUS
  <2>2. QueueBytes(queue) \in Nat /\ size * 0 = 0
    BY BytesAreNatural
  <2> QED
    BY <2>1, <2>2
<1>2. ASSUME NEW n \in S PROVE n + 1 \in S
  <2>1. queue \o Copies(n + 1) = Append(queue \o Copies(n), size)
    OBVIOUS
  <2>2. queue \o Copies(n) \in Seq(Nat)
    BY <1>0
  <2>3. QueueBytes(queue \o Copies(n + 1)) = QueueBytes(queue \o Copies(n)) + size
    BY <2>1, <2>2, AppendIsCounted
  <2>4. QueueBytes(queue) \in Nat /\ size * (n + 1) = size * n + size /\ size * n \in Nat
    BY BytesAreNatural
  <2>5. QueueBytes(queue \o Copies(n + 1)) = QueueBytes(queue) + size * (n + 1)
    BY <2>3, <2>4
  <2> QED
    BY <2>5
<1>3. S = Nat
  <2> HIDE DEF S
  <2>1. S \in SUBSET Nat
    BY DEF S
  <2> QED
    BY <1>1, <1>2, <2>1, Inductive
<1>4. many \in S
  BY <1>3
<1> QED
  BY <1>0, <1>4

\* What the queue has left is never less than nothing.
LEMMA LeftIs == \A n \in Int : Max({0, n}) = IF n > 0 THEN n ELSE 0
<1> TAKE n \in Int
<1>1. CASE n > 0
  BY <1>1 DEF Max
<1>2. CASE ~(n > 0)
  BY <1>2 DEF Max
<1> QED
  BY <1>1, <1>2

Pushed == Envelopes \union AbsenceMessages

LEMMA PushesFit == \A e \in Pushed : e.size \in Nat /\ e.recalls \in Nat
<1>1. MaxRecalls \in Nat /\ Longest \in Nat
  BY PushAssumption
<1>2. \A e \in Envelopes : e.size \in Nat /\ e.recalls \in Nat
  <2>1. \A e \in Chats : e.size \in Nat /\ e.recalls \in Nat
    BY <1>1 DEF Chats
  <2>2. \A e \in OwnTypes : e.size \in Nat /\ e.recalls \in Nat
    BY DEF OwnTypes
  <2>3. \A e \in FriendEvents \union GroupEvents : e.size \in Nat /\ e.recalls \in Nat
    BY DEF FriendEvents, GroupEvents
  <2>4. \A e \in Recalls : e.size \in Nat /\ e.recalls \in Nat
    BY <1>1 DEF Recalls
  <2> QED
    BY <2>1, <2>2, <2>3, <2>4 DEF Envelopes
<1>3. \A e \in AbsenceMessages : e.size \in Nat /\ e.recalls \in Nat
  BY <1>1 DEF AbsenceMessages, Missed
<1> QED
  BY <1>2, <1>3 DEF Pushed

-----------------------------------------------------------------------------
\* The one decoder that may claim an envelope, by the numbers of its type.
Claimer(e) ==
  IF e.class = 529 THEN 1
  ELSE IF e.class \in {84, 525, 87} THEN 3
  ELSE IF e.class \in {44, 33, 34} THEN 4
  ELSE IF e.class = 528
  THEN IF e.sub = 35 THEN 2 ELSE IF e.sub = 138 THEN 11 ELSE 7
  ELSE IF e.sub = 12 THEN 9 ELSE IF e.sub = 17 THEN 10
  ELSE IF e.sub = 20 THEN 7 ELSE IF e.sub = 21 THEN 8
  ELSE IF e.kind = 35 THEN 5 ELSE 6

LEMMA ClaimsAreOne ==
  ASSUME NEW e
  PROVE  /\ Claims(e) \subseteq {Claimer(e)}
         /\ Cardinality(Claims(e)) <= 1
         /\ Outcome(e) = IF Claims(e) = {} THEN MessageOf(e) ELSE Decoders(e)[Claimer(e)]
<1>0. Claimer(e) \in 1 .. 11
  BY DEF Claimer
<1>1. DOMAIN Decoders(e) = 1 .. 11
  BY DEF Decoders
<1>2. ASSUME NEW i \in 1 .. 11, Decoders(e)[i] # "None" PROVE i = Claimer(e)
  <2>1. CASE i = 1
    BY <1>2, <2>1 DEF Decoders, PrivateFileNotice, Claimer
  <2>2. CASE i = 2
    BY <1>2, <2>2 DEF Decoders, FriendRequest, Claimer
  <2>3. CASE i = 3
    BY <1>2, <2>3 DEF Decoders, GroupRequest, Claimer
  <2>4. CASE i = 4
    BY <1>2, <2>4 DEF Decoders, GroupNotice, Claimer
  <2>5. CASE i = 5
    BY <1>2, <2>5 DEF Decoders, GroupReaction, Claimer
  <2>6. CASE i = 6
    BY <1>2, <2>6 DEF Decoders, GroupNameChange, Claimer
  <2>7. CASE i = 7
    BY <1>2, <2>7 DEF Decoders, PokeNotice, Claimer
  <2>8. CASE i = 8
    BY <1>2, <2>8 DEF Decoders, GroupEssence, Claimer
  <2>9. CASE i = 9
    BY <1>2, <2>9 DEF Decoders, GroupMute, Claimer
  <2>10. CASE i = 10
    BY <1>2, <2>10 DEF Decoders, GroupRecalls, Claimer
  <2>11. CASE i = 11
    BY <1>2, <2>11 DEF Decoders, FriendRecall, Claimer
  <2> QED
    BY <2>1, <2>2, <2>3, <2>4, <2>5, <2>6, <2>7, <2>8, <2>9, <2>10, <2>11
<1>3. Claims(e) \subseteq {Claimer(e)}
  BY <1>1, <1>2 DEF Claims
<1>4. Claims(e) = {} \/ Claims(e) = {Claimer(e)}
  BY <1>3
<1>5. Cardinality({}) = 0 /\ Cardinality({Claimer(e)}) = 1
  BY FS_EmptySet, FS_Singleton
<1>6. Cardinality(Claims(e)) <= 1
  BY <1>4, <1>5
<1>7. Min({Claimer(e)}) = Claimer(e)
  <2>1. {Claimer(e)} \in SUBSET Nat
    BY <1>0
  <2>2. Min({Claimer(e)}) \in {Claimer(e)}
    BY <2>1, SmallestIs
  <2> QED
    BY <2>2
<1>8. Outcome(e) = IF Claims(e) = {} THEN MessageOf(e) ELSE Decoders(e)[Claimer(e)]
  BY <1>4, <1>7 DEF Outcome
<1> QED
  BY <1>3, <1>6, <1>8

\* What a push says of itself: the numbers of its type, and whether it is sound.
TypeOfPush(e) == <<e.class, e.sub, e.kind>>
SoundPush(e) == e.sound /\ e.shape = "Whole" /\ e.rich # "Garbled"

\* What a sound push is decoded as is the event of its type.
LEMMA SoundPushesDecode ==
  ASSUME NEW e \in Pushed, SoundPush(e), ~RefusedType(TypeOfPush(e))
  PROVE  \/ Outcome(e) = KindOfType[TypeOfPush(e)]
         \/ KindOfType[TypeOfPush(e)] = "GroupRecall" /\ Outcome(e) = "Err"
<1> DEFINE t == TypeOfPush(e)
           Expected == \/ Outcome(e) = KindOfType[t]
                       \/ KindOfType[t] = "GroupRecall" /\ Outcome(e) = "Err"
<1>1. /\ t[1] = e.class /\ t[2] = e.sub /\ t[3] = e.kind
      /\ Sound(e) /\ MessageOf(e) = "Message"
  BY DEF TypeOfPush, SoundPush, Sound, MessageOf, Decoded
<1>2. /\ e.class = 732 /\ e.sub = 20 => e.kind = 12
      /\ e.class = 528 /\ e.sub = 290 => e.kind = 12
      /\ e.class = 525 => e.kind = 87
  BY DEF TypeOfPush, RefusedType
<1> DEFINE Classes == {82, 166, 999, 529, 84, 525, 87, 44, 33, 34, 528, 732}
           Subs == {0, 12, 16, 17, 20, 21, 35, 138, 290}
           KindsInside == {0, 12, 27, 35, 87}
<1>3. e.class \in Classes /\ e.sub \in Subs /\ e.kind \in KindsInside
  <2>1. \A p \in Chats : p.class \in Classes /\ p.sub \in Subs /\ p.kind \in KindsInside
    BY DEF Chats
  <2>2. \A p \in OwnTypes : p.class \in Classes /\ p.sub \in Subs /\ p.kind \in KindsInside
    BY DEF OwnTypes
  <2>3. \A p \in FriendEvents :
          p.class \in Classes /\ p.sub \in Subs /\ p.kind \in KindsInside
    BY DEF FriendEvents
  <2>4. \A p \in GroupEvents :
          p.class \in Classes /\ p.sub \in Subs /\ p.kind \in KindsInside
    BY DEF GroupEvents
  <2>5. \A p \in Recalls : p.class \in Classes /\ p.sub \in Subs /\ p.kind \in KindsInside
    BY DEF Recalls
  <2>6. \A p \in AbsenceMessages :
          p.class \in Classes /\ p.sub \in Subs /\ p.kind \in KindsInside
    BY DEF AbsenceMessages, Missed
  <2> HIDE DEF Classes, Subs, KindsInside
  <2> QED
    BY <2>1, <2>2, <2>3, <2>4, <2>5, <2>6 DEF Pushed, Envelopes
<1>4. t \in {<<c, s, k>> : c \in Classes, s \in Subs, k \in KindsInside}
  BY <1>3 DEF TypeOfPush
<1>5. KindOfType[t] =
     CASE t[1] = 529 -> "PrivateFile"
       [] t[1] \in {84, 87} \/ (t[1] = 525 /\ t[3] = 87) -> "GroupRequest"
       [] t[1] \in {44, 33, 34} -> "GroupNotice"
       [] t[1] = 528 /\ t[2] = 35 -> "FriendRequest"
       [] t[1] = 528 /\ t[2] = 138 -> "FriendRecall"
       [] t[1] = 528 /\ t[2] = 290 /\ t[3] = 12 -> "Poke"
       [] t[1] = 732 /\ t[2] = 12 -> "GroupMute"
       [] t[1] = 732 /\ t[2] = 16 /\ t[3] = 35 -> "GroupReaction"
       [] t[1] = 732 /\ t[2] = 16 /\ t[3] = 12 -> "GroupNameChange"
       [] t[1] = 732 /\ t[2] = 17 -> "GroupRecall"
       [] t[1] = 732 /\ t[2] = 20 /\ t[3] = 12 -> "Poke"
       [] t[1] = 732 /\ t[2] = 21 /\ t[3] = 27 -> "GroupEssence"
       [] OTHER -> "Message"
  <2> HIDE DEF t
  <2> QED
    BY <1>4 DEF KindOfType
<1>6. Outcome(e) = IF Decoders(e)[Claimer(e)] = "None" THEN "Message"
                   ELSE Decoders(e)[Claimer(e)]
  <2>1. Claimer(e) \in Claims(e) <=> Decoders(e)[Claimer(e)] # "None"
    BY DEF Claimer, Claims, Decoders
  <2> QED
    BY <1>1, <2>1, ClaimsAreOne
<1> SUFFICES Expected
  OBVIOUS
<1> HIDE DEF t
<1>7. CASE e.class \in {82, 166, 999}
  <2>1. Decoders(e)[Claimer(e)] = "None"
    BY <1>7 DEF Claimer, Decoders, Decoded, GroupReaction, GroupNameChange, PokeNotice,
                GroupEssence, GroupMute, GroupRecalls
  <2> QED
    BY <1>1, <1>5, <1>6, <1>7, <2>1
<1>8. CASE e.class = 529
  <2>1. Decoders(e)[Claimer(e)] = "PrivateFile"
    BY <1>1, <1>2, <1>8 DEF Claimer, Decoders, Decoded, PrivateFileNotice
  <2>2. KindOfType[t] = "PrivateFile"
    BY <1>1, <1>2, <1>5, <1>8
  <2> QED
    BY <1>6, <2>1, <2>2
<1>9. CASE e.class \in {84, 525, 87}
  <2>1. Decoders(e)[Claimer(e)] = "GroupRequest"
    BY <1>1, <1>2, <1>9 DEF Claimer, Decoders, Decoded, GroupRequest
  <2>2. KindOfType[t] = "GroupRequest"
    BY <1>1, <1>2, <1>5, <1>9
  <2> QED
    BY <1>6, <2>1, <2>2
<1>10. CASE e.class \in {44, 33, 34}
  <2>1. Decoders(e)[Claimer(e)] = "GroupNotice"
    BY <1>1, <1>2, <1>10 DEF Claimer, Decoders, Decoded, GroupNotice
  <2>2. KindOfType[t] = "GroupNotice"
    BY <1>1, <1>2, <1>5, <1>10
  <2> QED
    BY <1>6, <2>1, <2>2
<1>11. CASE e.class = 528
  <2>1. CASE e.sub = 35
    <3>1. Decoders(e)[Claimer(e)] = "FriendRequest"
      BY <1>1, <1>2, <1>11, <2>1 DEF Claimer, Decoders, Decoded, FriendRequest
    <3>2. KindOfType[t] = "FriendRequest"
      BY <1>1, <1>2, <1>5, <1>11, <2>1
    <3> QED
      BY <1>6, <3>1, <3>2
  <2>2. CASE e.sub = 138
    <3>1. Decoders(e)[Claimer(e)] = "FriendRecall"
      BY <1>1, <1>2, <1>11, <2>2 DEF Claimer, Decoders, Decoded, FriendRecall
    <3>2. KindOfType[t] = "FriendRecall"
      BY <1>1, <1>2, <1>5, <1>11, <2>2
    <3> QED
      BY <1>6, <3>1, <3>2
  <2>3. CASE e.sub = 290
    <3>1. Decoders(e)[Claimer(e)] = "Poke"
      BY <1>1, <1>2, <1>11, <2>3 DEF Claimer, Decoders, Decoded, PokeNotice
    <3>2. KindOfType[t] = "Poke"
      BY <1>1, <1>2, <1>5, <1>11, <2>3
    <3> QED
      BY <1>6, <3>1, <3>2
  <2>4. CASE e.sub \notin {35, 138, 290}
    <3>1. Decoders(e)[Claimer(e)] = "None"
      BY <1>1, <1>2, <1>11, <2>4 DEF Claimer, Decoders, Decoded, PokeNotice
    <3>2. KindOfType[t] = "Message"
      BY <1>1, <1>2, <1>5, <1>11, <2>4
    <3> QED
      BY <1>6, <3>1, <3>2
  <2> QED
    BY <2>1, <2>2, <2>3, <2>4
<1>12. CASE e.class = 732
  <2>1. CASE e.sub = 12
    <3>1. Decoders(e)[Claimer(e)] = "GroupMute"
      BY <1>1, <1>2, <1>12, <2>1 DEF Claimer, Decoders, Decoded, GroupMute
    <3>2. KindOfType[t] = "GroupMute"
      BY <1>1, <1>2, <1>5, <1>12, <2>1
    <3> QED
      BY <1>6, <3>1, <3>2
  <2>2. CASE e.sub = 17
    <3>1. Decoders(e)[Claimer(e)] \in {"GroupRecall", "Err"}
      BY <1>1, <1>12, <2>2 DEF Claimer, Decoders, Decoded, GroupRecalls
    <3>2. KindOfType[t] = "GroupRecall"
      BY <1>1, <1>5, <1>12, <2>2
    <3> QED
      BY <1>6, <3>1, <3>2
  <2>3. CASE e.sub = 20
    <3>1. Decoders(e)[Claimer(e)] = "Poke"
      BY <1>1, <1>2, <1>12, <2>3 DEF Claimer, Decoders, Decoded, PokeNotice
    <3>2. KindOfType[t] = "Poke"
      BY <1>1, <1>2, <1>5, <1>12, <2>3
    <3> QED
      BY <1>6, <3>1, <3>2
  <2>4. CASE e.sub = 21 /\ e.kind = 27
    <3>1. Decoders(e)[Claimer(e)] = "GroupEssence"
      BY <1>1, <1>2, <1>12, <2>4 DEF Claimer, Decoders, Decoded, GroupEssence
    <3>2. KindOfType[t] = "GroupEssence"
      BY <1>1, <1>2, <1>5, <1>12, <2>4
    <3> QED
      BY <1>6, <3>1, <3>2
  <2>5. CASE e.sub = 21 /\ e.kind # 27
    <3>1. Decoders(e)[Claimer(e)] = "None"
      BY <1>1, <1>2, <1>12, <2>5 DEF Claimer, Decoders, Decoded, GroupEssence, SoundPush
    <3>2. KindOfType[t] = "Message"
      BY <1>1, <1>2, <1>5, <1>12, <2>5
    <3> QED
      BY <1>6, <3>1, <3>2
  <2>6. CASE e.sub = 16 /\ e.kind = 35
    <3>1. Decoders(e)[Claimer(e)] = "GroupReaction"
      BY <1>1, <1>2, <1>12, <2>6 DEF Claimer, Decoders, Decoded, GroupReaction, SoundPush
    <3>2. KindOfType[t] = "GroupReaction"
      BY <1>1, <1>2, <1>5, <1>12, <2>6
    <3> QED
      BY <1>6, <3>1, <3>2
  <2>7. CASE e.sub = 16 /\ e.kind = 12
    <3>1. Decoders(e)[Claimer(e)] = "GroupNameChange"
      BY <1>1, <1>2, <1>12, <2>7 DEF Claimer, Decoders, Decoded, GroupNameChange, SoundPush
    <3>2. KindOfType[t] = "GroupNameChange"
      BY <1>1, <1>2, <1>5, <1>12, <2>7
    <3> QED
      BY <1>6, <3>1, <3>2
  <2>8. CASE e.sub = 16 /\ e.kind \notin {12, 35}
    <3>1. Decoders(e)[Claimer(e)] = "None"
      BY <1>1, <1>2, <1>12, <2>8 DEF Claimer, Decoders, Decoded, GroupReaction, GroupNameChange
    <3>2. KindOfType[t] = "Message"
      BY <1>1, <1>2, <1>5, <1>12, <2>8
    <3> QED
      BY <1>6, <3>1, <3>2
  <2>9. CASE e.sub \notin {12, 16, 17, 20, 21}
    <3>1. Decoders(e)[Claimer(e)] = "None"
      BY <1>1, <1>2, <1>12, <2>9 DEF Claimer, Decoders, Decoded, GroupReaction, GroupNameChange
    <3>2. KindOfType[t] = "Message"
      BY <1>1, <1>2, <1>5, <1>12, <2>9
    <3> QED
      BY <1>6, <3>1, <3>2
  <2> QED
    BY <2>1, <2>2, <2>3, <2>4, <2>5, <2>6, <2>7, <2>8, <2>9
<1> QED
  BY <1>3, <1>7, <1>8, <1>9, <1>10, <1>11, <1>12

-----------------------------------------------------------------------------
\* What DecodersAgree says of one push.
DecodedOnce(push) ==
  /\ push.claims <= 1
  /\ push.sound /\ ~RefusedType(push.type) /\ push # NotSeen =>
       \/ push.outcome = KindOfType[push.type]
       \/ KindOfType[push.type] = "GroupRecall" /\ push.outcome \in {"Full", "Err"}

\* A queue of events, counted as it is, and the push that ended it.
WellCounted(a) ==
  a.events \in Seq(Nat) /\ a.bytes = QueueBytes(a.events) /\ DecodedOnce(a.last)

PushInv == queued \in Seq(Nat) /\ PushesAreSound

\* A push is seen as what its type stands for, or as a notice that does not fit.
LEMMA SeenOnce ==
  ASSUME NEW e \in Pushed, NEW outcome,
         outcome = Outcome(e) \/ (Outcome(e) = "GroupRecall" /\ outcome = "Full")
  PROVE  DecodedOnce(SeenAs(e, outcome))
<1> DEFINE push == SeenAs(e, outcome)
<1>1. /\ push.claims = Cardinality(Claims(e)) /\ push.sound = SoundPush(e)
      /\ push.type = TypeOfPush(e) /\ push.outcome = outcome
  BY DEF SeenAs, SoundPush, TypeOfPush
<1> HIDE DEF push
<1>2. push.claims <= 1
  BY <1>1, ClaimsAreOne
<1>3. ASSUME push.sound, ~RefusedType(push.type)
      PROVE  \/ push.outcome = KindOfType[push.type]
             \/ KindOfType[push.type] = "GroupRecall" /\ push.outcome \in {"Full", "Err"}
  BY <1>1, <1>3, SoundPushesDecode
<1> QED
  BY <1>2, <1>3 DEF DecodedOnce, push

\* One message of a push adds one event, or fills the queue with its recalls.
LEMMA AdmitKeeps ==
  ASSUME NEW e \in Pushed, NEW a, WellCounted(a)
  PROVE  /\ WellCounted(Admit(e, a))
         /\ \/ Len(Admit(e, a).events) <= Len(a.events) + 1
            \/ Len(Admit(e, a).events) <= MaxQueued
<1> DEFINE b == Admit(e, a)
           outcome == Outcome(e)
           size == EncodedLen(e)
           many == e.recalls
<1>1. /\ a.events \in Seq(Nat) /\ a.bytes = QueueBytes(a.events) /\ QueueBytes(a.events) \in Nat
      /\ Len(a.events) \in Nat /\ size \in Nat /\ many \in Nat /\ MaxQueued \in Nat
  BY PushesFit, BytesAreNatural, PushAssumption DEF WellCounted, EncodedLen
<1>2. DecodedOnce(SeenAs(e, outcome))
  BY SeenOnce
<1>3. CASE outcome = "Err" \/ (outcome = "GroupRecall" /\ ~RecallsFit(e, a.events, a.bytes))
  <2> DEFINE seenAs == IF outcome = "Err" THEN "Err" ELSE "Full"
  <2>1. b.events = a.events /\ b.bytes = a.bytes /\ b.last = SeenAs(e, seenAs)
    BY <1>3 DEF Admit, Admission
  <2>2. DecodedOnce(SeenAs(e, seenAs))
    BY <1>3, SeenOnce
  <2> HIDE DEF b, seenAs
  <2>3. WellCounted(b) /\ Len(b.events) <= Len(a.events) + 1
    BY <1>1, <2>1, <2>2 DEF WellCounted
  <2> QED
    BY <2>3 DEF b
<1>4. CASE outcome = "GroupRecall" /\ RecallsFit(e, a.events, a.bytes)
  <2>1. /\ b.events = a.events \o Repeated(e) /\ b.bytes = a.bytes + RecallBytes(e)
        /\ b.last = SeenAs(e, outcome)
    BY <1>4 DEF Admit, Admission
  <2>2. Repeated(e) = [i \in 1 .. many |-> size] /\ RecallBytes(e) = size * many
    BY DEF Repeated, RecallBytes
  <2>3. many <= Max({0, MaxQueued - Len(a.events)})
    BY <1>4 DEF RecallsFit
  <2>4. MaxQueued - Len(a.events) \in Int
    BY <1>1
  <2>5. many <= (IF MaxQueued - Len(a.events) > 0 THEN MaxQueued - Len(a.events) ELSE 0)
    BY <2>3, <2>4, LeftIs
  <2> HIDE DEF b, size, many, outcome
  <2>6. /\ b.events \in Seq(Nat) /\ Len(b.events) = Len(a.events) + many
        /\ QueueBytes(b.events) = QueueBytes(a.events) + size * many
    BY <1>1, <2>1, <2>2, RepeatsAreCounted
  <2>7. Len(b.events) <= MaxQueued \/ Len(b.events) <= Len(a.events) + 1
    <3>1. CASE MaxQueued - Len(a.events) > 0
      <4>1. many <= MaxQueued - Len(a.events)
        BY <2>5, <3>1
      <4> QED
        BY <1>1, <2>6, <4>1
    <3>2. CASE ~(MaxQueued - Len(a.events) > 0)
      <4>1. many <= 0
        BY <2>5, <3>2
      <4> QED
        BY <1>1, <2>6, <4>1
    <3> QED
      BY <3>1, <3>2
  <2>8. WellCounted(b)
    BY <1>1, <1>2, <2>1, <2>2, <2>6 DEF WellCounted
  <2> QED
    BY <2>7, <2>8 DEF b
<1>5. CASE outcome \notin {"Err", "GroupRecall"}
  <2>1. /\ b.events = Append(a.events, size) /\ b.bytes = a.bytes + size
        /\ b.last = SeenAs(e, outcome)
    BY <1>5 DEF Admit, Admission
  <2> HIDE DEF b, size, many, outcome
  <2>2. b.events \in Seq(Nat) /\ Len(b.events) = Len(a.events) + 1
    BY <1>1, <2>1
  <2>3. WellCounted(b)
    BY <1>1, <1>2, <2>1, <2>2, AppendIsCounted DEF WellCounted
  <2> QED
    BY <1>1, <2>2, <2>3 DEF b
<1> QED
  BY <1>3, <1>4, <1>5

\* A batch for which there was room leaves a queue that is counted, and shorter
\* than twice its limit: a notice of recalls fills it at most, and what comes
\* behind adds one event each.
LEMMA AdmitAllKeeps ==
  ASSUME PushInv, NEW batch \in Seq(Pushed), Len(batch) <= Slots
  PROVE  WellCounted(AdmitAll(batch)) /\ Len(AdmitAll(batch).events) < 2 * MaxQueued
<1> DEFINE first == Admission(queued, queuedBytes, TRUE, lastPush)
           Handled(n, a) == IF a.ok THEN Admit(batch[n], a) ELSE a
           Follows(f, k) == f = [n \in 0 .. k |-> IF n = 0 THEN first ELSE Handled(n, f[n - 1])]
           size == Len(batch)
<1>1. size \in Nat /\ Len(queued) \in Nat /\ MaxQueued \in Nat \ {0}
  BY PushAssumption DEF PushInv
<1>2. \E f : Follows(f, size)
  <2> DEFINE S == {k \in Nat : \E f : Follows(f, k)}
  <2> HIDE DEF first, Handled
  <2>1. 0 \in S
    <3> DEFINE f == [n \in 0 .. 0 |-> first]
    <3>1. Follows(f, 0)
      OBVIOUS
    <3> HIDE DEF f, Follows
    <3> QED
      BY <3>1
  <2>2. ASSUME NEW k \in S PROVE k + 1 \in S
    <3>0. k \in Nat
      OBVIOUS
    <3>1. PICK f : Follows(f, k)
      <4> HIDE DEF Follows
      <4> QED
        OBVIOUS
    <3> DEFINE g == [n \in 0 .. k + 1 |-> IF n = k + 1 THEN Handled(k + 1, f[k]) ELSE f[n]]
    <3>2. \A n \in 0 .. k + 1 : g[n] = IF n = 0 THEN first ELSE Handled(n, g[n - 1])
      <4> TAKE n \in 0 .. k + 1
      <4>1. CASE n = k + 1
        <5>1. n # 0 /\ n - 1 = k /\ k \in 0 .. k + 1 /\ k # k + 1
          BY <3>0, <4>1
        <5>2. g[n] = Handled(n, f[k]) /\ g[n - 1] = f[k]
          BY <4>1, <5>1
        <5> HIDE DEF g
        <5> QED
          BY <5>1, <5>2
      <4>2. CASE n # k + 1
        <5>1. n \in 0 .. k /\ (n # 0 => n - 1 \in 0 .. k /\ n - 1 \in 0 .. k + 1 /\ n - 1 # k + 1)
          BY <3>0, <4>2
        <5>2. g[n] = f[n] /\ (n # 0 => g[n - 1] = f[n - 1])
          BY <4>2, <5>1
        <5>3. f[n] = IF n = 0 THEN first ELSE Handled(n, f[n - 1])
          BY <3>1, <5>1
        <5> HIDE DEF g
        <5> QED
          BY <5>2, <5>3
      <4> QED
        BY <4>1, <4>2
    <3>3. Follows(g, k + 1)
      <4>1. g = [n \in 0 .. k + 1 |-> g[n]]
        OBVIOUS
      <4> HIDE DEF g
      <4> QED
        BY <3>2, <4>1
    <3> HIDE DEF g, Follows
    <3>4. k + 1 \in Nat /\ \E h : Follows(h, k + 1)
      BY <3>0, <3>3
    <3> QED
      BY <3>4
  <2>3. S = Nat
    <3> HIDE DEF S
    <3>1. S \in SUBSET Nat
      BY DEF S
    <3> QED
      BY <2>1, <2>2, <3>1, Inductive
  <2>4. size \in S
    BY <1>1, <2>3
  <2> HIDE DEF Follows
  <2> QED
    BY <2>4
<1> DEFINE chosen == CHOOSE f : Follows(f, size)
<1>3. AdmitAll(batch) = chosen[size]
  BY DEF AdmitAll
<1>4. Follows(chosen, size)
  <2> HIDE DEF Follows
  <2> QED
    BY <1>2
<1> HIDE DEF chosen
<1>5. /\ chosen[0] = first
      /\ \A n \in 1 .. size : chosen[n] = Handled(n, chosen[n - 1])
  <2> HIDE DEF first, Handled
  <2>1. \A n \in 0 .. size : chosen[n] = IF n = 0 THEN first ELSE Handled(n, chosen[n - 1])
    BY <1>4
  <2> QED
    BY <1>1, <2>1
<1>6. /\ WellCounted(first) /\ first.events = queued
  BY DEF PushInv, PushesAreSound, QueueIsCounted, DecodersAgree, DecodedOnce, WellCounted,
         Admission
<1>7. size <= MaxQueued /\ (size > 0 => Len(queued) + size <= MaxQueued)
  <2>1. MaxQueued - Len(queued) \in Int
    BY <1>1
  <2>2. Slots = IF MaxQueued - Len(queued) > 0 THEN MaxQueued - Len(queued) ELSE 0
    BY <2>1, LeftIs DEF Slots
  <2>3. size <= Slots
    OBVIOUS
  <2> HIDE DEF size
  <2> QED
    BY <1>1, <2>2, <2>3
<1> DEFINE Holds(n) == /\ WellCounted(chosen[n])
                       /\ n = 0 => Len(chosen[n].events) = Len(queued)
                       /\ n > 0 => Len(chosen[n].events) <= MaxQueued + n - 1
           S == {n \in Nat : n <= size => Holds(n)}
<1>8. 0 \in S
  <2> HIDE DEF first, Handled, size
  <2>1. chosen[0] = first
    BY <1>1, <1>5
  <2>2. WellCounted(chosen[0]) /\ Len(chosen[0].events) = Len(queued)
    BY <1>6, <2>1
  <2> QED
    BY <2>2
<1>9. ASSUME NEW n \in S PROVE n + 1 \in S
  <2> HIDE DEF Holds, first, size
  <2> SUFFICES ASSUME n + 1 <= size PROVE Holds(n + 1)
    OBVIOUS
  <2>1. n \in Nat /\ n + 1 \in 1 .. size /\ (n + 1) - 1 = n /\ Holds(n)
    BY <1>1
  <2>2. batch[n + 1] \in Pushed
    BY <2>1 DEF size
  <2> DEFINE a == chosen[n]
             b == chosen[n + 1]
  <2>3. b = Handled(n + 1, a)
    BY <1>5, <2>1
  <2>4. WellCounted(a) /\ Len(a.events) \in Nat
    BY <2>1 DEF WellCounted, Holds
  <2>5. WellCounted(b) /\ Len(b.events) \in Nat
        /\ (Len(b.events) <= Len(a.events) + 1 \/ Len(b.events) <= MaxQueued)
    <3>1. CASE a.ok
      <4>1. b = Admit(batch[n + 1], a)
        BY <2>3, <3>1
      <4> HIDE DEF a, b
      <4>2. WellCounted(b) /\ (Len(b.events) <= Len(a.events) + 1 \/ Len(b.events) <= MaxQueued)
        BY <2>2, <2>4, <4>1, AdmitKeeps
      <4> QED
        BY <4>2 DEF WellCounted
    <3>2. CASE ~a.ok
      <4>1. b = a
        BY <2>3, <3>2
      <4> HIDE DEF a, b
      <4> QED
        BY <2>4, <4>1
    <3> QED
      BY <3>1, <3>2
  <2>6. Len(b.events) <= MaxQueued + (n + 1) - 1
    <3>1. n = 0 => Len(a.events) = Len(queued) /\ Len(queued) + 1 <= MaxQueued
      BY <1>1, <1>7, <2>1 DEF Holds
    <3>2. n > 0 => Len(a.events) <= MaxQueued + n - 1
      BY <2>1 DEF Holds
    <3> HIDE DEF a, b
    <3> QED
      BY <1>1, <2>1, <2>4, <2>5, <3>1, <3>2
  <2> QED
    BY <2>1, <2>5, <2>6 DEF Holds
<1>10. S = Nat
  <2> HIDE DEF S
  <2>1. S \in SUBSET Nat
    BY DEF S
  <2> QED
    BY <1>8, <1>9, <2>1, Inductive
<1>11. Holds(size)
  BY <1>1, <1>10
<1>12. Len(queued) < 2 * MaxQueued
  BY DEF PushInv, PushesAreSound, QueueIsCounted
<1>13. WellCounted(chosen[size]) /\ Len(chosen[size].events) \in Nat
  BY <1>11 DEF WellCounted
<1> HIDE DEF size
<1> QED
  BY <1>1, <1>3, <1>7, <1>11, <1>12, <1>13

-----------------------------------------------------------------------------
LEMMA EndsKeep == ASSUME PushInv, Rejected \/ UNCHANGED pushVars PROVE PushInv'
  BY DEF PushInv, PushesAreSound, DecodersAgree, QueueIsCounted, Rejected, pushVars

LEMMA AdmittedKeeps ==
  ASSUME PushInv, NEW batch \in Seq(Pushed), Len(batch) <= Slots, Admitted(AdmitAll(batch))
  PROVE  PushInv'
<1> DEFINE admission == AdmitAll(batch)
<1>1. WellCounted(admission) /\ Len(admission.events) < 2 * MaxQueued
  BY AdmitAllKeeps
<1>2. queued' = admission.events /\ queuedBytes' = admission.bytes /\ lastPush' = admission.last
  BY DEF Admitted
<1> HIDE DEF admission
<1> QED
  BY <1>1, <1>2
  DEF PushInv, PushesAreSound, DecodersAgree, QueueIsCounted, WellCounted, DecodedOnce

LEMMA MessageKeeps ==
  ASSUME PushInv, NEW e \in Envelopes, MessagePush(e)
  PROVE  PushInv'
<1>1. <<e>> \in Seq(Pushed) /\ Len(<<e>>) = 1
  BY DEF Pushed
<1>2. CASE Slots # 0 /\ BodyLen(e) <= Room
  <2>1. 1 <= Slots
    <3>1. MaxQueued - Len(queued) \in Int
      BY PushAssumption DEF PushInv
    <3> QED
      BY <1>2, <3>1, LeftIs DEF Slots
  <2>2. Admitted(AdmitAll(<<e>>))
    BY <1>2 DEF MessagePush
  <2> QED
    BY <1>1, <2>1, <2>2, AdmittedKeeps
<1>3. CASE ~(Slots # 0 /\ BodyLen(e) <= Room)
  BY <1>3, EndsKeep DEF MessagePush
<1> QED
  BY <1>2, <1>3

LEMMA BatchKeeps ==
  ASSUME PushInv, NEW n \in 0 .. MaxBatch, NEW batch \in [1 .. n -> AbsenceMessages],
         InfoSyncPush(batch)
  PROVE  PushInv'
<1>1. batch \in Seq(Pushed)
  <2>1. n \in Nat
    BY PushAssumption
  <2>2. batch \in [1 .. n -> Pushed]
    BY DEF Pushed
  <2> QED
    BY <2>1, <2>2
<1>2. CASE BatchFits(batch)
  BY <1>1, <1>2, AdmittedKeeps DEF InfoSyncPush, BatchFits
<1>3. CASE ~BatchFits(batch)
  BY <1>3, EndsKeep DEF InfoSyncPush
<1> QED
  BY <1>2, <1>3

\* What an event was counted in as is counted out with it.
LEMMA PublishKeeps == ASSUME PushInv, Publish PROVE PushInv'
<1>1. /\ queued \in Seq(Nat) /\ queued # <<>> /\ queuedBytes = QueueBytes(queued)
      /\ Len(queued) < 2 * MaxQueued /\ MaxQueued \in Nat
      /\ queued' = Tail(queued) /\ queuedBytes' = Max({0, queuedBytes - Head(queued)})
      /\ UNCHANGED lastPush
  BY PushAssumption DEF PushInv, PushesAreSound, QueueIsCounted, Publish
<1>2. queued' \in Seq(Nat) /\ Len(queued') < 2 * MaxQueued /\ Head(queued) \in Nat
  BY <1>1
<1>3. QueueBytes(queued) = Head(queued) + QueueBytes(queued') /\ QueueBytes(queued') \in Nat
  BY <1>1, <1>2, TailIsCounted, BytesAreNatural
<1>4. queuedBytes' = QueueBytes(queued')
  <2>1. queuedBytes - Head(queued) = QueueBytes(queued')
    BY <1>1, <1>2, <1>3
  <2>2. Max({0, QueueBytes(queued')}) = QueueBytes(queued')
    BY <1>3, LeftIs
  <2> QED
    BY <1>1, <2>1, <2>2
<1>5. DecodersAgree'
  BY <1>1 DEF PushInv, PushesAreSound, DecodersAgree
<1> QED
  BY <1>2, <1>4, <1>5 DEF PushInv, PushesAreSound, QueueIsCounted

LEMMA PushStep == PushInv /\ [PushNext]_pushVars => PushInv'
<1> SUFFICES ASSUME PushInv, [PushNext]_pushVars PROVE PushInv'
  OBVIOUS
<1>1. CASE \E e \in Envelopes : MessagePush(e)
  BY <1>1, MessageKeeps
<1>2. CASE \E n \in 0 .. MaxBatch : \E batch \in [1 .. n -> AbsenceMessages] :
             InfoSyncPush(batch)
  BY <1>2, BatchKeeps
<1>3. CASE \E behavior \in Behaviors, ok \in BOOLEAN : ControlPush(behavior, ok)
  BY <1>3, EndsKeep DEF ControlPush
<1>4. CASE StartPublish
  BY <1>4 DEF StartPublish, PushInv, PushesAreSound, DecodersAgree, QueueIsCounted
<1>5. CASE Publish
  BY <1>5, PublishKeeps
<1>6. CASE UNCHANGED pushVars
  BY <1>6, EndsKeep
<1> QED
  BY <1>1, <1>2, <1>3, <1>4, <1>5, <1>6 DEF PushNext

\* However many pushes come, alone or embedded in one that makes up for an absence:
\* no two decoders claim one, a sound one becomes the event of its type, the bytes
\* counted are those of the queue, and a batch that was admitted leaves
\* the queue below twice its limit (push.rs:158, push.rs:217).
THEOREM PushesAreSoundCorrect == PushSpec => []PushesAreSound
<1>1. PushInit => PushInv
  BY EmptyIsCounted, PushAssumption
  DEF PushInit, PushInv, PushesAreSound, DecodersAgree, QueueIsCounted, NotSeen
<1>2. PushInv => PushesAreSound
  BY DEF PushInv
<1> QED
  BY <1>1, <1>2, PushStep, PTL DEF PushSpec
=============================================================================
