---------------------- MODULE NotificationOutboxProofs ----------------------
(***************************************************************************)
(* Proofs about NotificationOutbox, for every number of processes at the   *)
(* database, every policy and every set of events.                         *)
(*                                                                         *)
(* Inv relates what a worker holds in memory to the tables: the deliveries *)
(* of a running sweep are different rows, what was accepted and is not     *)
(* recorded is the first of them, and as long as no second process has run *)
(* they are all still pending.  The order of ORDER BY and of the adapters  *)
(* (InOrder) is shown to list each element of a finite set once.           *)
(***************************************************************************)
EXTENDS NotificationOutbox, FiniteSetTheorems, SequenceTheorems, TLAPS

Destination == UNION {Range(Adapters[w]) : w \in Worker}

Status == {"Pending", "Delivered", "Abandoned"}

Delivery == [event : Event, to : Destination, enqueuedAt : Nat, attempts : Nat,
             nextAt : Nat, until : Nat, status : Status]

Stage == {"Down", "Idle", "Sweeping", "Closing", "Exited"}

TablesTyped ==
  /\ now \in 0 .. MaxNow
  /\ outbox \in Seq(Delivery)
  /\ \A id \in DOMAIN outbox : outbox[id].nextAt <= outbox[id].until

WorkersTyped ==
  /\ pc \in [Worker -> Stage]
  /\ queue \in [Worker -> Seq(Command)]
  /\ batch \in [Worker -> Seq(Nat)]
  /\ sweptAt \in [Worker -> Nat]
  /\ answer \in [Worker -> {"None", "Accepted", "Refused"}]
  /\ runs \in [Worker -> Nat]
  /\ unrecorded \in [Worker -> SUBSET Nat]
  /\ faulted \in BOOLEAN

\* What a worker holds in memory, against the tables.
SweepFits(w) ==
  /\ Len(batch[w]) <= BatchLimit
  /\ \A i \in DOMAIN batch[w] : batch[w][i] \in DOMAIN outbox
  /\ \A i, j \in DOMAIN batch[w] : i # j => batch[w][i] # batch[w][j]
  /\ (batch[w] # <<>>) <=> (pc[w] \in {"Sweeping", "Closing"})
  /\ answer[w] # "None" => batch[w] # <<>>
  /\ unrecorded[w] = IF answer[w] = "Accepted" THEN {Head(batch[w])} ELSE {}
  /\ runs[w] = 0 => pc[w] = "Down"

\* No second process has run.
Alone == \A w \in Tester : runs[w] = 0

AloneIsSafe ==
  Alone =>
    /\ \A i \in DOMAIN batch[Daemon] :
         outbox[batch[Daemon][i]].status = "Pending"
    /\ pc[Daemon] = "Exited" => faulted

Inv ==
  /\ TablesTyped
  /\ WorkersTyped
  /\ \A w \in Worker : SweepFits(w)
  /\ AloneIsSafe
  /\ CooldownHolds

-----------------------------------------------------------------------------
(* The orders: of ORDER BY next_attempt_at_ms, id and of the adapters.     *)

\* InOrder lists each element of a finite set once, behind those before it.
LEMMA InOrderLists ==
  ASSUME NEW S, IsFiniteSet(S), NEW before,
         \A x \in S : <<x, x>> \notin before,
         \A x, y \in S : x # y => <<x, y>> \in before \/ <<y, x>> \in before,
         \A x, y, z \in S :
           <<x, y>> \in before /\ <<y, z>> \in before => <<x, z>> \in before
  PROVE  /\ InOrder(S, before) \in Seq(S)
         /\ Len(InOrder(S, before)) = Cardinality(S)
         /\ \A m, n \in 1 .. Cardinality(S) :
              m # n => InOrder(S, before)[m] # InOrder(S, before)[n]
<1> DEFINE C == Cardinality(S)
           Ahead(x) == {y \in S : <<y, x>> \in before}
           rank == [x \in S |-> Cardinality(Ahead(x)) + 1]
           Nth(n) == CHOOSE x \in S : Cardinality(Ahead(x)) = n - 1
           sorted == InOrder(S, before)
<1>1. C \in Nat
  BY FS_CardinalityType
<1>2. ASSUME NEW x \in S
      PROVE  /\ IsFiniteSet(Ahead(x))
             /\ Cardinality(Ahead(x)) \in Nat
             /\ Cardinality(Ahead(x)) < C
  <2>1. Ahead(x) \in SUBSET S /\ x \notin Ahead(x)
    OBVIOUS
  <2>2. Ahead(x) # S
    BY <2>1
  <2> HIDE DEF Ahead
  <2>3. /\ IsFiniteSet(Ahead(x))
        /\ Cardinality(Ahead(x)) <= C
        /\ C # Cardinality(Ahead(x))
    BY <2>1, <2>2, FS_Subset
  <2>4. Cardinality(Ahead(x)) \in Nat
    BY <2>3, FS_CardinalityType
  <2>5. QED
    BY <1>1, <2>3, <2>4
<1>3. ASSUME NEW x \in S, NEW y \in S, <<x, y>> \in before
      PROVE  Cardinality(Ahead(x)) < Cardinality(Ahead(y))
  <2>1. Ahead(x) \in SUBSET Ahead(y) /\ x \in Ahead(y) /\ x \notin Ahead(x)
    BY <1>3
  <2>2. Ahead(x) # Ahead(y)
    BY <2>1
  <2> HIDE DEF Ahead
  <2>3. Cardinality(Ahead(x)) <= Cardinality(Ahead(y))
    BY <1>2, <2>1, FS_Subset
  <2>4. Cardinality(Ahead(x)) # Cardinality(Ahead(y))
    BY <1>2, <2>1, <2>2, FS_Subset
  <2>5. QED
    BY <1>2, <2>3, <2>4
<1>4. \A x, y \in S : x # y => Cardinality(Ahead(x)) # Cardinality(Ahead(y))
  <2> HIDE DEF Ahead
  <2>1. TAKE x, y \in S
  <2>2. HAVE x # y
  <2>3. CASE <<x, y>> \in before
    BY <1>2, <1>3, <2>3
  <2>4. CASE <<y, x>> \in before
    BY <1>2, <1>3, <2>4
  <2>5. QED
    BY <2>2, <2>3, <2>4
<1>5. rank \in Injection(S, 1 .. C)
  <2> HIDE DEF Ahead
  <2>1. rank \in [S -> 1 .. C]
    BY <1>1, <1>2
  <2>2. \A x, y \in S : x # y => rank[x] # rank[y]
    BY <1>2, <1>4
  <2> HIDE DEF rank
  <2>3. QED
    BY <2>1, <2>2 DEF Injection, IsInjective
<1>6. IsFiniteSet(1 .. C) /\ Cardinality(1 .. C) = C
  BY <1>1, FS_Interval
<1>7. rank \in Surjection(S, 1 .. C)
  <2> HIDE DEF rank
  <2>1. QED
    BY <1>5, <1>6, FS_Injection
<1>8. ASSUME NEW n \in 1 .. C
      PROVE  \E x \in S : Cardinality(Ahead(x)) = n - 1
  <2>1. PICK x \in S : rank[x] = n
    <3> HIDE DEF rank
    <3>1. QED
      BY <1>7 DEF Surjection
  <2>2. rank[x] = Cardinality(Ahead(x)) + 1
    OBVIOUS
  <2> HIDE DEF rank, Ahead
  <2>3. QED
    BY <1>2, <2>1, <2>2
<1>9. ASSUME NEW n \in 1 .. C
      PROVE  Nth(n) \in S /\ Cardinality(Ahead(Nth(n))) = n - 1
  <2> HIDE DEF Ahead
  <2>1. QED
    BY <1>8
<1>10. sorted = [n \in 1 .. C |-> Nth(n)]
  BY DEF InOrder
<1> HIDE DEF sorted, Ahead, Nth
<1>11. sorted \in [1 .. C -> S] /\ \A n \in 1 .. C : sorted[n] = Nth(n)
  BY <1>9, <1>10
<1>12. sorted \in Seq(S) /\ Len(sorted) = C
  BY <1>1, <1>11
<1>13. \A m, n \in 1 .. C : m # n => sorted[m] # sorted[n]
  BY <1>9, <1>11
<1>14. QED
  BY <1>12, <1>13 DEF sorted

LEMMA DueIsSnapshot ==
  ASSUME TablesTyped, NEW at \in Nat
  PROVE  /\ Due(at) \in Seq(DOMAIN outbox)
         /\ Len(Due(at)) <= BatchLimit
         /\ \A i, j \in DOMAIN Due(at) : i # j => Due(at)[i] # Due(at)[j]
         /\ \A i \in DOMAIN Due(at) : outbox[Due(at)[i]].status = "Pending"
<1> DEFINE S == {id \in DOMAIN outbox : IsDue(id, at)}
           before == {p \in S \X S : Older(p[1], p[2])}
           sorted == InOrder(S, before)
           last == IF Len(sorted) < BatchLimit THEN Len(sorted) ELSE BatchLimit
<1>1. DOMAIN outbox = 1 .. Len(outbox) /\ Len(outbox) \in Nat
  BY DEF TablesTyped
<1>2. IsFiniteSet(S)
  <2>1. IsFiniteSet(1 .. Len(outbox)) /\ S \in SUBSET (1 .. Len(outbox))
    BY <1>1, FS_Interval
  <2> HIDE DEF S
  <2>2. QED
    BY <2>1, FS_Subset
<1>3. \A x \in S : x \in Nat /\ outbox[x].nextAt \in Nat
  <2>1. \A x \in DOMAIN outbox : x \in Nat /\ outbox[x] \in Delivery
    BY <1>1 DEF TablesTyped
  <2>2. QED
    BY <2>1 DEF Delivery
<1>4. \A x \in S : outbox[x].status = "Pending" /\ x \in DOMAIN outbox
  BY DEF IsDue
<1> HIDE DEF S
<1>5. \A x, y \in S : <<x, y>> \in before <=> Older(x, y)
  OBVIOUS
<1> HIDE DEF before
<1>6. \A x \in S : <<x, x>> \notin before
  BY <1>3, <1>5 DEF Older
<1>7. \A x, y \in S : x # y => <<x, y>> \in before \/ <<y, x>> \in before
  BY <1>3, <1>5 DEF Older
<1>8. \A x, y, z \in S :
        <<x, y>> \in before /\ <<y, z>> \in before => <<x, z>> \in before
  BY <1>3, <1>5 DEF Older
<1>9. /\ sorted \in Seq(S)
      /\ Len(sorted) = Cardinality(S)
      /\ \A m, n \in 1 .. Cardinality(S) : m # n => sorted[m] # sorted[n]
  BY <1>2, <1>6, <1>7, <1>8, InOrderLists
<1>10. Due(at) = SubSeq(sorted, 1, last)
  BY DEF Due, S, before
<1> HIDE DEF sorted
<1>11. /\ last \in Nat /\ last <= BatchLimit /\ last <= Len(sorted)
       /\ Len(sorted) \in Nat
  BY <1>9, PolicyAssumption
<1> HIDE DEF last
<1>12. /\ Due(at) \in Seq(S) /\ Len(Due(at)) = last
       /\ DOMAIN Due(at) = 1 .. last
       /\ \A i \in 1 .. last : Due(at)[i] = sorted[i] /\ sorted[i] \in S
  BY <1>9, <1>10, <1>11
<1> HIDE DEF Due
<1>13. Due(at) \in Seq(DOMAIN outbox)
  BY <1>4, <1>12
<1>14. \A i, j \in DOMAIN Due(at) : i # j => Due(at)[i] # Due(at)[j]
  BY <1>9, <1>11, <1>12
<1>15. \A i \in DOMAIN Due(at) : outbox[Due(at)[i]].status = "Pending"
  BY <1>4, <1>12
<1>16. QED
  BY <1>11, <1>12, <1>13, <1>14, <1>15

\* What an enqueue inserts: a pending delivery of the event to each of several
\* destinations that no cooldown suppresses.
Insertable(new, event, at) ==
  /\ new \in Seq(Delivery)
  /\ \A n \in DOMAIN new :
       /\ new[n].event = event
       /\ new[n].enqueuedAt = at
       /\ new[n].nextAt <= new[n].until
       /\ new[n].status = "Pending"
       /\ ~Suppressed(event, new[n].to, at)
  /\ \A m, n \in DOMAIN new : m # n => new[m].to # new[n].to

LEMMA InsertedIsNew ==
  ASSUME TablesTyped, NEW event \in Event, NEW w \in Worker, NEW at \in Nat,
         NEW new, new = Inserted(event, Adapters[w], at)
  PROVE  Insertable(new, event, at)
<1> DEFINE destinations == Adapters[w]
           S == Eligible(event, destinations, at)
           Earlier == {p \in S \X S : p[1] < p[2]}
           places == InOrder(S, Earlier)
<1>1. /\ destinations \in Seq(STRING)
      /\ Len(destinations) \in Nat
      /\ DOMAIN destinations = 1 .. Len(destinations)
      /\ \A i, j \in DOMAIN destinations :
           destinations[i] = destinations[j] => i = j
      /\ \A i \in DOMAIN destinations : destinations[i] \in Destination
  BY WorkersAssumption DEF IsInjective, Destination, Range
<1> HIDE DEF destinations
<1>2. IsFiniteSet(S)
  <2>1. /\ IsFiniteSet(1 .. Len(destinations))
        /\ S \in SUBSET (1 .. Len(destinations))
    BY <1>1, FS_Interval DEF Eligible
  <2> HIDE DEF S
  <2>2. QED
    BY <2>1, FS_Subset
<1>3. \A x \in S : /\ x \in Nat /\ x \in DOMAIN destinations
                    /\ ~Suppressed(event, destinations[x], at)
  BY <1>1 DEF Eligible
<1> HIDE DEF S
<1>4. \A x, y \in S : <<x, y>> \in Earlier <=> x < y
  OBVIOUS
<1> HIDE DEF Earlier
<1>5. \A x \in S : <<x, x>> \notin Earlier
  BY <1>3, <1>4
<1>6. \A x, y \in S : x # y => <<x, y>> \in Earlier \/ <<y, x>> \in Earlier
  BY <1>3, <1>4
<1>7. \A x, y, z \in S :
        <<x, y>> \in Earlier /\ <<y, z>> \in Earlier => <<x, z>> \in Earlier
  BY <1>3, <1>4
<1>8. /\ places \in Seq(S)
      /\ Len(places) = Cardinality(S)
      /\ \A m, n \in 1 .. Cardinality(S) : m # n => places[m] # places[n]
  BY <1>2, <1>5, <1>6, <1>7, InOrderLists
<1>9. new = [n \in DOMAIN places |-> NewDelivery(event, destinations[places[n]], at)]
  BY DEF Inserted, S, Earlier, destinations
<1> HIDE DEF places
<1>10. /\ Len(places) \in Nat
       /\ DOMAIN places = 1 .. Len(places)
       /\ \A n \in 1 .. Len(places) : places[n] \in S
  BY <1>8
<1>11. ASSUME NEW i \in DOMAIN destinations
       PROVE  /\ NewDelivery(event, destinations[i], at) \in Delivery
              /\ at <= at + Lifetime[event.severity]
  <2>1. Lifetime[event.severity] \in Nat
    BY PolicyAssumption DEF Event
  <2>2. QED
    BY <1>1, <2>1 DEF NewDelivery, Delivery, Status
<1>12. new \in [1 .. Len(places) -> Delivery]
  BY <1>3, <1>9, <1>10, <1>11
<1>13. new \in Seq(Delivery) /\ DOMAIN new = 1 .. Len(places)
  BY <1>10, <1>12
<1>14. ASSUME NEW n \in 1 .. Len(places)
       PROVE  new[n] = NewDelivery(event, destinations[places[n]], at)
  BY <1>9, <1>10
<1>15. ASSUME NEW n \in DOMAIN new
       PROVE  /\ new[n].event = event
              /\ new[n].enqueuedAt = at
              /\ new[n].nextAt <= new[n].until
              /\ new[n].status = "Pending"
              /\ new[n].to = destinations[places[n]]
              /\ ~Suppressed(event, new[n].to, at)
  <2>1. n \in 1 .. Len(places) /\ places[n] \in S
    BY <1>10, <1>13
  <2>2. /\ new[n] = NewDelivery(event, destinations[places[n]], at)
        /\ at <= at + Lifetime[event.severity]
        /\ ~Suppressed(event, destinations[places[n]], at)
    BY <1>3, <1>11, <1>14, <2>1
  <2>3. QED
    BY <2>2 DEF NewDelivery
<1>16. ASSUME NEW m \in DOMAIN new, NEW n \in DOMAIN new, m # n
       PROVE  new[m].to # new[n].to
  BY <1>1, <1>3, <1>8, <1>10, <1>13, <1>15, <1>16
<1>17. QED
  BY <1>13, <1>15, <1>16 DEF Insertable

-----------------------------------------------------------------------------
(* The first state, and the steps outside a sweep.                         *)

LEMMA Bounds ==
  /\ Daemon \in Worker /\ Daemon \notin Tester
  /\ \A w \in Worker : w # Daemon => w \in Tester
  /\ Tester \subseteq Worker
  /\ BatchLimit \in Nat \ {0} /\ MaxNow \in Nat
  BY PolicyAssumption, WorkersAssumption DEF Worker

LEMMA InitInv == Init => Inv
<1> SUFFICES ASSUME Init PROVE Inv
  OBVIOUS
<1> USE DEF Init
<1>1. TablesTyped
  BY Bounds DEF TablesTyped
<1>2. WorkersTyped
  <2>1. faulted \in BOOLEAN
    OBVIOUS
  <2>2. <<>> \in Seq(Command) /\ <<>> \in Seq(Nat) /\ {} \in SUBSET Nat
    OBVIOUS
  <2>3. QED
    BY <2>1, <2>2 DEF WorkersTyped, Stage
<1>3. ASSUME NEW w \in Worker PROVE SweepFits(w)
  BY Bounds DEF SweepFits
<1>4. AloneIsSafe
  BY Bounds DEF AloneIsSafe
<1>5. CooldownHolds
  BY DEF CooldownHolds
<1>6. QED
  BY <1>1, <1>2, <1>3, <1>4, <1>5 DEF Inv

\* The worker's task is over, by a crash, a failure of its storage or a record
\* that finds nothing.
LEMMA EndsInv ==
  ASSUME Inv, NEW w \in Worker, NEW how \in {"Down", "Exited"}, Ends(w, how),
         UNCHANGED <<now, outbox>>,
         faulted' \in BOOLEAN,
         faulted => faulted' \/ w = Daemon,
         w = Daemon /\ how = "Exited" /\ Alone => faulted',
         pc[w] # "Down"
  PROVE  Inv'
<1> USE DEF Ends
<1>1. TablesTyped'
  BY DEF Inv, TablesTyped
<1>2. WorkersTyped'
  <2>1. <<>> \in Seq(Command) /\ <<>> \in Seq(Nat) /\ {} \in SUBSET Nat
    OBVIOUS
  <2>2. pc' \in [Worker -> Stage] /\ queue' \in [Worker -> Seq(Command)]
    BY <2>1 DEF Inv, WorkersTyped, Stage
  <2>3. batch' \in [Worker -> Seq(Nat)] /\ sweptAt' \in [Worker -> Nat]
    BY <2>1 DEF Inv, WorkersTyped
  <2>4. /\ answer' \in [Worker -> {"None", "Accepted", "Refused"}]
        /\ unrecorded' \in [Worker -> SUBSET Nat]
        /\ runs' \in [Worker -> Nat]
    BY <2>1 DEF Inv, WorkersTyped
  <2>5. QED
    BY <2>2, <2>3, <2>4 DEF WorkersTyped
<1>3. ASSUME NEW v \in Worker PROVE SweepFits(v)'
  <2>1. SweepFits(v)
    BY DEF Inv
  <2>2. CASE v # w
    BY <2>1, <2>2 DEF SweepFits, Inv, WorkersTyped
  <2>3. CASE v = w
    BY <2>1, <2>3, Bounds DEF SweepFits, Inv, WorkersTyped
  <2>4. QED
    BY <2>2, <2>3
<1>4. AloneIsSafe'
  BY Bounds DEF AloneIsSafe, Alone, Inv, WorkersTyped
<1>5. CooldownHolds'
  BY DEF Inv, CooldownHolds
<1>6. QED
  BY <1>1, <1>2, <1>3, <1>4, <1>5 DEF Inv

\* An answer that is not recorded yet is that of a running sweep.
LEMMA AnsweringIsUp ==
  ASSUME Inv, NEW w \in Worker, answer[w] # "None"
  PROVE  pc[w] \in {"Sweeping", "Closing"} /\ batch[w] # <<>>
  BY DEF Inv, SweepFits

LEMMA CrashInv ==
  ASSUME Inv, NEW w \in Worker, Crash(w)
  PROVE  Inv'
<1>1. faulted \in BOOLEAN
  BY DEF Inv, WorkersTyped
<1>2. faulted' \in BOOLEAN /\ (faulted => faulted' \/ w = Daemon)
  BY <1>1 DEF Crash
<1>3. QED
  BY <1>2, EndsInv DEF Crash, tables

LEMMA StorageFailsInv ==
  ASSUME Inv, NEW w \in Worker, StorageFails(w)
  PROVE  Inv'
<1> DEFINE how == IF w \in Tester \/ pc[w] = "Closing" THEN "Down" ELSE "Exited"
<1>1. faulted \in BOOLEAN
  BY DEF Inv, WorkersTyped
<1>2. faulted' \in BOOLEAN /\ (faulted => faulted') /\ (w = Daemon => faulted')
  BY <1>1 DEF StorageFails
<1>3. pc[w] # "Down"
  BY AnsweringIsUp DEF StorageFails
<1>4. Ends(w, how) /\ UNCHANGED <<now, outbox>>
  BY DEF StorageFails, Fail, tables
<1>5. how \in {"Down", "Exited"} /\ (w \in Tester => how = "Down")
  OBVIOUS
<1> HIDE DEF how
<1>6. QED
  BY <1>2, <1>4, <1>5, <1>3, EndsInv

LEMMA StopInv == ASSUME Inv, Stop PROVE Inv'
<1>1. CASE /\ queue' = [queue EXCEPT ![Daemon] = Append(@, Shutdown)]
           /\ UNCHANGED <<now, tables, pc, sweep, history>>
  <2>1. Shutdown \in Command
    BY DEF Command
  <2>2. queue' \in [Worker -> Seq(Command)]
    BY <1>1, <2>1, Bounds DEF Inv, WorkersTyped
  <2>3. QED
    BY <1>1, <2>2 DEF tables, sweep, history, Inv, TablesTyped, WorkersTyped,
       SweepFits, AloneIsSafe, Alone, CooldownHolds
<1>2. CASE pc[Daemon] = "Exited" /\ Ends(Daemon, "Down") /\ faulted' = FALSE
           /\ UNCHANGED <<now, tables>>
  BY <1>2, Bounds, EndsInv DEF tables
<1>3. QED
  BY <1>1, <1>2 DEF Stop

LEMMA OfferInv ==
  ASSUME Inv, NEW event \in Offered, Offer(event)
  PROVE  Inv'
<1>1. Enqueue(event, now) \in Command
  BY WorkersAssumption DEF Inv, TablesTyped, Enqueue, Command
<1>2. queue' \in [Worker -> Seq(Command)]
  BY <1>1, Bounds DEF Offer, Inv, WorkersTyped
<1>3. QED
  BY <1>2 DEF Offer, tables, sweep, history, Inv, TablesTyped, WorkersTyped,
     SweepFits, AloneIsSafe, Alone, CooldownHolds

LEMMA StartInv ==
  ASSUME Inv, NEW w \in Worker, Start(w)
  PROVE  Inv'
<1> USE DEF Start, tables, sweep
<1>1. TestScript(now) \in Seq(Command) /\ <<>> \in Seq(Command)
  <2>1. /\ Enqueue(TestEvent, now) \in Command
        /\ Flush(now) \in Command
        /\ Shutdown \in Command
    BY WorkersAssumption DEF Inv, TablesTyped, Enqueue, Flush, Command
  <2>2. QED
    BY <2>1 DEF TestScript
<1>2. TablesTyped'
  BY DEF Inv, TablesTyped
<1>3. WorkersTyped'
  <2>1. pc' \in [Worker -> Stage] /\ queue' \in [Worker -> Seq(Command)]
    BY <1>1 DEF Inv, WorkersTyped, Stage
  <2>2. runs' \in [Worker -> Nat]
    BY DEF Inv, WorkersTyped
  <2>3. unrecorded' \in [Worker -> SUBSET Nat]
    BY DEF Inv, WorkersTyped
  <2>4. QED
    BY <2>1, <2>2, <2>3 DEF Inv, WorkersTyped
<1>4. ASSUME NEW v \in Worker PROVE SweepFits(v)'
  <2>1. SweepFits(v)
    BY DEF Inv
  <2>2. CASE v # w
    BY <2>1, <2>2 DEF SweepFits, Inv, WorkersTyped
  <2>3. CASE v = w
    BY <2>1, <2>3 DEF SweepFits, Inv, WorkersTyped
  <2>4. QED
    BY <2>2, <2>3
<1>5. AloneIsSafe'
  <2>1. Alone' => Alone
    BY Bounds DEF Alone, Inv, WorkersTyped
  <2>2. QED
    BY <2>1, Bounds DEF AloneIsSafe, Inv, WorkersTyped
<1>6. CooldownHolds'
  BY DEF Inv, CooldownHolds
<1>7. QED
  BY <1>2, <1>3, <1>4, <1>5, <1>6 DEF Inv

LEMMA TickInv == ASSUME Inv, Tick PROVE Inv'
<1>1. now' \in 0 .. MaxNow
  BY Bounds DEF Tick, Inv, TablesTyped
<1>2. QED
  BY <1>1 DEF Tick, tables, sweep, history, Inv, TablesTyped, WorkersTyped,
     SweepFits, AloneIsSafe, Alone, CooldownHolds

-----------------------------------------------------------------------------
(* The steps of a sweep.                                                   *)

\* A sweep begins; other workers and the tables are as before.
LEMMA BeginSweepInv ==
  ASSUME Inv, NEW w \in Worker, NEW at \in Nat, NEW last \in BOOLEAN,
         pc[w] = "Idle", BeginSweep(w, at, last),
         queue' \in [Worker -> Seq(Command)]
  PROVE  Inv'
<1> USE DEF BeginSweep, tables, history
<1>1. /\ Due(at) \in Seq(DOMAIN outbox)
      /\ Len(Due(at)) <= BatchLimit
      /\ \A i, j \in DOMAIN Due(at) : i # j => Due(at)[i] # Due(at)[j]
      /\ \A i \in DOMAIN Due(at) : outbox[Due(at)[i]].status = "Pending"
  BY DueIsSnapshot DEF Inv
<1>2. /\ Due(at) \in Seq(Nat)
      /\ \A i \in DOMAIN Due(at) : Due(at)[i] \in DOMAIN outbox
  <2>1. outbox \in Seq(Delivery)
    BY DEF Inv, TablesTyped
  <2>2. DOMAIN outbox \subseteq Nat
    BY <2>1
  <2>3. QED
    BY <1>1, <2>2
<1>3. TablesTyped'
  BY DEF Inv, TablesTyped
<1>4. WorkersTyped'
  <2>1. pc' \in [Worker -> Stage]
    BY DEF Inv, WorkersTyped, Stage
  <2>2. batch' \in [Worker -> Seq(Nat)] /\ sweptAt' \in [Worker -> Nat]
    BY <1>2 DEF Inv, WorkersTyped
  <2>3. QED
    BY <2>1, <2>2 DEF Inv, WorkersTyped
<1>5. ASSUME NEW v \in Worker PROVE SweepFits(v)'
  <2>1. SweepFits(v)
    BY DEF Inv
  <2>2. CASE v # w
    BY <2>1, <2>2 DEF SweepFits, Inv, WorkersTyped
  <2>3. CASE v = w
    <3>1. batch'[v] = Due(at) /\ answer[v] = "None" /\ runs[v] # 0
      BY <2>1, <2>3 DEF SweepFits, Inv, WorkersTyped
    <3>2. (batch'[v] # <<>>) <=> (pc'[v] \in {"Sweeping", "Closing"})
      BY <2>3, <3>1 DEF Inv, WorkersTyped
    <3>3. QED
      BY <1>1, <1>2, <2>1, <2>3, <3>1, <3>2 DEF SweepFits
  <2>4. QED
    BY <2>2, <2>3
<1>6. AloneIsSafe'
  <2>1. SUFFICES ASSUME Alone
                 PROVE  /\ \A i \in DOMAIN batch'[Daemon] :
                             outbox[batch'[Daemon][i]].status = "Pending"
                        /\ pc'[Daemon] = "Exited" => faulted
    BY DEF AloneIsSafe, Alone
  <2>2. CASE w = Daemon
    BY <1>1, <2>2, Bounds DEF Inv, WorkersTyped
  <2>3. CASE w # Daemon
    BY <2>1, <2>3, Bounds DEF AloneIsSafe, Inv, WorkersTyped
  <2>4. QED
    BY <2>2, <2>3
<1>7. CooldownHolds'
  BY DEF Inv, CooldownHolds
<1>8. QED
  BY <1>3, <1>4, <1>5, <1>6, <1>7 DEF Inv

\* The commands after the first one.
LEMMA RestOfQueue ==
  ASSUME Inv, NEW w \in Worker, queue[w] # <<>>
  PROVE  /\ Head(queue[w]) \in Command
         /\ [queue EXCEPT ![w] = Tail(@)] \in [Worker -> Seq(Command)]
<1>1. queue[w] \in Seq(Command)
  BY DEF Inv, WorkersTyped
<1>2. Head(queue[w]) \in Command /\ Tail(queue[w]) \in Seq(Command)
  BY <1>1
<1>3. QED
  BY <1>2 DEF Inv, WorkersTyped

LEMMA SweepStartsInv ==
  ASSUME Inv, NEW w \in Worker,
         TakeFlush(w) \/ TakeShutdown(w) \/ SweepTick(w)
  PROVE  Inv'
<1>1. now \in Nat /\ queue \in [Worker -> Seq(Command)]
  BY Bounds DEF Inv, TablesTyped, WorkersTyped
<1>2. CASE TakeFlush(w)
  <2>1. Head(queue[w]) \in Command /\ Head(queue[w]).kind = "Flush"
    BY <1>2, RestOfQueue DEF TakeFlush
  <2>2. Head(queue[w]).at \in Nat
    BY <2>1, Bounds DEF Command, Shutdown
  <2>3. QED
    BY <1>2, <2>2, RestOfQueue, BeginSweepInv DEF TakeFlush
<1>3. CASE TakeShutdown(w)
  BY <1>1, <1>3, RestOfQueue, BeginSweepInv DEF TakeShutdown
<1>4. CASE SweepTick(w)
  BY <1>1, <1>4, BeginSweepInv DEF SweepTick
<1>5. QED
  BY <1>2, <1>3, <1>4

LEMMA DeliverInv ==
  ASSUME Inv, NEW w \in Worker, NEW accepted \in BOOLEAN, Deliver(w, accepted)
  PROVE  Inv'
<1> USE DEF Deliver, tables
<1>1. SweepFits(w) /\ batch[w] # <<>> /\ batch[w] \in Seq(Nat)
  BY DEF Inv, SweepFits, WorkersTyped
<1>2. Head(batch[w]) \in Nat
  BY <1>1
<1>3. TablesTyped'
  BY DEF Inv, TablesTyped
<1>4. WorkersTyped'
  <2>1. unrecorded' \in [Worker -> SUBSET Nat]
    BY <1>2 DEF Inv, WorkersTyped
  <2>2. answer' \in [Worker -> {"None", "Accepted", "Refused"}]
    BY DEF Inv, WorkersTyped
  <2>3. QED
    BY <2>1, <2>2 DEF Inv, WorkersTyped
<1>5. ASSUME NEW v \in Worker PROVE SweepFits(v)'
  <2>1. SweepFits(v)
    BY DEF Inv
  <2>2. CASE v # w
    BY <2>1, <2>2 DEF SweepFits, Inv, WorkersTyped
  <2>3. CASE v = w
    <3>1. unrecorded[w] = {}
      BY <1>1 DEF SweepFits
    <3>2. unrecorded'[w] = IF accepted THEN {Head(batch[w])} ELSE {}
      BY <3>1 DEF Inv, WorkersTyped
    <3>3. answer'[w] = IF accepted THEN "Accepted" ELSE "Refused"
      BY DEF Inv, WorkersTyped
    <3>4. QED
      BY <1>1, <2>3, <3>2, <3>3 DEF SweepFits
  <2>4. QED
    BY <2>2, <2>3
<1>6. AloneIsSafe' /\ CooldownHolds'
  BY DEF Inv, AloneIsSafe, Alone, CooldownHolds
<1>7. QED
  BY <1>3, <1>4, <1>5, <1>6 DEF Inv

-----------------------------------------------------------------------------
(* The steps that write the tables.                                        *)

\* The rows are inserted behind those that are there.
LEMMA TakeEnqueueInv ==
  ASSUME Inv, NEW w \in Worker, TakeEnqueue(w)
  PROVE  Inv'
<1> USE DEF TakeEnqueue, sweep, history
<1> DEFINE command == Head(queue[w])
           new == Inserted(command.event, Adapters[w], command.at)
           old == Len(outbox)
<1>1. command \in Command /\ command.kind = "Enqueue"
  BY RestOfQueue
<1>2. command.event \in Event /\ command.at \in Nat
  BY <1>1, Bounds DEF Command, Shutdown
<1>3. queue' \in [Worker -> Seq(Command)]
  BY RestOfQueue
<1>4. outbox' = outbox \o new
  OBVIOUS
<1>5. UNCHANGED <<now, pc, sweep, history>>
  BY DEF sweep, history
<1> HIDE DEF command, TakeEnqueue, sweep, history
<1>6. /\ new \in Seq(Delivery)
      /\ \A n \in DOMAIN new :
           /\ new[n].event = command.event
           /\ new[n].enqueuedAt = command.at
           /\ new[n].nextAt <= new[n].until
           /\ new[n].status = "Pending"
           /\ ~Suppressed(command.event, new[n].to, command.at)
      /\ \A m, n \in DOMAIN new : m # n => new[m].to # new[n].to
  <2>1. TablesTyped
    BY DEF Inv
  <2>2. new = Inserted(command.event, Adapters[w], command.at)
    OBVIOUS
  <2> HIDE DEF new
  <2>3. Insertable(new, command.event, command.at)
    BY <1>2, <2>1, <2>2, InsertedIsNew
  <2>4. QED
    BY <2>3 DEF Insertable
<1> HIDE DEF new
<1>7. /\ outbox \in Seq(Delivery) /\ old \in Nat /\ Len(new) \in Nat
      /\ DOMAIN outbox = 1 .. old /\ DOMAIN new = 1 .. Len(new)
  BY <1>6 DEF Inv, TablesTyped
<1> HIDE DEF old
<1>8. /\ outbox' \in Seq(Delivery)
      /\ DOMAIN outbox' = 1 .. old + Len(new)
      /\ \A id \in 1 .. old : outbox'[id] = outbox[id]
  BY <1>4, <1>6, <1>7 DEF old
<1>9. ASSUME NEW id \in DOMAIN outbox', id \notin 1 .. old
      PROVE  id - old \in DOMAIN new /\ outbox'[id] = new[id - old]
  <2>1. id \in old + 1 .. old + Len(new)
    BY <1>7, <1>8, <1>9
  <2>2. id - old \in 1 .. Len(new) /\ old + (id - old) = id
    BY <1>7, <2>1
  <2>3. outbox'[id] = new[id - old]
    BY <1>4, <1>6, <1>7, <2>1, ConcatProperties DEF old
  <2>4. QED
    BY <1>7, <2>2, <2>3
<1>10. TablesTyped'
  <2>1. ASSUME NEW id \in DOMAIN outbox'
        PROVE  outbox'[id].nextAt <= outbox'[id].until
    <3>1. CASE id \in 1 .. old
      BY <1>7, <1>8, <3>1 DEF Inv, TablesTyped
    <3>2. CASE id \notin 1 .. old
      BY <1>6, <1>9, <3>2
    <3>3. QED
      BY <3>1, <3>2
  <2>2. QED
    BY <1>8, <1>5, <2>1 DEF Inv, TablesTyped
<1>11. WorkersTyped'
  BY <1>3, <1>5 DEF Inv, WorkersTyped, sweep, history
<1>12. ASSUME NEW v \in Worker PROVE SweepFits(v)'
  <2>1. SweepFits(v)
    BY DEF Inv
  <2>2. DOMAIN outbox \subseteq DOMAIN outbox'
    BY <1>7, <1>8
  <2>3. QED
    BY <1>5, <2>1, <2>2 DEF SweepFits, sweep, history
<1>13. AloneIsSafe'
  <2>1. \A i \in DOMAIN batch[Daemon] : batch[Daemon][i] \in 1 .. old
    BY <1>7, Bounds DEF Inv, SweepFits
  <2>2. QED
    BY <1>8, <1>5, <2>1 DEF Inv, AloneIsSafe, Alone, sweep, history
<1>14. CooldownHolds'
  <2>1. SUFFICES ASSUME NEW i \in DOMAIN outbox', NEW j \in DOMAIN outbox',
                        i < j, ~outbox'[j].event.recovery,
                        outbox'[i].to = outbox'[j].to,
                        outbox'[i].event.key = outbox'[j].event.key
                 PROVE  outbox'[i].enqueuedAt < outbox'[j].enqueuedAt - Cooldown
    BY DEF CooldownHolds
  <2>2. i \in Nat /\ j \in Nat
    BY <1>7, <1>8
  <2>3. CASE j \in 1 .. old
    <3>1. i \in 1 .. old
      BY <1>7, <1>8, <2>1, <2>2, <2>3
    <3>2. QED
      BY <1>7, <1>8, <2>1, <2>3, <3>1 DEF Inv, CooldownHolds
  <2>4. CASE j \notin 1 .. old /\ i \notin 1 .. old
    <3>1. i - old # j - old
      BY <1>7, <2>1, <2>2
    <3>2. QED
      BY <1>6, <1>9, <2>1, <2>4, <3>1
  <2>5. CASE j \notin 1 .. old /\ i \in 1 .. old
    <3>1. /\ outbox'[j].event = command.event
          /\ outbox'[j].enqueuedAt = command.at
          /\ ~Suppressed(command.event, outbox'[j].to, command.at)
      BY <1>6, <1>9, <2>5
    <3>2. outbox'[i] = outbox[i] /\ outbox[i] \in Delivery /\ i \in DOMAIN outbox
      BY <1>7, <1>8, <2>5
    <3>3. ~(outbox[i].enqueuedAt >= command.at - Cooldown)
      BY <2>1, <3>1, <3>2 DEF Suppressed
    <3>4. outbox[i].enqueuedAt \in Nat /\ Cooldown \in Nat
      BY <3>2, PolicyAssumption DEF Delivery
    <3>5. QED
      BY <1>2, <3>1, <3>2, <3>3, <3>4
  <2>6. QED
    BY <2>3, <2>4, <2>5
<1>15. QED
  BY <1>10, <1>11, <1>12, <1>13, <1>14 DEF Inv

\* What a record makes of a pending delivery.
Recorded(w, id) ==
  IF answer[w] = "Accepted" THEN [outbox[id] EXCEPT !.status = "Delivered"]
  ELSE Failed(outbox[id], sweptAt[w])

LEMMA FailedIsDelivery ==
  ASSUME NEW d \in Delivery, d.nextAt <= d.until, NEW at \in Nat
  PROVE  /\ Failed(d, at) \in Delivery
         /\ Failed(d, at).nextAt <= Failed(d, at).until
         /\ Failed(d, at).event = d.event
         /\ Failed(d, at).to = d.to
         /\ Failed(d, at).enqueuedAt = d.enqueuedAt
<1> DEFINE next == at + RetryDelay(d.attempts)
<1>1. d.attempts \in Nat /\ d.until \in Nat /\ d.nextAt \in Nat
  BY DEF Delivery
<1>2. next \in Nat
  <2>1. Delays \in Seq(Nat) /\ Len(Delays) \in Nat \ {0}
    BY PolicyAssumption
  <2>2. (IF d.attempts + 1 < Len(Delays)
           THEN d.attempts + 1 ELSE Len(Delays)) \in 1 .. Len(Delays)
    BY <1>1, <2>1
  <2>3. RetryDelay(d.attempts) \in Nat
    BY <2>1, <2>2 DEF RetryDelay
  <2>4. QED
    BY <2>3
<1>3. Failed(d, at) = IF next > d.until
                        THEN [d EXCEPT !.attempts = @ + 1, !.status = "Abandoned"]
                        ELSE [d EXCEPT !.attempts = @ + 1, !.nextAt = next]
  BY DEF Failed
<1>4. d.attempts + 1 \in Nat
  BY <1>1
<1> HIDE DEF next
<1>5. CASE next > d.until
  <2>1. Failed(d, at) = [d EXCEPT !.attempts = @ + 1, !.status = "Abandoned"]
    BY <1>3, <1>5
  <2>2. Failed(d, at) \in Delivery
    BY <1>1, <1>4, <2>1 DEF Delivery, Status
  <2>3. QED
    BY <1>1, <2>1, <2>2 DEF Delivery
<1>6. CASE ~(next > d.until)
  <2>1. Failed(d, at) = [d EXCEPT !.attempts = @ + 1, !.nextAt = next]
    BY <1>3, <1>6
  <2>2. next <= d.until
    BY <1>1, <1>2, <1>6
  <2>3. Failed(d, at) \in Delivery
    BY <1>1, <1>2, <1>4, <2>1 DEF Delivery, Status
  <2>4. QED
    BY <1>1, <1>2, <2>1, <2>2, <2>3 DEF Delivery
<1>7. QED
  BY <1>5, <1>6

LEMMA RecordedIsDelivery ==
  ASSUME Inv, NEW w \in Worker, NEW id \in DOMAIN outbox
  PROVE  /\ Recorded(w, id) \in Delivery
         /\ Recorded(w, id).nextAt <= Recorded(w, id).until
         /\ Recorded(w, id).event = outbox[id].event
         /\ Recorded(w, id).to = outbox[id].to
         /\ Recorded(w, id).enqueuedAt = outbox[id].enqueuedAt
<1>1. /\ outbox[id] \in Delivery /\ outbox[id].nextAt <= outbox[id].until
      /\ sweptAt[w] \in Nat
  BY DEF Inv, TablesTyped, WorkersTyped
<1>2. CASE answer[w] = "Accepted"
  BY <1>1, <1>2 DEF Recorded, Delivery, Status
<1>3. CASE answer[w] # "Accepted"
  BY <1>1, <1>3, FailedIsDelivery DEF Recorded
<1>4. QED
  BY <1>2, <1>3

LEMMA OneIsLast ==
  ASSUME NEW S, NEW s \in Seq(S), s # <<>>
  PROVE  Tail(s) # <<>> <=> Len(s) > 1
<1> DEFINE t == Tail(s)
<1>1. /\ t \in Seq(S) /\ Len(s) \in Nat \ {0}
      /\ Len(t) = Len(s) - 1
  BY HeadTailProperties, EmptySeq
<1> HIDE DEF t
<1>2. t = <<>> \/ Len(t) \in Nat \ {0}
  BY <1>1, EmptySeq
<1>3. CASE t = <<>>
  <2>1. Len(t) = 0
    BY <1>3, EmptySeq
  <2>2. Len(s) = 1
    BY <1>1, <2>1
  <2>3. Tail(s) = <<>>
    BY <1>3 DEF t
  <2>4. QED
    BY <2>2, <2>3
<1>4. CASE Len(t) \in Nat \ {0}
  <2>1. t # <<>>
    BY <1>4, EmptySeq
  <2>2. Len(s) > 1
    BY <1>1, <1>4
  <2>3. QED
    BY <2>1, <2>2 DEF t
<1>5. QED
  BY <1>2, <1>3, <1>4

LEMMA RecordInv ==
  ASSUME Inv, NEW w \in Worker, Record(w)
  PROVE  Inv'
<1> DEFINE id == Head(batch[w])
<1>1. /\ SweepFits(w) /\ batch[w] \in Seq(Nat)
      /\ answer[w] # "None" /\ UNCHANGED <<now, faulted>>
      /\ batch[w] # <<>> /\ pc[w] \in {"Sweeping", "Closing"}
  BY DEF Record, Inv, SweepFits, WorkersTyped
<1>2. /\ Len(batch[w]) \in Nat \ {0}
      /\ DOMAIN batch[w] = 1 .. Len(batch[w])
      /\ id = batch[w][1]
      /\ Tail(batch[w]) \in Seq(Nat)
      /\ Len(Tail(batch[w])) = Len(batch[w]) - 1
      /\ DOMAIN Tail(batch[w]) = 1 .. Len(batch[w]) - 1
      /\ \A i \in 1 .. Len(batch[w]) - 1 : Tail(batch[w])[i] = batch[w][i + 1]
  BY <1>1
<1>3. id \in DOMAIN outbox
  BY <1>1, <1>2 DEF SweepFits
<1>4. \A i \in 1 .. Len(batch[w]) - 1 :
        Tail(batch[w])[i] \in DOMAIN outbox /\ Tail(batch[w])[i] # id
  BY <1>1, <1>2 DEF SweepFits
<1> HIDE DEF id
<1>5. CASE ~MayRecord(id)
  <2> DEFINE how == IF w \in Tester \/ pc[w] = "Closing" THEN "Down" ELSE "Exited"
  <2>1. Ends(w, how) /\ UNCHANGED <<now, outbox, faulted>>
    BY <1>5 DEF Record, Fail, id
  <2>2. how \in {"Down", "Exited"} /\ faulted \in BOOLEAN
    BY DEF Inv, WorkersTyped
  <2>3. w = Daemon => ~Alone
    BY <1>1, <1>2, <1>5 DEF MayRecord, Inv, AloneIsSafe
  <2> HIDE DEF how
  <2>4. QED
    BY <1>1, <2>1, <2>2, <2>3, EndsInv
<1>6. CASE MayRecord(id)
  <2>1. /\ outbox' = [outbox EXCEPT ![id] = Recorded(w, id)]
        /\ batch' = [batch EXCEPT ![w] = Tail(@)]
        /\ answer' = [answer EXCEPT ![w] = "None"]
        /\ pc' = [pc EXCEPT ![w] =
                    IF Len(batch[w]) > 1 THEN @
                    ELSE IF @ = "Closing" THEN "Down" ELSE "Idle"]
        /\ sweptAt' = [sweptAt EXCEPT
                         ![w] = IF Len(batch[w]) > 1 THEN @ ELSE 0]
        /\ unrecorded' = [unrecorded EXCEPT ![w] = @ \ {id}]
        /\ UNCHANGED <<queue, runs>>
    BY <1>6 DEF Record, Recorded, id
  <2>2. /\ Recorded(w, id) \in Delivery
        /\ Recorded(w, id).nextAt <= Recorded(w, id).until
        /\ Recorded(w, id).event = outbox[id].event
        /\ Recorded(w, id).to = outbox[id].to
        /\ Recorded(w, id).enqueuedAt = outbox[id].enqueuedAt
    BY <1>3, RecordedIsDelivery
  <2>3. /\ outbox' \in Seq(Delivery)
        /\ DOMAIN outbox' = DOMAIN outbox
        /\ outbox'[id] = Recorded(w, id)
        /\ \A other \in DOMAIN outbox : other # id => outbox'[other] = outbox[other]
    BY <1>3, <2>1, <2>2 DEF Inv, TablesTyped
  <2>4. TablesTyped'
    BY <1>1, <2>2, <2>3 DEF Inv, TablesTyped
  <2>5. WorkersTyped'
    <3>1. pc' \in [Worker -> Stage]
      BY <2>1 DEF Inv, WorkersTyped, Stage
    <3>2. batch' \in [Worker -> Seq(Nat)] /\ sweptAt' \in [Worker -> Nat]
      BY <1>2, <2>1 DEF Inv, WorkersTyped
    <3>3. /\ answer' \in [Worker -> {"None", "Accepted", "Refused"}]
          /\ unrecorded' \in [Worker -> SUBSET Nat]
      BY <2>1 DEF Inv, WorkersTyped
    <3>4. QED
      BY <1>1, <2>1, <3>1, <3>2, <3>3 DEF Inv, WorkersTyped
  <2>6. ASSUME NEW v \in Worker PROVE SweepFits(v)'
    <3>1. SweepFits(v)
      BY DEF Inv
    <3>2. CASE v # w
      BY <2>1, <2>3, <3>1, <3>2 DEF SweepFits, Inv, WorkersTyped
    <3>3. CASE v = w
      <4>1. batch'[w] = Tail(batch[w]) /\ answer'[w] = "None"
        BY <2>1 DEF Inv, WorkersTyped
      <4>2. unrecorded'[w] = {}
        <5>1. unrecorded'[w] = unrecorded[w] \ {id}
          BY <2>1 DEF Inv, WorkersTyped
        <5>2. unrecorded[w] \subseteq {id}
          BY <1>1 DEF SweepFits, id
        <5>3. QED
          BY <5>1, <5>2
      <4>3. (batch'[w] # <<>>) <=> Len(batch[w]) > 1
        BY <1>1, <4>1, OneIsLast
      <4>4. pc'[w] \in {"Sweeping", "Closing"} <=> Len(batch[w]) > 1
        BY <1>1, <1>2, <2>1 DEF Inv, WorkersTyped
      <4>5. runs'[w] # 0
        BY <1>1, <2>1 DEF SweepFits
      <4>6. Len(batch'[w]) <= BatchLimit
        BY <1>1, <1>2, <4>1, Bounds DEF SweepFits
      <4>7. ASSUME NEW i \in DOMAIN batch'[w], NEW j \in DOMAIN batch'[w], i # j
            PROVE  batch'[w][i] # batch'[w][j]
        <5>1. /\ i \in 1 .. Len(batch[w]) - 1 /\ j \in 1 .. Len(batch[w]) - 1
              /\ i + 1 \in DOMAIN batch[w] /\ j + 1 \in DOMAIN batch[w]
              /\ i + 1 # j + 1
          BY <1>2, <4>1, <4>7
        <5>2. batch[w][i + 1] # batch[w][j + 1]
          BY <1>1, <5>1 DEF SweepFits
        <5>3. QED
          BY <1>2, <4>1, <5>1, <5>2
      <4>8. \A i \in DOMAIN batch'[w] : batch'[w][i] \in DOMAIN outbox'
        BY <1>2, <1>4, <2>3, <4>1
      <4>9. QED
        BY <3>3, <4>1, <4>2, <4>3, <4>4, <4>5, <4>6, <4>7, <4>8 DEF SweepFits
    <3>4. QED
      BY <3>2, <3>3
  <2>7. AloneIsSafe'
    <3>1. SUFFICES ASSUME Alone
                   PROVE  /\ \A i \in DOMAIN batch'[Daemon] :
                               outbox'[batch'[Daemon][i]].status = "Pending"
                          /\ pc'[Daemon] = "Exited" => faulted
      BY <1>1, <2>1 DEF AloneIsSafe, Alone
    <3>2. w = Daemon
      <4>1. runs[w] # 0
        BY <1>1 DEF SweepFits
      <4>2. QED
        BY <3>1, <4>1, Bounds DEF Alone
    <3>3. batch'[Daemon] = Tail(batch[Daemon]) /\ pc'[Daemon] # "Exited"
      BY <1>1, <2>1, <3>2 DEF Inv, WorkersTyped
    <3>4. \A i \in DOMAIN batch[Daemon] :
            outbox[batch[Daemon][i]].status = "Pending"
      BY <3>1 DEF Inv, AloneIsSafe
    <3>5. ASSUME NEW i \in DOMAIN batch'[Daemon]
          PROVE  outbox'[batch'[Daemon][i]].status = "Pending"
      <4>1. i \in 1 .. Len(batch[w]) - 1 /\ i + 1 \in DOMAIN batch[w]
        BY <1>2, <3>2, <3>3
      <4>2. batch'[Daemon][i] = batch[w][i + 1]
        BY <1>2, <3>2, <3>3, <4>1
      <4>3. outbox'[batch'[Daemon][i]] = outbox[batch'[Daemon][i]]
        BY <1>4, <2>3, <3>2, <3>3, <4>1
      <4>4. QED
        BY <3>2, <3>4, <4>1, <4>2, <4>3
    <3>6. QED
      BY <3>3, <3>5
  <2>8. CooldownHolds'
    <3>1. \A other \in DOMAIN outbox :
            /\ outbox'[other].event = outbox[other].event
            /\ outbox'[other].to = outbox[other].to
            /\ outbox'[other].enqueuedAt = outbox[other].enqueuedAt
      BY <2>2, <2>3
    <3>2. QED
      BY <2>3, <3>1 DEF Inv, CooldownHolds
  <2>9. QED
    BY <2>4, <2>5, <2>6, <2>7, <2>8 DEF Inv
<1>7. QED
  BY <1>5, <1>6

LEMMA NextInv == ASSUME Inv, [Next]_vars PROVE Inv'
<1>1. CASE Next
  <2>1. CASE \E event \in Offered : Offer(event)
    BY <2>1, OfferInv
  <2>2. CASE Stop
    BY <2>2, StopInv
  <2>3. ASSUME NEW w \in Worker, Start(w) \/ Crash(w) \/ StorageFails(w)
        PROVE  Inv'
    BY <2>3, StartInv, CrashInv, StorageFailsInv
  <2>4. ASSUME NEW w \in Worker, Work(w)
        PROVE  Inv'
    BY <2>4, TakeEnqueueInv, SweepStartsInv, DeliverInv, RecordInv DEF Work
  <2>5. CASE Tick
    BY <2>5, TickInv
  <2>6. QED
    BY <1>1, <2>1, <2>2, <2>3, <2>4, <2>5 DEF Next
<1>2. CASE UNCHANGED vars
  BY <1>2 DEF vars, tables, sweep, history, Inv, TablesTyped, WorkersTyped,
     SweepFits, AloneIsSafe, Alone, CooldownHolds
<1>3. QED
  BY <1>1, <1>2

LEMMA Invariance == Spec => []Inv
<1>1. Inv /\ [Next]_vars => Inv'
  BY NextInv
<1>2. QED
  BY <1>1, InitInv, PTL DEF Spec

-----------------------------------------------------------------------------
(* The theorems.                                                           *)

LEMMA InvImpliesTypeOK == Inv => TypeOK
<1> SUFFICES ASSUME Inv PROVE TypeOK
  OBVIOUS
<1>1. ASSUME NEW id \in DOMAIN outbox
      PROVE  /\ outbox[id].event \in Event
             /\ outbox[id].to \in UNION {Range(Adapters[w]) : w \in Worker}
             /\ outbox[id].status \in {"Pending", "Delivered", "Abandoned"}
             /\ outbox[id].nextAt <= outbox[id].until
  <2>1. outbox[id] \in Delivery /\ outbox[id].nextAt <= outbox[id].until
    BY DEF Inv, TablesTyped
  <2>2. QED
    BY <2>1 DEF Delivery, Destination, Status
<1>2. ASSUME NEW w \in Worker
      PROVE  /\ \A i \in DOMAIN queue[w] : queue[w][i] \in Command
             /\ Len(batch[w]) <= BatchLimit
             /\ (batch[w] # <<>>) <=> (pc[w] \in {"Sweeping", "Closing"})
             /\ answer[w] # "None" => batch[w] # <<>>
  BY DEF Inv, WorkersTyped, SweepFits
<1>3. QED
  BY <1>1, <1>2 DEF TypeOK, Inv, TablesTyped, WorkersTyped, Stage

\* The tables and the workers keep their types and the schema's CHECK, an
\* event becomes one delivery per cooldown (eligible_destinations), and the only
\* process at the outbox loses its worker to a storage failure alone: for
\* every policy and every number of processes.
THEOREM OutboxIsSoundCorrect == Spec => []OutboxIsSound
<1>1. Inv => OutboxIsSound
  <2> SUFFICES ASSUME Inv PROVE OutboxIsSound
    OBVIOUS
  <2>1. TypeOK
    BY InvImpliesTypeOK
  <2>2. CooldownHolds
    BY DEF Inv
  <2>3. OnlyStorageEndsWorker
    <3>1. ASSUME ~(\E w \in Tester : runs[w] > 0), pc[Daemon] = "Exited"
          PROVE  faulted
      <4>1. Alone
        BY <3>1, Bounds DEF Alone, Inv, WorkersTyped
      <4>2. QED
        BY <3>1, <4>1 DEF Inv, AloneIsSafe
    <3>2. QED
      BY <3>1 DEF OnlyStorageEndsWorker
  <2>4. QED
    BY <2>1, <2>2, <2>3 DEF OutboxIsSound
<1>2. QED
  BY <1>1, Invariance, PTL

\* What becomes of a row in a step.
LEMMA StepKeepsTerminal ==
  ASSUME Inv, [Next]_vars
  PROVE  \A id \in DOMAIN outbox :
           outbox[id].status # "Pending" => outbox'[id] = outbox[id]
<1> SUFFICES ASSUME NEW id \in DOMAIN outbox, outbox[id].status # "Pending"
             PROVE  outbox'[id] = outbox[id]
  OBVIOUS
<1>1. CASE outbox' = outbox
  BY <1>1
<1>2. ASSUME NEW w \in Worker, TakeEnqueue(w)
      PROVE  outbox'[id] = outbox[id]
  <2> DEFINE command == Head(queue[w])
             new == Inserted(command.event, Adapters[w], command.at)
  <2>1. command \in Command /\ command.kind = "Enqueue" /\ outbox' = outbox \o new
    BY <1>2, RestOfQueue DEF TakeEnqueue
  <2>2. command.event \in Event /\ command.at \in Nat
    BY <2>1, Bounds DEF Command, Shutdown
  <2> HIDE DEF command
  <2>3. Insertable(new, command.event, command.at)
    BY <2>2, InsertedIsNew DEF Inv
  <2> HIDE DEF new
  <2>4. outbox \in Seq(Delivery) /\ new \in Seq(Delivery)
    BY <2>3 DEF Inv, TablesTyped, Insertable
  <2>5. QED
    BY <2>1, <2>4
<1>3. ASSUME NEW w \in Worker, Record(w)
      PROVE  outbox'[id] = outbox[id]
  <2>1. CASE MayRecord(Head(batch[w]))
    <3>1. id # Head(batch[w])
      BY <2>1 DEF MayRecord
    <3>2. outbox \in Seq(Delivery)
      BY DEF Inv, TablesTyped
    <3>3. QED
      BY <1>3, <2>1, <3>1, <3>2 DEF Record
  <2>2. CASE ~MayRecord(Head(batch[w]))
    BY <1>3, <2>2 DEF Record
  <2>3. QED
    BY <2>1, <2>2
<1>4. CASE Next
  <2>1. \/ outbox' = outbox
        \/ \E w \in Worker : TakeEnqueue(w) \/ Record(w)
    BY <1>4 DEF Next, Offer, Stop, Start, Crash, StorageFails, Work, TakeFlush,
       TakeShutdown, SweepTick, BeginSweep, Deliver, Tick, tables
  <2>2. QED
    BY <1>1, <1>2, <1>3, <2>1
<1>5. CASE UNCHANGED vars
  BY <1>5 DEF vars, tables
<1>6. QED
  BY <1>4, <1>5

\* An acceptance is never sent again before it is recorded: when an answer is
\* open, only the end of the sweep or its record follows.
LEMMA StepSendsOnce ==
  ASSUME Inv, [Next]_vars, NEW w \in Worker,
         answer[w] = "None", answer'[w] = "Accepted"
  PROVE  Head(batch[w]) \notin unrecorded[w]
<1>1. unrecorded[w] = {}
  BY DEF Inv, SweepFits
<1>2. QED
  BY <1>1

\* A delivery that a worker holds and that has its end was held when another
\* worker recorded that end.
LEMMA StepLetsGo ==
  ASSUME Inv, [Next]_vars, NEW w \in Worker, NEW id \in Range(batch'[w]),
         outbox'[id].status # "Pending"
  PROVE  /\ id \in Range(batch[w])
         /\ outbox[id].status = "Pending"
              => batch'[w] = batch[w] /\ answer'[w] = answer[w]
<1>1. CASE batch'[w] = batch[w] /\ answer'[w] = answer[w]
  BY <1>1
<1>2. ASSUME NEW v \in Worker, NEW at \in Nat, NEW last \in BOOLEAN,
             BeginSweep(v, at, last), w = v
      PROVE  FALSE
  <2>1. batch'[w] = Due(at) /\ outbox' = outbox
    BY <1>2 DEF BeginSweep, tables, Inv, WorkersTyped
  <2>2. PICK i \in DOMAIN Due(at) : id = Due(at)[i]
    BY <2>1 DEF Range
  <2>3. outbox[id].status = "Pending"
    BY <2>2, DueIsSnapshot DEF Inv
  <2>4. QED
    BY <2>1, <2>3
<1>3. CASE Ends(w, "Down") \/ Ends(w, "Exited")
  <2>1. batch'[w] = <<>>
    BY <1>3 DEF Ends, Inv, WorkersTyped
  <2>2. QED
    BY <2>1 DEF Range
<1>4. CASE Record(w) /\ MayRecord(Head(batch[w]))
  <2> DEFINE first == Head(batch[w])
  <2>1. /\ SweepFits(w) /\ batch[w] \in Seq(Nat) /\ batch[w] # <<>>
        /\ outbox \in Seq(Delivery)
        /\ batch'[w] = Tail(batch[w])
        /\ \A other \in DOMAIN outbox : other # first => outbox'[other] = outbox[other]
    BY <1>4 DEF Record, Inv, SweepFits, TablesTyped, WorkersTyped
  <2>2. PICK i \in DOMAIN Tail(batch[w]) : id = Tail(batch[w])[i]
    BY <2>1 DEF Range
  <2>3. /\ i + 1 \in DOMAIN batch[w] /\ id = batch[w][i + 1]
        /\ 1 \in DOMAIN batch[w] /\ first = batch[w][1] /\ i + 1 # 1
    BY <2>1, <2>2
  <2>4. id \in Range(batch[w]) /\ id # first /\ id \in DOMAIN outbox
    BY <2>1, <2>3 DEF SweepFits, Range
  <2>5. QED
    BY <2>1, <2>4
<1>5. ASSUME NEW accepted \in BOOLEAN, Deliver(w, accepted)
      PROVE  batch'[w] = batch[w] /\ outbox' = outbox
  BY <1>5 DEF Deliver, tables
<1>6. CASE Next
  <2>1. CASE \E event \in Offered : Offer(event)
    BY <1>1, <2>1 DEF Offer, sweep
  <2>2. CASE Stop
    <3>1. Ends(Daemon, "Down") \/ UNCHANGED <<batch, answer>>
      BY <2>2 DEF Stop, sweep
    <3>2. CASE Ends(Daemon, "Down") /\ w # Daemon
      BY <1>1, <3>2 DEF Ends, Inv, WorkersTyped
    <3>3. QED
      BY <1>1, <1>3, <3>1, <3>2
  <2>3. CASE Tick
    BY <1>1, <2>3 DEF Tick, sweep
  <2>4. ASSUME NEW v \in Worker,
               Start(v) \/ Crash(v) \/ StorageFails(v) \/ Work(v), v # w
        PROVE  batch'[w] = batch[w] /\ answer'[w] = answer[w]
    BY <2>4 DEF Start, Crash, StorageFails, Work, TakeEnqueue, TakeFlush,
       TakeShutdown, SweepTick, BeginSweep, Deliver, Record, Fail, Ends, sweep,
       Inv, WorkersTyped
  <2>5. CASE Start(w)
    BY <1>1, <2>5 DEF Start, sweep
  <2>6. CASE Crash(w) \/ StorageFails(w)
    BY <1>3, <2>6 DEF Crash, StorageFails, Fail
  <2>7. CASE TakeEnqueue(w)
    BY <1>1, <2>7 DEF TakeEnqueue, sweep
  <2>8. CASE TakeFlush(w) \/ TakeShutdown(w) \/ SweepTick(w)
    <3>1. \E at \in Nat, last \in BOOLEAN : BeginSweep(w, at, last)
      <4>1. now \in Nat
        BY Bounds DEF Inv, TablesTyped
      <4>2. CASE TakeFlush(w)
        <5>1. Head(queue[w]) \in Command /\ Head(queue[w]).kind = "Flush"
          BY <4>2, RestOfQueue DEF TakeFlush
        <5>2. Head(queue[w]).at \in Nat
          BY <5>1, Bounds DEF Command, Shutdown
        <5>3. QED
          BY <4>2, <5>2 DEF TakeFlush
      <4>3. QED
        BY <2>8, <4>1, <4>2 DEF TakeShutdown, SweepTick
    <3>2. QED
      BY <1>2, <3>1
  <2>9. CASE \E accepted \in BOOLEAN : Deliver(w, accepted)
    BY <1>5, <2>9
  <2>10. CASE Record(w)
    <3>1. CASE ~MayRecord(Head(batch[w]))
      BY <1>3, <2>10, <3>1 DEF Record, Fail
    <3>2. QED
      BY <1>4, <2>10, <3>1
  <2>11. QED
    BY <1>1, <1>6, <2>1, <2>2, <2>3, <2>4, <2>5, <2>6, <2>7, <2>8, <2>9, <2>10
       DEF Next, Work
<1>7. CASE UNCHANGED vars
  BY <1>1, <1>7 DEF vars, sweep
<1>8. QED
  BY <1>6, <1>7

\* What a process recorded delivered or abandoned is never touched again and no
\* later sweep takes it up, so that only a worker whose snapshot is older than
\* the end can still send it; and a run of a worker never sends what a
\* destination has accepted from it (mark_delivered, record_failure, due and
\* deliver_due), whatever a second process at the same database does in
\* between.
THEOREM EndsAreRespectedCorrect == Spec => EndsAreRespected
<1>1. Inv /\ [Next]_vars =>
        [\A id \in DOMAIN outbox :
           outbox[id].status # "Pending" => outbox'[id] = outbox[id]]_outbox
  BY StepKeepsTerminal
<1>2. Inv /\ [Next]_vars =>
        [\A w \in Worker :
           answer[w] = "None" /\ answer'[w] = "Accepted"
             => Head(batch[w]) \notin unrecorded[w]]_vars
  BY StepSendsOnce
<1>3. Inv /\ [Next]_vars =>
        [\A w \in Worker : \A id \in Range(batch'[w]) :
           outbox'[id].status # "Pending"
             => /\ id \in Range(batch[w])
                /\ outbox[id].status = "Pending"
                     => batch'[w] = batch[w] /\ answer'[w] = answer[w]]_vars
  BY StepLetsGo
<1>4. Spec => TerminalIsFinal
  BY <1>1, Invariance, PTL DEF Spec, TerminalIsFinal
<1>5. Spec => OncePerRun
  BY <1>2, Invariance, PTL DEF Spec, OncePerRun
<1>6. Spec => NotSweptAfterEnd
  BY <1>3, Invariance, PTL DEF Spec, NotSweptAfterEnd
<1>7. QED
  BY <1>4, <1>5, <1>6 DEF EndsAreRespected
=============================================================================
