------------------------- MODULE NotificationOutbox -------------------------
(***************************************************************************)
(* The durable notification outbox of crates/notify-runtime: events become *)
(* one delivery per destination unless a cooldown suppresses them, and a   *)
(* worker sweeps the deliveries that are due, asks an adapter to send each *)
(* of them and records the result before it goes on to the next one.       *)
(*                                                                         *)
(* A worker is one process with its command queue.  The daemon offers      *)
(* events without waiting and shuts the worker down at the end; the        *)
(* command `notify test` opens a second worker on the same database,       *)
(* enqueues, flushes and shuts it down (bins/lirvena/src/notification.rs). *)
(* A statement of the store is one step; what happens between the adapter's*)
(* answer and its record, and between the snapshot of a sweep and each of  *)
(* its deliveries, is open to the other process, to a storage failure and  *)
(* to a crash.                                                             *)
(***************************************************************************)
EXTENDS Integers, FiniteSets, Sequences, SequencesExt

CONSTANTS
  Daemon,         \* the daemon's worker
  Tester,         \* the workers of `notify test`, a set
  Adapters,       \* the destinations each worker has an adapter for, in order
  Offered,        \* the events the daemon may offer
  TestEvent,      \* the event of `notify test`
  Cooldown,       \* DEFAULT_COOLDOWN_MS
  Delays,         \* RETRY_DELAYS_MS
  Lifetime,       \* retry_lifetime, by severity
  BatchLimit,     \* DELIVERY_BATCH
  QueueCapacity,  \* capacity of a command queue
  MaxRuns,        \* bound on the starts of each worker
  MaxNow,         \* bound on the clock
  MaxDeliveries   \* bound on the deliveries ever inserted

Worker == {Daemon} \union Tester
Severity == {"Info", "Warning", "Critical"}
Event == [key : STRING, recovery : BOOLEAN, severity : Severity]

ASSUME PolicyAssumption ==
  /\ Cooldown \in Nat /\ Delays \in Seq(Nat) /\ Delays # <<>>
  /\ Lifetime \in [Severity -> Nat]
  /\ BatchLimit \in Nat \ {0} /\ QueueCapacity \in Nat \ {0}
  /\ MaxRuns \in [Worker -> Nat] /\ MaxNow \in Nat /\ MaxDeliveries \in Nat

\* The workers are different processes, none of them has two adapters for one
\* destination (NotificationRuntimeConfig::new refuses them), and the events are
\* events.
ASSUME WorkersAssumption ==
  /\ Daemon \notin Tester
  /\ Adapters \in [Worker -> Seq(STRING)]
  /\ \A w \in Worker : IsInjective(Adapters[w])
  /\ TestEvent \in Event /\ Offered \subseteq Event

VARIABLES
  now,        \* the wall clock
  outbox,     \* the tables notification_delivery and notification_event
  pc,         \* what each worker is doing
  queue,      \* each worker's command queue
  batch,      \* the deliveries of the running sweep that are still to do
  sweptAt,    \* the time the running sweep was begun with
  answer,     \* the adapter's answer that is not recorded yet
  \* History, read by the properties only:
  runs,       \* how often each worker was started
  unrecorded, \* what was accepted in this run of a worker and not recorded
  faulted     \* the daemon's worker ended by a storage failure

tables == <<outbox>>
sweep == <<batch, sweptAt, answer>>
history == <<runs, unrecorded, faulted>>
vars == <<now, tables, pc, queue, sweep, history>>

-----------------------------------------------------------------------------
(* The store *)

NewDelivery(event, destination, at) ==
  [event      |-> event,
   to         |-> destination,
   enqueuedAt |-> at,
   attempts   |-> 0,
   nextAt     |-> at,
   until      |-> at + Lifetime[event.severity],
   status     |-> "Pending"]

\* Broken variant: only deliveries that are still pending count.
SuppressedByPending(event, destination, at) ==
  /\ ~event.recovery
  /\ \E id \in DOMAIN outbox :
       /\ outbox[id].to = destination
       /\ outbox[id].event.key = event.key
       /\ outbox[id].enqueuedAt >= at - Cooldown
       /\ outbox[id].status = "Pending"

\* eligible_destinations: an event with the same key reached this destination
\* during the cooldown, whatever became of it.
Suppressed(event, destination, at) ==
  /\ ~event.recovery
  /\ \E id \in DOMAIN outbox :
       /\ outbox[id].to = destination
       /\ outbox[id].event.key = event.key
       /\ outbox[id].enqueuedAt >= at - Cooldown

Eligible(event, destinations, at) ==
  {i \in DOMAIN destinations : ~Suppressed(event, destinations[i], at)}

\* The elements of S one by one, in the order whose pairs are in before.
InOrder(S, before) ==
  [n \in 1 .. Cardinality(S) |->
     CHOOSE x \in S : Cardinality({y \in S : <<y, x>> \in before}) = n - 1]

Inserted(event, destinations, at) ==
  LET S == Eligible(event, destinations, at)
      Earlier == {p \in S \X S : p[1] < p[2]}
      places == InOrder(S, Earlier)
  IN [n \in DOMAIN places |-> NewDelivery(event, destinations[places[n]], at)]

\* Broken variant: deliveries that have their end are swept again.
IsDueAlways(id, at) == outbox[id].nextAt <= at

IsDue(id, at) == outbox[id].status = "Pending" /\ outbox[id].nextAt <= at

Older(i, j) ==
  \/ outbox[i].nextAt < outbox[j].nextAt
  \/ outbox[i].nextAt = outbox[j].nextAt /\ i < j

\* due: a bounded snapshot, the oldest first.
Due(at) ==
  LET S == {id \in DOMAIN outbox : IsDue(id, at)}
      sorted == InOrder(S, {p \in S \X S : Older(p[1], p[2])})
  IN SubSeq(sorted, 1, IF Len(sorted) < BatchLimit
                         THEN Len(sorted) ELSE BatchLimit)

RetryDelay(attempts) ==
  Delays[IF attempts + 1 < Len(Delays) THEN attempts + 1 ELSE Len(Delays)]

\* Broken variant: a delivery past its lifetime stays as it is.
FailedKept(delivery, at) ==
  IF at + RetryDelay(delivery.attempts) > delivery.until
    THEN delivery
    ELSE [delivery EXCEPT !.attempts = @ + 1,
                          !.nextAt = at + RetryDelay(delivery.attempts)]

\* record_failure of a pending delivery.
Failed(delivery, at) ==
  IF at + RetryDelay(delivery.attempts) > delivery.until
    THEN [delivery EXCEPT !.attempts = @ + 1, !.status = "Abandoned"]
    ELSE [delivery EXCEPT !.attempts = @ + 1,
                          !.nextAt = at + RetryDelay(delivery.attempts)]

-----------------------------------------------------------------------------
(* Commands *)

Enqueue(event, at) == [kind |-> "Enqueue", event |-> event, at |-> at]
Flush(at) == [kind |-> "Flush", at |-> at]
Shutdown == [kind |-> "Shutdown"]

\* test(): each command waits for the answer to the one before it, so that the
\* worker finds them in this order; enqueue and flush carry the same time.
TestScript(at) == <<Enqueue(TestEvent, at), Flush(at), Shutdown>>

\* Bound: an event that is enqueued now by w still finds room for a delivery to
\* each destination, behind those that are queued.
Room(w) ==
  LET Demand(v) == Len(Adapters[v])
        * Cardinality({i \in DOMAIN queue[v] : queue[v][i].kind = "Enqueue"})
  IN Len(outbox) + Len(Adapters[w]) + SumFunction([v \in Worker |-> Demand(v)])
       <= MaxDeliveries

\* Bound: the lifetime of an event that is enqueued now ends before the clock.
Early(event) == now + Lifetime[event.severity] <= MaxNow

Init ==
  /\ now = 0
  /\ outbox = <<>>
  /\ pc = [w \in Worker |-> "Down"]
  /\ queue = [w \in Worker |-> <<>>]
  /\ batch = [w \in Worker |-> <<>>]
  /\ sweptAt = [w \in Worker |-> 0]
  /\ answer = [w \in Worker |-> "None"]
  /\ runs = [w \in Worker |-> 0]
  /\ unrecorded = [w \in Worker |-> {}]
  /\ faulted = FALSE

-----------------------------------------------------------------------------
(* Processes *)

\* The worker's task is over: its queue and its sweep are gone.
Ends(w, how) ==
  /\ pc' = [pc EXCEPT ![w] = how]
  /\ queue' = [queue EXCEPT ![w] = <<>>]
  /\ batch' = [batch EXCEPT ![w] = <<>>]
  /\ answer' = [answer EXCEPT ![w] = "None"]
  /\ sweptAt' = [sweptAt EXCEPT ![w] = 0]
  /\ unrecorded' = [unrecorded EXCEPT ![w] = {}]
  /\ UNCHANGED runs

\* spawn_notification_runtime, in the daemon or in `notify test`.
Start(w) ==
  /\ pc[w] = "Down"
  /\ runs[w] < MaxRuns[w]
  /\ w \in Tester => Room(w) /\ Early(TestEvent)
  /\ pc' = [pc EXCEPT ![w] = "Idle"]
  /\ queue' = [queue EXCEPT
                 ![w] = IF w \in Tester THEN TestScript(now) ELSE <<>>]
  /\ runs' = [runs EXCEPT ![w] = @ + 1]
  /\ unrecorded' = [unrecorded EXCEPT ![w] = {}]
  /\ UNCHANGED <<now, tables, sweep, faulted>>

Closing(w) == \E i \in DOMAIN queue[w] : queue[w][i] = Shutdown

\* try_enqueue: with a full queue or without a worker the event is dropped.
Offer(event) ==
  /\ pc[Daemon] \in {"Idle", "Sweeping"}
  /\ ~Closing(Daemon)
  /\ Len(queue[Daemon]) < QueueCapacity
  /\ Room(Daemon) /\ Early(event)
  /\ queue' = [queue EXCEPT ![Daemon] = Append(@, Enqueue(event, now))]
  /\ UNCHANGED <<now, tables, pc, sweep, history>>

\* The daemon's shutdown; it fails when the worker is gone already.
Stop ==
  \/ /\ pc[Daemon] \in {"Idle", "Sweeping"}
     /\ ~Closing(Daemon)
     /\ Len(queue[Daemon]) < QueueCapacity
     /\ queue' = [queue EXCEPT ![Daemon] = Append(@, Shutdown)]
     /\ UNCHANGED <<now, tables, pc, sweep, history>>
  \/ /\ pc[Daemon] = "Exited"
     /\ Ends(Daemon, "Down")
     /\ faulted' = FALSE
     /\ UNCHANGED <<now, tables>>

Crash(w) ==
  /\ pc[w] # "Down"
  /\ Ends(w, "Down")
  /\ faulted' = (faulted /\ w # Daemon)
  /\ UNCHANGED <<now, tables>>

-----------------------------------------------------------------------------
(* The worker *)

\* A store call failed.  The worker ends: nobody waits for the answer, or the
\* caller is `notify test`, which gives up.  The last sweep ignores it.
Fail(w) ==
  Ends(w, IF w \in Tester \/ pc[w] = "Closing" THEN "Down" ELSE "Exited")

\* The next command is an event.
TakeEnqueue(w) ==
  /\ pc[w] = "Idle"
  /\ queue[w] # <<>>
  /\ LET command == Head(queue[w]) IN
     /\ command.kind = "Enqueue"
     /\ outbox' = outbox \o Inserted(command.event, Adapters[w], command.at)
  /\ queue' = [queue EXCEPT ![w] = Tail(@)]
  /\ UNCHANGED <<now, pc, sweep, history>>

\* deliver_due takes its snapshot; `last` is the sweep of Shutdown.
BeginSweep(w, at, last) ==
  /\ batch' = [batch EXCEPT ![w] = Due(at)]
  /\ sweptAt' = [sweptAt EXCEPT ![w] = IF Due(at) = <<>> THEN 0 ELSE at]
  /\ pc' = [pc EXCEPT ![w] =
              IF Due(at) = <<>> THEN IF last THEN "Down" ELSE "Idle"
              ELSE IF last THEN "Closing" ELSE "Sweeping"]
  /\ UNCHANGED <<now, tables, answer, history>>

TakeFlush(w) ==
  /\ pc[w] = "Idle"
  /\ queue[w] # <<>>
  /\ Head(queue[w]).kind = "Flush"
  /\ queue' = [queue EXCEPT ![w] = Tail(@)]
  /\ BeginSweep(w, Head(queue[w]).at, FALSE)

TakeShutdown(w) ==
  /\ pc[w] = "Idle"
  /\ queue[w] # <<>>
  /\ Head(queue[w]) = Shutdown
  /\ queue' = [queue EXCEPT ![w] = Tail(@)]
  /\ BeginSweep(w, now, TRUE)

\* The interval ticks.
SweepTick(w) ==
  /\ pc[w] = "Idle"
  /\ Due(now) # <<>>
  /\ BeginSweep(w, now, FALSE)
  /\ UNCHANGED queue

\* The adapter sends the next delivery of the batch; a destination without an
\* adapter in this process is refused.  Nothing is read again before sending.
Deliver(w, accepted) ==
  /\ pc[w] \in {"Sweeping", "Closing"}
  /\ answer[w] = "None"
  /\ LET id == Head(batch[w]) IN
     /\ accepted => \E i \in DOMAIN Adapters[w] : Adapters[w][i] = outbox[id].to
     /\ unrecorded' = [unrecorded EXCEPT
                         ![w] = IF accepted THEN @ \union {id} ELSE @]
  /\ answer' = [answer EXCEPT ![w] = IF accepted THEN "Accepted" ELSE "Refused"]
  /\ UNCHANGED <<now, tables, pc, queue, batch, sweptAt, runs, faulted>>

\* The WHERE clause of mark_delivered and of record_failure.
MayRecord(id) == outbox[id].status = "Pending"

\* mark_delivered or record_failure; NotFound ends the worker.
Record(w) ==
  /\ answer[w] # "None"
  /\ LET id == Head(batch[w]) IN
     IF MayRecord(id)
       THEN /\ outbox' = [outbox EXCEPT ![id] =
                            IF answer[w] = "Accepted"
                              THEN [@ EXCEPT !.status = "Delivered"]
                              ELSE Failed(@, sweptAt[w])]
            /\ batch' = [batch EXCEPT ![w] = Tail(@)]
            /\ answer' = [answer EXCEPT ![w] = "None"]
            /\ pc' = [pc EXCEPT ![w] =
                        IF Len(batch[w]) > 1 THEN @
                        ELSE IF @ = "Closing" THEN "Down" ELSE "Idle"]
            /\ sweptAt' = [sweptAt EXCEPT
                             ![w] = IF Len(batch[w]) > 1 THEN @ ELSE 0]
            /\ unrecorded' = [unrecorded EXCEPT ![w] = @ \ {id}]
            /\ UNCHANGED <<queue, runs>>
       ELSE /\ Fail(w)
            /\ UNCHANGED outbox
  /\ UNCHANGED <<now, faulted>>

\* The database is busy or fails, in an enqueue, in the snapshot of a sweep or
\* in the record of an answer.
StorageFails(w) ==
  /\ pc[w] = "Idle" \/ answer[w] # "None"
  /\ Fail(w)
  /\ faulted' = (faulted \/ w = Daemon)
  /\ UNCHANGED <<now, tables>>

Tick ==
  /\ now < MaxNow
  /\ now' = now + 1
  /\ UNCHANGED <<tables, pc, queue, sweep, history>>

Work(w) ==
  \/ TakeEnqueue(w)
  \/ TakeFlush(w)
  \/ TakeShutdown(w)
  \/ SweepTick(w)
  \/ \E accepted \in BOOLEAN : Deliver(w, accepted)
  \/ Record(w)

Next ==
  \/ \E event \in Offered : Offer(event)
  \/ Stop
  \/ \E w \in Worker : Start(w) \/ Crash(w) \/ StorageFails(w) \/ Work(w)
  \/ Tick

Spec == Init /\ [][Next]_vars

(***************************************************************************)
(* A worker that can go on is polled, an adapter answers within its own    *)
(* timeout (15 or 20 s), and the interval ticks again while time passes.   *)
(* Nothing is assumed of starts, offers, destinations and failures.        *)
(***************************************************************************)
FairSpec ==
  /\ Spec
  /\ WF_vars(Tick)
  /\ \A w \in Worker : WF_vars(Work(w))

-----------------------------------------------------------------------------
(* Properties *)

Command == [kind : {"Enqueue"}, event : Event, at : 0 .. MaxNow]
             \union [kind : {"Flush"}, at : 0 .. MaxNow] \union {Shutdown}

\* The types of the tables and of the workers.  The columns obey the CHECK
\* retry_until_ms >= next_attempt_at_ms of the schema: an UPDATE that broke it
\* would fail and end the worker.
TypeOK ==
  /\ now \in 0 .. MaxNow
  /\ \A id \in DOMAIN outbox :
       /\ outbox[id].event \in Event
       /\ outbox[id].to \in UNION {Range(Adapters[w]) : w \in Worker}
       /\ outbox[id].status \in {"Pending", "Delivered", "Abandoned"}
       /\ outbox[id].nextAt <= outbox[id].until
  /\ pc \in [Worker -> {"Down", "Idle", "Sweeping", "Closing", "Exited"}]
  /\ \A w \in Worker :
       /\ \A i \in DOMAIN queue[w] : queue[w][i] \in Command
       /\ Len(batch[w]) <= BatchLimit
       /\ (batch[w] # <<>>) <=> (pc[w] \in {"Sweeping", "Closing"})
       /\ answer[w] # "None" => batch[w] # <<>>

\* A delivery that was recorded delivered or abandoned is never touched again,
\* although a second process may hold it in a snapshot that is older than the
\* record (the WHERE clauses of mark_delivered and record_failure).
TerminalIsFinal ==
  [][\A id \in DOMAIN outbox :
       outbox[id].status # "Pending" => outbox'[id] = outbox[id]]_outbox

\* An event of one key becomes a delivery to a destination at most once per
\* cooldown, recovery events excepted, whichever process enqueued it and
\* whatever became of the first one (eligible_destinations; README.md:110-111).
\* It says nothing of how often such a delivery is sent.
CooldownHolds ==
  \A i, j \in DOMAIN outbox :
    i < j /\ ~outbox[j].event.recovery
      /\ outbox[i].to = outbox[j].to
      /\ outbox[i].event.key = outbox[j].event.key
    => outbox[i].enqueuedAt < outbox[j].enqueuedAt - Cooldown

\* One run of a worker sends what a destination accepted only once: when the
\* record of the acceptance fails the worker ends instead of sweeping the same
\* delivery again every 30 seconds (runtime.rs:281-306).
OncePerRun ==
  [][\A w \in Worker :
       answer[w] = "None" /\ answer'[w] = "Accepted"
         => Head(batch[w]) \notin unrecorded[w]]_vars

\* As long as the daemon is the only process at the outbox, its worker ends
\* only by a shutdown, a crash or a storage failure: what it records is always
\* still pending.
OnlyStorageEndsWorker ==
  pc[Daemon] = "Exited" =>
    \/ faulted
    \/ \E w \in Tester : runs[w] > 0

\* What destinations see, and what ends the worker.
OutboxIsSound == TypeOK /\ CooldownHolds /\ OnlyStorageEndsWorker

\* What a sweep takes up is still pending.  deliver_due reads nothing again
\* before it sends (runtime.rs:318-327), so a worker may send a delivery that
\* has its end: but only when its snapshot is older than that end, and when it
\* was another worker that recorded it.
NotSweptAfterEnd ==
  [][\A w \in Worker : \A id \in Range(batch'[w]) :
       outbox'[id].status # "Pending"
         => /\ id \in Range(batch[w])
            /\ outbox[id].status = "Pending"
                 => batch'[w] = batch[w] /\ answer'[w] = answer[w]]_vars

\* The end of a delivery is final in the tables, no sweep begun after it sends
\* it again, and no run of a worker sends twice what a destination accepted.
EndsAreRespected == TerminalIsFinal /\ NotSweptAfterEnd /\ OncePerRun

\* A living worker drains the outbox whatever the destinations answer: every
\* delivery is sooner or later delivered or abandoned.  (The model inserts a
\* bounded number of them, so that this is all of them at once.)
Settles ==
  []<>(\/ pc[Daemon] \in {"Down", "Exited"}
       \/ \A id \in DOMAIN outbox : outbox[id].status # "Pending")

-----------------------------------------------------------------------------
(* What the code's documents say and the code does not always do. *)

\* "Single-writer durable notification outbox" (store.rs:65): only the storage
\* itself can make a record fail.
WorkerSurvives == pc[Daemon] = "Exited" => faulted
=============================================================================
