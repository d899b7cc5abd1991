-------------------------- MODULE CommunityTelemetry --------------------------
(***************************************************************************)
(* Community telemetry: the worker that counts what the accounts do and    *)
(* reports every completed UTC day (bins/lirvena/telemetry.rs) and its     *)
(* store (community-telemetry).  Ceylith is external.                      *)
(*                                                                         *)
(* Time is in units of which a day has DayLength.  The store commits every *)
(* statement by itself, so that a crash may fall between two of them.  The *)
(* clock does not go back here.                                            *)
(***************************************************************************)
EXTENDS Integers, Sequences, FiniteSets, FiniteSetsExt

CONSTANTS
  Participant,   \* the accounts of the installation
  DayLength,
  Capacity,      \* of the subscription to the account events
  MaxReports,    \* MAX_REPORTS_PER_FLUSH
  MaxNow,        \* bound of the model: the clock
  MaxSpent       \* bound of the model: events and crashes

ASSUME TelemetryAssumption ==
  /\ {DayLength, Capacity, MaxReports, MaxNow} \subseteq Nat \ {0}
  /\ MaxSpent \in Nat

VARIABLES
  now,
  online,     \* the accounts whose phase is Active
  events,     \* the worker's subscription
  daily,      \* table daily: a row, or none, for every day
  state,      \* table runtime_state
  worker,     \* what the worker does, and its memory
  spent,
  torn,       \* history: a crash fell between two statements
  submitted,  \* history: the reports that were sent
  accepted    \* history: the days whose report Ceylith accepted

store == <<daily, state, torn>>
history == <<submitted, accepted>>
telemetryVars == <<now, online, events, store, worker, spent, history>>

None == -1
DayOf(time) == time \div DayLength
Days == 0..DayOf(MaxNow)

NoRow == [known |-> FALSE, count |-> 0, active |-> 0, sent |-> FALSE]
Down == [at |-> "Down", active |-> {}, time |-> 0, left |-> 0, day |-> None]

TelemetryInit ==
  /\ now = 1 /\ online = {} /\ events = <<>> /\ spent = 0
  /\ daily = [d \in Days |-> NoRow]
  /\ state = [accounts |-> 0, since |-> None, last |-> 0]
  /\ worker = Down
  /\ torn = FALSE /\ submitted = {} /\ accepted = {}

Tick ==
  /\ now < MaxNow /\ now' = now + 1
  /\ UNCHANGED <<online, events, store, worker, spent, history>>

-----------------------------------------------------------------------------
(* The accounts.  A subscriber that falls behind loses the oldest events.  *)

Published(event) ==
  events' = Append(IF Len(events) = Capacity THEN Tail(events) ELSE events, event)

Spend == spent < MaxSpent /\ spent' = spent + 1

Changes(a) ==
  /\ worker.at # "Down" /\ Spend
  /\ online' = IF a \in online THEN online \ {a} ELSE online \union {a}
  /\ Published([kind |-> "Lifecycle", account |-> a, active |-> a \notin online, at |-> now])
  /\ UNCHANGED <<now, store, worker, history>>

\* A message received is dated when it is counted, one sent (or the number of
\* groups) when it happened.
Happens(kind) ==
  /\ online # {} /\ Spend
  /\ Published([kind |-> kind, at |-> now])
  /\ UNCHANGED <<now, online, store, worker, history>>

-----------------------------------------------------------------------------
(* The store.                                                              *)

\* ensure_day, and then what is counted.
Counted(rows, time, n) ==
  [d \in Days |-> IF d = DayOf(time) THEN [rows[d] EXCEPT !.known = TRUE, !.count = @ + n]
                  ELSE rows[d]]

\* How much of day d lies between two times.
Overlap(d, from, to) ==
  Max({0, Min({to, (d + 1) * DayLength}) - Max({from, d * DayLength})})

\* add_active_interval, split at midnight.
WithInterval(rows, from, to) ==
  [d \in Days |-> LET n == Overlap(d, from, to) IN
     IF n = 0 THEN rows[d] ELSE [rows[d] EXCEPT !.known = TRUE, !.active = @ + n]]

\* update_activity fails on an earlier time, or on a leave that has no enter.
Refused(time, active) == time < state.last \/ (~active /\ state.accounts = 0)

SetActive(time, active) ==
  LET next == IF active THEN state.accounts + 1 ELSE state.accounts - 1 IN
  /\ daily' = IF next = 0 THEN WithInterval(daily, state.since, time) ELSE daily
  /\ state' = [accounts |-> next, last |-> time,
               since |-> IF active /\ state.accounts = 0 THEN time
                         ELSE IF next = 0 THEN None ELSE state.since]

\* Broken variant: the interval stays open although it was counted.
CheckpointedForgetful(time) == [state EXCEPT !.last = time]

Checkpointed(time) ==
  [state EXCEPT !.last = time, !.since = IF state.accounts > 0 THEN time ELSE None]

UpToNow == IF state.accounts > 0 THEN WithInterval(daily, state.since, now) ELSE daily

Pending(time) == {d \in Days : daily[d].known /\ ~daily[d].sent /\ d < DayOf(time)}

\* Broken variant: yesterday is taken for incomplete.
MarkableLater(day, time) == day + 1 < DayOf(time)

\* mark_sent
Markable(day, time) == day < DayOf(time)

\* The coarse form of a day: here nothing, or more.
Bucket(n) == IF n = 0 THEN "Zero" ELSE "More"
Report(d) == [day |-> d, count |-> Bucket(daily[d].count), active |-> Bucket(daily[d].active)]

-----------------------------------------------------------------------------
(* The worker.                                                             *)

\* Whatever was active when the process died counts up to now; whether the set
\* of accounts has changed since is counted too.
Open(changed) ==
  /\ worker.at = "Down"
  /\ worker' = [Down EXCEPT !.at = "Idle"]
  /\ daily' = Counted(UpToNow, now, IF changed THEN 1 ELSE 0)
  /\ state' = [accounts |-> 0, since |-> None, last |-> now]
  /\ UNCHANGED <<now, online, events, spent, torn, history>>

Take(kind) ==
  /\ worker.at = "Idle" /\ events # <<>> /\ Head(events).kind = kind
  /\ events' = Tail(events)

RecordCount ==
  /\ \/ Take("Received") /\ daily' = Counted(daily, now, 1)
     \/ Take("Sent") /\ daily' = Counted(daily, Head(events).at, 1)
  /\ UNCHANGED <<now, online, state, worker, spent, torn, history>>

\* The memory is changed before the store is asked, which may refuse.
RecordLifecycle ==
  /\ Take("Lifecycle")
  /\ LET event == Head(events)
         active == IF event.active THEN worker.active \union {event.account}
                   ELSE worker.active \ {event.account}
     IN /\ worker' = [worker EXCEPT !.active = active]
        /\ IF active = worker.active \/ Refused(event.at, event.active)
           THEN UNCHANGED <<daily, state>>
           ELSE SetActive(event.at, event.active)
  /\ UNCHANGED <<now, online, spent, torn, history>>

\* Every minute.
Flush ==
  /\ worker.at = "Idle" /\ now >= state.last
  /\ daily' = UpToNow /\ state' = Checkpointed(now)
  /\ worker' = [worker EXCEPT !.at = "Flushing", !.time = now, !.left = MaxReports]
  /\ UNCHANGED <<now, online, events, spent, torn, history>>

Submit ==
  /\ worker.at = "Flushing" /\ worker.left > 0 /\ Pending(worker.time) # {}
  /\ LET d == Min(Pending(worker.time)) IN
       /\ worker' = [worker EXCEPT !.at = "Waiting", !.day = d]
       /\ submitted' = submitted \union {Report(d)}
  /\ UNCHANGED <<now, online, events, store, spent, accepted>>

Rest == [worker EXCEPT !.at = "Idle", !.time = 0, !.left = 0, !.day = None]

FlushEnds ==
  /\ worker.at = "Flushing" /\ (worker.left = 0 \/ Pending(worker.time) = {})
  /\ worker' = Rest
  /\ UNCHANGED <<now, online, events, store, spent, history>>

\* Ceylith accepts the report or not, and its answer arrives or not.
Answer(accepts, heard) ==
  /\ worker.at = "Waiting"
  /\ accepted' = IF accepts THEN accepted \union {worker.day} ELSE accepted
  /\ worker' = IF accepts /\ heard THEN [worker EXCEPT !.at = "Marking"] ELSE Rest
  /\ UNCHANGED <<now, online, events, store, spent, submitted>>

Mark ==
  /\ worker.at = "Marking"
  /\ IF Markable(worker.day, worker.time)
     THEN /\ daily' = [daily EXCEPT ![worker.day].sent = TRUE]
          /\ worker' = [worker EXCEPT !.at = "Flushing", !.left = @ - 1, !.day = None]
     ELSE worker' = Rest /\ UNCHANGED daily
  /\ UNCHANGED <<now, online, events, spent, state, torn, history>>

-----------------------------------------------------------------------------
\* close_active_accounts: one leave for every active account that the worker
\* knows of, until the store refuses one.
Shutdown ==
  /\ worker.at = "Idle" /\ Spend
  /\ worker' = Down /\ events' = <<>> /\ online' = {}
  /\ LET known == Cardinality(worker.active)
         next == Max({0, state.accounts - known})
     IN IF known = 0 \/ state.accounts = 0 \/ now < state.last THEN UNCHANGED <<daily, state>>
        ELSE /\ daily' = IF next = 0 THEN UpToNow ELSE daily
             /\ state' = [accounts |-> next, last |-> now,
                          since |-> IF next = 0 THEN None ELSE state.since]
  /\ UNCHANGED <<now, torn, history>>

Dies == Spend /\ worker' = Down /\ events' = <<>> /\ online' = {}

WorkerCrashes == worker.at # "Down" /\ Dies /\ UNCHANGED <<now, store, history>>

\* The open interval is counted up to this time before the state is written: at
\* a checkpoint, at the leaves of a shutdown and at the next opening up to now,
\* at the last leave up to that.
Counting(until) ==
  \/ worker.at \in {"Idle", "Down"} /\ until = now
  \/ /\ worker.at = "Idle" /\ events # <<>> /\ state.accounts = 1
     /\ LET event == Head(events) IN
          /\ event.kind = "Lifecycle" /\ ~event.active
          /\ event.account \in worker.active /\ until = event.at

\* The interval was added for the days up to d, and the process died before it
\* noted so.
CrashBetween(until, d) ==
  /\ state.accounts > 0 /\ until >= state.last /\ Counting(until) /\ Dies
  /\ daily' = [e \in Days |-> IF e <= d THEN WithInterval(daily, state.since, until)[e]
                              ELSE daily[e]]
  /\ torn' = TRUE
  /\ UNCHANGED <<now, state, history>>

-----------------------------------------------------------------------------
WorkerStep ==
  \/ \E changed \in BOOLEAN : Open(changed)
  \/ RecordCount \/ RecordLifecycle \/ Flush \/ Submit \/ FlushEnds \/ Mark

TelemetryNext ==
  \/ Tick \/ \E a \in Participant : Changes(a)
  \/ \E kind \in {"Received", "Sent"} : Happens(kind)
  \/ WorkerStep \/ \E accepts, heard \in BOOLEAN : Answer(accepts, heard)
  \/ Shutdown \/ WorkerCrashes
  \/ \E until \in 0..now, d \in Days : CrashBetween(until, d)

TelemetrySpec == TelemetryInit /\ [][TelemetryNext]_telemetryVars

\* The worker is opened again, its timer fires, and a report that is sent again
\* and again is accepted and heard in the end.
TelemetryFairness ==
  /\ WF_telemetryVars(WorkerStep) /\ SF_telemetryVars(Flush)
  /\ WF_telemetryVars(\E accepts, heard \in BOOLEAN : Answer(accepts, heard))
  /\ SF_telemetryVars(Answer(TRUE, TRUE))

FairTelemetrySpec == TelemetrySpec /\ TelemetryFairness

-----------------------------------------------------------------------------
\* Only days that are over are reported, and a day is only held for reported if
\* Ceylith has accepted its report.
ReportedWhenComplete ==
  /\ \A r \in submitted : r.day < DayOf(now)
  /\ \A d \in Days : daily[d].sent => d \in accepted

\* No moment is counted twice, whatever number of accounts is active, however
\* often the activity is stored and across restarts, unless the process died
\* between two statements: each day's activity fits into what has passed of it
\* before the interval that is open.
CountedOnce ==
  torn \/ \A d \in Days :
            daily[d].active <=
              Overlap(d, 0, IF state.accounts > 0 THEN state.since ELSE state.last)

\* Reports are of whole days, and of no moment twice.
ReportsAreSound == ReportedWhenComplete /\ CountedOnce

\* Every day that is over is reported in the end.
DaysReported == []<>(\A d \in Days : daily[d].known /\ d < DayOf(now) => daily[d].sent)

\* "Callers can obtain only frozen coarse buckets for a completed UTC day"
\* (community-telemetry/src/lib.rs): all reports of a day are the same.
FrozenBuckets == \A r, s \in submitted : r.day = s.day => r = s
=============================================================================
