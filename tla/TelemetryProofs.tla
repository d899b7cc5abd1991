--------------------------- MODULE TelemetryProofs ---------------------------
(***************************************************************************)
(* Proofs about CommunityTelemetry, for any accounts, any length of a day  *)
(* and any bounds.                                                         *)
(*                                                                         *)
(* What has been counted of a day never exceeds what of it lay before the  *)
(* interval that is open, or before the last statement when none is.  Inv  *)
(* adds that neither lies ahead of the clock and that an interval opens no *)
(* later than the last statement, and follows a day from the moment it is  *)
(* obtained until it is marked.                                            *)
(***************************************************************************)
EXTENDS CommunityTelemetry, FiniteSetTheorems, SequenceTheorems, WellFoundedInduction, TLAPS

Row == [known : BOOLEAN, count : Nat, active : Nat, sent : BOOLEAN]
Rows == [Days -> Row]

State == [accounts : Nat, since : Int, last : Nat]

Stage == {"Down", "Idle", "Flushing", "Waiting", "Marking"}
Worker == [at : Stage, active : SUBSET Participant, time : Nat, left : Int, day : Int]

Event == [kind : {"Lifecycle"}, account : Participant, active : BOOLEAN, at : Nat]
           \union [kind : {"Received", "Sent"}, at : Nat]
Happened == Seq(Event)

\* What has been counted of each day lies before the given time.
Settled(rows, time) == \A d \in Days : rows[d].active <= Overlap(d, 0, time)

\* Until then everything has been counted.
Until == IF state.accounts > 0 THEN state.since ELSE state.last

\* No statement is of the future, and an open interval began before the last.
StateFits ==
  /\ state \in State
  /\ state.last <= now
  /\ state.accounts > 0 => 0 <= state.since /\ state.since <= state.last

StoreFits ==
  /\ daily \in Rows
  /\ \A d \in Days : daily[d].sent => d \in accepted
  /\ torn \/ Settled(daily, Until)

EventsFit ==
  /\ events \in Happened
  /\ \A i \in DOMAIN events : events[i].at <= now

\* A report that is under way is of a complete day; Ceylith has accepted one
\* that is about to be marked.
WorkerFits ==
  /\ worker \in Worker
  /\ IsFiniteSet(worker.active)
  /\ worker.time <= now
  /\ worker.at \in {"Waiting", "Marking"} =>
       worker.day \in Days /\ worker.day < DayOf(worker.time)
  /\ worker.at = "Marking" => worker.day \in accepted

ReportsFit == \A r \in submitted : r.day \in Days /\ r.day < DayOf(now)

Inv == now \in Nat /\ StateFits /\ StoreFits /\ EventsFit /\ WorkerFits /\ ReportsFit

-----------------------------------------------------------------------------
(* Days.                                                                   *)

LEMMA DayFacts ==
  ASSUME NEW t \in Nat
  PROVE  /\ DayOf(t) \in Nat
         /\ DayOf(t) * DayLength <= t
         /\ t < (DayOf(t) + 1) * DayLength
<1>1. DayLength \in Nat \ {0}
  BY TelemetryAssumption
<1> QED
  BY <1>1, SMTT(30) DEF DayOf

\* A later time is not of an earlier day.
LEMMA DayMonotone ==
  ASSUME NEW s \in Nat, NEW t \in Nat, s <= t
  PROVE  DayOf(s) <= DayOf(t)
<1>1. DayLength \in Nat \ {0}
  BY TelemetryAssumption
<1> DEFINE c == DayOf(s)
           d == DayOf(t)
<1>2. c \in Nat /\ d \in Nat /\ c * DayLength <= s /\ t < (d + 1) * DayLength
  BY DayFacts
<1> HIDE DEF c, d
<1>3. SUFFICES ASSUME d + 1 <= c PROVE FALSE
  BY <1>2 DEF c, d
<1>4. (d + 1) * DayLength <= c * DayLength
  BY <1>1, <1>2, <1>3, SMTT(30)
<1> QED
  BY <1>1, <1>2, <1>4

LEMMA DaysAreNaturals == Days \subseteq Nat /\ IsFiniteSet(Days)
<1>1. DayOf(MaxNow) \in Nat
  BY DayFacts, TelemetryAssumption
<1> QED
  BY <1>1, FS_Interval DEF Days

LEMMA MaxOfPair ==
  ASSUME NEW x \in Int, NEW y \in Int
  PROVE  Max({x, y}) = IF x >= y THEN x ELSE y
<1> DEFINE m == IF x >= y THEN x ELSE y
<1>1. m \in {x, y} /\ \A z \in {x, y} : m >= z
  OBVIOUS
<1>2. \A w \in {x, y} : (\A z \in {x, y} : w >= z) => w = m
  OBVIOUS
<1> QED
  BY <1>1, <1>2 DEF Max

LEMMA MinOfPair ==
  ASSUME NEW x \in Int, NEW y \in Int
  PROVE  Min({x, y}) = IF x <= y THEN x ELSE y
<1> DEFINE m == IF x <= y THEN x ELSE y
<1>1. m \in {x, y} /\ \A z \in {x, y} : m <= z
  OBVIOUS
<1>2. \A w \in {x, y} : (\A z \in {x, y} : w <= z) => w = m
  OBVIOUS
<1> QED
  BY <1>1, <1>2 DEF Min

\* The first of some days is one of them.
LEMMA FirstDay ==
  ASSUME NEW S \in SUBSET Days, S # {}
  PROVE  Min(S) \in S
<1>1. S \subseteq Nat
  BY DaysAreNaturals
<1> DEFINE below == OpToRel(<, Nat)
<1>2. PICK m \in S : \A y \in S : ~ (<<y, m>> \in below)
  <2>1. IsWellFoundedOn(below, Nat)
    BY NatLessThanWellFounded
  <2> HIDE DEF below
  <2>2. QED
    BY <1>1, <2>1, WFMin
<1>3. ASSUME NEW y \in S PROVE m <= y
  <2>1. y \in Nat /\ m \in Nat
    BY <1>1
  <2>2. ~ (<<y, m>> \in below)
    BY <1>2
  <2>3. ~ (y < m)
    BY <2>1, <2>2 DEF OpToRel
  <2>4. QED
    BY <2>1, <2>3
<1>4. QED
  BY <1>3 DEF Min

-----------------------------------------------------------------------------
(* Intervals.                                                              *)

\* What lies between two times, of the days from lo to hi.
Within(lo, hi, from, to) ==
  Max({0, Min({to, hi}) - Max({from, lo})})

Later(x, y) == IF x >= y THEN x ELSE y
Earlier(x, y) == IF x <= y THEN x ELSE y

LEMMA WithinFacts ==
  ASSUME NEW lo \in Nat, NEW hi \in Nat, lo <= hi,
         NEW from \in Nat, NEW to \in Nat
  PROVE  Within(lo, hi, from, to) = Later(0, Earlier(to, hi) - Later(from, lo))
<1> DEFINE first == Later(from, lo)
           last == Earlier(to, hi)
<1>1. first \in Int /\ last \in Int /\ last - first \in Int
  BY DEF Later, Earlier
<1>2. Max({from, lo}) = first /\ Min({to, hi}) = last
  BY MaxOfPair, MinOfPair DEF Later, Earlier
<1> HIDE DEF first, last
<1>3. Max({0, last - first}) = Later(0, last - first)
  BY <1>1, MaxOfPair DEF Later
<1>4. Within(lo, hi, from, to) = Later(0, last - first)
  BY <1>2, <1>3 DEF Within
<1>5. QED
  BY <1>4 DEF first, last

LEMMA OverlapIsWithin ==
  ASSUME NEW d \in Days
  PROVE  /\ d * DayLength \in Nat /\ (d + 1) * DayLength \in Nat
         /\ d * DayLength <= (d + 1) * DayLength
         /\ \A from, to : Overlap(d, from, to) =
                           Within(d * DayLength, (d + 1) * DayLength, from, to)
<1>1. d \in Nat /\ DayLength \in Nat
  BY DaysAreNaturals, TelemetryAssumption
<1>2. /\ d * DayLength \in Nat /\ (d + 1) * DayLength \in Nat
      /\ d * DayLength <= (d + 1) * DayLength
  BY <1>1, SMTT(30)
<1>3. QED
  BY <1>2 DEF Overlap, Within

\* Of every day, time is divided by any moment in it.
LEMMA OverlapAdds ==
  ASSUME NEW d \in Days, NEW s \in Nat, NEW t \in Nat, s <= t
  PROVE  /\ Overlap(d, 0, s) \in Nat /\ Overlap(d, s, t) \in Nat
         /\ Overlap(d, 0, s) + Overlap(d, s, t) = Overlap(d, 0, t)
         /\ Overlap(d, 0, s) <= Overlap(d, 0, t)
<1>1. ASSUME NEW lo \in Nat, NEW hi \in Nat, lo <= hi
      PROVE  /\ Within(lo, hi, 0, s) \in Nat /\ Within(lo, hi, s, t) \in Nat
             /\ Within(lo, hi, 0, s) + Within(lo, hi, s, t) = Within(lo, hi, 0, t)
             /\ Within(lo, hi, 0, s) <= Within(lo, hi, 0, t)
  <2>1. /\ Within(lo, hi, 0, s) = Later(0, Earlier(s, hi) - Later(0, lo))
        /\ Within(lo, hi, s, t) = Later(0, Earlier(t, hi) - Later(s, lo))
        /\ Within(lo, hi, 0, t) = Later(0, Earlier(t, hi) - Later(0, lo))
    BY <1>1, WithinFacts
  <2>2. QED
    BY <1>1, <2>1 DEF Later, Earlier
<1>2. QED
  BY <1>1, OverlapIsWithin

-----------------------------------------------------------------------------
LEMMA InitInv == TelemetryInit => Inv
<1> SUFFICES ASSUME TelemetryInit PROVE Inv
  OBVIOUS
<1>1. now \in Nat /\ StateFits
  BY DEF TelemetryInit, StateFits, State, None
<1>2. StoreFits
  <2>1. \A d \in Days : daily[d] = NoRow
    BY DEF TelemetryInit
  <2>2. daily \in Rows
    BY DEF TelemetryInit, Rows, Row, NoRow
  <2>3. Until = 0
    BY DEF TelemetryInit, Until
  <2>4. Settled(daily, Until)
    BY <2>1, <2>3, OverlapAdds DEF Settled, NoRow
  <2>5. QED
    BY <2>1, <2>2, <2>4 DEF StoreFits, NoRow
<1>3. EventsFit
  BY DEF TelemetryInit, EventsFit, Happened
<1>4. WorkerFits
  BY FS_EmptySet DEF TelemetryInit, WorkerFits, Worker, Stage, Down, None
<1>5. ReportsFit
  BY DEF TelemetryInit, ReportsFit
<1>6. QED
  BY <1>1, <1>2, <1>3, <1>4, <1>5 DEF Inv

LEMMA InvSound == Inv => ReportsAreSound
<1> SUFFICES ASSUME Inv PROVE ReportsAreSound
  OBVIOUS
<1>1. ReportedWhenComplete
  BY DEF Inv, ReportsFit, StoreFits, ReportedWhenComplete
<1>2. CountedOnce
  BY DEF Inv, StoreFits, Settled, Until, CountedOnce
<1>3. QED
  BY <1>1, <1>2 DEF ReportsAreSound

-----------------------------------------------------------------------------
(* The tables.                                                             *)

LEMMA RowChanges ==
  ASSUME NEW old \in Row, NEW n \in Nat
  PROVE  /\ [old EXCEPT !.known = TRUE, !.count = @ + n] \in Row
         /\ [old EXCEPT !.known = TRUE, !.count = @ + n].active = old.active
         /\ [old EXCEPT !.known = TRUE, !.count = @ + n].sent = old.sent
         /\ [old EXCEPT !.known = TRUE, !.active = @ + n] \in Row
         /\ [old EXCEPT !.known = TRUE, !.active = @ + n].active = old.active + n
         /\ [old EXCEPT !.known = TRUE, !.active = @ + n].sent = old.sent
<1>1. old.count + n \in Nat /\ old.active + n \in Nat
  BY DEF Row
<1>2. [old EXCEPT !.known = TRUE, !.count = @ + n] \in Row
  BY <1>1 DEF Row
<1>3. [old EXCEPT !.known = TRUE, !.active = @ + n] \in Row
  BY <1>1 DEF Row
<1>4. QED
  BY <1>2, <1>3 DEF Row

LEMMA CountedKeeps ==
  ASSUME NEW rows \in Rows, NEW time, NEW n \in Nat
  PROVE  /\ Counted(rows, time, n) \in Rows
         /\ \A d \in Days : /\ Counted(rows, time, n)[d].active = rows[d].active
                           /\ Counted(rows, time, n)[d].sent = rows[d].sent
<1> DEFINE new(d) == [rows[d] EXCEPT !.known = TRUE, !.count = @ + n]
<1>1. ASSUME NEW d \in Days
      PROVE  /\ rows[d] \in Row /\ new(d) \in Row
             /\ new(d).active = rows[d].active /\ new(d).sent = rows[d].sent
  <2>1. rows[d] \in Row
    BY DEF Rows
  <2>2. QED
    BY <2>1, RowChanges
<1>2. Counted(rows, time, n) =
        [d \in Days |-> IF d = DayOf(time) THEN new(d) ELSE rows[d]]
  BY DEF Counted
<1> HIDE DEF new
<1>3. QED
  BY <1>1, <1>2 DEF Rows

LEMMA IntervalAdds ==
  ASSUME NEW rows \in Rows, NEW from \in Nat, NEW to \in Nat, from <= to
  PROVE  /\ WithInterval(rows, from, to) \in Rows
         /\ \A d \in Days :
              /\ WithInterval(rows, from, to)[d].sent = rows[d].sent
              /\ WithInterval(rows, from, to)[d].active =
                   rows[d].active + Overlap(d, from, to)
<1> DEFINE n(d) == Overlap(d, from, to)
           new(d) == [rows[d] EXCEPT !.known = TRUE, !.active = @ + n(d)]
<1>1. ASSUME NEW d \in Days
      PROVE  /\ n(d) \in Nat /\ rows[d] \in Row /\ rows[d].active \in Nat
             /\ new(d) \in Row /\ new(d).sent = rows[d].sent
             /\ new(d).active = rows[d].active + n(d)
  <2>1. n(d) \in Nat
    BY OverlapAdds
  <2>2. rows[d] \in Row
    BY DEF Rows
  <2>3. rows[d].active \in Nat
    BY <2>2 DEF Row
  <2> HIDE DEF n
  <2>4. QED
    BY <2>1, <2>2, <2>3, RowChanges
<1>2. WithInterval(rows, from, to) =
        [d \in Days |-> IF n(d) = 0 THEN rows[d] ELSE new(d)]
  BY DEF WithInterval
<1> HIDE DEF new, n
<1>3. ASSUME NEW d \in Days
      PROVE  /\ (IF n(d) = 0 THEN rows[d] ELSE new(d)).sent = rows[d].sent
             /\ (IF n(d) = 0 THEN rows[d] ELSE new(d)).active = rows[d].active + n(d)
             /\ (IF n(d) = 0 THEN rows[d] ELSE new(d)) \in Row
  BY <1>1
<1>4. QED
  BY <1>2, <1>3 DEF Rows, n

\* The interval that is open is counted once.
LEMMA IntervalSettles ==
  ASSUME NEW rows \in Rows, NEW from \in Nat, NEW to \in Nat, from <= to,
         Settled(rows, from)
  PROVE  Settled(WithInterval(rows, from, to), to)
<1>1. ASSUME NEW d \in Days
      PROVE  WithInterval(rows, from, to)[d].active <= Overlap(d, 0, to)
  <2>1. rows[d].active \in Nat
    BY DEF Rows, Row
  <2>2. rows[d].active <= Overlap(d, 0, from)
    BY DEF Settled
  <2>3. /\ Overlap(d, 0, from) \in Nat /\ Overlap(d, from, to) \in Nat
        /\ Overlap(d, 0, from) + Overlap(d, from, to) = Overlap(d, 0, to)
    BY OverlapAdds
  <2>4. WithInterval(rows, from, to)[d].active = rows[d].active + Overlap(d, from, to)
    BY IntervalAdds
  <2>5. QED
    BY <2>1, <2>2, <2>3, <2>4
<1>2. QED
  BY <1>1 DEF Settled

LEMMA TimeSettles ==
  ASSUME NEW rows \in Rows, NEW from \in Nat, NEW to \in Nat, from <= to,
         Settled(rows, from)
  PROVE  Settled(rows, to)
<1>1. ASSUME NEW d \in Days PROVE rows[d].active <= Overlap(d, 0, to)
  <2>1. rows[d].active \in Nat /\ rows[d].active <= Overlap(d, 0, from)
    BY DEF Rows, Row, Settled
  <2>2. QED
    BY <2>1, OverlapAdds
<1>2. QED
  BY <1>1 DEF Settled

LEMMA UntilFits ==
  ASSUME Inv
  PROVE  /\ now \in Nat /\ Until \in Nat /\ Until <= state.last /\ state.last \in Nat
         /\ state.last <= now /\ Until <= now
  BY DEF Inv, StateFits, State, Until

\* The intervals of the table up to some time of the present or the past.
LEMMA IntervalToTime ==
  ASSUME Inv, NEW time \in Nat, state.last <= time, state.accounts > 0
  PROVE  /\ WithInterval(daily, state.since, time) \in Rows
         /\ \A d \in Days : WithInterval(daily, state.since, time)[d].sent = daily[d].sent
         /\ torn \/ Settled(WithInterval(daily, state.since, time), time)
<1>1. state.since = Until /\ Until \in Nat /\ Until <= time
  BY UntilFits DEF Until
<1>2. daily \in Rows /\ (torn \/ Settled(daily, Until))
  BY DEF Inv, StoreFits
<1>3. QED
  BY <1>1, <1>2, IntervalAdds, IntervalSettles

LEMMA UpToNowSettles ==
  ASSUME Inv
  PROVE  /\ UpToNow \in Rows
         /\ \A d \in Days : UpToNow[d].sent = daily[d].sent
         /\ torn \/ Settled(UpToNow, now)
<1>1. CASE state.accounts > 0
  <2>1. UpToNow = WithInterval(daily, state.since, now)
    BY <1>1 DEF UpToNow
  <2>2. QED
    BY <1>1, <2>1, UntilFits, IntervalToTime
<1>2. CASE ~(state.accounts > 0)
  <2>1. UpToNow = daily
    BY <1>2 DEF UpToNow
  <2>2. daily \in Rows /\ (torn \/ Settled(daily, Until))
    BY DEF Inv, StoreFits
  <2>3. QED
    BY <2>1, <2>2, UntilFits, TimeSettles
<1>3. QED
  BY <1>1, <1>2

-----------------------------------------------------------------------------
(* What a step leaves alone, while time passes.                            *)

Passes == now' \in Nat /\ now <= now'

LEMMA DayPasses ==
  ASSUME now \in Nat, Passes
  PROVE  DayOf(now) \in Nat /\ DayOf(now') \in Nat /\ DayOf(now) <= DayOf(now')
BY DayFacts, DayMonotone DEF Passes

LEMMA ReportsKept ==
  ASSUME Inv, Passes, UNCHANGED submitted
  PROVE  ReportsFit'
<1>1. now \in Nat /\ ReportsFit
  BY DEF Inv
<1>2. ASSUME NEW r \in submitted PROVE r.day \in Days /\ r.day < DayOf(now')
  <2>1. r.day \in Days /\ r.day \in Nat /\ r.day < DayOf(now)
    BY <1>1, DaysAreNaturals DEF ReportsFit
  <2>2. QED
    BY <1>1, <2>1, DayPasses
<1>3. QED
  BY <1>2 DEF ReportsFit

LEMMA StoreKept ==
  ASSUME Inv, Passes, UNCHANGED store, accepted \subseteq accepted'
  PROVE  StateFits' /\ StoreFits'
<1>1. daily' = daily /\ state' = state /\ torn' = torn /\ Until' = Until
  BY DEF store, Until
<1>2. StateFits'
  BY <1>1 DEF Inv, StateFits, State, Passes
<1>3. StoreFits'
  BY <1>1 DEF Inv, StoreFits
<1>4. QED
  BY <1>2, <1>3

LEMMA EventsKept ==
  ASSUME Inv, Passes,
         \/ events' = events \/ events' = <<>>
         \/ events # <<>> /\ events' = Tail(events)
  PROVE  EventsFit'
<1>1. now \in Nat /\ events \in Seq(Event) /\ \A i \in DOMAIN events : events[i].at <= now
  BY DEF Inv, EventsFit, Happened
<1>2. events' \in Seq(Event)
  <2>1. CASE events' = events
    BY <1>1, <2>1
  <2>2. CASE events' = <<>>
    BY <2>2
  <2>3. CASE events # <<>> /\ events' = Tail(events)
    BY <1>1, <2>3, HeadTailProperties
  <2>4. QED
    BY <2>1, <2>2, <2>3
<1>3. ASSUME NEW i \in DOMAIN events'
      PROVE  \E j \in DOMAIN events : events'[i] = events[j]
  <2>1. CASE events' = events
    BY <2>1
  <2>2. CASE events' = <<>>
    BY <2>2
  <2>3. CASE events # <<>> /\ events' = Tail(events)
    <3>1. i + 1 \in DOMAIN events /\ Tail(events)[i] = events[i + 1]
      BY <1>1, <2>3
    <3>2. QED
      BY <2>3, <3>1
  <2>4. QED
    BY <2>1, <2>2, <2>3
<1>4. \A j \in DOMAIN events : events[j].at \in Nat
  BY <1>1 DEF Event
<1>5. \A i \in DOMAIN events' : events'[i].at <= now'
  BY <1>1, <1>3, <1>4 DEF Passes
<1>6. QED
  BY <1>2, <1>5 DEF EventsFit, Happened

\* A subscriber that falls behind loses the oldest event.
LEMMA Publishes ==
  ASSUME Inv, UNCHANGED now, NEW event \in Event, event.at <= now, Published(event)
  PROVE  EventsFit'
<1> DEFINE kept == IF Len(events) = Capacity THEN Tail(events) ELSE events
<1>1. now \in Nat /\ events \in Seq(Event) /\ \A i \in DOMAIN events : events[i].at <= now
  BY DEF Inv, EventsFit, Happened
<1>2. events # <<>> \/ kept = events
  BY <1>1, TelemetryAssumption
<1>3. kept \in Seq(Event)
  <2>1. events # <<>> => Tail(events) \in Seq(Event)
    BY <1>1, HeadTailProperties
  <2>2. QED
    BY <1>1, <1>2, <2>1
<1>4. \A i \in DOMAIN kept : kept[i].at <= now
  <2>1. CASE kept = events
    BY <1>1, <2>1
  <2>2. CASE kept = Tail(events) /\ events # <<>>
    BY <1>1, <2>2
  <2>3. QED
    BY <1>2, <2>1, <2>2
<1>5. events' = Append(kept, event)
  BY DEF Published
<1> HIDE DEF kept
<1>6. events' \in Seq(Event)
  BY <1>3, <1>5
<1>7. \A i \in DOMAIN events' : events'[i].at <= now
  BY <1>3, <1>4, <1>5
<1>8. QED
  BY <1>6, <1>7 DEF EventsFit, Happened

LEMMA HeadFits ==
  ASSUME Inv, events # <<>>
  PROVE  /\ Head(events) \in Event /\ Head(events).at \in Nat /\ Head(events).at <= now
         /\ Head(events).kind = "Lifecycle" =>
              Head(events).account \in Participant /\ Head(events).active \in BOOLEAN
<1>1. events \in Seq(Event) /\ \A i \in DOMAIN events : events[i].at <= now
  BY DEF Inv, EventsFit, Happened
<1>2. 1 \in DOMAIN events /\ Head(events) = events[1]
  BY <1>1
<1>3. Head(events) \in Event /\ Head(events).at <= now
  BY <1>1, <1>2
<1>4. QED
  BY <1>3 DEF Event

LEMMA WorkerKept ==
  ASSUME Inv, Passes, UNCHANGED worker, accepted \subseteq accepted'
  PROVE  WorkerFits'
BY DEF Inv, WorkerFits, Worker, Passes

\* A worker between two reports.
LEMMA WorkerBetween ==
  ASSUME Inv, Passes, worker' \in Worker, IsFiniteSet(worker'.active),
         worker'.time <= now', worker'.at \notin {"Waiting", "Marking"}
  PROVE  WorkerFits'
BY DEF WorkerFits

LEMMA DownIsWorker ==
  Down \in Worker /\ IsFiniteSet(Down.active) /\ Down.time = 0 /\ Down.at = "Down"
BY FS_EmptySet DEF Down, Worker, Stage, None

LEMMA RestIsWorker ==
  ASSUME Inv
  PROVE  /\ Rest \in Worker /\ IsFiniteSet(Rest.active) /\ Rest.time = 0 /\ Rest.at = "Idle"
<1>1. worker \in Worker /\ IsFiniteSet(worker.active)
  BY DEF Inv, WorkerFits
<1>2. None \in Int
  BY DEF None
<1>3. Rest \in Worker /\ Rest.active = worker.active
  <2>1. "Idle" \in Stage /\ 0 \in Nat /\ 0 \in Int
    BY DEF Stage
  <2>2. Rest \in Worker
    BY <1>1, <1>2, <2>1 DEF Rest, Worker
  <2>3. Rest.active = worker.active
    BY <1>1 DEF Rest, Worker
  <2>4. QED
    BY <2>2, <2>3
<1>4. Rest.time = 0 /\ Rest.at = "Idle"
  BY <1>1 DEF Rest, Worker
<1>5. QED
  BY <1>1, <1>3, <1>4

\* The rows change, but for what they say of reports.
LEMMA StoreMoves ==
  ASSUME Inv, UNCHANGED <<torn, accepted>>, daily' \in Rows,
         \A d \in Days : daily'[d].sent = daily[d].sent,
         torn \/ Settled(daily', Until')
  PROVE  StoreFits'
BY DEF Inv, StoreFits

-----------------------------------------------------------------------------
(* The accounts.                                                           *)

LEMMA TickKeeps == Inv /\ Tick => Inv'
<1> SUFFICES ASSUME Inv, Tick PROVE Inv'
  OBVIOUS
<1>1. Passes /\ now' \in Nat
  BY DEF Inv, Tick, Passes
<1>2. UNCHANGED <<events, worker, submitted, accepted>> /\ UNCHANGED store
  BY DEF Tick, history
<1>3. QED
  BY <1>1, <1>2, StoreKept, EventsKept, WorkerKept, ReportsKept DEF Inv

LEMMA ChangesKeeps ==
  ASSUME Inv, NEW a \in Participant, Changes(a)
  PROVE  Inv'
<1> DEFINE event == [kind |-> "Lifecycle", account |-> a, active |-> a \notin online,
                     at |-> now]
<1>1. now \in Nat /\ now' = now /\ Passes
  BY DEF Inv, Changes, Passes
<1>2. UNCHANGED <<worker, submitted, accepted>> /\ UNCHANGED store
  BY DEF Changes, history
<1>3. EventsFit'
  <2>1. event \in Event /\ event.at <= now
    BY <1>1 DEF Event
  <2>2. Published(event)
    BY DEF Changes
  <2> HIDE DEF event
  <2>3. QED
    BY <1>1, <2>1, <2>2, Publishes
<1>4. QED
  BY <1>1, <1>2, <1>3, StoreKept, WorkerKept, ReportsKept DEF Inv

LEMMA HappensKeeps ==
  ASSUME Inv, NEW kind \in {"Received", "Sent"}, Happens(kind)
  PROVE  Inv'
<1> DEFINE event == [kind |-> kind, at |-> now]
<1>1. now \in Nat /\ now' = now /\ Passes
  BY DEF Inv, Happens, Passes
<1>2. UNCHANGED <<worker, submitted, accepted>> /\ UNCHANGED store
  BY DEF Happens, history
<1>3. EventsFit'
  <2>1. event \in Event /\ event.at <= now
    BY <1>1 DEF Event
  <2>2. Published(event)
    BY DEF Happens
  <2> HIDE DEF event
  <2>3. QED
    BY <1>1, <2>1, <2>2, Publishes
<1>4. QED
  BY <1>1, <1>2, <1>3, StoreKept, WorkerKept, ReportsKept DEF Inv

-----------------------------------------------------------------------------
(* The worker.                                                             *)

\* The interval that was open when the process died counts up to now.
LEMMA OpenKeeps ==
  ASSUME Inv, NEW changed \in BOOLEAN, Open(changed)
  PROVE  Inv'
<1> DEFINE n == IF changed THEN 1 ELSE 0
<1>1. now \in Nat /\ now' = now /\ Passes
  BY DEF Inv, Open, Passes
<1>2. UNCHANGED <<events, submitted, accepted, torn>>
  BY DEF Open, history
<1>3. state' = [accounts |-> 0, since |-> None, last |-> now]
  BY DEF Open
<1>4. StateFits' /\ Until' = now
  BY <1>1, <1>3 DEF StateFits, State, None, Until
<1>5. StoreFits'
  <2>1. daily' = Counted(UpToNow, now, n) /\ n \in Nat
    BY DEF Open
  <2> HIDE DEF n
  <2>2. daily' \in Rows
    BY <2>1, UpToNowSettles, CountedKeeps
  <2>3. \A d \in Days : daily'[d].sent = daily[d].sent /\ daily'[d].active = UpToNow[d].active
    BY <2>1, UpToNowSettles, CountedKeeps
  <2>4. torn \/ Settled(daily', now)
    BY <2>3, UpToNowSettles DEF Settled
  <2>5. QED
    BY <1>2, <1>4, <2>2, <2>3, <2>4, StoreMoves
<1>6. WorkerFits'
  <2>1. worker' = [Down EXCEPT !.at = "Idle"]
    BY DEF Open
  <2>2. worker' \in Worker /\ worker'.active = Down.active /\ worker'.time = 0
        /\ worker'.at = "Idle"
    BY <2>1, DownIsWorker DEF Worker, Stage
  <2>3. QED
    BY <1>1, <2>2, DownIsWorker, WorkerBetween
<1>7. QED
  BY <1>1, <1>2, <1>4, <1>5, <1>6, EventsKept, ReportsKept DEF Inv

LEMMA RecordCountKeeps == Inv /\ RecordCount => Inv'
<1> SUFFICES ASSUME Inv, RecordCount PROVE Inv'
  OBVIOUS
<1>1. now \in Nat /\ now' = now /\ Passes
  BY DEF Inv, RecordCount, Passes
<1>2. UNCHANGED <<state, worker, submitted, accepted, torn>>
  BY DEF RecordCount, history
<1>3. events # <<>> /\ events' = Tail(events)
  BY DEF RecordCount, Take
<1>4. PICK time : daily' = Counted(daily, time, 1)
  BY DEF RecordCount
<1>5. StateFits' /\ Until' = Until
  BY <1>1, <1>2 DEF Inv, StateFits, Until
<1>6. StoreFits'
  <2>1. daily \in Rows /\ (torn \/ Settled(daily, Until))
    BY DEF Inv, StoreFits
  <2>2. /\ daily' \in Rows
        /\ \A d \in Days : daily'[d].sent = daily[d].sent /\ daily'[d].active = daily[d].active
    BY <1>4, <2>1, CountedKeeps
  <2>3. torn \/ Settled(daily', Until)
    BY <2>1, <2>2 DEF Settled
  <2>4. QED
    BY <1>2, <1>5, <2>2, <2>3, StoreMoves
<1>7. QED
  BY <1>1, <1>2, <1>3, <1>5, <1>6, EventsKept, WorkerKept, ReportsKept DEF Inv

\* An account comes or goes, no earlier than the last statement.
LEMMA SetActiveKeeps ==
  ASSUME Inv, UNCHANGED <<now, torn, accepted>>, NEW time \in Nat, time <= now,
         NEW active \in BOOLEAN, ~Refused(time, active), SetActive(time, active)
  PROVE  StateFits' /\ StoreFits'
<1> DEFINE next == IF active THEN state.accounts + 1 ELSE state.accounts - 1
<1>1. /\ state.accounts \in Nat /\ state.since \in Int /\ state.last \in Nat
      /\ now \in Nat /\ state.last <= now
      /\ state.accounts > 0 => 0 <= state.since /\ state.since <= state.last
  BY DEF Inv, StateFits, State
<1>2. state.last <= time /\ (active \/ state.accounts > 0)
  BY <1>1 DEF Refused
<1>3. next \in Nat /\ (active => next > 0)
  BY <1>1, <1>2
<1>4. /\ daily' = IF next = 0 THEN WithInterval(daily, state.since, time) ELSE daily
      /\ state' = [accounts |-> next, last |-> time,
                   since |-> IF active /\ state.accounts = 0 THEN time
                             ELSE IF next = 0 THEN None ELSE state.since]
  BY DEF SetActive
<1>5. daily \in Rows /\ (torn \/ Settled(daily, Until))
  BY DEF Inv, StoreFits
<1>6. CASE next = 0
  <2>1. ~active /\ state.accounts > 0
    BY <1>1, <1>2, <1>3, <1>6
  <2> HIDE DEF next
  <2>2. state' = [accounts |-> 0, last |-> time, since |-> None]
    BY <1>4, <1>6, <2>1
  <2>3. daily' = WithInterval(daily, state.since, time)
    BY <1>4, <1>6
  <2>4. StateFits' /\ Until' = time
    BY <1>1, <2>2 DEF StateFits, State, None, Until
  <2>5. QED
    BY <1>2, <2>1, <2>3, <2>4, IntervalToTime, StoreMoves
<1>7. CASE next > 0 /\ active /\ state.accounts = 0
  <2> HIDE DEF next
  <2>1. state' = [accounts |-> next, last |-> time, since |-> time] /\ daily' = daily
    BY <1>4, <1>7
  <2>2. StateFits' /\ Until' = time
    BY <1>1, <1>3, <1>7, <2>1 DEF StateFits, State, Until
  <2>3. torn \/ Settled(daily, time)
    BY <1>2, <1>5, UntilFits, TimeSettles
  <2>4. QED
    BY <1>5, <2>1, <2>2, <2>3, StoreMoves
<1>8. CASE next > 0 /\ ~(active /\ state.accounts = 0)
  <2>1. state.accounts > 0
    BY <1>1, <1>2, <1>8
  <2> HIDE DEF next
  <2>2. state' = [accounts |-> next, last |-> time, since |-> state.since] /\ daily' = daily
    BY <1>3, <1>4, <1>8
  <2>3. StateFits'
    BY <1>1, <1>2, <1>3, <2>1, <2>2 DEF StateFits, State
  <2>4. Until' = Until
    BY <1>3, <1>8, <2>1, <2>2 DEF Until
  <2>5. QED
    BY <1>5, <2>2, <2>3, <2>4, StoreMoves
<1>9. QED
  <2> HIDE DEF next
  <2>1. next = 0 \/ next > 0
    BY <1>3
  <2>2. QED
    BY <1>6, <1>7, <1>8, <2>1

LEMMA RecordLifecycleKeeps == Inv /\ RecordLifecycle => Inv'
<1> SUFFICES ASSUME Inv, RecordLifecycle PROVE Inv'
  OBVIOUS
<1> DEFINE event == Head(events)
           active == IF event.active THEN worker.active \union {event.account}
                     ELSE worker.active \ {event.account}
<1>1. now \in Nat /\ now' = now /\ Passes
  BY DEF Inv, RecordLifecycle, Passes
<1>2. UNCHANGED <<submitted, accepted, torn>>
  BY DEF RecordLifecycle, history
<1>3. events # <<>> /\ events' = Tail(events) /\ event.kind = "Lifecycle"
  BY DEF RecordLifecycle, Take
<1>4. /\ event.account \in Participant /\ event.active \in BOOLEAN
      /\ event.at \in Nat /\ event.at <= now
  BY <1>3, HeadFits
<1>5. /\ worker.at = "Idle" /\ worker' = [worker EXCEPT !.active = active]
      /\ IF active = worker.active \/ Refused(event.at, event.active)
         THEN UNCHANGED <<daily, state>>
         ELSE SetActive(event.at, event.active)
  BY DEF RecordLifecycle, Take
<1> HIDE DEF event
<1>6. StateFits' /\ StoreFits'
  <2>1. CASE UNCHANGED <<daily, state>>
    BY <1>1, <1>2, <2>1, StoreKept DEF store
  <2>2. CASE SetActive(event.at, event.active) /\ ~Refused(event.at, event.active)
    BY <1>1, <1>2, <1>4, <2>2, SetActiveKeeps
  <2> HIDE DEF active
  <2>3. QED
    BY <1>5, <2>1, <2>2
<1>7. WorkerFits'
  <2>1. worker \in Worker /\ IsFiniteSet(worker.active) /\ worker.time <= now
    BY DEF Inv, WorkerFits
  <2>2. active \subseteq Participant /\ IsFiniteSet(active)
    <3>1. worker.active \subseteq Participant
      BY <2>1 DEF Worker
    <3>2. IsFiniteSet(worker.active \union {event.account})
      BY <2>1, FS_AddElement
    <3>3. IsFiniteSet(worker.active \ {event.account})
      BY <2>1, FS_RemoveElement
    <3>4. QED
      BY <1>4, <3>1, <3>2, <3>3
  <2> HIDE DEF active
  <2>3. /\ worker' \in Worker /\ worker'.active = active /\ worker'.time = worker.time
        /\ worker'.at = "Idle"
    BY <1>5, <2>1, <2>2 DEF Worker
  <2>4. QED
    BY <1>1, <2>1, <2>2, <2>3, WorkerBetween
<1>8. QED
  BY <1>1, <1>2, <1>3, <1>6, <1>7, EventsKept, ReportsKept DEF Inv

LEMMA FlushKeeps == Inv /\ Flush => Inv'
<1> SUFFICES ASSUME Inv, Flush PROVE Inv'
  OBVIOUS
<1>1. now \in Nat /\ now' = now /\ Passes
  BY DEF Inv, Flush, Passes
<1>2. UNCHANGED <<events, submitted, accepted, torn>>
  BY DEF Flush, history
<1>3. daily' = UpToNow /\ state' = Checkpointed(now)
  BY DEF Flush
<1>4. StateFits' /\ Until' = now
  <2>1. state \in State
    BY DEF Inv, StateFits
  <2>2. None \in Int
    BY DEF None
  <2>3. /\ state' \in State /\ state'.accounts = state.accounts /\ state'.last = now
        /\ state'.since = IF state.accounts > 0 THEN now ELSE None
    <3> DEFINE since == IF state.accounts > 0 THEN now ELSE None
    <3>1. since \in Int
      BY <1>1, <2>2
    <3>2. state' = [state EXCEPT !.last = now, !.since = since]
      BY <1>3 DEF Checkpointed
    <3> HIDE DEF since
    <3>3. state' \in State
      BY <1>1, <2>1, <3>1, <3>2 DEF State
    <3>4. /\ state'.accounts = state.accounts /\ state'.last = now
          /\ state'.since = since
      BY <2>1, <3>2 DEF State
    <3>5. QED
      BY <3>3, <3>4 DEF since
  <2>4. QED
    BY <1>1, <2>3 DEF StateFits, Until
<1>5. StoreFits'
  BY <1>2, <1>3, <1>4, UpToNowSettles, StoreMoves
<1>6. WorkerFits'
  <2>1. worker \in Worker /\ IsFiniteSet(worker.active)
    BY DEF Inv, WorkerFits
  <2>2. worker' = [worker EXCEPT !.at = "Flushing", !.time = now, !.left = MaxReports]
    BY DEF Flush
  <2>3. "Flushing" \in Stage /\ MaxReports \in Int
    BY TelemetryAssumption DEF Stage
  <2>4. worker' \in Worker
    BY <1>1, <2>1, <2>2, <2>3 DEF Worker
  <2>5. worker'.active = worker.active /\ worker'.time = now /\ worker'.at = "Flushing"
    BY <2>1, <2>2 DEF Worker
  <2>6. QED
    BY <1>1, <2>1, <2>4, <2>5, WorkerBetween
<1>7. QED
  BY <1>1, <1>2, <1>4, <1>5, <1>6, EventsKept, ReportsKept DEF Inv

\* The day that is obtained was over when the flush began.
LEMMA SubmitKeeps == Inv /\ Submit => Inv'
<1> SUFFICES ASSUME Inv, Submit PROVE Inv'
  OBVIOUS
<1> DEFINE day == Min(Pending(worker.time))
<1>1. now \in Nat /\ now' = now /\ Passes
  BY DEF Inv, Submit, Passes
<1>2. UNCHANGED <<events, accepted>> /\ UNCHANGED store
  BY DEF Submit
<1>3. /\ worker' = [worker EXCEPT !.at = "Waiting", !.day = day]
      /\ submitted' = submitted \union {Report(day)}
      /\ Pending(worker.time) # {}
  BY DEF Submit
<1>4. worker \in Worker /\ IsFiniteSet(worker.active) /\ worker.time <= now
  BY DEF Inv, WorkerFits
<1>5. day \in Days /\ day \in Nat /\ day < DayOf(worker.time)
  <2>1. Pending(worker.time) \subseteq Days
    BY DEF Pending
  <2>2. day \in Pending(worker.time)
    BY <1>3, <2>1, FirstDay
  <2>3. QED
    BY <2>2, DaysAreNaturals DEF Pending
<1> HIDE DEF day
<1>6. worker.time \in Nat /\ DayOf(worker.time) \in Nat /\ DayOf(now) \in Nat
      /\ DayOf(worker.time) <= DayOf(now)
  <2>1. worker.time \in Nat
    BY <1>4 DEF Worker
  <2>2. QED
    BY <1>1, <1>4, <2>1, DayFacts, DayMonotone
<1>7. ReportsFit'
  <2>1. Report(day).day = day /\ day < DayOf(now)
    BY <1>5, <1>6 DEF Report
  <2>2. \A r \in submitted : r.day \in Days /\ r.day < DayOf(now)
    BY DEF Inv, ReportsFit
  <2>3. QED
    BY <1>1, <1>3, <1>5, <2>1, <2>2 DEF ReportsFit
<1>8. WorkerFits'
  <2>1. "Waiting" \in Stage /\ day \in Int
    BY <1>5 DEF Stage
  <2>2. worker' \in Worker
    BY <1>3, <1>4, <2>1 DEF Worker
  <2>3. /\ worker'.active = worker.active /\ worker'.time = worker.time
        /\ worker'.at = "Waiting" /\ worker'.day = day
    BY <1>3, <1>4 DEF Worker
  <2>4. QED
    BY <1>1, <1>4, <1>5, <2>2, <2>3 DEF WorkerFits
<1>9. QED
  BY <1>1, <1>2, <1>7, <1>8, EventsKept, StoreKept DEF Inv

LEMMA FlushEndsKeeps == Inv /\ FlushEnds => Inv'
<1> SUFFICES ASSUME Inv, FlushEnds PROVE Inv'
  OBVIOUS
<1>1. now \in Nat /\ now' = now /\ Passes
  BY DEF Inv, FlushEnds, Passes
<1>2. UNCHANGED <<events, submitted, accepted>> /\ UNCHANGED store /\ worker' = Rest
  BY DEF FlushEnds, history
<1>3. WorkerFits'
  BY <1>1, <1>2, RestIsWorker, WorkerBetween
<1>4. QED
  BY <1>1, <1>2, <1>3, EventsKept, StoreKept, ReportsKept DEF Inv

LEMMA AnswerKeeps ==
  ASSUME Inv, NEW accepts \in BOOLEAN, NEW heard \in BOOLEAN, Answer(accepts, heard)
  PROVE  Inv'
<1>1. now \in Nat /\ now' = now /\ Passes
  BY DEF Inv, Answer, Passes
<1>2. UNCHANGED <<events, submitted>> /\ UNCHANGED store /\ accepted \subseteq accepted'
  BY DEF Answer
<1>3. WorkerFits'
  <2>1. CASE accepts /\ heard
    <3>1. /\ worker \in Worker /\ IsFiniteSet(worker.active) /\ worker.time <= now
          /\ worker.day \in Days /\ worker.day < DayOf(worker.time)
      BY DEF Inv, WorkerFits, Answer
    <3>2. worker' = [worker EXCEPT !.at = "Marking"] /\ worker.day \in accepted'
      BY <2>1 DEF Answer
    <3>3. "Marking" \in Stage
      BY DEF Stage
    <3>4. worker' \in Worker
      BY <3>1, <3>2, <3>3 DEF Worker
    <3>5. /\ worker'.active = worker.active /\ worker'.time = worker.time
          /\ worker'.day = worker.day
      BY <3>1, <3>2 DEF Worker
    <3>6. QED
      BY <1>1, <3>1, <3>2, <3>4, <3>5 DEF WorkerFits
  <2>2. CASE ~(accepts /\ heard)
    <3>1. worker' = Rest
      BY <2>2 DEF Answer
    <3>2. QED
      BY <1>1, <3>1, RestIsWorker, WorkerBetween
  <2>3. QED
    BY <2>1, <2>2
<1>4. QED
  BY <1>1, <1>2, <1>3, EventsKept, StoreKept, ReportsKept DEF Inv

\* A day is marked whose report Ceylith has accepted.
LEMMA MarkKeeps == Inv /\ Mark => Inv'
<1> SUFFICES ASSUME Inv, Mark PROVE Inv'
  OBVIOUS
<1>1. now \in Nat /\ now' = now /\ Passes
  BY DEF Inv, Mark, Passes
<1>2. UNCHANGED <<events, state, submitted, accepted, torn>>
  BY DEF Mark, history
<1>3. StateFits' /\ Until' = Until
  BY <1>1, <1>2 DEF Inv, StateFits, Until
<1>4. CASE ~Markable(worker.day, worker.time)
  <2>1. worker' = Rest /\ daily' = daily
    BY <1>4 DEF Mark
  <2>2. UNCHANGED store
    BY <1>2, <2>1 DEF store
  <2>3. QED
    BY <1>1, <1>2, <2>1, <2>2, RestIsWorker, WorkerBetween, EventsKept, StoreKept, ReportsKept
    DEF Inv
<1>5. CASE Markable(worker.day, worker.time)
  <2>1. /\ daily' = [daily EXCEPT ![worker.day].sent = TRUE]
        /\ worker' = [worker EXCEPT !.at = "Flushing", !.left = @ - 1, !.day = None]
    BY <1>5 DEF Mark
  <2>2. /\ worker \in Worker /\ IsFiniteSet(worker.active) /\ worker.time <= now
        /\ worker.day \in Days /\ worker.day \in accepted
    BY DEF Inv, WorkerFits, Mark
  <2>3. StoreFits'
    <3>1. /\ daily \in Rows /\ (torn \/ Settled(daily, Until))
          /\ \A d \in Days : daily[d].sent => d \in accepted
      BY DEF Inv, StoreFits
    <3>2. \A d \in Days : daily[d] \in Row
      BY <3>1 DEF Rows
    <3>3. daily' \in Rows
      BY <2>1, <2>2, <3>1, <3>2 DEF Rows, Row
    <3>4. ASSUME NEW d \in Days
          PROVE  /\ daily'[d].active = daily[d].active
                 /\ daily'[d].sent => d \in accepted
      <4>1. CASE d = worker.day
        BY <2>1, <2>2, <3>1, <3>2, <4>1 DEF Rows, Row
      <4>2. CASE d # worker.day
        BY <2>1, <2>2, <3>1, <4>2 DEF Rows
      <4>3. QED
        BY <4>1, <4>2
    <3>5. torn \/ Settled(daily', Until)
      BY <3>1, <3>4 DEF Settled
    <3>6. QED
      BY <1>2, <1>3, <3>3, <3>4, <3>5 DEF StoreFits
  <2>4. WorkerFits'
    <3>1. "Flushing" \in Stage /\ worker.left - 1 \in Int /\ None \in Int
      BY <2>2 DEF Stage, Worker, None
    <3>2. worker' \in Worker
      BY <2>1, <2>2, <3>1 DEF Worker
    <3>3. /\ worker'.active = worker.active /\ worker'.time = worker.time
          /\ worker'.at = "Flushing"
      BY <2>1, <2>2 DEF Worker
    <3>4. QED
      BY <1>1, <2>2, <3>2, <3>3, WorkerBetween
  <2>5. QED
    BY <1>1, <1>2, <1>3, <2>3, <2>4, EventsKept, ReportsKept DEF Inv
<1>6. QED
  BY <1>4, <1>5

-----------------------------------------------------------------------------
(* The end of the process.                                                 *)

LEMMA ShutdownKeeps == Inv /\ Shutdown => Inv'
<1> SUFFICES ASSUME Inv, Shutdown PROVE Inv'
  OBVIOUS
<1> DEFINE known == Cardinality(worker.active)
           next == Max({0, state.accounts - known})
<1>1. now \in Nat /\ now' = now /\ Passes
  BY DEF Inv, Shutdown, Passes
<1>2. UNCHANGED <<submitted, accepted, torn>> /\ worker' = Down /\ events' = <<>>
  BY DEF Shutdown, history
<1>3. /\ state.accounts \in Nat /\ state.since \in Int /\ state.last \in Nat
      /\ state.last <= now
      /\ state.accounts > 0 => 0 <= state.since /\ state.since <= state.last
  BY DEF Inv, StateFits, State
<1>4. next \in Nat /\ next <= state.accounts
  <2>1. known \in Nat
    BY FS_CardinalityType DEF Inv, WorkerFits
  <2> HIDE DEF known
  <2>2. state.accounts - known \in Int /\ 0 \in Int
    BY <1>3, <2>1
  <2>3. QED
    BY <1>3, <2>1, <2>2, MaxOfPair
<1>5. \/ UNCHANGED <<daily, state>>
      \/ /\ state.accounts > 0
         /\ daily' = IF next = 0 THEN UpToNow ELSE daily
         /\ state' = [accounts |-> next, last |-> now,
                      since |-> IF next = 0 THEN None ELSE state.since]
  BY <1>3 DEF Shutdown
<1> HIDE DEF next
<1>6. StateFits' /\ StoreFits'
  <2>1. CASE UNCHANGED <<daily, state>>
    BY <1>1, <1>2, <2>1, StoreKept DEF store
  <2>2. CASE /\ next = 0 /\ daily' = UpToNow
             /\ state' = [accounts |-> 0, last |-> now, since |-> None]
    <3>1. StateFits' /\ Until' = now
      BY <1>1, <2>2 DEF StateFits, State, None, Until
    <3>2. QED
      BY <1>2, <2>2, <3>1, UpToNowSettles, StoreMoves
  <2>3. CASE /\ next > 0 /\ state.accounts > 0 /\ daily' = daily
             /\ state' = [accounts |-> next, last |-> now, since |-> state.since]
    <3>1. StateFits'
      BY <1>1, <1>3, <1>4, <2>3 DEF StateFits, State
    <3>2. Until' = Until
      BY <2>3 DEF Until
    <3>3. daily \in Rows /\ (torn \/ Settled(daily, Until))
      BY DEF Inv, StoreFits
    <3>4. QED
      BY <1>2, <2>3, <3>1, <3>2, <3>3, StoreMoves
  <2>4. QED
    BY <1>4, <1>5, <2>1, <2>2, <2>3
<1>7. WorkerFits'
  BY <1>1, <1>2, DownIsWorker, WorkerBetween
<1>8. QED
  BY <1>1, <1>2, <1>6, <1>7, EventsKept, ReportsKept DEF Inv

LEMMA CrashKeeps == Inv /\ WorkerCrashes => Inv'
<1> SUFFICES ASSUME Inv, WorkerCrashes PROVE Inv'
  OBVIOUS
<1>1. now \in Nat /\ now' = now /\ Passes
  BY DEF Inv, WorkerCrashes, Passes
<1>2. UNCHANGED <<submitted, accepted>> /\ UNCHANGED store /\ worker' = Down /\ events' = <<>>
  BY DEF WorkerCrashes, Dies, history
<1>3. WorkerFits'
  BY <1>1, <1>2, DownIsWorker, WorkerBetween
<1>4. QED
  BY <1>1, <1>2, <1>3, EventsKept, StoreKept, ReportsKept DEF Inv

LEMMA CrashBetweenKeeps ==
  ASSUME Inv, NEW until \in 0..now, NEW d \in Days, CrashBetween(until, d)
  PROVE  Inv'
<1>1. now \in Nat /\ now' = now /\ Passes
  BY DEF Inv, CrashBetween, Passes
<1>2. /\ UNCHANGED <<state, submitted, accepted>> /\ torn' = TRUE
      /\ worker' = Down /\ events' = <<>>
  BY DEF CrashBetween, Dies, history
<1>3. WorkerFits'
  BY <1>1, <1>2, DownIsWorker, WorkerBetween
<1>4. StateFits'
  BY <1>1, <1>2 DEF Inv, StateFits
<1>5. StoreFits'
  <2> DEFINE counted == WithInterval(daily, state.since, until)
  <2>1. daily' = [e \in Days |-> IF e <= d THEN counted[e] ELSE daily[e]]
    BY DEF CrashBetween
  <2>2. /\ daily \in Rows /\ counted \in Rows
        /\ \A e \in Days : counted[e].sent = daily[e].sent
        /\ \A e \in Days : daily[e].sent => e \in accepted
    <3>1. until \in Nat /\ state.last <= until /\ state.accounts > 0
      BY <1>1, UntilFits DEF CrashBetween
    <3>2. QED
      BY <3>1, IntervalToTime DEF Inv, StoreFits
  <2> HIDE DEF counted
  <2>3. daily' \in Rows
    BY <2>1, <2>2 DEF Rows
  <2>4. \A e \in Days : daily'[e].sent = daily[e].sent
    BY <2>1, <2>2
  <2>5. QED
    BY <1>2, <2>2, <2>3, <2>4 DEF StoreFits
<1>6. QED
  BY <1>1, <1>2, <1>3, <1>4, <1>5, EventsKept, ReportsKept DEF Inv

-----------------------------------------------------------------------------
LEMMA NextInv == Inv /\ [TelemetryNext]_telemetryVars => Inv'
<1> SUFFICES ASSUME Inv, [TelemetryNext]_telemetryVars PROVE Inv'
  OBVIOUS
<1>1. CASE Tick
  BY <1>1, TickKeeps
<1>2. CASE \E a \in Participant : Changes(a)
  BY <1>2, ChangesKeeps
<1>3. CASE \E kind \in {"Received", "Sent"} : Happens(kind)
  BY <1>3, HappensKeeps
<1>4. CASE WorkerStep
  BY <1>4, OpenKeeps, RecordCountKeeps, RecordLifecycleKeeps, FlushKeeps, SubmitKeeps,
     FlushEndsKeeps, MarkKeeps
  DEF WorkerStep
<1>5. CASE \E accepts, heard \in BOOLEAN : Answer(accepts, heard)
  BY <1>5, AnswerKeeps
<1>6. CASE Shutdown
  BY <1>6, ShutdownKeeps
<1>7. CASE WorkerCrashes
  BY <1>7, CrashKeeps
<1>8. CASE \E until \in 0..now, d \in Days : CrashBetween(until, d)
  BY <1>8, CrashBetweenKeeps
<1>9. CASE UNCHANGED telemetryVars
  <2>1. UNCHANGED <<now, events, worker, submitted, accepted>> /\ UNCHANGED store
    BY <1>9 DEF telemetryVars, history
  <2>2. now \in Nat /\ Passes
    BY <2>1 DEF Inv, Passes
  <2>3. QED
    BY <2>1, <2>2, EventsKept, StoreKept, WorkerKept, ReportsKept DEF Inv
<1>10. QED
  BY <1>1, <1>2, <1>3, <1>4, <1>5, <1>6, <1>7, <1>8, <1>9 DEF TelemetryNext

\* Only days that are over are reported, only accepted reports are marked, and
\* no moment is counted twice unless the process died between two statements:
\* what add_active_interval, obtain and mark_sent of community-telemetry and the
\* worker of telemetry.rs do together.
THEOREM ReportsAreSoundCorrect == TelemetrySpec => []ReportsAreSound
<1>1. TelemetryInit => Inv
  BY InitInv
<1>2. Inv /\ [TelemetryNext]_telemetryVars => Inv'
  BY NextInv
<1>3. Inv => ReportsAreSound
  BY InvSound
<1>4. QED
  BY <1>1, <1>2, <1>3, PTL DEF TelemetrySpec
==============================================================================
