------------------------ MODULE AccountDaemonProofs ------------------------
(***************************************************************************)
(* Proofs about AccountDaemon, for every installation, every admission,    *)
(* every set of Watch events, every clock and any number of runs.          *)
(*                                                                         *)
(* None of the properties is inductive by itself: that a stream matches    *)
(* its row depends on what is queued at the actor, what is recorded at the *)
(* end depends on the result that the flow left and on the directive that  *)
(* was read when the transition was asked for.  Inv relates, account by    *)
(* account, the stage of the task, the queue, the row, the result and the  *)
(* directive, and these to the plan and to the history of realms.          *)
(***************************************************************************)
EXTENDS AccountDaemon, FiniteSetTheorems, TLAPS

\* The reasons that only the loss of the grant may record.
GrantReason == {"GrantUnavailable", "ProfileUnavailable", "CeylithContinuity"}

\* The last command in the queue of an actor.
Newest(q) == q[Len(q)]

\* What the actor still has to do at each stage of the task.
QueueMatchesTask(a) ==
  /\ task[a] \in {"None", "Opened", "Login", "Online", "Done", "Joined"} =>
       Len(queue[a]) = 0
  /\ task[a] = "Activating" => Len(queue[a]) = 1
  /\ task[a] = "Ended" => Len(queue[a]) \in {0, 1}
  /\ task[a] = "Recording" =>
       /\ Len(queue[a]) \in {1, 2}
       /\ Newest(queue[a]).next \in {"Stopped", "ProtectiveOffline"}

\* The commands before the terminal one are the request to record Active.
Pending(a) ==
  \/ task[a] \in {"Activating", "Ended"} /\ Len(queue[a]) = 1
  \/ task[a] = "Recording" /\ Len(queue[a]) = 2

\* The row while the task has not ended, and when it has.
RowMatchesTask(a) ==
  /\ Pending(a) => queue[a][1].next = "Active"
  /\ task[a] \in {"Login", "Activating"} \/ Pending(a) => row[a].phase = "Starting"
  /\ task[a] = "Online" => row[a].phase = "Active"
  /\ task[a] \in {"Ended", "Recording"} => row[a].phase \in {"Starting", "Active"}

\* How a task ends follows from its result.
EndMatchesResult(a) ==
  /\ task[a] = "Recording" /\ outcome[a] = "Ok" => Newest(queue[a]).next = "Stopped"
  /\ task[a] \in {"Done", "Joined"} /\ outcome[a] = "Ok" => row[a].phase = "Stopped"
  /\ task[a] = "Joined" /\ ~failed => outcome[a] = "Ok"

\* The realms of the generations so far.
RealmsMatch(a) ==
  /\ StreamOpen(a) => <<a, row[a].generation, plan.realm[a]>> \in ran
  /\ \A g \in 0 .. MaxStored, r \in Realm :
       <<a, g, r>> \in ran => g <= row[a].generation
  /\ \A g \in 0 .. MaxStored, r, s \in Realm :
       <<a, g, r>> \in ran /\ <<a, g, s>> \in ran => r = s

\* An account told to go offline while its stream was open goes offline.
RevokedEnds(a) ==
  a \in revoked =>
    /\ task[a] \notin {"None", "Opened"}
    /\ directive[a] \in ProtectiveReason
    /\ task[a] = "Recording" /\ outcome[a] = "Err" =>
         Newest(queue[a]).next = "ProtectiveOffline"
    /\ task[a] \in {"Done", "Joined"} =>
         row[a].phase # "Stopped" \/ outcome[a] = "Ok"

\* Only accounts on the grant are told, and record, that it is lost.
GrantOnly(a) ==
  /\ directive[a] \in GrantReason => a \in FullAccounts(plan)
  /\ \A i \in DOMAIN queue[a] :
       queue[a][i].reason \in GrantReason => a \in FullAccounts(plan)

\* Without the Watch no account on the grant starts or goes on untold.
Closed(a) ==
  daemon # "Down" /\ ~watch /\ a \in FullAccounts(plan) =>
    /\ daemon # "Booting"
    /\ StreamOpen(a) => directive[a] # "Running"

Sound(a) ==
  /\ QueueMatchesTask(a)
  /\ RowMatchesTask(a)
  /\ EndMatchesResult(a)
  /\ RealmsMatch(a)
  /\ RevokedEnds(a)
  /\ GrantOnly(a)
  /\ Closed(a)

\* Between two runs nothing is left but the rows; a run has a plan and no exit.
DaemonMatches ==
  /\ daemon = "Down" =>
       /\ \A a \in Account : task[a] = "None" /\ directive[a] = "Running"
       /\ revoked = {}
  /\ daemon # "Down" =>
       /\ plan.ok
       /\ plan.realm \in [Account -> Realm]
       /\ exit = "None"
  /\ CleanExitMeansStopped

Inv ==
  /\ TypeOK
  /\ DaemonMatches
  /\ \A a \in Account : Sound(a)

-----------------------------------------------------------------------------
(* Plans                                                                   *)

\* A plan of the planner gives every account of the installation a realm.
LEMMA PlanShape ==
  ASSUME NEW grant \in Admissions,
         PlanGrants(Installed, Availability(grant)).ok
  PROVE  PlanGrants(Installed, Availability(grant)).realm \in [Account -> Realm]
<1> DEFINE planned == PlanGrants(Installed, Availability(grant))
<1>1. Accounts(Installed) = Account
  BY InstallationAssumption DEF InstallationIsSound
<1>2. Candidates(Installed) \subseteq Account
  BY <1>1 DEF Candidates, Asking, Accounts
<1>3. \/ planned = Planned({}, Accounts(Installed),
                           Asking(Installed, {"AllowPublicFallback"}))
      \/ planned = PlanWithFull(Installed)
  BY DEF PlanGrants, PlanPublicOnly, PlanUnderGrant, Rejected
<1>4. CASE planned = Planned({}, Accounts(Installed),
                            Asking(Installed, {"AllowPublicFallback"}))
  BY <1>1, <1>4 DEF Planned, Realm
<1>5. CASE planned = PlanWithFull(Installed)
  <2>1. planned.realm = [a \in Candidates(Installed) \union
                               (Accounts(Installed) \ Candidates(Installed)) |->
                           IF a \in Candidates(Installed) THEN "Full" ELSE "Public"]
    BY <1>5 DEF PlanWithFull, Planned
  <2>2. Candidates(Installed) \union (Accounts(Installed) \ Candidates(Installed))
          = Account
    BY <1>1, <1>2
  <2>3. QED
    BY <2>1, <2>2 DEF Realm
<1>6. QED
  BY <1>3, <1>4, <1>5

\* A plan without accounts on the grant, whatever is asked of it.
LEMMA FullAccountsType ==
  ASSUME plan.realm \in [Account -> Realm]
  PROVE  FullAccounts(plan) \subseteq Account
  BY DEF FullAccounts

\* An event either leaves an account alone or names the reason to stop it.
LEMMA ClassifyType ==
  ASSUME NEW event, NEW a, Classify(event, a, plan) # Continue
  PROVE  Classify(event, a, plan) \in GrantReason
  BY DEF Classify, GrantReason

-----------------------------------------------------------------------------
(* Steps that concern one account, or none                                 *)

\* Nothing that Sound(a) speaks of changes.
LEMMA Undisturbed ==
  ASSUME NEW a \in Account, Sound(a),
         row'[a] = row[a], queue'[a] = queue[a], task'[a] = task[a],
         outcome'[a] = outcome[a], directive'[a] = directive[a],
         UNCHANGED <<plan, watch>>, failed => failed',
         daemon' # "Down" => daemon # "Down", daemon' = "Booting" => daemon = "Booting",
         \A g \in 0 .. MaxStored, r \in Realm :
           <<a, g, r>> \in ran' <=> <<a, g, r>> \in ran,
         plan.realm[a] \in Realm \/ ~StreamOpen(a), row[a] \in Row,
         a \in revoked' <=> a \in revoked
  PROVE  Sound(a)'
<1>1. QueueMatchesTask(a)' /\ RowMatchesTask(a)'
  BY DEF Sound, QueueMatchesTask, RowMatchesTask, Pending, Newest
<1>2. EndMatchesResult(a)'
  BY DEF Sound, EndMatchesResult, Newest
<1>3. RealmsMatch(a)'
  BY DEF Sound, RealmsMatch, StreamOpen, Row
<1>4. RevokedEnds(a)'
  BY DEF Sound, RevokedEnds, Newest
<1>5. GrantOnly(a)' /\ Closed(a)'
  BY DEF Sound, GrantOnly, Closed, StreamOpen
<1>6. QED
  BY <1>1, <1>2, <1>3, <1>4, <1>5 DEF Sound

\* A run that is over leaves the rows and nothing else.
LEMMA GoneInv ==
  ASSUME Inv, NEW how \in {"Err", "Crash", "Stopped", "Restart"}, Gone(how),
         UNCHANGED durable,
         how \in {"Stopped", "Restart"} => \A a \in Account : row[a].phase = "Stopped"
  PROVE  Inv'
<1>1. TypeOK'
  <2>1. queue' \in [Account -> Seq(Asked)] /\ \A a \in Account : Len(queue'[a]) = 0
    BY DEF Gone
  <2>2. {watch', restart', armed', signalled', failed'} \subseteq BOOLEAN
    BY DEF Gone
  <2>3. QED
    BY <2>1, <2>2 DEF Inv, TypeOK, Gone, durable, NoPlan, Directive
<1>2. DaemonMatches'
  BY DEF Inv, DaemonMatches, CleanExitMeansStopped, Gone, durable
<1>3. ASSUME NEW a \in Account PROVE Sound(a)'
  <2>1. task'[a] = "None" /\ queue'[a] = <<>> /\ directive'[a] = "Running"
    BY DEF Gone
  <2>2. QueueMatchesTask(a)' /\ RowMatchesTask(a)' /\ EndMatchesResult(a)'
    BY <2>1 DEF QueueMatchesTask, RowMatchesTask, Pending, EndMatchesResult
  <2>3. RealmsMatch(a)'
    BY <2>1 DEF Inv, Sound, RealmsMatch, StreamOpen, Live, durable
  <2>4. RevokedEnds(a)' /\ GrantOnly(a)' /\ Closed(a)'
    BY <2>1 DEF RevokedEnds, GrantOnly, GrantReason, Closed, Gone
  <2>5. QED
    BY <2>2, <2>3, <2>4 DEF Sound
<1>4. QED
  BY <1>1, <1>2, <1>3 DEF Inv

\* Only the account a takes part in the step.
LEMMA OneAccount ==
  ASSUME Inv, TypeOK', DaemonMatches', NEW a \in Account, Sound(a)',
         UNCHANGED <<plan, watch>>, failed => failed',
         daemon' # "Down" => daemon # "Down", daemon' = "Booting" => daemon = "Booting",
         \A b \in Account \ {a} :
           /\ row'[b] = row[b] /\ queue'[b] = queue[b] /\ task'[b] = task[b]
           /\ outcome'[b] = outcome[b] /\ directive'[b] = directive[b]
           /\ b \in revoked' <=> b \in revoked
           /\ \A g \in 0 .. MaxStored, r \in Realm :
                <<b, g, r>> \in ran' <=> <<b, g, r>> \in ran
  PROVE  Inv'
<1>1. ASSUME NEW b \in Account \ {a} PROVE Sound(b)'
  <2>1. row[b] \in Row /\ Sound(b)
    BY DEF Inv, TypeOK
  <2>2. plan.realm[b] \in Realm \/ ~StreamOpen(b)
    BY DEF Inv, DaemonMatches, StreamOpen, Live
  <2>3. QED
    BY <2>1, <2>2, Undisturbed
<1>2. QED
  BY <1>1 DEF Inv

\* Nothing that Inv speaks of changes but the control of the daemon.
LEMMA ControlOnly ==
  ASSUME Inv, TypeOK', DaemonMatches',
         UNCHANGED <<row, ran, queue, task, outcome, directive, plan, watch, revoked>>,
         failed => failed', daemon # "Down", daemon' = "Booting" => daemon = "Booting"
  PROVE  Inv'
<1>1. ASSUME NEW a \in Account PROVE Sound(a)'
  BY DEF Inv, Sound, QueueMatchesTask, RowMatchesTask, Pending, EndMatchesResult, Newest,
     RealmsMatch, RevokedEnds, GrantOnly, Closed, StreamOpen
<1>2. QED
  BY <1>1 DEF Inv

-----------------------------------------------------------------------------
(* Startup                                                                 *)

LEMMA BootInv ==
  ASSUME Inv, NEW grant \in Admissions, Boot(grant)
  PROVE  Inv'
<1> DEFINE planned == PlanGrants(Installed, Availability(grant))
<1>1. /\ daemon = "Down" /\ boots' = boots + 1 /\ boots < MaxBoots
      /\ UNCHANGED <<row, ran, queue, task, outcome, directive, restart, armed,
                     signalled, failed, revoked>>
  BY DEF Boot, tasks
<1>2. \A a \in Account : task[a] = "None" /\ directive[a] = "Running"
  BY <1>1 DEF Inv, DaemonMatches
<1>3. \/ /\ planned.ok /\ daemon' = "Booting" /\ plan' = planned
         /\ watch' = (FullAccounts(planned) # {}) /\ exit' = "None"
      \/ exit' = "Err" /\ UNCHANGED <<daemon, plan, watch>>
  BY DEF Boot
<1>4. boots' \in 0 .. MaxBoots
  BY <1>1, InputsAssumption DEF Inv, TypeOK, InputsAreSound
<1>5. CASE planned.ok /\ daemon' = "Booting" /\ plan' = planned
           /\ watch' = (FullAccounts(planned) # {}) /\ exit' = "None"
  <2>1. planned.realm \in [Account -> Realm]
    BY <1>5, PlanShape
  <2>2. TypeOK'
    <3>1. watch' \in BOOLEAN
      BY <1>5
    <3>2. {watch', restart', armed', signalled', failed'} \subseteq BOOLEAN
      BY <1>1, <3>1 DEF Inv, TypeOK
    <3>3. QED
      BY <1>1, <1>4, <1>5, <2>1, <3>2 DEF Inv, TypeOK
  <2>3. DaemonMatches'
    BY <1>5, <2>1 DEF DaemonMatches, CleanExitMeansStopped
  <2>4. ASSUME NEW a \in Account PROVE Sound(a)'
    <3>1. QueueMatchesTask(a)' /\ RowMatchesTask(a)' /\ EndMatchesResult(a)'
      BY <1>1, <1>2 DEF Inv, Sound, QueueMatchesTask, RowMatchesTask, Pending,
                        EndMatchesResult
    <3>2. RealmsMatch(a)'
      BY <1>1, <1>2 DEF Inv, Sound, RealmsMatch, StreamOpen, Live
    <3>3. RevokedEnds(a)'
      BY <1>1 DEF Inv, DaemonMatches, RevokedEnds
    <3>4. GrantOnly(a)'
      <4>1. Len(queue'[a]) = 0 /\ queue'[a] \in Seq(Asked) /\ directive'[a] = "Running"
        BY <1>1, <1>2 DEF Inv, TypeOK, Sound, QueueMatchesTask
      <4>2. QED
        BY <4>1 DEF GrantOnly, GrantReason
    <3>5. Closed(a)'
      BY <1>5, <1>1 DEF Closed
    <3>6. QED
      BY <3>1, <3>2, <3>3, <3>4, <3>5 DEF Sound
  <2>5. QED
    BY <2>2, <2>3, <2>4 DEF Inv
<1>6. CASE exit' = "Err" /\ UNCHANGED <<daemon, plan, watch>>
  <2>1. TypeOK'
    BY <1>1, <1>4, <1>6 DEF Inv, TypeOK
  <2>2. DaemonMatches'
    BY <1>1, <1>6 DEF Inv, DaemonMatches, CleanExitMeansStopped
  <2>3. ASSUME NEW a \in Account PROVE Sound(a)'
    <3>1. row[a] \in Row /\ ~StreamOpen(a) /\ Sound(a)
      BY <1>2 DEF Inv, TypeOK, StreamOpen, Live
    <3>2. QED
      BY <1>1, <1>6, <3>1, Undisturbed
  <2>4. QED
    BY <2>1, <2>2, <2>3 DEF Inv
<1>7. QED
  BY <1>3, <1>5, <1>6

\* The transitions whose time fits its column.
Dated == [next : Phase, reason : ProtectiveReason \union {NoReason},
          occurredAt : 0 .. MaxStored]

\* Recovery asks for a transition that is legal and fits the columns.
LEMMA RecoveryIsLegal ==
  ASSUME NEW r \in Row, NEW now \in Clock, Interrupted(r)
  PROVE  /\ RecoveryTransition(r, now) \in Dated
         /\ ValidTransition(r, RecoveryTransition(r, now))
         /\ Storable(Successor(r, RecoveryTransition(r, now)))
         /\ Successor(r, RecoveryTransition(r, now)) \in Row
         /\ Successor(r, RecoveryTransition(r, now)).generation = r.generation
<1> DEFINE t == RecoveryTransition(r, now)
<1>1. /\ r.updatedAt \in 0 .. MaxStored /\ r.generation \in 0 .. MaxStored
      /\ r.phase \in {"Starting", "Active"}
      /\ now \in 0 .. MaxStored
  BY InputsAssumption DEF Row, Interrupted, InputsAreSound
<1>2. /\ t.next = "ProtectiveOffline" /\ t.reason = "ProcessRestart"
      /\ t.occurredAt \in 0 .. MaxStored /\ t.occurredAt >= r.updatedAt
  BY <1>1, MaxStoredAssumption DEF RecoveryTransition
<1>3. t \in Dated
  BY <1>2 DEF RecoveryTransition, Phase, ProtectiveReason, Dated
<1>4. ValidTransition(r, t)
  BY <1>1, <1>2 DEF ValidTransition, ReasonMatches, NoReason, AllowedMove
<1>5. Successor(r, t) = [phase |-> "ProtectiveOffline", generation |-> r.generation,
                         reason |-> "ProcessRestart", updatedAt |-> t.occurredAt]
  BY <1>2 DEF Successor, NextGeneration
<1>6. QED
  BY <1>1, <1>2, <1>3, <1>4, <1>5, MaxStoredAssumption
     DEF Storable, Row, Phase, ProtectiveReason

\* What the store accepts is a row again.
LEMMA AcceptedIsRow ==
  ASSUME NEW r \in Row, NEW t \in Asked, Storable(Successor(r, t))
  PROVE  /\ Successor(r, t) \in Row
         /\ Successor(r, t).phase = t.next
         /\ Successor(r, t).generation =
              (IF t.next = "Starting" THEN r.generation + 1 ELSE r.generation)
<1>1. t.occurredAt \in 0 .. MaxStored
  BY InputsAssumption DEF Asked, InputsAreSound
<1>2. NextGeneration(r, t) \in Nat
  BY MaxStoredAssumption DEF Row, NextGeneration
<1>3. QED
  BY <1>1, <1>2, MaxStoredAssumption
     DEF Successor, NextGeneration, Storable, Row, Asked, Phase

LEMMA RecoverInv ==
  ASSUME Inv, NEW a \in Account, NEW now \in Clock, Recover(a, now)
  PROVE  Inv'
<1> DEFINE t == RecoveryTransition(row[a], now)
<1>1. /\ daemon = "Booting" /\ task[a] = "None" /\ task' = Reads(a, "Opened")
      /\ UNCHANGED <<boots, ran, queue, outcome, directive, daemon, plan, watch, restart,
                     armed, signalled, failed, exit, revoked>>
  BY DEF Recover, loop
<1>2. row \in [Account -> Row] /\ Sound(a)
  BY DEF Inv, TypeOK
<1>3. row' \in [Account -> Row] /\ row'[a].generation = row[a].generation
  BY <1>2, RecoveryIsLegal DEF Recover
<1>4. \A b \in Account \ {a} : row'[b] = row[b] /\ task'[b] = task[b]
  BY <1>1, <1>2 DEF Recover, Reads
<1>5. TypeOK'
  BY <1>1, <1>3 DEF Inv, TypeOK, Reads
<1>6. DaemonMatches'
  BY <1>1 DEF Inv, DaemonMatches, CleanExitMeansStopped
<1>7. Sound(a)'
  <2>1. task'[a] = "Opened"
    BY <1>1 DEF Reads
  <2>2. QueueMatchesTask(a)' /\ RowMatchesTask(a)' /\ EndMatchesResult(a)'
    BY <1>1, <1>2, <2>1 DEF Sound, QueueMatchesTask, RowMatchesTask, Pending, EndMatchesResult
  <2>3. RealmsMatch(a)'
    BY <1>1, <1>2, <1>3, <2>1 DEF Sound, RealmsMatch, StreamOpen, Live
  <2>4. RevokedEnds(a)'
    BY <1>1, <1>2 DEF Sound, RevokedEnds
  <2>5. GrantOnly(a)' /\ Closed(a)'
    BY <1>1, <1>2, <2>1 DEF Sound, GrantOnly, Closed, StreamOpen, Live
  <2>6. QED
    BY <2>2, <2>3, <2>4, <2>5 DEF Sound
<1>8. QED
  BY <1>1, <1>4, <1>5, <1>6, <1>7, OneAccount

LEMMA StartingIsAsked ==
  ASSUME NEW now \in Clock
  PROVE  Starting(now) \in Asked /\ Starting(now).next = "Starting"
  BY DEF Starting, Asked, Phase

LEMMA StartInv ==
  ASSUME Inv, NEW a \in Account, NEW now \in Clock, Start(a, now)
  PROVE  Inv'
<1>1. daemon = "Booting" /\ task[a] = "Opened" /\ UNCHANGED boots
  BY DEF Start
<1>2. row \in [Account -> Row] /\ row[a] \in Row /\ Sound(a)
  BY DEF Inv, TypeOK
<1>3. CASE ~Accepts(a, Starting(now))
  BY <1>1, <1>3, GoneInv DEF Start, durable
<1>4. CASE Accepts(a, Starting(now))
  <2>1. /\ row' = [row EXCEPT ![a] = Successor(@, Starting(now))]
        /\ ran' = ran \union {<<a, row'[a].generation, plan.realm[a]>>}
        /\ task' = Reads(a, "Login")
        /\ UNCHANGED <<queue, outcome, directive, daemon, plan, watch, restart, armed,
                       signalled, failed, exit, revoked>>
    BY <1>4 DEF Start, loop
  <2>2. /\ Successor(row[a], Starting(now)) \in Row
        /\ Successor(row[a], Starting(now)).phase = "Starting"
        /\ Successor(row[a], Starting(now)).generation = row[a].generation + 1
    BY <1>2, <1>4, AcceptedIsRow, StartingIsAsked DEF Accepts
  <2>3. /\ row' \in [Account -> Row] /\ row'[a].phase = "Starting"
        /\ row'[a].generation = row[a].generation + 1
        /\ task'[a] = "Login"
    BY <1>2, <2>1, <2>2 DEF Reads
  <2>4. plan.realm[a] \in Realm /\ row'[a].generation \in 0 .. MaxStored
        /\ row[a].generation \in 0 .. MaxStored
    BY <1>1, <1>2, <2>3 DEF Inv, DaemonMatches, Row
  <2>5. TypeOK'
    BY <1>1, <2>1, <2>3, <2>4 DEF Inv, TypeOK, Reads, Live
  <2>6. DaemonMatches'
    BY <1>1, <2>1 DEF Inv, DaemonMatches, CleanExitMeansStopped
  <2>7. Sound(a)'
    <3>1. QueueMatchesTask(a)' /\ RowMatchesTask(a)' /\ EndMatchesResult(a)'
      BY <1>1, <1>2, <2>1, <2>3
         DEF Sound, QueueMatchesTask, RowMatchesTask, Pending, EndMatchesResult
    <3>2. RealmsMatch(a)'
      <4>1. ASSUME NEW g \in 0 .. MaxStored, NEW r \in Realm, <<a, g, r>> \in ran'
            PROVE  \/ g <= row[a].generation /\ <<a, g, r>> \in ran
                   \/ g = row[a].generation + 1 /\ r = plan.realm[a]
        BY <1>2, <2>1, <2>3, <4>1 DEF Sound, RealmsMatch
      <4>2. \A g \in 0 .. MaxStored, r \in Realm :
              <<a, g, r>> \in ran' => g <= row'[a].generation
        BY <4>1, <2>3, <2>4, MaxStoredAssumption
      <4>3. \A g \in 0 .. MaxStored, r, s \in Realm :
              <<a, g, r>> \in ran' /\ <<a, g, s>> \in ran' => r = s
        BY <1>2, <4>1, <2>4, MaxStoredAssumption DEF Sound, RealmsMatch
      <4>4. <<a, row'[a].generation, plan'.realm[a]>> \in ran'
        BY <2>1
      <4>5. QED
        BY <4>2, <4>3, <4>4 DEF RealmsMatch
    <3>3. RevokedEnds(a)'
      BY <1>1, <1>2, <2>1 DEF Sound, RevokedEnds
    <3>4. GrantOnly(a)' /\ Closed(a)'
      BY <1>1, <1>2, <2>1 DEF Sound, GrantOnly, Closed
    <3>5. QED
      BY <3>1, <3>2, <3>3, <3>4 DEF Sound
  <2>8. \A b \in Account \ {a} :
          /\ row'[b] = row[b] /\ task'[b] = task[b]
          /\ \A g \in 0 .. MaxStored, r \in Realm :
               <<b, g, r>> \in ran' <=> <<b, g, r>> \in ran
    BY <1>2, <2>1 DEF Reads
  <2>9. QED
    BY <2>1, <2>5, <2>6, <2>7, <2>8, OneAccount
<1>5. QED
  BY <1>3, <1>4

LEMMA BootDoneInv ==
  ASSUME Inv, BootDone
  PROVE  Inv'
<1>1. /\ daemon = "Booting" /\ daemon' = "Looping"
      /\ UNCHANGED <<row, boots, ran, queue, task, outcome, directive, plan, watch, restart,
                     armed, signalled, failed, exit, revoked>>
  BY DEF BootDone, durable, tasks
<1>2. TypeOK'
  BY <1>1 DEF Inv, TypeOK
<1>3. DaemonMatches'
  BY <1>1 DEF Inv, DaemonMatches, CleanExitMeansStopped
<1>4. QED
  BY <1>1, <1>2, <1>3, ControlOnly

-----------------------------------------------------------------------------
(* The task of one account and its actor                                   *)

\* A task that is anywhere belongs to a run, which has a plan and no exit.
LEMMA TaskHasRun ==
  ASSUME Inv, NEW a \in Account, task[a] # "None"
  PROVE  daemon # "Down" /\ exit = "None" /\ plan.realm[a] \in Realm
  BY DEF Inv, DaemonMatches

LEMMA BootstrappedInv ==
  ASSUME Inv, NEW a \in Account, NEW now \in Clock, Bootstrapped(a, now)
  PROVE  Inv'
<1> DEFINE t == [next |-> "Active", reason |-> NoReason, occurredAt |-> now]
<1>1. /\ task[a] = "Login" /\ task' = Reads(a, "Activating")
      /\ queue' = [queue EXCEPT ![a] = Append(@, t)]
      /\ UNCHANGED <<row, boots, ran, outcome, directive, daemon, plan, watch, restart,
                     armed, signalled, failed, exit, revoked>>
  BY DEF Bootstrapped, durable, loop
<1>2. queue \in [Account -> Seq(Asked)] /\ Sound(a) /\ Len(queue[a]) = 0
  BY <1>1 DEF Inv, TypeOK, Sound, QueueMatchesTask
<1>3. t \in Asked /\ t.next = "Active" /\ t.reason \notin GrantReason
  BY DEF Asked, Phase, NoReason, GrantReason
<1>4. /\ queue' \in [Account -> Seq(Asked)] /\ Len(queue'[a]) = 1 /\ queue'[a][1] = t
      /\ task'[a] = "Activating"
      /\ \A b \in Account \ {a} : queue'[b] = queue[b] /\ task'[b] = task[b]
  BY <1>1, <1>2, <1>3 DEF Reads
<1>5. TypeOK'
  BY <1>1, <1>4 DEF Inv, TypeOK, Reads, Live
<1>6. DaemonMatches'
  BY <1>1, TaskHasRun DEF Inv, DaemonMatches, CleanExitMeansStopped
<1>7. Sound(a)'
  <2>1. QueueMatchesTask(a)' /\ RowMatchesTask(a)' /\ EndMatchesResult(a)'
    BY <1>1, <1>2, <1>3, <1>4
       DEF Sound, QueueMatchesTask, RowMatchesTask, Pending, EndMatchesResult
  <2>2. RealmsMatch(a)' /\ RevokedEnds(a)'
    BY <1>1, <1>2, <1>4 DEF Sound, RealmsMatch, RevokedEnds, StreamOpen, Live
  <2>3. GrantOnly(a)' /\ Closed(a)'
    BY <1>1, <1>2, <1>3, <1>4 DEF Sound, GrantOnly, Closed, StreamOpen, Live
  <2>4. QED
    BY <2>1, <2>2, <2>3 DEF Sound
<1>8. QED
  BY <1>1, <1>4, <1>5, <1>6, <1>7, OneAccount

\* The account a when its flow ends: what is queued at the actor stays there.
LEMMA FlowEnded ==
  ASSUME NEW a \in Account, Sound(a), StreamOpen(a), task'[a] = "Ended",
         UNCHANGED <<row, queue, ran, directive, daemon, plan, watch, revoked>>
  PROVE  Sound(a)'
<1>1. QueueMatchesTask(a)' /\ RowMatchesTask(a)' /\ EndMatchesResult(a)'
  BY DEF Sound, QueueMatchesTask, RowMatchesTask, Pending, EndMatchesResult, StreamOpen, Live
<1>2. RealmsMatch(a)' /\ RevokedEnds(a)'
  BY DEF Sound, RealmsMatch, RevokedEnds, StreamOpen, Live
<1>3. GrantOnly(a)' /\ Closed(a)'
  BY DEF Sound, GrantOnly, Closed, StreamOpen, Live
<1>4. QED
  BY <1>1, <1>2, <1>3 DEF Sound

\* The flow of a ends with the result: by itself, or dropped by a directive.
LEMMA EndFlowInv ==
  ASSUME Inv, NEW a \in Account, StreamOpen(a), NEW result \in {"Ok", "Err"},
         EndFlow(a, result), UNCHANGED <<durable, queue, directive, loop, revoked>>
  PROVE  Inv'
<1>1. /\ task' = Reads(a, "Ended")
      /\ outcome' = [outcome EXCEPT ![a] = result]
      /\ task[a] \in Live
      /\ UNCHANGED <<row, boots, ran, queue, directive, daemon, plan, watch, restart,
                     armed, signalled, failed, exit, revoked>>
  BY DEF EndFlow, durable, loop, StreamOpen
<1>2. task'[a] = "Ended" /\ outcome'[a] = result /\ Sound(a) /\ task[a] # "None"
  BY <1>1 DEF Reads, Inv, TypeOK, Live
<1>3. TypeOK'
  BY <1>1 DEF Inv, TypeOK, Reads
<1>4. DaemonMatches'
  BY <1>1, <1>2, TaskHasRun DEF Inv, DaemonMatches, CleanExitMeansStopped
<1>5. Sound(a)'
  BY <1>1, <1>2, FlowEnded
<1>6. \A b \in Account \ {a} : task'[b] = task[b] /\ outcome'[b] = outcome[b]
  BY <1>1 DEF Reads, Inv, TypeOK
<1>7. QED
  BY <1>1, <1>3, <1>4, <1>5, <1>6, OneAccount

\* The terminal transition, by the result and by the directive read for it.
LEMMA TerminalShape ==
  ASSUME Inv, NEW a \in Account, NEW now \in Clock
  PROVE  /\ Terminal(a, now) \in Asked
         /\ Terminal(a, now).next \in {"Stopped", "ProtectiveOffline"}
         /\ outcome[a] = "Ok" => Terminal(a, now).next = "Stopped"
         /\ outcome[a] = "Err" /\ directive[a] \in ProtectiveReason =>
              Terminal(a, now).next = "ProtectiveOffline"
         /\ Terminal(a, now).reason \in GrantReason =>
              Terminal(a, now).reason = directive[a]
<1>1. directive[a] \in Directive
  BY DEF Inv, TypeOK
<1>2. CASE outcome[a] = "Ok" \/ directive[a] = "Graceful"
  BY <1>2 DEF Terminal, Asked, Phase, NoReason, GrantReason, ProtectiveReason
<1>3. CASE ~(outcome[a] = "Ok" \/ directive[a] = "Graceful")
  BY <1>1, <1>3 DEF Terminal, Asked, Phase, NoReason, GrantReason, ProtectiveReason, Directive
<1>4. QED
  BY <1>2, <1>3

\* A queue with one command more.
LEMMA Appended ==
  ASSUME NEW S, NEW q \in Seq(S), NEW t \in S
  PROVE  /\ Append(q, t) \in Seq(S) /\ Len(Append(q, t)) = Len(q) + 1
         /\ Newest(Append(q, t)) = t
         /\ Len(q) = 1 => Append(q, t)[1] = q[1]
         /\ \A i \in DOMAIN Append(q, t) :
              Append(q, t)[i] = t \/ (i \in DOMAIN q /\ Append(q, t)[i] = q[i])
  BY DEF Newest

LEMMA RecordInv ==
  ASSUME Inv, NEW a \in Account, NEW now \in Clock, Record(a, now)
  PROVE  Inv'
<1> DEFINE t == Terminal(a, now)
<1>1. /\ task[a] = "Ended" /\ task' = Reads(a, "Recording")
      /\ queue' = [queue EXCEPT ![a] = Append(@, t)]
      /\ UNCHANGED <<row, boots, ran, outcome, directive, daemon, plan, watch, restart,
                     armed, signalled, failed, exit, revoked>>
  BY DEF Record, durable, loop
<1>2. queue \in [Account -> Seq(Asked)] /\ Sound(a) /\ Len(queue[a]) \in {0, 1}
  BY <1>1 DEF Inv, TypeOK, Sound, QueueMatchesTask
<1>3. /\ queue' \in [Account -> Seq(Asked)]
      /\ Len(queue'[a]) = Len(queue[a]) + 1 /\ Newest(queue'[a]) = t
      /\ Len(queue[a]) = 1 => queue'[a][1] = queue[a][1]
      /\ \A i \in DOMAIN queue'[a] :
           queue'[a][i] = t \/ (i \in DOMAIN queue[a] /\ queue'[a][i] = queue[a][i])
      /\ task'[a] = "Recording"
      /\ \A b \in Account \ {a} : queue'[b] = queue[b] /\ task'[b] = task[b]
  <2>1. t \in Asked /\ queue[a] \in Seq(Asked)
    BY <1>2, TerminalShape
  <2>2. queue'[a] = Append(queue[a], t)
    BY <1>1, <1>2
  <2>3. queue' \in [Account -> Seq(Asked)]
    BY <1>1, <1>2, <2>1, Appended
  <2>4. task'[a] = "Recording" /\ \A b \in Account \ {a} :
                                  queue'[b] = queue[b] /\ task'[b] = task[b]
    BY <1>1, <1>2 DEF Reads
  <2>5. QED
    BY <2>1, <2>2, <2>3, <2>4, Appended
<1>4. TypeOK'
  <2>1. ASSUME NEW b \in Account PROVE Len(queue'[b]) <= 2
    <3>1. CASE b = a
      <4>1. Len(queue'[a]) = Len(queue[a]) + 1
        BY <1>3
      <4>2. CASE Len(queue[a]) = 0
        BY <3>1, <4>1, <4>2
      <4>3. CASE Len(queue[a]) = 1
        BY <3>1, <4>1, <4>3
      <4>4. QED
        BY <1>2, <4>2, <4>3
    <3>2. CASE b # a
      BY <1>3, <3>2 DEF Inv, TypeOK
    <3>3. QED
      BY <3>1, <3>2
  <2>2. QED
    BY <1>1, <1>3, <2>1 DEF Inv, TypeOK, Reads
<1>5. DaemonMatches'
  BY <1>1, TaskHasRun DEF Inv, DaemonMatches, CleanExitMeansStopped
<1>6. Sound(a)'
  <2>1. QueueMatchesTask(a)'
    BY <1>2, <1>3, TerminalShape DEF QueueMatchesTask
  <2>2. RowMatchesTask(a)'
    BY <1>1, <1>2, <1>3 DEF Sound, RowMatchesTask, Pending
  <2>3. EndMatchesResult(a)'
    BY <1>1, <1>3, TerminalShape DEF EndMatchesResult
  <2>4. RealmsMatch(a)'
    BY <1>1, <1>2, <1>3 DEF Sound, RealmsMatch, StreamOpen, Live
  <2>5. RevokedEnds(a)'
    BY <1>1, <1>2, <1>3, TerminalShape DEF Sound, RevokedEnds
  <2>6. GrantOnly(a)'
    BY <1>1, <1>2, <1>3, TerminalShape DEF Sound, GrantOnly
  <2>7. Closed(a)'
    BY <1>1, <1>2, <1>3 DEF Sound, Closed, StreamOpen, Live
  <2>8. QED
    BY <2>1, <2>2, <2>3, <2>4, <2>5, <2>6, <2>7 DEF Sound
<1>7. QED
  BY <1>1, <1>3, <1>4, <1>5, <1>6, OneAccount

\* A queue without its oldest command.
LEMMA Taken ==
  ASSUME NEW S, NEW q \in Seq(S), q # <<>>
  PROVE  /\ Head(q) = q[1] /\ Head(q) \in S /\ 1 \in DOMAIN q
         /\ Tail(q) \in Seq(S) /\ Len(Tail(q)) = Len(q) - 1
         /\ Tail(q) # <<>> => Newest(Tail(q)) = Newest(q)
         /\ \A i \in DOMAIN Tail(q) : i + 1 \in DOMAIN q /\ Tail(q)[i] = q[i + 1]
  BY DEF Newest

LEMMA ActorStepInv ==
  ASSUME Inv, NEW a \in Account, ActorStep(a)
  PROVE  Inv'
<1> DEFINE t == Head(queue[a])
           accepted == Accepts(a, t)
<1>1. /\ queue[a] # <<>> /\ queue' = [queue EXCEPT ![a] = Tail(@)]
      /\ row' = IF accepted THEN [row EXCEPT ![a] = Successor(@, t)] ELSE row
      /\ UNCHANGED <<boots, ran, directive, daemon, plan, watch, restart, armed,
                     signalled, failed, exit, revoked>>
  BY DEF ActorStep, loop
<1>2. /\ row \in [Account -> Row] /\ queue \in [Account -> Seq(Asked)]
      /\ task \in [Account -> Live \union {"None", "Opened", "Ended", "Recording",
                                          "Done", "Joined"}]
      /\ outcome \in [Account -> {"Ok", "Err"}]
      /\ queue[a] \in Seq(Asked) /\ Sound(a)
  BY DEF Inv, TypeOK
<1>3. t = queue[a][1] /\ t \in Asked
  BY <1>1, <1>2, Taken
<1>4. Len(queue[a]) # 0 /\ Len(queue[a]) \in Nat
  BY <1>1, <1>2
<1>5. task[a] \in {"Activating", "Ended", "Recording"}
  BY <1>2, <1>4 DEF Sound, QueueMatchesTask, Live
<1>6. t.next # "Starting" /\ row[a].phase \in {"Starting", "Active"}
  <2>1. CASE Pending(a)
    BY <1>2, <1>3, <1>5, <2>1 DEF Sound, RowMatchesTask
  <2>2. CASE ~Pending(a)
    <3>1. task[a] = "Recording" /\ Len(queue[a]) = 1
      BY <1>2, <1>4, <1>5, <2>2 DEF Sound, QueueMatchesTask, Pending
    <3>2. QED
      BY <1>2, <1>3, <3>1 DEF Sound, QueueMatchesTask, RowMatchesTask, Newest
  <2>3. QED
    BY <2>1, <2>2
<1>7. /\ row' \in [Account -> Row] /\ row'[a].generation = row[a].generation
      /\ IF accepted THEN row'[a].phase = t.next ELSE row'[a] = row[a]
  <2>1. CASE accepted
    <3>1. Successor(row[a], t) \in Row
      BY <1>2, <1>3, <2>1, AcceptedIsRow DEF Accepts
    <3>2. QED
      BY <1>1, <1>2, <1>3, <1>6, <2>1, <3>1, AcceptedIsRow DEF Accepts
  <2>2. CASE ~accepted
    BY <1>1, <1>2, <2>2
  <2>3. QED
    BY <2>1, <2>2
<1>8. /\ queue' \in [Account -> Seq(Asked)] /\ queue'[a] = Tail(queue[a])
      /\ Len(queue'[a]) = Len(queue[a]) - 1
      /\ \A i \in DOMAIN queue'[a] :
           i + 1 \in DOMAIN queue[a] /\ queue'[a][i] = queue[a][i + 1]
      /\ queue'[a] # <<>> => Newest(queue'[a]) = Newest(queue[a])
  <2>1. queue'[a] = Tail(queue[a])
    BY <1>1, <1>2
  <2>2. queue' \in [Account -> Seq(Asked)]
    BY <1>1, <1>2, Taken
  <2>3. QED
    BY <1>1, <1>2, <2>1, <2>2, Taken
<1>9. /\ task' \in [Account -> Live \union {"None", "Opened", "Ended", "Recording",
                                           "Done", "Joined"}]
      /\ outcome' \in [Account -> {"Ok", "Err"}]
      /\ \/ /\ task[a] = "Activating" /\ accepted /\ task'[a] = "Online"
            /\ outcome'[a] = outcome[a]
         \/ /\ task[a] = "Activating" /\ ~accepted /\ task'[a] = "Ended"
            /\ outcome'[a] = "Err"
         \/ /\ task[a] = "Recording" /\ queue'[a] = <<>> /\ task'[a] = "Done"
            /\ outcome'[a] = IF accepted THEN outcome[a] ELSE "Err"
         \/ /\ \/ task[a] = "Ended"
               \/ task[a] = "Recording" /\ queue'[a] # <<>>
            /\ task'[a] = task[a] /\ outcome'[a] = outcome[a]
      /\ \A b \in Account \ {a} : task'[b] = task[b] /\ outcome'[b] = outcome[b]
  <2>1. \/ /\ task[a] = "Activating" /\ accepted /\ task' = Reads(a, "Online")
           /\ outcome' = outcome
        \/ /\ task[a] = "Activating" /\ ~accepted /\ task' = Reads(a, "Ended")
           /\ outcome' = [outcome EXCEPT ![a] = "Err"]
        \/ /\ task[a] = "Recording" /\ Tail(queue[a]) = <<>> /\ task' = Reads(a, "Done")
           /\ outcome' = [outcome EXCEPT ![a] = IF accepted THEN outcome[a] ELSE "Err"]
        \/ /\ \/ task[a] = "Ended"
              \/ task[a] = "Recording" /\ Tail(queue[a]) # <<>>
           /\ task' = task /\ outcome' = outcome
    BY DEF ActorStep, EndFlow, TaskResult
  <2>2. CASE /\ task[a] = "Activating" /\ accepted /\ task' = Reads(a, "Online")
             /\ outcome' = outcome
    BY <1>2, <2>2 DEF Reads, Live
  <2>3. CASE /\ task[a] = "Activating" /\ ~accepted /\ task' = Reads(a, "Ended")
             /\ outcome' = [outcome EXCEPT ![a] = "Err"]
    BY <1>2, <2>3 DEF Reads
  <2>4. CASE /\ task[a] = "Recording" /\ Tail(queue[a]) = <<>>
             /\ task' = Reads(a, "Done")
             /\ outcome' = [outcome EXCEPT ![a] = IF accepted THEN outcome[a] ELSE "Err"]
    BY <1>2, <1>8, <2>4 DEF Reads
  <2>5. CASE /\ \/ task[a] = "Ended"
                \/ task[a] = "Recording" /\ Tail(queue[a]) # <<>>
             /\ task' = task /\ outcome' = outcome
    BY <1>2, <1>8, <2>5
  <2>6. QED
    BY <2>1, <2>2, <2>3, <2>4, <2>5
<1>10. TypeOK'
  <2>1. ASSUME NEW b \in Account PROVE Len(queue'[b]) <= 2
    <3>1. CASE b = a
      <4>1. Len(queue[a]) <= 2 /\ Len(queue[a]) \in Nat
        BY <1>4 DEF Inv, TypeOK
      <4>2. QED
        BY <1>8, <3>1, <4>1
    <3>2. CASE b # a
      BY <1>1, <1>2, <3>2 DEF Inv, TypeOK
    <3>3. QED
      BY <3>1, <3>2
  <2>2. QED
    BY <1>1, <1>7, <1>8, <1>9, <2>1 DEF Inv, TypeOK
<1>11. DaemonMatches'
  BY <1>1, <1>5, TaskHasRun DEF Inv, DaemonMatches, CleanExitMeansStopped
<1>12. Len(queue'[a]) = 0 <=> queue'[a] = <<>>
  <2>1. queue'[a] \in Seq(Asked)
    BY <1>8
  <2>2. QED
    BY <2>1
<1>13. QueueMatchesTask(a)'
  <2>1. CASE task[a] = "Activating"
    BY <1>2, <1>8, <1>9, <2>1 DEF Sound, QueueMatchesTask
  <2>2. CASE task[a] = "Ended"
    BY <1>2, <1>4, <1>8, <1>9, <2>2 DEF Sound, QueueMatchesTask
  <2>3. CASE task[a] = "Recording"
    BY <1>2, <1>4, <1>8, <1>9, <1>12, <2>3 DEF Sound, QueueMatchesTask
  <2>4. QED
    BY <1>5, <2>1, <2>2, <2>3
<1>14. RowMatchesTask(a)'
  <2>1. CASE task[a] = "Activating"
    <3>1. t.next = "Active" /\ row[a].phase = "Starting" /\ Len(queue'[a]) = 0
      BY <1>2, <1>3, <1>8, <2>1 DEF Sound, RowMatchesTask, QueueMatchesTask, Pending
    <3>2. QED
      BY <1>7, <1>9, <2>1, <3>1 DEF RowMatchesTask, Pending
  <2>2. CASE task[a] = "Ended"
    <3>1. t.next = "Active" /\ Len(queue'[a]) = 0
      BY <1>2, <1>3, <1>4, <1>8, <2>2 DEF Sound, RowMatchesTask, QueueMatchesTask, Pending
    <3>2. QED
      BY <1>6, <1>7, <1>9, <2>2, <3>1 DEF RowMatchesTask, Pending
  <2>3. CASE task[a] = "Recording"
    <3>1. CASE Len(queue[a]) = 1
      <4>1. task'[a] = "Done"
        BY <1>8, <1>9, <1>12, <2>3, <3>1
      <4>2. QED
        BY <4>1 DEF RowMatchesTask, Pending
    <3>2. CASE Len(queue[a]) = 2
      <4>1. t.next = "Active"
        BY <1>2, <1>3, <2>3, <3>2 DEF Sound, RowMatchesTask, Pending
      <4>2. Len(queue'[a]) = 1
        BY <1>8, <3>2
      <4>3. task'[a] = "Recording"
        BY <1>9, <1>12, <2>3, <4>2
      <4>4. QED
        BY <1>6, <1>7, <4>1, <4>2, <4>3 DEF RowMatchesTask, Pending
    <3>3. QED
      BY <1>2, <2>3, <3>1, <3>2 DEF Sound, QueueMatchesTask
  <2>4. QED
    BY <1>5, <2>1, <2>2, <2>3
\* The terminal command is the one that is taken when the task is done.
<1>15. task'[a] = "Done" => t = Newest(queue[a])
  <2>1. ASSUME task'[a] = "Done" PROVE t = Newest(queue[a])
    <3>1. task[a] = "Recording" /\ Len(queue[a]) = 1
      BY <1>2, <1>4, <1>8, <1>9, <1>12, <2>1 DEF Sound, QueueMatchesTask
    <3>2. QED
      BY <1>3, <3>1 DEF Newest
  <2>2. QED
    BY <2>1
<1>16. EndMatchesResult(a)'
  BY <1>2, <1>5, <1>7, <1>8, <1>9, <1>15 DEF Sound, EndMatchesResult
<1>17. RealmsMatch(a)'
  BY <1>1, <1>2, <1>5, <1>7, <1>9 DEF Sound, RealmsMatch, StreamOpen, Live
<1>18. RevokedEnds(a)'
  BY <1>1, <1>2, <1>5, <1>6, <1>7, <1>8, <1>9, <1>15 DEF Sound, RevokedEnds
<1>19. GrantOnly(a)'
  BY <1>1, <1>2, <1>8 DEF Sound, GrantOnly
<1>20. Closed(a)'
  BY <1>1, <1>2, <1>5, <1>9 DEF Sound, Closed, StreamOpen, Live
<1>21. Sound(a)'
  BY <1>13, <1>14, <1>16, <1>17, <1>18, <1>19, <1>20 DEF Sound
<1>22. \A b \in Account \ {a} : row'[b] = row[b] /\ queue'[b] = queue[b]
  BY <1>1, <1>2
<1>23. QED
  BY <1>1, <1>9, <1>10, <1>11, <1>21, <1>22, OneAccount

LEMMA RequestRestartInv ==
  ASSUME Inv, NEW a \in Account, RequestRestart(a)
  PROVE  Inv'
<1>1. /\ task[a] = "Online" /\ restart' = TRUE
      /\ UNCHANGED <<row, boots, ran, queue, task, outcome, directive, daemon, plan, watch,
                     armed, signalled, failed, exit, revoked>>
  BY DEF RequestRestart, durable, tasks
<1>2. TypeOK'
  <2>1. {watch', restart', armed', signalled', failed'} \subseteq BOOLEAN
    BY <1>1 DEF Inv, TypeOK
  <2>2. QED
    BY <1>1, <2>1 DEF Inv, TypeOK
<1>3. daemon # "Down" /\ DaemonMatches'
  BY <1>1, TaskHasRun DEF Inv, DaemonMatches, CleanExitMeansStopped
<1>4. QED
  BY <1>1, <1>2, <1>3, ControlOnly

\* A signal ends the flows that hear it.
LEMMA CtrlCInv ==
  ASSUME Inv, NEW heardBy \in SUBSET Account, NEW supervisor \in BOOLEAN,
         CtrlC(heardBy, supervisor)
  PROVE  Inv'
<1>1. /\ heardBy # {} \/ supervisor
      /\ \A a \in heardBy : task[a] \in {"Login", "Online"}
      /\ supervisor => daemon = "Waiting"
      /\ task' = [a \in Account |-> IF a \in heardBy THEN "Ended" ELSE task[a]]
      /\ outcome' = [a \in Account |->
                       IF a \notin heardBy THEN outcome[a]
                       ELSE IF task[a] = "Online" THEN "Ok" ELSE "Err"]
      /\ signalled' = (signalled \/ supervisor)
      /\ UNCHANGED <<row, boots, ran, queue, directive, daemon, plan, watch, restart,
                     armed, failed, exit, revoked>>
  BY DEF CtrlC, durable
<1>2. daemon # "Down"
  BY <1>1, TaskHasRun
<1>3. TypeOK'
  <2>1. signalled' \in BOOLEAN
    BY <1>1
  <2>2. {watch', restart', armed', signalled', failed'} \subseteq BOOLEAN
    BY <1>1, <2>1 DEF Inv, TypeOK
  <2>3. QED
    BY <1>1, <2>2 DEF Inv, TypeOK
<1>4. DaemonMatches'
  BY <1>1, <1>2 DEF Inv, DaemonMatches, CleanExitMeansStopped
<1>5. ASSUME NEW a \in Account PROVE Sound(a)'
  <2>1. Sound(a) /\ row[a] \in Row /\ plan.realm[a] \in Realm
    BY <1>2 DEF Inv, TypeOK, DaemonMatches
  <2>2. CASE a \in heardBy
    BY <1>1, <2>1, <2>2, FlowEnded DEF StreamOpen, Live
  <2>3. CASE a \notin heardBy
    BY <1>1, <2>1, <2>3, Undisturbed
  <2>4. QED
    BY <2>2, <2>3
<1>6. QED
  BY <1>3, <1>4, <1>5 DEF Inv

-----------------------------------------------------------------------------
(* The supervisor                                                          *)

LEMMA EnterSelectInv ==
  ASSUME Inv, EnterSelect
  PROVE  Inv'
<1>1. /\ daemon = "Looping" /\ daemon' = "Waiting" /\ armed' = ~restart
      /\ UNCHANGED <<row, boots, ran, queue, task, outcome, directive, plan, watch, restart,
                     signalled, failed, exit, revoked>>
  BY DEF EnterSelect, durable, tasks
<1>2. TypeOK'
  <2>1. armed' \in BOOLEAN
    BY <1>1
  <2>2. {watch', restart', armed', signalled', failed'} \subseteq BOOLEAN
    BY <1>1, <2>1 DEF Inv, TypeOK
  <2>3. QED
    BY <1>1, <2>2 DEF Inv, TypeOK
<1>3. DaemonMatches'
  BY <1>1 DEF Inv, DaemonMatches, CleanExitMeansStopped
<1>4. QED
  BY <1>1, <1>2, <1>3, ControlOnly

LEMMA JoinInv ==
  ASSUME Inv, NEW a \in Account, Join(a)
  PROVE  Inv'
<1>1. /\ daemon = "Waiting" /\ daemon' = "Looping" /\ armed' = FALSE /\ signalled' = FALSE
      /\ task[a] = "Done" /\ task' = Reads(a, "Joined")
      /\ failed' = (failed \/ outcome[a] = "Err")
      /\ UNCHANGED <<row, boots, ran, queue, outcome, directive, plan, watch, restart,
                     exit, revoked>>
  BY DEF Join, Won, durable
<1>2. /\ Sound(a) /\ outcome[a] \in {"Ok", "Err"} /\ task'[a] = "Joined"
      /\ \A b \in Account \ {a} : task'[b] = task[b]
  BY <1>1 DEF Inv, TypeOK, Reads
<1>3. TypeOK'
  <2>1. failed' \in BOOLEAN
    BY <1>1
  <2>2. {watch', restart', armed', signalled', failed'} \subseteq BOOLEAN
    BY <1>1, <2>1 DEF Inv, TypeOK
  <2>3. QED
    BY <1>1, <2>2 DEF Inv, TypeOK, Reads
<1>4. DaemonMatches'
  BY <1>1 DEF Inv, DaemonMatches, CleanExitMeansStopped
<1>5. Sound(a)'
  <2>1. QueueMatchesTask(a)' /\ RowMatchesTask(a)'
    BY <1>1, <1>2 DEF Sound, QueueMatchesTask, RowMatchesTask, Pending
  <2>2. EndMatchesResult(a)'
    BY <1>1, <1>2 DEF Sound, EndMatchesResult
  <2>3. RealmsMatch(a)' /\ RevokedEnds(a)'
    BY <1>1, <1>2 DEF Sound, RealmsMatch, RevokedEnds, StreamOpen, Live
  <2>4. GrantOnly(a)' /\ Closed(a)'
    BY <1>1, <1>2 DEF Sound, GrantOnly, Closed, StreamOpen, Live
  <2>5. QED
    BY <2>1, <2>2, <2>3, <2>4 DEF Sound
<1>6. QED
  BY <1>1, <1>2, <1>3, <1>4, <1>5, OneAccount

\* Directives are sent: only to tasks that listen, never Running, a reason of
\* the grant to accounts on the grant only, and to all of those when the Watch
\* is lost.
LEMMA DirectivesInv ==
  ASSUME Inv, Won, UNCHANGED <<task, ran>>, failed => failed', failed' \in BOOLEAN,
         watch' \in BOOLEAN,
         directive' \in [Account -> Directive], revoked' \subseteq Account,
         \A a \in Account :
           \/ directive'[a] = directive[a]
           \/ /\ directive'[a] # "Running"
              /\ directive'[a] \in GrantReason => a \in FullAccounts(plan),
         \A a \in revoked' :
           directive'[a] \in ProtectiveReason /\ (a \in revoked \/ StreamOpen(a)),
         \A a \in FullAccounts(plan) :
           watch /\ ~watch' /\ StreamOpen(a) => directive'[a] # "Running",
         ~watch => ~watch'
  PROVE  Inv'
<1>1. /\ daemon = "Waiting" /\ daemon' = "Looping" /\ armed' = FALSE /\ signalled' = FALSE
      /\ UNCHANGED <<row, boots, ran, queue, task, outcome, plan, restart, exit>>
  BY DEF Won, durable
<1>2. TypeOK'
  <2>1. {watch', restart', armed', signalled', failed'} \subseteq BOOLEAN
    BY <1>1 DEF Inv, TypeOK
  <2>2. QED
    BY <1>1, <2>1 DEF Inv, TypeOK
<1>3. DaemonMatches'
  BY <1>1 DEF Inv, DaemonMatches, CleanExitMeansStopped
<1>4. ASSUME NEW a \in Account PROVE Sound(a)'
  <2>1. Sound(a)
    BY DEF Inv
  <2>2. QueueMatchesTask(a)' /\ RowMatchesTask(a)' /\ EndMatchesResult(a)'
    BY <1>1, <2>1
       DEF Sound, QueueMatchesTask, RowMatchesTask, Pending, EndMatchesResult, Newest
  <2>3. RealmsMatch(a)'
    BY <1>1, <2>1 DEF Sound, RealmsMatch, StreamOpen
  <2>4. RevokedEnds(a)'
    BY <1>1, <2>1 DEF Sound, RevokedEnds, StreamOpen, Live, Newest
  <2>5. GrantOnly(a)' /\ Closed(a)'
    BY <1>1, <2>1 DEF Sound, GrantOnly, Closed, StreamOpen
  <2>6. QED
    BY <2>2, <2>3, <2>4, <2>5 DEF Sound
<1>5. QED
  BY <1>2, <1>3, <1>4 DEF Inv

\* What a protective directive does, to accounts on the grant.
LEMMA ProtectShape ==
  ASSUME Inv, daemon # "Down", NEW accounts \in SUBSET FullAccounts(plan),
         NEW reason, \A a \in accounts : reason[a] \in GrantReason,
         Protect(accounts, reason)
  PROVE  /\ directive' \in [Account -> Directive] /\ revoked' \subseteq Account
         /\ \A a \in Account :
              \/ directive'[a] = directive[a]
              \/ directive'[a] \in GrantReason /\ a \in FullAccounts(plan)
         /\ \A a \in accounts : StreamOpen(a) => directive'[a] \in GrantReason
         /\ \A a \in revoked' :
              directive'[a] \in ProtectiveReason /\ (a \in revoked \/ StreamOpen(a))
<1>1. GrantReason \subseteq ProtectiveReason /\ GrantReason \subseteq Directive
  BY DEF GrantReason, ProtectiveReason, Directive
<1>2. accounts \subseteq Account
  BY FullAccountsType DEF Inv, DaemonMatches
<1>3. /\ directive' = [a \in Account |->
                        IF a \in accounts /\ task[a] \in Listening
                          THEN reason[a] ELSE directive[a]]
      /\ revoked' = revoked \union {a \in accounts : StreamOpen(a)}
  BY DEF Protect, Send
<1>4. directive \in [Account -> Directive] /\ revoked \subseteq Account
  BY DEF Inv, TypeOK
<1>5. directive' \in [Account -> Directive] /\ revoked' \subseteq Account
  BY <1>1, <1>2, <1>3, <1>4
<1>6. ASSUME NEW a \in accounts, StreamOpen(a) PROVE directive'[a] \in GrantReason
  BY <1>2, <1>3, <1>6 DEF StreamOpen, Listening
<1>7. ASSUME NEW a \in Account
      PROVE  \/ directive'[a] = directive[a]
             \/ directive'[a] \in GrantReason /\ a \in FullAccounts(plan)
  BY <1>3, <1>7
<1>8. ASSUME NEW a \in revoked'
      PROVE  directive'[a] \in ProtectiveReason /\ (a \in revoked \/ StreamOpen(a))
  <2>1. CASE a \in revoked
    BY <1>1, <1>4, <1>7, <2>1 DEF Inv, Sound, RevokedEnds
  <2>2. CASE a \notin revoked
    BY <1>1, <1>3, <1>6, <2>2
  <2>3. QED
    BY <2>1, <2>2
<1>9. QED
  BY <1>5, <1>6, <1>7, <1>8

LEMMA HandleWatchInv ==
  ASSUME Inv, NEW event \in Events, HandleWatch(event)
  PROVE  Inv'
<1> DEFINE reason == [a \in Account |-> Classify(event, a, plan)]
<1>1. /\ Won /\ watch /\ Protect(Concerns(event), reason) /\ UNCHANGED <<watch, failed>>
  BY DEF HandleWatch
<1>2. daemon # "Down" /\ UNCHANGED <<task, ran>>
  BY <1>1 DEF Won, Protect, durable
<1>3. Concerns(event) \in SUBSET FullAccounts(plan)
  BY DEF Concerns
<1>4. \A a \in Concerns(event) : reason[a] \in GrantReason
  BY <1>2, ClassifyType, FullAccountsType DEF Concerns, Inv, DaemonMatches
<1>5. /\ directive' \in [Account -> Directive] /\ revoked' \subseteq Account
      /\ \A a \in Account :
           \/ directive'[a] = directive[a]
           \/ directive'[a] \in GrantReason /\ a \in FullAccounts(plan)
      /\ \A a \in revoked' :
           directive'[a] \in ProtectiveReason /\ (a \in revoked \/ StreamOpen(a))
  BY <1>1, <1>2, <1>3, <1>4, ProtectShape
<1>6. failed' \in BOOLEAN /\ watch' \in BOOLEAN
  BY <1>1 DEF Inv, TypeOK
<1>7. "Running" \notin GrantReason
  BY DEF GrantReason
<1>8. QED
  BY <1>1, <1>2, <1>5, <1>6, <1>7, DirectivesInv

LEMMA WatchLostInv ==
  ASSUME Inv, WatchLost
  PROVE  Inv'
<1> DEFINE reason == [a \in Account |-> "CeylithContinuity"]
<1>1. /\ Won /\ watch /\ watch' = FALSE /\ failed' = TRUE
      /\ Protect(FullAccounts(plan), reason)
  BY DEF WatchLost
<1>2. daemon # "Down" /\ UNCHANGED <<task, ran>>
  BY <1>1 DEF Won, Protect, durable
<1>3. \A a \in FullAccounts(plan) : reason[a] \in GrantReason
  BY <1>2, FullAccountsType DEF GrantReason, Inv, DaemonMatches
<1>4. /\ directive' \in [Account -> Directive] /\ revoked' \subseteq Account
      /\ \A a \in Account :
           \/ directive'[a] = directive[a]
           \/ directive'[a] \in GrantReason /\ a \in FullAccounts(plan)
      /\ \A a \in FullAccounts(plan) : StreamOpen(a) => directive'[a] \in GrantReason
      /\ \A a \in revoked' :
           directive'[a] \in ProtectiveReason /\ (a \in revoked \/ StreamOpen(a))
  BY <1>1, <1>2, <1>3, ProtectShape
<1>5. "Running" \notin GrantReason
  BY DEF GrantReason
<1>6. QED
  BY <1>1, <1>2, <1>4, <1>5, DirectivesInv

LEMMA StopAllInv ==
  ASSUME Inv, StopAll
  PROVE  Inv'
<1>1. /\ Won /\ revoked' = {} /\ UNCHANGED <<task, watch, failed>>
      /\ directive' = [a \in Account |->
                         IF a \in Account /\ task[a] \in Listening
                           THEN [b \in Account |-> "Graceful"][a] ELSE directive[a]]
  BY DEF StopAll, Send
<1>2. UNCHANGED ran
  BY <1>1 DEF Won, durable
<1>3. failed' \in BOOLEAN /\ watch' \in BOOLEAN
  BY <1>1 DEF Inv, TypeOK
<1>4. \A a \in Account : directive'[a] = directive[a] \/ directive'[a] = "Graceful"
  BY <1>1
<1>5. directive' \in [Account -> Directive]
  BY <1>1 DEF Inv, TypeOK, Directive
<1>6. "Graceful" \notin GrantReason
  BY DEF GrantReason
<1>7. QED
  BY <1>1, <1>2, <1>3, <1>4, <1>5, <1>6, DirectivesInv

LEMMA FinishInv ==
  ASSUME Inv, NEW shutdownFails \in BOOLEAN, Finish(shutdownFails)
  PROVE  Inv'
<1> DEFINE how == IF failed \/ shutdownFails THEN "Err"
                  ELSE IF restart THEN "Restart" ELSE "Stopped"
<1>1. /\ \A a \in Account : task[a] = "Joined"
      /\ Gone(how) /\ UNCHANGED durable
  BY DEF Finish
<1>2. how \in {"Err", "Crash", "Stopped", "Restart"}
  OBVIOUS
<1>3. how \in {"Stopped", "Restart"} => \A a \in Account : row[a].phase = "Stopped"
  BY <1>1 DEF Inv, Sound, EndMatchesResult
<1>4. QED
  BY <1>1, <1>2, <1>3, GoneInv

-----------------------------------------------------------------------------
LEMMA InitInv == Init => Inv
<1> SUFFICES ASSUME Init PROVE Inv
  OBVIOUS
<1>1. PICK createdAt \in Clock : row = [a \in Account |-> CreatedRow(createdAt)]
  BY DEF Init
<1>2. row \in [Account -> Row]
  BY <1>1, InputsAssumption, MaxStoredAssumption
     DEF InputsAreSound, CreatedRow, Row, Phase
<1>3. queue \in [Account -> Seq(Asked)] /\ \A a \in Account : Len(queue[a]) = 0
  BY DEF Init
<1>4. TypeOK
  <2>1. {watch, restart, armed, signalled, failed} \subseteq BOOLEAN
    BY DEF Init
  <2>2. 0 \in 0 .. MaxBoots
    BY InputsAssumption DEF InputsAreSound
  <2>3. QED
    BY <1>2, <1>3, <2>1, <2>2 DEF Init, TypeOK, NoPlan, Directive
<1>5. DaemonMatches
  BY DEF Init, DaemonMatches, CleanExitMeansStopped
<1>6. ASSUME NEW a \in Account PROVE Sound(a)
  <2>1. task[a] = "None" /\ queue[a] = <<>> /\ directive[a] = "Running"
    BY DEF Init
  <2>2. QueueMatchesTask(a) /\ RowMatchesTask(a) /\ EndMatchesResult(a)
    BY <2>1 DEF QueueMatchesTask, RowMatchesTask, Pending, EndMatchesResult
  <2>3. RealmsMatch(a)
    BY <2>1 DEF Init, RealmsMatch, StreamOpen, Live
  <2>4. RevokedEnds(a) /\ GrantOnly(a) /\ Closed(a)
    BY <2>1 DEF Init, RevokedEnds, GrantOnly, GrantReason, Closed
  <2>5. QED
    BY <2>2, <2>3, <2>4 DEF Sound
<1>7. QED
  BY <1>4, <1>5, <1>6 DEF Inv

LEMMA NextInv ==
  ASSUME Inv, [Next]_vars
  PROVE  Inv'
<1>1. CASE Startup
  <2>1. ASSUME BootFails PROVE Inv'
    BY <2>1, GoneInv DEF BootFails
  <2>2. QED
    BY <1>1, <2>1, BootInv, RecoverInv, StartInv, BootDoneInv DEF Startup
<1>2. ASSUME NEW a \in Account, Task(a) PROVE Inv'
  <2>1. ASSUME FlowFails(a) PROVE Inv'
    BY <2>1, EndFlowInv DEF FlowFails, StreamOpen, Live
  <2>2. ASSUME ObserveStop(a) PROVE Inv'
    BY <2>2, EndFlowInv DEF ObserveStop
  <2>3. QED
    BY <1>2, <2>1, <2>2, BootstrappedInv, RecordInv, ActorStepInv, RequestRestartInv
       DEF Task
<1>3. ASSUME NEW heardBy \in SUBSET Account, NEW supervisor \in BOOLEAN,
             CtrlC(heardBy, supervisor)
      PROVE  Inv'
  BY <1>3, CtrlCInv
<1>4. CASE Supervise
  BY <1>4, EnterSelectInv, JoinInv, HandleWatchInv, WatchLostInv, StopAllInv, FinishInv
     DEF Supervise, SeeCtrlC, SeeRestart
<1>5. CASE Crash
  BY <1>5, GoneInv DEF Crash
<1>6. CASE UNCHANGED vars
  <2>1. TypeOK'
    BY <1>6 DEF Inv, TypeOK, vars, durable, tasks, loop
  <2>2. DaemonMatches'
    BY <1>6 DEF Inv, DaemonMatches, CleanExitMeansStopped, vars, durable, tasks, loop
  <2>3. ASSUME NEW a \in Account PROVE Sound(a)'
    <3>1. Sound(a) /\ row[a] \in Row /\ (plan.realm[a] \in Realm \/ ~StreamOpen(a))
      BY DEF Inv, TypeOK, DaemonMatches, StreamOpen, Live
    <3>2. QED
      BY <1>6, <3>1, Undisturbed DEF vars, durable, tasks, loop
  <2>4. QED
    BY <2>1, <2>2, <2>3 DEF Inv
<1>7. QED
  BY <1>1, <1>2, <1>3, <1>4, <1>5, <1>6 DEF Next

LEMMA Invariance == Spec => []Inv
  BY InitInv, NextInv, PTL DEF Spec

-----------------------------------------------------------------------------
(* What follows: sessions and ends                                         *)

\* The state of the daemon, of its tasks and of their queues keeps its types;
\* the queue of an actor never holds more than two commands.
THEOREM DaemonTypeCorrect == Spec => []TypeOK
  BY Invariance, PTL DEF Inv

\* An open stream has the durable record that says so, of a generation that runs
\* with this realm, whatever directives, failures, signals and queued
\* transitions come in between (run_account, daemon.rs).
THEOREM SessionMatchesRowCorrect == Spec => []SessionMatchesRow
<1>1. Inv => SessionMatchesRow
  BY DEF Inv, Sound, RowMatchesTask, RealmsMatch, SessionMatchesRow, StreamOpen, Live
<1>2. QED
  BY <1>1, Invariance, PTL

\* A set of equal elements.
LEMMA AtMostOne ==
  ASSUME NEW S, \A r, s \in S : r = s
  PROVE  Cardinality(S) <= 1
<1>1. CASE S = {}
  BY <1>1, FS_EmptySet
<1>2. ASSUME NEW r \in S PROVE Cardinality(S) <= 1
  <2>1. S = {r}
    BY <1>2
  <2>2. QED
    BY <2>1, FS_Singleton
<1>3. QED
  BY <1>1, <1>2

\* No generation of any account ever runs in two realms, over crashes and
\* restarts and whatever grants the runs are admitted with.
THEOREM OneRealmCorrect == Spec => []OneRealmPerGeneration
<1>1. Inv => OneRealmPerGeneration
  <2> SUFFICES ASSUME Inv, NEW a \in Account, NEW g \in 0 .. MaxStored
               PROVE  Cardinality({r \in Realm : <<a, g, r>> \in ran}) <= 1
    BY DEF OneRealmPerGeneration
  <2>1. \A r, s \in {x \in Realm : <<a, g, x>> \in ran} : r = s
    BY DEF Inv, Sound, RealmsMatch
  <2>2. QED
    BY <2>1, AtMostOne
<1>2. QED
  BY <1>1, Invariance, PTL

\* The three together.
THEOREM SessionsSoundCorrect == Spec => []SessionsAreSound
<1>1. TypeOK /\ SessionMatchesRow /\ OneRealmPerGeneration => SessionsAreSound
  BY DEF SessionsAreSound
<1>2. QED
  BY <1>1, DaemonTypeCorrect, SessionMatchesRowCorrect, OneRealmCorrect, PTL

\* Without its Watch no account on the grant goes on untold, whenever in the
\* course of a run the Watch is lost.
THEOREM FailsClosedCorrect == Spec => []FailsClosed
<1>1. Inv => FailsClosed
  BY FullAccountsType DEF Inv, DaemonMatches, Sound, Closed, FailsClosed, Supervising
<1>2. QED
  BY <1>1, Invariance, PTL

\* How a task ended is on disk or in its error; a revocation is never recorded
\* as a stop behind an error; and a clean exit or a restart means that every row
\* is Stopped.
THEOREM EndsRecordedCorrect == Spec => []EndsAreRecorded
<1>1. Inv => EndIsRecorded
  BY DEF Inv, TypeOK, Sound, EndMatchesResult, EndIsRecorded
<1>2. Inv => RevocationIsRecorded
  BY DEF Inv, TypeOK, Sound, RevokedEnds, RevocationIsRecorded
<1>3. Inv => EndsAreRecorded
  BY <1>1, <1>2 DEF Inv, DaemonMatches, EndsAreRecorded
<1>4. QED
  BY <1>3, Invariance, PTL

-----------------------------------------------------------------------------
(* What follows: the rows                                                  *)

\* The transition that a step of the daemon writes into the row of a.
Writes(a, t) ==
  /\ ValidTransition(row[a], t)
  /\ Storable(Successor(row[a], t))
  /\ row' = [row EXCEPT ![a] = Successor(@, t)]
  /\ t.reason \in GrantReason => a \in FullAccounts(plan)

\* Every step leaves the rows alone or writes one legal transition, whose
\* reason is the loss of the grant only for an account on the grant.
LEMMA RowStep ==
  ASSUME Inv, [Next]_vars
  PROVE  UNCHANGED row \/ \E a \in Account : \E t \in Dated : Writes(a, t)
<1>1. \A a \in Account : row[a] \in Row
  BY DEF Inv, TypeOK
<1>2. Clock \subseteq 0 .. MaxStored
  BY InputsAssumption DEF InputsAreSound
<1>3. ASSUME NEW a \in Account, NEW now \in Clock, Recover(a, now)
      PROVE  UNCHANGED row \/ \E t \in Dated : Writes(a, t)
  <2>1. CASE Interrupted(row[a])
    <3>1. row' = [row EXCEPT ![a] = Successor(@, RecoveryTransition(@, now))]
      BY <1>3, <2>1 DEF Recover
    <3>2. RecoveryTransition(row[a], now).reason \notin GrantReason
      BY DEF RecoveryTransition, GrantReason
    <3>3. Writes(a, RecoveryTransition(row[a], now))
      BY <1>1, <2>1, <3>1, <3>2, RecoveryIsLegal DEF Writes
    <3>4. RecoveryTransition(row[a], now) \in Dated
      BY <1>1, <2>1, RecoveryIsLegal
    <3>5. QED
      BY <3>3, <3>4
  <2>2. CASE ~Interrupted(row[a])
    BY <1>3, <2>2 DEF Recover
  <2>3. QED
    BY <2>1, <2>2
<1>4. ASSUME NEW a \in Account, NEW now \in Clock, Start(a, now)
      PROVE  UNCHANGED row \/ \E t \in Dated : Writes(a, t)
  <2>1. CASE Accepts(a, Starting(now))
    <3>1. row' = [row EXCEPT ![a] = Successor(@, Starting(now))]
      BY <1>4, <2>1 DEF Start
    <3>2. Starting(now).reason \notin GrantReason
      BY DEF Starting, GrantReason, NoReason
    <3>3. Starting(now) \in Dated
      BY <1>2 DEF Starting, Phase, Dated
    <3>4. Writes(a, Starting(now))
      BY <2>1, <3>1, <3>2 DEF Writes, Accepts
    <3>5. QED
      BY <3>3, <3>4
  <2>2. CASE ~Accepts(a, Starting(now))
    BY <1>4, <2>2 DEF Start
  <2>3. QED
    BY <2>1, <2>2
<1>5. ASSUME NEW a \in Account, ActorStep(a)
      PROVE  UNCHANGED row \/ \E t \in Dated : Writes(a, t)
  <2> DEFINE t == Head(queue[a])
  <2>1. queue[a] # <<>> /\ queue[a] \in Seq(Asked)
    BY <1>5 DEF ActorStep, Inv, TypeOK
  <2>2. t \in Asked /\ t = queue[a][1] /\ 1 \in DOMAIN queue[a]
    BY <2>1, Taken
  <2>3. CASE Accepts(a, t)
    <3>1. row' = [row EXCEPT ![a] = Successor(@, t)]
      BY <1>5, <2>3 DEF ActorStep
    <3>2. t.reason \in GrantReason => a \in FullAccounts(plan)
      BY <2>2 DEF Inv, Sound, GrantOnly
    <3>3. t \in Dated
      BY <1>2, <2>2 DEF Asked, Dated
    <3>4. Writes(a, t)
      BY <2>3, <3>1, <3>2 DEF Writes, Accepts
    <3>5. QED
      BY <3>3, <3>4
  <2>4. CASE ~Accepts(a, t)
    BY <1>5, <2>4 DEF ActorStep
  <2>5. QED
    BY <2>3, <2>4
<1>6. CASE Startup
  BY <1>3, <1>4, <1>6 DEF Startup, Boot, BootFails, BootDone, durable
<1>7. ASSUME NEW a \in Account, Task(a)
      PROVE  UNCHANGED row \/ \E t \in Dated : Writes(a, t)
  BY <1>5, <1>7
     DEF Task, Bootstrapped, Record, FlowFails, ObserveStop, RequestRestart, durable
<1>8. ASSUME NEW heardBy \in SUBSET Account, NEW supervisor \in BOOLEAN,
             CtrlC(heardBy, supervisor)
      PROVE  UNCHANGED row
  BY <1>8 DEF CtrlC, durable
<1>9. CASE Supervise
  BY <1>9 DEF Supervise, EnterSelect, Join, HandleWatch, WatchLost, SeeCtrlC, SeeRestart,
              StopAll, Won, Finish, durable
<1>10. CASE Crash
  BY <1>10 DEF Crash, durable
<1>11. CASE UNCHANGED vars
  BY <1>11 DEF vars, durable
<1>12. QED
  BY <1>6, <1>7, <1>8, <1>9, <1>10, <1>11 DEF Next

\* The loss of the grant, of the Profile or of the Watch never takes down an
\* account that runs on Public, fallbacks included.
THEOREM OnlyFullCorrect == Spec => OnlyFullIsProtected
<1>1. ASSUME Inv, [Next]_vars PROVE ProtectsOnlyFull
  <2> SUFFICES ASSUME NEW a \in Account, row'[a] # row[a],
                      row'[a].reason \in {"GrantUnavailable", "ProfileUnavailable",
                                          "CeylithContinuity"}
               PROVE  a \in FullAccounts(plan)
    BY DEF ProtectsOnlyFull
  <2>1. PICK b \in Account, t \in Dated : Writes(b, t)
    BY <1>1, RowStep
  <2>2. row \in [Account -> Row]
    BY <1>1 DEF Inv, TypeOK
  <2>3. b = a /\ row'[a] = Successor(row[a], t)
    BY <2>1, <2>2 DEF Writes
  <2>4. row'[a].reason = t.reason
    BY <2>3 DEF Successor
  <2>5. QED
    BY <2>1, <2>3, <2>4 DEF Writes, GrantReason
<1>2. QED
  BY <1>1, Invariance, PTL DEF Spec, OnlyFullIsProtected
=============================================================================
