--------------------------- MODULE AccountDaemon ---------------------------
(***************************************************************************)
(* One run after another of the daemon (qr/daemon.rs) over the accounts of *)
(* an installation: it plans the grants, opens the accounts one by one,    *)
(* spawns a task per account that drives the QQ flow (qr/flow.rs), and     *)
(* supervises the tasks, the Ceylith Watch, Ctrl-C and the restart request *)
(* until every task is joined.                                             *)
(*                                                                         *)
(* The tasks, the supervisor, the account actors and the signals           *)
(* interleave freely.  The actor is a FIFO of transitions with one atomic  *)
(* step each (AccountStore refines that step); a stop directive is a       *)
(* tokio watch cell, which a later send overwrites; the supervisor's       *)
(* select! drops the branches that did not win.                            *)
(***************************************************************************)
EXTENDS AccountRow, GrantPlan

CONSTANTS
  Installed,   \* ProcessConfig.accounts, in order
  Admissions,  \* the grants Ceylith may admit the installation with
  Events,      \* the Watch events Ceylith may deliver
  Clock,       \* what now_ms may return: more than one value lets it step back
  MaxBoots     \* bound on the runs of the daemon

InstallationIsSound ==
  /\ Installed \in Seq(AccountGrantRequest)
  /\ Accounts(Installed) = Account
  /\ Repeats(Installed) = {}
InputsAreSound ==
  /\ \A g \in Admissions : g \in Grant /\ ValidGrant(g)
  /\ \A e \in Events : e \in WatchEvent /\ ValidEvent(e)
  /\ Clock \subseteq 0 .. MaxStored
  /\ MaxBoots \in Nat

ASSUME InstallationAssumption == InstallationIsSound
ASSUME InputsAssumption == InputsAreSound

VARIABLES
  row,        \* the durable row of each account
  queue,      \* the command queue of each account's actor
  task,       \* how far the task of each account is
  outcome,    \* the flow's result and later the task's: "Ok" or "Err"
  directive,  \* the value of each account's stop channel
  daemon,     \* where the daemon's own control is
  plan,       \* the grant plan of this run
  watch,      \* is the Watch connection still delivering
  restart,    \* the value of the restart channel
  armed,      \* did this select! start with the restart branch enabled
  signalled,  \* Ctrl-C reached this select!
  failed,     \* first_error is set
  exit,       \* how the last run of the daemon ended
  boots,      \* the runs of the daemon so far
  \* History, read by the properties only:
  ran,        \* the realm each generation of each account ran with
  revoked     \* the accounts told to go offline while their stream was open,
              \* and not told to stop gracefully since

durable == <<row, boots, ran>>
tasks == <<queue, task, outcome, directive>>
loop == <<daemon, plan, watch, restart, armed, signalled, failed, exit>>
vars == <<durable, tasks, loop, revoked>>

\* The stages in which the flow owns an open QQ transport.
Live == {"Login", "Activating", "Online"}
StreamOpen(a) == task[a] \in Live

\* The stages in which the task still holds the receiver of its stop channel.
Listening == Live \union {"Ended", "Recording"}

Supervising == daemon \in {"Looping", "Waiting"}

NoPlan == [ok |-> FALSE]

Reads(a, value) == [b \in Account |-> IF b = a THEN value ELSE task[b]]

-----------------------------------------------------------------------------
Init ==
  /\ \E createdAt \in Clock : row = [a \in Account |-> CreatedRow(createdAt)]
  /\ queue = [a \in Account |-> <<>>]
  /\ task = [a \in Account |-> "None"]
  /\ outcome = [a \in Account |-> "Ok"]
  /\ directive = [a \in Account |-> "Running"]
  /\ daemon = "Down" /\ plan = NoPlan /\ watch = FALSE
  /\ restart = FALSE /\ armed = FALSE /\ signalled = FALSE
  /\ failed = FALSE /\ exit = "None"
  /\ boots = 0 /\ ran = {} /\ revoked = {}

\* The process or this run of it is over: what is not durable is gone.
Gone(how) ==
  /\ queue' = [a \in Account |-> <<>>]
  /\ task' = [a \in Account |-> "None"]
  /\ outcome' = [a \in Account |-> "Ok"]
  /\ directive' = [a \in Account |-> "Running"]
  /\ daemon' = "Down" /\ plan' = NoPlan /\ watch' = FALSE
  /\ restart' = FALSE /\ armed' = FALSE /\ signalled' = FALSE
  /\ failed' = FALSE /\ exit' = how
  /\ revoked' = {}

-----------------------------------------------------------------------------
(* Startup *)

\* Connecting, planning and, when an account runs on the grant, the Watch.
Boot(grant) ==
  LET planned == PlanGrants(Installed, Availability(grant)) IN
  /\ daemon = "Down"
  /\ boots < MaxBoots
  /\ boots' = boots + 1
  /\ IF planned.ok
       THEN /\ daemon' = "Booting"
            /\ plan' = planned
            /\ watch' = (FullAccounts(planned) # {})
            /\ exit' = "None"
       ELSE /\ exit' = "Err"
            /\ UNCHANGED <<daemon, plan, watch>>
  /\ UNCHANGED <<row, ran, tasks, restart, armed, signalled, failed, revoked>>

\* The accounts are opened in the order of the configuration.
Turn(a) ==
  \E i \in DOMAIN Installed :
    /\ Installed[i].account = a
    /\ \A j \in 1 .. i - 1 : task[Installed[j].account] \notin {"None", "Opened"}

\* AccountSupervisor::spawn: the actor opens the store and recovers.
Recover(a, now) ==
  /\ daemon = "Booting" /\ Turn(a) /\ task[a] = "None"
  /\ task' = Reads(a, "Opened")
  /\ row' = IF Interrupted(row[a])
              THEN [row EXCEPT
                      ![a] = Successor(@, RecoveryTransition(@, now))]
              ELSE row
  /\ UNCHANGED <<boots, ran, queue, outcome, directive, loop, revoked>>

Starting(now) ==
  [next |-> "Starting", reason |-> NoReason, occurredAt |-> now]

Accepts(a, requested) ==
  /\ ValidTransition(row[a], requested)
  /\ Storable(Successor(row[a], requested))

\* transition_and_publish(Starting) and the spawn of the account's task.  A
\* rejected start ends the whole run: the tasks already spawned are aborted.
Start(a, now) ==
  /\ daemon = "Booting" /\ task[a] = "Opened"
  /\ IF Accepts(a, Starting(now))
       THEN /\ row' = [row EXCEPT ![a] = Successor(@, Starting(now))]
            /\ ran' = ran \union
                        {<<a, row'[a].generation, plan.realm[a]>>}
            /\ task' = Reads(a, "Login")
            /\ UNCHANGED <<queue, outcome, directive, loop, revoked>>
       ELSE /\ Gone("Err")
            /\ UNCHANGED <<row, ran>>
  /\ UNCHANGED boots

\* Any other startup step fails (profiles, the Watch, OneBot, a store).
BootFails ==
  /\ daemon = "Booting"
  /\ Gone("Err")
  /\ UNCHANGED durable

BootDone ==
  /\ daemon = "Booting"
  /\ \A a \in Account : task[a] \notin {"None", "Opened"}
  /\ daemon' = "Looping"
  /\ UNCHANGED <<durable, tasks, plan, watch, restart, armed, signalled,
                 failed, exit, revoked>>

-----------------------------------------------------------------------------
(* The task of one account: run_account around flow::run *)

\* Broken variant: the flow goes on without waiting for the actor.
BootstrappedAhead(a, now) ==
  /\ task[a] = "Login"
  /\ task' = Reads(a, "Online")
  /\ queue' = [queue EXCEPT
                 ![a] = Append(@, [next |-> "Active", reason |-> NoReason,
                                   occurredAt |-> now])]
  /\ UNCHANGED <<durable, outcome, directive, loop, revoked>>

\* The flow passed its gates (login, initial sync, security bootstrap) and
\* asks the actor to record Active.
Bootstrapped(a, now) ==
  /\ task[a] = "Login"
  /\ task' = Reads(a, "Activating")
  /\ queue' = [queue EXCEPT
                 ![a] = Append(@, [next |-> "Active", reason |-> NoReason,
                                   occurredAt |-> now])]
  /\ UNCHANGED <<durable, outcome, directive, loop, revoked>>

\* The flow's future completes and drops the QQ transport.
EndFlow(a, result) ==
  /\ task' = Reads(a, "Ended")
  /\ outcome' = [outcome EXCEPT ![a] = result]

\* The QR code expires, QQ or Ceylith refuses, the stream breaks; or QQ ends
\* the session that was online.
FlowFails(a) ==
  /\ task[a] \in {"Login", "Online"}
  /\ EndFlow(a, "Err")
  /\ UNCHANGED <<durable, queue, directive, loop, revoked>>

\* Broken variant: only a graceful directive is waited for.
ObserveGracefulStop(a) ==
  /\ StreamOpen(a)
  /\ directive[a] = "Graceful"
  /\ EndFlow(a, "Ok")
  /\ UNCHANGED <<durable, queue, directive, loop, revoked>>

\* wait_for_stop wins the select! of run_account and the flow is dropped.
ObserveStop(a) ==
  /\ StreamOpen(a)
  /\ directive[a] # "Running"
  /\ EndFlow(a, IF directive[a] = "Graceful" THEN "Ok" ELSE "Err")
  /\ UNCHANGED <<durable, queue, directive, loop, revoked>>

\* The match on (outcome, directive): the directive is read a second time.
Terminal(a, now) ==
  IF outcome[a] = "Ok" \/ directive[a] = "Graceful"
    THEN [next |-> "Stopped", reason |-> NoReason, occurredAt |-> now]
    ELSE [next |-> "ProtectiveOffline",
          reason |-> IF directive[a] = "Running"
                       THEN "WorkerFailure" ELSE directive[a],
          occurredAt |-> now]

Record(a, now) ==
  /\ task[a] = "Ended"
  /\ task' = Reads(a, "Recording")
  /\ queue' = [queue EXCEPT ![a] = Append(@, Terminal(a, now))]
  /\ UNCHANGED <<durable, outcome, directive, loop, revoked>>

\* Broken variant: the answer to the terminal transition is dropped.
TaskResultOfFlow(a, accepted) == outcome[a]

\* What run_account returns: the flow's error or that of the transition.
TaskResult(a, accepted) == IF accepted THEN outcome[a] ELSE "Err"

\* The actor takes its next transition and answers whoever still waits.
ActorStep(a) ==
  /\ queue[a] # <<>>
  /\ LET requested == Head(queue[a])
         accepted == Accepts(a, requested)
     IN
     /\ queue' = [queue EXCEPT ![a] = Tail(@)]
     /\ row' = IF accepted
                 THEN [row EXCEPT ![a] = Successor(@, requested)] ELSE row
     /\ \/ /\ task[a] = "Activating" /\ accepted
           /\ task' = Reads(a, "Online")
           /\ UNCHANGED outcome
        \/ /\ task[a] = "Activating" /\ ~accepted
           /\ EndFlow(a, "Err")
        \/ /\ task[a] = "Recording" /\ Tail(queue[a]) = <<>>
           /\ task' = Reads(a, "Done")
           /\ outcome' = [outcome EXCEPT ![a] = TaskResult(a, accepted)]
        \/ /\ \/ task[a] = "Ended"
              \/ task[a] = "Recording" /\ Tail(queue[a]) # <<>>
           /\ UNCHANGED <<task, outcome>>
  /\ UNCHANGED <<boots, ran, directive, loop, revoked>>

\* The OneBot action set_restart.
RequestRestart(a) ==
  /\ task[a] = "Online"
  /\ ~restart
  /\ restart' = TRUE
  /\ UNCHANGED <<durable, tasks, daemon, plan, watch, armed, signalled,
                 failed, exit, revoked>>

\* A signal reaches every future that listens at that moment: the QR polling
\* pause (which fails), the online loop (which ends well), the supervisor.
\* Each of them may also miss it, when another branch of its select! wins.
CtrlC(heardBy, supervisor) ==
  /\ heardBy # {} \/ supervisor
  /\ \A a \in heardBy : task[a] \in {"Login", "Online"}
  /\ supervisor => daemon = "Waiting"
  /\ task' = [a \in Account |-> IF a \in heardBy THEN "Ended" ELSE task[a]]
  /\ outcome' = [a \in Account |->
                   IF a \notin heardBy THEN outcome[a]
                   ELSE IF task[a] = "Online" THEN "Ok" ELSE "Err"]
  /\ signalled' = (signalled \/ supervisor)
  /\ UNCHANGED <<durable, queue, directive, daemon, plan, watch, restart,
                 armed, failed, exit, revoked>>

-----------------------------------------------------------------------------
(* supervise(): one select! after another *)

EnterSelect ==
  /\ daemon = "Looping"
  /\ \E a \in Account : task[a] # "Joined"
  /\ daemon' = "Waiting"
  /\ armed' = ~restart
  /\ UNCHANGED <<durable, tasks, plan, watch, restart, signalled, failed,
                 exit, revoked>>

\* A branch wins: its handler runs and the other branches are dropped.
Won ==
  /\ daemon = "Waiting"
  /\ daemon' = "Looping"
  /\ armed' = FALSE /\ signalled' = FALSE
  /\ UNCHANGED <<durable, queue, outcome, plan, restart, exit>>

Join(a) ==
  /\ Won
  /\ task[a] = "Done"
  /\ task' = Reads(a, "Joined")
  /\ failed' = (failed \/ outcome[a] = "Err")
  /\ UNCHANGED <<directive, watch, revoked>>

\* watch::Sender::send to each of the accounts: it overwrites the value, and
\* does nothing once the task has dropped its receiver.
Send(accounts, value) ==
  directive' = [a \in Account |->
                  IF a \in accounts /\ task[a] \in Listening
                    THEN value[a] ELSE directive[a]]

Protect(accounts, reason) ==
  /\ Send(accounts, reason)
  /\ revoked' = revoked \union {a \in accounts : StreamOpen(a)}
  /\ UNCHANGED task

\* Broken variant: the accounts on Public are taken offline as well.
ConcernsAll(event) ==
  {a \in Account : Classify(event, a, plan) # Continue}

Concerns(event) ==
  {a \in FullAccounts(plan) : Classify(event, a, plan) # Continue}

HandleWatch(event) ==
  /\ Won
  /\ watch
  /\ Protect(Concerns(event), [a \in Account |-> Classify(event, a, plan)])
  /\ UNCHANGED <<watch, failed>>

\* Broken variant: losing the Watch is noted and nothing else.
WatchLostUnprotected ==
  /\ Won
  /\ watch
  /\ watch' = FALSE
  /\ failed' = TRUE
  /\ UNCHANGED <<task, directive, revoked>>

\* The Watch ends or fails: every account on the grant goes offline.
WatchLost ==
  /\ Won
  /\ watch
  /\ watch' = FALSE
  /\ failed' = TRUE
  /\ Protect(FullAccounts(plan), [a \in Account |-> "CeylithContinuity"])

StopAll ==
  /\ Won
  /\ Send(Account, [a \in Account |-> "Graceful"])
  /\ revoked' = {}
  /\ UNCHANGED <<task, watch, failed>>

SeeCtrlC == signalled /\ StopAll

\* restart.changed(), in a select! that was entered before the request.
SeeRestart == armed /\ restart /\ StopAll

\* supervise returned and the runtimes are shut down, each of which may fail.
Finish(shutdownFails) ==
  /\ daemon = "Looping"
  /\ \A a \in Account : task[a] = "Joined"
  /\ Gone(IF failed \/ shutdownFails THEN "Err"
          ELSE IF restart THEN "Restart" ELSE "Stopped")
  /\ UNCHANGED durable

Crash ==
  /\ daemon # "Down"
  /\ Gone("Crash")
  /\ UNCHANGED durable

-----------------------------------------------------------------------------
Startup ==
  \/ \E grant \in Admissions : Boot(grant)
  \/ \E a \in Account, now \in Clock : Recover(a, now) \/ Start(a, now)
  \/ BootFails
  \/ BootDone

Task(a) ==
  \/ \E now \in Clock : Bootstrapped(a, now) \/ Record(a, now)
  \/ FlowFails(a)
  \/ ObserveStop(a)
  \/ ActorStep(a)
  \/ RequestRestart(a)

Supervise ==
  \/ EnterSelect
  \/ \E a \in Account : Join(a)
  \/ \E event \in Events : HandleWatch(event)
  \/ WatchLost
  \/ SeeCtrlC
  \/ SeeRestart
  \/ \E shutdownFails \in BOOLEAN : Finish(shutdownFails)

Next ==
  \/ Startup
  \/ \E a \in Account : Task(a)
  \/ \E heardBy \in SUBSET Account, supervisor \in BOOLEAN :
       CtrlC(heardBy, supervisor)
  \/ Supervise
  \/ Crash

Spec == Init /\ [][Next]_vars

(***************************************************************************)
(* The runtime polls every task that can go on, and select! picks a random *)
(* ready branch: one that is ready at every turn eventually wins.  Nothing *)
(* is assumed of QQ, Ceylith, the clock or the operator.  Finish is one    *)
(* step here: whether the shutdown of the Watch, its first part, comes to  *)
(* an end is the question of InstallationWatch.                            *)
(***************************************************************************)
Fairness ==
  /\ WF_vars(EnterSelect)
  /\ WF_vars(\E shutdownFails \in BOOLEAN : Finish(shutdownFails))
  /\ SF_vars(SeeRestart)
  /\ SF_vars(SeeCtrlC)
  /\ \A a \in Account :
       /\ WF_vars(ObserveStop(a))
       /\ WF_vars(\E now \in Clock : Record(a, now))
       /\ WF_vars(ActorStep(a))
       /\ SF_vars(Join(a))

FairSpec == Spec /\ Fairness

-----------------------------------------------------------------------------
Directive == {"Running", "Graceful"} \union ProtectiveReason

\* The transitions that the task of an account asks its actor for.
Asked == [next : Phase, reason : ProtectiveReason \union {NoReason},
          occurredAt : Clock]

TypeOK ==
  /\ row \in [Account -> Row]
  /\ queue \in [Account -> Seq(Asked)]
  /\ \A a \in Account : Len(queue[a]) <= 2
  /\ task \in [Account -> Live \union {"None", "Opened", "Ended",
                                      "Recording", "Done", "Joined"}]
  /\ outcome \in [Account -> {"Ok", "Err"}]
  /\ directive \in [Account -> Directive]
  /\ daemon \in {"Down", "Booting", "Looping", "Waiting"}
  /\ plan.ok => DOMAIN plan.realm = Account
  /\ {watch, restart, armed, signalled, failed} \subseteq BOOLEAN
  /\ exit \in {"None", "Err", "Crash", "Stopped", "Restart"}
  /\ boots \in 0 .. MaxBoots
  /\ ran \subseteq Account \X (0 .. MaxStored) \X Realm
  /\ revoked \subseteq Account

\* An open QQ stream always has a durable record that says so: while the flow
\* logs in the row is Starting, while it serves the row is Active, and it runs
\* with the realm of that generation.  Hence the stream is closed before the
\* account is recorded offline (README.md:84-85), whatever interleaving of
\* directives, failures, signals and queued transitions gets it there.
SessionMatchesRow ==
  \A a \in Account :
    StreamOpen(a) =>
      /\ row[a].phase = IF task[a] = "Online" THEN "Active" ELSE "Starting"
      /\ <<a, row[a].generation, plan.realm[a]>> \in ran

\* One login generation never runs in two realms, over crashes, restarts and
\* a grant that comes and goes between them (README.md:82-83, no hot switch
\* within one login generation).
OneRealmPerGeneration ==
  \A a \in Account, generation \in 0 .. MaxStored :
    Cardinality({realm \in Realm : <<a, generation, realm>> \in ran}) <= 1

\* A stream has a durable record, of a generation with one realm.
SessionsAreSound == TypeOK /\ SessionMatchesRow /\ OneRealmPerGeneration

\* Without its Watch the installation fails closed: no account on the grant
\* has an open stream without having been told to stop (README.md:83-85).
FailsClosed ==
  Supervising /\ ~watch =>
    \A a \in FullAccounts(plan) : StreamOpen(a) => directive[a] # "Running"

\* A task that ended left a durable terminal phase behind or ends in an error,
\* which the supervisor reports: a refused terminal transition (a clock that
\* stepped back) is never silent (run_account, daemon.rs:290-302).
EndIsRecorded ==
  \A a \in Account :
    task[a] \in {"Done", "Joined"} =>
      \/ row[a].phase \in {"Stopped", "ProtectiveOffline"}
      \/ outcome[a] = "Err"

\* An account told to go offline while its stream was open is never recorded
\* Stopped behind an error (README.md:84-85), although the directive is read a
\* second time and another one may have overwritten it: only a graceful stop
\* that is sent later and a Ctrl-C that ended the flow first take precedence
\* and record Stopped, and only a clock that stepped back leaves no record.
RevocationIsRecorded ==
  \A a \in revoked :
    task[a] \in {"Done", "Joined"} =>
      \/ row[a].phase # "Stopped"
      \/ outcome[a] = "Ok"

\* The daemon reports a clean stop, or restarts itself, only when every
\* account is recorded Stopped: a protective or failed end makes it an error.
CleanExitMeansStopped ==
  exit \in {"Stopped", "Restart"} =>
    \A a \in Account : row[a].phase = "Stopped"

\* How an account went offline is on disk or in an error, the daemon's at last.
EndsAreRecorded ==
  EndIsRecorded /\ RevocationIsRecorded /\ CleanExitMeansStopped

\* The loss of the grant, of the Profile or of the Watch takes down accounts
\* that run on the grant and never a Public one, fallbacks included
\* (grant.rs:88 "This list never includes Public accounts").
ProtectsOnlyFull ==
  \A a \in Account :
    row'[a] # row[a] /\ row'[a].reason \in
        {"GrantUnavailable", "ProfileUnavailable", "CeylithContinuity"}
      => a \in FullAccounts(plan)
OnlyFullIsProtected == [][ProtectsOnlyFull]_vars

\* Once every account was told to stop, by whomever, the daemon comes to its
\* end whatever QQ, Ceylith and the operator do meanwhile (no directive is ever
\* taken back, so that this state ends only by the end of the daemon).
AllTold == Supervising /\ \A a \in Account : directive[a] # "Running"
StopCompletes == []<>~AllTold

-----------------------------------------------------------------------------
(* What the code's documents say and the code does not always do. *)

\* A restart request that was acknowledged restarts the daemon.
RestartHappens == (Supervising /\ restart) ~> (daemon = "Down")
=============================================================================
