--------------------------- MODULE OnlineSession ---------------------------
(***************************************************************************)
(* The online generation of one account: the controller of                 *)
(* qq-domain/online/machine.rs (startup gates, heartbeat and delayed-sync  *)
(* schedule) driven by the serial loop of bins/lirvena/online/runtime.rs.  *)
(* The loop sleeps until the earliest deadline, but pushes and account     *)
(* actions win its select! too and the sleep then begins anew, the wall    *)
(* clock that deadlines are compared with may step, and every exchange     *)
(* with QQ may fail.                                                       *)
(***************************************************************************)
EXTENDS Integers

CONSTANTS
  MinHeartbeat, InitialHeartbeat, MaxHeartbeat,  \* the signed plan's bounds
  MinDelayed, MaxDelayed,
  HasConfirmation,  \* does the plan have the optional status confirmation
  Requested,        \* the delays a response may ask for
  MaxNow,           \* the largest time a u64 holds
  BackwardStep      \* how far the wall clock may step back at a time

ASSUME PlanAssumption ==   \* OnlinePlan::validate
  /\ {MinHeartbeat, InitialHeartbeat, MaxHeartbeat, MinDelayed, MaxDelayed}
       \subseteq Nat \ {0}
  /\ MinHeartbeat <= InitialHeartbeat /\ InitialHeartbeat <= MaxHeartbeat
  /\ MinDelayed <= MaxDelayed
  /\ HasConfirmation \in BOOLEAN
ASSUME InputAssumption ==
  /\ Requested \subseteq Nat
  /\ MaxNow \in Nat /\ BackwardStep \in Nat

VARIABLES
  now,              \* what now_ms returns
  state,            \* OnlineMachine.state, of the one generation of a runtime
  interval,         \* heartbeat_interval_ms
  nextHeartbeat,    \* next_heartbeat_ms
  nextDelayed,      \* next_delayed_sync_ms
  heartbeatFlies,   \* heartbeat_in_flight
  delayedFlies,     \* delayed_sync_in_flight
  pc,               \* what the runtime is executing
  gates             \* the startup gates passed (history)

schedule == <<interval, nextHeartbeat, nextDelayed, heartbeatFlies,
              delayedFlies>>
vars == <<now, state, schedule, pc, gates>>

None == -1   \* no deadline, no request

Clamp(value, low, high) ==
  IF value < low THEN low ELSE IF value > high THEN high ELSE value

\* Broken variant: what the response asks for is taken as it is.
HeartbeatAsAsked(requested) ==
  IF requested = None THEN interval ELSE requested

HeartbeatInterval(requested) ==
  IF requested = None
    THEN interval ELSE Clamp(requested, MinHeartbeat, MaxHeartbeat)

\* checked_due succeeds.
Fits(delay) == now + delay <= MaxNow

-----------------------------------------------------------------------------
Init ==
  /\ now \in 0 .. MaxNow
  /\ state = "Stopped"
  /\ interval = InitialHeartbeat
  /\ nextHeartbeat = None /\ nextDelayed = None
  /\ heartbeatFlies = FALSE /\ delayedFlies = FALSE
  /\ pc = "Starting" /\ gates = {}

\* clear_schedule().
ClearSchedule ==
  /\ interval' = InitialHeartbeat
  /\ nextHeartbeat' = None /\ nextDelayed' = None
  /\ heartbeatFlies' = FALSE /\ delayedFlies' = FALSE

\* An error that `?` hands to the caller: the runtime is dropped.
Abandon ==
  /\ pc' = "Over"
  /\ UNCHANGED <<now, state, schedule, gates>>

Start ==
  /\ pc = "Starting"
  /\ ClearSchedule
  /\ state' = "Synchronizing"
  /\ pc' = "Synchronizing"
  /\ UNCHANGED <<now, gates>>

\* Arms the delayed sync a response asks for, or disarms it.
ArmDelayed(requested) ==
  nextDelayed' = IF requested = None
                   THEN None ELSE now + Clamp(requested, MinDelayed, MaxDelayed)

DelayFits(requested) ==
  requested = None \/ Fits(Clamp(requested, MinDelayed, MaxDelayed))

\* initial_sync_succeeded.
Synchronized(requested) ==
  /\ pc = "Synchronizing"
  /\ IF DelayFits(requested)
       THEN /\ ArmDelayed(requested)
            /\ state' = "Bootstrapping"
            /\ pc' = "Bootstrapping"
            /\ gates' = gates \union {"InitialSync"}
            /\ UNCHANGED <<now, interval, nextHeartbeat, heartbeatFlies,
                           delayedFlies>>
       ELSE Abandon

\* enter_online.
EnterOnline(gate) ==
  IF Fits(InitialHeartbeat)
    THEN /\ nextHeartbeat' = now + InitialHeartbeat
         /\ state' = "Online"
         /\ pc' = "Waiting"
         /\ gates' = gates \union {gate}
         /\ UNCHANGED <<now, interval, nextDelayed, heartbeatFlies,
                        delayedFlies>>
    ELSE Abandon

\* security_bootstrap_succeeded.
Secured ==
  /\ pc = "Bootstrapping"
  /\ IF HasConfirmation
       THEN /\ state' = "Confirming"
            /\ pc' = "Confirming"
            /\ gates' = gates \union {"SecurityBootstrap"}
            /\ UNCHANGED <<now, schedule>>
       ELSE EnterOnline("SecurityBootstrap")

\* status_confirmation_completed.
Confirmed ==
  pc = "Confirming" /\ EnterOnline("StatusConfirmation")

-----------------------------------------------------------------------------
(* The loop of OnlineRuntime::run *)

Due(deadline) == deadline # None /\ deadline <= now

\* next_due_ms: the deadlines that are not being worked on.
Deadlines ==
  {d \in {IF heartbeatFlies THEN None ELSE nextHeartbeat,
          IF delayedFlies THEN None ELSE nextDelayed} : d # None}

\* The sleep, of at least a millisecond, elapses before a push, an action or
\* the idle timeout of the connection wins the select!.
Elapse ==
  /\ pc = "Waiting"
  /\ Deadlines # {}
  /\ pc' = "Slept"
  /\ UNCHANGED <<now, state, schedule, gates>>

\* One of them wins although the sleep has elapsed: the branches are polled in
\* random order, and the next turn of the loop sleeps anew.  One that wins
\* before leaves the loop where it is.
Interrupt ==
  /\ pc = "Slept"
  /\ pc' = "Waiting"
  /\ UNCHANGED <<now, state, schedule, gates>>

\* Broken variant: what is due is worked off in the other order, and the loop
\* goes back to sleep after the delayed sync.
WakeDelayedFirst ==
  /\ pc = "Slept"
  /\ heartbeatFlies' = (heartbeatFlies \/ Due(nextHeartbeat))
  /\ delayedFlies' = (delayedFlies \/ Due(nextDelayed))
  /\ pc' = IF ~delayedFlies /\ Due(nextDelayed) THEN "Delayed"
           ELSE IF ~heartbeatFlies /\ Due(nextHeartbeat) THEN "Heartbeat"
           ELSE "Waiting"
  /\ UNCHANGED <<now, state, interval, nextHeartbeat, nextDelayed, gates>>

\* The sleep wins: poll_due marks everything that is due and execute_due
\* works it off, the heartbeat first.  Nothing may be due after all, when the
\* wall clock and the sleep disagree.
Wake ==
  /\ pc = "Slept"
  /\ heartbeatFlies' = (heartbeatFlies \/ Due(nextHeartbeat))
  /\ delayedFlies' = (delayedFlies \/ Due(nextDelayed))
  /\ pc' = IF ~heartbeatFlies /\ Due(nextHeartbeat) THEN "Heartbeat"
           ELSE IF ~delayedFlies /\ Due(nextDelayed) THEN "Delayed"
           ELSE "Waiting"
  /\ UNCHANGED <<now, state, interval, nextHeartbeat, nextDelayed, gates>>

\* required_action_failed.
FailClosed ==
  /\ ClearSchedule
  /\ state' = "ProtectiveOffline"
  /\ pc' = "Over"
  /\ UNCHANGED <<now, gates>>

\* Broken variant: a response without an interval disarms the heartbeat.
HeartbeatDoneOnce(requested) ==
  /\ pc = "Heartbeat"
  /\ interval' = HeartbeatInterval(requested)
  /\ nextHeartbeat' = IF requested = None THEN None ELSE now + interval'
  /\ heartbeatFlies' = FALSE
  /\ pc' = IF delayedFlies THEN "Delayed" ELSE "Waiting"
  /\ UNCHANGED <<now, state, nextDelayed, delayedFlies, gates>>

\* heartbeat_completed, then the delayed sync that was due with it.
HeartbeatDone(requested) ==
  /\ pc = "Heartbeat"
  /\ IF Fits(HeartbeatInterval(requested))
       THEN /\ interval' = HeartbeatInterval(requested)
            /\ nextHeartbeat' = now + interval'
            /\ heartbeatFlies' = FALSE
            /\ pc' = IF delayedFlies THEN "Delayed" ELSE "Waiting"
            /\ UNCHANGED <<now, state, nextDelayed, delayedFlies, gates>>
       ELSE FailClosed

\* delayed_sync_completed.
DelayedDone(requested) ==
  /\ pc = "Delayed"
  /\ IF DelayFits(requested)
       THEN /\ ArmDelayed(requested)
            /\ delayedFlies' = FALSE
            /\ pc' = "Waiting"
            /\ UNCHANGED <<now, state, interval, nextHeartbeat,
                           heartbeatFlies, gates>>
       ELSE FailClosed

\* An exchange of the continuity schedule fails.
ContinuityFails ==
  /\ pc \in {"Heartbeat", "Delayed"}
  /\ FailClosed

\* A gate's exchange, a push or the action channel fails.
SessionFails ==
  /\ pc \in {"Synchronizing", "Bootstrapping", "Confirming", "Waiting", "Slept"}
  /\ Abandon

\* Ctrl-C in the loop.
Stop ==
  /\ pc \in {"Waiting", "Slept"}
  /\ ClearSchedule
  /\ state' = "Stopped"
  /\ pc' = "Over"
  /\ UNCHANGED <<now, gates>>

\* Time passes, in a sleep, an exchange, a push or an action, or the wall clock
\* is set back.
Tick ==
  /\ pc # "Over"
  /\ now' \in {t \in 0 .. MaxNow : t = now + 1 \/ t = now - BackwardStep}
  /\ UNCHANGED <<state, schedule, pc, gates>>

Next ==
  \/ Start
  \/ \E requested \in Requested \union {None} :
       \/ Synchronized(requested)
       \/ HeartbeatDone(requested)
       \/ DelayedDone(requested)
  \/ Secured
  \/ Confirmed
  \/ Elapse
  \/ Interrupt
  \/ Wake
  \/ ContinuityFails
  \/ SessionFails
  \/ Stop
  \/ Tick

Spec == Init /\ [][Next]_vars

\* The exchange of a due action ends, with an answer or with an error: reads
\* and writes have timeouts.
ExchangeEnds ==
  \/ \E requested \in Requested \union {None} :
       HeartbeatDone(requested) \/ DelayedDone(requested)
  \/ ContinuityFails

\* The branches are polled in random order, so that a sleep that has elapsed
\* again and again wins in the end.  That it elapses is not assumed: traffic
\* may begin it anew forever.
FairSpec == Spec /\ SF_vars(Wake) /\ WF_vars(ExchangeEnds)

-----------------------------------------------------------------------------
Gates ==
  {"InitialSync", "SecurityBootstrap"}
    \union (IF HasConfirmation THEN {"StatusConfirmation"} ELSE {})

Deadline == 0 .. MaxNow \union {None}

TypeOK ==
  /\ now \in 0 .. MaxNow
  /\ state \in {"Stopped", "Synchronizing", "Bootstrapping", "Confirming",
                "Online", "ProtectiveOffline"}
  /\ interval \in MinHeartbeat .. MaxHeartbeat
  /\ nextHeartbeat \in Deadline
  /\ nextDelayed \in Deadline
  /\ heartbeatFlies \in BOOLEAN
  /\ delayedFlies \in BOOLEAN
  /\ pc \in {"Starting", "Synchronizing", "Bootstrapping", "Confirming",
             "Waiting", "Slept", "Heartbeat", "Delayed", "Over"}

\* Whenever the loop looks for its next deadline there is one, for the
\* heartbeat, and nothing is marked in flight that nobody executes: the error
\* "online generation has no continuity schedule" never ends a session, and
\* no action is skipped forever because it still counts as in flight.
ContinuityNeverLapses ==
  /\ pc \in {"Waiting", "Slept", "Heartbeat", "Delayed"} =>
       state = "Online" /\ nextHeartbeat # None
  /\ heartbeatFlies => pc = "Heartbeat"
  /\ delayedFlies => pc \in {"Heartbeat", "Delayed"} /\ nextDelayed # None

\* The generation serves only after every gate of the signed plan.
OnlineThroughGates == state = "Online" => gates = Gates

\* A session serves behind its gates, with a deadline for its next heartbeat.
OnlineIsSound == TypeOK /\ ContinuityNeverLapses /\ OnlineThroughGates

\* Whatever a response asks for, the next heartbeat and the next delayed sync
\* are between the signed bounds away (plan.rs:51-52, no busy loop and no
\* unbounded stale schedule).
EveryDelayBounded ==
  [][/\ nextHeartbeat' \notin {nextHeartbeat, None} =>
          nextHeartbeat' - now \in MinHeartbeat .. MaxHeartbeat
     /\ nextDelayed' \notin {nextDelayed, None} =>
          nextDelayed' - now \in MinDelayed .. MaxDelayed]_vars

\* In a session whose traffic lets the sleep elapse again and again, a heartbeat
\* that is due is sent, unless the clock steps back before its deadline:
\* delayed syncs, and the pushes and actions that win now and then, do not keep
\* it back (poll_due and execute_due).  Under traffic that never lets the sleep
\* elapse the code promises nothing.
HeartbeatHappens ==
  []<>(pc = "Slept") => []<>(pc = "Heartbeat" \/ ~Due(nextHeartbeat))
=============================================================================
