--------------------------- MODULE OneBotDispatch ---------------------------
(***************************************************************************)
(* How a OneBot call reaches an account: the router that every transport   *)
(* shares (adapter-onebot/dispatch.rs, quick.rs, backend.rs) and the       *)
(* bounded action channel of an account (account-api/action.rs).           *)
(*                                                                         *)
(* Callers are the forward server, the reverse connections and the event   *)
(* reporters; what an account does with an action is in AccountActions.    *)
(***************************************************************************)
EXTENDS Integers, Sequences, SequencesExt, FiniteSets

CONSTANTS
  Backend,          \* the accounts
  SelfId,           \* QQ identifiers
  Call,
  LaneCapacity,     \* of the asynchronous lane
  ChannelCapacity   \* of an account's actions

None == "None"

ASSUME DispatchAssumption ==
  /\ {LaneCapacity, ChannelCapacity} \subseteq Nat \ {0}
  /\ None \notin Backend \union SelfId

VARIABLES
  routes,     \* the accounts by QQ identifier
  executor,   \* the actor of each account: Serving, or Gone with its receiver
  channel,    \* the calls before each executor
  running,    \* the call each executor executes
  lane,       \* asynchronous calls that were accepted
  laneCall,   \* the one that the lane's task awaits
  waiting,    \* rate-limited calls before the mutex, and its holder first
  call,       \* what became of each call
  accepted    \* history: the order in which the lane accepted calls

dispatchVars == <<routes, executor, channel, running, lane, laneCall, waiting, call,
          accepted>>

NoCall == "NoCall"

Mode == {"Synchronous", "Asynchronous", "RateLimited"}

\* asked: the identifier the call named.  left: the actions of a quick
\* operation that follow.  present: the caller still waits.
\* Before a call is made and after its answer nothing else is known of it.
Known(stage, answer) ==
  [stage |-> stage, mode |-> "Synchronous", asked |-> None, account |-> None,
   left |-> 0, present |-> FALSE, answer |-> answer]
Fresh == Known("Free", None)

\* What the router makes of a call to an account.  The caller of an
\* asynchronous one does not wait for it.
Made(mode, asked, a, left, stage) ==
  [stage |-> stage, mode |-> mode, asked |-> asked, account |-> a, left |-> left,
   present |-> mode # "Asynchronous", answer |-> None]

InFlight == {"Locking", "Lane", "Channel", "Running"}

Registered == {i \in SelfId : routes[i] # None}

DispatchInit ==
  /\ routes = [i \in SelfId |-> None]
  /\ executor = [a \in Backend |-> "Serving"]
  /\ channel = [a \in Backend |-> <<>>] /\ running = [a \in Backend |-> NoCall]
  /\ lane = <<>> /\ laneCall = NoCall /\ waiting = <<>>
  /\ call = [c \in Call |-> Fresh]
  /\ accepted = <<>>

-----------------------------------------------------------------------------
(* The router.                                                             *)

\* An identifier is never taken over from another account.
Register(i, a) ==
  /\ routes[i] = None
  /\ \A j \in SelfId : routes[j] # a
  /\ routes' = [routes EXCEPT ![i] = a]
  /\ UNCHANGED <<executor, channel, running, lane, laneCall, waiting, call,
                 accepted>>

Unregister(i) ==
  /\ routes[i] # None
  /\ routes' = [routes EXCEPT ![i] = None]
  /\ UNCHANGED <<executor, channel, running, lane, laneCall, waiting, call,
                 accepted>>

\* No identifier is needed where there is one account.
Select(asked) ==
  IF asked # None THEN routes[asked]
  ELSE IF Cardinality(Registered) = 1 THEN routes[CHOOSE i \in Registered : TRUE]
  ELSE None

Unroutable ==
  IF Cardinality(Registered) > 1 THEN "AccountRequired" ELSE "AccountUnavailable"

\* The answer is all that is left of a call.
Answered(calls, c, answer) == [calls EXCEPT ![c] = Known("Answered", answer)]

\* AccountActionHandle::execute: where the call goes.
Refusal(a) ==
  IF executor[a] = "Gone" THEN "AccountUnavailable"
  ELSE IF Len(channel[a]) = ChannelCapacity THEN "Overloaded" ELSE None

\* A synchronous call, alone or as one action of a quick operation.
DispatchSync(c, asked, left) ==
  /\ call[c].stage = "Free"
  /\ LET a == Select(asked)
         made == Made("Synchronous", asked, a, left, "Channel")
     IN IF a = None
        THEN /\ call' = Answered([call EXCEPT ![c] = made], c, Unroutable)
             /\ UNCHANGED channel
        ELSE IF Refusal(a) # None
        THEN /\ call' = Answered([call EXCEPT ![c] = made], c, Refusal(a))
             /\ UNCHANGED channel
        ELSE /\ call' = [call EXCEPT ![c] = made]
             /\ channel' = [channel EXCEPT ![a] = Append(@, c)]
  /\ UNCHANGED <<routes, executor, running, lane, laneCall, waiting, accepted>>

\* The caller has its answer before the lane comes to the call.
DispatchAsync(c, asked) ==
  /\ call[c].stage = "Free"
  /\ LET a == Select(asked)
         made == Made("Asynchronous", asked, a, 0, "Lane")
     IN IF a = None \/ Len(lane) = LaneCapacity
        THEN /\ call' = Answered([call EXCEPT ![c] = made], c,
                          IF a = None THEN Unroutable ELSE "Overloaded")
             /\ UNCHANGED <<lane, accepted>>
        ELSE /\ call' = [call EXCEPT ![c] = made]
             /\ lane' = Append(lane, c) /\ accepted' = Append(accepted, c)
  /\ UNCHANGED <<routes, executor, channel, running, laneCall, waiting>>

DispatchRateLimited(c, asked) ==
  /\ call[c].stage = "Free"
  /\ LET a == Select(asked)
         made == Made("RateLimited", asked, a, 0, "Locking")
     IN IF a = None
        THEN call' = Answered([call EXCEPT ![c] = made], c, Unroutable)
             /\ UNCHANGED waiting
        ELSE call' = [call EXCEPT ![c] = made] /\ waiting' = Append(waiting, c)
  /\ UNCHANGED <<routes, executor, channel, running, lane, laneCall, accepted>>

\* The mutex is handed over in the order of the callers, and its guard lives
\* until the backend has answered.
Lock ==
  /\ waiting # <<>> /\ call[Head(waiting)].stage = "Locking"
  /\ LET c == Head(waiting)
         a == call[c].account
     IN IF Refusal(a) # None
        THEN /\ call' = Answered(call, c, Refusal(a))
             /\ waiting' = Tail(waiting) /\ UNCHANGED channel
        ELSE /\ call' = [call EXCEPT ![c].stage = "Channel"]
             /\ channel' = [channel EXCEPT ![a] = Append(@, c)]
             /\ UNCHANGED waiting
  /\ UNCHANGED <<routes, executor, running, lane, laneCall, accepted>>

\* Broken variant: the lane takes the call that came last.
LaneTakeNext ==
  /\ laneCall = NoCall /\ lane # <<>>
  /\ LET c == Last(lane)
         a == call[c].account
     IN IF Refusal(a) # None
        THEN call' = Answered(call, c, Refusal(a)) /\ UNCHANGED <<channel, laneCall>>
        ELSE /\ call' = [call EXCEPT ![c].stage = "Channel"]
             /\ channel' = [channel EXCEPT ![a] = Append(@, c)]
             /\ laneCall' = c
  /\ lane' = Front(lane)
  /\ UNCHANGED <<routes, executor, running, waiting, accepted>>

\* The lane awaits one call at a time, and nobody sees its answer.
LaneTake ==
  /\ laneCall = NoCall /\ lane # <<>>
  /\ LET c == Head(lane)
         a == call[c].account
     IN IF Refusal(a) # None
        THEN call' = Answered(call, c, Refusal(a)) /\ UNCHANGED <<channel, laneCall>>
        ELSE /\ call' = [call EXCEPT ![c].stage = "Channel"]
             /\ channel' = [channel EXCEPT ![a] = Append(@, c)]
             /\ laneCall' = c
  /\ lane' = Tail(lane)
  /\ UNCHANGED <<routes, executor, running, waiting, accepted>>

-----------------------------------------------------------------------------
(* The actor of an account.                                                *)

Receive(a) ==
  /\ executor[a] = "Serving" /\ running[a] = NoCall /\ channel[a] # <<>>
  /\ LET c == Head(channel[a]) IN
     /\ running' = [running EXCEPT ![a] = c]
     /\ call' = [call EXCEPT ![c].stage = "Running"]
  /\ channel' = [channel EXCEPT ![a] = Tail(@)]
  /\ UNCHANGED <<routes, executor, lane, laneCall, waiting, accepted>>

\* What the answer of calls `done` releases: the mutex, if its holder is among
\* them, and the lane.
Release(done) ==
  /\ waiting' = IF waiting # <<>> /\ Head(waiting) \in done THEN Tail(waiting)
                ELSE waiting
  /\ laneCall' = IF laneCall \in done THEN NoCall ELSE laneCall

\* PendingAccountAction::complete.  The next action of a quick operation is
\* dispatched anew; a failure ends the operation.
Complete(a, answer) ==
  /\ running[a] # NoCall
  /\ LET c == running[a]
         next == Select(call[c].asked)
     IN /\ running' = [running EXCEPT ![a] = NoCall]
        /\ IF call[c].left > 0 /\ answer = "Ok" /\ call[c].present
           THEN IF next # None /\ Refusal(next) = None
                THEN /\ channel' = [channel EXCEPT ![next] = Append(@, c)]
                     /\ call' = [call EXCEPT ![c] =
                          Made(@.mode, @.asked, next, @.left - 1, "Channel")]
                ELSE /\ call' = Answered(call, c,
                          IF next = None THEN Unroutable ELSE Refusal(next))
                     /\ UNCHANGED channel
           ELSE call' = Answered(call, c, answer) /\ UNCHANGED channel
        /\ Release({c})
  /\ UNCHANGED <<routes, executor, lane, accepted>>

\* Broken variant: only the action in progress is answered.
ActorEndsQuietly(a) ==
  /\ executor[a] = "Serving"
  /\ executor' = [executor EXCEPT ![a] = "Gone"]
  /\ LET done == {running[a]} \ {NoCall} IN
     /\ call' = [c \in Call |->
                   IF c \in done THEN Answered(call, c, "AccountUnavailable")[c]
                   ELSE call[c]]
     /\ Release(done)
  /\ running' = [running EXCEPT ![a] = NoCall]
  /\ UNCHANGED <<routes, channel, lane, accepted>>

\* The receiver is dropped, and with it each pending action: its caller hears
\* that the account is unavailable (PendingAccountAction::drop).
ActorEnds(a) ==
  /\ executor[a] = "Serving"
  /\ executor' = [executor EXCEPT ![a] = "Gone"]
  /\ LET done == ({running[a]} \ {NoCall}) \union ToSet(channel[a]) IN
     /\ call' = [c \in Call |->
                   IF c \in done THEN Answered(call, c, "AccountUnavailable")[c]
                   ELSE call[c]]
     /\ Release(done)
  /\ running' = [running EXCEPT ![a] = NoCall]
  /\ channel' = [channel EXCEPT ![a] = <<>>]
  /\ UNCHANGED <<routes, lane, accepted>>

\* An HTTP client goes away and its handler is dropped, with the guard of the
\* mutex; what the channel already has is executed nevertheless.
CallerLeaves(c) ==
  /\ call[c].present /\ call[c].stage \in InFlight
  /\ call' = IF call[c].stage = "Locking" THEN Answered(call, c, None)
             ELSE [call EXCEPT ![c].present = FALSE]
  /\ IF \E n \in DOMAIN waiting : waiting[n] = c
     THEN \E n \in DOMAIN waiting :
            waiting[n] = c /\ waiting' = RemoveAt(waiting, n)
     ELSE UNCHANGED waiting
  /\ UNCHANGED <<routes, executor, channel, running, lane, laneCall, accepted>>

-----------------------------------------------------------------------------
Answer == {"Ok", "QqFailure"}   \* or another of AccountActionError

Dispatch(c) ==
  \E asked \in SelfId \union {None} :
    \/ DispatchSync(c, asked, 0)
    \/ DispatchAsync(c, asked)
    \/ DispatchRateLimited(c, asked)
    \/ asked # None /\ DispatchSync(c, asked, 1)

ActorStep(a) == Receive(a) \/ \E answer \in Answer : Complete(a, answer)

DispatchNext ==
  \/ \E i \in SelfId : Unregister(i) \/ \E a \in Backend : Register(i, a)
  \/ \E c \in Call : Dispatch(c) \/ CallerLeaves(c)
  \/ Lock \/ LaneTake
  \/ \E a \in Backend : ActorStep(a) \/ ActorEnds(a)

DispatchSpec == DispatchInit /\ [][DispatchNext]_dispatchVars

\* The tasks run; each action of an account ends within its deadlines.
DispatchFairness ==
  WF_dispatchVars(Lock) /\ WF_dispatchVars(LaneTake) /\ \A a \in Backend : WF_dispatchVars(ActorStep(a))

FairDispatchSpec == DispatchSpec /\ DispatchFairness

-----------------------------------------------------------------------------
\* The lane executes in the order in which callers were told that their
\* calls are accepted, although accounts execute at different speeds: what it
\* has left is what was accepted last, in that order.
LaneKeepsOrder ==
  /\ Len(lane) <= Len(accepted)
  /\ \A i \in DOMAIN lane : lane[i] = accepted[Len(accepted) - Len(lane) + i]

\* Of the callers that still wait, at most one is past the mutex.
RateLimitedAlone ==
  \A c, d \in Call :
    (/\ {call[c].mode, call[d].mode} = {"RateLimited"}
     /\ {call[c].stage, call[d].stage} \subseteq {"Channel", "Running"}
     /\ call[c].present /\ call[d].present) => c = d

\* A call is before one actor at most, and there once: an action that sends a
\* message is not executed twice, although the lane, the mutex and the quick
\* operations hand calls on while accounts and callers come and go.
ExecutedOnce ==
  \A a, b \in Backend :
    /\ \A i \in DOMAIN channel[a], j \in DOMAIN channel[b] :
         channel[a][i] = channel[b][j] => a = b /\ i = j
    /\ running[a] # NoCall =>
         /\ running[a] = running[b] => a = b
         /\ \A j \in DOMAIN channel[b] : channel[b][j] # running[a]

\* Accepted calls keep their order, rate-limited ones their turn, and none of
\* them is executed twice.
DispatchIsSound == LaneKeepsOrder /\ RateLimitedAlone /\ ExecutedOnce

\* Every call comes to an answer, whatever becomes of the accounts.
CallsAnswered == \A c \in Call : []<>(call[c].stage \notin InFlight)
=============================================================================
