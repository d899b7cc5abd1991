---------------------------- MODULE OneBotEvents ----------------------------
(***************************************************************************)
(* How what happens to the accounts reaches the bots: the event hub        *)
(* (account-api/hub.rs), the coordinator that keeps the registry and calls *)
(* the reporters (bins/lirvena/onebot.rs), the event bus, the forward and  *)
(* reverse connections (adapter-onebot/transport), and which events have a *)
(* OneBot form at all (adapter-onebot/event.rs).                           *)
(*                                                                         *)
(* Bots and their HTTP endpoints are external: a bot may stop reading, and *)
(* never finish a request or a handshake.  What a bot's call does is in    *)
(* OneBotDispatch; here it only occupies its connection.                   *)
(***************************************************************************)
EXTENDS Integers, Sequences, SequencesExt, FiniteSets

CONSTANTS
  Account,
  Id,            \* QQ identifiers
  HubCapacity,
  BusCapacity,
  MaxSpent       \* bound of the model: messages, notices and heartbeats

Nobody == "Nobody"

ASSUME EventAssumption ==
  /\ {HubCapacity, BusCapacity} \subseteq Nat \ {0} /\ MaxSpent \in Nat
  /\ Nobody \notin Account \union Id

VARIABLES
  actor,        \* how far each account's task has come
  qq,           \* the identifier that QQ gave it
  hub,          \* the coordinator's subscription to the account events
  coordinator,  \* what the coordinator does
  identities,   \* the accounts whose identifier it knows
  registry,     \* the accounts that calls can be routed to, by identifier
  spent,        \* the messages, notices and heartbeats so far
  bot,          \* a bot: a Socket, a Stream or a plain Http client of the
                \* forward server, or the peer of a Reverse client, and its
                \* subscription to the bus
  server,       \* the forward server: Serving or Ended
  stop          \* OneBotRuntime::shutdown was called

bots == <<bot, server>>
vars == <<actor, qq, hub, coordinator, identities, registry, spent, bots, stop>>

\* project_account_event: accounting events have no OneBot form, and what QQ
\* sends is dropped if its form would be invented (a message of another class
\* than private, group and temporary, or a change of members of unknown kind).
HasForm(kind) == kind \notin {"OddMessage", "OddNotice", "Accounting"}

\* Lifecycle events, which name the account but not its identifier.
Ends == {"Stopped", "ProtectiveOffline"}
Lifecycle == {"Starting", "Active"} \union Ends

\* A tokio broadcast subscription: whoever falls behind loses the oldest.
Subscription == [events |-> <<>>, lagged |-> FALSE]
Pushed(sub, event, capacity) ==
  IF Len(sub.events) < capacity THEN [sub EXCEPT !.events = Append(@, event)]
  ELSE [events |-> Append(Tail(sub.events), event), lagged |-> TRUE]

Resting == [at |-> "Idle", work |-> <<>>, remove |-> Nobody]
\* lagged: the bus has dropped events that waited for the bot, and will say so.
\* untold: history, the bot has missed events and was not told.
Away(kind) == [kind |-> kind, at |-> "Away", waiting |-> 0,
               lagged |-> FALSE, untold |-> FALSE]

Init ==
  /\ actor = [a \in Account |-> "New"] /\ qq = [a \in Account |-> Nobody]
  /\ hub = Subscription /\ coordinator = Resting
  /\ identities = {} /\ registry = [i \in Id |-> Nobody]
  /\ spent = 0 /\ server = "Serving"
  /\ bot \in {Away(kind) : kind \in {"Socket", "Stream", "Http", "Reverse"}}
  /\ stop = FALSE

-----------------------------------------------------------------------------
(* The accounts publish, and never wait for anybody.                       *)

Published(kind, a) == hub' = Pushed(hub, [kind |-> kind, account |-> a], HubCapacity)

Moves(a, from, to) == actor[a] \in from /\ actor' = [actor EXCEPT ![a] = to]

Start(a) ==
  /\ Moves(a, {"New"}, "Starting") /\ Published("Starting", a)
  /\ UNCHANGED <<qq, coordinator, identities, registry, spent, bots, stop>>

\* QQ accepts the login; two accounts may log in with the same identifier.
LogIn(a, i) ==
  /\ Moves(a, {"Starting"}, "Ready") /\ Published("Ready", a)
  /\ qq' = [qq EXCEPT ![a] = i]
  /\ UNCHANGED <<coordinator, identities, registry, spent, bots, stop>>

Activate(a) ==
  /\ Moves(a, {"Ready"}, "Active") /\ Published("Active", a)
  /\ UNCHANGED <<qq, coordinator, identities, registry, spent, bots, stop>>

Happens(a, kind) ==
  /\ actor[a] = "Active"
  /\ spent < MaxSpent /\ spent' = spent + 1
  /\ Published(kind, a)
  /\ UNCHANGED <<actor, qq, coordinator, identities, registry, bots, stop>>

\* The end is published only if it could be stored.
End(a, kind, stored) ==
  /\ Moves(a, {"Starting", "Ready", "Active"}, IF stored THEN "Ended" ELSE "Lost")
  /\ IF stored THEN Published(kind, a) ELSE UNCHANGED hub
  /\ UNCHANGED <<qq, coordinator, identities, registry, spent, bots, stop>>

-----------------------------------------------------------------------------
(* The coordinator.                                                        *)

Busy(work, remove) == [at |-> "Reporting", work |-> work, remove |-> remove]

\* attach_lifecycle_identity
Named(event) ==
  IF event.kind \in Lifecycle /\ event.account \notin identities
  THEN [event EXCEPT !.account = Nobody] ELSE event

\* Broken variant: an account that is taken offline is not removed.
RemovesStopped(event) == event.kind = "Stopped" /\ event.account \in identities

Removes(event) == event.kind \in Ends /\ event.account \in identities

\* An event is taken from the hub.  A gap in the events ends the coordinator,
\* as does an identifier that another account has.
Coordinate ==
  /\ coordinator.at = "Idle" /\ hub.events # <<>>
  /\ LET event == Head(hub.events)
         a == event.account
         ready == event.kind = "Ready"
     IN IF hub.lagged \/ (ready /\ registry[qq[a]] # Nobody)
        THEN /\ coordinator' = [Resting EXCEPT !.at = "Failed"]
             /\ UNCHANGED <<hub, identities, registry>>
        ELSE /\ hub' = [hub EXCEPT !.events = Tail(@)]
             /\ identities' = IF ready THEN identities \union {a} ELSE identities
             /\ registry' = IF ready THEN [registry EXCEPT ![qq[a]] = a] ELSE registry
             /\ coordinator' = Busy(IF HasForm(event.kind) THEN <<Named(event)>> ELSE <<>>,
                                    IF Removes(event) THEN a ELSE Nobody)
  /\ UNCHANGED <<actor, qq, spent, bots, stop>>

\* A heartbeat for every identity, each reported before the next.
Heartbeat ==
  /\ coordinator.at = "Idle" /\ identities # {}
  /\ spent < MaxSpent /\ spent' = spent + 1
  /\ coordinator' = Busy(
       SetToSeq({[kind |-> "Heartbeat", account |-> a] : a \in identities}), Nobody)
  /\ UNCHANGED <<actor, qq, hub, identities, registry, bots, stop>>

\* The bots that have a subscription; an HTTP request has none.
Subscribed == bot.kind # "Http" /\ bot.at \in {"Open", "Calling", "Sending"}

\* Broken variant: a connection whose subscription is full is waited for.
ReportWaits ==
  /\ coordinator.at = "Reporting" /\ coordinator.work # <<>>
  /\ Subscribed => bot.waiting < BusCapacity
  /\ bot' = IF Subscribed THEN [bot EXCEPT !.waiting = @ + 1] ELSE bot
  /\ coordinator' = [coordinator EXCEPT !.work = Tail(@)]
  /\ UNCHANGED <<actor, qq, hub, identities, registry, spent, server, stop>>

\* The reporters have answered, timed out, or had a quick operation carried
\* out: however long that took, only then the event goes over the bus.
Report ==
  /\ coordinator.at = "Reporting" /\ coordinator.work # <<>>
  /\ bot' = IF ~Subscribed THEN bot
            ELSE IF bot.waiting < BusCapacity
            THEN [bot EXCEPT !.waiting = @ + 1]
            ELSE [bot EXCEPT !.lagged = TRUE, !.untold = TRUE]
  /\ coordinator' = [coordinator EXCEPT !.work = Tail(@)]
  /\ UNCHANGED <<actor, qq, hub, identities, registry, spent, server, stop>>

Settle ==
  /\ coordinator.at = "Reporting" /\ coordinator.work = <<>>
  /\ coordinator' = Resting
  /\ LET a == coordinator.remove IN
       IF a = Nobody THEN UNCHANGED <<identities, registry>>
       ELSE /\ identities' = identities \ {a}
            /\ registry' = [registry EXCEPT ![qq[a]] = Nobody]
  /\ UNCHANGED <<actor, qq, hub, spent, bots, stop>>

-----------------------------------------------------------------------------
(* The forward server (forward.rs, ws.rs).                                 *)

accounts == <<actor, qq, hub, coordinator, identities, registry, spent>>

BotMoves(kinds, from, to) ==
  /\ bot.kind \in kinds /\ bot.at \in from
  /\ bot' = [bot EXCEPT !.at = to]
  /\ UNCHANGED <<accounts, server, stop>>

\* A connection is accepted: an HTTP request is read before it is dispatched.
Join ==
  /\ bot.kind # "Reverse" /\ bot.at = "Away" /\ server = "Serving" /\ ~stop
  /\ bot' = [Away(bot.kind) EXCEPT !.at = IF bot.kind = "Http" THEN "Receiving" ELSE "Open"]
  /\ UNCHANGED <<accounts, server, stop>>

\* While a call is awaited, and while its answer or an event is written, the
\* events pile up: the loop of a connection looks at nothing else.
CallBegins ==
  \/ BotMoves({"Socket", "Reverse"}, {"Open"}, "Calling")
  \/ BotMoves({"Http"}, {"Receiving"}, "Calling")
CallEnds == BotMoves({"Socket", "Reverse", "Http"}, {"Calling"}, "Sending")

\* A ping is answered.
Pinged == BotMoves({"Socket", "Reverse"}, {"Open"}, "Sending")

\* The bot reads what was written.  No write has a timeout.
Sent ==
  \/ BotMoves({"Socket", "Stream", "Reverse"}, {"Sending"}, "Open")
  \/ BotMoves({"Http"}, {"Sending"}, "Away")

\* The bot is told how many events it missed, or gets the next one.
ForwardNext ==
  /\ bot.kind # "Reverse" /\ bot.at = "Open" /\ bot.waiting > 0
  /\ bot' = IF bot.lagged
            THEN [bot EXCEPT !.lagged = FALSE, !.untold = FALSE, !.at = "Sending"]
            ELSE [bot EXCEPT !.waiting = @ - 1, !.at = "Sending"]
  /\ UNCHANGED <<accounts, server, stop>>

\* The bot closes its connection, or a write to it fails.
Leave ==
  /\ bot.kind # "Reverse" /\ bot.at \in {"Open", "Receiving", "Sending"}
  /\ bot' = Away(bot.kind)
  /\ UNCHANGED <<accounts, server, stop>>

\* What the bot alone can end: an event stream, a request that it has not sent
\* in full, an answer that it does not read.
HeldByBot ==
  \/ bot.kind = "Stream" /\ bot.at \in {"Open", "Sending"}
  \/ bot.kind = "Http" /\ bot.at \in {"Receiving", "Sending"}

\* axum's graceful shutdown waits for every request in progress, streams of
\* events among them, but not for upgraded connections.
ServerEnds ==
  /\ stop /\ server = "Serving"
  /\ ~HeldByBot /\ ~(bot.kind = "Http" /\ bot.at = "Calling")
  /\ server' = "Ended"
  /\ UNCHANGED <<accounts, bot, stop>>

-----------------------------------------------------------------------------
(* ReverseWebSocket::run and run_connection.                               *)

Dial == ~stop /\ BotMoves({"Reverse"}, {"Away"}, "Dialling")

\* The handshake has no timeout of its own.
Dialled(answered) ==
  /\ bot.at = "Dialling"
  /\ bot' = [bot EXCEPT !.at = IF answered THEN "Open" ELSE "Delay"]
  /\ UNCHANGED <<accounts, server, stop>>

Delayed == BotMoves({"Reverse"}, {"Delay"}, "Away")

Dropped == [Away("Reverse") EXCEPT !.at = "Delay"]

\* Events of other accounts are read but not sent on; a gap ends the connection.
ReverseNext(mine) ==
  /\ bot.kind = "Reverse" /\ bot.at = "Open" /\ bot.waiting > 0
  /\ bot' = IF bot.lagged THEN Dropped
            ELSE [bot EXCEPT !.waiting = @ - 1, !.at = IF mine THEN "Sending" ELSE "Open"]
  /\ UNCHANGED <<accounts, server, stop>>

\* A peer that closes is dialled again at once, one that fails after a delay.
ReverseLost(closed) ==
  /\ bot.kind = "Reverse"
  /\ bot.at \in (IF closed THEN {"Open"} ELSE {"Open", "Sending"})
  /\ bot' = IF closed THEN Away("Reverse") ELSE Dropped
  /\ UNCHANGED <<accounts, server, stop>>

\* Broken variant: only an open connection looks for the shutdown.
ReverseStopsIfOpen == stop /\ BotMoves({"Reverse"}, {"Open"}, "Closing")

\* Shutdown is seen between connections, in the delay and between two events,
\* not in a write; an open connection sends a close frame first.
ReverseStops ==
  /\ stop
  /\ \/ BotMoves({"Reverse"}, {"Away", "Delay"}, "Ended")
     \/ BotMoves({"Reverse"}, {"Open"}, "Closing")

\* The close frame is written, or its write fails.
ReverseClosed == BotMoves({"Reverse"}, {"Closing"}, "Ended")

-----------------------------------------------------------------------------
\* OneBotRuntime::shutdown, once every account's task has ended.
Shutdown ==
  /\ ~stop /\ \A a \in Account : actor[a] \in {"Ended", "Lost"}
  /\ stop' = TRUE
  /\ UNCHANGED <<accounts, bots>>

\* Whether events are still waiting is not looked at.
CoordinatorStops ==
  /\ stop /\ coordinator.at = "Idle"
  /\ coordinator' = [Resting EXCEPT !.at = "Ended"]
  /\ UNCHANGED <<actor, qq, hub, identities, registry, spent, bots, stop>>

-----------------------------------------------------------------------------
AccountStep(a) ==
  \/ Start(a) \/ Activate(a)
  \/ \E i \in Id : LogIn(a, i)
  \/ \E kind \in {"Message", "OddNotice"} : Happens(a, kind)
  \/ \E kind \in Ends, stored \in BOOLEAN : End(a, kind, stored)

CoordinatorStep == Coordinate \/ Report \/ Settle \/ CoordinatorStops

BotStep ==
  \/ Join \/ CallBegins \/ Pinged \/ Sent \/ Leave \/ ReverseClosed
  \/ \E answered \in BOOLEAN : Dialled(answered)
  \/ \E closed \in BOOLEAN : ReverseLost(closed)

ConnectionStep ==
  \/ CallEnds \/ ForwardNext \/ Dial \/ Delayed \/ ReverseStops
  \/ \E mine \in BOOLEAN : ReverseNext(mine)

Next ==
  \/ \E a \in Account : AccountStep(a)
  \/ CoordinatorStep \/ Heartbeat \/ BotStep \/ ConnectionStep \/ ServerEnds
  \/ Shutdown

Spec == Init /\ [][Next]_vars

\* Reporters have timeouts and calls are answered.  Nothing is assumed of the
\* bots: they may never finish a handshake or a request, never read what is
\* written to them, and never leave.  The branches of run_connection are polled
\* in random order, so that the shutdown is seen although events go on coming.
Fairness ==
  /\ WF_vars(CoordinatorStep) /\ SF_vars(CoordinatorStops)
  /\ WF_vars(ServerEnds)
  /\ WF_vars(ConnectionStep) /\ SF_vars(ReverseStops)

FairSpec == Spec /\ Fairness

-----------------------------------------------------------------------------
\* No bot goes on after a gap without a word: it is told that it missed events
\* before it gets another, or its connection ends.
GapsAnnounced == bot.untold => bot.lagged

\* What the coordinator has not yet taken from the hub, or not yet finished.
Waiting(a, kinds) ==
  \E i \in DOMAIN hub.events : hub.events[i].account = a /\ hub.events[i].kind \in kinds
EndOnItsWay(a) == coordinator.remove = a \/ Waiting(a, Ends)

\* The coordinator runs and has missed nothing.
Listening == coordinator.at \in {"Idle", "Reporting"} /\ ~hub.lagged

\* The coordinator knows no account that is gone, unless its end could not be
\* stored or is still on its way, and it knows every account that is logged in,
\* unless its login is still on its way.
KnowsRightly(a) ==
  /\ a \in identities => actor[a] \in {"Ready", "Active", "Lost"} \/ EndOnItsWay(a)
  /\ actor[a] \in {"Ready", "Active"} => a \in identities \/ Waiting(a, {"Ready"})

\* Calls are routed, and heartbeats sent, for the known accounts and nobody else,
\* each by its own identifier; and as long as the coordinator runs and has missed
\* nothing, it knows the right ones.
RegistryIsCurrent ==
  /\ {i \in Id : registry[i] # Nobody} = {qq[a] : a \in identities}
  /\ \A a \in identities : registry[qq[a]] = a
  /\ Listening => \A a \in Account : KnowsRightly(a)

\* What a bot believes of its accounts and of its stream of events is true.
BotsAreTold == GapsAnnounced /\ RegistryIsCurrent

\* Routing catches up with the accounts, however slow the bots are that the
\* events are for: an account becomes known when it has logged in, and is
\* forgotten when its end was stored, unless the coordinator has ended.
RoutesSettle ==
  \A a \in Account :
    []<>(\/ coordinator.at \in {"Failed", "Ended"}
         \/ a \in identities
              <=> qq[a] # Nobody /\ actor[a] \in {"Ready", "Active", "Lost"})

\* In the end the shutdown waits for nobody but bots: one that holds an event
\* stream or a request, one that never finishes its handshake, or one that
\* does not read what is written to it.
ShutdownWaitsForBotsOnly ==
  <>[](stop => /\ coordinator.at \in {"Ended", "Failed"}
               /\ server = "Ended" \/ HeldByBot
               /\ bot.kind = "Reverse" =>
                    bot.at \in {"Ended", "Dialling", "Sending", "Closing"})
=============================================================================
