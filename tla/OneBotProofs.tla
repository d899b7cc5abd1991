---------------------------- MODULE OneBotProofs -----------------------------
(***************************************************************************)
(* Proofs about OneBotEvents, OneBotDispatch and MessageSegments, for any  *)
(* accounts, names, calls, capacities and lengths.                         *)
(*                                                                         *)
(* Between an account's login or end and the coordinator's knowledge of it *)
(* lies the hub, which may drop events.  Inv says what an event that lies  *)
(* there tells of its account, and that a login is followed by the end of  *)
(* the account, if that has come, unless the gap is marked.                *)
(*                                                                         *)
(* A call lies in the lane, before the mutex, in a channel or at an actor. *)
(* DispatchInv says that its stage names the place, that it is there once, *)
(* that of those before the mutex only the first may be past it, and that  *)
(* the lane is the end of what it has accepted.                            *)
(*                                                                         *)
(* A message on the wire is the join of what its segments were compiled    *)
(* to, each of one element or two.  MessageInv says so, and what is sent   *)
(* on is what was read; FlatTraced finds the segment behind each element,  *)
(* and AcceptedShown says what a reader makes of it.                       *)
(***************************************************************************)
EXTENDS OneBotEvents, OneBotDispatch, MessageSegments, SequenceTheorems, FiniteSetTheorems,
        WellFoundedInduction, TLAPS

Kind == {"Starting", "Ready", "Active", "Message", "OddNotice"} \union Ends

Event == [kind : Kind, account : Account]
Hub == [events : Seq(Event), lagged : BOOLEAN]

HasSeenLogin == {"Ready", "Active", "Ended", "Lost"}
NotEnded == {"Ready", "Active", "Lost"}

Typed ==
  /\ actor \in [Account -> {"New", "Starting"} \union HasSeenLogin]
  /\ qq \in [Account -> Id \union {Nobody}]
  /\ registry \in [Id -> Account \union {Nobody}]
  /\ identities \subseteq Account
  /\ hub \in Hub

CoordinatorFits ==
  /\ coordinator = [at |-> coordinator.at, work |-> coordinator.work,
                    remove |-> coordinator.remove]
  /\ coordinator.remove \in identities \union {Nobody}
  /\ coordinator.at = "Idle" => coordinator.remove = Nobody
  /\ coordinator.remove # Nobody => actor[coordinator.remove] = "Ended"

BotFits ==
  bot = [kind |-> bot.kind, at |-> bot.at, waiting |-> bot.waiting,
         lagged |-> bot.lagged, untold |-> bot.untold]

\* Behind the i-th event, the hub has the end of its account.
EndFollows(i) ==
  \E j \in DOMAIN hub.events :
    /\ j > i /\ hub.events[j].account = hub.events[i].account
    /\ hub.events[j].kind \in Ends

EventFits(i) ==
  LET event == hub.events[i]
      a == event.account
  IN /\ event.kind = "Ready" =>
          /\ actor[a] \in HasSeenLogin /\ qq[a] \in Id
          /\ hub.lagged \/ actor[a] \in NotEnded \/ EndFollows(i)
     /\ event.kind \in Ends => actor[a] = "Ended"

Inv ==
  /\ Typed /\ CoordinatorFits /\ BotFits
  /\ \A i \in DOMAIN hub.events : EventFits(i)
  /\ \A a \in identities : actor[a] \in HasSeenLogin
  /\ BotsAreTold

-----------------------------------------------------------------------------
LEMMA InitInv == Init => Inv
<1> SUFFICES ASSUME Init PROVE Inv
  OBVIOUS
<1>1. hub = [events |-> <<>>, lagged |-> FALSE] /\ hub.events = <<>>
  BY DEF Init, Subscription
<1>2. Typed
  BY <1>1 DEF Init, Typed, Hub
<1>3. CoordinatorFits
  BY DEF Init, CoordinatorFits, Resting
<1>4. BotFits /\ GapsAnnounced
  BY DEF Init, BotFits, GapsAnnounced, Away
<1>5. RegistryIsCurrent
  BY DEF Init, RegistryIsCurrent, KnowsRightly
<1>6. QED
  BY <1>1, <1>2, <1>3, <1>4, <1>5 DEF Init, Inv, BotsAreTold

-----------------------------------------------------------------------------
(* The hub.                                                                *)

LEMMA HubType ==
  ASSUME Typed
  PROVE  /\ hub.events \in Seq(Event) /\ hub.lagged \in BOOLEAN
         /\ \A i \in DOMAIN hub.events :
              hub.events[i].account \in Account /\ hub.events[i].kind \in Kind
<1>1. hub.events \in Seq(Event) /\ hub.lagged \in BOOLEAN
  BY DEF Typed, Hub
<1>2. \A i \in DOMAIN hub.events : hub.events[i] \in Event
  BY <1>1
<1>3. QED
  BY <1>1, <1>2 DEF Event

\* An event is added at the end, or there is a gap.
LEMMA Publishes ==
  ASSUME Typed, NEW kind \in Kind, NEW a \in Account, Published(kind, a)
  PROVE  LET event == [kind |-> kind, account |-> a] IN
         /\ hub' \in Hub
         /\ \A i \in DOMAIN hub'.events :
              \/ hub'.events[i] = event
              \/ \E j \in DOMAIN hub.events : hub'.events[i] = hub.events[j]
         /\ hub'.lagged \/
              /\ ~hub.lagged
              /\ Len(hub.events) \in Nat
              /\ DOMAIN hub.events = 1 .. Len(hub.events)
              /\ DOMAIN hub'.events = 1 .. Len(hub.events) + 1
              /\ hub'.events[Len(hub.events) + 1] = event
              /\ \A i \in DOMAIN hub.events : hub'.events[i] = hub.events[i]
<1> DEFINE event == [kind |-> kind, account |-> a]
           events == hub.events
<1>1. events \in Seq(Event) /\ hub.lagged \in BOOLEAN /\ event \in Event
  BY HubType DEF Event
<1>2. hub' = IF Len(events) < HubCapacity THEN [hub EXCEPT !.events = Append(@, event)]
             ELSE [events |-> Append(Tail(events), event), lagged |-> TRUE]
  BY DEF Published, Pushed
<1>3. hub = [events |-> events, lagged |-> hub.lagged]
  BY DEF Typed, Hub
<1> HIDE DEF event, events
<1>4. CASE Len(events) < HubCapacity
  <2>1. hub' = [events |-> Append(events, event), lagged |-> hub.lagged]
    BY <1>2, <1>3, <1>4
  <2>2. Append(events, event) \in Seq(Event)
    BY <1>1
  <2>3. /\ Len(events) \in Nat /\ DOMAIN events = 1 .. Len(events)
        /\ DOMAIN Append(events, event) = 1 .. Len(events) + 1
        /\ Append(events, event)[Len(events) + 1] = event
        /\ \A i \in DOMAIN events : Append(events, event)[i] = events[i]
    BY <1>1
  <2>4. \A i \in DOMAIN hub'.events :
          hub'.events[i] = event \/ \E j \in DOMAIN events : hub'.events[i] = events[j]
    BY <2>1, <2>3
  <2>5. hub' \in Hub
    BY <1>1, <2>1, <2>2 DEF Hub
  <2>6. QED
    BY <1>1, <2>1, <2>3, <2>4, <2>5 DEF events, event
<1>5. CASE ~(Len(events) < HubCapacity)
  <2>1. hub' = [events |-> Append(Tail(events), event), lagged |-> TRUE]
    BY <1>2, <1>5
  <2>2. events # <<>>
    BY <1>5, EventAssumption
  <2>3. /\ Tail(events) \in Seq(Event) /\ Len(events) \in Nat
        /\ DOMAIN events = 1 .. Len(events)
        /\ Len(Tail(events)) = Len(events) - 1
        /\ \A i \in 1 .. Len(events) - 1 : Tail(events)[i] = events[i + 1]
    BY <1>1, <2>2
  <2>4. Append(Tail(events), event) \in Seq(Event)
    BY <1>1, <2>3
  <2>5. /\ DOMAIN Append(Tail(events), event) = 1 .. Len(events)
        /\ Append(Tail(events), event)[Len(events)] = event
        /\ \A i \in 1 .. Len(events) - 1 : Append(Tail(events), event)[i] = events[i + 1]
    BY <1>1, <2>3
  <2>6. ASSUME NEW i \in 1 .. Len(events)
        PROVE  \/ Append(Tail(events), event)[i] = event
               \/ \E j \in DOMAIN events : Append(Tail(events), event)[i] = events[j]
    <3>1. CASE i = Len(events)
      BY <3>1, <2>5
    <3>2. CASE i # Len(events)
      <4>1. /\ Len(events) \in Nat /\ DOMAIN events = 1 .. Len(events)
            /\ \A k \in 1 .. Len(events) - 1 :
                 Append(Tail(events), event)[k] = events[k + 1]
        BY <2>3, <2>5
      <4>2. ASSUME NEW n \in Nat, NEW k \in 1 .. n, k # n
            PROVE  k \in 1 .. n - 1 /\ k + 1 \in 1 .. n
        BY <4>2
      <4>3. i \in 1 .. Len(events) - 1 /\ i + 1 \in 1 .. Len(events)
        BY <3>2, <4>1, <4>2
      <4>4. QED
        BY <4>1, <4>3
    <3>3. QED
      BY <3>1, <3>2
  <2>7. hub' \in Hub
    BY <2>1, <2>4 DEF Hub
  <2>8. QED
    BY <2>1, <2>5, <2>6, <2>7 DEF events, event
<1>6. QED
  BY <1>4, <1>5

-----------------------------------------------------------------------------
(* The steps of an account.                                                *)

\* An account goes on.  It publishes what it does, and always its end.
State == {"New", "Starting"} \union HasSeenLogin

GoesOn(a, kind) ==
  /\ kind \in Kind
  /\ actor' \in [Account -> State]
  /\ qq' \in [Account -> Id \union {Nobody}]
  /\ \A b \in Account \ {a} : actor'[b] = actor[b] /\ qq'[b] = qq[b]
  /\ actor[a] # "Ended"
  /\ actor[a] \in HasSeenLogin => qq'[a] = qq[a] /\ actor'[a] \in HasSeenLogin
  /\ kind = "Ready" => actor'[a] = "Ready" /\ qq'[a] \in Id
  /\ actor'[a] \in {"Ready", "Active"} => actor[a] \in {"Ready", "Active"} \/ kind = "Ready"
  /\ kind \in Ends <=> actor'[a] = "Ended"
  /\ Published(kind, a) \/ (UNCHANGED hub /\ actor'[a] # "Ended" /\ kind # "Ready")
  /\ UNCHANGED <<coordinator, identities, registry, bot>>

LEMMA AccountMoves ==
  ASSUME Inv, NEW a \in Account, NEW kind, GoesOn(a, kind)
  PROVE  Inv'
<1> USE DEF GoesOn, State
<1> DEFINE event == [kind |-> kind, account |-> a]
<1>1. Typed /\ hub' \in Hub
  BY Publishes DEF Inv, Typed
<1>2. Typed'
  BY <1>1 DEF Typed
<1>3. CoordinatorFits' /\ BotFits' /\ GapsAnnounced'
  <2>1. coordinator.remove # Nobody =>
          coordinator.remove \in Account \ {a} /\ actor[coordinator.remove] = "Ended"
    BY <1>1 DEF Inv, CoordinatorFits, Typed
  <2>2. coordinator.remove # Nobody => actor'[coordinator.remove] = "Ended"
    BY <2>1
  <2>3. CoordinatorFits'
    BY <2>2 DEF Inv, CoordinatorFits
  <2>4. QED
    BY <2>3 DEF Inv, BotFits, BotsAreTold, GapsAnnounced
<1>4. \A b \in identities : actor[b] \in HasSeenLogin /\ b \in Account
  BY <1>1 DEF Inv, Typed
<1>5. \A b \in identities' : actor'[b] \in HasSeenLogin
  BY <1>4
<1>6. \A b \in identities : qq'[b] = qq[b]
  BY <1>4
<1>7. ASSUME NEW i \in DOMAIN hub.events
      PROVE  /\ hub.events[i].account \in Account
             /\ hub.events[i].kind = "Ready" =>
                  /\ actor'[hub.events[i].account] \in HasSeenLogin
                  /\ qq'[hub.events[i].account] \in Id
             /\ hub.events[i].kind \in Ends => actor'[hub.events[i].account] = "Ended"
  <2>1. EventFits(i) /\ hub.events[i].account \in Account
    BY <1>1, HubType DEF Inv
  <2>2. QED
    BY <2>1 DEF EventFits
<1>8. CASE UNCHANGED hub /\ actor'[a] # "Ended" /\ kind # "Ready"
  <2>1. ASSUME NEW i \in DOMAIN hub'.events PROVE EventFits(i)'
    <3>1. EventFits(i) /\ i \in DOMAIN hub.events
      BY <1>8 DEF Inv
    <3>2. EndFollows(i)' <=> EndFollows(i)
      BY <1>8 DEF EndFollows
    <3>3. actor[hub.events[i].account] \in NotEnded =>
            actor'[hub.events[i].account] \in NotEnded
      BY <1>7, <1>8, <3>1 DEF HasSeenLogin, NotEnded
    <3>4. QED
      BY <1>7, <1>8, <3>1, <3>2, <3>3 DEF EventFits
  <2>2. RegistryIsCurrent'
    <3>1. ASSUME NEW b \in Account, Listening' PROVE KnowsRightly(b)'
      <4>1. KnowsRightly(b)
        BY <1>8, <3>1 DEF Inv, BotsAreTold, RegistryIsCurrent, Listening
      <4>2. /\ EndOnItsWay(b)' <=> EndOnItsWay(b)
            /\ Waiting(b, {"Ready"})' <=> Waiting(b, {"Ready"})
        BY <1>8 DEF EndOnItsWay, Waiting
      <4>3. b # a => actor'[b] = actor[b]
        OBVIOUS
      <4>4. b \in identities' => b \in identities /\ actor'[b] \in HasSeenLogin
        BY <1>4
      <4>5. b \in identities <=> b \in identities'
        OBVIOUS
      <4>6. CASE b # a
        BY <4>1, <4>2, <4>3, <4>5, <4>6 DEF KnowsRightly
      <4>7. CASE b = a
        BY <1>8, <4>1, <4>2, <4>4, <4>5, <4>7 DEF KnowsRightly, HasSeenLogin
      <4>8. QED
        BY <4>6, <4>7
    <3>2. /\ {i \in Id : registry'[i] # Nobody} = {qq'[b] : b \in identities'}
          /\ \A b \in identities' : registry'[qq'[b]] = b
      BY <1>6 DEF Inv, BotsAreTold, RegistryIsCurrent
    <3>3. QED
      BY <3>1, <3>2 DEF RegistryIsCurrent
  <2>3. QED
    BY <1>2, <1>3, <1>5, <2>1, <2>2 DEF Inv, BotsAreTold
<1>9. CASE Published(kind, a)
  <2>1. \A i \in DOMAIN hub'.events :
          hub'.events[i] = event \/ \E j \in DOMAIN hub.events : hub'.events[i] = hub.events[j]
    BY <1>1, <1>9, Publishes
  <2>2. hub'.lagged \/
          /\ ~hub.lagged
          /\ Len(hub.events) \in Nat
          /\ DOMAIN hub.events = 1 .. Len(hub.events)
          /\ DOMAIN hub'.events = 1 .. Len(hub.events) + 1
          /\ hub'.events[Len(hub.events) + 1] = event
          /\ \A i \in DOMAIN hub.events : hub'.events[i] = hub.events[i]
    BY <1>1, <1>9, Publishes
  <2>3. event.kind = kind /\ event.account = a
    OBVIOUS
  <2> HIDE DEF event
  <2>4. ASSUME NEW i \in DOMAIN hub'.events PROVE EventFits(i)'
    <3>1. /\ hub'.events[i].kind = "Ready" =>
               /\ actor'[hub'.events[i].account] \in HasSeenLogin
               /\ qq'[hub'.events[i].account] \in Id
          /\ hub'.events[i].kind \in Ends => actor'[hub'.events[i].account] = "Ended"
      BY <1>7, <2>1, <2>3 DEF HasSeenLogin
    <3>2. CASE hub'.lagged
      BY <3>1, <3>2 DEF EventFits
    <3>3. CASE hub'.events[i] = event
      BY <2>3, <3>1, <3>3 DEF EventFits, NotEnded
    <3>4. CASE ~hub'.lagged /\ hub'.events[i] # event
      <4>1. i \in DOMAIN hub.events /\ hub'.events[i] = hub.events[i]
        BY <2>2, <3>4
      <4>2. EventFits(i)
        BY <4>1 DEF Inv
      <4>3. EndFollows(i) => EndFollows(i)'
        BY <2>2, <3>4, <4>1 DEF EndFollows
      <4>4. actor[hub.events[i].account] \in NotEnded
              => actor'[hub.events[i].account] \in NotEnded \/ EndFollows(i)'
        <5>1. SUFFICES ASSUME hub.events[i].account = a, actor'[a] = "Ended"
                       PROVE  EndFollows(i)'
          BY <1>7, <4>1, <4>2 DEF HasSeenLogin, NotEnded
        <5>2. Len(hub.events) + 1 \in DOMAIN hub'.events /\ Len(hub.events) + 1 > i
          BY <2>2, <3>4, <4>1
        <5>3. kind \in Ends
          BY <5>1
        <5>4. QED
          BY <2>2, <2>3, <3>4, <4>1, <5>1, <5>2, <5>3 DEF EndFollows
      <4>5. QED
        BY <2>2, <3>1, <3>4, <4>1, <4>2, <4>3, <4>4 DEF EventFits
    <3>5. QED
      BY <3>2, <3>3, <3>4
  <2>5. RegistryIsCurrent'
    <3>1. ASSUME NEW b \in Account, Listening' PROVE KnowsRightly(b)'
      <4>1. KnowsRightly(b) /\ ~hub'.lagged
        BY <2>2, <3>1 DEF Inv, BotsAreTold, RegistryIsCurrent, Listening
      <4>2. ASSUME NEW kinds, Waiting(b, kinds) PROVE Waiting(b, kinds)'
        BY <2>2, <4>1, <4>2 DEF Waiting
      <4>3. ASSUME NEW kinds, b = a, kind \in kinds PROVE Waiting(b, kinds)'
        <5>1. Len(hub.events) + 1 \in DOMAIN hub'.events
          BY <2>2, <4>1
        <5>2. QED
          BY <2>2, <2>3, <4>1, <4>3, <5>1 DEF Waiting
      <4>4. EndOnItsWay(b) => EndOnItsWay(b)'
        BY <4>2 DEF EndOnItsWay
      <4>5. b = a /\ actor'[a] = "Ended" => EndOnItsWay(b)'
        BY <4>3 DEF EndOnItsWay
      <4>6. b \in identities' => b \in identities /\ actor'[b] \in HasSeenLogin
        BY <1>4
      <4>7. b \in identities' =>
              actor'[b] \in {"Ready", "Active", "Lost"} \/ EndOnItsWay(b)'
        BY <4>1, <4>4, <4>5, <4>6 DEF KnowsRightly, HasSeenLogin
      <4>8. CASE b = a /\ kind = "Ready"
        BY <4>3, <4>7, <4>8 DEF KnowsRightly
      <4>9. CASE ~(b = a /\ kind = "Ready")
        <5>1. actor'[b] \in {"Ready", "Active"} => actor[b] \in {"Ready", "Active"}
          BY <4>9
        <5>2. QED
          BY <4>1, <4>2, <4>7, <5>1 DEF KnowsRightly
      <4>10. QED
        BY <4>8, <4>9
    <3>2. /\ {i \in Id : registry'[i] # Nobody} = {qq'[b] : b \in identities'}
          /\ \A b \in identities' : registry'[qq'[b]] = b
      BY <1>6 DEF Inv, BotsAreTold, RegistryIsCurrent
    <3>3. QED
      BY <3>1, <3>2 DEF RegistryIsCurrent
  <2>6. QED
    BY <1>2, <1>3, <1>5, <2>4, <2>5 DEF Inv, BotsAreTold
<1>10. QED
  BY <1>8, <1>9

LEMMA AccountStepInv ==
  ASSUME Inv, NEW a \in Account, AccountStep(a)
  PROVE  Inv'
<1>1. /\ Typed /\ actor \in [Account -> State]
      /\ qq \in [Account -> Id \union {Nobody}]
  BY DEF Inv, Typed, State
<1>2. ASSUME NEW to \in State, actor' = [actor EXCEPT ![a] = to]
      PROVE  /\ actor' \in [Account -> State] /\ actor'[a] = to
             /\ \A b \in Account \ {a} : actor'[b] = actor[b]
  BY <1>1, <1>2
<1>3. UNCHANGED bots => bot' = bot
  BY DEF bots
<1>4. CASE Start(a)
  <2>1. /\ actor[a] \in {"New"} /\ actor' = [actor EXCEPT ![a] = "Starting"]
        /\ Published("Starting", a) /\ UNCHANGED qq
        /\ UNCHANGED <<coordinator, identities, registry, bots>>
    BY <1>4 DEF Start, Moves
  <2>2. "Starting" \in State
    BY DEF State, HasSeenLogin
  <2>3. GoesOn(a, "Starting")
    BY <1>1, <1>2, <1>3, <2>1, <2>2 DEF GoesOn, HasSeenLogin, Kind, Ends
  <2>4. QED
    BY <2>3, AccountMoves
<1>5. CASE Activate(a)
  <2>1. /\ actor[a] \in {"Ready"} /\ actor' = [actor EXCEPT ![a] = "Active"]
        /\ Published("Active", a) /\ UNCHANGED qq
        /\ UNCHANGED <<coordinator, identities, registry, bots>>
    BY <1>5 DEF Activate, Moves
  <2>2. "Active" \in State
    BY DEF State, HasSeenLogin
  <2>3. GoesOn(a, "Active")
    BY <1>1, <1>2, <1>3, <2>1, <2>2 DEF GoesOn, HasSeenLogin, Kind, Ends
  <2>4. QED
    BY <2>3, AccountMoves
<1>6. ASSUME NEW i \in Id, LogIn(a, i) PROVE Inv'
  <2>1. /\ actor[a] \in {"Starting"} /\ actor' = [actor EXCEPT ![a] = "Ready"]
        /\ Published("Ready", a) /\ qq' = [qq EXCEPT ![a] = i]
        /\ UNCHANGED <<coordinator, identities, registry, bots>>
    BY <1>6 DEF LogIn, Moves
  <2>2. "Ready" \in State
    BY DEF State, HasSeenLogin
  <2>3. GoesOn(a, "Ready")
    BY <1>1, <1>2, <1>3, <2>1, <2>2 DEF GoesOn, HasSeenLogin, Kind, Ends
  <2>4. QED
    BY <2>3, AccountMoves
<1>7. ASSUME NEW kind \in {"Message", "OddNotice"}, Happens(a, kind) PROVE Inv'
  <2>1. /\ actor[a] = "Active" /\ UNCHANGED <<actor, qq>> /\ Published(kind, a)
        /\ UNCHANGED <<coordinator, identities, registry, bots>>
    BY <1>7 DEF Happens
  <2>2. GoesOn(a, kind)
    BY <1>1, <1>3, <2>1 DEF GoesOn, HasSeenLogin, Kind, Ends
  <2>3. QED
    BY <2>2, AccountMoves
<1>8. ASSUME NEW kind \in Ends, NEW stored \in BOOLEAN, End(a, kind, stored) PROVE Inv'
  <2>1. /\ actor[a] \in {"Starting", "Ready", "Active"}
        /\ UNCHANGED <<qq, coordinator, identities, registry, bots>>
    BY <1>8 DEF End, Moves
  <2>2. CASE stored
    <3>1. actor' = [actor EXCEPT ![a] = "Ended"] /\ Published(kind, a)
      BY <1>8, <2>2 DEF End, Moves
    <3>2. "Ended" \in State
      BY DEF State, HasSeenLogin
    <3>3. GoesOn(a, kind)
      BY <1>1, <1>2, <1>3, <2>1, <3>1, <3>2 DEF GoesOn, HasSeenLogin, Kind, Ends
    <3>4. QED
      BY <3>3, AccountMoves
  <2>3. CASE ~stored
    <3>1. actor' = [actor EXCEPT ![a] = "Lost"] /\ UNCHANGED hub
      BY <1>8, <2>3 DEF End, Moves
    <3>2. "Lost" \in State
      BY DEF State, HasSeenLogin
    <3>3. GoesOn(a, "Message")
      BY <1>1, <1>2, <1>3, <2>1, <3>1, <3>2 DEF GoesOn, HasSeenLogin, Kind, Ends
    <3>4. QED
      BY <3>3, AccountMoves
  <2>4. QED
    BY <2>2, <2>3
<1>9. QED
  BY <1>4, <1>5, <1>6, <1>7, <1>8 DEF AccountStep

-----------------------------------------------------------------------------
(* The coordinator.                                                        *)

LEMMA CoordinateInv ==
  ASSUME Inv, Coordinate PROVE Inv'
<1>1. /\ Typed /\ coordinator.at = "Idle" /\ coordinator.remove = Nobody
      /\ hub.events \in Seq(Event) /\ hub.events # <<>>
      /\ UNCHANGED <<actor, qq, spent, bots, stop>> /\ bot' = bot
  BY HubType DEF Inv, CoordinatorFits, Coordinate, bots
<1> PICK event \in Event : event = Head(hub.events)
  BY <1>1
<1> DEFINE a == event.account
<1>2. /\ Len(hub.events) \in Nat /\ DOMAIN hub.events = 1 .. Len(hub.events)
      /\ 1 \in DOMAIN hub.events /\ event = hub.events[1]
      /\ Tail(hub.events) \in Seq(Event)
      /\ DOMAIN Tail(hub.events) = 1 .. Len(hub.events) - 1
      /\ \A i \in 1 .. Len(hub.events) - 1 : Tail(hub.events)[i] = hub.events[i + 1]
  BY <1>1
<1>3. a \in Account /\ event.kind \in Kind /\ EventFits(1)
  BY <1>1, <1>2, HubType DEF Inv
<1>4. BotFits' /\ GapsAnnounced'
  BY <1>1 DEF Inv, BotFits, BotsAreTold, GapsAnnounced
<1>5. CASE hub.lagged \/ (event.kind = "Ready" /\ registry[qq[a]] # Nobody)
  <2>1. /\ coordinator' = [Resting EXCEPT !.at = "Failed"]
        /\ UNCHANGED <<hub, identities, registry>>
    BY <1>5 DEF Coordinate
  <2>2. coordinator' = [at |-> "Failed", work |-> <<>>, remove |-> Nobody]
    BY <2>1 DEF Resting
  <2>3. CoordinatorFits'
    <3>1. /\ coordinator'.at = "Failed" /\ coordinator'.work = <<>>
          /\ coordinator'.remove = Nobody
      BY <2>2
    <3>2. QED
      BY <2>2, <3>1 DEF CoordinatorFits
  <2>4. Typed'
    BY <1>1, <2>1 DEF Typed
  <2>5. ASSUME NEW i \in DOMAIN hub'.events PROVE EventFits(i)'
    BY <1>1, <2>1 DEF Inv, EventFits, EndFollows
  <2>6. RegistryIsCurrent'
    <3>1. ~Listening'
      BY <2>2 DEF Listening
    <3>2. QED
      BY <1>1, <2>1, <3>1 DEF Inv, BotsAreTold, RegistryIsCurrent
  <2>7. \A b \in identities' : actor'[b] \in HasSeenLogin
    BY <1>1, <2>1 DEF Inv
  <2>8. QED
    BY <1>4, <2>3, <2>4, <2>5, <2>6, <2>7 DEF Inv, BotsAreTold
<1>6. CASE ~hub.lagged /\ ~(event.kind = "Ready" /\ registry[qq[a]] # Nobody)
  <2>1. /\ hub' = [hub EXCEPT !.events = Tail(@)]
        /\ identities' = IF event.kind = "Ready" THEN identities \union {a} ELSE identities
        /\ registry' = IF event.kind = "Ready" THEN [registry EXCEPT ![qq[a]] = a]
                       ELSE registry
        /\ \E work : coordinator' = Busy(work, IF Removes(event) THEN a ELSE Nobody)
    BY <1>6 DEF Coordinate
  <2>2. hub'.events = Tail(hub.events) /\ ~hub'.lagged /\ hub' \in Hub
    <3>1. hub' = [events |-> Tail(hub.events), lagged |-> hub.lagged]
      BY <1>1, <2>1 DEF Typed, Hub
    <3>2. Tail(hub.events) \in Seq(Event) /\ hub.lagged \in BOOLEAN /\ ~hub.lagged
      BY <1>1, <1>2, <1>6, HubType
    <3>3. QED
      BY <3>1, <3>2 DEF Hub
  <2>3. coordinator'.at = "Reporting"
        /\ coordinator'.remove = (IF Removes(event) THEN a ELSE Nobody)
        /\ coordinator' = [at |-> coordinator'.at, work |-> coordinator'.work,
                            remove |-> coordinator'.remove]
    BY <2>1 DEF Busy
  <2>4. CoordinatorFits'
    <3>1. /\ coordinator'.remove \in identities' \union {Nobody}
          /\ coordinator'.remove # Nobody => actor'[coordinator'.remove] = "Ended"
      BY <1>1, <1>2, <1>3, <2>1, <2>3 DEF Removes, EventFits
    <3>2. QED
      BY <2>3, <3>1 DEF CoordinatorFits
  <2>5. event.kind = "Ready" => qq[a] \in Id /\ registry[qq[a]] = Nobody
                                /\ actor[a] \in HasSeenLogin
    BY <1>2, <1>3, <1>6 DEF EventFits
  <2>6. Typed'
    BY <1>1, <1>3, <2>1, <2>2, <2>5 DEF Typed
  <2>7. ASSUME NEW i \in DOMAIN hub'.events
        PROVE  /\ i + 1 \in DOMAIN hub.events /\ i \in 1 .. Len(hub.events) - 1
               /\ hub'.events[i] = hub.events[i + 1]
    BY <1>2, <2>2
  <2>8. ASSUME NEW j \in DOMAIN hub.events, j # 1
        PROVE  j - 1 \in DOMAIN hub'.events /\ hub'.events[j - 1] = hub.events[j]
    <3>1. j - 1 \in 1 .. Len(hub.events) - 1 /\ (j - 1) + 1 = j
      BY <1>2, <2>8
    <3>2. QED
      BY <1>2, <2>2, <3>1
  <2>9. ASSUME NEW i \in DOMAIN hub'.events PROVE EventFits(i)'
    <3>1. EventFits(i + 1)
      BY <2>7 DEF Inv
    <3>2. EndFollows(i + 1) => EndFollows(i)'
      <4>1. SUFFICES ASSUME NEW j \in DOMAIN hub.events, j > i + 1,
                            hub.events[j].account = hub.events[i + 1].account,
                            hub.events[j].kind \in Ends
                     PROVE  EndFollows(i)'
        BY DEF EndFollows
      <4>2. j # 1 /\ j - 1 > i
        <5>1. i \in Nat /\ j \in Nat
          BY <1>2, <2>7
        <5>2. QED
          BY <4>1, <5>1
      <4>3. QED
        BY <2>7, <2>8, <4>1, <4>2 DEF EndFollows
    <3>3. QED
      BY <1>1, <1>6, <2>2, <2>7, <3>1, <3>2 DEF EventFits
  <2>10. ASSUME NEW b \in Account, NEW kinds, Waiting(b, kinds)
         PROVE  Waiting(b, kinds)' \/ (b = a /\ event.kind \in kinds)
    <3>1. PICK j \in DOMAIN hub.events : hub.events[j].account = b /\ hub.events[j].kind \in kinds
      BY <2>10 DEF Waiting
    <3>2. CASE j = 1
      BY <1>2, <3>1, <3>2
    <3>3. CASE j # 1
      BY <2>8, <3>1, <3>3 DEF Waiting
    <3>4. QED
      BY <3>2, <3>3
  <2>11. ASSUME NEW b \in Account, Waiting(b, Ends), b \in identities
         PROVE  EndOnItsWay(b)'
    <3>1. CASE Waiting(b, Ends)'
      BY <3>1 DEF EndOnItsWay
    <3>2. CASE b = a /\ event.kind \in Ends
      BY <2>3, <2>11, <3>2 DEF EndOnItsWay, Removes
    <3>3. QED
      BY <2>10, <2>11, <3>1, <3>2
  <2>12. RegistryIsCurrent'
    <3>1. /\ {i \in Id : registry[i] # Nobody} = {qq[b] : b \in identities}
          /\ \A b \in identities : registry[qq[b]] = b
          /\ \A b \in Account : KnowsRightly(b)
      BY <1>1, <1>6 DEF Inv, BotsAreTold, RegistryIsCurrent, Listening
    <3>2. identities \subseteq Account
      BY <1>1 DEF Typed
    <3>3. /\ {i \in Id : registry'[i] # Nobody} = {qq'[b] : b \in identities'}
          /\ \A b \in identities' : registry'[qq'[b]] = b
      <4>1. CASE event.kind # "Ready"
        BY <1>1, <2>1, <3>1, <4>1
      <4>2. CASE event.kind = "Ready"
        <5>1. /\ registry' = [registry EXCEPT ![qq[a]] = a]
              /\ identities' = identities \union {a} /\ qq' = qq
          BY <1>1, <2>1, <4>2
        <5>2. registry \in [Id -> Account \union {Nobody}]
          BY <1>1 DEF Typed
        <5>3. \A b \in identities : qq[b] # qq[a] /\ registry[qq[b]] = b /\ qq[b] \in Id
          BY <2>5, <3>1, <3>2, <4>2, <5>2, EventAssumption
        <5>4. \A b \in identities' : registry'[qq'[b]] = b
          BY <2>5, <4>2, <5>1, <5>2, <5>3
        <5>5. {i \in Id : registry'[i] # Nobody} = {qq'[b] : b \in identities'}
          BY <1>3, <2>5, <3>1, <4>2, <5>1, <5>2, EventAssumption
        <5>6. QED
          BY <5>4, <5>5
      <4>3. QED
        BY <4>1, <4>2
    <3>4. ASSUME NEW b \in Account, b \in identities'
          PROVE  actor'[b] \in {"Ready", "Active", "Lost"} \/ EndOnItsWay(b)'
      <4>1. CASE b \in identities
        <5>1. coordinator.remove # b
          BY <1>1, EventAssumption
        <5>2. EndOnItsWay(b) => EndOnItsWay(b)'
          BY <2>11, <4>1, <5>1 DEF EndOnItsWay
        <5>3. QED
          BY <1>1, <3>1, <4>1, <5>2 DEF KnowsRightly
      <4>2. CASE b \notin identities
        <5>1. b = a /\ event.kind = "Ready"
          BY <2>1, <3>4, <4>2
        <5>2. actor[a] \in NotEnded \/ EndFollows(1)
          BY <1>2, <1>3, <1>6, <5>1 DEF EventFits
        <5>3. EndFollows(1) => Waiting(a, Ends)
          BY <1>2 DEF EndFollows, Waiting
        <5>4. event.kind \notin Ends
          BY <5>1 DEF Ends
        <5>5. Waiting(a, Ends) => EndOnItsWay(a)'
          BY <1>3, <2>10, <5>4 DEF EndOnItsWay
        <5>6. QED
          BY <1>1, <5>1, <5>2, <5>3, <5>5 DEF NotEnded
      <4>3. QED
        BY <4>1, <4>2
    <3>5. ASSUME NEW b \in Account, actor'[b] \in {"Ready", "Active"}
          PROVE  b \in identities' \/ Waiting(b, {"Ready"})'
      <4>1. b \in identities \/ Waiting(b, {"Ready"})
        BY <1>1, <3>1, <3>5 DEF KnowsRightly
      <4>2. b = a /\ event.kind \in {"Ready"} => b \in identities'
        BY <2>1
      <4>3. identities \subseteq identities'
        BY <2>1
      <4>4. QED
        BY <2>10, <4>1, <4>2, <4>3
    <3>6. \A b \in Account : KnowsRightly(b)'
      BY <3>4, <3>5 DEF KnowsRightly
    <3>7. QED
      BY <3>3, <3>6 DEF RegistryIsCurrent
  <2>13. \A b \in identities' : actor'[b] \in HasSeenLogin
    BY <1>1, <2>1, <2>5 DEF Inv
  <2>14. QED
    BY <1>4, <2>4, <2>6, <2>9, <2>12, <2>13 DEF Inv, BotsAreTold
<1>7. QED
  BY <1>5, <1>6

\* What the registry and the hub say of the accounts does not change.
LEMMA AccountsStay ==
  ASSUME Inv, UNCHANGED <<actor, qq, hub, identities, registry>>,
         coordinator'.remove = coordinator.remove,
         coordinator'.at \in {"Idle", "Reporting"} => coordinator.at \in {"Idle", "Reporting"},
         CoordinatorFits', BotFits', GapsAnnounced'
  PROVE  Inv'
<1>1. Typed'
  BY DEF Inv, Typed
<1>2. \A i \in DOMAIN hub'.events : EventFits(i)'
  BY DEF Inv, EventFits, EndFollows
<1>3. \A a \in Account : KnowsRightly(a) => KnowsRightly(a)'
  BY DEF KnowsRightly, EndOnItsWay, Waiting
<1>4. RegistryIsCurrent'
  BY <1>3 DEF Inv, BotsAreTold, RegistryIsCurrent, Listening
<1>5. \A a \in identities' : actor'[a] \in HasSeenLogin
  BY DEF Inv
<1>6. QED
  BY <1>1, <1>2, <1>4, <1>5 DEF Inv, BotsAreTold

LEMMA HeartbeatInv ==
  ASSUME Inv, Heartbeat PROVE Inv'
<1>1. PICK work : coordinator' = Busy(work, Nobody)
  BY DEF Heartbeat
<1>2. /\ coordinator'.at = "Reporting" /\ coordinator'.remove = Nobody
      /\ coordinator' = [at |-> coordinator'.at, work |-> coordinator'.work,
                         remove |-> coordinator'.remove]
  BY <1>1 DEF Busy
<1>3. /\ coordinator.at = "Idle" /\ coordinator.remove = Nobody
      /\ UNCHANGED <<actor, qq, hub, identities, registry, bot>>
  BY DEF Inv, CoordinatorFits, Heartbeat, bots
<1>4. CoordinatorFits' /\ BotFits' /\ GapsAnnounced'
  BY <1>2, <1>3 DEF Inv, CoordinatorFits, BotFits, BotsAreTold, GapsAnnounced
<1>5. QED
  BY <1>2, <1>3, <1>4, AccountsStay

LEMMA ReportInv ==
  ASSUME Inv, Report PROVE Inv'
<1>1. /\ coordinator.at = "Reporting"
      /\ coordinator' = [coordinator EXCEPT !.work = Tail(@)]
      /\ UNCHANGED <<actor, qq, hub, identities, registry>>
  BY DEF Report
<1>2. coordinator = [at |-> coordinator.at, work |-> coordinator.work,
                     remove |-> coordinator.remove]
  BY DEF Inv, CoordinatorFits
<1>3. coordinator' = [at |-> coordinator.at, work |-> Tail(coordinator.work),
                      remove |-> coordinator.remove]
  BY <1>1, <1>2
<1>4. CoordinatorFits' /\ coordinator'.remove = coordinator.remove
  BY <1>1, <1>3 DEF Inv, CoordinatorFits
<1>5. bot = [kind |-> bot.kind, at |-> bot.at, waiting |-> bot.waiting,
             lagged |-> bot.lagged, untold |-> bot.untold]
  BY DEF Inv, BotFits
<1>6. \/ bot' = bot
      \/ bot' = [kind |-> bot.kind, at |-> bot.at, waiting |-> bot.waiting + 1,
                 lagged |-> bot.lagged, untold |-> bot.untold]
      \/ bot' = [kind |-> bot.kind, at |-> bot.at, waiting |-> bot.waiting,
                 lagged |-> TRUE, untold |-> TRUE]
  BY <1>5 DEF Report
<1>7. BotFits' /\ GapsAnnounced'
  BY <1>6 DEF Inv, BotFits, BotsAreTold, GapsAnnounced
<1>8. QED
  BY <1>1, <1>4, <1>7, AccountsStay

LEMMA SettleInv ==
  ASSUME Inv, Settle PROVE Inv'
<1>1. /\ coordinator.at = "Reporting" /\ coordinator' = Resting
      /\ UNCHANGED <<actor, qq, hub, bot>> /\ Typed
  BY DEF Settle, Inv, bots
<1>2. coordinator'.remove = Nobody /\ CoordinatorFits' /\ BotFits' /\ GapsAnnounced'
  BY <1>1 DEF Inv, Resting, CoordinatorFits, BotFits, BotsAreTold, GapsAnnounced
<1>3. CASE coordinator.remove = Nobody
  BY <1>1, <1>2, <1>3, AccountsStay DEF Settle
<1>4. CASE coordinator.remove # Nobody
  <2> PICK a \in Account : a = coordinator.remove /\ a \in identities
    BY <1>1, <1>4 DEF Inv, CoordinatorFits, Typed
  <2>0. actor[a] = "Ended"
    BY <1>4 DEF Inv, CoordinatorFits
  <2>1. identities' = identities \ {a} /\ registry' = [registry EXCEPT ![qq[a]] = Nobody]
    BY <1>4 DEF Settle
  <2>2. /\ {i \in Id : registry[i] # Nobody} = {qq[b] : b \in identities}
        /\ \A b \in identities : registry[qq[b]] = b
    BY DEF Inv, BotsAreTold, RegistryIsCurrent
  <2>3. registry \in [Id -> Account \union {Nobody}] /\ identities \subseteq Account
    BY <1>1 DEF Typed
  <2>4. qq[a] \in Id /\ \A b \in identities' : qq[b] # qq[a]
    BY <2>1, <2>2
  <2>5. Typed'
    BY <1>1, <2>1, <2>3 DEF Typed
  <2>6. \A i \in DOMAIN hub'.events : EventFits(i)'
    BY <1>1 DEF Inv, EventFits, EndFollows
  <2>7. RegistryIsCurrent'
    <3>1. {i \in Id : registry'[i] # Nobody} = {qq'[b] : b \in identities'}
      BY <1>1, <2>1, <2>2, <2>3, <2>4
    <3>2. \A b \in identities' : registry'[qq'[b]] = b
      BY <1>1, <2>1, <2>2, <2>3, <2>4
    <3>3. ASSUME NEW b \in Account, Listening' PROVE KnowsRightly(b)'
      <4>1. KnowsRightly(b)
        BY <1>1, <3>3 DEF Inv, BotsAreTold, RegistryIsCurrent, Listening
      <4>2. /\ Waiting(b, Ends)' <=> Waiting(b, Ends)
            /\ Waiting(b, {"Ready"})' <=> Waiting(b, {"Ready"})
        BY <1>1 DEF Waiting
      <4>3. b # a => EndOnItsWay(b)' \/ ~EndOnItsWay(b)
        BY <4>2 DEF EndOnItsWay
      <4>4. CASE b = a
        BY <1>1, <2>1, <4>4, <2>0 DEF KnowsRightly
      <4>5. CASE b # a
        BY <1>1, <2>1, <4>1, <4>2, <4>3, <4>5 DEF KnowsRightly
      <4>6. QED
        BY <4>4, <4>5
    <3>4. QED
      BY <3>1, <3>2, <3>3 DEF RegistryIsCurrent
  <2>8. \A b \in identities' : actor'[b] \in HasSeenLogin
    BY <1>1, <2>1 DEF Inv
  <2>9. QED
    BY <1>2, <2>5, <2>6, <2>7, <2>8 DEF Inv, BotsAreTold
<1>5. QED
  BY <1>3, <1>4

LEMMA CoordinatorStepInv ==
  ASSUME Inv, CoordinatorStep PROVE Inv'
<1>1. CASE CoordinatorStops
  <2>1. /\ coordinator.remove = Nobody /\ coordinator' = [Resting EXCEPT !.at = "Ended"]
        /\ UNCHANGED <<actor, qq, hub, identities, registry, bot>>
    BY <1>1 DEF CoordinatorStops, Inv, CoordinatorFits, bots
  <2>2. coordinator' = [at |-> "Ended", work |-> <<>>, remove |-> Nobody]
    BY <2>1 DEF Resting
  <2>3. /\ coordinator'.at = "Ended" /\ coordinator'.work = <<>>
        /\ coordinator'.remove = Nobody
    BY <2>2
  <2>4. CoordinatorFits'
    BY <2>2, <2>3 DEF CoordinatorFits
  <2>5. BotFits' /\ GapsAnnounced'
    BY <2>1 DEF Inv, BotFits, BotsAreTold, GapsAnnounced
  <2>6. QED
    BY <2>1, <2>3, <2>4, <2>5, AccountsStay
<1>2. QED
  BY <1>1, CoordinateInv, ReportInv, SettleInv DEF CoordinatorStep

-----------------------------------------------------------------------------
(* The bots.                                                               *)

\* A connection goes on as it is, or begins or ends, or is told of its gap.
LEMMA BotMovesInv ==
  ASSUME Inv, UNCHANGED accounts,
         BotFits', bot'.untold => bot'.lagged
  PROVE  Inv'
<1>1. UNCHANGED <<actor, qq, hub, coordinator, identities, registry>>
  BY DEF accounts
<1>2. CoordinatorFits' /\ GapsAnnounced'
  BY <1>1 DEF Inv, CoordinatorFits, GapsAnnounced
<1>3. QED
  BY <1>1, <1>2, AccountsStay

LEMMA ConnectionsInv ==
  ASSUME Inv, BotStep \/ ConnectionStep PROVE Inv'
<1>1. /\ bot = [kind |-> bot.kind, at |-> bot.at, waiting |-> bot.waiting,
                lagged |-> bot.lagged, untold |-> bot.untold]
      /\ bot.untold => bot.lagged
  BY DEF Inv, BotFits, BotsAreTold, GapsAnnounced
<1>2. ASSUME NEW to, bot' = [bot EXCEPT !.at = to]
      PROVE  BotFits' /\ (bot'.untold => bot'.lagged)
  BY <1>1, <1>2 DEF BotFits
<1>3. ASSUME NEW kind, NEW at,
             bot' = [kind |-> kind, at |-> at, waiting |-> 0,
                     lagged |-> FALSE, untold |-> FALSE]
      PROVE  BotFits' /\ (bot'.untold => bot'.lagged)
  BY <1>3 DEF BotFits
<1>4. ASSUME NEW kind, NEW at, bot' = [Away(kind) EXCEPT !.at = at]
      PROVE  BotFits' /\ (bot'.untold => bot'.lagged)
  BY <1>3, <1>4 DEF Away
<1>5. CASE ForwardNext
  <2>1. \/ bot' = [kind |-> bot.kind, at |-> "Sending", waiting |-> bot.waiting,
                   lagged |-> FALSE, untold |-> FALSE]
        \/ bot' = [kind |-> bot.kind, at |-> "Sending", waiting |-> bot.waiting - 1,
                   lagged |-> bot.lagged, untold |-> bot.untold]
    BY <1>1, <1>5 DEF ForwardNext
  <2>2. BotFits' /\ (bot'.untold => bot'.lagged)
    BY <1>1, <2>1 DEF BotFits
  <2>3. QED
    BY <1>5, <2>2, BotMovesInv DEF ForwardNext
<1>6. ASSUME NEW mine \in BOOLEAN, ReverseNext(mine) PROVE Inv'
  <2>1. \/ bot' = [Away("Reverse") EXCEPT !.at = "Delay"]
        \/ bot' = [kind |-> bot.kind, at |-> IF mine THEN "Sending" ELSE "Open",
                   waiting |-> bot.waiting - 1, lagged |-> bot.lagged, untold |-> bot.untold]
    BY <1>1, <1>6 DEF ReverseNext, Dropped
  <2>2. BotFits' /\ (bot'.untold => bot'.lagged)
    BY <1>1, <1>4, <2>1 DEF BotFits
  <2>3. QED
    BY <1>6, <2>2, BotMovesInv DEF ReverseNext
<1>7. CASE Join
  BY <1>4, <1>7, BotMovesInv DEF Join
<1>8. CASE Leave
  BY <1>3, <1>8, BotMovesInv DEF Leave, Away
<1>9. ASSUME NEW closed \in BOOLEAN, ReverseLost(closed) PROVE Inv'
  <2>1. bot' = Away("Reverse") \/ bot' = [Away("Reverse") EXCEPT !.at = "Delay"]
    BY <1>9 DEF ReverseLost, Dropped
  <2>2. BotFits' /\ (bot'.untold => bot'.lagged)
    BY <1>3, <1>4, <2>1 DEF Away
  <2>3. QED
    BY <1>9, <2>2, BotMovesInv DEF ReverseLost
<1>10. ASSUME NEW kinds, NEW from, NEW to, BotMoves(kinds, from, to) PROVE Inv'
  BY <1>2, <1>10, BotMovesInv DEF BotMoves
<1>11. ASSUME NEW answered \in BOOLEAN, Dialled(answered) PROVE Inv'
  BY <1>2, <1>11, BotMovesInv DEF Dialled
<1>12. CASE \/ CallBegins \/ CallEnds \/ Pinged \/ Sent \/ Dial \/ Delayed
            \/ ReverseStops \/ ReverseClosed
  BY <1>10, <1>12 DEF CallBegins, CallEnds, Pinged, Sent, Dial, Delayed, ReverseStops,
                      ReverseClosed
<1>13. QED
  BY <1>5, <1>6, <1>7, <1>8, <1>9, <1>11, <1>12 DEF BotStep, ConnectionStep

-----------------------------------------------------------------------------
LEMMA StepInv ==
  ASSUME Inv, [Next]_vars PROVE Inv'
<1>1. CASE UNCHANGED vars \/ ServerEnds \/ Shutdown
  <2>1. UNCHANGED <<accounts, bot>>
    BY <1>1 DEF vars, bots, accounts, ServerEnds, Shutdown
  <2>2. BotFits' /\ (bot'.untold => bot'.lagged)
    BY <2>1 DEF Inv, BotFits, BotsAreTold, GapsAnnounced
  <2>3. QED
    BY <2>1, <2>2, BotMovesInv
<1>2. QED
  BY <1>1, AccountStepInv, CoordinatorStepInv, HeartbeatInv, ConnectionsInv DEF Next

\* However events are dropped on their way, whenever accounts log in and end and
\* however slow a bot is: nobody goes on after a gap without a word, and calls are
\* routed for the accounts that the coordinator knows and nobody else.  While it
\* runs and has missed nothing, it knows every account that is logged in, once
\* the login has reached it, and none whose end was stored, once the end has
\* (hub.rs, onebot.rs, ws.rs).
THEOREM BotsAreToldCorrect == Spec => []BotsAreTold
<1>1. Inv => BotsAreTold
  BY DEF Inv
<1>2. QED
  BY InitInv, StepInv, <1>1, PTL DEF Spec

-----------------------------------------------------------------------------
(* Where the calls are.                                                    *)

CallStage == {"Free", "Locking", "Lane", "Channel", "Running", "Answered"}
Outcome == {None, "Ok", "QqFailure", "AccountUnavailable", "AccountRequired",
            "Overloaded"}
CallRecord ==
  [stage : CallStage, mode : Mode, asked : SelfId \union {None},
   account : Backend \union {None}, left : {0, 1}, present : BOOLEAN,
   answer : Outcome]

CallsTyped ==
  /\ routes \in [SelfId -> Backend \union {None}]
  /\ executor \in [Backend -> {"Serving", "Gone"}]
  /\ channel \in [Backend -> Seq(Call)]
  /\ running \in [Backend -> Call \union {NoCall}]
  /\ lane \in Seq(Call) /\ waiting \in Seq(Call) /\ accepted \in Seq(Call)
  /\ call \in [Call -> CallRecord]

\* A call past the mutex whose caller still waits.
Past(c) ==
  /\ call[c].mode = "RateLimited" /\ call[c].present
  /\ call[c].stage \in {"Channel", "Running"}

\* What is at a place knows it is there, and is there once.
ChannelFits(a) ==
  \A i \in DOMAIN channel[a] :
    /\ call[channel[a][i]].stage = "Channel" /\ call[channel[a][i]].account = a
    /\ \A j \in DOMAIN channel[a] : channel[a][i] = channel[a][j] => i = j

RunningFits(a) ==
  running[a] # NoCall =>
    call[running[a]].stage = "Running" /\ call[running[a]].account = a

LaneFits ==
  \A i \in DOMAIN lane :
    /\ call[lane[i]].stage = "Lane"
    /\ \A j \in DOMAIN lane : lane[i] = lane[j] => i = j

WaitingFits ==
  \A i \in DOMAIN waiting :
    /\ call[waiting[i]].mode = "RateLimited" /\ call[waiting[i]].present
    /\ call[waiting[i]].stage \in {"Locking", "Channel", "Running"}
    /\ i > 1 => call[waiting[i]].stage = "Locking"
    /\ \A j \in DOMAIN waiting : waiting[i] = waiting[j] => i = j

\* The call past the mutex holds it.
HolderFits == \A c \in Call : Past(c) => waiting # <<>> /\ waiting[1] = c

ModesFit ==
  \A c \in Call :
    /\ call[c].stage = "Lane" => call[c].mode = "Asynchronous"
    /\ call[c].mode # "Synchronous" => call[c].left = 0
    /\ call[c].stage \in InFlight => call[c].account \in Backend

PlacesFit == \A a \in Backend : ChannelFits(a) /\ RunningFits(a)

DispatchInv ==
  /\ CallsTyped /\ PlacesFit /\ LaneFits /\ WaitingFits /\ HolderFits /\ ModesFit
  /\ LaneKeepsOrder

-----------------------------------------------------------------------------
(* Sequences.                                                              *)

LEMMA Appending ==
  ASSUME NEW S, NEW s \in Seq(S), NEW e \in S
  PROVE  /\ Append(s, e) \in Seq(S) /\ Len(Append(s, e)) = Len(s) + 1
         /\ DOMAIN Append(s, e) = 1..(Len(s) + 1) /\ DOMAIN s = 1..Len(s)
         /\ Len(s) \in Nat
         /\ Append(s, e)[Len(s) + 1] = e
         /\ \A i \in DOMAIN s : Append(s, e)[i] = s[i]
  OBVIOUS

LEMMA Advancing ==
  ASSUME NEW S, NEW s \in Seq(S), s # <<>>
  PROVE  /\ Head(s) \in S /\ Head(s) = s[1] /\ 1 \in DOMAIN s
         /\ Tail(s) \in Seq(S) /\ Len(Tail(s)) = Len(s) - 1
         /\ Len(s) \in Nat \ {0} /\ DOMAIN s = 1..Len(s)
         /\ DOMAIN Tail(s) = 1..(Len(s) - 1)
         /\ \A i \in DOMAIN Tail(s) : i + 1 \in DOMAIN s /\ Tail(s)[i] = s[i + 1]
<1>1. /\ Head(s) \in S /\ Tail(s) \in Seq(S) /\ Len(Tail(s)) = Len(s) - 1
      /\ \A i \in 1..Len(Tail(s)) : Tail(s)[i] = s[i + 1]
  BY HeadTailProperties
<1>2. Len(s) \in Nat \ {0} /\ DOMAIN s = 1..Len(s) /\ Head(s) = s[1]
  BY EmptySeq, LenProperties
<1>3. DOMAIN Tail(s) = 1..Len(Tail(s))
  BY <1>1, LenProperties
<1>4. QED
  BY <1>1, <1>2, <1>3

\* Where a place of the shorter sequence lay in the longer one.
Before(n, i) == IF i < n THEN i ELSE i + 1

LEMMA Removing ==
  ASSUME NEW S, NEW s \in Seq(S), NEW n \in DOMAIN s
  PROVE  /\ RemoveAt(s, n) \in Seq(S) /\ DOMAIN RemoveAt(s, n) = 1..(Len(s) - 1)
         /\ Len(s) \in Nat /\ DOMAIN s = 1..Len(s)
         /\ \A i \in DOMAIN RemoveAt(s, n) :
              Before(n, i) \in DOMAIN s /\ RemoveAt(s, n)[i] = s[Before(n, i)]
<1> DEFINE l == SubSeq(s, 1, n - 1)
           r == SubSeq(s, n + 1, Len(s))
<1>1. Len(s) \in Nat /\ DOMAIN s = 1..Len(s) /\ n \in 1..Len(s)
  BY LenProperties
<1>2. \A i \in 1..Len(s) : s[i] \in S
  BY ElementOfSeq
<1>3. /\ l \in Seq(S) /\ Len(l) = n - 1
      /\ \A i \in 1..(n - 1) : l[i] = s[i]
  <2>1. /\ 1 \in Int /\ n - 1 \in Int /\ \A i \in 1..(n - 1) : s[i] \in S
    BY <1>1, <1>2
  <2>2. /\ l \in Seq(S)
        /\ Len(l) = IF 1 <= n - 1 THEN (n - 1) - 1 + 1 ELSE 0
        /\ \A i \in 1 .. ((n - 1) - 1 + 1) : l[i] = s[1 + i - 1]
    BY <2>1, SubSeqProperties
  <2> HIDE DEF l
  <2>3. QED
    BY <1>1, <2>2
<1>4. /\ r \in Seq(S) /\ Len(r) = Len(s) - n
      /\ \A i \in 1..(Len(s) - n) : r[i] = s[n + i]
  <2>1. /\ n + 1 \in Int /\ Len(s) \in Int /\ \A i \in (n + 1)..Len(s) : s[i] \in S
    BY <1>1, <1>2
  <2>2. /\ r \in Seq(S)
        /\ Len(r) = IF n + 1 <= Len(s) THEN Len(s) - (n + 1) + 1 ELSE 0
        /\ \A i \in 1 .. (Len(s) - (n + 1) + 1) : r[i] = s[(n + 1) + i - 1]
    BY <2>1, SubSeqProperties
  <2> HIDE DEF r
  <2>3. Len(r) = Len(s) - n
    BY <1>1, <2>2
  <2>4. ASSUME NEW i \in 1..(Len(s) - n) PROVE r[i] = s[n + i]
    <3>1. (n + 1) + i - 1 = n + i /\ i \in 1..(Len(s) - (n + 1) + 1)
      BY <1>1
    <3>2. QED
      BY <2>2, <3>1
  <2>5. QED
    BY <2>2, <2>3, <2>4
<1>5. /\ l \o r \in Seq(S) /\ Len(l \o r) = Len(l) + Len(r)
      /\ \A i \in 1 .. Len(l) + Len(r) :
           (l \o r)[i] = IF i <= Len(l) THEN l[i] ELSE r[i - Len(l)]
  <2> HIDE DEF l, r
  <2>1. QED
    BY <1>3, <1>4, ConcatProperties
<1>6. DOMAIN (l \o r) = 1..(Len(s) - 1)
  <2> HIDE DEF l, r
  <2>1. Len(l \o r) = Len(s) - 1
    BY <1>1, <1>3, <1>4, <1>5
  <2>2. DOMAIN (l \o r) = 1..Len(l \o r)
    BY <1>5, LenProperties
  <2>3. QED
    BY <2>1, <2>2
<1>7. ASSUME NEW i \in 1..(Len(s) - 1)
      PROVE  Before(n, i) \in DOMAIN s /\ (l \o r)[i] = s[Before(n, i)]
  <2> HIDE DEF l, r
  <2>1. CASE i < n
    BY <1>1, <1>3, <1>4, <1>5, <2>1 DEF Before
  <2>2. CASE ~(i < n)
    <3>1. (l \o r)[i] = r[i - (n - 1)] /\ i - (n - 1) \in 1..(Len(s) - n)
      <4>1. i - (n - 1) \in 1..(Len(s) - n)
        BY <1>1, <2>2
      <4>2. i \in 1..(Len(l) + Len(r)) /\ ~(i <= Len(l)) /\ i - Len(l) = i - (n - 1)
        BY <1>1, <1>3, <1>4, <2>2
      <4>3. (l \o r)[i] = r[i - Len(l)]
        BY <1>5, <4>2
      <4>4. QED
        BY <4>1, <4>2, <4>3
    <3>2. r[i - (n - 1)] = s[n + (i - (n - 1))] /\ n + (i - (n - 1)) = i + 1
      BY <1>1, <1>4, <3>1
    <3>3. QED
      BY <1>1, <2>2, <3>1, <3>2 DEF Before
  <2>3. QED
    BY <2>1, <2>2
<1>8. QED
  BY <1>1, <1>5, <1>6, <1>7 DEF RemoveAt

-----------------------------------------------------------------------------
(* Calls.                                                                  *)

\* A step that makes one call into something else.
Becomes(c, r) == r \in CallRecord /\ call' = [call EXCEPT ![c] = r]

LEMMA BecomesOne ==
  ASSUME CallsTyped, NEW c \in Call, NEW r, Becomes(c, r)
  PROVE  /\ call' \in [Call -> CallRecord] /\ call'[c] = r
         /\ \A d \in Call : d # c => call'[d] = call[d]
<1> HIDE DEF CallRecord
<1>1. QED
  BY DEF CallsTyped, Becomes

LEMMA AnswerBecomes ==
  ASSUME NEW c \in Call, call \in [Call -> CallRecord], NEW made,
         NEW answer \in Outcome,
         \/ call' = Answered(call, c, answer)
         \/ call' = Answered([call EXCEPT ![c] = made], c, answer)
  PROVE  \E r \in CallRecord :
           /\ Becomes(c, r) /\ r.stage = "Answered" /\ r.mode = "Synchronous"
           /\ r.left = 0
<1> PICK r : r = Known("Answered", answer)
  OBVIOUS
<1>1. r \in CallRecord /\ r.stage = "Answered" /\ r.mode = "Synchronous" /\ r.left = 0
  BY DEF Known, CallRecord, Outcome, CallStage, Mode
<1>2. call' = [call EXCEPT ![c] = r]
  BY DEF Answered
<1>3. QED
  BY <1>1, <1>2 DEF Becomes

LEMMA StageBecomes ==
  ASSUME NEW r \in CallRecord, NEW stage \in CallStage
  PROVE  /\ [r EXCEPT !.stage = stage] \in CallRecord
         /\ [r EXCEPT !.stage = stage].stage = stage
         /\ [r EXCEPT !.stage = stage].mode = r.mode
         /\ [r EXCEPT !.stage = stage].account = r.account
         /\ [r EXCEPT !.stage = stage].present = r.present
         /\ [r EXCEPT !.stage = stage].left = r.left
  BY DEF CallRecord

LEMMA RefusalAnswers ==
  ASSUME NEW a
  PROVE  Refusal(a) \in Outcome
  BY DEF Refusal, Outcome

LEMMA SelectChooses ==
  ASSUME CallsTyped, NEW asked \in SelfId \union {None}
  PROVE  Select(asked) \in Backend \union {None}
<1>1. CASE Cardinality(Registered) = 1
  <2>1. Registered # {}
    BY <1>1, FS_EmptySet
  <2>2. (CHOOSE i \in Registered : TRUE) \in SelfId
    BY <2>1 DEF Registered
  <2>3. QED
    BY <2>2 DEF Select, CallsTyped
<1>2. QED
  BY <1>1 DEF Select, CallsTyped

-----------------------------------------------------------------------------
(* What a step that touches one call leaves as it is.                      *)

\* The call runs nowhere after the step, or stays as it is at its actor.
Leaves(c, r) ==
  \A a \in Backend :
    \/ running'[a] = NoCall
    \/ running'[a] = running[a] /\ running[a] # c
    \/ /\ running'[a] = running[a]
       /\ r.stage = call[c].stage /\ r.account = call[c].account

LEMMA ChannelStays ==
  ASSUME NEW b, channel'[b] = channel[b], ChannelFits(b),
         \A i \in DOMAIN channel[b] : /\ call'[channel[b][i]].stage = "Channel"
                                      /\ call'[channel[b][i]].account = b
  PROVE  ChannelFits(b)'
  BY DEF ChannelFits

LEMMA ChannelsRest ==
  ASSUME CallsTyped, PlacesFit, NEW c \in Call, NEW r, Becomes(c, r),
         running' \in [Backend -> Call \union {NoCall}],
         UNCHANGED channel, Leaves(c, r),
         call[c].stage = "Channel" =>
           r.stage = call[c].stage /\ r.account = call[c].account
  PROVE  PlacesFit'
<1>1. /\ call'[c] = r /\ \A d \in Call : d # c => call'[d] = call[d]
  BY BecomesOne
<1>2. ASSUME NEW a \in Backend PROVE ChannelFits(a)'
  <2>1. channel[a] \in Seq(Call) /\ ChannelFits(a) /\ channel'[a] = channel[a]
    BY DEF CallsTyped, PlacesFit
  <2>2. ASSUME NEW i \in DOMAIN channel[a]
        PROVE  /\ call'[channel[a][i]].stage = "Channel"
               /\ call'[channel[a][i]].account = a
    <3>1. channel[a][i] \in Call
      BY <2>1, ElementOfSeq, LenProperties
    <3>2. call[channel[a][i]].stage = "Channel" /\ call[channel[a][i]].account = a
      BY <2>1 DEF ChannelFits
    <3>3. QED
      BY <1>1, <3>1, <3>2
  <2>3. QED
    BY <2>1, <2>2, ChannelStays
<1>3. ASSUME NEW a \in Backend PROVE RunningFits(a)'
  <2>1. CASE running'[a] = NoCall
    BY <2>1 DEF RunningFits
  <2>2. CASE running'[a] = running[a] /\ running[a] # NoCall
    <3>1. /\ running[a] \in Call /\ call[running[a]].stage = "Running"
          /\ call[running[a]].account = a
      BY <2>2 DEF CallsTyped, PlacesFit, RunningFits
    <3>2. CASE running[a] # c
      BY <1>1, <2>2, <3>1, <3>2 DEF RunningFits
    <3>3. CASE running[a] = c
      BY <1>1, <2>2, <3>1, <3>3 DEF RunningFits, Leaves
    <3>4. QED
      BY <3>2, <3>3
  <2>3. QED
    BY <2>1, <2>2 DEF Leaves
<1>4. QED
  BY <1>2, <1>3 DEF PlacesFit

\* The call is sent to an actor.
LEMMA ChannelGrows ==
  ASSUME CallsTyped, PlacesFit, NEW c \in Call, NEW r, Becomes(c, r),
         NEW a \in Backend, channel' = [channel EXCEPT ![a] = Append(@, c)],
         running' \in [Backend -> Call \union {NoCall}],
         call[c].stage # "Channel", r.stage = "Channel", r.account = a,
         \A b \in Backend : \/ running'[b] = NoCall
                            \/ running'[b] = running[b] /\ running[b] # c
  PROVE  PlacesFit' /\ channel' \in [Backend -> Seq(Call)]
<1>1. /\ call'[c] = r /\ \A d \in Call : d # c => call'[d] = call[d]
  BY BecomesOne
<1>2. channel \in [Backend -> Seq(Call)]
  BY DEF CallsTyped
<1> PICK s : s = channel[a]
  OBVIOUS
<1>3. /\ s \in Seq(Call) /\ Append(s, c) \in Seq(Call)
      /\ DOMAIN Append(s, c) = 1..(Len(s) + 1) /\ DOMAIN s = 1..Len(s)
      /\ Len(s) \in Nat /\ Append(s, c)[Len(s) + 1] = c
      /\ \A i \in DOMAIN s : Append(s, c)[i] = s[i] /\ s[i] \in Call
  BY <1>2, Appending, ElementOfSeq
<1>4. /\ channel' \in [Backend -> Seq(Call)] /\ channel'[a] = Append(s, c)
      /\ \A b \in Backend : b # a => channel'[b] = channel[b]
  BY <1>2, <1>3
<1>5. \A i \in DOMAIN s : s[i] # c /\ call[s[i]].stage = "Channel"
                            /\ call[s[i]].account = a
                            /\ \A j \in DOMAIN s : s[i] = s[j] => i = j
  BY DEF PlacesFit, ChannelFits
<1>6. ChannelFits(a)'
  <2> PICK t : t = Append(s, c)
    OBVIOUS
  <2>1. ASSUME NEW i \in 1..(Len(s) + 1)
        PROVE  /\ call'[t[i]].stage = "Channel" /\ call'[t[i]].account = a
               /\ \A j \in 1..(Len(s) + 1) : t[i] = t[j] => i = j
    <3>1. CASE i = Len(s) + 1
      <4>1. t[i] = c /\ \A j \in DOMAIN s : t[j] = s[j] /\ s[j] # c
        BY <1>3, <1>5, <3>1
      <4>2. \A j \in 1..(Len(s) + 1) : j # i => j \in DOMAIN s
        BY <1>3, <3>1
      <4>3. QED
        BY <1>1, <4>1, <4>2
    <3>2. CASE i # Len(s) + 1
      <4>1. i \in DOMAIN s /\ t[i] = s[i] /\ t[Len(s) + 1] = c
        BY <1>3, <3>2
      <4>2. \A j \in 1..(Len(s) + 1) : j # Len(s) + 1 => j \in DOMAIN s
        BY <1>3
      <4>3. QED
        BY <1>1, <1>3, <1>5, <4>1, <4>2
    <3>3. QED
      BY <3>1, <3>2
  <2>2. channel'[a] = t /\ DOMAIN t = 1..(Len(s) + 1)
    BY <1>3, <1>4
  <2>3. QED
    BY <2>1, <2>2 DEF ChannelFits
<1>7. ASSUME NEW b \in Backend, b # a PROVE ChannelFits(b)'
  <2>1. channel[b] \in Seq(Call) /\ ChannelFits(b) /\ channel'[b] = channel[b]
    BY <1>2, <1>4, <1>7 DEF PlacesFit
  <2>2. ASSUME NEW i \in DOMAIN channel[b]
        PROVE  /\ call'[channel[b][i]].stage = "Channel"
               /\ call'[channel[b][i]].account = b
    <3>1. channel[b][i] \in Call
      BY <2>1, ElementOfSeq, LenProperties
    <3>2. call[channel[b][i]].stage = "Channel" /\ call[channel[b][i]].account = b
      BY <2>1 DEF ChannelFits
    <3>3. QED
      BY <1>1, <3>1, <3>2
  <2>3. QED
    BY <2>1, <2>2, ChannelStays
<1>8. ASSUME NEW b \in Backend PROVE RunningFits(b)'
  BY <1>1 DEF RunningFits, PlacesFit, CallsTyped
<1>9. QED
  BY <1>4, <1>6, <1>7, <1>8 DEF PlacesFit

LEMMA LaneRests ==
  ASSUME CallsTyped, LaneFits, UNCHANGED lane,
         \A d \in Call : call[d].stage = "Lane" => call'[d].stage = "Lane"
  PROVE  LaneFits'
<1>1. \A i \in DOMAIN lane : lane[i] \in Call
  BY ElementOfSeq, LenProperties DEF CallsTyped
<1>2. QED
  BY <1>1 DEF LaneFits

\* Those that wait are as they were, and nobody else has the mutex.
LEMMA WaitingRests ==
  ASSUME CallsTyped, WaitingFits, HolderFits, UNCHANGED waiting,
         \A d \in Call : Past(d)' => Past(d),
         \A i \in DOMAIN waiting :
           /\ call'[waiting[i]].mode = "RateLimited" /\ call'[waiting[i]].present
           /\ call'[waiting[i]].stage \in {"Locking", "Channel", "Running"}
           /\ i > 1 => call'[waiting[i]].stage = "Locking"
  PROVE  WaitingFits' /\ HolderFits'
<1>1. WaitingFits'
  BY DEF WaitingFits
<1>2. HolderFits'
  BY DEF HolderFits
<1>3. QED
  BY <1>1, <1>2

\* The first of those that wait is gone, and the next one has its turn.
LEMMA WaitingAdvances ==
  ASSUME CallsTyped, WaitingFits, HolderFits, waiting # <<>>,
         waiting' = Tail(waiting),
         \A d \in Call : Past(d)' => Past(d) /\ d # waiting[1],
         \A i \in DOMAIN waiting : i > 1 => call'[waiting[i]] = call[waiting[i]]
  PROVE  WaitingFits' /\ HolderFits' /\ waiting' \in Seq(Call)
<1>1. /\ waiting \in Seq(Call) /\ Tail(waiting) \in Seq(Call)
      /\ Len(waiting) \in Nat /\ DOMAIN waiting = 1..Len(waiting)
      /\ DOMAIN Tail(waiting) = 1..(Len(waiting) - 1)
      /\ \A i \in DOMAIN Tail(waiting) :
           i + 1 \in DOMAIN waiting /\ Tail(waiting)[i] = waiting[i + 1]
  BY Advancing DEF CallsTyped
<1>2. ASSUME NEW i \in DOMAIN waiting'
      PROVE  /\ call'[waiting'[i]].mode = "RateLimited" /\ call'[waiting'[i]].present
             /\ call'[waiting'[i]].stage = "Locking"
             /\ \A j \in DOMAIN waiting' : waiting'[i] = waiting'[j] => i = j
  <2>1. /\ i \in Nat /\ i + 1 \in DOMAIN waiting /\ i + 1 > 1
        /\ waiting'[i] = waiting[i + 1]
    BY <1>1
  <2>2. call'[waiting[i + 1]] = call[waiting[i + 1]]
    BY <2>1
  <2>3. ASSUME NEW j \in DOMAIN waiting', waiting'[i] = waiting'[j] PROVE i = j
    <3>1. j \in Nat /\ j + 1 \in DOMAIN waiting /\ waiting'[j] = waiting[j + 1]
      BY <1>1
    <3>2. i + 1 = j + 1
      BY <2>1, <2>3, <3>1 DEF WaitingFits
    <3>3. QED
      BY <2>1, <3>1, <3>2
  <2>4. QED
    BY <2>1, <2>2, <2>3 DEF WaitingFits
<1>3. WaitingFits'
  BY <1>2 DEF WaitingFits
<1>4. HolderFits'
  BY DEF HolderFits
<1>5. QED
  BY <1>1, <1>3, <1>4

LEMMA WaitingIgnores ==
  ASSUME CallsTyped, WaitingFits, HolderFits, NEW c \in Call, NEW r, Becomes(c, r),
         UNCHANGED waiting, \A i \in DOMAIN waiting : waiting[i] # c,
         r.mode = "RateLimited" => r.stage \notin {"Channel", "Running"}
  PROVE  WaitingFits' /\ HolderFits'
<1>1. /\ call'[c] = r /\ \A d \in Call : d # c => call'[d] = call[d]
  BY BecomesOne
<1>2. \A d \in Call : Past(d)' => Past(d)
  BY <1>1 DEF Past
<1>3. \A i \in DOMAIN waiting : call'[waiting[i]] = call[waiting[i]]
  BY <1>1, ElementOfSeq, LenProperties DEF CallsTyped
<1>4. ASSUME NEW i \in DOMAIN waiting
      PROVE  /\ call'[waiting[i]].mode = "RateLimited" /\ call'[waiting[i]].present
             /\ call'[waiting[i]].stage \in {"Locking", "Channel", "Running"}
             /\ i > 1 => call'[waiting[i]].stage = "Locking"
  BY <1>3 DEF WaitingFits
<1>5. QED
  BY <1>2, <1>4, WaitingRests

LEMMA ModesRest ==
  ASSUME CallsTyped, ModesFit, NEW c \in Call, NEW r, Becomes(c, r),
         r.stage = "Lane" => r.mode = "Asynchronous",
         r.mode # "Synchronous" => r.left = 0,
         r.stage \in InFlight => r.account \in Backend
  PROVE  ModesFit'
<1>1. /\ call'[c] = r /\ \A d \in Call : d # c => call'[d] = call[d]
  BY BecomesOne
<1>2. QED
  BY <1>1 DEF ModesFit

LEMMA LaneIgnores ==
  ASSUME CallsTyped, LaneFits, NEW c \in Call, NEW r, Becomes(c, r),
         UNCHANGED lane, call[c].stage # "Lane"
  PROVE  LaneFits'
<1>1. /\ call'[c] = r /\ \A d \in Call : d # c => call'[d] = call[d]
  BY BecomesOne
<1>2. QED
  BY <1>1, LaneRests

\* A call that nobody has made is nowhere.
LEMMA FreeIsNowhere ==
  ASSUME DispatchInv, NEW c \in Call, call[c].stage = "Free"
  PROVE  /\ \A a \in Backend : running[a] = NoCall \/ running[a] # c
         /\ \A i \in DOMAIN waiting : waiting[i] # c
         /\ \A i \in DOMAIN lane : lane[i] # c
<1>1. \A a \in Backend : running[a] = NoCall \/ running[a] # c
  BY DEF DispatchInv, PlacesFit, RunningFits
<1>2. \A i \in DOMAIN waiting : waiting[i] # c
  BY DEF DispatchInv, WaitingFits
<1>3. \A i \in DOMAIN lane : lane[i] # c
  BY DEF DispatchInv, LaneFits
<1>4. QED
  BY <1>1, <1>2, <1>3

-----------------------------------------------------------------------------
(* The router.                                                             *)

LEMMA RefusedInv ==
  ASSUME DispatchInv, NEW c \in Call, call[c].stage = "Free",
         NEW made, NEW answer \in Outcome,
         call' = Answered([call EXCEPT ![c] = made], c, answer),
         UNCHANGED <<routes, executor, channel, running, lane, waiting, accepted>>
  PROVE  DispatchInv'
<1>1. CallsTyped /\ call \in [Call -> CallRecord]
  BY DEF DispatchInv, CallsTyped
<1>2. PICK r \in CallRecord :
        /\ Becomes(c, r) /\ r.stage = "Answered" /\ r.mode = "Synchronous"
        /\ r.left = 0
  BY <1>1, AnswerBecomes
<1>3. Becomes(c, r)
  BY <1>2
<1>4. CallsTyped'
  <2>1. call' \in [Call -> CallRecord]
    BY <1>1, <1>3, BecomesOne
  <2>2. QED
    BY <1>1, <2>1 DEF CallsTyped
<1>5. running' \in [Backend -> Call \union {NoCall}] /\ Leaves(c, r)
  BY <1>1, FreeIsNowhere DEF CallsTyped, Leaves
<1>6. PlacesFit'
  BY <1>1, <1>3, <1>5, ChannelsRest DEF DispatchInv
<1>7. LaneFits'
  BY <1>1, <1>3, LaneIgnores DEF DispatchInv
<1>8. WaitingFits' /\ HolderFits'
  BY <1>1, <1>2, <1>3, FreeIsNowhere, WaitingIgnores DEF DispatchInv
<1>9. ModesFit'
  BY <1>1, <1>2, <1>3, ModesRest DEF DispatchInv, InFlight
<1>10. LaneKeepsOrder'
  BY DEF DispatchInv, LaneKeepsOrder
<1>11. QED
  BY <1>4, <1>6, <1>7, <1>8, <1>9, <1>10 DEF DispatchInv

LEMMA MadeFits ==
  ASSUME NEW mode \in Mode, NEW asked \in SelfId \union {None},
         NEW a \in Backend \union {None}, NEW left \in {0, 1},
         NEW stage \in CallStage, NEW r, r = Made(mode, asked, a, left, stage)
  PROVE  /\ r \in CallRecord /\ r.stage = stage /\ r.mode = mode /\ r.account = a
         /\ r.left = left /\ (mode # "Asynchronous" => r.present)
  BY DEF Made, CallRecord, Outcome

LEMMA DispatchSyncInv ==
  ASSUME DispatchInv, NEW c \in Call, NEW asked \in SelfId \union {None},
         NEW left \in {0, 1}, DispatchSync(c, asked, left)
  PROVE  DispatchInv'
<1>1. CallsTyped /\ call \in [Call -> CallRecord] /\ call[c].stage = "Free"
  BY DEF DispatchInv, CallsTyped, DispatchSync
<1> PICK a : a = Select(asked)
  OBVIOUS
<1> PICK r : r = Made("Synchronous", asked, a, left, "Channel")
  OBVIOUS
<1>2. /\ a \in Backend \union {None} /\ r \in CallRecord /\ r.stage = "Channel"
      /\ r.mode = "Synchronous" /\ r.account = a
  <2>1. a \in Backend \union {None} /\ "Synchronous" \in Mode /\ "Channel" \in CallStage
    BY <1>1, SelectChooses DEF Mode, CallStage
  <2>2. QED
    BY <2>1 DEF Made, CallRecord, Outcome
<1>4. CASE /\ a # None /\ call' = [call EXCEPT ![c] = r]
           /\ channel' = [channel EXCEPT ![a] = Append(@, c)]
           /\ UNCHANGED <<routes, executor, running, lane, waiting, accepted>>
  <2>1. Becomes(c, r) /\ a \in Backend
    BY <1>2, <1>4 DEF Becomes
  <2>2. call' \in [Call -> CallRecord]
    BY <1>1, <2>1, BecomesOne
  <2>3. running' \in [Backend -> Call \union {NoCall}]
    BY <1>1, <1>4 DEF CallsTyped
  <2>4. \A b \in Backend : \/ running'[b] = NoCall
                           \/ running'[b] = running[b] /\ running[b] # c
    BY <1>1, <1>4, FreeIsNowhere
  <2>5. PlacesFit' /\ channel' \in [Backend -> Seq(Call)]
    <3>1. CallsTyped /\ PlacesFit
      BY DEF DispatchInv
    <3>2. /\ a \in Backend /\ channel' = [channel EXCEPT ![a] = Append(@, c)]
          /\ running' \in [Backend -> Call \union {NoCall}]
          /\ call[c].stage # "Channel" /\ r.stage = "Channel" /\ r.account = a
      BY <1>1, <1>2, <1>4, <2>1, <2>3
    <3>3. \A b \in Backend : \/ running'[b] = NoCall
                             \/ running'[b] = running[b] /\ running[b] # c
      BY <2>4
    <3>4. QED
      BY <3>1, <3>2, <3>3, <2>1, ChannelGrows
  <2>6. CallsTyped'
    BY <1>1, <1>4, <2>2, <2>5 DEF CallsTyped
  <2>7. LaneFits'
    BY <1>1, <1>4, <2>1, LaneIgnores DEF DispatchInv
  <2>8. WaitingFits' /\ HolderFits'
    BY <1>1, <1>2, <1>4, <2>1, FreeIsNowhere, WaitingIgnores DEF DispatchInv
  <2>9. ModesFit'
    BY <1>1, <1>2, <2>1, ModesRest DEF DispatchInv
  <2>10. LaneKeepsOrder'
    BY <1>4 DEF DispatchInv, LaneKeepsOrder
  <2>11. QED
    BY <2>5, <2>6, <2>7, <2>8, <2>9, <2>10 DEF DispatchInv
<1>5. ASSUME NEW answer \in Outcome,
             call' = Answered([call EXCEPT ![c] = r], c, answer), UNCHANGED channel,
             UNCHANGED <<routes, executor, running, lane, waiting, accepted>>
      PROVE  DispatchInv'
  BY <1>1, <1>5, RefusedInv
<1>6. UNCHANGED <<routes, executor, running, lane, waiting, accepted>>
  BY DEF DispatchSync
<1>7. CASE a = None
  <2>1. call' = Answered([call EXCEPT ![c] = r], c, Unroutable) /\ UNCHANGED channel
    BY <1>7 DEF DispatchSync
  <2>2. Unroutable \in Outcome
    BY DEF Unroutable, Outcome
  <2>3. QED
    BY <1>5, <1>6, <2>1, <2>2
<1>8. CASE a # None /\ Refusal(a) # None
  <2>1. call' = Answered([call EXCEPT ![c] = r], c, Refusal(a)) /\ UNCHANGED channel
    BY <1>8 DEF DispatchSync
  <2>2. QED
    BY <1>5, <1>6, <2>1, RefusalAnswers
<1>9. CASE a # None /\ Refusal(a) = None
  <2>1. /\ call' = [call EXCEPT ![c] = r]
        /\ channel' = [channel EXCEPT ![a] = Append(@, c)]
    BY <1>9 DEF DispatchSync
  <2>2. QED
    BY <1>4, <1>6, <1>9, <2>1
<1>10. QED
  BY <1>7, <1>8, <1>9

\* The lane and the history of it both grow by the call.
LEMMA LaneGrows ==
  ASSUME CallsTyped, LaneFits, LaneKeepsOrder, NEW c \in Call, NEW r, Becomes(c, r),
         call[c].stage # "Lane", r.stage = "Lane",
         lane' = Append(lane, c), accepted' = Append(accepted, c)
  PROVE  /\ LaneFits' /\ LaneKeepsOrder'
         /\ lane' \in Seq(Call) /\ accepted' \in Seq(Call)
<1>1. /\ call'[c] = r /\ \A d \in Call : d # c => call'[d] = call[d]
  BY BecomesOne
<1>2. /\ lane \in Seq(Call) /\ lane' \in Seq(Call) /\ Len(lane) \in Nat
      /\ DOMAIN lane' = 1..(Len(lane) + 1) /\ DOMAIN lane = 1..Len(lane)
      /\ Len(lane') = Len(lane) + 1 /\ lane'[Len(lane) + 1] = c
      /\ \A i \in DOMAIN lane : lane'[i] = lane[i] /\ lane[i] \in Call
  BY Appending, ElementOfSeq DEF CallsTyped
<1>3. /\ accepted \in Seq(Call) /\ accepted' \in Seq(Call) /\ Len(accepted) \in Nat
      /\ Len(accepted') = Len(accepted) + 1 /\ accepted'[Len(accepted) + 1] = c
      /\ \A i \in 1..Len(accepted) : accepted'[i] = accepted[i]
  BY Appending DEF CallsTyped
<1>4. \A i \in DOMAIN lane : lane[i] # c /\ call'[lane[i]].stage = "Lane"
  BY <1>1, <1>2 DEF LaneFits
<1>5. ASSUME NEW i \in DOMAIN lane'
      PROVE  /\ call'[lane'[i]].stage = "Lane"
             /\ \A j \in DOMAIN lane' : lane'[i] = lane'[j] => i = j
  <2>1. CASE i = Len(lane) + 1
    <3>1. ASSUME NEW j \in DOMAIN lane', j # i PROVE lane'[j] # lane'[i]
      <4>1. j \in DOMAIN lane
        BY <1>2, <2>1, <3>1
      <4>2. QED
        BY <1>2, <1>4, <2>1, <4>1
    <3>2. QED
      BY <1>1, <1>2, <2>1, <3>1
  <2>2. CASE i # Len(lane) + 1
    <3>1. i \in DOMAIN lane
      BY <1>2, <2>2
    <3>2. ASSUME NEW j \in DOMAIN lane', lane'[i] = lane'[j] PROVE i = j
      <4>1. CASE j = Len(lane) + 1
        BY <1>2, <1>4, <3>1, <3>2, <4>1
      <4>2. CASE j # Len(lane) + 1
        <5>1. j \in DOMAIN lane
          BY <1>2, <4>2
        <5>2. QED
          BY <1>2, <3>1, <3>2, <5>1 DEF LaneFits
      <4>3. QED
        BY <4>1, <4>2
    <3>3. QED
      BY <1>2, <1>4, <3>1, <3>2
  <2>3. QED
    BY <2>1, <2>2
<1>6. LaneFits'
  BY <1>5 DEF LaneFits
<1>7. Len(lane') <= Len(accepted')
  BY <1>2, <1>3 DEF LaneKeepsOrder
<1>8. ASSUME NEW i \in DOMAIN lane'
      PROVE  lane'[i] = accepted'[Len(accepted') - Len(lane') + i]
  <2>1. CASE i = Len(lane) + 1
    <3>1. Len(accepted') - Len(lane') + i = Len(accepted) + 1
      BY <1>2, <1>3, <2>1
    <3>2. QED
      BY <1>2, <1>3, <2>1, <3>1
  <2>2. CASE i # Len(lane) + 1
    <3>1. i \in DOMAIN lane
      BY <1>2, <2>2
    <3> PICK k : k = Len(accepted) - Len(lane) + i
      OBVIOUS
    <3>2. k \in 1..Len(accepted) /\ Len(accepted') - Len(lane') + i = k
      BY <1>2, <1>3, <3>1 DEF LaneKeepsOrder
    <3>3. lane[i] = accepted[k]
      BY <3>1 DEF LaneKeepsOrder
    <3>4. QED
      BY <1>2, <1>3, <3>1, <3>2, <3>3
  <2>3. QED
    BY <2>1, <2>2
<1>9. QED
  BY <1>2, <1>3, <1>6, <1>7, <1>8 DEF LaneKeepsOrder

LEMMA DispatchAsyncInv ==
  ASSUME DispatchInv, NEW c \in Call, NEW asked \in SelfId \union {None},
         DispatchAsync(c, asked)
  PROVE  DispatchInv'
<1>1. CallsTyped /\ call \in [Call -> CallRecord] /\ call[c].stage = "Free"
  BY DEF DispatchInv, CallsTyped, DispatchAsync
<1> PICK a : a = Select(asked)
  OBVIOUS
<1> PICK r : r = Made("Asynchronous", asked, a, 0, "Lane")
  OBVIOUS
<1>2. /\ a \in Backend \union {None} /\ r \in CallRecord /\ r.stage = "Lane"
      /\ r.mode = "Asynchronous" /\ r.left = 0 /\ r.account = a
  <2>1. a \in Backend \union {None} /\ "Asynchronous" \in Mode /\ "Lane" \in CallStage
    BY <1>1, SelectChooses DEF Mode, CallStage
  <2>2. QED
    BY <2>1 DEF Made, CallRecord, Outcome
<1>3. UNCHANGED <<routes, executor, channel, running, waiting>>
  BY DEF DispatchAsync
<1>4. CASE a = None \/ Len(lane) = LaneCapacity
  <2>1. /\ \/ call' = Answered([call EXCEPT ![c] = r], c, Unroutable)
           \/ call' = Answered([call EXCEPT ![c] = r], c, "Overloaded")
        /\ UNCHANGED <<lane, accepted>>
    BY <1>4 DEF DispatchAsync
  <2>2. Unroutable \in Outcome /\ "Overloaded" \in Outcome
    BY DEF Unroutable, Outcome
  <2>3. QED
    BY <1>1, <1>3, <2>1, <2>2, RefusedInv
<1>5. CASE ~(a = None \/ Len(lane) = LaneCapacity)
  <2>1. /\ call' = [call EXCEPT ![c] = r]
        /\ lane' = Append(lane, c) /\ accepted' = Append(accepted, c)
    BY <1>5 DEF DispatchAsync
  <2>2. Becomes(c, r)
    BY <1>2, <2>1 DEF Becomes
  <2>3. call' \in [Call -> CallRecord]
    BY <1>1, <2>2, BecomesOne
  <2>4. running' \in [Backend -> Call \union {NoCall}] /\ Leaves(c, r)
    BY <1>1, <1>3, FreeIsNowhere DEF CallsTyped, Leaves
  <2>5. PlacesFit'
    BY <1>1, <1>3, <2>2, <2>4, ChannelsRest DEF DispatchInv
  <2>6. LaneFits' /\ LaneKeepsOrder' /\ lane' \in Seq(Call) /\ accepted' \in Seq(Call)
    BY <1>1, <1>2, <2>1, <2>2, LaneGrows DEF DispatchInv
  <2>7. CallsTyped'
    BY <1>1, <1>3, <2>3, <2>6 DEF CallsTyped
  <2>8. WaitingFits' /\ HolderFits'
    BY <1>1, <1>2, <1>3, <2>2, FreeIsNowhere, WaitingIgnores DEF DispatchInv
  <2>9. ModesFit'
    BY <1>1, <1>2, <1>5, <2>2, ModesRest DEF DispatchInv
  <2>10. QED
    BY <2>5, <2>6, <2>7, <2>8, <2>9 DEF DispatchInv
<1>6. QED
  BY <1>4, <1>5

\* Behind the others, the call waits for the mutex.
LEMMA WaitingGrows ==
  ASSUME CallsTyped, WaitingFits, HolderFits, NEW c \in Call, NEW r, Becomes(c, r),
         \A i \in DOMAIN waiting : waiting[i] # c,
         r.mode = "RateLimited", r.present, r.stage = "Locking",
         waiting' = Append(waiting, c)
  PROVE  WaitingFits' /\ HolderFits' /\ waiting' \in Seq(Call)
<1>1. /\ call'[c] = r /\ \A d \in Call : d # c => call'[d] = call[d]
  BY BecomesOne
<1>2. /\ waiting \in Seq(Call) /\ waiting' \in Seq(Call) /\ Len(waiting) \in Nat
      /\ DOMAIN waiting' = 1..(Len(waiting) + 1) /\ DOMAIN waiting = 1..Len(waiting)
      /\ waiting'[Len(waiting) + 1] = c
      /\ \A i \in DOMAIN waiting : waiting'[i] = waiting[i] /\ waiting[i] \in Call
      /\ (waiting # <<>> => Len(waiting) # 0)
  BY Appending, ElementOfSeq, EmptySeq DEF CallsTyped
<1>3. \A i \in DOMAIN waiting : call'[waiting[i]] = call[waiting[i]]
  BY <1>1, <1>2
<1>4. ASSUME NEW i \in DOMAIN waiting'
      PROVE  /\ call'[waiting'[i]].mode = "RateLimited" /\ call'[waiting'[i]].present
             /\ call'[waiting'[i]].stage \in {"Locking", "Channel", "Running"}
             /\ i > 1 => call'[waiting'[i]].stage = "Locking"
             /\ \A j \in DOMAIN waiting' : waiting'[i] = waiting'[j] => i = j
  <2>1. CASE i = Len(waiting) + 1
    <3>1. ASSUME NEW j \in DOMAIN waiting', j # i PROVE waiting'[j] # waiting'[i]
      <4>1. j \in DOMAIN waiting
        BY <1>2, <2>1, <3>1
      <4>2. QED
        BY <1>2, <2>1, <4>1
    <3>2. QED
      BY <1>1, <1>2, <2>1, <3>1
  <2>2. CASE i # Len(waiting) + 1
    <3>1. i \in DOMAIN waiting
      BY <1>2, <2>2
    <3>2. ASSUME NEW j \in DOMAIN waiting', waiting'[i] = waiting'[j] PROVE i = j
      <4>1. CASE j = Len(waiting) + 1
        BY <1>2, <3>1, <3>2, <4>1
      <4>2. CASE j # Len(waiting) + 1
        <5>1. j \in DOMAIN waiting
          BY <1>2, <4>2
        <5>2. QED
          BY <1>2, <3>1, <3>2, <5>1 DEF WaitingFits
      <4>3. QED
        BY <4>1, <4>2
    <3>3. call'[waiting'[i]] = call[waiting[i]]
      BY <1>2, <1>3, <3>1
    <3>4. QED
      BY <3>1, <3>2, <3>3 DEF WaitingFits
  <2>3. QED
    BY <2>1, <2>2
<1>5. WaitingFits'
  BY <1>4 DEF WaitingFits
<1>6. ASSUME NEW d \in Call, Past(d)' PROVE waiting' # <<>> /\ waiting'[1] = d
  <2>1. d # c /\ call'[d] = call[d] /\ Past(d)
    BY <1>1, <1>6 DEF Past
  <2>2. waiting # <<>> /\ waiting[1] = d
    BY <2>1 DEF HolderFits
  <2>3. 1 \in DOMAIN waiting /\ 1 \in DOMAIN waiting'
    BY <1>2, <2>2
  <2>4. QED
    BY <1>2, <2>2, <2>3
<1>7. QED
  BY <1>2, <1>5, <1>6 DEF HolderFits

LEMMA DispatchRateLimitedInv ==
  ASSUME DispatchInv, NEW c \in Call, NEW asked \in SelfId \union {None},
         DispatchRateLimited(c, asked)
  PROVE  DispatchInv'
<1>1. CallsTyped /\ call \in [Call -> CallRecord] /\ call[c].stage = "Free"
  BY DEF DispatchInv, CallsTyped, DispatchRateLimited
<1> PICK a : a = Select(asked)
  OBVIOUS
<1> PICK r : r = Made("RateLimited", asked, a, 0, "Locking")
  OBVIOUS
<1>2. /\ a \in Backend \union {None} /\ r \in CallRecord /\ r.stage = "Locking"
      /\ r.mode = "RateLimited" /\ r.left = 0 /\ r.present /\ r.account = a
  <2>1. a \in Backend \union {None} /\ "RateLimited" \in Mode /\ "Locking" \in CallStage
    BY <1>1, SelectChooses DEF Mode, CallStage
  <2>2. QED
    BY <2>1 DEF Made, CallRecord, Outcome
<1>3. UNCHANGED <<routes, executor, channel, running, lane, accepted>>
  BY DEF DispatchRateLimited
<1>4. CASE a = None
  <2>1. call' = Answered([call EXCEPT ![c] = r], c, Unroutable) /\ UNCHANGED waiting
    BY <1>4 DEF DispatchRateLimited
  <2>2. Unroutable \in Outcome
    BY DEF Unroutable, Outcome
  <2>3. QED
    BY <1>1, <1>3, <2>1, <2>2, RefusedInv
<1>5. CASE a # None
  <2>1. call' = [call EXCEPT ![c] = r] /\ waiting' = Append(waiting, c)
    BY <1>5 DEF DispatchRateLimited
  <2>2. Becomes(c, r)
    BY <1>2, <2>1 DEF Becomes
  <2>3. call' \in [Call -> CallRecord]
    BY <1>1, <2>2, BecomesOne
  <2>4. running' \in [Backend -> Call \union {NoCall}] /\ Leaves(c, r)
    BY <1>1, <1>3, FreeIsNowhere DEF CallsTyped, Leaves
  <2>5. PlacesFit'
    BY <1>1, <1>3, <2>2, <2>4, ChannelsRest DEF DispatchInv
  <2>6. LaneFits'
    BY <1>1, <1>3, <2>2, LaneIgnores DEF DispatchInv
  <2>7. WaitingFits' /\ HolderFits' /\ waiting' \in Seq(Call)
    BY <1>1, <1>2, <2>1, <2>2, FreeIsNowhere, WaitingGrows DEF DispatchInv
  <2>8. CallsTyped'
    BY <1>1, <1>3, <2>3, <2>7 DEF CallsTyped
  <2>9. ModesFit'
    BY <1>1, <1>2, <1>5, <2>2, ModesRest DEF DispatchInv
  <2>10. LaneKeepsOrder'
    BY <1>3 DEF DispatchInv, LaneKeepsOrder
  <2>11. QED
    BY <2>5, <2>6, <2>7, <2>8, <2>9, <2>10 DEF DispatchInv
<1>6. QED
  BY <1>4, <1>5

LEMMA LockInv ==
  ASSUME DispatchInv, Lock PROVE DispatchInv'
<1>1. /\ CallsTyped /\ call \in [Call -> CallRecord] /\ waiting \in Seq(Call)
      /\ waiting # <<>>
  BY DEF DispatchInv, CallsTyped, Lock
<1> PICK c \in Call : c = Head(waiting)
  BY <1>1, Advancing
<1>2. c = waiting[1] /\ 1 \in DOMAIN waiting /\ call[c].stage = "Locking"
  BY <1>1, Advancing DEF Lock
<1> PICK a : a = call[c].account
  OBVIOUS
<1>3. a \in Backend /\ call[c].mode = "RateLimited" /\ call[c].left = 0
  BY <1>2 DEF DispatchInv, ModesFit, WaitingFits, InFlight
<1>4. UNCHANGED <<routes, executor, running, lane, accepted>>
  BY DEF Lock
<1>5. ~ \E d \in Call : Past(d)
  BY <1>2 DEF DispatchInv, HolderFits, Past
<1>6. running' \in [Backend -> Call \union {NoCall}]
  BY <1>1, <1>4 DEF CallsTyped
<1>7. \A b \in Backend : \/ running'[b] = NoCall
                         \/ running'[b] = running[b] /\ running[b] # c
  BY <1>2, <1>4 DEF DispatchInv, PlacesFit, RunningFits
<1>8. CASE Refusal(a) # None
  <2>1. /\ call' = Answered(call, c, Refusal(a)) /\ waiting' = Tail(waiting)
        /\ UNCHANGED channel
    BY <1>8 DEF Lock
  <2>2. PICK r \in CallRecord :
          Becomes(c, r) /\ r.stage = "Answered" /\ r.mode = "Synchronous" /\ r.left = 0
    BY <1>1, <2>1, AnswerBecomes, RefusalAnswers
  <2>3. /\ call' \in [Call -> CallRecord]
        /\ call'[c] = r /\ \A d \in Call : d # c => call'[d] = call[d]
    BY <1>1, <2>2, BecomesOne
  <2>4. PlacesFit'
    <3>1. CallsTyped /\ PlacesFit
      BY DEF DispatchInv
    <3>2. Leaves(c, r) /\ call[c].stage # "Channel"
      BY <1>2, <1>7 DEF Leaves
    <3>3. QED
      BY <1>6, <2>1, <2>2, <3>1, <3>2, ChannelsRest
  <2>5. LaneFits'
    BY <1>1, <1>2, <1>4, <2>2, LaneIgnores DEF DispatchInv
  <2>6. \A d \in Call : ~Past(d)'
    BY <1>5, <2>2, <2>3 DEF Past
  <2>7. \A i \in DOMAIN waiting : i > 1 => call'[waiting[i]] = call[waiting[i]]
    <3>1. ASSUME NEW i \in DOMAIN waiting, i > 1 PROVE waiting[i] \in Call /\ waiting[i] # c
      BY <1>1, <1>2, <3>1, ElementOfSeq, LenProperties DEF DispatchInv, WaitingFits
    <3>2. QED
      BY <2>3, <3>1
  <2>8. WaitingFits' /\ HolderFits' /\ waiting' \in Seq(Call)
    BY <1>1, <2>1, <2>6, <2>7, WaitingAdvances DEF DispatchInv
  <2>9. CallsTyped'
    BY <1>1, <1>4, <2>1, <2>3, <2>8 DEF CallsTyped
  <2>10. ModesFit'
    BY <1>1, <2>2, ModesRest DEF DispatchInv, InFlight
  <2>11. LaneKeepsOrder'
    BY <1>4 DEF DispatchInv, LaneKeepsOrder
  <2>12. QED
    BY <2>4, <2>5, <2>8, <2>9, <2>10, <2>11 DEF DispatchInv
<1>9. CASE Refusal(a) = None
  <2>1. /\ call' = [call EXCEPT ![c].stage = "Channel"]
        /\ channel' = [channel EXCEPT ![a] = Append(@, c)]
        /\ UNCHANGED waiting
    BY <1>9 DEF Lock
  <2> PICK r : r = [call[c] EXCEPT !.stage = "Channel"]
    OBVIOUS
  <2>2. /\ r \in CallRecord /\ r.stage = "Channel" /\ r.mode = call[c].mode
        /\ r.account = a /\ r.present = call[c].present /\ r.left = call[c].left
    <3>1. call[c] \in CallRecord /\ "Channel" \in CallStage
      BY <1>1 DEF CallStage
    <3>2. QED
      BY <3>1, StageBecomes
  <2>3. Becomes(c, r)
    BY <2>1, <2>2 DEF Becomes
  <2>4. /\ call' \in [Call -> CallRecord]
        /\ call'[c] = r /\ \A d \in Call : d # c => call'[d] = call[d]
    BY <1>1, <2>3, BecomesOne
  <2>5. PlacesFit' /\ channel' \in [Backend -> Seq(Call)]
    <3>1. CallsTyped /\ PlacesFit
      BY DEF DispatchInv
    <3>2. /\ a \in Backend /\ channel' = [channel EXCEPT ![a] = Append(@, c)]
          /\ running' \in [Backend -> Call \union {NoCall}]
          /\ call[c].stage # "Channel" /\ r.stage = "Channel" /\ r.account = a
      BY <1>1, <1>2, <1>3, <1>6, <1>7, <2>1, <2>2
    <3>3. \A b \in Backend : \/ running'[b] = NoCall
                             \/ running'[b] = running[b] /\ running[b] # c
      BY <1>1, <1>2, <1>3, <1>6, <1>7
    <3>4. QED
      BY <3>1, <3>2, <3>3, <2>3, ChannelGrows
  <2>6. LaneFits'
    BY <1>1, <1>2, <1>4, <2>3, LaneIgnores DEF DispatchInv
  <2>7. ASSUME NEW i \in DOMAIN waiting
        PROVE  /\ call'[waiting[i]].mode = "RateLimited" /\ call'[waiting[i]].present
               /\ call'[waiting[i]].stage \in {"Locking", "Channel", "Running"}
               /\ i > 1 => call'[waiting[i]].stage = "Locking"
    <3>1. waiting[i] \in Call /\ (i > 1 => waiting[i] # c)
      BY <1>1, <1>2, ElementOfSeq, LenProperties DEF DispatchInv, WaitingFits
    <3>2. CASE waiting[i] = c
      <4>1. call[c].mode = "RateLimited" /\ call[c].present /\ ~(i > 1)
        BY <3>1, <3>2 DEF DispatchInv, WaitingFits
      <4>2. r.present
        BY <2>2, <4>1, Zenon
      <4>3. QED
        BY <2>2, <2>4, <3>1, <3>2, <4>1, <4>2
    <3>3. CASE waiting[i] # c
      BY <2>4, <3>1, <3>3 DEF DispatchInv, WaitingFits
    <3>4. QED
      BY <3>2, <3>3
  <2>8. WaitingFits'
    BY <2>1, <2>7 DEF DispatchInv, WaitingFits
  <2>9. HolderFits'
    BY <1>1, <1>2, <1>5, <2>1, <2>4 DEF HolderFits, Past
  <2>10. CallsTyped'
    BY <1>1, <1>4, <2>1, <2>4, <2>5 DEF CallsTyped
  <2>11. ModesFit'
    BY <1>1, <1>3, <2>2, <2>3, ModesRest DEF DispatchInv
  <2>12. LaneKeepsOrder'
    BY <1>4 DEF DispatchInv, LaneKeepsOrder
  <2>13. QED
    BY <2>5, <2>6, <2>8, <2>9, <2>10, <2>11, <2>12 DEF DispatchInv
<1>10. QED
  BY <1>8, <1>9

-----------------------------------------------------------------------------
(* The lane.                                                               *)

\* The lane is one shorter, and its first call is not in it any more.
LEMMA LaneAdvances ==
  ASSUME CallsTyped, LaneFits, LaneKeepsOrder, lane # <<>>, lane' = Tail(lane),
         UNCHANGED accepted,
         \A i \in DOMAIN lane : i > 1 => call'[lane[i]] = call[lane[i]]
  PROVE  LaneFits' /\ LaneKeepsOrder' /\ lane' \in Seq(Call)
<1>1. /\ lane \in Seq(Call) /\ lane' \in Seq(Call) /\ Len(lane) \in Nat \ {0}
      /\ DOMAIN lane = 1..Len(lane) /\ Len(lane') = Len(lane) - 1
      /\ DOMAIN lane' = 1..(Len(lane) - 1)
      /\ \A i \in DOMAIN lane' : i + 1 \in DOMAIN lane /\ lane'[i] = lane[i + 1]
  BY Advancing DEF CallsTyped
<1>2. ASSUME NEW i \in DOMAIN lane'
      PROVE  /\ call'[lane'[i]].stage = "Lane"
             /\ \A j \in DOMAIN lane' : lane'[i] = lane'[j] => i = j
  <2>1. i \in Nat /\ i + 1 \in DOMAIN lane /\ i + 1 > 1 /\ lane'[i] = lane[i + 1]
    BY <1>1
  <2>2. ASSUME NEW j \in DOMAIN lane', lane'[i] = lane'[j] PROVE i = j
    <3>1. j \in Nat /\ j + 1 \in DOMAIN lane /\ lane'[j] = lane[j + 1]
      BY <1>1
    <3>2. i + 1 = j + 1
      BY <2>1, <2>2, <3>1 DEF LaneFits
    <3>3. QED
      BY <2>1, <3>1, <3>2
  <2>3. QED
    BY <2>1, <2>2 DEF LaneFits
<1>3. LaneFits'
  BY <1>2 DEF LaneFits
<1>4. Len(accepted) \in Nat
  BY LenProperties DEF CallsTyped
<1>5. ASSUME NEW i \in DOMAIN lane'
      PROVE  lane'[i] = accepted'[Len(accepted') - Len(lane') + i]
  <2>1. i \in Nat /\ i + 1 \in DOMAIN lane /\ lane'[i] = lane[i + 1]
    BY <1>1
  <2>2. Len(accepted') - Len(lane') + i = Len(accepted) - Len(lane) + (i + 1)
    BY <1>1, <1>4, <2>1
  <2>3. lane[i + 1] = accepted[Len(accepted) - Len(lane) + (i + 1)]
    BY <2>1 DEF LaneKeepsOrder
  <2>4. QED
    BY <2>1, <2>2, <2>3
<1>6. Len(lane') <= Len(accepted')
  BY <1>1, <1>4 DEF LaneKeepsOrder
<1>7. QED
  BY <1>1, <1>3, <1>5, <1>6 DEF LaneKeepsOrder

LEMMA LaneTakeInv ==
  ASSUME DispatchInv, LaneTake PROVE DispatchInv'
<1>1. /\ CallsTyped /\ call \in [Call -> CallRecord] /\ lane \in Seq(Call)
      /\ lane # <<>> /\ lane' = Tail(lane)
  BY DEF DispatchInv, CallsTyped, LaneTake
<1> PICK c \in Call : c = Head(lane)
  BY <1>1, Advancing
<1>2. c = lane[1] /\ 1 \in DOMAIN lane /\ call[c].stage = "Lane"
  BY <1>1, Advancing DEF DispatchInv, LaneFits
<1> PICK a : a = call[c].account
  OBVIOUS
<1>3. a \in Backend /\ call[c].mode = "Asynchronous" /\ call[c].left = 0
  BY <1>2 DEF DispatchInv, ModesFit, InFlight
<1>4. UNCHANGED <<routes, executor, running, waiting, accepted>>
  BY DEF LaneTake
<1>5. \A i \in DOMAIN lane : i > 1 => lane[i] \in Call /\ lane[i] # c
  BY <1>1, <1>2, ElementOfSeq, LenProperties DEF DispatchInv, LaneFits
<1>6. running' \in [Backend -> Call \union {NoCall}]
  BY <1>1, <1>4 DEF CallsTyped
<1>7. \A b \in Backend : \/ running'[b] = NoCall
                         \/ running'[b] = running[b] /\ running[b] # c
  BY <1>2, <1>4 DEF DispatchInv, PlacesFit, RunningFits
<1>8. \A i \in DOMAIN waiting : waiting[i] # c
  BY <1>3 DEF DispatchInv, WaitingFits
<1>9. ASSUME NEW r \in CallRecord, Becomes(c, r), r.mode # "RateLimited", r.left = 0,
             r.stage # "Lane", r.stage \in InFlight => r.account \in Backend,
             PlacesFit', channel' \in [Backend -> Seq(Call)]
      PROVE  DispatchInv'
  <2>1. /\ call' \in [Call -> CallRecord]
        /\ call'[c] = r /\ \A d \in Call : d # c => call'[d] = call[d]
    BY <1>1, <1>9, BecomesOne
  <2>2. LaneFits' /\ LaneKeepsOrder' /\ lane' \in Seq(Call)
    BY <1>1, <1>4, <1>5, <2>1, LaneAdvances DEF DispatchInv
  <2>3. WaitingFits' /\ HolderFits'
    BY <1>1, <1>4, <1>8, <1>9, WaitingIgnores DEF DispatchInv
  <2>4. CallsTyped'
    BY <1>1, <1>4, <1>9, <2>1, <2>2 DEF CallsTyped
  <2>5. ModesFit'
    BY <1>1, <1>9, ModesRest DEF DispatchInv
  <2>6. QED
    BY <1>9, <2>2, <2>3, <2>4, <2>5 DEF DispatchInv
<1>10. CASE Refusal(a) # None
  <2>1. call' = Answered(call, c, Refusal(a)) /\ UNCHANGED channel
    BY <1>10 DEF LaneTake
  <2>2. PICK r \in CallRecord :
          Becomes(c, r) /\ r.stage = "Answered" /\ r.mode = "Synchronous" /\ r.left = 0
    BY <1>1, <2>1, AnswerBecomes, RefusalAnswers
  <2>3. PlacesFit' /\ channel' \in [Backend -> Seq(Call)]
    <3>1. CallsTyped /\ PlacesFit
      BY DEF DispatchInv
    <3>2. Leaves(c, r) /\ call[c].stage # "Channel"
      BY <1>2, <1>7 DEF Leaves
    <3>3. channel' = channel /\ channel \in [Backend -> Seq(Call)]
      BY <2>1, <3>1 DEF CallsTyped
    <3>4. QED
      BY <1>6, <2>2, <3>1, <3>2, <3>3, ChannelsRest
  <2>4. QED
    BY <1>9, <2>2, <2>3 DEF InFlight
<1>11. CASE Refusal(a) = None
  <2>1. /\ call' = [call EXCEPT ![c].stage = "Channel"]
        /\ channel' = [channel EXCEPT ![a] = Append(@, c)]
    BY <1>11 DEF LaneTake
  <2> PICK r : r = [call[c] EXCEPT !.stage = "Channel"]
    OBVIOUS
  <2>2. /\ r \in CallRecord /\ r.stage = "Channel" /\ r.mode = call[c].mode
        /\ r.account = a /\ r.left = call[c].left
    <3>1. call[c] \in CallRecord /\ "Channel" \in CallStage
      BY <1>1 DEF CallStage
    <3>2. QED
      BY <3>1, StageBecomes
  <2>3. Becomes(c, r)
    BY <2>1, <2>2 DEF Becomes
  <2>4. PlacesFit' /\ channel' \in [Backend -> Seq(Call)]
    <3>1. CallsTyped /\ PlacesFit
      BY DEF DispatchInv
    <3>2. /\ a \in Backend /\ channel' = [channel EXCEPT ![a] = Append(@, c)]
          /\ running' \in [Backend -> Call \union {NoCall}]
          /\ call[c].stage # "Channel" /\ r.stage = "Channel" /\ r.account = a
      BY <1>1, <1>2, <1>3, <1>6, <1>7, <2>1, <2>2
    <3>3. \A b \in Backend : \/ running'[b] = NoCall
                             \/ running'[b] = running[b] /\ running[b] # c
      BY <1>1, <1>2, <1>3, <1>6, <1>7
    <3>4. QED
      BY <3>1, <3>2, <3>3, <2>3, ChannelGrows
  <2>5. QED
    BY <1>3, <1>9, <2>2, <2>3, <2>4
<1>12. QED
  BY <1>10, <1>11

-----------------------------------------------------------------------------
(* The actors.                                                             *)

LEMMA ReceiveInv ==
  ASSUME DispatchInv, NEW a \in Backend, Receive(a) PROVE DispatchInv'
<1> PICK s : s = channel[a]
  OBVIOUS
<1>1. /\ CallsTyped /\ call \in [Call -> CallRecord] /\ s \in Seq(Call) /\ s # <<>>
      /\ channel \in [Backend -> Seq(Call)]
      /\ running \in [Backend -> Call \union {NoCall}]
  BY DEF DispatchInv, CallsTyped, Receive
<1> PICK c \in Call : c = Head(s)
  BY <1>1, Advancing
<1>2. /\ c = s[1] /\ 1 \in DOMAIN s /\ Tail(s) \in Seq(Call)
      /\ DOMAIN Tail(s) = 1..(Len(s) - 1) /\ DOMAIN s = 1..Len(s) /\ Len(s) \in Nat
      /\ \A i \in DOMAIN Tail(s) : i + 1 \in DOMAIN s /\ Tail(s)[i] = s[i + 1]
  BY <1>1, Advancing
<1>3. \A i \in DOMAIN s : /\ s[i] \in Call /\ call[s[i]].stage = "Channel"
                          /\ call[s[i]].account = a
                          /\ \A j \in DOMAIN s : s[i] = s[j] => i = j
  BY <1>1, ElementOfSeq, LenProperties DEF DispatchInv, PlacesFit, ChannelFits
<1>4. /\ running' = [running EXCEPT ![a] = c]
      /\ call' = [call EXCEPT ![c].stage = "Running"]
      /\ channel' = [channel EXCEPT ![a] = Tail(s)]
      /\ UNCHANGED <<routes, executor, lane, waiting, accepted>>
  BY DEF Receive
<1> PICK r : r = [call[c] EXCEPT !.stage = "Running"]
  OBVIOUS
<1>5. /\ r \in CallRecord /\ r.stage = "Running" /\ r.mode = call[c].mode
      /\ r.account = a /\ r.present = call[c].present /\ r.left = call[c].left
  <2>1. call[c] \in CallRecord /\ "Running" \in CallStage
    BY <1>1 DEF CallStage
  <2>2. call[c].account = a
    BY <1>2, <1>3
  <2>3. QED
    BY <2>1, <2>2, StageBecomes
<1>6. Becomes(c, r)
  BY <1>4, <1>5 DEF Becomes
<1>7. /\ call' \in [Call -> CallRecord]
      /\ call'[c] = r /\ \A d \in Call : d # c => call'[d] = call[d]
  BY <1>1, <1>6, BecomesOne
<1>8. call[c].stage = "Channel"
  BY <1>2, <1>3
<1>9. /\ channel' \in [Backend -> Seq(Call)] /\ channel'[a] = Tail(s)
      /\ \A b \in Backend : b # a => channel'[b] = channel[b]
      /\ running' \in [Backend -> Call \union {NoCall}] /\ running'[a] = c
      /\ \A b \in Backend : b # a => running'[b] = running[b]
  BY <1>1, <1>2, <1>4
<1>10. ChannelFits(a)'
  <2> PICK t : t = Tail(s)
    OBVIOUS
  <2>1. ASSUME NEW i \in DOMAIN t
        PROVE  /\ call'[t[i]].stage = "Channel" /\ call'[t[i]].account = a
               /\ \A j \in DOMAIN t : t[i] = t[j] => i = j
    <3>1. i \in Nat /\ i + 1 \in DOMAIN s /\ t[i] = s[i + 1] /\ i + 1 # 1
      BY <1>2
    <3>2. t[i] \in Call /\ t[i] # c
      BY <1>2, <1>3, <3>1
    <3>3. ASSUME NEW j \in DOMAIN t, t[i] = t[j] PROVE i = j
      <4>1. j \in Nat /\ j + 1 \in DOMAIN s /\ t[j] = s[j + 1]
        BY <1>2
      <4>2. i + 1 = j + 1
        BY <1>3, <3>1, <3>3, <4>1
      <4>3. QED
        BY <3>1, <4>1, <4>2
    <3>4. QED
      BY <1>3, <1>7, <3>1, <3>2, <3>3
  <2>2. channel'[a] = t
    BY <1>9
  <2>3. QED
    BY <2>1, <2>2 DEF ChannelFits
<1>11. ASSUME NEW b \in Backend, b # a PROVE ChannelFits(b)'
  <2>1. channel[b] \in Seq(Call) /\ ChannelFits(b) /\ channel'[b] = channel[b]
    BY <1>1, <1>9, <1>11 DEF DispatchInv, PlacesFit
  <2>2. ASSUME NEW i \in DOMAIN channel[b]
        PROVE  /\ call'[channel[b][i]].stage = "Channel"
               /\ call'[channel[b][i]].account = b
    <3>1. channel[b][i] \in Call
      BY <2>1, ElementOfSeq, LenProperties
    <3>2. call[channel[b][i]].stage = "Channel" /\ call[channel[b][i]].account = b
      BY <2>1 DEF ChannelFits
    <3>3. call[c].account = a
      BY <1>2, <1>3
    <3>4. QED
      BY <1>7, <1>11, <3>1, <3>2, <3>3
  <2>3. QED
    BY <2>1, <2>2, ChannelStays
<1>12. RunningFits(a)'
  BY <1>5, <1>7, <1>9 DEF RunningFits
<1>13. ASSUME NEW b \in Backend, b # a PROVE RunningFits(b)'
  BY <1>1, <1>7, <1>8, <1>9, <1>13 DEF RunningFits, DispatchInv, PlacesFit
<1>14. PlacesFit'
  BY <1>10, <1>11, <1>12, <1>13 DEF PlacesFit
<1>15. LaneFits'
  BY <1>1, <1>4, <1>6, <1>8, LaneIgnores DEF DispatchInv
<1>16. \A d \in Call : Past(d)' => Past(d)
  <2>1. r.present => call[c].present
    BY <1>5, Zenon
  <2>2. ASSUME NEW d \in Call, Past(d)' PROVE Past(d)
    <3>1. CASE d = c
      <4>1. r.mode = "RateLimited" /\ r.present
        BY <1>7, <2>2, <3>1 DEF Past
      <4>2. QED
        BY <1>5, <1>8, <2>1, <3>1, <4>1 DEF Past
    <3>2. CASE d # c
      BY <1>7, <2>2, <3>2 DEF Past
    <3>3. QED
      BY <3>1, <3>2
  <2>3. QED
    BY <2>2
<1>17. ASSUME NEW i \in DOMAIN waiting
       PROVE  /\ call'[waiting[i]].mode = "RateLimited" /\ call'[waiting[i]].present
              /\ call'[waiting[i]].stage \in {"Locking", "Channel", "Running"}
              /\ i > 1 => call'[waiting[i]].stage = "Locking"
  <2>1. waiting[i] \in Call
    BY <1>1, ElementOfSeq, LenProperties DEF CallsTyped
  <2>2. CASE waiting[i] = c
    <3>1. call[c].mode = "RateLimited" /\ call[c].present /\ ~(i > 1)
      BY <1>8, <2>1, <2>2 DEF DispatchInv, WaitingFits
    <3>2. r.present
      BY <1>5, <3>1, Zenon
    <3>3. QED
      BY <1>5, <1>7, <2>1, <2>2, <3>1, <3>2
  <2>3. CASE waiting[i] # c
    BY <1>7, <2>1, <2>3 DEF DispatchInv, WaitingFits
  <2>4. QED
    BY <2>2, <2>3
<1>18. WaitingFits' /\ HolderFits'
  BY <1>1, <1>4, <1>16, <1>17, WaitingRests DEF DispatchInv
<1>19. CallsTyped'
  BY <1>1, <1>4, <1>7, <1>9 DEF CallsTyped
<1>20. ModesFit'
  <2>1. /\ call[c].mode # "Synchronous" => call[c].left = 0
    BY DEF DispatchInv, ModesFit
  <2>2. QED
    BY <1>1, <1>5, <1>6, <2>1, ModesRest DEF DispatchInv
<1>21. LaneKeepsOrder'
  BY <1>4 DEF DispatchInv, LaneKeepsOrder
<1>22. QED
  BY <1>14, <1>15, <1>18, <1>19, <1>20, <1>21 DEF DispatchInv

LEMMA CompleteInv ==
  ASSUME DispatchInv, NEW a \in Backend, NEW answer \in Answer, Complete(a, answer)
  PROVE  DispatchInv'
<1>1. /\ CallsTyped /\ call \in [Call -> CallRecord] /\ waiting \in Seq(Call)
      /\ channel \in [Backend -> Seq(Call)]
      /\ running \in [Backend -> Call \union {NoCall}] /\ running[a] # NoCall
  BY DEF DispatchInv, CallsTyped, Complete
<1> PICK c \in Call : c = running[a]
  BY <1>1
<1>2. call[c].stage = "Running" /\ call[c].account = a
  BY <1>1 DEF DispatchInv, PlacesFit, RunningFits
<1>3. /\ running' = [running EXCEPT ![a] = NoCall] /\ Release({c})
      /\ UNCHANGED <<routes, executor, lane, accepted>>
  BY DEF Complete
<1>4. /\ running' \in [Backend -> Call \union {NoCall}]
      /\ \A b \in Backend : \/ running'[b] = NoCall
                            \/ running'[b] = running[b] /\ running[b] # c
  <2>1. running' \in [Backend -> Call \union {NoCall}]
    BY <1>1, <1>3
  <2>2. ASSUME NEW b \in Backend, running'[b] # NoCall
        PROVE  running'[b] = running[b] /\ running[b] # c
    <3>1. b # a /\ running'[b] = running[b]
      BY <1>1, <1>3, <2>2
    <3>2. call[running[b]].account = b
      BY <2>2, <3>1 DEF DispatchInv, PlacesFit, RunningFits
    <3>3. QED
      BY <1>2, <3>1, <3>2
  <2>3. QED
    BY <2>1, <2>2
<1>5. LaneKeepsOrder'
  BY <1>3 DEF DispatchInv, LaneKeepsOrder
<1>6. ASSUME NEW outcome \in Outcome, call' = Answered(call, c, outcome),
             UNCHANGED channel
      PROVE  DispatchInv'
  <2>1. PICK r \in CallRecord :
          Becomes(c, r) /\ r.stage = "Answered" /\ r.mode = "Synchronous" /\ r.left = 0
    BY <1>1, <1>6, AnswerBecomes
  <2>2. /\ call' \in [Call -> CallRecord]
        /\ call'[c] = r /\ \A d \in Call : d # c => call'[d] = call[d]
    BY <1>1, <2>1, BecomesOne
  <2>3. PlacesFit'
    BY <1>1, <1>2, <1>4, <1>6, <2>1, ChannelsRest DEF DispatchInv, Leaves
  <2>4. LaneFits'
    BY <1>1, <1>2, <1>3, <2>1, LaneIgnores DEF DispatchInv
  <2>5. WaitingFits' /\ HolderFits' /\ waiting' \in Seq(Call)
    <3>1. CASE waiting # <<>> /\ Head(waiting) = c
      <4>1. waiting' = Tail(waiting) /\ waiting[1] = c /\ 1 \in DOMAIN waiting
        BY <1>1, <1>3, <3>1, Advancing DEF Release
      <4>2. \A i \in DOMAIN waiting : i > 1 => waiting[i] \in Call /\ waiting[i] # c
        BY <1>1, <4>1, ElementOfSeq, LenProperties DEF DispatchInv, WaitingFits
      <4>3. \A d \in Call : Past(d)' => Past(d) /\ d # waiting[1]
        BY <2>1, <2>2, <4>1 DEF Past
      <4>4. QED
        BY <1>1, <2>2, <3>1, <4>1, <4>2, <4>3, WaitingAdvances DEF DispatchInv
    <3>2. CASE ~(waiting # <<>> /\ Head(waiting) = c)
      <4>1. waiting' = waiting
        BY <1>3, <3>2 DEF Release
      <4>2. ASSUME NEW i \in DOMAIN waiting PROVE waiting[i] # c
        <5>1. waiting # <<>> /\ i \in 1..Len(waiting) /\ Len(waiting) \in Nat
          BY <1>1, LenProperties, EmptySeq
        <5>2. CASE i = 1
          BY <1>1, <3>2, <5>1, <5>2, Advancing
        <5>3. CASE i > 1
          BY <1>2, <5>3 DEF DispatchInv, WaitingFits
        <5>4. QED
          BY <5>1, <5>2, <5>3
      <4>3. QED
        BY <1>1, <2>1, <4>1, <4>2, WaitingIgnores DEF DispatchInv
    <3>3. QED
      BY <3>1, <3>2
  <2>6. CallsTyped'
    BY <1>1, <1>3, <1>4, <1>6, <2>2, <2>5 DEF CallsTyped
  <2>7. ModesFit'
    BY <1>1, <2>1, ModesRest DEF DispatchInv, InFlight
  <2>8. QED
    BY <1>5, <2>3, <2>4, <2>5, <2>6, <2>7 DEF DispatchInv
<1> PICK next : next = Select(call[c].asked)
  OBVIOUS
<1>7. next \in Backend \union {None}
  <2>1. call[c] \in CallRecord
    BY <1>1
  <2>2. call[c].asked \in SelfId \union {None}
    BY <2>1 DEF CallRecord
  <2>3. QED
    BY <1>1, <2>2, SelectChooses
<1>8. CASE ~(call[c].left > 0 /\ answer = "Ok" /\ call[c].present)
  <2>1. call' = Answered(call, c, answer) /\ UNCHANGED channel
    BY <1>8 DEF Complete
  <2>2. answer \in Outcome
    BY DEF Answer, Outcome
  <2>3. QED
    BY <1>6, <2>1, <2>2
<1>9. CASE /\ call[c].left > 0 /\ answer = "Ok" /\ call[c].present
           /\ ~(next # None /\ Refusal(next) = None)
  <2>1. /\ \/ call' = Answered(call, c, Unroutable)
           \/ call' = Answered(call, c, Refusal(next))
        /\ UNCHANGED channel
    BY <1>9 DEF Complete
  <2>2. Unroutable \in Outcome
    BY DEF Unroutable, Outcome
  <2>3. QED
    BY <1>6, <2>1, <2>2, RefusalAnswers
<1>10. CASE /\ call[c].left > 0 /\ answer = "Ok" /\ call[c].present
            /\ next # None /\ Refusal(next) = None
  <2> PICK old \in CallRecord : old = call[c]
    BY <1>1
  <2> PICK r : r = Made(old.mode, old.asked, next, old.left - 1, "Channel")
    OBVIOUS
  <2>1. /\ call' = [call EXCEPT ![c] = r] /\ next \in Backend
        /\ channel' = [channel EXCEPT ![next] = Append(@, c)]
    BY <1>7, <1>10 DEF Complete
  <2>2. old.mode = "Synchronous" /\ old.left - 1 = 0
    <3>1. old.left \in {0, 1} /\ old.left > 0
      BY <1>10 DEF CallRecord
    <3>2. old.mode = "Synchronous"
      BY <3>1 DEF DispatchInv, ModesFit
    <3>3. QED
      BY <3>1, <3>2
  <2>3. /\ r \in CallRecord /\ r.stage = "Channel" /\ r.mode = "Synchronous"
        /\ r.account = next
    <3>1. /\ old.asked \in SelfId \union {None} /\ next \in Backend \union {None}
          /\ old.mode \in Mode /\ "Channel" \in CallStage /\ old.left - 1 \in {0, 1}
      BY <1>7, <2>2 DEF CallRecord, CallStage
    <3>2. QED
      BY <2>2, <3>1 DEF Made, CallRecord, Outcome
  <2>4. Becomes(c, r)
    BY <2>1, <2>3 DEF Becomes
  <2>5. call' \in [Call -> CallRecord]
    BY <1>1, <2>4, BecomesOne
  <2>6. PlacesFit' /\ channel' \in [Backend -> Seq(Call)]
    <3>1. CallsTyped /\ PlacesFit
      BY DEF DispatchInv
    <3>2. /\ next \in Backend /\ channel' = [channel EXCEPT ![next] = Append(@, c)]
          /\ running' \in [Backend -> Call \union {NoCall}]
          /\ call[c].stage # "Channel" /\ r.stage = "Channel" /\ r.account = next
      BY <1>2, <1>4, <2>1, <2>3
    <3>3. \A b \in Backend : \/ running'[b] = NoCall
                             \/ running'[b] = running[b] /\ running[b] # c
      BY <1>4
    <3>4. QED
      BY <3>1, <3>2, <3>3, <2>4, ChannelGrows
  <2>7. LaneFits'
    BY <1>1, <1>2, <1>3, <2>4, LaneIgnores DEF DispatchInv
  <2>8. \A i \in DOMAIN waiting : waiting[i] # c
    BY <2>2 DEF DispatchInv, WaitingFits
  <2>9. waiting' = waiting
    <3>1. ~(waiting # <<>> /\ Head(waiting) = c)
      BY <1>1, <2>8, Advancing
    <3>2. QED
      BY <1>3, <3>1 DEF Release
  <2>10. WaitingFits' /\ HolderFits'
    BY <1>1, <2>3, <2>4, <2>8, <2>9, WaitingIgnores DEF DispatchInv
  <2>11. CallsTyped'
    BY <1>1, <1>3, <1>4, <2>5, <2>6, <2>9 DEF CallsTyped
  <2>12. ModesFit'
    BY <1>1, <2>1, <2>3, <2>4, ModesRest DEF DispatchInv
  <2>13. QED
    BY <1>5, <2>6, <2>7, <2>10, <2>11, <2>12 DEF DispatchInv
<1>11. QED
  BY <1>8, <1>9, <1>10

LEMMA ActorEndsInv ==
  ASSUME DispatchInv, NEW a \in Backend, ActorEnds(a) PROVE DispatchInv'
<1>1. /\ CallsTyped /\ call \in [Call -> CallRecord] /\ waiting \in Seq(Call)
      /\ channel \in [Backend -> Seq(Call)] /\ lane \in Seq(Call)
      /\ executor \in [Backend -> {"Serving", "Gone"}]
      /\ running \in [Backend -> Call \union {NoCall}]
  BY DEF DispatchInv, CallsTyped
<1> PICK done : done = ({running[a]} \ {NoCall}) \union ToSet(channel[a])
  OBVIOUS
<1> PICK r : r = Known("Answered", "AccountUnavailable")
  OBVIOUS
<1>2. /\ executor' = [executor EXCEPT ![a] = "Gone"]
      /\ running' = [running EXCEPT ![a] = NoCall]
      /\ channel' = [channel EXCEPT ![a] = <<>>]
      /\ UNCHANGED <<routes, lane, accepted>>
      /\ waiting' = IF waiting # <<>> /\ Head(waiting) \in done THEN Tail(waiting)
                    ELSE waiting
  BY DEF ActorEnds, Release
<1>3. /\ r \in CallRecord /\ r.stage = "Answered" /\ r.mode = "Synchronous"
      /\ r.left = 0
  BY DEF Known, CallRecord, Outcome, CallStage, Mode
<1>4. /\ call' \in [Call -> CallRecord]
      /\ \A d \in Call : call'[d] = IF d \in done THEN r ELSE call[d]
  <2>1. call' = [d \in Call |-> IF d \in done
                                THEN Answered(call, d, "AccountUnavailable")[d]
                                ELSE call[d]]
    BY DEF ActorEnds
  <2>2. \A d \in Call : Answered(call, d, "AccountUnavailable")[d] = r
    BY <1>1 DEF Answered
  <2>3. call' = [d \in Call |-> IF d \in done THEN r ELSE call[d]]
    BY <2>1, <2>2
  <2>4. QED
    BY <1>1, <1>3, <2>3
<1>5. ASSUME NEW d \in Call, d \in done
      PROVE  call[d].stage \in {"Channel", "Running"} /\ call[d].account = a
  <2>1. CASE d = running[a] /\ d # NoCall
    BY <2>1 DEF DispatchInv, PlacesFit, RunningFits
  <2>2. CASE d \in ToSet(channel[a])
    <3>1. PICK i \in DOMAIN channel[a] : d = channel[a][i]
      BY <2>2 DEF ToSet
    <3>2. QED
      BY <3>1 DEF DispatchInv, PlacesFit, ChannelFits
  <2>3. QED
    BY <1>5, <2>1, <2>2
<1>6. ASSUME NEW b \in Backend PROVE ChannelFits(b)'
  <2>1. CASE b = a
    <3>1. channel'[b] = <<>>
      BY <1>1, <1>2, <2>1
    <3>2. DOMAIN channel'[b] = {}
      BY <3>1
    <3>3. QED
      BY <3>2 DEF ChannelFits
  <2>2. CASE b # a
    <3>1. channel[b] \in Seq(Call) /\ ChannelFits(b) /\ channel'[b] = channel[b]
      BY <1>1, <1>2, <2>2 DEF DispatchInv, PlacesFit
    <3>2. ASSUME NEW i \in DOMAIN channel[b]
          PROVE  /\ call'[channel[b][i]].stage = "Channel"
                 /\ call'[channel[b][i]].account = b
      <4>1. channel[b][i] \in Call
        BY <3>1, ElementOfSeq, LenProperties
      <4>2. call[channel[b][i]].stage = "Channel" /\ call[channel[b][i]].account = b
        BY <3>1 DEF ChannelFits
      <4>3. channel[b][i] \notin done
        BY <1>5, <2>2, <4>1, <4>2
      <4>4. QED
        BY <1>4, <4>1, <4>2, <4>3
    <3>3. QED
      BY <3>1, <3>2, ChannelStays
  <2>3. QED
    BY <2>1, <2>2
<1>7. ASSUME NEW b \in Backend PROVE RunningFits(b)'
  <2>1. CASE running'[b] = NoCall
    BY <2>1 DEF RunningFits
  <2>2. CASE running'[b] # NoCall
    <3>1. b # a /\ running'[b] = running[b] /\ running[b] \in Call
      BY <1>1, <1>2, <2>2
    <3>2. call[running[b]].stage = "Running" /\ call[running[b]].account = b
      BY <2>2, <3>1 DEF DispatchInv, PlacesFit, RunningFits
    <3>3. running[b] \notin done
      BY <1>5, <3>1, <3>2
    <3>4. QED
      BY <1>4, <3>1, <3>2, <3>3 DEF RunningFits
  <2>3. QED
    BY <2>1, <2>2
<1>8. LaneFits'
  <2>1. ASSUME NEW d \in Call, call[d].stage = "Lane" PROVE call'[d].stage = "Lane"
    BY <1>4, <1>5, <2>1
  <2>2. QED
    BY <1>1, <1>2, <2>1, LaneRests DEF DispatchInv
<1>9. \A d \in Call : Past(d)' => Past(d) /\ d \notin done
  BY <1>3, <1>4 DEF Past
<1>10. ASSUME NEW i \in DOMAIN waiting
       PROVE  /\ waiting[i] \in Call
              /\ i > 1 => call'[waiting[i]] = call[waiting[i]]
              /\ waiting[i] \notin done => call'[waiting[i]] = call[waiting[i]]
  <2>1. waiting[i] \in Call
    BY <1>1, ElementOfSeq, LenProperties
  <2>2. i > 1 => waiting[i] \notin done
    BY <1>5, <2>1 DEF DispatchInv, WaitingFits
  <2>3. QED
    BY <1>4, <2>1, <2>2
<1>11. WaitingFits' /\ HolderFits' /\ waiting' \in Seq(Call)
  <2>1. CASE waiting # <<>> /\ Head(waiting) \in done
    <3>1. waiting' = Tail(waiting) /\ waiting[1] \in done
      BY <1>1, <1>2, <2>1, Advancing
    <3>2. \A d \in Call : Past(d)' => Past(d) /\ d # waiting[1]
      BY <1>9, <3>1
    <3>3. QED
      BY <1>1, <1>10, <2>1, <3>1, <3>2, WaitingAdvances DEF DispatchInv
  <2>2. CASE ~(waiting # <<>> /\ Head(waiting) \in done)
    <3>1. waiting' = waiting
      BY <1>2, <2>2
    <3>2. ASSUME NEW i \in DOMAIN waiting PROVE call'[waiting[i]] = call[waiting[i]]
      <4>1. waiting # <<>> /\ i \in 1..Len(waiting) /\ Len(waiting) \in Nat
        BY <1>1, LenProperties, EmptySeq
      <4>2. CASE i = 1
        BY <1>1, <1>10, <2>2, <4>1, <4>2, Advancing
      <4>3. CASE i > 1
        BY <1>10, <4>3
      <4>4. QED
        BY <4>1, <4>2, <4>3
    <3>3. ASSUME NEW i \in DOMAIN waiting
          PROVE  /\ call'[waiting[i]].mode = "RateLimited" /\ call'[waiting[i]].present
                 /\ call'[waiting[i]].stage \in {"Locking", "Channel", "Running"}
                 /\ i > 1 => call'[waiting[i]].stage = "Locking"
      BY <3>2 DEF DispatchInv, WaitingFits
    <3>4. QED
      BY <1>1, <1>9, <3>1, <3>3, WaitingRests DEF DispatchInv
  <2>3. QED
    BY <2>1, <2>2
<1>12. CallsTyped'
  <2>1. /\ channel' \in [Backend -> Seq(Call)]
        /\ executor' \in [Backend -> {"Serving", "Gone"}]
        /\ running' \in [Backend -> Call \union {NoCall}]
    BY <1>1, <1>2
  <2>2. QED
    BY <1>1, <1>2, <1>4, <1>11, <2>1 DEF CallsTyped
<1>13. ModesFit'
  BY <1>3, <1>4 DEF DispatchInv, ModesFit, InFlight
<1>14. LaneKeepsOrder'
  BY <1>2 DEF DispatchInv, LaneKeepsOrder
<1>15. QED
  BY <1>6, <1>7, <1>8, <1>11, <1>12, <1>13, <1>14 DEF DispatchInv, PlacesFit

-----------------------------------------------------------------------------
(* A caller goes.                                                          *)

LEMMA WaitingLeft ==
  ASSUME CallsTyped, WaitingFits, HolderFits, NEW c \in Call, NEW r, Becomes(c, r),
         r.mode = "RateLimited" => ~r.present,
         NEW n \in DOMAIN waiting, waiting[n] = c, waiting' = RemoveAt(waiting, n)
  PROVE  WaitingFits' /\ HolderFits' /\ waiting' \in Seq(Call)
<1>1. /\ call'[c] = r /\ \A d \in Call : d # c => call'[d] = call[d]
  BY BecomesOne
<1>2. /\ waiting \in Seq(Call) /\ waiting' \in Seq(Call) /\ Len(waiting) \in Nat
      /\ DOMAIN waiting' = 1..(Len(waiting) - 1) /\ DOMAIN waiting = 1..Len(waiting)
      /\ \A i \in DOMAIN waiting' : /\ Before(n, i) \in DOMAIN waiting
                                    /\ waiting'[i] = waiting[Before(n, i)]
      /\ \A i \in DOMAIN waiting : waiting[i] \in Call
  BY Removing, ElementOfSeq DEF CallsTyped
<1>3. ASSUME NEW i \in DOMAIN waiting'
      PROVE  /\ call'[waiting'[i]].mode = "RateLimited" /\ call'[waiting'[i]].present
             /\ call'[waiting'[i]].stage \in {"Locking", "Channel", "Running"}
             /\ i > 1 => call'[waiting'[i]].stage = "Locking"
             /\ \A j \in DOMAIN waiting' : waiting'[i] = waiting'[j] => i = j
  <2> PICK k \in DOMAIN waiting : k = Before(n, i)
    BY <1>2
  <2>1. /\ i \in Nat /\ k \in Nat /\ n \in Nat /\ k # n /\ (i > 1 => k > 1)
        /\ waiting'[i] = waiting[k]
    BY <1>2 DEF Before
  <2>2. waiting[k] # c
    BY <2>1 DEF WaitingFits
  <2>3. call'[waiting'[i]] = call[waiting[k]]
    BY <1>1, <1>2, <2>1, <2>2
  <2>4. ASSUME NEW j \in DOMAIN waiting', waiting'[i] = waiting'[j] PROVE i = j
    <3>1. j \in Nat /\ Before(n, j) \in DOMAIN waiting
          /\ waiting'[j] = waiting[Before(n, j)]
      BY <1>2
    <3>2. k = Before(n, j)
      BY <2>1, <2>4, <3>1 DEF WaitingFits
    <3>3. QED
      BY <2>1, <3>1, <3>2 DEF Before
  <2>5. QED
    BY <2>1, <2>3, <2>4 DEF WaitingFits
<1>4. WaitingFits'
  BY <1>3 DEF WaitingFits
<1>5. ASSUME NEW d \in Call, Past(d)' PROVE waiting' # <<>> /\ waiting'[1] = d
  <2>1. d # c /\ call'[d] = call[d]
    BY <1>1, <1>5 DEF Past
  <2>2. Past(d)
    BY <1>5, <2>1 DEF Past
  <2>3. waiting[1] = d
    BY <2>2 DEF HolderFits
  <2>4. n \in Nat /\ n > 1 /\ n <= Len(waiting)
    BY <1>2, <2>1, <2>3
  <2>5. 1 \in DOMAIN waiting' /\ Before(n, 1) = 1
    BY <1>2, <2>4 DEF Before
  <2>6. waiting' # <<>>
    BY <2>5
  <2>7. QED
    BY <1>2, <2>3, <2>5, <2>6
<1>6. QED
  BY <1>2, <1>4, <1>5 DEF HolderFits

LEMMA CallerLeavesInv ==
  ASSUME DispatchInv, NEW c \in Call, CallerLeaves(c) PROVE DispatchInv'
<1>1. /\ CallsTyped /\ call \in [Call -> CallRecord] /\ call[c] \in CallRecord
      /\ running \in [Backend -> Call \union {NoCall}]
      /\ channel \in [Backend -> Seq(Call)] /\ waiting \in Seq(Call)
  BY DEF DispatchInv, CallsTyped
<1>2. UNCHANGED <<routes, executor, channel, running, lane, accepted>>
  BY DEF CallerLeaves
<1>3. call[c].present /\ call[c].stage \in InFlight
  BY DEF CallerLeaves
<1>4. ASSUME NEW r \in CallRecord, Becomes(c, r),
             r.mode = "RateLimited" => ~r.present,
             r.mode # "Synchronous" => r.left = 0,
             r.stage = "Lane" => r.mode = "Asynchronous",
             r.stage \in InFlight => r.account \in Backend,
             \/ r.stage = call[c].stage /\ r.account = call[c].account
             \/ call[c].stage = "Locking"
      PROVE  DispatchInv'
  <2>1. /\ call' \in [Call -> CallRecord]
        /\ call'[c] = r /\ \A d \in Call : d # c => call'[d] = call[d]
    BY <1>1, <1>4, BecomesOne
  <2>2. /\ running' \in [Backend -> Call \union {NoCall}]
        /\ channel' \in [Backend -> Seq(Call)]
    BY <1>1, <1>2
  <2>3. Leaves(c, r)
    <3>1. ASSUME NEW b \in Backend, running[b] = c, running[b] # NoCall
          PROVE  r.stage = call[c].stage /\ r.account = call[c].account
      BY <1>4, <3>1 DEF DispatchInv, PlacesFit, RunningFits
    <3>2. QED
      BY <1>2, <3>1 DEF Leaves
  <2>4. call[c].stage = "Channel" =>
          r.stage = call[c].stage /\ r.account = call[c].account
    BY <1>4
  <2>5. PlacesFit'
    BY <1>1, <1>2, <1>4, <2>2, <2>3, <2>4, ChannelsRest DEF DispatchInv
  <2>6. LaneFits'
    <3>1. \A d \in Call : call[d].stage = "Lane" => call'[d].stage = "Lane"
      BY <1>4, <2>1
    <3>2. QED
      BY <1>1, <1>2, <3>1, LaneRests DEF DispatchInv
  <2>7. WaitingFits' /\ HolderFits' /\ waiting' \in Seq(Call)
    <3>1. CASE \E n \in DOMAIN waiting : waiting[n] = c
      <4>1. PICK n \in DOMAIN waiting :
              waiting[n] = c /\ waiting' = RemoveAt(waiting, n)
        BY <3>1 DEF CallerLeaves
      <4>2. QED
        BY <1>1, <1>4, <4>1, WaitingLeft DEF DispatchInv
    <3>2. CASE ~ \E n \in DOMAIN waiting : waiting[n] = c
      <4>1. waiting' = waiting
        BY <3>2 DEF CallerLeaves
      <4>2. \A i \in DOMAIN waiting : call'[waiting[i]] = call[waiting[i]]
        BY <1>1, <2>1, <3>2, ElementOfSeq, LenProperties
      <4>3. \A d \in Call : Past(d)' => Past(d)
        BY <1>4, <2>1 DEF Past
      <4>4. ASSUME NEW i \in DOMAIN waiting
            PROVE  /\ call'[waiting[i]].mode = "RateLimited"
                   /\ call'[waiting[i]].present
                   /\ call'[waiting[i]].stage \in {"Locking", "Channel", "Running"}
                   /\ i > 1 => call'[waiting[i]].stage = "Locking"
        BY <4>2 DEF DispatchInv, WaitingFits
      <4>5. QED
        BY <1>1, <4>1, <4>3, <4>4, WaitingRests DEF DispatchInv
    <3>3. QED
      BY <3>1, <3>2
  <2>8. CallsTyped'
    BY <1>1, <1>2, <2>1, <2>2, <2>7 DEF CallsTyped
  <2>9. ModesFit'
    BY <1>1, <1>4, ModesRest DEF DispatchInv
  <2>10. LaneKeepsOrder'
    BY <1>2 DEF DispatchInv, LaneKeepsOrder
  <2>11. QED
    BY <2>5, <2>6, <2>7, <2>8, <2>9, <2>10 DEF DispatchInv
<1>5. CASE call[c].stage = "Locking"
  <2>1. call' = Answered(call, c, None)
    BY <1>5 DEF CallerLeaves
  <2>2. None \in Outcome
    BY DEF Outcome
  <2>3. PICK r \in CallRecord :
          Becomes(c, r) /\ r.stage = "Answered" /\ r.mode = "Synchronous" /\ r.left = 0
    BY <1>1, <2>1, <2>2, AnswerBecomes
  <2>4. QED
    BY <1>4, <1>5, <2>3 DEF InFlight
<1>6. CASE call[c].stage # "Locking"
  <2>1. call' = [call EXCEPT ![c].present = FALSE]
    BY <1>6 DEF CallerLeaves
  <2> PICK r : r = [call[c] EXCEPT !.present = FALSE]
    OBVIOUS
  <2>2. /\ r \in CallRecord /\ r.stage = call[c].stage /\ r.mode = call[c].mode
        /\ r.account = call[c].account /\ r.left = call[c].left /\ ~r.present
    BY <1>1 DEF CallRecord
  <2>3. Becomes(c, r)
    BY <2>1, <2>2 DEF Becomes
  <2>4. /\ call[c].stage = "Lane" => call[c].mode = "Asynchronous"
        /\ call[c].mode # "Synchronous" => call[c].left = 0
        /\ call[c].account \in Backend
    BY <1>3 DEF DispatchInv, ModesFit
  <2>5. QED
    BY <1>4, <2>2, <2>3, <2>4
<1>7. QED
  BY <1>5, <1>6

-----------------------------------------------------------------------------
LEMMA DispatchInitInv == DispatchInit => DispatchInv
<1> SUFFICES ASSUME DispatchInit PROVE DispatchInv
  OBVIOUS
<1>1. /\ channel = [a \in Backend |-> <<>>] /\ running = [a \in Backend |-> NoCall]
      /\ lane = <<>> /\ waiting = <<>> /\ accepted = <<>>
      /\ call = [c \in Call |-> Fresh]
  BY DEF DispatchInit
<1>2. /\ Fresh \in CallRecord /\ Fresh.stage = "Free" /\ Fresh.mode = "Synchronous"
  BY DEF Fresh, Known, CallRecord, CallStage, Outcome, Mode
<1>3. CallsTyped
  BY <1>1, <1>2 DEF DispatchInit, CallsTyped
<1>4. PlacesFit
  BY <1>1 DEF PlacesFit, ChannelFits, RunningFits
<1>5. LaneFits /\ WaitingFits /\ LaneKeepsOrder
  BY <1>1 DEF LaneFits, WaitingFits, LaneKeepsOrder
<1>6. HolderFits /\ ModesFit
  BY <1>1, <1>2 DEF HolderFits, Past, ModesFit, InFlight
<1>7. QED
  BY <1>3, <1>4, <1>5, <1>6 DEF DispatchInv

\* The registry of the router and what the lane awaits are data to the rest.
LEMMA CallsStay ==
  ASSUME DispatchInv, routes' \in [SelfId -> Backend \union {None}],
         UNCHANGED <<executor, channel, running, lane, waiting, call, accepted>>
  PROVE  DispatchInv'
<1>1. CallsTyped'
  BY DEF DispatchInv, CallsTyped
<1>2. PlacesFit' /\ LaneFits' /\ WaitingFits' /\ HolderFits' /\ ModesFit'
  BY DEF DispatchInv, PlacesFit, ChannelFits, RunningFits, LaneFits, WaitingFits,
         HolderFits, Past, ModesFit
<1>3. LaneKeepsOrder'
  BY DEF DispatchInv, LaneKeepsOrder
<1>4. QED
  BY <1>1, <1>2, <1>3 DEF DispatchInv

LEMMA DispatchStepInv ==
  ASSUME DispatchInv, [DispatchNext]_dispatchVars PROVE DispatchInv'
<1>1. routes \in [SelfId -> Backend \union {None}]
  BY DEF DispatchInv, CallsTyped
<1>2. ASSUME NEW i \in SelfId, Unregister(i) \/ \E a \in Backend : Register(i, a)
      PROVE  DispatchInv'
  <2>1. PICK a \in Backend \union {None} : routes' = [routes EXCEPT ![i] = a]
    BY <1>2 DEF Register, Unregister
  <2>2. UNCHANGED <<executor, channel, running, lane, waiting, call, accepted>>
    BY <1>2 DEF Register, Unregister
  <2>3. routes' \in [SelfId -> Backend \union {None}]
    BY <1>1, <2>1
  <2>4. QED
    BY <2>2, <2>3, CallsStay
<1>3. ASSUME NEW c \in Call, Dispatch(c) PROVE DispatchInv'
  <2>1. PICK asked \in SelfId \union {None} :
          \/ DispatchSync(c, asked, 0) \/ DispatchSync(c, asked, 1)
          \/ DispatchAsync(c, asked) \/ DispatchRateLimited(c, asked)
    BY <1>3 DEF Dispatch
  <2>2. QED
    BY <2>1, DispatchSyncInv, DispatchAsyncInv, DispatchRateLimitedInv
<1>4. ASSUME NEW a \in Backend, ActorStep(a) \/ ActorEnds(a) PROVE DispatchInv'
  BY <1>4, ReceiveInv, CompleteInv, ActorEndsInv DEF ActorStep
<1>5. CASE UNCHANGED dispatchVars
  BY <1>1, <1>5, CallsStay DEF dispatchVars
<1>6. QED
  BY <1>2, <1>3, <1>4, <1>5, CallerLeavesInv, LockInv, LaneTakeInv DEF DispatchNext

\* For any number of calls, accounts and identifiers and any capacities of the
\* lane and of the channels, whoever registers, ends or leaves in between: the
\* lane keeps the order in which it accepted calls, one rate-limited call at a
\* time is past the mutex, and no call is before two actors or twice before one
\* (dispatch.rs, action.rs).
THEOREM DispatchIsSoundCorrect == DispatchSpec => []DispatchIsSound
<1>1. ASSUME DispatchInv PROVE RateLimitedAlone
  <2>1. ASSUME NEW c \in Call, NEW d \in Call,
               {call[c].mode, call[d].mode} = {"RateLimited"},
               {call[c].stage, call[d].stage} \subseteq {"Channel", "Running"},
               call[c].present, call[d].present
        PROVE  c = d
    <3>1. Past(c) /\ Past(d)
      BY <2>1 DEF Past
    <3>2. QED
      BY <1>1, <3>1 DEF DispatchInv, HolderFits
  <2>2. QED
    BY <2>1 DEF RateLimitedAlone
<1>2. ASSUME DispatchInv PROVE ExecutedOnce
  <2>1. \A a \in Backend : ChannelFits(a) /\ RunningFits(a)
    BY <1>2 DEF DispatchInv, PlacesFit
  <2>2. ASSUME NEW a \in Backend, NEW b \in Backend,
               NEW i \in DOMAIN channel[a], NEW j \in DOMAIN channel[b],
               channel[a][i] = channel[b][j]
        PROVE  a = b /\ i = j
    <3>1. a = b
      BY <2>1, <2>2 DEF ChannelFits
    <3>2. QED
      BY <2>1, <2>2, <3>1 DEF ChannelFits
  <2>3. ASSUME NEW a \in Backend, NEW b \in Backend, running[a] # NoCall
        PROVE  /\ running[a] = running[b] => a = b
               /\ \A j \in DOMAIN channel[b] : channel[b][j] # running[a]
    <3>1. call[running[a]].stage = "Running" /\ call[running[a]].account = a
      BY <2>1, <2>3 DEF RunningFits
    <3>2. running[a] = running[b] => a = b
      BY <2>1, <2>3, <3>1 DEF RunningFits
    <3>3. \A j \in DOMAIN channel[b] : channel[b][j] # running[a]
      BY <2>1, <3>1 DEF ChannelFits
    <3>4. QED
      BY <3>2, <3>3
  <2>4. QED
    BY <2>2, <2>3 DEF ExecutedOnce
<1>3. DispatchInv => DispatchIsSound
  BY <1>1, <1>2 DEF DispatchInv, DispatchIsSound
<1>4. QED
  BY DispatchInitInv, DispatchStepInv, <1>3, PTL DEF DispatchSpec


-----------------------------------------------------------------------------
(* The messages.                                                           *)

\* Numbers that hold for one, and for one more than any, hold for all.
LEMMA FromOne ==
  ASSUME NEW n \in Nat, NEW S \in SUBSET (1 .. n), 1 <= n => 1 \in S,
         \A m \in S : m + 1 <= n => m + 1 \in S
  PROVE  S = 1 .. n
<1> SUFFICES ASSUME (1 .. n) \ S # {} PROVE FALSE
  OBVIOUS
<1> DEFINE below == OpToRel(<, Nat)
           rest == (1 .. n) \ S
<1>1. PICK m \in rest : \A x \in rest : ~ (<<x, m>> \in below)
  <2>1. IsWellFoundedOn(below, Nat)
    BY NatLessThanWellFounded
  <2>2. rest \subseteq Nat /\ rest # {}
    OBVIOUS
  <2> HIDE DEF below, rest
  <2> QED
    BY <2>1, <2>2, WFMin
<1>2. m \in 1 .. n /\ m # 1 /\ m - 1 \in 1 .. n /\ (m - 1) + 1 = m
  OBVIOUS
<1>3. m - 1 \in rest
  BY <1>2
<1>4. <<m - 1, m>> \in below
  BY <1>2 DEF OpToRel
<1> QED
  BY <1>1, <1>3, <1>4

\* The join of a list of lists, one list after the other.
IsJoin(seqs, joined, S) ==
  /\ joined \in [1 .. Len(seqs) -> Seq(S)]
  /\ joined[1] = seqs[1]
  /\ \A i \in 2 .. Len(seqs) : joined[i] = joined[i - 1] \o seqs[i]

\* A list of lists can be joined, one list after the other.
LEMMA JoinExists ==
  ASSUME NEW S, NEW seqs \in Seq(Seq(S)), seqs # <<>>
  PROVE  \E joined : IsJoin(seqs, joined, S)
<1> DEFINE n == Len(seqs)
           Joins(m, f) == /\ f \in [1 .. m -> Seq(S)] /\ f[1] = seqs[1]
                          /\ \A i \in 2 .. m : f[i] = f[i - 1] \o seqs[i]
           T == {m \in 1 .. n : \E f : Joins(m, f)}
<1>1. n \in Nat \ {0}
  OBVIOUS
<1>2. 1 \in T
  <2> DEFINE f == [i \in 1 .. 1 |-> seqs[1]]
  <2>1. Joins(1, f)
    <3>1. seqs[1] \in Seq(S)
      BY <1>1
    <3> QED
      BY <3>1
  <2>2. \E g : Joins(1, g)
    <3> HIDE DEF f, Joins
    <3> QED
      BY <2>1
  <2> HIDE DEF Joins
  <2> QED
    BY <1>1, <2>2
<1>3. ASSUME NEW m \in T, m + 1 <= n PROVE m + 1 \in T
  <2>0. m \in 1 .. n /\ m + 1 \in 1 .. n
    BY <1>1, <1>3
  <2>1. PICK f : Joins(m, f)
    <3> HIDE DEF Joins
    <3> QED
      OBVIOUS
  <2> DEFINE g == [i \in 1 .. m + 1 |-> IF i = m + 1 THEN f[m] \o seqs[m + 1] ELSE f[i]]
  <2>2. g \in [1 .. m + 1 -> Seq(S)] /\ g[1] = seqs[1]
    <3>1. seqs[m + 1] \in Seq(S)
      BY <2>0
    <3>2. f[m] \o seqs[m + 1] \in Seq(S)
      BY <2>0, <2>1, <3>1
    <3>3. \A i \in 1 .. m + 1 : i # m + 1 => f[i] \in Seq(S)
      BY <2>0, <2>1
    <3>4. 1 \in 1 .. m + 1 /\ 1 # m + 1
      BY <2>0
    <3> QED
      BY <2>1, <3>2, <3>3, <3>4
  <2>3. ASSUME NEW i \in 2 .. m + 1 PROVE g[i] = g[i - 1] \o seqs[i]
    <3>1. i \in 1 .. m + 1 /\ i - 1 \in 1 .. m + 1 /\ i - 1 # m + 1
      BY <2>0
    <3>2. CASE i = m + 1
      <4>1. i - 1 = m /\ m \in 1 .. m + 1 /\ m # m + 1
        BY <2>0, <3>2
      <4>2. g[i] = f[m] \o seqs[i] /\ g[i - 1] = f[m]
        BY <3>1, <3>2, <4>1
      <4> HIDE DEF g
      <4> QED
        BY <4>2
    <3>3. CASE i # m + 1
      <4>1. g[i] = f[i] /\ g[i - 1] = f[i - 1] /\ i \in 2 .. m
        BY <2>0, <3>1, <3>3
      <4> HIDE DEF g
      <4> QED
        BY <2>1, <4>1
    <3> QED
      BY <3>2, <3>3
  <2>4. \E h : Joins(m + 1, h)
    <3> HIDE DEF g
    <3>1. Joins(m + 1, g)
      BY <2>2, <2>3
    <3> HIDE DEF Joins
    <3> QED
      BY <3>1
  <2> HIDE DEF Joins
  <2> QED
    BY <2>0, <2>4
<1>4. T = 1 .. n
  <2> HIDE DEF T
  <2>1. T \in SUBSET (1 .. n)
    BY DEF T
  <2> HIDE DEF n
  <2> QED
    BY <1>1, <1>2, <1>3, <2>1, FromOne
<1>5. n \in T
  <2> HIDE DEF T, n
  <2> QED
    BY <1>1, <1>4
<1>6. \E f : Joins(n, f)
  <2> HIDE DEF Joins
  <2> QED
    BY <1>5
<1> QED
  BY <1>6 DEF IsJoin

\* The library's flattening, which chooses a function by its equation, is the join.
LEMMA FlatIsJoin ==
  ASSUME NEW S, NEW seqs \in Seq(Seq(S)), seqs # <<>>
  PROVE  \E joined : IsJoin(seqs, joined, S) /\ FlattenSeq(seqs) = joined[Len(seqs)]
<1> DEFINE Equation(f) == f = [i \in 1 .. Len(seqs) |->
                                 IF i = 1 THEN seqs[i] ELSE f[i - 1] \o seqs[i]]
           chosen == CHOOSE f : Equation(f)
<1>1. Len(seqs) \in Nat \ {0}
  OBVIOUS
<1>2. PICK joined : IsJoin(seqs, joined, S)
  BY JoinExists
<1>3. Equation(joined)
  <2>1. \A i \in 1 .. Len(seqs) :
          joined[i] = IF i = 1 THEN seqs[i] ELSE joined[i - 1] \o seqs[i]
    <3> TAKE i \in 1 .. Len(seqs)
    <3>1. i # 1 => i \in 2 .. Len(seqs)
      BY <1>1
    <3> QED
      BY <1>2, <3>1 DEF IsJoin
  <2>2. joined = [i \in 1 .. Len(seqs) |-> joined[i]]
    BY <1>2 DEF IsJoin
  <2> QED
    BY <2>1, <2>2
<1>4. Equation(chosen)
  <2> HIDE DEF Equation
  <2> QED
    BY <1>3
<1>5. FlattenSeq(seqs) = chosen[Len(seqs)]
  BY <1>1 DEF FlattenSeq
<1> HIDE DEF chosen
<1>6. IsJoin(seqs, chosen, S)
  <2>0. /\ DOMAIN chosen = 1 .. Len(seqs) /\ chosen = [i \in 1 .. Len(seqs) |-> chosen[i]]
        /\ chosen[1] = seqs[1]
        /\ \A i \in 2 .. Len(seqs) : chosen[i] = chosen[i - 1] \o seqs[i]
    <3>1. \A i \in 1 .. Len(seqs) :
            chosen[i] = IF i = 1 THEN seqs[i] ELSE chosen[i - 1] \o seqs[i]
      BY <1>4
    <3>2. chosen = [i \in 1 .. Len(seqs) |-> chosen[i]]
      BY <1>4
    <3>3. 1 \in 1 .. Len(seqs) /\ \A i \in 2 .. Len(seqs) : i \in 1 .. Len(seqs) /\ i # 1
      BY <1>1
    <3> QED
      BY <3>1, <3>2, <3>3, <1>4
  <2> DEFINE T == {m \in 1 .. Len(seqs) : chosen[m] \in Seq(S)}
  <2>1. 1 \in T
    BY <1>1, <2>0
  <2>2. ASSUME NEW m \in T, m + 1 <= Len(seqs) PROVE m + 1 \in T
    <3>1. m + 1 \in 2 .. Len(seqs) /\ (m + 1) - 1 = m /\ seqs[m + 1] \in Seq(S)
      BY <1>1, <2>2
    <3>2. chosen[m + 1] = chosen[m] \o seqs[m + 1]
      BY <2>0, <3>1
    <3>3. chosen[m] \in Seq(S)
      OBVIOUS
    <3>4. chosen[m + 1] \in Seq(S)
      BY <3>1, <3>2, <3>3
    <3> QED
      BY <3>1, <3>4
  <2>3. T = 1 .. Len(seqs)
    <3> HIDE DEF T
    <3>1. T \in SUBSET (1 .. Len(seqs))
      BY DEF T
    <3> QED
      BY <1>1, <2>1, <2>2, <3>1, FromOne
  <2>4. chosen \in [1 .. Len(seqs) -> Seq(S)]
    BY <2>0, <2>3
  <2> QED
    BY <2>0, <2>4 DEF IsJoin
<1> QED
  BY <1>5, <1>6

\* Each place of a join of the first m lists comes from one of them, in their order;
\* each element of a list has a place; and places of one list are as many as its elements.
Traced(seqs, m, flat, f) ==
  /\ f \in [1 .. Len(flat) -> 1 .. m]
  /\ \A j, k \in 1 .. Len(flat) : j < k => f[j] <= f[k]
  /\ \A j \in 1 .. Len(flat) : \E k \in 1 .. Len(seqs[f[j]]) : flat[j] = seqs[f[j]][k]
  /\ \A i \in 1 .. m : \A k \in 1 .. Len(seqs[i]) :
       \E j \in 1 .. Len(flat) : f[j] = i /\ flat[j] = seqs[i][k]
  /\ \A j, k \in 1 .. Len(flat) : f[j] = f[k] /\ j # k => Len(seqs[f[j]]) > 1

\* One list more is one more origin, behind the others.
LEMMA TraceGrows ==
  ASSUME NEW S, NEW seqs \in Seq(Seq(S)), NEW m \in 1 .. Len(seqs), m + 1 <= Len(seqs),
         NEW flat \in Seq(S), NEW f, Traced(seqs, m, flat, f)
  PROVE  \E g : Traced(seqs, m + 1, flat \o seqs[m + 1], g)
<1> DEFINE last == seqs[m + 1]
           whole == flat \o last
           g == [j \in 1 .. Len(whole) |-> IF j <= Len(flat) THEN f[j] ELSE m + 1]
<1>1. /\ Len(seqs) \in Nat /\ m \in Nat /\ m + 1 \in 1 .. Len(seqs) /\ last \in Seq(S)
      /\ Len(flat) \in Nat /\ Len(last) \in Nat
  OBVIOUS
<1>2. /\ whole \in Seq(S) /\ Len(whole) = Len(flat) + Len(last)
      /\ \A j \in 1 .. Len(flat) : whole[j] = flat[j]
      /\ \A k \in 1 .. Len(last) : whole[Len(flat) + k] = last[k]
      /\ \A j \in 1 .. Len(whole) : j > Len(flat) =>
           j - Len(flat) \in 1 .. Len(last) /\ whole[j] = last[j - Len(flat)]
  BY <1>1
<1> HIDE DEF whole
<1>3. /\ \A j \in 1 .. Len(flat) : j \in 1 .. Len(whole) /\ g[j] = f[j] /\ f[j] \in 1 .. m
      /\ \A j \in 1 .. Len(whole) : j > Len(flat) => g[j] = m + 1
      /\ \A j \in 1 .. Len(whole) : j <= Len(flat) => j \in 1 .. Len(flat)
      /\ DOMAIN g = 1 .. Len(whole)
  <2>1. \A j \in 1 .. Len(flat) : f[j] \in 1 .. m
    BY DEF Traced
  <2>2. \A j \in 1 .. Len(flat) : j \in 1 .. Len(whole) /\ j <= Len(flat)
    BY <1>1, <1>2
  <2>3. \A j \in 1 .. Len(whole) : j <= Len(flat) => j \in 1 .. Len(flat)
    BY <1>1, <1>2
  <2>4. \A j \in 1 .. Len(whole) : j > Len(flat) => ~(j <= Len(flat))
    BY <1>1, <1>2
  <2> QED
    BY <2>1, <2>2, <2>3, <2>4
<1>4. g \in [1 .. Len(whole) -> 1 .. m + 1]
  <2>1. \A j \in 1 .. Len(whole) : g[j] \in 1 .. m + 1
    <3> TAKE j \in 1 .. Len(whole)
    <3>1. CASE j <= Len(flat)
      <4>1. g[j] = f[j] /\ f[j] \in 1 .. m
        BY <1>3, <3>1
      <4> HIDE DEF g
      <4> QED
        BY <1>1, <4>1
    <3>2. CASE j > Len(flat)
      <4>1. g[j] = m + 1
        BY <1>3, <3>2
      <4> HIDE DEF g
      <4> QED
        BY <1>1, <4>1
    <3> QED
      BY <1>1, <1>2, <3>1, <3>2
  <2> QED
    BY <2>1
<1> HIDE DEF g, last
<1>5. \A j, k \in 1 .. Len(whole) : j < k => g[j] <= g[k]
  <2> SUFFICES ASSUME NEW j \in 1 .. Len(whole), NEW k \in 1 .. Len(whole), j < k
               PROVE  g[j] <= g[k]
    OBVIOUS
  <2>1. CASE k <= Len(flat)
    <3>1. j \in 1 .. Len(flat) /\ k \in 1 .. Len(flat)
      BY <1>1, <1>2, <2>1
    <3> QED
      BY <1>3, <3>1 DEF Traced
  <2>2. CASE k > Len(flat)
    <3>1. g[k] = m + 1 /\ g[j] \in 1 .. m + 1
      BY <1>3, <1>4, <2>2
    <3> QED
      BY <1>1, <3>1
  <2> QED
    BY <1>1, <1>2, <2>1, <2>2
<1>6. \A j \in 1 .. Len(whole) : \E k \in 1 .. Len(seqs[g[j]]) : whole[j] = seqs[g[j]][k]
  <2> TAKE j \in 1 .. Len(whole)
  <2>1. CASE j <= Len(flat)
    <3>1. j \in 1 .. Len(flat) /\ g[j] = f[j] /\ whole[j] = flat[j]
      BY <1>2, <1>3, <2>1
    <3>2. \E k \in 1 .. Len(seqs[f[j]]) : flat[j] = seqs[f[j]][k]
      BY <3>1 DEF Traced
    <3> QED
      BY <3>1, <3>2
  <2>2. CASE j > Len(flat)
    <3>1. g[j] = m + 1 /\ j - Len(flat) \in 1 .. Len(last) /\ whole[j] = last[j - Len(flat)]
      BY <1>2, <1>3, <2>2
    <3> QED
      BY <3>1 DEF last
  <2> QED
    BY <1>1, <1>2, <2>1, <2>2
<1>7. \A i \in 1 .. m + 1 : \A k \in 1 .. Len(seqs[i]) :
        \E j \in 1 .. Len(whole) : g[j] = i /\ whole[j] = seqs[i][k]
  <2> SUFFICES ASSUME NEW i \in 1 .. m + 1, NEW k \in 1 .. Len(seqs[i])
               PROVE  \E j \in 1 .. Len(whole) : g[j] = i /\ whole[j] = seqs[i][k]
    OBVIOUS
  <2>1. CASE i = m + 1
    <3>1. k \in 1 .. Len(last)
      BY <2>1 DEF last
    <3>2. /\ Len(flat) + k \in 1 .. Len(whole) /\ Len(flat) + k > Len(flat)
          /\ whole[Len(flat) + k] = last[k]
      BY <1>1, <1>2, <3>1
    <3>3. g[Len(flat) + k] = i /\ whole[Len(flat) + k] = seqs[i][k]
      BY <1>3, <2>1, <3>2 DEF last
    <3> QED
      BY <3>2, <3>3
  <2>2. CASE i # m + 1
    <3>1. i \in 1 .. m
      BY <1>1, <2>2
    <3>2. PICK j \in 1 .. Len(flat) : f[j] = i /\ flat[j] = seqs[i][k]
      BY <3>1 DEF Traced
    <3>3. j \in 1 .. Len(whole) /\ g[j] = i /\ whole[j] = seqs[i][k]
      BY <1>2, <1>3, <3>2
    <3> QED
      BY <3>3
  <2> QED
    BY <2>1, <2>2
<1>8. \A j, k \in 1 .. Len(whole) : g[j] = g[k] /\ j # k => Len(seqs[g[j]]) > 1
  <2> SUFFICES ASSUME NEW j \in 1 .. Len(whole), NEW k \in 1 .. Len(whole),
                      g[j] = g[k], j # k
               PROVE  Len(seqs[g[j]]) > 1
    OBVIOUS
  <2>1. CASE j <= Len(flat)
    <3>1. j \in 1 .. Len(flat) /\ g[j] = f[j] /\ g[j] # m + 1
      BY <1>1, <1>3, <2>1
    <3>2. ~(k > Len(flat))
      BY <1>3, <3>1
    <3>3. k \in 1 .. Len(flat) /\ g[k] = f[k]
      BY <1>1, <1>2, <1>3, <3>2
    <3> QED
      BY <3>1, <3>3 DEF Traced
  <2>2. CASE j > Len(flat)
    <3>1. g[j] = m + 1 /\ j - Len(flat) \in 1 .. Len(last)
      BY <1>2, <1>3, <2>2
    <3>2. ~(k <= Len(flat))
      <4> SUFFICES ASSUME k <= Len(flat) PROVE FALSE
        OBVIOUS
      <4>1. g[k] \in 1 .. m
        BY <1>3
      <4> QED
        BY <1>1, <3>1, <4>1
    <3>3. k - Len(flat) \in 1 .. Len(last)
      BY <1>1, <1>2, <3>2
    <3>4. Len(last) > 1
      BY <1>1, <3>1, <3>3
    <3> QED
      BY <3>1, <3>4 DEF last
  <2> QED
    BY <1>1, <1>2, <2>1, <2>2
<1>9. Traced(seqs, m + 1, whole, g)
  BY <1>4, <1>5, <1>6, <1>7, <1>8 DEF Traced
<1> QED
  BY <1>9 DEF whole, last

\* A list of one element, put behind another list, adds one place to it.
LEMMA OneMore ==
  ASSUME NEW S, NEW head \in Seq(S), NEW one \in Seq(S), Len(one) = 1
  PROVE  /\ Len(head \o one) = Len(head) + 1
         /\ \A i \in 1 .. Len(head) : (head \o one)[i] = head[i]
         /\ (head \o one)[Len(head) + 1] = one[1]
<1>1. /\ Len(head \o one) = Len(head) + Len(one)
      /\ \A i \in 1 .. Len(head) + Len(one) :
           (head \o one)[i] = IF i <= Len(head) THEN head[i] ELSE one[i - Len(head)]
  BY ConcatProperties
<1>2. /\ Len(head) \in Nat /\ Len(head) + 1 \in 1 .. Len(head) + Len(one)
      /\ ~(Len(head) + 1 <= Len(head)) /\ (Len(head) + 1) - Len(head) = 1
      /\ \A i \in 1 .. Len(head) : i <= Len(head) /\ i \in 1 .. Len(head) + Len(one)
  OBVIOUS
<1> QED
  BY <1>1, <1>2

\* The flattening of a list of lists can be traced, and is as long as the list
\* if each of the lists has one element.
LEMMA FlatTraced ==
  ASSUME NEW S, NEW seqs \in Seq(Seq(S)), seqs # <<>>
  PROVE  /\ FlattenSeq(seqs) \in Seq(S)
         /\ \E f : Traced(seqs, Len(seqs), FlattenSeq(seqs), f)
         /\ (\A i \in 1 .. Len(seqs) : Len(seqs[i]) = 1) =>
              /\ Len(FlattenSeq(seqs)) = Len(seqs)
              /\ \A i \in 1 .. Len(seqs) : FlattenSeq(seqs)[i] = seqs[i][1]
<1> DEFINE n == Len(seqs)
<1>1. n \in Nat \ {0}
  OBVIOUS
<1>2. PICK joined : IsJoin(seqs, joined, S) /\ FlattenSeq(seqs) = joined[n]
  BY FlatIsJoin
<1>3. /\ \A m \in 1 .. n : joined[m] \in Seq(S) /\ seqs[m] \in Seq(S)
      /\ joined[1] = seqs[1]
      /\ \A m \in 1 .. n : m + 1 <= n => joined[m + 1] = joined[m] \o seqs[m + 1]
  <2>1. \A m \in 1 .. n : m + 1 <= n => m + 1 \in 2 .. n /\ (m + 1) - 1 = m
    BY <1>1
  <2>2. \A m \in 1 .. n : joined[m] \in Seq(S)
    BY <1>2 DEF IsJoin
  <2>3. \A m \in 1 .. n : seqs[m] \in Seq(S)
    OBVIOUS
  <2>4. joined[1] = seqs[1] /\ \A i \in 2 .. n : joined[i] = joined[i - 1] \o seqs[i]
    BY <1>2 DEF IsJoin
  <2> HIDE DEF n
  <2> QED
    BY <2>1, <2>2, <2>3, <2>4
<1> HIDE DEF n
<1>4. \A m \in 1 .. n : \E f : Traced(seqs, m, joined[m], f)
  <2> DEFINE T == {m \in 1 .. n : \E f : Traced(seqs, m, joined[m], f)}
  <2>1. 1 \in T
    <3> DEFINE f == [j \in 1 .. Len(seqs[1]) |-> 1]
    <3>0. 1 \in 1 .. n /\ seqs[1] \in Seq(S)
      BY <1>1, <1>3
    <3>1. Traced(seqs, 1, joined[1], f)
      <4>1. Len(seqs[1]) \in Nat
        BY <3>0
      <4>2. \A j, k \in 1 .. Len(seqs[1]) : f[j] = f[k] /\ j # k => Len(seqs[f[j]]) > 1
        <5> TAKE j, k \in 1 .. Len(seqs[1])
        <5>1. j # k => Len(seqs[1]) > 1
          BY <4>1
        <5> QED
          BY <5>1
      <4>3. f \in [1 .. Len(seqs[1]) -> 1 .. 1] /\ \A j \in 1 .. Len(seqs[1]) : f[j] = 1
        OBVIOUS
      <4>4. \A j \in 1 .. Len(seqs[1]) :
              \E k \in 1 .. Len(seqs[f[j]]) : seqs[1][j] = seqs[f[j]][k]
        BY <4>3
      <4>5. \A i \in 1 .. 1 : i = 1
        OBVIOUS
      <4> HIDE DEF f
      <4>6. \A i \in 1 .. 1 : \A k \in 1 .. Len(seqs[i]) :
              \E j \in 1 .. Len(seqs[1]) : f[j] = i /\ seqs[1][j] = seqs[i][k]
        BY <4>3, <4>5
      <4>7. \A j, k \in 1 .. Len(seqs[1]) : j < k => f[j] <= f[k]
        BY <4>3
      <4> QED
        BY <1>3, <4>2, <4>3, <4>4, <4>6, <4>7 DEF Traced
    <3>2. \E h : Traced(seqs, 1, joined[1], h)
      <4> HIDE DEF f
      <4> QED
        BY <3>1
    <3> QED
      BY <3>0, <3>2
  <2>2. ASSUME NEW m \in T, m + 1 <= n PROVE m + 1 \in T
    <3>1. m \in 1 .. n /\ m + 1 \in 1 .. n /\ joined[m + 1] = joined[m] \o seqs[m + 1]
          /\ joined[m] \in Seq(S)
      <4>1. m \in 1 .. n
        OBVIOUS
      <4> HIDE DEF T
      <4>2. m + 1 \in 1 .. n
        BY <1>1, <2>2, <4>1
      <4> QED
        BY <1>3, <2>2, <4>1, <4>2
    <3>2. PICK f : Traced(seqs, m, joined[m], f)
      OBVIOUS
    <3>3. \E g : Traced(seqs, m + 1, joined[m] \o seqs[m + 1], g)
      BY <2>2, <3>1, <3>2, TraceGrows DEF n
    <3> QED
      BY <3>1, <3>3
  <2>3. T = 1 .. n
    <3> HIDE DEF T
    <3>1. T \in SUBSET (1 .. n)
      BY DEF T
    <3> QED
      BY <1>1, <2>1, <2>2, <3>1, FromOne
  <2> QED
    BY <2>3
<1>5. ASSUME \A i \in 1 .. n : Len(seqs[i]) = 1
      PROVE  \A m \in 1 .. n : Len(joined[m]) = m /\ \A i \in 1 .. m : joined[m][i] = seqs[i][1]
  <2> DEFINE Single(m) == Len(joined[m]) = m /\ \A i \in 1 .. m : joined[m][i] = seqs[i][1]
             T == {m \in 1 .. n : Single(m)}
  <2>1. 1 \in T
    BY <1>1, <1>3, <1>5
  <2>2. ASSUME NEW m \in T, m + 1 <= n PROVE m + 1 \in T
    <3>1. m \in 1 .. n /\ m + 1 \in 1 .. n /\ joined[m + 1] = joined[m] \o seqs[m + 1]
          /\ joined[m] \in Seq(S) /\ seqs[m + 1] \in Seq(S) /\ Len(seqs[m + 1]) = 1
          /\ Len(joined[m]) = m /\ (\A i \in 1 .. m : joined[m][i] = seqs[i][1])
      <4>1. m \in 1 .. n /\ Single(m)
        OBVIOUS
      <4>2. m + 1 \in 1 .. n
        BY <1>1, <2>2, <4>1
      <4> HIDE DEF T
      <4> QED
        BY <1>3, <1>5, <2>2, <4>1, <4>2
    <3>2. /\ Len(joined[m + 1]) = m + 1
          /\ \A i \in 1 .. m : joined[m + 1][i] = joined[m][i]
          /\ joined[m + 1][m + 1] = seqs[m + 1][1]
      <4>1. /\ Len(joined[m] \o seqs[m + 1]) = m + 1
            /\ \A i \in 1 .. m : (joined[m] \o seqs[m + 1])[i] = joined[m][i]
            /\ (joined[m] \o seqs[m + 1])[m + 1] = seqs[m + 1][1]
        <5> DEFINE head == joined[m]
                   one == seqs[m + 1]
        <5>1. head \in Seq(S) /\ one \in Seq(S) /\ Len(one) = 1 /\ Len(head) = m
          BY <3>1
        <5> HIDE DEF head, one, T, Single
        <5>2. /\ Len(head \o one) = Len(head) + 1
              /\ \A i \in 1 .. Len(head) : (head \o one)[i] = head[i]
              /\ (head \o one)[Len(head) + 1] = one[1]
          BY <5>1, OneMore
        <5> QED
          BY <5>1, <5>2 DEF head, one
      <4> QED
        BY <3>1, <4>1
    <3>3. \A i \in 1 .. m + 1 : i \in 1 .. m \/ i = m + 1
      BY <3>1
    <3>4. Single(m + 1)
      BY <3>1, <3>2, <3>3
    <3> HIDE DEF Single
    <3> QED
      BY <3>1, <3>4
  <2>3. T = 1 .. n
    <3> HIDE DEF T
    <3>1. T \in SUBSET (1 .. n)
      BY DEF T
    <3> QED
      BY <1>1, <2>1, <2>2, <3>1, FromOne
  <2> QED
    BY <2>3
<1>6. n \in 1 .. n
  BY <1>1
<1> QED
  BY <1>2, <1>3, <1>4, <1>5, <1>6 DEF n

\* What a reader is shown of a message: never a keyboard, and XML of service 35 only.
Displayed(s) ==
  /\ s = Segment(s.kind, s.v, s.id)
  /\ \/ s.kind \in {"text", "at", "markdown", "mface", "json", "reply"} /\ s.id = 0
     \/ s.kind \in Media /\ s.v = "uuid" /\ s.id = 0
     \/ s.kind = "face" /\ s.v = ""
     \/ s.kind \in {"dice", "rps"} /\ s.v = "" /\ s.id = 0
     \/ s.kind = "location" /\ s.v = "map" /\ s.id = 0
     \/ s.kind = "forward" /\ s.v = "bundle" /\ s.id = 0
     \/ s.kind = "xml" /\ s.v # "bundle" /\ s.id = 35
     \/ s.kind = "poke"
     \/ s = Unsupported

\* What a bot writes, of its own or because it was shown it.
Formed(s) ==
  \/ Displayed(s)
  \/ /\ s = Segment(s.kind, s.v, s.id)
     /\ \/ s.kind = "keyboard" /\ s.id = 0
        \/ s.kind = "xml"
        \/ s.kind \in Media /\ s.id = 0

Card == Segment("forward", "bundle", 0)

\* A segment the account sends: one it accepts, or the card of an uploaded forward.
Accepted(s, where) == Formed(s) /\ (s = Card \/ (Compilable(s, where) /\ Encodable(s)))

\* A segment has the fields it was made of.
LEMMA SegmentFields ==
  ASSUME NEW kind, NEW v, NEW id
  PROVE  /\ Segment(kind, v, id).kind = kind /\ Segment(kind, v, id).v = v
         /\ Segment(kind, v, id).id = id
BY DEF Segment

\* A part of an element has the fields it was made of.
LEMMA PartFields ==
  ASSUME NEW slot, NEW service, NEW business, NEW v, NEW id
  PROVE  /\ Part(slot, service, business, v, id).slot = slot
         /\ Part(slot, service, business, v, id).service = service
         /\ Part(slot, service, business, v, id).business = business
         /\ Part(slot, service, business, v, id).v = v
         /\ Part(slot, service, business, v, id).id = id
BY DEF Part

\* The results of the decoder that are no segment of a bot, and the card, by their fields.
LEMMA NamedKinds ==
  /\ Nothing.kind = "nothing" /\ Malformed.kind = "malformed"
  /\ Unsupported.kind = "lirvena_unsupported" /\ Card.kind = "forward"
  /\ Card.v = "bundle" /\ Card.id = 0
BY DEF Nothing, Malformed, Unsupported, Card, Segment

\* An element of one part is what that part is projected to, if to anything.
LEMMA DecodedPart ==
  ASSUME NEW p
  PROVE  Decoded({p}) = IF Projection(p) = Nothing THEN Unsupported ELSE Projection(p)
<1> DEFINE found == { Projection(part) : part \in {p} } \ {Nothing}
           parts == { part \in {p} : Projection(part) # Nothing }
<1>1. Nothing # Malformed /\ Malformed # Unsupported
  BY NamedKinds
<1>2. Decoded({p}) = CASE Malformed \in found -> Malformed
                       [] \E part \in parts : parts = {part} -> CHOOSE s \in found : TRUE
                       [] OTHER -> Unsupported
  BY DEF Decoded
<1>3. CASE Projection(p) = Nothing
  <2>1. found = {} /\ parts = {}
    BY <1>3
  <2> HIDE DEF found, parts
  <2> QED
    BY <1>2, <1>3, <2>1
<1>4. CASE Projection(p) # Nothing
  <2>1. found = {Projection(p)} /\ parts = {p}
    BY <1>4
  <2> HIDE DEF found, parts
  <2>2. CASE Projection(p) = Malformed
    BY <1>1, <1>2, <2>1, <2>2
  <2>3. CASE Projection(p) # Malformed
    <3>1. ~(Malformed \in found) /\ \E part \in parts : parts = {part}
      BY <2>1, <2>3
    <3>2. Decoded({p}) = CHOOSE s \in found : TRUE
      BY <1>2, <3>1
    <3>3. (CHOOSE s \in found : TRUE) \in found
      BY <2>1
    <3> QED
      BY <1>4, <2>1, <3>2, <3>3
  <2> QED
    BY <1>4, <2>2, <2>3
<1> QED
  BY <1>3, <1>4

\* A segment of one element, which is shown as d.
ShownAs(s, where, c, d) ==
  \E e : Compiled(Resolved(s), where, c) = << e >> /\ Decoded(e) = d

\* Text, mentions, markdown and stickers keep their content.
LEMMA ContentShown ==
  ASSUME NEW s, NEW where, NEW c, s = Segment(s.kind, s.v, s.id), s.id = 0,
         s.kind \in {"text", "at", "markdown", "mface"},
         s.kind \in {"text", "at"} => s.v # "nul"
  PROVE  ShownAs(s, where, c, s)
<1>0. Resolved(s) = s /\ s # Nothing /\ Segment(s.kind, s.v, 0) = s
  BY NamedKinds DEF Resolved
<1>1. CASE s.kind = "text"
  <2> DEFINE p == Part("text", 0, 0, s.v, 0)
  <2>1. p.slot = "text" /\ p.v = s.v /\ p.id = 0
    BY PartFields
  <2>2. Compiled(s, where, c) = << {p} >>
    BY <1>0, <1>1 DEF Compiled
  <2> HIDE DEF p
  <2>3. Projection(p) = s
    BY <1>0, <1>1, <2>1 DEF Projection, TextSegment
  <2> QED
    BY <1>0, <1>1, <2>2, <2>3, DecodedPart DEF ShownAs
<1>2. CASE s.kind = "at"
  <2> DEFINE p == MentionPart(s.v)
  <2>1. p.slot = "text" /\ p.v = s.v /\ p.id = IF s.v = "all" THEN 1 ELSE 2
    BY PartFields DEF MentionPart
  <2>2. Compiled(s, where, c) = << {p} >>
    BY <1>0, <1>2 DEF Compiled
  <2> HIDE DEF p
  <2>3. Projection(p) = s
    BY <1>0, <1>2, <2>1 DEF Projection, TextSegment
  <2> QED
    BY <1>0, <1>2, <2>2, <2>3, DecodedPart DEF ShownAs
<1>3. CASE s.kind = "markdown"
  <2> DEFINE p == Part("common", 45, 1, s.v, 0)
  <2>1. p.slot = "common" /\ p.v = s.v /\ p.service = 45 /\ p.business = 1
    BY PartFields
  <2>2. Compiled(s, where, c) = << {p} >>
    BY <1>0, <1>3 DEF Compiled
  <2> HIDE DEF p
  <2>3. Projection(p) = s
    BY <1>0, <1>3, <2>1 DEF Projection, CommonSegment
  <2> QED
    BY <1>0, <1>3, <2>2, <2>3, DecodedPart DEF ShownAs
<1>4. CASE s.kind = "mface"
  <2> DEFINE p == Part("market_face", 0, 0, s.v, 0)
  <2>1. p.slot = "market_face" /\ p.v = s.v
    BY PartFields
  <2>2. Compiled(s, where, c) = << {p} >>
    BY <1>0, <1>4 DEF Compiled
  <2> HIDE DEF p
  <2>3. Projection(p) = s
    BY <1>0, <1>4, <2>1 DEF Projection
  <2> QED
    BY <1>0, <1>4, <2>2, <2>3, DecodedPart DEF ShownAs
<1> QED
  BY <1>1, <1>2, <1>3, <1>4

\* No content.
Blank == ""

\* A quoted message without its uid.
NoUid == "no uid"

\* Where faces are written, by number, and where they are read.
LEMMA FaceCases ==
  ASSUME NEW id, NEW p
  PROVE  /\ FacePart(id) = IF id < 260 THEN Part("face", 0, 0, Blank, id)
                           ELSE Part("common", 33, 1, Blank, id)
         /\ AnimatedFacePart(id) = Part("common", 37, 1, Blank, id)
         /\ AnimatedFace(358) = Segment("dice", Blank, 0)
         /\ AnimatedFace(359) = Segment("rps", Blank, 0)
         /\ ~(id \in {358, 359}) => AnimatedFace(id) = Segment("face", Blank, id)
         /\ p.slot = "face" => Projection(p) = Segment("face", Blank, p.id)
         /\ p.slot = "common" => Projection(p) = CommonSegment(p)
         /\ p.service = 33 => CommonSegment(p) = Segment("face", Blank, p.id)
         /\ p.service = 37 => CommonSegment(p) = AnimatedFace(p.id)
<1>1. FacePart(id) = IF id < 260 THEN Part("face", 0, 0, Blank, id)
                     ELSE Part("common", 33, 1, Blank, id)
  BY DEF FacePart, Blank
<1>2. AnimatedFacePart(id) = Part("common", 37, 1, Blank, id)
  BY DEF AnimatedFacePart, Blank
<1>3. AnimatedFace(358) = Segment("dice", Blank, 0)
  BY DEF AnimatedFace, Blank
<1>4. AnimatedFace(359) = Segment("rps", Blank, 0)
  BY DEF AnimatedFace, Blank
<1>9. ~(id \in {358, 359}) => AnimatedFace(id) = Segment("face", Blank, id)
  BY DEF AnimatedFace, Blank
<1>5. p.slot = "face" => Projection(p) = Segment("face", Blank, p.id)
  BY DEF Projection, Blank
<1>6. p.slot = "common" => Projection(p) = CommonSegment(p)
  BY DEF Projection
<1>7. p.service = 33 => CommonSegment(p) = Segment("face", Blank, p.id)
  BY DEF CommonSegment, Blank
<1>8. p.service = 37 => CommonSegment(p) = AnimatedFace(p.id)
  BY DEF CommonSegment
<1> QED
  BY <1>1, <1>2, <1>3, <1>4, <1>5, <1>6, <1>7, <1>8, <1>9

\* Dice and rock-paper-scissors are animated faces, and nothing else is replaced.
LEMMA ResolvedCases ==
  ASSUME NEW s
  PROVE  /\ s.kind = "dice" => Resolved(s) = Segment("animated", Blank, 358)
         /\ s.kind = "rps" => Resolved(s) = Segment("animated", Blank, 359)
         /\ ~(s.kind \in {"dice", "rps"}) => Resolved(s) = s
<1>1. s.kind = "dice" => Resolved(s) = Segment("animated", Blank, 358)
  BY DEF Resolved, Blank
<1>2. s.kind = "rps" => Resolved(s) = Segment("animated", Blank, 359)
  BY DEF Resolved, Blank
<1>3. ~(s.kind \in {"dice", "rps"}) => Resolved(s) = s
  BY DEF Resolved
<1> QED
  BY <1>1, <1>2, <1>3

\* Faces of every kind.
LEMMA FaceShown ==
  ASSUME NEW s, NEW where, NEW c, s = Segment(s.kind, s.v, s.id), s.v = Blank,
         s.kind = "face" \/ (s.kind \in {"dice", "rps"} /\ s.id = 0)
  PROVE  ShownAs(s, where, c, s)
<1>0. s # Nothing /\ Segment(s.kind, Blank, s.id) = s
  BY NamedKinds
<1>1. ASSUME NEW r, Resolved(s) = r, NEW p, Compiled(r, where, c) = << {p} >>, Projection(p) = s
      PROVE  ShownAs(s, where, c, s)
  BY <1>0, <1>1, DecodedPart DEF ShownAs
<1>2. CASE s.kind = "face" /\ s.id < 260
  <2> DEFINE p == Part("face", 0, 0, Blank, s.id)
  <2>1. p.slot = "face" /\ p.id = s.id
    BY PartFields
  <2>2. FacePart(s.id) = p
    BY <1>2, FaceCases
  <2> HIDE DEF p
  <2>3. Compiled(s, where, c) = << {p} >>
    BY <1>2, <2>2 DEF Compiled
  <2>4. Projection(p) = s
    BY <1>0, <1>2, <2>1, FaceCases
  <2>5. Resolved(s) = s
    BY <1>2, ResolvedCases
  <2> QED
    BY <1>1, <2>3, <2>4, <2>5
<1>3. CASE s.kind = "face" /\ ~(s.id < 260)
  <2> DEFINE p == Part("common", 33, 1, Blank, s.id)
  <2>1. p.slot = "common" /\ p.service = 33 /\ p.id = s.id
    BY PartFields
  <2>2. FacePart(s.id) = p
    BY <1>3, FaceCases
  <2> HIDE DEF p
  <2>3. Compiled(s, where, c) = << {p} >>
    BY <1>3, <2>2 DEF Compiled
  <2>4. Projection(p) = s
    BY <1>0, <1>3, <2>1, FaceCases
  <2>5. Resolved(s) = s
    BY <1>3, ResolvedCases
  <2> QED
    BY <1>1, <2>3, <2>4, <2>5
<1>4. ASSUME NEW id \in {358, 359}, Resolved(s) = Segment("animated", Blank, id),
             AnimatedFace(id) = Segment(s.kind, Blank, 0), s.id = 0
      PROVE  ShownAs(s, where, c, s)
  <2> DEFINE r == Segment("animated", Blank, id)
             p == Part("common", 37, 1, Blank, id)
  <2>1. p.slot = "common" /\ p.service = 37 /\ p.id = id
    BY PartFields
  <2>2. r.kind = "animated" /\ r.id = id
    BY SegmentFields
  <2>3. AnimatedFacePart(id) = p
    BY FaceCases
  <2>4. Resolved(s) = r
    BY <1>4
  <2> HIDE DEF p, r
  <2>5. Compiled(r, where, c) = << {p} >>
    BY <2>2, <2>3 DEF Compiled
  <2>6. Projection(p) = s
    BY <1>0, <1>4, <2>1, FaceCases
  <2> QED
    BY <1>1, <2>4, <2>5, <2>6
<1> QED
  BY <1>2, <1>3, <1>4, FaceCases, ResolvedCases

\* Cards: locations, merged forwards, and JSON that is a card of its own.
LEMMA CardShown ==
  ASSUME NEW s, NEW where, NEW c, s = Segment(s.kind, s.v, s.id), s.id = 0,
         \/ s.kind = "json" \/ (s.kind = "location" /\ s.v = "map")
         \/ (s.kind = "forward" /\ s.v = "bundle")
  PROVE  ShownAs(s, where, c, CASE s.v = "map" -> Segment("location", "map", 0)
                                [] s.v = "bundle" -> Card
                                [] OTHER -> Segment("json", s.v, 0))
<1> DEFINE d == CASE s.v = "map" -> Segment("location", "map", 0)
                  [] s.v = "bundle" -> Card
                  [] OTHER -> Segment("json", s.v, 0)
           p == Part("light_app", 0, 0, s.v, 0)
<1>0. Resolved(s) = s
  BY DEF Resolved
<1>1. d.kind \in {"location", "forward", "json"}
  BY SegmentFields DEF Card
<1>2. p.slot = "light_app" /\ p.v = s.v
  BY PartFields
<1>3. Compiled(s, where, c) = << {p} >>
  BY DEF Compiled, LightApp
<1> HIDE DEF p
<1>4. Projection(p) = d
  BY <1>2 DEF Projection, LightSegment, Card
<1> HIDE DEF d
<1>5. d # Nothing
  BY <1>1, NamedKinds
<1>6. ShownAs(s, where, c, d)
  BY <1>0, <1>3, <1>4, <1>5, DecodedPart DEF ShownAs
<1> QED
  BY <1>6 DEF d

\* What XML of each service is shown as.
XmlShown(s) ==
  CASE s.id = 1 -> Segment("json", s.v, 0)
    [] s.id = 35 /\ s.v = "bundle" -> Card
    [] s.id = 35 /\ s.v # "bundle" -> Segment("xml", s.v, 35)
    [] OTHER -> Unsupported

\* XML is shown as XML, as a card, or not at all, as its service asks.
LEMMA RichShown ==
  ASSUME NEW s, NEW where, NEW c, s.kind = "xml"
  PROVE  ShownAs(s, where, c, XmlShown(s))
<1> DEFINE p == Part("rich_message", 0, 0, s.v, s.id)
<1>0. Resolved(s) = s
  BY DEF Resolved
<1>1. p.slot = "rich_message" /\ p.v = s.v /\ p.id = s.id
  BY PartFields
<1>2. Compiled(s, where, c) = << {p} >>
  BY DEF Compiled
<1> HIDE DEF p
<1>3. Projection(p) = RichSegment(p)
  BY <1>1 DEF Projection
<1>4. CASE s.id = 1 \/ s.id = 35
  <2>1. RichSegment(p) = XmlShown(s)
    BY <1>1, <1>4 DEF RichSegment, XmlShown, Card
  <2>2. XmlShown(s).kind \in {"json", "forward", "xml"}
    BY <1>4, SegmentFields DEF XmlShown, Card
  <2>3. XmlShown(s) # Nothing
    BY <2>2, NamedKinds
  <2> QED
    BY <1>0, <1>2, <1>3, <2>1, <2>3, DecodedPart DEF ShownAs
<1>5. CASE ~(s.id = 1 \/ s.id = 35)
  <2>1. RichSegment(p) = Nothing /\ XmlShown(s) = Unsupported
    BY <1>1, <1>5 DEF RichSegment, XmlShown
  <2> QED
    BY <1>0, <1>2, <1>3, <2>1, DecodedPart DEF ShownAs
<1> QED
  BY <1>4, <1>5

\* A poke is shown, and a keyboard is not.
LEMMA PokeShown ==
  ASSUME NEW s, NEW where, NEW c, s = Segment(s.kind, s.v, s.id), s.kind = "poke", s.v # "none"
  PROVE  ShownAs(s, where, c, s)
<1>0. Resolved(s) = s /\ s # Nothing
  BY NamedKinds DEF Resolved
<1>1. CASE s.kind = "poke"
  <2> DEFINE p == Part("common", 2, 1, s.v, s.id)
  <2>1. p.slot = "common" /\ p.service = 2 /\ p.v = s.v /\ p.id = s.id
    BY PartFields
  <2>2. Compiled(s, where, c) = << {p} >>
    BY <1>0, <1>1 DEF Compiled
  <2> HIDE DEF p
  <2>3. Projection(p) = s
    BY <1>0, <1>1, <2>1 DEF Projection, CommonSegment, PokeSegment
  <2> QED
    BY <1>0, <1>1, <2>2, <2>3, DecodedPart DEF ShownAs
<1> QED
  BY <1>1

\* A keyboard is written, and no reader knows it.
LEMMA KeyboardShown ==
  ASSUME NEW s, NEW where, NEW c, s.kind = "keyboard"
  PROVE  ShownAs(s, where, c, Unsupported)
<1> DEFINE p == Part("common", 46, 1, s.v, 0)
<1>1. p.slot = "common" /\ p.service = 46 /\ p.business = 1
  BY PartFields
<1>2. Compiled(s, where, c) = << {p} >> /\ Resolved(s) = s
  BY DEF Compiled, Resolved
<1> HIDE DEF p
<1>3. Projection(p) = Nothing
  BY <1>1 DEF Projection, CommonSegment
<1> QED
  BY <1>2, <1>3, DecodedPart DEF ShownAs

\* A segment of two elements, which are shown as d1 and d2.
ShownTwice(s, where, c, d1, d2) ==
  \E e1, e2 : /\ Compiled(Resolved(s), where, c) = << e1, e2 >>
              /\ Decoded(e1) = d1 /\ Decoded(e2) = d2

\* Lists of at most two elements, joined.
LEMMA TwoElements ==
  ASSUME NEW x, NEW y
  PROVE  <<>> \o <<y>> = <<y>> /\ <<x>> \o <<y>> = <<x, y>> /\ <<x>> \o <<>> = <<x>>
<1>1. <<x>> \in Seq({x, y}) /\ <<y>> \in Seq({x, y})
  OBVIOUS
<1>2. <<>> \o <<y>> = <<y>> /\ <<x>> \o <<>> = <<x>>
  BY <1>1, ConcatEmptySeq
<1>3. <<x>> \o <<y>> = Append(<<x>>, y)
  BY <1>1, AppendIsConcat
<1>4. Append(<<x>>, y) = <<x, y>>
  <2>1. Append(<<x>>, y) \in Seq({x, y}) /\ <<x, y>> \in Seq({x, y})
    BY <1>1
  <2>2. /\ Len(Append(<<x>>, y)) = 2 /\ Len(<<x, y>>) = 2
        /\ Append(<<x>>, y)[1] = x /\ Append(<<x>>, y)[2] = y
    BY <1>1
  <2>3. \A i \in 1 .. 2 : i = 1 \/ i = 2
    OBVIOUS
  <2>4. \A i \in 1 .. Len(Append(<<x>>, y)) : Append(<<x>>, y)[i] = <<x, y>>[i]
    BY <2>2, <2>3
  <2> QED
    BY <2>1, <2>2, <2>4, SeqEqual
<1> QED
  BY <1>2, <1>3, <1>4

\* A file is shown by the name QQ gives it, in the common slot and in the old ones.
LEMMA UploadShown ==
  ASSUME NEW kind \in Media, NEW where
  PROVE  /\ \A file : file # "large" =>
              Decoded({MediaPart(kind, where, file)}) = Segment(kind, "uuid", 0)
         /\ \A slot \in {"group_image", "direct_image"} :
              Decoded({Part(slot, 0, 0, "uuid", 0)}) = Segment("image", "uuid", 0)
         /\ Decoded({Part("video", 0, 0, "uuid", 0)}) = Segment("video", "uuid", 0)
<1>0. \A k \in Media : Segment(k, "uuid", 0) # Nothing
  BY SegmentFields, NamedKinds DEF Media
<1>1. ASSUME NEW file, file # "large"
      PROVE  Decoded({MediaPart(kind, where, file)}) = Segment(kind, "uuid", 0)
  <2> DEFINE business == MediaBusiness(kind, where)
             p == Part("common", 48, business, "uuid", 0)
  <2>1. /\ kind = "image" => business \in {10, 20}
        /\ kind = "video" => business \in {11, 21}
        /\ kind = "record" => business \in {12, 22}
    BY DEF MediaBusiness
  <2> HIDE DEF business
  <2>2. p.slot = "common" /\ p.service = 48 /\ p.business = business /\ p.v = "uuid"
    BY PartFields
  <2>3. MediaPart(kind, where, file) = p
    BY <1>1 DEF MediaPart, business
  <2> HIDE DEF p
  <2>4. Projection(p) = MediaSegment(p)
    BY <2>2 DEF Projection, CommonSegment
  <2>5. MediaSegment(p) = Segment(kind, "uuid", 0)
    BY <2>1, <2>2 DEF MediaSegment, Media
  <2> QED
    BY <1>0, <2>3, <2>4, <2>5, DecodedPart
<1>2. ASSUME NEW slot \in {"group_image", "direct_image"}
      PROVE  Decoded({Part(slot, 0, 0, "uuid", 0)}) = Segment("image", "uuid", 0)
  <2> DEFINE p == Part(slot, 0, 0, "uuid", 0)
  <2>1. p.slot \in {"group_image", "direct_image"} /\ p.v = "uuid"
    BY PartFields
  <2> HIDE DEF p
  <2>2. Projection(p) = Segment("image", "uuid", 0)
    BY <2>1 DEF Projection
  <2>3. Decoded({p}) = Segment("image", "uuid", 0)
    BY <1>0, <2>2, DecodedPart DEF Media
  <2> QED
    BY <2>3 DEF p
<1>3. Decoded({Part("video", 0, 0, "uuid", 0)}) = Segment("video", "uuid", 0)
  <2> DEFINE p == Part("video", 0, 0, "uuid", 0)
  <2>1. p.slot = "video" /\ p.v = "uuid"
    BY PartFields
  <2> HIDE DEF p
  <2>2. Projection(p) = Segment("video", "uuid", 0)
    BY <2>1 DEF Projection
  <2>3. Decoded({p}) = Segment("video", "uuid", 0)
    BY <1>0, <2>2, DecodedPart DEF Media
  <2> QED
    BY <2>3 DEF p
<1> QED
  BY <1>1, <1>2, <1>3

\* A file is shown as one of its kind and, where old clients are served too, twice.
LEMMA MediaShown ==
  ASSUME NEW s, NEW where, NEW c \in BOOLEAN, s.kind \in Media, s.v # "large"
  PROVE  \/ ShownAs(s, where, c, Segment(s.kind, "uuid", 0))
         \/ /\ s.kind \in {"image", "video"}
            /\ ShownTwice(s, where, c, Segment(s.kind, "uuid", 0), Segment(s.kind, "uuid", 0))
<1>0. Resolved(s) = s
  BY ResolvedCases DEF Media
<1>1. CASE s.kind = "record"
  <2>1. Compiled(s, where, c) = << {MediaPart(s.kind, where, s.v)} >>
    BY <1>1 DEF Compiled
  <2> QED
    BY <1>0, <2>1, UploadShown DEF ShownAs
<1>2. CASE s.kind = "image"
  <2> DEFINE slot == IF where = "Group" THEN "group_image" ELSE "direct_image"
             old == {Part(slot, 0, 0, "uuid", 0)}
             new == {MediaPart("image", where, s.v)}
  <2>1. slot \in {"group_image", "direct_image"}
    OBVIOUS
  <2>2. Compiled(s, where, c) = (IF c THEN << old >> ELSE <<>>) \o << new >>
    BY <1>2 DEF Compiled, ImageElements
  <2>3. Decoded(old) = Segment("image", "uuid", 0) /\ Decoded(new) = Segment("image", "uuid", 0)
    <3> HIDE DEF slot
    <3> QED
      BY <2>1, UploadShown DEF Media
  <2> HIDE DEF old, new
  <2>4. Compiled(s, where, c) = IF c THEN << old, new >> ELSE << new >>
    BY <2>2, TwoElements
  <2> QED
    BY <1>0, <1>2, <2>3, <2>4 DEF ShownAs, ShownTwice
<1>3. CASE s.kind = "video"
  <2> DEFINE old == {Part("video", 0, 0, "uuid", 0)}
             new == {MediaPart("video", where, s.v)}
  <2>2. Compiled(s, where, c) = (IF c THEN << old >> ELSE <<>>) \o << new >>
    BY <1>3 DEF Compiled, VideoElements
  <2>3. Decoded(old) = Segment("video", "uuid", 0) /\ Decoded(new) = Segment("video", "uuid", 0)
    BY UploadShown DEF Media
  <2> HIDE DEF old, new
  <2>4. Compiled(s, where, c) = IF c THEN << old, new >> ELSE << new >>
    BY <2>2, TwoElements
  <2> QED
    BY <1>0, <1>3, <2>3, <2>4 DEF ShownAs, ShownTwice
<1> QED
  BY <1>1, <1>2, <1>3 DEF Media

\* A reply is shown, in a group together with a mention of an author by uid.
LEMMA ReplyShown ==
  ASSUME NEW s, NEW where, NEW c, s.kind = "reply"
  PROVE  IF where = "Group"
         THEN ShownTwice(s, where, c, Segment("reply", "here", 0), Segment("at", "uid", 0))
         ELSE ShownAs(s, where, c, Segment("reply", "here", 0))
<1> DEFINE source == Part("source", 0, 0, "here", 0)
           author == MentionPart("uid")
<1>1. source.slot = "source" /\ source.v = "here"
  BY PartFields
<1>2. author.slot = "text" /\ author.v = "uid" /\ author.id = 2
  BY PartFields DEF MentionPart
<1>3. Compiled(s, where, c) = << {source} >> \o (IF where = "Group" THEN << {author} >> ELSE <<>>)
  BY DEF Compiled, ReplyElements
<1>4. Resolved(s) = s
  BY ResolvedCases
<1> HIDE DEF source, author
<1>5. Compiled(s, where, c) = IF where = "Group" THEN << {source}, {author} >> ELSE << {source} >>
  BY <1>3, TwoElements
<1>6. Projection(source) = Segment("reply", "here", 0)
  BY <1>1 DEF Projection, SourceSegment
<1>7. Projection(author) = Segment("at", "uid", 0)
  BY <1>2 DEF Projection, TextSegment
<1>8. Segment("reply", "here", 0) # Nothing /\ Segment("at", "uid", 0) # Nothing
  BY SegmentFields, NamedKinds
<1>9. Decoded({source}) = Segment("reply", "here", 0) /\ Decoded({author}) = Segment("at", "uid", 0)
  BY <1>6, <1>7, <1>8, DecodedPart
<1> QED
  BY <1>4, <1>5, <1>9 DEF ShownAs, ShownTwice

\* What becomes of a segment that was accepted: it is one element that shows it, one
\* or two that show a file of its kind, or a reply and the mention that goes with it.
Fate(s, where, c) ==
  \/ \E d : /\ ShownAs(s, where, c, d) /\ Displayed(d)
            /\ Plain(s) => SameSegment(s, d)
            /\ d.kind = "reply" => where # "Group"
            /\ Displayed(s) /\ (s.kind = "json" => s.v = "card") => d = s
  \/ /\ s.kind \in {"image", "video"} /\ ~Displayed(s)
     /\ ShownTwice(s, where, c, Segment(s.kind, "uuid", 0), Segment(s.kind, "uuid", 0))
  \/ /\ s.kind = "reply" /\ where = "Group"
     /\ ShownTwice(s, where, c, Segment("reply", "here", 0), Segment("at", "uid", 0))

\* Segments a reader may be shown, by their fields.
LEMMA DisplayedFields ==
  ASSUME NEW kind, NEW v, NEW id,
         \/ kind \in {"text", "at", "markdown", "mface", "json", "reply"} /\ id = 0
         \/ kind \in Media /\ v = "uuid" /\ id = 0
         \/ kind = "location" /\ v = "map" /\ id = 0
         \/ kind = "forward" /\ v = "bundle" /\ id = 0
         \/ kind = "xml" /\ v # "bundle" /\ id = 35
  PROVE  Displayed(Segment(kind, v, id))
<1> DEFINE s == Segment(kind, v, id)
<1>1. s.kind = kind /\ s.v = v /\ s.id = id
  BY SegmentFields
<1>2. s = Segment(s.kind, s.v, s.id)
  BY <1>1
<1> HIDE DEF s
<1>3. Displayed(s)
  BY <1>1, <1>2 DEF Displayed
<1> QED
  BY <1>3 DEF s

\* The segments of constant form that a reader may be shown.
LEMMA DisplayedCases ==
  /\ Displayed(Segment("reply", "here", 0)) /\ Displayed(Segment("at", "uid", 0))
  /\ Displayed(Unsupported) /\ Displayed(Card) /\ Displayed(Segment("location", "map", 0))
  /\ \A kind \in Media : Displayed(Segment(kind, "uuid", 0))
  /\ \A v : Displayed(Segment("json", v, 0))
  /\ \A v : v # "bundle" => Displayed(Segment("xml", v, 35))
<1>1. Displayed(Unsupported)
  <2>1. Unsupported = Segment(Unsupported.kind, Unsupported.v, Unsupported.id)
    BY DEF Unsupported, Segment
  <2> QED
    BY <2>1 DEF Displayed
<1> QED
  BY <1>1, DisplayedFields DEF Card

\* What becomes of each segment that was accepted, kind by kind: the table of all writers
\* against the table of all readers.
LEMMA AcceptedShown ==
  ASSUME NEW s, NEW where, NEW c \in BOOLEAN, Accepted(s, where), Readable(s)
  PROVE  Fate(s, where, c)
<1>0. s = Segment(s.kind, s.v, s.id)
  BY DEF Accepted, Formed, Displayed
<1>1. ASSUME ShownAs(s, where, c, s), Displayed(s), s.kind # "reply"
      PROVE  Fate(s, where, c)
  BY <1>1 DEF Fate, SameSegment
<1>2. CASE s = Card
  <2>1. s.kind = "forward" /\ s.v = "bundle" /\ s.id = 0
    BY <1>2, NamedKinds
  <2>2. ShownAs(s, where, c, Card)
    BY <1>0, <2>1, CardShown
  <2> QED
    BY <1>1, <1>2, <2>1, <2>2, DisplayedCases
<1> SUFFICES ASSUME s # Card, Compilable(s, where), Encodable(s)
             PROVE  Fate(s, where, c)
  BY <1>2 DEF Accepted
<1>3. CASE s.kind \in {"text", "at", "markdown", "mface"}
  <2>1. s.id = 0 /\ Displayed(s)
    BY <1>3, NamedKinds DEF Accepted, Formed, Displayed, Media
  <2>2. s.kind \in {"text", "at"} => s.v # "nul"
    BY DEF Compilable, Readable
  <2> QED
    BY <1>0, <1>1, <1>3, <2>1, <2>2, ContentShown
<1>4. CASE s.kind \in {"face", "dice", "rps"}
  <2>1. /\ s.v = Blank /\ Displayed(s)
        /\ s.kind = "face" \/ (s.kind \in {"dice", "rps"} /\ s.id = 0)
    BY <1>4, NamedKinds DEF Accepted, Formed, Displayed, Media, Blank
  <2> QED
    BY <1>0, <1>1, <1>4, <2>1, FaceShown
<1>5. CASE s.kind = "location"
  <2>1. s.v = "map" /\ s.id = 0 /\ Displayed(s)
    BY <1>5, NamedKinds DEF Accepted, Formed, Displayed, Media
  <2>2. ShownAs(s, where, c, Segment("location", "map", 0))
    BY <1>0, <1>5, <2>1, CardShown
  <2> QED
    BY <1>0, <1>1, <1>5, <2>1, <2>2
<1>6. CASE s.kind = "json"
  <2> DEFINE d == CASE s.v = "map" -> Segment("location", "map", 0)
                    [] s.v = "bundle" -> Card
                    [] OTHER -> Segment("json", s.v, 0)
  <2>1. s.id = 0
    BY <1>6, NamedKinds DEF Accepted, Formed, Displayed, Media
  <2>2. ShownAs(s, where, c, d)
    BY <1>0, <1>6, <2>1, CardShown
  <2>3. Displayed(d) /\ d.kind # "reply"
    BY DisplayedCases, SegmentFields DEF Card
  <2>4. s.v = "card" => d = s
    BY <1>0, <1>6, <2>1
  <2>5. Plain(s) => s.v = "card"
    BY <1>6 DEF Plain
  <2> HIDE DEF d
  <2> QED
    BY <1>6, <2>2, <2>3, <2>4, <2>5 DEF Fate, SameSegment
<1>7. CASE s.kind = "xml"
  <2>1. ShownAs(s, where, c, XmlShown(s))
    BY <1>7, RichShown
  <2>2. Displayed(XmlShown(s))
    <3>1. CASE s.id = 1
      BY <3>1, DisplayedCases DEF XmlShown
    <3>2. CASE s.id = 35 /\ s.v = "bundle"
      BY <3>2, DisplayedCases DEF XmlShown
    <3>3. CASE s.id = 35 /\ s.v # "bundle"
      <4>1. XmlShown(s) = Segment("xml", s.v, 35)
        BY <3>3 DEF XmlShown
      <4> QED
        BY <3>3, <4>1, DisplayedCases
    <3>4. CASE s.id # 1 /\ s.id # 35
      BY <3>4, DisplayedCases DEF XmlShown
    <3> QED
      BY <3>1, <3>2, <3>3, <3>4
  <2>3. XmlShown(s).kind # "reply"
    BY SegmentFields, NamedKinds DEF XmlShown, Card
  <2>4. s.id = 35 /\ s.v # "bundle" => XmlShown(s) = s
    BY <1>0, <1>7 DEF XmlShown
  <2>5. Plain(s) => s.id = 35 /\ s.v # "bundle"
    BY <1>7 DEF Plain
  <2>6. Displayed(s) => s.id = 35 /\ s.v # "bundle"
    BY <1>7, NamedKinds DEF Displayed, Media
  <2> QED
    BY <2>1, <2>2, <2>3, <2>4, <2>5, <2>6 DEF Fate, SameSegment
<1>8. CASE s.kind = "poke"
  <2>1. s.v # "none"
    BY <1>8 DEF Encodable
  <2>2. Displayed(s)
    BY <1>0, <1>8 DEF Displayed
  <2> QED
    BY <1>0, <1>1, <1>8, <2>1, <2>2, PokeShown
<1>9. CASE s.kind = "keyboard"
  <2>1. ShownAs(s, where, c, Unsupported)
    BY <1>9, KeyboardShown
  <2>2. ~Plain(s) /\ ~Displayed(s)
    BY <1>9, NamedKinds DEF Plain, Displayed, Media
  <2> QED
    BY <2>1, <2>2, NamedKinds, DisplayedCases DEF Fate
<1>10. CASE s.kind \in Media
  <2>1. s.v = "file" /\ s.v # "large"
    BY <1>10 DEF Compilable, Media, Readable
  <2>2. ~Displayed(s)
    BY <1>10, <2>1, NamedKinds DEF Displayed, Media
  <2>3. /\ Displayed(Segment(s.kind, "uuid", 0)) /\ Segment(s.kind, "uuid", 0).kind # "reply"
        /\ SameSegment(s, Segment(s.kind, "uuid", 0))
    BY <1>10, DisplayedCases, SegmentFields DEF SameSegment, Media
  <2> QED
    BY <1>10, <2>1, <2>2, <2>3, MediaShown DEF Fate
<1>11. CASE s.kind = "reply"
  <2>1. s.v = "here"
    BY <1>11 DEF Compilable, Media
  <2>2. s.id = 0
    BY <1>11, NamedKinds DEF Accepted, Formed, Displayed, Media
  <2>3. s = Segment("reply", "here", 0)
    BY <1>0, <1>11, <2>1, <2>2
  <2>4. where # "Group" => ShownAs(s, where, c, s)
    BY <1>11, <2>3, ReplyShown
  <2>5. where = "Group" => ShownTwice(s, where, c, Segment("reply", "here", 0), Segment("at", "uid", 0))
    BY <1>11, ReplyShown
  <2>6. Displayed(s) /\ SameSegment(s, s)
    BY <2>3, DisplayedCases DEF SameSegment
  <2> QED
    BY <1>11, <2>4, <2>5, <2>6 DEF Fate
<1>12. s.kind \in {"text", "at", "face", "dice", "rps", "markdown", "keyboard", "location", "mface",
                   "json", "xml", "poke", "reply"} \/ s.kind \in Media
  BY DEF Compilable
<1> QED
  BY <1>3, <1>4, <1>5, <1>6, <1>7, <1>8, <1>9, <1>10, <1>11, <1>12

\* A segment read back by its sender is the segment that was sent.
LEMMA EchoedIsSent ==
  ASSUME NEW s, Formed(s)
  PROVE  Echoed(Resolved(s)) = s
<1>0. s = Segment(s.kind, s.v, s.id) /\ s.kind # "animated"
  BY NamedKinds DEF Formed, Displayed, Media
<1>1. CASE s.kind \in {"dice", "rps"}
  <2>1. s.v = Blank /\ s.id = 0
    BY <1>1, NamedKinds DEF Formed, Displayed, Media, Blank
  <2> DEFINE id == IF s.kind = "dice" THEN 358 ELSE 359
             r == Segment("animated", Blank, id)
  <2>2. r.kind = "animated" /\ r.id = id
    BY SegmentFields
  <2>3. Resolved(s) = r
    BY <1>1, ResolvedCases
  <2>4. AnimatedFace(id) = s
    BY <1>0, <1>1, <2>1, FaceCases
  <2> HIDE DEF r, id
  <2> QED
    BY <2>2, <2>3, <2>4 DEF Echoed
<1>2. CASE ~(s.kind \in {"dice", "rps"})
  BY <1>0, <1>2, ResolvedCases DEF Echoed
<1> QED
  BY <1>1, <1>2

\* The elements of an accepted segment, each of which can be decoded.
Carried(s, where, E) ==
  /\ E \in Seq({E[1], E[2]}) /\ Len(E) \in {1, 2}
  /\ \A k \in 1 .. Len(E) :
       /\ Displayed(Decoded(E[k]))
       /\ Plain(s) => SameSegment(s, Decoded(E[k]))
       /\ where = "Group" /\ Decoded(E[k]).kind = "reply" =>
            \E l \in 1 .. Len(E) : Decoded(E[l]) = Segment("at", "uid", 0)
  /\ Plain(s) /\ Len(E) = 2 => s.kind \in {"image", "video"}
  /\ Displayed(s) /\ (s.kind = "json" => s.v = "card") =>
       \/ Len(E) = 1 /\ Decoded(E[1]) = s
       \/ s.kind = "reply" /\ where = "Group"

\* What became of an accepted segment, said of its elements instead of its kind.
LEMMA AcceptedCarried ==
  ASSUME NEW s, NEW where, NEW c \in BOOLEAN, Accepted(s, where), Readable(s)
  PROVE  Carried(s, where, Compiled(Resolved(s), where, c))
<1> DEFINE E == Compiled(Resolved(s), where, c)
<1>0. Fate(s, where, c)
  BY AcceptedShown
<1> SUFFICES Carried(s, where, E)
  OBVIOUS
<1>1. ASSUME NEW e, NEW d, E = << e >>, Decoded(e) = d, Displayed(d),
             Plain(s) => SameSegment(s, d), d.kind = "reply" => where # "Group",
             Displayed(s) /\ (s.kind = "json" => s.v = "card") => d = s
      PROVE  Carried(s, where, E)
  <2> HIDE DEF E
  <2>1. E[1] = e /\ Len(E) = 1 /\ E \in Seq({E[1], E[2]})
    BY <1>1
  <2>2. \A k \in 1 .. Len(E) : k = 1
    BY <2>1
  <2> QED
    BY <1>1, <2>1, <2>2 DEF Carried
<1>2. ASSUME NEW e1, NEW e2, E = << e1, e2 >>
      PROVE  /\ E[1] = e1 /\ E[2] = e2 /\ Len(E) = 2 /\ E \in Seq({E[1], E[2]})
             /\ \A k \in 1 .. Len(E) : k = 1 \/ k = 2
  <2> HIDE DEF E
  <2>1. E[1] = e1 /\ E[2] = e2 /\ Len(E) = 2 /\ E \in Seq({E[1], E[2]})
    BY <1>2
  <2> QED
    BY <2>1
<1>3. CASE /\ s.kind \in {"image", "video"} /\ ~Displayed(s)
           /\ ShownTwice(s, where, c, Segment(s.kind, "uuid", 0), Segment(s.kind, "uuid", 0))
  <2> DEFINE d == Segment(s.kind, "uuid", 0)
  <2>1. PICK e1, e2 : E = << e1, e2 >> /\ Decoded(e1) = d /\ Decoded(e2) = d
    BY <1>3 DEF ShownTwice
  <2>2. Displayed(d) /\ d.kind = s.kind /\ SameSegment(s, d)
    BY <1>3, DisplayedCases, SegmentFields DEF SameSegment, Media
  <2>3. /\ E[1] = e1 /\ E[2] = e2 /\ Len(E) = 2 /\ E \in Seq({E[1], E[2]})
        /\ \A k \in 1 .. Len(E) : k = 1 \/ k = 2
    BY <1>2, <2>1
  <2> HIDE DEF E, d
  <2> QED
    BY <1>3, <2>1, <2>2, <2>3 DEF Carried
<1>4. CASE /\ s.kind = "reply" /\ where = "Group"
           /\ ShownTwice(s, where, c, Segment("reply", "here", 0), Segment("at", "uid", 0))
  <2>1. PICK e1, e2 : /\ E = << e1, e2 >> /\ Decoded(e1) = Segment("reply", "here", 0)
                      /\ Decoded(e2) = Segment("at", "uid", 0)
    BY <1>4 DEF ShownTwice
  <2>2. /\ E[1] = e1 /\ E[2] = e2 /\ Len(E) = 2 /\ E \in Seq({E[1], E[2]})
        /\ \A k \in 1 .. Len(E) : k = 1 \/ k = 2
    BY <1>2, <2>1
  <2>3. ~Plain(s)
    BY <1>4 DEF Plain
  <2> HIDE DEF E
  <2>4. 2 \in 1 .. Len(E)
    BY <2>2
  <2> QED
    BY <1>4, <2>1, <2>2, <2>3, <2>4, DisplayedCases DEF Carried
<1>5. CASE \E d : /\ ShownAs(s, where, c, d) /\ Displayed(d)
                  /\ Plain(s) => SameSegment(s, d)
                  /\ d.kind = "reply" => where # "Group"
                  /\ Displayed(s) /\ (s.kind = "json" => s.v = "card") => d = s
  <2>1. PICK d : /\ ShownAs(s, where, c, d) /\ Displayed(d)
                 /\ Plain(s) => SameSegment(s, d)
                 /\ d.kind = "reply" => where # "Group"
                 /\ Displayed(s) /\ (s.kind = "json" => s.v = "card") => d = s
    BY <1>5
  <2>2. PICK e : E = << e >> /\ Decoded(e) = d
    BY <2>1 DEF ShownAs
  <2> QED
    BY <1>1, <2>1, <2>2
<1> QED
  BY <1>0, <1>3, <1>4, <1>5 DEF Fate

\* One element or two, of which the last is too long if the segment is.
Sized(s, E) ==
  /\ E \in Seq({E[1], E[2]}) /\ Len(E) \in {1, 2}
  /\ s.v = "large" => Oversized(E[Len(E)])
  /\ s.v # "large" => \A k \in 1 .. Len(E) : ~Oversized(E[k])

\* An element of one part is as long as its part.
LEMMA OnePartSized ==
  ASSUME NEW s, NEW E, NEW p, E = << {p} >>, p.v = "large" <=> s.v = "large"
  PROVE  Sized(s, E)
<1> DEFINE e == {p}
<1>1. Oversized(e) <=> s.v = "large"
  BY DEF Oversized
<1> HIDE DEF e
<1>2. E = << e >>
  BY DEF e
<1>3. E[1] = e /\ Len(E) = 1 /\ E \in Seq({E[1], E[2]})
  BY <1>2
<1>4. \A k \in 1 .. Len(E) : k = 1
  BY <1>3
<1> QED
  BY <1>1, <1>3, <1>4 DEF Sized

\* So are two elements.
LEMMA TwoPartsSized ==
  ASSUME NEW s, NEW E, NEW p, NEW q, E = << {p}, {q} >>,
         p.v # "large", q.v = "large" <=> s.v = "large"
  PROVE  Sized(s, E)
<1> DEFINE e == {p}
           f == {q}
<1>1. ~Oversized(e) /\ (Oversized(f) <=> s.v = "large")
  BY DEF Oversized
<1> HIDE DEF e, f
<1>2. E = << e, f >>
  BY DEF e, f
<1>3. E[1] = e /\ E[2] = f /\ Len(E) = 2 /\ E \in Seq({E[1], E[2]})
  BY <1>2
<1>4. \A k \in 1 .. Len(E) : k = 1 \/ k = 2
  BY <1>3
<1> QED
  BY <1>1, <1>3, <1>4 DEF Sized

\* What is compiled is too long only if what was written is.
LEMMA AcceptedSized ==
  ASSUME NEW s, NEW where, NEW c \in BOOLEAN, Accepted(s, where)
  PROVE  Sized(s, Compiled(Resolved(s), where, c))
<1> DEFINE E == Compiled(Resolved(s), where, c)
<1>0. s.kind \in {"text", "at", "face", "dice", "rps", "markdown", "keyboard", "location", "mface",
                  "json", "xml", "poke", "reply", "forward"} \/ s.kind \in Media
  BY NamedKinds DEF Accepted, Compilable
<1>1. \A slot, service, business, v, id : Part(slot, service, business, v, id).v = v
  BY PartFields
<1>2. CASE s.kind \in {"text", "at", "markdown", "keyboard", "mface", "json", "location",
                        "forward", "xml", "poke"}
  <2>1. Resolved(s) = s
    BY <1>2, ResolvedCases
  <2>2. PICK slot, service, business, id :
          Compiled(s, where, c) = << {Part(slot, service, business, s.v, id)} >>
    BY <1>2 DEF Compiled, MentionPart, LightApp
  <2> QED
    BY <1>1, <2>1, <2>2, OnePartSized
<1>3. CASE s.kind = "face"
  <2>1. Resolved(s) = s /\ s.v = Blank
    BY <1>3, ResolvedCases, NamedKinds DEF Accepted, Formed, Displayed, Media, Blank
  <2>2. PICK slot, service, business :
          Compiled(s, where, c) = << {Part(slot, service, business, Blank, s.id)} >>
    BY <1>3, FaceCases DEF Compiled
  <2> QED
    BY <1>1, <2>1, <2>2, OnePartSized
<1>4. CASE s.kind \in {"dice", "rps"}
  <2>1. s.v = Blank
    BY <1>4, NamedKinds DEF Accepted, Formed, Displayed, Media, Blank
  <2>2. PICK id : Resolved(s) = Segment("animated", Blank, id)
    BY <1>4, ResolvedCases
  <2> DEFINE r == Segment("animated", Blank, id)
  <2>3. r.kind = "animated" /\ r.id = id
    BY SegmentFields
  <2> HIDE DEF r
  <2>4. Compiled(r, where, c) = << {Part("common", 37, 1, Blank, id)} >>
    BY <2>3, FaceCases DEF Compiled
  <2> QED
    BY <1>1, <2>1, <2>2, <2>4, OnePartSized DEF r
<1>5. CASE s.kind \in Media
  <2> DEFINE p == MediaPart(s.kind, where, s.v)
  <2>1. Resolved(s) = s
    BY <1>5, ResolvedCases DEF Media
  <2>2. p.v = "large" <=> s.v = "large"
    BY <1>1 DEF MediaPart
  <2>3. CASE Compiled(s, where, c) = << {p} >>
    BY <2>1, <2>2, <2>3, OnePartSized
  <2>4. ASSUME NEW slot, Compiled(s, where, c) = << {Part(slot, 0, 0, "uuid", 0)}, {p} >>
        PROVE  Sized(s, E)
    BY <1>1, <2>1, <2>2, <2>4, TwoPartsSized
  <2> HIDE DEF p
  <2>5. CASE s.kind = "record"
    <3>1. Compiled(s, where, c) = << {p} >>
      BY <2>5 DEF Compiled, p
    <3> QED
      BY <2>3, <3>1
  <2>6. CASE s.kind \in {"image", "video"}
    <3>1. PICK slot : Compiled(s, where, c) =
            (IF c THEN << {Part(slot, 0, 0, "uuid", 0)} >> ELSE <<>>) \o << {p} >>
      BY <2>6 DEF Compiled, ImageElements, VideoElements, p
    <3> QED
      BY <2>3, <2>4, <3>1, TwoElements
  <2> QED
    BY <1>5, <2>5, <2>6 DEF Media
<1>6. CASE s.kind = "reply"
  <2> DEFINE source == Part("source", 0, 0, "here", 0)
             author == MentionPart("uid")
  <2>1. Resolved(s) = s /\ s.v = "here"
    BY <1>6, ResolvedCases, NamedKinds DEF Accepted, Compilable, Media
  <2>2. source.v = "here" /\ author.v = "uid"
    BY <1>1 DEF MentionPart
  <2>3. Compiled(s, where, c) = << {source} >> \o (IF where = "Group" THEN << {author} >> ELSE <<>>)
    BY <1>6 DEF Compiled, ReplyElements
  <2> HIDE DEF source, author
  <2>4. Compiled(s, where, c) = IF where = "Group" THEN << {source}, {author} >> ELSE << {source} >>
    BY <2>3, TwoElements
  <2> QED
    BY <2>1, <2>2, <2>4, OnePartSized, TwoPartsSized
<1> QED
  BY <1>0, <1>2, <1>3, <1>4, <1>5, <1>6

\* An element for which its reader refuses the message.
Unread(e) == Oversized(e) \/ Decoded(e) = Malformed

\* The elements of an accepted segment are carried to the reader if it is readable,
\* and make him refuse the message if not.
Conveyed(s, where, E) ==
  /\ E \in Seq({E[1], E[2]}) /\ Len(E) \in {1, 2}
  /\ Readable(s) => Carried(s, where, E) /\ \A k \in 1 .. Len(E) : ~Unread(E[k])
  /\ ~Readable(s) => \E k \in 1 .. Len(E) : Unread(E[k])

LEMMA AcceptedConveyed ==
  ASSUME NEW s, NEW where, NEW c \in BOOLEAN, Accepted(s, where)
  PROVE  Conveyed(s, where, Compiled(Resolved(s), where, c))
<1> DEFINE E == Compiled(Resolved(s), where, c)
<1>1. Sized(s, E)
  BY AcceptedSized
<1>2. CASE Readable(s)
  <2>1. Carried(s, where, E)
    BY <1>2, AcceptedCarried
  <2>2. ~Displayed(Malformed)
    BY NamedKinds DEF Displayed, Media
  <2> HIDE DEF E
  <2>3. \A k \in 1 .. Len(E) : ~Unread(E[k])
    BY <1>1, <1>2, <2>1, <2>2 DEF Carried, Sized, Readable, Unread
  <2> QED
    BY <1>1, <1>2, <2>1, <2>3 DEF Conveyed, Sized, E
<1>3. CASE s.v = "large"
  <2> HIDE DEF E
  <2>1. Len(E) \in 1 .. Len(E)
    BY <1>1 DEF Sized
  <2> QED
    BY <1>1, <1>3, <2>1 DEF Conveyed, Sized, Readable, Unread, E
<1>4. CASE s.kind = "text" /\ s.v = "nul"
  <2> DEFINE p == Part("text", 0, 0, s.v, 0)
             e == {p}
  <2>1. p.slot = "text" /\ p.v = "nul"
    BY <1>4, PartFields
  <2>2. Resolved(s) = s /\ Compiled(s, where, c) = << {p} >>
    BY <1>4, ResolvedCases DEF Compiled
  <2> HIDE DEF p
  <2>3. Projection(p) = Malformed /\ Malformed # Nothing
    BY <2>1, NamedKinds DEF Projection, TextSegment
  <2>4. Unread(e)
    BY <2>3, DecodedPart DEF Unread
  <2>5. E = << e >>
    BY <2>2
  <2> HIDE DEF E, e
  <2>6. Len(E) = 1 /\ E[1] = e /\ 1 \in 1 .. Len(E)
    BY <2>5
  <2> QED
    BY <1>1, <1>4, <2>4, <2>6 DEF Conveyed, Sized, Readable, E
<1> QED
  BY <1>2, <1>3, <1>4 DEF Readable

-----------------------------------------------------------------------------
(* The invariant of a message on its way.                                  *)

List(q) == DOMAIN q = 1 .. Len(q) /\ q \in Seq(Range(q))

\* The elements of each segment of a message.
Compilation(segments, where, c) ==
  [i \in DOMAIN segments |-> Compiled(Resolved(segments[i]), where, c)]

\* A list is the join of others, in order, and as long as they are many if they are single.
Flat(seqs, flat) ==
  /\ \E f : Traced(seqs, Len(seqs), flat, f)
  /\ (\A i \in 1 .. Len(seqs) : Len(seqs[i]) = 1) =>
       /\ Len(flat) = Len(seqs)
       /\ \A i \in 1 .. Len(seqs) : flat[i] = seqs[i][1]

\* Who is shown a reply in a group is shown a mention by uid too, which no bot may write.
Mentioned(q) ==
  target = "Group" /\ (\E i \in DOMAIN q : q[i].kind = "reply") =>
    \E i \in DOMAIN q : q[i] = Segment("at", "uid", 0)

\* What is sent on is what was read.
Kept ==
  /\ written = former /\ Mentioned(written)
  /\ \A i \in DOMAIN written : Displayed(written[i])

MessageTypes ==
  /\ target \in Places /\ phase \in Phases /\ hops \in Nat
  /\ List(written) /\ List(wire) /\ List(seen)
  /\ \A i \in DOMAIN written : Formed(written[i])
  /\ hops = 0 => former = <<>>

\* A message is on the wire as it was written, or it is one of another client of QQ.
OnTheWire ==
  \/ written = <<>> /\ former = <<>> /\ \E e \in Foreign : wire = << e >>
  \/ /\ written # <<>> /\ echo = written
     /\ \A i \in DOMAIN written : Accepted(written[i], target)
     /\ \E c \in BOOLEAN : Flat(Compilation(written, target, c), wire)
     /\ former # <<>> => Kept

MessageInv ==
  /\ MessageTypes
  /\ phase = "Writing" /\ hops > 0 => Kept
  /\ phase = "Sent" => OnTheWire
  /\ phase = "Read" => /\ Mentioned(seen) /\ \A i \in DOMAIN seen : Displayed(seen[i])
                       /\ former # <<>> => written # <<>>
  /\ MessagesSurvive

\* A function on 1 .. n is a list of length n.
LEMMA ListMade ==
  ASSUME NEW n \in Nat, NEW q, q = [i \in 1 .. n |-> q[i]]
  PROVE  List(q) /\ Len(q) = n /\ DOMAIN q = 1 .. n
<1>1. DOMAIN q = 1 .. n
  OBVIOUS
<1>2. q \in [1 .. n -> Range(q)]
  BY <1>1 DEF Range
<1>3. q \in Seq(Range(q)) /\ Len(q) = n
  BY <1>1, <1>2
<1> QED
  BY <1>1, <1>3 DEF List

\* A sequence over any set is a list.
LEMMA ListKnown ==
  ASSUME NEW S, NEW q \in Seq(S)
  PROVE  List(q)
<1>1. Len(q) \in Nat /\ q = [i \in 1 .. Len(q) |-> q[i]]
  OBVIOUS
<1> QED
  BY <1>1, ListMade

\* A list has a length, and is the function on its places.
LEMMA ListLength ==
  ASSUME NEW q, List(q)
  PROVE  Len(q) \in Nat /\ DOMAIN q = 1 .. Len(q) /\ q = [i \in 1 .. Len(q) |-> q[i]]
BY DEF List

\* What was compiled of accepted segments is a list of lists of elements.
LEMMA CompilationKnown ==
  ASSUME NEW segments, List(segments), segments # <<>>, NEW where, NEW c \in BOOLEAN,
         \A i \in DOMAIN segments : Accepted(segments[i], where)
  PROVE  LET seqs == Compilation(segments, where, c)
         IN  /\ Len(seqs) = Len(segments) /\ Len(segments) \in Nat \ {0}
             /\ \E S : seqs \in Seq(Seq(S))
             /\ \A i \in 1 .. Len(segments) : Conveyed(segments[i], where, seqs[i])
<1> DEFINE seqs == Compilation(segments, where, c)
           n == Len(segments)
           S == {seqs[i][k] : i \in 1 .. n, k \in {1, 2}}
<1>1. n \in Nat /\ DOMAIN segments = 1 .. n /\ n # 0
  BY ListLength DEF List
<1>2. DOMAIN seqs = 1 .. n /\ seqs = [i \in 1 .. n |-> seqs[i]]
      /\ \A i \in 1 .. n : seqs[i] = Compiled(Resolved(segments[i]), where, c)
  BY <1>1 DEF Compilation
<1> HIDE DEF seqs
<1>3. \A i \in 1 .. n : Conveyed(segments[i], where, seqs[i])
  BY <1>1, <1>2, AcceptedConveyed
<1>4. ASSUME NEW i \in 1 .. n PROVE seqs[i] \in Seq(S)
  <2>1. seqs[i] \in Seq({seqs[i][1], seqs[i][2]})
    BY <1>3 DEF Conveyed
  <2>2. {seqs[i][1], seqs[i][2]} \subseteq S
    OBVIOUS
  <2> HIDE DEF S, n
  <2> QED
    BY <2>1, <2>2
<1>5. seqs \in Seq(Seq(S)) /\ Len(seqs) = n
  <2> HIDE DEF S, n
  <2> QED
    BY <1>1, <1>2, <1>4
<1>6. \E U : seqs \in Seq(Seq(U))
  <2> HIDE DEF S
  <2> QED
    BY <1>5
<1> QED
  BY <1>1, <1>3, <1>5, <1>6 DEF seqs

\* What goes on the wire is the join of what the segments were compiled to.
LEMMA SentIsFlat ==
  ASSUME NEW segments, List(segments), segments # <<>>, NEW where, NEW c \in BOOLEAN,
         \A i \in DOMAIN segments : Accepted(segments[i], where)
  PROVE  /\ Flat(Compilation(segments, where, c), Elements(segments, where, c))
         /\ List(Elements(segments, where, c))
<1> DEFINE seqs == Compilation(segments, where, c)
<1>1. /\ Len(seqs) = Len(segments) /\ Len(segments) \in Nat \ {0}
      /\ \E S : seqs \in Seq(Seq(S))
  BY CompilationKnown
<1>2. Elements(segments, where, c) = FlattenSeq(seqs)
  BY DEF Elements, Compilation
<1> HIDE DEF seqs
<1>3. PICK S : seqs \in Seq(Seq(S))
  BY <1>1
<1>4. seqs # <<>>
  BY <1>1
<1>5. /\ FlattenSeq(seqs) \in Seq(S)
      /\ \E f : Traced(seqs, Len(seqs), FlattenSeq(seqs), f)
      /\ (\A i \in 1 .. Len(seqs) : Len(seqs[i]) = 1) =>
           /\ Len(FlattenSeq(seqs)) = Len(seqs)
           /\ \A i \in 1 .. Len(seqs) : FlattenSeq(seqs)[i] = seqs[i][1]
  BY <1>3, <1>4, FlatTraced
<1>6. List(FlattenSeq(seqs))
  BY <1>5, ListKnown
<1>7. Flat(seqs, FlattenSeq(seqs))
  BY <1>5 DEF Flat
<1> QED
  BY <1>2, <1>6, <1>7 DEF seqs

\* A message is refused by its reader exactly if it has a segment that cannot be read.
LEMMA FlatUnread ==
  ASSUME NEW segments, List(segments), segments # <<>>, NEW where, NEW c \in BOOLEAN,
         \A i \in DOMAIN segments : Accepted(segments[i], where),
         NEW flat, List(flat), Flat(Compilation(segments, where, c), flat)
  PROVE  (\E j \in DOMAIN flat : Unread(flat[j])) <=>
           \E i \in DOMAIN segments : ~Readable(segments[i])
<1> DEFINE seqs == Compilation(segments, where, c)
           n == Len(segments)
<1>1. /\ Len(seqs) = n /\ n \in Nat \ {0} /\ DOMAIN segments = 1 .. n
      /\ \A i \in 1 .. n : Conveyed(segments[i], where, seqs[i])
  BY CompilationKnown, ListLength
<1>2. Flat(seqs, flat) /\ DOMAIN flat = 1 .. Len(flat)
  BY ListLength
<1> HIDE DEF seqs, n
<1>3. PICK f : Traced(seqs, n, flat, f)
  BY <1>1, <1>2 DEF Flat
<1>4. ASSUME NEW j \in 1 .. Len(flat), Unread(flat[j])
      PROVE  \E i \in 1 .. n : ~Readable(segments[i])
  <2>1. f[j] \in 1 .. n /\ \E k \in 1 .. Len(seqs[f[j]]) : flat[j] = seqs[f[j]][k]
    BY <1>3 DEF Traced
  <2> QED
    BY <1>1, <1>4, <2>1 DEF Conveyed
<1>5. ASSUME NEW i \in 1 .. n, ~Readable(segments[i])
      PROVE  \E j \in 1 .. Len(flat) : Unread(flat[j])
  <2>1. PICK k \in 1 .. Len(seqs[i]) : Unread(seqs[i][k])
    BY <1>1, <1>5 DEF Conveyed
  <2>2. PICK j \in 1 .. Len(flat) : flat[j] = seqs[i][k]
    BY <1>3 DEF Traced
  <2> QED
    BY <2>1, <2>2
<1> QED
  BY <1>1, <1>2, <1>4, <1>5

\* What the reader of a message is shown of it.
LEMMA FlatRead ==
  ASSUME NEW segments, List(segments), segments # <<>>, NEW where, NEW c \in BOOLEAN,
         \A i \in DOMAIN segments : Accepted(segments[i], where) /\ Readable(segments[i]),
         NEW flat, List(flat), Flat(Compilation(segments, where, c), flat),
         NEW read, read = [j \in 1 .. Len(flat) |-> Decoded(flat[j])]
  PROVE  /\ \A j \in DOMAIN read : Displayed(read[j])
         /\ (\A i \in DOMAIN segments : Plain(segments[i])) =>
              ReadsAs(segments, read) /\ \A j \in DOMAIN read : read[j].kind # "reply"
         /\ where = "Group" /\ (\E j \in DOMAIN read : read[j].kind = "reply") =>
              \E j \in DOMAIN read : read[j] = Segment("at", "uid", 0)
         /\ (\A i \in DOMAIN segments :
                /\ Displayed(segments[i]) /\ (segments[i].kind = "json" => segments[i].v = "card")
                /\ ~(segments[i].kind = "reply" /\ where = "Group")) =>
              /\ Len(flat) = Len(segments)
              /\ \A i \in DOMAIN read : read[i] = segments[i]
<1> DEFINE seqs == Compilation(segments, where, c)
           n == Len(segments)
<1>1. /\ Len(seqs) = n /\ n \in Nat \ {0} /\ DOMAIN segments = 1 .. n
      /\ \A i \in 1 .. n : Carried(segments[i], where, seqs[i])
  <2>1. /\ Len(seqs) = n /\ n \in Nat \ {0} /\ DOMAIN segments = 1 .. n
        /\ \A i \in 1 .. n : Conveyed(segments[i], where, seqs[i])
    BY CompilationKnown, ListLength
  <2> QED
    BY <2>1 DEF Conveyed
<1>2. Flat(seqs, flat) /\ Len(flat) \in Nat /\ DOMAIN read = 1 .. Len(flat)
      /\ \A j \in 1 .. Len(flat) : read[j] = Decoded(flat[j])
  BY ListLength
<1> HIDE DEF seqs, n
<1>3. PICK f : Traced(seqs, n, flat, f)
  BY <1>1, <1>2 DEF Flat
<1>4. ASSUME NEW j \in 1 .. Len(flat)
      PROVE  /\ f[j] \in 1 .. n /\ Carried(segments[f[j]], where, seqs[f[j]])
             /\ \E k \in 1 .. Len(seqs[f[j]]) : read[j] = Decoded(seqs[f[j]][k])
  <2>1. f[j] \in 1 .. n /\ \E k \in 1 .. Len(seqs[f[j]]) : flat[j] = seqs[f[j]][k]
    BY <1>3 DEF Traced
  <2> QED
    BY <1>1, <1>2, <2>1
<1>5. \A j \in DOMAIN read : Displayed(read[j])
  BY <1>2, <1>4 DEF Carried
<1>6. ASSUME \A i \in DOMAIN segments : Plain(segments[i])
      PROVE  ReadsAs(segments, read) /\ \A j \in DOMAIN read : read[j].kind # "reply"
  <2>1. ASSUME NEW j \in 1 .. Len(flat)
        PROVE  Plain(segments[f[j]]) /\ SameSegment(segments[f[j]], read[j])
    BY <1>1, <1>4, <1>6 DEF Carried
  <2>2. f \in [DOMAIN read -> DOMAIN segments]
    BY <1>1, <1>2, <1>3 DEF Traced
  <2>3. Range(f) = DOMAIN segments
    <3>1. ASSUME NEW i \in 1 .. n PROVE \E j \in 1 .. Len(flat) : f[j] = i
      <4>1. Len(seqs[i]) \in {1, 2}
        <5>1. Carried(segments[i], where, seqs[i])
          BY <1>1
        <5> QED
          BY <5>1 DEF Carried
      <4>2. 1 \in 1 .. Len(seqs[i])
        BY <4>1
      <4> QED
        BY <1>3, <4>2 DEF Traced
    <3> QED
      BY <1>1, <1>2, <2>2, <3>1 DEF Range
  <2>4. \A i, j \in DOMAIN read : i < j => f[i] <= f[j]
    BY <1>2, <1>3 DEF Traced
  <2>5. ASSUME NEW i \in 1 .. Len(flat), NEW j \in 1 .. Len(flat), i # j, f[i] = f[j]
        PROVE  read[i].kind \in {"image", "video"}
    <3>1. Len(seqs[f[i]]) > 1
      BY <1>3, <2>5 DEF Traced
    <3>2. Len(seqs[f[i]]) = 2
      <4>1. Carried(segments[f[i]], where, seqs[f[i]])
        BY <1>4
      <4>2. Len(seqs[f[i]]) = 1 \/ Len(seqs[f[i]]) = 2
        BY <4>1 DEF Carried
      <4>3. Len(seqs[f[i]]) # 1
        <5> SUFFICES ASSUME Len(seqs[f[i]]) = 1 PROVE 1 > 1
          BY <3>1
        <5> QED
          BY <3>1
      <4> QED
        BY <4>2, <4>3
    <3>3. segments[f[i]].kind \in {"image", "video"}
      BY <1>4, <2>1, <3>2 DEF Carried
    <3> QED
      BY <2>1, <3>3 DEF SameSegment
  <2>6. ReadsAs(segments, read)
    BY <1>2, <2>1, <2>2, <2>3, <2>4, <2>5 DEF ReadsAs
  <2>7. \A j \in DOMAIN read : read[j].kind # "reply"
    <3> TAKE j \in DOMAIN read
    <3>1. Plain(segments[f[j]]) /\ segments[f[j]].kind = read[j].kind
      BY <1>2, <2>1 DEF SameSegment
    <3>2. segments[f[j]].kind # "reply"
      BY <3>1 DEF Plain
    <3> QED
      BY <3>1, <3>2
  <2> QED
    BY <2>6, <2>7
<1>7. ASSUME where = "Group", NEW j \in DOMAIN read, read[j].kind = "reply"
      PROVE  \E l \in DOMAIN read : read[l] = Segment("at", "uid", 0)
  <2>1. PICK k \in 1 .. Len(seqs[f[j]]) : read[j] = Decoded(seqs[f[j]][k])
    BY <1>2, <1>4
  <2>2. PICK m \in 1 .. Len(seqs[f[j]]) : Decoded(seqs[f[j]][m]) = Segment("at", "uid", 0)
    <3>1. Carried(segments[f[j]], where, seqs[f[j]])
      BY <1>2, <1>4
    <3>2. Decoded(seqs[f[j]][k]).kind = "reply"
      BY <1>7, <2>1
    <3> QED
      BY <1>7, <3>1, <3>2 DEF Carried
  <2>3. f[j] \in 1 .. n
    BY <1>2, <1>4
  <2>4. PICK l \in 1 .. Len(flat) : flat[l] = seqs[f[j]][m]
    BY <1>3, <2>3 DEF Traced
  <2> QED
    BY <1>2, <2>2, <2>4
<1>8. ASSUME \A i \in DOMAIN segments :
               /\ Displayed(segments[i])
               /\ (segments[i].kind = "json" => segments[i].v = "card")
               /\ ~(segments[i].kind = "reply" /\ where = "Group")
      PROVE  Len(flat) = Len(segments) /\ \A i \in DOMAIN read : read[i] = segments[i]
  <2>1. \A i \in 1 .. n : Len(seqs[i]) = 1 /\ Decoded(seqs[i][1]) = segments[i]
    BY <1>1, <1>8 DEF Carried
  <2>2. Len(flat) = n /\ \A i \in 1 .. n : flat[i] = seqs[i][1]
    BY <1>1, <1>2, <2>1 DEF Flat
  <2> QED
    BY <1>2, <2>1, <2>2 DEF n
<1> QED
  BY <1>5, <1>6, <1>7, <1>8

\* Faces, dice and rock-paper-scissors may be shown.
LEMMA FacesDisplayed ==
  ASSUME NEW kind, NEW id, kind = "face" \/ (kind \in {"dice", "rps"} /\ id = 0)
  PROVE  Displayed(Segment(kind, Blank, id)) /\ Segment(kind, Blank, id).kind = kind
<1> DEFINE s == Segment(kind, Blank, id)
<1>1. s.kind = kind /\ s.v = Blank /\ s.id = id
  BY SegmentFields
<1>2. s = Segment(s.kind, s.v, s.id)
  BY <1>1
<1> HIDE DEF s
<1>3. Displayed(s)
  BY <1>1, <1>2 DEF Displayed, Blank
<1> QED
  BY <1>1, <1>3 DEF s

\* A message of another client is lost, or shown and no reply.
LEMMA ForeignShown ==
  ASSUME NEW e \in Foreign
  PROVE  \/ Decoded(e) = Malformed
         \/ Displayed(Decoded(e)) /\ Decoded(e).kind # "reply"
<1> DEFINE Fine(x) == \/ Decoded(x) = Malformed
                      \/ Displayed(Decoded(x)) /\ Decoded(x).kind # "reply"
<1>1. ASSUME NEW p, Projection(p) \in {Nothing, Malformed}
      PROVE  Fine({p})
  BY <1>1, DecodedPart, DisplayedCases, NamedKinds
<1>2. ASSUME NEW p, Displayed(Projection(p)), Projection(p).kind # "reply"
      PROVE  Fine({p})
  BY <1>2, DecodedPart, DisplayedCases, NamedKinds
<1>3. Fine({})
  <2>1. Decoded({}) = Unsupported
    BY DEF Decoded
  <2> QED
    BY <2>1, DisplayedCases, NamedKinds
<1> HIDE DEF Fine
<1>4. Projection(Part("text", 0, 0, "words", 0)) = Segment("text", "words", 0)
  <2> DEFINE p == Part("text", 0, 0, "words", 0)
  <2>1. p.slot = "text" /\ p.v = "words" /\ p.id = 0
    BY PartFields
  <2> HIDE DEF p
  <2>2. Projection(p) = Segment("text", "words", 0)
    BY <2>1 DEF Projection, TextSegment
  <2> QED
    BY <2>2 DEF p
<1>5. Displayed(Segment("text", "words", 0)) /\ Segment("text", "words", 0).kind = "text"
  BY DisplayedFields, SegmentFields
<1>6. Fine({Part("common", 33, 1, Blank, 5)})
  <2> DEFINE p == Part("common", 33, 1, Blank, 5)
  <2>1. p.slot = "common" /\ p.service = 33 /\ p.id = 5
    BY PartFields
  <2> HIDE DEF p
  <2>2. Projection(p) = Segment("face", Blank, 5)
    BY <2>1, FaceCases
  <2>3. Displayed(Segment("face", Blank, 5)) /\ Segment("face", Blank, 5).kind # "reply"
    BY FacesDisplayed
  <2>4. Fine({p})
    BY <1>2, <2>2, <2>3
  <2> QED
    BY <2>4 DEF p
<1>7. Fine({Part("common", 37, 1, Blank, 300)})
  <2> DEFINE p == Part("common", 37, 1, Blank, 300)
  <2>1. p.slot = "common" /\ p.service = 37 /\ p.id = 300
    BY PartFields
  <2> HIDE DEF p
  <2>2. Projection(p) = Segment("face", Blank, 300)
    BY <2>1, FaceCases
  <2>3. Displayed(Segment("face", Blank, 300)) /\ Segment("face", Blank, 300).kind # "reply"
    BY FacesDisplayed
  <2>4. Fine({p})
    BY <1>2, <2>2, <2>3
  <2> QED
    BY <2>4 DEF p
<1>8. Fine({Part("common", 37, 1, Blank, 358)})
  <2> DEFINE p == Part("common", 37, 1, Blank, 358)
  <2>1. p.slot = "common" /\ p.service = 37 /\ p.id = 358
    BY PartFields
  <2> HIDE DEF p
  <2>2. Projection(p) = Segment("dice", Blank, 0)
    BY <2>1, FaceCases
  <2>3. Displayed(Segment("dice", Blank, 0)) /\ Segment("dice", Blank, 0).kind # "reply"
    BY FacesDisplayed
  <2>4. Fine({p})
    BY <1>2, <2>2, <2>3
  <2> QED
    BY <2>4 DEF p
<1>9. Fine({Part("common", 48, 13, "uuid", 0)})
  <2> DEFINE p == Part("common", 48, 13, "uuid", 0)
  <2>1. p.slot = "common" /\ p.service = 48 /\ p.business = 13
    BY PartFields
  <2> HIDE DEF p
  <2>2. Projection(p) = Nothing
    BY <2>1 DEF Projection, CommonSegment, MediaSegment
  <2>4. Fine({p})
    BY <1>1, <2>2
  <2> QED
    BY <2>4 DEF p
<1>10. Fine({Part("text", 0, 0, "member", 2)})
  <2> DEFINE p == Part("text", 0, 0, "member", 2)
  <2>1. p.slot = "text" /\ p.v = "member" /\ p.id = 2
    BY PartFields
  <2> HIDE DEF p
  <2>2. Projection(p) = Segment("at", "member", 0)
    BY <2>1 DEF Projection, TextSegment
  <2>3. Displayed(Segment("at", "member", 0)) /\ Segment("at", "member", 0).kind # "reply"
    BY DisplayedFields, SegmentFields
  <2>4. Fine({p})
    BY <1>2, <2>2, <2>3
  <2> QED
    BY <2>4 DEF p
<1>11. Fine({Part("text", 0, 0, "uid", 2)})
  <2> DEFINE p == Part("text", 0, 0, "uid", 2)
  <2>1. p.slot = "text" /\ p.v = "uid" /\ p.id = 2
    BY PartFields
  <2> HIDE DEF p
  <2>2. Projection(p) = Segment("at", "uid", 0)
    BY <2>1 DEF Projection, TextSegment
  <2>3. Displayed(Segment("at", "uid", 0)) /\ Segment("at", "uid", 0).kind # "reply"
    BY DisplayedFields, SegmentFields
  <2>4. Fine({p})
    BY <1>2, <2>2, <2>3
  <2> QED
    BY <2>4 DEF p
<1>12. Fine({Part("rich_message", 0, 0, "card", 1)})
  <2> DEFINE p == Part("rich_message", 0, 0, "card", 1)
  <2>1. p.slot = "rich_message" /\ p.v = "card" /\ p.id = 1
    BY PartFields
  <2> HIDE DEF p
  <2>2. Projection(p) = Segment("json", "card", 0)
    BY <2>1 DEF Projection, RichSegment
  <2>3. Displayed(Segment("json", "card", 0)) /\ Segment("json", "card", 0).kind # "reply"
    BY DisplayedFields, SegmentFields
  <2>4. Fine({p})
    BY <1>2, <2>2, <2>3
  <2> QED
    BY <2>4 DEF p
<1>13. Fine({Part("rich_message", 0, 0, "map", 1)})
  <2> DEFINE p == Part("rich_message", 0, 0, "map", 1)
  <2>1. p.slot = "rich_message" /\ p.v = "map" /\ p.id = 1
    BY PartFields
  <2> HIDE DEF p
  <2>2. Projection(p) = Segment("json", "map", 0)
    BY <2>1 DEF Projection, RichSegment
  <2>3. Displayed(Segment("json", "map", 0)) /\ Segment("json", "map", 0).kind # "reply"
    BY DisplayedFields, SegmentFields
  <2>4. Fine({p})
    BY <1>2, <2>2, <2>3
  <2> QED
    BY <2>4 DEF p
<1>14. Fine({Part("common", 2, 1, "none", 0)})
  <2> DEFINE p == Part("common", 2, 1, "none", 0)
  <2>1. p.slot = "common" /\ p.service = 2 /\ p.v = "none"
    BY PartFields
  <2> HIDE DEF p
  <2>2. Projection(p) = Malformed
    BY <2>1 DEF Projection, CommonSegment, PokeSegment
  <2>4. Fine({p})
    BY <1>1, <2>2
  <2> QED
    BY <2>4 DEF p
<1>15. Fine({Part("source", 0, 0, NoUid, 0)})
  <2> DEFINE p == Part("source", 0, 0, NoUid, 0)
  <2>1. p.slot = "source" /\ p.v = NoUid
    BY PartFields
  <2> HIDE DEF p
  <2>2. Projection(p) = Malformed
    BY <2>1 DEF Projection, SourceSegment, NoUid
  <2>4. Fine({p})
    BY <1>1, <2>2
  <2> QED
    BY <2>4 DEF p
<1>21. Fine({Part("light_app", 0, 0, "large", 0)})
  <2> DEFINE p == Part("light_app", 0, 0, "large", 0)
  <2>1. p.slot = "light_app" /\ p.v = "large"
    BY PartFields
  <2> HIDE DEF p
  <2>2. Projection(p) = Segment("json", "large", 0)
    BY <2>1 DEF Projection, LightSegment
  <2>3. Displayed(Segment("json", "large", 0)) /\ Segment("json", "large", 0).kind # "reply"
    BY DisplayedFields, SegmentFields
  <2>4. Fine({p})
    BY <1>2, <2>2, <2>3
  <2> QED
    BY <2>4 DEF p
<1>22. Fine({Part("text", 0, 0, "nul", 0)})
  <2> DEFINE p == Part("text", 0, 0, "nul", 0)
  <2>1. p.slot = "text" /\ p.v = "nul"
    BY PartFields
  <2> HIDE DEF p
  <2>2. Projection(p) = Malformed
    BY <2>1 DEF Projection, TextSegment
  <2>4. Fine({p})
    BY <1>1, <2>2
  <2> QED
    BY <2>4 DEF p
<1>16. ASSUME NEW a, NEW b, a # b, Projection(a) = Segment("text", "words", 0),
              Projection(b) # Malformed
       PROVE  Fine({a, b})
  <2> DEFINE text == Segment("text", "words", 0)
             found == { Projection(part) : part \in {a, b} } \ {Nothing}
             parts == { part \in {a, b} : Projection(part) # Nothing }
  <2>1. text # Nothing /\ text # Malformed
    BY <1>5, NamedKinds
  <2>2. Decoded({a, b}) = CASE Malformed \in found -> Malformed
                            [] \E part \in parts : parts = {part} -> CHOOSE s \in found : TRUE
                            [] OTHER -> Unsupported
    BY DEF Decoded
  <2>3. ~(Malformed \in found)
    <3> HIDE DEF text
    <3> QED
      BY <1>16, <2>1 DEF text
  <2>4. CASE Projection(b) = Nothing
    <3>1. found = {text} /\ parts = {a}
      BY <1>16, <2>1, <2>4
    <3> HIDE DEF found, parts
    <3>2. Decoded({a, b}) = CHOOSE s \in found : TRUE
      BY <2>2, <2>3, <3>1
    <3>3. Decoded({a, b}) = text
      BY <3>1, <3>2
    <3> QED
      BY <1>5, <3>3 DEF Fine
  <2>5. CASE Projection(b) # Nothing
    <3>1. a \in parts /\ b \in parts
      BY <1>16, <2>1, <2>5
    <3> HIDE DEF found, parts
    <3>2. Decoded({a, b}) = Unsupported
      BY <1>16, <2>2, <2>3, <3>1
    <3> QED
      BY <3>2, DisplayedCases, NamedKinds DEF Fine
  <2> QED
    BY <2>4, <2>5
<1>17. Fine({Part("text", 0, 0, "words", 0), Part("face", 0, 0, Blank, 5)})
  <2> DEFINE a == Part("text", 0, 0, "words", 0)
             b == Part("face", 0, 0, Blank, 5)
  <2>1. a.slot = "text" /\ b.slot = "face" /\ b.id = 5
    BY PartFields
  <2>2. Projection(a) = Segment("text", "words", 0)
    BY <1>4
  <2> HIDE DEF a, b
  <2>3. Projection(b) = Segment("face", Blank, 5)
    BY <2>1, FaceCases
  <2>4. Segment("face", Blank, 5) # Malformed
    BY FacesDisplayed, NamedKinds
  <2>5. Fine({a, b})
    BY <1>16, <2>1, <2>2, <2>3, <2>4
  <2> QED
    BY <2>5 DEF a, b
<1>18. Fine({Part("text", 0, 0, "words", 0), Part("common", 46, 1, "rows", 0)})
  <2> DEFINE a == Part("text", 0, 0, "words", 0)
             b == Part("common", 46, 1, "rows", 0)
  <2>1. a.slot = "text" /\ b.slot = "common" /\ b.service = 46
    BY PartFields
  <2>2. Projection(a) = Segment("text", "words", 0)
    BY <1>4
  <2> HIDE DEF a, b
  <2>3. Projection(b) = Nothing
    BY <2>1 DEF Projection, CommonSegment
  <2>4. Fine({a, b})
    BY <1>16, <2>1, <2>2, <2>3, NamedKinds
  <2> QED
    BY <2>4 DEF a, b
<1>19. \/ e = {} \/ e = {Part("text", 0, 0, "words", 0), Part("face", 0, 0, Blank, 5)}
       \/ e = {Part("text", 0, 0, "words", 0), Part("common", 46, 1, "rows", 0)}
       \/ e = {Part("common", 33, 1, Blank, 5)}
       \/ e = {Part("common", 37, 1, Blank, 300)}
       \/ e = {Part("common", 37, 1, Blank, 358)}
       \/ e = {Part("common", 48, 13, "uuid", 0)}
       \/ e = {Part("text", 0, 0, "member", 2)}
       \/ e = {Part("text", 0, 0, "uid", 2)}
       \/ e = {Part("rich_message", 0, 0, "card", 1)}
       \/ e = {Part("rich_message", 0, 0, "map", 1)}
       \/ e = {Part("common", 2, 1, "none", 0)}
       \/ e = {Part("source", 0, 0, NoUid, 0)}
       \/ e = {Part("light_app", 0, 0, "large", 0)} \/ e = {Part("text", 0, 0, "nul", 0)}
  BY DEF Foreign, Blank, NoUid
<1>20. Fine(e)
  BY <1>3, <1>6, <1>7, <1>8, <1>9, <1>10,
     <1>11, <1>12, <1>13, <1>14, <1>15, <1>17, <1>18, <1>19, <1>21, <1>22
<1> QED
  BY <1>20 DEF Fine

\* What a bot writes of its own has the form of a segment.
LEMMA DraftsAreFormed ==
  ASSUME NEW s \in Drafts
  PROVE  Formed(s)
<1> DEFINE OfKind(kind, v, id) ==
      \/ kind \in {"text", "at", "markdown", "mface", "json", "reply", "keyboard"} /\ id = 0
      \/ kind \in Media /\ id = 0
      \/ kind = "face" /\ v = Blank
      \/ kind \in {"dice", "rps"} /\ v = Blank /\ id = 0
      \/ kind = "location" /\ v = "map" /\ id = 0
      \/ kind = "forward" /\ v = "bundle" /\ id = 0
      \/ kind \in {"xml", "poke"}
<1>1. ASSUME NEW kind, NEW v, NEW id, OfKind(kind, v, id), s = Segment(kind, v, id)
      PROVE  Formed(s)
  <2>1. s.kind = kind /\ s.v = v /\ s.id = id
    BY <1>1, SegmentFields
  <2>2. s = Segment(s.kind, s.v, s.id)
    BY <1>1, <2>1
  <2> QED
    BY <1>1, <2>1, <2>2 DEF Formed, Displayed, Blank
<1>2. \E kind, v, id : OfKind(kind, v, id) /\ s = Segment(kind, v, id)
  <2> DEFINE Drawn == \E kind, v, id : OfKind(kind, v, id) /\ s = Segment(kind, v, id)
  <2>1. s \in Words => Drawn
    BY DEF Words, Blank
  <2>2. s \in Figures => Drawn
    <3>1. Figures = { Segment("at", who, 0) : who \in {"all", "member", "uid"} }
                    \cup { Segment("face", Blank, id) : id \in {259, 260, 358} }
                    \cup { Segment(kind, "file", 0) : kind \in Media }
                    \cup { Segment(kind, "large", 0) : kind \in Media }
      BY Zenon DEF Figures, Blank
    <3>2. s \in Figures =>
            \/ \E who \in {"all", "member", "uid"} : s = Segment("at", who, 0)
            \/ \E id \in {259, 260, 358} : s = Segment("face", Blank, id)
            \/ \E kind \in Media, file \in {"file", "large"} : s = Segment(kind, file, 0)
      BY <3>1
    <3> QED
      BY <3>2
  <2>3. \/ s \in Words \/ s \in Figures
        \/ \E body \in Bodies : s = Segment("json", body, 0)
        \/ \E body \in Bodies \ {"map"}, id \in {0, 1, 34, 35} : s = Segment("xml", body, id)
        \/ \E kind \in {"none", "shake"} : s = Segment("poke", kind, 1)
        \/ \E message \in {"here", "elsewhere"} : s = Segment("reply", message, 0)
    <3>1. \/ s \in Words \/ s \in Figures
          \/ s \in { Segment("json", body, 0) : body \in Bodies }
          \/ s \in { Segment("xml", body, id) : body \in Bodies \ {"map"},
                                               id \in {0, 1, 34, 35} }
          \/ s \in { Segment("poke", kind, 1) : kind \in {"none", "shake"} }
          \/ s \in { Segment("reply", message, 0) : message \in {"here", "elsewhere"} }
      BY DEF Drafts
    <3> QED
      BY <3>1
  <2>10. Drawn
    BY <2>1, <2>2, <2>3
  <2> QED
    BY <2>10
<1> QED
  <2> HIDE DEF OfKind
  <2> QED
    BY <1>1, <1>2

\* The card of an uploaded forward is one element.
LEMMA CardIsFlat ==
  ASSUME NEW where, NEW c \in BOOLEAN
  PROVE  /\ Accepted(Card, where) /\ Formed(Card)
         /\ Flat(Compilation(<<Card>>, where, c), Compiled(Card, where, c))
         /\ List(Compiled(Card, where, c))
<1>1. Accepted(Card, where) /\ Formed(Card)
  BY DisplayedCases DEF Accepted, Formed
<1> DEFINE E == Compiled(Card, where, c)
           seqs == Compilation(<<Card>>, where, c)
           p == {LightApp("bundle")}
<1>2. E = << p >>
  BY NamedKinds DEF Compiled
<1>3. Resolved(Card) = Card
  BY NamedKinds, ResolvedCases
<1>4. Len(seqs) = 1 /\ seqs[1] = E
  <2>1. seqs = [i \in 1 .. 1 |-> E]
    BY <1>3 DEF Compilation
  <2> HIDE DEF E, seqs
  <2> QED
    BY <2>1
<1> HIDE DEF E, seqs, p
<1>5. Len(E) = 1 /\ E[1] = p /\ List(E)
  <2>1. E \in Seq({p}) /\ Len(E) = 1 /\ E[1] = p
    BY <1>2
  <2> QED
    BY <2>1, ListKnown
<1>6. \E f : Traced(seqs, 1, E, f)
  <2> DEFINE f == [j \in 1 .. 1 |-> 1]
  <2>1. Traced(seqs, 1, E, f)
    <3>1. \A i \in 1 .. 1 : i = 1 /\ f[i] = 1
      OBVIOUS
    <3>2. f \in [1 .. 1 -> 1 .. 1] /\ 1 \in 1 .. 1
      OBVIOUS
    <3> HIDE DEF f
    <3> QED
      BY <1>4, <1>5, <3>1, <3>2 DEF Traced
  <2> HIDE DEF f
  <2> QED
    BY <2>1
<1>7. Flat(seqs, E)
  <2>1. \A i \in 1 .. 1 : i = 1
    OBVIOUS
  <2> QED
    BY <1>4, <1>5, <1>6, <2>1 DEF Flat
<1> QED
  BY <1>1, <1>5, <1>7 DEF E, seqs

\* The invariant holds before anything is written.
LEMMA MessageInit == SegmentsInit => MessageInv
<1> SUFFICES ASSUME SegmentsInit PROVE MessageInv
  OBVIOUS
<1>1. <<>> \in Seq({}) /\ DOMAIN <<>> = {}
  OBVIOUS
<1>2. List(<<>>)
  BY <1>1, ListKnown
<1> QED
  BY <1>1, <1>2 DEF SegmentsInit, MessageInv, MessageTypes, Phases, MessagesSurvive, ReadsAsWritten,
                    AcceptedIsReadable, SentOnUnchanged


\* A bot that writes a further segment keeps the invariant.
LEMMA MessageWrite ==
  ASSUME MessageInv, NEW segment \in Drafts, Write(segment)
  PROVE  MessageInv'
<1>1. /\ phase' = "Writing" /\ written' = Append(written, segment) /\ hops = 0 /\ hops' = 0
      /\ target' = target /\ wire' = wire /\ seen' = seen /\ former' = former
  BY DEF Write
<1>2. List(written) /\ Formed(segment) /\ \A i \in DOMAIN written : Formed(written[i])
  BY DraftsAreFormed DEF MessageInv, MessageTypes
<1>3. /\ List(written') /\ DOMAIN written' = 1 .. Len(written) + 1
      /\ \A i \in DOMAIN written' : written'[i] = IF i = Len(written) + 1 THEN segment ELSE written[i]
  <2> DEFINE S == Range(written) \cup {segment}
  <2>1. written \in Seq(S) /\ Len(written) \in Nat
    BY <1>2 DEF List
  <2>2. Append(written, segment) \in Seq(S)
    BY <2>1
  <2> HIDE DEF S
  <2>3. List(Append(written, segment))
    BY <2>2, ListKnown
  <2> QED
    BY <1>1, <2>1, <2>3 DEF List
<1>4. \A i \in DOMAIN written' : Formed(written'[i])
  <2> TAKE i \in DOMAIN written'
  <2>1. i = Len(written) + 1 \/ i \in DOMAIN written
    BY <1>2, <1>3, ListLength
  <2> QED
    BY <1>2, <1>3, <2>1
<1>5. MessageTypes'
  BY <1>1, <1>3, <1>4 DEF MessageInv, MessageTypes, Phases, List
<1>6. MessagesSurvive'
  BY <1>1 DEF MessagesSurvive, ReadsAsWritten, AcceptedIsReadable, SentOnUnchanged
<1> QED
  BY <1>1, <1>5, <1>6 DEF MessageInv

\* A message that is sent is on the wire as it was written.
LEMMA MessageSend ==
  ASSUME MessageInv, NEW c \in BOOLEAN, Send(c)
  PROVE  MessageInv'
<1>1. /\ phase = "Writing" /\ phase' = "Sent" /\ written' = written /\ target' = target
      /\ wire' = Elements(written, target, c) /\ Sendable(written, target)
      /\ echo' = [i \in DOMAIN written |-> Echoed(Resolved(written[i]))]
      /\ former' = former /\ hops' = hops /\ seen' = seen
  BY DEF Send
<1>2. /\ List(written) /\ written # <<>>
      /\ former # <<>> => Kept
      /\ \A i \in DOMAIN written : Formed(written[i]) /\ Accepted(written[i], target)
  <2>1. List(written) /\ \A i \in DOMAIN written : Formed(written[i])
    BY DEF MessageInv, MessageTypes
  <2>2. \A i \in DOMAIN written : Accepted(written[i], target)
    BY <1>1, <2>1 DEF Sendable, Accepted
  <2>3. written # <<>>
    <3> SUFFICES ASSUME written = <<>> PROVE FALSE
      OBVIOUS
    <3>1. Len(written) = 0 /\ Len(written) \in 1 .. MaxSegments
      BY <1>1 DEF Sendable
    <3> QED
      BY <3>1
  <2>4. former # <<>> => hops > 0
    BY DEF MessageInv, MessageTypes
  <2> QED
    BY <1>1, <2>1, <2>2, <2>3, <2>4 DEF MessageInv
<1>3. echo' = written
  <2>1. \A i \in DOMAIN written : Echoed(Resolved(written[i])) = written[i]
    BY <1>2, EchoedIsSent
  <2>2. written = [i \in DOMAIN written |-> written[i]]
    <3>1. DOMAIN written = 1 .. Len(written) /\ written = [i \in 1 .. Len(written) |-> written[i]]
      BY <1>2, ListLength
    <3> QED
      BY <3>1
  <2> QED
    BY <1>1, <2>1, <2>2
<1>4. Flat(Compilation(written, target, c), wire') /\ List(wire')
  <2>1. \A i \in DOMAIN written : Accepted(written[i], target)
    BY <1>2
  <2>2. /\ Flat(Compilation(written, target, c), Elements(written, target, c))
        /\ List(Elements(written, target, c))
    BY <1>2, <2>1, SentIsFlat
  <2> QED
    BY <1>1, <2>2
<1>5. OnTheWire'
  <2>1. \A i \in DOMAIN written' : Accepted(written'[i], target')
    BY <1>1, <1>2
  <2>2. \E x \in BOOLEAN : Flat(Compilation(written', target', x), wire')
    BY <1>1, <1>4
  <2>3. former' # <<>> => Kept'
    BY <1>1, <1>2 DEF Kept, Mentioned
  <2> QED
    BY <1>1, <1>2, <1>3, <2>1, <2>2, <2>3 DEF OnTheWire
<1>6. MessageTypes'
  BY <1>1, <1>4 DEF MessageInv, MessageTypes, Phases
<1>7. MessagesSurvive'
  BY <1>1 DEF MessagesSurvive, ReadsAsWritten, AcceptedIsReadable, SentOnUnchanged
<1> QED
  BY <1>1, <1>5, <1>6, <1>7 DEF MessageInv

\* So is the card that stands for an uploaded forward.
LEMMA MessagePostCard ==
  ASSUME MessageInv, NEW where \in {"Private", "Group"}, PostCard(where)
  PROVE  MessageInv'
<1>1. /\ phase' = "Sent" /\ target' = where /\ written' = <<Card>> /\ former' = <<>>
      /\ echo' = <<Echoed(Card)>> /\ wire' = Compiled(Card, where, FALSE)
      /\ hops' = hops /\ seen' = seen
  BY DEF PostCard, Card
<1>2. /\ Accepted(Card, where) /\ Formed(Card)
      /\ Flat(Compilation(<<Card>>, where, FALSE), wire') /\ List(wire')
  BY <1>1, CardIsFlat
<1>3. Echoed(Card) = Card
  <2>1. Resolved(Card) = Card
    BY NamedKinds, ResolvedCases
  <2> QED
    BY <1>2, <2>1, EchoedIsSent
<1>4. /\ List(<<Card>>) /\ <<Card>> # <<>> /\ \A i \in DOMAIN <<Card>> : <<Card>>[i] = Card
  <2>1. <<Card>> \in Seq({Card}) /\ Len(<<Card>>) = 1
    OBVIOUS
  <2>2. List(<<Card>>)
    BY <2>1, ListKnown
  <2>3. \A i \in DOMAIN <<Card>> : <<Card>>[i] = Card
    OBVIOUS
  <2> QED
    BY <2>1, <2>2, <2>3
<1>5. OnTheWire'
  <2>1. \A i \in DOMAIN written' : Accepted(written'[i], target')
    BY <1>1, <1>2, <1>4
  <2>2. \E c \in BOOLEAN : Flat(Compilation(written', target', c), wire')
    BY <1>1, <1>2
  <2> QED
    BY <1>1, <1>3, <1>4, <2>1, <2>2 DEF OnTheWire
<1>6. MessageTypes'
  <2>1. \A i \in DOMAIN written' : Formed(written'[i])
    BY <1>1, <1>2, <1>4
  <2> QED
    BY <1>1, <1>2, <1>4, <2>1 DEF MessageInv, MessageTypes, Phases, Places
<1>7. MessagesSurvive'
  BY <1>1 DEF MessagesSurvive, ReadsAsWritten, AcceptedIsReadable, SentOnUnchanged
<1> QED
  BY <1>1, <1>5, <1>6, <1>7 DEF MessageInv

\* A message of another client is on the wire, and nobody here wrote it.
LEMMA MessageForeign ==
  ASSUME MessageInv, NEW element \in Foreign, ForeignMessage(element)
  PROVE  MessageInv'
<1>1. /\ phase = "Writing" /\ phase' = "Sent" /\ written = <<>> /\ wire' = <<element>>
      /\ target' = target /\ written' = written /\ seen' = seen /\ former' = former /\ hops' = hops
  BY DEF ForeignMessage
<1>2. former = <<>>
  BY <1>1 DEF MessageInv, MessageTypes, Kept
<1>3. List(<<element>>)
  <2>1. <<element>> \in Seq({element})
    OBVIOUS
  <2> QED
    BY <2>1, ListKnown
<1>4. MessageTypes'
  BY <1>1, <1>3 DEF MessageInv, MessageTypes, Phases
<1>5. MessagesSurvive'
  BY <1>1 DEF MessagesSurvive, ReadsAsWritten, AcceptedIsReadable, SentOnUnchanged
<1>6. OnTheWire'
  BY <1>1, <1>2 DEF OnTheWire
<1> QED
  BY <1>1, <1>4, <1>5, <1>6 DEF MessageInv

\* A bot that sends on what it was shown writes segments that were displayed.
LEMMA MessageSendOn ==
  ASSUME MessageInv, SendOn
  PROVE  MessageInv'
<1>1. /\ phase = "Read" /\ phase' = "Writing" /\ written' = seen /\ former' = seen
      /\ hops' = hops + 1 /\ wire' = <<>> /\ seen' = <<>> /\ target' = target
  BY DEF SendOn
<1>2. /\ hops \in Nat /\ List(seen) /\ Mentioned(seen)
      /\ \A i \in DOMAIN seen : Displayed(seen[i])
  BY <1>1 DEF MessageInv, MessageTypes
<1>3. List(<<>>)
  <2>1. <<>> \in Seq({})
    OBVIOUS
  <2> QED
    BY <2>1, ListKnown
<1>4. Kept'
  BY <1>1, <1>2 DEF Kept, Mentioned
<1>5. MessageTypes'
  BY <1>1, <1>2, <1>3 DEF MessageInv, MessageTypes, Phases, Formed
<1>6. MessagesSurvive'
  BY <1>1 DEF MessagesSurvive, ReadsAsWritten, AcceptedIsReadable, SentOnUnchanged
<1> QED
  BY <1>1, <1>4, <1>5, <1>6 DEF MessageInv

\* A mention by uid is never accepted, so no reply that was shown in a group is.
LEMMA NoReplyAgain ==
  ASSUME Kept, target = "Group", \A i \in DOMAIN written : Accepted(written[i], target)
  PROVE  \A i \in DOMAIN written : written[i].kind # "reply"
<1> SUFFICES ASSUME NEW i \in DOMAIN written, written[i].kind = "reply" PROVE FALSE
  OBVIOUS
<1>1. PICK j \in DOMAIN written : written[j] = Segment("at", "uid", 0)
  BY DEF Kept, Mentioned
<1> DEFINE s == written[j]
<1>2. s.kind = "at" /\ s.v = "uid" /\ s # Card
  BY <1>1, SegmentFields, NamedKinds
<1>3. Compilable(s, target)
  BY <1>2 DEF Accepted
<1> HIDE DEF s
<1> QED
  BY <1>2, <1>3 DEF Compilable

\* What is read is what was written, can always be read, and is what was sent on before.
LEMMA MessageRead ==
  ASSUME MessageInv, NEW linked \in BOOLEAN, Read(linked)
  PROVE  MessageInv'
<1> DEFINE decoded == [i \in DOMAIN wire |-> Decoded(wire[i])]
           lost == (\E i \in DOMAIN wire : Oversized(wire[i])) \/ Malformed \in Range(decoded)
<1>1. /\ phase = "Sent" /\ OnTheWire /\ MessageTypes /\ List(wire)
      /\ target' = target /\ written' = written /\ wire' = wire /\ echo' = echo
      /\ former' = former /\ hops' = hops
  BY DEF Read, MessageInv, MessageTypes
<1>2. IF lost
      THEN phase' = "Lost" /\ seen' = seen
      ELSE /\ phase' = "Read"
           /\ seen' = [i \in DOMAIN decoded |-> Shown(decoded[i], linked)]
  BY DEF Read
<1>3. /\ Len(wire) \in Nat /\ DOMAIN wire = 1 .. Len(wire) /\ DOMAIN decoded = DOMAIN wire
      /\ decoded = [i \in 1 .. Len(wire) |-> Decoded(wire[i])]
      /\ \A i \in DOMAIN wire : decoded[i] = Decoded(wire[i])
  BY <1>1, ListLength
<1>8. lost <=> \E i \in DOMAIN wire : Unread(wire[i])
  BY <1>3 DEF Unread, Range
<1> HIDE DEF decoded, lost
<1>4. ASSUME NEW x, NEW s, s = Shown(x, linked)
      PROVE  /\ x.kind # "reply" => s = x
             /\ s = x \/ (x.kind = "reply" /\ s = Unsupported)
  BY <1>4 DEF Shown
<1>5. MessageTypes' /\ (phase' = "Read" => DOMAIN seen' = DOMAIN wire)
  <2>1. CASE lost
    BY <1>1, <1>2, <2>1 DEF MessageTypes, Phases
  <2>2. CASE ~lost
    <3>1. seen' = [i \in 1 .. Len(wire) |-> Shown(decoded[i], linked)]
      BY <1>2, <1>3, <2>2
    <3>2. seen' = [i \in 1 .. Len(wire) |-> seen'[i]]
      BY <3>1
    <3>3. List(seen') /\ DOMAIN seen' = 1 .. Len(wire)
      BY <1>3, <3>2, ListMade
    <3> QED
      BY <1>1, <1>2, <1>3, <2>2, <3>3 DEF MessageTypes, Phases, List
  <2> QED
    BY <2>1, <2>2
<1>6. CASE written = <<>> /\ former = <<>> /\ \E e \in Foreign : wire = << e >>
  <2>1. PICK e \in Foreign : wire = << e >>
    BY <1>6
  <2>2. Len(wire) = 1 /\ wire[1] = e
    BY <2>1
  <2>3. \A i \in DOMAIN wire : i = 1
    BY <1>3, <2>2
  <2>4. CASE lost
    BY <1>1, <1>2, <1>5, <1>6, <2>4
       DEF MessageInv, MessagesSurvive, ReadsAsWritten, AcceptedIsReadable, SentOnUnchanged
  <2>5. CASE ~lost
    <3>1. 1 \in DOMAIN wire /\ decoded[1] = Decoded(e)
      BY <1>3, <2>2
    <3>2. Decoded(e) # Malformed
      BY <1>8, <2>2, <2>5, <3>1 DEF Unread
    <3>3. Displayed(Decoded(e)) /\ Decoded(e).kind # "reply"
      BY <2>1, <3>2, ForeignShown
    <3>4. phase' = "Read" /\ seen'[1] = Shown(decoded[1], linked)
      BY <1>2, <1>3, <2>5, <3>1
    <3>5. seen'[1] = Decoded(e)
      BY <1>4, <3>1, <3>3, <3>4
    <3>6. \A i \in DOMAIN seen' : Displayed(seen'[i]) /\ seen'[i].kind # "reply"
      BY <1>5, <2>3, <3>3, <3>4, <3>5
    <3>7. Mentioned(seen)'
      BY <3>6 DEF Mentioned
    <3> QED
      BY <1>1, <1>5, <1>6, <3>4, <3>6, <3>7
         DEF MessageInv, MessagesSurvive, ReadsAsWritten, AcceptedIsReadable, SentOnUnchanged
  <2> QED
    BY <2>4, <2>5
<1>7. CASE /\ written # <<>> /\ echo = written
           /\ \A i \in DOMAIN written : Accepted(written[i], target)
           /\ \E c \in BOOLEAN : Flat(Compilation(written, target, c), wire)
           /\ former # <<>> => Kept
  <2>1. PICK c \in BOOLEAN : Flat(Compilation(written, target, c), wire)
    BY <1>7
  <2>2. /\ List(written) /\ written # <<>> /\ echo = written
        /\ \A i \in DOMAIN written : Accepted(written[i], target)
    BY <1>1, <1>7 DEF MessageTypes
  <2>11. lost <=> \E i \in DOMAIN written : ~Readable(written[i])
    BY <1>1, <1>8, <2>1, <2>2, FlatUnread
  <2>12. CASE lost
    <3>1. phase' = "Lost" /\ \E i \in DOMAIN written : ~Readable(written[i])
      BY <1>2, <2>11, <2>12
    <3> QED
      BY <1>1, <1>5, <3>1
         DEF MessageInv, MessagesSurvive, ReadsAsWritten, AcceptedIsReadable, SentOnUnchanged
  <2> SUFFICES ASSUME ~lost PROVE MessageInv'
    BY <2>12
  <2>4. \A i \in DOMAIN written : Accepted(written[i], target) /\ Readable(written[i])
    BY <2>2, <2>11
  <2>3. /\ \A j \in DOMAIN decoded : Displayed(decoded[j])
        /\ (\A i \in DOMAIN written : Plain(written[i])) =>
             ReadsAs(written, decoded) /\ \A j \in DOMAIN decoded : decoded[j].kind # "reply"
        /\ target = "Group" /\ (\E j \in DOMAIN decoded : decoded[j].kind = "reply") =>
             \E j \in DOMAIN decoded : decoded[j] = Segment("at", "uid", 0)
        /\ (\A i \in DOMAIN written :
               /\ Displayed(written[i]) /\ (written[i].kind = "json" => written[i].v = "card")
               /\ ~(written[i].kind = "reply" /\ target = "Group")) =>
             /\ Len(wire) = Len(written)
             /\ \A i \in DOMAIN decoded : decoded[i] = written[i]
    BY <1>1, <1>3, <2>1, <2>2, <2>4, FlatRead
  <2>5. /\ phase' = "Read" /\ DOMAIN seen' = DOMAIN decoded
        /\ seen' = [i \in DOMAIN decoded |-> Shown(decoded[i], linked)]
    BY <1>2, <1>3, <1>5
  <2>6. \A i \in DOMAIN decoded :
          /\ decoded[i].kind # "reply" => seen'[i] = decoded[i]
          /\ seen'[i] = decoded[i] \/ (decoded[i].kind = "reply" /\ seen'[i] = Unsupported)
    <3> TAKE i \in DOMAIN decoded
    <3>1. seen'[i] = Shown(decoded[i], linked)
      BY <2>5
    <3> QED
      BY <1>4, <3>1
  <2>7. \A i \in DOMAIN seen' : Displayed(seen'[i])
    BY <2>3, <2>5, <2>6, DisplayedCases
  <2>8. Mentioned(seen)'
    <3> SUFFICES ASSUME target = "Group", NEW i \in DOMAIN seen', seen'[i].kind = "reply"
                 PROVE  \E j \in DOMAIN seen' : seen'[j] = Segment("at", "uid", 0)
      BY <1>1 DEF Mentioned
    <3>1. decoded[i].kind = "reply"
      BY <2>5, <2>6, NamedKinds
    <3>2. PICK j \in DOMAIN decoded : decoded[j] = Segment("at", "uid", 0)
      BY <2>3, <2>5, <3>1
    <3>3. decoded[j].kind # "reply"
      BY <3>2, SegmentFields
    <3> QED
      BY <2>5, <2>6, <3>2, <3>3
  <2>9. ReadsAsWritten'
    <3> SUFFICES ASSUME \A i \in DOMAIN written : Plain(written[i])
                 PROVE  ReadsAs(written, seen')
      BY <1>1, <2>2 DEF ReadsAsWritten
    <3>1. \A i \in DOMAIN decoded : seen'[i] = decoded[i]
      BY <2>3, <2>6
    <3>2. seen' = decoded
      BY <1>3, <2>5, <3>1
    <3> QED
      BY <2>3, <3>2
  <2>10. SentOnUnchanged'
    <3> SUFFICES ASSUME former # <<>>,
                        \A i \in DOMAIN former : former[i].kind = "json" => former[i].v = "card"
                 PROVE  /\ Len(seen') = Len(former)
                        /\ \A i \in DOMAIN seen' :
                              \/ seen'[i] = former[i]
                              \/ former[i].kind = "reply" /\ seen'[i] = Unsupported
      BY <1>1 DEF SentOnUnchanged
    <3>1. Kept /\ written = former /\ \A i \in DOMAIN written : Displayed(written[i])
      BY <1>7 DEF Kept
    <3>2. \A i \in DOMAIN written : ~(written[i].kind = "reply" /\ target = "Group")
      BY <2>2, <3>1, NoReplyAgain
    <3>3. Len(wire) = Len(written) /\ \A i \in DOMAIN decoded : decoded[i] = written[i]
      BY <2>3, <3>1, <3>2
    <3>4. Len(seen') = Len(wire)
      <4>1. seen' = [i \in 1 .. Len(wire) |-> seen'[i]]
        <5>1. seen' = [i \in 1 .. Len(wire) |-> Shown(decoded[i], linked)]
          BY <1>3, <2>5
        <5> QED
          BY <5>1
      <4> QED
        BY <1>3, <4>1, ListMade
    <3> QED
      BY <2>5, <2>6, <3>1, <3>3, <3>4
  <2> QED
    BY <1>1, <1>5, <2>2, <2>5, <2>7, <2>8, <2>9, <2>10
       DEF MessageInv, MessagesSurvive, AcceptedIsReadable
<1> QED
  BY <1>1, <1>6, <1>7 DEF OnTheWire

\* Every step keeps the invariant.
LEMMA MessageNext ==
  ASSUME MessageInv, [SegmentsNext]_segmentVars
  PROVE  MessageInv'
<1>1. ASSUME NEW segment \in Drafts, Write(segment) PROVE MessageInv'
  BY <1>1, MessageWrite
<1>2. ASSUME NEW compatible \in BOOLEAN, Send(compatible) PROVE MessageInv'
  BY <1>2, MessageSend
<1>3. CASE Refuse
  <2>1. /\ phase' = "Refused" /\ written' = written /\ wire' = wire /\ target' = target
        /\ seen' = seen /\ former' = former /\ hops' = hops
    BY <1>3 DEF Refuse
  <2>2. MessageTypes'
    BY <2>1 DEF MessageInv, MessageTypes, Phases
  <2> QED
    BY <2>1, <2>2
       DEF MessageInv, MessagesSurvive, ReadsAsWritten, AcceptedIsReadable, SentOnUnchanged
<1>4. ASSUME NEW where \in {"Private", "Group"}, PostCard(where) PROVE MessageInv'
  BY <1>4, MessagePostCard
<1>5. ASSUME NEW element \in Foreign, ForeignMessage(element) PROVE MessageInv'
  BY <1>5, MessageForeign
<1>6. ASSUME NEW linked \in BOOLEAN, Read(linked) PROVE MessageInv'
  BY <1>6, MessageRead
<1>7. CASE SendOn
  BY <1>7, MessageSendOn
<1>8. CASE UNCHANGED segmentVars
  BY <1>8 DEF segmentVars, MessageInv, MessageTypes, Kept, Mentioned, OnTheWire, MessagesSurvive,
              ReadsAsWritten, AcceptedIsReadable, SentOnUnchanged
<1> QED
  BY <1>1, <1>2, <1>3, <1>4, <1>5, <1>6, <1>7, <1>8 DEF SegmentsNext

\* For messages of any length, in any place, sent on any number of times: what a bot writes
\* reads as it was written, what encode_message accepts the decoders of rich_text/ read
\* without an error unless it has a NUL or is too long for them, and what a bot is shown
\* and sends on arrives as it was shown.
THEOREM MessagesSurviveCorrect == SegmentsSpec => []MessagesSurvive
<1>1. MessageInv /\ [SegmentsNext]_segmentVars => MessageInv'
  BY MessageNext
<1>2. MessageInv => MessagesSurvive
  BY DEF MessageInv
<1> QED
  BY MessageInit, <1>1, <1>2, PTL DEF SegmentsSpec
=============================================================================
