------------------------------ MODULE MCOnline ------------------------------
(***************************************************************************)
(* What an account does while it is online, part by part: its schedule     *)
(* (OnlineSession), the messages it numbers (MessageRegistry), the files   *)
(* it uploads (MediaUpload), the events it resolves (EventResolution), the *)
(* actions it executes for bots (AccountActions), what it remembers of its *)
(* synchronization (OnlineSync) and the pushes it decodes (PushEvents),    *)
(* all extended.  A behaviour exercises one of the parts, which its first  *)
(* state chooses; the others rest as they begin.                           *)
(***************************************************************************)
EXTENDS OnlineSession, MessageRegistry, MediaUpload, EventResolution, AccountActions,
        OnlineSync, PushEvents, TLC

CONSTANTS a1, b1, own, friend, reply, hollow, quote, other     \* messages

VARIABLES part

onlineVars == <<now, state, interval, nextHeartbeat, nextDelayed, heartbeatFlies,
                delayedFlies, pc, gates>>

-----------------------------------------------------------------------------
\* Two groups that number their messages alike, a friend, a message that QQ
\* sends without its correlation, replies to it, and a message whose random is
\* zero; three rows, four numbers.
KnownMessages == {a1, b1, own, friend, reply, hollow}
Ours == {own}
Conversations ==
  a1 :> "A" @@ b1 :> "B" @@ own :> "F" @@ friend :> "F" @@ reply :> "F" @@ hollow :> "F"
OfGroup == [m \in KnownMessages |-> m \in {a1, b1}]
Sequences ==
  a1 :> 1 @@ b1 :> 1 @@ own :> 3 @@ friend :> 0 @@ reply :> 4 @@ hollow :> 5
WithCorrelation == [m \in KnownMessages |-> m # friend]
Complete == [m \in KnownMessages |-> m # hollow]
Quotes ==
  [m \in KnownMessages |-> IF m = a1 THEN other ELSE IF m = friend THEN quote ELSE NoQuote]
ReplyKeys ==
  [m \in KnownMessages |-> IF m = reply THEN quote ELSE IF m = b1 THEN other ELSE NoQuote]

\* Messages of every part, and of the pairs whose stages depend on each other.
ActionContents ==
  {<<p>> : p \in {"Plain", "Mention", "Everyone", "Reply", "Image", "Record", "Video",
                  "Other"}}
    \union {<<"Image", "Other">>, <<"Mention", "Reply">>, <<"Reply", "Video">>,
            <<"Mention", "Image">>}

\* Answers without, with one and with several endpoints, usable ones or not.
Offer(type, usable) == [type |-> type, usable |-> usable]
Offers ==
  {<<>>, <<Offer(10, FALSE)>>, <<Offer(10, TRUE)>>,
   <<Offer(10, TRUE), Offer(10, TRUE), Offer(1, TRUE)>>,
   <<Offer(10, TRUE), Offer(10, FALSE), Offer(1, TRUE), Offer(21, TRUE)>>}

-----------------------------------------------------------------------------
Parts == {"schedule", "registry", "pushes", "events", "sync", "actions", "uploads"}

\* A part with several first states begins, when it rests, in one of them.
PartsInit ==
  /\ part \in Parts
  /\ Init /\ (part = "schedule" \/ now = 0)
  /\ RegistryInit /\ (part = "registry" \/ wallClock = 1)
  /\ EventsInit /\ (part = "events" \/ members = {})
  /\ PushInit /\ SyncInit /\ ActionsInit /\ UploadInit

PartsNext ==
  \/ /\ part = "schedule" /\ Next
     /\ UNCHANGED <<part, registryVars, pushVars, eventVars, syncVars,
                    actionVars, uploadVars>>
  \/ /\ part = "registry" /\ RegistryNext
     /\ UNCHANGED <<part, onlineVars, pushVars, eventVars, syncVars,
                    actionVars, uploadVars>>
  \/ /\ part = "pushes" /\ PushNext
     /\ UNCHANGED <<part, onlineVars, registryVars, eventVars, syncVars,
                    actionVars, uploadVars>>
  \/ /\ part = "events" /\ EventsNext
     /\ UNCHANGED <<part, onlineVars, registryVars, pushVars, syncVars,
                    actionVars, uploadVars>>
  \/ /\ part = "sync" /\ SyncNext
     /\ UNCHANGED <<part, onlineVars, registryVars, pushVars, eventVars,
                    actionVars, uploadVars>>
  \/ /\ part = "actions" /\ ActionsNext
     /\ UNCHANGED <<part, onlineVars, registryVars, pushVars, eventVars,
                    syncVars, uploadVars>>
  \/ /\ part = "uploads" /\ UploadNext
     /\ UNCHANGED <<part, onlineVars, registryVars, pushVars, eventVars,
                    syncVars, actionVars>>

\* The fairness of each part.
PartsFairness ==
  /\ SF_onlineVars(part = "schedule" /\ Wake)
  /\ WF_onlineVars(part = "schedule" /\ ExchangeEnds)
  /\ WF_eventVars(part = "events" /\ (TakeEvent \/ Lookups))
  /\ WF_actionVars(part = "actions" /\ Work)
  /\ WF_uploadVars(part = "uploads" /\ UploadProgress)

PartsSpec ==
  /\ PartsInit
  /\ [][PartsNext]_<<part, onlineVars, registryVars, pushVars, eventVars, syncVars,
                     actionVars, uploadVars>>
  /\ PartsFairness

-----------------------------------------------------------------------------
\* The schedule: a due heartbeat is sent when the sleep elapses again and again,
\* as OnlineSession states it.
HeartbeatIsSent == HeartbeatHappens

\* What bots and files wait for ends: AccountActions states it of the requests of
\* bots, MediaUpload of the files.  The other properties are those of the parts.
WorkEnds == AnswersCome /\ UploadEnds

=============================================================================
