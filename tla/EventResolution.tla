--------------------------- MODULE EventResolution ---------------------------
(***************************************************************************)
(* What becomes of a decoded push event: the loop of                        *)
(* `publish_pending_events` takes the events in order, asks QQ for what     *)
(* their opaque UIDs and requests stand for, and publishes them or gives    *)
(* them up; the OneBot adapter projects what was published.  Meanwhile the  *)
(* group changes: members come and go, requests are answered elsewhere.   *)
(*                                                                          *)
(* A UID stands for the account it belongs to, so resolving one is finding  *)
(* it: a UID made of digits is its own number, an opaque one must be in the *)
(* list QQ answers with.                                                    *)
(***************************************************************************)
EXTENDS Naturals, Sequences, FiniteSets, FiniteSetsExt

CONSTANTS Opaque,       \* opaque UIDs
          Digits,       \* UIDs that parse as a number
          Self,         \* this account's own UID
          Nobody,       \* Option::None
          Message,      \* messages of the group
          MaxEvents     \* bound: events QQ tells

VARIABLES members,     \* QQ: who is in the group
          asking,      \* QQ: the requests to the account, [asker, by, kind, pending]
          known,       \* the registry: messages with an identifier
          waiting,     \* PushRuntime.events
          step,        \* the resolution under way: [at, event, record]
          told,        \* history: the last event settled, [event, shape, record]
          signals      \* events QQ has told

eventVars == <<members, asking, known, waiting, step, told, signals>>

Uid == Opaque \union Digits
ASSUME ResolutionAssumption == MaxEvents \in Nat \ {0} /\ Nobody \notin Uid \union {Self}

Event(kind, who, by, message) == [kind |-> kind, who |-> who, by |-> by, message |-> message]
NoEvent == Event("None", Nobody, Nobody, Nobody)

Changes == {"Increase", "Invited", "Leave", "Kick", "KickMe", "Disband", "Admin", "NotAdmin",
            "UnknownChange"}
Requests == {"Join", "Invitation", "SelfInvitation"}

-----------------------------------------------------------------------------
(* The OneBot shapes: post type, what is inside, sub type. *)

\* `project_group_notice`; a kind QQ added later has no honest projection.
NoticeShape(kind) ==
    CASE kind = "Admin"    -> <<"notice", "group_admin", "set">>
      [] kind = "NotAdmin" -> <<"notice", "group_admin", "unset">>
      [] kind = "Increase" -> <<"notice", "group_increase", "approve">>
      [] kind = "Invited"  -> <<"notice", "group_increase", "invite">>
      [] kind = "KickMe"   -> <<"notice", "group_decrease", "kick_me">>
      [] kind = "Disband"  -> <<"notice", "group_decrease", "disband">>
      [] kind = "Leave"    -> <<"notice", "group_decrease", "leave">>
      [] kind = "Kick"     -> <<"notice", "group_decrease", "kick">>
      [] OTHER -> <<"notice", "error">>

\* `project_group_request`.
RequestShape(kind) ==
    <<"request", "group", IF kind = "SelfInvitation" THEN "invite" ELSE "add">>

\* The notices with one shape each.
OtherShape(kind) ==
    CASE kind = "Ban"          -> <<"notice", "group_ban", "ban">>
      [] kind = "Lift"         -> <<"notice", "group_ban", "lift_ban">>
      [] kind = "Recall"       -> <<"notice", "group_recall">>
      [] kind = "FriendRecall" -> <<"notice", "friend_recall">>
      [] kind = "Reaction"     -> <<"notice", "group_msg_emoji_like">>
      [] kind = "Essence"      -> <<"notice", "essence">>
      [] kind = "Poke"         -> <<"notice", "notify", "poke">>
      [] kind = "Name"         -> <<"notice", "group_name_change">>
      [] kind = "PrivateFile"  -> <<"notice", "offline_file">>
      [] kind = "GroupFile"    -> <<"notice", "group_upload">>
      [] OTHER -> <<"notice", "error">>

\* `project_message`: only messages of a known class that name their sender.
MessageShape(event) == IF event.who = Nobody THEN <<"error">> ELSE <<"message", "group">>

\* `project_account_event`.
Shape(event) ==
    CASE event.kind \in Changes       -> NoticeShape(event.kind)
      [] event.kind \in Requests      -> RequestShape(event.kind)
      [] event.kind = "FriendRequest" -> <<"request", "friend">>
      [] event.kind = "Message"       -> MessageShape(event)
      [] OTHER -> OtherShape(event.kind)

-----------------------------------------------------------------------------
(* Looking up *)

\* `parse_uid`.
Parses(uid) == uid \in Digits

\* `resolve_uid` with the list QQ answered; {} when there is none.
Resolves(uid, list) == Parses(uid) \/ uid \in list

\* `needs_members` of the three notices; a recall always asks, and a mute
\* without an operator does.
NeedsMembers(event) ==
    CASE event.kind \in Changes ->
           ~Parses(event.who) \/ (event.by # Nobody /\ ~Parses(event.by))
      [] event.kind \in {"Ban", "Lift"} ->
           ~Parses(event.by) \/ (event.who # Nobody /\ ~Parses(event.who))
      [] event.kind = "Recall"   -> TRUE
      [] event.kind = "Reaction" -> ~Parses(event.by)
      [] OTHER -> FALSE

\* The resolvers of notices.rs, given the members the answer listed: the
\* account kicked is this one, a recall has to name who recalled.
Named(event, list) ==
    CASE event.kind \in Changes ->
           /\ event.kind = "KickMe" \/ Resolves(event.who, list)
           /\ event.by # Nobody => Resolves(event.by, list)
      [] event.kind \in {"Ban", "Lift"} ->
           /\ event.by # Nobody => Resolves(event.by, list)
           /\ event.who # Nobody => Resolves(event.who, list)
      [] event.kind = "Recall" ->
           Resolves(event.who, list) /\ event.by # Nobody /\ Resolves(event.by, list)
      [] event.kind = "Reaction" -> Resolves(event.by, list)
      [] OTHER -> TRUE

\* Events about a message need its identifier; whether the registry has it is
\* looked at before QQ is asked.
NeedsMessage(event) == event.kind \in {"Recall", "FriendRecall", "Reaction", "Essence"}

\* What is asked for, if anything.
Asks(event) ==
    CASE NeedsMembers(event) -> "Members"
      [] event.kind \in Requests -> "Requests"
      [] event.kind = "FriendRequest" -> "Requests"
      [] event.kind = "FriendRecall" -> IF event.who = Self THEN "Nothing" ELSE "Friends"
      [] event.kind \in {"PrivateFile", "GroupFile"} -> "Url"
      [] OTHER -> "Nothing"

\* Broken variant: the kind alone is compared.
SignalMatchesKind(event, record) == record.kind = event.kind

\* `signal_matches`: a request of the kind signalled, for whom and by whom the
\* signal says.  A self invitation is by the inviter alone.
SignalMatches(event, record) ==
    /\ record.kind = event.kind
    /\ event.kind # "SelfInvitation" => record.asker = event.who
    /\ event.kind \in {"Invitation", "SelfInvitation"} => record.by = event.by

\* The newest pending record, or 0.
NewestMatch(event) ==
    LET hits == {i \in DOMAIN asking : asking[i].pending /\ SignalMatches(event, asking[i])}
    IN IF hits = {} THEN 0 ELSE Max(hits)

-----------------------------------------------------------------------------
(* QQ: the group changes and the account is told, in order. *)

TellEvent(event) ==
    /\ signals < MaxEvents
    /\ waiting' = Append(waiting, event) /\ signals' = signals + 1
    /\ UNCHANGED <<known, step, told>>

Operators == {Nobody} \union members \union Digits

MemberJoins ==
    \E who \in Uid \ members, by \in Operators, kind \in {"Increase", "Invited"} :
        /\ members' = members \union {who}
        /\ TellEvent(Event(kind, who, by, Nobody)) /\ UNCHANGED asking

MemberLeaves ==
    \E who \in members, by \in Operators, kind \in {"Leave", "Kick"} :
        /\ (kind = "Kick") <=> (by # Nobody)
        /\ by # who
        /\ members' = members \ {who}
        /\ TellEvent(Event(kind, who, by, Nobody)) /\ UNCHANGED asking

\* Notices that change no list the resolvers ask for.
NoticeArrives ==
    /\ \/ \E who \in members, by \in Operators, kind \in {"Admin", "UnknownChange", "Ban", "Lift"} :
             TellEvent(Event(kind, who, IF kind = "Admin" THEN Nobody ELSE by, Nobody))
       \/ \E by \in members : TellEvent(Event("KickMe", Self, by, Nobody))
       \/ \E by \in members : TellEvent(Event("Ban", Nobody, by, Nobody))
       \/ \E kind \in {"Poke", "Name", "PrivateFile", "GroupFile"} :
             TellEvent(Event(kind, Nobody, Nobody, Nobody))
    /\ UNCHANGED <<members, asking>>

AboutMessage ==
    /\ \E who \in members, m \in Message :
          \/ TellEvent(Event("Message", who, Nobody, m))
          \/ \E by \in Operators : TellEvent(Event("Recall", who, by, m))
          \/ TellEvent(Event("Reaction", Nobody, who, m))
          \/ TellEvent(Event("Essence", who, who, m))
          \/ \E from \in {who, Self} : TellEvent(Event("FriendRecall", from, Nobody, m))
    /\ UNCHANGED <<members, asking>>

RequestArrives ==
    \E who \in Uid, by \in Uid, kind \in Requests \union {"FriendRequest"} :
        LET inviter == IF kind \in {"Invitation", "SelfInvitation"} THEN by ELSE Nobody
            asker   == IF kind = "SelfInvitation" THEN Self ELSE who
        IN /\ asking' = Append(asking,
                  [kind |-> kind, asker |-> asker, by |-> inviter, pending |-> TRUE])
           /\ TellEvent(Event(kind, asker, inviter, Nobody)) /\ UNCHANGED members

\* Another administrator answers a request.
RequestAnswered ==
    /\ \E i \in DOMAIN asking :
          asking[i].pending /\ asking' = [asking EXCEPT ![i].pending = FALSE]
    /\ UNCHANGED <<members, known, waiting, step, told, signals>>

-----------------------------------------------------------------------------
(* The account *)

NoLookup == [at |-> "Idle", event |-> NoEvent, record |-> 0]
NothingTold == [event |-> NoEvent, answered |-> FALSE, shape |-> <<>>,
                record |-> [kind |-> "None", asker |-> Nobody, by |-> Nobody]]

EventsInit ==
    /\ members \in SUBSET Uid /\ asking = <<>> /\ known = {} /\ waiting = <<>>
    /\ step = NoLookup /\ told = NothingTold /\ signals = 0

Record(i) ==
    IF i = 0 THEN NothingTold.record
    ELSE [kind |-> asking[i].kind, asker |-> asking[i].asker, by |-> asking[i].by]

Publishes(event, answered, i) ==
    told' = [event |-> event, answered |-> answered, shape |-> Shape(event), record |-> Record(i)]

GivesUp(event, answered) == told' = [NothingTold EXCEPT !.event = event, !.answered = answered]

\* `pop_event` and what is known without asking.  A message is registered
\* before it is published.
TakeEvent ==
    /\ step = NoLookup /\ waiting # <<>>
    /\ LET event == Head(waiting) IN
          /\ waiting' = Tail(waiting)
          /\ known' = IF event.kind = "Message" THEN known \union {event.message} ELSE known
          /\ IF NeedsMessage(event) /\ event.message \notin known
             THEN GivesUp(event, FALSE) /\ UNCHANGED step
             ELSE IF Asks(event) = "Nothing"
             THEN Publishes(event, FALSE, 0) /\ UNCHANGED step
             ELSE step' = [at |-> Asks(event), event |-> event, record |-> 0] /\ UNCHANGED told
    /\ UNCHANGED <<members, asking, signals>>

\* `group_members` answered: the members of this moment.
MembersAnswered ==
    /\ step.at = "Members"
    /\ IF Named(step.event, members) THEN Publishes(step.event, TRUE, 0)
                                     ELSE GivesUp(step.event, TRUE)
    /\ step' = NoLookup
    /\ UNCHANGED <<members, asking, known, waiting, signals>>

\* The list of requests answered; the accounts in the record are asked for next.
RequestsAnswered ==
    /\ step.at = "Requests"
    /\ IF NewestMatch(step.event) = 0
       THEN GivesUp(step.event, TRUE) /\ step' = NoLookup
       ELSE step' = [step EXCEPT !.at = "Subject", !.record = NewestMatch(step.event)]
            /\ UNCHANGED told
    /\ UNCHANGED <<members, asking, known, waiting, signals>>

\* `uid_uin` of the subject, then of an inviter who is somebody else.
SubjectAnswered ==
    /\ step.at = "Subject"
    /\ IF Record(step.record).kind = "Invitation"
          /\ Record(step.record).by # Record(step.record).asker
       THEN step' = [step EXCEPT !.at = "Inviter"] /\ UNCHANGED told
       ELSE step' = NoLookup /\ Publishes(step.event, TRUE, step.record)
    /\ UNCHANGED <<members, asking, known, waiting, signals>>

\* The inviter, the friend who recalled, or the download address is there.
LastAnswered ==
    /\ step.at \in {"Inviter", "Friends", "Url"}
    /\ step' = NoLookup /\ Publishes(step.event, TRUE, step.record)
    /\ UNCHANGED <<members, asking, known, waiting, signals>>

\* Broken variant: the event is tried again.
PutBackForRetry == <<step.event>> \o waiting

\* An exchange failed or its answer was refused: the event is given up.  The
\* members are the one list a notice may do without.
LeftBehind == waiting

LookupFails ==
    /\ step # NoLookup
    /\ IF step.event.kind \in Changes \union {"Ban", "Lift"} /\ Named(step.event, {})
       THEN Publishes(step.event, FALSE, 0) ELSE GivesUp(step.event, FALSE)
    /\ step' = NoLookup /\ waiting' = LeftBehind
    /\ UNCHANGED <<members, asking, known, signals>>

-----------------------------------------------------------------------------

World == MemberJoins \/ MemberLeaves \/ NoticeArrives \/ AboutMessage
         \/ RequestArrives \/ RequestAnswered
Lookups == MembersAnswered \/ RequestsAnswered \/ SubjectAnswered \/ LastAnswered \/ LookupFails

EventsNext == World \/ TakeEvent \/ Lookups

EventsSpec == EventsInit /\ [][EventsNext]_eventVars

\* The loop goes on, and every exchange of it has a time limit.
FairEventsSpec == EventsSpec /\ WF_eventVars(TakeEvent \/ Lookups)

-----------------------------------------------------------------------------
(* Properties *)

\* A request is announced with the flag of a request that is the one the push
\* spoke of, by the same asker and of the same kind, although the list is read
\* later than the push and may hold newer ones: whoever approves the flag
\* admits the account that was named (requests.rs:165).
FlagsNameTheirAsker ==
    told.event.kind \in Requests /\ told.shape # <<>> =>
        /\ told.record.kind = told.event.kind
        /\ told.record.asker = told.event.who /\ told.record.by = told.event.by

EventKinds ==
    (Changes \ {"UnknownChange"}) \union Requests
    \union {"FriendRequest", "Ban", "Lift", "Recall", "FriendRecall", "Reaction", "Essence",
            "Poke", "Name", "PrivateFile", "GroupFile"}

\* A OneBot client can tell what happened from the three types of a published
\* event: no two kinds of QQ event share a shape, but for the two ways to ask
\* to join; and an event of a kind QQ added later is not published as one of
\* the known (event.rs:348).
ClientsCanTell ==
    told.shape # <<>> =>
        /\ \A kind \in EventKinds \ {told.event.kind} :
              Shape(Event(kind, Self, Nobody, Nobody)) = told.shape =>
                  {kind, told.event.kind} = {"Join", "Invitation"}
        /\ told.event.kind = "UnknownChange" => told.shape = <<"notice", "error">>

\* What is announced names who it is about and can be told apart.
AnnouncementsAreSound == FlagsNameTheirAsker /\ ClientsCanTell

\* A lookup QQ refuses or does not answer costs one event, never the ones
\* behind it (runtime.rs:250).
EventsSettle == <>[](waiting = <<>> /\ step = NoLookup)

=============================================================================
