-------------------------- MODULE MessageRegistry --------------------------
(***************************************************************************)
(* The messages an account retains: the bounded table of                   *)
(* account-message-store/lib.rs, the identifiers that message_registry.rs  *)
(* gives to the messages of QQ, and what the bot is told about them.       *)
(*                                                                         *)
(* QQ is external.  A message lies in a conversation (a group or a friend) *)
(* and has a sequence; it is Correlated when QQ sent all that RecallTarget *)
(* needs, and has a quote key when others can reply to it.  It is          *)
(* Acceptable when the checks of its lookups and of its record pass: no    *)
(* field of its correlation is zero, its uid is well-formed, its sender    *)
(* has a number, its projection fits.  The decoder fills a random or a     *)
(* time that QQ leaves out with zero.  QQ delivers a message as often as   *)
(* it likes: after a reconnect, past the window of the decoder, or as part *)
(* of a history.                                                           *)
(***************************************************************************)
EXTENDS Integers, FiniteSets

CONSTANTS
  Messages,       \* the messages of QQ
  NoQuote,        \* no quote key
  ConversationOf, \* Messages -> the conversations
  IsGroup,        \* Messages -> BOOLEAN: the conversation is a group
  SequenceOf,     \* Messages -> Nat
  Correlated,     \* Messages -> BOOLEAN: no field for its recall is missing
  Acceptable,     \* Messages -> BOOLEAN: the lookups and the record accept it
  QuoteOf,        \* Messages -> the quote keys and NoQuote
  ReplyTo,        \* Messages -> the quote key a message replies to, or NoQuote
  OwnMessages,    \* the messages this account sends
  MaxMessages,    \* MAX_MESSAGES
  IdLimit,        \* 2^31 - 1
  MaxTime         \* bound on the clock

ASSUME RegistryAssumption ==
  /\ OwnMessages \subseteq Messages
  /\ SequenceOf \in [Messages -> Nat]
  /\ IsGroup \in [Messages -> BOOLEAN] /\ Correlated \in [Messages -> BOOLEAN]
  /\ Acceptable \in [Messages -> BOOLEAN]
  /\ MaxMessages \in Nat \ {0} /\ IdLimit \in Nat /\ MaxMessages < IdLimit
  /\ MaxTime \in Nat \ {0}

\* QQ numbers the messages of a group.
ASSUME GroupsAreNumbered ==
  \A m, n \in Messages :
    /\ IsGroup[m] /\ IsGroup[n] /\ ConversationOf[m] = ConversationOf[n]
    /\ SequenceOf[m] = SequenceOf[n]
    => m = n

VARIABLES
  registered,    \* the table: a function from message identifiers
  wallClock,     \* the wall clock
  accepted,      \* the own messages that QQ accepted
  replied,       \* history: the messages with those the bot was told they reply to
  sessionEnd     \* how the session ended, if it did

registryVars == <<registered, wallClock, accepted, replied, sessionEnd>>

Time == 1 .. MaxTime
Id == 1 .. IdLimit
Retained == DOMAIN registered

-----------------------------------------------------------------------------
(* Correlations.                                                           *)

\* What a row says of a message.  A group is matched without its random; a
\* private message by all its fields, the time among them.  Only a message
\* of one's own gets a row when a field is zero.
Target(message, localTime) ==
  IF ~Correlated[message] \/ ~Acceptable[message] THEN [kind |-> "Unavailable"]
  ELSE IF IsGroup[message]
       THEN [kind |-> "Group", conversation |-> ConversationOf[message],
             sequence |-> SequenceOf[message]]
       ELSE [kind |-> "Private", message |-> message, localTime |-> localTime]

Found(target) == {id \in Retained : registered[id].target = target}

\* find_quote
Quoted(key) == {id \in Retained : registered[id].quote = key}

Ambiguous(ids) == Cardinality(ids) > 1

\* preferred_id and next_id
Preferred(message) ==
  LET low == SequenceOf[message] % (IdLimit + 1) IN IF low = 0 THEN 1 ELSE low

\* The identifiers that lie between the preferred one and this one.
Probes(preferred, id) == (id - preferred) % IdLimit

\* Broken variant: the preferred identifier is taken as it is.
NextIdUnprobed(message) == Preferred(message)

NextId(message) ==
  CHOOSE id \in Id \ Retained :
    \A other \in Id \ Retained :
      Probes(Preferred(message), id) <= Probes(Preferred(message), other)

\* Broken variant: every delivery gets an identifier of its own.
InboundIdFresh(message) == NextId(message)

\* prepare_inbound: a message that is already retained keeps its identifier.
InboundId(message) ==
  LET found == Found(Target(message, FALSE))
  IN IF Correlated[message] /\ found # {} THEN CHOOSE id \in found : TRUE
     ELSE NextId(message)

-----------------------------------------------------------------------------
(* The store.                                                              *)

Newer(table, id, other) ==
  \/ table[id].at > table[other].at
  \/ table[id].at = table[other].at /\ id > other

\* prune: the newest rows stay.
Kept(table) ==
  {id \in DOMAIN table :
     Cardinality({other \in DOMAIN table : Newer(table, other, id)})
       < MaxMessages}

\* put: insert or replace one row and prune the oldest.
With(table, id, row) ==
  LET all == [i \in DOMAIN table \union {id} |->
                IF i = id THEN row ELSE table[i]]
  IN [i \in Kept(all) |-> all[i]]

InboundRow(message) ==
  [message |-> message, target |-> Target(message, FALSE),
   quote |-> QuoteOf[message], at |-> wallClock]

\* register_outbound: no quote, and the local time when QQ sends none.
OutboundRow(message, localTime) ==
  [message |-> message, target |-> Target(message, localTime),
   quote |-> NoQuote, at |-> wallClock]

-----------------------------------------------------------------------------
(* Replies.                                                                *)

\* same_conversation
SameConversation(id, message) ==
  /\ registered[id].target.kind # "Unavailable"
  /\ IsGroup[registered[id].message] = IsGroup[message]
  /\ ConversationOf[registered[id].message] = ConversationOf[message]

ReplyFails(message) ==
  ReplyTo[message] # NoQuote /\ Ambiguous(Quoted(ReplyTo[message]))

\* resolve_reply_ids: the identifier of the message replied to, or none.
ReplyIds(message) ==
  IF ReplyTo[message] = NoQuote THEN {}
  ELSE {id \in Quoted(ReplyTo[message]) : SameConversation(id, message)}

-----------------------------------------------------------------------------
RegistryInit ==
  /\ registered = [id \in {} |-> {}]
  /\ wallClock \in Time
  /\ accepted = {} /\ replied = {} /\ sessionEnd = "No"

\* A check that refuses a field or a lookup that is not unique ends the
\* publication, and with it the session: prepare_inbound (find_private checks
\* what private_inbound passes on), resolve_reply_ids, retain_inbound.
InboundFails(message) ==
  \/ ~Acceptable[message]
  \/ Correlated[message] /\ Ambiguous(Found(Target(message, FALSE)))
  \/ ReplyFails(message)

Exists(message) == message \in OwnMessages => message \in accepted

Tell(message) ==
  replied' =
    replied \union {<<message, registered[id].message>> : id \in ReplyIds(message)}

\* retain_decoded.  In publish_message its error ends the session; for a message
\* of a history that is retained it is the same step, and one that fails changes
\* nothing here but the answer to the bot.
Inbound(message) ==
  /\ sessionEnd = "No"
  /\ Exists(message)
  /\ IF InboundFails(message)
     THEN /\ sessionEnd' = IF ~Acceptable[message] THEN "Refused"
                           ELSE IF ReplyFails(message) THEN "Reply" ELSE "Lookup"
          /\ UNCHANGED <<registered, replied>>
     ELSE /\ registered' = With(registered, InboundId(message), InboundRow(message))
          /\ Tell(message)
          /\ UNCHANGED sessionEnd
  /\ UNCHANGED <<wallClock, accepted>>

\* send_segments: QQ takes the message; its answer may lack the time, and may
\* be lost, so that nothing is registered.
Send(message, localTime, lost) ==
  /\ sessionEnd = "No"
  /\ message \in OwnMessages \ accepted
  /\ accepted' = accepted \union {message}
  /\ IF lost THEN UNCHANGED registered
     ELSE registered' = With(registered, NextId(message),
                               OutboundRow(message, localTime))
  /\ UNCHANGED <<wallClock, replied, sessionEnd>>

\* recall_message: QQ accepted the recall of a retained message.
Recall(id) ==
  /\ sessionEnd = "No"
  /\ id \in Retained
  /\ registered[id].target.kind # "Unavailable"
  /\ registered' = [i \in Retained \ {id} |-> registered[i]]
  /\ UNCHANGED <<wallClock, accepted, replied, sessionEnd>>

\* The clock goes on, or is set back.
ClockTick(now) ==
  /\ wallClock' = now
  /\ UNCHANGED <<registered, accepted, replied, sessionEnd>>

\* The next login opens the database again.
Reopen ==
  /\ sessionEnd # "No"
  /\ sessionEnd' = "No"
  /\ registered' = [id \in Kept(registered) |-> registered[id]]
  /\ UNCHANGED <<wallClock, accepted, replied>>

RegistryNext ==
  \/ \E message \in Messages : Inbound(message)
  \/ \E message \in OwnMessages, localTime \in BOOLEAN, lost \in BOOLEAN :
       Send(message, localTime, lost)
  \/ \E id \in Retained : Recall(id)
  \/ \E now \in Time : ClockTick(now)
  \/ Reopen

RegistrySpec == RegistryInit /\ [][RegistryNext]_registryVars

-----------------------------------------------------------------------------
RegistryTypeOK ==
  /\ Retained \subseteq Id
  /\ Cardinality(Retained) <= MaxMessages
  /\ \A id \in Retained : registered[id].message \in Messages /\ registered[id].at \in Time
  /\ wallClock \in Time /\ accepted \subseteq OwnMessages
  /\ sessionEnd \in {"No", "Refused", "Reply", "Lookup"}

\* However often QQ delivers a message, and however a clock that was set back
\* prunes the table, no correlation is retained twice, so that a lookup by a
\* correlation whose fields are accepted finds one row or none and never ends
\* the session as ambiguous (find_group, find_private).
LookupsAreUnambiguous ==
  /\ \A id, other \in Retained :
       /\ registered[id].target = registered[other].target
       /\ registered[id].target.kind # "Unavailable"
       => id = other
  /\ sessionEnd # "Lookup"

\* An identifier names one message as long as that message is retained: a new
\* message takes neither its row nor its identifier, also when both prefer it.
IdsKeepTheirMeaning ==
  [][\A id \in Retained \intersect DOMAIN registered' :
       registered'[id].message = registered[id].message]_registryVars

\* A reply that the bot is told of points to a message of the same
\* conversation, although quote keys of different conversations may collide.
RepliesStayInConversation ==
  \A pair \in replied : ConversationOf[pair[1]] = ConversationOf[pair[2]]

\* "A reply that cannot be looked up uniquely is marked as unsupported"
\* (README.md:25): it does not end the session.
AmbiguousReplyIsUnsupported == sessionEnd # "Reply"

\* What a bot is told of, and what a lookup finds, is one message.
RegistryIsSound ==
  RegistryTypeOK /\ LookupsAreUnambiguous /\ RepliesStayInConversation
=============================================================================
