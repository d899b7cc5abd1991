----------------------------- MODULE PushEvents -----------------------------
(***************************************************************************)
(* What an account makes of one QQ push: the processor of qq-online         *)
(* (`PushProcessor::apply`) by the behaviour of its route, then the chain   *)
(* of decoders of qq-message in `admit_message`, and the queue of decoded   *)
(* events until they are published.                                         *)
(*                                                                          *)
(* An envelope is its type numbers (class, sub type, and the discriminating *)
(* number inside the content), the shape of its content and of its rich     *)
(* text, whether the remaining fields agree, and its size.                  *)
(***************************************************************************)
EXTENDS Integers, Sequences, FiniteSets, FiniteSetsExt, SequencesExt

CONSTANTS MaxQueued,     \* MAX_QUEUED_MESSAGES
          MaxBytes,      \* MAX_QUEUED_MESSAGE_BYTES
          MaxRecalls,    \* MAX_RECALLS: recalled messages in one notice
          MaxBatch,      \* bound: messages embedded in one InfoSync push
          Longest        \* bound: the length of a message

VARIABLES queued,       \* PushRuntime.events: the sizes of the decoded events
          queuedBytes,  \* queued_message_bytes
          pushStage,    \* "Handle" pushes, "Publish" the queue, or "Over"
          lastPush      \* history: what the last message was and became

pushVars == <<queued, queuedBytes, pushStage, lastPush>>

ASSUME PushAssumption ==
    {MaxQueued, MaxBytes, MaxRecalls, MaxBatch, Longest} \subseteq Nat \ {0}

-----------------------------------------------------------------------------
(* The decoders: each answers "None" for what is not its kind, "Err" for    *)
(* what is but contradicts itself.                                          *)

Sound(e) == e.shape = "Whole" /\ e.sound
Decoded(kind, ok) == IF ok THEN kind ELSE "Err"

PrivateFileNotice(e) == IF e.class # 529 THEN "None" ELSE Decoded("PrivateFile", Sound(e))

FriendRequest(e) ==
    IF e.class = 528 /\ e.sub = 35 THEN Decoded("FriendRequest", Sound(e)) ELSE "None"

\* A join (84), an invitation (525, command 87 inside) or one for this account (87).
GroupRequest(e) ==
    IF e.class \notin {84, 525, 87} THEN "None"
    ELSE Decoded("GroupRequest", Sound(e) /\ (e.class = 525 => e.kind = 87))

GroupNotice(e) ==
    IF e.class \in {44, 33, 34} THEN Decoded("GroupNotice", Sound(e)) ELSE "None"

\* Sub type 16 carries many kinds: what does not parse is left to others.
GroupReaction(e) ==
    IF e.class = 732 /\ e.sub = 16 /\ e.shape = "Whole" /\ e.kind = 35
    THEN Decoded("GroupReaction", e.sound) ELSE "None"

GroupNameChange(e) ==
    IF e.class = 732 /\ e.sub = 16 /\ e.shape = "Whole" /\ e.kind = 12
    THEN Decoded("GroupNameChange", e.sound) ELSE "None"

\* Any business type but 12 is an error, not somebody else's.
PokeNotice(e) ==
    IF <<e.class, e.sub>> \in {<<732, 20>>, <<528, 290>>}
    THEN Decoded("Poke", Sound(e) /\ e.kind = 12) ELSE "None"

\* Sub type 21: framing that fails is an error, a kind other than 27 is not.
GroupEssence(e) ==
    IF e.class = 732 /\ e.sub = 21 /\ ~(e.shape = "Whole" /\ e.kind # 27)
    THEN Decoded("GroupEssence", Sound(e)) ELSE "None"

GroupMute(e) ==
    IF e.class = 732 /\ e.sub = 12 THEN Decoded("GroupMute", Sound(e)) ELSE "None"

GroupRecalls(e) ==
    IF e.class = 732 /\ e.sub = 17
    THEN Decoded("GroupRecall", Sound(e) /\ e.recalls \in 1 .. MaxRecalls) ELSE "None"

FriendRecall(e) ==
    IF e.class = 528 /\ e.sub = 138 THEN Decoded("FriendRecall", Sound(e)) ELSE "None"

\* Everything nobody claimed is a message; only its rich text can be refused.
MessageOf(e) == Decoded("Message", e.rich # "Garbled")

\* The order of `admit_message`.
Decoders(e) ==
    <<PrivateFileNotice(e), FriendRequest(e), GroupRequest(e), GroupNotice(e), GroupReaction(e),
      GroupNameChange(e), PokeNotice(e), GroupEssence(e), GroupMute(e), GroupRecalls(e),
      FriendRecall(e)>>

Claims(e) == {i \in DOMAIN Decoders(e) : Decoders(e)[i] # "None"}

Outcome(e) == IF Claims(e) = {} THEN MessageOf(e) ELSE Decoders(e)[Min(Claims(e))]

\* `encoded_envelope_len`; the push that carried it is longer.
EncodedLen(e) == e.size
BodyLen(e) == EncodedLen(e) + 1

-----------------------------------------------------------------------------
(* The queue *)

Slots == Max({0, MaxQueued - Len(queued)})
Room  == Max({0, MaxBytes - queuedBytes})

Admission(q, b, ok, seen) == [events |-> q, bytes |-> b, ok |-> ok, last |-> seen]

SeenAs(e, outcome) == [type |-> <<e.class, e.sub, e.kind>>, claims |-> Cardinality(Claims(e)),
                       sound |-> e.sound /\ e.shape = "Whole" /\ e.rich # "Garbled",
                       outcome |-> outcome]

\* A notice of several recalls is one event for each, of the whole length.
RecallsFit(e, q, b) ==
    /\ e.recalls <= Max({0, MaxQueued - Len(q)})
    /\ EncodedLen(e) * e.recalls <= Max({0, MaxBytes - b})

Repeated(e) == [i \in 1 .. e.recalls |-> EncodedLen(e)]

\* Broken variant: the recalls of one notice are counted as one message.
RecallBytesOnce(e) == EncodedLen(e)

\* Bytes the recalls of one notice are counted as.
RecallBytes(e) == EncodedLen(e) * e.recalls

\* `admit_message`: only recalls look at the room that is left.
Admit(e, a) ==
    LET outcome == Outcome(e) IN
    IF outcome = "Err" \/ (outcome = "GroupRecall" /\ ~RecallsFit(e, a.events, a.bytes))
    THEN Admission(a.events, a.bytes, FALSE, SeenAs(e, IF outcome = "Err" THEN "Err" ELSE "Full"))
    ELSE IF outcome = "GroupRecall"
    THEN Admission(a.events \o Repeated(e), a.bytes + RecallBytes(e), TRUE, SeenAs(e, outcome))
    ELSE Admission(Append(a.events, EncodedLen(e)), a.bytes + EncodedLen(e), TRUE, SeenAs(e, outcome))

\* The messages of a batch in their order; the first refused one is the last.
AdmitAll(batch) ==
    LET admitted[n \in 0 .. Len(batch)] ==
            IF n = 0 THEN Admission(queued, queuedBytes, TRUE, lastPush)
            ELSE IF admitted[n - 1].ok THEN Admit(batch[n], admitted[n - 1])
            ELSE admitted[n - 1]
    IN  admitted[Len(batch)]

-----------------------------------------------------------------------------

NotSeen == [type |-> <<0, 0, 0>>, claims |-> 0, sound |-> TRUE, outcome |-> "None"]

PushInit == queued = <<>> /\ queuedBytes = 0 /\ pushStage = "Handle" /\ lastPush = NotSeen

Rejected == pushStage' = "Over" /\ UNCHANGED <<queued, queuedBytes, lastPush>>

Admitted(result) ==
    /\ queued' = result.events /\ queuedBytes' = result.bytes /\ lastPush' = result.last
    /\ pushStage' = IF result.ok THEN "Handle" ELSE "Over"

\* Behaviour Message: room for one event and for the body is asked for.
MessagePush(e) ==
    /\ pushStage = "Handle"
    /\ IF Slots # 0 /\ BodyLen(e) <= Room THEN Admitted(AdmitAll(<<e>>)) ELSE Rejected

\* Behaviour InfoSyncState: room for as many events as there are messages
\* in it, and for their bytes.
BatchFits(batch) ==
    /\ Len(batch) <= Slots
    /\ FoldLeft(LAMBDA n, e : n + BodyLen(e), 0, batch) <= Room

InfoSyncPush(batch) ==
    /\ pushStage = "Handle"
    /\ IF BatchFits(batch) THEN Admitted(AdmitAll(batch)) ELSE Rejected

\* The other behaviours acknowledge or only look: EchoBody, ProtobufPairAck,
\* ConfigAck, LegacyVideoAck, Observe.  A body over the limit of its route, one
\* their codec refuses, or an acknowledgement that cannot be sent ends the
\* session, and so does ProtectiveOffline in any case.
ControlPush(behavior, accepted) ==
    /\ pushStage = "Handle"
    /\ behavior = "Observe" => accepted
    /\ IF accepted /\ behavior # "ProtectiveOffline"
       THEN UNCHANGED pushVars ELSE Rejected

\* All pushes at hand are handled before the queue is published.
StartPublish ==
    /\ pushStage = "Handle" /\ queued # <<>>
    /\ pushStage' = "Publish"
    /\ UNCHANGED <<queued, queuedBytes, lastPush>>

\* `pop_event` counts back what was counted in.
Publish ==
    /\ pushStage = "Publish" /\ queued # <<>>
    /\ queued' = Tail(queued)
    /\ queuedBytes' = Max({0, queuedBytes - Head(queued)})
    /\ pushStage' = IF Len(queued) = 1 THEN "Handle" ELSE pushStage
    /\ UNCHANGED lastPush

-----------------------------------------------------------------------------
(* Envelopes QQ may send: every type the code knows, with neighbours it does *)
(* not, in every shape that matters to a decoder.                           *)

Shapes == {"Absent", "Unframed", "Whole"}

Chats == [class : {82, 166, 999}, sub : {0}, kind : {0}, shape : {"Whole"}, sound : {TRUE},
          recalls : {0}, rich : {"Sound", "Garbled"}, size : 1 .. Longest]
OwnTypes == [class : {529, 84, 525, 87, 44, 33, 34}, sub : {0}, kind : {0, 87}, shape : Shapes,
             sound : BOOLEAN, recalls : {0}, rich : {"Absent"}, size : {1}]
FriendEvents == [class : {528}, sub : {35, 138, 290, 0}, kind : {0, 12}, shape : Shapes,
                 sound : BOOLEAN, recalls : {0}, rich : {"Absent"}, size : {1}]
GroupEvents == [class : {732}, sub : {12, 16, 20, 21, 0}, kind : {0, 12, 27, 35}, shape : Shapes,
                sound : BOOLEAN, recalls : {0}, rich : {"Absent"}, size : {1}]
Recalls == [class : {732}, sub : {17}, kind : {0}, shape : Shapes, sound : BOOLEAN,
            recalls : 0 .. MaxRecalls + 1, rich : {"Absent"}, size : 1 .. Longest]

Envelopes == Chats \union OwnTypes \union FriendEvents \union GroupEvents \union Recalls

\* What a synchronization push carries after the absence of the account: a
\* message without content, one that is refused, and recalls.
Missed(class, sub, recalls, rich, size) ==
    [class |-> class, sub |-> sub, kind |-> 0, shape |-> "Whole", sound |-> TRUE,
     recalls |-> recalls, rich |-> rich, size |-> size]

AbsenceMessages == {Missed(82, 0, 0, "Sound", 0), Missed(82, 0, 0, "Garbled", 1)}
                   \union {Missed(732, 17, n, "Absent", 1) : n \in 1 .. MaxRecalls}

Behaviors == {"EchoBody", "ProtobufPairAck", "ConfigAck", "LegacyVideoAck", "Observe",
              "ProtectiveOffline"}

PushNext ==
    \/ \E e \in Envelopes : MessagePush(e)
    \/ \E n \in 0 .. MaxBatch : \E batch \in [1 .. n -> AbsenceMessages] : InfoSyncPush(batch)
    \/ \E behavior \in Behaviors, accepted \in BOOLEAN : ControlPush(behavior, accepted)
    \/ StartPublish \/ Publish

PushSpec == PushInit /\ [][PushNext]_pushVars

-----------------------------------------------------------------------------
(* Properties *)

\* The kind of event a type stands for: the reference the decoders are
\* compared with.
KindOfType ==
    [t \in {<<c, s, k>> : c \in {82, 166, 999, 529, 84, 525, 87, 44, 33, 34, 528, 732},
                          s \in {0, 12, 16, 17, 20, 21, 35, 138, 290}, k \in {0, 12, 27, 35, 87}} |->
     CASE t[1] = 529 -> "PrivateFile"
       [] t[1] \in {84, 87} \/ (t[1] = 525 /\ t[3] = 87) -> "GroupRequest"
       [] t[1] \in {44, 33, 34} -> "GroupNotice"
       [] t[1] = 528 /\ t[2] = 35 -> "FriendRequest"
       [] t[1] = 528 /\ t[2] = 138 -> "FriendRecall"
       [] t[1] = 528 /\ t[2] = 290 /\ t[3] = 12 -> "Poke"
       [] t[1] = 732 /\ t[2] = 12 -> "GroupMute"
       [] t[1] = 732 /\ t[2] = 16 /\ t[3] = 35 -> "GroupReaction"
       [] t[1] = 732 /\ t[2] = 16 /\ t[3] = 12 -> "GroupNameChange"
       [] t[1] = 732 /\ t[2] = 17 -> "GroupRecall"
       [] t[1] = 732 /\ t[2] = 20 /\ t[3] = 12 -> "Poke"
       [] t[1] = 732 /\ t[2] = 21 /\ t[3] = 27 -> "GroupEssence"
       [] OTHER -> "Message"]

\* Types the code has no event for and refuses all the same: a grey tip of
\* another business type, an invitation of another command.
RefusedType(t) ==
    \/ <<t[1], t[2]>> \in {<<732, 20>>, <<528, 290>>} /\ t[3] # 12
    \/ t[1] = 525 /\ t[3] # 87

\* Eleven decoders, two sub types shared by several of them, and a chain in
\* which the first error ends the session of the account: still no push is
\* claimed by two decoders, so that their order does not matter, and a sound
\* push becomes the event its type stands for, or a message if QQ adds a type
\* the code does not know (push.rs:217).  Recalls too many for the queue or
\* for a notice are the exception.
DecodersAgree ==
    /\ lastPush.claims <= 1
    /\ lastPush.sound /\ ~RefusedType(lastPush.type) /\ lastPush # NotSeen =>
           \/ lastPush.outcome = KindOfType[lastPush.type]
           \/ KindOfType[lastPush.type] = "GroupRecall" /\ lastPush.outcome \in {"Full", "Err"}

QueueBytes(queue) ==
    LET upTo[n \in 0 .. Len(queue)] == IF n = 0 THEN 0 ELSE upTo[n - 1] + queue[n]
    IN  upTo[Len(queue)]

\* What is counted in for the limit is counted out again, over notices that
\* become several events and sessions of any length (push.rs:158, 186), and
\* the queue never holds more than what one batch may add to a full one.
QueueIsCounted ==
    /\ queuedBytes = QueueBytes(queued)
    /\ Len(queued) < 2 * MaxQueued

\* A push becomes one event, and the queue of events is what it is counted as.
PushesAreSound == DecodersAgree /\ QueueIsCounted
=============================================================================
