--------------------------- MODULE MessageSegments ---------------------------
(***************************************************************************)
(* What becomes of a message a bot writes: its OneBot segments are compiled *)
(* to QQ elements, and whoever reads the message (another account, the      *)
(* message history, a merged forward) has its elements decoded to OneBot    *)
(* segments again.  A bot may then send on what it has read.                *)
(*                                                                         *)
(* A OneBot segment is its type, its content and a number (a face, a        *)
(* service, a strength).  A QQ element is the set of its parts, of which    *)
(* Lirvena fills exactly one; a part is its slot in the element, a service  *)
(* and business type for the common slot, and its content.                  *)
(***************************************************************************)
EXTENDS Naturals, Sequences, SequencesExt

CONSTANTS MaxSegments,  \* segments of one message, MAX_SEGMENTS and MAX_ELEMENTS
          MaxHops       \* times a message is sent on (bound of the model)

ASSUME SegmentAssumption == MaxSegments \in Nat \ {0} /\ MaxHops \in Nat

VARIABLES
    target,  \* where the message goes: "Private", "Group" or a forward's "Node"
    written, \* the OneBot segments of the message
    wire,    \* the QQ elements it was compiled to
    echo,    \* what get_msg tells the account that sent it
    seen,    \* the OneBot segments its reader gets
    former,  \* what was read before it was sent on
    hops,    \* how often it was sent on
    phase

segmentVars == <<target, written, wire, echo, seen, former, hops, phase>>

Places == {"Private", "Group", "Node"}
Phases == {"Writing", "Sent", "Read", "Refused", "Lost"}

Segment(kind, v, id) == [kind |-> kind, v |-> v, id |-> id]
Part(slot, service, business, v, id) ==
    [slot |-> slot, service |-> service, business |-> business, v |-> v, id |-> id]

(* Contents: a JSON body is any card, QQ's map card or QQ's card of a merged *)
(* forward, an XML body may name a forward too; a file of the caller is not  *)
(* the name QQ gives it; a mention names everyone, a number or a uid.  Words *)
(* may hold a NUL.  Large is what takes its element over 256 KiB or the body *)
(* over 1 MiB: a long JSON or XML body, or media for which QQ's answer to    *)
(* the upload, which is passed on unread, is long or not as a reader needs.  *)
Media  == {"image", "record", "video"}
Bodies == {"card", "map", "bundle", "large"}

(* What a bot may write, the numbers on both sides of every case. *)
Words ==
    { Segment("text", "words", 0), Segment("text", "", 0), Segment("text", "nul", 0),
      Segment("dice", "", 0), Segment("rps", "", 0),
      Segment("markdown", "words", 0), Segment("keyboard", "rows", 0),
      Segment("location", "map", 0), Segment("mface", "sticker", 0),
      Segment("forward", "bundle", 0) }

Figures ==
    { Segment("at", who, 0) : who \in {"all", "member", "uid"} }
    \cup { Segment("face", "", id) : id \in {259, 260, 358} }
    \cup { Segment(kind, "file", 0) : kind \in Media }
    \cup { Segment(kind, "large", 0) : kind \in Media }

Drafts ==
    Words \cup Figures
    \cup { Segment("json", body, 0) : body \in Bodies }
    \cup { Segment("xml", body, id) : body \in Bodies \ {"map"}, id \in {0, 1, 34, 35} }
    \cup { Segment("poke", kind, 1) : kind \in {"none", "shake"} }
    \cup { Segment("reply", message, 0) : message \in {"here", "elsewhere"} }

(* compile_segment takes the types it knows: a mention needs a member of the *)
(* group, a reply a retained message of this conversation, and media a       *)
(* reference that can be resolved.  The nodes of a forward are compiled as   *)
(* messages to the account itself, with no reply to look up.                 *)
Compilable(segment, where) ==
    CASE segment.kind = "at"    -> where = "Group" /\ segment.v \in {"all", "member"}
      [] segment.kind = "reply" -> where # "Node" /\ segment.v = "here"
      [] segment.kind \in Media -> segment.v \in {"file", "large"}
      [] OTHER -> segment.kind \in {"text", "face", "dice", "rps", "markdown",
                                    "keyboard", "location", "mface", "json",
                                    "xml", "poke"}

(* A dice or a rock-paper-scissors is compiled to the animated face it is.   *)
Resolved(segment) ==
    CASE segment.kind = "dice" -> Segment("animated", "", 358)
      [] segment.kind = "rps"  -> Segment("animated", "", 359)
      [] OTHER -> segment

(* compile_elements refuses an empty text, a poke or a service of number 0.  *)
(* It takes a text with a NUL, media metadata and bodies of up to 1 MiB.     *)
Encodable(segment) ==
    /\ segment.kind = "text" => segment.v # ""
    /\ segment.kind = "poke" => segment.v # "none"
    /\ segment.kind = "xml" => segment.id > 0

MentionPart(who) == Part("text", 0, 0, who, IF who = "all" THEN 1 ELSE 2)

FacePart(id) ==
    IF id < 260 THEN Part("face", 0, 0, "", id) ELSE Part("common", 33, 1, "", id)

AnimatedFacePart(id) == Part("common", 37, 1, "", id)

(* Rich media is a common element of service 48 whose business type tells    *)
(* its kind and whether it was uploaded for a group.                         *)
MediaBusiness(kind, where) ==
    (IF where = "Group" THEN 20 ELSE 10)
        + (CASE kind = "image" -> 0 [] kind = "video" -> 1 [] kind = "record" -> 2)

MediaPart(kind, where, file) ==
    Part("common", 48, MediaBusiness(kind, where),
         IF file = "large" THEN "large" ELSE "uuid", 0)

(* A picture or video for which QQ returned compatibility material goes out  *)
(* twice, in its old slot and in the common one.                             *)
ImageElements(file, where, compatible) ==
    (IF compatible
     THEN << {Part(IF where = "Group" THEN "group_image" ELSE "direct_image",
                   0, 0, "uuid", 0)} >>
     ELSE <<>>)
        \o << {MediaPart("image", where, file)} >>

VideoElements(file, where, compatible) ==
    (IF compatible THEN << {Part("video", 0, 0, "uuid", 0)} >> ELSE <<>>)
        \o << {MediaPart("video", where, file)} >>

LightApp(body) == Part("light_app", 0, 0, body, 0)

(* A reply in a group also mentions the author of the message it quotes, by  *)
(* uid alone.                                                                *)
ReplyElements(where) ==
    << {Part("source", 0, 0, "here", 0)} >>
        \o (IF where = "Group" THEN << {MentionPart("uid")} >> ELSE <<>>)

(* The elements of one segment; QQ's upload answer decides whether media has *)
(* compatibility material.                                                   *)
Compiled(segment, where, compatible) ==
    CASE segment.kind = "text"     -> << {Part("text", 0, 0, segment.v, 0)} >>
      [] segment.kind = "at"       -> << {MentionPart(segment.v)} >>
      [] segment.kind = "face"     -> << {FacePart(segment.id)} >>
      [] segment.kind = "animated" -> << {AnimatedFacePart(segment.id)} >>
      [] segment.kind = "markdown" -> << {Part("common", 45, 1, segment.v, 0)} >>
      [] segment.kind = "keyboard" -> << {Part("common", 46, 1, segment.v, 0)} >>
      [] segment.kind = "mface"    -> << {Part("market_face", 0, 0, segment.v, 0)} >>
      [] segment.kind = "image"    -> ImageElements(segment.v, where, compatible)
      [] segment.kind = "record"   -> << {MediaPart("record", where, segment.v)} >>
      [] segment.kind = "video"    -> VideoElements(segment.v, where, compatible)
      [] segment.kind \in {"json", "location", "forward"} -> << {LightApp(segment.v)} >>
      [] segment.kind = "xml"      -> << {Part("rich_message", 0, 0, segment.v, segment.id)} >>
      [] segment.kind = "poke"     -> << {Part("common", 2, 1, segment.v, segment.id)} >>
      [] segment.kind = "reply"    -> ReplyElements(where)

Elements(segments, where, compatible) ==
    FlattenSeq([i \in DOMAIN segments |->
                   Compiled(Resolved(segments[i]), where, compatible)])
-----------------------------------------------------------------------------
(* Decoding.  A part either has no projection, or makes the whole message    *)
(* malformed, or is one segment.                                             *)
Nothing   == Segment("nothing", "", 0)
Malformed == Segment("malformed", "", 0)

(* A text with a NUL is malformed.  One whose extra data is a mention (type 1 *)
(* or 2) mentions everyone, an account by number or a user by uid; any other  *)
(* is words.                                                                  *)
TextSegment(part) ==
    CASE part.v = "nul" -> Malformed
      [] part.v # "nul" /\ part.id \in {1, 2} ->
            Segment("at", IF part.id = 1 THEN "all" ELSE part.v, 0)
      [] OTHER -> Segment("text", part.v, 0)

(* An animated face is told from a standard one only if it is a dice or a    *)
(* rock-paper-scissors.                                                      *)
AnimatedFace(id) ==
    CASE id = 358 -> Segment("dice", "", 0)
      [] id = 359 -> Segment("rps", "", 0)
      [] OTHER    -> Segment("face", "", id)

MediaSegment(part) ==
    CASE part.business \in {10, 20} -> Segment("image", part.v, 0)
      [] part.business \in {11, 21} -> Segment("video", part.v, 0)
      [] part.business \in {12, 22} -> Segment("record", part.v, 0)
      [] OTHER -> Nothing

(* A poke of kind 0 is malformed. *)
PokeSegment(part) ==
    IF part.v = "none" THEN Malformed ELSE Segment("poke", part.v, part.id)

\* Broken variant: every face of the common slot is a standard one.
CommonSegmentOneFace(part) ==
    CASE part.service \in {33, 37} -> Segment("face", "", part.id)
      [] part.service = 48 -> MediaSegment(part)
      [] part.service = 45 /\ part.business = 1 -> Segment("markdown", part.v, 0)
      [] part.service = 2  -> PokeSegment(part)
      [] OTHER -> Nothing

CommonSegment(part) ==
    CASE part.service = 33 -> Segment("face", "", part.id)
      [] part.service = 37 -> AnimatedFace(part.id)
      [] part.service = 48 -> MediaSegment(part)
      [] part.service = 45 /\ part.business = 1 -> Segment("markdown", part.v, 0)
      [] part.service = 2  -> PokeSegment(part)
      [] OTHER -> Nothing

(* Rich messages of service 1 are JSON, those of 35 XML or, when they carry  *)
(* a resource, a merged forward.                                             *)
RichSegment(part) ==
    CASE part.id = 1 -> Segment("json", part.v, 0)
      [] part.id = 35 /\ part.v = "bundle" -> Segment("forward", "bundle", 0)
      [] part.id = 35 /\ part.v # "bundle" -> Segment("xml", part.v, 35)
      [] OTHER -> Nothing

(* A light application is a location, a merged forward or plain JSON. *)
LightSegment(part) ==
    CASE part.v = "map"    -> Segment("location", "map", 0)
      [] part.v = "bundle" -> Segment("forward", "bundle", 0)
      [] OTHER             -> Segment("json", part.v, 0)

(* A quoted message without its uid is malformed. *)
SourceSegment(part) ==
    IF part.v = "no uid" THEN Malformed ELSE Segment("reply", part.v, 0)

Projection(part) ==
    CASE part.slot = "text"         -> TextSegment(part)
      [] part.slot = "face"         -> Segment("face", "", part.id)
      [] part.slot = "market_face"  -> Segment("mface", part.v, 0)
      [] part.slot = "common"       -> CommonSegment(part)
      [] part.slot \in {"direct_image", "group_image"} -> Segment("image", part.v, 0)
      [] part.slot = "video"        -> Segment("video", part.v, 0)
      [] part.slot = "rich_message" -> RichSegment(part)
      [] part.slot = "light_app"    -> LightSegment(part)
      [] part.slot = "source"       -> SourceSegment(part)

Unsupported == Segment("lirvena_unsupported", "", 0)

(* An element is the one segment its parts project to; none or several are   *)
(* shown as unsupported.                                                     *)
Decoded(element) ==
    LET found == { Projection(part) : part \in element } \ {Nothing}
        parts == { part \in element : Projection(part) # Nothing }
    IN  CASE Malformed \in found -> Malformed
          [] \E part \in parts : parts = {part} -> CHOOSE s \in found : TRUE
          [] OTHER -> Unsupported

(* An element longer than a reader takes.                                    *)
Oversized(element) == \E part \in element : part.v = "large"

(* A reply is shown with the number of the message it quotes, if the reader's *)
(* registry knows that message; the nodes of a forward have no such number.   *)
Shown(segment, linked) ==
    IF segment.kind = "reply" /\ ~linked THEN Unsupported ELSE segment

(* What get_msg tells the sender of a compiled segment. *)
Echoed(segment) ==
    IF segment.kind = "animated" THEN AnimatedFace(segment.id) ELSE segment
-----------------------------------------------------------------------------
(* Elements other clients of QQ send: two filled slots, a small face in the  *)
(* common slot, animated faces, mentions by uid alone, JSON in a rich        *)
(* message, a body that is too long, and parts that are malformed.           *)
Foreign ==
    { {Part("text", 0, 0, "words", 0), Part("face", 0, 0, "", 5)},
      {Part("text", 0, 0, "words", 0), Part("common", 46, 1, "rows", 0)},
      {Part("common", 33, 1, "", 5)}, {Part("common", 37, 1, "", 300)},
      {Part("common", 37, 1, "", 358)}, {Part("common", 48, 13, "uuid", 0)},
      {Part("text", 0, 0, "member", 2)}, {Part("text", 0, 0, "uid", 2)},
      {Part("rich_message", 0, 0, "card", 1)}, {Part("rich_message", 0, 0, "map", 1)},
      {Part("light_app", 0, 0, "large", 0)}, {Part("text", 0, 0, "nul", 0)},
      {Part("common", 2, 1, "none", 0)}, {Part("source", 0, 0, "no uid", 0)}, {} }

SegmentsInit ==
    /\ target \in Places
    /\ written = <<>> /\ wire = <<>> /\ echo = <<>> /\ seen = <<>> /\ former = <<>>
    /\ hops = 0 /\ phase = "Writing"

(* The bot adds a segment. *)
Write(segment) ==
    /\ phase = "Writing" /\ hops = 0 /\ Len(written) < MaxSegments
    /\ written' = Append(written, segment)
    /\ UNCHANGED <<target, wire, echo, seen, former, hops, phase>>

Sendable(segments, where) ==
    /\ Len(segments) \in 1 .. MaxSegments
    /\ \A i \in DOMAIN segments :
          Compilable(segments[i], where) /\ Encodable(segments[i])

(* The account compiles and sends it, or uploads it as a node of a forward. *)
Send(compatible) ==
    /\ phase = "Writing" /\ Sendable(written, target)
    /\ wire' = Elements(written, target, compatible)
    /\ echo' = [i \in DOMAIN written |-> Echoed(Resolved(written[i]))]
    /\ phase' = "Sent"
    /\ UNCHANGED <<target, written, seen, former, hops>>

Refuse ==
    /\ phase = "Writing" /\ written # <<>> /\ ~Sendable(written, target)
    /\ phase' = "Refused"
    /\ UNCHANGED <<target, written, wire, echo, seen, former, hops>>

(* The resource of an uploaded forward is posted as its card. *)
PostCard(where) ==
    LET card == Segment("forward", "bundle", 0)
    IN  /\ phase = "Sent" /\ target = "Node"
        /\ target' = where
        /\ written' = <<card>> /\ echo' = <<Echoed(card)>>
        /\ wire' = Compiled(card, where, FALSE)
        /\ former' = <<>>
        /\ UNCHANGED <<seen, hops, phase>>

(* Another client of QQ sends a message of one element. *)
ForeignMessage(element) ==
    /\ phase = "Writing" /\ written = <<>>
    /\ wire' = <<element>> /\ phase' = "Sent"
    /\ UNCHANGED <<target, written, echo, seen, former, hops>>

(* The message is read: decoded as a whole or not at all, and not if it is   *)
(* too long.                                                                 *)
Read(linked) ==
    /\ phase = "Sent"
    /\ target = "Node" => ~linked
    /\ LET decoded == [i \in DOMAIN wire |-> Decoded(wire[i])]
       IN  IF (\E i \in DOMAIN wire : Oversized(wire[i])) \/ Malformed \in Range(decoded)
           THEN phase' = "Lost" /\ UNCHANGED seen
           ELSE /\ phase' = "Read"
                /\ seen' = [i \in DOMAIN decoded |-> Shown(decoded[i], linked)]
    /\ UNCHANGED <<target, written, wire, echo, former, hops>>

(* A bot that has read the message sends what it was shown. *)
SendOn ==
    /\ phase = "Read" /\ hops < MaxHops
    /\ written' = seen /\ former' = seen
    /\ hops' = hops + 1 /\ phase' = "Writing"
    /\ wire' = <<>> /\ echo' = <<>> /\ seen' = <<>>
    /\ UNCHANGED target

SegmentsNext ==
    \/ \E segment \in Drafts : Write(segment)
    \/ \E compatible \in BOOLEAN : Send(compatible)
    \/ Refuse
    \/ \E where \in {"Private", "Group"} : PostCard(where)
    \/ \E element \in Foreign : ForeignMessage(element)
    \/ \E linked \in BOOLEAN : Read(linked)
    \/ SendOn

SegmentsSpec == SegmentsInit /\ [][SegmentsNext]_segmentVars
-----------------------------------------------------------------------------
(* The segments that are read as they were written.  The others are: a       *)
(* keyboard, and XML of another service than 35, which no reader can be      *)
(* shown; JSON and XML that are one of QQ's own cards, shown as what they    *)
(* stand for; and a reply, whose reader may not know the message it quotes   *)
(* and who, in a group, is shown a mention of its author as well.            *)
Plain(segment) ==
    CASE segment.kind = "keyboard" -> FALSE
      [] segment.kind = "xml"      -> segment.id = 35 /\ segment.v = "card"
      [] segment.kind = "json"     -> segment.v = "card"
      [] segment.kind = "reply"    -> FALSE
      [] OTHER -> TRUE

(* Media changes its name on the way, and a picture or video for which QQ    *)
(* keeps compatibility material is read twice in a row.                      *)
SameSegment(a, b) == a.kind = b.kind /\ (a.kind \in Media \/ a = b)

ReadsAs(content, read) ==
    \E f \in [DOMAIN read -> DOMAIN content] :
        /\ Range(f) = DOMAIN content
        /\ \A i, j \in DOMAIN read : i < j => f[i] <= f[j]
        /\ \A i \in DOMAIN read : SameSegment(content[f[i]], read[i])
        /\ \A i, j \in DOMAIN read :
              i # j /\ f[i] = f[j] => read[i].kind \in {"image", "video"}

(* What get_msg tells the sender of a message is what its readers are shown,  *)
(* segment by segment and in order.                                          *)
ReadsAsWritten ==
    phase = "Read" /\ written # <<>> /\ (\A i \in DOMAIN written : Plain(written[i]))
        => ReadsAs(echo, seen)

(* The encoder accepts what its own decoder refuses: words with a NUL, and   *)
(* elements of more than 256 KiB, or bodies of more than 1 MiB.              *)
Readable(segment) ==
    /\ segment.v # "large"
    /\ segment.kind = "text" => segment.v # "nul"

(* A message that Lirvena's own encoder accepted fails to decode for no other *)
(* reason: what a bot writes without those two can be read, whatever the      *)
(* kinds and however they are combined.                                       *)
AcceptedIsReadable ==
    phase = "Lost" => written = <<>> \/ \E i \in DOMAIN written : ~Readable(written[i])

(* What a bot was shown, sent on and accepted, is shown again as it was, but *)
(* for a card of QQ that came as rich JSON, which changes to what it stands  *)
(* for, and a reply to a message the new reader does not know.               *)
SentOnUnchanged ==
    phase = "Read" /\ hops > 0 /\ former # <<>>
        /\ (\A i \in DOMAIN former : former[i].kind = "json" => former[i].v = "card")
        => /\ Len(seen) = Len(former)
           /\ \A i \in DOMAIN seen :
                 \/ seen[i] = former[i]
                 \/ former[i].kind = "reply" /\ seen[i] = Unsupported

(* Messages survive the way from bot to bot. *)
MessagesSurvive == ReadsAsWritten /\ AcceptedIsReadable /\ SentOnUnchanged
=============================================================================
