--------------------------- MODULE AccountActions ---------------------------
(***************************************************************************)
(* What an online account does for a bot: bins/lirvena/src/online/actions.rs *)
(* and the files of the single actions.  The online loop executes one      *)
(* request at a time, from its checks over exchanges with QQ, Ceylith, the *)
(* upload servers and the web to its effect, and keeps what it learnt:     *)
(* friends, retained messages, an upload session and web tickets.          *)
(*                                                                         *)
(* Each handler is a program: the sequence of its stages, of which every   *)
(* one can fail.  Contents are left out; the stages are those that decide  *)
(* what reaches QQ, in which order, and what the bot is answered.          *)
(* MessageRegistry is the table of messages in detail.                     *)
(***************************************************************************)
EXTENDS Integers, Sequences, SequencesExt

CONSTANTS
  Contents,     \* the messages a bot sends: sequences of parts
  PageLimit,    \* MAX_PAGES, MAX_LIST_PAGES, MAX_GENERATION_POLLS
  MaxRequests,  \* bound on the requests
  MaxKeys       \* bound on the skeys of the web

\* The parts of a message: Plain stands for those that are compiled here.
Part == {"Plain", "Mention", "Everyone", "Reply", "Image", "Record", "Video",
         "Other"}

ASSUME ActionAssumption ==
  /\ {PageLimit, MaxRequests, MaxKeys} \subseteq Nat \ {0}
  /\ Contents \subseteq Seq(Part)

VARIABLES
  request,   \* the request in progress
  todo,      \* the stages it has left
  answer,    \* what the bot is answered
  pages,     \* the pages that a loop has read
  friends,   \* OnlineRuntime.friends, as far as the peer is concerned
  rows,      \* MessageRegistry, by the kind of message
  session,   \* MediaRuntime.session is there and young enough
  skey,      \* TicketRuntime.skey, or 0
  clientKey, \* TicketRuntime.client_key is fresh
  ticket,    \* TicketRuntime.domain_tickets holds a fresh one
  token,     \* the skey behind the CSRF token of this request
  cookie,    \* the skey in its cookies
  missing,   \* the files that a message needs and QQ does not have yet
  due,       \* history: QQ has to act for this request
  effects,   \* history: what this request did at QQ
  lapsed,    \* history: the skey expired since the token was taken
  count      \* requests and skeys so far

flow == <<request, todo, answer, pages>>
caches == <<friends, rows, session, skey, clientKey, ticket>>
values == <<token, cookie, missing>>
history == <<due, effects, lapsed>>
actionVars == <<flow, caches, values, history, count>>

Own == {"OwnGroup", "OwnPrivate"}               \* retained by send_segments
RowKinds == {"Group", "Private", "Unavailable"} \union Own
Grouped == {"Group", "OwnGroup"}
Direct == {"Private", "OwnPrivate"}

-----------------------------------------------------------------------------
(* Stages.                                                                 *)

Bad == [step |-> "Check", answer |-> "BadParameters"]
Unsupported == [step |-> "Check", answer |-> "Unsupported"]
Fallible == [step |-> "Check", answer |-> "QqFailure"]

\* An exchange without effect, with QQ, with Ceylith or with the web, and a
\* loop of them.
Query == [step |-> "Query"]
Pages == [step |-> "Pages"]

\* An exchange that QQ acts upon (send_control, MessageSvc.PbSendMsg).
Control == [step |-> "Control"]

\* resolve_private_uid and friend_uid: they differ in the answer for a peer
\* who is no friend.
Friend(stranger) == [step |-> "Friend", answer |-> stranger]

\* A retained message of one of these kinds, or a wrong one.
Row(kinds, wrong) == [step |-> "Row", kinds |-> kinds, answer |-> wrong]

Do(step) == [step |-> step]

-----------------------------------------------------------------------------
(* Media (media.rs).                                                       *)

\* The reference, the object, its analysis and QQ's plan for its files.
Media(files) == <<Bad, Fallible, Bad, [step |-> "Plan", files |-> files]>>
UploadImage == Media(1)
UploadRecord == Media(1)
UploadVideo == Media(2)

UploadAvatar == <<Bad, Fallible, Bad, [step |-> "Publish"]>>

UploadImageUrl == UploadImage \o <<Query>>

\* group_files.rs and private_file.rs
GroupFile == <<Bad, Fallible, Bad, [step |-> "Plan", files |-> 1], Control>>
PrivateFile ==
  <<Bad, Friend("Unsupported"), Fallible, Bad,
    [step |-> "Plan", files |-> 1], Query, Control>>

-----------------------------------------------------------------------------
(* Messages (actions.rs, long_message.rs).                                 *)

\* resolve_reply_segments: an own message has no quote; one of another
\* conversation is refused (quote_scope_matches).
Quote(kind, group) ==
  <<Bad, Fallible,
    Row(IF group THEN {"Group"} ELSE {"Private"},
        IF kind \in Own THEN "QqFailure" ELSE "BadParameters"),
    Bad>>
QuoteStages(parts, kind, group) ==
  IF "Reply" \in ToSet(parts) THEN Quote(kind, group) ELSE <<>>

\* compile_segment; RefuseWith is an arm that only returns an error.
RefuseWith(answered) == [step |-> "Refuse", answer |-> answered]
Compiled(part, group, quotes) ==
  CASE part = "Plain" -> <<Bad>>
    [] part = "Image" -> <<Bad>> \o UploadImage
    [] part = "Record" -> <<Bad>> \o UploadRecord
    [] part = "Video" -> <<Bad>> \o UploadVideo
    [] part = "Mention" /\ group -> <<Bad, Fallible>>
    [] part = "Everyone" /\ group -> <<>>
    [] part = "Reply" -> IF quotes THEN <<>> ELSE <<Bad, RefuseWith("QqFailure")>>
    [] OTHER -> <<RefuseWith("Unsupported")>>

\* The segments that are left to compile.
Segments(parts, group, quotes) ==
  [step |-> "Segments", parts |-> parts, group |-> group, quotes |-> quotes]

\* compile_segments: the members of the group come before the first segment;
\* CompileNext takes the segments one by one.
Compile(parts, group, quotes) ==
  (CASE "Mention" \notin ToSet(parts) -> <<>>
     [] group -> <<Pages>>
     [] OTHER -> <<RefuseWith("Unsupported")>>)
  \o <<Segments(parts, group, quotes)>>

SendSegments(kind) ==
  <<Bad, Query, Control, [step |-> "Register", kind |-> kind]>>

SendGroupText(parts, kind) ==
  <<Unsupported, Bad>> \o QuoteStages(parts, kind, TRUE)
  \o Compile(parts, TRUE, TRUE) \o SendSegments("OwnGroup")

SendPrivateText(parts, kind) ==
  <<Bad, Friend("Unsupported"), Bad>> \o QuoteStages(parts, kind, FALSE)
  \o Compile(parts, FALSE, TRUE) \o SendSegments("OwnPrivate")

\* upload_forward: every node is compiled for the account itself, without
\* replies, and the bundle is uploaded.
UploadForward(parts) ==
  <<Bad>> \o Compile(parts, FALSE, FALSE) \o <<Bad, Query, Query>>

SendForward(parts, private) ==
  (IF private THEN <<Bad, Friend("Unsupported")>> ELSE <<Bad>>)
  \o UploadForward(parts)
  \o SendSegments(IF private THEN "OwnPrivate" ELSE "OwnGroup")

GetForward == <<Bad, Query, Query, Fallible>>

\* ai_voice.rs: the same request is repeated until the voice is ready.
Generate == <<Bad, Pages>>
SendAiRecord == Generate \o SendSegments("OwnGroup")

-----------------------------------------------------------------------------
(* Retained messages (message_recall.rs, read_report.rs, essence.rs,       *)
(* reaction.rs, history.rs).                                               *)

RecallMessage(kind) ==
  <<Bad, Row(Grouped \union Direct, "QqFailure")>>
  \o (IF kind \in Direct THEN <<Query>> ELSE <<>>)
  \o <<Control, [step |-> "Forget", kind |-> kind]>>

MarkRead == <<Bad, Row(Grouped \union Direct, "QqFailure"), Query, Control>>
Essence == <<Bad, Row(Grouped, "QqFailure"), Control>>

ReactGroup == <<Bad, Row(Grouped, "QqFailure"), Bad, Control>>
ReactMessage ==
  <<Bad, Row(Grouped \union Direct, "Unsupported"), Unsupported, Bad, Control>>
ReactFriend == <<Bad, Row(Direct, "QqFailure"), Bad, Control>>

GroupHistory ==
  <<Bad, Row(Grouped, "QqFailure"), Query, [step |-> "Register", kind |-> "Group"]>>
FriendHistory ==
  <<Bad, Friend("QqFailure"), Row(Direct, "QqFailure"), Query,
    [step |-> "Register", kind |-> "Private"]>>

-----------------------------------------------------------------------------
(* Friends, groups and requests (controls.rs, group_bot.rs, requests.rs).  *)

Poke == <<Bad, Control>>
Like == <<Bad, Friend("QqFailure"), Bad, Control>>
DeleteFriend == <<Bad, Friend("QqFailure"), Bad, Control, Do("Unfriend")>>

MemberControl == <<Bad, Pages, Bad, Control>>
GroupControl == <<Bad, Control>>
GroupLeave == <<Bad, Unsupported, Control>>
AnswerFriendRequest == <<Unsupported, Bad, Query, Fallible, Bad, Control>>

\* Every record of the list is looked up by its own exchange.
ListRequests == <<Query, Pages, Fallible>>

-----------------------------------------------------------------------------
(* Web actions (ticket.rs, group_notice.rs, group_honor.rs, music_ark.rs,  *)
(* essence.rs).                                                            *)

Token == [step |-> "Skey", of |-> "Token"]
Cookies == <<[step |-> "Skey", of |-> "Cookie"], Do("Ticket")>>
Web(signed) == [step |-> "Web", signed |-> signed, effect |-> FALSE]
WebControl == [step |-> "Web", signed |-> TRUE, effect |-> TRUE]

GetCookies == <<Bad>> \o Cookies
GetToken == <<Token>>
GetCredentials == <<Bad>> \o Cookies \o <<Token>>
GetNotices == <<Bad, Token>> \o Cookies \o <<Web(TRUE), Fallible>>
SendNotice ==
  <<Bad, Unsupported, Token>> \o Cookies \o <<WebControl, Fallible>>
DeleteNotice == <<Bad, Token>> \o Cookies \o <<WebControl>>
MusicArk == <<Bad>> \o Cookies \o <<Web(FALSE)>> \o Cookies \o <<Web(FALSE), Bad>>

\* One request for each kind of honor, or for each page: WebPages goes back
\* for new cookies, with the token it has.
Honors == <<Bad>> \o Cookies \o <<[step |-> "WebPages", signed |-> FALSE]>>
EssenceList ==
  <<Bad, Token>> \o Cookies \o <<[step |-> "WebPages", signed |-> TRUE], Fallible>>

-----------------------------------------------------------------------------
(* Lists and single answers (directory.rs, user_profile.rs, face_asset.rs, *)
(* ai_voice.rs, image.rs).                                                 *)

FetchGroups == <<Query>>
GroupInfo == <<Bad>> \o FetchGroups \o <<Fallible>>
FetchGroupMembers == <<Pages>>
GroupMembers == <<Bad>> \o FetchGroupMembers \o <<Fallible>>
GroupFileList == <<Bad, Pages>>
GroupFileUrl == <<Bad, Query>>
GroupFileChange == <<Bad, Control>>
PrivateFileUrl == <<Bad, Friend("Unsupported"), Bad, Query>>
StrangerInfo == <<Bad, Query>>
CustomFaces == <<Fallible, Query>>
MarketFaceKeys == <<Bad, Query>>
Characters == <<Bad, Query>>
AiRecordUrl == Generate \o <<Query>>
Rkeys == <<Query>>
Ocr == UploadImageUrl \o <<Query>>

-----------------------------------------------------------------------------
(* execute_account_action: a table of programs for each family of actions. *)
(* Synonyms (group_poke, .ocr_image, ...) have one name.                   *)

Simple ==
  [get_status |-> <<>>, can_send_image |-> <<>>, set_restart |-> <<Fallible>>,
   clean_cache |-> <<Do("Clear")>>, get_friend_list |-> <<Do("FriendList")>>,
   get_group_list |-> FetchGroups, get_group_info |-> GroupInfo,
   get_group_member_list |-> GroupMembers, get_stranger_info |-> StrangerInfo,
   get_group_requests |-> ListRequests, get_forward_msg |-> GetForward,
   get_group_root_files |-> GroupFileList, get_group_file_url |-> GroupFileUrl,
   get_private_file_url |-> PrivateFileUrl, fetch_custom_face |-> CustomFaces,
   fetch_mface_key |-> MarketFaceKeys, get_ai_characters |-> Characters,
   get_ai_record |-> AiRecordUrl, get_rkey |-> Rkeys,
   send_group_ai_record |-> SendAiRecord,
   unknown |-> <<RefuseWith("ActionNotFound")>>]

Uploads ==
  [upload_image |-> UploadImageUrl, ocr_image |-> Ocr,
   set_qq_avatar |-> UploadAvatar, upload_group_file |-> GroupFile,
   upload_private_file |-> PrivateFile]

Controls ==
  [send_poke |-> Poke, send_like |-> Like, delete_friend |-> DeleteFriend,
   set_group_kick |-> MemberControl, set_group_name |-> GroupControl,
   set_group_leave |-> GroupLeave, set_group_bot_status |-> GroupControl,
   set_friend_add_request |-> AnswerFriendRequest,
   delete_group_file |-> GroupFileChange]

WebActions ==
  [get_cookies |-> GetCookies, get_csrf_token |-> GetToken,
   get_credentials |-> GetCredentials, get_group_notice |-> GetNotices,
   send_group_notice |-> SendNotice, del_group_notice |-> DeleteNotice,
   get_music_ark |-> MusicArk, get_group_honor_info |-> Honors,
   get_essence_msg_list |-> EssenceList]

\* Actions that name a retained message, by its kind.
RetainedActions(kind) ==
  [get_msg |-> <<Bad, Row(RowKinds, "QqFailure")>>, delete_msg |-> RecallMessage(kind),
   mark_msg_as_read |-> MarkRead, set_essence_msg |-> Essence,
   set_group_reaction |-> ReactGroup, set_msg_emoji_like |-> ReactMessage,
   join_friend_emoji_chain |-> ReactFriend,
   get_group_msg_history |-> GroupHistory,
   get_friend_msg_history |-> FriendHistory]

\* Actions that send a message, by its parts and the message it replies to.
Sends(parts, kind) ==
  [send_group_msg |-> SendGroupText(parts, kind),
   send_private_msg |-> SendPrivateText(parts, kind),
   send_forward_msg |-> UploadForward(parts),
   send_group_forward_msg |-> SendForward(parts, FALSE),
   send_private_forward_msg |-> SendForward(parts, TRUE)]

-----------------------------------------------------------------------------
\* A request that asks nothing stands before the first one.
NoAction == [action |-> "get_status", kind |-> "Group", parts |-> <<>>]

ActionsInit ==
  /\ request = NoAction /\ todo = <<>> /\ answer = "Ok" /\ pages = 0
  /\ friends = FALSE /\ rows = {"Group", "Private", "Unavailable"}
  /\ session = FALSE /\ skey = 0 /\ clientKey = FALSE /\ ticket = FALSE
  /\ token = 0 /\ cookie = 0 /\ missing = 0
  /\ due = FALSE /\ effects = 0 /\ lapsed = FALSE
  /\ count = [requests |-> 0, keys |-> 0]

Idle == answer # "None"

\* Stages that QQ acts upon.
Acts(stage) ==
  \/ stage.step \in {"Control", "Publish"}
  \/ stage.step = "Web" /\ stage.effect

Receive(asked, program) ==
  /\ count' = [count EXCEPT !.requests = @ + 1]
  /\ request' = asked /\ todo' = program /\ answer' = "None" /\ pages' = 0
  /\ token' = 0 /\ cookie' = 0 /\ missing' = 0
  /\ due' = \E i \in DOMAIN program : Acts(program[i])
  /\ effects' = 0 /\ lapsed' = FALSE
  /\ UNCHANGED <<caches>>

ReceiveOf(programs, kind, parts) ==
  \E action \in DOMAIN programs :
    Receive([action |-> action, kind |-> kind, parts |-> parts], programs[action])

\* The kind of the message replied to matters for messages with a reply.
ReceiveAny ==
  /\ Idle /\ count.requests < MaxRequests
  /\ \/ \E programs \in {Simple, Uploads, Controls, WebActions} :
          ReceiveOf(programs, "Group", <<>>)
     \/ \E kind \in RowKinds : \E programs \in {RetainedActions(kind)} :
          ReceiveOf(programs, kind, <<>>)
     \/ \E parts \in Contents, kind \in {"Group", "Private", "OwnGroup"} :
          /\ kind = "Group" \/ "Reply" \in ToSet(parts)
          /\ \E programs \in {Sends(parts, kind)} : ReceiveOf(programs, kind, parts)

\* PendingAccountAction::complete
Finish ==
  /\ ~Idle /\ todo = <<>>
  /\ answer' = "Ok"
  /\ UNCHANGED <<request, todo, pages, caches, values, history, count>>

At(step) == ~Idle /\ todo # <<>> /\ Head(todo).step = step
Stage == Head(todo)

Proceed == todo' = Tail(todo) /\ UNCHANGED <<request, answer, pages>>
LeaveLoop == todo' = Tail(todo) /\ pages' = 0 /\ UNCHANGED <<request, answer>>
Reject(why) ==
  todo' = <<>> /\ answer' = why /\ pages' = 0 /\ UNCHANGED request
Again == pages' = pages + 1 /\ UNCHANGED <<request, todo, answer>>

Check(ok) ==
  /\ At("Check")
  /\ IF ok THEN Proceed ELSE Reject(Stage.answer)
  /\ UNCHANGED <<caches, values, history, count>>

Refuse ==
  /\ At("Refuse")
  /\ Reject(Stage.answer)
  /\ UNCHANGED <<caches, values, history, count>>

Exchange(ok) ==
  /\ At("Query")
  /\ IF ok THEN Proceed ELSE Reject("QqFailure")
  /\ UNCHANGED <<caches, values, history, count>>

\* The loop of compile_segments: the stages of the next segment, if any.
CompileNext ==
  /\ At("Segments")
  /\ todo' = IF Stage.parts = <<>> THEN Tail(todo)
             ELSE Compiled(Head(Stage.parts), Stage.group, Stage.quotes)
                  \o <<Segments(Tail(Stage.parts), Stage.group, Stage.quotes)>>
                  \o Tail(todo)
  /\ UNCHANGED <<request, answer, pages, caches, values, history, count>>

\* The pages of a loop are bounded, whatever QQ answers.
LastPage == pages + 1 = PageLimit

\* A page fails, is the last one, or names another one.
Page(ok, more) ==
  /\ At("Pages")
  /\ IF ~ok \/ (more /\ LastPage) THEN Reject("QqFailure")
     ELSE IF more THEN Again ELSE LeaveLoop
  /\ UNCHANGED <<caches, values, history, count>>

-----------------------------------------------------------------------------
(* Friends.                                                                *)

UseFriend ==
  /\ At("Friend") /\ friends
  /\ Proceed
  /\ UNCHANGED <<caches, values, history, count>>

\* refresh_friends: only a complete list replaces the old one.
RefreshFriends(ok, more, found) ==
  /\ At("FriendList") \/ (At("Friend") /\ ~friends)
  /\ IF ~ok \/ (more /\ LastPage)
     THEN Reject("QqFailure") /\ UNCHANGED friends
     ELSE IF more THEN Again /\ UNCHANGED friends
     ELSE /\ friends' = found
          /\ IF At("Friend") /\ ~found THEN Reject(Stage.answer) ELSE LeaveLoop
  /\ UNCHANGED <<rows, session, skey, clientKey, ticket, values, history,
                 count>>

Unfriend ==
  /\ At("Unfriend") \/ At("Clear")
  /\ friends' = FALSE
  /\ Proceed
  /\ UNCHANGED <<rows, session, skey, clientKey, ticket, values, history,
                 count>>

-----------------------------------------------------------------------------
(* Retained messages.                                                      *)

LookUp ==
  /\ At("Row")
  /\ IF request.kind \notin rows THEN Reject("QqFailure")
     ELSE IF request.kind \in Stage.kinds THEN Proceed
     ELSE Reject(Stage.answer)
  /\ UNCHANGED <<caches, values, history, count>>

Register(ok) ==
  /\ At("Register")
  /\ IF ok THEN Proceed /\ rows' = rows \union {Stage.kind}
     ELSE Reject("QqFailure") /\ UNCHANGED rows
  /\ UNCHANGED <<friends, session, skey, clientKey, ticket, values, history,
                 count>>

Forget(ok) ==
  /\ At("Forget")
  /\ IF ok THEN Proceed /\ rows' = rows \ {Stage.kind}
     ELSE Reject("QqFailure") /\ UNCHANGED rows
  /\ UNCHANGED <<friends, session, skey, clientKey, ticket, values, history,
                 count>>

-----------------------------------------------------------------------------
(* Effects at QQ.                                                          *)

\* An effect whose answer is lost, late or unreadable is reported as a failure.
Lost == Reject("QqFailure")

\* QQ acts and answers, acts and its answer is lost, or does not act.
Act(outcome) ==
  /\ At("Control")
  /\ effects' = IF outcome = "Refused" THEN effects ELSE effects + 1
  /\ CASE outcome = "Done" -> Proceed
       [] outcome = "Lost" -> Lost
       [] OTHER -> Reject("QqFailure")
  /\ UNCHANGED <<caches, values, due, lapsed, count>>

-----------------------------------------------------------------------------
(* Uploads.                                                                *)

\* QQ plans the uploads of the files it does not have.
PlanUploads(ok, files) ==
  /\ At("Plan")
  /\ files <= Stage.files
  /\ IF ok
     THEN /\ todo' = [i \in 1 .. files |-> Do("Upload")] \o Tail(todo)
          /\ missing' = missing + files
          /\ UNCHANGED <<request, answer, pages>>
     ELSE Reject("QqFailure") /\ UNCHANGED missing
  /\ UNCHANGED <<caches, token, cookie, history, count>>

\* ensure_session: one that is younger than its lifetime is used again.
OpenSession(ok) ==
  /\ At("Upload") \/ At("Publish")
  /\ ~session
  /\ IF ok THEN session' = TRUE /\ UNCHANGED flow
     ELSE Reject("QqFailure") /\ UNCHANGED session
  /\ UNCHANGED <<friends, rows, skey, clientKey, ticket, values, history,
                 count>>

\* Broken variant: the file is tried again with another session.
UploadFailedRetried == session' = FALSE /\ UNCHANGED flow

\* upload_bytes: the session goes with the first error, and so does the request.
UploadFailed == session' = FALSE /\ Reject("QqFailure")

\* Broken variant: a failed upload does not stop the message.
TransferOn(ok) ==
  /\ At("Upload") \/ At("Publish")
  /\ session
  /\ Proceed
  /\ missing' = IF ok /\ At("Upload") THEN missing - 1 ELSE missing
  /\ session' = ok
  /\ effects' = IF ok /\ At("Publish") THEN effects + 1 ELSE effects
  /\ UNCHANGED <<friends, rows, skey, clientKey, ticket, token, cookie,
                 due, lapsed, count>>

\* The file of an avatar is the effect itself.
Transfer(ok) ==
  /\ At("Upload") \/ At("Publish")
  /\ session
  /\ IF ok THEN Proceed /\ UNCHANGED session ELSE UploadFailed
  /\ missing' = IF ok /\ At("Upload") THEN missing - 1 ELSE missing
  /\ effects' = IF ok /\ At("Publish") THEN effects + 1 ELSE effects
  /\ UNCHANGED <<friends, rows, skey, clientKey, ticket, token, cookie,
                 due, lapsed, count>>

-----------------------------------------------------------------------------
(* Web tickets.                                                            *)

UseSkey(key) ==
  /\ token' = IF Stage.of = "Token" THEN key ELSE token
  /\ cookie' = IF Stage.of = "Cookie" THEN key ELSE cookie
  /\ Proceed

CachedSkey ==
  /\ At("Skey") /\ skey # 0
  /\ UseSkey(skey)
  /\ UNCHANGED <<caches, missing, history, count>>

\* With a client key, an old or a new one, the jump sets a new cookie or leaves
\* that of an earlier jump in the jar; it is kept for a day.
FetchSkey(ok, key, keyKept) ==
  /\ At("Skey") /\ skey = 0
  /\ clientKey' = (clientKey \/ keyKept)
  /\ IF ok
     THEN /\ key \in {count.keys, count.keys + 1} \intersect 1 .. MaxKeys
          /\ skey' = key
          /\ count' = [count EXCEPT !.keys = key]
          /\ UseSkey(key)
     ELSE Reject("QqFailure") /\ UNCHANGED <<skey, token, cookie, count>>
  /\ UNCHANGED <<friends, rows, session, ticket, missing, history>>

DomainTicket(ok) ==
  /\ At("Ticket")
  /\ IF ok \/ ticket THEN Proceed /\ ticket' = TRUE
     ELSE Reject("QqFailure") /\ UNCHANGED ticket
  /\ UNCHANGED <<friends, rows, session, skey, clientKey, values, history,
                 count>>

Request(outcome) ==
  /\ At("Web")
  /\ effects' = IF Stage.effect /\ outcome # "Refused" THEN effects + 1 ELSE effects
  /\ IF outcome = "Done" THEN Proceed ELSE Reject("QqFailure")
  /\ UNCHANGED <<caches, values, due, lapsed, count>>

WebPage(ok, more) ==
  /\ At("WebPages")
  /\ CASE ~ok \/ (more /\ LastPage /\ Stage.signed) -> Reject("QqFailure")
       [] ok /\ more /\ ~LastPage ->
            /\ todo' = Cookies \o todo
            /\ pages' = pages + 1
            /\ UNCHANGED <<request, answer>>
       [] OTHER -> LeaveLoop
  /\ UNCHANGED <<caches, values, history, count>>

\* Time passes: what is cached expires, also in the middle of a request.
Expire ==
  /\ \/ skey # 0 /\ skey' = 0 /\ lapsed' = (lapsed \/ token # 0)
        /\ UNCHANGED <<session, clientKey, ticket>>
     \/ clientKey /\ clientKey' = FALSE
        /\ UNCHANGED <<session, skey, ticket, lapsed>>
     \/ ticket /\ ticket' = FALSE
        /\ UNCHANGED <<session, skey, clientKey, lapsed>>
     \/ session /\ session' = FALSE /\ ~At("Upload") /\ ~At("Publish")
        /\ UNCHANGED <<skey, clientKey, ticket, lapsed>>
  /\ UNCHANGED <<flow, friends, rows, values, due, effects, count>>

-----------------------------------------------------------------------------
Work ==
  \/ Finish \/ Refuse \/ CompileNext \/ UseFriend \/ Unfriend \/ LookUp
  \/ CachedSkey
  \/ \E ok \in BOOLEAN :
       \/ Check(ok) \/ Exchange(ok) \/ Register(ok) \/ Forget(ok)
       \/ OpenSession(ok) \/ Transfer(ok) \/ DomainTicket(ok)
       \/ \E files \in 0 .. 2 : PlanUploads(ok, files)
       \/ \E more \in BOOLEAN :
            \/ Page(ok, more) \/ WebPage(ok, more)
            \/ \E found \in BOOLEAN : RefreshFriends(ok, more, found)
       \/ \E key \in 1 .. MaxKeys, keyKept \in BOOLEAN :
            FetchSkey(ok, key, keyKept)
  \/ \E outcome \in {"Done", "Lost", "Refused"} : Act(outcome) \/ Request(outcome)

ActionsNext ==
  \/ Work
  \/ ReceiveAny
  \/ Expire

ActionsSpec == ActionsInit /\ [][ActionsNext]_actionVars

\* Every exchange, upload and web request has a timeout.
FairActionsSpec == ActionsSpec /\ WF_actionVars(Work)

-----------------------------------------------------------------------------
ActionsTypeOK ==
  /\ answer \in {"None", "Ok", "BadParameters", "QqFailure", "Unsupported",
                "ActionNotFound"}
  /\ pages \in 0 .. PageLimit - 1
  /\ {friends, session, clientKey, ticket, lapsed} \subseteq BOOLEAN
  /\ rows \subseteq RowKinds
  /\ {skey, token, cookie} \subseteq 0 .. MaxKeys
  /\ missing \in 0 .. 4 /\ effects \in Nat

\* A request that is answered as malformed, unsupported or unknown did nothing
\* at QQ: a bot may correct it and send it again.
RejectionsAreClean ==
  answer \in {"BadParameters", "Unsupported", "ActionNotFound"} => effects = 0

\* Whatever is lost on the way, a request acts at most once, and one that is
\* answered with success has acted.
ActsOnce ==
  /\ effects <= 1
  /\ answer = "Ok" /\ due => effects = 1

\* A message or a file is only announced when QQ has all its files.
FilesBeforeMessage == effects > 0 => missing = 0

\* The CSRF token and the cookies of a web request come from one skey, although
\* they are looked up separately and pages may lie between them, unless the
\* skey expired after the token was taken.
TokenMatchesCookie ==
  (At("Web") \/ At("WebPages")) /\ Stage.signed => token = cookie \/ lapsed

\* What QQ, its web services and a bot see of the requests.
ActionsAreSound ==
  /\ ActionsTypeOK
  /\ RejectionsAreClean /\ ActsOnce /\ FilesBeforeMessage /\ TokenMatchesCookie

\* Every request is answered, whatever QQ, Ceylith and the web do: no loop over
\* pages, polls or uploads goes on for ever.
AnswersCome == []<>(answer # "None")
=============================================================================
