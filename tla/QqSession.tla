----------------------------- MODULE QqSession -----------------------------
(***************************************************************************)
(* One authenticated session with QQ as the online loop sees it: a         *)
(* connection whose frames come in parts, exchanges with interleaved       *)
(* pushes, the queue of pushes, the queue of decoded events and their      *)
(* publication (qq-session/runtime.rs, qq-transport/tcp.rs,                *)
(* bins/lirvena/src/online/{push,runtime,notices}.rs).                     *)
(*                                                                         *)
(* QQ is external: it sends pushes when it likes and answers a request     *)
(* once, in time, late or never.  A message is a number, and a push is a   *)
(* route with the messages in it; the schedule is OnlineSession.           *)
(***************************************************************************)
EXTENDS Integers, Sequences, SequencesExt

CONSTANTS
  QueueLimit,       \* MAX_QUEUED_PUSHES
  ReadLimit,        \* MAX_INTERLEAVED_PUSHES
  EventLimit,       \* MAX_QUEUED_MESSAGES
  DedupLimit,       \* MAX_DEDUP_ENTRIES
  MaxMessages,      \* bound on the messages of QQ
  MaxPushes,        \* bound on the pushes of QQ
  MaxExchanges      \* bound on the exchanges

ASSUME SessionAssumption ==
  /\ {QueueLimit, EventLimit, DedupLimit} \subseteq Nat \ {0}
  /\ {ReadLimit, MaxMessages, MaxPushes, MaxExchanges} \subseteq Nat

VARIABLES
  incoming,   \* the parts of frames that QQ sent
  buffer,     \* the parts of a frame that were read (read_prefix, read_frame)
  unanswered, \* the requests that QQ may still answer
  pushes,     \* AuthenticatedSession.pushes
  events,     \* PushRuntime.events
  loopStage,  \* where the loop is
  then,       \* where it goes when all events are published
  exchange,   \* the exchange in progress
  exchanges,  \* the exchanges so far
  sent,       \* the pushes and messages that QQ sent
  arrived,    \* history: the messages of admitted pushes, with their way in
  admitted,   \* history: the messages that were new, in order
  done,       \* history: the events that were published or given up
  answered    \* history: the requests with the answer they took

network == <<incoming, buffer, unanswered, sent>>
queues == <<pushes, events>>
loop == <<loopStage, then, exchange, exchanges>>
sessionHistory == <<arrived, admitted, done, answered>>
sessionVars == <<network, queues, loop, sessionHistory>>

(* A notice needs an exchange before it is published; a Failing push is a  *)
(* message push with a return code; a Control push is acknowledged, is     *)
(* observed or asks the session to end.                                    *)
Messages == {"Message", "Notice", "Batch", "Failing"}
Route == Messages \union {"Control", "Unknown", "Answer"}
Admitted(frame) == frame.route \notin {"Unknown", "Answer"}

QqFrame(route, content) == [route |-> route, content |-> content]
Halves(frame) == <<[frame |-> frame, part |-> 1], [frame |-> frame, part |-> 2]>>

Caller == {"Resolve", "Action", "Heartbeat"}
NoExchange == [caller |-> "None", request |-> 0, reads |-> 0]

Over == loopStage = "Over"
SessionInit ==
  /\ incoming = <<>> /\ buffer = <<>> /\ unanswered = {}
  /\ pushes = <<>> /\ events = <<>>
  /\ loopStage = "Drain" /\ then = "Select" /\ exchange = NoExchange
  /\ exchanges = 0 /\ sent = [pushes |-> 0, messages |-> 0]
  /\ arrived = <<>> /\ admitted = <<>> /\ done = <<>> /\ answered = {}

-----------------------------------------------------------------------------
(* QQ.  A frame that the client did not begin to read could as well be sent *)
(* later, so at most one is on its way besides the one that is being read. *)

OnItsWay == Len(incoming) <= 1

\* A push with new messages, or with an old one that is sent again.
SendPush(route, again) ==
  LET fresh == CASE route = "Batch" -> 2
                 [] route \in Messages /\ again = 0 -> 1
                 [] OTHER -> 0
      content == IF again = 0 THEN [i \in 1 .. fresh |-> sent.messages + i]
                 ELSE <<again>>
  IN /\ ~Over /\ OnItsWay
     /\ sent.pushes < MaxPushes
     /\ sent.messages + fresh <= MaxMessages
     /\ again # 0 => route = "Message"
     /\ sent' = [pushes |-> sent.pushes + 1,
                 messages |-> sent.messages + fresh]
     /\ incoming' = incoming \o Halves(QqFrame(route, content))
     /\ UNCHANGED <<buffer, unanswered, queues, loop, sessionHistory>>

SendAnswer(request) ==
  /\ ~Over /\ OnItsWay
  /\ request \in unanswered
  /\ unanswered' = unanswered \ {request}
  /\ incoming' = incoming \o Halves(QqFrame("Answer", <<request>>))
  /\ UNCHANGED <<buffer, sent, queues, loop, sessionHistory>>

-----------------------------------------------------------------------------
(* The transport: read_frame keeps what it has when its future is dropped. *)

\* One part of a frame that is not complete yet.
ReadPart ==
  /\ loopStage \in {"Select", "Exchange"}
  /\ incoming # <<>> /\ buffer = <<>>
  /\ buffer' = <<Head(incoming)>>
  /\ incoming' = Tail(incoming)
  /\ UNCHANGED <<unanswered, sent, queues, loop, sessionHistory>>

FrameRead == Len(buffer \o incoming) >= 2
Inbound == (buffer \o incoming)[1].frame
TakeFrame ==
  /\ FrameRead
  /\ buffer' = <<>>
  /\ incoming' = SubSeq(buffer \o incoming, 3, Len(buffer \o incoming))
  /\ UNCHANGED <<unanswered, sent>>

\* Another branch of the select! wins.
DropRead == UNCHANGED <<incoming, buffer>>

(* The way of a frame's messages into the session. *)
Arrive(frame, way) ==
  arrived' = arrived \o [i \in DOMAIN frame.content |->
                           [message |-> frame.content[i], way |-> way]]

-----------------------------------------------------------------------------
(* PushRuntime::handle. *)

\* MessageDecoder: a first-in first-out window of keys.
Seen ==
  {admitted[i] : i \in {j \in DOMAIN admitted :
                          j > Len(admitted) - DedupLimit}}

\* The processor rejects what the queue of events cannot hold.
Fits(push) ==
  push.route \in Messages => Len(events) + Len(push.content) <= EventLimit

\* The messages of a push that are new, in their order.
NewAt(push) == {i \in DOMAIN push.content : push.content[i] \notin Seen}
New(push) ==
  LET Place(i) == Cardinality({j \in NewAt(push) : j <= i})
  IN [n \in 1 .. Cardinality(NewAt(push)) |->
        push.content[CHOOSE i \in NewAt(push) : Place(i) = n]]

\* ProtectiveOffline ends the session, as does an acknowledgement that cannot
\* be sent.
Handle(push, ends, next) ==
  IF ~Fits(push) \/ (push.route = "Control" /\ ends)
  THEN loopStage' = "Over" /\ UNCHANGED <<events, admitted>>
  ELSE /\ loopStage' = next
       /\ admitted' = admitted \o New(push)
       /\ events' = events \o [i \in DOMAIN New(push) |->
            [message |-> New(push)[i], resolve |-> push.route = "Notice"]]

-----------------------------------------------------------------------------
(* Exchanges. *)

StartExchange(caller) ==
  /\ exchanges' = exchanges + 1
  /\ unanswered' = unanswered \union {exchanges + 1}
  /\ exchange' = [caller |-> caller, request |-> exchanges + 1, reads |-> 0]
  /\ loopStage' = "Exchange"
  /\ UNCHANGED <<sent, pushes, events, then, sessionHistory>>

\* What the callers make of an exchange.  The errors of actions and of
\* resolutions do not end the session.
Completed(ok) ==
  /\ exchange' = NoExchange
  /\ loopStage' = CASE exchange.caller = "Resolve" -> "Publish"
                [] exchange.caller = "Action" -> "Drain"
                [] OTHER -> IF ok THEN "Drain" ELSE "Over"
  /\ IF exchange.caller = "Resolve"
     THEN /\ events' = Tail(events)
          /\ done' = Append(done, [message |-> Head(events).message,
                                   published |-> ok])
     ELSE UNCHANGED <<events, done>>
  /\ UNCHANGED <<then, exchanges>>

\* The answer of this very exchange.
IsAnswer(frame) ==
  frame.route = "Answer" /\ frame.content[1] = exchange.request

TakeAnswer(accepted) ==
  /\ loopStage = "Exchange"
  /\ TakeFrame
  /\ IsAnswer(Inbound)
  /\ answered' = answered \union
       {[request |-> exchange.request, answer |-> Inbound.content[1]]}
  /\ Completed(accepted)
  /\ UNCHANGED <<pushes, arrived, admitted>>

\* Broken variant: a full queue makes room by forgetting its oldest push.
PutAsideOverwriting(push) ==
  /\ pushes' = Append(IF Len(pushes) < QueueLimit THEN pushes
                      ELSE Tail(pushes), push)
  /\ Arrive(push, "Queued")

\* enqueue: a push that finds the queue full is gone.
PutAside(push) ==
  IF Len(pushes) < QueueLimit
  THEN pushes' = Append(pushes, push) /\ Arrive(push, "Queued")
  ELSE UNCHANGED pushes /\ Arrive(push, "Dropped")

\* A push in the path of the response: the exchange goes on reading unless the
\* queue was full or this was the last read it may do.
Interrupt ==
  /\ loopStage = "Exchange"
  /\ TakeFrame
  /\ ~IsAnswer(Inbound) /\ Admitted(Inbound)
  /\ PutAside(Inbound)
  /\ IF Len(pushes) < QueueLimit /\ exchange.reads < ReadLimit
     THEN /\ exchange' = [exchange EXCEPT !.reads = @ + 1]
          /\ UNCHANGED <<loopStage, then, exchanges, events, done>>
     ELSE Completed(FALSE)
  /\ UNCHANGED <<admitted, answered>>

\* An answer to an exchange that gave up, or an unknown route.
RejectFrame ==
  /\ loopStage = "Exchange"
  /\ TakeFrame
  /\ ~IsAnswer(Inbound) /\ ~Admitted(Inbound)
  /\ Completed(FALSE)
  /\ UNCHANGED <<pushes, arrived, admitted, answered>>

\* A read or a write takes too long or meets the end of the stream.
ExchangeFails ==
  /\ loopStage = "Exchange"
  /\ Completed(FALSE)
  /\ UNCHANGED <<network, pushes, arrived, admitted, answered>>

-----------------------------------------------------------------------------
(* OnlineRuntime::run. *)

\* drain: the queued pushes, oldest first.
DrainPush(ends) ==
  /\ loopStage = "Drain" /\ pushes # <<>>
  /\ pushes' = Tail(pushes)
  /\ Handle(Head(pushes), ends, "Drain")
  /\ UNCHANGED <<network, then, exchange, exchanges, arrived, done, answered>>

Drained ==
  /\ loopStage = "Drain" /\ pushes = <<>>
  /\ loopStage' = "Publish" /\ then' = "Select"
  /\ UNCHANGED <<network, queues, exchange, exchanges, sessionHistory>>

\* publish_pending_events: a message that cannot be stored ends the session.
Publish(storeFails) ==
  /\ loopStage = "Publish" /\ events # <<>> /\ ~Head(events).resolve
  /\ events' = Tail(events)
  /\ loopStage' = IF storeFails THEN "Over" ELSE loopStage
  /\ done' = Append(done, [message |-> Head(events).message,
                           published |-> ~storeFails])
  /\ UNCHANGED <<network, pushes, then, exchange, exchanges, arrived, admitted,
                 answered>>

Resolve ==
  /\ loopStage = "Publish" /\ events # <<>> /\ Head(events).resolve
  /\ StartExchange("Resolve")
  /\ UNCHANGED <<incoming, buffer>>

Published ==
  /\ loopStage = "Publish" /\ events = <<>>
  /\ loopStage' = then
  /\ UNCHANGED <<network, queues, then, exchange, exchanges, sessionHistory>>

\* The branches of the select!.
ReadPush(ends) ==
  /\ loopStage = "Select"
  /\ TakeFrame
  /\ then' = "Drain"
  /\ IF Admitted(Inbound) /\ Inbound.route # "Failing"
     THEN Handle(Inbound, ends, "Publish") /\ Arrive(Inbound, "Direct")
     ELSE loopStage' = "Over" /\ UNCHANGED <<events, admitted, arrived>>
  /\ UNCHANGED <<pushes, exchange, exchanges, done, answered>>

Asks(caller) ==
  /\ loopStage = "Select"
  /\ exchanges < MaxExchanges
  /\ StartExchange(caller)
  /\ DropRead

\* Broken variant: the loop goes straight back to its select!.
IdleWithoutDrain ==
  /\ loopStage = "Select"
  /\ loopStage' = "Publish" /\ then' = "Select"
  /\ DropRead
  /\ UNCHANGED <<unanswered, sent, queues, exchange, exchanges, sessionHistory>>

\* A quiet turn: the read timed out, or the sleep ended with nothing due.
Idle ==
  /\ loopStage = "Select"
  /\ loopStage' = "Drain"
  /\ DropRead
  /\ UNCHANGED <<unanswered, sent, queues, then, exchange, exchanges, sessionHistory>>

\* Ctrl-C, the end of the actions or the end of the stream.
StopLoop ==
  /\ loopStage = "Select"
  /\ loopStage' = "Over"
  /\ UNCHANGED <<network, queues, then, exchange, exchanges, sessionHistory>>

-----------------------------------------------------------------------------
LoopStep ==
  \/ \E fails \in BOOLEAN : DrainPush(fails) \/ Publish(fails)
  \/ Drained \/ Resolve \/ Published \/ Idle
  \/ ExchangeFails

SessionNext ==
  \/ LoopStep
  \/ \E route \in Route \ {"Answer"}, again \in 0 .. sent.messages :
       SendPush(route, again)
  \/ \E request \in unanswered : SendAnswer(request)
  \/ ReadPart
  \/ \E accepted \in BOOLEAN : TakeAnswer(accepted)
  \/ Interrupt \/ RejectFrame
  \/ \E fails \in BOOLEAN : ReadPush(fails)
  \/ \E caller \in {"Action", "Heartbeat"} : Asks(caller)
  \/ StopLoop

SessionSpec == SessionInit /\ [][SessionNext]_sessionVars

\* Every read, write and sleep has a deadline, so that a turn always ends.
FairSessionSpec == SessionSpec /\ WF_sessionVars(LoopStep)

-----------------------------------------------------------------------------
Message == 1 .. MaxMessages

SessionTypeOK ==
  /\ Len(buffer) <= 1
  /\ Len(pushes) <= QueueLimit
  /\ \A i \in DOMAIN pushes : Admitted(pushes[i])
  /\ events \in Seq([message : Message, resolve : BOOLEAN])
  /\ Len(events) <= EventLimit
  /\ loopStage \in {"Drain", "Publish", "Select", "Exchange", "Over"}
  /\ then \in {"Select", "Drain"}
  /\ exchange.reads \in 0 .. ReadLimit
  /\ loopStage = "Exchange" => exchange.caller \in Caller
  /\ unanswered \subseteq 1 .. exchanges

\* Whatever branch of the select! wins, what was read of a frame and what is
\* still to be read make whole frames ("without losing framing state",
\* qq-session/src/error.rs:37).
FramesStayWhole ==
  LET stream == buffer \o incoming
  IN \A i \in DOMAIN stream :
       /\ stream[i].part = IF i % 2 = 1 THEN 1 ELSE 2
       /\ i % 2 = 0 => stream[i].frame = stream[i - 1].frame

\* An exchange never takes the answer of another one, also when that one gave
\* up and its answer came late.
AnswersMatch == \A taken \in answered : taken.answer = taken.request

\* Every message of an admitted push is queued or was admitted, in order and
\* once, to the events, each of which is published or given up in that order.
\* The one exception is a push that an exchange meets with a full queue.
NothingForgotten ==
  /\ ~Over =>
       \A i \in DOMAIN arrived :
         \/ arrived[i].way = "Dropped"
         \/ arrived[i].message \in ToSet(admitted)
         \/ \E j \in DOMAIN pushes :
              arrived[i].message \in ToSet(pushes[j].content)
  /\ admitted = [i \in DOMAIN done |-> done[i].message]
                \o [i \in DOMAIN events |-> events[i].message]

\* A message is admitted again only when so many others came since that its
\* key left the window.
NoDuplicateInWindow ==
  \A i, j \in DOMAIN admitted :
    i < j /\ admitted[i] = admitted[j] => j - i > DedupLimit

CameOnce(i) ==
  \A j \in DOMAIN arrived : arrived[j].message = arrived[i].message => j = i
Before(message, other) ==
  \E i, j \in DOMAIN admitted :
    i < j /\ admitted[i] = message /\ admitted[j] = other

\* A message overtakes another only when it was read while the loop was idle
\* and the other one had been put aside by an exchange: pushes that were put
\* aside keep their order.
OnlyDirectReadsOvertake ==
  \A i, j \in DOMAIN arrived :
    /\ i < j /\ CameOnce(i) /\ CameOnce(j)
    /\ Before(arrived[j].message, arrived[i].message)
    => arrived[i].way = "Queued" /\ arrived[j].way = "Direct"

\* Framing, answers, queues and window, over every way the loop's branches, the
\* exchanges and QQ interleave.
SessionIsSound ==
  /\ SessionTypeOK /\ FramesStayWhole /\ AnswersMatch
  /\ NothingForgotten /\ NoDuplicateInWindow /\ OnlyDirectReadsOvertake

\* A push that an exchange put aside is handled, whether or not another one
\* ever comes.
QueueDrains == []<>(pushes = <<>> \/ Over)
=============================================================================
