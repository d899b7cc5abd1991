------------------------- MODULE InstallationClient -------------------------
(***************************************************************************)
(* The connection to Ceylith that all accounts of an installation share:   *)
(* the bounded queue and its one worker (ceylith-client/installation.rs),  *)
(* the encrypted session with its counters (connection.rs, tcp.rs,         *)
(* ceylith-crypto/session.rs), and the action flow by which Ceylith steers *)
(* the bootstrap of an account at QQ (bins/lirvena/action_runtime.rs).     *)
(*                                                                         *)
(* Ceylith and the network are external: a request is answered, answered   *)
(* twice, answered with a frame that does not authenticate, or not at all. *)
(* Request identifiers are drawn in the order of the counters, so a frame's *)
(* counter stands for its identifier.                                      *)
(***************************************************************************)
EXTENDS Integers, Sequences, SequencesExt

CONSTANTS
  Sharer,        \* the accounts
  Capacity,      \* of the queue
  FrameLimit,    \* SecureSession.message_limit
  FlowActions    \* MAX_FLOW_ACTIONS

Nobody == "Nobody"

ASSUME ClientAssumption ==
  /\ {Capacity, FrameLimit, FlowActions} \subseteq Nat \ {0}
  /\ Nobody \notin Sharer

VARIABLES
  flow,      \* what each account does
  asks,      \* what it asks of Ceylith
  acted,     \* the actions of its flow that it executed
  outcome,   \* what came of the last one
  unread,    \* whether QQ may still answer one of them
  queue,     \* the commands before the worker
  current,   \* the command whose exchange is in progress, or NoCommand
  worker,    \* Running, Ended (by an error) or Stopped (by shutdown)
  client,    \* SecureSession: next counters, closed
  server,    \* the counters of Ceylith
  up, down,  \* the frames on their way
  heard,     \* history: the answers that accounts took
  observed   \* history: the observations that Ceylith has

accounts == <<flow, asks, acted, outcome, unread>>
channel == <<queue, current, worker>>
session == <<client, server, up, down>>
history == <<heard, observed>>
clientVars == <<accounts, channel, session, history>>

NoCommand == [account |-> Nobody, waits |-> FALSE]
StopCommand == NoCommand

\* Online: the flow is complete, and the account asks for the opaque fields of
\* its packets.  Gone: its task was dropped.
Ended == {"Failed", "Gone"}
Exchanging == {"Sending", "Waiting"}
Outcome == {"Response", "TransportFailure", "Timeout", "LocalEncodeFailure"}

ClientInit ==
  /\ flow = [a \in Sharer |-> "Idle"] /\ asks = [a \in Sharer |-> "Begin"]
  /\ acted = [a \in Sharer |-> 0]
  /\ outcome = [a \in Sharer |-> "Response"]
  /\ unread = [a \in Sharer |-> FALSE]
  /\ queue = <<>> /\ current = NoCommand /\ worker = "Running"
  /\ client = [send |-> 0, receive |-> 0, closed |-> FALSE]
  /\ server = [send |-> 0, receive |-> 0]
  /\ up = <<>> /\ down = <<>>
  /\ heard = {} /\ observed = [a \in Sharer |-> 0]

-----------------------------------------------------------------------------
(* InstallationClient::exchange, as the accounts call it.                  *)

\* A request that does not pass its builder never reaches the queue.
Ask(a, kind, built) ==
  /\ flow' = [flow EXCEPT ![a] = IF built THEN "Sending" ELSE "Failed"]
  /\ asks' = [asks EXCEPT ![a] = kind]

\* action_flow_begin_request
Begin(a, built) ==
  /\ flow[a] = "Idle"
  /\ Ask(a, "Begin", built)
  /\ UNCHANGED <<acted, outcome, unread, channel, session, history>>

\* request_reserve
AskReserve(a) ==
  /\ flow[a] = "Online"
  /\ Ask(a, "Reserve", TRUE)
  /\ UNCHANGED <<acted, outcome, unread, channel, session, history>>

\* A full queue holds the caller back.
Enqueue(a) ==
  /\ flow[a] = "Sending" /\ worker = "Running"
  /\ Len(queue) < Capacity
  /\ queue' = Append(queue, [account |-> a, waits |-> TRUE])
  /\ flow' = [flow EXCEPT ![a] = "Waiting"]
  /\ UNCHANGED <<asks, acted, outcome, unread, current, worker, session, history>>

\* What an account makes of an error: the flow ends, as does the session of a
\* heartbeat, while an action of a bot only fails.
Fails(a, survives) ==
  flow' = [flow EXCEPT ![a] =
              IF asks[a] = "Reserve" /\ survives THEN "Online" ELSE "Failed"]

\* Broken variant: the callers in the queue are forgotten.
HearClosedSending(a, survives) ==
  /\ flow[a] = "Sending" /\ worker # "Running"
  /\ Fails(a, survives)
  /\ UNCHANGED <<asks, acted, outcome, unread, channel, session, history>>

\* The worker is gone, and with it the receiver of the queue and all replies.
HearClosed(a, survives) ==
  /\ flow[a] \in Exchanging /\ worker # "Running"
  /\ Fails(a, survives)
  /\ UNCHANGED <<asks, acted, outcome, unread, channel, session, history>>

\* Ctrl-C or a directive drops the account's future.  Its command stays in the
\* queue, without a caller.
Drop(a) ==
  /\ flow[a] \notin Ended
  /\ flow' = [flow EXCEPT ![a] = "Gone"]
  /\ queue' = [i \in DOMAIN queue |->
                 IF queue[i].account = a THEN [queue[i] EXCEPT !.waits = FALSE]
                 ELSE queue[i]]
  /\ UNCHANGED <<asks, acted, outcome, unread, current, worker, session, history>>

-----------------------------------------------------------------------------
(* The action flow.                                                        *)

\* decode_action_flow_update: another action, the end of the flow, or an
\* update that does not fit.
Update(a, update) ==
  /\ flow[a] = "Answered" /\ asks[a] # "Reserve"
  /\ flow' = [flow EXCEPT ![a] =
       IF update = "Invalid" \/ outcome[a] # "Response"
         \/ acted[a] = FlowActions
       THEN "Failed"
       ELSE IF update = "Complete" THEN "Online" ELSE "Acting"]
  /\ UNCHANGED <<asks, acted, outcome, unread, channel, session, history>>

\* execute_action: what is not admitted does not reach QQ.  A response without
\* a payload cannot be reported.
Act(a, came, empty) ==
  /\ flow[a] = "Acting"
  /\ acted' = [acted EXCEPT ![a] = @ + 1]
  /\ outcome' = [outcome EXCEPT ![a] = came]
  /\ unread' = [unread EXCEPT ![a] = @ \/ came \in {"TransportFailure", "Timeout"}]
  /\ Ask(a, "Observe", ~(came = "Response" /\ empty))
  /\ UNCHANGED <<channel, session, history>>

\* decode_opaque_exchange_response
TakeReserve(a, valid, survives) ==
  /\ flow[a] = "Answered" /\ asks[a] = "Reserve"
  /\ IF valid THEN flow' = [flow EXCEPT ![a] = "Online"] ELSE Fails(a, survives)
  /\ UNCHANGED <<asks, acted, outcome, unread, channel, session, history>>

-----------------------------------------------------------------------------
(* The worker.                                                             *)

\* ClientConnection::seal, SecureSession::seal
Sealable == ~client.closed /\ client.send < FrameLimit

\* The next command is sealed and written, or it ends the worker.
Take(written) ==
  /\ worker = "Running" /\ current = NoCommand
  /\ queue # <<>> /\ Head(queue) # StopCommand
  /\ queue' = Tail(queue)
  /\ IF Sealable
     THEN /\ up' = IF written THEN Append(up, client.send) ELSE up
          /\ client' = [client EXCEPT !.send = @ + 1]
     ELSE client' = [client EXCEPT !.closed = TRUE] /\ UNCHANGED up
  /\ IF Sealable /\ written
     THEN current' = Head(queue) /\ UNCHANGED <<worker, flow>>
     ELSE /\ worker' = "Ended" /\ UNCHANGED current
          /\ IF Head(queue).waits THEN Fails(Head(queue).account, FALSE)
             ELSE UNCHANGED flow
  /\ UNCHANGED <<asks, acted, outcome, unread, server, down, history>>

\* The caller of the exchange in progress still waits for it.
Expected == current.waits /\ flow[current.account] = "Waiting"

\* Any error is the worker's last answer.
LastAnswer ==
  /\ worker' = "Ended" /\ current' = NoCommand
  /\ IF Expected THEN Fails(current.account, FALSE) ELSE UNCHANGED flow

\* Broken variant: the identifier of the answer is not compared.
BoundUnchecked(frame) == TRUE

\* CeylithTcpClient::exchange: the answer carries the request's identifier.
Bound(frame) == frame.request = client.send - 1

\* ClientConnection::open, SecureSession::open
Openable(frame) ==
  /\ ~client.closed /\ frame.genuine
  /\ frame.counter = client.receive /\ frame.counter < FrameLimit

Read ==
  /\ current # NoCommand /\ down # <<>>
  /\ down' = Tail(down)
  /\ LET frame == Head(down) IN
     /\ client' = IF Openable(frame) THEN [client EXCEPT !.receive = @ + 1]
                  ELSE [client EXCEPT !.closed = TRUE]
     /\ IF Openable(frame) /\ Bound(frame)
        THEN /\ current' = NoCommand /\ UNCHANGED worker
             /\ IF Expected
                THEN /\ flow' = [flow EXCEPT ![current.account] = "Answered"]
                     /\ heard' = heard \union
                          {[asked |-> client.send - 1, answered |-> frame.request]}
                ELSE UNCHANGED <<flow, heard>>
        ELSE LastAnswer /\ UNCHANGED heard
  /\ UNCHANGED <<asks, acted, outcome, unread, queue, server, up, observed>>

\* A timeout or the end of the stream.
ReadFails ==
  /\ current # NoCommand
  /\ LastAnswer
  /\ UNCHANGED <<asks, acted, outcome, unread, queue, session, history>>

\* InstallationClientRuntime::shutdown, after the accounts have ended.
Shutdown ==
  /\ worker = "Running" /\ \A a \in Sharer : flow[a] \in Ended
  /\ StopCommand \notin ToSet(queue)
  /\ Len(queue) < Capacity
  /\ queue' = Append(queue, StopCommand)
  /\ UNCHANGED <<accounts, current, worker, session, history>>

Stop ==
  /\ worker = "Running" /\ current = NoCommand
  /\ queue # <<>> /\ Head(queue) = StopCommand
  /\ worker' = "Stopped" /\ queue' = Tail(queue)
  /\ UNCHANGED <<accounts, current, session, history>>

-----------------------------------------------------------------------------
(* Ceylith and the network.                                                *)

Answered(request, counter, genuine) ==
  [request |-> request, counter |-> counter, genuine |-> genuine]

\* Ceylith notes an observation and answers, once or twice.
Serve(twice) ==
  /\ up # <<>>
  /\ up' = Tail(up)
  /\ server.send < FrameLimit
  /\ server' = [send |-> server.send + (IF twice THEN 2 ELSE 1),
                receive |-> server.receive + 1]
  /\ down' = down \o [i \in 1 .. (IF twice THEN 2 ELSE 1) |->
                        Answered(Head(up), server.send + i - 1, TRUE)]
  /\ observed' = IF current # NoCommand /\ current.waits
                    /\ asks[current.account] = "Observe"
                 THEN [observed EXCEPT ![current.account] = @ + 1] ELSE observed
  /\ UNCHANGED <<accounts, channel, client, heard>>

\* The frame at the head does not authenticate any more.
Corrupt ==
  /\ down # <<>> /\ Head(down).genuine
  /\ down' = [down EXCEPT ![1].genuine = FALSE]
  /\ UNCHANGED <<accounts, channel, client, server, up, history>>

-----------------------------------------------------------------------------
WorkerStep == (\E written \in BOOLEAN : Take(written)) \/ Read \/ ReadFails \/ Stop

Hear(a) ==
  \E survives \in BOOLEAN :
    \/ HearClosed(a, survives)
    \/ \E valid \in BOOLEAN : TakeReserve(a, valid, survives)

FlowStep(a) ==
  \/ \E update \in {"Action", "Complete", "Invalid"} : Update(a, update)
  \/ \E came \in Outcome, empty \in BOOLEAN : Act(a, came, empty)

ClientNext ==
  \/ WorkerStep \/ Shutdown \/ Corrupt
  \/ \E twice \in BOOLEAN : Serve(twice)
  \/ \E a \in Sharer :
       \/ Enqueue(a) \/ Hear(a) \/ FlowStep(a) \/ AskReserve(a) \/ Drop(a)
       \/ \E built \in BOOLEAN : Begin(a, built)

ClientSpec == ClientInit /\ [][ClientNext]_clientVars

\* What an account does next, when nothing holds it back.
AccountStep(a) == Enqueue(a) \/ Hear(a) \/ FlowStep(a)

\* The worker's reads and writes have timeouts, and actions at QQ have deadlines.
ClientFairness ==
  /\ WF_clientVars(WorkerStep)
  /\ \A a \in Sharer : WF_clientVars(AccountStep(a))

FairClientSpec == ClientSpec /\ ClientFairness

-----------------------------------------------------------------------------
\* An account only takes the answer to its own request, although commands of
\* dropped accounts remain in the queue and Ceylith may answer twice.
AnswersReachTheirCaller == \A answer \in heard : answer.asked = answer.answered

\* Both ends agree on the next frame for as long as the session is open, and
\* no counter at or above the limit is ever used: a counter is a nonce.
CountersAgree ==
  /\ \A i \in DOMAIN up : up[i] = server.receive + i - 1
  /\ ~client.closed =>
       /\ \A i \in DOMAIN down : down[i].counter = client.receive + i - 1
       /\ client.receive + Len(down) = server.send
  /\ client.send <= FrameLimit /\ server.receive <= FrameLimit

\* The flow brings an account online only if every action it executed was
\* reported to Ceylith and answered by QQ: no late answer may be left on the
\* connection that the session takes over.
FlowsEndClean ==
  \A a \in Sharer :
    flow[a] = "Online" => ~unread[a] /\ observed[a] = acted[a]

\* Answers, counters and flows of the accounts that share one connection.
ClientIsSound == AnswersReachTheirCaller /\ CountersAgree /\ FlowsEndClean

\* Nobody is left waiting: each request ends with an answer or an error, also
\* when the worker ends by another account's request.
CallersHear ==
  \A a \in Sharer : []<>(flow[a] \notin Exchanging)
=============================================================================
