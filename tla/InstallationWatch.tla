------------------------- MODULE InstallationWatch -------------------------
(***************************************************************************)
(* The continuity Watch of ceylith-client (installation/watch.rs): a task  *)
(* that owns a connection of its own, long-polls Ceylith for the event     *)
(* after its cursor and hands the events over a bounded channel; and its   *)
(* owner, the supervisor of the daemon, which reads the channel, drops the *)
(* runtime when it sees the end of it, or shuts it down.                   *)
(*                                                                         *)
(* Ceylith is external: it publishes events in the order of their cursors, *)
(* answers a poll with the first event the client has not seen or with     *)
(* idle, and may fail at any poll.                                         *)
(***************************************************************************)
EXTENDS Naturals, Sequences

CONSTANTS
  Capacity,    \* of the event channel
  MaxCursor    \* bound on the events Ceylith publishes

ASSUME WatchAssumption == Capacity \in Nat \ {0} /\ MaxCursor \in Nat

VARIABLES
  published,   \* the cursor of Ceylith's latest event
  cursor,      \* the task's cursor
  poller,        \* what the task is doing
  channel,     \* the events and the error in the channel
  owner,       \* what the owner of the runtime is doing
  stop,        \* the shutdown signal was sent
  connected,   \* the dedicated connection is open
  delivered    \* what the owner has received (history)

watchVars == <<published, cursor, poller, channel, owner, stop, connected, delivered>>

Failure == 0   \* the error item; events are positive

\* The item the task is waiting to put into the channel.
Holding ==
  IF poller = "Sending" THEN <<cursor>>
  ELSE IF poller = "Failing" THEN <<Failure>> ELSE <<>>

Receiving == owner \in {"Reading", "ShuttingDown"}

-----------------------------------------------------------------------------
WatchInit ==
  /\ published = 0 /\ cursor = 0
  /\ poller = "Polling" /\ channel = <<>>
  /\ owner = "Reading" /\ stop = FALSE /\ connected = TRUE
  /\ delivered = <<>>

Publish ==
  /\ published < MaxCursor
  /\ published' = published + 1
  /\ UNCHANGED <<cursor, poller, channel, owner, stop, connected, delivered>>

\* Broken variant: the cursor is not advanced before the event is sent.
PollEventAgain ==
  /\ poller = "Polling"
  /\ cursor < published
  /\ \E again \in {cursor, cursor + 1} \ {0} : cursor' = again
  /\ poller' = "Sending"
  /\ UNCHANGED <<published, channel, owner, stop, connected, delivered>>

PollEvent ==
  /\ poller = "Polling"
  /\ cursor < published
  /\ cursor' = cursor + 1
  /\ poller' = "Sending"
  /\ UNCHANGED <<published, channel, owner, stop, connected, delivered>>

PollIdle ==
  /\ poller = "Polling"
  /\ cursor = published
  /\ poller' = "Backoff"
  /\ UNCHANGED <<published, cursor, channel, owner, stop, connected, delivered>>

BackoffEnds ==
  /\ poller = "Backoff"
  /\ poller' = "Polling"
  /\ UNCHANGED <<published, cursor, channel, owner, stop, connected, delivered>>

PollFails ==
  /\ poller = "Polling"
  /\ poller' = "Failing"
  /\ UNCHANGED <<published, cursor, channel, owner, stop, connected, delivered>>

\* installation.abort() and the end of the task, which closes the channel.
EndTask == poller' = "Ended" /\ connected' = FALSE

\* The poll panics: the task unwinds and leaves no error behind.
PollPanics ==
  /\ poller = "Polling"
  /\ EndTask
  /\ UNCHANGED <<published, cursor, channel, owner, stop, delivered>>

\* Broken variant: a full channel drops the oldest item instead of waiting.
HandOverDropping ==
  /\ poller \in {"Sending", "Failing"}
  /\ Receiving
  /\ channel' = IF Len(channel) < Capacity
                  THEN channel \o Holding ELSE Tail(channel) \o Holding
  /\ IF poller = "Sending"
       THEN poller' = "Polling" /\ UNCHANGED connected
       ELSE EndTask
  /\ UNCHANGED <<published, cursor, owner, stop, delivered>>

\* events.send().await, which waits for room and for nothing else.
HandOver ==
  /\ poller \in {"Sending", "Failing"}
  /\ Receiving
  /\ Len(channel) < Capacity
  /\ channel' = channel \o Holding
  /\ IF poller = "Sending"
       THEN poller' = "Polling" /\ UNCHANGED connected
       ELSE EndTask
  /\ UNCHANGED <<published, cursor, owner, stop, delivered>>

\* The shutdown signal wins the select! of a poll or of the backoff.
SeeStop ==
  /\ stop
  /\ poller \in {"Polling", "Backoff"}
  /\ EndTask
  /\ UNCHANGED <<published, cursor, channel, owner, stop, delivered>>

-----------------------------------------------------------------------------

\* The owner drops the runtime: the channel is gone, the task is aborted.
Drop ==
  /\ owner' = "Dropped"
  /\ channel' = <<>>
  /\ EndTask

\* next() returns an event.
Receive ==
  /\ owner = "Reading"
  /\ channel # <<>> /\ Head(channel) # Failure
  /\ channel' = Tail(channel)
  /\ delivered' = Append(delivered, Head(channel))
  /\ UNCHANGED <<published, cursor, poller, owner, stop, connected>>

\* What next() ends with: the error, or nothing once the channel is closed.
AtEnd ==
  IF channel = <<>> THEN poller = "Ended" ELSE Head(channel) = Failure

\* next() returns the error or None, and the supervisor drops the runtime.
ReceiveEnd ==
  /\ owner = "Reading"
  /\ AtEnd
  /\ delivered' = delivered \o channel
  /\ Drop
  /\ UNCHANGED <<published, cursor, stop>>

\* The run of the daemon fails before it supervises.
Abort ==
  /\ owner = "Reading"
  /\ Drop
  /\ UNCHANGED <<published, cursor, stop, delivered>>

\* shutdown(): the signal is sent and the task awaited; the receiver stays.
Shutdown ==
  /\ owner = "Reading"
  /\ owner' = "ShuttingDown"
  /\ stop' = TRUE
  /\ UNCHANGED <<published, cursor, poller, channel, connected, delivered>>

Joined ==
  /\ owner = "ShuttingDown"
  /\ poller = "Ended"
  /\ owner' = "Dropped"
  /\ channel' = <<>>
  /\ UNCHANGED <<published, cursor, poller, stop, connected, delivered>>

-----------------------------------------------------------------------------
Poll == PollEvent \/ PollIdle \/ PollFails

WatchNext ==
  \/ Publish
  \/ PollEvent
  \/ PollIdle
  \/ PollFails
  \/ PollPanics
  \/ BackoffEnds
  \/ HandOver
  \/ SeeStop
  \/ Receive
  \/ ReceiveEnd
  \/ Abort
  \/ Shutdown
  \/ Joined

WatchSpec == WatchInit /\ [][WatchNext]_watchVars

\* The task and its owner run when they can; Ceylith answers every poll; a
\* signal that is ready at every select! eventually wins one.
WatchFairness ==
  /\ WF_watchVars(Poll) /\ WF_watchVars(BackoffEnds)
  /\ WF_watchVars(HandOver) /\ SF_watchVars(SeeStop)
  /\ WF_watchVars(Receive) /\ WF_watchVars(ReceiveEnd) /\ WF_watchVars(Joined)

FairWatchSpec == WatchSpec /\ WatchFairness

-----------------------------------------------------------------------------
WatchTypeOK ==
  /\ published \in 0 .. MaxCursor
  /\ cursor \in 0 .. published
  /\ poller \in {"Polling", "Backoff", "Sending", "Failing", "Ended"}
  /\ channel \in Seq(0 .. MaxCursor) /\ Len(channel) <= Capacity
  /\ owner \in {"Reading", "ShuttingDown", "Dropped"}
  /\ stop \in BOOLEAN
  /\ connected \in BOOLEAN
  /\ delivered \in Seq(0 .. MaxCursor)

\* What the owner received, what waits in the channel and what the task holds
\* are the events up to the cursor, each once and in order, and at most one
\* error, which is last: no event is lost, repeated or reordered on the way
\* from Ceylith to handle_watch while the owner reads.
EventsInOrder ==
  LET seen == delivered \o channel \o Holding IN
  Receiving =>
    /\ Len(seen) \in {cursor, cursor + 1}
    /\ \A i \in 1 .. cursor : seen[i] = i
    /\ Len(seen) = cursor + 1 =>
         seen[cursor + 1] = Failure /\ poller \in {"Failing", "Ended"}

\* The dedicated connection is open exactly as long as the task runs: nothing
\* outlives the runtime, however it ends.
ConnectionFollowsTask ==
  /\ connected <=> poller # "Ended"
  /\ owner = "Dropped" => ~connected

\* What the owner sees of the task: its events in order, its connection with it.
WatchIsSound == WatchTypeOK /\ EventsInOrder /\ ConnectionFollowsTask

\* Every event Ceylith publishes reaches the owner, unless the Watch fails or
\* the owner gives it up (of the bounded number of events, all in the end).
EventsArrive == []<>(Len(delivered) >= published \/ owner # "Reading")

\* The end of the task, by an error or by a panic that leaves none, reaches the
\* owner, who then protects the accounts, however full the channel is.
FailureIsSeen == []<>(poller \notin {"Failing", "Ended"} \/ owner # "Reading")

\* Events and the end of the Watch reach the owner.
OwnerHears == EventsArrive /\ FailureIsSeen

\* The document of shutdown(): "Stops the Watch task and closes its dedicated
\* connection" (watch.rs:48).
ShutdownStops == (owner = "ShuttingDown") ~> (poller = "Ended" /\ ~connected)
=============================================================================
