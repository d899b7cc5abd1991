------------------------------ MODULE MCLinks ------------------------------
(***************************************************************************)
(* The links of the daemon with its peers: the grants that Ceylith admits  *)
(* three accounts with (GrantNegotiation), the encrypted channel to        *)
(* Ceylith (SecureChannel), the worker that serves all accounts over one   *)
(* such channel (InstallationClient), and the session of one account with  *)
(* QQ (QqSession).  A behaviour exercises one of them, which its first     *)
(* state chooses; the others rest as they begin.  The session has queues   *)
(* of two places, exchanges of at most three reads and a window of one     *)
(* key, so that a queue fills within an exchange and a message comes back  *)
(* within the window and after it.                                         *)
(***************************************************************************)
EXTENDS SecureChannel, GrantNegotiation, InstallationClient, QqSession

VARIABLE part

channelVars == <<stage, ready, closed, send, receive, wire, welcomes, sealed, opened>>

-----------------------------------------------------------------------------
\* Inner frames: one that is read, one of the future, one with a field of it.
MCBody ==
  {<<"Contract", "Body">>, <<"Contract", "FutureBody">>,
   <<"Contract", "Body", "Unknown", "Body">>}

ASSUME ChannelBounds

-----------------------------------------------------------------------------
Parts == {"grants", "channel", "worker", "session"}

PartsInit ==
  /\ part \in Parts
  /\ NegotiationInit
  /\ part # "grants" => admission.class = "Public"
  /\ Init /\ ClientInit /\ SessionInit

PartsNext ==
  \/ /\ part = "grants" /\ NegotiationNext
     /\ UNCHANGED <<part, channelVars, clientVars, sessionVars>>
  \/ /\ part = "channel" /\ Next
     /\ UNCHANGED <<part, negotiation, clientVars, sessionVars>>
  \/ /\ part = "worker" /\ ClientNext
     /\ UNCHANGED <<part, negotiation, channelVars, sessionVars>>
  \/ /\ part = "session" /\ SessionNext
     /\ UNCHANGED <<part, negotiation, channelVars, clientVars>>

\* The fairness of InstallationClient and of QqSession.
PartsFairness ==
  /\ WF_clientVars(part = "worker" /\ WorkerStep)
  /\ \A a \in Sharer : WF_clientVars(part = "worker" /\ AccountStep(a))
  /\ WF_sessionVars(part = "session" /\ LoopStep)

PartsSpec ==
  /\ PartsInit
  /\ [][PartsNext]_<<part, negotiation, channelVars, clientVars, sessionVars>>
  /\ PartsFairness
=============================================================================
