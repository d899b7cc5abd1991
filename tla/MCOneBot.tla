------------------------------ MODULE MCOneBot ------------------------------
(***************************************************************************)
(* What bots have of the daemon: the events that the OneBot adapter        *)
(* forwards to them (OneBotEvents), the calls they make of it              *)
(* (OneBotDispatch) and the messages they write and read                   *)
(* (MessageSegments), all extended.  A behaviour exercises one of the      *)
(* parts, which its first state chooses; the others rest as they begin.    *)
(***************************************************************************)
EXTENDS OneBotEvents, OneBotDispatch, MessageSegments

VARIABLES part

eventVars == <<actor, qq, hub, coordinator, identities, registry, spent, bots, stop>>

-----------------------------------------------------------------------------
PartsInit ==
  /\ part \in {"events", "calls", "segments"}
  /\ Init /\ (part = "events" \/ bot = Away("Socket"))
  /\ DispatchInit
  /\ SegmentsInit /\ (part = "segments" \/ target = "Private")

PartsNext ==
  \/ /\ part = "events" /\ Next
     /\ UNCHANGED <<part, dispatchVars, segmentVars>>
  \/ /\ part = "calls" /\ DispatchNext
     /\ UNCHANGED <<part, eventVars, segmentVars>>
  \/ /\ part = "segments" /\ SegmentsNext
     /\ UNCHANGED <<part, eventVars, dispatchVars>>

\* The fairness of each part.
PartsFairness ==
  /\ WF_eventVars(part = "events" /\ CoordinatorStep)
  /\ SF_eventVars(part = "events" /\ CoordinatorStops)
  /\ WF_eventVars(part = "events" /\ ServerEnds)
  /\ WF_eventVars(part = "events" /\ ConnectionStep)
  /\ SF_eventVars(part = "events" /\ ReverseStops)
  /\ WF_dispatchVars(part = "calls" /\ Lock)
  /\ WF_dispatchVars(part = "calls" /\ LaneTake)
  /\ \A a \in Backend : WF_dispatchVars(part = "calls" /\ ActorStep(a))

PartsSpec ==
  /\ PartsInit
  /\ [][PartsNext]_<<part, eventVars, dispatchVars, segmentVars>>
  /\ PartsFairness
=============================================================================
