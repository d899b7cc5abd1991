------------------------ MODULE MCCommunityTelemetry ------------------------
(***************************************************************************)
(* CommunityTelemetry with one account, whose messages and heartbeats fall *)
(* on two days.                                                            *)
(***************************************************************************)
EXTENDS CommunityTelemetry
=============================================================================
