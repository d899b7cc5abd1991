------------------------------ MODULE MCDaemon ------------------------------
(***************************************************************************)
(* The daemon (AccountDaemon) with two accounts, one of which may fall     *)
(* back to Public, over several runs while the grant comes and goes, and   *)
(* its statistics (CommunityTelemetry) over three days of two hours each.  *)
(* A behaviour exercises one of three parts, which its first state         *)
(* chooses; the others rest as they begin:                                 *)
(*   plain      two runs of the daemon, in which no time passes;           *)
(*   rows       three runs, in which the clock steps back and a generation *)
(*              reaches its limit; the Public account only waits for a     *)
(*              scan, and the supervisor hears no Ctrl-C;                  *)
(*   telemetry  the daily reports of both accounts.                        *)
(***************************************************************************)
EXTENDS AccountDaemon, CommunityTelemetry

CONSTANTS A, B

VARIABLE part

Public == [class |-> "Public", maxFull |-> 0]
One == [class |-> "Community", maxFull |-> 1]

FallbackAndPublic == <<[account |-> A, mode |-> "AllowPublicFallback"],
                       [account |-> B, mode |-> "Public"]>>
WithAndWithoutGrant == {One, Public}
Revocation == {[kind |-> "GrantRevoked", account |-> NoAccount, grant |-> One]}

-----------------------------------------------------------------------------
\* No time passes for the account.
Untimed(a) ==
  /\ row[a].updatedAt = 0
  /\ \A i \in DOMAIN queue[a] : queue[a][i].occurredAt = 0

\* B does not get beyond its login and ends with A, as it is told.
OnlyWaits ==
  /\ task'[B] \notin {"Activating", "Online"}
  /\ outcome'[B] = "Ok"
  /\ StreamOpen(B) /\ task'[B] = "Ended" => ~StreamOpen(A)

DaemonInit ==
  /\ part \in {"plain", "rows", "telemetry"}
  /\ Init
  /\ TelemetryInit

DaemonNext ==
  \/ /\ part = "plain" /\ Next
     /\ Untimed(A)' /\ Untimed(B)' /\ boots' <= 2
     /\ UNCHANGED <<part, telemetryVars>>
  \/ /\ part = "rows" /\ Next
     /\ Untimed(B)' /\ OnlyWaits /\ ~signalled'
     /\ UNCHANGED <<part, telemetryVars>>
  \/ part = "telemetry" /\ TelemetryNext /\ UNCHANGED <<part, vars>>

\* The fairness of CommunityTelemetry.
DaemonFairness ==
  /\ WF_telemetryVars(part = "telemetry" /\ WorkerStep)
  /\ SF_telemetryVars(part = "telemetry" /\ Flush)
  /\ WF_telemetryVars(part = "telemetry" /\ \E accepts, heard \in BOOLEAN :
                                               Answer(accepts, heard))
  /\ SF_telemetryVars(part = "telemetry" /\ Answer(TRUE, TRUE))

DaemonSpec ==
  /\ DaemonInit
  /\ [][DaemonNext]_<<part, vars, telemetryVars>>
  /\ DaemonFairness
=============================================================================
