---------------------------- MODULE MCLifecycle ----------------------------
(***************************************************************************)
(* The course of one login generation, part by part: the daemon with an    *)
(* account on the grant and a Public one under every kind of Watch event   *)
(* (AccountDaemon), the QR login that starts it (QrLogin) and the Watch    *)
(* over its grant (InstallationWatch).  A behaviour exercises one of the   *)
(* parts, which its first state chooses; the others rest as they begin.    *)
(***************************************************************************)
EXTENDS AccountDaemon, QrLogin, InstallationWatch

CONSTANTS A, B   \* accounts of the daemon

VARIABLE part

Public == [class |-> "Public", maxFull |-> 0]
One == [class |-> "Community", maxFull |-> 1]
Event(kind, account, grant) ==
  [kind |-> kind, account |-> account, grant |-> grant]

FullAndPublic == <<[account |-> A, mode |-> "RequireGrant"],
                   [account |-> B, mode |-> "Public"]>>
OneAdmission == {One}
EveryEvent == {Event("GrantRevoked", A, One),
               Event("Maintenance", NoAccount, NoGrant),
               Event("QuotaChanged", NoAccount, Public),
               Event("QuotaChanged", NoAccount, One)}

-----------------------------------------------------------------------------
LifecycleInit ==
  /\ part \in {"daemon", "login", "watch"}
  /\ Init /\ LoginInit /\ WatchInit

LifecycleNext ==
  \/ part = "daemon" /\ Next /\ UNCHANGED <<part, loginVars, watchVars>>
  \/ part = "login" /\ LoginNext /\ UNCHANGED <<part, vars, watchVars>>
  \/ part = "watch" /\ WatchNext /\ UNCHANGED <<part, vars, loginVars>>

\* Of the fairness of each part, as much as the properties below need.
LifecycleFairness ==
  /\ WF_vars(part = "daemon" /\ EnterSelect)
  /\ WF_vars(part = "daemon" /\ \E fails \in BOOLEAN : Finish(fails))
  /\ \A a \in {A, B} :
       /\ WF_vars(part = "daemon" /\ ObserveStop(a))
       /\ WF_vars(part = "daemon" /\ Record(a, 0))
       /\ WF_vars(part = "daemon" /\ ActorStep(a))
       /\ SF_vars(part = "daemon" /\ Join(a))
  /\ WF_loginVars(part = "login" /\ Steps)
  /\ WF_loginVars(part = "login" /\ Tick)
  /\ WF_watchVars(part = "watch" /\ Poll)
  /\ WF_watchVars(part = "watch" /\ BackoffEnds)
  /\ WF_watchVars(part = "watch" /\ HandOver)
  /\ WF_watchVars(part = "watch" /\ Receive)
  /\ WF_watchVars(part = "watch" /\ ReceiveEnd)

LifecycleSpec ==
  /\ LifecycleInit
  /\ [][LifecycleNext]_<<part, vars, loginVars, watchVars>>
  /\ LifecycleFairness

-----------------------------------------------------------------------------
\* In the part of the login it comes to an end.
LoginEnds == part = "login" => LoginComesToAnEnd
=============================================================================
