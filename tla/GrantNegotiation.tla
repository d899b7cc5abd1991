-------------------------- MODULE GrantNegotiation --------------------------
(***************************************************************************)
(* The planner and the classifier of GrantPlan over every installation of  *)
(* a bounded size: a configuration grows by one account at a time, Ceylith *)
(* admits it with one grant after another and reports quota changes.       *)
(***************************************************************************)
EXTENDS GrantPlan

CONSTANTS
  MaxRequests,   \* bound on the configured accounts
  MaxQuota       \* bound on the quota of a grant

ASSUME BoundsAssumption == MaxRequests \in Nat /\ MaxQuota \in Nat

VARIABLES
  requests,   \* ProcessConfig.accounts
  admission,  \* the grant of the session
  reported    \* the grant of the last QuotaChanged event

negotiation == <<requests, admission, reported>>

Admissions ==
  {g \in [class : {"Public", "Community", "Full"}, maxFull : 0 .. MaxQuota] :
     ValidGrant(g)}

NegotiationInit ==
  /\ requests = <<>>
  /\ admission \in Admissions
  /\ reported = admission

Configure(request) ==
  /\ Len(requests) < MaxRequests
  /\ requests' = Append(requests, request)
  /\ UNCHANGED <<admission, reported>>

Connect(grant) ==
  /\ admission' = grant
  /\ reported' = grant
  /\ UNCHANGED requests

QuotaChange(grant) ==
  /\ reported' = grant
  /\ UNCHANGED <<requests, admission>>

NegotiationNext ==
  \/ \E request \in AccountGrantRequest : Configure(request)
  \/ \E grant \in Admissions : Connect(grant)
  \/ \E grant \in Admissions : QuotaChange(grant)

NegotiationSpec == NegotiationInit /\ [][NegotiationNext]_negotiation

-----------------------------------------------------------------------------
NegotiationTypeOK ==
  /\ requests \in Seq(AccountGrantRequest)
  /\ admission \in Admissions
  /\ reported \in Admissions

Plan == PlanGrants(requests, Availability(admission))

\* The planner picks no winners under a short quota: either every account that
\* may use the grant runs on it, or none does (grant.rs:139 "without silently
\* choosing quota winners").
NoQuotaWinners ==
  Plan.ok => FullAccounts(Plan) \in {{}, Candidates(requests)}

\* A plan that starts never puts an account that requires the grant on Public,
\* and names exactly the accounts it degraded, so that each gets its warning.
NoSilentDowngrade ==
  Plan.ok =>
    /\ Asking(requests, {"RequireGrant"}) \subseteq FullAccounts(Plan)
    /\ Candidates(requests) \ FullAccounts(Plan) = Plan.fallbacks

\* A plan never uses more of the grant than the session was admitted with,
\* whatever the class; zero means no limit for the class Full only.
QuotaRespected ==
  Plan.ok /\ ~Unlimited(admission) =>
    Cardinality(FullAccounts(Plan)) <= admission.maxFull

QuotaEvent(account) ==
  [kind |-> "QuotaChanged", account |-> account, grant |-> reported]

\* The planner at startup and the classifier at run time, two pieces of code
\* with two readings of the same quota, agree: an account running on the grant
\* goes offline on a quota change if and only if a restart under the new quota
\* would not give every such account the grant again.
WatchAgreesWithPlanner ==
  LET again == PlanGrants(requests, Availability(reported))
      keeps == again.ok /\ FullAccounts(again) = FullAccounts(Plan)
  IN Plan.ok =>
       \A a \in FullAccounts(Plan) :
         (Classify(QuotaEvent(NoAccount), a, Plan) = Continue) <=> keeps

\* Planner and classifier together: fair, honest, within the grant, and of one
\* mind about it.
PlansAreSound ==
  NoQuotaWinners /\ NoSilentDowngrade /\ QuotaRespected /\ WatchAgreesWithPlanner
=============================================================================
