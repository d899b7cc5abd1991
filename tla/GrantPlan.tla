----------------------------- MODULE GrantPlan -----------------------------
(***************************************************************************)
(* Which capability every configured account starts with, and what a       *)
(* continuity event means for an account that started: the planner of      *)
(* account-runtime (grant.rs) and the classifier of the daemon             *)
(* (qr/continuity.rs).  Both are pure; AccountDaemon runs them.            *)
(***************************************************************************)
EXTENDS Naturals, Sequences, FiniteSets

CONSTANT Account   \* installation-local account identifiers

Mode == {"Public", "RequireGrant", "AllowPublicFallback"}

AccountGrantRequest == [account : Account, mode : Mode]

Realm == {"Public", "Full"}

-----------------------------------------------------------------------------
\* What an admission and the snapshot of a Watch event say about the grant.
Grant == [class : {"Public", "Community", "Full"}, maxFull : Nat]

\* validate_quotas of a session and validate_watch_grant of an event.
ValidGrant(grant) ==
  /\ grant.class = "Public" => grant.maxFull = 0
  /\ grant.class = "Community" => grant.maxFull # 0

Unlimited(grant) == grant.class = "Full" /\ grant.maxFull = 0

Availability(grant) ==
  IF grant.class = "Public" THEN [kind |-> "PublicOnly"]
  ELSE IF Unlimited(grant) THEN [kind |-> "UnboundedFull"]
  ELSE [kind |-> "BoundedFull", limit |-> grant.maxFull]

-----------------------------------------------------------------------------
Accounts(requests) == {requests[i].account : i \in DOMAIN requests}

Asking(requests, modes) ==
  {requests[i].account :
     i \in {j \in DOMAIN requests : requests[j].mode \in modes}}

\* Every account that does not insist on Public.
Candidates(requests) == Asking(requests, Mode \ {"Public"})

\* The positions of requests that name an account an earlier one named.
Repeats(requests) ==
  {j \in DOMAIN requests :
     \E i \in DOMAIN requests :
       i < j /\ requests[i].account = requests[j].account}

Rejected(why, accounts) == [ok |-> FALSE, why |-> why, accounts |-> accounts]

Planned(full, public, fallbacks) ==
  [ok        |-> TRUE,
   realm     |-> [a \in full \union public |->
                    IF a \in full THEN "Full" ELSE "Public"],
   fallbacks |-> fallbacks]

PlanPublicOnly(requests) ==
  IF Asking(requests, {"RequireGrant"}) # {}
    THEN Rejected("GrantRequired", Asking(requests, {"RequireGrant"}))
    ELSE Planned({}, Accounts(requests),
                 Asking(requests, {"AllowPublicFallback"}))

PlanWithFull(requests) ==
  Planned(Candidates(requests), Accounts(requests) \ Candidates(requests), {})

\* Broken variant: a short quota is filled and the other accounts degraded.
PlanQuotaWinners(requests, availability) ==
  IF availability.kind = "BoundedFull"
    THEN LET winners == CHOOSE s \in SUBSET Candidates(requests) :
               \/ Cardinality(s) = availability.limit
               \/ /\ Cardinality(Candidates(requests)) < availability.limit
                  /\ s = Candidates(requests)
         IN Planned(winners, Accounts(requests) \ winners, {})
    ELSE PlanWithFull(requests)

\* The arms of plan_account_grants for an installation with a grant.
PlanUnderGrant(requests, availability) ==
  IF availability.kind = "BoundedFull" /\
     Cardinality(Candidates(requests)) > availability.limit
    THEN Rejected("FullQuotaExceeded", Candidates(requests))
    ELSE PlanWithFull(requests)

PlanGrants(requests, availability) ==
  IF Repeats(requests) # {}
    THEN LET first == CHOOSE j \in Repeats(requests) :
                        \A k \in Repeats(requests) : j <= k
         IN Rejected("DuplicateAccount", {requests[first].account})
  ELSE IF availability.kind = "PublicOnly" THEN PlanPublicOnly(requests)
  ELSE PlanUnderGrant(requests, availability)

\* protective_offline_on_revocation: the accounts that run on the grant.
FullAccounts(plan) == {a \in DOMAIN plan.realm : plan.realm[a] = "Full"}

-----------------------------------------------------------------------------
EventKind == {"GrantExpiring", "RenewalPaused", "GrantRevoked",
              "QuotaChanged", "PolicyChanged", "ProfileChanged",
              "Maintenance", "GrantRestored"}

NoAccount == "NoAccount"     \* the event is not about one account
NoGrant == [class |-> "None", maxFull |-> 0]

\* The kinds that carry no grant snapshot (validate_watch_event).
Ungranted == {"ProfileChanged", "Maintenance"}

WatchEvent ==
  [kind : EventKind, account : Account \union {NoAccount},
   grant : Grant \union {NoGrant}]

ValidEvent(event) ==
  IF event.kind \in Ungranted
    THEN event.grant = NoGrant
    ELSE event.grant # NoGrant /\ ValidGrant(event.grant)

QuotaExceeded(event, plan) ==
  \/ event.grant = NoGrant
  \/ event.grant.class = "Public" /\ FullAccounts(plan) # {}
  \/ /\ event.grant.class \in {"Community", "Full"}
     /\ ~Unlimited(event.grant)
     /\ Cardinality(FullAccounts(plan)) > event.grant.maxFull

Continue == "Continue"

\* What the daemon does with an account on an event: go on, or take it offline
\* for the reason named.
Classify(event, account, plan) ==
  IF event.account \notin {account, NoAccount} THEN Continue
  ELSE IF event.kind = "GrantRevoked" THEN "GrantUnavailable"
  ELSE IF event.kind \in {"ProfileChanged", "Maintenance"}
         THEN "ProfileUnavailable"
  ELSE IF event.kind = "QuotaChanged" /\ QuotaExceeded(event, plan)
         THEN "GrantUnavailable"
  ELSE Continue
=============================================================================
