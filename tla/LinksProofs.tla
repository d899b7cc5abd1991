---------------------------- MODULE LinksProofs ------------------------------
(***************************************************************************)
(* Proofs about the links with Ceylith: the grants it admits the accounts  *)
(* with (GrantNegotiation), for every set of accounts, every configuration *)
(* and every quota; the secured connection (SecureChannel), which is an    *)
(* ordered channel in each direction for every message limit and whatever  *)
(* the carrier does; and the worker that all accounts share                *)
(* (InstallationClient), for every set of accounts, every queue and every  *)
(* limit of frames.  And about the link with QQ: the session of an account *)
(* (QqSession), for every size of its queues and of its window of keys.    *)
(***************************************************************************)
EXTENDS SecureChannel, GrantNegotiation, InstallationClient, QqSession,
        FiniteSetTheorems, SequenceTheorems, TLAPS

-----------------------------------------------------------------------------
(* The grants.                                                             *)

\* The configuration, the admission and the reported grant keep their types:
\* what the planner and the classifier are ever called with.
THEOREM NegotiationTypeCorrect == NegotiationSpec => []NegotiationTypeOK
<1>1. NegotiationInit => NegotiationTypeOK
  BY DEF NegotiationInit, NegotiationTypeOK
<1>2. NegotiationTypeOK /\ [NegotiationNext]_negotiation => NegotiationTypeOK'
  <2> SUFFICES ASSUME NegotiationTypeOK, [NegotiationNext]_negotiation PROVE NegotiationTypeOK'
    OBVIOUS
  <2>1. ASSUME NEW request \in AccountGrantRequest, Configure(request)
        PROVE  NegotiationTypeOK'
    BY <2>1 DEF Configure, NegotiationTypeOK
  <2>2. ASSUME NEW grant \in Admissions, Connect(grant) PROVE NegotiationTypeOK'
    BY <2>2 DEF Connect, NegotiationTypeOK
  <2>3. ASSUME NEW grant \in Admissions, QuotaChange(grant) PROVE NegotiationTypeOK'
    BY <2>3 DEF QuotaChange, NegotiationTypeOK
  <2>4. CASE UNCHANGED negotiation
    BY <2>4 DEF negotiation, NegotiationTypeOK
  <2>5. QED
    BY <2>1, <2>2, <2>3, <2>4 DEF NegotiationNext
<1>3. QED
  BY <1>1, <1>2, PTL DEF NegotiationSpec

-----------------------------------------------------------------------------
\* A plan that starts without a grant: nobody required it, nobody has it.
LEMMA PublicShape ==
  ASSUME NEW r, NEW g,
         Availability(g).kind = "PublicOnly",
         PlanGrants(r, Availability(g)).ok
  PROVE  /\ Asking(r, {"RequireGrant"}) = {}
         /\ FullAccounts(PlanGrants(r, Availability(g))) = {}
         /\ PlanGrants(r, Availability(g)).fallbacks
              = Asking(r, {"AllowPublicFallback"})
<1>1. Repeats(r) = {}
  BY DEF PlanGrants, Rejected
<1>2. PlanGrants(r, Availability(g)) = PlanPublicOnly(r)
  BY <1>1 DEF PlanGrants
<1>3. Asking(r, {"RequireGrant"}) = {}
  BY <1>2 DEF PlanPublicOnly, Rejected
<1>4. PlanPublicOnly(r)
        = Planned({}, Accounts(r), Asking(r, {"AllowPublicFallback"}))
  BY <1>3 DEF PlanPublicOnly
<1>5. FullAccounts(Planned({}, Accounts(r), Asking(r, {"AllowPublicFallback"})))
        = {}
  BY DEF FullAccounts, Planned
<1>6. Planned({}, Accounts(r), Asking(r, {"AllowPublicFallback"})).fallbacks
        = Asking(r, {"AllowPublicFallback"})
  BY DEF Planned
<1>7. QED
  BY <1>2, <1>3, <1>4, <1>5, <1>6

\* A plan that starts with a grant: every candidate has it, and fits.
LEMMA FullShape ==
  ASSUME NEW r, NEW g,
         Availability(g).kind # "PublicOnly",
         PlanGrants(r, Availability(g)).ok
  PROVE  /\ FullAccounts(PlanGrants(r, Availability(g))) = Candidates(r)
         /\ PlanGrants(r, Availability(g)).fallbacks = {}
         /\ Availability(g).kind = "BoundedFull" =>
              ~(Cardinality(Candidates(r)) > Availability(g).limit)
<1>1. Repeats(r) = {}
  BY DEF PlanGrants, Rejected
<1>2. PlanGrants(r, Availability(g)) = PlanUnderGrant(r, Availability(g))
  BY <1>1 DEF PlanGrants
<1>3. ~(/\ Availability(g).kind = "BoundedFull"
        /\ Cardinality(Candidates(r)) > Availability(g).limit)
  BY <1>2 DEF PlanUnderGrant, Rejected
<1>4. PlanUnderGrant(r, Availability(g))
        = Planned(Candidates(r), Accounts(r) \ Candidates(r), {})
  BY <1>3 DEF PlanUnderGrant, PlanWithFull
<1>5. FullAccounts(Planned(Candidates(r), Accounts(r) \ Candidates(r), {}))
        = Candidates(r)
  BY DEF FullAccounts, Planned
<1>6. Planned(Candidates(r), Accounts(r) \ Candidates(r), {}).fallbacks = {}
  BY DEF Planned
<1>7. QED
  BY <1>2, <1>3, <1>4, <1>5, <1>6

\* Conversely, a configuration without repeats that fits is planned.
LEMMA FittingPlan ==
  ASSUME NEW r, NEW g,
         Repeats(r) = {},
         Availability(g).kind # "PublicOnly",
         ~(/\ Availability(g).kind = "BoundedFull"
           /\ Cardinality(Candidates(r)) > Availability(g).limit)
  PROVE  PlanGrants(r, Availability(g)).ok
  BY DEF PlanGrants, PlanUnderGrant, PlanWithFull, Planned

\* The two readings of a grant, class by class.
LEMMA Kinds ==
  ASSUME NEW g \in Admissions
  PROVE  /\ Availability(g).kind = "PublicOnly" <=> g.class = "Public"
         /\ Availability(g).kind = "UnboundedFull" <=> Unlimited(g)
         /\ Availability(g).kind = "BoundedFull" <=>
              (g.class # "Public" /\ ~Unlimited(g))
         /\ Availability(g).kind = "BoundedFull" =>
              Availability(g).limit = g.maxFull
         /\ g.maxFull \in Nat
         /\ g.class \in {"Public", "Community", "Full"}
         /\ g # NoGrant
  BY BoundsAssumption DEF Availability, Unlimited, Admissions, NoGrant

-----------------------------------------------------------------------------
\* The planner picks no quota winners.
THEOREM NoQuotaWinnersCorrect == NegotiationSpec => []NoQuotaWinners
<1>1. NegotiationTypeOK => NoQuotaWinners
  BY PublicShape, FullShape DEF NoQuotaWinners, Plan
<1>2. QED
  BY <1>1, NegotiationTypeCorrect, PTL

\* No account that requires the grant starts without it, and every account
\* that was degraded is reported.
THEOREM NoSilentDowngradeCorrect == NegotiationSpec => []NoSilentDowngrade
<1>1. NegotiationTypeOK => NoSilentDowngrade
  <2> SUFFICES ASSUME NegotiationTypeOK, Plan.ok
               PROVE  /\ Asking(requests, {"RequireGrant"})
                           \subseteq FullAccounts(Plan)
                      /\ Candidates(requests) \ FullAccounts(Plan)
                           = Plan.fallbacks
    BY DEF NoSilentDowngrade
  <2>1. CASE Availability(admission).kind = "PublicOnly"
    <3>1. Candidates(requests) = Asking(requests, {"RequireGrant"})
                      \union Asking(requests, {"AllowPublicFallback"})
      BY DEF Candidates, Asking, Mode
    <3>2. QED
      BY <2>1, <3>1, PublicShape DEF Plan
  <2>2. CASE Availability(admission).kind # "PublicOnly"
    <3>1. Asking(requests, {"RequireGrant"}) \subseteq Candidates(requests)
      BY DEF Candidates, Asking, Mode
    <3>2. QED
      BY <2>2, <3>1, FullShape DEF Plan
  <2>3. QED
    BY <2>1, <2>2
<1>2. QED
  BY <1>1, NegotiationTypeCorrect, PTL

\* The candidates of a configuration are finitely many.
LEMMA CandidatesFinite ==
  ASSUME NEW r \in Seq(AccountGrantRequest)
  PROVE  Cardinality(Candidates(r)) \in Nat
<1> DEFINE asking == {j \in DOMAIN r : r[j].mode \in Mode \ {"Public"}}
<1> DEFINE account == [i \in asking |-> r[i].account]
<1>1. IsFiniteSet(1 .. Len(r))
  BY FS_Interval
<1>2. IsFiniteSet(asking)
  BY <1>1, FS_Subset
<1>3. IsFiniteSet({r[i].account : i \in asking})
  <2>1. account \in Surjection(asking, {r[i].account : i \in asking})
    BY DEF Surjection
  <2>2. QED
    BY <1>2, <2>1, FS_Surjection
<1>4. QED
  BY <1>3, FS_CardinalityType DEF Candidates, Asking

\* No plan uses more of the grant than the session was admitted with.
THEOREM QuotaRespectedCorrect == NegotiationSpec => []QuotaRespected
<1>1. NegotiationTypeOK => QuotaRespected
  <2> SUFFICES ASSUME NegotiationTypeOK, Plan.ok, ~Unlimited(admission)
               PROVE  Cardinality(FullAccounts(Plan)) <= admission.maxFull
    BY DEF QuotaRespected
  <2>1. CASE Availability(admission).kind = "PublicOnly"
    <3>1. FullAccounts(Plan) = {}
      BY <2>1, PublicShape DEF Plan
    <3>2. admission.maxFull \in Nat
      BY Kinds DEF NegotiationTypeOK
    <3>3. QED
      BY <3>1, <3>2, FS_EmptySet
  <2>2. CASE Availability(admission).kind # "PublicOnly"
    BY <2>2, FullShape, Kinds, CandidatesFinite DEF NegotiationTypeOK, Plan
  <2>3. QED
    BY <2>1, <2>2
<1>2. QED
  BY <1>1, NegotiationTypeCorrect, PTL

\* What the classifier answers to an installation-wide quota event.
LEMMA QuotaAnswer ==
  ASSUME NEW a, NEW plan,
         FullAccounts(plan) # {}, reported \in Admissions
  PROVE  (Classify(QuotaEvent(NoAccount), a, plan) = Continue) <=>
           /\ reported.class # "Public"
           /\ \/ Unlimited(reported)
              \/ ~(Cardinality(FullAccounts(plan)) > reported.maxFull)
<1>1. Classify(QuotaEvent(NoAccount), a, plan) = Continue <=>
        ~QuotaExceeded(QuotaEvent(NoAccount), plan)
  BY DEF Classify, QuotaEvent, Continue
<1>2. /\ reported # NoGrant
      /\ reported.class \in {"Public", "Community", "Full"}
  BY Kinds
<1>3. QuotaExceeded(QuotaEvent(NoAccount), plan) <=>
        \/ reported.class = "Public"
        \/ ~Unlimited(reported) /\
             Cardinality(FullAccounts(plan)) > reported.maxFull
  BY <1>2 DEF QuotaExceeded, QuotaEvent, Unlimited
<1>4. QED
  BY <1>1, <1>3

\* The classifier takes an account offline on a quota change exactly when a
\* restart under the new quota would not give the same accounts the grant.
THEOREM WatchAgreesWithPlannerCorrect == NegotiationSpec => []WatchAgreesWithPlanner
<1> DEFINE again == PlanGrants(requests, Availability(reported))
           keeps == again.ok /\ FullAccounts(again) = FullAccounts(Plan)
<1>1. NegotiationTypeOK => WatchAgreesWithPlanner
  <2> SUFFICES ASSUME NegotiationTypeOK, Plan.ok, NEW a \in FullAccounts(Plan)
               PROVE  (Classify(QuotaEvent(NoAccount), a, Plan) = Continue)
                        <=> keeps
    BY DEF WatchAgreesWithPlanner
  <2>1. Availability(admission).kind # "PublicOnly"
    BY PublicShape DEF Plan
  <2>2. FullAccounts(Plan) = Candidates(requests)
    BY <2>1, FullShape DEF Plan
  <2>3. Repeats(requests) = {}
    BY DEF Plan, PlanGrants, Rejected
  <2>4. FullAccounts(Plan) # {}
    OBVIOUS
  <2>5. (Classify(QuotaEvent(NoAccount), a, Plan) = Continue) <=>
           /\ reported.class # "Public"
           /\ \/ Unlimited(reported)
              \/ ~(Cardinality(Candidates(requests)) > reported.maxFull)
    BY <2>2, <2>4, QuotaAnswer DEF NegotiationTypeOK
  <2>6. CASE reported.class = "Public"
    <3>1. again.ok => FullAccounts(again) = {}
      BY <2>6, Kinds, PublicShape DEF NegotiationTypeOK
    <3>2. QED
      BY <2>2, <2>5, <2>6, <3>1
  <2>7. CASE reported.class # "Public"
    <3>1. Availability(reported).kind # "PublicOnly"
      BY <2>7, Kinds DEF NegotiationTypeOK
    <3>2. again.ok => FullAccounts(again) = Candidates(requests)
      BY <3>1, FullShape
    <3>3. again.ok <=>
            \/ Unlimited(reported)
            \/ ~(Cardinality(Candidates(requests)) > reported.maxFull)
      BY <2>3, <2>7, <3>1, Kinds, FullShape, FittingPlan DEF NegotiationTypeOK
    <3>4. QED
      BY <2>2, <2>5, <2>7, <3>2, <3>3
  <2>8. QED
    BY <2>6, <2>7
<1>2. QED
  BY <1>1, NegotiationTypeCorrect, PTL

\* Plans without winners, without silent downgrades and within the quota, which
\* the classifier reads as the planner does.
THEOREM PlansSoundCorrect == NegotiationSpec => []PlansAreSound
<1>1. NoQuotaWinners /\ NoSilentDowngrade /\ QuotaRespected /\ WatchAgreesWithPlanner
        => PlansAreSound
  BY DEF PlansAreSound
<1>2. QED
  BY <1>1, NoQuotaWinnersCorrect, NoSilentDowngradeCorrect, QuotaRespectedCorrect,
     WatchAgreesWithPlannerCorrect, PTL

-----------------------------------------------------------------------------
(* The secured connection.                                                 *)

(* The inductive invariant.  An end that still works has opened as many      *)
(* items as its counter says; the number a frame was sealed with is the      *)
(* place of its item in what the end has sealed.                             *)
ChannelTyped ==
    /\ send \in [End -> Nat]
    /\ receive \in [End -> Nat]
    /\ sealed \in [End -> Seq(Item)]
    /\ opened \in [End -> Seq(Item)]

Counted ==
    \A e \in End :
       /\ send[e] = Len(sealed[e])
       /\ e \notin closed => receive[e] = Len(opened[e])

Placed ==
    \A f \in wire :
       /\ f.key \in End
       /\ f.number \in Nat
       /\ f.number < Len(sealed[f.key])
       /\ f.data = Header("ours", f.number, sealed[f.key][f.number + 1].request)
       /\ f.body = sealed[f.key][f.number + 1].body

ChannelInv == ChannelTyped /\ Counted /\ Placed

(* What a step may do to what goes into end e: the next item is sent, the    *)
(* next item is received, or nothing.                                        *)
Sends(e) ==
    /\ \E item \in Item : sealed'[Peer(e)] = Append(sealed[Peer(e)], item)
    /\ opened'[e] = opened[e]

Receives(e) ==
    /\ Len(opened[e]) < Len(sealed[Peer(e)])
    /\ opened'[e] = Append(opened[e], sealed[Peer(e)][Len(opened[e]) + 1])
    /\ sealed'[Peer(e)] = sealed[Peer(e)]

Rests(e) == opened'[e] = opened[e] /\ sealed'[Peer(e)] = sealed[Peer(e)]

Ordered(e) == Sends(e) \/ Receives(e) \/ Rests(e)

(* Before the handshake nothing has been sealed. *)
LEMMA ChannelInvInit == Init => ChannelInv
  BY DEF Init, ChannelInv, ChannelTyped, Counted, Placed, End

(* The steps of the handshake, the refusal at the limit, and stuttering seal *)
(* and open nothing and leave every counter alone.                           *)
LEMMA QuietSteps ==
  ASSUME ChannelInv,
         \/ Hello \/ ServerWelcome \/ Finish
         \/ \E e \in End : SealTooLate(e)
         \/ UNCHANGED vars
  PROVE  ChannelInv' /\ \A e \in End : Ordered(e)
<1>1. /\ wire' = wire /\ sealed' = sealed /\ opened' = opened
      /\ send' = send /\ receive' = receive
      /\ closed \subseteq closed'
  BY DEF Hello, ServerWelcome, Finish, SealTooLate, vars, counters
<1>2. ChannelInv' BY <1>1 DEF ChannelInv, ChannelTyped, Counted, Placed
<1> QED BY <1>1, <1>2 DEF Ordered, Rests

(* A sealed frame gets the number that is the length of what was sealed, so  *)
(* its item is at its place, and every earlier item keeps its own.           *)
LEMMA SealStep ==
  ASSUME ChannelInv, NEW e \in End, NEW request \in Request, NEW body \in Body,
         Seal(e, request, body)
  PROVE  ChannelInv' /\ \A d \in End : Ordered(d)
<1> DEFINE item == [request |-> request, body |-> body]
           frame == Sealing(e, request, body)
<1>1. /\ wire' = wire \cup {frame}
      /\ sealed' = [sealed EXCEPT ![e] = Append(@, item)]
      /\ send' = [send EXCEPT ![e] = @ + 1]
      /\ opened' = opened /\ receive' = receive /\ closed' = closed
  BY DEF Seal
<1>2. item \in Item BY DEF Item
<1>3. ChannelTyped' BY <1>1, <1>2 DEF ChannelInv, ChannelTyped
<1>4. Counted'
  <2>1. Len(sealed'[e]) = Len(sealed[e]) + 1 BY <1>1, <1>2 DEF ChannelInv, ChannelTyped
  <2> QED BY <1>1, <2>1 DEF ChannelInv, ChannelTyped, Counted
<1>5. \A d \in End : \A n \in 1 .. Len(sealed[d]) :
         n <= Len(sealed'[d]) /\ sealed'[d][n] = sealed[d][n]
  BY <1>1, <1>2 DEF ChannelInv, ChannelTyped
<1>6. /\ Len(sealed'[e]) = Len(sealed[e]) + 1
      /\ sealed'[e][Len(sealed[e]) + 1] = item
  BY <1>1, <1>2 DEF ChannelInv, ChannelTyped
<1>7. Placed'
  <2> SUFFICES ASSUME NEW f \in wire'
               PROVE  /\ f.key \in End
                      /\ f.number \in Nat
                      /\ f.number < Len(sealed'[f.key])
                      /\ f.data = Header("ours", f.number, sealed'[f.key][f.number + 1].request)
                      /\ f.body = sealed'[f.key][f.number + 1].body
    BY DEF Placed
  <2>1. CASE f \in wire
    <3>1. f.key \in End /\ f.number + 1 \in 1 .. Len(sealed[f.key])
      BY <2>1 DEF ChannelInv, ChannelTyped, Placed
    <3>2. /\ f.number + 1 <= Len(sealed'[f.key])
          /\ sealed'[f.key][f.number + 1] = sealed[f.key][f.number + 1]
      BY <1>5, <3>1
    <3>3. Len(sealed'[f.key]) \in Nat BY <1>3, <3>1 DEF ChannelTyped
    <3> QED BY <2>1, <3>1, <3>2, <3>3 DEF ChannelInv, Placed
  <2>2. CASE f = frame
    <3>1. /\ f.key = e
          /\ f.number = Len(sealed[e])
          /\ f.data = Header("ours", f.number, request)
          /\ f.body = body
      BY <2>2 DEF Sealing, AssociatedData, ChannelInv, Counted
    <3>2. Len(sealed[e]) \in Nat BY DEF ChannelInv, ChannelTyped
    <3> QED BY <3>1, <3>2, <1>6
  <2> QED BY <1>1, <2>1, <2>2
<1>8. ASSUME NEW d \in End PROVE Ordered(d)
  <2>1. CASE Peer(d) = e
    BY <1>1, <1>2, <2>1 DEF Ordered, Sends, ChannelInv, ChannelTyped
  <2>2. CASE Peer(d) # e
    BY <1>1, <2>2 DEF Ordered, Rests, ChannelInv, ChannelTyped
  <2> QED BY <2>1, <2>2
<1> QED BY <1>3, <1>4, <1>7, <1>8 DEF ChannelInv

(* A frame is opened only when its number is due, and then its item is the   *)
(* one that follows what was opened before: the header it arrived with is    *)
(* the one it was sealed under.                                              *)
LEMMA OpenStep ==
  ASSUME ChannelInv, NEW e \in End, NEW frame \in wire \cup Stray, NEW header \in Headers,
         NEW intact \in BOOLEAN, Open(e, frame, header, intact)
  PROVE  ChannelInv' /\ \A d \in End : Ordered(d)
<1> DEFINE item == [request |-> header.request, body |-> frame.body]
<1>1. wire' = wire /\ sealed' = sealed BY DEF Open
<1>2. Peer(e) \in End /\ e \notin closed BY DEF Peer, End, Open, Usable
<1>3. CASE opened' = opened
  <2>1. /\ send' = send /\ closed \subseteq closed'
        /\ e \in closed'
        /\ \A d \in End : d # e => receive'[d] = receive[d]
        /\ receive' \in [End -> Nat]
    <3>1. opened' # [opened EXCEPT ![e] = Append(@, item)]
      <4>1. Len(Append(opened[e], item)) = Len(opened[e]) + 1 /\ Len(opened[e]) \in Nat
        BY DEF ChannelInv, ChannelTyped
      <4>2. Append(opened[e], item) # opened[e] BY <4>1
      <4> QED BY <4>2, <1>3 DEF ChannelInv, ChannelTyped
    <3>2. /\ send' = send
          /\ closed' = closed \cup {e}
          /\ receive' = receive \/ receive' = [receive EXCEPT ![e] = @ + 1]
      BY <3>1 DEF Open
    <3>3. receive \in [End -> Nat] /\ closed \subseteq closed' /\ e \in closed'
      BY <3>2 DEF ChannelInv, ChannelTyped
    <3>4. receive' \in [End -> Nat] /\ \A d \in End : d # e => receive'[d] = receive[d]
      BY <3>2, <3>3
    <3> QED BY <3>2, <3>3, <3>4
  <2>2. ChannelInv' BY <1>1, <1>3, <2>1 DEF ChannelInv, ChannelTyped, Counted, Placed
  <2> QED BY <1>1, <1>3, <2>2 DEF Ordered, Rests
<1>4. CASE opened' # opened
  <2>1. /\ Decrypts(e, frame, header, intact)
        /\ receive' = [receive EXCEPT ![e] = @ + 1]
        /\ opened' = [opened EXCEPT ![e] = Append(@, item)]
        /\ send' = send /\ closed' = closed
    BY <1>4 DEF Open
  <2>2. frame \in wire
    BY <1>2, <2>1 DEF Decrypts, Stray, End
  <2>3. /\ frame.key = Peer(e)
        /\ frame.number = Len(opened[e])
        /\ frame.data = header
    BY <1>2, <2>1 DEF Decrypts, AssociatedData, ChannelInv, Counted
  <2>4. /\ Len(opened[e]) < Len(sealed[Peer(e)])
        /\ header = Header("ours", frame.number, sealed[Peer(e)][Len(opened[e]) + 1].request)
        /\ frame.body = sealed[Peer(e)][Len(opened[e]) + 1].body
    BY <2>2, <2>3 DEF ChannelInv, Placed
  <2>5. sealed[Peer(e)][Len(opened[e]) + 1] \in Item
    BY <1>2, <2>4 DEF ChannelInv, ChannelTyped
  <2>6. item = sealed[Peer(e)][Len(opened[e]) + 1]
    BY <2>4, <2>5 DEF Header, Item
  <2>7. /\ opened'[e] = Append(opened[e], sealed[Peer(e)][Len(opened[e]) + 1])
        /\ \A d \in End : d # e => opened'[d] = opened[d]
        /\ opened' \in [End -> Seq(Item)]
    BY <2>1, <2>5, <2>6 DEF ChannelInv, ChannelTyped
  <2>8. Len(opened'[e]) = Len(opened[e]) + 1
    BY <2>5, <2>7 DEF ChannelInv, ChannelTyped
  <2>9. Counted' BY <1>1, <1>2, <2>1, <2>7, <2>8 DEF ChannelInv, ChannelTyped, Counted
  <2>10. ChannelInv' BY <1>1, <2>1, <2>7, <2>9 DEF ChannelInv, ChannelTyped, Placed
  <2>11. Ordered(e) BY <1>1, <2>4, <2>7 DEF Ordered, Receives
  <2>12. \A d \in End : d # e => Ordered(d)
    BY <1>1, <2>7 DEF Ordered, Rests
  <2> QED BY <2>10, <2>11, <2>12
<1> QED BY <1>3, <1>4

(* Every step keeps the invariant and is a step of an ordered channel, or    *)
(* none, in each direction.                                                  *)
LEMMA ChannelInvStep == ChannelInv /\ [Next]_vars => ChannelInv' /\ \A e \in End : Ordered(e)
<1> SUFFICES ASSUME ChannelInv, [Next]_vars
             PROVE  ChannelInv' /\ \A e \in End : Ordered(e)
  OBVIOUS
<1>1. CASE Hello \/ ServerWelcome \/ Finish \/ (\E e \in End : SealTooLate(e)) \/ UNCHANGED vars
  BY <1>1, QuietSteps
<1>2. CASE \E e \in End, request \in Request, body \in Body : Seal(e, request, body)
  BY <1>2, SealStep
<1>3. CASE \E e \in End : \E frame \in wire \cup Stray, header \in Headers, intact \in BOOLEAN :
              Open(e, frame, header, intact)
  BY <1>3, OpenStep
<1> QED BY <1>1, <1>2, <1>3 DEF Next

(* The abstract channels start empty. *)
LEMMA ChannelsStart == Init => ToServer!Init /\ ToClient!Init
  BY DEF Init, ToServer!Init, ToClient!Init, End

(* Each abstract step, named by the direction it belongs to. *)
LEMMA ChannelsStep ==
  (\A e \in End : Ordered(e)) => [ToServer!Next]_(ToServer!vars) /\ [ToClient!Next]_(ToClient!vars)
<1> SUFFICES ASSUME \A e \in End : Ordered(e)
             PROVE  [ToServer!Next]_(ToServer!vars) /\ [ToClient!Next]_(ToClient!vars)
  OBVIOUS
<1>1. [ToServer!Next]_(ToServer!vars)
  <2>1. Ordered("server") /\ Peer("server") = "client" BY DEF End, Peer
  <2> QED BY <2>1 DEF Ordered, Sends, Receives, Rests, ToServer!Next, ToServer!Send,
                      ToServer!Receive, ToServer!vars
<1>2. [ToClient!Next]_(ToClient!vars)
  <2>1. Ordered("client") /\ Peer("client") = "server" BY DEF End, Peer
  <2> QED BY <2>1 DEF Ordered, Sends, Receives, Rests, ToClient!Next, ToClient!Send,
                      ToClient!Receive, ToClient!vars
<1> QED BY <1>1, <1>2

(* In each direction a secured connection is an ordered channel: nothing is  *)
(* skipped, repeated, swapped or changed, whatever the carrier does.         *)
THEOREM ChannelRefinement == Spec => DeliversInOrder
<1>1. Init => ChannelInv /\ ToServer!Init /\ ToClient!Init
  BY ChannelInvInit, ChannelsStart
<1>2. ChannelInv /\ [Next]_vars => /\ ChannelInv'
                            /\ [ToServer!Next]_(ToServer!vars)
                            /\ [ToClient!Next]_(ToClient!vars)
  BY ChannelInvStep, ChannelsStep
<1> QED BY <1>1, <1>2, PTL DEF Spec, DeliversInOrder, ToServer!Spec, ToClient!Spec

-----------------------------------------------------------------------------
(* The worker that all accounts share.                                     *)
(*                                                                         *)
(* That an account comes online with every observation reported says       *)
(* nothing of where a report is while it is on its way.  ClientInv follows *)
(* it: a caller waits at one place, at most one request is before Ceylith  *)
(* and it is the one of the exchange in progress, and an account that      *)
(* reports is one observation ahead of Ceylith until its request was       *)
(* served.                                                                 *)

Answer == [request : Nat, counter : Nat, genuine : BOOLEAN]

Command == [account : Sharer \union {Nobody}, waits : BOOLEAN]

Stage == {"Idle", "Sending", "Waiting", "Answered", "Acting", "Online"}
           \union Ended

ClientTyped ==
  /\ flow \in [Sharer -> Stage]
  /\ asks \in [Sharer -> {"Begin", "Observe", "Reserve"}]
  /\ acted \in [Sharer -> Nat]
  /\ outcome \in [Sharer -> Outcome]
  /\ unread \in [Sharer -> BOOLEAN]
  /\ queue \in Seq(Command)
  /\ current \in Command
  /\ worker \in {"Running", "Ended", "Stopped"}
  /\ client \in [send : Nat, receive : Nat, closed : BOOLEAN]
  /\ server \in [send : Nat, receive : Nat]
  /\ up \in Seq(Nat)
  /\ down \in Seq(Answer)
  /\ observed \in [Sharer -> Nat]

\* A caller is at one place: before the worker, or in its exchange.
CallersWait ==
  /\ current # NoCommand => worker = "Running"
  /\ current.waits =>
       /\ current.account \in Sharer
       /\ flow[current.account] \in {"Waiting", "Gone"}
  /\ worker = "Running" =>
       \A i \in DOMAIN queue :
         queue[i].waits =>
           /\ queue[i].account \in Sharer
           /\ flow[queue[i].account] = "Waiting"
           /\ current.waits => queue[i].account # current.account
           /\ \A j \in DOMAIN queue :
                j # i /\ queue[j].waits => queue[j].account # queue[i].account

\* At most one request is on its way, and it is the last one that was sealed.
OneInFlight ==
  /\ Len(up) <= 1
  /\ worker = "Running" => server.receive + Len(up) = client.send
  /\ worker = "Running" /\ current = NoCommand => up = <<>>
  /\ server.receive + Len(up) <= client.send
  /\ \A i \in DOMAIN down : down[i].request < server.receive

\* Ceylith has noted the observation of the exchange in progress.
Noted(a) == current.waits /\ current.account = a /\ up = <<>>

FlowFits(a) ==
  /\ \/ flow[a] \in {"Idle", "Answered", "Acting", "Online"}
     \/ flow[a] \in Exchanging /\ asks[a] # "Observe"
     => observed[a] = acted[a]
  /\ flow[a] \in Exchanging /\ asks[a] = "Observe" =>
       acted[a] = observed[a] + (IF Noted(a) THEN 0 ELSE 1)
  /\ unread[a] =>
       /\ asks[a] = "Observe" /\ outcome[a] # "Response"
       /\ flow[a] \notin {"Idle", "Acting", "Online"}

ClientInv ==
  /\ ClientTyped /\ CallersWait /\ OneInFlight
  /\ \A a \in Sharer : FlowFits(a)
  /\ AnswersReachTheirCaller /\ CountersAgree

-----------------------------------------------------------------------------
LEMMA ClientStarts == ClientInit => ClientInv
<1> SUFFICES ASSUME ClientInit PROVE ClientInv
  OBVIOUS
<1>1. ClientTyped
  BY DEF ClientInit, ClientTyped, Stage, Ended, Outcome, Command, NoCommand
<1>2. CallersWait
  BY DEF ClientInit, CallersWait, NoCommand
<1>3. OneInFlight
  BY DEF ClientInit, OneInFlight
<1>4. \A a \in Sharer : FlowFits(a)
  BY DEF ClientInit, FlowFits, Exchanging
<1>5. AnswersReachTheirCaller /\ CountersAgree
  BY ClientAssumption DEF ClientInit, AnswersReachTheirCaller, CountersAgree
<1>6. QED
  BY <1>1, <1>2, <1>3, <1>4, <1>5 DEF ClientInv

-----------------------------------------------------------------------------
(* The steps of an account.                                                *)

\* The exchange in progress is not that of an account that does not wait.
LEMMA NotNoted ==
  ASSUME ClientInv, NEW a \in Sharer,
         worker # "Running" \/ flow[a] \notin {"Waiting", "Gone"}
  PROVE  ~(current.waits /\ current.account = a) /\ ~Noted(a)
BY DEF ClientInv, CallersWait, Noted, NoCommand

\* One account goes on, and does not leave an exchange that is in progress.
LEMMA AccountMoves ==
  ASSUME ClientInv, NEW a \in Sharer,
         worker # "Running" \/ flow[a] \notin {"Waiting", "Gone"},
         UNCHANGED <<channel, session, history>>,
         /\ flow' \in [Sharer -> Stage]
         /\ asks' \in [Sharer -> {"Begin", "Observe", "Reserve"}]
         /\ acted' \in [Sharer -> Nat]
         /\ outcome' \in [Sharer -> Outcome]
         /\ unread' \in [Sharer -> BOOLEAN],
         \A b \in Sharer \ {a} :
           /\ flow'[b] = flow[b] /\ asks'[b] = asks[b]
           /\ acted'[b] = acted[b] /\ outcome'[b] = outcome[b]
           /\ unread'[b] = unread[b],
         FlowFits(a)'
  PROVE  ClientInv'
<1>1. /\ UNCHANGED <<queue, current, worker, client, server, up, down>>
      /\ UNCHANGED <<heard, observed>>
  BY DEF channel, session, history
<1>2. ClientTyped'
  BY <1>1 DEF ClientInv, ClientTyped
<1>3. CallersWait'
  <2>1. ~(current.waits /\ current.account = a)
    BY NotNoted
  <2>2. ASSUME worker = "Running", NEW i \in DOMAIN queue, queue[i].waits
        PROVE  queue[i].account \in Sharer \ {a}
    BY <2>2 DEF ClientInv, CallersWait
  <2>3. QED
    BY <1>1, <2>1, <2>2 DEF ClientInv, CallersWait
<1>4. OneInFlight'
  BY <1>1 DEF ClientInv, OneInFlight
<1>5. \A b \in Sharer : FlowFits(b)'
  <2>1. ASSUME NEW b \in Sharer \ {a} PROVE FlowFits(b)'
    <3>1. FlowFits(b)
      BY DEF ClientInv
    <3>2. Noted(b)' <=> Noted(b)
      BY <1>1 DEF Noted
    <3>3. observed' = observed
      BY <1>1
    <3>4. QED
      BY <3>1, <3>2, <3>3 DEF FlowFits
  <2>2. QED
    BY <2>1
<1>6. AnswersReachTheirCaller' /\ CountersAgree'
  BY <1>1 DEF ClientInv, AnswersReachTheirCaller, CountersAgree
<1>7. QED
  BY <1>2, <1>3, <1>4, <1>5, <1>6 DEF ClientInv

\* The first request of a flow, and those of an account that is online.
LEMMA AskInv ==
  ASSUME ClientInv, NEW a \in Sharer,
         \/ AskReserve(a)
         \/ \E built \in BOOLEAN : Begin(a, built)
  PROVE  ClientInv'
<1> DEFINE kind == IF flow[a] = "Online" THEN "Reserve" ELSE "Begin"
<1>1. /\ flow[a] \in {"Idle", "Online"}
      /\ \E s \in {"Sending", "Failed"} : flow' = [flow EXCEPT ![a] = s]
      /\ asks' = [asks EXCEPT ![a] = kind]
      /\ UNCHANGED <<acted, outcome, unread, channel, session, history>>
  BY DEF AskReserve, Begin, Ask
<1>2. ClientTyped
  BY DEF ClientInv
<1>3. /\ flow' \in [Sharer -> Stage] /\ flow'[a] \in {"Sending", "Failed"}
      /\ asks' \in [Sharer -> {"Begin", "Observe", "Reserve"}]
      /\ asks'[a] # "Observe"
  BY <1>1, <1>2 DEF ClientTyped, Stage, Ended
<1>4. FlowFits(a)'
  <2>1. ~unread[a] /\ observed[a] = acted[a]
    BY <1>1 DEF ClientInv, FlowFits
  <2>2. ~unread'[a] /\ observed'[a] = acted'[a]
    BY <1>1, <2>1 DEF history
  <2>3. QED
    BY <1>3, <2>2 DEF FlowFits
<1>5. \A b \in Sharer \ {a} : flow'[b] = flow[b] /\ asks'[b] = asks[b]
  BY <1>1, <1>2 DEF ClientTyped
<1>6. QED
  BY <1>1, <1>2, <1>3, <1>4, <1>5, AccountMoves DEF ClientTyped

\* An error of the worker reaches the account, or its fields do.
LEMMA HearInv ==
  ASSUME ClientInv, NEW a \in Sharer, Hear(a)
  PROVE  ClientInv'
<1>1. /\ worker # "Running" \/ flow[a] \notin {"Waiting", "Gone"}
      /\ flow[a] \in Exchanging \union {"Answered"}
      /\ \E s \in {"Online", "Failed"} :
           /\ s = "Online" => asks[a] = "Reserve"
           /\ flow' = [flow EXCEPT ![a] = s]
      /\ UNCHANGED <<asks, acted, outcome, unread, channel, session, history>>
  BY DEF Hear, HearClosed, TakeReserve, Fails, Exchanging
<1>2. ClientTyped
  BY DEF ClientInv
<1>3. /\ flow' \in [Sharer -> Stage] /\ flow'[a] \in {"Online", "Failed"}
      /\ flow'[a] = "Online" => asks[a] = "Reserve"
  BY <1>1, <1>2 DEF ClientTyped, Stage, Ended
<1>4. FlowFits(a)'
  <2>1. FlowFits(a)
    BY DEF ClientInv
  <2>2. /\ asks'[a] = asks[a] /\ outcome'[a] = outcome[a]
        /\ unread'[a] = unread[a] /\ observed'[a] = observed[a]
        /\ acted'[a] = acted[a]
    BY <1>1 DEF history
  <2>3. QED
    BY <1>1, <1>3, <2>1, <2>2 DEF FlowFits, Exchanging
<1>5. \A b \in Sharer \ {a} : flow'[b] = flow[b]
  BY <1>1, <1>2 DEF ClientTyped
<1>6. QED
  BY <1>1, <1>2, <1>3, <1>4, <1>5, AccountMoves DEF ClientTyped

\* An update of Ceylith.
LEMMA UpdateInv ==
  ASSUME ClientInv, NEW a \in Sharer, NEW update, Update(a, update)
  PROVE  ClientInv'
<1>1. /\ flow[a] = "Answered"
      /\ \E s \in {"Online", "Acting", "Failed"} :
           /\ s # "Failed" => outcome[a] = "Response"
           /\ flow' = [flow EXCEPT ![a] = s]
      /\ UNCHANGED <<asks, acted, outcome, unread, channel, session, history>>
  BY DEF Update
<1>2. ClientTyped
  BY DEF ClientInv
<1>3. /\ flow' \in [Sharer -> Stage]
      /\ flow'[a] \in {"Online", "Acting", "Failed"}
      /\ flow'[a] # "Failed" => outcome[a] = "Response"
  BY <1>1, <1>2 DEF ClientTyped, Stage, Ended
<1>4. FlowFits(a)'
  <2>1. FlowFits(a)
    BY DEF ClientInv
  <2>2. /\ asks'[a] = asks[a] /\ outcome'[a] = outcome[a]
        /\ unread'[a] = unread[a] /\ observed'[a] = observed[a]
        /\ acted'[a] = acted[a]
    BY <1>1 DEF history
  <2>3. QED
    BY <1>1, <1>3, <2>1, <2>2 DEF FlowFits, Exchanging
<1>5. \A b \in Sharer \ {a} : flow'[b] = flow[b]
  BY <1>1, <1>2 DEF ClientTyped
<1>6. QED
  BY <1>1, <1>2, <1>3, <1>4, <1>5, AccountMoves DEF ClientTyped

\* An action at QQ: the account is one observation ahead.
LEMMA ActInv ==
  ASSUME ClientInv, NEW a \in Sharer, NEW came \in Outcome, NEW empty \in BOOLEAN,
         Act(a, came, empty)
  PROVE  ClientInv'
<1>1. /\ flow[a] = "Acting"
      /\ \E s \in {"Sending", "Failed"} : flow' = [flow EXCEPT ![a] = s]
      /\ asks' = [asks EXCEPT ![a] = "Observe"]
      /\ acted' = [acted EXCEPT ![a] = @ + 1]
      /\ outcome' = [outcome EXCEPT ![a] = came]
      /\ UNCHANGED <<channel, session, history>>
  BY DEF Act, Ask
<1>2. ClientTyped
  BY DEF ClientInv
<1>3. unread' = [unread EXCEPT ![a] = @ \/ came \in {"TransportFailure", "Timeout"}]
  BY DEF Act
<1>4. /\ flow' \in [Sharer -> Stage] /\ flow'[a] \in {"Sending", "Failed"}
      /\ asks' \in [Sharer -> {"Begin", "Observe", "Reserve"}]
      /\ asks'[a] = "Observe"
      /\ acted' \in [Sharer -> Nat] /\ acted'[a] = acted[a] + 1
      /\ outcome' \in [Sharer -> Outcome] /\ outcome'[a] = came
  BY <1>1, <1>2 DEF ClientTyped, Stage, Ended
<1>5. FlowFits(a)
  BY DEF ClientInv
<1>6. /\ unread' \in [Sharer -> BOOLEAN]
      /\ unread'[a] => came \in {"TransportFailure", "Timeout"}
  BY <1>1, <1>2, <1>3, <1>5 DEF ClientTyped, FlowFits
<1>7. FlowFits(a)'
  <2>1. ~Noted(a)
    BY <1>1, NotNoted
  <2>2. ~Noted(a)'
    BY <1>1, <2>1 DEF Noted, channel, session
  <2>3. observed'[a] = observed[a] /\ acted[a] = observed[a]
    BY <1>1, <1>5 DEF FlowFits, history
  <2>4. QED
    BY <1>4, <1>6, <2>2, <2>3 DEF FlowFits, Exchanging
<1>8. \A b \in Sharer \ {a} :
        /\ flow'[b] = flow[b] /\ asks'[b] = asks[b] /\ acted'[b] = acted[b]
        /\ outcome'[b] = outcome[b]
  BY <1>1, <1>2 DEF ClientTyped
<1>9. \A b \in Sharer \ {a} : unread'[b] = unread[b]
  BY <1>2, <1>3 DEF ClientTyped
<1>10. QED
  BY <1>1, <1>2, <1>4, <1>6, <1>7, <1>8, <1>9, AccountMoves DEF ClientTyped

\* A request enters the queue.
LEMMA EnqueueInv ==
  ASSUME ClientInv, NEW a \in Sharer, Enqueue(a)
  PROVE  ClientInv'
<1> DEFINE command == [account |-> a, waits |-> TRUE]
<1>1. /\ flow[a] = "Sending" /\ worker = "Running"
      /\ queue' = Append(queue, command)
      /\ flow' = [flow EXCEPT ![a] = "Waiting"]
      /\ UNCHANGED <<asks, acted, outcome, unread, current, worker>>
      /\ UNCHANGED <<client, server, up, down, heard, observed>>
  BY DEF Enqueue, session, history
<1>2. ClientTyped
  BY DEF ClientInv
<1>3. command \in Command /\ command.account = a /\ command.waits
  BY DEF Command
<1> HIDE DEF command
<1>4. ClientTyped'
  BY <1>1, <1>2, <1>3 DEF ClientTyped, Stage
<1>5. CallersWait'
  <2>1. /\ Len(queue') = Len(queue) + 1 /\ Len(queue) \in Nat
        /\ DOMAIN queue' = 1 .. Len(queue) + 1 /\ DOMAIN queue = 1 .. Len(queue)
        /\ \A i \in DOMAIN queue : queue'[i] = queue[i]
        /\ queue'[Len(queue) + 1] = command
    BY <1>1, <1>2, <1>3 DEF ClientTyped
  <2>2. CallersWait
    BY DEF ClientInv
  <2>3. ASSUME NEW i \in DOMAIN queue, queue[i].waits
        PROVE  /\ queue[i].account \in Sharer /\ queue[i].account # a
               /\ flow'[queue[i].account] = "Waiting"
               /\ current.waits => queue[i].account # current.account
               /\ \A j \in DOMAIN queue :
                    j # i /\ queue[j].waits => queue[j].account # queue[i].account
    BY <1>1, <1>2, <2>2, <2>3 DEF CallersWait, ClientTyped
  <2>4. current.waits => current.account \in Sharer \ {a}
    BY <1>1, <2>2 DEF CallersWait
  <2>5. current # NoCommand => worker = "Running"
    BY <2>2 DEF CallersWait
  <2>6. current.waits => flow'[current.account] \in {"Waiting", "Gone"}
    BY <1>1, <1>2, <2>2, <2>4 DEF CallersWait, ClientTyped
  <2>7. flow'[a] = "Waiting"
    BY <1>1, <1>2 DEF ClientTyped
  <2>8. ASSUME NEW i \in DOMAIN queue', queue'[i].waits
        PROVE  /\ queue'[i].account \in Sharer
               /\ flow'[queue'[i].account] = "Waiting"
               /\ current.waits => queue'[i].account # current.account
               /\ \A j \in DOMAIN queue' :
                    j # i /\ queue'[j].waits => queue'[j].account # queue'[i].account
    <3>1. CASE i \in DOMAIN queue
      BY <1>3, <2>1, <2>3, <2>8, <3>1
    <3>2. CASE i = Len(queue) + 1
      BY <1>3, <2>1, <2>3, <2>4, <2>7, <3>2
    <3>3. QED
      BY <2>1, <2>8, <3>1, <3>2
  <2>9. QED
    BY <1>1, <2>4, <2>5, <2>6, <2>8 DEF CallersWait
<1>6. OneInFlight' /\ AnswersReachTheirCaller' /\ CountersAgree'
  BY <1>1 DEF ClientInv, OneInFlight, AnswersReachTheirCaller, CountersAgree
<1>7. ASSUME NEW b \in Sharer PROVE FlowFits(b)'
  <2>1. FlowFits(b) /\ (Noted(b)' <=> Noted(b))
    BY <1>1 DEF ClientInv, Noted
  <2>2. /\ flow'[b] = IF b = a THEN "Waiting" ELSE flow[b]
        /\ flow[a] = "Sending"
    BY <1>1, <1>2 DEF ClientTyped
  <2>3. QED
    BY <1>1, <2>1, <2>2 DEF FlowFits, Exchanging
<1>8. QED
  BY <1>4, <1>5, <1>6, <1>7 DEF ClientInv

\* An account is dropped: nobody waits for its commands any more.
LEMMA DropInv ==
  ASSUME ClientInv, NEW a \in Sharer, Drop(a)
  PROVE  ClientInv'
<1>1. /\ flow' = [flow EXCEPT ![a] = "Gone"]
      /\ queue' = [i \in DOMAIN queue |->
                     IF queue[i].account = a THEN [queue[i] EXCEPT !.waits = FALSE]
                     ELSE queue[i]]
      /\ UNCHANGED <<asks, acted, outcome, unread, current, worker>>
      /\ UNCHANGED <<client, server, up, down, heard, observed>>
  BY DEF Drop, session, history
<1>2. ClientTyped /\ CallersWait
  BY DEF ClientInv
<1>3. /\ DOMAIN queue = 1 .. Len(queue) /\ Len(queue) \in Nat
      /\ \A i \in DOMAIN queue : queue[i] \in Command
  BY <1>2 DEF ClientTyped
<1>4. ASSUME NEW i \in DOMAIN queue
      PROVE  /\ queue'[i] \in Command
             /\ queue'[i].account = queue[i].account
             /\ queue'[i].waits => queue[i].waits /\ queue[i].account # a
  BY <1>1, <1>3 DEF Command
<1>5. DOMAIN queue' = DOMAIN queue
  BY <1>1
<1>6. ClientTyped'
  <2>1. queue' \in Seq(Command)
    <3>1. queue' \in [1 .. Len(queue) -> Command]
      BY <1>1, <1>3, <1>4
    <3>2. QED
      BY <1>3, <3>1, SeqDef
  <2>2. QED
    BY <1>1, <1>2, <2>1 DEF ClientTyped, Stage, Ended
<1>7. CallersWait'
  BY <1>1, <1>2, <1>4, <1>5 DEF CallersWait, ClientTyped
<1>8. OneInFlight' /\ AnswersReachTheirCaller' /\ CountersAgree'
  BY <1>1 DEF ClientInv, OneInFlight, AnswersReachTheirCaller, CountersAgree
<1>9. ASSUME NEW b \in Sharer PROVE FlowFits(b)'
  <2>1. FlowFits(b) /\ (Noted(b)' <=> Noted(b))
    BY <1>1 DEF ClientInv, Noted
  <2>2. flow'[b] = IF b = a THEN "Gone" ELSE flow[b]
    BY <1>1, <1>2 DEF ClientTyped
  <2>3. QED
    BY <1>1, <2>1, <2>2 DEF FlowFits, Exchanging
<1>10. QED
  BY <1>6, <1>7, <1>8, <1>9 DEF ClientInv

-----------------------------------------------------------------------------
(* The steps of the worker.                                                *)

\* What is left of a sequence without its first element.
LEMMA TailOf ==
  ASSUME NEW S, NEW s \in Seq(S), s # <<>>
  PROVE  /\ Tail(s) \in Seq(S) /\ Head(s) \in S
         /\ 1 \in DOMAIN s /\ Head(s) = s[1]
         /\ Len(s) \in Nat /\ Len(Tail(s)) = Len(s) - 1
         /\ \A i \in DOMAIN Tail(s) :
              i \in Nat /\ i + 1 \in DOMAIN s /\ Tail(s)[i] = s[i + 1]
OBVIOUS

\* What is left of the queue without its first command.
LEMMA TailFacts ==
  ASSUME ClientTyped, queue # <<>>, queue' = Tail(queue)
  PROVE  /\ queue' \in Seq(Command) /\ Head(queue) \in Command
         /\ 1 \in DOMAIN queue /\ Head(queue) = queue[1]
         /\ \A i \in DOMAIN queue' :
              i + 1 \in DOMAIN queue /\ i + 1 # 1 /\ queue'[i] = queue[i + 1]
         /\ \A i, j \in DOMAIN queue' : i # j => i + 1 # j + 1
BY TailOf DEF ClientTyped

\* A command is sealed and written: it is the only one on its way.
LEMMA TakeInv ==
  ASSUME ClientInv, Take(TRUE), Sealable
  PROVE  ClientInv'
<1>1. /\ worker = "Running" /\ current = NoCommand
      /\ queue # <<>> /\ Head(queue) # NoCommand
      /\ queue' = Tail(queue) /\ current' = Head(queue)
      /\ up' = Append(up, client.send)
      /\ client' = [client EXCEPT !.send = @ + 1]
      /\ UNCHANGED <<flow, asks, acted, outcome, unread, worker>>
      /\ UNCHANGED <<server, down, heard, observed>>
  BY DEF Take, history, StopCommand
<1>2. client.send < FrameLimit
  BY DEF Sealable
<1>3. ClientTyped /\ CallersWait /\ OneInFlight
  BY DEF ClientInv
<1>4. up = <<>> /\ server.receive = client.send
  BY <1>1, <1>3 DEF OneInFlight, ClientTyped
<1>5. /\ client.send \in Nat /\ server.receive \in Nat /\ FrameLimit \in Nat
      /\ client'.send = client.send + 1 /\ client'.receive = client.receive
      /\ (client'.closed <=> client.closed)
  BY <1>1, <1>3, ClientAssumption DEF ClientTyped
<1>6. up' \in Seq(Nat) /\ Len(up') = 1 /\ DOMAIN up' = {1} /\ up'[1] = client.send
  BY <1>1, <1>4, <1>5
<1>7. ClientTyped'
  <2>1. client \in [send : Nat, receive : Nat, closed : BOOLEAN]
    BY <1>3 DEF ClientTyped
  <2>2. client' \in [send : Nat, receive : Nat, closed : BOOLEAN]
    <3>1. client' = [client EXCEPT !.send = @ + 1]
      BY <1>1
    <3>2. QED
      BY <2>1, <3>1
  <2>3. QED
    BY <1>1, <1>3, <1>6, <2>2, TailFacts DEF ClientTyped
<1>8. CallersWait'
  <2>1. CallersWait /\ ClientTyped
    BY <1>3
  <2>2. ASSUME Head(queue).waits
        PROVE  /\ Head(queue).account \in Sharer
               /\ flow[Head(queue).account] = "Waiting"
    BY <1>1, <2>1, <2>2, TailFacts DEF CallersWait
  <2>3. ASSUME NEW i \in DOMAIN queue', queue'[i].waits
        PROVE  /\ queue'[i].account \in Sharer
               /\ flow[queue'[i].account] = "Waiting"
               /\ Head(queue).waits => queue'[i].account # Head(queue).account
               /\ \A j \in DOMAIN queue' :
                    j # i /\ queue'[j].waits => queue'[j].account # queue'[i].account
    BY <1>1, <2>1, <2>3, TailFacts DEF CallersWait
  <2>4. QED
    BY <1>1, <2>2, <2>3 DEF CallersWait
<1>9. OneInFlight'
  BY <1>1, <1>3, <1>4, <1>5, <1>6 DEF OneInFlight
<1>10. CountersAgree' /\ AnswersReachTheirCaller'
  <2>1. CountersAgree /\ AnswersReachTheirCaller
    BY DEF ClientInv
  <2>2. CountersAgree'
    BY <1>1, <1>2, <1>4, <1>5, <1>6, <2>1 DEF CountersAgree
  <2>3. QED
    BY <1>1, <2>1, <2>2 DEF AnswersReachTheirCaller
<1>11. ASSUME NEW b \in Sharer PROVE FlowFits(b)'
  <2>1. FlowFits(b)
    BY DEF ClientInv
  <2>2. ~Noted(b) /\ ~Noted(b)'
    BY <1>1, <1>6 DEF Noted, NoCommand
  <2>3. QED
    BY <1>1, <2>1, <2>2 DEF FlowFits
<1>12. QED
  BY <1>7, <1>8, <1>9, <1>10, <1>11 DEF ClientInv

\* The worker ends, and nobody whose request was served still waits for it.
LEMMA WorkerEnds ==
  ASSUME ClientInv, worker' # "Running",
         worker' \in {"Ended", "Stopped"},
         current' = NoCommand, queue' \in Seq(Command),
         client' \in [send : Nat, receive : Nat, closed : BOOLEAN],
         down' \in Seq(Answer),
         \A i \in DOMAIN down' : down'[i].request < server.receive,
         client.send <= client'.send, CountersAgree',
         UNCHANGED <<asks, acted, outcome, unread, up, server, heard, observed>>,
         \/ flow' = flow
         \/ \E c \in Sharer : flow' = [flow EXCEPT ![c] = "Failed"],
         \A a \in Sharer : flow'[a] \in Exchanging => ~Noted(a)
  PROVE  ClientInv'
<1>1. ClientTyped /\ OneInFlight
  BY DEF ClientInv
<1>2. NoCommand \in Command
  BY DEF NoCommand, Command
<1>3. ClientTyped'
  BY <1>1, <1>2 DEF ClientTyped, Stage, Ended
<1>4. CallersWait'
  BY DEF CallersWait, NoCommand
<1>5. OneInFlight'
  BY <1>1 DEF OneInFlight, ClientTyped
<1>6. AnswersReachTheirCaller'
  BY DEF ClientInv, AnswersReachTheirCaller
<1>7. ASSUME NEW b \in Sharer PROVE FlowFits(b)'
  <2>1. FlowFits(b)
    BY DEF ClientInv
  <2>2. ~Noted(b)'
    BY DEF Noted, NoCommand
  <2>3. flow'[b] = flow[b] \/ flow'[b] = "Failed"
    BY <1>1 DEF ClientTyped
  <2>4. QED
    BY <2>1, <2>2, <2>3 DEF FlowFits, Exchanging
<1>8. QED
  BY <1>3, <1>4, <1>5, <1>6, <1>7 DEF ClientInv

\* The error of a caller that does not survive it.
LEMMA FailsEnds ==
  ASSUME NEW a, Fails(a, FALSE)
  PROVE  flow' = [flow EXCEPT ![a] = "Failed"]
BY DEF Fails

\* A command that cannot be sealed or written ends the worker.
LEMMA TakeFailsInv ==
  ASSUME ClientInv, NEW written \in BOOLEAN, Take(written), ~(Sealable /\ written)
  PROVE  ClientInv'
<1>1. /\ worker = "Running" /\ current = NoCommand
      /\ queue # <<>> /\ queue' = Tail(queue)
      /\ worker' = "Ended" /\ current' = NoCommand
      /\ up' = up
      /\ UNCHANGED <<asks, acted, outcome, unread, server, down, heard, observed>>
      /\ IF Head(queue).waits THEN Fails(Head(queue).account, FALSE)
         ELSE UNCHANGED flow
  BY DEF Take, history
<1>2. ClientTyped /\ CallersWait /\ OneInFlight
  BY DEF ClientInv
<1>3. /\ queue' \in Seq(Command)
      /\ Head(queue).waits => Head(queue).account \in Sharer
  BY <1>1, <1>2, TailFacts DEF CallersWait
<1>4. \/ flow' = flow
      \/ \E c \in Sharer : flow' = [flow EXCEPT ![c] = "Failed"]
  BY <1>1, <1>3, FailsEnds
<1>5. /\ client' \in [send : Nat, receive : Nat, closed : BOOLEAN]
      /\ client.send <= client'.send /\ CountersAgree'
  <2>1. client \in [send : Nat, receive : Nat, closed : BOOLEAN] /\ CountersAgree
    BY <1>2 DEF ClientTyped, ClientInv
  <2>2. CASE Sealable
    <3>1. client' = [client EXCEPT !.send = @ + 1] /\ client.send < FrameLimit
      BY <2>2 DEF Take, Sealable
    <3>2. client' \in [send : Nat, receive : Nat, closed : BOOLEAN]
      BY <2>1, <3>1
    <3>3. /\ client'.send = client.send + 1 /\ client'.receive = client.receive
          /\ (client'.closed <=> client.closed)
          /\ client.send \in Nat /\ FrameLimit \in Nat
      BY <2>1, <3>1, ClientAssumption
    <3>4. QED
      BY <1>1, <2>1, <3>1, <3>2, <3>3 DEF CountersAgree
  <2>3. CASE ~Sealable
    <3>1. client' = [client EXCEPT !.closed = TRUE]
      BY <2>3 DEF Take
    <3>2. client' \in [send : Nat, receive : Nat, closed : BOOLEAN]
      BY <2>1, <3>1
    <3>3. client'.send = client.send /\ client'.closed /\ client.send \in Nat
      BY <2>1, <3>1
    <3>4. QED
      BY <1>1, <2>1, <3>2, <3>3 DEF CountersAgree
  <2>4. QED
    BY <2>2, <2>3
<1>6. \A a \in Sharer : ~Noted(a)
  BY <1>1 DEF Noted, NoCommand
<1>7. \A i \in DOMAIN down' : down'[i].request < server.receive
  BY <1>1, <1>2 DEF OneInFlight
<1>8. down' \in Seq(Answer)
  BY <1>1, <1>2 DEF ClientTyped
<1>9. QED
  BY <1>1, <1>3, <1>4, <1>5, <1>6, <1>7, <1>8, WorkerEnds

\* The last answer of the worker reaches the caller of the exchange.
LEMMA LastAnswerFacts ==
  ASSUME ClientInv, current # NoCommand, LastAnswer
  PROVE  /\ worker' = "Ended" /\ current' = NoCommand
         /\ \/ flow' = flow
            \/ \E c \in Sharer : flow' = [flow EXCEPT ![c] = "Failed"]
         /\ \A a \in Sharer : flow'[a] \in Exchanging => ~Noted(a)
<1>1. ClientTyped /\ CallersWait
  BY DEF ClientInv
<1>2. current.waits => /\ current.account \in Sharer
                       /\ flow[current.account] \in {"Waiting", "Gone"}
  BY <1>1 DEF CallersWait
<1>3. CASE Expected
  <2>1. flow' = [flow EXCEPT ![current.account] = "Failed"]
    BY <1>3, FailsEnds DEF LastAnswer
  <2>2. current.account \in Sharer /\ flow'[current.account] = "Failed"
    BY <1>1, <1>2, <1>3, <2>1 DEF Expected, ClientTyped
  <2>3. QED
    BY <2>1, <2>2 DEF LastAnswer, Noted, Exchanging
<1>4. CASE ~Expected
  BY <1>2, <1>4 DEF LastAnswer, Noted, Exchanging, Expected
<1>5. QED
  BY <1>3, <1>4

\* A timeout or the end of the stream.
LEMMA ReadFailsInv ==
  ASSUME ClientInv, ReadFails
  PROVE  ClientInv'
<1>1. /\ current # NoCommand /\ LastAnswer
      /\ UNCHANGED <<asks, acted, outcome, unread, queue>>
      /\ UNCHANGED <<client, server, up, down, heard, observed>>
  BY DEF ReadFails, session, history
<1>2. ClientTyped /\ OneInFlight /\ CountersAgree
  BY DEF ClientInv
<1>3. /\ queue' \in Seq(Command)
      /\ client' \in [send : Nat, receive : Nat, closed : BOOLEAN]
      /\ down' \in Seq(Answer)
      /\ client.send <= client'.send
  BY <1>1, <1>2 DEF ClientTyped
<1>4. CountersAgree' /\ \A i \in DOMAIN down' : down'[i].request < server.receive
  BY <1>1, <1>2 DEF CountersAgree, OneInFlight
<1>5. QED
  BY <1>1, <1>3, <1>4, LastAnswerFacts, WorkerEnds

\* What is left of the answers behind the first.
LEMMA DownFacts ==
  ASSUME ClientTyped, OneInFlight, down # <<>>, down' = Tail(down)
  PROVE  /\ Head(down) \in Answer
         /\ Head(down) = down[1] /\ 1 \in DOMAIN down
         /\ down' \in Seq(Answer)
         /\ Len(down) \in Nat /\ Len(down') = Len(down) - 1
         /\ Head(down).request < server.receive
         /\ \A i \in DOMAIN down' :
              i \in Nat /\ i + 1 \in DOMAIN down /\ down'[i] = down[i + 1]
         /\ \A i \in DOMAIN down' : down'[i].request < server.receive
<1>1. down \in Seq(Answer)
  BY DEF ClientTyped
<1>2. /\ Head(down) \in Answer
      /\ Head(down) = down[1] /\ 1 \in DOMAIN down
      /\ down' \in Seq(Answer)
      /\ Len(down) \in Nat /\ Len(down') = Len(down) - 1
      /\ \A i \in DOMAIN down' :
           i \in Nat /\ i + 1 \in DOMAIN down /\ down'[i] = down[i + 1]
  BY <1>1, TailOf
<1>3. QED
  BY <1>2 DEF OneInFlight

\* A frame that opens moves the counter on; any other closes the session.
LEMMA ReadCounters ==
  ASSUME ClientInv, Read
  PROVE  /\ client' \in [send : Nat, receive : Nat, closed : BOOLEAN]
         /\ client'.send = client.send /\ CountersAgree'
<1>1. /\ down # <<>> /\ down' = Tail(down) /\ UNCHANGED <<server, up>>
      /\ client' = IF Openable(Head(down)) THEN [client EXCEPT !.receive = @ + 1]
                   ELSE [client EXCEPT !.closed = TRUE]
  BY DEF Read
<1>2. ClientTyped /\ OneInFlight /\ CountersAgree
  BY DEF ClientInv
<1>3. client \in [send : Nat, receive : Nat, closed : BOOLEAN]
  BY <1>2 DEF ClientTyped
<1>4. CASE Openable(Head(down))
  <2>1. client' = [client EXCEPT !.receive = @ + 1]
    BY <1>1, <1>4
  <2>2. /\ client' \in [send : Nat, receive : Nat, closed : BOOLEAN]
        /\ client'.send = client.send /\ client'.receive = client.receive + 1
        /\ (client'.closed <=> client.closed)
    BY <1>3, <2>1
  <2>3. ~client.closed
    BY <1>4 DEF Openable
  <2>4. /\ \A i \in DOMAIN down : down[i].counter = client.receive + i - 1
        /\ client.receive + Len(down) = server.send
        /\ client.receive \in Nat
    BY <1>2, <1>3, <2>3 DEF CountersAgree
  <2>5. /\ \A i \in DOMAIN down' : down'[i].counter = client'.receive + i - 1
        /\ client'.receive + Len(down') = server.send
    <3>1. /\ Len(down) \in Nat /\ Len(down') = Len(down) - 1
          /\ \A i \in DOMAIN down' :
               i \in Nat /\ i + 1 \in DOMAIN down /\ down'[i] = down[i + 1]
      BY <1>1, <1>2, DownFacts
    <3>2. ASSUME NEW i \in DOMAIN down'
          PROVE  down'[i].counter = client'.receive + i - 1
      <4>1. down[i + 1].counter = client.receive + (i + 1) - 1 /\ i \in Nat
        BY <2>4, <3>1
      <4>2. QED
        BY <2>2, <2>4, <3>1, <4>1
    <3>3. client'.receive + Len(down') = server.send
      BY <2>2, <2>4, <3>1
    <3>4. QED
      BY <3>2, <3>3
  <2>6. QED
    BY <1>1, <1>2, <2>2, <2>5 DEF CountersAgree
<1>5. CASE ~Openable(Head(down))
  <2>1. client' = [client EXCEPT !.closed = TRUE]
    BY <1>1, <1>5
  <2>2. /\ client' \in [send : Nat, receive : Nat, closed : BOOLEAN]
        /\ client'.send = client.send /\ client'.closed
    BY <1>3, <2>1
  <2>3. QED
    BY <1>1, <1>2, <2>2 DEF CountersAgree
<1>6. QED
  BY <1>4, <1>5

\* The answer to the request in progress: Ceylith has served it, so that what
\* it observes was noted before the caller goes on.
LEMMA ReadAnswerInv ==
  ASSUME ClientInv, Read, Openable(Head(down)), Bound(Head(down))
  PROVE  ClientInv'
<1>1. /\ current # NoCommand /\ current' = NoCommand
      /\ down # <<>> /\ down' = Tail(down)
      /\ UNCHANGED <<asks, acted, outcome, unread, queue, worker, server, up, observed>>
      /\ IF Expected
         THEN /\ flow' = [flow EXCEPT ![current.account] = "Answered"]
              /\ heard' = heard \union
                   {[asked |-> client.send - 1, answered |-> Head(down).request]}
         ELSE UNCHANGED <<flow, heard>>
  BY DEF Read
<1>2. ClientTyped /\ CallersWait /\ OneInFlight
  BY DEF ClientInv
<1>3. worker = "Running"
  BY <1>1, <1>2 DEF CallersWait
<1>4. current.waits => /\ current.account \in Sharer
                       /\ flow[current.account] \in {"Waiting", "Gone"}
  BY <1>2 DEF CallersWait
<1>5. up = <<>>
  <2>1. Head(down).request < server.receive /\ Head(down).request = client.send - 1
    BY <1>1, <1>2, DownFacts DEF Bound
  <2>2. /\ server.receive + Len(up) = client.send /\ up \in Seq(Nat)
        /\ server.receive \in Nat /\ client.send \in Nat
    BY <1>2, <1>3 DEF OneInFlight, ClientTyped
  <2>3. QED
    BY <2>1, <2>2
<1>6. Expected => flow' = [flow EXCEPT ![current.account] = "Answered"]
  BY <1>1
<1>7. ~Expected => flow' = flow
  BY <1>1
<1>8. ClientTyped'
  <2>1. flow' \in [Sharer -> Stage]
    BY <1>2, <1>6, <1>7 DEF ClientTyped, Stage
  <2>2. current' \in Command
    BY <1>1 DEF NoCommand, Command
  <2>3. QED
    BY <1>1, <1>2, <2>1, <2>2, ReadCounters, DownFacts DEF ClientTyped
<1>9. CallersWait'
  <2>1. ~NoCommand.waits
    BY DEF NoCommand
  <2>2. ASSUME NEW i \in DOMAIN queue, queue[i].waits
        PROVE  /\ queue[i].account \in Sharer
               /\ flow'[queue[i].account] = "Waiting"
    <3>1. /\ queue[i].account \in Sharer /\ flow[queue[i].account] = "Waiting"
          /\ current.waits => queue[i].account # current.account
      BY <1>2, <1>3, <2>2 DEF CallersWait
    <3>2. Expected => current.waits
      BY DEF Expected
    <3>3. QED
      BY <1>2, <1>6, <1>7, <3>1, <3>2 DEF ClientTyped
  <2>3. QED
    BY <1>1, <1>2, <1>3, <2>1, <2>2 DEF CallersWait
<1>10. OneInFlight'
  <2>1. client'.send = client.send
    BY ReadCounters
  <2>2. QED
    BY <1>1, <1>2, <1>5, <2>1, DownFacts DEF OneInFlight
<1>11. AnswersReachTheirCaller'
  BY <1>1 DEF ClientInv, AnswersReachTheirCaller, Bound
<1>12. ASSUME NEW b \in Sharer PROVE FlowFits(b)'
  <2>1. FlowFits(b)
    BY DEF ClientInv
  <2>2. ~Noted(b)'
    BY <1>1 DEF Noted, NoCommand
  <2>3. CASE Expected /\ current.account = b
    <3>1. flow[b] = "Waiting" /\ Noted(b)
      BY <1>5, <2>3 DEF Expected, Noted
    <3>2. acted[b] = observed[b]
      BY <1>2, <2>1, <3>1 DEF FlowFits, Exchanging, ClientTyped
    <3>3. flow'[b] = "Answered"
      BY <1>2, <1>6, <2>3 DEF ClientTyped
    <3>4. QED
      BY <1>1, <2>1, <3>1, <3>2, <3>3 DEF FlowFits, Exchanging
  <2>4. CASE ~(Expected /\ current.account = b)
    <3>1. flow'[b] = flow[b]
      BY <1>2, <1>6, <1>7, <2>4 DEF ClientTyped
    <3>2. flow[b] \in Exchanging => ~Noted(b)
      BY <1>4, <2>4 DEF Expected, Noted, Exchanging
    <3>3. QED
      BY <1>1, <2>1, <2>2, <3>1, <3>2 DEF FlowFits
  <2>5. QED
    BY <2>3, <2>4
<1>13. QED
  BY <1>8, <1>9, <1>10, <1>11, <1>12, ReadCounters DEF ClientInv

\* An answer that does not open or belongs to another request.
LEMMA ReadRefusedInv ==
  ASSUME ClientInv, Read, ~(Openable(Head(down)) /\ Bound(Head(down)))
  PROVE  ClientInv'
<1>1. /\ current # NoCommand /\ LastAnswer
      /\ down # <<>> /\ down' = Tail(down)
      /\ UNCHANGED <<asks, acted, outcome, unread, queue, server, up, heard, observed>>
  BY DEF Read
<1>2. ClientTyped /\ OneInFlight
  BY DEF ClientInv
<1>3. queue' \in Seq(Command) /\ client.send \in Nat
  BY <1>1, <1>2 DEF ClientTyped
<1>4. client.send <= client'.send
  BY <1>3, ReadCounters
<1>5. QED
  BY <1>1, <1>2, <1>3, <1>4, ReadCounters, DownFacts, LastAnswerFacts, WorkerEnds

\* The shutdown stands behind the commands that are in the queue.
LEMMA StopInv ==
  ASSUME ClientInv, Stop
  PROVE  ClientInv'
<1>1. /\ current = NoCommand /\ queue # <<>> /\ queue' = Tail(queue)
      /\ worker' = "Stopped" /\ current' = NoCommand /\ flow' = flow
      /\ UNCHANGED <<asks, acted, outcome, unread>>
      /\ UNCHANGED <<client, server, up, down, heard, observed>>
  BY DEF Stop, accounts, session, history
<1>2. ClientTyped /\ OneInFlight /\ CountersAgree
  BY DEF ClientInv
<1>3. /\ queue' \in Seq(Command)
      /\ client' \in [send : Nat, receive : Nat, closed : BOOLEAN]
      /\ down' \in Seq(Answer)
      /\ client.send <= client'.send
  BY <1>1, <1>2, TailFacts DEF ClientTyped
<1>4. CountersAgree' /\ \A i \in DOMAIN down' : down'[i].request < server.receive
  BY <1>1, <1>2 DEF CountersAgree, OneInFlight
<1>5. \A a \in Sharer : ~Noted(a)
  BY <1>1 DEF Noted, NoCommand
<1>6. QED
  BY <1>1, <1>3, <1>4, <1>5, WorkerEnds

LEMMA ShutdownInv ==
  ASSUME ClientInv, Shutdown
  PROVE  ClientInv'
<1>1. /\ queue' = Append(queue, NoCommand)
      /\ UNCHANGED <<flow, asks, acted, outcome, unread, current, worker>>
      /\ UNCHANGED <<client, server, up, down, heard, observed>>
  BY DEF Shutdown, StopCommand, accounts, session, history
<1>2. ClientTyped /\ CallersWait
  BY DEF ClientInv
<1>3. NoCommand \in Command /\ ~NoCommand.waits
  BY DEF NoCommand, Command
<1>4. /\ queue' \in Seq(Command)
      /\ \A i \in DOMAIN queue' :
           queue'[i].waits => i \in DOMAIN queue /\ queue'[i] = queue[i]
  BY <1>1, <1>2, <1>3 DEF ClientTyped
<1>5. ClientTyped'
  BY <1>1, <1>2, <1>4 DEF ClientTyped
<1>6. CallersWait'
  BY <1>1, <1>2, <1>4 DEF CallersWait
<1>7. /\ OneInFlight' /\ AnswersReachTheirCaller' /\ CountersAgree'
      /\ \A a \in Sharer : FlowFits(a)'
  BY <1>1 DEF ClientInv, OneInFlight, AnswersReachTheirCaller, CountersAgree, FlowFits, Noted
<1>8. QED
  BY <1>5, <1>6, <1>7 DEF ClientInv

-----------------------------------------------------------------------------
(* Ceylith and the network.                                                *)

\* The answers to the only request on its way carry the next counters.
LEMMA ServeInv ==
  ASSUME ClientInv, NEW twice \in BOOLEAN, Serve(twice)
  PROVE  ClientInv'
<1> DEFINE n == IF twice THEN 2 ELSE 1
           answers == [i \in 1 .. n |-> Answered(Head(up), server.send + i - 1, TRUE)]
<1>1. /\ up # <<>> /\ up' = Tail(up)
      /\ server.send < FrameLimit
      /\ server' = [send |-> server.send + n, receive |-> server.receive + 1]
      /\ down' = down \o answers
      /\ UNCHANGED <<flow, asks, acted, outcome, unread, queue, current, worker>>
      /\ UNCHANGED <<client, heard>>
  BY DEF Serve, accounts, channel
<1>2. observed' = IF current # NoCommand /\ current.waits
                      /\ asks[current.account] = "Observe"
                   THEN [observed EXCEPT ![current.account] = @ + 1] ELSE observed
  BY DEF Serve
<1>3. ClientTyped /\ CallersWait /\ OneInFlight /\ CountersAgree
  BY DEF ClientInv
<1>4. n \in {1, 2}
  OBVIOUS
<1> HIDE DEF n
<1>5. /\ server.send \in Nat /\ server.receive \in Nat /\ client.receive \in Nat
      /\ client.send \in Nat /\ server'.send = server.send + n
      /\ server'.receive = server.receive + 1
  BY <1>1, <1>3 DEF ClientTyped
<1>6. /\ up \in Seq(Nat) /\ Len(up) = 1 /\ Head(up) = server.receive
      /\ up' = <<>> /\ up' \in Seq(Nat) /\ Len(up') = 0
  <2>1. up \in Seq(Nat) /\ Len(up) <= 1
    BY <1>3 DEF ClientTyped, OneInFlight
  <2>2. Len(up) = 1 /\ 1 \in DOMAIN up /\ Head(up) = up[1]
    <3>1. up # <<>> /\ Len(up) \in Nat
      BY <1>1, <2>1
    <3>2. Len(up) # 0
      BY <2>1, <3>1, EmptySeq
    <3>3. Head(up) = up[1] /\ 1 \in DOMAIN up
      BY <2>1, <3>1, TailOf
    <3>4. \A k \in Nat : k <= 1 /\ k # 0 => k = 1
      OBVIOUS
    <3>5. Len(up) \in Nat /\ Len(up) <= 1
      BY <2>1, <3>1
    <3>6. Len(up) = 1
      BY <3>2, <3>4, <3>5, Zenon
    <3>7. QED
      BY <3>3, <3>6
  <2>3. up[1] = server.receive
    BY <1>3, <1>5, <2>2 DEF CountersAgree
  <2>4. QED
    BY <1>1, <2>1, <2>2, <2>3
<1>7. /\ answers \in Seq(Answer) /\ Len(answers) = n
      /\ \A i \in 1 .. n : /\ answers[i].request = server.receive
                           /\ answers[i].counter = server.send + i - 1
  <2>1. ASSUME NEW i \in 1 .. n
        PROVE  /\ answers[i] \in Answer
               /\ answers[i].request = server.receive
               /\ answers[i].counter = server.send + i - 1
    <3>1. server.send + i - 1 \in Nat
      BY <1>4, <1>5, <2>1
    <3>2. answers[i] = [request |-> server.receive, counter |-> server.send + i - 1,
                        genuine |-> TRUE]
      BY <1>6 DEF Answered
    <3> HIDE DEF answers
    <3>3. QED
      BY <1>5, <3>1, <3>2 DEF Answer
  <2>2. answers \in [1 .. n -> Answer]
    <3>1. \A i \in 1 .. n : Answered(Head(up), server.send + i - 1, TRUE) \in Answer
      BY <2>1
    <3>2. QED
      BY <3>1
  <2>3. n \in Nat
    BY <1>4
  <2> HIDE DEF answers
  <2>4. answers \in Seq(Answer) /\ Len(answers) = n
    BY <2>2, <2>3
  <2>5. QED
    BY <2>1, <2>4
<1> HIDE DEF answers
<1>8. /\ down' \in Seq(Answer) /\ Len(down') = Len(down) + n /\ Len(down) \in Nat
      /\ \A i \in DOMAIN down' :
           \/ i \in DOMAIN down /\ down'[i] = down[i]
           \/ /\ i - Len(down) \in 1 .. n /\ i \in Nat
              /\ down'[i] = answers[i - Len(down)]
  <2>1. down \in Seq(Answer)
    BY <1>3 DEF ClientTyped
  <2>2. QED
    BY <1>1, <1>4, <1>7, <2>1, ConcatProperties
<1>9. ClientTyped'
  <2>1. server' \in [send : Nat, receive : Nat]
    <3>1. server.send + n \in Nat /\ server.receive + 1 \in Nat
      BY <1>4, <1>5
    <3>2. QED
      BY <1>1, <3>1
  <2>2. observed' \in [Sharer -> Nat]
    <3>1. observed \in [Sharer -> Nat]
      BY <1>3 DEF ClientTyped
    <3>2. observed' = observed
          \/ observed' = [observed EXCEPT ![current.account] = @ + 1]
      BY <1>2
    <3>3. QED
      BY <3>1, <3>2
  <2>3. QED
    BY <1>1, <1>3, <1>6, <1>8, <2>1, <2>2 DEF ClientTyped
<1>10. CallersWait'
  BY <1>1, <1>3 DEF CallersWait
<1>11. OneInFlight'
  <2>1. \A i \in DOMAIN down' : down'[i].request < server'.receive
    <3>1. \A i \in DOMAIN down : down[i].request < server.receive
      BY <1>3 DEF OneInFlight
    <3>2. \A i \in DOMAIN down' : down'[i] \in Answer
      BY <1>8
    <3>3. ASSUME NEW i \in DOMAIN down' PROVE down'[i].request < server'.receive
      <4>1. down'[i].request \in Nat
        BY <3>2 DEF Answer
      <4>2. CASE i \in DOMAIN down /\ down'[i] = down[i]
        BY <1>5, <3>1, <4>1, <4>2
      <4>3. CASE /\ i - Len(down) \in 1 .. n /\ i \in Nat
                 /\ down'[i] = answers[i - Len(down)]
        BY <1>5, <1>7, <4>3
      <4>4. QED
        BY <1>8, <4>2, <4>3
    <3>4. QED
      BY <3>3
  <2>2. /\ worker' = worker /\ client'.send = client.send
        /\ client.send \in Nat /\ server.receive \in Nat
        /\ server'.receive + Len(up') = server.receive + Len(up)
    <3>1. worker' = worker /\ client' = client
      BY <1>1
    <3>2. server'.receive + Len(up') = server.receive + Len(up)
      BY <1>5, <1>6
    <3>3. QED
      BY <1>5, <3>1, <3>2
  <2>3. /\ worker = "Running" => server.receive + Len(up) = client.send
        /\ server.receive + Len(up) <= client.send
    BY <1>3 DEF OneInFlight
  <2>4. QED
    BY <1>6, <2>1, <2>2, <2>3 DEF OneInFlight
<1>12. CountersAgree' /\ AnswersReachTheirCaller'
  <2>1. AnswersReachTheirCaller'
    BY <1>1 DEF ClientInv, AnswersReachTheirCaller
  <2>2. server'.receive <= FrameLimit
    BY <1>3, <1>5, <1>6, ClientAssumption DEF OneInFlight, CountersAgree
  <2>3. ASSUME ~client.closed
        PROVE  /\ \A i \in DOMAIN down' : down'[i].counter = client.receive + i - 1
               /\ client.receive + Len(down') = server'.send
    <3>1. /\ \A i \in DOMAIN down : down[i].counter = client.receive + i - 1
          /\ client.receive + Len(down) = server.send
      BY <1>3, <2>3 DEF CountersAgree
    <3>2. ASSUME NEW i \in DOMAIN down'
          PROVE  down'[i].counter = client.receive + i - 1
      <4>1. CASE i \in DOMAIN down /\ down'[i] = down[i]
        BY <3>1, <4>1
      <4>2. CASE /\ i - Len(down) \in 1 .. n /\ i \in Nat
                 /\ down'[i] = answers[i - Len(down)]
        <5>1. down'[i].counter = server.send + (i - Len(down)) - 1
          BY <1>7, <4>2
        <5>2. QED
          BY <1>5, <1>8, <3>1, <4>2, <5>1
      <4>3. QED
        BY <1>8, <4>1, <4>2
    <3>3. client.receive + Len(down') = server'.send
      BY <1>4, <1>5, <1>8, <3>1
    <3>4. QED
      BY <3>2, <3>3
  <2>4. QED
    BY <1>1, <1>3, <1>6, <2>1, <2>2, <2>3 DEF CountersAgree
<1>13. ASSUME NEW b \in Sharer PROVE FlowFits(b)'
  <2>1. FlowFits(b) /\ ~Noted(b)
    BY <1>1 DEF ClientInv, Noted
  <2>2. observed[b] \in Nat /\ acted[b] \in Nat
    BY <1>3 DEF ClientTyped
  <2>3. CASE current.waits /\ current.account = b
    <3>1. flow[b] \in {"Waiting", "Gone"} /\ Noted(b)' /\ current # NoCommand
      BY <1>1, <1>3, <1>6, <2>3 DEF CallersWait, Noted, NoCommand
    <3>2. observed'[b] = IF asks[b] = "Observe" THEN observed[b] + 1 ELSE observed[b]
      BY <1>2, <1>3, <2>3, <3>1 DEF ClientTyped
    <3>3. QED
      BY <1>1, <2>1, <2>2, <3>1, <3>2 DEF FlowFits, Exchanging
  <2>4. CASE ~(current.waits /\ current.account = b)
    <3>1. ~Noted(b)'
      BY <1>1, <2>4 DEF Noted
    <3>2. observed'[b] = observed[b]
      BY <1>2, <1>3, <2>4 DEF ClientTyped
    <3>3. QED
      BY <1>1, <2>1, <3>1, <3>2 DEF FlowFits
  <2>5. QED
    BY <2>3, <2>4
<1>14. QED
  BY <1>9, <1>10, <1>11, <1>12, <1>13 DEF ClientInv

\* A frame that does not authenticate keeps its place and its counter.
LEMMA CorruptInv ==
  ASSUME ClientInv, Corrupt
  PROVE  ClientInv'
<1>1. /\ down' = [down EXCEPT ![1].genuine = FALSE]
      /\ UNCHANGED <<flow, asks, acted, outcome, unread, queue, current, worker>>
      /\ UNCHANGED <<client, server, up, heard, observed>>
  BY DEF Corrupt, accounts, channel, history
<1>2. ClientTyped
  BY DEF ClientInv
<1>3. down \in Seq(Answer)
  BY <1>2 DEF ClientTyped
<1>4. ASSUME NEW i \in DOMAIN down
      PROVE  /\ down'[i] \in Answer
             /\ down'[i].request = down[i].request
             /\ down'[i].counter = down[i].counter
  <2>1. down[i] \in Answer
    BY <1>3
  <2>2. down'[i] = IF i = 1 THEN [down[i] EXCEPT !.genuine = FALSE] ELSE down[i]
    BY <1>1
  <2>3. QED
    BY <2>1, <2>2 DEF Answer
<1>5. /\ down' \in Seq(Answer) /\ DOMAIN down' = DOMAIN down
      /\ Len(down') = Len(down)
  <2>1. /\ Len(down) \in Nat /\ DOMAIN down = 1 .. Len(down)
        /\ DOMAIN down' = DOMAIN down
    BY <1>1, <1>3
  <2>2. down' \in [1 .. Len(down) -> Answer]
    BY <1>1, <1>4, <2>1
  <2>3. QED
    BY <2>1, <2>2
<1>6. ClientTyped'
  BY <1>1, <1>2, <1>5 DEF ClientTyped
<1>7. CallersWait'
  BY <1>1 DEF ClientInv, CallersWait
<1>8. OneInFlight'
  BY <1>1, <1>4, <1>5 DEF ClientInv, OneInFlight
<1>9. CountersAgree' /\ AnswersReachTheirCaller'
  BY <1>1, <1>4, <1>5 DEF ClientInv, CountersAgree, AnswersReachTheirCaller
<1>10. \A a \in Sharer : FlowFits(a)'
  BY <1>1 DEF ClientInv, FlowFits, Noted
<1>11. QED
  BY <1>6, <1>7, <1>8, <1>9, <1>10 DEF ClientInv

-----------------------------------------------------------------------------
LEMMA ClientStep == ClientInv /\ [ClientNext]_clientVars => ClientInv'
<1> SUFFICES ASSUME ClientInv, [ClientNext]_clientVars PROVE ClientInv'
  OBVIOUS
<1>1. ASSUME NEW written \in BOOLEAN, Take(written) PROVE ClientInv'
  <2>1. CASE Sealable /\ written
    <3>1. Take(TRUE)
      BY <1>1, <2>1
    <3>2. QED
      BY <2>1, <3>1, TakeInv
  <2>2. CASE ~(Sealable /\ written)
    BY <1>1, <2>2, TakeFailsInv
  <2>3. QED
    BY <2>1, <2>2
<1>2. ASSUME Read PROVE ClientInv'
  BY <1>2, ReadAnswerInv, ReadRefusedInv
<1>3. CASE ReadFails \/ Stop \/ Shutdown \/ Corrupt
  BY <1>3, ReadFailsInv, StopInv, ShutdownInv, CorruptInv
<1>4. ASSUME NEW twice \in BOOLEAN, Serve(twice) PROVE ClientInv'
  BY <1>4, ServeInv
<1>5. ASSUME NEW a \in Sharer,
             \/ Enqueue(a) \/ Hear(a) \/ FlowStep(a) \/ AskReserve(a) \/ Drop(a)
             \/ \E built \in BOOLEAN : Begin(a, built)
      PROVE  ClientInv'
  <2>1. ASSUME FlowStep(a) PROVE ClientInv'
    BY <2>1, UpdateInv, ActInv DEF FlowStep
  <2>2. QED
    BY <1>5, <2>1, EnqueueInv, HearInv, AskInv, DropInv
<1>6. CASE UNCHANGED clientVars
  <2>1. /\ UNCHANGED <<flow, asks, acted, outcome, unread, queue, current, worker>>
        /\ UNCHANGED <<client, server, up, down, heard, observed>>
    BY <1>6 DEF clientVars, accounts, channel, session, history
  <2>2. QED
    BY <2>1 DEF ClientInv, ClientTyped, CallersWait, OneInFlight, FlowFits, Noted,
                AnswersReachTheirCaller, CountersAgree
<1>7. QED
  BY <1>1, <1>2, <1>3, <1>4, <1>5, <1>6 DEF ClientNext, WorkerStep

\* For every number of accounts, queue, message limit and length of a flow: an
\* account only takes the answer to its own request, both ends agree on the
\* next counter as long as the session is open, and an account comes online
\* only when Ceylith has all its observations and QQ owes no answer.
THEOREM ClientIsSoundCorrect == ClientSpec => []ClientIsSound
<1>1. ClientInv => ClientIsSound
  BY DEF ClientInv, FlowFits, FlowsEndClean, ClientIsSound
<1>2. QED
  BY <1>1, ClientStarts, ClientStep, PTL DEF ClientSpec

\* The worker seals nothing while a request is before Ceylith: the connection
\* carries one exchange at a time, whatever the accounts do.
OneExchange ==
  /\ Len(up) <= 1
  /\ worker = "Running" /\ current = NoCommand => up = <<>>

THEOREM OneExchangeCorrect == ClientSpec => []OneExchange
<1>1. ClientInv => OneExchange
  BY DEF ClientInv, OneInFlight, OneExchange
<1>2. QED
  BY <1>1, ClientStarts, ClientStep, PTL DEF ClientSpec
-----------------------------------------------------------------------------
(* The session with QQ: what the decoder takes of a push.                  *)

\* The elements of a set of positions in their order.
InRank(S) ==
  [k \in 1 .. Cardinality(S) |-> CHOOSE i \in S : Cardinality({j \in S : j <= i}) = k]

\* There are as many ranks as elements, and the ranks list them in their order.
LEMMA RanksList ==
  ASSUME NEW n \in Nat, NEW S \in SUBSET (1 .. n)
  PROVE  /\ Cardinality(S) \in 0 .. n
         /\ InRank(S) \in [1 .. Cardinality(S) -> S]
         /\ \A k, l \in 1 .. Cardinality(S) : k < l => InRank(S)[k] < InRank(S)[l]
         /\ \A i \in S : \E k \in 1 .. Cardinality(S) : InRank(S)[k] = i
<1> DEFINE C == Cardinality(S)
           UpTo(i) == {j \in S : j <= i}
           place == [i \in S |-> Cardinality(UpTo(i))]
<1>1. IsFiniteSet(S) /\ C \in Nat /\ C <= n
  <2>1. IsFiniteSet(1 .. n) /\ Cardinality(1 .. n) = n
    BY FS_Interval
  <2>2. IsFiniteSet(S) /\ Cardinality(S) <= Cardinality(1 .. n)
    BY <2>1, FS_Subset
  <2> QED
    BY <2>1, <2>2, FS_CardinalityType
<1>2. ASSUME NEW i \in S
      PROVE  IsFiniteSet(UpTo(i)) /\ Cardinality(UpTo(i)) \in 1 .. C
  <2>1. UpTo(i) \in SUBSET S /\ i \in UpTo(i)
    OBVIOUS
  <2> HIDE DEF UpTo
  <2>2. IsFiniteSet(UpTo(i)) /\ Cardinality(UpTo(i)) \in Nat /\ Cardinality(UpTo(i)) <= C
    BY <1>1, <2>1, FS_Subset, FS_CardinalityType
  <2>3. Cardinality(UpTo(i)) # 0
    BY <2>1, <2>2, FS_EmptySet
  <2> QED
    BY <1>1, <2>2, <2>3
<1>3. ASSUME NEW i \in S, NEW j \in S, i < j
      PROVE  Cardinality(UpTo(i)) < Cardinality(UpTo(j))
  <2>1. UpTo(i) \in SUBSET UpTo(j) /\ j \in UpTo(j) /\ j \notin UpTo(i)
    <3>1. i \in Nat /\ j \in Nat /\ S \subseteq Nat
      OBVIOUS
    <3>2. (\A x \in S : x <= i => x <= j) /\ ~ (j <= i) /\ j <= j
      BY <1>3, <3>1
    <3> QED
      BY <3>2
  <2>2. UpTo(i) # UpTo(j)
    BY <2>1
  <2> HIDE DEF UpTo
  <2>3. /\ Cardinality(UpTo(i)) <= Cardinality(UpTo(j))
        /\ Cardinality(UpTo(i)) # Cardinality(UpTo(j))
    BY <1>2, <2>1, <2>2, FS_Subset
  <2> QED
    BY <1>2, <2>3
<1>4. place \in Injection(S, 1 .. C)
  <2> HIDE DEF UpTo
  <2>1. place \in [S -> 1 .. C]
    BY <1>2
  <2>2. \A i, j \in S : i # j => place[i] # place[j]
    <3>1. TAKE i, j \in S
    <3>2. HAVE i # j
    <3>3. i < j \/ j < i
      BY <3>2
    <3> QED
      BY <1>2, <1>3, <3>3
  <2> HIDE DEF place
  <2> QED
    BY <2>1, <2>2 DEF Injection, IsInjective
<1>5. place \in Surjection(S, 1 .. C)
  <2> HIDE DEF place
  <2>1. IsFiniteSet(1 .. C) /\ Cardinality(1 .. C) = C
    BY <1>1, FS_Interval
  <2> QED
    BY <1>1, <1>4, <2>1, FS_Injection
<1>6. ASSUME NEW k \in 1 .. C
      PROVE  InRank(S)[k] \in S /\ place[InRank(S)[k]] = k
  <2>1. \E i \in S : place[i] = k
    <3> HIDE DEF place
    <3> QED
      BY <1>5 DEF Surjection
  <2>2. \E i \in S : Cardinality(UpTo(i)) = k
    BY <2>1
  <2>3. InRank(S)[k] = CHOOSE i \in S : Cardinality(UpTo(i)) = k
    BY DEF InRank
  <2> HIDE DEF UpTo
  <2> QED
    BY <2>2, <2>3
<1>7. ASSUME NEW k \in 1 .. C, NEW l \in 1 .. C, k < l
      PROVE  InRank(S)[k] < InRank(S)[l]
  <2> DEFINE i == InRank(S)[k]
             j == InRank(S)[l]
  <2>1. i \in S /\ j \in S /\ Cardinality(UpTo(i)) = k /\ Cardinality(UpTo(j)) = l
    BY <1>6
  <2> HIDE DEF i, j, UpTo
  <2>2. i # j /\ ~ (j < i)
    BY <1>3, <1>7, <2>1
  <2>3. i < j
    BY <2>1, <2>2
  <2> QED
    BY <2>3 DEF i, j
<1>8. ASSUME NEW i \in S
      PROVE  \E k \in 1 .. C : InRank(S)[k] = i
  <2>1. place[i] \in 1 .. C
    BY <1>2
  <2>2. place[InRank(S)[place[i]]] = place[i] /\ InRank(S)[place[i]] \in S
    BY <1>6, <2>1
  <2>3. InRank(S)[place[i]] = i
    <3> HIDE DEF place
    <3> QED
      BY <1>4, <2>2 DEF Injection, IsInjective
  <2> QED
    BY <2>1, <2>3
<1>9. InRank(S) \in [1 .. C -> S]
  <2>1. DOMAIN InRank(S) = 1 .. C /\ InRank(S) = [k \in 1 .. C |-> InRank(S)[k]]
    BY DEF InRank
  <2> QED
    BY <1>6, <2>1
<1> HIDE DEF place, UpTo
<1> QED
  BY <1>1, <1>7, <1>8, <1>9

\* A frame QQ sends: a push has the messages of its route, none twice.
FrameFits(f) ==
  /\ f.route # "Answer" =>
       /\ f.content \in Seq(Message)
       /\ \A i, j \in DOMAIN f.content : f.content[i] = f.content[j] => i = j
  /\ f.route \notin Messages \union {"Answer"} => f.content = <<>>

\* What QQ sends on an open session.
PushFrame == {f \in [route : Route, content : Seq(Nat)] : FrameFits(f)}

\* Of the messages of a push, the ones at some places in their order: those that
\* are not seen.
Selects(content, at, new) ==
  /\ new \in Seq(Message) /\ Len(new) <= Len(content)
  /\ at \in [DOMAIN new -> DOMAIN content]
  /\ \A k \in DOMAIN new : new[k] = content[at[k]] /\ new[k] \notin Seen
  /\ \A k, l \in DOMAIN new : k < l => at[k] < at[l]
  /\ \A i \in DOMAIN content : content[i] \notin Seen => \E k \in DOMAIN new : at[k] = i

\* What the decoder makes of an admitted push: its new messages in their order.
LEMMA NewSelects ==
  ASSUME NEW push \in PushFrame, Admitted(push)
  PROVE  \E at : Selects(push.content, at, New(push))
<1> DEFINE content == push.content
           S == NewAt(push)
           at == InRank(S)
<1>1. content \in Seq(Message) /\ Len(content) \in Nat /\ DOMAIN content = 1 .. Len(content)
  BY DEF PushFrame, FrameFits, Admitted
<1>2. S \in SUBSET (1 .. Len(content)) /\ S = {i \in DOMAIN content : content[i] \notin Seen}
  BY <1>1 DEF NewAt
<1>3. New(push) = [k \in 1 .. Cardinality(S) |-> content[at[k]]]
  BY DEF New, InRank
<1> HIDE DEF S, at, content
<1>4. /\ Cardinality(S) \in 0 .. Len(content) /\ at \in [1 .. Cardinality(S) -> S]
      /\ \A k, l \in 1 .. Cardinality(S) : k < l => at[k] < at[l]
      /\ \A i \in S : \E k \in 1 .. Cardinality(S) : at[k] = i
  BY <1>1, <1>2, RanksList DEF at
<1>5. /\ New(push) \in Seq(Message) /\ DOMAIN New(push) = 1 .. Cardinality(S)
      /\ Len(New(push)) = Cardinality(S)
  BY <1>1, <1>2, <1>3, <1>4
<1> DEFINE new == New(push)
<1>6. new \in Seq(Message) /\ Len(new) <= Len(content)
  BY <1>1, <1>4, <1>5
<1>7. at \in [DOMAIN new -> DOMAIN content]
  BY <1>1, <1>2, <1>4, <1>5
<1>8. \A k \in DOMAIN new : new[k] = content[at[k]] /\ new[k] \notin Seen
  BY <1>2, <1>3, <1>4, <1>5
<1>9. \A i \in DOMAIN content : content[i] \notin Seen => \E k \in DOMAIN new : at[k] = i
  BY <1>2, <1>4, <1>5
<1>10. \A k, l \in DOMAIN new : k < l => at[k] < at[l]
  BY <1>4, <1>5
<1> HIDE DEF new
<1>11. Selects(content, at, new)
  BY <1>6, <1>7, <1>8, <1>9, <1>10 DEF Selects
<1> QED
  BY <1>11 DEF content, new

-----------------------------------------------------------------------------
(* The order of messages: arrivals, queue and admissions.                  *)

\* How a message came in, and what is recorded of it.
Way == {"Direct", "Queued", "Dropped"}
Arrival == [message : Message, way : Way]

\* The messages that came, those that were admitted, the pushes that wait.
LedgerTypeOK ==
  /\ arrived \in Seq(Arrival) /\ admitted \in Seq(Message)
  /\ pushes \in Seq({push \in PushFrame : Admitted(push)})

\* What was admitted has arrived and was not dropped, what waits was put aside.
ArrivalsKnown ==
  /\ \A p \in DOMAIN admitted : \E i \in DOMAIN arrived :
       arrived[i].message = admitted[p] /\ arrived[i].way # "Dropped"
  /\ \A k \in DOMAIN pushes : \A x \in DOMAIN pushes[k].content : \E i \in DOMAIN arrived :
       arrived[i].message = pushes[k].content[x] /\ arrived[i].way = "Queued"

\* In a queue of pushes one message is nowhere behind another.
InOrder(waiting, message, other) ==
  \A k, l \in DOMAIN waiting :
    \A x \in DOMAIN waiting[k].content : \A y \in DOMAIN waiting[l].content :
      waiting[k].content[x] = message /\ waiting[l].content[y] = other
      => k < l \/ (k = l /\ x < y)

\* The queue has the order of the arrivals.
QueueInOrder ==
  \A i, j \in DOMAIN arrived :
    i < j /\ CameOnce(i) /\ CameOnce(j)
    => InOrder(pushes, arrived[i].message, arrived[j].message)

\* What was put aside is not admitted while an earlier one waits.
QueuedFirst ==
  \A i, j \in DOMAIN arrived :
    /\ i < j /\ CameOnce(i) /\ CameOnce(j) /\ arrived[j].way = "Queued"
    /\ \E p \in DOMAIN admitted : admitted[p] = arrived[j].message
    => \A k \in DOMAIN pushes : \A x \in DOMAIN pushes[k].content :
         pushes[k].content[x] # arrived[i].message

\* The order of messages, over every way in.
LedgerInv ==
  LedgerTypeOK /\ ArrivalsKnown /\ QueueInOrder /\ QueuedFirst /\ OnlyDirectReadsOvertake

\* new are the messages at the places at of content, in their order.
Picks(content, at, new) ==
  /\ new \in Seq(Message) /\ Len(new) <= Len(content)
  /\ at \in [DOMAIN new -> DOMAIN content]
  /\ \A k \in DOMAIN new : new[k] = content[at[k]]
  /\ \A k, l \in DOMAIN new : k < l => at[k] < at[l]

\* What arrives comes behind what arrived.
LEMMA ArrivalsGrow ==
  ASSUME LedgerTypeOK, NEW push \in PushFrame, Admitted(push),
         NEW way \in Way, Arrive(push, way)
  PROVE  LET content == push.content IN
         /\ arrived' \in Seq(Arrival)
         /\ \A i \in DOMAIN arrived : i \in DOMAIN arrived' /\ arrived'[i] = arrived[i]
         /\ \A x \in DOMAIN content :
              /\ Len(arrived) + x \in DOMAIN arrived'
              /\ arrived'[Len(arrived) + x] = [message |-> content[x], way |-> way]
         /\ \A i \in DOMAIN arrived' :
              i \in DOMAIN arrived \/ i - Len(arrived) \in DOMAIN content
<1> DEFINE content == push.content
           added == [i \in DOMAIN content |-> [message |-> content[i], way |-> way]]
<1>1. content \in Seq(Message) /\ DOMAIN content = 1 .. Len(content) /\ Len(content) \in Nat
  BY DEF PushFrame, FrameFits, Admitted
<1>2. added \in Seq(Arrival) /\ Len(added) = Len(content) /\ DOMAIN added = DOMAIN content
  BY <1>1 DEF Arrival
<1>3. \A i \in DOMAIN content : added[i] = [message |-> content[i], way |-> way]
  OBVIOUS
<1>4. arrived' = arrived \o added /\ arrived \in Seq(Arrival)
  BY DEF Arrive, LedgerTypeOK
<1> HIDE DEF added, content, Arrival
<1> DEFINE joined == arrived \o added
<1>10. /\ joined \in Seq(Arrival) /\ Len(joined) = Len(arrived) + Len(added)
       /\ \A i \in 1 .. Len(arrived) + Len(added) :
            joined[i] = IF i <= Len(arrived) THEN arrived[i] ELSE added[i - Len(arrived)]
  BY <1>2, <1>4, ConcatProperties
<1> HIDE DEF joined
<1>11. arrived' = joined
  BY <1>4 DEF joined
<1>5. /\ arrived' \in Seq(Arrival) /\ Len(arrived') = Len(arrived) + Len(content)
      /\ Len(arrived) \in Nat /\ DOMAIN arrived = 1 .. Len(arrived)
      /\ \A i \in 1 .. Len(arrived) + Len(content) :
           arrived'[i] = IF i <= Len(arrived) THEN arrived[i] ELSE added[i - Len(arrived)]
  BY <1>1, <1>2, <1>4, <1>10, <1>11
<1>6. DOMAIN arrived' = 1 .. Len(arrived) + Len(content)
  BY <1>5
<1>7. \A x \in DOMAIN content :
         /\ Len(arrived) + x \in DOMAIN arrived'
         /\ arrived'[Len(arrived) + x] = added[x]
  <2>1. TAKE x \in DOMAIN content
  <2>2. x \in Nat /\ x >= 1 /\ x <= Len(content)
    BY <1>1
  <2>3. Len(arrived) + x \in 1 .. Len(arrived) + Len(content)
        /\ Len(arrived) + x - Len(arrived) = x
        /\ ~ (Len(arrived) + x <= Len(arrived))
    BY <1>1, <1>5, <2>2
  <2> QED
    BY <1>5, <1>6, <2>3
<1>8. \A i \in DOMAIN arrived : i \in DOMAIN arrived' /\ arrived'[i] = arrived[i]
  BY <1>1, <1>5, <1>6
<1>9. \A i \in DOMAIN arrived' : i \in DOMAIN arrived \/ i - Len(arrived) \in DOMAIN content
  BY <1>1, <1>5, <1>6
<1> QED
  BY <1>3, <1>5, <1>7, <1>8, <1>9 DEF content

\* A message that came once came before the push or with it.
LEMMA OnceBeforeOrWith ==
  ASSUME LedgerTypeOK, NEW push \in PushFrame, Admitted(push),
         NEW way \in Way, Arrive(push, way),
         NEW i \in DOMAIN arrived', CameOnce(i)'
  PROVE  LET content == push.content IN
         \/ /\ i \in DOMAIN arrived /\ CameOnce(i) /\ arrived'[i] = arrived[i]
            /\ \A x \in DOMAIN content : content[x] # arrived[i].message
         \/ /\ i - Len(arrived) \in DOMAIN content /\ i \notin DOMAIN arrived
            /\ arrived'[i] = [message |-> content[i - Len(arrived)], way |-> way]
            /\ \A j \in DOMAIN arrived : arrived[j].message # content[i - Len(arrived)]
<1> DEFINE content == push.content
<1>1. /\ \A j \in DOMAIN arrived : j \in DOMAIN arrived' /\ arrived'[j] = arrived[j]
      /\ \A x \in DOMAIN content :
           /\ Len(arrived) + x \in DOMAIN arrived'
           /\ arrived'[Len(arrived) + x] = [message |-> content[x], way |-> way]
      /\ \A j \in DOMAIN arrived' : j \in DOMAIN arrived \/ j - Len(arrived) \in DOMAIN content
      /\ arrived' \in Seq(Arrival) 
  BY ArrivalsGrow
<1>2. \A j \in DOMAIN arrived' : arrived'[j].message = arrived'[i].message => j = i
  BY DEF CameOnce
<1>3. /\ Len(arrived) \in Nat /\ DOMAIN arrived = 1 .. Len(arrived)
      /\ DOMAIN content \subseteq Nat \ {0}
  BY DEF LedgerTypeOK, PushFrame, FrameFits, Admitted
<1>4. \A j \in DOMAIN arrived' : j \in Nat
  BY <1>1
<1> HIDE DEF content
<1>5. CASE i \in DOMAIN arrived
  <2>1. CameOnce(i)
    BY <1>1, <1>2, <1>5 DEF CameOnce
  <2>2. ASSUME NEW x \in DOMAIN content PROVE content[x] # arrived[i].message
    <3>1. Len(arrived) + x # i
      BY <1>3, <1>5
    <3>2. arrived'[Len(arrived) + x].message # arrived'[i].message
      BY <1>1, <1>2, <3>1
    <3>3. arrived'[Len(arrived) + x].message = content[x]
      <4>1. arrived'[Len(arrived) + x] = [message |-> content[x], way |-> way]
        BY <1>1
      <4> QED
        BY <4>1
    <3> QED
      BY <1>1, <1>5, <3>2, <3>3
  <2> QED
    BY <1>1, <1>5, <2>1, <2>2 DEF content
<1>6. CASE i \notin DOMAIN arrived
  <2>1. i - Len(arrived) \in DOMAIN content /\ Len(arrived) + (i - Len(arrived)) = i
    BY <1>1, <1>3, <1>4, <1>6
  <2>2. arrived'[i] = [message |-> content[i - Len(arrived)], way |-> way]
    BY <1>1, <2>1
  <2>3. \A j \in DOMAIN arrived : arrived[j].message # content[i - Len(arrived)]
    BY <1>1, <1>2, <1>6, <2>2
  <2> QED
    BY <1>6, <2>1, <2>2, <2>3 DEF content
<1> QED
  BY <1>5, <1>6

\* Where the messages of two sequences are when they are joined.
LEMMA AppendedMessages ==
  ASSUME NEW M, NEW old \in Seq(M), NEW new \in Seq(M)
  PROVE  /\ old \o new \in Seq(M)
         /\ Len(old) \in Nat /\ DOMAIN old = 1 .. Len(old) /\ Len(new) \in Nat
         /\ Len(old \o new) = Len(old) + Len(new)
         /\ \A p \in DOMAIN old : p \in DOMAIN (old \o new) /\ (old \o new)[p] = old[p]
         /\ \A q \in DOMAIN new :
              Len(old) + q \in DOMAIN (old \o new) /\ (old \o new)[Len(old) + q] = new[q]
         /\ \A p \in DOMAIN (old \o new) :
              \/ p \in DOMAIN old /\ (old \o new)[p] = old[p]
              \/ /\ p > Len(old) /\ p - Len(old) \in DOMAIN new
                 /\ (old \o new)[p] = new[p - Len(old)]
<1> DEFINE joined == old \o new
<1>1. /\ joined \in Seq(M) /\ Len(joined) = Len(old) + Len(new)
      /\ \A i \in 1 .. Len(old) + Len(new) :
           joined[i] = IF i <= Len(old) THEN old[i] ELSE new[i - Len(old)]
  BY ConcatProperties
<1>2. /\ Len(old) \in Nat /\ DOMAIN old = 1 .. Len(old)
      /\ Len(new) \in Nat /\ DOMAIN new = 1 .. Len(new)
  OBVIOUS
<1> HIDE DEF joined
<1>3. DOMAIN joined = 1 .. Len(old) + Len(new)
  BY <1>1
<1>4. \A q \in DOMAIN new : Len(old) + q \in DOMAIN joined /\ joined[Len(old) + q] = new[q]
  <2>1. TAKE q \in DOMAIN new
  <2>2. /\ Len(old) + q \in 1 .. Len(old) + Len(new) /\ Len(old) + q - Len(old) = q
        /\ ~ (Len(old) + q <= Len(old))
    BY <1>2
  <2> QED
    BY <1>1, <1>3, <2>2
<1>5. \A p \in DOMAIN old : p \in DOMAIN joined /\ joined[p] = old[p]
  BY <1>1, <1>2, <1>3
<1>6. \A p \in DOMAIN joined :
        \/ p \in DOMAIN old /\ joined[p] = old[p]
        \/ p > Len(old) /\ p - Len(old) \in DOMAIN new /\ joined[p] = new[p - Len(old)]
  BY <1>1, <1>2, <1>3
<1> QED
  BY <1>1, <1>2, <1>4, <1>5, <1>6 DEF joined

\* The oldest push is handled: some of its messages are admitted.
LEMMA LedgerDrains ==
  ASSUME LedgerInv, pushes # <<>>, pushes' = Tail(pushes), UNCHANGED arrived,
         NEW at, NEW new, Picks(Head(pushes).content, at, new), admitted' = admitted \o new
  PROVE  LedgerInv'
<1> DEFINE content == Head(pushes).content
<1>1. /\ pushes \in Seq({push \in PushFrame : Admitted(push)})
      /\ arrived \in Seq(Arrival) /\ admitted \in Seq(Message)
  BY DEF LedgerInv, LedgerTypeOK
<1>2. /\ pushes' \in Seq({push \in PushFrame : Admitted(push)})
      /\ Len(pushes) \in Nat \ {0} /\ DOMAIN pushes = 1 .. Len(pushes)
      /\ Head(pushes) = pushes[1]
      /\ \A k \in DOMAIN pushes' :
           /\ k \in Nat /\ k >= 1 /\ k + 1 \in DOMAIN pushes
           /\ pushes'[k] = pushes[k + 1]
  BY <1>1, HeadTailProperties
<1>3. content = pushes[1].content /\ 1 \in DOMAIN pushes /\ DOMAIN content \subseteq Nat
  <2>1. pushes[1] \in PushFrame
    BY <1>1, <1>2
  <2>2. pushes[1].content \in Seq(Nat)
    BY <2>1 DEF PushFrame
  <2> QED
    BY <1>2, <2>2
<1> HIDE DEF content
<1>4. /\ new \in Seq(Message) /\ Len(new) \in Nat /\ DOMAIN new = 1 .. Len(new)
      /\ \A q \in DOMAIN new : at[q] \in DOMAIN content /\ new[q] = content[at[q]]
      /\ \A p, q \in DOMAIN new : p < q => at[p] < at[q]
  BY DEF Picks, content
<1>5. /\ admitted' \in Seq(Message)
      /\ Len(admitted) \in Nat /\ DOMAIN admitted = 1 .. Len(admitted)
      /\ \A p \in DOMAIN admitted' :
           \/ p \in DOMAIN admitted /\ admitted'[p] = admitted[p]
           \/ /\ p > Len(admitted) /\ p - Len(admitted) \in DOMAIN new
              /\ admitted'[p] = new[p - Len(admitted)]
  BY <1>1, <1>4, AppendedMessages
<1>6. LedgerTypeOK'
  BY <1>1, <1>2, <1>5 DEF LedgerTypeOK
<1>14. \A k \in DOMAIN pushes : \A x \in DOMAIN pushes[k].content : \E i \in DOMAIN arrived :
         arrived[i].message = pushes[k].content[x] /\ arrived[i].way = "Queued"
  BY DEF LedgerInv, ArrivalsKnown
<1>10. \A i, j \in DOMAIN arrived :
         /\ i < j /\ CameOnce(i) /\ CameOnce(j) /\ arrived[j].way = "Queued"
         /\ \E p \in DOMAIN admitted : admitted[p] = arrived[j].message
         => \A k \in DOMAIN pushes : \A x \in DOMAIN pushes[k].content :
              pushes[k].content[x] # arrived[i].message
  BY DEF LedgerInv, QueuedFirst
<1>11. \A i, j \in DOMAIN arrived :
         i < j /\ CameOnce(i) /\ CameOnce(j)
         => InOrder(pushes, arrived[i].message, arrived[j].message)
  BY DEF LedgerInv, QueueInOrder
<1>7. ArrivalsKnown'
  <2>1. ASSUME NEW p \in DOMAIN admitted'
        PROVE  \E i \in DOMAIN arrived :
                 arrived[i].message = admitted'[p] /\ arrived[i].way # "Dropped"
    <3>1. CASE p \in DOMAIN admitted /\ admitted'[p] = admitted[p]
      BY <3>1 DEF LedgerInv, ArrivalsKnown
    <3>2. CASE p - Len(admitted) \in DOMAIN new /\ admitted'[p] = new[p - Len(admitted)]
      <4>1. /\ at[p - Len(admitted)] \in DOMAIN content
            /\ admitted'[p] = content[at[p - Len(admitted)]]
        BY <1>4, <3>2
      <4>2. \A y \in DOMAIN content : \E i \in DOMAIN arrived :
              arrived[i].message = content[y] /\ arrived[i].way = "Queued"
        BY <1>3, <1>14
      <4>3. PICK i \in DOMAIN arrived :
              arrived[i].message = admitted'[p] /\ arrived[i].way = "Queued"
        BY <4>1, <4>2
      <4> QED
        BY <4>3
    <3> QED
      BY <1>5, <3>1, <3>2
  <2>2. ASSUME NEW k \in DOMAIN pushes', NEW x \in DOMAIN pushes'[k].content
        PROVE  \E i \in DOMAIN arrived :
                 arrived[i].message = pushes'[k].content[x] /\ arrived[i].way = "Queued"
    BY <1>2 DEF LedgerInv, ArrivalsKnown
  <2> QED
    BY <2>1, <2>2 DEF ArrivalsKnown
<1>8. \A i \in DOMAIN arrived : CameOnce(i)' <=> CameOnce(i)
  BY DEF CameOnce
<1>9. QueueInOrder'
  <2> SUFFICES ASSUME NEW i \in DOMAIN arrived', NEW j \in DOMAIN arrived',
                      i < j, CameOnce(i)', CameOnce(j)'
               PROVE  InOrder(pushes', arrived'[i].message, arrived'[j].message)
    BY DEF QueueInOrder
  <2>1. /\ i \in DOMAIN arrived /\ CameOnce(i) /\ arrived'[i] = arrived[i]
        /\ j \in DOMAIN arrived /\ CameOnce(j) /\ arrived'[j] = arrived[j]
    BY <1>8
  <2> DEFINE message == arrived[i].message
             other == arrived[j].message
  <2>2. InOrder(pushes, message, other)
    BY <1>11, <2>1
  <2> HIDE DEF message, other
  <2>3. ASSUME NEW k \in DOMAIN pushes', NEW l \in DOMAIN pushes',
               NEW x \in DOMAIN pushes'[k].content, NEW y \in DOMAIN pushes'[l].content,
               pushes'[k].content[x] = message, pushes'[l].content[y] = other
        PROVE  k < l \/ (k = l /\ x < y)
    <3>1. /\ k + 1 \in DOMAIN pushes /\ l + 1 \in DOMAIN pushes
          /\ pushes'[k] = pushes[k + 1] /\ pushes'[l] = pushes[l + 1]
      BY <1>2
    <3>2. k + 1 < l + 1 \/ (k + 1 = l + 1 /\ x < y)
      BY <2>2, <2>3, <3>1 DEF InOrder
    <3> QED
      BY <1>2, <3>2
  <2>4. InOrder(pushes', message, other)
    BY <2>3 DEF InOrder
  <2> QED
    BY <2>1, <2>4 DEF message, other
<1>12. QueuedFirst'
  <2> SUFFICES ASSUME NEW i \in DOMAIN arrived', NEW j \in DOMAIN arrived',
                      i < j, CameOnce(i)', CameOnce(j)', arrived'[j].way = "Queued",
                      NEW p \in DOMAIN admitted', admitted'[p] = arrived'[j].message,
                      NEW k \in DOMAIN pushes', NEW x \in DOMAIN pushes'[k].content,
                      pushes'[k].content[x] = arrived'[i].message
               PROVE  FALSE
    BY DEF QueuedFirst
  <2>4. /\ i \in DOMAIN arrived /\ CameOnce(i) /\ arrived'[i] = arrived[i]
        /\ j \in DOMAIN arrived /\ CameOnce(j) /\ arrived'[j] = arrived[j]
    BY <1>8
  <2>1. k + 1 \in DOMAIN pushes /\ k + 1 > 1 /\ x \in DOMAIN pushes[k + 1].content
        /\ pushes[k + 1].content[x] = arrived[i].message
    BY <1>2, <2>4
  <2>2. CASE p \in DOMAIN admitted /\ admitted'[p] = admitted[p]
    BY <1>10, <2>1, <2>2, <2>4
  <2>3. CASE p - Len(admitted) \in DOMAIN new /\ admitted'[p] = new[p - Len(admitted)]
    <3>1. PICK y \in DOMAIN content : content[y] = arrived[j].message
      BY <1>4, <2>3, <2>4
    <3>2. InOrder(pushes, arrived[i].message, arrived[j].message)
      BY <1>11, <2>4
    <3>3. k + 1 < 1 \/ (k + 1 = 1 /\ x < y)
      BY <1>3, <2>1, <3>1, <3>2 DEF InOrder
    <3> QED
      BY <1>2, <3>3
  <2> QED
    BY <1>5, <2>2, <2>3
<1>13. OnlyDirectReadsOvertake'
  <2> SUFFICES ASSUME NEW i \in DOMAIN arrived', NEW j \in DOMAIN arrived',
                      i < j, CameOnce(i)', CameOnce(j)',
                      NEW p \in DOMAIN admitted', NEW q \in DOMAIN admitted', p < q,
                      admitted'[p] = arrived'[j].message, admitted'[q] = arrived'[i].message
               PROVE  arrived'[i].way = "Queued" /\ arrived'[j].way = "Direct"
    BY DEF OnlyDirectReadsOvertake, Before
  <2>4. /\ i \in DOMAIN arrived /\ CameOnce(i) /\ arrived'[i] = arrived[i]
        /\ j \in DOMAIN arrived /\ CameOnce(j) /\ arrived'[j] = arrived[j]
    BY <1>8
  <2>1. CASE q \in DOMAIN admitted /\ admitted'[q] = admitted[q]
    <3>1. p \in DOMAIN admitted /\ admitted'[p] = admitted[p]
      BY <1>5, <2>1
    <3> QED
      BY <2>1, <2>4, <3>1 DEF LedgerInv, OnlyDirectReadsOvertake, Before
  <2>2. CASE /\ q > Len(admitted) /\ q - Len(admitted) \in DOMAIN new
             /\ admitted'[q] = new[q - Len(admitted)]
    <3> DEFINE x == at[q - Len(admitted)]
    <3>1. x \in DOMAIN content /\ content[x] = arrived[i].message
      BY <1>4, <2>2, <2>4
    <3> HIDE DEF x
    <3>2. PICK i2 \in DOMAIN arrived :
            arrived[i2].message = content[x] /\ arrived[i2].way = "Queued"
      BY <1>3, <3>1 DEF LedgerInv, ArrivalsKnown
    <3>3. arrived[i].way = "Queued"
      BY <2>4, <3>1, <3>2 DEF CameOnce
    <3>4. CASE p \in DOMAIN admitted /\ admitted'[p] = admitted[p]
      <4>1. PICK j2 \in DOMAIN arrived :
              arrived[j2].message = admitted[p] /\ arrived[j2].way # "Dropped"
        BY <3>4 DEF LedgerInv, ArrivalsKnown
      <4>2. arrived[j].way # "Dropped"
        BY <2>4, <3>4, <4>1 DEF CameOnce
      <4>3. arrived[j].way # "Queued"
        BY <1>3, <1>10, <2>4, <3>1, <3>4
      <4>4. arrived[j].way \in Way
        <5>1. arrived[j] \in Arrival
          BY <1>1, <2>4
        <5> QED
          BY <5>1 DEF Arrival
      <4> QED
        BY <2>4, <3>3, <4>2, <4>3, <4>4 DEF Way
    <3>5. CASE /\ p > Len(admitted) /\ p - Len(admitted) \in DOMAIN new
               /\ admitted'[p] = new[p - Len(admitted)]
      <4> DEFINE y == at[p - Len(admitted)]
      <4>1. y \in DOMAIN content /\ content[y] = arrived[j].message
        BY <1>4, <2>4, <3>5
      <4>2. y < x
        <5>1. p - Len(admitted) < q - Len(admitted)
          BY <1>5, <2>2, <3>5
        <5> QED
          BY <1>4, <2>2, <3>5, <5>1 DEF x
      <4> HIDE DEF y
      <4>3. x < y
        <5>1. InOrder(pushes, arrived[i].message, arrived[j].message)
          BY <1>11, <2>4
        <5>2. 1 < 1 \/ (1 = 1 /\ x < y)
          BY <1>3, <3>1, <4>1, <5>1 DEF InOrder
        <5> QED
          BY <5>2
      <4>4. x \in Nat /\ y \in Nat
        BY <1>3, <3>1, <4>1
      <4> QED
        BY <4>2, <4>3, <4>4
    <3> QED
      BY <1>5, <3>4, <3>5
  <2> QED
    BY <1>5, <2>1, <2>2
<1> QED
  BY <1>6, <1>7, <1>9, <1>12, <1>13 DEF LedgerInv

\* One whose message was there before is not of the push.
LEMMA OnceBefore ==
  ASSUME LedgerTypeOK, NEW push \in PushFrame, Admitted(push),
         NEW way \in Way, Arrive(push, way),
         NEW i \in DOMAIN arrived', CameOnce(i)',
         NEW h \in DOMAIN arrived, arrived[h].message = arrived'[i].message
  PROVE  /\ i \in DOMAIN arrived /\ CameOnce(i) /\ arrived'[i] = arrived[i]
         /\ \A x \in DOMAIN push.content : push.content[x] # arrived[i].message
<1>1. ~ /\ arrived'[i] = [message |-> push.content[i - Len(arrived)], way |-> way]
        /\ \A j \in DOMAIN arrived : arrived[j].message # push.content[i - Len(arrived)]
  <2>1. ASSUME arrived'[i] = [message |-> push.content[i - Len(arrived)], way |-> way]
        PROVE  arrived'[i].message = push.content[i - Len(arrived)]
    BY <2>1
  <2> QED
    BY <2>1
<1> QED
  BY <1>1, OnceBeforeOrWith

\* A push joins the queue, or is gone when the queue is full.
LEMMA LedgerPutsAside ==
  ASSUME LedgerInv, NEW push \in PushFrame, Admitted(push), UNCHANGED admitted,
         \/ pushes' = Append(pushes, push) /\ Arrive(push, "Queued")
         \/ UNCHANGED pushes /\ Arrive(push, "Dropped")
  PROVE  LedgerInv'
<1> DEFINE content == push.content
           way == IF pushes' = pushes THEN "Dropped" ELSE "Queued"
           Pushes == {p \in PushFrame : Admitted(p)}
<1>1. /\ pushes \in Seq(Pushes) /\ arrived \in Seq(Arrival) /\ admitted \in Seq(Message)
      /\ LedgerTypeOK
  BY DEF LedgerInv, LedgerTypeOK
<1>2. /\ pushes' \in Seq(Pushes) /\ Len(pushes) \in Nat /\ DOMAIN pushes = 1 .. Len(pushes)
      /\ \A k \in DOMAIN pushes' :
           \/ k \in DOMAIN pushes /\ pushes'[k] = pushes[k]
           \/ k = Len(pushes) + 1 /\ pushes'[k] = push /\ way = "Queued"
  <2>1. CASE pushes' = Append(pushes, push)
    <3>1. push \in Pushes
      OBVIOUS
    <3> HIDE DEF Pushes
    <3>2. /\ pushes' \in Seq(Pushes) /\ Len(pushes') = Len(pushes) + 1
          /\ \A k \in 1 .. Len(pushes) : pushes'[k] = pushes[k]
          /\ pushes'[Len(pushes) + 1] = push
      BY <1>1, <2>1, <3>1, AppendProperties
    <3>3. pushes' # pushes
      BY <1>1, <3>2
    <3> QED
      BY <1>1, <3>2, <3>3
  <2>2. CASE UNCHANGED pushes
    BY <1>1, <2>2
  <2> QED
    BY <2>1, <2>2
<1>3. Arrive(push, way) /\ way \in Way
  <2>1. pushes' = Append(pushes, push) => pushes' # pushes
    <3>1. push \in Pushes
      OBVIOUS
    <3> HIDE DEF Pushes
    <3> QED
      BY <1>1, <3>1, AppendProperties
  <2> QED
    BY <2>1 DEF Way
<1> HIDE DEF content, way, Pushes
<1>4. /\ arrived' \in Seq(Arrival)
      /\ \A i \in DOMAIN arrived : i \in DOMAIN arrived' /\ arrived'[i] = arrived[i]
      /\ \A x \in DOMAIN content :
           /\ Len(arrived) + x \in DOMAIN arrived'
           /\ arrived'[Len(arrived) + x] = [message |-> content[x], way |-> way]
  BY <1>1, <1>3, ArrivalsGrow DEF content
<1>5. ASSUME NEW i \in DOMAIN arrived', CameOnce(i)',
             \E h \in DOMAIN arrived : arrived[h].message = arrived'[i].message
      PROVE  /\ i \in DOMAIN arrived /\ CameOnce(i) /\ arrived'[i] = arrived[i]
             /\ \A x \in DOMAIN content : content[x] # arrived[i].message
  BY <1>1, <1>3, <1>5, OnceBefore DEF content
<1>6. ASSUME NEW i \in DOMAIN arrived', CameOnce(i)'
      PROVE  \/ /\ i \in DOMAIN arrived /\ CameOnce(i) /\ arrived'[i] = arrived[i]
                /\ \A x \in DOMAIN content : content[x] # arrived[i].message
             \/ /\ i - Len(arrived) \in DOMAIN content /\ i \notin DOMAIN arrived
                /\ arrived'[i] = [message |-> content[i - Len(arrived)], way |-> way]
                /\ \A j \in DOMAIN arrived : arrived[j].message # content[i - Len(arrived)]
  BY <1>1, <1>3, <1>6, OnceBeforeOrWith DEF content
<1>7. /\ \A p \in DOMAIN admitted : \E i \in DOMAIN arrived :
           arrived[i].message = admitted[p] /\ arrived[i].way # "Dropped"
      /\ \A k \in DOMAIN pushes : \A x \in DOMAIN pushes[k].content : \E i \in DOMAIN arrived :
           arrived[i].message = pushes[k].content[x] /\ arrived[i].way = "Queued"
  BY DEF LedgerInv, ArrivalsKnown
<1>8. LedgerTypeOK'
  BY <1>1, <1>2, <1>4 DEF LedgerTypeOK, Pushes
<1>9. ArrivalsKnown'
  <2>1. ASSUME NEW p \in DOMAIN admitted
        PROVE  \E i \in DOMAIN arrived' :
                 arrived'[i].message = admitted[p] /\ arrived'[i].way # "Dropped"
    BY <1>4, <1>7
  <2>2. ASSUME NEW k \in DOMAIN pushes', NEW x \in DOMAIN pushes'[k].content
        PROVE  \E i \in DOMAIN arrived' :
                 arrived'[i].message = pushes'[k].content[x] /\ arrived'[i].way = "Queued"
    <3>1. CASE k \in DOMAIN pushes /\ pushes'[k] = pushes[k]
      <4>1. \E i \in DOMAIN arrived :
              arrived[i].message = pushes'[k].content[x] /\ arrived[i].way = "Queued"
        BY <1>7, <3>1
      <4> QED
        BY <1>4, <4>1
    <3>2. CASE k = Len(pushes) + 1 /\ pushes'[k] = push /\ way = "Queued"
      <4>1. /\ x \in DOMAIN content /\ pushes'[k].content[x] = content[x]
            /\ arrived'[Len(arrived) + x] = [message |-> content[x], way |-> way]
            /\ Len(arrived) + x \in DOMAIN arrived'
        BY <1>4, <3>2 DEF content
      <4>2. /\ arrived'[Len(arrived) + x].message = content[x]
            /\ arrived'[Len(arrived) + x].way = "Queued"
        BY <3>2, <4>1
      <4> QED
        BY <4>1, <4>2
    <3> QED
      BY <1>2, <3>1, <3>2
  <2> QED
    BY <2>1, <2>2 DEF ArrivalsKnown
<1>10. QueueInOrder'
  <2> SUFFICES ASSUME NEW i \in DOMAIN arrived', NEW j \in DOMAIN arrived',
                      i < j, CameOnce(i)', CameOnce(j)'
               PROVE  InOrder(pushes', arrived'[i].message, arrived'[j].message)
    BY DEF QueueInOrder
  <2> SUFFICES ASSUME NEW k \in DOMAIN pushes', NEW l \in DOMAIN pushes',
                      NEW x \in DOMAIN pushes'[k].content, NEW y \in DOMAIN pushes'[l].content,
                      pushes'[k].content[x] = arrived'[i].message,
                      pushes'[l].content[y] = arrived'[j].message
               PROVE  k < l \/ (k = l /\ x < y)
    BY DEF InOrder
  <2>1. CASE k \in DOMAIN pushes /\ pushes'[k] = pushes[k]
    <3>1. i \in DOMAIN arrived /\ CameOnce(i) /\ arrived'[i] = arrived[i]
      BY <1>5, <1>7, <2>1
    <3>2. CASE l \in DOMAIN pushes /\ pushes'[l] = pushes[l]
      <4>1. j \in DOMAIN arrived /\ CameOnce(j) /\ arrived'[j] = arrived[j]
        BY <1>5, <1>7, <3>2
      <4>2. InOrder(pushes, arrived[i].message, arrived[j].message)
        BY <3>1, <4>1 DEF LedgerInv, QueueInOrder
      <4> QED
        BY <2>1, <3>1, <3>2, <4>1, <4>2 DEF InOrder
    <3>3. CASE l = Len(pushes) + 1
      BY <1>2, <2>1, <3>3
    <3> QED
      BY <1>2, <3>2, <3>3
  <2>2. CASE k = Len(pushes) + 1 /\ pushes'[k] = push
    <3>1. x \in DOMAIN content /\ content[x] = arrived'[i].message
      BY <2>2 DEF content
    <3>2. i - Len(arrived) \in DOMAIN content /\ i \notin DOMAIN arrived
          /\ arrived'[i].message = content[i - Len(arrived)]
      <4>1. arrived'[i] = [message |-> content[i - Len(arrived)], way |-> way] =>
              arrived'[i].message = content[i - Len(arrived)]
        OBVIOUS
      <4> QED
        BY <1>6, <3>1, <4>1
    <3>3. x = i - Len(arrived)
      BY <3>1, <3>2 DEF content, PushFrame, FrameFits, Admitted
    <3>4. j \notin DOMAIN arrived
      BY <1>1, <1>4, <3>2
    <3>5. /\ j - Len(arrived) \in DOMAIN content
          /\ arrived'[j].message = content[j - Len(arrived)]
          /\ \A h \in DOMAIN arrived : arrived[h].message # arrived'[j].message
      <4>1. arrived'[j] = [message |-> content[j - Len(arrived)], way |-> way] =>
              arrived'[j].message = content[j - Len(arrived)]
        OBVIOUS
      <4> QED
        BY <1>6, <3>4, <4>1
    <3>6. ~ (l \in DOMAIN pushes /\ pushes'[l] = pushes[l])
      BY <1>7, <3>5
    <3>7. l = k /\ y \in DOMAIN content /\ content[y] = content[j - Len(arrived)]
      BY <1>2, <2>2, <3>5, <3>6 DEF content
    <3>8. y = j - Len(arrived)
      BY <3>5, <3>7 DEF content, PushFrame, FrameFits, Admitted
    <3>9. i \in Nat /\ j \in Nat /\ Len(arrived) \in Nat
      BY <1>1, <1>4
    <3> QED
      BY <3>3, <3>7, <3>8, <3>9
  <2> QED
    BY <1>2, <2>1, <2>2
<1>11. QueuedFirst'
  <2> SUFFICES ASSUME NEW i \in DOMAIN arrived', NEW j \in DOMAIN arrived',
                      i < j, CameOnce(i)', CameOnce(j)', arrived'[j].way = "Queued",
                      NEW p \in DOMAIN admitted, admitted[p] = arrived'[j].message,
                      NEW k \in DOMAIN pushes', NEW x \in DOMAIN pushes'[k].content,
                      pushes'[k].content[x] = arrived'[i].message
               PROVE  FALSE
    BY DEF QueuedFirst
  <2>1. j \in DOMAIN arrived /\ CameOnce(j) /\ arrived'[j] = arrived[j]
    BY <1>5, <1>7
  <2>2. i \in DOMAIN arrived
    BY <1>1, <1>4, <2>1
  <2>3. /\ CameOnce(i) /\ arrived'[i] = arrived[i]
        /\ \A u \in DOMAIN content : content[u] # arrived[i].message
    BY <1>6, <2>2
  <2>4. k \in DOMAIN pushes /\ pushes'[k] = pushes[k]
    BY <1>2, <2>3 DEF content
  <2>5. \A u \in DOMAIN pushes[k].content : pushes[k].content[u] # arrived[i].message
    BY <2>1, <2>2, <2>3, <2>4 DEF LedgerInv, QueuedFirst
  <2> QED
    BY <2>3, <2>4, <2>5
<1>12. OnlyDirectReadsOvertake'
  <2> SUFFICES ASSUME NEW i \in DOMAIN arrived', NEW j \in DOMAIN arrived',
                      i < j, CameOnce(i)', CameOnce(j)',
                      NEW p \in DOMAIN admitted, NEW q \in DOMAIN admitted, p < q,
                      admitted[p] = arrived'[j].message, admitted[q] = arrived'[i].message
               PROVE  arrived'[i].way = "Queued" /\ arrived'[j].way = "Direct"
    BY DEF OnlyDirectReadsOvertake, Before
  <2>1. /\ i \in DOMAIN arrived /\ CameOnce(i) /\ arrived'[i] = arrived[i]
        /\ j \in DOMAIN arrived /\ CameOnce(j) /\ arrived'[j] = arrived[j]
    BY <1>5, <1>7
  <2> QED
    BY <2>1 DEF LedgerInv, OnlyDirectReadsOvertake, Before
<1> QED
  BY <1>8, <1>9, <1>10, <1>11, <1>12 DEF LedgerInv

\* A push is handled as it is read: some of its messages are admitted.
LEMMA LedgerReads ==
  ASSUME LedgerInv, NEW push \in PushFrame, Admitted(push), Arrive(push, "Direct"),
         UNCHANGED pushes,
         NEW at, NEW new, Picks(push.content, at, new), admitted' = admitted \o new
  PROVE  LedgerInv'
<1> DEFINE content == push.content
           Pushes == {p \in PushFrame : Admitted(p)}
<1>1. /\ pushes \in Seq(Pushes) /\ arrived \in Seq(Arrival) /\ admitted \in Seq(Message)
      /\ LedgerTypeOK /\ "Direct" \in Way
      /\ Len(arrived) \in Nat /\ DOMAIN arrived = 1 .. Len(arrived)
  BY DEF LedgerInv, LedgerTypeOK, Way
<1>2. /\ DOMAIN content \subseteq Nat
      /\ \A x, y \in DOMAIN content : content[x] = content[y] => x = y
  BY DEF PushFrame, FrameFits, Admitted
<1> HIDE DEF content, Pushes
<1>3. /\ new \in Seq(Message) /\ Len(new) \in Nat /\ DOMAIN new = 1 .. Len(new)
      /\ \A q \in DOMAIN new : at[q] \in DOMAIN content /\ new[q] = content[at[q]]
      /\ \A p, q \in DOMAIN new : p < q => at[p] < at[q]
  BY DEF Picks, content
<1>4. /\ arrived' \in Seq(Arrival)
      /\ \A i \in DOMAIN arrived : i \in DOMAIN arrived' /\ arrived'[i] = arrived[i]
      /\ \A x \in DOMAIN content :
           /\ Len(arrived) + x \in DOMAIN arrived'
           /\ arrived'[Len(arrived) + x] = [message |-> content[x], way |-> "Direct"]
  BY <1>1, ArrivalsGrow DEF content
<1>5. ASSUME NEW i \in DOMAIN arrived', CameOnce(i)',
             \E h \in DOMAIN arrived : arrived[h].message = arrived'[i].message
      PROVE  /\ i \in DOMAIN arrived /\ CameOnce(i) /\ arrived'[i] = arrived[i]
             /\ \A x \in DOMAIN content : content[x] # arrived[i].message
  BY <1>1, <1>5, OnceBefore DEF content
<1>6. ASSUME NEW i \in DOMAIN arrived', CameOnce(i)'
      PROVE  \/ /\ i \in DOMAIN arrived /\ CameOnce(i) /\ arrived'[i] = arrived[i]
                /\ \A x \in DOMAIN content : content[x] # arrived[i].message
             \/ /\ i - Len(arrived) \in DOMAIN content /\ i \notin DOMAIN arrived
                /\ arrived'[i].message = content[i - Len(arrived)]
                /\ arrived'[i].way = "Direct"
                /\ \A j \in DOMAIN arrived : arrived[j].message # arrived'[i].message
  <2> DEFINE x == i - Len(arrived)
  <2>1. \/ /\ i \in DOMAIN arrived /\ CameOnce(i) /\ arrived'[i] = arrived[i]
           /\ \A y \in DOMAIN content : content[y] # arrived[i].message
        \/ /\ x \in DOMAIN content /\ i \notin DOMAIN arrived
           /\ arrived'[i] = [message |-> content[x], way |-> "Direct"]
           /\ \A j \in DOMAIN arrived : arrived[j].message # content[x]
    BY <1>1, <1>6, OnceBeforeOrWith DEF content
  <2> HIDE DEF x
  <2>2. arrived'[i] = [message |-> content[x], way |-> "Direct"] =>
          arrived'[i].message = content[x] /\ arrived'[i].way = "Direct"
    OBVIOUS
  <2>3. \/ /\ i \in DOMAIN arrived /\ CameOnce(i) /\ arrived'[i] = arrived[i]
           /\ \A y \in DOMAIN content : content[y] # arrived[i].message
        \/ /\ x \in DOMAIN content /\ i \notin DOMAIN arrived
           /\ arrived'[i].message = content[x] /\ arrived'[i].way = "Direct"
           /\ \A j \in DOMAIN arrived : arrived[j].message # arrived'[i].message
    BY <2>1, <2>2
  <2> QED
    BY <2>3 DEF x
<1>7. /\ \A p \in DOMAIN admitted : \E i \in DOMAIN arrived :
           arrived[i].message = admitted[p] /\ arrived[i].way # "Dropped"
      /\ \A k \in DOMAIN pushes : \A x \in DOMAIN pushes[k].content : \E i \in DOMAIN arrived :
           arrived[i].message = pushes[k].content[x] /\ arrived[i].way = "Queued"
  BY DEF LedgerInv, ArrivalsKnown
<1>8. /\ admitted' \in Seq(Message)
      /\ Len(admitted) \in Nat /\ DOMAIN admitted = 1 .. Len(admitted)
      /\ \A p \in DOMAIN admitted' :
           \/ p \in DOMAIN admitted /\ admitted'[p] = admitted[p]
           \/ /\ p > Len(admitted) /\ p - Len(admitted) \in DOMAIN new
              /\ admitted'[p] = new[p - Len(admitted)]
  BY <1>1, <1>3, AppendedMessages
<1>9. LedgerTypeOK'
  BY <1>1, <1>4, <1>8 DEF LedgerTypeOK
<1>10. ArrivalsKnown'
  <2>1. ASSUME NEW p \in DOMAIN admitted'
        PROVE  \E i \in DOMAIN arrived' :
                 arrived'[i].message = admitted'[p] /\ arrived'[i].way # "Dropped"
    <3>1. CASE p \in DOMAIN admitted /\ admitted'[p] = admitted[p]
      BY <1>4, <1>7, <3>1
    <3>2. CASE p - Len(admitted) \in DOMAIN new /\ admitted'[p] = new[p - Len(admitted)]
      <4> DEFINE x == at[p - Len(admitted)]
      <4>1. x \in DOMAIN content /\ admitted'[p] = content[x]
        BY <1>3, <3>2
      <4> HIDE DEF x
      <4>2. Len(arrived) + x \in DOMAIN arrived'
            /\ arrived'[Len(arrived) + x] = [message |-> content[x], way |-> "Direct"]
        BY <1>4, <4>1
      <4>3. /\ arrived'[Len(arrived) + x].message = content[x]
            /\ arrived'[Len(arrived) + x].way = "Direct"
        BY <4>2
      <4> QED
        BY <4>1, <4>2, <4>3
    <3> QED
      BY <1>8, <3>1, <3>2
  <2>2. ASSUME NEW k \in DOMAIN pushes, NEW x \in DOMAIN pushes[k].content
        PROVE  \E i \in DOMAIN arrived' :
                 arrived'[i].message = pushes[k].content[x] /\ arrived'[i].way = "Queued"
    <3>1. \E i \in DOMAIN arrived :
            arrived[i].message = pushes[k].content[x] /\ arrived[i].way = "Queued"
      BY <1>7
    <3> QED
      BY <1>4, <3>1
  <2> QED
    BY <2>1, <2>2 DEF ArrivalsKnown
<1>11. QueueInOrder'
  <2> SUFFICES ASSUME NEW i \in DOMAIN arrived', NEW j \in DOMAIN arrived',
                      i < j, CameOnce(i)', CameOnce(j)'
               PROVE  InOrder(pushes, arrived'[i].message, arrived'[j].message)
    BY DEF QueueInOrder
  <2> SUFFICES ASSUME NEW k \in DOMAIN pushes, NEW l \in DOMAIN pushes,
                      NEW x \in DOMAIN pushes[k].content, NEW y \in DOMAIN pushes[l].content,
                      pushes[k].content[x] = arrived'[i].message,
                      pushes[l].content[y] = arrived'[j].message
               PROVE  k < l \/ (k = l /\ x < y)
    BY DEF InOrder
  <2>1. /\ i \in DOMAIN arrived /\ CameOnce(i) /\ arrived'[i] = arrived[i]
        /\ j \in DOMAIN arrived /\ CameOnce(j) /\ arrived'[j] = arrived[j]
    BY <1>5, <1>7
  <2>2. InOrder(pushes, arrived[i].message, arrived[j].message)
    BY <2>1 DEF LedgerInv, QueueInOrder
  <2> QED
    BY <2>1, <2>2 DEF InOrder
<1>12. QueuedFirst'
  <2> SUFFICES ASSUME NEW i \in DOMAIN arrived', NEW j \in DOMAIN arrived',
                      i < j, CameOnce(i)', CameOnce(j)', arrived'[j].way = "Queued",
                      NEW p \in DOMAIN admitted', admitted'[p] = arrived'[j].message,
                      NEW k \in DOMAIN pushes, NEW x \in DOMAIN pushes[k].content,
                      pushes[k].content[x] = arrived'[i].message
               PROVE  FALSE
    BY DEF QueuedFirst
  <2>1. /\ j \in DOMAIN arrived /\ CameOnce(j) /\ arrived'[j] = arrived[j]
        /\ \A u \in DOMAIN content : content[u] # arrived[j].message
    BY <1>6
  <2>2. i \in DOMAIN arrived /\ CameOnce(i) /\ arrived'[i] = arrived[i]
    BY <1>5, <1>7
  <2>3. p \in DOMAIN admitted /\ admitted'[p] = admitted[p]
    <3>1. ASSUME p - Len(admitted) \in DOMAIN new, admitted'[p] = new[p - Len(admitted)]
          PROVE  FALSE
      <4>1. \E u \in DOMAIN content : content[u] = admitted'[p]
        BY <1>3, <3>1
      <4> QED
        BY <2>1, <4>1
    <3> QED
      BY <1>8, <3>1
  <2>4. \A u \in DOMAIN pushes[k].content : pushes[k].content[u] # arrived[i].message
    BY <2>1, <2>2, <2>3 DEF LedgerInv, QueuedFirst
  <2> QED
    BY <2>2, <2>4
<1>13. OnlyDirectReadsOvertake'
  <2> SUFFICES ASSUME NEW i \in DOMAIN arrived', NEW j \in DOMAIN arrived',
                      i < j, CameOnce(i)', CameOnce(j)',
                      NEW p \in DOMAIN admitted', NEW q \in DOMAIN admitted', p < q,
                      admitted'[p] = arrived'[j].message, admitted'[q] = arrived'[i].message
               PROVE  arrived'[i].way = "Queued" /\ arrived'[j].way = "Direct"
    BY DEF OnlyDirectReadsOvertake, Before
  <2>1. CASE q \in DOMAIN admitted /\ admitted'[q] = admitted[q]
    <3>1. p \in DOMAIN admitted /\ admitted'[p] = admitted[p]
      BY <1>8, <2>1
    <3>2. /\ i \in DOMAIN arrived /\ CameOnce(i) /\ arrived'[i] = arrived[i]
          /\ j \in DOMAIN arrived /\ CameOnce(j) /\ arrived'[j] = arrived[j]
      <4>1. \E h \in DOMAIN arrived : arrived[h].message = arrived'[i].message
        BY <1>7, <2>1
      <4>2. \E h \in DOMAIN arrived : arrived[h].message = arrived'[j].message
        BY <1>7, <3>1
      <4>3. i \in DOMAIN arrived /\ CameOnce(i) /\ arrived'[i] = arrived[i]
        BY <1>5, <4>1
      <4>4. j \in DOMAIN arrived /\ CameOnce(j) /\ arrived'[j] = arrived[j]
        BY <1>5, <4>2
      <4> QED
        BY <4>3, <4>4
    <3> QED
      BY <2>1, <3>1, <3>2 DEF LedgerInv, OnlyDirectReadsOvertake, Before
  <2>2. CASE /\ q > Len(admitted) /\ q - Len(admitted) \in DOMAIN new
             /\ admitted'[q] = new[q - Len(admitted)]
    <3> DEFINE x == at[q - Len(admitted)]
    <3>1. x \in DOMAIN content /\ content[x] = arrived'[i].message
      BY <1>3, <2>2
    <3> HIDE DEF x
    <3>2. /\ i - Len(arrived) \in DOMAIN content /\ i \notin DOMAIN arrived
          /\ arrived'[i].message = content[i - Len(arrived)]
      BY <1>6, <3>1
    <3>3. x = i - Len(arrived)
      BY <1>2, <3>1, <3>2
    <3>4. j \notin DOMAIN arrived
      BY <1>1, <1>4, <3>2
    <3>5. /\ j - Len(arrived) \in DOMAIN content
          /\ arrived'[j].message = content[j - Len(arrived)]
          /\ \A h \in DOMAIN arrived : arrived[h].message # arrived'[j].message
      BY <1>6, <3>4
    <3>6. ~ (p \in DOMAIN admitted /\ admitted'[p] = admitted[p])
      BY <1>7, <3>5
    <3>7. /\ p > Len(admitted) /\ p - Len(admitted) \in DOMAIN new
          /\ admitted'[p] = new[p - Len(admitted)]
      BY <1>8, <3>6
    <3> DEFINE y == at[p - Len(admitted)]
    <3>8. y \in DOMAIN content /\ content[y] = arrived'[j].message
      BY <1>3, <3>7
    <3>9. y < x
      <4>1. p - Len(admitted) < q - Len(admitted)
        BY <1>8, <2>2, <3>7
      <4> QED
        BY <1>3, <2>2, <3>7, <4>1 DEF x
    <3> HIDE DEF y
    <3>10. y = j - Len(arrived)
      BY <1>2, <3>5, <3>8
    <3>11. i \in Nat /\ j \in Nat
      BY <1>4
    <3> QED
      BY <1>1, <3>3, <3>9, <3>10, <3>11
  <2> QED
    BY <1>8, <2>1, <2>2
<1> QED
  BY <1>9, <1>10, <1>11, <1>12, <1>13 DEF LedgerInv

-----------------------------------------------------------------------------
(* Nothing twice within the window, and nothing forgotten.                 *)

\* What a push selects is picked from it, none twice.
LEMMA SelectsPicks ==
  ASSUME NEW push \in PushFrame, Admitted(push), NEW at, NEW new,
         Selects(push.content, at, new)
  PROVE  /\ Picks(push.content, at, new)
         /\ \A k, l \in DOMAIN new : k < l => new[k] # new[l]
<1> DEFINE content == push.content
<1>1. /\ DOMAIN content \subseteq Nat
      /\ \A x, y \in DOMAIN content : content[x] = content[y] => x = y
  BY DEF PushFrame, FrameFits, Admitted
<1> HIDE DEF content
<1>2. Picks(content, at, new)
  BY DEF Picks, Selects, content
<1>3. ASSUME NEW k \in DOMAIN new, NEW l \in DOMAIN new, k < l PROVE new[k] # new[l]
  <2>1. /\ at[k] \in DOMAIN content /\ at[l] \in DOMAIN content /\ at[k] < at[l]
        /\ new[k] = content[at[k]] /\ new[l] = content[at[l]]
    BY <1>2, <1>3 DEF Picks
  <2>2. at[k] # at[l]
    BY <1>1, <2>1
  <2> QED
    BY <1>1, <2>1, <2>2
<1> QED
  BY <1>2, <1>3 DEF content

\* What is not seen may be admitted, each once.
LEMMA WindowHolds ==
  ASSUME NoDuplicateInWindow, admitted \in Seq(Message),
         NEW new \in Seq(Message), admitted' = admitted \o new,
         \A k \in DOMAIN new : new[k] \notin Seen,
         \A k, l \in DOMAIN new : k < l => new[k] # new[l]
  PROVE  NoDuplicateInWindow'
<1>1. /\ Len(admitted) \in Nat /\ DOMAIN admitted = 1 .. Len(admitted)
      /\ DOMAIN new \subseteq Nat \ {0}
      /\ \A p \in DOMAIN admitted' :
           \/ p \in DOMAIN admitted /\ admitted'[p] = admitted[p]
           \/ /\ p > Len(admitted) /\ p - Len(admitted) \in DOMAIN new
              /\ admitted'[p] = new[p - Len(admitted)]
  BY AppendedMessages
<1>2. DedupLimit \in Nat
  BY SessionAssumption
<1>5. DOMAIN admitted' \subseteq Nat
  BY <1>1, AppendedMessages
<1> SUFFICES ASSUME NEW i \in DOMAIN admitted', NEW j \in DOMAIN admitted',
                    i < j, admitted'[i] = admitted'[j]
             PROVE  j - i > DedupLimit
  BY DEF NoDuplicateInWindow
<1>3. CASE j \in DOMAIN admitted /\ admitted'[j] = admitted[j]
  <2>1. i \in DOMAIN admitted /\ admitted'[i] = admitted[i]
    BY <1>1, <1>3
  <2> QED
    BY <1>3, <2>1 DEF NoDuplicateInWindow
<1>4. CASE /\ j > Len(admitted) /\ j - Len(admitted) \in DOMAIN new
           /\ admitted'[j] = new[j - Len(admitted)]
  <2>1. CASE i \in DOMAIN admitted /\ admitted'[i] = admitted[i]
    <3>1. admitted[i] \notin Seen
      BY <1>4, <2>1
    <3>2. ~ (i > Len(admitted) - DedupLimit)
      BY <2>1, <3>1 DEF Seen
    <3> QED
      BY <1>1, <1>2, <1>4, <1>5, <3>2
  <2>2. CASE /\ i > Len(admitted) /\ i - Len(admitted) \in DOMAIN new
             /\ admitted'[i] = new[i - Len(admitted)]
    <3>1. i - Len(admitted) < j - Len(admitted)
      BY <1>1, <1>5
    <3>2. new[i - Len(admitted)] # new[j - Len(admitted)]
      BY <1>4, <2>2, <3>1
    <3> QED
      BY <1>4, <2>2, <3>2
  <2> QED
    BY <1>1, <2>1, <2>2
<1> QED
  BY <1>1, <1>3, <1>4

\* Every message that came is gone, was admitted or waits.
EachIsFound ==
  \A i \in DOMAIN arrived :
    \/ arrived[i].way = "Dropped"
    \/ arrived[i].message \in ToSet(admitted)
    \/ \E j \in DOMAIN pushes : arrived[i].message \in ToSet(pushes[j].content)

\* All messages of a push whose new ones are admitted are among the admitted.
LEMMA AllAdmitted ==
  ASSUME admitted \in Seq(Message), NEW push \in PushFrame, Admitted(push),
         NEW at, NEW new, Selects(push.content, at, new), admitted' = admitted \o new
  PROVE  /\ \A m \in ToSet(admitted) : m \in ToSet(admitted')
         /\ \A x \in DOMAIN push.content : push.content[x] \in ToSet(admitted')
<1> DEFINE content == push.content
<1>1. /\ new \in Seq(Message)
      /\ \A k \in DOMAIN new : new[k] = content[at[k]]
      /\ \A i \in DOMAIN content : content[i] \notin Seen => \E k \in DOMAIN new : at[k] = i
  BY DEF Selects
<1>2. /\ \A p \in DOMAIN admitted : p \in DOMAIN admitted' /\ admitted'[p] = admitted[p]
      /\ \A q \in DOMAIN new :
           Len(admitted) + q \in DOMAIN admitted' /\ admitted'[Len(admitted) + q] = new[q]
  BY <1>1, AppendedMessages
<1> HIDE DEF content
<1>3. ASSUME NEW m \in ToSet(admitted) PROVE m \in ToSet(admitted')
  BY <1>2 DEF ToSet
<1>4. ASSUME NEW x \in DOMAIN content PROVE content[x] \in ToSet(admitted')
  <2>1. CASE content[x] \in Seen
    <3>1. content[x] \in ToSet(admitted)
      BY <2>1 DEF Seen, ToSet
    <3> QED
      BY <1>3, <3>1
  <2>2. CASE content[x] \notin Seen
    <3>1. PICK k \in DOMAIN new : at[k] = x
      BY <1>1, <2>2
    <3>2. admitted'[Len(admitted) + k] = content[x] /\ Len(admitted) + k \in DOMAIN admitted'
      BY <1>1, <1>2, <3>1
    <3> QED
      BY <3>2 DEF ToSet
  <2> QED
    BY <2>1, <2>2
<1> QED
  BY <1>3, <1>4 DEF content

\* A push that is handled as it is read is admitted.
LEMMA FoundWhenRead ==
  ASSUME EachIsFound, LedgerTypeOK, NEW push \in PushFrame, Admitted(push), UNCHANGED pushes,
         Arrive(push, "Direct"), NEW at, NEW new, Selects(push.content, at, new),
         admitted' = admitted \o new
  PROVE  EachIsFound'
<1> DEFINE content == push.content
<1>1. /\ \A m \in ToSet(admitted) : m \in ToSet(admitted')
      /\ \A x \in DOMAIN content : content[x] \in ToSet(admitted')
  BY AllAdmitted DEF LedgerTypeOK
<1>2. /\ \A i \in DOMAIN arrived : i \in DOMAIN arrived' /\ arrived'[i] = arrived[i]
      /\ \A x \in DOMAIN content :
           arrived'[Len(arrived) + x] = [message |-> content[x], way |-> "Direct"]
      /\ \A i \in DOMAIN arrived' :
           i \in DOMAIN arrived \/ i - Len(arrived) \in DOMAIN content
      /\ DOMAIN arrived' \subseteq Nat /\ Len(arrived) \in Nat
  BY ArrivalsGrow DEF Way, LedgerTypeOK
<1> HIDE DEF content
<1>3. ASSUME NEW i \in DOMAIN arrived'
      PROVE  \/ arrived'[i].way = "Dropped"
             \/ arrived'[i].message \in ToSet(admitted')
             \/ \E j \in DOMAIN pushes : arrived'[i].message \in ToSet(pushes[j].content)
  <2>1. CASE i \in DOMAIN arrived
    BY <1>1, <1>2, <2>1 DEF EachIsFound
  <2>2. CASE i - Len(arrived) \in DOMAIN content
    <3> DEFINE x == i - Len(arrived)
    <3>1. Len(arrived) + x = i /\ x \in DOMAIN content
      BY <1>2, <2>2
    <3> HIDE DEF x
    <3>2. arrived'[Len(arrived) + x] = [message |-> content[x], way |-> "Direct"]
      BY <1>2, <3>1
    <3>3. arrived'[Len(arrived) + x].message = content[x]
      BY <3>2
    <3> QED
      BY <1>1, <3>1, <3>3
  <2> QED
    BY <1>2, <2>1, <2>2
<1> QED
  BY <1>3 DEF EachIsFound

\* The oldest push of the queue leaves it for the events.
LEMMA FoundWhenDrained ==
  ASSUME EachIsFound, LedgerTypeOK, pushes # <<>>, pushes' = Tail(pushes), UNCHANGED arrived,
         NEW at, NEW new, Selects(Head(pushes).content, at, new), admitted' = admitted \o new
  PROVE  EachIsFound'
<1> DEFINE Pushes == {push \in PushFrame : Admitted(push)}
<1>1. pushes \in Seq(Pushes)
  BY DEF LedgerTypeOK
<1>2. /\ Head(pushes) = pushes[1] /\ Head(pushes) \in Pushes
      /\ \A k \in DOMAIN pushes :
           k = 1 \/ (k - 1 \in DOMAIN pushes' /\ pushes'[k - 1] = pushes[k])
  <2> HIDE DEF Pushes
  <2>1. /\ Head(pushes) = pushes[1] /\ Head(pushes) \in Pushes
        /\ DOMAIN pushes = 1 .. Len(pushes)
        /\ Len(pushes) \in Nat /\ Tail(pushes) \in Seq(Pushes)
        /\ Len(Tail(pushes)) = Len(pushes) - 1
        /\ \A k \in 1 .. Len(Tail(pushes)) : Tail(pushes)[k] = pushes[k + 1]
    BY <1>1, HeadTailProperties
  <2>2. ASSUME NEW k \in DOMAIN pushes, k # 1
        PROVE  k - 1 \in DOMAIN pushes' /\ pushes'[k - 1] = pushes[k]
    <3>1. k - 1 \in 1 .. Len(Tail(pushes)) /\ (k - 1) + 1 = k
      BY <2>1, <2>2
    <3>2. DOMAIN pushes' = 1 .. Len(Tail(pushes))
      BY <2>1
    <3> QED
      BY <2>1, <3>1, <3>2
  <2> QED
    BY <2>1, <2>2
<1>3. /\ \A m \in ToSet(admitted) : m \in ToSet(admitted')
      /\ \A x \in DOMAIN Head(pushes).content : Head(pushes).content[x] \in ToSet(admitted')
  BY <1>2, AllAdmitted DEF LedgerTypeOK
<1>4. ASSUME NEW i \in DOMAIN arrived
      PROVE  \/ arrived[i].way = "Dropped"
             \/ arrived[i].message \in ToSet(admitted')
             \/ \E j \in DOMAIN pushes' : arrived[i].message \in ToSet(pushes'[j].content)
  <2>1. CASE arrived[i].way = "Dropped" \/ arrived[i].message \in ToSet(admitted)
    BY <1>3, <2>1
  <2>2. CASE \E j \in DOMAIN pushes : arrived[i].message \in ToSet(pushes[j].content)
    <3>1. PICK j \in DOMAIN pushes : arrived[i].message \in ToSet(pushes[j].content)
      BY <2>2
    <3>2. CASE j = 1
      <4>1. arrived[i].message \in ToSet(Head(pushes).content)
        BY <1>2, <3>1, <3>2
      <4>2. PICK x \in DOMAIN Head(pushes).content :
              arrived[i].message = Head(pushes).content[x]
        BY <4>1 DEF ToSet
      <4> QED
        BY <1>3, <4>2
    <3>3. CASE j # 1
      BY <1>2, <3>1, <3>3
    <3> QED
      BY <3>2, <3>3
  <2> QED
    BY <2>1, <2>2 DEF EachIsFound
<1> QED
  BY <1>4 DEF EachIsFound

\* A push that an exchange meets waits or is dropped.
LEMMA FoundWhenPutAside ==
  ASSUME EachIsFound, LedgerTypeOK, NEW push \in PushFrame, Admitted(push), UNCHANGED admitted,
         \/ pushes' = Append(pushes, push) /\ Arrive(push, "Queued")
         \/ UNCHANGED pushes /\ Arrive(push, "Dropped")
  PROVE  EachIsFound'
<1> DEFINE content == push.content
           Pushes == {p \in PushFrame : Admitted(p)}
<1>1. CASE pushes' = Append(pushes, push) /\ Arrive(push, "Queued")
  <2>1. /\ \A k \in DOMAIN pushes : k \in DOMAIN pushes' /\ pushes'[k] = pushes[k]
        /\ Len(pushes) + 1 \in DOMAIN pushes' /\ pushes'[Len(pushes) + 1] = push
    <3>1. push \in Pushes /\ pushes \in Seq(Pushes)
      BY DEF LedgerTypeOK
    <3> HIDE DEF Pushes
    <3> QED
      BY <1>1, <3>1, AppendProperties
  <2>2. /\ \A i \in DOMAIN arrived : i \in DOMAIN arrived' /\ arrived'[i] = arrived[i]
        /\ \A x \in DOMAIN content :
             arrived'[Len(arrived) + x] = [message |-> content[x], way |-> "Queued"]
        /\ \A i \in DOMAIN arrived' :
             i \in DOMAIN arrived \/ i - Len(arrived) \in DOMAIN content
        /\ DOMAIN arrived' \subseteq Nat /\ Len(arrived) \in Nat
    BY <1>1, ArrivalsGrow DEF Way, LedgerTypeOK
  <2> HIDE DEF content
  <2>3. ASSUME NEW i \in DOMAIN arrived'
        PROVE  \/ arrived'[i].way = "Dropped"
               \/ arrived'[i].message \in ToSet(admitted)
               \/ \E j \in DOMAIN pushes' : arrived'[i].message \in ToSet(pushes'[j].content)
    <3>1. CASE i \in DOMAIN arrived
      BY <2>1, <2>2, <3>1 DEF EachIsFound
    <3>2. CASE i - Len(arrived) \in DOMAIN content
      <4> DEFINE x == i - Len(arrived)
      <4>1. Len(arrived) + x = i /\ x \in DOMAIN content
        BY <2>2, <3>2
      <4> HIDE DEF x
      <4>2. arrived'[Len(arrived) + x] = [message |-> content[x], way |-> "Queued"]
        BY <2>2, <4>1
      <4>3. arrived'[i].message = content[x]
        BY <4>1, <4>2
      <4>4. arrived'[i].message \in ToSet(pushes'[Len(pushes) + 1].content)
        BY <2>1, <4>1, <4>3 DEF ToSet, content
      <4> QED
        BY <2>1, <4>4
    <3> QED
      BY <2>2, <3>1, <3>2
  <2> QED
    BY <2>3 DEF EachIsFound
<1>2. CASE UNCHANGED pushes /\ Arrive(push, "Dropped")
  <2>2. /\ \A i \in DOMAIN arrived : i \in DOMAIN arrived' /\ arrived'[i] = arrived[i]
        /\ \A x \in DOMAIN content :
             arrived'[Len(arrived) + x] = [message |-> content[x], way |-> "Dropped"]
        /\ \A i \in DOMAIN arrived' :
             i \in DOMAIN arrived \/ i - Len(arrived) \in DOMAIN content
        /\ DOMAIN arrived' \subseteq Nat /\ Len(arrived) \in Nat
    BY <1>2, ArrivalsGrow DEF Way, LedgerTypeOK
  <2> HIDE DEF content
  <2>3. ASSUME NEW i \in DOMAIN arrived'
        PROVE  \/ arrived'[i].way = "Dropped"
               \/ arrived'[i].message \in ToSet(admitted)
               \/ \E j \in DOMAIN pushes : arrived'[i].message \in ToSet(pushes[j].content)
    <3>1. CASE i \in DOMAIN arrived
      BY <2>2, <3>1 DEF EachIsFound
    <3>2. CASE i - Len(arrived) \in DOMAIN content
      <4> DEFINE x == i - Len(arrived)
      <4>1. Len(arrived) + x = i /\ x \in DOMAIN content
        BY <2>2, <3>2
      <4> HIDE DEF x
      <4>2. arrived'[Len(arrived) + x] = [message |-> content[x], way |-> "Dropped"]
        BY <2>2, <4>1
      <4> QED
        BY <4>1, <4>2
    <3> QED
      BY <2>2, <3>1, <3>2
  <2> QED
    BY <1>2, <2>3 DEF EachIsFound
<1> QED
  BY <1>1, <1>2

-----------------------------------------------------------------------------
(* The queue of events.                                                    *)

\* An event that waits, what became of one, and the messages of either.
Event == [message : Message, resolve : BOOLEAN]
DoneEvent == [message : Message, published : BOOLEAN]
MessagesOf(entries) == [i \in DOMAIN entries |-> entries[i].message]

\* The events are the admitted messages that are not done yet.
EventsAccounted ==
  /\ events \in Seq(Event) /\ Len(events) <= EventLimit
  /\ done \in Seq(DoneEvent) /\ admitted \in Seq(Message)
  /\ admitted = MessagesOf(done) \o MessagesOf(events)

\* The first element of one sequence may as well be the last one of another.
LEMMA MovesOver ==
  ASSUME NEW M, NEW before \in Seq(M), NEW first \in Seq(M), first # <<>>
  PROVE  Append(before, Head(first)) \o Tail(first) = before \o first
<1> DEFINE after == Append(before, Head(first))
           last == Tail(first)
           one == before \o first
           two == after \o last
<1>1. /\ Head(first) \in M /\ Head(first) = first[1] /\ last \in Seq(M)
      /\ Len(first) \in Nat \ {0} /\ Len(last) = Len(first) - 1
      /\ \A i \in 1 .. Len(last) : last[i] = first[i + 1]
  BY HeadTailProperties
<1>2. /\ after \in Seq(M) /\ Len(before) \in Nat /\ Len(after) = Len(before) + 1
      /\ \A i \in 1 .. Len(before) : after[i] = before[i]
      /\ after[Len(before) + 1] = first[1]
  BY <1>1, AppendProperties
<1> HIDE DEF after, last
<1>3. /\ one \in Seq(M) /\ Len(one) = Len(before) + Len(first)
      /\ \A i \in 1 .. Len(before) + Len(first) :
           one[i] = IF i <= Len(before) THEN before[i] ELSE first[i - Len(before)]
  BY ConcatProperties
<1>4. /\ two \in Seq(M) /\ Len(two) = Len(after) + Len(last)
      /\ \A i \in 1 .. Len(after) + Len(last) :
           two[i] = IF i <= Len(after) THEN after[i] ELSE last[i - Len(after)]
  BY <1>1, <1>2, ConcatProperties
<1> HIDE DEF one, two
<1>5. Len(one) = Len(two) /\ Len(one) \in Nat
  BY <1>1, <1>2, <1>3, <1>4
<1>6. ASSUME NEW i \in 1 .. Len(one) PROVE one[i] = two[i]
  <2>1. i \in 1 .. Len(before) + Len(first) /\ i \in 1 .. Len(after) + Len(last)
    BY <1>3, <1>4, <1>5
  <2>2. CASE i <= Len(before)
    <3>1. i \in 1 .. Len(before) /\ i <= Len(after)
      BY <1>2, <2>1, <2>2
    <3> QED
      BY <1>2, <1>3, <1>4, <2>1, <3>1
  <2>3. CASE i = Len(before) + 1
    <3>1. ~ (i <= Len(before)) /\ i - Len(before) = 1 /\ i <= Len(after)
      BY <1>2, <2>3
    <3> QED
      BY <1>2, <1>3, <1>4, <2>1, <2>3, <3>1
  <2>4. CASE i > Len(before) + 1
    <3> DEFINE k == i - Len(after)
    <3>1. /\ ~ (i <= Len(before)) /\ i - Len(before) = k + 1 /\ ~ (i <= Len(after))
          /\ k \in 1 .. Len(last)
      BY <1>1, <1>2, <2>1, <2>4
    <3>2. one[i] = first[k + 1] /\ two[i] = last[k]
      BY <1>3, <1>4, <2>1, <3>1
    <3> HIDE DEF k
    <3> QED
      BY <1>1, <3>1, <3>2
  <2> QED
    BY <1>2, <2>1, <2>2, <2>3, <2>4
<1>7. one = two
  BY <1>3, <1>4, <1>5, <1>6, SeqEqual
<1> QED
  BY <1>7 DEF one, two, after, last

\* The messages of a sequence of events, in their order.
LEMMA MessagesTyped ==
  ASSUME NEW T, NEW s \in Seq(T), \A e \in T : e.message \in Message
  PROVE  /\ MessagesOf(s) \in Seq(Message) /\ Len(MessagesOf(s)) = Len(s)
         /\ \A i \in 1 .. Len(s) : MessagesOf(s)[i] = s[i].message
<1>1. Len(s) \in Nat /\ DOMAIN s = 1 .. Len(s) /\ \A i \in 1 .. Len(s) : s[i] \in T
  OBVIOUS
<1>2. MessagesOf(s) \in [1 .. Len(s) -> Message]
  BY <1>1 DEF MessagesOf
<1>3. MessagesOf(s) \in Seq(Message) /\ Len(MessagesOf(s)) = Len(s)
  BY <1>1, <1>2
<1> QED
  BY <1>1, <1>3 DEF MessagesOf

\* The messages of what is taken, appended or joined.
LEMMA MessagesTaken ==
  ASSUME NEW T, NEW s \in Seq(T), s # <<>>, \A e \in T : e.message \in Message
  PROVE  /\ MessagesOf(s) # <<>> /\ Head(MessagesOf(s)) = Head(s).message
         /\ MessagesOf(Tail(s)) = Tail(MessagesOf(s))
<1> DEFINE all == MessagesOf(s)
           one == MessagesOf(Tail(s))
<1>1. /\ Head(s) = s[1] /\ Tail(s) \in Seq(T) /\ Len(s) \in Nat \ {0}
      /\ Len(Tail(s)) = Len(s) - 1
      /\ \A i \in 1 .. Len(Tail(s)) : Tail(s)[i] = s[i + 1]
  BY HeadTailProperties
<1>2. /\ all \in Seq(Message) /\ Len(all) = Len(s)
      /\ \A i \in 1 .. Len(s) : all[i] = s[i].message
      /\ one \in Seq(Message) /\ Len(one) = Len(Tail(s))
      /\ \A i \in 1 .. Len(Tail(s)) : one[i] = Tail(s)[i].message
  BY <1>1, MessagesTyped
<1> HIDE DEF all, one
<1>3. all # <<>> /\ Head(all) = all[1]
  BY <1>1, <1>2
<1>4. /\ Tail(all) \in Seq(Message) /\ Len(Tail(all)) = Len(all) - 1
      /\ \A i \in 1 .. Len(Tail(all)) : Tail(all)[i] = all[i + 1]
  BY <1>2, <1>3, HeadTailProperties
<1>5. ASSUME NEW i \in 1 .. Len(one) PROVE one[i] = Tail(all)[i]
  <2>1. i \in 1 .. Len(Tail(s)) /\ i \in 1 .. Len(Tail(all)) /\ i + 1 \in 1 .. Len(s)
    BY <1>1, <1>2, <1>4
  <2> QED
    BY <1>1, <1>2, <1>4, <2>1
<1>6. Len(one) = Len(Tail(all))
  BY <1>1, <1>2, <1>4
<1>7. one = Tail(all)
  BY <1>2, <1>4, <1>5, <1>6, SeqEqual
<1> QED
  BY <1>1, <1>2, <1>3, <1>7 DEF all, one

\* One entry more is one message more.
LEMMA MessagesAppended ==
  ASSUME NEW T, NEW s \in Seq(T), NEW e \in T, \A x \in T : x.message \in Message
  PROVE  MessagesOf(Append(s, e)) = Append(MessagesOf(s), e.message)
<1> DEFINE longer == Append(s, e)
           all == MessagesOf(s)
           one == MessagesOf(longer)
           two == Append(all, e.message)
<1>1. /\ longer \in Seq(T) /\ Len(s) \in Nat /\ Len(longer) = Len(s) + 1
      /\ \A i \in 1 .. Len(s) : longer[i] = s[i]
      /\ longer[Len(s) + 1] = e
  BY AppendProperties
<1> HIDE DEF longer
<1>2. /\ all \in Seq(Message) /\ Len(all) = Len(s)
      /\ \A i \in 1 .. Len(s) : all[i] = s[i].message
      /\ one \in Seq(Message) /\ Len(one) = Len(longer)
      /\ \A i \in 1 .. Len(longer) : one[i] = longer[i].message
  BY <1>1, MessagesTyped
<1> HIDE DEF all, one
<1>3. /\ two \in Seq(Message) /\ Len(two) = Len(all) + 1
      /\ \A i \in 1 .. Len(all) : two[i] = all[i]
      /\ two[Len(all) + 1] = e.message
  BY <1>2, AppendProperties
<1> HIDE DEF two
<1>4. ASSUME NEW i \in 1 .. Len(one) PROVE one[i] = two[i]
  <2>1. i \in 1 .. Len(longer) /\ (i \in 1 .. Len(s) \/ i = Len(s) + 1)
    BY <1>1, <1>2
  <2> QED
    BY <1>1, <1>2, <1>3, <2>1
<1>5. Len(one) = Len(two)
  BY <1>1, <1>2, <1>3
<1>6. one = two
  BY <1>2, <1>3, <1>4, <1>5, SeqEqual
<1> QED
  BY <1>6 DEF one, two, longer, all

\* The messages of two sequences that are joined.
LEMMA MessagesJoined ==
  ASSUME NEW T, NEW s \in Seq(T), NEW t \in Seq(T), \A x \in T : x.message \in Message
  PROVE  MessagesOf(s \o t) = MessagesOf(s) \o MessagesOf(t)
<1> DEFINE longer == s \o t
           front == MessagesOf(s)
           back == MessagesOf(t)
           one == MessagesOf(longer)
           two == front \o back
<1>1. /\ longer \in Seq(T) /\ Len(s) \in Nat /\ Len(t) \in Nat /\ Len(longer) = Len(s) + Len(t)
      /\ \A i \in 1 .. Len(s) + Len(t) : longer[i] = IF i <= Len(s) THEN s[i] ELSE t[i - Len(s)]
  BY ConcatProperties
<1> HIDE DEF longer
<1>2. /\ front \in Seq(Message) /\ Len(front) = Len(s)
      /\ \A i \in 1 .. Len(s) : front[i] = s[i].message
      /\ back \in Seq(Message) /\ Len(back) = Len(t)
      /\ \A i \in 1 .. Len(t) : back[i] = t[i].message
      /\ one \in Seq(Message) /\ Len(one) = Len(longer)
      /\ \A i \in 1 .. Len(longer) : one[i] = longer[i].message
  BY <1>1, MessagesTyped
<1> HIDE DEF front, back, one
<1>6. front \in Seq(Message) /\ back \in Seq(Message)
  BY <1>2
<1>3. /\ two \in Seq(Message) /\ Len(two) = Len(front) + Len(back)
      /\ \A i \in 1 .. Len(front) + Len(back) :
           two[i] = IF i <= Len(front) THEN front[i] ELSE back[i - Len(front)]
  BY <1>6, ConcatProperties
<1> HIDE DEF two
<1>4. ASSUME NEW i \in 1 .. Len(one) PROVE one[i] = two[i]
  <2>1. /\ i \in 1 .. Len(longer) /\ i \in 1 .. Len(s) + Len(t)
        /\ i \in 1 .. Len(front) + Len(back)
    BY <1>1, <1>2
  <2>2. CASE i <= Len(s)
    <3>1. i \in 1 .. Len(s) /\ i <= Len(front)
      BY <1>1, <1>2, <2>1, <2>2
    <3> QED
      BY <1>1, <1>2, <1>3, <2>1, <2>2, <3>1
  <2>3. CASE ~ (i <= Len(s))
    <3>1. i - Len(s) \in 1 .. Len(t) /\ i - Len(front) = i - Len(s) /\ ~ (i <= Len(front))
      BY <1>1, <1>2, <2>1, <2>3
    <3> QED
      BY <1>1, <1>2, <1>3, <2>1, <2>3, <3>1
  <2> QED
    BY <2>2, <2>3
<1>5. Len(one) = Len(two)
  BY <1>1, <1>2, <1>3
<1>7. one = two
  BY <1>2, <1>3, <1>4, <1>5, SeqEqual
<1> QED
  BY <1>7 DEF one, two, longer, front, back

\* Sequences of messages are joined in any grouping, as are those of halves.
LEMMA MessagesAssociate == \A s, t, u \in Seq(Message) : (s \o t) \o u = s \o (t \o u)
BY ConcatAssociative

\* The first event is published or given up.
LEMMA EventEnds ==
  ASSUME EventsAccounted, events # <<>>, NEW published \in BOOLEAN,
         events' = Tail(events), UNCHANGED admitted,
         done' = Append(done, [message |-> Head(events).message, published |-> published])
  PROVE  EventsAccounted'
<1> DEFINE ended == [message |-> Head(events).message, published |-> published]
<1>1. /\ events \in Seq(Event) /\ done \in Seq(DoneEvent) /\ admitted \in Seq(Message)
      /\ Len(events) <= EventLimit /\ EventLimit \in Nat /\ Len(events) \in Nat
      /\ admitted = MessagesOf(done) \o MessagesOf(events)
  BY SessionAssumption DEF EventsAccounted
<1>2. (\A e \in Event : e.message \in Message) /\ (\A e \in DoneEvent : e.message \in Message)
  BY DEF Event, DoneEvent
<1>3. Head(events) \in Event /\ events' \in Seq(Event) /\ Len(events') = Len(events) - 1
  <2>1. events \in Seq(Event)
    BY <1>1
  <2> HIDE DEF Event
  <2> QED
    BY <2>1, HeadTailProperties
<1>4. ended \in DoneEvent /\ ended.message = Head(events).message
  BY <1>3 DEF Event, DoneEvent
<1>5. done' = Append(done, ended)
  OBVIOUS
<1> HIDE DEF ended
<1>6. done' \in Seq(DoneEvent)
  <2> HIDE DEF DoneEvent
  <2> QED
    BY <1>1, <1>4, <1>5, AppendProperties
<1>7. MessagesOf(done') = Append(MessagesOf(done), Head(events).message)
  <2>1. MessagesOf(done') = Append(MessagesOf(done), ended.message)
    BY <1>1, <1>2, <1>4, <1>5, MessagesAppended
  <2> QED
    BY <1>4, <2>1
<1>8. /\ MessagesOf(events) # <<>> /\ Head(MessagesOf(events)) = Head(events).message
      /\ MessagesOf(events') = Tail(MessagesOf(events))
  BY <1>1, <1>2, MessagesTaken
<1>9. MessagesOf(done) \in Seq(Message) /\ MessagesOf(events) \in Seq(Message)
  BY <1>1, <1>2, MessagesTyped
<1>10. Append(MessagesOf(done), Head(MessagesOf(events))) \o Tail(MessagesOf(events))
         = MessagesOf(done) \o MessagesOf(events)
  BY <1>8, <1>9, MovesOver
<1>11. admitted' = MessagesOf(done') \o MessagesOf(events')
  BY <1>1, <1>7, <1>8, <1>10
<1> QED
  BY <1>1, <1>3, <1>6, <1>11 DEF EventsAccounted

\* New messages become events.
LEMMA EventsJoin ==
  ASSUME EventsAccounted, NEW new \in Seq(Message), NEW resolve \in BOOLEAN,
         Len(events) + Len(new) <= EventLimit, UNCHANGED done, admitted' = admitted \o new,
         events' = events \o [i \in DOMAIN new |-> [message |-> new[i], resolve |-> resolve]]
  PROVE  EventsAccounted'
<1> DEFINE added == [i \in DOMAIN new |-> [message |-> new[i], resolve |-> resolve]]
           before == MessagesOf(done)
           middle == MessagesOf(events)
<1>1. /\ events \in Seq(Event) /\ done \in Seq(DoneEvent) /\ admitted \in Seq(Message)
      /\ admitted = before \o middle
  BY DEF EventsAccounted
<1>2. (\A e \in Event : e.message \in Message) /\ (\A e \in DoneEvent : e.message \in Message)
  BY DEF Event, DoneEvent
<1>3. added \in Seq(Event) /\ Len(added) = Len(new) /\ MessagesOf(added) = new
  <2>1. /\ Len(new) \in Nat /\ DOMAIN new = 1 .. Len(new)
        /\ \A i \in 1 .. Len(new) : new[i] \in Message
    OBVIOUS
  <2>2. added \in [1 .. Len(new) -> Event] /\ \A i \in 1 .. Len(new) : added[i].message = new[i]
    BY <2>1 DEF Event
  <2>3. added \in Seq(Event) /\ Len(added) = Len(new)
    BY <2>1, <2>2
  <2> HIDE DEF added
  <2>4. MessagesOf(added) = [i \in 1 .. Len(new) |-> new[i]]
    BY <2>2 DEF MessagesOf
  <2> QED
    BY <2>1, <2>3, <2>4
<1>4. events' = events \o added
  OBVIOUS
<1> HIDE DEF added
<1>5. /\ before \in Seq(Message) /\ middle \in Seq(Message)
      /\ MessagesOf(events \o added) = middle \o MessagesOf(added)
  BY <1>1, <1>2, <1>3, MessagesTyped, MessagesJoined
<1>6. events' \in Seq(Event) /\ Len(events') <= EventLimit
  <2>1. events \o added \in Seq(Event) /\ Len(events \o added) = Len(events) + Len(added)
    BY <1>1, <1>3, AppendedMessages
  <2> QED
    BY <1>3, <1>4, <2>1
<1> HIDE DEF before, middle
<1>7. (before \o middle) \o new = before \o (middle \o new)
  <2>1. \A s, t, u \in Seq(Message) : (s \o t) \o u = s \o (t \o u)
    BY MessagesAssociate
  <2>2. before \in Seq(Message) /\ middle \in Seq(Message) /\ new \in Seq(Message)
    BY <1>5
  <2> QED
    BY <2>1, <2>2, Zenon
<1>8. admitted' \in Seq(Message)
  BY <1>1, AppendedMessages
<1>9. admitted' = MessagesOf(done') \o MessagesOf(events')
  BY <1>1, <1>3, <1>4, <1>5, <1>7 DEF before
<1> QED
  BY <1>1, <1>6, <1>8, <1>9 DEF EventsAccounted

-----------------------------------------------------------------------------
(* The frames.                                                             *)

\* One of the two parts that a frame comes in.
Half == [frame : PushFrame, part : {1, 2}]

\* A stream of whole frames.
Whole(stream) ==
  /\ stream \in Seq(Half)
  /\ Len(stream) % 2 = 0
  /\ \A i \in DOMAIN stream :
       /\ stream[i].part = IF i % 2 = 1 THEN 1 ELSE 2
       /\ i % 2 = 0 => stream[i].frame = stream[i - 1].frame

\* What was read of a frame and what is on its way make whole frames.
Framed ==
  /\ incoming \in Seq(Half) /\ buffer \in Seq(Half) /\ Len(buffer) <= 1
  /\ Whole(buffer \o incoming)

\* A frame that is sent makes a stream of whole frames longer by two halves.
LEMMA WholeGrows ==
  ASSUME NEW stream, Whole(stream), NEW frame \in PushFrame
  PROVE  Whole(stream \o Halves(frame))
<1> DEFINE halves == Halves(frame)
           longer == stream \o halves
<1>1. /\ stream \in Seq(Half) /\ Len(stream) \in Nat /\ Len(stream) % 2 = 0
      /\ \A i \in DOMAIN stream :
           /\ stream[i].part = IF i % 2 = 1 THEN 1 ELSE 2
           /\ i % 2 = 0 => stream[i].frame = stream[i - 1].frame
      /\ DOMAIN stream = 1 .. Len(stream)
  BY DEF Whole
<1>2. /\ halves \in Seq(Half) /\ Len(halves) = 2
      /\ halves[1].frame = frame /\ halves[1].part = 1
      /\ halves[2].frame = frame /\ halves[2].part = 2
  BY DEF Halves, Half
<1> HIDE DEF halves, Half
<1>3. /\ longer \in Seq(Half) /\ Len(longer) = Len(stream) + Len(halves)
      /\ \A i \in 1 .. Len(stream) + Len(halves) :
           longer[i] = IF i <= Len(stream) THEN stream[i] ELSE halves[i - Len(stream)]
  BY <1>1, <1>2, ConcatProperties
<1> HIDE DEF longer
<1>4. /\ Len(longer) = Len(stream) + 2 /\ Len(longer) % 2 = 0
      /\ DOMAIN longer = 1 .. Len(stream) + 2
  BY <1>1, <1>2, <1>3
<1>5. ASSUME NEW i \in DOMAIN longer
      PROVE  /\ longer[i].part = IF i % 2 = 1 THEN 1 ELSE 2
             /\ i % 2 = 0 => longer[i].frame = longer[i - 1].frame
  <2>1. CASE i \in 1 .. Len(stream)
    <3>1. longer[i] = stream[i]
      BY <1>1, <1>2, <1>3, <2>1
    <3>2. i % 2 = 0 => longer[i - 1] = stream[i - 1]
      <4>1. i % 2 = 0 => i - 1 \in 1 .. Len(stream) + Len(halves) /\ i - 1 <= Len(stream)
        <5>1. i \in Nat /\ i >= 1 /\ i <= Len(stream) /\ Len(stream) \in Nat /\ Len(halves) = 2
          BY <1>1, <1>2, <2>1
        <5>2. i % 2 = 0 => i # 1
          OBVIOUS
        <5> QED
          BY <5>1, <5>2
      <4> QED
        BY <1>3, <4>1
    <3> QED
      BY <1>1, <2>1, <3>1, <3>2
  <2>2. CASE i = Len(stream) + 1
    <3>1. /\ i % 2 = 1 /\ ~ (i <= Len(stream)) /\ i - Len(stream) = 1
          /\ i \in 1 .. Len(stream) + Len(halves)
      <4>1. Len(stream) \in Nat /\ Len(stream) % 2 = 0 /\ Len(halves) = 2
        BY <1>1, <1>2
      <4> QED
        BY <2>2, <4>1
    <3>2. longer[i] = halves[1]
      BY <1>3, <3>1
    <3> QED
      BY <1>2, <3>1, <3>2
  <2>3. CASE i = Len(stream) + 2
    <3> DEFINE before == i - 1
    <3>1. /\ i % 2 = 0 /\ ~ (i <= Len(stream)) /\ i - Len(stream) = 2
          /\ i \in 1 .. Len(stream) + Len(halves)
          /\ before \in 1 .. Len(stream) + Len(halves)
          /\ ~ (before <= Len(stream)) /\ before - Len(stream) = 1
      <4>1. Len(stream) \in Nat /\ Len(stream) % 2 = 0 /\ Len(halves) = 2
        BY <1>1, <1>2
      <4> QED
        BY <2>3, <4>1
    <3> HIDE DEF before
    <3>2. longer[i] = halves[2] /\ longer[before] = halves[1]
      BY <1>3, <3>1
    <3> QED
      BY <1>2, <3>1, <3>2 DEF before
  <2> QED
    BY <1>1, <1>4, <2>1, <2>2, <2>3
<1> QED
  BY <1>3, <1>4, <1>5 DEF Whole, longer, halves

\* A stream of whole frames loses its first one and keeps the others whole.
LEMMA WholeShrinks ==
  ASSUME NEW stream, Whole(stream), Len(stream) >= 2
  PROVE  Whole(SubSeq(stream, 3, Len(stream))) /\ stream[1].frame \in PushFrame
<1> DEFINE rest == SubSeq(stream, 3, Len(stream))
<1>1. /\ stream \in Seq(Half) /\ Len(stream) \in Nat /\ Len(stream) % 2 = 0
      /\ \A i \in DOMAIN stream :
           /\ stream[i].part = IF i % 2 = 1 THEN 1 ELSE 2
           /\ i % 2 = 0 => stream[i].frame = stream[i - 1].frame
      /\ DOMAIN stream = 1 .. Len(stream)
  BY DEF Whole
<1>7. \A i \in 1 .. Len(stream) : stream[i] \in Half
  <2>1. stream \in Seq(Half)
    BY <1>1
  <2> HIDE DEF Half
  <2> QED
    BY <2>1, ElementOfSeq
<1>2. stream[1].frame \in PushFrame
  <2>1. stream[1] \in Half
    BY <1>1, <1>7
  <2> QED
    BY <2>1 DEF Half
<1> HIDE DEF Half
<1>3. /\ rest \in Seq(Half)
      /\ Len(rest) = IF 3 <= Len(stream) THEN Len(stream) - 3 + 1 ELSE 0
      /\ \A i \in 1 .. Len(stream) - 3 + 1 : rest[i] = stream[3 + i - 1]
  <2>1. Len(stream) \in Int /\ 3 \in Int /\ \A i \in 3 .. Len(stream) : stream[i] \in Half
    BY <1>1, <1>7
  <2> QED
    BY <2>1, SubSeqProperties
<1> HIDE DEF rest
<1>4. /\ Len(rest) = Len(stream) - 2 /\ Len(rest) % 2 = 0 /\ DOMAIN rest = 1 .. Len(stream) - 2
  <2>1. Len(stream) \in Nat /\ Len(stream) % 2 = 0 /\ Len(stream) >= 2
    BY <1>1
  <2>2. Len(rest) = Len(stream) - 2
    <3>1. Len(rest) = IF 3 <= Len(stream) THEN Len(stream) - 3 + 1 ELSE 0
      BY <1>3
    <3> QED
      BY <2>1, <3>1
  <2>3. (Len(stream) - 2) % 2 = 0
    BY <2>1
  <2>4. DOMAIN rest = 1 .. Len(rest)
    BY <1>3
  <2> QED
    BY <2>2, <2>3, <2>4
<1>5. ASSUME NEW i \in 1 .. Len(stream) - 2 PROVE rest[i] = stream[i + 2]
  <2>1. Len(stream) \in Nat /\ i \in Nat
    BY <1>1
  <2>2. i \in 1 .. Len(stream) - 3 + 1 /\ 3 + i - 1 = i + 2
    BY <2>1
  <2>3. rest[i] = stream[3 + i - 1]
    BY <1>3, <2>2
  <2> QED
    BY <2>2, <2>3
<1>6. ASSUME NEW i \in DOMAIN rest
      PROVE  /\ rest[i].part = IF i % 2 = 1 THEN 1 ELSE 2
             /\ i % 2 = 0 => rest[i].frame = rest[i - 1].frame
  <2>1. i \in Nat /\ i + 2 \in DOMAIN stream /\ (i + 2) % 2 = i % 2
    BY <1>1, <1>4
  <2>2. rest[i] = stream[i + 2]
    BY <1>4, <1>5
  <2>3. i % 2 = 0 => i - 1 \in 1 .. Len(stream) - 2 /\ (i - 1) + 2 = (i + 2) - 1
    BY <1>1, <1>4
  <2>4. i % 2 = 0 => rest[i - 1] = stream[(i + 2) - 1]
    BY <1>5, <2>3
  <2> QED
    BY <1>1, <2>1, <2>2, <2>4
<1> QED
  BY <1>2, <1>3, <1>4, <1>6 DEF Whole, rest

\* As for messages.
LEMMA HalvesAssociate == \A s, t, u \in Seq(Half) : (s \o t) \o u = s \o (t \o u)
BY ConcatAssociative

\* QQ sends a frame.
LEMMA FramedSend ==
  ASSUME Framed, NEW frame \in PushFrame,
         UNCHANGED buffer, incoming' = incoming \o Halves(frame)
  PROVE  Framed'
<1>1. /\ incoming \in Seq(Half) /\ buffer \in Seq(Half) /\ Len(buffer) <= 1
      /\ Whole(buffer \o incoming)
  BY DEF Framed
<1>2. Halves(frame) \in Seq(Half)
  BY DEF Halves, Half
<1>3. Whole((buffer \o incoming) \o Halves(frame))
  BY <1>1, WholeGrows
<1>4. (buffer \o incoming) \o Halves(frame) = buffer \o (incoming \o Halves(frame))
  BY <1>1, <1>2, HalvesAssociate, Zenon
<1>5. incoming' \in Seq(Half)
  BY <1>1, <1>2, AppendedMessages
<1> QED
  BY <1>1, <1>3, <1>4, <1>5 DEF Framed

\* A half that is read moves from the network to the buffer.
LEMMA FramedReadPart ==
  ASSUME Framed, ReadPart
  PROVE  Framed'
<1>1. /\ incoming \in Seq(Half) /\ incoming # <<>> /\ buffer = <<>>
      /\ buffer' = <<Head(incoming)>> /\ incoming' = Tail(incoming)
      /\ Whole(buffer \o incoming)
  BY DEF Framed, ReadPart
<1> DEFINE one == buffer' \o incoming'
<1>2. /\ Head(incoming) \in Half /\ incoming' \in Seq(Half)
      /\ Head(incoming) = incoming[1] /\ Len(incoming) \in Nat \ {0}
      /\ Len(incoming') = Len(incoming) - 1
      /\ \A i \in 1 .. Len(incoming') : incoming'[i] = incoming[i + 1]
  <2> HIDE DEF Half
  <2> QED
    BY <1>1, HeadTailProperties
<1>3. buffer' \in Seq(Half) /\ Len(buffer') = 1 /\ buffer'[1] = incoming[1]
  BY <1>1, <1>2
<1>4. /\ one \in Seq(Half) /\ Len(one) = Len(buffer') + Len(incoming')
      /\ \A i \in 1 .. Len(buffer') + Len(incoming') :
           one[i] = IF i <= Len(buffer') THEN buffer'[i] ELSE incoming'[i - Len(buffer')]
  <2>1. buffer' \in Seq(Half) /\ incoming' \in Seq(Half)
    BY <1>2, <1>3
  <2> QED
    BY <2>1, ConcatProperties
<1> HIDE DEF one
<1>5. Len(one) = Len(incoming)
  BY <1>2, <1>3, <1>4
<1>6. ASSUME NEW i \in 1 .. Len(incoming) PROVE one[i] = incoming[i]
  <2>1. i \in 1 .. Len(buffer') + Len(incoming')
    BY <1>2, <1>3
  <2>2. CASE i = 1
    BY <1>3, <1>4, <2>1, <2>2
  <2>3. CASE i # 1
    <3>1. /\ i - Len(buffer') \in 1 .. Len(incoming') /\ ~ (i <= Len(buffer'))
          /\ (i - Len(buffer')) + 1 = i
      BY <1>2, <1>3, <2>3
    <3>2. one[i] = incoming'[i - Len(buffer')]
      BY <1>4, <2>1, <3>1
    <3> QED
      BY <1>2, <3>1, <3>2
  <2> QED
    BY <2>2, <2>3
<1>7. one = incoming
  BY <1>1, <1>4, <1>5, <1>6, SeqEqual
<1>8. buffer \o incoming = incoming
  BY <1>1, ConcatEmptySeq
<1>9. Whole(one)
  BY <1>1, <1>7, <1>8
<1> QED
  BY <1>2, <1>3, <1>9 DEF Framed, one

\* A frame that is complete is taken out, and it is one that QQ sent.
LEMMA FramedTake ==
  ASSUME Framed, TakeFrame
  PROVE  Framed' /\ Inbound \in PushFrame
<1> DEFINE stream == buffer \o incoming
           rest == SubSeq(stream, 3, Len(stream))
<1>1. Whole(stream) /\ Len(stream) >= 2 /\ buffer' = <<>> /\ incoming' = rest
  BY DEF Framed, TakeFrame, FrameRead
<1>2. Whole(rest) /\ Inbound \in PushFrame
  BY <1>1, WholeShrinks DEF Inbound
<1> HIDE DEF rest
<1>3. rest \in Seq(Half)
  BY <1>2 DEF Whole
<1>4. <<>> \o rest = rest
  BY <1>3, ConcatEmptySeq
<1>5. buffer' \in Seq(Half) /\ Len(buffer') <= 1
  BY <1>1
<1> QED
  BY <1>1, <1>2, <1>3, <1>4, <1>5 DEF Framed

-----------------------------------------------------------------------------
(* The session.                                                            *)

\* The loop is in an exchange that somebody asked for; the one that resolves an
\* event has it at the head of the queue.
LoopFits ==
  /\ loopStage \in {"Drain", "Publish", "Select", "Exchange", "Over"}
  /\ then \in {"Select", "Drain"}
  /\ exchange \in [caller : Caller \union {"None"}, request : Nat, reads : 0 .. ReadLimit]
  /\ loopStage = "Exchange" => exchange.caller \in Caller
  /\ loopStage = "Exchange" /\ exchange.caller = "Resolve" => events # <<>>

\* QQ answers requests that were made and numbers its messages.
NetworkFits ==
  /\ exchanges \in Nat /\ unanswered \subseteq 1 .. exchanges
  /\ sent \in [pushes : Nat, messages : 0 .. MaxMessages]

\* The inductive invariant of a session.
SessionInv ==
  /\ Framed /\ NetworkFits
  /\ LedgerInv /\ Len(pushes) <= QueueLimit /\ NoDuplicateInWindow /\ (~Over => EachIsFound)
  /\ LoopFits /\ EventsAccounted /\ AnswersMatch

\* A session begins with empty queues and nothing on its way.
LEMMA SessionStarts == SessionInit => SessionInv
<1> SUFFICES ASSUME SessionInit PROVE SessionInv
  OBVIOUS
<1>1. /\ incoming = <<>> /\ buffer = <<>> /\ unanswered = {}
      /\ pushes = <<>> /\ events = <<>>
      /\ loopStage = "Drain" /\ then = "Select" /\ exchange = NoExchange
      /\ exchanges = 0 /\ sent = [pushes |-> 0, messages |-> 0]
      /\ arrived = <<>> /\ admitted = <<>> /\ done = <<>> /\ answered = {}
  BY DEF SessionInit
<1>2. Framed
  <2>1. <<>> \in Seq(Half) /\ Len(<<>>) = 0 /\ buffer \o incoming = <<>>
    BY <1>1
  <2>2. Whole(<<>>)
    BY <2>1 DEF Whole
  <2> QED
    BY <1>1, <2>1, <2>2 DEF Framed
<1>3. NetworkFits
  BY <1>1, SessionAssumption DEF NetworkFits
<1>4. LedgerInv
  BY <1>1 DEF LedgerInv, LedgerTypeOK, ArrivalsKnown, QueueInOrder, QueuedFirst,
              OnlyDirectReadsOvertake
<1>5. Len(pushes) <= QueueLimit /\ NoDuplicateInWindow /\ EachIsFound
  BY <1>1, SessionAssumption DEF NoDuplicateInWindow, EachIsFound
<1>6. LoopFits
  BY <1>1, SessionAssumption DEF LoopFits, NoExchange
<1>7. EventsAccounted
  <2>1. MessagesOf(<<>>) = <<>>
    BY DEF MessagesOf
  <2> QED
    BY <1>1, <2>1, SessionAssumption DEF EventsAccounted
<1> QED
  BY <1>1, <1>2, <1>3, <1>4, <1>5, <1>6, <1>7 DEF SessionInv, AnswersMatch

\* The invariant is what SessionIsSound says and why it stays so.
LEMMA SessionInvSound == SessionInv => SessionIsSound
<1> SUFFICES ASSUME SessionInv PROVE SessionIsSound
  OBVIOUS
<1>1. SessionTypeOK
  <2>1. Len(buffer) <= 1 /\ Len(pushes) <= QueueLimit
    BY DEF SessionInv, Framed
  <2>2. \A i \in DOMAIN pushes : Admitted(pushes[i])
    BY DEF SessionInv, LedgerInv, LedgerTypeOK
  <2>3. events \in Seq([message : Message, resolve : BOOLEAN]) /\ Len(events) <= EventLimit
    BY DEF SessionInv, EventsAccounted, Event
  <2>4. /\ loopStage \in {"Drain", "Publish", "Select", "Exchange", "Over"}
        /\ then \in {"Select", "Drain"} /\ exchange.reads \in 0 .. ReadLimit
        /\ loopStage = "Exchange" => exchange.caller \in Caller
    BY DEF SessionInv, LoopFits
  <2>5. unanswered \subseteq 1 .. exchanges
    BY DEF SessionInv, NetworkFits
  <2> QED
    BY <2>1, <2>2, <2>3, <2>4, <2>5 DEF SessionTypeOK
<1>2. FramesStayWhole
  BY DEF SessionInv, Framed, Whole, FramesStayWhole
<1>3. NothingForgotten
  BY DEF SessionInv, NothingForgotten, EachIsFound, EventsAccounted, MessagesOf
<1> QED
  BY <1>1, <1>2, <1>3 DEF SessionIsSound, SessionInv, LedgerInv

-----------------------------------------------------------------------------
\* What rests.
LEMMA QueueRests ==
  ASSUME LedgerInv, NoDuplicateInWindow, UNCHANGED <<pushes, arrived, admitted>>
  PROVE  LedgerInv' /\ NoDuplicateInWindow' /\ (EachIsFound => EachIsFound')
<1>1. LedgerInv'
  BY DEF LedgerInv, LedgerTypeOK, ArrivalsKnown, QueueInOrder, QueuedFirst, CameOnce,
         OnlyDirectReadsOvertake, Before
<1> QED
  BY <1>1 DEF NoDuplicateInWindow, EachIsFound

\* The events rest.
LEMMA EventsRest ==
  ASSUME EventsAccounted, UNCHANGED <<events, done, admitted>>
  PROVE  EventsAccounted'
BY DEF EventsAccounted, MessagesOf

\* Nothing is read or sent.
LEMMA FramesRest ==
  ASSUME Framed, UNCHANGED <<incoming, buffer>>
  PROVE  Framed'
BY DEF Framed, Whole

\* The push is handled: what is new of it is admitted and becomes events, or the
\* session is over.
LEMMA Handled ==
  ASSUME EventsAccounted, NoDuplicateInWindow, UNCHANGED done,
         NEW push \in PushFrame, Admitted(push),
         NEW ends \in BOOLEAN, NEW next \in {"Drain", "Publish"}, Handle(push, ends, next)
  PROVE  /\ EventsAccounted' /\ NoDuplicateInWindow' /\ loopStage' \in {next, "Over"}
         /\ \E at, new : /\ Picks(push.content, at, new) /\ admitted' = admitted \o new
                         /\ ~Over' => Selects(push.content, at, new)
<1>1. /\ events \in Seq(Event) /\ Len(events) <= EventLimit /\ EventLimit \in Nat
      /\ admitted \in Seq(Message) /\ push.content \in Seq(Message)
  BY SessionAssumption DEF EventsAccounted, PushFrame, FrameFits, Admitted
<1>2. CASE loopStage' = "Over" /\ UNCHANGED <<events, admitted>>
  <2>1. EventsAccounted' /\ NoDuplicateInWindow'
    BY <1>2, EventsRest DEF NoDuplicateInWindow
  <2>2. Picks(push.content, <<>>, <<>>)
    BY <1>1 DEF Picks
  <2>3. admitted' = admitted \o <<>>
    BY <1>1, <1>2, ConcatEmptySeq
  <2> QED
    BY <1>2, <2>1, <2>2, <2>3 DEF Over
<1>3. CASE /\ Fits(push) /\ loopStage' = next /\ admitted' = admitted \o New(push)
           /\ events' = events \o [i \in DOMAIN New(push) |->
                [message |-> New(push)[i], resolve |-> push.route = "Notice"]]
  <2> DEFINE new == New(push)
  <2>1. PICK at : Selects(push.content, at, new)
    BY NewSelects
  <2>2. Picks(push.content, at, new) /\ \A k, l \in DOMAIN new : k < l => new[k] # new[l]
    BY <2>1, SelectsPicks
  <2>3. /\ new \in Seq(Message) /\ Len(new) <= Len(push.content)
        /\ \A k \in DOMAIN new : new[k] \notin Seen
    BY <2>1 DEF Selects
  <2>4. (push.route = "Notice") \in BOOLEAN
    OBVIOUS
  <2>5. Len(events) + Len(new) <= EventLimit
    <3>1. CASE push.route \in Messages
      <4>1. Len(events) + Len(push.content) <= EventLimit
        BY <1>3, <3>1 DEF Fits
      <4>2. Len(events) \in Nat /\ Len(new) \in Nat /\ Len(push.content) \in Nat
        BY <1>1, <2>3
      <4> QED
        BY <1>1, <2>3, <4>1, <4>2
    <3>2. CASE push.route \notin Messages
      <4>1. push.content = <<>>
        BY <3>2 DEF PushFrame, FrameFits, Admitted
      <4>2. Len(new) \in Nat /\ Len(new) <= 0 /\ Len(events) \in Nat
        BY <1>1, <2>3, <4>1
      <4> QED
        BY <1>1, <4>2
    <3> QED
      BY <3>1, <3>2
  <2>6. /\ admitted' = admitted \o new
        /\ events' = events \o [i \in DOMAIN new |->
             [message |-> new[i], resolve |-> push.route = "Notice"]]
    BY <1>3
  <2> HIDE DEF new
  <2>7. NoDuplicateInWindow'
    BY <1>1, <2>2, <2>3, <2>6, WindowHolds
  <2>8. EventsAccounted'
    <3> DEFINE resolve == push.route = "Notice"
    <3>1. /\ resolve \in BOOLEAN
          /\ events' = events \o [i \in DOMAIN new |->
               [message |-> new[i], resolve |-> resolve]]
      BY <2>6
    <3> HIDE DEF resolve
    <3> QED
      BY <2>3, <2>5, <2>6, <3>1, EventsJoin
  <2> QED
    BY <1>3, <2>1, <2>2, <2>6, <2>7, <2>8
<1> QED
  BY <1>2, <1>3 DEF Handle

\* The exchange ends, for the event at the head of the queue if it resolved it.
LEMMA ExchangeEnds ==
  ASSUME LoopFits, EventsAccounted, loopStage = "Exchange", NEW ok \in BOOLEAN, Completed(ok),
         UNCHANGED admitted
  PROVE  LoopFits' /\ EventsAccounted' /\ loopStage' # "Exchange" /\ UNCHANGED exchanges
<1>1. LoopFits' /\ loopStage' # "Exchange" /\ UNCHANGED exchanges
  BY SessionAssumption DEF LoopFits, Completed, NoExchange, Caller
<1>2. EventsAccounted'
  <2>1. CASE exchange.caller = "Resolve"
    <3>1. /\ events # <<>> /\ events' = Tail(events)
          /\ done' = Append(done, [message |-> Head(events).message, published |-> ok])
      BY <2>1 DEF LoopFits, Completed
    <3> QED
      BY <3>1, EventEnds
  <2>2. CASE exchange.caller # "Resolve"
    BY <2>2, EventsRest DEF Completed
  <2> QED
    BY <2>1, <2>2
<1> QED
  BY <1>1, <1>2

\* QQ sends.
LEMMA SendsKeep ==
  ASSUME SessionInv,
         \/ \E route \in Route \ {"Answer"}, again \in 0 .. sent.messages :
              SendPush(route, again)
         \/ \E request \in unanswered : SendAnswer(request)
  PROVE  SessionInv'
<1>1. /\ Framed /\ NetworkFits /\ LedgerInv /\ NoDuplicateInWindow
      /\ LoopFits /\ EventsAccounted
      /\ AnswersMatch /\ Len(pushes) <= QueueLimit /\ (~Over => EachIsFound)
  BY DEF SessionInv
<1>2. /\ MaxMessages \in Nat /\ exchanges \in Nat /\ unanswered \subseteq 1 .. exchanges
      /\ sent \in [pushes : Nat, messages : 0 .. MaxMessages]
  BY <1>1, SessionAssumption DEF NetworkFits
<1>3. ASSUME NEW route \in Route \ {"Answer"}, NEW again \in 0 .. sent.messages,
             SendPush(route, again)
      PROVE  /\ Framed' /\ NetworkFits'
             /\ UNCHANGED <<pushes, arrived, admitted, queues, loop, sessionHistory>>
  <2> DEFINE fresh == CASE route = "Batch" -> 2
                        [] route \in Messages /\ again = 0 -> 1
                        [] OTHER -> 0
             content == IF again = 0 THEN [i \in 1 .. fresh |-> sent.messages + i]
                        ELSE <<again>>
  <2>1. /\ sent.messages + fresh <= MaxMessages
        /\ again # 0 => route = "Message"
        /\ sent' = [pushes |-> sent.pushes + 1, messages |-> sent.messages + fresh]
        /\ incoming' = incoming \o Halves(QqFrame(route, content))
        /\ UNCHANGED <<buffer, unanswered, queues, loop, sessionHistory>>
    BY <1>3 DEF SendPush
  <2>2. fresh \in Nat /\ (route \notin Messages => fresh = 0)
    BY DEF Messages
  <2> HIDE DEF fresh
  <2>3. /\ content \in Seq(Message) /\ content \in Seq(Nat)
        /\ \A i, j \in DOMAIN content : content[i] = content[j] => i = j
        /\ route \notin Messages => content = <<>>
    <3>1. CASE again = 0
      <4>1. /\ content = [i \in 1 .. fresh |-> sent.messages + i]
            /\ \A i \in 1 .. fresh : sent.messages + i \in Message /\ sent.messages + i \in Nat
        BY <1>2, <2>1, <2>2, <3>1 DEF Message
      <4> HIDE DEF content
      <4>2. content \in Seq(Message) /\ content \in Seq(Nat) /\ DOMAIN content = 1 .. fresh
        BY <2>2, <4>1
      <4>3. \A i, j \in DOMAIN content : content[i] = content[j] => i = j
        BY <1>2, <2>2, <4>1
      <4>4. fresh = 0 => content = <<>>
        BY <4>1
      <4> QED
        BY <2>2, <4>2, <4>3, <4>4
    <3>2. CASE again # 0
      <4>1. again \in Message /\ again \in Nat
        BY <1>2, <3>2 DEF Message
      <4>2. route \in Messages /\ content = <<again>>
        BY <2>1, <3>2 DEF Messages
      <4> HIDE DEF content
      <4>3. content \in Seq(Message) /\ content \in Seq(Nat)
        BY <4>1, <4>2
      <4>4. DOMAIN content = {1}
        BY <4>2
      <4>5. \A i, j \in DOMAIN content : content[i] = content[j] => i = j
        BY <4>4
      <4> QED
        BY <4>2, <4>3, <4>5
    <3> QED
      BY <3>1, <3>2
  <2> HIDE DEF content
  <2>4. QqFrame(route, content) \in PushFrame
    BY <2>3 DEF QqFrame, PushFrame, FrameFits
  <2>5. Framed'
    BY <1>1, <2>1, <2>4, FramedSend
  <2>6. NetworkFits'
    <3>1. sent.messages + fresh \in 0 .. MaxMessages /\ sent.pushes + 1 \in Nat
      BY <1>2, <2>1, <2>2
    <3> QED
      BY <1>2, <2>1, <3>1 DEF NetworkFits, loop
  <2> QED
    BY <2>1, <2>5, <2>6 DEF queues, sessionHistory
<1>4. ASSUME NEW request \in unanswered, SendAnswer(request)
      PROVE  /\ Framed' /\ NetworkFits'
             /\ UNCHANGED <<pushes, arrived, admitted, queues, loop, sessionHistory>>
  <2>1. /\ unanswered' = unanswered \ {request}
        /\ incoming' = incoming \o Halves(QqFrame("Answer", <<request>>))
        /\ UNCHANGED <<buffer, sent, queues, loop, sessionHistory>>
    BY <1>4 DEF SendAnswer
  <2>2. QqFrame("Answer", <<request>>) \in PushFrame
    <3>1. request \in Nat /\ <<request>> \in Seq(Nat)
      BY <1>2
    <3> QED
      BY <3>1 DEF QqFrame, PushFrame, FrameFits, Route
  <2>3. Framed'
    BY <1>1, <2>1, <2>2, FramedSend
  <2>4. NetworkFits'
    BY <1>2, <2>1 DEF NetworkFits, loop
  <2> QED
    BY <2>1, <2>3, <2>4 DEF queues, sessionHistory
<1>5. /\ Framed' /\ NetworkFits'
      /\ UNCHANGED <<pushes, arrived, admitted, queues, loop, sessionHistory>>
  BY <1>3, <1>4
<1>6. LedgerInv' /\ NoDuplicateInWindow' /\ (EachIsFound => EachIsFound')
  BY <1>1, <1>5, QueueRests
<1>7. EventsAccounted'
  BY <1>1, <1>5, EventsRest DEF queues, sessionHistory
<1>8. LoopFits' /\ AnswersMatch' /\ Len(pushes') <= QueueLimit /\ (Over' <=> Over)
  BY <1>1, <1>5 DEF LoopFits, AnswersMatch, loop, queues, sessionHistory, Over
<1> QED
  BY <1>1, <1>5, <1>6, <1>7, <1>8 DEF SessionInv

\* A part of a frame is read.
LEMMA ReadPartKeeps ==
  ASSUME SessionInv, ReadPart
  PROVE  SessionInv'
<1>1. /\ Framed /\ NetworkFits /\ LedgerInv /\ NoDuplicateInWindow
      /\ LoopFits /\ EventsAccounted
      /\ AnswersMatch /\ Len(pushes) <= QueueLimit /\ (~Over => EachIsFound)
  BY DEF SessionInv
<1>2. UNCHANGED <<unanswered, sent, queues, loop, sessionHistory>>
  BY DEF ReadPart
<1>3. Framed'
  BY <1>1, FramedReadPart
<1>4. LedgerInv' /\ NoDuplicateInWindow' /\ (EachIsFound => EachIsFound')
  BY <1>1, <1>2, QueueRests DEF queues, sessionHistory
<1>5. EventsAccounted'
  BY <1>1, <1>2, EventsRest DEF queues, sessionHistory
<1>6. /\ LoopFits' /\ AnswersMatch' /\ Len(pushes') <= QueueLimit /\ (Over' <=> Over)
      /\ NetworkFits'
  BY <1>1, <1>2 DEF LoopFits, AnswersMatch, NetworkFits, loop, queues, sessionHistory, Over
<1> QED
  BY <1>1, <1>3, <1>4, <1>5, <1>6 DEF SessionInv

\* An exchange ends without a push.
LEMMA ExchangeKeeps ==
  ASSUME SessionInv,
         \/ \E accepted \in BOOLEAN : TakeAnswer(accepted)
         \/ RejectFrame \/ ExchangeFails
  PROVE  SessionInv'
<1>1. /\ Framed /\ NetworkFits /\ LedgerInv /\ NoDuplicateInWindow
      /\ LoopFits /\ EventsAccounted
      /\ AnswersMatch /\ Len(pushes) <= QueueLimit /\ (~Over => EachIsFound)
  BY DEF SessionInv
<1>2. /\ \E ok \in BOOLEAN : Completed(ok)
      /\ loopStage = "Exchange" /\ UNCHANGED <<pushes, arrived, admitted, unanswered, sent>>
  BY DEF TakeAnswer, RejectFrame, ExchangeFails, TakeFrame, network
<1>3. Framed'
  BY <1>1, FramedTake, FramesRest DEF TakeAnswer, RejectFrame, ExchangeFails, network
<1>4. LedgerInv' /\ NoDuplicateInWindow' /\ (EachIsFound => EachIsFound')
  BY <1>1, <1>2, QueueRests
<1>5. LoopFits' /\ EventsAccounted' /\ UNCHANGED exchanges
  BY <1>1, <1>2, ExchangeEnds
<1>6. AnswersMatch'
  <2>1. CASE \E accepted \in BOOLEAN : TakeAnswer(accepted)
    <3>1. /\ IsAnswer(Inbound)
          /\ answered' = answered \union
               {[request |-> exchange.request, answer |-> Inbound.content[1]]}
      BY <2>1 DEF TakeAnswer
    <3> QED
      BY <1>1, <3>1 DEF AnswersMatch, IsAnswer
  <2>2. CASE RejectFrame \/ ExchangeFails
    BY <1>1, <2>2 DEF AnswersMatch, RejectFrame, ExchangeFails
  <2> QED
    BY <2>1, <2>2
<1>7. NetworkFits' /\ Len(pushes') <= QueueLimit /\ ~Over
  BY <1>1, <1>2, <1>5 DEF NetworkFits, Over
<1> QED
  BY <1>1, <1>3, <1>4, <1>5, <1>6, <1>7 DEF SessionInv

\* An exchange meets a push.
LEMMA InterruptKeeps ==
  ASSUME SessionInv, Interrupt
  PROVE  SessionInv'
<1>1. /\ Framed /\ NetworkFits /\ LedgerInv /\ NoDuplicateInWindow
      /\ LoopFits /\ EventsAccounted
      /\ AnswersMatch /\ Len(pushes) <= QueueLimit /\ (~Over => EachIsFound)
  BY DEF SessionInv
<1>2. /\ loopStage = "Exchange" /\ TakeFrame /\ Admitted(Inbound) /\ PutAside(Inbound)
      /\ UNCHANGED <<admitted, answered, unanswered, sent>>
  BY DEF Interrupt, TakeFrame
<1>3. Framed' /\ Inbound \in PushFrame
  BY <1>1, <1>2, FramedTake
<1> DEFINE push == Inbound
<1>4. /\ push \in PushFrame /\ Admitted(push)
      /\ \/ pushes' = Append(pushes, push) /\ Arrive(push, "Queued")
         \/ UNCHANGED pushes /\ Arrive(push, "Dropped")
  BY <1>2, <1>3 DEF PutAside
<1>5. Len(pushes') <= QueueLimit
  <2> DEFINE Pushes == {p \in PushFrame : Admitted(p)}
  <2>1. pushes \in Seq(Pushes) /\ push \in Pushes
    BY <1>1, <1>4 DEF LedgerInv, LedgerTypeOK
  <2> HIDE DEF Pushes, push
  <2>2. Len(Append(pushes, push)) = Len(pushes) + 1 /\ Len(pushes) \in Nat
    BY <2>1, AppendProperties
  <2>3. QueueLimit \in Nat
    BY SessionAssumption
  <2> QED
    BY <1>1, <1>2, <2>2, <2>3 DEF PutAside, push
<1> HIDE DEF push
<1>6. LedgerInv'
  BY <1>1, <1>2, <1>4, LedgerPutsAside
<1>7. EachIsFound'
  <2>1. EachIsFound /\ LedgerTypeOK
    BY <1>1, <1>2 DEF Over, LedgerInv
  <2> QED
    BY <1>2, <1>4, <2>1, FoundWhenPutAside
<1>8. LoopFits' /\ EventsAccounted' /\ UNCHANGED exchanges
  <2>1. CASE /\ exchange.reads < ReadLimit /\ exchange' = [exchange EXCEPT !.reads = @ + 1]
             /\ UNCHANGED <<loopStage, then, exchanges, events, done>>
    <3>1. LoopFits'
      <4>1. exchange \in [caller : Caller \union {"None"}, request : Nat,
                          reads : 0 .. ReadLimit]
        BY <1>1 DEF LoopFits
      <4>2. /\ exchange' \in [caller : Caller \union {"None"}, request : Nat,
                              reads : 0 .. ReadLimit]
            /\ exchange'.caller = exchange.caller
        BY <2>1, <4>1, SessionAssumption
      <4> QED
        BY <1>1, <2>1, <4>2 DEF LoopFits
    <3>2. EventsAccounted'
      BY <1>1, <1>2, <2>1, EventsRest
    <3> QED
      BY <2>1, <3>1, <3>2
  <2>2. CASE Completed(FALSE)
    BY <1>1, <1>2, <2>2, ExchangeEnds
  <2> QED
    BY <2>1, <2>2 DEF Interrupt
<1>9. NetworkFits' /\ AnswersMatch' /\ NoDuplicateInWindow'
  BY <1>1, <1>2, <1>8 DEF NetworkFits, AnswersMatch, NoDuplicateInWindow
<1> QED
  BY <1>3, <1>5, <1>6, <1>7, <1>8, <1>9 DEF SessionInv

\* The oldest push of the queue is handled.
LEMMA DrainKeeps ==
  ASSUME SessionInv, NEW ends \in BOOLEAN, DrainPush(ends)
  PROVE  SessionInv'
<1>1. /\ Framed /\ NetworkFits /\ LedgerInv /\ NoDuplicateInWindow
      /\ LoopFits /\ EventsAccounted
      /\ AnswersMatch /\ Len(pushes) <= QueueLimit /\ (~Over => EachIsFound)
  BY DEF SessionInv
<1>2. /\ loopStage = "Drain" /\ pushes # <<>> /\ pushes' = Tail(pushes)
      /\ Handle(Head(pushes), ends, "Drain")
      /\ UNCHANGED <<network, then, exchange, exchanges, arrived, done, answered>>
  BY DEF DrainPush
<1>3. Head(pushes) \in PushFrame /\ Admitted(Head(pushes)) /\ Len(pushes') <= QueueLimit
  <2> DEFINE Pushes == {p \in PushFrame : Admitted(p)}
  <2>1. pushes \in Seq(Pushes)
    BY <1>1 DEF LedgerInv, LedgerTypeOK
  <2> HIDE DEF Pushes
  <2>2. Head(pushes) \in Pushes /\ Len(Tail(pushes)) = Len(pushes) - 1 /\ Len(pushes) \in Nat
    BY <1>2, <2>1, HeadTailProperties
  <2>3. QueueLimit \in Nat
    BY SessionAssumption
  <2>4. Len(pushes') <= QueueLimit
    BY <1>1, <1>2, <2>2, <2>3
  <2> QED
    BY <2>2, <2>4 DEF Pushes
<1> DEFINE push == Head(pushes)
<1>4. /\ EventsAccounted' /\ NoDuplicateInWindow' /\ loopStage' \in {"Drain", "Over"}
      /\ \E at, new : /\ Picks(push.content, at, new) /\ admitted' = admitted \o new
                      /\ ~Over' => Selects(push.content, at, new)
  BY <1>1, <1>2, <1>3, Handled
<1>5. PICK at, new : /\ Picks(push.content, at, new) /\ admitted' = admitted \o new
                     /\ ~Over' => Selects(push.content, at, new)
  BY <1>4
<1>6. LedgerInv'
  BY <1>1, <1>2, <1>5, LedgerDrains
<1>7. ~Over' => EachIsFound'
  <2>1. EachIsFound /\ LedgerTypeOK
    BY <1>1, <1>2 DEF Over, LedgerInv
  <2> QED
    BY <1>2, <1>5, <2>1, FoundWhenDrained
<1>8. Framed'
  BY <1>1, <1>2, FramesRest DEF network
<1>9. LoopFits' /\ NetworkFits' /\ AnswersMatch'
  BY <1>1, <1>2, <1>4 DEF LoopFits, NetworkFits, AnswersMatch, network
<1> QED
  BY <1>3, <1>4, <1>6, <1>7, <1>8, <1>9 DEF SessionInv

\* A push is read while the loop is idle.
LEMMA ReadPushKeeps ==
  ASSUME SessionInv, NEW ends \in BOOLEAN, ReadPush(ends)
  PROVE  SessionInv'
<1>1. /\ Framed /\ NetworkFits /\ LedgerInv /\ NoDuplicateInWindow
      /\ LoopFits /\ EventsAccounted
      /\ AnswersMatch /\ Len(pushes) <= QueueLimit /\ (~Over => EachIsFound)
  BY DEF SessionInv
<1>2. /\ loopStage = "Select" /\ TakeFrame /\ then' = "Drain"
      /\ UNCHANGED <<unanswered, sent, pushes, exchange, exchanges, done, answered>>
  BY DEF ReadPush, TakeFrame
<1>3. Framed' /\ Inbound \in PushFrame
  BY <1>1, <1>2, FramedTake
<1>4. NetworkFits' /\ AnswersMatch' /\ Len(pushes') <= QueueLimit
  BY <1>1, <1>2 DEF NetworkFits, AnswersMatch
<1>5. CASE loopStage' = "Over" /\ UNCHANGED <<events, admitted, arrived>>
  <2>1. LedgerInv' /\ NoDuplicateInWindow'
    BY <1>1, <1>2, <1>5, QueueRests
  <2>2. EventsAccounted'
    BY <1>1, <1>2, <1>5, EventsRest
  <2>3. LoopFits' /\ Over'
    BY <1>1, <1>2, <1>5 DEF LoopFits, Over
  <2> QED
    BY <1>3, <1>4, <2>1, <2>2, <2>3 DEF SessionInv
<1>6. CASE Admitted(Inbound) /\ Handle(Inbound, ends, "Publish") /\ Arrive(Inbound, "Direct")
  <2> DEFINE push == Inbound
  <2>1. /\ push \in PushFrame /\ Admitted(push) /\ Arrive(push, "Direct")
        /\ Handle(push, ends, "Publish")
    BY <1>3, <1>6
  <2> HIDE DEF push
  <2>2. /\ EventsAccounted' /\ NoDuplicateInWindow' /\ loopStage' \in {"Publish", "Over"}
        /\ \E at, new : /\ Picks(push.content, at, new) /\ admitted' = admitted \o new
                        /\ ~Over' => Selects(push.content, at, new)
    BY <1>1, <1>2, <2>1, Handled
  <2>3. PICK at, new : /\ Picks(push.content, at, new) /\ admitted' = admitted \o new
                       /\ ~Over' => Selects(push.content, at, new)
    BY <2>2
  <2>4. LedgerInv'
    BY <1>1, <1>2, <2>1, <2>3, LedgerReads
  <2>5. ~Over' => EachIsFound'
    <3>1. EachIsFound /\ LedgerTypeOK
      BY <1>1, <1>2 DEF Over, LedgerInv
    <3> QED
      BY <1>2, <2>1, <2>3, <3>1, FoundWhenRead
  <2>6. LoopFits'
    BY <1>1, <1>2, <2>2 DEF LoopFits
  <2> QED
    BY <1>3, <1>4, <2>2, <2>4, <2>5, <2>6 DEF SessionInv
<1> QED
  BY <1>5, <1>6 DEF ReadPush

\* The loop publishes an event, or goes on.
LEMMA LoopKeeps ==
  ASSUME SessionInv,
         \/ \E fails \in BOOLEAN : Publish(fails)
         \/ Drained \/ Resolve \/ Published \/ Idle \/ StopLoop
         \/ \E caller \in {"Action", "Heartbeat"} : Asks(caller)
  PROVE  SessionInv'
<1>1. /\ Framed /\ NetworkFits /\ LedgerInv /\ NoDuplicateInWindow
      /\ LoopFits /\ EventsAccounted
      /\ AnswersMatch /\ Len(pushes) <= QueueLimit /\ (~Over => EachIsFound)
  BY DEF SessionInv
<1>2. /\ UNCHANGED <<incoming, buffer, sent, pushes, arrived, admitted, answered>>
      /\ loopStage \in {"Drain", "Publish", "Select"}
  BY DEF Publish, Drained, Resolve, Published, Idle, StopLoop, Asks, StartExchange, DropRead,
         network, queues, sessionHistory
<1>3. Framed'
  BY <1>1, <1>2, FramesRest
<1>4. LedgerInv' /\ NoDuplicateInWindow' /\ (EachIsFound => EachIsFound')
  BY <1>1, <1>2, QueueRests
<1>5. ASSUME NEW fails \in BOOLEAN, Publish(fails)
      PROVE  LoopFits' /\ EventsAccounted' /\ NetworkFits'
  <2>1. /\ events # <<>> /\ events' = Tail(events)
        /\ done' = Append(done, [message |-> Head(events).message, published |-> ~fails])
        /\ loopStage = "Publish" /\ loopStage' \in {"Publish", "Over"}
        /\ UNCHANGED <<unanswered, sent, then, exchange, exchanges, admitted>>
    BY <1>5 DEF Publish, network
  <2>2. (~fails) \in BOOLEAN
    OBVIOUS
  <2>3. EventsAccounted'
    BY <1>1, <2>1, <2>2, EventEnds
  <2> QED
    BY <1>1, <2>1, <2>3 DEF LoopFits, NetworkFits
<1>6. ASSUME Drained \/ Published \/ Idle \/ StopLoop
      PROVE  LoopFits' /\ EventsAccounted' /\ NetworkFits'
  <2>1. /\ UNCHANGED <<unanswered, sent, events, done, admitted, exchange, exchanges>>
        /\ then' \in {then, "Select"} /\ loopStage' \in {"Publish", "Over", "Drain", then}
    BY <1>6 DEF Drained, Published, Idle, StopLoop, network, queues, sessionHistory
  <2>2. EventsAccounted'
    BY <1>1, <2>1, EventsRest
  <2> QED
    BY <1>1, <2>1, <2>2 DEF LoopFits, NetworkFits
<1>7. ASSUME NEW caller \in Caller, StartExchange(caller),
             caller = "Resolve" => events # <<>>
      PROVE  LoopFits' /\ EventsAccounted' /\ NetworkFits'
  <2>1. /\ UNCHANGED <<sent, events, done, admitted, then>>
        /\ exchanges' = exchanges + 1 /\ unanswered' = unanswered \union {exchanges + 1}
        /\ exchange' = [caller |-> caller, request |-> exchanges + 1, reads |-> 0]
        /\ loopStage' = "Exchange"
    BY <1>7 DEF StartExchange, sessionHistory
  <2>2. EventsAccounted'
    BY <1>1, <2>1, EventsRest
  <2>3. /\ exchanges \in Nat /\ unanswered \subseteq 1 .. exchanges /\ ReadLimit \in Nat
    BY <1>1, SessionAssumption DEF NetworkFits
  <2>4. /\ exchange' \in [caller : Caller \union {"None"}, request : Nat,
                          reads : 0 .. ReadLimit]
        /\ exchange'.caller = caller
    BY <2>1, <2>3
  <2>5. LoopFits'
    BY <1>1, <1>7, <2>1, <2>4 DEF LoopFits
  <2>6. NetworkFits'
    <3>1. exchanges' \in Nat /\ \A r \in unanswered : r \in 1 .. exchanges + 1
      BY <2>1, <2>3
    <3>2. unanswered' \subseteq 1 .. exchanges'
      BY <2>1, <2>3, <3>1
    <3> QED
      BY <1>1, <2>1, <3>1, <3>2 DEF NetworkFits
  <2> QED
    BY <2>2, <2>5, <2>6
<1>8. LoopFits' /\ EventsAccounted' /\ NetworkFits'
  <2>1. CASE Resolve
    <3>1. "Resolve" \in Caller /\ StartExchange("Resolve") /\ events # <<>>
      BY <2>1 DEF Resolve, Caller
    <3> QED
      BY <1>7, <3>1
  <2>2. CASE \E caller \in {"Action", "Heartbeat"} : Asks(caller)
    <3>1. PICK caller \in {"Action", "Heartbeat"} : Asks(caller)
      BY <2>2
    <3>2. caller \in Caller /\ StartExchange(caller) /\ caller # "Resolve"
      BY <3>1 DEF Asks, Caller
    <3> QED
      BY <1>7, <3>2
  <2> QED
    BY <1>5, <1>6, <2>1, <2>2
<1>9. AnswersMatch' /\ Len(pushes') <= QueueLimit /\ ~Over
  BY <1>1, <1>2 DEF AnswersMatch, Over
<1> QED
  BY <1>1, <1>3, <1>4, <1>8, <1>9 DEF SessionInv

\* Every step of QQ, of the transport and of the loop keeps the invariant.
LEMMA SessionStep == SessionInv /\ [SessionNext]_sessionVars => SessionInv'
<1> SUFFICES ASSUME SessionInv, [SessionNext]_sessionVars PROVE SessionInv'
  OBVIOUS
<1>1. CASE UNCHANGED sessionVars
  <2>1. /\ Framed /\ NetworkFits /\ LedgerInv /\ NoDuplicateInWindow
        /\ LoopFits /\ EventsAccounted
        /\ AnswersMatch /\ Len(pushes) <= QueueLimit /\ (~Over => EachIsFound)
    BY DEF SessionInv
  <2>2. UNCHANGED <<network, queues, loop, sessionHistory>>
    BY <1>1 DEF sessionVars
  <2>3. Framed'
    BY <2>1, <2>2, FramesRest DEF network
  <2>4. LedgerInv' /\ NoDuplicateInWindow' /\ (EachIsFound => EachIsFound')
    BY <2>1, <2>2, QueueRests DEF queues, sessionHistory
  <2>5. EventsAccounted'
    BY <2>1, <2>2, EventsRest DEF queues, sessionHistory
  <2>6. /\ LoopFits' /\ AnswersMatch' /\ Len(pushes') <= QueueLimit /\ (Over' <=> Over)
        /\ NetworkFits'
    BY <2>1, <2>2 DEF LoopFits, AnswersMatch, NetworkFits, network, loop, queues,
                      sessionHistory, Over
  <2> QED
    BY <2>1, <2>3, <2>4, <2>5, <2>6 DEF SessionInv
<1>2. CASE SessionNext
  BY <1>2, SendsKeep, ReadPartKeeps, ExchangeKeeps, InterruptKeeps, DrainKeeps, ReadPushKeeps,
     LoopKeeps DEF SessionNext, LoopStep
<1> QED
  BY <1>1, <1>2

\* For every size of the queues, of the window of keys and of the bounds on QQ:
\* whatever branch of the loop's select! wins and whenever an answer comes, frames
\* stay whole, an exchange takes its own answer, the queues keep their limits,
\* every message of an admitted push is queued, dropped in sight or admitted, once
\* within the window and in the order of the events, and only a push that is read
\* while the loop is idle overtakes one that an exchange put aside.
THEOREM SessionIsSoundCorrect == SessionSpec => []SessionIsSound
<1>1. SessionInit => SessionInv
  BY SessionStarts
<1>2. SessionInv /\ [SessionNext]_sessionVars => SessionInv'
  BY SessionStep
<1>3. SessionInv => SessionIsSound
  BY SessionInvSound
<1> QED
  BY <1>1, <1>2, <1>3, PTL DEF SessionSpec
=============================================================================
