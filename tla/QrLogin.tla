------------------------------- MODULE QrLogin -------------------------------
(***************************************************************************)
(* The QR login of one account: `qr::flow::run` with the login machine of   *)
(* qq-domain, the QR packets of qq-login, the identity lookup of face.rs    *)
(* and the credential exchange.  The code on the screen is known to QQ and  *)
(* to whoever photographs it: users scan it, put the phone away, confirm or *)
(* cancel while the flow sleeps, asks who scanned, and asks for the state.  *)
(*                                                                          *)
(* `uin`s are members of User; Wide is a number of more than 32 bits, which *)
(* the packets' 64-bit field can carry and nothing else in the login can.   *)
(* Time is only read while polling, so the clock only moves there.          *)
(***************************************************************************)
EXTENDS Naturals

CONSTANTS User,          \* QQ accounts whose owners may scan the code
          Wide,          \* a `uin` that does not fit u32
          None,          \* Option::None
          MaxLifetime    \* bound: longest QR lifetime, in ticks

VARIABLES login,     \* LoginMachine.state
          at,        \* where the flow is: what it awaits
          code,      \* the QR code as QQ sees it: [state, by]
          scanned,   \* history: who has scanned it
          now,       \* the clock, in ticks since the artifact
          expires,   \* artifact.expires_at_ms
          bound,     \* `bound_uin` of this poll
          uin,       \* secrets.uin()
          loginRow,       \* the account row: "Active" once it is stored
          told       \* events published: a set

loginVars == <<login, at, code, scanned, now, expires, bound, uin, loginRow, told>>

Uins == User \union {Wide}

ASSUME LoginAssumption == MaxLifetime \in Nat \ {0} /\ Wide \notin User /\ None \notin Uins

Ends == {"Stopped", "Failed", "Refused"}
Polling == {"Wait", "Face", "Poll"}
LoginStates == {"Stopped", "FetchingQr", "AwaitingScan", "AwaitingConfirmation",
                "ExchangingCredentials", "Registering", "Online", "QrExpired", "QrCanceled",
                "ProtectiveOffline", "LoginFailed"}

-----------------------------------------------------------------------------
(* The login machine *)

Pending == {"AwaitingScan", "AwaitingConfirmation"}

\* `is_allowed`.
Allowed(from, to) ==
    \/ from \in {"Stopped", "ProtectiveOffline", "LoginFailed", "QrExpired", "QrCanceled"}
       /\ to = "FetchingQr"
    \/ from = "FetchingQr" /\ to \in {"AwaitingScan", "LoginFailed"}
    \/ from \in Pending
       /\ to \in Pending \union {"ExchangingCredentials", "QrExpired", "QrCanceled", "LoginFailed"}
    \/ from = "ExchangingCredentials"
       /\ to \in {"Registering", "ProtectiveOffline", "LoginFailed"}
    \/ from = "Registering" /\ to \in {"Online", "ProtectiveOffline", "LoginFailed"}
    \/ from = "Online" /\ to \in {"ProtectiveOffline", "LoginFailed"}
    \/ to = "Stopped"

\* `transition` followed by `?`: a refused one ends the flow.
Moves(to, next) ==
    IF Allowed(login, to) THEN login' = to /\ at' = next
                          ELSE login' = login /\ at' = "Refused"

\* `apply_qr_poll`.
AfterPoll(state) ==
    CASE state = "Confirmed"              -> "ExchangingCredentials"
      [] state = "Expired"                -> "QrExpired"
      [] state = "WaitingForScan"         -> "AwaitingScan"
      [] state = "WaitingForConfirmation" -> "AwaitingConfirmation"
      [] state = "Canceled"               -> "QrCanceled"

Fails == at' = "Failed" /\ UNCHANGED login

-----------------------------------------------------------------------------
(* QQ's answers.  `bound` says that the layers around the body decrypt and   *)
(* carry the command, application and lengths of the request.               *)

\* `decode_qr_fetch_response` with `QrArtifact::new`.
FetchDecodes(answer) ==
    answer.bound /\ answer.ok /\ answer.lifetime \in 1 .. MaxLifetime

\* `QrPollState::try_from` and what the user sees on the phone.
PollState == [Fresh |-> "WaitingForScan", Scanned |-> "WaitingForConfirmation",
              Confirmed |-> "Confirmed", Canceled |-> "Canceled", Expired |-> "Expired"]

\* `decode_qr_poll_response`: only a confirmation is read to its end, and it
\* must name an account and carry the three secrets once each.
PollDecodes(answer) ==
    /\ answer.bound
    /\ answer.state = "Confirmed" => answer.uin # 0 /\ answer.secrets

\* `u32::try_from(..).ok()`.
Narrow(u) == IF u \in User THEN u ELSE None

\* `until_confirmed`: the account that confirmed is the one the identity
\* service names.
SameIdentity(seen, u) == seen = Narrow(u)

\* Broken variant: wider accounts are cut.
CredentialRequestFitsAny(u) == TRUE

\* `build_credential_exchange` takes accounts of 32 bits only.
CredentialRequestFits(u) == Narrow(u) # None

\* `decode_credential_exchange_response`: the answer is for the account asked
\* about, and a success has every ticket; anything else is a rejection or an
\* error, which ends the flow alike.
CredentialAccepted(answer) == answer.uin = uin /\ answer.state = 0 /\ answer.tickets

-----------------------------------------------------------------------------
(* The phones.  A scan that is not confirmed can be undone and made again by *)
(* another account; QQ lets the code expire by its own clock.               *)

Scan(u) ==
    /\ at \in Polling /\ code.state = "Fresh"
    /\ code' = [state |-> "Scanned", by |-> u]
    /\ scanned' = scanned \union {u}
    /\ UNCHANGED <<login, at, now, expires, bound, uin, loginRow, told>>

Decide(state) ==
    /\ at \in Polling /\ code.state = "Scanned"
    /\ code' = [state |-> state, by |-> IF state = "Confirmed" THEN code.by ELSE None]
    /\ UNCHANGED <<login, at, scanned, now, expires, bound, uin, loginRow, told>>

CodeExpires ==
    /\ at \in Polling /\ code.state \in {"Fresh", "Scanned"}
    /\ code' = [state |-> "Expired", by |-> None]
    /\ UNCHANGED <<login, at, scanned, now, expires, bound, uin, loginRow, told>>

-----------------------------------------------------------------------------
(* The flow *)

LoginInit ==
    /\ login = "Stopped" /\ at = "Begin"
    /\ code = [state |-> "Fresh", by |-> None] /\ scanned = {}
    /\ now = 0 /\ expires = 0 /\ bound = None /\ uin = None
    /\ loginRow = "Starting" /\ told = {}

\* `begin_qr_request`, the fetch packet and the connection to QQ.
Begin ==
    /\ at = "Begin"
    /\ Moves("FetchingQr", "Fetch")
    /\ UNCHANGED <<code, scanned, now, expires, bound, uin, loginRow, told>>

\* The fetch answer: its artifact is accepted, then shown; a file that cannot
\* be written ends the flow after the transition.
FetchAnswered(answer, written) ==
    /\ at = "Fetch"
    /\ IF ~FetchDecodes(answer) THEN Fails /\ UNCHANGED expires
       ELSE /\ expires' = answer.lifetime
            /\ Moves("AwaitingScan", IF written THEN "Wait" ELSE "Failed")
    /\ UNCHANGED <<code, scanned, now, bound, uin, loginRow, told>>

\* Broken variant: only the poll tells that a code has expired.
HasExpiredNever == FALSE

\* `artifact.expires_at_ms` is exclusive.
HasExpired == now >= expires

\* Two seconds passed: the code's own lifetime is looked at first.
PollDue ==
    /\ at = "Wait"
    /\ IF HasExpired THEN Moves(AfterPoll("Expired"), "Failed")
                     ELSE at' = "Face" /\ UNCHANGED login
    /\ bound' = None
    /\ UNCHANGED <<code, scanned, now, expires, uin, loginRow, told>>

\* `tokio::signal::ctrl_c` won the select.
LoginInterrupted ==
    /\ at = "Wait"
    /\ Fails
    /\ UNCHANGED <<code, scanned, now, expires, bound, uin, loginRow, told>>

\* `FaceResolver::resolve`: who has scanned by now, if anyone.
FaceAnswered ==
    /\ at = "Face"
    /\ at' = "Poll" /\ bound' = code.by
    /\ UNCHANGED <<login, code, scanned, now, expires, uin, loginRow, told>>

\* The poll answer.  QQ answers with the state the code has now; the account
\* in a confirmation is whatever the packet says.
PollAnswered(answer) ==
    /\ at = "Poll"
    /\ answer.state = PollState[code.state]
    /\ uin' = IF PollDecodes(answer) /\ answer.state = "Confirmed"
                 /\ SameIdentity(bound, answer.uin) THEN answer.uin ELSE None
    /\ IF ~PollDecodes(answer) THEN Fails
       ELSE CASE answer.state = "Confirmed" ->
                   IF SameIdentity(bound, answer.uin)
                   THEN Moves(AfterPoll("Confirmed"), "Exchange")
                   ELSE Fails
              [] answer.state \in {"Expired", "Canceled"} ->
                   Moves(AfterPoll(answer.state), "Failed")
              [] OTHER -> Moves(AfterPoll(answer.state), "Wait")
    /\ UNCHANGED <<code, scanned, now, expires, bound, loginRow, told>>

\* The credential exchange, then the identity is published.
CredentialAnswered(answer) ==
    /\ at = "Exchange"
    /\ IF CredentialRequestFits(uin) /\ CredentialAccepted(answer)
       THEN /\ Moves("Registering", "Bootstrap")
            /\ told' = told \union {"IdentityReady"}
       ELSE Fails /\ UNCHANGED told
    /\ UNCHANGED <<code, scanned, now, expires, bound, uin, loginRow>>

\* `OnlineRuntime::bootstrap`: registration and the first exchanges.
LoginBootstrapped ==
    /\ at = "Bootstrap"
    /\ at' = "Activate"
    /\ UNCHANGED <<login, code, scanned, now, expires, bound, uin, loginRow, told>>

\* The row becomes Active before anyone is told, and before the machine is Online.
Activated ==
    /\ at = "Activate"
    /\ loginRow' = "Active" /\ told' = told \union {"Active"}
    /\ Moves("Online", "Run")
    /\ UNCHANGED <<code, scanned, now, expires, bound, uin>>

\* `OnlineRuntime::run` returned without an error.
RunEnds ==
    /\ at = "Run"
    /\ Moves("Stopped", "Stopped")
    /\ UNCHANGED <<code, scanned, now, expires, bound, uin, loginRow, told>>

\* An exchange with Ceylith, the identity service or QQ, or the store, failed.
StepFails ==
    /\ at \in {"Fetch", "Face", "Poll", "Exchange", "Bootstrap", "Activate", "Run"}
    /\ Fails
    /\ UNCHANGED <<code, scanned, now, expires, bound, uin, loginRow, told>>

Tick ==
    /\ at \in Polling /\ now < expires
    /\ now' = now + 1
    /\ UNCHANGED <<login, at, code, scanned, expires, bound, uin, loginRow, told>>

-----------------------------------------------------------------------------

FetchAnswers == [bound : BOOLEAN, ok : BOOLEAN, lifetime : 0 .. MaxLifetime + 1]
PollAnswers == [bound : BOOLEAN, secrets : BOOLEAN, uin : Uins \union {0},
                state : {PollState[s] : s \in DOMAIN PollState}]
CredentialAnswers == [uin : Uins, state : 0 .. 1, tickets : BOOLEAN]

Phones ==
    \/ \E u \in User : Scan(u)
    \/ \E state \in {"Fresh", "Confirmed", "Canceled"} : Decide(state)
    \/ CodeExpires

Steps ==
    \/ Begin
    \/ \E answer \in FetchAnswers, written \in BOOLEAN : FetchAnswered(answer, written)
    \/ PollDue \/ FaceAnswered
    \/ \E answer \in PollAnswers : PollAnswered(answer)
    \/ \E answer \in CredentialAnswers : CredentialAnswered(answer)
    \/ LoginBootstrapped \/ Activated \/ StepFails

LoginNext == Phones \/ Steps \/ LoginInterrupted \/ RunEnds \/ Tick

LoginSpec == LoginInit /\ [][LoginNext]_loginVars

\* Every wait of the login has a limit (frame and connection timeouts, the
\* five seconds of the identity lookup, the poll interval), and time passes.
\* No user has to do anything.
LoginFairness == WF_loginVars(Steps) /\ WF_loginVars(Tick)

FairLoginSpec == LoginSpec /\ LoginFairness

-----------------------------------------------------------------------------
(* Properties *)

LoginTypeOK ==
    /\ login \in LoginStates
    /\ at \in Ends \union Polling \union {"Begin", "Fetch", "Exchange", "Bootstrap", "Activate", "Run"}
    /\ code \in [state : DOMAIN PollState, by : User \union {None}]
    /\ now \in 0 .. MaxLifetime /\ expires \in 0 .. MaxLifetime
    /\ scanned \subseteq User /\ bound \in User \union {None} /\ uin \in Uins \union {None}
    /\ loginRow \in {"Starting", "Active"} /\ told \subseteq {"IdentityReady", "Active"}

\* The identity announced to the adapters, and the account that goes online, is
\* one whose owner scanned this very code, whatever account QQ's packets name:
\* two services and checks in two files have to agree for it, since an absent
\* identity and a number too wide for it look alike to the first check
\* (polling.rs:62, credential/request.rs:83).
IdentityScannedTheCode == "IdentityReady" \in told => uin \in scanned

\* No answer QQ may give, in any order of scans, undone scans and
\* confirmations, asks the login machine for a transition it refuses
\* (login.rs:120), and nobody is told of an account that is online before its
\* row says so (flow.rs:166).
MachineFollowsFlow ==
    /\ at # "Refused"
    /\ "Active" \in told \/ login = "Online" => loginRow = "Active"
    /\ login = "Online" => "Active" \in told

\* Who logs in is who scanned, along the stages of the machine.
LoginIsSound == LoginTypeOK /\ IdentityScannedTheCode /\ MachineFollowsFlow

\* A code nobody scans does not hold the account's task forever: the flow gets
\* online or ends (polling.rs:47).
LoginComesToAnEnd == []<>(at \in Ends \union {"Run"})
=============================================================================
