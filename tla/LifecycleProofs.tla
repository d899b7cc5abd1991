--------------------------- MODULE LifecycleProofs ----------------------------
(***************************************************************************)
(* Proofs about the login of an account (QrLogin), for every set of users  *)
(* and every lifetime of the code, and about the Watch of an installation  *)
(* (InstallationWatch), for every capacity of its channel and every number *)
(* of events.                                                              *)
(***************************************************************************)
EXTENDS QrLogin, InstallationWatch, TLAPS

-----------------------------------------------------------------------------
(* The login.  LoginInv ties three things that the code keeps apart: the   *)
(* place of the flow and the state of the login machine (so that no        *)
(* transition is refused), the row and what was told of it, and the        *)
(* account named by QQ's packets and those whose owners scanned the code.  *)
(* While the credentials are exchanged the account is either the one the   *)
(* identity service named, which has scanned, or a number too wide for a   *)
(* request.                                                                *)

\* The state of the machine at each place of the flow.
MachineAt ==
  /\ at = "Begin" => login = "Stopped"
  /\ at = "Fetch" => login = "FetchingQr"
  /\ at \in Polling => login \in Pending
  /\ at = "Exchange" => login = "ExchangingCredentials"
  /\ at \in {"Bootstrap", "Activate"} => login = "Registering"
  /\ at = "Run" => login = "Online"
  /\ at # "Refused"

\* The row is stored before anybody is told.
RowIsFirst ==
  /\ "Active" \in told => loginRow = "Active"
  /\ login = "Online" => "Active" \in told

\* Only those who scanned the code are ever named by it.
NamedHaveScanned == {code.by, bound} \subseteq scanned \union {None}

\* The account of the login, before and after it is published.
AccountHasScanned ==
  /\ at = "Exchange" => bound = Narrow(uin)
  /\ "IdentityReady" \in told =>
       /\ uin \in scanned
       /\ at \in {"Bootstrap", "Activate", "Run", "Stopped", "Failed"}

LoginInv == LoginTypeOK /\ MachineAt /\ RowIsFirst /\ NamedHaveScanned /\ AccountHasScanned

-----------------------------------------------------------------------------

LEMMA LoginInitInv == ASSUME LoginInit PROVE LoginInv
<1> USE DEF LoginInit
<1>1. LoginTypeOK
  BY LoginAssumption DEF LoginTypeOK, LoginStates, Ends, Polling, PollState
<1>2. MachineAt /\ RowIsFirst
  BY DEF MachineAt, RowIsFirst, Polling
<1>3. NamedHaveScanned /\ AccountHasScanned
  BY DEF NamedHaveScanned, AccountHasScanned
<1>4. QED
  BY <1>1, <1>2, <1>3 DEF LoginInv

\* A user scans, undoes the scan, confirms or cancels, or the code expires.
LEMMA LoginPhonesInv == ASSUME LoginInv, Phones PROVE LoginInv'
<1> DEFINE Names == [state : DOMAIN PollState, by : User \union {None}]
<1>1. /\ code \in Names /\ code.by \in scanned \union {None}
      /\ scanned \subseteq User
  BY DEF LoginInv, LoginTypeOK, NamedHaveScanned
<1>2. /\ code' \in Names /\ code'.by \in scanned' \union {None}
      /\ scanned \subseteq scanned' /\ scanned' \subseteq User
  <2>1. ASSUME NEW u \in User, Scan(u)
        PROVE  /\ code' \in Names /\ code'.by \in scanned' \union {None}
               /\ scanned \subseteq scanned' /\ scanned' \subseteq User
    BY <1>1, <2>1 DEF Scan, PollState
  <2>2. ASSUME NEW state \in {"Fresh", "Confirmed", "Canceled"}, Decide(state)
        PROVE  /\ code' \in Names /\ code'.by \in scanned' \union {None}
               /\ scanned \subseteq scanned' /\ scanned' \subseteq User
    BY <1>1, <2>2 DEF Decide, PollState
  <2>3. CASE CodeExpires
    BY <1>1, <2>3 DEF CodeExpires, PollState
  <2>4. QED
    BY <2>1, <2>2, <2>3 DEF Phones
<1>3. UNCHANGED <<login, at, now, expires, bound, uin, loginRow, told>>
  BY DEF Phones, Scan, Decide, CodeExpires
<1>4. LoginTypeOK'
  BY <1>2, <1>3 DEF LoginInv, LoginTypeOK
<1>5. MachineAt' /\ RowIsFirst'
  BY <1>3 DEF LoginInv, MachineAt, RowIsFirst
<1>6. NamedHaveScanned'
  BY <1>2, <1>3 DEF LoginInv, NamedHaveScanned
<1>7. AccountHasScanned'
  BY <1>2, <1>3 DEF LoginInv, AccountHasScanned, Narrow
<1>8. QED
  BY <1>4, <1>5, <1>6, <1>7 DEF LoginInv

-----------------------------------------------------------------------------
(* The steps of the flow.                                                  *)

LEMMA LoginStartsInv ==
  ASSUME LoginInv,
         \/ Begin
         \/ \E answer \in FetchAnswers, written \in BOOLEAN :
              FetchAnswered(answer, written)
  PROVE  LoginInv'
<1>1. expires' \in 0 .. MaxLifetime
  BY LoginAssumption DEF Begin, FetchAnswered, FetchDecodes, LoginInv, LoginTypeOK
<1>2. \/ at' = "Fetch" /\ login' = "FetchingQr"
      \/ at' = "Failed" /\ login' \in {"FetchingQr", "AwaitingScan"}
      \/ at' = "Wait" /\ login' = "AwaitingScan"
  BY DEF Begin, FetchAnswered, Moves, Allowed, Fails, LoginInv, MachineAt
<1>3. /\ at \in {"Begin", "Fetch"}
      /\ UNCHANGED <<code, scanned, now, bound, uin, loginRow, told>>
  BY DEF Begin, FetchAnswered
<1>4. LoginTypeOK'
  BY <1>1, <1>2, <1>3 DEF LoginInv, LoginTypeOK, LoginStates, Ends, Polling
<1>5. MachineAt' /\ RowIsFirst'
  BY <1>2, <1>3 DEF LoginInv, MachineAt, RowIsFirst, Polling, Pending
<1>6. NamedHaveScanned' /\ AccountHasScanned'
  BY <1>2, <1>3 DEF LoginInv, NamedHaveScanned, AccountHasScanned
<1>7. QED
  BY <1>4, <1>5, <1>6 DEF LoginInv

\* The flow fails where it is, by a user's interrupt or an exchange.
LEMMA LoginFailsInv ==
  ASSUME LoginInv, Fails,
         UNCHANGED <<code, scanned, now, expires, bound, loginRow, told>>,
         uin' \in {uin, None}, "IdentityReady" \in told => uin' = uin
  PROVE  LoginInv'
<1> USE DEF Fails
<1>1. LoginTypeOK'
  BY DEF LoginInv, LoginTypeOK, Ends
<1>2. MachineAt' /\ RowIsFirst'
  BY DEF LoginInv, MachineAt, RowIsFirst, Polling
<1>3. NamedHaveScanned' /\ AccountHasScanned'
  BY DEF LoginInv, NamedHaveScanned, AccountHasScanned
<1>4. QED
  BY <1>1, <1>2, <1>3 DEF LoginInv

LEMMA LoginPollDueInv == ASSUME LoginInv, PollDue PROVE LoginInv'
<1> USE DEF PollDue
<1>1. login \in Pending
  BY DEF LoginInv, MachineAt, Polling
<1>2. \/ at' = "Failed" /\ login' = "QrExpired"
      \/ at' = "Face" /\ login' = login
  BY <1>1 DEF Moves, Allowed, AfterPoll
<1>3. LoginTypeOK'
  BY <1>2 DEF LoginInv, LoginTypeOK, LoginStates, Ends, Polling
<1>4. MachineAt' /\ RowIsFirst'
  BY <1>1, <1>2 DEF LoginInv, MachineAt, RowIsFirst, Polling
<1>5. NamedHaveScanned' /\ AccountHasScanned'
  BY <1>2 DEF LoginInv, NamedHaveScanned, AccountHasScanned
<1>6. QED
  BY <1>3, <1>4, <1>5 DEF LoginInv

LEMMA LoginFaceAnsweredInv == ASSUME LoginInv, FaceAnswered PROVE LoginInv'
<1> USE DEF FaceAnswered
<1>1. LoginTypeOK'
  BY DEF LoginInv, LoginTypeOK, Polling
<1>2. MachineAt' /\ RowIsFirst'
  BY DEF LoginInv, MachineAt, RowIsFirst, Polling
<1>3. NamedHaveScanned' /\ AccountHasScanned'
  BY DEF LoginInv, NamedHaveScanned, AccountHasScanned
<1>4. QED
  BY <1>1, <1>2, <1>3 DEF LoginInv

\* A confirmation is the only answer that names an account, and the flow goes on
\* with it only if the identity service named the same one.
LEMMA LoginPollAnsweredInv ==
  ASSUME LoginInv, NEW answer \in PollAnswers, PollAnswered(answer)
  PROVE  LoginInv'
<1>1. /\ login \in Pending /\ at = "Poll" /\ "IdentityReady" \notin told
      /\ UNCHANGED <<code, scanned, now, expires, bound, loginRow, told>>
  BY DEF PollAnswered, LoginInv, MachineAt, AccountHasScanned, Polling
<1>2. answer.state \in {"WaitingForScan", "WaitingForConfirmation", "Confirmed",
                        "Canceled", "Expired"}
  BY DEF PollAnswers, PollState
<1>3. uin' \in Uins \union {None}
  <2>1. PollDecodes(answer) /\ answer.state = "Confirmed" => answer.uin \in Uins
    BY DEF PollAnswers, PollDecodes
  <2>2. QED
    BY <2>1 DEF PollAnswered
<1>4. \/ at' = "Failed" /\ login' \in Pending \union {"QrExpired", "QrCanceled"}
      \/ at' = "Wait" /\ login' \in Pending
      \/ /\ at' = "Exchange" /\ login' = "ExchangingCredentials"
         /\ SameIdentity(bound, uin')
  <2>1. CASE ~PollDecodes(answer)
    BY <1>1, <2>1 DEF PollAnswered, Fails
  <2>2. CASE PollDecodes(answer) /\ answer.state = "Confirmed"
    BY <1>1, <2>2 DEF PollAnswered, Fails, Moves, Allowed, AfterPoll
  <2>3. CASE PollDecodes(answer) /\ answer.state \in {"Expired", "Canceled"}
    BY <1>1, <2>3 DEF PollAnswered, Moves, Allowed, AfterPoll
  <2>4. CASE /\ PollDecodes(answer)
             /\ answer.state \in {"WaitingForScan", "WaitingForConfirmation"}
    BY <1>1, <2>4 DEF PollAnswered, Moves, Allowed, AfterPoll, Pending
  <2>5. QED
    BY <1>2, <2>1, <2>2, <2>3, <2>4
<1>5. LoginTypeOK'
  BY <1>1, <1>3, <1>4 DEF LoginInv, LoginTypeOK, LoginStates, Ends, Polling, Pending
<1>6. MachineAt' /\ RowIsFirst'
  BY <1>1, <1>4 DEF LoginInv, MachineAt, RowIsFirst, Polling, Pending
<1>7. NamedHaveScanned' /\ AccountHasScanned'
  BY <1>1, <1>4 DEF LoginInv, NamedHaveScanned, AccountHasScanned, SameIdentity, Narrow
<1>8. QED
  BY <1>5, <1>6, <1>7 DEF LoginInv

\* A number too wide for the request never gets this far, so the account is the
\* one that scanned.
LEMMA LoginCredentialAnsweredInv ==
  ASSUME LoginInv,
         NEW answer \in CredentialAnswers, CredentialAnswered(answer)
  PROVE  LoginInv'
<1>1. CASE CredentialRequestFits(uin) /\ CredentialAccepted(answer)
  <2>1. /\ at' = "Bootstrap" /\ login' = "Registering"
        /\ told' = told \union {"IdentityReady"}
        /\ UNCHANGED <<code, scanned, now, expires, bound, uin, loginRow>>
    BY <1>1 DEF CredentialAnswered, Moves, Allowed, LoginInv, MachineAt
  <2>2. bound = Narrow(uin) /\ Narrow(uin) # None
    BY <1>1 DEF CredentialAnswered, CredentialRequestFits, LoginInv, AccountHasScanned
  <2>3. uin = bound /\ bound \in scanned
    BY <2>2 DEF Narrow, LoginInv, NamedHaveScanned
  <2>4. LoginTypeOK'
    BY <2>1 DEF LoginInv, LoginTypeOK, LoginStates
  <2>5. MachineAt' /\ RowIsFirst'
    BY <2>1 DEF LoginInv, MachineAt, RowIsFirst, Polling
  <2>6. NamedHaveScanned' /\ AccountHasScanned'
    BY <2>1, <2>3 DEF LoginInv, NamedHaveScanned, AccountHasScanned
  <2>7. QED
    BY <2>4, <2>5, <2>6 DEF LoginInv
<1>2. CASE ~(CredentialRequestFits(uin) /\ CredentialAccepted(answer))
  BY <1>2, LoginFailsInv DEF CredentialAnswered
<1>3. QED
  BY <1>1, <1>2

LEMMA LoginOnlineInv ==
  ASSUME LoginInv, LoginBootstrapped \/ Activated \/ RunEnds
  PROVE  LoginInv'
<1>1. /\ UNCHANGED <<code, scanned, now, expires, bound, uin>>
      /\ \/ /\ at' = "Activate" /\ login' = "Registering"
            /\ UNCHANGED <<loginRow, told>>
         \/ /\ at' = "Run" /\ login' = "Online"
            /\ loginRow' = "Active" /\ told' = told \union {"Active"}
         \/ /\ at' = "Stopped" /\ login' = "Stopped"
            /\ UNCHANGED <<loginRow, told>>
  BY DEF LoginBootstrapped, Activated, RunEnds, Moves, Allowed, LoginInv, MachineAt
<1>2. LoginTypeOK'
  BY <1>1 DEF LoginInv, LoginTypeOK, LoginStates, Ends
<1>3. MachineAt' /\ RowIsFirst'
  BY <1>1 DEF LoginInv, MachineAt, RowIsFirst, Polling
<1>4. NamedHaveScanned' /\ AccountHasScanned'
  BY <1>1 DEF LoginInv, NamedHaveScanned, AccountHasScanned
<1>5. QED
  BY <1>2, <1>3, <1>4 DEF LoginInv

LEMMA LoginTickInv == ASSUME LoginInv, Tick PROVE LoginInv'
<1>1. LoginTypeOK'
  BY LoginAssumption DEF Tick, LoginInv, LoginTypeOK
<1>2. QED
  BY <1>1 DEF Tick, LoginInv, MachineAt, RowIsFirst, NamedHaveScanned,
     AccountHasScanned, Narrow

LEMMA LoginNextInv == ASSUME LoginInv, [LoginNext]_loginVars PROVE LoginInv'
<1>1. CASE LoginNext
  <2>1. CASE StepFails \/ LoginInterrupted
    BY <2>1, LoginFailsInv DEF StepFails, LoginInterrupted
  <2>2. CASE Steps /\ ~StepFails
    BY <2>2, LoginStartsInv, LoginPollDueInv, LoginFaceAnsweredInv, LoginPollAnsweredInv,
       LoginCredentialAnsweredInv, LoginOnlineInv
       DEF Steps
  <2>3. QED
    BY <1>1, <2>1, <2>2, LoginPhonesInv, LoginOnlineInv, LoginTickInv DEF LoginNext
<1>2. CASE UNCHANGED loginVars
  BY <1>2 DEF loginVars, LoginInv, LoginTypeOK, MachineAt, RowIsFirst, NamedHaveScanned,
     AccountHasScanned, Narrow
<1>3. QED
  BY <1>1, <1>2

-----------------------------------------------------------------------------
(* The theorem.                                                            *)

\* Whoever scans, undoes, confirms or cancels, and whatever QQ's packets say, the
\* login machine refuses nothing, nobody is told of an account before its row is
\* Active, and the account that is published is one whose owner scanned the code
\* (qr/flow.rs, polling.rs, credential/request.rs, login.rs).
THEOREM LoginIsSoundCorrect == LoginSpec => []LoginIsSound
<1>1. LoginInit => LoginInv
  BY LoginInitInv
<1>2. LoginInv /\ [LoginNext]_loginVars => LoginInv'
  BY LoginNextInv
<1>3. LoginInv => LoginIsSound
  BY DEF LoginInv, LoginIsSound, MachineAt, RowIsFirst, AccountHasScanned,
     IdentityScannedTheCode, MachineFollowsFlow
<1>4. QED
  BY <1>1, <1>2, <1>3, PTL DEF LoginSpec

-----------------------------------------------------------------------------
(* The Watch.  That what the owner has seen is 1, 2, ... up to the cursor  *)
(* is not inductive: it does not say where in delivered, channel and task  *)
(* an item is.  WatchInv places each of them: the owner has received the   *)
(* first events, the channel continues where the owner stands, the event   *)
(* the task holds is the one at the cursor, and an error is the last item  *)
(* of the channel of a task that has ended.                                *)

\* The number of events the task has handed over.
Handed == IF poller = "Sending" THEN cursor - 1 ELSE cursor

ReceivedInOrder ==
  /\ \A i \in 1 .. Len(delivered) : delivered[i] = i
  /\ Len(delivered) <= Handed

\* The item at place i of the channel, counted from what the owner received.
ItemAt(place) == IF place <= Handed THEN place ELSE Failure

ChannelContinues ==
  /\ \A i \in 1 .. Len(channel) : channel[i] = ItemAt(Len(delivered) + i)
  /\ \/ Len(delivered) + Len(channel) = Handed
     \/ /\ Len(delivered) + Len(channel) = Handed + 1
        /\ poller = "Ended"

WatchInv ==
  /\ WatchTypeOK
  /\ ConnectionFollowsTask
  /\ poller = "Sending" => cursor > 0
  /\ owner = "Dropped" => poller = "Ended"
  /\ Receiving => ReceivedInOrder /\ ChannelContinues

-----------------------------------------------------------------------------
(* The first state, and the steps that change no item.                     *)

LEMMA WatchEmptyChannel ==
  <<>> \in Seq(0 .. MaxCursor) /\ Len(<<>>) = 0
  OBVIOUS

LEMMA WatchInitInv == ASSUME WatchInit PROVE WatchInv
<1> USE WatchAssumption DEF WatchInit
<1>1. {stop, connected} \subseteq BOOLEAN
  OBVIOUS
<1>2. WatchTypeOK
  BY <1>1, WatchEmptyChannel DEF WatchTypeOK
<1>3. ConnectionFollowsTask
  BY DEF ConnectionFollowsTask
<1>4. ReceivedInOrder /\ ChannelContinues
  BY DEF ReceivedInOrder, ChannelContinues, Handed
<1>5. QED
  BY <1>2, <1>3, <1>4 DEF WatchInv

\* The steps of the task between two items: an idle poll, a failed one, the end
\* of the backoff, the shutdown signal and the panic of a poll.
LEMMA WatchBetweenItems ==
  ASSUME WatchInv,
         poller \in {"Polling", "Backoff"},
         poller' \in {"Polling", "Backoff", "Failing", "Ended"},
         connected' = (poller' # "Ended"),
         UNCHANGED <<published, cursor, channel, owner, delivered>>,
         stop' = stop
  PROVE  WatchInv'
<1>1. WatchTypeOK'
  <2>1. connected' \in BOOLEAN
    OBVIOUS
  <2>2. QED
    BY <2>1 DEF WatchInv, WatchTypeOK
<1>2. ConnectionFollowsTask'
  BY DEF WatchInv, ConnectionFollowsTask
<1>3. Handed' = Handed
  BY DEF Handed
<1>4. Receiving' => ReceivedInOrder' /\ ChannelContinues'
  BY <1>3 DEF WatchInv, Receiving, ReceivedInOrder, ChannelContinues, ItemAt
<1>5. QED
  BY <1>1, <1>2, <1>4 DEF WatchInv

LEMMA WatchStepsBetweenItems ==
  ASSUME WatchInv,
         PollIdle \/ PollFails \/ PollPanics \/ BackoffEnds \/ SeeStop
  PROVE  WatchInv'
<1>1. connected
  BY DEF WatchInv, ConnectionFollowsTask, PollIdle, PollFails, PollPanics,
         BackoffEnds, SeeStop
<1>2. connected \in BOOLEAN
  BY DEF WatchInv, WatchTypeOK
<1>3. CASE PollIdle \/ PollFails \/ BackoffEnds
  BY <1>1, <1>2, <1>3, WatchBetweenItems DEF PollIdle, PollFails, BackoffEnds
<1>4. CASE PollPanics \/ SeeStop
  BY <1>4, WatchBetweenItems DEF PollPanics, SeeStop, EndTask
<1>5. QED
  BY <1>3, <1>4

LEMMA WatchPublishInv == ASSUME WatchInv, Publish PROVE WatchInv'
<1> USE DEF Publish
<1>1. WatchTypeOK'
  BY WatchAssumption DEF WatchInv, WatchTypeOK
<1>2. QED
  BY <1>1 DEF WatchInv, ConnectionFollowsTask, Receiving, ReceivedInOrder,
              ChannelContinues, ItemAt, Handed

-----------------------------------------------------------------------------
(* The steps that move an item.                                            *)

\* The event at the new cursor is in the task's hands.
LEMMA WatchPollEventInv == ASSUME WatchInv, PollEvent PROVE WatchInv'
<1> USE DEF PollEvent
<1>1. WatchTypeOK'
  BY DEF WatchInv, WatchTypeOK
<1>2. ConnectionFollowsTask'
  BY DEF WatchInv, ConnectionFollowsTask
<1>3. Handed' = Handed /\ cursor' > 0
  BY DEF Handed, WatchInv, WatchTypeOK
<1>4. Receiving' => ReceivedInOrder' /\ ChannelContinues'
  BY <1>3 DEF WatchInv, Receiving, ReceivedInOrder, ChannelContinues, ItemAt
<1>5. QED
  BY <1>1, <1>2, <1>3, <1>4 DEF WatchInv

\* The item goes from the task into the channel.
LEMMA WatchHandOverInv == ASSUME WatchInv, HandOver PROVE WatchInv'
<1> USE DEF HandOver
<1>1. /\ channel \in Seq(0 .. MaxCursor)
      /\ delivered \in Seq(0 .. MaxCursor)
      /\ cursor \in 0 .. MaxCursor
      /\ published \in 0 .. MaxCursor
      /\ Capacity \in Nat
      /\ MaxCursor \in Nat
  BY WatchAssumption DEF WatchInv, WatchTypeOK
<1>2. ReceivedInOrder /\ ChannelContinues
  BY DEF WatchInv
<1>3. CASE poller = "Sending"
  <2>1. channel' = Append(channel, cursor) /\ poller' = "Polling"
    BY <1>1, <1>3 DEF Holding
  <2>2. Handed' = cursor /\ Handed = cursor - 1 /\ cursor > 0
    BY <1>3, <2>1 DEF Handed, WatchInv
  <2>3. /\ channel' \in Seq(0 .. MaxCursor)
        /\ Len(channel') = Len(channel) + 1
        /\ Len(channel') <= Capacity
    BY <1>1, <2>1
  <2>4. WatchTypeOK'
    BY <1>3, <2>1, <2>3 DEF WatchInv, WatchTypeOK
  <2>5. Len(delivered) + Len(channel) = cursor - 1
    BY <1>2, <1>3, <2>2 DEF ChannelContinues
  <2>6. ASSUME NEW i \in 1 .. Len(channel')
        PROVE  channel'[i] = ItemAt(Len(delivered) + i)'
    <3>1. CASE i = Len(channel) + 1
      BY <1>1, <2>1, <2>2, <2>5, <3>1 DEF ItemAt
    <3>2. CASE i \in 1 .. Len(channel)
      <4>1. channel'[i] = channel[i]
        BY <1>1, <2>1, <3>2
      <4>2. channel[i] = ItemAt(Len(delivered) + i)
        BY <1>2, <3>2 DEF ChannelContinues
      <4>3. Len(delivered) + i <= cursor - 1
        BY <1>1, <2>5, <3>2
      <4>4. QED
        BY <1>1, <2>2, <4>1, <4>2, <4>3 DEF ItemAt
    <3>3. QED
      BY <1>1, <2>3, <3>1, <3>2
  <2>7. ChannelContinues'
    BY <1>1, <2>2, <2>3, <2>5, <2>6 DEF ChannelContinues
  <2>8. ReceivedInOrder'
    BY <1>1, <1>2, <2>2 DEF ReceivedInOrder
  <2>9. ConnectionFollowsTask'
    BY <1>3, <2>1 DEF WatchInv, ConnectionFollowsTask
  <2>10. owner' # "Dropped"
    BY DEF Receiving
  <2>11. QED
    BY <2>1, <2>4, <2>7, <2>8, <2>9, <2>10 DEF WatchInv
<1>4. CASE poller = "Failing"
  <2>1. /\ channel' = Append(channel, Failure)
        /\ poller' = "Ended" /\ connected' = FALSE
    BY <1>1, <1>4 DEF Holding, EndTask
  <2>2. Handed' = cursor /\ Handed = cursor
    BY <1>4, <2>1 DEF Handed
  <2>3. /\ channel' \in Seq(0 .. MaxCursor)
        /\ Len(channel') = Len(channel) + 1
        /\ Len(channel') <= Capacity
    BY <1>1, <2>1 DEF Failure
  <2>4. WatchTypeOK'
    BY <2>1, <2>3 DEF WatchInv, WatchTypeOK
  <2>5. Len(delivered) + Len(channel) = cursor
    BY <1>2, <1>4, <2>2 DEF ChannelContinues
  <2>6. ASSUME NEW i \in 1 .. Len(channel')
        PROVE  channel'[i] = ItemAt(Len(delivered) + i)'
    <3>1. CASE i = Len(channel) + 1
      BY <1>1, <2>1, <2>2, <2>5, <3>1 DEF ItemAt
    <3>2. CASE i \in 1 .. Len(channel)
      <4>1. channel'[i] = channel[i]
        BY <1>1, <2>1, <3>2
      <4>2. channel[i] = ItemAt(Len(delivered) + i)
        BY <1>2, <3>2 DEF ChannelContinues
      <4>3. QED
        BY <2>2, <4>1, <4>2 DEF ItemAt
    <3>3. QED
      BY <1>1, <2>3, <3>1, <3>2
  <2>7. ChannelContinues'
    BY <1>1, <2>1, <2>2, <2>3, <2>5, <2>6 DEF ChannelContinues
  <2>8. ReceivedInOrder'
    BY <1>1, <1>2, <2>2 DEF ReceivedInOrder
  <2>9. ConnectionFollowsTask'
    BY <2>1 DEF ConnectionFollowsTask
  <2>10. QED
    BY <2>1, <2>4, <2>7, <2>8, <2>9 DEF WatchInv
<1>5. QED
  BY <1>3, <1>4

\* The next item is an event, and it goes from the channel to the owner.
LEMMA WatchReceiveInv == ASSUME WatchInv, Receive PROVE WatchInv'
<1> USE DEF Receive
<1>1. /\ channel \in Seq(0 .. MaxCursor)
      /\ delivered \in Seq(0 .. MaxCursor)
      /\ cursor \in 0 .. MaxCursor
      /\ Capacity \in Nat
      /\ MaxCursor \in Nat
      /\ Len(channel) \in Nat \ {0} /\ Len(channel) <= Capacity
      /\ Len(delivered) \in Nat
  BY WatchAssumption DEF WatchInv, WatchTypeOK
<1>2. /\ ReceivedInOrder /\ ChannelContinues
      /\ poller = "Sending" => cursor > 0
  BY DEF WatchInv, Receiving
<1>3. Handed' = Handed /\ Handed \in Nat
  BY <1>1, <1>2 DEF Handed
<1>4. /\ Head(channel) = channel[1]
      /\ channel[1] \in 0 .. MaxCursor
      /\ channel[1] = ItemAt(Len(delivered) + 1)
  BY <1>1, <1>2 DEF ChannelContinues
<1>5. Len(delivered) + 1 <= Handed /\ Head(channel) = Len(delivered) + 1
  BY <1>1, <1>3, <1>4 DEF ItemAt, Failure
<1>6. /\ delivered' \in Seq(0 .. MaxCursor)
      /\ Len(delivered') = Len(delivered) + 1
      /\ \A i \in 1 .. Len(delivered) : delivered'[i] = delivered[i]
      /\ delivered'[Len(delivered) + 1] = Len(delivered) + 1
  BY <1>1, <1>4, <1>5
<1>7. /\ channel' \in Seq(0 .. MaxCursor)
      /\ Len(channel') = Len(channel) - 1
      /\ \A i \in 1 .. Len(channel') : channel'[i] = channel[i + 1]
  BY <1>1
<1>8. WatchTypeOK'
  BY <1>1, <1>6, <1>7 DEF WatchInv, WatchTypeOK
<1>9. ReceivedInOrder'
  <2>1. ASSUME NEW i \in 1 .. Len(delivered')
        PROVE  delivered'[i] = i
    <3>1. CASE i \in 1 .. Len(delivered)
      BY <1>2, <1>6, <3>1 DEF ReceivedInOrder
    <3>2. CASE i = Len(delivered) + 1
      BY <1>6, <3>2
    <3>3. QED
      BY <1>1, <1>6, <3>1, <3>2
  <2>2. QED
    BY <1>3, <1>5, <1>6, <2>1 DEF ReceivedInOrder
<1>10. poller' = poller
  OBVIOUS
<1> HIDE DEF Receive
<1>11. ChannelContinues'
  <2>1. ASSUME NEW i \in 1 .. Len(channel')
        PROVE  channel'[i] = ItemAt(Len(delivered) + i)'
    <3>1. i + 1 \in 1 .. Len(channel)
      BY <1>1, <1>7
    <3>2. channel[i + 1] = ItemAt(Len(delivered) + (i + 1))
      BY <1>2, <3>1 DEF ChannelContinues
    <3>3. Len(delivered') + i = Len(delivered) + (i + 1)
      BY <1>1, <1>6
    <3>4. QED
      BY <1>3, <1>7, <3>2, <3>3 DEF ItemAt
  <2>2. Len(delivered') + Len(channel') = Len(delivered) + Len(channel)
    BY <1>1, <1>6, <1>7
  <2>3. QED
    BY <1>2, <1>3, <1>10, <2>1, <2>2 DEF ChannelContinues
<1>12. QED
  BY <1>8, <1>9, <1>11 DEF Receive, WatchInv, ConnectionFollowsTask

-----------------------------------------------------------------------------
(* The ends of the runtime.                                                *)

LEMMA WatchReceiveEndInv == ASSUME WatchInv, ReceiveEnd PROVE WatchInv'
<1> USE DEF ReceiveEnd, Drop, EndTask
<1>1. {stop', connected'} \subseteq BOOLEAN
  BY DEF WatchInv, WatchTypeOK
<1>2. delivered' \in Seq(0 .. MaxCursor)
  BY DEF WatchInv, WatchTypeOK
<1>3. WatchTypeOK'
  BY <1>1, <1>2, WatchEmptyChannel, WatchAssumption DEF WatchInv, WatchTypeOK
<1>4. QED
  BY <1>3 DEF WatchInv, ConnectionFollowsTask, Receiving

LEMMA WatchAbortInv == ASSUME WatchInv, Abort PROVE WatchInv'
<1> USE DEF Abort, Drop, EndTask
<1>1. {stop', connected'} \subseteq BOOLEAN
  BY DEF WatchInv, WatchTypeOK
<1>2. WatchTypeOK'
  BY <1>1, WatchEmptyChannel, WatchAssumption DEF WatchInv, WatchTypeOK
<1>3. QED
  BY <1>2 DEF WatchInv, ConnectionFollowsTask, Receiving

LEMMA WatchShutdownInv == ASSUME WatchInv, Shutdown PROVE WatchInv'
<1> USE DEF Shutdown
<1>1. WatchTypeOK'
  BY DEF WatchInv, WatchTypeOK
<1>2. QED
  BY <1>1 DEF WatchInv, ConnectionFollowsTask, Receiving, ReceivedInOrder,
              ChannelContinues, ItemAt, Handed

LEMMA WatchJoinedInv == ASSUME WatchInv, Joined PROVE WatchInv'
<1> USE DEF Joined
<1>1. WatchTypeOK'
  BY WatchAssumption, WatchEmptyChannel DEF WatchInv, WatchTypeOK
<1>2. QED
  BY <1>1 DEF WatchInv, ConnectionFollowsTask, Receiving

LEMMA WatchNextInv == ASSUME WatchInv, [WatchNext]_watchVars PROVE WatchInv'
<1>1. CASE WatchNext
  BY <1>1, WatchPublishInv, WatchPollEventInv, WatchStepsBetweenItems, WatchHandOverInv, WatchReceiveInv,
     WatchReceiveEndInv, WatchAbortInv, WatchShutdownInv, WatchJoinedInv
     DEF WatchNext
<1>2. CASE UNCHANGED watchVars
  BY <1>2 DEF watchVars, WatchInv, WatchTypeOK, ConnectionFollowsTask, Receiving,
              ReceivedInOrder, ChannelContinues, ItemAt, Handed
<1>3. QED
  BY <1>1, <1>2

-----------------------------------------------------------------------------
(* What WatchInv says of the sequence the owner sees.                           *)

LEMMA WatchInvImpliesOrder == ASSUME WatchInv PROVE EventsInOrder
<1> DEFINE seen == delivered \o channel \o Holding
           d == Len(delivered)
           c == Len(channel)
<1> SUFFICES ASSUME Receiving
             PROVE  /\ Len(seen) \in {cursor, cursor + 1}
                    /\ \A i \in 1 .. cursor : seen[i] = i
                    /\ Len(seen) = cursor + 1 =>
                         seen[cursor + 1] = Failure /\ poller \in {"Failing", "Ended"}
  BY DEF EventsInOrder
<1>1. /\ channel \in Seq(0 .. MaxCursor)
      /\ delivered \in Seq(0 .. MaxCursor)
      /\ cursor \in 0 .. MaxCursor
      /\ MaxCursor \in Nat
      /\ d \in Nat /\ c \in Nat
  BY WatchAssumption DEF WatchInv, WatchTypeOK
<1>2. Holding \in Seq(0 .. MaxCursor) /\ Len(Holding) \in {0, 1}
  <2>1. Holding \in {<<>>, <<cursor>>, <<Failure>>}
    BY DEF Holding
  <2>2. cursor \in 0 .. MaxCursor /\ Failure \in 0 .. MaxCursor
    BY <1>1 DEF Failure
  <2>3. QED
    <3>1. CASE Holding = <<>>
      BY <3>1
    <3>2. CASE Holding = <<cursor>>
      BY <2>2, <3>2
    <3>3. CASE Holding = <<Failure>>
      BY <2>2, <3>3
    <3>4. QED
      BY <2>1, <3>1, <3>2, <3>3
<1>3. ReceivedInOrder /\ ChannelContinues
  BY DEF WatchInv
<1>4. /\ Len(seen) = d + c + Len(Holding)
      /\ \A i \in 1 .. d : seen[i] = delivered[i]
      /\ \A i \in 1 .. c : seen[d + i] = channel[i]
      /\ Len(Holding) = 1 => seen[d + c + 1] = Holding[1]
  BY <1>1, <1>2
<1>5. \A i \in 1 .. d : seen[i] = i
  BY <1>3, <1>4 DEF ReceivedInOrder
<1>6. \A i \in 1 .. c : seen[d + i] = ItemAt(d + i)
  BY <1>3, <1>4 DEF ChannelContinues
<1> HIDE DEF seen, d, c
<1>7. ASSUME NEW i \in d + 1 .. d + c
      PROVE  seen[i] = ItemAt(i)
  <2>1. i - d \in 1 .. c /\ d + (i - d) = i
    BY <1>1
  <2>2. seen[d + (i - d)] = ItemAt(d + (i - d))
    BY <1>6, <2>1
  <2>3. QED
    BY <2>1, <2>2
<1>8. CASE poller = "Sending"
  <2>1. Handed = cursor - 1 /\ d + c = cursor - 1
    BY <1>3, <1>8 DEF Handed, ChannelContinues, d, c
  <2>2. Len(Holding) = 1 /\ Holding[1] = cursor
    BY <1>8 DEF Holding
  <2>3. cursor = d + c + 1
    BY <1>1, <2>1
  <2>4. Len(seen) = cursor /\ seen[cursor] = cursor
    BY <1>1, <1>4, <2>2, <2>3
  <2>5. ASSUME NEW i \in 1 .. cursor
        PROVE  seen[i] = i
    BY <1>1, <1>5, <1>7, <2>1, <2>4 DEF ItemAt
  <2>6. QED
    BY <1>1, <2>4, <2>5
<1>9. CASE poller # "Sending"
  <2>1. Handed = cursor
    BY <1>9 DEF Handed
  <2>2. ASSUME NEW i \in 1 .. cursor, d + c >= cursor
        PROVE  seen[i] = i
    BY <1>1, <1>5, <1>7, <2>1, <2>2 DEF ItemAt
  <2>3. CASE d + c = cursor
    <3>1. CASE poller = "Failing"
      <4>1. Len(Holding) = 1 /\ Holding[1] = Failure
        BY <3>1 DEF Holding
      <4>2. Len(seen) = cursor + 1 /\ seen[cursor + 1] = Failure
        BY <1>1, <1>4, <2>3, <4>1
      <4>3. QED
        BY <1>1, <2>2, <2>3, <3>1, <4>2
    <3>2. CASE poller # "Failing"
      <4>1. Len(Holding) = 0
        BY <1>9, <3>2 DEF Holding
      <4>2. Len(seen) = cursor
        BY <1>1, <1>4, <2>3, <4>1
      <4>3. QED
        BY <1>1, <2>2, <2>3, <4>2
    <3>3. QED
      BY <3>1, <3>2
  <2>4. CASE d + c = cursor + 1 /\ poller = "Ended"
    <3>1. Len(Holding) = 0
      BY <2>4 DEF Holding
    <3>2. Len(seen) = cursor + 1
      BY <1>1, <1>4, <2>4, <3>1
    <3>3. d <= cursor
      BY <1>3, <2>1 DEF ReceivedInOrder, d
    <3>4. seen[cursor + 1] = Failure
      BY <1>1, <1>7, <2>1, <2>4, <3>3 DEF ItemAt
    <3>5. QED
      BY <1>1, <2>2, <2>4, <3>2, <3>4
  <2>5. QED
    BY <1>3, <2>1, <2>3, <2>4 DEF ChannelContinues, d, c
<1>10. QED
  BY <1>8, <1>9

-----------------------------------------------------------------------------
(* The theorem.                                                            *)

\* Whatever the capacity of the channel and however many events Ceylith
\* publishes, the owner sees them once each, in order and with the error last,
\* and the dedicated connection is open exactly as long as the Watch task runs
\* (watch.rs, run_watch and the runtime's next, shutdown and drop).
THEOREM WatchIsSoundCorrect == WatchSpec => []WatchIsSound
<1>1. WatchInit => WatchInv
  BY WatchInitInv
<1>2. WatchInv /\ [WatchNext]_watchVars => WatchInv'
  BY WatchNextInv
<1>3. WatchInv => WatchIsSound
  BY WatchInvImpliesOrder DEF WatchInv, WatchIsSound
<1>4. QED
  BY <1>1, <1>2, <1>3, PTL DEF WatchSpec
=============================================================================
