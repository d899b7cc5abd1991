----------------------------- MODULE SecureChannel -----------------------------
(***************************************************************************)
(* One secured connection to Ceylith: the handshake of ceylith-crypto, then *)
(* frames sealed and opened by the SecureSession at each end, inside        *)
(* ClientConnection at the client's.                                        *)
(*                                                                         *)
(* What was sent stays on the wire for good, and any end may be handed any  *)
(* message at any time: that stands for loss, delay, repetition and         *)
(* reordering.  A message may also arrive with another header or a changed  *)
(* ciphertext, and messages of other connections may stray in.              *)
(*                                                                         *)
(* A ciphertext can be opened with the key and the number it was sealed     *)
(* with, under the header it was sealed under, and not otherwise: that is   *)
(* the cipher's promise and is assumed.  The server's admission logic is    *)
(* not in this repository; its record layer is.                             *)
(***************************************************************************)
EXTENDS Naturals, Sequences

CONSTANTS MessageLimit,   \* frames one end may seal, message_limit
          Request,        \* request identifiers
          Body            \* inner frames, as the sequences of their fields

ChannelBounds ==
    /\ MessageLimit \in Nat \ {0}
    /\ Body \subseteq Seq({"Contract", "OldContract", "Body", "FutureBody", "Unknown"})

End == {"client", "server"}
Peer(e) == IF e = "client" THEN "server" ELSE "client"

VARIABLES
    stage,    \* the client: "Start", "Hello", "Open"
    ready,    \* the ends in transport mode
    closed,   \* the ends whose session is over
    send,     \* the SecureSession of each end: the number it seals with next
    receive,  \* and the number it opens next
    wire,     \* every frame that was ever sealed
    welcomes, \* every welcome that was sent
    sealed,   \* what each end has sealed, in order
    opened    \* what each end has opened, in order

counters == <<send, receive>>

vars == <<stage, ready, closed, counters, wire, welcomes, sealed, opened>>

(* The header of a frame.  Its length field only says what the carrier needs. *)
Header(session, counter, request) ==
    [session |-> session, counter |-> counter, request |-> request]

Sessions == {"ours", "another"}
Headers  == [session : Sessions, counter : 0 .. MessageLimit, request : Request]
Item     == [request : Request, body : Body]

\* Broken variant: the request identifier is left out of what is authenticated.
AssociatedDataShort(header) == [session |-> header.session, counter |-> header.counter]

(* The complete header is authenticated with the ciphertext. *)
AssociatedData(header) == header

(* A frame: the end whose key sealed it, the number it was sealed with, the  *)
(* data it was sealed under, and the plaintext.                              *)
Frame == [key : End \cup {"another"}, number : 0 .. (MessageLimit - 1),
          data : {AssociatedData(h) : h \in Headers}, body : Body]

(* Frames of other connections. *)
Stray ==
    {[key |-> "another", number |-> 0, body |-> b,
      data |-> AssociatedData(Header("another", 0, r))] : b \in Body, r \in Request}

(* Fields of an inner frame that carry its body: tags 10 to 63. *)
Bodies(body) == {i \in DOMAIN body : body[i] \in {"Body", "FutureBody"}}
Contracts(body) == {i \in DOMAIN body : body[i] \in {"Contract", "OldContract"}}

(* validate_top_level: the current contract once, a known body once; unknown *)
(* fields outside the body tags are passed over.                             *)
Readable(body) ==
    /\ \E c \in Contracts(body) : Contracts(body) = {c} /\ body[c] = "Contract"
    /\ \E b \in Bodies(body) : Bodies(body) = {b} /\ body[b] = "Body"

(* Whether an admission is accepted: a lease that outlives the server's      *)
(* clock, a policy, and each accepted contract named once.                   *)
Admissible(welcome) ==
    /\ welcome.now > 0
    /\ welcome.expires > welcome.now
    /\ welcome.epoch > 0
    /\ welcome.contracts # <<>>
    /\ \A i, j \in DOMAIN welcome.contracts :
          /\ welcome.contracts[i] # 0
          /\ welcome.contracts[i] = welcome.contracts[j] => i = j

Welcome ==
    [handshake : Sessions, now : 0 .. 1, expires : 1 .. 2, epoch : {1},
     contracts : {<<>>, <<1>>, <<1, 1>>}]

Init ==
    /\ stage = "Start"
    /\ ready = {}
    /\ closed = {}
    /\ send = [e \in End |-> 0]
    /\ receive = [e \in End |-> 0]
    /\ wire = {}
    /\ welcomes = {}
    /\ sealed = [e \in End |-> <<>>]
    /\ opened = [e \in End |-> <<>>]

-----------------------------------------------------------------------------

(* The client sends the single hello of its handshake. *)
Hello ==
    /\ stage = "Start"
    /\ stage' = "Hello"
    /\ UNCHANGED <<ready, closed, counters, wire, welcomes, sealed, opened>>

(* The server reads the hello, answers it, and is in transport mode. *)
ServerWelcome ==
    /\ stage = "Hello"
    /\ "server" \notin ready
    /\ \E welcome \in Welcome :
          /\ welcome.handshake = "ours"
          /\ welcomes' = welcomes \cup {welcome}
    /\ ready' = ready \cup {"server"}
    /\ UNCHANGED <<stage, closed, counters, wire, sealed, opened>>

(* The welcome reaches the client: of this handshake, unchanged and          *)
(* acceptable, or the connection is over before it began.                    *)
Finish ==
    /\ stage = "Hello"
    /\ "client" \notin closed
    /\ \E welcome \in welcomes \cup {w \in Welcome : w.handshake = "another"},
          intact \in BOOLEAN :
          IF welcome.handshake = "ours" /\ intact /\ Admissible(welcome)
          THEN stage' = "Open" /\ ready' = ready \cup {"client"} /\ UNCHANGED closed
          ELSE closed' = closed \cup {"client"} /\ UNCHANGED <<stage, ready>>
    /\ UNCHANGED <<counters, wire, welcomes, sealed, opened>>

Usable(e) == e \in ready \ closed

(* The frame an end seals next. *)
Sealing(e, request, body) ==
    [key |-> e, number |-> send[e], body |-> body,
     data |-> AssociatedData(Header("ours", send[e], request))]

(* SecureSession::seal.  The client checks what it encodes. *)
Seal(e, request, body) ==
    /\ Usable(e)
    /\ send[e] < MessageLimit
    /\ e = "client" => Readable(body)
    /\ wire' = wire \cup {Sealing(e, request, body)}
    /\ sealed' = [sealed EXCEPT ![e] = Append(@, [request |-> request, body |-> body])]
    /\ send' = [send EXCEPT ![e] = @ + 1]
    /\ UNCHANGED <<stage, ready, closed, receive, welcomes, opened>>

(* The limit is reached: the session is closed in both directions. *)
SealTooLate(e) ==
    /\ Usable(e)
    /\ send[e] >= MessageLimit
    /\ closed' = closed \cup {e}
    /\ UNCHANGED <<stage, ready, counters, wire, welcomes, sealed, opened>>

(* The header names this session and the number that is due. *)
Due(e, header) ==
    /\ e = "client" => header.session = "ours"
    /\ header.counter = receive[e]
    /\ header.counter < MessageLimit

(* The cipher's answer: this direction's key, the due number, this header. *)
Decrypts(e, frame, header, intact) ==
    /\ intact
    /\ frame.key = Peer(e)
    /\ frame.number = receive[e]
    /\ frame.data = AssociatedData(header)

(* ClientConnection::open, and SecureSession::open at the server.  Whatever  *)
(* is wrong with a frame closes the session; an unreadable inner frame does  *)
(* so after its number was used up.                                          *)
Open(e, frame, header, intact) ==
    /\ Usable(e)
    /\ IF Due(e, header) /\ Decrypts(e, frame, header, intact)
       THEN /\ receive' = [receive EXCEPT ![e] = @ + 1]
            /\ IF e = "client" /\ ~Readable(frame.body)
               THEN closed' = closed \cup {e} /\ UNCHANGED opened
               ELSE /\ opened' = [opened EXCEPT ![e] =
                                    Append(@, [request |-> header.request,
                                               body |-> frame.body])]
                    /\ UNCHANGED closed
       ELSE closed' = closed \cup {e} /\ UNCHANGED <<receive, opened>>
    /\ UNCHANGED <<stage, ready, send, wire, welcomes, sealed>>

Next ==
    \/ Hello \/ ServerWelcome \/ Finish
    \/ \E e \in End :
          \/ \E request \in Request, body \in Body : Seal(e, request, body)
          \/ SealTooLate(e)
          \/ \E frame \in wire \cup Stray, header \in Headers, intact \in BOOLEAN :
                Open(e, frame, header, intact)

Spec == Init /\ [][Next]_vars

-----------------------------------------------------------------------------

TypeOK ==
    /\ stage \in {"Start", "Hello", "Open"}
    /\ ready \subseteq End
    /\ closed \subseteq End
    /\ send \in [End -> 0 .. MessageLimit]
    /\ receive \in [End -> 0 .. MessageLimit]
    /\ wire \subseteq Frame
    /\ welcomes \subseteq Welcome
    /\ sealed \in [End -> Seq(Item)]
    /\ opened \in [End -> Seq(Item)]

ToServer == INSTANCE OrderedChannel WITH sent <- sealed["client"], received <- opened["server"]
ToClient == INSTANCE OrderedChannel WITH sent <- sealed["server"], received <- opened["client"]

(* Whatever the carrier does to the frames, each direction is an ordered     *)
(* channel: a frame that is lost, repeated, swapped, changed or of another   *)
(* connection ends the session and never shifts what is read after it, and a *)
(* request identifier arrives with the body it was sealed with.              *)
DeliversInOrder == ToServer!Spec /\ ToClient!Spec
=============================================================================
