----------------------------- MODULE MediaUpload -----------------------------
(***************************************************************************)
(* Bringing a file to QQ: MediaRuntime negotiates the files of one picture, *)
(* voice or video, and HighwayClient carries each file QQ does not have yet *)
(* block by block to the endpoints of a cached upload session.             *)
(*                                                                         *)
(* The account's loop waits for the whole upload, so nothing else of the    *)
(* account happens in between; what may fail is QQ, each endpoint, and the  *)
(* session's age.  A file is its number in the plan and its size in units;  *)
(* a block is Chunk units.                                                  *)
(***************************************************************************)
EXTENDS Naturals, Sequences, FiniteSets

CONSTANTS Chunk,          \* units in a block, DEFAULT_CHUNK_BYTES
          MaxSize,        \* units in the largest file, MAX_MEDIA_BYTES
          MaxEndpoints,   \* endpoints kept of a session answer, MAX_ENDPOINTS
          Candidates      \* the endpoint lists a session answer may carry

(* The bounds are positive, and an offered endpoint is a record of its name, *)
(* its service type and whether its address and port can be used at all.     *)
ASSUME UploadAssumption ==
    /\ {Chunk, MaxSize, MaxEndpoints} \subseteq Nat \ {0}
    /\ Candidates \subseteq Seq([type : Nat, usable : BOOLEAN])

VARIABLES
    phase,      \* what the upload waits for
    job,        \* the kind of upload and the sizes of its files
    files,      \* the files still to be carried, the one in flight first
    opened,     \* the endpoints of the cached session, <<>> when there is none
    aged,       \* that session is older than SESSION_LIFETIME
    block,      \* the block in flight, from 0
    tried,      \* the endpoint it was sent to
    held,       \* the pieces of this job's files that QQ has taken
    wanted,     \* the files of this job that QQ asked for
    spoiled,    \* an upload over the cached session has failed
    result      \* how the last upload ended

uploadVars == <<phase, job, files, opened, aged, block, tried, held, wanted, spoiled,
                result>>

Phases == {"Idle", "Negotiating", "Carrying", "Opening", "Sending", "Downloading"}
Kinds  == {"Picture", "PictureUrl", "Record", "Video", "Avatar", "File"}
Sources == {"Local", "Cache", "Inline", "Remote"}

NoJob == [kind |-> "File", sizes |-> <<>>]

(* The sizes a resolved object may have: a file on disk may be empty, inline *)
(* and downloaded bytes may not.                                             *)
Obtained(source) ==
    IF source \in {"Local", "Cache"} THEN 0 .. MaxSize ELSE 1 .. MaxSize

(* A video goes with the built-in thumbnail of one unit as its second file. *)
Sizes(kind, size) == IF kind = "Video" THEN <<size, 1>> ELSE <<size>>

(* An avatar and a chat file are carried without rich-media negotiation. *)
Negotiated(kind) == kind \notin {"Avatar", "File"}

(* The types of the additional files a negotiation answer has to name. *)
SubFiles(kind) == IF kind = "Video" THEN <<100>> ELSE <<>>

(* Whether QQ's answer fits the request: exactly the additional files that   *)
(* were announced, and a message body for each file that is to be carried.   *)
FitsRequest(kind, reply) ==
    LET expected == SubFiles(kind) IN
    /\ Len(reply.subs) = Len(expected)
    /\ \A i \in DOMAIN expected :
          /\ Cardinality({j \in DOMAIN reply.subs :
                             reply.subs[j].type = expected[i]}) = 1
          /\ \A j \in DOMAIN reply.subs :
                (reply.subs[j].type = expected[i] /\ reply.subs[j].key)
                   => i < reply.bodies
    /\ reply.key => reply.bodies > 0

(* The files to carry, by number: the ones QQ returned an upload key for. *)
Plan(kind, reply) ==
    (IF reply.key THEN <<1>> ELSE <<>>)
      \o (IF \E j \in DOMAIN reply.subs : reply.subs[j].key THEN <<2>> ELSE <<>>)

(* The answers to a negotiation that the model tells apart. *)
Replies ==
    [key : BOOLEAN, bodies : 0 .. 2,
     subs : {<<>>} \cup {<<[type |-> t, key |-> k]>> : t \in {100, 7}, k \in BOOLEAN}]

(* The endpoints kept of an offer: the usable ones, each once, at most       *)
(* MaxEndpoints of them, by number; sorted, those of service type 1 first.   *)
Keeps(offer) ==
    LET First(i) == offer[i].usable /\ \A j \in 1 .. (i - 1) : offer[j] # offer[i]
    IN  {i \in DOMAIN offer :
           First(i) /\ Cardinality({j \in 1 .. i : First(j)}) <= MaxEndpoints}

Endpoints(offer) ==
    LET Kept         == Keeps(offer)
        Preferred(i) == offer[i].type = 1
        Before(i, j) == IF Preferred(i) = Preferred(j) THEN i < j ELSE Preferred(i)
        Place(i)     == Cardinality({j \in Kept : Before(j, i)}) + 1
    IN  [n \in 1 .. Cardinality(Kept) |-> offer[CHOOSE i \in Kept : Place(i) = n]]

SizeOf(file) == job.sizes[file]

\* Broken variant: the last, partial block is forgotten.
BlocksWhole(size) == IF size < Chunk THEN 1 ELSE size \div Chunk

Blocks(size) == (size + Chunk - 1) \div Chunk

(* The piece of the file in flight that block n carries. *)
Piece(file, n) ==
    [file |-> file, first |-> n * Chunk,
     length |-> IF (n + 1) * Chunk <= SizeOf(file)
                THEN Chunk ELSE SizeOf(file) - n * Chunk]

UploadInit ==
    /\ phase = "Idle"
    /\ job = NoJob
    /\ files = <<>>
    /\ opened = <<>>
    /\ aged = FALSE
    /\ block = 0
    /\ tried = 1
    /\ held = {}
    /\ wanted = {}
    /\ spoiled = FALSE
    /\ result = "None"

-----------------------------------------------------------------------------

(* The upload ends with the given answer; what it was about is dropped. *)
Ends(how) ==
    /\ phase' = "Idle"
    /\ files' = <<>>
    /\ block' = 0
    /\ tried' = 1
    /\ result' = how

(* An action asks for an upload.  A reference that cannot be resolved, or    *)
(* bytes that are not of the kind, end it before QQ hears of it.             *)
Ask ==
    /\ phase = "Idle"
    /\ \E kind \in Kinds, source \in Sources, readable \in BOOLEAN :
         \E size \in Obtained(source) :
           /\ job' = [kind |-> kind, sizes |-> Sizes(kind, size)]
           /\ held' = {}
           /\ IF readable /\ size > 0
              THEN /\ phase' = IF Negotiated(kind) THEN "Negotiating" ELSE "Carrying"
                   /\ files' = IF Negotiated(kind) THEN <<>> ELSE <<1>>
                   /\ wanted' = IF Negotiated(kind) THEN {} ELSE {1}
                   /\ result' = "None"
                   /\ UNCHANGED <<block, tried>>
              ELSE Ends("Failed") /\ wanted' = {}
    /\ UNCHANGED <<opened, aged, spoiled>>

(* The packet exchange fails, or QQ refuses the request. *)
Refused ==
    /\ phase \in {"Negotiating", "Opening", "Downloading"}
    /\ Ends("Failed")
    /\ UNCHANGED <<job, opened, aged, held, wanted, spoiled>>

NegotiationAnswered ==
    /\ phase = "Negotiating"
    /\ \E reply \in Replies :
         IF FitsRequest(job.kind, reply)
         THEN /\ phase' = "Carrying"
              /\ files' = Plan(job.kind, reply)
              /\ wanted' = {files'[i] : i \in DOMAIN files'}
              /\ UNCHANGED <<block, tried, result>>
         ELSE Ends("Failed") /\ UNCHANGED wanted
    /\ UNCHANGED <<job, opened, aged, held, spoiled>>

(* Every file is carried: a picture that only needs an address asks for it,  *)
(* every other upload is done.                                               *)
AllCarried ==
    /\ phase = "Carrying"
    /\ files = <<>>
    /\ IF job.kind = "PictureUrl"
       THEN phase' = "Downloading" /\ UNCHANGED <<files, block, tried, result>>
       ELSE Ends("Done")
    /\ UNCHANGED <<job, opened, aged, held, wanted, spoiled>>

DownloadAnswered ==
    /\ phase = "Downloading"
    /\ Ends("Done")
    /\ UNCHANGED <<job, opened, aged, held, wanted, spoiled>>

(* The next file: over the cached session while it is young enough, else    *)
(* after asking for a new one.                                               *)
NextFile ==
    /\ phase = "Carrying"
    /\ files # <<>>
    /\ phase' = IF opened # <<>> /\ ~aged THEN "Sending" ELSE "Opening"
    /\ block' = 0
    /\ tried' = 1
    /\ UNCHANGED <<job, files, opened, aged, held, wanted, spoiled, result>>

(* A session answer without one usable endpoint leaves the old session be. *)
SessionAnswered ==
    /\ phase = "Opening"
    /\ \E offer \in Candidates :
         IF Endpoints(offer) = <<>>
         THEN Ends("Failed") /\ UNCHANGED <<opened, aged, spoiled>>
         ELSE /\ phase' = "Sending"
              /\ opened' = Endpoints(offer)
              /\ aged' = FALSE
              /\ spoiled' = FALSE
              /\ UNCHANGED <<files, block, tried, result>>
    /\ UNCHANGED <<job, held, wanted>>

Took == held' = held \cup {Piece(Head(files), block)}

(* The endpoint acknowledges the block. *)
BlockTaken ==
    /\ phase = "Sending"
    /\ Took
    /\ tried' = 1
    /\ IF block + 1 < Blocks(SizeOf(Head(files)))
       THEN block' = block + 1 /\ UNCHANGED <<phase, files>>
       ELSE /\ phase' = "Carrying"
            /\ files' = Tail(files)
            /\ block' = 0
    /\ UNCHANGED <<job, opened, aged, wanted, spoiled, result>>

(* The upload fails: the session is dropped with it. *)
AbandonUpload ==
    /\ Ends("Failed")
    /\ opened' = <<>>
    /\ aged' = FALSE
    /\ spoiled' = TRUE

\* Broken variant: after the last endpoint the first one is asked again.
BlockUnansweredAgain ==
    /\ phase = "Sending"
    /\ Took \/ UNCHANGED held
    /\ tried' = (tried % Len(opened)) + 1
    /\ UNCHANGED <<phase, job, files, opened, aged, block, wanted, spoiled, result>>

(* No answer that can be read: the block goes to the next endpoint.  QQ may  *)
(* have taken it all the same.                                               *)
BlockUnanswered ==
    /\ phase = "Sending"
    /\ Took \/ UNCHANGED held
    /\ IF tried < Len(opened)
       THEN /\ tried' = tried + 1
            /\ UNCHANGED <<phase, files, opened, aged, block, spoiled, result>>
       ELSE AbandonUpload
    /\ UNCHANGED <<job, wanted>>

(* A nonzero result code ends the upload; no other endpoint is asked. *)
BlockRejected ==
    /\ phase = "Sending"
    /\ AbandonUpload
    /\ UNCHANGED <<job, held, wanted>>

(* Twelve hours pass. *)
SessionAges ==
    /\ opened # <<>>
    /\ ~aged
    /\ aged' = TRUE
    /\ UNCHANGED <<phase, job, files, opened, block, tried, held, wanted, spoiled,
                   result>>

UploadNext ==
    \/ Ask \/ Refused \/ NegotiationAnswered \/ AllCarried \/ DownloadAnswered
    \/ NextFile \/ SessionAnswered \/ BlockTaken \/ BlockUnanswered
    \/ BlockRejected \/ SessionAges

UploadSpec == UploadInit /\ [][UploadNext]_uploadVars

(* A packet exchange has a deadline, and so has each request to an endpoint  *)
(* (30 s): every wait of an upload ends.                                     *)
UploadProgress ==
    \/ Refused \/ NegotiationAnswered \/ AllCarried \/ DownloadAnswered
    \/ NextFile \/ SessionAnswered \/ BlockTaken \/ BlockUnanswered \/ BlockRejected

FairUploadSpec == UploadSpec /\ WF_uploadVars(UploadProgress)

-----------------------------------------------------------------------------

UploadTypeOK ==
    /\ phase \in Phases
    /\ job.kind \in Kinds
    /\ \A i \in DOMAIN files : files[i] \in DOMAIN job.sizes
    /\ Len(opened) <= MaxEndpoints
    /\ tried \in 1 .. MaxEndpoints
    /\ result \in {"None", "Done", "Failed"}

Covered(file, unit) ==
    \E piece \in held :
       piece.file = file /\ piece.first <= unit /\ unit < piece.first + piece.length

(* An upload that reports success has brought QQ every unit of every file    *)
(* that QQ asked for: upload() counts blocks, and nothing else compares what *)
(* was sent with what the file holds.                                        *)
DoneMeansWhole ==
    result = "Done" =>
        \A file \in wanted : \A unit \in 0 .. (SizeOf(file) - 1) : Covered(file, unit)

(* Blocks are sent in order: while one is in flight QQ has all before it,    *)
(* whichever endpoints took them (send_block returns before the next one).   *)
BlocksInOrder ==
    phase = "Sending" =>
        \A unit \in 0 .. (block * Chunk - 1) : Covered(Head(files), unit)

(* After an upload over a session has failed, no block is sent over that    *)
(* session again, by this or a later upload (upload_bytes drops it).        *)
FailedSessionIsDropped == phase = "Sending" => ~spoiled

UploadsAreSound == UploadTypeOK /\ DoneMeansWhole /\ BlocksInOrder /\ FailedSessionIsDropped

(* Every upload ends: a block is tried at each endpoint once, and there are  *)
(* finitely many of both.                                                    *)
UploadEnds == []<>(phase = "Idle")
=============================================================================
