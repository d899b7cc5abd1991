# A TLA+ model of Lirvena

Lirvena (`src/`) is a Rust daemon that keeps several QQ accounts online. It is
admitted by a signing service, Ceylith, either *Public* or with a *grant* that a
limited number of accounts may run on. Each account logs in by QR code, keeps a
heartbeat with QQ, records its lifecycle in a SQLite database of its own, and
must go offline, in a way that can be proved from that database, when its grant
or the connection that watches over the grant is lost.

This directory holds the specifications of the parts of the program where the
order of steps matters, the TLC configurations that check them on small
instances, and the theorems that TLAPS proves about them for every value of the
constants. `PROJECT.json` maps every definition to the lines it models and lists
the runs, the broken variants that each property is shown to catch, the hazards
and the findings.

    tlc -workers 2 -config MCAccountStore.cfg MCAccountStore      # a run
    tlapm AccountStoreProofs.tla                                   # the proofs

Contents: [the system](#1-the-system), [the modules](#2-the-modules),
[the runs](#3-the-runs-and-their-bounds), [fairness](#4-fairness),
[the proofs](#5-the-proofs), [what the models show](#6-what-the-models-show),
[what is not modelled](#7-what-is-not-modelled), [the plan](#8-the-plan).

## 1. The system

The daemon is one process with a multi-threaded tokio runtime. It is made of
tasks that share little memory and talk over channels; what must survive the
process is in SQLite databases in WAL mode.

    Ceylith ==(operations, encrypted)== installation client <--- account flows
       \                                                           |      ^
        ======(long poll)== continuity Watch --events--> supervisor  |   actions
                                                          |   ^      v      |
                                             directives   v   |   account   OneBot
       QQ  ==(TCP)== session <== online loop <== account task +-> actor     adapter
                                                                   |
                                        notification worker     SQLite row
                                          (SQLite outbox)       and journal

### Components, their state and what makes them correct

Paths are relative to `src/`.

| component | state | operations | hard part | correct when |
|---|---|---|---|---|
| account store and actor, `crates/account-runtime/src/{store,actor,model}.rs` | one row (phase, generation, reason, time) and the journal of transitions, in SQLite; a bounded command queue | open and recover, transition, snapshot, shutdown | the row is read in one statement and replaced in another; nothing locks out a second process; a crash can fall between any two steps | the journal is the history of the row, each version of the row is left once, each generation is ended before the next |
| account supervisor, `crates/account-runtime/src/supervisor.rs` | the map of actors | spawn, shutdown_all | failures during start-up | part of the daemon's model |
| grant planner and classifier, `crates/account-runtime/src/grant.rs`, `bins/lirvena/src/qr/continuity.rs` | none (pure) | plan the realms of all accounts, classify a Watch event | quota 0 has two meanings and two readers | no quota winners, no silent downgrade, both readings agree |
| daemon and account tasks, `bins/lirvena/src/qr.rs`, `qr/{daemon,flow}.rs` | the tasks, a stop channel per account, the restart channel, the supervisor's loop | start-up, supervise, stop, restart, exit | five kinds of events race in one `select!`; a directive is read twice and can be overwritten in between; tasks end on their own | an open stream agrees with the row, revocation is recorded, no generation has two realms, a stop completes |
| QR login, `qr/{polling,credential,face,qq}.rs`, `crates/qq-domain/src/login.rs`, `crates/qq-login` | the login machine, the code, the identity last looked up | fetch, look up, poll, exchange | two clocks, two sources of identity, phones that scan and undo, Ctrl-C in a pause | the machine never skips a stage; who is logged in is who was looked up and confirmed; a login ends |
| online controller and loop, `crates/qq-domain/src/online/`, `bins/lirvena/src/online/runtime.rs` | schedule, in-flight marks, startup gates | gates, poll_due, completions | wall-clock deadlines, responses that set the next delay, traffic that restarts the sleep | the schedule never lapses and stays within its signed bounds |
| QQ transport and session, `crates/qq-transport`, `crates/qq-session` | a partly read frame, a queue of 64 pushes | exchange with interleaved pushes, read_push, drain | a read future that loses a `select!`, late answers, limits in the middle of an exchange | frames stay whole, answers match their exchange, no push is forgotten below the limits |
| pushes, `online/{push,notices}.rs`, `crates/qq-message` | a queue of 256 events and 16 MiB, a window of duplicates | apply, admit, pop | many decoders asked in turn; one notice becomes many events | each body is claimed by one decoder, the queue's counters are right |
| event publication, `online/{runtime,notices,requests}.rs` | the event in hand, lists read from QQ | look up, publish, give up | the world moves on between push and lookup | flags name their asker, OneBot clients can tell notices apart, the queue settles |
| synchronization, `crates/qq-online` | marks, cursors, recent contacts | sync, apply a sync push | two walks over one packet, packets out of order | nothing goes back; the marks cover the cursors |
| message registry and store, `online/message_registry.rs`, `crates/account-message-store` | 31-bit ids, a pruned table | register, look up, recall, expire | wrap and probing, redelivery, incomplete correlation | an id never changes its meaning while retained; replies stay in their conversation |
| message segments, `crates/qq-message/src/{outbound,rich_text/}`, `crates/adapter-onebot/src/message.rs` | none | compile, decode, send on | encoder and decoder are different code | what is accepted is readable (two exceptions), read as written and can be sent on |
| account actions, `online/actions.rs` and its siblings | friends, upload session, skey and tickets | the actions of an account | any stage fails, after QQ acted or before; caches expire in the middle | a request acts at most once, a rejection did nothing, files come before their message |
| highway upload, `crates/qq-highway`, `online/media.rs` | upload session, block position | negotiate, upload blocks | retries over endpoints | blocks in order and complete, a failed session is dropped, an upload ends |
| installation client, `crates/ceylith-client/src/`, `bins/lirvena/src/action_runtime.rs` | one connection, a bounded queue, flows | serial exchange, action flow | one account's error ends the worker of all; callers that are gone | answers reach their caller, every caller hears, flows end clean |
| continuity Watch, `crates/ceylith-client/src/installation/watch.rs` | cursor, channel of 8, stop signal, a connection | poll, hand over, shutdown, drop | the reader may be gone, slow or waiting for the task | events in order, none lost; the end is noticed; the connection closes |
| encrypted session, `crates/ceylith-crypto`, `ceylith-client/src/{connection,handshake}.rs` | two counters, a message limit | handshake, seal, open, close | the last message, strays of other connections | each direction delivers in order, once, or stops |
| Ceylith protocol, `crates/ceylith-protocol` | none | frames, validity of grants and events | formatting, except validity and unknown fields | as used by planner, channel and worker |
| notification outbox, `crates/notify-runtime/src/{store,runtime,model}.rs`, `bins/lirvena/src/notification.rs` | events and deliveries in SQLite, a command queue | enqueue, flush, sweep, record, shutdown | the outside effect comes before its record; `notify test` is a second process | cooldown, final records, every delivery settles |
| notification adapters, `notify-runtime/src/adapter/` | none | HTTP and SMTP requests | pure I/O | - |
| community telemetry, `crates/community-telemetry`, `bins/lirvena/src/telemetry.rs` | daily counters and activity in SQLite | count, checkpoint, obtain, report, acknowledge | midnights, lost answers, crashes between two statements | nothing is counted twice, a complete day is reported and marked |
| account API, `crates/account-api` | action channel, lossy broadcast | act, publish | a reader that lags, an executor that ends | every call is answered |
| OneBot adapter, `crates/adapter-onebot`, `bins/lirvena/src/onebot.rs` | registry, lanes, event bus, connections | dispatch, publish, serve, dial, shut down | slow and vanishing clients | gaps are announced, lanes keep order, shutdown waits for bots only |
| wire formats, private state files, command line, tools | none | encode, decode, parse | - | - |

How they interact, where it matters for the models:

* The supervisor sends *directives* to account tasks over `tokio::sync::watch`
  channels: a cell that a later send overwrites. It never waits for a task
  except by joining it.
* An account task asks its actor for a transition over a bounded queue and
  awaits the answer; when the task is dropped in a `select!` the command stays
  queued and is executed all the same.
* The Watch task sends events over a channel of eight places to the supervisor,
  which drops the whole Watch runtime in the step in which it sees its end.
* Notifications are offered with `try_send` and dropped when the queue is full.
* All accounts share one worker towards Ceylith; each has a QQ connection of its
  own. Its online loop does one thing at a time: while an action runs, pushes
  wait in the session's queue and a heartbeat that is due waits too.
* A bot's call goes through a dispatcher to the bounded channel of the account's
  loop; what happens to an account goes through two broadcasts to the bots.

The `hazards` of `PROJECT.json` list the steps of this code that are hard to
test, at their lines, with the properties that watch over them.

## 2. The modules

    AccountRow  <-- AccountLifecycle          the rules of a row; the row alone
        ^  ^             ^
        |  +-- AccountStore ---- refines      queues, two statements, processes
        |           ^
        |           +-- AccountStoreProofs
        |
    AccountDaemon --> GrantPlan <-- GrantNegotiation <-- LinksProofs
        |       ^
                +-- AccountDaemonProofs

    QrLogin <-- LifecycleProofs               the stage Login of AccountDaemon
    OnlineSession <-- OnlineProofs     the schedule of the online loop
    QqSession <-- LinksProofs          its session: exchanges, pushes, queues
    PushEvents <-- OnlineProofs        its decoders
    EventResolution <-- OnlineProofs   what becomes of their events
    OnlineSync <-- OnlineProofs        its synchronization
    MessageRegistry <-- OnlineProofs   its messages
    MessageSegments <-- OneBotProofs   their contents
    AccountActions <-- OnlineProofs    its actions
    MediaUpload <-- OnlineProofs       their files

    OrderedChannel <-- SecureChannel <-- LinksProofs   refines, per direction
    InstallationClient <-- LinksProofs    the shared worker, the flows
    InstallationWatch <-- LifecycleProofs              the Watch
    NotificationOutbox <-- NotificationOutboxProofs
    CommunityTelemetry <-- TelemetryProofs
    OneBotDispatch <-- OneBotProofs    calls of bots
    OneBotEvents <-- OneBotProofs      events for bots

**`AccountRow`** has the data model of a row and the pure rules of
`store.rs`: which moves are legal (`AllowedMove`, `ValidTransition`), the row a
transition writes (`Successor`), what fits a column (`Storable`; `MaxStored`
stands for `i64::MAX`), and the transition crash recovery asks for.
`Progress` is no code: it is the measure `3 * generation + rank(phase)` that
every legal move increases, and thus what makes *(phase, generation)* a version
number.

**`AccountLifecycle`** is the abstract specification: a row that changes by one
legal transition at a time.

**`AccountStore`** is the actor: `Submit` puts a command into a writer's queue,
`Begin` is `snapshot` and `validate_transition`, `Commit` is the transaction of
`commit_transition` (conditional UPDATE and journal INSERT), `CommitFails` an
I/O error, `Open` the opening of the store with `recover_interrupted`, `Close`
the Shutdown command, `Crash` the end of the process at any point. `Writer` is
the set of processes that have the database open: only the WHERE clause of the
UPDATE stands between two of them. The Snapshot command changes nothing and is
left out. The queue and the held transition are what is lost in a crash; `row`
and `journal` are what is not.

**`GrantPlan`** translates `grant.rs` and `continuity.rs` as operators:
`PlanGrants` with its errors in the order of the code, and `Classify`.
**`GrantNegotiation`** drives them through every configuration of a bounded
size, every admission and every quota change.

**`AccountDaemon`** is one run after another of the daemon. Per account it has
the row, the FIFO of the actor, the stage of the task, the result of its flow
and the cell of its stop channel:

| code | model |
|---|---|
| `run_qr_process` up to the spawn of the tasks | `Boot`, `Recover`, `Start` (one account after another), `BootFails`, `BootDone` |
| `flow::run` | the stages `Login`, `Activating` (waiting for the actor's answer), `Online`; `Bootstrapped`, `FlowFails` |
| the `select!` of `run_account` | `ObserveStop` against the steps of the flow |
| the match on `(outcome, directive)` | `Terminal`, `Record`; `TaskResult` is what the task returns |
| the account actor | `ActorStep`: one atomic step, which `AccountStore` refines |
| `supervise` | `EnterSelect` (the futures are created; `armed` is the guard of the restart branch), and the branches `Join`, `HandleWatch`, `WatchLost`, `SeeCtrlC`, `SeeRestart` |
| Ctrl-C | `CtrlC`, heard by any set of those that listen at that moment |
| the exit of `run_qr_process` and the loop of `qr.rs` | `Finish`; `exit` is how the run ended |

**`OnlineSession`** is one login generation: the controller `machine.rs` with
its schedule, driven by the loop of `online/runtime.rs`. `Wake` is `poll_due`
and the start of `execute_due`, `HeartbeatDone` and `DelayedDone` the
completions, `Tick` a step of the wall clock, which may also go back. The
`select!` creates its sleep anew in each turn of the loop: `Elapse` is a sleep of
at least a millisecond that came to its end, `Interrupt` a push or an action that
wins all the same because the branches are polled in random order. One that wins
before the sleep elapsed changes nothing of the schedule and is no step.

**`InstallationWatch`** is the Watch task, its channel and its owner.
`HandOver` is the `send().await` that waits for room and for nothing else,
`SeeStop` the stop branch of a poll or of the pause after it, `Drop` what
dropping the runtime does (abort of the task), `Shutdown` and `Joined` the two
halves of `shutdown()`. Ceylith is external.

**`NotificationOutbox`** is the outbox and the workers on it: that of the daemon
and those of `notify test`, which open the same database. `Suppressed` is the
cooldown, `Inserted` the rows of an event, one for each destination it leaves,
`Due` the bounded oldest-first snapshot, `Failed` the schedule of retries and the
abandonment, `MayRecord` the WHERE clause of the two updates. `InOrder` lists a
set in a given order, as ORDER BY does.
`Deliver` (the adapter's answer) and `Record` (its record) are two steps, with
everything else possible between them. A failing record or snapshot ends the
worker (`Fail`).

**`QrLogin`** is `qr::flow` up to the credential: `Fetch` of a code, the identity
lookup (`face.rs`) and the poll (`polling.rs`) as two steps between which phones
scan, undo, confirm and cancel, `HasExpired`, Ctrl-C in the pause, the moves of
the login machine (`Allowed`), and the credential exchange with its checks
(`CredentialRequestFits`). `AccountDaemon` sees of it success or failure.

**`QqSession`** is one connection with QQ: frames that arrive in parts, the
`select!` of the loop with a read that may be dropped (`DropRead`), exchanges
that put pushes aside (`PutAside`), the drain of that queue, the window of
duplicates and the publication. Messages are numbers, so that order and
repetition can be stated.

**`PushEvents`** is `PushProcessor::apply` and `admit_message`: envelopes by
type numbers and shape, the decoders in the order in which they are asked
(`Outcome`), recalls that become several events, and the two limits.
**`EventResolution`** takes the events from there: lists are read from QQ when
the world has moved on, a UID resolves or not, and OneBot's projection is what
clients can tell apart. **`OnlineSync`** has the marks and cursors of
`qq-online`, with its two walks over a packet; what the code merges item by item is
the newest value of all of them (`Newest`), in whatever order they come.

**`MessageRegistry`** is the table of retained messages with the numbers bots
know them by: `NextId` (probing with a wrap at `IdLimit`), `InboundId`, quotes,
recalls, expiry and pruning. A message is `Acceptable` when the checks of its
lookups and of its record pass; the decoder fills a random or a time that QQ leaves
out with zero, which a private lookup refuses. **`MessageSegments`** sends segments from a bot to
the wire and back (`Compiled`, `CommonSegment` and the other readers), once or
through a second bot. Words may hold a NUL, and media or a body may be larger than
a reader takes (`Oversized`).

**`AccountActions`** has each handler as a *program*, the sequence of its stages
(`Query`, `Control`, `Row`, `Upload`, `Skey`, ...), of which each may fail in the
ways that its code distinguishes, and the caches that outlive a request.
`execute_account_action` is the tables `Simple`, `Uploads`, `Controls`,
`WebActions`, `RetainedActions`, `Sends`; the segments of a message are compiled
one by one (`CompileNext`), as in the loop of the code. **`MediaUpload`** is one upload in detail:
negotiation, session, endpoints, blocks.

**`SecureChannel`** is a connection to Ceylith with its handshake and both
record layers, on a network that may hand any end any frame at any time;
**`OrderedChannel`** is what it promises, one instance per direction.
**`InstallationClient`** uses it, with a frame for a message: the queue, the
worker (`WorkerStep`), the callers, and the action flow of each account.

**`CommunityTelemetry`** is the worker and its store, statement by statement
where a crash may fall between them (`CrashBetween`: at a checkpoint, at a leave, at
a shutdown and at the next opening; `torn` marks that it happened). **`OneBotDispatch`**
has the routes to the accounts, callers, the asynchronous lane, the mutex of
rate-limited calls and the executors with their channels; **`OneBotEvents`** the hub,
the coordinator, the bus and one bot of each kind: a WebSocket, a stream of events or
a plain HTTP request at the forward server, or the peer of the reverse client. Every
write to a bot is a state of its own (`Sending`, `Closing`), because no write has a
timeout and the loop of a connection looks at nothing else meanwhile.

Operators that begin with the comment `Broken variant` belong to no
specification: each is a plausible mistake in the definition it precedes, kept
to show that the property it is listed with in `PROJECT.json` would find it.

## 3. The runs and their bounds

Several components are checked in one run: an MC module extends all of them, and
its variable `part` says which of them a behaviour exercises. The first state chooses the part; the variables of the others rest in
a first state of theirs. That is a disjoint union of state graphs and not a
composition: every part is checked exactly as if it had a run of its own, with
its own constants, and properties that speak of one part hold of the others
because these do not move or are excepted by `part = ...`. Fairness is that of
each part, for steps of that part. Modules that are extended together have names
of their own for what every specification has (`LoginInit`, `WatchNext`,
`NegotiationSpec`, `RegistryInit`). TLC evaluates the
assumptions of each module in its run.

| run | parts | properties |
|---|---|---|
| `store_two_processes` (`MCAccountStore`) | `race`: `AccountStore`, 2 writers, one time; `clock`: 1 writer, times 0..3; `MaxStored` 2 | `StoreIsSound`, `ImplementsLifecycle` |
| `lifecycle` (`MCLifecycle`) | `daemon`: `AccountDaemon`, a Full and a Public account under every kind of event; `login`: `QrLogin`, 2 phones and a wide number; `watch`: `InstallationWatch`, 2 places, 5 events | `FailsClosed`, `OnlyFullIsProtected`, `StopCompletes`; `LoginIsSound`, `LoginEnds`; `WatchIsSound`, `OwnerHears` |
| `daemon` (`MCDaemon`) | `plain`: `AccountDaemon`, 2 accounts, one of which may fall back, 2 runs; `rows`: the same installation, 3 runs, a clock of two values, while the Public account stays at its login; `telemetry`: `CommunityTelemetry`, 2 accounts, 3 days of 2 hours | `SessionsAreSound`, `EndsAreRecorded`; `ReportsAreSound`, `DaysReported` |
| `online` (`MCOnline`) | `schedule`: `OnlineSession`; `registry`: `MessageRegistry`, 6 messages, 3 rows, 4 numbers; `pushes`: `PushEvents`, 3 events, 6 bytes; `events`: `EventResolution`, 2 events; `sync`: `OnlineSync`; `actions`: `AccountActions`, every action, 2 requests; `uploads`: `MediaUpload`, blocks of 2, files up to 5 | `OnlineIsSound`, `EveryDelayBounded`, `HeartbeatIsSent`; `RegistryIsSound`, `IdsKeepTheirMeaning`; `AnnouncementsAreSound`, `EventsSettle`; `SyncIsSound`; `PushesAreSound`; `ActionsAreSound`, `UploadsAreSound`, `WorkEnds` |
| `links` (`MCLinks`) | `grants`: `GrantNegotiation`, up to 3 accounts, quota up to 3; `channel`: `SecureChannel`, a limit of 2 messages; `worker`: `InstallationClient`, 2 accounts, a queue of one, a limit of 4; `session`: `QqSession`, queues of 2, 3 reads per exchange, 3 pushes, 2 messages, 2 exchanges, a window of one | `PlansAreSound`; `DeliversInOrder`; `ClientIsSound`, `CallersHear`; `SessionIsSound`, `QueueDrains` |
| `onebot` (`MCOneBot`) | `events`: `OneBotEvents`, 2 accounts with one QQ number, broadcasts of one place; `calls`: `OneBotDispatch`, 2 calls, a lane of two, a channel of one; `segments`: `MessageSegments`, 2 segments, sent on once | `BotsAreTold`, `RoutesSettle`, `ShutdownWaitsForBotsOnly`; `DispatchIsSound`, `CallsAnswered`; `MessagesSurvive` |
| `outbox` (`MCNotificationOutbox`) | `NotificationOutbox`, the daemon's worker and one `notify test` | `OutboxIsSound`, `EndsAreRespected`, `Settles` |
| `daemon_restart`, `watch_shutdown`, `outbox_test`, `registry_reply`, `telemetry_frozen` | one module each | one each, violated: see section 6 |

**What the properties say.** Each is a conjunction of parts that are named and
commented in its module:

* `StoreIsSound`: types, `JournalIsHistory`, `OneWinner`, `VersionIdentifiesRow`,
  `GenerationsEnd`. `ImplementsLifecycle`: `AccountStore` refines
  `AccountLifecycle`.
* `PlansAreSound`: `NoQuotaWinners`, `NoSilentDowngrade`, `QuotaRespected`,
  `WatchAgreesWithPlanner`.
* `SessionsAreSound`: types, `SessionMatchesRow`, `OneRealmPerGeneration`.
  `EndsAreRecorded`: `EndIsRecorded`, `RevocationIsRecorded`,
  `CleanExitMeansStopped`. `FailsClosed`, `OnlyFullIsProtected`,
  `StopCompletes`: losing the grant stops those who need it, nobody else, and a
  stop comes to its end.
* `LoginIsSound`: types, `IdentityScannedTheCode` (who logs in is who confirmed
  the code and whom the face lookup showed), `MachineFollowsFlow`.
  `LoginEnds`: no login polls for ever (`LoginComesToAnEnd`).
* `WatchIsSound`: types, `EventsInOrder`, `ConnectionFollowsTask`. `OwnerHears`:
  every event and the end of the Watch reach the supervisor.
* `ReportsAreSound`: only complete days are reported, marks mean accepted
  reports, and no interval counts twice except after a crash between two
  statements (`torn`). `DaysReported`: complete days get reported.
* `OnlineIsSound`: types, `ContinuityNeverLapses`, `OnlineThroughGates`;
  `EveryDelayBounded`; `HeartbeatIsSent`: a due heartbeat is sent although
  delayed syncs, actions and pushes compete with it, in a session whose traffic lets
  the sleep elapse again and again. Under traffic that never does, nothing is
  promised.
* `RegistryIsSound`: types, `LookupsAreUnambiguous` (a lookup by a correlation whose
  fields are accepted finds one row or none; one whose fields are refused does end the
  session, see section 6), `RepliesStayInConversation`. `IdsKeepTheirMeaning`: while a row is retained its
  number means that message.
* `AnnouncementsAreSound`: `FlagsNameTheirAsker` (approving a flag admits whom the
  push named), `ClientsCanTell` (different notices have different OneBot forms).
  `EventsSettle`: the queue empties.
* `SyncIsSound`: `MarksCoverCursors`, `BoundsHold`, `CursorsOnlyAdvance`.
* `PushesAreSound`: `DecodersAgree` (a push is what the one decoder that claims it
  makes of it) and `QueueIsCounted`.
* `MessagesSurvive`: `ReadsAsWritten` (what a bot writes is what its readers are
  shown), `AcceptedIsReadable` (what the encoder accepts decodes without an error, unless
  it holds a NUL or is larger than a reader takes),
  `SentOnUnchanged` (what is shown and sent on is shown again as it was).
* `ActionsAreSound`: types, `RejectionsAreClean`, `ActsOnce`,
  `FilesBeforeMessage`, `TokenMatchesCookie`.
* `UploadsAreSound`: types, `DoneMeansWhole`, `BlocksInOrder`,
  `FailedSessionIsDropped`.
* `WorkEnds`: each request of a bot is answered (`AnswersCome`), and each upload ends
  (`UploadEnds`).
* `DeliversInOrder`: each direction of `SecureChannel` refines `OrderedChannel`.
* `ClientIsSound`: `AnswersReachTheirCaller`, `CountersAgree`, `FlowsEndClean`.
  `CallersHear`: no account waits for the worker for ever.
* `SessionIsSound`: types, `FramesStayWhole`, `AnswersMatch`, `NothingForgotten`,
  `NoDuplicateInWindow`, `OnlyDirectReadsOvertake`. `QueueDrains`: what an
  exchange put aside is handled.
* `BotsAreTold`: `GapsAnnounced`, `RegistryIsCurrent` (calls are routed for the
  accounts the coordinator knows and nobody else; while it runs and has missed
  nothing, it knows every account that is logged in and none whose end was stored,
  but for what still waits in the hub). `RoutesSettle`: what waits there is taken in
  the end, so that routing catches up with the accounts unless the coordinator has
  ended, however slow the bots are. `DispatchIsSound`:
  `LaneKeepsOrder`, `RateLimitedAlone`, `ExecutedOnce` (no call is before two actors
  or twice before one). `CallsAnswered`: every caller hears.
  `ShutdownWaitsForBotsOnly`: at shutdown nothing of the adapter goes on but what
  a bot keeps open (a stream, a request, a handshake, a write that it does not read).
* `OutboxIsSound`: types, `CooldownHolds`, `OnlyStorageEndsWorker`. `EndsAreRespected`:
  `TerminalIsFinal`, `NotSweptAfterEnd`, `OncePerRun`. `Settles`: deliveries reach an
  end. The cooldown is one of deliveries that are inserted: how often such a delivery
  is sent is another matter, for an acceptance whose record is lost is sent again. The
  event of `notify test` has a key of its own, so that the run has no cooldown across
  processes; that is what `OutboxIsSoundCorrect` is for, whose workers and events
  are any. A worker reads nothing again between the snapshot of a sweep
  and a send: a delivery that another process has recorded meanwhile is sent once
  more. `NotSweptAfterEnd` says that this is the only way.

**Why the bounds are enough.** Two writers are what one WHERE clause has to
separate, and the proofs of section 5 are for any number of them. `MaxStored` 2
is the smallest limit at which a generation starts, ends, starts again and then
fails to be stored; a time above it, which the part `clock` has, fails likewise.
Three accounts and quotas up to three make a quota short by two, short by one,
exact and generous. Two accounts are what `AccountDaemon` needs to have one that
ends while the other goes on, one on the grant and one beside it; two runs are
what a realm needs to change, three what a row needs to be recovered twice. The
queue of an actor never holds more than two commands, because a task waits for
each of its own (`TypeOK` checks it). Two places and five events make the Watch
wait for room, drain and wait again. Three days of two hours have a day that is
over, one that is over while its report is under way, and the current one. In the
outbox, one destination, two events of one key (one of them a recovery, which no
cooldown suppresses), lifetimes that allow one attempt and two, and two
deliveries make a sweep of more than one delivery, a retry, an abandonment and a
suppressed event; the clock runs far enough for each of them (`Early`).

Four numbers and three rows make the probing of `MessageRegistry` wrap and run
into a row, and a row go while its number is taken again; its messages are two
that two groups number alike, a friend's whose correlation is incomplete, an own
one, a reply and one of which a field is zero. Three places and six bytes let a recall of two fit by number and
not by size. Two events are what one needs to be behind another whose lookup
fails. In `QqSession` the queue holds two and an exchange reads three frames, so
that a queue fills within one exchange and across two; two messages and a window
of one let a message come back within the window and after it. `MessageLimit` 2
has a first message, a last and one too many; requests and bodies differ so that
a swapped header shows. Two requests in `AccountActions` are one that leaves a
cache and one that finds it. Blocks of two and files up to five have a last block
that is short and one that is not, and the endpoint lists are none, an unusable
one, one, and more than are kept.

**Bounds that the models add** are named where they are used: `MaxTime`,
`MaxBoots`, `MaxRequests`, `MaxQuota`, `MaxCursor`, `MaxNow`, `MaxRuns`,
`MaxDeliveries` with the guards `Room` and `Early`, `MaxSpent`, `MaxReports`,
`MaxKeys`, `MaxMessages`, `MaxPushes` and `MaxExchanges` of `QqSession`, `MaxLifetime`,
`MaxItems`, `MaxSegments`, `MaxHops`, `MaxSize` of `MediaUpload`. `MaxStored`,
`QueueCapacity`, `Capacity`, `BatchLimit`, `MaxNow` of `OnlineSession`,
`IdLimit`, `MaxMessages` of `MessageRegistry`, `MaxQueued`, `MaxBytes`,
`QueueLimit`, `ReadLimit`, `EventLimit`, `DedupLimit`, `MessageLimit`, `FrameLimit`,
`FlowActions`, `PageLimit`, `MaxEndpoints`, `HubCapacity`, `BusCapacity`,
`LaneCapacity` and `ChannelCapacity` are limits of the code, made small.

**Deadlock** is checked where it can be: `AccountStore` never stops. The other
systems really end (a session is over, a Watch is dropped, the bounded runs of
the daemon or of the workers are used up), and their configurations say
`CHECK_DEADLOCK FALSE`; that they do not end too early is what their liveness
properties say. Symmetry is used in `store_two_processes` only, whose properties
are invariants and whose writers are interchangeable.

## 4. Fairness

A fair specification is used for liveness only, and says what the code's
scheduling justifies:

* `AccountDaemon`: tokio polls every task that can go on, so the observing of a
  directive, the recording of an end and the steps of the actor are weakly fair.
  A `select!` polls its branches in random order, so a branch that is ready again
  and again wins eventually: joins, the restart and Ctrl-C branches are strongly
  fair, because a turn that another branch wins disables them for a moment.
  Nothing is assumed of QQ, Ceylith, the operator or the clock. `Finish` is one
  fair step; that the first thing it does can hang is what `watch_shutdown`
  shows.
* `QrLogin`: the steps of the flow and the clock go on; phones and QQ do what
  they like.
* `OnlineSession`: `SF(Wake)` and `WF(ExchangeEnds)`. The branches of the `select!` are
  polled in random order, so that a sleep that has elapsed again and again wins in the
  end. The sleep is created anew in each turn of the loop, so that it elapses only if
  some turn is quiet for long enough: nothing assumes that, and `HeartbeatIsSent` has
  it as its condition. The exchange of a due action ends because writes and reads
  give up after 15 seconds (`qq-transport/src/config.rs:71`, `tcp.rs`) and an
  exchange after 65 reads.
* `QqSession`: the loop takes the step it is at (`LoopStep`), for the same
  reasons. Nothing is assumed of QQ: answers may never come.
* `EventResolution`: lookups end, with an answer or without. `AccountActions` and
  `MediaUpload`: every exchange, upload and web request has a timeout, so that the
  request in progress goes on (`Work`, `UploadProgress`), with whatever outcome.
* `InstallationClient`: the worker and each account's task run when they can;
  Ceylith may be silent, because a read of the worker gives up (`tcp.rs`,
  `IO_TIMEOUT`).
* `InstallationWatch`: every poll is answered or fails, since a read gives up after
  30 seconds (`tcp.rs`, `IO_TIMEOUT`);
  the task and its owner run when they can, the stop branch wins eventually.
* `NotificationOutbox`: an adapter gives up after 15 or 20 seconds and the
  interval ticks every 30, so that the worker's steps and the clock are weakly
  fair. Nothing is assumed of what destinations answer.
* `CommunityTelemetry`: the worker goes on, its interval wins the `select!`
  eventually (strong fairness of `Flush`), and, for `DaysReported` only, Ceylith
  does not refuse or lose every answer for ever.
* `OneBotDispatch`: whoever waits for the mutex gets it, and the lane and the
  executors run. `OneBotEvents`: the coordinator, the server and connections go
  on, for reporters have timeouts and calls are answered, and the shutdown branch of
  a `select!` wins eventually. Nothing is assumed of bots: they may never read what
  is written to them, never finish a request or a handshake and never leave.

## 5. The proofs

TLAPS checks them for every value of the constants that satisfies the named
assumptions of the modules (`MaxStoredAssumption`, `PlanAssumption`,
`InstallationAssumption`, `WatchAssumption`, `PolicyAssumption`,
`ClientAssumption`, `RegistryAssumption`, `GroupsAreNumbered`, `EventAssumption`,
`DispatchAssumption`, `UploadAssumption`, `ResolutionAssumption`,
`ActionAssumption`, `TelemetryAssumption`, `SessionAssumption`, `SyncAssumption`,
`PushAssumption`, `SegmentAssumption`, ...), each of which TLC evaluates in a run. They say what the code has checked
before the modelled part begins: that limits are not zero, that an installation
lists an account once, that no worker has two adapters for one destination
(`NotificationRuntimeConfig::new`), that there are more message numbers than rows
(2^31 - 1 and `MAX_MESSAGES`). Of QQ it is assumed that a group does not number
two messages alike (`GroupsAreNumbered`). Nothing else is assumed; that the sets
whose sizes the quota is compared with are finite is proved from the configuration
being a sequence (`CandidatesFinite`).

| theorem | property | run |
|---|---|---|
| `AccountStoreProofs!StoreSoundCorrect` | `StoreIsSound` | `store_two_processes` |
| `AccountStoreProofs!StoreImplementsLifecycle` | `ImplementsLifecycle` | `store_two_processes` |
| `AccountDaemonProofs!SessionsSoundCorrect` | `SessionsAreSound` | `daemon` |
| `AccountDaemonProofs!EndsRecordedCorrect` | `EndsAreRecorded` | `daemon` |
| `AccountDaemonProofs!FailsClosedCorrect` | `FailsClosed` | `lifecycle` |
| `AccountDaemonProofs!OnlyFullCorrect` | `OnlyFullIsProtected` | `lifecycle` |
| `LinksProofs!PlansSoundCorrect` | `PlansAreSound` | `links` |
| `LifecycleProofs!LoginIsSoundCorrect` | `LoginIsSound` | `lifecycle` |
| `LifecycleProofs!WatchIsSoundCorrect` | `WatchIsSound` | `lifecycle` |
| `OnlineProofs!OnlineSoundCorrect` | `OnlineIsSound` | `online` |
| `OnlineProofs!DelaysCorrect` | `EveryDelayBounded` | `online` |
| `LinksProofs!ChannelRefinement` | `DeliversInOrder` | `links` |
| `LinksProofs!ClientIsSoundCorrect` | `ClientIsSound` | `links` |
| `LinksProofs!SessionIsSoundCorrect` | `SessionIsSound` | `links` |
| `OnlineProofs!RegistryIsSoundCorrect` | `RegistryIsSound` | `online` |
| `OnlineProofs!IdsKeepTheirMeaningCorrect` | `IdsKeepTheirMeaning` | `online` |
| `OnlineProofs!UploadsAreSoundCorrect` | `UploadsAreSound` | `online` |
| `OnlineProofs!AnnouncementsAreSoundCorrect` | `AnnouncementsAreSound` | `online` |
| `OnlineProofs!ActionsAreSoundCorrect` | `ActionsAreSound` | `online` |
| `OnlineProofs!SyncIsSoundCorrect` | `SyncIsSound` | `online` |
| `OnlineProofs!PushesAreSoundCorrect` | `PushesAreSound` | `online` |
| `NotificationOutboxProofs!OutboxIsSoundCorrect` | `OutboxIsSound` | `outbox` |
| `NotificationOutboxProofs!EndsAreRespectedCorrect` | `EndsAreRespected` | `outbox` |
| `OneBotProofs!BotsAreToldCorrect` | `BotsAreTold` | `onebot` |
| `OneBotProofs!DispatchIsSoundCorrect` | `DispatchIsSound` | `onebot` |
| `OneBotProofs!MessagesSurviveCorrect` | `MessagesSurvive` | `onebot` |
| `TelemetryProofs!ReportsAreSoundCorrect` | `ReportsAreSound` | `daemon` |

**`AccountStoreProofs`**: `TypeCorrect`, `JournalCorrect`,
`ReceiptsAreExclusive`, `VersionCorrect`, `ForwardCorrect`, `GenerationsCorrect`,
all of them together as `StoreSoundCorrect`, and the refinement
`StoreImplementsLifecycle`, for any number of processes.
`JournalIsHistory` is not inductive: `Commit` appends a line computed from a
snapshot that was read earlier. The strengthening is `HeldIsRowOrBehind`: what a
writer holds is a legal move from a row whose `Progress` is at most that of the
present row, and if it is equal the row is that very one. Since every legal move
increases `Progress` (`LegalMoveAdvances`) and equal versions have equal progress
(`SameVersionProgress`), a held transition whose version still matches was
computed from the present row, so its line continues the journal; and once the
row has moved on no version below it is ever left again, which
`ReceiptsAreBehind` says and which makes receipts exclusive. `RowStep` derives
from the invariant that every change of the row is one legal, storable move:
that is the refinement and `OnlyForward`. `GenerationsEnd` needs
`JournalStarts` besides (a row beyond generation 0 has a journal).

**`LinksProofs`, the grants**: `NoQuotaWinnersCorrect`, `NoSilentDowngradeCorrect`,
`QuotaRespectedCorrect`, `WatchAgreesWithPlannerCorrect`, and together
`PlansSoundCorrect`, for installations of any size. `PlanGrants` has two ways to succeed; `PublicShape`, `FullShape` and
`FittingPlan` say what the plan is in each, and the properties follow by cases.
`NegotiationTypeCorrect` supplies the types.

**`OnlineProofs`, the schedule**: `OnlineTypeCorrect`, `ContinuityCorrect`,
`GatesCorrect`, `DelaysCorrect`, and `OnlineSoundCorrect` of the first three, for
every signed plan, clock and response. The
invariant adds to `TypeOK` and `ContinuityNeverLapses` which gates have been
passed at which stage and that a deadline exists from `EnterOnline` on; it is
preserved because each completion clears exactly the mark it was started with.

**`LinksProofs`, the channel**: `ChannelRefinement`, the refinement `DeliversInOrder`,
for every message limit and all requests and inner frames, over a wire that keeps
every frame and hands any of them, changed or not, to any end at any time. The
refinement is not inductive: what an end opens next must be what its peer sealed
at that place. The invariant therefore says of the wire that every frame of this
connection was sealed by the end whose key it carries, under the header with its
own counter, and that its plaintext is the item at that place of `sealed`; and of
each end that the counters are the lengths of `sealed` and `opened`, and that
`opened` is a prefix of what the peer sealed. An end opens only under the number
it expects, so the frame is the next item, whatever else is on the wire. That a
ciphertext opens only under its own key, number and header is assumed of the
cipher (module comment).

**`AccountDaemonProofs`**: `SessionsSoundCorrect`, `FailsClosedCorrect`,
`EndsRecordedCorrect` and `OnlyFullCorrect`, for any installation, admission, set of Watch events and clock, and any number of runs.
No property of the daemon is inductive by itself, because a transition is asked
for at one moment and stored at another, and the task may have gone in between.
The invariant says, account by account (`Sound`): how many commands the actor has
at each stage of the task, and that all but the terminal one ask for Active
(`QueueMatchesTask`, `Pending`); which phases the row can have there
(`RowMatchesTask`); what the queued terminal transition is, given the result of
the flow (`EndMatchesResult`); that no generation in `ran` is beyond the row's,
and each has one realm (`RealmsMatch`); what was asked for an account that was
revoked (`RevokedEnds`); that directives and queued commands with a reason of the
grant belong to accounts on the grant (`GrantOnly`); and that a run begins with a
Watch and does not outlive it on the grant (`Closed`). `DaemonMatches` says what
is left between two runs: the rows. Crashes are the reason for the last two: a
crash forgets queues, directives and the plan in one step, and what a row then
says is recovered in the next run. That a command the actor accepts, whoever queued
it and however long ago, leaves a row of the model (`AcceptedIsRow`), and that
recovery asks for a legal move (`RecoveryIsLegal`), are lemmas of their own.

**`LifecycleProofs`, the login**: `LoginIsSoundCorrect`, for any number of users. The account
that is published is checked in three places, each against what the place before
saw: the identity lookup, the confirmation and the credential request. The
invariant carries it from one to the next (`NamedHaveScanned`: whom the lookup
named has scanned this code; `AccountHasScanned`: so has the account from the
confirmation on, unless its number is too wide, which the credential request
refuses) and says at which state of the login machine each step of the flow is
(`MachineAt`), so that no step is refused.

**`LifecycleProofs`, the Watch**: `WatchIsSoundCorrect`, for every capacity and
number of events. That what arrives is 1, 2, 3, ... says nothing of what is under
way. The invariant places each item: those the owner has received, those of the
channel in the order in which they follow, the one in the hands of the task,
which is the one at the cursor, and the error, which is the last item of a task
that has ended. It holds as long as the owner receives; a runtime that is dropped
has lost what was in the channel.

**`NotificationOutboxProofs`**: `OutboxIsSoundCorrect` and `EndsAreRespectedCorrect`, for
any number of workers on one database, any policy, adapters and events.
`InOrderLists` shows that `InOrder` lists each element of a finite set once and
behind those before it, from which follows what a sweep holds: rows that exist,
each once (`DueIsSnapshot`). `CooldownHolds` is preserved because the rows of one
event go to different destinations, and each of them is compared with all rows
there are in the transaction that inserts it (`InsertedIsNew`). `OncePerRun` needs
`SweepFits`: what was accepted and is not recorded is the delivery the worker is
at, and only that, so that no other answer can be for it. `OnlyStorageEndsWorker`
needs `AloneIsSafe`: while no `notify test` has run, everything the daemon's sweep
holds is still pending.

**`LinksProofs`, the worker**: `ClientIsSoundCorrect` and `OneExchangeCorrect`, for
any number of accounts, any capacity of the queue and any limit of the channel.
That an answer reaches the account that asked is not inductive: the answer may
still be on its way, and the worker may end with commands in its queue. The
invariant says where a request is: a command whose caller still waits is the only
one of its account, in the queue or in the hands of the worker (`CallersWait`); at
most one request is on its way, it is the one sealed last, and every answer on the
way back is to an earlier one that Ceylith has opened (`OneInFlight`). Of the flow
it says that an account is one observation ahead of Ceylith from its action at QQ
until Ceylith opens its report, and level with it otherwise (`FlowFits`), from
which `FlowsEndClean` follows.

**`LinksProofs`, the session with QQ**: `SessionIsSoundCorrect`, for queues, windows
and exchanges of any size and any number of pushes and messages. `arrived` and
`admitted` are histories, so that the six parts of the property are statements about
whole runs, and only two of them (types and `AnswersMatch`) are nearly inductive. The
invariant `SessionInv` says of the two halves of a frame, one perhaps in the buffer
and the rest on its way, that together they are whole frames (`Framed`), so that a
dropped read loses nothing; of the event queue that with `done` it is the list of what
was admitted (`EventsAccounted`); and of every message that arrived, where it is. The
order is the hard part (`LedgerInv`). What is admitted or queued has arrived
(`ArrivalsKnown`); messages that came once wait in the order in which they came
(`QueueInOrder`); and a message that was put aside is not admitted while an earlier
one waits (`QueuedFirst`), from which `OnlyDirectReadsOvertake` follows: of two
messages in the wrong order the later one came by a direct read. A push may repeat
messages, so that what of it is admitted is a part of its content: `New` picks the
places that are not in the window (`Picks`), and `RanksList` shows that counting
places lists each of them once and in order. `NoDuplicateInWindow` holds because a
push names a message once and the window is compared with before it.

**`OnlineProofs`, the registry**: `RegistryIsSoundCorrect` and
`IdsKeepTheirMeaningCorrect`, for any messages and conversations, any clock and
any number of rows below that of the identifiers. The invariant adds that a row
holds the correlation of its own message (`RowsAreOfTheirMessage`), and that none is
of a message this account has yet to send (`NothingAhead`): a row of that
correlation would be found again when it is sent.
That a number is free follows from counting: there are fewer rows than numbers
(`NextId` is a `CHOOSE`, which means something only because a free number with the
fewest probes exists), and a finite set has a least element in the order of the
probes. `Kept` prunes by counting newer rows, so that it keeps at most
`MaxMessages` because newness is a strict order.

**`OnlineProofs`, the uploads**: `UploadsAreSoundCorrect`, for files and blocks of
any size and sessions with any endpoints. Nothing in the code compares what was sent
with what the file holds: an upload ends well because a loop over blocks ended. The
invariant says that each file QQ asked for is still to be carried or whole
(`CarriedFits`), that a session in use has not failed and that an endpoint is left to
ask (`SessionFits`), and with `BlocksInOrder` the next block continues what QQ has
(`PieceCovers`). `BlocksCarryAll` is the arithmetic of a division that rounds up;
`EndpointsBounded` bounds what is kept of a session answer by the place of the last
endpoint that is kept.

**`OnlineProofs`, the announcements**: `AnnouncementsAreSoundCorrect`, for any UIDs,
members and requests. A request is looked up in a list that QQ sends some time after
the push, and is published two answers later, while others join that list and some are
answered. The invariant (`LookupIsTrue`) says that the record found still is one of
the kind, asker and inviter that the push named. A self invitation is compared by
its inviter alone, so that what QQ keeps of it has to be said too (`OnRecord`: its
asker is this account). `ShapesTellKinds` compares all pairs of kinds.

**`OnlineProofs`, the actions**: `ActionsAreSoundCorrect`, for messages of any length,
any number of pages, requests and keys, and every failure. What the property forbids is
a matter of order within a handler, and handlers are many, so that the proof has two
halves. The first looks at the programs as they are received: a lemma for each table
(`SimplePlain`, `ControlsPlain`, `RetainedPlain`, `SendsPlain`, `WebFits`, ...) shows
that behind the effect of a handler come only stages whose failure is one of QQ, never
a rejection and never another effect (`Ordered`), and that before a signed request of
the web cookies are taken, and a token before them (`TicketsCome`). `CompiledQuiet`
says it of the segments of a message, which are unfolded one by one. The second says
that every step leaves a rest of which the same holds (`ActionsInv`): the uploads at
the head are the files that are missing (`UploadsFirst`), a request that has still to
act has the stage for it ahead, and a token is the skey that is kept, unless that has
expired since. `TicketRest` and `SkeyTaken` are the reason for `TokenMatchesCookie`: if
the kept skey is not there any more when cookies are taken, it has lapsed.

**`OnlineProofs`, the synchronization**: `SyncIsSoundCorrect`, for any groups and
peers, any limits and any number of pushes: the marks and the bounds as invariants
and that nothing goes back as an action property, from one invariant (`SyncInv`). A
mark is one number and the times it stands for are spread over a map that grows, and
each push changes both in loops of their own. `GroupMarkFollows` shows that they
agree: what is newest among the mark and the push is newest among the cursors, for
each time of the push is in the cursor of its group, no cursor holds anything newer,
and a cursor that held the mark still does. That needs what a push can say
(`PacketsFit`: every item of a list has a key, and finitely many have). `RoomIsKept`
is the reason why keys that are named twice, in nodes and in notifications, do not
take a map above its limit: the check counts those that are new, each once. That a
push delivers what was counted rests on the two walks counting the same messages, and
that no later synchronization says "first" on the stages before it (`FirstIsAsked`).

**`OnlineProofs`, the pushes**: `PushesAreSoundCorrect`, for any limits of the queue
and of a notice, batches of any number of messages and any number of pushes. What the
queue is counted as is a sum over a sequence, written as a recursive function. The
library's induction theorems cannot be instantiated here, so that `Inductive` derives
induction over a *set* of numbers from the least counterexample; `CountExists`,
`CountsAgree` and `BytesAreCounted` show that the sum exists and is one, and
`AppendIsCounted`, `TailIsCounted` and `RepeatsAreCounted` what the queue's operations
do to it. A notice of recalls is counted as its length times their number before it
is known that they become so many events, and each is counted out alone.
`AdmitAllKeeps` is the same induction over the messages of a batch: only recalls
look at the room, and fill the queue at most, while each other message adds one
event, so that after *n* messages it holds at most `MaxQueued + n - 1`. `ClaimsAreOne`
names the one decoder that may claim an envelope (`Claimer`), whatever its contents;
`SoundPushesDecode` compares decoders and types case by case.

**`OneBotProofs`, the events**: `BotsAreToldCorrect`, for any number of accounts, any capacity
of the hub and of the bus. Between the end of an account and the coordinator lies
a hub that drops events, so that an account may be registered that has long ended.
The invariant says what an event in the hub tells of its account (`EventFits`): an
account that is announced has logged in and has a number, and if it has ended
since, either its end is in the hub behind the announcement or the gap is marked;
an event of its end is true. What the coordinator takes for online has logged in,
and it removes only what it has registered. `RegistryIsCurrent` follows, because
the coordinator reads the hub in order and ends at a marked gap. Its two directions
are one invariant (`KnowsRightly`): an account that logs in is announced in the same
step, and the announcement waits in the hub until the coordinator takes it and knows
the account; an end that is stored waits there likewise until the account is removed.
That the waiting ends is `RoutesSettle`, which is liveness and left to TLC.

**`OneBotProofs`, the calls**: `DispatchIsSoundCorrect`, for any number of accounts
and calls and any capacity of the lane and the channels. What becomes of a call is
spread over five queues that change at different steps, and a caller may leave at any
of them. The invariant places each call: its stage and its account name the one queue
it is in, and it is there once (`PlacesFit`, `LaneFits`, `WaitingFits`). The holder of
the mutex is the head of the callers that wait for it: a rate-limited call that has
passed the mutex and whose caller has not left is that head (`HolderFits`), so that
there is one such call. A call whose caller has left is executed beside it, which is
why `RateLimitedAlone` speaks of callers that wait.

**`OneBotProofs`, the messages**: `MessagesSurviveCorrect`, for messages of any length
that are sent on any number of times. The wire has no segments, only elements: a
segment becomes one or two of them, and a reader takes each for itself. The proof has
three parts. The first is about lists: `FlatTraced` says that each element of the
joined list comes from one of the lists that were joined, in their order, so that the
function that `ReadsAs` asks for exists. The library's flattening is a recursive
function, and as for the queue of pushes induction is drawn from a least
counterexample (`FromOne`). The second is the table of all writers against all readers:
`AcceptedShown` says of each kind of segment that was accepted and is `Readable` what
its elements are read as (`Fate`): as the same segment, as two files of one kind where
old clients are served too, or as a reply and, in a group, the mention that goes with
it. None of them fails to decode; a message with one that is not `Readable` is lost as
a whole. The third is the way of a message (`MessageInv`): what is on the wire
is the join of what accepted segments were compiled to, unless it is of another client
(`OnTheWire`), and what is sent on is what was read (`Kept`). `SentOnUnchanged` also
asks that the number of segments stays the same, and a reply in a group is two: it
holds because whoever is shown a reply in a group is shown a mention by uid too
(`Mentioned`), which no bot may write, so that such a message is refused
(`NoReplyAgain`); a file that was shown is named by QQ's `uuid`, with which no file
can be sent, so that no file becomes two on the way.

**`TelemetryProofs`**: `ReportsAreSoundCorrect`, for any accounts and any length of
a day. That no moment is counted twice is a statement about arithmetic as much as
about the order of steps: `OverlapAdds` shows that each day's part of an interval
splits at any moment, wherever the midnights are. The invariant says that what has
been counted of a day lies before `Until`, the beginning of the interval that is
open or else the time of the last statement, that neither lies ahead of the clock,
and that an interval opens no later than the last statement (`StateFits`). A
checkpoint, a leave and a restart count up to a time and move `Until` there; a
crash between the two statements, wherever the code has such a pair, moves only one
of them, which is what `torn` says. A day is followed from the moment it is obtained, when it is over
(`FirstDay`, `DayMonotone`), until it is marked, when Ceylith has accepted it.

**Only model-checked** is liveness: `StopCompletes`, `LoginEnds`, `OwnerHears`,
`DaysReported`, `HeartbeatIsSent`, `EventsSettle`, `WorkEnds`, `CallersHear`,
`QueueDrains`, `RoutesSettle`, `ShutdownWaitsForBotsOnly`, `CallsAnswered` and `Settles`. TLAPS has no
rules for fairness and `ENABLED` that could be used here. Each invariant and each
action property of the passing runs is stated by a theorem.

## 6. What the models show

Five statements of the code's documents do not hold, and a run shows each:

* `daemon_restart` - a restart request that is answered "OK" between two
  `select!` of the supervisor is never acted upon. The restart branch has the
  guard `if !*restart.borrow()`, which is false from then on; further requests
  are refused because the value is already set. The account goes on, the restart
  does not happen.
* `watch_shutdown` - `shutdown()` of the Watch waits for a task that may be
  waiting for room in a channel that nobody reads any more. The task looks at the
  stop signal while it polls and while it pauses, and not while it sends.
* `outbox_test` - `notify test` next to a running daemon sweeps the daemon's
  deliveries too. Whoever records one second gets `NotFound`, and an error in a
  sweep ends the worker for good: the daemon drops every later notification.
* `registry_reply` - README.md:25 says that an inbound reply that cannot be looked
  up uniquely is marked as unsupported. `find_quote` answers an ambiguous key with
  an error, which `retain_decoded` and `publish_message` pass on: the session
  ends. Two rows have one key when QQ delivers a private message with incomplete
  correlation twice, for each delivery is retained under a new number.
* `telemetry_frozen` - `community-telemetry/src/lib.rs:3-4` says that callers can
  obtain only frozen buckets of a completed day. An accepted message carries the
  time it was accepted at; if it waits in the worker's queue over midnight while
  the flush obtains the day, it is counted on that day afterwards. A report that
  is sent again because its answer was lost then has the same identifier and
  other contents.

Some observations are in the models as steps, without a property of their own,
because no document says otherwise:

* A terminal transition that is refused (the clock stepped back behind the row)
  leaves `Starting` or `Active` in the row until the next open; the task returns
  an error (`EndIsRecorded` allows exactly this).
* A graceful stop that arrives after a revocation and before the task reads its
  directive a second time turns `ProtectiveOffline` into `Stopped`; so does a
  Ctrl-C that ended the online loop first. `RevocationIsRecorded` is stated
  accordingly.
* Ctrl-C in the pause between two polls of the QR code is an error of the flow:
  the account is recorded `ProtectiveOffline` with the reason `WorkerFailure`
  unless the supervisor's graceful directive arrives first.
* The reason `RemoteSessionEnded` is never written: a session that QQ ends is
  recorded as `WorkerFailure`.
* `due` does not look at the end of a delivery's lifetime: after a long downtime
  a delivery is tried once more, however late.
* `notify test` repeated within the cooldown finds its event suppressed and
  reports a failure.

Sessions with QQ:

* A private message whose random or time QQ leaves out ends the session: the decoder
  fills the field with zero (`decoder.rs:85-86`), `private_inbound`
  (`message_registry.rs:248`) passes it on, and the lookup refuses it with an error that
  `publish_message` passes on. In the model `sessionEnd` is then `Refused`. A field
  that `private_inbound` itself looks at makes the message one without a correlation
  instead.
* A push that an exchange put aside is handled after one that the `select!` read
  directly, if that read wins (`OnlyDirectReadsOvertake` allows exactly this). The
  return code of a push put aside is never looked at, that of one read directly
  ends the session. The 65th push of one exchange is dropped without a word.
* Errors of an action's exchange are answered to the bot and the session goes on:
  its late answer ends the next exchange, or the session.
* A departed member's UID is looked up in the list of those who are still there:
  the notice of a leave or a kick may be dropped. A recall without an operator or
  of a message that is not retained is dropped. Two requests of one asker are both
  announced with the flag of the newest.
* A grey tip 732/20 or 528/290 of a business type other than 12, or a 525 of a
  command other than 87, is an error and ends the session; a 732/16 that does not
  parse becomes a message, but an unframed 732/21, 20, 12 or 17 is an error. The
  room of the queue is asked for each message of a synchronization push before any
  of it is queued, while one recall may become 32 events
  (`qq-online/src/push/mod.rs:36` speaks of never exceeding the capacity).
* In the synchronization, a start sequence of 0 means "not set", so that it can
  rise again; message pushes do not advance the marks, so that only the window of
  duplicates keeps a synchronization from repeating them; an answer with another
  `response_random` is a warning.
* An account's second and later reads of one picture or video with compatibility
  material give two segments; a group reply adds a mention that a bot cannot send
  on; a card with a map is read as a location and sent on as one; keyboards and
  XML of services other than 35 and 1 cannot be read.
* A text with a NUL and elements of more than 256 KiB are accepted by the encoder
  (`outbound.rs:371`, `427-450`) and refused by the decoder (`decode.rs:30-36`,
  `134-141`), which then refuses the whole message: a bot's message with one of them
  can be sent and not be read by another Lirvena. `Readable` names the two.
* Traffic that never leaves a millisecond of quiet begins the sleep of the loop anew
  each turn (`runtime.rs:190`): a heartbeat that is due is then not sent.

Actions and uploads:

* An action that is answered with a failure may have happened: QQ acted and its
  answer was lost, or the message was sent and could not be retained. Nothing is
  repeated (`ActsOnce`).
* The answer to a block is not compared with the block's sequence and offset
  (`qq-highway/src/frame.rs`, "Correlated result of one QQ upload block"), nor is
  the return code of its segment; a block whose answer was lost is sent again, to
  the next endpoint, and each block starts over with the first endpoint. The
  limit of 32 endpoints applies before the preferred ones are sorted to the front.
* AI voices poll within the action, so that a heartbeat that is due waits for them.

Ceylith:

* An error of encoding one account's request ends the worker of all
  (`installation.rs:122-123` speaks of carrier and session failures). A flow whose
  eighth action Ceylith takes for its last is refused all the same, because the
  bound is looked at first (`action_runtime.rs:84-111`). An empty answer of QQ
  cannot be reported and fails the flow.
* Sealing at the message limit closes both directions; an inner frame that cannot
  be read uses up its number before the session closes; a message that is too
  large does not close it.

Bots:

* A caller of a rate-limited action that disconnects gives back the mutex while
  its action still runs. A later operation of a quick reply may fail after earlier
  ones were done.
* A coordinator that lags behind the hub ends, and bots get no more events until
  the daemon is restarted. An account whose end cannot be stored stays registered,
  and heartbeats say it is online. At shutdown the last lifecycle events may not
  reach bots, because the `select!` may see the shutdown first.
* An open SSE stream, and an HTTP request that its client never finishes or whose
  answer it does not read, keep the forward server, and with it the daemon, from ending
  (`forward.rs` "Serves until graceful shutdown resolves"); a reverse handshake has
  no timeout and does not watch the shutdown, and neither does a write to a peer that
  stops reading. A peer that closes in order is dialled
  again at once, without the delay.

Login and telemetry:

* The identity is looked up before the poll, so that a phone that scans and
  confirms between the two ends the login as an identity mismatch. If the lookup
  shows nobody and QQ confirms a number wider than 32 bits, the comparison holds
  (nobody equals nobody) and only the credential request refuses it. Two accounts
  of one installation may log in as the same QQ user.
* A crash between the two statements of a checkpoint, of the last leave, of a shutdown
  or of an opening counts an interval twice, and
  an interval that is open when the daemon starts counts the time it was down. A
  lifecycle event older than the last checkpoint is refused after the set in
  memory has changed.

## 7. What is not modelled

Cryptography and formatting: the cipher, the byte layout of frames, the encoders
and decoders of QQ packets that have no state and decide no step, configuration
parsing, the texts of messages and notifications. What they contribute to the
models (is a grant valid, does a response have a delay, does an envelope parse)
is an input. HTTP, SMTP and TCP are external, with success and failure as inputs.
Panics are modelled in the Watch task, whose end they are; a panic of an account
task, which leaves `Active` in the row until the next open recovers it, is not.
`AccountDaemon` treats the stages of the login as one, and start-up of telemetry,
OneBot and notifications as one step that may fail. The fence that compares
generation numbers in `machine.rs` is left out of `OnlineSession`, because a
runtime owns one machine and one generation. Real time is left out: deadlines are
compared with a clock, and how late a step comes is not said. The clock of
`CommunityTelemetry` does not go back. `MessageSegments` leaves out forwards within
forwards and the limits of the encoder that are tighter than those of the decoder. The account components are
checked one by one: what one of them needs of another is an input that takes every
value (an action may find any row retained, `SessionFails` may happen any time).

## 8. The plan

The order is by what the system exists for: first the durable lifecycle, then
the daemon that drives it, then what keeps an account online, then what carries
messages.

1. *Done* - all modules of section 2, with proofs of `AccountStore`,
   `AccountDaemon`, `GrantNegotiation`, `QrLogin`, `OnlineSession`, `SecureChannel`,
   `InstallationWatch`, `NotificationOutbox`, `InstallationClient`,
   `MessageRegistry`, `MediaUpload`, `EventResolution`, `OneBotEvents`,
   `OneBotDispatch`, `QqSession`, `AccountActions`, `OnlineSync`, `PushEvents`,
   `CommunityTelemetry` and `MessageSegments`.
2. `QqSession` composed with `OnlineSession`, whose `SessionFails` it explains,
   and `InstallationClient` over `SecureChannel` instead of over frames.
