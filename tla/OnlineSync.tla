------------------------------ MODULE OnlineSync ------------------------------
(***************************************************************************)
(* What one online generation remembers of its synchronization with QQ:     *)
(* `PacketRuntime.state`, copied into every synchronization, registration   *)
(* and heartbeat it sends, and `InfoSyncPushState`, which the               *)
(* synchronization pushes fill.  Pushes that arrive during an exchange wait *)
(* for its end, so an exchange is one step here.                            *)
(*                                                                          *)
(* A cursor's four sequence numbers that only advance are one, and so are   *)
(* the two message times of a node; fields that are overwritten or only     *)
(* reported are left out.                                                   *)
(***************************************************************************)
EXTENDS Naturals, Sequences, FiniteSets, FiniteSetsExt, SequencesExt

CONSTANTS Group, Wide,   \* group codes, and those that do not fit u32
          Peer,          \* peers of direct messages
          NoKey,         \* an absent key
          LastTime,      \* bound: timestamps
          CursorLimit,   \* MAX_PERSISTENT_CURSORS
          MaxEmbedded,   \* MAX_EMBEDDED_MESSAGE_LEN
          MaxItems       \* bound: items of one push

VARIABLES syncStage,  \* where the generation is: the gates, then "On", or "Over"
          sync,       \* PacketRuntime.state
          cursors,    \* group_cursors: sequence, message time, notification time
          directs,    \* direct_cursors: time
          recents,    \* recent_groups and recent peers: time
          asked,      \* history: the last synchronization request
          delivered   \* history: the last push accepted, [sizes, slots, bytes]

syncVars == <<syncStage, sync, cursors, directs, recents, asked, delivered>>

SyncTime == 0 .. LastTime

ASSUME SyncAssumption ==
    /\ {LastTime, CursorLimit, MaxEmbedded, MaxItems} \subseteq Nat \ {0}
    /\ Wide \subseteq Group /\ NoKey \notin Group \union Peer

-----------------------------------------------------------------------------
(* Exchanges *)

NoRequest == [first |-> FALSE, group |-> 0, direct |-> 0]

SyncInit ==
    /\ syncStage = "Sync"
    /\ sync = [first |-> TRUE, group |-> 0, direct |-> 0, previous |-> 0,
                last |-> NoKey, silence |-> 0]
    /\ cursors = <<>> /\ directs = <<>> /\ recents = <<>>
    /\ asked = NoRequest
    /\ delivered = [sizes |-> <<>>, slots |-> 0, bytes |-> 0]

SyncEnds == syncStage' = "Over" /\ UNCHANGED <<sync, cursors, directs, recents, delivered>>

\* `apply_silence`: what the answer carries, if anything.
Silenced(answer) == IF answer.silence = NoKey THEN sync.silence ELSE answer.silence

\* `synchronize`: the marks of this moment are sent; an answer without success
\* ends the generation, a different correlation is only a warning.
Registered(answer) == FALSE

Synchronize(answer) ==
    /\ syncStage \in {"Sync", "On"}
    /\ asked' = [first |-> sync.first, group |-> sync.group, direct |-> sync.previous]
    /\ IF ~answer.success THEN SyncEnds
       ELSE /\ sync' = [sync EXCEPT !.silence = Silenced(answer), !.first = Registered(answer)]
            /\ syncStage' = IF syncStage = "Sync" THEN "Confirm" ELSE syncStage
            /\ UNCHANGED <<cursors, directs, recents, delivered>>

\* `confirm_status`, or a profile without it; then the pushes are drained.
ConfirmStatus(answer) ==
    /\ syncStage = "Confirm"
    /\ IF ~answer.success THEN SyncEnds
       ELSE /\ sync' = [sync EXCEPT !.silence = Silenced(answer)]
            /\ syncStage' = "On"
            /\ UNCHANGED <<cursors, directs, recents, delivered>>
    /\ UNCHANGED asked

WithoutConfirmation ==
    /\ syncStage = "Confirm"
    /\ syncStage' = "On"
    /\ UNCHANGED <<sync, cursors, directs, recents, asked, delivered>>

-----------------------------------------------------------------------------
(* A synchronization push: nodes, notifications, recent activity *)

Keys(items) == {item.key : item \in Range(items)} \ {NoKey}

\* `validate_persistent_capacity`: keys that are new, each once.
NewKeys(map, first, second) == Cardinality((Keys(first) \union Keys(second)) \ DOMAIN map)

HasRoom(map, first, second) == Cardinality(DOMAIN map) + NewKeys(map, first, second) <= CursorLimit

\* `message_counts` and the filter of `take_messages`: group messages first.
Counted(size) == size \in 1 .. MaxEmbedded
Taken(size) == size \in 1 .. MaxEmbedded

SizesIn(items) == FlattenSeq([i \in DOMAIN items |-> items[i].sizes])
Embedded(packet) == SizesIn(packet.notifications) \o SizesIn(packet.peers)
Total(sizes) == FoldLeft(LAMBDA n, size : n + size, 0, sizes)

\* `validate_packet`.
Accepts(packet, slots, bytes) ==
    LET counted == SelectSeq(Embedded(packet), Counted) IN
    /\ packet.sound
    /\ HasRoom(cursors, packet.nodes, packet.notifications)
    /\ HasRoom(directs, packet.peers, <<>>)
    /\ HasRoom(recents, packet.recents, <<>>)
    /\ Len(counted) <= slots /\ Total(counted) <= bytes

ValueAt(map, key, default) == IF key \in DOMAIN map THEN map[key] ELSE default
NewCursor == [sequence |-> 0, message |-> 0, spoke |-> 0]

Of(items, key) == {item \in Range(items) : item.key = key}
TimesOf(items) == {item.time : item \in items}

\* Whatever is merged one by one in any order, the largest value is kept.
Newest(old, values) == Max({old} \union values)

\* `merge_max`.
Merged(map, items) ==
    [k \in DOMAIN map \union Keys(items) |->
        Newest(ValueAt(map, k, 0), TimesOf(Of(items, k)))]

\* Broken variant: the sequence numbers of the newest push count.
AdvancedByPush(old, nodes, notifications) ==
    [sequence |-> IF nodes = {} THEN old.sequence ELSE Max({node.sequence : node \in nodes}),
     message  |-> Newest(old.message, TimesOf(nodes)),
     spoke    |-> Newest(old.spoke, TimesOf(notifications))]

\* `merge_node` and `merge_notification`, for what a push says of one group.
Advanced(old, nodes, notifications) ==
    [sequence |-> Newest(old.sequence, {node.sequence : node \in nodes}),
     message  |-> Newest(old.message, TimesOf(nodes)),
     spoke    |-> Newest(old.spoke, TimesOf(notifications))]

CursorsAfter(packet) ==
    [g \in DOMAIN cursors \union Keys(packet.nodes) \union Keys(packet.notifications) |->
        Advanced(ValueAt(cursors, g, NewCursor), Of(packet.nodes, g), Of(packet.notifications, g))]

\* The group of the latest node of this push, unless its code is too wide; the
\* first of several.
LastGroup(nodes) ==
    LET latest == Newest(0, TimesOf(Range(nodes)))
        newest == {i \in DOMAIN nodes : nodes[i].time = latest}
    IN  IF nodes = <<>> \/ nodes[Min(newest)].key \in Wide THEN sync.last
        ELSE nodes[Min(newest)].key

\* The times of nodes and of notifications both advance the mark of groups.
GroupMark(packet) ==
    Newest(sync.group, TimesOf(Range(packet.nodes)) \union TimesOf(Range(packet.notifications)))

DirectMark(old, packet) == Newest(old, TimesOf(Range(packet.peers)))

Marked(packet) ==
    [sync EXCEPT !.group = GroupMark(packet),
                 !.direct = DirectMark(@, packet),
                 !.previous = DirectMark(@, packet),
                 !.last = LastGroup(packet.nodes)]

\* `InfoSyncPushState::apply`: all of a push or nothing, and the end.
Push(packet, slots, bytes) ==
    /\ syncStage = "On"
    /\ IF ~Accepts(packet, slots, bytes) THEN SyncEnds
       ELSE /\ cursors' = CursorsAfter(packet)
            /\ directs' = Merged(directs, packet.peers)
            /\ recents' = Merged(recents, packet.recents)
            /\ sync' = Marked(packet)
            /\ delivered' = [sizes |-> SelectSeq(Embedded(packet), Taken),
                             slots |-> slots, bytes |-> bytes]
            /\ UNCHANGED syncStage
    /\ UNCHANGED asked

-----------------------------------------------------------------------------
(* Pushes and answers QQ may send *)

EmbeddedSizes == {<<>>, <<0>>, <<1>>, <<MaxEmbedded + 1>>}
Nodes == [key : Group, sequence : 0 .. 1, time : SyncTime]
Peers == [key : Peer, time : SyncTime, sizes : EmbeddedSizes]
Recents == [key : Peer \union {NoKey}, time : SyncTime]

UpTo(n, S) == UNION {[1 .. k -> S] : k \in 0 .. n}

Packet(nodes, notifications, peers, recent, sound) ==
    [nodes |-> nodes, notifications |-> notifications, peers |-> peers, recents |-> recent,
     sound |-> sound]

Packets ==
    {Packet(n, <<>>, <<>>, <<>>, TRUE) : n \in UpTo(MaxItems, Nodes)}
    \union (UNION {{Packet(<<n>>, <<i>>, <<>>, <<>>, TRUE) :
                       i \in [key : Group, time : SyncTime, sizes : {<<>>}]} : n \in Nodes})
    \union (UNION {{Packet(<<>>, <<i>>, <<p>>, <<>>, TRUE) :
                       i \in [key : Group, time : {LastTime}, sizes : EmbeddedSizes]} :
                    p \in Peers})
    \union {Packet(<<>>, <<>>, p, <<>>, TRUE) : p \in UpTo(1, Peers)}
    \union {Packet(<<>>, <<>>, <<>>, r, TRUE) : r \in UpTo(MaxItems, Recents)}
    \union {Packet(<<n>>, <<>>, <<>>, <<>>, FALSE) : n \in Nodes}

Answers == [success : BOOLEAN, silence : {NoKey, 0, 1}]

SyncNext ==
    \/ \E answer \in Answers : Synchronize(answer) \/ ConfirmStatus(answer)
    \/ WithoutConfirmation
    \/ \E packet \in Packets, slots \in 0 .. 1 : Push(packet, slots, slots * MaxEmbedded)

SyncSpec == SyncInit /\ [][SyncNext]_syncVars

-----------------------------------------------------------------------------
(* Properties *)

Entries(map) == {map[k] : k \in DOMAIN map}

\* The marks a later synchronization asks from are the newest of all times the
\* cursors hold, of either kind: QQ is not asked to repeat what it has already
\* synchronized (apply.rs:99, 123, 137).
MarksCoverCursors ==
    /\ sync.group = Max({0} \union UNION {{c.message, c.spoke} : c \in Entries(cursors)})
    /\ sync.previous = Max({0} \union Entries(directs)) /\ sync.direct = sync.previous

\* However long the generation lasts and whatever the pushes name, its maps
\* stay within their limits (validate.rs:75), and a push delivers no more than
\* the queue was asked for, although counting and taking are two walks over
\* it (validate.rs:148, apply.rs:167).
BoundsHold ==
    /\ \A map \in {cursors, directs, recents} : Cardinality(DOMAIN map) <= CursorLimit
    /\ Len(delivered.sizes) <= delivered.slots /\ Total(delivered.sizes) <= delivered.bytes

\* Pushes arrive in any order and repeat: no cursor, no mark and no recent
\* activity ever goes back, and a synchronization never says "first" again
\* after one (state.rs:168, apply.rs:186, packets.rs:130).
Advances(old, new) ==
    \A k \in DOMAIN old :
        k \in DOMAIN new /\ new[k] >= old[k]

NeverGoesBack ==
    /\ \A g \in DOMAIN cursors :
          /\ g \in DOMAIN cursors'
          /\ \A f \in DOMAIN NewCursor : cursors'[g][f] >= cursors[g][f]
    /\ Advances(directs, directs') /\ Advances(recents, recents')
    /\ \A f \in {"group", "direct", "previous"} : sync'[f] >= sync[f]
    /\ asked # NoRequest /\ asked' # asked => ~asked'.first

CursorsOnlyAdvance == [][NeverGoesBack]_syncVars

\* Cursors and marks together, over steps and states.
SyncIsSound == []MarksCoverCursors /\ []BoundsHold /\ CursorsOnlyAdvance
=============================================================================
