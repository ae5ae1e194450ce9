------------------------------ MODULE RoomMaps ------------------------------
(***************************************************************************)
(* The persistent room -> channel mapping of one Matrix account            *)
(* (src/src/bridge/rooms.rs) as its connections use it.  Every connection  *)
(* (a `Bridge`) loads its own copy of `channels.json` and writes the whole *)
(* copy back under its own mutex, so two connections of one account share  *)
(* nothing but the file.  A save truncates the file and then writes it:    *)
(* the two steps are separate here, and a crash, an I/O error, a load or   *)
(* another connection's save may come between them.                        *)
(***************************************************************************)
EXTENDS RoomTable

CONSTANTS
    Conns,      \* the Bridge instances of the account
    Faults,     \* what may go wrong: a subset of {"crash", "io"}
    Truncated,  \* contents of a file opened for writing, nothing written yet
    Garbled     \* contents of a file two saves wrote into

ASSUME MapsAssumption == Faults \subseteq {"crash", "io"}

VARIABLES
    up,      \* up[c]: the connection exists
    rooms,   \* rooms[c]: its table (`Bridge::rooms`)
    saving,  \* saving[c]: it holds the mutex and the file is open for writing
    disk,    \* contents of channels.json; no file reads like an empty table
    live,    \* Matrix rooms the account is joined to
    shown    \* history: the channels a room was shown under since it was joined

vars == <<up, rooms, saving, disk, live, shown>>

Unreadable == {Truncated, Garbled}

\* `serde_json::from_slice(..).ok() .. unwrap_or_default()`
Load(d) == IF d \in Unreadable THEN {} ELSE d

\* `rooms.lock()`: nobody of this connection is inside `save`.
Locked(c) == up[c] /\ ~saving[c]

-----------------------------------------------------------------------------
Init ==
    /\ up     = [c \in Conns |-> FALSE]
    /\ rooms  = [c \in Conns |-> {}]
    /\ saving = [c \in Conns |-> FALSE]
    /\ disk   = {}
    /\ live   = {}
    /\ shown  = [r \in Rooms |-> {}]

\* Every room of a table is shown under its channel (registration JOINs).
ShowAll(t) == shown' = [r \in Rooms |->
                          IF r \in live THEN shown[r] \cup ChannelsOf(t, r)
                                        ELSE shown[r]]

Connect(c) ==
    /\ ~up[c]
    /\ up' = [up EXCEPT ![c] = TRUE]
    /\ rooms' = [rooms EXCEPT ![c] = Load(disk)]
    /\ ShowAll(Load(disk))
    /\ UNCHANGED <<saving, disk, live>>

Close(c) ==
    /\ Locked(c)
    /\ up' = [up EXCEPT ![c] = FALSE]
    /\ rooms' = [rooms EXCEPT ![c] = {}]
    /\ UNCHANGED <<saving, disk, live, shown>>

\* `save`: the file is truncated, or it cannot be opened at all.
BeginSave(c) ==
    \/ /\ saving' = [saving EXCEPT ![c] = TRUE]
       /\ disk' = Truncated
    \/ /\ "io" \in Faults
       /\ UNCHANGED <<saving, disk>>

\* The table of c becomes t, and is saved when `dirty`.
Put(c, t, dirty) ==
    /\ rooms' = [rooms EXCEPT ![c] = t]
    /\ IF dirty THEN BeginSave(c) ELSE UNCHANGED <<saving, disk>>
    /\ UNCHANGED <<up, live>>

\* Two saves that overlap write at the same offsets: the later one leaves its
\* own table, or a file with the tail of the other.
FinishSave(c) ==
    /\ saving[c]
    /\ saving' = [saving EXCEPT ![c] = FALSE]
    /\ \/ disk' = rooms[c]
       \/ disk # Truncated /\ disk' = Garbled
    /\ UNCHANGED <<up, rooms, live, shown>>

FailSave(c) ==
    /\ "io" \in Faults
    /\ saving[c]
    /\ saving' = [saving EXCEPT ![c] = FALSE]
    /\ UNCHANGED <<up, rooms, disk, live, shown>>

\* The process dies; what it wrote so far stays.
Crash ==
    /\ "crash" \in Faults
    /\ \E c \in Conns : up[c]
    /\ up' = [c \in Conns |-> FALSE]
    /\ rooms' = [c \in Conns |-> {}]
    /\ saving' = [c \in Conns |-> FALSE]
    /\ UNCHANGED <<disk, live, shown>>

-----------------------------------------------------------------------------
\* `ensure`: a known room keeps its entry, whatever the entry is.
EnsureKnown(c, r, topic) ==
    /\ Mapped(rooms[c], r)
    /\ Put(c, WithTopic(rooms[c], r, topic), TopicOf(rooms[c], r) # {topic})
    /\ ShowAll(rooms[c])

EnsureNew(c, r, base, topic) ==
    /\ ~Mapped(rooms[c], r)
    /\ \E ch \in Channels :
        /\ UniqueChannel(rooms[c], base, ch)
        /\ LET t == PushChannel(rooms[c], r, ch, topic)
           IN  Put(c, t, TRUE) /\ ShowAll(t)

\* A plausible bug: `ensure` without the lookup of the room.
EnsureTwice(c, r) ==
    /\ Locked(c)
    /\ r \in live
    /\ \E base \in Bases, topic \in Topics, ch \in Channels :
        /\ UniqueChannel(rooms[c], base, ch)
        /\ LET t == PushChannel(rooms[c], r, ch, topic)
           IN  Put(c, t, TRUE) /\ ShowAll(t)

\* A plausible bug: `ensure` recomputes the channel of a known room.
EnsureRenames(c, r) ==
    /\ Locked(c)
    /\ r \in live
    /\ \E base \in Bases, topic \in Topics, ch \in Channels :
        LET others == {e \in rooms[c] : e.room # r}
            t == PushChannel(others, r, ch, topic)
        IN  /\ UniqueChannel(others, base, ch)
            /\ Put(c, t, TRUE)
            /\ ShowAll(t)

Ensure(c, r) ==
    /\ Locked(c)
    /\ r \in live
    /\ \E base \in Bases, topic \in Topics :
        EnsureKnown(c, r, topic) \/ EnsureNew(c, r, base, topic)

\* `ensure_query`: saved only when the topic changed, too.
EnsureQueryKnown(c, r, nick) ==
    /\ Mapped(rooms[c], r)
    /\ Put(c, AsQuery(rooms[c], r, nick), TopicOf(rooms[c], r) # {NoTopic})

EnsureQueryNew(c, r, nick) ==
    /\ ~Mapped(rooms[c], r)
    /\ \E q \in Queries :
        /\ UniqueQueryNick(rooms[c], nick, q)
        /\ Put(c, PushQuery(rooms[c], r, q), TRUE)

EnsureQuery(c, r) ==
    /\ Locked(c)
    /\ r \in live
    /\ \E nick \in Nicks : EnsureQueryKnown(c, r, nick) \/ EnsureQueryNew(c, r, nick)
    /\ UNCHANGED shown

\* A plausible bug: pruning before the first sync, when no room is joined yet.
PruneToNothing(c) ==
    /\ Locked(c)
    /\ Put(c, {}, rooms[c] # {})
    /\ UNCHANGED shown

\* `bootstrap_sync`: `joined_rooms()` and `prune_to` follow each other without
\* an await and are one step.
PruneTo(c) ==
    /\ Locked(c)
    /\ LET t == Retain(rooms[c], live)
       IN  Put(c, t, t # rooms[c])
    /\ UNCHANGED shown

\* `push_topic`: the entry's topic changes and is not saved.
PushTopic(c, r, topic) ==
    /\ Locked(c)
    /\ Mapped(rooms[c], r)
    /\ Put(c, WithTopic(rooms[c], r, topic), FALSE)
    /\ UNCHANGED shown

-----------------------------------------------------------------------------
\* Matrix: the account joins and leaves rooms, here or from another client.

JoinRoom(r) ==
    /\ r \notin live
    /\ live' = live \cup {r}
    /\ shown' = [shown EXCEPT ![r] = UNION {ChannelsOf(rooms[c], r) : c \in Conns}]
    /\ UNCHANGED <<up, rooms, saving, disk>>

LeaveRoom(r) ==
    /\ r \in live
    /\ live' = live \ {r}
    /\ shown' = [shown EXCEPT ![r] = {}]
    /\ UNCHANGED <<up, rooms, saving, disk>>

Next ==
    \/ \E c \in Conns : Connect(c) \/ Close(c) \/ FinishSave(c) \/ FailSave(c)
    \/ \E c \in Conns : PruneTo(c)
    \/ \E c \in Conns, r \in Rooms : Ensure(c, r) \/ EnsureQuery(c, r)
    \/ \E c \in Conns, r \in Rooms, topic \in Topics : PushTopic(c, r, topic)
    \/ \E r \in Rooms : JoinRoom(r) \/ LeaveRoom(r)
    \/ Crash

Spec == Init /\ [][Next]_vars

-----------------------------------------------------------------------------
\* The type of the state: every table in memory or on disk holds well-formed
\* entries, and only a live connection holds a table or a save.
TypeOK ==
    /\ up \in [Conns -> BOOLEAN]
    /\ rooms \in [Conns -> SUBSET RoomEntry]
    /\ saving \in [Conns -> BOOLEAN]
    /\ disk \in (SUBSET RoomEntry) \cup Unreadable
    /\ live \in SUBSET Rooms
    /\ shown \in [Rooms -> SUBSET Channels]
    /\ \A c \in Conns : ~up[c] => rooms[c] = {} /\ ~saving[c]

OneEntryPerRoom(t) == \A e, f \in t : e.room = f.room => e = f

ChannelsUnique(t) == \A e, f \in t :
    e.channel = f.channel /\ e.channel # NoChannel => e = f

ChannelXorQuery(t) == \A e \in t : (e.channel = NoChannel) <=> (e.query # NoQuery)

\* A table that routes both ways: a room has one entry, the entry is a channel
\* or a query, and no two rooms share a channel.
Consistent(t) == OneEntryPerRoom(t) /\ ChannelsUnique(t) /\ ChannelXorQuery(t)

\* Every table a connection works with, and every readable file a later one
\* will load, routes both ways, whatever overlapping saves, I/O errors and
\* crashes did to the file (rooms.rs ensure, ensure_query, prune_to, load).
TablesConsistent ==
    /\ \A c \in Conns : Consistent(rooms[c])
    /\ disk \notin Unreadable => Consistent(disk)

\* While one connection keeps a room mapped it never renames it: the channel
\* stays, or the room becomes a query (README "IRC channel names are stable
\* per room"; a new room name is a TOPIC).
NeverRenamed ==
    [][\A c \in Conns : up[c] /\ up'[c] =>
         \A e \in rooms[c] : \A f \in rooms'[c] :
             e.room = f.room => f.channel \in {e.channel, NoChannel}]_vars

\* As long as the account stays in a room, every connection there ever is,
\* before and after restarts, shows the room under one channel name
\* (README "Stable mapping", rooms.rs:3-5).
OneNamePerRoom == \A r \in Rooms : Cardinality(shown[r]) <= 1

\* The doc of unique_query_nick (rooms.rs:133-134): "dedupe with `_2` suffixes
\* so queries stay routable" - one room per query nick.
QueriesRoutable ==
    \A c \in Conns : \A e, f \in rooms[c] :
        e.query # NoQuery /\ f.query # NoQuery /\ Fold(e.query) = Fold(f.query) => e = f
=============================================================================
