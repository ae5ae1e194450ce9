---------------------------- MODULE ChannelRelay ----------------------------
(***************************************************************************)
(* One IRC connection after registration: which channels the client is     *)
(* told about, by whom and in which order.  Four tasks share the table of  *)
(* rooms and the `joined` set, each behind a mutex of its own, and send    *)
(* lines into one bounded queue that the writer drains in order:           *)
(*                                                                         *)
(*   burst    JOINs the channels of the stored table (server.rs 240-251)   *)
(*   sync     the bootstrap sync, the mapping of rooms, their JOINs, then  *)
(*            the endless sync (server.rs 1898-1938, mod.rs 830-853); the  *)
(*            event handlers run inside it, one event at a time            *)
(*   reader   the client's JOIN and PART commands (server.rs 872-911)      *)
(*   joiners  the task spawned for every JOIN (server.rs 885-890)          *)
(*                                                                         *)
(* A JOIN burst is one line here: the topic and names lines that follow it *)
(* tell nothing more about who is in the channel.  The base name of a room *)
(* and whether it is a DM do not change while the connection lasts.        *)
(***************************************************************************)
EXTENDS RoomTable, Sequences

CONSTANTS
    Dms,          \* the rooms that are 2-party DMs
    BaseOf,       \* room -> its sanitized base name
    NickOf,       \* room -> nick of the other party of a DM
    QueueCap,     \* capacity of the line queue (256 in the code)
    MaxEvents,    \* bound: events Matrix sends on the connection
    MaxJoins,     \* bound: JOIN commands of the client
    Scenes        \* what a connection may find, see scene

ASSUME RelayConstants ==
    /\ Dms \subseteq Rooms
    /\ BaseOf \in [Rooms -> Bases] /\ NickOf \in [Rooms -> Nicks]
    /\ Scenes \subseteq [stored : SUBSET Rooms, live : SUBSET Rooms,
                          fails : BOOLEAN, parts : Nat]
    /\ QueueCap \in Nat \ {0}
    /\ {MaxEvents, MaxJoins} \subseteq Nat

VARIABLES
    scene,     \* the rooms channels.json holds and those the account is joined
               \* to at the start; whether the first sync may fail; how often
               \* the client may PART (bound).  It never changes.
    table,     \* `Bridge::rooms`
    joined,    \* `Bridge::joined`
    tx,        \* the lines queued for the writer
    burst,     \* [pc, todo]: the registration burst
    sync,      \* [pc, todo, fresh]: the bootstrap and sync task
    handler,   \* [pc, room, chan]: the event handler running inside `sync`
    reader,    \* [pc, chan]: the client command being handled
    joiners,   \* channel -> JOIN tasks spawned and not finished
    heard,     \* client: channels it has seen a JOIN for since its last PART
    last,      \* client: number of the last message it has seen
    taken,     \* number of messages the handlers decided to relay
    events,    \* events dispatched so far (bound)
    joins,     \* JOIN commands so far (bound)
    parts      \* PART commands so far (bound)

shared == <<table, joined, tx>>
tasks  == <<burst, sync, handler, reader, joiners>>
client == <<heard, last>>
counts == <<taken, events, joins, parts>>
vars   == <<scene, shared, tasks, client, counts>>

\* A line for the client.  `chan` is NoChannel when the code sends the empty
\* channel name of a DM (TOPIC) or addresses the client's own nick (PRIVMSG).
Line == [kind : {"JOIN", "PART", "PRIVMSG", "TOPIC"},
         chan : Channels \cup {NoChannel},
         id   : 0 .. MaxEvents]   \* number of a PRIVMSG, else 0

Join(ch)       == [kind |-> "JOIN", chan |-> ch, id |-> 0]
Part(ch)       == [kind |-> "PART", chan |-> ch, id |-> 0]
Topic(ch)      == [kind |-> "TOPIC", chan |-> ch, id |-> 0]
Privmsg(ch, n) == [kind |-> "PRIVMSG", chan |-> ch, id |-> n]

\* `tx.send(line).await`: waits while the queue is full.
Send(line) == Len(tx) < QueueCap /\ tx' = Append(tx, line)

ChannelEntries(t) == {e.channel : e \in t} \ {NoChannel}

Idle == [pc |-> "idle", room |-> NoChannel, chan |-> NoChannel]
ReaderIdle == [pc |-> "idle", chan |-> NoChannel]

-----------------------------------------------------------------------------
\* The stored table: some rooms, every DM a query, the others a channel under
\* one of their names.
StoredTable(S, name) ==
    {[room |-> r,
      channel |-> IF r \in Dms THEN NoChannel ELSE name[r],
      query |-> IF r \in Dms THEN NickOf[r] ELSE NoQuery,
      topic |-> NoTopic] : r \in S}

\* server.rs 226-239: the handlers are registered, the channels of the stored
\* table go into `joined`, and the burst and sync tasks are spawned.
Init ==
    /\ scene \in Scenes
    /\ LET S == scene.stored
       IN  \E name \in [S \ Dms -> Channels] :
            /\ \A r \in S \ Dms : \E i \in Attempts : name[r] = ChannelName(BaseOf[r], i)
            /\ \A r, s \in S \ Dms : name[r] = name[s] => r = s
            /\ table = StoredTable(S, name)
    /\ joined = ChannelEntries(table)
    /\ tx = <<>>
    /\ burst = [pc |-> "start", todo |-> {}]
    /\ sync = [pc |-> "syncing", todo |-> {}, fresh |-> {}]
    /\ handler = Idle
    /\ reader = ReaderIdle
    /\ joiners = [ch \in Channels |-> 0]
    /\ heard = {} /\ last = 0
    /\ taken = 0 /\ events = 0 /\ joins = 0 /\ parts = 0

-----------------------------------------------------------------------------
\* The registration burst: the table is read again when the task runs; the
\* members of a channel are fetched before its JOIN is sent.

BurstStart ==
    /\ burst.pc = "start"
    /\ burst' = [pc |-> "run", todo |-> ChannelEntries(table)]
    /\ UNCHANGED <<scene, shared, sync, handler, reader, joiners, client, counts>>

BurstJoin ==
    /\ burst.pc = "run"
    /\ \E ch \in burst.todo :
        /\ Send(Join(ch))
        /\ burst' = [burst EXCEPT !.todo = @ \ {ch}]
    /\ UNCHANGED <<scene, table, joined, sync, handler, reader, joiners, client, counts>>

-----------------------------------------------------------------------------
\* ensure_room_mapping: the table t2 and the channel the room gets.
EnsureMapping(r, t2) ==
    IF r \in Dms
    THEN IF Mapped(table, r)
         THEN t2 = AsQuery(table, r, NickOf[r])
         ELSE \E q \in Queries : UniqueQueryNick(table, NickOf[r], q)
                                 /\ t2 = PushQuery(table, r, q)
    ELSE IF Mapped(table, r)
         THEN t2 = table
         ELSE \E ch \in Channels : UniqueChannel(table, BaseOf[r], ch)
                                   /\ t2 = PushChannel(table, r, ch, NoTopic)

Mapping(r) == {t2 \in {table} \cup {AsQuery(table, r, NickOf[r])}
                        \cup {PushQuery(table, r, q) : q \in Queries}
                        \cup {PushChannel(table, r, ch, NoTopic) : ch \in Channels} :
                 EnsureMapping(r, t2)}

\* "" for a DM.
ChanOf(t, r) == CHOOSE ch \in Channels \cup {NoChannel} :
                   \E e \in GetByRoom(t, r) : e.channel = ch

\* The bootstrap: sync_once, then prune to the joined rooms.
SyncDone ==
    /\ sync.pc = "syncing"
    /\ handler.pc = "idle"
    /\ table' = Retain(table, scene.live)
    /\ sync' = [pc |-> "map", todo |-> scene.live, fresh |-> {}]
    /\ UNCHANGED <<scene, joined, tx, burst, handler, reader, joiners, client, counts>>

\* A failed sync_once is logged, and the endless sync goes on without mapping.
SyncFails ==
    /\ scene.fails
    /\ sync.pc = "syncing"
    /\ handler.pc = "idle"
    /\ sync' = [sync EXCEPT !.pc = "forever"]
    /\ UNCHANGED <<scene, shared, burst, handler, reader, joiners, client, counts>>

MapRoom ==
    /\ sync.pc = "map"
    /\ \E r \in sync.todo : \E t2 \in Mapping(r) :
        /\ table' = t2
        /\ sync' = [sync EXCEPT !.todo = @ \ {r},
                                !.fresh = @ \cup ({ChanOf(t2, r)} \ {NoChannel})]
    /\ UNCHANGED <<scene, joined, tx, burst, handler, reader, joiners, client, counts>>

MapDone ==
    /\ sync.pc = "map"
    /\ sync.todo = {}
    /\ sync' = [sync EXCEPT !.pc = "join"]
    /\ UNCHANGED <<scene, shared, burst, handler, reader, joiners, client, counts>>

\* A fresh channel is entered into `joined`, or skipped; its JOIN is sent
\* after the members are fetched.  `todo` holds the channel meanwhile.
JoinFresh ==
    /\ sync.pc = "join"
    /\ \E ch \in sync.fresh :
        /\ joined' = joined \cup {ch}
        /\ sync' = [sync EXCEPT !.fresh = @ \ {ch},
                                !.pc = IF ch \in joined THEN "join" ELSE "send",
                                !.todo = IF ch \in joined THEN {} ELSE {ch}]
    /\ UNCHANGED <<scene, table, tx, burst, handler, reader, joiners, client, counts>>

\* A plausible bug: the JOIN of a fresh channel is never sent.
SendFreshNothing ==
    /\ sync.pc = "send"
    /\ sync' = [sync EXCEPT !.pc = "join", !.todo = {}]
    /\ UNCHANGED <<scene, shared, burst, handler, reader, joiners, client, counts>>

SendFresh ==
    /\ sync.pc = "send"
    /\ \E ch \in sync.todo : Send(Join(ch))
    /\ sync' = [sync EXCEPT !.pc = "join", !.todo = {}]
    /\ UNCHANGED <<scene, table, joined, burst, handler, reader, joiners, client, counts>>

BootstrapDone ==
    /\ sync.pc = "join"
    /\ sync.fresh = {}
    /\ sync' = [sync EXCEPT !.pc = "forever"]
    /\ UNCHANGED <<scene, shared, burst, handler, reader, joiners, client, counts>>

-----------------------------------------------------------------------------
\* The event handlers, run by a sync that is in progress.

Syncing == sync.pc \in {"syncing", "forever"}

\* message_handler looks the room up; encrypted_handler gives up on a room
\* without a mapping, message_handler creates one.
Dispatch(r) ==
    /\ Syncing /\ handler.pc = "idle"
    /\ events < MaxEvents
    /\ events' = events + 1
    /\ handler' = IF Mapped(table, r)
                  THEN [pc |-> "render", room |-> r, chan |-> ChanOf(table, r)]
                  ELSE [pc |-> "ensure", room |-> r, chan |-> NoChannel]
    /\ UNCHANGED <<scene, shared, burst, sync, reader, joiners, client, taken, joins, parts>>

HandlerEnsure ==
    /\ handler.pc = "ensure"
    /\ \E t2 \in Mapping(handler.room) :
        /\ table' = t2
        /\ handler' = [handler EXCEPT !.pc = "render", !.chan = ChanOf(t2, handler.room)]
    /\ UNCHANGED <<scene, joined, tx, burst, sync, reader, joiners, client, counts>>

\* `render_body` returned nothing to show.
RenderNothing ==
    /\ handler.pc = "render"
    /\ handler' = Idle
    /\ UNCHANGED <<scene, shared, burst, sync, reader, joiners, client, counts>>

\* The check of `joined`, one step under its mutex.
CheckJoined ==
    /\ handler.pc = "render"
    /\ taken' = taken + 1
    /\ IF handler.chan = NoChannel \/ handler.chan \in joined
       THEN /\ handler' = [handler EXCEPT !.pc = "line"]
            /\ UNCHANGED joined
       ELSE /\ handler' = [handler EXCEPT !.pc = "join"]
            /\ joined' = joined \cup {handler.chan}
    /\ UNCHANGED <<scene, table, tx, burst, sync, reader, joiners, client, events, joins, parts>>

\* A plausible bug: `try_send` drops the JOIN when the queue is full.
HandlerTriesJoin ==
    /\ handler.pc = "join"
    /\ tx' = IF Len(tx) < QueueCap THEN Append(tx, Join(handler.chan)) ELSE tx
    /\ handler' = [handler EXCEPT !.pc = "line"]
    /\ UNCHANGED <<scene, table, joined, burst, sync, reader, joiners, client, counts>>

\* The JOIN a handler sends carries the nick of the sender of the message; the
\* model does not tell the prefixes of a JOIN apart.
HandlerJoin ==
    /\ handler.pc = "join"
    /\ Send(Join(handler.chan))
    /\ handler' = [handler EXCEPT !.pc = "line"]
    /\ UNCHANGED <<scene, table, joined, burst, sync, reader, joiners, client, counts>>

\* A plausible bug: the line is sent by a task of its own, so that a later
\* message may overtake it (here: it is put before the last line queued).
HandlerOvertakes ==
    /\ handler.pc = "line"
    /\ Len(tx) < QueueCap
    /\ LET n == Len(tx) IN
        tx' = IF n = 0 THEN <<Privmsg(handler.chan, taken)>>
              ELSE SubSeq(tx, 1, n - 1) \o <<Privmsg(handler.chan, taken), tx[n]>>
    /\ handler' = Idle
    /\ UNCHANGED <<scene, table, joined, burst, sync, reader, joiners, client, counts>>

HandlerLine ==
    /\ handler.pc = "line"
    /\ Send(Privmsg(handler.chan, taken))
    /\ handler' = Idle
    /\ UNCHANGED <<scene, table, joined, burst, sync, reader, joiners, client, counts>>

\* topic_handler, push_topic: the entry's topic, then a TOPIC for its channel.
TopicChange(r) ==
    /\ Syncing /\ handler.pc = "idle"
    /\ Mapped(table, r)
    /\ events < MaxEvents
    /\ events' = events + 1
    /\ handler' = [pc |-> "topic", room |-> r, chan |-> ChanOf(table, r)]
    /\ UNCHANGED <<scene, shared, burst, sync, reader, joiners, client, taken, joins, parts>>

SendTopic ==
    /\ handler.pc = "topic"
    /\ Send(Topic(handler.chan))
    /\ handler' = Idle
    /\ UNCHANGED <<scene, table, joined, burst, sync, reader, joiners, client, counts>>

-----------------------------------------------------------------------------
\* The read loop.  JOIN tests the channel, and looks it up again below.

ClientJoin(ch) ==
    /\ reader.pc = "idle"
    /\ joins < MaxJoins
    /\ joins' = joins + 1
    /\ GetByChannel(table, ch) # {}
    /\ reader' = [pc |-> "join", chan |-> ch]
    /\ UNCHANGED <<scene, shared, burst, sync, handler, joiners, client, taken, events, parts>>

JoinFound ==
    /\ reader.pc = "join"
    /\ GetByChannel(table, reader.chan) # {}
    /\ joined' = joined \cup {reader.chan}
    /\ joiners' = [joiners EXCEPT ![reader.chan] = @ + 1]
    /\ reader' = ReaderIdle
    /\ UNCHANGED <<scene, table, tx, burst, sync, handler, client, counts>>

\* The second lookup `expect`s the entry.  The panic ends the read loop and
\* poisons the mutex of the table, so that every other task ends at its next
\* lock; the writer ends when the read loop drops its priority lane.
JoinPanics ==
    /\ reader.pc = "join"
    /\ GetByChannel(table, reader.chan) = {}
    /\ joined' = joined \cup {reader.chan}
    /\ reader' = [pc |-> "panicked", chan |-> NoChannel]
    /\ burst' = [pc |-> "run", todo |-> {}]
    /\ sync' = [pc |-> "dead", todo |-> {}, fresh |-> {}]
    /\ handler' = Idle
    /\ joiners' = [ch \in Channels |-> 0]
    /\ tx' = <<>>
    /\ UNCHANGED <<scene, table, client, counts>>

JoinerSends(ch) ==
    /\ joiners[ch] > 0
    /\ Send(Join(ch))
    /\ joiners' = [joiners EXCEPT ![ch] = @ - 1]
    /\ UNCHANGED <<scene, table, joined, burst, sync, handler, reader, client, counts>>

ClientPart(ch) ==
    /\ reader.pc = "idle"
    /\ parts < scene.parts
    /\ parts' = parts + 1
    /\ GetByChannel(table, ch) # {}
    /\ joined' = joined \ {ch}
    /\ reader' = [pc |-> "part", chan |-> ch]
    /\ UNCHANGED <<scene, table, tx, burst, sync, handler, joiners, client, taken, events, joins>>

ReaderSendsPart ==
    /\ reader.pc = "part"
    /\ Send(Part(reader.chan))
    /\ reader' = ReaderIdle
    /\ UNCHANGED <<scene, table, joined, burst, sync, handler, joiners, client, counts>>

-----------------------------------------------------------------------------
\* The writer sends the oldest line; the client keeps track of its channels.
Deliver ==
    /\ tx # <<>>
    /\ tx' = Tail(tx)
    /\ LET line == Head(tx) IN
        /\ heard' = CASE line.kind = "JOIN" -> heard \cup {line.chan}
                      [] line.kind = "PART" -> heard \ {line.chan}
                      [] OTHER -> heard
        /\ last' = IF line.kind = "PRIVMSG" THEN line.id ELSE last
    /\ UNCHANGED <<scene, table, joined, tasks, counts>>

BurstTask   == BurstStart \/ BurstJoin
Bootstrap   == SyncDone \/ SyncFails \/ MapRoom \/ MapDone \/ JoinFresh \/ SendFresh
               \/ BootstrapDone
HandlerTask == HandlerEnsure \/ RenderNothing \/ CheckJoined \/ HandlerJoin
               \/ HandlerLine \/ SendTopic
Events      == \E r \in scene.live : Dispatch(r) \/ TopicChange(r)
Commands    == \E ch \in Channels : ClientJoin(ch) \/ ClientPart(ch)
ReadLoop    == JoinFound \/ JoinPanics \/ ReaderSendsPart
Joiners     == \E ch \in Channels : JoinerSends(ch)

Next == \/ BurstTask \/ Bootstrap \/ HandlerTask \/ Events
        \/ Commands \/ ReadLoop \/ Joiners \/ Deliver

\* The runtime runs every task that is ready, member fetches return, the peer
\* reads its socket.  Nothing makes Matrix send events or the client commands;
\* one sync response holds finitely many events.
Fairness ==
    /\ WF_vars(BurstTask) /\ WF_vars(Bootstrap) /\ WF_vars(HandlerTask)
    /\ WF_vars(ReadLoop) /\ WF_vars(Joiners) /\ WF_vars(Deliver)

Spec == Init /\ [][Next]_vars /\ Fairness

-----------------------------------------------------------------------------
\* The client PARTs nothing, the first sync succeeds, and no stored room was
\* left since: after a PART the client may be sent a JOIN again before its PART
\* line, and the channel of a room that was left may be skipped as joined.
Calm == scene.parts = 0 /\ ~scene.fails /\ scene.stored \subseteq scene.live

\* No task has anything left to do: what the client knows is final until
\* Matrix or the client acts.
Quiet ==
    /\ burst.pc = "run" /\ burst.todo = {}
    /\ sync.pc = "forever" /\ handler.pc = "idle" /\ reader.pc = "idle"
    /\ \A ch \in Channels : joiners[ch] = 0
    /\ tx = <<>>

\* Once the tasks are done, every channel the bridge believes the client is in
\* has been announced to it by a JOIN: the burst, the bootstrap, the handlers
\* and the read loop insert into `joined` before they send the JOIN, and none
\* of them relies on a JOIN that nobody sends (mod.rs:471-481, server.rs
\* 234-251, 1911-1928).
AnnouncedWhenQuiet == Calm /\ Quiet => joined \subseteq heard

\* The `expect("checked above")` of server.rs:877.
JoinLookupFinds == reader.pc # "panicked"

\* The messages reach the client each once, in the order they came, and all of
\* them unless the read loop panics: the specification of the direction,
\* implemented by the handlers, the queue and the writer together.
InOrder == INSTANCE InOrderRelay WITH shown <- last, MaxMessages <- MaxEvents
RelaysInOrder ==
    /\ InOrder!Init /\ [][InOrder!Next]_(InOrder!vars)
    /\ []JoinLookupFinds => InOrder!Fairness

\* Every joined room that is not a DM has its channel announced in the end
\* (README: "all joined rooms bridged automatically").
AllRoomsBridged ==
    Calm => \A r \in Rooms \ Dms : r \in scene.live =>
        <>(\E e \in GetByRoom(table, r) : e.channel \in heard)

\* The comment of mod.rs:471, "JOIN must always be emitted before any PRIVMSG
\* on a channel": a channel message on its way to the client finds the channel
\* announced, by whatever JOIN.
JoinBeforePrivmsg ==
    tx # <<>> /\ Head(tx).kind = "PRIVMSG" /\ Head(tx).chan # NoChannel
        => Head(tx).chan \in heard
=============================================================================
