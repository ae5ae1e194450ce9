-------------------------- MODULE ChannelRelayProofs --------------------------
(***************************************************************************)
(* Proofs about ChannelRelay, for any rooms, names, queue capacity, events *)
(* and commands: the messages of Matrix reach the client in their order,   *)
(* none twice and none left out, and what the bridge believes the client   *)
(* has joined was announced to it when the tasks are done.                 *)
(***************************************************************************)
EXTENDS ChannelRelay, SequenceTheorems, TLAPS

Panicked == reader.pc = "panicked"

\* The lines there are: the channel of a JOIN is never the empty one.
Announcement == {l \in Line : l.kind = "JOIN" => l.chan \in Channels}

TypeOK ==
    /\ scene \in Scenes
    /\ table \subseteq RoomEntry
    /\ joined \subseteq Channels
    /\ tx \in Seq(Announcement)
    /\ burst \in [pc : {"start", "run"}, todo : SUBSET Channels]
    /\ burst.pc = "start" => burst.todo = {}
    /\ sync \in [pc : {"syncing", "map", "join", "send", "forever", "dead"},
                 todo : SUBSET (Rooms \cup Channels), fresh : SUBSET Channels]
    /\ sync.pc = "map" => sync.todo \subseteq scene.live
    /\ sync.pc = "send" => \E ch \in Channels : sync.todo = {ch}
    /\ handler \in [pc : {"idle", "ensure", "render", "join", "line", "topic"},
                    room : Rooms \cup {NoChannel}, chan : Channels \cup {NoChannel}]
    /\ handler.pc = "ensure" => handler.room \in scene.live
    /\ handler.pc = "join" => handler.chan \in Channels
    /\ reader \in [pc : {"idle", "join", "part", "panicked"},
                   chan : Channels \cup {NoChannel}]
    /\ reader.pc \in {"join", "part"} => reader.chan \in Channels
    /\ joiners \in [Channels -> Nat]
    /\ heard \subseteq Channels
    /\ last \in Nat /\ taken \in Nat /\ events \in 0 .. MaxEvents
    /\ joins \in Nat /\ parts \in Nat

\* An event a handler has not yet decided to relay.
Undecided == IF handler.pc \in {"ensure", "render"} THEN 1 ELSE 0

\* The number of the last message that was queued.
Queued == IF handler.pc \in {"join", "line"} THEN taken - 1 ELSE taken

Message(l) == l.kind = "PRIVMSG"

\* The queue holds the messages from the one after `last` up to the last one
\* queued, in their order; after a panic it holds none, and gets none.
Counted ==
    /\ taken + Undecided <= events
    /\ last <= Queued
InOrderInQueue ==
    /\ \A i \in 1 .. Len(tx) : Message(tx[i]) => last < tx[i].id /\ tx[i].id <= Queued
    /\ \A i, j \in 1 .. Len(tx) :
         i < j /\ Message(tx[i]) /\ Message(tx[j]) => tx[i].id < tx[j].id
NoneLeftOut ==
    ~Panicked => \A n \in last + 1 .. Queued : \E i \in 1 .. Len(tx) : Message(tx[i]) /\ tx[i].id = n
DeadWhenPanicked ==
    Panicked => /\ sync.pc = "dead" /\ handler = Idle
                /\ \A i \in 1 .. Len(tx) : ~Message(tx[i])

RelayInv == Counted /\ InOrderInQueue /\ NoneLeftOut /\ DeadWhenPanicked

\* Who will tell the client of ch, if it was not told yet.
Told(ch) == ch \in heard \/ \E i \in 1 .. Len(tx) : tx[i] = Join(ch)
Announced(ch) ==
    \/ Told(ch)
    \/ burst.pc = "start" /\ ch \in ChannelEntries(table)
    \/ ch \in burst.todo
    \/ sync.pc = "send" /\ ch \in sync.todo
    \/ handler.pc = "join" /\ handler.chan = ch
    \/ joiners[ch] > 0
    \/ Panicked

\* While nothing is parted and no room left, no entry goes, and a room that is
\* a DM has no channel to lose.
Kept(t) == \A e \in t : e.room \in scene.live /\ (e.room \in Dms => e.channel = NoChannel)

PartQueued == \E i \in 1 .. Len(tx) : tx[i].kind = "PART"
Parting == reader.pc = "part" \/ PartQueued

\* Nothing is parted or left, and whoever the bridge believes to be in a channel
\* is or will be told of it.
CalmNow == Kept(table) /\ ~Parting /\ \A ch \in joined : Announced(ch)
CalmInv == Calm => CalmNow

-----------------------------------------------------------------------------
\* The operators on the table.

LEMMA ChanOfTyped ==
    ASSUME NEW t, t \subseteq RoomEntry, NEW r, Mapped(t, r)
    PROVE  /\ ChanOf(t, r) \in Channels \cup {NoChannel}
           /\ \E e \in GetByRoom(t, r) : e.channel = ChanOf(t, r)
<1>1. PICK e \in t : e.room = r
  BY DEF Mapped, GetByRoom
<1>2. e.channel \in Channels \cup {NoChannel}
  BY <1>1 DEF RoomEntry
<1>3. \E ch \in Channels \cup {NoChannel} : \E d \in GetByRoom(t, r) : d.channel = ch
  BY <1>1, <1>2 DEF GetByRoom
<1>4. QED
  BY <1>3 DEF ChanOf

\* A mapping takes no channel from the table.
LEMMA MappingKeeps ==
    ASSUME table \subseteq RoomEntry, NEW r \in Rooms, NEW t2 \in Mapping(r)
    PROVE  /\ t2 \subseteq RoomEntry
           /\ Mapped(t2, r)
           /\ Kept(table) /\ r \in scene.live =>
                Kept(t2) /\ ChannelEntries(table) \subseteq ChannelEntries(t2)
<1>1. NickOf[r] \in Queries /\ NoTopic \in Topics
  BY RelayConstants, TableAssumption DEF Queries
<1>2. EnsureMapping(r, t2)
  BY DEF Mapping
<1>3. CASE r \in Dms /\ Mapped(table, r)
  <2> DEFINE F(e) == IF e.room = r
                     THEN [e EXCEPT !.query = NickOf[r], !.channel = NoChannel, !.topic = NoTopic]
                     ELSE e
  <2>1. t2 = {F(e) : e \in table}
    BY <1>2, <1>3 DEF EnsureMapping, AsQuery
  <2>2. \A e \in table : /\ F(e) \in RoomEntry
                        /\ F(e).room = e.room
                        /\ F(e).channel = IF e.room = r THEN NoChannel ELSE e.channel
    BY <1>1 DEF RoomEntry
  <2> HIDE DEF F
  <2>3. t2 \subseteq RoomEntry /\ Mapped(t2, r)
    BY <1>3, <2>1, <2>2 DEF Mapped, GetByRoom
  <2>4. ASSUME Kept(table)
        PROVE  Kept(t2) /\ ChannelEntries(table) \subseteq ChannelEntries(t2)
    <3>1. \A e \in table : F(e) \in t2 /\ F(e).room = e.room /\ F(e).channel = e.channel
      BY <1>3, <2>1, <2>2, <2>4 DEF Kept
    <3>2. QED
      BY <2>1, <2>4, <3>1 DEF Kept, ChannelEntries
  <2>5. QED
    BY <2>3, <2>4
<1>4. CASE r \in Dms /\ ~Mapped(table, r)
  <2>1. PICK q \in Queries : t2 = PushQuery(table, r, q)
    BY <1>2, <1>4 DEF EnsureMapping
  <2> DEFINE new == [room |-> r, channel |-> NoChannel, query |-> q, topic |-> NoTopic]
  <2>2. new \in RoomEntry /\ t2 = table \cup {new}
    BY <1>1, <2>1 DEF PushQuery, RoomEntry
  <2>3. new.room = r /\ new.channel = NoChannel
    OBVIOUS
  <2> HIDE DEF new
  <2>4. t2 \subseteq RoomEntry /\ Mapped(t2, r)
    BY <2>2, <2>3 DEF Mapped, GetByRoom
  <2>5. QED
    BY <2>2, <2>3, <2>4 DEF Kept, ChannelEntries
<1>5. CASE r \notin Dms /\ Mapped(table, r)
  BY <1>2, <1>5 DEF EnsureMapping
<1>6. CASE r \notin Dms /\ ~Mapped(table, r)
  <2>1. PICK ch \in Channels : t2 = PushChannel(table, r, ch, NoTopic)
    BY <1>2, <1>6 DEF EnsureMapping
  <2> DEFINE new == [room |-> r, channel |-> ch, query |-> NoQuery, topic |-> NoTopic]
  <2>2. new \in RoomEntry /\ t2 = table \cup {new}
    BY <1>1, <2>1 DEF PushChannel, RoomEntry
  <2>3. new.room = r /\ new.channel = ch
    OBVIOUS
  <2> HIDE DEF new
  <2>4. t2 \subseteq RoomEntry /\ Mapped(t2, r)
    BY <2>2, <2>3 DEF Mapped, GetByRoom
  <2>5. QED
    BY <1>6, <2>2, <2>3, <2>4 DEF Kept, ChannelEntries
<1>7. QED
  BY <1>3, <1>4, <1>5, <1>6

LEMMA RetainKeeps ==
    ASSUME table \subseteq RoomEntry
    PROVE  /\ Retain(table, scene.live) \subseteq RoomEntry
           /\ Kept(table) => Retain(table, scene.live) = table
  BY DEF Retain, Kept

\* What a scene is made of.
LEMMA SceneTyped ==
    ASSUME scene \in Scenes
    PROVE  scene.live \subseteq Rooms /\ scene.stored \subseteq Rooms /\ scene.parts \in Nat
  BY RelayConstants

-----------------------------------------------------------------------------
\* Lines.

LEMMA LinesTyped ==
    /\ \A ch \in Channels : Join(ch) \in Announcement /\ Part(ch) \in Announcement
    /\ \A ch \in Channels \cup {NoChannel} : Topic(ch) \in Announcement
    /\ \A ch \in Channels \cup {NoChannel}, n \in 0 .. MaxEvents : Privmsg(ch, n) \in Announcement
  BY RelayConstants DEF Join, Part, Topic, Privmsg, Line, Announcement

\* Where the lines are when one was sent, and when one was delivered.
LEMMA Sent ==
    ASSUME tx \in Seq(Announcement), NEW line \in Announcement, tx' = Append(tx, line)
    PROVE  /\ tx' \in Seq(Announcement)
           /\ Len(tx') = Len(tx) + 1
           /\ tx'[Len(tx) + 1] = line
           /\ \A i \in 1 .. Len(tx) : tx'[i] = tx[i]
  OBVIOUS

LEMMA Delivered ==
    ASSUME tx \in Seq(Announcement), tx # <<>>, tx' = Tail(tx)
    PROVE  /\ tx' \in Seq(Announcement)
           /\ Len(tx) \in Nat \ {0}
           /\ Len(tx') = Len(tx) - 1
           /\ Head(tx) = tx[1] /\ Head(tx) \in Announcement
           /\ \A i \in 1 .. Len(tx') : i + 1 \in 1 .. Len(tx) /\ tx'[i] = tx[i + 1]
  OBVIOUS

-----------------------------------------------------------------------------
\* Type correctness.

LEMMA EntriesTyped ==
    ASSUME NEW t, t \subseteq RoomEntry
    PROVE  ChannelEntries(t) \subseteq Channels
  BY DEF ChannelEntries, RoomEntry

LEMMA StoredTyped ==
    ASSUME NEW S \in SUBSET Rooms, NEW name \in [S \ Dms -> Channels]
    PROVE  StoredTable(S, name) \subseteq RoomEntry
<1>1. \A r \in S : NickOf[r] \in Queries
  BY RelayConstants DEF Queries
<1>2. NoTopic \in Topics
  BY TableAssumption
<1>3. QED
  BY <1>1, <1>2 DEF StoredTable, RoomEntry

LEMMA InitTyped == Init => TypeOK
<1> SUFFICES ASSUME Init PROVE TypeOK
  OBVIOUS
<1>1. scene.stored \in SUBSET Rooms
  BY SceneTyped DEF Init
<1>2. table \subseteq RoomEntry
  BY <1>1, StoredTyped DEF Init
<1>3. joined \subseteq Channels
  BY <1>2, EntriesTyped DEF Init
<1>4. tx \in Seq(Announcement)
  BY DEF Init
<1>5. QED
  BY <1>2, <1>3, <1>4, RelayConstants DEF Init, TypeOK, Idle, ReaderIdle

LEMMA BurstTyped == TypeOK /\ BurstTask => TypeOK'
<1>1. ASSUME TypeOK, BurstStart PROVE TypeOK'
  BY <1>1, EntriesTyped DEF TypeOK, BurstStart, shared, client, counts
<1>2. ASSUME TypeOK, BurstJoin PROVE TypeOK'
  <2>1. PICK ch \in burst.todo : Send(Join(ch)) /\ burst' = [burst EXCEPT !.todo = @ \ {ch}]
    BY <1>2 DEF BurstJoin
  <2>2. tx' \in Seq(Announcement)
    BY <1>2, <2>1, LinesTyped, Sent DEF Send, TypeOK
  <2>3. burst' \in [pc : {"start", "run"}, todo : SUBSET Channels]
    BY <1>2, <2>1 DEF TypeOK
  <2>4. QED
    BY <1>2, <2>2, <2>3 DEF TypeOK, BurstJoin, client, counts
<1>3. QED
  BY <1>1, <1>2 DEF BurstTask

LEMMA BootstrapTyped == TypeOK /\ Bootstrap => TypeOK'
<1> SUFFICES ASSUME TypeOK, Bootstrap PROVE TypeOK'
  OBVIOUS
<1>1. scene.live \subseteq Rooms
  BY SceneTyped DEF TypeOK
<1>2. CASE SyncDone
  BY <1>1, <1>2, RetainKeeps DEF TypeOK, SyncDone, client, counts
<1>3. CASE SyncFails
  BY <1>3 DEF TypeOK, SyncFails, shared, client, counts
<1>4. CASE MapRoom
  <2>1. PICK r \in sync.todo : \E t2 \in Mapping(r) :
          /\ table' = t2
          /\ sync' = [sync EXCEPT !.todo = @ \ {r},
                                  !.fresh = @ \cup ({ChanOf(t2, r)} \ {NoChannel})]
    BY <1>4 DEF MapRoom
  <2>2. PICK t2 \in Mapping(r) :
          /\ table' = t2
          /\ sync' = [sync EXCEPT !.todo = @ \ {r},
                                  !.fresh = @ \cup ({ChanOf(t2, r)} \ {NoChannel})]
    BY <2>1
  <2>3. r \in Rooms
    BY <1>1, <1>4 DEF MapRoom, TypeOK
  <2>4. t2 \subseteq RoomEntry /\ ChanOf(t2, r) \in Channels \cup {NoChannel}
    BY <2>2, <2>3, MappingKeeps, ChanOfTyped DEF TypeOK
  <2>5. QED
    BY <1>4, <2>2, <2>4 DEF TypeOK, MapRoom, client, counts
<1>5. CASE MapDone
  BY <1>5 DEF TypeOK, MapDone, shared, client, counts
<1>6. CASE JoinFresh
  <2>1. PICK ch \in sync.fresh :
          /\ joined' = joined \cup {ch}
          /\ sync' = [sync EXCEPT !.fresh = @ \ {ch},
                                  !.pc = IF ch \in joined THEN "join" ELSE "send",
                                  !.todo = IF ch \in joined THEN {} ELSE {ch}]
    BY <1>6 DEF JoinFresh
  <2>2. ch \in Channels
    BY <2>1 DEF TypeOK
  <2>3. CASE ch \in joined
    BY <1>6, <2>1, <2>2, <2>3 DEF TypeOK, JoinFresh, client, counts
  <2>4. CASE ch \notin joined
    <3>1. sync' = [pc |-> "send", todo |-> {ch}, fresh |-> sync.fresh \ {ch}]
      BY <2>1, <2>4 DEF TypeOK
    <3>2. QED
      BY <1>6, <2>1, <2>2, <3>1 DEF TypeOK, JoinFresh, client, counts
  <2>5. QED
    BY <2>3, <2>4
<1>7. CASE SendFresh
  <2>1. PICK ch \in sync.todo : Send(Join(ch))
    BY <1>7 DEF SendFresh
  <2>2. ch \in Channels
    BY <1>7 DEF SendFresh, TypeOK
  <2>3. tx' \in Seq(Announcement)
    BY <2>1, <2>2, LinesTyped, Sent DEF Send, TypeOK
  <2>4. QED
    BY <1>7, <2>3 DEF TypeOK, SendFresh, client, counts
<1>8. CASE BootstrapDone
  BY <1>8 DEF TypeOK, BootstrapDone, shared, client, counts
<1>9. QED
  BY <1>2, <1>3, <1>4, <1>5, <1>6, <1>7, <1>8 DEF Bootstrap

\* RelayInv bounds the number of the message that is sent.
LEMMA HandlerTyped == TypeOK /\ RelayInv /\ HandlerTask => TypeOK'
<1> SUFFICES ASSUME TypeOK, RelayInv, HandlerTask PROVE TypeOK'
  OBVIOUS
<1>1. scene.live \subseteq Rooms
  BY SceneTyped DEF TypeOK
<1>2. CASE HandlerEnsure
  <2>1. PICK t2 \in Mapping(handler.room) :
          /\ table' = t2
          /\ handler' = [handler EXCEPT !.pc = "render", !.chan = ChanOf(t2, handler.room)]
    BY <1>2 DEF HandlerEnsure
  <2>2. handler.room \in Rooms
    BY <1>1, <1>2 DEF HandlerEnsure, TypeOK
  <2>3. t2 \subseteq RoomEntry /\ ChanOf(t2, handler.room) \in Channels \cup {NoChannel}
    BY <2>2, MappingKeeps, ChanOfTyped DEF TypeOK
  <2>4. QED
    BY <1>2, <2>1, <2>3 DEF TypeOK, HandlerEnsure, client, counts
<1>3. CASE RenderNothing
  BY <1>3 DEF TypeOK, RenderNothing, Idle, shared, client, counts
<1>4. CASE CheckJoined
  <2>1. handler' \in [pc : {"idle", "ensure", "render", "join", "line", "topic"},
                      room : Rooms \cup {NoChannel}, chan : Channels \cup {NoChannel}]
    BY <1>4 DEF TypeOK, CheckJoined
  <2>2. /\ joined' \subseteq Channels
        /\ handler'.pc \in {"line", "join"}
        /\ handler'.pc = "join" => handler'.chan \in Channels
    BY <1>4 DEF TypeOK, CheckJoined
  <2>3. taken' \in Nat
    BY <1>4 DEF TypeOK, CheckJoined
  <2>4. QED
    BY <1>4, <2>1, <2>2, <2>3 DEF TypeOK, CheckJoined, client
<1>5. CASE HandlerJoin
  <2>1. tx' \in Seq(Announcement)
    BY <1>5, LinesTyped, Sent DEF HandlerJoin, Send, TypeOK
  <2>2. QED
    BY <1>5, <2>1 DEF TypeOK, HandlerJoin, client, counts
<1>6. CASE HandlerLine
  <2>1. taken \in 0 .. MaxEvents
    BY <1>6, RelayConstants DEF HandlerLine, TypeOK, RelayInv, Counted, Undecided
  <2>2. tx' \in Seq(Announcement)
    BY <1>6, <2>1, LinesTyped, Sent DEF HandlerLine, Send, TypeOK
  <2>3. QED
    BY <1>6, <2>2 DEF TypeOK, HandlerLine, Idle, client, counts
<1>7. CASE SendTopic
  <2>1. tx' \in Seq(Announcement)
    BY <1>7, LinesTyped, Sent DEF SendTopic, Send, TypeOK
  <2>2. QED
    BY <1>7, <2>1 DEF TypeOK, SendTopic, Idle, client, counts
<1>8. QED
  BY <1>2, <1>3, <1>4, <1>5, <1>6, <1>7 DEF HandlerTask

LEMMA EventsTyped == TypeOK /\ Events => TypeOK'
<1> SUFFICES ASSUME TypeOK, NEW r \in scene.live, Dispatch(r) \/ TopicChange(r) PROVE TypeOK'
  BY DEF Events
<1>1. r \in Rooms
  BY SceneTyped DEF TypeOK
<1>2. Mapped(table, r) => ChanOf(table, r) \in Channels \cup {NoChannel}
  BY ChanOfTyped DEF TypeOK
<1>3. events < MaxEvents => events + 1 \in 0 .. MaxEvents
  BY RelayConstants DEF TypeOK
<1>4. CASE Dispatch(r)
  BY <1>1, <1>2, <1>3, <1>4 DEF TypeOK, Dispatch, shared, client
<1>5. CASE TopicChange(r)
  BY <1>1, <1>2, <1>3, <1>5 DEF TypeOK, TopicChange, shared, client
<1>6. QED
  BY <1>4, <1>5

LEMMA ReaderTyped == TypeOK /\ (Commands \/ ReadLoop \/ Joiners) => TypeOK'
<1> SUFFICES ASSUME TypeOK, Commands \/ ReadLoop \/ Joiners PROVE TypeOK'
  OBVIOUS
<1>1. ASSUME NEW ch \in Channels, ClientJoin(ch) PROVE TypeOK'
  BY <1>1 DEF TypeOK, ClientJoin, shared, client
<1>2. ASSUME NEW ch \in Channels, ClientPart(ch) PROVE TypeOK'
  BY <1>2 DEF TypeOK, ClientPart, client
<1>3. CASE JoinFound
  BY <1>3 DEF TypeOK, JoinFound, ReaderIdle, client, counts
<1>4. CASE JoinPanics
  <2>1. tx' \in Seq(Announcement) /\ joiners' \in [Channels -> Nat]
    BY <1>4 DEF JoinPanics
  <2>2. QED
    BY <1>4, <2>1 DEF TypeOK, JoinPanics, Idle, client, counts
<1>5. CASE ReaderSendsPart
  <2>1. tx' \in Seq(Announcement)
    BY <1>5, LinesTyped, Sent DEF ReaderSendsPart, Send, TypeOK
  <2>2. QED
    BY <1>5, <2>1 DEF TypeOK, ReaderSendsPart, ReaderIdle, client, counts
<1>6. ASSUME NEW ch \in Channels, JoinerSends(ch) PROVE TypeOK'
  <2>1. tx' \in Seq(Announcement)
    BY <1>6, LinesTyped, Sent DEF JoinerSends, Send, TypeOK
  <2>2. joiners' \in [Channels -> Nat]
    BY <1>6 DEF JoinerSends, TypeOK
  <2>3. QED
    BY <1>6, <2>1, <2>2 DEF TypeOK, JoinerSends, client, counts
<1>7. QED
  BY <1>1, <1>2, <1>3, <1>4, <1>5, <1>6 DEF Commands, ReadLoop, Joiners

LEMMA DeliverTyped == TypeOK /\ Deliver => TypeOK'
<1> SUFFICES ASSUME TypeOK, Deliver PROVE TypeOK'
  OBVIOUS
<1>1. tx' \in Seq(Announcement) /\ Head(tx) \in Announcement
  BY Delivered DEF Deliver, TypeOK
<1>2. heard' \subseteq Channels
  BY <1>1 DEF Deliver, TypeOK, Announcement
<1>3. last' \in Nat
  BY <1>1, RelayConstants DEF Deliver, TypeOK, Announcement, Line
<1>4. QED
  BY <1>1, <1>2, <1>3 DEF TypeOK, Deliver, tasks, counts

-----------------------------------------------------------------------------
\* The messages in the queue.

\* What a step of another task leaves alone.
Steady ==
    /\ UNCHANGED <<last, taken>>
    /\ Panicked' = Panicked
    /\ Panicked /\ sync.pc = "dead" => sync'.pc = "dead"

LEMMA RelayUntouched ==
    ASSUME TypeOK, RelayInv, Steady, UNCHANGED <<tx, handler>>, events' \in Nat, events' >= events
    PROVE  RelayInv'
<1>1. Queued' = Queued /\ Undecided' = Undecided
  BY DEF Queued, Undecided, Message, Steady
<1>2. Counted'
  <2>1. Undecided \in {0, 1}
    BY DEF Undecided
  <2>2. QED
    BY <1>1, <2>1 DEF RelayInv, Counted, Steady, TypeOK
<1>3. InOrderInQueue' /\ NoneLeftOut'
  BY <1>1 DEF RelayInv, InOrderInQueue, NoneLeftOut, Steady
<1>4. DeadWhenPanicked'
  BY <1>1 DEF RelayInv, DeadWhenPanicked, Steady
<1>5. QED
  BY <1>2, <1>3, <1>4 DEF RelayInv

\* A line that is no message: the numbers in the queue stay as they are.
LEMMA OtherLineSent ==
    ASSUME TypeOK, RelayInv, Steady, events' = events,
           NEW line \in Announcement, line.kind # "PRIVMSG", tx' = Append(tx, line),
           Queued' = Queued, Undecided' = Undecided, handler = Idle => handler' = Idle
    PROVE  RelayInv'
<1>1. /\ Len(tx) \in Nat /\ Len(tx') = Len(tx) + 1
      /\ \A i \in 1 .. Len(tx) : tx'[i] = tx[i]
      /\ tx'[Len(tx) + 1] = line
  BY Sent DEF TypeOK, Message
<1>2. \A i \in 1 .. Len(tx') : Message(tx'[i]) => i \in 1 .. Len(tx) /\ Message(tx[i])
  BY <1>1 DEF Message
<1>3. Counted'
  BY DEF RelayInv, Counted, Steady
<1>4. InOrderInQueue'
  BY <1>1, <1>2 DEF RelayInv, InOrderInQueue, Steady
<1>5. NoneLeftOut'
  BY <1>1 DEF RelayInv, NoneLeftOut, Steady
<1>6. DeadWhenPanicked'
  BY <1>2 DEF RelayInv, DeadWhenPanicked, Steady
<1>7. QED
  BY <1>3, <1>4, <1>5, <1>6 DEF RelayInv

\* The handler puts the message it has taken behind those before it.
LEMMA MessageSent == TypeOK /\ RelayInv /\ HandlerLine => RelayInv'
<1> SUFFICES ASSUME TypeOK, RelayInv, HandlerLine PROVE RelayInv'
  OBVIOUS
<1> DEFINE line == Privmsg(handler.chan, taken)
<1>1. /\ handler.pc = "line" /\ handler' = Idle
      /\ tx' = Append(tx, line)
      /\ UNCHANGED <<last, taken, events, reader, sync>>
  BY DEF HandlerLine, Send, client, counts
<1>2. /\ ~Panicked /\ ~Panicked'
      /\ Queued = taken - 1 /\ Queued' = taken
      /\ Undecided = 0 /\ Undecided' = 0
  BY <1>1 DEF RelayInv, DeadWhenPanicked, Panicked, Idle, Queued, Undecided
<1>3. taken \in 0 .. MaxEvents
  BY <1>2, RelayConstants DEF TypeOK, RelayInv, Counted
<1>4. line \in Announcement /\ Message(line) /\ line.id = taken
  BY <1>3, LinesTyped DEF TypeOK, Privmsg, Message
<1> HIDE DEF line
<1>5. /\ Len(tx) \in Nat /\ Len(tx') = Len(tx) + 1
      /\ \A i \in 1 .. Len(tx) : tx'[i] = tx[i]
      /\ tx'[Len(tx) + 1] = line
  BY <1>1, <1>4, Sent DEF TypeOK, Message
<1>6. \A i \in 1 .. Len(tx) : tx[i] \in Announcement /\ tx[i].id \in Nat
  BY RelayConstants DEF TypeOK, Announcement, Line
<1>7. Counted'
  BY <1>1, <1>2, RelayConstants DEF RelayInv, Counted, TypeOK
<1>8. InOrderInQueue'
  <2>1. \A i \in 1 .. Len(tx) : Message(tx[i]) => last < tx[i].id /\ tx[i].id <= taken - 1
    BY <1>2 DEF RelayInv, InOrderInQueue
  <2>2. ASSUME NEW i \in 1 .. Len(tx'), Message(tx'[i])
        PROVE  last < tx'[i].id /\ tx'[i].id <= taken
    <3>1. CASE i = Len(tx) + 1
      BY <1>2, <1>3, <1>4, <1>5, <3>1 DEF TypeOK, RelayInv, Counted
    <3>2. CASE i \in 1 .. Len(tx)
      <4>1. tx'[i] = tx[i]
        BY <1>5, <3>2
      <4>2. QED
        BY <1>3, <1>6, <2>1, <2>2, <3>2, <4>1
    <3>3. QED
      BY <1>5, <3>1, <3>2
  <2>3. ASSUME NEW i \in 1 .. Len(tx'), NEW j \in 1 .. Len(tx'),
               i < j, Message(tx'[i]), Message(tx'[j])
        PROVE  tx'[i].id < tx'[j].id
    <3>1. i \in 1 .. Len(tx) /\ tx'[i].id <= taken - 1
      BY <1>5, <2>1, <2>3
    <3>2. CASE j = Len(tx) + 1
      BY <1>3, <1>4, <1>5, <1>6, <3>1, <3>2
    <3>3. CASE j \in 1 .. Len(tx)
      BY <1>5, <2>3, <3>1, <3>3 DEF RelayInv, InOrderInQueue
    <3>4. QED
      BY <1>5, <3>2, <3>3
  <2>4. QED
    BY <1>1, <1>2, <2>2, <2>3 DEF InOrderInQueue
<1>9. NoneLeftOut'
  <2>1. ASSUME NEW n \in last + 1 .. taken
        PROVE  \E i \in 1 .. Len(tx') : Message(tx'[i]) /\ tx'[i].id = n
    <3>1. CASE n = taken
      BY <1>4, <1>5, <3>1
    <3>2. CASE n # taken
      <4>1. n \in last + 1 .. Queued
        BY <1>2, <1>3, <3>2 DEF TypeOK
      <4>2. PICK i \in 1 .. Len(tx) : Message(tx[i]) /\ tx[i].id = n
        BY <1>2, <4>1 DEF RelayInv, NoneLeftOut
      <4>3. QED
        BY <1>5, <4>2
    <3>3. QED
      BY <3>1, <3>2
  <2>2. QED
    BY <1>1, <1>2, <2>1 DEF NoneLeftOut
<1>10. QED
  BY <1>2, <1>7, <1>8, <1>9 DEF RelayInv, DeadWhenPanicked

\* The first message in the queue is the next one the client is to see.
LEMMA NextInQueue ==
    ASSUME TypeOK, RelayInv, tx # <<>>, Head(tx).kind = "PRIVMSG"
    PROVE  ~Panicked /\ Head(tx).id = last + 1 /\ last + 1 <= Queued
<1>1. Len(tx) \in Nat \ {0} /\ Head(tx) = tx[1] /\ tx[1] \in Announcement
  BY DEF TypeOK
<1>2. ~Panicked /\ last < tx[1].id /\ tx[1].id <= Queued
  BY <1>1 DEF RelayInv, DeadWhenPanicked, InOrderInQueue, Message
<1>3. tx[1].id \in Nat /\ Queued \in Int
  BY <1>1, RelayConstants DEF Announcement, Line, Queued, TypeOK
<1>4. last + 1 \in last + 1 .. Queued
  BY <1>2, <1>3 DEF TypeOK
<1>5. PICK i \in 1 .. Len(tx) : Message(tx[i]) /\ tx[i].id = last + 1
  BY <1>2, <1>4 DEF RelayInv, NoneLeftOut
<1>6. ASSUME i # 1 PROVE FALSE
  <2>1. 1 \in 1 .. Len(tx) /\ 1 < i /\ Message(tx[1])
    BY <1>1, <1>5, <1>6 DEF Message
  <2>2. tx[1].id < last + 1
    BY <1>5, <2>1 DEF RelayInv, InOrderInQueue
  <2>3. QED
    BY <1>2, <1>3, <2>2 DEF TypeOK
<1>7. QED
  BY <1>1, <1>2, <1>4, <1>5, <1>6

LEMMA LineDelivered == TypeOK /\ RelayInv /\ Deliver => RelayInv'
<1> SUFFICES ASSUME TypeOK, RelayInv, Deliver PROVE RelayInv'
  OBVIOUS
<1>1. /\ tx # <<>> /\ tx' = Tail(tx)
      /\ last' = IF Head(tx).kind = "PRIVMSG" THEN Head(tx).id ELSE last
      /\ UNCHANGED <<taken, events, handler, reader, sync>>
  BY DEF Deliver, tasks, counts
<1>2. /\ Len(tx) \in Nat \ {0} /\ Len(tx') = Len(tx) - 1
      /\ Head(tx) = tx[1]
      /\ \A i \in 1 .. Len(tx') : i + 1 \in 1 .. Len(tx) /\ tx'[i] = tx[i + 1]
  BY <1>1, Delivered DEF TypeOK, Message
<1>3. Queued' = Queued /\ Undecided' = Undecided /\ Panicked' = Panicked
  BY <1>1 DEF Queued, Undecided, Panicked
<1>4. Queued \in Int /\ \A i \in 1 .. Len(tx) : tx[i].id \in Nat
  BY RelayConstants DEF TypeOK, Announcement, Line, Queued
<1>5. DeadWhenPanicked'
  BY <1>1, <1>2, <1>3 DEF RelayInv, DeadWhenPanicked
<1>6. CASE Head(tx).kind # "PRIVMSG"
  <2>1. last' = last /\ ~Message(tx[1])
    BY <1>1, <1>2, <1>6 DEF Message
  <2>2. InOrderInQueue'
    <3>1. ASSUME NEW i \in 1 .. Len(tx'), Message(tx'[i])
          PROVE  last < tx'[i].id /\ tx'[i].id <= Queued
      BY <1>2, <3>1 DEF RelayInv, InOrderInQueue
    <3>2. ASSUME NEW i \in 1 .. Len(tx'), NEW j \in 1 .. Len(tx'),
                 i < j, Message(tx'[i]), Message(tx'[j])
          PROVE  tx'[i].id < tx'[j].id
      <4>1. i + 1 \in 1 .. Len(tx) /\ j + 1 \in 1 .. Len(tx) /\ i + 1 < j + 1
        BY <1>2, <3>2
      <4>2. QED
        BY <1>2, <3>2, <4>1 DEF RelayInv, InOrderInQueue
    <3>3. QED
      BY <1>3, <2>1, <3>1, <3>2 DEF InOrderInQueue
  <2>3. NoneLeftOut'
    <3>1. ASSUME ~Panicked, NEW n \in last + 1 .. Queued
          PROVE  \E i \in 1 .. Len(tx') : Message(tx'[i]) /\ tx'[i].id = n
      <4>1. PICK i \in 1 .. Len(tx) : Message(tx[i]) /\ tx[i].id = n
        BY <3>1 DEF RelayInv, NoneLeftOut
      <4>2. i # 1 /\ i - 1 \in 1 .. Len(tx')
        BY <1>2, <2>1, <4>1
      <4>3. tx'[i - 1] = tx[i]
        BY <1>2, <4>2
      <4>4. QED
        BY <4>1, <4>2, <4>3
    <3>2. QED
      BY <1>3, <2>1, <3>1 DEF NoneLeftOut
  <2>4. QED
    BY <1>1, <1>3, <1>5, <2>1, <2>2, <2>3 DEF RelayInv, Counted
<1>7. CASE Head(tx).kind = "PRIVMSG"
  <2>1. ~Panicked /\ last' = last + 1 /\ last + 1 <= Queued
    BY <1>1, <1>7, NextInQueue
  <2>2. Message(tx[1]) /\ tx[1].id = last + 1
    BY <1>1, <1>2, <1>7, NextInQueue DEF Message
  <2>3. InOrderInQueue'
    <3>1. ASSUME NEW i \in 1 .. Len(tx'), Message(tx'[i])
          PROVE  last + 1 < tx'[i].id /\ tx'[i].id <= Queued
      <4>1. i + 1 \in 1 .. Len(tx) /\ 1 \in 1 .. Len(tx) /\ 1 < i + 1 /\ tx'[i] = tx[i + 1]
        BY <1>2, <3>1
      <4>2. tx[1].id < tx[i + 1].id /\ tx[i + 1].id <= Queued
        BY <2>2, <3>1, <4>1 DEF RelayInv, InOrderInQueue
      <4>3. QED
        BY <2>2, <4>1, <4>2
    <3>2. ASSUME NEW i \in 1 .. Len(tx'), NEW j \in 1 .. Len(tx'),
                 i < j, Message(tx'[i]), Message(tx'[j])
          PROVE  tx'[i].id < tx'[j].id
      <4>1. i + 1 \in 1 .. Len(tx) /\ j + 1 \in 1 .. Len(tx) /\ i + 1 < j + 1
        BY <1>2, <3>2
      <4>2. QED
        BY <1>2, <3>2, <4>1 DEF RelayInv, InOrderInQueue
    <3>3. QED
      BY <1>3, <2>1, <3>1, <3>2 DEF InOrderInQueue
  <2>4. NoneLeftOut'
    <3>1. ASSUME NEW n \in last + 2 .. Queued
          PROVE  \E i \in 1 .. Len(tx') : Message(tx'[i]) /\ tx'[i].id = n
      <4>1. n \in last + 1 .. Queued
        BY <1>4, <3>1 DEF TypeOK
      <4>2. PICK i \in 1 .. Len(tx) : Message(tx[i]) /\ tx[i].id = n
        BY <2>1, <4>1 DEF RelayInv, NoneLeftOut
      <4>3. i # 1 /\ i - 1 \in 1 .. Len(tx')
        BY <1>2, <1>4, <2>2, <3>1, <4>2 DEF TypeOK
      <4>4. tx'[i - 1] = tx[i]
        BY <1>2, <4>3
      <4>5. QED
        BY <4>2, <4>3, <4>4
    <3>2. last' + 1 = last + 2
      BY <2>1 DEF TypeOK
    <3>3. QED
      BY <1>3, <3>1, <3>2 DEF NoneLeftOut
  <2>5. QED
    BY <1>1, <1>3, <1>5, <2>1, <2>3, <2>4 DEF RelayInv, Counted
<1>8. QED
  BY <1>6, <1>7

\* The handler moves on without a line.
LEMMA HandlerMoved ==
    ASSUME TypeOK, RelayInv, UNCHANGED <<tx, last, reader>>, ~Panicked,
           Queued' = Queued, taken' + Undecided' <= events'
    PROVE  RelayInv'
<1>1. ~Panicked'
  BY DEF Panicked
<1>2. Counted'
  BY DEF RelayInv, Counted
<1>3. InOrderInQueue' /\ NoneLeftOut'
  BY <1>1 DEF RelayInv, InOrderInQueue, NoneLeftOut
<1>4. QED
  BY <1>1, <1>2, <1>3 DEF RelayInv, DeadWhenPanicked

LEMMA InitRelay == Init => RelayInv
  BY DEF Init, Idle, ReaderIdle, RelayInv, Counted, InOrderInQueue, NoneLeftOut,
         DeadWhenPanicked, Queued, Undecided, Panicked

LEMMA BurstRelay == TypeOK /\ RelayInv /\ BurstTask => RelayInv'
<1>1. ASSUME TypeOK, RelayInv, BurstStart PROVE RelayInv'
  BY <1>1, RelayUntouched DEF BurstStart, shared, client, counts, Steady, Panicked, TypeOK
<1>2. ASSUME TypeOK, RelayInv, BurstJoin PROVE RelayInv'
  <2>1. PICK ch \in burst.todo : Send(Join(ch))
    BY <1>2 DEF BurstJoin
  <2>2. Join(ch) \in Announcement /\ Join(ch).kind # "PRIVMSG"
    BY <1>2, <2>1, LinesTyped DEF TypeOK, Join
  <2>3. QED
    BY <1>2, <2>1, <2>2, OtherLineSent
    DEF BurstJoin, Send, client, counts, Steady, Panicked, Queued, Undecided
<1>3. QED
  BY <1>1, <1>2 DEF BurstTask

\* Until it is dead the bootstrap only moves, or sends a JOIN.
LEMMA BootstrapRelay == TypeOK /\ RelayInv /\ Bootstrap => RelayInv'
<1> SUFFICES ASSUME TypeOK, RelayInv, Bootstrap PROVE RelayInv'
  OBVIOUS
<1>1. ~Panicked /\ UNCHANGED <<handler, reader, last, taken, events>>
  BY DEF RelayInv, DeadWhenPanicked, Bootstrap, SyncDone, SyncFails, MapRoom, MapDone,
         JoinFresh, SendFresh, BootstrapDone, client, counts
<1>2. Steady
  BY <1>1 DEF Steady, Panicked
<1>3. CASE SendFresh
  <2>1. PICK ch \in sync.todo : Send(Join(ch))
    BY <1>3 DEF SendFresh
  <2>2. Join(ch) \in Announcement /\ Join(ch).kind # "PRIVMSG"
    BY <1>3, <2>1, LinesTyped DEF SendFresh, TypeOK, Join
  <2>3. QED
    BY <1>1, <1>2, <2>1, <2>2, OtherLineSent DEF Send, Queued, Undecided
<1>4. CASE ~SendFresh
  <2>1. UNCHANGED tx
    BY <1>4 DEF Bootstrap, SyncDone, SyncFails, MapRoom, MapDone, JoinFresh, BootstrapDone, shared
  <2>2. QED
    BY <1>1, <1>2, <2>1, RelayUntouched DEF TypeOK
<1>5. QED
  BY <1>3, <1>4

LEMMA HandlerRelay == TypeOK /\ RelayInv /\ HandlerTask => RelayInv'
<1> SUFFICES ASSUME TypeOK, RelayInv, HandlerTask PROVE RelayInv'
  OBVIOUS
<1>1. ~Panicked /\ UNCHANGED <<reader, sync, last, events>>
  <2>1. handler.pc # "idle"
    BY DEF HandlerTask, HandlerEnsure, RenderNothing, CheckJoined, HandlerJoin, HandlerLine,
           SendTopic
  <2>2. UNCHANGED <<reader, sync, last, events>>
    BY DEF HandlerTask, HandlerEnsure, RenderNothing, CheckJoined, HandlerJoin, HandlerLine,
           SendTopic, client, counts
  <2>3. QED
    BY <2>1, <2>2 DEF RelayInv, DeadWhenPanicked, Idle
<1>2. CASE HandlerEnsure
  BY <1>1, <1>2, HandlerMoved
  DEF HandlerEnsure, TypeOK, counts, client, Queued, Undecided, RelayInv, Counted
<1>3. CASE RenderNothing
  BY <1>1, <1>3, HandlerMoved
  DEF RenderNothing, TypeOK, shared, counts, client, Idle, Queued, Undecided, RelayInv, Counted
<1>4. CASE CheckJoined
  <2>1. /\ handler.pc = "render" /\ handler'.pc \in {"line", "join"}
        /\ taken' = taken + 1 /\ UNCHANGED tx
    BY <1>4 DEF CheckJoined, TypeOK
  <2>2. Queued' = Queued /\ taken' + Undecided' <= events'
    BY <1>1, <2>1 DEF TypeOK, Queued, Undecided, RelayInv, Counted
  <2>3. QED
    BY <1>1, <2>1, <2>2, HandlerMoved
<1>5. CASE HandlerJoin
  <2>1. Join(handler.chan) \in Announcement /\ Join(handler.chan).kind # "PRIVMSG"
    BY <1>5, LinesTyped DEF HandlerJoin, TypeOK, Join
  <2>2. Queued' = Queued /\ Undecided' = Undecided /\ handler # Idle
    BY <1>5 DEF HandlerJoin, TypeOK, Queued, Undecided, Idle, counts
  <2>3. QED
    BY <1>1, <1>5, <2>1, <2>2, OtherLineSent
    DEF HandlerJoin, Send, Steady, Panicked, counts, client
<1>6. CASE HandlerLine
  BY <1>6, MessageSent
<1>7. CASE SendTopic
  <2>1. Topic(handler.chan) \in Announcement /\ Topic(handler.chan).kind # "PRIVMSG"
    BY LinesTyped DEF TypeOK, Topic
  <2>2. Queued' = Queued /\ Undecided' = Undecided /\ handler' = Idle
    BY <1>7 DEF SendTopic, Queued, Undecided, Idle, counts
  <2>3. QED
    BY <1>1, <1>7, <2>1, <2>2, OtherLineSent
    DEF SendTopic, Send, Steady, Panicked, counts, client
<1>8. QED
  BY <1>2, <1>3, <1>4, <1>5, <1>6, <1>7 DEF HandlerTask

LEMMA EventsRelay == TypeOK /\ RelayInv /\ Events => RelayInv'
<1> SUFFICES ASSUME TypeOK, RelayInv, NEW r \in scene.live, Dispatch(r) \/ TopicChange(r)
             PROVE  RelayInv'
  BY DEF Events
<1>1. /\ handler.pc = "idle" /\ sync.pc \in {"syncing", "forever"}
      /\ handler'.pc \in {"render", "ensure", "topic"}
      /\ events' = events + 1 /\ UNCHANGED <<tx, last, reader, taken>>
  BY DEF Dispatch, TopicChange, Syncing, shared, client
<1>2. ~Panicked
  BY <1>1 DEF RelayInv, DeadWhenPanicked
<1>3. Queued' = Queued /\ taken' + Undecided' <= events'
  BY <1>1 DEF Queued, Undecided, RelayInv, Counted, TypeOK
<1>4. QED
  BY <1>1, <1>2, <1>3, HandlerMoved

LEMMA ReaderRelay == TypeOK /\ RelayInv /\ (Commands \/ ReadLoop \/ Joiners) => RelayInv'
<1> SUFFICES ASSUME TypeOK, RelayInv, Commands \/ ReadLoop \/ Joiners PROVE RelayInv'
  OBVIOUS
<1>1. ASSUME NEW ch \in Channels, ClientJoin(ch) \/ ClientPart(ch) PROVE RelayInv'
  <2>1. Steady /\ UNCHANGED <<tx, handler, events>>
    BY <1>1 DEF ClientJoin, ClientPart, Steady, Panicked, shared, client
  <2>2. QED
    BY <2>1, RelayUntouched DEF TypeOK
<1>2. CASE JoinFound
  <2>1. Steady /\ UNCHANGED <<tx, handler, events>>
    BY <1>2 DEF JoinFound, Steady, Panicked, ReaderIdle, client, counts
  <2>2. QED
    BY <2>1, RelayUntouched DEF TypeOK
<1>3. CASE JoinPanics
  <2>1. /\ Panicked' /\ handler' = Idle /\ sync'.pc = "dead" /\ tx' = <<>>
        /\ UNCHANGED <<last, taken, events>>
    BY <1>3 DEF JoinPanics, Panicked, client, counts
  <2>2. Queued' = taken /\ Undecided' = 0
    BY <2>1 DEF Queued, Undecided, Idle
  <2>3. Counted'
    BY <2>1, <2>2 DEF RelayInv, Counted, TypeOK, Undecided, Queued
  <2>4. QED
    BY <2>1, <2>3 DEF RelayInv, InOrderInQueue, NoneLeftOut, DeadWhenPanicked
<1>4. CASE ReaderSendsPart
  <2>1. Part(reader.chan) \in Announcement /\ Part(reader.chan).kind # "PRIVMSG"
    BY <1>4, LinesTyped DEF ReaderSendsPart, TypeOK, Part
  <2>2. QED
    BY <1>4, <2>1, OtherLineSent
    DEF ReaderSendsPart, Send, Steady, Panicked, ReaderIdle, Queued, Undecided, client, counts
<1>5. ASSUME NEW ch \in Channels, JoinerSends(ch) PROVE RelayInv'
  <2>1. Join(ch) \in Announcement /\ Join(ch).kind # "PRIVMSG"
    BY LinesTyped DEF Join
  <2>2. QED
    BY <1>5, <2>1, OtherLineSent
    DEF JoinerSends, Send, Steady, Panicked, Queued, Undecided, client, counts
<1>6. QED
  BY <1>1, <1>2, <1>3, <1>4, <1>5 DEF Commands, ReadLoop, Joiners

LEMMA RelayStep == TypeOK /\ RelayInv /\ [Next]_vars => TypeOK' /\ RelayInv'
<1> SUFFICES ASSUME TypeOK, RelayInv, [Next]_vars PROVE TypeOK' /\ RelayInv'
  OBVIOUS
<1>1. CASE BurstTask
  BY <1>1, BurstTyped, BurstRelay
<1>2. CASE Bootstrap
  BY <1>2, BootstrapTyped, BootstrapRelay
<1>3. CASE HandlerTask
  BY <1>3, HandlerTyped, HandlerRelay
<1>4. CASE Events
  BY <1>4, EventsTyped, EventsRelay
<1>5. CASE Commands \/ ReadLoop \/ Joiners
  BY <1>5, ReaderTyped, ReaderRelay
<1>6. CASE Deliver
  BY <1>6, DeliverTyped, LineDelivered
<1>7. CASE UNCHANGED vars
  <2>1. TypeOK'
    BY <1>7 DEF vars, shared, tasks, client, counts, TypeOK
  <2>2. RelayInv'
    BY <1>7, RelayUntouched DEF vars, shared, tasks, client, counts, Steady, Panicked, TypeOK
  <2>3. QED
    BY <2>1, <2>2
<1>8. QED
  BY <1>1, <1>2, <1>3, <1>4, <1>5, <1>6, <1>7 DEF Next

\* What a connection keeps about its channels, queue and tasks has the type
\* TypeOK gives it in every reachable state: in particular no JOIN or PART is
\* sent without a channel, and the message numbers stay within the events.
THEOREM TypeCorrect == Spec => []TypeOK
<1>1. Init => TypeOK /\ RelayInv
  BY InitTyped, InitRelay
<1>2. QED
  BY <1>1, RelayStep, PTL DEF Spec

\* The messages of Matrix reach the client each once, in the order in which
\* they were taken, whatever the burst, the bootstrap, the client's commands
\* and the joiners do meanwhile: every step of the connection is a step of the
\* specification of the direction, or none of its business (mod.rs 455-500).
THEOREM RelayRefines == Spec => InOrder!Init /\ [][InOrder!Next]_(InOrder!vars)
<1>1. Init => InOrder!Init
  BY DEF Init, InOrder!Init
<1>2. ASSUME TypeOK, RelayInv, Next PROVE [InOrder!Next]_(InOrder!vars)
  <2>1. CASE CheckJoined
    <3>1. taken + 1 <= events
      BY <1>2, <2>1 DEF CheckJoined, RelayInv, Counted, Undecided
    <3>2. QED
      BY <1>2, <2>1, <3>1, RelayConstants
      DEF TypeOK, CheckJoined, client, InOrder!Next, InOrder!Take
  <2>2. CASE Deliver
    <3>1. CASE Head(tx).kind = "PRIVMSG"
      <4>1. Head(tx).id = last + 1 /\ last + 1 <= Queued
        BY <1>2, <2>2, <3>1, NextInQueue DEF Deliver
      <4>2. last < taken
        BY <1>2, <4>1 DEF TypeOK, Queued
      <4>3. QED
        BY <2>2, <3>1, <4>1, <4>2 DEF Deliver, counts, InOrder!Next, InOrder!Show
    <3>2. CASE Head(tx).kind # "PRIVMSG"
      BY <2>2, <3>2 DEF Deliver, counts, InOrder!vars
    <3>3. QED
      BY <3>1, <3>2
  <2>3. CASE ~CheckJoined /\ ~Deliver
    <3>1. UNCHANGED <<taken, last>>
      BY <1>2, <2>3
      DEF Next, BurstTask, BurstStart, BurstJoin, Bootstrap, SyncDone, SyncFails, MapRoom,
          MapDone, JoinFresh, SendFresh, BootstrapDone, HandlerTask, HandlerEnsure,
          RenderNothing, HandlerJoin, HandlerLine, SendTopic, Events, Dispatch, TopicChange,
          Commands, ClientJoin, ClientPart, ReadLoop, JoinFound, JoinPanics,
          ReaderSendsPart, Joiners, JoinerSends, client, counts
    <3>2. QED
      BY <3>1 DEF InOrder!vars
  <2>4. QED
    BY <2>1, <2>2, <2>3
<1>3. ASSUME TypeOK, RelayInv, [Next]_vars PROVE [InOrder!Next]_(InOrder!vars)
  BY <1>2, <1>3 DEF vars, client, counts, InOrder!vars
<1>4. Init => TypeOK /\ RelayInv
  BY InitTyped, InitRelay
<1>5. QED
  BY <1>1, <1>3, <1>4, RelayStep, PTL DEF Spec

-----------------------------------------------------------------------------
\* Announcements.

\* A line that was sent tells of its channel, and untells none.
LEMMA TellSent ==
    ASSUME TypeOK, NEW line \in Announcement, tx' = Append(tx, line), heard' = heard
    PROVE  /\ \A ch : Told(ch) => Told(ch)'
           /\ \A ch : line = Join(ch) => Told(ch)'
           /\ ~PartQueued /\ line.kind # "PART" => ~PartQueued'
<1>1. /\ Len(tx) \in Nat /\ Len(tx') = Len(tx) + 1
      /\ \A i \in 1 .. Len(tx) : tx'[i] = tx[i]
      /\ tx'[Len(tx) + 1] = line
  BY Sent DEF TypeOK
<1>2. \A i \in 1 .. Len(tx') : i \in 1 .. Len(tx) \/ tx'[i] = line
  BY <1>1
<1>3. 1 .. Len(tx) \subseteq 1 .. Len(tx') /\ Len(tx) + 1 \in 1 .. Len(tx')
  BY <1>1
<1>4. QED
  BY <1>1, <1>2, <1>3 DEF Told, PartQueued

LEMMA TellDelivered ==
    ASSUME TypeOK, Deliver, ~PartQueued
    PROVE  ~PartQueued' /\ \A ch : Told(ch) => Told(ch)'
<1>1. /\ tx # <<>> /\ tx' = Tail(tx)
      /\ heard' = CASE Head(tx).kind = "JOIN" -> heard \cup {Head(tx).chan}
                    [] Head(tx).kind = "PART" -> heard \ {Head(tx).chan}
                    [] OTHER -> heard
  BY DEF Deliver
<1>2. /\ Len(tx) \in Nat \ {0} /\ Len(tx') = Len(tx) - 1
      /\ Head(tx) = tx[1]
      /\ \A i \in 1 .. Len(tx') : i + 1 \in 1 .. Len(tx) /\ tx'[i] = tx[i + 1]
  BY <1>1, Delivered DEF TypeOK
<1>3. Head(tx).kind # "PART"
  BY <1>2 DEF PartQueued
<1>4. heard \subseteq heard'
  BY <1>1, <1>3
<1>5. ~PartQueued'
  BY <1>2 DEF PartQueued
<1>6. ASSUME NEW ch, NEW i \in 1 .. Len(tx), tx[i] = Join(ch) PROVE Told(ch)'
  <2>1. CASE i = 1
    BY <1>1, <1>2, <1>6, <2>1 DEF Told, Join
  <2>2. CASE i # 1
    <3>1. i - 1 \in 1 .. Len(tx') /\ tx'[i - 1] = tx[i]
      BY <1>2, <2>2
    <3>2. QED
      BY <1>6, <3>1 DEF Told
  <2>3. QED
    BY <2>1, <2>2
<1>7. QED
  BY <1>4, <1>5, <1>6 DEF Told

LEMMA InitCalm == Init => CalmInv
<1> SUFFICES ASSUME Init, Calm PROVE Kept(table) /\ ~Parting /\ \A ch \in joined : Announced(ch)
  BY DEF CalmInv, CalmNow
<1>1. Kept(table)
  BY DEF Init, Calm, Kept, StoredTable
<1>2. ~Parting
  BY DEF Init, Parting, PartQueued, ReaderIdle
<1>3. \A ch \in joined : Announced(ch)
  BY DEF Init, Announced
<1>4. QED
  BY <1>1, <1>2, <1>3

LEMMA BurstCalm == TypeOK /\ CalmNow /\ BurstTask => CalmNow'
<1>1. ASSUME TypeOK, CalmNow, BurstStart PROVE CalmNow'
  <2>1. UNCHANGED <<scene, table, joined, tx, heard, sync, handler, reader, joiners>>
    BY <1>1 DEF BurstStart, shared, client
  <2>2. burst'.pc = "run" /\ burst'.todo = ChannelEntries(table) /\ burst.pc = "start"
    BY <1>1 DEF BurstStart
  <2>3. \A ch : Announced(ch) => Announced(ch)'
    BY <1>1, <2>1, <2>2 DEF TypeOK, Announced, Told, Panicked
  <2>4. QED
    BY <1>1, <2>1, <2>3 DEF CalmNow, Kept, Parting, PartQueued
<1>2. ASSUME TypeOK, CalmNow, BurstJoin PROVE CalmNow'
  <2>1. PICK ch \in burst.todo : Send(Join(ch)) /\ burst' = [burst EXCEPT !.todo = @ \ {ch}]
    BY <1>2 DEF BurstJoin
  <2>2. UNCHANGED <<scene, table, joined, heard, sync, handler, reader, joiners>> /\ burst.pc = "run"
    BY <1>2 DEF BurstJoin, client
  <2>3. Join(ch) \in Announcement /\ Join(ch).kind # "PART"
    BY <1>2, <2>1, LinesTyped DEF TypeOK, Join
  <2>4. /\ \A c : Told(c) => Told(c)'
        /\ Told(ch)' /\ (~PartQueued => ~PartQueued')
    BY <1>2, <2>1, <2>2, <2>3, TellSent DEF Send
  <2>5. burst'.todo = burst.todo \ {ch}
    BY <1>2, <2>1 DEF TypeOK
  <2>6. \A c : Announced(c) => Announced(c)'
    BY <2>2, <2>4, <2>5 DEF Announced, Panicked
  <2>7. QED
    BY <1>2, <2>2, <2>4, <2>6 DEF CalmNow, Kept, Parting
<1>3. QED
  BY <1>1, <1>2 DEF BurstTask

LEMMA BootstrapCalm == TypeOK /\ Calm /\ CalmNow /\ Bootstrap => CalmNow'
<1> SUFFICES ASSUME TypeOK, Calm, CalmNow, Bootstrap PROVE CalmNow'
  OBVIOUS
<1>1. UNCHANGED <<scene, heard, burst, handler, reader, joiners>>
  BY DEF Bootstrap, SyncDone, SyncFails, MapRoom, MapDone, JoinFresh, SendFresh,
         BootstrapDone, shared, client
<1>2. scene.live \subseteq Rooms
  BY SceneTyped DEF TypeOK
<1>3. CASE SyncDone
  <2>1. UNCHANGED <<table, joined, tx>> /\ sync.pc = "syncing"
    BY <1>3, RetainKeeps DEF SyncDone, CalmNow, TypeOK
  <2>2. \A c : Announced(c) => Announced(c)'
    BY <1>1, <2>1 DEF Announced, Told, Panicked
  <2>3. QED
    BY <1>1, <2>1, <2>2 DEF CalmNow, Kept, Parting, PartQueued
<1>4. CASE SyncFails
  BY <1>4 DEF SyncFails, Calm
<1>5. CASE MapRoom
  <2>1. PICK r \in sync.todo : \E t2 \in Mapping(r) : table' = t2
    BY <1>5 DEF MapRoom
  <2>2. r \in Rooms /\ r \in scene.live
    BY <1>2, <1>5 DEF MapRoom, TypeOK
  <2>3. PICK t2 \in Mapping(r) : table' = t2
    BY <2>1
  <2>4. Kept(t2) /\ ChannelEntries(table) \subseteq ChannelEntries(t2)
    BY <2>2, MappingKeeps DEF CalmNow, TypeOK
  <2>5. UNCHANGED <<joined, tx>> /\ sync.pc = "map"
    BY <1>5 DEF MapRoom
  <2>6. \A c : Announced(c) => Announced(c)'
    BY <1>1, <2>3, <2>4, <2>5 DEF Announced, Told, Panicked
  <2>7. Kept(table)'
    BY <1>1, <2>3, <2>4 DEF Kept
  <2>8. QED
    BY <1>1, <2>5, <2>6, <2>7 DEF CalmNow, Parting, PartQueued
<1>6. CASE MapDone \/ BootstrapDone
  <2>1. UNCHANGED <<table, joined, tx>> /\ sync.pc # "send"
    BY <1>6 DEF MapDone, BootstrapDone, shared
  <2>2. \A c : Announced(c) => Announced(c)'
    BY <1>1, <2>1 DEF Announced, Told, Panicked
  <2>3. QED
    BY <1>1, <2>1, <2>2 DEF CalmNow, Kept, Parting, PartQueued
<1>7. CASE JoinFresh
  <2>1. PICK ch \in sync.fresh :
          /\ joined' = joined \cup {ch}
          /\ sync' = [sync EXCEPT !.fresh = @ \ {ch},
                                  !.pc = IF ch \in joined THEN "join" ELSE "send",
                                  !.todo = IF ch \in joined THEN {} ELSE {ch}]
    BY <1>7 DEF JoinFresh
  <2>2. UNCHANGED <<table, tx>> /\ sync.pc = "join"
    BY <1>7 DEF JoinFresh
  <2>3. \A c : Announced(c) => Announced(c)'
    BY <1>1, <2>2 DEF Announced, Told, Panicked
  <2>4. CASE ch \in joined
    BY <1>1, <2>1, <2>2, <2>3, <2>4 DEF CalmNow, Kept, Parting, PartQueued
  <2>5. CASE ch \notin joined
    <3>1. sync'.pc = "send" /\ sync'.todo = {ch}
      BY <2>1, <2>5 DEF TypeOK
    <3>2. Announced(ch)'
      BY <3>1 DEF Announced
    <3>3. QED
      BY <1>1, <2>1, <2>2, <2>3, <3>2 DEF CalmNow, Kept, Parting, PartQueued
  <2>6. QED
    BY <2>4, <2>5
<1>8. CASE SendFresh
  <2>1. PICK ch \in sync.todo : Send(Join(ch))
    BY <1>8 DEF SendFresh
  <2>2. sync.todo = {ch} /\ ch \in Channels
    BY <1>8, <2>1 DEF SendFresh, TypeOK
  <2>3. Join(ch) \in Announcement /\ Join(ch).kind # "PART"
    BY <2>2, LinesTyped DEF Join
  <2>4. /\ \A c : Told(c) => Told(c)'
        /\ Told(ch)' /\ (~PartQueued => ~PartQueued')
    BY <1>1, <2>1, <2>3, TellSent DEF Send
  <2>5. UNCHANGED <<table, joined>>
    BY <1>8 DEF SendFresh
  <2>6. \A c : Announced(c) => Announced(c)'
    BY <1>1, <2>2, <2>4, <2>5 DEF Announced, Panicked
  <2>7. QED
    BY <1>1, <2>4, <2>5, <2>6 DEF CalmNow, Kept, Parting
<1>9. QED
  BY <1>3, <1>4, <1>5, <1>6, <1>7, <1>8 DEF Bootstrap

LEMMA HandlerCalm == TypeOK /\ RelayInv /\ CalmNow /\ HandlerTask => CalmNow'
<1> SUFFICES ASSUME TypeOK, RelayInv, CalmNow, HandlerTask PROVE CalmNow'
  OBVIOUS
<1>1. UNCHANGED <<scene, heard, burst, sync, reader, joiners>>
  BY DEF HandlerTask, HandlerEnsure, RenderNothing, CheckJoined, HandlerJoin, HandlerLine,
         SendTopic, shared, client
<1>2. CASE HandlerEnsure
  <2>1. PICK t2 \in Mapping(handler.room) : table' = t2
    BY <1>2 DEF HandlerEnsure
  <2>2. handler.room \in Rooms /\ handler.room \in scene.live
    BY <1>2, SceneTyped DEF HandlerEnsure, TypeOK
  <2>3. Kept(t2) /\ ChannelEntries(table) \subseteq ChannelEntries(t2)
    BY <2>2, MappingKeeps DEF CalmNow, TypeOK
  <2>4. UNCHANGED <<joined, tx>> /\ handler.pc = "ensure"
    BY <1>2 DEF HandlerEnsure
  <2>5. \A c : Announced(c) => Announced(c)'
    BY <1>1, <2>1, <2>3, <2>4 DEF Announced, Told, Panicked
  <2>6. Kept(table)'
    BY <1>1, <2>1, <2>3 DEF Kept
  <2>7. QED
    BY <1>1, <2>4, <2>5, <2>6 DEF CalmNow, Parting, PartQueued
<1>3. CASE RenderNothing
  <2>1. UNCHANGED <<table, joined, tx>> /\ handler.pc = "render"
    BY <1>3 DEF RenderNothing, shared
  <2>2. \A c : Announced(c) => Announced(c)'
    BY <1>1, <2>1 DEF Announced, Told, Panicked
  <2>3. QED
    BY <1>1, <2>1, <2>2 DEF CalmNow, Kept, Parting, PartQueued
<1>4. CASE CheckJoined
  <2>1. UNCHANGED <<table, tx>> /\ handler.pc = "render"
    BY <1>4 DEF CheckJoined
  <2>2. \A c : Announced(c) => Announced(c)'
    BY <1>1, <2>1 DEF Announced, Told, Panicked
  <2>3. CASE joined' = joined
    BY <1>1, <2>1, <2>2, <2>3 DEF CalmNow, Kept, Parting, PartQueued
  <2>4. CASE joined' # joined
    <3>1. /\ joined' = joined \cup {handler.chan}
          /\ handler'.pc = "join" /\ handler'.chan = handler.chan
      BY <1>4, <2>4 DEF CheckJoined, TypeOK
    <3>2. \A c : c = handler.chan => Announced(c)'
      BY <3>1 DEF Announced
    <3>3. QED
      BY <1>1, <2>1, <2>2, <3>1, <3>2 DEF CalmNow, Kept, Parting, PartQueued
  <2>5. QED
    BY <2>3, <2>4
<1>5. CASE HandlerJoin
  <2>1. Join(handler.chan) \in Announcement /\ Join(handler.chan).kind # "PART"
    BY <1>5, LinesTyped DEF HandlerJoin, TypeOK, Join
  <2>2. /\ \A c : Told(c) => Told(c)'
        /\ \A c : c = handler.chan => Told(c)'
        /\ ~PartQueued => ~PartQueued'
    BY <1>1, <1>5, <2>1, TellSent DEF HandlerJoin, Send
  <2>3. UNCHANGED <<table, joined>>
    BY <1>5 DEF HandlerJoin
  <2>4. \A c : Announced(c) => Announced(c)'
    BY <1>1, <2>2, <2>3 DEF Announced, Panicked
  <2>5. QED
    BY <1>1, <2>2, <2>3, <2>4 DEF CalmNow, Kept, Parting
<1>6. ASSUME NEW line \in Announcement, line.kind \notin {"JOIN", "PART"}, handler.pc # "join",
             Send(line), UNCHANGED <<table, joined>>
      PROVE  CalmNow'
  <2>1. /\ \A c : Told(c) => Told(c)'
        /\ ~PartQueued => ~PartQueued'
    BY <1>1, <1>6, TellSent DEF Send
  <2>2. \A c : Announced(c) => Announced(c)'
    BY <1>1, <1>6, <2>1 DEF Announced, Panicked
  <2>3. QED
    BY <1>1, <1>6, <2>1, <2>2 DEF CalmNow, Kept, Parting
<1>7. CASE HandlerLine
  <2>0. taken \in 0 .. MaxEvents
    BY <1>7, RelayConstants DEF HandlerLine, TypeOK, RelayInv, Counted, Undecided
  <2>1. /\ Privmsg(handler.chan, taken) \in Announcement
        /\ Privmsg(handler.chan, taken).kind \notin {"JOIN", "PART"}
    BY <2>0, LinesTyped DEF TypeOK, Privmsg
  <2>2. QED
    BY <1>6, <1>7, <2>1 DEF HandlerLine
<1>8. CASE SendTopic
  <2>1. Topic(handler.chan) \in Announcement /\ Topic(handler.chan).kind \notin {"JOIN", "PART"}
    BY <1>8, LinesTyped DEF TypeOK, Topic
  <2>2. QED
    BY <1>6, <1>8, <2>1 DEF SendTopic
<1>9. QED
  BY <1>2, <1>3, <1>4, <1>5, <1>7, <1>8 DEF HandlerTask

LEMMA EventsCalm == TypeOK /\ CalmNow /\ Events => CalmNow'
<1> SUFFICES ASSUME TypeOK, CalmNow, NEW r \in scene.live, Dispatch(r) \/ TopicChange(r)
             PROVE  CalmNow'
  BY DEF Events
<1>1. /\ handler.pc = "idle"
      /\ UNCHANGED <<scene, table, joined, tx, heard, burst, sync, reader, joiners>>
  BY DEF Dispatch, TopicChange, shared, client
<1>2. \A c : Announced(c) => Announced(c)'
  BY <1>1 DEF Announced, Told, Panicked
<1>3. QED
  BY <1>1, <1>2 DEF CalmNow, Kept, Parting, PartQueued

LEMMA ReaderCalm == TypeOK /\ Calm /\ CalmNow /\ (Commands \/ ReadLoop \/ Joiners) => CalmNow'
<1> SUFFICES ASSUME TypeOK, Calm, CalmNow, Commands \/ ReadLoop \/ Joiners PROVE CalmNow'
  OBVIOUS
<1>1. ASSUME NEW ch \in Channels, ClientJoin(ch) PROVE CalmNow'
  <2>1. /\ reader.pc = "idle" /\ reader'.pc = "join"
        /\ UNCHANGED <<scene, table, joined, tx, heard, burst, sync, handler, joiners>>
    BY <1>1 DEF ClientJoin, shared, client
  <2>2. \A c : Announced(c) => Announced(c)'
    BY <2>1 DEF Announced, Told, Panicked
  <2>3. QED
    BY <2>1, <2>2 DEF CalmNow, Kept, Parting, PartQueued
<1>2. ASSUME NEW ch \in Channels, ClientPart(ch) PROVE CalmNow'
  BY <1>2 DEF ClientPart, Calm, TypeOK
<1>3. CASE JoinFound
  <2>1. /\ reader.pc = "join" /\ reader'.pc = "idle" /\ reader.chan \in Channels
        /\ joined' = joined \cup {reader.chan}
        /\ joiners' = [joiners EXCEPT ![reader.chan] = @ + 1]
        /\ UNCHANGED <<scene, table, tx, heard, burst, sync, handler>>
    BY <1>3 DEF JoinFound, ReaderIdle, client, TypeOK
  <2>2. \A c \in Channels : joiners[c] > 0 \/ c = reader.chan => joiners'[c] > 0
    BY <2>1 DEF TypeOK
  <2>3. \A c \in joined : Announced(c) => Announced(c)'
    BY <2>1, <2>2 DEF Announced, Told, Panicked, TypeOK
  <2>4. \A c : c = reader.chan => Announced(c)'
    BY <2>1, <2>2 DEF Announced
  <2>5. QED
    BY <2>1, <2>3, <2>4 DEF CalmNow, Kept, Parting, PartQueued
<1>4. CASE JoinPanics
  <2>1. reader'.pc = "panicked" /\ tx' = <<>> /\ UNCHANGED <<scene, table>>
    BY <1>4 DEF JoinPanics
  <2>2. QED
    BY <2>1 DEF CalmNow, Kept, Parting, PartQueued, Announced, Panicked
<1>5. CASE ReaderSendsPart
  BY <1>5 DEF ReaderSendsPart, CalmNow, Parting
<1>6. ASSUME NEW ch \in Channels, JoinerSends(ch) PROVE CalmNow'
  <2>1. /\ Send(Join(ch)) /\ joiners' = [joiners EXCEPT ![ch] = @ - 1]
        /\ UNCHANGED <<scene, table, joined, heard, burst, sync, handler, reader>>
    BY <1>6 DEF JoinerSends, client
  <2>2. Join(ch) \in Announcement /\ Join(ch).kind # "PART"
    BY LinesTyped DEF Join
  <2>3. /\ \A c : Told(c) => Told(c)'
        /\ Told(ch)' /\ (~PartQueued => ~PartQueued')
    BY <2>1, <2>2, TellSent DEF Send
  <2>4. \A c \in Channels : c # ch => joiners'[c] = joiners[c]
    BY <2>1 DEF TypeOK
  <2>5. \A c \in joined : Announced(c) => Announced(c)'
    BY <2>1, <2>3, <2>4 DEF Announced, Panicked, TypeOK
  <2>6. QED
    BY <2>1, <2>3, <2>5 DEF CalmNow, Kept, Parting
<1>7. QED
  BY <1>1, <1>2, <1>3, <1>4, <1>5, <1>6 DEF Commands, ReadLoop, Joiners

LEMMA DeliverCalm == TypeOK /\ CalmNow /\ Deliver => CalmNow'
<1> SUFFICES ASSUME TypeOK, CalmNow, Deliver PROVE CalmNow'
  OBVIOUS
<1>1. UNCHANGED <<scene, table, joined, burst, sync, handler, reader, joiners>>
  BY DEF Deliver, tasks
<1>2. ~PartQueued' /\ \A c : Told(c) => Told(c)'
  BY TellDelivered DEF CalmNow, Parting
<1>3. \A c : Announced(c) => Announced(c)'
  BY <1>1, <1>2 DEF Announced, Panicked
<1>4. QED
  BY <1>1, <1>2, <1>3 DEF CalmNow, Kept, Parting

LEMMA CalmStep == TypeOK /\ RelayInv /\ CalmInv /\ [Next]_vars => CalmInv'
<1> SUFFICES ASSUME TypeOK, RelayInv, CalmInv, [Next]_vars PROVE CalmInv'
  OBVIOUS
<1>1. UNCHANGED scene
  BY DEF Next, BurstTask, BurstStart, BurstJoin, Bootstrap, SyncDone, SyncFails, MapRoom,
         MapDone, JoinFresh, SendFresh, BootstrapDone, HandlerTask, HandlerEnsure,
         RenderNothing, CheckJoined, HandlerJoin, HandlerLine, SendTopic, Events, Dispatch,
         TopicChange, Commands, ClientJoin, ClientPart, ReadLoop, JoinFound, JoinPanics,
         ReaderSendsPart, Joiners, JoinerSends, Deliver, vars
<1>2. Calm' = Calm
  BY <1>1 DEF Calm
<1>3. ASSUME Calm, CalmNow PROVE CalmNow'
  <2>1. CASE BurstTask
    BY <1>3, <2>1, BurstCalm
  <2>2. CASE Bootstrap
    BY <1>3, <2>2, BootstrapCalm
  <2>3. CASE HandlerTask
    BY <1>3, <2>3, HandlerCalm
  <2>4. CASE Events
    BY <1>3, <2>4, EventsCalm
  <2>5. CASE Commands \/ ReadLoop \/ Joiners
    BY <1>3, <2>5, ReaderCalm
  <2>6. CASE Deliver
    BY <1>3, <2>6, DeliverCalm
  <2>7. CASE UNCHANGED vars
    <3>1. UNCHANGED <<scene, table, joined, tx, heard, burst, sync, handler, reader, joiners>>
      BY <2>7 DEF vars, shared, tasks, client
    <3>2. \A c : Announced(c) => Announced(c)'
      BY <3>1 DEF Announced, Told, Panicked
    <3>3. QED
      BY <1>3, <3>1, <3>2 DEF CalmNow, Kept, Parting, PartQueued
  <2>8. QED
    BY <2>1, <2>2, <2>3, <2>4, <2>5, <2>6, <2>7 DEF Next
<1>4. QED
  BY <1>2, <1>3 DEF CalmInv

\* Once every task is done, every channel the bridge believes the client has
\* joined was announced to it: whoever put it into `joined` had a JOIN to
\* send, and nobody skips a JOIN that another task does not send
\* (mod.rs:471-481, server.rs 234-251, 1911-1928).
THEOREM AnnouncedInTheEnd == Spec => []AnnouncedWhenQuiet
<1>1. ASSUME TypeOK, RelayInv, CalmInv, Calm, Quiet, NEW ch \in joined PROVE ch \in heard
  <2>1. Announced(ch) /\ ch \in Channels
    BY <1>1 DEF CalmInv, CalmNow, TypeOK
  <2>2. ~Panicked
    BY <1>1 DEF RelayInv, DeadWhenPanicked, Quiet
  <2>3. tx = <<>> /\ joiners[ch] = 0
    BY <1>1, <2>1 DEF Quiet
  <2>4. QED
    BY <1>1, <2>1, <2>2, <2>3 DEF Announced, Told, Quiet
<1>2. TypeOK /\ RelayInv /\ CalmInv => AnnouncedWhenQuiet
  BY <1>1 DEF AnnouncedWhenQuiet
<1>3. Init => TypeOK /\ RelayInv /\ CalmInv
  BY InitTyped, InitRelay, InitCalm
<1>4. QED
  BY <1>2, <1>3, RelayStep, CalmStep, PTL DEF Spec
=============================================================================
