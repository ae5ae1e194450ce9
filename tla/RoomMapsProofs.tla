--------------------------- MODULE RoomMapsProofs ---------------------------
(***************************************************************************)
(* For any number of rooms, names, topics and connections, and under any   *)
(* of the faults: the state is well typed, every table a connection works  *)
(* with or will load routes both ways, no connection renames a room it     *)
(* keeps mapped, and a room without a name finds one.                      *)
(*                                                                         *)
(* And of Queries, which works on these tables, for any users and nicks: a *)
(* line to a nick reaches a user of that nick, provided that the names the *)
(* table makes up are nobody's, and a second DM is made only by a line that*)
(* races the sync.                                                         *)
(*                                                                         *)
(* And of both: a room keeps one name, for connections that come one after *)
(* the other and finish their saves.                                       *)
(***************************************************************************)
EXTENDS Queries, FiniteSetTheorems, WellFoundedInduction, TLAPS

-----------------------------------------------------------------------------
\* Every operation on a table keeps it well formed and consistent.

\* A new topic changes nothing that names a room (rooms.rs ensure, push_topic).
LEMMA WithTopicKeeps ==
    ASSUME NEW t \in SUBSET RoomEntry, Consistent(t), NEW r, NEW topic \in Topics
    PROVE  WithTopic(t, r, topic) \in SUBSET RoomEntry /\ Consistent(WithTopic(t, r, topic))
<1> DEFINE F(e) == IF e.room = r THEN [e EXCEPT !.topic = topic] ELSE e
<1>1. \A e \in t : /\ F(e) \in RoomEntry
                   /\ F(e).room = e.room
                   /\ F(e).channel = e.channel
                   /\ F(e).query = e.query
  BY DEF RoomEntry
<1>2. WithTopic(t, r, topic) = {F(e) : e \in t}
  BY DEF WithTopic
<1> HIDE DEF F
<1>3. QED
  BY <1>1, <1>2 DEF Consistent, OneEntryPerRoom, ChannelsUnique, ChannelXorQuery

\* Turning a room into a query gives its channel name back.
LEMMA AsQueryKeeps ==
    ASSUME NEW t \in SUBSET RoomEntry, Consistent(t), NEW r, NEW nick \in Nicks
    PROVE  AsQuery(t, r, nick) \in SUBSET RoomEntry /\ Consistent(AsQuery(t, r, nick))
<1> DEFINE F(e) == IF e.room = r
                     THEN [e EXCEPT !.query = nick, !.channel = NoChannel, !.topic = NoTopic]
                     ELSE e
<1>1. nick \in Queries /\ nick # NoQuery /\ NoTopic \in Topics
  BY TableAssumption DEF Queries
<1>2. \A e \in t : /\ F(e) \in RoomEntry
                   /\ F(e).room = e.room
                   /\ F(e).channel = IF e.room = r THEN NoChannel ELSE e.channel
                   /\ F(e).query = IF e.room = r THEN nick ELSE e.query
  BY <1>1 DEF RoomEntry
<1>3. AsQuery(t, r, nick) = {F(e) : e \in t}
  BY DEF AsQuery
<1> HIDE DEF F
<1>4. AsQuery(t, r, nick) \in SUBSET RoomEntry
  BY <1>2, <1>3
<1>5. OneEntryPerRoom(AsQuery(t, r, nick))
  BY <1>2, <1>3 DEF Consistent, OneEntryPerRoom
<1>6. ChannelsUnique(AsQuery(t, r, nick))
  BY <1>2, <1>3 DEF Consistent, ChannelsUnique
<1>7. ChannelXorQuery(AsQuery(t, r, nick))
  BY <1>1, <1>2, <1>3 DEF Consistent, ChannelXorQuery
<1>8. QED
  BY <1>4, <1>5, <1>6, <1>7 DEF Consistent

\* The loop of unique_channel returns a name no entry holds.
LEMMA UniqueChannelIsFree ==
    ASSUME NEW t, NEW base \in Bases, NEW ch, UniqueChannel(t, base, ch)
    PROVE  ch \in Channels /\ \A e \in t : e.channel # ch
BY DEF UniqueChannel, Channels

\* Pushing a channel entry for a room without one.
LEMMA PushChannelKeeps ==
    ASSUME NEW t \in SUBSET RoomEntry, Consistent(t),
           NEW r \in Rooms, ~Mapped(t, r),
           NEW ch \in Channels, \A e \in t : e.channel # ch,
           NEW topic \in Topics
    PROVE  /\ PushChannel(t, r, ch, topic) \in SUBSET RoomEntry
           /\ Consistent(PushChannel(t, r, ch, topic))
<1> DEFINE new == [room |-> r, channel |-> ch, query |-> NoQuery, topic |-> topic]
<1>1. /\ new \in RoomEntry
      /\ new.room = r
      /\ new.channel = ch
      /\ new.query = NoQuery
  BY DEF RoomEntry
<1>2. PushChannel(t, r, ch, topic) = t \cup {new}
  BY DEF PushChannel
<1>3. ch # NoChannel
  BY TableAssumption
<1>4. \A e \in t : e.room # r
  BY DEF Mapped, GetByRoom
<1> HIDE DEF new
<1>5. QED
  BY <1>1, <1>2, <1>3, <1>4
  DEF Consistent, OneEntryPerRoom, ChannelsUnique, ChannelXorQuery

\* Pushing a query entry for a room without one.
LEMMA PushQueryKeeps ==
    ASSUME NEW t \in SUBSET RoomEntry, Consistent(t),
           NEW r \in Rooms, ~Mapped(t, r), NEW q \in Queries
    PROVE  /\ PushQuery(t, r, q) \in SUBSET RoomEntry
           /\ Consistent(PushQuery(t, r, q))
<1> DEFINE new == [room |-> r, channel |-> NoChannel, query |-> q, topic |-> NoTopic]
<1>1. /\ new \in RoomEntry
      /\ new.room = r
      /\ new.channel = NoChannel
      /\ new.query = q
  BY TableAssumption DEF RoomEntry
<1>2. PushQuery(t, r, q) = t \cup {new}
  BY DEF PushQuery
<1>3. q # NoQuery
  BY TableAssumption
<1>4. \A e \in t : e.room # r
  BY DEF Mapped, GetByRoom
<1> HIDE DEF new
<1>5. QED
  BY <1>1, <1>2, <1>3, <1>4
  DEF Consistent, OneEntryPerRoom, ChannelsUnique, ChannelXorQuery

\* Any part of a consistent table is consistent (retain).
LEMMA RetainKeeps ==
    ASSUME NEW t \in SUBSET RoomEntry, Consistent(t), NEW keep
    PROVE  Retain(t, keep) \in SUBSET RoomEntry /\ Consistent(Retain(t, keep))
BY DEF Retain, Consistent, OneEntryPerRoom, ChannelsUnique, ChannelXorQuery

\* What a load returns is a table, consistent if every readable file is.
LEMMA LoadKeeps ==
    ASSUME TypeOK, TablesConsistent
    PROVE  Load(disk) \in SUBSET RoomEntry /\ Consistent(Load(disk))
BY DEF TypeOK, TablesConsistent, Load, Consistent, OneEntryPerRoom,
       ChannelsUnique, ChannelXorQuery

\* The channels of a well-formed table are channels.
LEMMA ChannelsOfType ==
    ASSUME NEW t \in SUBSET RoomEntry, NEW r
    PROVE  ChannelsOf(t, r) \in SUBSET Channels
BY DEF ChannelsOf, GetByRoom, RoomEntry

-----------------------------------------------------------------------------
IInv == TypeOK /\ TablesConsistent

LEMMA ShowAllType ==
    ASSUME TypeOK, NEW t \in SUBSET RoomEntry, ShowAll(t)
    PROVE  shown' \in [Rooms -> SUBSET Channels]
BY ChannelsOfType DEF TypeOK, ShowAll

\* Storing a consistent table, saved or not, keeps the invariant.
LEMMA PutKeeps ==
    ASSUME IInv, NEW c \in Conns, Locked(c),
           NEW t \in SUBSET RoomEntry, Consistent(t),
           NEW dirty, Put(c, t, dirty),
           shown' \in [Rooms -> SUBSET Channels]
    PROVE  IInv'
<1>1. /\ rooms' = [rooms EXCEPT ![c] = t]
      /\ up' = up
      /\ live' = live
  BY DEF Put
<1>2. \/ saving' = [saving EXCEPT ![c] = TRUE] /\ disk' = Truncated
      \/ saving' = saving /\ disk' = disk
  BY DEF Put, BeginSave
<1>3. TypeOK'
  BY <1>1, <1>2 DEF IInv, TypeOK, Locked, Unreadable
<1>4. TablesConsistent'
  BY <1>1, <1>2 DEF IInv, TypeOK, TablesConsistent, Unreadable
<1>5. QED
  BY <1>3, <1>4 DEF IInv

LEMMA EnsureKeeps ==
    ASSUME IInv, NEW c \in Conns, NEW r \in Rooms, Ensure(c, r)
    PROVE  IInv'
<1>1. /\ rooms[c] \in SUBSET RoomEntry
      /\ Consistent(rooms[c])
      /\ TypeOK
      /\ Locked(c)
  BY DEF IInv, TypeOK, TablesConsistent, Ensure
<1>2. PICK base \in Bases, topic \in Topics :
        EnsureKnown(c, r, topic) \/ EnsureNew(c, r, base, topic)
  BY DEF Ensure
<1>3. CASE EnsureKnown(c, r, topic)
  BY <1>1, <1>3, WithTopicKeeps, ShowAllType, PutKeeps DEF EnsureKnown
<1>4. CASE EnsureNew(c, r, base, topic)
  <2>1. PICK ch \in Channels :
          /\ UniqueChannel(rooms[c], base, ch)
          /\ Put(c, PushChannel(rooms[c], r, ch, topic), TRUE)
          /\ ShowAll(PushChannel(rooms[c], r, ch, topic))
    BY <1>4 DEF EnsureNew
  <2>2. ~Mapped(rooms[c], r) /\ \A e \in rooms[c] : e.channel # ch
    BY <1>4, <2>1, UniqueChannelIsFree DEF EnsureNew
  <2>3. /\ PushChannel(rooms[c], r, ch, topic) \in SUBSET RoomEntry
        /\ Consistent(PushChannel(rooms[c], r, ch, topic))
    BY <1>1, <2>2, PushChannelKeeps
  <2>4. QED
    BY <1>1, <2>1, <2>3, ShowAllType, PutKeeps
<1>5. QED
  BY <1>2, <1>3, <1>4

LEMMA EnsureQueryKeeps ==
    ASSUME IInv, NEW c \in Conns, NEW r \in Rooms, EnsureQuery(c, r)
    PROVE  IInv'
<1>1. /\ rooms[c] \in SUBSET RoomEntry
      /\ Consistent(rooms[c])
      /\ Locked(c)
      /\ shown' \in [Rooms -> SUBSET Channels]
  BY DEF IInv, TypeOK, TablesConsistent, EnsureQuery
<1>2. PICK nick \in Nicks : EnsureQueryKnown(c, r, nick) \/ EnsureQueryNew(c, r, nick)
  BY DEF EnsureQuery
<1>3. CASE EnsureQueryKnown(c, r, nick)
  BY <1>1, <1>3, AsQueryKeeps, PutKeeps DEF EnsureQueryKnown
<1>4. CASE EnsureQueryNew(c, r, nick)
  <2>1. PICK q \in Queries : Put(c, PushQuery(rooms[c], r, q), TRUE)
    BY <1>4 DEF EnsureQueryNew
  <2>2. ~Mapped(rooms[c], r)
    BY <1>4 DEF EnsureQueryNew
  <2>3. QED
    BY <1>1, <2>1, <2>2, PushQueryKeeps, PutKeeps
<1>5. QED
  BY <1>2, <1>3, <1>4

LEMMA PruneKeeps ==
    ASSUME IInv, NEW c \in Conns, PruneTo(c)
    PROVE  IInv'
<1>1. /\ rooms[c] \in SUBSET RoomEntry
      /\ Consistent(rooms[c])
      /\ Locked(c)
      /\ shown' \in [Rooms -> SUBSET Channels]
  BY DEF IInv, TypeOK, TablesConsistent, PruneTo
<1>2. Put(c, Retain(rooms[c], live), Retain(rooms[c], live) # rooms[c])
  BY DEF PruneTo
<1>3. QED
  BY <1>1, <1>2, RetainKeeps, PutKeeps

LEMMA PushTopicKeeps ==
    ASSUME IInv, NEW c \in Conns, NEW r \in Rooms, NEW topic \in Topics,
           PushTopic(c, r, topic)
    PROVE  IInv'
<1>1. /\ rooms[c] \in SUBSET RoomEntry
      /\ Consistent(rooms[c])
      /\ Locked(c)
      /\ shown' \in [Rooms -> SUBSET Channels]
  BY DEF IInv, TypeOK, TablesConsistent, PushTopic
<1>2. QED
  BY <1>1, WithTopicKeeps, PutKeeps DEF PushTopic

LEMMA ConnectKeeps ==
    ASSUME IInv, NEW c \in Conns, Connect(c)
    PROVE  IInv'
<1>1. Load(disk) \in SUBSET RoomEntry /\ Consistent(Load(disk))
  BY LoadKeeps DEF IInv
<1>2. /\ rooms' = [rooms EXCEPT ![c] = Load(disk)]
      /\ up' = [up EXCEPT ![c] = TRUE]
      /\ UNCHANGED <<saving, disk, live>>
  BY DEF Connect
<1>3. shown' \in [Rooms -> SUBSET Channels]
  BY <1>1, ShowAllType DEF IInv, Connect
<1> HIDE DEF Load
<1>4. TypeOK'
  BY <1>1, <1>2, <1>3 DEF IInv, TypeOK
<1>5. TablesConsistent'
  BY <1>1, <1>2 DEF IInv, TypeOK, TablesConsistent
<1>6. QED
  BY <1>4, <1>5 DEF IInv

\* The steps that change no table in memory, except to drop it.
LEMMA EmptyConsistent == Consistent({})
BY DEF Consistent, OneEntryPerRoom, ChannelsUnique, ChannelXorQuery

LEMMA OthersKeep ==
    ASSUME IInv,
           \/ \E c \in Conns : Close(c) \/ FinishSave(c) \/ FailSave(c)
           \/ \E r \in Rooms : JoinRoom(r) \/ LeaveRoom(r)
           \/ Crash
           \/ UNCHANGED vars
    PROVE  IInv'
<1> USE DEF IInv, TypeOK, TablesConsistent, Unreadable
<1>1. ASSUME NEW c \in Conns, Close(c) PROVE IInv'
  BY <1>1, EmptyConsistent DEF Close, Locked
<1>2. ASSUME NEW c \in Conns, FinishSave(c) PROVE IInv'
  BY <1>2 DEF FinishSave
<1>3. ASSUME NEW c \in Conns, FailSave(c) PROVE IInv'
  BY <1>3 DEF FailSave
<1>4. ASSUME NEW r \in Rooms, JoinRoom(r) PROVE IInv'
  <2>1. UNION {ChannelsOf(rooms[c], r) : c \in Conns} \in SUBSET Channels
    BY ChannelsOfType
  <2>2. QED
    BY <1>4, <2>1 DEF JoinRoom
<1>5. ASSUME NEW r \in Rooms, LeaveRoom(r) PROVE IInv'
  BY <1>5 DEF LeaveRoom
<1>6. CASE Crash
  BY <1>6, EmptyConsistent DEF Crash
<1>7. CASE UNCHANGED vars
  BY <1>7 DEF vars
<1>8. QED
  BY <1>1, <1>2, <1>3, <1>4, <1>5, <1>6, <1>7

LEMMA Inductive == Spec => []IInv
<1>1. Init => IInv
  BY EmptyConsistent DEF Init, IInv, TypeOK, TablesConsistent
<1>2. IInv /\ [Next]_vars => IInv'
  <2> SUFFICES ASSUME IInv, [Next]_vars PROVE IInv'
    OBVIOUS
  <2>1. CASE \E c \in Conns : Connect(c)
    BY <2>1, ConnectKeeps
  <2>2. CASE \E c \in Conns : PruneTo(c)
    BY <2>2, PruneKeeps
  <2>3. CASE \E c \in Conns, r \in Rooms : Ensure(c, r) \/ EnsureQuery(c, r)
    BY <2>3, EnsureKeeps, EnsureQueryKeeps
  <2>4. CASE \E c \in Conns, r \in Rooms, topic \in Topics : PushTopic(c, r, topic)
    BY <2>4, PushTopicKeeps
  <2>5. CASE \/ \E c \in Conns : Close(c) \/ FinishSave(c) \/ FailSave(c)
             \/ \E r \in Rooms : JoinRoom(r) \/ LeaveRoom(r)
             \/ Crash
             \/ UNCHANGED vars
    BY <2>5, OthersKeep
  <2>6. QED
    BY <2>1, <2>2, <2>3, <2>4, <2>5 DEF Next
<1>3. QED
  BY <1>1, <1>2, PTL DEF Spec

\* The state of the mapping is always well typed (type invariant of RoomMaps).
THEOREM TypeCorrect == Spec => []TypeOK
<1>1. IInv => TypeOK
  BY DEF IInv
<1>2. QED
  BY <1>1, Inductive, PTL

\* Every table a connection works with, or a later one will load, gives a room
\* one entry and no two rooms one channel (rooms.rs ensure, ensure_query,
\* prune_to, load), whatever saves, errors and crashes did.
THEOREM TablesStayConsistent == Spec => []TablesConsistent
<1>1. IInv => TablesConsistent
  BY DEF IInv
<1>2. QED
  BY <1>1, Inductive, PTL

-----------------------------------------------------------------------------
\* The candidates of one base are all different (`#b`, `#b_2`, `#b_3`, ...), and
\* those of one nick, folded.
CandidatesApart ==
    \A i, j \in Attempts :
        /\ \A b \in Bases : ChannelName(b, i) = ChannelName(b, j) => i = j
        /\ \A n \in Nicks : Fold(QueryName(n, i)) = Fold(QueryName(n, j)) => i = j

\* A room without an entry finds a name, whatever its base, or its nick, is.
NameIsLeft ==
    \A c \in Conns, r \in Rooms : ~Mapped(rooms[c], r) =>
        /\ \A b \in Bases : \E ch \in Channels : UniqueChannel(rooms[c], b, ch)
        /\ \A n \in Nicks : \E q \in Queries : UniqueQueryNick(rooms[c], n, q)

\* There are more attempts than rooms with an entry: two attempts that are taken
\* are taken by the same.
LEMMA HeldTwice ==
    ASSUME NEW t \in SUBSET RoomEntry, Consistent(t), NEW r \in Rooms, ~Mapped(t, r),
           NEW h \in [Attempts -> t]
    PROVE  \E i, j \in Attempts : i # j /\ h[i] = h[j]
<1> DEFINE others == Rooms \ {r}
           f == [i \in Attempts |-> h[i].room]
<1>1. \A e \in t : e.room \in others
  BY DEF Mapped, GetByRoom, RoomEntry
<1>2. f \in [Attempts -> others]
  BY <1>1
<1>3. /\ IsFiniteSet(Attempts) /\ IsFiniteSet(others)
      /\ Cardinality(others) < Cardinality(Attempts)
  <2> DEFINE n == Cardinality(Rooms)
  <2>1. n \in Nat /\ IsFiniteSet(Rooms)
    BY TableAssumption, FS_CardinalityType
  <2>2. IsFiniteSet(others) /\ Cardinality(others) = n - 1
    BY <2>1, FS_RemoveElement
  <2>3. n # 0
    BY <2>1, FS_EmptySet
  <2> HIDE DEF n
  <2>4. IsFiniteSet(1 .. n) /\ Cardinality(1 .. n) = IF 1 > n THEN 0 ELSE n - 1 + 1
    BY <2>1, FS_Interval
  <2>5. IsFiniteSet(1 .. n) /\ Cardinality(1 .. n) = n
    BY <2>1, <2>3, <2>4
  <2>6. QED
    BY <2>1, <2>2, <2>5 DEF n, Attempts
<1> HIDE DEF f, others
<1>4. PICK i, j \in Attempts : i # j /\ f[i] = f[j]
  BY <1>2, <1>3, FS_PigeonHole
<1>5. h[i].room = h[j].room
  BY <1>4 DEF f
<1>6. h[i] = h[j]
  BY <1>5 DEF Consistent, OneEntryPerRoom
<1>7. QED
  BY <1>4, <1>6

LEMMA ChannelLeft ==
    ASSUME CandidatesApart, NEW t \in SUBSET RoomEntry, Consistent(t),
           NEW r \in Rooms, ~Mapped(t, r), NEW b \in Bases
    PROVE  \E i \in Attempts : \A e \in t : e.channel # ChannelName(b, i)
<1> DEFINE h == [i \in Attempts |-> CHOOSE e \in t : e.channel = ChannelName(b, i)]
<1>1. SUFFICES ASSUME \A i \in Attempts : \E e \in t : e.channel = ChannelName(b, i) PROVE FALSE
  OBVIOUS
<1>2. h \in [Attempts -> t] /\ \A i \in Attempts : h[i].channel = ChannelName(b, i)
  BY <1>1
<1> HIDE DEF h
<1>3. PICK i, j \in Attempts : i # j /\ h[i] = h[j]
  BY <1>2, HeldTwice
<1>4. QED
  BY <1>2, <1>3 DEF CandidatesApart

LEMMA QueryNickLeft ==
    ASSUME CandidatesApart, NEW t \in SUBSET RoomEntry, Consistent(t),
           NEW r \in Rooms, ~Mapped(t, r), NEW n \in Nicks
    PROVE  \E i \in Attempts : GetByQuery(t, QueryName(n, i)) = {}
<1> DEFINE h == [i \in Attempts |-> CHOOSE e \in t : Fold(e.query) = Fold(QueryName(n, i))]
<1>1. SUFFICES ASSUME \A i \in Attempts : \E e \in t : Fold(e.query) = Fold(QueryName(n, i))
               PROVE  FALSE
  BY DEF GetByQuery
<1>2. h \in [Attempts -> t] /\ \A i \in Attempts : Fold(h[i].query) = Fold(QueryName(n, i))
  BY <1>1
<1> HIDE DEF h
<1>3. PICK i, j \in Attempts : i # j /\ h[i] = h[j]
  BY <1>2, HeldTwice
<1>4. QED
  BY <1>2, <1>3 DEF CandidatesApart

\* If an attempt succeeds, there is a first that does.
LEMMA FirstAttempt ==
    ASSUME NEW good, good \subseteq Attempts, good # {}
    PROVE  \E i \in good : \A j \in 1 .. (i - 1) : j \in Attempts /\ j \notin good
<1> DEFINE Smaller == {ss \in Nat \X Nat : ss[1] < ss[2]}
<1>1. Attempts \subseteq Nat /\ \A i \in Attempts : \A j \in 1 .. (i - 1) : j \in Attempts /\ j < i
  <2>1. Cardinality(Rooms) \in Nat
    BY TableAssumption, FS_CardinalityType
  <2>2. QED
    BY <2>1 DEF Attempts
<1>2. IsWellFoundedOn(Smaller, Nat)
  BY NatLessThanWellFounded DEF OpToRel
<1> HIDE DEF Smaller
<1>3. PICK i \in good : \A j \in good : <<j, i>> \notin Smaller
  BY <1>1, <1>2, WFMin
<1>4. ASSUME NEW j \in 1 .. (i - 1) PROVE j \in Attempts /\ j \notin good
  <2>1. j \in Attempts /\ j < i /\ j \in Nat /\ i \in Nat
    BY <1>1
  <2>2. <<j, i>> \in Smaller
    BY <2>1 DEF Smaller
  <2>3. QED
    BY <1>3, <2>1, <2>2
<1>5. QED
  BY <1>4

\* Whatever happened before, a connection finds a free name for a room it does
\* not know, and a free nick for a query, within as many attempts as there are
\* rooms: the loops of unique_channel and unique_query_nick end (rooms.rs), and
\* the bound on the attempts leaves no `ensure` out.
THEOREM NameIsFound ==
    ASSUME CandidatesApart
    PROVE  Spec => []NameIsLeft
<1>1. IInv => NameIsLeft
  <2>1. SUFFICES ASSUME IInv, NEW c \in Conns, NEW r \in Rooms, ~Mapped(rooms[c], r)
                 PROVE  /\ \A b \in Bases : \E ch \in Channels : UniqueChannel(rooms[c], b, ch)
                        /\ \A n \in Nicks : \E q \in Queries : UniqueQueryNick(rooms[c], n, q)
    BY DEF NameIsLeft
  <2> DEFINE t == rooms[c]
  <2>2. t \in SUBSET RoomEntry /\ Consistent(t) /\ ~Mapped(t, r)
    BY <2>1 DEF IInv, TypeOK, TablesConsistent
  <2> HIDE DEF t
  <2>3. ASSUME NEW b \in Bases PROVE \E ch \in Channels : UniqueChannel(t, b, ch)
    <3> DEFINE good == {i \in Attempts : \A e \in t : e.channel # ChannelName(b, i)}
    <3>1. good \subseteq Attempts /\ good # {}
      BY <2>2, ChannelLeft
    <3> HIDE DEF good
    <3>2. PICK i \in good : \A j \in 1 .. (i - 1) : j \in Attempts /\ j \notin good
      BY <3>1, FirstAttempt
    <3>3. UniqueChannel(t, b, ChannelName(b, i)) /\ ChannelName(b, i) \in Channels
      BY <3>2 DEF good, UniqueChannel, Channels
    <3>4. QED
      BY <3>3
  <2>4. ASSUME NEW n \in Nicks PROVE \E q \in Queries : UniqueQueryNick(t, n, q)
    <3> DEFINE good == {i \in Attempts : GetByQuery(t, QueryName(n, i)) = {}}
    <3>1. good \subseteq Attempts /\ good # {}
      BY <2>2, QueryNickLeft
    <3> HIDE DEF good
    <3>2. PICK i \in good : \A j \in 1 .. (i - 1) : j \in Attempts /\ j \notin good
      BY <3>1, FirstAttempt
    <3>3. UniqueQueryNick(t, n, QueryName(n, i)) /\ QueryName(n, i) \in Queries
      BY <3>2 DEF good, UniqueQueryNick, Queries
    <3>4. QED
      BY <3>3
  <2>5. QED
    BY <2>3, <2>4 DEF t
<1>2. QED
  BY <1>1, Inductive, PTL

-----------------------------------------------------------------------------
\* No room of t is renamed when t becomes u.
KeepsNames(t, u) == \A e \in t : \A f \in u :
    e.room = f.room => f.channel \in {e.channel, NoChannel}

LEMMA TableStepsKeepNames ==
    ASSUME NEW t \in SUBSET RoomEntry, Consistent(t), NEW r
    PROVE  /\ KeepsNames(t, t)
           /\ \A topic : KeepsNames(t, WithTopic(t, r, topic))
           /\ \A nick : KeepsNames(t, AsQuery(t, r, nick))
           /\ ~Mapped(t, r) => \A ch, topic : KeepsNames(t, PushChannel(t, r, ch, topic))
           /\ ~Mapped(t, r) => \A q : KeepsNames(t, PushQuery(t, r, q))
           /\ \A keep : KeepsNames(t, Retain(t, keep))
<1> USE DEF KeepsNames, Consistent, OneEntryPerRoom
<1>1. KeepsNames(t, t)
  OBVIOUS
<1>2. ASSUME NEW topic PROVE KeepsNames(t, WithTopic(t, r, topic))
  <2>1. \A f \in WithTopic(t, r, topic) :
          \E e \in t : f.room = e.room /\ f.channel = e.channel
    BY DEF WithTopic, RoomEntry
  <2>2. QED
    BY <2>1
<1>3. ASSUME NEW nick PROVE KeepsNames(t, AsQuery(t, r, nick))
  <2>1. \A f \in AsQuery(t, r, nick) :
          \E e \in t : f.room = e.room /\ f.channel \in {e.channel, NoChannel}
    BY DEF AsQuery, RoomEntry
  <2>2. QED
    BY <2>1
<1>4. ASSUME ~Mapped(t, r), NEW ch, NEW topic
      PROVE  KeepsNames(t, PushChannel(t, r, ch, topic))
  BY <1>4 DEF PushChannel, Mapped, GetByRoom
<1>5. ASSUME ~Mapped(t, r), NEW q PROVE KeepsNames(t, PushQuery(t, r, q))
  BY <1>5 DEF PushQuery, Mapped, GetByRoom
<1>6. ASSUME NEW keep PROVE KeepsNames(t, Retain(t, keep))
  BY DEF Retain
<1>7. QED
  BY <1>1, <1>2, <1>3, <1>4, <1>5, <1>6

NoRename == \A c \in Conns : up[c] /\ up'[c] => KeepsNames(rooms[c], rooms'[c])

LEMMA PutKeepsNames ==
    ASSUME IInv, NEW c \in Conns, NEW t, NEW dirty, Put(c, t, dirty),
           KeepsNames(rooms[c], t)
    PROVE  NoRename
<1>1. rooms' = [rooms EXCEPT ![c] = t]
  BY DEF Put
<1>2. \A d \in Conns : KeepsNames(rooms[d], rooms[d])
  BY DEF IInv, TablesConsistent, Consistent, OneEntryPerRoom, KeepsNames
<1>3. QED
  BY <1>1, <1>2 DEF NoRename, IInv, TypeOK

\* A step of a connection either stores a table that keeps the names of its
\* own, or leaves the tables of the connections that stay alone.
LEMMA StepKeepsNames ==
    ASSUME IInv, [Next]_vars
    PROVE  NoRename
<1>1. \A c \in Conns : rooms[c] \in SUBSET RoomEntry /\ Consistent(rooms[c])
  BY DEF IInv, TypeOK, TablesConsistent
<1>2. \A c \in Conns : KeepsNames(rooms[c], rooms[c])
  BY <1>1, TableStepsKeepNames
<1>3. ASSUME NEW c \in Conns, NEW r \in Rooms, Ensure(c, r) PROVE NoRename
  <2>1. PICK base \in Bases, topic \in Topics :
          EnsureKnown(c, r, topic) \/ EnsureNew(c, r, base, topic)
    BY <1>3 DEF Ensure
  <2>2. CASE EnsureKnown(c, r, topic)
    BY <1>1, <2>2, TableStepsKeepNames, PutKeepsNames DEF EnsureKnown
  <2>3. CASE EnsureNew(c, r, base, topic)
    BY <1>1, <2>3, TableStepsKeepNames, PutKeepsNames DEF EnsureNew
  <2>4. QED
    BY <2>1, <2>2, <2>3
<1>4. ASSUME NEW c \in Conns, NEW r \in Rooms, EnsureQuery(c, r) PROVE NoRename
  <2>1. PICK nick \in Nicks : EnsureQueryKnown(c, r, nick) \/ EnsureQueryNew(c, r, nick)
    BY <1>4 DEF EnsureQuery
  <2>2. CASE EnsureQueryKnown(c, r, nick)
    BY <1>1, <2>2, TableStepsKeepNames, PutKeepsNames DEF EnsureQueryKnown
  <2>3. CASE EnsureQueryNew(c, r, nick)
    BY <1>1, <2>3, TableStepsKeepNames, PutKeepsNames DEF EnsureQueryNew
  <2>4. QED
    BY <2>1, <2>2, <2>3
<1>5. ASSUME NEW c \in Conns, PruneTo(c) PROVE NoRename
  BY <1>1, <1>5, TableStepsKeepNames, PutKeepsNames DEF PruneTo
<1>6. ASSUME NEW c \in Conns, NEW r \in Rooms, NEW topic \in Topics,
             PushTopic(c, r, topic)
      PROVE  NoRename
  BY <1>1, <1>6, TableStepsKeepNames, PutKeepsNames DEF PushTopic
<1>7. ASSUME NEW c \in Conns, Connect(c) \/ Close(c) PROVE NoRename
  BY <1>2, <1>7 DEF Connect, Close, NoRename, IInv, TypeOK
<1>8. ASSUME rooms' = rooms PROVE NoRename
  BY <1>2, <1>8 DEF NoRename
<1>9. CASE Crash
  BY <1>9 DEF Crash, NoRename
<1>10. CASE \/ \E c \in Conns : FinishSave(c) \/ FailSave(c)
            \/ \E r \in Rooms : JoinRoom(r) \/ LeaveRoom(r)
            \/ UNCHANGED vars
  BY <1>8, <1>10 DEF FinishSave, FailSave, JoinRoom, LeaveRoom, vars
<1>11. QED
  BY <1>3, <1>4, <1>5, <1>6, <1>7, <1>9, <1>10 DEF Next

\* A connection never renames a room it keeps mapped: a change of the room's
\* name or topic in Matrix leaves the channel alone (README "room renames
\* surface as TOPIC, never as channel renames").
THEOREM ChannelNeverRenamed == Spec => NeverRenamed
<1>1. IInv /\ [Next]_vars => [NoRename]_vars
  BY StepKeepsNames
<1>2. [NoRename]_vars => [\A c \in Conns : up[c] /\ up'[c] =>
         \A e \in rooms[c] : \A f \in rooms'[c] :
             e.room = f.room => f.channel \in {e.channel, NoChannel}]_vars
  BY DEF NoRename, KeepsNames
<1>3. QED
  BY <1>1, <1>2, Inductive, PTL DEF Spec, NeverRenamed

-----------------------------------------------------------------------------

(* Queries *)

\* The names the table makes up, `query` and those with a suffix, are no
\* user's localpart.
NamesApart ==
    /\ MadeUp(Nobody)
    /\ \A n \in Nicks, i \in Attempts :
         Fold(QueryName(n, i)) = Fold(n) \/ MadeUp(QueryName(n, i))

-----------------------------------------------------------------------------
\* What a nick stands for.

Reaches(nick, r) == MadeUp(nick) \/ (r \in Rooms /\ party[r] \in Named(nick))

WellNamed(t) ==
    /\ t \in SUBSET RoomEntry
    /\ \A e \in t : e.query # NoQuery => Reaches(e.query, e.room)

TablesNamed ==
    /\ rooms \in [Conns -> SUBSET RoomEntry]
    /\ \A c \in Conns : WellNamed(rooms[c])
    /\ disk \notin Unreadable => WellNamed(disk)

TaskType == [pc : {"idle", "find", "resolve", "create", "label", "map", "send"},
             nick : Queries \cup {NoQuery}, user : Users \cup {NoUser},
             room : Rooms \cup {NoRoom}, as : Nicks \cup {NoQuery}, known : SUBSET Rooms]

\* A task that has a room has one its line may go to, and a task that maps it
\* labels it with the nick of its user, whoever has joined or left since.
TaskNamed(k) ==
    /\ k.pc = "create" => k.user \in Named(k.nick)
    /\ k.pc \in {"label", "map"} => k.room \in Rooms
    /\ k.pc \in {"label", "map", "send"} /\ k.nick # NoQuery => Reaches(k.nick, k.room)
    /\ k.pc = "map" /\ k.as # NoQuery => Reaches(k.as, k.room)
    /\ k.pc = "send" => k.nick # NoQuery

MatrixTyped ==
    /\ party \in [Rooms -> Users \cup {NoUser, Unborn}]
    /\ live \subseteq Rooms
    /\ direct \subseteq {r \in Rooms : party[r] \in Users}
    /\ arrived \subseteq {r \in Rooms : party[r] \in Users}

TasksTyped == task \in [Tasks -> TaskType]

NInv ==
    /\ MatrixTyped /\ TasksTyped /\ TablesNamed
    /\ \A t \in Tasks : TaskNamed(task[t])
    /\ \A l \in sent : Reaches(l.nick, l.room)

-----------------------------------------------------------------------------
\* A room keeps the party it was made for.
PartyKept == \A r \in Rooms : party[r] \in Users => party'[r] = party[r]

LEMMA ReachesStays ==
    ASSUME PartyKept
    PROVE  \A nick, r : Reaches(nick, r) => Reaches(nick, r)'
BY DEF PartyKept, Reaches, MadeUp, Named

\* Nicks that are spelled alike stand for the same users.
LEMMA SameNick ==
    ASSUME NEW n, NEW m, Fold(n) = Fold(m), NEW r, Reaches(n, r)
    PROVE  Reaches(m, r)
BY DEF Reaches, MadeUp, Named

-----------------------------------------------------------------------------
\* Every operation on a table keeps it well named.

LEMMA WithTopicNamed ==
    ASSUME NEW t, WellNamed(t), NEW r, NEW topic \in Topics
    PROVE  WellNamed(WithTopic(t, r, topic))
<1> DEFINE F(e) == IF e.room = r THEN [e EXCEPT !.topic = topic] ELSE e
<1>1. \A e \in t : F(e) \in RoomEntry /\ F(e).room = e.room /\ F(e).query = e.query
  BY DEF WellNamed, RoomEntry
<1>2. WithTopic(t, r, topic) = {F(e) : e \in t}
  BY DEF WithTopic
<1> HIDE DEF F
<1>3. QED
  BY <1>1, <1>2 DEF WellNamed

LEMMA AsQueryNamed ==
    ASSUME NEW t, WellNamed(t), NEW r, NEW nick \in Nicks, Reaches(nick, r)
    PROVE  WellNamed(AsQuery(t, r, nick))
<1> DEFINE F(e) == IF e.room = r
                     THEN [e EXCEPT !.query = nick, !.channel = NoChannel, !.topic = NoTopic]
                     ELSE e
<1>1. nick \in Queries /\ NoTopic \in Topics
  BY TableAssumption DEF Queries
<1>2. \A e \in t : /\ F(e) \in RoomEntry
                   /\ F(e).room = e.room
                   /\ F(e).query = IF e.room = r THEN nick ELSE e.query
  BY <1>1 DEF WellNamed, RoomEntry
<1>3. AsQuery(t, r, nick) = {F(e) : e \in t}
  BY DEF AsQuery
<1> HIDE DEF F
<1>4. QED
  BY <1>2, <1>3 DEF WellNamed

LEMMA PushChannelNamed ==
    ASSUME NEW t, WellNamed(t), NEW r \in Rooms, NEW ch \in Channels, NEW topic \in Topics
    PROVE  WellNamed(PushChannel(t, r, ch, topic))
<1> DEFINE new == [room |-> r, channel |-> ch, query |-> NoQuery, topic |-> topic]
<1>1. new \in RoomEntry /\ new.query = NoQuery
  BY DEF RoomEntry
<1>2. PushChannel(t, r, ch, topic) = t \cup {new}
  BY DEF PushChannel
<1> HIDE DEF new
<1>3. QED
  BY <1>1, <1>2 DEF WellNamed

\* The name of a new query is the nick, or a name the table makes up.
LEMMA PushQueryNamed ==
    ASSUME NamesApart, NEW t, WellNamed(t), NEW r \in Rooms,
           NEW nick \in Nicks, Reaches(nick, r),
           NEW q \in Queries, UniqueQueryNick(t, nick, q)
    PROVE  WellNamed(PushQuery(t, r, q))
<1> DEFINE new == [room |-> r, channel |-> NoChannel, query |-> q, topic |-> NoTopic]
<1>1. PICK i \in Attempts : q = QueryName(nick, i)
  BY DEF UniqueQueryNick
<1>2. Fold(q) = Fold(nick) \/ MadeUp(q)
  BY <1>1 DEF NamesApart
<1>3. Reaches(q, r)
  BY <1>2, SameNick DEF Reaches
<1>4. new \in RoomEntry /\ new.query = q /\ new.room = r
  BY TableAssumption DEF RoomEntry
<1>5. PushQuery(t, r, q) = t \cup {new}
  BY DEF PushQuery
<1> HIDE DEF new
<1>6. QED
  BY <1>3, <1>4, <1>5 DEF WellNamed

LEMMA PartOfTableNamed ==
    /\ WellNamed({})
    /\ \A t : WellNamed(t) => \A keep : WellNamed(Retain(t, keep))
    /\ TablesNamed => WellNamed(Load(disk))
BY DEF WellNamed, Retain, TablesNamed, Load

-----------------------------------------------------------------------------
\* Steps of the table.

LEMMA TablesStay ==
    ASSUME TablesNamed, PartyKept, UNCHANGED <<rooms, disk>>
    PROVE  TablesNamed'
<1>1. \A nick, r : Reaches(nick, r) => Reaches(nick, r)'
  BY ReachesStays
<1>2. QED
  BY <1>1 DEF TablesNamed, WellNamed

\* Storing a well-named table, saved or not.
LEMMA PutNamed ==
    ASSUME TablesNamed, UNCHANGED party, NEW c \in Conns, NEW dirty,
           NEW t, WellNamed(t), Put(c, t, dirty)
    PROVE  TablesNamed'
<1>1. rooms' = [rooms EXCEPT ![c] = t] /\ t \in SUBSET RoomEntry
  BY DEF Put, WellNamed
<1>2. disk' = disk \/ disk' = Truncated
  BY DEF Put, BeginSave
<1>3. \A nick, r : Reaches(nick, r)' <=> Reaches(nick, r)
  BY DEF Reaches, MadeUp, Named
<1>4. \A d \in Conns : rooms'[d] = IF d = c THEN t ELSE rooms[d]
  BY <1>1 DEF TablesNamed
<1>5. rooms' \in [Conns -> SUBSET RoomEntry]
  BY <1>1 DEF TablesNamed
<1>6. \A d \in Conns : \A e \in rooms'[d] : e.query # NoQuery => Reaches(e.query, e.room)
  BY <1>4 DEF TablesNamed, WellNamed
<1>7. disk' \notin Unreadable =>
        disk' \in SUBSET RoomEntry /\ \A e \in disk' : e.query # NoQuery => Reaches(e.query, e.room)
  BY <1>2 DEF TablesNamed, WellNamed, Unreadable
<1>8. QED
  BY <1>3, <1>5, <1>6, <1>7 DEF TablesNamed, WellNamed

LEMMA MapNamed ==
    ASSUME NamesApart, TablesNamed, UNCHANGED party, Conn \in Conns,
           NEW r \in Rooms, NEW nick \in Nicks \cup {NoQuery},
           nick # NoQuery => Reaches(nick, r), MapAs(r, nick)
    PROVE  TablesNamed'
<1>1. WellNamed(rooms[Conn])
  BY DEF TablesNamed
<1>2. CASE nick = NoQuery
  <2>1. PICK base \in Bases, topic \in Topics :
          EnsureKnown(Conn, r, topic) \/ EnsureNew(Conn, r, base, topic)
    BY <1>2 DEF MapAs
  <2>2. CASE EnsureKnown(Conn, r, topic)
    BY <1>1, <2>2, WithTopicNamed, PutNamed DEF EnsureKnown
  <2>3. CASE EnsureNew(Conn, r, base, topic)
    <3>1. PICK ch \in Channels : Put(Conn, PushChannel(rooms[Conn], r, ch, topic), TRUE)
      BY <2>3 DEF EnsureNew
    <3>2. QED
      BY <1>1, <3>1, PushChannelNamed, PutNamed
  <2>4. QED
    BY <2>1, <2>2, <2>3
<1>3. CASE nick # NoQuery
  <2>1. nick \in Nicks /\ Reaches(nick, r)
    BY <1>3
  <2>2. CASE EnsureQueryKnown(Conn, r, nick)
    BY <1>1, <2>1, <2>2, AsQueryNamed, PutNamed DEF EnsureQueryKnown
  <2>3. CASE EnsureQueryNew(Conn, r, nick)
    <3>1. PICK q \in Queries : /\ UniqueQueryNick(rooms[Conn], nick, q)
                               /\ Put(Conn, PushQuery(rooms[Conn], r, q), TRUE)
      BY <2>3 DEF EnsureQueryNew
    <3>2. QED
      BY <1>1, <2>1, <3>1, PushQueryNamed, PutNamed
  <2>4. QED
    BY <1>3, <2>2, <2>3 DEF MapAs
<1>4. QED
  BY <1>2, <1>3

LEMMA ConnectionNamed ==
    ASSUME TablesNamed, NEW c \in Conns, Connection(c)
    PROVE  TablesNamed'
<1>1. UNCHANGED party /\ WellNamed(rooms[c]) /\ WellNamed({}) /\ WellNamed(Load(disk))
  BY PartOfTableNamed DEF Connection, matrix, TablesNamed
<1>2. \A nick, r : Reaches(nick, r)' <=> Reaches(nick, r)
  BY <1>1 DEF Reaches, MadeUp, Named
<1>3. CASE PruneTo(c)
  BY <1>1, <1>3, PartOfTableNamed, PutNamed DEF PruneTo
<1>4. CASE Connect(c) \/ Close(c)
  <2>1. PICK t : WellNamed(t) /\ rooms' = [rooms EXCEPT ![c] = t] /\ disk' = disk
    BY <1>1, <1>4 DEF Connect, Close
  <2>2. QED
    BY <1>2, <2>1 DEF TablesNamed, WellNamed
<1>5. CASE FinishSave(c) \/ FailSave(c)
  <2>1. rooms' = rooms /\ disk' \in {disk, rooms[c], Garbled}
    BY <1>5 DEF FinishSave, FailSave
  <2>2. QED
    BY <1>1, <1>2, <2>1 DEF TablesNamed, WellNamed, Unreadable
<1>6. QED
  BY <1>3, <1>4, <1>5 DEF Connection

-----------------------------------------------------------------------------
\* Steps of the tasks and of Matrix.

LEMMA InitNamed == QInit => NInv
<1> SUFFICES ASSUME QInit PROVE NInv
  OBVIOUS
<1>1. TablesNamed
  BY DEF QInit, Init, TablesNamed, WellNamed
<1>2. \A t \in Tasks : task[t] = Idle
  BY DEF QInit
<1>3. Idle \in TaskType /\ TaskNamed(Idle)
  BY DEF Idle, TaskType, TaskNamed
<1>4. TasksTyped
  BY <1>3 DEF QInit, TasksTyped
<1>5. QED
  BY <1>1, <1>2, <1>3, <1>4 DEF QInit, Init, NInv, MatrixTyped

\* A step that leaves the rooms and users alone and moves one task.
LEMMA TaskMoves ==
    ASSUME NInv, UNCHANGED <<party, arrived, direct, live>>, TablesNamed',
           NEW t \in Tasks, NEW k \in TaskType, TaskNamed(k), Goes(t, k),
           \A l \in sent' : l \in sent \/ Reaches(l.nick, l.room)
    PROVE  NInv'
<1>1. \A nick, r : Reaches(nick, r)' <=> Reaches(nick, r)
  BY DEF Reaches, MadeUp, Named
<1>2. \A u \in Tasks : task'[u] = IF u = t THEN k ELSE task[u]
  BY DEF Goes, NInv, TasksTyped
<1>3. \A u \in Tasks : TaskNamed(task[u])'
  <2>1. \A u \in Tasks : TaskNamed(task'[u])
    BY <1>2 DEF NInv
  <2>2. QED
    BY <1>1, <2>1 DEF TaskNamed, Named
<1>4. TasksTyped'
  BY DEF Goes, NInv, TasksTyped
<1>5. MatrixTyped' /\ \A l \in sent' : Reaches(l.nick, l.room)'
  BY <1>1 DEF NInv, MatrixTyped
<1>6. QED
  BY <1>3, <1>4, <1>5 DEF NInv

\* A step that moves no task.
LEMMA MatrixMoves ==
    ASSUME NInv, PartyKept, MatrixTyped', TablesNamed', UNCHANGED <<task, sent>>
    PROVE  NInv'
<1>1. \A nick, r : Reaches(nick, r) => Reaches(nick, r)'
  BY ReachesStays
<1>2. \A t \in Tasks : TaskNamed(task[t])'
  BY <1>1 DEF NInv, TaskNamed, Named
<1>3. QED
  BY <1>1, <1>2 DEF NInv, TasksTyped

LEMMA LineStepNamed ==
    ASSUME NamesApart, NInv, NEW t \in Tasks, LineStep(t)
    PROVE  NInv'
<1> DEFINE k == task[t]
<1>1. k \in TaskType /\ TaskNamed(k)
  BY DEF NInv, TasksTyped
<1>2. Idle \in TaskType /\ TaskNamed(Idle)
  BY DEF Idle, TaskType, TaskNamed
<1>3. ASSUME UNCHANGED <<vars, party>> PROVE TablesNamed'
  BY <1>3, TablesStay DEF NInv, vars, PartyKept
<1>4. CASE FindMapped(t)
  <2>1. CASE Goes(t, [k EXCEPT !.pc = "resolve"])
    <3>1. [k EXCEPT !.pc = "resolve"] \in TaskType /\ TaskNamed([k EXCEPT !.pc = "resolve"])
      BY <1>1 DEF TaskType, TaskNamed
    <3>2. QED
      BY <1>3, <1>4, <2>1, <3>1, TaskMoves DEF FindMapped, vars, matrix
  <2>2. ASSUME NEW e \in GetByQuery(rooms[Conn], k.nick),
               Goes(t, [k EXCEPT !.pc = "label", !.room = e.room])
        PROVE  NInv'
    <3>1. e \in RoomEntry /\ Reaches(e.query, e.room) /\ Fold(e.query) = Fold(k.nick)
      BY QueriesAssumption DEF NInv, TablesNamed, WellNamed, GetByQuery
    <3>2. Reaches(k.nick, e.room) /\ e.room \in Rooms
      BY <3>1, SameNick DEF RoomEntry
    <3>3. /\ [k EXCEPT !.pc = "label", !.room = e.room] \in TaskType
          /\ TaskNamed([k EXCEPT !.pc = "label", !.room = e.room])
      BY <1>1, <3>2 DEF TaskType, TaskNamed
    <3>4. QED
      BY <1>3, <1>4, <2>2, <3>3, TaskMoves DEF FindMapped, vars, matrix
  <2>3. QED
    BY <1>4, <2>1, <2>2 DEF FindMapped
<1>5. CASE FindDm(t)
  <2>1. PICK u \in Users :
          /\ u \in Named(k.nick)
          /\ \/ \E r \in DmsWith(u) : Goes(t, [k EXCEPT !.pc = "label", !.user = u, !.room = r])
             \/ Goes(t, [k EXCEPT !.pc = "create", !.user = u])
    BY <1>5 DEF FindDm, Resolves
  <2>2. CASE Goes(t, [k EXCEPT !.pc = "create", !.user = u])
    <3>1. /\ [k EXCEPT !.pc = "create", !.user = u] \in TaskType
          /\ TaskNamed([k EXCEPT !.pc = "create", !.user = u])
      BY <1>1, <2>1 DEF TaskType, TaskNamed
    <3>2. QED
      BY <1>3, <1>5, <2>2, <3>1, TaskMoves DEF FindDm, vars, matrix
  <2>3. ASSUME NEW r \in DmsWith(u), Goes(t, [k EXCEPT !.pc = "label", !.user = u, !.room = r])
        PROVE  NInv'
    <3>1. r \in Rooms /\ Reaches(k.nick, r)
      BY <2>1 DEF DmsWith, Reaches, NInv, MatrixTyped
    <3>2. /\ [k EXCEPT !.pc = "label", !.user = u, !.room = r] \in TaskType
          /\ TaskNamed([k EXCEPT !.pc = "label", !.user = u, !.room = r])
      BY <1>1, <3>1 DEF TaskType, TaskNamed
    <3>3. QED
      BY <1>3, <1>5, <2>3, <3>2, TaskMoves DEF FindDm, vars, matrix
  <2>4. QED
    BY <2>1, <2>2, <2>3
<1>6. CASE NotResolved(t) \/ NotCreated(t) \/ SendFails(t)
  BY <1>2, <1>3, <1>6, TaskMoves DEF NotResolved, NotCreated, SendFails, vars, matrix
<1>7. CASE Created(t)
  <2>1. PICK r \in Rooms :
          /\ k.pc = "create" /\ party[r] = Unborn /\ JoinRoom(r)
          /\ party' = [party EXCEPT ![r] = k.user]
          /\ Goes(t, [k EXCEPT !.pc = "label", !.room = r])
          /\ UNCHANGED <<arrived, direct, sent>>
    BY <1>7 DEF Created
  <2>2. k.user \in Named(k.nick) /\ k.user \in Users
    BY <1>1, <2>1 DEF TaskNamed, Named
  <2>3. PartyKept /\ MatrixTyped'
    BY <2>1, <2>2, QueriesAssumption DEF NInv, MatrixTyped, PartyKept, JoinRoom
  <2>4. TablesNamed'
    BY <2>1, <2>3, TablesStay DEF NInv, JoinRoom
  <2>5. \A nick, q : Reaches(nick, q) => Reaches(nick, q)'
    BY <2>3, ReachesStays
  <2>6. \A u \in Tasks : u # t => task'[u] = task[u]
    BY <2>1 DEF Goes, NInv, TasksTyped
  <2>7. task'[t] = [k EXCEPT !.pc = "label", !.room = r]
    BY <2>1 DEF Goes, NInv, TasksTyped
  <2>8. PICK nick : nick = k.nick
    OBVIOUS
  <2>9. Reaches(nick, r)'
    BY <2>1, <2>2, <2>8 DEF Reaches, Named, NInv, MatrixTyped
  <2>10. task'[t].pc = "label" /\ task'[t].nick = nick /\ task'[t].room = r
    BY <1>1, <2>7, <2>8 DEF TaskType
  <2>11. TaskNamed(task[t])'
    BY <2>9, <2>10 DEF TaskNamed
  <2>12. \A u \in Tasks : TaskNamed(task[u])'
    BY <2>5, <2>6, <2>11 DEF NInv, TaskNamed, Named
  <2>13. [k EXCEPT !.pc = "label", !.room = r] \in TaskType
    BY <1>1 DEF TaskType
  <2>14. TasksTyped'
    BY <2>1, <2>13 DEF Goes, NInv, TasksTyped
  <2>15. QED
    BY <2>1, <2>3, <2>4, <2>5, <2>12, <2>14 DEF NInv
<1>8. CASE Label(t)
  <2>1. PICK as : /\ as = IF k.room \in direct THEN OtherNick(k.room) ELSE NoQuery
                  /\ Goes(t, [k EXCEPT !.pc = "map", !.as = as])
    BY <1>8 DEF Label
  <2>2. k.room \in Rooms
    BY <1>1, <1>8 DEF Label, TaskNamed
  <2>3. as \in Nicks \cup {NoQuery} /\ (as # NoQuery => Reaches(as, k.room))
    <3>1. CASE k.room \notin direct
      BY <2>1, <3>1
    <3>2. CASE k.room \in direct
      <4>1. party[k.room] \in Users
        BY <3>2 DEF NInv, MatrixTyped
      <4>2. as = NickOf[party[k.room]] \/ as = Nobody
        BY <2>1, <3>2 DEF OtherNick
      <4>3. QED
        BY <2>2, <4>1, <4>2, QueriesAssumption DEF NamesApart, Reaches, Named
    <3>3. QED
      BY <3>1, <3>2
  <2>4. /\ [k EXCEPT !.pc = "map", !.as = as] \in TaskType
        /\ TaskNamed([k EXCEPT !.pc = "map", !.as = as])
    BY <1>1, <1>8, <2>2, <2>3 DEF TaskType, TaskNamed, Label
  <2>5. QED
    BY <1>3, <1>8, <2>1, <2>4, TaskMoves DEF Label, vars, matrix
<1>9. CASE Map(t)
  <2>1. /\ k.pc = "map" /\ MapAs(k.room, k.as)
        /\ UNCHANGED <<party, arrived, direct, sent>>
        /\ \/ Goes(t, Idle)
           \/ k.nick # NoQuery /\ Goes(t, [k EXCEPT !.pc = "send"])
    BY <1>9 DEF Map, matrix
  <2>2. k.room \in Rooms /\ k.as \in Nicks \cup {NoQuery} /\ (k.as # NoQuery => Reaches(k.as, k.room))
    BY <1>1, <2>1 DEF TaskNamed, TaskType
  <2>3. TablesNamed'
    BY <2>1, <2>2, MapNamed, QueriesAssumption DEF NInv
  <2>4. UNCHANGED live
    BY <2>1 DEF MapAs, EnsureKnown, EnsureNew, EnsureQueryKnown, EnsureQueryNew, Put
  <2>5. /\ [k EXCEPT !.pc = "send"] \in TaskType
        /\ k.nick # NoQuery => TaskNamed([k EXCEPT !.pc = "send"])
    BY <1>1, <2>1 DEF TaskNamed, TaskType
  <2>6. QED
    BY <1>2, <2>1, <2>3, <2>4, <2>5, TaskMoves
<1>10. CASE Send(t)
  <2>1. Reaches(k.nick, k.room)
    BY <1>1, <1>10 DEF Send, TaskNamed
  <2>2. QED
    BY <1>2, <1>3, <1>10, <2>1, TaskMoves DEF Send, vars, matrix
<1>11. QED
  BY <1>4, <1>5, <1>6, <1>7, <1>8, <1>9, <1>10 DEF LineStep

LEMMA OthersNamed ==
    ASSUME NInv,
           \/ \E t \in Tasks, nick \in Targets : WriteLine(t, nick)
           \/ \E t \in Tasks, r \in Rooms : MapRoom(t, r)
           \/ \E r \in Rooms : NewRoom(r) \/ Rejoin(r) \/ Leave(r)
                               \/ PartyJoins(r) \/ PartyLeaves(r) \/ DirectComes(r)
           \/ \E c \in Conns : Connection(c)
           \/ UNCHANGED qvars
    PROVE  NInv'
<1>1. ASSUME NEW t \in Tasks, NEW nick \in Targets, WriteLine(t, nick) PROVE NInv'
  <2>1. PICK k : /\ k = [Idle EXCEPT !.pc = "find", !.nick = nick,
                           !.known = UNION {DmsWith(u) : u \in Named(nick)}]
                 /\ Goes(t, k)
    BY <1>1 DEF WriteLine
  <2>2. UNION {DmsWith(u) : u \in Named(nick)} \in SUBSET Rooms
    BY DEF DmsWith, NInv, MatrixTyped
  <2>3. k \in TaskType /\ k.pc = "find"
    BY <2>1, <2>2, QueriesAssumption DEF Idle, TaskType
  <2>4. UNCHANGED <<vars, matrix, sent>>
    BY <1>1 DEF WriteLine
  <2>5. TablesNamed' /\ UNCHANGED <<party, arrived, direct, live>>
    BY <2>4, TablesStay DEF vars, matrix, NInv, PartyKept
  <2>6. TaskNamed(k)
    BY <2>3 DEF TaskNamed
  <2>7. QED
    BY <2>1, <2>3, <2>4, <2>5, <2>6, TaskMoves
<1>2. ASSUME NEW t \in Tasks, NEW r \in Rooms, MapRoom(t, r) PROVE NInv'
  <2>1. PICK k : k = [Idle EXCEPT !.pc = "label", !.room = r] /\ Goes(t, k)
    BY <1>2 DEF MapRoom
  <2>2. k \in TaskType /\ TaskNamed(k)
    BY <2>1 DEF Idle, TaskType, TaskNamed
  <2>3. UNCHANGED <<vars, matrix, sent>>
    BY <1>2 DEF MapRoom
  <2>4. TablesNamed' /\ UNCHANGED <<party, arrived, direct, live>>
    BY <2>3, TablesStay DEF vars, matrix, NInv, PartyKept
  <2>5. QED
    BY <2>1, <2>2, <2>3, <2>4, TaskMoves
<1>3. ASSUME NEW r \in Rooms, NewRoom(r) PROVE NInv'
  <2>1. PICK u \in Users \cup {NoUser} :
          /\ party[r] = Unborn /\ party' = [party EXCEPT ![r] = u]
          /\ arrived' = arrived \cup {x \in {r} : party'[r] # NoUser}
          /\ JoinRoom(r) /\ UNCHANGED <<direct, task, sent>>
    BY <1>3 DEF NewRoom
  <2>2. PartyKept /\ MatrixTyped'
    BY <2>1, QueriesAssumption DEF NInv, MatrixTyped, PartyKept, JoinRoom
  <2>3. TablesNamed'
    BY <2>1, <2>2, TablesStay DEF NInv, JoinRoom
  <2>4. QED
    BY <2>1, <2>2, <2>3, MatrixMoves
<1>4. ASSUME NEW r \in Rooms, Rejoin(r) \/ Leave(r) PROVE NInv'
  <2>1. /\ UNCHANGED <<party, arrived, direct, task, sent, rooms, disk>>
        /\ live' \subseteq live \cup {r}
    BY <1>4 DEF Rejoin, Leave, JoinRoom, LeaveRoom
  <2>2. PartyKept /\ MatrixTyped'
    BY <2>1 DEF NInv, MatrixTyped, PartyKept
  <2>3. QED
    BY <2>1, <2>2, TablesStay, MatrixMoves DEF NInv
<1>5. ASSUME NEW r \in Rooms, PartyJoins(r) \/ PartyLeaves(r) \/ DirectComes(r) PROVE NInv'
  <2>1. UNCHANGED <<party, live, task, sent, rooms, disk>>
    BY <1>5 DEF PartyJoins, PartyLeaves, DirectComes, vars
  <2>2. MatrixTyped'
    BY <1>5 DEF PartyJoins, PartyLeaves, DirectComes, vars, NInv, MatrixTyped
  <2>3. PartyKept
    BY <2>1 DEF PartyKept
  <2>4. QED
    BY <2>1, <2>2, <2>3, TablesStay, MatrixMoves DEF NInv
<1>6. ASSUME NEW c \in Conns, Connection(c) PROVE NInv'
  <2>1. UNCHANGED <<party, arrived, direct, live, task, sent>>
    BY <1>6 DEF Connection, matrix, Connect, Close, PruneTo, Put, FinishSave, FailSave
  <2>2. PartyKept /\ MatrixTyped'
    BY <2>1 DEF NInv, MatrixTyped, PartyKept
  <2>3. QED
    BY <1>6, <2>1, <2>2, ConnectionNamed, MatrixMoves DEF NInv
<1>7. CASE UNCHANGED qvars
  <2>1. UNCHANGED <<party, arrived, direct, live, task, sent, rooms, disk>>
    BY <1>7 DEF qvars, vars, matrix
  <2>2. PartyKept /\ MatrixTyped'
    BY <2>1 DEF NInv, MatrixTyped, PartyKept
  <2>3. QED
    BY <2>1, <2>2, TablesStay, MatrixMoves DEF NInv
<1>8. QED
  BY <1>1, <1>2, <1>3, <1>4, <1>5, <1>6, <1>7

\* A line to a nick reaches a user of that nick and nobody else, whatever is
\* refreshed, joined, left, lost or torn between its steps, as long as no
\* user is called like a name the table makes up (mod.rs send_query,
\* resolve_nick, ensure_room_mapping).
THEOREM LinesReachNicks ==
    ASSUME NamesApart
    PROVE  QSpec => []LineReachesNick
<1>1. NInv => LineReachesNick
  BY DEF NInv, LineReachesNick, Reaches
<1>2. NInv /\ [QNext]_qvars => NInv'
  BY LineStepNamed, OthersNamed DEF QNext
<1>3. QED
  BY <1>1, <1>2, InitNamed, PTL DEF QSpec

-----------------------------------------------------------------------------
\* First contact.

\* What a line was told are DMs are DMs to the end; only that they are is
\* asked of a task here, not what it looks like else.
Fields == {"pc", "nick", "user", "room", "as", "known"}
KnownAreDirect ==
    /\ DOMAIN task = Tasks
    /\ \A t \in Tasks : DOMAIN task[t] = Fields /\ task[t].known \subseteq direct

\* A task that has just found no DM asks for a room with none of the users it
\* has known a DM of.
FirstContact(t) ==
    task[t].pc # "create" /\ task'[t].pc = "create" =>
        \A r \in task[t].known \cap live : party[r] # task'[t].user

LEMMA IdleKnows == DOMAIN Idle = Fields /\ Idle.known = {} /\ Idle.pc = "idle"
BY DEF Idle, Fields

\* A step that moves one task to k.
LEMMA TaskGoes ==
    ASSUME KnownAreDirect, NEW t \in Tasks, NEW k, Goes(t, k), UNCHANGED direct,
           DOMAIN k = Fields, k.known \subseteq direct,
           k.pc = "create" => \A r \in task[t].known \cap live : party[r] # k.user
    PROVE  KnownAreDirect' /\ \A u \in Tasks : FirstContact(u)
<1>1. /\ DOMAIN task' = Tasks
      /\ \A u \in Tasks : task'[u] = IF u = t THEN k ELSE task[u]
  BY DEF KnownAreDirect, Goes
<1>2. QED
  BY <1>1 DEF KnownAreDirect, FirstContact

\* A step that moves none.
LEMMA NoTaskGoes ==
    ASSUME KnownAreDirect, UNCHANGED task, direct \subseteq direct'
    PROVE  KnownAreDirect' /\ \A u \in Tasks : FirstContact(u)
BY DEF KnownAreDirect, FirstContact

LEMMA StepKnown ==
    ASSUME KnownAreDirect, [QNext]_qvars
    PROVE  KnownAreDirect' /\ \A u \in Tasks : FirstContact(u)
<1>1. ASSUME NEW t \in Tasks, FindDm(t)
      PROVE  KnownAreDirect' /\ \A u \in Tasks : FirstContact(u)
  <2> DEFINE k == task[t]
  <2>1. UNCHANGED direct /\ DOMAIN k = Fields /\ k.known \subseteq direct
    BY <1>1 DEF FindDm, matrix, KnownAreDirect
  <2>2. PICK u \in Users :
          \/ \E r \in DmsWith(u) : Goes(t, [k EXCEPT !.pc = "label", !.user = u, !.room = r])
          \/ DmsWith(u) = {} /\ Goes(t, [k EXCEPT !.pc = "create", !.user = u])
    BY <1>1 DEF FindDm
  <2>3. ASSUME NEW r \in DmsWith(u), Goes(t, [k EXCEPT !.pc = "label", !.user = u, !.room = r])
        PROVE  KnownAreDirect' /\ \A v \in Tasks : FirstContact(v)
    <3>1. PICK m : m = [k EXCEPT !.pc = "label", !.user = u, !.room = r]
      OBVIOUS
    <3>2. DOMAIN m = Fields /\ m.known = k.known /\ m.pc = "label"
      BY <2>1, <3>1 DEF Fields
    <3>3. QED
      BY <2>1, <2>3, <3>1, <3>2, TaskGoes
  <2>4. CASE DmsWith(u) = {} /\ Goes(t, [k EXCEPT !.pc = "create", !.user = u])
    <3>1. PICK m : m = [k EXCEPT !.pc = "create", !.user = u]
      OBVIOUS
    <3>2. DOMAIN m = Fields /\ m.known = k.known /\ m.user = u
      BY <2>1, <3>1 DEF Fields
    <3>3. \A r \in k.known \cap live : party[r] # u
      BY <2>1, <2>4 DEF DmsWith
    <3>4. QED
      BY <2>1, <2>4, <3>1, <3>2, <3>3, TaskGoes
  <2>5. QED
    BY <2>2, <2>3, <2>4
<1>2. ASSUME NEW t \in Tasks, LineStep(t), ~FindDm(t)
      PROVE  KnownAreDirect' /\ \A u \in Tasks : FirstContact(u)
  <2>1. UNCHANGED direct
    BY <1>2 DEF LineStep, FindMapped, NotResolved, Created, NotCreated, Label, Map, Send,
                SendFails, matrix
  <2>2. PICK m : /\ Goes(t, m)
                 /\ \/ m = Idle
                    \/ \E pc \in {"resolve", "send"} : m = [task[t] EXCEPT !.pc = pc]
                    \/ \E r : m = [task[t] EXCEPT !.pc = "label", !.room = r]
                    \/ \E as : m = [task[t] EXCEPT !.pc = "map", !.as = as]
    BY <1>2 DEF LineStep, FindMapped, NotResolved, Created, NotCreated, Label, Map, Send,
                SendFails
  <2>3. DOMAIN task[t] = Fields /\ task[t].known \subseteq direct
    BY DEF KnownAreDirect
  <2>4. DOMAIN m = Fields /\ m.known \subseteq direct /\ m.pc # "create"
    BY <2>2, <2>3, IdleKnows DEF Fields
  <2>5. QED
    BY <2>1, <2>2, <2>4, TaskGoes
<1>3. ASSUME NEW t \in Tasks, NEW nick \in Targets, WriteLine(t, nick)
      PROVE  KnownAreDirect' /\ \A u \in Tasks : FirstContact(u)
  <2>1. PICK m : /\ m = [Idle EXCEPT !.pc = "find", !.nick = nick,
                           !.known = UNION {DmsWith(u) : u \in Named(nick)}]
                 /\ Goes(t, m)
    BY <1>3 DEF WriteLine
  <2>2. UNION {DmsWith(u) : u \in Named(nick)} \subseteq direct
    BY DEF DmsWith
  <2>3. DOMAIN m = Fields /\ m.known \subseteq direct /\ m.pc = "find"
    BY <2>1, <2>2 DEF Idle, Fields
  <2>4. QED
    BY <1>3, <2>1, <2>3, TaskGoes DEF WriteLine, matrix
<1>4. ASSUME NEW t \in Tasks, NEW r \in Rooms, MapRoom(t, r)
      PROVE  KnownAreDirect' /\ \A u \in Tasks : FirstContact(u)
  <2>1. PICK m : m = [Idle EXCEPT !.pc = "label", !.room = r] /\ Goes(t, m)
    BY <1>4 DEF MapRoom
  <2>2. DOMAIN m = Fields /\ m.known \subseteq direct /\ m.pc = "label"
    BY <2>1 DEF Idle, Fields
  <2>3. QED
    BY <1>4, <2>1, <2>2, TaskGoes DEF MapRoom, matrix
<1>5. CASE \/ \E r \in Rooms : NewRoom(r) \/ Rejoin(r) \/ Leave(r)
                               \/ PartyJoins(r) \/ PartyLeaves(r) \/ DirectComes(r)
           \/ \E c \in Conns : Connection(c)
           \/ UNCHANGED qvars
  <2>1. UNCHANGED task /\ direct \subseteq direct'
    BY <1>5 DEF NewRoom, Rejoin, Leave, PartyJoins, PartyLeaves, DirectComes, Connection,
                matrix, qvars
  <2>2. QED
    BY <2>1, NoTaskGoes
<1>6. QED
  BY <1>1, <1>2, <1>3, <1>4, <1>5 DEF QNext

\* A second DM with a user is made only by lines that race the sync, for any
\* rooms, users, nicks and connections: a line never asks for a room with a
\* user one of whose DMs, known when the line was written, is still joined
\* (mod.rs send_query).
THEOREM SecondDmByRace == QSpec => SecondDmByRaceOnly
<1>1. QInit => KnownAreDirect
  BY IdleKnows DEF QInit, KnownAreDirect
<1>2. KnownAreDirect /\ [QNext]_qvars =>
        [\A t \in Tasks : task[t].pc # "create" /\ task'[t].pc = "create" =>
           \A r \in task[t].known \cap live : party[r] # task'[t].user]_qvars
  BY StepKnown DEF FirstContact
<1>3. KnownAreDirect /\ [QNext]_qvars => KnownAreDirect'
  BY StepKnown
<1>4. QED
  BY <1>1, <1>2, <1>3, PTL DEF QSpec, SecondDmByRaceOnly

-----------------------------------------------------------------------------
\* One name per room, across connections that come one after the other.

\* A file that was not written to its end is no table.
FilesApart == \A d \in Unreadable : d \notin SUBSET RoomEntry

SameRooms(t, u) == \A r \in Rooms : Mapped(t, r) <=> Mapped(u, r)
Under(t, r, ch) ==
    Mapped(t, r) /\ \A e \in t : e.room = r => e.channel \in {ch, NoChannel}

\* The file is behind the table by topics and by channels that became queries,
\* and a room that was shown is mapped in both, under that name if any.
ShownInv ==
    /\ IInv
    /\ IF saving[Conn] THEN disk = Truncated ELSE disk \notin Unreadable
    /\ up[Conn] /\ ~saving[Conn] => KeepsNames(disk, rooms[Conn]) /\ SameRooms(disk, rooms[Conn])
    /\ \A r \in Rooms \ live : shown[r] = {}
    /\ \A r \in Rooms : \A ch, d \in shown[r] : ch = d
    /\ \A r \in Rooms : \A ch \in shown[r] :
         /\ up[Conn] => Under(rooms[Conn], r, ch)
         /\ ~saving[Conn] => Under(disk, r, ch)

\* A name that a consistent table shows is the only one it shows.
LEMMA ShownUnder ==
    ASSUME NEW t, Consistent(t), NEW r, NEW ch \in ChannelsOf(t, r)
    PROVE  Under(t, r, ch) /\ ch # NoChannel
BY DEF ChannelsOf, GetByRoom, Mapped, Under, Consistent, OneEntryPerRoom

\* A table that keeps the names and the rooms of another keeps them under the
\* names they were shown under.
LEMMA UnderStays ==
    ASSUME NEW t, NEW u, KeepsNames(t, u), NEW r, Mapped(u, r), NEW ch, Under(t, r, ch)
    PROVE  Under(u, r, ch)
BY DEF Under, KeepsNames, Mapped, GetByRoom

\* And a name it shows is that of the other.
LEMMA UnderBefore ==
    ASSUME NEW t, NEW u, KeepsNames(t, u), NEW r, Mapped(t, r), Mapped(u, r), Consistent(t),
           NEW ch \in ChannelsOf(u, r)
    PROVE  Under(t, r, ch)
<1>1. PICK f \in u : f.room = r /\ f.channel = ch /\ ch # NoChannel
  BY DEF ChannelsOf, GetByRoom
<1>2. \A e \in t : e.room = r => e.channel = ch
  BY <1>1 DEF KeepsNames
<1>3. QED
  BY <1>2 DEF Under

\* Storing a table.
LEMMA PutShown ==
    ASSUME FilesApart, Conns = {Conn}, Faults = {}, ShownInv, Locked(Conn),
           NEW t \in SUBSET RoomEntry, Consistent(t), NEW dirty \in BOOLEAN, Put(Conn, t, dirty),
           KeepsNames(rooms[Conn], t),
           \A r \in live : Mapped(rooms[Conn], r) => Mapped(t, r),
           ~dirty => SameRooms(rooms[Conn], t),
           shown' = shown \/ ShowAll(t)
    PROVE  ShownInv'
<1>1. /\ Conn \in Conns /\ up[Conn] /\ ~saving[Conn] /\ disk \notin Unreadable
      /\ rooms[Conn] \in SUBSET RoomEntry /\ Consistent(rooms[Conn])
      /\ disk \in SUBSET RoomEntry /\ Consistent(disk)
      /\ shown \in [Rooms -> SUBSET Channels] /\ live \in SUBSET Rooms
      /\ KeepsNames(disk, rooms[Conn]) /\ SameRooms(disk, rooms[Conn])
  BY DEF ShownInv, IInv, TypeOK, TablesConsistent, Locked
<1>2. /\ rooms'[Conn] = t /\ up' = up /\ live' = live
      /\ IF dirty THEN saving'[Conn] = TRUE /\ disk' = Truncated
                  ELSE saving' = saving /\ disk' = disk
  BY <1>1 DEF Put, BeginSave, ShownInv, IInv, TypeOK
<1>3. shown' \in [Rooms -> SUBSET Channels]
  BY <1>1, ShowAllType DEF ShownInv, IInv
<1>4. IInv'
  BY <1>1, <1>3, PutKeeps DEF ShownInv
<1>5. \A r \in Rooms : shown'[r] = shown[r] \/ (r \in live /\ shown'[r] = shown[r] \cup ChannelsOf(t, r))
  BY DEF ShowAll
<1>6. ASSUME NEW r \in Rooms, NEW ch \in shown[r]
      PROVE  r \in live /\ Under(rooms[Conn], r, ch) /\ Under(disk, r, ch) /\ Under(t, r, ch)
  <2>1. r \in live /\ Under(rooms[Conn], r, ch) /\ Under(disk, r, ch)
    BY <1>1, <1>6 DEF ShownInv
  <2>2. Mapped(t, r)
    BY <2>1 DEF Under
  <2>3. QED
    BY <2>1, <2>2, UnderStays
<1>7. ~dirty => KeepsNames(disk, t) /\ SameRooms(disk, t)
  <2>1. ~dirty => SameRooms(disk, t)
    BY <1>1 DEF SameRooms
  <2>2. ASSUME ~dirty, NEW e \in disk, NEW f \in t, e.room = f.room
        PROVE  f.channel \in {e.channel, NoChannel}
    <3>1. e.room \in Rooms /\ Mapped(disk, e.room)
      BY <1>1 DEF RoomEntry, Mapped, GetByRoom
    <3>2. PICK g \in rooms[Conn] : g.room = e.room
      BY <1>1, <3>1 DEF SameRooms, Mapped, GetByRoom
    <3>3. g.channel \in {e.channel, NoChannel} /\ f.channel \in {g.channel, NoChannel}
      BY <1>1, <2>2, <3>2 DEF KeepsNames
    <3>4. QED
      BY <3>3
  <2>3. QED
    BY <2>1, <2>2 DEF KeepsNames
<1>8. \A r \in Rooms : \A ch \in shown'[r] : Under(t, r, ch) /\ (~dirty => Under(disk, r, ch))
  <2>1. SUFFICES ASSUME NEW r \in Rooms, NEW ch \in ChannelsOf(t, r)
                 PROVE  Under(t, r, ch) /\ (~dirty => Under(disk, r, ch))
    BY <1>5, <1>6
  <2>2. Under(t, r, ch)
    BY <2>1, ShownUnder
  <2>3. ~dirty => Mapped(disk, r)
    BY <1>7, <2>2 DEF SameRooms, Under
  <2>4. QED
    BY <1>1, <1>7, <2>1, <2>2, <2>3, UnderBefore DEF Under
<1>9. \A r \in Rooms : \A ch, d \in shown'[r] : ch = d
  <2>1. ASSUME NEW r \in Rooms, NEW ch, Under(t, r, ch), NEW d \in ChannelsOf(t, r)
        PROVE  ch = d
    BY <2>1 DEF Under, ChannelsOf, GetByRoom
  <2>2. QED
    BY <1>5, <1>6, <1>8, <2>1 DEF ShownInv
<1>10. \A r \in Rooms \ live' : shown'[r] = {}
  BY <1>2, <1>5 DEF ShownInv
<1>11. QED
  BY <1>1, <1>2, <1>4, <1>7, <1>8, <1>9, <1>10 DEF ShownInv

\* What the operations do to the rooms of a table and to the names it shows.
LEMMA TableRooms ==
    ASSUME NEW t \in SUBSET RoomEntry, NEW r \in Rooms
    PROVE  /\ \A topic : SameRooms(t, WithTopic(t, r, topic))
           /\ \A topic, x : ChannelsOf(WithTopic(t, r, topic), x) = ChannelsOf(t, x)
           /\ \A nick : SameRooms(t, AsQuery(t, r, nick))
           /\ \A x, ch, topic : Mapped(t, x) => Mapped(PushChannel(t, r, ch, topic), x)
           /\ \A x, q : Mapped(t, x) => Mapped(PushQuery(t, r, q), x)
           /\ \A keep : \A x \in keep : Mapped(t, x) => Mapped(Retain(t, keep), x)
<1> USE DEF Mapped, GetByRoom
<1>1. ASSUME NEW topic
      PROVE  /\ SameRooms(t, WithTopic(t, r, topic))
             /\ \A x : ChannelsOf(WithTopic(t, r, topic), x) = ChannelsOf(t, x)
  <2> DEFINE F(e) == IF e.room = r THEN [e EXCEPT !.topic = topic] ELSE e
  <2>1. \A e \in t : F(e).room = e.room /\ F(e).channel = e.channel
    BY DEF RoomEntry
  <2>2. WithTopic(t, r, topic) = {F(e) : e \in t}
    BY DEF WithTopic
  <2> HIDE DEF F
  <2>3. SameRooms(t, WithTopic(t, r, topic))
    BY <2>1, <2>2 DEF SameRooms
  <2>4. \A x : ChannelsOf(WithTopic(t, r, topic), x) = ChannelsOf(t, x)
    BY <2>1, <2>2 DEF ChannelsOf
  <2>5. QED
    BY <2>3, <2>4
<1>2. ASSUME NEW nick PROVE SameRooms(t, AsQuery(t, r, nick))
  <2> DEFINE F(e) == IF e.room = r
                       THEN [e EXCEPT !.query = nick, !.channel = NoChannel, !.topic = NoTopic]
                       ELSE e
  <2>1. \A e \in t : F(e).room = e.room
    BY DEF RoomEntry
  <2>2. AsQuery(t, r, nick) = {F(e) : e \in t}
    BY DEF AsQuery
  <2> HIDE DEF F
  <2>3. QED
    BY <2>1, <2>2 DEF SameRooms
<1>3. /\ \A x, ch, topic : Mapped(t, x) => Mapped(PushChannel(t, r, ch, topic), x)
      /\ \A x, q : Mapped(t, x) => Mapped(PushQuery(t, r, q), x)
  BY DEF PushChannel, PushQuery
<1>4. \A keep : \A x \in keep : Mapped(t, x) => Mapped(Retain(t, keep), x)
  BY DEF Retain
<1>5. QED
  BY <1>1, <1>2, <1>3, <1>4

LEMMA EnsureShown ==
    ASSUME FilesApart, Conns = {Conn}, Faults = {}, ShownInv, Locked(Conn), NEW r \in Rooms,
           \/ \E base \in Bases, topic \in Topics :
                EnsureKnown(Conn, r, topic) \/ EnsureNew(Conn, r, base, topic)
           \/ \E topic \in Topics : PushTopic(Conn, r, topic)
    PROVE  ShownInv'
<1>1. rooms[Conn] \in SUBSET RoomEntry /\ Consistent(rooms[Conn])
  BY DEF ShownInv, IInv, TypeOK, TablesConsistent
<1>2. ASSUME NEW topic \in Topics, EnsureKnown(Conn, r, topic) \/ PushTopic(Conn, r, topic)
      PROVE  ShownInv'
  <2> DEFINE t == WithTopic(rooms[Conn], r, topic)
  <2>1. \E dirty \in BOOLEAN : Put(Conn, t, dirty)
    BY <1>2 DEF EnsureKnown, PushTopic
  <2>2. t \in SUBSET RoomEntry /\ Consistent(t) /\ KeepsNames(rooms[Conn], t)
    BY <1>1, WithTopicKeeps, TableStepsKeepNames
  <2>3. SameRooms(rooms[Conn], t) /\ \A x : ChannelsOf(t, x) = ChannelsOf(rooms[Conn], x)
    BY <1>1, TableRooms
  <2> HIDE DEF t
  <2>4. shown' = shown \/ ShowAll(t)
    BY <1>2, <2>3 DEF EnsureKnown, PushTopic, ShowAll
  <2>5. \A x \in live : Mapped(rooms[Conn], x) => Mapped(t, x)
    BY <2>3 DEF SameRooms, ShownInv, IInv, TypeOK
  <2>6. QED
    BY <2>1, <2>2, <2>3, <2>4, <2>5, PutShown
<1>3. ASSUME NEW base \in Bases, NEW topic \in Topics, EnsureNew(Conn, r, base, topic)
      PROVE  ShownInv'
  <2>1. PICK ch \in Channels :
          /\ UniqueChannel(rooms[Conn], base, ch)
          /\ Put(Conn, PushChannel(rooms[Conn], r, ch, topic), TRUE)
          /\ ShowAll(PushChannel(rooms[Conn], r, ch, topic))
    BY <1>3 DEF EnsureNew
  <2>2. ~Mapped(rooms[Conn], r) /\ \A e \in rooms[Conn] : e.channel # ch
    BY <1>3, <2>1, UniqueChannelIsFree DEF EnsureNew
  <2> DEFINE t == PushChannel(rooms[Conn], r, ch, topic)
  <2>3. t \in SUBSET RoomEntry /\ Consistent(t) /\ KeepsNames(rooms[Conn], t)
    BY <1>1, <2>2, PushChannelKeeps, TableStepsKeepNames
  <2>4. \A x \in live : Mapped(rooms[Conn], x) => Mapped(t, x)
    BY <1>1, TableRooms
  <2> HIDE DEF t
  <2>5. QED
    BY <2>1, <2>3, <2>4, PutShown DEF t
<1>4. QED
  BY <1>2, <1>3

LEMMA EnsureQueryShown ==
    ASSUME FilesApart, Conns = {Conn}, Faults = {}, ShownInv, Locked(Conn), NEW r \in Rooms,
           NEW nick \in Nicks, EnsureQueryKnown(Conn, r, nick) \/ EnsureQueryNew(Conn, r, nick),
           UNCHANGED shown
    PROVE  ShownInv'
<1>1. rooms[Conn] \in SUBSET RoomEntry /\ Consistent(rooms[Conn])
  BY DEF ShownInv, IInv, TypeOK, TablesConsistent
<1>2. CASE EnsureQueryKnown(Conn, r, nick)
  <2> DEFINE t == AsQuery(rooms[Conn], r, nick)
  <2>1. \E dirty \in BOOLEAN : Put(Conn, t, dirty)
    BY <1>2 DEF EnsureQueryKnown
  <2>2. /\ t \in SUBSET RoomEntry /\ Consistent(t) /\ KeepsNames(rooms[Conn], t)
        /\ SameRooms(rooms[Conn], t)
    BY <1>1, AsQueryKeeps, TableStepsKeepNames, TableRooms
  <2> HIDE DEF t
  <2>3. \A x \in live : Mapped(rooms[Conn], x) => Mapped(t, x)
    BY <2>2 DEF SameRooms, ShownInv, IInv, TypeOK
  <2>4. QED
    BY <2>1, <2>2, <2>3, PutShown
<1>3. CASE EnsureQueryNew(Conn, r, nick)
  <2>1. ~Mapped(rooms[Conn], r)
    BY <1>3 DEF EnsureQueryNew
  <2>2. PICK q \in Queries : Put(Conn, PushQuery(rooms[Conn], r, q), TRUE)
    BY <1>3 DEF EnsureQueryNew
  <2> DEFINE t == PushQuery(rooms[Conn], r, q)
  <2>3. t \in SUBSET RoomEntry /\ Consistent(t) /\ KeepsNames(rooms[Conn], t)
    BY <1>1, <2>1, PushQueryKeeps, TableStepsKeepNames
  <2>4. \A x \in live : Mapped(rooms[Conn], x) => Mapped(t, x)
    BY <1>1, TableRooms
  <2> HIDE DEF t
  <2>5. QED
    BY <2>2, <2>3, <2>4, PutShown DEF t
<1>4. QED
  BY <1>2, <1>3

LEMMA PruneShown ==
    ASSUME FilesApart, Conns = {Conn}, Faults = {}, ShownInv, PruneTo(Conn)
    PROVE  ShownInv'
<1> DEFINE t == Retain(rooms[Conn], live)
<1>1. rooms[Conn] \in SUBSET RoomEntry /\ Consistent(rooms[Conn])
  BY DEF ShownInv, IInv, TypeOK, TablesConsistent
<1>2. Locked(Conn) /\ Put(Conn, t, t # rooms[Conn]) /\ shown' = shown
  BY DEF PruneTo
<1>3. t \in SUBSET RoomEntry /\ Consistent(t) /\ KeepsNames(rooms[Conn], t)
  BY <1>1, RetainKeeps, TableStepsKeepNames
<1>4. \A x \in live : Mapped(rooms[Conn], x) => Mapped(t, x)
  BY DEF Mapped, GetByRoom, Retain
<1> HIDE DEF t
<1>5. SameRooms(rooms[Conn], rooms[Conn])
  BY DEF SameRooms
<1>6. QED
  BY <1>2, <1>3, <1>4, <1>5, PutShown

\* A connection that starts has what the last one left in the file.
LEMMA ComesAndGoesShown ==
    ASSUME FilesApart, Conns = {Conn}, ShownInv, Connect(Conn) \/ Close(Conn)
    PROVE  ShownInv'
<1>1. IInv'
  BY ConnectKeeps, OthersKeep DEF ShownInv
<1>2. /\ rooms[Conn] \in SUBSET RoomEntry /\ Consistent(rooms[Conn]) /\ Conn \in Conns
      /\ rooms \in [Conns -> SUBSET RoomEntry] /\ up \in [Conns -> BOOLEAN]
      /\ ~saving[Conn] /\ disk \in SUBSET RoomEntry /\ Consistent(disk) /\ disk \notin Unreadable
      /\ shown \in [Rooms -> SUBSET Channels]
  BY DEF ShownInv, IInv, TypeOK, TablesConsistent, Connect, Close, Locked
<1>3. CASE Close(Conn)
  <2>1. up'[Conn] = FALSE /\ UNCHANGED <<saving, disk, live, shown>>
    BY <1>2, <1>3 DEF Close
  <2>2. QED
    BY <1>1, <1>2, <2>1 DEF ShownInv
<1>4. CASE Connect(Conn)
  <2>1. /\ rooms'[Conn] = disk /\ UNCHANGED <<saving, disk, live>>
        /\ \A r \in Rooms : shown'[r] = IF r \in live THEN shown[r] \cup ChannelsOf(disk, r)
                                        ELSE shown[r]
    BY <1>2, <1>4 DEF Connect, Load, ShowAll
  <2>2. KeepsNames(disk, disk) /\ SameRooms(disk, disk)
    BY <1>2, TableStepsKeepNames DEF SameRooms
  <2>3. \A r \in Rooms : \A ch \in shown[r] : Under(disk, r, ch)
    BY <1>2 DEF ShownInv
  <2>4. \A r : \A ch \in ChannelsOf(disk, r) : Under(disk, r, ch)
    BY <1>2, ShownUnder
  <2>5. \A r : \A d \in ChannelsOf(disk, r) : \A ch : Under(disk, r, ch) => ch = d
    BY DEF Under, ChannelsOf, GetByRoom
  <2>6. \A r \in Rooms : \A ch \in shown'[r] : Under(disk, r, ch)
    BY <2>1, <2>3, <2>4
  <2>7. \A r \in Rooms : \A ch, d \in shown'[r] : ch = d
    BY <2>1, <2>5, <2>6 DEF ShownInv
  <2>8. QED
    BY <1>1, <1>2, <2>1, <2>2, <2>6, <2>7 DEF ShownInv
<1>5. QED
  BY <1>3, <1>4

LEMMA SaveShown ==
    ASSUME FilesApart, Conns = {Conn}, Faults = {}, ShownInv, FinishSave(Conn) \/ FailSave(Conn)
    PROVE  ShownInv'
<1>1. IInv'
  BY OthersKeep DEF ShownInv
<1>2. /\ rooms[Conn] \in SUBSET RoomEntry /\ Consistent(rooms[Conn]) /\ Conn \in Conns
      /\ saving[Conn] /\ disk = Truncated /\ up[Conn] /\ saving \in [Conns -> BOOLEAN]
  BY DEF ShownInv, IInv, TypeOK, TablesConsistent, FinishSave, FailSave
<1>3. /\ saving'[Conn] = FALSE /\ disk' = rooms[Conn] /\ UNCHANGED <<up, rooms, live, shown>>
  BY <1>2 DEF FinishSave, FailSave
<1>4. disk' \notin Unreadable
  BY <1>2, <1>3 DEF FilesApart
<1>5. KeepsNames(rooms[Conn], rooms[Conn]) /\ SameRooms(rooms[Conn], rooms[Conn])
  BY <1>2, TableStepsKeepNames DEF SameRooms
<1>6. QED
  BY <1>1, <1>2, <1>3, <1>4, <1>5 DEF ShownInv

LEMMA RoomsShown ==
    ASSUME Conns = {Conn}, ShownInv, NEW r \in Rooms, JoinRoom(r) \/ LeaveRoom(r)
    PROVE  ShownInv'
<1>1. IInv'
  BY OthersKeep DEF ShownInv
<1>2. /\ rooms[Conn] \in SUBSET RoomEntry /\ Consistent(rooms[Conn]) /\ Conn \in Conns
      /\ ~up[Conn] => rooms[Conn] = {}
      /\ disk \notin Unreadable => disk \in SUBSET RoomEntry /\ Consistent(disk)
      /\ shown \in [Rooms -> SUBSET Channels] /\ live \in SUBSET Rooms
  BY DEF ShownInv, IInv, TypeOK, TablesConsistent
<1>3. CASE LeaveRoom(r)
  BY <1>1, <1>2, <1>3 DEF LeaveRoom, ShownInv
<1>4. CASE JoinRoom(r)
  <2>1. /\ UNCHANGED <<up, rooms, saving, disk>> /\ live' = live \cup {r}
        /\ shown' = [shown EXCEPT ![r] = ChannelsOf(rooms[Conn], r)]
    BY <1>4 DEF JoinRoom
  <2>2. ASSUME NEW ch \in ChannelsOf(rooms[Conn], r)
        PROVE  up[Conn] /\ Under(rooms[Conn], r, ch) /\ (~saving[Conn] => Under(disk, r, ch))
    <3>1. Under(rooms[Conn], r, ch) /\ up[Conn]
      BY <1>2, <2>2, ShownUnder DEF ChannelsOf, GetByRoom
    <3>2. ASSUME ~saving[Conn] PROVE Under(disk, r, ch)
      <4>1. KeepsNames(disk, rooms[Conn]) /\ SameRooms(disk, rooms[Conn]) /\ disk \notin Unreadable
        BY <3>1, <3>2 DEF ShownInv
      <4>2. Mapped(disk, r) /\ Mapped(rooms[Conn], r) /\ Consistent(disk)
        BY <1>2, <3>1, <4>1 DEF SameRooms, Under
      <4>3. QED
        BY <2>2, <4>1, <4>2, UnderBefore
    <3>3. QED
      BY <3>1, <3>2
  <2>3. \A ch, d \in ChannelsOf(rooms[Conn], r) : ch = d
    BY <1>2 DEF ChannelsOf, GetByRoom, Consistent, OneEntryPerRoom
  <2>4. \A x \in Rooms : shown'[x] = IF x = r THEN ChannelsOf(rooms[Conn], r) ELSE shown[x]
    BY <1>2, <2>1
  <2>5. QED
    BY <1>1, <1>2, <2>1, <2>2, <2>3, <2>4 DEF ShownInv
<1>5. QED
  BY <1>3, <1>4

-----------------------------------------------------------------------------
\* The tasks of Queries map rooms, whatever the names are.
TaskRooms ==
    /\ MatrixTyped /\ TasksTyped
    /\ \A t \in Tasks : task[t].pc \in {"label", "map"} => task[t].room \in Rooms

LEMMA TaskKeepsRoom ==
    ASSUME TaskRooms, NEW t \in Tasks, NEW k \in TaskType, Goes(t, k),
           k.pc \in {"label", "map"} => k.room \in Rooms
    PROVE  /\ TasksTyped'
           /\ \A u \in Tasks : task'[u].pc \in {"label", "map"} => task'[u].room \in Rooms
BY DEF TaskRooms, TasksTyped, Goes

\* The step of a line leaves the task with a room where it needs one.
LEMMA LineRooms ==
    ASSUME IInv, TaskRooms, NEW t \in Tasks, LineStep(t)
    PROVE  TaskRooms'
<1> DEFINE k == task[t]
<1>1. k \in TaskType /\ (k.pc \in {"label", "map"} => k.room \in Rooms) /\ Idle \in TaskType
      /\ Idle.pc = "idle"
  BY DEF TaskRooms, TasksTyped, Idle, TaskType
<1>2. live \in SUBSET Rooms /\ rooms[Conn] \in SUBSET RoomEntry
  BY QueriesAssumption DEF IInv, TypeOK
<1>3. \E j \in TaskType : Goes(t, j) /\ (j.pc \in {"label", "map"} => j.room \in Rooms)
  <2>1. CASE Goes(t, Idle)
    BY <1>1, <2>1
  <2>2. ASSUME NEW r \in Rooms, NEW u \in Users \cup {NoUser},
               \/ Goes(t, [k EXCEPT !.pc = "label", !.room = r])
               \/ Goes(t, [k EXCEPT !.pc = "label", !.user = u, !.room = r])
        PROVE  \E j \in TaskType : Goes(t, j) /\ (j.pc \in {"label", "map"} => j.room \in Rooms)
    <3>1. /\ [k EXCEPT !.pc = "label", !.room = r] \in TaskType
          /\ [k EXCEPT !.pc = "label", !.room = r].room \in Rooms
          /\ [k EXCEPT !.pc = "label", !.user = u, !.room = r] \in TaskType
          /\ [k EXCEPT !.pc = "label", !.user = u, !.room = r].room \in Rooms
      BY <1>1 DEF TaskType
    <3> HIDE DEF k
    <3>2. QED
      BY <2>2, <3>1
  <2>3. ASSUME NEW pc \in {"resolve", "create", "send"}, NEW u \in Users \cup {NoUser},
               \/ Goes(t, [k EXCEPT !.pc = pc])
               \/ Goes(t, [k EXCEPT !.pc = pc, !.user = u])
        PROVE  \E j \in TaskType : Goes(t, j) /\ (j.pc \in {"label", "map"} => j.room \in Rooms)
    <3>1. /\ [k EXCEPT !.pc = pc] \in TaskType /\ [k EXCEPT !.pc = pc].pc = pc
          /\ [k EXCEPT !.pc = pc, !.user = u] \in TaskType
          /\ [k EXCEPT !.pc = pc, !.user = u].pc = pc
      BY <1>1 DEF TaskType
    <3> HIDE DEF k
    <3>2. QED
      BY <2>3, <3>1
  <2>4. CASE FindMapped(t)
    <3>1. {e.room : e \in GetByQuery(rooms[Conn], k.nick)} \subseteq Rooms
      BY <1>2 DEF GetByQuery, RoomEntry
    <3>2. QED
      BY <2>2, <2>3, <2>4, <3>1 DEF FindMapped
  <2>5. CASE FindDm(t)
    BY <1>2, <2>2, <2>3, <2>5 DEF FindDm, DmsWith
  <2>6. CASE Created(t)
    BY <2>2, <2>6 DEF Created
  <2>7. CASE Label(t)
    <3> DEFINE as == IF k.room \in direct THEN OtherNick(k.room) ELSE NoQuery
               j == [k EXCEPT !.pc = "map", !.as = as]
    <3>1. k.room \in Rooms /\ Goes(t, j)
      BY <1>1, <2>7 DEF Label
    <3>2. as \in Nicks \cup {NoQuery}
      BY QueriesAssumption DEF OtherNick, TaskRooms, MatrixTyped
    <3> HIDE DEF as
    <3>3. j \in TaskType /\ j.room \in Rooms
      BY <1>1, <3>1, <3>2 DEF TaskType
    <3> HIDE DEF j
    <3>4. QED
      BY <3>1, <3>3
  <2>8. CASE Map(t)
    BY <2>1, <2>3, <2>8 DEF Map
  <2>9. QED
    BY <2>1, <2>4, <2>5, <2>6, <2>7, <2>8
    DEF LineStep, NotResolved, NotCreated, Send, SendFails
<1>4. MatrixTyped'
  <2>1. CASE Created(t)
    <3>1. PICK r \in Rooms : /\ party[r] = Unborn /\ live' = live \cup {r}
                             /\ party' = [party EXCEPT ![r] = k.user]
                             /\ UNCHANGED <<arrived, direct>>
      BY <2>1 DEF Created, JoinRoom
    <3>2. k.user \in Users \cup {NoUser}
      BY <1>1 DEF TaskType
    <3>3. QED
      BY <3>1, <3>2, QueriesAssumption DEF TaskRooms, MatrixTyped
  <2>2. CASE Map(t)
    <3>1. UNCHANGED <<party, arrived, direct, live>>
      BY <2>2 DEF Map, MapAs, matrix, EnsureKnown, EnsureNew, EnsureQueryKnown, EnsureQueryNew, Put
    <3>2. QED
      BY <3>1 DEF TaskRooms, MatrixTyped
  <2>3. CASE ~Created(t) /\ ~Map(t)
    <3>1. UNCHANGED <<party, arrived, direct, live>>
      BY <2>3 DEF LineStep, FindMapped, FindDm, NotResolved, NotCreated, Label, Send, SendFails,
                  vars, matrix
    <3>2. QED
      BY <3>1 DEF TaskRooms, MatrixTyped
  <2>4. QED
    BY <2>1, <2>2, <2>3
<1>5. QED
  BY <1>3, <1>4, TaskKeepsRoom DEF TaskRooms

LEMMA OthersRooms ==
    ASSUME IInv, TaskRooms, [QNext]_qvars, \A t \in Tasks : ~LineStep(t)
    PROVE  TaskRooms'
<1>1. live \in SUBSET Rooms
  BY DEF IInv, TypeOK
<1>2. ASSUME NEW t \in Tasks, NEW nick \in Targets, WriteLine(t, nick) PROVE TaskRooms'
  <2> DEFINE k == [Idle EXCEPT !.pc = "find", !.nick = nick,
                     !.known = UNION {DmsWith(u) : u \in Named(nick)}]
  <2>1. UNION {DmsWith(u) : u \in Named(nick)} \in SUBSET Rooms
    BY <1>1 DEF DmsWith
  <2>2. k \in TaskType /\ k.pc = "find"
    BY <2>1, QueriesAssumption DEF Idle, TaskType
  <2>3. Goes(t, k) /\ UNCHANGED <<vars, matrix>>
    BY <1>2 DEF WriteLine
  <2> HIDE DEF k
  <2>4. QED
    BY <2>2, <2>3, TaskKeepsRoom DEF TaskRooms, MatrixTyped, vars, matrix
<1>3. ASSUME NEW t \in Tasks, NEW r \in Rooms, MapRoom(t, r) PROVE TaskRooms'
  <2> DEFINE k == [Idle EXCEPT !.pc = "label", !.room = r]
  <2>1. k \in TaskType /\ k.room = r
    BY DEF Idle, TaskType
  <2>2. Goes(t, k) /\ UNCHANGED <<vars, matrix>>
    BY <1>3 DEF MapRoom
  <2> HIDE DEF k
  <2>3. QED
    BY <2>1, <2>2, TaskKeepsRoom DEF TaskRooms, MatrixTyped, vars, matrix
<1>4. ASSUME UNCHANGED task, MatrixTyped' PROVE TaskRooms'
  BY <1>4 DEF TaskRooms, TasksTyped
<1>5. ASSUME NEW r \in Rooms, NewRoom(r) PROVE TaskRooms'
  <2>1. PICK u \in Users \cup {NoUser} :
          /\ party[r] = Unborn /\ party' = [party EXCEPT ![r] = u]
          /\ arrived' = arrived \cup {x \in {r} : party'[r] # NoUser}
          /\ JoinRoom(r) /\ UNCHANGED <<direct, task>>
    BY <1>5 DEF NewRoom
  <2>2. MatrixTyped'
    BY <2>1, QueriesAssumption DEF TaskRooms, MatrixTyped, JoinRoom
  <2>3. QED
    BY <1>4, <2>1, <2>2
<1>6. ASSUME NEW r \in Rooms,
             \/ Rejoin(r) \/ Leave(r)
             \/ PartyJoins(r) \/ PartyLeaves(r) \/ DirectComes(r)
      PROVE  TaskRooms'
  <2>1. MatrixTyped' /\ UNCHANGED task
    BY <1>6 DEF TaskRooms, MatrixTyped, Rejoin, Leave, JoinRoom, LeaveRoom, PartyJoins,
                PartyLeaves, DirectComes, vars
  <2>2. QED
    BY <1>4, <2>1
<1>7. CASE UNCHANGED qvars \/ \E c \in Conns : Connection(c)
  <2>1. UNCHANGED <<party, arrived, direct, live, task>>
    BY <1>7 DEF qvars, vars, matrix, Connection, Connect, Close, PruneTo, Put, FinishSave, FailSave
  <2>2. QED
    BY <1>4, <2>1 DEF TaskRooms, MatrixTyped
<1>8. QED
  BY <1>2, <1>3, <1>5, <1>6, <1>7 DEF QNext

-----------------------------------------------------------------------------
LEMMA StepShown ==
    ASSUME FilesApart, Conns = {Conn}, Faults = {}, ShownInv,
           [Next]_vars \/ (TaskRooms /\ [QNext]_qvars)
    PROVE  ShownInv'
<1>1. CASE \E c \in Conns : Connect(c) \/ Close(c) \/ FinishSave(c) \/ FailSave(c) \/ PruneTo(c)
  BY <1>1, ComesAndGoesShown, SaveShown, PruneShown
<1>2. CASE \E r \in Rooms : JoinRoom(r) \/ LeaveRoom(r)
  BY <1>2, RoomsShown
<1>3. CASE UNCHANGED vars
  <2>1. IInv'
    BY <1>3, OthersKeep DEF ShownInv
  <2>2. QED
    BY <1>3, <2>1 DEF vars, ShownInv
<1>4. ASSUME NEW r \in Rooms,
             \/ Locked(Conn) /\ \E nick \in Nicks \cup {NoQuery} : MapAs(r, nick)
             \/ Ensure(Conn, r) \/ EnsureQuery(Conn, r)
             \/ \E topic \in Topics : PushTopic(Conn, r, topic)
      PROVE  ShownInv'
  <2>1. Locked(Conn)
    BY <1>4 DEF Ensure, EnsureQuery, PushTopic
  <2>2. \/ \E base \in Bases, topic \in Topics :
             EnsureKnown(Conn, r, topic) \/ EnsureNew(Conn, r, base, topic)
        \/ \E topic \in Topics : PushTopic(Conn, r, topic)
        \/ \E nick \in Nicks : /\ EnsureQueryKnown(Conn, r, nick) \/ EnsureQueryNew(Conn, r, nick)
                               /\ UNCHANGED shown
    BY <1>4 DEF MapAs, Ensure, EnsureQuery
  <2>3. QED
    BY <2>1, <2>2, EnsureShown, EnsureQueryShown
<1>5. CASE [Next]_vars
  <2>1. ~Crash
    BY DEF Crash
  <2>2. QED
    BY <1>1, <1>2, <1>3, <1>4, <1>5, <2>1 DEF Next
<1>6. CASE TaskRooms /\ [QNext]_qvars
  <2>1. ASSUME NEW t \in Tasks, LineStep(t) PROVE ShownInv'
    <3>1. CASE Map(t)
      <4>1. task[t].room \in Rooms /\ task[t].as \in Nicks \cup {NoQuery}
        BY <1>6, <3>1 DEF Map, TaskRooms, TasksTyped, TaskType
      <4>2. QED
        BY <1>4, <3>1, <4>1 DEF Map
    <3>2. CASE Created(t)
      BY <1>2, <3>2 DEF Created
    <3>3. QED
      BY <1>3, <2>1, <3>1, <3>2
      DEF LineStep, FindMapped, FindDm, NotResolved, NotCreated, Label, Send, SendFails
  <2>2. CASE \E c \in Conns : Connection(c)
    BY <1>1, <2>2 DEF Connection
  <2>3. CASE \E r \in Rooms : NewRoom(r) \/ Rejoin(r) \/ Leave(r)
    BY <1>2, <2>3 DEF NewRoom, Rejoin, Leave
  <2>4. CASE \/ \E t \in Tasks, nick \in Targets : WriteLine(t, nick)
             \/ \E t \in Tasks, r \in Rooms : MapRoom(t, r)
             \/ \E r \in Rooms : PartyJoins(r) \/ PartyLeaves(r) \/ DirectComes(r)
             \/ UNCHANGED qvars
    BY <1>3, <2>4 DEF WriteLine, MapRoom, PartyJoins, PartyLeaves, DirectComes, qvars
  <2>5. QED
    BY <1>6, <2>1, <2>2, <2>3, <2>4 DEF QNext
<1>7. QED
  BY <1>5, <1>6

LEMMA InitShown ==
    ASSUME FilesApart, Init
    PROVE  ShownInv
<1>1. IInv
  BY EmptyConsistent DEF Init, IInv, TypeOK, TablesConsistent
<1>2. disk \notin Unreadable
  <2>1. disk \in SUBSET RoomEntry
    BY DEF Init
  <2>2. QED
    BY <2>1 DEF FilesApart
<1>3. QED
  BY <1>1, <1>2, QueriesAssumption DEF Init, ShownInv

LEMMA OneName == ShownInv => OneNamePerRoom
<1> SUFFICES ASSUME ShownInv, NEW r \in Rooms PROVE Cardinality(shown[r]) <= 1
  BY DEF OneNamePerRoom
<1>1. CASE shown[r] = {}
  BY <1>1, FS_EmptySet
<1>2. CASE shown[r] # {}
  <2>1. PICK ch \in shown[r] : shown[r] = {ch}
    BY <1>2 DEF ShownInv
  <2>2. Cardinality({ch}) = 1
    BY FS_Singleton
  <2>3. QED
    BY <2>1, <2>2
<1>3. QED
  BY <1>1, <1>2

\* As long as the account stays in a room, all the connections there ever are
\* show it under one channel name, whatever lines, commands and syncs map and
\* label the rooms, as long as connections come one after the other and no save
\* is cut short (README "Stable mapping", rooms.rs:3-5).
THEOREM OneNameForLines ==
    ASSUME FilesApart, Conns = {Conn}, Faults = {}
    PROVE  QSpec => []OneNamePerRoom
<1>1. QInit => ShownInv /\ TaskRooms
  <2>1. QInit => TaskRooms
    BY InitNamed DEF NInv, TaskRooms, QInit, Idle
  <2>2. QED
    BY <2>1, InitShown DEF QInit
<1>2. ShownInv /\ TaskRooms /\ [QNext]_qvars => (ShownInv /\ TaskRooms)'
  <2> SUFFICES ASSUME ShownInv, TaskRooms, [QNext]_qvars PROVE (ShownInv /\ TaskRooms)'
    OBVIOUS
  <2>1. ShownInv'
    BY StepShown
  <2>2. TaskRooms'
    BY LineRooms, OthersRooms DEF ShownInv
  <2>3. QED
    BY <2>1, <2>2
<1>3. QED
  BY <1>1, <1>2, OneName, PTL DEF QSpec

\* The same of the table alone, whoever uses it and however.
THEOREM OneNameForRooms ==
    ASSUME FilesApart, Conns = {Conn}, Faults = {}
    PROVE  Spec => []OneNamePerRoom
<1>1. Init => ShownInv
  BY InitShown
<1>2. ShownInv /\ [Next]_vars => ShownInv'
  BY StepShown
<1>3. QED
  BY <1>1, <1>2, OneName, PTL DEF Spec
=============================================================================
