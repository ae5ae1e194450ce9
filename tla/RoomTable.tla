------------------------------ MODULE RoomTable ------------------------------
(***************************************************************************)
(* The room -> IRC name table of one connection: the `Vec<RoomEntry>` of   *)
(* src/src/bridge/rooms.rs, as a set of records, with the operators that   *)
(* look entries up and compute the next table.  The order of the vector is *)
(* dropped: it decides only which of several entries with the same query   *)
(* nick is found first, so a lookup here returns every match.              *)
(*                                                                         *)
(* Names are abstract.  ChannelName(b, i) is the i-th candidate name for   *)
(* the sanitized base b: `#b` for i = 1, `#b_i` from i = 2 on; QueryName   *)
(* likewise for query nicks.  Different bases may share candidates         *)
(* (`#dev_2` is the second name of `dev` and the first of `dev_2`).        *)
(***************************************************************************)
EXTENDS Integers, FiniteSets

CONSTANTS
    Rooms,              \* Matrix room ids
    Bases,              \* sanitized channel bases
    Nicks,              \* query nicks (mxid localparts)
    Topics,             \* topics and room names shown as TOPIC
    NoTopic,            \* the empty topic a DM mapping is refreshed with
    ChannelName(_, _),  \* base, attempt -> candidate channel
    QueryName(_, _),    \* nick, attempt -> candidate query nick
    Fold(_),            \* ASCII case folding of a nick
    NoChannel,          \* the empty string in `channel`
    NoQuery             \* `None` in `query`

\* One attempt per room is enough: at most every other room holds a name.
Attempts == 1 .. Cardinality(Rooms)

Channels == {ChannelName(b, i) : b \in Bases, i \in Attempts}
Queries  == {QueryName(n, i) : n \in Nicks, i \in Attempts} \cup Nicks

ASSUME TableAssumption ==
    /\ IsFiniteSet(Rooms)
    /\ NoTopic \in Topics
    /\ NoChannel \notin Channels
    /\ NoQuery \notin Queries

RoomEntry == [room    : Rooms,
              channel : Channels \cup {NoChannel},
              query   : Queries \cup {NoQuery},
              topic   : Topics]

-----------------------------------------------------------------------------
\* Lookups.

GetByRoom(t, r) == {e \in t : e.room = r}

GetByChannel(t, ch) == {e \in t : e.channel = ch /\ e.channel # NoChannel}

GetByQuery(t, n) == {e \in t : e.query # NoQuery /\ Fold(e.query) = Fold(n)}

Mapped(t, r) == GetByRoom(t, r) # {}

\* The name a connection shows a room under, if it is a channel.
ChannelsOf(t, r) == {e.channel : e \in GetByRoom(t, r)} \ {NoChannel}

-----------------------------------------------------------------------------
\* Choosing a name: the first attempt no entry holds.

UniqueChannel(t, base, ch) ==
    \E i \in Attempts :
        /\ ch = ChannelName(base, i)
        /\ \A e \in t : e.channel # ch
        /\ \A j \in 1 .. (i - 1) : \E e \in t : e.channel = ChannelName(base, j)

UniqueQueryNick(t, nick, q) ==
    \E i \in Attempts :
        /\ q = QueryName(nick, i)
        /\ GetByQuery(t, q) = {}
        /\ \A j \in 1 .. (i - 1) : GetByQuery(t, QueryName(nick, j)) # {}

-----------------------------------------------------------------------------
\* Changing the table.

WithTopic(t, r, topic) ==
    {IF e.room = r THEN [e EXCEPT !.topic = topic] ELSE e : e \in t}

\* `ensure_query` on a known room: the query nick is overwritten as it is.
AsQuery(t, r, nick) ==
    {IF e.room = r
       THEN [e EXCEPT !.query = nick, !.channel = NoChannel, !.topic = NoTopic]
       ELSE e : e \in t}

PushChannel(t, r, ch, topic) ==
    t \cup {[room |-> r, channel |-> ch, query |-> NoQuery, topic |-> topic]}

PushQuery(t, r, q) ==
    t \cup {[room |-> r, channel |-> NoChannel, query |-> q, topic |-> NoTopic]}

Retain(t, keep) == {e \in t : e.room \in keep}

TopicOf(t, r) == {e.topic : e \in GetByRoom(t, r)}
=============================================================================
