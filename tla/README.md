# matrix2078 in TLA+

A verification development of matrix2078, an IRC server in front of Matrix:
TLA+ modules translated from `src/src/`, TLC configurations that check them on
small instances, and proofs checked by TLAPS. File names below are relative to
`src/src/`.

1. [The system](#1-the-system)
2. [The modules and the code](#2-the-modules-and-the-code)
3. [The runs](#3-the-runs)
4. [Where the code does something else than it says](#4-where-the-code-does-something-else-than-it-says)
5. [Fairness](#5-fairness)
6. [The proofs](#6-the-proofs)
7. [What is not covered](#7-what-is-not-covered)
8. [The plan](#8-the-plan)

## 1. The system

A client connects over IRC and authenticates with a Matrix account. Each IRC
connection gets a `Bridge` of its own (`bridge/mod.rs`): a Matrix client, the
table of rooms, and the sets and lists the tasks of the connection share. Two
connections of one account share files only: its session and its channels.

| component | state it keeps | operations | correct when |
|---|---|---|---|
| room mapping, `bridge/rooms.rs` | `Vec<RoomEntry>`, `channels.json` | `load`, `save`, `prune_to`, `ensure`, `ensure_query`, lookups | one entry per room, one room per channel, names never change |
| registration burst and bootstrap, `ircd/server.rs` 202-272, 1898-1938 | `joined` | JOIN the stored channels, sync, map and JOIN fresh rooms | every bridged channel is announced |
| event handlers, `bridge/mod.rs` 324-824 | `joined`, `sent` | messages, encrypted events, topics (and reactions, redactions, presence) | every message is shown once, in order, after its JOIN |
| sending, `server.rs` 766-871, 1188-1236, 2251-2338; `mod.rs` 880-1006 | open batches, `sent` | PRIVMSG, NOTICE, multiline batches | a line is sent once; its sync echo is not shown again |
| invitations, `mod.rs` 857-877, 1010-1138 | `invites`, `next_invite_idx` | handler, collection, accept, decline | an index names one room; no invitation is lost |
| connection, `server.rs` 133-351, 725-1184 | two queues, `last_seen` | read loop, writer, keepalive | PONGs overtake, live clients stay, dead ones go |
| registration, CAP, SASL, `server.rs` 143-187, 355-470, `ircd/caps.rs`, `ircd/session.rs` | `Registration` with its `Caps` | PASS, NICK, USER, CAP, AUTHENTICATE | the capability set is what was acknowledged; the credentials belong together |
| login, `server.rs` 1940-2000, `matrix/client.rs`, `matrix/session.rs`, `state.rs` | sealed session file, store | `login_or_restore`, `save`, `load` | devices come from first logins only; the file opens again |
| verification, `matrix/verification.rs` | list of flows | `register`, `drive`, `&matrix verify ...` | a command acts on the flow it names; every notice once |
| chat history, `bridge/history.rs`, `server.rs` 1731-1862 | none (a list being collected) | context, top-up, walk from the live edge | the right window of messages, in order |
| queries, `server.rs` 2249-2287, `mod.rs` 139-159, 904-952 | the query entries of the table | `send_query`, `resolve_nick`, DM creation | a line reaches a user of the nick; a second DM comes of a race only |
| metadata and avatars, `server.rs` 1326-1730, `mod.rs` 227-318 | subscriptions, times of SYNCs, URLs found before | GET, LIST, SUB, UNSUB, SUBS, SYNC | batches stay whole; the client knows its subscriptions; avatars are recent |
| media, `media/mod.rs`, `matrix/media.rs` | cache directory, secret, negative cache | fetch, serve | no half file is served; a link stays good |
| formatting, `format/mod.rs`, `mod.rs` 1209-1376 | none | HTML <-> mIRC, wrapping | each line shows the letters and styles of the message |

How the parts meet. The read loop, the burst task, the sync task (which runs
the event handlers), a task for every JOIN and a task for every message sent
all lock the mutexes of the `Bridge` for moments and put lines into one queue
of 256 (`tx`); the read loop also has a priority lane of 32 (`prio_tx`). One
writer drains both. No mutex is held across an await, so every test of shared
state before a network request is stale after it.

The behaviours that are hard: interleavings of these tasks around the awaits;
two connections, a crash or an I/O error between truncating and writing
`channels.json`; events of the sync racing the answers of requests; a first
sync that fails; bounded queues whose producers wait for one another; the ping
timeout against a late answer. `PROJECT.json` lists each hazard with its line
and the properties aimed at it.

## 2. The modules and the code

**RoomTable** is the pure part of `rooms.rs`: entries, lookups, the choice of a
free name, and the next table of every operation. Names are abstract:
`ChannelName(b, i)` is the i-th candidate of base `b`, and different bases may
share candidates, as `dev_2` and the second `dev` do. The vector is a set: its
order decides only which of several equal query nicks is found.

**RoomMaps** is `rooms.rs` under several connections. `Connect` loads the file,
`Ensure`, `EnsureQuery`, `PruneTo` and `PushTopic` are the operations with the
condition on which each one saves, and a save is two steps, `BeginSave` (the
file is truncated, the mutex is held) and `FinishSave` or `FailSave`. Overlapping
saves of two connections may leave `Garbled` contents. `Crash` comes between any
two steps. `shown` is history: the channels a room was shown under.

**ChannelRelay** composes the table with the tasks of one connection: `Burst*`,
the bootstrap (`SyncDone` to `BootstrapDone`), the handlers (`Dispatch` to
`HandlerLine`, `TopicChange`, `SendTopic`), JOIN and PART of the read loop, the
tasks JOIN spawns, and `Deliver`, the writer. One action is the code between two
awaits. The client's state (`heard`, `last`) is what it can have concluded.

What a connection finds is its `scene`: the rooms of the stored table, the rooms
the account is joined to, whether the first sync may fail, how often the client
may PART. `Scenes` lists those of an instance.

**InOrderRelay** is the abstract specification of the Matrix -> IRC direction:
what is taken is shown once, in order, and in the end. ChannelRelay implements
it under `shown <- last` (`RelaysInOrder`).

**Queries** composes the table of RoomMaps with lines to nicks. Every line has a
task (`FindMapped`, `FindDm`, `Created`, `Label`, `Map`, `Send` are the code between
two awaits of `send_query` and `ensure_room_mapping`), and the bootstrap, handlers
and accepted invitations map rooms by the same steps (`MapRoom`). Rooms are made
and left, parties join and leave, and `m.direct` comes with a sync (`DirectComes`)
between any two steps. `known` is history: the DMs the store knew when the line was
written.

**Outgoing** is one channel in the other direction: the read loop with batches
(`Privmsg`, `BatchLine`, `OpenBatch`, `CloseBatch`), the send tasks (`Accepted`,
`Refused` or `Unanswered`, then `NoteSent`, then `Echo`) and the echo filter of the
message handler (`HandleEvent`).

**Invites** has the handler in its steps (test, describe and prompt, push), the
bootstrap's collection, the task that prompts at registration what is pending by
then, and the answers of the read loop, which remove the entry before the
request.

**Connection** is the plumbing: read loop, writer, lanes and clock. Time passes
in keepalive intervals of 30 s, and only when every task waits.

**Verification** is the hub: handlers `Register` flows, the driver takes a
`Snapshot`, moves every flow on by what the library says of it (`StartSas`,
`FindSas`, `ShowEmojis`, each with its second acquisition of the lock), and then
tells and forgets what has `Finished`; the read loop starts flows, or picks one by
its index and looks the index up again. The state of a flow in the library is
external, and changes between any two steps.

**History** is one CHATHISTORY request: the dispatch of the parsed query, then
`Context` with its top-up (`BackPage`, `ForwardPage`), or `Walk` from the live edge.
The homeserver chooses the size of every page and how it divides a context, and
the room goes on meanwhile. **Lists** is the filter that Verification (`retain`),
History (the messages of a page, those a walk keeps) and Rendering (the blank lines) share,
and lists put one after another.

**Sessions** has the logins: `FindFile` (the test and the load), the restore, the
login with the device it makes (`Accepted`), and the save in its two steps. `GivesUp`
is a request that fails or the 120 s of `matrix_auth`. **Registration** puts the
registration of one connection in front of it; the others come registered.
`ApplyToken` is `apply_req`, with the case a capability is spelled in.

**MediaCache** has the two fetches of `matrix/media.rs` and the server's secret. A
file is written as `fs::write` does it: `Open` truncates, `Write` puts the bytes,
and `fd` is where the file a task has open is found by then, since another task's
`Rename` moves it. `Content` tells whole files from torn ones; the bytes of one
name are always the same. `LoadSecret`, `MakeSecret` and `StoreSecret` are
`load_or_create_secret`, with a crash between truncating and writing, and with errors
of both the write and the read: a good secret that cannot be read is replaced like
one that is not there. `lost` is history: the keys that are gone that way.

**Metadata** composes it with the METADATA commands and the avatars of a bridge: the
read loop spawns a task per command (`Spawn`), tasks share `subs`, `recent` (the
SYNCs of the last 30 s), `memo` and `stale` (the URLs found, and whether their 600 s are
over), fetch through MediaCache, and put lines into one queue (`Emit`). `client` is what a
client makes of the lines. A crash brings a second connection (`Later`). Where the store cannot
give the members of a room, a SYNC finds nobody in it (`MembersUnread`, the `unwrap_or_default`),
and a lookup nobody of the nick (`LookupNobody`).

**Rendering** is the body of a message on its way to IRC. The tree of the HTML is
walked as `transform_m2i` walks it (`Enter`, `Leave`, `Text`, `Break`), so that a run
of the specification is a message; `WrapBody`, `Chunks` and `Lines` are `wrap_body`, `chunks`
and the filter of `body_to_irc` as operators on the text, each loop a fold. `Apply` is `apply_ctrl`, the
code's own reading of control codes, and reads the lines back. A colour code is as many characters
as `HexSize` and `DecimalSize` give it, and `chunks` cuts it like any other characters; the reader counts
them (`Joins`), as `tokenize_irc` does, and takes the rest of a code whose beginning is not
there for text.

The **MC...** modules give the constants small values; the **...Proofs**
modules hold the proofs. In the modules, an operator under a comment "A
plausible bug" is not part of the specification: it is a variant of the
definition after it that breaks one of the properties, which shows that the
property depends on that definition.

## 3. The runs

| run | instance | properties | states |
|---|---|---|---|
| `rooms_shared` | 2 connections, 2 rooms, bases `dev` and `dev_2`, crash and I/O errors | `TablesConsistent`, `NeverRenamed` | 372 000 |
| `queries_dm` | 1 connection at a time, 2 rooms of one base, 2 users, 2 tasks, 2 lines, 4 moves of Matrix | `OneNamePerRoom`, `LineReachesNick`, `SecondDmByRaceOnly` | 1 517 000 |
| `relay_scenes` | 2 rooms wanting one name and a DM, 6 scenes, queue of 2, 2 events, 1 JOIN | `AnnouncedWhenQuiet`, `RelaysInOrder`, `AllRoomsBridged` | 344 000 |
| `outgoing_echo` | 2 lines, 2 messages, 1 batch reference, 1 foreign event, 1 PART, failures | `LinesSentOnce`, `EverythingShown`, `EchoedNotRelayed` | 163 000 |
| `invites_prompts` | 2 rooms, up to 2 events per invitation, 1 later invitation, 2 answers, failures | `PromptNamesOneRoom`, `OnePendingPerRoom`, `EveryInvitePrompted` | 498 000 |
| `connection_lanes` | lanes and socket of 1, PING after 1 interval, timeout 3, join of 1 | `PongOvertakes`, `LiveClientKept`, `PingAnswered`, `ClosedTornDown` | 300 000 |
| `verification_flows` | 2 flows of other parties, 1 of ours, 1 command on a flow, lost requests | `ToldOnce`, `ActsOnPickedOrLater`, `EmojisShown`, `EndedForgotten` | 314 000 |
| `history_exact` | every timeline of 4 events, 1 arriving, limits 1 and 3, pages up to 2, 3 pages of a walk, a failure | `AfterExact`, `LatestExact`, `Answered` | 229 000 |
| `login_sessions` | 2 accounts' names, one with an account, 2 connections, 2 logins, 5 commands, crash and I/O errors, 1 change of password | `OnlyPasswordHolders`, `FirstLoginsMakeDevices`, `SessionStays`, `LoginEnds`, `LoggedInAs`, `CapsAgree` | 426 000 |
| `metadata_avatars` | 2 tasks, 2 media, 2 members and a stranger, limit 2, 8 scripts of up to 4 commands, 1 change of avatar, all faults | `BatchesKept`, `ViewAgrees`, `AvatarRecent`, `SyncTellsAll`, `TornExplained`, `LinksLive` | 1 145 000 |
| `rendering_lines` | every message of 4 nodes, 2 deep; 2 toggles, 1 colour, codes of 2 and 4 characters, letters of 1 and 2 bytes; width 5 | `LinesRead`, `LettersKept`, `LongLinesAreWords` | 134 000 |
| `history_before` | as `history_exact` | `BeforeChronological`, violated: section 4 | |

The types of the states are proved where section 6 says so, and are in no run.

What they show, beyond the one-line statements above each property:

- **Tables.** Two connections cannot corrupt each other's tables, whatever
  becomes of the file: a loaded file is a table somebody held, or reads as empty.
  `OneNamePerRoom` needs more, and is checked in `queries_dm`, where connections
  follow one another without faults: a room keeps its channel name across
  restarts, and section 6 proves it under these conditions. It is not claimed for two connections at once or after a torn write,
  where the code recomputes names.
- **Queries.** The table is refreshed with what a room looks like at the moment:
  one whose other party has not joined is `query`, a DM not yet in `m.direct`
  is a channel. Lines reach a user of the nick all the same, and none is sent to a group
  or another's DM; a DM is made twice only when a line is written before the sync
  brings the first, or between two lines that both found none.
- **Announcements.** Burst, bootstrap, handlers and JOIN commands together
  announce every channel, although each relies on `joined` to tell it that
  another one does. `AnnouncedWhenQuiet` and `AllRoomsBridged` ask this of the
  scenes that are `Calm`: no PART, no stale room, no failing sync. In the others the code
  does not keep them: a PART may remove the channel between a handler's test
  and its line, the name of a pruned room stays in `joined`, so the room that
  gets the name next is never announced, and after a failed first sync rooms are
  mapped only when a message comes.
- **Order.** In no scene does an interleaving, PART, failure or full queue let a
  message overtake or repeat another one between its handler and the client, and
  none is skipped for a later one. Every message arrives, unless the read loop panics,
  which loses the tail of the queue.
- **Echo.** A line is in one message, or none; every event of the room is shown,
  also one whose answer was lost; what was echoed is not relayed afterwards.
- **Invitations.** The counter of the handler and the indices of the collection
  never collide, since the handlers are idle while the collection runs.
- **Connection.** At most one line is written between a PONG entering the lane
  and the PONG; a client that answers is kept, whatever the writer and the read
  loop are stuck in for less than the timeout; a closed peer ends the session
  even when reader and writer wait for each other.
- **Verification.** The emojis of a flow are shown once and its end is told once,
  although the driver works on copies. A command that looks its index up twice
  may act on another flow than it picked, but only on one registered later, when
  an earlier one was forgotten in between.
- **History.** What follows an event, and what is newest, is answered exactly,
  however the homeserver divides it. What comes before an event is not: section 4.
- **Login.** Whoever comes up has a password of the account; a session that was
  once saved is never replaced by a login begun later; only a write that is cut, or
  two first logins at once, make a file that does not open.

- **Metadata.** The tasks of a connection can be as many as its commands, and a
  batch stays whole although its lines are mixed with others'. A client that waits for
  each answer knows its subscriptions. A URL that is answered is at most 600 s older than one
  looked up now. A SYNC of a channel passes over members whose avatar cannot be had, and over all of them
when the store cannot give the list. Every batch that was opened is closed, or has a task that
is still to close it.
- **Media.** Without a second task at the same file, neither crash nor error leaves
  half a file under its final name. With one it may: the second truncates the `.part`
  file while the first renames it, and when it then dies the half is served for ever. Links
outlive any crash; they die with a key that was not stored, and with one that was stored and
could not be read at a later start (`LinksLive` names both).
- **Rendering.** No letter is lost or doubled. A client that reads each line by itself
  (a line break resets the style) shows every letter in the style of its elements,
  for messages the codes can express (`Tame`), on lines that begin where no style is on and
  no colour code is under way. The wrapping keeps words whole and so their codes; only the
  chopping of a long word cuts them, and `LinesRead` excuses the line after such a cut. A line
  longer than `WIDTH` has no space in it.

Bounds. Two rooms are the smallest count where a name collides, a third lets
a DM or a stale room share it. Queues of one and two
lines make every producer wait. The six scenes are: nothing stored, one of two channels
stored, a failing sync, a stale room, a PART, and the last three together. Two events tell order apart, and let one be in
progress while the next waits. Timeouts keep the order of the real ones
(`PingAfter + AnswerWithin + BusyFor < Timeout`, an assumption of MCConnection).
Three flows let one be forgotten before the one a command picked, with another
after it. Four events and pages of at most two make a context that is topped up
twice and a walk that runs out of pages (`MaxPages` stands for `MAX_TS_PAGES`, 10).
Two logins are enough for two first logins at once, and for one that finds what
the other left; five commands are NICK, USER, an exchange of SASL and one more, or
CAP REQ and END with an exchange that supplies the nick.
Two lines and two tasks are a race of two first lines; four moves make a room, let the
party join and `m.direct` come, and take one of these back. Two METADATA tasks meet at
every shared state; a script puts the commands that use it in front of them. With
three keys for a limit of two, a SUB ends in its middle. Four nodes are an
element in another around a letter, with a letter after it. At a width of five, a letter in
a font, or after it, makes a word that is chopped, inside the codes of two and four characters
(of 3, 6, 7 and 14 in the code) and between them, and plain letters make lines of several words.
`LinesRead` without its premise about codes is violated in this instance.
`MaxMoves`, `MaxKeys`, `MaxNodes`, `MaxDepth`, `MaxEvents`, `MaxJoins`, `MaxParts`, `MaxLines`, `MaxMessages`, `MaxForeign`,
`MaxInvites`, `MaxAnswers`, `MaxPings`, `MaxCommands`, `MaxArrivals`, `MaxLogins` and
`MaxChanges` bound what the environment does; `EventsEach` bounds the events of an
invitation, and `Length`, `PageSize`, `Limits` and `Stamps` the timelines and requests.
`SentMax` exceeds the messages of its instances, so `sent` is never emptied there.
Deadlock is not checked in the models whose environment may simply stop.
Symmetry (over rooms, connections and tasks) is used in `rooms_shared` and
`queries_dm` only, which check no liveness.

## 4. Where the code does something else than it says

| run | property | what happens |
|---|---|---|
| `history_before` | `BeforeChronological` | the events before an anchor are collected newest first, each page of older ones is put in front of them, and the list is truncated at its end (`history.rs` 142-195): the answer is out of order and may leave out the nearest messages; `history.rs` 197 says "both lists returned chronological" |

It is the only property of its run, and TLC's trace is the scenario. The code
does not keep these either; each is a definition of its module, and shows when it
replaces the properties of the configuration named:

- `JoinBeforePrivmsg` (ChannelRelay, in `ChannelRelay_scenes.cfg`): the stored channels are
  in `joined` before their JOINs go out (`server.rs` 238), so a message of the first
  sync precedes the JOIN; `mod.rs` 471 rules that out ("JOIN must always be emitted
  before any PRIVMSG on a channel").
- `QueriesRoutable` (RoomMaps, in `RoomMaps_shared.cfg` with `TwoNicks`): `ensure_query` on a known room writes the plain nick
  (`rooms.rs` 114), so `bob_2` becomes `bob`, and two rooms answer to one nick,
  although `rooms.rs` 133-134 deduplicates "so queries stay routable".
- `JoinLookupFinds` (ChannelRelay, in `ChannelRelay_scenes.cfg`): JOIN tests the channel
  and looks it up again (`server.rs` 874-877, "checked above"); the bootstrap may
  prune it in between; the panic poisons the mutex of the table.
- `OwnEventsNotRelayed` (Outgoing, in `Outgoing_echo.cfg`): the id is noted after the
  await (`mod.rs` 897-898), so a sync that is faster relays the event, and the echo
  shows it again; `mod.rs` 73-76 rules that out.
- `PromptsAnswerable` (Invites, in `Invites_prompts.cfg`): the collection replaces what
  the handler had prompted during the first sync (`mod.rs` 870), so the first of two
  prompts cannot be answered.
- `CapsAgree` (Registration, in `Registration_login.cfg` with `LinesUpper`): a capability
  asked for in another case is acknowledged, and put in as it was spelled
  (`caps.rs` 85), where `has` never finds it, although `caps.rs` 68 says that supported
  tokens "are applied and ACKed".

Met while modelling, and excused by the properties or left out of them:

- A verification flow of ours that the other party starts first is never accepted,
  an accept or a start whose request fails is not tried again (`verification.rs`
  184-215), and a flow another device took over stays in the list for ever (186).
- A freshly made DM is a channel, or the query `query`, until `m.direct` and the
  invited user have arrived; the names change with the next refresh.
- Nicks are localparts, so users of two servers share one: a line may go to either,
  and each is shown the other's avatar URL. A user whose localpart is `query`, or one
  the table makes up (`bob_2`), can have a line sent to another's DM (`MadeUp`).
- SUB and UNSUB sent without waiting may be answered in another order than they took
  effect, since each command has a task of its own. 774 tells the client to wait 10 s,
  the interval is 30 s (`server.rs` 1618-1630).
- `media.rs` 3 says "Never hands raw `mxc://`"; `localize_mxc` leaves the URI in the text
  when the fetch fails (`mod.rs` 1901). The slower of two tasks fetching one file gets an
  error, although the file is there.
- Equal toggles inside one another switch each other off, a background without a
  foreground is lost, and a style that spans a line break is not taken up on the next line, or
  is inverted there. A word longer than the width is chopped only at the beginning of a
  line of the body (`mod.rs` 1331-1346). There `chunks` cuts by bytes (1358-1370), colour codes too:
  the letters after the cut lose their style, and the rest of the code is shown as text.
  A colour code swallows a "," and digits of the text after it.
- A good media secret that cannot be read, if only for a moment, is replaced by a new one
  without a word (`media/mod.rs` 218, `if let Ok`), and all links given before are dead.
- When the store cannot give the members of a channel, its SYNC is an empty batch, with nobody told
  and no error (`server.rs` 1659-1662), and a lookup passes over the room, and answers
  that nobody has the nick if it was the only one (`mod.rs` 293).
- An invitation is forgotten before its room is joined or declined (`mod.rs` 1090); when the request
  fails it is not prompted again.
- BETWEEN ignores its end, LATEST with a msgid answers what came before that
  message (`server.rs` 1801-1862), and a top-up takes a first page without messages
  for the end (`history.rs` 172).
- A crash while `session.bin` is written makes every later login of the account fail;
  so does a changed password, while the old one goes on opening the file. A first
  login that is cut after the homeserver made its device leaves the device.
- `user_dir` (`matrix/client.rs` 17-28) puts `_` for every character outside its set, so the accounts
  `a.b` and `a_b` share one session file and one store. Sessions has a file per account.

## 5. Fairness

- **ChannelRelay**: weak fairness of each task (burst, bootstrap, handler, read
  loop, JOIN tasks, writer): tokio runs a task that is ready, member lists arrive
  or fail, and the peer reads. Events and commands are not fair.
- **Outgoing**: weak fairness of every send task and of the sync: requests have
  timeouts in the Matrix client.
- **Invites**: weak fairness of the handler, the sync, the collection, the task that
  prompts at registration, and a request in progress. No one has to answer or invite.
- **Connection**: weak fairness of read loop, writer and of a peer that is up and
  reads. `ReaderReplies` is strongly fair: other tasks may fill the queue again and
  again, but a bounded tokio channel grants its permits in the order of the
  requests, so the read loop gets one.
- **Verification**: weak fairness of the handlers, the driver (its tick is a timer) and
  a command under way, and of each other party's key once it has a start or an
  accept. Nobody has to request, confirm, or cancel.
- **History**: weak fairness of the task that answers. A request need not fail, and
  each returns.
- **Sessions**: weak fairness of the code between two awaits, and of `GivesUp`, the timer
  of the login. The homeserver need not answer.

## 6. The proofs

TLAPS proves these for all values of the constants, from the assumptions the
modules name (`TableAssumption`, `MapsAssumption`, `QueriesAssumption`, `RelayConstants`,
`InvitesAssumption`, `SessionsAssumption`, `RegistrationAssumption`, `MediaAssumption`,
`MetadataAssumption`, `VerificationAssumption` and those of Outgoing and Connection). Five
theorems have a hypothesis of their own, named below.

**RoomMapsProofs, of RoomMaps.** `TypeCorrect` (`TypeOK`), `TablesStayConsistent`
(`TablesConsistent`), `ChannelNeverRenamed` (`NeverRenamed`). The invariant is
`TypeOK /\ TablesConsistent`, which is inductive: an operation changes one table by
one operator of RoomTable, and a lemma for each operator (`WithTopicKeeps`,
`AsQueryKeeps`, `PushChannelKeeps`, `PushQueryKeeps`, `RetainKeeps`, `LoadKeeps`) says
that it keeps a consistent table consistent. The type is needed with it: that a
dead connection holds no table, and that what is not `Unreadable` on disk is a
table. `UniqueChannelIsFree` supplies what `PushChannel` needs. `NeverRenamed`
follows because no operator gives an entry another channel than its own or none,
and because a room has one entry.
`NameIsFound` is about the loops of `unique_channel` and `unique_query_nick`, which the
model cuts at one attempt per room (`Attempts`): a room without an entry always finds a name
in that many, since two attempts that fail would meet the same entry (`HeldTwice`, by the
pigeonhole principle) and the candidates of a base are all different (`CandidatesApart`), as
`#b`, `#b_2`, `#b_3` are. So the bound leaves no `ensure` out.

*And of Queries.* `LinesReachNicks` (`LineReachesNick`), `SecondDmByRace`
(`SecondDmByRaceOnly`). That a line reaches its nick says nothing about the table,
which is where it can go wrong: `NInv` adds that every query entry, in memory and on
disk, names a user of its room or is made up, that a task has a room its line may go
to, and labels it with the nick of its party, although the party may have left by the
time the table is locked. A room keeps its party (`PartyKept`), so what is written down
stays true. `LinesReachNicks` assumes `NamesApart`: no localpart is `query` or a suffixed
name. For the second theorem, what a line knows are rooms `m.direct` names, which
it goes on naming.

*One name per room.* `OneNameForLines` and `OneNameForRooms` (`OneNamePerRoom`, with
the steps of Queries and of RoomMaps alone). The difficulty is the file, which lags behind the
table: topics and changes into a query are not always saved. `ShownInv` says that between
saves the two map the same rooms and differ by such changes only, that what was ever
shown of a room is one name, and that the room has this name or none in the table and on disk.
Saving must keep the rooms for that, so a step that adds or drops one must save (`PutShown`).
The hypotheses are those of the claim: one connection at a time, no cut saves, and
`FilesApart`, that what is cut is not taken for a table. Without them the code
computes names anew.

**ChannelRelayProofs.** `TypeCorrect` (`TypeOK`), `RelayRefines` (the initial states and steps
of InOrderRelay, which is `RelaysInOrder` without its fairness), `AnnouncedInTheEnd` (`AnnouncedWhenQuiet`).
Order in the queue alone is not inductive: `RelayInv` counts every message in exactly one place
(handler, queue or client), in ascending order from the client back to the handler, and
says that a panic leaves no handler. For the announcements, `CalmInv` gives every channel in
`joined` somebody who has the JOIN to send (`Announced`: burst, bootstrap, handler, a JOIN task
or the queue); when all of these are done, only the client is left. It needs that nothing
is dropped from the table of a calm scene (`Kept`), since the burst and the bootstrap
look there.

**InvitesProofs.** `TypeCorrect` (`TypeOK`, which says that every index is below the
counter), `IndexNamesOneRoom` (`PromptNamesOneRoom`), `RoomPendsOnce`
(`OnePendingPerRoom`). Neither property is inductive. `HandlerInv` adds that between
its prompt and its push the handler's index names its room in a prompt, and that
no entry of the list has the room the handler is describing (answers only remove
entries, and the collection waits for the handler). `BootInv` adds that the
collection runs with the handlers idle, that the indices it has given out lie
above the counter and are distinct, and that after the list is stored they are
below it. `GreetInv` says that what is pending, or taken by the prompting task, was
prompted or found by the collection. One lemma per action keeps the conjunction.

**RegistrationProofs, of Sessions.** `PasswordNeeded` (`OnlyPasswordHolders`), `NoDeviceLater`
(`FirstLoginsMakeDevices`), `FileStays` (`SessionStays`). `OnlyPasswordHolders` is not inductive: `Checked` adds that the
password a file is sealed with, and that of the homeserver, are passwords of the
account, and that the device between the homeserver's answer and the file belongs
to a checked one. `LateRestores` adds that an account whose session was ever saved has
a file, readable or not, and that a login begun later is never in a phase of a
first one. The steps that end or advance one connection share `EndsShape` and
`GoesShape`, and torn writes `SpoilsShape`. `FileStays` needs to know whose write it was
that another overlapped: `Apart` says that a login that has not restored works on a
device of its own, which is in no file before that login has saved it, so that a
file written by two logins is one of an account with two devices (`TwoDevices`).

*And of Registration.* `RegistrationImplements` (every step of a registration is a
step of Sessions or leaves it alone), `RegisteredHavePassword`, and `LoginAsTold`
(`LoggedInAs`). The invariant `Faithful` says that the exchange the client was told of is
the one kept, and that no login is under way while the registration is open.
`ClientKnowsCaps` (`CapsAgree`) is about what a REQ folds to, on the server and in the
client, for requests of any length. It is an induction over the tokens: `FoldExists`
finds the function of the prefixes that the library's fold chooses, `EnabledIs` and `KnownIs`
say what one more token does on each side, and `ReqAgrees` takes the shortest prefix
on which the sides differ (`Smallest`) to a contradiction. The hypothesis is that a capability is asked
for in lower case, unless to remove it (`AsSpelled`): otherwise the property does not hold (section 4).

**OutgoingProofs.** `TypeCorrect` (`TypeOK`), `LinesAreSentOnce` (`LinesSentOnce`), `EchoesStayOut`
(`EchoedNotRelayed`). `Held` says that a line already written is in one batch or one
message, and that each holds its lines in ascending order: moving a batch into a
message keeps that because the batch is removed. `Noted` says that what was
echoed is in `sent` and is an own event. `EchoesStayOut` assumes
`MaxMessages <= SentMax`: `sent` is not emptied, and `SentIsSmall` proves it from
an injection of ids into messages.

**ConnectionProofs.** `TypeCorrect` (`TypeOK`), `PongsOvertake` (`PongOvertakes`), `LiveClientsKept`
(`LiveClientKept`). `Overtaking` adds that the lane holds no ordinary line, and that a PONG a line
has passed is still in the lane while the writer holds no other ordinary line, so that its
next choice is the lane. That a live client is kept is an argument about clocks: `Clocks`
relates the silence of the client, the age of `last_seen` and the tick, and `Asked` says that while the
client is silent beyond `PingAfter`, a PING, its answer or the read of the answer is on its
way, and bounds the age at each of these places; the bounds end below the timeout. The hypothesis
`Patient` asks less than the run does: `PingAfter + AnswerWithin < Timeout` and
`BusyFor < Timeout`, which with the constants of the code (90 s and 480 s) is an answer
within 390 s and a join of less than 480 s.

**MetadataProofs, of MediaCache.** `MediaTyped` (`MediaTypeOK`), `TornFilesExplained` (`TornExplained`),
`LinksStayLive` (`LinksLive`). A torn file under its final name came from a torn `.part` file, so
the invariant speaks of both: `PartInv` says that a torn `.part` file has a `Finisher`, a
task that is writing it and that nobody has truncated since, or nobody to rename it;
`FileInv` is the same of the final name. `KeyInv` ties every link to the stored secret or to a key
that is lost, and `LinkInv` says that files never go. `LinksStayLive` says besides that no key is lost
where no I/O fails, so that what `LinksLive` excuses comes of such errors only.

*And of Metadata.* `UsesTheCache`: Metadata implements the specification of MediaCache, step by
step, so that what is proved of the cache holds in use (`FilesInUse`, both parts of it). `BatchesStayApart` (`BatchesKept`),
`ViewsAgree` (`ViewAgrees`), `AvatarsRecent` (`AvatarRecent`), `SyncsTellAll` (`SyncTellsAll`).
`MetaInv` is about one task at a time wherever it can be: `Follows` says when what a task goes on with fits what it
did, and `BatchOK`, `RecentOK`, `ToldOK` tie its open batch, its lookups and the members it is still
to tell to the client's and the bridge's state. What is between tasks is
`References` (no two tasks or lines in the queue share a reference with different batches, and
an open batch has its task), `ViewInv` (with
one SUB or UNSUB at a time, the subscriptions are what the answer under way will say) and
`FreshInv` (what is remembered was an avatar since).

**ListProofs, of Verification.** `HubInvariance`, `EachToldOnce` (`ToldOnce`), `ActsOnFlowOrLater`
(`ActsOnPickedOrLater`). Both depend on how the driver's copy lags behind the list. `VInv` says
that the list is in the order of registration (`Order`), that nothing was told of a
flow before it is registered, and that one is registered once (`Once`), that a
listed flow was not told its end, nor shown its emojis without the mark, but for the one
the driver is at (`Notices`), that the rest of a copy is listed and its marks are no older
than its notices (`Pass`), and that an index that was picked finds its flow or a later
one (`Picked`). The list is filtered by a fold of the library (`Among`); `AmongIs` proves
for lists of any length that it is the subsequence, with the places the entries
had, which is what indices that move need (`ForgetKeeps`).

*And of History.* `HistoryInvariance`, `AfterIsExact` (`AfterExact`), `LatestIsExact` (`LatestExact`),
for any timeline, page size, limits and arrivals. `HistoryInv` says what the list under way
is: all messages between the event and the token (`Following`), or all that pass
the filter between the live edge of the first page and the token, newest first (`Walking`).
A page keeps that since two lists of positions that adjoin are filtered like one
(`UpJoins`, `DownJoins`), and what arrives keeps it since it is behind everything
seen (`ArriveKeeps`). The answer is the beginning of that list. What is not there
yet would have come behind it (`Followed`, `TruncateConcat`); a walk turned round is
the end of the list in order (`Walked`, `Mirror`, `LastReversed`). The cases
`AfterExact` excuses, a page that fails and an empty answer, are excused by the theorem too. The only
assumption is `HistoryAssumption`: the page, the limits and `MaxPages` are at least one.

*And of Rendering.* `RenderingInvariance`, `LinesAlwaysRead` (`LinesRead`), `LettersAlwaysKept`
(`LettersKept`), `LongLinesAlwaysWords` (`LongLinesAreWords`), for any message, codes and `Width`. A property is
about the lines, which are computed from the text when the walk has ended, and no step of
the walk knows them; so the argument has two halves.

- Of the text: `RenderingInv` says that whoever reads it has seen every letter in its style, and stands in
  the style of the place the walk has reached (`EnterReads`, `LeaveReads`), while the elements are `Tame`; a
  code of any length is read a character at a time (`ReaderCode`, by induction). That an
  element leaves the style as it found it needs both halves of `Tame`: a code inside
  itself would switch the style off, and a background alone sets a foreground.
- Of the lines: cutting, chopping, placing, trimming and the filter drop nothing but blanks,
  and add nothing but spaces (`SplitMarks`, `ChunksWhole`, `PlaceAllMarks`, `TrimIs`, `ShownMarks`). So the lines,
  one after another, have the letters and codes of the text in its order (`LinesIs`), and a
  reader of the one sees what a reader of the other does (`MarksRead`, `LinesAreRight`). That each line
  fits or is a word is kept by `Place` (`PlaceIs`).

All loops are folds over lists. `ValueIs` proves once, for any step and any list, what a fold of the
library makes of a list with one element more, and `ListInductive` that a set of lists which
has the empty one and is closed under appending has them all: with sets for predicates,
that is an induction the provers can use. The assumption is `RenderingAssumption`: `NoColour` is no
colour, `li` and `font` are no toggles, and `Width`, `HexSize` and `DecimalSize` are at least one.

Only model-checked: liveness (`AllRoomsBridged`, `EverythingShown`,
`EveryInvitePrompted`, `PingAnswered`, `ClosedTornDown`, `EmojisShown`,
`EndedForgotten`, `Answered`, `LoginEnds`, the liveness part of `RelaysInOrder`), since
TLAPS has no rules for fairness and ENABLED. Every invariant and every other action property of the
passing runs is proved.

## 7. What is not covered

- Presence, reactions and redactions: one event, one line, no state.
- The text of lines, the characters of names (`sanitize_base`), the prefix of a
  JOIN. The handler's JOIN carries the sender's nick; ChannelRelay does not tell
  prefixes apart.
- Of formatting: the parser of HTML, links, lists other than their items, mentions, reply
  fallbacks, and the way from IRC to HTML, which are functions of one text. Of media:
  HTTP requests and ranges. Of metadata: the line sent at registration, and keys other than
  `avatar`, which have no value.
- In Queries a connection ends with its last task. Tasks that outlive it go on with
  a table nobody else has and may save it, as a second connection does; that is
  in `rooms_shared`. `prune_to` runs in one step after the sync that names the joined rooms.
  A room has one possible other party: of a DM with a third member, whose nick
  `ensure_room_mapping` may take (`mod.rs` 143-150), nothing is said.
- In History every page that has a token for the next one has an event in it, and the last
  page, at either end of the room, has none. A homeserver that sends empty pages with a token, or
  one at the live edge, is not modelled: the top-up (`history.rs` 163-192), which counts no
  pages, would ask it again for as long as it does so, so `Answered` rests on this.
- In Rendering, text that would be read as a part of the code before it (a "," or digits).
- The verification prompts at registration and `verify devices`, which read only;
  the times and bodies of history messages, and TARGETS; the tags a client gets by
  its capabilities, and the welcome burst.
- The session of a peer that hangs: the writer gives up after the ping timeout, and
  the read loop learns of it only with its next reply (`server.rs` 313), so nothing
  is claimed of it; `ClosedTornDown` is about peers that close.
- The cryptography: `Opens` takes it that a file opens with the password it was
  sealed with and no other.
- `config.rs`, `main.rs`, `ircd/proto.rs` and `bin/e2e_peer.rs`: no state after the
  start, or not part of the server.
- The Matrix SDK and the homeserver are modelled from how the code uses them:
  handlers run inside the sync, one event after another, and a request ends in an
  answer or an error.

## 8. The plan

1. Core (done): RoomTable, RoomMaps, ChannelRelay with InOrderRelay, Outgoing,
   Invites, Connection, Verification, History, Sessions with Registration.
2. Queries over the table of RoomMaps (done).
3. MediaCache, and Metadata over it (done).
4. Pure algorithms: rendering and wrapping (done). Left: `sanitize_base`, the tags by
   capabilities, stripping of reply fallbacks, the way from IRC to HTML, and
   `names_messages`, which truncates the list that holds the client's own nick.
5. Composition left: ChannelRelay with Invites (an accepted room against the
   bootstrap's JOINs) and with Outgoing's JOIN and PART.
6. Theorems: every invariant and action property of the runs, the safety
   of both refinements, and that a free name always exists (done).
