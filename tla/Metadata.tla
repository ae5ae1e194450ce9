------------------------------ MODULE Metadata ------------------------------
(***************************************************************************)
(* draft/metadata-2 (src/src/ircd/server.rs, handle_metadata) over the     *)
(* avatars of a Bridge (src/src/bridge/mod.rs, lookup_avatar) and the      *)
(* media cache.  The read loop gives every METADATA command a task of its  *)
(* own; the tasks share the subscriptions, the times of the last SYNCs,    *)
(* the avatar URLs found before and the files, and put their lines into    *)
(* one queue.  The only key with a value is `avatar`.                      *)
(***************************************************************************)
EXTENDS MediaCache, FiniteSets

CONSTANTS
    Members,    \* members of the channel in the order of the room's list
    Own,        \* the nick of the account itself
    Avatars,    \* Avatars[n]: the avatars n may have, NoMedia for none
    Strangers,  \* nicks nobody has
    Channel,    \* the channel
    KeyNames,   \* keys of subscriptions; "avatar" is one
    BadKeys,    \* those no key may be named
    MaxSubs,    \* METADATA_MAX_SUBS
    Scripts,    \* sequences of commands and of messages with a file
    Later,      \* what the connection sees after a crash
    MaxChanges  \* how often members change their avatar

Nicks == {Members[i] : i \in DOMAIN Members} \cup Strangers
Targets == Nicks \cup {Channel}

\* What the connection may see: a METADATA command (`refused` stands for SET,
\* CLEAR and whatever is malformed), or a message with a file.
Ops == {"sub", "unsub", "subs", "refused", "get", "list", "sync"}
Command == [op : Ops, target : Targets, keys : Seq(KeyNames)] \cup [op : {"file"}, media : Media]

\* No nick is a channel name.
ASSUME MetadataAssumption ==
    /\ Members \in Seq(Nicks) /\ Channel \notin Nicks
    /\ Own \in Nicks /\ Own \notin Strangers
    /\ Scripts \subseteq Seq(Command) /\ Later \in Seq(Command)
    /\ Avatars \in [Nicks -> SUBSET (Media \cup {NoMedia})]
    /\ "avatar" \in KeyNames \ BadKeys
    /\ {MaxSubs, MaxChanges} \subseteq Nat

VARIABLES
    todo,     \* what the connection is still to see: commands and messages
    next,     \* `batch_counter`
    cmd,      \* cmd[t]: the command task t runs
    subs,     \* the connection's subscriptions
    recent,   \* targets of a SYNC within the last 30 seconds
    memo,     \* memo[n]: the avatar of n whose URL was found last
    stale,    \* nicks for which no URL was found within the last 600 seconds
    avatar,   \* avatar[n]: the avatar n has in its profile
    changes,  \* number of changes so far
    client,   \* what the client made of the lines it got
    since,    \* history: avatars n had since its URL was last unknown to all
    missed    \* history: members a SYNC could have no avatar of, <<reference, nick>>

connVars == <<todo, next>>                \* the read loop
shared == <<subs, recent, memo, stale>>   \* what the tasks of a connection share
world == <<avatar, changes>>
seen == <<client, since, missed>>
vars == <<mediaVars, connVars, cmd, shared, world, seen>>

-----------------------------------------------------------------------------
\* Lines and commands.

Line == [kind : {"open", "item", "close", "reply", "770", "771"},
         nick : Nicks \cup {Channel}, media : Media \cup {NoMedia}, keys : SUBSET KeyNames]
Plain(kind) == [kind |-> kind, nick |-> Channel, media |-> NoMedia, keys |-> {}]
Item(n, m) == [Plain("item") EXCEPT !.nick = n, !.media = m]
Keyed(kind, ks) == [Plain(kind) EXCEPT !.keys = ks]

\* `metadata_batch`
Batch(items) == <<Plain("open")>> \o items \o <<Plain("close")>>

\* A task: its command, the nick it looks up (left is what is to come), the
\* lines it has ready, and the keys it has dealt with.
NoCmd == [pc |-> "idle", op |-> "none", target |-> Channel, keys |-> <<>>,
          ok |-> {}, left |-> <<>>, out |-> <<>>, ref |-> 0]

Busy(t) == cmd[t].pc # "idle"
Sets(t, c) == cmd' = [cmd EXCEPT ![t] = c]
Goto(t, pc) == Sets(t, [cmd[t] EXCEPT !.pc = pc])
\* The lines are all the task has left to do.
Replies(t, lines) == Sets(t, [cmd[t] EXCEPT !.pc = "end", !.left = <<>>, !.out = lines])
At(t, pc) == cmd[t].pc = pc /\ cmd[t].out = <<>>

\* The nick whose avatar t is looking for.
Looked(t) == Head(cmd[t].left).nick

\* A plausible bug: the age of the URL is not tested.
FreshForEver(n) == memo[n] # NoMedia

\* `at.elapsed() < AVATAR_URL_TTL`
Fresh(n) == n \notin stale

\* An avatar of n is being looked for, or is on its way to the client.
InFlight(n) == \E t \in Tasks :
    \/ \E i \in DOMAIN cmd[t].left : cmd[t].left[i].nick = n
    \/ \E i \in DOMAIN cmd[t].out : cmd[t].out[i].nick = n

\* Searches for the avatars of ns begin: what they can find starts anew.
Begins(ns) == since' = [n \in Nicks |->
    IF n \in ns \cap stale /\ ~InFlight(n) THEN {avatar[n]} ELSE since[n]]

NewClient == [subs |-> {}, waited |-> TRUE, got |-> {}, opened |-> {},
              closed |-> {}, strays |-> FALSE, told |-> {}]

MetaInit ==
    /\ MediaInit
    /\ todo \in Scripts
    /\ next = 0
    /\ cmd = [t \in Tasks |-> NoCmd]
    /\ subs = {}
    /\ recent = {}
    /\ memo = [n \in Nicks |-> NoMedia]
    /\ avatar \in {a \in [Nicks -> Media \cup {NoMedia}] : \A n \in Nicks : a[n] \in Avatars[n]}
    /\ changes = 0
    /\ client = NewClient
    /\ stale = Nicks
    /\ since = [n \in Nicks |-> {}]
    /\ missed = {}

-----------------------------------------------------------------------------
\* The read loop: a task per command, which gets the next batch reference; a
\* message with a file is rendered by a handler that fetches it.

KeyOps == {"sub", "unsub"}

Reference == next + 1

Spawn(t) ==
    /\ server = "up"
    /\ todo # <<>>
    /\ ~Busy(t) /\ fetch[t].pc = "idle"
    /\ LET c == Head(todo)
       IN  /\ c.op # "file"
           /\ Sets(t, [NoCmd EXCEPT !.pc = c.op, !.op = c.op, !.target = c.target,
                                    !.keys = c.keys, !.ref = Reference])
           /\ client' = [client EXCEPT !.waited =
                @ /\ ~(/\ c.op \in KeyOps
                       /\ \E u \in Tasks : Busy(u) /\ cmd[u].op \in KeyOps)]
    /\ todo' = Tail(todo)
    /\ next' = next + 1
    /\ UNCHANGED <<mediaVars, shared, world, since, missed>>

FileMessage(t) ==
    /\ todo # <<>>
    /\ Head(todo).op = "file"
    /\ ~Busy(t)
    /\ FetchAttachment(t, Head(todo).media)
    /\ todo' = Tail(todo)
    /\ UNCHANGED <<next, cmd, shared, world, seen>>

FileShown(t) ==
    /\ ~Busy(t)
    /\ TakeFetched(t)
    /\ UNCHANGED <<connVars, cmd, shared, world, seen>>

-----------------------------------------------------------------------------
\* What the client makes of a line.  It is confused by a batch opened twice
\* and by a line of a batch that is not open.
IsOpen(r) == r \in client.opened \ client.closed

Received(r, l) ==
    [client EXCEPT
       !.got = @ \cup {r},
       !.opened = IF l.kind = "open" THEN @ \cup {r} ELSE @,
       !.closed = IF l.kind = "close" THEN @ \cup {r} ELSE @,
       !.strays = @ \/ (l.kind = "open" /\ r \in client.opened)
                    \/ (l.kind \in {"item", "close"} /\ ~IsOpen(r)),
       !.told = IF l.kind = "item" /\ l.media # NoMedia THEN @ \cup {<<r, l.nick>>} ELSE @,
       !.subs = IF l.kind = "770" THEN @ \cup l.keys
                ELSE IF l.kind = "771" THEN @ \ l.keys ELSE @]

Emit(t) ==
    /\ cmd[t].out # <<>>
    /\ client' = Received(cmd[t].ref, Head(cmd[t].out))
    /\ Sets(t, IF cmd[t].pc = "end" /\ Tail(cmd[t].out) = <<>>
               THEN NoCmd ELSE [cmd[t] EXCEPT !.out = Tail(@)])
    /\ UNCHANGED <<mediaVars, connVars, shared, world, since, missed>>

-----------------------------------------------------------------------------
\* SUB and UNSUB, key by key.

Local == <<mediaVars, connVars, recent, memo, stale, world, seen>>

KeyOp(t, op) == At(t, op) /\ cmd[t].keys # <<>>
NextKey(t, done) == Sets(t, [cmd[t] EXCEPT !.keys = Tail(@), !.ok = @ \cup done])

BadKey(t) ==
    /\ KeyOp(t, "sub") \/ KeyOp(t, "unsub")
    /\ Head(cmd[t].keys) \in BadKeys
    /\ Sets(t, [cmd[t] EXCEPT !.keys = Tail(@), !.out = <<Plain("reply")>>])
    /\ UNCHANGED <<subs, Local>>

SubKey(t) ==
    LET k == Head(cmd[t].keys)
    IN  /\ KeyOp(t, "sub")
        /\ k \notin BadKeys
        /\ k \in subs \/ Cardinality(subs) < MaxSubs
        /\ subs' = subs \cup {k}
        /\ NextKey(t, {k})
        /\ UNCHANGED Local

\* A plausible bug: the limit ends the command.
TooManySubsReturns(t) ==
    LET k == Head(cmd[t].keys)
    IN  /\ KeyOp(t, "sub")
        /\ k \notin BadKeys
        /\ k \notin subs /\ Cardinality(subs) >= MaxSubs
        /\ Replies(t, <<Plain("reply")>>)
        /\ UNCHANGED <<subs, Local>>

\* The limit ends the loop; the keys before it are answered.
TooManySubs(t) ==
    LET k == Head(cmd[t].keys)
    IN  /\ KeyOp(t, "sub")
        /\ k \notin BadKeys
        /\ k \notin subs /\ Cardinality(subs) >= MaxSubs
        /\ Sets(t, [cmd[t] EXCEPT !.keys = <<>>, !.out = <<Plain("reply")>>])
        /\ UNCHANGED <<subs, Local>>

UnsubKey(t) ==
    LET k == Head(cmd[t].keys)
    IN  /\ KeyOp(t, "unsub")
        /\ k \notin BadKeys
        /\ subs' = subs \ {k}
        /\ NextKey(t, {k})
        /\ UNCHANGED Local

KeysDone(t) ==
    /\ At(t, "sub") \/ At(t, "unsub")
    /\ cmd[t].keys = <<>>
    /\ IF cmd[t].ok = {} THEN Sets(t, NoCmd)
       ELSE Replies(t, <<Keyed(IF cmd[t].op = "sub" THEN "770" ELSE "771", cmd[t].ok)>>)
    /\ UNCHANGED <<subs, Local>>

\* SUBS
ListSubs(t) ==
    /\ At(t, "subs")
    /\ Replies(t, Batch(IF subs = {} THEN <<>> ELSE <<Item(Channel, NoMedia)>>))
    /\ UNCHANGED <<subs, Local>>

\* SET, CLEAR, a command that is none, no target, no keys.
Refuse(t) ==
    /\ At(t, "refused")
    /\ Replies(t, <<Plain("reply")>>)
    /\ UNCHANGED <<subs, Local>>

-----------------------------------------------------------------------------
\* GET, LIST and SYNC.

\* Channels have no metadata.
GetChannel(t) ==
    /\ At(t, "get") \/ At(t, "list")
    /\ cmd[t].target = Channel
    /\ Replies(t, Batch(IF cmd[t].op = "get" THEN <<Item(Channel, NoMedia)>> ELSE <<>>))
    /\ UNCHANGED <<subs, Local>>

\* `lookup_avatar(nick)` begins.
LooksUp(t, n) ==
    /\ Sets(t, [cmd[t] EXCEPT !.pc = "lookup", !.left = <<[nick |-> n, media |-> NoMedia]>>])
    /\ Begins({n})

GetNick(t) ==
    /\ At(t, "get") \/ At(t, "list")
    /\ cmd[t].target # Channel
    /\ LooksUp(t, cmd[t].target)
    /\ UNCHANGED <<mediaVars, connVars, shared, world, client, missed>>

TooSoon(t) ==
    /\ At(t, "sync")
    /\ cmd[t].target \in recent
    /\ Replies(t, <<Plain("reply")>>)
    /\ UNCHANGED <<subs, Local>>

SyncNick(t) ==
    /\ At(t, "sync")
    /\ cmd[t].target \notin recent \cup {Channel}
    /\ recent' = recent \cup {cmd[t].target}
    /\ LooksUp(t, cmd[t].target)
    /\ UNCHANGED <<mediaVars, connVars, subs, memo, stale, world, client, missed>>

SyncChannel(t) ==
    /\ At(t, "sync")
    /\ cmd[t].target = Channel
    /\ Channel \notin recent
    /\ recent' = recent \cup {Channel}
    /\ Sets(t, [cmd[t] EXCEPT !.pc = "members", !.out = <<Plain("open")>>])
    /\ UNCHANGED <<mediaVars, connVars, subs, memo, stale, world, seen>>

SyncExpires(g) ==
    /\ g \in recent
    /\ recent' = recent \ {g}
    /\ UNCHANGED <<mediaVars, connVars, cmd, subs, memo, stale, world, seen>>

\* The member list is read once, when the batch is open.
ReadMembers(t) ==
    /\ At(t, "members")
    /\ IF "avatar" \in subs
       THEN /\ Sets(t, [cmd[t] EXCEPT !.pc = "member", !.ok = {"avatar"},
                          !.left = [i \in DOMAIN Members |->
                             [nick |-> Members[i], media |-> avatar[Members[i]]]]])
            /\ Begins({Members[i] : i \in DOMAIN Members})
       ELSE Replies(t, <<Plain("close")>>) /\ UNCHANGED since
    /\ UNCHANGED <<mediaVars, connVars, shared, world, client, missed>>

\* A plausible bug: the error ends the command.
MembersUnreadReturns(t) ==
    /\ "io" \in MediaFaults
    /\ At(t, "members")
    /\ "avatar" \in subs
    /\ Sets(t, NoCmd)
    /\ UNCHANGED <<mediaVars, connVars, shared, world, seen>>

\* The store cannot give the list (`unwrap_or_default`): nobody is in it.
MembersUnread(t) ==
    /\ "io" \in MediaFaults
    /\ At(t, "members")
    /\ "avatar" \in subs
    /\ Sets(t, [cmd[t] EXCEPT !.pc = "member", !.ok = {"avatar"}])
    /\ missed' = missed \cup {<<cmd[t].ref, Members[i]>> : i \in DOMAIN Members}
    /\ UNCHANGED <<mediaVars, connVars, shared, world, client, since>>

MembersDone(t) ==
    /\ At(t, "member")
    /\ cmd[t].left = <<>>
    /\ Replies(t, <<Plain("close")>>)
    /\ UNCHANGED <<subs, Local>>

-----------------------------------------------------------------------------
\* A lookup ends with an avatar, with none, with an error or with nobody.

\* A plausible bug: a member whose avatar cannot be had ends the SYNC.
MemberDoneOrNot(t, m) ==
    Sets(t, [cmd[t] EXCEPT
       !.pc = "member", !.left = IF m = NoMedia THEN <<>> ELSE Tail(@),
       !.out = IF m = NoMedia THEN <<>> ELSE <<Item(Looked(t), m)>>])

\* The next member of the channel, with a line for this one if it has a URL.
MemberDone(t, m) ==
    Sets(t, [cmd[t] EXCEPT
       !.pc = "member", !.left = Tail(@),
       !.out = IF m = NoMedia THEN <<>> ELSE <<Item(Looked(t), m)>>])

\* SYNC of a nick looks it up again for every subscription named avatar.
Outcome(t, m) ==
    CASE cmd[t].op = "get"  -> Replies(t, Batch(<<Item(Looked(t), m)>>))
      [] cmd[t].op = "list" -> Replies(t, Batch(IF m = NoMedia THEN <<>>
                                                ELSE <<Item(Looked(t), m)>>))
      [] cmd[t].op = "sync" /\ cmd[t].target = Channel -> MemberDone(t, m)
      [] cmd[t].op = "sync" /\ cmd[t].target # Channel ->
           IF "again" \notin cmd[t].ok /\ "avatar" \in subs
           THEN Sets(t, [cmd[t] EXCEPT !.pc = "lookup", !.ok = {"again"}])
           ELSE Replies(t, Batch(IF m = NoMedia \/ "again" \notin cmd[t].ok THEN <<>>
                                 ELSE <<Item(Looked(t), m)>>))

Misses(t) == missed' = missed \cup {<<cmd[t].ref, Looked(t)>>}

Looking(t) == At(t, "lookup") \/ (At(t, "member") /\ cmd[t].left # <<>>)
\* The own avatar is asked of the homeserver, the others' are in the store;
\* SYNC of a channel has them from its member list.
FromProfile(t) == Looked(t) = Own
Uri(t) == IF At(t, "member") THEN Head(cmd[t].left).media ELSE avatar[Looked(t)]

LookupHit(t) ==
    /\ Looking(t)
    /\ Fresh(Looked(t))
    /\ At(t, "member") => FromProfile(t) \/ Uri(t) # NoMedia
    /\ Outcome(t, memo[Looked(t)])
    /\ UNCHANGED <<subs, Local>>

\* Nobody has the nick: rooms whose list cannot be read are passed over.
LookupNobody(t) ==
    /\ At(t, "lookup")
    /\ ~FromProfile(t) /\ ~Fresh(Looked(t))
    /\ Looked(t) \in Strangers \/ "io" \in MediaFaults
    /\ IF "again" \in cmd[t].ok THEN Outcome(t, NoMedia)
       ELSE Replies(t, <<Plain("reply")>>)
    /\ UNCHANGED <<subs, Local>>

\* No avatar.
LookupNone(t) ==
    /\ Looking(t)
    /\ Looked(t) \notin Strangers
    /\ ~FromProfile(t)
    /\ Uri(t) = NoMedia
    /\ At(t, "lookup") => ~Fresh(Looked(t))
    /\ Outcome(t, NoMedia)
    /\ Misses(t)
    /\ UNCHANGED <<mediaVars, connVars, shared, world, client, since>>

\* `cache_avatar`: the file is fetched, unless it is there.
Caches(t, m) ==
    /\ FetchAvatar(t, m)
    /\ Goto(t, "fetch")
    /\ UNCHANGED <<connVars, shared, world, seen>>

LookupFetch(t) ==
    /\ Looking(t)
    /\ Looked(t) \notin Strangers
    /\ ~FromProfile(t)
    /\ ~Fresh(Looked(t))
    /\ Uri(t) # NoMedia
    /\ Caches(t, Uri(t))

AskProfile(t) ==
    /\ Looking(t)
    /\ FromProfile(t)
    /\ ~Fresh(Looked(t))
    /\ Goto(t, "profile")
    /\ UNCHANGED <<subs, Local>>

ProfileComes(t) ==
    /\ At(t, "profile")
    /\ IF avatar[Own] # NoMedia THEN Caches(t, avatar[Own])
       ELSE /\ Outcome(t, NoMedia)
            /\ Misses(t)
            /\ UNCHANGED <<mediaVars, connVars, shared, world, client, since>>

ProfileFails(t) ==
    /\ "net" \in MediaFaults
    /\ At(t, "profile")
    /\ Outcome(t, NoMedia)
    /\ Misses(t)
    /\ UNCHANGED <<mediaVars, connVars, shared, world, client, since>>

\* The URL is remembered from when the fetch ends, whatever happened to the
\* profile, or to the URL another task remembered, since it began.
Fetched(t) ==
    LET m == fetch[t].media
        n == Looked(t)
    IN  /\ At(t, "fetch")
        /\ TakeFetched(t)
        /\ IF fetch[t].name = NoName
           THEN /\ Outcome(t, NoMedia)
                /\ Misses(t)
                /\ UNCHANGED <<memo, stale>>
           ELSE /\ memo' = [memo EXCEPT ![n] = m]
                /\ stale' = stale \ {n}
                /\ Outcome(t, m)
                /\ UNCHANGED missed
        /\ UNCHANGED <<connVars, subs, recent, world, client, since>>

UrlExpires(n) ==
    /\ n \notin stale
    /\ stale' = stale \cup {n}
    /\ UNCHANGED <<mediaVars, connVars, cmd, subs, recent, memo, world, seen>>

\* A member changes its avatar.
ChangeAvatar(n, m) ==
    /\ changes < MaxChanges
    /\ m \in Avatars[n] \ {avatar[n]}
    /\ avatar' = [avatar EXCEPT ![n] = m]
    /\ since' = [since EXCEPT ![n] = @ \cup {m}]
    /\ changes' = changes + 1
    /\ UNCHANGED <<mediaVars, connVars, cmd, shared, client, missed>>

\* The process ends, and the client connects again.
MetaCrash ==
    /\ MediaCrash
    /\ todo' = Later
    /\ next' = 0
    /\ cmd' = [t \in Tasks |-> NoCmd]
    /\ subs' = {} /\ recent' = {}
    /\ memo' = [n \in Nicks |-> NoMedia]
    /\ stale' = Nicks
    /\ client' = NewClient
    /\ since' = [n \in Nicks |-> {}]
    /\ missed' = {}
    /\ UNCHANGED world

-----------------------------------------------------------------------------
CommandStep(t) ==
    \/ Emit(t)
    \/ BadKey(t) \/ SubKey(t) \/ TooManySubs(t) \/ UnsubKey(t) \/ KeysDone(t)
    \/ ListSubs(t) \/ Refuse(t) \/ GetChannel(t) \/ GetNick(t)
    \/ TooSoon(t) \/ SyncNick(t) \/ SyncChannel(t)
    \/ ReadMembers(t) \/ MembersUnread(t) \/ MembersDone(t)
    \/ LookupHit(t) \/ LookupNobody(t) \/ LookupNone(t) \/ LookupFetch(t)
    \/ AskProfile(t) \/ ProfileComes(t) \/ ProfileFails(t) \/ Fetched(t)

Fetching(t) == FetchStep(t) /\ UNCHANGED <<connVars, cmd, shared, world, seen>>

TaskStep(t) == CommandStep(t) \/ Fetching(t) \/ FileShown(t)

Next ==
    \/ \E t \in Tasks : Spawn(t) \/ FileMessage(t) \/ TaskStep(t)
    \/ ServerStep /\ UNCHANGED <<connVars, cmd, shared, world, seen>>
    \/ \E n \in Nicks : UrlExpires(n)
    \/ \E n \in Nicks : \E m \in Avatars[n] : ChangeAvatar(n, m)
    \/ \E g \in Targets : SyncExpires(g)
    \/ MetaCrash

Spec == MetaInit /\ [][Next]_vars

-----------------------------------------------------------------------------
\* Batches of different tasks share the queue, line by line: the client finds
\* every line of a batch while that batch is open, no reference is used twice,
\* and no task ends before it has closed what it opened (server.rs run_metadata,
\* metadata_batch, and the SYNC of a channel).
BatchesKept ==
    /\ ~client.strays
    /\ \A r \in client.opened \ client.closed : \E t \in Tasks : Busy(t) /\ cmd[t].ref = r

\* A client that waits for the answer of SUB or UNSUB before the next one
\* knows from the 770 and 771 lines what it is subscribed to, and that is no
\* more than the limit it was told, whatever keys were refused and whatever
\* else runs.
ViewAgrees ==
    client.waited /\ (\A t \in Tasks : cmd[t].op \notin KeyOps) =>
        client.subs = subs /\ Cardinality(subs) <= MaxSubs

\* A URL that is remembered or on its way is of an avatar the nick had while
\* somebody was looking for it or a URL younger than 600 seconds was known:
\* after both the next answer is up to date.
AvatarRecent ==
    /\ \A n \in Nicks \ stale : memo[n] \in since[n]
    /\ \A t \in Tasks : \A i \in DOMAIN cmd[t].out :
         LET l == cmd[t].out[i] IN l.media # NoMedia => l.media \in since[l.nick]

\* When the batch of a SYNC of the channel closes, the client was told of every
\* member, unless that member has no avatar, its avatar could not be had, or the
\* store could not give this SYNC the list of members: whatever becomes of the
\* other members' avatars and of other tasks.
SyncTellsAll == \A t \in Tasks :
    /\ cmd[t].op = "sync" /\ cmd[t].target = Channel /\ cmd[t].pc = "end"
    /\ cmd[t].out # <<>> /\ cmd[t].ok = {"avatar"}
    => \A i \in DOMAIN Members :
         \/ <<cmd[t].ref, Members[i]>> \in client.told
         \/ <<cmd[t].ref, Members[i]>> \in missed
=============================================================================
