------------------------------- MODULE Invites -------------------------------
(***************************************************************************)
(* Room invitations on one connection (src/src/bridge/mod.rs 857-877,      *)
(* 1010-1138).  The client is prompted for an invitation with an index and *)
(* answers with `/msg &matrix accept <n>` or `decline <n>`.                *)
(*                                                                         *)
(* Two tasks change the list of pending invitations, and a third prompts   *)
(* for what it finds there when it starts.  The sync task runs             *)
(* the invite handler for every stripped member event, and once, after the *)
(* first sync, collects the invitations there are; both describe a room    *)
(* over the network between looking and writing.  The read loop removes an *)
(* invitation when it is answered, and then joins or leaves the room.      *)
(***************************************************************************)
EXTENDS Integers, Sequences, FiniteSets

CONSTANTS
    Rooms,        \* rooms the account may be invited to
    NoRoom,       \* room of a task that handles none
    Faults,       \* subset of {"sync", "answer"}: requests that may fail
    EventsEach,   \* bound: member events an invitation comes with
    MaxInvites,   \* bound: invitations sent while the connection lasts
    MaxAnswers    \* bound: accept and decline commands of the client

ASSUME InvitesAssumption ==
    /\ NoRoom \notin Rooms
    /\ Faults \subseteq {"sync", "answer"}
    /\ EventsEach \in Nat \ {0}
    /\ {MaxInvites, MaxAnswers} \subseteq Nat

VARIABLES
    member,    \* membership of the account in each room, at the homeserver
    store,     \* the rooms the client library lists as invited
    arriving,  \* stripped member events of the sync response being handled
    handler,   \* [pc, room, idx]: the invite handler
    boot,      \* [pc, idx, todo, found]: the bootstrap, then the endless sync
    greeter,   \* [pc, todo]: the task prompting for what is pending at its start
    counter,   \* `next_invite_idx`
    pending,   \* `Bridge::invites`: set of [idx, room]
    prompts,   \* every prompt the client has been sent: set of [idx, room]
    reader,    \* [pc, room]: the command being answered
    failed,    \* history: rooms whose invitation an answer failed for
    invites,   \* invitations sent so far (bound)
    answers    \* commands so far (bound)

matrix  == <<member, store, invites>>
syncing == <<arriving, handler, boot, counter>>
command == <<reader, failed, answers>>
vars    == <<matrix, syncing, greeter, pending, prompts, command>>

HandlerIdle == [pc |-> "idle", room |-> NoRoom, idx |-> 0]
ReaderIdle  == [pc |-> "idle", room |-> NoRoom]

Invite(n, r) == [idx |-> n, room |-> r]
Pending(r) == \E p \in pending : p.room = r

\* Invitations may be waiting already, and the stored session may know them.
Init ==
    /\ member \in [Rooms -> {"out", "invited"}]
    /\ store \in SUBSET {r \in Rooms : member[r] = "invited"}
    /\ arriving = <<>> /\ handler = HandlerIdle
    /\ boot = [pc |-> "first", idx |-> 0, todo |-> {}, found |-> {}]
    /\ greeter = [pc |-> "start", todo |-> {}]
    /\ counter = 1 /\ pending = {} /\ prompts = {}
    /\ reader = ReaderIdle /\ failed = {}
    /\ invites = 0 /\ answers = 0

-----------------------------------------------------------------------------
\* Matrix: someone invites the account; a sync response brings the news.

Invited(r) ==
    /\ member[r] = "out"
    /\ invites < MaxInvites
    /\ invites' = invites + 1
    /\ member' = [member EXCEPT ![r] = "invited"]
    /\ failed' = failed \ {r}
    /\ UNCHANGED <<greeter, store, syncing, pending, prompts, reader, answers>>

News == {r \in Rooms : member[r] = "invited"} \ store

SyncIdle == arriving = <<>> /\ handler = HandlerIdle

SyncResponse ==
    /\ boot.pc \in {"first", "forever"} /\ SyncIdle
    /\ boot.pc = "forever" => News # {}
    /\ arriving' \in UNION {[1 .. n -> News] : n \in 0 .. (EventsEach * Cardinality(News))}
    /\ \A r \in News : \E i \in DOMAIN arriving' : arriving'[i] = r
    /\ store' = store \cup News
    /\ boot' = [boot EXCEPT !.pc = IF @ = "first" THEN "synced" ELSE @]
    /\ UNCHANGED <<greeter, member, invites, handler, counter, pending, prompts, command>>

SyncOnceFails ==
    /\ "sync" \in Faults
    /\ boot.pc = "first"
    /\ boot' = [boot EXCEPT !.pc = "synced"]
    /\ UNCHANGED <<greeter, matrix, arriving, handler, counter, pending, prompts, command>>

-----------------------------------------------------------------------------
\* invite_handler, for the oldest event of the response.

\* A plausible bug: no test for an invitation that is pending already.
HandleEventAgain ==
    /\ arriving # <<>> /\ handler.pc = "idle"
    /\ arriving' = Tail(arriving)
    /\ LET r == Head(arriving) IN
        handler' = IF r \in store
                   THEN [pc |-> "describe", room |-> r, idx |-> 0]
                   ELSE HandlerIdle
    /\ UNCHANGED <<greeter, matrix, boot, counter, pending, prompts, command>>

HandleEvent ==
    /\ arriving # <<>> /\ handler.pc = "idle"
    /\ arriving' = Tail(arriving)
    /\ LET r == Head(arriving) IN
        handler' = IF r \in store /\ ~Pending(r)
                   THEN [pc |-> "describe", room |-> r, idx |-> 0]
                   ELSE HandlerIdle
    /\ UNCHANGED <<greeter, matrix, boot, counter, pending, prompts, command>>

\* The room is described; the index is taken and the prompt sent.
HandlerPrompt ==
    /\ handler.pc = "describe"
    /\ counter' = counter + 1
    /\ prompts' = prompts \cup {Invite(counter, handler.room)}
    /\ handler' = [handler EXCEPT !.pc = "push", !.idx = counter]
    /\ UNCHANGED <<greeter, matrix, arriving, boot, pending, command>>

HandlerPush ==
    /\ handler.pc = "push"
    /\ pending' = pending \cup {Invite(handler.idx, handler.room)}
    /\ handler' = HandlerIdle
    /\ UNCHANGED <<greeter, matrix, arriving, boot, counter, prompts, command>>

-----------------------------------------------------------------------------
\* collect_offline_invites, then invite_prompts; the handlers are idle.

CollectStart ==
    /\ boot.pc = "synced" /\ SyncIdle
    /\ boot' = [pc |-> "collect", idx |-> counter, todo |-> store, found |-> {}]
    /\ UNCHANGED <<greeter, matrix, arriving, handler, counter, pending, prompts, command>>

CollectOne ==
    /\ boot.pc = "collect"
    /\ \E r \in boot.todo :
        boot' = [boot EXCEPT !.idx = @ + 1, !.todo = @ \ {r},
                             !.found = @ \cup {Invite(boot.idx + 1, r)}]
    /\ UNCHANGED <<greeter, matrix, arriving, handler, counter, pending, prompts, command>>

\* A plausible bug: the counter is left at the last index given out.
CollectStoreLast ==
    /\ boot.pc = "collect" /\ boot.todo = {}
    /\ counter' = boot.idx
    /\ pending' = boot.found
    /\ boot' = [boot EXCEPT !.pc = "prompt"]
    /\ UNCHANGED <<greeter, matrix, arriving, handler, prompts, command>>

\* The list is replaced, whatever it held.
CollectStore ==
    /\ boot.pc = "collect" /\ boot.todo = {}
    /\ counter' = boot.idx + 1
    /\ pending' = boot.found
    /\ boot' = [boot EXCEPT !.pc = "prompt"]
    /\ UNCHANGED <<greeter, matrix, arriving, handler, prompts, command>>

\* A plausible bug: no prompts for the invitations collected.
PromptNone ==
    /\ boot.pc = "prompt"
    /\ boot' = [boot EXCEPT !.pc = "forever", !.found = {}]
    /\ UNCHANGED <<greeter, matrix, arriving, handler, counter, pending, prompts, command>>

\* The prompts of the collected list go out, one line after the other.
PromptFound ==
    /\ boot.pc = "prompt"
    /\ \/ \E p \in boot.found :
            /\ prompts' = prompts \cup {p}
            /\ boot' = [boot EXCEPT !.found = @ \ {p}]
       \/ /\ boot.found = {}
          /\ boot' = [boot EXCEPT !.pc = "forever"]
          /\ UNCHANGED prompts
    /\ UNCHANGED <<greeter, matrix, arriving, handler, counter, pending, command>>

-----------------------------------------------------------------------------
\* The task relay_matrix_to_irc spawns to prompt for invitations: it copies the
\* list when it first runs, before or after the handler or the bootstrap filled
\* it, and prompts for the copy.

GreetStart ==
    /\ greeter.pc = "start"
    /\ greeter' = [pc |-> "run", todo |-> pending]
    /\ UNCHANGED <<matrix, syncing, pending, prompts, command>>

GreetPrompt ==
    /\ \E p \in greeter.todo :
        /\ prompts' = prompts \cup {p}
        /\ greeter' = [greeter EXCEPT !.todo = @ \ {p}]
    /\ UNCHANGED <<matrix, syncing, pending, command>>

-----------------------------------------------------------------------------
\* The read loop: `accept` and `decline` with the index of a prompt, or with
\* the room id of a pending invitation, which finds the entry of that room.

Matching(n) == {p \in pending : p.idx = n}

Answer(n) ==
    /\ reader.pc = "idle"
    /\ answers < MaxAnswers
    /\ answers' = answers + 1

\* "no pending invite matching n"
NoMatch(n) ==
    /\ Answer(n)
    /\ Matching(n) = {}
    /\ UNCHANGED <<greeter, matrix, syncing, pending, prompts, reader, failed>>

\* The invitation is removed before the room is joined or left.
TakeInvite(n, how) ==
    /\ Answer(n)
    /\ \E p \in Matching(n) :
        /\ pending' = {q \in pending : q.room # p.room}
        /\ reader' = [pc |-> how, room |-> p.room]
    /\ UNCHANGED <<greeter, matrix, syncing, prompts, failed>>

Answered(r, as) ==
    /\ member' = [member EXCEPT ![r] = as]
    /\ store' = store \ {r}
    /\ reader' = ReaderIdle
    /\ UNCHANGED <<greeter, invites, syncing, pending, prompts, failed, answers>>

JoinRoom  == reader.pc = "accept"  /\ Answered(reader.room, "joined")
LeaveRoom == reader.pc = "decline" /\ Answered(reader.room, "out")

\* The request fails: the invitation stands, and is no longer pending.
AnswerFails ==
    /\ "answer" \in Faults
    /\ reader.pc \in {"accept", "decline"}
    /\ reader' = ReaderIdle
    /\ failed' = failed \cup {reader.room}
    /\ UNCHANGED <<greeter, matrix, syncing, pending, prompts, answers>>

-----------------------------------------------------------------------------
Handler  == HandleEvent \/ HandlerPrompt \/ HandlerPush
Sync     == SyncResponse \/ SyncOnceFails
Collect  == CollectStart \/ CollectOne \/ CollectStore \/ PromptFound
Greet    == GreetStart \/ GreetPrompt
Request  == JoinRoom \/ LeaveRoom \/ AnswerFails
Commands == \E p \in prompts \cup pending :
                NoMatch(p.idx) \/ TakeInvite(p.idx, "accept") \/ TakeInvite(p.idx, "decline")

Next == Handler \/ Sync \/ Collect \/ Greet \/ Request \/ Commands \/ \E r \in Rooms : Invited(r)

\* The sync task and a request in progress go on; nobody has to invite the
\* account or to answer.
Fairness == WF_vars(Handler) /\ WF_vars(Sync) /\ WF_vars(Collect)
            /\ WF_vars(Greet) /\ WF_vars(Request)

Spec == Init /\ [][Next]_vars /\ Fairness

-----------------------------------------------------------------------------
InviteEntry == [idx : Nat, room : Rooms]

\* The type of the state; every index given out is below the counter.
TypeOK ==
    /\ member \in [Rooms -> {"out", "invited", "joined"}]
    /\ store \in SUBSET Rooms
    /\ arriving \in Seq(Rooms)
    /\ handler \in [pc : {"idle", "describe", "push"}, room : Rooms \cup {NoRoom}, idx : Nat]
    /\ handler.pc # "idle" => handler.room \in Rooms
    /\ boot \in [pc : {"first", "synced", "collect", "prompt", "forever"},
                 idx : Nat, todo : SUBSET Rooms, found : SUBSET InviteEntry]
    /\ greeter \in [pc : {"start", "run"}, todo : SUBSET InviteEntry]
    /\ counter \in Nat
    /\ pending \in SUBSET InviteEntry /\ prompts \in SUBSET InviteEntry
    /\ \A p \in pending \cup prompts \cup greeter.todo : p.idx < counter
    /\ reader \in [pc : {"idle", "accept", "decline"}, room : Rooms \cup {NoRoom}]
    /\ reader.pc # "idle" => reader.room \in Rooms
    /\ failed \in SUBSET Rooms

\* An index the client has been shown stands for one room for as long as the
\* connection lasts, in the prompts and in the list `accept` and `decline`
\* search: answering a prompt, however old, never joins or leaves another room
\* (mod.rs 857-871, 1046, 1062-1071).
PromptNamesOneRoom ==
    \A p, q \in prompts \cup pending : p.idx = q.idx => p.room = q.room

\* A room has one pending invitation, although its events may come several
\* times and the handler describes the room between the test and the push
\* (mod.rs 1033-1048).
OnePendingPerRoom == \A p, q \in pending : p.room = q.room => p = q

Answerable(r) == \E p \in prompts : p.room = r /\ p \in pending

\* Every invitation ends up with a prompt the client can answer, unless it is
\* answered or a request for it failed: those that wait at the start of the
\* connection, those of the first sync and those that come later (README
\* "room invitations are prompted over IRC").
EveryInvitePrompted ==
    \A r \in Rooms : member[r] = "invited" ~> Answerable(r) \/ member[r] # "invited" \/ r \in failed

\* README:63-66, "room invitations are prompted over IRC (`/msg &matrix
\* accept|decline <n>`, with offline invites surfacing on connect": a prompt
\* can be answered while nothing is in progress and the invitation has not
\* been answered.
PromptsAnswerable ==
    boot.pc = "forever" /\ SyncIdle /\ answers = 0 => prompts \subseteq pending
=============================================================================
