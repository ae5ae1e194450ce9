------------------------------ MODULE Outgoing ------------------------------
(***************************************************************************)
(* What the client writes into one channel, on its way to Matrix and back. *)
(*                                                                         *)
(* The read loop turns a PRIVMSG, or a closed draft/multiline batch, into  *)
(* a message and spawns a task that sends it (server.rs 766-871,           *)
(* 1188-1236, 2291-2338).  The task awaits the homeserver, notes the event *)
(* id in `sent`, and shows the message to the client as an echo.  The sync *)
(* meanwhile brings every event of the room, in timeline order, and drops  *)
(* those it finds in `sent` (mod.rs 131-137, 393-398, 880-900): the two    *)
(* race for every message.                                                 *)
(*                                                                         *)
(* The client has the echo-message capability.  Lines are numbered in the  *)
(* order the client writes them, events by their place in the timeline.    *)
(***************************************************************************)
EXTENDS Integers, Sequences, FiniteSets

CONSTANTS
    Refs,         \* batch references the client uses
    SentMax,      \* `sent` is emptied when it holds more than this (4096)
    SendFaults,   \* subset of {"refused", "unanswered"}: how a send may fail
    MaxLines,     \* bound: lines the client writes
    MaxMessages,  \* bound: messages the read loop spawns a task for
    MaxForeign,   \* bound: events of other clients and other users
    MaxParts      \* bound: PART commands of the client

ASSUME OutgoingAssumption ==
    /\ SendFaults \subseteq {"refused", "unanswered"}
    /\ {SentMax, MaxLines, MaxMessages, MaxForeign, MaxParts} \subseteq Nat

VARIABLES
    joined,    \* the channel is in `Bridge::joined`
    batches,   \* open multiline batches: reference -> lines so far
    tasks,     \* the send tasks, in the order they were spawned
    timeline,  \* the events of the room: [own, here]
    cursor,    \* number of events the sync has handled
    sent,      \* `Bridge::sent`
    echoed,    \* client: events it has been shown as an echo
    relayed,   \* client: events it has been shown by the sync
    written,   \* lines written so far (bound)
    parts      \* PART commands so far (bound)

reader == <<joined, batches, written, parts>>
sync   == <<cursor, relayed>>
vars   == <<reader, tasks, timeline, sync, sent, echoed>>

Lines  == 1 .. MaxLines
Events == 1 .. (MaxMessages + MaxForeign)
NoEvent == 0

\* own: sent by the account; here: sent by this connection.
Event == [own : BOOLEAN, here : BOOLEAN]

\* body: the lines of the message; event: what the homeserver made of it.
Task == [body : Seq(Lines), pc : {"sending", "note", "echo", "done"}, event : Nat]

Init ==
    /\ joined = TRUE
    /\ batches = [r \in {} |-> <<>>]
    /\ tasks = <<>> /\ timeline = <<>>
    /\ cursor = 0 /\ sent = {}
    /\ echoed = {} /\ relayed = {}
    /\ written = 0 /\ parts = 0

-----------------------------------------------------------------------------
\* The read loop.

Spawn(body) ==
    /\ Len(tasks) < MaxMessages
    /\ tasks' = Append(tasks, [body |-> body, pc |-> "sending", event |-> NoEvent])

\* A message to a channel the client has parted is dropped.
Relay(body) == IF joined THEN Spawn(body) ELSE UNCHANGED tasks

Write(n) == written < MaxLines /\ n = written + 1 /\ written' = n

Privmsg(n) ==
    /\ Write(n)
    /\ Relay(<<n>>)
    /\ UNCHANGED <<joined, batches, parts, timeline, sync, sent, echoed>>

\* A plausible bug: a captured line is also sent on its own (no `continue`).
BatchLineFallsThrough(n, r) ==
    /\ Write(n)
    /\ IF r \in DOMAIN batches
       THEN batches' = [batches EXCEPT ![r] = Append(@, n)]
       ELSE UNCHANGED batches
    /\ Relay(<<n>>)
    /\ UNCHANGED <<joined, parts, timeline, sync, sent, echoed>>

\* A line tagged with a batch: captured when the batch is open, otherwise a
\* message like any other.
BatchLine(n, r) ==
    /\ Write(n)
    /\ IF r \in DOMAIN batches
       THEN batches' = [batches EXCEPT ![r] = Append(@, n)] /\ UNCHANGED tasks
       ELSE UNCHANGED batches /\ Relay(<<n>>)
    /\ UNCHANGED <<joined, parts, timeline, sync, sent, echoed>>

\* Opening a batch again discards the lines it held.
OpenBatch(r) ==
    /\ batches' = [s \in DOMAIN batches \cup {r} |-> IF s = r THEN <<>> ELSE batches[s]]
    /\ UNCHANGED <<joined, written, parts, tasks, timeline, sync, sent, echoed>>

\* The batch is sent whether or not the channel is still joined.
CloseBatch(r) ==
    /\ r \in DOMAIN batches
    /\ Spawn(batches[r])
    /\ batches' = [s \in DOMAIN batches \ {r} |-> batches[s]]
    /\ UNCHANGED <<joined, written, parts, timeline, sync, sent, echoed>>

Part ==
    /\ parts < MaxParts
    /\ parts' = parts + 1
    /\ joined' = FALSE
    /\ UNCHANGED <<batches, written, tasks, timeline, sync, sent, echoed>>

Rejoin ==
    /\ ~joined
    /\ joined' = TRUE
    /\ UNCHANGED <<batches, written, parts, tasks, timeline, sync, sent, echoed>>

-----------------------------------------------------------------------------
\* The send tasks.

Post(own, here) == timeline' = Append(timeline, [own |-> own, here |-> here])

Step(i, from, to, event) ==
    /\ i \in DOMAIN tasks
    /\ tasks[i].pc = from
    /\ tasks' = [tasks EXCEPT ![i].pc = to, ![i].event = event]
    /\ UNCHANGED reader

\* The homeserver puts the event into the timeline and answers.
Accepted(i) ==
    /\ Step(i, "sending", "note", Len(timeline) + 1)
    /\ Post(TRUE, TRUE)
    /\ UNCHANGED <<sync, sent, echoed>>

\* The room is gone, or the homeserver refuses: logged, nothing else.
Refused(i) ==
    /\ "refused" \in SendFaults
    /\ Step(i, "sending", "done", NoEvent)
    /\ UNCHANGED <<timeline, sync, sent, echoed>>

\* The event is accepted and its answer lost: the task sees an error.
Unanswered(i) ==
    /\ "unanswered" \in SendFaults
    /\ Step(i, "sending", "done", NoEvent)
    /\ Post(TRUE, TRUE)
    /\ UNCHANGED <<sync, sent, echoed>>

\* A plausible bug: only the latest event id is remembered.
NoteSentLatest(i) ==
    /\ Step(i, "note", "echo", tasks[i].event)
    /\ sent' = {tasks[i].event}
    /\ UNCHANGED <<timeline, sync, echoed>>

NoteSent(i) ==
    /\ Step(i, "note", "echo", tasks[i].event)
    /\ sent' = (IF Cardinality(sent) > SentMax THEN {} ELSE sent) \cup {tasks[i].event}
    /\ UNCHANGED <<timeline, sync, echoed>>

Echo(i) ==
    /\ Step(i, "echo", "done", tasks[i].event)
    /\ echoed' = echoed \cup {tasks[i].event}
    /\ UNCHANGED <<timeline, sync, sent>>

-----------------------------------------------------------------------------
\* Matrix.

\* Another user, or another client of the account, posts into the room.
Foreign ==
    /\ Cardinality({e \in DOMAIN timeline : ~timeline[e].here}) < MaxForeign
    /\ \E own \in BOOLEAN : Post(own, FALSE)
    /\ UNCHANGED <<reader, tasks, sync, sent, echoed>>

\* A plausible bug: every event of the account is taken for an echo.
HandleEventNotOwn ==
    LET e == cursor + 1 IN
    /\ e \in DOMAIN timeline
    /\ cursor' = e
    /\ relayed' = IF timeline[e].own THEN relayed ELSE relayed \cup {e}
    /\ UNCHANGED <<reader, tasks, timeline, sent, echoed>>

\* message_handler: the echo of an event this connection noted is dropped.
HandleEvent ==
    LET e == cursor + 1 IN
    /\ e \in DOMAIN timeline
    /\ cursor' = e
    /\ relayed' = IF timeline[e].own /\ e \in sent THEN relayed ELSE relayed \cup {e}
    /\ UNCHANGED <<reader, tasks, timeline, sent, echoed>>

-----------------------------------------------------------------------------
ReadLoop == \/ \E n \in Lines : Privmsg(n)
            \/ \E n \in Lines, r \in Refs : BatchLine(n, r)
            \/ \E r \in Refs : OpenBatch(r) \/ CloseBatch(r)
            \/ Part \/ Rejoin

SendTask(i) == Accepted(i) \/ Refused(i) \/ Unanswered(i) \/ NoteSent(i) \/ Echo(i)

Next == \/ ReadLoop
        \/ \E i \in 1 .. MaxMessages : SendTask(i)
        \/ Foreign
        \/ HandleEvent

\* A spawned task runs, its request ends one way or the other (the client has
\* request timeouts), and the sync goes on.  Nothing makes the client write.
Fairness ==
    /\ \A i \in 1 .. MaxMessages : WF_vars(SendTask(i))
    /\ WF_vars(HandleEvent)

Spec == Init /\ [][Next]_vars /\ Fairness

-----------------------------------------------------------------------------
\* The type of the state; the ids in `sent` and the events the client has been
\* shown are events of the timeline.
TypeOK ==
    /\ joined \in BOOLEAN
    /\ DOMAIN batches \subseteq Refs
    /\ \A r \in DOMAIN batches : batches[r] \in Seq(Lines)
    /\ tasks \in Seq(Task)
    /\ timeline \in Seq(Event)
    /\ cursor \in 0 .. Len(timeline)
    /\ sent \cup echoed \cup relayed \subseteq DOMAIN timeline
    /\ Cardinality(sent) <= SentMax + 1
    /\ written \in 0 .. MaxLines /\ parts \in 0 .. MaxParts

\* Where a line is kept: an open batch or a message.
Holders(n) == {<<"batch", r>> : r \in {s \in DOMAIN batches : n \in {batches[s][k] : k \in DOMAIN batches[s]}}}
              \cup {<<"message", i>> : i \in {j \in DOMAIN tasks : n \in {tasks[j].body[k] : k \in DOMAIN tasks[j].body}}}

Ascending(body) == \A j, k \in DOMAIN body : j < k => body[j] < body[k]

\* A line the client wrote goes into at most one message, and the lines of a
\* message are in the order they were written: opening, closing and reopening
\* batches among plain messages never sends a line twice (server.rs 766-805,
\* 1201-1234).
LinesSentOnce ==
    /\ \A n \in Lines : Cardinality(Holders(n)) <= 1
    /\ \A i \in DOMAIN tasks : Ascending(tasks[i].body)

\* Whatever races and failures there are, the client is shown every event of
\* the room in the end: an event that is dropped from the sync is echoed, and
\* one whose answer was lost comes by the sync (mod.rs 393-398, 898-899).
EverythingShown ==
    \A e \in Events : e \in DOMAIN timeline ~> e \in echoed \cup relayed

\* What the client has been shown as an echo the sync does not relay after
\* that, as long as `sent` has not been emptied (SentMax exceeds the messages
\* of the instance): the id is noted before the echo is sent (mod.rs 898).
EchoedNotRelayed ==
    [][\A e \in echoed : e \in relayed' => e \in relayed]_vars

\* The doc of `sent` (mod.rs:73-76), "Event ids we sent from *this*
\* connection: their sync echo must not be relayed back".
OwnEventsNotRelayed == \A e \in relayed : ~timeline[e].here
=============================================================================
