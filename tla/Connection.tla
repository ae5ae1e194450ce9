----------------------------- MODULE Connection -----------------------------
(***************************************************************************)
(* The plumbing of one IRC connection after registration (src/src/ircd/    *)
(* server.rs 202-351, 750-816, 1120-1126): the read loop, the writer with  *)
(* its priority lane and keepalive, and the end of the session.            *)
(*                                                                         *)
(* The read loop answers a PING through the priority lane and most other   *)
(* commands through the line queue; both are bounded, and a full one makes *)
(* it wait.  The writer takes from the lane first, then looks at the       *)
(* keepalive, then takes from the queue, and waits while the socket is     *)
(* full.  Other tasks of the session put lines into the queue, too.        *)
(*                                                                         *)
(* Time passes in keepalive intervals (30 s), and only when every task     *)
(* waits: a step of the program takes no time on that scale.  Ages beyond  *)
(* the ping timeout are not told apart.                                    *)
(***************************************************************************)
EXTENDS Integers, Sequences, FiniteSets

CONSTANTS
    PrioCap,       \* capacity of the priority lane (32)
    QueueCap,      \* capacity of the line queue (256)
    PingAfter,     \* intervals of silence before a PING (90 s)
    Timeout,       \* intervals of silence before the ping timeout (480 s)
    SocketCap,     \* bound: lines the socket holds, each way
    AnswerWithin,  \* bound: intervals a live client takes to answer a PING
    BusyFor,       \* bound: intervals an accepted invitation takes to join
    MaxPings       \* bound: PINGs the client sends

ASSUME ConnectionAssumption ==
    /\ {PrioCap, QueueCap, SocketCap} \subseteq Nat \ {0}
    /\ {PingAfter, Timeout, AnswerWithin, BusyFor, MaxPings} \subseteq Nat
    /\ PingAfter < Timeout

VARIABLES
    peer,      \* "up", "hung" (the TCP connection stands) or "closed"
    hungOnce,  \* history: the peer has been hung
    inbox,     \* lines the peer has written and the read loop not yet read
    wire,      \* lines written to the socket and not yet read by the peer
    owes,      \* intervals since the peer read a PING it has not answered
    asked,     \* PINGs the peer has sent
    answered,  \* PINGs the peer has seen the PONG of
    reader,    \* [pc, n]: the read loop
    writer,    \* [pc, out]: the writer
    prio,      \* the priority lane
    queue,     \* number of lines in the line queue
    silence,   \* age of `last_seen`, which the read loop updates
    idle,      \* age of `seen_at`, the writer's copy
    pinged,    \* the writer has sent a PING in this silence
    ticked,    \* the keepalive of this interval has been handled
    passed     \* history: ordinary lines written since the PONG entered the lane

client  == <<peer, hungOnce, owes, asked, answered>>
socket  == <<inbox, wire>>
lanes   == <<prio, queue>>
clock   == <<silence, idle, pinged, ticked>>
vars    == <<client, socket, reader, writer, lanes, clock, passed>>

Pings   == 1 .. MaxPings
NotOwed == -1

\* What goes over the socket: n numbers a client PING and its PONG.
Msg == [kind : {"PING", "PONG", "LINE", "ERROR", "ACCEPT", "QUIT"}, n : 0 .. MaxPings]
M(kind) == [kind |-> kind, n |-> 0]
Nothing == M("LINE")

Reading   == [pc |-> "read", n |-> 0]
Selecting == [pc |-> "select", out |-> Nothing]
Gone      == [pc |-> "gone", out |-> Nothing]

Over == reader.pc = "over"

Init ==
    /\ peer = "up" /\ hungOnce = FALSE
    /\ inbox = <<>> /\ wire = <<>>
    /\ owes = NotOwed /\ asked = 0 /\ answered = {}
    /\ reader = Reading /\ writer = Selecting
    /\ prio = <<>> /\ queue = 0
    /\ silence = 0 /\ idle = 0 /\ pinged = FALSE /\ ticked = FALSE
    /\ passed = [n \in Pings |-> 0]

-----------------------------------------------------------------------------
\* The peer.

\* A peer whose session is over has nothing left to tell us.
PeerWrites(m) == peer = "up" /\ ~Over /\ Len(inbox) < SocketCap /\ inbox' = Append(inbox, m)

PeerPings ==
    /\ asked < MaxPings
    /\ asked' = asked + 1
    /\ PeerWrites([kind |-> "PING", n |-> asked + 1])
    /\ UNCHANGED <<peer, hungOnce, owes, answered, wire, reader, writer, lanes, clock, passed>>

PeerCommands ==
    /\ \E kind \in {"LINE", "ACCEPT", "QUIT"} : PeerWrites(M(kind))
    /\ UNCHANGED <<client, wire, reader, writer, lanes, clock, passed>>

PeerAnswers ==
    /\ owes # NotOwed
    /\ owes' = NotOwed
    /\ PeerWrites(M("PONG"))
    /\ UNCHANGED <<peer, hungOnce, asked, answered, wire, reader, writer, lanes, clock, passed>>

PeerReads ==
    /\ peer = "up" /\ ~Over /\ wire # <<>>
    /\ wire' = Tail(wire)
    /\ LET m == Head(wire) IN
        /\ owes' = IF m.kind = "PING" /\ owes = NotOwed THEN 0 ELSE owes
        /\ answered' = IF m.kind = "PONG" THEN answered \cup {m.n} ELSE answered
    /\ UNCHANGED <<peer, hungOnce, asked, inbox, reader, writer, lanes, clock, passed>>

PeerHangs ==
    /\ peer = "up" /\ ~Over
    /\ peer' = "hung" /\ hungOnce' = TRUE
    /\ UNCHANGED <<owes, asked, answered, socket, reader, writer, lanes, clock, passed>>

PeerWakes ==
    /\ peer = "hung" /\ ~Over
    /\ peer' = "up"
    /\ UNCHANGED <<hungOnce, owes, asked, answered, socket, reader, writer, lanes, clock, passed>>

PeerCloses ==
    /\ peer # "closed" /\ ~Over
    /\ peer' = "closed"
    /\ wire' = <<>> /\ owes' = NotOwed
    /\ UNCHANGED <<hungOnce, asked, answered, inbox, reader, writer, lanes, clock, passed>>

-----------------------------------------------------------------------------
\* The read loop.

\* A line is read: `last_seen`, then the command.
ReadLine ==
    /\ reader.pc = "read" /\ inbox # <<>>
    /\ inbox' = Tail(inbox)
    /\ silence' = 0
    /\ LET m == Head(inbox) IN
        reader' = CASE m.kind = "PING"   -> [pc |-> "pong", n |-> m.n]
                    [] m.kind = "LINE"   -> [pc |-> "reply", n |-> 0]
                    [] m.kind = "ACCEPT" -> [pc |-> "busy", n |-> 0]
                    [] m.kind = "QUIT"   -> [pc |-> "quit", n |-> 0]
                    [] OTHER             -> Reading
    /\ UNCHANGED <<client, wire, writer, lanes, idle, pinged, ticked, passed>>

\* The session ends: the writer and the sync task are aborted, the socket is
\* dropped.
EndSession ==
    /\ reader' = [pc |-> "over", n |-> 0]
    /\ writer' = Gone
    /\ prio' = <<>> /\ queue' = 0 /\ inbox' = <<>> /\ wire' = <<>>
    /\ silence' = 0 /\ idle' = 0 /\ pinged' = FALSE /\ ticked' = FALSE
    /\ passed' = [n \in Pings |-> 0]
    /\ UNCHANGED client

ReadEof == reader.pc = "read" /\ inbox = <<>> /\ peer = "closed" /\ EndSession

\* A plausible bug: `try_send` drops the PONG when the lane is full.
ReaderTriesPong ==
    /\ reader.pc = "pong"
    /\ reader' = Reading
    /\ prio' = IF writer.pc = "gone" \/ Len(prio) = PrioCap THEN prio
               ELSE Append(prio, [kind |-> "PONG", n |-> reader.n])
    /\ UNCHANGED <<client, socket, writer, queue, clock, passed>>

\* The lane: wait for room; an error, once the writer is gone, is ignored.
ReaderPongs ==
    /\ reader.pc = "pong"
    /\ reader' = Reading
    /\ IF writer.pc = "gone" THEN UNCHANGED prio
       ELSE /\ Len(prio) < PrioCap
            /\ prio' = Append(prio, [kind |-> "PONG", n |-> reader.n])
    /\ UNCHANGED <<client, socket, writer, queue, clock, passed>>

\* The queue: wait for room; an error ends the session.
ReaderReplies ==
    /\ reader.pc = "reply" /\ writer.pc # "gone"
    /\ queue < QueueCap
    /\ queue' = queue + 1
    /\ reader' = Reading
    /\ UNCHANGED <<client, socket, writer, prio, clock, passed>>

ReplyFails == reader.pc = "reply" /\ writer.pc = "gone" /\ EndSession

\* `/msg &matrix accept`: the room is joined, and the members of its channel
\* are fetched, before the next line is read; errors of its lines are ignored.
BusyDone ==
    /\ reader.pc = "busy"
    /\ reader' = Reading
    /\ UNCHANGED <<client, socket, writer, lanes, clock, passed>>

\* QUIT: an ERROR into the lane, then the loop returns.
ReaderQuits ==
    /\ reader.pc = "quit"
    /\ reader' = [pc |-> "leave", n |-> 0]
    /\ IF writer.pc = "gone" THEN UNCHANGED prio
       ELSE Len(prio) < PrioCap /\ prio' = Append(prio, M("ERROR"))
    /\ UNCHANGED <<client, socket, writer, queue, clock, passed>>

ReaderLeaves == reader.pc = "leave" /\ EndSession

-----------------------------------------------------------------------------
\* The writer: `select!` in the order lane, keepalive, queue.

TakePrio ==
    /\ writer.pc = "select" /\ prio # <<>>
    /\ writer' = [pc |-> "send", out |-> Head(prio)]
    /\ prio' = Tail(prio)
    /\ passed' = [n \in Pings |-> IF Head(prio).n = n THEN 0 ELSE passed[n]]
    /\ UNCHANGED <<client, socket, reader, queue, clock>>

\* A plausible bug: the copy of `last_seen` is never renewed.
KeepaliveStale ==
    /\ writer.pc = "select" /\ prio = <<>> /\ ~ticked
    /\ ticked' = TRUE
    /\ writer' = IF idle >= Timeout THEN [pc |-> "last", out |-> M("ERROR")]
                 ELSE IF idle >= PingAfter /\ ~pinged THEN [pc |-> "send", out |-> M("PING")]
                 ELSE Selecting
    /\ pinged' = (pinged \/ idle >= PingAfter)
    /\ UNCHANGED <<client, socket, reader, lanes, silence, idle, passed>>

\* The keepalive: renew the copy of `last_seen`, then time out, ping or wait.
Keepalive ==
    /\ writer.pc = "select" /\ prio = <<>> /\ ~ticked
    /\ ticked' = TRUE
    /\ idle' = silence
    /\ LET asking == pinged /\ silence = idle IN
        /\ writer' = IF silence >= Timeout THEN [pc |-> "last", out |-> M("ERROR")]
                     ELSE IF silence >= PingAfter /\ ~asking THEN [pc |-> "send", out |-> M("PING")]
                     ELSE Selecting
        /\ pinged' = (asking \/ silence \in PingAfter .. (Timeout - 1))
    /\ UNCHANGED <<client, socket, reader, lanes, silence, passed>>

PassOn == [n \in Pings |-> IF \E i \in DOMAIN prio : prio[i].n = n THEN passed[n] + 1 ELSE passed[n]]

\* A plausible bug: `select!` without `biased`.
TakeLineUnbiased ==
    /\ writer.pc = "select" /\ queue > 0
    /\ writer' = [pc |-> "send", out |-> M("LINE")]
    /\ queue' = queue - 1
    /\ UNCHANGED <<client, socket, reader, prio, clock, passed>>

TakeLine ==
    /\ writer.pc = "select" /\ prio = <<>> /\ ticked
    /\ queue > 0
    /\ writer' = [pc |-> "send", out |-> M("LINE")]
    /\ queue' = queue - 1
    /\ UNCHANGED <<client, socket, reader, prio, clock, passed>>

\* `sink.send`: waits while the socket is full.
WriterSends ==
    /\ writer.pc \in {"send", "last"}
    /\ peer # "closed"
    /\ Len(wire) < SocketCap
    /\ wire' = Append(wire, writer.out)
    /\ passed' = IF writer.out.kind = "LINE" THEN PassOn ELSE passed
    /\ writer' = IF writer.pc = "last" THEN Gone ELSE Selecting
    /\ UNCHANGED <<client, inbox, reader, lanes, clock>>

\* A plausible bug: a line whose send failed is sent again.
WriterRetries ==
    /\ writer.pc \in {"send", "last"}
    /\ peer = "closed"
    /\ UNCHANGED vars

\* A failed send ends the writer and closes its queues.
WriterFails ==
    /\ writer.pc \in {"send", "last"}
    /\ peer = "closed"
    /\ writer' = Gone
    /\ UNCHANGED <<client, socket, reader, lanes, clock, passed>>

\* A line of another task: the burst, the handlers, a send task's echo.
OtherLine ==
    /\ ~Over /\ writer.pc # "gone"
    /\ queue < QueueCap
    /\ queue' = queue + 1
    /\ UNCHANGED <<client, socket, reader, writer, prio, clock, passed>>

-----------------------------------------------------------------------------
\* Every task waits: for the peer, for room, for the keepalive or a request.
Waiting ==
    /\ peer = "up" => wire = <<>> /\ owes < AnswerWithin
    /\ CASE reader.pc = "read"  -> inbox = <<>> /\ peer # "closed"
         [] reader.pc = "pong"  -> Len(prio) = PrioCap /\ writer.pc # "gone"
         [] reader.pc = "quit"  -> Len(prio) = PrioCap /\ writer.pc # "gone"
         [] reader.pc = "reply" -> queue = QueueCap /\ writer.pc # "gone"
         [] reader.pc = "busy"  -> reader.n < BusyFor
         [] OTHER -> FALSE
    /\ CASE writer.pc = "select" -> prio = <<>> /\ ticked /\ queue = 0
         [] writer.pc = "gone"   -> TRUE
         [] OTHER                -> peer # "closed" /\ Len(wire) = SocketCap

Older(age) == IF age < Timeout THEN age + 1 ELSE age

TimePasses ==
    /\ Waiting
    /\ silence' = Older(silence) /\ idle' = Older(idle)
    /\ ticked' = FALSE
    /\ owes' = IF owes # NotOwed /\ peer = "up" THEN owes + 1 ELSE owes
    /\ reader' = IF reader.pc = "busy" THEN [reader EXCEPT !.n = @ + 1] ELSE reader
    /\ UNCHANGED <<peer, hungOnce, asked, answered, socket, writer, lanes, pinged, passed>>

-----------------------------------------------------------------------------
ReadLoop == \/ ReadLine \/ ReadEof \/ ReaderPongs \/ ReaderReplies \/ ReplyFails
            \/ BusyDone \/ ReaderQuits \/ ReaderLeaves
Writer   == TakePrio \/ Keepalive \/ TakeLine \/ WriterSends \/ WriterFails
Peer     == PeerPings \/ PeerCommands \/ PeerAnswers \/ PeerHangs \/ PeerWakes \/ PeerCloses

Next == ReadLoop \/ Writer \/ Peer \/ PeerReads \/ OtherLine \/ TimePasses

\* The runtime runs the tasks; a request ends (BusyDone); a peer that is up
\* reads its socket.  A bounded tokio channel gives its permits in the order
\* they were asked for, so the read loop gets room although other tasks send.
Spec == /\ Init /\ [][Next]_vars
        /\ WF_vars(ReadLoop) /\ SF_vars(ReaderReplies)
        /\ WF_vars(Writer) /\ WF_vars(PeerReads)

-----------------------------------------------------------------------------
\* The type of the state and the bounds of the queues.
TypeOK ==
    /\ peer \in {"up", "hung", "closed"} /\ hungOnce \in BOOLEAN
    /\ inbox \in Seq(Msg) /\ wire \in Seq(Msg) /\ prio \in Seq(Msg)
    /\ Len(inbox) <= SocketCap /\ Len(wire) <= SocketCap
    /\ Len(prio) <= PrioCap /\ queue \in 0 .. QueueCap
    /\ owes \in NotOwed .. AnswerWithin
    /\ asked \in 0 .. MaxPings /\ answered \subseteq 0 .. MaxPings
    /\ reader \in [pc : {"read", "pong", "reply", "busy", "quit", "leave", "over"}, n : Nat]
    /\ reader.pc = "pong" => reader.n <= MaxPings
    /\ writer \in [pc : {"select", "send", "last", "gone"}, out : Msg]
    /\ silence \in 0 .. Timeout /\ idle \in 0 .. Timeout
    /\ pinged \in BOOLEAN /\ ticked \in BOOLEAN
    /\ passed \in [Pings -> Nat]
    /\ Over => writer = Gone

\* A PONG overtakes the backlog: of the ordinary lines only the one being
\* written when it enters the lane reaches the client before it (server.rs
\* 202-204, "PONG/ERROR must overtake any backlog of history/NAMES lines").
PongOvertakes == \A n \in Pings : passed[n] <= 1

\* A client that is up, reads its socket and answers a PING within
\* AnswerWithin intervals is not timed out, even when the read loop is busy
\* with a join for BusyFor intervals before it sees the answer: the writer
\* compares a fresh `last_seen` (server.rs 305-319).
LiveClientKept == writer.pc = "last" => hungOnce

\* The PING of a client that stays up is answered, whatever the lines other
\* tasks queue, unless the session ends.
PingAnswered ==
    \A n \in Pings : asked >= n ~> n \in answered \/ peer # "up" \/ hungOnce \/ Over

\* A session whose peer has closed the connection ends, whatever its tasks
\* were waiting for, and with it the writer and the sync task (server.rs
\* 262-271: "the matrix sync loop must not outlive the IRC connection").
ClosedTornDown == peer = "closed" ~> Over
=============================================================================
