--------------------------- MODULE ConnectionProofs ---------------------------
(***************************************************************************)
(* Proofs about Connection, for any capacities, timeouts and numbers of    *)
(* PINGs: the state is well typed, the queues keep to their capacities, a  *)
(* PONG overtakes the backlog, and a client that answers is not timed out. *)
(***************************************************************************)
EXTENDS Connection, SequenceTheorems, TLAPS

\* The caps and ages are numbers.
LEMMA Numbers ==
    /\ PrioCap \in Nat /\ QueueCap \in Nat /\ SocketCap \in Nat
    /\ PrioCap > 0 /\ QueueCap > 0 /\ SocketCap > 0
    /\ PingAfter \in Nat /\ Timeout \in Nat /\ AnswerWithin \in Nat /\ MaxPings \in Nat
BY ConnectionAssumption

\* A line that fits into a queue, and the one taken out of it.
LEMMA AppendFits ==
    ASSUME NEW q \in Seq(Msg), NEW m \in Msg, NEW cap \in Nat, Len(q) < cap
    PROVE  Append(q, m) \in Seq(Msg) /\ Len(Append(q, m)) <= cap
<1>1. Append(q, m) \in Seq(Msg) /\ Len(Append(q, m)) = Len(q) + 1 /\ Len(q) \in Nat
  BY AppendProperties, LenProperties
<1>2. QED
  BY <1>1

LEMMA TailFits ==
    ASSUME NEW q \in Seq(Msg), NEW cap \in Nat, Len(q) <= cap, q # <<>>
    PROVE  /\ Tail(q) \in Seq(Msg) /\ Len(Tail(q)) <= cap
           /\ Head(q) \in Msg /\ Head(q).n \in 0 .. MaxPings
<1>1. Tail(q) \in Seq(Msg) /\ Len(Tail(q)) = Len(q) - 1 /\ Len(q) \in Nat /\ Head(q) \in Msg
  BY HeadTailProperties, LenProperties
<1>2. QED
  BY <1>1 DEF Msg

LEMMA Lines ==
    /\ \A kind \in {"PING", "PONG", "LINE", "ERROR", "ACCEPT", "QUIT"} : M(kind) \in Msg
    /\ Nothing \in Msg
BY Numbers DEF M, Msg, Nothing

LEMMA InitTyped == Init => TypeOK
<1> SUFFICES ASSUME Init PROVE TypeOK
  OBVIOUS
<1>1. inbox = <<>> /\ wire = <<>> /\ prio = <<>>
  BY DEF Init
<1>2. <<>> \in Seq(Msg) /\ Len(<<>>) = 0
  OBVIOUS
<1>3. reader = [pc |-> "read", n |-> 0] /\ writer = [pc |-> "select", out |-> Nothing]
  BY DEF Init, Reading, Selecting
<1>4. reader.pc = "read" /\ writer \in [pc : {"select", "send", "last", "gone"}, out : Msg]
  BY <1>3, Lines
<1>5. reader \in [pc : {"read", "pong", "reply", "busy", "quit", "leave", "over"}, n : Nat]
  BY <1>3
<1>6. passed \in [Pings -> Nat]
  BY DEF Init
<1>7. /\ queue \in 0 .. QueueCap /\ owes \in NotOwed .. AnswerWithin
      /\ asked \in 0 .. MaxPings /\ silence \in 0 .. Timeout /\ idle \in 0 .. Timeout
  BY Numbers DEF Init, NotOwed
<1>8. inbox \in Seq(Msg) /\ wire \in Seq(Msg) /\ prio \in Seq(Msg)
  BY <1>1, <1>2
<1>9. Len(inbox) <= SocketCap /\ Len(wire) <= SocketCap /\ Len(prio) <= PrioCap
  BY <1>1, <1>2, Numbers
<1>10. QED
  BY <1>4, <1>5, <1>6, <1>7, <1>8, <1>9 DEF Init, TypeOK, Over

LEMMA PeerTyped ==
    ASSUME TypeOK, Peer
    PROVE  TypeOK'
<1>1. ASSUME NEW m \in Msg, PeerWrites(m) PROVE inbox' \in Seq(Msg) /\ Len(inbox') <= SocketCap
  BY <1>1, AppendFits, Numbers DEF PeerWrites, TypeOK
<1>2. CASE PeerPings
  <2>1. asked + 1 \in 0 .. MaxPings /\ [kind |-> "PING", n |-> asked + 1] \in Msg
    BY <1>2, Numbers DEF PeerPings, TypeOK, Msg
  <2>2. QED
    BY <1>1, <1>2, <2>1 DEF PeerPings, TypeOK, lanes, clock, Over
<1>3. CASE PeerCommands
  <2>1. PICK kind \in {"LINE", "ACCEPT", "QUIT"} : PeerWrites(M(kind))
    BY <1>3 DEF PeerCommands
  <2>2. QED
    BY <1>1, <1>3, <2>1, Lines DEF PeerCommands, TypeOK, client, lanes, clock, Over
<1>4. CASE PeerAnswers
  BY <1>1, <1>4, Lines, Numbers DEF PeerAnswers, TypeOK, lanes, clock, Over, NotOwed
<1>5. CASE PeerHangs \/ PeerWakes
  BY <1>5 DEF PeerHangs, PeerWakes, TypeOK, socket, lanes, clock, Over
<1>6. CASE PeerCloses
  <2>1. wire' \in Seq(Msg) /\ Len(wire') = 0 /\ owes' \in NotOwed .. AnswerWithin
    BY <1>6, Numbers DEF PeerCloses, NotOwed
  <2>2. QED
    BY <1>6, <2>1, Numbers DEF PeerCloses, TypeOK, lanes, clock, Over
<1>7. QED
  BY <1>2, <1>3, <1>4, <1>5, <1>6 DEF Peer

LEMMA PeerReadsTyped ==
    ASSUME TypeOK, PeerReads
    PROVE  TypeOK'
<1>1. /\ wire' \in Seq(Msg) /\ Len(wire') <= SocketCap
      /\ Head(wire).n \in 0 .. MaxPings
  BY TailFits, Numbers DEF PeerReads, TypeOK
<1>2. owes' \in NotOwed .. AnswerWithin
  BY Numbers DEF PeerReads, TypeOK, NotOwed
<1>3. answered' \subseteq 0 .. MaxPings
  BY <1>1 DEF PeerReads, TypeOK
<1>4. QED
  BY <1>1, <1>2, <1>3 DEF PeerReads, TypeOK, lanes, clock, Over

\* The read loop's commands.
LEMMA EndSessionTyped ==
    ASSUME TypeOK, EndSession
    PROVE  TypeOK'
<1>1. <<>> \in Seq(Msg) /\ Len(<<>>) = 0
  OBVIOUS
<1>2. reader' = [pc |-> "over", n |-> 0] /\ writer' = [pc |-> "gone", out |-> Nothing]
  BY DEF EndSession, Gone
<1>3. /\ reader'.pc = "over"
      /\ reader' \in [pc : {"read", "pong", "reply", "busy", "quit", "leave", "over"}, n : Nat]
      /\ writer' \in [pc : {"select", "send", "last", "gone"}, out : Msg]
  BY <1>2, Lines
<1>4. passed' \in [Pings -> Nat]
  BY DEF EndSession
<1>5. queue' \in 0 .. QueueCap /\ silence' \in 0 .. Timeout /\ idle' \in 0 .. Timeout
  BY Numbers DEF EndSession
<1>6. /\ inbox' \in Seq(Msg) /\ wire' \in Seq(Msg) /\ prio' \in Seq(Msg)
      /\ Len(inbox') <= SocketCap /\ Len(wire') <= SocketCap /\ Len(prio') <= PrioCap
  BY <1>1, Numbers DEF EndSession
<1>7. QED
  BY <1>2, <1>3, <1>4, <1>5, <1>6 DEF EndSession, TypeOK, client, Over, Gone

LEMMA ReadLineTyped ==
    ASSUME TypeOK, ReadLine
    PROVE  TypeOK'
<1> DEFINE m == Head(inbox)
<1>1. /\ inbox' \in Seq(Msg) /\ Len(inbox') <= SocketCap
      /\ m \in Msg /\ m.n \in 0 .. MaxPings
  BY TailFits, Numbers DEF ReadLine, TypeOK
<1>2. \/ reader' = [pc |-> "pong", n |-> m.n]
      \/ \E pc \in {"reply", "busy", "quit", "read"} : reader' = [pc |-> pc, n |-> 0]
  BY DEF ReadLine, Reading
<1>3. reader' \in [pc : {"read", "pong", "reply", "busy", "quit", "leave", "over"}, n : Nat]
  BY <1>1, <1>2, Numbers
<1>4. reader'.pc # "over" /\ (reader'.pc = "pong" => reader'.n <= MaxPings)
  BY <1>1, <1>2, Numbers
<1>5. silence' \in 0 .. Timeout
  <2>1. silence' = 0
    BY DEF ReadLine
  <2>2. QED
    BY <2>1, Numbers
<1>6. QED
  BY <1>1, <1>3, <1>4, <1>5 DEF ReadLine, TypeOK, client, lanes, Over

LEMMA ReadingShape ==
    /\ Reading \in [pc : {"read", "pong", "reply", "busy", "quit", "leave", "over"}, n : Nat]
    /\ Reading.pc = "read"
BY DEF Reading

LEMMA ReadLoopTyped ==
    ASSUME TypeOK, ReadLoop
    PROVE  TypeOK'
<1>1. CASE ReadEof \/ ReplyFails \/ ReaderLeaves
  BY <1>1, EndSessionTyped DEF ReadEof, ReplyFails, ReaderLeaves
<1>2. CASE ReaderPongs
  <2>1. [kind |-> "PONG", n |-> reader.n] \in Msg
    BY <1>2, Numbers DEF ReaderPongs, TypeOK, Msg
  <2>2. prio' \in Seq(Msg) /\ Len(prio') <= PrioCap
    BY <1>2, <2>1, AppendFits, Numbers DEF ReaderPongs, TypeOK
  <2>3. QED
    BY <1>2, <2>2, ReadingShape DEF ReaderPongs, TypeOK, client, socket, clock, Over
<1>3. CASE ReaderReplies
  <2>1. queue' \in 0 .. QueueCap
    BY <1>3, Numbers DEF ReaderReplies, TypeOK
  <2>2. QED
    BY <1>3, <2>1, ReadingShape DEF ReaderReplies, TypeOK, client, socket, clock, Over
<1>4. CASE BusyDone
  BY <1>4, ReadingShape DEF BusyDone, TypeOK, client, socket, lanes, clock, Over
<1>5. CASE ReaderQuits
  <2>1. prio' \in Seq(Msg) /\ Len(prio') <= PrioCap
    BY <1>5, Lines, AppendFits, Numbers DEF ReaderQuits, TypeOK
  <2>2. QED
    BY <1>5, <2>1 DEF ReaderQuits, TypeOK, client, socket, clock, Over
<1>6. QED
  BY <1>1, <1>2, <1>3, <1>4, <1>5, ReadLineTyped DEF ReadLoop

LEMMA WriterTyped ==
    ASSUME TypeOK, Writer
    PROVE  TypeOK'
<1> DEFINE Writers == [pc : {"select", "send", "last", "gone"}, out : Msg]
<1>1. Selecting \in Writers /\ Gone \in Writers
  BY Lines DEF Selecting, Gone
<1>2. \A pc \in {"send", "last"}, m \in Msg : [pc |-> pc, out |-> m] \in Writers
  OBVIOUS
<1>3. CASE TakePrio
  <2>1. prio' \in Seq(Msg) /\ Len(prio') <= PrioCap /\ Head(prio) \in Msg
    BY <1>3, TailFits, Numbers DEF TakePrio, TypeOK
  <2>2. passed' \in [Pings -> Nat]
    BY <1>3 DEF TakePrio, TypeOK
  <2>3. reader.pc # "over" /\ writer' \in Writers
    BY <1>2, <1>3, <2>1 DEF TakePrio, TypeOK, Over, Gone
  <2>4. QED
    BY <1>3, <2>1, <2>2, <2>3 DEF TakePrio, TypeOK, client, socket, clock, Over
<1>4. CASE Keepalive
  <2>1. writer' \in Writers
    BY <1>1, <1>2, <1>4, Lines DEF Keepalive
  <2>2. reader.pc # "over" /\ pinged' \in BOOLEAN
    BY <1>4 DEF Keepalive, TypeOK, Over, Gone
  <2>3. QED
    BY <1>4, <2>1, <2>2 DEF Keepalive, TypeOK, client, socket, lanes, Over
<1>5. CASE TakeLine
  <2>1. queue' \in 0 .. QueueCap /\ reader.pc # "over" /\ writer' \in Writers
    BY <1>2, <1>5, Lines, Numbers DEF TakeLine, TypeOK, Over, Gone
  <2>2. QED
    BY <1>5, <2>1 DEF TakeLine, TypeOK, client, socket, clock, Over
<1>6. CASE WriterSends
  <2>1. wire' \in Seq(Msg) /\ Len(wire') <= SocketCap
    BY <1>6, AppendFits, Numbers DEF WriterSends, TypeOK
  <2>2. passed' \in [Pings -> Nat]
    <3>1. passed \in [Pings -> Nat] /\ \A n \in Pings : passed[n] \in Nat /\ passed[n] + 1 \in Nat
      BY DEF TypeOK
    <3>2. PassOn \in [Pings -> Nat]
      BY <3>1 DEF PassOn
    <3>3. QED
      BY <1>6, <3>1, <3>2 DEF WriterSends
  <2>3. reader.pc # "over" /\ writer' \in Writers
    BY <1>1, <1>6 DEF WriterSends, TypeOK, Over, Gone
  <2>4. QED
    BY <1>6, <2>1, <2>2, <2>3 DEF WriterSends, TypeOK, client, lanes, clock, Over
<1>7. CASE WriterFails
  BY <1>1, <1>7 DEF WriterFails, TypeOK, client, socket, lanes, clock, Over
<1>8. QED
  BY <1>3, <1>4, <1>5, <1>6, <1>7 DEF Writer

LEMMA TimeTyped ==
    ASSUME TypeOK, OtherLine \/ TimePasses
    PROVE  TypeOK'
<1>1. CASE OtherLine
  <2>1. queue' \in 0 .. QueueCap
    BY <1>1, Numbers DEF OtherLine, TypeOK
  <2>2. QED
    BY <1>1, <2>1 DEF OtherLine, TypeOK, client, socket, clock, Over
<1>2. CASE TimePasses
  <2>1. silence' \in 0 .. Timeout /\ idle' \in 0 .. Timeout
    <3>1. \A age \in 0 .. Timeout : Older(age) \in 0 .. Timeout
      BY Numbers DEF Older
    <3>2. silence' = Older(silence) /\ idle' = Older(idle)
      BY <1>2 DEF TimePasses
    <3>3. QED
      BY <3>1, <3>2 DEF TypeOK
  <2>2. owes' \in NotOwed .. AnswerWithin
    <3>1. /\ peer = "up" => owes < AnswerWithin
          /\ owes' = IF owes # NotOwed /\ peer = "up" THEN owes + 1 ELSE owes
      BY <1>2 DEF TimePasses, Waiting
    <3>2. owes \in NotOwed .. AnswerWithin
      BY DEF TypeOK
    <3>3. QED
      BY <3>1, <3>2, Numbers DEF NotOwed
  <2>3. /\ reader' \in [pc : {"read", "pong", "reply", "busy", "quit", "leave", "over"}, n : Nat]
        /\ reader'.pc = reader.pc /\ (reader.pc = "pong" => reader' = reader)
    BY <1>2 DEF TimePasses, TypeOK
  <2>4. QED
    BY <1>2, <2>1, <2>2, <2>3 DEF TimePasses, TypeOK, socket, lanes, Over
<1>3. QED
  BY <1>1, <1>2

LEMMA StepTyped == TypeOK /\ [Next]_vars => TypeOK'
<1> SUFFICES ASSUME TypeOK, [Next]_vars PROVE TypeOK'
  OBVIOUS
<1>1. CASE UNCHANGED vars
  BY <1>1 DEF vars, client, socket, lanes, clock, TypeOK, Over
<1>2. QED
  BY <1>1, PeerTyped, PeerReadsTyped, ReadLoopTyped, WriterTyped, TimeTyped DEF Next

\* The state is well typed, and neither queue ever holds more than its
\* capacity, whatever the peer, the other tasks and the clock do.
THEOREM TypeCorrect == Spec => []TypeOK
BY InitTyped, StepTyped, PTL DEF Spec

-----------------------------------------------------------------------------
\* PONG before backlog.

InLane(n) == \E i \in DOMAIN prio : prio[i].n = n

\* The lane holds no ordinary line; a PONG in it that a line has passed is
\* not passed by another: the writer has written that line, and looks at the
\* lane before it takes the next.
Overtaking ==
    /\ \A i \in DOMAIN prio : prio[i].kind # "LINE"
    /\ \A n \in Pings : passed[n] <= 1
    /\ \A n \in Pings : passed[n] = 1 =>
          InLane(n) /\ ~(writer.pc = "send" /\ writer.out.kind = "LINE")
    /\ writer.pc = "last" => writer.out.kind # "LINE"

LEMMA InitOvertaking == Init => Overtaking
BY DEF Init, Overtaking, Selecting

\* What is in a queue stays in it when another line is put behind it.
LEMMA AppendKeepsLane ==
    ASSUME TypeOK, NEW m \in Msg, prio' = Append(prio, m), m.kind # "LINE",
           \A i \in DOMAIN prio : prio[i].kind # "LINE"
    PROVE  /\ \A i \in DOMAIN prio' : prio'[i].kind # "LINE"
           /\ \A n \in Pings : InLane(n) => InLane(n)'
<1>1. prio \in Seq(Msg) /\ Len(prio) \in Nat /\ DOMAIN prio = 1 .. Len(prio)
  BY LenProperties DEF TypeOK
<1>2. /\ prio' \in Seq(Msg) /\ Len(prio') = Len(prio) + 1
      /\ \A i \in 1 .. Len(prio) : prio'[i] = prio[i]
      /\ prio'[Len(prio) + 1] = m
  BY <1>1, AppendProperties
<1>3. DOMAIN prio' = 1 .. (Len(prio) + 1)
  BY <1>1, <1>2, LenProperties
<1>4. DOMAIN prio \subseteq DOMAIN prio' /\ \A i \in DOMAIN prio' : i \in DOMAIN prio \/ i = Len(prio) + 1
  BY <1>1, <1>3
<1>5. QED
  BY <1>1, <1>2, <1>4 DEF InLane

LEMMA TailOfLane ==
    ASSUME TypeOK, prio # <<>>, prio' = Tail(prio)
    PROVE  /\ \A i \in DOMAIN prio' : i + 1 \in DOMAIN prio /\ prio'[i] = prio[i + 1]
           /\ \A n \in Pings : InLane(n) /\ Head(prio).n # n => InLane(n)'
           /\ 1 \in DOMAIN prio /\ Head(prio) = prio[1]
<1>1. prio \in Seq(Msg) /\ Len(prio) \in Nat /\ Len(prio) > 0 /\ DOMAIN prio = 1 .. Len(prio)
  <2>1. prio \in Seq(Msg) /\ Len(prio) \in Nat /\ DOMAIN prio = 1 .. Len(prio)
    BY LenProperties DEF TypeOK
  <2>2. Len(prio) # 0
    BY <2>1, EmptySeq
  <2>3. QED
    BY <2>1, <2>2
<1>2. /\ Tail(prio) \in Seq(Msg) /\ Len(Tail(prio)) = Len(prio) - 1 /\ Head(prio) = prio[1]
      /\ \A i \in 1 .. Len(Tail(prio)) : Tail(prio)[i] = prio[i + 1]
  BY <1>1, HeadTailProperties
<1>3. DOMAIN prio' = 1 .. (Len(prio) - 1)
  BY <1>1, <1>2, LenProperties
<1>4. ASSUME NEW n \in Pings, NEW i \in DOMAIN prio, prio[i].n = n, Head(prio).n # n PROVE InLane(n)'
  <2>1. i - 1 \in DOMAIN prio' /\ prio'[i - 1] = prio[i]
    BY <1>1, <1>2, <1>3, <1>4
  <2>2. QED
    BY <1>4, <2>1 DEF InLane
<1>5. QED
  BY <1>1, <1>2, <1>3, <1>4 DEF InLane

\* Steps of the peer, of the clock and of the queue leave the lane alone.
LEMMA OthersOvertaking ==
    ASSUME TypeOK, Overtaking, UNCHANGED <<prio, passed>>,
           writer' = writer \/ writer'.pc \notin {"send", "last"} \/ writer'.out.kind # "LINE"
    PROVE  Overtaking'
BY DEF Overtaking, InLane

LEMMA EndSessionOvertaking ==
    ASSUME TypeOK, EndSession
    PROVE  Overtaking'
<1>1. /\ prio' = <<>> /\ DOMAIN prio' = {} /\ \A n \in Pings : passed'[n] = 0
      /\ writer'.pc = "gone"
  BY DEF EndSession, Gone
<1>2. QED
  BY <1>1 DEF Overtaking

LEMMA ReadLoopOvertaking ==
    ASSUME TypeOK, Overtaking, ReadLoop
    PROVE  Overtaking'
<1>1. CASE ReadEof \/ ReplyFails \/ ReaderLeaves
  BY <1>1, EndSessionOvertaking DEF ReadEof, ReplyFails, ReaderLeaves
<1>2. CASE ReadLine \/ ReaderReplies \/ BusyDone
  BY <1>2, OthersOvertaking DEF ReadLine, ReaderReplies, BusyDone, lanes
<1>3. CASE ReaderPongs \/ ReaderQuits
  <2>1. UNCHANGED <<passed, writer>>
    BY <1>3 DEF ReaderPongs, ReaderQuits
  <2>2. CASE UNCHANGED prio
    BY <2>1, <2>2, OthersOvertaking
  <2>3. CASE prio' # prio
    <3>1. PICK m \in Msg : prio' = Append(prio, m) /\ m.kind # "LINE"
      <4>1. [kind |-> "PONG", n |-> reader.n] \in Msg \/ reader.pc # "pong"
        BY Numbers DEF TypeOK, Msg
      <4>2. M("ERROR") \in Msg /\ M("ERROR").kind # "LINE"
        BY Lines DEF M
      <4>3. QED
        BY <1>3, <2>3, <4>1, <4>2 DEF ReaderPongs, ReaderQuits
    <3>2. QED
      BY <2>1, <3>1, AppendKeepsLane DEF Overtaking
  <2>4. QED
    BY <2>2, <2>3
<1>4. QED
  BY <1>1, <1>2, <1>3 DEF ReadLoop

LEMMA WriterOvertaking ==
    ASSUME TypeOK, Overtaking, Writer
    PROVE  Overtaking'
<1>1. CASE TakePrio
  <2>1. /\ prio # <<>> /\ prio' = Tail(prio)
        /\ writer' = [pc |-> "send", out |-> Head(prio)]
        /\ \A n \in Pings : passed'[n] = IF Head(prio).n = n THEN 0 ELSE passed[n]
    BY <1>1 DEF TakePrio
  <2>2. writer'.out.kind # "LINE"
    BY <2>1, TailOfLane DEF Overtaking
  <2>3. \A i \in DOMAIN prio' : prio'[i].kind # "LINE"
    BY <2>1, TailOfLane DEF Overtaking
  <2>4. QED
    BY <2>1, <2>2, <2>3, TailOfLane DEF Overtaking
<1>2. CASE Keepalive
  <2>1. UNCHANGED <<prio, passed>>
    BY <1>2 DEF Keepalive, lanes
  <2>2. writer'.pc = "select" \/ writer'.out.kind # "LINE"
    BY <1>2 DEF Keepalive, Selecting, M
  <2>3. QED
    BY <2>1, <2>2, OthersOvertaking
<1>3. CASE TakeLine
  <2>1. prio = <<>> /\ DOMAIN prio = {} /\ UNCHANGED <<prio, passed>> /\ writer'.pc = "send"
    BY <1>3 DEF TakeLine
  <2>2. QED
    BY <2>1 DEF Overtaking, InLane
<1>4. CASE WriterSends
  <2>1. UNCHANGED prio /\ writer'.pc \notin {"send", "last"}
    BY <1>4 DEF WriterSends, lanes, Gone, Selecting
  <2>2. CASE writer.out.kind # "LINE"
    BY <1>4, <2>1, <2>2, OthersOvertaking DEF WriterSends
  <2>3. CASE writer.out.kind = "LINE" /\ writer.pc = "send"
    <3>1. \A n \in Pings : passed'[n] = IF InLane(n) THEN passed[n] + 1 ELSE passed[n]
      BY <1>4, <2>3 DEF WriterSends, PassOn, InLane
    <3>2. \A n \in Pings : passed[n] = 0
      BY <2>3 DEF Overtaking, TypeOK
    <3>3. QED
      BY <2>1, <3>1, <3>2 DEF Overtaking, InLane
  <2>4. ~(writer.out.kind = "LINE" /\ writer.pc = "last")
    BY DEF Overtaking
  <2>5. QED
    BY <1>4, <2>2, <2>3, <2>4 DEF WriterSends
<1>5. CASE WriterFails
  BY <1>5, OthersOvertaking DEF WriterFails, lanes, Gone
<1>6. QED
  BY <1>1, <1>2, <1>3, <1>4, <1>5 DEF Writer

LEMMA StepOvertaking == TypeOK /\ Overtaking /\ [Next]_vars => Overtaking'
<1> SUFFICES ASSUME TypeOK, Overtaking, [Next]_vars PROVE Overtaking'
  OBVIOUS
<1>1. CASE UNCHANGED vars
  BY <1>1, OthersOvertaking DEF vars, lanes
<1>2. CASE Peer
  BY <1>2, OthersOvertaking
  DEF Peer, PeerPings, PeerCommands, PeerAnswers, PeerHangs, PeerWakes, PeerCloses, lanes
<1>3. CASE PeerReads \/ OtherLine \/ TimePasses
  BY <1>3, OthersOvertaking DEF PeerReads, OtherLine, TimePasses, lanes
<1>4. QED
  BY <1>1, <1>2, <1>3, ReadLoopOvertaking, WriterOvertaking DEF Next

\* A PONG overtakes the backlog: whatever the tasks of a session queue and
\* however the writer, the read loop and the peer take turns, at most one
\* ordinary line, the one being written, is written between the moment a PONG
\* enters the lane and its own turn (server.rs 202-204).
THEOREM PongsOvertake == Spec => []PongOvertakes
<1>1. Overtaking => PongOvertakes
  BY DEF Overtaking, PongOvertakes
<1>2. QED
  BY <1>1, InitTyped, StepTyped, InitOvertaking, StepOvertaking, PTL DEF Spec

-----------------------------------------------------------------------------
\* A live client is kept.

\* The timeout is longer than a PING and its answer, and than a join.
Patient == /\ 0 < PingAfter
           /\ PingAfter + AnswerWithin < Timeout
           /\ BusyFor < Timeout

HasPing(q) == \E i \in DOMAIN q : q[i].kind = "PING"

PingLeaves == writer.pc = "send" /\ writer.out.kind = "PING"

\* The writer's copy is as old as `last_seen`, or a line has come since the
\* last keepalive; a PING goes out once `last_seen` is PingAfter old.
Clocks ==
    /\ silence <= idle
    /\ silence < idle => silence = 0 \/ (silence = 1 /\ ~ticked)
    /\ pinged => 0 < idle
    /\ silence = idle /\ (PingAfter < silence \/ (ticked /\ PingAfter <= silence)) => pinged

\* Where the PING of this silence, or its answer, is; and how old `last_seen`
\* can be there.
Asked ==
    /\ peer # "hung"
    /\ PingLeaves \/ (peer = "up" /\ HasPing(wire)) => silence <= PingAfter
    /\ owes # NotOwed => peer = "up" /\ silence <= PingAfter + owes
    /\ peer = "up" /\ pinged /\ silence = idle =>
         PingLeaves \/ HasPing(wire) \/ owes # NotOwed \/ inbox # <<>>
    /\ reader.pc = "busy" => silence <= reader.n /\ reader.n <= BusyFor
    /\ silence <= PingAfter + AnswerWithin \/ silence <= BusyFor

Serving == ~hungOnce /\ writer.pc \in {"select", "send"}

LiveInv ==
    /\ writer.pc = "last" => hungOnce
    /\ ~HasPing(prio)
    /\ Serving => Clocks /\ Asked

LEMMA Ages ==
    /\ BusyFor \in Nat
    /\ TypeOK => /\ silence \in 0 .. Timeout /\ idle \in 0 .. Timeout
                 /\ silence \in Int /\ idle \in Int /\ owes \in Int /\ reader.n \in Nat
                 /\ 0 <= silence /\ 0 <= idle /\ (owes = NotOwed \/ 0 <= owes)
BY Numbers, ConnectionAssumption DEF TypeOK, NotOwed

\* What is put behind a queue or taken from it is a PING, or the queue has
\* one exactly when it had one.
LEMMA PingAppended ==
    ASSUME NEW q \in Seq(Msg), NEW m \in Msg
    PROVE  HasPing(Append(q, m)) <=> HasPing(q) \/ m.kind = "PING"
<1>1. Len(q) \in Nat /\ DOMAIN q = 1 .. Len(q)
  BY LenProperties
<1>2. /\ Append(q, m) \in Seq(Msg) /\ Len(Append(q, m)) = Len(q) + 1
      /\ \A i \in 1 .. Len(q) : Append(q, m)[i] = q[i]
      /\ Append(q, m)[Len(q) + 1] = m
  BY <1>1, AppendProperties
<1>3. DOMAIN Append(q, m) = 1 .. (Len(q) + 1)
  BY <1>2, LenProperties
<1>4. DOMAIN Append(q, m) = DOMAIN q \cup {Len(q) + 1}
  BY <1>1, <1>3
<1>5. QED
  BY <1>1, <1>2, <1>4 DEF HasPing

LEMMA PingTaken ==
    ASSUME NEW q \in Seq(Msg), q # <<>>
    PROVE  HasPing(q) <=> Head(q).kind = "PING" \/ HasPing(Tail(q))
<1>1. Len(q) \in Nat /\ DOMAIN q = 1 .. Len(q) /\ Len(q) # 0
  BY LenProperties, EmptySeq
<1>2. /\ Tail(q) \in Seq(Msg) /\ Len(Tail(q)) = Len(q) - 1 /\ Head(q) = q[1]
      /\ \A i \in 1 .. Len(Tail(q)) : Tail(q)[i] = q[i + 1]
  BY <1>1, HeadTailProperties
<1>3. DOMAIN Tail(q) = 1 .. (Len(q) - 1)
  BY <1>2, LenProperties
<1>4. ASSUME NEW i \in DOMAIN q, q[i].kind = "PING", i # 1 PROVE HasPing(Tail(q))
  <2>1. i - 1 \in DOMAIN Tail(q) /\ Tail(q)[i - 1] = q[i]
    BY <1>1, <1>2, <1>3, <1>4
  <2>2. QED
    BY <1>4, <2>1 DEF HasPing
<1>5. ASSUME NEW i \in DOMAIN Tail(q), Tail(q)[i].kind = "PING" PROVE HasPing(q)
  <2>1. i + 1 \in DOMAIN q /\ q[i + 1] = Tail(q)[i]
    BY <1>1, <1>2, <1>3
  <2>2. QED
    BY <1>5, <2>1 DEF HasPing
<1>6. 1 \in DOMAIN q
  BY <1>1
<1>7. QED
  BY <1>2, <1>4, <1>5, <1>6 DEF HasPing

LEMMA NoPing == ~HasPing(<<>>)
BY DEF HasPing

LEMMA InitLive == ASSUME Patient, Init PROVE LiveInv
<1>1. /\ peer = "up" /\ owes = NotOwed /\ reader.pc = "read" /\ writer.pc = "select"
      /\ silence = 0 /\ idle = 0 /\ ~pinged /\ ~ticked /\ wire = <<>> /\ prio = <<>>
  BY DEF Init, Reading, Selecting
<1>2. ~HasPing(prio) /\ ~HasPing(wire)
  BY <1>1, NoPing
<1>3. Clocks
  BY <1>1, Numbers DEF Clocks
<1>4. Asked
  BY <1>1, <1>2, Numbers DEF Asked, PingLeaves
<1>5. QED
  BY <1>1, <1>2, <1>3, <1>4 DEF LiveInv

\* A writer that is gone has nothing to answer for.
LEMMA GoneLive ==
    ASSUME TypeOK, writer'.pc = "gone", ~HasPing(prio')
    PROVE  LiveInv'
BY DEF LiveInv, Serving

LEMMA EndSessionLive == ASSUME TypeOK, EndSession PROVE LiveInv'
<1>1. writer'.pc = "gone" /\ prio' = <<>>
  BY DEF EndSession, Gone
<1>2. QED
  BY <1>1, NoPing, GoneLive

LEMMA PeerLive ==
    ASSUME Patient, TypeOK, LiveInv, Peer
    PROVE  LiveInv'
<1>1. UNCHANGED <<reader, writer, prio, silence, idle, pinged, ticked>>
  BY DEF Peer, PeerPings, PeerCommands, PeerAnswers, PeerHangs, PeerWakes, PeerCloses, lanes, clock, client
<1>2. (hungOnce => hungOnce') /\ (Serving' => Serving)
  BY <1>1 DEF Peer, PeerPings, PeerCommands, PeerAnswers, PeerHangs, PeerWakes, PeerCloses, client, Serving
<1>3. ASSUME Serving' PROVE Asked'
  <2>1. Asked /\ ~hungOnce'
    BY <1>2, <1>3 DEF LiveInv, Serving
  <2>2. ASSUME NEW m \in Msg, PeerWrites(m) PROVE inbox' # <<>>
    <3>1. inbox \in Seq(Msg) /\ inbox' = Append(inbox, m)
      BY <2>2 DEF PeerWrites, TypeOK
    <3>2. Len(inbox) \in Nat /\ Len(inbox') = Len(inbox) + 1
      BY <3>1, AppendProperties, LenProperties
    <3>3. QED
      BY <3>2, EmptySeq
  <2>3. CASE PeerPings \/ PeerCommands
    <3>1. UNCHANGED <<peer, wire, owes>>
      BY <2>3 DEF PeerPings, PeerCommands, client
    <3>2. \E m \in Msg : PeerWrites(m)
      <4>1. CASE PeerPings
        <5>1. asked + 1 \in 0 .. MaxPings /\ [kind |-> "PING", n |-> asked + 1] \in Msg
          BY <4>1, Numbers DEF PeerPings, TypeOK, Msg
        <5>2. QED
          BY <4>1, <5>1 DEF PeerPings
      <4>2. CASE PeerCommands
        BY <4>2, Lines DEF PeerCommands
      <4>3. QED
        BY <2>3, <4>1, <4>2
    <3>3. QED
      BY <1>1, <2>1, <2>2, <3>1, <3>2 DEF Asked, PingLeaves
  <2>4. CASE PeerAnswers
    <3>1. UNCHANGED <<peer, wire>> /\ owes' = NotOwed /\ inbox' # <<>>
      BY <2>2, <2>4, Lines DEF PeerAnswers
    <3>2. QED
      BY <1>1, <2>1, <3>1 DEF Asked, PingLeaves
  <2>5. CASE PeerCloses
    <3>1. peer' = "closed" /\ owes' = NotOwed
      BY <2>5 DEF PeerCloses
    <3>2. QED
      BY <1>1, <2>1, <3>1 DEF Asked, PingLeaves
  <2>6. QED
    BY <2>1, <2>3, <2>4, <2>5 DEF Peer, PeerHangs, PeerWakes, Asked
<1>4. QED
  BY <1>1, <1>2, <1>3 DEF LiveInv, Clocks, HasPing

LEMMA PeerReadsLive ==
    ASSUME Patient, TypeOK, LiveInv, PeerReads
    PROVE  LiveInv'
<1>1. UNCHANGED <<peer, hungOnce, inbox, reader, writer, prio, silence, idle, pinged, ticked>>
  BY DEF PeerReads, lanes, clock
<1>2. wire \in Seq(Msg) /\ wire # <<>> /\ wire' = Tail(wire) /\ peer = "up"
  BY DEF PeerReads, TypeOK
<1>3. HasPing(wire) <=> Head(wire).kind = "PING" \/ HasPing(wire')
  BY <1>2, PingTaken
<1>4. owes' = IF Head(wire).kind = "PING" /\ owes = NotOwed THEN 0 ELSE owes
  BY DEF PeerReads
<1>5. ASSUME Asked PROVE Asked'
  <2>1. owes' # NotOwed => peer' = "up" /\ silence' <= PingAfter + owes'
    BY <1>1, <1>2, <1>3, <1>4, <1>5, Ages, Numbers DEF Asked
  <2>2. owes # NotOwed \/ Head(wire).kind = "PING" => owes' # NotOwed
    BY <1>4 DEF NotOwed
  <2>3. QED
    BY <1>1, <1>2, <1>3, <1>5, <2>1, <2>2 DEF Asked, PingLeaves
<1>6. QED
  BY <1>1, <1>5 DEF LiveInv, Clocks, Serving, HasPing

LEMMA ReadLineLive ==
    ASSUME Patient, TypeOK, LiveInv, ReadLine
    PROVE  LiveInv'
<1>1. /\ UNCHANGED <<peer, hungOnce, owes, wire, writer, prio, idle, pinged, ticked>>
      /\ silence' = 0
  BY DEF ReadLine, client, lanes
<1>2. reader'.pc = "busy" => reader'.n = 0
  <2>1. \/ reader' = [pc |-> "pong", n |-> Head(inbox).n]
        \/ \E pc \in {"reply", "busy", "quit", "read"} : reader' = [pc |-> pc, n |-> 0]
    BY DEF ReadLine, Reading
  <2>2. QED
    BY <2>1
<1>3. ASSUME Clocks PROVE Clocks'
  BY <1>1, <1>3, Ages, Numbers DEF Clocks, Patient
<1>4. ASSUME Clocks, Asked PROVE Asked'
  <2>1. pinged' => silence' # idle'
    BY <1>1, <1>4 DEF Clocks
  <2>2. owes' # NotOwed => silence' <= PingAfter + owes'
    BY <1>1, Ages, Numbers
  <2>3. 0 <= PingAfter /\ 0 <= PingAfter + AnswerWithin /\ 0 <= BusyFor
    BY Ages, Numbers
  <2>4. QED
    BY <1>1, <1>2, <1>4, <2>1, <2>2, <2>3 DEF Asked
<1>5. QED
  BY <1>1, <1>3, <1>4 DEF LiveInv, Serving, HasPing

LEMMA ReadLoopLive ==
    ASSUME Patient, TypeOK, LiveInv, ReadLoop
    PROVE  LiveInv'
<1>1. CASE ReadEof \/ ReplyFails \/ ReaderLeaves
  BY <1>1, EndSessionLive DEF ReadEof, ReplyFails, ReaderLeaves
<1>2. CASE ReaderPongs \/ ReaderReplies \/ BusyDone \/ ReaderQuits
  <2>1. /\ UNCHANGED <<peer, hungOnce, owes, inbox, wire, writer, silence, idle, pinged, ticked>>
        /\ reader'.pc \in {"read", "leave"}
    BY <1>2 DEF ReaderPongs, ReaderReplies, BusyDone, ReaderQuits, client, socket, clock, lanes, Reading
  <2>2. ~HasPing(prio')
    <3>1. CASE UNCHANGED prio
      BY <3>1 DEF LiveInv, HasPing
    <3>2. CASE prio' # prio
      <4>1. PICK m \in Msg : prio' = Append(prio, m) /\ m.kind # "PING"
        <5>1. [kind |-> "PONG", n |-> reader.n] \in Msg \/ reader.pc # "pong"
          BY Numbers DEF TypeOK, Msg
        <5>2. M("ERROR") \in Msg /\ M("ERROR").kind # "PING"
          BY Lines DEF M
        <5>3. QED
          BY <1>2, <3>2, <5>1, <5>2 DEF ReaderPongs, ReaderReplies, BusyDone, ReaderQuits, lanes
      <4>2. QED
        BY <4>1, PingAppended DEF LiveInv, TypeOK
    <3>3. QED
      BY <3>1, <3>2
  <2>3. QED
    BY <2>1, <2>2 DEF LiveInv, Serving, Clocks, Asked, PingLeaves
<1>3. QED
  BY <1>1, <1>2, ReadLineLive DEF ReadLoop

\* The keepalive: a client whose `last_seen` is fresh enough is asked, or has
\* been asked already, and is never timed out.
LEMMA KeepaliveLive ==
    ASSUME Patient, TypeOK, LiveInv, Keepalive
    PROVE  LiveInv'
<1> DEFINE asking == pinged /\ silence = idle
<1>1. /\ UNCHANGED <<peer, hungOnce, owes, inbox, wire, reader, prio, silence>>
      /\ ticked' = TRUE /\ idle' = silence /\ writer.pc = "select" /\ ~ticked
      /\ pinged' = (asking \/ silence \in PingAfter .. (Timeout - 1))
  BY DEF Keepalive, client, socket, lanes
<1>2. writer' = IF silence >= Timeout THEN [pc |-> "last", out |-> M("ERROR")]
                ELSE IF silence >= PingAfter /\ ~asking THEN [pc |-> "send", out |-> M("PING")]
                ELSE Selecting
  BY DEF Keepalive
<1>3. hungOnce => LiveInv'
  BY <1>1 DEF LiveInv, Serving, HasPing
<1>4. ASSUME ~hungOnce PROVE LiveInv'
  <2>1. Clocks /\ Asked
    BY <1>1, <1>4 DEF LiveInv, Serving
  <2>2. silence < Timeout /\ silence \in Int /\ PingAfter \in Int /\ Timeout \in Int
    BY <2>1, Ages, Numbers DEF Asked, Patient
  <2>3. PingLeaves' <=> silence >= PingAfter /\ ~asking
    BY <1>2, <2>2 DEF PingLeaves, Selecting, M
  <2>4. writer'.pc # "last"
    BY <1>2, <2>2 DEF Selecting
  <2>5. pinged' <=> asking \/ PingAfter <= silence
    <3>1. silence \in PingAfter .. (Timeout - 1) <=> PingAfter <= silence
      BY <2>2
    <3>2. QED
      BY <1>1, <3>1
  <2>6. PingLeaves' => silence <= PingAfter
    BY <1>1, <2>1, <2>2, <2>3, Ages DEF Clocks, Patient
  <2>7. Clocks'
    BY <1>1, <2>1, <2>2, <2>5, Ages DEF Clocks, Patient
  <2>8. ~PingLeaves
    BY <1>1 DEF PingLeaves
  <2>9. Asked'
    BY <1>1, <2>1, <2>3, <2>5, <2>6, <2>8 DEF Asked
  <2>10. QED
    BY <1>1, <2>4, <2>7, <2>9 DEF LiveInv, HasPing
<1>5. QED
  BY <1>3, <1>4

LEMMA WriterSendsLive ==
    ASSUME Patient, TypeOK, LiveInv, WriterSends
    PROVE  LiveInv'
<1>1. /\ UNCHANGED <<peer, hungOnce, owes, inbox, reader, prio, silence, idle, pinged, ticked>>
      /\ wire' = Append(wire, writer.out)
      /\ writer' = IF writer.pc = "last" THEN Gone ELSE Selecting
      /\ writer.pc \in {"send", "last"}
  BY DEF WriterSends, client, lanes, clock
<1>2. HasPing(wire') <=> HasPing(wire) \/ writer.out.kind = "PING"
  BY <1>1, PingAppended DEF TypeOK
<1>3. CASE writer.pc = "last"
  BY <1>1, <1>3, GoneLive DEF Gone, LiveInv, HasPing
<1>4. CASE writer.pc = "send"
  <2>1. writer'.pc = "select"
    BY <1>1, <1>4 DEF Selecting
  <2>2. ASSUME Asked PROVE Asked'
    <3>1. peer \in {"up", "closed"} /\ peer # "closed"
      BY <2>2 DEF Asked, TypeOK, WriterSends
    <3>2. ~PingLeaves' /\ (PingLeaves <=> writer.out.kind = "PING")
      BY <1>4, <2>1 DEF PingLeaves
    <3>3. QED
      BY <1>1, <1>2, <2>2, <3>1, <3>2 DEF Asked
  <2>3. QED
    BY <1>1, <1>4, <2>1, <2>2 DEF LiveInv, Serving, Clocks, HasPing
<1>5. QED
  BY <1>1, <1>3, <1>4

LEMMA WriterLive ==
    ASSUME Patient, TypeOK, LiveInv, Writer
    PROVE  LiveInv'
<1>1. CASE TakePrio
  <2>1. /\ UNCHANGED <<peer, hungOnce, owes, inbox, wire, reader, silence, idle, pinged, ticked>>
        /\ writer.pc = "select" /\ prio # <<>> /\ prio' = Tail(prio)
        /\ writer' = [pc |-> "send", out |-> Head(prio)]
    BY <1>1 DEF TakePrio, client, socket, clock
  <2>2. Head(prio).kind # "PING" /\ ~HasPing(prio')
    BY <2>1, PingTaken DEF LiveInv, TypeOK
  <2>3. ~PingLeaves /\ ~PingLeaves' /\ writer'.pc = "send"
    BY <2>1, <2>2 DEF PingLeaves
  <2>4. QED
    BY <2>1, <2>2, <2>3 DEF LiveInv, Serving, Clocks, Asked
<1>2. CASE TakeLine
  <2>1. /\ UNCHANGED <<peer, hungOnce, owes, inbox, wire, reader, prio, silence, idle, pinged, ticked>>
        /\ writer.pc = "select" /\ writer' = [pc |-> "send", out |-> M("LINE")]
    BY <1>2 DEF TakeLine, client, socket, clock
  <2>2. ~PingLeaves /\ ~PingLeaves' /\ writer'.pc = "send"
    BY <2>1 DEF PingLeaves, M
  <2>3. QED
    BY <2>1, <2>2 DEF LiveInv, Serving, Clocks, Asked, HasPing
<1>3. CASE WriterFails
  <2>1. writer'.pc = "gone" /\ prio' = prio
    BY <1>3 DEF WriterFails, Gone, lanes
  <2>2. QED
    BY <2>1, GoneLive DEF LiveInv, HasPing
<1>4. QED
  BY <1>1, <1>2, <1>3, KeepaliveLive, WriterSendsLive DEF Writer

\* Time passes, with a client that has not been hung, only when the writer
\* has nothing to take and has seen to the keepalive, and the read loop waits
\* for a line of the client or for a join.
LEMMA QuietTime ==
    ASSUME TypeOK, TimePasses, Serving, peer # "hung"
    PROVE  /\ writer.pc = "select" /\ ticked
           /\ peer = "up" => wire = <<>> /\ owes < AnswerWithin
           /\ \/ reader.pc = "read" /\ inbox = <<>> /\ peer = "up"
              \/ reader.pc = "busy" /\ reader.n < BusyFor
<1>1. /\ peer = "up" => wire = <<>> /\ owes < AnswerWithin
      /\ peer \in {"up", "closed"}
  BY DEF TimePasses, Waiting, TypeOK
<1>2. Len(wire) = SocketCap => wire # <<>>
  BY Numbers
<1>3. Len(prio) = PrioCap => prio # <<>>
  BY Numbers
<1>4. CASE writer.pc = "send"
  <2>1. peer # "closed" /\ Len(wire) = SocketCap
    BY <1>4 DEF TimePasses, Waiting
  <2>2. QED
    BY <1>1, <1>2, <2>1
<1>5. CASE writer.pc = "select"
  <2>1. prio = <<>> /\ ticked /\ queue = 0
    BY <1>5 DEF TimePasses, Waiting
  <2>2. queue # QueueCap
    BY <2>1, Numbers
  <2>3. CASE reader.pc = "read"
    BY <1>1, <1>5, <2>1, <2>3 DEF TimePasses, Waiting
  <2>4. CASE reader.pc = "busy"
    BY <1>1, <1>5, <2>1, <2>4 DEF TimePasses, Waiting
  <2>5. reader.pc \in {"read", "busy"}
    BY <1>3, <1>5, <2>1, <2>2 DEF TimePasses, Waiting, TypeOK
  <2>6. QED
    BY <2>3, <2>4, <2>5
<1>6. QED
  BY <1>4, <1>5 DEF Serving

LEMMA TimeLive ==
    ASSUME Patient, TypeOK, LiveInv, TimePasses
    PROVE  LiveInv'
<1>1. /\ UNCHANGED <<peer, hungOnce, inbox, wire, writer, prio, pinged>> /\ ticked' = FALSE
      /\ silence' = Older(silence) /\ idle' = Older(idle)
      /\ owes' = IF owes # NotOwed /\ peer = "up" THEN owes + 1 ELSE owes
  BY DEF TimePasses, socket, lanes
<1>2. CASE ~Serving
  BY <1>1, <1>2 DEF LiveInv, Serving, HasPing
<1>3. CASE Serving
  <2>1. Clocks /\ Asked /\ peer # "hung"
    BY <1>3 DEF LiveInv, Asked
  <2>2. /\ writer.pc = "select" /\ ticked
        /\ peer = "up" => wire = <<>> /\ owes < AnswerWithin
        /\ \/ reader.pc = "read" /\ inbox = <<>> /\ peer = "up"
           \/ reader.pc = "busy" /\ reader.n < BusyFor
    BY <1>3, <2>1, QuietTime
  <2>3. /\ silence \in 0 .. Timeout /\ idle \in 0 .. Timeout /\ owes \in Int /\ reader.n \in Nat
        /\ PingAfter \in Nat /\ AnswerWithin \in Nat /\ BusyFor \in Nat /\ Timeout \in Nat
        /\ owes = NotOwed \/ 0 <= owes
    BY Ages, Numbers
  <2>4. silence < Timeout
    BY <2>1, <2>3 DEF Asked, Patient
  <2>5. /\ silence' = silence + 1
        /\ idle' = IF idle < Timeout THEN idle + 1 ELSE idle
    BY <1>1, <2>4 DEF Older
  <2>6. silence < idle => silence = 0
    BY <2>1, <2>2 DEF Clocks
  <2>7. silence < idle => silence' < idle'
    BY <2>3, <2>4, <2>5, <2>6 DEF Patient
  <2>8. silence = idle => silence' = idle'
    BY <2>3, <2>4, <2>5
  <2>9. silence <= idle /\ (pinged => 0 < idle)
    BY <2>1 DEF Clocks
  <2>10. silence = idle /\ PingAfter <= silence => pinged
    BY <2>1, <2>2 DEF Clocks
  <2>11. Clocks'
    <3>1. silence' <= idle' /\ 0 < idle'
      BY <2>3, <2>5, <2>7, <2>8, <2>9
    <3>2. silence' < idle' => silence' = 1
      BY <2>3, <2>5, <2>6, <2>8, <2>9
    <3>3. silence' = idle' /\ PingAfter < silence' => pinged
      BY <2>3, <2>5, <2>7, <2>9, <2>10
    <3>4. QED
      BY <1>1, <3>1, <3>2, <3>3 DEF Clocks
  <2>12. ~PingLeaves' /\ ~PingLeaves
    BY <1>1, <2>2 DEF PingLeaves
  <2>13. peer = "up" => ~HasPing(wire) /\ ~HasPing(wire')
    BY <1>1, <2>2, NoPing
  <2>14. owes' # NotOwed => owes # NotOwed /\ peer' = "up" /\ silence' <= PingAfter + owes'
    BY <1>1, <2>1, <2>3, <2>5 DEF Asked, NotOwed
  <2>15. owes # NotOwed => owes' # NotOwed
    BY <1>1, <2>3 DEF NotOwed
  <2>16. peer' = "up" /\ pinged' /\ silence' = idle' => owes' # NotOwed \/ inbox' # <<>>
    <3>1. silence' = idle' => silence = idle
      BY <2>3, <2>5, <2>7, <2>9
    <3>2. QED
      BY <1>1, <2>1, <2>12, <2>13, <2>15, <3>1 DEF Asked
  <2>17. reader.pc = "busy" => /\ reader'.pc = "busy" /\ reader'.n = reader.n + 1
                               /\ silence <= reader.n
    BY <2>1 DEF TimePasses, TypeOK, Asked
  <2>18. reader.pc # "busy" => reader' = reader
    BY DEF TimePasses
  <2>19. reader'.pc = "busy" => silence' <= reader'.n /\ reader'.n <= BusyFor
    BY <2>2, <2>3, <2>5, <2>17, <2>18
  <2>20. silence' <= PingAfter + AnswerWithin \/ silence' <= BusyFor
    <3>1. CASE reader.pc = "busy"
      BY <2>3, <2>5, <2>17, <2>19, <3>1
    <3>2. CASE reader.pc # "busy" /\ owes # NotOwed
      <4>1. owes < AnswerWithin /\ silence <= PingAfter + owes
        BY <2>1, <2>2, <3>2 DEF Asked
      <4>2. QED
        BY <2>3, <2>5, <4>1
    <3>3. CASE reader.pc # "busy" /\ owes = NotOwed
      <4>1. peer = "up" /\ inbox = <<>>
        BY <2>2, <3>3
      <4>2. ~(pinged /\ silence = idle)
        BY <2>1, <2>12, <2>13, <3>3, <4>1 DEF Asked
      <4>3. silence < PingAfter \/ silence = 0
        BY <2>3, <2>6, <2>9, <2>10, <4>2
      <4>4. QED
        BY <2>3, <2>5, <4>3 DEF Patient
    <3>4. QED
      BY <3>1, <3>2, <3>3
  <2>21. Asked'
    BY <1>1, <2>1, <2>12, <2>13, <2>14, <2>16, <2>19, <2>20 DEF Asked
  <2>22. QED
    BY <1>1, <2>2, <2>11, <2>21 DEF LiveInv, HasPing
<1>4. QED
  BY <1>2, <1>3

LEMMA StepLive == ASSUME Patient PROVE TypeOK /\ LiveInv /\ [Next]_vars => LiveInv'
<1> SUFFICES ASSUME TypeOK, LiveInv, [Next]_vars PROVE LiveInv'
  OBVIOUS
<1>1. CASE UNCHANGED vars
  BY <1>1 DEF vars, client, socket, lanes, clock, LiveInv, Serving, Clocks, Asked, PingLeaves, HasPing
<1>2. CASE OtherLine
  BY <1>2 DEF OtherLine, client, socket, clock, LiveInv, Serving, Clocks, Asked, PingLeaves, HasPing
<1>3. QED
  BY <1>1, <1>2, PeerLive, PeerReadsLive, ReadLoopLive, WriterLive, TimeLive DEF Next

\* A client that is never hung, reads its socket and answers a PING in time
\* is not timed out, however long the queues, whatever the other tasks send
\* and although the read loop may be busy with a join before it sees the
\* answer, when the ping timeout is longer than a PING with its answer and
\* than a join (server.rs 305-319).
THEOREM LiveClientsKept == ASSUME Patient PROVE Spec => []LiveClientKept
<1>1. Init => TypeOK /\ LiveInv
  BY InitTyped, InitLive
<1>2. TypeOK /\ LiveInv /\ [Next]_vars => (TypeOK /\ LiveInv)'
  BY StepTyped, StepLive
<1>3. TypeOK /\ LiveInv => LiveClientKept
  BY DEF LiveInv, LiveClientKept
<1>4. QED
  BY <1>1, <1>2, <1>3, PTL DEF Spec
=============================================================================
