---------------------------- MODULE OutgoingProofs ----------------------------
(***************************************************************************)
(* Proofs about Outgoing, for any number of lines, messages, batches and   *)
(* events: the state is well typed and `sent` stays bounded, a line is     *)
(* sent once, and what was echoed is not relayed again.                    *)
(***************************************************************************)
EXTENDS Outgoing, SequenceTheorems, FiniteSetTheorems, TLAPS

\* A task knows its event between the answer and the echo.
Known == \A i \in DOMAIN tasks :
    /\ tasks[i].event \in DOMAIN timeline \cup {NoEvent}
    /\ tasks[i].pc \in {"note", "echo"} => tasks[i].event \in DOMAIN timeline

Shape ==
    /\ TypeOK
    /\ IsFiniteSet(sent)
    /\ Known

\* What a step does to the tasks and to the timeline.
LEMMA StepShape ==
    ASSUME Shape, NEW i \in DOMAIN tasks, NEW to \in {"sending", "note", "echo", "done"},
           NEW e \in Nat, tasks' = [tasks EXCEPT ![i] = [tasks[i] EXCEPT !.pc = to, !.event = e]]
    PROVE  /\ tasks' \in Seq(Task) /\ Len(tasks') = Len(tasks) /\ DOMAIN tasks' = DOMAIN tasks
           /\ tasks'[i].body = tasks[i].body /\ tasks'[i].pc = to /\ tasks'[i].event = e
           /\ \A j \in DOMAIN tasks : j # i => tasks'[j] = tasks[j]
<1> DEFINE new == [tasks[i] EXCEPT !.pc = to, !.event = e]
<1>1. tasks \in Seq(Task) /\ tasks[i] \in Task
  BY DEF Shape, TypeOK
<1>2. tasks' = [tasks EXCEPT ![i] = new]
  OBVIOUS
<1>3. new \in Task /\ new.body = tasks[i].body /\ new.pc = to /\ new.event = e
  BY <1>1 DEF Task
<1> HIDE DEF new
<1>4. /\ tasks' \in Seq(Task) /\ Len(tasks') = Len(tasks) /\ DOMAIN tasks' = DOMAIN tasks
      /\ tasks'[i] = new
      /\ \A j \in DOMAIN tasks : j # i => tasks'[j] = tasks[j]
  BY <1>1, <1>2, <1>3
<1>5. QED
  BY <1>1, <1>2, <1>3, <1>4

LEMMA SpawnShape ==
    ASSUME Shape, NEW body \in Seq(Lines), Spawn(body)
    PROVE  /\ Len(tasks) < MaxMessages
           /\ tasks' \in Seq(Task) /\ Len(tasks') = Len(tasks) + 1
           /\ DOMAIN tasks = 1 .. Len(tasks) /\ DOMAIN tasks' = 1 .. (Len(tasks) + 1)
           /\ tasks'[Len(tasks) + 1] = [body |-> body, pc |-> "sending", event |-> NoEvent]
           /\ \A j \in DOMAIN tasks : tasks'[j] = tasks[j]
<1> DEFINE new == [body |-> body, pc |-> "sending", event |-> NoEvent]
<1>1. new \in Task
  BY DEF Task, NoEvent
<1>2. tasks \in Seq(Task) /\ tasks' = Append(tasks, new) /\ Len(tasks) < MaxMessages
  BY DEF Shape, TypeOK, Spawn
<1> HIDE DEF new
<1>3. /\ tasks' \in Seq(Task) /\ Len(tasks') = Len(tasks) + 1
      /\ tasks'[Len(tasks) + 1] = new
      /\ \A j \in 1 .. Len(tasks) : tasks'[j] = tasks[j]
  BY <1>1, <1>2, AppendProperties
<1>4. DOMAIN tasks = 1 .. Len(tasks) /\ DOMAIN tasks' = 1 .. (Len(tasks) + 1)
  BY <1>2, <1>3
<1>5. QED
  BY <1>2, <1>3, <1>4 DEF new

LEMMA PostShape ==
    ASSUME Shape, NEW new \in Event, timeline' = Append(timeline, new)
    PROVE  /\ timeline' \in Seq(Event) /\ Len(timeline) \in Nat
           /\ DOMAIN timeline = 1 .. Len(timeline) /\ DOMAIN timeline' = 1 .. (Len(timeline) + 1)
           /\ cursor \in 0 .. Len(timeline')
           /\ timeline'[Len(timeline) + 1] = new
           /\ \A e \in DOMAIN timeline : timeline'[e] = timeline[e]
<1>1. timeline \in Seq(Event) /\ cursor \in 0 .. Len(timeline)
  BY DEF Shape, TypeOK
<1>2. /\ timeline' \in Seq(Event) /\ Len(timeline') = Len(timeline) + 1
      /\ \A e \in 1 .. Len(timeline) : timeline'[e] = timeline[e]
      /\ timeline'[Len(timeline) + 1] = new
  BY <1>1, AppendProperties
<1>3. Len(timeline) \in Nat /\ DOMAIN timeline = 1 .. Len(timeline)
      /\ DOMAIN timeline' = 1 .. Len(timeline')
  BY <1>1, <1>2, LenProperties
<1>4. QED
  BY <1>1, <1>2, <1>3

-----------------------------------------------------------------------------
\* The types.

LEMMA InitShape == Init => Shape
<1> SUFFICES ASSUME Init PROVE Shape
  OBVIOUS
<1>1. IsFiniteSet(sent) /\ Cardinality(sent) = 0
  BY FS_EmptySet DEF Init
<1>2. tasks \in Seq(Task) /\ timeline \in Seq(Event) /\ tasks = <<>> /\ timeline = <<>>
  BY DEF Init
<1>3. TypeOK
  BY <1>1, <1>2, OutgoingAssumption DEF Init, TypeOK
<1>4. QED
  BY <1>1, <1>2, <1>3 DEF Shape, Known

\* A message nobody has sent yet knows no event.
LEMMA SpawnKnown ==
    ASSUME Shape, NEW body \in Seq(Lines), Spawn(body), UNCHANGED timeline
    PROVE  tasks' \in Seq(Task) /\ Known'
<1>1. ASSUME NEW i \in DOMAIN tasks', i \notin DOMAIN tasks
      PROVE  tasks'[i].pc = "sending" /\ tasks'[i].event = NoEvent
  <2>1. Len(tasks) \in Nat /\ i \in 1 .. (Len(tasks) + 1) /\ i \notin 1 .. Len(tasks)
    BY <1>1, SpawnShape, LenProperties DEF Shape, TypeOK
  <2>2. i = Len(tasks) + 1
    BY <2>1
  <2>3. tasks'[Len(tasks) + 1] = [body |-> body, pc |-> "sending", event |-> NoEvent]
    BY SpawnShape
  <2>4. QED
    BY <2>2, <2>3
<1>2. QED
  BY <1>1, SpawnShape DEF Shape, Known

LEMMA ReadLoopShape ==
    ASSUME Shape, ReadLoop
    PROVE  Shape'
<1>1. UNCHANGED <<timeline, cursor, relayed, sent, echoed>>
  BY DEF ReadLoop, Privmsg, BatchLine, OpenBatch, CloseBatch, Part, Rejoin, sync
<1>2. tasks' \in Seq(Task) /\ Known'
  <2>1. CASE UNCHANGED tasks
    BY <1>1, <2>1 DEF Shape, TypeOK, Known
  <2>2. ASSUME NEW n \in Lines, Relay(<<n>>) PROVE tasks' \in Seq(Task) /\ Known'
    <3>1. <<n>> \in Seq(Lines)
      OBVIOUS
    <3>2. QED
      BY <1>1, <2>1, <2>2, <3>1, SpawnKnown DEF Relay
  <2>3. ASSUME NEW r \in Refs, CloseBatch(r) PROVE tasks' \in Seq(Task) /\ Known'
    BY <1>1, <2>3, SpawnKnown DEF CloseBatch, Shape, TypeOK
  <2>4. QED
    BY <2>1, <2>2, <2>3 DEF ReadLoop, Privmsg, BatchLine, OpenBatch, Part, Rejoin
<1>3. joined' \in BOOLEAN /\ written' \in 0 .. MaxLines /\ parts' \in 0 .. MaxParts
  <2>1. ASSUME NEW n \in Lines, Write(n) PROVE written' \in 0 .. MaxLines
    BY <2>1, OutgoingAssumption DEF Write, Lines
  <2>2. Part => parts' \in 0 .. MaxParts
    BY OutgoingAssumption DEF Part, Shape, TypeOK
  <2>3. QED
    BY <2>1, <2>2 DEF Shape, TypeOK, ReadLoop, Privmsg, BatchLine, OpenBatch, CloseBatch, Part, Rejoin
<1>4. DOMAIN batches' \subseteq Refs /\ \A r \in DOMAIN batches' : batches'[r] \in Seq(Lines)
  <2>1. CASE UNCHANGED batches
    BY <2>1 DEF Shape, TypeOK
  <2>2. ASSUME NEW n \in Lines, NEW r \in Refs, BatchLine(n, r), batches' # batches
        PROVE  DOMAIN batches' \subseteq Refs /\ \A s \in DOMAIN batches' : batches'[s] \in Seq(Lines)
    <3>1. r \in DOMAIN batches /\ batches' = [batches EXCEPT ![r] = Append(batches[r], n)]
      BY <2>2 DEF BatchLine
    <3>2. Append(batches[r], n) \in Seq(Lines)
      BY <3>1, AppendProperties DEF Shape, TypeOK
    <3>3. QED
      BY <3>1, <3>2 DEF Shape, TypeOK
  <2>3. ASSUME NEW r \in Refs, OpenBatch(r) \/ CloseBatch(r)
        PROVE  DOMAIN batches' \subseteq Refs /\ \A s \in DOMAIN batches' : batches'[s] \in Seq(Lines)
    <3>1. CASE OpenBatch(r)
      <4>1. /\ DOMAIN batches' = DOMAIN batches \cup {r}
            /\ \A s \in DOMAIN batches' : batches'[s] = IF s = r THEN <<>> ELSE batches[s]
        BY <3>1 DEF OpenBatch
      <4>2. <<>> \in Seq(Lines)
        OBVIOUS
      <4>3. QED
        BY <4>1, <4>2 DEF Shape, TypeOK
    <3>2. CASE CloseBatch(r)
      BY <3>2 DEF CloseBatch, Shape, TypeOK
    <3>3. QED
      BY <2>3, <3>1, <3>2
  <2>4. QED
    BY <2>1, <2>2, <2>3 DEF ReadLoop, Privmsg, Part, Rejoin
<1>5. QED
  BY <1>1, <1>2, <1>3, <1>4 DEF Shape, TypeOK

\* The timeline grows.
LEMMA PostKnown ==
    ASSUME Shape, NEW own \in BOOLEAN, NEW here \in BOOLEAN,
           timeline' = Append(timeline, [own |-> own, here |-> here])
    PROVE  /\ timeline' \in Seq(Event) /\ cursor \in 0 .. Len(timeline')
           /\ DOMAIN timeline \subseteq DOMAIN timeline' /\ Len(timeline) + 1 \in DOMAIN timeline'
<1> DEFINE new == [own |-> own, here |-> here]
<1>1. new \in Event
  BY DEF Event
<1> HIDE DEF new
<1>2. timeline' = Append(timeline, new)
  BY DEF new
<1>3. /\ timeline' \in Seq(Event) /\ Len(timeline) \in Nat /\ cursor \in 0 .. Len(timeline')
      /\ DOMAIN timeline = 1 .. Len(timeline) /\ DOMAIN timeline' = 1 .. (Len(timeline) + 1)
  BY <1>1, <1>2, PostShape
<1>4. QED
  BY <1>3

LEMMA SendTaskShape ==
    ASSUME Shape, NEW i \in 1 .. MaxMessages, SendTask(i)
    PROVE  Shape'
<1>1. CASE Accepted(i)
  <2>1. Len(timeline) \in Nat
    BY DEF Shape, TypeOK
  <2>2. /\ tasks' \in Seq(Task) /\ DOMAIN tasks' = DOMAIN tasks
        /\ tasks'[i].event = Len(timeline) + 1
        /\ \A j \in DOMAIN tasks : j # i => tasks'[j] = tasks[j]
        /\ UNCHANGED reader
    <3>1. PICK e \in Nat : e = Len(timeline) + 1
      BY <2>1
    <3>2. /\ i \in DOMAIN tasks /\ UNCHANGED reader
          /\ tasks' = [tasks EXCEPT ![i] = [tasks[i] EXCEPT !.pc = "note", !.event = e]]
      BY <1>1, <3>1 DEF Accepted, Step
    <3>3. QED
      BY <3>1, <3>2, StepShape
  <2>3. /\ timeline' \in Seq(Event) /\ cursor \in 0 .. Len(timeline')
        /\ DOMAIN timeline \subseteq DOMAIN timeline' /\ Len(timeline) + 1 \in DOMAIN timeline'
    <3>1. timeline' = Append(timeline, [own |-> TRUE, here |-> TRUE])
      BY <1>1 DEF Accepted, Post
    <3>2. QED
      BY <3>1, PostKnown
  <2>4. Known'
    BY <2>2, <2>3 DEF Shape, Known
  <2>5. QED
    BY <1>1, <2>2, <2>3, <2>4 DEF Accepted, Shape, TypeOK, reader, sync
<1>2. CASE Refused(i)
  <2>1. /\ tasks' \in Seq(Task) /\ DOMAIN tasks' = DOMAIN tasks
        /\ tasks'[i].event = NoEvent /\ tasks'[i].pc = "done"
        /\ \A j \in DOMAIN tasks : j # i => tasks'[j] = tasks[j]
        /\ UNCHANGED reader
    <3>1. /\ i \in DOMAIN tasks /\ UNCHANGED reader
          /\ tasks' = [tasks EXCEPT ![i] = [tasks[i] EXCEPT !.pc = "done", !.event = 0]]
      BY <1>2 DEF Refused, Step, NoEvent
    <3>2. QED
      BY <3>1, StepShape DEF NoEvent
  <2>2. Known'
    BY <1>2, <2>1 DEF Refused, Shape, Known
  <2>3. QED
    BY <1>2, <2>1, <2>2 DEF Refused, Shape, TypeOK, reader, sync
<1>3. CASE Unanswered(i)
  <2>1. /\ tasks' \in Seq(Task) /\ DOMAIN tasks' = DOMAIN tasks
        /\ tasks'[i].event = NoEvent /\ tasks'[i].pc = "done"
        /\ \A j \in DOMAIN tasks : j # i => tasks'[j] = tasks[j]
        /\ UNCHANGED reader
    <3>1. /\ i \in DOMAIN tasks /\ UNCHANGED reader
          /\ tasks' = [tasks EXCEPT ![i] = [tasks[i] EXCEPT !.pc = "done", !.event = 0]]
      BY <1>3 DEF Unanswered, Step, NoEvent
    <3>2. QED
      BY <3>1, StepShape DEF NoEvent
  <2>2. /\ timeline' \in Seq(Event) /\ cursor \in 0 .. Len(timeline')
        /\ DOMAIN timeline \subseteq DOMAIN timeline'
    BY <1>3, PostKnown DEF Unanswered, Post
  <2>3. Known'
    BY <2>1, <2>2 DEF Shape, Known
  <2>4. QED
    BY <1>3, <2>1, <2>2, <2>3 DEF Unanswered, Shape, TypeOK, reader, sync
<1>4. CASE NoteSent(i) \/ Echo(i)
  <2>1. tasks[i].event \in DOMAIN timeline /\ tasks[i].event \in Nat
    BY <1>4 DEF NoteSent, Echo, Step, Shape, Known, TypeOK
  <2>2. /\ tasks' \in Seq(Task) /\ DOMAIN tasks' = DOMAIN tasks
        /\ tasks'[i].event = tasks[i].event
        /\ \A j \in DOMAIN tasks : j # i => tasks'[j] = tasks[j]
        /\ UNCHANGED reader
    <3>1. PICK e \in Nat : e = tasks[i].event
      BY <2>1
    <3>2. PICK to \in {"echo", "done"} :
            tasks' = [tasks EXCEPT ![i] = [tasks[i] EXCEPT !.pc = to, !.event = e]]
      BY <1>4, <3>1 DEF NoteSent, Echo, Step
    <3>3. i \in DOMAIN tasks /\ UNCHANGED reader
      BY <1>4 DEF NoteSent, Echo, Step
    <3>4. QED
      BY <3>1, <3>2, <3>3, StepShape
  <2>3. UNCHANGED <<timeline, cursor, relayed>>
    BY <1>4 DEF NoteSent, Echo, sync
  <2>4. Known'
    BY <2>1, <2>2, <2>3 DEF Shape, Known
  <2>5. IsFiniteSet(sent') /\ Cardinality(sent') <= SentMax + 1 /\ sent' \subseteq DOMAIN timeline
    <3>1. CASE Echo(i)
      BY <3>1 DEF Echo, Shape, TypeOK
    <3>2. CASE NoteSent(i)
      <4> DEFINE kept == IF Cardinality(sent) > SentMax THEN {} ELSE sent
      <4>1. IsFiniteSet(kept) /\ Cardinality(kept) <= SentMax /\ kept \subseteq DOMAIN timeline
        BY FS_EmptySet, FS_CardinalityType, OutgoingAssumption DEF Shape, TypeOK
      <4>2. sent' = kept \cup {tasks[i].event}
        BY <3>2 DEF NoteSent
      <4> HIDE DEF kept
      <4>3. /\ IsFiniteSet(sent')
            /\ Cardinality(sent') = Cardinality(kept) \/ Cardinality(sent') = Cardinality(kept) + 1
        BY <4>1, <4>2, FS_AddElement
      <4>4. QED
        BY <2>1, <4>1, <4>2, <4>3, FS_CardinalityType, OutgoingAssumption
    <3>3. QED
      BY <1>4, <3>1, <3>2
  <2>6. echoed' \subseteq DOMAIN timeline
    BY <1>4, <2>1 DEF NoteSent, Echo, Shape, TypeOK
  <2>7. QED
    BY <2>2, <2>3, <2>4, <2>5, <2>6 DEF Shape, TypeOK, reader
<1>5. QED
  BY <1>1, <1>2, <1>3, <1>4 DEF SendTask

LEMMA MatrixShape ==
    ASSUME Shape, Foreign \/ HandleEvent
    PROVE  Shape'
<1>1. CASE Foreign
  <2>1. PICK own \in BOOLEAN : timeline' = Append(timeline, [own |-> own, here |-> FALSE])
    BY <1>1 DEF Foreign, Post
  <2>2. /\ timeline' \in Seq(Event) /\ cursor \in 0 .. Len(timeline')
        /\ DOMAIN timeline \subseteq DOMAIN timeline'
    BY <2>1, PostKnown
  <2>3. Known'
    BY <1>1, <2>2 DEF Foreign, Shape, Known
  <2>4. QED
    BY <1>1, <2>2, <2>3 DEF Foreign, Shape, TypeOK, reader, sync
<1>2. CASE HandleEvent
  <2>1. cursor' \in 0 .. Len(timeline) /\ relayed' \subseteq DOMAIN timeline
    BY <1>2 DEF HandleEvent, Shape, TypeOK
  <2>2. Known'
    BY <1>2 DEF HandleEvent, Shape, Known
  <2>3. QED
    BY <1>2, <2>1, <2>2 DEF HandleEvent, Shape, TypeOK, reader
<1>3. QED
  BY <1>1, <1>2

LEMMA StepKeepsShape == Shape /\ [Next]_vars => Shape'
<1> SUFFICES ASSUME Shape, [Next]_vars PROVE Shape'
  OBVIOUS
<1>1. CASE UNCHANGED vars
  BY <1>1 DEF vars, reader, sync, Shape, TypeOK, Known
<1>2. QED
  BY <1>1, ReadLoopShape, SendTaskShape, MatrixShape DEF Next

LEMMA ShapeAlways == Spec => []Shape
BY InitShape, StepKeepsShape, PTL DEF Spec

\* Whatever the client writes and the homeserver answers, the state is well
\* typed, and `sent` holds at most one id more than its limit.
THEOREM TypeCorrect == Spec => []TypeOK
BY ShapeAlways, PTL DEF Shape

-----------------------------------------------------------------------------
\* What is echoed is not relayed again, as long as `sent` is not emptied.

\* The ids in `sent` are the events of tasks past `note_sent`, and what such a
\* task has echoed stays in `sent`.
Noted ==
    /\ \A i \in DOMAIN tasks :
        /\ tasks[i].pc \in {"note", "echo"} => timeline[tasks[i].event].own
        /\ tasks[i].pc = "echo" => tasks[i].event \in sent
    /\ \A e \in echoed : e \in sent /\ timeline[e].own
    /\ \A e \in sent : \E i \in DOMAIN tasks : tasks[i].event = e /\ tasks[i].pc \in {"echo", "done"}
    /\ Len(tasks) <= MaxMessages

\* There are no more ids in `sent` than messages.
LEMMA SentIsSmall == Shape /\ Noted => Cardinality(sent) <= MaxMessages
<1> SUFFICES ASSUME Shape, Noted PROVE Cardinality(sent) <= MaxMessages
  OBVIOUS
<1> DEFINE noter == [e \in sent |-> CHOOSE i \in DOMAIN tasks : tasks[i].event = e]
<1>1. tasks \in Seq(Task) /\ Len(tasks) \in Nat /\ DOMAIN tasks = 1 .. Len(tasks)
  BY LenProperties DEF Shape, TypeOK
<1>2. \A e \in sent : noter[e] \in DOMAIN tasks /\ tasks[noter[e]].event = e
  BY DEF Noted
<1>3. noter \in [sent -> 1 .. Len(tasks)]
  BY <1>1, <1>2
<1>4. IsFiniteSet(1 .. Len(tasks)) /\ Cardinality(1 .. Len(tasks)) = Len(tasks)
  BY <1>1, FS_Interval
<1>5. IsFiniteSet(sent) /\ Cardinality(sent) \in Nat
  BY FS_CardinalityType DEF Shape
<1>6. ~(Cardinality(1 .. Len(tasks)) < Cardinality(sent))
  <2> HIDE DEF noter
  <2>1. ASSUME Cardinality(1 .. Len(tasks)) < Cardinality(sent)
        PROVE  \E x, y \in sent : x # y /\ noter[x] = noter[y]
    BY <1>3, <1>4, <1>5, <2>1, FS_PigeonHole
  <2>2. QED
    BY <1>2, <2>1
<1>7. QED
  BY <1>1, <1>4, <1>5, <1>6, OutgoingAssumption DEF Noted

LEMMA InitNoted == Init => Noted
<1> SUFFICES ASSUME Init PROVE Noted
  OBVIOUS
<1>1. tasks = <<>> /\ DOMAIN tasks = {} /\ Len(tasks) = 0 /\ echoed = {} /\ sent = {}
  BY DEF Init
<1>2. QED
  BY <1>1, OutgoingAssumption DEF Noted

\* A message that is spawned has no event and is not waiting for one.
LEMMA ReadLoopNoted ==
    ASSUME Shape, Noted, ReadLoop
    PROVE  Noted'
<1>1. UNCHANGED <<timeline, cursor, relayed, sent, echoed>>
  BY DEF ReadLoop, Privmsg, BatchLine, OpenBatch, CloseBatch, Part, Rejoin, sync
<1>2. CASE UNCHANGED tasks
  BY <1>1, <1>2 DEF Noted
<1>3. ASSUME NEW body \in Seq(Lines), Spawn(body) PROVE Noted'
  <2>1. /\ Len(tasks) \in Nat /\ Len(tasks) < MaxMessages /\ Len(tasks') = Len(tasks) + 1
        /\ DOMAIN tasks = 1 .. Len(tasks) /\ DOMAIN tasks' = 1 .. (Len(tasks) + 1)
        /\ tasks'[Len(tasks) + 1].pc = "sending"
        /\ \A j \in DOMAIN tasks : tasks'[j] = tasks[j]
    <3>1. tasks'[Len(tasks) + 1] = [body |-> body, pc |-> "sending", event |-> NoEvent]
      BY <1>3, SpawnShape
    <3>2. QED
      BY <1>3, <3>1, SpawnShape, LenProperties DEF Shape, TypeOK
  <2>2. \A j \in DOMAIN tasks' : j \in DOMAIN tasks \/ tasks'[j].pc = "sending"
    BY <2>1
  <2>3. Len(tasks') <= MaxMessages /\ DOMAIN tasks \subseteq DOMAIN tasks'
    BY <2>1, OutgoingAssumption
  <2>4. QED
    BY <1>1, <2>1, <2>2, <2>3 DEF Noted
<1>4. QED
  <2>1. ASSUME NEW n \in Lines, Relay(<<n>>) PROVE Noted'
    <3>1. <<n>> \in Seq(Lines)
      OBVIOUS
    <3>2. QED
      BY <1>2, <1>3, <2>1, <3>1 DEF Relay
  <2>2. ASSUME NEW r \in Refs, CloseBatch(r) PROVE Noted'
    BY <1>3, <2>2 DEF CloseBatch, Shape, TypeOK
  <2>3. QED
    BY <1>2, <2>1, <2>2 DEF ReadLoop, Privmsg, BatchLine, OpenBatch, Part, Rejoin

\* New events leave what is known of the old ones.
LEMMA OwnKept ==
    ASSUME Shape, NEW own \in BOOLEAN, NEW here \in BOOLEAN,
           timeline' = Append(timeline, [own |-> own, here |-> here])
    PROVE  /\ \A e \in DOMAIN timeline : timeline'[e] = timeline[e]
           /\ timeline'[Len(timeline) + 1].own = own
<1> DEFINE new == [own |-> own, here |-> here]
<1>1. new \in Event /\ new.own = own
  BY DEF Event
<1> HIDE DEF new
<1>2. timeline' = Append(timeline, new)
  BY DEF new
<1>3. /\ \A e \in DOMAIN timeline : timeline'[e] = timeline[e]
      /\ timeline'[Len(timeline) + 1] = new
  BY <1>1, <1>2, PostShape
<1>4. QED
  BY <1>1, <1>3

LEMMA SendTaskNoted ==
    ASSUME MaxMessages <= SentMax, Shape, Noted, NEW i \in 1 .. MaxMessages, SendTask(i)
    PROVE  Noted'
<1>1. CASE Accepted(i)
  <2>1. PICK e \in Nat : e = Len(timeline) + 1
    BY LenProperties DEF Shape, TypeOK
  <2>2. /\ i \in DOMAIN tasks /\ tasks[i].pc = "sending"
        /\ tasks' = [tasks EXCEPT ![i] = [tasks[i] EXCEPT !.pc = "note", !.event = e]]
        /\ UNCHANGED <<sent, echoed>>
        /\ timeline' = Append(timeline, [own |-> TRUE, here |-> TRUE])
    BY <1>1, <2>1 DEF Accepted, Step, Post
  <2>3. /\ Len(tasks') = Len(tasks) /\ DOMAIN tasks' = DOMAIN tasks
        /\ tasks'[i].pc = "note" /\ tasks'[i].event = e
        /\ \A j \in DOMAIN tasks : j # i => tasks'[j] = tasks[j]
    BY <2>2, StepShape
  <2>4. /\ \A x \in DOMAIN timeline : timeline'[x] = timeline[x]
        /\ timeline'[e].own
    BY <2>1, <2>2, OwnKept
  <2>5. \A x \in sent \cup echoed : x \in DOMAIN timeline
    BY DEF Shape, TypeOK
  <2>6. \A j \in DOMAIN tasks : tasks[j].pc \in {"echo", "done"} => tasks'[j] = tasks[j]
    BY <2>2, <2>3
  <2>7. ASSUME NEW j \in DOMAIN tasks'
        PROVE  /\ tasks'[j].pc \in {"note", "echo"} => timeline'[tasks'[j].event].own
               /\ tasks'[j].pc = "echo" => tasks'[j].event \in sent'
    <3>1. CASE j = i
      BY <2>3, <2>4, <3>1
    <3>2. CASE j # i
      BY <2>2, <2>3, <2>4, <2>7, <3>2 DEF Noted, Shape, Known
    <3>3. QED
      BY <3>1, <3>2
  <2>8. \A x \in echoed' : x \in sent' /\ timeline'[x].own
    BY <2>2, <2>4, <2>5 DEF Noted
  <2>9. QED
    BY <2>2, <2>3, <2>6, <2>7, <2>8 DEF Noted
<1>2. CASE Refused(i) \/ Unanswered(i)
  <2>1. /\ i \in DOMAIN tasks /\ tasks[i].pc = "sending"
        /\ tasks' = [tasks EXCEPT ![i] = [tasks[i] EXCEPT !.pc = "done", !.event = 0]]
        /\ UNCHANGED <<sent, echoed>>
    BY <1>2 DEF Refused, Unanswered, Step, NoEvent
  <2>2. /\ Len(tasks') = Len(tasks) /\ DOMAIN tasks' = DOMAIN tasks
        /\ tasks'[i].pc = "done"
        /\ \A j \in DOMAIN tasks : j # i => tasks'[j] = tasks[j]
    BY <2>1, StepShape
  <2>3. \A x \in DOMAIN timeline : timeline'[x] = timeline[x]
    BY <1>2, OwnKept DEF Refused, Unanswered, Post
  <2>4. \A x \in sent \cup echoed : x \in DOMAIN timeline
    BY DEF Shape, TypeOK
  <2>5. \A j \in DOMAIN tasks : tasks[j].pc \in {"echo", "done"} => tasks'[j] = tasks[j]
    BY <2>1, <2>2
  <2>6. QED
    BY <2>1, <2>2, <2>3, <2>4, <2>5 DEF Noted, Shape, Known
<1>3. CASE NoteSent(i)
  <2>1. /\ i \in DOMAIN tasks /\ tasks[i].pc = "note" /\ UNCHANGED <<timeline, echoed>>
        /\ tasks' = [tasks EXCEPT ![i] = [tasks[i] EXCEPT !.pc = "echo", !.event = tasks[i].event]]
    BY <1>3 DEF NoteSent, Step
  <2>2. tasks[i].event \in Nat
    BY <2>1 DEF Shape, Known, TypeOK
  <2>3. /\ Len(tasks') = Len(tasks) /\ DOMAIN tasks' = DOMAIN tasks
        /\ tasks'[i].pc = "echo" /\ tasks'[i].event = tasks[i].event
        /\ \A j \in DOMAIN tasks : j # i => tasks'[j] = tasks[j]
    BY <2>1, <2>2, StepShape
  <2>4. sent' = sent \cup {tasks[i].event}
    <3>1. ~(Cardinality(sent) > SentMax)
      BY SentIsSmall, FS_CardinalityType, OutgoingAssumption DEF Shape
    <3>2. QED
      BY <1>3, <3>1 DEF NoteSent
  <2>5. QED
    BY <2>1, <2>3, <2>4 DEF Noted
<1>4. CASE Echo(i)
  <2>1. /\ i \in DOMAIN tasks /\ tasks[i].pc = "echo" /\ UNCHANGED <<timeline, sent>>
        /\ echoed' = echoed \cup {tasks[i].event}
        /\ tasks' = [tasks EXCEPT ![i] = [tasks[i] EXCEPT !.pc = "done", !.event = tasks[i].event]]
    BY <1>4 DEF Echo, Step
  <2>2. tasks[i].event \in Nat
    BY <2>1 DEF Shape, Known, TypeOK
  <2>3. /\ Len(tasks') = Len(tasks) /\ DOMAIN tasks' = DOMAIN tasks
        /\ tasks'[i].pc = "done" /\ tasks'[i].event = tasks[i].event
        /\ \A j \in DOMAIN tasks : j # i => tasks'[j] = tasks[j]
    BY <2>1, <2>2, StepShape
  <2>4. QED
    BY <2>1, <2>3 DEF Noted
<1>5. QED
  BY <1>1, <1>2, <1>3, <1>4 DEF SendTask

LEMMA MatrixNoted ==
    ASSUME Shape, Noted, Foreign \/ HandleEvent
    PROVE  Noted'
<1>1. UNCHANGED <<tasks, sent, echoed>>
  BY DEF Foreign, HandleEvent
<1>2. \A x \in DOMAIN timeline : timeline'[x] = timeline[x]
  BY OwnKept DEF Foreign, HandleEvent, Post
<1>3. \A x \in sent \cup echoed : x \in DOMAIN timeline
  BY DEF Shape, TypeOK
<1>4. QED
  BY <1>1, <1>2, <1>3 DEF Noted, Shape, Known

\* When `sent` is large enough for the messages of a session, what the client
\* was shown as an echo is not relayed to it again, whatever the tasks, the
\* sync and the homeserver do in between.
THEOREM EchoesStayOut == ASSUME MaxMessages <= SentMax PROVE Spec => EchoedNotRelayed
<1>1. Shape /\ Noted /\ [Next]_vars => Noted'
  <2> SUFFICES ASSUME Shape, Noted, [Next]_vars PROVE Noted'
    OBVIOUS
  <2>1. CASE UNCHANGED vars
    BY <2>1 DEF vars, reader, sync, Noted
  <2>2. QED
    BY <2>1, ReadLoopNoted, SendTaskNoted, MatrixNoted DEF Next
<1>2. Noted /\ [Next]_vars => [\A e \in echoed : e \in relayed' => e \in relayed]_vars
  <2> SUFFICES ASSUME Noted, Next, NEW e \in echoed, e \in relayed', e \notin relayed PROVE FALSE
    OBVIOUS
  <2>1. HandleEvent
    BY DEF Next, ReadLoop, Privmsg, BatchLine, OpenBatch, CloseBatch, Part, Rejoin, SendTask, Accepted,
       Refused, Unanswered, NoteSent, Echo, Foreign, sync
  <2>2. QED
    BY <2>1 DEF HandleEvent, Noted
<1>3. QED
  BY <1>1, <1>2, InitNoted, ShapeAlways, PTL DEF Spec, EchoedNotRelayed

-----------------------------------------------------------------------------
\* A line is sent once.

InBody(body, n) == \E k \in DOMAIN body : body[k] = n

\* Lines are held in the order they are written, each by one batch or message.
Held ==
    /\ \A r \in DOMAIN batches, n \in Lines : InBody(batches[r], n) =>
        /\ n <= written
        /\ \A s \in DOMAIN batches : InBody(batches[s], n) => s = r
        /\ \A i \in DOMAIN tasks : ~InBody(tasks[i].body, n)
    /\ \A i \in DOMAIN tasks, n \in Lines : InBody(tasks[i].body, n) =>
        /\ n <= written
        /\ \A j \in DOMAIN tasks : InBody(tasks[j].body, n) => j = i
    /\ \A r \in DOMAIN batches : Ascending(batches[r])
    /\ \A i \in DOMAIN tasks : Ascending(tasks[i].body)

\* Writing a line and dropping it keeps all that.
LEMMA WrittenHeld ==
    ASSUME Shape, Held, UNCHANGED <<batches, tasks>>, written' \in Nat, written <= written'
    PROVE  Held'
BY DEF Shape, TypeOK, Held, Lines

LEMMA SpawnLineHeld ==
    ASSUME Shape, Held, NEW n \in Lines, Write(n), Spawn(<<n>>), UNCHANGED batches
    PROVE  Held'
<1>1. n = written + 1 /\ written' = n /\ written \in Nat /\ <<n>> \in Seq(Lines)
  BY DEF Write, Shape, TypeOK
<1>2. /\ Len(tasks) \in Nat /\ DOMAIN tasks = 1 .. Len(tasks) /\ DOMAIN tasks' = 1 .. (Len(tasks) + 1)
      /\ tasks'[Len(tasks) + 1] = [body |-> <<n>>, pc |-> "sending", event |-> NoEvent]
      /\ \A j \in DOMAIN tasks : tasks'[j] = tasks[j]
  BY <1>1, SpawnShape, LenProperties DEF Shape, TypeOK
<1> DEFINE new == Len(tasks) + 1
<1>3. tasks'[new].body = <<n>> /\ \A j \in DOMAIN tasks' : j \in DOMAIN tasks \/ j = new
  BY <1>2
<1>4. \A m \in Lines : InBody(<<n>>, m) <=> m = n
  BY DEF InBody
<1>5. Ascending(<<n>>)
  BY DEF Ascending
<1>6. \A i \in DOMAIN tasks : ~InBody(tasks[i].body, n)
  BY <1>1 DEF Held
<1>7. \A r \in DOMAIN batches : ~InBody(batches[r], n)
  BY <1>1 DEF Held
<1>8. \A m \in Lines : m <= written => m <= written'
  BY <1>1 DEF Lines
<1>9. ASSUME NEW r \in DOMAIN batches', NEW m \in Lines, InBody(batches'[r], m)
      PROVE  /\ m <= written'
             /\ \A s \in DOMAIN batches' : InBody(batches'[s], m) => s = r
             /\ \A i \in DOMAIN tasks' : ~InBody(tasks'[i].body, m)
  <2>1. m # n /\ m <= written'
    BY <1>7, <1>8, <1>9 DEF Held
  <2>2. QED
    BY <1>2, <1>3, <1>4, <1>9, <2>1 DEF Held
<1>10. ASSUME NEW i \in DOMAIN tasks', NEW m \in Lines, InBody(tasks'[i].body, m)
       PROVE  /\ m <= written'
              /\ \A j \in DOMAIN tasks' : InBody(tasks'[j].body, m) => j = i
  <2>1. CASE m = n
    <3>1. \A j \in DOMAIN tasks' : InBody(tasks'[j].body, m) => j = new
      BY <1>2, <1>3, <1>6, <2>1
    <3>2. QED
      BY <1>1, <1>10, <2>1, <3>1 DEF Lines
  <2>2. CASE m # n
    <3>1. \A j \in DOMAIN tasks' : InBody(tasks'[j].body, m) => j \in DOMAIN tasks /\ InBody(tasks[j].body, m)
      BY <1>2, <1>3, <1>4, <2>2
    <3>2. QED
      BY <1>8, <1>10, <3>1 DEF Held
  <2>3. QED
    BY <2>1, <2>2
<1>11. \A i \in DOMAIN tasks' : Ascending(tasks'[i].body)
  BY <1>2, <1>3, <1>5 DEF Held
<1>12. QED
  BY <1>9, <1>10, <1>11 DEF Held

\* A captured line ends its batch.
LEMMA CapturedHeld ==
    ASSUME Shape, Held, NEW n \in Lines, NEW r \in DOMAIN batches, Write(n),
           batches' = [batches EXCEPT ![r] = Append(@, n)], UNCHANGED tasks
    PROVE  Held'
<1> DEFINE new == Append(batches[r], n)
<1>1. n = written + 1 /\ written' = n /\ written \in Nat
  BY DEF Write, Shape, TypeOK
<1>2. batches[r] \in Seq(Lines) /\ Len(batches[r]) \in Nat /\ DOMAIN batches[r] = 1 .. Len(batches[r])
  BY LenProperties DEF Shape, TypeOK
<1>3. /\ new \in Seq(Lines) /\ DOMAIN new = 1 .. (Len(batches[r]) + 1)
      /\ \A k \in DOMAIN batches[r] : new[k] = batches[r][k]
      /\ new[Len(batches[r]) + 1] = n
  <2>1. new \in Seq(Lines) /\ Len(new) = Len(batches[r]) + 1
    BY <1>2, AppendProperties
  <2>2. QED
    BY <1>2, <2>1, AppendProperties, LenProperties
<1>4. \A m \in Lines : InBody(new, m) <=> m = n \/ InBody(batches[r], m)
  <2>1. \A k \in DOMAIN new : k \in DOMAIN batches[r] \/ k = Len(batches[r]) + 1
    BY <1>2, <1>3
  <2>2. DOMAIN batches[r] \subseteq DOMAIN new /\ Len(batches[r]) + 1 \in DOMAIN new
    BY <1>2, <1>3
  <2> HIDE DEF new
  <2>3. QED
    BY <1>3, <2>1, <2>2 DEF InBody
<1>5. Ascending(new)
  <2>1. \A k \in DOMAIN batches[r] : batches[r][k] <= written /\ batches[r][k] \in Lines
    BY <1>2 DEF Held, InBody
  <2> HIDE DEF new
  <2>2. SUFFICES ASSUME NEW j \in DOMAIN new, NEW k \in DOMAIN new, j < k PROVE new[j] < new[k]
    BY DEF Ascending
  <2>3. j \in DOMAIN batches[r]
    BY <1>2, <1>3, <2>2
  <2>4. CASE k \in DOMAIN batches[r]
    BY <1>3, <2>2, <2>3, <2>4 DEF Held, Ascending
  <2>5. CASE k \notin DOMAIN batches[r]
    <3>1. new[k] = n
      BY <1>2, <1>3, <2>5
    <3>2. QED
      BY <1>1, <1>3, <2>1, <2>3, <3>1 DEF Lines
  <2>6. QED
    BY <2>4, <2>5
<1> HIDE DEF new
<1>6. /\ DOMAIN batches' = DOMAIN batches /\ batches'[r] = new
      /\ \A s \in DOMAIN batches : s # r => batches'[s] = batches[s]
  BY DEF new
<1>7. /\ \A s \in DOMAIN batches : ~InBody(batches[s], n)
      /\ \A i \in DOMAIN tasks : ~InBody(tasks[i].body, n)
  BY <1>1 DEF Held
<1>8. \A m \in Lines : m <= written => m <= written'
  BY <1>1 DEF Lines
<1>9. \A s \in DOMAIN batches, m \in Lines :
        InBody(batches'[s], m) <=> (m = n /\ s = r) \/ InBody(batches[s], m)
  BY <1>4, <1>6, <1>7
<1>10. ASSUME NEW s \in DOMAIN batches', NEW m \in Lines, InBody(batches'[s], m)
       PROVE  /\ m <= written'
              /\ \A q \in DOMAIN batches' : InBody(batches'[q], m) => q = s
              /\ \A i \in DOMAIN tasks' : ~InBody(tasks'[i].body, m)
  <2>1. CASE m = n
    BY <1>1, <1>6, <1>7, <1>9, <1>10, <2>1 DEF Lines
  <2>2. CASE m # n
    BY <1>6, <1>8, <1>9, <1>10, <2>2 DEF Held
  <2>3. QED
    BY <2>1, <2>2
<1>11. QED
  BY <1>5, <1>6, <1>8, <1>10 DEF Held

\* A batch that is opened again is empty.
LEMMA OpenHeld ==
    ASSUME Shape, Held, NEW r \in Refs, OpenBatch(r)
    PROVE  Held'
<1>1. /\ DOMAIN batches' = DOMAIN batches \cup {r}
      /\ batches'[r] = <<>>
      /\ \A s \in DOMAIN batches : s # r => batches'[s] = batches[s]
      /\ UNCHANGED <<tasks, written>>
  BY DEF OpenBatch
<1>2. \A m \in Lines : ~InBody(<<>>, m)
  BY DEF InBody
<1>3. Ascending(<<>>)
  BY DEF Ascending
<1>4. \A s \in DOMAIN batches', m \in Lines : InBody(batches'[s], m) => s # r /\ s \in DOMAIN batches
  BY <1>1, <1>2
<1>5. QED
  BY <1>1, <1>3, <1>4 DEF Held

\* A batch that is closed becomes a message.
LEMMA CloseHeld ==
    ASSUME Shape, Held, NEW r \in Refs, CloseBatch(r)
    PROVE  Held'
<1>1. /\ r \in DOMAIN batches /\ batches[r] \in Seq(Lines) /\ written' = written
      /\ DOMAIN batches' = DOMAIN batches \ {r}
      /\ \A s \in DOMAIN batches' : batches'[s] = batches[s]
  BY DEF CloseBatch, Shape, TypeOK
<1>2. /\ Len(tasks) \in Nat /\ DOMAIN tasks = 1 .. Len(tasks) /\ DOMAIN tasks' = 1 .. (Len(tasks) + 1)
      /\ tasks'[Len(tasks) + 1] = [body |-> batches[r], pc |-> "sending", event |-> NoEvent]
      /\ \A j \in DOMAIN tasks : tasks'[j] = tasks[j]
  BY <1>1, SpawnShape, LenProperties DEF CloseBatch, Shape, TypeOK
<1> DEFINE new == Len(tasks) + 1
<1>3. tasks'[new].body = batches[r] /\ \A j \in DOMAIN tasks' : j \in DOMAIN tasks \/ j = new
  BY <1>2
<1>4. ASSUME NEW s \in DOMAIN batches', NEW m \in Lines, InBody(batches'[s], m)
      PROVE  /\ m <= written'
             /\ \A q \in DOMAIN batches' : InBody(batches'[q], m) => q = s
             /\ \A i \in DOMAIN tasks' : ~InBody(tasks'[i].body, m)
  <2>1. ~InBody(batches[r], m)
    BY <1>1, <1>4 DEF Held
  <2>2. QED
    BY <1>1, <1>2, <1>3, <1>4, <2>1 DEF Held
<1>5. ASSUME NEW i \in DOMAIN tasks', NEW m \in Lines, InBody(tasks'[i].body, m)
      PROVE  /\ m <= written'
             /\ \A j \in DOMAIN tasks' : InBody(tasks'[j].body, m) => j = i
  <2>1. CASE InBody(batches[r], m)
    <3>1. \A j \in DOMAIN tasks : ~InBody(tasks[j].body, m)
      BY <1>1, <2>1 DEF Held
    <3>2. \A j \in DOMAIN tasks' : InBody(tasks'[j].body, m) => j = new
      BY <1>2, <1>3, <3>1
    <3>3. QED
      BY <1>1, <1>5, <2>1, <3>2 DEF Held
  <2>2. CASE ~InBody(batches[r], m)
    <3>1. \A j \in DOMAIN tasks' : InBody(tasks'[j].body, m) => j \in DOMAIN tasks /\ InBody(tasks[j].body, m)
      BY <1>2, <1>3, <2>2
    <3>2. QED
      BY <1>1, <1>5, <3>1 DEF Held
  <2>3. QED
    BY <2>1, <2>2
<1>6. /\ \A s \in DOMAIN batches' : Ascending(batches'[s])
      /\ \A i \in DOMAIN tasks' : Ascending(tasks'[i].body)
  BY <1>1, <1>2, <1>3 DEF Held
<1>7. QED
  BY <1>4, <1>5, <1>6 DEF Held

LEMMA ReadLoopHeld ==
    ASSUME Shape, Held, ReadLoop
    PROVE  Held'
<1>1. ASSUME NEW n \in Lines, Write(n) PROVE written' \in Nat /\ written <= written'
  BY <1>1 DEF Write, Shape, TypeOK
<1>2. ASSUME NEW n \in Lines, Write(n), Relay(<<n>>), UNCHANGED batches PROVE Held'
  BY <1>1, <1>2, WrittenHeld, SpawnLineHeld DEF Relay
<1>3. ASSUME NEW n \in Lines, Privmsg(n) PROVE Held'
  BY <1>2, <1>3 DEF Privmsg
<1>4. ASSUME NEW n \in Lines, NEW r \in Refs, BatchLine(n, r) PROVE Held'
  BY <1>2, <1>4, CapturedHeld DEF BatchLine
<1>5. ASSUME Part \/ Rejoin PROVE Held'
  BY <1>5, WrittenHeld DEF Part, Rejoin, Shape, TypeOK
<1>6. QED
  BY <1>3, <1>4, <1>5, OpenHeld, CloseHeld DEF ReadLoop

\* A send task leaves the bodies alone.
LEMMA SendTaskHeld ==
    ASSUME Shape, Held, NEW i \in 1 .. MaxMessages, SendTask(i)
    PROVE  Held'
<1>1. UNCHANGED <<batches, written>> /\ i \in DOMAIN tasks
  BY DEF SendTask, Accepted, Refused, Unanswered, NoteSent, Echo, Step, reader
<1>2. DOMAIN tasks' = DOMAIN tasks
  BY DEF SendTask, Accepted, Refused, Unanswered, NoteSent, Echo, Step
<1>3. \A j \in DOMAIN tasks : tasks'[j].body = tasks[j].body
  <2>1. ASSUME NEW from, NEW to, NEW e, Step(i, from, to, e)
        PROVE  \A j \in DOMAIN tasks : tasks'[j].body = tasks[j].body
    <3>1. tasks' = [tasks EXCEPT ![i] = [tasks[i] EXCEPT !.pc = to, !.event = e]]
      BY <2>1 DEF Step
    <3>2. tasks \in Seq(Task) /\ tasks[i] \in Task
      BY <1>1 DEF Shape, TypeOK
    <3>3. [tasks[i] EXCEPT !.pc = to, !.event = e].body = tasks[i].body
      BY <3>2 DEF Task
    <3>4. QED
      BY <3>1, <3>3
  <2>2. QED
    BY <2>1 DEF SendTask, Accepted, Refused, Unanswered, NoteSent, Echo
<1>4. QED
  BY <1>1, <1>2, <1>3 DEF Held

LEMMA InitHeld == Init => Held
BY DEF Init, Held

LEMMA StepKeepsHeld == Shape /\ Held /\ [Next]_vars => Held'
<1> SUFFICES ASSUME Shape, Held, [Next]_vars PROVE Held'
  OBVIOUS
<1>1. CASE UNCHANGED vars
  BY <1>1 DEF vars, reader, Held
<1>2. CASE Foreign \/ HandleEvent
  BY <1>2 DEF Foreign, HandleEvent, reader, Held
<1>3. QED
  BY <1>1, <1>2, ReadLoopHeld, SendTaskHeld DEF Next

\* Of any two places that hold a line there is only one.
LEMMA HeldOnce == Shape /\ Held => LinesSentOnce
<1> SUFFICES ASSUME Shape, Held PROVE LinesSentOnce
  OBVIOUS
<1>1. ASSUME NEW n \in Lines PROVE Cardinality(Holders(n)) <= 1
  <2>1. \A h \in Holders(n) :
          \/ \E r \in DOMAIN batches : h = <<"batch", r>> /\ InBody(batches[r], n)
          \/ \E i \in DOMAIN tasks : h = <<"message", i>> /\ InBody(tasks[i].body, n)
    BY DEF Holders, InBody
  <2>2. ASSUME NEW g \in Holders(n), NEW h \in Holders(n) PROVE g = h
    <3>1. CASE \E r \in DOMAIN batches : g = <<"batch", r>> /\ InBody(batches[r], n)
      <4>1. PICK r \in DOMAIN batches : g = <<"batch", r>> /\ InBody(batches[r], n)
        BY <3>1
      <4>2. \A i \in DOMAIN tasks : ~InBody(tasks[i].body, n)
        BY <1>1, <4>1 DEF Held
      <4>3. PICK s \in DOMAIN batches : h = <<"batch", s>> /\ InBody(batches[s], n)
        BY <2>1, <4>2
      <4>4. s = r
        BY <1>1, <4>1, <4>3 DEF Held
      <4>5. QED
        BY <4>1, <4>3, <4>4
    <3>2. CASE \E i \in DOMAIN tasks : g = <<"message", i>> /\ InBody(tasks[i].body, n)
      <4>1. PICK i \in DOMAIN tasks : g = <<"message", i>> /\ InBody(tasks[i].body, n)
        BY <3>2
      <4>2. \A r \in DOMAIN batches : ~InBody(batches[r], n)
        BY <1>1, <4>1 DEF Held
      <4>3. PICK j \in DOMAIN tasks : h = <<"message", j>> /\ InBody(tasks[j].body, n)
        BY <2>1, <4>2
      <4>4. j = i
        BY <1>1, <4>1, <4>3 DEF Held
      <4>5. QED
        BY <4>1, <4>3, <4>4
    <3>3. QED
      BY <2>1, <3>1, <3>2
  <2>3. CASE Holders(n) = {}
    BY <2>3, FS_EmptySet
  <2>4. CASE Holders(n) # {}
    <3>1. PICK h \in Holders(n) : TRUE
      BY <2>4
    <3>2. Holders(n) = {h}
      BY <2>2, <3>1
    <3>3. QED
      BY <3>2, FS_Singleton
  <2>5. QED
    BY <2>3, <2>4
<1>2. QED
  BY <1>1 DEF Held, LinesSentOnce

\* For any number of lines, batches and messages, opened, closed and sent in
\* any order, a line is in one place, and in its place among the others.
THEOREM LinesAreSentOnce == Spec => []LinesSentOnce
<1>1. Shape /\ Held /\ [Next]_vars => Held'
  BY StepKeepsHeld
<1>2. QED
  BY <1>1, InitHeld, HeldOnce, ShapeAlways, PTL DEF Spec
=============================================================================
