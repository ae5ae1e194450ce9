---------------------------- MODULE InvitesProofs ----------------------------
(***************************************************************************)
(* For any rooms, any number of invitations and any interleaving of the    *)
(* handler, the bootstrap and the client's answers: an index the client    *)
(* has been shown stands for one room, and a room is pending once.         *)
(***************************************************************************)
EXTENDS Invites, TLAPS

\* Between its prompt and its push the handler holds an index that names its
\* room to the client, and nobody else enters that room meanwhile.
HandlerInv ==
    /\ handler.pc = "push" => Invite(handler.idx, handler.room) \in prompts
    /\ handler.pc # "idle" => \A p \in pending : p.room # handler.room

\* While the bootstrap collects, no handler takes an index: those it gives out
\* lie above the counter, which catches up when the list is stored.
BootInv ==
    /\ boot.pc \in {"collect", "prompt"} => SyncIdle
    /\ boot.pc \notin {"collect", "prompt"} => boot.found = {}
    /\ boot.pc = "collect" =>
         /\ counter <= boot.idx
         /\ \A p \in boot.found :
              counter < p.idx /\ p.idx <= boot.idx /\ p.room \notin boot.todo
    /\ boot.pc = "prompt" =>
         \A p \in boot.found :
            /\ p.idx < counter
            /\ \A q \in prompts \cup pending : p.idx = q.idx => p.room = q.room
    /\ \A p, q \in boot.found : p.idx = q.idx \/ p.room = q.room => p = q

\* Whatever the task that greets the client copied has been prompted, or is
\* among the invitations the bootstrap is about to prompt for.
GreetInv == pending \cup greeter.todo \subseteq prompts \cup boot.found

IInv ==
    /\ TypeOK
    /\ GreetInv
    /\ HandlerInv
    /\ BootInv
    /\ PromptNamesOneRoom
    /\ OnePendingPerRoom

-----------------------------------------------------------------------------
LEMMA InitIInv == Init => IInv
<1> SUFFICES ASSUME Init PROVE IInv
  OBVIOUS
<1> USE InvitesAssumption DEF Init, HandlerIdle, ReaderIdle
<1>1. TypeOK
  <2>1. member \in [Rooms -> {"out", "invited", "joined"}]
    OBVIOUS
  <2>2. arriving \in Seq(Rooms)
    OBVIOUS
  <2>3. QED
    BY <2>1, <2>2 DEF TypeOK
<1>2. GreetInv /\ HandlerInv /\ BootInv /\ PromptNamesOneRoom /\ OnePendingPerRoom
  BY DEF GreetInv, HandlerInv, BootInv, PromptNamesOneRoom, OnePendingPerRoom
<1>3. QED
  BY <1>1, <1>2 DEF IInv

-----------------------------------------------------------------------------
\* One lemma per action.

LEMMA InvitedKeeps == ASSUME IInv, NEW r \in Rooms, Invited(r) PROVE IInv'
<1> USE DEF IInv, Invited, syncing, Invite, SyncIdle, HandlerIdle
<1>1. TypeOK'
  BY DEF TypeOK
<1>2. QED
  BY <1>1 DEF GreetInv, HandlerInv, BootInv, PromptNamesOneRoom, OnePendingPerRoom

LEMMA SyncResponseKeeps == ASSUME IInv, SyncResponse PROVE IInv'
<1> USE DEF IInv, SyncResponse, command
<1>1. PICK n \in Nat : arriving' \in [1 .. n -> News]
  <2>1. 0 .. (EventsEach * Cardinality(News)) \subseteq Nat
    OBVIOUS
  <2>2. QED
    BY <2>1
<1>2. arriving' \in Seq(Rooms)
  BY <1>1 DEF News
<1>3. boot' \in [pc : {"first", "synced", "collect", "prompt", "forever"},
                 idx : Nat, todo : SUBSET Rooms, found : SUBSET InviteEntry]
  BY DEF TypeOK
<1>4. /\ boot'.pc \in {"synced", "forever"}
      /\ boot'.found = boot.found
  BY DEF TypeOK
<1>5. TypeOK'
  BY <1>2, <1>3 DEF TypeOK, News
<1>6. boot.found = {}
  BY DEF BootInv
<1>7. BootInv'
  BY <1>4, <1>6 DEF BootInv
<1>8. GreetInv' /\ HandlerInv' /\ PromptNamesOneRoom' /\ OnePendingPerRoom'
  BY <1>4 DEF GreetInv, HandlerInv, PromptNamesOneRoom, OnePendingPerRoom, Invite
<1>9. QED
  BY <1>5, <1>7, <1>8

LEMMA SyncOnceFailsKeeps == ASSUME IInv, SyncOnceFails PROVE IInv'
<1> USE DEF IInv, SyncOnceFails, matrix, command
<1>1. TypeOK'
  BY DEF TypeOK
<1>2. boot'.pc = "synced" /\ boot'.found = boot.found /\ boot.found = {}
  BY DEF TypeOK, BootInv
<1>3. BootInv'
  BY <1>2 DEF BootInv
<1>4. QED
  BY <1>1, <1>2, <1>3 DEF GreetInv, HandlerInv, PromptNamesOneRoom, OnePendingPerRoom, Invite

LEMMA HandleEventKeeps == ASSUME IInv, HandleEvent PROVE IInv'
<1> USE DEF IInv, HandleEvent, matrix, command
<1>1. Head(arriving) \in Rooms /\ Tail(arriving) \in Seq(Rooms)
  BY DEF TypeOK
<1>2. \/ handler' = HandlerIdle
      \/ /\ handler' = [pc |-> "describe", room |-> Head(arriving), idx |-> 0]
         /\ \A p \in pending : p.room # Head(arriving)
  BY DEF Pending
<1>3. TypeOK'
  BY <1>1, <1>2 DEF TypeOK, HandlerIdle
<1>4. boot.pc \notin {"collect", "prompt"}
  BY DEF BootInv, SyncIdle
<1>5. BootInv'
  BY <1>4 DEF BootInv
<1>6. HandlerInv'
  BY <1>2 DEF HandlerInv, HandlerIdle
<1>7. QED
  BY <1>3, <1>5, <1>6 DEF GreetInv, PromptNamesOneRoom, OnePendingPerRoom

LEMMA HandlerPromptKeeps == ASSUME IInv, HandlerPrompt PROVE IInv'
<1> USE DEF IInv, HandlerPrompt, matrix, command, Invite
<1> DEFINE new == [idx |-> counter, room |-> handler.room]
<1>1. new \in InviteEntry /\ new.idx = counter /\ new.room = handler.room
  BY DEF TypeOK, InviteEntry
<1>2. /\ handler'.pc = "push" /\ handler'.idx = counter
      /\ handler'.room = handler.room
      /\ handler' \in [pc : {"idle", "describe", "push"},
                       room : Rooms \cup {NoRoom}, idx : Nat]
  BY DEF TypeOK
<1>3. prompts' = prompts \cup {new}
  OBVIOUS
<1> HIDE DEF new
<1>4. TypeOK'
  BY <1>1, <1>2, <1>3 DEF TypeOK, InviteEntry
<1>5. HandlerInv'
  <2>1. [idx |-> handler'.idx, room |-> handler'.room] \in prompts'
    BY <1>2, <1>3 DEF new
  <2>2. QED
    BY <1>2, <2>1 DEF HandlerInv
<1>6. boot.pc \notin {"collect", "prompt"}
  BY DEF BootInv, SyncIdle, HandlerIdle
<1>7. BootInv'
  BY <1>6 DEF BootInv
<1>8. \A p \in prompts \cup pending : p.idx < counter
  BY DEF TypeOK
<1>9. PromptNamesOneRoom'
  BY <1>1, <1>3, <1>8 DEF PromptNamesOneRoom, TypeOK, InviteEntry
<1>10. GreetInv'
  BY <1>3 DEF GreetInv
<1>11. QED
  BY <1>4, <1>5, <1>7, <1>9, <1>10 DEF OnePendingPerRoom

LEMMA HandlerPushKeeps == ASSUME IInv, HandlerPush PROVE IInv'
<1> USE DEF IInv, HandlerPush, matrix, command, Invite
<1> DEFINE new == [idx |-> handler.idx, room |-> handler.room]
<1>1. new \in prompts /\ new.room = handler.room
  BY DEF HandlerInv
<1>2. pending' = pending \cup {new}
  OBVIOUS
<1>3. \A p \in pending : p.room # new.room
  BY <1>1 DEF HandlerInv
<1> HIDE DEF new
<1>4. TypeOK'
  BY <1>1, <1>2 DEF TypeOK, HandlerIdle
<1>5. boot.pc \notin {"collect", "prompt"}
  BY DEF BootInv, SyncIdle, HandlerIdle
<1>6. BootInv'
  BY <1>5 DEF BootInv
<1>7. HandlerInv'
  BY DEF HandlerInv, HandlerIdle
<1>8. PromptNamesOneRoom'
  BY <1>1, <1>2 DEF PromptNamesOneRoom
<1>9. OnePendingPerRoom'
  BY <1>2, <1>3 DEF OnePendingPerRoom
<1>10. GreetInv'
  BY <1>1, <1>2 DEF GreetInv
<1>11. QED
  BY <1>4, <1>6, <1>7, <1>8, <1>9, <1>10

LEMMA CollectStartKeeps == ASSUME IInv, CollectStart PROVE IInv'
<1> USE DEF IInv, CollectStart, matrix, command
<1>1. TypeOK'
  BY DEF TypeOK
<1>2. BootInv'
  BY DEF BootInv, TypeOK, SyncIdle
<1>3. GreetInv'
  BY DEF GreetInv, BootInv
<1>4. QED
  BY <1>1, <1>2, <1>3 DEF HandlerInv, PromptNamesOneRoom, OnePendingPerRoom, Invite

LEMMA CollectOneKeeps == ASSUME IInv, CollectOne PROVE IInv'
<1> USE DEF IInv, CollectOne, matrix, command
<1>1. PICK r \in boot.todo :
        boot' = [boot EXCEPT !.idx = @ + 1, !.todo = @ \ {r},
                             !.found = @ \cup {Invite(boot.idx + 1, r)}]
  OBVIOUS
<1> DEFINE new == Invite(boot.idx + 1, r)
<1>2. new \in InviteEntry /\ new.idx = boot.idx + 1 /\ new.room = r
  BY DEF Invite, InviteEntry, TypeOK
<1>3. /\ boot'.pc = "collect" /\ boot'.idx = boot.idx + 1
      /\ boot'.todo = boot.todo \ {r} /\ boot'.found = boot.found \cup {new}
      /\ boot' \in [pc : {"first", "synced", "collect", "prompt", "forever"},
                    idx : Nat, todo : SUBSET Rooms, found : SUBSET InviteEntry]
  <2>1. /\ boot.pc = "collect" /\ boot.idx \in Nat /\ boot.todo \in SUBSET Rooms
        /\ boot.found \in SUBSET InviteEntry
    BY DEF TypeOK
  <2>2. boot = [pc |-> "collect", idx |-> boot.idx, todo |-> boot.todo, found |-> boot.found]
    BY DEF TypeOK
  <2>3. boot' = [pc |-> "collect", idx |-> boot.idx + 1,
                 todo |-> boot.todo \ {r}, found |-> boot.found \cup {new}]
    BY <1>1, <2>2
  <2>4. boot.idx + 1 \in Nat /\ boot.todo \ {r} \in SUBSET Rooms
        /\ boot.found \cup {new} \in SUBSET InviteEntry
    BY <1>2, <2>1
  <2> HIDE DEF new, CollectOne, IInv
  <2>5. QED
    BY <2>3, <2>4
<1> HIDE DEF new
<1>4. TypeOK'
  BY <1>3 DEF TypeOK
<1>5. /\ counter \in Nat /\ boot.idx \in Nat /\ counter <= boot.idx
      /\ \A p \in boot.found : /\ p.idx \in Nat /\ counter < p.idx
                               /\ p.idx <= boot.idx /\ p.room \notin boot.todo
  BY DEF TypeOK, BootInv, InviteEntry
<1>6. \A p, q \in boot'.found : p.idx = q.idx \/ p.room = q.room => p = q
  BY <1>2, <1>3, <1>5 DEF BootInv
<1>7. \A p \in boot'.found : /\ counter < p.idx /\ p.idx <= boot'.idx
                             /\ p.room \notin boot'.todo
  BY <1>2, <1>3, <1>5
<1>8. SyncIdle'
  BY DEF BootInv, SyncIdle
<1>9. BootInv'
  BY <1>3, <1>5, <1>6, <1>7, <1>8 DEF BootInv
<1>10. GreetInv'
  BY <1>3 DEF GreetInv
<1>11. QED
  BY <1>4, <1>9, <1>10 DEF HandlerInv, PromptNamesOneRoom, OnePendingPerRoom, Invite

LEMMA CollectStoreKeeps == ASSUME IInv, CollectStore PROVE IInv'
<1> USE DEF IInv, CollectStore, matrix, command
<1>1. /\ counter \in Nat /\ boot.idx \in Nat /\ counter <= boot.idx
      /\ \A p \in boot.found : p.idx \in Nat /\ counter < p.idx /\ p.idx <= boot.idx
  BY DEF TypeOK, BootInv, InviteEntry
<1>2. \A p \in prompts \cup greeter.todo : p.idx \in Nat /\ p.idx < counter
  BY DEF TypeOK, InviteEntry
<1>3. boot'.pc = "prompt" /\ boot'.found = boot.found
  BY DEF TypeOK
<1>4. TypeOK'
  <2>1. \A p \in pending' \cup prompts' \cup greeter'.todo : p.idx < counter'
    BY <1>1, <1>2
  <2>2. QED
    BY <1>1, <2>1 DEF TypeOK
<1>5. \A p, q \in boot.found : p.idx = q.idx \/ p.room = q.room => p = q
  BY DEF BootInv
<1>6. \A p \in boot.found : p.idx < counter' /\ \A q \in prompts : p.idx # q.idx
  BY <1>1, <1>2
<1>7. SyncIdle /\ SyncIdle'
  BY DEF BootInv, SyncIdle
<1>8. BootInv'
  BY <1>3, <1>5, <1>6, <1>7 DEF BootInv
<1>9. HandlerInv'
  BY <1>7 DEF HandlerInv, SyncIdle, HandlerIdle
<1>10. PromptNamesOneRoom' /\ OnePendingPerRoom'
  BY <1>5, <1>6 DEF PromptNamesOneRoom, OnePendingPerRoom
<1>11. GreetInv'
  BY <1>3 DEF GreetInv
<1>12. QED
  BY <1>4, <1>8, <1>9, <1>10, <1>11

LEMMA PromptFoundKeeps == ASSUME IInv, PromptFound PROVE IInv'
<1> USE DEF IInv, PromptFound, matrix, command
<1>1. ASSUME NEW p \in boot.found, prompts' = prompts \cup {p},
             boot' = [boot EXCEPT !.found = @ \ {p}]
      PROVE  IInv'
  <2>1. /\ boot'.pc = "prompt" /\ boot'.found = boot.found \ {p}
        /\ boot' \in [pc : {"first", "synced", "collect", "prompt", "forever"},
                      idx : Nat, todo : SUBSET Rooms, found : SUBSET InviteEntry]
    BY <1>1 DEF TypeOK
  <2>2. TypeOK'
    BY <1>1, <2>1 DEF TypeOK, BootInv
  <2>3. BootInv'
    BY <1>1, <2>1 DEF BootInv, SyncIdle
  <2>4. PromptNamesOneRoom'
    BY <1>1 DEF PromptNamesOneRoom, BootInv
  <2>5. HandlerInv' /\ OnePendingPerRoom'
    BY <1>1 DEF HandlerInv, OnePendingPerRoom, Invite
  <2>6. GreetInv'
    BY <1>1, <2>1 DEF GreetInv
  <2>7. QED
    BY <2>2, <2>3, <2>4, <2>5, <2>6
<1>2. ASSUME boot.found = {}, boot' = [boot EXCEPT !.pc = "forever"], UNCHANGED prompts
      PROVE  IInv'
  <2>1. /\ boot'.pc = "forever" /\ boot'.found = {}
        /\ boot' \in [pc : {"first", "synced", "collect", "prompt", "forever"},
                      idx : Nat, todo : SUBSET Rooms, found : SUBSET InviteEntry]
    BY <1>2 DEF TypeOK
  <2>2. TypeOK' /\ BootInv'
    BY <1>2, <2>1 DEF TypeOK, BootInv
  <2>3. GreetInv'
    BY <1>2, <2>1 DEF GreetInv
  <2>4. QED
    BY <1>2, <2>2, <2>3 DEF HandlerInv, PromptNamesOneRoom, OnePendingPerRoom, Invite
<1>3. QED
  BY <1>1, <1>2

LEMMA GreetStartKeeps == ASSUME IInv, GreetStart PROVE IInv'
<1> USE DEF IInv, GreetStart, matrix, syncing, command
<1>1. greeter' = [pc |-> "run", todo |-> pending]
  OBVIOUS
<1>2. TypeOK'
  BY <1>1 DEF TypeOK
<1>3. GreetInv'
  BY <1>1 DEF GreetInv
<1>4. QED
  BY <1>2, <1>3 DEF HandlerInv, BootInv, SyncIdle, PromptNamesOneRoom, OnePendingPerRoom, Invite

\* The copy may be older than the list: what it holds lies below the counter,
\* so an index the bootstrap is still collecting is not in it.
LEMMA GreetPromptKeeps == ASSUME IInv, GreetPrompt PROVE IInv'
<1> USE DEF IInv, GreetPrompt, matrix, syncing, command
<1>1. PICK p \in greeter.todo : /\ prompts' = prompts \cup {p}
                                /\ greeter' = [greeter EXCEPT !.todo = @ \ {p}]
  OBVIOUS
<1>2. /\ greeter' = [pc |-> greeter.pc, todo |-> greeter.todo \ {p}]
      /\ p \in InviteEntry /\ p.idx < counter /\ p.idx \in Nat /\ counter \in Nat
  BY <1>1 DEF TypeOK, InviteEntry
<1>3. TypeOK'
  BY <1>1, <1>2 DEF TypeOK
<1>4. GreetInv'
  BY <1>1, <1>2 DEF GreetInv
<1>5. \A q \in prompts \cup pending \cup boot.found : p.idx = q.idx => p.room = q.room
  <2>1. CASE boot.pc = "prompt"
    BY <2>1 DEF GreetInv, BootInv, PromptNamesOneRoom
  <2>2. CASE boot.pc = "collect"
    <3>1. \A q \in boot.found : q.idx \in Nat /\ p.idx < q.idx
      BY <1>2, <2>2 DEF BootInv, TypeOK, InviteEntry
    <3>2. p \in prompts
      BY <3>1 DEF GreetInv
    <3>3. QED
      BY <3>1, <3>2, <1>2 DEF PromptNamesOneRoom
  <2>3. CASE boot.pc \notin {"collect", "prompt"}
    BY <2>3 DEF GreetInv, BootInv, PromptNamesOneRoom
  <2>4. QED
    BY <2>1, <2>2, <2>3
<1>6. PromptNamesOneRoom'
  BY <1>1, <1>5 DEF PromptNamesOneRoom
<1>7. BootInv'
  BY <1>1, <1>5 DEF BootInv, SyncIdle
<1>8. HandlerInv' /\ OnePendingPerRoom'
  BY <1>1 DEF HandlerInv, OnePendingPerRoom, Invite
<1>9. QED
  BY <1>3, <1>4, <1>6, <1>7, <1>8

LEMMA CommandKeeps ==
    ASSUME IInv, NEW n,
           NoMatch(n) \/ TakeInvite(n, "accept") \/ TakeInvite(n, "decline")
    PROVE  IInv'
<1> USE DEF IInv, NoMatch, TakeInvite, Answer, matrix, syncing
<1>1. pending' \subseteq pending
  OBVIOUS
<1>2. /\ reader' \in [pc : {"idle", "accept", "decline"}, room : Rooms \cup {NoRoom}]
      /\ reader'.pc # "idle" => reader'.room \in Rooms
  <2>1. CASE NoMatch(n)
    BY <2>1 DEF TypeOK
  <2>2. ASSUME NEW how \in {"accept", "decline"}, TakeInvite(n, how)
        PROVE  /\ reader' \in [pc : {"idle", "accept", "decline"}, room : Rooms \cup {NoRoom}]
               /\ reader'.pc # "idle" => reader'.room \in Rooms
    <3>1. PICK p \in pending : reader' = [pc |-> how, room |-> p.room]
      BY <2>2 DEF Matching
    <3>2. p.room \in Rooms
      BY DEF TypeOK, InviteEntry
    <3>3. QED
      BY <3>1, <3>2
  <2>3. QED
    BY <2>1, <2>2
<1>3. prompts' = prompts /\ UNCHANGED <<member, store, arriving, handler, boot, greeter, counter>>
      /\ failed' = failed
  OBVIOUS
<1> HIDE DEF NoMatch, TakeInvite
<1>4. TypeOK'
  BY <1>1, <1>2, <1>3 DEF TypeOK
<1>5. BootInv' /\ HandlerInv'
  BY <1>1, <1>3 DEF BootInv, HandlerInv, SyncIdle, Invite
<1>6. PromptNamesOneRoom' /\ OnePendingPerRoom'
  BY <1>1, <1>3 DEF PromptNamesOneRoom, OnePendingPerRoom
<1>7. GreetInv'
  BY <1>1, <1>3 DEF GreetInv
<1>8. QED
  BY <1>4, <1>5, <1>6, <1>7

LEMMA RequestKeeps == ASSUME IInv, Request PROVE IInv'
<1> USE DEF IInv, Request, JoinRoom, LeaveRoom, Answered, AnswerFails,
            ReaderIdle, matrix, syncing
<1>1. reader.room \in Rooms
  BY DEF TypeOK
<1>2. TypeOK'
  BY <1>1 DEF TypeOK
<1>3. QED
  BY <1>2 DEF GreetInv, HandlerInv, BootInv, SyncIdle, PromptNamesOneRoom, OnePendingPerRoom, Invite

LEMMA StutterKeeps == ASSUME IInv, UNCHANGED vars PROVE IInv'
BY DEF IInv, vars, matrix, syncing, command, TypeOK, GreetInv, HandlerInv, BootInv, SyncIdle,
       PromptNamesOneRoom, OnePendingPerRoom, Invite

LEMMA NextKeeps == IInv /\ [Next]_vars => IInv'
<1> SUFFICES ASSUME IInv, [Next]_vars PROVE IInv'
  OBVIOUS
<1>1. CASE Handler
  BY <1>1, HandleEventKeeps, HandlerPromptKeeps, HandlerPushKeeps DEF Handler
<1>2. CASE Sync
  BY <1>2, SyncResponseKeeps, SyncOnceFailsKeeps DEF Sync
<1>3. CASE Collect
  BY <1>3, CollectStartKeeps, CollectOneKeeps, CollectStoreKeeps, PromptFoundKeeps DEF Collect
<1>4. CASE Request
  BY <1>4, RequestKeeps
<1>5. CASE Commands
  BY <1>5, CommandKeeps DEF Commands
<1>6. CASE \E r \in Rooms : Invited(r)
  BY <1>6, InvitedKeeps
<1>7. CASE UNCHANGED vars
  BY <1>7, StutterKeeps
<1>8. CASE Greet
  BY <1>8, GreetStartKeeps, GreetPromptKeeps DEF Greet
<1>9. QED
  BY <1>1, <1>2, <1>3, <1>4, <1>5, <1>6, <1>7, <1>8 DEF Next

LEMMA Inductive == Spec => []IInv
BY InitIInv, NextKeeps, PTL DEF Spec

-----------------------------------------------------------------------------
\* The state of the invitations stays well typed (mod.rs 857-877, 1010-1138).
THEOREM TypeCorrect == Spec => []TypeOK
BY Inductive, PTL DEF IInv

\* Whatever index the client answers with, it names the room of the prompt
\* that showed it: neither list ever reuses an index for another room.
THEOREM IndexNamesOneRoom == Spec => []PromptNamesOneRoom
BY Inductive, PTL DEF IInv

\* The test for a pending invitation and the later push, with the client's
\* answers and the collected list between them, never enter a room twice.
THEOREM RoomPendsOnce == Spec => []OnePendingPerRoom
BY Inductive, PTL DEF IInv
=============================================================================
