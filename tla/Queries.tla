------------------------------ MODULE Queries -------------------------------
(***************************************************************************)
(* A line to a nick, on its way to a DM (src/src/bridge/mod.rs,            *)
(* send_query, resolve_nick, ensure_room_mapping; spawned by               *)
(* relay_query_from_irc of src/src/ircd/server.rs).  Every line has a task *)
(* of its own, and between the steps of one the others run, the room is    *)
(* left, or a sync brings what it was waiting for.  The table of rooms is  *)
(* that of RoomMaps, with the saves inside its operations.                 *)
(*                                                                         *)
(* A connection ends here with its last task: tasks that outlive it work   *)
(* on a table of their own, as a second connection does.                   *)
(***************************************************************************)
EXTENDS RoomMaps

CONSTANTS
    Conn,      \* the connection the lines are written on
    Tasks,     \* tasks that send a line or map a room
    Users,     \* the other Matrix users
    NickOf,    \* NickOf[u]: the localpart of u
    Nobody,    \* "query", the nick of a DM with nobody in it
    NoUser,    \* instead of a user, the group in a room that is no DM
    Unborn,    \* instead of a user, that the room does not exist yet
    NoRoom,
    Targets,   \* nicks the client writes to
    MaxLines,  \* bound: lines the client writes
    MaxMoves   \* bound: joins, leaves and syncs of m.direct

ASSUME QueriesAssumption ==
    /\ Conn \in Conns
    /\ NickOf \in [Users -> Nicks] /\ Nobody \in Nicks
    /\ NoUser \notin Users /\ Unborn \notin Users /\ NoUser # Unborn
    /\ NoRoom \notin Rooms
    /\ Targets \subseteq Queries
    /\ {MaxLines, MaxMoves} \subseteq Nat

VARIABLES
    party,    \* party[r]: the user r is a DM with, NoUser for a group of all
    arrived,  \* the DMs the other party has joined
    direct,   \* the rooms m.direct names, as far as the syncs have brought it
    task,     \* task[t]: the line t sends, or the room it maps
    lines,    \* lines written so far (bound)
    moves,    \* what happened in Matrix so far (bound)
    sent      \* history: [nick, room] of the lines that were sent

matrix == <<party, arrived, direct, moves>>
qvars == <<vars, matrix, task, lines, sent>>

\* known is history: the DMs with a user of that nick the store knew as DMs
\* when the line was written.
Idle == [pc |-> "idle", nick |-> NoQuery, user |-> NoUser, room |-> NoRoom,
         as |-> NoQuery, known |-> {}]

Goes(t, to) == task' = [task EXCEPT ![t] = to]

DmsWith(u) == {r \in live \cap direct : party[r] = u}
Named(nick) == {u \in Users : Fold(NickOf[u]) = Fold(nick)}

\* The joined member that is not the account itself: nobody before the
\* invited user has joined.
OtherNick(r) == IF r \in arrived THEN NickOf[party[r]] ELSE Nobody

QInit ==
    /\ Init
    /\ party = [r \in Rooms |-> Unborn]
    /\ arrived = {}
    /\ direct = {}
    /\ task = [t \in Tasks |-> Idle]
    /\ lines = 0 /\ moves = 0
    /\ sent = {}

-----------------------------------------------------------------------------
\* relay_query_from_irc
WriteLine(t, nick) ==
    /\ up[Conn]
    /\ lines < MaxLines
    /\ task[t] = Idle
    /\ Goes(t, [Idle EXCEPT !.pc = "find", !.nick = nick,
                            !.known = UNION {DmsWith(u) : u \in Named(nick)}])
    /\ lines' = lines + 1
    /\ UNCHANGED <<vars, matrix, sent>>

\* The bootstrap, the message handler and an accepted invitation map a room.
MapRoom(t, r) ==
    /\ up[Conn]
    /\ task[t] = Idle
    /\ r \in live
    /\ Goes(t, [Idle EXCEPT !.pc = "label", !.room = r])
    /\ UNCHANGED <<vars, matrix, lines, sent>>

\* send_query: a room mapped to the nick wins, if it is joined.
FindMapped(t) ==
    /\ task[t].pc = "find"
    /\ Locked(Conn)
    /\ LET hits == {e.room : e \in GetByQuery(rooms[Conn], task[t].nick)}
       IN  \/ \E r \in hits \cap live : Goes(t, [task[t] EXCEPT !.pc = "label", !.room = r])
           \/ /\ hits = {} \/ ~(hits \subseteq live)
              /\ Goes(t, [task[t] EXCEPT !.pc = "resolve"])
    /\ UNCHANGED <<vars, matrix, lines, sent>>

\* A plausible bug: the first member of a room is taken, whatever its nick.
ResolvesAnyone(t, u) ==
    /\ task[t].nick # NoQuery
    /\ \E r \in live : party[r] = NoUser \/ (party[r] = u /\ r \in arrived)

\* resolve_nick: a joined member of some joined room.
Resolves(t, u) ==
    /\ u \in Named(task[t].nick)
    /\ \E r \in live : party[r] = NoUser \/ (party[r] = u /\ r \in arrived)

\* A plausible bug: a DM is made without looking for one.
FindDmCreates(t) ==
    /\ task[t].pc = "resolve"
    /\ \E u \in Users :
        /\ Resolves(t, u)
        /\ Goes(t, [task[t] EXCEPT !.pc = "create", !.user = u])
    /\ UNCHANGED <<vars, matrix, lines, sent>>

\* Then the DM with the user, if the store knows one; otherwise one is asked
\* for.
FindDm(t) ==
    /\ task[t].pc = "resolve"
    /\ \E u \in Users :
        /\ Resolves(t, u)
        /\ \/ \E r \in DmsWith(u) :
                Goes(t, [task[t] EXCEPT !.pc = "label", !.user = u, !.room = r])
           \/ /\ DmsWith(u) = {}
              /\ Goes(t, [task[t] EXCEPT !.pc = "create", !.user = u])
    /\ UNCHANGED <<vars, matrix, lines, sent>>

NotResolved(t) ==
    /\ task[t].pc = "resolve"
    /\ \A u \in Users : ~Resolves(t, u)
    /\ Goes(t, Idle)
    /\ UNCHANGED <<vars, matrix, lines, sent>>

\* The homeserver makes the room.
Created(t) ==
    /\ task[t].pc = "create"
    /\ \E r \in Rooms :
        /\ party[r] = Unborn
        /\ JoinRoom(r)
        /\ party' = [party EXCEPT ![r] = task[t].user]
        /\ Goes(t, [task[t] EXCEPT !.pc = "label", !.room = r])
    /\ UNCHANGED <<arrived, direct, moves, lines, sent>>

\* Or fails to; or the answer is lost, and the room comes with a sync.
NotCreated(t) ==
    /\ task[t].pc = "create"
    /\ Goes(t, Idle)
    /\ UNCHANGED <<vars, matrix, lines, sent>>

\* ensure_room_mapping: whether the room is a DM, and with whom, is found out
\* before the table is locked.
Label(t) ==
    /\ task[t].pc = "label"
    /\ Goes(t, [task[t] EXCEPT !.pc = "map",
                  !.as = IF task[t].room \in direct THEN OtherNick(task[t].room) ELSE NoQuery])
    /\ UNCHANGED <<vars, matrix, lines, sent>>

MapAs(r, nick) ==
    IF nick = NoQuery
    THEN \E base \in Bases, topic \in Topics :
            EnsureKnown(Conn, r, topic) \/ EnsureNew(Conn, r, base, topic)
    ELSE /\ EnsureQueryKnown(Conn, r, nick) \/ EnsureQueryNew(Conn, r, nick)
         /\ UNCHANGED shown

Map(t) ==
    /\ task[t].pc = "map"
    /\ Locked(Conn)
    /\ MapAs(task[t].room, task[t].as)
    /\ Goes(t, IF task[t].nick = NoQuery THEN Idle ELSE [task[t] EXCEPT !.pc = "send"])
    /\ UNCHANGED <<matrix, lines, sent>>

\* send_room_message, when the homeserver takes the event.
Send(t) ==
    /\ task[t].pc = "send"
    /\ sent' = sent \cup {[nick |-> task[t].nick, room |-> task[t].room]}
    /\ Goes(t, Idle)
    /\ UNCHANGED <<vars, matrix, lines>>

SendFails(t) ==
    /\ task[t].pc = "send"
    /\ Goes(t, Idle)
    /\ UNCHANGED <<vars, matrix, lines, sent>>

-----------------------------------------------------------------------------
\* Matrix: rooms are made and joined, here or by others; parties join; m.direct
\* comes with a sync.

Moves == moves < MaxMoves /\ moves' = moves + 1

NewRoom(r) ==
    /\ Moves
    /\ party[r] = Unborn
    /\ JoinRoom(r)
    /\ \E u \in Users \cup {NoUser} : party' = [party EXCEPT ![r] = u]
    /\ arrived' = arrived \cup {s \in {r} : party'[r] # NoUser}
    /\ UNCHANGED <<direct, task, lines, sent>>

Rejoin(r) ==
    /\ Moves
    /\ party[r] # Unborn
    /\ JoinRoom(r)
    /\ UNCHANGED <<party, arrived, direct, task, lines, sent>>

Leave(r) ==
    /\ Moves
    /\ LeaveRoom(r)
    /\ UNCHANGED <<party, arrived, direct, task, lines, sent>>

PartyJoins(r) ==
    /\ Moves
    /\ r \in live \ arrived
    /\ party[r] \in Users
    /\ arrived' = arrived \cup {r}
    /\ UNCHANGED <<vars, party, direct, task, lines, sent>>

PartyLeaves(r) ==
    /\ Moves
    /\ r \in arrived
    /\ arrived' = arrived \ {r}
    /\ UNCHANGED <<vars, party, direct, task, lines, sent>>

DirectComes(r) ==
    /\ Moves
    /\ r \in live \ direct
    /\ party[r] \in Users
    /\ direct' = direct \cup {r}
    /\ UNCHANGED <<vars, party, arrived, task, lines, sent>>

\* The connection and its table.
Connection(c) ==
    /\ Connect(c) \/ (Close(c) /\ \A t \in Tasks : task[t] = Idle)
       \/ PruneTo(c) \/ FinishSave(c) \/ FailSave(c)
    /\ UNCHANGED <<matrix, task, lines, sent>>

LineStep(t) ==
    \/ FindMapped(t) \/ FindDm(t) \/ NotResolved(t) \/ Created(t) \/ NotCreated(t)
    \/ Label(t) \/ Map(t) \/ Send(t) \/ SendFails(t)

QNext ==
    \/ \E t \in Tasks : LineStep(t)
    \/ \E t \in Tasks, nick \in Targets : WriteLine(t, nick)
    \/ \E t \in Tasks, r \in Rooms : MapRoom(t, r)
    \/ \E r \in Rooms : NewRoom(r) \/ Rejoin(r) \/ Leave(r)
                        \/ PartyJoins(r) \/ PartyLeaves(r) \/ DirectComes(r)
    \/ \E c \in Conns : Connection(c)

QSpec == QInit /\ [][QNext]_qvars

-----------------------------------------------------------------------------
\* Names that are no localpart: those a nick is told apart by, and `query`.
MadeUp(nick) == Fold(nick) \notin {Fold(NickOf[u]) : u \in Users}

\* A line to a nick reaches a user of that nick, and nobody else: whatever the
\* table was refreshed with and whoever joined or left meanwhile, it is sent
\* to a DM with one, unless the table made the name up (mod.rs send_query,
\* ensure_room_mapping).
LineReachesNick ==
    \A l \in sent : MadeUp(l.nick) \/ party[l.room] \in Named(l.nick)

\* A second DM with a user is made only by lines that race the sync ("creating
\* the DM if this is the first contact", mod.rs:904-905): of the DMs the store
\* knew when a line was written, none is with the user the line asks a room
\* for, unless it was left.
SecondDmByRaceOnly ==
    [][\A t \in Tasks : task[t].pc # "create" /\ task'[t].pc = "create" =>
         \A r \in task[t].known \cap live : party[r] # task'[t].user]_qvars
=============================================================================
