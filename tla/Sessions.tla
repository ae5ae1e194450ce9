------------------------------- MODULE Sessions -------------------------------
(***************************************************************************)
(* Matrix logins and the session files they leave (src/src/matrix/         *)
(* client.rs login_or_restore, session.rs, state.rs, and matrix_auth of    *)
(* src/src/ircd/server.rs).                                                *)
(*                                                                         *)
(* Every account has one file, which holds its session sealed with the     *)
(* password of the IRC connection.  A connection that finds the file       *)
(* restores the session, one that does not logs in, which makes a device   *)
(* on the account, and writes the file in place.  The connections share    *)
(* nothing but the files.  One action is the code between two awaits, but  *)
(* a write has two steps, since it may be seen half done by others.        *)
(***************************************************************************)
EXTENDS Integers, FiniteSets

CONSTANTS
    Conns,       \* IRC connections
    Users,       \* localparts: the state key of a login
    Passwords,
    Secrets,     \* the passwords the accounts start with; NoPass: no account
    NoUser,
    NoPass,
    Faults,      \* subset of {"io", "crash"}
    MaxLogins,   \* bound: logins begun
    MaxChanges   \* bound: changes of a password

ASSUME SessionsAssumption ==
    /\ NoUser \notin Users /\ NoPass \notin Passwords
    /\ Secrets \in [Users -> Passwords \cup {NoPass}]
    /\ Faults \subseteq {"io", "crash"}
    /\ {MaxLogins, MaxChanges} \subseteq Nat

VARIABLES
    secret,    \* the homeserver: the password of each account
    devices,   \* the homeserver: the devices of each account
    file,      \* session.bin of each account
    conn,      \* per connection [pc, user, pass, dev, late]
    logins,    \* logins begun (bound)
    was,       \* history: the passwords each account has had
    saved,     \* history: the devices whose session was ever in the file
    spoilt     \* history: accounts whose file a crash or an error has spoilt

vars == <<secret, devices, file, conn, logins, was, saved, spoilt>>

server == <<secret, devices, was>>
disk   == <<file, saved, spoilt>>

NoDevice == 0

\* What is in a file: nothing yet, something that does not open, or a session.
Absent       == [is |-> "absent", dev |-> NoDevice, pass |-> NoPass]
Unreadable   == [is |-> "unreadable", dev |-> NoDevice, pass |-> NoPass]
Sealed(d, p) == [is |-> "sealed", dev |-> d, pass |-> p]

Idle == [pc |-> "idle", user |-> NoUser, pass |-> NoPass, dev |-> NoDevice, late |-> FALSE]

Init ==
    /\ secret = Secrets
    /\ devices = [u \in Users |-> {}]
    /\ file = [u \in Users |-> Absent]
    /\ conn = [c \in Conns |-> Idle]
    /\ logins = 0
    /\ was = [u \in Users |-> {Secrets[u]} \ {NoPass}]
    /\ saved = [u \in Users |-> {}] /\ spoilt = {}

UserOf(c) == conn[c].user
Goes(c, pc) == conn' = [conn EXCEPT ![c].pc = pc]
Ends(c) == conn' = [conn EXCEPT ![c] = Idle]

-----------------------------------------------------------------------------
\* The registration is complete: Bridge::connect under the timeout.
\* A device is numbered by the login that may make it.  `late` is history:
\* the account had a session by then.
Begin(c, u, p) ==
    /\ conn[c].pc = "idle" /\ logins < MaxLogins
    /\ logins' = logins + 1
    /\ conn' = [conn EXCEPT ![c] =
        [pc |-> "start", user |-> u, pass |-> p, dev |-> logins + 1, late |-> saved[u] # {}]]
    /\ UNCHANGED <<server, disk>>

\* A plausible bug: any password opens the file.
OpensAnyway(f, p) == f.is = "sealed"

\* unseal: the key is derived from the password, and the cipher authenticates.
Opens(f, p) == f.is = "sealed" /\ f.pass = p

\* A plausible bug: a file that does not open is taken for none.
FindFileOrLogin(c) ==
    /\ conn[c].pc = "start"
    /\ LET f == file[UserOf(c)] IN
       \/ ~Opens(f, conn[c].pass) /\ Goes(c, "login")
       \/ /\ Opens(f, conn[c].pass)
          /\ conn' = [conn EXCEPT ![c].pc = "restore", ![c].dev = f.dev]
    /\ UNCHANGED <<server, disk, logins>>

\* Whether there is a file decides; one that does not open ends the login.
FindFile(c) ==
    /\ conn[c].pc = "start"
    /\ LET f == file[UserOf(c)] IN
       \/ f = Absent /\ Goes(c, "login")
       \/ /\ Opens(f, conn[c].pass)
          /\ conn' = [conn EXCEPT ![c].pc = "restore", ![c].dev = f.dev]
       \/ f # Absent /\ ~Opens(f, conn[c].pass) /\ Ends(c)
    /\ UNCHANGED <<server, disk, logins>>

\* build_client and restore_session: the homeserver is not asked whether the
\* device, or the password, is still good.
Restored(c) ==
    /\ conn[c].pc = "restore"
    /\ Goes(c, "on")
    /\ UNCHANGED <<server, disk, logins>>

\* login_username: the homeserver makes a device, or refuses.
Accepted(c) ==
    /\ conn[c].pc = "login"
    /\ secret[UserOf(c)] = conn[c].pass
    /\ devices' = [devices EXCEPT ![UserOf(c)] = @ \cup {conn[c].dev}]
    /\ Goes(c, "made")
    /\ UNCHANGED <<secret, was, disk, logins>>

Refused(c) ==
    /\ conn[c].pc = "login"
    /\ secret[UserOf(c)] # conn[c].pass
    /\ Ends(c)
    /\ UNCHANGED <<server, disk, logins>>

\* session::save: fs::write truncates, then writes.
BeginSave(c) ==
    /\ conn[c].pc = "made"
    /\ file' = [file EXCEPT ![UserOf(c)] = Unreadable]
    /\ Goes(c, "save")
    /\ UNCHANGED <<server, saved, spoilt, logins>>

\* A write over one that came after this one's truncation may mix with it.
FinishSave(c) ==
    /\ conn[c].pc = "save"
    /\ \/ /\ file' = [file EXCEPT ![UserOf(c)] = Sealed(conn[c].dev, conn[c].pass)]
          /\ saved' = [saved EXCEPT ![UserOf(c)] = @ \cup {conn[c].dev}]
       \/ /\ file[UserOf(c)].is = "sealed"
          /\ file' = [file EXCEPT ![UserOf(c)] = Unreadable]
          /\ UNCHANGED saved
    /\ Goes(c, "on")
    /\ UNCHANGED <<server, spoilt, logins>>

\* What a write that does not end leaves of the files.
Spoils(users) ==
    /\ spoilt' = spoilt \cup users
    /\ \E mixed \in SUBSET users :
        file' = [u \in Users |-> IF u \in mixed THEN Unreadable ELSE file[u]]
    /\ UNCHANGED saved

FailSave(c) ==
    /\ "io" \in Faults
    /\ conn[c].pc = "save"
    /\ Spoils({UserOf(c)})
    /\ Ends(c)
    /\ UNCHANGED <<server, logins>>

-----------------------------------------------------------------------------
\* The client leaves.
Leave(c) ==
    /\ conn[c].pc = "on"
    /\ Ends(c)
    /\ UNCHANGED <<server, disk, logins>>

\* A plausible bug: the request of a login has no limit.
GivesUpRestoring(c) ==
    /\ conn[c].pc \in {"restore", "made"}
    /\ Ends(c)
    /\ UNCHANGED <<server, disk, logins>>

\* A plausible bug: the file is written behind an await.
GivesUpSaving(c) ==
    /\ conn[c].pc \in {"restore", "login", "made", "save"}
    /\ Ends(c)
    /\ UNCHANGED <<server, disk, logins>>

\* A request fails, or 120 s are over and the login is dropped where it waits.
\* When it waits for the answer of login_username, the device is made already.
GivesUp(c) ==
    /\ conn[c].pc \in {"restore", "login", "made"}
    /\ Ends(c)
    /\ UNCHANGED <<server, disk, logins>>

\* The process ends between any two steps, and starts again.
Crash ==
    /\ "crash" \in Faults
    /\ \E c \in Conns : conn[c].pc # "idle"
    /\ Spoils({UserOf(c) : c \in {d \in Conns : conn[d].pc = "save"}})
    /\ conn' = [c \in Conns |-> Idle]
    /\ UNCHANGED <<server, logins>>

\* The user changes the password of the account with another client.
ChangePassword(u) ==
    /\ Cardinality(was[u]) \in 1 .. MaxChanges
    /\ \E p \in Passwords \ was[u] :
        /\ secret' = [secret EXCEPT ![u] = p]
        /\ was' = [was EXCEPT ![u] = @ \cup {p}]
    /\ UNCHANGED <<devices, disk, conn, logins>>

-----------------------------------------------------------------------------
Local(c) == FindFile(c) \/ BeginSave(c) \/ FinishSave(c)

LoginStep(c) ==
    \/ Local(c) \/ Restored(c) \/ Accepted(c) \/ Refused(c)
    \/ FailSave(c) \/ Leave(c) \/ GivesUp(c)

Environment == Crash \/ \E u \in Users : ChangePassword(u)

Next ==
    \/ \E c \in Conns : LoginStep(c) \/ \E u \in Users, p \in Passwords : Begin(c, u, p)
    \/ Environment

\* The code between two awaits goes on, and the timer of a login runs out; the
\* homeserver need not answer.
Fairness == \A c \in Conns : WF_vars(Local(c)) /\ WF_vars(GivesUp(c))

Spec == Init /\ [][Next]_vars /\ Fairness

-----------------------------------------------------------------------------
\* A connection comes up for an account only with a password the account has,
\* or had: the homeserver checked it, or it opens a file that was sealed with
\* one the homeserver checked (client.rs 61-118).
OnlyPasswordHolders ==
    \A c \in Conns : conn[c].pc \in {"restore", "save", "on"} => conn[c].pass \in was[UserOf(c)]

\* README.md:115 "no device spam": devices are made by first logins only.  A
\* login begun after the account's session was once in its file makes none,
\* whatever became of the file, and whoever else logs in (client.rs 83-119).
FirstLoginsMakeDevices ==
    [][\A u \in Users : devices'[u] # devices[u] =>
        \E c \in Conns : UserOf(c) = u /\ conn[c].pc = "login" /\ ~conn[c].late]_vars

\* The file of an account opens with the password it was sealed with, unless
\* it is being written, a write was cut by a crash or an error, or two first
\* logins wrote it: a timeout, a failing request or a wrong password leave it
\* as it is (session.rs 22-36, server.rs 1977-1997).
SessionStays ==
    \A u \in Users : file[u] = Unreadable =>
        \/ u \in spoilt
        \/ \E c \in Conns : UserOf(c) = u /\ conn[c].pc = "save"
        \/ Cardinality(devices[u]) > 1

\* A login ends, with or without a session, although the homeserver may never
\* answer (server.rs 1977).
LoginEnds ==
    \A c \in Conns : conn[c].pc # "idle" ~> conn[c].pc \in {"idle", "on"}
=============================================================================
