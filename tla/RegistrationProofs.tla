------------------------- MODULE RegistrationProofs -------------------------
(***************************************************************************)
(* Proofs about Sessions: who gets in, which logins make devices, and what *)
(* spoils a session file, for any accounts, connections and passwords.     *)
(*                                                                         *)
(* And about Registration in front of it: that its steps are steps of      *)
(* Sessions, so that what is proved there holds here, whose credentials    *)
(* are used, and which capabilities the two sides agree on.                *)
(***************************************************************************)
EXTENDS Registration, FiniteSetTheorems, WellFoundedInduction, TLAPS

Phase == {"idle", "start", "restore", "login", "made", "save", "on"}

Connection == [pc : Phase, user : Users \cup {NoUser}, pass : Passwords \cup {NoPass},
               dev : Int, late : BOOLEAN]

File == [is : {"absent", "unreadable", "sealed"}, dev : Int, pass : Passwords \cup {NoPass}]

\* Of the types, what the proofs need: the numbers of devices do not matter.
Shape ==
    /\ secret \in [Users -> Passwords \cup {NoPass}]
    /\ was \in [Users -> SUBSET Passwords]
    /\ saved \in [Users -> SUBSET Int]
    /\ file \in [Users -> File]
    /\ conn \in [Conns -> Connection]
    /\ logins \in Nat
    /\ \A c \in Conns : conn[c].pc # "idle" => conn[c].user \in Users /\ conn[c].pass \in Passwords

\* A password in use was checked: the homeserver's is one the account had,
\* the file's was, and so was that of a connection past its check.
Checked ==
    /\ \A u \in Users : secret[u] \in was[u] \cup {NoPass}
    /\ \A u \in Users : file[u].is = "sealed" => file[u].pass \in was[u]
    /\ \A c \in Conns : conn[c].pc \in {"restore", "made", "save", "on"} =>
                            conn[c].pass \in was[conn[c].user]

\* An account whose session was saved has a file, and a login that began after
\* that finds it, so that it is in no phase of a first login.
LateRestores ==
    /\ \A u \in Users : saved[u] # {} => file[u].is # "absent"
    /\ \A c \in Conns : conn[c].pc # "idle" /\ conn[c].late =>
            /\ conn[c].pc \notin {"login", "made", "save"}
            /\ saved[conn[c].user] # {}
    /\ \A c \in Conns : conn[c].pc = "save" => file[conn[c].user].is # "absent"

IInv == Shape /\ Checked /\ LateRestores

-----------------------------------------------------------------------------
\* A connection that ends, and one that goes on, stay connections; the others
\* are as they were.
LEMMA IdleShape == Idle \in Connection
BY DEF Connection, Idle, Phase, NoDevice

LEMMA EndsShape ==
    ASSUME conn \in [Conns -> Connection], NEW c \in Conns, Ends(c)
    PROVE  /\ conn' \in [Conns -> Connection]
           /\ conn'[c] = Idle /\ conn'[c].pc = "idle"
           /\ \A d \in Conns : d # c => conn'[d] = conn[d]
<1>1. conn' = [conn EXCEPT ![c] = Idle]
  BY DEF Ends
<1>2. conn'[c] = Idle
  BY <1>1
<1>3. Idle.pc = "idle"
  BY DEF Idle
<1>4. QED
  BY <1>1, <1>2, <1>3, IdleShape

LEMMA GoesShape ==
    ASSUME conn \in [Conns -> Connection], NEW c \in Conns, NEW pc \in Phase, Goes(c, pc)
    PROVE  /\ conn' \in [Conns -> Connection]
           /\ conn'[c].pc = pc /\ conn'[c].user = conn[c].user
           /\ conn'[c].pass = conn[c].pass /\ conn'[c].late = conn[c].late
           /\ conn'[c].dev = conn[c].dev
           /\ \A d \in Conns : d # c => conn'[d] = conn[d]
BY DEF Goes, Connection

LEMMA InitHolds == Init => IInv
<1> SUFFICES ASSUME Init PROVE IInv
  OBVIOUS
<1>1. conn \in [Conns -> Connection] /\ \A c \in Conns : conn[c].pc = "idle"
  BY IdleShape DEF Init, Idle
<1>2. Absent \in File /\ Absent.is = "absent"
  BY DEF Absent, File, NoDevice
<1>3. \A u \in Users : file[u] = Absent /\ saved[u] = {} /\ was[u] = {Secrets[u]} \ {NoPass}
  BY DEF Init
<1>4. Shape
  BY <1>1, <1>2, SessionsAssumption DEF Init, Shape
<1>5. Checked
  BY <1>1, <1>2, <1>3, SessionsAssumption DEF Init, Checked
<1>6. LateRestores
  BY <1>1, <1>2, <1>3 DEF LateRestores
<1>7. QED
  BY <1>4, <1>5, <1>6 DEF IInv

-----------------------------------------------------------------------------
\* One lemma for each step of a login.
LEMMA BeginKeeps ==
    ASSUME IInv, NEW c \in Conns, NEW u \in Users, NEW p \in Passwords, Begin(c, u, p)
    PROVE  IInv'
<1> DEFINE new == [pc |-> "start", user |-> u, pass |-> p, dev |-> logins + 1,
                   late |-> saved[u] # {}]
<1>1. /\ conn' = [conn EXCEPT ![c] = new] /\ logins' = logins + 1
      /\ UNCHANGED <<secret, was, file, saved>>
  BY DEF Begin, server, disk
<1>2. new \in Connection
  BY DEF IInv, Shape, Connection, Phase
<1>3. conn' \in [Conns -> Connection] /\ conn'[c] = new /\ \A d \in Conns : d # c => conn'[d] = conn[d]
  BY <1>1, <1>2 DEF IInv, Shape
<1>4. conn'[c].pc = "start" /\ conn'[c].user = u /\ conn'[c].pass = p /\ conn'[c].late = (saved[u] # {})
  BY <1>3
<1> HIDE DEF new
<1>5. Shape'
  BY <1>1, <1>3, <1>4 DEF IInv, Shape
<1>6. Checked'
  BY <1>1, <1>3, <1>4 DEF IInv, Checked
<1>7. LateRestores'
  BY <1>1, <1>3, <1>4 DEF IInv, LateRestores
<1>8. QED
  BY <1>5, <1>6, <1>7 DEF IInv

\* Steps that end a connection and leave the rest alone.
LEMMA EndKeeps ==
    ASSUME IInv, NEW c \in Conns, Ends(c), UNCHANGED <<secret, was, file, saved, logins>>
    PROVE  IInv'
<1>1. /\ conn' \in [Conns -> Connection] /\ conn'[c].pc = "idle"
      /\ \A d \in Conns : d # c => conn'[d] = conn[d]
  BY EndsShape DEF IInv, Shape
<1>2. Shape'
  BY <1>1 DEF IInv, Shape
<1>3. Checked'
  BY <1>1 DEF IInv, Checked
<1>4. LateRestores'
  BY <1>1 DEF IInv, LateRestores
<1>5. QED
  BY <1>2, <1>3, <1>4 DEF IInv

LEMMA FindFileKeeps ==
    ASSUME IInv, NEW c \in Conns, FindFile(c)
    PROVE  IInv'
<1> DEFINE f == file[conn[c].user]
<1>1. conn[c].pc = "start" /\ UNCHANGED <<secret, was, file, saved, logins>>
  BY DEF FindFile, server, disk
<1>2. conn[c].user \in Users /\ conn[c].pass \in Passwords /\ f \in File
  BY <1>1 DEF IInv, Shape
<1>3. CASE f = Absent /\ Goes(c, "login")
  <2>1. /\ conn' \in [Conns -> Connection]
        /\ conn'[c].pc = "login" /\ conn'[c].user = conn[c].user
        /\ conn'[c].pass = conn[c].pass /\ conn'[c].late = conn[c].late
        /\ \A d \in Conns : d # c => conn'[d] = conn[d]
    BY <1>3, GoesShape DEF IInv, Shape, Phase
  <2>2. f.is = "absent" 
    BY <1>3 DEF Absent
  <2>3. saved[conn[c].user] = {} /\ conn[c].late = FALSE
    BY <1>1, <1>2, <2>2 DEF IInv, LateRestores, Shape, Connection
  <2>4. Shape'
    BY <1>1, <1>2, <2>1 DEF IInv, Shape
  <2>5. Checked'
    BY <1>1, <2>1 DEF IInv, Checked
  <2>6. LateRestores'
    BY <1>1, <2>1, <2>3 DEF IInv, LateRestores
  <2>7. QED
    BY <2>4, <2>5, <2>6 DEF IInv
<1>4. CASE /\ Opens(f, conn[c].pass)
           /\ conn' = [conn EXCEPT ![c].pc = "restore", ![c].dev = f.dev]
  <2>1. f.dev \in Int /\ f.is = "sealed" /\ f.pass = conn[c].pass
    BY <1>2, <1>4 DEF File, Opens
  <2> HIDE DEF f
  <2>2. /\ conn' \in [Conns -> Connection]
        /\ conn'[c].pc = "restore" /\ conn'[c].user = conn[c].user
        /\ conn'[c].pass = conn[c].pass /\ conn'[c].late = conn[c].late
        /\ \A d \in Conns : d # c => conn'[d] = conn[d]
    BY <1>4, <2>1 DEF IInv, Shape, Connection, Phase
  <2>3. conn[c].pass \in was[conn[c].user]
    BY <1>2, <2>1 DEF IInv, Checked, f
  <2>4. Shape'
    BY <1>1, <1>2, <2>2 DEF IInv, Shape
  <2>5. Checked'
    BY <1>1, <2>2, <2>3 DEF IInv, Checked
  <2>6. LateRestores'
    BY <1>1, <2>2 DEF IInv, LateRestores
  <2>7. QED
    BY <2>4, <2>5, <2>6 DEF IInv
<1>5. CASE Ends(c)
  BY <1>1, <1>5, EndKeeps
<1>6. QED
  BY <1>3, <1>4, <1>5 DEF FindFile, UserOf

LEMMA RestoredKeeps ==
    ASSUME IInv, NEW c \in Conns, Restored(c)
    PROVE  IInv'
<1>1. conn[c].pc = "restore" /\ Goes(c, "on") /\ UNCHANGED <<secret, was, file, saved, logins>>
  BY DEF Restored, server, disk
<1>2. /\ conn' \in [Conns -> Connection]
      /\ conn'[c].pc = "on" /\ conn'[c].user = conn[c].user
      /\ conn'[c].pass = conn[c].pass /\ conn'[c].late = conn[c].late
      /\ \A d \in Conns : d # c => conn'[d] = conn[d]
  BY <1>1, GoesShape DEF IInv, Shape, Phase
<1>3. Shape'
  BY <1>1, <1>2 DEF IInv, Shape
<1>4. Checked'
  BY <1>1, <1>2 DEF IInv, Checked
<1>5. LateRestores'
  BY <1>1, <1>2 DEF IInv, LateRestores
<1>6. QED
  BY <1>3, <1>4, <1>5 DEF IInv

\* The homeserver has checked the password.
LEMMA AcceptedKeeps ==
    ASSUME IInv, NEW c \in Conns, Accepted(c)
    PROVE  IInv'
<1>1. /\ conn[c].pc = "login" /\ secret[conn[c].user] = conn[c].pass
      /\ Goes(c, "made") /\ UNCHANGED <<secret, was, file, saved, logins>>
  BY DEF Accepted, disk, UserOf
<1>2. /\ conn' \in [Conns -> Connection]
      /\ conn'[c].pc = "made" /\ conn'[c].user = conn[c].user
      /\ conn'[c].pass = conn[c].pass /\ conn'[c].late = conn[c].late
      /\ \A d \in Conns : d # c => conn'[d] = conn[d]
  BY <1>1, GoesShape DEF IInv, Shape, Phase
<1>3. conn[c].user \in Users /\ conn[c].pass \in was[conn[c].user]
  BY <1>1, SessionsAssumption DEF IInv, Shape, Checked
<1>4. Shape'
  BY <1>1, <1>2 DEF IInv, Shape
<1>5. Checked'
  BY <1>1, <1>2, <1>3 DEF IInv, Checked
<1>6. LateRestores'
  BY <1>1, <1>2 DEF IInv, LateRestores
<1>7. QED
  BY <1>4, <1>5, <1>6 DEF IInv

LEMMA UnreadableShape == Unreadable \in File /\ Unreadable.is = "unreadable"
BY DEF Unreadable, File, NoDevice

LEMMA BeginSaveKeeps ==
    ASSUME IInv, NEW c \in Conns, BeginSave(c)
    PROVE  IInv'
<1>1. /\ conn[c].pc = "made" /\ file' = [file EXCEPT ![conn[c].user] = Unreadable]
      /\ Goes(c, "save") /\ UNCHANGED <<secret, was, saved, logins>>
  BY DEF BeginSave, server, UserOf
<1>2. /\ conn' \in [Conns -> Connection]
      /\ conn'[c].pc = "save" /\ conn'[c].user = conn[c].user
      /\ conn'[c].pass = conn[c].pass /\ conn'[c].late = conn[c].late
      /\ \A d \in Conns : d # c => conn'[d] = conn[d]
  BY <1>1, GoesShape DEF IInv, Shape, Phase
<1>3. conn[c].user \in Users
  BY <1>1 DEF IInv, Shape
<1>4. /\ file' \in [Users -> File]
      /\ \A u \in Users : file'[u] = IF u = conn[c].user THEN Unreadable ELSE file[u]
  BY <1>1, <1>3, UnreadableShape DEF IInv, Shape
<1>5. Shape'
  BY <1>1, <1>2, <1>4 DEF IInv, Shape
<1>6. Checked'
  BY <1>1, <1>2, <1>4, UnreadableShape DEF IInv, Checked
<1>7. LateRestores'
  BY <1>1, <1>2, <1>3, <1>4, UnreadableShape DEF IInv, Shape, LateRestores
<1>8. QED
  BY <1>5, <1>6, <1>7 DEF IInv

LEMMA FinishSaveKeeps ==
    ASSUME IInv, NEW c \in Conns, FinishSave(c)
    PROVE  IInv'
<1> DEFINE me == conn[c].user
           new == Sealed(conn[c].dev, conn[c].pass)
<1>1. conn[c].pc = "save" /\ Goes(c, "on") /\ UNCHANGED <<secret, was, logins>>
  BY DEF FinishSave, server
<1>2. /\ conn' \in [Conns -> Connection]
      /\ conn'[c].pc = "on" /\ conn'[c].user = conn[c].user
      /\ conn'[c].pass = conn[c].pass /\ conn'[c].late = conn[c].late
      /\ \A d \in Conns : d # c => conn'[d] = conn[d]
  BY <1>1, GoesShape DEF IInv, Shape, Phase
<1>3. /\ me \in Users /\ conn[c].pass \in was[me] /\ conn[c].pass \in Passwords
      /\ conn[c].dev \in Int /\ conn[c] \in Connection
  BY <1>1 DEF IInv, Shape, Checked, Connection
<1>4. new \in File /\ new.is = "sealed" /\ new.pass = conn[c].pass
  BY <1>3 DEF Sealed, File
<1>5. ~conn[c].late
  BY <1>1 DEF IInv, LateRestores
<1> HIDE DEF new
<1>6. CASE /\ file' = [file EXCEPT ![me] = new]
           /\ saved' = [saved EXCEPT ![me] = @ \cup {conn[c].dev}]
  <2>1. /\ file' \in [Users -> File] /\ saved' \in [Users -> SUBSET Int]
        /\ \A u \in Users : file'[u] = IF u = me THEN new ELSE file[u]
        /\ \A u \in Users : saved[u] \subseteq saved'[u]
        /\ \A u \in Users : u # me => saved'[u] = saved[u]
    BY <1>3, <1>4, <1>6 DEF IInv, Shape
  <2>2. Shape'
    BY <1>1, <1>2, <2>1 DEF IInv, Shape
  <2>3. Checked'
    BY <1>1, <1>2, <1>3, <1>4, <2>1 DEF IInv, Checked
  <2>4. LateRestores'
    BY <1>1, <1>2, <1>3, <1>4, <1>5, <2>1 DEF IInv, Shape, LateRestores
  <2>5. QED
    BY <2>2, <2>3, <2>4 DEF IInv
<1>7. CASE file' = [file EXCEPT ![me] = Unreadable] /\ UNCHANGED saved
  <2>1. /\ file' \in [Users -> File]
        /\ \A u \in Users : file'[u] = IF u = me THEN Unreadable ELSE file[u]
    BY <1>3, <1>7, UnreadableShape DEF IInv, Shape
  <2>2. Shape'
    BY <1>1, <1>2, <1>7, <2>1 DEF IInv, Shape
  <2>3. Checked'
    BY <1>1, <1>2, <1>3, <2>1, UnreadableShape DEF IInv, Checked
  <2>4. LateRestores'
    BY <1>1, <1>2, <1>3, <1>5, <1>7, <2>1, UnreadableShape DEF IInv, Shape, LateRestores
  <2>5. QED
    BY <2>2, <2>3, <2>4 DEF IInv
<1>8. QED
  BY <1>6, <1>7 DEF FinishSave, UserOf, new

\* What an unfinished write leaves is a file that does not open, or the one
\* that was there.
LEMMA SpoilsShape ==
    ASSUME IInv, NEW users, Spoils(users)
    PROVE  /\ file' \in [Users -> File] /\ saved' = saved
           /\ \A u \in Users : file'[u] = Unreadable \/ file'[u] = file[u]
BY UnreadableShape DEF IInv, Shape, Spoils

LEMMA FailSaveKeeps ==
    ASSUME IInv, NEW c \in Conns, FailSave(c)
    PROVE  IInv'
<1>1. Ends(c) /\ Spoils({UserOf(c)}) /\ UNCHANGED <<secret, was, logins>>
  BY DEF FailSave, server
<1>2. /\ conn' \in [Conns -> Connection] /\ conn'[c].pc = "idle"
      /\ \A d \in Conns : d # c => conn'[d] = conn[d]
  BY <1>1, EndsShape DEF IInv, Shape
<1>3. /\ file' \in [Users -> File] /\ saved' = saved
      /\ \A u \in Users : file'[u] = Unreadable \/ file'[u] = file[u]
  BY <1>1, SpoilsShape
<1>4. Shape'
  BY <1>1, <1>2, <1>3 DEF IInv, Shape
<1>5. Checked'
  BY <1>1, <1>2, <1>3, UnreadableShape DEF IInv, Checked
<1>6. LateRestores'
  BY <1>1, <1>2, <1>3, UnreadableShape DEF IInv, Shape, LateRestores
<1>7. QED
  BY <1>4, <1>5, <1>6 DEF IInv

LEMMA CrashKeeps ==
    ASSUME IInv, Crash
    PROVE  IInv'
<1>1. conn' = [c \in Conns |-> Idle] /\ UNCHANGED <<secret, was, logins>>
  BY DEF Crash, server
<1>2. conn' \in [Conns -> Connection] /\ \A c \in Conns : conn'[c].pc = "idle"
  BY <1>1, IdleShape DEF Idle
<1>3. /\ file' \in [Users -> File] /\ saved' = saved
      /\ \A u \in Users : file'[u] = Unreadable \/ file'[u] = file[u]
  BY SpoilsShape DEF Crash
<1>4. Shape'
  BY <1>1, <1>2, <1>3 DEF IInv, Shape
<1>5. Checked'
  BY <1>1, <1>2, <1>3, UnreadableShape DEF IInv, Checked
<1>6. LateRestores'
  BY <1>2, <1>3, UnreadableShape DEF IInv, LateRestores
<1>7. QED
  BY <1>4, <1>5, <1>6 DEF IInv

LEMMA ChangePasswordKeeps ==
    ASSUME IInv, NEW u \in Users, ChangePassword(u)
    PROVE  IInv'
<1>1. PICK p \in Passwords \ was[u] :
        /\ secret' = [secret EXCEPT ![u] = p]
        /\ was' = [was EXCEPT ![u] = @ \cup {p}]
  BY DEF ChangePassword
<1>2. UNCHANGED <<file, saved, conn, logins>>
  BY DEF ChangePassword, disk
<1>3. /\ secret' \in [Users -> Passwords \cup {NoPass}] /\ was' \in [Users -> SUBSET Passwords]
      /\ \A v \in Users : was[v] \subseteq was'[v]
      /\ \A v \in Users : secret'[v] = IF v = u THEN p ELSE secret[v]
      /\ p \in was'[u]
  BY <1>1 DEF IInv, Shape
<1>4. Shape'
  BY <1>2, <1>3 DEF IInv, Shape
<1>5. Checked'
  BY <1>2, <1>3 DEF IInv, Shape, Checked
<1>6. LateRestores'
  BY <1>2 DEF IInv, LateRestores
<1>7. QED
  BY <1>4, <1>5, <1>6 DEF IInv

-----------------------------------------------------------------------------
LEMMA StepKeeps == IInv /\ [Next]_vars => IInv'
<1> SUFFICES ASSUME IInv, [Next]_vars PROVE IInv'
  OBVIOUS
<1>1. CASE UNCHANGED vars
  BY <1>1 DEF vars, server, disk, IInv, Shape, Checked, LateRestores
<1>2. ASSUME NEW c \in Conns, LoginStep(c) PROVE IInv'
  <2>1. CASE Refused(c) \/ Leave(c) \/ GivesUp(c)
    BY <2>1, EndKeeps DEF Refused, Leave, GivesUp, server, disk
  <2>2. QED
    BY <1>2, <2>1, FindFileKeeps, RestoredKeeps, AcceptedKeeps, BeginSaveKeeps,
       FinishSaveKeeps, FailSaveKeeps DEF LoginStep, Local
<1>3. QED
  BY <1>1, <1>2, BeginKeeps, CrashKeeps, ChangePasswordKeeps DEF Next, Environment

\* Whoever logs in was checked or finds a sealed file, and a login that is late
\* never makes a device (client.rs 74-120).
THEOREM Invariance == Spec => []IInv
BY InitHolds, StepKeeps, PTL DEF Spec

\* Whoever comes up for an account has, or had, its password, for any number of
\* connections, accounts and passwords, with files lost and rewritten.
THEOREM PasswordNeeded == Spec => []OnlyPasswordHolders
<1>1. IInv => OnlyPasswordHolders
  BY DEF IInv, Checked, OnlyPasswordHolders, UserOf
<1>2. QED
  BY <1>1, Invariance, PTL

\* Only a login that began before the account's session was first saved makes a
\* device, whatever other logins, failures and crashes come in between.
THEOREM NoDeviceLater == Spec => FirstLoginsMakeDevices
<1>1. ASSUME IInv, [Next]_vars, NEW u \in Users, devices'[u] # devices[u]
      PROVE  \E c \in Conns : UserOf(c) = u /\ conn[c].pc = "login" /\ ~conn[c].late
  <2>1. PICK c \in Conns : Accepted(c)
    BY <1>1 DEF Next, Environment, LoginStep, Local, Begin, FindFile, Restored, Refused,
       BeginSave, FinishSave, FailSave, Leave, GivesUp, Crash, ChangePassword, vars, server
  <2>2. conn[c].pc = "login" /\ ~conn[c].late
    BY <1>1, <2>1 DEF Accepted, IInv, LateRestores
  <2>3. u = conn[c].user
    BY <1>1, <2>1 DEF Accepted, UserOf
  <2>4. QED
    BY <2>2, <2>3 DEF UserOf
<1>2. IInv /\ [Next]_vars =>
        [\A u \in Users : devices'[u] # devices[u] =>
            \E c \in Conns : UserOf(c) = u /\ conn[c].pc = "login" /\ ~conn[c].late]_vars
  BY <1>1
<1>3. QED
  BY <1>2, Invariance, PTL DEF Spec, FirstLoginsMakeDevices

-----------------------------------------------------------------------------
\* What spoils a session file.

First == {"start", "login", "made", "save"}

\* A login that has not restored a session works on a device of its own: no
\* other login has it, and it is in no file before this login has saved it.
Apart ==
    /\ devices \in [Users -> SUBSET (1 .. logins)]
    /\ \A u \in Users : saved[u] \subseteq devices[u]
    /\ \A u \in Users : file[u].is = "sealed" => file[u].dev \in saved[u]
    /\ \A c \in Conns : conn[c].pc \in First =>
          conn[c].dev \in 1 .. logins /\ \A u \in Users : conn[c].dev \notin saved[u]
    /\ \A c \in Conns : conn[c].pc \in {"made", "save"} => conn[c].dev \in devices[conn[c].user]
    /\ \A c, d \in Conns : c # d /\ conn[c].pc \in First /\ conn[d].pc \in First =>
          conn[c].dev # conn[d].dev

Kept == IInv /\ Apart /\ SessionStays

LEMMA TwoDevices ==
    ASSUME NEW n \in Nat, NEW S \in SUBSET (1 .. n)
    PROVE  /\ \A a, b \in S : a # b => Cardinality(S) > 1
           /\ \A T \in SUBSET S : Cardinality(T) > 1 => Cardinality(S) > 1
<1>1. IsFiniteSet(S)
  <2>1. IsFiniteSet(1 .. n)
    BY FS_Interval
  <2>2. QED
    BY <2>1, FS_Subset
<1>2. \A T \in SUBSET S : IsFiniteSet(T) /\ Cardinality(T) <= Cardinality(S)
  BY <1>1, FS_Subset
<1>3. Cardinality(S) \in Nat /\ \A T \in SUBSET S : Cardinality(T) \in Nat
  BY <1>1, <1>2, FS_CardinalityType
<1>4. ASSUME NEW a \in S, NEW b \in S, a # b PROVE Cardinality(S) > 1
  <2>1. IsFiniteSet({a}) /\ Cardinality({a}) = 1 /\ b \notin {a}
    BY <1>4, FS_Singleton
  <2>2. Cardinality({a} \cup {b}) = Cardinality({a}) + 1
    BY <2>1, FS_AddElement
  <2>3. Cardinality({a} \cup {b}) = 2
    BY <2>1, <2>2
  <2>4. Cardinality({a} \cup {b}) <= Cardinality(S)
    BY <1>2
  <2>5. QED
    BY <1>3, <2>3, <2>4
<1>5. QED
  BY <1>2, <1>3, <1>4

\* A step of a login that touches neither files nor devices.
LEMMA MoveStays ==
    ASSUME Kept, IInv', NEW c \in Conns,
           UNCHANGED <<file, saved, devices, spoilt, logins>>,
           conn[c].pc # "save",
           \A d \in Conns : d # c => conn'[d] = conn[d],
           \/ conn'[c].pc \notin First
           \/ /\ conn[c].pc \in First /\ conn'[c].dev = conn[c].dev
              /\ conn'[c].pc \in {"start", "login"}
    PROVE  Kept'
<1>1. \A d \in Conns : conn'[d].pc \in First =>
        conn[d].pc \in First /\ conn'[d].dev = conn[d].dev
  OBVIOUS
<1>2. Apart'
  BY <1>1 DEF Kept, Apart, First
<1>3. SessionStays'
  BY DEF Kept, SessionStays, UserOf
<1>4. QED
  BY <1>2, <1>3 DEF Kept

LEMMA BeginStays ==
    ASSUME Kept, IInv', NEW c \in Conns, NEW u \in Users, NEW p \in Passwords, Begin(c, u, p)
    PROVE  Kept'
<1>1. /\ conn[c].pc = "idle" /\ logins' = logins + 1 /\ logins \in Nat
      /\ UNCHANGED <<file, saved, devices, spoilt>>
  BY DEF Begin, server, disk, Kept, IInv, Shape
<1>2. /\ conn'[c].pc = "start" /\ conn'[c].dev = logins + 1
      /\ \A d \in Conns : d # c => conn'[d] = conn[d]
  BY DEF Begin, Kept, IInv, Shape
<1>3. 1 .. logins \subseteq 1 .. logins' /\ logins + 1 \in 1 .. logins' /\ logins + 1 \notin 1 .. logins
  BY <1>1
<1>4. devices' \in [Users -> SUBSET (1 .. logins')]
  BY <1>1, <1>3 DEF Kept, Apart
<1>5. \A v \in Users : logins + 1 \notin saved[v]
  BY <1>3 DEF Kept, Apart
<1>6. Apart'
  BY <1>1, <1>2, <1>3, <1>4, <1>5 DEF Kept, Apart, First
<1>7. SessionStays'
  BY <1>1, <1>2 DEF Kept, SessionStays, UserOf
<1>8. QED
  BY <1>6, <1>7 DEF Kept

LEMMA AcceptedStays ==
    ASSUME Kept, IInv', NEW c \in Conns, Accepted(c)
    PROVE  Kept'
<1>1. /\ conn[c].pc = "login" /\ Goes(c, "made") /\ conn[c].user \in Users
      /\ devices' = [devices EXCEPT ![conn[c].user] = @ \cup {conn[c].dev}]
      /\ UNCHANGED <<file, saved, spoilt, logins>>
  BY DEF Accepted, disk, UserOf, Kept, IInv, Shape
<1>2. /\ conn'[c].pc = "made" /\ conn'[c].user = conn[c].user /\ conn'[c].dev = conn[c].dev
      /\ \A d \in Conns : d # c => conn'[d] = conn[d]
  BY <1>1, GoesShape DEF Kept, IInv, Shape, Phase
<1>3. conn[c].dev \in 1 .. logins
  BY <1>1 DEF Kept, Apart, First
<1>4. /\ devices' \in [Users -> SUBSET (1 .. logins)]
      /\ \A u \in Users : devices[u] \subseteq devices'[u]
      /\ conn[c].dev \in devices'[conn[c].user]
  BY <1>1, <1>3 DEF Kept, Apart
<1>5. Apart'
  <2>1. /\ \A u \in Users : saved'[u] \subseteq devices'[u]
        /\ \A u \in Users : file'[u].is = "sealed" => file'[u].dev \in saved'[u]
    BY <1>1, <1>4 DEF Kept, Apart
  <2>2. \A d \in Conns : /\ conn'[d].pc \in First => conn[d].pc \in First
                         /\ conn'[d].dev = conn[d].dev /\ conn'[d].user = conn[d].user
    BY <1>1, <1>2 DEF First
  <2>3. \A d \in Conns : conn'[d].pc \in {"made", "save"} => conn'[d].dev \in devices'[conn'[d].user]
    BY <1>2, <1>4 DEF Kept, Apart, IInv, Shape
  <2>4. QED
    BY <1>1, <1>4, <2>1, <2>2, <2>3 DEF Kept, Apart
<1>6. SessionStays'
  <2>1. logins \in Nat
    BY DEF Kept, IInv, Shape
  <2>2. \A u \in Users : Cardinality(devices[u]) > 1 => Cardinality(devices'[u]) > 1
    BY <1>4, <2>1, TwoDevices
  <2>3. QED
    BY <1>1, <1>2, <2>2 DEF Kept, SessionStays, UserOf
<1>7. QED
  BY <1>5, <1>6 DEF Kept

LEMMA BeginSaveStays ==
    ASSUME Kept, IInv', NEW c \in Conns, BeginSave(c)
    PROVE  Kept'
<1>1. /\ conn[c].pc = "made" /\ file' = [file EXCEPT ![conn[c].user] = Unreadable]
      /\ Goes(c, "save") /\ UNCHANGED <<saved, devices, spoilt, logins>>
  BY DEF BeginSave, server, UserOf
<1>2. /\ conn'[c].pc = "save" /\ conn'[c].user = conn[c].user /\ conn'[c].dev = conn[c].dev
      /\ \A d \in Conns : d # c => conn'[d] = conn[d]
  BY <1>1, GoesShape DEF Kept, IInv, Shape, Phase
<1>3. \A u \in Users : file'[u] = IF u = conn[c].user THEN Unreadable ELSE file[u]
  BY <1>1 DEF Kept, IInv, Shape
<1>4. Apart'
  BY <1>1, <1>2, <1>3, UnreadableShape DEF Kept, Apart, First
<1>5. SessionStays'
  BY <1>1, <1>2, <1>3 DEF Kept, SessionStays, UserOf
<1>6. QED
  BY <1>4, <1>5 DEF Kept

\* A write that ends leaves the session, or mixes with that of another login,
\* whose device is then in the file.
LEMMA FinishSaveStays ==
    ASSUME Kept, IInv', NEW c \in Conns, FinishSave(c)
    PROVE  Kept'
<1>1. /\ conn[c].pc = "save" /\ Goes(c, "on") /\ conn[c].user \in Users
      /\ UNCHANGED <<devices, spoilt, logins>>
  BY DEF FinishSave, server, Kept, IInv, Shape
<1>2. /\ conn'[c].pc = "on" /\ conn'[c].user = conn[c].user /\ conn'[c].dev = conn[c].dev
      /\ \A d \in Conns : d # c => conn'[d] = conn[d]
  BY <1>1, GoesShape DEF Kept, IInv, Shape, Phase
<1>3. PICK me, dev : me = conn[c].user /\ dev = conn[c].dev
  OBVIOUS
<1>4. /\ me \in Users /\ dev \in devices[me]
      /\ \A u \in Users : dev \notin saved[u]
      /\ \A d \in Conns : d # c /\ conn[d].pc \in First => conn[d].dev # dev
  BY <1>1, <1>3 DEF Kept, Apart, First
<1>5. CASE /\ file' = [file EXCEPT ![me] = Sealed(dev, conn[c].pass)]
           /\ saved' = [saved EXCEPT ![me] = @ \cup {dev}]
  <2>1. Sealed(dev, conn[c].pass).is = "sealed" /\ Sealed(dev, conn[c].pass).dev = dev
    BY DEF Sealed
  <2>2. Unreadable.is = "unreadable"
    BY UnreadableShape
  <2>3. /\ \A u \in Users : file'[u] = IF u = me THEN Sealed(dev, conn[c].pass) ELSE file[u]
        /\ \A u \in Users : saved'[u] = IF u = me THEN saved[me] \cup {dev} ELSE saved[u]
    BY <1>5 DEF Kept, IInv, Shape
  <2>4. Apart'
    BY <1>1, <1>2, <1>4, <2>1, <2>3 DEF Kept, Apart, First
  <2>5. SessionStays'
    BY <1>1, <1>2, <1>3, <2>1, <2>2, <2>3 DEF Kept, SessionStays, UserOf
  <2>6. QED
    BY <2>4, <2>5 DEF Kept
<1>6. CASE /\ file[me].is = "sealed" /\ file' = [file EXCEPT ![me] = Unreadable]
           /\ UNCHANGED saved
  <2>1. \A u \in Users : file'[u] = IF u = me THEN Unreadable ELSE file[u]
    BY <1>6 DEF Kept, IInv, Shape
  <2>2. Apart'
    BY <1>1, <1>2, <1>6, <2>1, UnreadableShape DEF Kept, Apart, First
  <2>3. file[me].dev \in devices[me] /\ file[me].dev # dev /\ devices[me] \in SUBSET (1 .. logins)
    BY <1>4, <1>6 DEF Kept, Apart
  <2>4. logins \in Nat
    BY DEF Kept, IInv, Shape
  <2>5. Cardinality(devices[me]) > 1
    BY <1>4, <2>3, <2>4, TwoDevices
  <2>6. SessionStays'
    BY <1>1, <1>2, <1>3, <2>1, <2>5 DEF Kept, SessionStays, UserOf
  <2>7. QED
    BY <2>2, <2>6 DEF Kept
<1>7. QED
  BY <1>3, <1>5, <1>6 DEF FinishSave, UserOf

\* A write that is cut spoils the file of its account; the others' go on.
LEMMA CutStays ==
    ASSUME Kept, IInv', NEW cut \in SUBSET Conns,
           Spoils({UserOf(c) : c \in cut}),
           \A c \in Conns : conn[c].pc = "save" => c \in cut \/ conn'[c] = conn[c],
           \A c \in Conns : conn'[c] = conn[c] \/ conn'[c].pc = "idle",
           UNCHANGED <<devices, logins>>
    PROVE  Kept'
<1>1. /\ spoilt' = spoilt \cup {UserOf(c) : c \in cut} /\ saved' = saved
      /\ \A u \in Users : (file'[u] = Unreadable /\ u \in spoilt') \/ file'[u] = file[u]
  BY DEF Spoils
<1>2. Apart'
  BY <1>1, UnreadableShape DEF Kept, Apart, First
<1>3. SessionStays'
  BY <1>1 DEF Kept, SessionStays, UserOf
<1>4. QED
  BY <1>2, <1>3 DEF Kept

LEMMA LoginStepStays ==
    ASSUME Kept, IInv', NEW c \in Conns, LoginStep(c)
    PROVE  Kept'
<1>1. conn \in [Conns -> Connection]
  BY DEF Kept, IInv, Shape
<1>2. CASE FindFile(c)
  <2>1. conn[c].pc = "start" /\ UNCHANGED <<file, saved, devices, spoilt, logins>>
    BY <1>2 DEF FindFile, server, disk
  <2>2. \A d \in Conns : d # c => conn'[d] = conn[d]
    BY <1>1, <1>2 DEF FindFile, Goes, Ends
  <2>3. \/ conn'[c].pc \in {"restore", "idle"}
        \/ conn'[c].pc = "login" /\ conn'[c].dev = conn[c].dev
    BY <1>1, <1>2, EndsShape, GoesShape DEF FindFile, Phase, Connection
  <2>4. QED
    BY <2>1, <2>2, <2>3, MoveStays DEF First
<1>3. CASE Restored(c)
  <2>1. conn[c].pc = "restore" /\ UNCHANGED <<file, saved, devices, spoilt, logins>>
    BY <1>3 DEF Restored, server, disk
  <2>2. conn'[c].pc = "on" /\ \A d \in Conns : d # c => conn'[d] = conn[d]
    BY <1>1, <1>3, GoesShape DEF Restored, Phase
  <2>3. QED
    BY <2>1, <2>2, MoveStays DEF First
<1>4. CASE Refused(c) \/ Leave(c) \/ GivesUp(c)
  <2>1. conn[c].pc # "save" /\ UNCHANGED <<file, saved, devices, spoilt, logins>>
    BY <1>4 DEF Refused, Leave, GivesUp, server, disk
  <2>2. conn'[c].pc = "idle" /\ \A d \in Conns : d # c => conn'[d] = conn[d]
    BY <1>1, <1>4, EndsShape DEF Refused, Leave, GivesUp
  <2>3. QED
    BY <2>1, <2>2, MoveStays DEF First
<1>5. CASE FailSave(c)
  <2>1. Spoils({UserOf(d) : d \in {c}}) /\ UNCHANGED <<devices, logins>>
    BY <1>5 DEF FailSave, server
  <2>2. conn'[c].pc = "idle" /\ \A d \in Conns : d # c => conn'[d] = conn[d]
    BY <1>1, <1>5, EndsShape DEF FailSave
  <2>3. QED
    BY <2>1, <2>2, CutStays
<1>6. QED
  BY <1>2, <1>3, <1>4, <1>5, AcceptedStays, BeginSaveStays, FinishSaveStays
  DEF LoginStep, Local

LEMMA StepStays == Kept /\ [Next]_vars => Kept'
<1> SUFFICES ASSUME Kept, [Next]_vars PROVE Kept'
  OBVIOUS
<1>1. IInv'
  BY StepKeeps DEF Kept
<1>2. CASE UNCHANGED vars
  BY <1>1, <1>2 DEF vars, server, disk, Kept, Apart, SessionStays, UserOf
<1>3. CASE Crash
  <2>1. PICK cut \in SUBSET Conns : /\ cut = {d \in Conns : conn[d].pc = "save"}
                                    /\ Spoils({UserOf(c) : c \in cut})
    BY <1>3 DEF Crash
  <2>2. /\ \A c \in Conns : conn'[c].pc = "idle"
        /\ UNCHANGED <<devices, logins>>
    BY <1>3 DEF Crash, Idle, server
  <2>3. QED
    BY <1>1, <2>1, <2>2, CutStays
<1>4. CASE \E u \in Users : ChangePassword(u)
  <2>1. UNCHANGED <<file, saved, devices, spoilt, conn, logins>>
    BY <1>4 DEF ChangePassword, disk
  <2>2. QED
    BY <1>1, <2>1 DEF Kept, Apart, SessionStays, UserOf
<1>5. QED
  BY <1>1, <1>2, <1>3, <1>4, BeginStays, LoginStepStays DEF Next, Environment

\* A session file is spoilt by a write that was cut, or by two first logins
\* that write it at once, and by nothing else: no timeout, no failing request,
\* no wrong password and no crash outside a write, for any accounts,
\* connections and passwords (session.rs 22-36, server.rs 1977-1997).
THEOREM FileStays == Spec => []SessionStays
<1>1. Init => Kept
  <2> SUFFICES ASSUME Init PROVE Kept
    OBVIOUS
  <2>1. /\ \A c \in Conns : conn[c].pc = "idle"
        /\ \A u \in Users : file[u] = Absent /\ saved[u] = {}
        /\ devices \in [Users -> SUBSET (1 .. logins)]
    BY DEF Init, Idle
  <2>2. Absent.is = "absent" /\ Unreadable.is = "unreadable"
    BY UnreadableShape DEF Absent
  <2>3. Apart
    BY <2>1, <2>2 DEF Apart, First
  <2>4. SessionStays
    BY <2>1, <2>2 DEF SessionStays
  <2>5. QED
    BY <2>3, <2>4, InitHolds DEF Kept
<1>2. Kept => SessionStays
  BY DEF Kept
<1>3. QED
  BY <1>1, <1>2, StepStays, PTL DEF Spec

-----------------------------------------------------------------------------
(* Registration *)

Fields == {"nick", "user", "mxid", "pass", "caps", "capStarted", "capEnded", "sasl", "pending"}

\* What the credentials of a registration are made of.
Credentials(r) ==
    /\ DOMAIN r = Fields
    /\ r.nick \in Users \cup {NoUser} /\ r.mxid \in Users \cup {NoUser}
    /\ r.pass \in Passwords \cup {NoPass}
    /\ r.sasl \in Sasl \cup {NoSasl}

\* The client was told of the exchange that is kept, and a login under way
\* goes by it; there is none while the registration is open.
Faithful ==
    /\ DOMAIN client = {"caps", "loggedIn"} /\ client.loggedIn = reg.sasl
    /\ conn[Me].pc # "idle" =>
        /\ ~open
        /\ reg.sasl # NoSasl => conn[Me].user = reg.sasl.user /\ conn[Me].pass = reg.sasl.pass

RegInv == IInv /\ Credentials(reg) /\ open \in BOOLEAN /\ Faithful

LEMMA MeIsConn == Me \in Conns
BY RegistrationAssumption

-----------------------------------------------------------------------------
\* The credentials of a complete registration are a user and a password.
LEMMA ChosenCredentials ==
    ASSUME NEW r, Credentials(r), Complete(r)
    PROVE  LoginUser(r) \in Users /\ Password(r) \in Passwords \cup {NoPass}
BY DEF Credentials, Complete, LoginUser, Password, Sasl

\* The end of every command: the login begins with the credentials of r.
LEMMA HandledKeeps ==
    ASSUME RegInv, NEW r, Credentials(r), Handled(r),
           DOMAIN client' = {"caps", "loggedIn"}, client'.loggedIn = r.sasl
    PROVE  RegInv' /\ [Next]_vars
<1>1. open /\ reg' = r /\ open' \in BOOLEAN /\ open' = ~Complete(r) /\ conn[Me].pc = "idle"
  BY DEF Handled, RegInv, Faithful
<1>2. CASE Complete(r) /\ Password(r) # NoPass
  <2>1. Begin(Me, LoginUser(r), Password(r)) /\ LoginUser(r) \in Users /\ Password(r) \in Passwords
    BY <1>2, ChosenCredentials DEF Handled
  <2>2. IInv'
    BY <2>1, MeIsConn, BeginKeeps DEF RegInv
  <2>3. Next
    BY <2>1, MeIsConn DEF Next
  <2>4. conn'[Me].user = LoginUser(r) /\ conn'[Me].pass = Password(r)
    BY <2>1, MeIsConn DEF Begin, RegInv, IInv, Shape
  <2>5. Faithful'
    BY <1>1, <1>2, <2>4 DEF Faithful, LoginUser, Password
  <2>6. QED
    BY <1>1, <2>2, <2>3, <2>5 DEF RegInv
<1>3. CASE ~(Complete(r) /\ Password(r) # NoPass)
  <2>1. UNCHANGED vars
    BY <1>3 DEF Handled
  <2>2. IInv' /\ conn' = conn
    BY <2>1, StepKeeps DEF RegInv, vars
  <2>3. Faithful'
    BY <1>1, <2>2 DEF Faithful
  <2>4. QED
    BY <1>1, <2>1, <2>2, <2>3 DEF RegInv
<1>4. QED
  BY <1>2, <1>3

LEMMA CommandKeeps ==
    ASSUME RegInv, Command
    PROVE  RegInv' /\ [Next]_vars
<1>1. /\ Credentials(reg) /\ DOMAIN client = {"caps", "loggedIn"} /\ client.loggedIn = reg.sasl
  BY DEF RegInv, Faithful
<1>2. ASSUME NEW p \in Passwords \cup {NoPass}, Pass(p) PROVE RegInv' /\ [Next]_vars
  <2>1. Credentials([reg EXCEPT !.pass = p]) /\ [reg EXCEPT !.pass = p].sasl = reg.sasl
    BY <1>1 DEF Credentials, Fields
  <2>2. QED
    BY <1>1, <1>2, <2>1, HandledKeeps DEF Pass
<1>3. ASSUME NEW n \in Users, Nick(n) PROVE RegInv' /\ [Next]_vars
  <2>1. Credentials([reg EXCEPT !.nick = n]) /\ [reg EXCEPT !.nick = n].sasl = reg.sasl
    BY <1>1 DEF Credentials, Fields
  <2>2. QED
    BY <1>1, <1>3, <2>1, HandledKeeps DEF Nick
<1>4. ASSUME NEW u \in Users \cup {NoUser}, User(u) PROVE RegInv' /\ [Next]_vars
  <2> DEFINE r == [reg EXCEPT !.user = IF u = NoUser THEN "plain" ELSE "mxid", !.mxid = u]
  <2>1. Credentials(r) /\ r.sasl = reg.sasl
    BY <1>1 DEF Credentials, Fields
  <2>2. Handled(r) /\ UNCHANGED client
    BY <1>4 DEF User
  <2> HIDE DEF r
  <2>3. QED
    BY <1>1, <2>1, <2>2, HandledKeeps
<1>5. CASE CapLs
  <2>1. /\ Credentials([reg EXCEPT !.capStarted = TRUE])
        /\ [reg EXCEPT !.capStarted = TRUE].sasl = reg.sasl
    BY <1>1 DEF Credentials, Fields
  <2>2. QED
    BY <1>1, <1>5, <2>1, HandledKeeps DEF CapLs
<1>6. CASE CapEnd
  <2>1. /\ Credentials([reg EXCEPT !.capEnded = TRUE])
        /\ [reg EXCEPT !.capEnded = TRUE].sasl = reg.sasl
    BY <1>1 DEF Credentials, Fields
  <2>2. QED
    BY <1>1, <1>6, <2>1, HandledKeeps DEF CapEnd
<1>7. ASSUME NEW req \in Requests, CapReq(req) PROVE RegInv' /\ [Next]_vars
  <2> DEFINE enabled == FoldLeft(ApplyToken, reg.caps, req)
             known   == FoldLeft(Acked, client.caps, req)
             r == [reg EXCEPT !.caps = enabled, !.capStarted = TRUE]
  <2>1. Handled(r) /\ client' = [client EXCEPT !.caps = known]
    BY <1>7 DEF CapReq
  <2> HIDE DEF enabled, known
  <2>2. Credentials(r) /\ r.sasl = reg.sasl
    BY <1>1 DEF Credentials, Fields
  <2>3. DOMAIN client' = {"caps", "loggedIn"} /\ client'.loggedIn = client.loggedIn
    BY <1>1, <2>1
  <2> HIDE DEF r
  <2>4. QED
    BY <1>1, <2>1, <2>2, <2>3, HandledKeeps
<1>8. CASE AuthPlain
  <2>1. /\ Credentials([reg EXCEPT !.pending = TRUE])
        /\ [reg EXCEPT !.pending = TRUE].sasl = reg.sasl
    BY <1>1 DEF Credentials, Fields
  <2>2. QED
    BY <1>1, <1>8, <2>1, HandledKeeps DEF AuthPlain
<1>9. CASE AuthFails
  <2>1. /\ Credentials([reg EXCEPT !.pending = FALSE])
        /\ [reg EXCEPT !.pending = FALSE].sasl = reg.sasl
    BY <1>1 DEF Credentials, Fields
  <2>2. QED
    BY <1>1, <1>9, <2>1, HandledKeeps DEF AuthFails
<1>10. ASSUME NEW u \in Users, NEW p \in Passwords, AuthPayload(u, p)
       PROVE  RegInv' /\ [Next]_vars
  <2> DEFINE pair == [user |-> u, pass |-> p]
             r == [reg EXCEPT !.pending = FALSE, !.sasl = pair,
                              !.nick = IF @ = NoUser /\ u \in ValidNicks THEN u ELSE @]
  <2>1. Handled(r) /\ client' = [client EXCEPT !.loggedIn = pair]
    BY <1>10 DEF AuthPayload
  <2>2. pair \in Sasl
    BY DEF Sasl
  <2> HIDE DEF pair
  <2>3. Credentials(r) /\ r.sasl = pair
    BY <1>1, <2>2 DEF Credentials, Fields
  <2>4. DOMAIN client' = {"caps", "loggedIn"} /\ client'.loggedIn = pair
    BY <1>1, <2>1
  <2> HIDE DEF r
  <2>5. QED
    BY <2>1, <2>3, <2>4, HandledKeeps
<1>11. CASE Quit
  <2>1. /\ conn[Me].pc = "idle" /\ open' = FALSE /\ UNCHANGED <<vars, reg, client>>
    BY <1>11 DEF Quit, RegInv, Faithful
  <2>2. IInv' /\ conn' = conn
    BY <2>1, StepKeeps DEF RegInv, vars
  <2>3. QED
    BY <1>1, <2>1, <2>2 DEF RegInv, Faithful
<1>12. QED
  BY <1>2, <1>3, <1>4, <1>5, <1>6, <1>7, <1>8, <1>9, <1>10, <1>11 DEF Command

-----------------------------------------------------------------------------
\* The steps of other connections and of logins leave Me idle, or with its
\* credentials, or end its login.
LEMMA LoginKeepsCredentials ==
    ASSUME IInv, Others \/ Environment \/ \E c \in Conns : LoginStep(c)
    PROVE  \/ conn'[Me].pc = "idle"
           \/ /\ conn[Me].pc # "idle"
              /\ conn'[Me].user = conn[Me].user /\ conn'[Me].pass = conn[Me].pass
<1>1. conn \in [Conns -> Connection] /\ Me \in Conns
  BY MeIsConn DEF IInv, Shape
<1>2. ASSUME NEW c \in Conns, NEW pc \in Phase, Goes(c, pc), conn[c].pc # "idle"
      PROVE  /\ conn[Me].pc # "idle" \/ conn'[Me] = conn[Me]
             /\ conn'[Me].user = conn[Me].user /\ conn'[Me].pass = conn[Me].pass
  BY <1>1, <1>2, GoesShape
<1>3. ASSUME NEW c \in Conns, Ends(c)
      PROVE  conn'[Me].pc = "idle" \/ conn'[Me] = conn[Me]
  BY <1>1, <1>3, EndsShape
<1>4. CASE Others
  <2>1. conn'[Me] = conn[Me]
    BY <1>1, <1>4 DEF Others, Begin
  <2>2. QED
    BY <2>1
<1>5. CASE Environment
  <2>1. CASE Crash
    BY <1>1, <2>1 DEF Crash, Idle
  <2>2. CASE \E u \in Users : ChangePassword(u)
    BY <2>2 DEF ChangePassword
  <2>3. QED
    BY <1>5, <2>1, <2>2 DEF Environment
<1>6. ASSUME NEW c \in Conns, LoginStep(c)
      PROVE  \/ conn'[Me].pc = "idle"
             \/ /\ conn[Me].pc # "idle"
                /\ conn'[Me].user = conn[Me].user /\ conn'[Me].pass = conn[Me].pass
  <2>1. CASE Restored(c) \/ Accepted(c) \/ BeginSave(c) \/ FinishSave(c)
    <3>1. PICK pc \in Phase : Goes(c, pc) /\ conn[c].pc # "idle"
      BY <2>1 DEF Restored, Accepted, BeginSave, FinishSave, Phase
    <3>2. QED
      BY <1>2, <3>1
  <2>2. CASE Refused(c) \/ FailSave(c) \/ Leave(c) \/ GivesUp(c)
    BY <1>3, <2>2 DEF Refused, FailSave, Leave, GivesUp
  <2>3. CASE FindFile(c)
    <3>1. conn[c].pc = "start"
      BY <2>3 DEF FindFile
    <3>2. CASE Goes(c, "login")
      BY <1>2, <3>1, <3>2 DEF Phase
    <3>3. CASE Ends(c)
      BY <1>3, <3>3
    <3>4. CASE \E d : conn' = [conn EXCEPT ![c].pc = "restore", ![c].dev = d]
      BY <1>1, <3>1, <3>4 DEF Connection
    <3>5. QED
      BY <2>3, <3>2, <3>3, <3>4 DEF FindFile
  <2>4. QED
    BY <1>6, <2>1, <2>2, <2>3 DEF LoginStep, Local
<1>7. QED
  BY <1>4, <1>5, <1>6

LEMMA RegInitHolds == RegInit => RegInv
<1> SUFFICES ASSUME RegInit PROVE RegInv
  OBVIOUS
<1>1. IInv /\ \A c \in Conns : conn[c].pc = "idle"
  BY InitHolds DEF RegInit, Init, Idle
<1>2. Credentials(reg)
  BY DEF RegInit, Fresh, Credentials, Fields
<1>3. DOMAIN client = {"caps", "loggedIn"} /\ client.loggedIn = reg.sasl /\ open \in BOOLEAN
  BY DEF RegInit, Fresh
<1>4. QED
  BY <1>1, <1>2, <1>3, MeIsConn DEF RegInv, Faithful

LEMMA RegStepKeeps == RegInv /\ [RegNext]_allVars => RegInv' /\ [Next]_vars
<1> SUFFICES ASSUME RegInv, [RegNext]_allVars PROVE RegInv' /\ [Next]_vars
  OBVIOUS
<1>1. CASE Command
  BY <1>1, CommandKeeps
<1>2. CASE /\ Others \/ Environment \/ \E c \in Conns : LoginStep(c)
           /\ UNCHANGED regVars
  <2>1. Next
    BY <1>2 DEF Others, Next
  <2>2. IInv'
    BY <2>1, StepKeeps DEF RegInv
  <2>3. \/ conn'[Me].pc = "idle"
        \/ /\ conn[Me].pc # "idle"
           /\ conn'[Me].user = conn[Me].user /\ conn'[Me].pass = conn[Me].pass
    BY <1>2, LoginKeepsCredentials DEF RegInv
  <2>4. Faithful'
    BY <1>2, <2>3 DEF regVars, RegInv, Faithful
  <2>5. QED
    BY <1>2, <2>1, <2>2, <2>4 DEF regVars, RegInv
<1>3. CASE UNCHANGED allVars
  <2>1. IInv' /\ UNCHANGED vars
    BY <1>3, StepKeeps DEF RegInv, allVars
  <2>2. QED
    BY <1>3, <2>1 DEF allVars, regVars, vars, RegInv, Faithful
<1>4. QED
  BY <1>1, <1>2, <1>3 DEF RegNext

\* The same with a registration in front, whose exchange is the one the client
\* was told of (server.rs 355-470).
THEOREM RegInvariance == RegSpec => []RegInv
BY RegInitHolds, RegStepKeeps, PTL DEF RegSpec

\* A login uses the credentials of the exchange the client was told of, for any
\* sequence of commands, however long, and any other connections.
THEOREM LoginAsTold == RegSpec => []LoggedInAs
<1>1. RegInv => LoggedInAs
  BY DEF RegInv, Faithful, LoggedInAs
<1>2. QED
  BY <1>1, RegInvariance, PTL

\* A registration implements Sessions, but for its fairness, so that what is
\* proved of the logins holds of connections that register.
THEOREM RegistrationImplements == RegSpec => Init /\ [][Next]_vars
BY RegInitHolds, RegStepKeeps, RegInvariance, PTL DEF RegSpec, RegInit

\* So the password of the account is needed with a registration in front, too.
THEOREM RegisteredHavePassword == RegSpec => []OnlyPasswordHolders
<1>1. RegInv => OnlyPasswordHolders
  BY DEF RegInv, IInv, Checked, OnlyPasswordHolders, UserOf
<1>2. QED
  BY <1>1, RegInvariance, PTL

-----------------------------------------------------------------------------
\* A request for capabilities, token by token.

\* A set of numbers that is not empty has a smallest one, and one that has a
\* bound has a largest.
Below == {ss \in Nat \X Nat : ss[1] < ss[2]}

LEMMA BelowWellFounded == IsWellFoundedOn(Below, Nat)
BY NatLessThanWellFounded DEF OpToRel, Below

LEMMA Smallest == ASSUME NEW T, T \subseteq Nat, T # {} PROVE \E x \in T : \A y \in T : x <= y
<1>1. PICK x \in T : \A y \in T : <<y, x>> \notin Below
  BY BelowWellFounded, WFMin
<1>2. \A y \in T : ~(y < x)
  BY <1>1 DEF Below
<1>3. QED
  BY <1>2

LEMMA Largest ==
    ASSUME NEW n \in Nat, NEW s \in SUBSET (1 .. n), s # {}
    PROVE  Max(s) \in s /\ \A y \in s : y <= Max(s)
<1> DEFINE T == {n - y : y \in s}
<1>1. T \subseteq Nat /\ T # {}
  <2>1. \A y \in 1 .. n : n - y \in Nat
    OBVIOUS
  <2>2. \A y \in s : y \in 1 .. n
    OBVIOUS
  <2>3. QED
    BY <2>1, <2>2
<1>2. PICK x \in T : \A y \in T : x <= y
  BY <1>1, Smallest
<1>3. PICK m \in s : x = n - m
  OBVIOUS
<1>4. \A y \in s : m >= y
  <2>1. SUFFICES ASSUME NEW y \in s PROVE m >= y
    OBVIOUS
  <2>2. n - m <= n - y
    BY <1>2, <1>3
  <2>3. QED
    BY <2>2
<1>5. Max(s) \in s /\ \A y \in s : Max(s) >= y
  BY <1>3, <1>4 DEF Max
<1>6. QED
  BY <1>5

\* The prefixes of a fold: a function of the sets of indices as the library's
\* fold takes them, the largest index last.
Folds(g, n, e, step) ==
    \A s \in SUBSET (1 .. n) :
        g[s] = IF s = {} THEN e ELSE step[<<g[s \ {Max(s)}], Max(s)>>]

Foldable(n, S, e, step) == \E g \in [SUBSET (1 .. n) -> S] : Folds(g, n, e, step)

LEMMA FoldExists ==
    ASSUME NEW n \in Nat, NEW S, NEW e \in S, NEW step \in [S \X (1 .. n) -> S]
    PROVE  Foldable(n, S, e, step)
<1> DEFINE Bad == {m \in 0 .. n : ~Foldable(m, S, e, step)}
<1>1. SUFFICES ASSUME n \in Bad PROVE FALSE
  OBVIOUS
<1>2. PICK m \in Bad : m \in Nat /\ \A k \in Bad : m <= k
  <2>1. Bad \subseteq Nat /\ Bad # {}
    BY <1>1
  <2> HIDE DEF Bad
  <2>2. QED
    BY <2>1, Smallest
<1>3. CASE m = 0
  <2> DEFINE g == [s \in SUBSET (1 .. m) |-> e]
  <2>1. g \in [SUBSET (1 .. m) -> S] /\ \A s \in SUBSET (1 .. m) : s = {}
    BY <1>3
  <2>2. QED
    BY <2>1 DEF Folds, Foldable
<1>4. CASE m # 0
  <2>1. m \in 1 .. n /\ m - 1 \in 0 .. n /\ m - 1 \notin Bad
    <3>1. m \in 0 .. n
      OBVIOUS
    <3>2. m \in 1 .. n /\ m - 1 \in 0 .. n /\ ~(m <= m - 1)
      BY <1>4, <3>1
    <3> HIDE DEF Bad
    <3>3. QED
      BY <1>2, <3>2
  <2>2. PICK g \in [SUBSET (1 .. (m - 1)) -> S] : Folds(g, m - 1, e, step)
    BY <2>1 DEF Foldable
  <2> DEFINE h == [s \in SUBSET (1 .. m) |-> IF m \in s THEN step[<<g[s \ {m}], m>>] ELSE g[s]]
  <2>3. \A s \in SUBSET (1 .. m) : s \ {m} \in SUBSET (1 .. (m - 1)) /\ (m \notin s => s \in SUBSET (1 .. (m - 1)))
    BY <2>1
  <2>4. h \in [SUBSET (1 .. m) -> S]
    <3>1. \A s \in SUBSET (1 .. (m - 1)) : g[s] \in S /\ step[<<g[s], m>>] \in S
      BY <2>1
    <3>2. \A s \in SUBSET (1 .. m) : (IF m \in s THEN step[<<g[s \ {m}], m>>] ELSE g[s]) \in S
      BY <2>3, <3>1
    <3>3. QED
      BY <3>2
  <2>5. ASSUME NEW s \in SUBSET (1 .. m), s # {} PROVE h[s] = step[<<h[s \ {Max(s)}], Max(s)>>]
    <3>1. Max(s) \in s /\ \A y \in s : y <= Max(s)
      BY <1>2, <2>5, Largest
    <3>2. CASE m \in s
      <4>1. Max(s) = m
        <5>1. Max(s) \in 1 .. m /\ m <= Max(s)
          BY <3>1, <3>2
        <5>2. QED
          BY <2>1, <5>1
      <4>2. h[s \ {m}] = g[s \ {m}]
        BY <2>3
      <4>3. QED
        BY <3>2, <4>1, <4>2
    <3>3. CASE m \notin s
      <4>1. s \ {Max(s)} \in SUBSET (1 .. m) /\ m \notin s \ {Max(s)}
        BY <3>3
      <4>2. h[s \ {Max(s)}] = g[s \ {Max(s)}] /\ h[s] = g[s]
        BY <3>3, <4>1
      <4>3. QED
        BY <2>2, <2>3, <2>5, <3>3, <4>2 DEF Folds
    <3>4. QED
      BY <3>2, <3>3
  <2>6. h[{}] = e
    BY <2>1, <2>2 DEF Folds
  <2>7. Folds(h, m, e, step)
    BY <2>5, <2>6 DEF Folds
  <2>8. QED
    BY <2>4, <2>7 DEF Foldable
<1>5. QED
  BY <1>3, <1>4
-----------------------------------------------------------------------------
\* The capabilities the server goes by and those the client knows of.

Names == [cap : STRING, upper : BOOLEAN]

Agree(enabled, known) ==
    /\ enabled \in SUBSET Names /\ known \in SUBSET Supported
    /\ known = {cap \in Supported : Has(enabled, cap)}

\* No capability is asked for in another case than that of its name.
AsSpelled(t) == t.upper => t.minus

\* One token keeps them in agreement.
LEMMA TokenAgrees ==
    ASSUME NEW t \in Token, AsSpelled(t), NEW enabled, NEW known, Agree(enabled, known)
    PROVE  Agree(ApplyToken(enabled, t), Acked(known, t))
<1>1. [cap |-> t.cap, upper |-> t.upper] \in Names /\ Supported \subseteq STRING
  BY RegistrationAssumption DEF Token, Names
<1>2. CASE t.cap \notin Supported
  BY <1>2 DEF Agree, ApplyToken, Acked
<1>3. CASE t.cap \in Supported /\ t.minus
  BY <1>3 DEF Agree, ApplyToken, Acked, Has
<1>4. CASE t.cap \in Supported /\ ~t.minus
  <2>1. [cap |-> t.cap, upper |-> t.upper] = [cap |-> t.cap, upper |-> FALSE]
    BY <1>4 DEF AsSpelled, Token
  <2>2. QED
    BY <1>1, <1>4, <2>1 DEF Agree, ApplyToken, Acked, Has
<1>5. QED
  BY <1>2, <1>3, <1>4

\* What the library's folds of a REQ are.
Enabled(e, req) == CHOOSE iter : iter = [s \in SUBSET DOMAIN req |->
    IF s = {} THEN e ELSE ApplyToken(iter[s \ {Max(s)}], req[Max(s)])]

Known(e, req) == CHOOSE iter : iter = [s \in SUBSET DOMAIN req |->
    IF s = {} THEN e ELSE Acked(iter[s \ {Max(s)}], req[Max(s)])]

LEMMA FoldsAre ==
    ASSUME NEW e, NEW k, NEW req
    PROVE  /\ FoldLeft(ApplyToken, e, req) = Enabled(e, req)[DOMAIN req]
           /\ FoldLeft(Acked, k, req) = Known(k, req)[DOMAIN req]
BY DEF FoldLeft, MapThenFoldSet, Enabled, Known

LEMMA PrefixLargest ==
    ASSUME NEW m \in Nat, m # 0
    PROVE  1 .. m # {} /\ Max(1 .. m) = m /\ (1 .. m) \ {m} = 1 .. (m - 1)
<1>1. 1 .. m # {} /\ m \in 1 .. m /\ (1 .. m) \ {m} = 1 .. (m - 1)
  OBVIOUS
<1>2. Max(1 .. m) \in 1 .. m /\ m <= Max(1 .. m)
  BY <1>1, Largest
<1>3. QED
  BY <1>1, <1>2

\* They take the tokens one by one, from the left.
LEMMA EnabledIs ==
    ASSUME NEW req \in Seq(Token), NEW e \in SUBSET Names
    PROVE  /\ Enabled(e, req)[1 .. 0] = e
           /\ \A m \in 1 .. Len(req) :
                Enabled(e, req)[1 .. m] = ApplyToken(Enabled(e, req)[1 .. (m - 1)], req[m])
<1> DEFINE n    == Len(req)
           step == [x \in (SUBSET Names) \X (1 .. n) |-> ApplyToken(x[1], req[x[2]])]
           F(iter) == [s \in SUBSET DOMAIN req |->
                         IF s = {} THEN e ELSE ApplyToken(iter[s \ {Max(s)}], req[Max(s)])]
<1>1. n \in Nat /\ DOMAIN req = 1 .. n /\ \A i \in 1 .. n : req[i] \in Token
  OBVIOUS
<1>2. \A x \in SUBSET Names, t \in Token : ApplyToken(x, t) \in SUBSET Names
  BY RegistrationAssumption DEF ApplyToken, Token, Names
<1>3. step \in [(SUBSET Names) \X (1 .. n) -> SUBSET Names]
  BY <1>1, <1>2
<1>4. \A x \in SUBSET Names, i \in 1 .. n : step[<<x, i>>] = ApplyToken(x, req[i])
  OBVIOUS
<1> HIDE DEF step, n
<1>5. PICK g \in [SUBSET (1 .. n) -> SUBSET Names] : Folds(g, n, e, step)
  BY <1>1, <1>3, FoldExists DEF Foldable
<1>6. ASSUME NEW s \in SUBSET (1 .. n), s # {} PROVE g[s] = ApplyToken(g[s \ {Max(s)}], req[Max(s)])
  <2>1. Max(s) \in 1 .. n /\ s \ {Max(s)} \in SUBSET (1 .. n)
    BY <1>1, <1>6, Largest
  <2>2. g[s \ {Max(s)}] \in SUBSET Names
    BY <2>1
  <2>3. QED
    BY <1>4, <1>5, <1>6, <2>1, <2>2 DEF Folds
<1>7. g[{}] = e
  BY <1>5 DEF Folds
<1>8. g = F(g)
  BY <1>1, <1>6, <1>7
<1>9. Enabled(e, req) = F(Enabled(e, req))
  BY <1>8 DEF Enabled
<1>10. \A s \in SUBSET (1 .. n) : Enabled(e, req)[s] =
          IF s = {} THEN e ELSE ApplyToken(Enabled(e, req)[s \ {Max(s)}], req[Max(s)])
  BY <1>1, <1>9
<1>11. ASSUME NEW m \in 1 .. n
       PROVE  Enabled(e, req)[1 .. m] = ApplyToken(Enabled(e, req)[1 .. (m - 1)], req[m])
  <2>1. m \in Nat /\ m # 0 /\ 1 .. m \in SUBSET (1 .. n)
    BY <1>1
  <2>2. QED
    BY <1>10, <2>1, PrefixLargest
<1>12. 1 .. 0 = {} /\ 1 .. 0 \in SUBSET (1 .. n)
  OBVIOUS
<1>13. QED
  BY <1>10, <1>11, <1>12 DEF n

LEMMA KnownIs ==
    ASSUME NEW req \in Seq(Token), NEW e \in SUBSET Supported
    PROVE  /\ Known(e, req)[1 .. 0] = e
           /\ \A m \in 1 .. Len(req) :
                Known(e, req)[1 .. m] = Acked(Known(e, req)[1 .. (m - 1)], req[m])
<1> DEFINE n    == Len(req)
           step == [x \in (SUBSET Supported) \X (1 .. n) |-> Acked(x[1], req[x[2]])]
           F(iter) == [s \in SUBSET DOMAIN req |->
                         IF s = {} THEN e ELSE Acked(iter[s \ {Max(s)}], req[Max(s)])]
<1>1. n \in Nat /\ DOMAIN req = 1 .. n /\ \A i \in 1 .. n : req[i] \in Token
  OBVIOUS
<1>2. \A x \in SUBSET Supported, t \in Token : Acked(x, t) \in SUBSET Supported
  BY DEF Acked
<1>3. step \in [(SUBSET Supported) \X (1 .. n) -> SUBSET Supported]
  BY <1>1, <1>2
<1>4. \A x \in SUBSET Supported, i \in 1 .. n : step[<<x, i>>] = Acked(x, req[i])
  OBVIOUS
<1> HIDE DEF step, n
<1>5. PICK g \in [SUBSET (1 .. n) -> SUBSET Supported] : Folds(g, n, e, step)
  BY <1>1, <1>3, FoldExists DEF Foldable
<1>6. ASSUME NEW s \in SUBSET (1 .. n), s # {} PROVE g[s] = Acked(g[s \ {Max(s)}], req[Max(s)])
  <2>1. Max(s) \in 1 .. n /\ s \ {Max(s)} \in SUBSET (1 .. n)
    BY <1>1, <1>6, Largest
  <2>2. g[s \ {Max(s)}] \in SUBSET Supported
    BY <2>1
  <2>3. QED
    BY <1>4, <1>5, <1>6, <2>1, <2>2 DEF Folds
<1>7. g[{}] = e
  BY <1>5 DEF Folds
<1>8. g = F(g)
  BY <1>1, <1>6, <1>7
<1>9. Known(e, req) = F(Known(e, req))
  BY <1>8 DEF Known
<1>10. \A s \in SUBSET (1 .. n) : Known(e, req)[s] =
          IF s = {} THEN e ELSE Acked(Known(e, req)[s \ {Max(s)}], req[Max(s)])
  BY <1>1, <1>9
<1>11. ASSUME NEW m \in 1 .. n
       PROVE  Known(e, req)[1 .. m] = Acked(Known(e, req)[1 .. (m - 1)], req[m])
  <2>1. m \in Nat /\ m # 0 /\ 1 .. m \in SUBSET (1 .. n)
    BY <1>1
  <2>2. QED
    BY <1>10, <2>1, PrefixLargest
<1>12. 1 .. 0 = {} /\ 1 .. 0 \in SUBSET (1 .. n)
  OBVIOUS
<1>13. QED
  BY <1>10, <1>11, <1>12 DEF n

\* And so does a whole REQ, however long: if it did not, there would be a
\* first token that does not.
LEMMA ReqAgrees ==
    ASSUME NEW req \in Seq(Token), \A i \in 1 .. Len(req) : AsSpelled(req[i]),
           NEW enabled, NEW known, Agree(enabled, known)
    PROVE  Agree(FoldLeft(ApplyToken, enabled, req), FoldLeft(Acked, known, req))
<1> DEFINE n == Len(req)
           e(m) == Enabled(enabled, req)[1 .. m]
           k(m) == Known(known, req)[1 .. m]
           Bad == {m \in 0 .. n : ~Agree(e(m), k(m))}
<1>1. n \in Nat /\ DOMAIN req = 1 .. n
  OBVIOUS
<1>2. Agree(e(n), k(n)) => Agree(FoldLeft(ApplyToken, enabled, req), FoldLeft(Acked, known, req))
  BY <1>1, FoldsAre
<1>3. e(0) = enabled /\ k(0) = known
  BY EnabledIs, KnownIs DEF Agree
<1>4. \A m \in 1 .. n : e(m) = ApplyToken(e(m - 1), req[m]) /\ k(m) = Acked(k(m - 1), req[m])
  BY EnabledIs, KnownIs DEF Agree
<1> HIDE DEF e, k, n
<1>5. ASSUME NEW m \in 1 .. n, Agree(e(m - 1), k(m - 1)) PROVE Agree(e(m), k(m))
  <2>1. req[m] \in Token /\ AsSpelled(req[m])
    BY DEF n
  <2>2. QED
    BY <1>4, <1>5, <2>1, TokenAgrees
<1>6. SUFFICES ASSUME n \in Bad PROVE FALSE
  BY <1>1, <1>2
<1>7. PICK m \in Bad : \A i \in Bad : m <= i
  <2>1. Bad \subseteq Nat /\ Bad # {}
    BY <1>6
  <2> HIDE DEF Bad
  <2>2. QED
    BY <2>1, Smallest
<1>8. m \in 1 .. n
  BY <1>3
<1>9. m - 1 \in 0 .. n /\ ~(m <= m - 1)
  BY <1>1, <1>8
<1>10. Agree(e(m - 1), k(m - 1))
  BY <1>7, <1>9
<1>11. QED
  BY <1>5, <1>8, <1>10

\* Only a REQ changes capabilities.
LEMMA CommandAgrees ==
    ASSUME \A req \in Requests : \A i \in 1 .. Len(req) : AsSpelled(req[i]),
           Credentials(reg), Agree(reg.caps, client.caps), DOMAIN client = {"caps", "loggedIn"}, Command
    PROVE  Agree(reg.caps, client.caps)'
<1>1. CASE \E req \in Requests : CapReq(req)
  <2>1. PICK req \in Requests : CapReq(req)
    BY <1>1
  <2> DEFINE enabled == FoldLeft(ApplyToken, reg.caps, req)
             known   == FoldLeft(Acked, client.caps, req)
  <2>2. Agree(enabled, known)
    BY <2>1, ReqAgrees, RegistrationAssumption
  <2>3. /\ reg' = [reg EXCEPT !.caps = enabled, !.capStarted = TRUE]
        /\ client' = [client EXCEPT !.caps = known]
    BY <2>1 DEF CapReq, Handled
  <2> HIDE DEF enabled, known
  <2>4. reg'.caps = enabled /\ client'.caps = known
    BY <2>3 DEF Credentials, Fields
  <2>5. QED
    BY <2>2, <2>4
<1>2. CASE ~\E req \in Requests : CapReq(req)
  <2>1. reg'.caps = reg.caps
    BY <1>2 DEF Command, Pass, Nick, User, CapLs, CapEnd, AuthPlain, AuthFails, AuthPayload,
                Quit, Handled, Credentials, Fields
  <2>2. client'.caps = client.caps
    BY <1>2 DEF Command, Pass, Nick, User, CapLs, CapEnd, AuthPlain, AuthFails, AuthPayload, Quit
  <2>3. QED
    BY <2>1, <2>2
<1>3. QED
  BY <1>1, <1>2

\* The capabilities a client makes of the ACKs of its REQs are those the
\* server goes by, after any sequence of requests, each of any length, when
\* every capability that is asked for is spelled in lower case.
THEOREM ClientKnowsCaps ==
    ASSUME \A req \in Requests : \A i \in 1 .. Len(req) : AsSpelled(req[i])
    PROVE  RegSpec => []CapsAgree
<1>1. RegInit => Agree(reg.caps, client.caps)
  <2>1. RegInit => reg.caps = {} /\ client.caps = {}
    BY DEF RegInit, Fresh
  <2>2. QED
    BY <2>1 DEF Agree, Has
<1>2. RegInv /\ Agree(reg.caps, client.caps) /\ [RegNext]_allVars => Agree(reg.caps, client.caps)'
  <2>1. ASSUME RegInv, Agree(reg.caps, client.caps), RegNext PROVE Agree(reg.caps, client.caps)'
    <3>1. CASE Command
      BY <2>1, <3>1, CommandAgrees DEF RegInv, Faithful
    <3>2. CASE UNCHANGED regVars
      BY <2>1, <3>2 DEF regVars
    <3>3. QED
      BY <2>1, <3>1, <3>2 DEF RegNext
  <2>2. QED
    BY <2>1 DEF allVars, regVars
<1>3. Agree(reg.caps, client.caps) => CapsAgree
  BY DEF Agree, CapsAgree
<1>4. QED
  BY <1>1, <1>2, <1>3, RegInvariance, PTL DEF RegSpec
=============================================================================
