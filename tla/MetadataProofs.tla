--------------------------- MODULE MetadataProofs ---------------------------
(***************************************************************************)
(* Proofs about MediaCache (the .part protocol and the signed links, for   *)
(* any number of tasks, files and restarts) and about the METADATA         *)
(* commands that use it, for any commands, members, avatars and tasks.     *)
(***************************************************************************)
EXTENDS Metadata, FiniteSetTheorems, SequenceTheorems, TLAPS

Holding(t, n) == fetch[t].pc \in {"write", "rename"} /\ fetch[t].name = n

\* A task nobody has truncated: when it has written, the file is whole.
Finisher(t, n, where) == HasOpen(t, n, where) /\ fetch[t].pc = "write" /\ ~fetch[t].cut

\* What a call knows at each of its steps, and that only a running server has
\* calls.
Placed == \A t \in Tasks :
    /\ fetch[t].pc = "download" => fetch[t].media \in Media
    /\ fetch[t].pc \in {"open", "write", "rename"} => fetch[t].name \in Names
    /\ fetch[t].pc \in {"download", "open"} => ~fetch[t].cut
    /\ fetch[t].pc = "done" /\ fetch[t].name # NoName => Exists(fetch[t].name)
    /\ fetch[t].pc # "idle" => server = "up"

\* A .part file that is not whole is left over, with nobody to rename it, or
\* being written by a task nobody has truncated since.
PartInv == \A n \in Names :
    part[n] = "torn" => \/ n \in cut
                        \/ \A t \in Tasks : ~Holding(t, n)
                        \/ \E t \in Tasks : Finisher(t, n, "part")

FileInv == \A n \in Names :
    file[n] = "torn" => n \in cut \/ \E t \in Tasks : Finisher(t, n, "file")

\* The secret is made before the first link and is the key of every link and
\* of every server after that, but for the keys that are lost.
KeyInv ==
    /\ server # "down" => key \in Keys
    /\ server = "starting" => secret \notin Keys
    /\ server = "up" => key = secret \/ (key \in lost /\ {secret} \cap Keys \subseteq lost)
    /\ \A l \in links : l.key = secret \/ l.key \in lost
    /\ "io" \notin MediaFaults => lost = {}

LinkInv == \A l \in links : Exists(l.name)

IInv == MediaTypeOK /\ Placed /\ PartInv /\ FileInv /\ KeyInv /\ LinkInv

-----------------------------------------------------------------------------
\* The name an avatar is found under is that of a file in the cache.
LEMMA FoundExists ==
    ASSUME NEW m \in Media
    PROVE  FoundAvatar(m) = NoName \/ (FoundAvatar(m) \in Names /\ Exists(FoundAvatar(m)))
<1> DEFINE first == {i \in DOMAIN Probed[m] :
                       /\ Exists(Probed[m][i])
                       /\ \A j \in 1 .. (i - 1) : ~Exists(Probed[m][j])}
<1>1. FoundAvatar(m) = IF first = {} THEN NoName ELSE Probed[m][CHOOSE i \in first : TRUE]
  BY DEF FoundAvatar
<1>2. ASSUME first # {} PROVE (CHOOSE i \in first : TRUE) \in first
  <2> HIDE DEF first
  <2>1. QED
    BY <1>2
<1>3. QED
  BY <1>1, <1>2, MediaAssumption

LEMMA IdleShape == Idle \in Fetch /\ Idle.pc = "idle" /\ Idle.fd = "none"
BY DEF Idle, Fetch

\* A step of one call leaves the others as they are.
LEMMA StepShape ==
    ASSUME MediaTypeOK, NEW t \in Tasks, NEW f \in Fetch, Step(t, f)
    PROVE  /\ fetch' \in [Tasks -> Fetch]
           /\ fetch'[t] = f
           /\ \A u \in Tasks : u # t => fetch'[u] = fetch[u]
BY DEF MediaTypeOK, Step

LEMMA EndsShape ==
    ASSUME MediaTypeOK, NEW t \in Tasks, NEW n \in Names \cup {NoName}, Ends(t, n)
    PROVE  /\ fetch' \in [Tasks -> Fetch]
           /\ fetch'[t].pc = "done" /\ fetch'[t].name = n
           /\ \A u \in Tasks : u # t => fetch'[u] = fetch[u]
<1> DEFINE f == [Idle EXCEPT !.pc = "done", !.media = fetch[t].media, !.name = n]
<1>1. f \in Fetch /\ f.pc = "done" /\ f.name = n
  BY DEF MediaTypeOK, Fetch, Idle
<1>2. Step(t, f)
  BY DEF Ends
<1> HIDE DEF f
<1>3. QED
  BY <1>1, <1>2, StepShape

LEMMA InitHolds == MediaInit => IInv
<1> SUFFICES ASSUME MediaInit PROVE IInv
  OBVIOUS
<1>1. MediaTypeOK
  BY IdleShape DEF MediaInit, MediaTypeOK, Content
<1>2. Placed
  BY IdleShape DEF MediaInit, Placed
<1>3. PartInv /\ FileInv
  BY DEF MediaInit, PartInv, FileInv
<1>4. KeyInv /\ LinkInv
  BY DEF MediaInit, KeyInv, LinkInv, Keys
<1>5. QED
  BY <1>1, <1>2, <1>3, <1>4 DEF IInv

-----------------------------------------------------------------------------
\* A task that was not writing and that now has no file open disturbs neither
\* invariant of the files.
LEMMA OthersFinish ==
    ASSUME IInv, NEW t \in Tasks, UNCHANGED <<file, part, cut>>,
           \A u \in Tasks : u # t => fetch'[u] = fetch[u],
           fetch[t].pc # "write", fetch'[t].pc \notin {"write", "rename"}
    PROVE  PartInv' /\ FileInv'
<1>1. \A n \in Names, w \in {"part", "file"}, u \in Tasks :
         Finisher(u, n, w) => Finisher(u, n, w)'
  BY DEF Finisher, HasOpen
<1>2. \A n \in Names, u \in Tasks : Holding(u, n)' => Holding(u, n)
  BY DEF Holding
<1>3. PartInv'
  BY <1>1, <1>2 DEF IInv, PartInv
<1>4. FileInv'
  BY <1>1 DEF IInv, FileInv
<1>5. QED
  BY <1>3, <1>4

\* The server's secret.
LEMMA SecretKeeps ==
    ASSUME IInv, LoadSecret \/ MakeSecret \/ StoreSecret
    PROVE  IInv'
<1>1. UNCHANGED <<file, part, fetch, failed, links, cut>>
  BY DEF LoadSecret, MakeSecret, NewKey, StoreSecret
<1>2. \A t \in Tasks : fetch[t].pc = "idle"
  BY DEF IInv, Placed, LoadSecret, MakeSecret, NewKey, StoreSecret
<1>3. Placed' /\ PartInv' /\ FileInv' /\ LinkInv'
  BY <1>1, <1>2 DEF IInv, Placed, PartInv, FileInv, LinkInv, Finisher, HasOpen, Holding, Exists
<1>4. ASSUME NewKey PROVE key' \in Keys
  <2>1. Unused # {} /\ key' = CHOOSE k \in Unused : TRUE
    BY <1>4 DEF NewKey
  <2>2. (CHOOSE k \in Unused : TRUE) \in Unused
    <3> DEFINE S == Unused
    <3>1. S # {}
      BY <2>1
    <3> HIDE DEF S
    <3>2. (CHOOSE k \in S : TRUE) \in S
      BY <3>1
    <3>3. QED
      BY <3>2 DEF S
  <2>3. QED
    BY <2>1, <2>2 DEF Unused
<1>5. /\ server' \in {"starting", "up"} /\ lost' \in SUBSET Keys
      /\ secret' \in {0} \cup Keys /\ key' \in {0} \cup Keys
  <2>1. CASE LoadSecret
    BY <2>1 DEF IInv, MediaTypeOK, LoadSecret
  <2>2. CASE MakeSecret
    BY <1>4, <2>2 DEF IInv, MediaTypeOK, MakeSecret, Passed
  <2>3. CASE StoreSecret
    BY <2>3 DEF IInv, MediaTypeOK, KeyInv, StoreSecret
  <2>4. QED
    BY <2>1, <2>2, <2>3
<1>6. MediaTypeOK'
  BY <1>1, <1>5 DEF IInv, MediaTypeOK
<1>7. KeyInv'
  <2>1. CASE LoadSecret
    BY <1>1, <2>1 DEF IInv, KeyInv, LoadSecret
  <2>2. CASE MakeSecret
    <3>1. 0 \notin Keys /\ key' \in Keys
      BY <1>4, <2>2 DEF MakeSecret, Keys
    <3>2. \A l \in links : l.key \in Keys
      BY DEF IInv, MediaTypeOK, Link
    <3>3. \A l \in links : l.key \in Passed
      BY <3>2 DEF IInv, KeyInv, Passed
    <3>4. "io" \notin MediaFaults => Passed = {}
      BY <2>2 DEF MakeSecret, NewKey, Unread, Passed, IInv, KeyInv
    <3>5. CASE server' = "starting" /\ secret' = 0 /\ lost' = Passed
      BY <1>1, <3>1, <3>3, <3>4, <3>5 DEF KeyInv
    <3>6. CASE /\ "io" \in MediaFaults
               /\ server' = "up" /\ lost' = Passed \cup {key'} /\ UNCHANGED secret
      BY <1>1, <3>1, <3>3, <3>6 DEF KeyInv, Passed
    <3>7. QED
      BY <2>2, <3>5, <3>6 DEF MakeSecret
  <2>3. CASE StoreSecret
    <3>1. \A l \in links : l.key \in lost
      BY <2>3 DEF IInv, KeyInv, MediaTypeOK, Link, StoreSecret
    <3>2. QED
      BY <1>1, <2>3, <3>1 DEF IInv, KeyInv, StoreSecret
  <2>4. QED
    BY <2>1, <2>2, <2>3
<1>8. QED
  BY <1>3, <1>6, <1>7 DEF IInv

LEMMA FailureExpiresKeeps ==
    ASSUME IInv, NEW m \in Media, FailureExpires(m)
    PROVE  IInv'
BY DEF IInv, MediaTypeOK, Placed, PartInv, FileInv, KeyInv, LinkInv, Finisher, HasOpen, Holding,
   Exists, FailureExpires

\* The start of a call.
LEMMA FetchKeeps ==
    ASSUME IInv, NEW t \in Tasks, NEW m \in Media, FetchAttachment(t, m) \/ FetchAvatar(t, m)
    PROVE  IInv'
<1>1. PICK n \in Names \cup {NoName}, pc \in {"done", "download"} :
        /\ Step(t, [Idle EXCEPT !.pc = pc, !.media = m, !.name = n])
        /\ pc = "done" => n = NoName \/ Exists(n)
  BY FoundExists, MediaAssumption DEF FetchAttachment, FetchAvatar
<1> DEFINE f == [Idle EXCEPT !.pc = pc, !.media = m, !.name = n]
<1>2. f \in Fetch /\ f.pc = pc /\ f.media = m /\ f.name = n /\ ~f.cut
  BY DEF Fetch, Idle
<1> HIDE DEF f
<1>3. /\ server = "up" /\ fetch[t].pc = "idle"
      /\ UNCHANGED <<server, file, part, failed, secret, key, links, cut, lost>>
  BY DEF FetchAttachment, FetchAvatar
<1>4. /\ fetch' \in [Tasks -> Fetch] /\ fetch'[t] = f
      /\ \A u \in Tasks : u # t => fetch'[u] = fetch[u]
  BY <1>1, <1>2, StepShape DEF IInv, f
<1>5. MediaTypeOK'
  BY <1>3, <1>4 DEF IInv, MediaTypeOK
<1>6. Placed'
  BY <1>1, <1>2, <1>3, <1>4 DEF IInv, Placed, Exists
<1>7. PartInv' /\ FileInv'
  BY <1>2, <1>3, <1>4, OthersFinish
<1>8. KeyInv' /\ LinkInv'
  BY <1>3 DEF IInv, KeyInv, LinkInv, Exists
<1>9. QED
  BY <1>5, <1>6, <1>7, <1>8 DEF IInv

LEMMA DownloadedKeeps ==
    ASSUME IInv, NEW t \in Tasks, Downloaded(t)
    PROVE  IInv'
<1> DEFINE n == IF fetch[t].name = NoName THEN AvatarName[fetch[t].media] ELSE fetch[t].name
           f == [fetch[t] EXCEPT !.pc = "open", !.name = n]
<1>1. /\ fetch[t].pc = "download" /\ Step(t, f)
      /\ UNCHANGED <<server, file, part, failed, secret, key, links, cut, lost>>
  BY DEF Downloaded
<1>2. fetch[t] \in Fetch /\ fetch[t].media \in Media /\ ~fetch[t].cut
  BY <1>1 DEF IInv, MediaTypeOK, Placed
<1>3. n \in Names
  BY <1>2, MediaAssumption DEF Fetch
<1>4. f \in Fetch /\ f.pc = "open" /\ f.name = n /\ ~f.cut
  BY <1>2, <1>3 DEF Fetch
<1> HIDE DEF n, f
<1>5. /\ fetch' \in [Tasks -> Fetch] /\ fetch'[t] = f
      /\ \A u \in Tasks : u # t => fetch'[u] = fetch[u]
  BY <1>1, <1>4, StepShape DEF IInv
<1>6. MediaTypeOK'
  BY <1>1, <1>5 DEF IInv, MediaTypeOK
<1>7. Placed'
  BY <1>1, <1>3, <1>4, <1>5 DEF IInv, Placed, Exists
<1>8. PartInv' /\ FileInv'
  BY <1>1, <1>4, <1>5, OthersFinish
<1>9. KeyInv' /\ LinkInv'
  BY <1>1 DEF IInv, KeyInv, LinkInv, Exists
<1>10. QED
  BY <1>6, <1>7, <1>8, <1>9 DEF IInv

\* A call that fails without anything of its own under the two names.
LEMMA EndKeeps ==
    ASSUME IInv, NEW t \in Tasks, DownloadFails(t) \/ RenameFails(t)
    PROVE  IInv'
<1>1. /\ fetch[t].pc \in {"download", "rename"} /\ Ends(t, NoName)
      /\ UNCHANGED <<server, file, part, secret, key, links, cut, lost>>
  BY DEF DownloadFails, RenameFails
<1>2. /\ fetch' \in [Tasks -> Fetch]
      /\ fetch'[t].pc = "done" /\ fetch'[t].name = NoName
      /\ \A u \in Tasks : u # t => fetch'[u] = fetch[u]
  BY <1>1, EndsShape DEF IInv
<1>3. failed' \in SUBSET Media
  BY DEF IInv, MediaTypeOK, Placed, DownloadFails, RenameFails
<1>4. MediaTypeOK'
  BY <1>1, <1>2, <1>3 DEF IInv, MediaTypeOK
<1>5. Placed'
  BY <1>1, <1>2 DEF IInv, Placed, Exists
<1>6. PartInv' /\ FileInv'
  BY <1>1, <1>2, OthersFinish
<1>7. KeyInv' /\ LinkInv'
  BY <1>1 DEF IInv, KeyInv, LinkInv, Exists
<1>8. QED
  BY <1>4, <1>5, <1>6, <1>7 DEF IInv

LEMMA TakeFetchedKeeps ==
    ASSUME IInv, NEW t \in Tasks, TakeFetched(t)
    PROVE  IInv'
<1>1. /\ fetch[t].pc = "done" /\ Step(t, Idle)
      /\ UNCHANGED <<server, file, part, failed, secret, key, cut, lost>>
  BY DEF TakeFetched
<1>2. /\ fetch' \in [Tasks -> Fetch] /\ fetch'[t] = Idle
      /\ \A u \in Tasks : u # t => fetch'[u] = fetch[u]
  BY <1>1, IdleShape, StepShape DEF IInv
<1>3. server = "up" /\ key \in Keys /\ fetch[t].name \in Names \cup {NoName}
  BY <1>1 DEF IInv, Placed, KeyInv, MediaTypeOK, Fetch
<1>4. ASSUME NEW l \in links', l \notin links
      PROVE  l = [name |-> fetch[t].name, key |-> key] /\ fetch[t].name # NoName
  BY <1>4 DEF TakeFetched, GiveLink
<1>5. links' \in SUBSET Link
  <2>1. CASE links' = links
    BY <2>1 DEF IInv, MediaTypeOK
  <2>2. CASE GiveLink(fetch[t].name) /\ fetch[t].name # NoName
    BY <2>2, <1>3 DEF IInv, MediaTypeOK, GiveLink, Link
  <2>3. QED
    BY <2>1, <2>2 DEF TakeFetched
<1>6. MediaTypeOK'
  BY <1>1, <1>2, <1>5 DEF IInv, MediaTypeOK
<1>7. Placed'
  BY <1>1, <1>2, IdleShape DEF IInv, Placed, Exists
<1>8. PartInv' /\ FileInv'
  BY <1>1, <1>2, IdleShape, OthersFinish
<1>9. KeyInv'
  BY <1>1, <1>3, <1>4 DEF IInv, KeyInv
<1>10. LinkInv'
  <2>1. fetch[t].name # NoName => Exists(fetch[t].name)
    BY <1>1 DEF IInv, Placed
  <2>2. QED
    BY <1>1, <1>4, <2>1 DEF IInv, LinkInv, Exists
<1>11. QED
  BY <1>6, <1>7, <1>8, <1>9, <1>10 DEF IInv

\* Opening the .part file makes its opener the one who finishes it.
LEMMA OpenKeeps ==
    ASSUME IInv, NEW t \in Tasks, Open(t)
    PROVE  IInv'
<1>1. PICK n \in Names : n = fetch[t].name
  BY DEF Open, IInv, Placed
<1>2. /\ fetch[t].pc = "open" /\ ~fetch[t].cut
      /\ part' = [part EXCEPT ![n] = "torn"]
      /\ UNCHANGED <<server, file, failed, secret, key, links, cut, lost>>
  BY <1>1 DEF Open, IInv, Placed
<1>3. /\ fetch'[t] \in Fetch
      /\ fetch'[t].pc = "write" /\ fetch'[t].name = n
      /\ fetch'[t].fd = "part" /\ ~fetch'[t].cut
  <2>1. fetch'[t] = [fetch[t] EXCEPT !.pc = "write", !.fd = "part"]
    BY DEF Open
  <2>2. fetch[t] \in Fetch
    BY DEF IInv, MediaTypeOK
  <2>3. QED
    BY <1>1, <1>2, <2>1, <2>2 DEF Fetch
<1>4. ASSUME NEW u \in Tasks, u # t
      PROVE  /\ fetch'[u] \in Fetch
             /\ fetch'[u].pc = fetch[u].pc /\ fetch'[u].name = fetch[u].name
             /\ fetch'[u].media = fetch[u].media /\ fetch'[u].fd = fetch[u].fd
             /\ fetch'[u] = fetch[u] \/ HasOpen(u, n, "part")
  <2>1. fetch[u] \in Fetch
    BY DEF IInv, MediaTypeOK
  <2>2. CASE HasOpen(u, n, "part")
    <3>1. fetch'[u] = [fetch[u] EXCEPT !.cut = TRUE]
      BY <1>1, <1>4, <2>2 DEF Open
    <3>2. QED
      BY <2>1, <2>2, <3>1 DEF Fetch
  <2>3. CASE ~HasOpen(u, n, "part")
    BY <1>1, <1>4, <2>1, <2>3 DEF Open
  <2>4. QED
    BY <2>2, <2>3
<1>5. MediaTypeOK'
  <2>1. fetch' \in [Tasks -> Fetch]
    <3>1. fetch' = [u \in Tasks |-> fetch'[u]]
      BY DEF Open
    <3>2. QED
      BY <1>3, <1>4, <3>1
  <2>2. QED
    BY <1>2, <2>1 DEF IInv, MediaTypeOK, Content
<1>6. Placed'
  BY <1>2, <1>3, <1>4 DEF IInv, Placed, Exists, HasOpen
<1>7. PartInv'
  <2>1. Finisher(t, n, "part")'
    BY <1>3 DEF Finisher, HasOpen
  <2>2. ASSUME NEW m \in Names, m # n PROVE part'[m] = part[m]
    BY <1>2, <2>2 DEF IInv, MediaTypeOK
  <2>3. ASSUME NEW m \in Names, m # n, NEW u \in Tasks
        PROVE  /\ Holding(u, m)' => Holding(u, m)
               /\ Finisher(u, m, "part") => Finisher(u, m, "part")'
    BY <1>1, <1>2, <1>3, <1>4, <2>3 DEF Finisher, Holding, HasOpen
  <2>4. QED
    BY <1>2, <2>1, <2>2, <2>3 DEF IInv, PartInv
<1>8. FileInv'
  BY <1>2, <1>3, <1>4 DEF IInv, FileInv, Finisher, HasOpen
<1>9. KeyInv' /\ LinkInv'
  BY <1>2 DEF IInv, KeyInv, LinkInv, Exists
<1>10. QED
  BY <1>5, <1>6, <1>7, <1>8, <1>9 DEF IInv

\* What a write leaves is whole, or what was there before in a file another
\* task is still writing.
LEMMA WriteKeeps ==
    ASSUME IInv, NEW t \in Tasks, Write(t)
    PROVE  IInv'
<1>1. PICK n \in Names : n = fetch[t].name
  BY DEF Write, IInv, Placed
<1>2. /\ fetch[t].pc = "write" /\ fetch[t] \in Fetch
      /\ UNCHANGED <<server, failed, secret, key, links, cut, lost>>
  BY DEF Write, IInv, MediaTypeOK
<1>3. /\ fetch' \in [Tasks -> Fetch]
      /\ fetch'[t].pc = "rename" /\ fetch'[t].name = n
      /\ \A u \in Tasks : u # t => fetch'[u] = fetch[u]
  <2>1. [fetch[t] EXCEPT !.pc = "rename"] \in Fetch
    BY <1>2 DEF Fetch
  <2>2. Step(t, [fetch[t] EXCEPT !.pc = "rename"])
    BY DEF Write, Goes
  <2>3. QED
    BY <1>1, <1>2, <2>1, <2>2, StepShape DEF IInv, Fetch
<1>4. /\ part' \in [Names -> Content] /\ file' \in [Names -> Content]
      /\ \A m \in Names : m # n => part'[m] = part[m] /\ file'[m] = file[m]
      /\ part'[n] # part[n] => fetch[t].fd = "part" /\ part'[n] = "whole"
      /\ file'[n] # file[n] => fetch[t].fd = "file" /\ file'[n] = "whole"
      /\ fetch[t].fd = "part" /\ ~fetch[t].cut => part'[n] = "whole"
      /\ fetch[t].fd = "file" /\ ~fetch[t].cut => file'[n] = "whole"
  <2>1. CASE fetch[t].fd = "part"
    <3>1. PICK c \in Written(t, part[n]) : part' = [part EXCEPT ![n] = c]
      BY <1>1, <2>1 DEF Write
    <3>2. c \in Content /\ (c = part[n] \/ c = "whole") /\ (~fetch[t].cut => c = "whole")
      BY <3>1 DEF Written, IInv, MediaTypeOK, Content
    <3>3. file' = file
      BY <2>1 DEF Write
    <3>4. QED
      BY <2>1, <3>1, <3>2, <3>3 DEF IInv, MediaTypeOK
  <2>2. CASE fetch[t].fd = "file"
    <3>1. PICK c \in Written(t, file[n]) : file' = [file EXCEPT ![n] = c]
      BY <1>1, <2>2 DEF Write
    <3>2. c \in Content /\ (c = file[n] \/ c = "whole") /\ (~fetch[t].cut => c = "whole")
      BY <3>1 DEF Written, IInv, MediaTypeOK, Content
    <3>3. part' = part
      BY <2>2 DEF Write
    <3>4. QED
      BY <2>2, <3>1, <3>2, <3>3 DEF IInv, MediaTypeOK
  <2>3. CASE fetch[t].fd \notin {"part", "file"}
    <3>1. UNCHANGED <<file, part>>
      BY <2>3 DEF Write
    <3>2. QED
      BY <2>3, <3>1 DEF IInv, MediaTypeOK
  <2>4. QED
    BY <2>1, <2>2, <2>3
<1>5. MediaTypeOK'
  BY <1>2, <1>3, <1>4 DEF IInv, MediaTypeOK
<1>6. \A m \in Names : Exists(m) => Exists(m)'
  <2>1. ASSUME NEW m \in Names PROVE file'[m] = file[m] \/ file'[m] = "whole"
    BY <1>4, <2>1
  <2>2. QED
    BY <2>1 DEF Exists
<1>7. Placed'
  <2>1. ASSUME NEW u \in Tasks, fetch[u].name # NoName PROVE fetch[u].name \in Names
    BY <2>1 DEF IInv, MediaTypeOK, Fetch
  <2>2. QED
    BY <1>2, <1>3, <1>6, <2>1 DEF IInv, Placed
<1>8. PartInv'
  <2>1. ASSUME NEW m \in Names, m # n, NEW u \in Tasks
        PROVE  /\ Holding(u, m)' => Holding(u, m)
               /\ Finisher(u, m, "part") => Finisher(u, m, "part")'
    BY <1>1, <1>3, <2>1 DEF Finisher, Holding, HasOpen
  <2>2. ASSUME NEW u \in Tasks, u # t
        PROVE  Finisher(u, n, "part") => Finisher(u, n, "part")'
    BY <1>3, <2>2 DEF Finisher, HasOpen
  <2>3. Holding(t, n)
    BY <1>1, <1>2 DEF Holding
  <2>4. part'[n] = "torn" => part[n] = "torn" /\ ~Finisher(t, n, "part")
    BY <1>4 DEF Finisher, HasOpen
  <2>5. QED
    BY <1>2, <1>4, <2>1, <2>2, <2>3, <2>4 DEF IInv, PartInv
<1>9. FileInv'
  <2>1. ASSUME NEW m \in Names, NEW u \in Tasks, m # n \/ u # t
        PROVE  Finisher(u, m, "file") => Finisher(u, m, "file")'
    BY <1>1, <1>3, <2>1 DEF Finisher, HasOpen
  <2>2. file'[n] = "torn" => file[n] = "torn" /\ ~Finisher(t, n, "file")
    BY <1>4 DEF Finisher, HasOpen
  <2>3. QED
    BY <1>2, <1>4, <2>1, <2>2 DEF IInv, FileInv
<1>10. KeyInv' /\ LinkInv'
  BY <1>2, <1>6 DEF IInv, KeyInv, LinkInv, MediaTypeOK, Link
<1>11. QED
  BY <1>5, <1>7, <1>8, <1>9, <1>10 DEF IInv

\* A write that breaks off leaves a torn file to somebody else, which `cut`
\* notes, or to nobody.
LEMMA WriteFailsKeeps ==
    ASSUME IInv, NEW t \in Tasks, WriteFails(t)
    PROVE  IInv'
<1>1. PICK n \in Names : n = fetch[t].name
  BY DEF WriteFails, IInv, Placed
<1>2. /\ fetch[t].pc \in {"open", "write"} /\ Ends(t, NoName)
      /\ cut' = IF Shared(t) THEN cut \cup {n} ELSE cut
      /\ UNCHANGED <<server, file, part, failed, secret, key, links, lost>>
  BY <1>1 DEF WriteFails
<1>3. /\ fetch' \in [Tasks -> Fetch]
      /\ fetch'[t].pc = "done" /\ fetch'[t].name = NoName
      /\ \A u \in Tasks : u # t => fetch'[u] = fetch[u]
  BY <1>2, EndsShape DEF IInv
<1>4. MediaTypeOK'
  BY <1>2, <1>3 DEF IInv, MediaTypeOK
<1>5. Placed'
  BY <1>2, <1>3 DEF IInv, Placed, Exists
<1>6. ASSUME NEW m \in Names, NEW u \in Tasks
      PROVE  /\ Holding(u, m)' => Holding(u, m) /\ u # t
             /\ u # t => (Finisher(u, m, "part") => Finisher(u, m, "part")')
             /\ u # t => (Finisher(u, m, "file") => Finisher(u, m, "file")')
  BY <1>3, <1>6 DEF Holding, Finisher, HasOpen
<1>7. ASSUME NEW m \in Names, Finisher(t, m, "part") \/ Finisher(t, m, "file")
      PROVE  m = n /\ fetch[t].pc = "write"
  BY <1>1, <1>7 DEF Finisher, HasOpen
<1>8. PartInv'
  <2>1. ASSUME Finisher(t, n, "part"), n \notin cut' PROVE \A u \in Tasks : ~Holding(u, n)'
    BY <1>1, <1>2, <1>6, <1>7, <2>1 DEF Shared, Holding
  <2>2. cut \subseteq cut'
    BY <1>2
  <2>3. QED
    BY <1>2, <1>6, <1>7, <2>1, <2>2 DEF IInv, PartInv
<1>9. FileInv'
  <2>1. Finisher(t, n, "file") => n \in cut'
    BY <1>2 DEF Shared, Finisher, HasOpen
  <2>2. cut \subseteq cut'
    BY <1>2
  <2>3. QED
    BY <1>2, <1>6, <1>7, <2>1, <2>2 DEF IInv, FileInv
<1>10. KeyInv' /\ LinkInv'
  BY <1>2 DEF IInv, KeyInv, LinkInv, Exists
<1>11. QED
  BY <1>4, <1>5, <1>8, <1>9, <1>10 DEF IInv

\* A rename takes the .part file with whoever is writing it.
LEMMA RenameKeeps ==
    ASSUME IInv, NEW t \in Tasks, Rename(t)
    PROVE  IInv'
<1>1. PICK n \in Names : n = fetch[t].name
  BY DEF Rename, IInv, Placed
<1>2. /\ fetch[t].pc = "rename" /\ fetch[t].media \in Media \cup {NoMedia}
      /\ part[n] # "absent"
      /\ file' = [file EXCEPT ![n] = part[n]]
      /\ part' = [part EXCEPT ![n] = "absent"]
      /\ UNCHANGED <<server, failed, secret, key, links, cut, lost>>
  BY <1>1 DEF Rename, IInv, MediaTypeOK, Fetch
<1>3. fetch'[t] \in Fetch /\ fetch'[t].pc = "done" /\ fetch'[t].name = n
  <2>1. fetch'[t] = [Idle EXCEPT !.pc = "done", !.media = fetch[t].media, !.name = n]
    BY <1>1 DEF Rename
  <2>2. QED
    BY <1>2, <2>1 DEF Fetch, Idle
<1>4. ASSUME NEW u \in Tasks, u # t
      PROVE  /\ fetch'[u] \in Fetch
             /\ fetch'[u].pc = fetch[u].pc /\ fetch'[u].name = fetch[u].name
             /\ fetch'[u].media = fetch[u].media /\ fetch'[u].cut = fetch[u].cut
             /\ HasOpen(u, n, "part") => fetch'[u].fd = "file"
             /\ fetch[u].name # n => fetch'[u] = fetch[u]
  <2>1. fetch[u] \in Fetch
    BY DEF IInv, MediaTypeOK
  <2>2. CASE HasOpen(u, n, "part")
    <3>1. fetch'[u] = [fetch[u] EXCEPT !.fd = "file"]
      BY <1>1, <1>4, <2>2 DEF Rename
    <3>2. QED
      BY <2>1, <2>2, <3>1 DEF Fetch, HasOpen
  <2>3. CASE ~HasOpen(u, n, "part") /\ HasOpen(u, n, "file")
    <3>1. fetch'[u] = [fetch[u] EXCEPT !.fd = "gone"]
      BY <1>1, <1>4, <2>3 DEF Rename
    <3>2. QED
      BY <2>1, <2>3, <3>1 DEF Fetch, HasOpen
  <2>4. CASE ~HasOpen(u, n, "part") /\ ~HasOpen(u, n, "file")
    <3>1. fetch'[u] = fetch[u]
      BY <1>1, <1>4, <2>4 DEF Rename
    <3>2. QED
      BY <2>1, <2>4, <3>1
  <2>5. QED
    BY <2>2, <2>3, <2>4
<1>5. /\ file' \in [Names -> Content] /\ part' \in [Names -> Content]
      /\ file'[n] = part[n] /\ part'[n] = "absent"
      /\ \A m \in Names : m # n => file'[m] = file[m] /\ part'[m] = part[m]
  BY <1>2 DEF IInv, MediaTypeOK, Content
<1>6. MediaTypeOK'
  <2>1. fetch' \in [Tasks -> Fetch]
    <3>1. fetch' = [u \in Tasks |-> fetch'[u]]
      BY DEF Rename
    <3>2. QED
      BY <1>3, <1>4, <3>1
  <2>2. QED
    BY <1>2, <1>5, <2>1 DEF IInv, MediaTypeOK
<1>7. \A m \in Names : (m = n => Exists(m)') /\ (Exists(m) => Exists(m)')
  BY <1>2, <1>5 DEF Exists
<1>8. Placed'
  <2>1. ASSUME NEW u \in Tasks, fetch[u].name # NoName PROVE fetch[u].name \in Names
    BY <2>1 DEF IInv, MediaTypeOK, Fetch
  <2>2. server = "up"
    BY <1>2 DEF IInv, Placed
  <2>3. QED
    BY <1>2, <1>3, <1>4, <1>7, <2>1, <2>2 DEF IInv, Placed
<1>9. PartInv'
  <2>1. ASSUME NEW m \in Names, m # n, NEW u \in Tasks
        PROVE  /\ Holding(u, m)' => Holding(u, m)
               /\ Finisher(u, m, "part") => Finisher(u, m, "part")'
    BY <1>1, <1>3, <1>4, <2>1 DEF Finisher, Holding, HasOpen
  <2>2. QED
    BY <1>2, <1>5, <2>1 DEF IInv, PartInv
<1>10. FileInv'
  <2>1. ASSUME NEW m \in Names, m # n, NEW u \in Tasks
        PROVE  Finisher(u, m, "file") => Finisher(u, m, "file")'
    BY <1>1, <1>2, <1>3, <1>4, <2>1 DEF Finisher, HasOpen
  <2>2. ASSUME NEW u \in Tasks
        PROVE  Finisher(u, n, "part") => Finisher(u, n, "file")'
    BY <1>2, <1>4, <2>2 DEF Finisher, HasOpen
  <2>3. Holding(t, n)
    BY <1>1, <1>2 DEF Holding
  <2>4. part[n] = "torn" => n \in cut \/ \E u \in Tasks : Finisher(u, n, "part")
    BY <2>3 DEF IInv, PartInv
  <2>5. QED
    BY <1>2, <1>5, <2>1, <2>2, <2>4 DEF IInv, FileInv
<1>11. KeyInv' /\ LinkInv'
  BY <1>2, <1>7 DEF IInv, KeyInv, LinkInv, MediaTypeOK, Link
<1>12. QED
  BY <1>6, <1>8, <1>9, <1>10, <1>11 DEF IInv

\* Nothing runs after a crash: what is torn under a final name was being
\* written there.
LEMMA CrashKeeps ==
    ASSUME IInv, MediaCrash
    PROVE  IInv'
<1>1. /\ server' = "down" /\ fetch' = [t \in Tasks |-> Idle] /\ failed' = {}
      /\ UNCHANGED <<file, part, secret, key, links, lost>>
      /\ cut' = cut \cup {n \in Names : \E t \in Tasks :
                            HasOpen(t, n, "file") /\ fetch[t].pc = "write"}
  BY DEF MediaCrash
<1>2. MediaTypeOK'
  BY <1>1, IdleShape DEF IInv, MediaTypeOK
<1>3. Placed'
  BY <1>1, IdleShape DEF Placed
<1>4. PartInv'
  BY <1>1, IdleShape DEF PartInv, Holding
<1>5. FileInv'
  BY <1>1 DEF IInv, FileInv, Finisher
<1>6. KeyInv' /\ LinkInv'
  BY <1>1 DEF IInv, KeyInv, LinkInv, Exists
<1>7. QED
  BY <1>2, <1>3, <1>4, <1>5, <1>6 DEF IInv

-----------------------------------------------------------------------------
LEMMA StepKeeps == IInv /\ [MediaNext]_mediaVars => IInv'
<1> SUFFICES ASSUME IInv, [MediaNext]_mediaVars PROVE IInv'
  OBVIOUS
<1>1. CASE UNCHANGED mediaVars
  BY <1>1 DEF mediaVars, IInv, MediaTypeOK, Placed, PartInv, FileInv, KeyInv, LinkInv,
     Finisher, HasOpen, Holding, Exists
<1>2. ASSUME NEW t \in Tasks, FetchStep(t) PROVE IInv'
  BY <1>2, DownloadedKeeps, EndKeeps, OpenKeeps, WriteKeeps, WriteFailsKeeps, RenameKeeps
     DEF FetchStep
<1>3. CASE ServerStep
  BY <1>3, SecretKeeps, FailureExpiresKeeps DEF ServerStep
<1>4. QED
  BY <1>1, <1>2, <1>3, FetchKeeps, TakeFetchedKeeps, CrashKeeps DEF MediaNext

\* What the calls know of the files they have open, and of the key, holds at
\* every step of the cache (matrix/media.rs 27-145, media/mod.rs 216-233).
THEOREM Invariance == MediaSpec => []IInv
BY InitHolds, StepKeeps, PTL DEF MediaSpec

\* The cache, its calls and its links are of their types, for any media, names
\* and tasks.
THEOREM MediaTyped == MediaSpec => []MediaTypeOK
BY Invariance, PTL DEF IInv

\* For any number of tasks and restarts a torn file under a final name is one
\* that a second task truncated, and only while that task writes it or after it
\* was cut off.
THEOREM TornFilesExplained == MediaSpec => []TornExplained
<1>1. IInv => TornExplained
  BY DEF IInv, FileInv, Finisher, TornExplained
<1>2. QED
  BY <1>1, Invariance, PTL

\* Every link ever given names a file that is there, and is signed with the key
\* of every server that comes up later, unless its key is lost; and no key is
\* lost without an error of the disk.
THEOREM LinksStayLive ==
    MediaSpec => [](LinksLive /\ ("io" \notin MediaFaults => lost = {}))
<1>1. IInv => LinksLive /\ ("io" \notin MediaFaults => lost = {})
  <2> SUFFICES ASSUME IInv PROVE LinksLive /\ ("io" \notin MediaFaults => lost = {})
    OBVIOUS
  <2>1. ASSUME NEW l \in links, server = "up" PROVE l.key = key \/ l.key \in lost
    <3>1. l.key \in Keys
      BY DEF IInv, MediaTypeOK, Link
    <3>2. QED
      BY <2>1, <3>1 DEF IInv, KeyInv
  <2>2. QED
    BY <2>1 DEF IInv, KeyInv, LinkInv, LinksLive
<1>2. QED
  BY <1>1, Invariance, PTL

-----------------------------------------------------------------------------
\* The commands.

Words == KeyNames \cup {"again"}
AnyLine == [kind : {"open", "item", "close", "reply", "770", "771"}, nick : Targets,
            media : Media \cup {NoMedia}, keys : SUBSET Words]
Wanted == [nick : Nicks, media : Media \cup {NoMedia}]
CmdRecord == [pc : Ops \cup {"idle", "lookup", "members", "member", "profile", "fetch", "end"},
              op : Ops \cup {"none"}, target : Targets, keys : Seq(KeyNames),
              ok : SUBSET Words, left : Seq(Wanted), out : Seq(AnyLine), ref : Nat]
ClientRecord == [subs : SUBSET Words, waited : BOOLEAN, got : SUBSET Nat, opened : SUBSET Nat,
                 closed : SUBSET Nat, strays : BOOLEAN, told : SUBSET (Nat \X Targets)]

MetaTypeOK ==
    /\ todo \in Seq(Command) /\ next \in Nat
    /\ cmd \in [Tasks -> CmdRecord]
    /\ subs \in SUBSET KeyNames
    /\ memo \in [Nicks -> Media \cup {NoMedia}]
    /\ avatar \in [Nicks -> Media \cup {NoMedia}]
    /\ client \in ClientRecord
    /\ since \in [Nicks -> SUBSET (Media \cup {NoMedia})]

\* The SYNC of the channel, and whether its batch is the one being written.
ChannelSync(c) == c.op = "sync" /\ c.target = Channel
InBatch(c) == ChannelSync(c) /\ c.pc \in {"members", "member", "profile", "fetch"}

\* Where a command is and what it is doing there.
Shape(c) ==
    /\ c.pc = "idle" => c = NoCmd
    /\ c.pc # "idle" => c.op # "none"
    /\ c.pc \in Ops => c.op = c.pc
    /\ c.op \in KeyOps => c.pc \in {c.op, "end"}
    /\ c.pc \in {"members", "member"} => ChannelSync(c)
    /\ c.pc = "lookup" => c.target # Channel
    /\ c.pc \in {"lookup", "profile", "fetch"} =>
         c.op \in {"get", "list", "sync"} /\ c.left # <<>> /\ c.out = <<>>
    /\ c.pc \in {"profile", "fetch"} /\ c.target = Channel => c.op = "sync"
    /\ c.pc = "profile" => Head(c.left).nick = Own
    /\ c.pc \in Ops \cup {"members", "end"} => c.left = <<>>
    /\ ChannelSync(c) /\ c.pc \in {"sync", "members"} => c.ok = {}
    /\ ChannelSync(c) /\ c.pc \in {"member", "profile", "fetch"} => c.ok = {"avatar"}

\* The lines a command has ready suit the batches the client has open.
BatchOK(c, opened, closed) ==
    /\ \A i \in 1 .. Len(c.out) :
         LET kind == c.out[i].kind
         IN  /\ kind = "open" => i = 1 /\ c.ref \notin opened
             /\ kind \in {"item", "close"} =>
                  c.ref \notin closed /\ (c.ref \in opened \/ (i > 1 /\ c.out[1].kind = "open"))
             /\ kind = "close" => i = Len(c.out) /\ c.pc = "end"
             /\ kind \in {"770", "771"} => c.op \in KeyOps /\ c.pc = "end"
             /\ kind = "item" => c.pc = "member" \/ (c.pc = "end" /\ ~ChannelSync(c))
    /\ c.pc \in Ops => \A i \in 1 .. Len(c.out) : c.out[i].kind = "reply"
    /\ c.pc \in Ops \cup {"lookup"} \/ (c.pc \in {"profile", "fetch"} /\ ~ChannelSync(c))
         => c.ref \notin opened
    /\ InBatch(c) => c.ref \notin closed
                     /\ (c.ref \in opened \/ (c.out # <<>> /\ c.out[1].kind = "open"))
    /\ c.op \in KeyOps /\ c.pc = "end" =>
         c.out = <<Keyed(IF c.op = "sub" THEN "770" ELSE "771", c.ok)>>
    /\ c.pc = "end" /\ (c.ref \in opened \/ (c.out # <<>> /\ c.out[1].kind = "open")) =>
         c.out # <<>> /\ c.out[Len(c.out)].kind = "close"

\* An avatar on its way is one its nick had lately.
RecentOK(c, had) ==
    /\ \A i \in 1 .. Len(c.left) :
         c.left[i].media # NoMedia => c.left[i].media \in had[c.left[i].nick]
    /\ \A i \in 1 .. Len(c.out) :
         c.out[i].media # NoMedia => c.out[i].nick \in Nicks /\ c.out[i].media \in had[c.out[i].nick]

\* The members of the channel a SYNC has still to deal with.
Ahead(c, n) == \/ \E i \in 1 .. Len(c.left) : c.left[i].nick = n
               \/ \E i \in 1 .. Len(c.out) :
                    c.out[i].kind = "item" /\ c.out[i].nick = n /\ c.out[i].media # NoMedia
ToldOK(c, done) ==
    ChannelSync(c) /\ c.ok = {"avatar"} =>
        \A i \in DOMAIN Members : <<c.ref, Members[i]>> \in done \/ Ahead(c, Members[i])

TasksInv == \A t \in Tasks :
    /\ Shape(cmd[t])
    /\ BatchOK(cmd[t], client.opened, client.closed)
    /\ RecentOK(cmd[t], since)
    /\ ToldOK(cmd[t], client.told \cup missed)

\* Every command has a reference of its own; a batch that is open is one of a
\* command that is still running.
References ==
    /\ \A t \in Tasks : Busy(t) => cmd[t].ref \in 1 .. next
    /\ \A t, u \in Tasks : Busy(t) /\ Busy(u) /\ cmd[t].ref = cmd[u].ref => t = u
    /\ client.opened \subseteq 1 .. next
    /\ client.closed \subseteq client.opened
    /\ ~client.strays
    /\ \A r \in client.opened \ client.closed : \E t \in Tasks : Busy(t) /\ cmd[t].ref = r

\* What a client that waits for its answers knows.
ViewInv ==
    /\ IsFiniteSet(subs) /\ Cardinality(subs) <= MaxSubs
    /\ client.waited =>
         /\ \A t, u \in Tasks : cmd[t].op \in KeyOps /\ cmd[u].op \in KeyOps => t = u
         /\ \A t \in Tasks : cmd[t].op = "sub" => subs = client.subs \cup cmd[t].ok
         /\ \A t \in Tasks : cmd[t].op = "unsub" => subs = client.subs \ cmd[t].ok
         /\ (\A t \in Tasks : cmd[t].op \notin KeyOps) => subs = client.subs

\* What is remembered, and what a search can find, is recent.
FreshInv ==
    /\ \A n \in Nicks \ stale : memo[n] \in since[n] /\ memo[n] \in Media
    /\ \A n \in Nicks : n \notin stale \/ InFlight(n) => avatar[n] \in since[n]
    /\ \A t \in Tasks : cmd[t].pc = "fetch" =>
         fetch[t].media \in Media /\ fetch[t].media \in since[Looked(t)]

MetaInv == MetaTypeOK /\ TasksInv /\ References /\ ViewInv /\ FreshInv

\* The nicks a command is about.
About(c) == {c.left[i].nick : i \in 1 .. Len(c.left)} \cup {c.out[i].nick : i \in 1 .. Len(c.out)}

\* c may follow what task t has been doing.
Follows(t, c, gone) ==
    /\ c \in CmdRecord
    /\ Shape(c)
    /\ BatchOK(c, client.opened, client.closed)
    /\ RecentOK(c, since)
    /\ ToldOK(c, client.told \cup gone)
    /\ (c = NoCmd /\ cmd[t].ref \notin client.opened) \/ c.ref = cmd[t].ref
    /\ About(c) \cap Nicks \subseteq About(cmd[t])

-----------------------------------------------------------------------------
LEMMA TailOf ==
    ASSUME NEW S, NEW s \in Seq(S), s # <<>>
    PROVE  /\ Len(s) \in Nat \ {0} /\ Head(s) = s[1] /\ Head(s) \in S
           /\ Tail(s) \in Seq(S) /\ Len(Tail(s)) = Len(s) - 1
           /\ \A i \in 1 .. Len(Tail(s)) : i + 1 \in 1 .. Len(s) /\ Tail(s)[i] = s[i + 1]
           /\ \A i \in 2 .. Len(s) : i - 1 \in 1 .. Len(Tail(s)) /\ s[i] = Tail(s)[i - 1]
  OBVIOUS

LEMMA OneLine ==
    ASSUME NEW l \in AnyLine
    PROVE  <<l>> \in Seq(AnyLine) /\ Len(<<l>>) = 1 /\ <<l>>[1] = l /\ <<l>> # <<>>
  OBVIOUS

LEMMA LookedAbout ==
    ASSUME NEW t \in Tasks, cmd[t] \in CmdRecord, cmd[t].left # <<>>
    PROVE  /\ Looked(t) \in Nicks /\ Looked(t) \in About(cmd[t])
           /\ cmd[t].left[1].nick = Looked(t) /\ 1 \in 1 .. Len(cmd[t].left)
<1>1. cmd[t].left \in Seq(Wanted)
  BY DEF CmdRecord
<1>2. /\ Len(cmd[t].left) \in Nat \ {0} /\ Head(cmd[t].left) = cmd[t].left[1]
      /\ Head(cmd[t].left) \in Wanted
  BY <1>1, TailOf
<1>3. Head(cmd[t].left).nick \in Nicks
  BY <1>2 DEF Wanted
<1>4. 1 \in 1 .. Len(cmd[t].left)
  BY <1>2
<1>5. QED
  BY <1>2, <1>3, <1>4 DEF Looked, About

LEMMA InFlightAbout ==
    ASSUME MetaTypeOK, NEW n
    PROVE  InFlight(n) <=> \E t \in Tasks : n \in About(cmd[t])
<1>1. \A t \in Tasks : DOMAIN cmd[t].left = 1 .. Len(cmd[t].left)
                       /\ DOMAIN cmd[t].out = 1 .. Len(cmd[t].out)
  BY DEF MetaTypeOK, CmdRecord
<1>2. QED
  BY <1>1 DEF InFlight, About

\* The lines the code makes.
LEMMA LineShapes ==
    /\ \A kind \in {"open", "close", "reply"} :
         Plain(kind) \in AnyLine /\ Plain(kind).kind = kind /\ Plain(kind).media = NoMedia
         /\ Plain(kind).nick = Channel
    /\ \A n \in Targets, m \in Media \cup {NoMedia} :
         /\ Item(n, m) \in AnyLine /\ Item(n, m).kind = "item"
         /\ Item(n, m).nick = n /\ Item(n, m).media = m
    /\ \A kind \in {"770", "771"}, ks \in SUBSET Words :
         Keyed(kind, ks) \in AnyLine /\ Keyed(kind, ks).kind = kind
         /\ Keyed(kind, ks).media = NoMedia /\ Keyed(kind, ks).keys = ks
         /\ Keyed(kind, ks).nick = Channel
  BY DEF Plain, Item, Keyed, AnyLine, Targets

LEMMA NoCmdGood ==
    /\ NoCmd \in CmdRecord /\ NoCmd.pc = "idle" /\ NoCmd.op = "none" /\ NoCmd.ref = 0
    /\ NoCmd.out = <<>> /\ NoCmd.left = <<>>
    /\ Shape(NoCmd) /\ About(NoCmd) = {}
    /\ \A o, c : BatchOK(NoCmd, o, c)
    /\ \A h : RecentOK(NoCmd, h)
    /\ \A d : ToldOK(NoCmd, d)
<1>1. /\ NoCmd \in CmdRecord /\ NoCmd.pc = "idle" /\ NoCmd.op = "none" /\ NoCmd.target = Channel
      /\ NoCmd.out = <<>> /\ NoCmd.left = <<>> /\ NoCmd.ok = {} /\ NoCmd.ref = 0
  BY DEF NoCmd, CmdRecord, Targets
<1>2. Shape(NoCmd)
  BY <1>1 DEF Shape, Ops, KeyOps, ChannelSync
<1>3. About(NoCmd) = {}
  BY <1>1 DEF About
<1>4. \A o, c : BatchOK(NoCmd, o, c)
  BY <1>1 DEF BatchOK, Ops, InBatch, ChannelSync, KeyOps
<1>5. (\A h : RecentOK(NoCmd, h)) /\ (\A d : ToldOK(NoCmd, d))
  BY <1>1 DEF RecentOK, ToldOK, ChannelSync
<1>6. QED
  BY <1>1, <1>2, <1>3, <1>4, <1>5

\* The other tasks are where they were.
LEMMA TasksMoved ==
    ASSUME MetaInv, NEW t \in Tasks, Busy(t), NEW c, cmd' = [cmd EXCEPT ![t] = c],
           UNCHANGED <<client, since, next>>, missed \subseteq missed', Follows(t, c, missed')
    PROVE  cmd' \in [Tasks -> CmdRecord] /\ TasksInv' /\ References'
<1>1. cmd \in [Tasks -> CmdRecord] /\ c \in CmdRecord
  BY DEF MetaInv, MetaTypeOK, Follows
<1>2. cmd' \in [Tasks -> CmdRecord] /\ cmd'[t] = c /\ \A u \in Tasks : u # t => cmd'[u] = cmd[u]
  BY <1>1
<1>3. TasksInv'
  <2>1. ASSUME NEW u \in Tasks, u # t
        PROVE  ToldOK(cmd[u], client.told \cup missed')
    BY <2>1 DEF MetaInv, TasksInv, ToldOK
  <2>2. QED
    BY <1>2, <2>1 DEF MetaInv, TasksInv, Follows
<1>4. References'
  <2>1. cmd[t].ref \in 1 .. next /\ next \in Nat
    BY DEF MetaInv, MetaTypeOK, References
  <2>2. c.ref = cmd[t].ref => c.pc # "idle"
    BY <2>1, NoCmdGood DEF Follows, Shape
  <2>3. \A u \in Tasks : Busy(u)' => Busy(u) /\ cmd'[u].ref = cmd[u].ref
    BY <1>2, NoCmdGood DEF Follows, Busy
  <2>4. \A u \in Tasks : Busy(u) => (Busy(u)' /\ cmd'[u].ref = cmd[u].ref)
                                    \/ cmd[u].ref \notin client.opened
    BY <1>2, <2>2 DEF Follows, Busy
  <2>5. QED
    BY <2>3, <2>4 DEF MetaInv, References
<1>5. QED
  BY <1>2, <1>3, <1>4

LEMMA ViewSteady ==
    ASSUME MetaInv, NEW t \in Tasks, NEW c \in CmdRecord, cmd' = [cmd EXCEPT ![t] = c],
           subs' = subs, client'.subs = client.subs, client'.waited = client.waited,
           \/ c.op = cmd[t].op /\ c.ok = cmd[t].ok
           \/ cmd[t].op \notin KeyOps /\ c.op \notin KeyOps
    PROVE  ViewInv'
<1>1. cmd'[t] = c /\ \A u \in Tasks : u # t => cmd'[u] = cmd[u]
  BY DEF MetaInv, MetaTypeOK
<1>2. \A u \in Tasks : cmd'[u].op \in KeyOps <=> cmd[u].op \in KeyOps
  BY <1>1
<1>3. \A u \in Tasks : cmd'[u].op \in KeyOps => cmd'[u].op = cmd[u].op /\ cmd'[u].ok = cmd[u].ok
  BY <1>1
<1>4. QED
  BY <1>2, <1>3 DEF MetaInv, ViewInv, KeyOps

\* Nothing is looked for that was not before; what is remembered from now on
\* was on its way.
LEMMA FreshSteady ==
    ASSUME MetaInv, NEW t \in Tasks, NEW c \in CmdRecord, cmd' = [cmd EXCEPT ![t] = c],
           UNCHANGED <<since, avatar>>,
           About(c) \cap Nicks \subseteq About(cmd[t]),
           \A n \in Nicks \ stale' :
              \/ n \notin stale /\ memo'[n] = memo[n]
              \/ memo'[n] \in since[n] /\ memo'[n] \in Media /\ InFlight(n),
           \A u \in Tasks : u # t => fetch'[u].media = fetch[u].media,
           c.pc = "fetch" =>
              fetch'[t].media \in Media /\ fetch'[t].media \in since[Head(c.left).nick]
    PROVE  FreshInv'
<1>1. cmd' \in [Tasks -> CmdRecord] /\ cmd'[t] = c /\ \A u \in Tasks : u # t => cmd'[u] = cmd[u]
  BY DEF MetaInv, MetaTypeOK
<1>2. \A n \in Nicks : InFlight(n)' => InFlight(n)
  <2>1. \A n : InFlight(n) <=> \E u \in Tasks : n \in About(cmd[u])
    BY InFlightAbout DEF MetaInv
  <2>2. \A u \in Tasks : DOMAIN cmd'[u].left = 1 .. Len(cmd'[u].left)
                         /\ DOMAIN cmd'[u].out = 1 .. Len(cmd'[u].out)
    BY <1>1 DEF CmdRecord
  <2>3. \A n : InFlight(n)' <=> \E u \in Tasks : n \in About(cmd'[u])
    BY <2>2 DEF InFlight, About
  <2>4. QED
    BY <1>1, <2>1, <2>3
<1>3. \A n \in Nicks \ stale' : memo'[n] \in since[n] /\ memo'[n] \in Media
  BY DEF MetaInv, FreshInv
<1>4. \A n \in Nicks : n \notin stale' \/ InFlight(n)' => avatar[n] \in since[n]
  BY <1>2 DEF MetaInv, FreshInv
<1>5. \A u \in Tasks : cmd'[u].pc = "fetch" =>
         fetch'[u].media \in Media /\ fetch'[u].media \in since[Looked(u)']
  BY <1>1 DEF MetaInv, FreshInv, Looked
<1>6. QED
  BY <1>3, <1>4, <1>5 DEF FreshInv, Looked

\* A step of one task that sends nothing and subscribes to nothing.
LEMMA CmdMoves ==
    ASSUME MetaInv, NEW t \in Tasks, Busy(t), NEW c, cmd' = [cmd EXCEPT ![t] = c],
           UNCHANGED <<connVars, subs, client, since, avatar>>,
           missed \subseteq missed', Follows(t, c, missed'),
           \/ c.op = cmd[t].op /\ c.ok = cmd[t].ok
           \/ cmd[t].op \notin KeyOps /\ c.op \notin KeyOps,
           memo' \in [Nicks -> Media \cup {NoMedia}],
           \A n \in Nicks \ stale' :
              \/ n \notin stale /\ memo'[n] = memo[n]
              \/ memo'[n] \in since[n] /\ memo'[n] \in Media /\ InFlight(n),
           \A u \in Tasks : u # t => fetch'[u].media = fetch[u].media,
           c.pc = "fetch" =>
              fetch'[t].media \in Media /\ fetch'[t].media \in since[Head(c.left).nick]
    PROVE  MetaInv'
<1>1. c \in CmdRecord /\ About(c) \cap Nicks \subseteq About(cmd[t])
  BY DEF Follows
<1>2. cmd' \in [Tasks -> CmdRecord] /\ TasksInv' /\ References'
  BY TasksMoved DEF connVars
<1>3. MetaTypeOK'
  BY <1>2 DEF MetaInv, MetaTypeOK, connVars
<1>4. ViewInv'
  BY <1>1, ViewSteady
<1>5. FreshInv'
  BY <1>1, FreshSteady
<1>6. QED
  BY <1>2, <1>3, <1>4, <1>5 DEF MetaInv

-----------------------------------------------------------------------------
\* Replies.

Sendable(t, lines) == \A i \in 1 .. Len(lines) :
    /\ lines[i].nick \in Nicks => lines[i].nick \in About(cmd[t])
    /\ lines[i].media # NoMedia => lines[i].nick \in Nicks /\ lines[i].media \in since[lines[i].nick]
OneBatch(lines) ==
    /\ Len(lines) \in Nat /\ Len(lines) >= 2
    /\ lines[1].kind = "open" /\ lines[Len(lines)].kind = "close"
    /\ \A i \in 2 .. Len(lines) - 1 : lines[i].kind = "item"
OneReply(lines) == Len(lines) = 1 /\ lines[1].kind = "reply"

LEMMA ZeroOrOne == \A n \in Nat : n <= 1 => n = 0 \/ n = 1
  OBVIOUS

LEMMA BatchLines ==
    ASSUME NEW items \in Seq(AnyLine), Len(items) <= 1,
           \A i \in 1 .. Len(items) : items[i].kind = "item",
           NEW t, Sendable(t, items)
    PROVE  Batch(items) \in Seq(AnyLine) /\ OneBatch(Batch(items)) /\ Sendable(t, Batch(items))
<1> DEFINE o == Plain("open")  c == Plain("close")
<1>1. /\ o \in AnyLine /\ o.kind = "open" /\ o.nick = Channel /\ o.media = NoMedia
      /\ c \in AnyLine /\ c.kind = "close" /\ c.nick = Channel /\ c.media = NoMedia
  BY LineShapes
<1>2. Batch(items) = <<o>> \o items \o <<c>>
  BY DEF Batch
<1> HIDE DEF o, c
<1>3. Len(items) = 0 \/ Len(items) = 1
  <2>1. Len(items) \in Nat
    OBVIOUS
  <2>2. QED
    BY <2>1, ZeroOrOne
<1>4. /\ Batch(items) \in Seq(AnyLine)
      /\ Len(Batch(items)) = Len(items) + 2
      /\ Batch(items)[1] = o /\ Batch(items)[Len(items) + 2] = c
      /\ \A i \in 1 .. Len(items) : Batch(items)[i + 1] = items[i]
  BY <1>1, <1>2, <1>3
<1>5. OneBatch(Batch(items))
  BY <1>1, <1>3, <1>4 DEF OneBatch
<1>6. Sendable(t, Batch(items))
  <2>1. Channel \notin Nicks
    BY MetadataAssumption
  <2>2. \A i \in 1 .. Len(Batch(items)) :
           Batch(items)[i] = o \/ Batch(items)[i] = c
           \/ \E j \in 1 .. Len(items) : Batch(items)[i] = items[j]
    BY <1>3, <1>4
  <2>3. QED
    BY <1>1, <2>1, <2>2 DEF Sendable
<1>7. QED
  BY <1>4, <1>5, <1>6

LEMMA ReplyLines ==
    ASSUME NEW t
    PROVE  <<Plain("reply")>> \in Seq(AnyLine) /\ OneReply(<<Plain("reply")>>)
           /\ Sendable(t, <<Plain("reply")>>)
  BY LineShapes, MetadataAssumption DEF OneReply, Sendable

\* What a command may reply that has opened no batch.
LEMMA RepliesFollow ==
    ASSUME MetaInv, NEW t \in Tasks, NEW lines \in Seq(AnyLine), NEW gone, NEW c,
           c = [cmd[t] EXCEPT !.pc = "end", !.left = <<>>, !.out = lines],
           cmd[t].op \notin KeyOps,
           \/ cmd[t].pc \in Ops \cup {"lookup"}
           \/ cmd[t].pc \in {"profile", "fetch"} /\ ~ChannelSync(cmd[t]),
           OneReply(lines) \/ (OneBatch(lines) /\ ~ChannelSync(cmd[t])),
           Sendable(t, lines)
    PROVE  Follows(t, c, gone) /\ c.op = cmd[t].op /\ c.ok = cmd[t].ok /\ c.pc = "end"
<1>1. cmd[t] \in CmdRecord
  BY DEF MetaInv, MetaTypeOK
<1>2. /\ c \in CmdRecord /\ c.pc = "end" /\ c.left = <<>> /\ c.out = lines
      /\ c.op = cmd[t].op /\ c.target = cmd[t].target /\ c.ok = cmd[t].ok /\ c.ref = cmd[t].ref
  <2>1. <<>> \in Seq(Wanted)
    OBVIOUS
  <2>2. QED
    BY <1>1, <2>1 DEF CmdRecord
<1>3. Shape(cmd[t]) /\ BatchOK(cmd[t], client.opened, client.closed)
  BY DEF MetaInv, TasksInv
<1>4. client.closed \subseteq client.opened
  BY DEF MetaInv, References
<1>5. cmd[t].ref \notin client.opened
  BY <1>3 DEF BatchOK
<1>6. Shape(c)
  <2>1. cmd[t].op # "none"
    BY <1>3, NoCmdGood DEF Shape, Ops
  <2>2. QED
    BY <1>2, <2>1 DEF Shape, Ops, ChannelSync
<1>7. BatchOK(c, client.opened, client.closed)
  BY <1>2, <1>4, <1>5 DEF BatchOK, InBatch, ChannelSync, Ops, OneReply, OneBatch
<1>8. RecentOK(c, since)
  BY <1>2 DEF RecentOK, Sendable
<1>9. ToldOK(c, client.told \cup gone)
  <2>1. ASSUME ChannelSync(c) PROVE cmd[t].ok = {}
    BY <1>2, <1>3, <2>1 DEF Shape, ChannelSync, Ops
  <2>2. QED
    BY <1>2, <2>1 DEF ToldOK
<1>10. About(c) \cap Nicks \subseteq About(cmd[t])
  BY <1>2 DEF About, Sendable
<1>11. QED
  BY <1>2, <1>6, <1>7, <1>8, <1>9, <1>10 DEF Follows

LEMMA LocalReplies ==
    ASSUME MetaInv, NEW t \in Tasks, Busy(t), NEW lines \in Seq(AnyLine), Replies(t, lines),
           UNCHANGED <<subs, Local>>,
           cmd[t].op \notin KeyOps, cmd[t].pc \in Ops \cup {"lookup"},
           OneReply(lines) \/ (OneBatch(lines) /\ ~ChannelSync(cmd[t])),
           Sendable(t, lines)
    PROVE  MetaInv'
<1>1. PICK c : /\ c = [cmd[t] EXCEPT !.pc = "end", !.left = <<>>, !.out = lines]
               /\ cmd' = [cmd EXCEPT ![t] = c]
  BY DEF Replies, Sets
<1>2. Follows(t, c, missed') /\ c.op = cmd[t].op /\ c.ok = cmd[t].ok /\ c.pc = "end"
  BY <1>1, RepliesFollow
<1>3. UNCHANGED <<connVars, memo, stale, avatar, client, since, missed, fetch>>
  BY DEF Local, world, seen, mediaVars
<1>4. QED
  BY <1>1, <1>2, <1>3, CmdMoves DEF MetaInv, MetaTypeOK

LEMMA SimpleKeeps ==
    ASSUME MetaInv, NEW t \in Tasks,
           ListSubs(t) \/ Refuse(t) \/ GetChannel(t) \/ TooSoon(t)
    PROVE  MetaInv'
<1>1. Shape(cmd[t]) /\ UNCHANGED <<subs, Local>>
  BY DEF MetaInv, TasksInv, ListSubs, Refuse, GetChannel, TooSoon
<1>2. /\ cmd[t].pc \in {"subs", "refused", "get", "list", "sync"}
      /\ cmd[t].op = cmd[t].pc
      /\ cmd[t].op \notin KeyOps
  BY <1>1 DEF ListSubs, Refuse, GetChannel, TooSoon, At, Shape, Ops, KeyOps
<1>3. Busy(t) /\ cmd[t].pc \in Ops \cup {"lookup"}
  BY <1>2 DEF Busy, Ops
<1>4. CASE Replies(t, <<Plain("reply")>>)
  BY <1>1, <1>2, <1>3, <1>4, ReplyLines, LocalReplies
<1>5. ASSUME NEW items, Replies(t, Batch(items)), items \in {<<>>, <<Item(Channel, NoMedia)>>},
             cmd[t].pc # "sync"
      PROVE  MetaInv'
  <2>1. /\ items \in Seq(AnyLine) /\ Len(items) <= 1
        /\ \A i \in 1 .. Len(items) : items[i].kind = "item"
    <3>1. Item(Channel, NoMedia) \in AnyLine /\ Item(Channel, NoMedia).kind = "item"
      BY LineShapes DEF Targets
    <3>2. CASE items = <<>>
      BY <3>2
    <3>3. CASE items = <<Item(Channel, NoMedia)>>
      BY <3>1, <3>3, OneLine
    <3>4. QED
      BY <1>5, <3>2, <3>3
  <2>2. Sendable(t, items)
    BY <1>5, LineShapes, MetadataAssumption DEF Sendable, Targets
  <2>3. Batch(items) \in Seq(AnyLine) /\ OneBatch(Batch(items)) /\ Sendable(t, Batch(items))
    BY <2>1, <2>2, BatchLines
  <2>4. ~ChannelSync(cmd[t])
    BY <1>2, <1>5 DEF ChannelSync
  <2>5. QED
    BY <1>1, <1>2, <1>3, <1>5, <2>3, <2>4, LocalReplies
<1>6. QED
  BY <1>4, <1>5 DEF ListSubs, Refuse, GetChannel, TooSoon, At

-----------------------------------------------------------------------------
\* Searches.

LEMMA BeginsKeeps ==
    ASSUME MetaInv, NEW ns \in SUBSET Nicks, Begins(ns)
    PROVE  /\ since' \in [Nicks -> SUBSET (Media \cup {NoMedia})]
           /\ \A n \in Nicks : n \notin stale \/ InFlight(n) => since'[n] = since[n]
           /\ \A n \in ns : avatar[n] \in since'[n]
           /\ \A t \in Tasks : RecentOK(cmd[t], since')
<1>1. \A n \in Nicks : since'[n] = IF n \in ns \cap stale /\ ~InFlight(n) THEN {avatar[n]}
                                   ELSE since[n]
  BY DEF Begins
<1>2. since' \in [Nicks -> SUBSET (Media \cup {NoMedia})]
  BY DEF Begins, MetaInv, MetaTypeOK
<1>3. \A n \in Nicks : n \notin stale \/ InFlight(n) => since'[n] = since[n]
  BY <1>1
<1>4. \A n \in ns : avatar[n] \in since'[n]
  BY <1>1 DEF MetaInv, FreshInv
<1>5. ASSUME NEW t \in Tasks PROVE RecentOK(cmd[t], since')
  <2>1. \A n \in Nicks : n \in About(cmd[t]) => since'[n] = since[n]
    <3>1. \A n : InFlight(n) <=> \E u \in Tasks : n \in About(cmd[u])
      BY InFlightAbout DEF MetaInv
    <3>2. QED
      BY <1>3, <3>1
  <2>2. \A i \in 1 .. Len(cmd[t].left) : cmd[t].left[i].nick \in Nicks
    <3>1. cmd[t].left \in Seq(Wanted)
      BY DEF MetaInv, MetaTypeOK, CmdRecord
    <3>2. \A i \in 1 .. Len(cmd[t].left) : cmd[t].left[i] \in Wanted
      BY <3>1
    <3>3. QED
      BY <3>2 DEF Wanted
  <2>3. RecentOK(cmd[t], since)
    BY DEF MetaInv, TasksInv
  <2>4. QED
    BY <2>1, <2>2, <2>3 DEF RecentOK, About
<1>6. QED
  BY <1>2, <1>3, <1>4, <1>5

LEMMA SearchBegins ==
    ASSUME MetaInv, NEW t \in Tasks, Busy(t), NEW c \in CmdRecord, cmd' = [cmd EXCEPT ![t] = c],
           NEW ns \in SUBSET Nicks, Begins(ns),
           UNCHANGED <<fetch, connVars, subs, memo, stale, avatar, client, missed>>,
           Shape(c), BatchOK(c, client.opened, client.closed), RecentOK(c, since'),
           ToldOK(c, client.told \cup missed), c.ref = cmd[t].ref,
           About(c) \cap Nicks \subseteq ns, c.pc # "fetch",
           cmd[t].op \notin KeyOps, c.op \notin KeyOps
    PROVE  MetaInv'
<1>1. /\ cmd' \in [Tasks -> CmdRecord] /\ cmd'[t] = c
      /\ \A u \in Tasks : u # t => cmd'[u] = cmd[u]
  BY DEF MetaInv, MetaTypeOK
<1>2. /\ since' \in [Nicks -> SUBSET (Media \cup {NoMedia})]
      /\ \A n \in Nicks : n \notin stale \/ InFlight(n) => since'[n] = since[n]
      /\ \A n \in ns : avatar[n] \in since'[n]
      /\ \A u \in Tasks : RecentOK(cmd[u], since')
  BY BeginsKeeps
<1>3. MetaTypeOK'
  BY <1>1, <1>2 DEF MetaInv, MetaTypeOK, connVars
<1>4. TasksInv'
  BY <1>1, <1>2 DEF MetaInv, TasksInv
<1>5. References'
  <2>1. cmd[t].ref \in 1 .. next /\ next \in Nat
    BY DEF MetaInv, MetaTypeOK, References
  <2>2. c.pc # "idle"
    BY <2>1, NoCmdGood DEF Shape
  <2>3. \A u \in Tasks : (Busy(u)' <=> Busy(u)) /\ cmd'[u].ref = cmd[u].ref
    BY <1>1, <2>2 DEF Busy
  <2>4. QED
    BY <2>3 DEF MetaInv, References, connVars
<1>6. ViewInv'
  BY ViewSteady
<1>7. FreshInv'
  <2>1. \A n : InFlight(n) <=> \E u \in Tasks : n \in About(cmd[u])
    BY InFlightAbout DEF MetaInv
  <2>2. \A u \in Tasks : DOMAIN cmd'[u].left = 1 .. Len(cmd'[u].left)
                         /\ DOMAIN cmd'[u].out = 1 .. Len(cmd'[u].out)
    BY <1>1 DEF CmdRecord
  <2>3. \A n : InFlight(n)' <=> \E u \in Tasks : n \in About(cmd'[u])
    BY <2>2 DEF InFlight, About
  <2>4. \A n \in Nicks : InFlight(n)' => InFlight(n) \/ n \in ns
    BY <1>1, <2>1, <2>3
  <2>5. \A n \in Nicks \ stale : memo[n] \in since'[n] /\ memo[n] \in Media
    BY <1>2 DEF MetaInv, FreshInv
  <2>6. \A n \in Nicks : n \notin stale \/ InFlight(n)' => avatar[n] \in since'[n]
    BY <1>2, <2>4 DEF MetaInv, FreshInv
  <2>7. ASSUME NEW u \in Tasks, cmd'[u].pc = "fetch"
        PROVE  fetch[u].media \in Media /\ fetch[u].media \in since'[Looked(u)']
    <3>1. u # t /\ cmd'[u] = cmd[u]
      BY <1>1, <2>7
    <3>2. cmd[u].left # <<>> /\ cmd[u] \in CmdRecord
      BY <2>7, <3>1 DEF MetaInv, MetaTypeOK, TasksInv, Shape
    <3>3. Looked(u) \in Nicks /\ Looked(u) \in About(cmd[u])
      BY <3>2, LookedAbout
    <3>4. since'[Looked(u)] = since[Looked(u)]
      BY <1>2, <2>1, <3>3
    <3>5. QED
      BY <2>7, <3>1, <3>4 DEF MetaInv, FreshInv, Looked
  <2>8. QED
    BY <2>5, <2>6, <2>7 DEF FreshInv, Looked
<1>8. QED
  BY <1>3, <1>4, <1>5, <1>6, <1>7 DEF MetaInv

\* GET, LIST and SYNC of a nick.
LEMMA LooksUpKeeps ==
    ASSUME MetaInv, NEW t \in Tasks, GetNick(t) \/ SyncNick(t)
    PROVE  MetaInv'
<1> DEFINE n == cmd[t].target
           w == [nick |-> n, media |-> NoMedia]
           c == [cmd[t] EXCEPT !.pc = "lookup", !.left = <<w>>]
<1>1. /\ cmd[t] \in CmdRecord /\ Shape(cmd[t]) /\ BatchOK(cmd[t], client.opened, client.closed)
      /\ RecentOK(cmd[t], since)
  BY DEF MetaInv, MetaTypeOK, TasksInv
<1>2. /\ cmd[t].pc \in {"get", "list", "sync"} /\ cmd[t].out = <<>> /\ n # Channel
      /\ cmd' = [cmd EXCEPT ![t] = c] /\ Begins({n})
      /\ UNCHANGED <<fetch, connVars, subs, memo, stale, avatar, client, missed>>
  BY DEF GetNick, SyncNick, At, LooksUp, Sets, mediaVars, shared, world
<1>3. n \in Nicks
  BY <1>1, <1>2 DEF CmdRecord, Targets
<1>4. /\ <<w>> \in Seq(Wanted) /\ Len(<<w>>) = 1 /\ <<w>>[1] = w /\ <<w>> # <<>>
      /\ w.nick = n /\ w.media = NoMedia
  BY <1>3 DEF Wanted
<1>5. /\ c \in CmdRecord /\ c.pc = "lookup" /\ c.left = <<w>> /\ c.out = <<>>
      /\ c.op = cmd[t].op /\ c.target = n /\ c.ok = cmd[t].ok /\ c.ref = cmd[t].ref
  BY <1>1, <1>2, <1>4 DEF CmdRecord
<1>6. cmd[t].op = cmd[t].pc
  BY <1>1, <1>2 DEF Shape, Ops
<1> HIDE DEF c, n, w
<1>7. Shape(c)
  BY <1>2, <1>4, <1>5, <1>6 DEF Shape, Ops, KeyOps, ChannelSync
<1>8. cmd[t].ref \notin client.opened
  BY <1>1, <1>2 DEF BatchOK, Ops
<1>9. BatchOK(c, client.opened, client.closed)
  BY <1>2, <1>5, <1>6, <1>8 DEF BatchOK, InBatch, ChannelSync, Ops, KeyOps
<1>10. RecentOK(c, since') /\ ToldOK(c, client.told \cup missed)
  BY <1>2, <1>4, <1>5 DEF RecentOK, ToldOK, ChannelSync
<1>11. About(c) \cap Nicks \subseteq {n}
  BY <1>4, <1>5 DEF About
<1>12. Busy(t) /\ cmd[t].op \notin KeyOps
  BY <1>2, <1>6 DEF Busy, KeyOps
<1>13. QED
  BY <1>2, <1>3, <1>5, <1>7, <1>9, <1>10, <1>11, <1>12, SearchBegins

\* SYNC of the channel: the batch is opened ...
LEMMA SyncChannelKeeps ==
    ASSUME MetaInv, NEW t \in Tasks, SyncChannel(t)
    PROVE  MetaInv'
<1> DEFINE l == Plain("open")
           c == [cmd[t] EXCEPT !.pc = "members", !.out = <<l>>]
<1>1. /\ cmd[t] \in CmdRecord /\ Shape(cmd[t]) /\ BatchOK(cmd[t], client.opened, client.closed)
  BY DEF MetaInv, MetaTypeOK, TasksInv
<1>2. /\ cmd[t].pc = "sync" /\ cmd[t].out = <<>> /\ cmd[t].target = Channel
      /\ cmd' = [cmd EXCEPT ![t] = c]
      /\ UNCHANGED <<fetch, connVars, subs, memo, stale, avatar, client, since, missed>>
  BY DEF SyncChannel, At, Sets, mediaVars, world, seen
<1>3. cmd[t].op = "sync" /\ cmd[t].left = <<>> /\ cmd[t].ok = {}
  BY <1>1, <1>2 DEF Shape, Ops, ChannelSync
<1>4. /\ <<l>> \in Seq(AnyLine) /\ Len(<<l>>) = 1 /\ <<l>>[1] = l /\ <<l>> # <<>>
      /\ l.kind = "open" /\ l.media = NoMedia /\ l.nick = Channel
  BY LineShapes, OneLine
<1>5. /\ c \in CmdRecord /\ c.pc = "members" /\ c.left = <<>> /\ c.out = <<l>>
      /\ c.op = "sync" /\ c.target = Channel /\ c.ok = {} /\ c.ref = cmd[t].ref
  BY <1>1, <1>2, <1>3, <1>4 DEF CmdRecord
<1> HIDE DEF c, l
<1>6. cmd[t].ref \notin client.opened /\ client.closed \subseteq client.opened
  BY <1>1, <1>2 DEF BatchOK, Ops, MetaInv, References
<1>7. Shape(c)
  BY <1>5 DEF Shape, Ops, KeyOps, ChannelSync
<1>8. BatchOK(c, client.opened, client.closed)
  BY <1>4, <1>5, <1>6 DEF BatchOK, InBatch, ChannelSync, Ops, KeyOps
<1>9. RecentOK(c, since) /\ ToldOK(c, client.told \cup missed')
  BY <1>4, <1>5 DEF RecentOK, ToldOK
<1>10. About(c) \cap Nicks \subseteq About(cmd[t])
  BY <1>4, <1>5, MetadataAssumption DEF About
<1>11. Follows(t, c, missed')
  BY <1>5, <1>7, <1>8, <1>9, <1>10 DEF Follows
<1>12. Busy(t) /\ cmd[t].op \notin KeyOps /\ c.op \notin KeyOps
  BY <1>2, <1>3, <1>5 DEF Busy, KeyOps
<1>13. QED
  BY <1>2, <1>5, <1>11, <1>12, CmdMoves DEF MetaInv, MetaTypeOK

\* ... the members are read, or are not asked for ...
LEMMA ReadMembersKeeps ==
    ASSUME MetaInv, NEW t \in Tasks, ReadMembers(t)
    PROVE  MetaInv'
<1>1. /\ cmd[t] \in CmdRecord /\ Shape(cmd[t]) /\ BatchOK(cmd[t], client.opened, client.closed)
  BY DEF MetaInv, MetaTypeOK, TasksInv
<1>2. /\ cmd[t].pc = "members" /\ cmd[t].out = <<>>
      /\ UNCHANGED <<fetch, connVars, subs, memo, stale, avatar, client, missed>>
  BY DEF ReadMembers, At, mediaVars, shared, world
<1>3. ChannelSync(cmd[t]) /\ cmd[t].left = <<>> /\ cmd[t].ok = {}
  BY <1>1, <1>2 DEF Shape, Ops
<1>4. cmd[t].op = "sync" /\ cmd[t].target = Channel
  BY <1>3 DEF ChannelSync
<1>5. /\ cmd[t].ref \in client.opened /\ cmd[t].ref \notin client.closed
  BY <1>1, <1>2, <1>3 DEF BatchOK, InBatch
<1>6. Busy(t) /\ cmd[t].op \notin KeyOps
  BY <1>2, <1>4 DEF Busy, KeyOps
<1>7. CASE "avatar" \in subs
  <2> DEFINE all == [i \in DOMAIN Members |-> [nick |-> Members[i], media |-> avatar[Members[i]]]]
             ns == {Members[i] : i \in DOMAIN Members}
             c == [cmd[t] EXCEPT !.pc = "member", !.ok = {"avatar"}, !.left = all]
  <2>1. cmd' = [cmd EXCEPT ![t] = c] /\ Begins(ns)
    BY <1>7 DEF ReadMembers, Sets
  <2>2. Members \in Seq(Nicks) /\ DOMAIN Members = 1 .. Len(Members) /\ Len(Members) \in Nat
    BY MetadataAssumption
  <2>3. \A i \in 1 .. Len(Members) : Members[i] \in Nicks /\ avatar[Members[i]] \in Media \cup {NoMedia}
    BY <2>2 DEF MetaInv, MetaTypeOK
  <2>4. /\ all \in Seq(Wanted) /\ Len(all) = Len(Members)
        /\ \A i \in 1 .. Len(Members) : all[i].nick = Members[i] /\ all[i].media = avatar[Members[i]]
    BY <2>2, <2>3 DEF Wanted
  <2> HIDE DEF all
  <2>5. "avatar" \in Words
    BY MetadataAssumption DEF Words
  <2>6. /\ c \in CmdRecord /\ c.pc = "member" /\ c.left = all /\ c.out = <<>>
        /\ c.op = "sync" /\ c.target = Channel /\ c.ok = {"avatar"} /\ c.ref = cmd[t].ref
    BY <1>1, <1>2, <1>4, <2>4, <2>5 DEF CmdRecord
  <2> HIDE DEF c
  <2>7. Shape(c)
    BY <2>6 DEF Shape, Ops, KeyOps, ChannelSync
  <2>8. BatchOK(c, client.opened, client.closed)
    BY <1>5, <2>6 DEF BatchOK, InBatch, ChannelSync, Ops, KeyOps
  <2>9. ns \in SUBSET Nicks
    BY <2>2, <2>3
  <2>10. \A n \in ns : avatar[n] \in since'[n]
    BY <2>1, <2>9, BeginsKeeps
  <2>11. RecentOK(c, since')
    BY <2>2, <2>4, <2>6, <2>10 DEF RecentOK
  <2>12. ToldOK(c, client.told \cup missed)
    BY <2>2, <2>4, <2>6 DEF ToldOK, Ahead
  <2>13. About(c) \cap Nicks \subseteq ns
    BY <2>2, <2>4, <2>6 DEF About
  <2>14. c.op \notin KeyOps /\ c.pc # "fetch"
    BY <2>6 DEF KeyOps
  <2>15. QED
    BY <1>2, <1>6, <2>1, <2>6, <2>7, <2>8, <2>9, <2>11, <2>12, <2>13, <2>14, SearchBegins
<1>8. CASE "avatar" \notin subs
  <2> DEFINE l == Plain("close")
             c == [cmd[t] EXCEPT !.pc = "end", !.left = <<>>, !.out = <<l>>]
  <2>1. cmd' = [cmd EXCEPT ![t] = c] /\ UNCHANGED since
    BY <1>8 DEF ReadMembers, Replies, Sets
  <2>2. /\ <<l>> \in Seq(AnyLine) /\ Len(<<l>>) = 1 /\ <<l>>[1] = l /\ <<l>> # <<>>
        /\ l.kind = "close" /\ l.media = NoMedia /\ l.nick = Channel
    BY LineShapes, OneLine
  <2>3. /\ c \in CmdRecord /\ c.pc = "end" /\ c.left = <<>> /\ c.out = <<l>>
        /\ c.op = "sync" /\ c.target = Channel /\ c.ok = {} /\ c.ref = cmd[t].ref
    BY <1>1, <1>3, <1>4, <2>2 DEF CmdRecord
  <2> HIDE DEF c, l
  <2>4. Shape(c)
    BY <2>3 DEF Shape, Ops, KeyOps, ChannelSync
  <2>5. BatchOK(c, client.opened, client.closed)
    BY <1>5, <2>2, <2>3 DEF BatchOK, InBatch, ChannelSync, Ops, KeyOps
  <2>6. RecentOK(c, since) /\ ToldOK(c, client.told \cup missed')
    BY <2>2, <2>3 DEF RecentOK, ToldOK
  <2>7. About(c) \cap Nicks \subseteq About(cmd[t])
    BY <2>2, <2>3, MetadataAssumption DEF About
  <2>8. Follows(t, c, missed')
    BY <2>3, <2>4, <2>5, <2>6, <2>7 DEF Follows
  <2>9. c.op \notin KeyOps
    BY <2>3 DEF KeyOps
  <2>10. QED
    BY <1>2, <1>6, <2>1, <2>3, <2>8, <2>9, CmdMoves DEF MetaInv, MetaTypeOK
<1>9. QED
  BY <1>7, <1>8

\* ... or the store cannot tell who they are ...
LEMMA MembersUnreadKeeps ==
    ASSUME MetaInv, NEW t \in Tasks, MembersUnread(t)
    PROVE  MetaInv'
<1> DEFINE c == [cmd[t] EXCEPT !.pc = "member", !.ok = {"avatar"}]
<1>1. cmd[t] \in CmdRecord /\ Shape(cmd[t]) /\ BatchOK(cmd[t], client.opened, client.closed)
  BY DEF MetaInv, MetaTypeOK, TasksInv
<1>2. /\ cmd[t].pc = "members" /\ cmd[t].out = <<>>
      /\ cmd' = [cmd EXCEPT ![t] = c]
      /\ missed' = missed \cup {<<cmd[t].ref, Members[i]>> : i \in DOMAIN Members}
      /\ UNCHANGED <<fetch, connVars, subs, memo, stale, avatar, client, since>>
  BY DEF MembersUnread, At, Sets, mediaVars, shared, world
<1>3. ChannelSync(cmd[t]) /\ cmd[t].left = <<>>
  BY <1>1, <1>2 DEF Shape, Ops
<1>4. cmd[t].op = "sync" /\ cmd[t].target = Channel
  BY <1>3 DEF ChannelSync
<1>5. cmd[t].ref \in client.opened /\ cmd[t].ref \notin client.closed
  BY <1>1, <1>2, <1>3 DEF BatchOK, InBatch
<1>6. "avatar" \in Words
  BY MetadataAssumption DEF Words
<1>7. /\ c \in CmdRecord /\ c.pc = "member" /\ c.left = <<>> /\ c.out = <<>>
      /\ c.op = "sync" /\ c.target = Channel /\ c.ok = {"avatar"} /\ c.ref = cmd[t].ref
  BY <1>1, <1>2, <1>3, <1>4, <1>6 DEF CmdRecord
<1> HIDE DEF c
<1>8. Shape(c)
  BY <1>7 DEF Shape, Ops, KeyOps, ChannelSync
<1>9. BatchOK(c, client.opened, client.closed)
  BY <1>5, <1>7 DEF BatchOK, InBatch, ChannelSync, Ops, KeyOps
<1>10. RecentOK(c, since) /\ About(c) \cap Nicks \subseteq About(cmd[t])
  BY <1>7 DEF RecentOK, About
<1>11. ToldOK(c, client.told \cup missed')
  BY <1>2, <1>7 DEF ToldOK
<1>12. Follows(t, c, missed')
  BY <1>7, <1>8, <1>9, <1>10, <1>11 DEF Follows
<1>13. Busy(t) /\ cmd[t].op \notin KeyOps /\ c.op \notin KeyOps /\ missed \subseteq missed'
  BY <1>2, <1>4, <1>7 DEF Busy, KeyOps
<1>14. QED
  BY <1>2, <1>7, <1>12, <1>13, CmdMoves DEF MetaInv, MetaTypeOK

\* ... and when all have been dealt with it is closed.
LEMMA MembersDoneKeeps ==
    ASSUME MetaInv, NEW t \in Tasks, MembersDone(t)
    PROVE  MetaInv'
<1> DEFINE l == Plain("close")
           c == [cmd[t] EXCEPT !.pc = "end", !.left = <<>>, !.out = <<l>>]
<1>1. /\ cmd[t] \in CmdRecord /\ Shape(cmd[t]) /\ BatchOK(cmd[t], client.opened, client.closed)
      /\ ToldOK(cmd[t], client.told \cup missed)
  BY DEF MetaInv, MetaTypeOK, TasksInv
<1>2. /\ cmd[t].pc = "member" /\ cmd[t].out = <<>> /\ cmd[t].left = <<>>
      /\ cmd' = [cmd EXCEPT ![t] = c]
      /\ UNCHANGED <<fetch, connVars, subs, memo, stale, avatar, client, since, missed>>
  BY DEF MembersDone, At, Replies, Sets, Local, mediaVars, world, seen
<1>3. ChannelSync(cmd[t]) /\ cmd[t].op = "sync" /\ cmd[t].target = Channel
  BY <1>1, <1>2 DEF Shape, ChannelSync
<1>4. /\ cmd[t].ref \in client.opened /\ cmd[t].ref \notin client.closed
  BY <1>1, <1>2, <1>3 DEF BatchOK, InBatch
<1>5. /\ <<l>> \in Seq(AnyLine) /\ Len(<<l>>) = 1 /\ <<l>>[1] = l /\ <<l>> # <<>>
      /\ l.kind = "close" /\ l.media = NoMedia /\ l.nick = Channel
  BY LineShapes, OneLine
<1>6. /\ c \in CmdRecord /\ c.pc = "end" /\ c.left = <<>> /\ c.out = <<l>>
      /\ c.op = "sync" /\ c.target = Channel /\ c.ok = cmd[t].ok /\ c.ref = cmd[t].ref
  BY <1>1, <1>2, <1>3, <1>5 DEF CmdRecord
<1> HIDE DEF c, l
<1>7. Shape(c)
  BY <1>6 DEF Shape, Ops, KeyOps, ChannelSync
<1>8. BatchOK(c, client.opened, client.closed)
  BY <1>4, <1>5, <1>6 DEF BatchOK, InBatch, ChannelSync, Ops, KeyOps
<1>9. RecentOK(c, since)
  BY <1>5, <1>6 DEF RecentOK
<1>10. ToldOK(c, client.told \cup missed')
  BY <1>1, <1>2, <1>3, <1>6 DEF ToldOK, Ahead, ChannelSync
<1>11. About(c) \cap Nicks \subseteq About(cmd[t])
  BY <1>5, <1>6, MetadataAssumption DEF About
<1>12. Follows(t, c, missed')
  BY <1>6, <1>7, <1>8, <1>9, <1>10, <1>11 DEF Follows
<1>13. Busy(t) /\ cmd[t].op \notin KeyOps /\ c.op \notin KeyOps
  BY <1>2, <1>3, <1>6 DEF Busy, KeyOps
<1>14. QED
  BY <1>2, <1>6, <1>12, <1>13, CmdMoves DEF MetaInv, MetaTypeOK

-----------------------------------------------------------------------------
\* Lookups.

\* A line for the nick that was looked for.
LEMMA ItemLines ==
    ASSUME MetaInv, NEW t \in Tasks, cmd[t].left # <<>>, NEW m \in Media \cup {NoMedia},
           m # NoMedia => m \in since[Looked(t)],
           NEW items, items = <<>> \/ items = <<Item(Looked(t), m)>>
    PROVE  /\ items \in Seq(AnyLine) /\ Len(items) <= 1
           /\ \A i \in 1 .. Len(items) : items[i].kind = "item"
           /\ Sendable(t, items)
<1>1. Looked(t) \in Nicks /\ Looked(t) \in About(cmd[t])
  BY LookedAbout DEF MetaInv, MetaTypeOK
<1>2. PICK l : l = Item(Looked(t), m)
  OBVIOUS
<1>3. l \in AnyLine /\ l.kind = "item" /\ l.nick = Looked(t) /\ l.media = m
  BY <1>1, <1>2, LineShapes DEF Targets
<1>4. CASE items = <<>>
  BY <1>4 DEF Sendable
<1>5. CASE items = <<l>>
  <2>1. <<l>> \in Seq(AnyLine) /\ Len(<<l>>) = 1 /\ <<l>>[1] = l
    BY <1>3, OneLine
  <2>2. QED
    BY <1>1, <1>3, <1>5, <2>1 DEF Sendable
<1>6. QED
  BY <1>2, <1>4, <1>5

LEMMA OutcomeFollows ==
    ASSUME MetaInv, NEW t \in Tasks, NEW m \in Media \cup {NoMedia}, Outcome(t, m),
           cmd[t].pc \in {"lookup", "member", "profile", "fetch"},
           cmd[t].left # <<>>, cmd[t].out = <<>>,
           m # NoMedia => m \in since[Looked(t)],
           NEW gone, missed \subseteq gone,
           m = NoMedia /\ ChannelSync(cmd[t]) => <<cmd[t].ref, Looked(t)>> \in gone
    PROVE  \E c : /\ cmd' = [cmd EXCEPT ![t] = c]
                  /\ Follows(t, c, gone) /\ c.pc # "fetch"
                  /\ cmd[t].op \notin KeyOps /\ c.op \notin KeyOps
<1>1. /\ cmd[t] \in CmdRecord /\ Shape(cmd[t]) /\ BatchOK(cmd[t], client.opened, client.closed)
      /\ RecentOK(cmd[t], since) /\ ToldOK(cmd[t], client.told \cup missed)
  BY DEF MetaInv, MetaTypeOK, TasksInv
<1>2. /\ cmd[t].op \in {"get", "list", "sync"} /\ cmd[t].op \notin KeyOps
      /\ cmd[t].pc = "member" => ChannelSync(cmd[t])
      /\ cmd[t].pc = "lookup" => cmd[t].target # Channel
  BY <1>1 DEF Shape, ChannelSync, KeyOps
<1>3. Looked(t) \in Nicks /\ Looked(t) \in About(cmd[t])
  BY <1>1, LookedAbout
<1>4. ASSUME NEW items, Replies(t, Batch(items)), items = <<>> \/ items = <<Item(Looked(t), m)>>,
             ~ChannelSync(cmd[t])
      PROVE  \E c : /\ cmd' = [cmd EXCEPT ![t] = c]
                    /\ Follows(t, c, gone) /\ c.pc # "fetch" /\ c.op \notin KeyOps
  <2>1. /\ items \in Seq(AnyLine) /\ Len(items) <= 1
        /\ \A i \in 1 .. Len(items) : items[i].kind = "item"
        /\ Sendable(t, items)
    BY <1>4, ItemLines
  <2>2. Batch(items) \in Seq(AnyLine) /\ OneBatch(Batch(items)) /\ Sendable(t, Batch(items))
    BY <2>1, BatchLines
  <2>3. PICK c : /\ c = [cmd[t] EXCEPT !.pc = "end", !.left = <<>>, !.out = Batch(items)]
                 /\ cmd' = [cmd EXCEPT ![t] = c]
    BY <1>4 DEF Replies, Sets
  <2>4. cmd[t].pc \in Ops \cup {"lookup"} \/ (cmd[t].pc \in {"profile", "fetch"} /\ ~ChannelSync(cmd[t]))
    BY <1>2, <1>4
  <2>5. Follows(t, c, gone) /\ c.op = cmd[t].op /\ c.pc = "end"
    BY <1>2, <1>4, <2>2, <2>3, <2>4, RepliesFollow
  <2>6. QED
    BY <1>2, <2>3, <2>5
<1>5. CASE cmd[t].op \in {"get", "list"}
  <2>1. ~ChannelSync(cmd[t])
    BY <1>5 DEF ChannelSync
  <2>2. \E items : Replies(t, Batch(items)) /\ (items = <<>> \/ items = <<Item(Looked(t), m)>>)
    BY <1>5 DEF Outcome
  <2>3. QED
    BY <1>2, <1>4, <2>1, <2>2
<1>6. CASE ChannelSync(cmd[t])
  <2> DEFINE l == Item(Looked(t), m)
             out == IF m = NoMedia THEN <<>> ELSE <<l>>
             c == [cmd[t] EXCEPT !.pc = "member", !.left = Tail(@), !.out = out]
  <2>1. cmd' = [cmd EXCEPT ![t] = c]
    BY <1>6 DEF Outcome, MemberDone, Sets, ChannelSync
  <2>2. l \in AnyLine /\ l.kind = "item" /\ l.nick = Looked(t) /\ l.media = m
    BY <1>3, LineShapes DEF Targets
  <2> HIDE DEF l
  <2>3. /\ <<l>> \in Seq(AnyLine) /\ Len(<<l>>) = 1 /\ <<l>>[1] = l
    BY <2>2, OneLine
  <2>4. /\ out \in Seq(AnyLine)
        /\ \A i \in 1 .. Len(out) : out[i] = l /\ m # NoMedia
        /\ m # NoMedia => 1 \in 1 .. Len(out) /\ out[1] = l
    BY <2>3
  <2> HIDE DEF out
  <2>5. cmd[t].left \in Seq(Wanted)
    BY <1>1 DEF CmdRecord
  <2>6. /\ Tail(cmd[t].left) \in Seq(Wanted)
        /\ \A i \in 1 .. Len(Tail(cmd[t].left)) :
              i + 1 \in 1 .. Len(cmd[t].left) /\ Tail(cmd[t].left)[i] = cmd[t].left[i + 1]
        /\ \A i \in 2 .. Len(cmd[t].left) :
              i - 1 \in 1 .. Len(Tail(cmd[t].left)) /\ cmd[t].left[i] = Tail(cmd[t].left)[i - 1]
        /\ cmd[t].left[1].nick = Looked(t)
    BY <2>5, TailOf DEF Looked
  <2>7. /\ c \in CmdRecord /\ c.pc = "member" /\ c.left = Tail(cmd[t].left) /\ c.out = out
        /\ c.op = "sync" /\ c.target = Channel /\ c.ok = cmd[t].ok /\ c.ref = cmd[t].ref
    BY <1>1, <1>6, <2>4, <2>6 DEF CmdRecord, ChannelSync
  <2> HIDE DEF c
  <2>8. cmd[t].pc \in {"member", "profile", "fetch"} /\ cmd[t].ok = {"avatar"}
    BY <1>1, <1>2, <1>6 DEF Shape, ChannelSync
  <2>9. Shape(c)
    BY <2>7, <2>8 DEF Shape, Ops, KeyOps, ChannelSync
  <2>10. cmd[t].ref \in client.opened /\ cmd[t].ref \notin client.closed
    BY <1>1, <1>6, <2>8 DEF BatchOK, InBatch
  <2>11. BatchOK(c, client.opened, client.closed)
    BY <2>2, <2>4, <2>7, <2>10 DEF BatchOK, InBatch, ChannelSync, Ops, KeyOps
  <2>12. RecentOK(c, since)
    BY <1>1, <1>3, <2>2, <2>4, <2>6, <2>7 DEF RecentOK
  <2>13. ToldOK(c, client.told \cup gone)
    <3>1. ASSUME NEW i \in DOMAIN Members
          PROVE  <<c.ref, Members[i]>> \in client.told \cup gone \/ Ahead(c, Members[i])
      <4>1. <<c.ref, Members[i]>> \in client.told \cup gone \/ Ahead(cmd[t], Members[i])
        BY <1>1, <1>6, <2>7, <2>8, <3>1 DEF ToldOK
      <4>2. CASE Ahead(cmd[t], Members[i])
        <5>1. PICK j \in 1 .. Len(cmd[t].left) : cmd[t].left[j].nick = Members[i]
          BY <4>2 DEF Ahead
        <5>2. CASE j = 1
          BY <1>6, <2>2, <2>4, <2>6, <2>7, <5>1, <5>2 DEF Ahead
        <5>3. CASE j # 1
          <6>1. j \in 2 .. Len(cmd[t].left)
            BY <5>3
          <6>2. j - 1 \in 1 .. Len(c.left) /\ c.left[j - 1].nick = Members[i]
            BY <2>6, <2>7, <5>1, <6>1
          <6>3. QED
            BY <6>2 DEF Ahead
        <5>4. QED
          BY <5>2, <5>3
      <4>3. QED
        BY <4>1, <4>2
    <3>2. QED
      BY <3>1 DEF ToldOK
  <2>14. About(c) \cap Nicks \subseteq About(cmd[t])
    <3>1. \A i \in 1 .. Len(c.left) : c.left[i].nick \in About(cmd[t])
      BY <2>6, <2>7 DEF About
    <3>2. \A i \in 1 .. Len(c.out) : c.out[i].nick \in About(cmd[t])
      BY <1>3, <2>2, <2>4, <2>7
    <3>3. ASSUME NEW n \in About(c)
          PROVE  \/ \E i \in 1 .. Len(c.left) : c.left[i].nick = n
                 \/ \E i \in 1 .. Len(c.out) : c.out[i].nick = n
      BY <3>3 DEF About
    <3>4. QED
      BY <3>1, <3>2, <3>3
  <2>15. Follows(t, c, gone)
    BY <2>7, <2>9, <2>11, <2>12, <2>13, <2>14 DEF Follows
  <2>16. QED
    BY <1>2, <2>1, <2>7, <2>15 DEF KeyOps
<1>7. CASE cmd[t].op = "sync" /\ cmd[t].target # Channel
  <2>1. ~ChannelSync(cmd[t])
    BY <1>7 DEF ChannelSync
  <2>2. CASE "again" \notin cmd[t].ok /\ "avatar" \in subs
    <3> DEFINE c == [cmd[t] EXCEPT !.pc = "lookup", !.ok = {"again"}]
    <3>1. cmd' = [cmd EXCEPT ![t] = c]
      BY <1>7, <2>2 DEF Outcome, Sets
    <3>2. /\ c \in CmdRecord /\ c.pc = "lookup" /\ c.left = cmd[t].left /\ c.out = <<>>
          /\ c.op = "sync" /\ c.target # Channel /\ c.ok = {"again"} /\ c.ref = cmd[t].ref
      BY <1>1, <1>7 DEF CmdRecord, Words
    <3> HIDE DEF c
    <3>3. Shape(c)
      BY <3>2 DEF Shape, Ops, KeyOps, ChannelSync
    <3>4. cmd[t].ref \notin client.opened
      BY <1>1, <1>2, <2>1 DEF BatchOK
    <3>5. BatchOK(c, client.opened, client.closed)
      BY <3>2, <3>4 DEF BatchOK, InBatch, ChannelSync, Ops, KeyOps
    <3>6. RecentOK(c, since) /\ ToldOK(c, client.told \cup gone)
      BY <1>1, <3>2 DEF RecentOK, ToldOK, ChannelSync
    <3>7. About(c) \cap Nicks \subseteq About(cmd[t])
      BY <3>2 DEF About
    <3>8. Follows(t, c, gone)
      BY <3>2, <3>3, <3>5, <3>6, <3>7 DEF Follows
    <3>9. QED
      BY <1>2, <3>1, <3>2, <3>8 DEF KeyOps
  <2>3. CASE ~("again" \notin cmd[t].ok /\ "avatar" \in subs)
    <3>1. \E items : Replies(t, Batch(items)) /\ (items = <<>> \/ items = <<Item(Looked(t), m)>>)
      BY <1>7, <2>3 DEF Outcome
    <3>2. QED
      BY <1>2, <1>4, <2>1, <3>1
  <2>4. QED
    BY <2>2, <2>3
<1>8. QED
  BY <1>2, <1>5, <1>6, <1>7 DEF ChannelSync

\* A lookup that ends where it began, or whose file has come.
LEMMA OutcomeKeeps ==
    ASSUME MetaInv, NEW t \in Tasks, NEW m \in Media \cup {NoMedia}, Outcome(t, m),
           cmd[t].pc \in {"lookup", "member", "profile", "fetch"},
           cmd[t].left # <<>>, cmd[t].out = <<>>,
           m # NoMedia => m \in since[Looked(t)],
           UNCHANGED <<connVars, subs, client, since, avatar>>, missed \subseteq missed',
           m = NoMedia /\ ChannelSync(cmd[t]) => <<cmd[t].ref, Looked(t)>> \in missed',
           memo' \in [Nicks -> Media \cup {NoMedia}],
           \A n \in Nicks \ stale' :
              \/ n \notin stale /\ memo'[n] = memo[n]
              \/ memo'[n] \in since[n] /\ memo'[n] \in Media /\ InFlight(n),
           \A u \in Tasks : u # t => fetch'[u].media = fetch[u].media
    PROVE  MetaInv'
<1>1. PICK c : /\ cmd' = [cmd EXCEPT ![t] = c]
               /\ Follows(t, c, missed') /\ c.pc # "fetch"
               /\ cmd[t].op \notin KeyOps /\ c.op \notin KeyOps
  BY OutcomeFollows
<1>2. Busy(t)
  BY DEF Busy
<1>3. QED
  BY <1>1, <1>2, CmdMoves

\* What a task that is looking for an avatar has before it.
LEMMA LookingShape ==
    ASSUME MetaInv, NEW t \in Tasks, Looking(t) \/ At(t, "profile") \/ At(t, "fetch")
    PROVE  /\ cmd[t].pc \in {"lookup", "member", "profile", "fetch"}
           /\ cmd[t].left # <<>> /\ cmd[t].out = <<>>
           /\ Looked(t) \in Nicks
           /\ InFlight(Looked(t)) /\ avatar[Looked(t)] \in since[Looked(t)]
           /\ cmd[t].pc = "profile" => Looked(t) = Own
           /\ cmd[t].pc = "member" => ChannelSync(cmd[t])
           /\ Uri(t) \in Media \cup {NoMedia}
           /\ Uri(t) # NoMedia => Uri(t) \in since[Looked(t)]
<1>1. cmd[t] \in CmdRecord /\ Shape(cmd[t]) /\ RecentOK(cmd[t], since)
  BY DEF MetaInv, MetaTypeOK, TasksInv
<1>2. /\ cmd[t].pc \in {"lookup", "member", "profile", "fetch"}
      /\ cmd[t].left # <<>> /\ cmd[t].out = <<>>
  BY <1>1 DEF Looking, At, Shape
<1>3. /\ Looked(t) \in Nicks /\ Looked(t) \in About(cmd[t])
      /\ cmd[t].left[1].nick = Looked(t) /\ 1 \in 1 .. Len(cmd[t].left)
  BY <1>1, <1>2, LookedAbout
<1>4. InFlight(Looked(t))
  BY <1>3, InFlightAbout DEF MetaInv
<1>5. avatar[Looked(t)] \in since[Looked(t)]
  BY <1>3, <1>4 DEF MetaInv, FreshInv
<1>6. avatar[Looked(t)] \in Media \cup {NoMedia}
  BY <1>3 DEF MetaInv, MetaTypeOK
<1>7. /\ Head(cmd[t].left).media \in Media \cup {NoMedia}
      /\ Head(cmd[t].left).media # NoMedia => Head(cmd[t].left).media \in since[Looked(t)]
  <2>1. cmd[t].left \in Seq(Wanted)
    BY <1>1 DEF CmdRecord
  <2>2. Head(cmd[t].left) \in Wanted /\ Head(cmd[t].left) = cmd[t].left[1]
    BY <1>2, <2>1, TailOf
  <2>3. QED
    BY <1>1, <1>3, <2>2 DEF RecentOK, Wanted
<1>8. QED
  BY <1>1, <1>2, <1>3, <1>4, <1>5, <1>6, <1>7 DEF Shape, Looked, Uri

LEMMA LookupEndsKeeps ==
    ASSUME MetaInv, NEW t \in Tasks, LookupHit(t) \/ LookupNone(t) \/ ProfileFails(t)
    PROVE  MetaInv'
<1>1. Looking(t) \/ At(t, "profile")
  BY DEF LookupHit, LookupNone, ProfileFails
<1>2. /\ UNCHANGED <<connVars, subs, client, since, avatar, memo, stale, fetch>>
      /\ missed \subseteq missed'
  BY DEF LookupHit, LookupNone, ProfileFails, Local, Misses, mediaVars, shared, world, seen
<1>3. /\ memo' \in [Nicks -> Media \cup {NoMedia}]
      /\ \A n \in Nicks \ stale' : n \notin stale /\ memo'[n] = memo[n]
      /\ \A u \in Tasks : u # t => fetch'[u].media = fetch[u].media
  BY <1>2 DEF MetaInv, MetaTypeOK
<1>4. CASE LookupHit(t)
  <2>1. Looked(t) \in Nicks \ stale
    BY <1>1, <1>4, LookingShape DEF LookupHit, Fresh
  <2>2. memo[Looked(t)] \in since[Looked(t)] /\ memo[Looked(t)] \in Media
    BY <2>1 DEF MetaInv, FreshInv
  <2>3. memo[Looked(t)] # NoMedia
    BY <2>2, MediaAssumption
  <2>4. Outcome(t, memo[Looked(t)])
    BY <1>4 DEF LookupHit
  <2>5. QED
    BY <1>1, <1>2, <1>3, <2>2, <2>3, <2>4, LookingShape, OutcomeKeeps
<1>5. CASE LookupNone(t) \/ ProfileFails(t)
  <2>1. Outcome(t, NoMedia) /\ <<cmd[t].ref, Looked(t)>> \in missed'
    BY <1>5 DEF LookupNone, ProfileFails, Misses
  <2>2. QED
    BY <1>1, <1>2, <1>3, <2>1, LookingShape, OutcomeKeeps
<1>6. QED
  BY <1>4, <1>5

\* Nobody has the nick: the command says so, or closes the batch of its SYNC.
LEMMA LookupNobodyKeeps ==
    ASSUME MetaInv, NEW t \in Tasks, LookupNobody(t)
    PROVE  MetaInv'
<1>1. cmd[t].pc = "lookup" /\ Looking(t) /\ UNCHANGED <<subs, Local>>
  BY DEF LookupNobody, Looking, At
<1>2. Shape(cmd[t])
  BY DEF MetaInv, TasksInv
<1>3. cmd[t].op \in {"get", "list", "sync"} /\ ~ChannelSync(cmd[t])
  BY <1>1, <1>2 DEF Shape, ChannelSync
<1>4. CASE Replies(t, <<Plain("reply")>>)
  <2>1. Busy(t) /\ cmd[t].op \notin KeyOps
    BY <1>1, <1>3 DEF Busy, KeyOps
  <2>2. QED
    BY <1>1, <1>4, <2>1, ReplyLines, LocalReplies
<1>5. CASE Outcome(t, NoMedia)
  <2>1. UNCHANGED <<connVars, memo, stale, avatar, client, since, missed, fetch>>
    BY <1>1 DEF Local, world, seen, mediaVars
  <2>2. /\ memo' \in [Nicks -> Media \cup {NoMedia}]
        /\ \A n \in Nicks \ stale' : n \notin stale /\ memo'[n] = memo[n]
        /\ \A u \in Tasks : u # t => fetch'[u].media = fetch[u].media
    BY <2>1 DEF MetaInv, MetaTypeOK
  <2>3. QED
    BY <1>1, <1>3, <1>5, <2>1, <2>2, LookingShape, OutcomeKeeps
<1>6. QED
  BY <1>4, <1>5 DEF LookupNobody

\* The lookup goes on: pc is all that changes.
LEMMA GoesOnKeeps ==
    ASSUME MetaInv, NEW t \in Tasks, Looking(t) \/ At(t, "profile"),
           NEW pc \in {"profile", "fetch"}, Goto(t, pc), pc = "profile" => Looked(t) = Own,
           UNCHANGED <<connVars, subs, memo, stale, client, since, avatar, missed>>,
           \A u \in Tasks : u # t => fetch'[u].media = fetch[u].media,
           pc = "fetch" => fetch'[t].media \in Media /\ fetch'[t].media \in since[Looked(t)]
    PROVE  MetaInv'
<1> DEFINE c == [cmd[t] EXCEPT !.pc = pc]
<1>1. /\ cmd[t] \in CmdRecord /\ Shape(cmd[t]) /\ BatchOK(cmd[t], client.opened, client.closed)
      /\ RecentOK(cmd[t], since) /\ ToldOK(cmd[t], client.told \cup missed)
  BY DEF MetaInv, MetaTypeOK, TasksInv
<1>2. cmd' = [cmd EXCEPT ![t] = c]
  BY DEF Goto, Sets
<1>3. /\ c \in CmdRecord /\ c.pc = pc /\ c.left = cmd[t].left /\ c.out = cmd[t].out
      /\ c.op = cmd[t].op /\ c.target = cmd[t].target /\ c.ok = cmd[t].ok /\ c.ref = cmd[t].ref
  BY <1>1 DEF CmdRecord
<1> HIDE DEF c
<1>4. /\ cmd[t].pc \in {"lookup", "member", "profile", "fetch"}
      /\ cmd[t].left # <<>> /\ cmd[t].out = <<>>
  BY LookingShape
<1>5. cmd[t].op \in {"get", "list", "sync"} /\ cmd[t].op \notin KeyOps
  BY <1>1, <1>4 DEF Shape, ChannelSync, KeyOps
<1>6. Shape(c)
  BY <1>1, <1>3, <1>4, <1>5 DEF Shape, Ops, KeyOps, ChannelSync, Looked
<1>7. BatchOK(c, client.opened, client.closed)
  <2>1. CASE ChannelSync(cmd[t])
    <3>1. InBatch(cmd[t])
      BY <1>1, <1>4, <2>1 DEF InBatch, Shape, ChannelSync
    <3>2. QED
      BY <1>1, <1>3, <1>4, <1>5, <2>1, <3>1 DEF BatchOK, InBatch, ChannelSync, Ops
  <2>2. CASE ~ChannelSync(cmd[t])
    <3>1. cmd[t].ref \notin client.opened
      BY <1>1, <1>4, <2>2 DEF BatchOK, Shape
    <3>2. QED
      BY <1>3, <1>4, <1>5, <2>2, <3>1 DEF BatchOK, InBatch, ChannelSync, Ops
  <2>3. QED
    BY <2>1, <2>2
<1>8. RecentOK(c, since) /\ ToldOK(c, client.told \cup missed')
  BY <1>1, <1>3 DEF RecentOK, ToldOK, ChannelSync, Ahead
<1>9. About(c) \cap Nicks \subseteq About(cmd[t])
  BY <1>3 DEF About
<1>10. Follows(t, c, missed')
  BY <1>3, <1>6, <1>7, <1>8, <1>9 DEF Follows
<1>11. Busy(t)
  BY <1>4 DEF Busy
<1>12. c.pc = "fetch" => fetch'[t].media \in Media /\ fetch'[t].media \in since[Head(c.left).nick]
  BY <1>3 DEF Looked
<1>13. QED
  BY <1>2, <1>3, <1>10, <1>11, <1>12, CmdMoves DEF MetaInv, MetaTypeOK

LEMMA CachesKeeps ==
    ASSUME MetaInv, MediaTypeOK, NEW t \in Tasks, Looking(t) \/ At(t, "profile"),
           NEW m \in Media, m \in since[Looked(t)], Caches(t, m)
    PROVE  MetaInv'
<1> DEFINE f == [Idle EXCEPT !.pc = IF FoundAvatar(m) # NoName \/ m \in failed
                                   THEN "done" ELSE "download",
                            !.media = m, !.name = FoundAvatar(m)]
<1>1. fetch' = [fetch EXCEPT ![t] = f] /\ f.media = m
  BY DEF Caches, FetchAvatar, Step, Idle
<1> HIDE DEF f
<1>2. fetch'[t].media = m /\ \A u \in Tasks : u # t => fetch'[u].media = fetch[u].media
  BY <1>1 DEF MediaTypeOK
<1>3. Goto(t, "fetch") /\ UNCHANGED <<connVars, subs, memo, stale, client, since, avatar, missed>>
  BY DEF Caches, shared, world, seen
<1>4. QED
  BY <1>2, <1>3, GoesOnKeeps

LEMMA LookupGoesOnKeeps ==
    ASSUME MetaInv, MediaTypeOK, NEW t \in Tasks,
           LookupFetch(t) \/ AskProfile(t) \/ ProfileComes(t)
    PROVE  MetaInv'
<1>1. CASE LookupFetch(t)
  <2>1. Looking(t) /\ Uri(t) # NoMedia /\ Caches(t, Uri(t))
    BY <1>1 DEF LookupFetch
  <2>2. QED
    BY <2>1, LookingShape, CachesKeeps
<1>2. CASE AskProfile(t)
  <2>1. /\ Looking(t) /\ Looked(t) = Own /\ Goto(t, "profile")
        /\ UNCHANGED <<connVars, subs, memo, stale, client, since, avatar, missed, fetch>>
    BY <1>2 DEF AskProfile, FromProfile, Local, mediaVars, world, seen
  <2>2. QED
    BY <2>1, GoesOnKeeps
<1>3. CASE ProfileComes(t)
  <2>1. At(t, "profile")
    BY <1>3 DEF ProfileComes
  <2>2. Looked(t) = Own /\ Own \in Nicks /\ avatar[Own] \in since[Own]
    BY <2>1, LookingShape DEF At
  <2>3. avatar[Own] \in Media \cup {NoMedia}
    BY <2>2 DEF MetaInv, MetaTypeOK
  <2>4. CASE avatar[Own] # NoMedia
    BY <1>3, <2>1, <2>2, <2>3, <2>4, CachesKeeps DEF ProfileComes
  <2>5. CASE avatar[Own] = NoMedia
    <3>1. /\ Outcome(t, NoMedia) /\ <<cmd[t].ref, Looked(t)>> \in missed'
          /\ missed \subseteq missed'
          /\ UNCHANGED <<connVars, subs, client, since, avatar, memo, stale, fetch>>
      BY <1>3, <2>5 DEF ProfileComes, Misses, mediaVars, shared, world
    <3>2. /\ memo' \in [Nicks -> Media \cup {NoMedia}]
          /\ \A n \in Nicks \ stale' : n \notin stale /\ memo'[n] = memo[n]
          /\ \A u \in Tasks : u # t => fetch'[u].media = fetch[u].media
      BY <3>1 DEF MetaInv, MetaTypeOK
    <3>3. QED
      BY <2>1, <3>1, <3>2, LookingShape, OutcomeKeeps
  <2>6. QED
    BY <2>4, <2>5
<1>4. QED
  BY <1>1, <1>2, <1>3

LEMMA FetchedKeeps ==
    ASSUME MetaInv, MediaTypeOK, NEW t \in Tasks, Fetched(t)
    PROVE  MetaInv'
<1> DEFINE m == fetch[t].media  n == Looked(t)
<1>1. At(t, "fetch") /\ TakeFetched(t)
      /\ UNCHANGED <<connVars, subs, client, since, avatar>>
  BY DEF Fetched, world
<1>2. m \in Media /\ m \in since[n] /\ m # NoMedia
  BY <1>1, MediaAssumption DEF MetaInv, FreshInv, At
<1>3. \A u \in Tasks : u # t => fetch'[u].media = fetch[u].media
  BY <1>1 DEF TakeFetched, Step, MediaTypeOK
<1>4. n \in Nicks /\ InFlight(n)
  BY <1>1, LookingShape
<1>5. memo \in [Nicks -> Media \cup {NoMedia}]
  BY DEF MetaInv, MetaTypeOK
<1>6. CASE fetch[t].name = NoName
  <2>1. /\ Outcome(t, NoMedia) /\ <<cmd[t].ref, n>> \in missed' /\ missed \subseteq missed'
        /\ UNCHANGED <<memo, stale>>
    BY <1>6 DEF Fetched, Misses
  <2> HIDE DEF m, n
  <2>2. /\ memo' \in [Nicks -> Media \cup {NoMedia}]
        /\ \A k \in Nicks \ stale' : k \notin stale /\ memo'[k] = memo[k]
    BY <1>5, <2>1
  <2>3. QED
    BY <1>1, <1>3, <2>1, <2>2, LookingShape, OutcomeKeeps DEF n
<1>7. CASE fetch[t].name # NoName
  <2>1. /\ Outcome(t, m) /\ memo' = [memo EXCEPT ![n] = m] /\ stale' = stale \ {n}
        /\ UNCHANGED missed
    BY <1>7 DEF Fetched
  <2> HIDE DEF m, n
  <2>2. /\ memo' \in [Nicks -> Media \cup {NoMedia}]
        /\ \A k \in Nicks \ stale' :
              \/ k \notin stale /\ memo'[k] = memo[k]
              \/ memo'[k] \in since[k] /\ memo'[k] \in Media /\ InFlight(k)
    BY <1>2, <1>4, <1>5, <2>1
  <2>3. QED
    BY <1>1, <1>2, <1>3, <2>1, <2>2, LookingShape, OutcomeKeeps DEF n
<1>8. QED
  BY <1>6, <1>7

-----------------------------------------------------------------------------
\* SUB and UNSUB.

LEMMA KeyFollows ==
    ASSUME MetaInv, NEW t \in Tasks, cmd[t].pc \in KeyOps, NEW c \in CmdRecord, NEW gone,
           c.pc = cmd[t].pc, c.op = cmd[t].op, c.left = cmd[t].left, c.ref = cmd[t].ref,
           c.target = cmd[t].target,
           c.out = <<>> \/ c.out = <<Plain("reply")>>
    PROVE  Follows(t, c, gone)
<1>1. Shape(cmd[t]) /\ BatchOK(cmd[t], client.opened, client.closed)
  BY DEF MetaInv, TasksInv
<1>2. cmd[t].op = cmd[t].pc /\ cmd[t].left = <<>>
  BY <1>1 DEF Shape, Ops, KeyOps
<1>3. cmd[t].ref \notin client.opened
  BY <1>1 DEF BatchOK, Ops, KeyOps
<1>4. \A i \in 1 .. Len(c.out) : c.out[i].kind = "reply" /\ c.out[i].media = NoMedia
                                 /\ c.out[i].nick = Channel
  BY LineShapes
<1>5. Shape(c)
  BY <1>2 DEF Shape, Ops, KeyOps, ChannelSync
<1>6. BatchOK(c, client.opened, client.closed)
  BY <1>2, <1>3, <1>4 DEF BatchOK, InBatch, ChannelSync, Ops, KeyOps
<1>7. RecentOK(c, since) /\ ToldOK(c, client.told \cup gone)
  BY <1>2, <1>4 DEF RecentOK, ToldOK, ChannelSync, KeyOps
<1>8. About(c) \cap Nicks \subseteq About(cmd[t])
  BY <1>2, <1>4, MetadataAssumption DEF About
<1>9. QED
  BY <1>5, <1>6, <1>7, <1>8 DEF Follows

LEMMA KeyTaskShape ==
    ASSUME MetaInv, NEW t \in Tasks, At(t, "sub") \/ At(t, "unsub")
    PROVE  /\ cmd[t] \in CmdRecord /\ cmd[t].pc \in KeyOps /\ cmd[t].op = cmd[t].pc
           /\ cmd[t].out = <<>> /\ cmd[t].left = <<>> /\ Busy(t)
           /\ cmd[t].keys # <<>> =>
                Head(cmd[t].keys) \in KeyNames /\ Tail(cmd[t].keys) \in Seq(KeyNames)
  BY DEF MetaInv, MetaTypeOK, TasksInv, At, Busy, Shape, Ops, KeyOps, CmdRecord

LEMMA KeyRefusedKeeps ==
    ASSUME MetaInv, NEW t \in Tasks, BadKey(t) \/ TooManySubs(t)
    PROVE  MetaInv'
<1> DEFINE l == Plain("reply")
<1>1. PICK keys \in {Tail(cmd[t].keys), <<>>} :
         cmd' = [cmd EXCEPT ![t] = [cmd[t] EXCEPT !.keys = keys, !.out = <<l>>]]
  BY DEF BadKey, TooManySubs, Sets
<1> DEFINE c == [cmd[t] EXCEPT !.keys = keys, !.out = <<l>>]
<1>2. /\ cmd[t] \in CmdRecord /\ cmd[t].pc \in KeyOps /\ cmd[t].op = cmd[t].pc /\ Busy(t)
      /\ Tail(cmd[t].keys) \in Seq(KeyNames)
  BY KeyTaskShape DEF BadKey, TooManySubs, KeyOp
<1>3. <<l>> \in Seq(AnyLine)
  BY LineShapes, OneLine
<1>4. keys \in Seq(KeyNames)
  <2>1. <<>> \in Seq(KeyNames)
    OBVIOUS
  <2>2. QED
    BY <1>1, <1>2, <2>1
<1>5. /\ c \in CmdRecord /\ c.pc = cmd[t].pc /\ c.op = cmd[t].op /\ c.left = cmd[t].left
      /\ c.ref = cmd[t].ref /\ c.target = cmd[t].target /\ c.ok = cmd[t].ok /\ c.out = <<l>>
  BY <1>2, <1>3, <1>4 DEF CmdRecord
<1>6. UNCHANGED <<fetch, connVars, subs, memo, stale, avatar, client, since, missed>>
  BY DEF BadKey, TooManySubs, Local, mediaVars, world, seen
<1> HIDE DEF c
<1>7. Follows(t, c, missed')
  BY <1>2, <1>5, KeyFollows
<1>8. c.pc # "fetch"
  BY <1>2, <1>5 DEF KeyOps
<1>9. QED
  BY <1>1, <1>2, <1>5, <1>6, <1>7, <1>8, CmdMoves DEF MetaInv, MetaTypeOK, c

LEMMA KeyTakenKeeps ==
    ASSUME MetaInv, NEW t \in Tasks, SubKey(t) \/ UnsubKey(t)
    PROVE  MetaInv'
<1> DEFINE k == Head(cmd[t].keys)
           c == [cmd[t] EXCEPT !.keys = Tail(@), !.ok = @ \cup {k}]
<1>1. cmd' = [cmd EXCEPT ![t] = c]
  BY DEF SubKey, UnsubKey, NextKey, Sets
<1>2. /\ cmd[t] \in CmdRecord /\ cmd[t].pc \in KeyOps /\ cmd[t].op = cmd[t].pc /\ Busy(t)
      /\ cmd[t].out = <<>> /\ Tail(cmd[t].keys) \in Seq(KeyNames) /\ k \in KeyNames
  BY KeyTaskShape DEF SubKey, UnsubKey, KeyOp
<1>3. /\ c \in CmdRecord /\ c.pc = cmd[t].pc /\ c.op = cmd[t].op /\ c.left = cmd[t].left
      /\ c.ref = cmd[t].ref /\ c.target = cmd[t].target /\ c.out = <<>>
      /\ c.ok = cmd[t].ok \cup {k}
  BY <1>2 DEF CmdRecord, Words
<1>4. /\ UNCHANGED <<fetch, connVars, memo, stale, avatar, client, since, missed>>
      /\ \/ cmd[t].pc = "sub" /\ subs' = subs \cup {k} /\ (k \in subs \/ Cardinality(subs) < MaxSubs)
         \/ cmd[t].pc = "unsub" /\ subs' = subs \ {k}
  BY DEF SubKey, UnsubKey, KeyOp, At, Local, mediaVars, world, seen
<1> HIDE DEF c, k
<1>5. Follows(t, c, missed') /\ c.pc # "fetch"
  BY <1>2, <1>3, KeyFollows DEF KeyOps
<1>6. cmd' \in [Tasks -> CmdRecord] /\ TasksInv' /\ References'
  BY <1>1, <1>2, <1>4, <1>5, TasksMoved DEF connVars
<1>7. FreshInv'
  BY <1>1, <1>3, <1>4, <1>5, FreshSteady DEF Follows
<1>8. MetaTypeOK'
  BY <1>2, <1>4, <1>6 DEF MetaInv, MetaTypeOK, connVars
<1>9. ViewInv'
  <2>1. IsFiniteSet(subs) /\ Cardinality(subs) <= MaxSubs /\ Cardinality(subs) \in Nat
    BY FS_CardinalityType DEF MetaInv, ViewInv
  <2>2. IsFiniteSet(subs') /\ Cardinality(subs') <= MaxSubs
    <3>1. CASE subs' = subs \cup {k} /\ (k \in subs \/ Cardinality(subs) < MaxSubs)
      <4>1. CASE k \in subs
        <5>1. subs' = subs
          BY <3>1, <4>1
        <5>2. QED
          BY <2>1, <5>1
      <4>2. CASE k \notin subs
        <5>1. IsFiniteSet(subs') /\ Cardinality(subs') = Cardinality(subs) + 1
          BY <2>1, <3>1, <4>2, FS_AddElement
        <5>2. Cardinality(subs) < MaxSubs /\ MaxSubs \in Nat
          BY <3>1, <4>2, MetadataAssumption
        <5>3. QED
          BY <2>1, <5>1, <5>2
      <4>3. QED
        BY <4>1, <4>2
    <3>2. CASE subs' = subs \ {k}
      <4>1. CASE k \in subs
        <5>1. IsFiniteSet(subs') /\ Cardinality(subs') = Cardinality(subs) - 1
          BY <2>1, <3>2, <4>1, FS_RemoveElement
        <5>2. MaxSubs \in Nat
          BY MetadataAssumption
        <5>3. QED
          BY <2>1, <5>1, <5>2
      <4>2. CASE k \notin subs
        <5>1. subs' = subs
          BY <3>2, <4>2
        <5>2. QED
          BY <2>1, <5>1
      <4>3. QED
        BY <4>1, <4>2
    <3>3. QED
      BY <1>4, <3>1, <3>2
  <2>3. /\ cmd'[t] = c /\ \A u \in Tasks : u # t => cmd'[u] = cmd[u]
    BY <1>1 DEF MetaInv, MetaTypeOK
  <2>4. ASSUME client.waited
        PROVE  /\ \A u, v \in Tasks : cmd'[u].op \in KeyOps /\ cmd'[v].op \in KeyOps => u = v
               /\ \A u \in Tasks : cmd'[u].op = "sub" => subs' = client.subs \cup cmd'[u].ok
               /\ \A u \in Tasks : cmd'[u].op = "unsub" => subs' = client.subs \ cmd'[u].ok
    <3>1. /\ \A u, v \in Tasks : cmd[u].op \in KeyOps /\ cmd[v].op \in KeyOps => u = v
          /\ cmd[t].op = "sub" => subs = client.subs \cup cmd[t].ok
          /\ cmd[t].op = "unsub" => subs = client.subs \ cmd[t].ok
      BY <2>4 DEF MetaInv, ViewInv
    <3>2. \A u, v \in Tasks : cmd'[u].op \in KeyOps /\ cmd'[v].op \in KeyOps => u = v
      BY <1>3, <2>3, <3>1
    <3>3. \A u \in Tasks : cmd'[u].op \in KeyOps => u = t
      BY <1>2, <1>3, <2>3, <3>2
    <3>4. c.op = "sub" => subs' = client.subs \cup c.ok
      BY <1>2, <1>3, <1>4, <3>1
    <3>5. c.op = "unsub" => subs' = client.subs \ c.ok
      BY <1>2, <1>3, <1>4, <3>1
    <3>6. QED
      BY <2>3, <3>2, <3>3, <3>4, <3>5 DEF KeyOps
  <2>5. \E u \in Tasks : cmd'[u].op \in KeyOps
    BY <1>2, <1>3, <2>3
  <2>6. QED
    BY <1>4, <2>2, <2>4, <2>5 DEF ViewInv
<1>10. QED
  BY <1>6, <1>7, <1>8, <1>9 DEF MetaInv

LEMMA KeysDoneKeeps ==
    ASSUME MetaInv, NEW t \in Tasks, KeysDone(t)
    PROVE  MetaInv'
<1>1. /\ cmd[t] \in CmdRecord /\ cmd[t].pc \in KeyOps /\ cmd[t].op = cmd[t].pc /\ Busy(t)
      /\ cmd[t].out = <<>> /\ cmd[t].left = <<>>
  BY KeyTaskShape DEF KeysDone
<1>2. UNCHANGED <<fetch, connVars, subs, memo, stale, avatar, client, since, missed>>
  BY DEF KeysDone, Local, mediaVars, world, seen
<1>3. CASE cmd[t].ok # {}
  <2> DEFINE l == Keyed(IF cmd[t].op = "sub" THEN "770" ELSE "771", cmd[t].ok)
             c == [cmd[t] EXCEPT !.pc = "end", !.left = <<>>, !.out = <<l>>]
  <2>1. cmd' = [cmd EXCEPT ![t] = c]
    BY <1>3 DEF KeysDone, Replies, Sets
  <2>2. cmd[t].ok \in SUBSET Words
    BY <1>1 DEF CmdRecord
  <2>3. /\ l \in AnyLine /\ l.kind \in {"770", "771"} /\ l.media = NoMedia /\ l.nick = Channel
    BY <2>2, LineShapes
  <2>4. <<l>> \in Seq(AnyLine) /\ Len(<<l>>) = 1 /\ <<l>>[1] = l
    BY <2>3, OneLine
  <2>5. /\ c \in CmdRecord /\ c.pc = "end" /\ c.left = <<>> /\ c.out = <<l>>
        /\ c.op = cmd[t].op /\ c.target = cmd[t].target /\ c.ok = cmd[t].ok /\ c.ref = cmd[t].ref
    BY <1>1, <2>4 DEF CmdRecord
  <2>6. c.op \in KeyOps /\ c.op \in {"sub", "unsub"}
    BY <1>1, <2>5 DEF KeyOps
  <2>7. c.out = <<Keyed(IF c.op = "sub" THEN "770" ELSE "771", c.ok)>>
    BY <2>5
  <2> HIDE DEF c, l
  <2>8. Shape(c)
    BY <2>5, <2>6 DEF Shape, Ops, KeyOps, ChannelSync
  <2>9. BatchOK(c, client.opened, client.closed)
    <3>1. c.ref \notin client.opened
      BY <1>1, <2>5 DEF MetaInv, TasksInv, BatchOK, Ops, KeyOps
    <3>2. QED
      BY <2>3, <2>4, <2>5, <2>6, <2>7, <3>1 DEF BatchOK, InBatch, ChannelSync, Ops
  <2>10. RecentOK(c, since) /\ ToldOK(c, client.told \cup missed')
    BY <2>3, <2>4, <2>5, <2>6 DEF RecentOK, ToldOK, ChannelSync
  <2>11. About(c) \cap Nicks \subseteq About(cmd[t])
    BY <2>3, <2>4, <2>5, MetadataAssumption DEF About
  <2>12. Follows(t, c, missed')
    BY <2>5, <2>8, <2>9, <2>10, <2>11 DEF Follows
  <2>13. QED
    BY <1>1, <1>2, <2>1, <2>5, <2>12, CmdMoves DEF MetaInv, MetaTypeOK
<1>4. CASE cmd[t].ok = {}
  <2>1. cmd' = [cmd EXCEPT ![t] = NoCmd]
    BY <1>4 DEF KeysDone, Sets
  <2>2. Follows(t, NoCmd, missed')
    <3>1. cmd[t].ref \notin client.opened
      BY <1>1 DEF MetaInv, TasksInv, BatchOK, Ops, KeyOps
    <3>2. QED
      BY <3>1, NoCmdGood DEF Follows
  <2>3. cmd' \in [Tasks -> CmdRecord] /\ TasksInv' /\ References'
    BY <1>1, <1>2, <2>1, <2>2, TasksMoved DEF connVars
  <2>4. FreshInv'
    BY <1>2, <2>1, NoCmdGood, FreshSteady
  <2>5. MetaTypeOK'
    BY <1>2, <2>3 DEF MetaInv, MetaTypeOK, connVars
  <2>6. ViewInv'
    <3>1. /\ cmd'[t] = NoCmd /\ \A u \in Tasks : u # t => cmd'[u] = cmd[u]
      BY <2>1 DEF MetaInv, MetaTypeOK
    <3>2. ASSUME client.waited
          PROVE  subs = client.subs /\ \A u \in Tasks : cmd'[u].op \notin KeyOps
      <4>1. subs = client.subs
        BY <1>1, <1>4, <3>2 DEF MetaInv, ViewInv, KeyOps
      <4>2. \A u \in Tasks : cmd'[u].op \notin KeyOps
        BY <1>1, <3>1, <3>2, NoCmdGood DEF MetaInv, ViewInv, KeyOps
      <4>3. QED
        BY <4>1, <4>2
    <3>3. QED
      BY <1>2, <3>2 DEF MetaInv, ViewInv, KeyOps
  <2>7. QED
    BY <2>3, <2>4, <2>5, <2>6 DEF MetaInv
<1>5. QED
  BY <1>3, <1>4

-----------------------------------------------------------------------------
\* The queue of lines.

\* What another task does to its own batch is no concern of this one.
LEMMA BatchesApart ==
    ASSUME NEW c, NEW o, NEW cl, NEW o2, NEW cl2, BatchOK(c, o, cl),
           c.ref \in o2 <=> c.ref \in o, c.ref \in cl2 <=> c.ref \in cl
    PROVE  BatchOK(c, o2, cl2)
<1> DEFINE Lines(op, done) == \A i \in 1 .. Len(c.out) :
             LET kind == c.out[i].kind
             IN  /\ kind = "open" => i = 1 /\ c.ref \notin op
                 /\ kind \in {"item", "close"} =>
                      c.ref \notin done /\ (c.ref \in op \/ (i > 1 /\ c.out[1].kind = "open"))
                 /\ kind = "close" => i = Len(c.out) /\ c.pc = "end"
                 /\ kind \in {"770", "771"} => c.op \in KeyOps /\ c.pc = "end"
                 /\ kind = "item" => c.pc = "member" \/ (c.pc = "end" /\ ~ChannelSync(c))
<1>1. Lines(o, cl)
  BY DEF BatchOK
<1>2. Lines(o2, cl2)
  BY <1>1
<1>3. QED
  BY <1>2 DEF BatchOK

LEMMA EmitsShape ==
    ASSUME MetaInv, NEW t \in Tasks, cmd[t].out # <<>>
    PROVE  /\ Busy(t) /\ cmd[t] \in CmdRecord /\ cmd[t].ref \in 1 .. next
           /\ cmd[t].pc \notin {"lookup", "profile", "fetch"}
           /\ Head(cmd[t].out) = cmd[t].out[1] /\ cmd[t].out[1] \in AnyLine
           /\ Len(cmd[t].out) \in Nat /\ Len(cmd[t].out) >= 1
           /\ Tail(cmd[t].out) \in Seq(AnyLine) /\ Len(Tail(cmd[t].out)) = Len(cmd[t].out) - 1
           /\ \A i \in 1 .. Len(cmd[t].out) - 1 : Tail(cmd[t].out)[i] = cmd[t].out[i + 1]
           /\ Tail(cmd[t].out) = <<>> <=> Len(cmd[t].out) = 1
<1>1. cmd[t] \in CmdRecord /\ Shape(cmd[t])
  BY DEF MetaInv, MetaTypeOK, TasksInv
<1>2. Busy(t)
  BY <1>1, NoCmdGood DEF Shape, Busy
<1>3. cmd[t].ref \in 1 .. next
  BY <1>2 DEF MetaInv, References
<1>4. cmd[t].pc \notin {"lookup", "profile", "fetch"}
  BY <1>1 DEF Shape
<1>5. cmd[t].out \in Seq(AnyLine)
  BY <1>1 DEF CmdRecord
<1> DEFINE s == cmd[t].out
<1>6. s \in Seq(AnyLine) /\ s # <<>>
  BY <1>5
<1> HIDE DEF s
<1>7. /\ Head(s) = s[1] /\ s[1] \in AnyLine /\ Len(s) \in Nat /\ Len(s) >= 1
      /\ Tail(s) \in Seq(AnyLine) /\ Len(Tail(s)) = Len(s) - 1
      /\ \A i \in 1 .. Len(s) - 1 : Tail(s)[i] = s[i + 1]
  BY <1>6
<1>8. Tail(s) = <<>> <=> Len(s) = 1
  <2>1. ASSUME NEW e \in Seq(AnyLine) PROVE e = <<>> <=> Len(e) = 0
    OBVIOUS
  <2>2. Tail(s) = <<>> <=> Len(Tail(s)) = 0
    BY <1>7, <2>1
  <2>3. QED
    BY <1>7, <2>2
<1>9. QED
  BY <1>1, <1>2, <1>3, <1>4, <1>7, <1>8 DEF s

\* What the client is told by a line of task t.
LEMMA ReceivedShape ==
    ASSUME MetaInv, NEW r \in Nat, NEW l \in AnyLine
    PROVE  /\ Received(r, l) \in ClientRecord
           /\ Received(r, l).opened = IF l.kind = "open" THEN client.opened \cup {r} ELSE client.opened
           /\ Received(r, l).closed = IF l.kind = "close" THEN client.closed \cup {r} ELSE client.closed
           /\ Received(r, l).strays = \/ client.strays
                                      \/ l.kind = "open" /\ r \in client.opened
                                      \/ l.kind \in {"item", "close"} /\ ~IsOpen(r)
           /\ Received(r, l).told = IF l.kind = "item" /\ l.media # NoMedia
                                    THEN client.told \cup {<<r, l.nick>>} ELSE client.told
           /\ Received(r, l).subs = IF l.kind = "770" THEN client.subs \cup l.keys
                                    ELSE IF l.kind = "771" THEN client.subs \ l.keys ELSE client.subs
           /\ Received(r, l).waited = client.waited
<1>1. client \in ClientRecord
  BY DEF MetaInv, MetaTypeOK
<1>2. l.keys \in SUBSET Words /\ l.nick \in Targets
  BY DEF AnyLine
<1>3. <<r, l.nick>> \in Nat \X Targets
  BY <1>2
<1>4. QED
  BY ZenonT(60), <1>1, <1>2, <1>3 DEF Received, ClientRecord

\* What is left of a task when the client got its first line.
Sent(t) == IF cmd[t].pc = "end" /\ Tail(cmd[t].out) = <<>> THEN NoCmd
           ELSE [cmd[t] EXCEPT !.out = Tail(@)]

LEMMA SentShape ==
    ASSUME MetaInv, NEW t \in Tasks, Emit(t)
    PROVE  /\ client' = Received(cmd[t].ref, cmd[t].out[1]) /\ cmd' = [cmd EXCEPT ![t] = Sent(t)]
           /\ Sent(t) \in CmdRecord /\ Sent(t).pc # "fetch" /\ About(Sent(t)) \subseteq About(cmd[t])
           /\ Shape(Sent(t)) /\ RecentOK(Sent(t), since)
           /\ BatchOK(Sent(t), client'.opened, client'.closed)
           /\ ToldOK(Sent(t), client'.told \cup missed)
<1> DEFINE l == cmd[t].out[1]
           r == cmd[t].ref
           d == [cmd[t] EXCEPT !.out = Tail(@)]
           s == Tail(cmd[t].out)
           n == Len(cmd[t].out)
<1>0. cmd[t].out # <<>>
  BY DEF Emit
<1>1. /\ cmd[t] \in CmdRecord /\ r \in Nat /\ l \in AnyLine /\ n \in Nat /\ n >= 1
      /\ cmd[t].pc \notin {"lookup", "profile", "fetch"}
      /\ s \in Seq(AnyLine) /\ Len(s) = n - 1
      /\ \A i \in 1 .. n - 1 : s[i] = cmd[t].out[i + 1]
      /\ Head(cmd[t].out) = l
      /\ s = <<>> <=> n = 1
  BY <1>0, EmitsShape DEF CmdRecord
<1>2. /\ client' = Received(r, l) /\ cmd' = [cmd EXCEPT ![t] = Sent(t)]
  BY <1>1 DEF Emit, Sets, Sent
<1>3. /\ client'.opened = IF l.kind = "open" THEN client.opened \cup {r} ELSE client.opened
      /\ client'.closed = IF l.kind = "close" THEN client.closed \cup {r} ELSE client.closed
      /\ client'.told = IF l.kind = "item" /\ l.media # NoMedia
                        THEN client.told \cup {<<r, l.nick>>} ELSE client.told
  BY <1>1, <1>2, ReceivedShape
<1>4. /\ d \in CmdRecord /\ d.pc = cmd[t].pc /\ d.op = cmd[t].op /\ d.target = cmd[t].target
      /\ d.ok = cmd[t].ok /\ d.left = cmd[t].left /\ d.ref = r /\ d.out = s
  BY <1>1 DEF CmdRecord
<1> HIDE DEF d, s
<1>5. CASE cmd[t].pc = "end" /\ n = 1
  <2>1. Sent(t) = NoCmd
    BY <1>1, <1>5 DEF Sent, s
  <2>2. QED
    BY <1>2, <2>1, NoCmdGood
<1>6. CASE ~(cmd[t].pc = "end" /\ n = 1)
  <2>1. Sent(t) = d
    BY <1>1, <1>6 DEF Sent, d, s
  <2>2. \A i \in 1 .. Len(s) : i + 1 \in 1 .. n /\ i + 1 > 1 /\ s[i] = cmd[t].out[i + 1]
    BY <1>1
  <2>3. \A i \in 2 .. n : i - 1 \in 1 .. Len(s) /\ s[i - 1] = cmd[t].out[i]
    BY <1>1
  <2>4. Shape(cmd[t]) /\ BatchOK(cmd[t], client.opened, client.closed)
        /\ RecentOK(cmd[t], since) /\ ToldOK(cmd[t], client.told \cup missed)
    BY DEF MetaInv, TasksInv
  <2>5. Shape(d)
    <3>1. cmd[t].pc # "idle"
      BY <1>0, <2>4, NoCmdGood DEF Shape
    <3>2. QED
      BY <1>1, <1>4, <2>4, <3>1 DEF Shape, ChannelSync
  <2>6. RecentOK(d, since)
    BY <1>4, <2>2, <2>4 DEF RecentOK
  <2>7. About(d) \subseteq About(cmd[t])
    BY <1>4, <2>2 DEF About
  <2>8. BatchOK(d, client'.opened, client'.closed)
    <3>1. 1 \in 1 .. n
      BY <1>1
    <3>2. l.kind = "close" => n = 1 /\ cmd[t].pc = "end"
      BY <2>4, <3>1 DEF BatchOK
    <3>3. client'.closed = client.closed
      BY <1>3, <1>6, <3>2
    <3>4. cmd[t].op \in KeyOps => cmd[t].pc # "end"
      <4>1. cmd[t].op \in KeyOps /\ cmd[t].pc = "end" =>
              \E k : cmd[t].out = <<k>>
        BY <2>4 DEF BatchOK
      <4>2. \A k : Len(<<k>>) = 1
        OBVIOUS
      <4>3. QED
        BY <1>6, <4>1, <4>2
    <3>5. l.kind = "open" => r \in client'.opened
      BY <1>3
    <3>6. client.opened \subseteq client'.opened
      BY <1>3
    <3>7. \A i \in 1 .. Len(d.out) :
            LET kind == d.out[i].kind
            IN  /\ kind # "open"
                /\ kind \in {"item", "close"} => r \notin client.closed /\ r \in client'.opened
                /\ kind = "close" => i = Len(d.out) /\ d.pc = "end"
                /\ kind \in {"770", "771"} => d.op \in KeyOps /\ d.pc = "end"
                /\ kind = "item" => d.pc = "member" \/ (d.pc = "end" /\ ~ChannelSync(d))
      <4>1. SUFFICES ASSUME NEW i \in 1 .. Len(s)
                     PROVE  LET kind == s[i].kind
                            IN  /\ kind # "open"
                                /\ kind \in {"item", "close"} => r \notin client.closed /\ r \in client'.opened
                                /\ kind = "close" => i = Len(s) /\ d.pc = "end"
                                /\ kind \in {"770", "771"} => d.op \in KeyOps /\ d.pc = "end"
                                /\ kind = "item" => d.pc = "member" \/ (d.pc = "end" /\ ~ChannelSync(d))
        BY <1>4
      <4> DEFINE j == i + 1
      <4>2. j \in 1 .. n /\ j > 1 /\ s[i] = cmd[t].out[j] /\ (j = n => i = Len(s)) /\ j # 1
        BY <1>1, <2>2
      <4> HIDE DEF j
      <4>3. LET kind == cmd[t].out[j].kind
            IN  /\ kind # "open"
                /\ kind \in {"item", "close"} =>
                      r \notin client.closed /\ (r \in client.opened \/ l.kind = "open")
                /\ kind = "close" => j = n /\ d.pc = "end"
                /\ kind \in {"770", "771"} => d.op \in KeyOps /\ d.pc = "end"
                /\ kind = "item" => d.pc = "member" \/ (d.pc = "end" /\ ~ChannelSync(d))
        BY <1>4, <2>4, <4>2 DEF BatchOK, ChannelSync
      <4>4. QED
        BY <3>5, <3>6, <4>2, <4>3
    <3>8. d.pc \in Ops => \A i \in 1 .. Len(d.out) : d.out[i].kind = "reply"
      <4>1. cmd[t].pc \in Ops => \A j \in 1 .. n : cmd[t].out[j].kind = "reply"
        BY <2>4 DEF BatchOK
      <4>2. QED
        BY <1>4, <2>2, <4>1
    <3>9. /\ d.pc \in Ops => l.kind # "open"
          /\ d.pc \in Ops => r \notin client.opened
      BY <1>4, <2>4, <3>1 DEF BatchOK
    <3>10. d.pc \in Ops \cup {"lookup"} \/ (d.pc \in {"profile", "fetch"} /\ ~ChannelSync(d))
              => r \notin client'.opened
      BY <1>1, <1>3, <1>4, <3>9
    <3>11. InBatch(d) => r \notin client.closed /\ r \in client'.opened
      BY <1>3, <1>4, <2>4, <3>5, <3>6 DEF InBatch, BatchOK, ChannelSync
    <3>12. ASSUME d.pc = "end", r \in client'.opened \/ (s # <<>> /\ s[1].kind = "open")
           PROVE  s # <<>> /\ s[Len(s)].kind = "close"
      <4>1. n > 1 /\ Len(s) >= 1 /\ s # <<>> /\ Len(s) \in 1 .. Len(s) /\ 1 \in 1 .. Len(s)
        BY <1>1, <1>4, <1>6, <3>12
      <4>2. s[1].kind # "open" /\ s[Len(s)] = cmd[t].out[n]
        BY <1>1, <1>4, <3>7, <4>1
      <4>3. r \in client.opened \/ l.kind = "open"
        BY <1>3, <3>12, <4>2
      <4>4. cmd[t].out[n].kind = "close"
        BY <1>0, <1>4, <2>4, <3>12, <4>3 DEF BatchOK
      <4>5. QED
        BY <4>1, <4>2, <4>4
    <3>13. QED
      BY <1>4, <3>3, <3>4, <3>7, <3>8, <3>10, <3>11, <3>12 DEF BatchOK
  <2>9. ToldOK(d, client'.told \cup missed)
    <3>1. SUFFICES ASSUME ChannelSync(cmd[t]), cmd[t].ok = {"avatar"}, NEW i \in DOMAIN Members
                   PROVE  <<r, Members[i]>> \in client'.told \cup missed \/ Ahead(d, Members[i])
      BY <1>4 DEF ToldOK, ChannelSync
    <3>2. <<r, Members[i]>> \in client.told \cup missed \/ Ahead(cmd[t], Members[i])
      BY <2>4, <3>1 DEF ToldOK
    <3>3. client.told \subseteq client'.told
      BY <1>3
    <3>4. CASE \E j \in 1 .. Len(cmd[t].left) : cmd[t].left[j].nick = Members[i]
      BY <1>4, <3>4 DEF Ahead
    <3>5. ASSUME NEW j \in 1 .. n, cmd[t].out[j].kind = "item", cmd[t].out[j].nick = Members[i],
                 cmd[t].out[j].media # NoMedia
          PROVE  <<r, Members[i]>> \in client'.told \/ Ahead(d, Members[i])
      <4>1. CASE j = 1
        BY <1>3, <3>5, <4>1
      <4>2. CASE j # 1
        <5>1. j - 1 \in 1 .. Len(s) /\ s[j - 1] = cmd[t].out[j]
          BY SMTT(30), <1>1, <2>3, <4>2
        <5>2. QED
          BY <1>4, <3>5, <5>1 DEF Ahead
      <4>3. QED
        BY <4>1, <4>2
    <3>6. QED
      BY <3>2, <3>3, <3>4, <3>5 DEF Ahead
  <2>10. QED
    BY <1>1, <1>2, <1>4, <2>1, <2>5, <2>6, <2>7, <2>8, <2>9
<1>7. QED
  BY <1>5, <1>6

LEMMA EmitKeeps ==
    ASSUME MetaInv, NEW t \in Tasks, Emit(t)
    PROVE  MetaInv'
<1> DEFINE l == cmd[t].out[1]
           r == cmd[t].ref
           c == Sent(t)
<1>1. /\ cmd[t].out # <<>> /\ Busy(t) /\ cmd[t] \in CmdRecord /\ r \in 1 .. next /\ r \in Nat
      /\ l \in AnyLine /\ Len(cmd[t].out) \in Nat /\ Len(cmd[t].out) >= 1
      /\ Tail(cmd[t].out) = <<>> <=> Len(cmd[t].out) = 1
  <2>1. cmd[t].out # <<>>
    BY DEF Emit
  <2>2. next \in Nat
    BY DEF MetaInv, MetaTypeOK
  <2>3. QED
    BY <2>1, <2>2, EmitsShape
<1>2. /\ client' = Received(r, l) /\ cmd' = [cmd EXCEPT ![t] = c]
      /\ c \in CmdRecord /\ c.pc # "fetch" /\ About(c) \subseteq About(cmd[t])
      /\ Shape(c) /\ RecentOK(c, since)
      /\ BatchOK(c, client'.opened, client'.closed)
      /\ ToldOK(c, client'.told \cup missed)
  BY SentShape
<1>3. /\ client' \in ClientRecord
      /\ client'.opened = IF l.kind = "open" THEN client.opened \cup {r} ELSE client.opened
      /\ client'.closed = IF l.kind = "close" THEN client.closed \cup {r} ELSE client.closed
      /\ client'.strays = \/ client.strays
                          \/ l.kind = "open" /\ r \in client.opened
                          \/ l.kind \in {"item", "close"} /\ ~IsOpen(r)
      /\ client.told \subseteq client'.told
      /\ client'.subs = IF l.kind = "770" THEN client.subs \cup l.keys
                        ELSE IF l.kind = "771" THEN client.subs \ l.keys ELSE client.subs
      /\ client'.waited = client.waited
  BY <1>1, <1>2, ReceivedShape
<1>4. UNCHANGED <<fetch, todo, next, subs, recent, memo, stale, avatar, since, missed>>
  BY DEF Emit, mediaVars, connVars, shared, world
<1>5. /\ c = NoCmd <=> (cmd[t].pc = "end" /\ Len(cmd[t].out) = 1)
      /\ c # NoCmd => c.op = cmd[t].op /\ c.ok = cmd[t].ok /\ c.ref = r
  <2>1. CASE cmd[t].pc = "end" /\ Tail(cmd[t].out) = <<>>
    BY <1>1, <2>1 DEF Sent
  <2>2. CASE ~(cmd[t].pc = "end" /\ Tail(cmd[t].out) = <<>>)
    <3>1. c = [cmd[t] EXCEPT !.out = Tail(@)]
      BY <2>2 DEF Sent
    <3>2. c.pc = cmd[t].pc /\ c.op = cmd[t].op /\ c.ok = cmd[t].ok /\ c.ref = r
      BY <1>1, <3>1 DEF CmdRecord
    <3>3. c # NoCmd
      BY <1>1, <3>2, NoCmdGood DEF Busy
    <3>4. QED
      BY <1>1, <2>2, <3>2, <3>3
  <2>3. QED
    BY <2>1, <2>2
<1> HIDE DEF c
<1>6. /\ cmd' \in [Tasks -> CmdRecord] /\ cmd'[t] = c /\ \A u \in Tasks : u # t => cmd'[u] = cmd[u]
  BY <1>2 DEF MetaInv, MetaTypeOK
<1>7. MetaTypeOK'
  BY <1>3, <1>4, <1>6 DEF MetaInv, MetaTypeOK
<1>8. TasksInv'
  <2>1. ASSUME NEW u \in Tasks, u # t
        PROVE  /\ Shape(cmd[u]) /\ RecentOK(cmd[u], since)
               /\ BatchOK(cmd[u], client'.opened, client'.closed)
               /\ ToldOK(cmd[u], client'.told \cup missed)
    <3>1. /\ Shape(cmd[u]) /\ RecentOK(cmd[u], since)
          /\ BatchOK(cmd[u], client.opened, client.closed)
          /\ ToldOK(cmd[u], client.told \cup missed)
      BY DEF MetaInv, TasksInv
    <3>2. ToldOK(cmd[u], client'.told \cup missed)
      BY <1>3, <3>1 DEF ToldOK
    <3>3. CASE Busy(u)
      <4>1. cmd[u].ref # r
        BY <1>1, <2>1, <3>3 DEF MetaInv, References
      <4>2. BatchOK(cmd[u], client'.opened, client'.closed)
        BY <1>3, <3>1, <4>1, BatchesApart
      <4>3. QED
        BY <3>1, <3>2, <4>2
    <3>4. CASE ~Busy(u)
      <4>1. cmd[u] = NoCmd
        BY <3>1, <3>4 DEF Busy, Shape
      <4>2. QED
        BY <3>1, <3>2, <4>1, NoCmdGood
    <3>5. QED
      BY <3>3, <3>4
  <2>2. QED
    BY <1>2, <1>4, <1>6, <2>1 DEF TasksInv
<1>9. References'
  <2>1. BatchOK(cmd[t], client.opened, client.closed) /\ 1 \in 1 .. Len(cmd[t].out)
    BY <1>1 DEF MetaInv, TasksInv
  <2>2. /\ l.kind = "open" => r \notin client.opened
        /\ l.kind \in {"item", "close"} => r \in client.opened /\ r \notin client.closed
    BY <2>1 DEF BatchOK
  <2>3. ~client'.strays
    BY <1>3, <2>2 DEF IsOpen, MetaInv, References
  <2>4. client'.opened \subseteq 1 .. next /\ client'.closed \subseteq client'.opened
    BY <1>1, <1>3, <2>2 DEF MetaInv, References
  <2>5. \A u \in Tasks : Busy(u)' => Busy(u) /\ cmd'[u].ref = cmd[u].ref
    BY <1>1, <1>5, <1>6, NoCmdGood DEF Busy
  <2>6. \A q \in client'.opened \ client'.closed :
          q # r => q \in client.opened \ client.closed
    BY <1>3
  <2>7. r \in client'.opened \ client'.closed => c # NoCmd
    <3>1. ASSUME c = NoCmd, r \in client'.opened PROVE l.kind = "close"
      <4>1. cmd[t].pc = "end" /\ Len(cmd[t].out) = 1
        BY <1>5, <3>1
      <4>2. r \in client.opened \/ l.kind = "open"
        BY <1>3, <3>1
      <4>3. QED
        BY <1>1, <2>1, <4>1, <4>2 DEF BatchOK
    <3>2. QED
      BY <1>3, <3>1
  <2>8. c # NoCmd => c.pc # "idle"
    BY <1>2 DEF Shape
  <2>9. \A q \in client'.opened \ client'.closed : \E u \in Tasks : Busy(u)' /\ cmd'[u].ref = q
    <3>1. ASSUME NEW q \in client'.opened \ client'.closed, q = r
          PROVE  Busy(t)' /\ cmd'[t].ref = q
      BY <1>5, <1>6, <2>7, <2>8, <3>1 DEF Busy
    <3>2. ASSUME NEW q \in client'.opened \ client'.closed, q # r
          PROVE  \E u \in Tasks : Busy(u)' /\ cmd'[u].ref = q
      <4>1. PICK u \in Tasks : Busy(u) /\ cmd[u].ref = q
        BY <2>6, <3>2 DEF MetaInv, References
      <4>2. u # t
        BY <3>2, <4>1
      <4>3. QED
        BY <1>6, <4>1, <4>2 DEF Busy
    <3>3. QED
      BY <3>1, <3>2
  <2>10. QED
    BY <1>4, <2>3, <2>4, <2>5, <2>9 DEF MetaInv, References
<1>10. FreshInv'
  BY <1>2, <1>4, FreshSteady DEF MetaInv, FreshInv
<1>11. ViewInv'
  <2>1. BatchOK(cmd[t], client.opened, client.closed) /\ 1 \in 1 .. Len(cmd[t].out)
    BY <1>1 DEF MetaInv, TasksInv
  <2>2. CASE cmd[t].op \in KeyOps /\ cmd[t].pc = "end"
    <3> DEFINE k == Keyed(IF cmd[t].op = "sub" THEN "770" ELSE "771", cmd[t].ok)
    <3>1. cmd[t].out = <<k>>
      BY <2>1, <2>2 DEF BatchOK
    <3>2. l = k /\ Len(cmd[t].out) = 1
      <4> HIDE DEF k
      <4>1. QED
        BY <3>1
    <3>3. c = NoCmd
      BY <1>5, <2>2, <3>2
    <3>4. /\ cmd[t].op = "sub" => client'.subs = client.subs \cup cmd[t].ok
          /\ cmd[t].op = "unsub" => client'.subs = client.subs \ cmd[t].ok
      <4>1. l.kind = (IF cmd[t].op = "sub" THEN "770" ELSE "771") /\ l.keys = cmd[t].ok
        BY <3>2 DEF Keyed, Plain
      <4>2. QED
        BY <1>3, <4>1
    <3>5. ASSUME client.waited
          PROVE  subs = client'.subs /\ \A u \in Tasks : cmd'[u].op \notin KeyOps
      <4>1. \A u \in Tasks : u # t => cmd[u].op \notin KeyOps
        BY <2>2, <3>5 DEF MetaInv, ViewInv
      <4>2. \A u \in Tasks : cmd'[u].op \notin KeyOps
        BY <1>6, <3>3, <4>1, NoCmdGood DEF KeyOps
      <4>3. subs = client'.subs
        BY <2>2, <3>4, <3>5 DEF MetaInv, ViewInv, KeyOps
      <4>4. QED
        BY <4>2, <4>3
    <3>6. QED
      BY <1>3, <1>4, <3>5 DEF MetaInv, ViewInv, KeyOps
  <2>3. CASE ~(cmd[t].op \in KeyOps /\ cmd[t].pc = "end")
    <3>1. l.kind \notin {"770", "771"}
      BY <2>1, <2>3 DEF BatchOK
    <3>2. client'.subs = client.subs
      BY <1>3, <3>1
    <3>3. \/ c.op = cmd[t].op /\ c.ok = cmd[t].ok
          \/ cmd[t].op \notin KeyOps /\ c.op \notin KeyOps
      BY <1>5, <2>3, NoCmdGood DEF KeyOps
    <3>4. QED
      BY <1>2, <1>3, <1>4, <3>2, <3>3, ViewSteady
  <2>4. QED
    BY <2>2, <2>3
<1>12. QED
  BY <1>7, <1>8, <1>9, <1>10, <1>11 DEF MetaInv

-----------------------------------------------------------------------------
\* The read loop.

LEMMA SpawnKeeps ==
    ASSUME MetaInv, NEW t \in Tasks, Spawn(t)
    PROVE  MetaInv'
<1> DEFINE h == Head(todo)
           c == [NoCmd EXCEPT !.pc = h.op, !.op = h.op, !.target = h.target,
                              !.keys = h.keys, !.ref = next + 1]
           alone == ~(/\ h.op \in KeyOps
                      /\ \E u \in Tasks : Busy(u) /\ cmd[u].op \in KeyOps)
<1>1. /\ todo # <<>> /\ ~Busy(t) /\ h.op # "file" /\ cmd' = [cmd EXCEPT ![t] = c]
      /\ client' = [client EXCEPT !.waited = @ /\ alone]
      /\ todo' = Tail(todo) /\ next' = next + 1
      /\ UNCHANGED <<fetch, subs, recent, memo, stale, avatar, since, missed>>
  BY DEF Spawn, Sets, Reference, mediaVars, shared, world
<1>2. todo \in Seq(Command) /\ next \in Nat /\ client \in ClientRecord
  BY DEF MetaInv, MetaTypeOK
<1>3. h \in Command /\ Tail(todo) \in Seq(Command)
  <2>1. todo # <<>>
    BY <1>1
  <2>2. QED
    BY <1>2, <2>1, TailOf
<1>4. h.op \in Ops /\ h.target \in Targets /\ h.keys \in Seq(KeyNames)
  BY <1>1, <1>3 DEF Command
<1> HIDE DEF h
<1>5. /\ c \in CmdRecord /\ c.pc = h.op /\ c.op = h.op /\ c.target = h.target
      /\ c.ok = {} /\ c.left = <<>> /\ c.out = <<>> /\ c.ref = next + 1 /\ c.ref \in Nat
  <2>1. NoCmd.ok = {} /\ next + 1 \in Nat
    BY <1>2 DEF NoCmd
  <2>2. c \in CmdRecord
    BY <1>4, <2>1, NoCmdGood DEF CmdRecord
  <2>3. /\ c.pc = h.op /\ c.op = h.op /\ c.target = h.target
        /\ c.ok = {} /\ c.left = <<>> /\ c.out = <<>> /\ c.ref = next + 1
    BY DEF NoCmd
  <2>4. QED
    BY <2>1, <2>2, <2>3
<1> HIDE DEF c
<1>6. /\ client' \in ClientRecord /\ client'.waited = (client.waited /\ alone)
      /\ client'.subs = client.subs /\ client'.opened = client.opened
      /\ client'.closed = client.closed /\ client'.told = client.told
      /\ client'.strays = client.strays
  <2>1. (client.waited /\ alone) \in BOOLEAN
    OBVIOUS
  <2>2. QED
    BY <1>1, <1>2, <2>1 DEF ClientRecord
<1>7. cmd' \in [Tasks -> CmdRecord] /\ cmd'[t] = c /\ \A u \in Tasks : u # t => cmd'[u] = cmd[u]
  BY <1>1, <1>5 DEF MetaInv, MetaTypeOK
<1>8. cmd[t] = NoCmd
  BY <1>1 DEF MetaInv, TasksInv, Shape, Busy
<1>9. MetaTypeOK'
  BY <1>1, <1>2, <1>3, <1>6, <1>7 DEF MetaInv, MetaTypeOK
<1>10. TasksInv'
  <2>1. Shape(c)
    <3>1. h.op \notin {"idle", "none", "end", "lookup", "profile", "fetch", "members", "member"}
      BY <1>4 DEF Ops
    <3>2. QED
      BY <1>4, <1>5, <3>1 DEF Shape, ChannelSync
  <2>2. BatchOK(c, client.opened, client.closed)
    <3>1. c.ref \notin client.opened
      BY <1>2, <1>5 DEF MetaInv, References
    <3>2. c.pc \notin {"members", "member", "profile", "fetch", "end"}
      BY <1>4, <1>5 DEF Ops
    <3>3. QED
      BY <1>5, <3>1, <3>2 DEF BatchOK, InBatch
  <2>3. RecentOK(c, since) /\ ToldOK(c, client.told \cup missed)
    BY <1>5 DEF RecentOK, ToldOK
  <2>4. QED
    BY <1>1, <1>6, <1>7, <2>1, <2>2, <2>3 DEF MetaInv, TasksInv
<1>11. References'
  <2>1. \A u \in Tasks \ {t} : Busy(u)' <=> Busy(u)
    BY <1>7 DEF Busy
  <2>2. \A u \in Tasks : Busy(u) => cmd[u].ref \in 1 .. next /\ cmd[u].ref \in 1 .. next + 1
                                    /\ cmd[u].ref # next + 1
    BY <1>2 DEF MetaInv, References
  <2>3. next + 1 \in 1 .. next + 1 /\ 1 .. next \subseteq 1 .. next + 1
    BY <1>2
  <2>4. \A u \in Tasks : Busy(u)' => cmd'[u].ref \in 1 .. next'
    BY <1>1, <1>5, <1>7, <2>1, <2>2, <2>3
  <2>5. \A u, v \in Tasks : Busy(u)' /\ Busy(v)' /\ cmd'[u].ref = cmd'[v].ref => u = v
    BY <1>5, <1>7, <2>1, <2>2 DEF MetaInv, References
  <2>6. \A r \in client.opened \ client.closed : \E u \in Tasks : Busy(u)' /\ cmd'[u].ref = r
    <3>1. ASSUME NEW r \in client.opened \ client.closed
          PROVE  \E u \in Tasks : Busy(u)' /\ cmd'[u].ref = r
      <4>1. PICK u \in Tasks : Busy(u) /\ cmd[u].ref = r
        BY DEF MetaInv, References
      <4>2. QED
        BY <1>1, <1>7, <4>1 DEF Busy
    <3>2. QED
      BY <3>1
  <2>7. QED
    BY <1>1, <1>6, <2>3, <2>4, <2>5, <2>6 DEF MetaInv, References
<1>12. FreshInv'
  <2>1. About(c) = {} /\ c.pc # "fetch"
    BY <1>4, <1>5 DEF About, Ops
  <2>2. QED
    BY <1>1, <1>5, <2>1, FreshSteady DEF MetaInv, FreshInv
<1>13. ViewInv'
  <2>1. CASE h.op \notin KeyOps
    <3>1. \A u \in Tasks : cmd'[u].op \in KeyOps <=> cmd[u].op \in KeyOps
      BY <1>5, <1>7, <1>8, <2>1, NoCmdGood DEF KeyOps
    <3>2. \A u \in Tasks : cmd'[u].op \in KeyOps => cmd'[u] = cmd[u]
      BY <1>5, <1>7, <2>1
    <3>3. QED
      BY ZenonT(60), <1>1, <1>6, <3>1, <3>2 DEF MetaInv, ViewInv, KeyOps
  <2>2. CASE h.op \in KeyOps
    <3>1. ASSUME client'.waited
          PROVE  client.waited /\ \A u \in Tasks : cmd[u].op \notin KeyOps
      <4>1. \A u \in Tasks : Busy(u) => cmd[u].op \notin KeyOps
        BY <1>6, <2>2, <3>1
      <4>2. \A u \in Tasks : ~Busy(u) => cmd[u].op \notin KeyOps
        BY NoCmdGood DEF MetaInv, TasksInv, Shape, Busy, KeyOps
      <4>3. QED
        BY <1>6, <3>1, <4>1, <4>2
    <3>2. ASSUME client'.waited
          PROVE  subs = client.subs
      BY <3>1, <3>2 DEF MetaInv, ViewInv
    <3>3. ASSUME client'.waited, NEW u \in Tasks, cmd'[u].op \in KeyOps
          PROVE  u = t
      BY <1>7, <3>1, <3>3
    <3>4. QED
      BY <1>1, <1>5, <1>6, <1>7, <2>2, <3>2, <3>3 DEF MetaInv, ViewInv, KeyOps
  <2>3. QED
    BY <2>1, <2>2
<1>14. QED
  BY <1>9, <1>10, <1>11, <1>12, <1>13 DEF MetaInv

-----------------------------------------------------------------------------
\* The world, the clock and the files.

\* What is remembered is of a file, and what is being fetched is known.
LEMMA AroundKeeps ==
    ASSUME MetaInv, UNCHANGED <<next, cmd, subs, memo, client, missed>>,
           todo' \in Seq(Command), stale \subseteq stale',
           avatar' \in [Nicks -> Media \cup {NoMedia}],
           since' \in [Nicks -> SUBSET (Media \cup {NoMedia})],
           \A n \in Nicks : since[n] \subseteq since'[n]
                            /\ (avatar'[n] = avatar[n] \/ avatar'[n] \in since'[n]),
           \A t \in Tasks : fetch'[t].media = fetch[t].media \/ cmd[t].pc # "fetch"
    PROVE  MetaInv'
<1>1. MetaTypeOK'
  BY DEF MetaInv, MetaTypeOK
<1>2. TasksInv'
  <2>1. SUFFICES ASSUME NEW t \in Tasks PROVE RecentOK(cmd[t], since')
    BY DEF MetaInv, TasksInv
  <2>2. RecentOK(cmd[t], since) /\ cmd[t] \in CmdRecord
    BY DEF MetaInv, MetaTypeOK, TasksInv
  <2>3. cmd[t].left \in Seq(Wanted)
    BY <2>2 DEF CmdRecord
  <2>4. \A i \in 1 .. Len(cmd[t].left) : cmd[t].left[i] \in Wanted
    BY <2>3
  <2>5. \A i \in 1 .. Len(cmd[t].left) : cmd[t].left[i].nick \in Nicks
    BY <2>4 DEF Wanted
  <2>6. QED
    BY <2>2, <2>5 DEF RecentOK
<1>3. References' /\ ViewInv'
  BY DEF MetaInv, References, ViewInv, Busy
<1>4. FreshInv'
  <2>1. \A n : InFlight(n)' <=> InFlight(n)
    BY DEF InFlight
  <2>2. ASSUME NEW t \in Tasks, cmd[t].pc = "fetch"
        PROVE  Looked(t)' = Looked(t) /\ Looked(t) \in Nicks
    <3>1. cmd[t].left # <<>> /\ cmd[t].left \in Seq(Wanted)
      BY <2>2 DEF MetaInv, MetaTypeOK, TasksInv, Shape, CmdRecord
    <3>2. Head(cmd[t].left) \in Wanted
      BY <3>1, TailOf
    <3>3. QED
      BY <3>2 DEF Looked, Wanted
  <2>3. QED
    BY <2>1, <2>2 DEF MetaInv, FreshInv
<1>5. QED
  BY <1>1, <1>2, <1>3, <1>4 DEF MetaInv

\* A step of a fetch does not change what is fetched.
LEMMA FetchSteps ==
    ASSUME IInv, NEW t \in Tasks, FetchStep(t)
    PROVE  \A u \in Tasks : fetch'[u].media = fetch[u].media
<1>1. fetch \in [Tasks -> Fetch] /\ fetch[t] \in Fetch
  BY DEF IInv, MediaTypeOK
<1>2. ASSUME NEW f, f.media = fetch[t].media, Step(t, f)
      PROVE  \A u \in Tasks : fetch'[u].media = fetch[u].media
  BY <1>1, <1>2 DEF Step
<1>3. CASE Downloaded(t)
  <2> DEFINE f == [fetch[t] EXCEPT !.pc = "open",
                     !.name = IF @ = NoName THEN AvatarName[fetch[t].media] ELSE @]
  <2>1. f.media = fetch[t].media
    BY <1>1 DEF Fetch
  <2>2. Step(t, f)
    BY <1>3 DEF Downloaded
  <2> HIDE DEF f
  <2>3. QED
    BY <1>2, <2>1, <2>2
<1>4. CASE Write(t)
  <2> DEFINE f == [fetch[t] EXCEPT !.pc = "rename"]
  <2>1. f.media = fetch[t].media
    BY <1>1 DEF Fetch
  <2>2. Step(t, f)
    BY <1>4 DEF Write, Goes
  <2> HIDE DEF f
  <2>3. QED
    BY <1>2, <2>1, <2>2
<1>5. CASE DownloadFails(t) \/ WriteFails(t) \/ RenameFails(t)
  <2>1. Ends(t, NoName)
    BY <1>5 DEF DownloadFails, WriteFails, RenameFails
  <2> DEFINE f == [Idle EXCEPT !.pc = "done", !.media = fetch[t].media, !.name = NoName]
  <2>2. f.media = fetch[t].media
    BY DEF Idle
  <2>3. Step(t, f)
    BY <2>1 DEF Ends
  <2> HIDE DEF f
  <2>4. QED
    BY <1>2, <2>2, <2>3
<1>6. CASE Open(t)
  BY <1>1, <1>6 DEF Open, Fetch
<1>7. CASE Rename(t)
  BY <1>1, <1>7 DEF Rename, Idle, Fetch
<1>8. QED
  BY <1>3, <1>4, <1>5, <1>6, <1>7 DEF FetchStep

LEMMA FilesKeep ==
    ASSUME IInv, MetaInv,
           \/ \E t \in Tasks : FileMessage(t) \/ FileShown(t) \/ Fetching(t)
           \/ ServerStep /\ UNCHANGED <<connVars, cmd, shared, world, seen>>
    PROVE  MetaInv'
<1>1. /\ UNCHANGED <<next, cmd, subs, memo, stale, avatar, client, since, missed>>
      /\ todo' \in Seq(Command)
  <2>1. CASE \E t \in Tasks : FileMessage(t)
    <3>1. todo \in Seq(Command) /\ todo # <<>>
      BY <2>1 DEF FileMessage, MetaInv, MetaTypeOK
    <3>2. Tail(todo) \in Seq(Command)
      BY <3>1, TailOf
    <3>3. QED
      BY <2>1, <3>2 DEF FileMessage, shared, world, seen
  <2>2. CASE ~\E t \in Tasks : FileMessage(t)
    BY <2>2 DEF FileShown, Fetching, connVars, shared, world, seen, MetaInv, MetaTypeOK
  <2>3. QED
    BY <2>1, <2>2
<1>2. \A t \in Tasks : fetch'[t].media = fetch[t].media \/ cmd[t].pc # "fetch"
  <2>1. fetch \in [Tasks -> Fetch]
    BY DEF IInv, MediaTypeOK
  <2>2. CASE \E t \in Tasks : FileMessage(t)
    BY <2>1, <2>2 DEF FileMessage, FetchAttachment, Step, Busy
  <2>3. CASE \E t \in Tasks : FileShown(t)
    BY <2>1, <2>3 DEF FileShown, TakeFetched, Step, Busy
  <2>4. CASE \E t \in Tasks : Fetching(t)
    BY <2>4, FetchSteps DEF Fetching
  <2>5. CASE ServerStep
    BY <2>5 DEF ServerStep, LoadSecret, MakeSecret, NewKey, StoreSecret, FailureExpires
  <2>6. QED
    BY <2>2, <2>3, <2>4, <2>5
<1>3. QED
  BY <1>1, <1>2, AroundKeeps DEF MetaInv, MetaTypeOK

LEMMA WorldKeeps ==
    ASSUME MetaInv,
           \/ \E n \in Nicks : UrlExpires(n)
           \/ \E n \in Nicks : \E m \in Avatars[n] : ChangeAvatar(n, m)
           \/ \E g \in Targets : SyncExpires(g)
    PROVE  MetaInv'
<1>1. CASE \E n \in Nicks : UrlExpires(n)
  BY <1>1, AroundKeeps DEF UrlExpires, mediaVars, connVars, world, seen, MetaInv, MetaTypeOK
<1>2. CASE \E g \in Targets : SyncExpires(g)
  BY <1>2, AroundKeeps DEF SyncExpires, mediaVars, connVars, world, seen, MetaInv, MetaTypeOK
<1>3. ASSUME NEW n \in Nicks, NEW m \in Avatars[n], ChangeAvatar(n, m)
      PROVE  MetaInv'
  <2>1. m \in Media \cup {NoMedia}
    BY MetadataAssumption
  <2>2. /\ avatar' = [avatar EXCEPT ![n] = m] /\ since' = [since EXCEPT ![n] = @ \cup {m}]
        /\ avatar \in [Nicks -> Media \cup {NoMedia}]
        /\ since \in [Nicks -> SUBSET (Media \cup {NoMedia})]
    BY <1>3 DEF ChangeAvatar, MetaInv, MetaTypeOK
  <2>3. /\ avatar' \in [Nicks -> Media \cup {NoMedia}]
        /\ since' \in [Nicks -> SUBSET (Media \cup {NoMedia})]
        /\ \A k \in Nicks : since[k] \subseteq since'[k]
                            /\ (avatar'[k] = avatar[k] \/ avatar'[k] \in since'[k])
    BY <2>1, <2>2
  <2>4. UNCHANGED <<fetch, next, todo, cmd, subs, memo, stale, client, missed>>
    BY <1>3 DEF ChangeAvatar, mediaVars, connVars, shared
  <2>5. QED
    BY <2>3, <2>4, AroundKeeps DEF MetaInv, MetaTypeOK
<1>4. QED
  BY <1>1, <1>2, <1>3

\* A process that starts has no commands and a client that starts knows nothing.
LEMMA FreshStart ==
    ASSUME todo \in Seq(Command), next = 0, cmd = [t \in Tasks |-> NoCmd], subs = {},
           memo = [n \in Nicks |-> NoMedia], stale = Nicks, client = NewClient,
           since = [n \in Nicks |-> {}], avatar \in [Nicks -> Media \cup {NoMedia}]
    PROVE  MetaInv
<1>1. client \in ClientRecord
  BY DEF NewClient, ClientRecord
<1>2. MetaTypeOK
  BY <1>1, NoCmdGood DEF MetaTypeOK
<1>3. TasksInv
  BY NoCmdGood DEF TasksInv
<1>4. References
  BY NoCmdGood DEF References, Busy, NewClient
<1>5. ViewInv
  BY NoCmdGood, FS_EmptySet, MetadataAssumption DEF ViewInv, NewClient, KeyOps
<1>6. \A n : ~InFlight(n)
  BY <1>2, NoCmdGood, InFlightAbout
<1>7. FreshInv
  BY <1>6, NoCmdGood DEF FreshInv
<1>8. QED
  BY <1>2, <1>3, <1>4, <1>5, <1>7 DEF MetaInv

LEMMA CrashRestarts == ASSUME MetaInv, MetaCrash PROVE MetaInv'
<1>1. /\ todo' \in Seq(Command) /\ next' = 0 /\ cmd' = [t \in Tasks |-> NoCmd] /\ subs' = {}
      /\ memo' = [n \in Nicks |-> NoMedia] /\ stale' = Nicks /\ client' = NewClient
      /\ since' = [n \in Nicks |-> {}] /\ avatar' \in [Nicks -> Media \cup {NoMedia}]
  BY MetadataAssumption DEF MetaCrash, world, MetaInv, MetaTypeOK
<1>2. client' \in ClientRecord
  BY <1>1 DEF NewClient, ClientRecord
<1>3. MetaTypeOK'
  BY <1>1, <1>2, NoCmdGood DEF MetaTypeOK
<1>4. TasksInv'
  BY <1>1, NoCmdGood DEF TasksInv
<1>5. References'
  BY <1>1, NoCmdGood DEF References, Busy, NewClient
<1>6. ViewInv'
  BY <1>1, NoCmdGood, FS_EmptySet, MetadataAssumption DEF ViewInv, NewClient, KeyOps
<1>7. FreshInv'
  BY <1>1, NoCmdGood DEF FreshInv, InFlight
<1>8. QED
  BY <1>3, <1>4, <1>5, <1>6, <1>7 DEF MetaInv

LEMMA MetaInitHolds == MetaInit => MetaInv
<1> SUFFICES ASSUME MetaInit PROVE MetaInv
  OBVIOUS
<1>1. avatar \in [Nicks -> Media \cup {NoMedia}] /\ todo \in Seq(Command)
  BY MetadataAssumption DEF MetaInit
<1>2. QED
  BY <1>1, FreshStart DEF MetaInit

-----------------------------------------------------------------------------
\* The whole.

\* A command never does to the files what the media cache does not.
LEMMA MediaSteps == MetaInv /\ [Next]_vars => [MediaNext]_mediaVars
<1> SUFFICES ASSUME MetaInv, [Next]_vars PROVE [MediaNext]_mediaVars
  OBVIOUS
<1>1. CASE UNCHANGED vars
  BY <1>1 DEF vars
<1>2. ASSUME NEW t \in Tasks, Spawn(t) \/ FileMessage(t) \/ TaskStep(t)
      PROVE  [MediaNext]_mediaVars
  <2>1. CASE Spawn(t)
    BY <2>1 DEF Spawn
  <2>2. CASE FileMessage(t)
    <3>1. Head(todo).op = "file" /\ Head(todo) \in Command
      <4>1. todo \in Seq(Command) /\ todo # <<>>
        BY <2>2 DEF FileMessage, MetaInv, MetaTypeOK
      <4>2. QED
        BY <2>2, <4>1, TailOf DEF FileMessage
    <3>2. Head(todo).media \in Media
      BY <3>1 DEF Command, Ops
    <3>3. QED
      BY <2>2, <3>2 DEF FileMessage, MediaNext
  <2>3. CASE FileShown(t) \/ Fetching(t) \/ Fetched(t)
    BY <2>3 DEF FileShown, Fetching, Fetched, MediaNext
  <2>4. CASE LookupFetch(t) \/ ProfileComes(t)
    <3>1. ASSUME NEW m \in Media \cup {NoMedia}, m # NoMedia, Caches(t, m)
          PROVE  MediaNext
      BY <3>1 DEF Caches, MediaNext
    <3>2. CASE LookupFetch(t)
      <4>1. Uri(t) \in Media \cup {NoMedia}
        BY <2>4, <3>2, LookingShape DEF LookupFetch
      <4>2. QED
        BY <3>1, <3>2, <4>1 DEF LookupFetch
    <3>3. CASE ProfileComes(t)
      <4>1. avatar[Own] \in Media \cup {NoMedia}
        BY MetadataAssumption DEF MetaInv, MetaTypeOK
      <4>2. QED
        BY <3>1, <3>3, <4>1 DEF ProfileComes
    <3>4. QED
      BY <2>4, <3>2, <3>3
  <2>5. CASE \/ Emit(t) \/ GetNick(t) \/ SyncNick(t) \/ SyncChannel(t) \/ ReadMembers(t)
             \/ MembersUnread(t) \/ LookupNone(t) \/ ProfileFails(t)
    BY <2>5 DEF Emit, GetNick, SyncNick, SyncChannel, ReadMembers, MembersUnread, LookupNone,
                ProfileFails
  <2>6. CASE \/ BadKey(t) \/ SubKey(t) \/ TooManySubs(t) \/ UnsubKey(t) \/ KeysDone(t)
             \/ ListSubs(t) \/ Refuse(t) \/ GetChannel(t) \/ TooSoon(t) \/ MembersDone(t)
             \/ LookupHit(t) \/ LookupNobody(t) \/ AskProfile(t)
    BY <2>6 DEF BadKey, SubKey, TooManySubs, UnsubKey, KeysDone, ListSubs, Refuse, GetChannel,
                TooSoon, MembersDone, LookupHit, LookupNobody, AskProfile, Local
  <2>7. QED
    BY <1>2, <2>1, <2>2, <2>3, <2>4, <2>5, <2>6 DEF TaskStep, CommandStep
<1>3. CASE ServerStep \/ MetaCrash
  BY <1>3 DEF MetaCrash, MediaNext
<1>4. CASE \/ \E n \in Nicks : UrlExpires(n)
           \/ \E n \in Nicks : \E m \in Avatars[n] : ChangeAvatar(n, m)
           \/ \E g \in Targets : SyncExpires(g)
  BY <1>4 DEF UrlExpires, ChangeAvatar, SyncExpires
<1>5. QED
  BY <1>1, <1>2, <1>3, <1>4 DEF Next

LEMMA MetaStepKeeps == IInv /\ MetaInv /\ [Next]_vars => MetaInv'
<1> SUFFICES ASSUME IInv, MetaInv, [Next]_vars PROVE MetaInv'
  OBVIOUS
<1>1. CASE UNCHANGED vars
  BY <1>1, AroundKeeps DEF vars, mediaVars, connVars, shared, world, seen, MetaInv, MetaTypeOK
<1>2. ASSUME NEW t \in Tasks, CommandStep(t) PROVE MetaInv'
  <2>1. CASE Emit(t)
    BY <2>1, EmitKeeps
  <2>2. CASE BadKey(t) \/ SubKey(t) \/ TooManySubs(t) \/ UnsubKey(t) \/ KeysDone(t)
    BY <2>2, KeyRefusedKeeps, KeyTakenKeeps, KeysDoneKeeps
  <2>3. CASE ListSubs(t) \/ Refuse(t) \/ GetChannel(t) \/ TooSoon(t)
    BY <2>3, SimpleKeeps
  <2>4. CASE GetNick(t) \/ SyncNick(t)
    BY <2>4, LooksUpKeeps
  <2>5. CASE SyncChannel(t) \/ ReadMembers(t) \/ MembersUnread(t) \/ MembersDone(t)
    BY <2>5, SyncChannelKeeps, ReadMembersKeeps, MembersUnreadKeeps, MembersDoneKeeps
  <2>6. CASE LookupHit(t) \/ LookupNobody(t) \/ LookupNone(t) \/ ProfileFails(t)
    BY <2>6, LookupEndsKeeps, LookupNobodyKeeps
  <2>7. CASE LookupFetch(t) \/ AskProfile(t) \/ ProfileComes(t) \/ Fetched(t)
    BY <2>7, LookupGoesOnKeeps, FetchedKeeps DEF IInv
  <2>8. QED
    BY <1>2, <2>1, <2>2, <2>3, <2>4, <2>5, <2>6, <2>7 DEF CommandStep
<1>3. CASE \/ \E t \in Tasks : FileMessage(t) \/ FileShown(t) \/ Fetching(t)
           \/ ServerStep /\ UNCHANGED <<connVars, cmd, shared, world, seen>>
  BY <1>3, FilesKeep
<1>4. QED
  BY <1>1, <1>2, <1>3, SpawnKeeps, WorldKeeps, CrashRestarts DEF Next, TaskStep

\* The same while METADATA commands use it, with what the commands know of
\* their batches, subscriptions and lookups (server.rs 1399-1730).
THEOREM MetaInvariance == Spec => [](IInv /\ MetaInv)
<1>1. MetaInit => IInv /\ MetaInv
  BY InitHolds, MetaInitHolds DEF MetaInit
<1>2. IInv /\ MetaInv /\ [Next]_vars => (IInv /\ MetaInv)'
  BY MediaSteps, StepKeeps, MetaStepKeeps
<1>3. QED
  BY <1>1, <1>2, PTL DEF Spec

\* The METADATA commands use the media cache as its own specification lets it
\* be used: whatever they do with files is a step of MediaCache or none.
THEOREM UsesTheCache == Spec => MediaSpec
<1>1. MetaInit => MediaInit
  BY DEF MetaInit
<1>2. IInv /\ MetaInv /\ [Next]_vars => [MediaNext]_mediaVars
  BY MediaSteps
<1>3. QED
  BY <1>1, <1>2, MetaInvariance, PTL DEF Spec, MediaSpec

\* However many commands share the queue, the client finds every line of a batch
\* while that batch is open, no reference opens two batches, and a batch that is
\* open is one of a task that is still running, whatever cannot be read.
THEOREM BatchesStayApart == Spec => []BatchesKept
<1>1. MetaInv => BatchesKept
  BY DEF MetaInv, References, BatchesKept
<1>2. QED
  BY <1>1, MetaInvariance, PTL

\* For any keys, limit and other commands, a client that waits for its answers
\* knows its subscriptions, and they are no more than the limit.
THEOREM ViewsAgree == Spec => []ViewAgrees
<1>1. MetaInv => ViewAgrees
  BY DEF MetaInv, ViewInv, ViewAgrees
<1>2. QED
  BY <1>1, MetaInvariance, PTL

\* For any changes of avatars, a URL that is remembered or on its way is of an
\* avatar its nick had since the URL was last looked for afresh.
THEOREM AvatarsRecent == Spec => []AvatarRecent
<1>1. MetaInv => AvatarRecent
  <2> SUFFICES ASSUME MetaInv PROVE AvatarRecent
    OBVIOUS
  <2>1. \A n \in Nicks \ stale : memo[n] \in since[n]
    BY DEF MetaInv, FreshInv
  <2>2. ASSUME NEW t \in Tasks, NEW i \in DOMAIN cmd[t].out, cmd[t].out[i].media # NoMedia
        PROVE  cmd[t].out[i].media \in since[cmd[t].out[i].nick]
    <3>1. DOMAIN cmd[t].out = 1 .. Len(cmd[t].out)
      BY DEF MetaInv, MetaTypeOK, CmdRecord
    <3>2. RecentOK(cmd[t], since)
      BY DEF MetaInv, TasksInv
    <3>3. QED
      BY <2>2, <3>1, <3>2 DEF RecentOK
  <2>3. QED
    BY <2>1, <2>2 DEF AvatarRecent
<1>2. QED
  BY <1>1, MetaInvariance, PTL

\* For any channel, when the batch of its SYNC is about to close the client was
\* told of every member whose avatar could be had, unless the store could not
\* give this SYNC the list of members.
THEOREM SyncsTellAll == Spec => []SyncTellsAll
<1>1. MetaInv => SyncTellsAll
  <2> SUFFICES ASSUME MetaInv, NEW t \in Tasks, cmd[t].op = "sync", cmd[t].target = Channel,
                      cmd[t].pc = "end", cmd[t].ok = {"avatar"}, NEW i \in DOMAIN Members
               PROVE  \/ <<cmd[t].ref, Members[i]>> \in client.told
                      \/ <<cmd[t].ref, Members[i]>> \in missed
    BY DEF SyncTellsAll
  <2>1. /\ Shape(cmd[t]) /\ BatchOK(cmd[t], client.opened, client.closed)
        /\ ToldOK(cmd[t], client.told \cup missed)
    BY DEF MetaInv, TasksInv
  <2>2. cmd[t].left = <<>>
    BY <2>1 DEF Shape
  <2>3. \A j \in 1 .. Len(cmd[t].out) : cmd[t].out[j].kind # "item"
    BY <2>1 DEF BatchOK, ChannelSync
  <2>4. ~Ahead(cmd[t], Members[i])
    BY <2>2, <2>3 DEF Ahead
  <2>5. QED
    BY <2>1, <2>4 DEF ToldOK, ChannelSync
<1>2. QED
  BY <1>1, MetaInvariance, PTL

\* What holds of the cache on its own holds while METADATA commands use it: torn
\* files are explained, links stay live unless their key could not be stored or
\* not be read back, and without errors of input or output no key is lost,
\* whatever the commands do.
THEOREM FilesInUse ==
    Spec => []TornExplained /\ [](LinksLive /\ ("io" \notin MediaFaults => lost = {}))
BY UsesTheCache, TornFilesExplained, LinksStayLive, PTL
=============================================================================
