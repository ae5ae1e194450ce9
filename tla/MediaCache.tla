----------------------------- MODULE MediaCache -----------------------------
(***************************************************************************)
(* The media cache on disk (src/src/matrix/media.rs) and the server of its *)
(* files (src/src/media/mod.rs).  Any task of any connection downloads a   *)
(* file into `.<name>.part` and renames it; nothing keeps two tasks off    *)
(* one name, so one may truncate the file another is about to rename, or   *)
(* write on into it under its final name.  The server signs links with a   *)
(* secret that is made on the first start.                                 *)
(***************************************************************************)
EXTENDS Naturals, Sequences

CONSTANTS
    Tasks,        \* tasks that fetch media
    Media,        \* mxc URIs
    Names,        \* names of files in the cache
    AttachNames,  \* AttachNames[m]: names the MIME hint of a message gives m
    AvatarName,   \* AvatarName[m]: the name m's first bytes give it
    Probed,       \* Probed[m]: names an avatar is looked for, in this order
    NoName,       \* no file: the name is not known yet, or the fetch failed
    NoMedia,
    MediaFaults,  \* a subset of {"net", "io", "crash"}: what may go wrong
    MaxKeys       \* how often the secret may be made

ASSUME MediaAssumption ==
    /\ NoName \notin Names
    /\ NoMedia \notin Media
    /\ MaxKeys \in Nat
    /\ AttachNames \in [Media -> SUBSET Names]
    /\ AvatarName \in [Media -> Names]
    /\ Probed \in [Media -> Seq(Names)]

VARIABLES
    server,   \* "down", "starting": making the secret, or "up"
    file,     \* file[n]: what the cache holds under n
    part,     \* part[n]: what `.n.part` holds
    fetch,    \* fetch[t]: the call task t is in
    failed,   \* avatars that could not be downloaded within the last hour
    secret,   \* contents of `.media-secret`
    key,      \* the key of the server
    links,    \* history: the links given to clients
    cut,      \* history: names two tasks wrote at once and one of them died
    lost      \* history: keys that could not be stored, or not be read back

mediaVars == <<server, file, part, fetch, failed, secret, key, links, cut, lost>>

Content == {"absent", "torn", "whole"}
Keys == 1..MaxKeys
Link == [name : Names, key : Keys]

\* fd is where the file a task has open is found now: under its temporary
\* name, under the final name after another task's rename, or nowhere; cut,
\* whether somebody truncated it since.
Fetch == [pc : {"idle", "download", "open", "write", "rename", "done"},
          media : Media \cup {NoMedia},
          name : Names \cup {NoName},
          fd : {"none", "part", "file", "gone"},
          cut : BOOLEAN]

Idle == [pc |-> "idle", media |-> NoMedia, name |-> NoName, fd |-> "none", cut |-> FALSE]

\* `path.exists()`
Exists(n) == file[n] # "absent"

MediaInit ==
    /\ server = "down"
    /\ file = [n \in Names |-> "absent"]
    /\ part = [n \in Names |-> "absent"]
    /\ fetch = [t \in Tasks |-> Idle]
    /\ failed = {}
    /\ secret = 0
    /\ key = 0
    /\ links = {}
    /\ cut = {}
    /\ lost = {}

-----------------------------------------------------------------------------
\* The server's secret.

\* `load_or_create_secret`: a secret that reads back is used.
LoadSecret ==
    /\ server = "down"
    /\ secret \in Keys
    /\ server' = "up"
    /\ key' = secret
    /\ lost' = lost \ {secret}
    /\ UNCHANGED <<file, part, fetch, failed, secret, links, cut>>

\* No secret, half of one, which reads like none, or one that cannot be read:
\* a new one is made, of random bytes.
Unread == secret \notin Keys \/ "io" \in MediaFaults
Unused == Keys \ ({secret, key} \cup lost)
NewKey ==
    /\ server = "down"
    /\ Unread
    /\ Unused # {}
    /\ key' = CHOOSE k \in Unused : TRUE
    /\ UNCHANGED <<file, part, fetch, failed, links, cut>>

\* The key of a good secret that was not read is lost.
Passed == lost \cup ({secret} \cap Keys)

\* A plausible bug: the server starts before its secret is stored.
MakeSecretServing ==
    /\ NewKey
    /\ server' = "up"
    /\ lost' = Passed
    /\ UNCHANGED secret

\* The write truncates the secret, or fails before that.
MakeSecret ==
    /\ NewKey
    /\ \/ server' = "starting" /\ secret' = 0 /\ lost' = Passed
       \/ /\ "io" \in MediaFaults
          /\ server' = "up" /\ lost' = Passed \cup {key'} /\ UNCHANGED secret

StoreSecret ==
    /\ server = "starting"
    /\ server' = "up"
    /\ \/ secret' = key /\ UNCHANGED lost
       \/ "io" \in MediaFaults /\ lost' = lost \cup {key} /\ UNCHANGED secret
    /\ UNCHANGED <<file, part, fetch, failed, key, links, cut>>

-----------------------------------------------------------------------------
\* Fetching.

Step(t, f) == fetch' = [fetch EXCEPT ![t] = f]
Goes(t, pc) == Step(t, [fetch[t] EXCEPT !.pc = pc])
Ends(t, n) == Step(t, [Idle EXCEPT !.pc = "done", !.media = fetch[t].media, !.name = n])

\* `fetch_to_cache`: a file of the name is returned as it is.
FetchAttachment(t, m) ==
    /\ server = "up"
    /\ fetch[t].pc = "idle"
    /\ \E n \in AttachNames[m] :
         Step(t, [Idle EXCEPT !.pc = IF Exists(n) THEN "done" ELSE "download",
                              !.media = m, !.name = n])
    /\ UNCHANGED <<server, file, part, failed, secret, key, links, cut, lost>>

\* `fetch_avatar_to_cache`: any of the names will do; after a failure nothing
\* is tried for an hour.
FoundAvatar(m) ==
    LET first == {i \in DOMAIN Probed[m] :
                    /\ Exists(Probed[m][i])
                    /\ \A j \in 1 .. (i - 1) : ~Exists(Probed[m][j])}
    IN  IF first = {} THEN NoName ELSE Probed[m][CHOOSE i \in first : TRUE]

FetchAvatar(t, m) ==
    /\ server = "up"
    /\ fetch[t].pc = "idle"
    /\ Step(t, [Idle EXCEPT
                  !.pc = IF FoundAvatar(m) # NoName \/ m \in failed
                         THEN "done" ELSE "download",
                  !.media = m, !.name = FoundAvatar(m)])
    /\ UNCHANGED <<server, file, part, failed, secret, key, links, cut, lost>>

\* An avatar's name is known by its bytes only.
Downloaded(t) ==
    /\ fetch[t].pc = "download"
    /\ Step(t, [fetch[t] EXCEPT
                  !.pc = "open",
                  !.name = IF @ = NoName THEN AvatarName[fetch[t].media] ELSE @])
    /\ UNCHANGED <<server, file, part, failed, secret, key, links, cut, lost>>

DownloadFails(t) ==
    /\ "net" \in MediaFaults
    /\ fetch[t].pc = "download"
    /\ Ends(t, NoName)
    /\ failed' = IF fetch[t].name = NoName THEN failed \cup {fetch[t].media} ELSE failed
    /\ UNCHANGED <<server, file, part, secret, key, links, cut, lost>>

FailureExpires(m) ==
    /\ m \in failed
    /\ failed' = failed \ {m}
    /\ UNCHANGED <<server, file, part, fetch, secret, key, links, cut, lost>>

HasOpen(t, n, where) ==
    fetch[t].pc \in {"write", "rename"} /\ fetch[t].name = n /\ fetch[t].fd = where

\* A plausible bug: the download is written under its final name.
OpenFinal(t) ==
    /\ fetch[t].pc = "open"
    /\ file' = [file EXCEPT ![fetch[t].name] = "torn"]
    /\ part' = [part EXCEPT ![fetch[t].name] = "torn"]
    /\ Step(t, [fetch[t] EXCEPT !.pc = "write", !.fd = "part"])
    /\ UNCHANGED <<server, failed, secret, key, links, cut, lost>>

\* `fs::write` opens and truncates the file, whoever has it open ...
Open(t) ==
    LET n == fetch[t].name
    IN  /\ fetch[t].pc = "open"
        /\ part' = [part EXCEPT ![n] = "torn"]
        /\ fetch' = [u \in Tasks |->
             IF u = t THEN [fetch[t] EXCEPT !.pc = "write", !.fd = "part"]
             ELSE IF HasOpen(u, n, "part") THEN [fetch[u] EXCEPT !.cut = TRUE]
             ELSE fetch[u]]
        /\ UNCHANGED <<server, file, failed, secret, key, links, cut, lost>>

\* ... and writes it.  The bytes are the same whoever writes them, so one
\* complete write makes it whole; one that was truncated midway may not.
Written(t, before) == IF fetch[t].cut THEN {before, "whole"} ELSE {"whole"}

Write(t) ==
    LET n == fetch[t].name
    IN  /\ fetch[t].pc = "write"
        /\ Goes(t, "rename")
        /\ \/ /\ fetch[t].fd = "part"
              /\ \E c \in Written(t, part[n]) : part' = [part EXCEPT ![n] = c]
              /\ UNCHANGED file
           \/ /\ fetch[t].fd = "file"
              /\ \E c \in Written(t, file[n]) : file' = [file EXCEPT ![n] = c]
              /\ UNCHANGED part
           \/ fetch[t].fd = "gone" /\ UNCHANGED <<file, part>>
        /\ UNCHANGED <<server, failed, secret, key, links, cut, lost>>

\* A full disk, before or while the file is written.
Shared(t) ==
    /\ fetch[t].pc = "write"
    /\ \/ fetch[t].fd = "file"
       \/ \E u \in Tasks \ {t} : /\ fetch[u].name = fetch[t].name
                               /\ fetch[u].pc \in {"write", "rename"}

WriteFails(t) ==
    /\ "io" \in MediaFaults
    /\ fetch[t].pc \in {"open", "write"}
    /\ Ends(t, NoName)
    /\ cut' = IF Shared(t) THEN cut \cup {fetch[t].name} ELSE cut
    /\ UNCHANGED <<server, file, part, failed, secret, key, links, lost>>

\* `fs::rename` moves whatever is there, with every task that has it open.
Rename(t) ==
    LET n == fetch[t].name
        Moved(u) == IF HasOpen(u, n, "part") THEN [fetch[u] EXCEPT !.fd = "file"]
                    ELSE IF HasOpen(u, n, "file") THEN [fetch[u] EXCEPT !.fd = "gone"]
                    ELSE fetch[u]
    IN  /\ fetch[t].pc = "rename"
        /\ part[n] # "absent"
        /\ file' = [file EXCEPT ![n] = part[n]]
        /\ part' = [part EXCEPT ![n] = "absent"]
        /\ fetch' = [u \in Tasks |->
             IF u = t THEN [Idle EXCEPT !.pc = "done", !.media = fetch[t].media, !.name = n]
             ELSE Moved(u)]
        /\ UNCHANGED <<server, failed, secret, key, links, cut, lost>>

\* The other task was first: an error, although the file is there.
RenameFails(t) ==
    /\ fetch[t].pc = "rename"
    /\ part[fetch[t].name] = "absent"
    /\ Ends(t, NoName)
    /\ UNCHANGED <<server, file, part, failed, secret, key, links, cut, lost>>

\* `url_for`: a link to the file is signed and given to the client.
GiveLink(n) == links' = links \cup {[name |-> n, key |-> key]}

TakeFetched(t) ==
    /\ fetch[t].pc = "done"
    /\ Step(t, Idle)
    /\ IF fetch[t].name = NoName THEN UNCHANGED links ELSE GiveLink(fetch[t].name)
    /\ UNCHANGED <<server, file, part, failed, secret, key, cut, lost>>

\* The process ends; what is on disk stays.
MediaCrash ==
    /\ "crash" \in MediaFaults
    /\ server # "down"
    /\ server' = "down"
    /\ fetch' = [t \in Tasks |-> Idle]
    /\ failed' = {}
    /\ cut' = cut \cup {n \in Names : \E t \in Tasks :
                          HasOpen(t, n, "file") /\ fetch[t].pc = "write"}
    /\ UNCHANGED <<file, part, secret, key, links, lost>>

\* The steps inside a fetch.
FetchStep(t) ==
    \/ Downloaded(t) \/ DownloadFails(t)
    \/ Open(t) \/ Write(t) \/ WriteFails(t)
    \/ Rename(t) \/ RenameFails(t)

ServerStep ==
    \/ LoadSecret \/ MakeSecret \/ StoreSecret
    \/ \E m \in Media : FailureExpires(m)

MediaNext ==
    \/ \E t \in Tasks, m \in Media : FetchAttachment(t, m) \/ FetchAvatar(t, m)
    \/ \E t \in Tasks : FetchStep(t) \/ TakeFetched(t)
    \/ ServerStep
    \/ MediaCrash

MediaSpec == MediaInit /\ [][MediaNext]_mediaVars

-----------------------------------------------------------------------------
MediaTypeOK ==
    /\ server \in {"down", "starting", "up"}
    /\ file \in [Names -> Content]
    /\ part \in [Names -> Content]
    /\ fetch \in [Tasks -> Fetch]
    /\ failed \in SUBSET Media
    /\ secret \in {0} \cup Keys
    /\ key \in {0} \cup Keys
    /\ links \in SUBSET Link
    /\ cut \in SUBSET Names
    /\ lost \in SUBSET Keys

\* The .part protocol: a file that is not whole is found under its final name
\* only while a task that shared its .part file is still writing it, or after
\* such a task was cut off.  A crash or an error in a download nobody else was
\* making leaves nothing under that name (media.rs fetch_to_cache).
TornExplained == \A n \in Names :
    file[n] = "torn" => \/ n \in cut
                        \/ \E t \in Tasks : HasOpen(t, n, "file") /\ fetch[t].pc = "write"

\* Links live in backlogs (media/mod.rs:57 "no expiry"): whatever restarts
\* come between, the file of every link there ever was is there, and the
\* server accepts its signature, unless the key of that link is one that could
\* not be stored, or one that could not be read back and so was replaced.
LinksLive == \A l \in links :
    /\ Exists(l.name)
    /\ server = "up" => l.key = key \/ l.key \in lost
=============================================================================
