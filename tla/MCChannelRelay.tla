--------------------------- MODULE MCChannelRelay ---------------------------
(* A small instance of ChannelRelay: rooms a and b both want the channel   *)
(* #dev, d is a DM.  A scene is what a connection finds: the stored table,  *)
(* which may lack rooms or hold one the account has left, the rooms it is   *)
(* joined to, and whether the first sync may fail and the client may PART.  *)
EXTENDS ChannelRelay, TLC

Suffix(i) == IF i = 1 THEN "" ELSE "_" \o ToString(i)
MCChannelName(b, i) == "#" \o b \o Suffix(i)
MCQueryName(n, i) == n \o Suffix(i)
MCFold(q) == q

DmRoom == {"d"}
Base == {"dev"}
Nick == {"bob"}
Topic1 == {""}
MCBaseOf == [r \in Rooms |-> "dev"]
MCNickOf == [r \in Rooms |-> "bob"]

AllThree == {"a", "b", "d"}

Scene(s, l, f, n) == [stored |-> s, live |-> l, fails |-> f, parts |-> n]

\* Two channels, none or one of them stored; then a first sync that may
\* fail, a room that was left, a PART, and the last three together.
MCScenes == {
    Scene({}, {"a", "b"}, FALSE, 0), Scene({"a"}, {"a", "b"}, FALSE, 0),
    Scene({}, {"b", "d"}, TRUE, 0),
    Scene({"a"}, {"b"}, FALSE, 0),
    Scene({"b"}, {"b"}, FALSE, 1),
    Scene({"a", "d"}, {"d"}, TRUE, 1) }
=============================================================================
