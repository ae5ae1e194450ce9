----------------------------- MODULE MCRoomMaps -----------------------------
(* Small instances of RoomMaps.  `dev_2` is a base of its own, so that a    *)
(* room called dev_2 and the second room called dev want the same channel; *)
(* Bob and bob are one nick to IRC.                                        *)
EXTENDS RoomMaps, TLC, Sequences

Suffix(i) == IF i = 1 THEN "" ELSE "_" \o ToString(i)
MCChannelName(b, i) == "#" \o b \o Suffix(i)
MCQueryName(n, i) == n \o Suffix(i)
MCFold(q) == IF q = "Bob" THEN "bob" ELSE IF q = "Bob_2" THEN "bob_2" ELSE q

TwoBases == {"dev", "dev_2"}
TwoNicks == {"bob", "Bob"}
OneNick == {"bob"}
NoTopics == {""}
AnyFault == {"crash", "io"}

ConnRoomSymmetry == Permutations(Rooms) \cup Permutations(Conns)
=============================================================================
