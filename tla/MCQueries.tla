----------------------------- MODULE MCQueries ------------------------------
(* A small instance of Queries: bob and ann, whose DMs and groups are all   *)
(* called dev, and one connection at a time.                               *)
EXTENDS Queries, TLC, Sequences

Suffix(i) == IF i = 1 THEN "" ELSE "_" \o ToString(i)
MCChannelName(b, i) == "#" \o b \o Suffix(i)
MCQueryName(n, i) == n \o Suffix(i)
MCFold(q) == q
MCNickOf == [u \in Users |-> u]
OneBase == {"dev"}
ThreeNicks == {"bob", "ann", "query"}
TwoTargets == {"bob", "ann"}
NoTopics == {""}
NoFault == {}
Symmetry == Permutations(Rooms) \cup Permutations(Tasks)
=============================================================================
