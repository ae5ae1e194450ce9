---------------------------- MODULE InOrderRelay ----------------------------
(***************************************************************************)
(* What the Matrix -> IRC direction of a connection promises, whatever     *)
(* happens on its channels: the messages it takes from Matrix reach the    *)
(* client each exactly once, in the order they were taken, and all of them *)
(* eventually.  Messages are numbered in the order in which they are taken.*)
(***************************************************************************)
EXTENDS Naturals

CONSTANT MaxMessages   \* bound: messages taken

VARIABLES
    taken,    \* number of messages taken from Matrix
    shown     \* number of messages the client has seen

vars == <<taken, shown>>

Init == taken = 0 /\ shown = 0

Take ==
    /\ taken < MaxMessages
    /\ taken' = taken + 1
    /\ UNCHANGED shown

Show ==
    /\ shown < taken
    /\ shown' = shown + 1
    /\ UNCHANGED taken

Next == Take \/ Show

Fairness == WF_vars(Show)

Spec == Init /\ [][Next]_vars /\ Fairness
=============================================================================
