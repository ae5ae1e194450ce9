----------------------------- MODULE MCOutgoing -----------------------------
(* Small instances of Outgoing: one batch reference is enough to open it     *)
(* again, and two lines to have one captured and one sent on its own.      *)
EXTENDS Outgoing

AnyFault == {"refused", "unanswered"}
NoFault == {}
=============================================================================
