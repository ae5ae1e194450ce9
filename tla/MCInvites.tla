----------------------------- MODULE MCInvites ------------------------------
(* Small instances of Invites: two rooms, invited at the start or later,    *)
(* and answers enough to refuse one invitation and be invited again.       *)
EXTENDS Invites

AnyFault == {"sync", "answer"}
NoFault == {}
=============================================================================
