---------------------------- MODULE MCConnection ----------------------------
(* Small instances of Connection: every queue may be full, and the numbers  *)
(* keep the order of the real ones: a PING, its answer and a busy read loop *)
(* take less than the ping timeout.                                        *)
EXTENDS Connection

ASSUME PingAfter + AnswerWithin + BusyFor < Timeout
=============================================================================
