---------------------------- MODULE MCLogService -----------------------------
(* A small instance of LogService for TLC.                                 *)
EXTENDS LogService

MCMasks == {{"notice"}, {"debug", "notice"}}
=============================================================================
