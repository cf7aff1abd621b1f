----------------------------- MODULE MCRequestLog -----------------------------
(* An instance of RequestLog for TLC.                                       *)
EXTENDS RequestLog, TLC
=============================================================================
