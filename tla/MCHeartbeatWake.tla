--------------------------- MODULE MCHeartbeatWake ---------------------------
(***************************************************************************)
(* Instance of HeartbeatWake for TLC.                                      *)
(***************************************************************************)
EXTENDS HeartbeatWake

CONSTANTS t1, t2
=============================================================================
