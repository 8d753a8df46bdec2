---------------------------- MODULE MCCronService ----------------------------
(***************************************************************************)
(* Instances of CronService for TLC.                                       *)
(***************************************************************************)
EXTENDS CronService

CONSTANTS daily, once, m1, m2
=============================================================================
