--------------------------- MODULE MCDeliveryQueue ---------------------------
(***************************************************************************)
(* Instances of DeliveryQueue for TLC.                                     *)
(***************************************************************************)
EXTENDS DeliveryQueue

CONSTANTS d1, d2
=============================================================================
