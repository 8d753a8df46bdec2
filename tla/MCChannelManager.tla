-------------------------- MODULE MCChannelManager ---------------------------
(***************************************************************************)
(* Instances of ChannelManager for TLC.                                    *)
(***************************************************************************)
EXTENDS ChannelManager

CONSTANTS c1, c2
=============================================================================
