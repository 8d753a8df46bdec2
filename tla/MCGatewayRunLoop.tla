-------------------------- MODULE MCGatewayRunLoop --------------------------
(***************************************************************************)
(* Instances of GatewayRunLoop for TLC: the runs of one session are the    *)
(* tasks of one lane.                                                      *)
(***************************************************************************)
EXTENDS GatewayRunLoop

CONSTANT sessionLane

MCLaneOf == [t \in Tasks |-> sessionLane]
MCInner == [t \in Tasks |-> NoTask]
=============================================================================
