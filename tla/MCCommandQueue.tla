--------------------------- MODULE MCCommandQueue ---------------------------
(***************************************************************************)
(* Instances of CommandQueue for TLC.  Two runs of session "a" compete for *)
(* its lane and for the main lane; a cron job starts a run of session "b", *)
(* which asks for the cron lane and is given resolveGlobalLane(Cron).      *)
(***************************************************************************)
EXTENDS CommandQueue, AgentLanes

CONSTANTS a1, m1, a2, m2, c1, b1, n1, none

MCLaneOf ==
  [t \in Tasks |->
     CASE t \in {a1, a2} -> resolveSessionLane("a")
       [] t \in {m1, m2} -> resolveGlobalLane(Main)
       [] t = c1 -> Cron
       [] t = b1 -> resolveSessionLane("b")
       [] t = n1 -> resolveGlobalLane(Cron)]

MCLanes == {MCLaneOf[t] : t \in Tasks}

\* a1 and a2 enqueue their main-lane part, b1 its nested-lane part, c1 runs b1.
MCInner ==
  [t \in Tasks |->
     CASE t = a1 /\ m1 \in Tasks -> m1
       [] t = a2 /\ m2 \in Tasks -> m2
       [] t = c1 -> b1
       [] t = b1 -> n1
       [] OTHER -> none]

MCSyncInner == {t \in Tasks \cap {a1, a2, b1} : MCInner[t] # none}
=============================================================================
