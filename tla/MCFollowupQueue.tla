--------------------------- MODULE MCFollowupQueue ---------------------------
(***************************************************************************)
(* Instances of FollowupQueue for TLC: m1 and m2 come from one sender of   *)
(* channel "a", m3 from another sender of it, m4 from channel "b".         *)
(***************************************************************************)
EXTENDS FollowupQueue

CONSTANTS m1, m2, m3, m4

MCChannel == [m \in Messages |-> IF m = m4 THEN "b" ELSE "a"]
MCAuthKey == [m \in Messages |-> IF m = m3 THEN "guest" ELSE "owner"]

\* Every message without an id, so that nothing is taken for a redelivery.
MCNoIds == [m \in Messages |-> NoId]

\* m2 is a redelivery of m1; m4 has no id.
MCRedelivered ==
  [m \in Messages |-> CASE m \in {m1, m2} -> "id1" [] m = m3 -> "id3" [] m = m4 -> NoId]
=============================================================================
