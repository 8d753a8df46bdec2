----------------------------- MODULE LaneService -----------------------------
(***************************************************************************)
(* What the command queue promises its callers: a lane serves the tasks it *)
(* accepted in the order of acceptance, at most cap[l] of them at a time,  *)
(* and each task at most once.  A restart forgets the tasks in service     *)
(* but keeps the ones that wait.                                           *)
(***************************************************************************)
EXTENDS Integers, Sequences, FiniteSets

CONSTANTS
  Lanes,   \* names of lanes
  Tasks,   \* the tasks
  LaneOf   \* LaneOf[t]: the lane of task t

VARIABLES
  waiting,   \* waiting[l]: accepted tasks not yet started, oldest first
  serving,   \* serving[l]: tasks in service
  cap,       \* cap[l]: how many tasks lane l may start side by side
  accepted   \* every task accepted so far

vars == <<waiting, serving, cap, accepted>>

Init ==
  /\ waiting = [l \in Lanes |-> <<>>]
  /\ serving = [l \in Lanes |-> {}]
  /\ cap = [l \in Lanes |-> 1]
  /\ accepted = {}

\* A task is accepted once, at the end of its lane.
Accept(t) ==
  /\ t \notin accepted
  /\ accepted' = accepted \cup {t}
  /\ waiting' = [waiting EXCEPT ![LaneOf[t]] = Append(@, t)]
  /\ UNCHANGED <<serving, cap>>

\* The oldest waiting task of a lane is started if there is room for it.
Begin(l) ==
  /\ waiting[l] # <<>>
  /\ Cardinality(serving[l]) < cap[l]
  /\ waiting' = [waiting EXCEPT ![l] = Tail(@)]
  /\ serving' = [serving EXCEPT ![l] = @ \cup {Head(waiting[l])}]
  /\ UNCHANGED <<cap, accepted>>

Finish(l, t) ==
  /\ t \in serving[l]
  /\ serving' = [serving EXCEPT ![l] = @ \ {t}]
  /\ UNCHANGED <<waiting, cap, accepted>>

\* Every waiting task of a lane is dropped, none in service.
Cancel(l) ==
  /\ waiting' = [waiting EXCEPT ![l] = <<>>]
  /\ UNCHANGED <<serving, cap, accepted>>

SetCap(l) ==
  /\ cap'[l] \in Nat \ {0}
  /\ cap' = [cap EXCEPT ![l] = cap'[l]]
  /\ UNCHANGED <<waiting, serving, accepted>>

\* A restart: the tasks in service are forgotten.
Restart ==
  /\ serving' = [l \in Lanes |-> {}]
  /\ UNCHANGED <<waiting, cap, accepted>>

Next ==
  \/ \E t \in Tasks : Accept(t)
  \/ \E l \in Lanes : Begin(l) \/ Cancel(l) \/ SetCap(l)
  \/ \E l \in Lanes, t \in Tasks : Finish(l, t)
  \/ Restart

Spec == Init /\ [][Next]_vars
=============================================================================
