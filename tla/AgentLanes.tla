----------------------------- MODULE AgentLanes -----------------------------
(***************************************************************************)
(* Lane names and the functions that choose a lane for a piece of agent    *)
(* work (process/lanes.ts, agents/pi-embedded-runner/lanes.ts).  A session *)
(* key is an abstract value: the lane of session k is the pair             *)
(* <<"session", k>>, the global lanes are <<"global", name>>.  The trimming *)
(* of keys and the "session:" prefix only make the two families disjoint,  *)
(* which the pairs do by construction.                                     *)
(***************************************************************************)

Main     == <<"global", "main">>
Cron     == <<"global", "cron">>
Subagent == <<"global", "subagent">>
Nested   == <<"global", "nested">>

CommandLane == {Main, Cron, Subagent, Nested}

\* The lane that serialises the runs of one session.
resolveSessionLane(key) == <<"session", key>>

\* Mutant: the lane asked for is the lane used.
resolveGlobalLane_same(lane) == lane

\* The lane that caps the overall parallelism of a run.  A run requested on
\* the cron lane is moved to the nested lane: the cron job that started it
\* already holds a slot of the cron lane.
resolveGlobalLane(lane) == IF lane = Cron THEN Nested ELSE lane
=============================================================================
