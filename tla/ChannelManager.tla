--------------------------- MODULE ChannelManager ----------------------------
(***************************************************************************)
(* One account of a channel under gateway/server-channels.ts: starts that  *)
(* reserve the account before their first await, the provider task with    *)
(* its cleanup and its automatic restart after a backoff, stops that abort *)
(* and wait with a timeout, and the callers of both: user requests, the    *)
(* restart of a config reload, a logout, and the health monitor of         *)
(* gateway/channel-health-monitor.ts.                                      *)
(*                                                                         *)
(* Every await is a boundary between steps.  A start attempt is named by a *)
(* number, which stands for its AbortController, its start gate and its    *)
(* tracked promise alike.  Whether the account is enabled, configured and  *)
(* healthy, how long a provider runs and when it reacts to an abort, is    *)
(* open; the rate limits of the health monitor are left out.               *)
(***************************************************************************)
EXTENDS Integers, FiniteSets

CONSTANTS
  Calls,                 \* calls of the manager by the rest of the gateway
  MaxAttempts,           \* bound on the start attempts
  MAX_RESTART_ATTEMPTS

ASSUME ChannelManagerAssumption ==
  /\ MaxAttempts \in Nat \ {0}
  /\ MAX_RESTART_ATTEMPTS \in Nat

VARIABLES
  stopHook,         \* whether the plugin has a stopAccount hook
  attempt,          \* attempt[k]: where start attempt k is, who made it
  starting, aborts, tasks,  \* the entry of the account in the maps, or None
  aborted,          \* the attempts whose signal is aborted
  manuallyStopped,  \* whether the account is in the set of that name
  restartAttempts,
  runtime,          \* the status kept for the account
  call,             \* call[c]: what call c does and where it is
  wanted,           \* history: the last request was to run the account
  lost              \* history: attempts whose entry was deleted by a stop that
                    \* had not waited for their task or not aborted them

entries == <<starting, aborts, tasks>>
history == <<wanted, lost>>
vars == <<stopHook, attempt, entries, aborted, manuallyStopped, restartAttempts,
          runtime, call, history>>

None == 0
Attempts == 1..MaxAttempts
Ops == {"start", "stop", "logout", "restart", "monitor"}
Idle == [op |-> "none", pc |-> "idle", waits |-> None]

Init ==
  /\ stopHook \in BOOLEAN
  /\ attempt = [k \in Attempts |-> [pc |-> "unused", auto |-> FALSE, gate |-> None]]
  /\ starting = None /\ aborts = None /\ tasks = None
  /\ aborted = {} /\ manuallyStopped = FALSE /\ restartAttempts = 0
  /\ runtime = [running |-> FALSE, restartPending |-> FALSE]
  /\ call = [c \in Calls |-> Idle]
  /\ wanted = FALSE /\ lost = {}
-----------------------------------------------------------------------------
At(k, pc) == attempt[k].pc = pc
Goto(k, pc) == attempt' = [attempt EXCEPT ![k].pc = pc]
InState(pcs) == {k \in Attempts : attempt[k].pc \in pcs}
Unused == InState({"unused"})
NextAttempt == CHOOSE k \in Unused : \A j \in Unused : k <= j
Without(entry, k) == IF entry = k THEN None ELSE entry
Stopped == [running |-> FALSE, restartPending |-> FALSE]

\* The start that others wait for is over, with a task or without.
GateOpen(k) == attempt[k].pc \notin {"config", "boot"}

\* Mutant: an overlapping start does not see the one under way.
Reserved_tasksOnly == tasks # None

\* A start finds a task, or the start of another caller under way.
Reserved == tasks # None \/ starting # None

\* The synchronous part of startChannelInternal after it found nothing: the
\* account is reserved, att is the map of attempts it is added to.
Reserve(att, auto) ==
  /\ Unused # {}
  /\ attempt' = [att EXCEPT ![NextAttempt] =
                   [pc |-> "config", auto |-> auto, gate |-> None]]
  /\ starting' = NextAttempt /\ aborts' = NextAttempt
-----------------------------------------------------------------------------
(* A start attempt up to the task it hands over.                           *)

\* The attempt ends without a task: disabled, not configured, stopped in the
\* meantime, or an exception.
GiveUp(k) ==
  /\ runtime' = Stopped
  /\ starting' = Without(starting, k)
  /\ Goto(k, "failing")
  /\ UNCHANGED <<aborts, tasks>>

StartRefused(k) ==
  /\ At(k, "config") \/ At(k, "boot")
  /\ GiveUp(k)
  /\ UNCHANGED <<stopHook, aborted, manuallyStopped, restartAttempts, call, history>>

\* preserveManualStop: an automatic start leaves the mark of a manual stop.
MarkAfterStart(k) == manuallyStopped /\ attempt[k].auto

StartCancelled(k) == k \in aborted \/ MarkAfterStart(k)

\* The configuration is known: a start on request lifts the manual stop, an
\* automatic one respects it, and both end when they were stopped.
Configured(k) ==
  /\ At(k, "config")
  /\ manuallyStopped' = MarkAfterStart(k)
  /\ IF StartCancelled(k)
     THEN GiveUp(k) /\ UNCHANGED restartAttempts
     ELSE /\ restartAttempts' = IF attempt[k].auto THEN restartAttempts ELSE 0
          /\ Goto(k, "boot")
          /\ UNCHANGED <<entries, runtime>>
  /\ UNCHANGED <<stopHook, aborted, call, history>>

\* The approval handlers are up: the provider is started and tracked.
HandOff(k) ==
  /\ At(k, "boot")
  /\ Goto(k, "live")
  /\ tasks' = k
  /\ starting' = Without(starting, k)
  /\ runtime' = [running |-> TRUE, restartPending |-> FALSE]
  /\ UNCHANGED <<stopHook, aborts, aborted, manuallyStopped, restartAttempts,
                 call, history>>

\* The cleanup of an attempt without a task is over.
FailureCleaned(k) ==
  /\ At(k, "failing")
  /\ Goto(k, "refused")
  /\ aborts' = Without(aborts, k)
  /\ UNCHANGED <<stopHook, starting, tasks, aborted, manuallyStopped,
                 restartAttempts, runtime, call, history>>
-----------------------------------------------------------------------------
(* The tracked promise of a task.                                          *)

\* startAccount returns or throws, by itself or because of the abort.
ProviderExits(k) ==
  /\ At(k, "live")
  /\ Goto(k, "cleanup")
  /\ UNCHANGED <<stopHook, entries, aborted, manuallyStopped, restartAttempts,
                 runtime, call, history>>

\* The last finally block: the entries of this attempt, and no other, go.
Settle(k) ==
  /\ Goto(k, "ended")
  /\ tasks' = Without(tasks, k) /\ aborts' = Without(aborts, k)
  /\ UNCHANGED starting

GivesUp(n) == n > MAX_RESTART_ATTEMPTS

\* Cleanup over: unless it was stopped on purpose or has used its attempts, the
\* account waits for its restart.
Exited(k) ==
  /\ At(k, "cleanup")
  /\ IF manuallyStopped
     THEN /\ runtime' = [runtime EXCEPT !.running = FALSE]
          /\ Settle(k) /\ UNCHANGED restartAttempts
     ELSE LET n == restartAttempts + 1 IN
          /\ restartAttempts' = n
          /\ runtime' = [running |-> FALSE, restartPending |-> ~GivesUp(n)]
          /\ IF GivesUp(n) THEN Settle(k)
             ELSE Goto(k, "backoff") /\ UNCHANGED entries
  /\ UNCHANGED <<stopHook, aborted, manuallyStopped, call, history>>

\* The abort ends the sleep of the backoff with an exception.
BackoffAborted(k) ==
  /\ At(k, "backoff") /\ k \in aborted
  /\ Settle(k)
  /\ UNCHANGED <<stopHook, aborted, manuallyStopped, restartAttempts, runtime,
                 call, history>>

\* The backoff has passed: start again, unless stopped or started meanwhile.
AutoRestart(k) ==
  /\ At(k, "backoff") /\ k \notin aborted
  /\ IF manuallyStopped \/ Without(tasks, k) # None
     THEN Settle(k)
     ELSE /\ tasks' = None
          /\ IF starting # None
             THEN /\ attempt' = [attempt EXCEPT ![k].pc = "nested", ![k].gate = starting]
                  /\ aborts' = Without(aborts, k)
                  /\ UNCHANGED starting
             ELSE Reserve([attempt EXCEPT ![k].pc = "nested", ![k].gate = NextAttempt], TRUE)
  /\ UNCHANGED <<stopHook, aborted, manuallyStopped, restartAttempts, runtime,
                 call, history>>

\* The start that the restart waits for is over.
NestedStartOver(k) ==
  /\ At(k, "nested")
  /\ GateOpen(attempt[k].gate)
  /\ Settle(k)
  /\ UNCHANGED <<stopHook, aborted, manuallyStopped, restartAttempts, runtime,
                 call, history>>
-----------------------------------------------------------------------------
(* The calls of the rest of the gateway.                                   *)

\* The wait of a stop is over as soon as its task is settled: before any caller
\* goes on.
StopReady(c) ==
  call[c].pc = "stopWait" /\ call[c].waits \in {None} \cup InState({"ended"})
Quick == \A c \in Calls : ~StopReady(c)

\* Call c is at pc, waiting for attempt k.
Continue(c, op, pc, k) ==
  call' = [call EXCEPT ![c] = [op |-> op, pc |-> pc, waits |-> k]]

\* startChannel for call c.
StartChannel(c, op) ==
  /\ wanted' = TRUE
  /\ restartAttempts' = IF op = "monitor" THEN 0 ELSE restartAttempts
  /\ IF Reserved
     THEN /\ Continue(c, op, IF tasks # None THEN "done" ELSE "startWait", starting)
          /\ UNCHANGED <<attempt, entries>>
     ELSE /\ Reserve(attempt, FALSE)
          /\ Continue(c, op, "startWait", NextAttempt)
          /\ UNCHANGED tasks
  /\ UNCHANGED <<stopHook, aborted, manuallyStopped, runtime, lost>>

\* What call c does once its stop has returned.
AfterStop(op) ==
  CASE op = "stop" -> "done" [] op = "logout" -> "markOut" [] OTHER -> "toStart"

\* Mutant: a stop only waits, it aborts nothing.
Signalled_none == aborted

\* abort?.abort()
Signalled == aborted \cup ({aborts} \ {None})

\* stopChannel for call c, up to its first await.
StopChannel(c, op) ==
  /\ wanted' = FALSE
  /\ IF aborts = None /\ tasks = None /\ ~stopHook
     THEN /\ Continue(c, op, AfterStop(op), None)
          /\ UNCHANGED <<aborted, manuallyStopped>>
     ELSE /\ manuallyStopped' = TRUE
          /\ aborted' = Signalled
          /\ Continue(c, op, IF stopHook THEN "stopHook" ELSE "stopWait", tasks)
  /\ UNCHANGED <<stopHook, attempt, entries, restartAttempts, runtime, lost>>

\* A call begins.  The monitor makes one check at a time, leaves an account
\* alone that was stopped on purpose, and stops it first when it seems to run.
Begin(c, op) ==
  /\ call[c].pc = "idle" /\ Quick
  /\ op = "monitor" =>
       /\ ~manuallyStopped
       /\ \A d \in Calls : call[d].op = "monitor" => call[d].pc = "done"
  /\ IF op = "start" \/ (op = "monitor" /\ ~runtime.running)
     THEN StartChannel(c, op) ELSE StopChannel(c, op)

\* The stopAccount hook of the plugin returns.
HookReturns(c) ==
  /\ call[c].pc = "stopHook"
  /\ call' = [call EXCEPT ![c].pc = "stopWait"]
  /\ UNCHANGED <<stopHook, attempt, entries, aborted, manuallyStopped,
                 restartAttempts, runtime, history>>

\* The hook throws: the stop ends here, and with it the restart it was for.
HookThrows(c) ==
  /\ call[c].pc = "stopHook"
  /\ call' = [call EXCEPT ![c].pc = "done", ![c].waits = None]
  /\ UNCHANGED <<stopHook, attempt, entries, aborted, manuallyStopped,
                 restartAttempts, runtime, history>>

\* The stop has waited for its task and deletes the entries of the account.
StopReturns(c) ==
  /\ StopReady(c)
  /\ aborts' = None /\ tasks' = None
  /\ runtime' = Stopped
  /\ call' = [call EXCEPT ![c].pc = AfterStop(call[c].op), ![c].waits = None]
  /\ lost' = lost \cup ({tasks} \ {None, call[c].waits}) \cup ({aborts} \ ({None} \cup aborted))
  /\ UNCHANGED <<stopHook, attempt, starting, aborted, manuallyStopped,
                 restartAttempts, wanted>>

\* Mutant: the stop awaits the task alone.
Hangs_never(k) == FALSE

\* The task is under way and not about to settle.
Hangs(k) == k # None /\ ~At(k, "ended") /\ ~(At(k, "backoff") /\ k \in aborted)

\* Mutant: the stop that timed out forgets the task.
StopTimesOut_forget(c) ==
  /\ call[c].pc = "stopWait" /\ Hangs(call[c].waits)
  /\ runtime' = [running |-> TRUE, restartPending |-> FALSE]
  /\ aborts' = None /\ tasks' = None
  /\ call' = [call EXCEPT ![c].pc = AfterStop(call[c].op), ![c].waits = None]
  /\ UNCHANGED <<stopHook, attempt, starting, aborted, manuallyStopped,
                 restartAttempts, history>>

\* The task takes too long: the stop returns and the entries stay.
StopTimesOut(c) ==
  /\ call[c].pc = "stopWait" /\ Hangs(call[c].waits)
  /\ runtime' = [running |-> TRUE, restartPending |-> FALSE]
  /\ call' = [call EXCEPT ![c].pc = AfterStop(call[c].op), ![c].waits = None]
  /\ UNCHANGED <<stopHook, attempt, entries, aborted, manuallyStopped,
                 restartAttempts, history>>

\* The second half of a restart.
StartAfterStop(c) ==
  /\ call[c].pc = "toStart" /\ Quick
  /\ StartChannel(c, call[c].op)

\* The logout of the plugin is over, with success or not.
markChannelLoggedOut(c) ==
  /\ call[c].pc = "markOut"
  /\ runtime' \in {runtime, Stopped}
  /\ call' = [call EXCEPT ![c].pc = "done"]
  /\ UNCHANGED <<stopHook, attempt, entries, aborted, manuallyStopped,
                 restartAttempts, history>>

\* The start that call c made or waited for is over.
StartReturns(c) ==
  /\ call[c].pc = "startWait"
  /\ GateOpen(call[c].waits)
  /\ call' = [call EXCEPT ![c].pc = "done", ![c].waits = None]
  /\ UNCHANGED <<stopHook, attempt, entries, aborted, manuallyStopped,
                 restartAttempts, runtime, history>>

AttemptStep(k) ==
  \/ StartRefused(k) \/ Configured(k) \/ HandOff(k) \/ FailureCleaned(k)
  \/ Exited(k) \/ BackoffAborted(k) \/ AutoRestart(k) \/ NestedStartOver(k)

CallStep(c) ==
  \/ HookReturns(c) \/ HookThrows(c) \/ StopReturns(c) \/ StopTimesOut(c)
  \/ StartAfterStop(c) \/ markChannelLoggedOut(c) \/ StartReturns(c)

Next ==
  \/ \E k \in Attempts : AttemptStep(k) \/ ProviderExits(k)
  \/ \E c \in Calls : CallStep(c) \/ \E op \in Ops : Begin(c, op)

Spec == Init /\ [][Next]_vars

\* Awaits return and timers fire.  A provider need not end, whether it is told to or
\* not.
FairSpec ==
  /\ Spec
  /\ \A k \in Attempts : WF_vars(AttemptStep(k))
  /\ \A c \in Calls : WF_vars(CallStep(c))
-----------------------------------------------------------------------------
Live == InState({"live"})
Serving == Live \ aborted

\* The types of the state.
TypeOK ==
  /\ stopHook \in BOOLEAN /\ manuallyStopped \in BOOLEAN
  /\ attempt \in [Attempts ->
       [pc : {"unused", "config", "boot", "failing", "live", "cleanup", "backoff",
              "nested", "ended", "refused"},
        auto : BOOLEAN, gate : {None} \cup Attempts]]
  /\ {starting, aborts, tasks} \subseteq {None} \cup Attempts
  /\ aborted \subseteq Attempts
  /\ restartAttempts \in Nat
  /\ runtime \in [running : BOOLEAN, restartPending : BOOLEAN]
  /\ call \in [Calls -> [op : Ops \cup {"none"},
       pc : {"idle", "stopHook", "stopWait", "toStart", "markOut", "startWait", "done"},
       waits : {None} \cup Attempts]]
  /\ lost \subseteq Attempts

\* Whatever starts, stops, restarts and crashes overlap, a provider that serves
\* is the one in the maps, where the next stop finds it.  The exception is the
\* stop of a plugin with a stopAccount hook: while the hook takes its time, a
\* start may be made whose entries that stop then deletes.
ServingIsTracked ==
  \A k \in Serving : (tasks = k /\ aborts = k) \/ (stopHook /\ k \in lost)

\* A second provider is not booted while one that was told to stop is still
\* alive after the timeout of the stop.
NoSecondTask == Cardinality(Live \ lost) <= 1

\* After a stop no provider serves until a start is requested: neither a start
\* under way nor the automatic restart brings it back.  The crash of a provider
\* that the stop of a plugin with a hook has lost can.
StopHolds == Serving # {} => wanted \/ (stopHook /\ lost # {})

\* The status never says running for an account without a provider.
RunningIsLive == runtime.running => InState({"live", "cleanup"}) # {}

\* Nobody waits for ever: each call returns, also a stop whose provider never ends
\* after its abort (the timeout of the stop is all that helps it) and a start that
\* waits for the start of somebody else.
CallsReturn ==
  \A c \in Calls : call[c].pc # "idle" ~> call[c].pc = "done" \/ Unused = {}

\* No call and no attempt is under way.
AtRest ==
  /\ \A c \in Calls : call[c].pc \in {"idle", "done"}
  /\ \A k \in Attempts : attempt[k].pc \in {"unused", "ended"}

\* An account whose provider has run and ended is kept from restarting only
\* when somebody asked for it to be stopped.
MarkIsManual ==
  AtRest /\ manuallyStopped => \E c \in Calls : call[c].op \in {"stop", "logout"}
=============================================================================
