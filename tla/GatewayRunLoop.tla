--------------------------- MODULE GatewayRunLoop ---------------------------
(***************************************************************************)
(* The life of a gateway process (cli/gateway-cli/run-loop.ts) with the    *)
(* restart scheduler (infra/restart.ts) and the command queue, which it    *)
(* drains before a restart and resets after it: this module composes       *)
(* CommandQueue with them.                                                 *)
(*                                                                         *)
(* Two coroutines run here: the for-loop that starts servers (variable     *)
(* loop), and the one that request() begins for a stop or restart signal   *)
(* (variable request).  Each awaits, so that they interleave with each     *)
(* other, with timers, with tasks and with other gateway processes, which  *)
(* compete for the lock file.                                              *)
(*                                                                         *)
(* process.emit("SIGUSR1") calls the listener, so the emission, the        *)
(* authorization and its consumption are one step and the cycle tokens of  *)
(* restart.ts agree whenever another callback runs.  Embedded runs are     *)
(* tasks of the lanes; aborting them is best effort and left to the tasks. *)
(***************************************************************************)
EXTENDS CommandQueue

CONSTANTS
  MayFailStart,         \* whether params.start may throw
  MaxRequests           \* bound on the restart requests

ASSUME RunLoopAssumption ==
  /\ MayFailStart \in BOOLEAN
  /\ MaxRequests \in Nat /\ MaxRequests <= MaxGeneration

VARIABLES
  process,              \* "running" or "exited"
  loop,                 \* where the for-loop is
  isFirstStart,
  server,               \* whether the variable server holds a server
  restartResolver,      \* "none", "armed" (the loop awaits it) or "spent"
  shuttingDown,
  request,              \* the coroutine of request()
  lock,                 \* whether the variable lock holds a handle
  lockFile,             \* owner of the lock file: "none", "self" or "other"
  pendingRestartTimer,  \* a scheduled restart waits for its time
  deferralPoll,         \* a restart waits for the gateway to be idle
  requests,             \* restart requests so far
  startFailed,          \* history: an in-process start has failed
  restartDropped        \* history: since the last iteration a restart has ended
                        \* while the loop did not await its resolver

loopVars == <<process, loop, isFirstStart, server, restartResolver, restartDropped>>
requestVars == <<shuttingDown, request>>
lockVars == <<lock, lockFile>>
scheduleVars == <<pendingRestartTimer, deferralPoll, requests, startFailed>>
runVars == <<loopVars, requestVars, lockVars, scheduleVars>>
gatewayVars == <<vars, runVars>>

NoRequest == [pc |-> "none", restart |-> FALSE, waiters |-> {},
              inFlight |-> {}, hadLock |-> FALSE]

\* acquireGatewayLock succeeded and the signal handlers are installed.
GatewayInit ==
  /\ Init
  /\ process = "running"
  /\ loop = "resumed"
  /\ isFirstStart = TRUE
  /\ server = FALSE
  /\ restartResolver = "none"
  /\ shuttingDown = FALSE
  /\ request = NoRequest
  /\ lock = TRUE
  /\ lockFile = "self"
  /\ pendingRestartTimer = FALSE
  /\ deferralPoll = FALSE
  /\ requests = 0
  /\ startFailed = FALSE
  /\ restartDropped = FALSE

\* A callback of the process may run: none is executing.
Ready == process = "running" /\ Idle /\ request.pc # "marking"
-----------------------------------------------------------------------------
(* The for-loop.                                                           *)

\* Mutant: the lanes are not reset.
onIteration_noReset == UNCHANGED vars

\* createRestartIterationHook: every iteration but the first resets the lanes.
onIteration == IF isFirstStart THEN UNCHANGED vars ELSE resetAllLanes

LoopIterates ==
  /\ Ready
  /\ loop = "resumed"
  /\ onIteration
  /\ loop' = "starting"
  /\ restartDropped' = FALSE
  /\ UNCHANGED <<process, isFirstStart, server, restartResolver, requestVars, lockVars,
                 pendingRestartTimer, deferralPoll, requests, startFailed>>

\* params.start returned; the loop awaits a new promise.
StartSucceeds ==
  /\ Ready
  /\ loop = "starting"
  /\ server' = TRUE
  /\ isFirstStart' = FALSE
  /\ loop' = "waiting"
  /\ restartResolver' = "armed"
  /\ UNCHANGED <<vars, process, restartDropped, requestVars, lockVars, scheduleVars>>

\* params.start threw: the first time the error leaves the loop, later the lock
\* is released and the process stays.
StartFails ==
  /\ MayFailStart
  /\ Ready
  /\ loop = "starting"
  /\ \/ /\ isFirstStart
        /\ loop' = "throwing"
        /\ UNCHANGED <<server, restartResolver>>
     \/ /\ ~isFirstStart /\ lock
        /\ loop' = "failed"
        /\ server' = FALSE
        /\ UNCHANGED restartResolver
     \/ /\ ~isFirstStart /\ ~lock
        /\ loop' = "waiting"
        /\ server' = FALSE
        /\ restartResolver' = "armed"
  /\ startFailed' = TRUE
  /\ UNCHANGED <<vars, process, isFirstStart, restartDropped, requestVars, lockVars,
                 pendingRestartTimer, deferralPoll, requests>>

\* A release removes the file at lockPath, whoever owns it.
releaseLock == lock' = FALSE /\ lockFile' = "none"

FailedStartReleases ==
  /\ Ready
  /\ loop = "failed"
  /\ releaseLock
  /\ loop' = "waiting"
  /\ restartResolver' = "armed"
  /\ UNCHANGED <<vars, process, isFirstStart, server, restartDropped, requestVars,
                 scheduleVars>>

LoopThrows ==
  /\ Ready
  /\ loop = "throwing"
  /\ IF lock THEN releaseLock ELSE UNCHANGED lockVars
  /\ process' = "exited"
  /\ UNCHANGED <<vars, loop, isFirstStart, server, restartResolver, restartDropped,
                 requestVars, scheduleVars>>
-----------------------------------------------------------------------------
(* Signals and the restart scheduler.                                      *)

\* Whether a signal may come now: during a start too, for the handlers are
\* installed before the loop begins, but never between the call of the resolver
\* and the iteration that follows.
SignalPossible == Ready /\ loop # "resumed"

\* The tasks that getActiveTaskCount counts.
Active == UNION {activeTaskIds[l] : l \in Lanes}

\* request("restart"): ignored while another request is handled.
requestRestart ==
  IF shuttingDown
  THEN UNCHANGED <<vars, requestVars>>
  ELSE /\ markGatewayDraining
       /\ shuttingDown' = TRUE
       /\ request' = [NoRequest EXCEPT !.pc = "marking", !.restart = TRUE,
                                          !.inFlight = Active]

requestStop ==
  /\ request' = [NoRequest EXCEPT !.pc = "closing"]
  /\ shuttingDown' = TRUE

\* onSigterm and onSigint.
onSigterm ==
  /\ SignalPossible
  /\ ~shuttingDown
  /\ requestStop
  /\ UNCHANGED <<vars, loopVars, lockVars, scheduleVars>>

\* emitGatewayRestart and onSigusr1.
emitGatewayRestart ==
  /\ pendingRestartTimer' = FALSE
  /\ deferralPoll' = FALSE
  /\ requestRestart

\* A restart is asked for by a method, a tool or an external SIGUSR1; a second
\* one joins the first.
scheduleGatewaySigusr1Restart ==
  /\ Ready
  /\ requests < MaxRequests
  /\ requests' = requests + 1
  /\ pendingRestartTimer' = TRUE
  /\ UNCHANGED <<vars, loopVars, requestVars, lockVars, deferralPoll, startFailed>>

\* Mutant: the timer defers for ever.
RestartTimerFires_dropped ==
  /\ SignalPossible
  /\ pendingRestartTimer
  /\ pendingRestartTimer' = FALSE
  /\ UNCHANGED <<vars, loopVars, requestVars, lockVars, deferralPoll, requests, startFailed>>

\* The timer of a scheduled restart: the signal is emitted at once only if the
\* lanes are empty (and nothing else is pending), else a poll begins.
RestartTimerFires ==
  /\ SignalPossible
  /\ pendingRestartTimer
  /\ \/ /\ \A l \in Lanes : queue[l] = <<>> /\ activeTaskIds[l] = {}
        /\ emitGatewayRestart
     \/ /\ pendingRestartTimer' = FALSE
        /\ deferralPoll' = TRUE
        /\ UNCHANGED <<vars, requestVars>>
  /\ UNCHANGED <<loopVars, lockVars, requests, startFailed>>

\* The poll finds the gateway idle or has waited long enough.
deferGatewayRestartUntilIdle ==
  /\ SignalPossible
  /\ deferralPoll
  /\ emitGatewayRestart
  /\ UNCHANGED <<loopVars, lockVars, requests, startFailed>>
-----------------------------------------------------------------------------
(* The coroutine of request().                                             *)

\* Mutant: nothing is waited for.
RequestDrains_noWait ==
  /\ request.pc = "marking"
  /\ request' = [request EXCEPT !.pc = "closing"]
  /\ UNCHANGED <<vars, shuttingDown, loopVars, lockVars, scheduleVars>>

\* The rest of the callback that marked the gateway as draining.
RequestDrains ==
  /\ request.pc = "marking"
  /\ IF Active = {}
     THEN /\ request' = [request EXCEPT !.pc = "closing"]
          /\ UNCHANGED vars
     ELSE \E w \in Waiters, timed \in BOOLEAN :
            /\ waitForActiveTasks(w, timed)
            /\ request' = [request EXCEPT !.pc = "draining", !.waiters = {w}]
  /\ UNCHANGED <<shuttingDown, loopVars, lockVars, scheduleVars>>

DrainEnds ==
  /\ Ready
  /\ request.pc = "draining"
  /\ \A w \in request.waiters : waiter[w].status \in {"drained", "timeout"}
  /\ request' = [request EXCEPT !.pc = "closing"]
  /\ UNCHANGED <<vars, shuttingDown, loopVars, lockVars, scheduleVars>>

\* server.close returned or threw.
CloseEnds ==
  /\ Ready
  /\ request.pc = "closing"
  /\ server' = FALSE
  /\ request' = [request EXCEPT !.pc = "releasing", !.hadLock = lock]
  /\ UNCHANGED <<vars, shuttingDown, process, loop, isFirstStart, restartResolver,
                 restartDropped, lockVars, scheduleVars>>

\* forceExitTimer.
ForceExit ==
  /\ Ready
  /\ request.pc \in {"draining", "closing"}
  /\ process' = "exited"
  /\ UNCHANGED <<vars, loop, isFirstStart, server, restartResolver, restartDropped,
                 requestVars, lockVars, scheduleVars>>

\* The end of handleRestartAfterServerClose: the resolver is called; it does
\* nothing if the loop does not await it.
RestartReady ==
  /\ shuttingDown' = FALSE
  /\ request' = NoRequest
  /\ IF restartResolver = "armed"
     THEN loop' = "resumed" /\ restartResolver' = "spent" /\ UNCHANGED restartDropped
     ELSE restartDropped' = TRUE /\ UNCHANGED <<loop, restartResolver>>

\* Mutant: a restart does not take the lock again.
ReleaseEnds_noReacquire ==
  /\ Ready
  /\ request.pc = "releasing"
  /\ releaseLock
  /\ RestartReady
  /\ UNCHANGED <<vars, process, isFirstStart, server, scheduleVars>>

\* Mutant: a stop goes the way of a restart.
ReleaseEnds_stopRestarts ==
  /\ Ready
  /\ request.pc = "releasing"
  /\ IF request.hadLock THEN releaseLock ELSE UNCHANGED lockVars
  /\ request' = [request EXCEPT !.pc = "reacquiring"]
  /\ UNCHANGED <<vars, shuttingDown, loopVars, scheduleVars>>

\* releaseLockIfHeld returned.  A stop exits; a restart exits if a new process
\* was spawned or a supervisor starts one, else it goes on in this process and
\* takes the lock again if it had it.
ReleaseEnds ==
  /\ Ready
  /\ request.pc = "releasing"
  /\ IF request.hadLock THEN releaseLock ELSE UNCHANGED lockVars
  /\ \/ /\ process' = "exited"
        /\ UNCHANGED <<requestVars, loop, restartResolver, restartDropped>>
     \/ /\ request.restart /\ request.hadLock
        /\ request' = [request EXCEPT !.pc = "reacquiring"]
        /\ UNCHANGED <<shuttingDown, process, loop, restartResolver, restartDropped>>
     \/ /\ request.restart /\ ~request.hadLock
        /\ RestartReady
        /\ UNCHANGED process
  /\ UNCHANGED <<vars, isFirstStart, server, scheduleVars>>

reacquireLockForInProcessRestart ==
  /\ Ready
  /\ request.pc = "reacquiring"
  /\ \/ /\ lockFile # "other"
        /\ lock' = TRUE
        /\ lockFile' = "self"
        /\ RestartReady
        /\ UNCHANGED process
     \/ /\ process' = "exited"
        /\ UNCHANGED <<lockVars, requestVars, loop, restartResolver, restartDropped>>
  /\ UNCHANGED <<vars, isFirstStart, server, scheduleVars>>

\* Another gateway process takes the lock file when there is none, or gives it up.
OtherGateway ==
  /\ lockFile \in {"none", "other"}
  /\ lockFile' = IF lockFile = "none" THEN "other" ELSE "none"
  /\ UNCHANGED <<vars, loopVars, requestVars, lock, scheduleVars>>
-----------------------------------------------------------------------------
\* The steps of the command queue that are not the run loop's.
QueueStep ==
  /\ process = "running"
  /\ request.pc # "marking"
  /\ \/ Pumping
     \/ \E t \in Tasks : TaskStep(t) \/ Enqueue(t)
     \/ \E w \in Waiters : WaiterTimeout(w)
  /\ UNCHANGED runVars

LoopStep ==
  LoopIterates \/ StartSucceeds \/ StartFails \/ FailedStartReleases \/ LoopThrows

RequestStep ==
  \/ RequestDrains \/ DrainEnds \/ CloseEnds \/ ForceExit
  \/ ReleaseEnds \/ reacquireLockForInProcessRestart

SchedulerStep == RestartTimerFires \/ deferGatewayRestartUntilIdle

GatewayNext ==
  \/ QueueStep
  \/ LoopStep
  \/ RequestStep
  \/ SchedulerStep
  \/ scheduleGatewaySigusr1Restart
  \/ onSigterm
  \/ OtherGateway

GatewaySpec == GatewayInit /\ [][GatewayNext]_gatewayVars

\* Callbacks run to their end, timers fire (forceExitTimer bounds a close that
\* hangs, the wait for tasks has its own), starts return.  Nothing is assumed
\* of the tasks, the signals or the other gateways.
GatewayFairness ==
  /\ WF_gatewayVars(QueueStep /\ Pumping)
  /\ SF_gatewayVars(QueueStep /\ \E w \in Waiters : WaiterTimeout(w))
  /\ SF_gatewayVars(LoopStep)
  /\ SF_gatewayVars(RequestStep)
  /\ SF_gatewayVars(SchedulerStep)

GatewayFairSpec == GatewaySpec /\ GatewayFairness
-----------------------------------------------------------------------------
(* Properties.                                                             *)

\* Types of the run loop's variables.
GatewayTypeOK ==
  /\ TypeOK
  /\ process \in {"running", "exited"}
  /\ loop \in {"resumed", "starting", "failed", "throwing", "waiting"}
  /\ request.pc \in {"none", "marking", "draining", "closing", "releasing", "reacquiring"}
  /\ lockFile \in {"none", "self", "other"}
  /\ shuttingDown <=> request.pc # "none"

Serving == process = "running" /\ server /\ ~shuttingDown

\* New work is refused only while a restart is being handled: once the loop has
\* a server again and no request is handled, markGatewayDraining is undone.  That
\* leaves out a restart that ended before the start during which its signal came:
\* its call of the resolver is lost, and the mark stays until the next restart.
DrainFlagTemporary ==
  Serving /\ loop = "waiting" /\ ~restartDropped => ~gatewayDraining

\* A process that serves holds the gateway lock (run-loop.ts takes it before the
\* first start and again for every in-process restart), as long as no start has
\* failed.
LockHeldWhileServing == Serving /\ ~startFailed => lock /\ lockFile = "self"

\* The same after failed starts too: every restart takes the lock.
LockHeldAfterFailedStart == Serving => lock /\ lockFile = "self"

\* When the server is torn down for a restart, the tasks that were running at
\* the signal have ended, unless the drain timed out.
InFlightFinished ==
  request.restart /\ request.pc \in {"closing", "releasing", "reacquiring"} =>
    \/ \E w \in request.waiters : waiter[w].status = "timeout"
    \/ \A t \in request.inFlight : status[t] # "running"

\* A restart that is scheduled or deferred is eventually followed by a start, or by
\* the exit of the process (for a fresh one): no signal that joins or is ignored for
\* a request under way, failing start or hanging close forgets it.  Only a restart
\* that ends while a server is being started has no effect; one that is pending
\* while the loop waits is honoured whatever was lost before.
RestartHonoured ==
  (pendingRestartTimer \/ deferralPoll) ~>
    \/ loop = "resumed" \/ process = "exited"
    \/ restartDropped /\ loop # "waiting"

\* A stop signal that is accepted ends the process.
StopExits == (request.pc # "none" /\ ~request.restart) ~> process = "exited"
=============================================================================
