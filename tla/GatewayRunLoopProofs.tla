------------------------ MODULE GatewayRunLoopProofs ------------------------
(***************************************************************************)
(* Theorems about GatewayRunLoop.  Every step of the run loop is a step of *)
(* the command queue or leaves it alone, so that what CommandQueueProofs   *)
(* shows holds inside the gateway too; on top of that, the lock that a     *)
(* serving process holds, the drain flag that a restart takes back and the *)
(* tasks that a restart waits for.                                         *)
(***************************************************************************)
EXTENDS GatewayRunLoop, CommandQueueProofs

\* What the handler of a signal adds to the lanes is done by operations of the
\* command queue.
LEMMA QueueSteps == [GatewayNext]_gatewayVars => [Next]_vars
<1> SUFFICES ASSUME [GatewayNext]_gatewayVars PROVE [Next]_vars
  OBVIOUS
<1> USE DEF Next, Caller
<1>1. CASE QueueStep
  BY <1>1 DEF QueueStep
<1>2. CASE LoopStep
  BY <1>2 DEF LoopStep, LoopIterates, onIteration, StartSucceeds, StartFails,
              FailedStartReleases, LoopThrows
<1>3. CASE RequestStep
  BY <1>3 DEF RequestStep, RequestDrains, DrainEnds, CloseEnds, ForceExit, ReleaseEnds,
              reacquireLockForInProcessRestart
<1>4. CASE SchedulerStep
  BY <1>4 DEF SchedulerStep, RestartTimerFires, deferGatewayRestartUntilIdle,
              emitGatewayRestart, requestRestart
<1>5. CASE scheduleGatewaySigusr1Restart \/ onSigterm \/ OtherGateway \/ UNCHANGED gatewayVars
  BY <1>5 DEF scheduleGatewaySigusr1Restart, onSigterm, OtherGateway, gatewayVars
<1> QED BY <1>1, <1>2, <1>3, <1>4, <1>5 DEF GatewayNext

\* The gateway drives its lanes only as command-queue.ts allows: a run of the
\* run loop, seen from the lanes, is a run of CommandQueue.
THEOREM GatewayRunsTheQueue == GatewaySpec => Spec
<1>1. GatewayInit => Init
  BY DEF GatewayInit
<1> QED BY <1>1, QueueSteps, PTL DEF GatewaySpec, Spec

\* Hence no restart, drain or forced reset of the gateway loses a queued task,
\* leaks a slot, strands a lane or misinforms a waiter.
THEOREM LanesSurviveRestarts ==
  GatewaySpec => [](QueueExact /\ SlotsExact /\ WorkConserving /\ WaitersExact)
BY GatewayRunsTheQueue, LanesExact, LanesWorkConserving, WaitersCorrect, PTL

-----------------------------------------------------------------------------
(* The coroutine of request(), the loop and the lock.                      *)

RequestPcs == {"none", "marking", "draining", "closing", "releasing", "reacquiring"}

Request ==
  [pc : RequestPcs, restart : BOOLEAN, waiters : SUBSET Waiters,
   inFlight : SUBSET Tasks, hadLock : BOOLEAN]

\* Types; while a request is handled the loop does not iterate: only the end of
\* the request lets it go on.
RunInv ==
  /\ process \in {"running", "exited"}
  /\ loop \in {"resumed", "starting", "failed", "throwing", "waiting"}
  /\ isFirstStart \in BOOLEAN /\ lock \in BOOLEAN /\ startFailed \in BOOLEAN
  /\ restartResolver \in {"none", "armed", "spent"}
  /\ lockFile \in {"none", "self", "other"}
  /\ request \in Request
  /\ shuttingDown \in BOOLEAN
  /\ shuttingDown <=> request.pc # "none"
  /\ request.pc # "none" => loop # "resumed"
  /\ loop = "waiting" => restartResolver = "armed" /\ ~isFirstStart
  /\ loop = "failed" => ~isFirstStart

\* Between the request that takes the running tasks and the wait for them nothing
\* else of the process runs, and the lanes are at rest.
MarkInv == request.pc = "marking" => Idle /\ request.restart

\* The lock: only a restart gives it up before the process exits, and takes it
\* again before the loop goes on; a failed start gives it up for good.
LockInv ==
  process = "running" /\ ~startFailed =>
    /\ loop # "failed"
    /\ request.pc # "reacquiring" => lock /\ lockFile = "self"
    /\ request.pc = "releasing" => request.hadLock

\* The flag of markGatewayDraining: the restart that set it ends in an iteration that
\* clears it, or is dropped because the loop did not await its resolver.
FlagInv ==
  /\ gatewayDraining => shuttingDown \/ restartDropped \/ loop = "resumed"
  /\ loop = "resumed" /\ isFirstStart => ~gatewayDraining
  /\ restartResolver = "armed" => ~isFirstStart

\* What the end of a restart leaves.
LEMMA RestartReadyRun ==
  ASSUME RunInv, RestartReady, UNCHANGED isFirstStart
  PROVE  /\ loop' \in {"resumed", loop} /\ restartResolver' \in {restartResolver, "spent"}
         /\ request' \in Request /\ request'.pc = "none" /\ shuttingDown' = FALSE
         /\ loop' = "waiting" => restartResolver' = "armed"
         /\ loop = "waiting" => loop' = "resumed"
BY DEF RunInv, RestartReady, NoRequest, Request, RequestPcs

\* What request("restart") does.
LEMMA RequestRestartRun ==
  ASSUME TypeOK, RunInv, requestRestart
  PROVE  \/ shuttingDown /\ UNCHANGED <<vars, requestVars>>
         \/ /\ ~shuttingDown /\ shuttingDown' /\ markGatewayDraining
            /\ request' \in Request /\ request'.pc = "marking" /\ request'.restart
            /\ request'.inFlight = Active /\ request'.waiters = {}
<1>1. Active \subseteq Tasks
  BY DEF TypeOK, Active
<1> QED BY <1>1 DEF requestRestart, NoRequest, Request, RequestPcs

\* The callbacks that call it leave the loop and the lock alone.
LEMMA EmitRun ==
  ASSUME TypeOK, RunInv, RestartTimerFires \/ deferGatewayRestartUntilIdle
  PROVE  /\ SignalPossible /\ UNCHANGED <<loopVars, lockVars, startFailed>>
         /\ UNCHANGED <<vars, requestVars>> \/ requestRestart
BY DEF RestartTimerFires, deferGatewayRestartUntilIdle, emitGatewayRestart

\* Every step keeps the types and the discipline between loop and request.
LEMMA RunStep == TypeOK /\ RunInv /\ MarkInv /\ [GatewayNext]_gatewayVars => RunInv' /\ MarkInv'
<1> SUFFICES ASSUME TypeOK, RunInv, MarkInv, [GatewayNext]_gatewayVars
             PROVE  RunInv' /\ MarkInv'
  OBVIOUS
<1>u. ASSUME UNCHANGED <<loopVars, requestVars, lockVars, startFailed>>,
             request.pc # "marking" \/ UNCHANGED vars
      PROVE  RunInv' /\ MarkInv'
  BY <1>u DEF RunInv, MarkInv, loopVars, requestVars, lockVars, Idle, vars, callVars
<1>s. ASSUME UNCHANGED <<loopVars, lockVars, startFailed>>, SignalPossible, requestRestart
      PROVE  RunInv' /\ MarkInv'
  <2>1. CASE shuttingDown /\ UNCHANGED <<vars, requestVars>>
    BY <1>s, <1>u, <2>1
  <2>2. CASE ~(shuttingDown /\ UNCHANGED <<vars, requestVars>>)
    <3>1. /\ ~shuttingDown /\ shuttingDown' /\ markGatewayDraining
          /\ request' \in Request /\ request'.pc = "marking" /\ request'.restart
      BY <1>s, <2>2, RequestRestartRun
    <3>2. Idle'
      BY <3>1 DEF markGatewayDraining, Idle, callVars
    <3> QED BY <1>s, <3>1, <3>2 DEF RunInv, MarkInv, SignalPossible, loopVars, lockVars
  <2> QED BY <2>1, <2>2
<1>1. CASE QueueStep
  BY <1>1, <1>u DEF QueueStep, runVars, scheduleVars
<1>2. CASE LoopStep
  <2>1. Ready /\ request' = request /\ shuttingDown' = shuttingDown
    BY <1>2 DEF LoopStep, LoopIterates, StartSucceeds, StartFails, FailedStartReleases,
                LoopThrows, requestVars
  <2>2. MarkInv'
    BY <2>1 DEF Ready, MarkInv
  <2>3. CASE LoopIterates
    <3>1. /\ loop = "resumed" /\ loop' = "starting"
          /\ UNCHANGED <<process, isFirstStart, restartResolver, lock, lockFile, startFailed>>
      BY <2>3 DEF LoopIterates, lockVars
    <3> QED BY <2>1, <2>2, <3>1 DEF RunInv
  <2>4. CASE StartSucceeds
    <3>1. /\ loop' = "waiting" /\ isFirstStart' = FALSE /\ restartResolver' = "armed"
          /\ UNCHANGED <<process, lock, lockFile, startFailed>>
      BY <2>4 DEF StartSucceeds, lockVars, scheduleVars
    <3> QED BY <2>1, <2>2, <3>1 DEF RunInv
  <2>5. CASE StartFails
    <3>1. /\ \/ isFirstStart /\ loop' = "throwing" /\ UNCHANGED restartResolver
             \/ ~isFirstStart /\ loop' = "failed" /\ UNCHANGED restartResolver
             \/ ~isFirstStart /\ loop' = "waiting" /\ restartResolver' = "armed"
          /\ startFailed' = TRUE
          /\ UNCHANGED <<process, isFirstStart, lock, lockFile>>
      BY <2>5 DEF StartFails, lockVars
    <3> QED BY <2>1, <2>2, <3>1 DEF RunInv
  <2>6. CASE FailedStartReleases
    <3>1. /\ loop = "failed" /\ loop' = "waiting" /\ restartResolver' = "armed"
          /\ lock' = FALSE /\ lockFile' = "none"
          /\ UNCHANGED <<process, isFirstStart, startFailed>>
      BY <2>6 DEF FailedStartReleases, releaseLock, scheduleVars
    <3> QED BY <2>1, <2>2, <3>1 DEF RunInv
  <2>7. CASE LoopThrows
    <3>1. /\ \/ lock' = FALSE /\ lockFile' = "none"
             \/ UNCHANGED <<lock, lockFile>>
          /\ process' = "exited"
          /\ UNCHANGED <<loop, isFirstStart, restartResolver, startFailed>>
      BY <2>7 DEF LoopThrows, releaseLock, lockVars, scheduleVars
    <3> QED BY <2>1, <2>2, <3>1 DEF RunInv
  <2> QED BY <1>2, <2>3, <2>4, <2>5, <2>6, <2>7 DEF LoopStep
<1>3. CASE RequestDrains
  <2>1. request.pc = "marking" /\ UNCHANGED <<shuttingDown, loopVars, lockVars, scheduleVars>>
    BY <1>3 DEF RequestDrains
  <2>2. request' \in Request /\ request'.pc \in {"closing", "draining"}
    <3>1. CASE Active = {}
      BY <1>3, <3>1 DEF RequestDrains, RunInv, Request, RequestPcs
    <3>2. CASE Active # {}
      <4>1. PICK w \in Waiters : request' = [request EXCEPT !.pc = "draining", !.waiters = {w}]
        BY <1>3, <3>2 DEF RequestDrains
      <4> QED BY <4>1 DEF RunInv, Request, RequestPcs
    <3> QED BY <3>1, <3>2
  <2> QED BY <2>1, <2>2 DEF RunInv, MarkInv, loopVars, lockVars, scheduleVars
<1>4. CASE DrainEnds
  BY <1>4 DEF DrainEnds, RunInv, MarkInv, Request, RequestPcs, loopVars, lockVars, scheduleVars
<1>5. CASE CloseEnds
  BY <1>5 DEF CloseEnds, RunInv, MarkInv, Request, RequestPcs, lockVars, scheduleVars
<1>6. CASE ForceExit
  BY <1>6 DEF ForceExit, Ready, RunInv, MarkInv, requestVars, lockVars, scheduleVars
<1>7. CASE ReleaseEnds
  <2>1. /\ Ready /\ request.pc = "releasing"
        /\ lock' \in BOOLEAN /\ lockFile' \in {"none", "self", "other"}
        /\ UNCHANGED <<vars, isFirstStart, server, scheduleVars>>
    BY <1>7 DEF ReleaseEnds, releaseLock, lockVars, RunInv
  <2>2. CASE process' = "exited" /\ UNCHANGED <<requestVars, loop, restartResolver>>
    BY <2>1, <2>2 DEF RunInv, MarkInv, requestVars, scheduleVars
  <2>3. CASE /\ request' = [request EXCEPT !.pc = "reacquiring"]
             /\ UNCHANGED <<shuttingDown, process, loop, restartResolver>>
    BY <2>1, <2>3 DEF RunInv, MarkInv, scheduleVars, Request, RequestPcs
  <2>4. CASE RestartReady /\ UNCHANGED process
    <3>1. /\ loop' \in {"resumed", loop} /\ restartResolver' \in {restartResolver, "spent"}
          /\ request' \in Request /\ request'.pc = "none" /\ shuttingDown' = FALSE
          /\ loop' = "waiting" => restartResolver' = "armed"
      BY <2>1, <2>4, RestartReadyRun
    <3> QED BY <2>1, <2>4, <3>1 DEF RunInv, MarkInv, scheduleVars
  <2> QED BY <1>7, <2>2, <2>3, <2>4 DEF ReleaseEnds
<1>8. CASE reacquireLockForInProcessRestart
  <2>1. /\ Ready /\ request.pc = "reacquiring"
        /\ lock' \in BOOLEAN /\ lockFile' \in {"none", "self", "other"}
        /\ UNCHANGED <<vars, isFirstStart, server, scheduleVars>>
    BY <1>8 DEF reacquireLockForInProcessRestart, lockVars, RunInv
  <2>2. CASE process' = "exited" /\ UNCHANGED <<requestVars, loop, restartResolver>>
    BY <2>1, <2>2 DEF RunInv, MarkInv, requestVars, scheduleVars
  <2>3. CASE RestartReady /\ UNCHANGED process
    <3>1. /\ loop' \in {"resumed", loop} /\ restartResolver' \in {restartResolver, "spent"}
          /\ request' \in Request /\ request'.pc = "none" /\ shuttingDown' = FALSE
          /\ loop' = "waiting" => restartResolver' = "armed"
      BY <2>1, <2>3, RestartReadyRun
    <3> QED BY <2>1, <2>3, <3>1 DEF RunInv, MarkInv, scheduleVars
  <2> QED BY <1>8, <2>2, <2>3 DEF reacquireLockForInProcessRestart
<1>9. CASE SchedulerStep
  <2>1. /\ SignalPossible /\ UNCHANGED <<loopVars, lockVars, startFailed>>
        /\ UNCHANGED <<vars, requestVars>> \/ requestRestart
    BY <1>9, EmitRun DEF SchedulerStep
  <2> QED BY <1>u, <1>s, <2>1
<1>10. CASE scheduleGatewaySigusr1Restart
  BY <1>10, <1>u DEF scheduleGatewaySigusr1Restart
<1>11. CASE onSigterm
  BY <1>11 DEF onSigterm, requestStop, SignalPossible, RunInv, MarkInv, NoRequest, Request,
     RequestPcs, loopVars, lockVars, scheduleVars
<1>12. CASE OtherGateway
  BY <1>12 DEF OtherGateway, RunInv, MarkInv, loopVars, requestVars, scheduleVars, Idle, vars,
     callVars
<1>13. CASE UNCHANGED gatewayVars
  BY <1>13, <1>u DEF gatewayVars, runVars, scheduleVars
<1> QED
  BY <1>1, <1>2, <1>3, <1>4, <1>5, <1>6, <1>7, <1>8, <1>9, <1>10, <1>11, <1>12, <1>13
     DEF GatewayNext, RequestStep

\* Every step keeps the lock as LockInv says.
LEMMA LockStep ==
  TypeOK /\ RunInv /\ LockInv /\ [GatewayNext]_gatewayVars => LockInv'
<1> SUFFICES ASSUME TypeOK, RunInv, LockInv, [GatewayNext]_gatewayVars PROVE LockInv'
  OBVIOUS
<1>u. ASSUME UNCHANGED <<process, startFailed, loop, lock, lockFile>>,
             request'.pc \notin {"releasing", "reacquiring"}, request.pc # "reacquiring"
      PROVE  LockInv'
  BY <1>u DEF LockInv
<1>v. ASSUME UNCHANGED <<process, startFailed, loop, lock, lockFile, request>> PROVE LockInv'
  BY <1>v DEF LockInv
<1>1. CASE QueueStep
  BY <1>1, <1>v DEF QueueStep, runVars, loopVars, requestVars, lockVars, scheduleVars
<1>2. CASE LoopIterates \/ StartSucceeds
  <2>1. /\ UNCHANGED <<process, startFailed, lock, lockFile, request>>
        /\ loop' \in {"starting", "waiting"}
    BY <1>2 DEF LoopIterates, StartSucceeds, requestVars, lockVars, scheduleVars
  <2> QED BY <2>1 DEF LockInv
<1>3. CASE StartFails
  BY <1>3 DEF StartFails, LockInv
<1>4. CASE FailedStartReleases
  BY <1>4 DEF FailedStartReleases, LockInv, Ready, scheduleVars
<1>5. CASE LoopThrows
  BY <1>5 DEF LoopThrows, LockInv
<1>6. CASE RequestDrains
  <2>1. /\ request.pc = "marking" /\ UNCHANGED <<process, startFailed, loop, lock, lockFile>>
    BY <1>6 DEF RequestDrains, loopVars, lockVars, scheduleVars
  <2>2. request'.pc \in {"closing", "draining"}
    BY <1>6 DEF RequestDrains, RunInv, Request
  <2> QED BY <1>u, <2>1, <2>2
<1>7. CASE DrainEnds
  BY <1>7, <1>u DEF DrainEnds, RunInv, Request, loopVars, lockVars, scheduleVars
<1>8. CASE CloseEnds
  <2>1. /\ request.pc = "closing" /\ UNCHANGED <<process, startFailed, loop, lock, lockFile>>
        /\ request'.pc = "releasing" /\ request'.hadLock = lock
    BY <1>8 DEF CloseEnds, RunInv, Request, lockVars, scheduleVars
  <2> QED BY <2>1 DEF LockInv
<1>9. CASE ForceExit
  BY <1>9 DEF ForceExit, LockInv
<1>10. CASE ReleaseEnds
  <2>1. request.pc = "releasing" /\ Ready /\ UNCHANGED startFailed
    BY <1>10 DEF ReleaseEnds, scheduleVars
  <2>2. CASE process' = "exited"
    BY <2>2 DEF LockInv
  <2>3. CASE request' = [request EXCEPT !.pc = "reacquiring"] /\ UNCHANGED <<loop, process>>
    BY <2>1, <2>3 DEF LockInv, RunInv, Request
  <2>4. CASE ~request.hadLock /\ UNCHANGED process
    BY <2>1, <2>4 DEF LockInv, Ready
  <2> QED BY <1>10, <2>2, <2>3, <2>4 DEF ReleaseEnds
<1>11. CASE reacquireLockForInProcessRestart
  <2>1. UNCHANGED startFailed /\ Ready
    BY <1>11 DEF reacquireLockForInProcessRestart, scheduleVars
  <2>2. CASE process' = "exited"
    BY <2>2 DEF LockInv
  <2>3. CASE lock' = TRUE /\ lockFile' = "self" /\ RestartReady
    <3>1. loop' \in {"resumed", loop} /\ request'.pc = "none"
      BY <2>3 DEF RestartReady, NoRequest
    <3> QED BY <2>1, <2>3, <3>1 DEF LockInv, Ready
  <2> QED BY <1>11, <2>2, <2>3 DEF reacquireLockForInProcessRestart
<1>12. CASE SchedulerStep
  <2>1. /\ Ready /\ UNCHANGED <<loopVars, lockVars, startFailed>>
        /\ UNCHANGED requestVars \/ requestRestart
    BY <1>12, EmitRun DEF SchedulerStep, SignalPossible
  <2>2. CASE UNCHANGED requestVars
    BY <1>v, <2>1, <2>2 DEF loopVars, requestVars, lockVars
  <2>3. CASE ~shuttingDown /\ requestRestart
    <3>1. request'.pc = "marking"
      BY <2>3, RequestRestartRun
    <3>2. request.pc = "none"
      BY <2>3 DEF RunInv
    <3> QED BY <1>u, <2>1, <3>1, <3>2 DEF loopVars, lockVars
  <2> QED BY <2>1, <2>2, <2>3 DEF requestRestart
<1>13. CASE scheduleGatewaySigusr1Restart
  BY <1>13, <1>v DEF scheduleGatewaySigusr1Restart, loopVars, requestVars, lockVars
<1>14. CASE onSigterm
  BY <1>14, <1>u DEF onSigterm, requestStop, NoRequest, RunInv, loopVars, lockVars, scheduleVars
<1>15. CASE OtherGateway
  <2>1. lockFile # "self" /\ UNCHANGED <<process, startFailed, loop, request>>
    BY <1>15 DEF OtherGateway, loopVars, requestVars, scheduleVars
  <2>2. UNCHANGED lock
    BY <1>15 DEF OtherGateway
  <2> QED BY <2>1, <2>2 DEF LockInv
<1>16. CASE UNCHANGED gatewayVars
  BY <1>16, <1>v DEF gatewayVars, runVars, loopVars, requestVars, lockVars, scheduleVars
<1> QED
  BY <1>1, <1>2, <1>3, <1>4, <1>5, <1>6, <1>7, <1>8, <1>9, <1>10, <1>11, <1>12, <1>13,
     <1>14, <1>15, <1>16 DEF GatewayNext, LoopStep, RequestStep

\* What holds from the start.
LEMMA InitRun == GatewayInit => TypeOK /\ RunInv /\ MarkInv /\ LockInv /\ FlagInv
<1> SUFFICES ASSUME GatewayInit PROVE TypeOK /\ RunInv /\ MarkInv /\ LockInv /\ FlagInv
  OBVIOUS
<1>1. TypeOK /\ gatewayDraining = FALSE
  BY InitType DEF GatewayInit, Init
<1>2. request \in Request /\ request.pc = "none"
  BY DEF GatewayInit, NoRequest, Request, RequestPcs
<1> QED BY <1>1, <1>2 DEF GatewayInit, RunInv, MarkInv, LockInv, FlagInv

\* A process that serves holds the gateway lock, through every in-process restart
\* and whatever the other gateways do with the lock file, until a start has failed.
THEOREM LockHeld == GatewaySpec => []LockHeldWhileServing
<1> DEFINE Inv == TypeOK /\ RunInv /\ MarkInv /\ LockInv
<1>1. Inv /\ [GatewayNext]_gatewayVars => Inv'
  BY QueueSteps, TypeStep, RunStep, LockStep
<1>2. Inv => LockHeldWhileServing
  <2> SUFFICES ASSUME Inv, Serving, ~startFailed PROVE lock /\ lockFile = "self"
    BY DEF LockHeldWhileServing
  <2>1. process = "running" /\ request.pc = "none"
    BY DEF Serving, RunInv
  <2> QED BY <2>1 DEF LockInv
<1> QED BY <1>1, <1>2, InitRun, PTL DEF GatewaySpec

\* The variables of the run loop have the types run-loop.ts gives them.
THEOREM RunLoopTypeCorrect == GatewaySpec => []GatewayTypeOK
<1> DEFINE Inv == TypeOK /\ RunInv /\ MarkInv
<1>1. Inv /\ [GatewayNext]_gatewayVars => Inv'
  BY QueueSteps, TypeStep, RunStep
<1>2. Inv => GatewayTypeOK
  BY DEF RunInv, GatewayTypeOK, Request, RequestPcs
<1> QED BY <1>1, <1>2, InitRun, PTL DEF GatewaySpec

\* The steps that are not a mark or a reset leave the drain flag alone.
LEMMA QueueStepFlag == QueueStep => UNCHANGED <<gatewayDraining, generation, runVars>>
BY DEF QueueStep, Pumping, PumpStart, PumpEnd, TaskYields, TaskEnqueuesInner, TaskThrows,
       ResetDrains, ResetEnds, TaskStep, EnqueueInner, TaskSettles, Enqueue, WaiterTimeout,
       enqueueCommandInLane, completeTask, laneVars

\* Every step keeps the drain flag temporary.
LEMMA FlagStep == TypeOK /\ RunInv /\ FlagInv /\ [GatewayNext]_gatewayVars => FlagInv'
<1> SUFFICES ASSUME TypeOK, RunInv, FlagInv, [GatewayNext]_gatewayVars PROVE FlagInv'
  OBVIOUS
<1>u. ASSUME UNCHANGED <<gatewayDraining, shuttingDown, loop, isFirstStart,
                         restartResolver, restartDropped>>
      PROVE  FlagInv'
  BY <1>u DEF FlagInv
<1>s. ASSUME UNCHANGED loopVars, loop # "resumed", shuttingDown' = TRUE PROVE FlagInv'
  BY <1>s DEF FlagInv, loopVars
<1>r. ASSUME RestartReady, UNCHANGED <<gatewayDraining, isFirstStart>>, request.pc # "none"
      PROVE  FlagInv'
  <2>1. loop # "resumed"
    BY <1>r DEF RunInv
  <2>2. CASE restartResolver = "armed"
    <3>1. ~isFirstStart /\ loop' = "resumed"
      BY <1>r, <2>2 DEF RestartReady, FlagInv
    <3> QED BY <1>r, <3>1 DEF FlagInv
  <2>3. CASE restartResolver # "armed"
    BY <1>r, <2>1, <2>3 DEF RestartReady, FlagInv
  <2> QED BY <2>2, <2>3
<1>1. CASE QueueStep
  BY <1>1, <1>u, QueueStepFlag DEF runVars, loopVars, requestVars
<1>2. CASE LoopIterates
  <2>1. /\ loop = "resumed" /\ loop' = "starting"
        /\ UNCHANGED <<isFirstStart, restartResolver>>
    BY <1>2 DEF LoopIterates
  <2>2. ~gatewayDraining'
    <3>1. CASE isFirstStart
      BY <1>2, <2>1, <3>1 DEF LoopIterates, onIteration, vars, FlagInv
    <3>2. CASE ~isFirstStart
      BY <1>2, <3>2 DEF LoopIterates, onIteration, resetAllLanes
    <3> QED BY <3>1, <3>2
  <2> QED BY <2>1, <2>2 DEF FlagInv
<1>3. CASE StartSucceeds \/ StartFails \/ FailedStartReleases
  <2>1. /\ loop \in {"starting", "failed"} /\ loop' # "resumed"
        /\ UNCHANGED <<gatewayDraining, shuttingDown, restartDropped>>
    BY <1>3 DEF StartSucceeds, StartFails, FailedStartReleases, vars, requestVars
  <2>2. restartResolver' = "armed" => ~isFirstStart'
    BY <1>3 DEF StartSucceeds, StartFails, FailedStartReleases, RunInv, FlagInv
  <2> QED BY <2>1, <2>2 DEF FlagInv
<1>4. CASE LoopThrows
  BY <1>4, <1>u DEF LoopThrows, vars, requestVars
<1>5. CASE RequestDrains
  <2>1. UNCHANGED <<gatewayDraining, shuttingDown, loopVars>>
    BY <1>5 DEF RequestDrains, vars, waitForActiveTasks
  <2> QED BY <1>u, <2>1 DEF loopVars
<1>6. CASE DrainEnds \/ CloseEnds \/ ForceExit
  BY <1>6, <1>u DEF DrainEnds, CloseEnds, ForceExit, vars, loopVars, requestVars
<1>7. CASE ReleaseEnds
  <2>1. UNCHANGED <<gatewayDraining, isFirstStart>> /\ request.pc # "none"
    BY <1>7 DEF ReleaseEnds, vars
  <2>2. CASE UNCHANGED <<shuttingDown, loop, restartResolver, restartDropped>>
    BY <1>u, <2>1, <2>2
  <2>3. CASE RestartReady
    BY <1>r, <2>1, <2>3
  <2> QED BY <1>7, <2>2, <2>3 DEF ReleaseEnds, requestVars
<1>8. CASE reacquireLockForInProcessRestart
  <2>1. UNCHANGED <<gatewayDraining, isFirstStart>> /\ request.pc # "none"
    BY <1>8 DEF reacquireLockForInProcessRestart, vars
  <2>2. CASE UNCHANGED <<shuttingDown, loop, restartResolver, restartDropped>>
    BY <1>u, <2>1, <2>2
  <2>3. CASE RestartReady
    BY <1>r, <2>1, <2>3
  <2> QED BY <1>8, <2>2, <2>3 DEF reacquireLockForInProcessRestart, requestVars
<1>9. CASE SchedulerStep
  <2>1. /\ loop # "resumed" /\ UNCHANGED loopVars
        /\ UNCHANGED <<vars, requestVars>> \/ requestRestart
    BY <1>9, EmitRun DEF SchedulerStep, SignalPossible
  <2>2. CASE UNCHANGED <<vars, requestVars>>
    BY <1>u, <2>1, <2>2 DEF vars, loopVars, requestVars
  <2>3. CASE ~shuttingDown /\ requestRestart
    BY <1>s, <2>1, <2>3 DEF requestRestart
  <2> QED BY <2>1, <2>2, <2>3 DEF requestRestart
<1>10. CASE scheduleGatewaySigusr1Restart \/ OtherGateway
  BY <1>10, <1>u DEF scheduleGatewaySigusr1Restart, OtherGateway, vars, loopVars, requestVars
<1>11. CASE onSigterm
  BY <1>11, <1>s DEF onSigterm, SignalPossible, requestStop
<1>12. CASE UNCHANGED gatewayVars
  BY <1>12, <1>u DEF gatewayVars, vars, runVars, loopVars, requestVars
<1> QED
  BY <1>1, <1>2, <1>3, <1>4, <1>5, <1>6, <1>7, <1>8, <1>9, <1>10, <1>11, <1>12
     DEF GatewayNext, LoopStep, RequestStep

\* A gateway that serves refuses no work, whenever the signals came: the restart
\* that marked it as draining has undone that, unless it ended while the loop did
\* not await its resolver, which the next iteration makes good.
THEOREM DrainFlagUndone == GatewaySpec => []DrainFlagTemporary
<1> DEFINE Inv == TypeOK /\ RunInv /\ MarkInv /\ FlagInv
<1>1. Inv /\ [GatewayNext]_gatewayVars => Inv'
  BY QueueSteps, TypeStep, RunStep, FlagStep
<1>2. Inv => DrainFlagTemporary
  BY DEF FlagInv, Serving, DrainFlagTemporary
<1> QED BY <1>1, <1>2, InitRun, PTL DEF GatewaySpec

-----------------------------------------------------------------------------
(* The tasks that a restart waits for.                                     *)

\* A task that has been started, and a waiter that has been called.
Started(t) == status[t] \notin {"idle", "queued"}
Called(w) == waiter[w].status \in {"waiting", "drained", "timeout"}

\* A started task is never started again, in whatever generation.
LEMMA TasksGoOn ==
  ASSUME TaskInv, [Next]_vars, NEW t \in Tasks, Started(t)
  PROVE  Started(t)' /\ taskGeneration'[t] = taskGeneration[t]
<1>t. TypeOK
  BY DEF TaskInv
<1>e. ASSUME NEW u \in Tasks, enqueueCommandInLane(u)
      PROVE  Started(t)' /\ taskGeneration'[t] = taskGeneration[t]
  <2>1. u # t /\ UNCHANGED taskGeneration
    BY <1>e DEF enqueueCommandInLane, Started
  <2>2. status'[t] = status[t]
    BY <1>t, <1>e, <2>1 DEF enqueueCommandInLane, TypeOK
  <2> QED BY <2>1, <2>2 DEF Started
<1>c. ASSUME NEW u \in Tasks, NEW outcome \in Settled, completeTask(u, outcome)
      PROVE  Started(t)' /\ taskGeneration'[t] = taskGeneration[t]
  <2>1. status'[t] \in {status[t], outcome} /\ UNCHANGED taskGeneration
    BY <1>t, <1>c DEF completeTask, TypeOK
  <2> QED BY <2>1 DEF Started, Settled
<1>u. ASSUME UNCHANGED <<status, taskGeneration>>
      PROVE  Started(t)' /\ taskGeneration'[t] = taskGeneration[t]
  BY <1>u DEF Started
<1>1. CASE PumpStart
  <2> DEFINE u == Head(queue[Top])
  <2>1. Top \in Lanes /\ queue[Top] # <<>> /\ u \in Tasks
    BY <1>1, PumpStartTask DEF PumpStart, HasSlot
  <2>2. queue[Top] \in Seq(Tasks)
    BY <1>t, <2>1 DEF TypeOK
  <2>3. u = queue[Top][1] /\ 1 \in 1..Len(queue[Top])
    BY <2>1, <2>2, TailElements
  <2>4. status[u] = "queued"
    BY <2>1, <2>3 DEF TaskInv, QueueExact
  <2>5. u # t
    BY <2>4 DEF Started
  <2>6. /\ status' = [status EXCEPT ![u] = "running"]
        /\ taskGeneration' = [taskGeneration EXCEPT ![u] = generation[Top]]
    BY <1>1 DEF PumpStart
  <2> HIDE DEF u
  <2> QED BY <1>t, <2>5, <2>6 DEF Started, TypeOK
<1>2. CASE PumpEnd \/ TaskYields \/ ResetDrains \/ ResetEnds
  BY <1>2, <1>u DEF PumpEnd, TaskYields, ResetDrains, ResetEnds, taskVars
<1>3. CASE TaskEnqueuesInner
  BY <1>3, <1>e, CommandQueueAssumption DEF TaskEnqueuesInner
<1>4. CASE TaskThrows
  BY <1>4, <1>t, <1>c DEF TaskThrows, TypeOK, Settled
<1>5. ASSUME NEW u \in Tasks, TaskStep(u) \/ Enqueue(u)
      PROVE  Started(t)' /\ taskGeneration'[t] = taskGeneration[t]
  <2>1. CASE EnqueueInner(u)
    BY <2>1, <1>e, CommandQueueAssumption DEF EnqueueInner
  <2>2. CASE TaskSettles(u)
    <3>1. Outcomes(u) \subseteq Settled
      BY DEF Outcomes, Settled
    <3> QED BY <2>2, <3>1, <1>c DEF TaskSettles
  <2>3. CASE Enqueue(u)
    BY <2>3, <1>e DEF Enqueue
  <2> QED BY <1>5, <2>1, <2>2, <2>3 DEF TaskStep
<1>6. ASSUME NEW l \in Lanes, clearCommandLane(l)
      PROVE  Started(t)' /\ taskGeneration'[t] = taskGeneration[t]
  BY <1>6 DEF clearCommandLane, Started
<1>7. CASE \/ markGatewayDraining \/ resetAllLanes
           \/ \E l \in Lanes, n \in ConcurrencyInputs : setCommandLaneConcurrency(l, n)
           \/ \E w \in Waiters : WaiterTimeout(w) \/ \E b \in BOOLEAN : waitForActiveTasks(w, b)
  BY <1>7, <1>u DEF markGatewayDraining, resetAllLanes, setCommandLaneConcurrency,
     WaiterTimeout, waitForActiveTasks, taskVars
<1>8. CASE UNCHANGED vars
  BY <1>8, <1>u DEF vars, taskVars
<1> QED
  BY <1>1, <1>2, <1>3, <1>4, <1>5, <1>6, <1>7, <1>8 DEF Next, Pumping, Caller

\* A waiter that has been called keeps its tasks, and its answer once it has one.
LEMMA WaitersGoOn ==
  ASSUME TypeOK, [Next]_vars, NEW w \in Waiters, Called(w)
  PROVE  /\ Called(w)' /\ waiter'[w].ids = waiter[w].ids
         /\ waiter[w].status # "waiting" => waiter'[w].status = waiter[w].status
<1>w. waiter[w] \in Waiter /\ waiter \in [Waiters -> Waiter]
  BY DEF TypeOK
<1> DEFINE Goal == /\ Called(w)' /\ waiter'[w].ids = waiter[w].ids
                   /\ waiter[w].status # "waiting" => waiter'[w].status = waiter[w].status
<1>u. ASSUME UNCHANGED waiter PROVE Goal
  BY <1>u DEF Called
<1>n. ASSUME NEW active, waiter' = notifyActiveTaskWaiters(active) PROVE Goal
  <2>1. waiter'[w] \in {waiter[w], [waiter[w] EXCEPT !.status = "drained"]}
        /\ (waiter'[w] # waiter[w] => waiter[w].status = "waiting")
    BY <1>n DEF notifyActiveTaskWaiters
  <2> QED BY <1>w, <2>1 DEF Called, Waiter
<1>s. ASSUME NEW v \in Waiters, NEW x, waiter' = [waiter EXCEPT ![v] = x], v # w PROVE Goal
  <2>1. waiter'[w] = waiter[w]
    BY <1>s, <1>w
  <2> QED BY <2>1 DEF Called
<1>c. ASSUME NEW t, NEW outcome, completeTask(t, outcome) PROVE Goal
  BY <1>c, <1>u, <1>n DEF completeTask
<1>1. CASE Pumping
  BY <1>1, <1>u, <1>n, <1>c DEF Pumping, PumpStart, PumpEnd, TaskYields, TaskEnqueuesInner,
     TaskThrows, ResetDrains, ResetEnds, enqueueCommandInLane
<1>2. ASSUME NEW t \in Tasks, TaskStep(t) \/ Enqueue(t) PROVE Goal
  BY <1>2, <1>u, <1>c DEF TaskStep, EnqueueInner, TaskSettles, Enqueue, enqueueCommandInLane
<1>3. CASE \/ markGatewayDraining \/ resetAllLanes
           \/ \E l \in Lanes : clearCommandLane(l)
           \/ \E l \in Lanes, n \in ConcurrencyInputs : setCommandLaneConcurrency(l, n)
           \/ UNCHANGED vars
  BY <1>3, <1>u DEF markGatewayDraining, resetAllLanes, clearCommandLane,
     setCommandLaneConcurrency, vars
<1>4. ASSUME NEW v \in Waiters, WaiterTimeout(v) PROVE Goal
  <2>1. CASE v = w
    <3>1. waiter'[w] = [waiter[w] EXCEPT !.status = "timeout"] /\ waiter[w].status = "waiting"
      BY <1>4, <2>1, <1>w DEF WaiterTimeout
    <3> QED BY <3>1, <1>w DEF Called, Waiter
  <2>2. CASE v # w
    <3>1. waiter' = [waiter EXCEPT ![v] = [waiter[v] EXCEPT !.status = "timeout"]]
      BY <1>4, <1>w DEF WaiterTimeout
    <3> QED BY <2>2, <3>1, <1>s
  <2> QED BY <2>1, <2>2
<1>5. ASSUME NEW v \in Waiters, NEW timed \in BOOLEAN, waitForActiveTasks(v, timed) PROVE Goal
  <2>1. v # w
    BY <1>5 DEF waitForActiveTasks, Called
  <2> QED BY <1>5, <2>1, <1>s DEF waitForActiveTasks
<1> QED BY <1>1, <1>2, <1>3, <1>4, <1>5 DEF Next, Caller

\* The tasks a restart took at the signal, which belong to the present generation
\* of their lanes, and the waiter that watches them.  The drain is over only when
\* that waiter has answered.
RestartInv ==
  request.restart /\ request.pc # "none" =>
    /\ \A t \in request.inFlight :
         Started(t) /\ taskGeneration[t] = generation[LaneOf[t]]
    /\ request.pc = "marking" => request.inFlight = Active
    /\ request.pc # "marking" =>
         \/ request.inFlight = {}
         \/ \E w \in request.waiters :
              /\ Called(w) /\ waiter[w].ids = request.inFlight
              /\ request.pc # "draining" => waiter[w].status # "waiting"

\* A request only begins or goes on, or leaves everything but its place.
LEMMA RestartGoesOn ==
  ASSUME TaskInv, RunInv, RestartInv, [Next]_vars, UNCHANGED generation,
         request.pc # "marking", request'.pc # "marking",
         request'.pc = "none" \/
           /\ request.pc # "none"
           /\ request'.restart = request.restart
           /\ request'.inFlight = request.inFlight /\ request'.waiters = request.waiters
           /\ request'.pc = "draining" => request.pc = "draining"
           /\ request.pc = "draining" /\ request'.pc # "draining" =>
                \A w \in request.waiters : waiter[w].status # "waiting"
  PROVE  RestartInv'
<1> SUFFICES ASSUME request'.restart, request'.pc # "none"
             PROVE  /\ \A t \in request.inFlight :
                         Started(t)' /\ taskGeneration'[t] = generation'[LaneOf[t]]
                    /\ \/ request.inFlight = {}
                       \/ \E w \in request.waiters :
                            /\ Called(w)' /\ waiter'[w].ids = request.inFlight
                            /\ request'.pc # "draining" => waiter'[w].status # "waiting"
  BY DEF RestartInv
<1>1. request.inFlight \subseteq Tasks /\ request.waiters \subseteq Waiters
  BY DEF RunInv, Request
<1>2. ASSUME NEW t \in request.inFlight
      PROVE  Started(t)' /\ taskGeneration'[t] = generation'[LaneOf[t]]
  <2>1. t \in Tasks /\ Started(t) /\ taskGeneration[t] = generation[LaneOf[t]]
    BY <1>1 DEF RestartInv
  <2> QED BY <2>1, TasksGoOn
<1>3. ASSUME request.inFlight # {}
      PROVE  \E w \in request.waiters :
               /\ Called(w)' /\ waiter'[w].ids = request.inFlight
               /\ request'.pc # "draining" => waiter'[w].status # "waiting"
  <2>1. PICK w \in request.waiters :
          /\ Called(w) /\ waiter[w].ids = request.inFlight
          /\ request.pc # "draining" => waiter[w].status # "waiting"
    BY <1>3 DEF RestartInv
  <2>2. /\ Called(w)' /\ waiter'[w].ids = waiter[w].ids
        /\ waiter[w].status # "waiting" => waiter'[w].status = waiter[w].status
    BY <1>1, <2>1, WaitersGoOn DEF TaskInv
  <2>3. request'.pc # "draining" => waiter[w].status # "waiting"
    BY <2>1
  <2> QED BY <2>1, <2>2, <2>3
<1> QED BY <1>2, <1>3

\* Every step keeps what a restart knows of its tasks.
LEMMA RestartStep ==
  TaskInv /\ RunInv /\ MarkInv /\ RestartInv /\ [GatewayNext]_gatewayVars => RestartInv'
<1> SUFFICES ASSUME TaskInv, RunInv, MarkInv, RestartInv, [GatewayNext]_gatewayVars
             PROVE  RestartInv'
  OBVIOUS
<1>t. TypeOK /\ [Next]_vars
  BY QueueSteps DEF TaskInv
<1>u. ASSUME UNCHANGED <<request, generation>>, request.pc # "marking" PROVE RestartInv'
  <2>1. CASE request.pc = "none"
    BY <1>u, <2>1 DEF RestartInv
  <2>2. CASE request.pc # "none"
    BY <1>t, <1>u, <2>2, RestartGoesOn
  <2> QED BY <2>1, <2>2
<1>v. ASSUME UNCHANGED <<request, vars>> PROVE RestartInv'
  BY <1>v DEF RestartInv, Started, Called, Active, vars, laneVars, taskVars
<1>n. ASSUME request'.pc = "none" PROVE RestartInv'
  BY <1>n DEF RestartInv
<1>p. ASSUME UNCHANGED vars, request.pc \notin {"none", "marking"},
             \E pc \in {"closing", "releasing", "reacquiring"}, b \in BOOLEAN :
               request' = [request EXCEPT !.pc = pc, !.hadLock = b],
             request.pc = "draining" => \A w \in request.waiters : waiter[w].status # "waiting"
      PROVE  RestartInv'
  <2>1. /\ request'.pc \in {"closing", "releasing", "reacquiring"}
        /\ request'.restart = request.restart /\ request'.inFlight = request.inFlight
        /\ request'.waiters = request.waiters
    BY <1>p DEF RunInv, Request
  <2>2. UNCHANGED generation
    BY <1>p DEF vars, laneVars
  <2> QED BY <1>t, <1>p, <2>1, <2>2, RestartGoesOn
<1>1. CASE QueueStep
  BY <1>1, <1>u, QueueStepFlag DEF QueueStep, runVars, requestVars
<1>2. CASE LoopIterates
  <2>1. loop = "resumed" /\ request' = request
    BY <1>2 DEF LoopIterates, requestVars
  <2>2. request.pc = "none"
    BY <2>1 DEF RunInv
  <2> QED BY <1>n, <2>1, <2>2
<1>3. CASE StartSucceeds \/ StartFails \/ FailedStartReleases \/ LoopThrows \/ ForceExit
  BY <1>3, <1>v DEF StartSucceeds, StartFails, FailedStartReleases, LoopThrows, ForceExit,
     requestVars
<1>4. CASE RequestDrains
  <2>1. request.pc = "marking" /\ request.restart /\ request.inFlight = Active
    BY <1>4 DEF RequestDrains, MarkInv, RestartInv
  <2>2. \A t \in Active : Started(t) /\ taskGeneration[t] = generation[LaneOf[t]]
    BY <2>1 DEF RestartInv
  <2>3. CASE Active = {}
    <3>1. request' = [request EXCEPT !.pc = "closing"]
      BY <1>4, <2>3 DEF RequestDrains
    <3>2. request'.pc = "closing" /\ request'.inFlight = {}
      BY <2>1, <2>3, <3>1 DEF RunInv, Request
    <3> QED BY <3>2 DEF RestartInv
  <2>4. CASE Active # {}
    <3>1. PICK w \in Waiters, timed \in BOOLEAN :
            /\ waitForActiveTasks(w, timed)
            /\ request' = [request EXCEPT !.pc = "draining", !.waiters = {w}]
      BY <1>4, <2>4 DEF RequestDrains
    <3>2. /\ request'.pc = "draining" /\ request'.waiters = {w}
          /\ request'.inFlight = Active
      BY <2>1, <3>1 DEF RunInv, Request
    <3>3. UNCHANGED <<status, taskGeneration, generation>>
      BY <3>1 DEF waitForActiveTasks, laneVars, taskVars
    <3>4. Called(w)' /\ waiter'[w].ids = Active
      BY <1>t, <3>1 DEF waitForActiveTasks, Called, Active, TypeOK
    <3> QED BY <2>2, <3>2, <3>3, <3>4 DEF RestartInv, Started
  <2> QED BY <2>3, <2>4
<1>5. CASE DrainEnds
  <2>1. /\ UNCHANGED vars /\ request.pc = "draining"
        /\ request' = [request EXCEPT !.pc = "closing"]
        /\ \A w \in request.waiters : waiter[w].status # "waiting"
    BY <1>5 DEF DrainEnds
  <2>2. request' = [request EXCEPT !.pc = "closing", !.hadLock = request.hadLock]
        /\ request.hadLock \in BOOLEAN
    BY <2>1 DEF RunInv, Request
  <2> QED BY <1>p, <2>1, <2>2
<1>6. CASE CloseEnds
  <2>1. /\ UNCHANGED vars /\ request.pc = "closing" /\ lock \in BOOLEAN
        /\ request' = [request EXCEPT !.pc = "releasing", !.hadLock = lock]
    BY <1>6 DEF CloseEnds, RunInv
  <2> QED BY <1>p, <2>1
<1>7. CASE ReleaseEnds
  <2>1. UNCHANGED vars /\ request.pc = "releasing"
    BY <1>7 DEF ReleaseEnds
  <2>2. CASE UNCHANGED requestVars
    BY <1>v, <2>1, <2>2 DEF requestVars
  <2>3. CASE request' = [request EXCEPT !.pc = "reacquiring"]
    <3>1. request' = [request EXCEPT !.pc = "reacquiring", !.hadLock = request.hadLock]
          /\ request.hadLock \in BOOLEAN
      BY <2>3 DEF RunInv, Request
    <3> QED BY <1>p, <2>1, <3>1
  <2>4. CASE RestartReady
    BY <1>n, <2>4 DEF RestartReady, NoRequest
  <2> QED BY <1>7, <2>2, <2>3, <2>4 DEF ReleaseEnds
<1>8. CASE reacquireLockForInProcessRestart
  <2>1. UNCHANGED vars
    BY <1>8 DEF reacquireLockForInProcessRestart
  <2>2. CASE UNCHANGED requestVars
    BY <1>v, <2>1, <2>2 DEF requestVars
  <2>3. CASE RestartReady
    BY <1>n, <2>3 DEF RestartReady, NoRequest
  <2> QED BY <1>8, <2>2, <2>3 DEF reacquireLockForInProcessRestart
<1>9. CASE SchedulerStep
  <2>1. UNCHANGED <<vars, requestVars>> \/ requestRestart
    BY <1>9, <1>t, EmitRun DEF SchedulerStep
  <2>2. CASE UNCHANGED <<vars, requestVars>>
    BY <1>v, <2>2 DEF requestVars
  <2>3. CASE ~shuttingDown /\ requestRestart
    <3>1. /\ markGatewayDraining /\ request'.pc = "marking" /\ request'.inFlight = Active
      BY <1>t, <2>3, RequestRestartRun
    <3>2. UNCHANGED <<activeTaskIds, status, taskGeneration, generation>>
      BY <3>1 DEF markGatewayDraining, laneVars, taskVars
    <3>3. Active' = Active
      BY <3>2 DEF Active
    <3>4. \A t \in Active : Started(t) /\ taskGeneration[t] = generation[LaneOf[t]]
      <4>1. \A l \in Lanes : activeTaskIds[l] = Current(l)
        BY DEF TaskInv, SlotsExact
      <4> QED BY <4>1 DEF Active, Current, Started
    <3> QED BY <3>1, <3>2, <3>3, <3>4 DEF RestartInv, Started
  <2> QED BY <2>1, <2>2, <2>3 DEF requestRestart
<1>10. CASE scheduleGatewaySigusr1Restart \/ OtherGateway
  BY <1>10, <1>v DEF scheduleGatewaySigusr1Restart, OtherGateway, requestVars
<1>11. CASE onSigterm
  BY <1>11 DEF onSigterm, requestStop, NoRequest, RestartInv
<1>12. CASE UNCHANGED gatewayVars
  BY <1>12, <1>v DEF gatewayVars, runVars, requestVars
<1> QED
  BY <1>1, <1>2, <1>3, <1>4, <1>5, <1>6, <1>7, <1>8, <1>9, <1>10, <1>11, <1>12
     DEF GatewayNext, LoopStep, RequestStep

\* A restart tears the server down only when every task that ran at the signal has
\* ended, or the wait for them has timed out.
THEOREM RestartsWait == GatewaySpec => []InFlightFinished
<1> DEFINE Inv == WaiterInv /\ RunInv /\ MarkInv /\ RestartInv
<1>1. GatewayInit => Inv
  <2>1. GatewayInit => RunInv /\ MarkInv /\ RestartInv
    BY InitRun DEF GatewayInit, RestartInv, NoRequest
  <2>2. Init => WaiterInv
    BY InitWaiters
  <2> QED BY <2>1, <2>2 DEF GatewayInit
<1>2. Inv /\ [GatewayNext]_gatewayVars => Inv'
  <2> SUFFICES ASSUME Inv, [GatewayNext]_gatewayVars PROVE Inv'
    OBVIOUS
  <2>1. TaskInv /\ TypeOK
    BY DEF WaiterInv, TaskInv
  <2> QED BY <2>1, QueueSteps, WaiterStep, RunStep, RestartStep
<1>3. Inv => InFlightFinished
  <2> SUFFICES ASSUME Inv, request.restart,
                      request.pc \in {"closing", "releasing", "reacquiring"},
                      NEW t \in request.inFlight, status[t] = "running"
               PROVE  \E w \in request.waiters : waiter[w].status = "timeout"
    BY DEF InFlightFinished
  <2>1. PICK w \in request.waiters :
          Called(w) /\ waiter[w].ids = request.inFlight /\ waiter[w].status # "waiting"
    BY DEF RestartInv
  <2>2. taskGeneration[t] = generation[LaneOf[t]]
    BY DEF RestartInv
  <2>3. w \in Waiters /\ t \in Tasks
    BY DEF RunInv, Request
  <2>4. taskGeneration[t] \in Nat
    BY <2>3 DEF WaiterInv, TaskInv, TypeOK
  <2>5. waiter[w].status # "drained"
    BY <2>1, <2>2, <2>3, <2>4 DEF WaiterInv, WaitersExact
  <2> QED BY <2>1, <2>5 DEF Called
<1> QED BY <1>1, <1>2, <1>3, PTL DEF GatewaySpec
=============================================================================
