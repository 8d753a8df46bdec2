---------------------------- MODULE CommandQueue ----------------------------
(***************************************************************************)
(* The in-process command queue of the gateway (process/command-queue.ts). *)
(* Every piece of agent work is a task put in a lane; a lane starts its    *)
(* tasks in order and keeps at most maxConcurrent of them running.         *)
(*                                                                         *)
(* JavaScript runs one callback at a time, so the steps that other         *)
(* callbacks can interleave with are taken from the state Idle.  The       *)
(* reentrancy that is left is modelled: the loop of pump() calls a task,   *)
(* and the part of the task before its first await may enqueue into this   *)
(* or another lane (a nested drainLane) or throw (a nested pump).  The     *)
(* nested calls are the variable stack, its top frame is the pump that is  *)
(* executing; prefix is the task whose synchronous part is executing.      *)
(*                                                                         *)
(* A task is started at most once, so the task itself stands for the       *)
(* number nextTaskId gives it.  Lanes are created on first use with the    *)
(* values of Init, so all of them exist from the start.                    *)
(***************************************************************************)
EXTENDS Integers, Sequences, FiniteSets

CONSTANTS
  Lanes,             \* names of lanes
  Tasks,             \* the tasks of the instance
  NoTask,            \* "no task", not a member of Tasks
  Waiters,           \* calls of waitForActiveTasks
  LaneOf,            \* LaneOf[t]: the lane task t is enqueued in
  Inner,             \* Inner[t]: the task that t enqueues and waits for, or NoTask
  SyncInner,         \* the tasks that enqueue Inner[t] before their first await
  ConcurrencyInputs, \* arguments of setCommandLaneConcurrency
  MaxGeneration      \* bound on the number of resetAllLanes calls

ASSUME CommandQueueAssumption ==
  /\ NoTask \notin Tasks
  /\ IsFiniteSet(Tasks)
  /\ LaneOf \in [Tasks -> Lanes]
  /\ Inner \in [Tasks -> Tasks \cup {NoTask}]
  /\ SyncInner \in SUBSET {t \in Tasks : Inner[t] # NoTask}
  /\ ConcurrencyInputs \in SUBSET Int
  /\ MaxGeneration \in Nat

VARIABLES
  gatewayDraining,  \* the flag of markGatewayDraining
  queue,            \* queue[l]: entries waiting in lane l
  activeTaskIds,    \* activeTaskIds[l]: tasks lane l counts as running
  maxConcurrent,    \* maxConcurrent[l]
  draining,         \* draining[l]: a drainLane(l) is executing
  generation,       \* generation[l], bumped by resetAllLanes
  status,           \* status[t]: what became of the task and its promise
  taskGeneration,   \* taskGeneration[t]: the generation t was started in
  waiter,           \* waiter[w]: an ActiveTaskWaiter
  stack,            \* the pump() calls being executed, innermost last
  prefix,           \* the task whose synchronous part is being executed
  resetting,        \* a resetAllLanes is being executed
  toDrain           \* the lanesToDrain it has still to drain

laneVars == <<queue, activeTaskIds, maxConcurrent, draining, generation>>
taskVars == <<status, taskGeneration>>
callVars == <<stack, prefix, resetting, toDrain>>
vars == <<gatewayDraining, laneVars, taskVars, waiter, callVars>>

\* The states of a task: not enqueued, waiting in its lane, running, and the
\* four ways in which the promise returned by enqueueCommandInLane settles.
Settled == {"resolved", "rejected", "cleared", "refused"}
Status == {"idle", "queued", "running"} \cup Settled

\* Tasks that no other task enqueues.
Roots == {t \in Tasks : \A u \in Tasks : Inner[u] # t}

\* No callback is executing.
Idle == stack = <<>> /\ prefix = NoTask /\ ~resetting

Init ==
  /\ gatewayDraining = FALSE
  /\ queue = [l \in Lanes |-> <<>>]
  /\ activeTaskIds = [l \in Lanes |-> {}]
  /\ maxConcurrent = [l \in Lanes |-> 1]
  /\ draining = [l \in Lanes |-> FALSE]
  /\ generation = [l \in Lanes |-> 0]
  /\ status = [t \in Tasks |-> "idle"]
  /\ taskGeneration = [t \in Tasks |-> 0]
  /\ waiter = [w \in Waiters |-> [status |-> "idle", ids |-> {}]]
  /\ stack = <<>>
  /\ prefix = NoTask
  /\ resetting = FALSE
  /\ toDrain = {}
-----------------------------------------------------------------------------
(* Helpers.                                                                *)

\* Some lane still counts one of ids as running.
hasPendingActiveTasks(ids, active) == \E l \in Lanes : active[l] \cap ids # {}

\* The waiters after notifyActiveTaskWaiters, when active is the running tasks.
notifyActiveTaskWaiters(active) ==
  [w \in Waiters |->
     IF waiter[w].status = "waiting" /\ ~hasPendingActiveTasks(waiter[w].ids, active)
     THEN [waiter[w] EXCEPT !.status = "drained"]
     ELSE waiter[w]]

\* Mutant: nothing either while a task of the lane is running.
drainLane_busy(l) ==
  IF draining[l] \/ activeTaskIds[l] # {}
  THEN UNCHANGED <<draining, stack>>
  ELSE /\ draining' = [draining EXCEPT ![l] = TRUE]
       /\ stack' = Append(stack, l)

\* drainLane(l): nothing if a drain of l is executing, else a pump of l begins.
drainLane(l) ==
  IF draining[l]
  THEN UNCHANGED <<draining, stack>>
  ELSE /\ draining' = [draining EXCEPT ![l] = TRUE]
       /\ stack' = Append(stack, l)

\* The call enqueueCommandInLane for task t.
enqueueCommandInLane(t) ==
  /\ status[t] = "idle"
  /\ \/ /\ gatewayDraining
        /\ status' = [status EXCEPT ![t] = "refused"]
        /\ UNCHANGED <<queue, draining, stack>>
     \/ /\ ~gatewayDraining
        /\ status' = [status EXCEPT ![t] = "queued"]
        /\ queue' = [queue EXCEPT ![LaneOf[t]] = Append(@, t)]
        /\ drainLane(LaneOf[t])
  /\ UNCHANGED <<gatewayDraining, activeTaskIds, maxConcurrent, generation,
                 taskGeneration, waiter, resetting, toDrain>>

\* Mutant: the waiters are notified before the task is removed.
completeTask_notifyFirst(t, outcome) ==
  LET l == LaneOf[t]
  IN  /\ status' = [status EXCEPT ![t] = outcome]
      /\ IF taskGeneration[t] = generation[l]
         THEN /\ activeTaskIds' = [activeTaskIds EXCEPT ![l] = @ \ {t}]
              /\ waiter' = notifyActiveTaskWaiters(activeTaskIds)
              /\ stack' = Append(stack, l)
         ELSE UNCHANGED <<activeTaskIds, waiter, stack>>
      /\ UNCHANGED <<gatewayDraining, queue, maxConcurrent, draining, generation,
                     taskGeneration, resetting, toDrain>>

\* completeTask, the notification and the pump() call that follow the end of
\* task t, whose promise settles with outcome.  A task of an older generation
\* only settles its promise.
completeTask(t, outcome) ==
  LET l == LaneOf[t]
  IN  /\ status' = [status EXCEPT ![t] = outcome]
      /\ IF taskGeneration[t] = generation[l]
         THEN /\ activeTaskIds' = [activeTaskIds EXCEPT ![l] = @ \ {t}]
              /\ waiter' = notifyActiveTaskWaiters(activeTaskIds')
              /\ stack' = Append(stack, l)
         ELSE UNCHANGED <<activeTaskIds, waiter, stack>>
      /\ UNCHANGED <<gatewayDraining, queue, maxConcurrent, draining, generation,
                     taskGeneration, resetting, toDrain>>
-----------------------------------------------------------------------------
(* The loop of pump() in the innermost frame.                              *)

Top == stack[Len(stack)]

\* Mutant: off by one.
HasSlot_le(l) == Cardinality(activeTaskIds[l]) <= maxConcurrent[l] /\ queue[l] # <<>>

HasSlot(l) == Cardinality(activeTaskIds[l]) < maxConcurrent[l] /\ queue[l] # <<>>

\* One iteration: the head of the queue becomes active and its task is called.
PumpStart ==
  /\ prefix = NoTask
  /\ stack # <<>>
  /\ HasSlot(Top)
  /\ LET l == Top
         t == Head(queue[Top])
     IN  /\ queue' = [queue EXCEPT ![l] = Tail(@)]
         /\ activeTaskIds' = [activeTaskIds EXCEPT ![l] = @ \cup {t}]
         /\ status' = [status EXCEPT ![t] = "running"]
         /\ taskGeneration' = [taskGeneration EXCEPT ![t] = generation[l]]
         /\ prefix' = t
  /\ UNCHANGED <<gatewayDraining, maxConcurrent, draining, generation, waiter,
                 stack, resetting, toDrain>>

\* The loop ends; the finally block clears the flag.
PumpEnd ==
  /\ prefix = NoTask
  /\ stack # <<>>
  /\ ~HasSlot(Top)
  /\ draining' = [draining EXCEPT ![Top] = FALSE]
  /\ stack' = SubSeq(stack, 1, Len(stack) - 1)
  /\ UNCHANGED <<gatewayDraining, queue, activeTaskIds, maxConcurrent, generation,
                 taskVars, waiter, prefix, resetting, toDrain>>

\* The synchronous part of the task ends at its first await.
TaskYields ==
  /\ prefix # NoTask
  /\ prefix \notin SyncInner
  /\ prefix' = NoTask
  /\ UNCHANGED <<gatewayDraining, laneVars, taskVars, waiter, stack, resetting, toDrain>>

\* runEmbeddedPiAgent: the task of the session lane enqueues the run in its
\* global lane at once and returns that promise.
TaskEnqueuesInner ==
  /\ prefix \in SyncInner
  /\ enqueueCommandInLane(Inner[prefix])
  /\ prefix' = NoTask

\* The task throws before its first await (throwIfAborted).
TaskThrows ==
  /\ prefix # NoTask
  /\ completeTask(prefix, "rejected")
  /\ prefix' = NoTask
-----------------------------------------------------------------------------
(* Callbacks, each taken when no other is executing.                       *)

Enqueue(t) ==
  /\ Idle
  /\ t \in Roots
  /\ enqueueCommandInLane(t)
  /\ UNCHANGED prefix

\* A running task enqueues its inner task after an await (a cron job that
\* starts its agent run).
EnqueueInner(t) ==
  /\ Idle
  /\ status[t] = "running"
  /\ t \notin SyncInner
  /\ Inner[t] # NoTask
  /\ enqueueCommandInLane(Inner[t])
  /\ UNCHANGED prefix

\* The outcomes that task t can have now.  A task that waits for an inner task
\* settles as that one does; one that has not enqueued it may end without it.
Outcomes(t) ==
  IF Inner[t] = NoTask \/ (status[Inner[t]] = "idle" /\ t \notin SyncInner)
  THEN {"resolved", "rejected"}
  ELSE IF status[Inner[t]] \notin Settled
       THEN {}
       ELSE IF status[Inner[t]] = "resolved" THEN {"resolved"} ELSE {"rejected"}

TaskSettles(t) ==
  /\ Idle
  /\ status[t] = "running"
  /\ \E outcome \in Outcomes(t) : completeTask(t, outcome)
  /\ UNCHANGED prefix

markGatewayDraining ==
  /\ Idle
  /\ gatewayDraining' = TRUE
  /\ UNCHANGED <<laneVars, taskVars, waiter, callVars>>

\* Mutant: the input is used as it is.
atLeastOne_raw(n) == n

\* The cap that an input gives (Math.max(1, ...)).
atLeastOne(n) == IF n < 1 THEN 1 ELSE n

setCommandLaneConcurrency(l, n) ==
  /\ Idle
  /\ maxConcurrent' = [maxConcurrent EXCEPT ![l] = atLeastOne(n)]
  /\ drainLane(l)
  /\ UNCHANGED <<gatewayDraining, queue, activeTaskIds, generation, taskVars,
                 waiter, prefix, resetting, toDrain>>

\* Mutant: the head of the queue stays in it.
clearCommandLane_keepHead(l) ==
  /\ Idle
  /\ queue[l] # <<>>
  /\ queue' = [queue EXCEPT ![l] = <<Head(@)>>]
  /\ status' = [t \in Tasks |->
                  IF \E i \in 1..Len(queue[l]) : queue[l][i] = t
                  THEN "cleared" ELSE status[t]]
  /\ UNCHANGED <<gatewayDraining, activeTaskIds, maxConcurrent, draining, generation,
                 taskGeneration, waiter, callVars>>

\* The waiting entries of the lane are rejected, the running ones stay.
clearCommandLane(l) ==
  /\ Idle
  /\ queue[l] # <<>>
  /\ queue' = [queue EXCEPT ![l] = <<>>]
  /\ status' = [t \in Tasks |->
                  IF \E i \in 1..Len(queue[l]) : queue[l][i] = t
                  THEN "cleared" ELSE status[t]]
  /\ UNCHANGED <<gatewayDraining, activeTaskIds, maxConcurrent, draining, generation,
                 taskGeneration, waiter, callVars>>

\* Mutant: the running tasks keep their slots.
resetAllLanes_keepActive ==
  /\ Idle
  /\ \A l \in Lanes : generation[l] < MaxGeneration
  /\ gatewayDraining' = FALSE
  /\ generation' = [l \in Lanes |-> generation[l] + 1]
  /\ draining' = [l \in Lanes |-> FALSE]
  /\ resetting' = TRUE
  /\ toDrain' = {l \in Lanes : queue[l] # <<>>}
  /\ UNCHANGED <<queue, activeTaskIds, maxConcurrent, taskVars, waiter, stack, prefix>>

\* resetAllLanes: the reset pass over every lane ...
resetAllLanes ==
  /\ Idle
  /\ \A l \in Lanes : generation[l] < MaxGeneration
  /\ gatewayDraining' = FALSE
  /\ generation' = [l \in Lanes |-> generation[l] + 1]
  /\ activeTaskIds' = [l \in Lanes |-> {}]
  /\ draining' = [l \in Lanes |-> FALSE]
  /\ resetting' = TRUE
  /\ toDrain' = {l \in Lanes : queue[l] # <<>>}
  /\ UNCHANGED <<queue, maxConcurrent, taskVars, waiter, stack, prefix>>

\* ... then drainLane of each lane with entries (in the order of the map) ...
ResetDrains ==
  /\ resetting /\ stack = <<>> /\ prefix = NoTask
  /\ \E l \in toDrain :
       /\ toDrain' = toDrain \ {l}
       /\ drainLane(l)
  /\ UNCHANGED <<gatewayDraining, queue, activeTaskIds, maxConcurrent, generation,
                 taskVars, waiter, prefix, resetting>>

\* ... and the notification of the waiters.
ResetEnds ==
  /\ resetting /\ stack = <<>> /\ prefix = NoTask
  /\ toDrain = {}
  /\ resetting' = FALSE
  /\ waiter' = notifyActiveTaskWaiters(activeTaskIds)
  /\ UNCHANGED <<gatewayDraining, laneVars, taskVars, stack, prefix, toDrain>>

\* waitForActiveTasks: the set of running tasks is read once, at the call.
waitForActiveTasks(w, timed) ==
  LET activeAtStart == UNION {activeTaskIds[l] : l \in Lanes}
  IN  /\ Idle
      /\ waiter[w].status = "idle"
      /\ waiter' = [waiter EXCEPT ![w] =
           [status |-> IF activeAtStart = {} THEN "drained"
                       ELSE IF timed THEN "waiting" ELSE "timeout",
            ids |-> activeAtStart]]
      /\ UNCHANGED <<gatewayDraining, laneVars, taskVars, callVars>>

WaiterTimeout(w) ==
  /\ Idle
  /\ waiter[w].status = "waiting"
  /\ waiter' = [waiter EXCEPT ![w].status = "timeout"]
  /\ UNCHANGED <<gatewayDraining, laneVars, taskVars, callVars>>
-----------------------------------------------------------------------------
\* The steps of a callback that has begun.
Pumping ==
  \/ PumpStart \/ PumpEnd
  \/ TaskYields \/ TaskEnqueuesInner \/ TaskThrows
  \/ ResetDrains \/ ResetEnds

\* What the tasks do by themselves.
TaskStep(t) == EnqueueInner(t) \/ TaskSettles(t)

\* What the callers of the queue do.
Caller ==
  \/ \E t \in Tasks : Enqueue(t)
  \/ markGatewayDraining
  \/ \E l \in Lanes, n \in ConcurrencyInputs : setCommandLaneConcurrency(l, n)
  \/ \E l \in Lanes : clearCommandLane(l)
  \/ resetAllLanes
  \/ \E w \in Waiters, timed \in BOOLEAN : waitForActiveTasks(w, timed)
  \/ \E w \in Waiters : WaiterTimeout(w)

Next ==
  \/ Pumping
  \/ \E t \in Tasks : TaskStep(t)
  \/ Caller

Spec == Init /\ [][Next]_vars

\* A callback that has begun runs to its end, and a task ends (every run has a
\* timeout).  The latter is strong: the event loop takes a ready callback in
\* its turn, however many others come.  Nothing is assumed of the callers.
Fairness ==
  /\ WF_vars(Pumping)
  /\ \A t \in Tasks : SF_vars(TaskStep(t))

FairSpec == Spec /\ Fairness
-----------------------------------------------------------------------------
(* Properties.                                                             *)

Waiter == [status : {"idle", "waiting", "drained", "timeout"}, ids : SUBSET Tasks]

\* Every variable has the type its declaration in command-queue.ts gives it; the
\* cap of a lane is at least one (setCommandLaneConcurrency clamps it).
TypeOK ==
  /\ gatewayDraining \in BOOLEAN
  /\ queue \in [Lanes -> Seq(Tasks)]
  /\ activeTaskIds \in [Lanes -> SUBSET Tasks]
  /\ maxConcurrent \in [Lanes -> Nat \ {0}]
  /\ draining \in [Lanes -> BOOLEAN]
  /\ generation \in [Lanes -> Nat]
  /\ status \in [Tasks -> Status]
  /\ taskGeneration \in [Tasks -> Nat]
  /\ waiter \in [Waiters -> Waiter]
  /\ stack \in Seq(Lanes)
  /\ prefix \in Tasks \cup {NoTask}
  /\ resetting \in BOOLEAN
  /\ toDrain \in SUBSET Lanes

Pumped(l) == \E i \in 1..Len(stack) : stack[i] = l

\* A lane with waiting entries and a free slot is being pumped, or resetAllLanes
\* is about to: no interleaving of drainLane, the nested pump() calls (whose
\* finally blocks clear draining under an outer loop), a stale completion and
\* resetAllLanes leaves accepted work with nobody to start it.
WorkConserving ==
  \A l \in Lanes : HasSlot(l) => Pumped(l) \/ l \in toDrain

\* draining is TRUE only while a pump of the lane is executing: the early return
\* of drainLane never relies on a drain that has already ended.
DrainingHonest == \A l \in Lanes : draining[l] => Pumped(l)

\* The tasks of lane l that run and were started since the last resetAllLanes.
Current(l) == {t \in Tasks : /\ LaneOf[t] = l
                             /\ status[t] = "running"
                             /\ taskGeneration[t] = generation[l]}

\* The set a lane counts its slots with is exactly its running tasks of the
\* present generation: no slot is leaked and none is freed twice, whatever
\* completions arrive after resetAllLanes.
SlotsExact == \A l \in Lanes : activeTaskIds[l] = Current(l)

\* The queues hold every task whose promise is pending and not started, each
\* once and in its own lane: nothing is lost or duplicated by a reset, a clear
\* or a refusal.
QueueExact ==
  /\ \A l \in Lanes : \A i \in 1..Len(queue[l]) :
       /\ status[queue[l][i]] = "queued"
       /\ LaneOf[queue[l][i]] = l
       /\ \A j \in 1..Len(queue[l]) : queue[l][i] = queue[l][j] => i = j
  /\ \A t \in Tasks : status[t] = "queued" =>
       \E i \in 1..Len(queue[LaneOf[t]]) : queue[LaneOf[t]][i] = t

\* waitForActiveTasks answers "drained" only when none of the tasks it saw
\* running still runs in the generation it was started in, and a waiter that is
\* still waiting has a task to wait for: completions, resets and timeouts in any
\* order release it neither too early nor never.
WaitersExact ==
  \A w \in Waiters :
    /\ waiter[w].status = "drained" => \A t \in waiter[w].ids :
         status[t] = "running" => taskGeneration[t] < generation[LaneOf[t]]
    /\ waiter[w].status = "waiting" /\ ~resetting =>
         hasPendingActiveTasks(waiter[w].ids, activeTaskIds)

\* A waiting entry is eventually started and its promise settles: tasks that
\* wait for tasks of other lanes never wait for each other (the reason for
\* resolveGlobalLane moving cron runs to the nested lane).
AcceptedSettles == \A t \in Tasks : status[t] = "queued" ~> status[t] \in Settled

\* What the lanes promise, stated without pumps, frames and flags: first come
\* first served with at most cap in service (module LaneService).
Service == INSTANCE LaneService WITH
  waiting <- queue,
  serving <- [l \in Lanes |-> Current(l)],
  cap <- maxConcurrent,
  accepted <- {t \in Tasks : status[t] \notin {"idle", "refused"}}

\* command-queue.ts implements LaneService.
RefinesLaneService == Service!Spec
=============================================================================
