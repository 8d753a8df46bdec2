# A verification project for the gateway core

The repository is a personal-assistant gateway (the OpenClaw code base with the
QVeris plugins): one long-lived Node.js process that receives messages from chat
channels, runs an agent for each session, and sends the answers back. Most of the
2.7 million lines are adapters (channels, model providers, native apps, UI). What
makes the process correct or not is a smaller core of hand-written concurrency:
queues, drains, claims, timers and restarts, all interleaving at `await` points.
This directory models that core in TLA+, checks it with TLC and proves the safety of
every modelled component with TLAPS.

Paths below are relative to the repository, e.g. `src/process/command-queue.ts`.

## 1. Inventory

| component | state | operations | interacts with | what is hard | what makes it correct |
|---|---|---|---|---|---|
| Command queue (`src/process/command-queue.ts`) | per lane: queue, active ids, cap, draining flag, generation; waiters; gateway drain flag | enqueue, pump, complete, set concurrency, clear, mark draining, reset, wait for active tasks | everything that runs an agent | reentrant pumps, completions of an older generation, nested lanes | first come first served within the cap, no stranded work, no leaked slot, honest waiters, no deadlock of nested lanes |
| Followup queue (`src/auto-reply/reply/queue/*`, `src/utils/queue-helpers.ts`) | per session: items, drop counters, summary lines, draining flag, mode, map entry; recent ids; session ids in the queued runs | enqueue with dedupe and drop policy, debounce, collect or per-item drain, retry, clear | agent runner, reply run registry | awaits between slicing and removing a batch, clears during a turn, overflow at the cap, rollovers of the session id | no message lost, repeated or reordered; queued work always has a drain; batches never mix senders or channels |
| Gateway run loop (`src/cli/gateway-cli/run-loop.ts`) and restart scheduler (`src/infra/restart.ts`) | server, resolver, shutting-down flag, lock handle; pending timer, deferral poll | start, stop, restart, drain, close, force exit, release and reacquire the lock | command queue, gateway lock | signals during a start, drains against timeouts, failed starts | restarts honoured, in-flight work waited for, lock held while serving, drain flag undone |
| Outbound delivery queue (`src/infra/outbound/delivery-queue-*.ts`, `deliver.ts`) | files `id.json`, `id.delivered`, `failed/id.json`; claims; drains in progress | enqueue, ack in two phases, fail, move, scan, claim, defer | live senders, startup recovery, reconnecting channels | crashes between file operations, two recoverers, stale listings, a time budget | no accepted message lost, none sent by two at once or again after an ack, retries bounded |
| Reply run registry (`src/auto-reply/reply/reply-run-registry.ts`) | operation per session | begin, update session id, abort, complete | followup queue, run loop | session ids that change under an operation | one operation per session |
| Cron service (`src/cron/service/*`) | jobs in memory and in the file, running markers, next runs, timer | add, update, remove, run, tick, catch-up after a restart | command queue, heartbeat | sections under a lock with executions between them, reloads of the file during runs, crashes after a marker is written | due jobs run in the end and never twice at once, no marker or due slot is left behind, users' edits hold |
| Channel manager (`src/gateway/server-channels.ts`) | per account: start gate, abort, task, restart attempts, mark of a manual stop | start, stop, logout, automatic restart | health monitor, config reload, plugins | starts and stops overlapping at their awaits, stops that time out | one tracked provider per account, a stop stays stopped, no call waits for ever |
| Heartbeat wake (`src/infra/heartbeat-wake.ts`) | pending wakes per target, timer, running flag, handler and its generation | request, batch, retry, register and dispose a handler | cron, exec events, main lane | a new lifecycle while a batch of the old one is in flight | no wake lost, downgraded or without a timer |
| Gateway lock, session write lock, restart sentinel | lock and sentinel files | acquire, release, break stale | run loop, session writers | owners that died, pid reuse | at most one owner |
| Exec approvals, config reload | pending approvals; pending reload | register, resolve, expire; debounce | operators; restart scheduler | late answers | nothing forgotten, one answer per approval |
| ACP sessions, task registry, node registry, pairing, rate limits, chat events, agent runner, plugins, apps, UI, CLI | various | various | outside services | mostly I/O and text | out of scope, see section 7 |

`PROJECT.json` lists every component with its status and, under `hazards`, the
places where the modelled code can go wrong in ways a unit test hardly reaches,
with the properties that would show it.

## 2. Modules

| module | models |
|---|---|
| `AgentLanes` | lane names and the choice of a lane (`lanes.ts`) |
| `LaneService` | abstract specification: what the lanes promise their callers |
| `CommandQueue` | `command-queue.ts`, with the nested calls of `pump()` |
| `CommandQueueProofs` | theorems about `CommandQueue` |
| `FollowupQueue` | one session's followup queue with the code that fills and drains it |
| `GatewayRunLoop` | run loop and restart scheduler; EXTENDS `CommandQueue`, so that its steps are composed with those of the lanes |
| `DeliveryQueue` | queue files, live sender, recovery, crashes |
| `HeartbeatWake` | `heartbeat-wake.ts` across lifecycles of its handler |
| `ChannelManager` | one account of `server-channels.ts` with the health monitor and the reload that call it |
| `CronService` | `cron/service/`: store, timer, catch-up, manual runs, edits, crashes |
| `GatewayRunLoopProofs`, `FollowupQueueProofs`, `DeliveryQueueProofs`, `HeartbeatWakeProofs`, `ChannelManagerProofs`, `CronServiceProofs` | theorems about these modules; the first builds on `CommandQueueProofs` |
| `MC*` | the constants of the instances TLC checks |

Operators keep the names of the functions they model. JavaScript runs a callback
to completion, so a step of a model is the code between two awaits; where one
callback calls back into the component before it ends, the nesting is explicit.

**CommandQueue.** `queue`, `activeTaskIds`, `maxConcurrent`, `draining` and
`generation` are the fields of `LaneState`. `pump()` is not atomic: `stack` holds
the pumps being executed, `prefix` the task whose synchronous part (before its
first await) is executing and which may enqueue (`TaskEnqueuesInner`) or throw
(`TaskThrows`), and `resetting`/`toDrain` a `resetAllLanes` in progress.
`completeTask` is a completion with the notification of the waiters and the pump
that follow it; `TaskSettles` is the completion after an await. A task is started
at most once, so it stands for its `nextTaskId`.

**FollowupQueue.** A message is one delivery, handled once; a redelivery is a message
with the same `MessageId`, and `NoId` stands for none. `recent` is
`RECENT_QUEUE_MESSAGE_IDS` (`enqueue.ts:14`), from which `RecentIdExpires` takes any
id at any time: the cache has a time to live of 5 minutes and 10 000 entries for all
sessions together. `isRunAlreadyQueued` compares with what waits, and both checks pass
a message without an id. A queue is an object: after a clear, a drain goes on with the
object it captured while the map holds another one (`Queues`, `registered`).
`Arrive` takes the snapshot "a run is active" that the code takes before its
awaits, `enqueueFollowupRun` acts on it later. `CollectStep` and `FollowupStep` are
one turn of the drain loop in the two modes, `TurnReturns` and `TurnThrows` the end
of the awaited turn with the splice or shift, `EndDrain` the `finally` block. The
code splits a collected batch by sender before the first turn; `batch` is the first
group and `rest` what is left, split when its turn comes (`FirstGroup`), which is the
same since the keys do not change. The
mode comes with each message, so it may change while a drain is under way. A run
object is shared by handler, queue and drain, hence one `runSession[m]` per
message; `SessionRollsOver` is a compaction or reset by the run under way together
with `refreshQueuedFollowupSession`. (The store is written and the queue is
refreshed with an await between them, one step here: the run holds the session
until after the refresh, so no turn can start in between.)

**GatewayRunLoop.** Two coroutines: `loop` (the for-loop that starts servers) and
`request` (stop and restart). `onIteration` resets the lanes, `requestRestart`
marks them draining, `RequestDrains`/`DrainEnds` wait for the active tasks with
`waitForActiveTasks`, `CloseEnds`, `ReleaseEnds` and
`reacquireLockForInProcessRestart` finish. The signal handlers are installed before the
loop begins, so a signal may come during a start as well (`SignalPossible`);
`RestartReady` then calls a resolver that the loop does not await yet, which the history
`restartDropped` records until the next iteration. `OtherGateway` is another process that
wants the lock file. `scheduleGatewaySigusr1Restart`, `RestartTimerFires` and
`deferGatewayRestartUntilIdle` are the scheduler.

**DeliveryQueue.** `json[d]` is the retry count in the file, or its absence.
`job[a][d]` is where actor `a` (the live sender or a recoverer) is with entry `d`;
each file operation and each send is a step. `failDelivery` is two steps, the read
and the write. `Crash` keeps the files and forgets the rest. A recoverer whose list was
read while a live send is in flight may take its entry, and the deferral at the end of
the time budget works without claims: the history `contended` has the entries that two
actors had in hand at once. `SendFails` of a bestEffort entry ends in an ack when a
payload failed, and in `failDelivery` or the move to `failed/` when something outside
the payloads threw (`deliver.ts:573`, `deliver.ts:788`).

**HeartbeatWake.** A wake is its priority. `batches` are the loops over a batch
that have not ended; `setHeartbeatWakeHandler` and `Dispose` are the registration
and its disposer, which may be called by an owner that has been replaced.
`schedule` gives the timers that may be armed afterwards, since delays are left
out.

**ChannelManager.** A start attempt is a number that stands for its controller, gate
and promise; `attempt[k].pc` is where it is between its awaits, from `Reserve`
through `HandOff` to the provider's end, `Exited`, the backoff and the nested start.
`call[c]` is a caller: start, stop, logout, restart or a check of the monitor.
`starting`, `aborts` and `tasks` are the entries of the maps, which any caller may
delete or replace under another.

**CronService.** `mem` and `disk` are the store and its file; sections under the
lock are steps, executions lie between them. `Start`, `planStartupCatchup`,
`applyStartupCatchupOutcomes` and `StartDone` are the start, `TickIdle`,
`TickCollects`, `ExecStart`, `ExecEnd` and `TickApplies` a tick,
`inspectManualRunPreflight`, `prepareManualRun`, `ManualEnds` and
`finishPreparedManualRun` a manual run with its three sections. A next run is
"none", "future" or "due", a marker "no", "set" or "old" (beyond `STUCK_RUN_MS`);
`ComesDue` and `MarkerAges` let time pass. `reloaded` says whether a tick's job
objects are still those of the store, since a reload replaces them. The history `owed`
has the jobs that came due and have not been executed since; what else may take a job
out of it is spelled out in `DueJobRuns` (see section 4).

## 3. Runs

Passing runs:

| run | question | bounds |
|---|---|---|
| `lanes` | lanes under concurrency changes, clears, a reset, a waiter and synchronous nesting | 2 runs of one session, each a session-lane task that enqueues a main-lane task; concurrency arguments 0 and 2; one reset |
| `lanes_live` | nested lanes do not deadlock | a cron job that starts a run of a session in the nested lane, and another session's run |
| `followup` | both modes and changes between them, refused overflow, rollover of the session id, with liveness | 4 messages without ids of 2 senders and 2 channels, cap 2, one throwing turn, one rollover |
| `followup_clear` | both modes with summaries, redeliveries before and after an id is forgotten, and clears | 4 deliveries: one message delivered twice, one with an id of its own, one without an id; ids forgotten at any time; 2 queue objects, cap 2, one throwing turn |
| `gateway` | restarts and stops around the lanes, with liveness | 2 tasks of one session, 2 restart requests, 2 waiters, one competing gateway; signals during starts too, starts may fail, closes may hang |
| `delivery` | startup recovery with its time budget, a reconnect drain and live sends, all overlapping | 2 entries (one bestEffort), 1 scan each, 1 crash, MAX_RETRIES = 2 |
| `delivery_live` | the same with one recoverer that scans again, with liveness | 2 entries, 1 recoverer, 2 scans, 1 crash |
| `heartbeat` | wakes across lifecycles of the handler, with liveness | 2 targets, 2 priorities, 3 requests, 3 handlers, 2 busy answers or exceptions |
| `channels` | overlapping calls on one account, with liveness | 2 calls of any kind, 4 start attempts, MAX_RESTART_ATTEMPTS = 1, with and without a stop hook |
| `cron` | ticks, catch-up, a manual run, an edit and a crash, with liveness | 1 recurring and 1 one-shot job, 1 manual caller, 1 edit or overlong run, 1 crash, catch-up of 1 job at once, concurrency 1 |

The bounds are chosen so that each kind of interference happens at least once:
two contenders for a cap of one, one message more than the cap, one failure and one
retry, one reset or crash and work after it. A third contender repeats the
interference of the second: no guard of the code counts beyond "full" and "empty".
MAX_RETRIES is 5 in the code; 2 reaches the first attempt, a retry and the limit.
MAX_RESTART_ATTEMPTS is 10; 1 reaches a restart and the limit. With a catch-up of
one job at once and two jobs, one is deferred; with concurrency 1 the second job
of a tick waits while the first executes.
Deadlock is checked for the lanes, where an idle gateway can always be called; in
the other instances the bounded inputs run out and everything may be done.

Runs that TLC must find violated, each a disagreement between the code and what
its documentation, comments or tests say; `findings` in `PROJECT.json` has the quotes.

| run | what TLC shows |
|---|---|
| `delivery_best_effort` | a bestEffort entry whose send failed is acked and gone |
| `cron_interrupted` | a one-shot job interrupted by a crash is kept out of the catch-up and then run again by the first tick |

The models have further behaviours worth a look at the code. Each is reproduced by
the module named here with the property and constants given:

- `FollowupQueue`, `NoMessageLost`: with `DropPolicy = "summarize"` a message that
  arrives at a full queue during a turn makes the drop policy take the entry being
  answered off the head, and the splice after the turn removes the new one
  (`drain.ts:222`, while `docs/concepts/queue.md:31` has collect "coalesce all
  queued messages"). In followup mode the turn of the overflow summary also
  consumes a queued message it does not quote (`drain.ts:238`). With
  `MayClear = TRUE` a drain that outlives a clear deletes the session's new queue
  from the map (`drain.ts:266`). In followup mode a summary without queued messages
  is never injected while the drain restarts for ever (`drain.ts:250`).
- `FollowupQueue`, `TurnsOnce` without `forgotten`: a redelivery after the first delivery
  has left the queue and its id was forgotten gets a second turn, and so does one of a
  message without an id (`enqueue.ts:48`).
- `FollowupQueue`, `QueuedRunsFollow` without `behind`: a handler that read the
  session id before a rollover queues its message after it, and neither that
  rollover nor a later one corrects the id (`state.ts:125` compares with the
  previous one).
- `GatewayRunLoop`: `DrainFlagTemporary` and `RestartHonoured` without
  `restartDropped` fail: a restart request handled during a start marks the lanes
  draining, its restart is dropped, and no iteration undoes the mark
  (`run-loop.ts:160`). `LockHeldAfterFailedStart` fails: a failed in-process start
  releases the lock, and the next restart skips the reacquisition because it did
  not hold one (`run-loop.ts:107`). Queued tasks also start during the drain window
  and can be running when the server is torn down (`run-loop.ts:182`), and after a
  drain timeout `resetAllLanes` starts a session's next run beside the one it
  forgot (`command-queue.ts:347`).
- `DeliveryQueue`: `SendersExclusive` is about recoverers; with `Actors` in their place
  it fails, for a reconnect drain takes an entry whose live send is in flight for one
  left by a crash (`delivery-queue-recovery.ts:152`). `AckedNotReplayed` without
  `contended` fails in the same way, and also because the deferral's unclaimed read and
  write bring back an entry that somebody else acked in between.
- `HeartbeatWake`, `SingleFlight` without `late`: the late end of a batch of the old
  handler clears the running flag of the new lifecycle (`heartbeat-wake.ts:188`).
- `ChannelManager`, `MarkIsManual`: a restart whose stop times out leaves the account
  marked as stopped on purpose (`server-channels.ts:554`, whose comment at line 190
  speaks of accounts "that were manually stopped"): the start that follows finds
  the old task and returns before it lifts the mark. `ServingIsTracked` without
  `lost`: while a slow `stopAccount` hook runs, a start may register a provider whose
  entries the stop then deletes (`server-channels.ts:587`).
- `CronService`, `NoTwoRuns` with `Manuals = {m1, m2}` and no edits: a disabled job
  may be run by force, every maintenance clears the marker of a disabled job, and
  the second forced run overlaps the first (`jobs.ts:388`). A recurring
  job that comes due while the catch-up executes is left due by its last section, whose
  comment says such slots "should execute on a future tick instead of being silently
  advanced" (`timer.ts:1110`); the section of `start()` that follows recomputes every
  due job and advances the slot without a run (`ops.ts:142`). `StartKeepsSlots` fails on
  it, in the instance of `MCCronInterrupted.cfg` for one (the shortest trace has nothing
  to catch up); `add` does the same to all due
  slots (`ops.ts:271`). `NoSlotSkipped` and `DueJobRuns` name both. A one-shot job
  that is rescheduled while it executes is disabled by the result and loses the new
  schedule (`timer.ts:466`).

The passing runs leave the trigger of each finding out by a constant (`DropPolicy` and
`MayClear` of `followup`) or state it in the property (`forgotten`, `behind`,
`startFailed`, `restartDropped`, `BestEffort`, `contended`, `late`, `lost`, `loose`,
`SlotGivenUp`), never by a changed action, so that what they show holds of the same
code whenever that trigger is absent.

Every property of a passing run has a mutant in `PROJECT.json`: an operator next to
the one it replaces, named `<operator>_<change>`, that TLC shows to violate it.

## 4. Properties

- `CommandQueue`: `WorkConserving` (no lane with a free slot and a waiting task is
  left without an executing pump), `SlotsExact` (the counted slots are the running
  tasks of the present generation), `QueueExact`, `WaitersExact` (a waiter is
  answered neither too early nor never), `RefinesLaneService`, `AcceptedSettles`.
- `FollowupQueue`: `NoMessageLost`, `TurnsInOrder`, `TurnsOnce` (as long as the id of a
  message is remembered; never two of one message in one queue), `BatchUniform`,
  `SummaryOnce`, `QueuedRunsFollow` (what waits has the session's present id),
  `AcceptedGetsTurn`.
- `GatewayRunLoop`: `DrainFlagTemporary`, `LockHeldWhileServing`, `InFlightFinished`,
  `RestartHonoured`, `StopExits`.
- `DeliveryQueue`: `NoDeliveryLost`, `SendersExclusive` (two recoverers), `AttemptsBounded`
  and `AckedNotReplayed` (unless two actors had the entry in hand at once),
  `ClaimsReleased`, `BestEffortNotLost`.
- `HeartbeatWake`: `NoWakeLost` (nor downgraded), `PendingHasTimer`, `SingleFlight`,
  `HandlerStays` (disposers of predecessors do no harm), `WakeServed`.
- `ChannelManager`: `ServingIsTracked` (the next stop finds the provider),
  `NoSecondTask`, `StopHolds`, `CallsReturn` (also when a provider never ends).
- `CronService`: `DueJobRuns` (no job stays due for ever, crashes included, and a due
  job is executed unless an edit takes its slot, the catch-up puts it off or the end of
  the start advances it), `NoOverlap`, `MarkerHonest` (every
  marker belongs to a run that will clear it), `NoSlotSkipped`, `UserChoiceHolds`,
  `InterruptedNotRetried`.

Also stated, and true on the same instances, but implied by or less telling than
the above: the type invariants of the other modules, `DrainingHonest` (proved, see
section 6), `WorkIsDrained` and `NoClaimLeaked` (proved too), `RunningIsLive`,
`TimerAlive`.

## 5. Fairness

- Lanes: the executing callback goes on (weak, the event loop does not stop inside
  synchronous code), and a running task that can step eventually does (strong: its
  promise reaction is queued and gets its turn however many other callbacks run
  first; runs have timeouts). Nothing is assumed of callers.
- Followup queue: timers fire and runs end, because agent runs have timeouts and
  the debounce is a `setTimeout`. Weak fairness per actor.
- Run loop: its coroutines, the scheduler's timers and the waiters' timeouts go on
  (strong, since tasks and other callbacks interleave; one condition for the timeouts of
  all waiters, of which there are finitely many). Tasks need not end and a
  close need not return: the drain timeout and the force-exit timer take over.
- Heartbeat: armed timers fire, and the registered handler answers (its runs have
  timeouts); a handler that was replaced may hang for ever.
- Channels: awaits of the manager return and timers fire. A provider need not end,
  neither by itself nor after its abort: the timeout of the stop takes over.
- Cron: timers fire, sections under the lock end, and executions of ticks and of the
  catch-up end, at the latest with the job's timeout. Nothing is assumed of manual
  runs, edits, reads and crashes.
- Delivery: sends end and file operations return. Scans are not owed; they come
  with restarts and reconnects.

## 6. Proofs

The theorems hold for every value of the constants under the `...Assumption` of the
module they are about: any finite or infinite sets of messages, queues, entries,
jobs or targets the assumption admits, any bound. Every safety property and action
property of a passing run is a theorem (the second half of `DueJobRuns` aside). The inductive invariants were checked with
TLC on the instances of section 3 and variations of them before they were proved.
Where a run needs a trigger to be absent by a constant (section 3), the theorem has that
as a hypothesis; the others hold with the properties' own exceptions only.

**Lanes** (`CommandQueueProofs`)

| theorem | statement |
|---|---|
| `TypeCorrect` | `Spec => []TypeOK`; a cap never falls below one |
| `LanesWorkConserving` | `Spec => [](WorkConserving /\ DrainingHonest)` |
| `LanesExact`, `QueuesExact` | `Spec => [](QueueExact /\ SlotsExact)`, `Spec => []QueueExact` |
| `WaitersCorrect` | `Spec => []WaitersExact` |
| `CommandQueueImplementsLaneService` | `Spec => RefinesLaneService` |

*Work conservation* is inductive together with `DrainingHonest`, the fact that the
`draining` flag is up only while a pump of the lane is executing, which is what
makes the early return of `drainLane` harmless, and with "lanes are left to drain
only during a reset" (`ControlInv`). A nested pump started by a task that throws
may take the flag down under the outer pump; the invariant survives because it
asks for an executing pump and not for the flag.

*Exactness* needs two more facts (`TaskInv`): no task has a generation its lane has
not reached, so that the bump of `resetAllLanes` empties the set of current tasks
exactly when the code clears the slots; and the task in its synchronous part is
running. *Waiters* (`WaiterInv`): a waiter's ids are tasks that have started, so the
completion or the reset that takes the last of them out of its slot is a step that
notifies the waiters. *Refinement* maps the tasks in service to the running tasks of
the present generation; a completion from an older generation is then a stutter, a
start is `Begin` because the slots the pump counts are the tasks in service
(`SlotsExact`) and the task it takes has not been started before (`QueueExact`).

**Run loop** (`GatewayRunLoopProofs`)

| theorem | statement |
|---|---|
| `GatewayRunsTheQueue` | `GatewaySpec => Spec`: the gateway uses the lanes as their callers may |
| `LanesSurviveRestarts` | so `QueueExact`, `SlotsExact`, `WorkConserving`, `WaitersExact` hold in it |
| `RunLoopTypeCorrect` | `GatewaySpec => []GatewayTypeOK` |
| `LockHeld` | `GatewaySpec => []LockHeldWhileServing` |
| `DrainFlagUndone` | `GatewaySpec => []DrainFlagTemporary` |
| `RestartsWait` | `GatewaySpec => []InFlightFinished` |

`RunInv` relates the loop, its resolver and the request; `LockInv` says that only a
restart gives the lock up and takes it again before the loop goes on; `FlagInv` that
the drain flag is up only from the mark to the iteration that clears it, or until then
because the restart was dropped. `RestartInv`
keeps, for the restart under way, a waiter that was called with the tasks that ran
at the signal, so `WaitersExact` of the lanes says what its answer means.

**Followup queue** (`FollowupQueueProofs`)

| theorem | statement |
|---|---|
| `TypeCorrect` | `Spec => []TypeOK`, with the bounds of queue and summary |
| `BatchesUniform` | `Spec => []BatchUniform` |
| `OneTurnEach` | `Spec => []TurnsOnce` |
| `SummariesOnce` | `Spec => SummaryOnce` |
| `OrderUntilOverflow` | `Spec => [](Untouched => NoMessageLost /\ TurnsInOrder /\ WorkIsDrained /\ QueuedRunsFollow)` |
| `MessagesKept`, `TurnsOrdered`, `RunsFollow` | with `DropPolicy = "new"` and no clears: `[]NoMessageLost`, `[]TurnsInOrder`, `[]QueuedRunsFollow` |

The first four hold whatever is dropped, cleared, redelivered or thrown. `TurnsOnce`
needs `IdsOnce`: the id of a delivery that was pushed is remembered or was forgotten,
and while it is remembered no other delivery of the message is pushed; `DoneInv`: a
delivery is handled once; and `OnceInv`: each pushed message is in one place of one queue, in one summary, in
the batch or the rest of one drain, or in the past; and a message that a drain has
taken and that still waits is no further from the head than it was, so that the
removal by count after the turn covers it. That is why dropping at the head or a clear
can lose a message (the finding of section 3) but never repeat one. The order is
inductive only as long as nothing has been dropped or cleared (`Untouched`): then one
drain at most executes, on the queue in the map; what was accepted is what had turns
followed by what waits; and batch followed by rest is the head of what waits
(`InOrder`). With the policy "new" and without clears `Untouched` is itself invariant.

**Delivery queue** (`DeliveryQueueProofs`)

| theorem | statement |
|---|---|
| `TypeCorrect` | `Spec => []TypeOK` |
| `NothingLost` | `Spec => []NoDeliveryLost` |
| `ClaimsHeld` | `Spec => []NoClaimLeaked` |
| `SendersDisjoint` | `Spec => []SendersExclusive` |
| `AttemptsLimited` | `Spec => []AttemptsBounded` |
| `NoReplayAfterAck` | `Spec => AckedNotReplayed` |

All hold for any number of recoverers, budgets and crashes, live sends and deferrals
overlapping with them. `ClaimInv` ties the claims to the positions of the recoverers.
An entry that is not in `contended` has one actor at a time (`OneActor`); for those
`FileInv` says that a count that was read is still the one in the file and that an
acked entry has no file, `AttemptsCounted` that every attempt but the one under way is
in the file or was cut off by a crash.

**Heartbeat wake, channel manager, cron service**

| theorem | statement |
|---|---|
| `HeartbeatWakeProofs`: `TypeCorrect`, `WakesKept`, `PendingArmed`, `LatestHandlerStays`, `BatchesExclusive` | `[]` of `TypeOK`, `NoWakeLost`, `PendingHasTimer`, `HandlerStays`, `SingleFlight` |
| `ChannelManagerProofs`: `TypeCorrect`, `ProvidersTracked`, `OneTask`, `StopsHold` | `[]` of `TypeOK`, `ServingIsTracked`, `NoSecondTask`, `StopHolds` |
| `CronServiceProofs`: `TypeCorrect`, `JobsRunOnce`, `MarkersOwned`, `SlotsKept`, `UserChoiceKept` | `[]` of `TypeOK`, `NoOverlap`, `MarkerHonest`, `NoSlotSkipped`, `UserChoiceHolds` |

`HeartbeatInv` adds to the properties that every batch stems from a request or a
retry of its own, hence a free identity for the next one, and that the running flag is
up while a batch of the registered handler executes. `ChannelInv`: who has reserved
the account, who has the task and whose abort is in the map (`MapsInv`); that no start
gets between a stop and its return where there is no `stopAccount` hook (`StopInv`);
and that after a stop whatever could serve is aborted (`WantedInv`). `CronInv` holds
job by job (`JobInv`): memory and file differ only in markers and in next runs that
were computed in memory alone, every execution is marked in both, every marker has an
execution, a slot that came due is due in the file.

**Only model-checked.** All liveness: `AcceptedSettles`, `AcceptedGetsTurn`,
`RestartHonoured`, `StopExits`, `ClaimsReleased`, `WakeServed`, `CallsReturn`,
`DueJobRuns` (with its action part); TLAPS proves nothing about fairness or ENABLED. The properties of the
two violated runs are false and have no theorem.

## 7. What is left out, and why

- Within the modelled components: logging, wait warnings, prompt and summary
  wording, cooldown and backoff durations (whether a time has passed is open), I/O
  errors other than a missing file, entries in old formats, the parts of a message
  that is sent in several, a cap or drop policy that changes while messages wait,
  the steer modes, supervisor-specific respawn commands, the rate limits of the
  health monitor and the snapshot of the statuses that it takes before its loop over the
  accounts (the model reads the status at the call; a check on an outdated one is the
  `restart` operation).
- Of the cron service: what executes a job, errors of the schedule computation and
  the automatic disabling after several of them, failed writes of the file, the
  re-arming of a timer that fires during a tick, the second service that a config
  reload starts on the same file while runs of the first are in flight
  (`src/gateway/server-reload-handlers.ts:91`), and calls before `start`.
- The agent loop, model providers, channel plugins, UI, native apps and CLI talk to
  outside services and carry no protocol state that small instances would exercise.
- The components marked `not_modelled` with "Planned" in `PROJECT.json`: see the plan.

## 8. Plan

In order of importance, first the parts whose failures lose messages or work:

1. Done: lanes, followup queue, run loop, delivery queue, heartbeat wake, channel
   manager, cron service; proofs of their safety.
2. Next: `ExecApprovals`; `GatewayLock` and `SessionWriteLock` with an abstract lock
   as the specification they implement; `ReplyRunRegistry` as a module of its own
   that `FollowupQueue` composes; the config reload that replaces the cron service.
   Bounds as above: two contenders, one failure, one restart.
3. Proofs: theorems for the modules of item 2; that the lock modules implement the
   abstract lock; an abstract specification of the followup queue (a bounded queue
   that hands out its head) implemented while `Untouched` holds.

## 9. Running

    tlc -config MCCommandQueue.cfg MCCommandQueue
    tlapm FollowupQueueProofs.tla
