----------------------------- MODULE CronService -----------------------------
(***************************************************************************)
(* The cron service of cron/service/: the job store in memory and on disk, *)
(* the timer and its ticks, the catch-up after a restart, manual runs, the *)
(* edits of users and of agents, crashes of the gateway.                   *)
(*                                                                         *)
(* Every section under the lock of the store is one step, executions are   *)
(* between two of them.  Times are left out: the next run of a job is      *)
(* "none", "future" or "due", the environment makes what is in the future  *)
(* due, and the running marker of a job is "no", "set", or "old" when it   *)
(* is older than STUCK_RUN_MS.  Executions and their outcomes are open; an *)
(* error without a retry also stands for a run that was skipped, and how a *)
(* recurring job ends makes no difference here.                            *)
(***************************************************************************)
EXTENDS Naturals, FiniteSets

CONSTANTS
  Recurring, OneShot,   \* the jobs with schedule every or cron, and at
  LongRuns,             \* the jobs that may run for longer than STUCK_RUN_MS
  Manuals,              \* calls of run and enqueueRun
  MaxConcurrent,        \* resolveRunConcurrency
  MaxImmediate,         \* maxMissedJobsPerRestart
  MaxCrashes,           \* bound on the crashes
  MaxEvents             \* bound on the edits of users and on overlong runs

Jobs == Recurring \cup OneShot

ASSUME CronAssumption ==
  /\ Recurring \cap OneShot = {} /\ Jobs # {}
  /\ LongRuns \subseteq Jobs
  /\ MaxConcurrent \in Nat \ {0} /\ MaxImmediate \in Nat
  /\ MaxCrashes \in Nat /\ MaxEvents \in Nat

VARIABLES
  phase,       \* how far the gateway is with the start of the service
  mem, disk,   \* the store of the service and the file
  atPassed,    \* the one-shot jobs whose time has come
  timer,       \* whether a timer is armed
  batch,       \* batch[b][j]: job j in the tick or in the catch-up
  reloaded,    \* the store was read again since the tick took its jobs from it
  skipJobIds,  \* the jobs that the catch-up is not to run
  deferred,    \* the missed jobs that the catch-up has put off
  manual,      \* manual[m]: the job and the progress of a manual run
  crashes, events,
  owed,        \* history: jobs that came due while idle and have not been run since
  loose,       \* history: jobs whose marker was cleared while they executed
  userOff,     \* history: jobs disabled or removed by the last edit of them
  interrupted  \* history: one-shot jobs that a crash interrupted, until they run again

store == <<mem, disk, atPassed>>
history == <<owed, loose, userOff, interrupted>>
plan == <<skipJobIds, deferred>>
vars == <<phase, store, timer, batch, reloaded, plan, manual, crashes, events, history>>

Absent == [present |-> FALSE, enabled |-> FALSE, next |-> "none", marker |-> "no",
           status |-> "none"]
NewJob == [present |-> TRUE, enabled |-> TRUE, next |-> "future", marker |-> "no",
           status |-> "none"]
Outcomes == {"ok", "error"}
OutcomesOf(j) == IF j \in Recurring THEN {"ok"} ELSE Outcomes
Batches == {"tick", "catchup"}
NoBatch == [j \in Jobs |-> "none"]
NoRun == [pc |-> "idle", job |-> CHOOSE j \in Jobs : TRUE, early |-> FALSE]

Init ==
  /\ phase = "down" /\ disk \in [Jobs -> {Absent, NewJob}]
  /\ \A j \in Recurring : disk[j] = NewJob
  /\ mem = disk
  /\ atPassed = {} /\ timer = FALSE
  /\ batch = [b \in Batches |-> NoBatch] /\ reloaded = FALSE
  /\ skipJobIds = {} /\ deferred = {}
  /\ manual = [m \in Manuals |-> NoRun]
  /\ crashes = 0 /\ events = 0
  /\ owed = {} /\ loose = {} /\ userOff = {} /\ interrupted = {}
-----------------------------------------------------------------------------
(* What jobs.ts and timer.ts compute on the records of the store.          *)

\* A one-shot job is due until it has succeeded; "early" is a success before its
\* time: in a run that was forced, or before it was scheduled again.
computeJobNextRunAtMs(j, r, passed) ==
  CASE ~r.enabled -> "none"
    [] r.enabled /\ j \in Recurring -> "future"
    [] r.enabled /\ j \in OneShot ->
         IF r.status = "ok" THEN "none" ELSE IF j \in passed THEN "due" ELSE "future"

normalizeJobTickState(r) ==
  IF ~r.enabled THEN [r EXCEPT !.next = "none", !.marker = "no"]
  ELSE [r EXCEPT !.marker = IF @ = "old" THEN "no" ELSE @]

Recompute(st, nexts) ==
  [j \in Jobs |-> LET r == normalizeJobTickState(st[j]) IN
     IF r.enabled /\ r.next \in nexts THEN [r EXCEPT !.next = computeJobNextRunAtMs(j, r, atPassed)]
     ELSE r]

\* Recomputes what is missing or due: a due slot that has not run is skipped.
recomputeNextRuns(st) == Recompute(st, {"none", "due"})

\* Mutant: the maintenance also advances what is due.
recomputeNextRunsForMaintenance_full(st) == Recompute(st, {"none", "due"})

\* Recomputes what is missing only.  (With recomputeExpired also a slot that has
\* run; every result has moved that one already.)
recomputeNextRunsForMaintenance(st) == Recompute(st, {"none"})

\* The jobs whose due slot recomputeNextRuns gives up.
Skipped(st) == {j \in Jobs : st[j].next = "due" /\ recomputeNextRuns(st)[j].next # "due"}

\* For the next run, or for a recheck when jobs are enabled but none is planned.
armTimer(st) == \E j \in Jobs : st[j].enabled

\* Mutant: a tick, like the catch-up, leaves a one-shot job alone that has a status.
isRunnableJob_ranOnce(j, r) ==
  /\ r.enabled /\ r.marker = "no" /\ r.next = "due"
  /\ j \in OneShot => r.status = "none"

isRunnableJob(j, r) == r.enabled /\ r.marker = "no" /\ r.next = "due"

\* The record after a run; option: the job is deleted after its success, or its
\* error is transient and attempts are left.
applyJobResult(j, r, outcome, early, option) ==
  LET done == [r EXCEPT !.marker = "no",
                 !.status = IF outcome = "ok" /\ early THEN "early" ELSE outcome] IN
  CASE j \in OneShot /\ outcome = "ok" /\ option -> Absent
    [] j \in OneShot /\ outcome = "error" /\ option -> [done EXCEPT !.next = "future"]
    [] j \in Recurring ->
         [done EXCEPT !.next = IF r.enabled THEN "future" ELSE "none"]
    [] OTHER -> [done EXCEPT !.enabled = FALSE, !.next = "none"]

\* The results of a batch applied to a store; a removed job stays removed.
applyOutcomes(st, b, option) ==
  [j \in Jobs |->
     IF batch[b][j] = "none" \/ ~st[j].present THEN st[j]
     ELSE applyJobResult(j, st[j], batch[b][j], FALSE, option)]

Marked(st, js) == [j \in Jobs |-> IF j \in js THEN [st[j] EXCEPT !.marker = "set"] ELSE st[j]]
Waiting(js) == [j \in Jobs |-> IF j \in js THEN "waiting" ELSE "none"]
BatchOver(b) == \A j \in Jobs : batch[b][j] \notin {"waiting", "running"}
TickRunning == batch["tick"] # NoBatch

\* The store after a section that saves what it has changed.
Stored(st) == mem' = st /\ disk' = st
StoredIfChanged(st) == mem' = st /\ disk' = IF st = mem THEN disk ELSE st
-----------------------------------------------------------------------------
(* The start of the service and the catch-up.                              *)

\* Mutant: the markers of a crashed gateway are kept.
Unmarked_none(st) == st

\* No run of an earlier process is alive.
Unmarked(st) == [j \in Jobs |-> [st[j] EXCEPT !.marker = "no"]]

\* The first section: load the file, clear the markers.
Start ==
  /\ phase = "down"
  /\ phase' = "plan"
  /\ Stored(Unmarked(disk))
  /\ skipJobIds' = {j \in OneShot : disk[j].marker # "no"}
  /\ interrupted' = interrupted \cup skipJobIds'
  /\ UNCHANGED <<atPassed, timer, batch, reloaded, deferred, manual, crashes, events, owed,
                 loose, userOff>>

\* Due jobs are missed, except one-shots that were interrupted or have run; a
\* retry, and a slot before the next one, may count as missed.
Missed ==
  {j \in Jobs : isRunnableJob(j, mem[j]) /\ j \notin skipJobIds
                /\ (j \in OneShot => mem[j].status = "none")}
MaybeMissed ==
  {j \in Jobs : mem[j].enabled /\ mem[j].marker = "no" /\ j \notin skipJobIds
                /\ mem[j].status # "none"
                /\ (j \in OneShot => mem[j].status = "error" /\ mem[j].next = "due")}

planStartupCatchup ==
  /\ phase = "plan"
  /\ \E more \in SUBSET MaybeMissed :
       LET missed == Missed \cup more IN
       IF missed = {}
       THEN /\ phase' = "finish"
            /\ UNCHANGED <<mem, disk, batch, deferred>>
       ELSE \E now \in SUBSET missed :
            /\ now = missed \/ Cardinality(now) = MaxImmediate
            /\ Cardinality(now) <= MaxImmediate
            /\ phase' = "catchup"
            /\ Stored(Marked(mem, now))
            /\ batch' = [batch EXCEPT !["catchup"] = Waiting(now)]
            /\ deferred' = missed \ now
  /\ skipJobIds' = {}
  /\ UNCHANGED <<atPassed, timer, reloaded, manual, crashes, events, history>>

applyStartupCatchupOutcomes(option) ==
  /\ phase = "catchup" /\ BatchOver("catchup")
  /\ LET st == applyOutcomes(mem, "catchup", option) IN
     Stored(recomputeNextRunsForMaintenance(
       [j \in Jobs |-> IF j \in deferred /\ st[j].enabled
                       THEN [st[j] EXCEPT !.next = "future"] ELSE st[j]]))
  /\ phase' = "finish"
  /\ batch' = [batch EXCEPT !["catchup"] = NoBatch]
  /\ deferred' = {}
  /\ owed' = owed \ deferred
  /\ UNCHANGED <<atPassed, timer, reloaded, skipJobIds, manual, crashes, events, loose,
                 userOff, interrupted>>

\* The last section of the start.
StartDone ==
  /\ phase = "finish"
  /\ phase' = "up"
  /\ StoredIfChanged(recomputeNextRuns(mem))
  /\ timer' = armTimer(mem')
  /\ owed' = owed \ Skipped(mem)
  /\ UNCHANGED <<atPassed, batch, reloaded, plan, manual, crashes, events, loose, userOff,
                 interrupted>>
-----------------------------------------------------------------------------
(* The timer.                                                              *)

\* A timer that fires during a tick is armed again and does nothing else; the
\* step is left out.  A tick that finds nothing due does maintenance.
TickIdle ==
  /\ phase # "down" /\ timer /\ ~TickRunning
  /\ \A j \in Jobs : ~isRunnableJob(j, disk[j])
  /\ Stored(recomputeNextRunsForMaintenance(disk))
  /\ timer' = armTimer(mem')
  /\ UNCHANGED <<phase, atPassed, batch, reloaded, plan, manual, crashes, events, history>>

\* The due jobs are marked in the file before the lock is released.
TickCollects ==
  LET due == {j \in Jobs : isRunnableJob(j, disk[j])} IN
  /\ phase # "down" /\ timer /\ ~TickRunning
  /\ due # {}
  /\ Stored(Marked(disk, due))
  /\ batch' = [batch EXCEPT !["tick"] = Waiting(due)]
  /\ reloaded' = FALSE
  /\ UNCHANGED <<phase, atPassed, timer, plan, manual, crashes, events, history>>

\* All jobs of the tick have ended; the results go to the reloaded store.
TickApplies(option) ==
  /\ TickRunning /\ BatchOver("tick")
  /\ Stored(recomputeNextRunsForMaintenance(applyOutcomes(disk, "tick", option)))
  /\ batch' = [batch EXCEPT !["tick"] = NoBatch]
  /\ timer' = armTimer(mem') /\ reloaded' = FALSE
  /\ UNCHANGED <<phase, atPassed, plan, manual, crashes, events, history>>

\* A worker takes a job of its batch; the catch-up runs one at a time.  A tick
\* sets the marker again, in the record that it took from the store.
ExecStart(b, j) ==
  /\ batch[b][j] = "waiting"
  /\ Cardinality({k \in Jobs : batch[b][k] = "running"})
       < (IF b = "tick" THEN MaxConcurrent ELSE 1)
  /\ batch' = [batch EXCEPT ![b][j] = "running"]
  /\ mem' = IF b = "tick" /\ ~reloaded /\ mem[j].present THEN Marked(mem, {j}) ELSE mem
  /\ owed' = owed \ {j}
  /\ UNCHANGED <<phase, disk, atPassed, timer, reloaded, plan, manual, crashes, events, loose,
                 userOff, interrupted>>

ExecEnd(b, j, outcome) ==
  /\ batch[b][j] = "running"
  /\ batch' = [batch EXCEPT ![b][j] = outcome]
  /\ interrupted' = interrupted \ {j}
  /\ UNCHANGED <<phase, store, timer, reloaded, plan, manual, crashes, events, owed, loose,
                 userOff>>
-----------------------------------------------------------------------------
(* Manual runs.                                                            *)

RunFrom(m, pc) == manual[m].pc = pc
RunTo(m, pc) == manual' = [manual EXCEPT ![m].pc = pc]

\* The first section of run: maintenance in memory only, then whether the job may
\* run.  enqueueRun makes the same check and then calls run from the cron lane.
inspectManualRunPreflight(m, j, forced) ==
  LET st == recomputeNextRunsForMaintenance(mem) IN
  /\ phase # "down" /\ RunFrom(m, "idle")
  /\ mem' = st
  /\ manual' = [manual EXCEPT ![m] =
       IF st[j].present /\ st[j].marker = "no"
            /\ (forced \/ (st[j].enabled /\ st[j].next = "due"))
       THEN [@ EXCEPT !.pc = "checked", !.job = j] ELSE @]
  /\ UNCHANGED <<phase, disk, atPassed, timer, batch, reloaded, plan, crashes, events, history>>

\* Mutant: the reservation trusts the check made under an earlier lock.
MayReserve_checked(j) == mem[j].present

\* The job is still there and nobody has started it in the meantime.
MayReserve(j) == mem[j].present /\ mem[j].marker = "no"

\* The reservation, in a second section.
prepareManualRun(m) ==
  LET j == manual[m].job IN
  /\ RunFrom(m, "checked")
  /\ IF MayReserve(j)
     THEN /\ Stored(Marked(mem, {j}))
          /\ manual' = [manual EXCEPT ![m] =
               [@ EXCEPT !.pc = "running", !.early = j \in OneShot \ atPassed]]
          /\ owed' = owed \ {j} /\ interrupted' = interrupted \ {j}
          /\ loose' = IF mem[j].enabled THEN loose ELSE loose \cup {j}
     ELSE /\ manual' = [manual EXCEPT ![m] = NoRun]
          /\ UNCHANGED <<mem, disk, owed, loose, interrupted>>
  /\ UNCHANGED <<phase, atPassed, timer, batch, reloaded, plan, crashes, events, userOff>>

ManualEnds(m, outcome) ==
  /\ RunFrom(m, "running")
  /\ RunTo(m, outcome)
  /\ UNCHANGED <<phase, store, timer, batch, reloaded, plan, crashes, events, history>>

\* Mutant: the merged job is enabled as it was when the run was prepared.
mergeManualRunSnapshotAfterReload_prepared(reload, r) ==
  IF reload.present THEN [r EXCEPT !.enabled = r.present] ELSE reload

\* The snapshot taken after the run goes into the reloaded store, or the job out
\* of it; a job that is not there any more stays away.
mergeManualRunSnapshotAfterReload(reload, r) == IF reload.present THEN r ELSE reload

\* The result: applied in memory, then merged into the reloaded store.
finishPreparedManualRun(m, option) ==
  LET j == manual[m].job
      r == applyJobResult(j, mem[j], manual[m].pc, manual[m].early, option) IN
  /\ manual[m].pc \in Outcomes
  /\ manual' = [manual EXCEPT ![m] = NoRun]
  /\ IF mem[j].present
     THEN /\ Stored(recomputeNextRunsForMaintenance(
               [disk EXCEPT ![j] = mergeManualRunSnapshotAfterReload(@, r)]))
          /\ timer' = armTimer(mem')
          /\ reloaded' = TickRunning
     ELSE UNCHANGED <<mem, disk, timer, reloaded>>
  /\ UNCHANGED <<phase, atPassed, batch, plan, crashes, events, history>>
-----------------------------------------------------------------------------
(* Edits and reads by users and agents.                                    *)

InFlight(j) ==
  \/ \E b \in Batches : batch[b][j] # "none"
  \/ \E m \in Manuals : manual[m].job = j /\ manual[m].pc \in {"running"} \cup Outcomes

Edit ==
  /\ phase # "down" /\ events < MaxEvents
  /\ events' = events + 1
  /\ UNCHANGED <<phase, batch, reloaded, plan, manual, crashes>>

\* add, under an id that nothing refers to.
add(j) ==
  /\ Edit
  /\ ~mem[j].present /\ ~InFlight(j) /\ \A m \in Manuals : manual[m].job # j \/ RunFrom(m, "idle")
  /\ Stored(recomputeNextRuns([mem EXCEPT ![j] = NewJob]))
  /\ timer' = armTimer(mem')
  /\ atPassed' = atPassed \ {j}
  /\ owed' = owed \ (Skipped(mem) \cup {j})
  /\ userOff' = userOff \ {j} /\ interrupted' = interrupted \ {j}
  /\ UNCHANGED loose

\* update with a new schedule in the future, or with enabled.
update(j, what) ==
  LET r == [mem[j] EXCEPT
              !.enabled = IF what = "schedule" THEN @ ELSE what = "enable",
              !.status = IF what = "schedule" /\ @ = "ok" THEN "early" ELSE @]
      passed == IF what = "schedule" THEN atPassed \ {j} ELSE atPassed
      new == IF r.enabled THEN [r EXCEPT !.next = computeJobNextRunAtMs(j, r, passed)]
             ELSE [r EXCEPT !.next = "none", !.marker = "no"] IN
  /\ Edit
  /\ mem[j].present
  /\ atPassed' = passed
  /\ Stored([mem EXCEPT ![j] = new])
  /\ timer' = armTimer(mem')
  /\ owed' = (owed \ {j}) \cup {k \in {j} : new.next = "due" /\ ~InFlight(j)}
  /\ loose' = IF new.enabled \/ ~InFlight(j) THEN loose ELSE loose \cup {j}
  /\ userOff' = IF new.enabled THEN userOff \ {j} ELSE userOff \cup {j}
  /\ interrupted' = interrupted \ {j}

remove(j) ==
  /\ Edit
  /\ mem[j].present
  /\ Stored([mem EXCEPT ![j] = Absent])
  /\ timer' = armTimer(mem')
  /\ owed' = owed \ {j} /\ userOff' = userOff \cup {j}
  /\ UNCHANGED <<atPassed, loose, interrupted>>

\* status and list.
ensureLoadedForRead ==
  /\ phase # "down"
  /\ StoredIfChanged(recomputeNextRunsForMaintenance(mem))
  /\ UNCHANGED <<phase, atPassed, timer, batch, reloaded, plan, manual, crashes, events, history>>
-----------------------------------------------------------------------------
(* Time and crashes.                                                       *)

Ripe(st, j) == IF st[j].next = "future" THEN [st EXCEPT ![j].next = "due"] ELSE st

\* The next run of a job comes due, in memory and in the file.
ComesDue(j) ==
  /\ mem[j].next = "future" \/ disk[j].next = "future" \/ j \in OneShot \ atPassed
  /\ mem' = Ripe(mem, j) /\ disk' = Ripe(disk, j)
  /\ atPassed' = atPassed \cup ({j} \cap OneShot)
  /\ owed' = IF disk[j].next = "future" /\ ~InFlight(j) THEN owed \cup {j} ELSE owed
  /\ UNCHANGED <<phase, timer, batch, reloaded, plan, manual, crashes, events, loose, userOff,
                 interrupted>>

Aged(st, j) == IF st[j].marker = "set" THEN [st EXCEPT ![j].marker = "old"] ELSE st

\* A job has been running for longer than STUCK_RUN_MS.
MarkerAges(j) ==
  /\ phase # "down" /\ j \in LongRuns
  /\ events < MaxEvents /\ events' = events + 1
  /\ mem[j].marker = "set" \/ disk[j].marker = "set"
  /\ mem' = Aged(mem, j) /\ disk' = Aged(disk, j)
  /\ loose' = loose \cup {j}
  /\ UNCHANGED <<phase, atPassed, timer, batch, reloaded, plan, manual, crashes, owed,
                 userOff, interrupted>>

\* The gateway dies: what is left is the file.
Crash ==
  /\ phase # "down" /\ crashes < MaxCrashes
  /\ crashes' = crashes + 1
  /\ phase' = "down" /\ mem' = disk /\ timer' = FALSE
  /\ batch' = [b \in Batches |-> NoBatch] /\ reloaded' = FALSE
  /\ skipJobIds' = {} /\ deferred' = {}
  /\ manual' = [m \in Manuals |-> NoRun]
  /\ loose' = {}
  /\ UNCHANGED <<disk, atPassed, events, owed, userOff, interrupted>>

Service ==
  \/ Start \/ planStartupCatchup \/ StartDone \/ TickIdle \/ TickCollects
  \/ \E option \in BOOLEAN : applyStartupCatchupOutcomes(option) \/ TickApplies(option)

Execution(b, j) == ExecStart(b, j) \/ \E o \in OutcomesOf(j) : ExecEnd(b, j, o)

ManualStep(m) ==
  \/ prepareManualRun(m) \/ \E o \in OutcomesOf(manual[m].job) : ManualEnds(m, o)
  \/ \E option \in BOOLEAN : finishPreparedManualRun(m, option)

Environment ==
  \/ ensureLoadedForRead \/ Crash
  \/ \E j \in Jobs :
       \/ add(j) \/ remove(j) \/ ComesDue(j) \/ MarkerAges(j)
       \/ \E what \in {"enable", "disable", "schedule"} : update(j, what)
       \/ \E m \in Manuals, forced \in BOOLEAN :
            inspectManualRunPreflight(m, j, forced)

Next ==
  \/ Service \/ Environment
  \/ \E b \in Batches, j \in Jobs : Execution(b, j)
  \/ \E m \in Manuals : ManualStep(m)

Spec == Init /\ [][Next]_vars

\* Timers fire, sections under the lock end, and so do the executions of ticks and
\* of the catch-up, at the latest with the timeout of their job.
FairSpec ==
  /\ Spec
  /\ WF_vars(Service)
  /\ \A b \in Batches : WF_vars(\E j \in Jobs : Execution(b, j))
-----------------------------------------------------------------------------
Records == [present : BOOLEAN, enabled : BOOLEAN, next : {"none", "future", "due"},
            marker : {"no", "set", "old"}, status : {"none", "early"} \cup Outcomes]

\* The types of the state.
TypeOK ==
  /\ phase \in {"down", "plan", "catchup", "finish", "up"}
  /\ mem \in [Jobs -> Records] /\ disk \in [Jobs -> Records]
  /\ \A j \in Jobs : mem[j].present = disk[j].present /\ (mem[j].enabled => mem[j].present)
  /\ atPassed \subseteq OneShot /\ timer \in BOOLEAN
  /\ batch \in [Batches -> [Jobs -> {"none", "waiting", "running"} \cup Outcomes]]
  /\ reloaded \in BOOLEAN /\ skipJobIds \subseteq OneShot /\ deferred \subseteq Jobs
  /\ manual \in [Manuals -> [pc : {"idle", "checked", "running"} \cup Outcomes,
                             job : Jobs, early : BOOLEAN]]
  /\ {owed, loose, userOff, interrupted} \subseteq SUBSET Jobs

\* The executions of job j under way.
Executions(j) ==
  {b \in Batches : batch[b][j] = "running"}
    \cup {m \in Manuals : manual[m].job = j /\ RunFrom(m, "running")}

\* Ticks, the catch-up and manual runs never execute a job twice at the same
\* time, unless its marker was cleared under it: by disabling the job, because it
\* has been running for longer than STUCK_RUN_MS, or because the job was already
\* disabled when it was run on demand.
NoOverlap == \A j \in Jobs : j \in loose \/ Cardinality(Executions(j)) <= 1

\* No job is executed twice at the same time when nobody has edited it and it
\* does not run for longer than STUCK_RUN_MS.
NoTwoRuns == \A j \in Jobs : Cardinality(Executions(j)) <= 1

\* A marker belongs to a run that will end and clear it: no job is blocked by a
\* marker that was left behind.
MarkerHonest ==
  phase # "down" =>
    \A j \in Jobs : mem[j].marker # "no" \/ disk[j].marker # "no" => InFlight(j)

\* A slot that came due is not advanced without a run, except by add and by the
\* end of the start, which recompute every job, and for the jobs that the
\* catch-up puts off.
NoSlotSkipped == \A j \in owed : disk[j].next = "due"

\* The scheduler does not die: with a job enabled, a timer is armed.
TimerAlive == phase = "up" /\ (\E j \in Jobs : mem[j].enabled) => timer

\* No run that ends brings back a job that was disabled or removed during it.
UserChoiceHolds == \A j \in userOff : ~mem[j].enabled /\ ~disk[j].enabled

\* The start gives up a slot that came due: the catch-up puts the job off, or the last
\* section, which recomputes what is due, finds it due: that of a recurring job, which
\* came due since the catch-up was planned, or of a one-shot job that has succeeded.
SlotGivenUp(j) == j \in deferred \/ (phase = "finish" /\ j \in owed \cap Skipped(mem))

\* A job that came due does not stay due for ever, also when the gateway dies in
\* between; and it is executed, unless an edit takes its slot (add recomputes the slots
\* of all jobs) or the start gives it up.
DueJobRuns ==
  /\ \A j \in Jobs : j \in owed ~> j \notin owed
  /\ [][\A j \in owed \ owed' :
          Executions(j)' # {} \/ events' # events \/ SlotGivenUp(j)]_vars

\* The end of the start keeps what came due during the catch-up due, as the catch-up
\* has left it.
StartKeepsSlots ==
  [][phase = "finish" /\ phase' = "up" => \A j \in owed : disk'[j].next = "due"]_vars

\* A one-shot job that a crash interrupted is not run again unless somebody asks
\* for it.
InterruptedNotRetried ==
  \A j \in interrupted, b \in Batches : batch[b][j] # "running"
=============================================================================
