------------------------- MODULE CronServiceProofs -------------------------
(***************************************************************************)
(* Proofs about CronService, for every set of jobs and of manual runs and  *)
(* every value of the bounds.                                              *)
(***************************************************************************)
EXTENDS CronService, FiniteSetTheorems, TLAPS

Nexts == {"none", "future", "due"}
BatchPcs == {"none", "waiting", "running"} \cup Outcomes
Run == [pc : {"idle", "checked", "running"} \cup Outcomes, job : Jobs, early : BOOLEAN]

\* A job that is not there is not enabled and has no marker.
Coherent(r) == r \in Records /\ (~r.present => ~r.enabled /\ r.marker = "no")

\* In the store a job that is not enabled has no next run either.
WellFormed(r) == Coherent(r) /\ (~r.enabled => r.next = "none")

\* Record r of memory and record s of the file differ in markers, and in a next
\* run that was computed in memory only.
Agree(r, s) ==
  /\ r.present = s.present /\ r.enabled = s.enabled
  /\ s.next # "none" => r.next = s.next

\* Manual run m of job j is under way.
Held(m, j) == manual[m].job = j /\ manual[m].pc \in {"running"} \cup Outcomes

\* A job in flight is held once.
HeldOnce(j) ==
  /\ \A b, c \in Batches : batch[b][j] # "none" /\ batch[c][j] # "none" => b = c
  /\ \A m, n \in Manuals : Held(m, j) /\ Held(n, j) => m = n
  /\ \A b \in Batches, m \in Manuals : ~(batch[b][j] # "none" /\ Held(m, j))

\* A job in flight is marked, in memory and in the file, and held once, as long as
\* its marker was not cleared under it.
FlightMarked(j) ==
  j \notin loose =>
    /\ HeldOnce(j)
    /\ InFlight(j) /\ mem[j].present =>
         mem[j].enabled /\ mem[j].marker = "set" /\ disk[j].marker = "set"

\* A job that came due is due in the file until it is run.
OwedDue(j) ==
  j \in owed =>
    /\ disk[j].next = "due"
    /\ \A b \in Batches : batch[b][j] \in {"none", "waiting"}
    /\ \A m \in Manuals : ~Held(m, j)

\* All that holds of one job.
JobInv(j) ==
  /\ WellFormed(mem[j]) /\ WellFormed(disk[j]) /\ Agree(mem[j], disk[j])
  /\ FlightMarked(j)
  /\ OwedDue(j)
  /\ phase # "down" /\ (mem[j].marker # "no" \/ disk[j].marker # "no") => InFlight(j)
  /\ phase = "down" => ~InFlight(j)
  /\ j \in userOff => ~mem[j].enabled

\* The types, the jobs of the catch-up in its phase only, and no manual run while
\* the gateway is down.
ControlInv ==
  /\ phase \in {"down", "plan", "catchup", "finish", "up"}
  /\ mem \in [Jobs -> Records] /\ disk \in [Jobs -> Records]
  /\ atPassed \subseteq OneShot /\ timer \in BOOLEAN
  /\ batch \in [Batches -> [Jobs -> BatchPcs]]
  /\ reloaded \in BOOLEAN /\ skipJobIds \subseteq OneShot /\ deferred \subseteq Jobs
  /\ manual \in [Manuals -> Run]
  /\ owed \subseteq Jobs /\ loose \subseteq Jobs
  /\ userOff \subseteq Jobs /\ interrupted \subseteq Jobs
  /\ phase # "catchup" => batch["catchup"] = NoBatch
  /\ phase = "down" => \A m \in Manuals : manual[m].pc = "idle"

CronInv == ControlInv /\ \A j \in Jobs : JobInv(j)
-----------------------------------------------------------------------------
(* The operators on records.                                               *)

\* Fields of records that are made or changed.
LEMMA RecordFields ==
  /\ Absent \in Records /\ NewJob \in Records
  /\ \A r \in Records :
       /\ r.present \in BOOLEAN /\ r.enabled \in BOOLEAN /\ r.next \in Nexts
       /\ r.marker \in {"no", "set", "old"} /\ r.status \in {"none", "early"} \cup Outcomes
BY DEF Records, Absent, NewJob, Nexts

\* The next run of a job.
LEMMA NextRunType ==
  ASSUME NEW j \in Jobs, NEW r \in Records, NEW passed
  PROVE  computeJobNextRunAtMs(j, r, passed) \in Nexts
BY RecordFields DEF computeJobNextRunAtMs, Jobs, Nexts

\* Record r may become s without an end of a run: what may change is the next run,
\* and a marker that is gone.
Kept(r, s) ==
  /\ WellFormed(s)
  /\ s.present = r.present /\ s.enabled = r.enabled
  /\ r.enabled /\ r.marker = "set" => s.marker = "set"
  /\ s.marker # "no" => r.marker # "no"

\* A record is kept as it is.
LEMMA KeptRefl ==
  ASSUME NEW r, WellFormed(r)
  PROVE  Kept(r, r)
BY DEF Kept

\* Normalizing a coherent record.
LEMMA NormalizeFields ==
  ASSUME NEW r, Coherent(r)
  PROVE  Kept(r, normalizeJobTickState(r))
         /\ (r.enabled => normalizeJobTickState(r).next = r.next)
<1> DEFINE s == normalizeJobTickState(r)
<1>1. r \in Records
  BY DEF Coherent
<1>2. CASE ~r.enabled
  <2>1. s = [r EXCEPT !.next = "none", !.marker = "no"]
    BY <1>2 DEF normalizeJobTickState
  <2>2. /\ s \in Records /\ s.present = r.present /\ s.enabled = r.enabled
        /\ s.next = "none" /\ s.marker = "no"
    BY <1>1, <2>1 DEF Records
  <2> QED BY <1>2, <2>2 DEF Kept, WellFormed, Coherent
<1>3. CASE r.enabled
  <2>1. s = [r EXCEPT !.marker = IF @ = "old" THEN "no" ELSE @]
    BY <1>3 DEF normalizeJobTickState
  <2>2. /\ s \in Records /\ s.present = r.present /\ s.enabled = r.enabled
        /\ s.next = r.next /\ s.marker = IF r.marker = "old" THEN "no" ELSE r.marker
    BY <1>1, <2>1 DEF Records
  <2> QED BY <1>3, <2>2 DEF Kept, WellFormed, Coherent
<1> QED BY <1>2, <1>3

\* Recomputing a coherent store makes it well formed and moves only next runs of
\* the given kinds.
LEMMA RecomputeFields ==
  ASSUME NEW st, NEW nexts, \A j \in Jobs : Coherent(st[j])
  PROVE  /\ Recompute(st, nexts) \in [Jobs -> Records]
         /\ \A j \in Jobs :
              /\ Kept(st[j], Recompute(st, nexts)[j])
              /\ st[j].enabled /\ st[j].next \notin nexts
                   => Recompute(st, nexts)[j].next = st[j].next
<1>1. ASSUME NEW j \in Jobs
      PROVE  /\ Recompute(st, nexts)[j] \in Records
             /\ Kept(st[j], Recompute(st, nexts)[j])
             /\ st[j].enabled /\ st[j].next \notin nexts
                  => Recompute(st, nexts)[j].next = st[j].next
  <2> DEFINE r == normalizeJobTickState(st[j])
             n == computeJobNextRunAtMs(j, r, atPassed)
  <2>1. Kept(st[j], r) /\ (st[j].enabled => r.next = st[j].next)
    BY NormalizeFields
  <2>2. Recompute(st, nexts)[j] = IF r.enabled /\ r.next \in nexts
                                  THEN [r EXCEPT !.next = n] ELSE r
    BY DEF Recompute
  <2>3. r \in Records
    BY <2>1 DEF Kept, WellFormed, Coherent
  <2>4. n \in Nexts
    BY <2>3, NextRunType
  <2> HIDE DEF r, n
  <2>5. CASE r.enabled /\ r.next \in nexts
    <3>1. /\ [r EXCEPT !.next = n] \in Records
          /\ [r EXCEPT !.next = n].present = r.present
          /\ [r EXCEPT !.next = n].enabled = r.enabled
          /\ [r EXCEPT !.next = n].marker = r.marker
      BY <2>3, <2>4 DEF Records, Nexts
    <3> QED BY <2>1, <2>2, <2>5, <3>1 DEF Kept, WellFormed, Coherent
  <2>6. CASE ~(r.enabled /\ r.next \in nexts)
    BY <2>1, <2>2, <2>3, <2>6 DEF Kept
  <2> QED BY <2>5, <2>6
<1>2. Recompute(st, nexts) = [j \in Jobs |-> Recompute(st, nexts)[j]]
  BY DEF Recompute
<1> QED BY <1>1, <1>2

\* The maintenance moves no slot that is due.
LEMMA MaintenanceFields ==
  ASSUME NEW st, \A j \in Jobs : Coherent(st[j])
  PROVE  /\ recomputeNextRunsForMaintenance(st) \in [Jobs -> Records]
         /\ \A j \in Jobs :
              /\ Kept(st[j], recomputeNextRunsForMaintenance(st)[j])
              /\ st[j].enabled /\ st[j].next # "none"
                   => recomputeNextRunsForMaintenance(st)[j].next = st[j].next
BY RecomputeFields DEF recomputeNextRunsForMaintenance

\* The record s after a run of r has no marker, and is not brought back or enabled.
Ended(r, s) ==
  /\ Coherent(s) /\ s.marker = "no"
  /\ (s.enabled => r.enabled) /\ (s.present => r.present)

\* So it is with the result of a run.
LEMMA ResultFields ==
  ASSUME NEW j \in Jobs, NEW r, Coherent(r), r.present, NEW outcome \in Outcomes,
         NEW early \in BOOLEAN, NEW option \in BOOLEAN
  PROVE  Ended(r, applyJobResult(j, r, outcome, early, option))
<1> DEFINE done == [r EXCEPT !.marker = "no",
                      !.status = IF outcome = "ok" /\ early THEN "early" ELSE outcome]
           s == applyJobResult(j, r, outcome, early, option)
<1>1. r \in Records /\ (IF outcome = "ok" /\ early THEN "early" ELSE outcome)
                          \in {"none", "early"} \cup Outcomes
  BY DEF Coherent
<1>2. /\ done \in Records /\ done.marker = "no"
      /\ done.enabled = r.enabled /\ done.present = r.present
  BY <1>1 DEF Records
<1>3. \/ s = Absent
      \/ s = [done EXCEPT !.next = "future"]
      \/ s = [done EXCEPT !.next = IF r.enabled THEN "future" ELSE "none"]
      \/ s = [done EXCEPT !.enabled = FALSE, !.next = "none"]
  BY DEF applyJobResult
<1> HIDE DEF done, s
<1>4. s = Absent => Ended(r, s)
  BY DEF Absent, Coherent, Records, Ended
<1>5. ASSUME NEW n \in Nexts, s = [done EXCEPT !.next = n]
      PROVE  Ended(r, s)
  <2>1. /\ s \in Records /\ s.marker = done.marker
        /\ s.enabled = done.enabled /\ s.present = done.present
    BY <1>2, <1>5 DEF Records, Nexts
  <2> QED BY <1>2, <2>1 DEF Coherent, Ended
<1>6. s = [done EXCEPT !.enabled = FALSE, !.next = "none"] => Ended(r, s)
  <2> SUFFICES ASSUME s = [done EXCEPT !.enabled = FALSE, !.next = "none"]
               PROVE  Ended(r, s)
    OBVIOUS
  <2>1. /\ s \in Records /\ s.marker = done.marker
        /\ s.enabled = FALSE /\ s.present = done.present
    BY <1>2 DEF Records
  <2> QED BY <1>2, <2>1 DEF Coherent, Ended
<1>7. "future" \in Nexts /\ "none" \in Nexts
  BY DEF Nexts
<1>8. Ended(r, s)
  BY <1>3, <1>4, <1>5, <1>6, <1>7
<1> QED BY <1>8 DEF s

\* Marking jobs.
LEMMA MarkedFields ==
  ASSUME NEW st \in [Jobs -> Records], NEW js
  PROVE  /\ Marked(st, js) \in [Jobs -> Records]
         /\ \A j \in Jobs :
              /\ Marked(st, js)[j].present = st[j].present
              /\ Marked(st, js)[j].enabled = st[j].enabled
              /\ Marked(st, js)[j].next = st[j].next
              /\ Marked(st, js)[j].marker = IF j \in js THEN "set" ELSE st[j].marker
<1>1. \A r \in Records :
        /\ [r EXCEPT !.marker = "set"] \in Records
        /\ [r EXCEPT !.marker = "set"].present = r.present
        /\ [r EXCEPT !.marker = "set"].enabled = r.enabled
        /\ [r EXCEPT !.marker = "set"].next = r.next
        /\ [r EXCEPT !.marker = "set"].marker = "set"
  BY DEF Records
<1>2. \A j \in Jobs : st[j] \in Records
  OBVIOUS
<1>3. Marked(st, js) = [j \in Jobs |-> IF j \in js THEN [st[j] EXCEPT !.marker = "set"] ELSE st[j]]
  BY DEF Marked
<1> QED BY <1>1, <1>2, <1>3
-----------------------------------------------------------------------------
(* Steps that leave a job alone.                                           *)

\* The flight of j goes on as it was.
SameFlight(j) ==
  /\ \A b \in Batches : batch'[b][j] = batch[b][j]
  /\ \A m \in Manuals : Held(m, j)' <=> Held(m, j)

\* What the histories say of j is kept, and the service is down as it was.
SameHistory(j) ==
  /\ j \in owed' => j \in owed /\ disk'[j].next = "due"
  /\ j \in loose => j \in loose'
  /\ j \in userOff' => j \in userOff
  /\ phase' = "down" <=> phase = "down"

\* Nothing of a run of j begins or ends.
JobKept(j) ==
  /\ SameFlight(j) /\ SameHistory(j)
  /\ WellFormed(mem'[j]) /\ WellFormed(disk'[j]) /\ Agree(mem'[j], disk'[j])
  /\ mem'[j].present = mem[j].present /\ mem'[j].enabled = mem[j].enabled
  /\ mem[j].enabled /\ mem[j].marker = "set" /\ disk[j].marker = "set"
       => mem'[j].marker = "set" /\ disk'[j].marker = "set"
  /\ mem'[j].marker # "no" \/ disk'[j].marker # "no"
       => mem[j].marker # "no" \/ disk[j].marker # "no"

\* A flight that goes on is one.
LEMMA SameFlightInFlight ==
  ASSUME NEW j, SameFlight(j)
  PROVE  (InFlight(j)' <=> InFlight(j)) /\ (HeldOnce(j) => HeldOnce(j)')
BY DEF SameFlight, InFlight, Held, HeldOnce

\* What holds of a job is kept when nothing of it begins or ends.
LEMMA KeptInv ==
  ASSUME NEW j \in Jobs, JobInv(j), JobKept(j)
  PROVE  JobInv(j)'
<1>1. (InFlight(j)' <=> InFlight(j)) /\ (HeldOnce(j) => HeldOnce(j)')
  BY SameFlightInFlight DEF JobKept
<1>2. FlightMarked(j)'
  BY <1>1 DEF JobInv, FlightMarked, JobKept, SameHistory
<1>3. OwedDue(j)'
  BY DEF JobInv, OwedDue, JobKept, SameHistory, SameFlight
<1> QED BY <1>1, <1>2, <1>3 DEF JobInv, JobKept, SameHistory

\* A store that is saved, with a record made from that in memory or in the file.
LEMMA StoredKept ==
  ASSUME NEW j \in Jobs, JobInv(j), NEW r \in {mem[j], disk[j]}, Kept(r, mem'[j]),
         disk'[j] = mem'[j], SameFlight(j), SameHistory(j)
  PROVE  JobKept(j)
BY DEF JobInv, Kept, JobKept, Agree

\* Neither record is changed.
LEMMA UnchangedKept ==
  ASSUME NEW j \in Jobs, JobInv(j), mem'[j] = mem[j], disk'[j] = disk[j],
         SameFlight(j), SameHistory(j)
  PROVE  JobKept(j)
BY DEF JobInv, JobKept

-----------------------------------------------------------------------------
(* The steps.                                                              *)

\* Facts about every job, from CronInv.
LEMMA StoreFacts ==
  ASSUME CronInv
  PROVE  /\ mem \in [Jobs -> Records] /\ disk \in [Jobs -> Records]
         /\ \A j \in Jobs : /\ WellFormed(mem[j]) /\ WellFormed(disk[j])
                            /\ Coherent(mem[j]) /\ Coherent(disk[j])
                            /\ Agree(mem[j], disk[j])
BY DEF CronInv, ControlInv, JobInv, WellFormed

\* A section that saves the maintenance of the store in memory or of the file.
LEMMA MaintenanceStep ==
  ASSUME CronInv, NEW st \in {mem, disk}, Stored(recomputeNextRunsForMaintenance(st)),
         UNCHANGED <<batch, manual, owed, loose, userOff>>,
         phase' = "down" <=> phase = "down", phase' # "catchup" => phase # "catchup",
         phase' \in {"down", "plan", "catchup", "finish", "up"},
         atPassed' \subseteq OneShot, timer' \in BOOLEAN, reloaded' \in BOOLEAN,
         skipJobIds' \subseteq OneShot, deferred' \subseteq Jobs, interrupted' \subseteq Jobs
  PROVE  CronInv'
<1>1. \A j \in Jobs : Coherent(st[j])
  BY StoreFacts
<1> DEFINE new == recomputeNextRunsForMaintenance(st)
<1>2. /\ new \in [Jobs -> Records]
      /\ \A j \in Jobs : /\ Kept(st[j], new[j])
                         /\ st[j].enabled /\ st[j].next # "none" => new[j].next = st[j].next
  BY <1>1, MaintenanceFields
<1>3. mem' = new /\ disk' = new
  BY DEF Stored
<1> HIDE DEF new
<1>4. ASSUME NEW j \in Jobs PROVE JobKept(j)
  <2>1. SameFlight(j)
    BY DEF SameFlight, Held
  <2>2. j \in owed => new[j].next = "due"
    BY <1>2, <1>4 DEF CronInv, JobInv, OwedDue, WellFormed, Coherent, Agree
  <2>3. SameHistory(j)
    BY <1>3, <2>2 DEF SameHistory
  <2> QED BY <1>2, <1>3, <1>4, <2>1, <2>3, StoredKept DEF CronInv
<1>5. ControlInv'
  BY <1>2, <1>3 DEF CronInv, ControlInv
<1> QED BY <1>4, <1>5, KeptInv DEF CronInv

\* A tick without due jobs.
LEMMA TickIdleStep ==
  ASSUME CronInv, TickIdle
  PROVE  CronInv'
<1>1. timer' \in BOOLEAN
  BY DEF TickIdle, armTimer
<1> QED BY <1>1, MaintenanceStep DEF TickIdle, CronInv, ControlInv, history, plan

\* status and list.
LEMMA ReadStep ==
  ASSUME CronInv, ensureLoadedForRead
  PROVE  CronInv'
<1>1. CASE recomputeNextRunsForMaintenance(mem) # mem
  <2>1. Stored(recomputeNextRunsForMaintenance(mem))
    BY <1>1 DEF ensureLoadedForRead, StoredIfChanged, Stored
  <2> QED BY <2>1, MaintenanceStep DEF ensureLoadedForRead, CronInv, ControlInv, history, plan
<1>2. CASE recomputeNextRunsForMaintenance(mem) = mem
  <2>1. mem' = mem /\ disk' = disk
    BY <1>2 DEF ensureLoadedForRead, StoredIfChanged
  <2>2. ASSUME NEW j \in Jobs PROVE JobKept(j)
    <3>1. SameFlight(j) /\ SameHistory(j)
      BY <2>1, <2>2 DEF ensureLoadedForRead, history, SameFlight, Held, SameHistory, CronInv,
                        JobInv, OwedDue
    <3> QED BY <2>1, <2>2, <3>1, UnchangedKept DEF CronInv
  <2>3. ControlInv'
    BY <2>1 DEF ensureLoadedForRead, history, plan, CronInv, ControlInv
  <2> QED BY <2>2, <2>3, KeptInv DEF CronInv
<1> QED BY <1>1, <1>2

\* The preflight of a manual run.
LEMMA PreflightStep ==
  ASSUME CronInv, NEW m \in Manuals, NEW i \in Jobs, NEW forced \in BOOLEAN,
         inspectManualRunPreflight(m, i, forced)
  PROVE  CronInv'
<1> DEFINE new == recomputeNextRunsForMaintenance(mem)
<1>1. /\ new \in [Jobs -> Records]
      /\ \A j \in Jobs : /\ Kept(mem[j], new[j])
                         /\ mem[j].enabled /\ mem[j].next # "none" => new[j].next = mem[j].next
  BY StoreFacts, MaintenanceFields
<1>2. mem' = new /\ UNCHANGED <<disk, phase, batch, owed, loose, userOff>>
  BY DEF inspectManualRunPreflight, history
<1> HIDE DEF new
<1>3. \E v \in Run : v.pc \in {"idle", "checked"} /\ manual' = [manual EXCEPT ![m] = v]
  <2>1. manual[m] \in Run /\ manual[m].pc = "idle"
    BY DEF inspectManualRunPreflight, RunFrom, CronInv, ControlInv
  <2>2. [manual[m] EXCEPT !.pc = "checked", !.job = i] \in Run
        /\ [manual[m] EXCEPT !.pc = "checked", !.job = i].pc = "checked"
    BY <2>1 DEF Run
  <2> QED BY <2>1, <2>2 DEF inspectManualRunPreflight
<1>4. \A j \in Jobs, n \in Manuals : Held(n, j)' <=> Held(n, j)
  <2>1. PICK v \in Run : v.pc \in {"idle", "checked"} /\ manual' = [manual EXCEPT ![m] = v]
    BY <1>3
  <2>2. manual[m].pc = "idle" /\ manual \in [Manuals -> Run]
    BY DEF inspectManualRunPreflight, RunFrom, CronInv, ControlInv
  <2> QED BY <2>1, <2>2 DEF Held, Outcomes
<1>5. ASSUME NEW j \in Jobs PROVE JobKept(j)
  <2>1. SameFlight(j)
    BY <1>2, <1>4, <1>5 DEF SameFlight
  <2>2. SameHistory(j)
    BY <1>2, <1>5 DEF SameHistory, CronInv, JobInv, OwedDue
  <2>3. WellFormed(mem[j]) /\ WellFormed(disk[j]) /\ Agree(mem[j], disk[j])
    BY <1>5, StoreFacts
  <2>4. Agree(mem'[j], disk'[j])
    BY <1>1, <1>2, <1>5, <2>3 DEF Agree, Kept, WellFormed
  <2> QED BY <1>1, <1>2, <1>5, <2>1, <2>2, <2>3, <2>4 DEF JobKept, Kept
<1>6. ControlInv'
  BY <1>1, <1>2, <1>3 DEF inspectManualRunPreflight, history, plan, CronInv, ControlInv
<1> QED BY <1>5, <1>6, KeptInv DEF CronInv

\* The end of the start gives up due slots, and what is owed for them.
LEMMA StartDoneStep ==
  ASSUME CronInv, StartDone
  PROVE  CronInv'
<1> DEFINE new == recomputeNextRuns(mem)
<1>1. new \in [Jobs -> Records] /\ \A j \in Jobs : Kept(mem[j], new[j])
  BY StoreFacts, RecomputeFields DEF recomputeNextRuns
<1>2. /\ StoredIfChanged(new) /\ owed' = owed \ Skipped(mem)
      /\ phase = "finish" /\ phase' = "up" /\ UNCHANGED <<batch, manual, loose, userOff>>
  BY DEF StartDone
<1>3. ASSUME NEW j \in Jobs, j \in owed' PROVE j \in owed /\ new[j].next = "due"
  <2>1. j \in owed /\ j \notin Skipped(mem) /\ disk[j].next = "due"
    BY <1>2, <1>3 DEF CronInv, JobInv, OwedDue
  <2>2. mem[j].next = "due"
    BY <1>3, <2>1, StoreFacts DEF Agree
  <2> QED BY <1>3, <2>1, <2>2 DEF Skipped
<1> HIDE DEF new
<1>4. ASSUME NEW j \in Jobs PROVE JobKept(j)
  <2>1. SameFlight(j)
    BY <1>2 DEF SameFlight, Held
  <2>2. CASE new = mem
    <3>1. mem' = mem /\ disk' = disk
      BY <1>2, <2>2 DEF StoredIfChanged
    <3>2. SameHistory(j)
      BY <1>2, <1>3, <1>4, <3>1 DEF SameHistory, CronInv, JobInv, OwedDue
    <3> QED BY <1>4, <2>1, <3>1, <3>2, UnchangedKept DEF CronInv
  <2>3. CASE new # mem
    <3>1. mem' = new /\ disk' = new
      BY <1>2, <2>3 DEF StoredIfChanged
    <3>2. SameHistory(j)
      BY <1>2, <1>3, <1>4, <3>1 DEF SameHistory
    <3> QED BY <1>1, <1>4, <2>1, <3>1, <3>2, StoredKept DEF CronInv
  <2> QED BY <2>2, <2>3
<1>5. timer' \in BOOLEAN
  BY DEF StartDone, armTimer
<1>6. ControlInv'
  BY <1>1, <1>2, <1>5 DEF StoredIfChanged, StartDone, plan, CronInv, ControlInv
<1> QED BY <1>4, <1>6, KeptInv DEF CronInv

\* A manual run ends; its result is not applied yet.
LEMMA ManualEndsStep ==
  ASSUME CronInv, NEW m \in Manuals, NEW outcome \in Outcomes, ManualEnds(m, outcome)
  PROVE  CronInv'
<1>1. /\ manual[m] \in Run /\ manual[m].pc = "running"
      /\ manual' = [manual EXCEPT ![m].pc = outcome]
      /\ UNCHANGED <<phase, mem, disk, batch, owed, loose, userOff>>
  BY DEF ManualEnds, RunFrom, RunTo, store, history, CronInv, ControlInv
<1>2. /\ [manual[m] EXCEPT !.pc = outcome] \in Run
      /\ [manual[m] EXCEPT !.pc = outcome].pc = outcome
      /\ [manual[m] EXCEPT !.pc = outcome].job = manual[m].job
  BY <1>1 DEF Run
<1>3. /\ manual' \in [Manuals -> Run]
      /\ \A n \in Manuals : manual'[n] = IF n = m THEN [manual[m] EXCEPT !.pc = outcome]
                                         ELSE manual[n]
  BY <1>1, <1>2 DEF CronInv, ControlInv
<1>4. \A j \in Jobs, n \in Manuals : Held(n, j)' <=> Held(n, j)
  BY <1>1, <1>2, <1>3 DEF Held
<1>5. ASSUME NEW j \in Jobs PROVE JobKept(j)
  <2>1. SameFlight(j) /\ SameHistory(j)
    BY <1>1, <1>4, <1>5 DEF SameFlight, SameHistory, CronInv, JobInv, OwedDue
  <2> QED BY <1>1, <1>5, <2>1, UnchangedKept DEF CronInv
<1>6. ControlInv'
  BY <1>1, <1>3 DEF ManualEnds, store, history, plan, CronInv, ControlInv
<1> QED BY <1>5, <1>6, KeptInv DEF CronInv

\* A job that nothing holds after a step, and that has no marker.
LEMMA IdleInv ==
  ASSUME NEW j \in Jobs, WellFormed(mem'[j]), WellFormed(disk'[j]), Agree(mem'[j], disk'[j]),
         \A b \in Batches : batch'[b][j] = "none", \A m \in Manuals : ~Held(m, j)',
         phase' # "down" => mem'[j].marker = "no" /\ disk'[j].marker = "no",
         j \in owed' => disk'[j].next = "due", j \in userOff' => ~mem'[j].enabled
  PROVE  JobInv(j)'
<1>1. ~InFlight(j)'
  BY DEF InFlight, Held
<1>2. HeldOnce(j)'
  BY DEF HeldOnce
<1> QED BY <1>1, <1>2 DEF JobInv, FlightMarked, OwedDue

\* The start clears the markers.
LEMMA StartStep ==
  ASSUME CronInv, Start
  PROVE  CronInv'
<1>1. /\ mem' = Unmarked(disk) /\ disk' = Unmarked(disk)
      /\ phase = "down" /\ phase' = "plan" /\ UNCHANGED <<batch, manual, owed, loose, userOff>>
  BY DEF Start, Stored
<1>2. ASSUME NEW j \in Jobs
      PROVE  /\ Unmarked(disk)[j] \in Records /\ Unmarked(disk)[j].marker = "no"
             /\ WellFormed(Unmarked(disk)[j])
             /\ Unmarked(disk)[j].present = disk[j].present
             /\ Unmarked(disk)[j].enabled = disk[j].enabled
             /\ Unmarked(disk)[j].next = disk[j].next
  <2>1. Unmarked(disk)[j] = [disk[j] EXCEPT !.marker = "no"] /\ disk[j] \in Records
    BY <1>2, StoreFacts DEF Unmarked
  <2>2. WellFormed(disk[j])
    BY <1>2, StoreFacts
  <2> QED BY <2>1, <2>2 DEF Records, WellFormed, Coherent
<1>3. ASSUME NEW j \in Jobs PROVE JobInv(j)'
  <2>1. \A b \in Batches : batch'[b][j] = "none"
    BY <1>1, <1>3 DEF CronInv, JobInv, InFlight
  <2>2. \A m \in Manuals : ~Held(m, j)'
    BY <1>1, <1>3 DEF CronInv, JobInv, InFlight, Held
  <2>3. Agree(mem[j], disk[j])
    BY <1>3, StoreFacts
  <2>4. j \in owed' => disk'[j].next = "due"
    BY <1>1, <1>2, <1>3 DEF CronInv, JobInv, OwedDue
  <2>5. j \in userOff' => ~mem'[j].enabled
    BY <1>1, <1>2, <1>3, <2>3 DEF CronInv, JobInv, Agree
  <2>6. /\ WellFormed(mem'[j]) /\ WellFormed(disk'[j]) /\ Agree(mem'[j], disk'[j])
        /\ mem'[j].marker = "no" /\ disk'[j].marker = "no"
    BY <1>1, <1>2 DEF Agree
  <2> QED BY <2>1, <2>2, <2>4, <2>5, <2>6, IdleInv
<1>4. Unmarked(disk) \in [Jobs -> Records]
  BY <1>2 DEF Unmarked
<1>5. interrupted' \subseteq Jobs /\ skipJobIds' \subseteq OneShot
  BY DEF Start, CronInv, ControlInv, Jobs
<1>6. ControlInv'
  BY <1>1, <1>4, <1>5 DEF Start, CronInv, ControlInv
<1> QED BY <1>3, <1>6 DEF CronInv

\* One batch is replaced.
LEMMA BatchSet ==
  ASSUME ControlInv, NEW b \in Batches, NEW f \in [Jobs -> BatchPcs],
         batch' = [batch EXCEPT ![b] = f]
  PROVE  /\ batch' \in [Batches -> [Jobs -> BatchPcs]]
         /\ \A c \in Batches, j \in Jobs :
              batch'[c][j] = IF c = b THEN f[j] ELSE batch[c][j]
BY DEF ControlInv

\* A job that was idle is taken by one batch and marked.
LEMMA TakenInv ==
  ASSUME CronInv, NEW j \in Jobs, NEW b \in Batches,
         mem'[j] = disk'[j], WellFormed(mem'[j]), mem'[j].marker = "set", mem'[j].enabled,
         mem[j].enabled, mem[j].marker = "no" \/ disk[j].marker = "no",
         phase # "down", phase' # "down", manual' = manual,
         batch'[b][j] = "waiting", batch[b][j] = "none",
         \A c \in Batches \ {b} : batch'[c][j] = batch[c][j],
         UNCHANGED <<owed, loose, userOff>>,
         j \in owed => disk'[j].next = "due"
  PROVE  JobInv(j)'
<1>0. JobInv(j) /\ mem[j].present
  BY DEF CronInv, JobInv, WellFormed, Coherent
<1>1. InFlight(j)'
  BY DEF InFlight
<1>2. \A m \in Manuals : Held(m, j)' <=> Held(m, j)
  BY DEF Held
<1>3. FlightMarked(j)'
  <2> SUFFICES ASSUME j \notin loose PROVE HeldOnce(j)'
    BY DEF FlightMarked
  <2>1. ~InFlight(j)
    BY <1>0 DEF JobInv, FlightMarked
  <2>2. \A c \in Batches : batch[c][j] = "none"
    BY <2>1 DEF InFlight
  <2>3. \A m \in Manuals : ~Held(m, j)'
    BY <1>2, <2>1 DEF InFlight, Held
  <2> QED BY <2>2, <2>3 DEF HeldOnce
<1>4. OwedDue(j)'
  <2>1. \A c \in Batches : batch'[c][j] \in {batch[c][j], "waiting"}
    OBVIOUS
  <2> QED BY <1>0, <1>2, <2>1 DEF JobInv, OwedDue
<1> QED BY <1>0, <1>1, <1>3, <1>4 DEF JobInv, Agree

\* The jobs missed while the gateway was down are taken.
LEMMA PlanStep ==
  ASSUME CronInv, planStartupCatchup
  PROVE  CronInv'
<1>1. /\ phase = "plan" /\ UNCHANGED <<manual, owed, loose, userOff, atPassed, timer,
                                       reloaded, interrupted>>
      /\ skipJobIds' = {}
  BY DEF planStartupCatchup, history
<1>2. PICK more \in SUBSET MaybeMissed :
        LET missed == Missed \cup more IN
        IF missed = {}
        THEN phase' = "finish" /\ UNCHANGED <<mem, disk, batch, deferred>>
        ELSE \E now \in SUBSET missed :
             /\ phase' = "catchup" /\ Stored(Marked(mem, now))
             /\ batch' = [batch EXCEPT !["catchup"] = Waiting(now)]
             /\ deferred' = missed \ now
  BY DEF planStartupCatchup
<1>3. \A j \in Missed \cup more : j \in Jobs /\ mem[j].enabled /\ mem[j].marker = "no"
  BY <1>2 DEF Missed, MaybeMissed, isRunnableJob
<1>4. CASE Missed \cup more = {}
  <2>1. phase' = "finish" /\ UNCHANGED <<mem, disk, batch, deferred>>
    BY <1>2, <1>4
  <2>2. ASSUME NEW j \in Jobs PROVE JobKept(j)
    <3>1. SameFlight(j) /\ SameHistory(j)
      BY <1>1, <2>1, <2>2 DEF SameFlight, Held, SameHistory, CronInv, JobInv, OwedDue
    <3> QED BY <2>1, <2>2, <3>1, UnchangedKept DEF CronInv
  <2>3. ControlInv'
    BY <1>1, <2>1 DEF CronInv, ControlInv
  <2> QED BY <2>2, <2>3, KeptInv DEF CronInv
<1>5. CASE Missed \cup more # {}
  <2>1. PICK now \in SUBSET (Missed \cup more) :
          /\ phase' = "catchup" /\ Stored(Marked(mem, now))
          /\ batch' = [batch EXCEPT !["catchup"] = Waiting(now)]
          /\ deferred' = (Missed \cup more) \ now
    BY <1>2, <1>5
  <2>2. Waiting(now) \in [Jobs -> BatchPcs]
    BY DEF Waiting, BatchPcs
  <2>3. "catchup" \in Batches
    BY DEF Batches
  <2>4. /\ batch' \in [Batches -> [Jobs -> BatchPcs]]
        /\ \A c \in Batches, j \in Jobs :
             batch'[c][j] = IF c = "catchup" THEN Waiting(now)[j] ELSE batch[c][j]
    BY <2>1, <2>2, <2>3, BatchSet DEF CronInv
  <2>5. \A j \in Jobs : batch["catchup"][j] = "none"
    BY <1>1 DEF CronInv, ControlInv, NoBatch
  <2>6. mem' = Marked(mem, now) /\ disk' = mem' /\ mem' \in [Jobs -> Records]
    BY <2>1, StoreFacts, MarkedFields DEF Stored
  <2>7. ASSUME NEW j \in Jobs PROVE JobInv(j)'
    <3>1. WellFormed(mem[j]) /\ WellFormed(disk[j]) /\ Agree(mem[j], disk[j])
      BY <2>7, StoreFacts
    <3>2. /\ mem'[j] \in Records
          /\ mem'[j].present = mem[j].present /\ mem'[j].enabled = mem[j].enabled
          /\ mem'[j].next = mem[j].next
          /\ mem'[j].marker = IF j \in now THEN "set" ELSE mem[j].marker
      BY <2>6, <2>7, StoreFacts, MarkedFields
    <3>3. j \in owed => disk'[j].next = "due"
      BY <2>6, <2>7, <3>1, <3>2 DEF CronInv, JobInv, OwedDue, Agree
    <3>4. CASE j \in now
      <4>1. mem[j].enabled /\ mem[j].marker = "no"
        BY <1>3, <3>4
      <4>2. WellFormed(mem'[j])
        BY <3>1, <3>2, <4>1 DEF WellFormed, Coherent
      <4>3. batch'["catchup"][j] = "waiting" /\ batch["catchup"][j] = "none"
        BY <2>3, <2>4, <2>5, <2>7, <3>4 DEF Waiting
      <4>4. \A c \in Batches \ {"catchup"} : batch'[c][j] = batch[c][j]
        BY <2>4, <2>7
      <4> QED BY <1>1, <2>1, <2>3, <2>6, <2>7, <3>2, <3>3, <3>4, <4>1, <4>2, <4>3, <4>4, TakenInv
    <3>5. CASE j \notin now
      <4>1. Kept(mem[j], mem'[j])
        BY <3>1, <3>2, <3>5 DEF Kept, WellFormed, Coherent
      <4>2. SameFlight(j)
        BY <1>1, <2>4, <2>5, <2>7, <3>5 DEF SameFlight, Held, Waiting
      <4>3. SameHistory(j)
        BY <1>1, <2>1, <3>3 DEF SameHistory
      <4> QED BY <2>6, <2>7, <4>1, <4>2, <4>3, StoredKept, KeptInv DEF CronInv
    <3> QED BY <3>4, <3>5
  <2>8. deferred' \subseteq Jobs
    BY <1>3, <2>1
  <2>9. ControlInv'
    BY <1>1, <2>1, <2>4, <2>6, <2>8 DEF CronInv, ControlInv
  <2> QED BY <2>7, <2>9 DEF CronInv
<1> QED BY <1>4, <1>5

\* A tick takes the due jobs.
LEMMA CollectStep ==
  ASSUME CronInv, TickCollects
  PROVE  CronInv'
<1> DEFINE due == {j \in Jobs : isRunnableJob(j, disk[j])}
<1>1. /\ phase # "down" /\ batch["tick"] = NoBatch
      /\ Stored(Marked(disk, due))
      /\ batch' = [batch EXCEPT !["tick"] = Waiting(due)] /\ reloaded' = FALSE
      /\ UNCHANGED <<phase, manual, owed, loose, userOff>>
  BY DEF TickCollects, TickRunning, history
<1>2. \A j \in due : j \in Jobs /\ disk[j].enabled /\ disk[j].marker = "no"
  BY DEF isRunnableJob
<1> HIDE DEF due
<1>3. Waiting(due) \in [Jobs -> BatchPcs] /\ "tick" \in Batches
  BY DEF Waiting, BatchPcs, Batches
<1>4. /\ batch' \in [Batches -> [Jobs -> BatchPcs]]
      /\ \A c \in Batches, j \in Jobs :
           batch'[c][j] = IF c = "tick" THEN Waiting(due)[j] ELSE batch[c][j]
  BY <1>1, <1>3, BatchSet DEF CronInv
<1>5. \A j \in Jobs : batch["tick"][j] = "none"
  BY <1>1 DEF NoBatch
<1>6. mem' = Marked(disk, due) /\ disk' = mem' /\ mem' \in [Jobs -> Records]
  BY <1>1, StoreFacts, MarkedFields DEF Stored
<1>7. ASSUME NEW j \in Jobs PROVE JobInv(j)'
  <2>1. WellFormed(mem[j]) /\ WellFormed(disk[j]) /\ Agree(mem[j], disk[j])
    BY <1>7, StoreFacts
  <2>2. /\ mem'[j] \in Records
        /\ mem'[j].present = disk[j].present /\ mem'[j].enabled = disk[j].enabled
        /\ mem'[j].next = disk[j].next
        /\ mem'[j].marker = IF j \in due THEN "set" ELSE disk[j].marker
    BY <1>6, <1>7, StoreFacts, MarkedFields
  <2>3. j \in owed => disk'[j].next = "due"
    BY <1>6, <1>7, <2>1, <2>2 DEF CronInv, JobInv, OwedDue
  <2>4. CASE j \in due
    <3>1. disk[j].enabled /\ disk[j].marker = "no" /\ mem[j].enabled
      BY <1>2, <2>1, <2>4 DEF Agree
    <3>2. WellFormed(mem'[j])
      BY <2>1, <2>2, <3>1 DEF WellFormed, Coherent
    <3>3. batch'["tick"][j] = "waiting" /\ batch["tick"][j] = "none"
      BY <1>3, <1>4, <1>5, <1>7, <2>4 DEF Waiting
    <3>4. \A c \in Batches \ {"tick"} : batch'[c][j] = batch[c][j]
      BY <1>4, <1>7
    <3> QED BY <1>1, <1>3, <1>6, <1>7, <2>2, <2>3, <2>4, <3>1, <3>2, <3>3, <3>4, TakenInv
  <2>5. CASE j \notin due
    <3>1. Kept(disk[j], mem'[j])
      BY <2>1, <2>2, <2>5 DEF Kept, WellFormed, Coherent
    <3>2. SameFlight(j)
      BY <1>1, <1>4, <1>5, <1>7, <2>5 DEF SameFlight, Held, Waiting
    <3>3. SameHistory(j)
      BY <1>1, <2>3 DEF SameHistory
    <3> QED BY <1>6, <1>7, <3>1, <3>2, <3>3, StoredKept, KeptInv DEF CronInv
  <2> QED BY <2>4, <2>5
<1>8. batch'["catchup"] = batch["catchup"]
  BY <1>1 DEF CronInv, ControlInv, Batches
<1>9. ControlInv'
  BY <1>1, <1>4, <1>6, <1>8 DEF TickCollects, history, plan, CronInv, ControlInv
<1> QED BY <1>7, <1>9 DEF CronInv

\* A run of a job ends: its record has no marker, it is not enabled by that, and
\* unless its marker had been cleared before, nobody else holds it.
LEMMA ReleasedInv ==
  ASSUME CronInv, NEW j \in Jobs, phase' # "down",
         WellFormed(mem'[j]), WellFormed(disk'[j]), Agree(mem'[j], disk'[j]),
         mem'[j].marker = "no", disk'[j].marker = "no", mem'[j].enabled => mem[j].enabled,
         j \notin owed', UNCHANGED <<userOff, loose>>,
         j \notin loose => /\ \A b \in Batches : batch'[b][j] = "none"
                           /\ \A m \in Manuals : ~Held(m, j)'
  PROVE  JobInv(j)'
<1>1. JobInv(j)
  BY DEF CronInv
<1>2. FlightMarked(j)'
  <2> SUFFICES ASSUME j \notin loose PROVE HeldOnce(j)' /\ ~InFlight(j)'
    BY DEF FlightMarked
  <2> QED BY DEF HeldOnce, InFlight, Held
<1> QED BY <1>1, <1>2 DEF JobInv, OwedDue

\* The results of a batch are applied to the store in memory or to the file.
LEMMA BatchEnds ==
  ASSUME CronInv, NEW b \in Batches, NEW base \in {mem, disk}, NEW st,
         BatchOver(b), phase # "down", phase' # "down",
         \A j \in Jobs :
           /\ Coherent(st[j])
           /\ batch[b][j] # "none" =>
                st[j].marker = "no" /\ (st[j].enabled => base[j].enabled)
           /\ batch[b][j] = "none" =>
                /\ st[j].present = base[j].present /\ st[j].enabled = base[j].enabled
                /\ st[j].marker = base[j].marker
                /\ j \in owed' => st[j].next = base[j].next,
         Stored(recomputeNextRunsForMaintenance(st)),
         batch' = [batch EXCEPT ![b] = NoBatch], owed' \subseteq owed,
         UNCHANGED <<manual, loose, userOff>>
  PROVE  /\ batch' \in [Batches -> [Jobs -> BatchPcs]]
         /\ \A c \in Batches : c # b => batch'[c] = batch[c]
         /\ batch'[b] = NoBatch
         /\ mem' \in [Jobs -> Records] /\ disk' \in [Jobs -> Records]
         /\ \A j \in Jobs : JobInv(j)'
<1> DEFINE new == recomputeNextRunsForMaintenance(st)
<1>1. /\ new \in [Jobs -> Records]
      /\ \A j \in Jobs : /\ Kept(st[j], new[j])
                         /\ st[j].enabled /\ st[j].next # "none" => new[j].next = st[j].next
  BY MaintenanceFields
<1>2. mem' = new /\ disk' = new
  BY DEF Stored
<1> HIDE DEF new
<1>3. NoBatch \in [Jobs -> BatchPcs] /\ \A j \in Jobs : NoBatch[j] = "none"
  BY DEF NoBatch, BatchPcs
<1>4. /\ batch' \in [Batches -> [Jobs -> BatchPcs]]
      /\ \A c \in Batches, j \in Jobs :
           batch'[c][j] = IF c = b THEN "none" ELSE batch[c][j]
  BY <1>3, BatchSet DEF CronInv
<1>5. ASSUME NEW j \in Jobs PROVE JobInv(j)'
  <2>1. JobInv(j) /\ Kept(st[j], mem'[j]) /\ Agree(mem[j], disk[j])
        /\ base[j] \in {mem[j], disk[j]}
    BY <1>1, <1>2, <1>5, StoreFacts DEF CronInv
  <2>2. \A m \in Manuals : Held(m, j)' <=> Held(m, j)
    BY DEF Held
  <2>3. CASE batch[b][j] = "none"
    <3>1. SameFlight(j)
      BY <1>4, <1>5, <2>2, <2>3 DEF SameFlight
    <3>2. Kept(base[j], mem'[j])
      BY <1>5, <2>1, <2>3 DEF Kept
    <3>3. ASSUME j \in owed' PROVE disk'[j].next = "due"
      <4>1. disk[j].next = "due" /\ mem[j].next = "due" /\ mem[j].enabled /\ disk[j].enabled
        BY <2>1, <3>3 DEF JobInv, OwedDue, Agree, WellFormed
      <4>2. st[j].next = "due" /\ st[j].enabled
        BY <1>5, <2>1, <2>3, <3>3, <4>1
      <4> QED BY <1>1, <1>2, <1>5, <4>2
    <3>4. SameHistory(j)
      BY <3>3 DEF SameHistory
    <3> QED BY <1>2, <1>5, <2>1, <3>1, <3>2, <3>4, StoredKept, KeptInv
  <2>4. CASE batch[b][j] # "none"
    <3>1. st[j].marker = "no" /\ (st[j].enabled => base[j].enabled)
      BY <1>5, <2>4
    <3>2. mem'[j].marker = "no" /\ WellFormed(mem'[j]) /\ (mem'[j].enabled => mem[j].enabled)
      BY <2>1, <3>1 DEF Kept, Agree
    <3>3. j \notin owed'
      BY <1>5, <2>1, <2>4 DEF JobInv, OwedDue, BatchOver
    <3>4. ASSUME j \notin loose
          PROVE  /\ \A c \in Batches : batch'[c][j] = "none"
                 /\ \A m \in Manuals : ~Held(m, j)'
      <4>1. HeldOnce(j)
        BY <2>1, <3>4 DEF JobInv, FlightMarked
      <4> QED BY <1>4, <1>5, <2>2, <2>4, <4>1 DEF HeldOnce
    <3>5. Agree(mem'[j], disk'[j]) /\ disk'[j] = mem'[j]
      BY <1>2 DEF Agree
    <3> QED BY <1>5, <3>2, <3>3, <3>4, <3>5, ReleasedInv
  <2> QED BY <2>3, <2>4
<1>6. \A c \in Batches : c # b => batch'[c] = batch[c]
  BY DEF CronInv, ControlInv
<1>7. batch'[b] = NoBatch
  BY DEF CronInv, ControlInv
<1> QED BY <1>1, <1>2, <1>4, <1>5, <1>6, <1>7

\* The results of a batch, before the maintenance.
LEMMA OutcomesFields ==
  ASSUME CronInv, NEW b \in Batches, NEW base \in {mem, disk}, NEW option \in BOOLEAN,
         BatchOver(b), NEW j \in Jobs
  PROVE  /\ Coherent(applyOutcomes(base, b, option)[j])
         /\ batch[b][j] # "none" =>
              /\ applyOutcomes(base, b, option)[j].marker = "no"
              /\ applyOutcomes(base, b, option)[j].enabled => base[j].enabled
         /\ batch[b][j] = "none" => applyOutcomes(base, b, option)[j] = base[j]
<1> DEFINE s == applyOutcomes(base, b, option)[j]
<1>1. s = IF batch[b][j] = "none" \/ ~base[j].present THEN base[j]
          ELSE applyJobResult(j, base[j], batch[b][j], FALSE, option)
  BY DEF applyOutcomes
<1>2. Coherent(base[j])
  BY StoreFacts
<1> HIDE DEF s
<1>3. CASE batch[b][j] = "none" \/ ~base[j].present
  BY <1>1, <1>2, <1>3 DEF Coherent, s
<1>4. CASE ~(batch[b][j] = "none" \/ ~base[j].present)
  <2>1. batch[b][j] \in Outcomes
    BY <1>4 DEF CronInv, ControlInv, BatchPcs, BatchOver
  <2>2. Ended(base[j], s)
    BY <1>1, <1>2, <1>4, <2>1, ResultFields
  <2> QED BY <1>4, <2>2 DEF Ended, s
<1> QED BY <1>3, <1>4

\* The results of a tick.
LEMMA TickAppliesStep ==
  ASSUME CronInv, NEW option \in BOOLEAN, TickApplies(option)
  PROVE  CronInv'
<1> DEFINE st == applyOutcomes(disk, "tick", option)
<1>1. /\ TickRunning /\ BatchOver("tick") /\ Stored(recomputeNextRunsForMaintenance(st))
      /\ batch' = [batch EXCEPT !["tick"] = NoBatch] /\ reloaded' = FALSE
      /\ UNCHANGED <<phase, atPassed, skipJobIds, deferred, manual, owed, loose, userOff,
                     interrupted>>
  BY DEF TickApplies, plan, history
<1>2. "tick" \in Batches
  BY DEF Batches
<1>3. phase # "down"
  <2>1. batch["tick"] # NoBatch /\ batch["tick"] \in [Jobs -> BatchPcs]
    BY <1>1, <1>2 DEF TickRunning, CronInv, ControlInv
  <2>2. PICK j \in Jobs : batch["tick"][j] # "none"
    BY <2>1 DEF NoBatch
  <2> QED BY <1>2, <2>2 DEF CronInv, JobInv, InFlight
<1>4. \A j \in Jobs :
        /\ Coherent(st[j])
        /\ batch["tick"][j] # "none" =>
             st[j].marker = "no" /\ (st[j].enabled => disk[j].enabled)
        /\ batch["tick"][j] = "none" => st[j] = disk[j]
  BY <1>1, <1>2, OutcomesFields
<1> HIDE DEF st
<1>5. /\ batch' \in [Batches -> [Jobs -> BatchPcs]]
      /\ \A c \in Batches : c # "tick" => batch'[c] = batch[c]
      /\ mem' \in [Jobs -> Records] /\ disk' \in [Jobs -> Records]
      /\ \A j \in Jobs : JobInv(j)'
  BY <1>1, <1>2, <1>3, <1>4, BatchEnds
<1>6. batch'["catchup"] = batch["catchup"]
  BY <1>5 DEF Batches
<1>7. timer' \in BOOLEAN
  BY DEF TickApplies, armTimer
<1>8. ControlInv'
  BY <1>1, <1>5, <1>6, <1>7 DEF CronInv, ControlInv
<1> QED BY <1>5, <1>8 DEF CronInv

\* The results of the catch-up; the jobs that were put off get a later slot.
LEMMA CatchupAppliesStep ==
  ASSUME CronInv, NEW option \in BOOLEAN, applyStartupCatchupOutcomes(option)
  PROVE  CronInv'
<1> DEFINE out == applyOutcomes(mem, "catchup", option)
           st == [j \in Jobs |-> IF j \in deferred /\ out[j].enabled
                                 THEN [out[j] EXCEPT !.next = "future"] ELSE out[j]]
<1>1. /\ phase = "catchup" /\ phase' = "finish"
      /\ BatchOver("catchup") /\ Stored(recomputeNextRunsForMaintenance(st))
      /\ batch' = [batch EXCEPT !["catchup"] = NoBatch]
      /\ deferred' = {} /\ owed' = owed \ deferred
      /\ UNCHANGED <<atPassed, timer, reloaded, skipJobIds, manual, loose, userOff,
                     interrupted>>
  BY DEF applyStartupCatchupOutcomes
<1>2. "catchup" \in Batches
  BY DEF Batches
<1>3. \A j \in Jobs :
        /\ Coherent(out[j])
        /\ batch["catchup"][j] # "none" =>
             out[j].marker = "no" /\ (out[j].enabled => mem[j].enabled)
        /\ batch["catchup"][j] = "none" => out[j] = mem[j]
  BY <1>1, <1>2, OutcomesFields
<1> HIDE DEF out
<1>4. ASSUME NEW j \in Jobs
      PROVE  /\ Coherent(st[j])
             /\ st[j].marker = out[j].marker /\ st[j].enabled = out[j].enabled
             /\ st[j].present = out[j].present
             /\ j \in owed' => st[j].next = out[j].next
  <2>1. out[j] \in Records /\ Coherent(out[j])
    BY <1>3, <1>4 DEF Coherent
  <2>2. st[j] = IF j \in deferred /\ out[j].enabled
                THEN [out[j] EXCEPT !.next = "future"] ELSE out[j]
    BY <1>4
  <2>3. CASE j \in deferred /\ out[j].enabled
    BY <1>1, <2>1, <2>2, <2>3 DEF Records, Coherent
  <2>4. CASE ~(j \in deferred /\ out[j].enabled)
    BY <2>1, <2>2, <2>4
  <2> QED BY <2>3, <2>4
<1> HIDE DEF st
<1>5. /\ batch' \in [Batches -> [Jobs -> BatchPcs]] /\ batch'["catchup"] = NoBatch
      /\ mem' \in [Jobs -> Records] /\ disk' \in [Jobs -> Records]
      /\ \A j \in Jobs : JobInv(j)'
  <2>1. \A j \in Jobs :
          /\ Coherent(st[j])
          /\ batch["catchup"][j] # "none" =>
               st[j].marker = "no" /\ (st[j].enabled => mem[j].enabled)
          /\ batch["catchup"][j] = "none" =>
               /\ st[j].present = mem[j].present /\ st[j].enabled = mem[j].enabled
               /\ st[j].marker = mem[j].marker
               /\ j \in owed' => st[j].next = mem[j].next
    BY <1>3, <1>4
  <2>2. owed' \subseteq owed /\ phase # "down" /\ phase' # "down"
    BY <1>1
  <2> QED BY <1>1, <1>2, <2>1, <2>2, BatchEnds
<1>6. ControlInv'
  BY <1>1, <1>5 DEF CronInv, ControlInv
<1> QED BY <1>5, <1>6 DEF CronInv

\* A job in a batch goes on; a tick may set its marker again.
LEMMA MovedInv ==
  ASSUME CronInv, NEW j \in Jobs, NEW b \in Batches, batch[b][j] # "none",
         \A c \in Batches : batch'[c][j] # "none" <=> batch[c][j] # "none",
         UNCHANGED <<manual, disk, loose, userOff, phase>>, j \notin owed',
         \/ mem'[j] = mem[j]
         \/ mem[j].present /\ mem'[j] = [mem[j] EXCEPT !.marker = "set"]
  PROVE  JobInv(j)'
<1>1. JobInv(j) /\ mem[j] \in Records /\ InFlight(j) /\ InFlight(j)'
  BY DEF CronInv, JobInv, WellFormed, Coherent, InFlight
<1>2. /\ mem'[j] \in Records
      /\ mem'[j].present = mem[j].present /\ mem'[j].enabled = mem[j].enabled
      /\ mem'[j].next = mem[j].next
      /\ mem'[j].marker = mem[j].marker \/ (mem[j].present /\ mem'[j].marker = "set")
  BY <1>1 DEF Records
<1>3. WellFormed(mem'[j]) /\ Agree(mem'[j], disk'[j])
  BY <1>1, <1>2 DEF JobInv, WellFormed, Coherent, Agree
<1>4. HeldOnce(j) => HeldOnce(j)'
  BY DEF HeldOnce, Held
<1>5. FlightMarked(j)'
  BY <1>1, <1>2, <1>4 DEF JobInv, FlightMarked
<1> QED BY <1>1, <1>2, <1>3, <1>5 DEF JobInv, OwedDue

\* One job of a batch moves on.
LEMMA BatchMoves ==
  ASSUME ControlInv, NEW b \in Batches, NEW j \in Jobs, NEW pc \in BatchPcs,
         batch' = [batch EXCEPT ![b][j] = pc]
  PROVE  /\ batch' \in [Batches -> [Jobs -> BatchPcs]]
         /\ \A c \in Batches, k \in Jobs :
              batch'[c][k] = IF c = b /\ k = j THEN pc ELSE batch[c][k]
BY DEF ControlInv

\* A worker begins to execute a job.
LEMMA ExecStartStep ==
  ASSUME CronInv, NEW b \in Batches, NEW j \in Jobs, ExecStart(b, j)
  PROVE  CronInv'
<1>1. /\ batch[b][j] = "waiting" /\ batch' = [batch EXCEPT ![b][j] = "running"]
      /\ mem' = IF b = "tick" /\ ~reloaded /\ mem[j].present THEN Marked(mem, {j}) ELSE mem
      /\ owed' = owed \ {j}
      /\ UNCHANGED <<phase, disk, atPassed, timer, reloaded, skipJobIds, deferred, manual,
                     loose, userOff, interrupted>>
  BY DEF ExecStart, plan
<1>2. "running" \in BatchPcs
  BY DEF BatchPcs
<1>3. /\ batch' \in [Batches -> [Jobs -> BatchPcs]]
      /\ \A c \in Batches, k \in Jobs :
           batch'[c][k] = IF c = b /\ k = j THEN "running" ELSE batch[c][k]
  BY <1>1, <1>2, BatchMoves, ZenonT(30) DEF CronInv
<1>4. mem \in [Jobs -> Records] /\ mem' \in [Jobs -> Records]
  BY <1>1, StoreFacts, MarkedFields
<1>5. ASSUME NEW k \in Jobs, k # j PROVE JobInv(k)'
  <2>1. mem'[k] = mem[k]
    BY <1>1, <1>5 DEF Marked
  <2>2. SameFlight(k)
    BY <1>1, <1>3, <1>5 DEF SameFlight, Held
  <2>3. SameHistory(k)
    BY <1>1, <1>5 DEF SameHistory, CronInv, JobInv, OwedDue
  <2> QED BY <1>1, <1>5, <2>1, <2>2, <2>3, UnchangedKept, KeptInv DEF CronInv
<1>6. JobInv(j)'
  <2>1. \/ mem'[j] = mem[j]
        \/ mem[j].present /\ mem'[j] = [mem[j] EXCEPT !.marker = "set"]
    BY <1>1 DEF Marked
  <2>2. \A c \in Batches : batch'[c][j] # "none" <=> batch[c][j] # "none"
    BY <1>1, <1>3
  <2> QED BY <1>1, <2>1, <2>2, MovedInv
<1>7. phase # "catchup" => batch'["catchup"] = NoBatch
  <2> SUFFICES ASSUME phase # "catchup" PROVE batch'["catchup"] = NoBatch
    OBVIOUS
  <2>1. batch["catchup"] = NoBatch
    BY DEF CronInv, ControlInv
  <2>2. b # "catchup"
    BY <1>1, <2>1 DEF NoBatch
  <2> QED BY <1>1, <2>1, <2>2 DEF CronInv, ControlInv, Batches
<1>8. ControlInv'
  BY <1>1, <1>3, <1>4, <1>7 DEF CronInv, ControlInv
<1> QED BY <1>5, <1>6, <1>8 DEF CronInv

\* An execution ends.
LEMMA ExecEndStep ==
  ASSUME CronInv, NEW b \in Batches, NEW j \in Jobs, NEW outcome \in Outcomes,
         ExecEnd(b, j, outcome)
  PROVE  CronInv'
<1>1. /\ batch[b][j] = "running" /\ batch' = [batch EXCEPT ![b][j] = outcome]
      /\ interrupted' \subseteq interrupted
      /\ UNCHANGED <<phase, mem, disk, atPassed, timer, reloaded, skipJobIds, deferred,
                     manual, owed, loose, userOff>>
  BY DEF ExecEnd, plan, store
<1>2. outcome \in BatchPcs /\ outcome # "none"
  BY DEF BatchPcs, Outcomes
<1>3. /\ batch' \in [Batches -> [Jobs -> BatchPcs]]
      /\ \A c \in Batches, k \in Jobs :
           batch'[c][k] = IF c = b /\ k = j THEN outcome ELSE batch[c][k]
  BY <1>1, <1>2, BatchMoves, ZenonT(30) DEF CronInv
<1>4. ASSUME NEW k \in Jobs, k # j PROVE JobInv(k)'
  <2>1. SameFlight(k)
    BY <1>1, <1>3, <1>4 DEF SameFlight, Held
  <2>2. SameHistory(k)
    BY <1>1, <1>4 DEF SameHistory, CronInv, JobInv, OwedDue
  <2> QED BY <1>1, <1>4, <2>1, <2>2, UnchangedKept, KeptInv DEF CronInv
<1>5. JobInv(j)'
  <2>1. j \notin owed
    BY <1>1 DEF CronInv, JobInv, OwedDue
  <2>2. \A c \in Batches : batch'[c][j] # "none" <=> batch[c][j] # "none"
    BY <1>1, <1>2, <1>3
  <2> QED BY <1>1, <2>1, <2>2, MovedInv
<1>6. phase # "catchup" => batch'["catchup"] = NoBatch
  <2> SUFFICES ASSUME phase # "catchup" PROVE batch'["catchup"] = NoBatch
    OBVIOUS
  <2>1. batch["catchup"] = NoBatch
    BY DEF CronInv, ControlInv
  <2>2. b # "catchup"
    BY <1>1, <2>1 DEF NoBatch
  <2> QED BY <1>1, <2>1, <2>2 DEF CronInv, ControlInv, Batches
<1>7. ControlInv'
  BY <1>1, <1>3, <1>6 DEF CronInv, ControlInv
<1> QED BY <1>4, <1>5, <1>7 DEF CronInv

\* The record of one manual run is replaced.
LEMMA ManualSet ==
  ASSUME ControlInv, NEW m \in Manuals, NEW v \in Run, manual' = [manual EXCEPT ![m] = v]
  PROVE  /\ manual' \in [Manuals -> Run]
         /\ \A n \in Manuals : manual'[n] = IF n = m THEN v ELSE manual[n]
BY DEF ControlInv

\* No run.
LEMMA NoRunFields == NoRun \in Run /\ NoRun.pc = "idle" /\ \A r \in Run : r.job \in Jobs
<1>1. (CHOOSE j \in Jobs : TRUE) \in Jobs
  BY CronAssumption
<1> QED BY <1>1 DEF NoRun, Run

\* A manual run gives up, or reserves its job when it has no marker.
LEMMA PrepareStep ==
  ASSUME CronInv, NEW m \in Manuals, prepareManualRun(m)
  PROVE  CronInv'
<1>0. manual[m] \in Run /\ manual[m].job \in Jobs
  BY NoRunFields DEF CronInv, ControlInv
<1> PICK j \in Jobs : j = manual[m].job
  BY <1>0
<1>1. /\ manual[m] \in Run /\ manual[m].pc = "checked" /\ j \in Jobs
      /\ UNCHANGED <<phase, atPassed, timer, batch, reloaded, skipJobIds, deferred, userOff>>
  BY <1>0 DEF prepareManualRun, RunFrom, plan
<1>2. CASE ~MayReserve(j)
  <2>1. /\ manual' = [manual EXCEPT ![m] = NoRun]
        /\ UNCHANGED <<mem, disk, owed, loose, interrupted>>
    BY <1>2 DEF prepareManualRun
  <2>2. /\ manual' \in [Manuals -> Run]
        /\ \A n \in Manuals : manual'[n] = IF n = m THEN NoRun ELSE manual[n]
    BY <2>1, NoRunFields, ManualSet DEF CronInv
  <2>3. ASSUME NEW k \in Jobs PROVE JobInv(k)'
    <3>1. SameFlight(k)
      BY <1>1, <2>2, NoRunFields DEF SameFlight, Held, Outcomes
    <3>2. SameHistory(k)
      BY <1>1, <2>1, <2>3 DEF SameHistory, CronInv, JobInv, OwedDue
    <3> QED BY <2>1, <2>3, <3>1, <3>2, UnchangedKept, KeptInv DEF CronInv
  <2>4. ControlInv'
    BY <1>1, <2>1, <2>2 DEF CronInv, ControlInv
  <2> QED BY <2>3, <2>4 DEF CronInv
<1>3. CASE MayReserve(j)
  <2> DEFINE v == [manual[m] EXCEPT !.pc = "running", !.early = j \in OneShot \ atPassed]
  <2>1. /\ Stored(Marked(mem, {j}))
        /\ manual' = [manual EXCEPT ![m] = v]
        /\ owed' = owed \ {j} /\ interrupted' = interrupted \ {j}
        /\ loose' = IF mem[j].enabled THEN loose ELSE loose \cup {j}
        /\ mem[j].present /\ mem[j].marker = "no"
    BY <1>3 DEF prepareManualRun, MayReserve, ControlInv, CronInv
  <2>2. v \in Run /\ v.pc = "running" /\ v.job = j
    <3>1. (j \in OneShot \ atPassed) \in BOOLEAN
      OBVIOUS
    <3> QED BY <1>1, <3>1 DEF Run
  <2> HIDE DEF v
  <2>3. /\ manual' \in [Manuals -> Run]
        /\ \A n \in Manuals : manual'[n] = IF n = m THEN v ELSE manual[n]
    BY <2>1, <2>2, ManualSet DEF CronInv
  <2>4. mem' = Marked(mem, {j}) /\ disk' = mem' /\ mem' \in [Jobs -> Records]
    BY <2>1, StoreFacts, MarkedFields DEF Stored
  <2>5. \A k \in Jobs :
          /\ mem'[k] \in Records
          /\ mem'[k].present = mem[k].present /\ mem'[k].enabled = mem[k].enabled
          /\ mem'[k].next = mem[k].next
          /\ mem'[k].marker = IF k = j THEN "set" ELSE mem[k].marker
    BY <2>4, StoreFacts, MarkedFields
  <2>6. \A k \in Jobs : WellFormed(mem'[k])
    BY <2>1, <2>5, StoreFacts DEF WellFormed, Coherent
  <2>7. ~Held(m, j) /\ Held(m, j)' /\ \A n \in Manuals \ {m} : Held(n, j)' <=> Held(n, j)
    BY <1>1, <2>2, <2>3 DEF Held, Outcomes
  <2>8. phase # "down"
    BY <1>1 DEF CronInv, ControlInv
  <2>9. ASSUME NEW k \in Jobs, k # j PROVE JobInv(k)'
    <3>1. SameFlight(k)
      <4>1. ~Held(m, k) /\ ~Held(m, k)'
        BY <1>1, <2>2, <2>3, <2>9 DEF Held, Outcomes
      <4> QED BY <1>1, <2>3, <4>1 DEF SameFlight, Held
    <3>2. k \in owed => disk'[k].next = "due"
      BY <2>4, <2>5, <2>9, StoreFacts, ZenonT(30) DEF CronInv, JobInv, OwedDue, Agree
    <3>3. SameHistory(k)
      BY <1>1, <2>1, <2>9, <3>2 DEF SameHistory
    <3>4. Kept(mem[k], mem'[k])
      BY <2>5, <2>6, <2>9 DEF Kept
    <3> QED BY <2>4, <2>9, <3>1, <3>3, <3>4, StoredKept, KeptInv DEF CronInv
  <2>10. JobInv(j)'
    <3>1. JobInv(j) /\ InFlight(j)'
      BY <1>1, <2>7 DEF CronInv, InFlight, Held
    <3>2. FlightMarked(j)'
      <4> SUFFICES ASSUME j \notin loose'
                   PROVE  mem[j].enabled /\ HeldOnce(j)'
        BY <1>1, <2>4, <2>5 DEF FlightMarked
      <4>1. j \notin loose /\ mem[j].enabled
        BY <2>1
      <4>2. ~InFlight(j)
        BY <2>1, <3>1, <4>1 DEF JobInv, FlightMarked
      <4>3. \A n \in Manuals : ~Held(n, j)
        BY <4>2 DEF InFlight, Held
      <4>4. \A b \in Batches : batch'[b][j] = "none"
        BY <1>1, <4>2 DEF InFlight
      <4> QED BY <2>7, <4>1, <4>3, <4>4 DEF HeldOnce
    <3> QED BY <1>1, <2>1, <2>4, <2>5, <2>6, <2>8, <3>1, <3>2 DEF JobInv, OwedDue, Agree
  <2>11. ControlInv'
    BY <1>1, <2>1, <2>3, <2>4 DEF CronInv, ControlInv
  <2> QED BY <2>9, <2>10, <2>11 DEF CronInv
<1> QED BY <1>2, <1>3

\* The result of a manual run goes into the reloaded store.
LEMMA FinishStep ==
  ASSUME CronInv, NEW m \in Manuals, NEW option \in BOOLEAN, finishPreparedManualRun(m, option)
  PROVE  CronInv'
<1>0. manual[m] \in Run /\ manual[m].job \in Jobs /\ manual[m].early \in BOOLEAN
  BY NoRunFields DEF CronInv, ControlInv, Run
<1> PICK j \in Jobs : j = manual[m].job
  BY <1>0
<1> DEFINE r == applyJobResult(j, mem[j], manual[m].pc, manual[m].early, option)
           st == [disk EXCEPT ![j] = mergeManualRunSnapshotAfterReload(@, r)]
<1>1. /\ manual[m].pc \in Outcomes /\ manual' = [manual EXCEPT ![m] = NoRun]
      /\ UNCHANGED <<phase, atPassed, batch, skipJobIds, deferred, owed, loose, userOff,
                     interrupted>>
  BY DEF finishPreparedManualRun, plan, history
<1>2. IF mem[j].present
      THEN /\ Stored(recomputeNextRunsForMaintenance(st))
           /\ timer' = armTimer(mem') /\ reloaded' = TickRunning
      ELSE UNCHANGED <<mem, disk, timer, reloaded>>
  BY DEF finishPreparedManualRun
<1>3. /\ manual' \in [Manuals -> Run]
      /\ \A n \in Manuals : manual'[n] = IF n = m THEN NoRun ELSE manual[n]
  BY <1>1, NoRunFields, ManualSet DEF CronInv
<1>4. Held(m, j) /\ ~Held(m, j)' /\ \A n \in Manuals \ {m} : Held(n, j)' <=> Held(n, j)
  BY <1>1, <1>3, NoRunFields DEF Held, Outcomes
<1>5. phase # "down" /\ phase' # "down"
  BY <1>1 DEF CronInv, ControlInv, Outcomes
<1>6. j \notin owed'
  BY <1>1, <1>4 DEF CronInv, JobInv, OwedDue
<1>7. j \notin loose => /\ \A b \in Batches : batch'[b][j] = "none"
                        /\ \A n \in Manuals : ~Held(n, j)'
  <2> SUFFICES ASSUME j \notin loose
               PROVE  /\ \A b \in Batches : batch'[b][j] = "none"
                      /\ \A n \in Manuals : ~Held(n, j)'
    OBVIOUS
  <2>1. HeldOnce(j)
    BY DEF CronInv, JobInv, FlightMarked
  <2> QED BY <1>1, <1>4, <2>1 DEF HeldOnce
<1>8. ASSUME NEW k \in Jobs, k # j PROVE SameFlight(k)
  <2>1. ~Held(m, k) /\ ~Held(m, k)'
    BY <1>3, <1>8, NoRunFields DEF Held, Outcomes
  <2> QED BY <1>1, <1>3, <2>1 DEF SameFlight, Held
<1>9. CASE ~mem[j].present
  <2>1. UNCHANGED <<mem, disk, timer, reloaded>>
    BY <1>2, <1>9
  <2>2. ASSUME NEW k \in Jobs, k # j PROVE JobInv(k)'
    <3>1. SameHistory(k)
      BY <1>1, <2>1, <2>2 DEF SameHistory, CronInv, JobInv, OwedDue
    <3> QED BY <1>8, <2>1, <2>2, <3>1, UnchangedKept, KeptInv DEF CronInv
  <2>3. JobInv(j)'
    <3>1. WellFormed(mem[j]) /\ WellFormed(disk[j]) /\ Agree(mem[j], disk[j])
      BY StoreFacts
    <3>2. mem[j].marker = "no" /\ disk[j].marker = "no"
      BY <1>9, <3>1 DEF WellFormed, Coherent, Agree
    <3> QED BY <1>1, <1>5, <1>6, <1>7, <2>1, <3>1, <3>2, ReleasedInv
  <2>4. ControlInv'
    BY <1>1, <1>3, <1>5, <2>1 DEF CronInv, ControlInv
  <2> QED BY <2>2, <2>3, <2>4 DEF CronInv
<1>10. CASE mem[j].present
  <2> DEFINE new == recomputeNextRunsForMaintenance(st)
  <2>1. mem' = new /\ disk' = new /\ timer' \in BOOLEAN /\ reloaded' \in BOOLEAN
    BY <1>2, <1>10 DEF Stored, armTimer, TickRunning
  <2>2. Ended(mem[j], r)
    BY <1>0, <1>1, <1>10, StoreFacts, ResultFields
  <2>3. st[j] = r /\ \A k \in Jobs : k # j => st[k] = disk[k]
    BY <1>10, StoreFacts DEF mergeManualRunSnapshotAfterReload, Agree
  <2> HIDE DEF r, st
  <2>4. \A k \in Jobs : Coherent(st[k])
    BY <2>2, <2>3, StoreFacts DEF Ended
  <2>5. /\ new \in [Jobs -> Records]
        /\ \A k \in Jobs : /\ Kept(st[k], new[k])
                           /\ st[k].enabled /\ st[k].next # "none" => new[k].next = st[k].next
    BY <2>4, MaintenanceFields
  <2> HIDE DEF new
  <2>6. ASSUME NEW k \in Jobs, k # j PROVE JobInv(k)'
    <3>1. st[k] = disk[k] /\ WellFormed(disk[k])
      BY <2>3, <2>6, StoreFacts
    <3>2. k \in owed => disk'[k].next = "due"
      BY <2>1, <2>5, <2>6, <3>1 DEF CronInv, JobInv, OwedDue, WellFormed
    <3>3. SameHistory(k)
      BY <1>1, <3>2 DEF SameHistory
    <3> QED BY <1>8, <2>1, <2>5, <2>6, <3>1, <3>3, StoredKept, KeptInv DEF CronInv
  <2>7. JobInv(j)'
    <3>1. Kept(r, mem'[j]) /\ disk'[j] = mem'[j]
      BY <2>1, <2>3, <2>5
    <3>2. WellFormed(mem'[j]) /\ mem'[j].marker = "no" /\ (mem'[j].enabled => mem[j].enabled)
      BY <2>2, <3>1 DEF Kept, Ended
    <3>3. Agree(mem'[j], disk'[j])
      BY <3>1 DEF Agree
    <3> QED BY <1>1, <1>5, <1>6, <1>7, <3>1, <3>2, <3>3, ReleasedInv
  <2>8. ControlInv'
    BY <1>1, <1>3, <1>5, <2>1, <2>5 DEF CronInv, ControlInv
  <2> QED BY <2>6, <2>7, <2>8 DEF CronInv
<1> QED BY <1>9, <1>10

\* The jobs that an edit of another job only saves.
LEMMA SavedInv ==
  ASSUME CronInv, NEW k \in Jobs, mem'[k] = mem[k], disk'[k] = mem[k],
         UNCHANGED <<phase, batch, manual>>,
         k \in owed' => k \in owed, k \in loose => k \in loose', k \in userOff' => k \in userOff
  PROVE  JobInv(k)'
<1>1. JobInv(k) /\ WellFormed(mem[k]) /\ Kept(mem[k], mem'[k])
  BY KeptRefl DEF CronInv, JobInv
<1>2. SameFlight(k)
  BY DEF SameFlight, Held
<1>3. SameHistory(k)
  BY <1>1 DEF SameHistory, JobInv, OwedDue, Agree
<1> QED BY <1>1, <1>2, <1>3, StoredKept, KeptInv

\* The flight of a job when neither batches nor manual runs change.
LEMMA FlightUnchanged ==
  ASSUME UNCHANGED <<batch, manual>>, NEW j
  PROVE  (InFlight(j)' <=> InFlight(j)) /\ (HeldOnce(j) => HeldOnce(j)')
<1>1. SameFlight(j)
  BY DEF SameFlight, Held
<1> QED BY <1>1, SameFlightInFlight

\* A job is added, and every due slot is recomputed.
LEMMA AddStep ==
  ASSUME CronInv, NEW j \in Jobs, add(j)
  PROVE  CronInv'
<1> DEFINE st == [mem EXCEPT ![j] = NewJob]
           new == recomputeNextRuns(st)
<1>1. /\ phase # "down" /\ ~InFlight(j) /\ mem' = new /\ disk' = new
      /\ owed' = owed \ (Skipped(mem) \cup {j}) /\ userOff' = userOff \ {j}
      /\ interrupted' = interrupted \ {j} /\ atPassed' = atPassed \ {j}
      /\ UNCHANGED <<phase, batch, reloaded, skipJobIds, deferred, manual, loose>>
  BY DEF add, Edit, Stored, plan
<1>2. st[j] = NewJob /\ \A k \in Jobs : k # j => st[k] = mem[k]
  BY StoreFacts
<1>3. \A k \in Jobs : k # j => new[k] = recomputeNextRuns(mem)[k]
  BY <1>2 DEF recomputeNextRuns, Recompute
<1> HIDE DEF st
<1>4. Coherent(NewJob) /\ NewJob.marker = "no"
  BY RecordFields DEF Coherent, NewJob
<1>5. \A k \in Jobs : Coherent(st[k])
  BY <1>2, <1>4, StoreFacts
<1>6. new \in [Jobs -> Records] /\ \A k \in Jobs : Kept(st[k], new[k])
  BY <1>5, RecomputeFields DEF recomputeNextRuns
<1> HIDE DEF new
<1>7. ASSUME NEW k \in Jobs, k # j PROVE JobInv(k)'
  <2>1. Kept(mem[k], mem'[k]) /\ disk'[k] = mem'[k]
    BY <1>1, <1>2, <1>6, <1>7
  <2>2. SameFlight(k)
    BY <1>1 DEF SameFlight, Held
  <2>3. ASSUME k \in owed' PROVE disk'[k].next = "due"
    <3>1. mem[k].next = "due"
      BY <1>1, <1>7, <2>3 DEF CronInv, JobInv, OwedDue, Agree
    <3>2. recomputeNextRuns(mem)[k].next = "due"
      BY <1>1, <1>7, <2>3, <3>1 DEF Skipped
    <3> QED BY <1>1, <1>3, <1>7, <3>2
  <2>4. SameHistory(k)
    BY <1>1, <2>3 DEF SameHistory
  <2> QED BY <1>7, <2>1, <2>2, <2>4, StoredKept, KeptInv DEF CronInv
<1>8. JobInv(j)'
  <2>1. Kept(NewJob, mem'[j]) /\ disk'[j] = mem'[j]
    BY <1>1, <1>2, <1>6
  <2>2. WellFormed(mem'[j]) /\ mem'[j].marker = "no" /\ Agree(mem'[j], disk'[j])
    BY <1>4, <2>1 DEF Kept, Agree
  <2>3. (\A b \in Batches : batch'[b][j] = "none") /\ \A m \in Manuals : ~Held(m, j)'
    BY <1>1 DEF InFlight, Held
  <2> QED BY <1>1, <2>1, <2>2, <2>3, IdleInv
<1>9. timer' \in BOOLEAN
  BY DEF add, armTimer
<1>10. ControlInv'
  BY <1>1, <1>6, <1>9 DEF CronInv, ControlInv
<1> QED BY <1>7, <1>8, <1>10 DEF CronInv

\* A job is removed.
LEMMA RemoveStep ==
  ASSUME CronInv, NEW j \in Jobs, remove(j)
  PROVE  CronInv'
<1>1. /\ phase # "down" /\ mem' = [mem EXCEPT ![j] = Absent] /\ disk' = mem'
      /\ owed' = owed \ {j} /\ userOff' = userOff \cup {j}
      /\ UNCHANGED <<phase, atPassed, batch, reloaded, skipJobIds, deferred, manual, loose,
                     interrupted>>
  BY DEF remove, Edit, Stored, plan
<1>2. /\ mem' \in [Jobs -> Records] /\ mem'[j] = Absent
      /\ \A k \in Jobs : k # j => mem'[k] = mem[k]
  BY <1>1, StoreFacts, RecordFields
<1>3. \A k \in Jobs : k # j => JobInv(k)'
  BY <1>1, <1>2, SavedInv
<1>4. JobInv(j)'
  <2>1. /\ WellFormed(mem'[j]) /\ WellFormed(disk'[j]) /\ Agree(mem'[j], disk'[j])
        /\ mem'[j].marker = "no" /\ disk'[j].marker = "no"
        /\ ~mem'[j].present /\ ~mem'[j].enabled
    BY <1>1, <1>2, RecordFields DEF Absent, WellFormed, Coherent, Agree
  <2>2. (InFlight(j)' <=> InFlight(j)) /\ (HeldOnce(j) => HeldOnce(j)')
    BY <1>1, FlightUnchanged
  <2>3. FlightMarked(j)'
    BY <1>1, <2>1, <2>2 DEF CronInv, JobInv, FlightMarked
  <2> QED BY <1>1, <2>1, <2>3 DEF JobInv, OwedDue
<1>5. timer' \in BOOLEAN
  BY DEF remove, armTimer
<1>6. ControlInv'
  BY <1>1, <1>2, <1>5 DEF CronInv, ControlInv
<1> QED BY <1>3, <1>4, <1>6 DEF CronInv

\* A job is enabled, disabled or scheduled anew.
LEMMA UpdateStep ==
  ASSUME CronInv, NEW j \in Jobs, NEW what \in {"enable", "disable", "schedule"},
         update(j, what)
  PROVE  CronInv'
<1> DEFINE r == [mem[j] EXCEPT
                   !.enabled = IF what = "schedule" THEN @ ELSE what = "enable",
                   !.status = IF what = "schedule" /\ @ = "ok" THEN "early" ELSE @]
           passed == IF what = "schedule" THEN atPassed \ {j} ELSE atPassed
           new == IF r.enabled THEN [r EXCEPT !.next = computeJobNextRunAtMs(j, r, passed)]
                  ELSE [r EXCEPT !.next = "none", !.marker = "no"]
<1>1. /\ phase # "down" /\ mem[j].present
      /\ mem' = [mem EXCEPT ![j] = new] /\ disk' = mem'
      /\ owed' = (owed \ {j}) \cup {k \in {j} : new.next = "due" /\ ~InFlight(j)}
      /\ loose' = IF new.enabled \/ ~InFlight(j) THEN loose ELSE loose \cup {j}
      /\ userOff' = IF new.enabled THEN userOff \ {j} ELSE userOff \cup {j}
      /\ interrupted' = interrupted \ {j} /\ atPassed' = passed
      /\ UNCHANGED <<phase, batch, reloaded, skipJobIds, deferred, manual>>
  BY DEF update, Edit, Stored, plan
<1>2. mem[j] \in Records /\ WellFormed(mem[j])
  BY StoreFacts
<1>3. r \in Records /\ r.present = mem[j].present /\ r.marker = mem[j].marker
  <2>1. (IF what = "schedule" THEN mem[j].enabled ELSE what = "enable") \in BOOLEAN
    BY <1>2, RecordFields
  <2>2. (IF what = "schedule" /\ mem[j].status = "ok" THEN "early" ELSE mem[j].status)
          \in {"none", "early"} \cup Outcomes
    BY <1>2, RecordFields
  <2> QED BY <1>2, <2>1, <2>2 DEF Records
<1>4. passed \subseteq OneShot
  BY DEF CronInv, ControlInv
<1> HIDE DEF r, passed
<1>5. /\ new \in Records /\ new.present = mem[j].present
      /\ ~new.enabled => new.next = "none" /\ new.marker = "no"
      /\ new.enabled => new.marker = mem[j].marker
  <2>1. computeJobNextRunAtMs(j, r, passed) \in Nexts
    BY <1>3, NextRunType
  <2>2. CASE r.enabled
    BY <1>3, <2>1, <2>2 DEF Records, Nexts
  <2>3. CASE ~r.enabled
    BY <1>3, <2>3 DEF Records
  <2> QED BY <2>2, <2>3
<1> HIDE DEF new
<1>6. /\ mem' \in [Jobs -> Records] /\ mem'[j] = new
      /\ \A k \in Jobs : k # j => mem'[k] = mem[k]
  BY <1>1, <1>5, StoreFacts
<1>7. ASSUME NEW k \in Jobs, k # j PROVE JobInv(k)'
  <2>1. k \in owed' => k \in owed
    BY <1>1, <1>7
  <2>2. (k \in loose => k \in loose') /\ (k \in userOff' => k \in userOff)
    BY <1>1, <1>7
  <2> QED BY <1>1, <1>6, <1>7, <2>1, <2>2, SavedInv
<1>8. JobInv(j)'
  <2>1. WellFormed(mem'[j]) /\ disk'[j] = mem'[j] /\ Agree(mem'[j], disk'[j])
    BY <1>1, <1>2, <1>5, <1>6 DEF WellFormed, Coherent, Agree
  <2>2. (InFlight(j)' <=> InFlight(j)) /\ (HeldOnce(j) => HeldOnce(j)')
    BY <1>1, FlightUnchanged
  <2>3. JobInv(j)
    BY DEF CronInv
  <2>4. FlightMarked(j)'
    <3> SUFFICES ASSUME j \notin loose'
                 PROVE  /\ HeldOnce(j)'
                        /\ InFlight(j) => new.enabled /\ new.marker = "set"
      BY <1>1, <1>6, <2>2 DEF FlightMarked
    <3>1. j \notin loose /\ (InFlight(j) => new.enabled)
      BY <1>1
    <3>2. HeldOnce(j) /\ (InFlight(j) => mem[j].marker = "set")
      BY <1>1, <2>3, <3>1 DEF JobInv, FlightMarked
    <3> QED BY <1>5, <2>2, <3>1, <3>2
  <2>5. OwedDue(j)'
    <3> SUFFICES ASSUME j \in owed' PROVE OwedDue(j)'
      BY DEF OwedDue
    <3>1. new.next = "due" /\ ~InFlight(j)
      BY <1>1
    <3>2. (\A b \in Batches : batch'[b][j] = "none") /\ \A m \in Manuals : ~Held(m, j)'
      BY <1>1, <3>1 DEF InFlight, Held
    <3> QED BY <1>1, <1>6, <3>1, <3>2 DEF OwedDue
  <2>6. mem'[j].marker # "no" => InFlight(j)'
    BY <1>1, <1>5, <1>6, <2>2, <2>3 DEF JobInv
  <2>7. j \in userOff' => ~mem'[j].enabled
    BY <1>1, <1>6
  <2> QED BY <1>1, <2>1, <2>4, <2>5, <2>6, <2>7 DEF JobInv
<1>9. timer' \in BOOLEAN
  BY DEF update, armTimer
<1>10. owed' \subseteq Jobs /\ loose' \subseteq Jobs /\ userOff' \subseteq Jobs
  BY <1>1 DEF CronInv, ControlInv
<1>11. ControlInv'
  BY <1>1, <1>4, <1>6, <1>9, <1>10 DEF CronInv, ControlInv
<1> QED BY <1>7, <1>8, <1>11 DEF CronInv

\* A job comes due.
LEMMA ComesDueStep ==
  ASSUME CronInv, NEW j \in Jobs, ComesDue(j)
  PROVE  CronInv'
<1>1. /\ mem' = Ripe(mem, j) /\ disk' = Ripe(disk, j)
      /\ atPassed' = atPassed \cup ({j} \cap OneShot)
      /\ owed' = IF disk[j].next = "future" /\ ~InFlight(j) THEN owed \cup {j} ELSE owed
      /\ UNCHANGED <<phase, timer, batch, reloaded, skipJobIds, deferred, manual, loose,
                     userOff, interrupted>>
  BY DEF ComesDue, plan
<1>2. ASSUME NEW st \in [Jobs -> Records]
      PROVE  /\ Ripe(st, j) \in [Jobs -> Records]
             /\ \A k \in Jobs : k # j => Ripe(st, j)[k] = st[k]
             /\ Ripe(st, j)[j].present = st[j].present
             /\ Ripe(st, j)[j].enabled = st[j].enabled
             /\ Ripe(st, j)[j].marker = st[j].marker
             /\ Ripe(st, j)[j].next = IF st[j].next = "future" THEN "due" ELSE st[j].next
  <2>1. /\ [st[j] EXCEPT !.next = "due"] \in Records
        /\ [st[j] EXCEPT !.next = "due"].present = st[j].present
        /\ [st[j] EXCEPT !.next = "due"].enabled = st[j].enabled
        /\ [st[j] EXCEPT !.next = "due"].marker = st[j].marker
        /\ [st[j] EXCEPT !.next = "due"].next = "due"
    BY <1>2 DEF Records
  <2>2. Ripe(st, j) = IF st[j].next = "future"
                      THEN [st EXCEPT ![j] = [st[j] EXCEPT !.next = "due"]] ELSE st
    BY <1>2 DEF Ripe
  <2> QED BY <1>2, <2>1, <2>2
<1>3. mem \in [Jobs -> Records] /\ disk \in [Jobs -> Records]
  BY StoreFacts
<1>4. ASSUME NEW k \in Jobs, k # j PROVE JobInv(k)'
  <2>1. mem'[k] = mem[k] /\ disk'[k] = disk[k]
    BY <1>1, <1>2, <1>3, <1>4
  <2>2. SameFlight(k)
    BY <1>1 DEF SameFlight, Held
  <2>3. SameHistory(k)
    BY <1>1, <1>4, <2>1 DEF SameHistory, CronInv, JobInv, OwedDue
  <2> QED BY <1>4, <2>1, <2>2, <2>3, UnchangedKept, KeptInv DEF CronInv
<1>5. JobInv(j)'
  <2>1. /\ JobInv(j) /\ WellFormed(mem[j]) /\ WellFormed(disk[j]) /\ Agree(mem[j], disk[j])
    BY DEF CronInv, JobInv
  <2>2. /\ mem'[j] \in Records /\ disk'[j] \in Records
        /\ mem'[j].present = mem[j].present /\ disk'[j].present = disk[j].present
        /\ mem'[j].enabled = mem[j].enabled /\ disk'[j].enabled = disk[j].enabled
        /\ mem'[j].marker = mem[j].marker /\ disk'[j].marker = disk[j].marker
        /\ mem'[j].next = IF mem[j].next = "future" THEN "due" ELSE mem[j].next
        /\ disk'[j].next = IF disk[j].next = "future" THEN "due" ELSE disk[j].next
    BY <1>1, <1>2, <1>3
  <2>3. WellFormed(mem'[j]) /\ WellFormed(disk'[j]) /\ Agree(mem'[j], disk'[j])
    BY <2>1, <2>2 DEF WellFormed, Coherent, Agree
  <2>4. (InFlight(j)' <=> InFlight(j)) /\ (HeldOnce(j) => HeldOnce(j)')
    BY <1>1, FlightUnchanged
  <2>5. FlightMarked(j)'
    BY <1>1, <2>1, <2>2, <2>4 DEF JobInv, FlightMarked
  <2>6. OwedDue(j)'
    <3>1. CASE j \in owed
      BY <1>1, <2>1, <2>2, <3>1 DEF JobInv, OwedDue, Held
    <3>2. CASE j \notin owed
      <4> SUFFICES ASSUME j \in owed' PROVE OwedDue(j)'
        BY DEF OwedDue
      <4>1. disk[j].next = "future" /\ ~InFlight(j)
        BY <1>1, <3>2
      <4>2. (\A b \in Batches : batch'[b][j] = "none") /\ \A m \in Manuals : ~Held(m, j)'
        BY <1>1, <4>1 DEF InFlight, Held
      <4> QED BY <2>2, <4>1, <4>2 DEF OwedDue
    <3> QED BY <3>1, <3>2
  <2> QED BY <1>1, <2>1, <2>2, <2>3, <2>4, <2>5, <2>6 DEF JobInv
<1>6. atPassed' \subseteq OneShot /\ owed' \subseteq Jobs
  BY <1>1 DEF CronInv, ControlInv
<1>7. ControlInv'
  BY <1>1, <1>2, <1>3, <1>6 DEF CronInv, ControlInv
<1> QED BY <1>4, <1>5, <1>7 DEF CronInv

\* A job runs for longer than STUCK_RUN_MS.
LEMMA AgesStep ==
  ASSUME CronInv, NEW j \in Jobs, MarkerAges(j)
  PROVE  CronInv'
<1>1. /\ phase # "down" /\ mem' = Aged(mem, j) /\ disk' = Aged(disk, j)
      /\ loose' = loose \cup {j}
      /\ UNCHANGED <<phase, atPassed, timer, batch, reloaded, skipJobIds, deferred, manual,
                     owed, userOff, interrupted>>
  BY DEF MarkerAges, plan
<1>2. ASSUME NEW st \in [Jobs -> Records]
      PROVE  /\ Aged(st, j) \in [Jobs -> Records]
             /\ \A k \in Jobs : k # j => Aged(st, j)[k] = st[k]
             /\ Aged(st, j)[j].present = st[j].present
             /\ Aged(st, j)[j].enabled = st[j].enabled
             /\ Aged(st, j)[j].next = st[j].next
             /\ Aged(st, j)[j].marker = IF st[j].marker = "set" THEN "old" ELSE st[j].marker
  <2>1. /\ [st[j] EXCEPT !.marker = "old"] \in Records
        /\ [st[j] EXCEPT !.marker = "old"].present = st[j].present
        /\ [st[j] EXCEPT !.marker = "old"].enabled = st[j].enabled
        /\ [st[j] EXCEPT !.marker = "old"].next = st[j].next
        /\ [st[j] EXCEPT !.marker = "old"].marker = "old"
    BY <1>2 DEF Records
  <2>2. Aged(st, j) = IF st[j].marker = "set"
                      THEN [st EXCEPT ![j] = [st[j] EXCEPT !.marker = "old"]] ELSE st
    BY <1>2 DEF Aged
  <2> QED BY <1>2, <2>1, <2>2
<1>3. mem \in [Jobs -> Records] /\ disk \in [Jobs -> Records]
  BY StoreFacts
<1>4. ASSUME NEW k \in Jobs, k # j PROVE JobInv(k)'
  <2>1. mem'[k] = mem[k] /\ disk'[k] = disk[k]
    BY <1>1, <1>2, <1>3, <1>4
  <2>2. SameFlight(k)
    BY <1>1 DEF SameFlight, Held
  <2>3. SameHistory(k)
    BY <1>1, <1>4, <2>1 DEF SameHistory, CronInv, JobInv, OwedDue
  <2> QED BY <1>4, <2>1, <2>2, <2>3, UnchangedKept, KeptInv DEF CronInv
<1>5. JobInv(j)'
  <2>1. /\ JobInv(j) /\ WellFormed(mem[j]) /\ WellFormed(disk[j]) /\ Agree(mem[j], disk[j])
    BY DEF CronInv, JobInv
  <2>2. /\ mem'[j] \in Records /\ disk'[j] \in Records
        /\ mem'[j].present = mem[j].present /\ disk'[j].present = disk[j].present
        /\ mem'[j].enabled = mem[j].enabled /\ disk'[j].enabled = disk[j].enabled
        /\ mem'[j].marker = (IF mem[j].marker = "set" THEN "old" ELSE mem[j].marker)
        /\ disk'[j].marker = (IF disk[j].marker = "set" THEN "old" ELSE disk[j].marker)
        /\ mem'[j].next = mem[j].next /\ disk'[j].next = disk[j].next
    BY <1>1, <1>2, <1>3
  <2>3. WellFormed(mem'[j]) /\ WellFormed(disk'[j]) /\ Agree(mem'[j], disk'[j])
    BY <2>1, <2>2 DEF WellFormed, Coherent, Agree
  <2>4. InFlight(j)' <=> InFlight(j)
    BY <1>1, FlightUnchanged
  <2>5. FlightMarked(j)'
    BY <1>1 DEF FlightMarked
  <2>6. OwedDue(j)'
    BY <1>1, <2>1, <2>2 DEF JobInv, OwedDue, Held
  <2> QED BY <1>1, <2>1, <2>2, <2>3, <2>4, <2>5, <2>6 DEF JobInv
<1>6. ControlInv'
  BY <1>1, <1>2, <1>3 DEF CronInv, ControlInv
<1> QED BY <1>4, <1>5, <1>6 DEF CronInv

\* The gateway dies.
LEMMA CrashStep ==
  ASSUME CronInv, Crash
  PROVE  CronInv'
<1>1. /\ phase' = "down" /\ mem' = disk /\ timer' = FALSE
      /\ batch' = [b \in Batches |-> NoBatch] /\ reloaded' = FALSE
      /\ skipJobIds' = {} /\ deferred' = {}
      /\ manual' = [m \in Manuals |-> NoRun] /\ loose' = {}
      /\ UNCHANGED <<disk, atPassed, owed, userOff, interrupted>>
  BY DEF Crash
<1>2. NoBatch \in [Jobs -> BatchPcs] /\ \A j \in Jobs : NoBatch[j] = "none"
  BY DEF NoBatch, BatchPcs
<1>3. \A j \in Jobs : JobInv(j)'
  <2> SUFFICES ASSUME NEW j \in Jobs PROVE JobInv(j)'
    OBVIOUS
  <2>1. /\ WellFormed(disk[j]) /\ Agree(mem[j], disk[j]) /\ Agree(disk[j], disk[j])
        /\ j \in owed => disk[j].next = "due"
        /\ j \in userOff => ~disk[j].enabled
    BY DEF CronInv, JobInv, OwedDue, Agree
  <2>2. \A b \in Batches : batch'[b][j] = "none"
    BY <1>1, <1>2
  <2>3. \A m \in Manuals : ~Held(m, j)'
    BY <1>1, NoRunFields DEF Held, Outcomes
  <2> QED BY <1>1, <2>1, <2>2, <2>3, IdleInv
<1>4. "catchup" \in Batches
  BY DEF Batches
<1>5. ControlInv'
  BY <1>1, <1>2, <1>4, NoRunFields DEF CronInv, ControlInv
<1> QED BY <1>3, <1>5 DEF CronInv
-----------------------------------------------------------------------------
(* The invariant and the theorems.                                         *)

\* The initial stores satisfy the invariant.
LEMMA InitInv == Init => CronInv
<1> SUFFICES ASSUME Init PROVE CronInv
  OBVIOUS
<1>1. /\ phase = "down" /\ disk \in [Jobs -> {Absent, NewJob}] /\ mem = disk
      /\ atPassed = {} /\ timer = FALSE
      /\ batch = [b \in Batches |-> NoBatch] /\ reloaded = FALSE
      /\ skipJobIds = {} /\ deferred = {} /\ manual = [m \in Manuals |-> NoRun]
      /\ owed = {} /\ loose = {} /\ userOff = {} /\ interrupted = {}
  BY DEF Init
<1>2. NoBatch \in [Jobs -> BatchPcs] /\ \A j \in Jobs : NoBatch[j] = "none"
  BY DEF NoBatch, BatchPcs
<1>3. WellFormed(Absent) /\ WellFormed(NewJob)
  BY RecordFields DEF Absent, NewJob, WellFormed, Coherent
<1>4. disk \in [Jobs -> Records]
  BY <1>1, RecordFields
<1>5. ASSUME NEW j \in Jobs PROVE JobInv(j)
  <2>1. WellFormed(mem[j]) /\ WellFormed(disk[j]) /\ Agree(mem[j], disk[j])
    BY <1>1, <1>3, <1>5 DEF Agree
  <2>2. \A b \in Batches : batch[b][j] = "none"
    BY <1>1, <1>2, <1>5
  <2>3. \A m \in Manuals : ~Held(m, j)
    BY <1>1, NoRunFields DEF Held, Outcomes
  <2>4. ~InFlight(j) /\ HeldOnce(j)
    BY <2>2, <2>3 DEF InFlight, HeldOnce, Held
  <2> QED BY <1>1, <2>1, <2>4 DEF JobInv, FlightMarked, OwedDue
<1>6. "catchup" \in Batches
  BY DEF Batches
<1>7. ControlInv
  BY <1>1, <1>2, <1>4, <1>6, NoRunFields DEF ControlInv
<1> QED BY <1>5, <1>7 DEF CronInv

\* Every step preserves the invariant.
LEMMA NextInv == CronInv /\ [Next]_vars => CronInv'
<1> SUFFICES ASSUME CronInv, [Next]_vars PROVE CronInv'
  OBVIOUS
<1>1. CASE Service
  BY <1>1, StartStep, PlanStep, StartDoneStep, TickIdleStep, CollectStep,
     CatchupAppliesStep, TickAppliesStep DEF Service
<1>2. CASE Environment
  BY <1>2, ReadStep, CrashStep, AddStep, RemoveStep, ComesDueStep, AgesStep, UpdateStep,
     PreflightStep DEF Environment
<1>3. ASSUME NEW b \in Batches, NEW j \in Jobs, Execution(b, j) PROVE CronInv'
  <2>1. OutcomesOf(j) \subseteq Outcomes
    BY DEF OutcomesOf, Outcomes
  <2> QED BY <1>3, <2>1, ExecStartStep, ExecEndStep DEF Execution
<1>4. ASSUME NEW m \in Manuals, ManualStep(m) PROVE CronInv'
  <2>1. OutcomesOf(manual[m].job) \subseteq Outcomes
    BY DEF OutcomesOf, Outcomes
  <2> QED BY <1>4, <2>1, PrepareStep, ManualEndsStep, FinishStep DEF ManualStep
<1>5. CASE UNCHANGED vars
  <2>1. /\ UNCHANGED <<mem, disk, phase, atPassed, timer, batch, reloaded, skipJobIds,
                       deferred, manual>>
        /\ UNCHANGED <<owed, loose, userOff, interrupted>>
    BY <1>5 DEF vars, store, plan, history
  <2>2. ASSUME NEW j \in Jobs PROVE JobInv(j)'
    <3>1. SameFlight(j) /\ SameHistory(j)
      BY <2>1, <2>2 DEF SameFlight, SameHistory, Held, CronInv, JobInv, OwedDue
    <3> QED BY <2>1, <2>2, <3>1, UnchangedKept, KeptInv DEF CronInv
  <2>3. ControlInv'
    BY <2>1 DEF CronInv, ControlInv
  <2> QED BY <2>2, <2>3 DEF CronInv
<1> QED BY <1>1, <1>2, <1>3, <1>4, <1>5 DEF Next

\* The inductive invariant holds in every reachable state.
LEMMA CronInvariant == Spec => []CronInv
BY InitInv, NextInv, PTL DEF Spec

\* The state has its types; memory and file hold the same jobs.
THEOREM TypeCorrect == Spec => []TypeOK
<1>1. CronInv => TypeOK
  <2> SUFFICES ASSUME CronInv PROVE TypeOK
    OBVIOUS
  <2>1. \A j \in Jobs : mem[j].present = disk[j].present /\ (mem[j].enabled => mem[j].present)
    BY StoreFacts DEF Agree, Coherent
  <2> QED BY <2>1 DEF CronInv, ControlInv, TypeOK, Run, BatchPcs
<1> QED BY <1>1, CronInvariant, PTL

\* Ticks, the catch-up and manual runs never execute a job at the same time,
\* unless its marker was cleared under it.
THEOREM JobsRunOnce == Spec => []NoOverlap
<1>1. CronInv => NoOverlap
  <2> SUFFICES ASSUME CronInv, NEW j \in Jobs, j \notin loose
               PROVE  Cardinality(Executions(j)) <= 1
    BY DEF NoOverlap
  <2>1. HeldOnce(j)
    BY DEF CronInv, JobInv, FlightMarked
  <2>2. \A x, y \in Executions(j) : x = y
    BY <2>1 DEF HeldOnce, Executions, Held, RunFrom
  <2>3. CASE Executions(j) = {}
    BY <2>3, FS_EmptySet
  <2>4. CASE Executions(j) # {}
    <3>1. PICK x : Executions(j) = {x}
      BY <2>2, <2>4
    <3> QED BY <3>1, FS_Singleton
  <2> QED BY <2>3, <2>4
<1> QED BY <1>1, CronInvariant, PTL

\* While the service is up, every marker belongs to a run that will clear it.
THEOREM MarkersOwned == Spec => []MarkerHonest
<1>1. CronInv => MarkerHonest
  BY DEF CronInv, JobInv, MarkerHonest
<1> QED BY <1>1, CronInvariant, PTL

\* A slot that came due is due in the file until the job is run, whatever
\* maintenance, results, reads and crashes happen in between.
THEOREM SlotsKept == Spec => []NoSlotSkipped
<1>1. CronInv => NoSlotSkipped
  BY DEF CronInv, ControlInv, JobInv, OwedDue, NoSlotSkipped
<1> QED BY <1>1, CronInvariant, PTL

\* The end of a run does not bring back a job that was disabled or removed.
THEOREM UserChoiceKept == Spec => []UserChoiceHolds
<1>1. CronInv => UserChoiceHolds
  BY DEF CronInv, ControlInv, JobInv, Agree, UserChoiceHolds
<1> QED BY <1>1, CronInvariant, PTL
=============================================================================
