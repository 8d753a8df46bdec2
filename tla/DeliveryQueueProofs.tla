------------------------ MODULE DeliveryQueueProofs ------------------------
(***************************************************************************)
(* Proofs about DeliveryQueue, for every set of entries and recoverers and *)
(* every value of the bounds.                                              *)
(***************************************************************************)
EXTENDS DeliveryQueue, FiniteSetTheorems, TLAPS

Job == [pc : Pcs, count : Nat]

\* Actor a is in the middle of its work on entry d.
Working(a, d) == job[a][d].pc # "none"

\* A send of d that is not yet counted in the file, or a count under way.
Uncounted(d) ==
  \E a \in Actors : job[a][d].pc \in {"sending", "failRead", "failWrite", "ack", "move"}

\* An entry is acked only after a send or an abort.
AckInv ==
  \A a \in Actors, d \in Entries \ BestEffort :
    job[a][d].pc = "ack" => d \in sent \cup aborted

\* A recoverer works on what it has claimed; what it defers it works on without
\* a claim.
WorkClaimed ==
  \A r \in Recoverers, d \in Entries :
    Working(r, d) =>
      \/ scanning[r] # "no" /\ d \in entriesInProgress
      \/ /\ scanning[r] = "no" /\ r \in Budgeted
         /\ job[r][d].pc \in {"failRead", "failWrite"}

\* No two recoverers work on an entry in their loops.
OneClaimant ==
  \A r, s \in Recoverers, d \in Entries :
    /\ scanning[r] # "no" /\ scanning[s] # "no"
    /\ Working(r, d) /\ Working(s, d)
    => r = s

ClaimInv == WorkClaimed /\ OneClaimant /\ NoClaimLeaked

\* Nothing happens with an entry before it is accepted.
FreshInv ==
  \A d \in Entries \ accepted :
    /\ json[d] = Absent /\ attempts[d] = 0 /\ d \notin acked
    /\ \A a \in Actors : ~Working(a, d)
    /\ \A r \in Recoverers : d \notin todo[r]

\* Two actors at once work on the contended entries only.
OneActor ==
  \A d \in Entries \ contended, a, b \in Actors : Working(a, d) /\ Working(b, d) => a = b

\* The count to write back is that of the file, and an acked entry has no file.
FileInv ==
  /\ \A a \in Actors, d \in Entries \ contended :
       job[a][d].pc = "failWrite" => json[d] = job[a][d].count
  /\ \A d \in acked \ contended : json[d] = Absent

\* Every attempt but the last is counted in the file or was cut off by a crash.
AttemptsCounted(d) ==
  json[d] # Absent => attempts[d] <= json[d] + crashes + (IF Uncounted(d) THEN 1 ELSE 0)

AttemptInv == AttemptsBounded /\ \A d \in Entries \ contended : AttemptsCounted(d)
-----------------------------------------------------------------------------
(* Steps of one actor on one entry.                                        *)

\* Actor a goes on with entry d as j.
Sets(a, d, j) ==
  /\ job' \in [Actors -> [Entries -> Job]]
  /\ \A b \in Actors, e \in Entries :
       job'[b][e] = IF b = a /\ e = d THEN j ELSE job[b][e]

\* The update of one job.
LEMMA JobUpdate ==
  ASSUME TypeOK, NEW a \in Actors, NEW d \in Entries, NEW j \in Job,
         job' = [job EXCEPT ![a][d] = j]
  PROVE  Sets(a, d, j)
<1>1. job \in [Actors -> [Entries -> Job]]
  BY DEF TypeOK, Job
<1>2. job' = [job EXCEPT ![a] = [job[a] EXCEPT ![d] = j]]
  BY <1>1
<1>3. job[a] \in [Entries -> Job]
  BY <1>1
<1>4. [job[a] EXCEPT ![d] = j] \in [Entries -> Job]
  BY <1>3
<1>5. job' \in [Actors -> [Entries -> Job]]
  BY <1>1, <1>2, <1>4
<1>6. \A b \in Actors : job'[b] = IF b = a THEN [job[a] EXCEPT ![d] = j] ELSE job[b]
  BY <1>1, <1>2
<1>7. \A e \in Entries : [job[a] EXCEPT ![d] = j][e] = IF e = d THEN j ELSE job[a][e]
  BY <1>3
<1> QED BY <1>5, <1>6, <1>7 DEF Sets

\* The work that ends gives the claim back; the work that goes on keeps it.
Moves(a, d, j) ==
  /\ j \in Job /\ Sets(a, d, j)
  /\ Working(a, d)
  /\ IF j.pc = "none" THEN releaseRecoveryEntry(a, d)
                      ELSE entriesInProgress' = entriesInProgress
  /\ job[a][d].pc = "failRead" => j.pc \in {"none", "failWrite"}
  /\ job[a][d].pc = "failWrite" => j.pc = "none"
  /\ UNCHANGED <<scanning, todo, scans, crashes, accepted, contended>>

\* What the step does to the files and to the history, by where the job stood.
Transition(a, d, j) ==
  LET pc == job[a][d].pc
      keeps == UNCHANGED <<sent, aborted, acked, attempts>>
  IN
  \/ /\ pc = "ack" /\ j.pc \in {"unlink", "none"}
     /\ json' = [json EXCEPT ![d] = Absent]
     /\ acked' \in {acked, acked \cup {d}} /\ UNCHANGED <<failed, sent, aborted, attempts>>
  \/ pc = "unlink" /\ j.pc = "none" /\ UNCHANGED <<json, failed>> /\ keeps
  \/ /\ pc = "failRead" /\ UNCHANGED <<json, failed>> /\ keeps
     /\ \/ json[d] = Absent /\ j.pc = "none"
        \/ json[d] \in Nat /\ j.pc = "failWrite" /\ j.count = json[d]
  \/ /\ pc = "failWrite" /\ j.pc = "none" /\ failed' = failed /\ keeps
     /\ json' = [json EXCEPT ![d] = job[a][d].count + 1]
  \/ /\ pc = "move" /\ j.pc = "none" /\ keeps
     /\ json' = [json EXCEPT ![d] = Absent]
     /\ failed' = IF json[d] # Absent THEN failed \cup {d} ELSE failed
  \/ /\ pc = "sending" /\ j.pc \in {"ack", "failRead", "move"}
     /\ UNCHANGED <<json, failed, acked, attempts>>
     /\ sent \subseteq sent' /\ aborted \subseteq aborted'
     /\ sent' \cup aborted' \subseteq sent \cup aborted \cup {d}
     /\ j.pc = "ack" => d \in sent' \cup aborted' \cup BestEffort
  \/ /\ pc = "load" /\ j.pc \in {"none", "move"} /\ UNCHANGED <<json, failed>> /\ keeps
     /\ json[d] = Absent => j.pc = "none"
  \/ /\ pc = "load" /\ j.pc = "sending" /\ UNCHANGED <<json, failed, sent, aborted, acked>>
     /\ json[d] \in Nat /\ json[d] < MaxRetries
     /\ attempts' = [attempts EXCEPT ![d] = @ + 1]

\* Job values.
LEMMA Jobs ==
  /\ NoJob \in Job /\ NoJob.pc = "none"
  /\ \A pc \in Pcs : /\ [pc |-> pc, count |-> 0] \in Job
                     /\ [pc |-> pc, count |-> 0].pc = pc
  /\ \A n \in Nat : /\ [pc |-> "failWrite", count |-> n] \in Job
                    /\ [pc |-> "failWrite", count |-> n].pc = "failWrite"
                    /\ [pc |-> "failWrite", count |-> n].count = n
BY DEF NoJob, Job, Pcs

\* Goto and Done are updates of one job.
LEMMA GotoSets ==
  ASSUME TypeOK, NEW a \in Actors, NEW d \in Entries, NEW pc \in Pcs, Goto(a, d, pc)
  PROVE  Sets(a, d, [pc |-> pc, count |-> 0])
BY Jobs, JobUpdate DEF Goto

\* So is the end of an entry's job, which also releases its claim.
LEMMA DoneSets ==
  ASSUME TypeOK, NEW a \in Actors, NEW d \in Entries, Done(a, d)
  PROVE  Sets(a, d, NoJob) /\ releaseRecoveryEntry(a, d)
BY Jobs, JobUpdate DEF Done

\* A step of an actor on an entry under way.
WorkStep(a, d) ==
  \/ JobStep(a, d)
  \/ a = "live" /\ LiveAborts(d)
  \/ a \in Recoverers /\ loadPendingDelivery(a, d)

\* Such a step moves the job.
LEMMA WorkMoves ==
  ASSUME TypeOK, NEW a \in Actors, NEW d \in Entries, WorkStep(a, d)
  PROVE  \E j : Moves(a, d, j) /\ Transition(a, d, j)
<1> USE DEF Working
<1>0. {"ack", "unlink", "sending", "failRead", "failWrite", "move"} \subseteq Pcs
  BY DEF Pcs
<1>1. CASE ackDelivery(a, d)
  <2>1. job[a][d].pc = "ack" /\ UNCHANGED <<scanning, todo, scans, crashes, accepted, contended>>
    BY <1>1 DEF ackDelivery
  <2>2. /\ json' = [json EXCEPT ![d] = Absent]
        /\ acked' \in {acked, acked \cup {d}} /\ UNCHANGED <<failed, sent, aborted, attempts>>
    BY <1>1 DEF ackDelivery, TypeOK
  <2>3. CASE Goto(a, d, "unlink") /\ entriesInProgress' = entriesInProgress
    BY <1>0, <2>1, <2>2, <2>3, GotoSets, Jobs DEF Moves, Transition
  <2>4. CASE Done(a, d)
    BY <2>1, <2>2, <2>4, DoneSets, Jobs DEF Moves, Transition
  <2> QED BY <1>1, <2>3, <2>4 DEF ackDelivery
<1>2. CASE UnlinkMarker(a, d)
  <2>1. /\ job[a][d].pc = "unlink" /\ UNCHANGED <<scanning, todo, scans, crashes, accepted, contended>>
        /\ Done(a, d) /\ UNCHANGED <<json, failed, sent, aborted, acked, attempts>>
    BY <1>2 DEF UnlinkMarker, history
  <2> QED BY <2>1, DoneSets, Jobs DEF Moves, Transition
<1>3. CASE failDelivery(a, d)
  <2>1. /\ job[a][d].pc = "failRead" /\ UNCHANGED <<scanning, todo, scans, crashes, accepted, contended>>
        /\ UNCHANGED <<json, failed, sent, aborted, acked, attempts>>
    BY <1>3 DEF failDelivery, files, history
  <2>2. CASE json[d] = Absent
    <3>1. Done(a, d)
      BY <1>3, <2>2 DEF failDelivery
    <3> QED BY <2>1, <2>2, <3>1, DoneSets, Jobs DEF Moves, Transition
  <2>3. CASE json[d] # Absent
    <3> DEFINE j == [pc |-> "failWrite", count |-> json[d]]
    <3>1. json[d] \in Nat
      BY <2>3 DEF TypeOK
    <3>2. job' = [job EXCEPT ![a][d] = j] /\ entriesInProgress' = entriesInProgress
      BY <1>3, <2>3 DEF failDelivery
    <3>3. j \in Job /\ j.pc = "failWrite" /\ j.count = json[d]
      BY <3>1, Jobs
    <3> HIDE DEF j
    <3>4. Sets(a, d, j)
      BY <3>2, <3>3, JobUpdate
    <3> QED BY <2>1, <3>1, <3>2, <3>3, <3>4 DEF Moves, Transition
  <2> QED BY <2>2, <2>3
<1>4. CASE FailWrite(a, d)
  <2>1. /\ job[a][d].pc = "failWrite" /\ UNCHANGED <<scanning, todo, scans, crashes, accepted, contended>>
        /\ Done(a, d) /\ UNCHANGED <<failed, sent, aborted, acked, attempts>>
        /\ json' = [json EXCEPT ![d] = job[a][d].count + 1]
    BY <1>4 DEF FailWrite, RetryCount, history
  <2> QED BY <2>1, DoneSets, Jobs DEF Moves, Transition
<1>5. CASE moveToFailed(a, d)
  <2>1. /\ job[a][d].pc = "move" /\ UNCHANGED <<scanning, todo, scans, crashes, accepted, contended>>
        /\ Done(a, d) /\ UNCHANGED <<sent, aborted, acked, attempts>>
        /\ json' = [json EXCEPT ![d] = Absent]
        /\ failed' = IF json[d] # Absent THEN failed \cup {d} ELSE failed
    BY <1>5 DEF moveToFailed, history
  <2> QED BY <2>1, DoneSets, Jobs DEF Moves, Transition
<1>6. CASE SendSucceeds(a, d) \/ SendFails(a, d) \/ (a = "live" /\ LiveAborts(d))
  <2>1. /\ job[a][d].pc = "sending" /\ UNCHANGED <<scanning, todo, scans, crashes, accepted, contended>>
        /\ entriesInProgress' = entriesInProgress
        /\ UNCHANGED <<json, failed, acked, attempts>>
        /\ sent \subseteq sent' /\ aborted \subseteq aborted'
        /\ sent' \cup aborted' \subseteq sent \cup aborted \cup {d}
    BY <1>6 DEF SendSucceeds, SendFails, LiveAborts, files, history
  <2>2. \E pc \in {"ack", "failRead", "move"} :
          Goto(a, d, pc) /\ (pc = "ack" => d \in sent' \cup aborted' \cup BestEffort)
    BY <1>6 DEF SendSucceeds, SendFails, LiveAborts
  <2>3. PICK pc \in {"ack", "failRead", "move"} :
          Goto(a, d, pc) /\ (pc = "ack" => d \in sent' \cup aborted' \cup BestEffort)
    BY <2>2
  <2>4. pc \in Pcs
    BY <1>0
  <2> QED BY <2>1, <2>3, <2>4, GotoSets, Jobs, ZenonT(30) DEF Moves, Transition
<1>7. CASE loadPendingDelivery(a, d)
  <2>1. /\ job[a][d].pc = "load" /\ UNCHANGED <<scanning, todo, scans, crashes, accepted, contended>>
        /\ UNCHANGED <<json, failed, sent, aborted, acked>>
    BY <1>7 DEF loadPendingDelivery, files
  <2>2. CASE Done(a, d) /\ attempts' = attempts
    BY <2>1, <2>2, DoneSets, Jobs DEF Moves, Transition
  <2>3. CASE /\ entriesInProgress' = entriesInProgress /\ attempts' = attempts
             /\ json[d] # Absent /\ Goto(a, d, "move")
    BY <1>0, <2>1, <2>3, GotoSets, Jobs DEF Moves, Transition
  <2>4. CASE /\ entriesInProgress' = entriesInProgress
             /\ attempts' = [attempts EXCEPT ![d] = @ + 1]
             /\ json[d] # Absent /\ json[d] < MaxRetries /\ Goto(a, d, "sending")
    <3>1. json[d] \in Nat
      BY <2>4 DEF TypeOK
    <3> QED BY <1>0, <2>1, <2>4, <3>1, GotoSets, Jobs, ZenonT(30) DEF Moves, Transition
  <2> QED BY <1>7, <2>2, <2>3, <2>4 DEF loadPendingDelivery, Gone
<1> QED BY <1>1, <1>2, <1>3, <1>4, <1>5, <1>6, <1>7 DEF WorkStep, JobStep

\* The next-state relation, with those steps under one name.
LEMMA NextCases ==
  ASSUME [Next]_vars
  PROVE  \/ \E a \in Actors, d \in Entries : WorkStep(a, d)
         \/ \E d \in Entries : enqueueDelivery(d)
         \/ \E r \in Recoverers : loadPendingDeliveries(r)
         \/ \E r \in Recoverers, d \in Entries : TakeEntry(r, d)
         \/ \E r \in Recoverers : ScanEnds(r)
         \/ \E r \in Recoverers : deferRemainingEntriesForBudget(r)
         \/ Crash
         \/ UNCHANGED vars
BY DEF Next, RecoveryStep, WorkStep, Actors
-----------------------------------------------------------------------------
(* Types.                                                                  *)

\* What a step on an entry may do to the files and to the history.
LEMMA WorkFiles ==
  ASSUME TypeOK, NEW a \in Actors, NEW d \in Entries, WorkStep(a, d)
  PROVE  /\ json' \in [Entries -> Nat \cup {Absent}]
         /\ marker' \in SUBSET Entries /\ failed' \in SUBSET Entries
         /\ sent' \in SUBSET Entries /\ acked' \in SUBSET Entries
         /\ aborted' \in SUBSET Entries /\ attempts' \in [Entries -> Nat]
<1>1. job[a][d].count \in Nat
  BY DEF TypeOK
<1>2. CASE ackDelivery(a, d)
  BY <1>2 DEF TypeOK, ackDelivery
<1>3. CASE UnlinkMarker(a, d)
  BY <1>3 DEF TypeOK, UnlinkMarker, history
<1>4. CASE failDelivery(a, d)
  BY <1>4 DEF TypeOK, failDelivery, files, history
<1>5. CASE FailWrite(a, d)
  BY <1>1, <1>5 DEF TypeOK, FailWrite, RetryCount, history
<1>6. CASE moveToFailed(a, d)
  BY <1>6 DEF TypeOK, moveToFailed, history
<1>7. CASE SendSucceeds(a, d)
  BY <1>7 DEF TypeOK, SendSucceeds, files
<1>8. CASE SendFails(a, d)
  BY <1>8 DEF TypeOK, SendFails, files, history
<1>9. CASE LiveAborts(d)
  BY <1>9 DEF TypeOK, LiveAborts, files
<1>10. CASE loadPendingDelivery(a, d)
  <2>1. attempts' \in [Entries -> Nat]
    BY <1>10, SMTT(30) DEF TypeOK, loadPendingDelivery
  <2> QED BY <1>10, <2>1 DEF TypeOK, loadPendingDelivery, files
<1> QED BY <1>2, <1>3, <1>4, <1>5, <1>6, <1>7, <1>8, <1>9, <1>10 DEF WorkStep, JobStep

\* Every step keeps the types.
LEMMA TypeStep == TypeOK /\ [Next]_vars => TypeOK'
<1> SUFFICES ASSUME TypeOK, [Next]_vars PROVE TypeOK'
  OBVIOUS
<1>1. ASSUME NEW a \in Actors, NEW d \in Entries, WorkStep(a, d) PROVE TypeOK'
  <2>1. PICK j : Moves(a, d, j) /\ Transition(a, d, j)
    BY <1>1, WorkMoves
  <2>2. entriesInProgress' \in SUBSET Entries
    BY <2>1 DEF Moves, releaseRecoveryEntry, TypeOK
  <2> QED BY <1>1, <2>1, <2>2, WorkFiles DEF Moves, Sets, TypeOK, Job
<1>2. ASSUME NEW d \in Entries, enqueueDelivery(d) PROVE TypeOK'
  <2>1. Sets("live", d, [pc |-> "sending", count |-> 0])
    BY <1>2, GotoSets DEF enqueueDelivery, Actors, Pcs
  <2>2. attempts' \in [Entries -> Nat]
    BY <1>2 DEF enqueueDelivery, TypeOK
  <2> QED BY <1>2, <2>1, <2>2 DEF enqueueDelivery, Sets, TypeOK, Job
<1>3. ASSUME NEW r \in Recoverers, loadPendingDeliveries(r) PROVE TypeOK'
  <2>1. scans' \in [Recoverers -> Nat]
    BY <1>3 DEF loadPendingDeliveries, TypeOK
  <2> QED BY <1>3, <2>1 DEF loadPendingDeliveries, history, TypeOK
<1>4. ASSUME NEW r \in Recoverers, NEW d \in Entries, TakeEntry(r, d) PROVE TypeOK'
  <2>1. job' \in [Actors -> [Entries -> Job]]
    <3>1. CASE claimRecoveryEntry(d)
      BY <1>4, <3>1, GotoSets DEF TakeEntry, Sets, Pcs, Actors
    <3>2. CASE ~claimRecoveryEntry(d)
      BY <1>4, <3>2 DEF TakeEntry, TypeOK, Job
    <3> QED BY <3>1, <3>2
  <2>2. todo' \in [Recoverers -> SUBSET Entries] /\ entriesInProgress' \in SUBSET Entries
    BY <1>4 DEF TakeEntry, TypeOK
  <2> QED BY <1>4, <2>1, <2>2 DEF TakeEntry, files, history, TypeOK, Job
<1>5. ASSUME NEW r \in Recoverers, ScanEnds(r) PROVE TypeOK'
  BY <1>5 DEF ScanEnds, files, history, TypeOK
<1>6. ASSUME NEW r \in Recoverers, deferRemainingEntriesForBudget(r) PROVE TypeOK'
  <2>1. [d \in Entries |-> IF d \in todo[r] THEN [pc |-> "failRead", count |-> 0]
                           ELSE NoJob] \in [Entries -> [pc : Pcs, count : Nat]]
    BY Jobs DEF Pcs, Job
  <2>2. job' \in [Actors -> [Entries -> [pc : Pcs, count : Nat]]]
    BY <1>6, <2>1 DEF deferRemainingEntriesForBudget, TypeOK, Actors
  <2> QED BY <1>6, <2>2 DEF deferRemainingEntriesForBudget, files, history, TypeOK
<1>7. CASE Crash
  <2>1. job' \in [Actors -> [Entries -> [pc : Pcs, count : Nat]]]
    BY <1>7, Jobs DEF Crash, Job
  <2> QED BY <1>7, <2>1 DEF Crash, files, history, TypeOK
<1>8. CASE UNCHANGED vars
  BY <1>8 DEF vars, files, control, history, TypeOK
<1> QED BY <1>1, <1>2, <1>3, <1>4, <1>5, <1>6, <1>7, <1>8, NextCases
-----------------------------------------------------------------------------
(* No entry is lost.                                                       *)

\* A new job of the live sender.
LEMMA EnqueueSets ==
  ASSUME TypeOK, NEW d \in Entries, enqueueDelivery(d)
  PROVE  \E j : /\ j \in Job /\ j.pc = "sending" /\ Sets("live", d, j)
                /\ "live" \in Actors
BY GotoSets, Jobs DEF enqueueDelivery, Actors, Pcs

\* A new job of a recoverer.
LEMMA TakeSets ==
  ASSUME TypeOK, NEW r \in Recoverers, NEW d \in Entries, TakeEntry(r, d)
  PROVE  /\ r \in Actors
         /\ \/ /\ d \notin entriesInProgress
               /\ entriesInProgress' = entriesInProgress \cup {d}
               /\ \E j : j \in Job /\ j.pc = "load" /\ Sets(r, d, j)
            \/ entriesInProgress' = entriesInProgress /\ job' = job
BY GotoSets, Jobs DEF TakeEntry, claimRecoveryEntry, Actors, Pcs

\* The jobs after a deferral.
LEMMA DeferSets ==
  ASSUME TypeOK, NEW r \in Recoverers, deferRemainingEntriesForBudget(r)
  PROVE  /\ r \in Actors
         /\ \A a \in Actors, d \in Entries :
              IF a = r
              THEN job'[a][d].pc = IF d \in todo[r] THEN "failRead" ELSE "none"
              ELSE job'[a][d] = job[a][d]
BY Jobs DEF deferRemainingEntriesForBudget, TypeOK, Actors, NoJob

\* The jobs after a crash.
LEMMA CrashSets ==
  ASSUME Crash
  PROVE  \A a \in Actors, d \in Entries : job'[a][d].pc = "none"
BY DEF Crash, NoJob

\* A file disappears only when the entry was sent or aborted, or moves to failed/.
LEMMA KeptStep ==
  TypeOK /\ AckInv /\ NoDeliveryLost /\ [Next]_vars => AckInv' /\ NoDeliveryLost'
<1> SUFFICES ASSUME TypeOK, AckInv, NoDeliveryLost, [Next]_vars
             PROVE  AckInv' /\ NoDeliveryLost'
  OBVIOUS
<1> USE DEF NoDeliveryLost, Kept
<1>1. ASSUME NEW a \in Actors, NEW d \in Entries, WorkStep(a, d)
      PROVE  AckInv' /\ NoDeliveryLost'
  <2>1. PICK j : Moves(a, d, j) /\ Transition(a, d, j)
    BY <1>1, WorkMoves
  <2>2. /\ sent \subseteq sent' /\ aborted \subseteq aborted' /\ failed \subseteq failed'
        /\ accepted' = accepted /\ \A e \in Entries : e # d => json'[e] = json[e]
    BY <2>1 DEF Moves, Transition, TypeOK
  <2>3. AckInv'
    <3>1. j.pc = "ack" => d \in sent' \cup aborted' \cup BestEffort
      BY <2>1 DEF Transition
    <3> QED BY <2>1, <2>2, <3>1 DEF AckInv, Moves, Sets
  <2>4. d \in accepted \ BestEffort => Kept(d)'
    <3> SUFFICES ASSUME d \in accepted \ BestEffort PROVE Kept(d)'
      OBVIOUS
    <3>1. CASE job[a][d].pc = "ack"
      BY <2>2, <3>1 DEF AckInv
    <3>2. CASE job[a][d].pc = "failWrite"
      <4>1. json'[d] = job[a][d].count + 1 /\ job[a][d].count \in Nat
        BY <2>1, <3>2 DEF Transition, TypeOK
      <4> QED BY <4>1 DEF Absent
    <3>3. CASE job[a][d].pc = "move"
      BY <2>1, <2>2, <3>3 DEF Transition
    <3>4. CASE job[a][d].pc \notin {"ack", "failWrite", "move"}
      BY <2>1, <2>2, <3>4 DEF Transition
    <3> QED BY <3>1, <3>2, <3>3, <3>4
  <2> QED BY <2>2, <2>3, <2>4 DEF TypeOK
<1>2. ASSUME NEW d \in Entries, enqueueDelivery(d) PROVE AckInv' /\ NoDeliveryLost'
  <2>1. AckInv'
    <3>1. PICK j \in Job : j.pc = "sending" /\ Sets("live", d, j)
      BY <1>2, EnqueueSets
    <3>2. sent' = sent /\ aborted' = aborted
      BY <1>2 DEF enqueueDelivery
    <3> QED BY <3>1, <3>2 DEF AckInv, Sets
  <2>2. NoDeliveryLost'
    BY <1>2 DEF enqueueDelivery, TypeOK, Absent
  <2> QED BY <2>1, <2>2
<1>3. ASSUME NEW r \in Recoverers, loadPendingDeliveries(r) PROVE AckInv' /\ NoDeliveryLost'
  BY <1>3 DEF loadPendingDeliveries, history, AckInv
<1>4. ASSUME NEW r \in Recoverers, NEW d \in Entries, TakeEntry(r, d)
      PROVE  AckInv' /\ NoDeliveryLost'
  <2>1. UNCHANGED <<files, accepted, sent, acked, aborted, attempts>>
    BY <1>4 DEF TakeEntry
  <2>2. AckInv'
    BY <1>4, <2>1, TakeSets DEF history, AckInv, Sets
  <2> QED BY <2>1, <2>2 DEF files, history
<1>5. ASSUME NEW r \in Recoverers, ScanEnds(r) PROVE AckInv' /\ NoDeliveryLost'
  BY <1>5 DEF ScanEnds, files, history, AckInv
<1>6. ASSUME NEW r \in Recoverers, deferRemainingEntriesForBudget(r)
      PROVE  AckInv' /\ NoDeliveryLost'
  <2>1. UNCHANGED <<files, accepted, sent, acked, aborted, attempts>>
    BY <1>6 DEF deferRemainingEntriesForBudget
  <2>2. AckInv'
    BY <1>6, <2>1, DeferSets DEF history, AckInv
  <2> QED BY <2>1, <2>2 DEF files, history
<1>7. CASE Crash
  <2>1. UNCHANGED <<files, history>>
    BY <1>7 DEF Crash
  <2>2. AckInv'
    BY <1>7, CrashSets DEF AckInv
  <2> QED BY <2>1, <2>2 DEF files, history
<1>8. CASE UNCHANGED vars
  BY <1>8 DEF vars, files, control, history, AckInv
<1> QED BY <1>1, <1>2, <1>3, <1>4, <1>5, <1>6, <1>7, <1>8, NextCases
-----------------------------------------------------------------------------
(* Claims.                                                                 *)

\* Claims are not leaked when what remains of them stays with its recoverers.
LEMMA ClaimsKept ==
  ASSUME TypeOK, NoClaimLeaked, entriesInProgress' \subseteq entriesInProgress,
         \A d \in Entries, r \in Recoverers :
           d \in entriesInProgress' /\ scanning[r] # "no" /\ Working(r, d)
             => scanning'[r] # "no" /\ job'[r][d].pc # "none"
  PROVE  NoClaimLeaked'
<1> SUFFICES ASSUME NEW d \in entriesInProgress'
             PROVE  \E r \in Recoverers : scanning'[r] # "no" /\ job'[r][d].pc # "none"
  BY DEF NoClaimLeaked
<1>1. d \in Entries /\ d \in entriesInProgress
  BY DEF TypeOK
<1>2. PICK r \in Recoverers : scanning[r] # "no" /\ Working(r, d)
  BY <1>1 DEF NoClaimLeaked, Working
<1> QED BY <1>1, <1>2

\* The three parts of ClaimInv, step by step.
LEMMA ClaimStep == TypeOK /\ ClaimInv /\ [Next]_vars => ClaimInv'
<1> SUFFICES ASSUME TypeOK, ClaimInv, [Next]_vars PROVE ClaimInv'
  OBVIOUS
<1> USE DEF ClaimInv, Working
<1>0. Recoverers \subseteq Actors /\ "live" \notin Recoverers
  BY DeliveryQueueAssumption DEF Actors
<1>1. ASSUME NEW a \in Actors, NEW d \in Entries, WorkStep(a, d) PROVE ClaimInv'
  <2>1. PICK j : Moves(a, d, j)
    BY <1>1, WorkMoves
  <2>2. scanning' = scanning
    BY <2>1 DEF Moves
  <2>3. \A b \in Recoverers, e \in Entries : b # a \/ e # d => job'[b][e] = job[b][e]
    BY <1>0, <2>1 DEF Moves, Sets
  <2>4. job'[a][d] = j
    BY <2>1 DEF Moves, Sets
  <2>5. CASE a = "live"
    <3>10. WorkClaimed'
      BY <1>0, <2>1, <2>2, <2>3, <2>5 DEF WorkClaimed, Moves, releaseRecoveryEntry
    <3>11. OneClaimant'
      BY <1>0, <2>1, <2>2, <2>3, <2>5 DEF OneClaimant, Moves, releaseRecoveryEntry
    <3>12. NoClaimLeaked'
      <4>1. entriesInProgress' \subseteq entriesInProgress
        BY <1>0, <2>1, <2>2, <2>3, <2>5 DEF Moves, releaseRecoveryEntry
      <4>2. \A e \in Entries, r \in Recoverers :
             e \in entriesInProgress' /\ scanning[r] # "no" /\ Working(r, e)
               => scanning'[r] # "no" /\ job'[r][e].pc # "none"
        BY <1>0, <2>1, <2>2, <2>3, <2>5
      <4> QED BY <4>1, <4>2, ClaimsKept
    <3> QED BY <3>10, <3>11, <3>12
  <2>6. CASE a \in Recoverers /\ j.pc # "none"
    <3>10. WorkClaimed'
      BY <2>1, <2>2, <2>3, <2>4, <2>6 DEF WorkClaimed, Moves
    <3>11. OneClaimant'
      BY <2>1, <2>2, <2>3, <2>4, <2>6 DEF OneClaimant, Moves
    <3>12. NoClaimLeaked'
      <4>1. entriesInProgress' \subseteq entriesInProgress
        BY <2>1, <2>2, <2>3, <2>4, <2>6 DEF Moves, releaseRecoveryEntry
      <4>2. \A e \in Entries, r \in Recoverers :
             e \in entriesInProgress' /\ scanning[r] # "no" /\ Working(r, e)
               => scanning'[r] # "no" /\ job'[r][e].pc # "none"
        BY <2>1, <2>2, <2>3, <2>4, <2>6
      <4> QED BY <4>1, <4>2, ClaimsKept
    <3> QED BY <3>10, <3>11, <3>12
  <2>7. CASE a \in Recoverers /\ j.pc = "none" /\ scanning[a] = "no"
    <3>10. WorkClaimed'
      BY <1>0, <2>1, <2>2, <2>3, <2>4, <2>7 DEF WorkClaimed, Moves, releaseRecoveryEntry
    <3>11. OneClaimant'
      BY <1>0, <2>1, <2>2, <2>3, <2>4, <2>7 DEF OneClaimant, Moves, releaseRecoveryEntry
    <3>12. NoClaimLeaked'
      <4>1. entriesInProgress' \subseteq entriesInProgress
        BY <1>0, <2>1, <2>2, <2>3, <2>4, <2>7 DEF Moves, releaseRecoveryEntry
      <4>2. \A e \in Entries, r \in Recoverers :
             e \in entriesInProgress' /\ scanning[r] # "no" /\ Working(r, e)
               => scanning'[r] # "no" /\ job'[r][e].pc # "none"
        BY <1>0, <2>1, <2>2, <2>3, <2>4, <2>7
      <4> QED BY <4>1, <4>2, ClaimsKept
    <3> QED BY <3>10, <3>11, <3>12
  <2>8. CASE a \in Recoverers /\ j.pc = "none" /\ scanning[a] # "no"
    <3>1. entriesInProgress' = entriesInProgress \ {d}
      BY <1>0, <2>1, <2>8 DEF Moves, releaseRecoveryEntry
    <3>2. \A b \in Recoverers : b # a /\ scanning[b] # "no" => ~Working(b, d)
      BY <2>1, <2>8 DEF Moves, OneClaimant
    <3>10. WorkClaimed'
      BY <2>2, <2>3, <2>4, <2>8, <3>1, <3>2 DEF WorkClaimed
    <3>11. OneClaimant'
      BY <2>2, <2>3, <2>4, <2>8, <3>1, <3>2 DEF OneClaimant
    <3>12. NoClaimLeaked'
      <4>1. entriesInProgress' \subseteq entriesInProgress
        BY <2>2, <2>3, <2>4, <2>8, <3>1, <3>2 DEF Moves, releaseRecoveryEntry
      <4>2. \A e \in Entries, r \in Recoverers :
             e \in entriesInProgress' /\ scanning[r] # "no" /\ Working(r, e)
               => scanning'[r] # "no" /\ job'[r][e].pc # "none"
        BY <2>2, <2>3, <2>4, <2>8, <3>1, <3>2
      <4> QED BY <4>1, <4>2, ClaimsKept
    <3> QED BY <3>10, <3>11, <3>12
  <2> QED BY <2>5, <2>6, <2>7, <2>8 DEF Actors
<1>2. ASSUME NEW d \in Entries, enqueueDelivery(d) PROVE ClaimInv'
  <2>1. \A r \in Recoverers, e \in Entries : job'[r][e] = job[r][e]
    BY <1>0, <1>2, EnqueueSets DEF Sets
  <2>2. UNCHANGED <<scanning, entriesInProgress>>
    BY <1>2 DEF enqueueDelivery
  <2>10. WorkClaimed'
    BY <2>1, <2>2 DEF WorkClaimed
  <2>11. OneClaimant'
    BY <2>1, <2>2 DEF OneClaimant
  <2>12. NoClaimLeaked'
    BY <2>1, <2>2, ClaimsKept
  <2> QED BY <2>10, <2>11, <2>12
<1>3. ASSUME NEW r \in Recoverers, loadPendingDeliveries(r) PROVE ClaimInv'
  <2>10. WorkClaimed'
    BY <1>3 DEF WorkClaimed, loadPendingDeliveries, Busy, TypeOK
  <2>11. OneClaimant'
    BY <1>3 DEF OneClaimant, loadPendingDeliveries, Busy, TypeOK
  <2>12. NoClaimLeaked'
    BY <1>3 DEF NoClaimLeaked, loadPendingDeliveries, Busy, TypeOK
  <2> QED BY <2>10, <2>11, <2>12
<1>4. ASSUME NEW r \in Recoverers, NEW d \in Entries, TakeEntry(r, d) PROVE ClaimInv'
  <2>1. /\ scanning[r] # "no" /\ \A e \in Entries : ~Working(r, e)
        /\ \A b \in Recoverers : scanning'[b] # "no" <=> scanning[b] # "no"
    BY <1>4 DEF TakeEntry, Busy, TypeOK
  <2>2. CASE job' = job /\ entriesInProgress' = entriesInProgress
    <3>10. WorkClaimed'
      BY <2>1, <2>2 DEF WorkClaimed
    <3>11. OneClaimant'
      BY <2>1, <2>2 DEF OneClaimant
    <3>12. NoClaimLeaked'
      BY <2>1, <2>2 DEF NoClaimLeaked
    <3> QED BY <3>10, <3>11, <3>12
  <2>3. CASE /\ d \notin entriesInProgress /\ entriesInProgress' = entriesInProgress \cup {d}
             /\ \E j : j \in Job /\ j.pc = "load" /\ Sets(r, d, j)
    <3>1. /\ job'[r][d].pc = "load"
          /\ \A b \in Recoverers, e \in Entries : b # r \/ e # d => job'[b][e] = job[b][e]
      BY <1>0, <2>3 DEF Sets
    <3>2. \A b \in Recoverers : scanning[b] # "no" => ~Working(b, d)
      BY <2>3 DEF WorkClaimed
    <3>3. WorkClaimed'
      BY <2>1, <2>3, <3>1 DEF WorkClaimed
    <3>4. OneClaimant'
      BY <2>1, <3>1, <3>2 DEF OneClaimant
    <3>5. NoClaimLeaked'
      <4> SUFFICES ASSUME NEW e \in entriesInProgress'
                   PROVE  \E b \in Recoverers : scanning'[b] # "no" /\ job'[b][e].pc # "none"
        BY DEF NoClaimLeaked
      <4>1. CASE e = d
        BY <2>1, <3>1, <4>1
      <4>2. CASE e # d
        <5>1. e \in entriesInProgress /\ e \in Entries
          BY <2>3, <4>2 DEF TypeOK
        <5>2. PICK b \in Recoverers : scanning[b] # "no" /\ Working(b, e)
          BY <5>1 DEF NoClaimLeaked
        <5> QED BY <2>1, <3>1, <4>2, <5>1, <5>2
      <4> QED BY <4>1, <4>2
    <3> QED BY <3>3, <3>4, <3>5
  <2> QED BY <1>4, <2>2, <2>3, TakeSets
<1>5. ASSUME NEW r \in Recoverers, ScanEnds(r) PROVE ClaimInv'
  <2>10. WorkClaimed'
    BY <1>5 DEF WorkClaimed, ScanEnds, Busy, TypeOK
  <2>11. OneClaimant'
    BY <1>5 DEF OneClaimant, ScanEnds, Busy, TypeOK
  <2>12. NoClaimLeaked'
    BY <1>5 DEF NoClaimLeaked, ScanEnds, Busy, TypeOK
  <2> QED BY <2>10, <2>11, <2>12
<1>6. ASSUME NEW r \in Recoverers, deferRemainingEntriesForBudget(r) PROVE ClaimInv'
  <2>1. /\ r \in Budgeted /\ \A e \in Entries : ~Working(r, e)
        /\ scanning' = [scanning EXCEPT ![r] = "no"]
        /\ entriesInProgress' = entriesInProgress
    BY <1>6 DEF deferRemainingEntriesForBudget, Busy
  <2>10. WorkClaimed'
    BY <1>0, <1>6, <2>1, DeferSets DEF WorkClaimed, TypeOK
  <2>11. OneClaimant'
    BY <1>0, <1>6, <2>1, DeferSets DEF OneClaimant, TypeOK
  <2>12. NoClaimLeaked'
    <3>1. \A e \in Entries, b \in Recoverers :
            scanning[b] # "no" /\ Working(b, e) => scanning'[b] # "no" /\ job'[b][e].pc # "none"
      BY <1>0, <1>6, <2>1, DeferSets DEF TypeOK
    <3> QED BY <2>1, <3>1, ClaimsKept
  <2> QED BY <2>10, <2>11, <2>12
<1>7. CASE Crash
  <2>10. WorkClaimed'
    BY <1>0, <1>7, CrashSets DEF WorkClaimed, Crash
  <2>11. OneClaimant'
    BY <1>0, <1>7, CrashSets DEF OneClaimant, Crash
  <2>12. NoClaimLeaked'
    BY <1>0, <1>7, CrashSets DEF NoClaimLeaked, Crash
  <2> QED BY <2>10, <2>11, <2>12
<1>8. CASE UNCHANGED vars
  <2>10. WorkClaimed'
    BY <1>8 DEF WorkClaimed, vars, control
  <2>11. OneClaimant'
    BY <1>8 DEF OneClaimant, vars, control
  <2>12. NoClaimLeaked'
    BY <1>8 DEF NoClaimLeaked, vars, control
  <2> QED BY <2>10, <2>11, <2>12
<1> QED BY <1>1, <1>2, <1>3, <1>4, <1>5, <1>6, <1>7, <1>8, NextCases
-----------------------------------------------------------------------------
(* Who works on an entry.                                                  *)

\* Only an accepted entry is ever worked on or listed.
LEMMA FreshStep == TypeOK /\ FreshInv /\ [Next]_vars => FreshInv'
<1> SUFFICES ASSUME TypeOK, FreshInv, [Next]_vars PROVE FreshInv'
  OBVIOUS
<1> USE DEF FreshInv, Working
<1>0. Recoverers \subseteq Actors
  BY DEF Actors
<1>1. ASSUME NEW a \in Actors, NEW d \in Entries, WorkStep(a, d) PROVE FreshInv'
  <2>1. PICK j : Moves(a, d, j) /\ Transition(a, d, j)
    BY <1>1, WorkMoves
  <2>2. d \in accepted /\ accepted' = accepted /\ todo' = todo
    BY <2>1 DEF Moves
  <2>3. \A e \in Entries : e # d =>
          /\ json'[e] = json[e] /\ attempts'[e] = attempts[e] /\ (e \in acked' => e \in acked)
    BY <2>1 DEF Transition, TypeOK
  <2>4. \A b \in Actors, e \in Entries : e # d => job'[b][e] = job[b][e]
    BY <2>1 DEF Moves, Sets
  <2> QED BY <2>2, <2>3, <2>4
<1>2. ASSUME NEW d \in Entries, enqueueDelivery(d) PROVE FreshInv'
  <2>1. \A b \in Actors, e \in Entries : e # d => job'[b][e] = job[b][e]
    BY <1>2, EnqueueSets DEF Sets
  <2>2. \A e \in Entries : e # d => json'[e] = json[e] /\ attempts'[e] = attempts[e]
    BY <1>2 DEF enqueueDelivery, TypeOK
  <2> QED BY <1>2, <2>1, <2>2 DEF enqueueDelivery
<1>3. ASSUME NEW r \in Recoverers, loadPendingDeliveries(r) PROVE FreshInv'
  BY <1>3 DEF loadPendingDeliveries, history, TypeOK
<1>4. ASSUME NEW r \in Recoverers, NEW d \in Entries, TakeEntry(r, d) PROVE FreshInv'
  <2>1. /\ d \in accepted /\ UNCHANGED <<files, accepted, sent, acked, aborted, attempts>>
        /\ todo' = [todo EXCEPT ![r] = @ \ {d}]
    BY <1>4 DEF TakeEntry
  <2>2. \A b \in Actors, e \in Entries : e # d => job'[b][e] = job[b][e]
    BY <1>4, TakeSets DEF Sets
  <2>3. \A b \in Recoverers : todo'[b] \subseteq todo[b]
    BY <2>1 DEF TypeOK
  <2> QED BY <2>1, <2>2, <2>3 DEF files, history
<1>5. ASSUME NEW r \in Recoverers, ScanEnds(r) PROVE FreshInv'
  BY <1>5 DEF ScanEnds, files, history
<1>6. ASSUME NEW r \in Recoverers, deferRemainingEntriesForBudget(r) PROVE FreshInv'
  <2>1. UNCHANGED <<files, accepted, sent, acked, aborted, attempts>> /\ todo' = [todo EXCEPT ![r] = {}]
    BY <1>6 DEF deferRemainingEntriesForBudget
  <2>2. \A b \in Recoverers : todo'[b] \subseteq todo[b]
    BY <2>1 DEF TypeOK
  <2>3. \A e \in Entries \ accepted, b \in Actors : ~Working(b, e)'
    BY <1>6, DeferSets
  <2> QED BY <2>1, <2>2, <2>3 DEF files, history
<1>7. CASE Crash
  BY <1>7, CrashSets DEF Crash, files, history
<1>8. CASE UNCHANGED vars
  BY <1>8 DEF vars, files, control, history
<1> QED BY <1>1, <1>2, <1>3, <1>4, <1>5, <1>6, <1>7, <1>8, NextCases

\* An actor that begins to work on an entry another has in hand makes it contended.
LEMMA OneActorStep == TypeOK /\ FreshInv /\ OneActor /\ [Next]_vars => OneActor'
<1> SUFFICES ASSUME TypeOK, FreshInv, OneActor, [Next]_vars PROVE OneActor'
  OBVIOUS
<1> USE DEF OneActor, Working
<1>0. Recoverers \subseteq Actors /\ "live" \in Actors
  BY DEF Actors
<1>1. ASSUME NEW a \in Actors, NEW d \in Entries, WorkStep(a, d) PROVE OneActor'
  <2>1. PICK j : Moves(a, d, j)
    BY <1>1, WorkMoves
  <2>2. \A b \in Actors, e \in Entries : Working(b, e)' => Working(b, e)
    BY <2>1 DEF Moves, Sets
  <2>3. contended' = contended
    BY <2>1 DEF Moves
  <2> QED BY <2>2, <2>3
<1>2. ASSUME NEW d \in Entries, enqueueDelivery(d) PROVE OneActor'
  <2>1. \A b \in Actors, e \in Entries : b # "live" \/ e # d => job'[b][e] = job[b][e]
    BY <1>2, EnqueueSets DEF Sets
  <2>2. d \notin accepted /\ contended' = contended
    BY <1>2 DEF enqueueDelivery
  <2> QED BY <2>1, <2>2 DEF FreshInv
<1>3. ASSUME NEW r \in Recoverers, loadPendingDeliveries(r) \/ ScanEnds(r) PROVE OneActor'
  BY <1>3 DEF loadPendingDeliveries, ScanEnds, history
<1>4. ASSUME NEW r \in Recoverers, NEW d \in Entries, TakeEntry(r, d) PROVE OneActor'
  <2>1. CASE job' = job /\ contended \subseteq contended'
    BY <2>1
  <2>2. CASE /\ contended' = contended \cup {e \in {d} : UnderWay(e)}
             /\ \A b \in Actors, e \in Entries : b # r \/ e # d => job'[b][e] = job[b][e]
    BY <2>2 DEF UnderWay
  <2>3. CASE claimRecoveryEntry(d)
    <3>1. PICK j : Sets(r, d, j)
      BY <1>4, <2>3, GotoSets DEF TakeEntry, Actors, Pcs
    <3> QED BY <1>4, <2>2, <2>3, <3>1 DEF TakeEntry, Sets
  <2>4. CASE ~claimRecoveryEntry(d)
    BY <1>4, <2>1, <2>4 DEF TakeEntry
  <2> QED BY <2>3, <2>4
<1>5. ASSUME NEW r \in Recoverers, deferRemainingEntriesForBudget(r) PROVE OneActor'
  <2>1. contended' = contended \cup {d \in todo[r] : UnderWay(d)}
    BY <1>5 DEF deferRemainingEntriesForBudget
  <2>2. \A b \in Actors, e \in Entries :
          IF b = r THEN job'[b][e].pc # "none" => e \in todo[r] ELSE job'[b][e] = job[b][e]
    BY <1>5, DeferSets
  <2> QED BY <2>1, <2>2 DEF UnderWay
<1>6. CASE Crash
  BY <1>6, CrashSets DEF Crash, history
<1>7. CASE UNCHANGED vars
  BY <1>7 DEF vars, control, history
<1> QED BY <1>1, <1>2, <1>3, <1>4, <1>5, <1>6, <1>7, NextCases

-----------------------------------------------------------------------------
(* Attempts.                                                               *)

\* Nobody writes back the file of an acked entry.
LEMMA FileStep == TypeOK /\ FreshInv /\ OneActor /\ FileInv /\ [Next]_vars => FileInv'
<1> SUFFICES ASSUME TypeOK, FreshInv, OneActor, FileInv, [Next]_vars PROVE FileInv'
  OBVIOUS
<1> USE DEF FileInv
<1>1. ASSUME NEW a \in Actors, NEW d \in Entries, WorkStep(a, d) PROVE FileInv'
  <2>1. PICK j : Moves(a, d, j) /\ Transition(a, d, j)
    BY <1>1, WorkMoves
  <2>2. /\ job'[a][d] = j /\ contended' = contended
        /\ \A b \in Actors, e \in Entries : b # a \/ e # d => job'[b][e] = job[b][e]
    BY <2>1 DEF Moves, Sets
  <2>3. d \notin contended => \A b \in Actors : b # a => job[b][d].pc = "none"
    BY <2>1 DEF OneActor, Moves, Working
  <2>4. \A e \in Entries : e # d => json'[e] = json[e] /\ (e \in acked' => e \in acked)
    BY <2>1 DEF Transition, TypeOK
  <2>5. j.pc = "failWrite" => json'[d] = j.count
    BY <2>1 DEF Transition
  <2>6. d \in acked' \ contended => json'[d] = Absent
    <3>1. CASE job[a][d].pc = "failWrite" /\ d \notin contended
      <4>1. json[d] = job[a][d].count /\ job[a][d].count \in Nat
        BY <3>1 DEF TypeOK
      <4> QED BY <2>1, <3>1, <4>1 DEF Transition, Absent
    <3>2. CASE job[a][d].pc # "failWrite"
      BY <2>1, <3>2 DEF Transition, TypeOK
    <3> QED BY <3>1, <3>2
  <2>7. acked' \subseteq Entries
    BY <1>1, WorkFiles
  <2> QED BY <2>2, <2>3, <2>4, <2>5, <2>6, <2>7
<1>2. ASSUME NEW d \in Entries, enqueueDelivery(d) PROVE FileInv'
  <2>1. /\ d \notin acked /\ \A b \in Actors : job[b][d].pc = "none"
        /\ json' = [json EXCEPT ![d] = 0] /\ UNCHANGED <<acked, contended>>
    BY <1>2 DEF enqueueDelivery, FreshInv, Working
  <2>2. \A b \in Actors, e \in Entries :
          /\ e # d => job'[b][e] = job[b][e]
          /\ job'[b][d].pc \in {"none", "sending"}
    BY <1>2, <2>1, EnqueueSets DEF Sets
  <2> QED BY <2>1, <2>2 DEF TypeOK
<1>3. ASSUME NEW r \in Recoverers, loadPendingDeliveries(r) PROVE FileInv'
  BY <1>3 DEF loadPendingDeliveries, history
<1>4. ASSUME NEW r \in Recoverers, NEW d \in Entries, TakeEntry(r, d) PROVE FileInv'
  <2>1. UNCHANGED <<json, acked>> /\ contended \subseteq contended'
    BY <1>4 DEF TakeEntry, files
  <2>2. \A b \in Actors, e \in Entries : job'[b][e] = job[b][e] \/ job'[b][e].pc = "load"
    BY <1>4, TakeSets DEF Sets
  <2> QED BY <2>1, <2>2
<1>5. ASSUME NEW r \in Recoverers, ScanEnds(r) PROVE FileInv'
  BY <1>5 DEF ScanEnds, files, history
<1>6. ASSUME NEW r \in Recoverers, deferRemainingEntriesForBudget(r) PROVE FileInv'
  <2>1. UNCHANGED <<json, acked>> /\ contended \subseteq contended'
    BY <1>6 DEF deferRemainingEntriesForBudget, files
  <2>2. \A b \in Actors, e \in Entries :
          job'[b][e] = job[b][e] \/ job'[b][e].pc \in {"failRead", "none"}
    BY <1>6, DeferSets
  <2> QED BY <2>1, <2>2
<1>7. CASE Crash
  BY <1>7, CrashSets DEF Crash, files, history
<1>8. CASE UNCHANGED vars
  BY <1>8 DEF vars, files, control, history
<1> QED BY <1>1, <1>2, <1>3, <1>4, <1>5, <1>6, <1>7, <1>8, NextCases

\* AttemptsCounted survives a step after which no less is uncounted.
LEMMA CountedKept ==
  ASSUME TypeOK, NEW d \in Entries, AttemptsCounted(d),
         json'[d] = json[d], attempts'[d] = attempts[d], crashes' = crashes,
         Uncounted(d) => Uncounted(d)'
  PROVE  AttemptsCounted(d)'
<1>1. json[d] \in Nat \cup {Absent} /\ attempts[d] \in Nat /\ crashes \in Nat
  BY DEF TypeOK
<1> QED BY <1>1 DEF AttemptsCounted

\* Each attempt is counted, ends the entry, or is cut off by a crash.
LEMMA AttemptStep ==
  TypeOK /\ FreshInv /\ OneActor /\ FileInv /\ AttemptInv /\ [Next]_vars => AttemptInv'
<1> SUFFICES ASSUME TypeOK, FreshInv, OneActor, FileInv, AttemptInv, [Next]_vars
             PROVE  AttemptInv'
  OBVIOUS
<1>0. /\ crashes \in Nat /\ MaxRetries \in Nat \ {0}
      /\ \A d \in Entries : attempts[d] \in Nat /\ json[d] \in Nat \cup {Absent}
      /\ \A d \in Entries \ contended : attempts[d] <= MaxRetries + crashes
      /\ \A d \in Entries \ contended : AttemptsCounted(d)
  BY DeliveryQueueAssumption DEF TypeOK, AttemptInv, AttemptsBounded
<1>1. ASSUME NEW a \in Actors, NEW d \in Entries, WorkStep(a, d) PROVE AttemptInv'
  <2>1. PICK j : Moves(a, d, j) /\ Transition(a, d, j)
    BY <1>1, WorkMoves
  <2>2. /\ job'[a][d] = j /\ UNCHANGED <<crashes, contended>>
        /\ \A b \in Actors, e \in Entries : b # a \/ e # d => job'[b][e] = job[b][e]
    BY <2>1 DEF Moves, Sets
  <2>3. d \notin contended => \A b \in Actors : b # a => job[b][d].pc = "none"
    BY <2>1 DEF OneActor, Moves, Working
  <2>4. \A e \in Entries : e # d => json'[e] = json[e] /\ attempts'[e] = attempts[e]
    BY <2>1 DEF Transition, TypeOK
  <2>5. \A e \in Entries : e # d => (Uncounted(e)' <=> Uncounted(e))
    BY <2>2 DEF Uncounted
  <2>6. ASSUME NEW e \in Entries \ contended, e # d PROVE AttemptsCounted(e)'
    BY <1>0, <2>2, <2>4, <2>5, <2>6, CountedKept
  <2>0. CASE d \in contended
    BY <1>0, <2>0, <2>2, <2>4, <2>6 DEF AttemptInv, AttemptsBounded
  <2>7. CASE d \notin contended /\ job[a][d].pc \in {"ack", "move"}
    <3>1. json'[d] = Absent /\ attempts' = attempts
      BY <2>1, <2>7 DEF Transition, TypeOK
    <3>2. AttemptsCounted(d)'
      BY <3>1 DEF AttemptsCounted
    <3> QED BY <1>0, <2>2, <2>6, <3>1, <3>2 DEF AttemptInv, AttemptsBounded
  <2>8. CASE d \notin contended /\ job[a][d].pc \in {"unlink", "sending"}
    <3>1. json' = json /\ attempts' = attempts
      BY <2>1, <2>8 DEF Transition
    <3>2. Uncounted(d) => Uncounted(d)'
      BY <2>1, <2>2, <2>3, <2>8 DEF Transition, Uncounted
    <3>3. AttemptsCounted(d)'
      BY <1>0, <2>8, <2>2, <3>1, <3>2, CountedKept
    <3> QED BY <1>0, <2>2, <2>6, <3>1, <3>3 DEF AttemptInv, AttemptsBounded
  <2>9. CASE d \notin contended /\ job[a][d].pc = "failRead"
    <3>1. json' = json /\ attempts' = attempts
      BY <2>1, <2>9 DEF Transition
    <3>2. json[d] # Absent => Uncounted(d)'
      BY <2>1, <2>2, <2>9 DEF Transition, Uncounted
    <3>3. AttemptsCounted(d)'
      BY <1>0, <2>9, <2>2, <3>1, <3>2, CountedKept DEF AttemptsCounted
    <3> QED BY <1>0, <2>2, <2>6, <3>1, <3>3 DEF AttemptInv, AttemptsBounded
  <2>10. CASE d \notin contended /\ job[a][d].pc = "failWrite"
    <3>1. json'[d] = job[a][d].count + 1 /\ attempts' = attempts
      BY <2>1, <2>10 DEF Transition, TypeOK
    <3>2. json[d] = job[a][d].count /\ job[a][d].count \in Nat
      BY <2>10 DEF FileInv, TypeOK
    <3>3. json[d] \in Nat /\ json[d] # Absent /\ attempts[d] <= json[d] + crashes + 1
      BY <1>0, <2>10, <3>2 DEF AttemptsCounted, Absent
    <3>4. AttemptsCounted(d)'
      BY <1>0, <2>2, <3>1, <3>2, <3>3 DEF AttemptsCounted
    <3> QED BY <1>0, <2>2, <2>6, <3>1, <3>4 DEF AttemptInv, AttemptsBounded
  <2>11. CASE d \notin contended /\ job[a][d].pc = "load" /\ j.pc # "sending"
    <3>1. json' = json /\ attempts' = attempts
      BY <2>1, <2>11 DEF Transition
    <3>2. Uncounted(d) => Uncounted(d)'
      BY <2>1, <2>2, <2>3, <2>11 DEF Transition, Uncounted
    <3>3. AttemptsCounted(d)'
      BY <1>0, <2>11, <2>2, <3>1, <3>2, CountedKept
    <3> QED BY <1>0, <2>2, <2>6, <3>1, <3>3 DEF AttemptInv, AttemptsBounded
  <2>12. CASE d \notin contended /\ job[a][d].pc = "load" /\ j.pc = "sending"
    <3>1. /\ json' = json /\ json[d] \in Nat /\ json[d] < MaxRetries
          /\ attempts'[d] = attempts[d] + 1
      BY <2>1, <2>12 DEF Transition, TypeOK
    <3>2. Uncounted(d)' /\ ~Uncounted(d)
      BY <2>2, <2>3, <2>12 DEF Uncounted
    <3>3. attempts[d] <= json[d] + crashes
      BY <1>0, <2>12, <3>1, <3>2 DEF AttemptsCounted, Absent
    <3>4. AttemptsCounted(d)'
      BY <1>0, <2>2, <3>1, <3>2, <3>3 DEF AttemptsCounted
    <3>5. attempts'[d] <= MaxRetries + crashes
      BY <1>0, <3>1, <3>3
    <3> QED BY <1>0, <2>2, <2>4, <2>6, <3>4, <3>5 DEF AttemptInv, AttemptsBounded
  <2>13. job[a][d].pc \in Pcs \ {"none"}
    BY <2>1 DEF Moves, Working, TypeOK
  <2> QED BY <2>0, <2>7, <2>8, <2>9, <2>10, <2>11, <2>12, <2>13 DEF Pcs
<1>2. ASSUME NEW d \in Entries, enqueueDelivery(d) PROVE AttemptInv'
  <2>1. /\ attempts[d] = 0 /\ UNCHANGED <<crashes, contended>>
        /\ json' = [json EXCEPT ![d] = 0] /\ attempts' = [attempts EXCEPT ![d] = @ + 1]
    BY <1>2 DEF enqueueDelivery, FreshInv
  <2>2. /\ \A b \in Actors, e \in Entries : e # d => job'[b][e] = job[b][e]
        /\ \E b \in Actors : job'[b][d].pc = "sending"
    BY <1>2, EnqueueSets DEF Sets
  <2>3. Uncounted(d)'
    BY <2>2 DEF Uncounted
  <2>4. /\ json'[d] = 0 /\ attempts'[d] = 1
        /\ \A e \in Entries : e # d => json'[e] = json[e] /\ attempts'[e] = attempts[e]
    BY <2>1 DEF TypeOK
  <2>5. AttemptsCounted(d)'
    BY <1>0, <2>1, <2>3, <2>4 DEF AttemptsCounted
  <2>6. ASSUME NEW e \in Entries \ contended, e # d PROVE AttemptsCounted(e)'
    <3>1. Uncounted(e) => Uncounted(e)'
      BY <2>2, <2>6 DEF Uncounted
    <3> QED BY <1>0, <2>1, <2>4, <2>6, <3>1, CountedKept
  <2> QED BY <1>0, <2>1, <2>4, <2>5, <2>6 DEF AttemptInv, AttemptsBounded
<1>3. ASSUME UNCHANGED <<json, attempts, crashes>>, contended \subseteq contended',
             \A d \in Entries : Uncounted(d) => Uncounted(d)'
      PROVE  AttemptInv'
  BY <1>0, <1>3, CountedKept DEF AttemptInv, AttemptsBounded
<1>4. ASSUME NEW r \in Recoverers, loadPendingDeliveries(r) \/ ScanEnds(r) PROVE AttemptInv'
  BY <1>3, <1>4 DEF loadPendingDeliveries, ScanEnds, files, history, Uncounted
<1>5. ASSUME NEW r \in Recoverers, NEW d \in Entries, TakeEntry(r, d) PROVE AttemptInv'
  <2>1. /\ UNCHANGED <<json, attempts, crashes>> /\ contended \subseteq contended'
        /\ \A e \in Entries : job[r][e].pc = "none"
    BY <1>5 DEF TakeEntry, files, Busy
  <2>2. \A b \in Actors, e \in Entries : b # r => job'[b][e] = job[b][e]
    BY <1>5, TakeSets DEF Sets
  <2>3. \A e \in Entries : Uncounted(e) => Uncounted(e)'
    BY <2>1, <2>2 DEF Uncounted
  <2> QED BY <1>3, <2>1, <2>3
<1>6. ASSUME NEW r \in Recoverers, deferRemainingEntriesForBudget(r) PROVE AttemptInv'
  <2>1. /\ UNCHANGED <<json, attempts, crashes>> /\ contended \subseteq contended'
        /\ \A e \in Entries : job[r][e].pc = "none"
    BY <1>6 DEF deferRemainingEntriesForBudget, files, Busy
  <2>2. \A b \in Actors, e \in Entries : b # r => job'[b][e] = job[b][e]
    BY <1>6, DeferSets
  <2>3. \A e \in Entries : Uncounted(e) => Uncounted(e)'
    BY <2>1, <2>2 DEF Uncounted
  <2> QED BY <1>3, <2>1, <2>3
<1>7. CASE Crash
  <2>1. UNCHANGED <<json, attempts, contended>> /\ crashes' = crashes + 1
    BY <1>7 DEF Crash, files, history
  <2>2. \A d \in Entries : ~Uncounted(d)'
    BY <1>7, CrashSets DEF Uncounted
  <2>3. ASSUME NEW d \in Entries \ contended PROVE AttemptsCounted(d)'
    <3>1. json[d] # Absent => json[d] \in Nat /\ attempts[d] <= json[d] + crashes + 1
      BY <1>0 DEF AttemptsCounted
    <3> QED BY <1>0, <2>1, <2>2, <3>1 DEF AttemptsCounted
  <2>4. AttemptsBounded'
    BY <1>0, <2>1 DEF AttemptsBounded
  <2> QED BY <2>1, <2>3, <2>4 DEF AttemptInv
<1>8. CASE UNCHANGED vars
  BY <1>3, <1>8 DEF vars, files, control, history, Uncounted
<1> QED BY <1>1, <1>2, <1>4, <1>5, <1>6, <1>7, <1>8, NextCases

\* An attempt begins with the file on disk.
LEMMA ReplayStep ==
  TypeOK /\ FreshInv /\ FileInv /\ [Next]_vars => [\A d \in acked \ contended : attempts'[d] = attempts[d]]_vars
<1> SUFFICES ASSUME TypeOK, FreshInv, FileInv, [Next]_vars, NEW e \in acked \ contended
             PROVE  attempts'[e] = attempts[e] \/ UNCHANGED vars
  OBVIOUS
<1>1. e \in Entries /\ json[e] = Absent
  BY DEF TypeOK, FileInv
<1>2. ASSUME NEW a \in Actors, NEW d \in Entries, WorkStep(a, d) PROVE attempts'[e] = attempts[e]
  <2>1. PICK j : Moves(a, d, j) /\ Transition(a, d, j)
    BY <1>2, WorkMoves
  <2>2. Absent \notin Nat
    BY DEF Absent
  <2> QED BY <1>1, <2>1, <2>2 DEF Transition, TypeOK
<1>3. ASSUME NEW d \in Entries, enqueueDelivery(d) PROVE attempts'[e] = attempts[e]
  BY <1>1, <1>3 DEF enqueueDelivery, FreshInv, TypeOK
<1>4. ASSUME NEW r \in Recoverers,
             \/ loadPendingDeliveries(r) \/ ScanEnds(r) \/ deferRemainingEntriesForBudget(r)
             \/ \E d \in Entries : TakeEntry(r, d)
      PROVE  attempts'[e] = attempts[e]
  BY <1>4 DEF loadPendingDeliveries, ScanEnds, deferRemainingEntriesForBudget, TakeEntry,
              history
<1>5. CASE Crash
  BY <1>5 DEF Crash, history
<1> QED BY <1>2, <1>3, <1>4, <1>5, NextCases
-----------------------------------------------------------------------------
(* Theorems.                                                               *)

DeliveryInv ==
  /\ TypeOK /\ AckInv /\ NoDeliveryLost /\ ClaimInv
  /\ FreshInv /\ OneActor /\ FileInv /\ AttemptInv

\* DeliveryInv is an inductive invariant.
LEMMA DeliveryInvariant == Spec => []DeliveryInv
<1>1. Init => DeliveryInv
  <2> SUFFICES ASSUME Init PROVE DeliveryInv
    OBVIOUS
  <2>1. TypeOK
    BY Jobs DEF Init, TypeOK, Job
  <2>2. \A a \in Actors, d \in Entries : job[a][d].pc = "none"
    BY DEF Init, NoJob
  <2>3. Recoverers \subseteq Actors /\ "live" \in Actors
    BY DEF Actors
  <2>4. AckInv /\ NoDeliveryLost
    BY <2>2 DEF Init, AckInv, NoDeliveryLost
  <2>5. ClaimInv /\ FreshInv /\ OneActor
    BY <2>2, <2>3 DEF Init, ClaimInv, WorkClaimed, OneClaimant, NoClaimLeaked, FreshInv,
                      OneActor, Working
  <2>6. FileInv /\ AttemptInv
    BY <2>2, DeliveryQueueAssumption
       DEF Init, FileInv, AttemptInv, AttemptsCounted, AttemptsBounded
  <2> QED BY <2>1, <2>4, <2>5, <2>6 DEF DeliveryInv
<1>2. DeliveryInv /\ [Next]_vars => DeliveryInv'
  BY TypeStep, KeptStep, ClaimStep, FreshStep, OneActorStep, FileStep, AttemptStep
     DEF DeliveryInv
<1> QED BY <1>1, <1>2, PTL DEF Spec

\* The state of the delivery queue keeps its types.
THEOREM TypeCorrect == Spec => []TypeOK
<1>1. DeliveryInv => TypeOK
  BY DEF DeliveryInv
<1> QED BY <1>1, DeliveryInvariant, PTL

\* Whatever the recoverers do, and wherever the process crashes, an accepted
\* entry without bestEffort is on disk until it was sent or aborted.
THEOREM NothingLost == Spec => []NoDeliveryLost
<1>1. DeliveryInv => NoDeliveryLost
  BY DEF DeliveryInv
<1> QED BY <1>1, DeliveryInvariant, PTL

\* Every claim in entriesInProgress is that of a recoverer at work on the entry.
THEOREM ClaimsHeld == Spec => []NoClaimLeaked
<1>1. DeliveryInv => NoClaimLeaked
  BY DEF DeliveryInv, ClaimInv
<1> QED BY <1>1, DeliveryInvariant, PTL

\* The claims keep the recoverers from sending one entry at the same time, with
\* live sends in flight and entries deferred as well.
THEOREM SendersDisjoint == Spec => []SendersExclusive
<1>1. DeliveryInv => SendersExclusive
  BY DEF DeliveryInv, ClaimInv, WorkClaimed, OneClaimant, SendersExclusive, Working
<1> QED BY <1>1, DeliveryInvariant, PTL

\* No entry is tried more often than MAX_RETRIES, but for the attempts that crashes
\* cut off and for those entries that two actors had in hand at once.
THEOREM AttemptsLimited == Spec => []AttemptsBounded
<1>1. DeliveryInv => AttemptsBounded
  BY DEF DeliveryInv, AttemptInv
<1> QED BY <1>1, DeliveryInvariant, PTL

\* No recoverer sends an entry that another has acked, however old the listing that
\* it works from, unless two actors had it in hand at once.
THEOREM NoReplayAfterAck == Spec => AckedNotReplayed
<1>1. DeliveryInv /\ [Next]_vars => [\A d \in acked \ contended : attempts'[d] = attempts[d]]_vars
  BY ReplayStep DEF DeliveryInv
<1> QED BY <1>1, DeliveryInvariant, PTL DEF Spec, AckedNotReplayed
=============================================================================
