---------------------------- MODULE DeliveryQueue ----------------------------
(***************************************************************************)
(* The write-ahead queue of outbound messages: the files of                *)
(* infra/outbound/delivery-queue-storage.ts, the live sender of deliver.ts *)
(* that writes an entry before it sends and removes it after, and the      *)
(* recovery of delivery-queue-recovery.ts that replays what a crash or a   *)
(* failure left behind (at the start of the gateway, and when a channel    *)
(* reconnects), with crashes of the process.                               *)
(*                                                                         *)
(* Every await of a file operation or a send is a step of its own.  The    *)
(* actor "live" works for every entry on its own; a recoverer works on one *)
(* entry at a time, except when it defers what is left.  An entry is sent  *)
(* or not: the parts of a message are not told apart.  lastAttemptAt is    *)
(* set exactly when retryCount is positive, and whether the backoff of a   *)
(* retry has passed is open.                                               *)
(***************************************************************************)
EXTENDS Integers, FiniteSets

CONSTANTS
  Entries,      \* deliveries
  Recoverers,   \* calls that replay: of startups and of reconnects
  Budgeted,     \* the recoverers with a time budget (recoverPendingDeliveries)
  MaxRetries,   \* MAX_RETRIES
  BestEffort,   \* the entries delivered with bestEffort
  MaxScans,     \* bound on the scans of one recoverer
  MaxCrashes    \* bound on the crashes

ASSUME DeliveryQueueAssumption ==
  /\ "live" \notin Recoverers
  /\ Budgeted \in SUBSET Recoverers
  /\ MaxRetries \in Nat \ {0}
  /\ BestEffort \in SUBSET Entries
  /\ MaxScans \in Nat /\ MaxCrashes \in Nat

VARIABLES
  json,        \* json[d]: retryCount in the file d.json, or Absent
  marker,      \* the entries with a file d.delivered
  failed,      \* the entries with a file failed/d.json
  job,         \* job[a][d]: what actor a is doing with entry d
  scanning,    \* scanning[r]: recoverer r is not in its loop, before its first
               \* entry, or after it
  todo,        \* todo[r]: entries of its scan that it has not reached
  entriesInProgress,
  scans,       \* scans[r]: scans so far
  crashes,
  accepted,    \* history: entries written before their send
  sent,        \* history: entries whose send succeeded
  acked,       \* history: entries renamed to .delivered
  aborted,     \* history: entries whose live send was aborted
  attempts,    \* history: attempts[d], sends of d begun
  contended    \* history: entries that two actors worked on at once

files == <<json, marker, failed>>
control == <<job, scanning, todo, entriesInProgress, scans, crashes>>
history == <<accepted, sent, acked, aborted, attempts, contended>>
vars == <<files, control, history>>

Actors == {"live"} \cup Recoverers
Absent == -1
NoJob == [pc |-> "none", count |-> 0]

Init ==
  /\ json = [d \in Entries |-> Absent]
  /\ marker = {} /\ failed = {}
  /\ job = [a \in Actors |-> [d \in Entries |-> NoJob]]
  /\ scanning = [r \in Recoverers |-> "no"]
  /\ todo = [r \in Recoverers |-> {}]
  /\ entriesInProgress = {}
  /\ scans = [r \in Recoverers |-> 0]
  /\ crashes = 0
  /\ accepted = {} /\ sent = {} /\ acked = {} /\ aborted = {} /\ contended = {}
  /\ attempts = [d \in Entries |-> 0]
-----------------------------------------------------------------------------
\* Actor a goes on with entry d at pc.
Goto(a, d, pc) == job' = [job EXCEPT ![a][d] = [pc |-> pc, count |-> 0]]

\* Mutant: the claim is kept when the entry is done.
releaseRecoveryEntry_keep(a, d) == UNCHANGED entriesInProgress

\* The claim of a recoverer on entry d; the live sender and the deferral of the
\* entries left by the time budget have none.
releaseRecoveryEntry(a, d) ==
  entriesInProgress' = IF a # "live" /\ scanning[a] # "no"
                       THEN entriesInProgress \ {d} ELSE entriesInProgress

Done(a, d) == job' = [job EXCEPT ![a][d] = NoJob] /\ releaseRecoveryEntry(a, d)
-----------------------------------------------------------------------------
(* File operations, shared by all actors.                                  *)

\* ackDelivery, phase 1: d.json becomes d.delivered; without d.json a marker that
\* is left is removed.
ackDelivery(a, d) ==
  /\ job[a][d].pc = "ack"
  /\ IF json[d] # Absent
     THEN /\ json' = [json EXCEPT ![d] = Absent]
          /\ marker' = marker \cup {d}
          /\ acked' = acked \cup {d}
          /\ Goto(a, d, "unlink")
          /\ UNCHANGED entriesInProgress
     ELSE /\ marker' = marker \ {d}
          /\ Done(a, d)
          /\ UNCHANGED <<json, acked>>
  /\ UNCHANGED <<failed, scanning, todo, scans, crashes, accepted, sent, aborted, attempts,
                 contended>>

\* ackDelivery, phase 2.
UnlinkMarker(a, d) ==
  /\ job[a][d].pc = "unlink"
  /\ marker' = marker \ {d}
  /\ Done(a, d)
  /\ UNCHANGED <<json, failed, scanning, todo, scans, crashes, history>>

\* failDelivery reads the file ...
failDelivery(a, d) ==
  /\ job[a][d].pc = "failRead"
  /\ IF json[d] = Absent
     THEN Done(a, d)
     ELSE /\ job' = [job EXCEPT ![a][d] = [pc |-> "failWrite", count |-> json[d]]]
          /\ UNCHANGED entriesInProgress
  /\ UNCHANGED <<files, scanning, todo, scans, crashes, history>>

\* Mutant: the retry is not counted.
RetryCount_same(n) == n

\* entry.retryCount += 1.
RetryCount(n) == n + 1

\* ... and writes it back with one more retry.
FailWrite(a, d) ==
  /\ job[a][d].pc = "failWrite"
  /\ json' = [json EXCEPT ![d] = RetryCount(job[a][d].count)]
  /\ Done(a, d)
  /\ UNCHANGED <<marker, failed, scanning, todo, scans, crashes, history>>

\* Mutant: the file is unlinked.
moveToFailed_unlink(a, d) ==
  /\ job[a][d].pc = "move"
  /\ json' = [json EXCEPT ![d] = Absent]
  /\ Done(a, d)
  /\ UNCHANGED <<marker, failed, scanning, todo, scans, crashes, history>>

moveToFailed(a, d) ==
  /\ job[a][d].pc = "move"
  /\ json' = [json EXCEPT ![d] = Absent]
  /\ failed' = IF json[d] # Absent THEN failed \cup {d} ELSE failed
  /\ Done(a, d)
  /\ UNCHANGED <<marker, scanning, todo, scans, crashes, history>>
-----------------------------------------------------------------------------
(* The live sender: deliverOutboundPayloads.                               *)

\* enqueueDelivery; a write that fails is ignored and the entry never exists.
enqueueDelivery(d) ==
  /\ d \notin accepted
  /\ json' = [json EXCEPT ![d] = 0]
  /\ accepted' = accepted \cup {d}
  /\ attempts' = [attempts EXCEPT ![d] = @ + 1]
  /\ Goto("live", d, "sending")
  /\ UNCHANGED <<marker, failed, scanning, todo, entriesInProgress, scans, crashes,
                 sent, acked, aborted, contended>>

\* The send of the live sender was aborted: the entry is removed as if sent.
LiveAborts(d) ==
  /\ job["live"][d].pc = "sending"
  /\ aborted' = aborted \cup {d}
  /\ Goto("live", d, "ack")
  /\ UNCHANGED <<files, scanning, todo, entriesInProgress, scans, crashes, accepted, sent,
                 acked, attempts, contended>>

\* The send of an actor succeeds ...
SendSucceeds(a, d) ==
  /\ job[a][d].pc = "sending"
  /\ sent' = sent \cup {d}
  /\ Goto(a, d, "ack")
  /\ UNCHANGED <<files, scanning, todo, entriesInProgress, scans, crashes, accepted, acked,
                 aborted, attempts, contended>>

\* ... or fails; a recoverer gives up at once on a permanent error.  With
\* bestEffort the error of a payload is only passed to onError, which a live
\* caller may give and a recoverer never does: without it nobody hears of the
\* failure.  An error outside the payloads (no handler for the channel, the
\* transcript) is heard of with bestEffort too.
SendFails(a, d) ==
  /\ job[a][d].pc = "sending"
  /\ \/ Goto(a, d, "failRead")
     \/ a # "live" /\ Goto(a, d, "move")
     \/ d \in BestEffort /\ Goto(a, d, "ack")
  /\ UNCHANGED <<files, scanning, todo, entriesInProgress, scans, crashes, history>>
-----------------------------------------------------------------------------
(* Recovery: recoverPendingDeliveries and drainPendingDeliveries.          *)

Busy(r) == \E d \in Entries : job[r][d].pc # "none"

\* Some actor is in the middle of its work on d.
UnderWay(d) == \E a \in Actors : job[a][d].pc # "none"

\* loadPendingDeliveries: the entries on disk are listed, markers are removed.
loadPendingDeliveries(r) ==
  /\ scanning[r] = "no" /\ ~Busy(r)
  /\ scans[r] < MaxScans
  /\ scans' = [scans EXCEPT ![r] = @ + 1]
  /\ scanning' = [scanning EXCEPT ![r] = "first"]
  /\ todo' = [todo EXCEPT ![r] = {d \in Entries : json[d] # Absent}]
  /\ marker' = {}
  /\ UNCHANGED <<json, failed, job, entriesInProgress, crashes, history>>

\* Mutant: an entry that another recoverer has claimed is taken too.
claimRecoveryEntry_always(d) == TRUE

\* Whether the entry can be claimed.
claimRecoveryEntry(d) == d \notin entriesInProgress

\* The next entry of the scan (the order of enqueuedAt is left open).
TakeEntry(r, d) ==
  /\ scanning[r] # "no" /\ ~Busy(r)
  /\ d \in todo[r]
  /\ scanning' = [scanning EXCEPT ![r] = "on"]
  /\ todo' = [todo EXCEPT ![r] = @ \ {d}]
  /\ IF claimRecoveryEntry(d)
     THEN /\ entriesInProgress' = entriesInProgress \cup {d}
          /\ contended' = contended \cup {e \in {d} : UnderWay(e)}
          /\ Goto(r, d, "load")
     ELSE UNCHANGED <<entriesInProgress, job, contended>>
  /\ UNCHANGED <<files, scans, crashes, accepted, sent, acked, aborted, attempts>>

\* Mutant: the scan is trusted, the file is not read again.
Gone_stale(d) == FALSE

\* The file of a claimed entry is gone when it is read again.
Gone(d) == json[d] = Absent

\* loadPendingDelivery of the claimed entry, and what follows from it: it is
\* gone, out of retries, in its backoff, or sent.
loadPendingDelivery(r, d) ==
  /\ job[r][d].pc = "load"
  /\ \/ /\ Gone(d)
        /\ Done(r, d)
        /\ UNCHANGED attempts
     \/ /\ ~Gone(d) /\ json[d] >= MaxRetries
        /\ Goto(r, d, "move")
        /\ UNCHANGED <<entriesInProgress, attempts>>
     \/ /\ json[d] > 0 /\ json[d] < MaxRetries
        /\ Done(r, d)
        /\ UNCHANGED attempts
     \/ /\ ~Gone(d) /\ json[d] < MaxRetries
        /\ Goto(r, d, "sending")
        /\ attempts' = [attempts EXCEPT ![d] = @ + 1]
        /\ UNCHANGED entriesInProgress
  /\ UNCHANGED <<files, scanning, todo, scans, crashes, accepted, sent, acked, aborted,
                 contended>>

ScanEnds(r) ==
  /\ scanning[r] # "no" /\ ~Busy(r) /\ todo[r] = {}
  /\ scanning' = [scanning EXCEPT ![r] = "no"]
  /\ UNCHANGED <<files, job, todo, entriesInProgress, scans, crashes, history>>

\* The time budget is exceeded: failDelivery of all that is left, at once and
\* without a claim.  It is not exceeded at the first entry.
deferRemainingEntriesForBudget(r) ==
  /\ r \in Budgeted
  /\ scanning[r] = "on" /\ ~Busy(r)
  /\ todo[r] # {}
  /\ job' = [job EXCEPT ![r] = [d \in Entries |->
               IF d \in todo[r] THEN [pc |-> "failRead", count |-> 0] ELSE NoJob]]
  /\ todo' = [todo EXCEPT ![r] = {}]
  /\ contended' = contended \cup {d \in todo[r] : UnderWay(d)}
  /\ scanning' = [scanning EXCEPT ![r] = "no"]
  /\ UNCHANGED <<files, entriesInProgress, scans, crashes, accepted, sent, acked, aborted,
                 attempts>>

\* The process dies and is started again: only the files are left.
Crash ==
  /\ crashes < MaxCrashes
  /\ crashes' = crashes + 1
  /\ job' = [a \in Actors |-> [d \in Entries |-> NoJob]]
  /\ scanning' = [r \in Recoverers |-> "no"]
  /\ todo' = [r \in Recoverers |-> {}]
  /\ entriesInProgress' = {}
  /\ UNCHANGED <<files, scans, history>>
-----------------------------------------------------------------------------
\* A step of actor a on entry d.
JobStep(a, d) ==
  \/ ackDelivery(a, d) \/ UnlinkMarker(a, d)
  \/ failDelivery(a, d) \/ FailWrite(a, d) \/ moveToFailed(a, d)
  \/ SendSucceeds(a, d) \/ SendFails(a, d)

RecoveryStep(r) ==
  \/ \E d \in Entries : TakeEntry(r, d) \/ loadPendingDelivery(r, d) \/ JobStep(r, d)
  \/ ScanEnds(r)
  \/ deferRemainingEntriesForBudget(r)

Next ==
  \/ \E d \in Entries : enqueueDelivery(d) \/ LiveAborts(d) \/ JobStep("live", d)
  \/ \E r \in Recoverers : loadPendingDeliveries(r) \/ RecoveryStep(r)
  \/ Crash

Spec == Init /\ [][Next]_vars

\* Sends end and file operations return.  Scans are not owed: they come with
\* restarts and reconnects.
Fairness ==
  /\ \A d \in Entries : WF_vars(JobStep("live", d))
  /\ \A r \in Recoverers : WF_vars(RecoveryStep(r))

FairSpec == Spec /\ Fairness
-----------------------------------------------------------------------------
(* Properties.                                                             *)

Pcs == {"none", "load", "sending", "ack", "unlink", "failRead", "failWrite", "move"}

\* Types.
TypeOK ==
  /\ json \in [Entries -> Nat \cup {Absent}]
  /\ marker \in SUBSET Entries /\ failed \in SUBSET Entries
  /\ job \in [Actors -> [Entries -> [pc : Pcs, count : Nat]]]
  /\ scanning \in [Recoverers -> {"no", "first", "on"}]
  /\ todo \in [Recoverers -> SUBSET Entries]
  /\ entriesInProgress \in SUBSET Entries
  /\ scans \in [Recoverers -> Nat] /\ crashes \in Nat
  /\ accepted \in SUBSET Entries /\ sent \in SUBSET Entries
  /\ acked \in SUBSET Entries /\ aborted \in SUBSET Entries
  /\ attempts \in [Entries -> Nat] /\ contended \in SUBSET Entries

\* Entry d is delivered, or aborted by its sender, or still on disk.
Kept(d) == d \in sent \cup aborted \cup failed \/ json[d] # Absent

\* An entry written before its send stays on disk, in the queue or in failed/,
\* until a send of it succeeded (or the live send was aborted), through crashes
\* at any point; entries with bestEffort aside.
NoDeliveryLost == \A d \in accepted \ BestEffort : Kept(d)

\* The same with bestEffort: "We track whether any payload failed so we can call
\* failDelivery instead of ackDelivery."
BestEffortNotLost == \A d \in accepted : Kept(d)

\* A claimed entry is being handled by a recoverer: whatever becomes of it, the
\* claim is given back, and none is left to keep later scans from the entry.
NoClaimLeaked ==
  \A d \in entriesInProgress :
    \E r \in Recoverers : scanning[r] # "no" /\ job[r][d].pc # "none"

\* No two recoverers send one entry at the same time, with live sends in flight
\* and entries deferred: entriesInProgress keeps a startup and a reconnect apart.
\* (It does not keep them from an entry whose live send is in flight.)
SendersExclusive ==
  \A d \in Entries, r, s \in Recoverers :
    job[r][d].pc = "sending" /\ job[s][d].pc = "sending" => r = s

\* "This prevents stale startup/reconnect snapshots from re-sending an entry that
\* another recovery path already acked": no send begins after an ack.  That leaves
\* out an entry that two actors had in hand at once, which entriesInProgress does
\* not prevent for the live sender and the deferral.
AckedNotReplayed ==
  [][\A d \in acked \ contended : attempts'[d] = attempts[d]]_vars

\* An entry is tried at most MaxRetries times, two actors at once aside; a crash
\* during a send may add one.
AttemptsBounded ==
  \A d \in Entries \ contended : attempts[d] <= MaxRetries + crashes

\* What a recoverer claims it eventually gives back.
ClaimsReleased ==
  \A d \in Entries : d \in entriesInProgress ~> d \notin entriesInProgress
=============================================================================
