---------------------------- MODULE HeartbeatWake ----------------------------
(***************************************************************************)
(* infra/heartbeat-wake.ts: wake requests are coalesced per target in      *)
(* pendingWakes, a single timer hands them in batches to the registered    *)
(* handler, and a handler that is busy or throws gets them again after a   *)
(* cooldown.  A restart in the process registers a new handler while a     *)
(* batch of the old one may still be in flight, or hang for ever.          *)
(*                                                                         *)
(* Wakes of a batch are handled in any order.  Times are left out: whether *)
(* a timer that is armed fires before the one a request asks for is open.  *)
(***************************************************************************)
EXTENDS Integers, FiniteSets

CONSTANTS
  Targets,         \* agent and session a wake is for
  Priorities,      \* the values of REASON_PRIORITY in use
  MaxRequests,     \* bound on the requests
  MaxGenerations,  \* bound on handlerGeneration
  MaxRetries       \* bound on the answers "requests-in-flight" and exceptions

NoWake == -1
NoHandler == 0

ASSUME HeartbeatWakeAssumption ==
  /\ Priorities \subseteq Nat
  /\ MaxRequests \in Nat /\ MaxGenerations \in Nat /\ MaxRetries \in Nat

VARIABLES
  handler,       \* the generation at which the handler was set, or NoHandler
  handlerGeneration,
  pendingWakes,  \* pendingWakes[t]: priority of the wake pending for t, or NoWake
  scheduled,
  running,
  timer,         \* "none", or the kind of the timer that is armed
  batches,       \* the batches whose loop has not ended
  requests,      \* number of requests so far
  retries,       \* number of answers that ask for a retry so far
  owed,          \* history: owed[t], highest priority asked of the next batch
  latest,        \* history: the handler registered last
  disposed,      \* history: the handlers whose owner has called the disposer
  late           \* history: a batch ended after a newer handler was set

bounds == <<requests, retries>>
registration == <<handler, handlerGeneration, latest, disposed>>
vars == <<registration, pendingWakes, scheduled, running, timer, batches,
          bounds, owed, late>>

Generations == 1..MaxGenerations
BatchIds == 1..(MaxRequests + MaxRetries)

\* A batch: its handler, its wakes and those of them not answered yet.
Batch == [id : BatchIds, gen : Generations, todo : SUBSET Targets,
          wakes : [Targets -> Priorities \cup {NoWake}]]

Init ==
  /\ handler = NoHandler /\ handlerGeneration = 0
  /\ pendingWakes = [t \in Targets |-> NoWake]
  /\ scheduled = FALSE /\ running = FALSE /\ timer = "none"
  /\ batches = {} /\ requests = 0 /\ retries = 0
  /\ owed = [t \in Targets |-> NoWake]
  /\ latest = NoHandler /\ disposed = {} /\ late = FALSE
-----------------------------------------------------------------------------
Higher(p, q) == IF p > q THEN p ELSE q

\* Mutant: the newer reason always replaces the pending one.
queuePendingWakeReason_newest(pending, wakes) ==
  [t \in Targets |-> IF wakes[t] = NoWake THEN pending[t] ELSE wakes[t]]

\* Of two wakes for a target the one of higher priority stays, of equal ones
\* the newer, which has the same priority.
queuePendingWakeReason(pending, wakes) ==
  [t \in Targets |-> Higher(wakes[t], pending[t])]

\* The timers that may be armed after schedule(_, kind) found before: a retry
\* cooldown is a hard minimum, a sooner timer is kept, a later one replaced.
schedule(before, kind) ==
  CASE before = "retry"  -> {"retry"}
    [] before = "normal" -> {"normal", kind}
    [] before = "none"   -> {kind}

Only(t, p) == [u \in Targets |-> IF u = t THEN p ELSE NoWake]
IsPending(pending) == \E t \in Targets : pending[t] # NoWake
-----------------------------------------------------------------------------
requestHeartbeatNow(t, p) ==
  /\ requests < MaxRequests
  /\ requests' = requests + 1
  /\ pendingWakes' = queuePendingWakeReason(pendingWakes, Only(t, p))
  /\ owed' = [owed EXCEPT ![t] = Higher(p, owed[t])]
  /\ timer' \in schedule(timer, "normal")
  /\ UNCHANGED <<registration, scheduled, running, batches, retries, late>>

\* Mutant: the flags of an earlier lifecycle stay as they are.
ResetLifecycle_keep == UNCHANGED <<running, scheduled>>

\* What an interrupted run of the last lifecycle left behind is reset.
ResetLifecycle == running' = FALSE /\ scheduled' = FALSE

\* A new lifecycle registers its handler; no timer of the last one survives.
setHeartbeatWakeHandler ==
  /\ handlerGeneration < MaxGenerations
  /\ handlerGeneration' = handlerGeneration + 1
  /\ handler' = handlerGeneration'
  /\ latest' = handlerGeneration'
  /\ ResetLifecycle
  /\ timer' = IF IsPending(pendingWakes) THEN "normal" ELSE "none"
  /\ UNCHANGED <<pendingWakes, batches, bounds, owed, disposed, late>>

\* Mutant: the disposer does not look whose handler it clears.
DisposerMatches_any(gen) == TRUE

\* A disposer of an earlier registration does nothing.
DisposerMatches(gen) == handlerGeneration = gen /\ handler = gen

\* The owner of a handler, perhaps an old one, calls the disposer it was given.
Dispose(gen) ==
  /\ gen <= latest /\ gen \notin disposed /\ handlerGeneration < MaxGenerations
  /\ disposed' = disposed \cup {gen}
  /\ IF DisposerMatches(gen)
     THEN handler' = NoHandler /\ handlerGeneration' = handlerGeneration + 1
     ELSE UNCHANGED <<handler, handlerGeneration>>
  /\ UNCHANGED <<pendingWakes, scheduled, running, timer, batches, bounds, owed,
                 latest, late>>
-----------------------------------------------------------------------------
(* The timer fires.                                                        *)

\* No handler: the wakes stay pending until one is set.
TimerWithoutHandler ==
  /\ timer # "none" /\ handler = NoHandler
  /\ timer' = "none" /\ scheduled' = FALSE
  /\ UNCHANGED <<registration, pendingWakes, running, batches, bounds, owed, late>>

\* Mutant: the timer that finds a batch in flight is not armed again.
TimerWhileRunning_drop ==
  /\ timer # "none" /\ handler # NoHandler /\ running
  /\ timer' = "none" /\ scheduled' = FALSE
  /\ UNCHANGED <<registration, pendingWakes, running, batches, bounds, owed, late>>

\* A batch is in flight: the timer is armed again.
TimerWhileRunning ==
  /\ timer # "none" /\ handler # NoHandler /\ running
  /\ timer' \in schedule("none", timer) /\ scheduled' = TRUE
  /\ UNCHANGED <<registration, pendingWakes, running, batches, bounds, owed, late>>

\* Mutant: a batch in flight does not hold the next one back.
MayTakeBatch_always == timer # "none" /\ handler # NoHandler

MayTakeBatch == timer # "none" /\ handler # NoHandler /\ ~running

\* The pending wakes become a batch of the handler; an empty one ends at once.
TimerTakesBatch ==
  /\ MayTakeBatch
  /\ timer' = "none" /\ scheduled' = FALSE
  /\ running' = IsPending(pendingWakes)
  /\ pendingWakes' = [t \in Targets |-> NoWake]
  /\ owed' = [t \in Targets |-> NoWake]
  /\ batches' = IF IsPending(pendingWakes)
                THEN batches \cup
                     {[id |-> CHOOSE n \in BatchIds : \A b \in batches : b.id # n,
                       gen |-> handler, wakes |-> pendingWakes,
                       todo |-> {t \in Targets : pendingWakes[t] # NoWake}]}
                ELSE batches
  /\ UNCHANGED <<registration, bounds, late>>
-----------------------------------------------------------------------------
(* The handler answers for a wake of batch b.                              *)

\* The finally block of the batch: another timer when there is work left.
EndBatch(b, pending, timers) ==
  /\ batches' = batches \ {b}
  /\ running' = FALSE
  /\ timer' \in IF IsPending(pending) \/ scheduled
                THEN UNION {schedule(x, "normal") : x \in timers} ELSE timers
  /\ late' = (late \/ b.gen < handler)

\* The loop goes on with the next wake, or ends.
Advance(b, t, pending, timers) ==
  IF b.todo = {t}
  THEN EndBatch(b, pending, timers)
  ELSE /\ batches' = (batches \ {b}) \cup {[b EXCEPT !.todo = @ \ {t}]}
       /\ timer' \in timers
       /\ UNCHANGED <<running, late>>

\* The heartbeat ran, failed, or was skipped for good.
Answered(b, t) ==
  /\ Advance(b, t, pendingWakes, {timer})
  /\ UNCHANGED <<registration, pendingWakes, scheduled, bounds, owed>>

Requeue(wakes) ==
  /\ retries < MaxRetries
  /\ retries' = retries + 1
  /\ pendingWakes' = queuePendingWakeReason(pendingWakes, wakes)
  /\ owed' = [t \in Targets |-> Higher(wakes[t], owed[t])]

\* The main lane is busy: the wake is queued again behind the retry cooldown.
RequestsInFlight(b, t) ==
  /\ Requeue(Only(t, b.wakes[t]))
  /\ Advance(b, t, pendingWakes', schedule(timer, "retry"))
  /\ UNCHANGED <<registration, scheduled, requests>>

\* The handler throws: all the wakes of the batch are queued again, those
\* already answered too, and the loop ends.
Throws(b) ==
  /\ Requeue(b.wakes)
  /\ EndBatch(b, pendingWakes', schedule(timer, "retry"))
  /\ UNCHANGED <<registration, scheduled, requests>>

Next ==
  \/ \E t \in Targets, p \in Priorities : requestHeartbeatNow(t, p)
  \/ setHeartbeatWakeHandler
  \/ \E g \in Generations : Dispose(g)
  \/ TimerWithoutHandler \/ TimerWhileRunning \/ TimerTakesBatch
  \/ \E b \in batches : \E t \in b.todo : Answered(b, t) \/ RequestsInFlight(b, t)
  \/ \E b \in batches : Throws(b)

Spec == Init /\ [][Next]_vars

\* The answer to a batch of the handler that is registered now.
CurrentAnswers ==
  \E b \in batches :
    /\ b.gen = handler
    /\ (\E t \in b.todo : Answered(b, t) \/ RequestsInFlight(b, t)) \/ Throws(b)

\* Timers fire, and a registered handler answers; one that was replaced may
\* hang for ever.
FairSpec ==
  /\ Spec
  /\ WF_vars(TimerWithoutHandler \/ TimerWhileRunning \/ TimerTakesBatch)
  /\ WF_vars(CurrentAnswers)
-----------------------------------------------------------------------------
\* The types of the state.
TypeOK ==
  /\ handler \in Generations \cup {NoHandler}
  /\ handlerGeneration \in 0..MaxGenerations
  /\ pendingWakes \in [Targets -> Priorities \cup {NoWake}]
  /\ scheduled \in BOOLEAN /\ running \in BOOLEAN
  /\ timer \in {"none", "normal", "retry"}
  /\ batches \subseteq Batch
  /\ \A b \in batches : b.todo # {} /\ \A t \in b.todo : b.wakes[t] # NoWake
  /\ requests \in 0..MaxRequests /\ retries \in 0..MaxRetries
  /\ owed \in [Targets -> Priorities \cup {NoWake}]
  /\ latest \in Generations \cup {NoHandler}
  /\ disposed \subseteq 1..latest /\ late \in BOOLEAN

\* A wake is neither lost nor downgraded between the request and the batch it
\* is handed over in: not by a later request for the same target, a busy lane,
\* or an exception in the handler of a batch it belongs to.
NoWakeLost == \A t \in Targets : owed[t] <= pendingWakes[t]

\* While a handler is set, a wake that is pending has a timer that will hand it
\* over, whatever the timers and batches of earlier handlers have done.
PendingHasTimer == handler # NoHandler /\ IsPending(pendingWakes) => timer # "none"

\* The batches of the registered handler do not overlap, as long as no batch of
\* an earlier handler ended after the registration (its finally block resets
\* the flag of the new lifecycle).
SingleFlight ==
  late \/ Cardinality({b \in batches : b.gen = handler}) <= 1

\* The handler registered last stays registered until its own disposer is
\* called, whatever the disposers of its predecessors do.
HandlerStays == latest \in disposed \cup {NoHandler} \/ handler = latest

\* A wake that is pending while a handler is set is handed to a handler.
WakeServed ==
  \A t \in Targets :
    (pendingWakes[t] # NoWake /\ handler # NoHandler)
      ~> (pendingWakes[t] = NoWake \/ handler = NoHandler)
=============================================================================
