------------------------ MODULE HeartbeatWakeProofs ------------------------
(***************************************************************************)
(* Proofs about HeartbeatWake, for every set of targets and priorities and *)
(* every bound on requests, handlers and retries.                          *)
(***************************************************************************)
EXTENDS HeartbeatWake, FiniteSetTheorems, TLAPS

Wakes == [Targets -> Priorities \cup {NoWake}]
Timers == {"none", "normal", "retry"}

\* A pending wake will become a batch that needs an id.
PendingBatches == IF IsPending(pendingWakes) THEN 1 ELSE 0

\* Every batch was taken after a request or a retry of its own, so a batch id
\* is free whenever a batch is taken.
BatchesBounded ==
  /\ IsFiniteSet(batches)
  /\ Cardinality(batches) + PendingBatches <= requests + retries

\* The handler is the one registered last, of the current generation, unless
\* it was disposed; no batch is of a generation to come.
RegistrationInv ==
  /\ handler \in {NoHandler, latest}
  /\ handler # NoHandler => handlerGeneration = handler
  /\ latest <= handlerGeneration
  /\ \A b \in batches : b.gen <= handlerGeneration
  /\ HandlerStays

\* Unless a batch ended late, the batch of the handler holds running.
FlightInv ==
  late \/ \A b \in batches :
            b.gen = handler => running /\ \A c \in batches : c.gen = handler => c = b
-----------------------------------------------------------------------------
(* The operators.                                                          *)

\* Merging wakes keeps the type, and never lowers or drops a pending one.
LEMMA QueueReason ==
  ASSUME NEW pending \in Wakes, NEW wakes \in Wakes
  PROVE  /\ queuePendingWakeReason(pending, wakes) \in Wakes
         /\ \A t \in Targets :
              /\ queuePendingWakeReason(pending, wakes)[t] >= pending[t]
              /\ queuePendingWakeReason(pending, wakes)[t] >= wakes[t]
         /\ IsPending(pending) => IsPending(queuePendingWakeReason(pending, wakes))
<1> DEFINE merged == queuePendingWakeReason(pending, wakes)
<1>1. \A t \in Targets : /\ pending[t] \in Priorities \cup {NoWake}
                        /\ wakes[t] \in Priorities \cup {NoWake}
                        /\ pending[t] \in Int /\ wakes[t] \in Int
  <2>1. Priorities \cup {NoWake} \subseteq Int
    BY HeartbeatWakeAssumption DEF NoWake
  <2>2. \A t \in Targets : pending[t] \in Priorities \cup {NoWake} /\ wakes[t] \in Priorities \cup {NoWake}
    BY DEF Wakes
  <2> QED BY <2>1, <2>2
<1>2. \A t \in Targets : merged[t] \in {pending[t], wakes[t]}
                        /\ merged[t] >= pending[t] /\ merged[t] >= wakes[t]
  BY <1>1 DEF queuePendingWakeReason, Higher
<1>3. merged \in Wakes
  BY <1>1 DEF queuePendingWakeReason, Higher, Wakes
<1>4. \A t \in Targets : pending[t] # NoWake => merged[t] # NoWake
  BY <1>1, <1>2, HeartbeatWakeAssumption DEF NoWake
<1> QED BY <1>2, <1>3, <1>4 DEF IsPending

\* A single wake is a wake vector.
LEMMA OnlyType ==
  ASSUME NEW t \in Targets, NEW p \in Priorities \cup {NoWake}
  PROVE  Only(t, p) \in Wakes
BY DEF Only, Wakes

\* Arming a timer leaves one armed.
LEMMA ScheduleArms ==
  ASSUME NEW before \in Timers, NEW kind \in {"normal", "retry"}
  PROVE  schedule(before, kind) \subseteq {"normal", "retry"}
BY DEF schedule, Timers

\* So does the finally block when a wake is pending.
LEMMA EndBatchTimers ==
  ASSUME NEW b, NEW pending, NEW timers \in SUBSET Timers, EndBatch(b, pending, timers)
  PROVE  /\ timer' \in Timers
         /\ IsPending(pending) => timer' # "none"
         /\ timers \subseteq {"normal", "retry"} => timer' # "none"
<1>1. CASE IsPending(pending) \/ scheduled
  <2>1. PICK x \in timers : timer' \in schedule(x, "normal")
    BY <1>1 DEF EndBatch
  <2> QED BY <2>1, ScheduleArms DEF Timers
<1>2. CASE ~(IsPending(pending) \/ scheduled)
  BY <1>2 DEF EndBatch
<1> QED BY <1>1, <1>2
-----------------------------------------------------------------------------
(* Batches.                                                                *)

\* While the batches are fewer than the ids, an id is free.
LEMMA FreeBatchId ==
  ASSUME IsFiniteSet(batches), Cardinality(batches) < MaxRequests + MaxRetries
  PROVE  \E n \in BatchIds : \A b \in batches : b.id # n
<1> SUFFICES ASSUME \A n \in BatchIds : \E b \in batches : b.id = n PROVE FALSE
  OBVIOUS
<1> DEFINE holder == [n \in BatchIds |-> CHOOSE b \in batches : b.id = n]
<1>1. holder \in [BatchIds -> batches] /\ \A n \in BatchIds : holder[n].id = n
  OBVIOUS
<1>2. IsFiniteSet(BatchIds) /\ Cardinality(BatchIds) = MaxRequests + MaxRetries
  <2>1. MaxRequests + MaxRetries \in Nat
    BY HeartbeatWakeAssumption
  <2> QED BY <2>1, FS_Interval, FS_CardinalityType DEF BatchIds
<1>3. \E m, n \in BatchIds : m # n /\ holder[m] = holder[n]
  <2> HIDE DEF holder
  <2> QED BY <1>1, <1>2, FS_PigeonHole
<1> QED BY <1>1, <1>3

\* Replacing a batch by another does not make the batches more.
LEMMA ReplaceBatch ==
  ASSUME NEW S, IsFiniteSet(S), NEW b \in S, NEW c
  PROVE  /\ IsFiniteSet((S \ {b}) \cup {c})
         /\ Cardinality((S \ {b}) \cup {c}) <= Cardinality(S)
<1>1. IsFiniteSet(S \ {b}) /\ Cardinality(S \ {b}) = Cardinality(S) - 1
  BY FS_RemoveElement
<1>2. Cardinality(S) \in Nat
  BY FS_CardinalityType
<1> DEFINE rest == S \ {b}
<1>3. /\ IsFiniteSet(rest \cup {c})
      /\ Cardinality(rest \cup {c}) \in {Cardinality(rest), Cardinality(rest) + 1}
  <2> HIDE DEF rest
  <2>1. IsFiniteSet(rest)
    BY <1>1 DEF rest
  <2> QED BY <2>1, FS_AddElement
<1> QED BY <1>1, <1>2, <1>3

\* What an answer does to batch b: its loop ends, or goes on as c.
BatchGoesOn(b, c) ==
  /\ c \in Batch /\ c.gen = b.gen
  /\ c.todo # {} /\ \A t \in c.todo : c.wakes[t] # NoWake
  /\ batches' = (batches \ {b}) \cup {c}
  /\ running' = running /\ late' = late

BatchEnds(b) ==
  /\ batches' = batches \ {b}
  /\ running' = FALSE /\ late' = (late \/ b.gen < handler)

BatchStep(b) == BatchEnds(b) \/ \E c : BatchGoesOn(b, c)

\* Advance is a step of the batch, and arms a timer when a wake is pending.
LEMMA AdvanceStep ==
  ASSUME TypeOK, NEW b \in batches, NEW t \in b.todo, NEW pending,
         NEW timers \in SUBSET Timers, Advance(b, t, pending, timers)
  PROVE  /\ BatchStep(b)
         /\ timer' \in Timers
         /\ timers \subseteq {"normal", "retry"} => timer' # "none"
<1>1. CASE b.todo = {t}
  BY <1>1, EndBatchTimers DEF Advance, BatchStep, BatchEnds, EndBatch
<1>2. CASE b.todo # {t}
  <2> DEFINE c == [b EXCEPT !.todo = @ \ {t}]
  <2>1. /\ batches' = (batches \ {b}) \cup {c}
        /\ timer' \in timers /\ running' = running /\ late' = late
    BY <1>2 DEF Advance
  <2>2. b \in Batch
    BY DEF TypeOK
  <2>3. c \in Batch /\ c.gen = b.gen /\ c.todo = b.todo \ {t} /\ c.wakes = b.wakes
    BY <2>2 DEF Batch
  <2>4. c.todo # {} /\ \A u \in c.todo : c.wakes[u] # NoWake
    BY <1>2, <2>3 DEF TypeOK
  <2>5. BatchGoesOn(b, c)
    <3> HIDE DEF c
    <3> QED BY <2>1, <2>3, <2>4 DEF BatchGoesOn
  <2> QED BY <2>1, <2>5 DEF BatchStep
<1> QED BY <1>1, <1>2

\* A step of a batch keeps the batches well formed.
LEMMA BatchStepTypes ==
  ASSUME TypeOK, NEW b \in batches, BatchStep(b)
  PROVE  /\ batches' \subseteq Batch
         /\ \A c \in batches' : c.todo # {} /\ \A t \in c.todo : c.wakes[t] # NoWake
         /\ running' \in BOOLEAN /\ late' \in BOOLEAN
<1>1. CASE BatchEnds(b)
  BY <1>1 DEF BatchEnds, TypeOK
<1>2. CASE \E c : BatchGoesOn(b, c)
  <2>1. PICK c : BatchGoesOn(b, c)
    BY <1>2
  <2> QED BY <2>1 DEF BatchGoesOn, TypeOK
<1> QED BY <1>1, <1>2 DEF BatchStep
-----------------------------------------------------------------------------
(* Types.                                                                  *)

\* What the three answers have in common.
Answer(b) ==
  /\ BatchStep(b)
  /\ pendingWakes' \in Wakes /\ owed' \in Wakes
  /\ IsPending(pendingWakes) => IsPending(pendingWakes')
  /\ timer' \in Timers /\ (timer # "none" => timer' # "none")
  /\ \/ pendingWakes' = pendingWakes /\ owed' = owed /\ retries' = retries
     \/ /\ retries < MaxRetries /\ retries' = retries + 1 /\ timer' # "none"
        /\ \E wakes \in Wakes :
             /\ pendingWakes' = queuePendingWakeReason(pendingWakes, wakes)
             /\ owed' = [t \in Targets |-> Higher(wakes[t], owed[t])]
  /\ UNCHANGED <<registration, scheduled, requests>>

\* Merging keeps the types of the wakes and of what is owed.
LEMMA RequeueStep ==
  ASSUME TypeOK, NEW wakes \in Wakes, Requeue(wakes)
  PROVE  /\ pendingWakes' \in Wakes /\ owed' \in Wakes
         /\ IsPending(pendingWakes) => IsPending(pendingWakes')
<1>1. pendingWakes \in Wakes /\ owed \in Wakes
  BY DEF TypeOK, Wakes
<1>2. owed' = queuePendingWakeReason(owed, wakes)
  BY DEF Requeue, queuePendingWakeReason
<1> QED BY <1>1, <1>2, QueueReason DEF Requeue

\* The handler's answers.
LEMMA AnswerStep ==
  ASSUME TypeOK, NEW b \in batches,
         \/ \E t \in b.todo : Answered(b, t) \/ RequestsInFlight(b, t)
         \/ Throws(b)
  PROVE  Answer(b)
<1>1. /\ timer \in Timers /\ {timer} \in SUBSET Timers
      /\ schedule(timer, "retry") \subseteq {"normal", "retry"}
      /\ schedule(timer, "retry") \in SUBSET Timers
  BY ScheduleArms DEF TypeOK, Timers
<1>2. b \in Batch /\ b.wakes \in Wakes /\ b.todo \subseteq Targets
  BY DEF TypeOK, Batch, Wakes
<1>3. pendingWakes \in Wakes /\ owed \in Wakes
  BY DEF TypeOK, Wakes
<1>4. ASSUME NEW t \in b.todo, Answered(b, t) PROVE Answer(b)
  <2>1. Advance(b, t, pendingWakes, {timer})
    BY <1>4 DEF Answered
  <2>2. BatchStep(b) /\ timer' \in Timers /\ (timer # "none" => timer' # "none")
    BY <1>1, <2>1, AdvanceStep DEF Timers
  <2> QED BY <1>3, <1>4, <2>2 DEF Answered, Answer, bounds
<1>5. ASSUME NEW t \in b.todo, RequestsInFlight(b, t) PROVE Answer(b)
  <2>1. /\ Requeue(Only(t, b.wakes[t])) /\ Only(t, b.wakes[t]) \in Wakes
        /\ Advance(b, t, pendingWakes', schedule(timer, "retry"))
    BY <1>2, <1>5, OnlyType DEF RequestsInFlight, Wakes
  <2>2. BatchStep(b) /\ timer' \in Timers /\ timer' # "none"
    BY <1>1, <2>1, AdvanceStep
  <2>3. /\ pendingWakes' \in Wakes /\ owed' \in Wakes
        /\ IsPending(pendingWakes) => IsPending(pendingWakes')
    BY <2>1, RequeueStep
  <2> QED BY <1>5, <2>1, <2>2, <2>3 DEF RequestsInFlight, Requeue, Answer
<1>6. CASE Throws(b)
  <2>1. Requeue(b.wakes) /\ EndBatch(b, pendingWakes', schedule(timer, "retry"))
    BY <1>6 DEF Throws
  <2>2. BatchStep(b) /\ timer' \in Timers /\ timer' # "none"
    BY <1>1, <2>1, EndBatchTimers DEF BatchStep, BatchEnds, EndBatch
  <2>3. /\ pendingWakes' \in Wakes /\ owed' \in Wakes
        /\ IsPending(pendingWakes) => IsPending(pendingWakes')
    BY <1>2, <2>1, RequeueStep
  <2> QED BY <1>2, <1>6, <2>1, <2>2, <2>3 DEF Throws, Requeue, Answer
<1> QED BY <1>4, <1>5, <1>6

\* The next-state relation with the answers under one name.
LEMMA NextCases ==
  ASSUME TypeOK, [Next]_vars
  PROVE  \/ \E t \in Targets, p \in Priorities : requestHeartbeatNow(t, p)
         \/ setHeartbeatWakeHandler
         \/ \E g \in Generations : Dispose(g)
         \/ TimerWithoutHandler
         \/ TimerWhileRunning
         \/ TimerTakesBatch
         \/ \E b \in batches : Answer(b)
         \/ UNCHANGED vars
BY AnswerStep DEF Next

\* A request keeps the types.
LEMMA RequestStep ==
  ASSUME TypeOK, NEW t \in Targets, NEW p \in Priorities, requestHeartbeatNow(t, p)
  PROVE  /\ pendingWakes' \in Wakes /\ owed' \in Wakes
         /\ IsPending(pendingWakes) => IsPending(pendingWakes')
         /\ Only(t, p) \in Wakes
         /\ owed' = [u \in Targets |-> Higher(Only(t, p)[u], owed[u])]
         /\ timer' \in {"normal", "retry"}
<1>1. pendingWakes \in Wakes /\ owed \in Wakes /\ Only(t, p) \in Wakes
  BY OnlyType DEF TypeOK, Wakes
<1>2. owed' = [u \in Targets |-> Higher(Only(t, p)[u], owed[u])]
  <2>1. owed' = [owed EXCEPT ![t] = Higher(p, owed[t])]
    BY DEF requestHeartbeatNow
  <2>2. \A u \in Targets : owed[u] \in Priorities \cup {NoWake}
    BY <1>1 DEF Wakes
  <2>3. \A q \in Priorities \cup {NoWake} : Higher(NoWake, q) = q
    BY HeartbeatWakeAssumption DEF Higher, NoWake
  <2> QED BY <1>1, <2>1, <2>2, <2>3 DEF Only, Wakes
<1>3. owed' = queuePendingWakeReason(owed, Only(t, p))
  BY <1>2 DEF queuePendingWakeReason
<1>4. timer' \in {"normal", "retry"}
  BY ScheduleArms DEF requestHeartbeatNow, TypeOK, Timers
<1>5. pendingWakes' = queuePendingWakeReason(pendingWakes, Only(t, p))
  BY DEF requestHeartbeatNow
<1> QED BY <1>1, <1>2, <1>3, <1>4, <1>5, QueueReason

\* A timer that takes a batch finds a free id for it.
LEMMA TakenBatchType ==
  ASSUME TypeOK, BatchesBounded, TimerTakesBatch, IsPending(pendingWakes)
  PROVE  \E c : /\ c \in Batch /\ c.gen = handler
                /\ c.todo # {} /\ \A t \in c.todo : c.wakes[t] # NoWake
                /\ batches' = batches \cup {c}
<1>1. IsFiniteSet(batches) /\ Cardinality(batches) < MaxRequests + MaxRetries
  <2>1. Cardinality(batches) \in Nat /\ Cardinality(batches) + 1 <= requests + retries
    BY FS_CardinalityType DEF BatchesBounded, PendingBatches
  <2> QED BY <2>1, HeartbeatWakeAssumption DEF TypeOK, BatchesBounded
<1> DEFINE free == CHOOSE n \in BatchIds : \A b \in batches : b.id # n
           c == [id |-> free, gen |-> handler, wakes |-> pendingWakes,
                 todo |-> {t \in Targets : pendingWakes[t] # NoWake}]
<1>2. free \in BatchIds
  BY <1>1, FreeBatchId
<1>3. batches' = batches \cup {c}
  BY DEF TimerTakesBatch
<1>4. handler \in Generations
  BY DEF TimerTakesBatch, MayTakeBatch, TypeOK
<1>5. c \in Batch
  <2> HIDE DEF free
  <2> QED BY <1>2, <1>4 DEF Batch, TypeOK
<1>6. c.todo # {} /\ \A t \in c.todo : c.wakes[t] # NoWake
  BY DEF IsPending
<1>7. c.gen = handler
  OBVIOUS
<1> HIDE DEF c
<1> QED BY <1>3, <1>5, <1>6, <1>7

\* Every step keeps the types.
LEMMA TypeStep == TypeOK /\ BatchesBounded /\ RegistrationInv /\ [Next]_vars => TypeOK'
<1> SUFFICES ASSUME TypeOK, BatchesBounded, RegistrationInv, [Next]_vars PROVE TypeOK'
  OBVIOUS
<1>1. ASSUME NEW t \in Targets, NEW p \in Priorities, requestHeartbeatNow(t, p)
      PROVE  TypeOK'
  <2>1. requests' \in 0..MaxRequests
    BY <1>1, HeartbeatWakeAssumption DEF requestHeartbeatNow, TypeOK
  <2> QED BY <1>1, <2>1, RequestStep DEF requestHeartbeatNow, TypeOK, registration, Wakes
<1>2. CASE setHeartbeatWakeHandler
  <2>1. /\ handlerGeneration' \in Generations /\ handlerGeneration' \in 0..MaxGenerations
    BY <1>2, HeartbeatWakeAssumption DEF setHeartbeatWakeHandler, TypeOK, Generations
  <2>2. latest <= handlerGeneration' /\ latest \in Nat
    BY <1>2 DEF setHeartbeatWakeHandler, TypeOK, RegistrationInv, Generations, NoHandler
  <2>3. disposed \subseteq 1..handlerGeneration'
    BY <2>1, <2>2 DEF TypeOK
  <2> QED BY <1>2, <2>1, <2>3 DEF setHeartbeatWakeHandler, TypeOK, ResetLifecycle, bounds
<1>3. ASSUME NEW g \in Generations, Dispose(g) PROVE TypeOK'
  <2>1. g \in 1..latest
    BY <1>3 DEF Dispose, Generations, TypeOK, NoHandler
  <2>2. /\ handler' \in Generations \cup {NoHandler}
        /\ handlerGeneration' \in 0..MaxGenerations
    BY <1>3, HeartbeatWakeAssumption DEF Dispose, TypeOK
  <2> QED BY <1>3, <2>1, <2>2 DEF Dispose, TypeOK, bounds
<1>4. CASE TimerWithoutHandler
  BY <1>4 DEF TimerWithoutHandler, TypeOK, registration, bounds
<1>5. CASE TimerWhileRunning
  BY <1>5 DEF TimerWhileRunning, schedule, TypeOK, registration, bounds
<1>6. CASE TimerTakesBatch
  <2>1. [t \in Targets |-> NoWake] \in [Targets -> Priorities \cup {NoWake}]
    OBVIOUS
  <2>2. IsPending(pendingWakes) \in BOOLEAN
    BY DEF IsPending
  <2>3. /\ batches' \subseteq Batch
        /\ \A b \in batches' : b.todo # {} /\ \A t \in b.todo : b.wakes[t] # NoWake
    <3>1. CASE IsPending(pendingWakes)
      BY <1>6, <3>1, TakenBatchType DEF TypeOK
    <3>2. CASE ~IsPending(pendingWakes)
      BY <1>6, <3>2 DEF TimerTakesBatch, TypeOK
    <3> QED BY <3>1, <3>2
  <2> QED BY <1>6, <2>1, <2>2, <2>3 DEF TimerTakesBatch, TypeOK, registration, bounds
<1>7. ASSUME NEW b \in batches, Answer(b) PROVE TypeOK'
  <2>1. /\ batches' \subseteq Batch
        /\ \A c \in batches' : c.todo # {} /\ \A t \in c.todo : c.wakes[t] # NoWake
        /\ running' \in BOOLEAN /\ late' \in BOOLEAN
    BY <1>7, BatchStepTypes DEF Answer
  <2>2. retries' \in 0..MaxRetries
    BY <1>7, HeartbeatWakeAssumption DEF Answer, TypeOK
  <2> QED BY <1>7, <2>1, <2>2 DEF Answer, TypeOK, registration, Wakes, Timers
<1>8. CASE UNCHANGED vars
  BY <1>8 DEF vars, registration, bounds, TypeOK
<1> QED BY <1>1, <1>2, <1>3, <1>4, <1>5, <1>6, <1>7, <1>8, NextCases
-----------------------------------------------------------------------------
(* The invariants.                                                         *)

\* No step takes more batches than there were requests and retries.
LEMMA BoundedStep == TypeOK /\ BatchesBounded /\ [Next]_vars => BatchesBounded'
<1> SUFFICES ASSUME TypeOK, BatchesBounded, [Next]_vars PROVE BatchesBounded'
  OBVIOUS
<1>0. /\ Cardinality(batches) \in Nat /\ requests \in Nat /\ retries \in Nat
      /\ PendingBatches \in {0, 1} /\ PendingBatches' \in {0, 1}
  BY FS_CardinalityType DEF BatchesBounded, TypeOK, PendingBatches
<1>1. ASSUME NEW t \in Targets, NEW p \in Priorities, requestHeartbeatNow(t, p)
      PROVE  BatchesBounded'
  BY <1>0, <1>1 DEF requestHeartbeatNow, BatchesBounded
<1>2. CASE setHeartbeatWakeHandler
  BY <1>2 DEF setHeartbeatWakeHandler, bounds, BatchesBounded, PendingBatches, IsPending
<1>3. ASSUME NEW g \in Generations, Dispose(g) PROVE BatchesBounded'
  BY <1>3 DEF Dispose, bounds, BatchesBounded, PendingBatches, IsPending
<1>4. CASE TimerWithoutHandler
  BY <1>4 DEF TimerWithoutHandler, bounds, BatchesBounded, PendingBatches, IsPending
<1>5. CASE TimerWhileRunning
  BY <1>5 DEF TimerWhileRunning, bounds, BatchesBounded, PendingBatches, IsPending
<1>6. CASE TimerTakesBatch
  <2>1. PendingBatches' = 0
    BY <1>6 DEF TimerTakesBatch, PendingBatches, IsPending
  <2>2. CASE IsPending(pendingWakes)
    <3>1. PICK c : batches' = batches \cup {c}
      BY <1>6, <2>2, TakenBatchType
    <3>2. IsFiniteSet(batches') /\ Cardinality(batches') <= Cardinality(batches) + 1
      BY <1>0, <3>1, FS_AddElement DEF BatchesBounded
    <3>3. Cardinality(batches') \in Nat /\ PendingBatches = 1
      BY <2>2, <3>2, FS_CardinalityType DEF PendingBatches
    <3> QED BY <1>0, <1>6, <2>1, <3>2, <3>3 DEF TimerTakesBatch, bounds, BatchesBounded
  <2>3. CASE ~IsPending(pendingWakes)
    BY <1>0, <1>6, <2>1, <2>3 DEF TimerTakesBatch, bounds, BatchesBounded
  <2> QED BY <2>2, <2>3
<1>7. ASSUME NEW b \in batches, Answer(b) PROVE BatchesBounded'
  <2>1. IsFiniteSet(batches') /\ Cardinality(batches') <= Cardinality(batches)
    <3>1. CASE BatchEnds(b)
      <4>1. IsFiniteSet(batches \ {b}) /\ Cardinality(batches \ {b}) = Cardinality(batches) - 1
        BY FS_RemoveElement DEF BatchesBounded
      <4> QED BY <1>0, <3>1, <4>1 DEF BatchEnds
    <3>2. CASE \E c : BatchGoesOn(b, c)
      BY <3>2, ReplaceBatch, SMTT(30) DEF BatchGoesOn, BatchesBounded
    <3> QED BY <1>7, <3>1, <3>2 DEF Answer, BatchStep
  <2>2. Cardinality(batches') \in Nat
    BY <2>1, FS_CardinalityType
  <2>3. Cardinality(batches) + PendingBatches <= requests + retries /\ requests' = requests
    BY <1>7 DEF BatchesBounded, Answer
  <2>4. CASE pendingWakes' = pendingWakes /\ retries' = retries
    <3>1. PendingBatches' = PendingBatches
      BY <2>4 DEF PendingBatches, IsPending
    <3>2. Cardinality(batches') + PendingBatches <= requests + retries
      BY <1>0, <2>1, <2>2, <2>3
    <3> QED BY <2>1, <2>3, <2>4, <3>1, <3>2 DEF BatchesBounded
  <2>5. CASE retries' = retries + 1
    <3>1. Cardinality(batches') + 1 <= requests + (retries + 1)
      BY <1>0, <2>1, <2>2, <2>3
    <3>2. Cardinality(batches') + PendingBatches' <= requests' + retries'
      BY <1>0, <2>2, <2>3, <2>5, <3>1
    <3> QED BY <2>1, <3>2 DEF BatchesBounded
  <2> QED BY <1>7, <2>4, <2>5 DEF Answer
<1>8. CASE UNCHANGED vars
  <2>1. UNCHANGED <<pendingWakes, batches, requests, retries>>
    BY <1>8 DEF vars, bounds
  <2>2. PendingBatches' = PendingBatches
    BY <2>1 DEF PendingBatches, IsPending
  <2> QED BY <2>1, <2>2 DEF BatchesBounded
<1> QED BY <1>1, <1>2, <1>3, <1>4, <1>5, <1>6, <1>7, <1>8, NextCases

\* Handlers come and go in the order of their generations.
LEMMA RegistrationStep ==
  TypeOK /\ BatchesBounded /\ RegistrationInv /\ [Next]_vars => RegistrationInv'
<1> SUFFICES ASSUME TypeOK, BatchesBounded, RegistrationInv, [Next]_vars
             PROVE  RegistrationInv'
  OBVIOUS
<1> USE DEF RegistrationInv, HandlerStays
<1>0. /\ handlerGeneration \in Nat /\ latest \in Nat /\ handler \in Nat
      /\ \A b \in batches : b.gen \in Nat /\ b.gen > 0
      /\ \A g \in disposed : g \in Nat /\ g > 0 /\ g <= latest
  BY DEF TypeOK, Batch, Generations, NoHandler
<1>1. ASSUME NEW t \in Targets, NEW p \in Priorities, requestHeartbeatNow(t, p)
      PROVE  RegistrationInv'
  BY <1>1 DEF requestHeartbeatNow, registration
<1>2. CASE setHeartbeatWakeHandler
  BY <1>0, <1>2 DEF setHeartbeatWakeHandler
<1>3. ASSUME NEW g \in Generations, Dispose(g) PROVE RegistrationInv'
  BY <1>0, <1>3 DEF Dispose, DisposerMatches, NoHandler
<1>4. CASE TimerWithoutHandler
  BY <1>4 DEF TimerWithoutHandler, registration
<1>5. CASE TimerWhileRunning
  BY <1>5 DEF TimerWhileRunning, registration
<1>6. CASE TimerTakesBatch
  <2>1. handler # NoHandler /\ UNCHANGED registration
    BY <1>6 DEF TimerTakesBatch, MayTakeBatch
  <2>2. \A b \in batches' : b.gen <= handlerGeneration
    <3>1. CASE IsPending(pendingWakes)
      BY <1>0, <1>6, <2>1, <3>1, TakenBatchType
    <3>2. CASE ~IsPending(pendingWakes)
      BY <1>6, <3>2 DEF TimerTakesBatch
    <3> QED BY <3>1, <3>2
  <2> QED BY <2>1, <2>2 DEF registration
<1>7. ASSUME NEW b \in batches, Answer(b) PROVE RegistrationInv'
  BY <1>7 DEF Answer, BatchStep, BatchEnds, BatchGoesOn, registration
<1>8. CASE UNCHANGED vars
  BY <1>8 DEF vars, registration
<1> QED BY <1>1, <1>2, <1>3, <1>4, <1>5, <1>6, <1>7, <1>8, NextCases

\* The batch of the handler holds running until it ends.
LEMMA FlightStep ==
  TypeOK /\ BatchesBounded /\ RegistrationInv /\ FlightInv /\ [Next]_vars => FlightInv'
<1> SUFFICES ASSUME TypeOK, BatchesBounded, RegistrationInv, FlightInv, [Next]_vars
             PROVE  FlightInv'
  OBVIOUS
<1>0. /\ handlerGeneration \in Nat /\ handler \in Nat
      /\ \A b \in batches : b.gen \in Nat /\ b.gen > 0 /\ b.gen <= handlerGeneration
  BY DEF TypeOK, Batch, Generations, NoHandler, RegistrationInv
<1>1. ASSUME NEW t \in Targets, NEW p \in Priorities, requestHeartbeatNow(t, p)
      PROVE  FlightInv'
  BY <1>1 DEF requestHeartbeatNow, registration, FlightInv
<1>2. CASE setHeartbeatWakeHandler
  BY <1>0, <1>2 DEF setHeartbeatWakeHandler, FlightInv
<1>3. ASSUME NEW g \in Generations, Dispose(g) PROVE FlightInv'
  BY <1>0, <1>3 DEF Dispose, NoHandler, FlightInv
<1>4. CASE TimerWithoutHandler
  BY <1>4 DEF TimerWithoutHandler, registration, FlightInv
<1>5. CASE TimerWhileRunning
  BY <1>5 DEF TimerWhileRunning, registration, FlightInv
<1>6. CASE TimerTakesBatch
  <2>1. /\ handler # NoHandler /\ ~running /\ UNCHANGED registration /\ late' = late
        /\ running' = IsPending(pendingWakes)
    BY <1>6 DEF TimerTakesBatch, MayTakeBatch
  <2>2. CASE IsPending(pendingWakes)
    BY <1>6, <2>1, <2>2, TakenBatchType DEF FlightInv, registration
  <2>3. CASE ~IsPending(pendingWakes)
    BY <1>6, <2>1, <2>3 DEF TimerTakesBatch, FlightInv, registration
  <2> QED BY <2>2, <2>3
<1>7. ASSUME NEW b \in batches, Answer(b) PROVE FlightInv'
  <2>1. UNCHANGED registration
    BY <1>7 DEF Answer
  <2>2. CASE BatchEnds(b)
    <3>1. CASE late \/ b.gen < handler
      BY <2>2, <3>1 DEF BatchEnds, FlightInv
    <3>2. CASE ~late /\ ~(b.gen < handler)
      <4>1. CASE handler = NoHandler
        BY <1>0, <2>1, <2>2, <4>1 DEF BatchEnds, FlightInv, registration, NoHandler
      <4>2. CASE handler # NoHandler
        <5>1. b.gen = handler
          BY <1>0, <3>2, <4>2 DEF RegistrationInv
        <5> QED BY <2>1, <2>2, <3>2, <5>1 DEF BatchEnds, FlightInv, registration
      <4> QED BY <4>1, <4>2
    <3> QED BY <3>1, <3>2
  <2>3. CASE \E c : BatchGoesOn(b, c)
    BY <2>1, <2>3 DEF BatchGoesOn, FlightInv, registration
  <2> QED BY <1>7, <2>2, <2>3 DEF Answer, BatchStep
<1>8. CASE UNCHANGED vars
  BY <1>8 DEF vars, registration, FlightInv
<1> QED BY <1>1, <1>2, <1>3, <1>4, <1>5, <1>6, <1>7, <1>8, NextCases

\* No step lowers a pending wake below what is owed.
LEMMA NoWakeLostStep == TypeOK /\ NoWakeLost /\ [Next]_vars => NoWakeLost'
<1> SUFFICES ASSUME TypeOK, NoWakeLost, [Next]_vars PROVE NoWakeLost'
  OBVIOUS
<1>0. ASSUME NEW wakes \in Wakes,
             pendingWakes' = queuePendingWakeReason(pendingWakes, wakes),
             owed' = [t \in Targets |-> Higher(wakes[t], owed[t])]
      PROVE  NoWakeLost'
  <2>1. \A t \in Targets : owed[t] \in Int /\ wakes[t] \in Int /\ pendingWakes[t] \in Int
    <3>1. Priorities \cup {NoWake} \subseteq Int
      BY HeartbeatWakeAssumption DEF NoWake
    <3> QED BY <3>1 DEF TypeOK, Wakes
  <2> QED BY <1>0, <2>1 DEF NoWakeLost, queuePendingWakeReason, Higher
<1>1. ASSUME NEW t \in Targets, NEW p \in Priorities, requestHeartbeatNow(t, p)
      PROVE  NoWakeLost'
  BY <1>0, <1>1, RequestStep, ZenonT(30) DEF requestHeartbeatNow
<1>2. CASE setHeartbeatWakeHandler
  BY <1>2 DEF setHeartbeatWakeHandler, NoWakeLost
<1>3. ASSUME NEW g \in Generations, Dispose(g) PROVE NoWakeLost'
  BY <1>3 DEF Dispose, NoWakeLost
<1>4. CASE TimerWithoutHandler
  BY <1>4 DEF TimerWithoutHandler, NoWakeLost
<1>5. CASE TimerWhileRunning
  BY <1>5 DEF TimerWhileRunning, NoWakeLost
<1>6. CASE TimerTakesBatch
  BY <1>6 DEF TimerTakesBatch, NoWakeLost, NoWake
<1>7. ASSUME NEW b \in batches, Answer(b) PROVE NoWakeLost'
  BY <1>0, <1>7 DEF Answer, NoWakeLost
<1>8. CASE UNCHANGED vars
  BY <1>8 DEF vars, NoWakeLost
<1> QED BY <1>1, <1>2, <1>3, <1>4, <1>5, <1>6, <1>7, <1>8, NextCases

\* Every step that leaves a wake pending for a handler leaves a timer armed.
LEMMA TimerStep == TypeOK /\ PendingHasTimer /\ [Next]_vars => PendingHasTimer'
<1> SUFFICES ASSUME TypeOK, PendingHasTimer, [Next]_vars PROVE PendingHasTimer'
  OBVIOUS
<1> USE DEF PendingHasTimer
<1>1. ASSUME NEW t \in Targets, NEW p \in Priorities, requestHeartbeatNow(t, p)
      PROVE  PendingHasTimer'
  BY <1>1, RequestStep
<1>2. CASE setHeartbeatWakeHandler
  BY <1>2 DEF setHeartbeatWakeHandler, IsPending
<1>3. ASSUME NEW g \in Generations, Dispose(g) PROVE PendingHasTimer'
  BY <1>3 DEF Dispose, IsPending
<1>4. CASE TimerWithoutHandler
  BY <1>4 DEF TimerWithoutHandler, registration
<1>5. CASE TimerWhileRunning
  BY <1>5 DEF TimerWhileRunning, schedule
<1>6. CASE TimerTakesBatch
  BY <1>6 DEF TimerTakesBatch, IsPending
<1>7. ASSUME NEW b \in batches, Answer(b) PROVE PendingHasTimer'
  BY <1>7 DEF Answer, registration, IsPending
<1>8. CASE UNCHANGED vars
  BY <1>8 DEF vars, registration, IsPending
<1> QED BY <1>1, <1>2, <1>3, <1>4, <1>5, <1>6, <1>7, <1>8, NextCases

HeartbeatInv ==
  /\ TypeOK /\ BatchesBounded /\ RegistrationInv /\ FlightInv
  /\ NoWakeLost /\ PendingHasTimer

\* HeartbeatInv is an inductive invariant.
LEMMA HeartbeatInvariant == Spec => []HeartbeatInv
<1>1. Init => HeartbeatInv
  <2> SUFFICES ASSUME Init PROVE HeartbeatInv
    OBVIOUS
  <2>1. TypeOK
    <3>1. /\ 0 \in 0..MaxGenerations /\ 0 \in 0..MaxRequests /\ 0 \in 0..MaxRetries
          /\ [t \in Targets |-> NoWake] \in [Targets -> Priorities \cup {NoWake}]
      BY HeartbeatWakeAssumption
    <3> QED BY <3>1 DEF Init, TypeOK, NoHandler
  <2>2. BatchesBounded
    BY FS_EmptySet DEF Init, BatchesBounded, PendingBatches, IsPending
  <2>3. RegistrationInv /\ FlightInv
    BY DEF Init, RegistrationInv, HandlerStays, FlightInv, NoHandler
  <2>4. NoWakeLost /\ PendingHasTimer
    BY DEF Init, NoWakeLost, PendingHasTimer, NoWake
  <2> QED BY <2>1, <2>2, <2>3, <2>4 DEF HeartbeatInv
<1>2. HeartbeatInv /\ [Next]_vars => HeartbeatInv'
  BY TypeStep, BoundedStep, RegistrationStep, FlightStep, NoWakeLostStep, TimerStep
     DEF HeartbeatInv
<1> QED BY <1>1, <1>2, PTL DEF Spec

\* The state of heartbeat-wake.ts keeps its types; in particular a batch can
\* always be told from the batches still in flight.
THEOREM TypeCorrect == Spec => []TypeOK
<1>1. HeartbeatInv => TypeOK
  BY DEF HeartbeatInv
<1> QED BY <1>1, HeartbeatInvariant, PTL

\* No request, busy lane or exception loses or downgrades a wake before it is
\* handed over.
THEOREM WakesKept == Spec => []NoWakeLost
<1>1. HeartbeatInv => NoWakeLost
  BY DEF HeartbeatInv
<1> QED BY <1>1, HeartbeatInvariant, PTL

\* A wake that is pending while a handler is registered always has a timer,
\* whatever the batches and disposers of earlier handlers do.
THEOREM PendingArmed == Spec => []PendingHasTimer
<1>1. HeartbeatInv => PendingHasTimer
  BY DEF HeartbeatInv
<1> QED BY <1>1, HeartbeatInvariant, PTL

\* No disposer but its own unregisters the handler registered last.
THEOREM LatestHandlerStays == Spec => []HandlerStays
<1>1. HeartbeatInv => HandlerStays
  BY DEF HeartbeatInv, RegistrationInv
<1> QED BY <1>1, HeartbeatInvariant, PTL

\* Unless a batch of an earlier handler ended after the registration, the
\* batches of the registered handler do not overlap.
THEOREM BatchesExclusive == Spec => []SingleFlight
<1>1. HeartbeatInv => SingleFlight
  <2> SUFFICES ASSUME HeartbeatInv, ~late
               PROVE  Cardinality({b \in batches : b.gen = handler}) <= 1
    BY DEF SingleFlight
  <2> DEFINE current == {b \in batches : b.gen = handler}
  <2>1. CASE current = {}
    BY <2>1, FS_EmptySet
  <2>2. CASE current # {}
    <3>1. PICK b : current = {b}
      BY <2>2 DEF HeartbeatInv, FlightInv
    <3>2. Cardinality(current) = 1
      BY <3>1, FS_Singleton
    <3> QED BY <3>2
  <2> QED BY <2>1, <2>2
<1> QED BY <1>1, HeartbeatInvariant, PTL
=============================================================================
