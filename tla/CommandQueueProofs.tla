------------------------- MODULE CommandQueueProofs -------------------------
(***************************************************************************)
(* Proofs about CommandQueue, for every set of lanes and tasks.            *)
(***************************************************************************)
EXTENDS CommandQueue, TLAPS

-----------------------------------------------------------------------------
(* Sequences.                                                              *)

\* The elements of Append(s, e) are those of s and e.
LEMMA AppendElements ==
  ASSUME NEW S, NEW s \in Seq(S), NEW e \in S
  PROVE  /\ Append(s, e) \in Seq(S)
         /\ Len(Append(s, e)) = Len(s) + 1
         /\ \A i \in 1..Len(s) : Append(s, e)[i] = s[i]
         /\ Append(s, e)[Len(s) + 1] = e
  OBVIOUS

\* The elements of the tail of s are those of s without the first.
LEMMA TailElements ==
  ASSUME NEW S, NEW s \in Seq(S), s # <<>>
  PROVE  /\ Tail(s) \in Seq(S)
         /\ Len(Tail(s)) = Len(s) - 1
         /\ \A i \in 1..Len(Tail(s)) : Tail(s)[i] = s[i + 1]
         /\ Head(s) = s[1]
         /\ Head(s) \in S
         /\ Len(s) \in Nat \ {0}
  OBVIOUS

\* Popping the last element of s.
LEMMA FrontElements ==
  ASSUME NEW S, NEW s \in Seq(S), s # <<>>
  PROVE  /\ SubSeq(s, 1, Len(s) - 1) \in Seq(S)
         /\ Len(SubSeq(s, 1, Len(s) - 1)) = Len(s) - 1
         /\ \A i \in 1..(Len(s) - 1) : SubSeq(s, 1, Len(s) - 1)[i] = s[i]
         /\ s[Len(s)] \in S
         /\ Len(s) \in Nat \ {0}
<1>1. Len(s) \in Nat /\ Len(s) # 0
  OBVIOUS
<1>2. SubSeq(s, 1, Len(s) - 1) \in Seq(S)
  BY <1>1
<1>3. Len(SubSeq(s, 1, Len(s) - 1)) = Len(s) - 1
  <2>1. \A k \in Nat : k <= Len(s) => Len(SubSeq(s, 1, k)) = k
    OBVIOUS
  <2>2. Len(s) - 1 \in Nat /\ Len(s) - 1 <= Len(s)
    BY <1>1
  <2> QED BY <2>1, <2>2
<1>4. \A i \in 1..(Len(s) - 1) : SubSeq(s, 1, Len(s) - 1)[i] = s[i]
  BY <1>1
<1>5. s[Len(s)] \in S
  BY <1>1
<1> QED BY <1>1, <1>2, <1>3, <1>4, <1>5
-----------------------------------------------------------------------------
(* Types.                                                                  *)

\* The helpers keep the types.
LEMMA NotifyType ==
  ASSUME TypeOK, NEW active
  PROVE  notifyActiveTaskWaiters(active) \in [Waiters -> Waiter]
BY DEF TypeOK, notifyActiveTaskWaiters, Waiter

\* A drain keeps the types of the flags and of the frames.
LEMMA DrainLaneType ==
  ASSUME TypeOK, NEW l \in Lanes, drainLane(l)
  PROVE  draining' \in [Lanes -> BOOLEAN] /\ stack' \in Seq(Lanes)
<1>1. CASE draining[l]
  BY <1>1 DEF TypeOK, drainLane
<1>2. CASE ~draining[l]
  <2>1. draining' \in [Lanes -> BOOLEAN]
    BY <1>2 DEF TypeOK, drainLane
  <2>2. stack' = Append(stack, l) /\ stack \in Seq(Lanes)
    BY <1>2 DEF drainLane, TypeOK
  <2>3. stack' \in Seq(Lanes)
    BY <2>2
  <2> QED BY <2>1, <2>3
<1> QED BY <1>1, <1>2

\* An enqueue keeps the types of what it changes.
LEMMA EnqueueType ==
  ASSUME TypeOK, NEW t \in Tasks, enqueueCommandInLane(t),
         prefix' \in Tasks \cup {NoTask}
  PROVE  TypeOK'
<1>1. LaneOf[t] \in Lanes
  BY CommandQueueAssumption
<1>2. CASE gatewayDraining
  BY <1>2 DEF TypeOK, enqueueCommandInLane, Status, Settled
<1>3. CASE ~gatewayDraining
  <2>1. draining' \in [Lanes -> BOOLEAN] /\ stack' \in Seq(Lanes)
    BY <1>1, <1>3, DrainLaneType DEF enqueueCommandInLane
  <2>2. status' \in [Tasks -> Status]
    BY <1>3 DEF enqueueCommandInLane, TypeOK, Status
  <2>3. queue' \in [Lanes -> Seq(Tasks)]
    <3>1. /\ queue \in [Lanes -> Seq(Tasks)]
          /\ queue' = [queue EXCEPT ![LaneOf[t]] = Append(@, t)]
      BY <1>3 DEF enqueueCommandInLane, TypeOK
    <3> QED BY <1>1, <3>1
  <2> QED BY <2>1, <2>2, <2>3 DEF enqueueCommandInLane, TypeOK
<1> QED BY <1>2, <1>3

\* The end of a task keeps the types of what it changes.
LEMMA CompleteType ==
  ASSUME TypeOK, NEW t \in Tasks, NEW outcome \in Settled, completeTask(t, outcome),
         prefix' \in Tasks \cup {NoTask}
  PROVE  TypeOK'
<1>1. LaneOf[t] \in Lanes
  BY CommandQueueAssumption
<1>2. status' \in [Tasks -> Status]
  BY DEF completeTask, TypeOK, Status
<1>4. activeTaskIds' \in [Lanes -> SUBSET Tasks]
  <2>1. /\ activeTaskIds \in [Lanes -> SUBSET Tasks]
        /\ activeTaskIds' \in {activeTaskIds, [activeTaskIds EXCEPT ![LaneOf[t]] = @ \ {t}]}
    BY DEF completeTask, TypeOK
  <2> QED BY <1>1, <2>1
<1>5. stack' \in Seq(Lanes)
  <2>1. stack \in Seq(Lanes) /\ stack' \in {stack, Append(stack, LaneOf[t])}
    BY DEF completeTask, TypeOK
  <2> QED BY <1>1, <2>1
<1>3. waiter' \in [Waiters -> Waiter]
  BY NotifyType DEF completeTask, TypeOK
<1> QED BY <1>2, <1>3, <1>4, <1>5 DEF completeTask, TypeOK

\* Every step keeps the types.
LEMMA TypeStep == TypeOK /\ [Next]_vars => TypeOK'
<1> SUFFICES ASSUME TypeOK, [Next]_vars PROVE TypeOK'
  OBVIOUS
<1>1. CASE PumpStart
  <2>1. Top \in Lanes
    BY <1>1, FrontElements DEF PumpStart, Top, TypeOK
  <2>2. Head(queue[Top]) \in Tasks /\ Tail(queue[Top]) \in Seq(Tasks)
    BY <1>1, <2>1, TailElements DEF PumpStart, HasSlot, TypeOK
  <2> QED BY <1>1, <2>1, <2>2 DEF PumpStart, TypeOK, Status
<1>2. CASE PumpEnd
  <2>1. Top \in Lanes /\ stack' \in Seq(Lanes)
    BY <1>2, FrontElements DEF PumpEnd, Top, TypeOK
  <2> QED BY <1>2, <2>1 DEF PumpEnd, TypeOK, taskVars
<1>3. CASE TaskYields
  BY <1>3 DEF TaskYields, TypeOK, laneVars, taskVars
<1>4. CASE TaskEnqueuesInner
  <2>1. Inner[prefix] \in Tasks
    BY <1>4, CommandQueueAssumption DEF TaskEnqueuesInner
  <2> QED BY <1>4, <2>1, EnqueueType DEF TaskEnqueuesInner
<1>5. CASE TaskThrows
  BY <1>5, CompleteType DEF TaskThrows, Settled, TypeOK
<1>6. CASE ResetDrains
  BY <1>6, DrainLaneType DEF ResetDrains, TypeOK, taskVars
<1>7. CASE ResetEnds
  BY <1>7, NotifyType DEF ResetEnds, TypeOK, laneVars, taskVars
<1>8. ASSUME NEW t \in Tasks, Enqueue(t) PROVE TypeOK'
  BY <1>8, EnqueueType DEF Enqueue, TypeOK
<1>9. ASSUME NEW t \in Tasks, EnqueueInner(t) PROVE TypeOK'
  BY <1>9, EnqueueType, CommandQueueAssumption DEF EnqueueInner, TypeOK
<1>10. ASSUME NEW t \in Tasks, TaskSettles(t) PROVE TypeOK'
  <2>1. Outcomes(t) \subseteq Settled
    BY DEF Outcomes, Settled
  <2> QED BY <1>10, <2>1, CompleteType DEF TaskSettles, TypeOK
<1>11. CASE markGatewayDraining
  BY <1>11 DEF markGatewayDraining, TypeOK, laneVars, taskVars, callVars
<1>12. ASSUME NEW l \in Lanes, NEW n \in ConcurrencyInputs, setCommandLaneConcurrency(l, n)
       PROVE TypeOK'
  <2>1. atLeastOne(n) \in Nat \ {0}
    BY CommandQueueAssumption DEF atLeastOne
  <2> QED BY <1>12, <2>1, DrainLaneType DEF setCommandLaneConcurrency, TypeOK, taskVars
<1>13. ASSUME NEW l \in Lanes, clearCommandLane(l) PROVE TypeOK'
  <2>1. queue' \in [Lanes -> Seq(Tasks)]
    <3>1. queue \in [Lanes -> Seq(Tasks)] /\ queue' = [queue EXCEPT ![l] = <<>>]
      BY <1>13 DEF clearCommandLane, TypeOK
    <3> QED BY <3>1
  <2>2. status' \in [Tasks -> Status]
    BY <1>13 DEF clearCommandLane, TypeOK, Status, Settled
  <2> QED BY <1>13, <2>1, <2>2 DEF clearCommandLane, TypeOK, callVars
<1>14. CASE resetAllLanes
  <2>1. generation' \in [Lanes -> Nat]
    BY <1>14 DEF resetAllLanes, TypeOK
  <2>2. draining' \in [Lanes -> BOOLEAN] /\ activeTaskIds' \in [Lanes -> SUBSET Tasks]
    BY <1>14 DEF resetAllLanes, TypeOK
  <2>3. toDrain' \in SUBSET Lanes
    BY <1>14 DEF resetAllLanes
  <2> QED BY <1>14, <2>1, <2>2, <2>3 DEF resetAllLanes, TypeOK, taskVars
<1>15. ASSUME NEW w \in Waiters, NEW timed \in BOOLEAN, waitForActiveTasks(w, timed)
       PROVE TypeOK'
  <2>1. UNION {activeTaskIds[l] : l \in Lanes} \in SUBSET Tasks
    BY DEF TypeOK
  <2> QED BY <1>15, <2>1 DEF waitForActiveTasks, TypeOK, laneVars, taskVars, callVars, Waiter
<1>16. ASSUME NEW w \in Waiters, WaiterTimeout(w) PROVE TypeOK'
  BY <1>16 DEF WaiterTimeout, TypeOK, laneVars, taskVars, callVars, Waiter
<1>17. CASE UNCHANGED vars
  BY <1>17 DEF vars, laneVars, taskVars, callVars, TypeOK
<1> QED
  BY <1>1, <1>2, <1>3, <1>4, <1>5, <1>6, <1>7, <1>8, <1>9, <1>10, <1>11, <1>12, <1>13,
     <1>14, <1>15, <1>16, <1>17 DEF Next, Pumping, TaskStep, Caller

\* The initial state has the types.
LEMMA InitType == Init => TypeOK
<1> SUFFICES ASSUME Init PROVE TypeOK
  OBVIOUS
<1>1. queue \in [Lanes -> Seq(Tasks)] /\ stack \in Seq(Lanes)
  BY DEF Init
<1>2. activeTaskIds \in [Lanes -> SUBSET Tasks] /\ maxConcurrent \in [Lanes -> Nat \ {0}]
  BY DEF Init
<1>3. draining \in [Lanes -> BOOLEAN] /\ generation \in [Lanes -> Nat]
  BY DEF Init
<1>4. status \in [Tasks -> Status] /\ taskGeneration \in [Tasks -> Nat]
  BY DEF Init, Status
<1>5. waiter \in [Waiters -> Waiter]
  BY DEF Init, Waiter
<1> QED BY <1>1, <1>2, <1>3, <1>4, <1>5 DEF Init, TypeOK

\* The variables of command-queue.ts always have their types; in particular no
\* sequence of setCommandLaneConcurrency calls leaves a lane with a cap below one.
THEOREM TypeCorrect == Spec => []TypeOK
BY InitType, TypeStep, PTL DEF Spec
-----------------------------------------------------------------------------
(* Work conservation.  DrainingHonest is what makes the early return of    *)
(* drainLane harmless, and lanesToDrain is empty outside resetAllLanes.    *)

ControlInv ==
  /\ TypeOK
  /\ DrainingHonest
  /\ WorkConserving
  /\ toDrain # {} => resetting

\* The lanes being pumped after a frame is pushed.
LEMMA PumpedAppend ==
  ASSUME TypeOK, NEW l \in Lanes, stack' = Append(stack, l)
  PROVE  Pumped(l)' /\ \A k \in Lanes : Pumped(k) => Pumped(k)'
<1>1. stack \in Seq(Lanes) /\ Len(stack) \in Nat
  BY DEF TypeOK
<1>2. /\ Len(stack') = Len(stack) + 1
      /\ \A i \in 1..Len(stack) : stack'[i] = stack[i]
      /\ stack'[Len(stack) + 1] = l
  BY <1>1, AppendElements
<1> QED BY <1>1, <1>2 DEF Pumped

\* The lanes being pumped after the innermost frame is popped.
LEMMA PumpedPop ==
  ASSUME TypeOK, stack # <<>>, stack' = SubSeq(stack, 1, Len(stack) - 1)
  PROVE  /\ Top \in Lanes
         /\ \A k \in Lanes : Pumped(k) => Pumped(k)' \/ k = Top
<1>1. stack \in Seq(Lanes)
  BY DEF TypeOK
<1>2. /\ Len(stack') = Len(stack) - 1
      /\ \A i \in 1..(Len(stack) - 1) : stack'[i] = stack[i]
      /\ stack[Len(stack)] \in Lanes
      /\ Len(stack) \in Nat \ {0}
  BY <1>1, FrontElements
<1> QED BY <1>2 DEF Pumped, Top

\* The innermost frame is a lane that is being pumped.
LEMMA TopPumped ==
  ASSUME TypeOK, stack # <<>>
  PROVE  Top \in Lanes /\ Pumped(Top)
<1>1. stack[Len(stack)] \in Lanes /\ Len(stack) \in Nat \ {0}
  BY FrontElements DEF TypeOK
<1> QED BY <1>1 DEF Top, Pumped

\* After drainLane(l) a pump of l is executing, whether or not it started one.
LEMMA DrainLanePumps ==
  ASSUME TypeOK, DrainingHonest, NEW l \in Lanes, drainLane(l)
  PROVE  /\ Pumped(l)'
         /\ \A k \in Lanes : Pumped(k) => Pumped(k)'
         /\ DrainingHonest'
<1>1. CASE draining[l]
  BY <1>1 DEF drainLane, DrainingHonest, Pumped
<1>2. CASE ~draining[l]
  <2>1. stack' = Append(stack, l) /\ draining' = [draining EXCEPT ![l] = TRUE]
    BY <1>2 DEF drainLane
  <2>2. Pumped(l)' /\ \A k \in Lanes : Pumped(k) => Pumped(k)'
    BY <2>1, PumpedAppend
  <2>3. DrainingHonest'
    <3> SUFFICES ASSUME NEW k \in Lanes, draining'[k] PROVE Pumped(k)'
      BY DEF DrainingHonest
    <3>1. CASE k = l
      BY <3>1, <2>2
    <3>2. CASE k # l
      <4>1. draining[k]
        BY <3>2, <2>1 DEF TypeOK
      <4> QED BY <4>1, <2>2 DEF DrainingHonest
    <3> QED BY <3>1, <3>2
  <2> QED BY <2>2, <2>3
<1> QED BY <1>1, <1>2

\* Enqueueing keeps the control invariant.
LEMMA EnqueueControl ==
  ASSUME ControlInv, NEW t \in Tasks, enqueueCommandInLane(t)
  PROVE  DrainingHonest' /\ WorkConserving' /\ (toDrain' # {} => resetting')
<1> DEFINE l == LaneOf[t]
<1>1. l \in Lanes
  BY CommandQueueAssumption
<1>2. CASE gatewayDraining
  BY <1>2 DEF enqueueCommandInLane, ControlInv, DrainingHonest, WorkConserving, HasSlot, Pumped
<1>3. CASE ~gatewayDraining
  <2>1. drainLane(l) /\ queue' = [queue EXCEPT ![l] = Append(@, t)]
    BY <1>3 DEF enqueueCommandInLane
  <2>2. UNCHANGED <<activeTaskIds, maxConcurrent, resetting, toDrain>>
    BY DEF enqueueCommandInLane
  <2>3. Pumped(l)' /\ DrainingHonest' /\ \A k \in Lanes : Pumped(k) => Pumped(k)'
    BY <1>1, <2>1, DrainLanePumps DEF ControlInv
  <2>4. \A k \in Lanes : k # l => (HasSlot(k)' <=> HasSlot(k))
    BY <1>1, <2>1, <2>2 DEF HasSlot, ControlInv, TypeOK
  <2>5. WorkConserving'
    BY <2>2, <2>3, <2>4 DEF WorkConserving, ControlInv
  <2> QED BY <2>2, <2>3, <2>5 DEF ControlInv
<1> QED BY <1>2, <1>3

\* So does the end of a task: the slot it frees is offered by a new pump.
LEMMA CompleteControl ==
  ASSUME ControlInv, NEW t \in Tasks, NEW outcome, completeTask(t, outcome)
  PROVE  DrainingHonest' /\ WorkConserving' /\ (toDrain' # {} => resetting')
<1> DEFINE l == LaneOf[t]
<1>1. l \in Lanes
  BY CommandQueueAssumption
<1>2. UNCHANGED <<queue, maxConcurrent, draining, resetting, toDrain>>
  BY DEF completeTask
<1>3. CASE taskGeneration[t] = generation[l]
  <2>1. stack' = Append(stack, l) /\ activeTaskIds' = [activeTaskIds EXCEPT ![l] = @ \ {t}]
    BY <1>3 DEF completeTask
  <2>2. Pumped(l)' /\ \A k \in Lanes : Pumped(k) => Pumped(k)'
    BY <1>1, <2>1, PumpedAppend DEF ControlInv
  <2>3. \A k \in Lanes : k # l => (HasSlot(k)' <=> HasSlot(k))
    BY <1>1, <1>2, <2>1 DEF HasSlot, ControlInv, TypeOK
  <2>4. WorkConserving'
    BY <1>2, <2>2, <2>3 DEF WorkConserving, ControlInv
  <2>5. DrainingHonest'
    BY <1>2, <2>2 DEF DrainingHonest, ControlInv
  <2> QED BY <1>2, <2>4, <2>5 DEF ControlInv
<1>4. CASE taskGeneration[t] # generation[l]
  <2>1. UNCHANGED <<stack, activeTaskIds>>
    BY <1>4 DEF completeTask
  <2> QED BY <1>2, <2>1 DEF ControlInv, DrainingHonest, WorkConserving, HasSlot, Pumped
<1> QED BY <1>3, <1>4

\* Every step keeps the control invariant.
LEMMA ControlStep == ControlInv /\ [Next]_vars => ControlInv'
<1> SUFFICES ASSUME ControlInv, [Next]_vars PROVE ControlInv'
  OBVIOUS
<1> DEFINE Goal == DrainingHonest' /\ WorkConserving' /\ (toDrain' # {} => resetting')
<1>t. TypeOK /\ TypeOK'
  BY TypeStep DEF ControlInv
<1>1. CASE PumpStart
  <2>1. Top \in Lanes /\ Pumped(Top)
    BY <1>t, <1>1, TopPumped DEF PumpStart
  <2>2. \A k \in Lanes : k # Top => (HasSlot(k)' <=> HasSlot(k))
    BY <1>t, <1>1, <2>1 DEF PumpStart, HasSlot, TypeOK
  <2>3. UNCHANGED <<stack, draining, resetting, toDrain>>
    BY <1>1 DEF PumpStart
  <2>4. \A k \in Lanes : Pumped(k) => Pumped(k)'
    BY <2>3 DEF Pumped
  <2>5. WorkConserving'
    BY <2>1, <2>2, <2>3, <2>4 DEF WorkConserving, ControlInv
  <2> QED BY <2>3, <2>4, <2>5, <1>t DEF DrainingHonest, ControlInv
<1>2. CASE PumpEnd
  <2>1. Top \in Lanes /\ \A k \in Lanes : Pumped(k) => Pumped(k)' \/ k = Top
    BY <1>t, <1>2, PumpedPop DEF PumpEnd
  <2>2. UNCHANGED <<queue, activeTaskIds, maxConcurrent, resetting, toDrain>>
    BY <1>2 DEF PumpEnd
  <2>3. ~HasSlot(Top)
    BY <1>2 DEF PumpEnd
  <2>4. \A k \in Lanes : HasSlot(k)' <=> HasSlot(k)
    BY <2>2 DEF HasSlot
  <2>5. WorkConserving'
    BY <2>1, <2>2, <2>3, <2>4 DEF WorkConserving, ControlInv
  <2>6. DrainingHonest'
    <3>1. draining' = [draining EXCEPT ![Top] = FALSE]
      BY <1>2 DEF PumpEnd
    <3>2. \A k \in Lanes : draining'[k] => draining[k] /\ k # Top
      BY <1>t, <2>1, <3>1 DEF TypeOK
    <3> QED BY <2>1, <3>2 DEF DrainingHonest, ControlInv
  <2> QED BY <2>2, <2>5, <2>6, <1>t DEF ControlInv
<1>3. CASE TaskYields
  BY <1>t, <1>3 DEF TaskYields, laneVars, ControlInv, DrainingHonest, WorkConserving,
     HasSlot, Pumped
<1>4. CASE TaskEnqueuesInner
  <2>1. Inner[prefix] \in Tasks
    BY <1>4, CommandQueueAssumption DEF TaskEnqueuesInner
  <2> QED BY <1>t, <1>4, <2>1, EnqueueControl DEF TaskEnqueuesInner, ControlInv
<1>5. CASE TaskThrows
  BY <1>t, <1>5, CompleteControl DEF TaskThrows, TypeOK, ControlInv
<1>6. CASE ResetDrains
  <2>1. PICK l \in toDrain : toDrain' = toDrain \ {l} /\ drainLane(l)
    BY <1>6 DEF ResetDrains
  <2>2. l \in Lanes
    BY <1>t, <2>1 DEF TypeOK
  <2>3. Pumped(l)' /\ DrainingHonest' /\ \A k \in Lanes : Pumped(k) => Pumped(k)'
    BY <1>t, <2>1, <2>2, DrainLanePumps DEF ControlInv
  <2>4. \A k \in Lanes : HasSlot(k)' <=> HasSlot(k)
    BY <1>6 DEF ResetDrains, HasSlot
  <2>5. WorkConserving'
    BY <2>1, <2>3, <2>4 DEF WorkConserving, ControlInv
  <2> QED BY <1>t, <1>6, <2>3, <2>5 DEF ResetDrains, ControlInv
<1>7. CASE ResetEnds
  BY <1>t, <1>7 DEF ResetEnds, laneVars, ControlInv, DrainingHonest, WorkConserving,
     HasSlot, Pumped
<1>8. ASSUME NEW t \in Tasks, Enqueue(t) PROVE ControlInv'
  BY <1>t, <1>8, EnqueueControl DEF Enqueue, ControlInv
<1>9. ASSUME NEW t \in Tasks, EnqueueInner(t) PROVE ControlInv'
  <2>1. Inner[t] \in Tasks
    BY <1>9, CommandQueueAssumption DEF EnqueueInner
  <2> QED BY <1>t, <1>9, <2>1, EnqueueControl DEF EnqueueInner, ControlInv
<1>10. ASSUME NEW t \in Tasks, TaskSettles(t) PROVE ControlInv'
  BY <1>t, <1>10, CompleteControl DEF TaskSettles, ControlInv
<1>11. CASE markGatewayDraining
  BY <1>t, <1>11 DEF markGatewayDraining, laneVars, callVars, ControlInv, DrainingHonest,
     WorkConserving, HasSlot, Pumped
<1>12. ASSUME NEW l \in Lanes, NEW n \in ConcurrencyInputs, setCommandLaneConcurrency(l, n)
       PROVE ControlInv'
  <2>1. drainLane(l) /\ maxConcurrent' = [maxConcurrent EXCEPT ![l] = atLeastOne(n)]
    BY <1>12 DEF setCommandLaneConcurrency
  <2>2. UNCHANGED <<queue, activeTaskIds, resetting, toDrain>>
    BY <1>12 DEF setCommandLaneConcurrency
  <2>3. Pumped(l)' /\ DrainingHonest' /\ \A k \in Lanes : Pumped(k) => Pumped(k)'
    BY <1>t, <2>1, DrainLanePumps DEF ControlInv
  <2>4. \A k \in Lanes : k # l => (HasSlot(k)' <=> HasSlot(k))
    BY <1>t, <2>1, <2>2 DEF HasSlot, TypeOK
  <2>5. WorkConserving'
    BY <2>2, <2>3, <2>4 DEF WorkConserving, ControlInv
  <2> QED BY <1>t, <2>2, <2>3, <2>5 DEF ControlInv
<1>13. ASSUME NEW l \in Lanes, clearCommandLane(l) PROVE ControlInv'
  <2>1. UNCHANGED <<activeTaskIds, maxConcurrent, draining, stack, resetting, toDrain>>
    BY <1>13 DEF clearCommandLane, callVars
  <2>2. \A k \in Lanes : HasSlot(k)' => HasSlot(k)
    BY <1>t, <1>13, <2>1 DEF clearCommandLane, HasSlot, TypeOK
  <2> QED BY <1>t, <2>1, <2>2 DEF ControlInv, DrainingHonest, WorkConserving, Pumped
<1>14. CASE resetAllLanes
  <2>1. \A l \in Lanes : HasSlot(l)' => l \in toDrain'
    BY <1>14 DEF resetAllLanes, HasSlot
  <2>2. \A l \in Lanes : ~draining'[l]
    BY <1>14 DEF resetAllLanes
  <2>3. resetting'
    BY <1>14 DEF resetAllLanes
  <2> QED BY <1>t, <2>1, <2>2, <2>3 DEF ControlInv, DrainingHonest, WorkConserving
<1>15. ASSUME NEW w \in Waiters, NEW timed \in BOOLEAN, waitForActiveTasks(w, timed)
       PROVE ControlInv'
  BY <1>t, <1>15 DEF waitForActiveTasks, laneVars, callVars, ControlInv, DrainingHonest,
     WorkConserving, HasSlot, Pumped
<1>16. ASSUME NEW w \in Waiters, WaiterTimeout(w) PROVE ControlInv'
  BY <1>t, <1>16 DEF WaiterTimeout, laneVars, callVars, ControlInv, DrainingHonest,
     WorkConserving, HasSlot, Pumped
<1>17. CASE UNCHANGED vars
  BY <1>t, <1>17 DEF vars, laneVars, callVars, ControlInv, DrainingHonest,
     WorkConserving, HasSlot, Pumped
<1> QED
  BY <1>1, <1>2, <1>3, <1>4, <1>5, <1>6, <1>7, <1>8, <1>9, <1>10, <1>11, <1>12, <1>13,
     <1>14, <1>15, <1>16, <1>17 DEF Next, Pumping, TaskStep, Caller

\* Whatever the callers do, a lane of command-queue.ts with waiting entries and a
\* free slot has a pump executing for it: accepted work is never stranded.
THEOREM LanesWorkConserving == Spec => [](WorkConserving /\ DrainingHonest)
<1>1. Init => ControlInv
  <2> SUFFICES ASSUME Init PROVE ControlInv
    OBVIOUS
  <2>1. TypeOK
    BY InitType
  <2> QED BY <2>1 DEF Init, ControlInv, DrainingHonest, WorkConserving, HasSlot
<1>2. ControlInv => WorkConserving /\ DrainingHonest
  BY DEF ControlInv
<1> QED BY <1>1, <1>2, ControlStep, PTL DEF Spec
-----------------------------------------------------------------------------
(* Tasks, queues and slots.  A completion frees exactly the slot its task  *)
(* holds because no task starts in a generation its lane has not reached,  *)
(* so a bump of the generation empties Current(l) as it empties the slots. *)

TaskInv ==
  /\ TypeOK
  /\ QueueExact
  /\ SlotsExact
  /\ prefix # NoTask => status[prefix] = "running"
  /\ \A t \in Tasks : taskGeneration[t] <= generation[LaneOf[t]]

\* The parts of TaskInv after a step that leaves what they mention alone.
LEMMA QueueUnchanged ==
  ASSUME QueueExact, UNCHANGED <<queue, status>>
  PROVE  QueueExact'
BY DEF QueueExact

\* The slots, after such a step.
LEMMA SlotsUnchanged ==
  ASSUME SlotsExact, UNCHANGED <<activeTaskIds, status, taskGeneration, generation>>
  PROVE  SlotsExact' /\ \A l \in Lanes : Current(l)' = Current(l)
BY DEF SlotsExact, Current

\* A task that is not queued leaves or enters another such state.
LEMMA QueueOther ==
  ASSUME TypeOK, QueueExact, NEW t \in Tasks, status[t] # "queued", NEW s,
         s # "queued", status' = [status EXCEPT ![t] = s], queue' = queue
  PROVE  QueueExact'
<1>1. \A u \in Tasks : status'[u] = "queued" <=> status[u] = "queued"
  BY DEF TypeOK
<1>2. \A l \in Lanes : \A i \in 1..Len(queue[l]) : queue[l][i] \in Tasks
  BY DEF TypeOK
<1> QED BY <1>1, <1>2 DEF QueueExact

\* An enqueue keeps queues and slots exact, and who runs.
LEMMA EnqueueTask ==
  ASSUME TaskInv, NEW t \in Tasks, enqueueCommandInLane(t)
  PROVE  /\ QueueExact'
         /\ SlotsExact'
         /\ \A l \in Lanes : Current(l)' = Current(l)
<1> DEFINE l == LaneOf[t]
<1>1. l \in Lanes /\ status[t] = "idle"
  BY CommandQueueAssumption DEF enqueueCommandInLane
<1>2. \E s \in {"refused", "queued"} : status' = [status EXCEPT ![t] = s]
  BY DEF enqueueCommandInLane
<1>3. UNCHANGED <<activeTaskIds, taskGeneration, generation>>
  BY DEF enqueueCommandInLane
<1>4. \A k \in Lanes : Current(k)' = Current(k)
  BY <1>1, <1>2, <1>3 DEF Current, TaskInv, TypeOK
<1>5. SlotsExact'
  BY <1>3, <1>4 DEF SlotsExact, TaskInv
<1>6. QueueExact'
  <2>1. CASE gatewayDraining
    <3>1. status' = [status EXCEPT ![t] = "refused"] /\ queue' = queue
      BY <2>1 DEF enqueueCommandInLane
    <3> QED BY <1>1, <3>1, QueueOther DEF TaskInv
  <2>2. CASE ~gatewayDraining
    <3>1. /\ status' = [status EXCEPT ![t] = "queued"]
          /\ queue' = [queue EXCEPT ![l] = Append(@, t)]
      BY <2>2 DEF enqueueCommandInLane
    <3>2. /\ queue[l] \in Seq(Tasks)
          /\ queue'[l] = Append(queue[l], t)
          /\ \A k \in Lanes : k # l => queue'[k] = queue[k]
      BY <1>1, <3>1 DEF TaskInv, TypeOK
    <3>3. /\ Len(queue'[l]) = Len(queue[l]) + 1
          /\ \A i \in 1..Len(queue[l]) : queue'[l][i] = queue[l][i]
          /\ queue'[l][Len(queue[l]) + 1] = t
          /\ Len(queue[l]) \in Nat
      BY <3>2, AppendElements
    <3>4. /\ status'[t] = "queued"
          /\ \A u \in Tasks : u # t => status'[u] = status[u]
      BY <3>1 DEF TaskInv, TypeOK
    <3>5. \A k \in Lanes : \A i \in 1..Len(queue[k]) :
            queue[k][i] \in Tasks /\ queue[k][i] # t
      <4>1. \A k \in Lanes : \A i \in 1..Len(queue[k]) : queue[k][i] \in Tasks
        BY DEF TaskInv, TypeOK
      <4>2. \A k \in Lanes : \A i \in 1..Len(queue[k]) : status[queue[k][i]] = "queued"
        BY DEF TaskInv, QueueExact
      <4> QED BY <1>1, <4>1, <4>2
    <3>6. ASSUME NEW k \in Lanes, NEW i \in 1..Len(queue'[k])
          PROVE  /\ status'[queue'[k][i]] = "queued"
                 /\ LaneOf[queue'[k][i]] = k
                 /\ \A j \in 1..Len(queue'[k]) : queue'[k][i] = queue'[k][j] => i = j
      <4>1. CASE k # l
        BY <3>2, <3>4, <3>5, <4>1 DEF TaskInv, QueueExact
      <4>2. CASE k = l /\ i = Len(queue[l]) + 1
        <5>1. queue'[l][i] = t /\ LaneOf[t] = l
          BY <3>3, <4>2
        <5>2. \A j \in 1..Len(queue'[l]) : j # i => j \in 1..Len(queue[l])
          BY <3>3, <4>2
        <5>3. \A j \in 1..Len(queue'[l]) : j # i => queue'[l][j] # t
          BY <1>1, <3>3, <3>5, <5>2
        <5> QED BY <3>4, <4>2, <5>1, <5>3
      <4>3. CASE k = l /\ i # Len(queue[l]) + 1
        <5>1. i \in 1..Len(queue[l]) /\ queue'[l][i] = queue[l][i]
          BY <3>3, <4>3
        <5>2. /\ status[queue[l][i]] = "queued"
              /\ LaneOf[queue[l][i]] = l
              /\ \A j \in 1..Len(queue[l]) : queue[l][i] = queue[l][j] => i = j
          BY <1>1, <5>1 DEF TaskInv, QueueExact
        <5>3. queue[l][i] # t /\ queue[l][i] \in Tasks
          BY <1>1, <3>5, <5>1
        <5> QED BY <3>3, <3>4, <4>3, <5>1, <5>2, <5>3, SMTT(30)
      <4> QED BY <4>1, <4>2, <4>3
    <3>7. ASSUME NEW u \in Tasks, status'[u] = "queued"
          PROVE  \E i \in 1..Len(queue'[LaneOf[u]]) : queue'[LaneOf[u]][i] = u
      <4>1. CASE u = t
        BY <3>3, <4>1
      <4>2. CASE u # t
        <5>1. status[u] = "queued" /\ LaneOf[u] \in Lanes
          BY <3>4, <3>7, <4>2, CommandQueueAssumption
        <5>2. PICK i \in 1..Len(queue[LaneOf[u]]) : queue[LaneOf[u]][i] = u
          BY <5>1 DEF TaskInv, QueueExact
        <5>3. CASE LaneOf[u] # l
          BY <3>2, <5>1, <5>2, <5>3
        <5>4. CASE LaneOf[u] = l
          <6>1. i \in 1..Len(queue'[l]) /\ queue'[l][i] = u
            BY <3>3, <5>2, <5>4
          <6> QED BY <5>4, <6>1
        <5> QED BY <5>3, <5>4
      <4> QED BY <4>1, <4>2
    <3> QED BY <3>6, <3>7 DEF QueueExact
  <2> QED BY <2>1, <2>2
<1> QED BY <1>4, <1>5, <1>6

\* The end of a task frees its own slot and no other.
LEMMA CompleteTask ==
  ASSUME TaskInv, NEW t \in Tasks, status[t] = "running", NEW outcome \in Settled,
         completeTask(t, outcome)
  PROVE  /\ QueueExact'
         /\ SlotsExact'
         /\ \A l \in Lanes :
              Current(l)' = IF l = LaneOf[t] /\ t \in Current(l)
                            THEN Current(l) \ {t} ELSE Current(l)
<1>1. LaneOf[t] \in Lanes
  BY CommandQueueAssumption
<1>2. /\ status' = [status EXCEPT ![t] = outcome]
      /\ UNCHANGED <<queue, taskGeneration, generation>>
  BY DEF completeTask
<1>3. outcome # "queued" /\ outcome # "running"
  BY DEF Settled
<1>4. QueueExact'
  BY <1>2, <1>3, QueueOther DEF TaskInv
<1>5. \A l \in Lanes : Current(l)' = Current(l) \ {t}
  BY <1>2, <1>3 DEF Current, TaskInv, TypeOK
<1>6. \A l \in Lanes : t \in Current(l) <=> l = LaneOf[t] /\ taskGeneration[t] = generation[l]
  BY DEF Current
<1>7. SlotsExact'
  <2>1. CASE taskGeneration[t] = generation[LaneOf[t]]
    <3>1. activeTaskIds' = [activeTaskIds EXCEPT ![LaneOf[t]] = @ \ {t}]
      BY <2>1 DEF completeTask
    <3>2. \A l \in Lanes : activeTaskIds'[l] = IF l = LaneOf[t] THEN activeTaskIds[l] \ {t}
                                                ELSE activeTaskIds[l]
      BY <1>1, <3>1 DEF TaskInv, TypeOK
    <3>3. \A l \in Lanes : activeTaskIds[l] = Current(l)
      BY DEF TaskInv, SlotsExact
    <3>4. \A l \in Lanes : l # LaneOf[t] => Current(l) \ {t} = Current(l)
      BY <1>6
    <3> SUFFICES ASSUME NEW l \in Lanes PROVE activeTaskIds'[l] = Current(l)'
      BY DEF SlotsExact
    <3>5. CASE l = LaneOf[t]
      <4>1. activeTaskIds'[l] = Current(l) \ {t}
        BY <3>2, <3>3, <3>5
      <4> QED BY <4>1, <1>5
    <3>6. CASE l # LaneOf[t]
      <4>1. activeTaskIds'[l] = Current(l)
        BY <3>2, <3>3, <3>6
      <4> QED BY <4>1, <1>5, <3>4, <3>6
    <3> QED BY <3>5, <3>6
  <2>2. CASE taskGeneration[t] # generation[LaneOf[t]]
    <3>1. activeTaskIds' = activeTaskIds
      BY <2>2 DEF completeTask
    <3>2. \A l \in Lanes : Current(l) \ {t} = Current(l)
      BY <1>6, <2>2
    <3> QED BY <1>5, <3>1, <3>2 DEF SlotsExact, TaskInv
  <2> QED BY <2>1, <2>2
<1>8. \A l \in Lanes :
        Current(l)' = IF l = LaneOf[t] /\ t \in Current(l)
                      THEN Current(l) \ {t} ELSE Current(l)
  BY <1>5, <1>6
<1> QED BY <1>4, <1>7, <1>8

\* The start of the head of a queue takes one slot of its lane.
LEMMA PumpStartTask ==
  ASSUME TaskInv, PumpStart
  PROVE  /\ Top \in Lanes
         /\ Head(queue[Top]) \in Tasks
         /\ QueueExact'
         /\ SlotsExact'
         /\ \A l \in Lanes : Current(l)' =
              IF l = Top THEN Current(l) \cup {Head(queue[Top])} ELSE Current(l)
<1> DEFINE l == Top
           t == Head(queue[Top])
<1>1. l \in Lanes /\ queue[l] # <<>> /\ queue[l] \in Seq(Tasks)
  BY TopPumped DEF PumpStart, HasSlot, TaskInv, TypeOK
<1>2. /\ t = queue[l][1]
      /\ t \in Tasks
      /\ Len(queue[l]) \in Nat \ {0}
      /\ Len(Tail(queue[l])) = Len(queue[l]) - 1
      /\ \A i \in 1..Len(Tail(queue[l])) : Tail(queue[l])[i] = queue[l][i + 1]
  BY <1>1, TailElements
<1>3. status[t] = "queued" /\ LaneOf[t] = l
  BY <1>1, <1>2 DEF TaskInv, QueueExact
<1>4. /\ queue' = [queue EXCEPT ![l] = Tail(@)]
      /\ activeTaskIds' = [activeTaskIds EXCEPT ![l] = @ \cup {t}]
      /\ status' = [status EXCEPT ![t] = "running"]
      /\ taskGeneration' = [taskGeneration EXCEPT ![t] = generation[l]]
      /\ generation' = generation
  BY DEF PumpStart
<1>5. \A k \in Lanes : Current(k)' = IF k = l THEN Current(k) \cup {t} ELSE Current(k)
  BY <1>2, <1>3, <1>4 DEF Current, TaskInv, TypeOK
<1>6. SlotsExact'
  BY <1>1, <1>4, <1>5 DEF SlotsExact, TaskInv, TypeOK
<1>7. /\ queue'[l] = Tail(queue[l])
      /\ \A k \in Lanes : k # l => queue'[k] = queue[k]
      /\ status'[t] = "running"
      /\ \A u \in Tasks : u # t => status'[u] = status[u]
  BY <1>1, <1>2, <1>4 DEF TaskInv, TypeOK
<1>8. \A k \in Lanes : \A i \in 1..Len(queue[k]) :
        queue[k][i] \in Tasks /\ (queue[k][i] = t => k = l /\ i = 1)
  BY <1>1, <1>2, <1>3, SMTT(30) DEF TaskInv, TypeOK, QueueExact
<1>9. ASSUME NEW k \in Lanes, NEW i \in 1..Len(queue'[k])
      PROVE  /\ status'[queue'[k][i]] = "queued"
             /\ LaneOf[queue'[k][i]] = k
             /\ \A j \in 1..Len(queue'[k]) : queue'[k][i] = queue'[k][j] => i = j
  <2>1. CASE k # l
    BY <1>7, <1>8, <2>1 DEF TaskInv, QueueExact
  <2>2. CASE k = l
    <3>1. \A j \in 1..Len(queue'[k]) :
            j + 1 \in 1..Len(queue[l]) /\ j + 1 # 1 /\ queue'[k][j] = queue[l][j + 1]
      <4> HIDE DEF l, t
      <4> TAKE j \in 1..Len(queue'[k])
      <4>1. Len(queue'[k]) = Len(queue[l]) - 1 /\ queue'[k] = Tail(queue[l])
        BY <1>2, <1>7, <2>2
      <4>2. j + 1 \in 1..Len(queue[l]) /\ j + 1 # 1
        BY <1>2, <4>1
      <4>3. queue'[k][j] = queue[l][j + 1]
        BY <1>2, <4>1
      <4> QED BY <4>2, <4>3
    <3>2. /\ status[queue[l][i + 1]] = "queued"
          /\ LaneOf[queue[l][i + 1]] = l
          /\ \A j \in 1..Len(queue[l]) : queue[l][i + 1] = queue[l][j] => i + 1 = j
      BY <1>1, <3>1 DEF TaskInv, QueueExact
    <3>3. queue[l][i + 1] # t /\ queue[l][i + 1] \in Tasks
      BY <1>1, <1>8, <3>1
    <3>4. \A j \in 1..Len(queue'[k]) : i + 1 = j + 1 => i = j
      BY <1>2, <1>7, <2>2
    <3> QED BY <1>7, <2>2, <3>1, <3>2, <3>3, <3>4
  <2> QED BY <2>1, <2>2
<1>10. ASSUME NEW u \in Tasks, status'[u] = "queued"
       PROVE  \E i \in 1..Len(queue'[LaneOf[u]]) : queue'[LaneOf[u]][i] = u
  <2>1. u # t /\ status[u] = "queued" /\ LaneOf[u] \in Lanes
    BY <1>7, <1>10, CommandQueueAssumption
  <2>2. PICK i \in 1..Len(queue[LaneOf[u]]) : queue[LaneOf[u]][i] = u
    BY <2>1 DEF TaskInv, QueueExact
  <2>3. CASE LaneOf[u] # l
    BY <1>7, <2>1, <2>2, <2>3
  <2>4. CASE LaneOf[u] = l
    <3>1. i # 1
      BY <1>2, <2>1, <2>2, <2>4
    <3>2. i - 1 \in 1..Len(Tail(queue[l])) /\ (i - 1) + 1 = i
      BY <1>2, <2>2, <2>4, <3>1
    <3>3. queue'[l][i - 1] = u
      BY <1>2, <1>7, <2>2, <2>4, <3>2
    <3> QED BY <1>7, <2>4, <3>2, <3>3
  <2> QED BY <2>3, <2>4
<1>11. QueueExact'
  BY <1>9, <1>10 DEF QueueExact
<1> QED BY <1>1, <1>2, <1>5, <1>6, <1>11

\* A clear empties one queue and leaves the running tasks alone.
LEMMA ClearTask ==
  ASSUME TaskInv, NEW l \in Lanes, clearCommandLane(l)
  PROVE  /\ QueueExact'
         /\ SlotsExact'
         /\ \A k \in Lanes : Current(k)' = Current(k)
<1> DEFINE Cleared == {t \in Tasks : \E i \in 1..Len(queue[l]) : queue[l][i] = t}
<1>1. /\ queue' = [queue EXCEPT ![l] = <<>>]
      /\ status' = [t \in Tasks |-> IF t \in Cleared THEN "cleared" ELSE status[t]]
      /\ UNCHANGED <<activeTaskIds, taskGeneration, generation>>
  BY DEF clearCommandLane
<1>2. \A t \in Tasks : t \in Cleared <=> status[t] = "queued" /\ LaneOf[t] = l
  BY DEF TaskInv, QueueExact
<1> HIDE DEF Cleared
<1>3. \A k \in Lanes : Current(k)' = Current(k)
  BY <1>1, <1>2 DEF Current
<1>4. SlotsExact'
  BY <1>1, <1>3 DEF SlotsExact, TaskInv
<1>5. queue'[l] = <<>> /\ \A k \in Lanes : k # l => queue'[k] = queue[k]
  BY <1>1 DEF TaskInv, TypeOK
<1>6. \A k \in Lanes : \A i \in 1..Len(queue[k]) : queue[k][i] \in Tasks
  BY DEF TaskInv, TypeOK
<1>7. ASSUME NEW k \in Lanes, NEW i \in 1..Len(queue'[k])
      PROVE  /\ status'[queue'[k][i]] = "queued"
             /\ LaneOf[queue'[k][i]] = k
             /\ \A j \in 1..Len(queue'[k]) : queue'[k][i] = queue'[k][j] => i = j
  <2>1. k # l
    BY <1>5
  <2>2. queue'[k] = queue[k] /\ queue[k][i] \in Tasks /\ LaneOf[queue[k][i]] = k
    BY <1>5, <1>6, <2>1 DEF TaskInv, QueueExact
  <2>3. queue[k][i] \notin Cleared
    BY <1>2, <2>1, <2>2
  <2> QED BY <1>1, <2>2, <2>3 DEF TaskInv, QueueExact
<1>8. ASSUME NEW u \in Tasks, status'[u] = "queued"
      PROVE  \E i \in 1..Len(queue'[LaneOf[u]]) : queue'[LaneOf[u]][i] = u
  <2>1. status[u] = "queued" /\ LaneOf[u] # l
    BY <1>1, <1>2, <1>8
  <2>2. queue'[LaneOf[u]] = queue[LaneOf[u]]
    BY <1>5, <2>1, CommandQueueAssumption
  <2> QED BY <2>1, <2>2 DEF TaskInv, QueueExact
<1>9. QueueExact'
  BY <1>7, <1>8 DEF QueueExact
<1> QED BY <1>3, <1>4, <1>9

\* A reset frees every slot: no task runs in the new generations.
LEMMA ResetTask ==
  ASSUME TaskInv, resetAllLanes
  PROVE  /\ QueueExact'
         /\ SlotsExact'
         /\ \A l \in Lanes : Current(l)' = {}
         /\ \A t \in Tasks : taskGeneration'[t] <= generation'[LaneOf[t]]
<1>1. /\ generation' = [l \in Lanes |-> generation[l] + 1]
      /\ activeTaskIds' = [l \in Lanes |-> {}]
      /\ UNCHANGED <<queue, status, taskGeneration>>
  BY DEF resetAllLanes, taskVars
<1>2. \A t \in Tasks : taskGeneration[t] < generation'[LaneOf[t]]
  BY <1>1, CommandQueueAssumption DEF TaskInv, TypeOK
<1>3. \A l \in Lanes : Current(l)' = {}
  BY <1>1, <1>2, CommandQueueAssumption DEF Current, TaskInv, TypeOK
<1>4. SlotsExact'
  BY <1>1, <1>3 DEF SlotsExact
<1>5. \A t \in Tasks : taskGeneration'[t] <= generation'[LaneOf[t]]
  BY <1>1, <1>2, CommandQueueAssumption DEF TaskInv, TypeOK
<1> QED BY <1>1, <1>3, <1>4, <1>5, QueueUnchanged DEF TaskInv

\* Every step keeps the task invariant.
LEMMA TaskInvStep == TaskInv /\ [Next]_vars => TaskInv'
<1> SUFFICES ASSUME TaskInv, [Next]_vars PROVE TaskInv'
  OBVIOUS
<1>t. TypeOK /\ TypeOK'
  BY TypeStep DEF TaskInv
<1>u. ASSUME UNCHANGED <<queue, activeTaskIds, status, taskGeneration, generation>>,
             prefix' \in {prefix, NoTask}
      PROVE  TaskInv'
  <2>1. QueueExact' /\ SlotsExact'
    BY <1>u, QueueUnchanged, SlotsUnchanged DEF TaskInv
  <2> QED BY <1>t, <1>u, <2>1 DEF TaskInv
<1>e. ASSUME NEW t \in Tasks, enqueueCommandInLane(t), prefix' = NoTask PROVE TaskInv'
  BY <1>t, <1>e, EnqueueTask DEF enqueueCommandInLane, TaskInv
<1>c. ASSUME NEW t \in Tasks, status[t] = "running", NEW outcome \in Settled,
             completeTask(t, outcome), prefix' = NoTask
      PROVE  TaskInv'
  BY <1>t, <1>c, CompleteTask DEF completeTask, TaskInv
<1>1. CASE PumpStart
  <2>1. Top \in Lanes /\ Head(queue[Top]) \in Tasks /\ QueueExact' /\ SlotsExact'
    BY <1>1, PumpStartTask
  <2>2. LaneOf[Head(queue[Top])] = Top
    <3>1. queue[Top] # <<>> /\ queue[Top] \in Seq(Tasks)
      BY <1>1, <1>t, <2>1 DEF PumpStart, HasSlot, TypeOK
    <3>2. Head(queue[Top]) = queue[Top][1] /\ 1 \in 1..Len(queue[Top])
      BY <3>1, TailElements
    <3> QED BY <2>1, <3>2 DEF TaskInv, QueueExact
  <2>3. prefix' # NoTask => status'[prefix'] = "running"
    BY <1>1, <1>t, <2>1 DEF PumpStart, TypeOK
  <2>4. \A t \in Tasks : taskGeneration'[t] <= generation'[LaneOf[t]]
    <3> TAKE t \in Tasks
    <3>1. CASE t = Head(queue[Top])
      <4>1. taskGeneration'[t] = generation[Top] /\ generation' = generation
        BY <1>1, <1>t, <3>1 DEF PumpStart, TypeOK
      <4>2. generation[Top] \in Nat
        BY <1>t, <2>1 DEF TypeOK
      <4> QED BY <2>2, <3>1, <4>1, <4>2
    <3>2. CASE t # Head(queue[Top])
      <4>1. taskGeneration'[t] = taskGeneration[t] /\ generation' = generation
        BY <1>1, <1>t, <3>2 DEF PumpStart, TypeOK
      <4> QED BY <4>1 DEF TaskInv
    <3> QED BY <3>1, <3>2
  <2> QED BY <1>t, <2>1, <2>3, <2>4 DEF TaskInv
<1>2. CASE PumpEnd
  BY <1>2, <1>u DEF PumpEnd, taskVars
<1>3. CASE TaskYields
  BY <1>3, <1>u DEF TaskYields, laneVars, taskVars
<1>4. CASE TaskEnqueuesInner
  BY <1>4, <1>e, CommandQueueAssumption DEF TaskEnqueuesInner
<1>5. CASE TaskThrows
  BY <1>5, <1>t, <1>c DEF TaskThrows, TaskInv, TypeOK, Settled
<1>6. CASE ResetDrains
  BY <1>6, <1>u DEF ResetDrains, taskVars
<1>7. CASE ResetEnds
  BY <1>7, <1>u DEF ResetEnds, laneVars, taskVars
<1>8. ASSUME NEW t \in Tasks, Enqueue(t) PROVE TaskInv'
  BY <1>8, <1>e DEF Enqueue, Idle
<1>9. ASSUME NEW t \in Tasks, EnqueueInner(t) PROVE TaskInv'
  BY <1>9, <1>e, CommandQueueAssumption DEF EnqueueInner, Idle
<1>10. ASSUME NEW t \in Tasks, TaskSettles(t) PROVE TaskInv'
  <2>1. Outcomes(t) \subseteq Settled
    BY DEF Outcomes, Settled
  <2> QED BY <1>10, <1>c, <2>1 DEF TaskSettles, Idle
<1>11. CASE markGatewayDraining
  BY <1>11, <1>u DEF markGatewayDraining, laneVars, taskVars, callVars
<1>12. ASSUME NEW l \in Lanes, NEW n \in ConcurrencyInputs, setCommandLaneConcurrency(l, n)
       PROVE TaskInv'
  BY <1>12, <1>u DEF setCommandLaneConcurrency, taskVars
<1>13. ASSUME NEW l \in Lanes, clearCommandLane(l) PROVE TaskInv'
  BY <1>13, <1>t, ClearTask DEF clearCommandLane, callVars, Idle, TaskInv
<1>14. CASE resetAllLanes
  BY <1>14, <1>t, ResetTask DEF resetAllLanes, Idle, TaskInv
<1>15. ASSUME NEW w \in Waiters, NEW timed \in BOOLEAN, waitForActiveTasks(w, timed)
       PROVE TaskInv'
  BY <1>15, <1>u DEF waitForActiveTasks, laneVars, taskVars, callVars
<1>16. ASSUME NEW w \in Waiters, WaiterTimeout(w) PROVE TaskInv'
  BY <1>16, <1>u DEF WaiterTimeout, laneVars, taskVars, callVars
<1>17. CASE UNCHANGED vars
  BY <1>17, <1>u DEF vars, laneVars, taskVars, callVars
<1> QED
  BY <1>1, <1>2, <1>3, <1>4, <1>5, <1>6, <1>7, <1>8, <1>9, <1>10, <1>11, <1>12, <1>13,
     <1>14, <1>15, <1>16, <1>17 DEF Next, Pumping, TaskStep, Caller

\* Initially nothing waits and nothing runs.
LEMMA InitTask == Init => TaskInv
<1> SUFFICES ASSUME Init PROVE TaskInv
  OBVIOUS
<1>1. QueueExact
  BY DEF Init, QueueExact
<1>2. SlotsExact
  BY DEF Init, SlotsExact, Current
<1> QED BY <1>1, <1>2, InitType, CommandQueueAssumption DEF Init, TaskInv

\* A lane of command-queue.ts holds every pending entry once and in its own queue,
\* and counts exactly the running tasks of its generation, across any number of
\* clears, resets, nested enqueues and late completions.
THEOREM LanesExact == Spec => [](QueueExact /\ SlotsExact)
<1>1. TaskInv => QueueExact /\ SlotsExact
  BY DEF TaskInv
<1> QED BY <1>1, InitTask, TaskInvStep, PTL DEF Spec

\* A promise that is pending and not started has its entry, once, in its own lane:
\* no clear, reset, refusal or nested enqueue loses or doubles it.
THEOREM QueuesExact == Spec => []QueueExact
<1>1. TaskInv => QueueExact
  BY DEF TaskInv
<1> QED BY <1>1, InitTask, TaskInvStep, PTL DEF Spec
-----------------------------------------------------------------------------
(* Refinement of LaneService.                                              *)

InService == [l \in Lanes |-> Current(l)]
Accepted == {t \in Tasks : status[t] \notin {"idle", "refused"}}

\* What is in service, when no lane changes what it runs.
LEMMA InServiceUnchanged ==
  ASSUME \A l \in Lanes : Current(l)' = Current(l)
  PROVE  InService' = InService
BY DEF InService

\* An enqueue is an Accept, or changes nothing when it is refused.
LEMMA EnqueueRefines ==
  ASSUME TaskInv, NEW t \in Tasks, enqueueCommandInLane(t)
  PROVE  [Service!Next]_(Service!vars)
<1>1. InService' = InService
  BY EnqueueTask, InServiceUnchanged
<1>2. status[t] = "idle" /\ UNCHANGED maxConcurrent
  BY DEF enqueueCommandInLane
<1>3. CASE gatewayDraining
  <2>1. queue' = queue /\ status' = [status EXCEPT ![t] = "refused"]
    BY <1>3 DEF enqueueCommandInLane
  <2>2. Accepted' = Accepted
    BY <1>2, <2>1 DEF Accepted, TaskInv, TypeOK
  <2> QED BY <1>1, <1>2, <2>1, <2>2 DEF Service!vars, InService, Accepted
<1>4. CASE ~gatewayDraining
  <2>1. /\ queue' = [queue EXCEPT ![LaneOf[t]] = Append(@, t)]
        /\ status' = [status EXCEPT ![t] = "queued"]
    BY <1>4 DEF enqueueCommandInLane
  <2>2. t \notin Accepted /\ Accepted' = Accepted \cup {t}
    BY <1>2, <2>1 DEF Accepted, TaskInv, TypeOK
  <2>3. Service!Accept(t)
    BY <1>1, <1>2, <2>1, <2>2 DEF Service!Accept, InService, Accepted
  <2> QED BY <2>3 DEF Service!Next
<1> QED BY <1>3, <1>4

\* The end of a task is a Finish, or changes nothing when its generation is over.
LEMMA CompleteRefines ==
  ASSUME TaskInv, NEW t \in Tasks, status[t] = "running",
         NEW outcome \in {"resolved", "rejected"}, completeTask(t, outcome)
  PROVE  [Service!Next]_(Service!vars)
<1> DEFINE l == LaneOf[t]
<1>1. l \in Lanes
  BY CommandQueueAssumption
<1>2. UNCHANGED <<queue, maxConcurrent>> /\ status' = [status EXCEPT ![t] = outcome]
  BY DEF completeTask
<1>3. Accepted' = Accepted
  BY <1>2 DEF Accepted, TaskInv, TypeOK
<1>s. outcome \in Settled
  BY DEF Settled
<1>4. CASE t \in Current(l)
  <2>1. InService' = [InService EXCEPT ![l] = @ \ {t}]
    BY <1>1, <1>s, <1>4, CompleteTask DEF InService
  <2>2. Service!Finish(l, t)
    BY <1>1, <1>2, <1>3, <1>4, <2>1 DEF Service!Finish, InService, Accepted
  <2> QED BY <1>1, <2>2 DEF Service!Next
<1>5. CASE t \notin Current(l)
  <2>1. InService' = InService
    BY <1>s, <1>5, CompleteTask DEF InService
  <2> QED BY <1>2, <1>3, <2>1 DEF Service!vars, InService, Accepted
<1> QED BY <1>4, <1>5

\* Every step of the command queue is a step of LaneService or changes nothing of it.
LEMMA RefinesStep == TaskInv /\ [Next]_vars => [Service!Next]_(Service!vars)
<1> SUFFICES ASSUME TaskInv, [Next]_vars PROVE [Service!Next]_(Service!vars)
  OBVIOUS
<1>u. ASSUME UNCHANGED <<queue, maxConcurrent, status, taskGeneration, generation>>
      PROVE  UNCHANGED (Service!vars)
  <2>1. InService' = InService /\ Accepted' = Accepted
    BY <1>u DEF InService, Accepted, Current
  <2> QED BY <1>u, <2>1 DEF Service!vars, InService, Accepted
<1>1. CASE PumpStart
  <2> DEFINE l == Top
             t == Head(queue[Top])
  <2>1. l \in Lanes /\ t \in Tasks /\ queue[l] # <<>>
    BY <1>1, PumpStartTask DEF PumpStart, HasSlot
  <2>2. Cardinality(InService[l]) < maxConcurrent[l]
    BY <1>1, <2>1 DEF PumpStart, HasSlot, InService, TaskInv, SlotsExact
  <2>3. /\ queue' = [queue EXCEPT ![l] = Tail(@)]
        /\ status' = [status EXCEPT ![t] = "running"]
        /\ maxConcurrent' = maxConcurrent
    BY <1>1 DEF PumpStart
  <2>4. InService' = [InService EXCEPT ![l] = @ \cup {t}]
    BY <1>1, <2>1, PumpStartTask DEF InService
  <2>5. status[t] = "queued"
    <3>1. queue[l] \in Seq(Tasks)
      BY <2>1 DEF TaskInv, TypeOK
    <3>2. t = queue[l][1] /\ 1 \in 1..Len(queue[l])
      BY <2>1, <3>1, TailElements
    <3> QED BY <2>1, <3>2 DEF TaskInv, QueueExact
  <2>6. Accepted' = Accepted
    BY <2>1, <2>3, <2>5 DEF Accepted, TaskInv, TypeOK
  <2>7. Service!Begin(l)
    <3> HIDE DEF l
    <3>1. InService' = [InService EXCEPT ![l] = @ \cup {Head(queue[l])}]
      BY <2>4 DEF l
    <3>2. queue[l] # <<>> /\ queue' = [queue EXCEPT ![l] = Tail(@)]
      BY <2>1, <2>3
    <3>3. Service!Cardinality([k \in Lanes |-> Current(k)][l]) < maxConcurrent[l]
      BY <2>2, Zenon DEF InService, Cardinality, Service!Cardinality
    <3>4. [k \in Lanes |-> Current(k)]' =
            [[k \in Lanes |-> Current(k)] EXCEPT ![l] = @ \cup {Head(queue[l])}]
      BY <3>1, Zenon DEF InService
    <3>5. maxConcurrent' = maxConcurrent
      BY <2>3
    <3>6. {u \in Tasks : status[u] \notin {"idle", "refused"}}' =
            {u \in Tasks : status[u] \notin {"idle", "refused"}}
      BY <2>6, Zenon DEF Accepted
    <3> QED BY <3>2, <3>3, <3>4, <3>5, <3>6, Zenon DEF Service!Begin
  <2> QED BY <2>1, <2>7 DEF Service!Next
<1>2. CASE PumpEnd
  BY <1>2, <1>u DEF PumpEnd, taskVars
<1>3. CASE TaskYields
  BY <1>3, <1>u DEF TaskYields, laneVars, taskVars
<1>4. CASE TaskEnqueuesInner
  BY <1>4, EnqueueRefines, CommandQueueAssumption DEF TaskEnqueuesInner
<1>5. CASE TaskThrows
  <2>1. prefix \in Tasks /\ status[prefix] = "running"
    BY <1>5 DEF TaskThrows, TaskInv, TypeOK
  <2> QED BY <1>5, <2>1, CompleteRefines DEF TaskThrows
<1>6. CASE ResetDrains
  BY <1>6, <1>u DEF ResetDrains, taskVars
<1>7. CASE ResetEnds
  BY <1>7, <1>u DEF ResetEnds, laneVars, taskVars
<1>8. ASSUME NEW t \in Tasks, Enqueue(t) PROVE [Service!Next]_(Service!vars)
  BY <1>8, EnqueueRefines DEF Enqueue
<1>9. ASSUME NEW t \in Tasks, EnqueueInner(t) PROVE [Service!Next]_(Service!vars)
  BY <1>9, EnqueueRefines, CommandQueueAssumption DEF EnqueueInner
<1>10. ASSUME NEW t \in Tasks, TaskSettles(t) PROVE [Service!Next]_(Service!vars)
  <2>1. Outcomes(t) \subseteq {"resolved", "rejected"}
    BY DEF Outcomes
  <2> QED BY <1>10, <2>1, CompleteRefines DEF TaskSettles
<1>11. CASE markGatewayDraining
  BY <1>11, <1>u DEF markGatewayDraining, laneVars, taskVars
<1>12. ASSUME NEW l \in Lanes, NEW n \in ConcurrencyInputs, setCommandLaneConcurrency(l, n)
       PROVE [Service!Next]_(Service!vars)
  <2>1. /\ maxConcurrent' = [maxConcurrent EXCEPT ![l] = atLeastOne(n)]
        /\ UNCHANGED <<queue, generation, status, taskGeneration>>
    BY <1>12 DEF setCommandLaneConcurrency, taskVars
  <2>2. atLeastOne(n) \in Nat \ {0} /\ maxConcurrent'[l] = atLeastOne(n)
    BY <2>1, CommandQueueAssumption DEF atLeastOne, TaskInv, TypeOK
  <2>3. InService' = InService /\ Accepted' = Accepted
    BY <2>1 DEF InService, Accepted, Current
  <2>4. Service!SetCap(l)
    BY <2>1, <2>2, <2>3 DEF Service!SetCap, InService, Accepted
  <2> QED BY <2>4 DEF Service!Next
<1>13. ASSUME NEW l \in Lanes, clearCommandLane(l) PROVE [Service!Next]_(Service!vars)
  <2>1. queue' = [queue EXCEPT ![l] = <<>>] /\ UNCHANGED maxConcurrent
    BY <1>13 DEF clearCommandLane
  <2>2. InService' = InService
    BY <1>13, ClearTask, InServiceUnchanged
  <2>3. Accepted' = Accepted
    <3>1. status' = [t \in Tasks |-> IF \E i \in 1..Len(queue[l]) : queue[l][i] = t
                                     THEN "cleared" ELSE status[t]]
      BY <1>13 DEF clearCommandLane
    <3>2. \A t \in Tasks : (\E i \in 1..Len(queue[l]) : queue[l][i] = t) => status[t] = "queued"
      BY DEF TaskInv, QueueExact
    <3> QED BY <3>1, <3>2 DEF Accepted
  <2>4. Service!Cancel(l)
    BY <2>1, <2>2, <2>3 DEF Service!Cancel, InService, Accepted
  <2> QED BY <2>4 DEF Service!Next
<1>14. CASE resetAllLanes
  <2>1. UNCHANGED <<queue, maxConcurrent, status>>
    BY <1>14 DEF resetAllLanes, taskVars
  <2>2. InService' = [l \in Lanes |-> {}] /\ Accepted' = Accepted
    BY <1>14, <2>1, ResetTask DEF InService, Accepted
  <2>3. Service!Restart
    BY <2>1, <2>2 DEF Service!Restart, InService, Accepted
  <2> QED BY <2>3 DEF Service!Next
<1>15. ASSUME NEW w \in Waiters, NEW timed \in BOOLEAN, waitForActiveTasks(w, timed)
       PROVE [Service!Next]_(Service!vars)
  BY <1>15, <1>u DEF waitForActiveTasks, laneVars, taskVars
<1>16. ASSUME NEW w \in Waiters, WaiterTimeout(w) PROVE [Service!Next]_(Service!vars)
  BY <1>16, <1>u DEF WaiterTimeout, laneVars, taskVars
<1>17. CASE UNCHANGED vars
  BY <1>17, <1>u DEF vars, laneVars, taskVars
<1> QED
  BY <1>1, <1>2, <1>3, <1>4, <1>5, <1>6, <1>7, <1>8, <1>9, <1>10, <1>11, <1>12, <1>13,
     <1>14, <1>15, <1>16, <1>17 DEF Next, Pumping, TaskStep, Caller

\* command-queue.ts implements LaneService: every lane starts the entries it accepted
\* in the order of acceptance, each at most once, and never while maxConcurrent
\* tasks of its generation are running.
THEOREM CommandQueueImplementsLaneService == Spec => RefinesLaneService
<1>1. Init => Service!Init
  <2> SUFFICES ASSUME Init PROVE Service!Init
    OBVIOUS
  <2>1. InService = [l \in Lanes |-> {}]
    BY DEF Init, InService, Current
  <2>2. Accepted = {}
    BY DEF Init, Accepted
  <2> QED BY <2>1, <2>2 DEF Init, Service!Init, InService, Accepted
<1> QED BY <1>1, InitTask, TaskInvStep, RefinesStep, PTL DEF Spec, RefinesLaneService, Service!Spec

-----------------------------------------------------------------------------
(* Waiters.  A task that a waiter has seen running is never started again, *)
(* so it only ends, or falls behind the generation of its lane.            *)

WaiterInv ==
  /\ TaskInv
  /\ WaitersExact
  /\ \A w \in Waiters : \A t \in waiter[w].ids : status[t] \notin {"idle", "queued"}

\* The tasks in the slots run in the present generation of their lane.
LEMMA PendingRuns ==
  ASSUME TaskInv, NEW ids \in SUBSET Tasks
  PROVE  hasPendingActiveTasks(ids, activeTaskIds) <=>
           \E t \in ids : status[t] = "running" /\ taskGeneration[t] = generation[LaneOf[t]]
<1>1. \A l \in Lanes, t \in Tasks :
        t \in activeTaskIds[l] <=> /\ LaneOf[t] = l /\ status[t] = "running"
                                   /\ taskGeneration[t] = generation[l]
  BY DEF TaskInv, SlotsExact, Current
<1>2. \A t \in Tasks : LaneOf[t] \in Lanes
  BY CommandQueueAssumption
<1> QED BY <1>1, <1>2 DEF hasPendingActiveTasks

\* A step that leaves the waiters alone: of the tasks they have seen none begins,
\* and outside a reset the slots only fill up.
LEMMA WaitersKept ==
  ASSUME WaiterInv, TaskInv', UNCHANGED waiter,
         \A t \in Tasks : status[t] \notin {"idle", "queued"} =>
           /\ status'[t] \notin {"idle", "queued"}
           /\ status'[t] = "running" => status[t] = "running"
           /\ taskGeneration'[t] = taskGeneration[t],
         \A l \in Lanes : generation[l] <= generation'[l],
         ~resetting' => ~resetting /\ \A l \in Lanes : activeTaskIds[l] \subseteq activeTaskIds'[l]
  PROVE  WaiterInv'
<1>1. \A w \in Waiters : waiter[w].ids \subseteq Tasks
  BY DEF WaiterInv, TaskInv, TypeOK, Waiter
<1>2. \A t \in Tasks : LaneOf[t] \in Lanes
  BY CommandQueueAssumption
<1>3. /\ \A t \in Tasks : taskGeneration[t] \in Nat
      /\ \A l \in Lanes : generation[l] \in Nat /\ generation'[l] \in Nat
  BY DEF WaiterInv, TaskInv, TypeOK
<1>4. ASSUME NEW w \in Waiters, NEW t \in waiter[w].ids, waiter[w].status = "drained",
             status'[t] = "running"
      PROVE  taskGeneration'[t] < generation'[LaneOf[t]]
  <2>1. t \in Tasks /\ status[t] = "running" /\ taskGeneration'[t] = taskGeneration[t]
    BY <1>1, <1>4 DEF WaiterInv
  <2>2. taskGeneration[t] < generation[LaneOf[t]]
    BY <1>4, <2>1 DEF WaiterInv, WaitersExact
  <2>3. LaneOf[t] \in Lanes
    BY <1>2, <2>1
  <2>4. generation[LaneOf[t]] <= generation'[LaneOf[t]]
    BY <2>3
  <2>5. taskGeneration[t] \in Nat /\ generation[LaneOf[t]] \in Nat /\ generation'[LaneOf[t]] \in Nat
    BY <1>3, <2>1, <2>3
  <2> QED BY <2>1, <2>2, <2>4, <2>5
<1>5. ASSUME NEW w \in Waiters, waiter[w].status = "waiting", ~resetting'
      PROVE  hasPendingActiveTasks(waiter[w].ids, activeTaskIds')
  <2>1. hasPendingActiveTasks(waiter[w].ids, activeTaskIds)
    BY <1>5 DEF WaiterInv, WaitersExact
  <2> QED BY <1>5, <2>1 DEF hasPendingActiveTasks
<1>6. \A w \in Waiters : \A t \in waiter'[w].ids : status'[t] \notin {"idle", "queued"}
  BY <1>1 DEF WaiterInv
<1>7. WaitersExact'
  BY <1>4, <1>5 DEF WaitersExact
<1> QED BY <1>6, <1>7 DEF WaiterInv

\* A step that notifies the waiters of the slots it leaves.
LEMMA WaitersNotified ==
  ASSUME WaiterInv, TaskInv', waiter' = notifyActiveTaskWaiters(activeTaskIds'),
         UNCHANGED <<taskGeneration, generation>>,
         \A t \in Tasks : status[t] \notin {"idle", "queued"} =>
           /\ status'[t] \notin {"idle", "queued"}
           /\ status'[t] = "running" => status[t] = "running"
  PROVE  WaiterInv'
<1>1. \A w \in Waiters : waiter[w] \in Waiter /\ waiter[w].ids \subseteq Tasks
  BY DEF WaiterInv, TaskInv, TypeOK, Waiter
<1>2. ASSUME NEW w \in Waiters
      PROVE  /\ waiter'[w].ids = waiter[w].ids
             /\ \/ /\ waiter[w].status = "waiting" /\ waiter'[w].status = "drained"
                   /\ ~hasPendingActiveTasks(waiter[w].ids, activeTaskIds')
                \/ /\ waiter'[w].status = waiter[w].status
                   /\ waiter[w].status = "waiting" =>
                        hasPendingActiveTasks(waiter[w].ids, activeTaskIds')
  <2>1. waiter'[w] = IF waiter[w].status = "waiting"
                          /\ ~hasPendingActiveTasks(waiter[w].ids, activeTaskIds')
                     THEN [waiter[w] EXCEPT !.status = "drained"] ELSE waiter[w]
    BY DEF notifyActiveTaskWaiters
  <2>2. /\ [waiter[w] EXCEPT !.status = "drained"].ids = waiter[w].ids
        /\ [waiter[w] EXCEPT !.status = "drained"].status = "drained"
    BY <1>1 DEF Waiter
  <2> QED BY <2>1, <2>2
<1>3. ASSUME NEW w \in Waiters, NEW t \in waiter'[w].ids, waiter'[w].status = "drained",
             status'[t] = "running"
      PROVE  taskGeneration'[t] < generation'[LaneOf[t]]
  <2>1. t \in Tasks /\ t \in waiter[w].ids /\ status[t] = "running"
    BY <1>1, <1>2, <1>3 DEF WaiterInv
  <2>2. CASE waiter[w].status = "drained"
    BY <2>1, <2>2 DEF WaiterInv, WaitersExact
  <2>3. CASE waiter[w].status # "drained"
    <3>1. ~hasPendingActiveTasks(waiter[w].ids, activeTaskIds')
      BY <1>2, <1>3, <2>3
    <3>2. waiter[w].ids \in SUBSET Tasks
      BY <1>1
    <3>3. taskGeneration'[t] # generation'[LaneOf[t]]
      <4>1. \A l \in Lanes : t \notin activeTaskIds'[l]
        BY <2>1, <3>1 DEF hasPendingActiveTasks
      <4>2. LaneOf[t] \in Lanes
        BY <2>1, CommandQueueAssumption
      <4>3. activeTaskIds'[LaneOf[t]] = Current(LaneOf[t])'
        BY <4>2 DEF TaskInv, SlotsExact
      <4> QED BY <1>3, <2>1, <4>1, <4>2, <4>3 DEF Current
    <3>4. taskGeneration'[t] <= generation'[LaneOf[t]]
      BY <2>1 DEF TaskInv
    <3>5. taskGeneration'[t] \in Nat /\ generation'[LaneOf[t]] \in Nat
      BY <2>1, CommandQueueAssumption DEF TaskInv, TypeOK
    <3> QED BY <3>3, <3>4, <3>5
  <2> QED BY <2>2, <2>3
<1>4. \A w \in Waiters : waiter'[w].status = "waiting" =>
        hasPendingActiveTasks(waiter'[w].ids, activeTaskIds')
  BY <1>2
<1>5. \A w \in Waiters : \A t \in waiter'[w].ids : status'[t] \notin {"idle", "queued"}
  BY <1>1, <1>2 DEF WaiterInv
<1>6. WaitersExact'
  BY <1>3, <1>4 DEF WaitersExact
<1> QED BY <1>5, <1>6 DEF WaiterInv

\* One waiter is set.
LEMMA WaiterSet ==
  ASSUME WaiterInv, TaskInv', NEW w \in Waiters, NEW v \in Waiter,
         waiter' = [waiter EXCEPT ![w] = v],
         UNCHANGED <<activeTaskIds, status, taskGeneration, generation, resetting>>,
         v.status # "drained" \/ v.ids = {},
         v.status = "waiting" => hasPendingActiveTasks(v.ids, activeTaskIds),
         \A t \in v.ids : status[t] \notin {"idle", "queued"}
  PROVE  WaiterInv'
<1>1. \A u \in Waiters : waiter'[u] = IF u = w THEN v ELSE waiter[u]
  BY DEF WaiterInv, TaskInv, TypeOK
<1>2. WaitersExact'
  BY <1>1 DEF WaiterInv, WaitersExact
<1> QED BY <1>1, <1>2 DEF WaiterInv

\* Every step keeps what holds of the waiters.
LEMMA WaiterStep == WaiterInv /\ [Next]_vars => WaiterInv'
<1> SUFFICES ASSUME WaiterInv, [Next]_vars PROVE WaiterInv'
  OBVIOUS
<1>t. TaskInv /\ TaskInv' /\ TypeOK
  BY TaskInvStep DEF WaiterInv, TaskInv
<1>g. \A l \in Lanes : generation[l] \in Nat /\ generation[l] <= generation[l]
  BY <1>t DEF TypeOK
<1>u. ASSUME UNCHANGED <<activeTaskIds, status, taskGeneration, generation, resetting, waiter>>
      PROVE  WaiterInv'
  BY <1>t, <1>g, <1>u, WaitersKept
<1>e. ASSUME NEW t \in Tasks, enqueueCommandInLane(t) PROVE WaiterInv'
  <2>1. /\ status[t] = "idle" /\ \E s \in Status : status' = [status EXCEPT ![t] = s]
        /\ UNCHANGED <<activeTaskIds, taskGeneration, generation, resetting, waiter>>
    BY <1>e DEF enqueueCommandInLane, Status, Settled
  <2>2. \A u \in Tasks : u # t => status'[u] = status[u]
    BY <2>1, <1>t DEF TypeOK
  <2> QED BY <1>t, <1>g, <2>1, <2>2, WaitersKept
<1>c. ASSUME NEW t \in Tasks, status[t] = "running", NEW outcome \in Settled,
             completeTask(t, outcome)
      PROVE  WaiterInv'
  <2>1. /\ status' = [status EXCEPT ![t] = outcome]
        /\ UNCHANGED <<taskGeneration, generation, resetting>>
    BY <1>c DEF completeTask
  <2>2. \A u \in Tasks : status'[u] = IF u = t THEN outcome ELSE status[u]
    BY <2>1, <1>t DEF TypeOK
  <2>3. outcome \notin {"idle", "queued", "running"}
    BY DEF Settled
  <2>4. CASE taskGeneration[t] = generation[LaneOf[t]]
    <3>1. waiter' = notifyActiveTaskWaiters(activeTaskIds')
      BY <1>c, <2>4 DEF completeTask
    <3> QED BY <1>t, <2>1, <2>2, <2>3, <3>1, WaitersNotified
  <2>5. CASE taskGeneration[t] # generation[LaneOf[t]]
    <3>1. UNCHANGED <<activeTaskIds, waiter>>
      BY <1>c, <2>5 DEF completeTask
    <3> QED BY <1>t, <1>g, <2>1, <2>2, <2>3, <3>1, WaitersKept
  <2> QED BY <2>4, <2>5
<1>1. CASE PumpStart
  <2> DEFINE l == Top
             t == Head(queue[Top])
  <2>1. l \in Lanes /\ t \in Tasks /\ queue[l] # <<>>
    BY <1>1, <1>t, PumpStartTask DEF PumpStart, HasSlot
  <2>2. status[t] = "queued"
    <3>1. queue[l] \in Seq(Tasks)
      BY <1>t, <2>1 DEF TypeOK
    <3>2. t = queue[l][1] /\ 1 \in 1..Len(queue[l])
      BY <2>1, <3>1, TailElements
    <3> QED BY <1>t, <2>1, <3>2 DEF TaskInv, QueueExact
  <2>3. /\ activeTaskIds' = [activeTaskIds EXCEPT ![l] = @ \cup {t}]
        /\ status' = [status EXCEPT ![t] = "running"]
        /\ taskGeneration' = [taskGeneration EXCEPT ![t] = generation[l]]
        /\ UNCHANGED <<generation, waiter, resetting>>
    BY <1>1 DEF PumpStart
  <2> HIDE DEF l, t
  <2>4. \A u \in Tasks : u # t =>
          status'[u] = status[u] /\ taskGeneration'[u] = taskGeneration[u]
    BY <1>t, <2>3 DEF TypeOK
  <2>5. \A k \in Lanes : activeTaskIds[k] \subseteq activeTaskIds'[k]
    BY <1>t, <2>3 DEF TypeOK
  <2>6. \A u \in Tasks : status[u] \notin {"idle", "queued"} =>
          /\ status'[u] \notin {"idle", "queued"}
          /\ status'[u] = "running" => status[u] = "running"
          /\ taskGeneration'[u] = taskGeneration[u]
    BY <2>2, <2>4
  <2> QED BY <1>t, <1>g, <2>3, <2>5, <2>6, WaitersKept
<1>2. CASE PumpEnd
  BY <1>2, <1>u DEF PumpEnd, taskVars
<1>3. CASE TaskYields
  BY <1>3, <1>u DEF TaskYields, laneVars, taskVars
<1>4. CASE TaskEnqueuesInner
  BY <1>4, <1>e, CommandQueueAssumption DEF TaskEnqueuesInner
<1>5. CASE TaskThrows
  BY <1>5, <1>t, <1>c DEF TaskThrows, TaskInv, TypeOK, Settled
<1>6. CASE ResetDrains
  BY <1>6, <1>u DEF ResetDrains, taskVars
<1>7. CASE ResetEnds
  <2>1. /\ waiter' = notifyActiveTaskWaiters(activeTaskIds')
        /\ UNCHANGED <<status, taskGeneration, generation>>
    BY <1>7 DEF ResetEnds, laneVars, taskVars
  <2> QED BY <1>t, <2>1, WaitersNotified
<1>8. ASSUME NEW t \in Tasks, Enqueue(t) PROVE WaiterInv'
  BY <1>8, <1>e DEF Enqueue
<1>9. ASSUME NEW t \in Tasks, EnqueueInner(t) PROVE WaiterInv'
  BY <1>9, <1>e, CommandQueueAssumption DEF EnqueueInner
<1>10. ASSUME NEW t \in Tasks, TaskSettles(t) PROVE WaiterInv'
  <2>1. Outcomes(t) \subseteq Settled
    BY DEF Outcomes, Settled
  <2> QED BY <1>10, <1>c, <2>1 DEF TaskSettles
<1>11. CASE markGatewayDraining
  BY <1>11, <1>u DEF markGatewayDraining, laneVars, taskVars, callVars
<1>12. ASSUME NEW l \in Lanes, NEW n \in ConcurrencyInputs, setCommandLaneConcurrency(l, n)
       PROVE WaiterInv'
  BY <1>12, <1>u DEF setCommandLaneConcurrency, taskVars
<1>13. ASSUME NEW l \in Lanes, clearCommandLane(l) PROVE WaiterInv'
  <2>1. UNCHANGED <<activeTaskIds, taskGeneration, generation, resetting, waiter>>
    BY <1>13 DEF clearCommandLane, callVars
  <2>2. \A t \in Tasks : status'[t] \in {status[t], "cleared"}
    BY <1>13 DEF clearCommandLane
  <2> QED BY <1>t, <1>g, <2>1, <2>2, WaitersKept
<1>14. CASE resetAllLanes
  <2>1. /\ UNCHANGED <<status, taskGeneration, waiter>> /\ resetting'
        /\ generation' = [l \in Lanes |-> generation[l] + 1]
    BY <1>14 DEF resetAllLanes, taskVars
  <2>2. \A l \in Lanes : generation[l] <= generation'[l]
    BY <1>g, <2>1
  <2> QED BY <1>t, <2>1, <2>2, WaitersKept
<1>15. ASSUME NEW w \in Waiters, NEW timed \in BOOLEAN, waitForActiveTasks(w, timed)
       PROVE WaiterInv'
  <2> DEFINE ids == UNION {activeTaskIds[l] : l \in Lanes}
             v == [status |-> IF ids = {} THEN "drained"
                              ELSE IF timed THEN "waiting" ELSE "timeout",
                   ids |-> ids]
  <2>1. /\ waiter' = [waiter EXCEPT ![w] = v]
        /\ UNCHANGED <<activeTaskIds, status, taskGeneration, generation, resetting>>
    BY <1>15 DEF waitForActiveTasks, laneVars, taskVars, callVars
  <2>2. \A l \in Lanes : activeTaskIds[l] = Current(l)
    BY <1>t DEF TaskInv, SlotsExact
  <2>3. ids \subseteq Tasks /\ \A t \in ids : status[t] = "running"
    BY <2>2 DEF Current
  <2>4. ids # {} => hasPendingActiveTasks(ids, activeTaskIds)
    BY DEF hasPendingActiveTasks
  <2> HIDE DEF ids
  <2>5. v \in Waiter /\ v.ids = ids
        /\ (v.status # "drained" \/ ids = {}) /\ (v.status = "waiting" => ids # {})
    BY <2>3 DEF Waiter
  <2> HIDE DEF v
  <2> QED BY <1>t, <2>1, <2>3, <2>4, <2>5, WaiterSet
<1>16. ASSUME NEW w \in Waiters, WaiterTimeout(w) PROVE WaiterInv'
  <2> DEFINE v == [waiter[w] EXCEPT !.status = "timeout"]
  <2>1. /\ waiter' = [waiter EXCEPT ![w] = v]
        /\ UNCHANGED <<activeTaskIds, status, taskGeneration, generation, resetting>>
    BY <1>16, <1>t DEF WaiterTimeout, laneVars, taskVars, callVars, TypeOK
  <2>2. v \in Waiter /\ v.status = "timeout" /\ v.ids = waiter[w].ids
    BY <1>t DEF TypeOK, Waiter
  <2>3. \A t \in waiter[w].ids : status[t] \notin {"idle", "queued"}
    BY DEF WaiterInv
  <2> HIDE DEF v
  <2> QED BY <1>t, <2>1, <2>2, <2>3, WaiterSet
<1>17. CASE UNCHANGED vars
  BY <1>17, <1>u DEF vars, laneVars, taskVars, callVars
<1> QED
  BY <1>1, <1>2, <1>3, <1>4, <1>5, <1>6, <1>7, <1>8, <1>9, <1>10, <1>11, <1>12, <1>13,
     <1>14, <1>15, <1>16, <1>17 DEF Next, Pumping, TaskStep, Caller

\* Nobody waits at first.
LEMMA InitWaiters == Init => WaiterInv
<1> SUFFICES ASSUME Init PROVE WaiterInv
  OBVIOUS
<1>1. \A w \in Waiters : waiter[w].status = "idle" /\ waiter[w].ids = {}
  BY DEF Init
<1> QED BY <1>1, InitTask DEF WaiterInv, WaitersExact

\* waitForActiveTasks says "drained" only when every task it saw has ended or was
\* given up by a reset, and keeps waiting only while one of them holds its slot.
THEOREM WaitersCorrect == Spec => []WaitersExact
<1>1. WaiterInv => WaitersExact
  BY DEF WaiterInv
<1> QED BY <1>1, InitWaiters, WaiterStep, PTL DEF Spec
=============================================================================
