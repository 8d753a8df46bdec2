------------------------ MODULE ChannelManagerProofs -------------------------
(***************************************************************************)
(* Proofs about ChannelManager, for every set of calls and every value of  *)
(* the bounds.                                                             *)
(***************************************************************************)
EXTENDS ChannelManager, FiniteSetTheorems, WellFoundedInduction, TLAPS

Pcs == {"unused", "config", "boot", "failing", "live", "cleanup", "backoff", "nested",
        "ended", "refused"}
AttemptRecords == [pc : Pcs, auto : BOOLEAN, gate : {None} \cup Attempts]
CallPcs == {"idle", "stopHook", "stopWait", "toStart", "markOut", "startWait", "done"}
CallRecords == [op : Ops \cup {"none"}, pc : CallPcs, waits : {None} \cup Attempts]

\* Attempts that have reserved the account, that have a task, and both.
Reserving == {"config", "boot"}
Tasked == {"live", "cleanup", "backoff"}
Active == Reserving \cup Tasked

\* The maps say which attempt has the account: the one that reserves it is the
\* one in starting, a task is the one in tasks, never both at a time; and what can
\* still serve is in aborts unless it was aborted.  Lost attempts are left out.
MapsInv ==
  /\ \A k \in Attempts : attempt[k].pc \in Reserving <=> starting = k
  /\ starting # None => tasks = None
  /\ \A k \in Attempts : tasks = k => attempt[k].pc \in Tasked
  /\ \A k \in Attempts \ lost :
       /\ attempt[k].pc \in Tasked => tasks = k
       /\ attempt[k].pc \in Active => aborts = k \/ k \in aborted

\* Call c waits in its stop, and the attempt it waits for, if any, has ended.
InStop(c) == call[c].pc = "stopWait"
Over(c) == call[c].waits = None \/ attempt[call[c].waits].pc = "ended"

\* Without a stopAccount hook, no start gets between a stop and its return: while a
\* stop waits, what is in the maps is aborted; overlapping stops wait for the same
\* task, and are over at the same time.
StopInv ==
  ~stopHook =>
    /\ lost \subseteq aborted
    /\ \A c \in Calls : call[c].pc # "stopHook"
    /\ \A c \in Calls : InStop(c) =>
         /\ aborts = None \/ aborts \in aborted
         /\ tasks = None \/ tasks \in aborted
         /\ ~Over(c) => tasks = call[c].waits
    /\ \A c, d \in Calls : InStop(c) /\ InStop(d) /\ Over(c) => Over(d)

\* After a stop all that could serve is aborted, but for what the stop has lost.
WantedInv ==
  ~wanted /\ (stopHook => lost = {}) =>
    \A k \in Attempts : attempt[k].pc \in Active => k \in aborted

ChannelInv == TypeOK /\ MapsInv /\ StopInv /\ WantedInv

-----------------------------------------------------------------------------
(* The operators.                                                          *)

\* The number of the next attempt is one that is not in use.
LEMMA NextAttemptUnused ==
  ASSUME Unused # {}
  PROVE  NextAttempt \in Attempts /\ attempt[NextAttempt].pc = "unused"
<1> DEFINE R == OpToRel(<, Nat)
<1>1. Unused \subseteq Nat /\ \A k \in Unused : k \in Attempts /\ attempt[k].pc = "unused"
  BY DEF Unused, InState, Attempts
<1>2. IsWellFoundedOn(R, Nat)
  BY NatLessThanWellFounded
<1>3. \A k, n \in Nat : k < n => <<k, n>> \in R
  BY DEF OpToRel
<1> HIDE DEF R
<1>4. PICK k \in Unused : \A n \in Unused : ~(<<n, k>> \in R)
  BY <1>1, <1>2, WFMin
<1>5. ASSUME NEW n \in Unused PROVE k <= n
  <2>1. k \in Nat /\ n \in Nat
    BY <1>1
  <2>2. ~(n < k)
    BY <1>3, <1>4, <2>1
  <2> QED BY <2>1, <2>2
<1>6. NextAttempt \in Unused
  BY <1>5 DEF NextAttempt
<1> QED BY <1>1, <1>6

\* Facts that the type invariant gives, in the words of this module.
LEMMA TypeFacts ==
  TypeOK <=>
    /\ stopHook \in BOOLEAN /\ manuallyStopped \in BOOLEAN
    /\ attempt \in [Attempts -> AttemptRecords]
    /\ starting \in {None} \cup Attempts /\ aborts \in {None} \cup Attempts
    /\ tasks \in {None} \cup Attempts
    /\ aborted \subseteq Attempts /\ lost \subseteq Attempts
    /\ restartAttempts \in Nat
    /\ runtime \in [running : BOOLEAN, restartPending : BOOLEAN]
    /\ call \in [Calls -> CallRecords]
BY DEF TypeOK, AttemptRecords, Pcs, CallRecords, CallPcs

\* No attempt has the number that stands for none.
LEMMA NoneNoAttempt == None \notin Attempts
BY DEF None, Attempts

\* One attempt moves on.
LEMMA GotoFields ==
  ASSUME TypeOK, NEW k \in Attempts, NEW pc \in Pcs, Goto(k, pc)
  PROVE  /\ attempt' \in [Attempts -> AttemptRecords]
         /\ \A j \in Attempts : attempt'[j].pc = IF j = k THEN pc ELSE attempt[j].pc
<1>1. attempt \in [Attempts -> AttemptRecords]
  BY TypeFacts
<1>2. /\ [attempt[k] EXCEPT !.pc = pc] \in AttemptRecords
      /\ [attempt[k] EXCEPT !.pc = pc].pc = pc
  BY <1>1 DEF AttemptRecords
<1>3. attempt' = [attempt EXCEPT ![k] = [attempt[k] EXCEPT !.pc = pc]]
  BY DEF Goto
<1> QED BY <1>1, <1>2, <1>3

\* A reservation.
LEMMA ReserveFields ==
  ASSUME NEW att \in [Attempts -> AttemptRecords], NEW auto \in BOOLEAN,
         Reserve(att, auto)
  PROVE  /\ attempt' \in [Attempts -> AttemptRecords]
         /\ NextAttempt \in Attempts /\ attempt[NextAttempt].pc = "unused"
         /\ \A j \in Attempts :
              attempt'[j].pc = IF j = NextAttempt THEN "config" ELSE att[j].pc
         /\ starting' = NextAttempt /\ aborts' = NextAttempt
<1>1. NextAttempt \in Attempts /\ attempt[NextAttempt].pc = "unused"
  BY NextAttemptUnused DEF Reserve
<1>2. [pc |-> "config", auto |-> auto, gate |-> None] \in AttemptRecords
  BY DEF AttemptRecords, Pcs
<1> QED BY <1>1, <1>2 DEF Reserve

\* One call moves on.
LEMMA CallFields ==
  ASSUME TypeOK, NEW c \in Calls, NEW v \in CallRecords, call' = [call EXCEPT ![c] = v]
  PROVE  /\ call' \in [Calls -> CallRecords]
         /\ \A d \in Calls : call'[d] = IF d = c THEN v ELSE call[d]
BY TypeFacts

-----------------------------------------------------------------------------
(* The steps of an attempt.                                                *)

\* An attempt that moves on as one that keeps its place in the maps, or leaves
\* both its place and the states in which it can serve.
LEMMA MovePcInv ==
  ASSUME ChannelInv, NEW k \in Attempts, NEW pc \in Pcs,
         \A j \in Attempts : attempt'[j].pc = IF j = k THEN pc ELSE attempt[j].pc,
         attempt[k].pc # "unused", attempt[k].pc # "ended",
         UNCHANGED <<stopHook, aborted, call, wanted, lost>>,
         pc \in Active => attempt[k].pc \in Active,
         attempt[k].pc \in Tasked => pc \in Tasked \/ pc = "ended" \/ k \notin aborted,
         \/ /\ pc \in Tasked <=> attempt[k].pc \in Tasked
            /\ pc \in Reserving <=> attempt[k].pc \in Reserving
            /\ UNCHANGED tasks /\ UNCHANGED starting
            /\ aborts' = IF pc \in Active THEN aborts ELSE Without(aborts, k)
         \/ /\ pc \notin Active
            /\ tasks' = Without(tasks, k) /\ starting' = Without(starting, k)
            /\ aborts' \in {aborts, Without(aborts, k)}
  PROVE  MapsInv' /\ StopInv' /\ WantedInv'
<1>1. \A j \in Attempts : attempt'[j].pc = IF j = k THEN pc ELSE attempt[j].pc
  OBVIOUS
<1>2. /\ starting \in {None} \cup Attempts /\ aborts \in {None} \cup Attempts
      /\ tasks \in {None} \cup Attempts /\ None \notin Attempts
      /\ \A c \in Calls : call[c].waits \in {None} \cup Attempts
  BY TypeFacts, NoneNoAttempt DEF ChannelInv, CallRecords
<1>3. MapsInv'
  BY <1>1, <1>2 DEF ChannelInv, MapsInv, Without, Active, Reserving, Tasked
<1>4. StopInv'
  <2> SUFFICES ASSUME ~stopHook PROVE StopInv'
    BY DEF StopInv
  <2>1. aborts' \in {aborts, None} /\ tasks' \in {tasks, None}
    BY DEF Without
  <2>2. \A c \in Calls : Over(c) => Over(c)'
    BY <1>1, <1>2 DEF Over
  <2>3. ASSUME NEW c \in Calls, InStop(c), ~Over(c), tasks' # call[c].waits
        PROVE  call[c].waits = k /\ pc = "ended"
    <3>1. tasks = call[c].waits /\ tasks \in aborted
      BY <1>2, <2>3 DEF ChannelInv, StopInv, Over
    <3>2. tasks = k /\ pc \notin Active
      BY <2>3, <3>1 DEF Without
    <3>3. attempt[k].pc \in Tasked
      BY <3>2 DEF ChannelInv, MapsInv
    <3> QED BY <3>1, <3>2, <3>3 DEF Active
  <2>4. ASSUME NEW c \in Calls, NEW d \in Calls, InStop(c), InStop(d), Over(c)'
        PROVE  Over(d)'
    <3>1. CASE Over(c)
      BY <2>2, <2>4, <3>1 DEF ChannelInv, StopInv
    <3>2. CASE ~Over(c) /\ ~Over(d)
      <4>1. call[c].waits = tasks /\ call[d].waits = tasks
        BY <2>4, <3>2 DEF ChannelInv, StopInv
      <4> QED BY <2>4, <4>1 DEF Over
    <3> QED BY <2>2, <3>1, <3>2
  <2>5. ASSUME NEW c \in Calls, InStop(c), ~Over(c)' PROVE tasks' = call[c].waits
    <3>1. ~Over(c)
      BY <2>2, <2>5
    <3>2. ~(call[c].waits = k /\ pc = "ended")
      BY <1>1, <2>5 DEF Over
    <3> QED BY <2>3, <2>5, <3>1, <3>2
  <2> QED BY <2>1, <2>4, <2>5 DEF ChannelInv, StopInv, InStop
<1>5. WantedInv'
  BY <1>1 DEF ChannelInv, WantedInv
<1> QED BY <1>3, <1>4, <1>5

\* So for a step that changes nothing else of the attempt.
LEMMA MoveInv ==
  ASSUME ChannelInv, NEW k \in Attempts, NEW pc \in Pcs, Goto(k, pc),
         attempt[k].pc # "unused", attempt[k].pc # "ended",
         UNCHANGED <<stopHook, aborted, call, wanted, lost>>,
         pc \in Active => attempt[k].pc \in Active,
         attempt[k].pc \in Tasked => pc \in Tasked \/ pc = "ended" \/ k \notin aborted,
         \/ /\ pc \in Tasked <=> attempt[k].pc \in Tasked
            /\ pc \in Reserving <=> attempt[k].pc \in Reserving
            /\ UNCHANGED tasks /\ UNCHANGED starting
            /\ aborts' = IF pc \in Active THEN aborts ELSE Without(aborts, k)
         \/ /\ pc \notin Active
            /\ tasks' = Without(tasks, k) /\ starting' = Without(starting, k)
            /\ aborts' \in {aborts, Without(aborts, k)}
  PROVE  MapsInv' /\ StopInv' /\ WantedInv'
<1>1. \A j \in Attempts : attempt'[j].pc = IF j = k THEN pc ELSE attempt[j].pc
  BY GotoFields DEF ChannelInv
<1> QED BY <1>1, MovePcInv

\* An attempt gives up before it has a task.
LEMMA GiveUpInv ==
  ASSUME ChannelInv, NEW k \in Attempts, attempt[k].pc \in Reserving, GiveUp(k),
         UNCHANGED <<stopHook, aborted, call, history>>,
         manuallyStopped' \in BOOLEAN, restartAttempts' \in Nat
  PROVE  ChannelInv'
<1>1. /\ Goto(k, "failing") /\ starting' = Without(starting, k) /\ runtime' = Stopped
      /\ UNCHANGED <<aborts, tasks>> /\ "failing" \in Pcs
  BY DEF GiveUp, Pcs
<1>2. starting = k /\ tasks = None /\ k # None
  BY NoneNoAttempt DEF ChannelInv, MapsInv
<1>3. MapsInv' /\ StopInv' /\ WantedInv'
  BY <1>1, <1>2, MoveInv DEF Active, Reserving, Tasked, Without, history
<1>4. attempt' \in [Attempts -> AttemptRecords]
  BY <1>1, GotoFields DEF ChannelInv
<1>5. TypeOK'
  BY <1>1, <1>4, TypeFacts DEF ChannelInv, Without, Stopped, TypeOK, AttemptRecords, Pcs,
     CallRecords, CallPcs, history
<1> QED BY <1>3, <1>5 DEF ChannelInv

\* A start is refused.
LEMMA RefusedStep ==
  ASSUME ChannelInv, NEW k \in Attempts, StartRefused(k)
  PROVE  ChannelInv'
<1>1. manuallyStopped' \in BOOLEAN /\ restartAttempts' \in Nat
  BY TypeFacts DEF StartRefused, ChannelInv
<1> QED BY <1>1, GiveUpInv DEF StartRefused, At, Reserving

\* The configuration of an attempt is known.
LEMMA ConfiguredStep ==
  ASSUME ChannelInv, NEW k \in Attempts, Configured(k)
  PROVE  ChannelInv'
<1>1. attempt[k].pc = "config" /\ manuallyStopped' \in BOOLEAN
      /\ UNCHANGED <<stopHook, aborted, call, history>>
  <2>1. attempt[k].auto \in BOOLEAN /\ manuallyStopped \in BOOLEAN
    BY TypeFacts DEF ChannelInv, AttemptRecords
  <2>2. MarkAfterStart(k) \in BOOLEAN
    BY <2>1 DEF MarkAfterStart
  <2> QED BY <2>2 DEF Configured, At
<1>2. CASE StartCancelled(k)
  <2>1. GiveUp(k) /\ restartAttempts' \in Nat
    BY <1>2, TypeFacts DEF Configured, ChannelInv
  <2> QED BY <1>1, <2>1, GiveUpInv DEF Reserving
<1>3. CASE ~StartCancelled(k)
  <2>1. /\ Goto(k, "boot") /\ UNCHANGED <<starting, aborts, tasks, runtime>>
        /\ restartAttempts' \in Nat /\ "boot" \in Pcs
    BY <1>3, TypeFacts DEF Configured, ChannelInv, entries, Pcs
  <2>2. MapsInv' /\ StopInv' /\ WantedInv'
    BY <1>1, <2>1, MoveInv DEF Active, Reserving, Tasked, history
  <2>3. attempt' \in [Attempts -> AttemptRecords]
    BY <2>1, GotoFields DEF ChannelInv
  <2>4. TypeOK'
    BY <1>1, <2>1, <2>3, TypeFacts DEF ChannelInv, TypeOK, AttemptRecords, Pcs,
       CallRecords, CallPcs, history
  <2> QED BY <2>2, <2>4 DEF ChannelInv
<1> QED BY <1>2, <1>3

\* A provider is started and tracked.
LEMMA HandOffStep ==
  ASSUME ChannelInv, NEW k \in Attempts, HandOff(k)
  PROVE  ChannelInv'
<1>1. /\ attempt[k].pc = "boot" /\ Goto(k, "live") /\ tasks' = k
      /\ starting' = Without(starting, k) /\ "live" \in Pcs
      /\ runtime' = [running |-> TRUE, restartPending |-> FALSE]
      /\ UNCHANGED <<stopHook, aborts, aborted, manuallyStopped, restartAttempts,
                     call, wanted, lost>>
  BY DEF HandOff, At, history, Pcs
<1>2. /\ starting = k /\ tasks = None /\ starting' = None /\ k # None
      /\ None \notin Attempts
  BY <1>1, NoneNoAttempt DEF ChannelInv, MapsInv, Reserving, Without
<1>3. /\ attempt' \in [Attempts -> AttemptRecords]
      /\ \A j \in Attempts : attempt'[j].pc = IF j = k THEN "live" ELSE attempt[j].pc
  BY <1>1, GotoFields DEF ChannelInv
<1>4. TypeOK'
  BY <1>1, <1>2, <1>3, TypeFacts DEF ChannelInv, TypeOK, AttemptRecords, Pcs,
     CallRecords, CallPcs
<1>5. MapsInv'
  BY <1>1, <1>2, <1>3 DEF ChannelInv, MapsInv, Active, Reserving, Tasked
<1>6. StopInv'
  <2> SUFFICES ASSUME ~stopHook PROVE StopInv'
    BY <1>1 DEF StopInv
  <2>1. \A c \in Calls : call[c].waits \in {None} \cup Attempts
    BY TypeFacts DEF ChannelInv, CallRecords
  <2>2. \A c \in Calls : Over(c)' <=> Over(c)
    BY <1>1, <1>3, <2>1 DEF Over
  <2>3. \A c \in Calls : InStop(c) => Over(c)
    <3> SUFFICES ASSUME NEW c \in Calls, InStop(c), ~Over(c) PROVE FALSE
      OBVIOUS
    <3>1. call[c].waits = None
      BY <1>2 DEF ChannelInv, StopInv
    <3> QED BY <3>1 DEF Over
  <2>4. ASSUME NEW c \in Calls, InStop(c) PROVE k \in aborted
    <3>1. aborts = None \/ aborts \in aborted
      BY <2>4 DEF ChannelInv, StopInv
    <3>2. k \in lost => k \in aborted
      BY DEF ChannelInv, StopInv
    <3>3. k \notin lost => aborts = k \/ k \in aborted
      BY <1>1 DEF ChannelInv, MapsInv, Active, Reserving
    <3> QED BY <1>2, <3>1, <3>2, <3>3
  <2> QED BY <1>1, <2>2, <2>3, <2>4 DEF ChannelInv, StopInv, InStop
<1>7. WantedInv'
  BY <1>1, <1>3 DEF ChannelInv, WantedInv, Active, Reserving, Tasked
<1> QED BY <1>4, <1>5, <1>6, <1>7 DEF ChannelInv

\* The cleanup of an attempt without a task is over.
LEMMA CleanedStep ==
  ASSUME ChannelInv, NEW k \in Attempts, FailureCleaned(k)
  PROVE  ChannelInv'
<1>1. /\ attempt[k].pc = "failing" /\ Goto(k, "refused") /\ "refused" \in Pcs
      /\ aborts' = Without(aborts, k)
      /\ UNCHANGED <<stopHook, starting, tasks, aborted, manuallyStopped, restartAttempts,
                     runtime, call, wanted, lost>>
  BY DEF FailureCleaned, At, Pcs, history
<1>2. MapsInv' /\ StopInv' /\ WantedInv'
  BY <1>1, MoveInv DEF Active, Reserving, Tasked
<1>3. attempt' \in [Attempts -> AttemptRecords]
  BY <1>1, GotoFields DEF ChannelInv
<1>4. TypeOK'
  BY <1>1, <1>3, TypeFacts DEF ChannelInv, Without, TypeOK, AttemptRecords, Pcs,
     CallRecords, CallPcs
<1> QED BY <1>2, <1>4 DEF ChannelInv

\* A provider exits.
LEMMA ProviderExitsStep ==
  ASSUME ChannelInv, NEW k \in Attempts, ProviderExits(k)
  PROVE  ChannelInv'
<1>1. /\ attempt[k].pc = "live" /\ Goto(k, "cleanup") /\ "cleanup" \in Pcs
      /\ UNCHANGED <<stopHook, starting, aborts, tasks, aborted, manuallyStopped,
                     restartAttempts, runtime, call, wanted, lost>>
  BY DEF ProviderExits, At, Pcs, history, entries
<1>2. MapsInv' /\ StopInv' /\ WantedInv'
  BY <1>1, MoveInv DEF Active, Reserving, Tasked
<1>3. attempt' \in [Attempts -> AttemptRecords]
  BY <1>1, GotoFields DEF ChannelInv
<1>4. TypeOK'
  BY <1>1, <1>3, TypeFacts DEF ChannelInv, TypeOK, AttemptRecords, Pcs,
     CallRecords, CallPcs
<1> QED BY <1>2, <1>4 DEF ChannelInv

\* A task that settles takes its own entries along.
LEMMA SettleInv ==
  ASSUME ChannelInv, NEW k \in Attempts, attempt[k].pc \in {"cleanup", "backoff", "nested"},
         Settle(k), UNCHANGED <<stopHook, aborted, manuallyStopped, call, history>>,
         restartAttempts' \in Nat,
         runtime' \in [running : BOOLEAN, restartPending : BOOLEAN]
  PROVE  ChannelInv'
<1>1. /\ Goto(k, "ended") /\ "ended" \in Pcs /\ tasks' = Without(tasks, k)
      /\ aborts' = Without(aborts, k) /\ UNCHANGED starting
  BY DEF Settle, Pcs
<1>2. starting' = Without(starting, k)
  BY <1>1 DEF ChannelInv, MapsInv, Reserving, Without
<1>3. MapsInv' /\ StopInv' /\ WantedInv'
  BY <1>1, <1>2, MoveInv DEF Active, Reserving, Tasked, history
<1>4. attempt' \in [Attempts -> AttemptRecords]
  BY <1>1, GotoFields DEF ChannelInv
<1>5. TypeOK'
  BY <1>1, <1>4, TypeFacts DEF ChannelInv, Without, TypeOK, AttemptRecords, Pcs,
     CallRecords, CallPcs, history
<1> QED BY <1>3, <1>5 DEF ChannelInv

\* The cleanup after a provider is over.
LEMMA ExitedStep ==
  ASSUME ChannelInv, NEW k \in Attempts, Exited(k)
  PROVE  ChannelInv'
<1>1. /\ attempt[k].pc = "cleanup"
      /\ UNCHANGED <<stopHook, aborted, manuallyStopped, call, history>>
  BY DEF Exited, At
<1>2. restartAttempts' \in Nat
      /\ runtime' \in [running : BOOLEAN, restartPending : BOOLEAN]
  <2>1. restartAttempts \in Nat /\ runtime \in [running : BOOLEAN, restartPending : BOOLEAN]
    BY TypeFacts DEF ChannelInv
  <2>2. (~GivesUp(restartAttempts + 1)) \in BOOLEAN /\ restartAttempts + 1 \in Nat
    BY <2>1
  <2>3. CASE manuallyStopped
    BY <2>1, <2>3 DEF Exited
  <2>4. CASE ~manuallyStopped
    <3>1. restartAttempts' = restartAttempts + 1
          /\ runtime' = [running |-> FALSE, restartPending |-> ~GivesUp(restartAttempts + 1)]
      BY <2>4 DEF Exited
    <3> QED BY <2>2, <3>1
  <2> QED BY <2>3, <2>4
<1>3. CASE Settle(k)
  BY <1>1, <1>2, <1>3, SettleInv
<1>4. CASE Goto(k, "backoff") /\ UNCHANGED <<starting, aborts, tasks>>
  <2>1. "backoff" \in Pcs
    BY DEF Pcs
  <2>2. MapsInv' /\ StopInv' /\ WantedInv'
    BY <1>1, <1>4, <2>1, MoveInv DEF Active, Reserving, Tasked, history
  <2>3. attempt' \in [Attempts -> AttemptRecords]
    BY <1>4, <2>1, GotoFields DEF ChannelInv
  <2>4. TypeOK'
    BY <1>1, <1>2, <1>4, <2>3, TypeFacts DEF ChannelInv, TypeOK, AttemptRecords, Pcs,
       CallRecords, CallPcs, history
  <2> QED BY <2>2, <2>4 DEF ChannelInv
<1>5. Settle(k) \/ (Goto(k, "backoff") /\ UNCHANGED <<starting, aborts, tasks>>)
  BY DEF Exited, entries
<1> QED BY <1>3, <1>4, <1>5

\* The sleep of the backoff is aborted, or the start made by the restart is over.
LEMMA BackoffAbortedStep ==
  ASSUME ChannelInv, NEW k \in Attempts, BackoffAborted(k) \/ NestedStartOver(k)
  PROVE  ChannelInv'
<1>1. /\ attempt[k].pc \in {"cleanup", "backoff", "nested"} /\ Settle(k)
      /\ UNCHANGED <<stopHook, aborted, manuallyStopped, restartAttempts, runtime,
                     call, history>>
  BY DEF BackoffAborted, NestedStartOver, At
<1>2. restartAttempts' \in Nat
      /\ runtime' \in [running : BOOLEAN, restartPending : BOOLEAN]
  BY <1>1, TypeFacts DEF ChannelInv
<1> QED BY <1>1, <1>2, SettleInv

\* The automatic restart: unless it settles, the task joins a start that is under
\* way, or reserves the account for its own.
LEMMA AutoRestartStep ==
  ASSUME ChannelInv, NEW k \in Attempts, AutoRestart(k)
  PROVE  ChannelInv'
<1>1. /\ attempt[k].pc = "backoff" /\ k \notin aborted
      /\ UNCHANGED <<stopHook, aborted, manuallyStopped, restartAttempts, runtime,
                     call, wanted, lost>>
  BY DEF AutoRestart, At, history
<1>2. CASE Settle(k)
  <2>1. restartAttempts' \in Nat
        /\ runtime' \in [running : BOOLEAN, restartPending : BOOLEAN]
    BY <1>1, TypeFacts DEF ChannelInv
  <2> QED BY <1>1, <1>2, <2>1, SettleInv DEF history
<1>3. CASE ~Settle(k)
  <2>1. Without(tasks, k) = None /\ tasks' = None
    BY <1>3 DEF AutoRestart
  <2>2. attempt \in [Attempts -> AttemptRecords] /\ starting \in {None} \cup Attempts
    BY TypeFacts DEF ChannelInv
  <2>3. ASSUME NEW g \in Attempts
        PROVE  LET att == [attempt EXCEPT ![k].pc = "nested", ![k].gate = g] IN
               /\ att \in [Attempts -> AttemptRecords]
               /\ \A j \in Attempts : att[j].pc = IF j = k THEN "nested" ELSE attempt[j].pc
    <3> DEFINE v == [attempt[k] EXCEPT !.pc = "nested", !.gate = g]
    <3>1. v \in AttemptRecords /\ v.pc = "nested"
      <4>1. attempt[k] \in AttemptRecords /\ "nested" \in Pcs /\ g \in {None} \cup Attempts
        BY <2>2 DEF Pcs
      <4> QED BY <4>1 DEF AttemptRecords
    <3>2. [attempt EXCEPT ![k].pc = "nested", ![k].gate = g] = [attempt EXCEPT ![k] = v]
      BY <2>2
    <3> HIDE DEF v
    <3> QED BY <2>2, <3>1, <3>2
  <2>4. CASE starting # None
    <3>1. /\ attempt' = [attempt EXCEPT ![k].pc = "nested", ![k].gate = starting]
          /\ aborts' = Without(aborts, k) /\ starting' = starting
      BY <1>3, <2>4 DEF AutoRestart
    <3>2. /\ attempt' \in [Attempts -> AttemptRecords]
          /\ \A j \in Attempts : attempt'[j].pc = IF j = k THEN "nested" ELSE attempt[j].pc
      BY <2>2, <2>3, <2>4, <3>1
    <3>3. /\ "nested" \in Pcs /\ starting' = Without(starting, k)
          /\ tasks' = Without(tasks, k)
      BY <1>1, <2>1, <3>1 DEF Pcs, Without, ChannelInv, MapsInv, Reserving
    <3>4. MapsInv' /\ StopInv' /\ WantedInv'
      BY <1>1, <3>1, <3>2, <3>3, MovePcInv DEF Active, Reserving, Tasked
    <3>5. TypeOK'
      BY <1>1, <2>1, <3>1, <3>2, TypeFacts DEF ChannelInv, Without, TypeOK, AttemptRecords,
         Pcs, CallRecords, CallPcs
    <3> QED BY <3>4, <3>5 DEF ChannelInv
  <2>5. CASE starting = None
    <3> DEFINE att == [attempt EXCEPT ![k].pc = "nested", ![k].gate = NextAttempt]
    <3>1. Reserve(att, TRUE)
      BY <1>3, <2>5 DEF AutoRestart
    <3>2. NextAttempt \in Attempts /\ attempt[NextAttempt].pc = "unused"
      BY <3>1, NextAttemptUnused DEF Reserve
    <3>3. /\ att \in [Attempts -> AttemptRecords]
          /\ \A j \in Attempts : att[j].pc = IF j = k THEN "nested" ELSE attempt[j].pc
      BY <2>3, <3>2
    <3> HIDE DEF att
    <3>4. PICK n \in Attempts : n = NextAttempt
      BY <3>2
    <3>5. /\ attempt' \in [Attempts -> AttemptRecords]
          /\ \A j \in Attempts :
               attempt'[j].pc = IF j = n THEN "config" ELSE IF j = k THEN "nested"
                                ELSE attempt[j].pc
          /\ starting' = n /\ aborts' = n /\ n # None
      BY <3>1, <3>3, <3>4, ReserveFields, NoneNoAttempt
    <3>6. \A j \in Attempts \ lost : attempt[j].pc \in Active => j = k
      BY <2>1, <2>5, NoneNoAttempt DEF ChannelInv, MapsInv, Active, Without
    <3>7. MapsInv'
      BY <1>1, <2>1, <2>5, <3>5, <3>6, NoneNoAttempt
         DEF ChannelInv, MapsInv, Active, Reserving, Tasked
    <3>8. StopInv'
      <4> SUFFICES ASSUME ~stopHook PROVE StopInv'
        BY <1>1 DEF StopInv
      <4>1. tasks = k /\ k # None
        BY <1>1, NoneNoAttempt DEF ChannelInv, StopInv, MapsInv, Tasked
      <4>2. \A c \in Calls : ~InStop(c)
        BY <1>1, <4>1 DEF ChannelInv, StopInv
      <4> QED BY <1>1, <4>2 DEF ChannelInv, StopInv, InStop
    <3>9. WantedInv'
      BY <1>1 DEF ChannelInv, WantedInv, Active, Tasked
    <3>10. TypeOK'
      BY <1>1, <2>1, <3>5, TypeFacts DEF ChannelInv, TypeOK, AttemptRecords,
         Pcs, CallRecords, CallPcs
    <3> QED BY <3>7, <3>8, <3>9, <3>10 DEF ChannelInv
  <2> QED BY <2>4, <2>5
<1> QED BY <1>2, <1>3

-----------------------------------------------------------------------------
(* The steps of a call.                                                    *)

\* A stop is ready to return when what it waits for has ended.
LEMMA ReadyOver ==
  ASSUME TypeOK, NEW c \in Calls
  PROVE  StopReady(c) <=> InStop(c) /\ Over(c)
<1>1. call[c].waits \in {None} \cup Attempts /\ None \notin Attempts
  BY TypeFacts, NoneNoAttempt DEF CallRecords
<1> QED BY <1>1 DEF StopReady, InState, InStop, Over

\* A call that goes on and does not wait in a stop.
LEMMA CallMoveInv ==
  ASSUME ChannelInv, NEW c \in Calls, NEW v \in CallRecords, call' = [call EXCEPT ![c] = v],
         v.pc # "stopWait", v.pc # "stopHook",
         UNCHANGED <<stopHook, attempt, starting, aborts, tasks, aborted, manuallyStopped,
                     lost>>,
         restartAttempts' \in Nat,
         runtime' \in [running : BOOLEAN, restartPending : BOOLEAN],
         (wanted' = wanted) \/ wanted'
  PROVE  ChannelInv'
<1>1. /\ call' \in [Calls -> CallRecords]
      /\ \A d \in Calls : call'[d] = IF d = c THEN v ELSE call[d]
  BY CallFields DEF ChannelInv
<1>2. \A d \in Calls : InStop(d)' => d # c /\ InStop(d) /\ (Over(d)' <=> Over(d))
  BY <1>1 DEF InStop, Over
<1>3. StopInv'
  BY <1>1, <1>2 DEF ChannelInv, StopInv, InStop
<1>4. MapsInv' /\ WantedInv'
  BY DEF ChannelInv, MapsInv, WantedInv
<1>5. TypeOK'
  BY <1>1, TypeFacts DEF ChannelInv, TypeOK, AttemptRecords, Pcs, CallRecords, CallPcs
<1> QED BY <1>3, <1>4, <1>5 DEF ChannelInv

\* A call starts the account, or waits for the start that is under way.
LEMMA StartChannelInv ==
  ASSUME ChannelInv, NEW c \in Calls, NEW op \in Ops \cup {"none"}, Quick,
         StartChannel(c, op)
  PROVE  ChannelInv'
<1>1. /\ wanted' = TRUE /\ restartAttempts' \in Nat
      /\ UNCHANGED <<stopHook, aborted, manuallyStopped, runtime, lost>>
  BY TypeFacts DEF StartChannel, ChannelInv
<1>2. runtime' \in [running : BOOLEAN, restartPending : BOOLEAN]
  BY <1>1, TypeFacts DEF ChannelInv
<1>3. CASE Reserved
  <2>1. PICK pc \in {"done", "startWait"} :
          call' = [call EXCEPT ![c] = [op |-> op, pc |-> pc, waits |-> starting]]
    BY <1>3 DEF StartChannel, Continue
  <2>2. [op |-> op, pc |-> pc, waits |-> starting] \in CallRecords
    BY TypeFacts DEF ChannelInv, CallRecords, CallPcs
  <2>3. UNCHANGED <<attempt, starting, aborts, tasks>>
    BY <1>3 DEF StartChannel, entries
  <2> QED BY <1>1, <1>2, <2>1, <2>2, <2>3, CallMoveInv
<1>4. CASE ~Reserved
  <2>1. /\ starting = None /\ tasks = None /\ tasks' = None /\ Reserve(attempt, FALSE)
        /\ call' = [call EXCEPT ![c] = [op |-> op, pc |-> "startWait", waits |-> NextAttempt]]
    BY <1>4 DEF StartChannel, Reserved, Continue
  <2>2. NextAttempt \in Attempts /\ attempt[NextAttempt].pc = "unused"
    BY <2>1, NextAttemptUnused DEF Reserve
  <2>3. PICK n \in Attempts : n = NextAttempt
    BY <2>2
  <2>4. /\ attempt' \in [Attempts -> AttemptRecords]
        /\ \A j \in Attempts :
             attempt'[j].pc = IF j = n THEN "config" ELSE attempt[j].pc
        /\ starting' = n /\ aborts' = n /\ n # None
    BY <2>1, <2>3, ReserveFields, TypeFacts, NoneNoAttempt DEF ChannelInv
  <2>5. [op |-> op, pc |-> "startWait", waits |-> NextAttempt] \in CallRecords
    BY <2>2 DEF CallRecords, CallPcs
  <2>6. /\ call' \in [Calls -> CallRecords]
        /\ \A d \in Calls : d # c => call'[d] = call[d]
        /\ call'[c].pc = "startWait"
    BY <2>1, <2>5, CallFields DEF ChannelInv
  <2>7. \A j \in Attempts \ lost : attempt[j].pc \notin Active
    BY <2>1, NoneNoAttempt DEF ChannelInv, MapsInv, Active
  <2>8. MapsInv'
    BY <1>1, <2>1, <2>4, <2>7, NoneNoAttempt
       DEF ChannelInv, MapsInv, Active, Reserving, Tasked
  <2>9. StopInv'
    <3> SUFFICES ASSUME ~stopHook PROVE StopInv'
      BY <1>1 DEF StopInv
    <3>1. ASSUME NEW d \in Calls, InStop(d) PROVE FALSE
      <4>1. ~Over(d)
        BY <3>1, ReadyOver DEF ChannelInv, Quick
      <4>2. call[d].waits = None
        BY <2>1, <3>1, <4>1 DEF ChannelInv, StopInv
      <4> QED BY <4>1, <4>2 DEF Over
    <3>2. \A d \in Calls : ~InStop(d)' /\ call'[d].pc # "stopHook"
      BY <2>6, <3>1 DEF InStop, ChannelInv, StopInv
    <3> QED BY <1>1, <3>2 DEF ChannelInv, StopInv
  <2>10. WantedInv'
    BY <1>1 DEF WantedInv
  <2>11. TypeOK'
    BY <1>1, <1>2, <2>1, <2>4, <2>6, TypeFacts DEF ChannelInv, TypeOK, AttemptRecords, Pcs,
       CallRecords, CallPcs
  <2> QED BY <2>8, <2>9, <2>10, <2>11 DEF ChannelInv
<1> QED BY <1>3, <1>4

\* All that can serve is aborted by a stop, or it was lost.
LEMMA SignalledActive ==
  ASSUME ChannelInv, NEW k \in Attempts, attempt[k].pc \in Active, k \notin lost \/ ~stopHook
  PROVE  k \in Signalled
BY NoneNoAttempt DEF ChannelInv, MapsInv, StopInv, Signalled

\* A call stops the account, up to its first wait.
LEMMA StopChannelInv ==
  ASSUME ChannelInv, NEW c \in Calls, NEW op \in Ops \cup {"none"}, Quick,
         StopChannel(c, op)
  PROVE  ChannelInv'
<1>1. /\ wanted' = FALSE
      /\ UNCHANGED <<stopHook, attempt, starting, aborts, tasks, restartAttempts, runtime,
                     lost>>
  BY DEF StopChannel, entries
<1>2. \/ /\ aborts = None /\ tasks = None /\ ~stopHook
         /\ Continue(c, op, AfterStop(op), None) /\ UNCHANGED <<aborted, manuallyStopped>>
      \/ /\ manuallyStopped' = TRUE /\ aborted' = Signalled
         /\ Continue(c, op, IF stopHook THEN "stopHook" ELSE "stopWait", tasks)
  BY DEF StopChannel
<1>3. PICK pc \in {"done", "markOut", "toStart", "stopHook", "stopWait"}, w \in {None, tasks} :
        /\ call' = [call EXCEPT ![c] = [op |-> op, pc |-> pc, waits |-> w]]
        /\ pc = "stopHook" => stopHook
        /\ pc = "stopWait" => w = tasks /\ aborted' = Signalled
  BY <1>2 DEF Continue, AfterStop
<1>4. manuallyStopped' \in BOOLEAN /\ aborted \subseteq aborted' /\ aborted' \subseteq Attempts
  BY <1>2, TypeFacts DEF ChannelInv, Signalled
<1>5. aborted' = Signalled
  BY <1>2 DEF Signalled
<1>6. [op |-> op, pc |-> pc, waits |-> w] \in CallRecords
  BY TypeFacts DEF ChannelInv, CallRecords, CallPcs
<1>7. /\ call' \in [Calls -> CallRecords]
      /\ \A d \in Calls : d # c => call'[d] = call[d]
      /\ call'[c].pc = pc /\ call'[c].waits = w
  BY <1>3, <1>6, CallFields DEF ChannelInv
<1>8. \A k \in Attempts : attempt[k].pc \in Active /\ (k \notin lost \/ ~stopHook) => k \in aborted'
  BY <1>5, SignalledActive
<1>9. MapsInv'
  BY <1>1, <1>4 DEF ChannelInv, MapsInv
<1>10. WantedInv'
  BY <1>1, <1>8 DEF WantedInv
<1>11. StopInv'
  <2> SUFFICES ASSUME ~stopHook PROVE StopInv'
    BY <1>1 DEF StopInv
  <2>1. \A d \in Calls : d # c /\ InStop(d) => ~Over(d) /\ tasks = call[d].waits
    BY ReadyOver DEF ChannelInv, Quick, StopInv
  <2>2. \A d \in Calls : d # c => (InStop(d)' <=> InStop(d)) /\ (Over(d)' <=> Over(d))
    BY <1>1, <1>7 DEF InStop, Over
  <2>3. tasks # None => attempt[tasks].pc \in Tasked /\ tasks \in Attempts
    BY TypeFacts DEF ChannelInv, MapsInv
  <2>4. tasks = None \/ tasks \in aborted'
    BY <1>8, <2>3 DEF Active
  <2>5. aborts = None \/ aborts \in aborted'
    BY <1>5 DEF Signalled
  <2>6. InStop(c)' => (Over(c)' <=> tasks = None)
    BY <1>1, <1>3, <1>7, <2>3 DEF InStop, Over, Tasked
  <2>7. \A d, e \in Calls : InStop(d)' /\ InStop(e)' /\ Over(d)' => Over(e)'
    <3> SUFFICES ASSUME NEW d \in Calls, NEW e \in Calls, InStop(d)', InStop(e)', Over(d)'
                 PROVE  Over(e)'
      OBVIOUS
    <3>1. d = c /\ tasks = None
      BY <2>1, <2>2, <2>6
    <3>2. CASE e = c
      BY <2>6, <3>1, <3>2
    <3>3. CASE e # c
      <4>1. ~Over(e) /\ call[e].waits = None
        BY <2>1, <2>2, <3>1, <3>3
      <4> QED BY <4>1 DEF Over
    <3> QED BY <3>2, <3>3
  <2>8. \A d \in Calls : InStop(d)' /\ ~Over(d)' => tasks = call'[d].waits
    BY <1>3, <1>7, <2>1, <2>2 DEF InStop
  <2>9. \A d \in Calls : call'[d].pc # "stopHook"
    BY <1>3, <1>7 DEF ChannelInv, StopInv
  <2>10. lost' \subseteq aborted'
    BY <1>1, <1>4 DEF ChannelInv, StopInv
  <2> QED BY <1>1, <2>4, <2>5, <2>7, <2>8, <2>9, <2>10 DEF StopInv
<1>12. TypeOK'
  BY <1>1, <1>4, <1>7, TypeFacts DEF ChannelInv, TypeOK, AttemptRecords, Pcs,
     CallRecords, CallPcs
<1> QED BY <1>9, <1>10, <1>11, <1>12 DEF ChannelInv

\* The hook of the plugin returns or throws.
LEMMA HookStep ==
  ASSUME ChannelInv, NEW c \in Calls, HookReturns(c) \/ HookThrows(c)
  PROVE  ChannelInv'
<1>1. /\ call[c].pc = "stopHook"
      /\ UNCHANGED <<stopHook, attempt, starting, aborts, tasks, aborted, manuallyStopped,
                     restartAttempts, runtime, wanted, lost>>
  BY DEF HookReturns, HookThrows, entries, history
<1>2. stopHook /\ call[c] \in CallRecords /\ call \in [Calls -> CallRecords]
  BY <1>1, TypeFacts DEF ChannelInv, StopInv
<1>3. call' \in [Calls -> CallRecords]
  <2>1. [call[c] EXCEPT !.pc = "stopWait"] \in CallRecords
    BY <1>2 DEF CallRecords, CallPcs
  <2>2. [call[c] EXCEPT !.pc = "done", !.waits = None] \in CallRecords
    BY <1>2 DEF CallRecords, CallPcs
  <2>3. \/ call' = [call EXCEPT ![c] = [call[c] EXCEPT !.pc = "stopWait"]]
        \/ call' = [call EXCEPT ![c] = [call[c] EXCEPT !.pc = "done", !.waits = None]]
    BY <1>2 DEF HookReturns, HookThrows
  <2> QED BY <1>2, <2>1, <2>2, <2>3
<1>4. MapsInv' /\ StopInv' /\ WantedInv'
  BY <1>1, <1>2 DEF ChannelInv, MapsInv, StopInv, WantedInv
<1>5. TypeOK'
  BY <1>1, <1>3, TypeFacts DEF ChannelInv, TypeOK, AttemptRecords, Pcs, CallRecords, CallPcs
<1> QED BY <1>4, <1>5 DEF ChannelInv

\* A call that leaves its wait, for a place where it does not wait in a stop.
LEMMA LeaveFields ==
  ASSUME ChannelInv, NEW c \in Calls, NEW pc \in {"done", "markOut", "toStart"},
         call' = [call EXCEPT ![c].pc = pc, ![c].waits = None]
  PROVE  \E v \in CallRecords : v.pc = pc /\ call' = [call EXCEPT ![c] = v]
<1> DEFINE v == [call[c] EXCEPT !.pc = pc, !.waits = None]
<1>1. call[c] \in CallRecords /\ call \in [Calls -> CallRecords]
  BY TypeFacts DEF ChannelInv
<1>2. v \in CallRecords /\ v.pc = pc
  <2>1. pc \in CallPcs
    BY DEF CallPcs
  <2> QED BY <1>1, <2>1 DEF CallRecords
<1>3. call' = [call EXCEPT ![c] = v]
  BY <1>1
<1> HIDE DEF v
<1> QED BY <1>2, <1>3

\* Where a call goes on after its stop.
LEMMA AfterStopType == \A op : AfterStop(op) \in {"done", "markOut", "toStart"}
BY DEF AfterStop

\* A stop returns after the end of its task.
LEMMA StopReturnsStep ==
  ASSUME ChannelInv, NEW c \in Calls, StopReturns(c)
  PROVE  ChannelInv'
<1>1. /\ InStop(c) /\ Over(c) /\ aborts' = None /\ tasks' = None /\ runtime' = Stopped
      /\ lost' = lost \cup ({tasks} \ {None, call[c].waits})
                      \cup ({aborts} \ ({None} \cup aborted))
      /\ UNCHANGED <<stopHook, attempt, starting, aborted, manuallyStopped,
                     restartAttempts, wanted>>
  BY ReadyOver DEF StopReturns, ChannelInv
<1>2. PICK pc \in {"done", "markOut", "toStart"} :
        call' = [call EXCEPT ![c].pc = pc, ![c].waits = None]
  BY AfterStopType DEF StopReturns
<1>3. /\ call' \in [Calls -> CallRecords] /\ call'[c].pc = pc
      /\ \A d \in Calls : d # c => call'[d] = call[d]
  <2>1. PICK v \in CallRecords : v.pc = pc /\ call' = [call EXCEPT ![c] = v]
    BY <1>2, LeaveFields
  <2> QED BY <2>1, CallFields DEF ChannelInv
<1>4. /\ tasks \in {None} \cup Attempts /\ aborts \in {None} \cup Attempts
      /\ lost \subseteq lost' /\ lost' \subseteq Attempts /\ None \notin Attempts
  BY <1>1, TypeFacts, NoneNoAttempt DEF ChannelInv
<1>5. MapsInv'
  <2>1. ASSUME NEW k \in Attempts \ lost' PROVE attempt[k].pc \notin Tasked
    <3> SUFFICES ASSUME attempt[k].pc \in Tasked PROVE FALSE
      OBVIOUS
    <3>1. tasks = k
      BY <1>4, <2>1 DEF ChannelInv, MapsInv
    <3>2. call[c].waits = k
      BY <1>1, <1>4, <2>1, <3>1
    <3> QED BY <1>1, <1>4, <3>2 DEF Over, Tasked
  <2>2. ASSUME NEW k \in Attempts \ lost', attempt[k].pc \in Active PROVE k \in aborted
    BY <1>1, <1>4, <2>2 DEF ChannelInv, MapsInv
  <2> QED BY <1>1, <1>4, <2>1, <2>2 DEF ChannelInv, MapsInv
<1>6. StopInv'
  <2> SUFFICES ASSUME ~stopHook PROVE StopInv'
    BY <1>1 DEF StopInv
  <2>1. lost' \subseteq aborted'
    BY <1>1 DEF ChannelInv, StopInv
  <2>2. \A d \in Calls : InStop(d)' => d # c /\ InStop(d) /\ (Over(d)' <=> Over(d))
    BY <1>1, <1>3 DEF InStop, Over
  <2>3. \A d \in Calls : InStop(d)' => Over(d)'
    BY <1>1, <2>2 DEF ChannelInv, StopInv
  <2>4. \A d \in Calls : call'[d].pc # "stopHook"
    BY <1>3 DEF ChannelInv, StopInv
  <2> QED BY <1>1, <2>1, <2>3, <2>4 DEF StopInv
<1>7. WantedInv'
  BY <1>1, <1>4 DEF ChannelInv, WantedInv
<1>8. TypeOK'
  BY <1>1, <1>3, <1>4, TypeFacts DEF ChannelInv, TypeOK, AttemptRecords, Pcs,
     CallRecords, CallPcs, Stopped
<1> QED BY <1>5, <1>6, <1>7, <1>8 DEF ChannelInv

\* A stop that has waited for too long returns, a start that was waited for is over,
\* or the logout of the plugin.
LEMMA ReturnStep ==
  ASSUME ChannelInv, NEW c \in Calls,
         StopTimesOut(c) \/ StartReturns(c) \/ markChannelLoggedOut(c)
  PROVE  ChannelInv'
<1>1. /\ UNCHANGED <<stopHook, attempt, starting, aborts, tasks, aborted, manuallyStopped,
                     lost, wanted>>
      /\ restartAttempts' \in Nat
      /\ runtime' \in [running : BOOLEAN, restartPending : BOOLEAN]
  <2>1. /\ restartAttempts \in Nat
        /\ runtime \in [running : BOOLEAN, restartPending : BOOLEAN]
    BY TypeFacts DEF ChannelInv
  <2>2. CASE StopTimesOut(c)
    BY <2>1, <2>2 DEF StopTimesOut, entries, history
  <2>3. CASE StartReturns(c)
    BY <2>1, <2>3 DEF StartReturns, entries, history
  <2>4. CASE markChannelLoggedOut(c)
    <3>1. Stopped \in [running : BOOLEAN, restartPending : BOOLEAN]
      BY DEF Stopped
    <3> QED BY <2>1, <2>4, <3>1 DEF markChannelLoggedOut, entries, history
  <2> QED BY <2>2, <2>3, <2>4
<1>2. CASE StopTimesOut(c) \/ StartReturns(c)
  <2>1. PICK pc \in {"done", "markOut", "toStart"} :
          call' = [call EXCEPT ![c].pc = pc, ![c].waits = None]
    BY <1>2, AfterStopType DEF StopTimesOut, StartReturns
  <2>2. PICK v \in CallRecords : v.pc = pc /\ call' = [call EXCEPT ![c] = v]
    BY <2>1, LeaveFields
  <2>3. v.pc # "stopWait" /\ v.pc # "stopHook"
    BY <2>1, <2>2
  <2> QED BY <1>1, <2>2, <2>3, CallMoveInv
<1>3. CASE markChannelLoggedOut(c)
  <2>1. call[c] \in CallRecords /\ call \in [Calls -> CallRecords]
    BY TypeFacts DEF ChannelInv
  <2>2. PICK v \in CallRecords : v.pc = "done" /\ call' = [call EXCEPT ![c] = v]
    <3>1. [call[c] EXCEPT !.pc = "done"] \in CallRecords
          /\ [call[c] EXCEPT !.pc = "done"].pc = "done"
      BY <2>1 DEF CallRecords, CallPcs
    <3>2. call' = [call EXCEPT ![c] = [call[c] EXCEPT !.pc = "done"]]
      BY <1>3 DEF markChannelLoggedOut
    <3> QED BY <3>1, <3>2
  <2> QED BY <1>1, <2>2, CallMoveInv
<1> QED BY <1>2, <1>3
-----------------------------------------------------------------------------
(* The invariant and the theorems.                                         *)

\* The initial states satisfy the invariant.
LEMMA InitInv == Init => ChannelInv
<1> SUFFICES ASSUME Init PROVE ChannelInv
  OBVIOUS
<1>1. /\ stopHook \in BOOLEAN
      /\ attempt = [k \in Attempts |-> [pc |-> "unused", auto |-> FALSE, gate |-> None]]
      /\ starting = None /\ aborts = None /\ tasks = None
      /\ aborted = {} /\ manuallyStopped = FALSE /\ restartAttempts = 0
      /\ runtime = [running |-> FALSE, restartPending |-> FALSE]
      /\ call = [c \in Calls |-> Idle] /\ wanted = FALSE /\ lost = {}
  BY DEF Init
<1>2. /\ [pc |-> "unused", auto |-> FALSE, gate |-> None] \in AttemptRecords
      /\ Idle \in CallRecords /\ Idle.pc = "idle"
  BY DEF AttemptRecords, Pcs, Idle, CallRecords, CallPcs
<1>3. TypeOK
  BY <1>1, <1>2, TypeFacts
<1>4. MapsInv /\ StopInv /\ WantedInv
  BY <1>1, <1>2, NoneNoAttempt
     DEF MapsInv, StopInv, WantedInv, InStop, Active, Reserving, Tasked
<1> QED BY <1>3, <1>4 DEF ChannelInv

\* Every step preserves the invariant.
LEMMA NextInv == ChannelInv /\ [Next]_vars => ChannelInv'
<1> SUFFICES ASSUME ChannelInv, [Next]_vars PROVE ChannelInv'
  OBVIOUS
<1>1. ASSUME NEW k \in Attempts, AttemptStep(k) \/ ProviderExits(k) PROVE ChannelInv'
  BY <1>1, RefusedStep, ConfiguredStep, HandOffStep, CleanedStep, ExitedStep,
     BackoffAbortedStep, AutoRestartStep, ProviderExitsStep DEF AttemptStep
<1>2. ASSUME NEW c \in Calls, CallStep(c) PROVE ChannelInv'
  <2>1. CASE StartAfterStop(c)
    <3>1. call[c].op \in Ops \cup {"none"}
      BY TypeFacts DEF ChannelInv, CallRecords
    <3> QED BY <2>1, <3>1, StartChannelInv DEF StartAfterStop
  <2>2. CASE ~StartAfterStop(c)
    BY <1>2, <2>2, HookStep, StopReturnsStep, ReturnStep DEF CallStep
  <2> QED BY <2>1, <2>2
<1>3. ASSUME NEW c \in Calls, NEW op \in Ops, Begin(c, op) PROVE ChannelInv'
  BY <1>3, StartChannelInv, StopChannelInv DEF Begin
<1>4. CASE UNCHANGED vars
  <2>1. UNCHANGED <<stopHook, attempt, starting, aborts, tasks, aborted, manuallyStopped,
                    restartAttempts, runtime, call, wanted, lost>>
    BY <1>4 DEF vars, entries, history
  <2> QED BY <2>1 DEF ChannelInv, TypeOK, MapsInv, StopInv, WantedInv, InStop, Over, InState
<1> QED BY <1>1, <1>2, <1>3, <1>4 DEF Next

\* The inductive invariant holds in every reachable state.
LEMMA ChannelInvariant == Spec => []ChannelInv
BY InitInv, NextInv, PTL DEF Spec

\* The state has its types.
THEOREM TypeCorrect == Spec => []TypeOK
<1>1. ChannelInv => TypeOK
  BY DEF ChannelInv
<1> QED BY <1>1, ChannelInvariant, PTL

\* A provider that serves is in the maps, where the next stop finds it, unless a
\* stop with a stopAccount hook has deleted its entries.
THEOREM ProvidersTracked == Spec => []ServingIsTracked
<1>1. ChannelInv => ServingIsTracked
  BY DEF ChannelInv, MapsInv, StopInv, ServingIsTracked, Serving, Live, InState, Active, Tasked
<1> QED BY <1>1, ChannelInvariant, PTL

\* At most one provider is alive, but for those that a stop has lost.
THEOREM OneTask == Spec => []NoSecondTask
<1>1. ChannelInv => NoSecondTask
  <2> SUFFICES ASSUME ChannelInv PROVE Cardinality(Live \ lost) <= 1
    BY DEF NoSecondTask
  <2>1. Live \ lost \subseteq {tasks}
    BY DEF ChannelInv, MapsInv, Live, InState, Tasked
  <2>2. CASE Live \ lost = {}
    BY <2>2, FS_EmptySet
  <2>3. CASE Live \ lost # {}
    <3>1. Live \ lost = {tasks}
      BY <2>1, <2>3
    <3> QED BY <3>1, FS_Singleton
  <2> QED BY <2>2, <2>3
<1> QED BY <1>1, ChannelInvariant, PTL

\* After a stop no provider serves until a start is requested, unless a stop with a
\* stopAccount hook has lost one.
THEOREM StopsHold == Spec => []StopHolds
<1>1. ChannelInv => StopHolds
  BY DEF ChannelInv, WantedInv, StopHolds, Serving, Live, InState, Active, Tasked
<1> QED BY <1>1, ChannelInvariant, PTL
=============================================================================
