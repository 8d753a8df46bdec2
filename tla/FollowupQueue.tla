---------------------------- MODULE FollowupQueue ----------------------------
(***************************************************************************)
(* The followup queue of one session (auto-reply/reply/queue/*.ts with     *)
(* utils/queue-helpers.ts) and the code around it that fills and drains    *)
(* it: agent-runner.ts enqueues a message that arrives while a run of the  *)
(* session is active and schedules a drain when its own run ends,          *)
(* followup-runner.ts gives a queued message a turn, reply-run-registry.ts *)
(* allows one run of the session at a time.                                *)
(*                                                                         *)
(* A queue is a JavaScript object: clearFollowupQueue and the end of a     *)
(* drain remove it from the map FOLLOWUP_QUEUES, but a drain that is       *)
(* executing keeps the object it began with.  Hence the set Queues of      *)
(* objects and the variable registered, the one in the map.                *)
(*                                                                         *)
(* A message is one delivery, handled once; its redeliveries are messages  *)
(* with the same id.  It has a routing key and an authorization key.  A    *)
(* prompt is the sequence of messages it quotes, an overflow summary the   *)
(* sequence of messages it lists.  The run object of a message is shared   *)
(* by the handler, the queue and the drain; what matters of it is the      *)
(* session id, runSession.  Cap and drop policy do not change.             *)
(* Which closure runs the turn (FOLLOWUP_RUN_CALLBACKS) is left out: the   *)
(* production caller passes one and never asks for restartIfIdle.          *)
(***************************************************************************)
EXTENDS Integers, Sequences, FiniteSets

CONSTANTS
  Messages,      \* deliveries of inbound messages
  MessageId,     \* MessageId[m]: buildRecentMessageIdKey, the same for a redelivery
  NoId,          \* the MessageId of a message without one
  Channel,       \* Channel[m]: routing key of m; "cross" if it has no usable one
  AuthKey,       \* AuthKey[m]: resolveFollowupAuthorizationKey
  Queues,        \* queue objects
  NoQueue,       \* not a queue
  Modes,         \* the modes a message may ask for: "collect", "followup"
  Cap,           \* settings.cap
  DropPolicy,    \* "summarize", "old" or "new"
  MayClear,      \* whether clearSessionQueues may be called
  MaxThrows,     \* bound on the turns that throw
  MaxRollovers   \* bound on the changes of the session id

ASSUME FollowupQueueAssumption ==
  /\ NoQueue \notin Queues /\ Queues \cap {"none", "main"} = {}
  /\ Modes \subseteq {"collect", "followup"} /\ Modes # {}
  /\ Cap \in Nat \ {0}
  /\ DropPolicy \in {"summarize", "old", "new"}
  /\ MayClear \in BOOLEAN
  /\ MaxThrows \in Nat /\ MaxRollovers \in Nat

VARIABLES
  registered,  \* FOLLOWUP_QUEUES.get(key), or NoQueue
  queue,       \* queue[o]: FollowupQueueState of object o
  drain,       \* drain[o]: the drain loop executing on object o
  active,      \* holder of the reply operation: "none", "main" or an object
  inbound,     \* inbound[m]: how far the handling of m is
  recent,      \* RECENT_QUEUE_MESSAGE_IDS
  throws,      \* turns that threw so far
  session,     \* the session id of the session, counted
  captured,    \* captured[m]: the session id the handler of m has read
  runSession,  \* runSession[m]: the session id in the run object of m
  accepted,    \* history: messages pushed in a queue, in order
  turns,       \* history: messages quoted by turns that returned, in order
  dropped,     \* history: messages dropped with policy "summarize"
  reported,    \* history: messages listed in the summary of a returned turn
  discarded,   \* history: messages cleared, or dropped with policy "old"
  forgotten,   \* history: ids that RECENT_QUEUE_MESSAGE_IDS no longer remembered
  behind       \* history: a message was queued with an old session id

sessionVars == <<active, inbound, recent, throws>>
idVars == <<session, captured, runSession, behind>>
historyVars == <<accepted, turns, dropped, reported, discarded, forgotten>>
vars == <<registered, queue, drain, sessionVars, idVars, historyVars>>

EmptyQueue ==
  [items |-> <<>>, draining |-> FALSE, droppedCount |-> 0, summaryLines |-> <<>>,
   lastRun |-> {}, mode |-> "collect"]
NoDrain ==
  [pc |-> "off", kind |-> "item", batch |-> <<>>, rest |-> <<>>, summary |-> <<>>,
   run |-> {}, forceIndividualCollect |-> FALSE]

Init ==
  /\ registered = NoQueue
  /\ queue = [o \in Queues |-> EmptyQueue]
  /\ drain = [o \in Queues |-> NoDrain]
  /\ active = "none"
  /\ inbound = [m \in Messages |-> "none"]
  /\ recent = {}
  /\ throws = 0
  /\ session = 0 /\ behind = FALSE
  /\ captured = [m \in Messages |-> 0] /\ runSession = [m \in Messages |-> 0]
  /\ accepted = <<>> /\ turns = <<>>
  /\ dropped = {} /\ reported = {} /\ discarded = {} /\ forgotten = {}
-----------------------------------------------------------------------------
(* Helpers of queue-helpers.ts and drain.ts.                               *)

ToSet(s) == {s[i] : i \in 1..Len(s)}
Drop(s, n) == SubSeq(s, n + 1, Len(s))
Last(s, n) == IF Len(s) <= n THEN s ELSE Drop(s, Len(s) - n)

HasWork(Q) == Q.items # <<>> \/ Q.droppedCount > 0

\* The overflow summary that a turn would carry; "" stands for none.
HasSummary(Q) == DropPolicy = "summarize" /\ Q.droppedCount > 0

\* Mutant: the summary stays after the turn that carried it.
clearQueueSummaryState_keep(Q) == Q

clearQueueSummaryState(Q) == [Q EXCEPT !.droppedCount = 0, !.summaryLines = <<>>]

\* The entries that applyQueueDropPolicy takes off the head of the queue.
Overflow(Q) ==
  IF Len(Q.items) < Cap \/ DropPolicy = "new"
  THEN <<>> ELSE SubSeq(Q.items, 1, Len(Q.items) - Cap + 1)

\* Mutant: the capacity test lets one message too many in.
Push_offByOne(Q, m) ==
  IF Len(Q.items) > Cap THEN Q
  ELSE [Q EXCEPT !.items = Append(@, m), !.lastRun = {m}]

\* applyQueueDropPolicy and items.push(m).
Push(Q, m) ==
  LET gone == Overflow(Q)
      kept == [Q EXCEPT !.items = Append(Drop(Q.items, Len(gone)), m), !.lastRun = {m}]
  IN  IF Len(Q.items) >= Cap /\ DropPolicy = "new"
      THEN [Q EXCEPT !.lastRun = {m}]
      ELSE IF DropPolicy = "summarize"
           THEN [kept EXCEPT !.droppedCount = @ + Len(gone),
                             !.summaryLines = Last(@ \o gone, Cap)]
           ELSE kept

\* Mutant: two routing keys are taken for one.
hasCrossChannelItems_two(items) ==
  Cardinality({Channel[m] : m \in ToSet(items)}) > 2

\* The messages do not share one routing key.
hasCrossChannelItems(items) ==
  LET keys == {Channel[m] : m \in ToSet(items)}
  IN  "cross" \in keys \/ Cardinality(keys) > 1

\* The first group of splitCollectItemsByAuthorization: the messages at the head
\* with one authorization key.  The code makes all groups at once; here the rest is
\* split in the same way when its turn comes, since no key changes.
FirstGroup(items) ==
  LET End == CHOOSE n \in 1..Len(items) :
               /\ \A i \in 1..n : AuthKey[items[i]] = AuthKey[items[1]]
               /\ n < Len(items) => AuthKey[items[n + 1]] # AuthKey[items[1]]
  IN  SubSeq(items, 1, End)

\* scheduleFollowupDrain in a state with the given queue objects, drains and
\* registered object: nothing if there is no queue or it is being drained; a
\* drain of a queue without work ends at once and removes it.
scheduleFollowupDrain(qs, ds, r) ==
  IF r = NoQueue \/ qs[r].draining
  THEN [queue |-> qs, drain |-> ds, registered |-> r]
  ELSE IF ~HasWork(qs[r])
       THEN [queue |-> qs, drain |-> ds, registered |-> NoQueue]
       ELSE [queue |-> [qs EXCEPT ![r].draining = TRUE],
             drain |-> [ds EXCEPT ![r] = [NoDrain EXCEPT !.pc = "debounce"]],
             registered |-> r]

Becomes(s) ==
  queue' = s.queue /\ drain' = s.drain /\ registered' = s.registered

\* The finally block of the drain of object o, whose state is Q by then: without
\* work the map entry is deleted, whichever object it holds.
EndDrain(o, Q) ==
  LET qs == [queue EXCEPT ![o] = [Q EXCEPT !.draining = FALSE]]
      ds == [drain EXCEPT ![o] = NoDrain]
  IN  Becomes(IF HasWork(Q)
              THEN scheduleFollowupDrain(qs, ds, registered)
              ELSE [queue |-> qs, drain |-> ds, registered |-> NoQueue])

\* The head of the while loop.
LoopHead(o, Q) ==
  IF HasWork(Q)
  THEN /\ queue' = [queue EXCEPT ![o] = Q]
       /\ drain' = [drain EXCEPT ![o].pc = "debounce"]
       /\ UNCHANGED registered
  ELSE EndDrain(o, Q)
-----------------------------------------------------------------------------
(* Inbound messages (get-reply-run.ts, agent-runner.ts).                   *)

\* A message arrives and the handler reads the session id and whether a run is
\* active.
Arrive(m) ==
  /\ inbound[m] = "none"
  /\ inbound' = [inbound EXCEPT ![m] = IF active = "none" THEN "run-now" ELSE "enqueue"]
  /\ captured' = [captured EXCEPT ![m] = session]
  /\ UNCHANGED <<registered, queue, drain, active, recent, throws, session, runSession,
                 behind, historyVars>>

\* The handler runs the message itself, or answers that the previous run is
\* still shutting down.
RunNow(m) ==
  /\ inbound[m] = "run-now"
  /\ inbound' = [inbound EXCEPT ![m] = "done"]
  /\ active' = IF active = "none" THEN "main" ELSE active
  /\ captured' = [captured EXCEPT ![m] = 0]
  /\ UNCHANGED <<registered, queue, drain, recent, throws, session, runSession,
                 behind, historyVars>>

\* A queue object that nothing refers to.
Free(o) == o # registered /\ drain[o].pc = "off"

\* isRunAlreadyQueued: a message with the id of m waits in the queue.
isRunAlreadyQueued(Q, m) ==
  \E x \in ToSet(Q.items) : MessageId[m] # NoId /\ MessageId[x] = MessageId[m]

\* Mutant: recently queued message ids are not consulted.
AlreadyQueued_noRecent(Q, m) == isRunAlreadyQueued(Q, m)

\* RECENT_QUEUE_MESSAGE_IDS.peek or isRunAlreadyQueued; a message without an id
\* passes both.
AlreadyQueued(Q, m) == MessageId[m] \in recent \/ isRunAlreadyQueued(Q, m)

\* RECENT_QUEUE_MESSAGE_IDS forgets an id: its ttlMs has passed, or ids of other
\* sessions have filled the cache to maxSize.
RecentIdExpires(id) ==
  /\ id \in recent
  /\ recent' = recent \ {id}
  /\ forgotten' = forgotten \cup {id}
  /\ UNCHANGED <<registered, queue, drain, active, inbound, throws, idVars, accepted,
                 turns, dropped, reported, discarded>>

\* Mutant: the snapshot of the handler is trusted (it said active).
isRunActive_stale == TRUE

\* Whether a reply operation of the session is active now.
isRunActive == active # "none"

\* enqueueFollowupRun with the mode of the message, then the liveness check of
\* agent-runner.ts.
enqueueFollowupRun(m, mode) ==
  /\ inbound[m] = "enqueue"
  /\ registered = NoQueue => \E o \in Queues : Free(o)
  /\ LET o == IF registered = NoQueue THEN CHOOSE f \in Queues : Free(f) ELSE registered
         Q == [(IF registered = NoQueue THEN EmptyQueue ELSE queue[o]) EXCEPT !.mode = mode]
         skip == AlreadyQueued(Q, m)
         full == Len(Q.items) >= Cap /\ DropPolicy = "new"
         R == IF skip THEN Q ELSE Push(Q, m)
         gone == IF skip THEN {} ELSE ToSet(Overflow(Q))
         qs == [queue EXCEPT ![o] = R]
     IN  /\ Becomes(IF ~isRunActive
                    THEN scheduleFollowupDrain(qs, drain, o)
                    ELSE [queue |-> qs, drain |-> drain, registered |-> o])
         /\ recent' = IF skip \/ full THEN recent ELSE recent \cup ({MessageId[m]} \ {NoId})
         /\ accepted' = IF skip \/ full THEN accepted ELSE Append(accepted, m)
         /\ runSession' = IF skip THEN runSession ELSE [runSession EXCEPT ![m] = captured[m]]
         /\ behind' = (behind \/ (~skip /\ captured[m] # session))
         /\ dropped' = IF DropPolicy = "summarize" THEN dropped \cup gone ELSE dropped
         /\ discarded' = IF DropPolicy = "old" THEN discarded \cup gone ELSE discarded
  /\ inbound' = [inbound EXCEPT ![m] = "done"]
  /\ captured' = [captured EXCEPT ![m] = 0]
  /\ UNCHANGED <<active, throws, session, turns, reported, forgotten>>

\* The run of an inbound message ends: finalizeWithFollowup, then the reply
\* operation completes.
MainEnds ==
  /\ active = "main"
  /\ active' = "none"
  /\ Becomes(scheduleFollowupDrain(queue, drain, registered))
  /\ UNCHANGED <<inbound, recent, throws, idVars, historyVars>>

\* clearSessionQueues (a stop command or a session reset).
clearSessionQueues ==
  /\ MayClear
  /\ registered # NoQueue
  /\ discarded' = discarded \cup ToSet(queue[registered].items)
                            \cup ToSet(queue[registered].summaryLines)
  /\ queue' = [queue EXCEPT ![registered] =
                 [EmptyQueue EXCEPT !.draining = queue[registered].draining,
                                    !.mode = queue[registered].mode]]
  /\ registered' = NoQueue
  /\ UNCHANGED <<drain, sessionVars, idVars, accepted, turns, dropped, reported, forgotten>>

\* Mutant: only the run of the last message is rewritten.
refreshQueuedFollowupSession_last(previous, next) ==
  [m \in Messages |->
     IF registered # NoQueue /\ m \in queue[registered].lastRun /\ runSession[m] = previous
     THEN next ELSE runSession[m]]

\* The runs of the queue in the map that have the previous session id get the
\* next one; a drain shares the run objects of the entries it is working on.
refreshQueuedFollowupSession(previous, next) ==
  [m \in Messages |->
     IF /\ registered # NoQueue
        /\ m \in ToSet(queue[registered].items) \cup queue[registered].lastRun
        /\ runSession[m] = previous
     THEN next ELSE runSession[m]]

\* The run under way, after a compaction or a reset, gives the session a new id.
\* It takes for the previous id what the session has, or what its own run has.
SessionRollsOver ==
  /\ session < MaxRollovers
  /\ active # "none"
  /\ session' = session + 1
  /\ \/ /\ active = "main"
        /\ runSession' = refreshQueuedFollowupSession(session, session + 1)
     \/ /\ active \in Queues
        /\ \E m \in drain[active].run :
             runSession' = refreshQueuedFollowupSession(runSession[m], session + 1)
  /\ UNCHANGED <<registered, queue, drain, sessionVars, captured, behind, historyVars>>
-----------------------------------------------------------------------------
(* The drain loop of object o.                                             *)

\* The run object of a turn: that of the last message it quotes, or lastRun.
RunOf(batch) == IF batch = <<>> THEN {} ELSE {batch[Len(batch)]}

Starting(o, kind, batch, rest, summary, force) ==
  /\ drain' = [drain EXCEPT ![o] =
       [pc |-> "starting", kind |-> kind, batch |-> batch, rest |-> rest,
        summary |-> summary, forceIndividualCollect |-> force,
        run |-> IF kind \in {"item", "collect"} THEN RunOf(batch) ELSE queue[o].lastRun]]
  /\ UNCHANGED <<queue, registered>>

\* One iteration up to the call of the turn, in collect mode ...
CollectStep(o) ==
  LET Q == queue[o]
      cross == hasCrossChannelItems(Q.items)
      force == drain[o].forceIndividualCollect \/ cross
      group == FirstGroup(Q.items)
  IN  IF Q.items = <<>>
      THEN IF HasSummary(Q) /\ Q.lastRun # {}
           THEN Starting(o, "summary", <<>>, <<>>, Q.summaryLines, force)
           ELSE EndDrain(o, Q)
      ELSE IF force
           THEN Starting(o, "item", <<Q.items[1]>>, <<>>, <<>>, TRUE)
           ELSE Starting(o, "collect", group, Drop(Q.items, Len(group)),
                         IF HasSummary(Q) THEN Q.summaryLines ELSE <<>>, FALSE)

\* ... and in the other modes, where a turn that carries the summary takes the
\* place of the turn of the first message.
FollowupStep(o) ==
  LET Q == queue[o]
  IN  IF Q.items = <<>> \/ (HasSummary(Q) /\ Q.lastRun = {})
      THEN EndDrain(o, Q)
      ELSE IF HasSummary(Q)
           THEN Starting(o, "summaryItem", <<Q.items[1]>>, <<>>, Q.summaryLines, FALSE)
           ELSE Starting(o, "item", <<Q.items[1]>>, <<>>, <<>>, FALSE)

DebounceEnds(o) ==
  /\ drain[o].pc = "debounce"
  /\ IF queue[o].mode = "collect" THEN CollectStep(o) ELSE FollowupStep(o)
  /\ UNCHANGED <<sessionVars, idVars, historyVars>>

\* The turn begins; createReplyOperation throws when another run is active.
TurnStarts(o) ==
  /\ drain[o].pc = "starting"
  /\ \/ /\ active = "none"
        /\ active' = o
        /\ drain' = [drain EXCEPT ![o].pc = "running"]
        /\ UNCHANGED <<queue, registered>>
     \/ /\ active # "none"
        /\ EndDrain(o, queue[o])
        /\ UNCHANGED active
  /\ UNCHANGED <<inbound, recent, throws, idVars, historyVars>>

\* Mutant: the turn removes what the queue holds when it returns.
AfterTurn_all(Q, d) == clearQueueSummaryState([Q EXCEPT !.items = <<>>])

\* Mutant: the queue keeps what the turn was about.
AfterTurn_keep(Q, d) == IF d.summary # <<>> THEN clearQueueSummaryState(Q) ELSE Q

\* What the code after the awaited turn does to the queue: items.shift() or
\* items.splice(0, n), and clearQueueSummaryState if the turn carried a summary.
AfterTurn(Q, d) ==
  LET n == IF d.kind = "summary" THEN 0 ELSE Len(d.batch)
      S == [Q EXCEPT !.items = IF n >= Len(@) THEN <<>> ELSE Drop(@, n)]
  IN  IF d.summary # <<>> THEN clearQueueSummaryState(S) ELSE S

TurnReturns(o) ==
  /\ drain[o].pc = "running"
  /\ active' = "none"
  /\ LET d == drain[o]
         Q == AfterTurn(queue[o], d)
         group == FirstGroup(d.rest)
     IN  /\ turns' = IF d.kind \in {"item", "collect"} THEN turns \o d.batch ELSE turns
         /\ reported' = reported \cup ToSet(d.summary)
         /\ IF d.rest # <<>>
            THEN /\ queue' = [queue EXCEPT ![o] = Q]
                 /\ drain' = [drain EXCEPT ![o] =
                      [d EXCEPT !.pc = "starting", !.batch = group,
                                !.rest = Drop(d.rest, Len(group)), !.summary = <<>>,
                                !.run = RunOf(group)]]
                 /\ UNCHANGED registered
            ELSE LoopHead(o, Q)
  /\ UNCHANGED <<inbound, recent, throws, idVars, accepted, dropped, discarded,
                 forgotten>>

\* The turn throws: the queue is left as it is and drained again.
TurnThrows(o) ==
  /\ drain[o].pc = "running"
  /\ throws < MaxThrows
  /\ throws' = throws + 1
  /\ active' = "none"
  /\ EndDrain(o, queue[o])
  /\ UNCHANGED <<inbound, recent, idVars, historyVars>>
-----------------------------------------------------------------------------
Enqueues(m) == \E mode \in Modes : enqueueFollowupRun(m, mode)

DrainStep(o) == DebounceEnds(o) \/ TurnStarts(o) \/ TurnReturns(o)

Next ==
  \/ \E m \in Messages : Arrive(m) \/ RunNow(m) \/ Enqueues(m)
  \/ \E id \in recent : RecentIdExpires(id)
  \/ MainEnds
  \/ SessionRollsOver
  \/ clearSessionQueues
  \/ \E o \in Queues : DrainStep(o) \/ TurnThrows(o)

Spec == Init /\ [][Next]_vars

\* Timers fire, and handlers and runs end (every run has a timeout).
Fairness ==
  /\ \A m \in Messages : WF_vars(RunNow(m)) /\ WF_vars(Enqueues(m))
  /\ WF_vars(MainEnds)
  /\ \A o \in Queues : WF_vars(DrainStep(o))

FairSpec == Spec /\ Fairness
-----------------------------------------------------------------------------
(* Properties.                                                             *)

\* Types; a queue never holds more than Cap messages and its summary lists no
\* more than Cap lines.
TypeOK ==
  /\ registered \in Queues \cup {NoQueue}
  /\ active \in {"none", "main"} \cup Queues
  /\ \A o \in Queues :
       /\ queue[o].items \in Seq(Messages) /\ Len(queue[o].items) <= Cap
       /\ queue[o].summaryLines \in Seq(Messages) /\ Len(queue[o].summaryLines) <= Cap
       /\ queue[o].droppedCount \in Nat
       /\ queue[o].draining <=> drain[o].pc # "off"
       /\ drain[o].pc \in {"off", "debounce", "starting", "running"}
       /\ drain[o].batch \in Seq(Messages)
  /\ \A m \in Messages : inbound[m] \in {"none", "run-now", "enqueue", "done"}
  /\ recent \subseteq {MessageId[m] : m \in Messages} \ {NoId}
  /\ accepted \in Seq(Messages) /\ turns \in Seq(Messages)
  /\ session \in Nat /\ behind \in BOOLEAN
  /\ captured \in [Messages -> Nat] /\ runSession \in [Messages -> Nat]

Reachable(o) == o = registered \/ drain[o].pc # "off"

\* Messages of a queue object that the map or a drain still refers to.
Kept == UNION {ToSet(queue[o].items) : o \in {p \in Queues : Reachable(p)}}

\* A message that enqueueFollowupRun pushed is waiting in a queue somebody refers
\* to, had its turn, or left by a clear or the drop policy: the shift() and
\* splice() after an awaited turn remove what the turn was about and nothing
\* else, and the end of a drain removes its own queue.
NoMessageLost ==
  ToSet(accepted) \subseteq Kept \cup ToSet(turns) \cup discarded \cup dropped

\* Turns quote the accepted messages in the order of acceptance, each once and
\* none skipped, through retries, busy sessions and split batches.
TurnsInOrder ==
  Len(turns) <= Len(accepted) /\ turns = SubSeq(accepted, 1, Len(turns))

\* a and b are one delivery, or deliveries that the code can tell to be of one
\* message: they have an id, which RECENT_QUEUE_MESSAGE_IDS has never forgotten.
SameMessage(a, b) ==
  a = b \/ (MessageId[a] = MessageId[b] /\ MessageId[a] \notin forgotten \cup {NoId})

\* A message that is redelivered while its id is remembered is not quoted by a
\* second turn that returns, wherever the first delivery is by then, and a retry
\* after a throw does not repeat the part of a batch that succeeded.  Two deliveries
\* of one message never wait in a queue together, its id remembered or not.
TurnsOnce ==
  /\ \A i, j \in 1..Len(turns) : SameMessage(turns[i], turns[j]) => i = j
  /\ \A o \in Queues : \A i, j \in 1..Len(queue[o].items) :
       /\ MessageId[queue[o].items[i]] = MessageId[queue[o].items[j]]
       /\ MessageId[queue[o].items[i]] # NoId
       => i = j

\* A queue with work has a drain, or the active run of the session will schedule
\* one when it ends: the stale busy snapshot of a handler strands nothing.
WorkIsDrained ==
  \A o \in Queues : Reachable(o) /\ HasWork(queue[o]) =>
    drain[o].pc # "off" \/ active = "main"

\* The messages quoted by one turn have one routing key and one authorization
\* key (a cross-channel or mixed-sender batch is never collected).
BatchUniform ==
  \A o \in Queues : drain[o].pc \in {"starting", "running"} =>
    \A a, b \in ToSet(drain[o].batch) :
      Channel[a] = Channel[b] /\ AuthKey[a] = AuthKey[b]

\* A dropped message is listed by at most one turn that returns, although a drain
\* that outlives a clear still carries a summary.
SummaryOnce ==
  [][\A o \in Queues : TurnReturns(o) => ToSet(drain[o].summary) \cap reported = {}]_vars

\* What waits in a queue follows the session: entries and the run of a turn that
\* starts have its present id, however long ago a drain has taken them.  That
\* holds until a handler that read the id before a rollover queues its message
\* after it: nothing corrects that id, and a turn with it corrects only its own.
QueuedRunsFollow ==
  behind \/ \A o \in Queues : Reachable(o) =>
    /\ \A m \in ToSet(queue[o].items) : runSession[m] = session
    /\ drain[o].pc = "starting" => \A m \in drain[o].run : runSession[m] = session

\* Every accepted message eventually has its turn.
AcceptedGetsTurn ==
  \A m \in Messages : m \in ToSet(accepted) ~> m \in ToSet(turns)
=============================================================================
