------------------------ MODULE FollowupQueueProofs -------------------------
(***************************************************************************)
(* Theorems about FollowupQueue.  What holds whatever happens: the types   *)
(* and bounds, batches of one sender and channel, no message and no        *)
(* summary line twice.  What holds as long as no message has been dropped  *)
(* or cleared: messages wait in the order of acceptance behind those that  *)
(* had their turn, and their runs follow the session.                      *)
(***************************************************************************)
EXTENDS FollowupQueue, FiniteSetTheorems, SequenceTheorems,
        WellFoundedInduction, TLAPS

Kinds == {"item", "collect", "summary", "summaryItem"}

FollowupQueueState ==
  [items : Seq(Messages), draining : BOOLEAN, droppedCount : Nat,
   summaryLines : Seq(Messages), lastRun : SUBSET Messages, mode : {"collect", "followup"}]

Drain ==
  [pc : {"off", "debounce", "starting", "running"}, kind : Kinds, batch : Seq(Messages),
   rest : Seq(Messages), summary : Seq(Messages), run : SUBSET Messages,
   forceIndividualCollect : BOOLEAN]

\* The ids that RECENT_QUEUE_MESSAGE_IDS may hold.
Ids == {MessageId[m] : m \in Messages} \ {NoId}

\* All types, and the bounds of a queue.
TypeInv ==
  /\ registered \in Queues \cup {NoQueue}
  /\ active \in {"none", "main"} \cup Queues
  /\ queue \in [Queues -> FollowupQueueState]
  /\ drain \in [Queues -> Drain]
  /\ \A o \in Queues :
       /\ Len(queue[o].items) <= Cap /\ Len(queue[o].summaryLines) <= Cap
       /\ queue[o].draining <=> drain[o].pc # "off"
  /\ inbound \in [Messages -> {"none", "run-now", "enqueue", "done"}]
  /\ recent \subseteq Ids /\ reported \subseteq Messages
  /\ dropped \subseteq Messages /\ discarded \subseteq Messages
  /\ accepted \in Seq(Messages) /\ turns \in Seq(Messages)
  /\ session \in Nat /\ behind \in BOOLEAN
  /\ captured \in [Messages -> Nat] /\ runSession \in [Messages -> Nat]

\* A drain that has taken a batch, or a summary, and has still to finish its turns.
InFlight(o) == drain[o].pc \in {"starting", "running"}

\* A batch has one channel and one sender, what is left to split one channel.
UniformInv ==
  \A o \in Queues : InFlight(o) =>
    /\ \A a, b \in ToSet(drain[o].batch) \cup ToSet(drain[o].rest) : Channel[a] = Channel[b]
    /\ \A a, b \in ToSet(drain[o].batch) : AuthKey[a] = AuthKey[b]

\* The messages that were ever pushed in a queue.
Pushed == ToSet(accepted)

\* The handler of a message that was pushed has ended.
DoneInv == \A m \in Pushed : inbound[m] = "done"

\* Two deliveries of one message wait in no queue.
IdsApart ==
  \A o \in Queues : \A i, j \in 1..Len(queue[o].items) :
    /\ MessageId[queue[o].items[i]] = MessageId[queue[o].items[j]]
    /\ MessageId[queue[o].items[i]] # NoId
    => i = j

\* An id that was pushed is remembered, unless it was forgotten; until then no other
\* delivery of the message is pushed.
IdsOnce ==
  /\ \A m \in Pushed : MessageId[m] \in recent \cup forgotten \cup {NoId}
  /\ \A a, b \in Pushed : SameMessage(a, b) => a = b

\* No turn is repeated.
TurnsApart == \A i, j \in 1..Len(turns) : turns[i] = turns[j] => i = j

\* A message waits in one place of one queue, and not any more once it had its turn
\* or was listed in the summary of a turn.
ItemsOnce ==
  \A o \in Queues : \A i \in 1..Len(queue[o].items) :
    LET m == queue[o].items[i]
    IN  /\ m \in Pushed
        /\ m \notin ToSet(turns) /\ m \notin reported
        /\ \A p \in Queues : \A j \in 1..Len(queue[p].items) :
             m = queue[p].items[j] => o = p /\ i = j
        /\ \A p \in Queues : m \notin ToSet(queue[p].summaryLines)

\* The same of the lines of the overflow summaries.
LinesOnce ==
  \A o \in Queues : \A m \in ToSet(queue[o].summaryLines) :
    /\ m \in Pushed /\ m \notin reported
    /\ \A p \in Queues : m \in ToSet(queue[p].summaryLines) => o = p

\* The batch of drain o is about to have its one turn, and those of its messages
\* that still wait are no further from the head than when they were taken.
BatchOnce(o) ==
  LET d == drain[o]
  IN  \A j \in 1..Len(d.batch) :
        /\ d.batch[j] \in Pushed /\ d.batch[j] \notin ToSet(turns)
        /\ \A k \in 1..Len(d.batch) : d.batch[j] = d.batch[k] => j = k
        /\ d.batch[j] \notin ToSet(d.rest)
        /\ \A i \in 1..Len(queue[o].items) : queue[o].items[i] = d.batch[j] => i <= j

\* The same of what it has left to split; a turn of the summary alone leaves nothing.
RestOnce(o) ==
  LET d == drain[o]
  IN  /\ \A j \in 1..Len(d.rest) :
           /\ d.rest[j] \in Pushed /\ d.rest[j] \notin ToSet(turns)
           /\ \A k \in 1..Len(d.rest) : d.rest[j] = d.rest[k] => j = k
           /\ \A i \in 1..Len(queue[o].items) :
                queue[o].items[i] = d.rest[j] => i <= Len(d.batch) + j
      /\ d.kind = "summary" => d.rest = <<>>

\* The summary that it carries lists nothing that waits or is listed elsewhere.
SummaryApart(o) ==
  LET listed == ToSet(drain[o].summary)
  IN  /\ \A m \in listed : m \in Pushed /\ m \notin reported
      /\ \A p \in Queues : \A i \in 1..Len(queue[p].items) : queue[p].items[i] \notin listed
      /\ \A p \in Queues \ {o} : \A m \in ToSet(queue[p].summaryLines) : m \notin listed
      /\ \A p \in Queues \ {o} : InFlight(p) =>
           \A m \in ToSet(drain[p].summary) : m \notin listed

\* What it has taken, batch or rest, is in no other queue or drain.
TakenApart(o) ==
  LET taken == ToSet(drain[o].batch) \cup ToSet(drain[o].rest)
  IN  \A p \in Queues \ {o} :
        /\ \A i \in 1..Len(queue[p].items) : queue[p].items[i] \notin taken
        /\ InFlight(p) =>
             \A m \in ToSet(drain[p].batch) \cup ToSet(drain[p].rest) : m \notin taken

FlightOnce(o) == BatchOnce(o) /\ RestOnce(o) /\ SummaryApart(o) /\ TakenApart(o)

\* No message has two turns, no line two reports.
OnceInv ==
  /\ ItemsOnce /\ LinesOnce /\ IdsApart
  /\ \A o \in Queues : InFlight(o) => FlightOnce(o)
  /\ TurnsApart /\ ToSet(turns) \subseteq Pushed /\ reported \subseteq Pushed

\* No message has been dropped or cleared so far.
Untouched == dropped = {} /\ discarded = {}

\* Then the drain of the queue in the map is the only one ...
OneDrain == \A o \in Queues : drain[o].pc # "off" => o = registered

\* ... and there is nothing to summarize;
NoSummaries == \A o \in Queues : queue[o].droppedCount = 0 /\ queue[o].summaryLines = <<>>

\* what was accepted and had no turn waits in the queue of the map, in order,
AcceptedOrder ==
  accepted = turns \o (IF registered = NoQueue THEN <<>> ELSE queue[registered].items)

\* what a drain has taken is the head of it,
AtHead(o) ==
  LET d == drain[o]
      items == queue[o].items
      n == Len(d.batch) + Len(d.rest)
  IN  /\ d.pc = "debounce" => items # <<>>
      /\ InFlight(o) =>
           /\ d.kind \in {"item", "collect"} /\ d.summary = <<>> /\ d.batch # <<>>
           /\ d.run = RunOf(d.batch)
           /\ n <= Len(items) /\ d.batch \o d.rest = SubSeq(items, 1, n)

\* and somebody will drain what waits.
WorkInv ==
  registered # NoQueue /\ HasWork(queue[registered]) =>
    drain[registered].pc # "off" \/ active = "main"

InOrder ==
  OneDrain /\ NoSummaries /\ AcceptedOrder /\ WorkInv /\ \A o \in Queues : AtHead(o)

FifoInv == Untouched => InOrder

\* A drain whose turn is the run of the session waits for it.
ActiveInv == active \in Queues => drain[active].pc = "running"

\* And the runs that wait have the session's id, unless a handler was late.
FollowInv ==
  Untouched /\ ~behind /\ registered # NoQueue =>
    \A m \in ToSet(queue[registered].items) : runSession[m] = session

-----------------------------------------------------------------------------
(* Sequences.                                                              *)

\* What Drop leaves.
LEMMA DropElements ==
  ASSUME NEW S, NEW s \in Seq(S), NEW n \in 0..Len(s)
  PROVE  /\ Drop(s, n) \in Seq(S)
         /\ Len(Drop(s, n)) = Len(s) - n
         /\ \A i \in 1..(Len(s) - n) : Drop(s, n)[i] = s[n + i]
BY DEF Drop

\* The elements of a concatenation.
LEMMA ConcatSet ==
  ASSUME NEW S, NEW s \in Seq(S), NEW t \in Seq(S)
  PROVE  ToSet(s \o t) = ToSet(s) \cup ToSet(t)
<1>1. /\ Len(s) \in Nat /\ Len(t) \in Nat /\ Len(s \o t) = Len(s) + Len(t)
      /\ \A i \in 1..Len(s) : (s \o t)[i] = s[i]
      /\ \A i \in 1..Len(t) : (s \o t)[Len(s) + i] = t[i]
  OBVIOUS
<1>2. ToSet(s) \subseteq ToSet(s \o t) /\ ToSet(t) \subseteq ToSet(s \o t)
  BY <1>1, SMTT(30) DEF ToSet
<1>3. ASSUME NEW i \in 1..Len(s \o t) PROVE (s \o t)[i] \in ToSet(s) \cup ToSet(t)
  <2>1. CASE i <= Len(s)
    BY <1>1, <1>3, <2>1 DEF ToSet
  <2>2. CASE i > Len(s)
    <3>1. i - Len(s) \in 1..Len(t) /\ i = Len(s) + (i - Len(s))
      BY <1>1, <1>3, <2>2
    <3>2. (s \o t)[i] = t[i - Len(s)]
      BY <1>1, <3>1
    <3> QED BY <3>1, <3>2 DEF ToSet
  <2> QED BY <1>1, <1>3, <2>1, <2>2
<1> QED BY <1>2, <1>3 DEF ToSet

\* The elements after one is appended.
LEMMA AppendSet ==
  ASSUME NEW S, NEW s \in Seq(S), NEW m \in S
  PROVE  ToSet(Append(s, m)) = ToSet(s) \cup {m}
<1>1. /\ Len(s) \in Nat /\ Len(Append(s, m)) = Len(s) + 1
      /\ Append(s, m)[Len(s) + 1] = m
      /\ \A i \in 1..Len(s) : Append(s, m)[i] = s[i]
  OBVIOUS
<1>2. \A i \in 1..(Len(s) + 1) : i \in 1..Len(s) \/ i = Len(s) + 1
  BY <1>1
<1>3. Len(s) + 1 \in 1..(Len(s) + 1) /\ 1..Len(s) \subseteq 1..(Len(s) + 1)
  BY <1>1
<1> QED BY <1>1, <1>2, <1>3 DEF ToSet

\* What Last keeps.
LEMMA LastElements ==
  ASSUME NEW S, NEW s \in Seq(S), NEW n \in Nat
  PROVE  Last(s, n) \in Seq(S) /\ Len(Last(s, n)) <= n /\ ToSet(Last(s, n)) \subseteq ToSet(s)
<1>1. CASE Len(s) <= n
  BY <1>1 DEF Last
<1>2. CASE Len(s) > n
  <2>1. Len(s) - n \in 0..Len(s) /\ Last(s, n) = Drop(s, Len(s) - n)
    BY <1>2 DEF Last
  <2>2. /\ Drop(s, Len(s) - n) \in Seq(S) /\ Len(Drop(s, Len(s) - n)) = n
        /\ \A i \in 1..n : Drop(s, Len(s) - n)[i] = s[(Len(s) - n) + i]
    <3>1. /\ Drop(s, Len(s) - n) \in Seq(S)
          /\ Len(Drop(s, Len(s) - n)) = Len(s) - (Len(s) - n)
          /\ \A i \in 1..(Len(s) - (Len(s) - n)) :
               Drop(s, Len(s) - n)[i] = s[(Len(s) - n) + i]
      BY <2>1, DropElements
    <3>2. Len(s) - (Len(s) - n) = n
      OBVIOUS
    <3> QED BY <3>1, <3>2
  <2>3. \A i \in 1..n : (Len(s) - n) + i \in 1..Len(s)
    BY <1>2
  <2> QED BY <2>1, <2>2, <2>3, SMTT(30) DEF ToSet
<1> QED BY <1>1, <1>2

\* A set of positions has a first one.
LEMMA FirstPosition ==
  ASSUME NEW N \in Nat, NEW P \in SUBSET (1..N), P # {}
  PROVE  \E i \in P : \A j \in 1..(i - 1) : j \notin P
<1> DEFINE R == OpToRel(<, Nat)
<1>1. P \subseteq Nat
  OBVIOUS
<1>2. IsWellFoundedOn(R, Nat)
  BY NatLessThanWellFounded
<1>3. \A j, n \in Nat : j < n => <<j, n>> \in R
  BY DEF OpToRel
<1> HIDE DEF R
<1>4. PICK i \in P : \A j \in P : ~(<<j, i>> \in R)
  BY <1>1, <1>2, WFMin
<1>5. \A j \in P : ~(j < i)
  BY <1>1, <1>3, <1>4
<1> QED BY <1>1, <1>5

\* The first group is a prefix with one authorization key.
LEMMA FirstGroupElements ==
  ASSUME NEW s \in Seq(Messages), s # <<>>
  PROVE  \E n \in 1..Len(s) :
           /\ FirstGroup(s) = SubSeq(s, 1, n)
           /\ \A i \in 1..n : AuthKey[s[i]] = AuthKey[s[1]]
<1> DEFINE Good(n) == /\ \A i \in 1..n : AuthKey[s[i]] = AuthKey[s[1]]
                      /\ n < Len(s) => AuthKey[s[n + 1]] # AuthKey[s[1]]
           Other == {i \in 1..Len(s) : AuthKey[s[i]] # AuthKey[s[1]]}
<1>0. Len(s) \in Nat /\ Len(s) >= 1
  OBVIOUS
<1>1. \E n \in 1..Len(s) : Good(n)
  <2>1. CASE Other = {}
    <3>1. Good(Len(s))
      BY <2>1, <1>0
    <3> QED BY <3>1, <1>0
  <2>2. CASE Other # {}
    <3>1. PICK k \in Other : \A j \in 1..(k - 1) : j \notin Other
      BY <1>0, <2>2, FirstPosition
    <3>2. k \in 1..Len(s) /\ k # 1
      BY <3>1
    <3>3. Good(k - 1) /\ k - 1 \in 1..Len(s)
      BY <1>0, <3>1, <3>2
    <3> QED BY <3>3
  <2> QED BY <2>1, <2>2
<1> DEFINE e == CHOOSE n \in 1..Len(s) : Good(n)
<1>2. e \in 1..Len(s) /\ Good(e)
  BY <1>1
<1>3. FirstGroup(s) = SubSeq(s, 1, e)
  BY DEF FirstGroup
<1> QED BY <1>2, <1>3

\* A uniform prefix and the rest of a sequence share it out.
LEMMA GroupSplits ==
  ASSUME NEW s \in Seq(Messages), s # <<>>
  PROVE  LET g == FirstGroup(s)
             r == Drop(s, Len(g))
         IN  /\ g \in Seq(Messages) /\ r \in Seq(Messages)
             /\ Len(g) \in 1..Len(s) /\ Len(r) = Len(s) - Len(g)
             /\ \A i \in 1..Len(g) : g[i] = s[i]
             /\ \A i \in 1..Len(r) : r[i] = s[Len(g) + i]
             /\ \A a, b \in ToSet(g) : AuthKey[a] = AuthKey[b]
             /\ g \o r = s
<1> DEFINE g == FirstGroup(s)
           r == Drop(s, Len(g))
<1>1. PICK n \in 1..Len(s) :
        g = SubSeq(s, 1, n) /\ \A i \in 1..n : AuthKey[s[i]] = AuthKey[s[1]]
  BY FirstGroupElements
<1>2. g \in Seq(Messages) /\ Len(g) = n /\ \A i \in 1..n : g[i] = s[i]
  BY <1>1
<1> HIDE DEF g
<1>3. /\ r \in Seq(Messages) /\ Len(r) = Len(s) - n
      /\ \A i \in 1..(Len(s) - n) : r[i] = s[n + i]
  BY <1>2, DropElements
<1> HIDE DEF r
<1>4. \A a, b \in ToSet(g) : AuthKey[a] = AuthKey[b]
  BY <1>1, <1>2 DEF ToSet
<1>5. g \o r = s
  <2>0. n \in Nat /\ Len(s) \in Nat /\ n <= Len(s)
    BY <1>1
  <2>1. g \o r \in Seq(Messages) /\ Len(g \o r) = Len(g) + Len(r)
    BY <1>2, <1>3, ConcatProperties
  <2>2. Len(g \o r) = Len(s)
    BY <2>0, <2>1, <1>2, <1>3
  <2>3. ASSUME NEW i \in 1..Len(g \o r) PROVE (g \o r)[i] = s[i]
    <3>1. CASE i <= n
      <4>1. (g \o r)[i] = g[i]
        BY <1>2, <1>3, <2>0, <2>2, <3>1
      <4> QED BY <1>2, <2>0, <3>1, <4>1
    <3>2. CASE i > n
      <4>1. (g \o r)[i] = r[i - n]
        BY <1>2, <1>3, <2>0, <2>2, <3>2
      <4>2. i - n \in 1..(Len(s) - n) /\ n + (i - n) = i
        BY <2>0, <2>2, <3>2
      <4>3. r[i - n] = s[n + (i - n)]
        BY <1>3, <4>2
      <4> QED BY <4>1, <4>2, <4>3
    <3> QED BY <2>0, <2>2, <3>1, <3>2
  <2> QED BY <2>1, <2>2, <2>3, SeqEqual
<1> QED BY <1>2, <1>3, <1>4, <1>5 DEF g, r
-----------------------------------------------------------------------------
(* The effect of the helpers on a queue.                                   *)

\* What push and the drop policy leave: a suffix of what waited, and the message.
LEMMA PushElements ==
  ASSUME NEW Q \in FollowupQueueState, Len(Q.items) <= Cap, Len(Q.summaryLines) <= Cap,
         NEW m \in Messages
  PROVE  LET R == Push(Q, m)
             gone == Overflow(Q)
         IN  /\ R \in FollowupQueueState
             /\ Len(R.items) <= Cap /\ Len(R.summaryLines) <= Cap
             /\ R.draining = Q.draining /\ R.lastRun = {m}
             /\ gone \in Seq(Messages) /\ Len(gone) <= Len(Q.items)
             /\ \A i \in 1..Len(gone) : gone[i] = Q.items[i]
             /\ IF Len(Q.items) >= Cap /\ DropPolicy = "new"
                THEN R.items = Q.items /\ gone = <<>>
                ELSE R.items = Append(Drop(Q.items, Len(gone)), m)
             /\ Len(Q.items) >= Cap /\ DropPolicy # "new" => gone # <<>>
             /\ Len(Q.items) < Cap => gone = <<>>
             /\ ToSet(R.summaryLines) \subseteq ToSet(Q.summaryLines) \cup ToSet(gone)
             /\ DropPolicy # "summarize" =>
                  R.summaryLines = Q.summaryLines /\ R.droppedCount = Q.droppedCount
             /\ gone = <<>> /\ Q.summaryLines = <<>> =>
                  R.summaryLines = <<>> /\ R.droppedCount = Q.droppedCount
<1> DEFINE gone == Overflow(Q)
           R == Push(Q, m)
           N == Len(Q.items)
<1>q. /\ Q.items \in Seq(Messages) /\ Q.summaryLines \in Seq(Messages)
      /\ Q.droppedCount \in Nat /\ N \in Nat /\ Cap \in Nat /\ Cap >= 1
  BY FollowupQueueAssumption DEF FollowupQueueState
<1>1. /\ gone \in Seq(Messages) /\ Len(gone) <= N
      /\ \A i \in 1..Len(gone) : gone[i] = Q.items[i]
      /\ N >= Cap /\ DropPolicy # "new" => gone # <<>> /\ Len(gone) = N - Cap + 1
      /\ N < Cap \/ DropPolicy = "new" => gone = <<>> /\ Len(gone) = 0
  <2>1. CASE N < Cap \/ DropPolicy = "new"
    <3>1. gone = <<>>
      BY <2>1 DEF Overflow
    <3> QED BY <1>q, <2>1, <3>1
  <2>2. CASE ~(N < Cap \/ DropPolicy = "new")
    <3>1. gone = SubSeq(Q.items, 1, N - Cap + 1)
      BY <2>2 DEF Overflow
    <3>2. N - Cap + 1 \in 1..N
      BY <1>q, <2>2
    <3>3. /\ SubSeq(Q.items, 1, N - Cap + 1) \in Seq(Messages)
          /\ Len(SubSeq(Q.items, 1, N - Cap + 1)) = N - Cap + 1
          /\ \A i \in 1..(N - Cap + 1) : SubSeq(Q.items, 1, N - Cap + 1)[i] = Q.items[i]
      BY <1>q, <3>2
    <3> HIDE DEF gone
    <3>4. gone \in Seq(Messages) /\ Len(gone) = N - Cap + 1
      BY <3>1, <3>3
    <3>5. \A i \in 1..Len(gone) : gone[i] = Q.items[i]
      BY <3>1, <3>3, <3>4
    <3>6. gone # <<>> /\ Len(gone) <= N
      BY <1>q, <3>2, <3>4
    <3> QED BY <2>2, <3>4, <3>5, <3>6
  <2> QED BY <2>1, <2>2
<1> HIDE DEF gone
<1>2. CASE N >= Cap /\ DropPolicy = "new"
  <2>1. R = [Q EXCEPT !.lastRun = {m}] /\ gone = <<>>
    BY <1>1, <1>2 DEF Push
  <2> QED BY <1>q, <1>1, <1>2, <2>1 DEF FollowupQueueState, gone
<1>3. CASE ~(N >= Cap /\ DropPolicy = "new")
  <2> DEFINE items == Append(Drop(Q.items, Len(gone)), m)
             kept == [Q EXCEPT !.items = items, !.lastRun = {m}]
             lines == Last(Q.summaryLines \o gone, Cap)
  <2>1. R = IF DropPolicy = "summarize"
            THEN [kept EXCEPT !.droppedCount = @ + Len(gone),
                              !.summaryLines = Last(@ \o gone, Cap)]
            ELSE kept
    BY <1>3 DEF Push, gone
  <2>2. Drop(Q.items, Len(gone)) \in Seq(Messages) /\ Len(Drop(Q.items, Len(gone))) = N - Len(gone)
    <3>1. Len(gone) \in 0..Len(Q.items)
      BY <1>q, <1>1
    <3> QED BY <1>q, <3>1, DropElements
  <2>3. items \in Seq(Messages) /\ Len(items) <= Cap
    BY <1>q, <1>1, <1>3, <2>2
  <2>4. /\ lines \in Seq(Messages) /\ Len(lines) <= Cap
        /\ ToSet(lines) \subseteq ToSet(Q.summaryLines) \cup ToSet(gone)
    <3>1. Q.summaryLines \o gone \in Seq(Messages)
      BY <1>q, <1>1
    <3>2. ToSet(Q.summaryLines \o gone) = ToSet(Q.summaryLines) \cup ToSet(gone)
      BY <1>q, <1>1, ConcatSet
    <3> QED BY <1>q, <3>1, <3>2, LastElements
  <2>5. gone = <<>> /\ Q.summaryLines = <<>> => lines = <<>>
    <3>1. <<>> \o <<>> = <<>> /\ Last(<<>>, Cap) = <<>>
      BY <1>q DEF Last
    <3> QED BY <3>1
  <2> HIDE DEF items, lines
  <2>6. /\ kept \in FollowupQueueState /\ kept.items = items /\ kept.lastRun = {m}
        /\ kept.draining = Q.draining /\ kept.summaryLines = Q.summaryLines
        /\ kept.droppedCount = Q.droppedCount
    BY <2>3 DEF FollowupQueueState
  <2> HIDE DEF kept
  <2>7. CASE DropPolicy = "summarize"
    <3>1. R = [kept EXCEPT !.droppedCount = Q.droppedCount + Len(gone), !.summaryLines = lines]
      BY <2>1, <2>6, <2>7 DEF lines
    <3>2. Len(gone) \in Nat /\ (gone = <<>> => Len(gone) = 0)
          /\ Q.droppedCount + Len(gone) \in Nat
      BY <1>1, <1>q
    <3>3. /\ R \in FollowupQueueState /\ R.items = items /\ R.lastRun = {m}
          /\ R.draining = Q.draining /\ R.summaryLines = lines
          /\ R.droppedCount = Q.droppedCount + Len(gone)
      BY <2>4, <2>6, <3>1, <3>2 DEF FollowupQueueState
    <3> HIDE DEF R
    <3>4. gone = <<>> => R.droppedCount = Q.droppedCount
      BY <1>q, <3>2, <3>3
    <3> QED BY <1>q, <1>1, <1>3, <2>3, <2>4, <2>5, <2>7, <3>3, <3>4 DEF items, gone, R
  <2>8. CASE DropPolicy # "summarize"
    <3>1. R = kept
      BY <2>1, <2>8
    <3> QED BY <1>q, <1>1, <1>3, <2>3, <2>6, <2>8, <3>1 DEF items, gone, R
  <2> QED BY <2>7, <2>8
<1> QED BY <1>2, <1>3

\* What an awaited turn leaves of a queue: a suffix, and no summary if the turn
\* carried one.
LEMMA AfterTurnElements ==
  ASSUME NEW Q \in FollowupQueueState, NEW d \in Drain
  PROVE  LET R == AfterTurn(Q, d)
             n == IF d.kind = "summary" THEN 0 ELSE Len(d.batch)
         IN  /\ R \in FollowupQueueState
             /\ R.draining = Q.draining /\ R.lastRun = Q.lastRun /\ R.mode = Q.mode
             /\ R.items = IF n >= Len(Q.items) THEN <<>> ELSE Drop(Q.items, n)
             /\ Len(R.items) <= Len(Q.items)
             /\ \A i \in 1..Len(R.items) : i + n \in 1..Len(Q.items) /\ R.items[i] = Q.items[i + n]
             /\ IF d.summary # <<>>
                THEN R.summaryLines = <<>> /\ R.droppedCount = 0
                ELSE R.summaryLines = Q.summaryLines /\ R.droppedCount = Q.droppedCount
<1> DEFINE n == IF d.kind = "summary" THEN 0 ELSE Len(d.batch)
           items == IF n >= Len(Q.items) THEN <<>> ELSE Drop(Q.items, n)
           S == [Q EXCEPT !.items = items]
           R == AfterTurn(Q, d)
<1>1. n \in Nat /\ Q.items \in Seq(Messages) /\ Len(Q.items) \in Nat
  BY DEF Drain, FollowupQueueState
<1>2. R = IF d.summary # <<>> THEN clearQueueSummaryState(S) ELSE S
  BY DEF AfterTurn
<1> HIDE DEF n, R
<1>3. /\ items \in Seq(Messages) /\ Len(items) <= Len(Q.items)
      /\ \A i \in 1..Len(items) : i + n \in 1..Len(Q.items) /\ items[i] = Q.items[i + n]
  <2>1. CASE n >= Len(Q.items)
    BY <1>1, <2>1
  <2>2. CASE n < Len(Q.items)
    <3>1. /\ Drop(Q.items, n) \in Seq(Messages) /\ Len(Drop(Q.items, n)) = Len(Q.items) - n
          /\ \A i \in 1..(Len(Q.items) - n) : Drop(Q.items, n)[i] = Q.items[n + i]
      <4>1. n \in 0..Len(Q.items)
        BY <1>1, <2>2
      <4> QED BY <1>1, <4>1, DropElements
    <3>2. items = Drop(Q.items, n)
      BY <1>1, <2>2
    <3> HIDE DEF items
    <3>3. \A i \in 1..Len(items) : i + n \in 1..Len(Q.items) /\ n + i = i + n
      BY <1>1, <2>2, <3>1, <3>2
    <3> QED BY <1>1, <3>1, <3>2, <3>3
  <2> QED BY <1>1, <2>1, <2>2
<1>4. items = IF n >= Len(Q.items) THEN <<>> ELSE Drop(Q.items, n)
  OBVIOUS
<1> HIDE DEF items
<1>5. /\ S \in FollowupQueueState /\ S.items = items /\ S.draining = Q.draining
      /\ S.lastRun = Q.lastRun /\ S.mode = Q.mode /\ S.summaryLines = Q.summaryLines
      /\ S.droppedCount = Q.droppedCount
  BY <1>3 DEF FollowupQueueState
<1> HIDE DEF S
<1>6. /\ R \in FollowupQueueState /\ R.items = items /\ R.draining = Q.draining
      /\ R.lastRun = Q.lastRun /\ R.mode = Q.mode
      /\ IF d.summary # <<>>
         THEN R.summaryLines = <<>> /\ R.droppedCount = 0
         ELSE R.summaryLines = Q.summaryLines /\ R.droppedCount = Q.droppedCount
  <2>1. CASE d.summary # <<>>
    <3>1. R = [S EXCEPT !.droppedCount = 0, !.summaryLines = <<>>]
      BY <1>2, <2>1 DEF clearQueueSummaryState
    <3>2. <<>> \in Seq(Messages) /\ 0 \in Nat
      OBVIOUS
    <3>3. /\ R \in FollowupQueueState /\ R.items = S.items /\ R.draining = S.draining
          /\ R.lastRun = S.lastRun /\ R.mode = S.mode
          /\ R.summaryLines = <<>> /\ R.droppedCount = 0
      BY <1>5, <3>1, <3>2 DEF FollowupQueueState
    <3> QED BY <1>5, <2>1, <3>3
  <2>2. CASE d.summary = <<>>
    BY <1>2, <1>5, <2>2
  <2> QED BY <2>1, <2>2
<1> QED BY <1>3, <1>4, <1>6 DEF R, n

\* The queues and drains become qs and ds, but for a drain that begins or goes on
\* with its debounce because there is work.
Settles(qs, ds) ==
  /\ queue' \in [Queues -> FollowupQueueState] /\ drain' \in [Queues -> Drain]
  /\ registered' \in Queues \cup {NoQueue}
  /\ \A p \in Queues :
       /\ queue'[p].items = qs[p].items /\ queue'[p].summaryLines = qs[p].summaryLines
       /\ queue'[p].droppedCount = qs[p].droppedCount
       /\ queue'[p].draining <=> drain'[p].pc # "off"
       /\ \/ drain'[p] = ds[p]
          \/ /\ ds[p].pc = "off" /\ drain'[p].pc = "debounce" /\ HasWork(qs[p])
             /\ p = registered' \/ drain[p].pc # "off"

\* scheduleFollowupDrain begins the drain of the registered queue if there is work,
\* and removes the queue if there is none.
LEMMA ScheduleSettles ==
  ASSUME NEW qs \in [Queues -> FollowupQueueState], NEW ds \in [Queues -> Drain],
         NEW r \in Queues \cup {NoQueue},
         \A p \in Queues : qs[p].draining <=> ds[p].pc # "off",
         Becomes(scheduleFollowupDrain(qs, ds, r))
  PROVE  /\ Settles(qs, ds) /\ registered' \in {r, NoQueue}
         /\ r \in Queues /\ registered' = NoQueue => ~HasWork(qs[r]) /\ ds[r].pc = "off"
         /\ registered' \in Queues => registered' = r /\ drain'[r].pc # "off"
<1>n. NoQueue \notin Queues
  BY FollowupQueueAssumption
<1>1. CASE r = NoQueue \/ qs[r].draining
  <2>1. queue' = qs /\ drain' = ds /\ registered' = r
    BY <1>1 DEF Becomes, scheduleFollowupDrain
  <2> QED BY <1>n, <1>1, <2>1 DEF Settles
<1>2. CASE ~(r = NoQueue \/ qs[r].draining) /\ ~HasWork(qs[r])
  <2>1. queue' = qs /\ drain' = ds /\ registered' = NoQueue
    BY <1>2 DEF Becomes, scheduleFollowupDrain
  <2> QED BY <1>n, <1>2, <2>1 DEF Settles
<1>3. CASE ~(r = NoQueue \/ qs[r].draining) /\ HasWork(qs[r])
  <2> DEFINE q == [qs[r] EXCEPT !.draining = TRUE]
             d == [NoDrain EXCEPT !.pc = "debounce"]
  <2>0. r \in Queues
    BY <1>3
  <2>1. /\ queue' = [qs EXCEPT ![r].draining = TRUE] /\ registered' = r
        /\ drain' = [ds EXCEPT ![r] = d]
    BY <1>3 DEF Becomes, scheduleFollowupDrain
  <2>2. /\ q \in FollowupQueueState /\ q.items = qs[r].items /\ q.draining = TRUE
        /\ q.summaryLines = qs[r].summaryLines /\ q.droppedCount = qs[r].droppedCount
    BY <2>0 DEF FollowupQueueState
  <2>3. d \in Drain /\ d.pc = "debounce"
    <3>1. NoDrain \in Drain
      BY DEF NoDrain, Drain, Kinds
    <3> QED BY <3>1 DEF Drain
  <2>4. \A p \in Queues : /\ queue'[p] = IF p = r THEN q ELSE qs[p]
                          /\ drain'[p] = IF p = r THEN d ELSE ds[p]
    BY <2>1
  <2>5. queue' \in [Queues -> FollowupQueueState] /\ drain' \in [Queues -> Drain]
    BY <2>1, <2>2, <2>3
  <2> HIDE DEF q, d
  <2> QED BY <1>n, <1>3, <2>0, <2>1, <2>2, <2>3, <2>4, <2>5 DEF Settles
<1> QED BY <1>1, <1>2, <1>3

\* The end of the drain of o.
LEMMA EndDrainSettles ==
  ASSUME TypeInv, NEW o \in Queues, NEW Q \in FollowupQueueState, EndDrain(o, Q)
  PROVE  /\ Settles([queue EXCEPT ![o] = Q], [drain EXCEPT ![o] = NoDrain])
         /\ registered' \in {registered, NoQueue}
         /\ registered = o /\ registered' = NoQueue => ~HasWork(Q)
         /\ registered' = o => drain'[o].pc # "off"
<1> DEFINE qs == [queue EXCEPT ![o] = [Q EXCEPT !.draining = FALSE]]
           ds == [drain EXCEPT ![o] = NoDrain]
           R == [Q EXCEPT !.draining = FALSE]
<1>1. /\ R \in FollowupQueueState /\ R.items = Q.items /\ R.draining = FALSE
      /\ R.summaryLines = Q.summaryLines /\ R.droppedCount = Q.droppedCount
  BY DEF FollowupQueueState
<1>2. NoDrain \in Drain /\ NoDrain.pc = "off"
  BY DEF NoDrain, Drain, Kinds
<1>3. /\ qs \in [Queues -> FollowupQueueState] /\ ds \in [Queues -> Drain]
      /\ \A p \in Queues : /\ qs[p] = IF p = o THEN R ELSE queue[p]
                           /\ ds[p] = IF p = o THEN NoDrain ELSE drain[p]
  BY <1>1, <1>2 DEF TypeInv
<1>4. Becomes(IF HasWork(Q) THEN scheduleFollowupDrain(qs, ds, registered)
              ELSE [queue |-> qs, drain |-> ds, registered |-> NoQueue])
  BY DEF EndDrain
<1>5. registered \in Queues \cup {NoQueue}
  BY DEF TypeInv
<1>w. HasWork(R) <=> HasWork(Q)
  BY <1>1 DEF HasWork
<1>q. \A p \in Queues : /\ [queue EXCEPT ![o] = Q][p] = IF p = o THEN Q ELSE queue[p]
                        /\ ds[p].pc = IF p = o THEN "off" ELSE drain[p].pc
  BY <1>2, <1>3 DEF TypeInv
<1> HIDE DEF qs, R
<1>6. \A p \in Queues : qs[p].draining <=> ds[p].pc # "off"
  BY <1>1, <1>3, <1>q DEF TypeInv
<1>7. /\ Settles(qs, ds) /\ registered' \in {registered, NoQueue}
      /\ registered = o /\ registered' = NoQueue => ~HasWork(Q)
      /\ registered' = o => drain'[o].pc # "off"
  <2>1. CASE HasWork(Q)
    <3>1. Becomes(scheduleFollowupDrain(qs, ds, registered))
      BY <1>4, <2>1
    <3>2. /\ Settles(qs, ds) /\ registered' \in {registered, NoQueue}
          /\ registered \in Queues /\ registered' = NoQueue =>
               ~HasWork(qs[registered]) /\ ds[registered].pc = "off"
          /\ registered' \in Queues => registered' = registered /\ drain'[registered].pc # "off"
      <4>1. qs \in [Queues -> FollowupQueueState] /\ ds \in [Queues -> Drain]
        BY <1>3
      <4> HIDE DEF ds
      <4> QED BY <1>5, <1>6, <3>1, <4>1, ScheduleSettles
    <3> QED BY <1>3, <1>w, <3>2
  <2>2. CASE ~HasWork(Q)
    <3>1. queue' = qs /\ drain' = ds /\ registered' = NoQueue
      BY <1>4, <2>2 DEF Becomes
    <3>2. NoQueue \notin Queues
      BY FollowupQueueAssumption
    <3> QED BY <1>3, <1>6, <2>2, <3>1, <3>2 DEF Settles
  <2> QED BY <2>1, <2>2
<1> HIDE DEF ds
<1>8. \A p \in Queues :
        /\ qs[p].items = [queue EXCEPT ![o] = Q][p].items
        /\ qs[p].summaryLines = [queue EXCEPT ![o] = Q][p].summaryLines
        /\ qs[p].droppedCount = [queue EXCEPT ![o] = Q][p].droppedCount
  BY <1>1, <1>3, <1>q
<1>9. \A p \in Queues : HasWork(qs[p]) <=> HasWork([queue EXCEPT ![o] = Q][p])
  BY <1>8 DEF HasWork
<1>10. Settles([queue EXCEPT ![o] = Q], ds)
  BY <1>7, <1>8, <1>9 DEF Settles
<1> QED BY <1>7, <1>10 DEF ds

\* The head of the loop.
LEMMA LoopHeadSettles ==
  ASSUME TypeInv, NEW o \in Queues, NEW Q \in FollowupQueueState, LoopHead(o, Q),
         Q.draining, drain[o].pc # "off"
  PROVE  /\ Settles([queue EXCEPT ![o] = Q], [drain EXCEPT ![o] = NoDrain])
         /\ registered' \in {registered, NoQueue}
         /\ registered = o /\ registered' = NoQueue => ~HasWork(Q)
         /\ registered' = o => drain'[o].pc # "off"
<1>1. CASE HasWork(Q)
  <2> DEFINE d == [drain[o] EXCEPT !.pc = "debounce"]
  <2>1. /\ queue' = [queue EXCEPT ![o] = Q] /\ drain' = [drain EXCEPT ![o].pc = "debounce"]
        /\ registered' = registered
    BY <1>1 DEF LoopHead
  <2>2. d \in Drain /\ d.pc = "debounce"
    BY DEF TypeInv, Drain
  <2>3. \A p \in Queues :
          /\ queue'[p] = IF p = o THEN Q ELSE queue[p]
          /\ drain'[p] = IF p = o THEN d ELSE drain[p]
          /\ [drain EXCEPT ![o] = NoDrain][p] = IF p = o THEN NoDrain ELSE drain[p]
    BY <2>1 DEF TypeInv
  <2>4. queue' \in [Queues -> FollowupQueueState] /\ drain' \in [Queues -> Drain]
    BY <2>1, <2>2 DEF TypeInv
  <2>5. NoDrain.pc = "off" /\ registered \in Queues \cup {NoQueue} /\ NoQueue \notin Queues
    BY FollowupQueueAssumption DEF NoDrain, TypeInv
  <2>6. \A p \in Queues : queue[p].draining <=> drain[p].pc # "off"
    BY DEF TypeInv
  <2> HIDE DEF d
  <2>7. Settles(queue', [drain EXCEPT ![o] = NoDrain])
    BY <1>1, <2>1, <2>2, <2>3, <2>4, <2>5, <2>6 DEF Settles
  <2>8. drain'[o].pc # "off"
    BY <2>2, <2>3
  <2> QED BY <2>1, <2>5, <2>7, <2>8
<1>2. CASE ~HasWork(Q)
  <2>1. EndDrain(o, Q)
    BY <1>2 DEF LoopHead
  <2> QED BY <2>1, EndDrainSettles
<1> QED BY <1>1, <1>2

-----------------------------------------------------------------------------
(* The shapes of the steps.                                                *)

\* What a drain that takes messages takes: the head of the queue and, if its turn
\* carries a summary, the lines it has.
Takes(o, d) ==
  LET items == queue[o].items
      n == Len(d.batch)
      k == Len(d.rest)
  IN  /\ d.pc = "starting" /\ n + k <= Len(items)
      /\ \A j \in 1..n : d.batch[j] = items[j]
      /\ \A j \in 1..k : d.rest[j] = items[n + j]
      /\ d.batch \o d.rest = SubSeq(items, 1, n + k)
      /\ d.summary \in {<<>>, queue[o].summaryLines}
      /\ d.kind = "summary" => d.rest = <<>>
      /\ queue[o].droppedCount = 0 =>
           /\ d.kind \in {"item", "collect"} /\ d.summary = <<>> /\ d.batch # <<>>
           /\ d.run = RunOf(d.batch)
      /\ \A a, b \in ToSet(d.batch) \cup ToSet(d.rest) : Channel[a] = Channel[b]
      /\ \A a, b \in ToSet(d.batch) : AuthKey[a] = AuthKey[b]

\* Without cross-channel items there is one channel.
LEMMA OneChannel ==
  ASSUME NEW s \in Seq(Messages), ~hasCrossChannelItems(s)
  PROVE  \A a, b \in ToSet(s) : Channel[a] = Channel[b]
<1> DEFINE keys == {Channel[m] : m \in ToSet(s)}
<1>1. Cardinality(keys) <= 1 \/ ~(Cardinality(keys) > 1)
  BY DEF hasCrossChannelItems
<1>2. IsFiniteSet(keys)
  <2> DEFINE f == [i \in 1..Len(s) |-> Channel[s[i]]]
  <2>1. IsFiniteSet(1..Len(s))
    BY FS_Interval
  <2>2. f \in Surjection(1..Len(s), keys)
    BY DEF Surjection, ToSet
  <2> QED BY <2>1, <2>2, FS_Surjection
<1> SUFFICES ASSUME NEW a \in ToSet(s), NEW b \in ToSet(s), Channel[a] # Channel[b] PROVE FALSE
  OBVIOUS
<1>3. {Channel[a], Channel[b]} \subseteq keys
  OBVIOUS
<1>4. Cardinality({Channel[a], Channel[b]}) = 2
  <2>1. IsFiniteSet({Channel[a]}) /\ Cardinality({Channel[a]}) = 1
    BY FS_Singleton
  <2>2. Cardinality({Channel[a]} \cup {Channel[b]}) = Cardinality({Channel[a]}) + 1
    BY <2>1, FS_AddElement
  <2>3. {Channel[a]} \cup {Channel[b]} = {Channel[a], Channel[b]}
    OBVIOUS
  <2>4. 1 + 1 = 2
    OBVIOUS
  <2>5. Cardinality({Channel[a]} \cup {Channel[b]}) = 1 + 1
    BY <2>1, <2>2, Zenon
  <2> QED BY <2>3, <2>4, <2>5, Zenon
<1> HIDE DEF keys
<1>5. Cardinality({Channel[a], Channel[b]}) <= Cardinality(keys) /\ Cardinality(keys) \in Nat
  BY <1>2, <1>3, FS_Subset, FS_CardinalityType
<1> QED BY <1>1, <1>4, <1>5 DEF keys

\* The run of a turn.
LEMMA RunOfType ==
  ASSUME NEW s \in Seq(Messages)
  PROVE  RunOf(s) \subseteq ToSet(s) /\ RunOf(s) \subseteq Messages
<1>1. CASE s = <<>>
  BY <1>1 DEF RunOf
<1>2. CASE s # <<>>
  <2>1. Len(s) \in 1..Len(s) /\ s[Len(s)] \in Messages
    BY <1>2
  <2> QED BY <1>2, <2>1 DEF RunOf, ToSet
<1> QED BY <1>1, <1>2

\* The end of a debounce: the drain ends, or takes messages or the summary.
LEMMA DebounceShape ==
  ASSUME TypeInv, NEW o \in Queues, DebounceEnds(o)
  PROVE  \/ EndDrain(o, queue[o])
         \/ /\ UNCHANGED <<queue, registered>>
            /\ \E d \in Drain : drain' = [drain EXCEPT ![o] = d] /\ Takes(o, d)
<1> DEFINE Q == queue[o]
           Taken == \E d \in Drain : drain' = [drain EXCEPT ![o] = d] /\ Takes(o, d)
<1> SUFFICES EndDrain(o, queue[o]) \/ (UNCHANGED <<queue, registered>> /\ Taken)
  OBVIOUS
<1>q. /\ Q \in FollowupQueueState /\ Q.items \in Seq(Messages) /\ Len(Q.items) \in Nat
      /\ Q.summaryLines \in Seq(Messages) /\ Q.droppedCount \in Nat /\ Q.lastRun \subseteq Messages
  BY DEF TypeInv, FollowupQueueState
<1>e. <<>> \in Seq(Messages) /\ ToSet(<<>>) = {} /\ Len(<<>>) = 0 /\ <<>> \o <<>> = <<>>
  BY DEF ToSet
<1>1. ASSUME NEW kind \in Kinds, NEW batch \in Seq(Messages), NEW rest \in Seq(Messages),
             NEW summary \in {<<>>, Q.summaryLines}, NEW force \in BOOLEAN,
             Starting(o, kind, batch, rest, summary, force),
             Len(batch) + Len(rest) <= Len(Q.items),
             \A j \in 1..Len(batch) : batch[j] = Q.items[j],
             \A j \in 1..Len(rest) : rest[j] = Q.items[Len(batch) + j],
             batch \o rest = SubSeq(Q.items, 1, Len(batch) + Len(rest)),
             kind = "summary" => rest = <<>>,
             Q.droppedCount = 0 =>
               kind \in {"item", "collect"} /\ summary = <<>> /\ batch # <<>>,
             \A a, b \in ToSet(batch) \cup ToSet(rest) : Channel[a] = Channel[b],
             \A a, b \in ToSet(batch) : AuthKey[a] = AuthKey[b]
      PROVE  UNCHANGED <<queue, registered>> /\ Taken
  <2> DEFINE d == [pc |-> "starting", kind |-> kind, batch |-> batch, rest |-> rest,
                   summary |-> summary, forceIndividualCollect |-> force,
                   run |-> IF kind \in {"item", "collect"} THEN RunOf(batch)
                           ELSE queue[o].lastRun]
  <2>1. UNCHANGED <<queue, registered>> /\ drain' = [drain EXCEPT ![o] = d]
    BY <1>1 DEF Starting
  <2>2. (IF kind \in {"item", "collect"} THEN RunOf(batch) ELSE queue[o].lastRun)
          \in SUBSET Messages
    BY <1>q, RunOfType
  <2>a. summary \in Seq(Messages)
    BY <1>q, <1>e
  <2>3. /\ d \in Drain /\ d.pc = "starting" /\ d.kind = kind /\ d.batch = batch /\ d.rest = rest
        /\ d.summary = summary /\ (kind \in {"item", "collect"} => d.run = RunOf(batch))
    BY <2>2, <2>a DEF Drain
  <2> HIDE DEF d
  <2>4. Takes(o, d)
    BY <1>1, <2>3 DEF Takes
  <2> QED BY <2>1, <2>3, <2>4
<1>s. HasSummary(Q) => Q.droppedCount > 0
  BY DEF HasSummary
<1>o. ASSUME Q.items # <<>>
      PROVE  LET b == <<Q.items[1]>>
             IN  /\ b \in Seq(Messages) /\ Len(b) = 1 /\ b # <<>> /\ b[1] = Q.items[1]
                 /\ ToSet(b) = {Q.items[1]} /\ Len(Q.items) >= 1
                 /\ b \o <<>> = SubSeq(Q.items, 1, Len(b) + Len(<<>>))
  <2>1. Q.items[1] \in Messages /\ Len(Q.items) >= 1
    BY <1>q, <1>o
  <2>2. SubSeq(Q.items, 1, 1) = <<Q.items[1]>>
    <3>1. /\ SubSeq(Q.items, 1, 1) \in Seq(Messages) /\ Len(SubSeq(Q.items, 1, 1)) = 1
          /\ SubSeq(Q.items, 1, 1)[1] = Q.items[1]
      BY <1>q, <2>1
    <3>2. <<Q.items[1]>> \in Seq(Messages) /\ Len(<<Q.items[1]>>) = 1
      BY <2>1
    <3>3. \A i \in 1..1 : SubSeq(Q.items, 1, 1)[i] = <<Q.items[1]>>[i]
      BY <3>1
    <3> QED BY <3>1, <3>2, <3>3, SeqEqual
  <2> QED BY <2>1, <2>2 DEF ToSet
<1>i. ASSUME NEW kind \in Kinds, NEW summary \in {<<>>, Q.summaryLines}, NEW force \in BOOLEAN,
             Q.items # <<>>, Starting(o, kind, <<Q.items[1]>>, <<>>, summary, force),
             Q.droppedCount = 0 => kind = "item" /\ summary = <<>>
      PROVE  UNCHANGED <<queue, registered>> /\ Taken
  <2> DEFINE b == <<Q.items[1]>>
  <2>1. /\ b \in Seq(Messages) /\ Len(b) = 1 /\ b # <<>> /\ b[1] = Q.items[1]
        /\ ToSet(b) = {Q.items[1]} /\ Len(Q.items) >= 1
        /\ b \o <<>> = SubSeq(Q.items, 1, Len(b) + Len(<<>>))
    BY <1>i, <1>o
  <2>2. Starting(o, kind, b, <<>>, summary, force)
    BY <1>i
  <2> HIDE DEF b, Taken
  <2>3. Len(b) + Len(<<>>) <= Len(Q.items) /\ \A j \in 1..Len(b) : b[j] = Q.items[j]
    BY <1>e, <1>q, <2>1
  <2>4. \A j \in 1..Len(<<>>) : <<>>[j] = Q.items[Len(b) + j]
    BY <1>e
  <2>5. /\ \A x, y \in ToSet(b) \cup ToSet(<<>>) : Channel[x] = Channel[y]
        /\ \A x, y \in ToSet(b) : AuthKey[x] = AuthKey[y]
    BY <1>e, <2>1
  <2> QED BY <1>1, <1>i, <1>e, <2>1, <2>2, <2>3, <2>4, <2>5, ZenonT(90)
<1>2. CASE CollectStep(o)
  <2> DEFINE force == drain[o].forceIndividualCollect \/ hasCrossChannelItems(Q.items)
             group == FirstGroup(Q.items)
             rest == Drop(Q.items, Len(group))
             carried == IF HasSummary(Q) THEN Q.summaryLines ELSE <<>>
  <2>1. CASE Q.items = <<>>
    <3>1. CASE ~(HasSummary(Q) /\ Q.lastRun # {})
      BY <1>2, <2>1, <3>1 DEF CollectStep
    <3>2. CASE HasSummary(Q) /\ Q.lastRun # {}
      <4>1. Starting(o, "summary", <<>>, <<>>, Q.summaryLines, force)
        BY <1>2, <2>1, <3>2 DEF CollectStep
      <4>2. force \in BOOLEAN
        BY DEF TypeInv, Drain, hasCrossChannelItems
      <4>3. <<>> = SubSeq(Q.items, 1, 0)
        BY <1>q
      <4> HIDE DEF force, Taken
      <4>4. /\ Q.droppedCount # 0 /\ "summary" \in Kinds
            /\ Len(<<>>) + Len(<<>>) <= Len(Q.items)
            /\ <<>> \o <<>> = SubSeq(Q.items, 1, Len(<<>>) + Len(<<>>))
        BY <1>q, <1>e, <1>s, <3>2, <4>3 DEF Kinds
      <4>5. /\ \A j \in 1..Len(<<>>) : <<>>[j] = Q.items[j]
            /\ \A j \in 1..Len(<<>>) : <<>>[j] = Q.items[Len(<<>>) + j]
        BY <1>e
      <4>6. /\ \A a, b \in ToSet(<<>>) \cup ToSet(<<>>) : Channel[a] = Channel[b]
            /\ \A a, b \in ToSet(<<>>) : AuthKey[a] = AuthKey[b]
        BY <1>e
      <4> QED BY <1>1, <1>e, <4>1, <4>2, <4>4, <4>5, <4>6
    <3> QED BY <3>1, <3>2
  <2>2. CASE Q.items # <<>> /\ force
    <3>1. Starting(o, "item", <<Q.items[1]>>, <<>>, <<>>, TRUE)
      BY <1>2, <2>2 DEF CollectStep
    <3> QED BY <1>i, <2>2, <3>1 DEF Kinds
  <2>3. CASE Q.items # <<>> /\ ~force
    <3>1. Starting(o, "collect", group, rest, carried, FALSE)
      BY <1>2, <2>3 DEF CollectStep
    <3>2. /\ group \in Seq(Messages) /\ rest \in Seq(Messages)
          /\ Len(group) \in 1..Len(Q.items) /\ Len(rest) = Len(Q.items) - Len(group)
          /\ \A i \in 1..Len(group) : group[i] = Q.items[i]
          /\ \A i \in 1..Len(rest) : rest[i] = Q.items[Len(group) + i]
          /\ \A a, b \in ToSet(group) : AuthKey[a] = AuthKey[b]
          /\ group \o rest = Q.items
      BY <1>q, <2>3, GroupSplits
    <3>3. \A a, b \in ToSet(Q.items) : Channel[a] = Channel[b]
      BY <1>q, <2>3, OneChannel
    <3>4. carried \in {<<>>, Q.summaryLines} /\ (Q.droppedCount = 0 => carried = <<>>)
      BY <1>s, <1>q
    <3> HIDE DEF group, rest, carried, Taken
    <3>5. ToSet(group) \cup ToSet(rest) = ToSet(Q.items)
      <4>0. group \in Seq(Messages) /\ rest \in Seq(Messages)
        BY <3>2
      <4>1. ToSet(group \o rest) = ToSet(group) \cup ToSet(rest)
        BY <4>0, ConcatSet
      <4> QED BY <3>2, <4>1
    <3>6. Len(group) + Len(rest) = Len(Q.items) /\ group # <<>>
      BY <1>q, <3>2
    <3>7. group \o rest = SubSeq(Q.items, 1, Len(group) + Len(rest))
      BY <1>q, <3>2, <3>6
    <3>8. /\ group \in Seq(Messages) /\ rest \in Seq(Messages) /\ "collect" \in Kinds
          /\ carried \in {<<>>, Q.summaryLines} /\ FALSE \in BOOLEAN
          /\ Len(group) + Len(rest) <= Len(Q.items)
      BY <1>q, <3>2, <3>4, <3>6 DEF Kinds
    <3>9. /\ \A j \in 1..Len(group) : group[j] = Q.items[j]
          /\ \A j \in 1..Len(rest) : rest[j] = Q.items[Len(group) + j]
      BY <3>2
    <3>10. Q.droppedCount = 0 =>
             "collect" \in {"item", "collect"} /\ carried = <<>> /\ group # <<>>
      BY <3>4, <3>6
    <3>11. /\ \A a, b \in ToSet(group) \cup ToSet(rest) : Channel[a] = Channel[b]
           /\ \A a, b \in ToSet(group) : AuthKey[a] = AuthKey[b]
      BY <3>2, <3>3, <3>5
    <3>12. "collect" = "summary" => rest = <<>>
      OBVIOUS
    <3> QED BY <1>1, <3>1, <3>7, <3>8, <3>9, <3>10, <3>11, <3>12
  <2> QED BY <2>1, <2>2, <2>3
<1>3. CASE FollowupStep(o)
  <2>1. CASE Q.items = <<>> \/ (HasSummary(Q) /\ Q.lastRun = {})
    BY <1>3, <2>1 DEF FollowupStep
  <2>2. CASE Q.items # <<>> /\ HasSummary(Q) /\ Q.lastRun # {}
    <3>1. Starting(o, "summaryItem", <<Q.items[1]>>, <<>>, Q.summaryLines, FALSE)
      BY <1>3, <2>2 DEF FollowupStep
    <3>2. Q.droppedCount # 0 /\ "summaryItem" \in Kinds
      BY <1>q, <1>s, <2>2 DEF Kinds
    <3> HIDE DEF Taken
    <3> QED BY <1>i, <2>2, <3>1, <3>2
  <2>3. CASE Q.items # <<>> /\ ~HasSummary(Q)
    <3>1. Starting(o, "item", <<Q.items[1]>>, <<>>, <<>>, FALSE)
      BY <1>3, <2>3 DEF FollowupStep
    <3> QED BY <1>i, <2>3, <3>1 DEF Kinds
  <2> QED BY <2>1, <2>2, <2>3
<1> QED BY <1>2, <1>3 DEF DebounceEnds

\* The next batch of drain d: the first group of what it has left.
Follows(d, e) ==
  /\ e.pc = "starting" /\ e.kind = d.kind /\ e.summary = <<>> /\ e.run = RunOf(e.batch)
  /\ e.batch # <<>> /\ Len(e.batch) + Len(e.rest) = Len(d.rest)
  /\ \A j \in 1..Len(e.batch) : e.batch[j] = d.rest[j]
  /\ \A j \in 1..Len(e.rest) : e.rest[j] = d.rest[Len(e.batch) + j]
  /\ e.batch \o e.rest = d.rest
  /\ \A a, b \in ToSet(e.batch) : AuthKey[a] = AuthKey[b]

\* The return of a turn: the queue loses what the turn was about; the drain goes on
\* with the next batch, or with the loop.
LEMMA ReturnShape ==
  ASSUME TypeInv, NEW o \in Queues, TurnReturns(o)
  PROVE  LET d == drain[o]
             R == AfterTurn(queue[o], d)
         IN  /\ R \in FollowupQueueState
             /\ \/ /\ d.rest # <<>>
                   /\ queue' = [queue EXCEPT ![o] = R] /\ registered' = registered
                   /\ \E e \in Drain : drain' = [drain EXCEPT ![o] = e] /\ Follows(d, e)
                \/ /\ d.rest = <<>>
                   /\ Settles([queue EXCEPT ![o] = R], [drain EXCEPT ![o] = NoDrain])
                   /\ registered' \in {registered, NoQueue}
                   /\ registered = o /\ registered' = NoQueue => ~HasWork(R)
                   /\ registered' = o => drain'[o].pc # "off"
<1> DEFINE d == drain[o]
           R == AfterTurn(queue[o], d)
           g == FirstGroup(d.rest)
           e == [d EXCEPT !.pc = "starting", !.batch = g, !.rest = Drop(d.rest, Len(g)),
                          !.summary = <<>>, !.run = RunOf(g)]
<1>1. d \in Drain /\ queue[o] \in FollowupQueueState /\ d.pc = "running"
  BY DEF TypeInv, TurnReturns
<1>2. R \in FollowupQueueState /\ R.draining
  <2>1. R \in FollowupQueueState /\ R.draining = queue[o].draining
    BY <1>1, AfterTurnElements
  <2>2. queue[o].draining
    BY <1>1 DEF TypeInv
  <2> QED BY <2>1, <2>2
<1>3. CASE d.rest # <<>>
  <2>1. /\ queue' = [queue EXCEPT ![o] = R] /\ registered' = registered
        /\ drain' = [drain EXCEPT ![o] = e]
    BY <1>3 DEF TurnReturns
  <2>0. d.rest \in Seq(Messages)
    BY <1>1 DEF Drain
  <2>2. /\ g \in Seq(Messages) /\ Drop(d.rest, Len(g)) \in Seq(Messages)
        /\ Len(g) \in 1..Len(d.rest) /\ Len(Drop(d.rest, Len(g))) = Len(d.rest) - Len(g)
        /\ \A i \in 1..Len(g) : g[i] = d.rest[i]
        /\ \A i \in 1..Len(Drop(d.rest, Len(g))) :
             Drop(d.rest, Len(g))[i] = d.rest[Len(g) + i]
        /\ \A a, b \in ToSet(g) : AuthKey[a] = AuthKey[b]
        /\ g \o Drop(d.rest, Len(g)) = d.rest
    BY <1>3, <2>0, GroupSplits
  <2>3. RunOf(g) \subseteq Messages /\ <<>> \in Seq(Messages)
    BY <2>2, RunOfType
  <2>4. /\ e \in Drain /\ e.pc = "starting" /\ e.kind = d.kind /\ e.batch = g
        /\ e.rest = Drop(d.rest, Len(g)) /\ e.summary = <<>> /\ e.run = RunOf(g)
    BY <1>1, <2>2, <2>3 DEF Drain
  <2> HIDE DEF e, g, R, d
  <2>5. g # <<>> /\ Len(g) + Len(Drop(d.rest, Len(g))) = Len(d.rest)
    BY <2>0, <2>2
  <2>6. Follows(d, e)
    BY <2>2, <2>4, <2>5 DEF Follows
  <2> QED BY <1>2, <1>3, <2>1, <2>4, <2>6 DEF R, d
<1>4. CASE d.rest = <<>>
  <2>1. LoopHead(o, R)
    BY <1>4 DEF TurnReturns
  <2>2. drain[o].pc # "off"
    BY <1>1
  <2> HIDE DEF R
  <2>3. /\ Settles([queue EXCEPT ![o] = R], [drain EXCEPT ![o] = NoDrain])
        /\ registered' \in {registered, NoQueue}
        /\ registered = o /\ registered' = NoQueue => ~HasWork(R)
        /\ registered' = o => drain'[o].pc # "off"
    BY <1>2, <2>1, <2>2, LoopHeadSettles
  <2> QED BY <1>2, <1>4, <2>3 DEF R
<1> QED BY <1>3, <1>4

\* Queueing a message: in the queue of the map or in a fresh one, which are then
\* drained if no run is active.
QueuedIn(m, o, Q) ==
  LET skip == AlreadyQueued(Q, m)
      full == Len(Q.items) >= Cap /\ DropPolicy = "new"
      R == IF skip THEN Q ELSE Push(Q, m)
      gone == IF skip THEN {} ELSE ToSet(Overflow(Q))
  IN  /\ IF registered = NoQueue
         THEN drain[o].pc = "off" /\ Q.items = <<>> /\ Q.summaryLines = <<>> /\ Q.droppedCount = 0
         ELSE /\ o = registered /\ Q.items = queue[o].items
              /\ Q.summaryLines = queue[o].summaryLines
              /\ Q.droppedCount = queue[o].droppedCount
      /\ R \in FollowupQueueState /\ Len(R.items) <= Cap /\ Len(R.summaryLines) <= Cap
      /\ Settles([queue EXCEPT ![o] = R], drain)
      /\ registered' \in {o, NoQueue}
      /\ registered' = NoQueue => ~HasWork(R) /\ drain[o].pc = "off"
      /\ registered' = o => isRunActive \/ drain'[o].pc # "off"
      /\ recent' = IF skip \/ full THEN recent ELSE recent \cup ({MessageId[m]} \ {NoId})
      /\ accepted' = IF skip \/ full THEN accepted ELSE Append(accepted, m)
      /\ runSession' = IF skip THEN runSession ELSE [runSession EXCEPT ![m] = captured[m]]
      /\ behind' = (behind \/ (~skip /\ captured[m] # session))
      /\ dropped' = IF DropPolicy = "summarize" THEN dropped \cup gone ELSE dropped
      /\ discarded' = IF DropPolicy = "old" THEN discarded \cup gone ELSE discarded

\* What enqueueFollowupRun does.
LEMMA EnqueueShape ==
  ASSUME TypeInv, NEW m \in Messages, NEW mode \in Modes, enqueueFollowupRun(m, mode)
  PROVE  \E o \in Queues, Q \in FollowupQueueState : QueuedIn(m, o, Q)
<1> DEFINE o == IF registered = NoQueue THEN CHOOSE f \in Queues : Free(f) ELSE registered
           B == IF registered = NoQueue THEN EmptyQueue ELSE queue[o]
           Q == [B EXCEPT !.mode = mode]
           skip == AlreadyQueued(Q, m)
           R == IF skip THEN Q ELSE Push(Q, m)
           qs == [queue EXCEPT ![o] = R]
<1>1. o \in Queues /\ (registered = NoQueue => Free(o)) /\ (registered # NoQueue => o = registered)
  BY DEF enqueueFollowupRun, TypeInv
<1>2. Becomes(IF ~isRunActive THEN scheduleFollowupDrain(qs, drain, o)
              ELSE [queue |-> qs, drain |-> drain, registered |-> o])
  BY DEF enqueueFollowupRun
<1>3. /\ recent' = IF skip \/ (Len(Q.items) >= Cap /\ DropPolicy = "new")
                   THEN recent ELSE recent \cup ({MessageId[m]} \ {NoId})
      /\ accepted' = IF skip \/ (Len(Q.items) >= Cap /\ DropPolicy = "new")
                     THEN accepted ELSE Append(accepted, m)
      /\ runSession' = IF skip THEN runSession ELSE [runSession EXCEPT ![m] = captured[m]]
      /\ behind' = (behind \/ (~skip /\ captured[m] # session))
      /\ dropped' = IF DropPolicy = "summarize"
                    THEN dropped \cup (IF skip THEN {} ELSE ToSet(Overflow(Q))) ELSE dropped
      /\ discarded' = IF DropPolicy = "old"
                      THEN discarded \cup (IF skip THEN {} ELSE ToSet(Overflow(Q))) ELSE discarded
  BY DEF enqueueFollowupRun
<1> HIDE DEF o
<1>4. /\ B \in FollowupQueueState /\ Len(B.items) <= Cap /\ Len(B.summaryLines) <= Cap
      /\ B.draining <=> drain[o].pc # "off"
  <2>1. CASE registered = NoQueue
    <3>1. B = EmptyQueue /\ drain[o].pc = "off"
      BY <1>1, <2>1 DEF Free
    <3>2. /\ EmptyQueue \in FollowupQueueState /\ EmptyQueue.items = <<>>
          /\ EmptyQueue.summaryLines = <<>> /\ EmptyQueue.draining = FALSE
      BY DEF EmptyQueue, FollowupQueueState
    <3>3. Cap \in Nat /\ Len(<<>>) = 0
      BY FollowupQueueAssumption
    <3> QED BY <3>1, <3>2, <3>3
  <2>2. CASE registered # NoQueue
    BY <1>1, <2>2 DEF TypeInv
  <2> QED BY <2>1, <2>2
<1>5. IF registered = NoQueue
      THEN drain[o].pc = "off" /\ B.items = <<>> /\ B.summaryLines = <<>> /\ B.droppedCount = 0
      ELSE o = registered /\ B = queue[o]
  BY <1>1 DEF EmptyQueue, Free
<1> HIDE DEF B
<1>6. /\ Q \in FollowupQueueState /\ Q.items = B.items /\ Q.summaryLines = B.summaryLines
      /\ Q.draining = B.draining /\ Q.droppedCount = B.droppedCount
  <2>1. mode \in {"collect", "followup"}
    BY FollowupQueueAssumption
  <2> QED BY <1>4, <2>1 DEF FollowupQueueState
<1> HIDE DEF Q
<1>7. /\ R \in FollowupQueueState /\ Len(R.items) <= Cap /\ Len(R.summaryLines) <= Cap
      /\ R.draining = Q.draining
  <2>1. CASE skip
    BY <1>4, <1>6, <2>1
  <2>2. CASE ~skip
    <3>1. Len(Q.items) <= Cap /\ Len(Q.summaryLines) <= Cap
      BY <1>4, <1>6
    <3>2. /\ Push(Q, m) \in FollowupQueueState /\ Len(Push(Q, m).items) <= Cap
          /\ Len(Push(Q, m).summaryLines) <= Cap /\ Push(Q, m).draining = Q.draining
      BY <1>6, <3>1, PushElements
    <3> QED BY <2>2, <3>2
  <2> QED BY <2>1, <2>2
<1> HIDE DEF R
<1>8. /\ qs \in [Queues -> FollowupQueueState] /\ drain \in [Queues -> Drain]
      /\ \A p \in Queues : qs[p] = IF p = o THEN R ELSE queue[p]
  BY <1>1, <1>7 DEF TypeInv
<1>9. \A p \in Queues : qs[p].draining <=> drain[p].pc # "off"
  BY <1>4, <1>6, <1>7, <1>8 DEF TypeInv
<1>10. /\ Settles(qs, drain) /\ registered' \in {o, NoQueue}
       /\ registered' = NoQueue => ~HasWork(R) /\ drain[o].pc = "off"
       /\ registered' = o => isRunActive \/ drain'[o].pc # "off"
  <2>1. CASE ~isRunActive
    <3>1. Becomes(scheduleFollowupDrain(qs, drain, o))
      BY <1>2, <2>1
    <3> HIDE DEF qs
    <3>2. /\ Settles(qs, drain) /\ registered' \in {o, NoQueue}
          /\ o \in Queues /\ registered' = NoQueue => ~HasWork(qs[o]) /\ drain[o].pc = "off"
          /\ registered' \in Queues => registered' = o /\ drain'[o].pc # "off"
      BY <1>1, <1>8, <1>9, <3>1, ScheduleSettles
    <3> QED BY <1>1, <1>8, <3>2
  <2>2. CASE isRunActive
    <3>1. queue' = qs /\ drain' = drain /\ registered' = o
      BY <1>2, <2>2 DEF Becomes
    <3> HIDE DEF qs
    <3>2. o # NoQueue
      BY <1>1, FollowupQueueAssumption
    <3> QED BY <1>1, <1>8, <1>9, <2>2, <3>1, <3>2 DEF Settles
  <2> QED BY <2>1, <2>2
<1>11. QueuedIn(m, o, Q)
  BY <1>3, <1>5, <1>6, <1>7, <1>10 DEF QueuedIn, R
<1> QED BY <1>1, <1>6, <1>11

-----------------------------------------------------------------------------
(* Types.                                                                  *)

\* What settles has the types it had.
LEMMA SettlesTypes ==
  ASSUME NEW qs, NEW ds, Settles(qs, ds),
         \A p \in Queues : Len(qs[p].items) <= Cap /\ Len(qs[p].summaryLines) <= Cap
  PROVE  /\ registered' \in Queues \cup {NoQueue}
         /\ queue' \in [Queues -> FollowupQueueState] /\ drain' \in [Queues -> Drain]
         /\ \A o \in Queues :
              /\ Len(queue'[o].items) <= Cap /\ Len(queue'[o].summaryLines) <= Cap
              /\ queue'[o].draining <=> drain'[o].pc # "off"
BY DEF Settles

\* Queueing a message keeps the types.
LEMMA EnqueueTypes ==
  ASSUME TypeInv, NEW m \in Messages, NEW mode \in Modes, enqueueFollowupRun(m, mode)
  PROVE  TypeInv'
<1>1. PICK o \in Queues, Q \in FollowupQueueState : QueuedIn(m, o, Q)
  BY EnqueueShape
<1> DEFINE R == IF AlreadyQueued(Q, m) THEN Q ELSE Push(Q, m)
<1>2. /\ R \in FollowupQueueState /\ Len(R.items) <= Cap /\ Len(R.summaryLines) <= Cap
      /\ Settles([queue EXCEPT ![o] = R], drain)
  BY <1>1 DEF QueuedIn
<1>3. /\ registered' \in Queues \cup {NoQueue}
      /\ queue' \in [Queues -> FollowupQueueState] /\ drain' \in [Queues -> Drain]
      /\ \A p \in Queues :
           /\ Len(queue'[p].items) <= Cap /\ Len(queue'[p].summaryLines) <= Cap
           /\ queue'[p].draining <=> drain'[p].pc # "off"
  <2> HIDE DEF R
  <2>1. \A p \in Queues : /\ Len([queue EXCEPT ![o] = R][p].items) <= Cap
                          /\ Len([queue EXCEPT ![o] = R][p].summaryLines) <= Cap
    BY <1>2 DEF TypeInv
  <2> QED BY <1>2, <2>1, SettlesTypes
<1>4. ToSet(Overflow(Q)) \subseteq Messages \/ AlreadyQueued(Q, m)
  <2>1. CASE ~AlreadyQueued(Q, m)
    <3>1. Q.items \in Seq(Messages) /\ Cap \in Nat
      BY FollowupQueueAssumption DEF FollowupQueueState
    <3>2. CASE Len(Q.items) < Cap \/ DropPolicy = "new"
      BY <3>2 DEF Overflow, ToSet
    <3>3. CASE ~(Len(Q.items) < Cap \/ DropPolicy = "new")
      <4>1. Overflow(Q) = SubSeq(Q.items, 1, Len(Q.items) - Cap + 1)
        BY <3>3 DEF Overflow
      <4>2. \A i \in 1..Len(Q.items) - Cap + 1 : i \in 1..Len(Q.items) \/ Cap = 0
        BY <3>1, <3>3
      <4>3. Cap # 0
        BY FollowupQueueAssumption
      <4>4. SubSeq(Q.items, 1, Len(Q.items) - Cap + 1) \in Seq(Messages)
        BY <3>1, <3>3, <4>3
      <4> QED BY <4>1, <4>4 DEF ToSet
    <3> QED BY <3>2, <3>3
  <2> QED BY <2>1
<1>5. /\ recent' \subseteq Ids /\ accepted' \in Seq(Messages)
      /\ dropped' \subseteq Messages /\ discarded' \subseteq Messages
      /\ behind' \in BOOLEAN /\ runSession' \in [Messages -> Nat]
  <2>1. recent' \subseteq Ids /\ accepted' \in Seq(Messages)
    BY <1>1 DEF QueuedIn, TypeInv, Ids
  <2>2. dropped' \subseteq Messages /\ discarded' \subseteq Messages
    <3>1. (IF AlreadyQueued(Q, m) THEN {} ELSE ToSet(Overflow(Q))) \subseteq Messages
      BY <1>4
    <3> QED BY <1>1, <3>1 DEF QueuedIn, TypeInv
  <2>3. behind' \in BOOLEAN
    BY <1>1 DEF QueuedIn, TypeInv
  <2>4. runSession' \in [Messages -> Nat]
    BY <1>1 DEF QueuedIn, TypeInv
  <2> QED BY <2>1, <2>2, <2>3, <2>4
<1>6. /\ inbound' = [inbound EXCEPT ![m] = "done"] /\ captured' = [captured EXCEPT ![m] = 0]
      /\ active' = active /\ session' = session /\ turns' = turns /\ reported' = reported
  BY DEF enqueueFollowupRun
<1> QED BY <1>3, <1>5, <1>6 DEF TypeInv

\* The return of a turn keeps the types.
LEMMA ReturnTypes ==
  ASSUME TypeInv, NEW o \in Queues, TurnReturns(o)
  PROVE  TypeInv'
<1> DEFINE d == drain[o]
           R == AfterTurn(queue[o], d)
<1>1. /\ R \in FollowupQueueState
      /\ \/ /\ d.rest # <<>>
            /\ queue' = [queue EXCEPT ![o] = R] /\ registered' = registered
            /\ \E e \in Drain : drain' = [drain EXCEPT ![o] = e] /\ Follows(d, e)
         \/ /\ d.rest = <<>>
            /\ Settles([queue EXCEPT ![o] = R], [drain EXCEPT ![o] = NoDrain])
            /\ registered' \in {registered, NoQueue}
            /\ registered = o /\ registered' = NoQueue => ~HasWork(R)
  BY ReturnShape
<1>2. /\ queue[o] \in FollowupQueueState /\ d \in Drain /\ d.pc = "running" /\ Cap \in Nat
      /\ Len(queue[o].items) <= Cap /\ Len(queue[o].summaryLines) <= Cap /\ queue[o].draining
  BY FollowupQueueAssumption DEF TypeInv, TurnReturns
<1>3. Len(R.items) <= Cap /\ Len(R.summaryLines) <= Cap /\ R.draining
  <2>1. /\ Len(R.items) <= Len(queue[o].items) /\ R.draining = queue[o].draining
        /\ R.summaryLines = <<>> \/ R.summaryLines = queue[o].summaryLines
    <3>1. queue[o] \in FollowupQueueState /\ d \in Drain
      BY <1>2
    <3>2. /\ R.draining = queue[o].draining /\ Len(R.items) <= Len(queue[o].items)
          /\ IF d.summary # <<>>
             THEN R.summaryLines = <<>> /\ R.droppedCount = 0
             ELSE /\ R.summaryLines = queue[o].summaryLines
                  /\ R.droppedCount = queue[o].droppedCount
      BY <3>1, AfterTurnElements
    <3> HIDE DEF R, d
    <3> QED BY <3>2
  <2>2. Len(R.items) \in Nat /\ Len(queue[o].items) \in Nat
    BY <1>1, <1>2 DEF FollowupQueueState
  <2> QED BY <1>2, <2>1, <2>2
<1> HIDE DEF R
<1>4. /\ registered' \in Queues \cup {NoQueue}
      /\ queue' \in [Queues -> FollowupQueueState] /\ drain' \in [Queues -> Drain]
      /\ \A p \in Queues :
           /\ Len(queue'[p].items) <= Cap /\ Len(queue'[p].summaryLines) <= Cap
           /\ queue'[p].draining <=> drain'[p].pc # "off"
  <2>1. CASE d.rest # <<>>
    <3>1. PICK e \in Drain : drain' = [drain EXCEPT ![o] = e] /\ Follows(d, e)
      BY <1>1, <2>1
    <3>2. queue' = [queue EXCEPT ![o] = R] /\ registered' = registered /\ e.pc # "off"
      BY <1>1, <2>1, <3>1 DEF Follows
    <3> QED BY <1>1, <1>3, <3>1, <3>2 DEF TypeInv
  <2>2. CASE d.rest = <<>>
    <3>1. \A p \in Queues : /\ Len([queue EXCEPT ![o] = R][p].items) <= Cap
                            /\ Len([queue EXCEPT ![o] = R][p].summaryLines) <= Cap
      BY <1>3 DEF TypeInv
    <3>2. Settles([queue EXCEPT ![o] = R], [drain EXCEPT ![o] = NoDrain])
      BY <1>1, <2>2
    <3> QED BY <3>1, <3>2, SettlesTypes
  <2> QED BY <2>1, <2>2
<1>5. turns' \in Seq(Messages) /\ reported' \subseteq Messages
  <2>1. turns' = (IF d.kind \in {"item", "collect"} THEN turns \o d.batch ELSE turns)
    BY DEF TurnReturns
  <2>2. reported' = reported \cup ToSet(d.summary)
    BY DEF TurnReturns
  <2>3. d.batch \in Seq(Messages) /\ d.summary \in Seq(Messages)
    BY <1>2 DEF Drain
  <2> QED BY <2>1, <2>2, <2>3 DEF TypeInv, ToSet
<1>6. active' = "none" /\ inbound' = inbound /\ recent' = recent /\ session' = session
      /\ behind' = behind /\ captured' = captured /\ runSession' = runSession
      /\ accepted' = accepted /\ dropped' = dropped /\ discarded' = discarded
  BY DEF TurnReturns, idVars
<1> QED BY <1>4, <1>5, <1>6 DEF TypeInv

\* The end of a drain keeps the types of queues and drains.
LEMMA EndDrainTypes ==
  ASSUME TypeInv, NEW o \in Queues, EndDrain(o, queue[o])
  PROVE  /\ registered' \in Queues \cup {NoQueue}
         /\ queue' \in [Queues -> FollowupQueueState] /\ drain' \in [Queues -> Drain]
         /\ \A p \in Queues :
              /\ Len(queue'[p].items) <= Cap /\ Len(queue'[p].summaryLines) <= Cap
              /\ queue'[p].draining <=> drain'[p].pc # "off"
<1>1. queue[o] \in FollowupQueueState
  BY DEF TypeInv
<1>2. Settles([queue EXCEPT ![o] = queue[o]], [drain EXCEPT ![o] = NoDrain])
  BY <1>1, EndDrainSettles
<1>3. \A p \in Queues : /\ Len([queue EXCEPT ![o] = queue[o]][p].items) <= Cap
                        /\ Len([queue EXCEPT ![o] = queue[o]][p].summaryLines) <= Cap
  BY DEF TypeInv
<1> QED BY <1>2, <1>3, SettlesTypes

\* The first state.
LEMMA InitTypes == Init => TypeInv
<1> SUFFICES ASSUME Init PROVE TypeInv
  OBVIOUS
<1>1. EmptyQueue \in FollowupQueueState /\ NoDrain \in Drain
  BY DEF EmptyQueue, FollowupQueueState, NoDrain, Drain, Kinds
<1>2. /\ EmptyQueue.items = <<>> /\ EmptyQueue.summaryLines = <<>>
      /\ EmptyQueue.draining = FALSE /\ NoDrain.pc = "off" /\ Cap \in Nat
  BY FollowupQueueAssumption DEF EmptyQueue, NoDrain
<1>3. /\ queue = [o \in Queues |-> EmptyQueue] /\ drain = [o \in Queues |-> NoDrain]
      /\ registered = NoQueue
  BY DEF Init
<1>4. /\ queue \in [Queues -> FollowupQueueState] /\ drain \in [Queues -> Drain]
      /\ registered \in Queues \cup {NoQueue}
      /\ \A o \in Queues :
           /\ Len(queue[o].items) <= Cap /\ Len(queue[o].summaryLines) <= Cap
           /\ queue[o].draining <=> drain[o].pc # "off"
  BY <1>1, <1>2, <1>3
<1>5. /\ active \in {"none", "main"} \cup Queues
      /\ inbound \in [Messages -> {"none", "run-now", "enqueue", "done"}]
      /\ recent \subseteq Ids /\ reported \subseteq Messages
      /\ dropped \subseteq Messages /\ discarded \subseteq Messages
      /\ accepted \in Seq(Messages) /\ turns \in Seq(Messages)
  BY DEF Init
<1>6. /\ session \in Nat /\ behind \in BOOLEAN
      /\ captured \in [Messages -> Nat] /\ runSession \in [Messages -> Nat]
  <2>1. session = 0 /\ behind = FALSE
    BY DEF Init
  <2>2. captured = [m \in Messages |-> 0] /\ runSession = [m \in Messages |-> 0]
    BY DEF Init
  <2> QED BY <2>1, <2>2
<1> QED BY <1>4, <1>5, <1>6 DEF TypeInv

\* Every step keeps the types.
LEMMA TypeStep == TypeInv /\ [Next]_vars => TypeInv'
<1> SUFFICES ASSUME TypeInv, [Next]_vars PROVE TypeInv'
  OBVIOUS
<1> USE DEF vars, sessionVars, idVars, historyVars
<1>1. ASSUME NEW m \in Messages, Arrive(m) PROVE TypeInv'
  BY <1>1 DEF Arrive, TypeInv
<1>2. ASSUME NEW m \in Messages, RunNow(m) PROVE TypeInv'
  BY <1>2 DEF RunNow, TypeInv
<1>3. ASSUME NEW m \in Messages, Enqueues(m) PROVE TypeInv'
  BY <1>3, EnqueueTypes DEF Enqueues
<1>4. ASSUME MainEnds PROVE TypeInv'
  <2>1. Becomes(scheduleFollowupDrain(queue, drain, registered))
    BY <1>4 DEF MainEnds
  <2>2. /\ queue \in [Queues -> FollowupQueueState] /\ drain \in [Queues -> Drain]
        /\ registered \in Queues \cup {NoQueue}
        /\ \A p \in Queues : queue[p].draining <=> drain[p].pc # "off"
    BY DEF TypeInv
  <2>3. Settles(queue, drain)
    BY <2>1, <2>2, ScheduleSettles
  <2>4. \A p \in Queues : Len(queue[p].items) <= Cap /\ Len(queue[p].summaryLines) <= Cap
    BY DEF TypeInv
  <2>5. /\ registered' \in Queues \cup {NoQueue}
        /\ queue' \in [Queues -> FollowupQueueState] /\ drain' \in [Queues -> Drain]
        /\ \A p \in Queues :
             /\ Len(queue'[p].items) <= Cap /\ Len(queue'[p].summaryLines) <= Cap
             /\ queue'[p].draining <=> drain'[p].pc # "off"
    BY <2>3, <2>4, SettlesTypes
  <2> QED BY <1>4, <2>5 DEF MainEnds, TypeInv
<1>5. ASSUME SessionRollsOver PROVE TypeInv'
  <2>1. runSession' \in [Messages -> Nat] /\ session' \in Nat
    BY <1>5 DEF SessionRollsOver, refreshQueuedFollowupSession, TypeInv
  <2> QED BY <1>5, <2>1 DEF SessionRollsOver, TypeInv
<1>6. ASSUME clearSessionQueues PROVE TypeInv'
  <2> DEFINE Q == [EmptyQueue EXCEPT !.draining = queue[registered].draining,
                                     !.mode = queue[registered].mode]
  <2>1. registered \in Queues /\ queue[registered] \in FollowupQueueState /\ Cap \in Nat
    BY <1>6, FollowupQueueAssumption DEF clearSessionQueues, TypeInv
  <2>2. /\ Q \in FollowupQueueState /\ Q.items = <<>> /\ Q.summaryLines = <<>>
        /\ Q.draining = queue[registered].draining
    <3>1. /\ EmptyQueue \in FollowupQueueState /\ EmptyQueue.items = <<>>
          /\ EmptyQueue.summaryLines = <<>>
      BY DEF EmptyQueue, FollowupQueueState
    <3>2. /\ queue[registered].draining \in BOOLEAN
          /\ queue[registered].mode \in {"collect", "followup"}
      BY <2>1 DEF FollowupQueueState
    <3> QED BY <3>1, <3>2 DEF FollowupQueueState
  <2>3. queue' = [queue EXCEPT ![registered] = Q]
    BY <1>6 DEF clearSessionQueues
  <2>4. ToSet(queue[registered].items) \cup ToSet(queue[registered].summaryLines) \subseteq Messages
    BY <2>1 DEF FollowupQueueState, ToSet
  <2> HIDE DEF Q
  <2>5. queue' \in [Queues -> FollowupQueueState] /\ drain' = drain /\ registered' = NoQueue
    BY <1>6, <2>1, <2>2, <2>3 DEF TypeInv, clearSessionQueues
  <2>6. \A o \in Queues : /\ Len(queue'[o].items) <= Cap /\ Len(queue'[o].summaryLines) <= Cap
                          /\ queue'[o].draining <=> drain'[o].pc # "off"
    BY <2>1, <2>2, <2>3, <2>5 DEF TypeInv
  <2>7. discarded' \subseteq Messages
    BY <1>6, <2>4 DEF clearSessionQueues, TypeInv
  <2> QED BY <1>6, <2>5, <2>6, <2>7 DEF clearSessionQueues, TypeInv
<1>7. ASSUME NEW o \in Queues, DebounceEnds(o) PROVE TypeInv'
  <2>1. CASE EndDrain(o, queue[o])
    <3>1. /\ registered' \in Queues \cup {NoQueue}
          /\ queue' \in [Queues -> FollowupQueueState] /\ drain' \in [Queues -> Drain]
          /\ \A p \in Queues :
               /\ Len(queue'[p].items) <= Cap /\ Len(queue'[p].summaryLines) <= Cap
               /\ queue'[p].draining <=> drain'[p].pc # "off"
      BY <2>1, EndDrainTypes
    <3> QED BY <1>7, <3>1 DEF DebounceEnds, TypeInv
  <2>2. CASE /\ UNCHANGED <<queue, registered>>
             /\ \E d \in Drain : drain' = [drain EXCEPT ![o] = d] /\ Takes(o, d)
    <3>1. PICK d \in Drain : drain' = [drain EXCEPT ![o] = d] /\ Takes(o, d)
      BY <2>2
    <3>2. d.pc # "off" /\ queue[o].draining
      BY <1>7, <3>1 DEF Takes, DebounceEnds, TypeInv
    <3>3. drain' \in [Queues -> Drain] /\ queue' = queue /\ registered' = registered
      BY <2>2, <3>1 DEF TypeInv
    <3>4. \A p \in Queues : queue'[p].draining <=> drain'[p].pc # "off"
      BY <3>1, <3>2, <3>3 DEF TypeInv
    <3> QED BY <1>7, <3>3, <3>4 DEF DebounceEnds, TypeInv
  <2> QED BY <1>7, <2>1, <2>2, DebounceShape
<1>8. ASSUME NEW o \in Queues, TurnStarts(o) PROVE TypeInv'
  <2>1. CASE EndDrain(o, queue[o]) /\ active' = active
    <3>1. /\ registered' \in Queues \cup {NoQueue}
          /\ queue' \in [Queues -> FollowupQueueState] /\ drain' \in [Queues -> Drain]
          /\ \A p \in Queues :
               /\ Len(queue'[p].items) <= Cap /\ Len(queue'[p].summaryLines) <= Cap
               /\ queue'[p].draining <=> drain'[p].pc # "off"
      BY <2>1, EndDrainTypes
    <3> QED BY <1>8, <2>1, <3>1 DEF TurnStarts, TypeInv
  <2>2. CASE /\ active' = o /\ drain' = [drain EXCEPT ![o].pc = "running"]
             /\ queue' = queue /\ registered' = registered
    <3>1. /\ [drain[o] EXCEPT !.pc = "running"] \in Drain
          /\ [drain[o] EXCEPT !.pc = "running"].pc = "running" /\ queue[o].draining
      BY <1>8 DEF TypeInv, Drain, TurnStarts
    <3>2. drain' \in [Queues -> Drain]
      BY <2>2, <3>1 DEF TypeInv
    <3>3. \A p \in Queues : queue'[p].draining <=> drain'[p].pc # "off"
      BY <2>2, <3>1 DEF TypeInv
    <3> QED BY <1>8, <2>2, <3>2, <3>3 DEF TurnStarts, TypeInv
  <2> QED BY <1>8, <2>1, <2>2 DEF TurnStarts
<1>9. ASSUME NEW o \in Queues, TurnReturns(o) PROVE TypeInv'
  BY <1>9, ReturnTypes
<1>10. ASSUME NEW o \in Queues, TurnThrows(o) PROVE TypeInv'
  <2>1. /\ registered' \in Queues \cup {NoQueue}
        /\ queue' \in [Queues -> FollowupQueueState] /\ drain' \in [Queues -> Drain]
        /\ \A p \in Queues :
             /\ Len(queue'[p].items) <= Cap /\ Len(queue'[p].summaryLines) <= Cap
             /\ queue'[p].draining <=> drain'[p].pc # "off"
    BY <1>10, EndDrainTypes DEF TurnThrows
  <2> QED BY <1>10, <2>1 DEF TurnThrows, TypeInv
<1>12. ASSUME NEW id \in recent, RecentIdExpires(id) PROVE TypeInv'
  BY <1>12 DEF RecentIdExpires, TypeInv
<1>11. CASE UNCHANGED vars
  BY <1>11 DEF TypeInv
<1> QED
  BY <1>1, <1>2, <1>3, <1>4, <1>5, <1>6, <1>7, <1>8, <1>9, <1>10, <1>11, <1>12
     DEF Next, DrainStep

\* What a run checks follows.
LEMMA TypesCheck == TypeInv => TypeOK
<1> SUFFICES ASSUME TypeInv PROVE TypeOK
  OBVIOUS
<1>1. recent \subseteq {MessageId[m] : m \in Messages} \ {NoId}
  BY DEF TypeInv, Ids
<1>2. ASSUME NEW o \in Queues
      PROVE  /\ queue[o].items \in Seq(Messages) /\ queue[o].summaryLines \in Seq(Messages)
             /\ queue[o].droppedCount \in Nat
             /\ drain[o].pc \in {"off", "debounce", "starting", "running"}
             /\ drain[o].batch \in Seq(Messages)
  BY DEF TypeInv, FollowupQueueState, Drain
<1>3. \A m \in Messages : inbound[m] \in {"none", "run-now", "enqueue", "done"}
  BY DEF TypeInv
<1> QED BY <1>1, <1>2, <1>3 DEF TypeInv, TypeOK

\* Every state has its types; a queue holds at most Cap messages and its summary
\* lists at most Cap lines, and the flag draining says whether a drain executes.
THEOREM TypeCorrect == Spec => []TypeOK
<1>1. TypeInv /\ [Next]_vars => TypeInv'
  BY TypeStep
<1> QED BY InitTypes, <1>1, TypesCheck, PTL DEF Spec

-----------------------------------------------------------------------------
(* Uniform batches.                                                        *)

\* Settling begins no turn.
LEMMA SettlesUniform ==
  ASSUME UniformInv, NEW qs, NEW ds, Settles(qs, ds),
         \A p \in Queues : ds[p] = drain[p] \/ ds[p].pc = "off"
  PROVE  UniformInv'
<1> SUFFICES ASSUME NEW p \in Queues, drain'[p].pc \in {"starting", "running"}
             PROVE  drain'[p] = drain[p]
  BY DEF UniformInv, InFlight
<1> QED BY DEF Settles

\* The end of a drain begins no turn.
LEMMA EndDrainUniform ==
  ASSUME TypeInv, UniformInv, NEW o \in Queues, EndDrain(o, queue[o])
  PROVE  UniformInv'
<1>1. queue[o] \in FollowupQueueState /\ NoDrain.pc = "off"
  BY DEF TypeInv, NoDrain
<1>2. Settles([queue EXCEPT ![o] = queue[o]], [drain EXCEPT ![o] = NoDrain])
  BY <1>1, EndDrainSettles
<1>3. \A p \in Queues : \/ [drain EXCEPT ![o] = NoDrain][p] = drain[p]
                        \/ [drain EXCEPT ![o] = NoDrain][p].pc = "off"
  BY <1>1 DEF TypeInv
<1> QED BY <1>2, <1>3, SettlesUniform

\* Every step keeps the batches uniform.
LEMMA UniformStep == TypeInv /\ UniformInv /\ [Next]_vars => UniformInv'
<1> SUFFICES ASSUME TypeInv, UniformInv, [Next]_vars PROVE UniformInv'
  OBVIOUS
<1> USE DEF vars, sessionVars, idVars, historyVars
<1>a. ASSUME UNCHANGED drain PROVE UniformInv'
  BY <1>a DEF UniformInv, InFlight
<1>1. ASSUME NEW m \in Messages, Arrive(m) PROVE UniformInv'
  BY <1>1, <1>a DEF Arrive
<1>2. ASSUME NEW m \in Messages, RunNow(m) PROVE UniformInv'
  BY <1>2, <1>a DEF RunNow
<1>3. ASSUME NEW m \in Messages, Enqueues(m) PROVE UniformInv'
  <2>1. PICK o \in Queues, Q \in FollowupQueueState : QueuedIn(m, o, Q)
    BY <1>3, EnqueueShape DEF Enqueues
  <2>2. \E qs : Settles(qs, drain)
    BY <2>1 DEF QueuedIn
  <2> QED BY <2>2, SettlesUniform
<1>4. ASSUME MainEnds PROVE UniformInv'
  <2>1. Becomes(scheduleFollowupDrain(queue, drain, registered))
    BY <1>4 DEF MainEnds
  <2>2. /\ queue \in [Queues -> FollowupQueueState] /\ drain \in [Queues -> Drain]
        /\ registered \in Queues \cup {NoQueue}
        /\ \A p \in Queues : queue[p].draining <=> drain[p].pc # "off"
    BY DEF TypeInv
  <2>3. Settles(queue, drain)
    BY <2>1, <2>2, ScheduleSettles
  <2> QED BY <2>3, SettlesUniform
<1>5. ASSUME SessionRollsOver PROVE UniformInv'
  BY <1>5, <1>a DEF SessionRollsOver
<1>6. ASSUME clearSessionQueues PROVE UniformInv'
  BY <1>6, <1>a DEF clearSessionQueues
<1>7. ASSUME NEW o \in Queues, DebounceEnds(o) PROVE UniformInv'
  <2>1. CASE EndDrain(o, queue[o])
    BY <2>1, EndDrainUniform
  <2>2. CASE /\ UNCHANGED <<queue, registered>>
             /\ \E d \in Drain : drain' = [drain EXCEPT ![o] = d] /\ Takes(o, d)
    <3>1. PICK d \in Drain : drain' = [drain EXCEPT ![o] = d] /\ Takes(o, d)
      BY <2>2
    <3>2. \A p \in Queues : drain'[p] = IF p = o THEN d ELSE drain[p]
      BY <3>1 DEF TypeInv
    <3> QED BY <3>1, <3>2 DEF UniformInv, InFlight, Takes
  <2> QED BY <1>7, <2>1, <2>2, DebounceShape
<1>8. ASSUME NEW o \in Queues, TurnStarts(o) PROVE UniformInv'
  <2>1. CASE EndDrain(o, queue[o])
    BY <2>1, EndDrainUniform
  <2>2. CASE drain' = [drain EXCEPT ![o].pc = "running"]
    <3>1. InFlight(o)
      BY <1>8 DEF TurnStarts, InFlight
    <3>2. \A p \in Queues : /\ drain'[p].batch = drain[p].batch /\ drain'[p].rest = drain[p].rest
                            /\ p # o => drain'[p].pc = drain[p].pc
      BY <2>2 DEF TypeInv, Drain
    <3> QED BY <3>1, <3>2 DEF UniformInv, InFlight
  <2> QED BY <1>8, <2>1, <2>2 DEF TurnStarts
<1>9. ASSUME NEW o \in Queues, TurnReturns(o) PROVE UniformInv'
  <2> DEFINE d == drain[o]
             R == AfterTurn(queue[o], d)
  <2>1. \/ /\ d.rest # <<>>
           /\ \E e \in Drain : drain' = [drain EXCEPT ![o] = e] /\ Follows(d, e)
        \/ Settles([queue EXCEPT ![o] = R], [drain EXCEPT ![o] = NoDrain])
    BY <1>9, ReturnShape
  <2>2. CASE Settles([queue EXCEPT ![o] = R], [drain EXCEPT ![o] = NoDrain])
    <3>1. \A p \in Queues : \/ [drain EXCEPT ![o] = NoDrain][p] = drain[p]
                            \/ [drain EXCEPT ![o] = NoDrain][p].pc = "off"
      BY DEF TypeInv, NoDrain
    <3> QED BY <2>2, <3>1, SettlesUniform
  <2>3. CASE \E e \in Drain : drain' = [drain EXCEPT ![o] = e] /\ Follows(d, e)
    <3>1. PICK e \in Drain : drain' = [drain EXCEPT ![o] = e] /\ Follows(d, e)
      BY <2>3
    <3>2. \A p \in Queues : drain'[p] = IF p = o THEN e ELSE drain[p]
      BY <3>1 DEF TypeInv
    <3>3. InFlight(o) /\ d.rest \in Seq(Messages)
      BY <1>9 DEF TurnReturns, InFlight, TypeInv, Drain
    <3>4. ToSet(e.batch) \cup ToSet(e.rest) = ToSet(d.rest)
      <4>1. e.batch \in Seq(Messages) /\ e.rest \in Seq(Messages)
        BY DEF Drain
      <4>2. ToSet(e.batch \o e.rest) = ToSet(e.batch) \cup ToSet(e.rest)
        BY <4>1, ConcatSet
      <4> QED BY <3>1, <4>2 DEF Follows
    <3>5. \A a, b \in ToSet(d.rest) : Channel[a] = Channel[b]
      BY <3>3 DEF UniformInv
    <3>6. \A a, b \in ToSet(e.batch) : AuthKey[a] = AuthKey[b]
      BY <3>1 DEF Follows
    <3> QED BY <3>2, <3>4, <3>5, <3>6 DEF UniformInv, InFlight
  <2> QED BY <2>1, <2>2, <2>3
<1>10. ASSUME NEW o \in Queues, TurnThrows(o) PROVE UniformInv'
  BY <1>10, EndDrainUniform DEF TurnThrows
<1>12. ASSUME NEW id \in recent, RecentIdExpires(id) PROVE UniformInv'
  BY <1>12, <1>a DEF RecentIdExpires
<1>11. CASE UNCHANGED vars
  BY <1>11, <1>a
<1> QED
  BY <1>1, <1>2, <1>3, <1>4, <1>5, <1>6, <1>7, <1>8, <1>9, <1>10, <1>11, <1>12
     DEF Next, DrainStep

\* The messages that one turn quotes come from one channel and one sender.
THEOREM BatchesUniform == Spec => []BatchUniform
<1>1. Init => TypeInv /\ UniformInv
  <2>1. Init => UniformInv
    BY DEF Init, UniformInv, InFlight, NoDrain
  <2> QED BY <2>1, InitTypes
<1>2. TypeInv /\ UniformInv /\ [Next]_vars => TypeInv' /\ UniformInv'
  BY TypeStep, UniformStep
<1>3. UniformInv => BatchUniform
  BY DEF UniformInv, BatchUniform, InFlight
<1> QED BY <1>1, <1>2, <1>3, PTL DEF Spec

-----------------------------------------------------------------------------
(* No message and no summary line twice.                                   *)

\* Messages that stay in a queue are no two deliveries of one message.
LEMMA StayApart ==
  ASSUME IdsApart, NEW p \in Queues, NEW k \in Nat, Len(queue'[p].items) \in Nat,
         \A i \in 1..Len(queue'[p].items) :
           i + k \in 1..Len(queue[p].items) /\ queue'[p].items[i] = queue[p].items[i + k]
  PROVE  \A i, j \in 1..Len(queue'[p].items) :
           /\ MessageId[queue'[p].items[i]] = MessageId[queue'[p].items[j]]
           /\ MessageId[queue'[p].items[i]] # NoId
           => i = j
<1> SUFFICES ASSUME NEW i \in 1..Len(queue'[p].items), NEW j \in 1..Len(queue'[p].items),
                    MessageId[queue'[p].items[i]] = MessageId[queue'[p].items[j]],
                    MessageId[queue'[p].items[i]] # NoId
             PROVE  i = j
  OBVIOUS
<1>3. /\ i + k \in 1..Len(queue[p].items) /\ queue'[p].items[i] = queue[p].items[i + k]
      /\ j + k \in 1..Len(queue[p].items) /\ queue'[p].items[j] = queue[p].items[j + k]
  OBVIOUS
<1>1. i + k = j + k
  BY <1>3 DEF IdsApart
<1>2. i \in Nat /\ j \in Nat
  OBVIOUS
<1> QED BY <1>1, <1>2

\* What removes or empties queues, and ends drains, keeps it.
LEMMA OnceKept ==
  ASSUME TypeInv, TypeInv', OnceInv,
         \A p \in Queues :
           /\ Len(queue'[p].items) <= Len(queue[p].items)
           /\ \A i \in 1..Len(queue'[p].items) : queue'[p].items[i] = queue[p].items[i]
           /\ ToSet(queue'[p].summaryLines) \subseteq ToSet(queue[p].summaryLines)
           /\ InFlight(p)' =>
                /\ InFlight(p) /\ drain'[p].batch = drain[p].batch
                /\ drain'[p].kind = drain[p].kind /\ drain'[p].rest = drain[p].rest
                /\ drain'[p].summary = drain[p].summary,
         turns' = turns, reported' = reported, Pushed' = Pushed
  PROVE  OnceInv'
<1>1. \A p \in Queues : 1..Len(queue'[p].items) \subseteq 1..Len(queue[p].items)
  <2> SUFFICES ASSUME NEW p \in Queues
               PROVE  1..Len(queue'[p].items) \subseteq 1..Len(queue[p].items)
    OBVIOUS
  <2>1. queue'[p].items \in Seq(Messages) /\ queue[p].items \in Seq(Messages)
    BY DEF TypeInv, FollowupQueueState
  <2> QED BY <2>1
<1>2. ItemsOnce'
  <2> SUFFICES ASSUME NEW o \in Queues, NEW i \in 1..Len(queue'[o].items)
               PROVE  LET m == queue'[o].items[i]
                      IN  /\ m \in Pushed' /\ m \notin ToSet(turns') /\ m \notin reported'
                          /\ \A p \in Queues : \A j \in 1..Len(queue'[p].items) :
                               m = queue'[p].items[j] => o = p /\ i = j
                          /\ \A p \in Queues : m \notin ToSet(queue'[p].summaryLines)
    BY DEF ItemsOnce
  <2> DEFINE m == queue'[o].items[i]
  <2>1. i \in 1..Len(queue[o].items) /\ m = queue[o].items[i]
    BY <1>1
  <2>2. /\ m \in Pushed /\ m \notin ToSet(turns) /\ m \notin reported
        /\ \A p \in Queues : \A j \in 1..Len(queue[p].items) :
             m = queue[p].items[j] => o = p /\ i = j
        /\ \A p \in Queues : m \notin ToSet(queue[p].summaryLines)
    BY <2>1 DEF OnceInv, ItemsOnce
  <2> HIDE DEF m
  <2>3. ASSUME NEW p \in Queues, NEW j \in 1..Len(queue'[p].items), m = queue'[p].items[j]
        PROVE  o = p /\ i = j
    <3>1. j \in 1..Len(queue[p].items) /\ queue'[p].items[j] = queue[p].items[j]
      BY <1>1
    <3> QED BY <2>2, <2>3, <3>1
  <2> QED BY <2>2, <2>3 DEF m
<1>3. LinesOnce'
  <2> SUFFICES ASSUME NEW o \in Queues, NEW m \in ToSet(queue'[o].summaryLines)
               PROVE  /\ m \in Pushed' /\ m \notin reported'
                      /\ \A p \in Queues : m \in ToSet(queue'[p].summaryLines) => o = p
    BY DEF LinesOnce
  <2>1. \A p \in Queues : m \in ToSet(queue'[p].summaryLines) => m \in ToSet(queue[p].summaryLines)
    OBVIOUS
  <2> QED BY <2>1 DEF OnceInv, LinesOnce
<1>4. ASSUME NEW o \in Queues, InFlight(o)' PROVE FlightOnce(o)'
  <2>1. InFlight(o) /\ FlightOnce(o)
    BY <1>4 DEF OnceInv
  <2>2. /\ drain'[o].batch = drain[o].batch /\ drain'[o].rest = drain[o].rest
        /\ drain'[o].summary = drain[o].summary /\ drain'[o].kind = drain[o].kind
    BY <1>4
  <2>3. \A p \in Queues : \A i \in 1..Len(queue'[p].items) :
          i \in 1..Len(queue[p].items) /\ queue'[p].items[i] = queue[p].items[i]
    BY <1>1
  <2>4. BatchOnce(o)'
    BY <2>1, <2>2, <2>3 DEF FlightOnce, BatchOnce
  <2>5. RestOnce(o)'
    BY <2>1, <2>2, <2>3 DEF FlightOnce, RestOnce
  <2>6. SummaryApart(o)'
    BY <2>1, <2>2, <2>3 DEF FlightOnce, SummaryApart
  <2>7. TakenApart(o)'
    BY <2>1, <2>2, <2>3 DEF FlightOnce, TakenApart
  <2> QED BY <2>4, <2>5, <2>6, <2>7 DEF FlightOnce
<1>5. TurnsApart' /\ ToSet(turns)' \subseteq Pushed' /\ reported' \subseteq Pushed'
  BY DEF OnceInv, TurnsApart, ToSet
<1>6. IdsApart'
  <2> SUFFICES ASSUME NEW p \in Queues, NEW i \in 1..Len(queue'[p].items),
                      NEW j \in 1..Len(queue'[p].items)
               PROVE  /\ MessageId[queue'[p].items[i]] = MessageId[queue'[p].items[j]]
                      /\ MessageId[queue'[p].items[i]] # NoId
                      => i = j
    BY DEF IdsApart
  <2>1. /\ i \in 1..Len(queue[p].items) /\ queue'[p].items[i] = queue[p].items[i]
        /\ j \in 1..Len(queue[p].items) /\ queue'[p].items[j] = queue[p].items[j]
    BY <1>1
  <2> QED BY <2>1 DEF OnceInv, IdsApart
<1> QED BY <1>2, <1>3, <1>4, <1>5, <1>6 DEF OnceInv

\* Taking the head of a queue keeps it.
LEMMA OnceTake ==
  ASSUME TypeInv, OnceInv, NEW o \in Queues, NEW d \in Drain, ~InFlight(o),
         drain' = [drain EXCEPT ![o] = d], Takes(o, d), queue' = queue,
         turns' = turns, reported' = reported, Pushed' = Pushed
  PROVE  OnceInv'
<1> DEFINE items == queue[o].items
<1>1. \A p \in Queues : drain'[p] = IF p = o THEN d ELSE drain[p]
  BY DEF TypeInv
<1>2. /\ Len(d.batch) \in Nat /\ Len(d.rest) \in Nat /\ Len(items) \in Nat
      /\ Len(d.batch) + Len(d.rest) <= Len(items) /\ (d.kind = "summary" => d.rest = <<>>)
      /\ \A j \in 1..Len(d.batch) : j \in 1..Len(items) /\ d.batch[j] = items[j]
      /\ \A j \in 1..Len(d.rest) :
           Len(d.batch) + j \in 1..Len(items) /\ d.rest[j] = items[Len(d.batch) + j]
  <2>1. Len(d.batch) \in Nat /\ Len(d.rest) \in Nat /\ Len(items) \in Nat
    BY SMTT(30) DEF Drain, TypeInv, FollowupQueueState
  <2>2. /\ Len(d.batch) + Len(d.rest) <= Len(items) /\ (d.kind = "summary" => d.rest = <<>>)
        /\ \A j \in 1..Len(d.batch) : d.batch[j] = items[j]
        /\ \A j \in 1..Len(d.rest) : d.rest[j] = items[Len(d.batch) + j]
    BY DEF Takes
  <2> HIDE DEF items
  <2>3. /\ \A j \in 1..Len(d.batch) : j \in 1..Len(items)
        /\ \A j \in 1..Len(d.rest) : Len(d.batch) + j \in 1..Len(items)
    <3>1. ASSUME NEW b \in Nat, NEW r \in Nat, NEW n \in Nat, b + r <= n
          PROVE  /\ \A j \in 1..b : j \in 1..n
                 /\ \A j \in 1..r : b + j \in 1..n
      BY <3>1
    <3> QED BY <2>1, <2>2, <3>1
  <2> QED BY <2>1, <2>2, <2>3
<1>3. \A m \in ToSet(d.summary) : m \in ToSet(queue[o].summaryLines)
  BY DEF Takes, ToSet
<1>4. /\ \A i \in 1..Len(items) :
           /\ items[i] \in Pushed /\ items[i] \notin ToSet(turns) /\ items[i] \notin reported
           /\ \A j \in 1..Len(items) : items[i] = items[j] => i = j
      /\ \A p \in Queues : \A i \in 1..Len(queue[p].items) :
           /\ \A m \in ToSet(queue[o].summaryLines) : queue[p].items[i] # m
           /\ p # o => \A j \in 1..Len(items) : queue[p].items[i] # items[j]
  BY DEF OnceInv, ItemsOnce
<1> HIDE DEF items
<1>5. \A m \in ToSet(d.batch) \cup ToSet(d.rest) : \E i \in 1..Len(items) : m = items[i]
  BY <1>2 DEF ToSet
<1>6. BatchOnce(o)'
  <2>1. ASSUME NEW j \in 1..Len(d.batch)
        PROVE  /\ d.batch[j] \in Pushed /\ d.batch[j] \notin ToSet(turns)
               /\ \A k \in 1..Len(d.batch) : d.batch[j] = d.batch[k] => j = k
               /\ d.batch[j] \notin ToSet(d.rest)
               /\ \A i \in 1..Len(items) : items[i] = d.batch[j] => i <= j
    <3>1. ASSUME NEW k \in 1..Len(d.rest) PROVE d.rest[k] # d.batch[j]
      <4>1. Len(d.batch) + k # j
        BY <1>2
      <4>2. /\ Len(d.batch) + k \in 1..Len(items) /\ d.rest[k] = items[Len(d.batch) + k]
            /\ j \in 1..Len(items) /\ d.batch[j] = items[j]
        BY <1>2, Zenon
      <4> QED BY <1>4, <4>1, <4>2, Zenon
    <3>2. d.batch[j] \notin ToSet(d.rest)
      BY <3>1 DEF ToSet
    <3>3. j \in 1..Len(items) /\ d.batch[j] = items[j] /\ j \in Nat
      BY <1>2
    <3>4. \A k \in 1..Len(d.batch) : d.batch[j] = d.batch[k] => j = k
      BY <1>2, <1>4, <3>3
    <3>5. \A i \in 1..Len(items) : items[i] = d.batch[j] => i = j
      BY <1>4, <3>3
    <3>6. \A i \in 1..Len(items) : items[i] = d.batch[j] => i <= j
      BY <1>2, <3>3, <3>5
    <3> QED BY <1>4, <3>2, <3>3, <3>4, <3>6
  <2> QED BY <1>1, <2>1 DEF BatchOnce, items
<1>7. RestOnce(o)'
  <2>1. ASSUME NEW j \in 1..Len(d.rest)
        PROVE  /\ d.rest[j] \in Pushed /\ d.rest[j] \notin ToSet(turns)
               /\ \A k \in 1..Len(d.rest) : d.rest[j] = d.rest[k] => j = k
               /\ \A i \in 1..Len(items) : items[i] = d.rest[j] => i <= Len(d.batch) + j
    <3>1. Len(d.batch) + j \in 1..Len(items) /\ d.rest[j] = items[Len(d.batch) + j]
      BY <1>2
    <3>2. ASSUME NEW k \in 1..Len(d.rest), d.rest[j] = d.rest[k] PROVE j = k
      <4>1. Len(d.batch) + j = Len(d.batch) + k
        <5>1. Len(d.batch) + k \in 1..Len(items) /\ d.rest[k] = items[Len(d.batch) + k]
          BY <1>2, <3>2, Zenon
        <5> QED BY <1>4, <3>1, <3>2, <5>1, Zenon
      <4> QED BY <1>2, <4>1
    <3>3. \A i \in 1..Len(items) : items[i] = d.rest[j] => i <= Len(d.batch) + j
      BY <1>2, <1>4, <3>1
    <3> QED BY <1>4, <3>1, <3>2, <3>3
  <2> QED BY <1>1, <1>2, <2>1 DEF RestOnce, items
<1>8. SummaryApart(o)'
  <2>1. \A m \in ToSet(d.summary) : m \in Pushed /\ m \notin reported
    BY <1>3 DEF OnceInv, LinesOnce
  <2>2. \A p \in Queues : \A i \in 1..Len(queue[p].items) : queue[p].items[i] \notin ToSet(d.summary)
    BY <1>3, <1>4
  <2>3. \A p \in Queues \ {o} : \A m \in ToSet(queue[p].summaryLines) : m \notin ToSet(d.summary)
    BY <1>3 DEF OnceInv, LinesOnce
  <2>4. \A p \in Queues \ {o} : InFlight(p) =>
          \A m \in ToSet(drain[p].summary) : m \notin ToSet(d.summary)
    BY <1>3 DEF OnceInv, FlightOnce, SummaryApart
  <2> QED BY <1>1, <2>1, <2>2, <2>3, <2>4 DEF SummaryApart, InFlight
<1>9. TakenApart(o)'
  <2>1. \A p \in Queues \ {o} : \A i \in 1..Len(queue[p].items) :
          queue[p].items[i] \notin ToSet(d.batch) \cup ToSet(d.rest)
    BY <1>4, <1>5
  <2>2. \A p \in Queues \ {o} : InFlight(p) =>
          \A m \in ToSet(drain[p].batch) \cup ToSet(drain[p].rest) :
             m \notin ToSet(d.batch) \cup ToSet(d.rest)
    BY <1>5 DEF OnceInv, FlightOnce, TakenApart, items
  <2> QED BY <1>1, <2>1, <2>2 DEF TakenApart, InFlight
<1>10. ASSUME NEW p \in Queues \ {o}, InFlight(p)' PROVE FlightOnce(p)'
  <2>1. InFlight(p) /\ FlightOnce(p) /\ drain'[p] = drain[p]
    BY <1>1, <1>10 DEF InFlight, OnceInv
  <2>2. BatchOnce(p)' /\ RestOnce(p)'
    BY <2>1 DEF FlightOnce, BatchOnce, RestOnce
  <2>3. SummaryApart(p)'
    <3>1. \A m \in ToSet(d.summary) : m \notin ToSet(drain[p].summary)
      BY <1>3, <2>1 DEF FlightOnce, SummaryApart
    <3> QED BY <1>1, <2>1, <3>1 DEF FlightOnce, SummaryApart, InFlight
  <2>4. TakenApart(p)'
    <3>1. \A m \in ToSet(d.batch) \cup ToSet(d.rest) :
            m \notin ToSet(drain[p].batch) \cup ToSet(drain[p].rest)
      BY <1>5, <2>1 DEF FlightOnce, TakenApart, items
    <3> QED BY <1>1, <2>1, <3>1 DEF FlightOnce, TakenApart, InFlight
  <2> QED BY <2>2, <2>3, <2>4 DEF FlightOnce
<1>11. \A p \in Queues : InFlight(p)' => FlightOnce(p)'
  BY <1>6, <1>7, <1>8, <1>9, <1>10 DEF FlightOnce
<1>12. ItemsOnce' /\ LinesOnce' /\ IdsApart'
  <2>1. ItemsOnce'
    BY DEF OnceInv, ItemsOnce
  <2>2. LinesOnce'
    BY DEF OnceInv, LinesOnce
  <2>3. IdsApart'
    BY DEF OnceInv, IdsApart
  <2> QED BY <2>1, <2>2, <2>3
<1>13. TurnsApart' /\ ToSet(turns)' \subseteq Pushed' /\ reported' \subseteq Pushed'
  BY DEF OnceInv, TurnsApart
<1> QED BY <1>11, <1>12, <1>13 DEF OnceInv

\* Where a new message and the messages that the drop policy moves end up: behind
\* the others, and in the summary.
LEMMA PushMoves ==
  ASSUME TypeInv, NEW m \in Messages, NEW o \in Queues, NEW Q \in FollowupQueueState,
         QueuedIn(m, o, Q), ~AlreadyQueued(Q, m), ~(Len(Q.items) >= Cap /\ DropPolicy = "new")
  PROVE  \E k \in Nat :
           /\ \A i \in 1..Len(queue'[o].items) :
                \/ i = Len(queue'[o].items) /\ queue'[o].items[i] = m
                \/ /\ i # Len(queue'[o].items) /\ i + k \in 1..Len(queue[o].items)
                   /\ queue'[o].items[i] = queue[o].items[i + k]
                   /\ Q.items = queue[o].items
           /\ \A x \in ToSet(queue'[o].summaryLines) :
                \/ x \in ToSet(queue[o].summaryLines)
                \/ \E j \in 1..Len(queue[o].items) : j <= k /\ x = queue[o].items[j]
           /\ \A p \in Queues \ {o} : /\ queue'[p].items = queue[p].items
                                      /\ queue'[p].summaryLines = queue[p].summaryLines
<1> DEFINE R == Push(Q, m)
           gone == Overflow(Q)
           k == Len(gone)
           N == Len(Q.items)
<1>0. queue \in [Queues -> FollowupQueueState]
  BY DEF TypeInv
<1>1. /\ \/ Q.items = <<>> /\ Q.summaryLines = <<>>
         \/ Q.items = queue[o].items /\ Q.summaryLines = queue[o].summaryLines
      /\ Settles([queue EXCEPT ![o] = R], drain)
  BY DEF QueuedIn
<1>2. /\ \A p \in Queues \ {o} : /\ queue'[p].items = queue[p].items
                                 /\ queue'[p].summaryLines = queue[p].summaryLines
      /\ queue'[o].items = R.items /\ queue'[o].summaryLines = R.summaryLines
  <2> HIDE DEF R
  <2> QED BY <1>0, <1>1 DEF Settles
<1>3. Len(Q.items) <= Cap /\ Len(Q.summaryLines) <= Cap
  <2>1. Len(<<>>) = 0 /\ Cap \in Nat
    BY FollowupQueueAssumption
  <2> QED BY <1>1, <2>1 DEF TypeInv
<1>4. /\ gone \in Seq(Messages) /\ k <= N
      /\ \A i \in 1..k : gone[i] = Q.items[i]
      /\ R.items = Append(Drop(Q.items, k), m)
      /\ ToSet(R.summaryLines) \subseteq ToSet(Q.summaryLines) \cup ToSet(gone)
  BY <1>3, PushElements
<1> HIDE DEF R, gone
<1>5. k \in Nat /\ N \in Nat /\ Q.items \in Seq(Messages)
  BY <1>4 DEF FollowupQueueState
<1>6. /\ Drop(Q.items, k) \in Seq(Messages) /\ Len(Drop(Q.items, k)) = N - k
      /\ \A i \in 1..(N - k) : Drop(Q.items, k)[i] = Q.items[k + i]
  <2>1. k \in 0..Len(Q.items)
    BY <1>4, <1>5
  <2> QED BY <1>5, <2>1, DropElements
<1>7. /\ Len(R.items) = (N - k) + 1 /\ R.items[(N - k) + 1] = m
      /\ \A i \in 1..(N - k) : R.items[i] = Q.items[k + i]
  BY <1>4, <1>5, <1>6
<1>8. N > 0 => Q.items = queue[o].items
  BY <1>1
<1>9. ASSUME NEW i \in 1..Len(R.items), i # Len(R.items)
      PROVE  /\ i + k \in 1..Len(queue[o].items) /\ R.items[i] = queue[o].items[i + k]
             /\ Q.items = queue[o].items
  <2> HIDE DEF N, k
  <2>1. i \in 1..(N - k) /\ k + i = i + k /\ i + k \in 1..N
    BY <1>4, <1>5, <1>7, <1>9
  <2>2. R.items[i] = Q.items[i + k]
    BY <1>7, <2>1
  <2>3. N > 0
    BY <1>5, <2>1
  <2>4. Q.items = queue[o].items
    BY <1>8, <2>3
  <2> QED BY <2>1, <2>2, <2>4 DEF N
<1>10. ASSUME NEW x \in ToSet(R.summaryLines)
       PROVE  \/ x \in ToSet(queue[o].summaryLines)
              \/ \E j \in 1..Len(queue[o].items) : j <= k /\ x = queue[o].items[j]
  <2>1. CASE x \in ToSet(Q.summaryLines)
    BY <1>1, <2>1 DEF ToSet
  <2>2. CASE x \in ToSet(gone)
    <3>1. PICK j \in 1..k : x = Q.items[j]
      BY <1>4, <2>2 DEF ToSet
    <3>2. j \in 1..N /\ j <= k
      BY <1>4, <1>5, <3>1
    <3> QED BY <1>5, <1>8, <3>1, <3>2
  <2> QED BY <1>4, <2>1, <2>2
<1> HIDE DEF k
<1>11. \A i \in 1..Len(queue'[o].items) :
                \/ i = Len(queue'[o].items) /\ queue'[o].items[i] = m
                \/ /\ i # Len(queue'[o].items) /\ i + k \in 1..Len(queue[o].items)
                   /\ queue'[o].items[i] = queue[o].items[i + k]
                   /\ Q.items = queue[o].items
  BY <1>2, <1>7, <1>9
<1> QED BY <1>2, <1>5, <1>10, <1>11, ZenonT(30)

\* Queueing a message keeps it.
LEMMA OncePush ==
  ASSUME TypeInv, TypeInv', OnceInv, NEW m \in Messages, NEW o \in Queues,
         NEW Q \in FollowupQueueState,
         QueuedIn(m, o, Q), ~AlreadyQueued(Q, m), ~(Len(Q.items) >= Cap /\ DropPolicy = "new"),
         turns' = turns, reported' = reported, m \notin Pushed
  PROVE  OnceInv'
<1>1. PICK k \in Nat :
        /\ \A i \in 1..Len(queue'[o].items) :
             \/ i = Len(queue'[o].items) /\ queue'[o].items[i] = m
             \/ /\ i # Len(queue'[o].items) /\ i + k \in 1..Len(queue[o].items)
                /\ queue'[o].items[i] = queue[o].items[i + k]
                /\ Q.items = queue[o].items
        /\ \A x \in ToSet(queue'[o].summaryLines) :
             \/ x \in ToSet(queue[o].summaryLines)
             \/ \E j \in 1..Len(queue[o].items) : j <= k /\ x = queue[o].items[j]
        /\ \A p \in Queues \ {o} : /\ queue'[p].items = queue[p].items
                                   /\ queue'[p].summaryLines = queue[p].summaryLines
  BY PushMoves
<1>2. m \notin Pushed /\ Pushed' = Pushed \cup {m}
  <2>1. accepted \in Seq(Messages) /\ accepted' = Append(accepted, m)
    BY DEF QueuedIn, TypeInv
  <2> QED BY <2>1, AppendSet DEF Pushed
<1>3. \A p \in Queues : InFlight(p)' => InFlight(p) /\ drain'[p] = drain[p]
  <2>1. \E qs : Settles(qs, drain)
    BY DEF QueuedIn
  <2> QED BY <2>1 DEF Settles, InFlight
<1>4. \A p \in Queues : Len(queue'[p].items) \in Nat /\ Len(queue[p].items) \in Nat
  <2>1. queue \in [Queues -> FollowupQueueState] /\ queue' \in [Queues -> FollowupQueueState]
    BY DEF TypeInv
  <2>2. \A Q0 \in FollowupQueueState : Len(Q0.items) \in Nat
    BY DEF FollowupQueueState
  <2> QED BY <2>1, <2>2
<1>5. \A p \in Queues : \A i \in 1..Len(queue'[p].items) :
        \/ queue'[p].items[i] = m
        \/ \E j \in 1..Len(queue[p].items) : queue'[p].items[i] = queue[p].items[j] /\ i <= j
  <2> SUFFICES ASSUME NEW p \in Queues, NEW i \in 1..Len(queue'[p].items), queue'[p].items[i] # m
               PROVE  \E j \in 1..Len(queue[p].items) :
                        queue'[p].items[i] = queue[p].items[j] /\ i <= j
    OBVIOUS
  <2>1. CASE p = o
    <3>1. i + k \in 1..Len(queue[o].items) /\ queue'[o].items[i] = queue[o].items[i + k]
      BY <1>1, <2>1
    <3>2. i <= i + k
      BY <1>4
    <3> QED BY <2>1, <3>1, <3>2
  <2>2. CASE p # o
    <3>1. queue'[p].items = queue[p].items /\ i <= i
      BY <1>1, <1>4, <2>2
    <3> QED BY <3>1
  <2> QED BY <2>1, <2>2
<1>6. \A p \in Queues : \A x \in ToSet(queue'[p].summaryLines) :
        x \in ToSet(queue[p].summaryLines) \/ \E j \in 1..Len(queue[p].items) : x = queue[p].items[j]
  <2> SUFFICES ASSUME NEW p \in Queues, NEW x \in ToSet(queue'[p].summaryLines)
               PROVE  \/ x \in ToSet(queue[p].summaryLines)
                      \/ \E j \in 1..Len(queue[p].items) : x = queue[p].items[j]
    OBVIOUS
  <2>1. CASE p = o
    BY <1>1, <2>1
  <2>2. CASE p # o
    BY <1>1, <2>2
  <2> QED BY <2>1, <2>2
<1>7. /\ \A p \in Queues : \A i \in 1..Len(queue[p].items) :
           queue[p].items[i] \in Pushed /\ queue[p].items[i] \notin ToSet(turns) \cup reported
      /\ \A p \in Queues : \A x \in ToSet(queue[p].summaryLines) : x \in Pushed /\ x \notin reported
      /\ \A p, q \in Queues : \A i \in 1..Len(queue[p].items) :
           queue[p].items[i] \notin ToSet(queue[q].summaryLines)
      /\ \A p, q \in Queues : \A i \in 1..Len(queue[p].items) : \A j \in 1..Len(queue[q].items) :
           queue[p].items[i] = queue[q].items[j] => p = q /\ i = j
  BY DEF OnceInv, ItemsOnce, LinesOnce
<1>j. \A p \in Queues : \A a, b \in 1..Len(queue[p].items) :
        queue[p].items[a] = queue[p].items[b] => a = b
  BY <1>7
<1>q. \A p, q \in Queues : \A a \in 1..Len(queue[p].items) : \A b \in 1..Len(queue[q].items) :
        queue[p].items[a] = queue[q].items[b] => p = q
  BY <1>7
<1>m. \A p \in Queues \ {o} : \A i \in 1..Len(queue'[p].items) : queue'[p].items[i] # m
  <2> SUFFICES ASSUME NEW p \in Queues \ {o}, NEW i \in 1..Len(queue'[p].items)
               PROVE  queue'[p].items[i] # m
    OBVIOUS
  <2>1. queue'[p].items = queue[p].items
    BY <1>1
  <2> QED BY <1>2, <1>7, <2>1
<1>l. \A i \in 1..Len(queue'[o].items) : queue'[o].items[i] = m => i = Len(queue'[o].items)
  <2> SUFFICES ASSUME NEW i \in 1..Len(queue'[o].items), i # Len(queue'[o].items)
               PROVE  queue'[o].items[i] # m
    OBVIOUS
  <2>1. i + k \in 1..Len(queue[o].items) /\ queue'[o].items[i] = queue[o].items[i + k]
    BY <1>1
  <2>2. queue[o].items[i + k] \in Pushed
    BY <1>7, <2>1
  <2> QED BY <1>2, <2>1, <2>2
<1>k. \A p, q \in Queues : \A x \in ToSet(queue[p].summaryLines) :
        x \in ToSet(queue[q].summaryLines) => p = q
  BY DEF OnceInv, LinesOnce
<1>8. m \notin ToSet(turns) \cup reported
  BY <1>2 DEF OnceInv
<1>9. ItemsOnce'
  <2> SUFFICES ASSUME NEW p \in Queues, NEW i \in 1..Len(queue'[p].items)
               PROVE  /\ queue'[p].items[i] \in Pushed'
                      /\ queue'[p].items[i] \notin ToSet(turns)
                      /\ queue'[p].items[i] \notin reported
                      /\ \A q \in Queues : \A j \in 1..Len(queue'[q].items) :
                           queue'[p].items[i] = queue'[q].items[j] => p = q /\ i = j
                      /\ \A q \in Queues : queue'[p].items[i] \notin ToSet(queue'[q].summaryLines)
    BY DEF ItemsOnce
  <2> DEFINE x == queue'[p].items[i]
  <2>1. x \in Pushed' /\ x \notin ToSet(turns) /\ x \notin reported
    BY <1>2, <1>5, <1>7, <1>8, SMTT(30)
  <2>2. ASSUME NEW q \in Queues, NEW j \in 1..Len(queue'[q].items), x = queue'[q].items[j]
        PROVE  p = q /\ i = j
    <3>1. CASE x = m
      <4>1. p = o /\ i = Len(queue'[o].items)
        BY <1>m, <1>l, <3>1
      <4>2. q = o /\ j = Len(queue'[o].items)
        BY <1>m, <1>l, <2>2, <3>1
      <4> QED BY <4>1, <4>2
    <3>2. CASE x # m
      <4>1. p = q
        <5>1. PICK a \in 1..Len(queue[p].items) : x = queue[p].items[a]
          BY <1>5, <3>2
        <5>2. PICK b \in 1..Len(queue[q].items) : x = queue[q].items[b]
          BY <1>5, <2>2, <3>2
        <5>3. queue[p].items[a] = queue[q].items[b]
          BY <5>1, <5>2
        <5> QED BY <1>q, <5>3, Zenon
      <4>2. CASE p = o
        <5>1. /\ i + k \in 1..Len(queue[o].items) /\ x = queue[o].items[i + k]
              /\ j + k \in 1..Len(queue[o].items) /\ x = queue[o].items[j + k]
          BY <1>1, <2>2, <3>2, <4>1, <4>2
        <5>2. i + k = j + k
          BY <1>j, <5>1
        <5> QED BY <1>4, <4>1, <5>2
      <4>3. CASE p # o
        BY <1>1, <1>7, <2>2, <4>1, <4>3
      <4> QED BY <4>1, <4>2, <4>3
    <3> QED BY <3>1, <3>2
  <2>3. ASSUME NEW q \in Queues, x \in ToSet(queue'[q].summaryLines) PROVE FALSE
    <3>1. CASE x = m
      <4>1. \/ m \in ToSet(queue[q].summaryLines)
            \/ \E j \in 1..Len(queue[q].items) : m = queue[q].items[j]
        BY <1>6, <2>3, <3>1
      <4> QED BY <1>2, <1>7, <4>1
    <3>2. CASE x # m
      <4>1. PICK j \in 1..Len(queue[p].items) : x = queue[p].items[j]
        BY <1>5, <3>2
      <4>2. x \notin ToSet(queue[q].summaryLines)
        BY <1>7, <4>1
      <4>3. CASE q = o
        <5>1. PICK l \in 1..Len(queue[o].items) : l <= k /\ x = queue[o].items[l]
          BY <1>1, <2>3, <4>2, <4>3
        <5>l. l \in 1..Len(queue[o].items) /\ x = queue[o].items[l]
          BY <5>1
        <5>2. p = o
          BY <1>q, <4>1, <5>l
        <5>3. i + k \in 1..Len(queue[o].items) /\ x = queue[o].items[i + k]
          BY <1>1, <3>2, <5>2
        <5>4. i + k = l
          BY <1>j, <5>1, <5>3
        <5>5. i >= 1 /\ i \in Nat /\ l \in Nat
          BY <1>4, <5>1
        <5> QED BY <5>1, <5>4, <5>5
      <4>4. CASE q # o
        BY <1>1, <2>3, <4>2, <4>4
      <4> QED BY <4>3, <4>4
    <3> QED BY <3>1, <3>2
  <2> QED BY <2>1, <2>2, <2>3
<1>10. LinesOnce'
  <2>1. ASSUME NEW p \in Queues, NEW x \in ToSet(queue'[p].summaryLines)
        PROVE  x \in Pushed' /\ x \notin reported
    BY <1>2, <1>6, <1>7
  <2>2. ASSUME NEW p \in Queues, NEW x \in ToSet(queue'[p].summaryLines), NEW q \in Queues,
               x \in ToSet(queue'[q].summaryLines)
        PROVE  p = q
    <3>1. CASE p = o /\ q # o
      <4>1. x \in ToSet(queue[q].summaryLines)
        BY <1>1, <2>2, <3>1
      <4>2. x \in ToSet(queue[o].summaryLines)
        <5>1. \A j \in 1..Len(queue[o].items) : x # queue[o].items[j]
          BY <1>7, <4>1
        <5> QED BY <1>6, <3>1, <5>1
      <4> QED BY <1>k, <3>1, <4>1, <4>2
    <3>2. CASE p # o /\ q = o
      <4>1. x \in ToSet(queue[p].summaryLines)
        BY <1>1, <3>2
      <4>2. x \in ToSet(queue[o].summaryLines)
        <5>1. \A j \in 1..Len(queue[o].items) : x # queue[o].items[j]
          BY <1>7, <4>1
        <5> QED BY <1>6, <2>2, <3>2, <5>1
      <4> QED BY <1>k, <3>2, <4>1, <4>2
    <3>3. CASE p # o /\ q # o
      <4>1. x \in ToSet(queue[p].summaryLines) /\ x \in ToSet(queue[q].summaryLines)
        BY <1>1, <2>2, <3>3
      <4> QED BY <4>1 DEF OnceInv, LinesOnce
    <3> QED BY <3>1, <3>2, <3>3
  <2> QED BY <2>1, <2>2 DEF LinesOnce
<1>11. ASSUME NEW p \in Queues, InFlight(p)' PROVE FlightOnce(p)'
  <2>1. InFlight(p) /\ drain'[p] = drain[p] /\ FlightOnce(p)
    BY <1>3, <1>11 DEF OnceInv
  <2>2. /\ m \notin ToSet(drain[p].batch) \cup ToSet(drain[p].rest)
        /\ m \notin ToSet(drain[p].summary)
    BY <1>2, <2>1 DEF FlightOnce, BatchOnce, RestOnce, SummaryApart, ToSet
  <2>3. /\ Len(drain[p].batch) \in Nat /\ Len(drain[p].rest) \in Nat
    <3>1. drain[p] \in Drain
      BY DEF TypeInv
    <3> QED BY <3>1 DEF Drain
  <2>4. BatchOnce(p)'
    <3>1. ASSUME NEW j \in 1..Len(drain[p].batch), NEW i \in 1..Len(queue'[p].items),
                 queue'[p].items[i] = drain[p].batch[j]
          PROVE  i <= j
      <4>1. drain[p].batch[j] # m
        BY <2>2 DEF ToSet
      <4>2. PICK l \in 1..Len(queue[p].items) : queue'[p].items[i] = queue[p].items[l] /\ i <= l
        BY <1>5, <3>1, <4>1
      <4>3. l <= j
        BY <2>1, <3>1, <4>2 DEF FlightOnce, BatchOnce
      <4> QED BY <1>4, <2>3, <4>2, <4>3
    <3> QED BY <1>2, <2>1, <3>1 DEF FlightOnce, BatchOnce
  <2>5. RestOnce(p)'
    <3>1. ASSUME NEW j \in 1..Len(drain[p].rest), NEW i \in 1..Len(queue'[p].items),
                 queue'[p].items[i] = drain[p].rest[j]
          PROVE  i <= Len(drain[p].batch) + j
      <4>1. drain[p].rest[j] # m
        BY <2>2 DEF ToSet
      <4>2. PICK l \in 1..Len(queue[p].items) : queue'[p].items[i] = queue[p].items[l] /\ i <= l
        BY <1>5, <3>1, <4>1
      <4>3. l <= Len(drain[p].batch) + j
        BY <2>1, <3>1, <4>2 DEF FlightOnce, RestOnce
      <4> QED BY <1>4, <2>3, <4>2, <4>3
    <3> QED BY <1>2, <2>1, <3>1 DEF FlightOnce, RestOnce
  <2>6. SummaryApart(p)'
    <3>1. \A x \in ToSet(drain[p].summary) : x \in Pushed' /\ x \notin reported
      BY <1>2, <2>1 DEF FlightOnce, SummaryApart
    <3>2. \A q \in Queues : \A i \in 1..Len(queue'[q].items) :
            queue'[q].items[i] \notin ToSet(drain[p].summary)
      BY <1>5, <2>1, <2>2 DEF FlightOnce, SummaryApart
    <3>3. \A q \in Queues \ {p} : \A x \in ToSet(queue'[q].summaryLines) :
            x \notin ToSet(drain[p].summary)
      BY <1>6, <2>1 DEF FlightOnce, SummaryApart
    <3>4. \A q \in Queues \ {p} : InFlight(q)' =>
            \A x \in ToSet(drain'[q].summary) : x \notin ToSet(drain[p].summary)
      BY <1>3, <2>1 DEF FlightOnce, SummaryApart
    <3> QED BY <2>1, <3>1, <3>2, <3>3, <3>4 DEF SummaryApart
  <2>7. TakenApart(p)'
    <3>1. \A q \in Queues \ {p} : \A i \in 1..Len(queue'[q].items) :
            queue'[q].items[i] \notin ToSet(drain[p].batch) \cup ToSet(drain[p].rest)
      BY <1>5, <2>1, <2>2 DEF FlightOnce, TakenApart
    <3>2. \A q \in Queues \ {p} : InFlight(q)' =>
            \A x \in ToSet(drain'[q].batch) \cup ToSet(drain'[q].rest) :
              x \notin ToSet(drain[p].batch) \cup ToSet(drain[p].rest)
      BY <1>3, <2>1 DEF FlightOnce, TakenApart
    <3> QED BY <2>1, <3>1, <3>2 DEF TakenApart
  <2> QED BY <2>4, <2>5, <2>6, <2>7 DEF FlightOnce
<1>12. TurnsApart' /\ ToSet(turns)' \subseteq Pushed' /\ reported' \subseteq Pushed'
  BY <1>2 DEF OnceInv, TurnsApart, ToSet
<1>13. \A p \in Queues \ {o} : \A i, j \in 1..Len(queue'[p].items) :
         /\ MessageId[queue'[p].items[i]] = MessageId[queue'[p].items[j]]
         /\ MessageId[queue'[p].items[i]] # NoId
         => i = j
  BY <1>1 DEF OnceInv, IdsApart
<1>14. ASSUME NEW i \in 1..Len(queue'[o].items), queue'[o].items[i] # m,
              MessageId[queue'[o].items[i]] = MessageId[m], MessageId[m] # NoId
       PROVE  FALSE
  <2>1. i + k \in 1..Len(queue[o].items) /\ queue'[o].items[i] = queue[o].items[i + k]
    BY <1>1, <1>14
  <2>2. Q.items = queue[o].items
    BY <1>1, <1>14
  <2> QED BY <1>14, <2>1, <2>2 DEF AlreadyQueued, isRunAlreadyQueued, ToSet
<1>15. ASSUME NEW i \in 1..Len(queue'[o].items), NEW j \in 1..Len(queue'[o].items),
              MessageId[queue'[o].items[i]] = MessageId[queue'[o].items[j]],
              MessageId[queue'[o].items[i]] # NoId
       PROVE  i = j
  <2>1. CASE queue'[o].items[i] = m \/ queue'[o].items[j] = m
    <3>1. queue'[o].items[i] = m /\ queue'[o].items[j] = m
      BY <1>14, <1>15, <2>1
    <3> QED BY <1>l, <3>1
  <2>2. CASE queue'[o].items[i] # m /\ queue'[o].items[j] # m
    <3>1. /\ i + k \in 1..Len(queue[o].items) /\ queue'[o].items[i] = queue[o].items[i + k]
          /\ j + k \in 1..Len(queue[o].items) /\ queue'[o].items[j] = queue[o].items[j + k]
      BY <1>1, <2>2
    <3>2. i + k = j + k
      BY <1>15, <3>1 DEF OnceInv, IdsApart
    <3>3. i \in Nat /\ j \in Nat
      OBVIOUS
    <3> QED BY <3>2, <3>3
  <2> QED BY <2>1, <2>2
<1>16. IdsApart'
  BY <1>13, <1>15 DEF IdsApart
<1> QED BY <1>9, <1>10, <1>11, <1>12, <1>16 DEF OnceInv

\* What the return of a turn removes: the messages it was about, or some of those
\* if the queue has lost others, and the lines it has listed.
LEMMA ReturnRemoves ==
  ASSUME TypeInv, NEW o \in Queues, TurnReturns(o)
  PROVE  LET d == drain[o]
             n == IF d.kind = "summary" THEN 0 ELSE Len(d.batch)
         IN  /\ \A i \in 1..Len(queue'[o].items) :
                  i + n \in 1..Len(queue[o].items) /\ queue'[o].items[i] = queue[o].items[i + n]
             /\ d.summary # <<>> => queue'[o].summaryLines = <<>>
             /\ d.summary = <<>> => queue'[o].summaryLines = queue[o].summaryLines
             /\ \A p \in Queues \ {o} : /\ queue'[p].items = queue[p].items
                                        /\ queue'[p].summaryLines = queue[p].summaryLines
             /\ \A p \in Queues \ {o} : InFlight(p)' => InFlight(p) /\ drain'[p] = drain[p]
             /\ InFlight(o)' => d.rest # <<>> /\ Follows(d, drain'[o])
             /\ d.rest = <<>> => ~InFlight(o)'
<1> DEFINE d == drain[o]
           R == AfterTurn(queue[o], d)
           n == IF d.kind = "summary" THEN 0 ELSE Len(d.batch)
<1>0. queue \in [Queues -> FollowupQueueState] /\ drain \in [Queues -> Drain] /\ NoDrain.pc = "off"
  BY DEF TypeInv, NoDrain
<1>1. /\ \A i \in 1..Len(R.items) :
           i + n \in 1..Len(queue[o].items) /\ R.items[i] = queue[o].items[i + n]
      /\ d.summary # <<>> => R.summaryLines = <<>>
      /\ d.summary = <<>> => R.summaryLines = queue[o].summaryLines
  <2>1. queue[o] \in FollowupQueueState /\ d \in Drain
    BY <1>0
  <2> QED BY <2>1, AfterTurnElements
<1>2. \/ /\ d.rest # <<>>
         /\ queue' = [queue EXCEPT ![o] = R] /\ registered' = registered
         /\ \E e \in Drain : drain' = [drain EXCEPT ![o] = e] /\ Follows(d, e)
      \/ /\ d.rest = <<>>
         /\ Settles([queue EXCEPT ![o] = R], [drain EXCEPT ![o] = NoDrain])
  BY ReturnShape
<1> HIDE DEF R, n
<1>3. CASE d.rest # <<>>
  <2>1. PICK e \in Drain : drain' = [drain EXCEPT ![o] = e] /\ Follows(d, e)
    BY <1>2, <1>3
  <2>2. \A p \in Queues : drain'[p] = IF p = o THEN e ELSE drain[p]
    BY <1>0, <2>1
  <2>3. \A p \in Queues : queue'[p] = IF p = o THEN R ELSE queue[p]
    BY <1>0, <1>2, <1>3
  <2> QED BY <1>1, <1>3, <2>1, <2>2, <2>3 DEF InFlight, n
<1>4. CASE d.rest = <<>>
  <2>1. Settles([queue EXCEPT ![o] = R], [drain EXCEPT ![o] = NoDrain])
    BY <1>2, <1>4
  <2>2. /\ \A p \in Queues : [queue EXCEPT ![o] = R][p] = IF p = o THEN R ELSE queue[p]
        /\ \A p \in Queues : [drain EXCEPT ![o] = NoDrain][p] = IF p = o THEN NoDrain ELSE drain[p]
    BY <1>0
  <2>3. /\ queue'[o].items = R.items /\ queue'[o].summaryLines = R.summaryLines
        /\ \A p \in Queues \ {o} : /\ queue'[p].items = queue[p].items
                                   /\ queue'[p].summaryLines = queue[p].summaryLines
    BY <2>1, <2>2 DEF Settles
  <2>4. /\ \A p \in Queues \ {o} : InFlight(p)' => InFlight(p) /\ drain'[p] = drain[p]
        /\ ~InFlight(o)'
    BY <1>0, <2>1, <2>2 DEF Settles, InFlight
  <2> QED BY <1>1, <1>4, <2>3, <2>4 DEF n
<1> QED BY <1>3, <1>4

\* The return of a turn keeps it.
LEMMA OnceReturn ==
  ASSUME TypeInv, TypeInv', OnceInv, NEW o \in Queues, TurnReturns(o)
  PROVE  OnceInv'
<1> DEFINE d == drain[o]
           n == IF d.kind = "summary" THEN 0 ELSE Len(d.batch)
           quoted == IF d.kind \in {"item", "collect"} THEN ToSet(d.batch) ELSE {}
<1>1. /\ \A i \in 1..Len(queue'[o].items) :
           i + n \in 1..Len(queue[o].items) /\ queue'[o].items[i] = queue[o].items[i + n]
      /\ d.summary # <<>> => queue'[o].summaryLines = <<>>
      /\ d.summary = <<>> => queue'[o].summaryLines = queue[o].summaryLines
      /\ \A p \in Queues \ {o} : /\ queue'[p].items = queue[p].items
                                 /\ queue'[p].summaryLines = queue[p].summaryLines
      /\ \A p \in Queues \ {o} : InFlight(p)' => InFlight(p) /\ drain'[p] = drain[p]
      /\ InFlight(o)' => d.rest # <<>> /\ Follows(d, drain'[o])
      /\ d.rest = <<>> => ~InFlight(o)'
  BY ReturnRemoves
<1>2. /\ turns' = IF d.kind \in {"item", "collect"} THEN turns \o d.batch ELSE turns
      /\ reported' = reported \cup ToSet(d.summary) /\ Pushed' = Pushed
  BY DEF TurnReturns, Pushed
<1>3. InFlight(o) /\ FlightOnce(o)
  BY DEF TurnReturns, InFlight, OnceInv
<1>4. /\ d \in Drain /\ d.batch \in Seq(Messages) /\ d.rest \in Seq(Messages)
      /\ d.summary \in Seq(Messages) /\ turns \in Seq(Messages)
      /\ Len(d.batch) \in Nat /\ Len(d.rest) \in Nat /\ Len(turns) \in Nat /\ n \in Nat
  <2>1. d \in Drain /\ turns \in Seq(Messages)
    BY DEF TypeInv
  <2> QED BY <2>1 DEF Drain
<1>5. ToSet(turns') = ToSet(turns) \cup quoted
  <2>1. ToSet(turns \o d.batch) = ToSet(turns) \cup ToSet(d.batch)
    BY <1>4, ConcatSet
  <2> QED BY <1>2, <2>1
<1>6. \A p \in Queues : Len(queue'[p].items) \in Nat /\ Len(queue[p].items) \in Nat
  <2>1. queue \in [Queues -> FollowupQueueState] /\ queue' \in [Queues -> FollowupQueueState]
    BY DEF TypeInv
  <2>2. \A Q0 \in FollowupQueueState : Len(Q0.items) \in Nat
    BY DEF FollowupQueueState
  <2> QED BY <2>1, <2>2
<1>n. d.kind # "summary" => n = Len(d.batch)
  OBVIOUS
<1> HIDE DEF n
<1>7. \A p \in Queues : \A i \in 1..Len(queue'[p].items) :
        \E j \in 1..Len(queue[p].items) :
          queue'[p].items[i] = queue[p].items[j] /\ j = (IF p = o THEN i + n ELSE i)
  <2> SUFFICES ASSUME NEW p \in Queues, NEW i \in 1..Len(queue'[p].items)
               PROVE  \E j \in 1..Len(queue[p].items) :
                        queue'[p].items[i] = queue[p].items[j] /\ j = (IF p = o THEN i + n ELSE i)
    OBVIOUS
  <2>1. CASE p = o
    BY <1>1, <2>1
  <2>2. CASE p # o
    <3>1. queue'[p].items = queue[p].items
      BY <1>1, <2>2
    <3> QED BY <2>2, <3>1
  <2> QED BY <2>1, <2>2
<1>8. /\ \A p \in Queues : \A x \in ToSet(queue'[p].summaryLines) :
           x \in ToSet(queue[p].summaryLines) /\ x \notin ToSet(d.summary)
  <2> SUFFICES ASSUME NEW p \in Queues, NEW x \in ToSet(queue'[p].summaryLines)
               PROVE  x \in ToSet(queue[p].summaryLines) /\ x \notin ToSet(d.summary)
    OBVIOUS
  <2>e. ToSet(<<>>) = {}
    BY DEF ToSet
  <2>1. CASE p = o
    <3>1. d.summary = <<>>
      BY <1>1, <2>e, <2>1
    <3> QED BY <1>1, <2>e, <2>1, <3>1
  <2>2. CASE p # o
    BY <1>1, <1>3, <2>2 DEF FlightOnce, SummaryApart
  <2> QED BY <2>1, <2>2
<1>9. /\ \A p \in Queues : \A i \in 1..Len(queue[p].items) :
           queue[p].items[i] \in Pushed /\ queue[p].items[i] \notin ToSet(turns) \cup reported
      /\ \A p \in Queues : \A x \in ToSet(queue[p].summaryLines) : x \in Pushed /\ x \notin reported
      /\ \A p, q \in Queues : \A i \in 1..Len(queue[p].items) :
           queue[p].items[i] \notin ToSet(queue[q].summaryLines)
      /\ \A p, q \in Queues : \A i \in 1..Len(queue[p].items) : \A j \in 1..Len(queue[q].items) :
           queue[p].items[i] = queue[q].items[j] => p = q /\ i = j
      /\ \A p, q \in Queues : \A x \in ToSet(queue[p].summaryLines) :
           x \in ToSet(queue[q].summaryLines) => p = q
  BY DEF OnceInv, ItemsOnce, LinesOnce
<1>10. \A p \in Queues : \A i \in 1..Len(queue'[p].items) : queue'[p].items[i] \notin quoted
  <2> SUFFICES ASSUME NEW p \in Queues, NEW i \in 1..Len(queue'[p].items),
                      queue'[p].items[i] \in quoted
               PROVE  FALSE
    OBVIOUS
  <2>1. d.kind # "summary" /\ queue'[p].items[i] \in ToSet(d.batch)
    OBVIOUS
  <2>2. PICK j \in 1..Len(d.batch) : queue'[p].items[i] = d.batch[j]
    BY <2>1 DEF ToSet
  <2>3. PICK l \in 1..Len(queue[p].items) :
          queue'[p].items[i] = queue[p].items[l] /\ l = (IF p = o THEN i + n ELSE i)
    BY <1>7
  <2>4. CASE p = o
    <3>1. l <= j
      BY <1>3, <2>2, <2>3, <2>4 DEF FlightOnce, BatchOnce
    <3>2. l = i + Len(d.batch)
      BY <1>n, <2>1, <2>3, <2>4
    <3>3. i \in Nat /\ i >= 1
      BY <1>6
    <3>4. j \in Nat /\ j <= Len(d.batch)
      BY <1>4
    <3> QED BY <1>4, <3>1, <3>2, <3>3, <3>4
  <2>5. CASE p # o
    BY <1>3, <2>1, <2>3, <2>5 DEF FlightOnce, TakenApart
  <2> QED BY <2>4, <2>5
<1>11. \A p \in Queues : \A i \in 1..Len(queue'[p].items) :
         queue'[p].items[i] \notin ToSet(d.summary)
  BY <1>3, <1>7 DEF FlightOnce, SummaryApart
<1> HIDE DEF quoted
<1>12. ItemsOnce'
  <2> SUFFICES ASSUME NEW p \in Queues, NEW i \in 1..Len(queue'[p].items)
               PROVE  /\ queue'[p].items[i] \in Pushed'
                      /\ queue'[p].items[i] \notin ToSet(turns')
                      /\ queue'[p].items[i] \notin reported'
                      /\ \A q \in Queues : \A j \in 1..Len(queue'[q].items) :
                           queue'[p].items[i] = queue'[q].items[j] => p = q /\ i = j
                      /\ \A q \in Queues : queue'[p].items[i] \notin ToSet(queue'[q].summaryLines)
    BY DEF ItemsOnce
  <2>1. PICK a \in 1..Len(queue[p].items) :
          queue'[p].items[i] = queue[p].items[a] /\ a = (IF p = o THEN i + n ELSE i)
    BY <1>7
  <2>2. /\ queue'[p].items[i] \in Pushed'
        /\ queue'[p].items[i] \notin ToSet(turns')
        /\ queue'[p].items[i] \notin reported'
    BY <1>2, <1>5, <1>9, <1>10, <1>11, <2>1
  <2>3. ASSUME NEW q \in Queues, NEW j \in 1..Len(queue'[q].items),
               queue'[p].items[i] = queue'[q].items[j]
        PROVE  p = q /\ i = j
    <3>1. PICK b \in 1..Len(queue[q].items) :
            queue'[q].items[j] = queue[q].items[b] /\ b = (IF q = o THEN j + n ELSE j)
      BY <1>7
    <3>2. p = q /\ a = b
      BY <1>9, <2>1, <2>3, <3>1, SMTT(30)
    <3> QED BY <1>4, <1>6, <2>1, <3>1, <3>2
  <2>4. ASSUME NEW q \in Queues PROVE queue'[p].items[i] \notin ToSet(queue'[q].summaryLines)
    <3>1. queue[p].items[a] \notin ToSet(queue[q].summaryLines)
      BY <1>9
    <3>2. \A x \in ToSet(queue'[q].summaryLines) : x \in ToSet(queue[q].summaryLines)
      BY <1>8
    <3> QED BY <2>1, <3>1, <3>2
  <2> QED BY <2>2, <2>3, <2>4
<1>13. LinesOnce'
  BY <1>2, <1>8, <1>9 DEF LinesOnce
<1>14. ASSUME NEW p \in Queues \ {o}, InFlight(p)' PROVE FlightOnce(p)'
  <2>1. InFlight(p) /\ drain'[p] = drain[p] /\ FlightOnce(p)
    BY <1>1, <1>14 DEF OnceInv
  <2>2. \A x \in quoted : x \notin ToSet(drain[p].batch) \cup ToSet(drain[p].rest)
    BY <1>3, <2>1 DEF FlightOnce, TakenApart, quoted
  <2>3. queue'[p].items = queue[p].items
    BY <1>1
  <2>4. BatchOnce(p)'
    <3>1. \A j \in 1..Len(drain[p].batch) : drain[p].batch[j] \notin ToSet(turns')
      BY <1>5, <2>1, <2>2 DEF FlightOnce, BatchOnce, ToSet
    <3> QED BY <1>2, <2>1, <2>3, <3>1 DEF FlightOnce, BatchOnce
  <2>5. RestOnce(p)'
    <3>1. \A j \in 1..Len(drain[p].rest) : drain[p].rest[j] \notin ToSet(turns')
      BY <1>5, <2>1, <2>2, ZenonT(30) DEF FlightOnce, RestOnce, ToSet
    <3> QED BY <1>2, <2>1, <2>3, <3>1 DEF FlightOnce, RestOnce
  <2>6. SummaryApart(p)'
    <3>1. \A x \in ToSet(drain[p].summary) : x \in Pushed' /\ x \notin reported'
      BY <1>2, <1>3, <2>1 DEF FlightOnce, SummaryApart
    <3>2. \A q \in Queues : \A i \in 1..Len(queue'[q].items) :
            queue'[q].items[i] \notin ToSet(drain[p].summary)
      BY <1>7, <2>1 DEF FlightOnce, SummaryApart
    <3>3. \A q \in Queues \ {p} : \A x \in ToSet(queue'[q].summaryLines) :
            x \notin ToSet(drain[p].summary)
      BY <1>8, <2>1 DEF FlightOnce, SummaryApart
    <3>4. \A q \in Queues \ {p} : InFlight(q)' =>
            \A x \in ToSet(drain'[q].summary) : x \notin ToSet(drain[p].summary)
      <4>1. ASSUME InFlight(o)' PROVE drain'[o].summary = <<>> /\ ToSet(drain'[o].summary) = {}
        BY <1>1, <4>1 DEF Follows, ToSet
      <4> QED BY <1>1, <2>1, <4>1 DEF FlightOnce, SummaryApart
    <3> QED BY <2>1, <3>1, <3>2, <3>3, <3>4 DEF SummaryApart
  <2>7. TakenApart(p)'
    <3>1. \A q \in Queues \ {p} : \A i \in 1..Len(queue'[q].items) :
            queue'[q].items[i] \notin ToSet(drain[p].batch) \cup ToSet(drain[p].rest)
      <4> SUFFICES ASSUME NEW q \in Queues \ {p}, NEW i \in 1..Len(queue'[q].items)
                   PROVE  queue'[q].items[i] \notin ToSet(drain[p].batch) \cup ToSet(drain[p].rest)
        OBVIOUS
      <4>1. PICK j \in 1..Len(queue[q].items) : queue'[q].items[i] = queue[q].items[j]
        BY <1>7
      <4> QED BY <2>1, <4>1 DEF FlightOnce, TakenApart
    <3>2. ASSUME InFlight(o)', NEW x \in ToSet(drain'[o].batch) \cup ToSet(drain'[o].rest)
          PROVE  x \in ToSet(d.rest)
      <4>1. drain'[o] \in Drain /\ drain'[o].batch \in Seq(Messages) /\ drain'[o].rest \in Seq(Messages)
        BY DEF TypeInv, Drain
      <4>2. ToSet(drain'[o].batch \o drain'[o].rest) = ToSet(drain'[o].batch) \cup ToSet(drain'[o].rest)
        BY <4>1, ConcatSet
      <4> QED BY <1>1, <3>2, <4>2 DEF Follows
    <3>3. \A x \in ToSet(d.rest) : x \notin ToSet(drain[p].batch) \cup ToSet(drain[p].rest)
      BY <1>3, <2>1 DEF FlightOnce, TakenApart
    <3>4. \A q \in Queues \ {p} : InFlight(q)' =>
            \A x \in ToSet(drain'[q].batch) \cup ToSet(drain'[q].rest) :
              x \notin ToSet(drain[p].batch) \cup ToSet(drain[p].rest)
      BY <1>1, <2>1, <3>2, <3>3 DEF FlightOnce, TakenApart
    <3> QED BY <2>1, <3>1, <3>4 DEF TakenApart
  <2> QED BY <2>4, <2>5, <2>6, <2>7 DEF FlightOnce
<1>15. ASSUME InFlight(o)' PROVE FlightOnce(o)'
  <2> DEFINE e == drain'[o]
  <2>1. d.rest # <<>> /\ Follows(d, e) /\ d.kind # "summary"
    BY <1>1, <1>3, <1>15 DEF FlightOnce, RestOnce
  <2>2. /\ e.summary = <<>> /\ e.kind = d.kind /\ Len(e.batch) + Len(e.rest) = Len(d.rest)
        /\ \A j \in 1..Len(e.batch) : e.batch[j] = d.rest[j]
        /\ \A j \in 1..Len(e.rest) : e.rest[j] = d.rest[Len(e.batch) + j]
        /\ e.batch \o e.rest = d.rest
    BY <2>1 DEF Follows
  <2>3. /\ e.batch \in Seq(Messages) /\ e.rest \in Seq(Messages)
        /\ Len(e.batch) \in Nat /\ Len(e.rest) \in Nat
    <3>1. e \in Drain
      BY DEF TypeInv
    <3> QED BY <3>1 DEF Drain
  <2>4. ToSet(e.batch) \cup ToSet(e.rest) = ToSet(d.rest)
    <3>1. ToSet(e.batch \o e.rest) = ToSet(e.batch) \cup ToSet(e.rest)
      BY <2>3, ConcatSet
    <3> QED BY <2>2, <3>1
  <2> HIDE DEF e
  <2>5. /\ \A j \in 1..Len(e.batch) : j \in 1..Len(d.rest)
        /\ \A j \in 1..Len(e.rest) : Len(e.batch) + j \in 1..Len(d.rest)
    <3>1. ASSUME NEW b \in Nat, NEW r \in Nat, NEW l \in Nat, b + r = l
          PROVE  /\ \A j \in 1..b : j \in 1..l
                 /\ \A j \in 1..r : b + j \in 1..l
      BY <3>1
    <3> QED BY <1>4, <2>2, <2>3, <3>1
  <2>6. \A j \in 1..Len(d.rest) :
          /\ d.rest[j] \in Pushed' /\ d.rest[j] \notin ToSet(turns')
          /\ \A k \in 1..Len(d.rest) : d.rest[j] = d.rest[k] => j = k
          /\ \A i \in 1..Len(queue'[o].items) : queue'[o].items[i] = d.rest[j] => i <= j
    <3> SUFFICES ASSUME NEW j \in 1..Len(d.rest)
                 PROVE  /\ d.rest[j] \in Pushed' /\ d.rest[j] \notin ToSet(turns')
                        /\ \A k \in 1..Len(d.rest) : d.rest[j] = d.rest[k] => j = k
                        /\ \A i \in 1..Len(queue'[o].items) :
                             queue'[o].items[i] = d.rest[j] => i <= j
      OBVIOUS
    <3>1. /\ d.rest[j] \in Pushed /\ d.rest[j] \notin ToSet(turns)
          /\ \A k \in 1..Len(d.rest) : d.rest[j] = d.rest[k] => j = k
          /\ \A i \in 1..Len(queue[o].items) :
               queue[o].items[i] = d.rest[j] => i <= Len(d.batch) + j
      BY <1>3 DEF FlightOnce, RestOnce
    <3>2. d.rest[j] \notin ToSet(d.batch)
      <4>1. d.rest[j] \in ToSet(d.rest)
        BY DEF ToSet
      <4>2. \A i \in 1..Len(d.batch) : d.batch[i] \notin ToSet(d.rest)
        BY <1>3 DEF FlightOnce, BatchOnce
      <4> QED BY <4>1, <4>2 DEF ToSet
    <3>3. d.rest[j] \notin ToSet(turns')
      BY <1>5, <3>1, <3>2 DEF quoted
    <3>4. ASSUME NEW i \in 1..Len(queue'[o].items), queue'[o].items[i] = d.rest[j]
          PROVE  i <= j
      <4>1. i + Len(d.batch) \in 1..Len(queue[o].items)
            /\ queue'[o].items[i] = queue[o].items[i + Len(d.batch)]
        BY <1>1, <1>n, <2>1 DEF n
      <4>2. i + Len(d.batch) <= Len(d.batch) + j
        BY <3>1, <3>4, <4>1
      <4> QED BY <1>4, <1>6, <4>2
    <3> QED BY <1>2, <3>1, <3>3, <3>4
  <2>7. BatchOnce(o)'
    <3>1. ASSUME NEW j \in 1..Len(e.batch)
          PROVE  /\ e.batch[j] \in Pushed' /\ e.batch[j] \notin ToSet(turns')
                 /\ \A k \in 1..Len(e.batch) : e.batch[j] = e.batch[k] => j = k
                 /\ e.batch[j] \notin ToSet(e.rest)
                 /\ \A i \in 1..Len(queue'[o].items) : queue'[o].items[i] = e.batch[j] => i <= j
      <4>1. j \in 1..Len(d.rest) /\ e.batch[j] = d.rest[j]
        BY <2>2, <2>5
      <4>2. \A k \in 1..Len(e.batch) : e.batch[j] = e.batch[k] => j = k
        BY <2>2, <2>5, <2>6, <4>1
      <4>3. ASSUME NEW k \in 1..Len(e.rest) PROVE e.rest[k] # e.batch[j]
        <5>1. Len(e.batch) + k \in 1..Len(d.rest) /\ e.rest[k] = d.rest[Len(e.batch) + k]
          BY <2>2, <2>5
        <5>2. Len(e.batch) + k # j
          BY <2>3
        <5> QED BY <2>6, <4>1, <5>1, <5>2
      <4>4. e.batch[j] \notin ToSet(e.rest)
        BY <4>3 DEF ToSet
      <4> QED BY <2>6, <4>1, <4>2, <4>4
    <3> QED BY <3>1 DEF BatchOnce, e
  <2>8. RestOnce(o)'
    <3>1. ASSUME NEW j \in 1..Len(e.rest)
          PROVE  /\ e.rest[j] \in Pushed' /\ e.rest[j] \notin ToSet(turns')
                 /\ \A k \in 1..Len(e.rest) : e.rest[j] = e.rest[k] => j = k
                 /\ \A i \in 1..Len(queue'[o].items) :
                      queue'[o].items[i] = e.rest[j] => i <= Len(e.batch) + j
      <4>1. Len(e.batch) + j \in 1..Len(d.rest) /\ e.rest[j] = d.rest[Len(e.batch) + j]
        BY <2>2, <2>5
      <4>2. ASSUME NEW k \in 1..Len(e.rest), e.rest[j] = e.rest[k] PROVE j = k
        <5>1. Len(e.batch) + k \in 1..Len(d.rest) /\ e.rest[k] = d.rest[Len(e.batch) + k]
          BY <2>2, <2>5
        <5>2. Len(e.batch) + j = Len(e.batch) + k
          BY <2>6, <4>1, <4>2, <5>1
        <5> QED BY <2>3, <5>2
      <4> QED BY <2>6, <4>1, <4>2
    <3>2. e.kind # "summary"
      BY <2>1, <2>2
    <3> QED BY <3>1, <3>2 DEF RestOnce, e
  <2>9. SummaryApart(o)'
    <3>1. ToSet(e.summary) = {}
      BY <2>2 DEF ToSet
    <3> QED BY <3>1 DEF SummaryApart, e
  <2>10. TakenApart(o)'
    <3>1. \A q \in Queues \ {o} : \A i \in 1..Len(queue'[q].items) :
            queue'[q].items[i] \notin ToSet(d.rest)
      BY <1>1, <1>3 DEF FlightOnce, TakenApart
    <3>2. \A q \in Queues \ {o} : InFlight(q)' =>
            \A x \in ToSet(drain'[q].batch) \cup ToSet(drain'[q].rest) : x \notin ToSet(d.rest)
      BY <1>1, <1>3 DEF FlightOnce, TakenApart
    <3> QED BY <2>4, <3>1, <3>2 DEF TakenApart, e
  <2> QED BY <2>7, <2>8, <2>9, <2>10 DEF FlightOnce
<1>16. TurnsApart' /\ ToSet(turns)' \subseteq Pushed' /\ reported' \subseteq Pushed'
  <2>1. quoted \subseteq Pushed /\ ToSet(d.summary) \subseteq Pushed
    BY <1>3 DEF FlightOnce, BatchOnce, SummaryApart, quoted, ToSet
  <2>2. ToSet(turns') \subseteq Pushed' /\ reported' \subseteq Pushed'
    BY <1>2, <1>5, <2>1 DEF OnceInv
  <2>3. CASE d.kind \in {"item", "collect"}
    <3>1. /\ \A i, j \in 1..Len(turns) : turns[i] = turns[j] => i = j
          /\ \A i, j \in 1..Len(d.batch) : d.batch[i] = d.batch[j] => i = j
          /\ \A i \in 1..Len(turns) : \A j \in 1..Len(d.batch) : turns[i] # d.batch[j]
      BY <1>3 DEF OnceInv, TurnsApart, FlightOnce, BatchOnce, ToSet
    <3>2. /\ turns' = turns \o d.batch /\ Len(turns') = Len(turns) + Len(d.batch)
          /\ \A i \in 1..Len(turns') :
               turns'[i] = IF i <= Len(turns) THEN turns[i] ELSE d.batch[i - Len(turns)]
      BY <1>2, <1>4, <2>3
    <3>3. ASSUME NEW i \in 1..Len(turns'), NEW j \in 1..Len(turns'), turns'[i] = turns'[j]
          PROVE  i = j
      <4>1. \A l \in 1..Len(turns') : \/ l \in 1..Len(turns)
                                      \/ l - Len(turns) \in 1..Len(d.batch) /\ ~(l <= Len(turns))
        BY <1>4, <3>2
      <4>2. CASE i <= Len(turns) /\ j <= Len(turns)
        <5>1. i \in 1..Len(turns) /\ j \in 1..Len(turns)
          BY <4>1, <4>2
        <5> QED BY <3>1, <3>2, <3>3, <4>2, <5>1
      <4>3. CASE ~(i <= Len(turns)) /\ ~(j <= Len(turns))
        <5>1. i - Len(turns) \in 1..Len(d.batch) /\ j - Len(turns) \in 1..Len(d.batch)
          BY <1>4, <4>1, <4>3
        <5>2. i - Len(turns) = j - Len(turns)
          BY <3>1, <3>2, <3>3, <4>3, <5>1
        <5> QED BY <1>4, <3>2, <5>2
      <4>4. CASE i <= Len(turns) /\ ~(j <= Len(turns))
        <5>1. i \in 1..Len(turns) /\ j - Len(turns) \in 1..Len(d.batch)
          BY <1>4, <4>1, <4>4
        <5> QED BY <3>1, <3>2, <3>3, <4>4, <5>1
      <4>5. CASE ~(i <= Len(turns)) /\ j <= Len(turns)
        <5>1. j \in 1..Len(turns) /\ i - Len(turns) \in 1..Len(d.batch)
          BY <1>4, <4>1, <4>5
        <5> QED BY <3>1, <3>2, <3>3, <4>5, <5>1
      <4> QED BY <4>2, <4>3, <4>4, <4>5
    <3> QED BY <2>2, <3>3 DEF TurnsApart
  <2>4. CASE d.kind \notin {"item", "collect"}
    BY <1>2, <2>2, <2>4 DEF OnceInv, TurnsApart
  <2> QED BY <2>3, <2>4
<1>17. \A p \in Queues : InFlight(p)' => FlightOnce(p)'
  BY <1>14, <1>15
<1>18. IdsApart'
  <2>1. ASSUME NEW p \in Queues
        PROVE  \A i, j \in 1..Len(queue'[p].items) :
                 /\ MessageId[queue'[p].items[i]] = MessageId[queue'[p].items[j]]
                 /\ MessageId[queue'[p].items[i]] # NoId
                 => i = j
    <3>1. CASE p = o
      <4>1. IdsApart /\ n \in Nat /\ Len(queue'[p].items) \in Nat
        BY <1>4, <1>6 DEF OnceInv
      <4>2. \A i \in 1..Len(queue'[p].items) :
              i + n \in 1..Len(queue[p].items) /\ queue'[p].items[i] = queue[p].items[i + n]
        BY <1>1, <3>1
      <4> QED BY <4>1, <4>2, StayApart
    <3>2. CASE p # o
      BY <1>1, <3>2 DEF OnceInv, IdsApart
    <3> QED BY <3>1, <3>2
  <2> QED BY <2>1 DEF IdsApart
<1> QED BY <1>12, <1>13, <1>16, <1>17, <1>18 DEF OnceInv

\* Settling keeps it, if queues at most lose what they have.
LEMMA SettlesOnce ==
  ASSUME TypeInv, TypeInv', OnceInv, NEW qs, NEW ds, Settles(qs, ds),
         \A p \in Queues :
           /\ qs[p].items = queue[p].items \/ qs[p].items = <<>>
           /\ ToSet(qs[p].summaryLines) \subseteq ToSet(queue[p].summaryLines)
           /\ ds[p] = drain[p] \/ ds[p].pc = "off",
         turns' = turns, reported' = reported, Pushed' = Pushed
  PROVE  OnceInv'
<1> SUFFICES ASSUME NEW p \in Queues
             PROVE  /\ Len(queue'[p].items) <= Len(queue[p].items)
                    /\ \A i \in 1..Len(queue'[p].items) : queue'[p].items[i] = queue[p].items[i]
                    /\ ToSet(queue'[p].summaryLines) \subseteq ToSet(queue[p].summaryLines)
                    /\ InFlight(p)' =>
                         /\ InFlight(p) /\ drain'[p].batch = drain[p].batch
                         /\ drain'[p].kind = drain[p].kind /\ drain'[p].rest = drain[p].rest
                         /\ drain'[p].summary = drain[p].summary
  BY OnceKept
<1>1. queue'[p].items = qs[p].items /\ queue'[p].summaryLines = qs[p].summaryLines
  BY DEF Settles
<1>2. InFlight(p)' => drain'[p] = drain[p]
  BY DEF Settles, InFlight
<1>3. Len(queue[p].items) \in Nat
  <2>1. queue[p] \in FollowupQueueState
    BY DEF TypeInv
  <2> QED BY <2>1 DEF FollowupQueueState
<1>4. Len(<<>>) = 0
  OBVIOUS
<1> QED BY <1>1, <1>2, <1>3, <1>4 DEF InFlight

\* The end of a drain keeps it.
LEMMA EndDrainOnce ==
  ASSUME TypeInv, TypeInv', OnceInv, NEW o \in Queues, EndDrain(o, queue[o]),
         turns' = turns, reported' = reported, Pushed' = Pushed
  PROVE  OnceInv'
<1> DEFINE ds == [drain EXCEPT ![o] = NoDrain]
<1>1. queue[o] \in FollowupQueueState /\ NoDrain.pc = "off"
  BY DEF TypeInv, NoDrain
<1>2. Settles([queue EXCEPT ![o] = queue[o]], ds)
  BY <1>1, EndDrainSettles
<1>3. [queue EXCEPT ![o] = queue[o]] = queue
  BY DEF TypeInv
<1>4. \A p \in Queues : ds[p] = drain[p] \/ ds[p].pc = "off"
  BY <1>1 DEF TypeInv
<1> HIDE DEF ds
<1> QED BY <1>2, <1>3, <1>4, SettlesOnce

\* Queueing a message that is known, or finds the queue full, keeps it.
LEMMA OnceSkip ==
  ASSUME TypeInv, TypeInv', OnceInv, NEW m \in Messages, NEW o \in Queues,
         NEW Q \in FollowupQueueState, QueuedIn(m, o, Q),
         AlreadyQueued(Q, m) \/ (Len(Q.items) >= Cap /\ DropPolicy = "new"),
         turns' = turns, reported' = reported
  PROVE  OnceInv'
<1> DEFINE R == IF AlreadyQueued(Q, m) THEN Q ELSE Push(Q, m)
           qs == [queue EXCEPT ![o] = R]
<1>1. /\ \/ Q.items = <<>> /\ Q.summaryLines = <<>>
         \/ Q.items = queue[o].items /\ Q.summaryLines = queue[o].summaryLines
      /\ Settles(qs, drain) /\ Pushed' = Pushed
  BY DEF QueuedIn, Pushed
<1>2. R.items = Q.items /\ R.summaryLines = Q.summaryLines
  <2>1. CASE AlreadyQueued(Q, m)
    BY <2>1
  <2>2. CASE ~AlreadyQueued(Q, m)
    <3>1. Push(Q, m) = [Q EXCEPT !.lastRun = {m}]
      BY <2>2 DEF Push
    <3> QED BY <2>2, <3>1 DEF FollowupQueueState
  <2> QED BY <2>1, <2>2
<1> HIDE DEF R
<1>3. \A p \in Queues : qs[p] = IF p = o THEN R ELSE queue[p]
  BY DEF TypeInv
<1>4. \A p \in Queues :
           /\ qs[p].items = queue[p].items \/ qs[p].items = <<>>
           /\ ToSet(qs[p].summaryLines) \subseteq ToSet(queue[p].summaryLines)
           /\ drain[p] = drain[p] \/ drain[p].pc = "off"
  <2>1. ToSet(<<>>) = {}
    BY DEF ToSet
  <2> QED BY <1>1, <1>2, <1>3, <2>1
<1> HIDE DEF qs
<1> QED BY <1>1, <1>4, SettlesOnce

\* Every step keeps it.
LEMMA OnceStep == TypeInv /\ DoneInv /\ OnceInv /\ [Next]_vars => OnceInv'
<1> SUFFICES ASSUME TypeInv, DoneInv, OnceInv, [Next]_vars PROVE OnceInv'
  OBVIOUS
<1>t. TypeInv'
  BY TypeStep
<1>a. ASSUME queue' = queue, drain' = drain, turns' = turns, reported' = reported,
             Pushed' = Pushed
      PROVE  OnceInv'
  BY <1>a DEF OnceInv, ItemsOnce, LinesOnce, FlightOnce, BatchOnce, RestOnce, SummaryApart,
              TakenApart, InFlight, TurnsApart, IdsApart
<1>1. ASSUME NEW m \in Messages, Arrive(m) PROVE OnceInv'
  BY <1>1, <1>a DEF Arrive, Pushed, historyVars
<1>2. ASSUME NEW m \in Messages, RunNow(m) PROVE OnceInv'
  BY <1>2, <1>a DEF RunNow, Pushed, historyVars
<1>3. ASSUME NEW m \in Messages, Enqueues(m) PROVE OnceInv'
  <2>1. PICK o \in Queues, Q \in FollowupQueueState : QueuedIn(m, o, Q)
    BY <1>3, EnqueueShape DEF Enqueues
  <2>2. turns' = turns /\ reported' = reported
    BY <1>3 DEF Enqueues, enqueueFollowupRun
  <2>3. CASE AlreadyQueued(Q, m) \/ (Len(Q.items) >= Cap /\ DropPolicy = "new")
    BY <1>t, <2>1, <2>2, <2>3, OnceSkip
  <2>4. CASE ~(AlreadyQueued(Q, m) \/ (Len(Q.items) >= Cap /\ DropPolicy = "new"))
    <3>1. m \notin Pushed
      BY <1>3 DEF Enqueues, enqueueFollowupRun, DoneInv
    <3> QED BY <1>t, <2>1, <2>2, <2>4, <3>1, OncePush
  <2> QED BY <2>3, <2>4
<1>4. ASSUME MainEnds PROVE OnceInv'
  <2>1. /\ Becomes(scheduleFollowupDrain(queue, drain, registered))
        /\ turns' = turns /\ reported' = reported /\ Pushed' = Pushed
    BY <1>4 DEF MainEnds, Pushed, historyVars
  <2>2. /\ queue \in [Queues -> FollowupQueueState] /\ drain \in [Queues -> Drain]
        /\ registered \in Queues \cup {NoQueue}
        /\ \A p \in Queues : queue[p].draining <=> drain[p].pc # "off"
    BY DEF TypeInv
  <2>3. Settles(queue, drain)
    BY <2>1, <2>2, ScheduleSettles
  <2> QED BY <1>t, <2>1, <2>3, SettlesOnce
<1>5. ASSUME SessionRollsOver PROVE OnceInv'
  BY <1>5, <1>a DEF SessionRollsOver, Pushed, historyVars, sessionVars
<1>6. ASSUME clearSessionQueues PROVE OnceInv'
  <2>1. /\ registered \in Queues /\ drain' = drain
        /\ turns' = turns /\ reported' = reported /\ Pushed' = Pushed
    BY <1>6 DEF clearSessionQueues, TypeInv, Pushed, sessionVars
  <2> DEFINE Q == [EmptyQueue EXCEPT !.draining = queue[registered].draining,
                                     !.mode = queue[registered].mode]
  <2>2. queue' = [queue EXCEPT ![registered] = Q]
    BY <1>6 DEF clearSessionQueues
  <2>3. Q.items = <<>> /\ Q.summaryLines = <<>>
    BY DEF EmptyQueue
  <2> HIDE DEF Q
  <2>4. ASSUME NEW p \in Queues
        PROVE  /\ Len(queue'[p].items) <= Len(queue[p].items)
               /\ \A i \in 1..Len(queue'[p].items) : queue'[p].items[i] = queue[p].items[i]
               /\ ToSet(queue'[p].summaryLines) \subseteq ToSet(queue[p].summaryLines)
               /\ InFlight(p)' =>
                    /\ InFlight(p) /\ drain'[p].batch = drain[p].batch
                    /\ drain'[p].kind = drain[p].kind /\ drain'[p].rest = drain[p].rest
                    /\ drain'[p].summary = drain[p].summary
    <3>1. queue'[p] = IF p = registered THEN Q ELSE queue[p]
      BY <2>1, <2>2 DEF TypeInv
    <3>2. Len(queue[p].items) \in Nat /\ Len(<<>>) = 0 /\ ToSet(<<>>) = {}
      <4>1. queue[p] \in FollowupQueueState
        BY DEF TypeInv
      <4> QED BY <4>1 DEF FollowupQueueState, ToSet
    <3>3. InFlight(p)' => InFlight(p)
      BY <2>1 DEF InFlight
    <3> QED BY <2>1, <2>3, <3>1, <3>2, <3>3
  <2> QED BY <1>t, <2>1, <2>4, OnceKept
<1>7. ASSUME NEW o \in Queues, DebounceEnds(o) PROVE OnceInv'
  <2>1. turns' = turns /\ reported' = reported /\ Pushed' = Pushed
    BY <1>7 DEF DebounceEnds, Pushed, historyVars, sessionVars
  <2>2. CASE EndDrain(o, queue[o])
    BY <1>t, <2>1, <2>2, EndDrainOnce
  <2>3. CASE /\ UNCHANGED <<queue, registered>>
             /\ \E d \in Drain : drain' = [drain EXCEPT ![o] = d] /\ Takes(o, d)
    <3>1. PICK d \in Drain : drain' = [drain EXCEPT ![o] = d] /\ Takes(o, d)
      BY <2>3
    <3>2. ~InFlight(o) /\ queue' = queue
      BY <1>7, <2>3 DEF DebounceEnds, InFlight
    <3> QED BY <2>1, <3>1, <3>2, OnceTake
  <2> QED BY <1>7, <2>2, <2>3, DebounceShape
<1>8. ASSUME NEW o \in Queues, TurnStarts(o) PROVE OnceInv'
  <2>1. turns' = turns /\ reported' = reported /\ Pushed' = Pushed
    BY <1>8 DEF TurnStarts, Pushed, historyVars
  <2>2. CASE EndDrain(o, queue[o])
    BY <1>t, <2>1, <2>2, EndDrainOnce
  <2>3. CASE drain' = [drain EXCEPT ![o].pc = "running"] /\ UNCHANGED <<queue, registered>>
    <3>1. ASSUME NEW p \in Queues
          PROVE  /\ Len(queue'[p].items) <= Len(queue[p].items)
                 /\ \A i \in 1..Len(queue'[p].items) : queue'[p].items[i] = queue[p].items[i]
                 /\ ToSet(queue'[p].summaryLines) \subseteq ToSet(queue[p].summaryLines)
                 /\ InFlight(p)' =>
                      /\ InFlight(p) /\ drain'[p].batch = drain[p].batch
                      /\ drain'[p].kind = drain[p].kind /\ drain'[p].rest = drain[p].rest
                      /\ drain'[p].summary = drain[p].summary
      <4>1. Len(queue[p].items) \in Nat
        <5>1. queue[p] \in FollowupQueueState
          BY DEF TypeInv
        <5> QED BY <5>1 DEF FollowupQueueState
      <4>2. /\ drain'[p].batch = drain[p].batch /\ drain'[p].kind = drain[p].kind
            /\ drain'[p].rest = drain[p].rest /\ drain'[p].summary = drain[p].summary
            /\ p # o => drain'[p].pc = drain[p].pc
        BY <2>3 DEF TypeInv, Drain
      <4>3. InFlight(p)' => InFlight(p)
        BY <1>8, <4>2 DEF TurnStarts, InFlight
      <4> QED BY <2>3, <4>1, <4>2, <4>3
    <3> QED BY <1>t, <2>1, <3>1, OnceKept
  <2> QED BY <1>8, <2>2, <2>3 DEF TurnStarts
<1>9. ASSUME NEW o \in Queues, TurnReturns(o) PROVE OnceInv'
  BY <1>t, <1>9, OnceReturn
<1>10. ASSUME NEW o \in Queues, TurnThrows(o) PROVE OnceInv'
  <2>1. turns' = turns /\ reported' = reported /\ Pushed' = Pushed
    BY <1>10 DEF TurnThrows, Pushed, historyVars
  <2>2. EndDrain(o, queue[o])
    BY <1>10 DEF TurnThrows
  <2> QED BY <1>t, <2>1, <2>2, EndDrainOnce
<1>12. ASSUME NEW id \in recent, RecentIdExpires(id) PROVE OnceInv'
  BY <1>12, <1>a DEF RecentIdExpires, Pushed
<1>11. CASE UNCHANGED vars
  BY <1>11, <1>a DEF vars, historyVars, Pushed
<1> QED BY <1>1, <1>2, <1>3, <1>4, <1>5, <1>6, <1>7, <1>8, <1>9, <1>10, <1>11, <1>12
       DEF Next, DrainStep

\* Every step keeps what is known of the ids.
LEMMA IdsStep ==
  TypeInv /\ DoneInv /\ IdsOnce /\ [Next]_vars => DoneInv' /\ IdsOnce'
<1> SUFFICES ASSUME TypeInv, DoneInv, IdsOnce, [Next]_vars PROVE DoneInv' /\ IdsOnce'
  OBVIOUS
<1>a. ASSUME UNCHANGED <<accepted, recent, forgotten>>,
             \A x \in Messages : inbound[x] = "done" => inbound'[x] = "done"
      PROVE  DoneInv' /\ IdsOnce'
  <2>1. Pushed' = Pushed /\ Pushed \subseteq Messages
    BY <1>a DEF Pushed, TypeInv, ToSet
  <2> QED BY <1>a, <2>1 DEF DoneInv, IdsOnce, SameMessage
<1>1. ASSUME NEW m \in Messages, Arrive(m) PROVE DoneInv' /\ IdsOnce'
  BY <1>1, <1>a DEF Arrive, historyVars, TypeInv
<1>2. ASSUME NEW m \in Messages, RunNow(m) PROVE DoneInv' /\ IdsOnce'
  BY <1>2, <1>a DEF RunNow, historyVars, TypeInv
<1>3. ASSUME NEW m \in Messages, Enqueues(m) PROVE DoneInv' /\ IdsOnce'
  <2>1. PICK o \in Queues, Q \in FollowupQueueState : QueuedIn(m, o, Q)
    BY <1>3, EnqueueShape DEF Enqueues
  <2>2. inbound' = [inbound EXCEPT ![m] = "done"] /\ forgotten' = forgotten
    BY <1>3 DEF Enqueues, enqueueFollowupRun
  <2>3. \A x \in Messages : inbound'[x] = IF x = m THEN "done" ELSE inbound[x]
    BY <2>2 DEF TypeInv
  <2>4. CASE AlreadyQueued(Q, m) \/ (Len(Q.items) >= Cap /\ DropPolicy = "new")
    <3>1. accepted' = accepted /\ recent' = recent
      BY <2>1, <2>4 DEF QueuedIn
    <3> QED BY <1>a, <2>2, <2>3, <3>1
  <2>5. CASE ~(AlreadyQueued(Q, m) \/ (Len(Q.items) >= Cap /\ DropPolicy = "new"))
    <3>1. /\ accepted \in Seq(Messages) /\ accepted' = Append(accepted, m)
          /\ recent' = recent \cup ({MessageId[m]} \ {NoId})
      BY <2>1, <2>5 DEF QueuedIn, TypeInv
    <3>2. Pushed' = Pushed \cup {m} /\ Pushed \subseteq Messages
      BY <3>1, AppendSet DEF Pushed, ToSet
    <3>3. DoneInv'
      BY <2>3, <3>2 DEF DoneInv
    <3>4. \A x \in Pushed' : MessageId[x] \in recent' \cup forgotten' \cup {NoId}
      BY <2>2, <3>1, <3>2 DEF IdsOnce
    <3>5. ASSUME NEW x \in Pushed, MessageId[x] = MessageId[m]
          PROVE  MessageId[m] \in forgotten \cup {NoId}
      BY <2>5, <3>5 DEF AlreadyQueued, IdsOnce
    <3>6. \A a, b \in Pushed' : SameMessage(a, b)' => a = b
      BY <2>2, <3>2, <3>5 DEF IdsOnce, SameMessage
    <3> QED BY <3>3, <3>4, <3>6 DEF IdsOnce
  <2> QED BY <2>4, <2>5
<1>4. ASSUME NEW id \in recent, RecentIdExpires(id) PROVE DoneInv' /\ IdsOnce'
  <2>1. /\ recent' = recent \ {id} /\ forgotten' = forgotten \cup {id}
        /\ accepted' = accepted /\ inbound' = inbound
    BY <1>4 DEF RecentIdExpires
  <2>2. Pushed' = Pushed
    BY <2>1 DEF Pushed
  <2> QED BY <2>1, <2>2 DEF DoneInv, IdsOnce, SameMessage
<1>5. CASE \/ MainEnds \/ SessionRollsOver \/ clearSessionQueues
           \/ \E o \in Queues : DrainStep(o) \/ TurnThrows(o)
           \/ UNCHANGED vars
  <2>1. UNCHANGED <<accepted, recent, forgotten, inbound>>
    BY <1>5 DEF MainEnds, SessionRollsOver, clearSessionQueues, DrainStep, DebounceEnds,
       TurnStarts, TurnReturns, TurnThrows, vars, sessionVars, historyVars
  <2> QED BY <1>a, <2>1
<1> QED BY <1>1, <1>2, <1>3, <1>4, <1>5 DEF Next

\* The inductive invariant holds.
LEMMA OnceHolds == Spec => [](TypeInv /\ DoneInv /\ IdsOnce /\ OnceInv)
<1>1. Init => TypeInv /\ DoneInv /\ IdsOnce /\ OnceInv
  <2> SUFFICES ASSUME Init PROVE DoneInv /\ IdsOnce /\ OnceInv
    BY InitTypes
  <2>1. \A o \in Queues : queue[o].items = <<>> /\ queue[o].summaryLines = <<>> /\ drain[o].pc = "off"
    BY DEF Init, EmptyQueue, NoDrain
  <2>2. turns = <<>> /\ reported = {} /\ ToSet(<<>>) = {} /\ 1..Len(<<>>) = {} /\ Pushed = {}
    BY DEF Init, ToSet, Pushed
  <2> QED BY <2>1, <2>2 DEF OnceInv, ItemsOnce, LinesOnce, InFlight, TurnsApart, IdsApart,
                            DoneInv, IdsOnce
<1>2. TypeInv /\ DoneInv /\ IdsOnce /\ OnceInv /\ [Next]_vars =>
        TypeInv' /\ DoneInv' /\ IdsOnce' /\ OnceInv'
  BY TypeStep, OnceStep, IdsStep
<1> QED BY <1>1, <1>2, PTL DEF Spec

\* No delivery is quoted by two turns that return, whatever is retried, split, dropped
\* or cleared, and no two deliveries of a message are, unless its id was forgotten
\* between them or it has none; two never wait in one queue.
THEOREM OneTurnEach == Spec => []TurnsOnce
<1>1. OnceInv /\ IdsOnce => TurnsOnce
  <2> SUFFICES ASSUME OnceInv, IdsOnce PROVE TurnsOnce
    OBVIOUS
  <2>1. ASSUME NEW i \in 1..Len(turns), NEW j \in 1..Len(turns), SameMessage(turns[i], turns[j])
        PROVE  i = j
    <3>1. turns[i] \in Pushed /\ turns[j] \in Pushed
      BY DEF OnceInv, ToSet
    <3>2. turns[i] = turns[j]
      BY <2>1, <3>1 DEF IdsOnce
    <3> QED BY <3>2 DEF OnceInv, TurnsApart
  <2> QED BY <2>1 DEF TurnsOnce, OnceInv, IdsApart
<1> QED BY OnceHolds, <1>1, PTL

\* No dropped message is listed by two turns that return.
THEOREM SummariesOnce == Spec => SummaryOnce
<1>1. TypeInv /\ OnceInv /\ [Next]_vars =>
        [\A o \in Queues : TurnReturns(o) => ToSet(drain[o].summary) \cap reported = {}]_vars
  <2> SUFFICES ASSUME OnceInv, NEW o \in Queues, TurnReturns(o)
               PROVE  ToSet(drain[o].summary) \cap reported = {}
    OBVIOUS
  <2>1. SummaryApart(o)
    BY DEF TurnReturns, OnceInv, InFlight, FlightOnce
  <2> QED BY <2>1 DEF SummaryApart
<1> QED BY OnceHolds, <1>1, PTL DEF Spec, SummaryOnce

-----------------------------------------------------------------------------
(* Order, as long as nothing has been dropped or cleared.                  *)

\* While the run of the session is a turn, its drain waits for it.
LEMMA ActiveStep == TypeInv /\ ActiveInv /\ [Next]_vars => ActiveInv'
<1> SUFFICES ASSUME TypeInv, ActiveInv, [Next]_vars PROVE ActiveInv'
  OBVIOUS
<1>n. NoDrain.pc = "off" /\ "none" \notin Queues /\ "main" \notin Queues
  BY FollowupQueueAssumption DEF NoDrain
<1>a. ASSUME NEW qs, NEW ds, Settles(qs, ds), active' = active,
             \A p \in Queues : ds[p] = drain[p] \/ drain[p].pc # "running"
      PROVE  ActiveInv'
  <2> SUFFICES ASSUME active \in Queues PROVE drain'[active].pc = "running"
    BY <1>a DEF ActiveInv
  <2>1. drain[active].pc = "running" /\ ds[active] = drain[active]
    BY <1>a DEF ActiveInv
  <2> QED BY <1>a, <2>1 DEF Settles
<1>b. ASSUME drain' = drain, active' = active PROVE ActiveInv'
  BY <1>b DEF ActiveInv
<1>e. ASSUME NEW o \in Queues, EndDrain(o, queue[o]), drain[o].pc # "running", active' = active
      PROVE  ActiveInv'
  <2> DEFINE ds == [drain EXCEPT ![o] = NoDrain]
  <2>1. queue[o] \in FollowupQueueState
    BY DEF TypeInv
  <2>2. Settles([queue EXCEPT ![o] = queue[o]], ds)
    BY <1>e, <2>1, EndDrainSettles
  <2>3. \A p \in Queues : ds[p] = drain[p] \/ drain[p].pc # "running"
    BY <1>e DEF TypeInv
  <2> HIDE DEF ds
  <2> QED BY <1>a, <1>e, <2>2, <2>3
<1>1. ASSUME NEW m \in Messages, Arrive(m) PROVE ActiveInv'
  BY <1>1, <1>b DEF Arrive
<1>2. ASSUME NEW m \in Messages, RunNow(m) PROVE ActiveInv'
  BY <1>2, <1>n DEF RunNow, ActiveInv
<1>3. ASSUME NEW m \in Messages, Enqueues(m) PROVE ActiveInv'
  <2>1. PICK o \in Queues, Q \in FollowupQueueState : QueuedIn(m, o, Q)
    BY <1>3, EnqueueShape DEF Enqueues
  <2>2. active' = active /\ \E qs : Settles(qs, drain)
    BY <1>3, <2>1 DEF QueuedIn, Enqueues, enqueueFollowupRun
  <2> QED BY <1>a, <2>2
<1>4. ASSUME MainEnds PROVE ActiveInv'
  BY <1>4, <1>n DEF MainEnds, ActiveInv
<1>5. ASSUME SessionRollsOver PROVE ActiveInv'
  BY <1>5, <1>b DEF SessionRollsOver, sessionVars
<1>6. ASSUME clearSessionQueues PROVE ActiveInv'
  BY <1>6, <1>b DEF clearSessionQueues, sessionVars
<1>7. ASSUME NEW o \in Queues, DebounceEnds(o) PROVE ActiveInv'
  <2>1. active' = active /\ drain[o].pc = "debounce"
    BY <1>7 DEF DebounceEnds, sessionVars
  <2>2. CASE EndDrain(o, queue[o])
    BY <1>e, <2>1, <2>2
  <2>3. CASE \E d \in Drain : drain' = [drain EXCEPT ![o] = d] /\ Takes(o, d)
    BY <2>1, <2>3 DEF ActiveInv, TypeInv
  <2> QED BY <1>7, <2>2, <2>3, DebounceShape
<1>8. ASSUME NEW o \in Queues, TurnStarts(o) PROVE ActiveInv'
  <2>1. drain[o].pc = "starting"
    BY <1>8 DEF TurnStarts
  <2>2. CASE EndDrain(o, queue[o]) /\ active' = active
    BY <1>e, <2>1, <2>2
  <2>3. CASE drain' = [drain EXCEPT ![o].pc = "running"] /\ active' = o
    BY <2>3 DEF ActiveInv, TypeInv, Drain
  <2> QED BY <1>8, <2>2, <2>3 DEF TurnStarts
<1>9. ASSUME NEW o \in Queues, TurnReturns(o) PROVE ActiveInv'
  BY <1>9, <1>n DEF TurnReturns, ActiveInv
<1>10. ASSUME NEW o \in Queues, TurnThrows(o) PROVE ActiveInv'
  BY <1>10, <1>n DEF TurnThrows, ActiveInv
<1>12. ASSUME NEW id \in recent, RecentIdExpires(id) PROVE ActiveInv'
  BY <1>12, <1>b DEF RecentIdExpires
<1>11. CASE UNCHANGED vars
  BY <1>11, <1>b DEF vars, sessionVars
<1> QED
  BY <1>1, <1>2, <1>3, <1>4, <1>5, <1>6, <1>7, <1>8, <1>9, <1>10, <1>11, <1>12
     DEF Next, DrainStep

\* A longer sequence has the same head.
LEMMA SameHead ==
  ASSUME NEW s \in Seq(Messages), NEW t \in Seq(Messages), NEW n \in 0..Len(s),
         Len(s) <= Len(t), \A i \in 1..Len(s) : t[i] = s[i]
  PROVE  SubSeq(t, 1, n) = SubSeq(s, 1, n)
<1>1. Len(s) \in Nat /\ Len(t) \in Nat /\ n \in Nat /\ n <= Len(s) /\ n <= Len(t)
  OBVIOUS
<1>2. /\ SubSeq(s, 1, n) \in Seq(Messages) /\ Len(SubSeq(s, 1, n)) = n
      /\ \A i \in 1..n : SubSeq(s, 1, n)[i] = s[i]
  BY <1>1
<1>3. /\ SubSeq(t, 1, n) \in Seq(Messages) /\ Len(SubSeq(t, 1, n)) = n
      /\ \A i \in 1..n : SubSeq(t, 1, n)[i] = t[i]
  BY <1>1
<1>4. \A i \in 1..n : t[i] = s[i]
  BY <1>1
<1> QED BY <1>2, <1>3, <1>4, SeqEqual

\* A sequence is its head and what comes after it.
LEMMA HeadAndTail ==
  ASSUME NEW s \in Seq(Messages), NEW b \in Seq(Messages), NEW t \in Seq(Messages),
         Len(b) + Len(t) = Len(s),
         \A i \in 1..Len(b) : b[i] = s[i], \A i \in 1..Len(t) : t[i] = s[i + Len(b)]
  PROVE  s = b \o t
<1>1. Len(s) \in Nat /\ Len(b) \in Nat /\ Len(t) \in Nat
  OBVIOUS
<1>2. b \o t \in Seq(Messages) /\ Len(b \o t) = Len(s)
  BY <1>1, ConcatProperties
<1>3. ASSUME NEW i \in 1..Len(s) PROVE (b \o t)[i] = s[i]
  <2>1. CASE i <= Len(b)
    BY <1>1, <2>1
  <2>2. CASE ~(i <= Len(b))
    <3>1. i - Len(b) \in 1..Len(t) /\ (i - Len(b)) + Len(b) = i
      BY <1>1, <2>2
    <3>2. (b \o t)[i] = t[i - Len(b)]
      BY <1>1, <2>2
    <3> QED BY <3>1, <3>2
  <2> QED BY <2>1, <2>2
<1> QED BY <1>2, <1>3, SeqEqual

\* The queues and drains become qs and ds, r is the queue that may stay in the map,
\* and the queues of the drains that go on lose nothing.
KeepsOrder(qs, ds, r) ==
  /\ qs \in [Queues -> FollowupQueueState] /\ Settles(qs, ds)
  /\ r \in Queues \cup {NoQueue} /\ registered' \in {r, NoQueue}
  /\ \A p \in Queues : drain[p].pc # "off" => p = r
  /\ r \in Queues /\ registered' = NoQueue => ~HasWork(qs[r]) /\ ds[r].pc = "off"
  /\ \A p \in Queues :
       /\ ds[p] = drain[p] \/ ds[p].pc = "off"
       /\ qs[p].droppedCount = 0 /\ qs[p].summaryLines = <<>>
       /\ ds[p].pc # "off" =>
            /\ Len(queue[p].items) <= Len(qs[p].items)
            /\ \A i \in 1..Len(queue[p].items) : qs[p].items[i] = queue[p].items[i]
  /\ accepted' = turns' \o (IF r = NoQueue THEN <<>> ELSE qs[r].items)

\* That keeps the order.
LEMMA FifoSettles ==
  ASSUME TypeInv, TypeInv', InOrder, NEW qs, NEW ds, NEW r, KeepsOrder(qs, ds, r)
  PROVE  OneDrain' /\ NoSummaries' /\ AcceptedOrder' /\ \A p \in Queues : AtHead(p)'
<1>h. /\ qs \in [Queues -> FollowupQueueState] /\ Settles(qs, ds)
      /\ r \in Queues \cup {NoQueue} /\ registered' \in {r, NoQueue}
      /\ \A p \in Queues : drain[p].pc # "off" => p = r
      /\ r \in Queues /\ registered' = NoQueue => ~HasWork(qs[r]) /\ ds[r].pc = "off"
      /\ \A p \in Queues :
           /\ ds[p] = drain[p] \/ ds[p].pc = "off"
           /\ qs[p].droppedCount = 0 /\ qs[p].summaryLines = <<>>
           /\ ds[p].pc # "off" =>
                /\ Len(queue[p].items) <= Len(qs[p].items)
                /\ \A i \in 1..Len(queue[p].items) : qs[p].items[i] = queue[p].items[i]
      /\ accepted' = turns' \o (IF r = NoQueue THEN <<>> ELSE qs[r].items)
  BY DEF KeepsOrder
<1>k. \A p \in Queues : AtHead(p)
  BY DEF InOrder
<1>n. NoQueue \notin Queues
  BY FollowupQueueAssumption
<1>w. \A p \in Queues : HasWork(qs[p]) <=> qs[p].items # <<>>
  BY <1>h DEF HasWork
<1>s. /\ \A p \in Queues :
           /\ queue'[p].items = qs[p].items /\ queue'[p].summaryLines = qs[p].summaryLines
           /\ queue'[p].droppedCount = qs[p].droppedCount
           /\ \/ drain'[p] = ds[p]
              \/ /\ ds[p].pc = "off" /\ drain'[p].pc = "debounce" /\ HasWork(qs[p])
                 /\ p = registered' \/ drain[p].pc # "off"
  BY <1>h DEF Settles
<1>1. OneDrain'
  <2> SUFFICES ASSUME NEW p \in Queues, drain'[p].pc # "off" PROVE p = registered'
    BY DEF OneDrain
  <2>1. CASE drain'[p] = ds[p]
    <3>1. ds[p] = drain[p] /\ p = r
      BY <1>h, <2>1
    <3> QED BY <1>h, <2>1, <3>1
  <2>2. CASE drain'[p] # ds[p]
    <3>1. HasWork(qs[p]) /\ (p = registered' \/ p = r)
      BY <1>h, <1>s, <2>2
    <3> QED BY <1>h, <3>1
  <2> QED BY <2>1, <2>2
<1>2. NoSummaries'
  BY <1>h, <1>s DEF NoSummaries
<1>3. AcceptedOrder'
  <2>1. CASE registered' = NoQueue
    <3>1. r = NoQueue \/ qs[r].items = <<>>
      BY <1>h, <1>w, <2>1
    <3> QED BY <1>h, <2>1, <3>1 DEF AcceptedOrder
  <2>2. CASE registered' # NoQueue
    <3>1. registered' = r /\ r \in Queues /\ queue'[r].items = qs[r].items
      BY <1>h, <1>s, <2>2
    <3> QED BY <1>h, <1>n, <3>1 DEF AcceptedOrder
  <2> QED BY <2>1, <2>2
<1>4. ASSUME NEW p \in Queues PROVE AtHead(p)'
  <2>1. CASE drain'[p] = ds[p] /\ ds[p].pc # "off"
    <3>1. drain'[p] = drain[p] /\ AtHead(p)
      BY <1>h, <1>k, <2>1
    <3>2. /\ queue'[p].items = qs[p].items /\ queue[p].items \in Seq(Messages)
          /\ qs[p].items \in Seq(Messages)
      <4>1. queue[p] \in FollowupQueueState /\ qs[p] \in FollowupQueueState
        BY <1>h DEF TypeInv
      <4> QED BY <1>s, <4>1 DEF FollowupQueueState
    <3>3. /\ Len(queue[p].items) <= Len(qs[p].items)
          /\ \A i \in 1..Len(queue[p].items) : qs[p].items[i] = queue[p].items[i]
      BY <1>h, <2>1
    <3>4. queue[p].items # <<>> => qs[p].items # <<>>
      BY <3>2, <3>3
    <3>5. ASSUME InFlight(p)
          PROVE  LET n == Len(drain[p].batch) + Len(drain[p].rest)
                 IN  n <= Len(qs[p].items)
                     /\ SubSeq(qs[p].items, 1, n) = SubSeq(queue[p].items, 1, n)
      <4> DEFINE n == Len(drain[p].batch) + Len(drain[p].rest)
      <4>1. n \in Nat
        <5>1. drain[p] \in Drain
          BY DEF TypeInv
        <5>2. drain[p].batch \in Seq(Messages) /\ drain[p].rest \in Seq(Messages)
          BY <5>1 DEF Drain
        <5>3. Len(drain[p].batch) \in Nat /\ Len(drain[p].rest) \in Nat
          BY <5>2
        <5>4. \A a, b \in Nat : a + b \in Nat
          OBVIOUS
        <5> QED BY <5>3, <5>4, Zenon
      <4>2. n <= Len(queue[p].items)
        BY <3>1, <3>5 DEF AtHead
      <4>3. n \in 0..Len(queue[p].items) /\ n <= Len(qs[p].items)
        <5>1. Len(queue[p].items) \in Nat /\ Len(qs[p].items) \in Nat
          BY <3>2
        <5> HIDE DEF n
        <5>2. \A a, b, c \in Nat : a <= b /\ b <= c => a \in 0..b /\ a <= c
          OBVIOUS
        <5> QED BY <3>3, <4>1, <4>2, <5>1, <5>2
      <4>4. SubSeq(qs[p].items, 1, n) = SubSeq(queue[p].items, 1, n)
        BY <3>2, <3>3, <4>3, SameHead
      <4> QED BY <4>3, <4>4 DEF n
    <3> QED BY <3>1, <3>2, <3>4, <3>5 DEF AtHead, InFlight
  <2>2. CASE drain'[p] = ds[p] /\ ds[p].pc = "off"
    BY <2>2 DEF AtHead, InFlight
  <2>3. CASE drain'[p] # ds[p]
    <3>1. drain'[p].pc = "debounce" /\ queue'[p].items # <<>>
      BY <1>s, <1>w, <2>3
    <3> QED BY <3>1 DEF AtHead, InFlight
  <2> QED BY <2>1, <2>2, <2>3
<1> QED BY <1>1, <1>2, <1>3, <1>4

\* Nothing is dropped or cleared that was not dropped or cleared already.
LEMMA UntouchedBefore ==
  ASSUME [Next]_vars, Untouched'
  PROVE  Untouched
<1> USE DEF Untouched, historyVars
<1>1. dropped \subseteq dropped' /\ discarded \subseteq discarded'
  <2>1. ASSUME NEW m \in Messages, Enqueues(m)
        PROVE  dropped \subseteq dropped' /\ discarded \subseteq discarded'
    <3>1. PICK mode \in Modes : enqueueFollowupRun(m, mode)
      BY <2>1 DEF Enqueues
    <3>2. dropped' = dropped \/ \E S : dropped' = dropped \cup S
      BY <3>1 DEF enqueueFollowupRun
    <3>3. discarded' = discarded \/ \E S : discarded' = discarded \cup S
      BY <3>1 DEF enqueueFollowupRun
    <3> QED BY <3>2, <3>3
  <2>2. ASSUME clearSessionQueues
        PROVE  dropped \subseteq dropped' /\ discarded \subseteq discarded'
    <3>1. dropped' = dropped /\ \E S : discarded' = (discarded \cup S)
                                                   \cup ToSet(queue[registered].summaryLines)
      BY <2>2 DEF clearSessionQueues
    <3> QED BY <3>1
  <2>3. ASSUME dropped' = dropped, discarded' = discarded
        PROVE  dropped \subseteq dropped' /\ discarded \subseteq discarded'
    BY <2>3
  <2>4. ASSUME NEW o \in Queues, DebounceEnds(o) PROVE dropped' = dropped /\ discarded' = discarded
    BY <2>4 DEF DebounceEnds
  <2>5. ASSUME NEW o \in Queues, TurnStarts(o) PROVE dropped' = dropped /\ discarded' = discarded
    BY <2>5 DEF TurnStarts
  <2>6. ASSUME NEW o \in Queues, TurnReturns(o) PROVE dropped' = dropped /\ discarded' = discarded
    BY <2>6 DEF TurnReturns
  <2>7. ASSUME NEW o \in Queues, TurnThrows(o) PROVE dropped' = dropped /\ discarded' = discarded
    BY <2>7 DEF TurnThrows
  <2>8. ASSUME NEW m \in Messages, Arrive(m) \/ RunNow(m)
        PROVE  dropped' = dropped /\ discarded' = discarded
    BY <2>8 DEF Arrive, RunNow
  <2>9. MainEnds \/ SessionRollsOver => dropped' = dropped /\ discarded' = discarded
    BY DEF MainEnds, SessionRollsOver
  <2>11. ASSUME NEW id \in recent, RecentIdExpires(id)
         PROVE  dropped' = dropped /\ discarded' = discarded
    BY <2>11 DEF RecentIdExpires
  <2>10. UNCHANGED vars => dropped' = dropped /\ discarded' = discarded
    BY DEF vars
  <2> QED
    BY <2>1, <2>2, <2>3, <2>4, <2>5, <2>6, <2>7, <2>8, <2>9, <2>10, <2>11 DEF Next, DrainStep
<1> QED BY <1>1

\* Queueing a message that drops none appends it, or refuses it.
LEMMA QueuedAppends ==
  ASSUME TypeInv, Untouched', NEW m \in Messages, NEW o \in Queues,
         NEW Q \in FollowupQueueState, QueuedIn(m, o, Q),
         Len(Q.items) <= Cap, Len(Q.summaryLines) <= Cap,
         Q.summaryLines = <<>>, Q.droppedCount = 0
  PROVE  LET R == IF AlreadyQueued(Q, m) THEN Q ELSE Push(Q, m)
         IN  /\ R \in FollowupQueueState /\ R.droppedCount = 0 /\ R.summaryLines = <<>>
             /\ \/ R.items = Q.items /\ accepted' = accepted
                \/ R.items = Append(Q.items, m) /\ accepted' = Append(accepted, m)
<1> DEFINE R == IF AlreadyQueued(Q, m) THEN Q ELSE Push(Q, m)
           gone == Overflow(Q)
<1>1. CASE AlreadyQueued(Q, m)
  BY <1>1 DEF QueuedIn
<1>2. CASE ~AlreadyQueued(Q, m)
  <2>1. /\ R \in FollowupQueueState /\ gone \in Seq(Messages)
        /\ IF Len(Q.items) >= Cap /\ DropPolicy = "new"
           THEN R.items = Q.items /\ gone = <<>>
           ELSE R.items = Append(Drop(Q.items, Len(gone)), m)
        /\ Len(Q.items) >= Cap /\ DropPolicy # "new" => gone # <<>>
        /\ Len(Q.items) < Cap => gone = <<>>
        /\ gone = <<>> /\ Q.summaryLines = <<>> =>
             R.summaryLines = <<>> /\ R.droppedCount = Q.droppedCount
    BY <1>2, PushElements
  <2>2. gone = <<>>
    <3>1. CASE Len(Q.items) < Cap \/ DropPolicy = "new"
      BY <3>1 DEF Overflow
    <3>2. CASE DropPolicy # "new"
      <4>1. DropPolicy \in {"summarize", "old"}
        BY <3>2, FollowupQueueAssumption
      <4>2. ToSet(gone) = {}
        BY <1>2, <4>1 DEF QueuedIn, Untouched
      <4> HIDE DEF gone
      <4>3. gone # <<>> => 1 \in 1..Len(gone)
        BY <2>1
      <4> QED BY <4>2, <4>3 DEF ToSet
    <3> QED BY <3>1, <3>2
  <2>3. Drop(Q.items, Len(<<>>)) = Q.items
    <3>1. Q.items \in Seq(Messages) /\ Len(<<>>) + 1 = 1
      BY DEF FollowupQueueState
    <3> QED BY <3>1, SubSeqFull DEF Drop
  <2>4. accepted' = IF Len(Q.items) >= Cap /\ DropPolicy = "new"
                    THEN accepted ELSE Append(accepted, m)
    BY <1>2 DEF QueuedIn
  <2> HIDE DEF gone, R
  <2>5. R.items = Q.items \/ R.items = Append(Q.items, m)
    BY <2>1, <2>2, <2>3
  <2> QED BY <2>1, <2>2, <2>3, <2>4 DEF R
<1> QED BY <1>1, <1>2

\* Queueing a message keeps the order.
LEMMA FifoEnqueue ==
  ASSUME TypeInv, TypeInv', ActiveInv, InOrder, Untouched', NEW m \in Messages,
         NEW o \in Queues, NEW Q \in FollowupQueueState, QueuedIn(m, o, Q),
         turns' = turns, active' = active
  PROVE  InOrder'
<1> DEFINE R == IF AlreadyQueued(Q, m) THEN Q ELSE Push(Q, m)
           qs == [queue EXCEPT ![o] = R]
<1>n. NoQueue \notin Queues /\ Cap \in Nat
  BY FollowupQueueAssumption
<1>1. /\ registered = NoQueue =>
           drain[o].pc = "off" /\ Q.items = <<>> /\ Q.summaryLines = <<>> /\ Q.droppedCount = 0
      /\ registered # NoQueue =>
           /\ o = registered /\ Q.items = queue[o].items
           /\ Q.summaryLines = queue[o].summaryLines /\ Q.droppedCount = queue[o].droppedCount
      /\ Settles(qs, drain) /\ registered' \in {o, NoQueue}
      /\ registered' = NoQueue => ~HasWork(R) /\ drain[o].pc = "off"
      /\ registered' = o => isRunActive \/ drain'[o].pc # "off"
  BY DEF QueuedIn
<1>2. /\ Len(Q.items) <= Cap /\ Len(Q.summaryLines) <= Cap
      /\ Q.summaryLines = <<>> /\ Q.droppedCount = 0
  <2>1. Len(<<>>) = 0
    OBVIOUS
  <2> QED BY <1>n, <1>1, <2>1 DEF TypeInv, InOrder, NoSummaries
<1>3. /\ R \in FollowupQueueState /\ R.droppedCount = 0 /\ R.summaryLines = <<>>
      /\ \/ R.items = Q.items /\ accepted' = accepted
         \/ R.items = Append(Q.items, m) /\ accepted' = Append(accepted, m)
  BY <1>2, QueuedAppends
<1> HIDE DEF R
<1>4. accepted = turns \o Q.items
  BY <1>1 DEF InOrder, AcceptedOrder
<1>5. accepted' = turns' \o R.items
  <2>1. CASE R.items = Q.items /\ accepted' = accepted
    BY <1>4, <2>1
  <2>2. CASE R.items = Append(Q.items, m) /\ accepted' = Append(accepted, m)
    <3>1. turns \in Seq(Messages) /\ Q.items \in Seq(Messages) /\ accepted \in Seq(Messages)
      BY DEF TypeInv, FollowupQueueState
    <3>2. /\ Append(accepted, m) = accepted \o <<m>>
          /\ Append(Q.items, m) = Q.items \o <<m>>
      BY <3>1, AppendIsConcat
    <3>3. <<m>> \in Seq(Messages)
      OBVIOUS
    <3>4. (turns \o Q.items) \o <<m>> = turns \o (Q.items \o <<m>>)
      <4>1. \A s, t, u \in Seq(Messages) : (s \o t) \o u = s \o (t \o u)
        BY ConcatAssociative
      <4> QED BY <3>1, <3>3, <4>1, ZenonT(30)
    <3> QED BY <1>4, <2>2, <3>2, <3>4
  <2> QED BY <1>3, <2>1, <2>2
<1>6. qs \in [Queues -> FollowupQueueState]
  BY <1>3 DEF TypeInv
<1>7. \A p \in Queues : qs[p] = IF p = o THEN R ELSE queue[p]
  BY DEF TypeInv
<1>8. \A p \in Queues : drain[p].pc # "off" => p = o /\ o = registered
  BY <1>1, <1>n DEF InOrder, OneDrain
<1>9. \A p \in Queues :
        /\ drain[p] = drain[p] \/ drain[p].pc = "off"
        /\ qs[p].droppedCount = 0 /\ qs[p].summaryLines = <<>>
        /\ drain[p].pc # "off" =>
             /\ Len(queue[p].items) <= Len(qs[p].items)
             /\ \A i \in 1..Len(queue[p].items) : qs[p].items[i] = queue[p].items[i]
  <2>1. \A p \in Queues : qs[p].droppedCount = 0 /\ qs[p].summaryLines = <<>>
    BY <1>3, <1>7 DEF InOrder, NoSummaries
  <2>2. ASSUME NEW p \in Queues, drain[p].pc # "off"
        PROVE  /\ Len(queue[p].items) <= Len(qs[p].items)
               /\ \A i \in 1..Len(queue[p].items) : qs[p].items[i] = queue[p].items[i]
    <3>1. p = o /\ Q.items = queue[p].items /\ qs[p].items = R.items
      BY <1>n, <1>1, <1>7, <1>8, <2>2
    <3>2. Q.items \in Seq(Messages) /\ Len(Q.items) \in Nat
      BY DEF FollowupQueueState
    <3>3. /\ Len(Append(Q.items, m)) = Len(Q.items) + 1
          /\ \A i \in 1..Len(Q.items) : Append(Q.items, m)[i] = Q.items[i]
      BY <3>2
    <3> QED BY <1>3, <3>1, <3>2, <3>3, SMTT(30)
  <2> QED BY <2>1, <2>2
<1>10. OneDrain' /\ NoSummaries' /\ AcceptedOrder' /\ \A p \in Queues : AtHead(p)'
  <2>1. ~HasWork(R) => ~HasWork(qs[o])
    BY <1>7
  <2>2. accepted' = turns' \o (IF o = NoQueue THEN <<>> ELSE qs[o].items)
    BY <1>n, <1>5, <1>7
  <2>4. /\ Settles(qs, drain) /\ registered' \in {o, NoQueue} /\ o \in Queues \cup {NoQueue}
        /\ \A p \in Queues : drain[p].pc # "off" => p = o
        /\ o \in Queues /\ registered' = NoQueue => ~HasWork(qs[o]) /\ drain[o].pc = "off"
    BY <1>1, <1>8, <2>1
  <2> HIDE DEF qs
  <2>5. KeepsOrder(qs, drain, o)
    BY <1>6, <1>9, <2>2, <2>4 DEF KeepsOrder
  <2> QED BY <2>5, FifoSettles
<1>11. WorkInv'
  <2> SUFFICES ASSUME registered' = o, isRunActive, active # "main" PROVE drain'[o].pc # "off"
    BY <1>1 DEF WorkInv
  <2>1. active \in Queues /\ drain[active].pc = "running"
    BY DEF TypeInv, isRunActive, ActiveInv
  <2>2. drain[o].pc = "running"
    BY <1>8, <2>1
  <2> HIDE DEF qs
  <2> QED BY <1>1, <2>2 DEF Settles
<1> QED BY <1>10, <1>11 DEF InOrder

\* The end of a drain keeps the order.
LEMMA FifoEndDrain ==
  ASSUME TypeInv, TypeInv', InOrder, NEW o \in Queues, drain[o].pc # "off",
         EndDrain(o, queue[o]), turns' = turns, accepted' = accepted
  PROVE  InOrder'
<1> DEFINE ds == [drain EXCEPT ![o] = NoDrain]
<1>n. NoQueue \notin Queues /\ NoDrain.pc = "off"
  BY FollowupQueueAssumption DEF NoDrain
<1>1. registered = o /\ \A p \in Queues : drain[p].pc # "off" => p = o
  BY DEF InOrder, OneDrain
<1>2. queue[o] \in FollowupQueueState /\ queue \in [Queues -> FollowupQueueState]
  BY DEF TypeInv
<1>3. /\ Settles([queue EXCEPT ![o] = queue[o]], ds) /\ registered' \in {registered, NoQueue}
      /\ registered = o /\ registered' = NoQueue => ~HasWork(queue[o])
      /\ registered' = o => drain'[o].pc # "off"
  BY <1>2, EndDrainSettles
<1>4. [queue EXCEPT ![o] = queue[o]] = queue
  BY <1>2
<1>5. \A p \in Queues : ds[p].pc = "off"
  BY <1>n, <1>1 DEF TypeInv
<1> HIDE DEF ds
<1>6. KeepsOrder(queue, ds, o)
  <2>1. \A p \in Queues : queue[p].droppedCount = 0 /\ queue[p].summaryLines = <<>>
    BY DEF InOrder, NoSummaries
  <2>2. accepted' = turns' \o (IF o = NoQueue THEN <<>> ELSE queue[o].items)
    BY <1>1 DEF InOrder, AcceptedOrder
  <2> QED BY <1>1, <1>2, <1>3, <1>4, <1>5, <2>1, <2>2 DEF KeepsOrder
<1>7. OneDrain' /\ NoSummaries' /\ AcceptedOrder' /\ \A p \in Queues : AtHead(p)'
  BY <1>6, FifoSettles
<1>8. WorkInv'
  BY <1>1, <1>3 DEF WorkInv
<1> QED BY <1>7, <1>8 DEF InOrder

\* The end of the run of an inbound message keeps the order.
LEMMA FifoMainEnds ==
  ASSUME TypeInv, TypeInv', InOrder, MainEnds
  PROVE  InOrder'
<1>n. NoQueue \notin Queues
  BY FollowupQueueAssumption
<1>1. /\ Becomes(scheduleFollowupDrain(queue, drain, registered))
      /\ turns' = turns /\ accepted' = accepted
  BY DEF MainEnds, historyVars
<1>2. /\ queue \in [Queues -> FollowupQueueState] /\ drain \in [Queues -> Drain]
      /\ registered \in Queues \cup {NoQueue}
      /\ \A p \in Queues : queue[p].draining <=> drain[p].pc # "off"
  BY DEF TypeInv
<1>3. /\ Settles(queue, drain) /\ registered' \in {registered, NoQueue}
      /\ registered \in Queues /\ registered' = NoQueue =>
           ~HasWork(queue[registered]) /\ drain[registered].pc = "off"
      /\ registered' \in Queues => registered' = registered /\ drain'[registered].pc # "off"
  BY <1>1, <1>2, ScheduleSettles
<1>4. KeepsOrder(queue, drain, registered)
  <2>1. \A p \in Queues : queue[p].droppedCount = 0 /\ queue[p].summaryLines = <<>>
    BY DEF InOrder, NoSummaries
  <2>2. accepted' = turns' \o (IF registered = NoQueue THEN <<>> ELSE queue[registered].items)
    BY <1>1 DEF InOrder, AcceptedOrder
  <2>3. \A p \in Queues : drain[p].pc # "off" => p = registered
    BY DEF InOrder, OneDrain
  <2>4. \A p \in Queues : Len(queue[p].items) <= Len(queue[p].items)
    <3>1. \A p \in Queues : queue[p].items \in Seq(Messages)
      BY <1>2 DEF FollowupQueueState
    <3>2. \A s \in Seq(Messages) : Len(s) <= Len(s)
      OBVIOUS
    <3> QED BY <3>1, <3>2
  <2> QED BY <1>2, <1>3, <2>1, <2>2, <2>3, <2>4 DEF KeepsOrder
<1>5. OneDrain' /\ NoSummaries' /\ AcceptedOrder' /\ \A p \in Queues : AtHead(p)'
  BY <1>4, FifoSettles
<1>6. WorkInv'
  <2>1. registered' \in Queues \cup {NoQueue}
    BY <1>2, <1>3
  <2> QED BY <1>3, <2>1 DEF WorkInv
<1> QED BY <1>5, <1>6 DEF InOrder

\* Clearing a queue that holds nothing keeps the order.
LEMMA FifoClear ==
  ASSUME TypeInv, TypeInv', InOrder, clearSessionQueues, Untouched'
  PROVE  InOrder'
<1> DEFINE r == registered
           Q == [EmptyQueue EXCEPT !.draining = queue[registered].draining,
                                   !.mode = queue[registered].mode]
<1>n. NoQueue \notin Queues
  BY FollowupQueueAssumption
<1>1. /\ r \in Queues /\ registered' = NoQueue /\ drain' = drain
      /\ turns' = turns /\ accepted' = accepted
  BY DEF clearSessionQueues, TypeInv
<1>2. queue[r].items = <<>>
  <2>1. ToSet(queue[r].items) = {}
    BY DEF clearSessionQueues, Untouched
  <2>2. queue[r].items \in Seq(Messages)
    BY <1>1 DEF TypeInv, FollowupQueueState
  <2>3. queue[r].items # <<>> => 1 \in 1..Len(queue[r].items)
    BY <2>2
  <2> QED BY <2>1, <2>3 DEF ToSet
<1>3. \A p \in Queues : drain[p].pc = "off"
  <2> SUFFICES ASSUME NEW p \in Queues, drain[p].pc # "off" PROVE FALSE
    OBVIOUS
  <2>1. p = r /\ AtHead(r)
    BY DEF InOrder, OneDrain
  <2>2. InFlight(r)
    <3>1. drain[r] \in Drain
      BY <1>1 DEF TypeInv
    <3>2. drain[r].pc \in {"debounce", "starting", "running"}
      BY <2>1, <3>1 DEF Drain
    <3> QED BY <1>2, <2>1, <3>2 DEF AtHead, InFlight
  <2>3. drain[r].batch # <<>> /\ Len(drain[r].batch) + Len(drain[r].rest) <= Len(queue[r].items)
    BY <2>1, <2>2 DEF AtHead
  <2>4. drain[r].batch \in Seq(Messages) /\ drain[r].rest \in Seq(Messages)
    BY <1>1 DEF TypeInv, Drain
  <2>5. Len(drain[r].batch) \in Nat \ {0} /\ Len(drain[r].rest) \in Nat
    BY <2>3, <2>4
  <2>6. Len(queue[r].items) = 0
    BY <1>2
  <2>7. Len(drain[r].batch) + Len(drain[r].rest) <= 0
    BY <2>3, <2>6, Zenon
  <2>8. \A b \in Nat \ {0} : \A c \in Nat : ~(b + c <= 0)
    OBVIOUS
  <2> QED BY <2>5, <2>7, <2>8, Zenon
<1>4. queue' = [queue EXCEPT ![r] = Q]
  BY DEF clearSessionQueues
<1>5. Q.summaryLines = <<>> /\ Q.droppedCount = 0
  BY DEF EmptyQueue
<1> HIDE DEF Q
<1>6. NoSummaries'
  BY <1>1, <1>4, <1>5 DEF InOrder, NoSummaries, TypeInv
<1>7. AcceptedOrder'
  <2>1. accepted = turns \o <<>>
    BY <1>n, <1>1, <1>2 DEF InOrder, AcceptedOrder
  <2> QED BY <1>1, <2>1 DEF AcceptedOrder
<1>8. OneDrain' /\ WorkInv' /\ \A p \in Queues : AtHead(p)'
  BY <1>1, <1>3 DEF OneDrain, WorkInv, AtHead, InFlight
<1> QED BY <1>6, <1>7, <1>8 DEF InOrder

\* Taking the head of the queue keeps the order.
LEMMA FifoTake ==
  ASSUME TypeInv, InOrder, NEW o \in Queues, NEW d \in Drain, drain[o].pc # "off",
         drain' = [drain EXCEPT ![o] = d], Takes(o, d), queue' = queue,
         registered' = registered, turns' = turns, accepted' = accepted
  PROVE  InOrder'
<1>1. \A p \in Queues : drain'[p] = IF p = o THEN d ELSE drain[p]
  BY DEF TypeInv
<1>2. d.pc = "starting" /\ queue[o].droppedCount = 0 /\ registered = o
  BY DEF Takes, InOrder, NoSummaries, OneDrain
<1>3. AtHead(o)'
  BY <1>1, <1>2 DEF Takes, AtHead, InFlight
<1>4. \A p \in Queues \ {o} : AtHead(p)'
  BY <1>1, ZenonT(30) DEF InOrder, AtHead, InFlight
<1>5. OneDrain' /\ NoSummaries' /\ AcceptedOrder' /\ WorkInv'
  BY <1>1, <1>2 DEF InOrder, OneDrain, NoSummaries, AcceptedOrder, WorkInv
<1> QED BY <1>3, <1>4, <1>5 DEF InOrder

\* A turn that returns was about the head of the queue, which loses just that.
LEMMA ReturnedHead ==
  ASSUME TypeInv, InOrder, NEW o \in Queues, TurnReturns(o)
  PROVE  LET d == drain[o]
             R == AfterTurn(queue[o], d)
         IN  /\ registered = o /\ R \in FollowupQueueState
             /\ R.droppedCount = 0 /\ R.summaryLines = <<>>
             /\ queue[o].items = d.batch \o R.items
             /\ Len(d.rest) <= Len(R.items) /\ d.rest = SubSeq(R.items, 1, Len(d.rest))
             /\ accepted' = turns' \o R.items
<1> DEFINE d == drain[o]
           R == AfterTurn(queue[o], d)
           items == queue[o].items
           n == Len(d.batch)
           k == Len(d.rest)
<1>1. /\ d.pc = "running" /\ accepted' = accepted
      /\ turns' = IF d.kind \in {"item", "collect"} THEN turns \o d.batch ELSE turns
  BY DEF TurnReturns
<1>2. /\ d \in Drain /\ queue[o] \in FollowupQueueState /\ turns \in Seq(Messages)
      /\ d.batch \in Seq(Messages) /\ d.rest \in Seq(Messages) /\ items \in Seq(Messages)
  BY DEF TypeInv, Drain, FollowupQueueState
<1>3. /\ registered = o /\ o # NoQueue
      /\ d.kind \in {"item", "collect"} /\ d.summary = <<>>
      /\ n + k <= Len(items) /\ d.batch \o d.rest = SubSeq(items, 1, n + k)
  BY <1>1, FollowupQueueAssumption DEF InOrder, OneDrain, AtHead, InFlight
<1>4. /\ R \in FollowupQueueState
      /\ R.items = IF n >= Len(items) THEN <<>> ELSE Drop(items, n)
      /\ \A i \in 1..Len(R.items) : i + n \in 1..Len(items) /\ R.items[i] = items[i + n]
      /\ R.summaryLines = queue[o].summaryLines /\ R.droppedCount = queue[o].droppedCount
  <2>1. d.kind # "summary"
    BY <1>3
  <2> QED BY <1>2, <1>3, <2>1, AfterTurnElements
<1>5. R.droppedCount = 0 /\ R.summaryLines = <<>>
  BY <1>4 DEF InOrder, NoSummaries
<1> HIDE DEF R, d, items, n, k
<1>6. n \in Nat /\ k \in Nat /\ Len(items) \in Nat /\ n <= Len(items)
  <2>1. n \in Nat /\ k \in Nat /\ Len(items) \in Nat
    BY <1>2 DEF n, k
  <2> QED BY <1>3, <2>1
<1>7. R.items \in Seq(Messages) /\ Len(R.items) = Len(items) - n
  <2>1. CASE n >= Len(items)
    BY <1>4, <1>6, <2>1
  <2>2. CASE ~(n >= Len(items))
    <3>1. n \in 0..Len(items)
      BY <1>6
    <3> QED BY <1>2, <1>4, <2>2, <3>1, DropElements
  <2> QED BY <2>1, <2>2
<1>8. /\ \A i \in 1..n : d.batch[i] = items[i]
      /\ \A i \in 1..k : d.rest[i] = items[i + n]
  <2>1. \A i \in 1..(n + k) : (d.batch \o d.rest)[i] = items[i]
    <3>1. \A i \in 1..(n + k) : SubSeq(items, 1, n + k)[i] = items[i]
      BY <1>2, <1>3, <1>6
    <3> QED BY <1>3, <3>1
  <2>2. /\ \A i \in 1..n : (d.batch \o d.rest)[i] = d.batch[i]
        /\ \A i \in 1..k : (d.batch \o d.rest)[n + i] = d.rest[i]
    <3>1. \A s, t \in Seq(Messages) :
            /\ \A i \in 1..Len(s) : (s \o t)[i] = s[i]
            /\ \A i \in 1..Len(t) : (s \o t)[Len(s) + i] = t[i]
      OBVIOUS
    <3> QED BY <1>2, <3>1, Zenon DEF n, k
  <2>3. /\ \A i \in 1..n : i \in 1..(n + k)
        /\ \A i \in 1..k : n + i \in 1..(n + k) /\ n + i = i + n
    BY <1>6
  <2> QED BY <2>1, <2>2, <2>3
<1>9. items = d.batch \o R.items
  <2>1. Len(d.batch) + Len(R.items) = Len(items)
    <3>1. \A a, b \in Nat : a + (b - a) = b
      OBVIOUS
    <3>2. n + Len(R.items) = Len(items)
      BY <1>6, <1>7, <3>1, Zenon
    <3> QED BY <3>2 DEF n
  <2>2. /\ \A i \in 1..Len(d.batch) : d.batch[i] = items[i]
        /\ \A i \in 1..Len(R.items) : R.items[i] = items[i + Len(d.batch)]
    BY <1>4, <1>8 DEF n
  <2>3. d.batch \in Seq(Messages) /\ R.items \in Seq(Messages) /\ items \in Seq(Messages)
    BY <1>2, <1>7
  <2> QED BY <2>1, <2>2, <2>3, HeadAndTail, Zenon
<1>10. k <= Len(R.items) /\ d.rest = SubSeq(R.items, 1, k)
  <2>1. k <= Len(R.items)
    BY <1>3, <1>6, <1>7
  <2>2. /\ SubSeq(R.items, 1, k) \in Seq(Messages) /\ Len(SubSeq(R.items, 1, k)) = k
        /\ \A i \in 1..k : SubSeq(R.items, 1, k)[i] = R.items[i]
    BY <1>6, <1>7, <2>1
  <2>3. \A i \in 1..k : R.items[i] = d.rest[i]
    <3>1. \A i \in 1..k : i \in 1..Len(R.items)
      BY <1>6, <1>7, <2>1
    <3> QED BY <1>4, <1>8, <3>1
  <2>4. Len(d.rest) = k
    BY DEF k
  <2> QED BY <1>2, <2>1, <2>2, <2>3, <2>4, SeqEqual
<1>11. accepted' = turns' \o R.items
  <2>1. accepted = turns \o items
    BY <1>3 DEF InOrder, AcceptedOrder, items
  <2>2. turns' = turns \o d.batch
    BY <1>1, <1>3
  <2>3. \A s, t, u \in Seq(Messages) : (s \o t) \o u = s \o (t \o u)
    BY ConcatAssociative
  <2>4. (turns \o d.batch) \o R.items = turns \o (d.batch \o R.items)
    <3>1. turns \in Seq(Messages) /\ d.batch \in Seq(Messages) /\ R.items \in Seq(Messages)
      BY <1>2, <1>7
    <3> QED BY <2>3, <3>1, Zenon
  <2> QED BY <1>1, <1>9, <2>1, <2>2, <2>4
<1> QED BY <1>3, <1>4, <1>5, <1>9, <1>10, <1>11 DEF d, R, items, k

\* The return of a turn keeps the order.
LEMMA FifoReturn ==
  ASSUME TypeInv, TypeInv', InOrder, NEW o \in Queues, TurnReturns(o)
  PROVE  InOrder'
<1> DEFINE d == drain[o]
           R == AfterTurn(queue[o], d)
           qs == [queue EXCEPT ![o] = R]
           ds == [drain EXCEPT ![o] = NoDrain]
<1>n. NoQueue \notin Queues /\ NoDrain.pc = "off"
  BY FollowupQueueAssumption DEF NoDrain
<1>1. /\ registered = o /\ R \in FollowupQueueState
      /\ R.droppedCount = 0 /\ R.summaryLines = <<>>
      /\ Len(d.rest) <= Len(R.items) /\ d.rest = SubSeq(R.items, 1, Len(d.rest))
      /\ accepted' = turns' \o R.items
  BY ReturnedHead
<1>2. \A p \in Queues : drain[p].pc # "off" => p = o
  BY <1>1 DEF InOrder, OneDrain
<1>3. \/ /\ d.rest # <<>>
         /\ queue' = [queue EXCEPT ![o] = R] /\ registered' = registered
         /\ \E e \in Drain : drain' = [drain EXCEPT ![o] = e] /\ Follows(d, e)
      \/ /\ d.rest = <<>>
         /\ Settles([queue EXCEPT ![o] = R], [drain EXCEPT ![o] = NoDrain])
         /\ registered' \in {registered, NoQueue}
         /\ registered = o /\ registered' = NoQueue => ~HasWork(R)
         /\ registered' = o => drain'[o].pc # "off"
  BY ReturnShape
<1>4. d.kind \in {"item", "collect"}
  BY DEF TurnReturns, InOrder, AtHead, InFlight
<1> HIDE DEF R, d
<1>5. \A p \in Queues : /\ qs[p] = IF p = o THEN R ELSE queue[p]
                        /\ ds[p].pc = "off"
  BY <1>n, <1>2 DEF TypeInv
<1>6. \A p \in Queues : qs[p].droppedCount = 0 /\ qs[p].summaryLines = <<>>
  BY <1>1, <1>5 DEF InOrder, NoSummaries
<1>7. qs \in [Queues -> FollowupQueueState]
  BY <1>1 DEF TypeInv
<1>8. CASE d.rest # <<>>
  <2>1. /\ queue' = qs /\ registered' = o
        /\ \E e \in Drain : drain' = [drain EXCEPT ![o] = e] /\ Follows(d, e)
    BY <1>1, <1>3, <1>8
  <2>2. PICK e \in Drain : drain' = [drain EXCEPT ![o] = e] /\ Follows(d, e)
    BY <2>1
  <2>3. \A p \in Queues : drain'[p] = IF p = o THEN e ELSE drain[p]
    BY <2>2 DEF TypeInv
  <2>4. queue'[o].items = R.items /\ \A p \in Queues : p # o => drain'[p].pc = "off"
    BY <1>2, <1>5, <2>1, <2>3
  <2> HIDE DEF qs, ds
  <2>5. AtHead(o)'
    BY <1>1, <1>4, <2>2, <2>3, <2>4, ZenonT(30) DEF AtHead, InFlight, Follows
  <2>6. \A p \in Queues : AtHead(p)'
    BY <2>4, <2>5 DEF AtHead, InFlight
  <2>7. e.pc # "off" /\ drain'[o] = e
    BY <2>2, <2>3 DEF Follows
  <2>8. OneDrain' /\ WorkInv'
    BY <2>1, <2>4, <2>7 DEF OneDrain, WorkInv
  <2>9. NoSummaries' /\ AcceptedOrder'
    BY <1>n, <1>1, <1>6, <2>1, <2>4 DEF NoSummaries, AcceptedOrder
  <2> QED BY <2>6, <2>8, <2>9 DEF InOrder
<1>9. CASE d.rest = <<>>
  <2>1. /\ Settles(qs, ds) /\ registered' \in {o, NoQueue}
        /\ registered' = NoQueue => ~HasWork(qs[o])
        /\ registered' = o => drain'[o].pc # "off"
    BY <1>1, <1>3, <1>5, <1>9
  <2>2. accepted' = turns' \o (IF o = NoQueue THEN <<>> ELSE qs[o].items)
    BY <1>n, <1>1, <1>5
  <2> HIDE DEF qs, ds
  <2>3. KeepsOrder(qs, ds, o)
    BY <1>2, <1>5, <1>6, <1>7, <2>1, <2>2 DEF KeepsOrder
  <2>4. OneDrain' /\ NoSummaries' /\ AcceptedOrder' /\ \A p \in Queues : AtHead(p)'
    BY <2>3, FifoSettles
  <2>5. WorkInv'
    BY <2>1 DEF WorkInv
  <2> QED BY <2>4, <2>5 DEF InOrder
<1> QED BY <1>8, <1>9

\* What leaves the queues and drains alone keeps the order.
LEMMA FifoSame ==
  ASSUME InOrder, queue' = queue, drain' = drain, registered' = registered,
         turns' = turns, accepted' = accepted, active = "main" => active' = "main"
  PROVE  InOrder'
BY DEF InOrder, OneDrain, NoSummaries, AcceptedOrder, AtHead, InFlight, WorkInv

\* Every step keeps the order.
LEMMA FifoStep == TypeInv /\ ActiveInv /\ FifoInv /\ [Next]_vars => FifoInv'
<1> SUFFICES ASSUME TypeInv, ActiveInv, FifoInv, [Next]_vars, Untouched' PROVE InOrder'
  BY DEF FifoInv
<1>t. TypeInv'
  BY TypeStep
<1>i. InOrder
  BY UntouchedBefore DEF FifoInv
<1> USE DEF historyVars
<1>1. ASSUME NEW m \in Messages, Arrive(m) PROVE InOrder'
  BY <1>i, <1>1, FifoSame DEF Arrive
<1>2. ASSUME NEW m \in Messages, RunNow(m) PROVE InOrder'
  <2>1. active = "main" => active' = "main"
    BY <1>2 DEF RunNow
  <2> QED BY <1>i, <1>2, <2>1, FifoSame DEF RunNow
<1>3. ASSUME NEW m \in Messages, Enqueues(m) PROVE InOrder'
  <2>1. PICK mode \in Modes : enqueueFollowupRun(m, mode)
    BY <1>3 DEF Enqueues
  <2>2. PICK o \in Queues, Q \in FollowupQueueState : QueuedIn(m, o, Q)
    BY <2>1, EnqueueShape
  <2>3. turns' = turns /\ active' = active
    BY <2>1 DEF enqueueFollowupRun
  <2> QED BY <1>t, <1>i, <2>2, <2>3, FifoEnqueue
<1>4. ASSUME MainEnds PROVE InOrder'
  BY <1>t, <1>i, <1>4, FifoMainEnds
<1>5. ASSUME SessionRollsOver PROVE InOrder'
  BY <1>i, <1>5, FifoSame DEF SessionRollsOver, sessionVars
<1>6. ASSUME clearSessionQueues PROVE InOrder'
  BY <1>t, <1>i, <1>6, FifoClear
<1>7. ASSUME NEW o \in Queues, DebounceEnds(o) PROVE InOrder'
  <2>1. turns' = turns /\ accepted' = accepted /\ drain[o].pc # "off"
    BY <1>7 DEF DebounceEnds
  <2>2. CASE EndDrain(o, queue[o])
    BY <1>t, <1>i, <2>1, <2>2, FifoEndDrain
  <2>3. CASE /\ UNCHANGED <<queue, registered>>
             /\ \E d \in Drain : drain' = [drain EXCEPT ![o] = d] /\ Takes(o, d)
    BY <1>i, <2>1, <2>3, FifoTake
  <2> QED BY <1>7, <2>2, <2>3, DebounceShape
<1>8. ASSUME NEW o \in Queues, TurnStarts(o) PROVE InOrder'
  <2>1. turns' = turns /\ accepted' = accepted /\ drain[o].pc = "starting"
    BY <1>8 DEF TurnStarts
  <2>2. CASE EndDrain(o, queue[o])
    BY <1>t, <1>i, <2>1, <2>2, FifoEndDrain
  <2>3. CASE /\ active = "none" /\ drain' = [drain EXCEPT ![o].pc = "running"]
             /\ UNCHANGED <<queue, registered>>
    <3>1. \A p \in Queues : p # o => drain'[p] = drain[p]
      BY <2>3 DEF TypeInv
    <3>2. /\ drain'[o].pc = "running" /\ drain'[o].kind = drain[o].kind
          /\ drain'[o].summary = drain[o].summary /\ drain'[o].batch = drain[o].batch
          /\ drain'[o].rest = drain[o].rest /\ drain'[o].run = drain[o].run
      BY <2>3 DEF TypeInv, Drain
    <3>3. AtHead(o)'
      BY <1>i, <2>1, <2>3, <3>2 DEF InOrder, AtHead, InFlight
    <3>4. \A p \in Queues : p # o => AtHead(p)'
      BY <1>i, <2>3, <3>1 DEF InOrder, AtHead, InFlight
    <3>5. OneDrain' /\ NoSummaries' /\ AcceptedOrder' /\ WorkInv'
      BY <1>i, <2>1, <2>3, <3>1, <3>2
         DEF InOrder, OneDrain, NoSummaries, AcceptedOrder, WorkInv
    <3> QED BY <3>3, <3>4, <3>5 DEF InOrder
  <2> QED BY <1>8, <2>2, <2>3 DEF TurnStarts
<1>9. ASSUME NEW o \in Queues, TurnReturns(o) PROVE InOrder'
  BY <1>t, <1>i, <1>9, FifoReturn
<1>10. ASSUME NEW o \in Queues, TurnThrows(o) PROVE InOrder'
  <2>1. turns' = turns /\ accepted' = accepted /\ drain[o].pc # "off" /\ EndDrain(o, queue[o])
    BY <1>10 DEF TurnThrows
  <2> QED BY <1>t, <1>i, <2>1, FifoEndDrain
<1>12. ASSUME NEW id \in recent, RecentIdExpires(id) PROVE InOrder'
  BY <1>i, <1>12, FifoSame DEF RecentIdExpires
<1>11. CASE UNCHANGED vars
  BY <1>i, <1>11, FifoSame DEF vars, sessionVars
<1> QED
  BY <1>1, <1>2, <1>3, <1>4, <1>5, <1>6, <1>7, <1>8, <1>9, <1>10, <1>11, <1>12
     DEF Next, DrainStep

\* The run of a turn is that of a message that waits in the queue.
LEMMA RunWaits ==
  ASSUME TypeInv, InOrder, NEW o \in Queues, InFlight(o), NEW m \in drain[o].run
  PROVE  m \in ToSet(queue[o].items)
<1> DEFINE d == drain[o]
           items == queue[o].items
           n == Len(d.batch) + Len(d.rest)
<1>1. /\ d.batch \in Seq(Messages) /\ d.rest \in Seq(Messages) /\ items \in Seq(Messages)
  BY DEF TypeInv, Drain, FollowupQueueState
<1>2. /\ d.run = RunOf(d.batch) /\ n <= Len(items) /\ d.batch \o d.rest = SubSeq(items, 1, n)
  BY DEF InOrder, AtHead
<1>3. ToSet(d.batch \o d.rest) = ToSet(d.batch) \cup ToSet(d.rest)
  BY <1>1, ConcatSet
<1>4. m \in ToSet(d.batch)
  BY <1>1, <1>2, RunOfType
<1>5. \A s \in Seq(Messages) : \A k \in Nat : k <= Len(s) => ToSet(SubSeq(s, 1, k)) \subseteq ToSet(s)
  BY DEF ToSet
<1>6. n \in Nat
  <2>1. Len(d.batch) \in Nat /\ Len(d.rest) \in Nat
    BY <1>1
  <2>2. \A a, b \in Nat : a + b \in Nat
    OBVIOUS
  <2> QED BY <2>1, <2>2, Zenon
<1> HIDE DEF n, d, items
<1>7. ToSet(SubSeq(items, 1, n)) \subseteq ToSet(items)
  BY <1>1, <1>2, <1>5, <1>6
<1>8. m \in ToSet(items)
  BY <1>2, <1>3, <1>4, <1>7
<1> QED BY <1>8 DEF items

\* Every step keeps the runs that wait on the session's id.
LEMMA FollowStep == TypeInv /\ ActiveInv /\ FifoInv /\ FollowInv /\ [Next]_vars => FollowInv'
<1> SUFFICES ASSUME TypeInv, ActiveInv, FifoInv, FollowInv, [Next]_vars,
                    Untouched', ~behind', registered' # NoQueue,
                    NEW x \in ToSet(queue'[registered'].items)
             PROVE  runSession'[x] = session'
  BY DEF FollowInv
<1>t. TypeInv'
  BY TypeStep
<1>i. InOrder /\ Untouched
  BY UntouchedBefore DEF FifoInv
<1>k. ASSUME registered' = registered, runSession' = runSession, session' = session,
             behind' = behind,
             ToSet(queue'[registered].items) \subseteq ToSet(queue[registered].items)
      PROVE  runSession'[x] = session'
  BY <1>i, <1>k DEF FollowInv
<1>s. ASSUME NEW qs, NEW ds, Settles(qs, ds), registered' = registered, runSession' = runSession,
             session' = session, behind' = behind,
             \A p \in Queues : qs[p].items = queue[p].items
      PROVE  runSession'[x] = session'
  <2>1. registered \in Queues
    BY <1>s, <1>t DEF TypeInv
  <2>2. queue'[registered].items = queue[registered].items
    BY <1>s, <2>1 DEF Settles
  <2> QED BY <1>s, <1>k, <2>2
<1>e. ASSUME NEW o \in Queues, EndDrain(o, queue[o]), runSession' = runSession,
             session' = session, behind' = behind
      PROVE  runSession'[x] = session'
  <2>1. queue[o] \in FollowupQueueState /\ [queue EXCEPT ![o] = queue[o]] = queue
    BY DEF TypeInv
  <2>2. Settles([queue EXCEPT ![o] = queue[o]], [drain EXCEPT ![o] = NoDrain])
        /\ registered' \in {registered, NoQueue}
    BY <1>e, <2>1, EndDrainSettles
  <2> QED BY <1>e, <1>s, <2>1, <2>2
<1> USE DEF idVars
<1>1. ASSUME NEW m \in Messages, Arrive(m) PROVE runSession'[x] = session'
  BY <1>1, <1>k DEF Arrive
<1>2. ASSUME NEW m \in Messages, RunNow(m) PROVE runSession'[x] = session'
  BY <1>2, <1>k DEF RunNow
<1>3. ASSUME NEW m \in Messages, Enqueues(m) PROVE runSession'[x] = session'
  <2>1. PICK mode \in Modes : enqueueFollowupRun(m, mode)
    BY <1>3 DEF Enqueues
  <2>2. PICK o \in Queues, Q \in FollowupQueueState : QueuedIn(m, o, Q)
    BY <2>1, EnqueueShape
  <2>3. session' = session
    BY <2>1 DEF enqueueFollowupRun
  <2> DEFINE R == IF AlreadyQueued(Q, m) THEN Q ELSE Push(Q, m)
  <2>4. /\ registered = NoQueue =>
             Q.items = <<>> /\ Q.summaryLines = <<>> /\ Q.droppedCount = 0
        /\ registered # NoQueue =>
             /\ o = registered /\ Q.items = queue[o].items
             /\ Q.summaryLines = queue[o].summaryLines /\ Q.droppedCount = queue[o].droppedCount
        /\ Settles([queue EXCEPT ![o] = R], drain) /\ registered' = o
        /\ runSession' = IF AlreadyQueued(Q, m) THEN runSession
                         ELSE [runSession EXCEPT ![m] = captured[m]]
        /\ behind' = (behind \/ (~AlreadyQueued(Q, m) /\ captured[m] # session))
    BY <2>2 DEF QueuedIn
  <2>5. /\ Len(Q.items) <= Cap /\ Len(Q.summaryLines) <= Cap
        /\ Q.summaryLines = <<>> /\ Q.droppedCount = 0
    <3>1. Len(<<>>) = 0 /\ Cap \in Nat
      BY FollowupQueueAssumption
    <3> QED BY <1>i, <2>4, <3>1 DEF TypeInv, InOrder, NoSummaries
  <2>6. R.items = Q.items \/ R.items = Append(Q.items, m)
    BY <2>2, <2>5, QueuedAppends
  <2>7. AlreadyQueued(Q, m) => R.items = Q.items
    OBVIOUS
  <2> HIDE DEF R
  <2>8. queue'[o].items = R.items
    BY <2>4 DEF Settles, TypeInv
  <2>9. ToSet(Append(Q.items, m)) \subseteq ToSet(Q.items) \cup {m}
    <3>1. Q.items \in Seq(Messages)
      BY DEF FollowupQueueState
    <3>2. \A s \in Seq(Messages) : ToSet(Append(s, m)) \subseteq ToSet(s) \cup {m}
      BY DEF ToSet
    <3> QED BY <3>1, <3>2
  <2>10. \A y \in ToSet(Q.items) : runSession[y] = session /\ y \in Messages
    <3>1. ToSet(<<>>) = {}
      BY DEF ToSet
    <3>2. Q.items \in Seq(Messages)
      BY DEF FollowupQueueState
    <3>3. \A y \in ToSet(Q.items) : y \in Messages
      BY <3>2 DEF ToSet
    <3> QED BY <1>i, <2>4, <3>1, <3>3 DEF FollowInv
  <2>11. CASE AlreadyQueued(Q, m)
    BY <2>3, <2>4, <2>7, <2>8, <2>10, <2>11
  <2>12. CASE ~AlreadyQueued(Q, m)
    <3>1. captured[m] = session /\ runSession' = [runSession EXCEPT ![m] = captured[m]]
      BY <2>4, <2>12
    <3>2. x \in ToSet(Q.items) \cup {m}
      BY <2>4, <2>6, <2>8, <2>9
    <3>3. x \in Messages /\ runSession \in [Messages -> Nat]
      BY <2>10, <3>2 DEF TypeInv
    <3>4. runSession'[x] = IF x = m THEN captured[m] ELSE runSession[x]
      BY <3>1, <3>3
    <3> QED BY <2>3, <2>10, <3>1, <3>2, <3>4
  <2> QED BY <2>11, <2>12
<1>4. ASSUME MainEnds PROVE runSession'[x] = session'
  <2>1. /\ Becomes(scheduleFollowupDrain(queue, drain, registered))
        /\ runSession' = runSession /\ session' = session /\ behind' = behind
    BY <1>4 DEF MainEnds
  <2>2. /\ queue \in [Queues -> FollowupQueueState] /\ drain \in [Queues -> Drain]
        /\ registered \in Queues \cup {NoQueue}
        /\ \A p \in Queues : queue[p].draining <=> drain[p].pc # "off"
    BY DEF TypeInv
  <2>3. Settles(queue, drain) /\ registered' = registered
    BY <2>1, <2>2, ScheduleSettles
  <2> QED BY <1>s, <2>1, <2>3
<1>5. ASSUME SessionRollsOver PROVE runSession'[x] = session'
  <2>1. /\ queue' = queue /\ registered' = registered /\ behind' = behind
        /\ session' = session + 1 /\ active # "none" /\ registered # NoQueue
    BY <1>5 DEF SessionRollsOver
  <2>2. x \in ToSet(queue[registered].items) /\ runSession[x] = session /\ x \in Messages
    <3>1. registered \in Queues
      BY <2>1 DEF TypeInv
    <3>2. queue[registered].items \in Seq(Messages)
      BY <3>1 DEF TypeInv, FollowupQueueState
    <3>3. x \in ToSet(queue[registered].items)
      BY <2>1
    <3> QED BY <1>i, <2>1, <3>2, <3>3 DEF FollowInv, ToSet
  <2>3. ASSUME runSession' = refreshQueuedFollowupSession(session, session + 1)
        PROVE  runSession'[x] = session'
    BY <2>1, <2>2, <2>3 DEF refreshQueuedFollowupSession
  <2>4. ASSUME active \in Queues, NEW m \in drain[active].run PROVE runSession[m] = session
    <3>1. active = registered /\ InFlight(active)
      BY <1>i, <2>4 DEF ActiveInv, InOrder, OneDrain, InFlight
    <3>2. m \in ToSet(queue[active].items)
      BY <1>i, <2>4, <3>1, RunWaits
    <3> QED BY <1>i, <2>1, <3>1, <3>2 DEF FollowInv
  <2> QED BY <1>5, <2>3, <2>4 DEF SessionRollsOver
<1>6. ASSUME clearSessionQueues PROVE runSession'[x] = session'
  BY <1>6 DEF clearSessionQueues
<1>7. ASSUME NEW o \in Queues, DebounceEnds(o) PROVE runSession'[x] = session'
  <2>1. runSession' = runSession /\ session' = session /\ behind' = behind
    BY <1>7 DEF DebounceEnds
  <2>2. CASE EndDrain(o, queue[o])
    BY <1>e, <2>1, <2>2
  <2>3. CASE UNCHANGED <<queue, registered>>
    BY <1>k, <2>1, <2>3
  <2> QED BY <1>7, <2>2, <2>3, DebounceShape
<1>8. ASSUME NEW o \in Queues, TurnStarts(o) PROVE runSession'[x] = session'
  <2>1. runSession' = runSession /\ session' = session /\ behind' = behind
    BY <1>8 DEF TurnStarts
  <2>2. CASE EndDrain(o, queue[o])
    BY <1>e, <2>1, <2>2
  <2>3. CASE UNCHANGED <<queue, registered>>
    BY <1>k, <2>1, <2>3
  <2> QED BY <1>8, <2>2, <2>3 DEF TurnStarts
<1>9. ASSUME NEW o \in Queues, TurnReturns(o) PROVE runSession'[x] = session'
  <2> DEFINE n == IF drain[o].kind = "summary" THEN 0 ELSE Len(drain[o].batch)
  <2>1. runSession' = runSession /\ session' = session /\ behind' = behind
    BY <1>9 DEF TurnReturns
  <2>2. /\ \A i \in 1..Len(queue'[o].items) :
             i + n \in 1..Len(queue[o].items) /\ queue'[o].items[i] = queue[o].items[i + n]
        /\ \A p \in Queues \ {o} : queue'[p].items = queue[p].items
    BY <1>9, ReturnRemoves
  <2>3. registered' = registered /\ registered \in Queues
    <3>1. registered' \in {registered, NoQueue}
      BY <1>9, ReturnShape
    <3> QED BY <3>1 DEF TypeInv
  <2> HIDE DEF n
  <2>4. ToSet(queue'[registered].items) \subseteq ToSet(queue[registered].items)
    BY <2>2, <2>3 DEF ToSet
  <2> QED BY <1>k, <2>1, <2>3, <2>4
<1>10. ASSUME NEW o \in Queues, TurnThrows(o) PROVE runSession'[x] = session'
  BY <1>10, <1>e DEF TurnThrows
<1>12. ASSUME NEW id \in recent, RecentIdExpires(id) PROVE runSession'[x] = session'
  BY <1>12, <1>k DEF RecentIdExpires, idVars
<1>11. CASE UNCHANGED vars
  BY <1>11, <1>k DEF vars
<1> QED
  BY <1>1, <1>2, <1>3, <1>4, <1>5, <1>6, <1>7, <1>8, <1>9, <1>10, <1>11, <1>12
     DEF Next, DrainStep

\* What the order gives: turns quote the accepted messages in their order, what had no
\* turn waits, and what waits is drained.
LEMMA OrderShows ==
  ASSUME TypeInv, InOrder
  PROVE  NoMessageLost /\ TurnsInOrder /\ WorkIsDrained
<1> DEFINE left == IF registered = NoQueue THEN <<>> ELSE queue[registered].items
<1>1. turns \in Seq(Messages) /\ left \in Seq(Messages) /\ accepted = turns \o left
  BY DEF TypeInv, FollowupQueueState, InOrder, AcceptedOrder
<1>2. registered # NoQueue => ToSet(left) \subseteq Kept
  BY DEF Kept, Reachable, TypeInv
<1>3. registered = NoQueue => ToSet(left) = {}
  BY DEF ToSet
<1> HIDE DEF left
<1>4. NoMessageLost
  <2>1. ToSet(accepted) = ToSet(turns) \cup ToSet(left)
    BY <1>1, ConcatSet
  <2> QED BY <1>2, <1>3, <2>1 DEF NoMessageLost
<1>5. TurnsInOrder
  <2>1. \A s, t \in Seq(Messages) : Len(s) <= Len(s \o t) /\ s = SubSeq(s \o t, 1, Len(s))
    <3> SUFFICES ASSUME NEW s \in Seq(Messages), NEW t \in Seq(Messages)
                 PROVE  Len(s) <= Len(s \o t) /\ s = SubSeq(s \o t, 1, Len(s))
      OBVIOUS
    <3>1. /\ Len(s) \in Nat /\ s \o t \in Seq(Messages) /\ Len(s) <= Len(s \o t)
          /\ \A i \in 1..Len(s) : (s \o t)[i] = s[i]
      OBVIOUS
    <3>2. SubSeq(s \o t, 1, Len(s)) = SubSeq(s, 1, Len(s))
      BY <3>1, SameHead
    <3> QED BY <3>1, <3>2, SubSeqFull
  <2> QED BY <1>1, <2>1 DEF TurnsInOrder
<1>6. WorkIsDrained
  <2> SUFFICES ASSUME NEW o \in Queues, Reachable(o), HasWork(queue[o])
               PROVE  drain[o].pc # "off" \/ active = "main"
    BY DEF WorkIsDrained
  <2>1. o = registered /\ registered # NoQueue
    BY FollowupQueueAssumption DEF Reachable, InOrder, OneDrain
  <2> QED BY <2>1 DEF InOrder, WorkInv
<1> QED BY <1>4, <1>5, <1>6

\* And what waits, or is about to have its turn, has the id of the session.
LEMMA FollowShows ==
  ASSUME TypeInv, FifoInv, FollowInv, Untouched
  PROVE  QueuedRunsFollow
<1> SUFFICES ASSUME ~behind, NEW o \in Queues, Reachable(o)
             PROVE  /\ \A m \in ToSet(queue[o].items) : runSession[m] = session
                    /\ drain[o].pc = "starting" => \A m \in drain[o].run : runSession[m] = session
  BY DEF QueuedRunsFollow
<1>1. InOrder /\ o = registered /\ registered # NoQueue
  BY FollowupQueueAssumption DEF FifoInv, InOrder, OneDrain, Reachable
<1>2. \A m \in ToSet(queue[o].items) : runSession[m] = session
  BY <1>1 DEF FollowInv
<1>3. drain[o].pc = "starting" => \A m \in drain[o].run : m \in ToSet(queue[o].items)
  BY <1>1, RunWaits DEF InFlight
<1> QED BY <1>2, <1>3

\* The inductive invariant holds.
LEMMA OrderHolds == Spec => [](TypeInv /\ ActiveInv /\ FifoInv /\ FollowInv)
<1>1. Init => TypeInv /\ ActiveInv /\ FifoInv /\ FollowInv
  <2> SUFFICES ASSUME Init PROVE ActiveInv /\ FifoInv /\ FollowInv
    BY InitTypes
  <2>1. /\ registered = NoQueue /\ active = "none" /\ accepted = <<>> /\ turns = <<>>
        /\ \A o \in Queues : /\ queue[o].droppedCount = 0 /\ queue[o].summaryLines = <<>>
                             /\ drain[o].pc = "off"
    BY DEF Init, EmptyQueue, NoDrain
  <2>2. ActiveInv /\ FollowInv
    BY <2>1, FollowupQueueAssumption DEF ActiveInv, FollowInv
  <2>3. <<>> \o <<>> = <<>>
    OBVIOUS
  <2>4. InOrder
    BY <2>1, <2>3 DEF InOrder, OneDrain, NoSummaries, AcceptedOrder, WorkInv, AtHead, InFlight
  <2> QED BY <2>2, <2>4 DEF FifoInv
<1>2. TypeInv /\ ActiveInv /\ FifoInv /\ FollowInv /\ [Next]_vars
        => TypeInv' /\ ActiveInv' /\ FifoInv' /\ FollowInv'
  BY TypeStep, ActiveStep, FifoStep, FollowStep
<1> QED BY <1>1, <1>2, PTL DEF Spec

\* Whatever the policy: until a first message is dropped or cleared, the queue is a
\* queue.  Accepted messages have their turns in order, none is lost, what waits is
\* being drained and follows the session.
THEOREM OrderUntilOverflow ==
  Spec => [](Untouched => /\ NoMessageLost /\ TurnsInOrder
                          /\ WorkIsDrained /\ QueuedRunsFollow)
<1>1. TypeInv /\ ActiveInv /\ FifoInv /\ FollowInv =>
        (Untouched => NoMessageLost /\ TurnsInOrder /\ WorkIsDrained /\ QueuedRunsFollow)
  <2> SUFFICES ASSUME TypeInv, FifoInv, FollowInv, Untouched
               PROVE  NoMessageLost /\ TurnsInOrder /\ WorkIsDrained /\ QueuedRunsFollow
    OBVIOUS
  <2>1. NoMessageLost /\ TurnsInOrder /\ WorkIsDrained
    BY OrderShows DEF FifoInv
  <2> QED BY <2>1, FollowShows
<1> QED BY OrderHolds, <1>1, PTL

\* A queue that refuses what does not fit, and is not cleared, drops nothing.
LEMMA UntouchedStep ==
  ASSUME DropPolicy = "new", ~MayClear, Untouched, [Next]_vars
  PROVE  Untouched'
<1> USE DEF Untouched, historyVars
<1>1. ASSUME NEW m \in Messages, Enqueues(m) PROVE Untouched'
  <2>1. PICK mode \in Modes : enqueueFollowupRun(m, mode)
    BY <1>1 DEF Enqueues
  <2>2. dropped' = dropped /\ discarded' = discarded
    BY <2>1 DEF enqueueFollowupRun
  <2> QED BY <2>2
<1>2. ASSUME NEW m \in Messages, Arrive(m) \/ RunNow(m) PROVE Untouched'
  BY <1>2 DEF Arrive, RunNow
<1>3. ASSUME MainEnds \/ SessionRollsOver \/ clearSessionQueues PROVE Untouched'
  BY <1>3 DEF MainEnds, SessionRollsOver, clearSessionQueues
<1>4. ASSUME NEW o \in Queues, DebounceEnds(o) PROVE Untouched'
  BY <1>4 DEF DebounceEnds
<1>5. ASSUME NEW o \in Queues, TurnStarts(o) PROVE Untouched'
  BY <1>5 DEF TurnStarts
<1>6. ASSUME NEW o \in Queues, TurnReturns(o) PROVE Untouched'
  BY <1>6 DEF TurnReturns
<1>7. ASSUME NEW o \in Queues, TurnThrows(o) PROVE Untouched'
  BY <1>7 DEF TurnThrows
<1>9. ASSUME NEW id \in recent, RecentIdExpires(id) PROVE Untouched'
  BY <1>9 DEF RecentIdExpires
<1>8. CASE UNCHANGED vars
  BY <1>8 DEF vars
<1> QED BY <1>1, <1>2, <1>3, <1>4, <1>5, <1>6, <1>7, <1>8, <1>9 DEF Next, DrainStep

\* With the drop policy "new" and without clears nothing is ever dropped or cleared.
LEMMA UntouchedHolds ==
  ASSUME DropPolicy = "new", ~MayClear
  PROVE  Spec => []Untouched
<1>1. Init => Untouched
  BY DEF Init, Untouched
<1>2. Untouched /\ [Next]_vars => Untouched'
  BY UntouchedStep
<1> QED BY <1>1, <1>2, PTL DEF Spec

\* Then no accepted message is ever lost: it waits or had its turn.
THEOREM MessagesKept ==
  ASSUME DropPolicy = "new", ~MayClear
  PROVE  Spec => []NoMessageLost
BY UntouchedHolds, OrderUntilOverflow, PTL

\* Then turns quote the accepted messages in the order of acceptance, none skipped.
THEOREM TurnsOrdered ==
  ASSUME DropPolicy = "new", ~MayClear
  PROVE  Spec => []TurnsInOrder
BY UntouchedHolds, OrderUntilOverflow, PTL

\* Then every run that waits has the present session id, unless a handler was late.
THEOREM RunsFollow ==
  ASSUME DropPolicy = "new", ~MayClear
  PROVE  Spec => []QueuedRunsFollow
BY UntouchedHolds, OrderUntilOverflow, PTL
=============================================================================
