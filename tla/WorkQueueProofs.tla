--------------------------- MODULE WorkQueueProofs ---------------------------
(***************************************************************************)
(* From the outbox to a worker: what is marked as published was sent, and  *)
(* what is committed was processed.  For any number of rows, partitions,   *)
(* dispatchers, workers and faults, and any batch limit.                   *)
(***************************************************************************)
EXTENDS WorkQueue, FiniteSetTheorems, WellFoundedInduction, TLAPS

\* The message is on the topic.
OnTopic(m) == \E p \in Partitions : m \in Range(log[p])

\* The outbox: a row is marked, and a dispatcher goes to mark it, after it was sent.
OutboxInv ==
  /\ published \subseteq Rows /\ lock \in Dispatchers \cup {Nobody}
  /\ dpc \in [Dispatchers -> {"lock", "read", "publish", "mark"}]
  /\ batch \in [Dispatchers -> SUBSET Rows]
  /\ \A d \in Dispatchers : batch[d] # {} <=> dpc[d] \in {"publish", "mark"}
  /\ \A d \in Dispatchers : dpc[d] = "mark" => OnTopic(Oldest(d))
  /\ MarkedIsSent

\* The topic: records up to the committed offset are dealt with.
TopicInv ==
  /\ log \in [Partitions -> Seq(Messages)]
  /\ committed \in [Partitions -> Nat]
  /\ \A p \in Partitions : committed[p] <= Len(log[p])
  /\ handled \subseteq Rows /\ dlq \subseteq Junk
  /\ CommittedDone

\* The group and its members, as functions.
GroupInv ==
  /\ group \subseteq Workers /\ owner \in [Partitions -> Workers \cup {Nobody}]
  /\ wpc \in [Workers -> {"down", "poll", "work", "keepalive", "commit"}]
  /\ current \in [Workers -> BOOLEAN]
  /\ assigned \in [Workers -> SUBSET Partitions] /\ paused \in [Workers -> SUBSET Partitions]
  /\ position \in [Workers -> [Partitions -> Nat]]
  /\ task \in [Workers -> [partition : Partitions \cup {Nobody}, offset : Nat]]

\* The record at index i of the partition is dealt with.
Done(p, i) == log[p][i] \in handled \cup dlq

\* run_worker has record i of the partition in process_record.
WorksOn(w, p, i) ==
  wpc[w] \in {"work", "keepalive"} /\ task[w].partition = p /\ task[w].offset + 1 = i

\* A worker reads on only past records that are dealt with or that it works on.
PositionInv(w) ==
  \A p \in Partitions : /\ position[w][p] <= Len(log[p])
                        /\ \A i \in 1..position[w][p] : Done(p, i) \/ WorksOn(w, p, i)

\* All records before the one a worker is at are dealt with, also when the partition has
\* been given to another worker since; when the worker commits, that record is too.
TaskInv(w) ==
  IF wpc[w] \in {"work", "keepalive", "commit"}
  THEN /\ task[w].partition \in Partitions /\ task[w].offset < Len(log[task[w].partition])
       /\ \A i \in 1..task[w].offset : Done(task[w].partition, i)
       /\ wpc[w] = "commit" => Done(task[w].partition, task[w].offset + 1)
  ELSE task[w] = NoTask

WorkerInv(w) == paused[w] \subseteq assigned[w] /\ PositionInv(w) /\ TaskInv(w)

QueueInv == /\ OutboxInv /\ TopicInv /\ GroupInv /\ faults \in 0..MaxFaults
            /\ \A w \in Workers : WorkerInv(w)

-----------------------------------------------------------------------------
(* Operators the specification is built from *)

\* A non-empty set of numbers has a least element, which Min picks.
LEMMA LeastIsIn ==
  ASSUME NEW S \in SUBSET Nat, S # {}
  PROVE  Min(S) \in S
<1> DEFINE Less == {ss \in Nat \X Nat : ss[1] < ss[2]}
<1>1. IsWellFoundedOn(Less, Nat)
  <2>1. Less = OpToRel(<, Nat)
    BY Zenon DEF OpToRel
  <2>2. QED
    BY <2>1, NatLessThanWellFounded, Zenon
<1> HIDE DEF Less
<1>2. PICK x \in S : \A y \in S : ~ (<<y, x>> \in Less)
  BY <1>1, WFMin, Zenon
<1>3. ASSUME NEW y \in S PROVE x <= y
  <2>1. ~ (<<y, x>> \in Less) /\ x \in Nat /\ y \in Nat
    BY <1>2
  <2>2. ~ (y < x)
    BY <2>1 DEF Less
  <2>3. QED
    BY <2>1, <2>2
<1>4. QED
  BY <1>3 DEF Min

\* SetToSeq lists a finite set.
LEMMA SetToSeqIsSeq ==
  ASSUME NEW S, IsFiniteSet(S)
  PROVE  SetToSeq(S) \in Seq(S)
<1>1. Cardinality(S) \in Nat /\ ExistsBijection(1..Cardinality(S), S)
  BY FS_CardinalityType
<1>2. \E f \in [1..Cardinality(S) -> S] : IsInjective(f)
  BY <1>1 DEF ExistsBijection, Bijection, Injection, IsInjective
<1>3. SetToSeq(S) \in [1..Cardinality(S) -> S]
  BY <1>2 DEF SetToSeq
<1>4. QED
  BY <1>1, <1>3

\* The key of a message chooses a partition.
LEMMA PartitionIs == \A m \in Nat : PartitionOf(m) \in Partitions
BY QueueAssumption DEF PartitionOf, Partitions

\* The row dispatch_once is at is one of its batch.
LEMMA OldestIn ==
  ASSUME OutboxInv, NEW d \in Dispatchers, batch[d] # {}
  PROVE  Oldest(d) \in batch[d] /\ Oldest(d) \in Rows /\ Oldest(d) \in Nat
<1>1. batch[d] \in SUBSET Nat /\ batch[d] \subseteq Rows
  BY QueueAssumption DEF OutboxInv, Rows
<1>2. QED
  BY <1>1, LeastIsIn DEF Oldest

-----------------------------------------------------------------------------
(* What grows *)

\* The topic is only appended to, and what is dealt with stays so.
Grows ==
  /\ log' \in [Partitions -> Seq(Messages)]
  /\ \A p \in Partitions : /\ Len(log[p]) <= Len(log'[p])
                            /\ \A i \in 1..Len(log[p]) : log'[p][i] = log[p][i]
  /\ handled \subseteq handled' /\ dlq \subseteq dlq'

LEMMA LogTypes ==
  ASSUME TopicInv, NEW p \in Partitions
  PROVE  /\ log[p] \in Seq(Messages) /\ Len(log[p]) \in Nat /\ committed[p] \in Nat
         /\ DOMAIN log[p] = 1..Len(log[p])
BY DEF TopicInv

\* What is on the topic stays there.
LEMMA OnTopicGrows ==
  ASSUME TopicInv, Grows, NEW m, OnTopic(m)
  PROVE  OnTopic(m)'
<1>1. PICK p \in Partitions : m \in Range(log[p])
  BY DEF OnTopic
<1>2. PICK i \in 1..Len(log[p]) : m = log[p][i]
  BY <1>1, LogTypes DEF Range
<1>3. log'[p] \in Seq(Messages) /\ i \in 1..Len(log'[p]) /\ m = log'[p][i]
  BY <1>2, LogTypes DEF Grows
<1>4. m \in Range(log'[p])
  BY <1>3 DEF Range
<1>5. QED
  BY <1>4 DEF OnTopic

LEMMA DoneGrows ==
  ASSUME Grows, NEW p \in Partitions, NEW i \in 1..Len(log[p]), Done(p, i)
  PROVE  Done(p, i)'
BY DEF Grows, Done

\* The committed records stay dealt with.
LEMMA CommittedGrows ==
  ASSUME TopicInv, Grows, committed' = committed
  PROVE  CommittedDone' /\ \A p \in Partitions : committed'[p] <= Len(log'[p])
<1>1. \A p \in Partitions : \A i \in 1..committed[p] : i \in 1..Len(log[p]) /\ Done(p, i)
  BY LogTypes DEF TopicInv, CommittedDone, Done
<1>2. \A p \in Partitions : \A i \in 1..committed[p] : Done(p, i)'
  BY <1>1, DoneGrows
<1>3. \A p \in Partitions : Len(log'[p]) \in Nat /\ committed[p] <= Len(log'[p])
  BY LogTypes DEF Grows, TopicInv
<1>4. QED
  BY <1>2, <1>3 DEF CommittedDone, Done

\* A worker that does not move keeps its part of the invariant.
LEMMA WorkerStays ==
  ASSUME TopicInv, GroupInv, Grows, NEW w \in Workers, WorkerInv(w),
         wpc'[w] = wpc[w], assigned'[w] = assigned[w], paused'[w] = paused[w],
         position'[w] = position[w], task'[w] = task[w]
  PROVE  WorkerInv(w)'
<1>1. task[w].offset \in Nat /\ \A p \in Partitions : position[w][p] \in Nat
  BY DEF GroupInv
<1>2. PositionInv(w)'
  <2> SUFFICES ASSUME NEW p \in Partitions
               PROVE  /\ position[w][p] <= Len(log'[p])
                      /\ \A i \in 1..position[w][p] : Done(p, i)' \/ WorksOn(w, p, i)'
    BY DEF PositionInv
  <2>1. position[w][p] <= Len(log[p]) /\ Len(log[p]) \in Nat /\ Len(log'[p]) \in Nat
        /\ Len(log[p]) <= Len(log'[p])
    BY LogTypes DEF WorkerInv, PositionInv, Grows
  <2>2. ASSUME NEW i \in 1..position[w][p] PROVE Done(p, i)' \/ WorksOn(w, p, i)'
    <3>1. Done(p, i) \/ WorksOn(w, p, i)
      BY DEF WorkerInv, PositionInv
    <3>2. i \in 1..Len(log[p])
      BY <1>1, <2>1
    <3>3. QED
      BY <3>1, <3>2, DoneGrows DEF WorksOn
  <2>3. QED
    BY <1>1, <2>1, <2>2
<1>3. TaskInv(w)'
  <2>1. CASE wpc[w] \notin {"work", "keepalive", "commit"}
    BY <2>1 DEF WorkerInv, TaskInv
  <2>2. CASE wpc[w] \in {"work", "keepalive", "commit"}
    <3> DEFINE p == task[w].partition
               o == task[w].offset
    <3>1. p \in Partitions /\ o < Len(log[p]) /\ (wpc[w] = "commit" => Done(p, o + 1))
          /\ \A i \in 1..o : Done(p, i)
      BY <2>2 DEF WorkerInv, TaskInv
    <3>2. Len(log[p]) \in Nat /\ Len(log'[p]) \in Nat /\ Len(log[p]) <= Len(log'[p])
      BY <3>1, LogTypes DEF Grows
    <3>3. \A i \in 1..o : i \in 1..Len(log[p])
      BY <1>1, <3>1, <3>2
    <3>4. o + 1 \in 1..Len(log[p])
      BY <1>1, <3>1, <3>2
    <3>5. (wpc[w] = "commit" => Done(p, o + 1)') /\ \A i \in 1..o : Done(p, i)'
      BY <3>1, <3>3, <3>4, DoneGrows
    <3>6. o < Len(log'[p])
      BY <1>1, <3>1, <3>2
    <3>7. QED
      BY <2>2, <3>1, <3>5, <3>6 DEF TaskInv
  <2>3. QED
    BY <2>1, <2>2
<1>4. QED
  BY <1>2, <1>3 DEF WorkerInv

\* The messages that Send adds, and where.
LEMMA SendGrows ==
  ASSUME TopicInv, NEW m \in Rows, m \in Nat, Send(m), UNCHANGED <<handled, dlq>>
  PROVE  Grows /\ OnTopic(m)'
<1> DEFINE q == PartitionOf(m)
<1>1. q \in Partitions
  BY PartitionIs
<1>2. log' = [log EXCEPT ![q] = Append(@, m)] /\ m \in Messages
  BY DEF Send, Messages
<1> HIDE DEF q
<1>3. log'[q] = Append(log[q], m) /\ \A p \in Partitions : p # q => log'[p] = log[p]
  BY <1>1, <1>2 DEF TopicInv
<1>4. Append(log[q], m) \in Seq(Messages) /\ Len(Append(log[q], m)) = Len(log[q]) + 1
      /\ Append(log[q], m)[Len(log[q]) + 1] = m
      /\ \A i \in 1..Len(log[q]) : Append(log[q], m)[i] = log[q][i]
  BY <1>1, <1>2, LogTypes
<1>5. Grows
  BY <1>1, <1>2, <1>3, <1>4, LogTypes DEF Grows, TopicInv
<1>6. m \in Range(log'[q])
  <2>1. DOMAIN log'[q] = 1..(Len(log[q]) + 1) /\ Len(log[q]) \in Nat
    BY <1>1, <1>3, <1>4, LogTypes
  <2>2. Len(log[q]) + 1 \in DOMAIN log'[q] /\ log'[q][Len(log[q]) + 1] = m
    BY <1>3, <1>4, <2>1
  <2>3. QED
    BY <2>2 DEF Range
<1>7. QED
  BY <1>1, <1>5, <1>6 DEF OnTopic

-----------------------------------------------------------------------------
(* Steps of a dispatcher *)

\* No worker moves in a step of a dispatcher.
LEMMA DispatcherSide ==
  ASSUME QueueInv, Grows, UNCHANGED <<committed, workerVars>>, OutboxInv',
         faults' \in 0..MaxFaults
  PROVE  QueueInv'
<1>1. \A w \in Workers : WorkerInv(w)'
  BY WorkerStays DEF QueueInv, workerVars
<1>2. TopicInv'
  BY CommittedGrows DEF QueueInv, TopicInv, Grows, workerVars
<1>3. GroupInv'
  BY DEF QueueInv, GroupInv, workerVars
<1>4. QED
  BY <1>1, <1>2, <1>3 DEF QueueInv

\* A step that leaves the topic alone.
LEMMA SameTopic ==
  ASSUME QueueInv, UNCHANGED <<log, handled, dlq>>
  PROVE  Grows
BY LogTypes DEF QueueInv, TopicInv, Grows

LEMMA FaultBound ==
  ASSUME QueueInv
  PROVE  (Fault => faults' \in 0..MaxFaults) /\ (UNCHANGED faults => faults' \in 0..MaxFaults)
BY QueueAssumption DEF QueueInv, Fault

\* What one dispatcher does leaves the others at their rows.
LEMMA OthersStay ==
  ASSUME QueueInv, Grows, NEW d \in Dispatchers,
         dpc' \in [Dispatchers -> {"lock", "read", "publish", "mark"}],
         batch' \in [Dispatchers -> SUBSET Rows],
         \A o \in Dispatchers : o # d => dpc'[o] = dpc[o] /\ batch'[o] = batch[o],
         batch'[d] # {} <=> dpc'[d] \in {"publish", "mark"},
         dpc'[d] = "mark" => OnTopic(Oldest(d))',
         lock' \in Dispatchers \cup {Nobody},
         published' \subseteq Rows,
         \A e \in published' : OnTopic(e)'
  PROVE  OutboxInv'
<1>1. ASSUME NEW o \in Dispatchers, dpc'[o] = "mark" PROVE OnTopic(Oldest(o))'
  <2>1. CASE o = d
    BY <1>1, <2>1
  <2>2. CASE o # d
    <3>1. OnTopic(Oldest(o)) /\ Oldest(o)' = Oldest(o)
      BY <1>1, <2>2 DEF QueueInv, OutboxInv, Oldest
    <3>2. OnTopic(Oldest(o))'
      BY <3>1, OnTopicGrows DEF QueueInv, OnTopic
    <3>3. QED
      BY <3>2
  <2>3. QED
    BY <2>1, <2>2
<1>2. \A o \in Dispatchers : batch'[o] # {} <=> dpc'[o] \in {"publish", "mark"}
  BY DEF QueueInv, OutboxInv
<1>3. MarkedIsSent'
  BY DEF MarkedIsSent, OnTopic
<1>4. QED
  BY <1>1, <1>2, <1>3 DEF OutboxInv

\* The rows that are marked stay on the topic.
LEMMA MarkedStay ==
  ASSUME QueueInv, Grows
  PROVE  \A e \in published : OnTopic(e)'
BY OnTopicGrows DEF QueueInv, OutboxInv, MarkedIsSent, OnTopic

LEMMA TryLockStep ==
  ASSUME QueueInv, NEW d \in Dispatchers, TryLock(d)
  PROVE  QueueInv'
<1>1. Grows /\ faults' \in 0..MaxFaults
  BY SameTopic, FaultBound DEF TryLock, topicVars, workerVars
<1>2. OutboxInv'
  <2>1. batch'[d] # {} <=> dpc'[d] \in {"publish", "mark"}
    BY DEF QueueInv, OutboxInv, TryLock
  <2>2. QED
    BY <1>1, <2>1, OthersStay, MarkedStay DEF QueueInv, OutboxInv, TryLock
<1>3. QED
  BY <1>1, <1>2, DispatcherSide DEF TryLock, topicVars

LEMMA PendingStep ==
  ASSUME QueueInv, NEW d \in Dispatchers, Pending(d)
  PROVE  QueueInv'
<1>1. Grows /\ faults' \in 0..MaxFaults
  BY SameTopic, FaultBound DEF Pending, topicVars, workerVars
<1>2. PICK taken \in SUBSET Rows : taken # {} /\ batch' = [batch EXCEPT ![d] = taken]
  BY DEF Pending
<1>3. OutboxInv'
  <2>1. batch'[d] # {} <=> dpc'[d] \in {"publish", "mark"}
    BY <1>2 DEF QueueInv, OutboxInv, Pending
  <2>2. QED
    BY <1>1, <1>2, <2>1, OthersStay, MarkedStay DEF QueueInv, OutboxInv, Pending
<1>4. QED
  BY <1>1, <1>3, DispatcherSide DEF Pending, topicVars

LEMMA PublishStep ==
  ASSUME QueueInv, NEW d \in Dispatchers, Publish(d)
  PROVE  QueueInv'
<1>1. Oldest(d) \in Rows /\ Oldest(d) \in Nat
  BY OldestIn DEF QueueInv, OutboxInv, Publish
<1>2. Grows /\ faults' \in 0..MaxFaults /\ OnTopic(Oldest(d))'
  <2> DEFINE m == Oldest(d)
  <2>1. Send(m) /\ UNCHANGED <<handled, dlq>> /\ Oldest(d)' = m
    BY DEF Publish, workerVars, Oldest
  <2> HIDE DEF m
  <2>2. Grows /\ OnTopic(m)'
    BY <1>1, <2>1, SendGrows DEF QueueInv, m
  <2>3. OnTopic(Oldest(d))'
    BY <2>1, <2>2 DEF OnTopic, m, Oldest
  <2>4. QED
    BY <2>2, <2>3, FaultBound DEF Publish
<1>3. OutboxInv'
  <2>1. batch'[d] # {} <=> dpc'[d] \in {"publish", "mark"}
    BY DEF QueueInv, OutboxInv, Publish
  <2>2. QED
    BY <1>2, <2>1, OthersStay, MarkedStay DEF QueueInv, OutboxInv, Publish
<1>4. QED
  BY <1>2, <1>3, DispatcherSide DEF Publish

\* A dispatcher that goes back to pending has no rows left.
LEMMA AgainStep ==
  ASSUME QueueInv, NEW d \in Dispatchers, Again(d), Grows,
         lock' = lock, published' \subseteq Rows, \A e \in published' : OnTopic(e)'
  PROVE  OutboxInv'
<1>1. batch'[d] = {} /\ dpc'[d] = "read"
  BY DEF QueueInv, OutboxInv, Again
<1>2. QED
  BY <1>1, OthersStay DEF QueueInv, OutboxInv, Again

LEMMA PublishFailsStep ==
  ASSUME QueueInv, NEW d \in Dispatchers, PublishFails(d)
  PROVE  QueueInv'
<1>1. Oldest(d) \in Rows /\ Oldest(d) \in Nat
  BY OldestIn DEF QueueInv, OutboxInv, PublishFails
<1>2. Grows
  <2>1. CASE Send(Oldest(d))
    BY <1>1, <2>1, SendGrows DEF PublishFails, QueueInv, workerVars
  <2>2. CASE log' = log
    BY <2>2, SameTopic DEF PublishFails, workerVars
  <2>3. QED
    BY <2>1, <2>2 DEF PublishFails
<1>3. OutboxInv'
  BY <1>2, AgainStep, MarkedStay DEF PublishFails, QueueInv, OutboxInv
<1>4. QED
  BY <1>2, <1>3, DispatcherSide, FaultBound DEF PublishFails

\* The row that is to be marked is on the topic.
LEMMA MarkedRow ==
  ASSUME QueueInv, Grows, NEW d \in Dispatchers, dpc[d] = "mark"
  PROVE  /\ Oldest(d) \in Rows /\ Oldest(d) \in batch[d]
         /\ \A e \in published \cup {Oldest(d)} : e \in Rows /\ OnTopic(e)'
<1>1. Oldest(d) \in Rows /\ Oldest(d) \in batch[d]
  BY OldestIn DEF QueueInv, OutboxInv
<1>2. PICK m \in Rows : m = Oldest(d)
  BY <1>1
<1>3. OnTopic(m)'
  <2>1. OnTopic(m)
    BY <1>2 DEF QueueInv, OutboxInv
  <2>2. QED
    BY <2>1, OnTopicGrows DEF QueueInv
<1>4. QED
  BY <1>1, <1>2, <1>3, MarkedStay DEF QueueInv, OutboxInv

LEMMA MarkPublishedStep ==
  ASSUME QueueInv, NEW d \in Dispatchers, MarkPublished(d)
  PROVE  QueueInv'
<1>1. Grows /\ faults' \in 0..MaxFaults
  BY SameTopic, FaultBound DEF MarkPublished, topicVars, workerVars
<1>2. /\ Oldest(d) \in Rows /\ Oldest(d) \in batch[d]
      /\ \A e \in published \cup {Oldest(d)} : e \in Rows /\ OnTopic(e)'
  BY <1>1, MarkedRow DEF MarkPublished
<1>3. published' \subseteq Rows /\ \A e \in published' : OnTopic(e)'
  BY <1>2 DEF MarkPublished
<1>4. OutboxInv'
  <2>1. CASE batch[d] = {Oldest(d)}
    BY <1>1, <1>3, <2>1, AgainStep DEF MarkPublished
  <2>2. CASE batch[d] # {Oldest(d)}
    <3> DEFINE rest == batch[d] \ {Oldest(d)}
    <3>1. rest \in SUBSET Rows /\ rest # {}
      BY <1>2, <2>2 DEF QueueInv, OutboxInv
    <3>2. batch' = [batch EXCEPT ![d] = rest] /\ dpc' = [dpc EXCEPT ![d] = "publish"]
          /\ lock' = lock
      BY <2>2 DEF MarkPublished
    <3> HIDE DEF rest
    <3>3. batch'[d] = rest /\ dpc'[d] = "publish"
      BY <3>2 DEF QueueInv, OutboxInv
    <3>4. QED
      BY <1>1, <1>3, <3>1, <3>2, <3>3, OthersStay DEF QueueInv, OutboxInv
  <2>3. QED
    BY <2>1, <2>2
<1>5. QED
  BY <1>1, <1>4, DispatcherSide DEF MarkPublished, topicVars

LEMMA MarkFailsStep ==
  ASSUME QueueInv, NEW d \in Dispatchers, MarkFails(d)
  PROVE  QueueInv'
<1>1. Grows /\ faults' \in 0..MaxFaults
  BY SameTopic, FaultBound DEF MarkFails, topicVars, workerVars
<1>2. \A e \in published \cup {Oldest(d)} : e \in Rows /\ OnTopic(e)'
  BY <1>1, MarkedRow DEF MarkFails
<1>3. published' \subseteq Rows /\ \A e \in published' : OnTopic(e)'
  BY <1>2 DEF MarkFails
<1>4. OutboxInv'
  BY <1>1, <1>3, AgainStep DEF MarkFails
<1>5. QED
  BY <1>1, <1>4, DispatcherSide DEF MarkFails, topicVars

LEMMA LoseLockStep ==
  ASSUME QueueInv, NEW d \in Dispatchers, LoseLock(d)
  PROVE  QueueInv'
<1>1. Grows /\ faults' \in 0..MaxFaults
  BY SameTopic, FaultBound DEF LoseLock, topicVars, workerVars
<1>2. OutboxInv'
  BY DEF QueueInv, OutboxInv, LoseLock, Oldest, OnTopic, MarkedIsSent, topicVars
<1>3. QED
  BY <1>1, <1>2, DispatcherSide DEF LoseLock, topicVars

LEMMA DispatcherEndsStep ==
  ASSUME QueueInv, NEW d \in Dispatchers, DispatcherEnds(d)
  PROVE  QueueInv'
<1>1. Grows /\ faults' \in 0..MaxFaults
  BY SameTopic, FaultBound DEF DispatcherEnds, topicVars, workerVars
<1>2. OutboxInv'
  <2>1. batch'[d] = {} /\ dpc'[d] = "lock"
    BY DEF QueueInv, OutboxInv, DispatcherEnds
  <2>2. QED
    BY <1>1, <2>1, OthersStay, MarkedStay DEF QueueInv, OutboxInv, DispatcherEnds
<1>3. QED
  BY <1>1, <1>2, DispatcherSide DEF DispatcherEnds, topicVars

-----------------------------------------------------------------------------
(* Steps of the consumer group and of a worker *)

\* The outbox does not move in a step of a worker.
LEMMA WorkerSide ==
  ASSUME QueueInv, Grows, log' = log, UNCHANGED outboxVars, NEW w \in Workers,
         \A v \in Workers : v # w => /\ wpc'[v] = wpc[v] /\ assigned'[v] = assigned[v]
                                     /\ paused'[v] = paused[v] /\ position'[v] = position[v]
                                     /\ task'[v] = task[v],
         WorkerInv(w)', GroupInv', TopicInv', faults' \in 0..MaxFaults
  PROVE  QueueInv'
<1>1. OutboxInv'
  BY DEF QueueInv, OutboxInv, outboxVars, Oldest, OnTopic, MarkedIsSent
<1>2. \A v \in Workers : v # w => WorkerInv(v)'
  BY WorkerStays DEF QueueInv
<1>3. QED
  BY <1>1, <1>2 DEF QueueInv

\* A step that commits nothing and processes nothing.
LEMMA TopicStays ==
  ASSUME QueueInv, UNCHANGED <<topicVars, handled, dlq>>
  PROVE  Grows /\ log' = log /\ TopicInv'
<1>1. Grows
  BY SameTopic DEF topicVars
<1>2. QED
  BY <1>1, CommittedGrows DEF QueueInv, TopicInv, topicVars

LEMMA WorkerTypes ==
  ASSUME QueueInv, NEW w \in Workers
  PROVE  /\ task[w] \in [partition : Partitions \cup {Nobody}, offset : Nat]
         /\ task[w].offset \in Nat /\ \A p \in Partitions : position[w][p] \in Nat
         /\ assigned[w] \subseteq Partitions
         /\ \A p \in Partitions : Len(log[p]) \in Nat
BY LogTypes DEF QueueInv, GroupInv

\* A worker that has left holds nothing.
LEMMA LeaveStep ==
  ASSUME QueueInv, Grows, NEW w \in Workers, Leave(w), owner' = owner
  PROVE  /\ WorkerInv(w)' /\ GroupInv'
         /\ \A v \in Workers : v # w => /\ wpc'[v] = wpc[v] /\ assigned'[v] = assigned[v]
                                        /\ paused'[v] = paused[v]
                                        /\ position'[v] = position[v] /\ task'[v] = task[v]
<1>1. wpc'[w] = "down" /\ assigned'[w] = {} /\ paused'[w] = {}
      /\ position'[w] = [p \in Partitions |-> 0] /\ task'[w] = NoTask
  BY DEF QueueInv, GroupInv, Leave
<1>2. PositionInv(w)'
  <2>1. \A p \in Partitions : position'[w][p] = 0 /\ Len(log'[p]) \in Nat
    BY <1>1 DEF Grows
  <2>2. QED
    BY <2>1 DEF PositionInv
<1>3. TaskInv(w)'
  BY <1>1 DEF TaskInv
<1>4. WorkerInv(w)'
  BY <1>1, <1>2, <1>3 DEF WorkerInv
<1>5. NoTask \in [partition : Partitions \cup {Nobody}, offset : Nat]
      /\ [p \in Partitions |-> 0] \in [Partitions -> Nat]
  BY DEF NoTask
<1>6. current' \in [Workers -> BOOLEAN]
  BY Zenon DEF QueueInv, GroupInv, Leave
<1>7. GroupInv'
  BY <1>5, <1>6 DEF QueueInv, GroupInv, Leave
<1>8. QED
  BY <1>4, <1>7 DEF QueueInv, GroupInv, Leave

\* Steps that end the worker and leave the topic alone.
LEMMA LeaveQuietly ==
  ASSUME QueueInv, NEW w \in Workers, Leave(w), faults' \in 0..MaxFaults,
         UNCHANGED <<outboxVars, topicVars, owner, handled, dlq>>
  PROVE  QueueInv'
BY TopicStays, LeaveStep, WorkerSide

LEMMA ProcessFailsStep ==
  ASSUME QueueInv, NEW w \in Workers, ProcessFails(w)
  PROVE  QueueInv'
BY LeaveQuietly, FaultBound DEF ProcessFails

LEMMA WorkerEndsStep ==
  ASSUME QueueInv, NEW w \in Workers, WorkerEnds(w)
  PROVE  QueueInv'
BY LeaveQuietly, FaultBound DEF WorkerEnds

LEMMA CommitRefusedStep ==
  ASSUME QueueInv, NEW w \in Workers, CommitRefused(w)
  PROVE  QueueInv'
BY LeaveQuietly, FaultBound DEF CommitRefused

LEMMA RebalanceStep ==
  ASSUME QueueInv, Rebalance
  PROVE  QueueInv'
<1>1. Grows /\ log' = log /\ TopicInv'
  BY TopicStays DEF Rebalance
<1>2. faults' \in 0..MaxFaults
  BY FaultBound DEF Rebalance
<1>3. owner' \in [Partitions -> Workers \cup {Nobody}] /\ group' \subseteq Workers
  <2>1. CASE Members = {}
    BY <2>1 DEF Rebalance, Members
  <2>2. CASE Members # {}
    BY <2>2 DEF Rebalance, Members
  <2>3. QED
    BY <2>1, <2>2
<1>4. current' \in [Workers -> BOOLEAN]
  BY Zenon DEF Rebalance
<1>5. GroupInv'
  BY <1>3, <1>4 DEF QueueInv, GroupInv, Rebalance
<1>6. OutboxInv'
  BY <1>1 DEF Rebalance, QueueInv, OutboxInv, outboxVars, Oldest, OnTopic, MarkedIsSent
<1>7. \A v \in Workers : WorkerInv(v)'
  BY <1>1, WorkerStays DEF QueueInv, Rebalance
<1>8. QED
  BY <1>1, <1>2, <1>5, <1>6, <1>7 DEF QueueInv

LEMMA TakeAssignmentStep ==
  ASSUME QueueInv, NEW w \in Workers, TakeAssignment(w)
  PROVE  QueueInv'
<1>1. Grows /\ log' = log /\ TopicInv'
  BY TopicStays DEF TakeAssignment
<1>2. faults' \in 0..MaxFaults
  BY FaultBound DEF TakeAssignment
<1> DEFINE pos == [p \in Partitions |-> IF owner[p] = w THEN committed[p] ELSE 0]
           mine == {p \in Partitions : owner[p] = w}
<1>3. pos \in [Partitions -> Nat] /\ mine \in SUBSET Partitions
  BY DEF QueueInv, TopicInv
<1>4. \A p \in Partitions : pos[p] <= Len(log[p]) /\ \A i \in 1..pos[p] : Done(p, i)
  BY LogTypes DEF QueueInv, TopicInv, CommittedDone, Done
<1>5. position' = [position EXCEPT ![w] = pos] /\ assigned' = [assigned EXCEPT ![w] = mine]
      /\ paused' = [paused EXCEPT ![w] = {}]
  BY DEF TakeAssignment
<1> HIDE DEF pos, mine
<1>6. current' \in [Workers -> BOOLEAN]
  BY Zenon DEF QueueInv, GroupInv, TakeAssignment
<1>7. GroupInv'
  BY <1>3, <1>5, <1>6 DEF QueueInv, GroupInv, TakeAssignment
<1>8. WorkerInv(w)'
  <2>1. position'[w] = pos /\ paused'[w] = {}
    BY <1>5 DEF QueueInv, GroupInv
  <2>2. PositionInv(w)'
    <3>1. \A p \in Partitions : \A i \in 1..pos[p] : Done(p, i)'
      BY <1>1, <1>4 DEF TakeAssignment, Done
    <3>2. QED
      BY <1>1, <1>4, <2>1, <3>1 DEF PositionInv
  <2>3. TaskInv(w)'
    BY <1>1 DEF QueueInv, WorkerInv, TaskInv, Done, TakeAssignment
  <2>4. QED
    BY <2>1, <2>2, <2>3 DEF WorkerInv
<1>9. \A v \in Workers : v # w => /\ wpc'[v] = wpc[v] /\ assigned'[v] = assigned[v]
                                  /\ paused'[v] = paused[v] /\ position'[v] = position[v]
                                  /\ task'[v] = task[v]
  BY <1>5 DEF TakeAssignment, QueueInv, GroupInv
<1>10. UNCHANGED outboxVars
  BY DEF TakeAssignment
<1>11. QED
  BY <1>1, <1>2, <1>7, <1>8, <1>9, <1>10, WorkerSide

\* A worker that goes from one step of run_worker to the next and takes no record.
LEMMA Moves ==
  ASSUME QueueInv, NEW w \in Workers, NEW pc \in {"poll", "work", "keepalive"},
         \/ wpc[w] = "down" /\ pc = "poll"
         \/ wpc[w] = "work" /\ pc = "keepalive"
         \/ wpc[w] = "keepalive" /\ pc = "work",
         wpc' = [wpc EXCEPT ![w] = pc],
         paused' \in {paused, [paused EXCEPT ![w] = assigned[w]]},
         UNCHANGED <<outboxVars, topicVars, group, owner, current, assigned, position, task,
                     handled, dlq, faults>>
  PROVE  QueueInv'
<1>1. Grows /\ log' = log /\ TopicInv'
  BY TopicStays
<1>2. GroupInv'
  BY DEF QueueInv, GroupInv
<1>3. wpc'[w] = pc /\ paused'[w] \subseteq assigned'[w]
  BY DEF QueueInv, GroupInv, WorkerInv
<1>4. PositionInv(w)'
  <2>1. \A p \in Partitions, i \in Nat : Done(p, i)' = Done(p, i)
    BY <1>1 DEF Done
  <2>2. \A p \in Partitions, i \in Nat : WorksOn(w, p, i) => WorksOn(w, p, i)'
    BY <1>3 DEF WorksOn
  <2>3. \A p \in Partitions : 1..position[w][p] \subseteq Nat
    BY WorkerTypes
  <2>4. QED
    BY <1>1, <2>1, <2>2, <2>3 DEF QueueInv, WorkerInv, PositionInv
<1>5. TaskInv(w)'
  BY <1>1, <1>3 DEF QueueInv, WorkerInv, TaskInv, Done
<1>6. QED
  BY <1>1, <1>2, <1>3, <1>4, <1>5, WorkerSide, FaultBound DEF QueueInv, GroupInv, WorkerInv

LEMMA StartStep ==
  ASSUME QueueInv, NEW w \in Workers, Start(w)
  PROVE  QueueInv'
BY Moves DEF Start

LEMMA PauseAgainStep ==
  ASSUME QueueInv, NEW w \in Workers, PauseAgain(w)
  PROVE  QueueInv'
BY Moves DEF PauseAgain

LEMMA KeepAliveStep ==
  ASSUME QueueInv, NEW w \in Workers, KeepAlive(w)
  PROVE  QueueInv'
BY Moves DEF KeepAlive

\* A worker that polls works on nothing, so all it has read past is dealt with.
LEMMA GetRecordStep ==
  ASSUME QueueInv, NEW w \in Workers, GetRecord(w)
  PROVE  QueueInv'
<1>1. Grows /\ log' = log /\ TopicInv' /\ faults' \in 0..MaxFaults
  BY TopicStays, FaultBound DEF GetRecord
<1>2. PICK p \in Readable(w) :
        /\ task' = [task EXCEPT ![w] = [partition |-> p, offset |-> position[w][p]]]
        /\ position' = [position EXCEPT ![w][p] = @ + 1]
  BY DEF GetRecord
<1>3. p \in Partitions /\ position[w][p] < Len(log[p]) /\ position[w] \in [Partitions -> Nat]
      /\ Len(log[p]) \in Nat
  BY WorkerTypes DEF Readable, QueueInv, GroupInv
<1>4. PICK o \in Nat : o = position[w][p]
  BY <1>3
<1>5. wpc'[w] = "work" /\ task'[w].partition = p /\ task'[w].offset = o
      /\ paused'[w] = assigned'[w]
      /\ position'[w][p] = o + 1
      /\ \A q \in Partitions : q # p => position'[w][q] = position[w][q]
  BY <1>2, <1>3, <1>4 DEF GetRecord, QueueInv, GroupInv
<1>6. \A q \in Partitions : \A i \in 1..position[w][q] : Done(q, i)'
  BY <1>1 DEF QueueInv, WorkerInv, PositionInv, WorksOn, GetRecord, Done
<1>7. PositionInv(w)'
  <2> SUFFICES ASSUME NEW q \in Partitions
               PROVE  /\ position'[w][q] <= Len(log'[q])
                      /\ \A i \in 1..position'[w][q] : Done(q, i)' \/ WorksOn(w, q, i)'
    BY DEF PositionInv
  <2>1. CASE q # p
    BY <1>1, <1>5, <1>6, <2>1 DEF QueueInv, WorkerInv, PositionInv
  <2>2. CASE q = p
    <3>1. \A i \in 1..(o + 1) : i \in 1..o \/ i = o + 1
      BY SMT
    <3>2. \A i \in 1..o : Done(p, i)'
      BY <1>3, <1>4, <1>6
    <3>3. WorksOn(w, p, o + 1)'
      BY <1>5 DEF WorksOn
    <3>4. o + 1 <= Len(log'[p])
      BY <1>1, <1>3, <1>4
    <3>5. QED
      BY <1>5, <2>2, <3>1, <3>2, <3>3, <3>4
  <2>3. QED
    BY <2>1, <2>2
<1>8. TaskInv(w)'
  BY <1>1, <1>3, <1>4, <1>5, <1>6 DEF TaskInv
<1>9. WorkerInv(w)'
  BY <1>5, <1>7, <1>8 DEF WorkerInv
<1>10. GroupInv'
  BY <1>2, <1>3 DEF GetRecord, QueueInv, GroupInv
<1>11. \A v \in Workers : v # w => /\ wpc'[v] = wpc[v] /\ assigned'[v] = assigned[v]
                                   /\ paused'[v] = paused[v] /\ position'[v] = position[v]
                                   /\ task'[v] = task[v]
  BY <1>2 DEF GetRecord, QueueInv, GroupInv
<1>12. QED
  BY <1>1, <1>9, <1>10, <1>11, WorkerSide DEF GetRecord

\* process_record deals with the record the worker is at.
LEMMA ProcessDeals ==
  ASSUME QueueInv, NEW w \in Workers, wpc[w] \in {"work", "keepalive"}, Process(w),
         UNCHANGED topicVars
  PROVE  /\ Grows /\ log' = log /\ TopicInv'
         /\ RecordOf(w) \in handled' \cup dlq'
<1>1. task[w].partition \in Partitions /\ task[w].offset < Len(log[task[w].partition])
      /\ task[w].offset \in Nat /\ Len(log[task[w].partition]) \in Nat
  BY WorkerTypes DEF QueueInv, WorkerInv, TaskInv
<1>2. RecordOf(w) \in Messages
  <2>1. log[task[w].partition] \in Seq(Messages)
        /\ task[w].offset + 1 \in 1..Len(log[task[w].partition])
    BY <1>1 DEF QueueInv, TopicInv
  <2>2. QED
    BY <2>1 DEF RecordOf
<1>3. RecordOf(w) \in handled' \cup dlq' /\ handled \subseteq handled' /\ dlq \subseteq dlq'
      /\ handled' \subseteq Rows /\ dlq' \subseteq Junk
  BY <1>2 DEF Process, Messages, QueueInv, TopicInv
<1>4. Grows /\ log' = log
  BY <1>3, LogTypes DEF Grows, topicVars, QueueInv, TopicInv
<1>5. TopicInv'
  BY <1>3, <1>4, CommittedGrows DEF QueueInv, TopicInv, topicVars
<1>6. QED
  BY <1>3, <1>4, <1>5

LEMMA FinishStep ==
  ASSUME QueueInv, NEW w \in Workers, Finish(w)
  PROVE  QueueInv'
<1>1. Grows /\ log' = log /\ TopicInv' /\ RecordOf(w) \in handled' \cup dlq'
      /\ faults' \in 0..MaxFaults
  BY ProcessDeals, FaultBound DEF Finish
<1>2. PICK p \in Partitions, o \in Nat : p = task[w].partition /\ o = task[w].offset
  BY WorkerTypes DEF QueueInv, WorkerInv, TaskInv, Finish
<1>3. /\ p \in Partitions /\ o < Len(log[p]) /\ o \in Nat /\ Len(log[p]) \in Nat
      /\ \A i \in 1..o : Done(p, i)
  BY <1>2, WorkerTypes DEF QueueInv, WorkerInv, TaskInv, Finish
<1>4. wpc'[w] = "commit" /\ paused'[w] = {} /\ task' = task /\ position' = position
  BY DEF Finish, QueueInv, GroupInv
<1>5. Done(p, o + 1)'
  BY <1>1, <1>2 DEF Done, RecordOf
<1>6. \A q \in Partitions, i \in Nat : Done(q, i) => Done(q, i)'
  BY <1>1 DEF Done, Grows
<1>7. PositionInv(w)'
  <2>1. ASSUME NEW q \in Partitions, NEW i \in 1..position[w][q] PROVE Done(q, i)'
    <3>1. Done(q, i) \/ (q = p /\ i = o + 1)
      BY <1>2 DEF QueueInv, WorkerInv, PositionInv, WorksOn
    <3>2. i \in Nat
      BY WorkerTypes
    <3>3. CASE q = p /\ i = o + 1
      BY <1>5, <3>3
    <3>4. QED
      BY <1>6, <3>1, <3>2, <3>3
  <2>2. QED
    BY <1>1, <1>4, <2>1 DEF QueueInv, WorkerInv, PositionInv
<1>8. TaskInv(w)'
  <2>1. \A i \in 1..o : Done(p, i)'
    BY <1>3, <1>6
  <2>2. o < Len(log'[p])
    BY <1>1, <1>3
  <2>3. QED
    BY <1>2, <1>3, <1>4, <1>5, <2>1, <2>2 DEF TaskInv
<1>9. WorkerInv(w)'
  BY <1>4, <1>7, <1>8 DEF WorkerInv
<1>10. GroupInv'
  BY DEF Finish, QueueInv, GroupInv
<1>11. \A v \in Workers : v # w => /\ wpc'[v] = wpc[v] /\ assigned'[v] = assigned[v]
                                   /\ paused'[v] = paused[v] /\ position'[v] = position[v]
                                   /\ task'[v] = task[v]
  BY DEF Finish, QueueInv, GroupInv
<1>12. QED
  BY <1>1, <1>9, <1>10, <1>11, WorkerSide DEF Finish

LEMMA KeepAliveTakesStep ==
  ASSUME QueueInv, NEW w \in Workers, KeepAliveTakes(w)
  PROVE  QueueInv'
<1>1. Grows /\ log' = log /\ TopicInv'
  <2>1. CASE Process(w)
    BY <2>1, ProcessDeals DEF KeepAliveTakes
  <2>2. CASE UNCHANGED <<handled, dlq>>
    BY <2>2, TopicStays DEF KeepAliveTakes
  <2>3. QED
    BY <2>1, <2>2 DEF KeepAliveTakes
<1>2. faults' \in 0..MaxFaults /\ Leave(w) /\ owner' = owner /\ UNCHANGED outboxVars
  BY FaultBound DEF KeepAliveTakes
<1>3. QED
  BY <1>1, <1>2, LeaveStep, WorkerSide

\* What a worker commits is dealt with, also when another worker has committed more.
LEMMA CommitIsDone ==
  ASSUME QueueInv, NEW w \in Workers, wpc[w] = "commit", log' = log,
         CommitOffset(w) \/ UNCHANGED committed, UNCHANGED <<handled, dlq>>
  PROVE  Grows /\ TopicInv'
<1>1. Grows
  BY SameTopic
<1>2. CASE UNCHANGED committed
  BY <1>2, TopicStays DEF topicVars
<1>3. CASE CommitOffset(w)
  <2>1. PICK p \in Partitions, o \in Nat : p = task[w].partition /\ o = task[w].offset
    BY WorkerTypes DEF QueueInv, WorkerInv, TaskInv
  <2>2. o < Len(log[p]) /\ Len(log[p]) \in Nat /\ Done(p, o + 1) /\ \A i \in 1..o : Done(p, i)
    BY <2>1, WorkerTypes DEF QueueInv, WorkerInv, TaskInv
  <2>3. committed' = [committed EXCEPT ![p] = o + 1]
    BY <1>3, <2>1 DEF CommitOffset
  <2>4. committed' \in [Partitions -> Nat] /\ committed'[p] = o + 1
        /\ \A q \in Partitions : q # p => committed'[q] = committed[q]
    BY <2>3 DEF QueueInv, TopicInv
  <2>5. \A i \in 1..(o + 1) : i \in 1..o \/ i = o + 1
    BY SMT
  <2>6. \A q \in Partitions : \A i \in 1..committed'[q] : Done(q, i)
    BY <2>2, <2>4, <2>5 DEF QueueInv, TopicInv, CommittedDone, Done
  <2>7. CommittedDone'
    BY <2>6 DEF CommittedDone, Done
  <2>8. \A q \in Partitions : committed'[q] <= Len(log'[q])
    <3>1. o + 1 <= Len(log'[p])
      BY <2>2
    <3>2. \A q \in Partitions : q # p => committed'[q] <= Len(log'[q])
      BY <2>4 DEF QueueInv, TopicInv
    <3>3. QED
      BY <2>4, <3>1, <3>2
  <2>9. QED
    BY <1>1, <2>4, <2>7, <2>8 DEF QueueInv, TopicInv
<1>4. QED
  BY <1>1, <1>2, <1>3

LEMMA CommitStep ==
  ASSUME QueueInv, NEW w \in Workers, Commit(w)
  PROVE  QueueInv'
<1>1. Grows /\ TopicInv' /\ log' = log /\ faults' \in 0..MaxFaults
  BY CommitIsDone, FaultBound DEF Commit
<1>2. wpc'[w] = "poll" /\ task'[w] = NoTask
  BY DEF Commit, QueueInv, GroupInv
<1>3. PositionInv(w)'
  <2>1. \A q \in Partitions : \A i \in 1..position[w][q] : Done(q, i)'
    BY <1>1 DEF QueueInv, WorkerInv, PositionInv, WorksOn, Commit, Done
  <2>2. QED
    BY <1>1, <2>1 DEF QueueInv, WorkerInv, PositionInv, Commit
<1>4. TaskInv(w)'
  BY <1>2 DEF TaskInv
<1>5. WorkerInv(w)'
  BY <1>3, <1>4 DEF WorkerInv, QueueInv, Commit
<1>6. GroupInv'
  <2>1. NoTask \in [partition : Partitions \cup {Nobody}, offset : Nat]
    BY DEF NoTask
  <2>2. QED
    BY <2>1 DEF Commit, QueueInv, GroupInv
<1>7. \A v \in Workers : v # w => /\ wpc'[v] = wpc[v] /\ assigned'[v] = assigned[v]
                                  /\ paused'[v] = paused[v] /\ position'[v] = position[v]
                                  /\ task'[v] = task[v]
  BY DEF Commit, QueueInv, GroupInv
<1>8. QED
  BY <1>1, <1>5, <1>6, <1>7, WorkerSide DEF Commit

LEMMA CommitFailsStep ==
  ASSUME QueueInv, NEW w \in Workers, CommitFails(w)
  PROVE  QueueInv'
<1>1. Grows /\ TopicInv' /\ log' = log /\ faults' \in 0..MaxFaults
  BY CommitIsDone, FaultBound DEF CommitFails
<1>2. Leave(w) /\ owner' = owner /\ UNCHANGED outboxVars
  BY DEF CommitFails
<1>3. QED
  BY <1>1, <1>2, LeaveStep, WorkerSide

-----------------------------------------------------------------------------
(* The invariant *)

LEMMA QueueInit ==
  ASSUME Init
  PROVE  QueueInv
<1>1. \A p \in Partitions : SetToSeq({m \in Junk : PartitionOf(m) = p}) \in Seq(Messages)
  <2> SUFFICES ASSUME NEW p \in Partitions
               PROVE  SetToSeq({m \in Junk : PartitionOf(m) = p}) \in Seq(Messages)
    OBVIOUS
  <2> DEFINE S == {m \in Junk : PartitionOf(m) = p}
  <2>1. IsFiniteSet(S) /\ S \subseteq Messages
    BY QueueAssumption, FS_Subset DEF Messages
  <2> HIDE DEF S
  <2>2. SetToSeq(S) \in Seq(S)
    BY <2>1, SetToSeqIsSeq
  <2>3. SetToSeq(S) \in Seq(Messages)
    BY <2>1, <2>2
  <2>4. QED
    BY <2>3 DEF S
<1>2. log \in [Partitions -> Seq(Messages)]
  BY <1>1 DEF Init
<1>3. OutboxInv
  BY DEF Init, OutboxInv, MarkedIsSent
<1>4. TopicInv
  BY <1>2 DEF Init, TopicInv, CommittedDone
<1>5. NoTask \in [partition : Partitions \cup {Nobody}, offset : Nat]
  BY DEF NoTask
<1>6. current \in [Workers -> BOOLEAN]
  BY Zenon DEF Init
<1>7. GroupInv
  BY <1>5, <1>6 DEF Init, GroupInv
<1>8. ASSUME NEW w \in Workers PROVE WorkerInv(w)
  <2>1. PositionInv(w)
    BY <1>2 DEF Init, PositionInv
  <2>2. TaskInv(w)
    BY DEF Init, TaskInv
  <2>3. QED
    BY <2>1, <2>2 DEF Init, WorkerInv
<1>9. QED
  BY <1>3, <1>4, <1>7, <1>8, QueueAssumption DEF QueueInv, Init

LEMMA QueueNext ==
  ASSUME QueueInv, [Next]_vars
  PROVE  QueueInv'
<1>1. CASE Rebalance
  BY <1>1, RebalanceStep
<1>2. ASSUME NEW d \in Dispatchers,
             DispatcherStep(d) \/ PublishFails(d) \/ MarkFails(d) \/ LoseLock(d) \/ DispatcherEnds(d)
      PROVE  QueueInv'
  BY <1>2, TryLockStep, PendingStep, PublishStep, MarkPublishedStep, PublishFailsStep,
     MarkFailsStep, LoseLockStep, DispatcherEndsStep DEF DispatcherStep
<1>3. ASSUME NEW w \in Workers,
             WorkerStep(w) \/ TakeAssignment(w) \/ Finish(w) \/ PauseAgain(w)
             \/ ProcessFails(w) \/ CommitFails(w) \/ WorkerEnds(w)
      PROVE  QueueInv'
  BY <1>3, StartStep, GetRecordStep, KeepAliveStep, KeepAliveTakesStep, CommitStep,
     CommitRefusedStep, TakeAssignmentStep, FinishStep, PauseAgainStep, ProcessFailsStep,
     CommitFailsStep, WorkerEndsStep DEF WorkerStep
<1>4. CASE UNCHANGED vars
  <2>1. UNCHANGED <<outboxVars, topicVars, workerVars, faults>>
    BY <1>4 DEF vars
  <2>2. Grows
    BY <2>1, SameTopic DEF topicVars, workerVars
  <2>3. OutboxInv'
    BY <2>1 DEF QueueInv, OutboxInv, outboxVars, topicVars, Oldest, OnTopic, MarkedIsSent
  <2>4. QED
    BY <2>1, <2>2, <2>3, DispatcherSide, FaultBound DEF topicVars
<1>5. QED
  BY <1>1, <1>2, <1>3, <1>4 DEF Next

\* QueueInv holds in every state that the dispatchers, the consumer group and the workers
\* can reach (_run_outbox, run_worker), with any number of each.
THEOREM QueueInductive == Spec => []QueueInv
<1>1. Init => QueueInv
  BY QueueInit
<1>2. QueueInv /\ [Next]_vars => QueueInv'
  BY QueueNext
<1>3. QED
  BY <1>1, <1>2, PTL DEF Spec

LEMMA QueueInvTypeOK ==
  ASSUME QueueInv
  PROVE  TypeOK
<1>1. \A d \in Dispatchers : /\ batch[d] \subseteq Rows
                             /\ batch[d] # {} <=> dpc[d] \in {"publish", "mark"}
  BY DEF QueueInv, OutboxInv
<1>2. \A p \in Partitions : committed[p] \in 0..Len(log[p])
  BY LogTypes DEF QueueInv, TopicInv
<1>3. ASSUME NEW w \in Workers
      PROVE  /\ paused[w] \subseteq assigned[w] /\ assigned[w] \subseteq Partitions
             /\ \A p \in Partitions : position[w][p] \in 0..Len(log[p])
             /\ IF wpc[w] \in {"work", "keepalive", "commit"}
                THEN /\ task[w].partition \in Partitions
                     /\ task[w].offset < Len(log[task[w].partition])
                ELSE task[w] = NoTask
  BY WorkerTypes DEF QueueInv, WorkerInv, PositionInv, TaskInv
<1>4. current \in [Workers -> BOOLEAN]
  BY Zenon DEF QueueInv, GroupInv
<1>5. QED
  BY <1>1, <1>2, <1>3, <1>4 DEF TypeOK, QueueInv, OutboxInv, TopicInv, GroupInv

\* Types of the queue: a dispatcher has rows exactly while it publishes or marks, offsets
\* and positions stay within the topic, and a worker has a task exactly from getmany to
\* the commit.
THEOREM QueueTypeCorrect == Spec => []TypeOK
<1>1. QueueInv => TypeOK
  BY QueueInvTypeOK
<1>2. QED
  BY <1>1, QueueInductive, PTL

\* dispatch_once never marks a row whose message is not on the topic, with any number of
\* dispatchers that lost the advisory lock and went on.
THEOREM MarkedRowsAreSent == Spec => []MarkedIsSent
<1>1. QueueInv => MarkedIsSent
  BY DEF QueueInv, OutboxInv
<1>2. QED
  BY <1>1, QueueInductive, PTL

\* No committed offset is past a record that is neither processed nor dead-lettered,
\* through any rebalances, keepalive polls and ends of workers.
THEOREM NoRecordSkipped == Spec => []CommittedDone
<1>1. QueueInv => CommittedDone
  BY DEF QueueInv, TopicInv
<1>2. QED
  BY <1>1, QueueInductive, PTL
=============================================================================
