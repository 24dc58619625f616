----------------------------- MODULE WorkQueue ------------------------------
(***************************************************************************)
(* The way of a job request from the outbox to a worker.  Every API        *)
(* process runs _run_outbox: the one that has the advisory lock publishes  *)
(* the pending rows and marks them.  The lock belongs to a connection the  *)
(* loop does not look at again, so a dispatcher that loses it goes on      *)
(* beside the next holder.  Every worker process takes one record at a     *)
(* time, keeps its place in the consumer group by polling its paused       *)
(* partitions while it works, and commits the record's offset.             *)
(* What the worker does with a request is JobExecution.                    *)
(***************************************************************************)
EXTENDS Integers, Sequences, SequencesExt, FiniteSets

CONSTANTS
  Events,          \* unpublished rows of outbox_events, numbered in the order of created_at
  Junk,            \* records on the topic that decode_job_message refuses, other numbers
  NumPartitions,
  Dispatchers, Workers, Nobody,
  Limit,           \* dispatch_once(limit=100)
  MaxFaults        \* bound: calls to Kafka, PostgreSQL or OCRWorker.process that fail,
                   \* processes that end, locks lost, members thrown out of the group

ASSUME QueueAssumption ==
  /\ Events \in Nat /\ Limit \in Nat \ {0} /\ NumPartitions \in Nat \ {0}
  /\ Junk \subseteq Nat \ (1..Events) /\ IsFiniteSet(Junk) /\ MaxFaults \in Nat

Rows == 1..Events

Messages == Rows \cup Junk

Partitions == 1..NumPartitions

\* The partitioner of the producer: the key decides, so a repeated message goes to the
\* same partition.
PartitionOf(m) == (m % NumPartitions) + 1

VARIABLES
  published,  \* outbox rows with published_at
  lock,       \* the dispatcher whose session has the advisory lock, or Nobody
  dpc,        \* dispatcher -> where _run_outbox is
  batch,      \* dispatcher -> the rows of pending() it still has to mark, oldest first
  log,        \* partition -> the records of the topic
  committed,  \* partition -> offset of the group
  group,      \* members of the last rebalance that are still there
  owner,      \* partition -> member the group coordinator gave it to, or Nobody
  wpc,        \* worker -> where run_worker is
  current,    \* worker -> it has the generation of the last rebalance
  assigned,   \* worker -> consumer.assignment()
  paused,     \* worker -> consumer.paused()
  position,   \* worker -> partition -> offset of the next record
  task,       \* worker -> partition and offset of the record in process_record
  handled,    \* requests that OCRWorker.process has returned for
  dlq,        \* records on the dead letter topic
  faults      \* how many faults have happened

outboxVars == <<published, lock, dpc, batch>>
topicVars  == <<log, committed>>
workerVars == <<group, owner, wpc, current, assigned, paused, position, task, handled, dlq>>
vars == <<outboxVars, topicVars, workerVars, faults>>

NoTask == [partition |-> Nobody, offset |-> 0]

Init ==
  /\ published = {} /\ lock = Nobody
  /\ dpc = [d \in Dispatchers |-> "lock"] /\ batch = [d \in Dispatchers |-> {}]
  /\ log = [p \in Partitions |-> SetToSeq({m \in Junk : PartitionOf(m) = p})]
  /\ committed = [p \in Partitions |-> 0]
  /\ group = {} /\ owner = [p \in Partitions |-> Nobody]
  /\ wpc = [w \in Workers |-> "down"] /\ current = [w \in Workers |-> FALSE]
  /\ assigned = [w \in Workers |-> {}] /\ paused = [w \in Workers |-> {}]
  /\ position = [w \in Workers |-> [p \in Partitions |-> 0]]
  /\ task = [w \in Workers |-> NoTask]
  /\ handled = {} /\ dlq = {}
  /\ faults = 0

Fault == faults < MaxFaults /\ faults' = faults + 1

-----------------------------------------------------------------------------
(* The outbox and its dispatchers *)

\* pg_try_advisory_lock; who does not get it sleeps and tries again.
TryLock(d) ==
  /\ dpc[d] = "lock" /\ lock = Nobody
  /\ lock' = d /\ dpc' = [dpc EXCEPT ![d] = "read"]
  /\ UNCHANGED <<published, batch, topicVars, workerVars, faults>>

\* The row that dispatch_once is at.
Oldest(d) == Min(batch[d])

\* The rows another dispatcher's statement may have locked at this moment.
RowLocks(d) ==
  {e \in Rows : \E o \in Dispatchers \ {d} :
                  \/ dpc[o] = "read"
                  \/ dpc[o] = "mark" /\ Oldest(o) = e}

\* pending: ORDER BY created_at FOR UPDATE SKIP LOCKED LIMIT
Pending(d) ==
  /\ dpc[d] = "read"
  /\ \E skipped \in SUBSET RowLocks(d) :
       LET found == Rows \ (published \cup skipped)
           taken == {e \in found : Cardinality({f \in found : f < e}) < Limit}
       IN  /\ taken # {}
           /\ batch' = [batch EXCEPT ![d] = taken]
  /\ dpc' = [dpc EXCEPT ![d] = "publish"]
  /\ UNCHANGED <<published, lock, topicVars, workerVars, faults>>

Send(m) == log' = [log EXCEPT ![PartitionOf(m)] = Append(@, m)]

\* Mutant: the row is marked before the message is sent.
Publish_MarkedFirst(d) ==
  /\ dpc[d] = "publish"
  /\ published' = published \cup {Oldest(d)}
  /\ dpc' = [dpc EXCEPT ![d] = "mark"]
  /\ UNCHANGED <<lock, batch, topicVars, workerVars, faults>>

Publish(d) ==
  /\ dpc[d] = "publish"
  /\ Send(Oldest(d))
  /\ dpc' = [dpc EXCEPT ![d] = "mark"]
  /\ UNCHANGED <<published, lock, batch, committed, workerVars, faults>>

\* The rest of the batch waits for the next dispatch_once.
Again(d) ==
  /\ dpc' = [dpc EXCEPT ![d] = "read"]
  /\ batch' = [batch EXCEPT ![d] = {}]

\* send_and_wait fails, or its answer is lost.
PublishFails(d) ==
  /\ dpc[d] = "publish"
  /\ Send(Oldest(d)) \/ log' = log
  /\ Again(d)
  /\ Fault
  /\ UNCHANGED <<published, lock, committed, workerVars>>

MarkPublished(d) ==
  /\ dpc[d] = "mark"
  /\ published' = published \cup {Oldest(d)}
  /\ IF batch[d] = {Oldest(d)}
     THEN Again(d)
     ELSE /\ dpc' = [dpc EXCEPT ![d] = "publish"]
          /\ batch' = [batch EXCEPT ![d] = @ \ {Oldest(d)}]
  /\ UNCHANGED <<lock, topicVars, workerVars, faults>>

MarkFails(d) ==
  /\ dpc[d] = "mark"
  /\ published' \in {published, published \cup {Oldest(d)}}
  /\ Again(d)
  /\ Fault
  /\ UNCHANGED <<lock, topicVars, workerVars>>

\* The connection with the lock breaks: the loop does not use it and goes on.
LoseLock(d) ==
  /\ lock = d
  /\ lock' = Nobody
  /\ Fault
  /\ UNCHANGED <<published, dpc, batch, topicVars, workerVars>>

\* Killed, or cancelled: finally unlocks.  The process starts again.
DispatcherEnds(d) ==
  /\ dpc[d] # "lock"
  /\ lock' = IF lock = d THEN Nobody ELSE lock
  /\ dpc' = [dpc EXCEPT ![d] = "lock"]
  /\ batch' = [batch EXCEPT ![d] = {}]
  /\ Fault
  /\ UNCHANGED <<published, topicVars, workerVars>>

-----------------------------------------------------------------------------
(* The consumer group (external: Kafka and aiokafka) *)

Members == {w \in Workers : wpc[w] # "down"}

\* Somebody has come, or has gone with a partition.
GroupChanged == Members # group \/ \E p \in Partitions : owner[p] \notin group

\* The coordinator gives the partitions out anew and ends the generation.  It may have
\* thrown out a member that sent no heartbeat; the member learns of it later.
Rebalance ==
  /\ IF GroupChanged THEN UNCHANGED faults
     ELSE Members # {} /\ Fault
  /\ IF Members = {} THEN owner' = [p \in Partitions |-> Nobody]
     ELSE owner' \in [Partitions -> Members]
  /\ group' = Members
  /\ current' = [w \in Workers |-> FALSE]
  /\ UNCHANGED <<outboxVars, topicVars, wpc, assigned, paused, position, task, handled, dlq>>

\* The consumer's background task takes up its new assignment, whatever run_worker does:
\* no partition of it is paused, and it is read from the committed offset.
TakeAssignment(w) ==
  /\ w \in group /\ ~ current[w]
  /\ current' = [current EXCEPT ![w] = TRUE]
  /\ assigned' = [assigned EXCEPT ![w] = {p \in Partitions : owner[p] = w}]
  /\ paused' = [paused EXCEPT ![w] = {}]
  /\ position' = [position EXCEPT ![w] = [p \in Partitions |->
                                            IF owner[p] = w THEN committed[p] ELSE 0]]
  /\ UNCHANGED <<outboxVars, topicVars, group, owner, wpc, task, handled, dlq, faults>>

-----------------------------------------------------------------------------
(* run_worker *)

\* consumer.stop, or the process is gone; the group finds out later.
Leave(w) ==
  /\ group' = group \ {w}
  /\ wpc' = [wpc EXCEPT ![w] = "down"]
  /\ current' = [current EXCEPT ![w] = FALSE]
  /\ assigned' = [assigned EXCEPT ![w] = {}]
  /\ paused' = [paused EXCEPT ![w] = {}]
  /\ position' = [position EXCEPT ![w] = [p \in Partitions |-> 0]]
  /\ task' = [task EXCEPT ![w] = NoTask]

\* restart: unless-stopped, then wait_for_runtime_readiness; when that times out the
\* process ends and is restarted, and nothing has been consumed.
Start(w) ==
  /\ wpc[w] = "down"
  /\ wpc' = [wpc EXCEPT ![w] = "poll"]
  /\ UNCHANGED <<outboxVars, topicVars, group, owner, current, assigned, paused, position, task,
                 handled, dlq, faults>>

\* Partitions that getmany has a record of.
Readable(w) ==
  {p \in assigned[w] \ paused[w] : position[w][p] < Len(log[p])}

\* getmany(max_records=1), and pause_current_assignment before the first await.
GetRecord(w) ==
  /\ wpc[w] = "poll"
  /\ \E p \in Readable(w) :
       /\ task' = [task EXCEPT ![w] = [partition |-> p, offset |-> position[w][p]]]
       /\ position' = [position EXCEPT ![w][p] = @ + 1]
  /\ paused' = [paused EXCEPT ![w] = assigned[w]]
  /\ wpc' = [wpc EXCEPT ![w] = "work"]
  /\ UNCHANGED <<outboxVars, topicVars, group, owner, current, assigned, handled, dlq, faults>>

RecordOf(w) == log[task[w].partition][task[w].offset + 1]

\* process_record: OCRWorker.process, or the dead letter topic.
Process(w) ==
  IF RecordOf(w) \in Junk
  THEN dlq' = dlq \cup {RecordOf(w)} /\ UNCHANGED handled
  ELSE handled' = handled \cup {RecordOf(w)} /\ UNCHANGED dlq

\* Mutant: what the helper paused stays paused.
Finish_NoResume(w) ==
  /\ wpc[w] = "work"
  /\ Process(w)
  /\ wpc' = [wpc EXCEPT ![w] = "commit"]
  /\ UNCHANGED <<outboxVars, topicVars, group, owner, current, assigned, paused, position, task,
                 faults>>

\* The operation is done and finally resumes what the helper paused: nothing else pauses
\* a partition, so this is all that is assigned and paused.
Finish(w) ==
  /\ wpc[w] = "work"
  /\ Process(w)
  /\ paused' = [paused EXCEPT ![w] = {}]
  /\ wpc' = [wpc EXCEPT ![w] = "commit"]
  /\ UNCHANGED <<outboxVars, topicVars, group, owner, current, assigned, position, task, faults>>

\* The exception of process or of the dead letter producer ends the worker.
ProcessFails(w) ==
  /\ wpc[w] = "work"
  /\ Leave(w)
  /\ Fault
  /\ UNCHANGED <<outboxVars, topicVars, owner, handled, dlq>>

\* TimeoutError after 30 s: pause_current_assignment once more.
PauseAgain(w) ==
  /\ wpc[w] = "work"
  /\ paused' = [paused EXCEPT ![w] = assigned[w]]
  /\ wpc' = [wpc EXCEPT ![w] = "keepalive"]
  /\ UNCHANGED <<outboxVars, topicVars, group, owner, current, assigned, position, task, handled,
                 dlq, faults>>

\* getmany(timeout_ms=0): nothing came.
KeepAlive(w) ==
  /\ wpc[w] = "keepalive" /\ Readable(w) = {}
  /\ wpc' = [wpc EXCEPT ![w] = "work"]
  /\ UNCHANGED <<outboxVars, topicVars, group, owner, current, assigned, paused, position, task,
                 handled, dlq, faults>>

\* Mutant: the record is dropped and the work goes on.
KeepAliveTakes_Dropped(w) ==
  /\ wpc[w] = "keepalive"
  /\ \E p \in Readable(w) : position' = [position EXCEPT ![w][p] = @ + 1]
  /\ wpc' = [wpc EXCEPT ![w] = "work"]
  /\ UNCHANGED <<outboxVars, topicVars, group, owner, current, assigned, paused, task, handled,
                 dlq, faults>>

\* A new assignment came after the pause, and getmany took a record of it: RuntimeError,
\* the operation is cancelled unless it is just done, the worker ends.
KeepAliveTakes(w) ==
  /\ wpc[w] = "keepalive" /\ Readable(w) # {}
  /\ Process(w) \/ UNCHANGED <<handled, dlq>>
  /\ Leave(w)
  /\ UNCHANGED <<outboxVars, topicVars, owner, faults>>

\* A commit counts for the owner of the partition in the current generation.
MayCommit(w) == current[w] /\ task[w].partition \in assigned[w]

\* Mutant: the position after the next record is committed.
CommitOffset_OffByOne(w) ==
  committed' = [committed EXCEPT ![task[w].partition] = task[w].offset + 2]

CommitOffset(w) ==
  committed' = [committed EXCEPT ![task[w].partition] = task[w].offset + 1]

Commit(w) ==
  /\ wpc[w] = "commit" /\ MayCommit(w)
  /\ CommitOffset(w)
  /\ task' = [task EXCEPT ![w] = NoTask]
  /\ wpc' = [wpc EXCEPT ![w] = "poll"]
  /\ UNCHANGED <<outboxVars, log, group, owner, current, assigned, paused, position, handled, dlq,
                 faults>>

\* IllegalStateError or CommitFailedError end the worker.
CommitRefused(w) ==
  /\ wpc[w] = "commit" /\ ~ MayCommit(w)
  /\ Leave(w)
  /\ UNCHANGED <<outboxVars, topicVars, owner, handled, dlq, faults>>

\* The answer of the broker is lost.
CommitFails(w) ==
  /\ wpc[w] = "commit" /\ MayCommit(w)
  /\ CommitOffset(w) \/ UNCHANGED committed
  /\ Leave(w)
  /\ Fault
  /\ UNCHANGED <<outboxVars, log, owner, handled, dlq>>

\* Killed, or stop is set and the loop ends.
WorkerEnds(w) ==
  /\ wpc[w] # "down"
  /\ Leave(w)
  /\ Fault
  /\ UNCHANGED <<outboxVars, topicVars, owner, handled, dlq>>

-----------------------------------------------------------------------------
DispatcherStep(d) == TryLock(d) \/ Pending(d) \/ Publish(d) \/ MarkPublished(d)

WorkerStep(w) ==
  \/ Start(w) \/ GetRecord(w) \/ KeepAlive(w)
  \/ KeepAliveTakes(w) \/ Commit(w) \/ CommitRefused(w)

Next ==
  \/ Rebalance
  \/ \E d \in Dispatchers : DispatcherStep(d) \/ PublishFails(d) \/ MarkFails(d)
                            \/ LoseLock(d) \/ DispatcherEnds(d)
  \/ \E w \in Workers : WorkerStep(w) \/ TakeAssignment(w) \/ Finish(w) \/ PauseAgain(w)
                        \/ ProcessFails(w) \/ CommitFails(w) \/ WorkerEnds(w)

\* A process that can go on does.  The operation may be kept alive any number of times
\* but ends: OCRWorker.process has time limits on all it calls.
Fairness ==
  /\ \A d \in Dispatchers : WF_vars(DispatcherStep(d))
  /\ WF_vars(GroupChanged /\ Rebalance)
  /\ \A w \in Workers : WF_vars(WorkerStep(w)) /\ WF_vars(TakeAssignment(w))
                        /\ SF_vars(Finish(w))

Spec == Init /\ [][Next]_vars /\ Fairness

-----------------------------------------------------------------------------
(* Properties *)

TypeOK ==
  /\ published \subseteq Rows
  /\ lock \in Dispatchers \cup {Nobody}
  /\ dpc \in [Dispatchers -> {"lock", "read", "publish", "mark"}]
  /\ \A d \in Dispatchers : /\ batch[d] \subseteq Rows
                              /\ batch[d] # {} <=> dpc[d] \in {"publish", "mark"}
  /\ log \in [Partitions -> Seq(Messages)]
  /\ \A p \in Partitions : committed[p] \in 0..Len(log[p])
  /\ group \subseteq Workers /\ owner \in [Partitions -> Workers \cup {Nobody}]
  /\ wpc \in [Workers -> {"down", "poll", "work", "keepalive", "commit"}]
  /\ current \in [Workers -> BOOLEAN]
  /\ \A w \in Workers :
       /\ paused[w] \subseteq assigned[w] /\ assigned[w] \subseteq Partitions
       /\ \A p \in Partitions : position[w][p] \in 0..Len(log[p])
       /\ IF wpc[w] \in {"work", "keepalive", "commit"}
          THEN task[w].partition \in Partitions /\ task[w].offset < Len(log[task[w].partition])
          ELSE task[w] = NoTask
  /\ handled \subseteq Rows /\ dlq \subseteq Junk
  /\ faults \in 0..MaxFaults

\* A row with published_at has its message on the topic, whichever dispatchers were at
\* it and wherever one of them failed (OutboxDispatcher.dispatch_once).
MarkedIsSent == \A e \in published : \E p \in Partitions : e \in Range(log[p])

\* No offset is committed past a record that is neither processed nor on the dead letter
\* topic, whatever rebalance, keepalive poll or end of a worker came in between
\* (await_with_safe_consumer_polls, run_worker).
CommittedDone ==
  \A p \in Partitions : \A i \in 1..committed[p] : log[p][i] \in handled \cup dlq

\* No member comes or goes any more.  A commit that comes after a rebalance ends its
\* worker, whose return is another rebalance: nothing in the code ends that, but a
\* redelivered record that is already done takes far less time than a restart.
GroupSettles == <>[][FALSE]_<<group, owner>>

\* Once the group settles, every outbox row is processed and every record that cannot be
\* decoded goes to the dead letter topic: no dispatcher keeps a row to itself, and no
\* partition stays paused (_run_outbox, await_with_safe_consumer_polls).
SettledGroupFinishes ==
  GroupSettles => <>[](handled = Rows /\ dlq = Junk)
=============================================================================
