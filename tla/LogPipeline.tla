---------------------------- MODULE LogPipeline ----------------------------
(***************************************************************************)
(* The way of a log event: the logging service accepts it into its queue,  *)
(* batches it and publishes it to Kafka, or keeps it in one of two         *)
(* fallback files that a second goroutine replays; the ClickHouse writer   *)
(* reads the topic, inserts and then commits.  Requests, the batching      *)
(* goroutine, the replay goroutine, main and the writer run concurrently;  *)
(* processes stop in order or are killed.                                  *)
(*                                                                         *)
(* The order of events within a batch does not matter here: batches and    *)
(* files are sets of events.                                               *)
(***************************************************************************)
EXTENDS Naturals, SequencesExt

CONSTANTS Events,           \* log events that passed validation
          Audit,            \* those of level ERROR or AUDIT
          Long,             \* those whose line is longer than the scanner's buffer
          Handlers,         \* concurrent requests
          QueueSize, MaxBatchSize,
          WriterBatchSize,  \* batchSize of the ClickHouse writer
          MaxOffered,       \* bound: events that requests carry
          MaxFailures,      \* bound: Kafka, ClickHouse and disk calls failing
          MaxEnds           \* bound: processes killed or told to stop

ASSUME PipelineAssumption ==
  /\ Audit \subseteq Events /\ Long \subseteq Events /\ {} \notin Events /\ IsFiniteSet(Events)
  /\ {QueueSize, MaxBatchSize, WriterBatchSize} \subseteq Nat \ {0}
  /\ {MaxOffered, MaxFailures, MaxEnds} \subseteq Nat

VARIABLES
  offered,   \* events some request has carried
  accepted,  \* events a request was told are accepted
  ingest,    \* handler -> events it is about to enqueue, read lock held
  closed,    \* service.closed; the channel is closed with it
  queue,     \* service.queue: batches as requests brought them
  pending,   \* pending of run()
  batch,     \* what writeBatch is writing
  rpc,       \* where run() has got to
  canceled,  \* serviceCtx is done
  draining,  \* run() is in the loop that empties the queue after cancellation
  life,      \* the process: up, stopping, returned (from main), exited
  spool,     \* fallback file -> events in it
  torn,      \* files with a line cut short
  replay,    \* the file ReplayOnce is at, the events read from it, and its step
  topic,     \* the Kafka topic, one partition
  offset,    \* messages committed by the writer's group
  base,      \* messages the writer has done with
  position,  \* messages the writer has fetched
  wpc,       \* where the writer has got to
  stored,    \* events in ClickHouse, which keeps one row per event_id
  dropped,   \* history: events in memory when the process ended, or refused by the disk
  failures, ends

requestVars == <<offered, accepted, ingest>>
serviceVars == <<closed, queue, pending, batch, rpc, canceled, draining, life>>
fileVars == <<spool, torn, replay>>
writerVars == <<offset, base, position, wpc, stored>>
boundVars == <<failures, ends>>
vars == <<requestVars, serviceVars, fileVars, topic, writerVars, dropped, boundVars>>

Regular == "regular"
ErrorAudit == "error_audit"
Files == {Regular, ErrorAudit}
FileOf(e) == IF e \in Audit THEN ErrorAudit ELSE Regular

NoReplay == [file |-> Regular, events |-> {}, step |-> "idle"]

\* Every event the service still has somewhere.
InMemory == (UNION Range(queue)) \cup pending \cup batch
Durable == (UNION Range(spool)) \cup Range(topic)

Init ==
  /\ offered = {} /\ accepted = {} /\ ingest = [h \in Handlers |-> {}]
  /\ closed = FALSE /\ queue = <<>> /\ pending = {} /\ batch = {}
  /\ rpc = "select" /\ canceled = FALSE /\ draining = FALSE /\ life = "up"
  /\ spool = [f \in Files |-> {}] /\ torn = {} /\ replay = NoReplay
  /\ topic = <<>> /\ offset = 0 /\ base = 0 /\ position = 0 /\ wpc = "fetch"
  /\ stored = {} /\ dropped = {}
  /\ failures = 0 /\ ends = 0

\* A call fails for any reason, a cancelled context included.
Fails == failures < MaxFailures /\ failures' = failures + 1
Ends == ends < MaxEnds /\ ends' = ends + 1

-----------------------------------------------------------------------------
(* Service.Ingest *)

Alive == life # "exited"

\* A request with new events takes the read lock and finds the service open; one that
\* finds it closed is answered with an error and changes nothing.
IngestLock(h, events) ==
  /\ Alive /\ ingest[h] = {} /\ ~ closed
  /\ events # {} /\ events \cap offered = {}
  /\ Cardinality(offered \cup events) <= MaxOffered
  /\ offered' = offered \cup events
  /\ ingest' = [ingest EXCEPT ![h] = events]
  /\ UNCHANGED <<accepted, serviceVars, fileVars, topic, writerVars, dropped, boundVars>>

\* The send never blocks: when the queue is full the request is refused.
IngestSend(h) ==
  /\ Alive /\ ingest[h] # {}
  /\ \/ /\ Len(queue) < QueueSize
        /\ queue' = Append(queue, ingest[h])
        /\ accepted' = accepted \cup ingest[h]
     \/ Len(queue) = QueueSize /\ UNCHANGED <<queue, accepted>>
  /\ ingest' = [ingest EXCEPT ![h] = {}]
  /\ UNCHANGED <<offered, closed, pending, batch, rpc, canceled, draining, life>>
  /\ UNCHANGED <<fileVars, topic, writerVars, dropped, boundVars>>

\* Mutant: closeQueue does not take the lock.
WriteLock_NotTaken == TRUE

\* mu.Lock(): no request is between its check and its send.
WriteLock == \A h \in Handlers : ingest[h] = {}

-----------------------------------------------------------------------------
(* Service.run *)

\* flush: hand everything pending to writeBatch.
Flush(events) ==
  /\ batch' = events /\ pending' = {}
  /\ rpc' = IF events = {} THEN "select" ELSE "publish"

\* Also the body of the range loop after cancellation.
Receive ==
  /\ Alive /\ rpc = "select" /\ queue # <<>>
  /\ queue' = Tail(queue)
  /\ LET events == pending \cup Head(queue)
     IN  IF Cardinality(events) >= MaxBatchSize THEN Flush(events)
         ELSE pending' = events /\ UNCHANGED <<batch, rpc>>
  /\ UNCHANGED <<requestVars, closed, canceled, draining, life>>
  /\ UNCHANGED <<fileVars, topic, writerVars, dropped, boundVars>>

\* The ticker is not looked at while run() drains the queue after cancellation.
Tick ==
  /\ Alive /\ rpc = "select" /\ pending # {} /\ ~ draining
  /\ Flush(pending)
  /\ UNCHANGED <<requestVars, closed, queue, canceled, draining, life>>
  /\ UNCHANGED <<fileVars, topic, writerVars, dropped, boundVars>>

\* ctx.Done(): stop accepting, and drain.
Cancelled ==
  /\ Alive /\ rpc = "select" /\ canceled /\ ~ draining /\ WriteLock
  /\ closed' = TRUE /\ draining' = TRUE
  /\ UNCHANGED <<requestVars, queue, pending, batch, rpc, canceled, life>>
  /\ UNCHANGED <<fileVars, topic, writerVars, dropped, boundVars>>

\* Mutant: run() returns when the channel is closed and empty, without a last flush.
Finish_NoFlush ==
  /\ Alive /\ rpc = "select" /\ closed /\ queue = <<>>
  /\ rpc' = "done"
  /\ UNCHANGED <<requestVars, closed, queue, pending, batch, canceled, draining, life>>
  /\ UNCHANGED <<fileVars, topic, writerVars, dropped, boundVars>>

\* The closed channel is empty: flush what is left; done once nothing is.
Finish ==
  /\ Alive /\ rpc = "select" /\ closed /\ queue = <<>>
  /\ IF pending = {} THEN rpc' = "done" /\ UNCHANGED <<pending, batch>> ELSE Flush(pending)
  /\ UNCHANGED <<requestVars, closed, queue, canceled, draining, life>>
  /\ UNCHANGED <<fileVars, topic, writerVars, dropped, boundVars>>

Publish ==
  /\ Alive /\ rpc = "publish"
  /\ topic' = topic \o SetToSeq(batch)
  /\ batch' = {} /\ rpc' = "select"
  /\ UNCHANGED <<requestVars, closed, queue, pending, canceled, draining, life>>
  /\ UNCHANGED <<fileVars, writerVars, dropped, boundVars>>

\* Some messages of a batch that failed may have been written.
PublishFails ==
  /\ Alive /\ rpc = "publish" /\ Fails
  /\ \E events \in SUBSET batch : topic' = topic \o SetToSeq(events)
  /\ rpc' = "spill"
  /\ UNCHANGED <<requestVars, closed, queue, pending, batch, canceled, draining, life>>
  /\ UNCHANGED <<fileVars, writerVars, dropped, ends>>

-----------------------------------------------------------------------------
(* KafkaFallbackStore: WriteBatch and ReplayOnce hold the store's mutex *)

\* Mutant: the mutex is only held while a file is written.
StoreLock_NotTaken == TRUE

StoreLock == replay.step = "idle"

Lines(events, f) == {e \in events : FileOf(e) = f}

Spill ==
  /\ Alive /\ rpc = "spill" /\ StoreLock
  /\ spool' = [f \in Files |-> spool[f] \cup Lines(batch, f)]
  /\ batch' = {} /\ rpc' = "select"
  /\ UNCHANGED <<requestVars, closed, queue, pending, canceled, draining, life>>
  /\ UNCHANGED <<torn, replay, topic, writerVars, dropped, boundVars>>

\* What WriteBatch leaves behind when it is interrupted: some lines of one file, the
\* first one completely before the second one is begun, perhaps the start of one more.
Partly(spilt, cut) ==
  /\ spilt \subseteq batch /\ cut \subseteq Files /\ Cardinality(cut) <= 1
  /\ \/ Lines(batch, Regular) \subseteq spilt /\ Regular \notin cut
     \/ Lines(spilt, ErrorAudit) = {} /\ ErrorAudit \notin cut
  /\ \A f \in cut : Lines(batch \ spilt, f) # {}
  /\ spool' = [f \in Files |-> spool[f] \cup Lines(spilt, f)]
  /\ torn' = torn \cup cut

\* The failure is logged and the rest of the batch is gone.
SpillFails ==
  /\ Alive /\ rpc = "spill" /\ StoreLock /\ Fails
  /\ \E spilt \in SUBSET batch, cut \in SUBSET Files :
       spilt # batch /\ Partly(spilt, cut) /\ dropped' = dropped \cup (batch \ spilt)
  /\ batch' = {} /\ rpc' = "select"
  /\ UNCHANGED <<requestVars, closed, queue, pending, canceled, draining, life>>
  /\ UNCHANGED <<replay, topic, writerVars, ends>>

\* readEvents: a line that does not parse or does not fit the scanner fails the file.
Readable(f) == f \notin torn /\ spool[f] \cap Long = {}

\* replayFile(f): an unreadable file ends ReplayOnce.
ReadFile(f) ==
  IF Readable(f) /\ spool[f] # {}
  THEN [file |-> f, events |-> spool[f], step |-> "publish"] ELSE NoReplay

\* Mutant: only the regular file is replayed.
ReplayOnce_RegularOnly ==
  /\ Alive /\ replay.step = "idle"
  /\ replay' = ReadFile(Regular)
  /\ UNCHANGED <<requestVars, serviceVars, spool, torn, topic, writerVars, dropped, boundVars>>

\* ReplayOnce is at the regular file first, and at the other one after that unless
\* the regular one could not be read.
ReplayOnce ==
  /\ Alive /\ replay.step = "idle"
  /\ replay' = IF spool[Regular] = {} /\ Readable(Regular)
               THEN ReadFile(ErrorAudit) ELSE ReadFile(Regular)
  /\ UNCHANGED <<requestVars, serviceVars, spool, torn, topic, writerVars, dropped, boundVars>>

ReplayPublish ==
  /\ Alive /\ replay.step = "publish"
  /\ topic' = topic \o SetToSeq(replay.events)
  /\ replay' = [replay EXCEPT !.step = "truncate"]
  /\ UNCHANGED <<requestVars, serviceVars, spool, torn, writerVars, dropped, boundVars>>

ReplayPublishFails ==
  /\ Alive /\ replay.step = "publish" /\ Fails
  /\ \E events \in SUBSET replay.events : topic' = topic \o SetToSeq(events)
  /\ replay' = NoReplay
  /\ UNCHANGED <<requestVars, serviceVars, spool, torn, writerVars, dropped>>
  /\ UNCHANGED ends

ReplayTruncate ==
  /\ Alive /\ replay.step = "truncate"
  /\ spool' = [spool EXCEPT ![replay.file] = {}]
  /\ replay' = IF replay.file = Regular THEN ReadFile(ErrorAudit) ELSE NoReplay
  /\ UNCHANGED <<requestVars, serviceVars, torn, topic, writerVars, dropped, boundVars>>

ReplayTruncateFails ==
  /\ Alive /\ replay.step = "truncate" /\ Fails
  /\ replay' = NoReplay
  /\ UNCHANGED <<requestVars, serviceVars, spool, torn, topic, writerVars, dropped>>
  /\ UNCHANGED ends

-----------------------------------------------------------------------------
(* main *)

\* A signal: server.Shutdown is called; requests already in are served.
Signal ==
  /\ life = "up" /\ Ends
  /\ life' = "stopping"
  /\ UNCHANGED <<requestVars, closed, queue, pending, batch, rpc, canceled, draining>>
  /\ UNCHANGED <<fileVars, topic, writerVars, dropped, failures>>

\* Service.Shutdown, once server.Shutdown has waited for requests.
Shutdown ==
  /\ life \in {"stopping", "returned"} /\ ~ closed /\ WriteLock
  /\ closed' = TRUE
  /\ UNCHANGED <<requestVars, queue, pending, batch, rpc, canceled, draining, life>>
  /\ UNCHANGED <<fileVars, topic, writerVars, dropped, boundVars>>

\* stopService() after the drain, or after the time allowed for it.
StopService ==
  /\ life \in {"stopping", "returned"} /\ closed /\ ~ canceled
  /\ canceled' = TRUE
  /\ UNCHANGED <<requestVars, closed, queue, pending, batch, rpc, draining, life>>
  /\ UNCHANGED <<fileVars, topic, writerVars, dropped, boundVars>>

\* ListenAndServe returns as soon as server.Shutdown is called, main returns, and its
\* deferred calls begin with stopService().
MainReturns ==
  /\ life = "stopping"
  /\ life' = "returned" /\ canceled' = TRUE
  /\ UNCHANGED <<requestVars, closed, queue, pending, batch, rpc, draining>>
  /\ UNCHANGED <<fileVars, topic, writerVars, dropped, boundVars>>

\* What the memory of a process that is gone holds.
MemoryLost ==
  /\ life' = "exited" /\ queue' = <<>> /\ pending' = {} /\ batch' = {} /\ replay' = NoReplay
  /\ ingest' = [h \in Handlers |-> {}]

\* The last deferred call, publisher.Close, waits for messages being written.
Exit ==
  /\ life = "returned" /\ rpc # "publish" /\ replay.step # "publish"
  /\ MemoryLost
  /\ dropped' = dropped \cup InMemory
  /\ UNCHANGED <<offered, accepted, closed, rpc, canceled, draining, spool, torn>>
  /\ UNCHANGED <<topic, writerVars, boundVars>>

\* The process is killed, perhaps while it writes to a fallback file.
Crash ==
  /\ Alive /\ Ends
  /\ MemoryLost
  /\ \/ UNCHANGED <<spool, torn>>
     \/ rpc = "spill" /\ StoreLock
        /\ \E spilt \in SUBSET batch, cut \in SUBSET Files : Partly(spilt, cut)
  /\ dropped' = dropped \cup InMemory
  /\ UNCHANGED <<offered, accepted, closed, rpc, canceled, draining>>
  /\ UNCHANGED <<topic, writerVars, failures>>

Restart ==
  /\ life = "exited"
  /\ life' = "up" /\ closed' = FALSE /\ canceled' = FALSE /\ draining' = FALSE
  /\ rpc' = "select"
  /\ UNCHANGED <<requestVars, queue, pending, batch>>
  /\ UNCHANGED <<fileVars, topic, writerVars, dropped, boundVars>>

-----------------------------------------------------------------------------
(* The ClickHouse writer *)

Fetched == SubSeq(topic, base + 1, position)

\* Mutant: one message more than there are.
Fetch_PastEnd ==
  /\ wpc = "fetch" /\ position <= Len(topic) /\ position - base < WriterBatchSize
  /\ position' = position + 1
  /\ wpc' = IF position + 1 - base = WriterBatchSize THEN "insert" ELSE "fetch"
  /\ UNCHANGED <<requestVars, serviceVars, fileVars, topic, offset, base, stored, dropped, boundVars>>

Fetch ==
  /\ wpc = "fetch" /\ position < Len(topic) /\ position - base < WriterBatchSize
  /\ position' = position + 1
  /\ wpc' = IF position + 1 - base = WriterBatchSize THEN "insert" ELSE "fetch"
  /\ UNCHANGED <<requestVars, serviceVars, fileVars, topic, offset, base, stored, dropped, boundVars>>

\* The time to wait is over, or the batch was full already.
FlushWriter ==
  /\ wpc = "fetch" /\ position > base
  /\ wpc' = "insert"
  /\ UNCHANGED <<requestVars, serviceVars, fileVars, topic, offset, base, position, stored>>
  /\ UNCHANGED <<dropped, boundVars>>

Insert ==
  /\ wpc = "insert"
  /\ stored' = stored \cup Range(Fetched)
  /\ wpc' = "commit"
  /\ UNCHANGED <<requestVars, serviceVars, fileVars, topic, offset, base, position>>
  /\ UNCHANGED <<dropped, boundVars>>

\* Mutant: an answer with an error status is taken for success.
InsertFails_Ignored ==
  /\ wpc = "insert" /\ Fails
  /\ wpc' = "commit"
  /\ UNCHANGED <<requestVars, serviceVars, fileVars, topic, offset, base, position, stored>>
  /\ UNCHANGED <<dropped, ends>>

\* The answer is an error or is lost; the batch is kept.
InsertFails ==
  /\ wpc = "insert" /\ Fails
  /\ stored' \in {stored, stored \cup Range(Fetched)}
  /\ wpc' = "fetch"
  /\ UNCHANGED <<requestVars, serviceVars, fileVars, topic, offset, base, position, dropped>>
  /\ UNCHANGED ends

CommitOffset ==
  /\ wpc = "commit"
  /\ offset' = position /\ base' = position /\ wpc' = "fetch"
  /\ UNCHANGED <<requestVars, serviceVars, fileVars, topic, position, stored, dropped, boundVars>>

CommitFails ==
  /\ wpc = "commit" /\ Fails
  /\ offset' \in {offset, position}
  /\ wpc' = "fetch"
  /\ UNCHANGED <<requestVars, serviceVars, fileVars, topic, base, position, stored, dropped>>
  /\ UNCHANGED ends

\* The writer is killed, or stopped by a signal, and starts again.
WriterRestart ==
  /\ Ends
  /\ base' = offset /\ position' = offset /\ wpc' = "fetch"
  /\ UNCHANGED <<requestVars, serviceVars, fileVars, topic, offset, stored, dropped>>
  /\ UNCHANGED <<failures>>

-----------------------------------------------------------------------------
Run == Receive \/ Tick \/ Cancelled \/ Finish \/ Publish \/ PublishFails \/ Spill \/ SpillFails

Replay == \/ ReplayOnce \/ ReplayPublish \/ ReplayPublishFails
          \/ ReplayTruncate \/ ReplayTruncateFails

Main == Signal \/ Shutdown \/ StopService \/ MainReturns \/ Exit \/ Crash \/ Restart

Writer == \/ Fetch \/ FlushWriter \/ Insert \/ InsertFails
          \/ CommitOffset \/ CommitFails \/ WriterRestart

Next ==
  \/ \E h \in Handlers : IngestSend(h) \/ \E events \in SUBSET Events : IngestLock(h, events)
  \/ Run \/ Replay \/ Main \/ Writer

Spec == Init /\ [][Next]_vars

\* Goroutines run, tickers tick, a process that was told to stop does, and containers
\* are started again; requests, signals and failures are nobody's duty.  The replay
\* goroutine owes nothing once the signal has come.
Fairness ==
  /\ WF_vars(Receive) /\ WF_vars(Tick) /\ WF_vars(Finish) /\ WF_vars(Publish) /\ WF_vars(Spill)
  /\ WF_vars(life = "up" /\ ReplayOnce) /\ WF_vars(ReplayPublish) /\ WF_vars(ReplayTruncate)
  /\ WF_vars(MainReturns) /\ WF_vars(Exit) /\ WF_vars(Restart)
  /\ WF_vars(Fetch) /\ WF_vars(FlushWriter) /\ WF_vars(Insert) /\ WF_vars(CommitOffset)

FairSpec == Spec /\ Fairness

-----------------------------------------------------------------------------
(* Properties *)

TypeOK ==
  /\ offered \subseteq Events /\ accepted \subseteq offered
  /\ ingest \in [Handlers -> SUBSET Events]
  /\ closed \in BOOLEAN /\ canceled \in BOOLEAN /\ draining \in BOOLEAN
  /\ queue \in Seq(SUBSET Events) /\ Len(queue) <= QueueSize
  /\ pending \subseteq Events /\ batch \subseteq Events
  /\ rpc \in {"select", "publish", "spill", "done"}
  /\ life \in {"up", "stopping", "returned", "exited"}
  /\ spool \in [Files -> SUBSET Events] /\ torn \subseteq Files
  /\ replay \in [file : Files, events : SUBSET Events, step : {"idle", "publish", "truncate"}]
  /\ topic \in Seq(Events)
  /\ offset \in Nat /\ base \in Nat /\ position \in 0..Len(topic)
  /\ wpc \in {"fetch", "insert", "commit"}
  /\ stored \subseteq Events /\ dropped \subseteq Events
  /\ failures \in Nat /\ ends \in Nat

\* An accepted event is on its way in the process, in a fallback file or in the topic,
\* unless the process ended with it in memory or the disk refused it: it is not lost
\* while publishing fails half-way, nor while a file is replayed and written to at once.
NothingLost == accepted \subseteq InMemory \cup Durable \cup dropped

\* Nobody sends on a closed channel, which would end the process: closeQueue waits for
\* requests that have already seen the service open.
NoSendOnClosed == closed => \A h \in Handlers : ingest[h] = {}

\* When run() is done, which Service.Shutdown waits for, nothing accepted is left in the
\* process, whatever requests were under way when it was closed ("drains queued events
\* before returning").
DoneIsDrained == rpc = "done" => InMemory = {}

\* What the group has committed is in ClickHouse ("commits Kafka offsets only after
\* ClickHouse insert succeeds"), over failed inserts, failed commits and restarts.
CommittedStored == \A i \in 1..offset : topic[i] \in stored

\* Once Kafka, ClickHouse and the disk work, an accepted event reaches ClickHouse, or
\* was dropped for one of the reasons above, or stays in the fallback files because a
\* line that a crash has cut keeps them from being replayed.
AcceptedStored ==
  \A e \in Events :
    e \in accepted ~> e \in stored \cup dropped \/ (torn # {} /\ e \in UNION Range(spool))

\* A readable event in a fallback file is published once Kafka works: "ReplayOnce
\* publishes each temporary file back to Kafka and clears it on success".
SpooledReplayed ==
  \A e \in Events \ Long : e \in UNION Range(spool) ~> e \in Range(topic)
=============================================================================
