-------------------------- MODULE LogPipelineProofs --------------------------
(***************************************************************************)
(* No accepted log event is lost without a crash or a disk that refuses    *)
(* it, and what the writer has committed is in ClickHouse.  For any finite *)
(* number of events, any number of requests, any sizes of the queue and    *)
(* the batches, and any number of failures and ends of the processes.      *)
(***************************************************************************)
EXTENDS LogPipeline, FiniteSetTheorems, TLAPS

\* Requests: what one is about to enqueue has been offered, and the service is open.
RequestInv ==
  /\ offered \subseteq Events /\ accepted \subseteq offered
  /\ ingest \in [Handlers -> SUBSET Events]
  /\ \A h \in Handlers : ingest[h] \subseteq offered
  /\ NoSendOnClosed

FlagsInv == closed \in BOOLEAN /\ canceled \in BOOLEAN /\ draining \in BOOLEAN

\* run(): there is a batch only while it is written, and nothing is left when it is done
\* or the process is gone.
ServiceInv ==
  /\ queue \in Seq(SUBSET Events) /\ Len(queue) <= QueueSize
  /\ pending \subseteq Events /\ batch \subseteq Events
  /\ rpc \in {"select", "publish", "spill", "done"}
  /\ life \in {"up", "stopping", "returned", "exited"}
  /\ rpc = "select" => batch = {}
  /\ life = "exited" => queue = <<>> /\ pending = {} /\ batch = {}
  /\ rpc = "done" => closed /\ queue = <<>> /\ pending = {} /\ batch = {}

\* The fallback files: the file under replay does not change, and all that is truncated
\* is on the topic.
FileInv ==
  /\ spool \in [Files -> SUBSET Events] /\ torn \subseteq Files
  /\ replay \in [file : Files, events : SUBSET Events, step : {"idle", "publish", "truncate"}]
  /\ replay.step # "idle" => replay.events = spool[replay.file]
  /\ replay.step = "truncate" => replay.events \subseteq Range(topic)

\* The writer: everything before its batch is in ClickHouse, and its batch is when it
\* goes to commit.
WriterInv ==
  /\ topic \in Seq(Events)
  /\ offset \in Nat /\ base \in Nat /\ position \in Nat
  /\ offset <= Len(topic) /\ base <= position /\ position <= Len(topic)
  /\ wpc \in {"fetch", "insert", "commit"} /\ stored \subseteq Events
  /\ \A i \in 1..base : topic[i] \in stored
  /\ wpc = "commit" => \A i \in 1..position : topic[i] \in stored
  /\ CommittedStored

BoundInv == dropped \subseteq Events /\ failures \in Nat /\ ends \in Nat

LogInv == /\ RequestInv /\ FlagsInv /\ ServiceInv /\ FileInv /\ WriterInv /\ BoundInv
          /\ NothingLost

-----------------------------------------------------------------------------
(* Operators the specification is built from *)

\* SetToSeq lists a finite set, all of it.
LEMMA SetToSeqLists ==
  ASSUME NEW S, IsFiniteSet(S)
  PROVE  SetToSeq(S) \in Seq(S) /\ Range(SetToSeq(S)) = S
<1> DEFINE n == Cardinality(S)
           f == SetToSeq(S)
<1>1. n \in Nat /\ ExistsBijection(1..n, S)
  BY FS_CardinalityType
<1>2. \E g \in [1..n -> S] : IsInjective(g)
  BY <1>1 DEF ExistsBijection, Bijection, Injection, IsInjective
<1>3. f \in [1..n -> S] /\ IsInjective(f)
  BY <1>2 DEF SetToSeq
<1>4. f \in Injection(1..n, S)
  BY <1>3 DEF Injection
<1>5. Cardinality(1..n) = n
  BY <1>1, FS_Interval
<1> HIDE DEF n, f
<1>6. f \in Surjection(1..n, S)
  BY <1>4, <1>5, FS_Injection DEF n
<1>7. Range(f) = S
  BY <1>3, <1>6 DEF Surjection, Range
<1>8. f \in Seq(S)
  BY <1>1, <1>3
<1>9. QED
  BY <1>7, <1>8 DEF f

\* The elements of a sequence.
LEMMA InRange ==
  ASSUME NEW S, NEW s \in Seq(S)
  PROVE  \A e : e \in Range(s) <=> \E i \in 1..Len(s) : e = s[i]
BY DEF Range

LEMMA RangeAppend ==
  ASSUME NEW S, NEW s \in Seq(S), NEW x \in S
  PROVE  Range(s) \subseteq Range(Append(s, x)) /\ x \in Range(Append(s, x))
<1>1. Append(s, x) \in Seq(S) /\ Len(Append(s, x)) = Len(s) + 1 /\ Len(s) \in Nat
      /\ Append(s, x)[Len(s) + 1] = x /\ \A i \in 1..Len(s) : Append(s, x)[i] = s[i]
  OBVIOUS
<1>2. Len(s) + 1 \in 1..Len(Append(s, x)) /\ \A i \in 1..Len(s) : i \in 1..Len(Append(s, x))
  BY <1>1
<1>3. x \in Range(Append(s, x))
  BY <1>1, <1>2, InRange
<1>4. ASSUME NEW e \in Range(s) PROVE e \in Range(Append(s, x))
  <2>1. PICK i \in 1..Len(s) : e = s[i]
    BY InRange
  <2>2. i \in 1..Len(Append(s, x)) /\ e = Append(s, x)[i]
    BY <1>1, <1>2, <2>1
  <2>3. QED
    BY <1>1, <2>2, InRange
<1>5. QED
  BY <1>3, <1>4

LEMMA RangeHeadTail ==
  ASSUME NEW S, NEW s \in Seq(S), s # <<>>
  PROVE  /\ Head(s) \in S /\ Tail(s) \in Seq(S) /\ Len(Tail(s)) = Len(s) - 1
         /\ Range(s) \subseteq {Head(s)} \cup Range(Tail(s))
<1>1. Head(s) \in S /\ Head(s) = s[1] /\ Tail(s) \in Seq(S) /\ Len(Tail(s)) = Len(s) - 1
      /\ Len(s) \in Nat /\ \A i \in 1..Len(Tail(s)) : Tail(s)[i] = s[i + 1]
  OBVIOUS
<1>2. ASSUME NEW e \in Range(s) PROVE e \in {Head(s)} \cup Range(Tail(s))
  <2>1. PICK i \in 1..Len(s) : e = s[i]
    BY InRange
  <2>2. CASE i = 1
    BY <1>1, <2>1, <2>2
  <2>3. CASE i # 1
    <3>1. i - 1 \in 1..Len(Tail(s)) /\ Tail(s)[i - 1] = s[i]
      BY <1>1, <2>3
    <3>2. QED
      BY <1>1, <2>1, <3>1, InRange
  <2>4. QED
    BY <2>2, <2>3
<1>3. QED
  BY <1>1, <1>2

\* What is appended to the topic, and that the topic is only appended to.
TopicGrows ==
  /\ topic' \in Seq(Events) /\ Len(topic) <= Len(topic')
  /\ \A i \in 1..Len(topic) : topic'[i] = topic[i]

LEMMA Appended ==
  ASSUME topic \in Seq(Events), NEW events \in SUBSET Events, topic' = topic \o SetToSeq(events)
  PROVE  TopicGrows /\ Range(topic) \subseteq Range(topic') /\ events \subseteq Range(topic')
<1>1. PICK t \in Seq(Events) : t = SetToSeq(events) /\ Range(t) = events
  <2>1. IsFiniteSet(events)
    BY PipelineAssumption, FS_Subset
  <2>2. SetToSeq(events) \in Seq(events) /\ Range(SetToSeq(events)) = events
    BY <2>1, SetToSeqLists
  <2>3. SetToSeq(events) \in Seq(Events)
    BY <2>2
  <2>4. QED
    BY <2>2, <2>3
<1>2. topic' = topic \o t
  BY <1>1
<1>3. topic' \in Seq(Events) /\ Len(topic') = Len(topic) + Len(t) /\ Len(topic) \in Nat
      /\ Len(t) \in Nat /\ (\A i \in 1..Len(topic) : topic'[i] = topic[i])
      /\ \A i \in 1..Len(t) : topic'[Len(topic) + i] = t[i]
  BY <1>2
<1>4. TopicGrows
  BY <1>3 DEF TopicGrows
<1>5. ASSUME NEW e \in Range(topic) PROVE e \in Range(topic')
  <2>1. PICK i \in 1..Len(topic) : e = topic[i]
    BY InRange
  <2>2. i \in 1..Len(topic') /\ e = topic'[i]
    BY <1>3, <2>1
  <2>3. QED
    BY <1>3, <2>2, InRange
<1>6. ASSUME NEW e \in events PROVE e \in Range(topic')
  <2>1. PICK i \in 1..Len(t) : e = t[i]
    BY <1>1, InRange
  <2>2. Len(topic) + i \in 1..Len(topic') /\ e = topic'[Len(topic) + i]
    BY <1>3, <2>1
  <2>3. QED
    BY <1>3, <2>2, InRange
<1>7. QED
  BY <1>4, <1>5, <1>6

\* The events in the fallback files.
LEMMA InSpool ==
  /\ spool \in [Files -> SUBSET Events] =>
       \A e : e \in UNION Range(spool) <=> \E f \in Files : e \in spool[f]
  /\ spool' \in [Files -> SUBSET Events] =>
       \A e : e \in UNION Range(spool') <=> \E f \in Files : e \in spool'[f]
<1>1. ASSUME NEW g \in [Files -> SUBSET Events]
      PROVE  \A e : e \in UNION Range(g) <=> \E f \in Files : e \in g[f]
  BY DEF Range
<1>2. QED
  BY <1>1

-----------------------------------------------------------------------------
(* What a step leaves alone *)

\* Everything that is somewhere.
Kept == InMemory \cup Durable \cup dropped

\* Nothing is lost when all that was somewhere still is.
LEMMA StillKept ==
  ASSUME NothingLost, Kept \subseteq Kept', accepted' \subseteq accepted \cup Kept'
  PROVE  NothingLost'
BY DEF NothingLost, Kept

\* The writer does not notice that the topic grows.
LEMMA WriterStays ==
  ASSUME LogInv, TopicGrows, UNCHANGED writerVars
  PROVE  WriterInv'
<1>1. Len(topic) \in Nat /\ Len(topic') \in Nat /\ topic \in Seq(Events)
  BY DEF LogInv, WriterInv, TopicGrows
<1>2. \A i \in 1..Len(topic) : topic'[i] = topic[i]
  BY DEF TopicGrows
<1>3. /\ \A i \in 1..base : i \in 1..Len(topic)
      /\ \A i \in 1..position : i \in 1..Len(topic)
      /\ \A i \in 1..offset : i \in 1..Len(topic)
  BY <1>1 DEF LogInv, WriterInv
<1>4. offset <= Len(topic') /\ position <= Len(topic')
  BY <1>1 DEF LogInv, WriterInv, TopicGrows
<1>5. QED
  BY <1>2, <1>3, <1>4 DEF LogInv, WriterInv, CommittedStored, writerVars, TopicGrows

LEMMA TopicStays ==
  ASSUME LogInv, UNCHANGED topic
  PROVE  TopicGrows
BY DEF LogInv, WriterInv, TopicGrows

LEMMA Typed ==
  ASSUME LogInv
  PROVE  /\ topic \in Seq(Events) /\ queue \in Seq(SUBSET Events) /\ Len(queue) \in Nat
         /\ pending \subseteq Events /\ batch \subseteq Events /\ InMemory \subseteq Events
         /\ spool \in [Files -> SUBSET Events] /\ replay.events \subseteq Events
         /\ replay.file \in Files /\ Len(topic) \in Nat /\ QueueSize \in Nat
<1>1. queue \in Seq(SUBSET Events) /\ pending \subseteq Events /\ batch \subseteq Events
      /\ topic \in Seq(Events)
  BY DEF LogInv, ServiceInv, WriterInv
<1>2. UNION Range(queue) \subseteq Events
  <2>1. \A x \in Range(queue) : x \subseteq Events
    BY <1>1, InRange
  <2>2. QED
    BY <2>1
<1>3. QED
  BY <1>1, <1>2, PipelineAssumption DEF InMemory, LogInv, FileInv

-----------------------------------------------------------------------------
(* Service.Ingest *)

LEMMA IngestLockStep ==
  ASSUME LogInv, NEW h \in Handlers, NEW events \in SUBSET Events, IngestLock(h, events)
  PROVE  LogInv'
<1>1. RequestInv'
  BY DEF LogInv, RequestInv, NoSendOnClosed, IngestLock, serviceVars
<1>2. FlagsInv'
  BY Zenon DEF LogInv, FlagsInv, IngestLock, serviceVars
<1>3. ServiceInv' /\ FileInv' /\ BoundInv'
  BY DEF LogInv, ServiceInv, FileInv, BoundInv, IngestLock, serviceVars, fileVars, boundVars
<1>4. WriterInv'
  BY WriterStays, TopicStays DEF IngestLock
<1>5. NothingLost'
  BY DEF LogInv, NothingLost, InMemory, Durable, IngestLock, serviceVars, fileVars
<1>6. QED
  BY <1>1, <1>2, <1>3, <1>4, <1>5 DEF LogInv

\* A request that sends has found the service open, so run() is not done.
LEMMA IngestSendStep ==
  ASSUME LogInv, NEW h \in Handlers, IngestSend(h)
  PROVE  LogInv'
<1>1. ingest[h] \in SUBSET Events /\ ingest[h] \subseteq offered /\ ~ closed /\ life # "exited"
  BY DEF LogInv, RequestInv, NoSendOnClosed, IngestSend, Alive
<1>2. RequestInv'
  BY <1>1 DEF LogInv, RequestInv, NoSendOnClosed, IngestSend
<1>3. FlagsInv'
  BY Zenon DEF LogInv, FlagsInv, IngestSend
<1>4. queue' \in Seq(SUBSET Events) /\ Len(queue') <= QueueSize
  <2>1. CASE Len(queue) < QueueSize /\ queue' = Append(queue, ingest[h])
    BY <1>1, <2>1, Typed
  <2>2. CASE queue' = queue
    BY <2>2 DEF LogInv, ServiceInv
  <2>3. QED
    BY <2>1, <2>2 DEF IngestSend
<1>5. ServiceInv'
  BY <1>1, <1>4 DEF LogInv, ServiceInv, IngestSend
<1>6. FileInv' /\ BoundInv'
  BY DEF LogInv, FileInv, BoundInv, IngestSend, fileVars, boundVars
<1>7. WriterInv'
  BY WriterStays, TopicStays DEF IngestSend
<1>8. NothingLost'
  <2>1. UNCHANGED <<pending, batch, Durable, dropped>>
    BY DEF IngestSend, Durable, fileVars
  <2>2. CASE queue' = Append(queue, ingest[h]) /\ accepted' = accepted \cup ingest[h]
    <3>1. Range(queue) \subseteq Range(queue') /\ ingest[h] \in Range(queue')
      BY <1>1, <2>2, Typed, RangeAppend
    <3>2. InMemory \subseteq InMemory' /\ ingest[h] \subseteq InMemory'
      BY <2>1, <3>1 DEF InMemory
    <3>3. QED
      BY <2>1, <2>2, <3>2 DEF LogInv, NothingLost
  <2>3. CASE UNCHANGED <<queue, accepted>>
    BY <2>1, <2>3 DEF LogInv, NothingLost, InMemory
  <2>4. QED
    BY <2>2, <2>3 DEF IngestSend
<1>9. QED
  BY <1>2, <1>3, <1>5, <1>6, <1>7, <1>8 DEF LogInv

-----------------------------------------------------------------------------
(* Service.run *)

\* A step of run() that touches neither requests nor files nor the topic.
LEMMA RunSide ==
  ASSUME LogInv, UNCHANGED <<requestVars, closed, canceled, draining, fileVars, topic, writerVars,
                             boundVars, dropped>>,
         ServiceInv', InMemory \subseteq InMemory'
  PROVE  LogInv'
<1>1. RequestInv'
  BY DEF LogInv, RequestInv, NoSendOnClosed, requestVars
<1>2. FlagsInv'
  BY Zenon DEF LogInv, FlagsInv
<1>3. FileInv' /\ BoundInv'
  BY DEF LogInv, FileInv, BoundInv, fileVars, boundVars
<1>4. WriterInv'
  BY WriterStays, TopicStays
<1>5. NothingLost'
  BY DEF LogInv, NothingLost, Durable, requestVars, fileVars
<1>6. QED
  BY <1>1, <1>2, <1>3, <1>4, <1>5 DEF LogInv

LEMMA ReceiveStep ==
  ASSUME LogInv, Receive
  PROVE  LogInv'
<1> DEFINE events == pending \cup Head(queue)
<1>1. /\ Head(queue) \in SUBSET Events /\ Tail(queue) \in Seq(SUBSET Events)
      /\ Len(Tail(queue)) = Len(queue) - 1
      /\ Range(queue) \subseteq {Head(queue)} \cup Range(Tail(queue))
  BY Typed, RangeHeadTail DEF Receive
<1>2. queue' = Tail(queue) /\ rpc = "select" /\ batch = {} /\ life # "exited" /\ UNCHANGED <<life, closed>>
  BY DEF Receive, LogInv, ServiceInv, Alive
<1>3. \/ batch' = events /\ pending' = {} /\ rpc' \in {"select", "publish"}
         /\ (events = {} \/ rpc' = "publish")
      \/ pending' = events /\ UNCHANGED <<batch, rpc>>
  BY DEF Receive, Flush
<1>4. Len(queue') <= QueueSize
  BY <1>1, <1>2, Typed DEF LogInv, ServiceInv
<1> HIDE DEF events
<1>5. events \subseteq Events
  BY <1>1, Typed DEF events
<1>6. ServiceInv'
  BY <1>1, <1>2, <1>3, <1>4, <1>5 DEF LogInv, ServiceInv
<1>7. InMemory \subseteq InMemory'
  <2>1. InMemory \subseteq events \cup (UNION Range(queue'))
    BY <1>1, <1>2 DEF InMemory, events
  <2>2. events \subseteq pending' \cup batch'
    BY <1>3
  <2>3. QED
    BY <2>1, <2>2 DEF InMemory
<1>8. QED
  BY <1>6, <1>7, RunSide DEF Receive

LEMMA TickStep ==
  ASSUME LogInv, Tick
  PROVE  LogInv'
<1>1. ServiceInv'
  BY DEF Tick, Flush, LogInv, ServiceInv, Alive
<1>2. InMemory \subseteq InMemory'
  BY DEF Tick, Flush, InMemory, LogInv, ServiceInv
<1>3. QED
  BY <1>1, <1>2, RunSide DEF Tick

LEMMA FinishStep ==
  ASSUME LogInv, Finish
  PROVE  LogInv'
<1>1. ServiceInv'
  BY DEF Finish, Flush, LogInv, ServiceInv, Alive
<1>2. InMemory \subseteq InMemory'
  BY DEF Finish, Flush, InMemory, LogInv, ServiceInv
<1>3. QED
  BY <1>1, <1>2, RunSide DEF Finish

\* A step in the life of the process that moves no event.
LEMMA LifeSide ==
  ASSUME LogInv, UNCHANGED <<requestVars, queue, pending, batch, fileVars, topic, writerVars,
                             failures, dropped>>,
         FlagsInv', ServiceInv', NoSendOnClosed', ends' \in Nat
  PROVE  LogInv'
<1>1. RequestInv'
  BY DEF LogInv, RequestInv, requestVars
<1>2. FileInv' /\ BoundInv'
  BY DEF LogInv, FileInv, BoundInv, fileVars
<1>3. WriterInv'
  BY WriterStays, TopicStays
<1>4. NothingLost'
  BY DEF LogInv, NothingLost, InMemory, Durable, requestVars, fileVars
<1>5. QED
  BY <1>1, <1>2, <1>3, <1>4 DEF LogInv

LEMMA CancelledStep ==
  ASSUME LogInv, Cancelled
  PROVE  LogInv'
<1>1. FlagsInv'
  BY Zenon DEF LogInv, FlagsInv, Cancelled
<1>2. ServiceInv' /\ NoSendOnClosed' /\ ends' \in Nat
  BY DEF Cancelled, LogInv, ServiceInv, BoundInv, NoSendOnClosed, WriteLock, requestVars, boundVars
<1>3. QED
  BY <1>1, <1>2, LifeSide DEF Cancelled, boundVars

LEMMA SignalStep ==
  ASSUME LogInv, Signal
  PROVE  LogInv'
<1>1. FlagsInv'
  BY Zenon DEF LogInv, FlagsInv, Signal
<1>2. ServiceInv' /\ NoSendOnClosed' /\ ends' \in Nat
  BY DEF Signal, Ends, LogInv, RequestInv, ServiceInv, BoundInv, NoSendOnClosed, requestVars
<1>3. QED
  BY <1>1, <1>2, LifeSide DEF Signal

LEMMA ShutdownStep ==
  ASSUME LogInv, Shutdown
  PROVE  LogInv'
<1>1. FlagsInv'
  BY Zenon DEF LogInv, FlagsInv, Shutdown
<1>2. ServiceInv' /\ NoSendOnClosed' /\ ends' \in Nat
  BY DEF Shutdown, LogInv, ServiceInv, BoundInv, NoSendOnClosed, WriteLock, requestVars, boundVars
<1>3. QED
  BY <1>1, <1>2, LifeSide DEF Shutdown, boundVars

LEMMA StopServiceStep ==
  ASSUME LogInv, StopService
  PROVE  LogInv'
<1>1. FlagsInv'
  BY Zenon DEF LogInv, FlagsInv, StopService
<1>2. ServiceInv' /\ NoSendOnClosed' /\ ends' \in Nat
  BY DEF StopService, LogInv, RequestInv, ServiceInv, BoundInv, NoSendOnClosed, requestVars, boundVars
<1>3. QED
  BY <1>1, <1>2, LifeSide DEF StopService, boundVars

LEMMA MainReturnsStep ==
  ASSUME LogInv, MainReturns
  PROVE  LogInv'
<1>1. FlagsInv'
  BY Zenon DEF LogInv, FlagsInv, MainReturns
<1>2. ServiceInv' /\ NoSendOnClosed' /\ ends' \in Nat
  BY DEF MainReturns, LogInv, RequestInv, ServiceInv, BoundInv, NoSendOnClosed, requestVars, boundVars
<1>3. QED
  BY <1>1, <1>2, LifeSide DEF MainReturns, boundVars

LEMMA RestartStep ==
  ASSUME LogInv, Restart
  PROVE  LogInv'
<1>1. FlagsInv'
  BY Zenon DEF LogInv, FlagsInv, Restart
<1>2. ServiceInv' /\ NoSendOnClosed' /\ ends' \in Nat
  BY DEF Restart, LogInv, ServiceInv, BoundInv, NoSendOnClosed, boundVars
<1>3. QED
  BY <1>1, <1>2, LifeSide DEF Restart, boundVars

\* A step that moves events out of the batch and out of the files, or only copies them.
LEMMA MovesEvents ==
  ASSUME LogInv, UNCHANGED <<requestVars, closed, canceled, draining, life, queue, pending,
                             writerVars>>,
         TopicGrows, ServiceInv', FileInv', BoundInv',
         batch \cup Durable \cup dropped \subseteq batch' \cup Durable' \cup dropped'
  PROVE  LogInv'
<1>1. RequestInv'
  BY DEF LogInv, RequestInv, NoSendOnClosed, requestVars
<1>2. FlagsInv'
  BY Zenon DEF LogInv, FlagsInv
<1>3. WriterInv'
  BY WriterStays
<1>4. NothingLost'
  <2>1. Kept \subseteq Kept'
    BY DEF Kept, InMemory
  <2>2. QED
    BY <2>1, StillKept DEF LogInv, requestVars
<1>5. QED
  BY <1>1, <1>2, <1>3, <1>4 DEF LogInv

\* The topic grows, and the files do not change.
LEMMA FilesStay ==
  ASSUME LogInv, UNCHANGED fileVars, Range(topic) \subseteq Range(topic')
  PROVE  FileInv' /\ Durable \subseteq Durable'
BY DEF LogInv, FileInv, fileVars, Durable

LEMMA PublishStep ==
  ASSUME LogInv, Publish
  PROVE  LogInv'
<1>1. TopicGrows /\ Range(topic) \subseteq Range(topic') /\ batch \subseteq Range(topic')
  BY Appended, Typed DEF Publish
<1>2. FileInv' /\ Durable \subseteq Durable'
  BY <1>1, FilesStay DEF Publish
<1>3. ServiceInv' /\ BoundInv'
  BY DEF Publish, LogInv, ServiceInv, BoundInv, boundVars
<1>4. batch \subseteq Durable'
  BY <1>1 DEF Durable
<1>5. QED
  BY <1>1, <1>2, <1>3, <1>4, MovesEvents DEF Publish

LEMMA PublishFailsStep ==
  ASSUME LogInv, PublishFails
  PROVE  LogInv'
<1>1. PICK events \in SUBSET batch : topic' = topic \o SetToSeq(events)
  BY DEF PublishFails
<1>2. TopicGrows /\ Range(topic) \subseteq Range(topic')
  BY <1>1, Appended, Typed
<1>3. FileInv' /\ Durable \subseteq Durable'
  BY <1>2, FilesStay DEF PublishFails
<1>4. ServiceInv' /\ BoundInv'
  BY DEF PublishFails, LogInv, ServiceInv, BoundInv, Fails
<1>5. QED
  BY <1>2, <1>3, <1>4, MovesEvents DEF PublishFails

-----------------------------------------------------------------------------
(* KafkaFallbackStore *)

\* Lines that are added to the files, under the store's mutex.
LEMMA FilesGrow ==
  ASSUME LogInv, NEW events \in SUBSET Events,
         spool' = [f \in Files |-> spool[f] \cup Lines(events, f)]
  PROVE  /\ spool' \in [Files -> SUBSET Events]
         /\ (UNION Range(spool)) \cup events \subseteq UNION Range(spool')
<1>1. \A f \in Files : spool'[f] = spool[f] \cup Lines(events, f)
  OBVIOUS
<1>2. spool' \in [Files -> SUBSET Events]
  BY Typed DEF Lines
<1>3. \A e \in events : FileOf(e) \in Files /\ e \in spool'[FileOf(e)]
  BY <1>1 DEF FileOf, Files, Lines
<1>4. ASSUME NEW e \in (UNION Range(spool)) \cup events PROVE e \in UNION Range(spool')
  <2>1. \E f \in Files : e \in spool'[f]
    <3>1. CASE e \in events
      BY <1>3, <3>1
    <3>2. CASE e \in UNION Range(spool)
      BY <1>1, <3>2, InSpool, Typed
    <3>3. QED
      BY <3>1, <3>2
  <2>2. QED
    BY <1>2, <2>1, InSpool
<1>5. QED
  BY <1>2, <1>4

LEMMA SpillStep ==
  ASSUME LogInv, Spill
  PROVE  LogInv'
<1>1. /\ spool' \in [Files -> SUBSET Events]
      /\ (UNION Range(spool)) \cup batch \subseteq UNION Range(spool')
  BY FilesGrow, Typed DEF Spill
<1>2. FileInv'
  BY <1>1 DEF LogInv, FileInv, Spill, StoreLock
<1>3. ServiceInv' /\ BoundInv'
  BY DEF Spill, LogInv, ServiceInv, BoundInv, boundVars
<1>4. batch \cup Durable \subseteq Durable'
  BY <1>1 DEF Spill, Durable
<1>5. QED
  BY <1>2, <1>3, <1>4, MovesEvents, TopicStays DEF Spill

LEMMA SpillFailsStep ==
  ASSUME LogInv, SpillFails
  PROVE  LogInv'
<1>1. PICK spilt \in SUBSET batch :
        \E cut \in SUBSET Files : Partly(spilt, cut) /\ dropped' = dropped \cup (batch \ spilt)
  BY DEF SpillFails
<1>2. /\ spool' \in [Files -> SUBSET Events] /\ torn' \subseteq Files
      /\ (UNION Range(spool)) \cup spilt \subseteq UNION Range(spool')
      /\ dropped' = dropped \cup (batch \ spilt)
  BY <1>1, FilesGrow, Typed DEF Partly, LogInv, FileInv
<1>3. FileInv'
  BY <1>2 DEF LogInv, FileInv, SpillFails, StoreLock
<1>4. ServiceInv' /\ BoundInv'
  BY <1>2 DEF SpillFails, LogInv, ServiceInv, BoundInv, Fails
<1>5. spilt \cup Durable \subseteq Durable'
  BY <1>2 DEF SpillFails, Durable
<1>6. batch \cup Durable \cup dropped \subseteq batch' \cup Durable' \cup dropped'
  BY <1>2, <1>5
<1>7. QED
  BY <1>3, <1>4, <1>6, MovesEvents, TopicStays DEF SpillFails

Replays == [file : Files, events : SUBSET Events, step : {"idle", "publish", "truncate"}]

\* The replay has read what is in the file, or does nothing.
LEMMA ReadFileIs ==
  ASSUME LogInv, NEW f \in Files
  PROVE  /\ ReadFile(f) \in Replays /\ NoReplay \in Replays /\ NoReplay.step = "idle"
         /\ ReadFile(f).step # "truncate"
         /\ ReadFile(f).step # "idle" => ReadFile(f).file = f /\ ReadFile(f).events = spool[f]
BY Typed DEF ReadFile, NoReplay, Replays, Files

LEMMA ReplayOnceStep ==
  ASSUME LogInv, ReplayOnce
  PROVE  LogInv'
<1>1. PICK f \in Files : replay' = ReadFile(f)
  BY DEF ReplayOnce, Files
<1>2. FileInv'
  BY <1>1, ReadFileIs DEF LogInv, FileInv, ReplayOnce, Replays
<1>3. ServiceInv' /\ BoundInv'
  BY DEF ReplayOnce, LogInv, ServiceInv, BoundInv, serviceVars, boundVars
<1>4. batch \cup Durable \cup dropped \subseteq batch' \cup Durable' \cup dropped'
  BY DEF ReplayOnce, serviceVars, Durable
<1>5. QED
  BY <1>2, <1>3, <1>4, MovesEvents, TopicStays DEF ReplayOnce, serviceVars

LEMMA ReplayPublishStep ==
  ASSUME LogInv, ReplayPublish
  PROVE  LogInv'
<1>1. TopicGrows /\ Range(topic) \subseteq Range(topic') /\ replay.events \subseteq Range(topic')
  BY Appended, Typed DEF ReplayPublish
<1>2. replay \in Replays /\ replay' \in Replays /\ replay'.file = replay.file
      /\ replay'.events = replay.events /\ replay'.step = "truncate" /\ replay.step = "publish"
  BY DEF ReplayPublish, LogInv, FileInv, Replays
<1>3. FileInv'
  BY <1>1, <1>2 DEF LogInv, FileInv, ReplayPublish, Replays
<1>4. ServiceInv' /\ BoundInv'
  BY DEF ReplayPublish, LogInv, ServiceInv, BoundInv, serviceVars, boundVars
<1>5. batch \cup Durable \cup dropped \subseteq batch' \cup Durable' \cup dropped'
  BY <1>1 DEF ReplayPublish, serviceVars, Durable
<1>6. QED
  BY <1>1, <1>3, <1>4, <1>5, MovesEvents DEF ReplayPublish, serviceVars

LEMMA ReplayPublishFailsStep ==
  ASSUME LogInv, ReplayPublishFails
  PROVE  LogInv'
<1>1. PICK events \in SUBSET replay.events : topic' = topic \o SetToSeq(events)
  BY DEF ReplayPublishFails
<1>2. TopicGrows /\ Range(topic) \subseteq Range(topic')
  BY <1>1, Appended, Typed
<1>3. FileInv'
  BY ReadFileIs DEF LogInv, FileInv, ReplayPublishFails, Replays, Files
<1>4. ServiceInv' /\ BoundInv'
  BY DEF ReplayPublishFails, LogInv, ServiceInv, BoundInv, serviceVars, Fails
<1>5. batch \cup Durable \cup dropped \subseteq batch' \cup Durable' \cup dropped'
  BY <1>2 DEF ReplayPublishFails, serviceVars, Durable
<1>6. QED
  BY <1>2, <1>3, <1>4, <1>5, MovesEvents DEF ReplayPublishFails, serviceVars

\* All that is truncated is on the topic: nobody has written to the file since it was read.
LEMMA ReplayTruncateStep ==
  ASSUME LogInv, ReplayTruncate
  PROVE  LogInv'
<1>1. replay.file \in Files /\ spool[replay.file] \subseteq Range(topic)
  BY DEF ReplayTruncate, LogInv, FileInv
<1>2. spool' \in [Files -> SUBSET Events] /\ spool'[replay.file] = {}
      /\ \A f \in Files : f # replay.file => spool'[f] = spool[f]
  BY <1>1, Typed DEF ReplayTruncate
<1>3. FileInv'
  <2>1. CASE replay.file = Regular /\ replay' = ReadFile(ErrorAudit)
    <3>1. ErrorAudit \in Files /\ spool'[ErrorAudit] = spool[ErrorAudit]
      BY <1>2, <2>1 DEF Files, Regular, ErrorAudit
    <3>2. /\ replay' \in Replays /\ replay'.step # "truncate"
          /\ replay'.step # "idle" => replay'.events = spool'[replay'.file]
      BY <2>1, <3>1, ReadFileIs
    <3>3. torn' \subseteq Files
      BY DEF LogInv, FileInv, ReplayTruncate
    <3>4. QED
      BY <1>2, <3>2, <3>3 DEF FileInv, Replays
  <2>2. CASE replay' = NoReplay
    BY <1>2, <2>2, ReadFileIs DEF LogInv, FileInv, ReplayTruncate, Replays, Files
  <2>3. QED
    BY <2>1, <2>2 DEF ReplayTruncate
<1>4. ServiceInv' /\ BoundInv'
  BY DEF ReplayTruncate, LogInv, ServiceInv, BoundInv, serviceVars, boundVars
<1>5. Durable \subseteq Durable'
  <2>1. ASSUME NEW e \in UNION Range(spool) PROVE e \in Durable'
    <3>1. PICK f \in Files : e \in spool[f]
      BY InSpool, Typed
    <3>2. CASE f = replay.file
      BY <1>1, <3>1, <3>2 DEF ReplayTruncate, Durable
    <3>3. CASE f # replay.file
      BY <1>2, <3>1, <3>3, InSpool DEF Durable
    <3>4. QED
      BY <3>2, <3>3
  <2>2. Range(topic) \subseteq Durable'
    BY DEF ReplayTruncate, Durable
  <2>3. QED
    BY <2>1, <2>2 DEF Durable
<1>6. QED
  BY <1>3, <1>4, <1>5, MovesEvents, TopicStays DEF ReplayTruncate, serviceVars

LEMMA ReplayTruncateFailsStep ==
  ASSUME LogInv, ReplayTruncateFails
  PROVE  LogInv'
<1>1. FileInv'
  BY ReadFileIs DEF LogInv, FileInv, ReplayTruncateFails, Replays, Files
<1>2. ServiceInv' /\ BoundInv'
  BY DEF ReplayTruncateFails, LogInv, ServiceInv, BoundInv, serviceVars, Fails
<1>3. batch \cup Durable \cup dropped \subseteq batch' \cup Durable' \cup dropped'
  BY DEF ReplayTruncateFails, serviceVars, Durable
<1>4. QED
  BY <1>1, <1>2, <1>3, MovesEvents, TopicStays DEF ReplayTruncateFails, serviceVars

-----------------------------------------------------------------------------
(* The end of the process *)

\* What was in memory is dropped; the files may have grown.
LEMMA EndOfProcess ==
  ASSUME LogInv, MemoryLost, dropped' = dropped \cup InMemory,
         UNCHANGED <<offered, accepted, closed, rpc, canceled, draining, topic, writerVars, failures>>,
         spool' \in [Files -> SUBSET Events], torn' \subseteq Files,
         UNION Range(spool) \subseteq UNION Range(spool'), ends' \in Nat
  PROVE  LogInv'
<1>1. RequestInv'
  BY DEF LogInv, RequestInv, NoSendOnClosed, MemoryLost
<1>2. FlagsInv'
  BY Zenon DEF LogInv, FlagsInv
<1>3. ServiceInv'
  BY PipelineAssumption DEF LogInv, ServiceInv, MemoryLost
<1>4. FileInv'
  BY ReadFileIs DEF LogInv, FileInv, MemoryLost, Replays, Files
<1>5. WriterInv'
  BY WriterStays, TopicStays
<1>6. BoundInv'
  BY Typed DEF LogInv, BoundInv
<1>7. NothingLost'
  <2>1. Kept \subseteq Kept'
    BY DEF Kept, Durable
  <2>2. QED
    BY <2>1, StillKept DEF LogInv
<1>8. QED
  BY <1>1, <1>2, <1>3, <1>4, <1>5, <1>6, <1>7 DEF LogInv

LEMMA ExitStep ==
  ASSUME LogInv, Exit
  PROVE  LogInv'
BY EndOfProcess DEF Exit, LogInv, FileInv, BoundInv, boundVars

LEMMA CrashStep ==
  ASSUME LogInv, Crash
  PROVE  LogInv'
<1>1. /\ spool' \in [Files -> SUBSET Events] /\ torn' \subseteq Files
      /\ UNION Range(spool) \subseteq UNION Range(spool')
  <2>1. CASE UNCHANGED <<spool, torn>>
    BY <2>1 DEF LogInv, FileInv
  <2>2. ASSUME NEW spilt \in SUBSET batch, NEW cut \in SUBSET Files, Partly(spilt, cut)
        PROVE  /\ spool' \in [Files -> SUBSET Events] /\ torn' \subseteq Files
               /\ UNION Range(spool) \subseteq UNION Range(spool')
    BY <2>2, FilesGrow, Typed DEF Partly, LogInv, FileInv
  <2>3. QED
    BY <2>1, <2>2 DEF Crash
<1>2. ends' \in Nat
  BY DEF Crash, Ends, LogInv, BoundInv
<1>3. QED
  BY <1>1, <1>2, EndOfProcess DEF Crash

-----------------------------------------------------------------------------
(* The ClickHouse writer *)

LEMMA WriterSide ==
  ASSUME LogInv, UNCHANGED <<requestVars, serviceVars, fileVars, topic, dropped>>,
         WriterInv', failures' \in Nat, ends' \in Nat
  PROVE  LogInv'
<1>1. RequestInv' /\ ServiceInv' /\ FileInv' /\ BoundInv'
  BY DEF LogInv, RequestInv, NoSendOnClosed, ServiceInv, FileInv, BoundInv, requestVars, serviceVars,
     fileVars
<1>2. FlagsInv'
  BY Zenon DEF LogInv, FlagsInv, serviceVars
<1>3. NothingLost'
  BY DEF LogInv, NothingLost, InMemory, Durable, requestVars, serviceVars, fileVars
<1>4. QED
  BY <1>1, <1>2, <1>3 DEF LogInv

LEMMA FetchStep ==
  ASSUME LogInv, Fetch
  PROVE  LogInv'
<1>1. position + 1 \in Nat /\ position + 1 <= Len(topic) /\ base <= position + 1
  BY Typed DEF Fetch, LogInv, WriterInv
<1>2. wpc' \in {"fetch", "insert"}
  BY DEF Fetch
<1>3. WriterInv'
  BY <1>1, <1>2 DEF Fetch, LogInv, WriterInv, CommittedStored
<1>4. QED
  BY <1>3, WriterSide DEF Fetch, LogInv, BoundInv, boundVars

LEMMA FlushWriterStep ==
  ASSUME LogInv, FlushWriter
  PROVE  LogInv'
<1>1. WriterInv'
  BY DEF FlushWriter, LogInv, WriterInv, CommittedStored
<1>2. QED
  BY <1>1, WriterSide DEF FlushWriter, LogInv, BoundInv, boundVars

\* The batch of the writer, as the part of the topic after base.
LEMMA FetchedIs ==
  ASSUME LogInv
  PROVE  /\ Range(Fetched) \subseteq Events
         /\ \A i \in 1..position : i \in 1..base \/ topic[i] \in Range(Fetched)
<1>1. /\ base \in Nat /\ position \in Nat /\ base <= position /\ position <= Len(topic)
      /\ topic \in Seq(Events) /\ Len(topic) \in Nat
  BY Typed DEF LogInv, WriterInv
<1>2. /\ Fetched \in Seq(Events) /\ Len(Fetched) = position - base
      /\ \A j \in 1..(position - base) : Fetched[j] = topic[base + j]
  BY <1>1 DEF Fetched
<1>3. Range(Fetched) \subseteq Events
  BY <1>2, InRange
<1>4. ASSUME NEW i \in 1..position, ~ (i \in 1..base) PROVE topic[i] \in Range(Fetched)
  <2>1. i - base \in 1..(position - base) /\ base + (i - base) = i
    BY <1>1, <1>4
  <2>2. i - base \in 1..Len(Fetched) /\ topic[i] = Fetched[i - base]
    BY <1>2, <2>1
  <2>3. QED
    BY <1>2, <2>2, InRange
<1>5. QED
  BY <1>3, <1>4

\* More rows in ClickHouse do no harm.
LEMMA StoresMore ==
  ASSUME LogInv, stored \subseteq stored', stored' \subseteq Events, wpc' \in {"fetch", "commit"},
         wpc' = "commit" => \A i \in 1..position : topic[i] \in stored',
         UNCHANGED <<topic, offset, base, position>>
  PROVE  WriterInv'
BY DEF LogInv, WriterInv, CommittedStored

LEMMA InsertStep ==
  ASSUME LogInv, Insert
  PROVE  LogInv'
<1>1. stored' = stored \cup Range(Fetched)
  BY DEF Insert
<1>2. \A i \in 1..position : topic[i] \in stored'
  BY <1>1, FetchedIs DEF LogInv, WriterInv
<1>3. stored' \subseteq Events
  BY <1>1, FetchedIs DEF LogInv, WriterInv
<1>4. WriterInv'
  BY <1>1, <1>2, <1>3, StoresMore DEF Insert
<1>5. QED
  BY <1>4, WriterSide DEF Insert, LogInv, BoundInv, boundVars

LEMMA InsertFailsStep ==
  ASSUME LogInv, InsertFails
  PROVE  LogInv'
<1>1. stored \subseteq stored' /\ stored' \subseteq Events
  BY FetchedIs DEF InsertFails, LogInv, WriterInv
<1>2. WriterInv'
  BY <1>1, StoresMore DEF InsertFails
<1>3. QED
  BY <1>2, WriterSide DEF InsertFails, Fails, LogInv, BoundInv

LEMMA CommitOffsetStep ==
  ASSUME LogInv, CommitOffset
  PROVE  LogInv'
<1>1. WriterInv'
  BY DEF CommitOffset, LogInv, WriterInv, CommittedStored
<1>2. QED
  BY <1>1, WriterSide DEF CommitOffset, LogInv, BoundInv, boundVars

LEMMA CommitFailsStep ==
  ASSUME LogInv, CommitFails
  PROVE  LogInv'
<1>1. WriterInv'
  BY DEF CommitFails, LogInv, WriterInv, CommittedStored
<1>2. QED
  BY <1>1, WriterSide DEF CommitFails, Fails, LogInv, BoundInv

LEMMA WriterRestartStep ==
  ASSUME LogInv, WriterRestart
  PROVE  LogInv'
<1>1. WriterInv'
  BY DEF WriterRestart, LogInv, WriterInv, CommittedStored
<1>2. QED
  BY <1>1, WriterSide DEF WriterRestart, Ends, LogInv, BoundInv

-----------------------------------------------------------------------------
(* The invariant *)

LEMMA LogInit ==
  ASSUME Init
  PROVE  LogInv
<1>1. RequestInv /\ BoundInv /\ NothingLost
  BY DEF Init, RequestInv, NoSendOnClosed, BoundInv, NothingLost
<1>2. FlagsInv
  BY Zenon DEF Init, FlagsInv
<1>3. ServiceInv
  BY PipelineAssumption DEF Init, ServiceInv
<1>4. FileInv
  BY DEF Init, FileInv, NoReplay, Files
<1>5. WriterInv
  BY DEF Init, WriterInv, CommittedStored
<1>6. QED
  BY <1>1, <1>2, <1>3, <1>4, <1>5 DEF LogInv

LEMMA LogNext ==
  ASSUME LogInv, [Next]_vars
  PROVE  LogInv'
<1>1. ASSUME NEW h \in Handlers,
             IngestSend(h) \/ \E events \in SUBSET Events : IngestLock(h, events)
      PROVE  LogInv'
  BY <1>1, IngestSendStep, IngestLockStep
<1>2. CASE Run
  BY <1>2, ReceiveStep, TickStep, CancelledStep, FinishStep, PublishStep, PublishFailsStep, SpillStep,
     SpillFailsStep DEF Run
<1>3. CASE Replay
  BY <1>3, ReplayOnceStep, ReplayPublishStep, ReplayPublishFailsStep, ReplayTruncateStep,
     ReplayTruncateFailsStep DEF Replay
<1>4. CASE Main
  BY <1>4, SignalStep, ShutdownStep, StopServiceStep, MainReturnsStep, ExitStep, CrashStep,
     RestartStep DEF Main
<1>5. CASE Writer
  BY <1>5, FetchStep, FlushWriterStep, InsertStep, InsertFailsStep, CommitOffsetStep, CommitFailsStep,
     WriterRestartStep DEF Writer
<1>6. CASE UNCHANGED vars
  <2>1. UNCHANGED <<requestVars, serviceVars, fileVars, topic, dropped, writerVars, boundVars>>
    BY <1>6 DEF vars
  <2>2. WriterInv'
    BY <2>1, WriterStays, TopicStays
  <2>3. QED
    BY <2>1, <2>2, WriterSide DEF LogInv, BoundInv, boundVars
<1>7. QED
  BY <1>1, <1>2, <1>3, <1>4, <1>5, <1>6 DEF Next

\* LogInv holds in every state that requests, run(), the replay, main and the writer can
\* reach, through any failures, signals and kills.
THEOREM LogInductive == Spec => []LogInv
<1>1. Init => LogInv
  BY LogInit
<1>2. LogInv /\ [Next]_vars => LogInv'
  BY LogNext
<1>3. QED
  BY <1>1, <1>2, PTL DEF Spec

\* Types of the pipeline: the queue stays within its capacity and the writer's position
\* within the topic.
THEOREM LogTypeCorrect == Spec => []TypeOK
<1>1. LogInv => TypeOK
  <2> SUFFICES ASSUME LogInv PROVE TypeOK
    OBVIOUS
  <2>1. position \in 0..Len(topic)
    BY Typed DEF LogInv, WriterInv
  <2>2. closed \in BOOLEAN /\ canceled \in BOOLEAN /\ draining \in BOOLEAN
    BY Zenon DEF LogInv, FlagsInv
  <2>3. QED
    BY <2>1, <2>2 DEF LogInv, RequestInv, ServiceInv, FileInv, WriterInv, BoundInv, TypeOK
<1>2. QED
  BY <1>1, LogInductive, PTL

\* An accepted event is in the process, in a fallback file or on the topic, unless the
\* process ended with it in memory or the disk refused it (writeBatch, ReplayOnce).
THEOREM NoEventLost == Spec => []NothingLost
<1>1. LogInv => NothingLost
  BY DEF LogInv
<1>2. QED
  BY <1>1, LogInductive, PTL

\* What the consumer group has committed is in ClickHouse (flush of the writer).
THEOREM CommittedIsStored == Spec => []CommittedStored
<1>1. LogInv => CommittedStored
  BY DEF LogInv, WriterInv
<1>2. QED
  BY <1>1, LogInductive, PTL

\* No request sends on the channel that closeQueue has closed.
THEOREM NobodySendsOnClosed == Spec => []NoSendOnClosed
<1>1. LogInv => NoSendOnClosed
  BY DEF LogInv, RequestInv
<1>2. QED
  BY <1>1, LogInductive, PTL

\* When run() has returned, the queue, pending and the batch are empty (Shutdown).
THEOREM DrainedWhenDone == Spec => []DoneIsDrained
<1>1. LogInv => DoneIsDrained
  BY DEF LogInv, ServiceInv, DoneIsDrained, InMemory, Range
<1>2. QED
  BY <1>1, LogInductive, PTL
=============================================================================
