# MonkeyOCR: a TLA+ development

MonkeyOCR turns uploaded documents into text: an HTTP API takes uploads and
creates jobs in PostgreSQL, an outbox dispatcher puts work messages on Kafka,
OCR workers process a job page by page with a checkpoint after every page, a
cleaner deletes what has expired, and browsers follow a job over server-sent
events. This directory holds TLA+ models of the parts in which several
processes share state or in which a process may die half-way, the TLC instances
that check them, and TLAPS proofs about all of them. Paths below are
relative to the repository; `ocr/` stands for `backend/src/contexts/ocr/` and
`infra/` for `backend/src/infrastructure/`.

## 1. Inventory

| Component | State it keeps | Operations | Talks to |
|---|---|---|---|
| Job domain (`ocr/domain/models.py`) | `Job`, `Page`: state, attempt, revision, processing attempts, artifacts | state transitions; each raises when it is not allowed | called by worker and services |
| OCR worker (`ocr/application/worker.py`) | a private snapshot of the job | `process`, `_process_page`, `_assemble`, two exception handlers | rows, storage, sandbox, engine |
| Consumer loop (`backend/src/worker_main.py`) | assignment, paused partitions, position | fetch one record, pause, process it while polling, resume, commit its offset; dead letters | Kafka, worker |
| Outbox and dispatcher (`infra/messaging.py`, `backend/src/container.py`) | rows of `outbox_events`, an advisory lock | read a batch, publish, then mark published | PostgreSQL, Kafka |
| Application services (`ocr/application/services.py`) | none beyond the request | create and complete uploads; create, cancel, retry, list jobs | rows, storage |
| Job repository (`infra/persistence.py`) | `ocr_jobs`, pages, artifacts, attempts, `job_events` | `get`, optimistic `save_with_event`, append once | PostgreSQL |
| Retention (`ocr/application/retention.py`, `infra/persistence.py`, `backend/src/retention_main.py`) | claim tokens and leases on rows | claim, delete objects, delete rows, defer | PostgreSQL, storage |
| Event stream (`ocr/interfaces/http/v1/router.py`) and its subscriber (`frontend/src/infrastructure/api/sse.ts`, `frontend/src/application/useWorkspace.ts`) | position in `job_events`, the browser's view of a job | list, wait, heartbeat, end; reconnect, poll, merge | `job_events`, HTTP |
| Uploads (`services.py`, `infra/storage.py`, `infra/file_validation.py`) | `upload_sessions`, the source object, an open multipart upload | create, put, complete, reject, expire | rows, storage |
| Preprocessor and sandbox (`infra/preprocessor.py`, `backend/infrastructure/sandbox/`) | a directory per request | write request, poll for the response; claim, render, answer | shared volume |
| Gateway (`backend/services/gateway`) | token buckets in Redis, cached keys | authenticate, limit, proxy | Redis, API |
| Logging service (`backend/services/logging-service`) | queue, batch, two fallback files | accept, batch, publish, spill, replay, write to ClickHouse | Kafka, files, ClickHouse |
| Storage service, Go library, engine client, API keys, readiness, configuration, UI | none that a protocol depends on | request and response | – |

Behaviours that are hard to test, all over this list: a worker that lost its
partition and does not know it; a record delivered twice; a message of an
attempt that has been replaced; a cancellation between a worker's read and its
write; a process that dies between two calls; a cleaner whose lease runs out
while it deletes; a request that reads a row just before it is claimed; a
connection that drops between two events. `PROJECT.json` lists them, each at
its line, with the properties that cover it.

What makes each part correct, in one line each: a job that was accepted is
worked on until it ends (worker, consumer, outbox together); a save never
overwrites what another process committed (repository); an attempt ends once
and says so once (events); a recognised page is not recognised again and not
lost (worker); what a reader can see is whole and what is deleted is gone
(retention); a job is read and replaced as a whole although it lies in three
tables (repository); each event reaches the browser once, and the browser ends up
showing how the job ended (stream); a completed upload stays completed as long as
its file was written once (a second PUT between two completions can still turn it
into a rejected one, `services.py:176`), one idempotency key has one job and an abandoned session leaves nothing (uploads); a
request to the sandbox gets its own answer and pages of the declared file
(sandbox); no accepted
log line is lost while the disk takes it (logging); no client exceeds its
rate (gateway).

## 2. Plan

| Order | Module | Models | Status |
|---|---|---|---|
| 1 | `JobDomain` | `Job` and `Page` transitions as operators | done |
| 2 | `JobExecution` (extends `JobDomain`) | worker, consumer loop, outbox, cancel and retry, over one row | done |
| 3 | `JobExecutionProofs` | inductive invariant of `JobExecution` | done for any number of workers |
| 4 | `Retention` | claims, leases, object deletion against create and retry | done |
| 5 | `EventStream` | `generate()` against the browser's subscriber | done |
| 6 | `EventStreamProofs` | exactly-once delivery and the end of the stream | done |
| 7 | `AtomicJob`, `JobRepository` | `get` in its three statements against `_save_job`; refines a job that is one value | done |
| 8 | `Intake` | uploads from target to verdict, idempotent job creation, expiry | done |
| 9 | `SandboxExchange` | request directories between preprocessor and daemon, timeouts, restarts | done |
| 10 | `LogPipeline` | queue, batcher, fallback files and replay, shutdown, ClickHouse writer | done |
| 11 | `WorkQueue` | dispatchers and their lock, the consumer group, keepalive polls, dead letters | done |
| 12 | `JobRepositoryProofs` | the step simulation of `AtomicJob`, for every number of clients, pages and attempts | done |
| 13 | `RetentionProofs`, `IntakeProofs` | every safety property of `Retention` and `Intake` | done |
| 14 | `WorkQueueProofs`, `SandboxExchangeProofs`, `LogPipelineProofs` | every safety property of these modules | done |
| 15 | `JobExecutionProofs` | `StaleAttemptUntouched`, `NoReprocessing`, `PageCheckpointed`, while one worker at a time processes the job | done |
| 16 | `JobAttempts` | a job as a succession of attempts; `JobExecution` implements it | done, checked and proved |

`AtomicJob` is the abstract specification that `JobRepository` implements. It is
why `JobExecution` may read and write a job in one step: what its workers and
requests save of a job is among the `Edits` of `AtomicJob` (section 3).
`JobAttempts` is the abstract specification of what a user of the API sees of a
job, and `JobExecution` implements it. With it every safety property that a run
checks is also a theorem. Worth stating still: an ordered reliable channel that
`EventStream` implements, which would put `EveryEventOnce` and `StopsAtTheEnd`
into one formula.

## 3. The modules

### JobDomain and JobExecution

`JobDomain` has one operator per method of `Job` and `Page`: a guard `CanX`
where the method may raise and a function `X` for what it assigns. A job is a
record of state, attempt, revision, pages and the attempt its artifacts belong
to; times, error texts, sizes and engine metadata are left out.

`JobExecution` follows one row. Its state is what PostgreSQL and Kafka keep
(`job`, `claimed`, `terminals`, `outbox`, `queue`, `offset`) and what each
process holds privately: a worker's place in `process` (`pc`), message and
snapshot, the pages it still has to do, the save it is about to make; an API
request's operation and snapshot. A worker's action is one database, storage or
engine call with the computation that follows it up to the next call:

| Label of `pc` | Action | Code in `worker.py` |
|---|---|---|
| idle | `Fetch` | `run_worker`, the next record (`worker_main.py`) |
| load, repair | `Load`, `Repair` | the first `get`, its early returns, the repair of a terminal event |
| prepare, check | `Prepare`, `Check` | preprocessing, `set_pages`, cancellation check, `begin_running` |
| loop, try | `Loop`, `Try` | the page loop's reload, `page.start` |
| engine | `EngineReturns`, `EngineRaises` | recognition with its outcomes |
| pagefail, jobfail | `FailPage`, `FailJob` | attempts used up |
| assemble, recheck, finish | `Assemble`, `Recheck`, `Finish` | artifacts, last cancellation check, `succeed` |
| save, handlersave | `Save`, `HandlerSave` | the transaction of `_save_and_emit` |
| conflict, except | `Conflict`, `Except` | the two exception handlers |
| done | `Commit` | offset commit |

`Crash` kills a worker or fails one of its calls at any label; `Exit` gives its
partition away. `Rebalance` moves the partition while the old owner works on
without noticing, which the consumer's polling makes rare but cannot exclude.
`Publish`, `MarkPublished` and `DispatcherFails` are the dispatcher. Work
messages are keyed by job id, so one job lives in one partition. The API side is
`CancelRead`, `RetryRead` and `ApiSave`, the read-compute-save loop with its
three attempts. `RetentionClaim` makes the row invisible and unsaveable.

Abstractions: `get` is atomic (three statements in the code, which
`JobRepository` shows to amount to that); the reload at `worker.py:142`
belongs to the action of the reload before it; whether an upload is found is a
free choice; one dispatcher, as the advisory lock arranges; only terminal events
are kept; undecodable records are left out. `WorkQueue` has the second
dispatcher, the undecodable records and the consumer group.

`JobAttempts` says what all this amounts to for a reader of the job and of its
events: attempts in succession, each open until it ends, with its terminal event
in the same step. The mapping is `number <- job.attempt`, `announced <-
terminals` and `phase <- Phase`, where all states in which a worker may still
have to do something are "open", and `cancel_requested` is "stopping". Saves of
pages, redelivered records, repaired events, conflicts and crashes are steps a
reader does not notice.

### AtomicJob and JobRepository

`AtomicJob` is what the services and the worker rely on: a `cell` with the job,
and the `holders` of its current value. A holder may replace the value by one of
its `Edits`, which takes it away from all others; retention may withdraw a
finished job from everyone. `Edits` are the methods of `JobDomain` under their own
guards and no others, since a worker that has lost the job to another still
reloads it and saves with a fresh revision: `_process_page` saves its page in any
state of the page and of the job (`Page.succeed` and `Page.fail` have no guard),
also of a job that has succeeded; it saves the job unchanged to report a scheduled
retry; and it may list artifacts it built for an earlier attempt. `cancel_job`
cancels a job no worker has begun in one save. On the instances of `job_restart`
and `job_rebalance`, TLC has checked that every step of `JobExecution` that
changes the revision is one of these edits (`[][job'.revision # job.revision =>
\E k \in Edits(job) : job' = [k EXCEPT !.revision = @ + 1]]_job`).

`JobRepository` is how PostgreSQL keeps it: a row, and page rows and artifact
rows per attempt. `get` is `ReadRow`, `ReadPages`, `ReadArtifacts`, at READ
COMMITTED, so anything may commit in between; `Save` is the transaction of
`_save_job`; `ClaimExpired` and `DeleteJob` are retention. The refinement
mapping (`cell`, `holders`) puts the tables together as `_from_rows` does while
the row is visible, and counts as holders those who have loaded a job with the
row's revision. The point is `Save`: it writes what was computed from the
snapshot, and refines `Commit` only if a snapshot with the row's revision is the
row's value, page for page. That holds because the revision is read first: the
mutant that reads it last breaks the refinement. What does not hold is that the
pages of a succeeded job are all succeeded: a stale worker can fail one
(finding 1). `SuccessIsFinal` is what is left, that the success itself and its
artifacts stand. `MaxSaves` bounds the revision, which every save raises.

### Intake

One upload session, one idempotency key, several requests at a time.
`CreateUpload`, `CompleteUpload` and `CreateJob` are the three service methods,
one action per call to the database or to storage, each of which may fail
(`CallFails`, `AddFails`, a lost answer in `Insert`). A file is the declared
bytes, other bytes of that size, or a wrong size. Storage has the object and,
for large files, an open multipart upload with what was sent as parts; a
multipart upload is assembled once, and completing or aborting it afterwards is
`NoSuchUpload`, an error for the first and none for the second. The client may
write whenever its URLs are valid; they last 900 s and the session 3600 s by
default (`config.py:66-76`), so URLs end first. The cleaner claims the session,
aborts, deletes the object, deletes the row unless a job has come; jobs are
claimed and deleted beside it. `find_by_idempotency_key` is two statements, of
which the first sees claimed jobs and the second does not. Left out: requests
refused for their owner or their declaration, options beyond being equal or not,
requests without a key (`Retention` has those).

### SandboxExchange

Several calls of `prepare` for the same attempt, each with its directory, and
the daemon. A directory is a record of what is in it. The worker makes it, writes
the input and the request, waits, stores the pages under keys that all calls
share, and removes it; it may time out, be cancelled while it awaits, fail or be
killed. `rmtree` is three steps, because the daemon writes beside it: the files
it has listed, `output/` if that is empty by then, the directory if that is.
The daemon renames the request, reads it, makes `output/` with its parents (and
so a removed directory again), compares the hash, renders page by page, writes
the manifest, answers; whatever raises leads to the handler, whose own answer
raises out of `main` when the directory is gone. `valid` says whether the
declared file can be rendered; where it fails is open. `Overwrite` replaces the
source while its URL is valid. The subprocess and HTTP variants are left out.

### WorkQueue

The outbox rows, the partitions of the jobs topic, API processes as dispatchers,
worker processes as consumers. A dispatcher may lose its advisory lock without
noticing and go on beside the next holder; `pending` skips rows that another
statement may have locked at that moment. What it returns is a set of rows that
`dispatch_once` goes through from the oldest (`Oldest`). The consumer group is external and
modelled from how the code uses it: a rebalance gives partitions out anew, each
member takes up its assignment later, at any point of `run_worker`, with nothing
paused and from the committed offset; commits count for the owner in the
current generation. `run_worker` gets a record, pauses its assignment, processes
(`Finish`) or polls to stay in the group (`PauseAgain`, then `KeepAlive` or
`KeepAliveTakes`), resumes, commits. What processing does is `JobExecution`;
here a record is handled, or goes to the dead letter topic.

### Retention

One upload, its jobs, several cleaners. A row has a status, `due` (past its
retention period), a claim token (the cleaner's identity stands for it) and a
lease that may run out at any time; `recorded` and `stored` are the objects the
row names and the objects in storage. `Claim` is the whole claim statement with
its batch limit. Deletions of one aggregate happen in any order and may fail;
`Complete` deletes the row under the conditions of the final statement, `Defer`
gives the claim up after a failure. `CreateRead` and `CreateInsert` are the two
transactions of `create_job`. A lease may run out under a cleaner that is still
deleting, `MaxLapses` times, and at any time once nobody works on the row. Left out: idempotency keys, outbox rows deleted
with the job, objects no row names. Jobs that are being processed are not due:
the retention period is longer than any processing.

### EventStream

One job, selected in the user interface. `log` is `job_events`, each event with
the status and attempt it reports; a save commits the row with its event, so the
row is what the last event says. `spc` is the place in `generate()`: list, wait,
heartbeat, send, check. The browser has the subscription `sub`, the last event
id kept over subscriptions, `final` (the last event on this connection was
terminal), whether the effect is mounted, the polling timer, and the `view` of
the job. Requests are slots: asked, read by the server, answered; an answer
replaces the view however old it is. `Drop` breaks a connection and what is on
the wire with it. `Refused` is a connection the server answers with a failure
envelope or a status that is not allowed: the subscriber stops for good
(`sse.ts:185`), and only polls, the refresh and the effect go on. The code does so
for a deleted job and a revoked key, but also when a dependency of the backend
fails for the moment, which is answered the same way (`main.py:85`); an error
inside `generate()` comes after the headers and only breaks the connection.
`Effect` runs when the view's being active has changed.

Left out: clearing the API key after a revocation; a job that has left the first
page of the list. Polls beyond the slots are not made.

### LogPipeline

The goroutines of the logging service, its two fallback files and the ClickHouse
writer. `queue`, `pending` and `batch` are what `service.go` holds in memory,
`rpc` the place of `run()`; `spool` and `torn` are the files and which of them
have a line cut short; `replay` is how far `ReplayOnce` is, and it holds the
store's mutex (`StoreLock`) while it is not idle. `ingest[h]` is non-empty while
a request holds the read lock between its check and its send. A publication that
fails may have written any part of its messages; a write to a file may stop
anywhere, the regular file first (`Partly`). `life` follows `main`: the signal,
`ListenAndServe` returning, the deferred calls, the exit. The writer is
`topic`, the committed `offset`, the messages it is done with (`base`), the
messages it has fetched (`position`) and its place `wpc`. `dropped` is history:
events in memory when the process ended, or that the disk refused.

The topic is one partition, since a partition has one reader; ClickHouse keeps
one row per `event_id` (`ReplacingMergeTree` ordered by it), so `stored` is a
set. Validation, redaction, the console sink and the emitting client
(`lib-go/logging`), which may drop events by design, are left out.

## 4. Runs

| Run | Instance | Shows |
|---|---|---|
| `job_restart` | 1 worker, 2 pages, 1 page retry, 1 crash, 2 requests, 4 records | pages kept and not recognised twice, old attempts without effect, every attempt ends, under crashes, redelivery and racing cancel, retry and retention |
| `job_rebalance` | 2 workers, 1 page, 1 rebalance, 2 requests, 2 records; symmetry on workers | the same row written by two workers: no lost job, one end per attempt, cancellation kept; implements `JobAttempts` |
| `job_stale_worker` | 2 workers, 1 page, 1 rebalance | finding 1 |
| `retention_race` | 2 cleaners, 2 jobs, 2 objects, batch of 2, 1 failure, 1 retry, 1 lease lapsing under its holder | visible rows whole, deleted rows gone, expired jobs go |
| `retention_upload` | 1 cleaner, 1 job | finding 2 |
| `stream_delivery` | pages of 2, 4 events, 2 losses, 1 poll besides the refresh | each event once; a stream's end is taken for the job's only at the right end; the end is shown and the subscription is gone |
| `log_delivery` | 3 events of which 2 are offered, 2 requests at once, batches of 2, queue of 1, 2 failures, 1 end of the process (signal or crash) | nothing accepted is lost, nothing unstored is committed, no send on the closed queue, `run()` ends drained, accepted events reach ClickHouse unless dropped |
| `log_long_line` | 2 events, one of them too long to be read back | finding 3 |
| `intake` | 2 requests at once, 2 job ids, 2 options, small and multipart, 2 writes of a file sent by PUT, 1 failing call of the cleaner | verdicts stand, completed sessions are intact, one job per key, sessions leave nothing and go |
| `sandbox_exchange` | 2 calls, 2 pages, 1 failing storage call, 2 kills | pages of the declared file, readable answers, no leftovers, requests are taken |
| `job_repository` | 2 clients, 1 page, 2 attempts, 9 saves | implements `AtomicJob`; a success stands with its artifacts |
| `work_queue` | 2 rows and 1 undecodable record in 1 partition, 2 dispatchers, 2 workers, batches of 2, 1 fault of any kind | marked rows are sent, committed records are done, a settled group finishes |

Why these bounds are enough to matter. Two pages give a finished page beside one
that fails, one page retry gives a page that is tried twice, one crash or one
rebalance can fall at every label, two requests give cancel against retry and
cancel after retry, four records give a duplicate of each of two attempts. Two
workers need only one page to disagree about. Two cleaners need two jobs so that
a batch is larger than what one holds when its lease ends. Four events with
pages of two give an end, a retry, a page boundary and an end again. Three
events with batches of two give a full batch and one the ticker flushes, two
failures a spill while an earlier spill is replayed. Two writes let a file
be replaced once after it was checked, and two job ids let a key be used again
after its job was deleted. Two calls of `prepare` share keys and one daemon; two
pages make an answer that can be half there. Two clients are a reader and a
writer, two attempts a retry between two statements of a read; nine saves are
enough to cancel, retry, succeed in the second attempt and fail a page after that,
and one page is enough because all pages are read in one statement. Two losses
are a broken connection and the refusal of the next. Two workers that
start one after the other already rebalance a busy one without any fault, so
the one fault of `work_queue` comes on top.
`job_restart` keeps the properties that a second, stale worker can break
(finding 1): for one worker they hold; `job_rebalance` has the ones that hold
for two, and are proved for any number of workers and crashes (section 5). The
others are proved for any number of workers that take turns.

`job_rebalance` uses symmetry and a `VIEW` that keeps, of every revision, only
whether it is the row's, and drops snapshots nobody will read again; no liveness
is checked under either. Deadlock is not
checked but for the logging service: a job that is over, an empty table, a closed
page, a finished queue are proper ends. The logging service never ends.

Fairness. Workers, dispatcher, API and cleaner run in containers with `restart:
unless-stopped` (`backend/infrastructure/docker/compose/production/application.yml`),
so a step they can take is taken: weak fairness per worker, for the dispatcher
and per cleaner. Users owe nothing. Crashes, rebalances and failures are finite.
Leases run out because time passes. In the browser: effects, the reader loop and
reconnection timers run, requests are answered unless they fail, and the list is
refreshed every 20 s (`useWorkspace.ts:70`). The refresh is needed: a subscriber
that stops at the end of an old attempt after a poll has already shown a newer
one, or whose connection was refused, stays without a stream until the list is
refreshed. The goroutines of the logging service and its writer run, their tickers tick, and a process told to stop does and is started again;
the replay goroutine owes nothing once the signal has come. A line cut short by a
crash or a full disk stops the replay for good, as finding 3 does, and
`AcceptedStored` excepts it. In `intake` only the cleaner is fair, in
`sandbox_exchange` only the daemon and its restart: clients and workers owe
nothing. In `work_queue` dispatchers, workers and the group go on, and
processing ends however often it is kept alive (strong fairness of `Finish`:
`OCRWorker.process` has time limits on all it calls). `SettledGroupFinishes`
assumes in addition that the group stops changing at some point
(`GroupSettles`). Without that TLC finds a cycle in which a rebalance refuses a
commit, the refusal ends the worker, and its return is the next rebalance, for
ever; nothing in the code excludes it, but a record whose job is over takes far
less time than a restart.

## 5. Proofs

`JobExecutionProofs`, from the assumptions that there is a worker, a page, and
that bounds are numbers: for every number of workers, requests, pages, retries,
crashes, rebalances and records

- `TypeCorrect`: `Spec => []TypeOK`;
- `NoJobLost`: `Spec => []NoLostJob`;
- `CancellationSafe`: `Spec => CancellationHonoured`;
- `OneTerminalEvent`: `Spec => []TerminalEventPerAttempt`;
- `AttemptsRefined`: `Spec => ImplementsAttempts`, the refinement of
  `JobAttempts`.

All rest on `Inductive`, that `IInv` is invariant. None of the properties is
inductive: whether a save undoes a cancellation depends on what the snapshot
was computed from, and whether a commit loses a job depends on why `process`
returned. `IInv` adds

- `PageInv`: at the labels where a page is looked up it exists;
- `SnapshotInv`: a snapshot that carries the row's revision was computed from
  the row as it stands, and will only be written in a way the row permits. That
  is why comparing revisions, and nothing else, is enough;
- `DeliveryInv`: a committed record is settled, and so is every record before
  the one a worker holds; a worker leaves `process` normally only with its
  record settled.

Most worker steps only change private state; `LocalInv` proves once that such a
step keeps `IInv` if the new private state is allowed, and each action is then
one case.

`OneTerminalEvent` adds `EventInv` on top of `IInv`: a save under way carries a
terminal event exactly when its snapshot ends the attempt, unless the row it was
computed from had ended already (two workers may both end an attempt; the second
is allowed only the same state, and its event is absorbed), and
`_repair_terminal_event` only ever repeats an event that `job_events` has.

`AttemptsRefined` uses the same two invariants. A save of an ended attempt
keeps its state and adds no event, so it is a stutter; a save that ends an open
one is `End`, because its event is the terminal one and not there yet; a row in
`cancel_requested` is only written back as it is or as cancelled. What
`retry_job` saves is `TryAgain`. `OneTerminalEvent` says of the states what
the refinement says of the steps, and so has no run of its own.

Three properties are false once a stale worker writes beside the new owner
(finding 1). They are proved under `[]Exclusive`, that no two workers are inside
`process` at once:

- `StaleAttemptSafe`: `Spec /\ []Exclusive => []StaleAttemptUntouched`;
- `PagesRecognisedOnce`: `Spec /\ []Exclusive => []NoReprocessing`;
- `PagesKept`: `Spec /\ []Exclusive => PageCheckpointed`.

Two theorems say when the hypothesis is met: `OneWorkerExclusive`, for a group of
one; and `TurnsWithoutEviction`, for any number of workers, crashes and
rebalances, if no rebalance takes the partition from a worker inside `process`
(`NoEviction`, the purpose of the keepalive polls of `run_worker`). It rests on
`OwnerInv`: only the owner of the partition is inside `process`.

The invariant is `SoleInv` on top of `IInv`. From `prepare` on a worker's snapshot
has the attempt and the pages of the row, and the row is in a state that only a
worker ends: `cancel_job` can merely ask, and `retry_job` is refused. While it is
about to save, the row may get ahead of it only by an attempt that had not begun
(`NotOvertaken`: cancelled and retried under a worker that has just loaded it);
then the revision refuses the save. What the page loop has still to visit is not
recognised (`Unrecognised`), and a request that can be saved holds what
`cancel_job` or `retry_job` makes of the row as it is (`Asked`). TLC has checked
`SoleInv`, `Exclusive` and `OwnerInv` for two workers without a rebalance, and
`SoleInv` for two workers with one on the states that satisfy `Exclusive`.

`EventStreamProofs`, for every page size, number of events, polls and losses:
`StreamTypeCorrect`, `DeliveredOnce` (`Spec => EveryEventOnce`) and
`StopsRightly` (`Spec => []StopsAtTheEnd`). The invariant `StreamInv` says that
the wire holds exactly the events between what was received and what was sent
(`WireInv`), that attempts only grow in the log and nothing but a retry follows
an end (`LogInv`), and, for the end of the stream, that a server which has sent a
terminal event and goes on has more to send (`EndInv`). `StopsRightly` is about
streams that end; a subscriber whose connection was refused stops without having
been told anything, and `EndIsShown` is what covers it. `WritersInv`,
`GenerateInv`, `RequestsInv`, `ReceiveInv` and `SubscriptionInv` take the
actions by the part of the state they change.

The other proof modules, each for every value of its constants. Each invariant
was model-checked on the module's run before it was proved.

- `JobRepositoryProofs`: `RepositoryTypeCorrect`, `SuccessStands` and
  `RepositoryRefines`, which is the refinement: `Spec => ImplementsAtomicJob`,
  where `Atomic == INSTANCE AtomicJob WITH cell <- cell, holders <- holders`.
  `RepositoryInv` says of every client that what it has read so far agrees with
  the tables, or its revision is behind the row's (`SnapInv`); that rows of an
  attempt appear with the attempt and go with the job (`TableInv`); and that a
  succeeded row has artifacts (`ResultInv`). A snapshot of a succeeded job may be
  behind, since its pages are still saved, but its state, attempt and artifacts
  are never out of date (`SnapOf`), which is `SuccessStands`. With that `Save` is a
  `Commit`, `InsertJob`, `ClaimExpired` and `DeleteJob` are steps of `AtomicJob`
  or stutters, and the statements of `get` stutter up to the last one.
- `RetentionProofs`: `RetentionTypeCorrect`, `ReadersSeeWhole`,
  `NothingLeftBehind`, and `UploadRowOutlivesJobs`, the part of what the README
  promises about originals that does hold: the row is kept, only its object can
  go (finding 2). The heart of `RetentionInv` is `WorkInv`: a cleaner whose lease
  ran out may still be at work, but only ever on rows withdrawn from readers, and
  `StoreInv`: what a candidate without failures still has in storage is what is
  still on the cleaner's list.
- `IntakeProofs`: `IntakeTypeCorrect`, `OneJobPerKey`, `SessionGoesWhole`,
  `CompletedIsIntact` and the action property `VerdictIsFinal`. `VerdictInv` says
  that a verdict, saved or about to be, is right about the object as long as that
  was written once; `StorageInv` that a multipart upload is assembled or aborted
  before anybody could write the object again; `KeyInv` that one row has the key
  at a time.
- `WorkQueueProofs`: `QueueTypeCorrect`, `MarkedRowsAreSent`, `NoRecordSkipped`.
  `PositionInv` is the argument for the keepalive polls: a worker reads on only
  past records that are dealt with or that it works on; `TaskInv` carries it to
  the commit, also when the partition has gone to another worker meanwhile.
- `SandboxExchangeProofs`: `ExchangeTypeCorrect`, `PagesAreDeclared`,
  `AnswersAreReadable`, `AnsweredIsRemoved`. The invariant is one formula per
  request, by phase: hand-over, rendering, answer, storing, removal. The point
  is `HandOverInv`: a request that was answered is no longer the daemon's.
- `LogPipelineProofs`: `LogTypeCorrect`, `NoEventLost`, `CommittedIsStored`,
  `NobodySendsOnClosed`, `DrainedWhenDone`. `FileInv` says that the file under
  replay does not change until it is truncated, `WriterInv` that everything
  before the writer's batch is stored.

The assumptions on constants are the ones named in the modules: sizes and limits
are positive numbers, the values that stand for "none" are not in the sets they
extend, `Jobs` of retention, `Junk` of the queue and `Events` of the log pipeline
are finite. The last three are the numbers of rows, records and events that occur,
which are finite in any run; they are needed where the code lists or counts them.

Only model-checked: liveness (`JobSettles`, `ExpiredJobsGo`, `EndIsShown`,
`AcceptedStored`, `ExpiredSessionGoes`, `RequestTaken`, `SettledGroupFinishes`),
which is out of the prover's reach with its fairness. All other properties of the
passing runs are proved, three of them under `[]Exclusive`, as above.

## 6. Findings

1. `job_stale_worker`: a worker that lost its partition and finds its page
   recognised by the new owner, with the attempts used up, marks that page
   failed, over the stored result, and the save is accepted because it has just
   reloaded the row (`worker.py:219`, `333-343`). The README says a restart
   "resumes from the persisted page checkpoint".
2. `retention_upload`: `create_job` looks the upload up and inserts the job in
   two transactions (`services.py:216`, `253`); a claim in between sees no
   reference and the source object is deleted before the final statement looks
   again. The row is kept, the object is not. The README
   says originals "are removed only after no job still references them".
3. `log_long_line`: `readEvents` reads lines of at most 64 KB, requests may be
   1 MB; one longer line, like one cut short, makes its file unreadable, and as
   the regular file comes first, the error and audit events behind it are not
   replayed either (`sink.go:76`, `148`). The comment on `ReplayOnce` says that it
   "publishes each temporary file back to Kafka".

Not findings, but visible in the models: on a signal the logging service's `main`
returns without waiting for the goroutine that drains the queue
(`logging-service/cmd/main.go:69-86`), so what is queued may go with the process;
a multipart upload whose session could not be inserted stays open in storage
(`services.py:109`); a completion that fails after the parts were assembled
cannot be repeated, and the session stays pending until it expires
(`services.py:160`); a worker that gives up on the sandbox may end the daemon
(`daemon.py:52`), which restarts, and leave files on the volume; a subscriber that
connects while the database is briefly unavailable gets a failure envelope, stops
for good in the middle of an attempt (`sse.ts:185`), and the user sees the rest of
it only at the pace of the polls and the refresh.

## 7. Not modelled

Engine client, API keys, readiness and the storage service are requests without
state of their own; their outcomes are choices of the actions that call them.
Configuration and wiring run once; their numbers are the constants. The
in-memory adapters are test doubles of one process, and the subprocess and HTTP
variants of the preprocessor exchange no directories. User interface components render. The gateway is
a stateless pipeline around one atomic Redis script, whose arithmetic on
wall-clock time has no interleavings; the emitting log client drops events by
design. Queries (get, list, artifacts of a job) read and change nothing.
