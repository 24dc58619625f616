---------------------------- MODULE JobExecution ----------------------------
(***************************************************************************)
(* The life of one job row, from the transaction that created it to its    *)
(* last attempt: the API handlers that cancel and retry it, the outbox     *)
(* dispatcher, the Kafka partition that carries its work messages, and the *)
(* OCR workers of the consumer group.                                      *)
(*                                                                         *)
(* Everyone shares the PostgreSQL row and nothing else.  A handler reads   *)
(* the row (one action), computes on its private snapshot, and writes it   *)
(* back in a transaction that commits only if the revision it read is      *)
(* still the row's (another action), so every interleaving of readers and  *)
(* writers the database allows is a behaviour.  Computation between two    *)
(* database or storage calls belongs to the action of the call before it.  *)
(***************************************************************************)
EXTENDS JobDomain, Sequences, FiniteSetsExt

CONSTANTS Workers,        \* members of the Kafka consumer group
          Clients,        \* concurrent API requests
          MaxCrashes,     \* bound: processes killed, database or broker calls failing
          MaxRebalances,  \* bound: rebalances other than those of an owner's exit
          MaxRequests,    \* bound: cancel and retry requests
          MaxRecords      \* bound: records ever written to the partition

ASSUME ExecutionAssumption ==
  /\ Workers # {}
  /\ MaxCrashes \in Nat /\ MaxRebalances \in Nat
  /\ MaxRequests \in Nat /\ MaxRecords \in Nat

VARIABLES
  job,        \* the ocr_jobs row with its pages and artifacts
  claimed,    \* retention_claim_token IS NOT NULL: invisible to get, refused by save
  terminals,  \* the terminal events of job_events, in order of sequence
  outbox,     \* attempts whose outbox event has published_at IS NULL
  inflight,   \* attempts published by the dispatcher and not yet marked
  queue,      \* the partition: the attempt each record asks for
  offset,     \* records committed by the consumer group
  position,   \* records handed to the current owner
  owner,      \* the worker the partition is assigned to
  pc,         \* worker -> where OCRWorker.process has got to
  msg,        \* worker -> message.attempt
  rec,        \* worker -> number of the record it is processing
  snap,       \* worker -> its private copy of the job
  todo,       \* worker -> pages the page loop has not finished
  pend,       \* worker -> the event and the continuation of the save in progress
  built,      \* worker -> the attempt it assembled artifacts for
  apc,        \* client -> where its request has got to
  aop,        \* client -> the operation requested
  asnap,      \* client -> its private copy of the job
  atry,       \* client -> save_attempt
  crashes, rebalances, requests

rowVars == <<job, claimed, terminals, outbox>>
partitionVars == <<inflight, queue, offset, position, owner>>
taskVars == <<pc, msg, rec, snap, todo, pend, built>>
apiVars == <<apc, aop, asnap, atry>>
boundVars == <<crashes, rebalances, requests>>
vars == <<rowVars, partitionVars, taskVars, apiVars, boundVars>>

TerminalEvents == {"job.cancelled", "job.failed", "job.succeeded"}

Events == TerminalEvents \cup
  {"job.preprocessing", "job.pages_prepared", "job.running", "job.assembling",
   "job.cancel_requested", "job.retrying", "page.running", "page.succeeded",
   "page.retry_scheduled", "page.failed"}

Labels == {"idle", "load", "repair", "prepare", "check", "loop", "try", "engine",
           "pagefail", "jobfail", "assemble", "recheck", "finish", "save",
           "conflict", "except", "handlersave", "done"}

NoSave == [event |-> "job.running", next |-> "idle"]

Init ==
  /\ job = NewJob /\ claimed = FALSE /\ terminals = <<>>
  /\ outbox = {1}           \* add_with_outbox_and_event: one transaction
  /\ inflight = {} /\ queue = <<>> /\ offset = 0 /\ position = 0
  /\ owner \in Workers
  /\ pc = [w \in Workers |-> "idle"]
  /\ msg = [w \in Workers |-> 0] /\ rec = [w \in Workers |-> 0]
  /\ snap = [w \in Workers |-> NewJob]
  /\ todo = [w \in Workers |-> {}]
  /\ pend = [w \in Workers |-> NoSave]
  /\ built = [w \in Workers |-> 0]
  /\ apc = [c \in Clients |-> "idle"] /\ aop = [c \in Clients |-> "cancel"]
  /\ asnap = [c \in Clients |-> NewJob] /\ atry = [c \in Clients |-> 0]
  /\ crashes = 0 /\ rebalances = 0 /\ requests = 0

-----------------------------------------------------------------------------
(* The repository *)

\* Mutant: the UPDATE does not compare revisions.
Saveable_AnyRevision(j) == ~ claimed

\* WHERE retention_claim_token IS NULL AND revision = the snapshot's.
Saveable(j) == ~ claimed /\ j.revision = job.revision

Saved(j) == [j EXCEPT !.revision = @ + 1]

\* append_with_connection inserts a terminal event once per attempt.
Appended(event, attempt) ==
  LET e == [type |-> event, attempt |-> attempt]
  IN  IF event \in TerminalEvents /\ \A i \in DOMAIN terminals : terminals[i] # e
      THEN Append(terminals, e) ELSE terminals

\* save_with_event: the row, its pages and artifacts, and one event, atomically.
SaveWithEvent(j, event) ==
  /\ job' = Saved(j)
  /\ terminals' = Appended(event, j.attempt)

-----------------------------------------------------------------------------
(* Steps of a worker *)

\* jobs.get(...) or job: a claimed row is not found and the snapshot stays.
Latest(w) == IF claimed THEN snap[w] ELSE job

CancelRequested(w) == ~ claimed /\ job.state = "cancel_requested"

Goto(w, label) == pc' = [pc EXCEPT ![w] = label]

Continue(w, j, label) ==
  /\ snap' = [snap EXCEPT ![w] = j]
  /\ Goto(w, label)
  /\ UNCHANGED pend

\* Start a _save_and_emit of snapshot j; Save and HandlerSave complete it.
SaveAt(w, label, j, event, next) ==
  /\ snap' = [snap EXCEPT ![w] = j]
  /\ pend' = [pend EXCEPT ![w] = [event |-> event, next |-> next]]
  /\ Goto(w, label)

SaveThen(w, j, event, next) == SaveAt(w, "save", j, event, next)

\* latest.cancel() and its event, the answer to a requested cancellation.
SaveCancelled(w, label) == SaveAt(w, label, Cancel(job), "job.cancelled", "done")

\* OCRWorker._fail on a job that is not terminal.
SaveFailed(w, label, j) ==
  IF CanCancel(j) THEN SaveAt(w, label, Cancel(j), "job.cancelled", "done")
                  ELSE SaveAt(w, label, Fail(j), "job.failed", "done")

\* The group reassigns the partition; the new owner starts at the committed offset.
Reassign ==
  /\ owner' \in Workers
  /\ position' = offset

\* The process ends, its member leaves the group and the container restarts it.  An
\* owner's partition is reassigned; the rebalance that another member's exit may
\* bring is the action Rebalance.
Exit(w) ==
  /\ Goto(w, "idle")
  /\ snap' = [snap EXCEPT ![w] = NewJob]
  /\ todo' = [todo EXCEPT ![w] = {}]
  /\ pend' = [pend EXCEPT ![w] = NoSave]
  /\ built' = [built EXCEPT ![w] = 0]
  /\ IF owner = w THEN Reassign ELSE UNCHANGED <<owner, position>>
  /\ UNCHANGED <<msg, rec>>

\* Mutant: enable_auto_commit=True.
Fetch_AutoCommit(w) ==
  /\ pc[w] = "idle" /\ owner = w /\ position < Len(queue)
  /\ position' = position + 1 /\ offset' = position + 1
  /\ rec' = [rec EXCEPT ![w] = position + 1]
  /\ msg' = [msg EXCEPT ![w] = queue[position + 1]]
  /\ Goto(w, "load")
  /\ UNCHANGED <<rowVars, inflight, queue, owner, snap, todo, pend, built, apiVars,
                 boundVars>>

\* getmany(max_records=1) hands the owner the next record.
Fetch(w) ==
  /\ pc[w] = "idle" /\ owner = w /\ position < Len(queue)
  /\ position' = position + 1
  /\ rec' = [rec EXCEPT ![w] = position + 1]
  /\ msg' = [msg EXCEPT ![w] = queue[position + 1]]
  /\ Goto(w, "load")
  /\ UNCHANGED <<rowVars, inflight, queue, offset, owner, snap, todo, pend, built,
                 apiVars, boundVars>>

\* Mutant: the message's attempt is not compared with the row's.
Load_AnyAttempt(w) ==
  /\ pc[w] = "load"
  /\ \/ claimed /\ Continue(w, snap[w], "done")
     \/ ~ claimed /\ Terminal(job) /\ Continue(w, job, "repair")
     \/ /\ ~ claimed /\ ~ Terminal(job)
        /\ IF CanBeginPreprocessing(job)
           THEN SaveThen(w, BeginPreprocessing(job), "job.preprocessing", "prepare")
           ELSE Continue(w, job, "prepare")
  /\ UNCHANGED <<rowVars, partitionVars, msg, rec, todo, built, apiVars, boundVars>>

\* The first lookups: obsolete message, terminal job, upload gone, fresh attempt.
Load(w) ==
  /\ pc[w] = "load"
  /\ \/ /\ claimed \/ job.attempt # msg[w]
        /\ Continue(w, snap[w], "done")
     \/ /\ ~ claimed /\ job.attempt = msg[w] /\ Terminal(job)
        /\ Continue(w, job, "repair")
     \/ /\ ~ claimed /\ job.attempt = msg[w] /\ ~ Terminal(job)
        /\ \/ SaveFailed(w, "save", job)           \* upload_not_found
           \/ IF CanBeginPreprocessing(job)
              THEN SaveThen(w, BeginPreprocessing(job), "job.preprocessing", "prepare")
              ELSE Continue(w, job, "prepare")
  /\ UNCHANGED <<rowVars, partitionVars, msg, rec, todo, built, apiVars, boundVars>>

\* _repair_terminal_event appends without looking at the revision.
Repair(w) ==
  /\ pc[w] = "repair"
  /\ terminals' =
       LET event == CASE snap[w].state = "cancelled" -> "job.cancelled"
                      [] snap[w].state = "failed"    -> "job.failed"
                      [] OTHER                       -> "job.succeeded"
       IN  Appended(event, snap[w].attempt)
  /\ Goto(w, "done")
  /\ UNCHANGED <<job, claimed, outbox, partitionVars, msg, rec, snap, todo, pend,
                 built, apiVars, boundVars>>

\* preprocessor.prepare and set_pages, unless a checkpoint already has the pages.
Prepare(w) ==
  /\ pc[w] = "prepare"
  /\ \/ /\ snap[w].pages # NoPages
        /\ Continue(w, snap[w], "check")
     \/ /\ snap[w].pages = NoPages /\ CanSetPages(snap[w])
        /\ SaveThen(w, SetPages(snap[w]), "job.pages_prepared", "check")
     \/ /\ snap[w].pages = NoPages     \* wrong state, sandbox failure or no page
        /\ Continue(w, snap[w], "except")
  /\ UNCHANGED <<rowVars, partitionVars, msg, rec, todo, built, apiVars, boundVars>>

\* _cancel_if_requested, then the checkpoint decides where the run resumes.
Check(w) ==
  /\ pc[w] = "check"
  /\ \/ CancelRequested(w) /\ SaveCancelled(w, "save") /\ UNCHANGED todo
     \/ /\ ~ CancelRequested(w)
        /\ todo' = [todo EXCEPT ![w] = IncompletePages(snap[w])]
        /\ \/ /\ CanBeginRunning(snap[w])
              /\ SaveThen(w, BeginRunning(snap[w]), "job.running", "loop")
           \/ snap[w].state = "assembling" /\ Continue(w, snap[w], "assemble")
           \/ snap[w].state = "running" /\ Continue(w, snap[w], "loop")
           \/ /\ snap[w].state \notin {"preprocessing", "assembling", "running"}
              /\ Continue(w, snap[w], "except")
  /\ UNCHANGED <<rowVars, partitionVars, msg, rec, built, apiVars, boundVars>>

\* Head of the page loop: the next page's image, or begin_assembling after the last.
\* The reload before _process_page is only what a later failed lookup falls back on.
Loop(w) ==
  /\ pc[w] = "loop"
  /\ \/ todo[w] # {} /\ CancelRequested(w) /\ SaveCancelled(w, "save")
     \/ /\ todo[w] # {} /\ ~ CancelRequested(w)
        /\ \/ Continue(w, Latest(w), "try")
           \/ Continue(w, Latest(w), "except")     \* storage.get_bytes fails
     \/ /\ todo[w] = {} /\ CanBeginAssembling(snap[w])
        /\ SaveThen(w, BeginAssembling(snap[w]), "job.assembling", "assemble")
     \/ /\ todo[w] = {} /\ ~ CanBeginAssembling(snap[w])
        /\ Continue(w, snap[w], "except")
  /\ UNCHANGED <<rowVars, partitionVars, msg, rec, todo, built, apiVars, boundVars>>

\* The page _process_page is working on: enumerate visits them in order.
CurrentPage(w) == Min(todo[w])

\* Top of _process_page's while loop.
Try(w) ==
  /\ pc[w] = "try"
  /\ LET j == Latest(w)  n == CurrentPage(w)
     IN  \/ CancelRequested(w) /\ SaveCancelled(w, "save")
         \/ /\ ~ CancelRequested(w) /\ j.pages[n].tries >= MaxAttempts
            /\ Continue(w, j, "pagefail")
         \/ /\ ~ CancelRequested(w) /\ j.pages[n].tries < MaxAttempts
            /\ SaveThen(w, WithPage(j, n, PageStart(j.pages[n])), "page.running",
                        "engine")
  /\ UNCHANGED <<rowVars, partitionVars, msg, rec, todo, built, apiVars, boundVars>>

\* engine.recognize returns a result; the row is read again before it is stored.
EngineReturns(w) ==
  /\ pc[w] = "engine"
  /\ LET j == Latest(w)  n == CurrentPage(w)
     IN  \/ CancelRequested(w) /\ SaveCancelled(w, "save") /\ UNCHANGED todo
         \/ /\ ~ CancelRequested(w)
            /\ SaveThen(w, WithPage(j, n, PageSucceed(j.pages[n])), "page.succeeded",
                        IF j.state \in {"failed", "cancelled"} THEN "done" ELSE "loop")
            /\ todo' = [todo EXCEPT ![w] = @ \ {n}]
         \/ /\ ~ CancelRequested(w)                \* storage.put_bytes fails
            /\ Continue(w, snap[w], "pagefail") /\ UNCHANGED todo
  /\ UNCHANGED <<rowVars, partitionVars, msg, rec, built, apiVars, boundVars>>

\* engine.recognize raises: TransientEngineError is retried while tries remain.
EngineRaises(w) ==
  /\ pc[w] = "engine"
  /\ \/ /\ snap[w].pages[CurrentPage(w)].tries < MaxAttempts
        /\ SaveThen(w, snap[w], "page.retry_scheduled", "try")
     \/ Continue(w, snap[w], "pagefail")
  /\ UNCHANGED <<rowVars, partitionVars, msg, rec, todo, built, apiVars, boundVars>>

\* The end of _process_page: page.fail ...
FailPage(w) ==
  /\ pc[w] = "pagefail"
  /\ LET j == Latest(w)  n == CurrentPage(w)
     IN  SaveThen(w, WithPage(j, n, PageFail(j.pages[n])), "page.failed", "jobfail")
  /\ UNCHANGED <<rowVars, partitionVars, msg, rec, todo, built, apiVars, boundVars>>

\* ... and _fail on the same snapshot; job.fail raises if the job is terminal.
FailJob(w) ==
  /\ pc[w] = "jobfail"
  /\ IF CanFail(snap[w]) THEN SaveFailed(w, "save", snap[w])
                         ELSE Continue(w, snap[w], "except")
  /\ UNCHANGED <<rowVars, partitionVars, msg, rec, todo, built, apiVars, boundVars>>

\* _assemble raises when storage fails or a page has no stored result.
Assemble(w) ==
  /\ pc[w] = "assemble"
  /\ \/ /\ \A n \in PageNumbers : snap[w].pages[n].state \in {"succeeded", "failed"}
        /\ built' = [built EXCEPT ![w] = snap[w].attempt]
        /\ Continue(w, snap[w], "recheck")
     \/ Continue(w, snap[w], "except") /\ UNCHANGED built
  /\ UNCHANGED <<rowVars, partitionVars, msg, rec, todo, apiVars, boundVars>>

Recheck(w) ==
  /\ pc[w] = "recheck"
  /\ \/ CancelRequested(w) /\ SaveCancelled(w, "save")
     \/ ~ CancelRequested(w) /\ Continue(w, snap[w], "finish")
  /\ UNCHANGED <<rowVars, partitionVars, msg, rec, todo, built, apiVars, boundVars>>

Finish(w) ==
  /\ pc[w] = "finish"
  /\ IF CanSucceed(Latest(w))
     THEN SaveThen(w, Succeed(Latest(w), built[w]), "job.succeeded", "done")
     ELSE Continue(w, Latest(w), "except")
  /\ UNCHANGED <<rowVars, partitionVars, msg, rec, todo, built, apiVars, boundVars>>

\* The transaction of a save outside the handlers.
Save(w) ==
  /\ pc[w] = "save"
  /\ \/ /\ Saveable(snap[w])
        /\ SaveWithEvent(snap[w], pend[w].event)
        /\ snap' = [snap EXCEPT ![w] = Saved(@)]
        /\ Goto(w, pend[w].next)
     \/ /\ ~ Saveable(snap[w])                     \* ConcurrentJobUpdateError
        /\ Goto(w, "conflict")
        /\ UNCHANGED <<job, terminals, snap>>
  /\ pend' = [pend EXCEPT ![w] = NoSave]
  /\ UNCHANGED <<claimed, outbox, partitionVars, msg, rec, todo, built, apiVars,
                 boundVars>>

\* Mutant: a conflict is taken for "somebody else is working on it".
Conflict_Swallowed(w) ==
  /\ pc[w] = "conflict"
  /\ \/ CancelRequested(w) /\ SaveCancelled(w, "handlersave")
     \/ ~ CancelRequested(w) /\ Continue(w, snap[w], "done")
  /\ UNCHANGED <<rowVars, partitionVars, todo, built, msg, rec, apiVars, boundVars>>

\* except ConcurrentJobUpdateError
Conflict(w) ==
  /\ pc[w] = "conflict"
  /\ \/ /\ CancelRequested(w) /\ SaveCancelled(w, "handlersave")
        /\ UNCHANGED <<position, owner, todo, built>>
     \/ /\ claimed \/ (~ CancelRequested(w) /\ (Terminal(job) \/ job.attempt # msg[w]))
        /\ Continue(w, snap[w], "done")
        /\ UNCHANGED <<position, owner, todo, built>>
     \/ /\ ~ claimed /\ ~ CancelRequested(w) /\ ~ Terminal(job) /\ job.attempt = msg[w]
        /\ Exit(w)                                 \* raise DatabaseUnavailableError
  /\ UNCHANGED <<rowVars, inflight, queue, offset, msg, rec, apiVars, boundVars>>

\* except Exception
Except(w) ==
  /\ pc[w] = "except"
  /\ \/ CancelRequested(w) /\ SaveCancelled(w, "handlersave")
     \/ ~ CancelRequested(w) /\ Terminal(Latest(w)) /\ Continue(w, Latest(w), "done")
     \/ /\ ~ CancelRequested(w) /\ ~ Terminal(Latest(w))
        /\ SaveFailed(w, "handlersave", Latest(w))
  /\ UNCHANGED <<rowVars, partitionVars, msg, rec, todo, built, apiVars, boundVars>>

\* A save inside a handler: a conflict there leaves process() and ends the worker.
HandlerSave(w) ==
  /\ pc[w] = "handlersave"
  /\ \/ /\ Saveable(snap[w])
        /\ SaveWithEvent(snap[w], pend[w].event)
        /\ snap' = [snap EXCEPT ![w] = Saved(@)]
        /\ pend' = [pend EXCEPT ![w] = NoSave]
        /\ Goto(w, pend[w].next)
        /\ UNCHANGED <<position, owner, todo, built>>
     \/ /\ ~ Saveable(snap[w])
        /\ Exit(w)
        /\ UNCHANGED <<job, terminals>>
  /\ UNCHANGED <<claimed, outbox, inflight, queue, offset, msg, rec, apiVars, boundVars>>

\* consumer.commit(record.offset + 1) after process() returned; a worker that no
\* longer owns the partition is refused and ends.
Commit(w) ==
  /\ pc[w] = "done"
  /\ \/ /\ owner = w
        /\ offset' = rec[w]
        /\ Goto(w, "idle")
        /\ snap' = [snap EXCEPT ![w] = NewJob]
        /\ todo' = [todo EXCEPT ![w] = {}]
        /\ built' = [built EXCEPT ![w] = 0]
        /\ UNCHANGED <<position, owner, pend, msg, rec>>
     \/ owner # w /\ Exit(w) /\ UNCHANGED offset
  /\ UNCHANGED <<rowVars, inflight, queue, apiVars, boundVars>>

WorkerStep(w) ==
  \/ Fetch(w) \/ Load(w) \/ Repair(w) \/ Prepare(w) \/ Check(w) \/ Loop(w) \/ Try(w)
  \/ EngineReturns(w) \/ EngineRaises(w) \/ FailPage(w) \/ FailJob(w) \/ Assemble(w)
  \/ Recheck(w) \/ Finish(w) \/ Save(w) \/ Conflict(w) \/ Except(w) \/ HandlerSave(w)
  \/ Commit(w)

\* The worker is killed, or a database call raises DatabaseUnavailableError.
Crash(w) ==
  /\ pc[w] # "idle" /\ crashes < MaxCrashes
  /\ crashes' = crashes + 1
  /\ Exit(w)
  /\ UNCHANGED <<rowVars, inflight, queue, offset, apiVars, rebalances, requests>>

\* Session timeouts and membership changes; a busy worker is not interrupted.
Rebalance ==
  /\ rebalances < MaxRebalances
  /\ rebalances' = rebalances + 1
  /\ Reassign
  /\ UNCHANGED <<rowVars, inflight, queue, offset, taskVars, apiVars, crashes, requests>>

-----------------------------------------------------------------------------
(* The outbox dispatcher: publish the oldest pending event, then mark it *)

Publish ==
  /\ inflight = {} /\ outbox # {} /\ Len(queue) < MaxRecords
  /\ queue' = Append(queue, Min(outbox))
  /\ inflight' = {Min(outbox)}
  /\ UNCHANGED <<rowVars, offset, position, owner, taskVars, apiVars, boundVars>>

MarkPublished ==
  /\ inflight # {}
  /\ outbox' = outbox \ inflight
  /\ inflight' = {}
  /\ UNCHANGED <<job, claimed, terminals, queue, offset, position, owner, taskVars,
                 apiVars, boundVars>>

\* The dispatcher dies, or mark_published fails, after the broker has the record.
DispatcherFails ==
  /\ inflight # {} /\ crashes < MaxCrashes
  /\ crashes' = crashes + 1
  /\ inflight' = {}
  /\ UNCHANGED <<rowVars, queue, offset, position, owner, taskVars, apiVars,
                 rebalances, requests>>

-----------------------------------------------------------------------------
(* The API: cancel_job and retry_job, three optimistic saves each *)

Respond(c) == apc' = [apc EXCEPT ![c] = "idle"]

Request(c, op) ==
  /\ apc[c] = "idle" /\ requests < MaxRequests
  /\ requests' = requests + 1
  /\ apc' = [apc EXCEPT ![c] = "read"]
  /\ aop' = [aop EXCEPT ![c] = op]
  /\ atry' = [atry EXCEPT ![c] = 0]
  /\ UNCHANGED <<rowVars, partitionVars, taskVars, asnap, crashes, rebalances>>

\* A queued or retrying job is cancelled at once, a running one is asked to stop.
CancelRead(c) ==
  /\ apc[c] = "read" /\ aop[c] = "cancel"
  /\ \/ /\ ~ claimed /\ CanRequestCancel(job)
        /\ asnap' = [asnap EXCEPT ![c] =
             IF job.state \in {"queued", "retrying"} THEN Cancel(RequestCancel(job))
             ELSE RequestCancel(job)]
        /\ apc' = [apc EXCEPT ![c] = "save"]
     \/ /\ claimed \/ ~ CanRequestCancel(job)      \* not found, refused or already asked
        /\ Respond(c) /\ UNCHANGED asnap
  /\ UNCHANGED <<rowVars, partitionVars, taskVars, aop, atry, boundVars>>

RetryRead(c) ==
  /\ apc[c] = "read" /\ aop[c] = "retry"
  /\ \/ /\ ~ claimed /\ CanRetry(job)
        /\ asnap' = [asnap EXCEPT ![c] = Retry(job)]
        /\ apc' = [apc EXCEPT ![c] = "save"]
     \/ /\ claimed \/ ~ CanRetry(job)
        /\ Respond(c) /\ UNCHANGED asnap
  /\ UNCHANGED <<rowVars, partitionVars, taskVars, aop, atry, boundVars>>

\* save_with_event or save_with_outbox_and_event; a conflict restarts the loop.
ApiSave(c) ==
  /\ apc[c] = "save"
  /\ \/ /\ Saveable(asnap[c])
        /\ SaveWithEvent(asnap[c],
             CASE aop[c] = "retry"             -> "job.retrying"
               [] asnap[c].state = "cancelled" -> "job.cancelled"
               [] OTHER                        -> "job.cancel_requested")
        /\ outbox' = IF aop[c] = "retry" THEN outbox \cup {asnap[c].attempt} ELSE outbox
        /\ Respond(c) /\ UNCHANGED atry
     \/ /\ ~ Saveable(asnap[c]) /\ atry[c] < 2
        /\ atry' = [atry EXCEPT ![c] = @ + 1]
        /\ apc' = [apc EXCEPT ![c] = "read"]
        /\ UNCHANGED <<job, terminals, outbox>>
     \/ /\ ~ Saveable(asnap[c]) /\ atry[c] >= 2
        /\ Respond(c) /\ UNCHANGED <<job, terminals, outbox, atry>>
  /\ asnap' = [asnap EXCEPT ![c] = NewJob]
  /\ UNCHANGED <<claimed, partitionVars, taskVars, aop, boundVars>>

\* The retention cleaner takes an expired row out of everyone's sight for good.
RetentionClaim ==
  /\ ~ claimed /\ Terminal(job)
  /\ claimed' = TRUE
  /\ UNCHANGED <<job, terminals, outbox, partitionVars, taskVars, apiVars, boundVars>>

-----------------------------------------------------------------------------
Dispatch == Publish \/ MarkPublished

Next ==
  \/ \E w \in Workers : WorkerStep(w) \/ Crash(w)
  \/ Rebalance
  \/ Dispatch \/ DispatcherFails
  \/ \E c \in Clients : \/ \E op \in {"cancel", "retry"} : Request(c, op)
                        \/ CancelRead(c) \/ RetryRead(c) \/ ApiSave(c)
  \/ RetentionClaim

Spec == Init /\ [][Next]_vars

\* Containers are restarted and the dispatcher polls forever; users owe nothing.
Fairness == /\ \A w \in Workers : WF_vars(WorkerStep(w))
            /\ WF_vars(Dispatch)

FairSpec == Spec /\ Fairness

-----------------------------------------------------------------------------
(* Properties *)

TypeOK ==
  /\ job \in Jobs /\ claimed \in BOOLEAN
  /\ terminals \in Seq([type : TerminalEvents, attempt : Nat])
  /\ outbox \in SUBSET Nat /\ inflight \in SUBSET Nat
  /\ queue \in Seq(Nat) /\ offset \in Nat /\ position \in Nat
  /\ owner \in Workers
  /\ pc \in [Workers -> Labels]
  /\ msg \in [Workers -> Nat] /\ rec \in [Workers -> Nat]
  /\ snap \in [Workers -> Jobs]
  /\ todo \in [Workers -> SUBSET PageNumbers]
  /\ pend \in [Workers -> [event : Events, next : Labels]]
  /\ built \in [Workers -> Nat]
  /\ apc \in [Clients -> {"idle", "read", "save"}]
  /\ aop \in [Clients -> {"cancel", "retry"}]
  /\ asnap \in [Clients -> Jobs] /\ atry \in [Clients -> Nat]
  /\ crashes \in Nat /\ rebalances \in Nat /\ requests \in Nat

\* A job that is not finished always has someone coming for it: the event of its
\* current attempt is still in the outbox, or its record lies beyond the committed
\* offset, whatever crashed, rebalanced, conflicted or was published twice
\* (process() returns only for work that is settled; run_worker commits after it).
NoLostJob ==
  ~ Terminal(job) =>
    \/ job.attempt \in outbox
    \/ \E i \in (offset + 1)..Len(queue) : queue[i] = job.attempt

\* Every attempt ends with exactly one terminal event, in order, and the last one
\* tells the state of the row: save_with_event commits both, append_with_connection
\* absorbs what redelivery repairs, and no stale worker ends an attempt twice.
TerminalEventPerAttempt ==
  /\ Len(terminals) = IF Terminal(job) THEN job.attempt ELSE job.attempt - 1
  /\ \A i \in DOMAIN terminals : terminals[i].attempt = i
  /\ Terminal(job) =>
       terminals[job.attempt].type = CASE job.state = "cancelled" -> "job.cancelled"
                                       [] job.state = "failed"    -> "job.failed"
                                       [] OTHER                   -> "job.succeeded"

\* What may follow a cancellation: the request is only ever answered by
\* "cancelled", and only retry_job leaves "cancelled" (README: a concurrent
\* cancellation cannot be overwritten by a stale worker snapshot).
CancelRespected ==
  /\ job.state = "cancel_requested" => job'.state \in {"cancel_requested", "cancelled"}
  /\ job.state = "cancelled" => job'.state \in {"cancelled", "retrying"}

\* No step of any worker or handler undoes a cancellation.
CancellationHonoured == [][CancelRespected]_job

\* The phase of the current attempt as the API shows it.
Phase == IF Terminal(job) THEN job.state
         ELSE IF job.state = "cancel_requested" THEN "stopping" ELSE "open"

Attempts == INSTANCE JobAttempts
              WITH number <- job.attempt, phase <- Phase, announced <- terminals

\* Row and events of a job, over any number of workers, redeliveries and requests, are
\* a succession of attempts: each ends once, with its one event in the same commit, an
\* end is not revised, and only retry_job opens another (services.py, worker.py).
ImplementsAttempts == Attempts!Spec

\* A worker about to commit a write that the revision check would let through is
\* writing the attempt its message asked for, never a newer one.
StaleAttemptUntouched ==
  \A w \in Workers :
    pc[w] \in {"save", "handlersave"} /\ Saveable(snap[w]) => snap[w].attempt = msg[w]

\* A page once recognised stays recognised, over retries of its neighbours, crashes,
\* redelivery and retry_job ("page-checkpointed", worker.py).
PageCheckpointed ==
  [][\A n \in PageNumbers :
       job.pages # NoPages /\ job.pages[n].state = "succeeded"
         => job'.pages[n] = job.pages[n]]_job

\* Recognition is not paid for twice: while the engine runs for a page, that page has
\* no stored result (README: resumes from the persisted page checkpoint instead of
\* reprocessing completed pages).
NoReprocessing ==
  \A w \in Workers :
    pc[w] = "engine" /\ ~ claimed => job.pages[CurrentPage(w)].state # "succeeded"

\* Every attempt ends: with restarted workers and a polling dispatcher, a job that
\* was accepted or retried reaches a terminal state.
JobSettles == ~ Terminal(job) ~> Terminal(job)

-----------------------------------------------------------------------------
(* What makes the properties inductive *)

Saving == {"save", "handlersave"}

\* Labels at which the job is known to have pages, and at which one is being worked on.
PagedLabels == {"check", "loop", "try", "engine", "pagefail", "jobfail", "assemble",
                "recheck", "finish"}
CurrentLabels == {"try", "engine", "pagefail"}
Resumptions == {"prepare", "check", "loop", "try", "engine", "jobfail", "assemble", "done"}

\* At label l with snapshot j, remaining pages t and save p, a page looked up exists.
HasPages(l, j, t, p) ==
  /\ l \in PagedLabels => j.pages # NoPages /\ job.pages # NoPages
  /\ l = "prepare" /\ j.pages # NoPages => job.pages # NoPages
  /\ l \in CurrentLabels => t # {}
  /\ l \in Saving => /\ p.next \in Resumptions
                     /\ p.next \in PagedLabels => j.pages # NoPages
                     /\ p.next \in CurrentLabels => t # {}

\* The page loop never looks up a page that does not exist.
PageInv == \A w \in Workers : HasPages(pc[w], snap[w], todo[w], pend[w])

\* What a worker may write over the row as it stands: a finished attempt keeps its
\* state, and a requested cancellation can only be carried out.
WorkerMayWrite(j) ==
  /\ Terminal(job) => j.state = job.state
  /\ job.state = "cancel_requested" => j.state \in {"cancel_requested", "cancelled"}

\* Snapshot j at label l, if it carries the row's revision, was computed from the row
\* as it stands, and will be written back only in a way the row permits.
FromRow(l, j) ==
  /\ j.revision <= job.revision
  /\ j.revision = job.revision =>
       /\ j.attempt = job.attempt
       /\ job.pages # NoPages => j.pages # NoPages
       /\ IF l \in Saving THEN WorkerMayWrite(j) ELSE j.state = job.state

\* The optimistic lock compares revisions and nothing else; that this is enough is
\* that every snapshot a worker or a handler holds is stale or derived from the row.
SnapshotInv ==
  /\ job.revision = 0 => job = NewJob
  /\ \A w \in Workers : FromRow(pc[w], snap[w])
  /\ \A c \in Clients :
       apc[c] = "save" =>
         /\ asnap[c].revision <= job.revision
         /\ asnap[c].revision = job.revision =>
              /\ job.pages # NoPages => asnap[c].pages # NoPages
              /\ \/ /\ aop[c] = "cancel" /\ CanRequestCancel(job)
                    /\ asnap[c].attempt = job.attempt
                    /\ asnap[c].state \in {"cancel_requested", "cancelled"}
                 \/ /\ aop[c] = "retry" /\ CanRetry(job)
                    /\ asnap[c].attempt = job.attempt + 1
                    /\ asnap[c].state = "retrying"

\* Nothing is left to do for record i: a newer attempt replaced it, or it has ended.
Settled(i) == queue[i] # job.attempt \/ Terminal(job)

\* A worker that leaves process() for message attempt m leaves the attempt settled.
Concludes(l, j, p, m) ==
  /\ l \in {"repair", "done"} /\ m = job.attempt => Terminal(job)
  /\ l \in Saving /\ p.next = "done" => Terminal(j)

\* Why no job is lost: a committed record is settled; so is every record before the
\* one a worker holds, and every record handed out except the one its owner holds; a
\* worker that returned from process() has settled its own.
DeliveryInv ==
  /\ offset <= Len(queue) /\ position <= Len(queue)
  /\ claimed => Terminal(job)
  /\ outbox \subseteq 1..job.attempt
  /\ \A i \in 1..Len(queue) : queue[i] \in 1..job.attempt
  /\ \A a \in inflight : \E i \in 1..Len(queue) : queue[i] = a
  /\ ~ Terminal(job) =>
       job.attempt \in outbox \/ \E i \in 1..Len(queue) : queue[i] = job.attempt
  /\ \A i \in 1..offset : Settled(i)
  /\ \A i \in 1..position : Settled(i) \/ (pc[owner] # "idle" /\ rec[owner] = i)
  /\ \A w \in Workers : pc[w] # "idle" =>
       /\ rec[w] \in 1..Len(queue) /\ msg[w] = queue[rec[w]]
       /\ \A i \in 1..(rec[w] - 1) : Settled(i)
       /\ Concludes(pc[w], snap[w], pend[w], msg[w])

IInv == TypeOK /\ PageInv /\ SnapshotInv /\ DeliveryInv

\* The terminal event that tells the state of terminal job j.
EventOf(j) == CASE j.state = "cancelled" -> "job.cancelled"
                [] j.state = "failed"    -> "job.failed"
                [] OTHER                 -> "job.succeeded"

\* A save carries a terminal event exactly when it ends the attempt, and a worker
\* repairs only an event that job_events already has.
Announces(l, j, p) ==
  /\ l \in Saving =>
       /\ p.event \in TerminalEvents => Terminal(j) /\ p.event = EventOf(j)
       /\ p.event \notin TerminalEvents /\ Terminal(j) /\ j.revision = job.revision
            => Terminal(job)
  /\ l = "repair" =>
       /\ j.attempt \in DOMAIN terminals
       /\ terminals[j.attempt] = [type |-> EventOf(j), attempt |-> j.attempt]

\* Why every attempt has one terminal event, on top of IInv.
EventInv ==
  /\ job.attempt >= 1
  /\ TerminalEventPerAttempt
  /\ \A w \in Workers : Announces(pc[w], snap[w], pend[w])
=============================================================================
