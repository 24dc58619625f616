----------------------------- MODULE AtomicJob ------------------------------
(***************************************************************************)
(* What the job repository promises to OCRApplicationService and           *)
(* OCRWorker: a job is one value.  Whoever has obtained it and still has   *)
(* the current value may replace it by the result of a domain method, and  *)
(* by that takes it away from everyone else who had it.  Retention may     *)
(* withdraw a job that has ended, from everyone.                           *)
(***************************************************************************)
EXTENDS JobDomain

CONSTANTS Clients,   \* requests and workers that use the repository
          Missing,   \* there is no such job yet
          Gone       \* there is no such job any more

VARIABLES cell,      \* the job
          holders    \* clients that have its current value

Allowed(condition, result) == IF condition THEN {result} ELSE {}

\* A turn of _process_page: it reloads the job and counts a try, or keeps the result or
\* the failure of the page, in whatever state the page has come to be.
PageEdits(p) ==
  Allowed(p.tries < MaxAttempts, PageStart(p)) \cup {PageSucceed(p), PageFail(p)}

\* cancel_job: a job no worker has begun is cancelled by the one save.
CancelJob(j) ==
  IF j.state \in {"queued", "retrying"} THEN Cancel(RequestCancel(j)) ELSE RequestCancel(j)

\* What is made of a job between two saves.  A worker that no longer owns the job still
\* saves its pages, in any state of the job, reports a scheduled retry without a
\* change, and lists the artifacts it built for the attempt it was given.
Edits(j) ==
  (UNION {Allowed(CanBeginPreprocessing(j), BeginPreprocessing(j)),
          Allowed(CanSetPages(j) /\ j.pages = NoPages, SetPages(j)),
          Allowed(CanBeginRunning(j) /\ j.pages # NoPages, BeginRunning(j)),
          Allowed(CanRequestCancel(j), CancelJob(j)),
          Allowed(CanCancel(j), Cancel(j)),
          Allowed(CanBeginAssembling(j), BeginAssembling(j)),
          Allowed(CanFail(j), Fail(j)),
          Allowed(CanRetry(j), Retry(j))})
  \cup {Succeed(j, a) : a \in IF CanSucceed(j) THEN 1..j.attempt ELSE {}}
  \cup {j}
  \cup (IF j.pages = NoPages THEN {}
        ELSE UNION {{WithPage(j, n, p) : p \in PageEdits(j.pages[n])} : n \in PageNumbers})

Init == cell = Missing /\ holders = {}

Create == cell = Missing /\ cell' = NewJob /\ holders' = {}

Obtain(c) ==
  /\ cell \notin {Missing, Gone}
  /\ holders' = holders \cup {c} /\ UNCHANGED cell

Release(c) == holders' = holders \ {c} /\ UNCHANGED cell

Commit(c) ==
  /\ c \in holders
  /\ \E k \in Edits(cell) : cell' = [k EXCEPT !.revision = @ + 1]
  /\ holders' = {c}

Withdraw ==
  /\ cell \notin {Missing, Gone} /\ Terminal(cell)
  /\ cell' = Gone /\ holders' = {}

Next ==
  \/ Create \/ Withdraw
  \/ \E c \in Clients : Obtain(c) \/ Release(c) \/ Commit(c)

Spec == Init /\ [][Next]_<<cell, holders>>
=============================================================================
