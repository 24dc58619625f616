----------------------------- MODULE JobDomain -----------------------------
(***************************************************************************)
(* The job aggregate of contexts/ocr/domain/models.py: its states, its     *)
(* pages and the methods that change them.  A method that raises           *)
(* ValueError is a pair: Can...(j) is the condition under which it does    *)
(* not raise, and the operator named after the method is the job it        *)
(* leaves behind.  Timestamps, error texts, engine metadata and page       *)
(* contents are left out; nothing here depends on them.                    *)
(***************************************************************************)
EXTENDS Naturals

CONSTANTS NumPages,        \* pages the preprocessor finds in the document
          MaxPageRetries   \* settings.worker_max_page_retries

ASSUME DomainAssumption == /\ NumPages \in Nat \ {0}
                           /\ MaxPageRetries \in Nat

PageNumbers == 1..NumPages

JobStates == {"queued", "preprocessing", "running", "assembling",
              "cancel_requested", "cancelled", "retrying", "succeeded", "failed"}

PageStates == {"pending", "running", "succeeded", "failed"}

\* Page.state and Page.processing_attempts.
PageRecords == [state : PageStates, tries : Nat]

\* Before set_pages the job has no pages at all.
NoPages == <<>>

\* artifacts is the attempt whose artifacts the row lists, 0 when it lists none.
Jobs == [state : JobStates, attempt : Nat, revision : Nat,
         pages : [PageNumbers -> PageRecords] \cup {NoPages}, artifacts : Nat]

\* A job as create_job builds it.
NewJob == [state |-> "queued", attempt |-> 1, revision |-> 0,
           pages |-> NoPages, artifacts |-> 0]

-----------------------------------------------------------------------------
(* Pages *)

NewPage == [state |-> "pending", tries |-> 0]

PageStart(p) ==
  IF p.state = "succeeded" THEN p ELSE [state |-> "running", tries |-> p.tries + 1]

PageSucceed(p) == [p EXCEPT !.state = "succeeded"]

PageFail(p) == [p EXCEPT !.state = "failed"]

\* Mutant: retry() starts every page again.
PagePrepareRetry_Every(p) == NewPage

PagePrepareRetry(p) == IF p.state = "succeeded" THEN p ELSE NewPage

\* max_attempts of _process_page: the initial attempt plus the retries.
MaxAttempts == MaxPageRetries + 1

-----------------------------------------------------------------------------
(* Jobs *)

Terminal(j) == j.state \in {"cancelled", "succeeded", "failed"}

CanBeginPreprocessing(j) == j.state \in {"queued", "retrying"}
BeginPreprocessing(j) == [j EXCEPT !.state = "preprocessing"]

CanSetPages(j) == j.state = "preprocessing"
SetPages(j) == [j EXCEPT !.pages = [n \in PageNumbers |-> NewPage]]

CanBeginRunning(j) == j.state = "preprocessing"
BeginRunning(j) == [j EXCEPT !.state = "running"]

CanRequestCancel(j) ==
  j.state \in {"queued", "preprocessing", "running", "assembling", "retrying"}
RequestCancel(j) == [j EXCEPT !.state = "cancel_requested"]

CanCancel(j) == j.state = "cancel_requested"
\* Mutant: the other spelling, which JobState does not have.
Cancel_Misspelt(j) == [j EXCEPT !.state = "canceled"]

Cancel(j) == [j EXCEPT !.state = "cancelled"]

CanBeginAssembling(j) == j.state = "running"
BeginAssembling(j) == [j EXCEPT !.state = "assembling"]

AllPagesSucceeded(j) ==
  /\ j.pages # NoPages
  /\ \A n \in PageNumbers : j.pages[n].state = "succeeded"

CanSucceed(j) == AllPagesSucceeded(j) /\ j.state = "assembling"
Succeed(j, a) == [j EXCEPT !.state = "succeeded", !.artifacts = a]

CanFail(j) == ~ Terminal(j)
Fail(j) == [j EXCEPT !.state = "failed"]

\* Mutant: a job that succeeded may be retried too.
CanRetry_Ended(j) == Terminal(j)

CanRetry(j) == j.state \in {"failed", "cancelled"}
Retry(j) ==
  [state |-> "retrying", attempt |-> j.attempt + 1, revision |-> j.revision,
   pages |-> IF j.pages = NoPages THEN NoPages
             ELSE [n \in PageNumbers |-> PagePrepareRetry(j.pages[n])],
   artifacts |-> 0]

\* The job with page n replaced.
WithPage(j, n, p) == [j EXCEPT !.pages[n] = p]

\* Mutant: the loop does not skip the pages of the checkpoint.
IncompletePages_All(j) == IF j.pages = NoPages THEN {} ELSE PageNumbers

\* Pages the loop of OCRWorker.process still has to visit.
IncompletePages(j) ==
  IF j.pages = NoPages THEN {}
  ELSE {n \in PageNumbers : j.pages[n].state # "succeeded"}
=============================================================================
