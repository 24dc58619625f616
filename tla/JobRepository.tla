--------------------------- MODULE JobRepository ----------------------------
(***************************************************************************)
(* AsyncpgJobRepository: a job lies in three tables, its row, the pages    *)
(* and the artifacts of each attempt.  get reads them in three statements  *)
(* at READ COMMITTED, so saves of other clients, and retention, come       *)
(* between; save is one transaction that the row's revision guards.  It is *)
(* shown to implement AtomicJob, where a job is one value.                 *)
(***************************************************************************)
EXTENDS JobDomain

CONSTANTS Clients, Missing, Gone,
          MaxJobAttempts,  \* bound: attempts of the job
          MaxSaves         \* bound: saves of the job

ASSUME RepositoryAssumption ==
  /\ MaxJobAttempts \in Nat \ {0} /\ MaxSaves \in Nat
  /\ Missing \notin Jobs /\ Gone \notin Jobs /\ Missing # Gone

VARIABLES
  row,        \* status, current_attempt, revision of the ocr_jobs row
  exists,     \* the row is there
  claimed,    \* retention_claim_token IS NOT NULL
  pages,      \* attempt -> its rows of ocr_job_pages
  artifacts,  \* attempt -> its rows of ocr_artifacts, 0 when there are none
  pc,         \* client -> the statement of get it is at, or what it does with the job
  snap        \* client -> the Job it has, as far as it was read

vars == <<row, exists, claimed, pages, artifacts, pc, snap>>

Attempts == 1..MaxJobAttempts

RowOf(j) == [state |-> j.state, attempt |-> j.attempt, revision |-> j.revision]

Init ==
  /\ row = RowOf(NewJob) /\ exists = FALSE /\ claimed = FALSE
  /\ pages = [a \in Attempts |-> NoPages] /\ artifacts = [a \in Attempts |-> 0]
  /\ pc = [c \in Clients |-> "idle"] /\ snap = [c \in Clients |-> NewJob]

Visible == exists /\ ~ claimed

-----------------------------------------------------------------------------
(* The abstraction: the value of the job, and who has it *)

\* _from_rows
Assembled == [state |-> row.state, attempt |-> row.attempt, revision |-> row.revision,
              pages |-> pages[row.attempt], artifacts |-> artifacts[row.attempt]]

cell == IF Visible THEN Assembled
        ELSE IF exists \/ row # RowOf(NewJob) THEN Gone ELSE Missing

holders == {c \in Clients : /\ Visible /\ pc[c] = "loaded"
                            /\ snap[c].revision = row.revision}

Atomic == INSTANCE AtomicJob WITH cell <- cell, holders <- holders

-----------------------------------------------------------------------------
(* add_with_outbox_and_event *)

InsertJob ==
  /\ cell = Missing
  /\ exists' = TRUE
  /\ UNCHANGED <<row, claimed, pages, artifacts, pc, snap>>

(* get *)

ReadRow(c) ==
  /\ pc[c] = "idle" /\ Visible
  /\ snap' = [snap EXCEPT ![c] = [NewJob EXCEPT !.state = row.state, !.attempt = row.attempt,
                                                !.revision = row.revision]]
  /\ pc' = [pc EXCEPT ![c] = "pages"]
  /\ UNCHANGED <<row, exists, claimed, pages, artifacts>>

\* WHERE attempt = the one of the row that was read
ReadPages(c) ==
  /\ pc[c] = "pages"
  /\ snap' = [snap EXCEPT ![c].pages = pages[snap[c].attempt]]
  /\ pc' = [pc EXCEPT ![c] = "artifacts"]
  /\ UNCHANGED <<row, exists, claimed, pages, artifacts>>

\* Mutant: the revision is read last.
ReadArtifacts_RevisionLast(c) ==
  /\ pc[c] = "artifacts"
  /\ snap' = [snap EXCEPT ![c].artifacts = artifacts[snap[c].attempt],
                          ![c].revision = row.revision]
  /\ pc' = [pc EXCEPT ![c] = "loaded"]
  /\ UNCHANGED <<row, exists, claimed, pages, artifacts>>

\* Mutant: the state is read last.
ReadArtifacts_StateLast(c) ==
  /\ pc[c] = "artifacts"
  /\ snap' = [snap EXCEPT ![c].artifacts = artifacts[snap[c].attempt],
                          ![c].state = row.state]
  /\ pc' = [pc EXCEPT ![c] = "loaded"]
  /\ UNCHANGED <<row, exists, claimed, pages, artifacts>>

ReadArtifacts(c) ==
  /\ pc[c] = "artifacts"
  /\ snap' = [snap EXCEPT ![c].artifacts = artifacts[snap[c].attempt]]
  /\ pc' = [pc EXCEPT ![c] = "loaded"]
  /\ UNCHANGED <<row, exists, claimed, pages, artifacts>>

(* save, save_with_event, save_with_outbox_and_event *)

\* UPDATE ... WHERE retention_claim_token IS NULL AND revision = $15
Saveable(c) == Visible /\ row.revision = snap[c].revision

\* _save_job: the row, then the pages of the job's attempt, then its artifacts if it has
\* any; in one transaction.
Save(c) ==
  /\ pc[c] = "loaded" /\ Saveable(c) /\ row.revision < MaxSaves
  /\ \E k \in Atomic!Edits(snap[c]) :
       LET saved == [k EXCEPT !.revision = @ + 1]
       IN  /\ k.attempt <= MaxJobAttempts
           /\ row' = RowOf(saved)
           /\ pages' = IF k.pages = NoPages THEN pages
                       ELSE [pages EXCEPT ![k.attempt] = k.pages]
           /\ artifacts' = IF k.artifacts = 0 THEN artifacts
                           ELSE [artifacts EXCEPT ![k.attempt] = k.artifacts]
           /\ snap' = [snap EXCEPT ![c] = saved]
  /\ UNCHANGED <<exists, claimed, pc>>

\* ConcurrentJobUpdateError, or the client needs the job no longer.
Forget(c) ==
  /\ pc[c] = "loaded"
  /\ pc' = [pc EXCEPT ![c] = "idle"]
  /\ UNCHANGED <<row, exists, claimed, pages, artifacts, snap>>

(* AsyncpgRetentionRepository *)

ClaimExpired ==
  /\ Visible /\ Terminal(row)
  /\ claimed' = TRUE
  /\ UNCHANGED <<row, exists, pages, artifacts, pc, snap>>

\* complete: pages and artifacts go with the row.
DeleteJob ==
  /\ exists /\ claimed
  /\ exists' = FALSE
  /\ pages' = [a \in Attempts |-> NoPages] /\ artifacts' = [a \in Attempts |-> 0]
  /\ UNCHANGED <<row, claimed, pc, snap>>

Next ==
  \/ InsertJob \/ ClaimExpired \/ DeleteJob
  \/ \E c \in Clients : \/ ReadRow(c) \/ ReadPages(c) \/ ReadArtifacts(c)
                        \/ Save(c) \/ Forget(c)

Spec == Init /\ [][Next]_vars

-----------------------------------------------------------------------------
(* Properties *)

TypeOK ==
  /\ row \in [state : JobStates, attempt : Attempts, revision : Nat]
  /\ exists \in BOOLEAN /\ claimed \in BOOLEAN
  /\ pages \in [Attempts -> [PageNumbers -> PageRecords] \cup {NoPages}]
  /\ artifacts \in [Attempts -> {0} \cup Attempts]
  /\ pc \in [Clients -> {"idle", "pages", "artifacts", "loaded"}]
  /\ snap \in [Clients -> Jobs]

\* The repository behaves as if a job were one value that is read and replaced as a
\* whole: what get puts together from three statements is either the current value, or
\* its revision is out of date and save refuses it.
ImplementsAtomicJob == Atomic!Spec

\* A job that get reports as succeeded lists the artifacts that were committed with its
\* success, although they are read two statements later, and both stand until retention
\* removes the job: no client that still works on it, or on an older attempt, takes
\* the success back or puts other artifacts in the place of those.
SuccessIsFinal ==
  \A c \in Clients :
    pc[c] = "loaded" /\ snap[c].state = "succeeded" /\ exists
      => /\ row.state = "succeeded" /\ row.attempt = snap[c].attempt
         /\ snap[c].artifacts # 0 /\ snap[c].artifacts = artifacts[row.attempt]
=============================================================================
