----------------------------- MODULE Retention -----------------------------
(***************************************************************************)
(* Deletion of expired data: the cleanup processes of retention_main, the  *)
(* claims they put on rows (AsyncpgRetentionRepository), the objects they  *)
(* delete from storage, and the API handlers that create, finish and retry *)
(* jobs meanwhile.  One upload and the jobs created from it are modelled:  *)
(* rows of different uploads do not interact.                              *)
(*                                                                         *)
(* A claim token is the cleaner that drew it: a cleaner works on one batch *)
(* at a time and forgets its tokens with the batch, so a second token of   *)
(* the same cleaner on a row never meets the first.                        *)
(***************************************************************************)
EXTENDS Naturals, FiniteSetsExt

CONSTANTS Cleaners,     \* retention-cleanup processes
          Jobs,         \* jobs that may be created from the upload
          Upload,       \* the upload session
          JobObjects,   \* objects a job that ran leaves in storage
          Source,       \* the original file
          BatchSize,    \* settings.retention_cleanup_batch_size
          MaxFailures,  \* bound: storage or database calls failing, cleaners killed
          MaxRetries,   \* bound: retry_job requests
          MaxLapses,    \* bound: leases that run out while a cleaner works on the row
          Nobody        \* retention_claim_token IS NULL; no candidate

ASSUME RetentionAssumption ==
  /\ Upload \notin Jobs /\ Source \notin JobObjects /\ Nobody \notin Cleaners
  /\ Nobody \notin Jobs \cup {Upload}
  /\ IsFiniteSet(Jobs)
  /\ BatchSize \in Nat \ {0} /\ {MaxFailures, MaxRetries, MaxLapses} \subseteq Nat

VARIABLES
  row,       \* aggregate -> status of its row
  due,       \* aggregate -> expires_at <= now
  token,     \* aggregate -> retention_claim_token
  leased,    \* aggregate -> retention_lease_expires_at > now
  recorded,  \* aggregate -> object keys its rows refer to
  stored,    \* aggregate -> its objects that are in storage
  batch,     \* cleaner -> candidates of its batch not dealt with yet
  current,   \* cleaner -> the candidate it is working on
  keys,      \* cleaner -> objects of it whose deletion is not finished
  failed,    \* cleaner -> an exception is pending for the candidate
  creating,  \* jobs whose create_job request has found the upload usable
  failures, retries, lapses

rows == <<row, due, token, leased, recorded>>
cleanerVars == <<batch, current, keys, failed>>
vars == <<rows, stored, cleanerVars, creating, failures, retries, lapses>>

Aggregates == Jobs \cup {Upload}

Exists(a) == row[a] \notin {"none", "deleted"}

\* SELECT 1 FROM ocr_jobs WHERE upload_id = ...
Referenced == \E j \in Jobs : Exists(j)

\* What get finds: a claimed row is invisible.
Visible(a) == Exists(a) /\ token[a] = Nobody

\* An upload that was completed and not yet used.
Init ==
  /\ row = [a \in Aggregates |-> IF a = Upload THEN "completed" ELSE "none"]
  /\ due = [a \in Aggregates |-> FALSE]
  /\ token = [a \in Aggregates |-> Nobody] /\ leased = [a \in Aggregates |-> FALSE]
  /\ recorded = [a \in Aggregates |-> IF a = Upload THEN {Source} ELSE {}]
  /\ stored = recorded
  /\ batch = [c \in Cleaners |-> {}] /\ current = [c \in Cleaners |-> Nobody]
  /\ keys = [c \in Cleaners |-> {}] /\ failed = [c \in Cleaners |-> FALSE]
  /\ creating = {} /\ failures = 0 /\ retries = 0 /\ lapses = 0

-----------------------------------------------------------------------------
(* The API and the workers, as far as retention can tell *)

\* create_job finds a completed upload ...
CreateRead(j) ==
  /\ row[j] = "none" /\ j \notin creating
  /\ Visible(Upload)
  /\ creating' = creating \cup {j}
  /\ UNCHANGED <<rows, stored, cleanerVars, failures, retries, lapses>>

\* ... and inserts the job; the foreign key refuses it when the upload row is gone.
CreateInsert(j) ==
  /\ j \in creating
  /\ creating' = creating \ {j}
  /\ row' = IF Exists(Upload) THEN [row EXCEPT ![j] = "active"] ELSE row
  /\ UNCHANGED <<due, token, leased, recorded, stored, cleanerVars, failures, retries, lapses>>

\* The attempt ends, with new objects if the worker found the upload and got that far;
\* _save_job restarts the retention period at completed_at.
EndJob(j) ==
  /\ row[j] = "active"
  /\ row' = [row EXCEPT ![j] = "terminal"]
  /\ due' = [due EXCEPT ![j] = FALSE]
  /\ \/ /\ Visible(Upload)
        /\ recorded' = [recorded EXCEPT ![j] = JobObjects]
        /\ stored' = [stored EXCEPT ![j] = JobObjects]
     \/ UNCHANGED <<recorded, stored>>
  /\ UNCHANGED <<token, leased, cleanerVars, creating, failures, retries, lapses>>

\* retry_job: _save_job updates the row only WHERE retention_claim_token IS NULL.
RetryJob(j) ==
  /\ row[j] = "terminal" /\ Visible(j) /\ retries < MaxRetries
  /\ retries' = retries + 1
  /\ row' = [row EXCEPT ![j] = "active"]
  /\ UNCHANGED <<due, token, leased, recorded, stored, cleanerVars, creating, failures, lapses>>

-----------------------------------------------------------------------------
(* The clock *)

Expire(a) ==
  /\ row[a] \in {"terminal", "completed"} /\ ~ due[a]
  /\ due' = [due EXCEPT ![a] = TRUE]
  /\ UNCHANGED <<row, token, leased, recorded, stored, cleanerVars, creating, failures,
                 retries, lapses>>

WorkedOn(a) == \E c \in Cleaners : token[a] = c /\ (a \in batch[c] \/ current[c] = a)

\* The lease runs out, perhaps while the cleaner that took it is still at work.
LeaseExpires(a) ==
  /\ leased[a]
  /\ WorkedOn(a) => lapses < MaxLapses
  /\ lapses' = IF WorkedOn(a) THEN lapses + 1 ELSE lapses
  /\ leased' = [leased EXCEPT ![a] = FALSE]
  /\ UNCHANGED <<row, due, token, recorded, stored, cleanerVars, creating, failures,
                 retries>>

-----------------------------------------------------------------------------
(* A cleaner: RetentionCleanupService.run_batch, over and over *)

\* Mutant: rows whose lease ran out are not claimed again.
Claimable_Once(a) == due[a] /\ token[a] = Nobody

Claimable(a) == due[a] /\ (token[a] = Nobody \/ ~ leased[a])

\* claim_expired: up to BatchSize jobs, then uploads nothing refers to.
Claim(c) ==
  LET jobs == {j \in Jobs : row[j] = "terminal" /\ Claimable(j)}
      uploads == IF row[Upload] = "completed" /\ Claimable(Upload) /\ ~ Referenced
                 THEN {Upload} ELSE {}
  IN  /\ batch[c] = {} /\ current[c] = Nobody
      /\ \E js \in kSubset(Min({BatchSize, Cardinality(jobs)}), jobs) :
           LET claim == IF Cardinality(js) < BatchSize THEN js \cup uploads ELSE js
           IN  /\ claim # {}
               /\ token' = [a \in Aggregates |-> IF a \in claim THEN c ELSE token[a]]
               /\ leased' = [a \in Aggregates |-> a \in claim \/ leased[a]]
               /\ batch' = [batch EXCEPT ![c] = claim]
      /\ UNCHANGED <<row, due, recorded, stored, current, keys, failed, creating,
                     failures, retries, lapses>>

\* The next candidate: jobs come before uploads.
Take(c) ==
  /\ current[c] = Nobody
  /\ \E a \in batch[c] :
       /\ a = Upload => batch[c] = {Upload}
       /\ current' = [current EXCEPT ![c] = a]
       /\ batch' = [batch EXCEPT ![c] = @ \ {a}]
       /\ keys' = [keys EXCEPT ![c] = recorded[a]]
       /\ failed' = [failed EXCEPT ![c] = FALSE]
  /\ UNCHANGED <<rows, stored, creating, failures, retries, lapses>>

\* _delete_objects deletes concurrently; deleting what is gone succeeds.
DeleteObject(c, o) ==
  /\ o \in keys[c]
  /\ keys' = [keys EXCEPT ![c] = @ \ {o}]
  /\ stored' = [stored EXCEPT ![current[c]] = @ \ {o}]
  /\ UNCHANGED <<rows, batch, current, failed, creating, failures, retries, lapses>>

\* Every deletion is waited for before an exception is raised.
DeleteFails(c, o) ==
  /\ o \in keys[c] /\ failures < MaxFailures
  /\ failures' = failures + 1
  /\ keys' = [keys EXCEPT ![c] = @ \ {o}]
  /\ failed' = [failed EXCEPT ![c] = TRUE]
  /\ UNCHANGED <<rows, stored, batch, current, creating, retries, lapses>>

\* DELETE ... WHERE retention_claim_token = mine, and for an upload NOT EXISTS a job.
MayDelete(c, a) == token[a] = c /\ (a = Upload => ~ Referenced)

Deleted(a) ==
  /\ row' = [row EXCEPT ![a] = "deleted"]
  /\ token' = [token EXCEPT ![a] = Nobody]
  /\ leased' = [leased EXCEPT ![a] = FALSE]

\* Mutant: the exceptions that gather collected are not raised.
Complete_IgnoreFailure(c) ==
  /\ current[c] # Nobody /\ keys[c] = {}
  /\ \/ MayDelete(c, current[c]) /\ Deleted(current[c])
     \/ ~ MayDelete(c, current[c]) /\ UNCHANGED <<row, token, leased>>
  /\ current' = [current EXCEPT ![c] = Nobody]
  /\ UNCHANGED <<due, recorded, stored, batch, keys, failed, creating, failures, retries, lapses>>

\* complete deletes the row, or finds that the claim was lost.
Complete(c) ==
  /\ current[c] # Nobody /\ keys[c] = {} /\ ~ failed[c]
  /\ \/ MayDelete(c, current[c]) /\ Deleted(current[c])
     \/ ~ MayDelete(c, current[c]) /\ UNCHANGED <<row, token, leased>>
  /\ current' = [current EXCEPT ![c] = Nobody]
  /\ UNCHANGED <<due, recorded, stored, batch, keys, failed, creating, failures, retries, lapses>>

CompleteFails(c) ==
  /\ current[c] # Nobody /\ keys[c] = {} /\ ~ failed[c] /\ failures < MaxFailures
  /\ failures' = failures + 1
  /\ failed' = [failed EXCEPT ![c] = TRUE]
  /\ UNCHANGED <<rows, stored, batch, current, keys, creating, retries, lapses>>

\* Mutant: defer gives the claim back.
Defer_Release(c) ==
  /\ current[c] # Nobody /\ keys[c] = {} /\ failed[c]
  /\ token' = [token EXCEPT ![current[c]] = Nobody]
  /\ leased' = [leased EXCEPT ![current[c]] = FALSE]
  /\ current' = [current EXCEPT ![c] = Nobody]
  /\ failed' = [failed EXCEPT ![c] = FALSE]
  /\ UNCHANGED <<row, due, recorded, stored, batch, keys, creating, failures, retries, lapses>>

\* Mutant: defer sets the lease of a row whose claim it has cleared.
Defer_LeaseOnly(c) ==
  /\ current[c] # Nobody /\ keys[c] = {} /\ failed[c]
  /\ token' = [token EXCEPT ![current[c]] = Nobody]
  /\ leased' = [leased EXCEPT ![current[c]] = TRUE]
  /\ current' = [current EXCEPT ![c] = Nobody]
  /\ failed' = [failed EXCEPT ![c] = FALSE]
  /\ UNCHANGED <<row, due, recorded, stored, batch, keys, creating, failures, retries, lapses>>

\* defer moves the lease of a row it still holds to retry_at; the claim stays, also
\* when defer itself fails, which is only logged.
Defer(c) ==
  /\ current[c] # Nobody /\ keys[c] = {} /\ failed[c]
  /\ \/ /\ token[current[c]] = c
        /\ leased' = [leased EXCEPT ![current[c]] = TRUE]
     \/ UNCHANGED leased
  /\ current' = [current EXCEPT ![c] = Nobody]
  /\ failed' = [failed EXCEPT ![c] = FALSE]
  /\ UNCHANGED <<row, due, token, recorded, stored, batch, keys, creating, failures,
                 retries, lapses>>

CleanerStep(c) ==
  \/ Claim(c) \/ Take(c)
  \/ \E o \in keys[c] : DeleteObject(c, o)
  \/ Complete(c) \/ Defer(c)

\* The process is killed: the claims stay behind.
CrashCleaner(c) ==
  /\ batch[c] # {} \/ current[c] # Nobody
  /\ failures < MaxFailures
  /\ failures' = failures + 1
  /\ batch' = [batch EXCEPT ![c] = {}]
  /\ current' = [current EXCEPT ![c] = Nobody]
  /\ keys' = [keys EXCEPT ![c] = {}]
  /\ failed' = [failed EXCEPT ![c] = FALSE]
  /\ UNCHANGED <<rows, stored, creating, retries, lapses>>

-----------------------------------------------------------------------------
Next ==
  \/ \E j \in Jobs : CreateRead(j) \/ CreateInsert(j) \/ EndJob(j) \/ RetryJob(j)
  \/ \E a \in Aggregates : Expire(a) \/ LeaseExpires(a)
  \/ \E c \in Cleaners : \/ CleanerStep(c) \/ CompleteFails(c) \/ CrashCleaner(c)
                         \/ \E o \in keys[c] : DeleteFails(c, o)

Spec == Init /\ [][Next]_vars

\* The cleanup container is restarted and loops; time passes.
Fairness == /\ \A c \in Cleaners : WF_vars(CleanerStep(c))
            /\ \A a \in Aggregates : WF_vars(~ WorkedOn(a) /\ LeaseExpires(a))

FairSpec == Spec /\ Fairness

-----------------------------------------------------------------------------
(* Properties *)

TypeOK ==
  /\ row \in [Aggregates -> {"none", "active", "terminal", "completed", "deleted"}]
  /\ due \in [Aggregates -> BOOLEAN] /\ leased \in [Aggregates -> BOOLEAN]
  /\ token \in [Aggregates -> Cleaners \cup {Nobody}]
  /\ recorded \in [Aggregates -> SUBSET (JobObjects \cup {Source})]
  /\ stored \in [Aggregates -> SUBSET (JobObjects \cup {Source})]
  /\ batch \in [Cleaners -> SUBSET Aggregates]
  /\ current \in [Cleaners -> Aggregates \cup {Nobody}]
  /\ keys \in [Cleaners -> SUBSET (JobObjects \cup {Source})]
  /\ failed \in [Cleaners -> BOOLEAN]
  /\ creating \in SUBSET Jobs /\ failures \in Nat /\ retries \in Nat /\ lapses \in Nat
  /\ \A a \in Aggregates : leased[a] => token[a] # Nobody

\* Whatever a reader can still see is whole: every object a visible row refers to is
\* in storage, while cleaners race, fail half-way, crash and lose their leases
\* (a claim keeps "partially deleted jobs out of public reads", persistence.py).
VisibleIntact ==
  \A a \in Aggregates : Visible(a) => recorded[a] \subseteq stored[a]

\* A deleted row leaves no object behind that it referred to: complete comes after
\* every deletion has succeeded.
DeletedLeavesNothing ==
  \A a \in Aggregates : row[a] = "deleted" => stored[a] = {}

\* README: "Original uploads are removed only after no job still references them."
UploadsOutliveJobs == Referenced => Source \in stored[Upload]

\* A job past its retention period is deleted or retried, whatever failed or crashed:
\* leases run out and what was claimed is claimed again.
ExpiredJobsGo ==
  \A j \in Jobs : due[j] /\ row[j] = "terminal" ~> row[j] # "terminal"
=============================================================================
