------------------------------- MODULE Intake -------------------------------
(***************************************************************************)
(* From a file to a job: create_upload opens a session, the client writes  *)
(* the file to object storage through presigned URLs, complete_upload      *)
(* checks what is there, create_job adds a job under an idempotency key.   *)
(* Requests run concurrently and fail anywhere; retention removes expired  *)
(* jobs and sessions meanwhile.  One session and one (api key, idempotency *)
(* key) are modelled.  Requests that an ownership, declaration or          *)
(* parameter check turns away change nothing and are left out.             *)
(*                                                                         *)
(* A file is told apart by what the checks can tell: the declared bytes,   *)
(* other bytes of the declared size, or a wrong size.                      *)
(***************************************************************************)
EXTENDS Naturals

CONSTANTS Calls,        \* API requests under way at the same time
          JobIds,       \* ids create_job may draw
          Options,      \* what requests under the key may ask for
          MaxWrites,    \* bound: writes of the source object
          MaxFailures,  \* bound: calls of the cleaner failing
          NoJob, NoOption

ASSUME IntakeAssumption ==
  /\ NoJob \notin JobIds /\ NoOption \notin Options
  /\ MaxWrites \in Nat /\ MaxFailures \in Nat

VARIABLES
  multipart,  \* size_bytes >= multipart_threshold_bytes
  genuine,    \* the declared bytes are of the declared, supported type
  session,    \* status of the upload_sessions row; lost: the insert failed
  claimed,    \* its retention_claim_token IS NOT NULL
  due,        \* its expires_at <= now
  urls,       \* the client has presigned URLs that are still valid
  open,       \* the multipart upload exists in storage
  parts,      \* what the client has uploaded as parts
  object,     \* the source object
  writes,     \* how often the source object was written
  job,        \* id -> the ocr_jobs row with the key
  asked,      \* id -> options of the job
  answers,    \* history: jobs create_job answered with, and to which options
  call,       \* call -> where it is and its locals
  cleaner,    \* where the retention cleaner is with the session
  failures

rowVars == <<session, claimed, due>>
storageVars == <<urls, open, parts, object, writes>>
jobVars == <<job, asked, answers>>
declared == <<multipart, genuine>>
vars == <<declared, rowVars, storageVars, jobVars, call, cleaner, failures>>

Contents == {"declared", "other", "short"}
Rows == {"pending", "completed", "rejected"}

\* SELECT ... WHERE retention_claim_token IS NULL
Visible == session \in Rows /\ ~ claimed

JobRow(j) == job[j] \in {"live", "claimed"}
Referenced == \E j \in JobIds : JobRow(j)

NoCall == [at |-> "idle", verdict |-> "none", opt |-> NoOption, found |-> NoJob]

Init ==
  /\ multipart \in BOOLEAN /\ genuine \in BOOLEAN
  /\ session = "none" /\ claimed = FALSE /\ due = FALSE
  /\ urls = FALSE /\ open = FALSE /\ parts = "none" /\ object = "none" /\ writes = 0
  /\ job = [j \in JobIds |-> "none"] /\ asked = [j \in JobIds |-> NoOption]
  /\ answers = {} /\ call = [c \in Calls |-> NoCall] /\ cleaner = "idle" /\ failures = 0

Goto(c, label) == call' = [call EXCEPT ![c].at = label]
Return(c) == call' = [call EXCEPT ![c] = NoCall]

-----------------------------------------------------------------------------
(* create_upload *)

\* create_upload_target: a large file gets a multipart upload.
CreateTarget(c) ==
  /\ call[c].at = "idle" /\ session = "none" /\ \A d \in Calls : call[d].at # "add"
  /\ open' = multipart
  /\ Goto(c, "add")
  /\ UNCHANGED <<declared, rowVars, urls, parts, object, writes, jobVars, cleaner, failures>>

\* The row is written, and the client gets the URLs.
AddSession(c) ==
  /\ call[c].at = "add"
  /\ session' = "pending" /\ urls' = TRUE
  /\ Return(c)
  /\ UNCHANGED <<declared, claimed, due, open, parts, object, writes, jobVars, cleaner, failures>>

\* The client never gets the URLs; unless only the answer was lost, nothing refers to the
\* target any more.
AddFails(c) ==
  /\ call[c].at = "add"
  /\ session' \in {"lost", "pending"}
  /\ Return(c)
  /\ UNCHANGED <<declared, claimed, due, storageVars, jobVars, cleaner, failures>>

-----------------------------------------------------------------------------
(* The client and the clock *)

\* A PUT of the whole file; the URL can be used again.
Put(content) ==
  /\ urls /\ ~ multipart /\ writes < MaxWrites
  /\ object' = content /\ writes' = writes + 1
  /\ UNCHANGED <<declared, rowVars, urls, open, parts, jobVars, call, cleaner, failures>>

PutParts(content) ==
  /\ urls /\ multipart /\ open /\ parts # content
  /\ parts' = content
  /\ UNCHANGED <<declared, rowVars, urls, open, object, writes, jobVars, call, cleaner, failures>>

UrlsExpire ==
  /\ urls
  /\ urls' = FALSE
  /\ UNCHANGED <<declared, rowVars, open, parts, object, writes, jobVars, call, cleaner, failures>>

\* A session lives longer than its URLs, with the settings as they are by default.
SessionExpires ==
  /\ session \in Rows /\ ~ urls /\ ~ due
  /\ due' = TRUE
  /\ UNCHANGED <<declared, session, claimed, storageVars, jobVars, call, cleaner, failures>>

-----------------------------------------------------------------------------
(* complete_upload *)

\* A settled session is answered from the row; a pending one is looked at.
CompleteRead(c) ==
  /\ call[c].at = "idle" /\ Visible /\ session = "pending"
  /\ Goto(c, "assemble")
  /\ UNCHANGED <<declared, rowVars, storageVars, jobVars, cleaner, failures>>

\* storage.complete_upload: nothing to do for a PUT; a multipart upload is assembled
\* once, and is unknown (NoSuchUpload) after that.
Assemble(c) ==
  /\ call[c].at = "assemble"
  /\ \/ ~ multipart /\ Goto(c, "stat") /\ UNCHANGED storageVars
     \/ /\ multipart /\ open /\ parts # "none"
        /\ object' = parts /\ open' = FALSE /\ writes' = writes + 1
        /\ Goto(c, "stat")
        /\ UNCHANGED <<urls, parts>>
     \/ multipart /\ ~ (open /\ parts # "none") /\ Return(c) /\ UNCHANGED storageVars
  /\ UNCHANGED <<declared, rowVars, jobVars, cleaner, failures>>

Judge(c, v) == call' = [call EXCEPT ![c].at = "save", ![c].verdict = v]

\* Mutant: an object that is not there is taken for one of the wrong size.
Stat_MissingRejected(c) ==
  /\ call[c].at = "stat"
  /\ \/ object \in {"none", "short"} /\ Judge(c, "rejected")
     \/ object \notin {"none", "short"} /\ Goto(c, "get")
  /\ UNCHANGED <<declared, rowVars, storageVars, jobVars, cleaner, failures>>

\* storage.stat: no object, no verdict; a wrong size is rejected.
Stat(c) ==
  /\ call[c].at = "stat"
  /\ \/ object = "none" /\ Return(c)
     \/ object = "short" /\ Judge(c, "rejected")
     \/ object \notin {"none", "short"} /\ Goto(c, "get")
  /\ UNCHANGED <<declared, rowVars, storageVars, jobVars, cleaner, failures>>

\* validate: the size, and the type that the bytes show.
Validates(content) == content = "declared" /\ genuine

\* Mutant: the bytes are not hashed, the type is looked at.
Get_NoHash(c) ==
  /\ call[c].at = "get"
  /\ \/ object = "none" /\ Return(c)
     \/ object # "none" /\ ~ genuine /\ Return(c)
     \/ object # "none" /\ genuine /\ Judge(c, "completed")
  /\ UNCHANGED <<declared, rowVars, storageVars, jobVars, cleaner, failures>>

\* storage.get_bytes, the hash and the validator, which raises without a verdict.
Get(c) ==
  /\ call[c].at = "get"
  /\ \/ object = "none" /\ Return(c)
     \/ object \in {"other", "short"} /\ Judge(c, "rejected")
     \/ object = "declared" /\ ~ Validates(object) /\ Return(c)
     \/ object = "declared" /\ Validates(object) /\ Judge(c, "completed")
  /\ UNCHANGED <<declared, rowVars, storageVars, jobVars, cleaner, failures>>

\* uploads.save: by id and without a revision; refused once retention has the row.
SaveVerdict(c) ==
  /\ call[c].at = "save"
  /\ session' = IF Visible THEN call[c].verdict ELSE session
  /\ Return(c)
  /\ UNCHANGED <<declared, claimed, due, storageVars, jobVars, cleaner, failures>>

-----------------------------------------------------------------------------
(* create_job *)

CreateRead(c) ==
  /\ call[c].at = "idle" /\ Visible /\ session = "completed"
  /\ \E o \in Options : call' = [call EXCEPT ![c].at = "find", ![c].opt = o]
  /\ UNCHANGED <<declared, rowVars, storageVars, jobVars, cleaner, failures>>

\* The first of find_by_idempotency_key's two statements: the id, claimed or not.
Find(c) ==
  /\ call[c].at \in {"find", "refind"}
  /\ \/ \E j \in JobIds :
          /\ JobRow(j)
          /\ call' = [call EXCEPT ![c].found = j,
                                  ![c].at = IF @ = "find" THEN "load" ELSE "reload"]
     \/ /\ ~ Referenced
        /\ IF call[c].at = "find" THEN Goto(c, "insert") ELSE Return(c)
  /\ UNCHANGED <<declared, rowVars, storageVars, jobVars, cleaner, failures>>

Answer(c, j) == answers' = answers \cup {[job |-> j, opt |-> call[c].opt]}

\* existing.upload_id and existing.options are those of the request.
SameRequest(c) == asked[call[c].found] = call[c].opt

\* Mutant: a job that cannot be reloaded is answered all the same.
Load_NoneAnswered(c) ==
  /\ call[c].at \in {"load", "reload"}
  /\ \/ /\ job[call[c].found] = "live"
        /\ IF SameRequest(c) THEN Answer(c, call[c].found) ELSE UNCHANGED answers
        /\ Return(c)
     \/ /\ job[call[c].found] # "live"
        /\ IF call[c].at = "load" THEN Goto(c, "insert") /\ UNCHANGED answers
           ELSE Return(c) /\ Answer(c, NoJob)
  /\ UNCHANGED <<declared, rowVars, storageVars, job, asked, cleaner, failures>>

\* get: the job, unless retention has it; then go on as if there were none, or give up.
Load(c) ==
  /\ call[c].at \in {"load", "reload"}
  /\ \/ /\ job[call[c].found] = "live"
        /\ IF SameRequest(c) THEN Answer(c, call[c].found) ELSE UNCHANGED answers
        /\ Return(c)
     \/ /\ job[call[c].found] # "live" /\ UNCHANGED answers
        /\ IF call[c].at = "load" THEN Goto(c, "insert") ELSE Return(c)
  /\ UNCHANGED <<declared, rowVars, storageVars, job, asked, cleaner, failures>>

\* Mutant: the index does not cover jobs that retention has claimed.
KeyTaken_Live == \E j \in JobIds : job[j] = "live"

\* uq_ocr_jobs_api_key_idempotency
KeyTaken == Referenced

\* add_with_outbox_and_event: one transaction, refused by the index, or by the foreign
\* key when the session is gone; its answer may be lost after the commit.
Insert(c) ==
  /\ call[c].at = "insert"
  /\ \/ /\ KeyTaken /\ session \in Rows
        /\ Goto(c, "refind") /\ UNCHANGED jobVars
     \/ /\ ~ KeyTaken /\ session \in Rows
        /\ \E j \in JobIds :
             /\ job[j] = "none"
             /\ job' = [job EXCEPT ![j] = "live"]
             /\ asked' = [asked EXCEPT ![j] = call[c].opt]
             /\ Answer(c, j) \/ UNCHANGED answers
        /\ Return(c)
     \/ session \notin Rows /\ Return(c) /\ UNCHANGED jobVars
  /\ UNCHANGED <<declared, rowVars, storageVars, cleaner, failures>>

\* Any call of a request fails (_database, _storage), or the process is killed.
CallFails(c) ==
  /\ call[c].at \notin {"idle", "add"}
  /\ Return(c)
  /\ UNCHANGED <<declared, rowVars, storageVars, jobVars, cleaner, failures>>

-----------------------------------------------------------------------------
(* Retention *)

ClaimJob(j) ==
  /\ job[j] = "live"
  /\ job' = [job EXCEPT ![j] = "claimed"]
  /\ UNCHANGED <<declared, rowVars, storageVars, asked, answers, call, cleaner, failures>>

DeleteJob(j) ==
  /\ job[j] = "claimed"
  /\ job' = [job EXCEPT ![j] = "deleted"]
  /\ UNCHANGED <<declared, rowVars, storageVars, asked, answers, call, cleaner, failures>>

\* Mutant: the multipart upload of a pending session is not handed over.
ClaimSession_NoMultipart ==
  /\ cleaner = "idle" /\ session \in Rows /\ due /\ ~ Referenced
  /\ claimed' = TRUE /\ cleaner' = "object"
  /\ UNCHANGED <<declared, session, due, storageVars, jobVars, call, failures>>

\* claim_expired, for the first time or after the lease of an earlier claim; only a
\* pending session's multipart upload is handed to the cleaner.
ClaimSession ==
  /\ cleaner = "idle" /\ session \in Rows /\ due /\ ~ Referenced
  /\ claimed' = TRUE
  /\ cleaner' = IF multipart /\ session = "pending" THEN "abort" ELSE "object"
  /\ UNCHANGED <<declared, session, due, storageVars, jobVars, call, failures>>

\* Mutant: aborting an upload that was assembled in between is an error.
Abort_NotIdempotent ==
  /\ cleaner = "abort"
  /\ open' = FALSE
  /\ cleaner' = IF open THEN "object" ELSE "idle"
  /\ UNCHANGED <<declared, rowVars, urls, parts, object, writes, jobVars, call, failures>>

\* abort_multipart_upload: NoSuchUpload is no error.
Abort ==
  /\ cleaner = "abort"
  /\ open' = FALSE /\ cleaner' = "object"
  /\ UNCHANGED <<declared, rowVars, urls, parts, object, writes, jobVars, call, failures>>

DeleteSource ==
  /\ cleaner = "object"
  /\ object' = "none" /\ cleaner' = "row"
  /\ UNCHANGED <<declared, rowVars, urls, open, parts, writes, jobVars, call, failures>>

\* complete: unless a job refers to the session by now.
DeleteSession ==
  /\ cleaner = "row"
  /\ \/ ~ Referenced /\ session' = "deleted" /\ claimed' = FALSE
     \/ Referenced /\ UNCHANGED <<session, claimed>>
  /\ cleaner' = "idle"
  /\ UNCHANGED <<declared, due, storageVars, jobVars, call, failures>>

\* A call of the cleaner fails: the claim stays until its lease is over.
CleanerFails ==
  /\ cleaner # "idle" /\ failures < MaxFailures
  /\ failures' = failures + 1 /\ cleaner' = "idle"
  /\ UNCHANGED <<declared, rowVars, storageVars, jobVars, call>>

-----------------------------------------------------------------------------
CreateUpload(c) == CreateTarget(c) \/ AddSession(c) \/ AddFails(c)
CompleteUpload(c) == CompleteRead(c) \/ Assemble(c) \/ Stat(c) \/ Get(c) \/ SaveVerdict(c)
CreateJob(c) == CreateRead(c) \/ Find(c) \/ Load(c) \/ Insert(c)
Cleaner == ClaimSession \/ Abort \/ DeleteSource \/ DeleteSession

Next ==
  \/ \E c \in Calls : CreateUpload(c) \/ CompleteUpload(c) \/ CreateJob(c) \/ CallFails(c)
  \/ \E content \in Contents : Put(content) \/ PutParts(content)
  \/ UrlsExpire \/ SessionExpires
  \/ \E j \in JobIds : ClaimJob(j) \/ DeleteJob(j)
  \/ Cleaner \/ CleanerFails

Spec == Init /\ [][Next]_vars

\* The cleanup container loops; clients and jobs owe nothing.
FairSpec == Spec /\ WF_vars(Cleaner)

-----------------------------------------------------------------------------
(* Properties *)

Labels == {"idle", "add", "assemble", "stat", "get", "save", "find", "load", "refind",
           "reload", "insert"}

TypeOK ==
  /\ declared \in BOOLEAN \X BOOLEAN
  /\ session \in Rows \cup {"none", "lost", "deleted"}
  /\ claimed \in BOOLEAN /\ due \in BOOLEAN /\ urls \in BOOLEAN /\ open \in BOOLEAN
  /\ parts \in Contents \cup {"none"} /\ object \in Contents \cup {"none"}
  /\ writes \in Nat /\ failures \in Nat
  /\ job \in [JobIds -> {"none", "live", "claimed", "deleted"}]
  /\ asked \in [JobIds -> Options \cup {NoOption}]
  /\ answers \subseteq [job : JobIds, opt : Options]
  /\ call \in [Calls -> [at : Labels, verdict : {"none", "completed", "rejected"},
                         opt : Options \cup {NoOption}, found : JobIds \cup {NoJob}]]
  /\ cleaner \in {"idle", "abort", "object", "row"}

\* A session that was completed or rejected stays so, whatever completions of it are
\* still under way, as long as the client has written the file only once: save has no
\* revision, so it takes that every verdict about the same bytes is the same.
VerdictStands ==
  [][(writes <= 1 /\ session \in {"completed", "rejected"})
       => session' \in {session, "deleted"}]_vars

\* A visible completed session has the declared bytes, of the declared type, in storage,
\* as long as the client has written the file only once.
CompletedIntact ==
  (Visible /\ session = "completed" /\ writes <= 1) => (object = "declared" /\ genuine)

\* Requests with one idempotency key are answered with one job while it exists, however
\* look-ups, inserts, lost answers and retention interleave.
KeyAnswersAgree ==
  \A a, b \in answers : a.job # b.job => "deleted" \in {job[a.job], job[b.job]}

\* A deleted session leaves nothing in storage, also when a completion that read the row
\* before the claim assembles the parts while the cleaner works.
SessionLeavesNothing == session = "deleted" => object = "none" /\ ~ open

\* A session that expired is deleted, unless a job refers to it, whatever the
\* completions that race with the cleaner have done to its multipart upload.
ExpiredSessionGoes == due /\ session \in Rows ~> session = "deleted" \/ Referenced
=============================================================================
