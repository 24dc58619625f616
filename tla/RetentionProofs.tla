--------------------------- MODULE RetentionProofs ---------------------------
(***************************************************************************)
(* Deletion keeps what readers see whole and leaves nothing behind: for    *)
(* any number of cleaners, jobs and objects, any batch size, and any       *)
(* number of failures, crashes, retries and leases that run out.           *)
(***************************************************************************)
EXTENDS Retention, TLAPS

\* Rows: the upload is never anything but completed or deleted, a job that is still
\* being created has no row, and what has no row yet has no objects.
RowInv ==
  /\ row[Upload] \in {"completed", "deleted"}
  /\ \A j \in Jobs : row[j] # "completed"
  /\ \A j \in creating : row[j] = "none"
  /\ \A a \in Aggregates : row[a] = "none" => recorded[a] = {}

\* A claim is put on a row that has ended, and nothing but its deletion ends the claim.
Ended(a) == row[a] \in {"terminal", "completed"}

ClaimInv == \A a \in Aggregates : token[a] # Nobody => Ended(a)

\* Withdrawn from readers: claimed by some cleaner, or deleted.
Withdrawn(a) == row[a] = "deleted" \/ token[a] # Nobody

\* A cleaner whose lease ran out may work on a row that another cleaner has claimed or
\* deleted, but never on one that a reader sees or a worker writes.
WorkInv ==
  \A c \in Cleaners :
    /\ \A a \in batch[c] : Withdrawn(a)
    /\ current[c] # Nobody => Withdrawn(current[c])
    /\ keys[c] # {} => current[c] # Nobody

\* Storage has only what rows refer to, and of a candidate for which nothing failed
\* only what is still to be deleted.
StoreInv ==
  /\ \A a \in Aggregates : stored[a] \subseteq recorded[a]
  /\ \A c \in Cleaners : current[c] # Nobody /\ ~ failed[c] => stored[current[c]] \subseteq keys[c]

\* The foreign key: the row of the upload outlives the rows of its jobs, also where
\* its object does not.
RowOutlivesJobs == Referenced => Exists(Upload)

RetentionInv ==
  /\ TypeOK /\ RowInv /\ ClaimInv /\ WorkInv /\ StoreInv
  /\ VisibleIntact /\ DeletedLeavesNothing /\ RowOutlivesJobs

-----------------------------------------------------------------------------
\* The upload is completed and unused, and no cleaner is at work.
LEMMA InitInv == Init => RetentionInv
<1> SUFFICES ASSUME Init PROVE RetentionInv
  OBVIOUS
<1> USE RetentionAssumption DEF Init, Aggregates
<1>1. due \in [Aggregates -> BOOLEAN] /\ leased \in [Aggregates -> BOOLEAN]
      /\ failed \in [Cleaners -> BOOLEAN] /\ \A a \in Aggregates : ~ leased[a]
  BY Zenon
<1>2. TypeOK
  BY <1>1 DEF TypeOK
<1>3. RowInv /\ ClaimInv /\ WorkInv /\ StoreInv
  BY DEF RowInv, ClaimInv, WorkInv, StoreInv, Ended
<1>4. VisibleIntact /\ DeletedLeavesNothing /\ RowOutlivesJobs
  BY DEF VisibleIntact, DeletedLeavesNothing, RowOutlivesJobs, Referenced, Exists
<1>5. QED
  BY <1>2, <1>3, <1>4 DEF RetentionInv

\* create_job: the row appears without objects, and only below an upload that is
\* still there.
LEMMA CreateInv ==
  ASSUME RetentionInv, NEW j \in Jobs, CreateRead(j) \/ CreateInsert(j)
  PROVE  RetentionInv'
<1> USE RetentionAssumption DEF RetentionInv, Aggregates, rows, cleanerVars
<1>1. CASE CreateRead(j)
  <2>1. TypeOK'
    BY <1>1 DEF CreateRead, TypeOK
  <2>2. QED
    BY <1>1, <2>1 DEF CreateRead, RowInv, ClaimInv, WorkInv, StoreInv, VisibleIntact,
       DeletedLeavesNothing, RowOutlivesJobs, Referenced, Exists, Visible, Ended, Withdrawn
<1>2. CASE CreateInsert(j)
  <2>1. TypeOK'
    BY <1>2 DEF CreateInsert, TypeOK
  <2>2. row[j] = "none" /\ recorded[j] = {} /\ token[j] = Nobody /\ j # Upload
    BY <1>2 DEF CreateInsert, RowInv, ClaimInv, Ended, TypeOK
  <2>3. RowInv' /\ ClaimInv' /\ WorkInv' /\ StoreInv'
    BY <1>2, <2>2 DEF CreateInsert, TypeOK, RowInv, ClaimInv, WorkInv, StoreInv, Ended, Withdrawn
  <2>4. VisibleIntact' /\ DeletedLeavesNothing' /\ RowOutlivesJobs'
    BY <1>2, <2>2 DEF CreateInsert, TypeOK, VisibleIntact, DeletedLeavesNothing,
       RowOutlivesJobs, Referenced, Exists, Visible
  <2>5. QED
    BY <2>1, <2>3, <2>4
<1>3. QED
  BY <1>1, <1>2

\* The attempt ends or is retried: the row is not claimed, so no cleaner is on it.
LEMMA JobInv ==
  ASSUME RetentionInv, NEW j \in Jobs, EndJob(j) \/ RetryJob(j)
  PROVE  RetentionInv'
<1> USE RetentionAssumption DEF RetentionInv, Aggregates, rows, cleanerVars
<1>1. token[j] = Nobody /\ row[j] \in {"active", "terminal"} /\ j # Upload
  BY DEF EndJob, RetryJob, ClaimInv, Ended, Visible
<1>2. \A c \in Cleaners : j \notin batch[c] /\ current[c] # j
  BY <1>1 DEF WorkInv, Withdrawn
<1>3. recorded[j] \subseteq stored[j]
  BY <1>1 DEF VisibleIntact, Visible, Exists
<1>4. /\ row' \in [Aggregates -> {"none", "active", "terminal", "completed", "deleted"}]
      /\ row'[j] \in {"active", "terminal"} /\ \A a \in Aggregates \ {j} : row'[a] = row[a]
      /\ UNCHANGED <<token, leased, cleanerVars, creating, failures, lapses>>
  <2>1. row' = [row EXCEPT ![j] = "terminal"] \/ row' = [row EXCEPT ![j] = "active"]
    BY DEF EndJob, RetryJob
  <2>2. UNCHANGED <<token, leased, cleanerVars, creating, failures, lapses>>
    BY DEF EndJob, RetryJob
  <2>3. QED
    BY <2>1, <2>2 DEF TypeOK
<1>5. /\ recorded' \in [Aggregates -> SUBSET (JobObjects \cup {Source})]
      /\ stored' \in [Aggregates -> SUBSET (JobObjects \cup {Source})]
      /\ recorded'[j] = stored'[j] \/ (recorded'[j] = recorded[j] /\ stored'[j] = stored[j])
      /\ \A a \in Aggregates \ {j} : recorded'[a] = recorded[a] /\ stored'[a] = stored[a]
  <2>1. \/ UNCHANGED <<recorded, stored>>
        \/ /\ recorded' = [recorded EXCEPT ![j] = JobObjects]
           /\ stored' = [stored EXCEPT ![j] = JobObjects]
    BY DEF EndJob, RetryJob
  <2>2. CASE UNCHANGED <<recorded, stored>>
    BY <2>2 DEF TypeOK
  <2>3. CASE /\ recorded' = [recorded EXCEPT ![j] = JobObjects]
             /\ stored' = [stored EXCEPT ![j] = JobObjects]
    <3>1. JobObjects \in SUBSET (JobObjects \cup {Source})
      OBVIOUS
    <3>2. /\ recorded' \in [Aggregates -> SUBSET (JobObjects \cup {Source})]
          /\ stored' \in [Aggregates -> SUBSET (JobObjects \cup {Source})]
      BY <2>3, <3>1 DEF TypeOK
    <3>3. /\ recorded'[j] = JobObjects /\ stored'[j] = JobObjects
          /\ \A a \in Aggregates \ {j} : recorded'[a] = recorded[a] /\ stored'[a] = stored[a]
      BY <2>3 DEF TypeOK
    <3>4. QED
      BY <3>2, <3>3, Zenon
  <2>4. QED
    BY <2>1, <2>2, <2>3
<1>6. due' \in [Aggregates -> BOOLEAN] /\ retries' \in Nat
  <2>1. due' \in [Aggregates -> BOOLEAN]
    BY Zenon DEF EndJob, RetryJob, TypeOK
  <2>2. QED
    BY <2>1 DEF EndJob, RetryJob, TypeOK
<1>7. TypeOK'
  BY <1>4, <1>5, <1>6 DEF TypeOK
<1>8. RowInv' /\ ClaimInv'
  BY <1>1, <1>4, <1>5 DEF TypeOK, RowInv, ClaimInv, Ended
<1>9. WorkInv' /\ StoreInv'
  BY <1>2, <1>4, <1>5 DEF TypeOK, WorkInv, StoreInv, Withdrawn
<1>10. VisibleIntact' /\ DeletedLeavesNothing' /\ RowOutlivesJobs'
  BY <1>1, <1>3, <1>4, <1>5 DEF TypeOK, VisibleIntact, DeletedLeavesNothing,
     RowOutlivesJobs, Referenced, Exists, Visible
<1>11. QED
  BY <1>7, <1>8, <1>9, <1>10

\* Time passes: neither an expired row nor an expired lease by itself changes what is
\* claimed.
LEMMA ClockInv ==
  ASSUME RetentionInv, NEW a \in Aggregates, Expire(a) \/ LeaseExpires(a)
  PROVE  RetentionInv'
<1> USE DEF RetentionInv
<1>1. /\ due' \in [Aggregates -> BOOLEAN] /\ leased' \in [Aggregates -> BOOLEAN]
      /\ \A b \in Aggregates : leased'[b] => leased[b]
  BY Zenon DEF Expire, LeaseExpires, TypeOK
<1>2. /\ UNCHANGED <<row, token, recorded, stored, cleanerVars, creating, failures, retries>>
      /\ lapses' \in Nat
  BY DEF Expire, LeaseExpires, TypeOK
<1>3. TypeOK'
  BY <1>1, <1>2 DEF TypeOK, cleanerVars
<1>4. QED
  BY <1>2, <1>3 DEF cleanerVars, RowInv, ClaimInv, WorkInv, StoreInv, VisibleIntact,
     DeletedLeavesNothing, RowOutlivesJobs, Referenced, Exists, Visible, Ended, Withdrawn

-----------------------------------------------------------------------------
(* The cleaners *)

\* claim_expired hides what it takes from readers; a row whose lease ran out only
\* changes hands.
LEMMA ClaimKeepsInv ==
  ASSUME RetentionInv, NEW c \in Cleaners, Claim(c)
  PROVE  RetentionInv'
<1> USE RetentionAssumption DEF RetentionInv
<1>1. PICK claim \in SUBSET Aggregates :
        /\ \A a \in claim : Ended(a)
        /\ token' = [a \in Aggregates |-> IF a \in claim THEN c ELSE token[a]]
        /\ leased' = [a \in Aggregates |-> a \in claim \/ leased[a]]
        /\ batch' = [batch EXCEPT ![c] = claim]
  <2> DEFINE jobs == {j \in Jobs : row[j] = "terminal" /\ Claimable(j)}
             uploads == IF row[Upload] = "completed" /\ Claimable(Upload) /\ ~ Referenced
                        THEN {Upload} ELSE {}
             Of(js) == IF Cardinality(js) < BatchSize THEN js \cup uploads ELSE js
  <2>1. PICK js \in kSubset(Min({BatchSize, Cardinality(jobs)}), jobs) :
          /\ token' = [a \in Aggregates |-> IF a \in Of(js) THEN c ELSE token[a]]
          /\ leased' = [a \in Aggregates |-> a \in Of(js) \/ leased[a]]
          /\ batch' = [batch EXCEPT ![c] = Of(js)]
    BY Zenon DEF Claim
  <2>2. js \subseteq jobs
    BY DEF kSubset
  <2>3. Of(js) \in SUBSET Aggregates /\ \A a \in Of(js) : Ended(a)
    BY <2>2 DEF Aggregates, Ended
  <2>4. QED
    BY <2>1, <2>3, Zenon
<1>2. UNCHANGED <<row, due, recorded, stored, current, keys, failed, creating, failures,
                  retries, lapses>>
  BY DEF Claim
<1>3. leased' \in [Aggregates -> BOOLEAN]
      /\ \A a \in Aggregates : leased'[a] => leased[a] \/ a \in claim
  BY <1>1, Zenon
<1>4. /\ token' \in [Aggregates -> Cleaners \cup {Nobody}]
      /\ \A a \in Aggregates : token[a] # Nobody \/ a \in claim <=> token'[a] # Nobody
  BY <1>1 DEF TypeOK
<1>5. TypeOK'
  BY <1>1, <1>2, <1>3, <1>4 DEF TypeOK
<1>6. RowInv' /\ ClaimInv' /\ StoreInv'
  BY <1>1, <1>2, <1>4 DEF RowInv, ClaimInv, StoreInv, Ended
<1>7. WorkInv'
  BY <1>1, <1>2, <1>4 DEF WorkInv, Withdrawn, TypeOK
<1>8. VisibleIntact' /\ DeletedLeavesNothing' /\ RowOutlivesJobs'
  BY <1>2, <1>4 DEF VisibleIntact, DeletedLeavesNothing, RowOutlivesJobs, Referenced,
     Exists, Visible
<1>9. QED
  BY <1>5, <1>6, <1>7, <1>8

\* Everything a cleaner does with its candidate short of deleting the row: it takes it
\* with the keys it refers to, and deletes objects of a row that is withdrawn.
LEMMA WorkKeepsInv ==
  ASSUME RetentionInv, NEW c \in Cleaners,
         \/ Take(c) \/ CompleteFails(c) \/ Defer(c) \/ CrashCleaner(c)
         \/ \E o \in keys[c] : DeleteObject(c, o) \/ DeleteFails(c, o)
  PROVE  RetentionInv'
<1> USE RetentionAssumption DEF RetentionInv
<1>1. /\ UNCHANGED <<row, due, token, recorded, creating, retries, lapses>>
      /\ failures' \in Nat
  BY DEF Take, CompleteFails, Defer, CrashCleaner, DeleteObject, DeleteFails, rows, TypeOK
<1>2. leased' \in [Aggregates -> BOOLEAN] /\ \A a \in Aggregates : leased'[a] => token[a] # Nobody
  <2>1. CASE leased' = leased
    BY <2>1 DEF TypeOK
  <2>2. CASE token[current[c]] = c /\ leased' = [leased EXCEPT ![current[c]] = TRUE]
    <3>1. leased' \in [Aggregates -> BOOLEAN]
          /\ \A a \in Aggregates : leased'[a] => leased[a] \/ a = current[c]
      BY <2>2, Zenon DEF TypeOK
    <3>2. QED
      BY <2>2, <3>1 DEF TypeOK
  <2>3. QED
    BY <2>1, <2>2 DEF Take, CompleteFails, Defer, CrashCleaner, DeleteObject, DeleteFails, rows
<1>3. failed' \in [Cleaners -> BOOLEAN]
  BY Zenon DEF Take, CompleteFails, Defer, CrashCleaner, DeleteObject, DeleteFails, TypeOK
<1>4. CASE Take(c)
  <2>1. PICK a \in batch[c] :
          /\ current' = [current EXCEPT ![c] = a]
          /\ batch' = [batch EXCEPT ![c] = @ \ {a}]
          /\ keys' = [keys EXCEPT ![c] = recorded[a]]
    BY <1>4 DEF Take
  <2>2. stored' = stored /\ \A d \in Cleaners \ {c} : failed'[d] = failed[d]
    BY <1>4 DEF Take, TypeOK
  <2>3. a \in Aggregates /\ Withdrawn(a) /\ stored[a] \subseteq recorded[a] /\ a # Nobody
    BY DEF TypeOK, WorkInv, StoreInv, Aggregates
  <2>4. TypeOK'
    BY <1>1, <1>2, <1>3, <2>1, <2>2, <2>3 DEF TypeOK
  <2>5. WorkInv'
    BY <1>1, <2>1, <2>2, <2>3 DEF WorkInv, Withdrawn, TypeOK
  <2>6. StoreInv'
    BY <1>1, <2>1, <2>2, <2>3 DEF StoreInv, TypeOK
  <2>7. QED
    BY <1>1, <2>2, <2>4, <2>5, <2>6 DEF RowInv, ClaimInv, VisibleIntact,
       DeletedLeavesNothing, RowOutlivesJobs, Referenced, Exists, Visible, Ended
<1>5. CASE \E o \in keys[c] : DeleteObject(c, o)
  <2>1. PICK o \in keys[c] : DeleteObject(c, o)
    BY <1>5
  <2> DEFINE a == current[c]
  <2>2. a \in Aggregates /\ Withdrawn(a)
    BY DEF TypeOK, WorkInv
  <2>3. /\ stored' = [stored EXCEPT ![a] = @ \ {o}] /\ keys' = [keys EXCEPT ![c] = @ \ {o}]
        /\ UNCHANGED <<batch, current, failed>>
    BY <2>1 DEF DeleteObject
  <2>4. \A b \in Aggregates : stored'[b] \subseteq stored[b] /\ (b # a => stored'[b] = stored[b])
    BY <2>2, <2>3 DEF TypeOK
  <2>5. TypeOK'
    BY <1>1, <1>2, <2>2, <2>3 DEF TypeOK
  <2>6. WorkInv'
    BY <1>1, <2>3 DEF WorkInv, Withdrawn, TypeOK
  <2>7. StoreInv'
    BY <1>1, <2>2, <2>3, <2>4 DEF StoreInv, TypeOK
  <2>8. VisibleIntact' /\ DeletedLeavesNothing'
    BY <1>1, <2>2, <2>4 DEF VisibleIntact, DeletedLeavesNothing, Visible, Exists, Withdrawn
  <2>9. QED
    BY <1>1, <2>5, <2>6, <2>7, <2>8 DEF RowInv, ClaimInv, RowOutlivesJobs, Referenced,
       Exists, Ended
<1>6. CASE CompleteFails(c) \/ Defer(c) \/ CrashCleaner(c) \/ \E o \in keys[c] : DeleteFails(c, o)
  <2>1. /\ stored' = stored
        /\ batch' \in [Cleaners -> SUBSET Aggregates] /\ current' \in [Cleaners -> Aggregates \cup {Nobody}]
        /\ keys' \in [Cleaners -> SUBSET (JobObjects \cup {Source})]
    BY <1>6 DEF CompleteFails, Defer, CrashCleaner, DeleteFails, TypeOK
  <2>2. \A d \in Cleaners : batch'[d] \subseteq batch[d]
    BY <1>6 DEF CompleteFails, Defer, CrashCleaner, DeleteFails, TypeOK
  <2>3. \A d \in Cleaners : /\ current'[d] = current[d] \/ current'[d] = Nobody
                            /\ keys'[d] # {} => keys[d] # {} /\ current'[d] = current[d]
    BY <1>6 DEF CompleteFails, Defer, CrashCleaner, DeleteFails, TypeOK, WorkInv
  <2>4. \A d \in Cleaners : current'[d] # Nobody => \/ keys'[d] = keys[d] /\ failed'[d] = failed[d]
                                                   \/ failed'[d] = TRUE
    BY <1>6 DEF CompleteFails, Defer, CrashCleaner, DeleteFails, TypeOK
  <2>5. TypeOK'
    BY <1>1, <1>2, <1>3, <2>1 DEF TypeOK
  <2>6. WorkInv'
    BY <1>1, <2>2, <2>3 DEF WorkInv, Withdrawn
  <2>7. StoreInv'
    BY <1>1, <2>1, <2>3, <2>4 DEF StoreInv
  <2>8. QED
    BY <1>1, <2>1, <2>5, <2>6, <2>7 DEF RowInv, ClaimInv, VisibleIntact,
       DeletedLeavesNothing, RowOutlivesJobs, Referenced, Exists, Visible, Ended
<1>7. QED
  BY <1>4, <1>5, <1>6

\* complete deletes the row it still holds when nothing of it is left in storage, and an
\* upload only when no job refers to it.
LEMMA CompleteKeepsInv ==
  ASSUME RetentionInv, NEW c \in Cleaners, Complete(c)
  PROVE  RetentionInv'
<1> USE RetentionAssumption DEF RetentionInv
<1> DEFINE a == current[c]
<1>1. a \in Aggregates /\ stored[a] = {}
  BY DEF Complete, TypeOK, StoreInv
<1>2. /\ UNCHANGED <<due, recorded, stored, batch, keys, failed, creating, failures, retries, lapses>>
      /\ current' = [current EXCEPT ![c] = Nobody] /\ keys[c] = {}
  BY DEF Complete
<1>3. CASE UNCHANGED <<row, token, leased>>
  <2>1. TypeOK'
    BY <1>2, <1>3 DEF TypeOK
  <2>2. WorkInv' /\ StoreInv'
    BY <1>2, <1>3 DEF WorkInv, StoreInv, Withdrawn, TypeOK
  <2>3. QED
    BY <1>2, <1>3, <2>1, <2>2 DEF RowInv, ClaimInv, VisibleIntact,
       DeletedLeavesNothing, RowOutlivesJobs, Referenced, Exists, Visible, Ended
<1>4. CASE MayDelete(c, a) /\ Deleted(a)
  <2>1. /\ row' = [row EXCEPT ![a] = "deleted"] /\ token' = [token EXCEPT ![a] = Nobody]
        /\ leased' = [leased EXCEPT ![a] = FALSE] /\ token[a] = c /\ (a = Upload => ~ Referenced)
    BY <1>4 DEF MayDelete, Deleted
  <2>2. leased' \in [Aggregates -> BOOLEAN] /\ ~ leased'[a]
        /\ \A b \in Aggregates \ {a} : leased'[b] = leased[b]
    BY <1>1, <2>1, Zenon DEF TypeOK
  <2>3. TypeOK'
    BY <1>1, <1>2, <2>1, <2>2 DEF TypeOK
  <2>4. Ended(a) /\ a \notin creating
    BY <1>1, <2>1 DEF ClaimInv, RowInv, Ended
  <2>5. RowInv' /\ ClaimInv'
    BY <1>1, <1>2, <2>1, <2>4 DEF RowInv, ClaimInv, Ended, TypeOK, Aggregates
  <2>6. WorkInv' /\ StoreInv'
    BY <1>1, <1>2, <2>1 DEF WorkInv, StoreInv, Withdrawn, TypeOK
  <2>7. VisibleIntact' /\ DeletedLeavesNothing'
    BY <1>1, <1>2, <2>1 DEF VisibleIntact, DeletedLeavesNothing, Visible, Exists, TypeOK
  <2>8. RowOutlivesJobs'
    BY <1>1, <2>1 DEF RowOutlivesJobs, Referenced, Exists, TypeOK, Aggregates
  <2>9. QED
    BY <2>3, <2>5, <2>6, <2>7, <2>8
<1>5. QED
  BY <1>3, <1>4 DEF Complete

-----------------------------------------------------------------------------
\* The invariant is inductive: requests, the clock and any number of cleaners keep it.
THEOREM RetentionInductive == Spec => []RetentionInv
<1>1. Init => RetentionInv
  BY InitInv
<1>2. RetentionInv /\ [Next]_vars => RetentionInv'
  <2> SUFFICES ASSUME RetentionInv, [Next]_vars PROVE RetentionInv'
    OBVIOUS
  <2>1. ASSUME NEW j \in Jobs, CreateRead(j) \/ CreateInsert(j) \/ EndJob(j) \/ RetryJob(j)
        PROVE  RetentionInv'
    BY <2>1, CreateInv, JobInv
  <2>2. ASSUME NEW a \in Aggregates, Expire(a) \/ LeaseExpires(a) PROVE RetentionInv'
    BY <2>2, ClockInv
  <2>3. ASSUME NEW c \in Cleaners,
               \/ CleanerStep(c) \/ CompleteFails(c) \/ CrashCleaner(c)
               \/ \E o \in keys[c] : DeleteFails(c, o)
        PROVE  RetentionInv'
    BY <2>3, ClaimKeepsInv, WorkKeepsInv, CompleteKeepsInv DEF CleanerStep
  <2>4. CASE UNCHANGED vars
    BY <2>4 DEF vars, rows, cleanerVars, RetentionInv, TypeOK, RowInv, ClaimInv, WorkInv,
       StoreInv, VisibleIntact, DeletedLeavesNothing, RowOutlivesJobs, Referenced, Exists,
       Visible, Ended, Withdrawn
  <2>5. QED
    BY <2>1, <2>2, <2>3, <2>4 DEF Next
<1>3. QED
  BY <1>1, <1>2, PTL DEF Spec

\* The rows, the claims and the work of the cleaners keep their types; among others a
\* lease is only ever held on a claimed row.
THEOREM RetentionTypeCorrect == Spec => []TypeOK
<1>1. RetentionInv => TypeOK
  BY DEF RetentionInv
<1>2. QED
  BY <1>1, RetentionInductive, PTL

\* Readers never see a job or an upload of which retention has deleted an object.
THEOREM ReadersSeeWhole == Spec => []VisibleIntact
<1>1. RetentionInv => VisibleIntact
  BY DEF RetentionInv
<1>2. QED
  BY <1>1, RetentionInductive, PTL

\* When a row is deleted, every object it referred to is gone from storage.
THEOREM NothingLeftBehind == Spec => []DeletedLeavesNothing
<1>1. RetentionInv => DeletedLeavesNothing
  BY DEF RetentionInv
<1>2. QED
  BY <1>1, RetentionInductive, PTL

\* The row of an upload is deleted only when no row of a job refers to it.
THEOREM UploadRowOutlivesJobs == Spec => []RowOutlivesJobs
<1>1. RetentionInv => RowOutlivesJobs
  BY DEF RetentionInv
<1>2. QED
  BY <1>1, RetentionInductive, PTL
=============================================================================
