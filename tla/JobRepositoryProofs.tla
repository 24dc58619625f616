------------------------ MODULE JobRepositoryProofs -------------------------
(***************************************************************************)
(* The three tables behave as one value that is compared and replaced: for *)
(* any number of clients, pages, page retries, attempts and saves, the job *)
(* repository implements AtomicJob, and a success that get reports stands  *)
(* with its artifacts.                                                     *)
(***************************************************************************)
EXTENDS JobRepository, TLAPS

\* The rows of an attempt appear with that attempt and go with the job.  A row that
\* nobody has saved is the one InsertJob writes, and nobody can have read it before.
TableInv ==
  /\ \A a \in Attempts : ~ exists \/ a > row.attempt => pages[a] = NoPages /\ artifacts[a] = 0
  /\ row.revision = 0 => row = RowOf(NewJob)
  /\ ~ exists /\ row.revision = 0 => \A c \in Clients : pc[c] = "idle"
  /\ claimed => Terminal(row)

\* The row is marked succeeded with the artifacts in place.
ResultInv == exists /\ row.state = "succeeded" => artifacts[row.attempt] # 0

\* What a client has read of the job agrees with the tables, or its revision is
\* behind.  Pages of a succeeded job are still saved, so its revision may be behind
\* too, and yet its state, its attempt and its artifacts are those of the tables.
Agrees(c) ==
  /\ snap[c].state = row.state /\ snap[c].attempt = row.attempt
  /\ pc[c] \in {"artifacts", "loaded"} => snap[c].pages = pages[row.attempt]
  /\ pc[c] = "loaded" => snap[c].artifacts = artifacts[row.attempt]

SnapOf(c) ==
  /\ snap[c].attempt \in Attempts
  /\ pc[c] # "idle" => /\ snap[c].revision <= row.revision
                       /\ exists /\ snap[c].revision = row.revision => Agrees(c)
                       /\ exists /\ snap[c].state = "succeeded"
                            => /\ row.state = "succeeded" /\ snap[c].attempt = row.attempt
                               /\ pc[c] = "loaded" => snap[c].artifacts = artifacts[row.attempt]

SnapInv == \A c \in Clients : SnapOf(c)

RepositoryInv == TypeOK /\ TableInv /\ ResultInv /\ SnapInv

-----------------------------------------------------------------------------
\* A job that has pages is told from one that has none.
LEMMA PagesAreNotEmpty == NoPages \notin [PageNumbers -> PageRecords]
<1>1. DOMAIN NoPages = {} /\ 1 \in PageNumbers
  BY DomainAssumption DEF NoPages, PageNumbers
<1>2. QED
  BY <1>1

\* Page.start, Page.succeed and Page.fail give a page.
LEMMA PageEditsType ==
  ASSUME NEW p \in PageRecords, NEW q \in Atomic!PageEdits(p)
  PROVE  q \in PageRecords
BY DomainAssumption DEF PageRecords, PageStates, Atomic!PageEdits, Atomic!Allowed,
   Atomic!PageStart, Atomic!PageSucceed, Atomic!PageFail, Atomic!MaxAttempts

\* What is made of a job between two saves: a job of the same revision, of the same
\* attempt or, by retry, the next one without artifacts.  No edit takes all pages or
\* all artifacts of the attempt away, lists artifacts of a later attempt, succeeds
\* without artifacts, or touches a succeeded job but for its pages.
EditOf(j, k) ==
  /\ k \in Jobs /\ k.revision = j.revision
  /\ k.pages = NoPages => j.pages = NoPages
  /\ \/ k.attempt = j.attempt /\ k.artifacts \in {j.artifacts} \cup 1..j.attempt
     \/ k.attempt = j.attempt + 1 /\ k.artifacts = 0
  /\ IF j.state = "succeeded"
     THEN k.state = "succeeded" /\ k.attempt = j.attempt /\ k.artifacts = j.artifacts
     ELSE k.state = "succeeded" => k.artifacts # 0

LEMMA EditsAreEdits ==
  ASSUME NEW j \in Jobs, NEW k \in Atomic!Edits(j)
  PROVE  EditOf(j, k)
<1> USE DomainAssumption, PagesAreNotEmpty DEF Atomic!Allowed
<1> USE DEF Jobs, JobStates, EditOf
<1>1. CASE \/ k = Atomic!BeginPreprocessing(j) /\ Atomic!CanBeginPreprocessing(j)
           \/ k = Atomic!BeginRunning(j) /\ Atomic!CanBeginRunning(j)
           \/ k = Atomic!CancelJob(j) /\ Atomic!CanRequestCancel(j)
           \/ k = Atomic!Cancel(j) /\ Atomic!CanCancel(j)
           \/ k = Atomic!BeginAssembling(j) /\ Atomic!CanBeginAssembling(j)
           \/ k = Atomic!Fail(j) /\ Atomic!CanFail(j)
           \/ k = j
  BY <1>1 DEF Atomic!CancelJob, Atomic!BeginPreprocessing, Atomic!CanBeginPreprocessing,
     Atomic!BeginRunning, Atomic!CanBeginRunning, Atomic!RequestCancel,
     Atomic!CanRequestCancel, Atomic!Cancel, Atomic!CanCancel, Atomic!BeginAssembling,
     Atomic!CanBeginAssembling, Atomic!Fail, Atomic!CanFail, Atomic!Terminal
<1>2. CASE k = Atomic!SetPages(j) /\ Atomic!CanSetPages(j)
  <2>1. PICK ps \in [PageNumbers -> PageRecords] : k = [j EXCEPT !.pages = ps]
    BY <1>2 DEF Atomic!SetPages, Atomic!NewPage, Atomic!PageNumbers, PageNumbers, PageRecords,
                PageStates
  <2>2. j.state = "preprocessing"
    BY <1>2 DEF Atomic!CanSetPages
  <2>3. QED
    BY <2>1, <2>2
<1>3. CASE Atomic!CanSucceed(j) /\ \E a \in 1..j.attempt : k = Atomic!Succeed(j, a)
  <2>1. PICK a \in 1..j.attempt : k = Atomic!Succeed(j, a)
    BY <1>3
  <2>2. k = [j EXCEPT !.state = "succeeded", !.artifacts = a] /\ a \in Nat \ {0}
    BY <2>1 DEF Atomic!Succeed
  <2>3. j.state = "assembling"
    BY <1>3 DEF Atomic!CanSucceed
  <2>4. QED
    BY <2>2, <2>3
<1>4. CASE k = Atomic!Retry(j) /\ Atomic!CanRetry(j)
  <2>1. ASSUME NEW p \in PageRecords PROVE Atomic!PagePrepareRetry(p) \in PageRecords
    BY DEF Atomic!PagePrepareRetry, Atomic!NewPage, PageRecords, PageStates
  <2>2. \/ k.pages = NoPages /\ j.pages = NoPages
        \/ k.pages \in [PageNumbers -> PageRecords]
    BY <1>4, <2>1 DEF Atomic!Retry, Atomic!NoPages, NoPages, Atomic!PageNumbers, PageNumbers
  <2>3. k = [state |-> "retrying", attempt |-> j.attempt + 1, revision |-> j.revision,
             pages |-> k.pages, artifacts |-> 0]
    BY <1>4 DEF Atomic!Retry
  <2>4. QED
    BY <1>4, <2>2, <2>3 DEF Atomic!CanRetry
<1>5. CASE /\ j.pages # NoPages
           /\ \E n \in PageNumbers :
                \E p \in Atomic!PageEdits(j.pages[n]) : k = Atomic!WithPage(j, n, p)
  <2>1. PICK n \in PageNumbers :
               \E p \in Atomic!PageEdits(j.pages[n]) : k = Atomic!WithPage(j, n, p)
    BY <1>5
  <2>2. PICK p \in Atomic!PageEdits(j.pages[n]) : k = Atomic!WithPage(j, n, p)
    BY <2>1
  <2>3. j.pages \in [PageNumbers -> PageRecords] /\ p \in PageRecords
    BY <1>5, PageEditsType
  <2>4. k = [j EXCEPT !.pages = [j.pages EXCEPT ![n] = p]]
    BY <2>2 DEF Atomic!WithPage
  <2>5. QED
    BY <2>3, <2>4
<1>6. Atomic!NoPages = NoPages /\ Atomic!PageNumbers = PageNumbers
  BY DEF Atomic!NoPages, NoPages, Atomic!PageNumbers, PageNumbers
<1>7. QED
  BY <1>1, <1>2, <1>3, <1>4, <1>5, <1>6 DEF Atomic!Edits

-----------------------------------------------------------------------------
\* The tables start out empty.
LEMMA InitInv == Init => RepositoryInv
<1> SUFFICES ASSUME Init PROVE RepositoryInv
  OBVIOUS
<1> USE DEF Init
<1>1. NewJob \in Jobs /\ NewJob.attempt = 1 /\ NewJob.revision = 0 /\ NewJob.state = "queued"
  BY DEF NewJob, Jobs, JobStates
<1>2. row = [state |-> "queued", attempt |-> 1, revision |-> 0] /\ 1 \in Attempts
  BY <1>1, RepositoryAssumption DEF RowOf, Attempts
<1>3. exists \in BOOLEAN /\ claimed \in BOOLEAN
  BY Zenon
<1>4. TypeOK
  BY <1>1, <1>2, <1>3 DEF TypeOK, JobStates
<1>5. TableInv /\ ResultInv /\ SnapInv
  BY <1>1, <1>2 DEF TableInv, ResultInv, SnapInv, SnapOf
<1>6. QED
  BY <1>4, <1>5 DEF RepositoryInv

\* What the tables hold of the current attempt is a job, and not one of the two
\* values that stand for its absence.
LEMMA AssembledIsJob ==
  ASSUME RepositoryInv
  PROVE  Assembled \in Jobs /\ Assembled \notin {Missing, Gone}
<1>1. row.attempt \in Attempts /\ row.attempt \in Nat
  BY RepositoryAssumption DEF RepositoryInv, TypeOK, Attempts
<1>2. pages[row.attempt] \in [PageNumbers -> PageRecords] \cup {NoPages}
      /\ artifacts[row.attempt] \in Nat
  BY <1>1, RepositoryAssumption DEF RepositoryInv, TypeOK, Attempts
<1>3. Assembled \in Jobs
  BY <1>1, <1>2 DEF Assembled, Jobs, RepositoryInv, TypeOK
<1>4. QED
  BY <1>3, RepositoryAssumption

\* A client that could save has the job as the tables hold it.
LEMMA HolderHasJob ==
  ASSUME RepositoryInv, NEW c \in Clients, pc[c] = "loaded", Saveable(c)
  PROVE  snap[c] = Assembled
<1>1. snap[c] \in Jobs
  BY DEF RepositoryInv, TypeOK
<1>2. Agrees(c) /\ snap[c].revision = row.revision
  BY DEF RepositoryInv, SnapInv, SnapOf, Saveable, Visible
<1>3. snap[c] = [state |-> snap[c].state, attempt |-> snap[c].attempt,
                 revision |-> snap[c].revision, pages |-> snap[c].pages,
                 artifacts |-> snap[c].artifacts]
  BY <1>1 DEF Jobs
<1>4. QED
  BY <1>2, <1>3 DEF Agrees, Assembled

\* The transaction of save: one edit of the current job replaces the row and the rows
\* of the edit's attempt, also where it leaves a table alone.
Replaces(c, k) ==
  /\ Visible /\ pc[c] = "loaded" /\ snap[c] = Assembled
  /\ k \in Atomic!Edits(Assembled) /\ EditOf(Assembled, k) /\ k.attempt \in Attempts
  /\ row' = [state |-> k.state, attempt |-> k.attempt, revision |-> row.revision + 1]
  /\ pages' = [pages EXCEPT ![k.attempt] = k.pages]
  /\ artifacts' = [artifacts EXCEPT ![k.attempt] = k.artifacts]
  /\ snap' = [snap EXCEPT ![c] = [k EXCEPT !.revision = @ + 1]]
  /\ UNCHANGED <<exists, claimed, pc>>

LEMMA SaveReplaces ==
  ASSUME RepositoryInv, NEW c \in Clients, Save(c)
  PROVE  \E k : Replaces(c, k)
<1>1. Saveable(c) /\ Visible /\ pc[c] = "loaded" /\ snap[c] = Assembled
  BY HolderHasJob DEF Save, Saveable
<1>2. PICK k \in Atomic!Edits(snap[c]) :
        /\ k.attempt <= MaxJobAttempts
        /\ row' = RowOf([k EXCEPT !.revision = @ + 1])
        /\ pages' = IF k.pages = NoPages THEN pages ELSE [pages EXCEPT ![k.attempt] = k.pages]
        /\ artifacts' = IF k.artifacts = 0 THEN artifacts
                        ELSE [artifacts EXCEPT ![k.attempt] = k.artifacts]
        /\ snap' = [snap EXCEPT ![c] = [k EXCEPT !.revision = @ + 1]]
  BY DEF Save
<1>3. EditOf(Assembled, k) /\ Assembled \in Jobs /\ k \in Jobs
  BY <1>1, <1>2, AssembledIsJob, EditsAreEdits DEF EditOf
<1>4. row \in [state : JobStates, attempt : Attempts, revision : Nat]
      /\ Assembled.attempt = row.attempt /\ Assembled.revision = row.revision
      /\ Assembled.pages = pages[row.attempt] /\ Assembled.artifacts = artifacts[row.attempt]
  BY DEF RepositoryInv, TypeOK, Assembled
<1>5. k.attempt \in Attempts /\ k.attempt \in {row.attempt, row.attempt + 1}
  BY <1>2, <1>3, <1>4, RepositoryAssumption DEF EditOf, Attempts
<1>6. row' = [state |-> k.state, attempt |-> k.attempt, revision |-> row.revision + 1]
  BY <1>2, <1>3, <1>4 DEF RowOf, EditOf, Jobs
<1>7. pages \in [Attempts -> [PageNumbers -> PageRecords] \cup {NoPages}]
      /\ artifacts \in [Attempts -> {0} \cup Attempts]
  BY DEF RepositoryInv, TypeOK
<1>8. k.attempt > row.attempt => pages[k.attempt] = NoPages /\ artifacts[k.attempt] = 0
  BY <1>5 DEF RepositoryInv, TableInv
<1>9. k.attempt = row.attempt \/ k.attempt > row.attempt
  BY <1>4, <1>5, RepositoryAssumption DEF Attempts
<1>10. k.pages = NoPages => pages[k.attempt] = NoPages
  BY <1>3, <1>4, <1>8, <1>9 DEF EditOf
<1>11. k.artifacts = 0 => artifacts[k.attempt] = 0
  BY <1>3, <1>4, <1>8, <1>9, RepositoryAssumption DEF EditOf, Attempts
<1>12. pages' = [pages EXCEPT ![k.attempt] = k.pages]
  BY <1>2, <1>5, <1>7, <1>10
<1>13. artifacts' = [artifacts EXCEPT ![k.attempt] = k.artifacts]
  BY <1>2, <1>5, <1>7, <1>11
<1>14. QED
  BY <1>1, <1>2, <1>3, <1>5, <1>6, <1>12, <1>13 DEF Replaces, Save

\* save keeps the invariant: whoever else has read the job is now a revision behind.
LEMMA SaveInv ==
  ASSUME RepositoryInv, NEW c \in Clients, Save(c)
  PROVE  RepositoryInv'
<1> PICK k : Replaces(c, k)
  BY SaveReplaces
<1> USE DEF Replaces
<1>1. Assembled \in Jobs /\ k \in Jobs /\ k.revision = row.revision
      /\ Assembled.state = row.state /\ Assembled.attempt = row.attempt
  BY AssembledIsJob DEF EditOf, Assembled
<1>2. TypeOK
  BY DEF RepositoryInv
<1>3. k.attempt \in {row.attempt, row.attempt + 1} /\ row.attempt \in Nat /\ row.revision \in Nat
  BY <1>1, <1>2, RepositoryAssumption DEF EditOf, TypeOK, Attempts
<1>4. k.artifacts \in {0} \cup Attempts
  <2>1. 1..row.attempt \subseteq Attempts /\ artifacts[row.attempt] \in {0} \cup Attempts
    BY <1>2, RepositoryAssumption DEF TypeOK, Attempts
  <2>2. k.artifacts \in {artifacts[row.attempt], 0} \cup 1..row.attempt
    BY DEF EditOf, Assembled
  <2>3. QED
    BY <2>1, <2>2
<1>5. [k EXCEPT !.revision = @ + 1] \in Jobs
  BY <1>1, <1>3 DEF Jobs
<1>6. TypeOK'
  BY <1>1, <1>2, <1>3, <1>4, <1>5 DEF TypeOK, Jobs
<1>7. TableInv'
  <2>1. \A a \in Attempts : a > k.attempt => a > row.attempt /\ a # k.attempt
    BY <1>3, RepositoryAssumption DEF Attempts
  <2>2. exists /\ ~ claimed
    BY DEF Visible
  <2>3. QED
    BY <1>2, <1>3, <2>1, <2>2 DEF TableInv, RepositoryInv, TypeOK
<1>8. ResultInv'
  <2>1. pages'[k.attempt] = k.pages /\ artifacts'[k.attempt] = k.artifacts
    BY <1>2 DEF TypeOK
  <2>2. k.state = "succeeded" => k.artifacts # 0
    BY DEF RepositoryInv, ResultInv, Visible, Assembled, EditOf
  <2>3. QED
    BY <2>1, <2>2 DEF ResultInv
<1>9. SnapInv'
  <2> SUFFICES ASSUME NEW d \in Clients PROVE SnapOf(d)'
    BY DEF SnapInv, SnapOf
  <2>1. CASE d = c
    <3>1. snap'[d] = [k EXCEPT !.revision = @ + 1]
      BY <1>2, <2>1 DEF TypeOK
    <3>2. snap'[d].state = k.state /\ snap'[d].attempt = k.attempt /\ snap'[d].pages = k.pages
          /\ snap'[d].artifacts = k.artifacts /\ snap'[d].revision = row.revision + 1
      BY <1>1, <1>3, <3>1 DEF Jobs
    <3>3. pages'[k.attempt] = k.pages /\ artifacts'[k.attempt] = k.artifacts
      BY <1>2 DEF TypeOK
    <3>4. QED
      BY <1>3, <3>2, <3>3 DEF SnapOf, Agrees
  <2>2. CASE d # c
    <3>1. snap'[d] = snap[d] /\ snap[d].revision \in Nat
      BY <1>2, <2>2 DEF TypeOK, Jobs
    <3>2. pc[d] # "idle" => snap[d].revision <= row.revision
      BY DEF RepositoryInv, SnapInv, SnapOf
    <3>3. pc[d] # "idle" /\ snap[d].state = "succeeded"
            => /\ k.state = "succeeded" /\ k.attempt = snap[d].attempt
               /\ pc[d] = "loaded" => snap[d].artifacts = k.artifacts
      BY <1>1 DEF RepositoryInv, SnapInv, SnapOf, Visible, EditOf, Assembled
    <3>4. artifacts'[k.attempt] = k.artifacts /\ row'.state = k.state /\ row'.attempt = k.attempt
      BY <1>2 DEF TypeOK
    <3>5. snap[d].attempt \in Attempts /\ row'.revision = row.revision + 1 /\ pc' = pc
      BY DEF RepositoryInv, SnapInv, SnapOf
    <3> HIDE DEF Replaces
    <3>6. pc'[d] # "idle" => snap'[d].revision <= row'.revision /\ snap'[d].revision # row'.revision
      BY <1>3, <3>1, <3>2, <3>5
    <3>7. QED
      BY <3>1, <3>3, <3>5, <3>6, <3>4 DEF SnapOf
  <2>3. QED
    BY <2>1, <2>2
<1>10. QED
  BY <1>6, <1>7, <1>8, <1>9 DEF RepositoryInv

-----------------------------------------------------------------------------
\* A client that leaves the tables alone only has to keep its own part.
LEMMA ClientStep ==
  ASSUME RepositoryInv, NEW c \in Clients, NEW s \in Jobs,
         NEW l \in {"idle", "pages", "artifacts", "loaded"},
         UNCHANGED <<row, exists, claimed, pages, artifacts>>,
         snap' = [snap EXCEPT ![c] = s], pc' = [pc EXCEPT ![c] = l],
         exists \/ pc[c] # "idle", SnapOf(c)'
  PROVE  RepositoryInv'
<1>1. TypeOK'
  BY DEF RepositoryInv, TypeOK
<1>2. TableInv' /\ ResultInv'
  <2>1. ~ exists /\ row.revision = 0 => \A d \in Clients : pc[d] = "idle"
    BY DEF RepositoryInv, TableInv
  <2>2. QED
    BY <2>1 DEF RepositoryInv, TableInv, ResultInv
<1>3. SnapInv'
  <2>1. ASSUME NEW d \in Clients, d # c PROVE SnapOf(d)'
    <3>1. snap'[d] = snap[d] /\ pc'[d] = pc[d]
      BY <2>1 DEF RepositoryInv, TypeOK
    <3>2. QED
      BY <3>1 DEF RepositoryInv, SnapInv, SnapOf, Agrees
  <2>2. QED
    BY <2>1 DEF SnapInv, SnapOf
<1>4. QED
  BY <1>1, <1>2, <1>3 DEF RepositoryInv

\* The three statements of get, and giving the job up.
LEMMA ReadInv ==
  ASSUME RepositoryInv, NEW c \in Clients,
         ReadRow(c) \/ ReadPages(c) \/ ReadArtifacts(c) \/ Forget(c)
  PROVE  RepositoryInv'
<1> USE DEF RepositoryInv
<1>1. snap[c] \in Jobs /\ snap[c].attempt \in Attempts /\ SnapOf(c) /\ row.revision \in Nat
  BY DEF TypeOK, SnapInv, SnapOf
<1>2. pages[snap[c].attempt] \in [PageNumbers -> PageRecords] \cup {NoPages}
      /\ artifacts[snap[c].attempt] \in Nat
  BY <1>1, RepositoryAssumption DEF TypeOK, Attempts
<1>3. CASE ReadRow(c)
  <2> DEFINE s == [NewJob EXCEPT !.state = row.state, !.attempt = row.attempt,
                                 !.revision = row.revision]
  <2>1. snap' = [snap EXCEPT ![c] = s] /\ exists /\ pc' = [pc EXCEPT ![c] = "pages"]
    BY <1>3 DEF ReadRow, Visible
  <2>2. NewJob \in Jobs /\ row.state \in JobStates /\ row.attempt \in Nat
    BY RepositoryAssumption DEF TypeOK, Attempts, Jobs, NewJob, JobStates
  <2>3. s \in Jobs /\ s.state = row.state /\ s.attempt = row.attempt /\ s.revision = row.revision
    BY <1>1, <2>2 DEF Jobs
  <2>4. snap'[c] = s /\ pc'[c] = "pages"
    BY <2>1 DEF TypeOK
  <2>5. SnapOf(c)'
    BY <1>1, <1>3, <2>3, <2>4 DEF SnapOf, Agrees, TypeOK, ReadRow
  <2>6. QED
    BY <1>3, <2>1, <2>3, <2>5, ClientStep DEF ReadRow
<1>4. CASE ReadPages(c)
  <2> DEFINE s == [snap[c] EXCEPT !.pages = pages[snap[c].attempt]]
  <2>1. snap' = [snap EXCEPT ![c] = s] /\ pc[c] # "idle" /\ pc' = [pc EXCEPT ![c] = "artifacts"]
    BY <1>4 DEF ReadPages
  <2>2. s \in Jobs
    BY <1>1, <1>2 DEF Jobs
  <2>3. snap'[c] = s /\ pc'[c] = "artifacts"
    BY <2>1 DEF TypeOK
  <2>4. s.state = snap[c].state /\ s.attempt = snap[c].attempt /\ s.revision = snap[c].revision
        /\ s.pages = pages[snap[c].attempt]
    BY <1>1 DEF Jobs
  <2>5. SnapOf(c)'
    BY <1>1, <1>4, <2>3, <2>4 DEF SnapOf, Agrees, ReadPages
  <2>6. QED
    BY <1>4, <2>1, <2>2, <2>5, ClientStep DEF ReadPages
<1>5. CASE ReadArtifacts(c)
  <2> DEFINE s == [snap[c] EXCEPT !.artifacts = artifacts[snap[c].attempt]]
  <2>1. snap' = [snap EXCEPT ![c] = s] /\ pc[c] = "artifacts" /\ pc' = [pc EXCEPT ![c] = "loaded"]
    BY <1>5 DEF ReadArtifacts
  <2>2. s \in Jobs
    BY <1>1, <1>2 DEF Jobs
  <2>3. snap'[c] = s /\ pc'[c] = "loaded"
    BY <2>1 DEF TypeOK
  <2>4. s.state = snap[c].state /\ s.attempt = snap[c].attempt /\ s.revision = snap[c].revision
        /\ s.pages = snap[c].pages /\ s.artifacts = artifacts[snap[c].attempt]
    BY <1>1 DEF Jobs
  <2>5. SnapOf(c)'
    BY <1>1, <1>5, <2>1, <2>3, <2>4 DEF SnapOf, Agrees, ReadArtifacts
  <2>6. QED
    BY <1>5, <2>1, <2>2, <2>5, ClientStep DEF ReadArtifacts
<1>6. CASE Forget(c)
  <2>1. snap' = [snap EXCEPT ![c] = snap[c]] /\ pc[c] # "idle" /\ pc' = [pc EXCEPT ![c] = "idle"]
    BY <1>6 DEF Forget, TypeOK
  <2>2. snap'[c] = snap[c] /\ pc'[c] = "idle"
    BY <2>1 DEF TypeOK
  <2>3. QED
    BY <1>1, <1>6, <2>1, <2>2, ClientStep DEF Forget, SnapOf
<1>7. QED
  BY <1>3, <1>4, <1>5, <1>6

\* The row comes and goes: creation, the claim of retention, and the deletion.
LEMMA LifeInv ==
  ASSUME RepositoryInv, InsertJob \/ ClaimExpired \/ DeleteJob
  PROVE  RepositoryInv'
<1> USE DEF RepositoryInv
<1>1. CASE InsertJob
  <2>1. ~ exists /\ row = RowOf(NewJob) /\ row.revision = 0
    <3>1. ~ Visible /\ ~ (exists \/ row # RowOf(NewJob))
      BY <1>1, AssembledIsJob, RepositoryAssumption DEF InsertJob, cell
    <3>2. QED
      BY <3>1 DEF RowOf, NewJob
  <2>2. \A c \in Clients : pc[c] = "idle"
    BY <2>1 DEF TableInv
  <2>3. row.state = "queued" /\ \A a \in Attempts : pages[a] = NoPages /\ artifacts[a] = 0
    BY <2>1 DEF TableInv, RowOf, NewJob
  <2>4. TypeOK'
    BY <1>1, Zenon DEF InsertJob, TypeOK
  <2>5. QED
    BY <1>1, <2>1, <2>2, <2>3, <2>4 DEF InsertJob, TableInv, ResultInv, SnapInv, SnapOf
<1>2. CASE ClaimExpired
  <2>1. TypeOK'
    BY <1>2, Zenon DEF ClaimExpired, TypeOK
  <2>2. QED
    BY <1>2, <2>1 DEF ClaimExpired, TableInv, ResultInv, SnapInv, SnapOf, Agrees, Terminal, RowOf
<1>3. CASE DeleteJob
  <2>1. exists' = FALSE /\ exists /\ claimed
    BY <1>3 DEF DeleteJob
  <2>2. exists' \in BOOLEAN
    BY <2>1, Zenon
  <2>3. TypeOK'
    BY <1>3, <2>2 DEF DeleteJob, TypeOK
  <2>4. TableInv'
    <3>1. row.revision # 0
      BY <2>1 DEF TableInv, Terminal, RowOf, NewJob
    <3>2. QED
      BY <1>3, <2>1, <3>1 DEF DeleteJob, TableInv, Terminal
  <2>5. QED
    BY <1>3, <2>1, <2>3, <2>4 DEF DeleteJob, ResultInv, SnapInv, SnapOf
<1>4. QED
  BY <1>1, <1>2, <1>3

-----------------------------------------------------------------------------
\* The invariant is inductive: whatever comes between the statements of get, and
\* between get and save, keeps it.
THEOREM RepositoryInductive == Spec => []RepositoryInv
<1>1. Init => RepositoryInv
  BY InitInv
<1>2. RepositoryInv /\ [Next]_vars => RepositoryInv'
  <2> SUFFICES ASSUME RepositoryInv, [Next]_vars PROVE RepositoryInv'
    OBVIOUS
  <2>1. CASE Next
    BY <2>1, LifeInv, ReadInv, SaveInv DEF Next
  <2>2. CASE UNCHANGED vars
    BY <2>2 DEF vars, RepositoryInv, TypeOK, TableInv, ResultInv, SnapInv, SnapOf, Agrees,
                Terminal
  <2>3. QED
    BY <2>1, <2>2
<1>3. QED
  BY <1>1, <1>2, PTL DEF Spec

\* The tables and what the clients have read of them keep their types; in particular a
\* job that was put together from the three statements is always one of Jobs.
THEOREM RepositoryTypeCorrect == Spec => []TypeOK
<1>1. RepositoryInv => TypeOK
  BY DEF RepositoryInv
<1>2. QED
  BY <1>1, RepositoryInductive, PTL

\* A success that get reports stands for as long as the row does, with the artifacts
\* that were committed with it: they are read after the state, and pages of the job may
\* still be saved, but no save changes the state or the artifacts of a succeeded job.
THEOREM SuccessStands == Spec => []SuccessIsFinal
<1>1. RepositoryInv => SuccessIsFinal
  BY DEF SuccessIsFinal, RepositoryInv, SnapInv, SnapOf, ResultInv
<1>2. QED
  BY <1>1, RepositoryInductive, PTL

-----------------------------------------------------------------------------
(* The refinement *)

\* A statement of get leaves the value alone; the last one obtains it, unless a save
\* or retention came between.  Giving it up is a release.
LEMMA ReadRefines ==
  ASSUME RepositoryInv, NEW c \in Clients,
         ReadRow(c) \/ ReadPages(c) \/ ReadArtifacts(c) \/ Forget(c)
  PROVE  Atomic!Obtain(c) \/ Atomic!Release(c) \/ UNCHANGED <<cell, holders>>
<1>1. UNCHANGED <<row, exists, claimed, pages, artifacts>>
  BY DEF ReadRow, ReadPages, ReadArtifacts, Forget
<1>2. cell' = cell /\ Visible' = Visible
  BY <1>1 DEF cell, Visible, Assembled
<1>3. ASSUME NEW d \in Clients, d # c PROVE snap'[d] = snap[d] /\ pc'[d] = pc[d]
  BY <1>3 DEF ReadRow, ReadPages, ReadArtifacts, Forget, RepositoryInv, TypeOK
<1>4. ASSUME NEW d, d # c PROVE d \in holders' <=> d \in holders
  BY <1>1, <1>2, <1>3, <1>4 DEF holders
<1>5. CASE c \in holders' /\ c \notin holders
  <2>1. Visible /\ holders' = holders \cup {c}
    BY <1>2, <1>4, <1>5 DEF holders
  <2>2. cell \notin {Missing, Gone}
    BY <2>1, AssembledIsJob DEF cell
  <2>3. QED
    BY <1>2, <2>1, <2>2 DEF Atomic!Obtain
<1>6. CASE c \notin holders'
  <2>1. holders' = holders \ {c}
    BY <1>4, <1>6
  <2>2. QED
    BY <1>2, <2>1 DEF Atomic!Release
<1>7. CASE c \in holders' /\ c \in holders
  <2>1. holders' = holders
    BY <1>4, <1>7
  <2>2. QED
    BY <1>2, <2>1
<1>8. QED
  BY <1>5, <1>6, <1>7

\* save replaces the value by one edit of it, and by that takes it from all others.
LEMMA SaveRefines ==
  ASSUME RepositoryInv, NEW c \in Clients, Save(c)
  PROVE  Atomic!Commit(c)
<1> PICK k : Replaces(c, k)
  BY SaveReplaces
<1>1. TypeOK /\ RepositoryInv'
  BY SaveInv DEF RepositoryInv
<1>2. Visible /\ Visible' /\ cell = Assembled /\ cell' = Assembled'
  BY DEF Replaces, Visible, cell
<1>3. k \in Jobs /\ k.revision = row.revision /\ row.revision \in Nat
  BY <1>1 DEF Replaces, EditOf, TypeOK, Assembled
<1>4. Assembled' = [k EXCEPT !.revision = @ + 1]
  <2>1. pages'[k.attempt] = k.pages /\ artifacts'[k.attempt] = k.artifacts
    BY <1>1 DEF Replaces, TypeOK
  <2>2. Assembled' = [state |-> k.state, attempt |-> k.attempt, revision |-> k.revision + 1,
                      pages |-> k.pages, artifacts |-> k.artifacts]
    BY <1>3, <2>1 DEF Replaces, Assembled
  <2>3. QED
    BY <1>3, <2>2 DEF Jobs
<1>5. c \in holders
  BY <1>2 DEF holders, Replaces, Assembled
<1>6. holders' = {c}
  <2>1. c \in holders'
    <3>1. snap'[c] = [k EXCEPT !.revision = @ + 1]
      BY <1>1 DEF Replaces, TypeOK
    <3>2. snap'[c].revision = k.revision + 1
      BY <1>3, <3>1 DEF Jobs
    <3>3. QED
      BY <1>2, <1>3, <3>2 DEF holders, Replaces
  <2>2. ASSUME NEW d \in Clients, d # c PROVE d \notin holders'
    <3>1. snap'[d] = snap[d] /\ snap[d].revision \in Nat
      BY <1>1, <2>2 DEF Replaces, TypeOK, Jobs
    <3>2. row'.revision = row.revision + 1 /\ pc' = pc
      BY DEF Replaces
    <3>3. pc[d] = "loaded" => snap[d].revision <= row.revision
      BY DEF RepositoryInv, SnapInv, SnapOf
    <3>4. pc'[d] = "loaded" => snap'[d].revision # row'.revision
      BY <1>3, <3>1, <3>2, <3>3
    <3>5. QED
      BY <3>4 DEF holders
  <2>3. QED
    BY <2>1, <2>2 DEF holders
<1>7. k \in Atomic!Edits(cell)
  BY <1>2 DEF Replaces
<1>8. QED
  BY <1>2, <1>4, <1>5, <1>6, <1>7 DEF Atomic!Commit

\* Creation creates the value, the claim of retention withdraws it, and the deletion
\* is not seen.
LEMMA LifeRefines ==
  ASSUME RepositoryInv, InsertJob \/ ClaimExpired \/ DeleteJob
  PROVE  Atomic!Create \/ Atomic!Withdraw \/ UNCHANGED <<cell, holders>>
<1> USE DEF RepositoryInv
<1>1. CASE InsertJob
  <2>1. ~ exists /\ row = RowOf(NewJob)
    BY <1>1, AssembledIsJob, RepositoryAssumption DEF InsertJob, cell
  <2>2. row.state = "queued" /\ row.attempt = 1 /\ row.revision = 0 /\ 1 \in Attempts
    BY <2>1, RepositoryAssumption DEF RowOf, NewJob, Attempts
  <2>3. (\A c \in Clients : pc[c] = "idle") /\ pages[1] = NoPages /\ artifacts[1] = 0 /\ ~ claimed
    BY <2>1, <2>2 DEF TableInv, Terminal
  <2>4. cell' = Assembled'
    BY <1>1, <2>3 DEF InsertJob, cell, Visible
  <2>5. Assembled' = NewJob
    BY <1>1, <2>2, <2>3 DEF InsertJob, Assembled, NewJob
  <2>6. NewJob = Atomic!NewJob
    BY DEF NewJob, Atomic!NewJob, NoPages, Atomic!NoPages
  <2>7. holders' = {}
    BY <1>1, <2>3 DEF InsertJob, holders
  <2>8. QED
    BY <1>1, <2>4, <2>5, <2>6, <2>7 DEF InsertJob, Atomic!Create
<1>2. CASE ClaimExpired
  <2>1. Visible /\ ~ Visible' /\ exists' /\ cell = Assembled /\ cell' = Gone /\ holders' = {}
    BY <1>2 DEF ClaimExpired, Visible, cell, holders
  <2>2. Atomic!Terminal(Assembled)
    BY <1>2 DEF ClaimExpired, Terminal, Atomic!Terminal, Assembled
  <2>3. QED
    BY <2>1, <2>2, AssembledIsJob DEF Atomic!Withdraw
<1>3. CASE DeleteJob
  <2>1. exists /\ claimed /\ ~ exists' /\ row' = row
    BY <1>3 DEF DeleteJob
  <2>2. row # RowOf(NewJob)
    BY <2>1 DEF TableInv, Terminal, RowOf, NewJob
  <2>3. ~ Visible /\ ~ Visible'
    BY <2>1 DEF Visible
  <2>4. cell = Gone /\ cell' = Gone /\ holders = {} /\ holders' = {}
    BY <2>1, <2>2, <2>3 DEF cell, holders
  <2>5. QED
    BY <2>4
<1>4. QED
  BY <1>1, <1>2, <1>3

\* The repository implements AtomicJob: the three statements of get and the revision
\* that guards save amount to reading and replacing one value, whatever the requests,
\* the workers and retention do in between.
THEOREM RepositoryRefines == Spec => ImplementsAtomicJob
<1>1. Init => Atomic!Init
  <2> SUFFICES ASSUME Init PROVE Atomic!Init
    OBVIOUS
  <2>1. ~ Visible /\ ~ (exists \/ row # RowOf(NewJob))
    BY DEF Init, Visible
  <2>2. QED
    BY <2>1 DEF cell, holders, Atomic!Init
<1>2. RepositoryInv /\ [Next]_vars => [Atomic!Next]_<<cell, holders>>
  <2> SUFFICES ASSUME RepositoryInv, [Next]_vars
               PROVE  Atomic!Next \/ UNCHANGED <<cell, holders>>
    OBVIOUS
  <2>1. CASE InsertJob \/ ClaimExpired \/ DeleteJob
    BY <2>1, LifeRefines DEF Atomic!Next
  <2>2. ASSUME NEW c \in Clients,
               ReadRow(c) \/ ReadPages(c) \/ ReadArtifacts(c) \/ Forget(c)
        PROVE  Atomic!Next \/ UNCHANGED <<cell, holders>>
    BY <2>2, ReadRefines DEF Atomic!Next
  <2>3. ASSUME NEW c \in Clients, Save(c) PROVE Atomic!Next
    BY <2>3, SaveRefines DEF Atomic!Next
  <2>4. CASE UNCHANGED vars
    BY <2>4 DEF vars, cell, holders, Visible, Assembled
  <2>5. QED
    BY <2>1, <2>2, <2>3, <2>4 DEF Next
<1>3. QED
  BY <1>1, <1>2, RepositoryInductive, PTL DEF Spec, ImplementsAtomicJob, Atomic!Spec
=============================================================================
