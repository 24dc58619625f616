------------------------- MODULE JobExecutionProofs -------------------------
EXTENDS JobExecution, WellFoundedInduction, TLAPS

(***************************************************************************)
(* Facts about the operators the specification is built from.              *)
(***************************************************************************)

\* A non-empty set of numbers has a least element, which Min picks.
LEMMA MinMember ==
  ASSUME NEW S \in SUBSET Nat, S # {}
  PROVE  Min(S) \in S
<1> DEFINE LessThan == {ss \in Nat \X Nat : ss[1] < ss[2]}
<1>1. LessThan = OpToRel(<, Nat)
  BY Zenon DEF OpToRel
<1>2. IsWellFoundedOn(LessThan, Nat)
  BY <1>1, NatLessThanWellFounded, Zenon
<1> HIDE DEF LessThan
<1>3. PICK x \in S : \A y \in S : ~ (<<y, x>> \in LessThan)
  BY <1>2, WFMin, Zenon
<1>4. ASSUME NEW y \in S  PROVE x <= y
  <2>1. ~ (<<y, x>> \in LessThan)
    BY <1>3
  <2>2. x \in Nat /\ y \in Nat
    OBVIOUS
  <2>3. ~ (y < x)
    BY <2>1, <2>2 DEF LessThan
  <2>4. QED
    BY <2>2, <2>3
<1>5. QED
  BY <1>4 DEF Min

\* Every method of the domain model takes a job to a job.
LEMMA JobType ==
  ASSUME NEW j \in Jobs
  PROVE  /\ BeginPreprocessing(j) \in Jobs /\ BeginRunning(j) \in Jobs
         /\ BeginAssembling(j) \in Jobs /\ RequestCancel(j) \in Jobs
         /\ Cancel(j) \in Jobs /\ Fail(j) \in Jobs /\ Saved(j) \in Jobs
         /\ SetPages(j) \in Jobs /\ Retry(j) \in Jobs
         /\ \A a \in Nat : Succeed(j, a) \in Jobs
<1>1. NewPage \in PageRecords /\ \A p \in PageRecords : PagePrepareRetry(p) \in PageRecords
  BY DEF NewPage, PageRecords, PageStates, PagePrepareRetry
<1>2. j.pages # NoPages => [n \in PageNumbers |-> PagePrepareRetry(j.pages[n])]
                             \in [PageNumbers -> PageRecords]
  BY <1>1 DEF Jobs
<1>3. Retry(j) \in Jobs
  <2> DEFINE pages == IF j.pages = NoPages THEN NoPages
                      ELSE [n \in PageNumbers |-> PagePrepareRetry(j.pages[n])]
  <2>1. pages \in [PageNumbers -> PageRecords] \cup {NoPages}
    BY <1>2
  <2>2. Retry(j) = [state |-> "retrying", attempt |-> j.attempt + 1,
                    revision |-> j.revision, pages |-> pages, artifacts |-> 0]
    BY Zenon DEF Retry
  <2> HIDE DEF pages
  <2>3. QED
    BY <2>1, <2>2 DEF Jobs, JobStates
<1>4. SetPages(j) \in Jobs
  BY <1>1 DEF SetPages, Jobs, JobStates
<1>5. BeginPreprocessing(j) \in Jobs /\ BeginRunning(j) \in Jobs
  BY DEF Jobs, JobStates, BeginPreprocessing, BeginRunning
<1>6. BeginAssembling(j) \in Jobs /\ RequestCancel(j) \in Jobs
  BY DEF Jobs, JobStates, BeginAssembling, RequestCancel
<1>7. Cancel(j) \in Jobs /\ Fail(j) \in Jobs
  BY DEF Jobs, JobStates, Cancel, Fail
<1>8. Saved(j) \in Jobs
  BY DEF Jobs, Saved
<1>9. \A a \in Nat : Succeed(j, a) \in Jobs
  BY DEF Jobs, JobStates, Succeed
<1>10. QED
  BY <1>3, <1>4, <1>5, <1>6, <1>7, <1>8, <1>9

\* The methods of Page take a page to a page.
LEMMA PageType ==
  ASSUME NEW p \in PageRecords
  PROVE  PageStart(p) \in PageRecords /\ PageSucceed(p) \in PageRecords
         /\ PageFail(p) \in PageRecords
BY DEF PageRecords, PageStates, PageStart, PageSucceed, PageFail

\* Replacing a page of a job that has pages gives a job that has pages.
LEMMA WithPageType ==
  ASSUME NEW j \in Jobs, NEW n \in PageNumbers, NEW p \in PageRecords, j.pages # NoPages
  PROVE  /\ WithPage(j, n, p) \in Jobs
         /\ WithPage(j, n, p).pages # NoPages
<1>1. [j.pages EXCEPT ![n] = p] \in [PageNumbers -> PageRecords]
  BY DEF Jobs
<1>2. [j.pages EXCEPT ![n] = p] # NoPages
  BY <1>1 DEF NoPages
<1>3. QED
  BY <1>1, <1>2 DEF WithPage, Jobs

(***************************************************************************)
(* Most steps of a worker only move it on with a new private state.        *)
(***************************************************************************)

\* Worker w moves to label l with snapshot j, pages t, save p and artifacts b, and
\* appends at most an event.
Local(w, l, j, t, p, b) ==
  /\ pc' = [pc EXCEPT ![w] = l] /\ snap' = [snap EXCEPT ![w] = j]
  /\ todo' = [todo EXCEPT ![w] = t] /\ pend' = [pend EXCEPT ![w] = p]
  /\ built' = [built EXCEPT ![w] = b]
  /\ terminals' \in Seq([type : TerminalEvents, attempt : Nat])
  /\ UNCHANGED <<job, claimed, outbox, inflight, queue, offset, position,
                 owner, msg, rec, apc, aop, asnap, atry, crashes, rebalances, requests>>

\* That private state is one the invariant allows.
LocalOK(w, l, j, t, p, b) ==
  /\ l \in Labels \ {"idle"} /\ j \in Jobs /\ t \in SUBSET PageNumbers
  /\ p \in [event : Events, next : Labels] /\ b \in Nat
  /\ HasPages(l, j, t, p) /\ FromRow(l, j) /\ Concludes(l, j, p, msg[w])

\* A step that changes only one worker's private state to an allowed one, and at most
\* appends to job_events, keeps the invariant.
LEMMA LocalInv ==
  ASSUME IInv, NEW w \in Workers, pc[w] # "idle",
         NEW l, NEW j, NEW t, NEW p, NEW b,
         LocalOK(w, l, j, t, p, b), Local(w, l, j, t, p, b)
  PROVE  IInv'
<1>1. TypeOK'
  BY DEF IInv, TypeOK, Local, LocalOK
<1>2. /\ pc'[w] = l /\ snap'[w] = j /\ todo'[w] = t /\ pend'[w] = p
      /\ \A v \in Workers \ {w} : /\ pc'[v] = pc[v] /\ snap'[v] = snap[v]
                                  /\ todo'[v] = todo[v] /\ pend'[v] = pend[v]
  BY DEF IInv, TypeOK, Local
<1>3. PageInv'
  <2> SUFFICES ASSUME NEW v \in Workers
               PROVE  HasPages(pc[v], snap[v], todo[v], pend[v])'
    BY DEF PageInv
  <2>1. CASE v = w
    BY <1>2, <2>1 DEF LocalOK, HasPages, Local
  <2>2. CASE v # w
    BY <1>2, <2>2 DEF IInv, PageInv, HasPages, Local
  <2>3. QED
    BY <2>1, <2>2
<1>4. SnapshotInv'
  <2>1. ASSUME NEW v \in Workers
        PROVE  FromRow(pc[v], snap[v])'
    <3>1. CASE v = w
      BY <1>2, <3>1 DEF LocalOK, FromRow, WorkerMayWrite, Terminal, Local
    <3>2. CASE v # w
      BY <1>2, <3>2 DEF IInv, SnapshotInv, FromRow, WorkerMayWrite, Terminal, Local
    <3>3. QED
      BY <3>1, <3>2
  <2>2. QED
    BY <2>1 DEF IInv, SnapshotInv, Local, CanRequestCancel, CanRetry, NewJob
<1>5. DeliveryInv'
  <2>1. ASSUME NEW v \in Workers, pc'[v] # "idle"
        PROVE  /\ rec'[v] \in 1..Len(queue') /\ msg'[v] = queue'[rec'[v]]
               /\ \A i \in 1..(rec'[v] - 1) : Settled(i)'
               /\ Concludes(pc[v], snap[v], pend[v], msg[v])'
    <3>1. pc[v] # "idle"
      BY <1>2, <2>1
    <3>2. Concludes(pc[v], snap[v], pend[v], msg[v])'
      <4>1. CASE v = w
        BY <1>2, <4>1 DEF LocalOK, Concludes, Terminal, Local
      <4>2. CASE v # w
        BY <1>2, <4>2, <3>1 DEF IInv, DeliveryInv, Concludes, Terminal, Local
      <4>3. QED
        BY <4>1, <4>2
    <3>3. QED
      BY <3>1, <3>2 DEF IInv, DeliveryInv, Settled, Terminal, Local
  <2>2. pc[owner] # "idle" => pc'[owner] # "idle"
    BY <1>2 DEF IInv, TypeOK, LocalOK
  <2>3. QED
    BY <2>1, <2>2 DEF IInv, DeliveryInv, Settled, Terminal, Local
<1>6. QED
  BY <1>1, <1>3, <1>4, <1>5 DEF IInv

\* Snapshot j was computed from snapshot b without losing what the lock relies on.
Derived(b, j) ==
  /\ j \in Jobs /\ j.revision = b.revision /\ j.attempt = b.attempt
  /\ b.pages # NoPages => j.pages # NoPages
  /\ Terminal(b) => j.state = b.state
  /\ b.state = "cancel_requested" => j.state \in {"cancel_requested", "cancelled"}

\* Where the code calls them, the methods of the domain model derive.
LEMMA MethodsDerive ==
  ASSUME NEW b \in Jobs
  PROVE  /\ Derived(b, b)
         /\ CanBeginPreprocessing(b) => Derived(b, BeginPreprocessing(b))
         /\ CanSetPages(b) => Derived(b, SetPages(b)) /\ SetPages(b).pages # NoPages
         /\ CanBeginRunning(b) => Derived(b, BeginRunning(b))
         /\ CanBeginAssembling(b) => Derived(b, BeginAssembling(b))
         /\ CanCancel(b) => Derived(b, Cancel(b)) /\ Terminal(Cancel(b))
         /\ CanFail(b) /\ ~ CanCancel(b) => Derived(b, Fail(b)) /\ Terminal(Fail(b))
         /\ \A a \in Nat : CanSucceed(b) => Derived(b, Succeed(b, a)) /\ Terminal(Succeed(b, a))
<1>1. Derived(b, b)
  BY DEF Derived, Terminal
<1>2. CanBeginPreprocessing(b) => Derived(b, BeginPreprocessing(b))
  BY JobType DEF Derived, Terminal, CanBeginPreprocessing, BeginPreprocessing, Jobs
<1>3. CanSetPages(b) => Derived(b, SetPages(b)) /\ SetPages(b).pages # NoPages
  <2>1. SetPages(b).pages # NoPages
    <3>1. SetPages(b).pages = [n \in PageNumbers |-> NewPage]
      BY DEF SetPages, Jobs
    <3>2. 1 \in PageNumbers
      BY DomainAssumption DEF PageNumbers
    <3>3. QED
      BY <3>1, <3>2 DEF NoPages
  <2>2. SetPages(b).state = b.state /\ SetPages(b).revision = b.revision
        /\ SetPages(b).attempt = b.attempt
    BY DEF SetPages, Jobs
  <2>3. QED
    BY <2>1, <2>2, JobType DEF Derived, Terminal, CanSetPages
<1>4. CanBeginRunning(b) => Derived(b, BeginRunning(b))
  BY JobType DEF Derived, Terminal, CanBeginRunning, BeginRunning, Jobs
<1>5. CanBeginAssembling(b) => Derived(b, BeginAssembling(b))
  BY JobType DEF Derived, Terminal, CanBeginAssembling, BeginAssembling, Jobs
<1>6. CanCancel(b) => Derived(b, Cancel(b)) /\ Terminal(Cancel(b))
  BY JobType DEF Derived, Terminal, CanCancel, Cancel, Jobs
<1>7. CanFail(b) /\ ~ CanCancel(b) => Derived(b, Fail(b)) /\ Terminal(Fail(b))
  BY JobType DEF Derived, Terminal, CanFail, CanCancel, Fail, Jobs
<1>8. ASSUME NEW a \in Nat, CanSucceed(b)
      PROVE  Derived(b, Succeed(b, a)) /\ Terminal(Succeed(b, a))
  <2>1. Succeed(b, a) \in Jobs
    BY JobType
  <2>2. Succeed(b, a).state = "succeeded" /\ Succeed(b, a).revision = b.revision
        /\ Succeed(b, a).attempt = b.attempt /\ Succeed(b, a).pages = b.pages
    BY DEF Succeed, Jobs
  <2>3. QED
    BY <1>8, <2>1, <2>2 DEF Derived, Terminal, CanSucceed
<1>9. QED
  BY <1>1, <1>2, <1>3, <1>4, <1>5, <1>6, <1>7, <1>8

\* Replacing a page derives.
LEMMA WithPageDerives ==
  ASSUME NEW b \in Jobs, NEW n \in PageNumbers, NEW p \in PageRecords, b.pages # NoPages
  PROVE  Derived(b, WithPage(b, n, p)) /\ WithPage(b, n, p).pages # NoPages
         /\ WithPage(b, n, p).state = b.state
<1>1. /\ WithPage(b, n, p).state = b.state /\ WithPage(b, n, p).attempt = b.attempt
      /\ WithPage(b, n, p).revision = b.revision
  BY DEF WithPage, Jobs
<1>2. QED
  BY <1>1, WithPageType DEF Derived, Terminal

\* What a step of worker w that neither writes nor exits leaves alone.
Rest(w, t, a) ==
  /\ todo' = [todo EXCEPT ![w] = t] /\ built' = [built EXCEPT ![w] = a]
  /\ UNCHANGED <<rowVars, partitionVars, msg, rec, apiVars, boundVars>>

\* Leaving todo and built alone is assigning them what they are.
LEMMA RestFrame ==
  ASSUME TypeOK, NEW w \in Workers
  PROVE  /\ todo = [todo EXCEPT ![w] = todo[w]] /\ built = [built EXCEPT ![w] = built[w]]
         /\ pend = [pend EXCEPT ![w] = pend[w]] /\ snap = [snap EXCEPT ![w] = snap[w]]
BY DEF TypeOK

\* A worker that goes on without saving.
LEMMA ContinueInv ==
  ASSUME IInv, NEW w \in Workers, pc[w] # "idle",
         NEW j \in Jobs, FromRow("load", j),
         NEW l \in Labels \ (Saving \cup {"idle"}),
         NEW t \in SUBSET PageNumbers, NEW a \in Nat,
         l \in PagedLabels => j.pages # NoPages /\ job.pages # NoPages,
         l = "prepare" /\ j.pages # NoPages => job.pages # NoPages,
         l \in CurrentLabels => t # {},
         l \in {"repair", "done"} /\ msg[w] = job.attempt => Terminal(job),
         Continue(w, j, l), Rest(w, t, a)
  PROVE  IInv'
<1>1. Local(w, l, j, t, pend[w], a)
  BY RestFrame DEF IInv, TypeOK, Local, Rest, Continue, Goto, rowVars, partitionVars,
                   apiVars, boundVars
<1>2. FromRow(l, j)
  BY DEF FromRow, Saving
<1>3. HasPages(l, j, t, pend[w])
  BY DEF HasPages
<1>4. Concludes(l, j, pend[w], msg[w])
  BY DEF Concludes
<1>5. LocalOK(w, l, j, t, pend[w], a)
  BY <1>2, <1>3, <1>4 DEF LocalOK, IInv, TypeOK
<1>6. QED
  BY <1>1, <1>5, LocalInv

\* A worker that starts to save a snapshot derived from what it read.
LEMMA SaveAtInv ==
  ASSUME IInv, NEW w \in Workers, pc[w] # "idle", NEW l \in Saving,
         NEW b \in Jobs, FromRow("load", b), NEW j, Derived(b, j),
         NEW t \in SUBSET PageNumbers, NEW a \in Nat,
         NEW event \in Events, NEW next \in Resumptions,
         next \in PagedLabels => j.pages # NoPages,
         next \in CurrentLabels => t # {},
         next = "done" => Terminal(j),
         SaveAt(w, l, j, event, next), Rest(w, t, a)
  PROVE  IInv'
<1> DEFINE p == [event |-> event, next |-> next]
<1>1. Local(w, l, j, t, p, a)
  BY DEF IInv, TypeOK, Local, Rest, SaveAt, Goto, rowVars, partitionVars, apiVars,
         boundVars
<1>2. p \in [event : Events, next : Labels] /\ p.next = next
  BY DEF Resumptions, Labels
<1> HIDE DEF p
<1>3. FromRow(l, j)
  BY DEF FromRow, Derived, WorkerMayWrite, Saving, Terminal
<1>4. HasPages(l, j, t, p)
  BY <1>2 DEF HasPages, PagedLabels, CurrentLabels, Saving
<1>5. Concludes(l, j, p, msg[w])
  BY <1>2 DEF Concludes, Saving
<1>6. LocalOK(w, l, j, t, p, a)
  BY <1>2, <1>3, <1>4, <1>5 DEF LocalOK, Derived, Saving, Labels
<1>7. QED
  BY <1>1, <1>6, LocalInv

\* What a worker knows of the row and of the snapshot it holds.
LEMMA Knows ==
  ASSUME IInv, NEW w \in Workers
  PROVE  /\ job \in Jobs /\ FromRow("load", job)
         /\ snap[w] \in Jobs /\ (pc[w] \notin Saving => FromRow("load", snap[w]))
         /\ Latest(w) \in Jobs /\ (pc[w] \notin Saving => FromRow("load", Latest(w)))
         /\ pc[w] \in PagedLabels =>
              snap[w].pages # NoPages /\ job.pages # NoPages /\ Latest(w).pages # NoPages
         /\ pc[w] \in CurrentLabels => CurrentPage(w) \in PageNumbers
         /\ CancelRequested(w) => CanCancel(job)
         /\ todo[w] \in SUBSET PageNumbers /\ built[w] \in Nat /\ pc[w] \in Labels
<1>1. job \in Jobs /\ snap[w] \in Jobs /\ todo[w] \in SUBSET PageNumbers
      /\ built[w] \in Nat /\ pc[w] \in Labels
  BY DEF IInv, TypeOK
<1>2. FromRow("load", job)
  BY <1>1 DEF FromRow, Saving, Jobs
<1>3. pc[w] \notin Saving => FromRow("load", snap[w])
  BY DEF IInv, SnapshotInv, FromRow, Saving
<1>4. pc[w] \in PagedLabels => snap[w].pages # NoPages /\ job.pages # NoPages
  BY DEF IInv, PageInv, HasPages
<1>5. pc[w] \in CurrentLabels => CurrentPage(w) \in PageNumbers
  <2>1. pc[w] \in CurrentLabels => todo[w] # {}
    BY DEF IInv, PageInv, HasPages
  <2>2. todo[w] \in SUBSET Nat
    BY <1>1 DEF PageNumbers
  <2>3. QED
    BY <1>1, <2>1, <2>2, MinMember DEF CurrentPage
<1>6. CancelRequested(w) => CanCancel(job)
  BY DEF CancelRequested, CanCancel
<1>7. QED
  BY <1>1, <1>2, <1>3, <1>4, <1>5, <1>6 DEF Latest

\* The two ways a worker ends a job before it is done with it.
LEMMA SaveCancelledInv ==
  ASSUME IInv, NEW w \in Workers, pc[w] # "idle", NEW l \in Saving, CancelRequested(w),
         SaveCancelled(w, l), Rest(w, todo[w], built[w])
  PROVE  IInv'
<1>1. Derived(job, Cancel(job)) /\ Terminal(Cancel(job))
  BY Knows, MethodsDerive
<1>2. SaveAt(w, l, Cancel(job), "job.cancelled", "done")
  BY DEF SaveCancelled
<1>3. "job.cancelled" \in Events /\ "done" \in Resumptions
      /\ "done" \notin PagedLabels /\ "done" \notin CurrentLabels
  BY DEF Events, TerminalEvents, Resumptions, PagedLabels, CurrentLabels
<1>4. QED
  BY <1>1, <1>2, <1>3, Knows, SaveAtInv

\* OCRWorker._fail keeps the invariant: it cancels or fails what it was given.
LEMMA SaveFailedInv ==
  ASSUME IInv, NEW w \in Workers, pc[w] # "idle", NEW l \in Saving,
         NEW b \in Jobs, FromRow("load", b), CanFail(b),
         SaveFailed(w, l, b), Rest(w, todo[w], built[w])
  PROVE  IInv'
<1>1. /\ CanCancel(b) => Derived(b, Cancel(b)) /\ Terminal(Cancel(b))
      /\ ~ CanCancel(b) => Derived(b, Fail(b)) /\ Terminal(Fail(b))
  BY MethodsDerive
<1>2. {"job.cancelled", "job.failed"} \subseteq Events /\ "done" \in Resumptions
      /\ "done" \notin PagedLabels /\ "done" \notin CurrentLabels
  BY DEF Events, TerminalEvents, Resumptions, PagedLabels, CurrentLabels
<1>3. CASE CanCancel(b)
  <2>1. SaveAt(w, l, Cancel(b), "job.cancelled", "done")
    BY <1>3 DEF SaveFailed
  <2>2. QED
    BY <1>1, <1>2, <1>3, <2>1, Knows, SaveAtInv
<1>4. CASE ~ CanCancel(b)
  <2>1. SaveAt(w, l, Fail(b), "job.failed", "done")
    BY <1>4 DEF SaveFailed
  <2>2. QED
    BY <1>1, <1>2, <1>4, <2>1, Knows, SaveAtInv
<1>5. QED
  BY <1>3, <1>4

(***************************************************************************)
(* The steps of OCRWorker.process between two writes, one lemma each.      *)
(***************************************************************************)

\* The first lookups of process keep the invariant.
LEMMA LoadInv ==
  ASSUME IInv, NEW w \in Workers, Load(w)
  PROVE  IInv'
<1> pc[w] # "idle" /\ pc[w] \notin Saving
  BY DEF Load, Saving
<1>1. Rest(w, todo[w], built[w])
  BY RestFrame DEF IInv, Load, Rest
<1>2. CASE (claimed \/ job.attempt # msg[w]) /\ Continue(w, snap[w], "done")
  <2>1. claimed => Terminal(job)
    BY DEF IInv, DeliveryInv
  <2>2. "done" \in Labels \ (Saving \cup {"idle"}) /\ "done" \notin PagedLabels
        /\ "done" \notin CurrentLabels
    BY DEF Labels, Saving, PagedLabels, CurrentLabels
  <2>3. QED
    BY <1>1, <1>2, <2>1, <2>2, Knows, ContinueInv
<1>3. CASE Terminal(job) /\ Continue(w, job, "repair")
  <2>1. "repair" \in Labels \ (Saving \cup {"idle"}) /\ "repair" \notin PagedLabels
        /\ "repair" \notin CurrentLabels
    BY DEF Labels, Saving, PagedLabels, CurrentLabels
  <2>2. QED
    BY <1>1, <1>3, <2>1, Knows, ContinueInv
<1>4. CASE ~ Terminal(job) /\ SaveFailed(w, "save", job)
  BY <1>1, <1>4, Knows, SaveFailedInv DEF CanFail, Saving
<1>5. CASE /\ CanBeginPreprocessing(job)
           /\ SaveThen(w, BeginPreprocessing(job), "job.preprocessing", "prepare")
  <2>1. SaveAt(w, "save", BeginPreprocessing(job), "job.preprocessing", "prepare")
    BY <1>5 DEF SaveThen
  <2>2. Derived(job, BeginPreprocessing(job))
    BY <1>5, Knows, MethodsDerive
  <2>3. "save" \in Saving /\ "job.preprocessing" \in Events /\ "prepare" \in Resumptions
        /\ "prepare" \notin PagedLabels /\ "prepare" \notin CurrentLabels
    BY DEF Saving, Events, Resumptions, PagedLabels, CurrentLabels
  <2>4. QED
    BY <1>1, <2>1, <2>2, <2>3, Knows, SaveAtInv
<1>6. CASE Continue(w, job, "prepare")
  <2>1. "prepare" \in Labels \ (Saving \cup {"idle"}) /\ "prepare" \notin PagedLabels
        /\ "prepare" \notin CurrentLabels
    BY DEF Labels, Saving, PagedLabels, CurrentLabels
  <2>2. QED
    BY <1>1, <1>6, <2>1, Knows, ContinueInv
<1>7. QED
  BY <1>2, <1>3, <1>4, <1>5, <1>6 DEF Load

\* Preparing the pages keeps the invariant.
LEMMA PrepareInv ==
  ASSUME IInv, NEW w \in Workers, Prepare(w)
  PROVE  IInv'
<1> pc[w] # "idle" /\ pc[w] \notin Saving
  BY DEF Prepare, Saving
<1>1. Rest(w, todo[w], built[w])
  BY RestFrame DEF IInv, Prepare, Rest
<1>2. {"check", "except"} \subseteq Labels \ (Saving \cup {"idle"} \cup CurrentLabels)
      /\ "except" \notin PagedLabels
  BY DEF Labels, Saving, PagedLabels, CurrentLabels
<1>3. CASE snap[w].pages # NoPages /\ Continue(w, snap[w], "check")
  <2>1. job.pages # NoPages
    BY <1>3 DEF IInv, PageInv, HasPages, Prepare
  <2>2. QED
    BY <1>1, <1>2, <1>3, <2>1, Knows, ContinueInv
<1>4. CASE CanSetPages(snap[w])
           /\ SaveThen(w, SetPages(snap[w]), "job.pages_prepared", "check")
  <2>1. SaveAt(w, "save", SetPages(snap[w]), "job.pages_prepared", "check")
    BY <1>4 DEF SaveThen
  <2>2. Derived(snap[w], SetPages(snap[w])) /\ SetPages(snap[w]).pages # NoPages
    BY <1>4, Knows, MethodsDerive
  <2>3. "save" \in Saving /\ "job.pages_prepared" \in Events /\ "check" \in Resumptions
    BY DEF Saving, Events, Resumptions
  <2>4. QED
    BY <1>1, <1>2, <2>1, <2>2, <2>3, Knows, SaveAtInv
<1>5. CASE Continue(w, snap[w], "except")
  BY <1>1, <1>2, <1>5, Knows, ContinueInv
<1>6. QED
  BY <1>3, <1>4, <1>5 DEF Prepare

\* Choosing where the run resumes keeps the invariant.
LEMMA CheckInv ==
  ASSUME IInv, NEW w \in Workers, Check(w)
  PROVE  IInv'
<1> pc[w] # "idle" /\ pc[w] \notin Saving /\ pc[w] \in PagedLabels
  BY DEF Check, Saving, PagedLabels
<1> DEFINE t == IncompletePages(snap[w])
<1>1. {"loop", "assemble", "except"} \subseteq Labels \ (Saving \cup {"idle"} \cup CurrentLabels)
      /\ "except" \notin PagedLabels /\ "save" \in Saving
      /\ "job.running" \in Events /\ "loop" \in Resumptions
  BY DEF Labels, Saving, PagedLabels, CurrentLabels, Events, Resumptions
<1>2. CASE CancelRequested(w) /\ SaveCancelled(w, "save") /\ UNCHANGED todo
  <2>1. Rest(w, todo[w], built[w])
    BY <1>2, RestFrame DEF IInv, Check, Rest
  <2>2. QED
    BY <1>1, <1>2, <2>1, SaveCancelledInv
<1>3. t \in SUBSET PageNumbers
  BY DEF IncompletePages
<1>4. todo' = [todo EXCEPT ![w] = t] => Rest(w, t, built[w])
  BY RestFrame DEF IInv, Check, Rest
<1> HIDE DEF t
<1>5. CASE /\ CanBeginRunning(snap[w]) /\ todo' = [todo EXCEPT ![w] = t]
           /\ SaveThen(w, BeginRunning(snap[w]), "job.running", "loop")
  <2>1. SaveAt(w, "save", BeginRunning(snap[w]), "job.running", "loop")
    BY <1>5 DEF SaveThen
  <2>2. Derived(snap[w], BeginRunning(snap[w]))
    BY <1>5, Knows, MethodsDerive
  <2>3. BeginRunning(snap[w]).pages # NoPages
    BY <2>2, Knows DEF Derived
  <2>4. QED
    BY <1>1, <1>3, <1>4, <1>5, <2>1, <2>2, <2>3, Knows, SaveAtInv
<1>6. CASE /\ todo' = [todo EXCEPT ![w] = t]
           /\ \E l \in {"loop", "assemble", "except"} : Continue(w, snap[w], l)
  <2>1. PICK l \in {"loop", "assemble", "except"} : Continue(w, snap[w], l)
    BY <1>6
  <2>2. l \in Labels \ (Saving \cup {"idle"}) /\ l \notin CurrentLabels
        /\ l # "prepare" /\ l \notin {"repair", "done"}
    BY <1>1
  <2>3. QED
    BY <1>3, <1>4, <1>6, <2>1, <2>2, Knows, ContinueInv
<1>7. QED
  BY <1>2, <1>5, <1>6 DEF Check, t

\* The head of the page loop keeps the invariant.
LEMMA LoopInv ==
  ASSUME IInv, NEW w \in Workers, Loop(w)
  PROVE  IInv'
<1> pc[w] # "idle" /\ pc[w] \notin Saving /\ pc[w] \in PagedLabels
  BY DEF Loop, Saving, PagedLabels
<1>1. {"try", "except"} \subseteq Labels \ (Saving \cup {"idle"})
      /\ "except" \notin PagedLabels /\ "except" \notin CurrentLabels /\ "save" \in Saving
      /\ "job.assembling" \in Events /\ "assemble" \in Resumptions
      /\ "assemble" \notin CurrentLabels
  BY DEF Labels, Saving, PagedLabels, CurrentLabels, Events, Resumptions
<1>2. Rest(w, todo[w], built[w])
  BY RestFrame DEF IInv, Loop, Rest
<1>3. CASE CancelRequested(w) /\ SaveCancelled(w, "save")
  BY <1>1, <1>2, <1>3, SaveCancelledInv
<1>4. CASE todo[w] # {} /\ Continue(w, Latest(w), "try")
  BY <1>1, <1>2, <1>4, Knows, ContinueInv
<1>5. CASE Continue(w, Latest(w), "except")
  BY <1>1, <1>2, <1>5, Knows, ContinueInv
<1>6. CASE /\ CanBeginAssembling(snap[w])
           /\ SaveThen(w, BeginAssembling(snap[w]), "job.assembling", "assemble")
  <2>1. SaveAt(w, "save", BeginAssembling(snap[w]), "job.assembling", "assemble")
    BY <1>6 DEF SaveThen
  <2>2. Derived(snap[w], BeginAssembling(snap[w]))
    BY <1>6, Knows, MethodsDerive
  <2>3. BeginAssembling(snap[w]).pages # NoPages
    BY <2>2, Knows DEF Derived
  <2>4. QED
    BY <1>1, <1>2, <2>1, <2>2, <2>3, Knows, SaveAtInv
<1>7. CASE Continue(w, snap[w], "except")
  BY <1>1, <1>2, <1>7, Knows, ContinueInv
<1>8. QED
  BY <1>3, <1>4, <1>5, <1>6, <1>7 DEF Loop

\* The top of _process_page's loop keeps the invariant.
LEMMA TryInv ==
  ASSUME IInv, NEW w \in Workers, Try(w)
  PROVE  IInv'
<1> pc[w] # "idle" /\ pc[w] \notin Saving /\ pc[w] \in PagedLabels /\ pc[w] \in CurrentLabels
  BY DEF Try, Saving, PagedLabels, CurrentLabels
<1> DEFINE j == Latest(w)  n == CurrentPage(w)
           k == WithPage(j, n, PageStart(j.pages[n]))
<1>1. "pagefail" \in Labels \ (Saving \cup {"idle"})
      /\ "save" \in Saving /\ "page.running" \in Events /\ "engine" \in Resumptions
  BY DEF Labels, Saving, Events, Resumptions
<1>2. Rest(w, todo[w], built[w])
  BY RestFrame DEF IInv, Try, Rest
<1>3. todo[w] # {}
  BY DEF IInv, PageInv, HasPages
<1>4. Derived(j, k) /\ k.pages # NoPages
  <2>1. j.pages[n] \in PageRecords
    BY Knows DEF Jobs
  <2>2. QED
    BY <2>1, Knows, PageType, WithPageDerives
<1>5. Try(w) => \/ CancelRequested(w) /\ SaveCancelled(w, "save")
                \/ Continue(w, j, "pagefail")
                \/ SaveAt(w, "save", k, "page.running", "engine")
  BY Zenon DEF Try, SaveThen
<1> HIDE DEF j, n, k
<1>6. j \in Jobs /\ FromRow("load", j) /\ j.pages # NoPages
  BY Knows DEF j
<1>7. CASE CancelRequested(w) /\ SaveCancelled(w, "save")
  BY <1>1, <1>2, <1>7, SaveCancelledInv
<1>8. CASE Continue(w, j, "pagefail")
  BY <1>1, <1>2, <1>3, <1>6, <1>8, Knows, ContinueInv
<1>9. CASE SaveAt(w, "save", k, "page.running", "engine")
  BY <1>1, <1>2, <1>3, <1>4, <1>6, <1>9, Knows, SaveAtInv
<1>10. QED
  BY <1>5, <1>7, <1>8, <1>9

\* Storing a recognised page keeps the invariant.
LEMMA EngineReturnsInv ==
  ASSUME IInv, NEW w \in Workers, EngineReturns(w)
  PROVE  IInv'
<1> pc[w] # "idle" /\ pc[w] \notin Saving /\ pc[w] \in PagedLabels /\ pc[w] \in CurrentLabels
  BY DEF EngineReturns, Saving, PagedLabels, CurrentLabels
<1> DEFINE j == Latest(w)  n == CurrentPage(w)
           k == WithPage(j, n, PageSucceed(j.pages[n]))
           t == todo[w] \ {n}
           next == IF j.state \in {"failed", "cancelled"} THEN "done" ELSE "loop"
<1>1. "pagefail" \in Labels \ (Saving \cup {"idle"}) /\ "save" \in Saving
      /\ "page.succeeded" \in Events /\ {"done", "loop"} \subseteq Resumptions \ CurrentLabels
  BY DEF Labels, Saving, Events, Resumptions, CurrentLabels
<1>2. UNCHANGED todo => Rest(w, todo[w], built[w])
  BY RestFrame DEF IInv, EngineReturns, Rest
<1>3. todo' = [todo EXCEPT ![w] = t] => Rest(w, t, built[w])
  BY RestFrame DEF IInv, EngineReturns, Rest
<1>4. todo[w] # {} /\ t \in SUBSET PageNumbers
  BY Knows DEF IInv, PageInv, HasPages
<1>5. Derived(j, k) /\ k.pages # NoPages /\ k.state = j.state
  <2>1. j.pages[n] \in PageRecords
    BY Knows DEF Jobs
  <2>2. QED
    BY <2>1, Knows, PageType, WithPageDerives
<1>6. \/ CancelRequested(w) /\ SaveCancelled(w, "save") /\ UNCHANGED todo
      \/ /\ SaveAt(w, "save", k, "page.succeeded", next)
         /\ todo' = [todo EXCEPT ![w] = t]
      \/ Continue(w, snap[w], "pagefail") /\ UNCHANGED todo
  BY Zenon DEF EngineReturns, SaveThen
<1>7. next \in {"done", "loop"} /\ (next = "done" => Terminal(k))
  BY <1>5 DEF Terminal
<1> HIDE DEF j, n, k, t, next
<1>8. j \in Jobs /\ FromRow("load", j)
  BY Knows DEF j
<1>9. CASE CancelRequested(w) /\ SaveCancelled(w, "save") /\ UNCHANGED todo
  BY <1>1, <1>2, <1>9, SaveCancelledInv
<1>10. CASE SaveAt(w, "save", k, "page.succeeded", next) /\ todo' = [todo EXCEPT ![w] = t]
  BY <1>1, <1>3, <1>4, <1>5, <1>7, <1>8, <1>10, Knows, SaveAtInv
<1>11. CASE Continue(w, snap[w], "pagefail") /\ UNCHANGED todo
  BY <1>1, <1>2, <1>4, <1>11, Knows, ContinueInv
<1>12. QED
  BY <1>6, <1>9, <1>10, <1>11

\* A failing engine call keeps the invariant.
LEMMA EngineRaisesInv ==
  ASSUME IInv, NEW w \in Workers, EngineRaises(w)
  PROVE  IInv'
<1> pc[w] # "idle" /\ pc[w] \notin Saving /\ pc[w] \in PagedLabels /\ pc[w] \in CurrentLabels
  BY DEF EngineRaises, Saving, PagedLabels, CurrentLabels
<1>1. "pagefail" \in Labels \ (Saving \cup {"idle"}) /\ "save" \in Saving
      /\ "page.retry_scheduled" \in Events /\ "try" \in Resumptions
  BY DEF Labels, Saving, Events, Resumptions
<1>2. Rest(w, todo[w], built[w])
  BY RestFrame DEF IInv, EngineRaises, Rest
<1>3. todo[w] # {}
  BY DEF IInv, PageInv, HasPages
<1>4. CASE SaveThen(w, snap[w], "page.retry_scheduled", "try")
  <2>1. SaveAt(w, "save", snap[w], "page.retry_scheduled", "try")
    BY <1>4 DEF SaveThen
  <2>2. Derived(snap[w], snap[w])
    BY Knows, MethodsDerive
  <2>3. QED
    BY <1>1, <1>2, <1>3, <2>1, <2>2, Knows, SaveAtInv
<1>5. CASE Continue(w, snap[w], "pagefail")
  BY <1>1, <1>2, <1>3, <1>5, Knows, ContinueInv
<1>6. QED
  BY <1>4, <1>5 DEF EngineRaises

\* Failing the page after its last attempt keeps the invariant.
LEMMA FailPageInv ==
  ASSUME IInv, NEW w \in Workers, FailPage(w)
  PROVE  IInv'
<1> pc[w] # "idle" /\ pc[w] \notin Saving /\ pc[w] \in PagedLabels /\ pc[w] \in CurrentLabels
  BY DEF FailPage, Saving, PagedLabels, CurrentLabels
<1> DEFINE j == Latest(w)  n == CurrentPage(w)
           k == WithPage(j, n, PageFail(j.pages[n]))
<1>1. "save" \in Saving /\ "page.failed" \in Events /\ "jobfail" \in Resumptions \ CurrentLabels
  BY DEF Labels, Saving, Events, Resumptions, CurrentLabels
<1>2. Rest(w, todo[w], built[w])
  BY RestFrame DEF IInv, FailPage, Rest
<1>3. Derived(j, k) /\ k.pages # NoPages
  <2>1. j.pages[n] \in PageRecords
    BY Knows DEF Jobs
  <2>2. QED
    BY <2>1, Knows, PageType, WithPageDerives
<1>4. SaveAt(w, "save", k, "page.failed", "jobfail")
  BY Zenon DEF FailPage, SaveThen
<1> HIDE DEF k
<1>5. QED
  BY <1>1, <1>2, <1>3, <1>4, Knows, SaveAtInv

\* Failing the job after its page keeps the invariant.
LEMMA FailJobInv ==
  ASSUME IInv, NEW w \in Workers, FailJob(w)
  PROVE  IInv'
<1> pc[w] # "idle" /\ pc[w] \notin Saving
  BY DEF FailJob, Saving
<1>1. "except" \in Labels \ (Saving \cup {"idle"} \cup PagedLabels \cup CurrentLabels)
      /\ "save" \in Saving
  BY DEF Labels, Saving, PagedLabels, CurrentLabels
<1>2. Rest(w, todo[w], built[w])
  BY RestFrame DEF IInv, FailJob, Rest
<1>3. CASE CanFail(snap[w]) /\ SaveFailed(w, "save", snap[w])
  BY <1>1, <1>2, <1>3, Knows, SaveFailedInv
<1>4. CASE Continue(w, snap[w], "except")
  BY <1>1, <1>2, <1>4, Knows, ContinueInv
<1>5. QED
  BY <1>3, <1>4 DEF FailJob

\* Building the artifacts keeps the invariant.
LEMMA AssembleInv ==
  ASSUME IInv, NEW w \in Workers, Assemble(w)
  PROVE  IInv'
<1> pc[w] # "idle" /\ pc[w] \notin Saving /\ pc[w] \in PagedLabels
  BY DEF Assemble, Saving, PagedLabels
<1>1. {"except", "recheck"} \subseteq Labels \ (Saving \cup {"idle"} \cup CurrentLabels)
      /\ "except" \notin PagedLabels
  BY DEF Labels, Saving, PagedLabels, CurrentLabels
<1>2. CASE built' = [built EXCEPT ![w] = snap[w].attempt] /\ Continue(w, snap[w], "recheck")
  <2>1. Rest(w, todo[w], snap[w].attempt)
    BY <1>2, RestFrame DEF IInv, Assemble, Rest
  <2>2. snap[w].attempt \in Nat
    BY Knows DEF Jobs
  <2>3. QED
    BY <1>1, <1>2, <2>1, <2>2, Knows, ContinueInv
<1>3. CASE Continue(w, snap[w], "except") /\ UNCHANGED built
  <2>1. Rest(w, todo[w], built[w])
    BY <1>3, RestFrame DEF IInv, Assemble, Rest
  <2>2. QED
    BY <1>1, <1>3, <2>1, Knows, ContinueInv
<1>4. QED
  BY <1>2, <1>3 DEF Assemble

\* The look for a cancellation after assembling keeps the invariant.
LEMMA RecheckInv ==
  ASSUME IInv, NEW w \in Workers, Recheck(w)
  PROVE  IInv'
<1> pc[w] # "idle" /\ pc[w] \notin Saving /\ pc[w] \in PagedLabels
  BY DEF Recheck, Saving, PagedLabels
<1>1. "finish" \in Labels \ (Saving \cup {"idle"} \cup CurrentLabels) /\ "save" \in Saving
  BY DEF Labels, Saving, CurrentLabels
<1>2. Rest(w, todo[w], built[w])
  BY RestFrame DEF IInv, Recheck, Rest
<1>3. CASE CancelRequested(w) /\ SaveCancelled(w, "save")
  BY <1>1, <1>2, <1>3, SaveCancelledInv
<1>4. CASE Continue(w, snap[w], "finish")
  BY <1>1, <1>2, <1>4, Knows, ContinueInv
<1>5. QED
  BY <1>3, <1>4 DEF Recheck

\* job.succeed keeps the invariant.
LEMMA FinishInv ==
  ASSUME IInv, NEW w \in Workers, Finish(w)
  PROVE  IInv'
<1> pc[w] # "idle" /\ pc[w] \notin Saving /\ pc[w] \in PagedLabels
  BY DEF Finish, Saving, PagedLabels
<1>1. "except" \in Labels \ (Saving \cup {"idle"} \cup PagedLabels \cup CurrentLabels)
      /\ "save" \in Saving /\ "job.succeeded" \in Events
      /\ "done" \in Resumptions \ (PagedLabels \cup CurrentLabels)
  BY DEF Labels, Saving, PagedLabels, CurrentLabels, Events, TerminalEvents, Resumptions
<1>2. Rest(w, todo[w], built[w])
  BY RestFrame DEF IInv, Finish, Rest
<1>3. CASE /\ CanSucceed(Latest(w))
           /\ SaveThen(w, Succeed(Latest(w), built[w]), "job.succeeded", "done")
  <2>1. SaveAt(w, "save", Succeed(Latest(w), built[w]), "job.succeeded", "done")
    BY <1>3 DEF SaveThen
  <2>2. Derived(Latest(w), Succeed(Latest(w), built[w]))
        /\ Terminal(Succeed(Latest(w), built[w]))
    BY <1>3, Knows, MethodsDerive
  <2>3. QED
    BY <1>1, <1>2, <2>1, <2>2, Knows, SaveAtInv
<1>4. CASE Continue(w, Latest(w), "except")
  BY <1>1, <1>2, <1>4, Knows, ContinueInv
<1>5. QED
  BY <1>3, <1>4 DEF Finish

\* The general exception handler of process keeps the invariant.
LEMMA ExceptInv ==
  ASSUME IInv, NEW w \in Workers, Except(w)
  PROVE  IInv'
<1> pc[w] # "idle" /\ pc[w] \notin Saving
  BY DEF Except, Saving
<1>1. "done" \in Labels \ (Saving \cup {"idle"} \cup PagedLabels \cup CurrentLabels)
      /\ "handlersave" \in Saving
  BY DEF Labels, Saving, PagedLabels, CurrentLabels
<1>2. Rest(w, todo[w], built[w])
  BY RestFrame DEF IInv, Except, Rest
<1>3. CASE CancelRequested(w) /\ SaveCancelled(w, "handlersave")
  BY <1>1, <1>2, <1>3, SaveCancelledInv
<1>4. CASE Terminal(Latest(w)) /\ Continue(w, Latest(w), "done")
  <2>1. Terminal(job)
    BY <1>4 DEF Latest, IInv, DeliveryInv
  <2>2. QED
    BY <1>1, <1>2, <1>4, <2>1, Knows, ContinueInv
<1>5. CASE ~ Terminal(Latest(w)) /\ SaveFailed(w, "handlersave", Latest(w))
  BY <1>1, <1>2, <1>5, Knows, SaveFailedInv DEF CanFail
<1>6. QED
  BY <1>3, <1>4, <1>5 DEF Except

(***************************************************************************)
(* Steps that write the row.                                               *)
(***************************************************************************)

\* append_with_connection keeps the event table well typed.
LEMMA AppendedType ==
  ASSUME TypeOK, NEW event \in Events, NEW a \in Nat
  PROVE  Appended(event, a) \in Seq([type : TerminalEvents, attempt : Nat])
<1> DEFINE Rows == [type : TerminalEvents, attempt : Nat]
           e == [type |-> event, attempt |-> a]
<1>1. terminals \in Seq(Rows) /\ (event \in TerminalEvents => e \in Rows)
  BY DEF TypeOK
<1>2. Appended(event, a) = terminals
      \/ (event \in TerminalEvents /\ Appended(event, a) = Append(terminals, e))
  BY DEF Appended
<1> HIDE DEF Rows, e
<1>3. Append(terminals, e) \in Seq(Rows) \/ event \notin TerminalEvents
  BY <1>1
<1>4. QED
  BY <1>1, <1>2, <1>3 DEF Rows

\* A write that advances the revision, keeps the pages, and either keeps the attempt
\* without reopening it or starts the next one with its event in the outbox.
Written ==
  /\ job' \in Jobs /\ job'.revision = job.revision + 1
  /\ job.pages # NoPages => job'.pages # NoPages
  /\ \/ job'.attempt = job.attempt /\ (Terminal(job) => Terminal(job)') /\ outbox' = outbox
     \/ /\ job'.attempt = job.attempt + 1 /\ outbox' = outbox \cup {job'.attempt}
  /\ ~ claimed
  /\ UNCHANGED <<claimed, inflight, queue, offset, position, owner, msg, rec, todo,
                 built, crashes, rebalances, requests>>

\* Such a write makes every other snapshot stale and leaves every settled record so.
LEMMA WrittenFacts ==
  ASSUME IInv, Written
  PROVE  /\ job.revision \in Nat /\ job.attempt \in Nat
         /\ job'.revision \in Nat /\ job'.attempt \in Nat
         /\ \A v \in Workers : snap[v].revision < job'.revision
         /\ \A c \in Clients : apc[c] = "save" => asnap[c].revision < job'.revision
         /\ \A i \in 1..Len(queue) : queue[i] \in 1..job'.attempt
         /\ \A i \in 1..Len(queue) : Settled(i) => Settled(i)'
         /\ outbox' \subseteq 1..job'.attempt
         /\ ~ Terminal(job)' => \/ job'.attempt \in outbox'
                                \/ \E i \in 1..Len(queue) : queue[i] = job'.attempt
<1>1. /\ job.revision \in Nat /\ job.attempt \in Nat /\ job'.revision \in Nat
      /\ job'.attempt \in Nat
  BY DEF IInv, TypeOK, Jobs, Written
<1>2. ASSUME NEW v \in Workers PROVE snap[v].revision < job'.revision
  <2>1. snap[v].revision \in Nat /\ snap[v].revision <= job.revision
    BY DEF IInv, TypeOK, Jobs, SnapshotInv, FromRow
  <2>2. QED
    BY <1>1, <2>1 DEF Written
<1>3. ASSUME NEW c \in Clients, apc[c] = "save" PROVE asnap[c].revision < job'.revision
  <2>1. asnap[c].revision \in Nat /\ asnap[c].revision <= job.revision
    BY <1>3 DEF IInv, TypeOK, Jobs, SnapshotInv
  <2>2. QED
    BY <1>1, <2>1 DEF Written
<1>4. ASSUME NEW i \in 1..Len(queue)
      PROVE  queue[i] \in 1..job'.attempt /\ (Settled(i) => Settled(i)')
  <2>1. queue[i] \in 1..job.attempt
    BY DEF IInv, DeliveryInv
  <2>2. QED
    BY <1>1, <2>1 DEF Written, Settled
<1>5. outbox' \subseteq 1..job'.attempt
  <2>1. outbox \subseteq 1..job.attempt
    BY DEF IInv, DeliveryInv
  <2>2. outbox' = outbox \/ outbox' = outbox \cup {job'.attempt}
    BY DEF Written
  <2>3. job.attempt <= job'.attempt /\ (outbox' # outbox => job'.attempt \in 1..job'.attempt)
    BY <1>1 DEF Written
  <2>4. SUFFICES ASSUME NEW x \in outbox' PROVE x \in 1..job'.attempt
    OBVIOUS
  <2>5. CASE x \in outbox
    BY <1>1, <2>1, <2>3, <2>5
  <2>6. CASE x \notin outbox
    <3>1. outbox' # outbox /\ x = job'.attempt
      BY <2>2, <2>4, <2>6
    <3>2. QED
      BY <2>3, <3>1
  <2>7. QED
    BY <2>5, <2>6
<1>6. ~ Terminal(job)' => \/ job'.attempt \in outbox'
                          \/ \E i \in 1..Len(queue) : queue[i] = job'.attempt
  BY DEF IInv, DeliveryInv, Written
<1>7. QED
  BY <1>1, <1>2, <1>3, <1>4, <1>5, <1>6

\* A worker not concerned by such a write keeps its part of the invariant.
LEMMA WrittenOthers ==
  ASSUME IInv, Written, NEW v \in Workers,
         pc'[v] = pc[v], snap'[v] = snap[v], pend'[v] = pend[v]
  PROVE  /\ HasPages(pc[v], snap[v], todo[v], pend[v])'
         /\ FromRow(pc[v], snap[v])'
         /\ pc[v] # "idle" =>
              /\ rec'[v] \in 1..Len(queue') /\ msg'[v] = queue'[rec'[v]]
              /\ \A i \in 1..(rec'[v] - 1) : Settled(i)'
              /\ Concludes(pc[v], snap[v], pend[v], msg[v])'
<1>1. HasPages(pc[v], snap[v], todo[v], pend[v])'
  BY DEF IInv, PageInv, HasPages, Written
<1>2. FromRow(pc[v], snap[v])'
  <2>1. snap'[v].revision < job'.revision /\ snap'[v].revision \in Nat /\ job'.revision \in Nat
    BY WrittenFacts DEF IInv, TypeOK, Jobs
  <2>2. QED
    BY <2>1 DEF FromRow
<1>3. ASSUME pc[v] # "idle"
      PROVE  /\ rec'[v] \in 1..Len(queue') /\ msg'[v] = queue'[rec'[v]]
             /\ \A i \in 1..(rec'[v] - 1) : Settled(i)'
             /\ Concludes(pc[v], snap[v], pend[v], msg[v])'
  <2>1. rec[v] \in 1..Len(queue) /\ msg[v] = queue[rec[v]]
        /\ (\A i \in 1..(rec[v] - 1) : Settled(i))
        /\ Concludes(pc[v], snap[v], pend[v], msg[v])
    BY <1>3 DEF IInv, DeliveryInv
  <2>2. Len(queue) \in Nat
    BY DEF IInv, TypeOK
  <2>3. \A i \in 1..(rec'[v] - 1) : Settled(i)'
    <3> SUFFICES ASSUME NEW i \in 1..(rec'[v] - 1) PROVE Settled(i)'
      OBVIOUS
    <3>1. i \in 1..(rec[v] - 1) /\ i \in 1..Len(queue)
      BY <2>1, <2>2 DEF Written
    <3>2. QED
      BY <2>1, <3>1, WrittenFacts
  <2>4. Concludes(pc[v], snap[v], pend[v], msg[v])'
    <3>1. msg'[v] = msg[v] /\ msg[v] \in 1..job.attempt
      BY <2>1 DEF IInv, DeliveryInv, Written
    <3>2. msg[v] = job'.attempt => msg[v] = job.attempt /\ (Terminal(job) => Terminal(job)')
      BY <3>1, WrittenFacts DEF Written
    <3>3. Terminal(snap[v]) => Terminal(snap[v])'
      BY DEF Terminal
    <3>4. QED
      BY <2>1, <3>1, <3>2, <3>3 DEF Concludes
  <2>5. QED
    BY <2>1, <2>3, <2>4 DEF Written
<1>4. QED
  BY <1>1, <1>2, <1>3

\* A worker's save commits.
LEMMA WorkerWriteInv ==
  ASSUME IInv, NEW w \in Workers, pc[w] \in Saving, Saveable(snap[w]),
         SaveWithEvent(snap[w], pend[w].event),
         snap' = [snap EXCEPT ![w] = Saved(@)], pend' = [pend EXCEPT ![w] = NoSave],
         Goto(w, pend[w].next),
         UNCHANGED <<claimed, outbox, partitionVars, msg, rec, todo, built, apiVars,
                     boundVars>>
  PROVE  IInv'
<1> USE DEF partitionVars, apiVars, boundVars
<1> DEFINE next == pend[w].next
<1>1. snap[w] \in Jobs /\ FromRow(pc[w], snap[w])
      /\ HasPages(pc[w], snap[w], todo[w], pend[w])
  BY DEF IInv, TypeOK, SnapshotInv, PageInv
<1>2. next \in Resumptions /\ (next \in PagedLabels => snap[w].pages # NoPages)
      /\ (next \in CurrentLabels => todo[w] # {}) /\ next \notin Saving
      /\ next \in Labels /\ next # "repair" /\ next # "idle"
  BY <1>1 DEF HasPages, Resumptions, Saving, Labels
<1>3. /\ job' = Saved(snap[w]) /\ job' \in Jobs
      /\ job'.state = snap[w].state /\ job'.pages = snap[w].pages
      /\ job'.attempt = snap[w].attempt /\ job'.revision = snap[w].revision + 1
  <2>1. job' = Saved(snap[w])
    BY DEF SaveWithEvent
  <2>2. QED
    BY <1>1, <2>1, JobType DEF Saved, Jobs
<1>4. Written
  BY <1>1, <1>3 DEF Written, Saveable, FromRow, WorkerMayWrite, Terminal
<1>5. /\ pc' = [pc EXCEPT ![w] = next] /\ pc'[w] = next /\ snap'[w] = job'
      /\ pend'[w] = NoSave
      /\ \A v \in Workers \ {w} : pc'[v] = pc[v] /\ snap'[v] = snap[v] /\ pend'[v] = pend[v]
  BY <1>3 DEF IInv, TypeOK, Goto
<1>6. TypeOK'
  <2>1. terminals' \in Seq([type : TerminalEvents, attempt : Nat])
    <3>1. pend[w].event \in Events /\ snap[w].attempt \in Nat
      BY <1>1 DEF IInv, TypeOK, Jobs
    <3>2. QED
      BY <3>1, AppendedType DEF SaveWithEvent, IInv
  <2>2. NoSave \in [event : Events, next : Labels]
    BY DEF NoSave, Events, Labels
  <2>3. snap' \in [Workers -> Jobs] /\ pc' \in [Workers -> Labels]
    BY <1>2, <1>3, <1>5, JobType DEF IInv, TypeOK
  <2>4. pend' \in [Workers -> [event : Events, next : Labels]]
    BY <2>2 DEF IInv, TypeOK
  <2>5. QED
    BY <1>3, <2>1, <2>3, <2>4 DEF IInv, TypeOK
<1>7. ASSUME NEW v \in Workers
      PROVE  /\ HasPages(pc[v], snap[v], todo[v], pend[v])'
             /\ FromRow(pc[v], snap[v])'
             /\ pc'[v] # "idle" =>
                  /\ rec'[v] \in 1..Len(queue') /\ msg'[v] = queue'[rec'[v]]
                  /\ \A i \in 1..(rec'[v] - 1) : Settled(i)'
                  /\ Concludes(pc[v], snap[v], pend[v], msg[v])'
  <2>1. CASE v = w
    <3>1. HasPages(pc[v], snap[v], todo[v], pend[v])'
      BY <1>2, <1>3, <1>5, <2>1 DEF HasPages
    <3>2. FromRow(pc[v], snap[v])'
      BY <1>2, <1>3, <1>5, <2>1 DEF FromRow, Jobs
    <3>3. rec[v] \in 1..Len(queue) /\ msg[v] = queue[rec[v]]
          /\ (\A i \in 1..(rec[v] - 1) : Settled(i))
          /\ Concludes(pc[v], snap[v], pend[v], msg[v])
      BY <2>1 DEF IInv, DeliveryInv, Saving
    <3>4. \A i \in 1..(rec'[v] - 1) : Settled(i)'
      <4> SUFFICES ASSUME NEW i \in 1..(rec'[v] - 1) PROVE Settled(i)'
        OBVIOUS
      <4>1. i \in 1..(rec[v] - 1) /\ i \in 1..Len(queue)
        BY <3>3 DEF IInv, TypeOK
      <4>2. QED
        BY <1>4, <3>3, <4>1, WrittenFacts
    <3>5. Concludes(pc[v], snap[v], pend[v], msg[v])'
      BY <1>2, <1>3, <1>5, <2>1, <3>3 DEF Concludes, Terminal
    <3>6. QED
      BY <3>1, <3>2, <3>3, <3>4, <3>5
  <2>2. CASE v # w
    BY <1>4, <1>5, <2>2, WrittenOthers
  <2>3. QED
    BY <2>1, <2>2
<1>8. PageInv'
  BY <1>7 DEF PageInv
<1>9. SnapshotInv'
  <2>1. job'.revision # 0
    BY <1>4 DEF Written, IInv, TypeOK, Jobs
  <2>2. \A c \in Clients : apc'[c] = "save" =>
          asnap'[c].revision < job'.revision /\ asnap'[c].revision \in Nat
    BY <1>4, WrittenFacts DEF IInv, TypeOK, Jobs
  <2>3. job'.revision \in Nat
    BY <1>4, WrittenFacts
  <2>4. QED
    BY <1>7, <2>1, <2>2, <2>3 DEF SnapshotInv
<1>10. DeliveryInv'
  <2>1. \A i \in 1..Len(queue) : Settled(i) => Settled(i)'
    BY <1>4, WrittenFacts
  <2>2. pc[owner] # "idle" => pc'[owner] # "idle"
    BY <1>2, <1>5 DEF IInv, TypeOK
  <2>3. offset \in 0..Len(queue) /\ position \in 0..Len(queue) /\ Len(queue) \in Nat
    BY DEF IInv, TypeOK, DeliveryInv
  <2>4. \A i \in 1..offset : Settled(i)'
    BY <2>1, <2>3 DEF IInv, DeliveryInv
  <2>5. \A i \in 1..position : Settled(i)' \/ (pc'[owner'] # "idle" /\ rec'[owner'] = i)
    BY <2>1, <2>2, <2>3 DEF IInv, DeliveryInv
  <2>6. claimed' => Terminal(job)'
    BY DEF Saveable
  <2>7. QED
    BY <1>4, <1>7, <2>3, <2>4, <2>5, <2>6, WrittenFacts DEF IInv, DeliveryInv
<1>11. QED
  BY <1>6, <1>8, <1>9, <1>10 DEF IInv

\* An API handler's save commits.
LEMMA ApiSaveInv ==
  ASSUME IInv, NEW c \in Clients, ApiSave(c)
  PROVE  IInv'
<1> USE DEF partitionVars, taskVars, boundVars
<1>1. apc[c] = "save" /\ aop[c] \in {"cancel", "retry"} /\ asnap[c] \in Jobs
      /\ asnap' = [asnap EXCEPT ![c] = NewJob]
  BY DEF ApiSave, IInv, TypeOK
<1>2. NewJob \in Jobs
  BY DEF NewJob, Jobs, JobStates
<1>3. CASE UNCHANGED <<job, terminals, outbox>> /\ ~ Saveable(asnap[c])
  <2>1. /\ apc' \in [Clients -> {"idle", "read", "save"}] /\ atry' \in [Clients -> Nat]
        /\ apc'[c] # "save" /\ \A d \in Clients \ {c} : apc'[d] = apc[d] /\ asnap'[d] = asnap[d]
    <3>1. \/ atry' = [atry EXCEPT ![c] = @ + 1] /\ apc' = [apc EXCEPT ![c] = "read"]
          \/ atry' = atry /\ apc' = [apc EXCEPT ![c] = "idle"]
      BY <1>3 DEF ApiSave, Respond
    <3>2. apc \in [Clients -> {"idle", "read", "save"}] /\ atry \in [Clients -> Nat]
      BY DEF IInv, TypeOK
    <3>3. atry' \in [Clients -> Nat]
      BY <3>1, <3>2
    <3>4. apc' \in [Clients -> {"idle", "read", "save"}] /\ apc'[c] # "save"
          /\ \A d \in Clients \ {c} : apc'[d] = apc[d]
      BY <3>1, <3>2
    <3>5. \A d \in Clients \ {c} : asnap'[d] = asnap[d]
      BY <1>1 DEF IInv, TypeOK
    <3>6. QED
      BY <3>3, <3>4, <3>5
  <2>2. TypeOK'
    BY <1>1, <1>2, <1>3, <2>1 DEF IInv, TypeOK, ApiSave
  <2>3. PageInv'
    BY <1>3 DEF IInv, PageInv, HasPages, ApiSave
  <2>4. SnapshotInv'
    BY <1>3, <2>1 DEF IInv, SnapshotInv, FromRow, WorkerMayWrite, Terminal, CanRequestCancel,
                      CanRetry, NewJob, ApiSave
  <2>5. DeliveryInv'
    BY <1>3 DEF IInv, DeliveryInv, Settled, Concludes, Terminal, ApiSave
  <2>6. QED
    BY <2>2, <2>3, <2>4, <2>5 DEF IInv
<1>4. CASE Saveable(asnap[c])
  <2> DEFINE event == CASE aop[c] = "retry"             -> "job.retrying"
                        [] asnap[c].state = "cancelled" -> "job.cancelled"
                        [] OTHER                        -> "job.cancel_requested"
  <2>1. /\ SaveWithEvent(asnap[c], event)
        /\ outbox' = IF aop[c] = "retry" THEN outbox \cup {asnap[c].attempt} ELSE outbox
        /\ apc' = [apc EXCEPT ![c] = "idle"] /\ atry' = atry /\ aop' = aop
        /\ UNCHANGED <<claimed, inflight, queue, offset, position, owner, pc, msg, rec, snap,
                       todo, pend, built, crashes, rebalances, requests>>
    BY <1>4 DEF ApiSave, Respond
  <2>2. event \in Events
    BY DEF Events, TerminalEvents
  <2> HIDE DEF event
  <2>3. /\ job' = Saved(asnap[c]) /\ job' \in Jobs
        /\ job'.state = asnap[c].state /\ job'.pages = asnap[c].pages
        /\ job'.attempt = asnap[c].attempt /\ job'.revision = asnap[c].revision + 1
    BY <1>1, <2>1, JobType DEF SaveWithEvent, Saved, Jobs
  <2>4. Written
    <3>1. /\ job.pages # NoPages => asnap[c].pages # NoPages
          /\ \/ aop[c] = "cancel" /\ CanRequestCancel(job) /\ asnap[c].attempt = job.attempt
             \/ aop[c] = "retry" /\ asnap[c].attempt = job.attempt + 1
      BY <1>1, <1>4 DEF IInv, SnapshotInv, Saveable
    <3>2. CanRequestCancel(job) => ~ Terminal(job)
      BY DEF CanRequestCancel, Terminal
    <3>3. QED
      BY <1>4, <2>1, <2>3, <3>1, <3>2 DEF Written, Saveable
  <2>5. TypeOK'
    <3>1. terminals' \in Seq([type : TerminalEvents, attempt : Nat])
      BY <1>1, <2>1, <2>2, AppendedType DEF SaveWithEvent, IInv, Jobs
    <3>2. outbox' \in SUBSET Nat
      BY <1>1, <2>1 DEF IInv, TypeOK, Jobs
    <3>3. QED
      BY <1>1, <1>2, <2>1, <2>3, <3>1, <3>2 DEF IInv, TypeOK
  <2>6. ASSUME NEW v \in Workers
        PROVE  /\ HasPages(pc[v], snap[v], todo[v], pend[v])'
               /\ FromRow(pc[v], snap[v])'
               /\ pc'[v] # "idle" =>
                    /\ rec'[v] \in 1..Len(queue') /\ msg'[v] = queue'[rec'[v]]
                    /\ \A i \in 1..(rec'[v] - 1) : Settled(i)'
                    /\ Concludes(pc[v], snap[v], pend[v], msg[v])'
    BY <2>1, <2>4, WrittenOthers
  <2>7. PageInv'
    BY <2>6 DEF PageInv
  <2>8. SnapshotInv'
    <3>1. job'.revision # 0 /\ job'.revision \in Nat
      BY <2>4, WrittenFacts DEF Written, IInv, TypeOK, Jobs
    <3>2. \A d \in Clients : apc'[d] = "save" =>
            asnap'[d].revision < job'.revision /\ asnap'[d].revision \in Nat
      BY <1>1, <2>1, <2>4, WrittenFacts DEF IInv, TypeOK, Jobs
    <3>3. QED
      BY <2>6, <3>1, <3>2 DEF SnapshotInv
  <2>9. DeliveryInv'
    <3>1. \A i \in 1..Len(queue) : Settled(i) => Settled(i)'
      BY <2>4, WrittenFacts
    <3>2. offset \in 0..Len(queue) /\ position \in 0..Len(queue) /\ Len(queue) \in Nat
      BY DEF IInv, TypeOK, DeliveryInv
    <3>3. \A i \in 1..offset : Settled(i)'
      BY <3>1, <3>2 DEF IInv, DeliveryInv
    <3>4. \A i \in 1..position : Settled(i)' \/ (pc'[owner'] # "idle" /\ rec'[owner'] = i)
      BY <2>1, <3>1, <3>2 DEF IInv, DeliveryInv
    <3>5. claimed' => Terminal(job)'
      BY <1>4, <2>1 DEF Saveable
    <3>6. QED
      BY <2>1, <2>4, <2>6, <3>2, <3>3, <3>4, <3>5, WrittenFacts DEF IInv, DeliveryInv
  <2>10. QED
    BY <2>5, <2>7, <2>8, <2>9 DEF IInv
<1>5. QED
  BY <1>3, <1>4 DEF ApiSave

(***************************************************************************)
(* Steps that move the partition or end a worker.                          *)
(***************************************************************************)

\* A worker that ends, for whatever reason, gives its record back unsettled.
LEMMA ExitInv ==
  ASSUME IInv, NEW w \in Workers, pc[w] # "idle", Exit(w),
         UNCHANGED <<rowVars, inflight, queue, offset, apiVars>>,
         crashes' \in Nat, UNCHANGED <<rebalances, requests>>
  PROVE  IInv'
<1> USE DEF rowVars, apiVars
<1>1. /\ pc' = [pc EXCEPT ![w] = "idle"] /\ snap' = [snap EXCEPT ![w] = NewJob]
      /\ todo' = [todo EXCEPT ![w] = {}] /\ pend' = [pend EXCEPT ![w] = NoSave]
      /\ built' = [built EXCEPT ![w] = 0] /\ UNCHANGED <<msg, rec>>
  BY DEF Exit, Goto
<1>2. /\ pc'[w] = "idle" /\ snap'[w] = NewJob
      /\ \A v \in Workers \ {w} : /\ pc'[v] = pc[v] /\ snap'[v] = snap[v]
                                  /\ todo'[v] = todo[v] /\ pend'[v] = pend[v]
  BY <1>1 DEF IInv, TypeOK
<1>3. \/ owner' \in Workers /\ position' = offset
      \/ owner' = owner /\ position' = position /\ owner # w
  BY DEF Exit, Reassign
<1>4. TypeOK'
  <2>1. NewJob \in Jobs /\ NoSave \in [event : Events, next : Labels] /\ "idle" \in Labels
    BY DEF NewJob, Jobs, JobStates, NoSave, Events, Labels
  <2>2. owner' \in Workers /\ position' \in Nat
    BY <1>3 DEF IInv, TypeOK
  <2>3. QED
    BY <1>1, <2>1, <2>2 DEF IInv, TypeOK
<1>5. PageInv'
  <2> SUFFICES ASSUME NEW v \in Workers
               PROVE  HasPages(pc[v], snap[v], todo[v], pend[v])'
    BY DEF PageInv
  <2>1. CASE v = w
    BY <1>2, <2>1 DEF HasPages, PagedLabels, CurrentLabels, Saving
  <2>2. CASE v # w
    BY <1>2, <2>2 DEF IInv, PageInv, HasPages
  <2>3. QED
    BY <2>1, <2>2
<1>6. SnapshotInv'
  <2>1. ASSUME NEW v \in Workers
        PROVE  FromRow(pc[v], snap[v])'
    <3>1. CASE v = w
      <4>1. NewJob.revision = 0 /\ 0 <= job.revision
        BY DEF NewJob, IInv, TypeOK, Jobs
      <4>2. job.revision = 0 => job = NewJob
        BY DEF IInv, SnapshotInv
      <4>3. QED
        BY <1>2, <3>1, <4>1, <4>2 DEF FromRow, Saving
    <3>2. CASE v # w
      BY <1>2, <3>2 DEF IInv, SnapshotInv, FromRow, WorkerMayWrite, Terminal
    <3>3. QED
      BY <3>1, <3>2
  <2>2. QED
    BY <2>1 DEF IInv, SnapshotInv, CanRequestCancel, CanRetry, NewJob
<1>7. DeliveryInv'
  <2>1. ASSUME NEW v \in Workers, pc'[v] # "idle"
        PROVE  /\ rec'[v] \in 1..Len(queue') /\ msg'[v] = queue'[rec'[v]]
               /\ \A i \in 1..(rec'[v] - 1) : Settled(i)'
               /\ Concludes(pc[v], snap[v], pend[v], msg[v])'
    <3>1. v # w
      BY <1>2, <2>1
    <3>2. QED
      BY <1>1, <1>2, <2>1, <3>1 DEF IInv, DeliveryInv, Settled, Concludes, Terminal
  <2>2. \A i \in 1..position' : Settled(i)' \/ (pc'[owner'] # "idle" /\ rec'[owner'] = i)
    BY <1>1, <1>2, <1>3 DEF IInv, TypeOK, DeliveryInv, Settled, Terminal
  <2>3. offset' <= Len(queue') /\ position' <= Len(queue')
    BY <1>3 DEF IInv, DeliveryInv
  <2>4. QED
    BY <2>1, <2>2, <2>3 DEF IInv, DeliveryInv, Settled, Terminal
<1>8. QED
  BY <1>4, <1>5, <1>6, <1>7 DEF IInv

\* Handing a record to the owner keeps the invariant.
LEMMA FetchInv ==
  ASSUME IInv, NEW w \in Workers, Fetch(w)
  PROVE  IInv'
<1> USE DEF rowVars, apiVars, boundVars
<1>1. /\ pc[w] = "idle" /\ owner = w /\ position \in Nat /\ position < Len(queue)
      /\ position + 1 \in 1..Len(queue) /\ queue[position + 1] \in Nat
  BY DEF Fetch, IInv, TypeOK
<1>2. /\ pc' = [pc EXCEPT ![w] = "load"] /\ rec' = [rec EXCEPT ![w] = position + 1]
      /\ msg' = [msg EXCEPT ![w] = queue[position + 1]] /\ position' = position + 1
      /\ UNCHANGED <<job, claimed, terminals, outbox, inflight, queue, offset, owner, snap,
                     todo, pend, built, apc, aop, asnap, atry, crashes, rebalances, requests>>
  BY DEF Fetch, Goto
<1>3. /\ pc'[w] = "load" /\ rec'[w] = position + 1 /\ msg'[w] = queue[position + 1]
      /\ \A v \in Workers \ {w} : pc'[v] = pc[v] /\ rec'[v] = rec[v] /\ msg'[v] = msg[v]
  BY <1>2 DEF IInv, TypeOK
<1>4. TypeOK'
  BY <1>1, <1>2 DEF IInv, TypeOK, Labels
<1>5. PageInv'
  <2> SUFFICES ASSUME NEW v \in Workers
               PROVE  HasPages(pc[v], snap[v], todo[v], pend[v])'
    BY DEF PageInv
  <2>1. CASE v = w
    BY <1>3, <2>1 DEF HasPages, PagedLabels, CurrentLabels, Saving
  <2>2. CASE v # w
    BY <1>2, <1>3, <2>2 DEF IInv, PageInv, HasPages
  <2>3. QED
    BY <2>1, <2>2
<1>6. SnapshotInv'
  <2>1. ASSUME NEW v \in Workers
        PROVE  FromRow(pc[v], snap[v])'
    <3>1. pc'[v] = pc[v] \/ (pc'[v] \notin Saving /\ pc[v] \notin Saving)
      BY <1>1, <1>3 DEF Saving
    <3>2. QED
      BY <1>2, <3>1 DEF IInv, SnapshotInv, FromRow, WorkerMayWrite, Terminal
  <2>2. QED
    BY <1>2, <2>1 DEF IInv, SnapshotInv, CanRequestCancel, CanRetry, NewJob
<1>7. DeliveryInv'
  <2>1. \A i \in 1..position : Settled(i)
    BY <1>1 DEF IInv, DeliveryInv
  <2>2. ASSUME NEW v \in Workers, pc'[v] # "idle"
        PROVE  /\ rec'[v] \in 1..Len(queue') /\ msg'[v] = queue'[rec'[v]]
               /\ \A i \in 1..(rec'[v] - 1) : Settled(i)'
               /\ Concludes(pc[v], snap[v], pend[v], msg[v])'
    <3>1. CASE v = w
      <4>1. rec'[v] - 1 = position
        BY <1>1, <1>3, <3>1
      <4>2. Concludes(pc[v], snap[v], pend[v], msg[v])'
        BY <1>3, <3>1 DEF Concludes, Saving
      <4>3. QED
        BY <1>1, <1>2, <1>3, <2>1, <3>1, <4>1, <4>2 DEF Settled, Terminal
    <3>2. CASE v # w
      BY <1>2, <1>3, <2>2, <3>2 DEF IInv, DeliveryInv, Settled, Concludes, Terminal
    <3>3. QED
      BY <3>1, <3>2
  <2>3. \A i \in 1..position' : Settled(i)' \/ (pc'[owner'] # "idle" /\ rec'[owner'] = i)
    BY <1>1, <1>2, <1>3, <2>1 DEF Settled, Terminal
  <2>4. offset' <= Len(queue') /\ position' <= Len(queue')
    BY <1>1, <1>2 DEF IInv, DeliveryInv
  <2>5. QED
    BY <1>2, <2>2, <2>3, <2>4 DEF IInv, DeliveryInv, Settled, Terminal
<1>8. QED
  BY <1>4, <1>5, <1>6, <1>7 DEF IInv

\* _repair_terminal_event keeps the invariant.
LEMMA RepairInv ==
  ASSUME IInv, NEW w \in Workers, Repair(w)
  PROVE  IInv'
<1> pc[w] # "idle" /\ pc[w] \notin Saving /\ pc[w] = "repair"
  BY DEF Repair, Saving
<1>1. terminals' \in Seq([type : TerminalEvents, attempt : Nat])
  <2> DEFINE event == CASE snap[w].state = "cancelled" -> "job.cancelled"
                        [] snap[w].state = "failed"    -> "job.failed"
                        [] OTHER                       -> "job.succeeded"
  <2>1. event \in Events /\ snap[w].attempt \in Nat
    BY Knows DEF Events, TerminalEvents, Jobs
  <2>2. terminals' = Appended(event, snap[w].attempt)
    BY Zenon DEF Repair
  <2> HIDE DEF event
  <2>3. QED
    BY <2>1, <2>2, AppendedType DEF IInv
<1>2. Local(w, "done", snap[w], todo[w], pend[w], built[w])
  BY <1>1, RestFrame DEF IInv, Local, Repair, Goto, rowVars, partitionVars, apiVars, boundVars
<1>3. msg[w] = job.attempt => Terminal(job)
  BY DEF IInv, DeliveryInv, Concludes
<1>4. LocalOK(w, "done", snap[w], todo[w], pend[w], built[w])
  <2>1. HasPages("done", snap[w], todo[w], pend[w])
    BY DEF HasPages, PagedLabels, CurrentLabels, Saving
  <2>2. FromRow("done", snap[w])
    BY Knows DEF FromRow, Saving
  <2>3. Concludes("done", snap[w], pend[w], msg[w])
    BY <1>3 DEF Concludes, Saving
  <2>4. QED
    BY <2>1, <2>2, <2>3, Knows DEF LocalOK, IInv, TypeOK, Labels
<1>5. QED
  BY <1>2, <1>4, LocalInv

\* The optimistic lock refuses the write.
LEMMA SaveInv ==
  ASSUME IInv, NEW w \in Workers, Save(w)
  PROVE  IInv'
<1> pc[w] # "idle" /\ pc[w] \in Saving
  BY DEF Save, Saving
<1>1. CASE Saveable(snap[w])
  BY <1>1, WorkerWriteInv DEF Save
<1>2. CASE ~ Saveable(snap[w])
  <2>1. Local(w, "conflict", snap[w], todo[w], NoSave, built[w])
    BY <1>2, RestFrame DEF IInv, TypeOK, Local, Save, Goto, rowVars, partitionVars, apiVars,
                           boundVars
  <2>2. FromRow("conflict", snap[w])
    <3>1. FromRow(pc[w], snap[w]) /\ (claimed => Terminal(job))
      BY DEF IInv, SnapshotInv, DeliveryInv
    <3>2. QED
      BY <1>2, <3>1 DEF FromRow, WorkerMayWrite, Saveable, Saving
  <2>3. HasPages("conflict", snap[w], todo[w], NoSave)
    BY DEF HasPages, PagedLabels, CurrentLabels, Saving
  <2>4. Concludes("conflict", snap[w], NoSave, msg[w])
    BY DEF Concludes, Saving
  <2>5. LocalOK(w, "conflict", snap[w], todo[w], NoSave, built[w])
    BY <2>2, <2>3, <2>4, Knows DEF LocalOK, Labels, NoSave, Events
  <2>6. QED
    BY <2>1, <2>5, LocalInv
<1>3. QED
  BY <1>1, <1>2

\* A save inside an exception handler keeps the invariant, committed or refused.
LEMMA HandlerSaveInv ==
  ASSUME IInv, NEW w \in Workers, HandlerSave(w)
  PROVE  IInv'
<1> pc[w] # "idle" /\ pc[w] \in Saving
  BY DEF HandlerSave, Saving
<1>1. CASE Saveable(snap[w])
  BY <1>1, WorkerWriteInv DEF HandlerSave, partitionVars
<1>2. CASE ~ Saveable(snap[w])
  <2>1. crashes' \in Nat /\ UNCHANGED <<rebalances, requests>>
    BY DEF HandlerSave, boundVars, IInv, TypeOK
  <2>2. QED
    BY <1>2, <2>1, ExitInv DEF HandlerSave, rowVars
<1>3. QED
  BY <1>1, <1>2

\* The handler of ConcurrentJobUpdateError keeps the invariant: it raises unless
\* the attempt is settled.
LEMMA ConflictInv ==
  ASSUME IInv, NEW w \in Workers, Conflict(w)
  PROVE  IInv'
<1> pc[w] # "idle" /\ pc[w] \notin Saving
  BY DEF Conflict, Saving
<1>1. UNCHANGED <<position, owner, todo, built>> => Rest(w, todo[w], built[w])
  BY RestFrame DEF IInv, Conflict, Rest, partitionVars
<1>2. CASE CancelRequested(w) /\ SaveCancelled(w, "handlersave")
           /\ UNCHANGED <<position, owner, todo, built>>
  BY <1>1, <1>2, SaveCancelledInv DEF Saving
<1>3. CASE (claimed \/ Terminal(job) \/ job.attempt # msg[w]) /\ Continue(w, snap[w], "done")
           /\ UNCHANGED <<position, owner, todo, built>>
  <2>1. claimed => Terminal(job)
    BY DEF IInv, DeliveryInv
  <2>2. "done" \in Labels \ (Saving \cup {"idle"} \cup PagedLabels \cup CurrentLabels)
    BY DEF Labels, Saving, PagedLabels, CurrentLabels
  <2>3. QED
    BY <1>1, <1>3, <2>1, <2>2, Knows, ContinueInv
<1>4. CASE Exit(w)
  <2>1. crashes' \in Nat /\ UNCHANGED <<rebalances, requests>>
    BY DEF Conflict, boundVars, IInv, TypeOK
  <2>2. QED
    BY <1>4, <2>1, ExitInv DEF Conflict
<1>5. QED
  BY <1>2, <1>3, <1>4 DEF Conflict

\* Committing the offset keeps the invariant: everything up to it is settled.
LEMMA CommitInv ==
  ASSUME IInv, NEW w \in Workers, Commit(w)
  PROVE  IInv'
<1> USE DEF rowVars, apiVars, boundVars
<1>1. CASE owner = w
  <2>1. /\ pc[w] = "done" /\ offset' = rec[w]
        /\ pc' = [pc EXCEPT ![w] = "idle"] /\ snap' = [snap EXCEPT ![w] = NewJob]
        /\ todo' = [todo EXCEPT ![w] = {}] /\ built' = [built EXCEPT ![w] = 0]
        /\ UNCHANGED <<job, claimed, terminals, outbox, inflight, queue, position, owner, pend,
                       msg, rec, apc, aop, asnap, atry, crashes, rebalances, requests>>
    BY <1>1 DEF Commit, Goto
  <2>2. /\ pc'[w] = "idle" /\ snap'[w] = NewJob
        /\ \A v \in Workers \ {w} : /\ pc'[v] = pc[v] /\ snap'[v] = snap[v]
                                    /\ todo'[v] = todo[v] /\ pend'[v] = pend[v]
    BY <2>1 DEF IInv, TypeOK
  <2>3. /\ rec[w] \in 1..Len(queue) /\ msg[w] = queue[rec[w]]
        /\ \A i \in 1..(rec[w] - 1) : Settled(i)
        /\ Settled(rec[w])
    BY <2>1 DEF IInv, DeliveryInv, Concludes, Settled
  <2>4. TypeOK'
    <3>1. NewJob \in Jobs /\ "idle" \in Labels
      BY DEF NewJob, Jobs, JobStates, Labels
    <3>2. QED
      BY <2>1, <3>1 DEF IInv, TypeOK
  <2>5. PageInv'
    <3> SUFFICES ASSUME NEW v \in Workers
                 PROVE  HasPages(pc[v], snap[v], todo[v], pend[v])'
      BY DEF PageInv
    <3>1. CASE v = w
      BY <2>2, <3>1 DEF HasPages, PagedLabels, CurrentLabels, Saving
    <3>2. CASE v # w
      BY <2>1, <2>2, <3>2 DEF IInv, PageInv, HasPages
    <3>3. QED
      BY <3>1, <3>2
  <2>6. SnapshotInv'
    <3>1. ASSUME NEW v \in Workers
          PROVE  FromRow(pc[v], snap[v])'
      <4>1. CASE v = w
        <5>1. NewJob.revision = 0 /\ 0 <= job.revision
          BY DEF NewJob, IInv, TypeOK, Jobs
        <5>2. job.revision = 0 => job = NewJob
          BY DEF IInv, SnapshotInv
        <5>3. QED
          BY <2>1, <2>2, <4>1, <5>1, <5>2 DEF FromRow, Saving
      <4>2. CASE v # w
        BY <2>1, <2>2, <4>2 DEF IInv, SnapshotInv, FromRow, WorkerMayWrite, Terminal
      <4>3. QED
        BY <4>1, <4>2
    <3>2. QED
      BY <2>1, <3>1 DEF IInv, SnapshotInv, CanRequestCancel, CanRetry, NewJob
  <2>7. DeliveryInv'
    <3>1. ASSUME NEW v \in Workers, pc'[v] # "idle"
          PROVE  /\ rec'[v] \in 1..Len(queue') /\ msg'[v] = queue'[rec'[v]]
                 /\ \A i \in 1..(rec'[v] - 1) : Settled(i)'
                 /\ Concludes(pc[v], snap[v], pend[v], msg[v])'
      BY <2>1, <2>2, <3>1 DEF IInv, DeliveryInv, Settled, Concludes, Terminal
    <3>2. \A i \in 1..position : Settled(i)
      BY <1>1, <2>3 DEF IInv, DeliveryInv
    <3>3. \A i \in 1..rec[w] : Settled(i)
      BY <2>3
    <3>4. QED
      BY <2>1, <2>3, <3>1, <3>2, <3>3 DEF IInv, DeliveryInv, Settled, Terminal
  <2>8. QED
    BY <2>4, <2>5, <2>6, <2>7 DEF IInv
<1>2. CASE owner # w
  <2>1. crashes' \in Nat /\ UNCHANGED <<rebalances, requests>> /\ pc[w] # "idle"
    BY DEF Commit, IInv, TypeOK
  <2>2. QED
    BY <1>2, <2>1, ExitInv DEF Commit
<1>3. QED
  BY <1>1, <1>2

\* The death of a worker keeps the invariant.
LEMMA CrashInv ==
  ASSUME IInv, NEW w \in Workers, Crash(w)
  PROVE  IInv'
<1>1. crashes' \in Nat /\ UNCHANGED <<rebalances, requests>>
  BY DEF Crash, IInv, TypeOK
<1>2. QED
  BY <1>1, ExitInv DEF Crash

\* Steps that leave the row and the workers alone keep what relates the two.
LEMMA QuietFacts ==
  ASSUME IInv, UNCHANGED <<job, taskVars>>
  PROVE  /\ PageInv'
         /\ \A w \in Workers : FromRow(pc[w], snap[w])'
         /\ job'.revision = 0 => job' = NewJob
         /\ \A w \in Workers : Concludes(pc[w], snap[w], pend[w], msg[w])
                                 = Concludes(pc[w], snap[w], pend[w], msg[w])'
<1> USE DEF taskVars
<1>1. PageInv'
  BY DEF IInv, PageInv, HasPages
<1>2. (\A w \in Workers : FromRow(pc[w], snap[w])') /\ (job'.revision = 0 => job' = NewJob)
  BY DEF IInv, SnapshotInv, FromRow, WorkerMayWrite, Terminal, NewJob
<1>3. \A w \in Workers : Concludes(pc[w], snap[w], pend[w], msg[w])
                           = Concludes(pc[w], snap[w], pend[w], msg[w])'
  BY DEF Concludes, Terminal
<1>4. QED
  BY <1>1, <1>2, <1>3

\* A rebalance keeps the invariant: the new owner starts at the committed offset.
LEMMA RebalanceInv ==
  ASSUME IInv, Rebalance
  PROVE  IInv'
<1> USE DEF rowVars, taskVars, apiVars
<1>1. TypeOK'
  BY DEF IInv, TypeOK, Rebalance, Reassign
<1>2. PageInv' /\ SnapshotInv'
  <2>1. UNCHANGED <<job, taskVars, apiVars>>
    BY DEF Rebalance
  <2>2. QED
    BY <2>1, QuietFacts DEF IInv, SnapshotInv, CanRequestCancel, CanRetry
<1>3. DeliveryInv'
  BY DEF IInv, TypeOK, DeliveryInv, Settled, Concludes, Terminal, Rebalance, Reassign
<1>4. QED
  BY <1>1, <1>2, <1>3 DEF IInv

(***************************************************************************)
(* The dispatcher, the API's reads and the retention cleaner.              *)
(***************************************************************************)

\* Publishing an outbox event keeps the invariant.
LEMMA PublishInv ==
  ASSUME IInv, Publish
  PROVE  IInv'
<1> USE DEF rowVars, taskVars, apiVars, boundVars
<1> DEFINE m == Min(outbox)
<1>1. m \in outbox /\ m \in Nat /\ m \in 1..job.attempt
  BY MinMember DEF Publish, IInv, TypeOK, DeliveryInv
<1>2. queue' = Append(queue, m) /\ inflight' = {m}
  BY DEF Publish
<1> HIDE DEF m
<1>3. /\ queue \in Seq(Nat) /\ Len(queue) \in Nat /\ queue' \in Seq(Nat)
      /\ Len(queue') = Len(queue) + 1 /\ queue'[Len(queue) + 1] = m
      /\ \A i \in 1..Len(queue) : queue'[i] = queue[i]
  BY <1>1, <1>2 DEF IInv, TypeOK
<1>4. TypeOK'
  BY <1>1, <1>2, <1>3 DEF IInv, TypeOK, Publish
<1>5. PageInv' /\ SnapshotInv'
  <2>1. UNCHANGED <<job, taskVars, apiVars>>
    BY DEF Publish
  <2>2. QED
    BY <2>1, QuietFacts DEF IInv, SnapshotInv, CanRequestCancel, CanRetry
<1>6. DeliveryInv'
  <2>1. /\ offset \in Nat /\ position \in Nat /\ offset <= Len(queue)
        /\ position <= Len(queue)
        /\ UNCHANGED <<job, claimed, outbox, offset, position, owner, taskVars>>
    BY DEF IInv, TypeOK, DeliveryInv, Publish
  <2>2. \A i \in 1..Len(queue') : queue'[i] \in 1..job'.attempt
    <3> SUFFICES ASSUME NEW i \in 1..Len(queue') PROVE queue'[i] \in 1..job'.attempt
      OBVIOUS
    <3>1. CASE i \in 1..Len(queue)
      BY <1>3, <2>1, <3>1 DEF IInv, DeliveryInv
    <3>2. CASE i = Len(queue) + 1
      BY <1>1, <1>3, <2>1, <3>2
    <3>3. QED
      BY <1>3, <3>1, <3>2
  <2>3. \A i \in 1..Len(queue) : Settled(i) => Settled(i)'
    BY <1>3, <2>1 DEF Settled, Terminal
  <2>4. \A a \in inflight' : \E i \in 1..Len(queue') : queue'[i] = a
    BY <1>2, <1>3
  <2>5. ~ Terminal(job)' =>
          job'.attempt \in outbox' \/ \E i \in 1..Len(queue') : queue'[i] = job'.attempt
    BY <1>3, <2>1 DEF IInv, DeliveryInv, Terminal
  <2>6. \A i \in 1..offset' : Settled(i)'
    <3> SUFFICES ASSUME NEW i \in 1..offset' PROVE Settled(i)'
      OBVIOUS
    <3>1. i \in 1..offset /\ i \in 1..Len(queue)
      BY <1>3, <2>1
    <3>2. Settled(i)
      BY <3>1 DEF IInv, DeliveryInv
    <3>3. QED
      BY <2>3, <3>1, <3>2
  <2>7. \A i \in 1..position' : Settled(i)' \/ (pc'[owner'] # "idle" /\ rec'[owner'] = i)
    <3> SUFFICES ASSUME NEW i \in 1..position'
                 PROVE  Settled(i)' \/ (pc'[owner'] # "idle" /\ rec'[owner'] = i)
      OBVIOUS
    <3>1. i \in 1..position /\ i \in 1..Len(queue)
      BY <1>3, <2>1
    <3>2. Settled(i) \/ (pc[owner] # "idle" /\ rec[owner] = i)
      BY <3>1 DEF IInv, DeliveryInv
    <3>3. UNCHANGED <<pc, owner, rec>>
      BY DEF Publish, taskVars
    <3>4. QED
      BY <2>3, <3>1, <3>2, <3>3
  <2>8. ASSUME NEW w \in Workers, pc'[w] # "idle"
        PROVE  /\ rec'[w] \in 1..Len(queue') /\ msg'[w] = queue'[rec'[w]]
               /\ \A i \in 1..(rec'[w] - 1) : Settled(i)'
               /\ Concludes(pc[w], snap[w], pend[w], msg[w])'
    <3>1. /\ rec[w] \in 1..Len(queue) /\ msg[w] = queue[rec[w]]
          /\ \A i \in 1..(rec[w] - 1) : Settled(i)
          /\ Concludes(pc[w], snap[w], pend[w], msg[w])
      BY <2>1, <2>8 DEF IInv, DeliveryInv
    <3>2. Concludes(pc[w], snap[w], pend[w], msg[w])'
      BY <2>1, <3>1, QuietFacts
    <3>3. \A i \in 1..(rec[w] - 1) : Settled(i)'
      <4> SUFFICES ASSUME NEW i \in 1..(rec[w] - 1) PROVE Settled(i)'
        OBVIOUS
      <4>1. i \in 1..Len(queue)
        BY <1>3, <3>1
      <4>2. QED
        BY <2>3, <3>1, <4>1
    <3>4. rec' = rec /\ msg' = msg /\ rec[w] \in 1..Len(queue')
      BY <1>3, <2>1, <3>1
    <3>5. QED
      BY <1>3, <3>1, <3>2, <3>3, <3>4
  <2>9. offset' <= Len(queue') /\ position' <= Len(queue')
    BY <1>3, <2>1
  <2>10. (claimed' => Terminal(job)') /\ outbox' \subseteq 1..job'.attempt
    BY <2>1 DEF IInv, DeliveryInv, Terminal
  <2>11. QED
    BY <2>2, <2>4, <2>5, <2>6, <2>7, <2>8, <2>9, <2>10 DEF DeliveryInv
<1>7. QED
  BY <1>4, <1>5, <1>6 DEF IInv

\* Marking an event published keeps the invariant: its record is in the queue.
LEMMA MarkPublishedInv ==
  ASSUME IInv, MarkPublished
  PROVE  IInv'
<1> USE DEF taskVars, apiVars, boundVars
<1>1. TypeOK'
  BY DEF IInv, TypeOK, MarkPublished
<1>2. PageInv' /\ SnapshotInv'
  <2>1. UNCHANGED <<job, taskVars, apiVars>>
    BY DEF MarkPublished
  <2>2. QED
    BY <2>1, QuietFacts DEF IInv, SnapshotInv, CanRequestCancel, CanRetry
<1>3. DeliveryInv'
  BY DEF IInv, DeliveryInv, Settled, Concludes, Terminal, MarkPublished
<1>4. QED
  BY <1>1, <1>2, <1>3 DEF IInv

\* A dispatcher that dies before marking keeps the invariant.
LEMMA DispatcherFailsInv ==
  ASSUME IInv, DispatcherFails
  PROVE  IInv'
<1> USE DEF rowVars, taskVars, apiVars
<1>1. TypeOK'
  BY DEF IInv, TypeOK, DispatcherFails
<1>2. PageInv' /\ SnapshotInv'
  <2>1. UNCHANGED <<job, taskVars, apiVars>>
    BY DEF DispatcherFails
  <2>2. QED
    BY <2>1, QuietFacts DEF IInv, SnapshotInv, CanRequestCancel, CanRetry
<1>3. DeliveryInv'
  BY DEF IInv, DeliveryInv, Settled, Concludes, Terminal, DispatcherFails
<1>4. QED
  BY <1>1, <1>2, <1>3 DEF IInv

\* Steps of the API that only read keep what does not mention the API.
LEMMA ReadFacts ==
  ASSUME IInv, UNCHANGED <<rowVars, partitionVars, taskVars>>
  PROVE  PageInv' /\ DeliveryInv'
<1> USE DEF rowVars, partitionVars, taskVars
<1>1. PageInv'
  BY QuietFacts
<1>2. DeliveryInv'
  BY DEF IInv, DeliveryInv, Settled, Concludes, Terminal
<1>3. QED
  BY <1>1, <1>2

\* Accepting a request keeps the invariant.
LEMMA RequestInv ==
  ASSUME IInv, NEW c \in Clients, NEW op \in {"cancel", "retry"}, Request(c, op)
  PROVE  IInv'
<1> USE DEF rowVars, partitionVars, taskVars
<1>1. TypeOK'
  BY DEF IInv, TypeOK, Request
<1>2. /\ apc'[c] = "read" /\ asnap' = asnap /\ UNCHANGED <<job, taskVars>>
      /\ \A d \in Clients \ {c} : apc'[d] = apc[d] /\ aop'[d] = aop[d]
  BY DEF IInv, TypeOK, Request
<1>3. SnapshotInv'
  BY <1>2, QuietFacts DEF IInv, SnapshotInv, CanRequestCancel, CanRetry
<1>4. QED
  BY <1>1, <1>3, ReadFacts DEF IInv, Request

\* cancel_job's read keeps the invariant.
LEMMA CancelReadInv ==
  ASSUME IInv, NEW c \in Clients, CancelRead(c)
  PROVE  IInv'
<1> USE DEF rowVars, partitionVars, taskVars, boundVars
<1>1. PICK j \in Jobs, l \in {"idle", "save"} :
        /\ apc' = [apc EXCEPT ![c] = l] /\ asnap' = [asnap EXCEPT ![c] = j]
        /\ l = "save" =>
             /\ CanRequestCancel(job) /\ j.revision = job.revision
             /\ j.attempt = job.attempt /\ j.pages = job.pages
             /\ j.state \in {"cancel_requested", "cancelled"}
  <2> job \in Jobs /\ asnap[c] \in Jobs /\ asnap = [asnap EXCEPT ![c] = asnap[c]]
    BY DEF IInv, TypeOK
  <2> DEFINE k == IF job.state \in {"queued", "retrying"} THEN Cancel(RequestCancel(job))
                  ELSE RequestCancel(job)
  <2>1. k \in Jobs /\ k.revision = job.revision /\ k.attempt = job.attempt
        /\ k.pages = job.pages /\ k.state \in {"cancel_requested", "cancelled"}
    <3>1. RequestCancel(job) \in Jobs /\ RequestCancel(job).revision = job.revision
          /\ RequestCancel(job).attempt = job.attempt
          /\ RequestCancel(job).pages = job.pages
          /\ RequestCancel(job).state = "cancel_requested"
      BY JobType DEF RequestCancel, Jobs
    <3>2. \A b \in Jobs : Cancel(b) \in Jobs /\ Cancel(b).revision = b.revision
            /\ Cancel(b).attempt = b.attempt /\ Cancel(b).pages = b.pages
            /\ Cancel(b).state = "cancelled"
      BY JobType DEF Cancel, Jobs
    <3>3. QED
      BY <3>1, <3>2
  <2>2. \/ /\ CanRequestCancel(job) /\ asnap' = [asnap EXCEPT ![c] = k]
           /\ apc' = [apc EXCEPT ![c] = "save"]
        \/ apc' = [apc EXCEPT ![c] = "idle"] /\ asnap' = asnap
    BY Zenon DEF CancelRead, Respond
  <2> HIDE DEF k
  <2>3. QED
    BY <2>1, <2>2
<1>2. aop[c] = "cancel" /\ UNCHANGED <<job, taskVars, aop>>
  BY DEF CancelRead
<1>3. TypeOK'
  BY <1>1 DEF IInv, TypeOK, CancelRead
<1>4. SnapshotInv'
  <2>1. /\ apc'[c] = l /\ asnap'[c] = j
        /\ \A d \in Clients \ {c} : apc'[d] = apc[d] /\ asnap'[d] = asnap[d]
    BY <1>1 DEF IInv, TypeOK
  <2>2. job.revision \in Nat
    BY DEF IInv, TypeOK, Jobs
  <2>3. ASSUME NEW d \in Clients, apc'[d] = "save"
        PROVE  /\ asnap'[d].revision <= job'.revision
               /\ asnap'[d].revision = job'.revision =>
                    /\ job'.pages # NoPages => asnap'[d].pages # NoPages
                    /\ \/ /\ aop'[d] = "cancel" /\ CanRequestCancel(job)'
                          /\ asnap'[d].attempt = job'.attempt
                          /\ asnap'[d].state \in {"cancel_requested", "cancelled"}
                       \/ /\ aop'[d] = "retry" /\ CanRetry(job)'
                          /\ asnap'[d].attempt = job'.attempt + 1
                          /\ asnap'[d].state = "retrying"
    <3>1. CASE d = c
      BY <1>1, <1>2, <2>1, <2>2, <2>3, <3>1 DEF CanRequestCancel
    <3>2. CASE d # c
      BY <1>2, <2>1, <2>3, <3>2 DEF IInv, SnapshotInv, CanRequestCancel, CanRetry
    <3>3. QED
      BY <3>1, <3>2
  <2>4. QED
    BY <1>2, <2>3, QuietFacts DEF SnapshotInv
<1>5. QED
  BY <1>3, <1>4, ReadFacts DEF IInv, CancelRead

\* retry_job's read keeps the invariant.
LEMMA RetryReadInv ==
  ASSUME IInv, NEW c \in Clients, RetryRead(c)
  PROVE  IInv'
<1> USE DEF rowVars, partitionVars, taskVars, boundVars
<1>1. PICK j \in Jobs, l \in {"idle", "save"} :
        /\ apc' = [apc EXCEPT ![c] = l] /\ asnap' = [asnap EXCEPT ![c] = j]
        /\ l = "save" =>
             /\ CanRetry(job) /\ j.revision = job.revision
             /\ j.attempt = job.attempt + 1 /\ (job.pages # NoPages => j.pages # NoPages)
             /\ j.state = "retrying"
  <2> job \in Jobs /\ asnap[c] \in Jobs /\ asnap = [asnap EXCEPT ![c] = asnap[c]]
    BY DEF IInv, TypeOK
  <2>1. Retry(job) \in Jobs /\ Retry(job).revision = job.revision
        /\ Retry(job).attempt = job.attempt + 1 /\ Retry(job).state = "retrying"
    BY JobType DEF Retry
  <2>2. job.pages # NoPages => Retry(job).pages # NoPages
    <3>1. job.pages # NoPages =>
            Retry(job).pages = [n \in PageNumbers |-> PagePrepareRetry(job.pages[n])]
      BY DEF Retry
    <3>2. 1 \in PageNumbers
      BY DomainAssumption DEF PageNumbers
    <3>3. QED
      BY <3>1, <3>2 DEF NoPages
  <2>3. \/ /\ CanRetry(job) /\ asnap' = [asnap EXCEPT ![c] = Retry(job)]
           /\ apc' = [apc EXCEPT ![c] = "save"]
        \/ apc' = [apc EXCEPT ![c] = "idle"] /\ asnap' = asnap
    BY Zenon DEF RetryRead, Respond
  <2>4. QED
    BY <2>1, <2>2, <2>3
<1>2. aop[c] = "retry" /\ UNCHANGED <<job, taskVars, aop>>
  BY DEF RetryRead
<1>3. TypeOK'
  BY <1>1 DEF IInv, TypeOK, RetryRead
<1>4. SnapshotInv'
  <2>1. /\ apc'[c] = l /\ asnap'[c] = j
        /\ \A d \in Clients \ {c} : apc'[d] = apc[d] /\ asnap'[d] = asnap[d]
    BY <1>1 DEF IInv, TypeOK
  <2>2. job.revision \in Nat
    BY DEF IInv, TypeOK, Jobs
  <2>3. ASSUME NEW d \in Clients, apc'[d] = "save"
        PROVE  /\ asnap'[d].revision <= job'.revision
               /\ asnap'[d].revision = job'.revision =>
                    /\ job'.pages # NoPages => asnap'[d].pages # NoPages
                    /\ \/ /\ aop'[d] = "cancel" /\ CanRequestCancel(job)'
                          /\ asnap'[d].attempt = job'.attempt
                          /\ asnap'[d].state \in {"cancel_requested", "cancelled"}
                       \/ /\ aop'[d] = "retry" /\ CanRetry(job)'
                          /\ asnap'[d].attempt = job'.attempt + 1
                          /\ asnap'[d].state = "retrying"
    <3>1. CASE d = c
      BY <1>1, <1>2, <2>1, <2>2, <2>3, <3>1 DEF CanRetry
    <3>2. CASE d # c
      BY <1>2, <2>1, <2>3, <3>2 DEF IInv, SnapshotInv, CanRequestCancel, CanRetry
    <3>3. QED
      BY <3>1, <3>2
  <2>4. QED
    BY <1>2, <2>3, QuietFacts DEF SnapshotInv
<1>5. QED
  BY <1>3, <1>4, ReadFacts DEF IInv, RetryRead

\* Claiming an expired row keeps the invariant.
LEMMA RetentionClaimInv ==
  ASSUME IInv, RetentionClaim
  PROVE  IInv'
<1> USE DEF partitionVars, taskVars, apiVars, boundVars
<1>1. TypeOK'
  BY DEF IInv, TypeOK, RetentionClaim
<1>2. UNCHANGED <<job, taskVars, apiVars>>
  BY DEF RetentionClaim
<1>3. SnapshotInv' /\ PageInv'
  BY <1>2, QuietFacts DEF IInv, SnapshotInv, CanRequestCancel, CanRetry
<1>4. DeliveryInv'
  BY DEF IInv, DeliveryInv, Settled, Concludes, Terminal, RetentionClaim
<1>5. QED
  BY <1>1, <1>3, <1>4 DEF IInv

(***************************************************************************)
(* The theorems                                                            *)
(***************************************************************************)

\* A job that was just created satisfies the invariant.
LEMMA InitInv == Init => IInv
<1> SUFFICES ASSUME Init PROVE IInv
  OBVIOUS
<1>1. NewJob \in Jobs /\ NoSave \in [event : Events, next : Labels]
  BY DEF NewJob, Jobs, JobStates, NoSave, Events, Labels
<1>2. NewJob.revision = 0 /\ NewJob.attempt = 1 /\ NewJob.pages = NoPages
  BY DEF NewJob
<1>3. TypeOK
  <2>1. /\ job \in Jobs /\ outbox \in SUBSET Nat
        /\ inflight \in SUBSET Nat /\ offset \in Nat /\ position \in Nat /\ owner \in Workers
        /\ crashes \in Nat /\ rebalances \in Nat /\ requests \in Nat
    BY <1>1 DEF Init
  <2>2. terminals \in Seq([type : TerminalEvents, attempt : Nat]) /\ queue \in Seq(Nat)
    BY DEF Init
  <2>3. /\ pc \in [Workers -> Labels] /\ msg \in [Workers -> Nat] /\ rec \in [Workers -> Nat]
        /\ snap \in [Workers -> Jobs] /\ todo \in [Workers -> SUBSET PageNumbers]
        /\ pend \in [Workers -> [event : Events, next : Labels]]
        /\ built \in [Workers -> Nat]
    BY <1>1 DEF Init, Labels
  <2>4. /\ apc \in [Clients -> {"idle", "read", "save"}]
        /\ aop \in [Clients -> {"cancel", "retry"}]
        /\ asnap \in [Clients -> Jobs] /\ atry \in [Clients -> Nat]
    BY <1>1 DEF Init
  <2>5. claimed \in BOOLEAN
    BY Zenon DEF Init
  <2>6. QED
    BY <2>1, <2>2, <2>3, <2>4, <2>5 DEF TypeOK
<1>4. PageInv
  BY DEF Init, PageInv, HasPages, PagedLabels, CurrentLabels, Saving
<1>5. SnapshotInv
  BY <1>2 DEF Init, SnapshotInv, FromRow, Saving
<1>6. DeliveryInv
  BY <1>2 DEF Init, DeliveryInv, Terminal, NewJob
<1>7. QED
  BY <1>3, <1>4, <1>5, <1>6 DEF IInv

\* Every step keeps the invariant: one case per action of Next.
LEMMA NextInv == IInv /\ [Next]_vars => IInv'
<1> SUFFICES ASSUME IInv, [Next]_vars PROVE IInv'
  OBVIOUS
<1>1. ASSUME NEW w \in Workers, WorkerStep(w) PROVE IInv'
  BY <1>1, FetchInv, LoadInv, RepairInv, PrepareInv, CheckInv, LoopInv, TryInv,
     EngineReturnsInv, EngineRaisesInv, FailPageInv, FailJobInv, AssembleInv, RecheckInv,
     FinishInv, SaveInv, ConflictInv, ExceptInv, HandlerSaveInv, CommitInv DEF WorkerStep
<1>2. ASSUME NEW w \in Workers, Crash(w) PROVE IInv'
  BY <1>2, CrashInv
<1>3. ASSUME NEW c \in Clients, NEW op \in {"cancel", "retry"}, Request(c, op) PROVE IInv'
  BY <1>3, RequestInv
<1>4. ASSUME NEW c \in Clients, CancelRead(c) \/ RetryRead(c) \/ ApiSave(c) PROVE IInv'
  BY <1>4, CancelReadInv, RetryReadInv, ApiSaveInv
<1>5. CASE Rebalance \/ Dispatch \/ DispatcherFails \/ RetentionClaim
  BY <1>5, RebalanceInv, PublishInv, MarkPublishedInv, DispatcherFailsInv,
     RetentionClaimInv DEF Dispatch
<1>6. CASE UNCHANGED vars
  <2>1. UNCHANGED <<job, claimed, terminals, outbox, inflight, queue, offset, position,
                    owner, pc, msg, rec, snap, todo, pend, built, apc, aop, asnap, atry,
                    crashes, rebalances, requests>>
    BY <1>6 DEF vars, rowVars, partitionVars, taskVars, apiVars, boundVars
  <2>2. TypeOK'
    BY <2>1 DEF IInv, TypeOK
  <2>3. SnapshotInv'
    BY <2>1, QuietFacts DEF IInv, SnapshotInv, CanRequestCancel, CanRetry, taskVars
  <2>4. PageInv' /\ DeliveryInv'
    BY <2>1, ReadFacts DEF rowVars, partitionVars, taskVars
  <2>5. QED
    BY <2>2, <2>3, <2>4 DEF IInv
<1>7. QED
  BY <1>1, <1>2, <1>3, <1>4, <1>5, <1>6 DEF Next

\* The invariant is inductive, for any number of workers, clients, pages and retries,
\* and whatever crashes, rebalances and requests there are.
THEOREM Inductive == Spec => []IInv
BY InitInv, NextInv, PTL DEF Spec

\* Every variable keeps its type.
THEOREM TypeCorrect == Spec => []TypeOK
<1>1. IInv => TypeOK
  BY DEF IInv
<1>2. QED
  BY <1>1, Inductive, PTL

\* No accepted job is ever lost: its outbox event is pending or its record uncommitted
\* until the attempt ends (run_worker commits after process(), which returns only for
\* work that is settled).
THEOREM NoJobLost == Spec => []NoLostJob
<1>1. IInv => NoLostJob
  <2> SUFFICES ASSUME IInv, ~ Terminal(job), job.attempt \notin outbox
               PROVE  \E i \in (offset + 1)..Len(queue) : queue[i] = job.attempt
    BY DEF NoLostJob
  <2>1. PICK i \in 1..Len(queue) : queue[i] = job.attempt
    BY DEF IInv, DeliveryInv
  <2>2. ~ (i \in 1..offset)
    BY <2>1 DEF IInv, DeliveryInv, Settled
  <2>3. offset \in Nat /\ Len(queue) \in Nat
    BY DEF IInv, TypeOK
  <2>4. i \in (offset + 1)..Len(queue)
    BY <2>2, <2>3
  <2>5. QED
    BY <2>1, <2>4
<1>2. QED
  BY <1>1, Inductive, PTL

\* How the row can change in one step: a worker or a handler writes back a snapshot
\* that the optimistic lock found current.
LEMMA RowSteps ==
  ASSUME IInv, [Next]_vars
  PROVE  \/ job' = job
         \/ \E w \in Workers :
              /\ pc[w] \in Saving /\ Saveable(snap[w]) /\ job' = Saved(snap[w])
         \/ \E c \in Clients :
              /\ apc[c] = "save" /\ Saveable(asnap[c]) /\ job' = Saved(asnap[c])
<1>1. ASSUME NEW w \in Workers, WorkerStep(w)
      PROVE  job' = job \/ (pc[w] \in Saving /\ Saveable(snap[w]) /\ job' = Saved(snap[w]))
  <2>1. CASE Save(w) \/ HandlerSave(w)
    BY <2>1 DEF Save, HandlerSave, SaveWithEvent, Saving
  <2>2. CASE Fetch(w) \/ Load(w) \/ Prepare(w) \/ Check(w) \/ Loop(w) \/ Try(w)
             \/ EngineReturns(w) \/ EngineRaises(w)
    BY <2>2 DEF Fetch, Load, Prepare, Check, Loop, Try, EngineReturns, EngineRaises, rowVars
  <2>3. CASE Repair(w) \/ FailPage(w) \/ FailJob(w) \/ Assemble(w) \/ Recheck(w)
             \/ Finish(w) \/ Conflict(w) \/ Except(w) \/ Commit(w)
    BY <2>3 DEF Repair, FailPage, FailJob, Assemble, Recheck, Finish, Conflict, Except,
                Commit, rowVars
  <2>4. QED
    BY <1>1, <2>1, <2>2, <2>3 DEF WorkerStep
<1>2. ASSUME NEW w \in Workers, Crash(w) PROVE job' = job
  BY <1>2 DEF Crash, rowVars
<1>3. ASSUME NEW c \in Clients, NEW op \in {"cancel", "retry"}, Request(c, op)
      PROVE  job' = job
  BY <1>3 DEF Request, rowVars
<1>4. ASSUME NEW c \in Clients, CancelRead(c) \/ RetryRead(c) \/ ApiSave(c)
      PROVE  job' = job \/ (apc[c] = "save" /\ Saveable(asnap[c]) /\ job' = Saved(asnap[c]))
  BY <1>4 DEF CancelRead, RetryRead, ApiSave, SaveWithEvent, rowVars
<1>5. CASE Rebalance \/ Dispatch \/ DispatcherFails \/ RetentionClaim \/ UNCHANGED vars
  BY <1>5 DEF Rebalance, Dispatch, Publish, MarkPublished, DispatcherFails, RetentionClaim,
              vars, rowVars
<1>6. QED
  BY <1>1, <1>2, <1>3, <1>4, <1>5 DEF Next

\* A concurrent cancellation is never overwritten: once requested it is only ever
\* carried out, and once carried out only retry_job reopens the job.
THEOREM CancellationSafe == Spec => CancellationHonoured
<1>1. IInv /\ [Next]_vars => [CancelRespected]_job
  <2> SUFFICES ASSUME IInv, [Next]_vars, job' # job PROVE CancelRespected
    OBVIOUS
  <2>1. ASSUME NEW w \in Workers, pc[w] \in Saving, Saveable(snap[w]),
               job' = Saved(snap[w])
        PROVE  CancelRespected
    <3>1. job'.state = snap[w].state
      BY <2>1 DEF IInv, TypeOK, Jobs, Saved
    <3>2. WorkerMayWrite(snap[w])
      BY <2>1 DEF IInv, SnapshotInv, FromRow, Saveable
    <3>3. QED
      BY <3>1, <3>2 DEF CancelRespected, WorkerMayWrite, Terminal
  <2>2. ASSUME NEW c \in Clients, apc[c] = "save", Saveable(asnap[c]),
               job' = Saved(asnap[c])
        PROVE  CancelRespected
    <3>1. job'.state = asnap[c].state
      BY <2>2 DEF IInv, TypeOK, Jobs, Saved
    <3>2. \/ CanRequestCancel(job)
          \/ CanRetry(job) /\ asnap[c].state = "retrying"
      BY <2>2 DEF IInv, SnapshotInv, Saveable
    <3>3. QED
      BY <3>1, <3>2 DEF CancelRespected, CanRequestCancel, CanRetry
  <2>3. QED
    BY <2>1, <2>2, RowSteps
<1>2. QED
  BY <1>1, Inductive, PTL DEF Spec, CancellationHonoured

(***************************************************************************)
(* One terminal event per attempt: EventInv, on top of IInv.               *)
(***************************************************************************)

\* The terminal events of job_events are rows of their type.
LEMMA EventRows ==
  ASSUME IInv
  PROVE  \A i \in DOMAIN terminals : terminals[i] \in [type : TerminalEvents, attempt : Nat]
<1> DEFINE Rows == [type : TerminalEvents, attempt : Nat]
<1>1. terminals \in Seq(Rows)
  BY DEF IInv, TypeOK
<1> HIDE DEF Rows
<1>2. \A i \in DOMAIN terminals : terminals[i] \in Rows
  BY <1>1
<1>3. QED
  BY <1>2 DEF Rows

\* A worker that only moves on, announcing nothing wrong, keeps the events right.
LEMMA QuietEvents ==
  ASSUME IInv, EventInv, NEW w \in Workers, NEW l, NEW j, NEW p,
         pc' = [pc EXCEPT ![w] = l], snap' = [snap EXCEPT ![w] = j],
         pend' = [pend EXCEPT ![w] = p], UNCHANGED <<job, terminals>>,
         Announces(l, j, p)
  PROVE  EventInv'
<1>1. /\ pc'[w] = l /\ snap'[w] = j /\ pend'[w] = p
      /\ \A v \in Workers \ {w} : pc'[v] = pc[v] /\ snap'[v] = snap[v] /\ pend'[v] = pend[v]
  BY DEF IInv, TypeOK
<1>2. TerminalEventPerAttempt' /\ job'.attempt >= 1
  BY DEF EventInv, TerminalEventPerAttempt, Terminal
<1>3. ASSUME NEW v \in Workers PROVE Announces(pc[v], snap[v], pend[v])'
  <2>1. CASE v = w
    BY <1>1, <2>1 DEF Announces, Terminal, EventOf
  <2>2. CASE v # w
    BY <1>1, <2>2 DEF EventInv, Announces, Terminal, EventOf
  <2>3. QED
    BY <2>1, <2>2
<1>4. QED
  BY <1>2, <1>3 DEF EventInv

\* So does a step that touches neither the workers nor the row nor its events.
LEMMA IdleEvents ==
  ASSUME EventInv, UNCHANGED <<job, terminals, pc, snap, pend>>
  PROVE  EventInv'
BY DEF EventInv, TerminalEventPerAttempt, Announces, Terminal, EventOf

\* A worker that goes on without saving.
LEMMA ContinueEvents ==
  ASSUME IInv, EventInv, NEW w \in Workers, NEW j, NEW l, Continue(w, j, l),
         l \notin Saving \cup {"repair"}, UNCHANGED <<job, terminals>>
  PROVE  EventInv'
<1>1. pend' = [pend EXCEPT ![w] = pend[w]]
  BY DEF Continue, IInv, TypeOK
<1>2. Announces(l, j, pend[w])
  BY DEF Announces
<1>3. QED
  BY <1>1, <1>2, QuietEvents DEF Continue, Goto

\* A worker that starts a save whose event is not a terminal one: the snapshot is
\* terminal only if the one it was computed from was.
LEMMA ProgressEvents ==
  ASSUME IInv, EventInv, NEW w \in Workers, NEW l \in Saving,
         NEW b \in Jobs, FromRow("load", b), NEW j, j.revision = b.revision,
         Terminal(j) => Terminal(b),
         NEW event, event \notin TerminalEvents, NEW next,
         SaveAt(w, l, j, event, next), UNCHANGED <<job, terminals>>
  PROVE  EventInv'
<1> DEFINE p == [event |-> event, next |-> next]
<1>1. p.event = event
  OBVIOUS
<1>2. pc' = [pc EXCEPT ![w] = l] /\ snap' = [snap EXCEPT ![w] = j]
      /\ pend' = [pend EXCEPT ![w] = p]
  BY DEF SaveAt, Goto
<1> HIDE DEF p
<1>3. Announces(l, j, p)
  BY <1>1 DEF Announces, FromRow, Saving, Terminal
<1>4. QED
  BY <1>2, <1>3, QuietEvents

\* A worker that starts a save which ends the attempt.
LEMMA EndingEvents ==
  ASSUME IInv, EventInv, NEW w \in Workers, NEW l \in Saving,
         NEW j, Terminal(j), NEW event, event \in TerminalEvents, event = EventOf(j),
         NEW next, SaveAt(w, l, j, event, next), UNCHANGED <<job, terminals>>
  PROVE  EventInv'
<1> DEFINE p == [event |-> event, next |-> next]
<1>1. p.event = event
  OBVIOUS
<1>2. pc' = [pc EXCEPT ![w] = l] /\ snap' = [snap EXCEPT ![w] = j]
      /\ pend' = [pend EXCEPT ![w] = p]
  BY DEF SaveAt, Goto
<1> HIDE DEF p
<1>3. Announces(l, j, p)
  BY <1>1 DEF Announces, Saving
<1>4. QED
  BY <1>2, <1>3, QuietEvents

\* cancel, fail and succeed end the attempt with the event the worker names.
LEMMA EndingMethods ==
  ASSUME NEW b \in Jobs
  PROVE  /\ Terminal(Cancel(b)) /\ EventOf(Cancel(b)) = "job.cancelled"
         /\ Terminal(Fail(b)) /\ EventOf(Fail(b)) = "job.failed"
         /\ \A a \in Nat : Terminal(Succeed(b, a)) /\ EventOf(Succeed(b, a)) = "job.succeeded"
<1>1. Cancel(b).state = "cancelled" /\ Fail(b).state = "failed"
  BY DEF Cancel, Fail, Jobs
<1>2. \A a \in Nat : Succeed(b, a).state = "succeeded"
  BY DEF Succeed, Jobs
<1>3. QED
  BY <1>1, <1>2 DEF Terminal, EventOf

\* The worker's answer to a requested cancellation.
LEMMA CancelledEvents ==
  ASSUME IInv, EventInv, NEW w \in Workers, NEW l \in Saving, SaveCancelled(w, l),
         UNCHANGED <<job, terminals>>
  PROVE  EventInv'
<1>1. job \in Jobs
  BY Knows
<1>2. SaveAt(w, l, Cancel(job), "job.cancelled", "done")
  BY DEF SaveCancelled
<1>3. QED
  BY <1>1, <1>2, EndingMethods, EndingEvents DEF TerminalEvents

\* OCRWorker._fail.
LEMMA FailedEvents ==
  ASSUME IInv, EventInv, NEW w \in Workers, NEW l \in Saving, NEW b \in Jobs,
         SaveFailed(w, l, b), UNCHANGED <<job, terminals>>
  PROVE  EventInv'
<1>1. \/ SaveAt(w, l, Cancel(b), "job.cancelled", "done")
      \/ SaveAt(w, l, Fail(b), "job.failed", "done")
  BY DEF SaveFailed
<1>2. QED
  BY <1>1, EndingMethods, EndingEvents DEF TerminalEvents

\* The steps of a worker that move it on or start a save.
LEMMA StepEvents ==
  ASSUME IInv, EventInv, NEW w \in Workers,
         \/ Load(w) \/ Prepare(w) \/ Check(w) \/ Loop(w) \/ Try(w) \/ EngineReturns(w)
         \/ EngineRaises(w) \/ FailPage(w) \/ FailJob(w) \/ Assemble(w) \/ Recheck(w)
         \/ Finish(w) \/ Except(w)
  PROVE  EventInv'
<1>0. pc[w] \notin Saving /\ UNCHANGED <<job, terminals>>
  BY DEF Load, Prepare, Check, Loop, Try, EngineReturns, EngineRaises, FailPage, FailJob,
         Assemble, Recheck, Finish, Except, Saving, rowVars
<1>1. /\ job \in Jobs /\ snap[w] \in Jobs /\ Latest(w) \in Jobs /\ built[w] \in Nat
      /\ FromRow("load", job) /\ FromRow("load", snap[w]) /\ FromRow("load", Latest(w))
  BY <1>0, Knows
<1>2. /\ Saving = {"save", "handlersave"}
      /\ {"job.preprocessing", "job.pages_prepared", "job.running", "job.assembling",
          "page.running", "page.succeeded", "page.retry_scheduled", "page.failed"}
           \cap TerminalEvents = {}
  BY DEF Saving, TerminalEvents
<1>3. CASE Load(w)
  <2>1. CASE Continue(w, snap[w], "done") \/ Continue(w, job, "prepare")
    BY <1>0, <1>2, <2>1, ContinueEvents
  <2>2. CASE Terminal(job) /\ Continue(w, job, "repair")
    <3>1. pend' = [pend EXCEPT ![w] = pend[w]]
      BY <2>2 DEF Continue, IInv, TypeOK
    <3>2. job.attempt \in DOMAIN terminals
      BY <1>1, <2>2 DEF EventInv, TerminalEventPerAttempt, IInv, TypeOK, Jobs
    <3>3. terminals[job.attempt] \in [type : TerminalEvents, attempt : Nat]
      BY <3>2, EventRows
    <3>4. terminals[job.attempt].attempt = job.attempt
          /\ terminals[job.attempt].type = EventOf(job)
      BY <2>2, <3>2 DEF EventInv, TerminalEventPerAttempt, EventOf
    <3>5. terminals[job.attempt] = [type |-> EventOf(job), attempt |-> job.attempt]
      BY <3>3, <3>4
    <3>6. Announces("repair", job, pend[w])
      BY <3>2, <3>5 DEF Announces, Saving
    <3>7. QED
      BY <1>0, <2>2, <3>1, <3>6, QuietEvents DEF Continue, Goto
  <2>3. CASE SaveFailed(w, "save", job)
    BY <1>0, <1>1, <1>2, <2>3, FailedEvents
  <2>4. CASE /\ CanBeginPreprocessing(job)
             /\ SaveThen(w, BeginPreprocessing(job), "job.preprocessing", "prepare")
    <3>1. BeginPreprocessing(job).revision = job.revision
          /\ ~ Terminal(BeginPreprocessing(job))
      BY <1>1 DEF BeginPreprocessing, Terminal, Jobs
    <3>2. QED
      BY <1>0, <1>1, <1>2, <2>4, <3>1, ProgressEvents DEF SaveThen
  <2>5. QED
    BY <1>3, <2>1, <2>2, <2>3, <2>4 DEF Load
<1>4. CASE Prepare(w)
  <2>1. CASE Continue(w, snap[w], "check") \/ Continue(w, snap[w], "except")
    BY <1>0, <1>2, <2>1, ContinueEvents
  <2>2. CASE SaveThen(w, SetPages(snap[w]), "job.pages_prepared", "check")
    <3>1. SetPages(snap[w]).revision = snap[w].revision
          /\ SetPages(snap[w]).state = snap[w].state
      BY <1>1 DEF SetPages, Jobs
    <3>2. QED
      BY <1>0, <1>1, <1>2, <2>2, <3>1, ProgressEvents DEF SaveThen, Terminal
  <2>3. QED
    BY <1>4, <2>1, <2>2 DEF Prepare
<1>5. CASE Check(w)
  <2>1. CASE SaveCancelled(w, "save")
    BY <1>0, <1>2, <2>1, CancelledEvents
  <2>2. CASE SaveThen(w, BeginRunning(snap[w]), "job.running", "loop")
    <3>1. BeginRunning(snap[w]).revision = snap[w].revision
          /\ ~ Terminal(BeginRunning(snap[w]))
      BY <1>1 DEF BeginRunning, Terminal, Jobs
    <3>2. QED
      BY <1>0, <1>1, <1>2, <2>2, <3>1, ProgressEvents DEF SaveThen
  <2>3. CASE Continue(w, snap[w], "assemble") \/ Continue(w, snap[w], "loop")
             \/ Continue(w, snap[w], "except")
    BY <1>0, <1>2, <2>3, ContinueEvents
  <2>4. QED
    BY <1>5, <2>1, <2>2, <2>3 DEF Check
<1>6. CASE Loop(w)
  <2>1. CASE SaveCancelled(w, "save")
    BY <1>0, <1>2, <2>1, CancelledEvents
  <2>2. CASE SaveThen(w, BeginAssembling(snap[w]), "job.assembling", "assemble")
    <3>1. BeginAssembling(snap[w]).revision = snap[w].revision
          /\ ~ Terminal(BeginAssembling(snap[w]))
      BY <1>1 DEF BeginAssembling, Terminal, Jobs
    <3>2. QED
      BY <1>0, <1>1, <1>2, <2>2, <3>1, ProgressEvents DEF SaveThen
  <2>3. CASE Continue(w, Latest(w), "try") \/ Continue(w, Latest(w), "except")
             \/ Continue(w, snap[w], "except")
    BY <1>0, <1>2, <2>3, ContinueEvents
  <2>4. QED
    BY <1>6, <2>1, <2>2, <2>3 DEF Loop
<1>7. \A n, q : /\ WithPage(Latest(w), n, q).revision = Latest(w).revision
                /\ WithPage(Latest(w), n, q).state = Latest(w).state
  BY <1>1 DEF WithPage, Jobs
<1>8. \A n, q : Terminal(WithPage(Latest(w), n, q)) => Terminal(Latest(w))
  BY <1>7 DEF Terminal
<1>9. CASE Try(w)
  <2> DEFINE k == WithPage(Latest(w), CurrentPage(w), PageStart(Latest(w).pages[CurrentPage(w)]))
  <2>1. \/ SaveCancelled(w, "save")
        \/ Continue(w, Latest(w), "pagefail")
        \/ SaveAt(w, "save", k, "page.running", "engine")
    BY <1>9, Zenon DEF Try, SaveThen
  <2>2. k.revision = Latest(w).revision /\ (Terminal(k) => Terminal(Latest(w)))
    BY <1>7, <1>8
  <2> HIDE DEF k
  <2>3. CASE SaveCancelled(w, "save")
    BY <1>0, <1>2, <2>3, CancelledEvents
  <2>4. CASE Continue(w, Latest(w), "pagefail")
    BY <1>0, <1>2, <2>4, ContinueEvents
  <2>5. CASE SaveAt(w, "save", k, "page.running", "engine")
    BY <1>0, <1>1, <1>2, <2>2, <2>5, ProgressEvents
  <2>6. QED
    BY <2>1, <2>3, <2>4, <2>5
<1>10. CASE EngineReturns(w)
  <2> DEFINE k == WithPage(Latest(w), CurrentPage(w), PageSucceed(Latest(w).pages[CurrentPage(w)]))
             next == IF Latest(w).state \in {"failed", "cancelled"} THEN "done" ELSE "loop"
  <2>1. \/ SaveCancelled(w, "save")
        \/ Continue(w, snap[w], "pagefail")
        \/ SaveAt(w, "save", k, "page.succeeded", next)
    BY <1>10, Zenon DEF EngineReturns, SaveThen
  <2>2. k.revision = Latest(w).revision /\ (Terminal(k) => Terminal(Latest(w)))
    BY <1>7, <1>8
  <2> HIDE DEF k, next
  <2>3. CASE SaveCancelled(w, "save")
    BY <1>0, <1>2, <2>3, CancelledEvents
  <2>4. CASE Continue(w, snap[w], "pagefail")
    BY <1>0, <1>2, <2>4, ContinueEvents
  <2>5. CASE SaveAt(w, "save", k, "page.succeeded", next)
    BY <1>0, <1>1, <1>2, <2>2, <2>5, ProgressEvents
  <2>6. QED
    BY <2>1, <2>3, <2>4, <2>5
<1>11. CASE EngineRaises(w)
  <2>1. CASE SaveThen(w, snap[w], "page.retry_scheduled", "try")
    BY <1>0, <1>1, <1>2, <2>1, ProgressEvents DEF SaveThen
  <2>2. CASE Continue(w, snap[w], "pagefail")
    BY <1>0, <1>2, <2>2, ContinueEvents
  <2>3. QED
    BY <1>11, <2>1, <2>2 DEF EngineRaises
<1>12. CASE FailPage(w)
  <2> DEFINE k == WithPage(Latest(w), CurrentPage(w), PageFail(Latest(w).pages[CurrentPage(w)]))
  <2>1. SaveAt(w, "save", k, "page.failed", "jobfail")
    BY <1>12, Zenon DEF FailPage, SaveThen
  <2>2. k.revision = Latest(w).revision /\ (Terminal(k) => Terminal(Latest(w)))
    BY <1>7, <1>8
  <2> HIDE DEF k
  <2>3. QED
    BY <1>0, <1>1, <1>2, <2>1, <2>2, ProgressEvents
<1>13. CASE FailJob(w)
  <2>1. CASE SaveFailed(w, "save", snap[w])
    BY <1>0, <1>1, <1>2, <2>1, FailedEvents
  <2>2. CASE Continue(w, snap[w], "except")
    BY <1>0, <1>2, <2>2, ContinueEvents
  <2>3. QED
    BY <1>13, <2>1, <2>2 DEF FailJob
<1>14. CASE Assemble(w) \/ Recheck(w)
  <2>1. CASE Continue(w, snap[w], "recheck") \/ Continue(w, snap[w], "except")
             \/ Continue(w, snap[w], "finish")
    BY <1>0, <1>2, <2>1, ContinueEvents
  <2>2. CASE SaveCancelled(w, "save")
    BY <1>0, <1>2, <2>2, CancelledEvents
  <2>3. QED
    BY <1>14, <2>1, <2>2 DEF Assemble, Recheck
<1>15. CASE Finish(w)
  <2>1. CASE SaveThen(w, Succeed(Latest(w), built[w]), "job.succeeded", "done")
    <3>1. SaveAt(w, "save", Succeed(Latest(w), built[w]), "job.succeeded", "done")
      BY <2>1 DEF SaveThen
    <3>2. "job.succeeded" \in TerminalEvents
      BY DEF TerminalEvents
    <3>3. Terminal(Succeed(Latest(w), built[w]))
          /\ EventOf(Succeed(Latest(w), built[w])) = "job.succeeded"
      BY <1>1, EndingMethods
    <3>4. QED
      BY <1>0, <1>2, <3>1, <3>2, <3>3, EndingEvents
  <2>2. CASE Continue(w, Latest(w), "except")
    BY <1>0, <1>2, <2>2, ContinueEvents
  <2>3. QED
    BY <1>15, <2>1, <2>2 DEF Finish
<1>16. CASE Except(w)
  <2>1. CASE SaveCancelled(w, "handlersave")
    BY <1>0, <1>2, <2>1, CancelledEvents
  <2>2. CASE Continue(w, Latest(w), "done")
    BY <1>0, <1>2, <2>2, ContinueEvents
  <2>3. CASE SaveFailed(w, "handlersave", Latest(w))
    BY <1>0, <1>1, <1>2, <2>3, FailedEvents
  <2>4. QED
    BY <1>16, <2>1, <2>2, <2>3 DEF Except
<1>17. QED
  BY <1>3, <1>4, <1>5, <1>6, <1>9, <1>10, <1>11, <1>12, <1>13, <1>14, <1>15, <1>16

\* What a save adds to job_events: the event of an attempt that ends, once.
LEMMA AppendedEvents ==
  ASSUME IInv, EventInv, NEW event, event \in TerminalEvents,
         Terminal(job) => event = EventOf(job)
  PROVE  /\ Terminal(job) => Appended(event, job.attempt) = terminals
         /\ ~ Terminal(job) =>
              Appended(event, job.attempt)
                = Append(terminals, [type |-> event, attempt |-> job.attempt])
<1> DEFINE e == [type |-> event, attempt |-> job.attempt]
<1>1. terminals \in Seq([type : TerminalEvents, attempt : Nat]) /\ job.attempt \in Nat
  BY DEF IInv, TypeOK, Jobs
<1>2. e.attempt = job.attempt /\ e.type = event
  OBVIOUS
<1>3. Appended(event, job.attempt) = IF \A i \in DOMAIN terminals : terminals[i] # e
                                     THEN Append(terminals, e) ELSE terminals
  BY Zenon DEF Appended
<1>4. CASE Terminal(job)
  <2>1. job.attempt \in DOMAIN terminals
    BY <1>1, <1>4 DEF EventInv, TerminalEventPerAttempt
  <2>2. terminals[job.attempt] \in [type : TerminalEvents, attempt : Nat]
    BY <2>1, EventRows
  <2>3. terminals[job.attempt].attempt = job.attempt
        /\ terminals[job.attempt].type = EventOf(job)
    BY <1>4, <2>1 DEF EventInv, TerminalEventPerAttempt, EventOf
  <2>4. terminals[job.attempt] = e
    BY <1>4, <2>2, <2>3
  <2> HIDE DEF e
  <2>5. QED
    BY <1>3, <1>4, <2>1, <2>4
<1>5. CASE ~ Terminal(job)
  <2> HIDE DEF e
  <2>1. ASSUME NEW i \in DOMAIN terminals PROVE terminals[i] # e
    <3>1. terminals[i].attempt = i /\ Len(terminals) = job.attempt - 1
      BY <1>5 DEF EventInv, TerminalEventPerAttempt
    <3>2. i # job.attempt
      BY <1>1, <3>1
    <3>3. QED
      BY <1>2, <3>1, <3>2
  <2>2. QED
    BY <1>3, <1>5, <2>1 DEF e
<1>6. QED
  BY <1>4, <1>5

\* Writing back a current snapshot keeps one event per attempt, if the event is the
\* terminal one exactly when the write ends the attempt.
LEMMA WrittenEvents ==
  ASSUME IInv, EventInv, NEW j \in Jobs, NEW event \in Events, j.attempt = job.attempt,
         Terminal(job) => j.state = job.state,
         event \in TerminalEvents => Terminal(j) /\ event = EventOf(j),
         event \notin TerminalEvents /\ Terminal(j) => Terminal(job),
         SaveWithEvent(j, event)
  PROVE  /\ TerminalEventPerAttempt' /\ job'.attempt >= 1
         /\ DOMAIN terminals \subseteq DOMAIN terminals'
         /\ \A i \in DOMAIN terminals : terminals'[i] = terminals[i]
<1>1. /\ job'.state = j.state /\ job'.attempt = job.attempt /\ job.attempt \in Nat
      /\ job.attempt >= 1
  BY DEF SaveWithEvent, Saved, Jobs, IInv, TypeOK, EventInv
<1>2. Terminal(job') <=> Terminal(j)
  BY <1>1 DEF Terminal
<1>3. terminals' = Appended(event, job.attempt)
  BY DEF SaveWithEvent
<1>4. EventOf(j) = EventOf(job) \/ ~ Terminal(job)
  BY DEF EventOf
<1>5. terminals \in Seq([type : TerminalEvents, attempt : Nat])
  BY DEF IInv, TypeOK
<1>6. CASE event \in TerminalEvents /\ ~ Terminal(job)
  <2> DEFINE e == [type |-> event, attempt |-> job.attempt]
  <2>1. terminals' = Append(terminals, e)
    BY <1>3, <1>6, AppendedEvents
  <2>2. e \in [type : TerminalEvents, attempt : Nat] /\ e.type = event
        /\ e.attempt = job.attempt
    BY <1>1, <1>6
  <2>3. Len(terminals) = job.attempt - 1
    BY <1>6 DEF EventInv, TerminalEventPerAttempt
  <2> HIDE DEF e
  <2>4. /\ Len(terminals') = job.attempt
        /\ \A i \in 1..Len(terminals) : terminals'[i] = terminals[i]
        /\ terminals'[job.attempt] = e
        /\ DOMAIN terminals = 1..Len(terminals) /\ DOMAIN terminals' = 1..Len(terminals')
    BY <1>1, <1>5, <2>1, <2>2, <2>3
  <2>5. \A i \in DOMAIN terminals' : terminals'[i].attempt = i
    BY <1>1, <2>2, <2>3, <2>4 DEF EventInv, TerminalEventPerAttempt
  <2>6. Terminal(job') /\ terminals'[job'.attempt].type = EventOf(job')
    BY <1>1, <1>2, <1>6, <2>2, <2>4 DEF EventOf
  <2>7. DOMAIN terminals \subseteq DOMAIN terminals'
    BY <1>1, <2>3, <2>4
  <2>8. QED
    BY <1>1, <2>4, <2>5, <2>6, <2>7 DEF TerminalEventPerAttempt, EventOf, Terminal
<1>7. CASE event \notin TerminalEvents \/ Terminal(job)
  <2>1. terminals' = terminals
    BY <1>3, <1>4, <1>7, AppendedEvents DEF Appended
  <2>2. Terminal(job') <=> Terminal(job)
    BY <1>2, <1>7 DEF Terminal
  <2>3. Terminal(job) => job'.state = job.state
    BY <1>1
  <2>4. QED
    BY <1>1, <2>1, <2>2, <2>3 DEF EventInv, TerminalEventPerAttempt, Terminal
<1>8. QED
  BY <1>6, <1>7

\* After a write every other worker's snapshot is stale, and what it announces is
\* as true as it was.
LEMMA OthersAnnounce ==
  ASSUME IInv, EventInv, NEW v \in Workers, pc'[v] = pc[v], snap'[v] = snap[v],
         pend'[v] = pend[v], job'.revision = job.revision + 1,
         DOMAIN terminals \subseteq DOMAIN terminals',
         \A i \in DOMAIN terminals : terminals'[i] = terminals[i]
  PROVE  Announces(pc[v], snap[v], pend[v])'
<1>1. snap[v].revision <= job.revision /\ snap[v].revision \in Nat /\ job.revision \in Nat
  BY DEF IInv, SnapshotInv, FromRow, TypeOK, Jobs
<1>2. snap'[v].revision # job'.revision
  BY <1>1
<1>3. QED
  BY <1>2 DEF EventInv, Announces, Terminal, EventOf

\* The transaction of a worker's save, in or out of a handler.
LEMMA WorkerWriteEvents ==
  ASSUME IInv, EventInv, NEW w \in Workers, pc[w] \in Saving, Saveable(snap[w]),
         SaveWithEvent(snap[w], pend[w].event), snap' = [snap EXCEPT ![w] = Saved(@)],
         pend' = [pend EXCEPT ![w] = NoSave], Goto(w, pend[w].next)
  PROVE  EventInv'
<1>1. snap[w] \in Jobs /\ pend[w].event \in Events /\ job \in Jobs
  BY DEF IInv, TypeOK
<1>2. /\ snap[w].attempt = job.attempt /\ snap[w].revision = job.revision
      /\ Terminal(job) => snap[w].state = job.state
  BY DEF IInv, SnapshotInv, FromRow, Saveable, WorkerMayWrite
<1>3. Announces(pc[w], snap[w], pend[w])
  BY DEF EventInv
<1>4. /\ TerminalEventPerAttempt' /\ job'.attempt >= 1
      /\ DOMAIN terminals \subseteq DOMAIN terminals'
      /\ \A i \in DOMAIN terminals : terminals'[i] = terminals[i]
  BY <1>1, <1>2, <1>3, WrittenEvents DEF Announces
<1>5. job'.revision = job.revision + 1
  BY <1>1, <1>2 DEF SaveWithEvent, Saved, Jobs
<1>6. /\ pc'[w] = pend[w].next
      /\ \A v \in Workers \ {w} : pc'[v] = pc[v] /\ snap'[v] = snap[v] /\ pend'[v] = pend[v]
  BY DEF IInv, TypeOK, Goto
<1>7. pend[w].next \in Resumptions
  BY DEF IInv, PageInv, HasPages
<1>8. Announces(pc[w], snap[w], pend[w])'
  BY <1>6, <1>7 DEF Announces, Resumptions, Saving
<1>9. ASSUME NEW v \in Workers \ {w} PROVE Announces(pc[v], snap[v], pend[v])'
  BY <1>4, <1>5, <1>6, OthersAnnounce
<1>10. QED
  BY <1>4, <1>8, <1>9 DEF EventInv

\* The process ends.
LEMMA ExitEvents ==
  ASSUME IInv, EventInv, NEW w \in Workers, Exit(w), UNCHANGED <<job, terminals>>
  PROVE  EventInv'
<1>1. Announces("idle", NewJob, NoSave)
  BY DEF Announces, Saving
<1>2. QED
  BY <1>1, QuietEvents DEF Exit, Goto

\* cancel_job and retry_job: the first may end the attempt, the second opens the next.
LEMMA ApiEvents ==
  ASSUME IInv, EventInv, NEW c \in Clients, ApiSave(c)
  PROVE  EventInv'
<1>1. UNCHANGED <<pc, snap, pend>> /\ job \in Jobs /\ asnap[c] \in Jobs
  BY DEF ApiSave, taskVars, IInv, TypeOK
<1>2. CASE UNCHANGED <<job, terminals>>
  BY <1>1, <1>2, IdleEvents
<1> DEFINE event == CASE aop[c] = "retry"             -> "job.retrying"
                      [] asnap[c].state = "cancelled" -> "job.cancelled"
                      [] OTHER                        -> "job.cancel_requested"
<1>3. CASE Saveable(asnap[c]) /\ SaveWithEvent(asnap[c], event)
  <2>1. \/ /\ aop[c] = "cancel" /\ CanRequestCancel(job)
           /\ asnap[c].attempt = job.attempt
           /\ asnap[c].state \in {"cancel_requested", "cancelled"}
        \/ /\ aop[c] = "retry" /\ CanRetry(job)
           /\ asnap[c].attempt = job.attempt + 1
           /\ asnap[c].state = "retrying"
    BY <1>3 DEF ApiSave, IInv, SnapshotInv, Saveable
  <2>2. job'.revision = job.revision + 1
    BY <1>1, <1>3 DEF SaveWithEvent, Saved, Saveable, Jobs
  <2>3. /\ TerminalEventPerAttempt' /\ job'.attempt >= 1
        /\ DOMAIN terminals \subseteq DOMAIN terminals'
        /\ \A i \in DOMAIN terminals : terminals'[i] = terminals[i]
    <3>1. CASE aop[c] = "cancel"
      <4>1. event = (IF asnap[c].state = "cancelled" THEN "job.cancelled"
                     ELSE "job.cancel_requested")
        BY <3>1
      <4>2. event \in Events
        BY <4>1 DEF Events, TerminalEvents
      <4>3. event \in TerminalEvents => Terminal(asnap[c]) /\ event = EventOf(asnap[c])
        BY <4>1 DEF TerminalEvents, Terminal, EventOf
      <4>4. event \notin TerminalEvents => ~ Terminal(asnap[c])
        BY <2>1, <3>1, <4>1 DEF TerminalEvents, Terminal
      <4>5. ~ Terminal(job) /\ asnap[c].attempt = job.attempt
        BY <2>1, <3>1 DEF Terminal, CanRequestCancel
      <4> HIDE DEF event
      <4>6. QED
        BY <1>1, <1>3, <4>2, <4>3, <4>4, <4>5, WrittenEvents
    <3>2. CASE aop[c] = "retry"
      <4>1. event = "job.retrying"
        BY <2>1, <3>2
      <4> HIDE DEF event
      <4>2. terminals' = terminals
        BY <1>3, <4>1 DEF SaveWithEvent, Appended, TerminalEvents
      <4>3. /\ Terminal(job) /\ job.attempt \in Nat
            /\ job'.attempt = job.attempt + 1 /\ job'.state = "retrying"
        BY <1>1, <1>3, <2>1, <3>2 DEF SaveWithEvent, Saved, Jobs, CanRetry, Terminal
      <4>4. QED
        BY <4>2, <4>3 DEF EventInv, TerminalEventPerAttempt, Terminal
    <3>3. QED
      BY <2>1, <3>1, <3>2
  <2>4. ASSUME NEW v \in Workers PROVE Announces(pc[v], snap[v], pend[v])'
    BY <1>1, <2>2, <2>3, OthersAnnounce
  <2>5. QED
    BY <2>3, <2>4 DEF EventInv
<1>4. QED
  BY <1>2, <1>3 DEF ApiSave

\* The remaining steps of a worker: fetch, repair, the writes, conflict and commit.
LEMMA OtherWorkerEvents ==
  ASSUME IInv, EventInv, NEW w \in Workers,
         Fetch(w) \/ Repair(w) \/ Save(w) \/ Conflict(w) \/ HandlerSave(w) \/ Commit(w)
  PROVE  EventInv'
<1>1. /\ pend = [pend EXCEPT ![w] = pend[w]] /\ snap = [snap EXCEPT ![w] = snap[w]]
  BY RestFrame DEF IInv
<1>2. \A l \in {"idle", "load", "conflict", "done"} : \A j, p : Announces(l, j, p)
  BY DEF Announces, Saving
<1>3. CASE Fetch(w)
  <2>1. /\ pc' = [pc EXCEPT ![w] = "load"] /\ UNCHANGED <<snap, pend, job, terminals>>
    BY <1>3 DEF Fetch, Goto, rowVars
  <2>2. QED
    BY <1>1, <1>2, <2>1, QuietEvents
<1>4. CASE Repair(w)
  <2>1. terminals' = Appended(EventOf(snap[w]), snap[w].attempt)
    BY <1>4, Zenon DEF Repair, EventOf
  <2>2. /\ pc[w] = "repair" /\ pc' = [pc EXCEPT ![w] = "done"]
        /\ UNCHANGED <<snap, pend, job>>
    BY <1>4 DEF Repair, Goto
  <2>3. /\ snap[w].attempt \in DOMAIN terminals
        /\ terminals[snap[w].attempt]
             = [type |-> EventOf(snap[w]), attempt |-> snap[w].attempt]
    BY <2>2 DEF EventInv, Announces
  <2>4. terminals' = terminals
    BY <2>1, <2>3, Zenon DEF Appended
  <2>5. QED
    BY <1>1, <1>2, <2>2, <2>4, QuietEvents
<1>5. CASE Save(w)
  <2>1. pc[w] \in Saving /\ pend' = [pend EXCEPT ![w] = NoSave]
    BY <1>5 DEF Save, Saving
  <2>2. CASE /\ Saveable(snap[w]) /\ SaveWithEvent(snap[w], pend[w].event)
             /\ snap' = [snap EXCEPT ![w] = Saved(@)] /\ Goto(w, pend[w].next)
    BY <2>1, <2>2, WorkerWriteEvents
  <2>3. CASE Goto(w, "conflict") /\ UNCHANGED <<job, terminals, snap>>
    BY <1>1, <1>2, <2>1, <2>3, QuietEvents DEF Goto
  <2>4. QED
    BY <1>5, <2>2, <2>3 DEF Save
<1>6. CASE Conflict(w)
  <2>1. UNCHANGED <<job, terminals>>
    BY <1>6 DEF Conflict, rowVars
  <2>2. CASE SaveCancelled(w, "handlersave")
    BY <2>1, <2>2, CancelledEvents DEF Saving
  <2>3. CASE Continue(w, snap[w], "done")
    BY <2>1, <2>3, ContinueEvents DEF Saving
  <2>4. CASE Exit(w)
    BY <2>1, <2>4, ExitEvents
  <2>5. QED
    BY <1>6, <2>2, <2>3, <2>4 DEF Conflict
<1>7. CASE HandlerSave(w)
  <2>1. pc[w] \in Saving
    BY <1>7 DEF HandlerSave, Saving
  <2>2. CASE /\ Saveable(snap[w]) /\ SaveWithEvent(snap[w], pend[w].event)
             /\ snap' = [snap EXCEPT ![w] = Saved(@)] /\ Goto(w, pend[w].next)
             /\ pend' = [pend EXCEPT ![w] = NoSave]
    BY <2>1, <2>2, WorkerWriteEvents
  <2>3. CASE Exit(w) /\ UNCHANGED <<job, terminals>>
    BY <2>3, ExitEvents
  <2>4. QED
    BY <1>7, <2>2, <2>3 DEF HandlerSave
<1>8. CASE Commit(w)
  <2>1. UNCHANGED <<job, terminals>>
    BY <1>8 DEF Commit, rowVars
  <2>2. CASE /\ Goto(w, "idle") /\ snap' = [snap EXCEPT ![w] = NewJob] /\ UNCHANGED pend
    BY <1>1, <1>2, <2>1, <2>2, QuietEvents DEF Goto
  <2>3. CASE Exit(w)
    BY <2>1, <2>3, ExitEvents
  <2>4. QED
    BY <1>8, <2>2, <2>3 DEF Commit
<1>9. QED
  BY <1>3, <1>4, <1>5, <1>6, <1>7, <1>8

\* Every step keeps one terminal event per attempt: one case per action of Next.
LEMMA NextEvents == IInv /\ EventInv /\ [Next]_vars => EventInv'
<1> SUFFICES ASSUME IInv, EventInv, [Next]_vars PROVE EventInv'
  OBVIOUS
<1>1. ASSUME NEW w \in Workers, WorkerStep(w) PROVE EventInv'
  BY <1>1, StepEvents, OtherWorkerEvents DEF WorkerStep
<1>2. ASSUME NEW w \in Workers, Crash(w) PROVE EventInv'
  BY <1>2, ExitEvents DEF Crash, rowVars
<1>3. ASSUME NEW c \in Clients, ApiSave(c) PROVE EventInv'
  BY <1>3, ApiEvents
<1>4. ASSUME NEW c \in Clients, NEW op \in {"cancel", "retry"},
             Request(c, op) \/ CancelRead(c) \/ RetryRead(c)
      PROVE  EventInv'
  BY <1>4, IdleEvents DEF Request, CancelRead, RetryRead, rowVars, taskVars
<1>5. CASE Rebalance \/ Dispatch \/ DispatcherFails \/ RetentionClaim \/ UNCHANGED vars
  BY <1>5, IdleEvents DEF Rebalance, Dispatch, Publish, MarkPublished, DispatcherFails,
                          RetentionClaim, vars, rowVars, taskVars
<1>6. QED
  BY <1>1, <1>2, <1>3, <1>4, <1>5 DEF Next

\* Every attempt of a job ends with exactly one terminal event, in the order of the
\* attempts, and the last one tells the state of the row, however often the message
\* of an attempt is redelivered, repaired or worked on by two workers at once.
THEOREM OneTerminalEvent == Spec => []TerminalEventPerAttempt
<1>1. Init => EventInv
  BY DEF Init, EventInv, TerminalEventPerAttempt, Announces, Saving, NewJob, Terminal
<1>2. EventInv => TerminalEventPerAttempt
  BY DEF EventInv
<1>3. QED
  BY <1>1, <1>2, Inductive, NextEvents, PTL DEF Spec

(***************************************************************************)
(* The row and its events implement JobAttempts.                           *)
(***************************************************************************)

\* A save that leaves the attempt its number is a step of the attempt, or none: it ends
\* the attempt with its event, it asks it to stop, or readers see no difference.
LEMMA WriteRefines ==
  ASSUME IInv, EventInv, NEW j \in Jobs, NEW event \in Events, j.attempt = job.attempt,
         Terminal(job) => j.state = job.state,
         job.state = "cancel_requested" => j.state \in {"cancel_requested", "cancelled"},
         event \in TerminalEvents => Terminal(j) /\ event = EventOf(j),
         event \notin TerminalEvents /\ Terminal(j) => Terminal(job),
         SaveWithEvent(j, event)
  PROVE  Attempts!Next \/ UNCHANGED <<job.attempt, Phase, terminals>>
<1>1. /\ job'.state = j.state /\ job'.attempt = job.attempt
      /\ terminals' = Appended(event, job.attempt)
  BY DEF SaveWithEvent, Saved, Jobs
<1>2. Terminal(job') <=> Terminal(j)
  BY <1>1 DEF Terminal
<1>3. CASE ~ Terminal(job) /\ Terminal(j)
  <2>1. terminals' = Append(terminals, [type |-> EventOf(j), attempt |-> job.attempt])
    BY <1>1, <1>3, AppendedEvents
  <2>2. /\ Phase = "open" \/ (Phase = "stopping" /\ j.state = "cancelled")
        /\ Phase' = j.state
    BY <1>1, <1>2, <1>3 DEF Phase, Terminal
  <2>3. EventOf(j) = Attempts!EventType(j.state) /\ j.state \in Attempts!Outcomes
    BY <1>3 DEF EventOf, Terminal, Attempts!EventType, Attempts!Outcomes
  <2>4. Attempts!End(j.state)
    BY <1>1, <2>1, <2>2, <2>3 DEF Attempts!End
  <2>5. QED
    BY <2>3, <2>4 DEF Attempts!Next
<1>4. CASE Terminal(job) \/ ~ Terminal(j)
  <2>1. terminals' = terminals
    <3>1. CASE event \in TerminalEvents
      BY <1>1, <1>4, <3>1, AppendedEvents DEF EventOf
    <3>2. CASE event \notin TerminalEvents
      BY <1>1, <3>2 DEF Appended
    <3>3. QED
      BY <3>1, <3>2
  <2>2. Phase' = Phase \/ (Phase = "open" /\ Phase' = "stopping")
    BY <1>1, <1>2, <1>4 DEF Phase, Terminal
  <2>3. QED
    BY <1>1, <2>1, <2>2 DEF Attempts!Next, Attempts!Stop
<1>5. QED
  BY <1>3, <1>4

\* The saves of cancel_job and retry_job.
LEMMA ApiRefines ==
  ASSUME IInv, EventInv, NEW c \in Clients, ApiSave(c)
  PROVE  Attempts!Next \/ UNCHANGED <<job.attempt, Phase, terminals>>
<1>1. job \in Jobs /\ asnap[c] \in Jobs
  BY DEF IInv, TypeOK
<1>2. CASE UNCHANGED <<job, terminals>>
  BY <1>2 DEF Phase, Terminal
<1> DEFINE event == CASE aop[c] = "retry"             -> "job.retrying"
                      [] asnap[c].state = "cancelled" -> "job.cancelled"
                      [] OTHER                        -> "job.cancel_requested"
<1>3. CASE Saveable(asnap[c]) /\ SaveWithEvent(asnap[c], event)
  <2>1. \/ /\ aop[c] = "cancel" /\ CanRequestCancel(job)
           /\ asnap[c].attempt = job.attempt
           /\ asnap[c].state \in {"cancel_requested", "cancelled"}
        \/ /\ aop[c] = "retry" /\ CanRetry(job)
           /\ asnap[c].attempt = job.attempt + 1
           /\ asnap[c].state = "retrying"
    BY <1>3 DEF ApiSave, IInv, SnapshotInv, Saveable
  <2>2. CASE aop[c] = "cancel"
    <3>1. event = (IF asnap[c].state = "cancelled" THEN "job.cancelled"
                   ELSE "job.cancel_requested")
      BY <2>2
    <3>2. event \in Events
      BY <3>1 DEF Events, TerminalEvents
    <3>3. event \in TerminalEvents => Terminal(asnap[c]) /\ event = EventOf(asnap[c])
      BY <3>1 DEF TerminalEvents, Terminal, EventOf
    <3>4. event \notin TerminalEvents => ~ Terminal(asnap[c])
      BY <2>1, <2>2, <3>1 DEF TerminalEvents, Terminal
    <3>5. /\ ~ Terminal(job) /\ asnap[c].attempt = job.attempt
          /\ job.state # "cancel_requested"
      BY <2>1, <2>2 DEF Terminal, CanRequestCancel
    <3> HIDE DEF event
    <3>6. QED
      BY <1>1, <1>3, <3>2, <3>3, <3>4, <3>5, WriteRefines
  <2>3. CASE aop[c] = "retry"
    <3>1. event = "job.retrying"
      BY <2>1, <2>3
    <3> HIDE DEF event
    <3>2. terminals' = terminals
      BY <1>3, <3>1 DEF SaveWithEvent, Appended, TerminalEvents
    <3>3. /\ job.state \in {"failed", "cancelled"}
          /\ job'.attempt = job.attempt + 1 /\ job'.state = "retrying"
      BY <1>1, <1>3, <2>1, <2>3 DEF SaveWithEvent, Saved, Jobs, CanRetry
    <3>4. Phase = job.state /\ Phase' = "open"
      BY <3>3 DEF Phase, Terminal
    <3>5. QED
      BY <3>2, <3>3, <3>4 DEF Attempts!Next, Attempts!TryAgain
  <2>4. QED
    BY <2>1, <2>2, <2>3
<1>4. QED
  BY <1>2, <1>3 DEF ApiSave

\* The steps of a worker: its saves, a repair that finds the event there already, and
\* those that leave row and events alone.
LEMMA WorkerRefines ==
  ASSUME IInv, EventInv, NEW w \in Workers, WorkerStep(w)
  PROVE  Attempts!Next \/ UNCHANGED <<job.attempt, Phase, terminals>>
<1>1. CASE UNCHANGED <<job, terminals>>
  BY <1>1 DEF Phase, Terminal
<1>2. CASE /\ pc[w] \in Saving /\ Saveable(snap[w])
           /\ SaveWithEvent(snap[w], pend[w].event)
  <2>1. snap[w] \in Jobs /\ pend[w].event \in Events
    BY DEF IInv, TypeOK
  <2>2. snap[w].attempt = job.attempt /\ WorkerMayWrite(snap[w])
        /\ snap[w].revision = job.revision
    BY <1>2 DEF IInv, SnapshotInv, FromRow, Saveable
  <2>3. Announces(pc[w], snap[w], pend[w])
    BY DEF EventInv
  <2>4. QED
    BY <1>2, <2>1, <2>2, <2>3, WriteRefines DEF Announces, WorkerMayWrite
<1>3. CASE Repair(w)
  <2>1. terminals' = Appended(EventOf(snap[w]), snap[w].attempt)
    BY <1>3, Zenon DEF Repair, EventOf
  <2>2. /\ snap[w].attempt \in DOMAIN terminals
        /\ terminals[snap[w].attempt]
             = [type |-> EventOf(snap[w]), attempt |-> snap[w].attempt]
    BY <1>3 DEF Repair, EventInv, Announces
  <2>3. terminals' = terminals
    BY <2>1, <2>2, Zenon DEF Appended
  <2>4. job' = job
    BY <1>3 DEF Repair
  <2>5. QED
    BY <1>1, <2>3, <2>4
<1>4. CASE Save(w) \/ HandlerSave(w)
  BY <1>1, <1>2, <1>4 DEF Save, HandlerSave, Saving
<1>5. CASE Fetch(w) \/ Load(w) \/ Prepare(w) \/ Check(w) \/ Loop(w) \/ Try(w)
           \/ EngineReturns(w) \/ EngineRaises(w)
  BY <1>1, <1>5 DEF Fetch, Load, Prepare, Check, Loop, Try, EngineReturns, EngineRaises,
                    rowVars
<1>6. CASE FailPage(w) \/ FailJob(w) \/ Assemble(w) \/ Recheck(w) \/ Finish(w)
           \/ Conflict(w) \/ Except(w) \/ Commit(w)
  BY <1>1, <1>6 DEF FailPage, FailJob, Assemble, Recheck, Finish, Conflict, Except, Commit,
                    rowVars
<1>7. QED
  BY <1>3, <1>4, <1>5, <1>6 DEF WorkerStep

\* However many workers hold a job's message, and whatever they, the API, the dispatcher
\* and retention do to its row in between, readers see the succession of attempts that
\* JobAttempts describes.
THEOREM AttemptsRefined == Spec => ImplementsAttempts
<1>1. Init => Attempts!Init /\ EventInv
  BY DEF Init, Attempts!Init, Phase, EventInv, TerminalEventPerAttempt, Announces, Saving,
         NewJob, Terminal
<1>2. IInv /\ EventInv /\ [Next]_vars => [Attempts!Next]_<<job.attempt, Phase, terminals>>
  <2> SUFFICES ASSUME IInv, EventInv, [Next]_vars
               PROVE  Attempts!Next \/ UNCHANGED <<job.attempt, Phase, terminals>>
    OBVIOUS
  <2>1. CASE UNCHANGED <<job, terminals>>
    BY <2>1 DEF Phase, Terminal
  <2>2. ASSUME NEW w \in Workers, WorkerStep(w)
        PROVE  Attempts!Next \/ UNCHANGED <<job.attempt, Phase, terminals>>
    BY <2>2, WorkerRefines
  <2>3. ASSUME NEW c \in Clients, ApiSave(c)
        PROVE  Attempts!Next \/ UNCHANGED <<job.attempt, Phase, terminals>>
    BY <2>3, ApiRefines
  <2>4. ASSUME NEW w \in Workers, Crash(w) PROVE UNCHANGED <<job, terminals>>
    BY <2>4 DEF Crash, rowVars
  <2>5. ASSUME NEW c \in Clients, NEW op \in {"cancel", "retry"},
               Request(c, op) \/ CancelRead(c) \/ RetryRead(c)
        PROVE  UNCHANGED <<job, terminals>>
    BY <2>5 DEF Request, CancelRead, RetryRead, rowVars
  <2>6. CASE Rebalance \/ Dispatch \/ DispatcherFails \/ RetentionClaim \/ UNCHANGED vars
    BY <2>1, <2>6 DEF Rebalance, Dispatch, Publish, MarkPublished, DispatcherFails,
                      RetentionClaim, vars, rowVars
  <2>7. QED
    BY <2>1, <2>2, <2>3, <2>4, <2>5, <2>6 DEF Next
<1>3. QED
  BY <1>1, <1>2, Inductive, NextEvents, PTL DEF Spec, ImplementsAttempts, Attempts!Spec

(***************************************************************************)
(* What holds as long as no two workers process the job at once.           *)
(***************************************************************************)

\* Never two workers inside process(): a partition is not taken from a busy worker.
Exclusive == \A v, w \in Workers : pc[v] # "idle" /\ pc[w] # "idle" => v = w

\* States of an attempt that only a worker can end.
Begun == {"preprocessing", "running", "assembling", "cancel_requested"}

\* Labels at which the worker has begun the attempt, and those of the page loop.
AtWork == {"prepare", "check", "loop", "try", "engine", "pagefail", "jobfail", "assemble",
           "recheck", "finish", "except"}
PageLoop == {"loop", "try", "engine", "pagefail"}

\* Snapshot j has every page that the row has recognised.
KeepsPages(j) ==
  \A n \in PageNumbers :
    job.pages # NoPages /\ job.pages[n].state = "succeeded" => j.pages[n] = job.pages[n]

\* The pages t that the loop has still to visit are not recognised in j.
Unrecognised(j, t) == \A n \in t : j.pages[n].state # "succeeded"

\* Behind a worker with message attempt m the API may at most have replaced an attempt
\* that had not begun; nobody has begun the next.
NotOvertaken(m) ==
  job.attempt = m \/ (job.attempt > m /\ job.state \in {"retrying", "cancelled"})

\* A worker at work has the pages of the row, which is in its attempt; what it is about
\* to save belongs to its attempt and keeps the recognised pages.
SoleWorker(l, j, t, p, m) ==
  /\ l \in AtWork => /\ job.attempt = m /\ j.attempt = m /\ j.pages = job.pages
                     /\ job.state \in Begun /\ j.state \in Begun
  /\ l \in PageLoop => Unrecognised(j, t)
  /\ l \in Saving => /\ j.attempt = m
                     /\ j.revision = job.revision => KeepsPages(j)
                     /\ p.next # "done" => j.state \in Begun
                     /\ p.next \in PageLoop => Unrecognised(j, t)
  /\ l \in Saving \cup {"conflict"} => NotOvertaken(m)

\* What cancel_job and retry_job make of the row.
Asked(op) == IF op = "retry" THEN Retry(job)
             ELSE IF job.state \in {"queued", "retrying"} THEN Cancel(RequestCancel(job))
             ELSE RequestCancel(job)

SoleInv ==
  /\ \A w \in Workers : SoleWorker(pc[w], snap[w], todo[w], pend[w], msg[w])
  /\ \A c \in Clients :
       apc[c] = "save" /\ asnap[c].revision = job.revision => asnap[c] = Asked(aop[c])

\* A step that changes only one worker's private state, to an allowed one.
LEMMA SoleQuiet ==
  ASSUME IInv, SoleInv, NEW w \in Workers, NEW l, NEW j, NEW t, NEW p,
         pc' = [pc EXCEPT ![w] = l], snap' = [snap EXCEPT ![w] = j],
         todo' = [todo EXCEPT ![w] = t], pend' = [pend EXCEPT ![w] = p],
         UNCHANGED <<job, msg, apc, aop, asnap>>,
         SoleWorker(l, j, t, p, msg[w])
  PROVE  SoleInv'
<1>1. /\ pc'[w] = l /\ snap'[w] = j /\ todo'[w] = t /\ pend'[w] = p
      /\ \A v \in Workers \ {w} : /\ pc'[v] = pc[v] /\ snap'[v] = snap[v]
                                  /\ todo'[v] = todo[v] /\ pend'[v] = pend[v]
  BY DEF IInv, TypeOK
<1>2. ASSUME NEW v \in Workers
      PROVE  SoleWorker(pc[v], snap[v], todo[v], pend[v], msg[v])'
  <2>1. CASE v = w
    BY <1>1, <2>1 DEF SoleWorker, KeepsPages, Unrecognised, NotOvertaken
  <2>2. CASE v # w
    BY <1>1, <2>2 DEF SoleInv, SoleWorker, KeepsPages, Unrecognised, NotOvertaken
  <2>3. QED
    BY <2>1, <2>2
<1>3. QED
  BY <1>2 DEF SoleInv, Asked

\* A worker that goes on without saving.
LEMMA SoleContinue ==
  ASSUME IInv, SoleInv, NEW w \in Workers, NEW j, NEW l, l \notin Saving \cup {"conflict"},
         NEW t, NEW a, Continue(w, j, l), Rest(w, t, a),
         l \in AtWork => /\ job.attempt = msg[w] /\ j.attempt = msg[w] /\ j.pages = job.pages
                         /\ job.state \in Begun /\ j.state \in Begun,
         l \in PageLoop => Unrecognised(j, t)
  PROVE  SoleInv'
<1>1. pend' = [pend EXCEPT ![w] = pend[w]]
  BY DEF Continue, IInv, TypeOK
<1>2. SoleWorker(l, j, t, pend[w], msg[w])
  BY DEF SoleWorker
<1>3. QED
  BY <1>1, <1>2, SoleQuiet DEF Continue, Goto, Rest, rowVars, apiVars

\* A worker that starts a save.
LEMMA SoleSave ==
  ASSUME IInv, SoleInv, NEW w \in Workers, NEW l \in Saving, NEW j, NEW t, NEW a,
         NEW event, NEW next, SaveAt(w, l, j, event, next), Rest(w, t, a),
         j.attempt = msg[w], NotOvertaken(msg[w]),
         j.revision = job.revision => KeepsPages(j),
         next # "done" => j.state \in Begun,
         next \in PageLoop => Unrecognised(j, t)
  PROVE  SoleInv'
<1> DEFINE p == [event |-> event, next |-> next]
<1>1. p.next = next
  OBVIOUS
<1>2. pc' = [pc EXCEPT ![w] = l] /\ snap' = [snap EXCEPT ![w] = j]
      /\ pend' = [pend EXCEPT ![w] = p]
  BY DEF SaveAt, Goto
<1> HIDE DEF p
<1>3. SoleWorker(l, j, t, p, msg[w])
  BY <1>1 DEF SoleWorker, Saving, AtWork, PageLoop
<1>4. QED
  BY <1>2, <1>3, SoleQuiet DEF Rest, rowVars, apiVars

\* The methods that change neither the attempt nor the pages.
LEMMA SamePages ==
  ASSUME NEW b \in Jobs
  PROVE  /\ Cancel(b).attempt = b.attempt /\ Cancel(b).pages = b.pages
         /\ Fail(b).attempt = b.attempt /\ Fail(b).pages = b.pages
         /\ RequestCancel(b).attempt = b.attempt /\ RequestCancel(b).pages = b.pages
         /\ BeginPreprocessing(b).attempt = b.attempt /\ BeginPreprocessing(b).pages = b.pages
         /\ BeginRunning(b).attempt = b.attempt /\ BeginRunning(b).pages = b.pages
         /\ BeginAssembling(b).attempt = b.attempt /\ BeginAssembling(b).pages = b.pages
         /\ \A a \in Nat : Succeed(b, a).attempt = b.attempt /\ Succeed(b, a).pages = b.pages
<1>1. /\ Cancel(b).attempt = b.attempt /\ Cancel(b).pages = b.pages
      /\ Fail(b).attempt = b.attempt /\ Fail(b).pages = b.pages
      /\ RequestCancel(b).attempt = b.attempt /\ RequestCancel(b).pages = b.pages
  BY DEF Cancel, Fail, RequestCancel, Jobs
<1>2. /\ BeginPreprocessing(b).attempt = b.attempt /\ BeginPreprocessing(b).pages = b.pages
      /\ BeginRunning(b).attempt = b.attempt /\ BeginRunning(b).pages = b.pages
      /\ BeginAssembling(b).attempt = b.attempt /\ BeginAssembling(b).pages = b.pages
  BY DEF BeginPreprocessing, BeginRunning, BeginAssembling, Jobs
<1>3. \A a \in Nat : Succeed(b, a).attempt = b.attempt /\ Succeed(b, a).pages = b.pages
  BY DEF Succeed, Jobs
<1>4. QED
  BY <1>1, <1>2, <1>3

\* What a worker at work knows: its job is in its attempt and is not withdrawn, and the
\* page it works on, if any, is not recognised.
LEMMA SoleKnows ==
  ASSUME IInv, SoleInv, NEW w \in Workers, pc[w] \in AtWork
  PROVE  /\ job \in Jobs /\ snap[w] \in Jobs /\ Latest(w) = job
         /\ job.attempt = msg[w] /\ snap[w].attempt = msg[w] /\ snap[w].pages = job.pages
         /\ job.state \in Begun /\ snap[w].state \in Begun
         /\ NotOvertaken(msg[w]) /\ KeepsPages(job) /\ KeepsPages(snap[w])
         /\ pc[w] \in PageLoop => Unrecognised(job, todo[w])
         /\ pc[w] \in CurrentLabels => CurrentPage(w) \in todo[w]
<1>1. job \in Jobs /\ snap[w] \in Jobs
  BY DEF IInv, TypeOK
<1>2. SoleWorker(pc[w], snap[w], todo[w], pend[w], msg[w])
  BY DEF SoleInv
<1>3. /\ job.attempt = msg[w] /\ snap[w].attempt = msg[w] /\ snap[w].pages = job.pages
      /\ job.state \in Begun /\ snap[w].state \in Begun
  BY <1>2 DEF SoleWorker
<1>4. ~ claimed
  BY <1>3 DEF IInv, DeliveryInv, Terminal, Begun
<1>5. pc[w] \in PageLoop => Unrecognised(job, todo[w])
  BY <1>2, <1>3 DEF SoleWorker, Unrecognised
<1>6. pc[w] \in CurrentLabels => CurrentPage(w) \in todo[w]
  <2>1. pc[w] \in CurrentLabels => todo[w] # {}
    BY DEF IInv, PageInv, HasPages
  <2>2. todo[w] \in SUBSET Nat
    BY DEF IInv, TypeOK, PageNumbers
  <2>3. QED
    BY <2>1, <2>2, MinMember DEF CurrentPage
<1>7. QED
  BY <1>1, <1>3, <1>4, <1>5, <1>6 DEF Latest, NotOvertaken, KeepsPages

\* The worker's answer to a cancellation.
LEMMA SoleCancelled ==
  ASSUME IInv, SoleInv, NEW w \in Workers, NEW l \in Saving, NEW a, CancelRequested(w),
         NotOvertaken(msg[w]), SaveCancelled(w, l), Rest(w, todo[w], a)
  PROVE  SoleInv'
<1>1. job \in Jobs
  BY DEF IInv, TypeOK
<1>2. job.attempt = msg[w]
  BY DEF CancelRequested, NotOvertaken
<1>3. SaveAt(w, l, Cancel(job), "job.cancelled", "done")
  BY DEF SaveCancelled
<1>4. Cancel(job).attempt = msg[w] /\ KeepsPages(Cancel(job))
  BY <1>1, <1>2, SamePages DEF KeepsPages
<1>5. QED
  BY <1>3, <1>4, SoleSave DEF PageLoop

\* OCRWorker._fail.
LEMMA SoleFailed ==
  ASSUME IInv, SoleInv, NEW w \in Workers, NEW l \in Saving, NEW b \in Jobs, NEW a,
         b.attempt = msg[w], b.pages = job.pages, NotOvertaken(msg[w]),
         SaveFailed(w, l, b), Rest(w, todo[w], a)
  PROVE  SoleInv'
<1>1. \/ SaveAt(w, l, Cancel(b), "job.cancelled", "done")
      \/ SaveAt(w, l, Fail(b), "job.failed", "done")
  BY DEF SaveFailed
<1>2. /\ Cancel(b).attempt = msg[w] /\ KeepsPages(Cancel(b))
      /\ Fail(b).attempt = msg[w] /\ KeepsPages(Fail(b))
  BY SamePages DEF KeepsPages
<1>3. QED
  BY <1>1, <1>2, SoleSave DEF PageLoop

\* Replacing an unrecognised page of the row.
LEMMA SolePage ==
  ASSUME IInv, SoleInv, NEW w \in Workers, pc[w] \in CurrentLabels, NEW q \in PageRecords
  PROVE  /\ WithPage(job, CurrentPage(w), q).attempt = msg[w]
         /\ WithPage(job, CurrentPage(w), q).state \in Begun
         /\ KeepsPages(WithPage(job, CurrentPage(w), q))
         /\ q.state # "succeeded" => Unrecognised(WithPage(job, CurrentPage(w), q), todo[w])
         /\ Unrecognised(WithPage(job, CurrentPage(w), q), todo[w] \ {CurrentPage(w)})
<1> DEFINE n == CurrentPage(w)
<1>1. pc[w] \in AtWork /\ pc[w] \in PageLoop /\ pc[w] \in PagedLabels
  BY DEF CurrentLabels, AtWork, PageLoop, PagedLabels
<1>2. /\ job \in Jobs /\ job.pages # NoPages /\ n \in PageNumbers /\ n \in todo[w]
      /\ todo[w] \in SUBSET PageNumbers /\ Unrecognised(job, todo[w])
      /\ job.attempt = msg[w] /\ job.state \in Begun
  BY <1>1, Knows, SoleKnows
<1> HIDE DEF n
<1>3. /\ WithPage(job, n, q).attempt = job.attempt /\ WithPage(job, n, q).state = job.state
      /\ WithPage(job, n, q).pages = [job.pages EXCEPT ![n] = q]
  BY <1>2 DEF WithPage, Jobs
<1>4. job.pages \in [PageNumbers -> PageRecords]
  BY <1>2 DEF Jobs
<1>5. /\ [job.pages EXCEPT ![n] = q][n] = q
      /\ \A m \in PageNumbers \ {n} : [job.pages EXCEPT ![n] = q][m] = job.pages[m]
  BY <1>2, <1>4
<1>6. KeepsPages(WithPage(job, n, q))
  BY <1>2, <1>3, <1>5 DEF KeepsPages, Unrecognised
<1>7. /\ q.state # "succeeded" => Unrecognised(WithPage(job, n, q), todo[w])
      /\ Unrecognised(WithPage(job, n, q), todo[w] \ {n})
  BY <1>2, <1>3, <1>5 DEF Unrecognised
<1>8. QED
  BY <1>2, <1>3, <1>6, <1>7 DEF n

\* The first lookups of process: the attempt is the message's, and either a save starts
\* it or it had begun.
LEMMA SoleLoad ==
  ASSUME IInv, SoleInv, NEW w \in Workers, Load(w)
  PROVE  SoleInv'
<1>1. Rest(w, todo[w], built[w])
  BY RestFrame DEF IInv, Load, Rest
<1>2. job \in Jobs
  BY DEF IInv, TypeOK
<1>3. "save" \in Saving /\ {"done", "repair", "prepare"} \cap (Saving \cup {"conflict"}) = {}
      /\ {"done", "repair", "prepare"} \cap PageLoop = {} /\ {"done", "repair"} \cap AtWork = {}
  BY DEF Saving, PageLoop, AtWork
<1>4. CASE Continue(w, snap[w], "done") \/ Continue(w, job, "repair")
  BY <1>1, <1>3, <1>4, SoleContinue
<1>5. CASE job.attempt = msg[w] /\ SaveFailed(w, "save", job)
  BY <1>1, <1>2, <1>3, <1>5, SoleFailed DEF NotOvertaken
<1>6. CASE /\ job.attempt = msg[w] /\ CanBeginPreprocessing(job)
           /\ SaveThen(w, BeginPreprocessing(job), "job.preprocessing", "prepare")
  <2>1. SaveAt(w, "save", BeginPreprocessing(job), "job.preprocessing", "prepare")
    BY <1>6 DEF SaveThen
  <2>2. BeginPreprocessing(job).attempt = msg[w] /\ KeepsPages(BeginPreprocessing(job))
    BY <1>2, <1>6, SamePages DEF KeepsPages
  <2>3. BeginPreprocessing(job).state \in Begun
    BY <1>2 DEF BeginPreprocessing, Begun, Jobs
  <2>4. NotOvertaken(msg[w])
    BY <1>6 DEF NotOvertaken
  <2>5. QED
    BY <1>1, <1>3, <2>1, <2>2, <2>3, <2>4, SoleSave
<1>7. CASE /\ job.attempt = msg[w] /\ ~ Terminal(job) /\ ~ CanBeginPreprocessing(job)
           /\ Continue(w, job, "prepare")
  <2>1. job.state \in Begun
    BY <1>2, <1>7 DEF Jobs, JobStates, Begun, Terminal, CanBeginPreprocessing
  <2>2. QED
    BY <1>1, <1>3, <1>7, <2>1, SoleContinue
<1>8. QED
  BY <1>4, <1>5, <1>6, <1>7 DEF Load

\* The steps of a worker that has begun, between two saves.
LEMMA SoleSteps ==
  ASSUME IInv, SoleInv, NEW w \in Workers,
         \/ Prepare(w) \/ Check(w) \/ Loop(w) \/ Try(w) \/ EngineReturns(w)
         \/ EngineRaises(w) \/ FailPage(w) \/ FailJob(w) \/ Assemble(w) \/ Recheck(w)
         \/ Finish(w) \/ Except(w)
  PROVE  SoleInv'
<1>0. pc[w] \in AtWork
  BY DEF Prepare, Check, Loop, Try, EngineReturns, EngineRaises, FailPage, FailJob,
         Assemble, Recheck, Finish, Except, AtWork
<1>1. /\ job \in Jobs /\ snap[w] \in Jobs /\ Latest(w) = job
      /\ job.attempt = msg[w] /\ snap[w].attempt = msg[w] /\ snap[w].pages = job.pages
      /\ job.state \in Begun /\ snap[w].state \in Begun
      /\ NotOvertaken(msg[w]) /\ KeepsPages(job) /\ KeepsPages(snap[w])
  BY <1>0, SoleKnows
<1>2. pc[w] \in PageLoop => Unrecognised(job, todo[w]) /\ Unrecognised(snap[w], todo[w])
  BY <1>0, <1>1, SoleKnows DEF Unrecognised
<1>3. /\ {"save", "handlersave"} \subseteq Saving
      /\ {"prepare", "check", "loop", "try", "engine", "pagefail", "jobfail", "assemble",
          "recheck", "finish", "except", "done"} \cap (Saving \cup {"conflict"}) = {}
      /\ {"prepare", "check", "jobfail", "assemble", "recheck", "finish", "except", "done"}
           \cap PageLoop = {}
      /\ "done" \notin AtWork
  BY DEF Saving, PageLoop, AtWork
<1>4. UNCHANGED <<todo, built>> /\ UNCHANGED <<rowVars, partitionVars, msg, rec, apiVars, boundVars>>
        => Rest(w, todo[w], built[w])
  BY RestFrame DEF IInv, Rest
<1>5. ASSUME NEW l, l \notin Saving \cup {"conflict"} \cup PageLoop,
             Continue(w, snap[w], l) \/ Continue(w, job, l), NEW t, NEW a, Rest(w, t, a)
      PROVE  SoleInv'
  BY <1>1, <1>5, SoleContinue
<1>6. ASSUME NEW l \in Saving, CancelRequested(w) /\ SaveCancelled(w, l), NEW a,
             Rest(w, todo[w], a)
      PROVE  SoleInv'
  BY <1>1, <1>6, SoleCancelled
<1>7. CASE Prepare(w)
  <2>1. Rest(w, todo[w], built[w])
    BY <1>4, <1>7 DEF Prepare
  <2>2. CASE Continue(w, snap[w], "check") \/ Continue(w, snap[w], "except")
    BY <1>3, <1>5, <2>1, <2>2
  <2>3. CASE /\ snap[w].pages = NoPages
             /\ SaveThen(w, SetPages(snap[w]), "job.pages_prepared", "check")
    <3>1. SetPages(snap[w]).attempt = snap[w].attempt /\ SetPages(snap[w]).state = snap[w].state
      BY <1>1 DEF SetPages, Jobs
    <3>2. KeepsPages(SetPages(snap[w]))
      BY <1>1, <2>3 DEF KeepsPages
    <3>3. QED
      BY <1>1, <1>3, <2>1, <2>3, <3>1, <3>2, SoleSave DEF SaveThen
  <2>4. QED
    BY <1>7, <2>2, <2>3 DEF Prepare
<1>8. CASE Check(w)
  <2> DEFINE t == IncompletePages(snap[w])
  <2>1. CASE CancelRequested(w) /\ SaveCancelled(w, "save") /\ UNCHANGED todo
    <3>1. Rest(w, todo[w], built[w])
      BY <1>4, <1>8, <2>1 DEF Check
    <3>2. QED
      BY <1>3, <1>6, <2>1, <3>1
  <2>2. Unrecognised(snap[w], t) /\ Unrecognised(BeginRunning(snap[w]), t)
    BY <1>1, SamePages DEF Unrecognised, IncompletePages
  <2>3. todo' = [todo EXCEPT ![w] = t] => Rest(w, t, built[w])
    BY <1>8, RestFrame DEF IInv, Check, Rest
  <2> HIDE DEF t
  <2>4. CASE /\ todo' = [todo EXCEPT ![w] = t]
             /\ SaveThen(w, BeginRunning(snap[w]), "job.running", "loop")
    <3>1. BeginRunning(snap[w]).attempt = msg[w] /\ BeginRunning(snap[w]).pages = job.pages
      BY <1>1, SamePages
    <3>2. BeginRunning(snap[w]).state \in Begun
      BY <1>1 DEF BeginRunning, Begun, Jobs
    <3>3. KeepsPages(BeginRunning(snap[w]))
      BY <3>1 DEF KeepsPages
    <3>4. QED
      BY <1>1, <1>3, <2>2, <2>3, <2>4, <3>1, <3>2, <3>3, SoleSave DEF SaveThen
  <2>5. CASE /\ todo' = [todo EXCEPT ![w] = t]
             /\ Continue(w, snap[w], "assemble") \/ Continue(w, snap[w], "except")
    BY <1>3, <1>5, <2>3, <2>5
  <2>6. CASE todo' = [todo EXCEPT ![w] = t] /\ Continue(w, snap[w], "loop")
    BY <1>1, <1>3, <2>2, <2>3, <2>6, SoleContinue
  <2>7. QED
    BY <1>8, <2>1, <2>4, <2>5, <2>6 DEF Check, t
<1>9. CASE Loop(w)
  <2>1. Rest(w, todo[w], built[w]) /\ pc[w] \in PageLoop
    BY <1>4, <1>9 DEF Loop, PageLoop
  <2>2. CASE CancelRequested(w) /\ SaveCancelled(w, "save")
    BY <1>3, <1>6, <2>1, <2>2
  <2>3. CASE Continue(w, Latest(w), "try")
    BY <1>1, <1>2, <1>3, <2>1, <2>3, SoleContinue
  <2>4. CASE Continue(w, Latest(w), "except") \/ Continue(w, snap[w], "except")
    BY <1>1, <1>3, <1>5, <2>1, <2>4
  <2>5. CASE SaveThen(w, BeginAssembling(snap[w]), "job.assembling", "assemble")
    <3>1. BeginAssembling(snap[w]).attempt = msg[w] /\ BeginAssembling(snap[w]).pages = job.pages
      BY <1>1, SamePages
    <3>2. BeginAssembling(snap[w]).state \in Begun
      BY <1>1 DEF BeginAssembling, Begun, Jobs
    <3>3. KeepsPages(BeginAssembling(snap[w]))
      BY <3>1 DEF KeepsPages
    <3>4. QED
      BY <1>1, <1>3, <2>1, <2>5, <3>1, <3>2, <3>3, SoleSave DEF SaveThen
  <2>6. QED
    BY <1>9, <2>2, <2>3, <2>4, <2>5 DEF Loop
<1>10. pc[w] \in CurrentLabels => job.pages[CurrentPage(w)] \in PageRecords
  <2>1. pc[w] \in CurrentLabels => CurrentPage(w) \in PageNumbers /\ job.pages # NoPages
    BY Knows DEF CurrentLabels, PagedLabels
  <2>2. QED
    BY <1>1, <2>1 DEF Jobs
<1>11. CASE Try(w)
  <2> DEFINE q == PageStart(job.pages[CurrentPage(w)])
             k == WithPage(job, CurrentPage(w), q)
  <2>1. Rest(w, todo[w], built[w]) /\ pc[w] \in PageLoop /\ pc[w] \in CurrentLabels
    BY <1>4, <1>11 DEF Try, PageLoop, CurrentLabels
  <2>2. \/ CancelRequested(w) /\ SaveCancelled(w, "save")
        \/ Continue(w, job, "pagefail")
        \/ SaveAt(w, "save", k, "page.running", "engine")
    BY <1>1, <1>11 DEF Try, SaveThen
  <2>3. q \in PageRecords
    BY <1>10, <2>1, PageType
  <2>4. q.state # "succeeded"
    <3>1. job.pages[CurrentPage(w)].state # "succeeded"
      BY <1>0, <1>2, <2>1, SoleKnows DEF Unrecognised
    <3>2. QED
      BY <3>1 DEF PageStart
  <2>5. k.attempt = msg[w] /\ k.state \in Begun /\ KeepsPages(k) /\ Unrecognised(k, todo[w])
    BY <2>1, <2>3, <2>4, SolePage
  <2> HIDE DEF q, k
  <2>6. CASE CancelRequested(w) /\ SaveCancelled(w, "save")
    BY <1>3, <1>6, <2>1, <2>6
  <2>7. CASE Continue(w, job, "pagefail")
    BY <1>1, <1>2, <1>3, <2>1, <2>7, SoleContinue
  <2>8. CASE SaveAt(w, "save", k, "page.running", "engine")
    BY <1>1, <1>3, <2>1, <2>5, <2>8, SoleSave
  <2>9. QED
    BY <2>2, <2>6, <2>7, <2>8
<1>12. CASE EngineReturns(w)
  <2> DEFINE n == CurrentPage(w)
             q == PageSucceed(job.pages[n])
             k == WithPage(job, n, q)
             next == IF job.state \in {"failed", "cancelled"} THEN "done" ELSE "loop"
             t == todo[w] \ {n}
  <2>1. pc[w] \in PageLoop /\ pc[w] \in CurrentLabels
    BY <1>12 DEF EngineReturns, PageLoop, CurrentLabels
  <2>2. \/ CancelRequested(w) /\ SaveCancelled(w, "save") /\ UNCHANGED todo
        \/ /\ SaveAt(w, "save", k, "page.succeeded", next)
           /\ todo' = [todo EXCEPT ![w] = t]
        \/ Continue(w, snap[w], "pagefail") /\ UNCHANGED todo
    BY <1>1, <1>12 DEF EngineReturns, SaveThen
  <2>3. q \in PageRecords
    BY <1>10, <2>1, PageType
  <2>4. k.attempt = msg[w] /\ k.state \in Begun /\ KeepsPages(k) /\ Unrecognised(k, t)
    BY <2>1, <2>3, SolePage
  <2>5. UNCHANGED todo => Rest(w, todo[w], built[w])
    BY <1>4, <1>12 DEF EngineReturns
  <2>6. todo' = [todo EXCEPT ![w] = t] => Rest(w, t, built[w])
    BY <1>12, RestFrame DEF IInv, EngineReturns, Rest
  <2> HIDE DEF n, q, k, next, t
  <2>7. CASE CancelRequested(w) /\ SaveCancelled(w, "save") /\ UNCHANGED todo
    BY <1>3, <1>6, <2>5, <2>7
  <2>8. CASE Continue(w, snap[w], "pagefail") /\ UNCHANGED todo
    BY <1>1, <1>2, <1>3, <2>1, <2>5, <2>8, SoleContinue
  <2>9. CASE /\ SaveAt(w, "save", k, "page.succeeded", next)
             /\ todo' = [todo EXCEPT ![w] = t]
    BY <1>1, <1>3, <2>4, <2>6, <2>9, SoleSave
  <2>10. QED
    BY <2>2, <2>7, <2>8, <2>9
<1>13. CASE EngineRaises(w)
  <2>1. Rest(w, todo[w], built[w]) /\ pc[w] \in PageLoop
    BY <1>4, <1>13 DEF EngineRaises, PageLoop
  <2>2. CASE SaveThen(w, snap[w], "page.retry_scheduled", "try")
    BY <1>1, <1>2, <1>3, <2>1, <2>2, SoleSave DEF SaveThen
  <2>3. CASE Continue(w, snap[w], "pagefail")
    BY <1>1, <1>2, <1>3, <2>1, <2>3, SoleContinue
  <2>4. QED
    BY <1>13, <2>2, <2>3 DEF EngineRaises
<1>14. CASE FailPage(w)
  <2> DEFINE q == PageFail(job.pages[CurrentPage(w)])
             k == WithPage(job, CurrentPage(w), q)
  <2>1. Rest(w, todo[w], built[w]) /\ pc[w] \in CurrentLabels
    BY <1>4, <1>14 DEF FailPage, CurrentLabels
  <2>2. SaveAt(w, "save", k, "page.failed", "jobfail")
    BY <1>1, <1>14 DEF FailPage, SaveThen
  <2>3. q \in PageRecords
    BY <1>10, <2>1, PageType
  <2>4. k.attempt = msg[w] /\ k.state \in Begun /\ KeepsPages(k)
    BY <2>1, <2>3, SolePage
  <2> HIDE DEF q, k
  <2>5. QED
    BY <1>1, <1>3, <2>1, <2>2, <2>4, SoleSave
<1>15. CASE FailJob(w)
  <2>1. Rest(w, todo[w], built[w])
    BY <1>4, <1>15 DEF FailJob
  <2>2. CASE SaveFailed(w, "save", snap[w])
    BY <1>1, <1>3, <2>1, <2>2, SoleFailed
  <2>3. CASE Continue(w, snap[w], "except")
    BY <1>3, <1>5, <2>1, <2>3
  <2>4. QED
    BY <1>15, <2>2, <2>3 DEF FailJob
<1>16. CASE Assemble(w)
  <2>1. PICK a : Rest(w, todo[w], a)
    BY <1>16, RestFrame DEF IInv, Assemble, Rest
  <2>2. Continue(w, snap[w], "recheck") \/ Continue(w, snap[w], "except")
    BY <1>16 DEF Assemble
  <2>3. QED
    BY <1>3, <1>5, <2>1, <2>2
<1>17. CASE Recheck(w)
  <2>1. Rest(w, todo[w], built[w])
    BY <1>4, <1>17 DEF Recheck
  <2>2. CASE CancelRequested(w) /\ SaveCancelled(w, "save")
    BY <1>3, <1>6, <2>1, <2>2
  <2>3. CASE Continue(w, snap[w], "finish")
    BY <1>3, <1>5, <2>1, <2>3
  <2>4. QED
    BY <1>17, <2>2, <2>3 DEF Recheck
<1>18. CASE Finish(w)
  <2>1. Rest(w, todo[w], built[w]) /\ built[w] \in Nat
    BY <1>4, <1>18 DEF Finish, IInv, TypeOK
  <2>2. CASE SaveThen(w, Succeed(job, built[w]), "job.succeeded", "done")
    <3>1. Succeed(job, built[w]).attempt = msg[w] /\ KeepsPages(Succeed(job, built[w]))
      BY <1>1, <2>1, SamePages DEF KeepsPages
    <3>2. QED
      BY <1>1, <1>3, <2>1, <2>2, <3>1, SoleSave DEF SaveThen
  <2>3. CASE Continue(w, job, "except")
    BY <1>3, <1>5, <2>1, <2>3
  <2>4. QED
    BY <1>1, <1>18, <2>2, <2>3 DEF Finish
<1>19. CASE Except(w)
  <2>1. Rest(w, todo[w], built[w])
    BY <1>4, <1>19 DEF Except
  <2>2. CASE CancelRequested(w) /\ SaveCancelled(w, "handlersave")
    BY <1>3, <1>6, <2>1, <2>2
  <2>3. CASE Continue(w, job, "done")
    BY <1>3, <1>5, <2>1, <2>3
  <2>4. CASE SaveFailed(w, "handlersave", job)
    BY <1>1, <1>3, <2>1, <2>4, SoleFailed
  <2>5. QED
    BY <1>1, <1>19, <2>2, <2>3, <2>4 DEF Except
<1>20. QED
  BY <1>7, <1>8, <1>9, <1>11, <1>12, <1>13, <1>14, <1>15, <1>16, <1>17, <1>18, <1>19

\* A label outside process() and the handlers asks for nothing.
LEMMA SoleElsewhere ==
  \A l \in {"idle", "load", "repair", "done"} : \A j, t, p, m : SoleWorker(l, j, t, p, m)
BY DEF SoleWorker, AtWork, PageLoop, Saving

\* The API and the dispatcher leave the workers as they are.
LEMMA SoleWorkersSame ==
  ASSUME SoleInv, UNCHANGED <<job, pc, snap, todo, pend, msg>>
  PROVE  \A w \in Workers : SoleWorker(pc[w], snap[w], todo[w], pend[w], msg[w])'
BY DEF SoleInv, SoleWorker, KeepsPages, Unrecognised, NotOvertaken

\* Steps that change neither the row nor a worker nor a request.
LEMMA SoleIdle ==
  ASSUME SoleInv, UNCHANGED <<job, pc, snap, todo, pend, msg, apc, aop, asnap>>
  PROVE  SoleInv'
BY SoleWorkersSame DEF SoleInv, Asked

\* The transaction of a worker's save: the row is what the worker has, and nobody else
\* is at work.
LEMMA SoleWrite ==
  ASSUME IInv, SoleInv, Exclusive, NEW w \in Workers, pc[w] \in Saving, Saveable(snap[w]),
         SaveWithEvent(snap[w], pend[w].event), snap' = [snap EXCEPT ![w] = Saved(@)],
         pend' = [pend EXCEPT ![w] = NoSave], Goto(w, pend[w].next),
         UNCHANGED <<todo, msg, apc, aop, asnap>>
  PROVE  SoleInv'
<1>1. /\ snap[w] \in Jobs /\ job \in Jobs /\ job' = Saved(snap[w])
      /\ snap[w].revision = job.revision /\ pend[w].next \in Resumptions
  BY DEF IInv, TypeOK, SaveWithEvent, Saveable, PageInv, HasPages
<1>2. /\ job'.attempt = snap[w].attempt /\ job'.pages = snap[w].pages
      /\ job'.state = snap[w].state /\ job'.revision = job.revision + 1
  BY <1>1 DEF Saved, Jobs
<1>3. /\ pc'[w] = pend[w].next /\ snap'[w] = job'
      /\ \A v \in Workers \ {w} : pc'[v] = pc[v]
  BY <1>1 DEF IInv, TypeOK, Goto
<1>4. SoleWorker(pc[w], snap[w], todo[w], pend[w], msg[w])
  BY DEF SoleInv
<1>5. SoleWorker(pc[w], snap[w], todo[w], pend[w], msg[w])'
  <2>1. CASE pend[w].next = "done"
    BY <1>3, <2>1 DEF SoleWorker, AtWork, PageLoop, Saving
  <2>2. CASE pend[w].next # "done"
    <3>1. /\ job'.attempt = msg[w] /\ job'.state \in Begun
          /\ pend[w].next \in PageLoop => Unrecognised(job', todo[w])
      BY <1>2, <1>4, <2>2 DEF SoleWorker, Unrecognised
    <3>2. pend[w].next \notin Saving \cup {"conflict"}
      BY <1>1 DEF Resumptions, Saving
    <3>3. QED
      BY <1>3, <3>1, <3>2 DEF SoleWorker, Unrecognised
  <2>3. QED
    BY <2>1, <2>2
<1>6. ASSUME NEW v \in Workers \ {w}
      PROVE  SoleWorker(pc[v], snap[v], todo[v], pend[v], msg[v])'
  <2>1. pc[v] = "idle"
    BY DEF Exclusive, Saving
  <2>2. QED
    BY <1>3, <2>1 DEF SoleWorker, AtWork, PageLoop, Saving
<1>7. ASSUME NEW c \in Clients, apc'[c] = "save" PROVE asnap'[c].revision # job'.revision
  <2>1. asnap[c].revision <= job.revision
    BY <1>7 DEF IInv, SnapshotInv
  <2>2. asnap[c].revision \in Nat /\ job.revision \in Nat
    BY DEF IInv, TypeOK, Jobs
  <2>3. QED
    BY <1>2, <2>1, <2>2
<1>8. QED
  BY <1>5, <1>6, <1>7 DEF SoleInv

\* The process ends.
LEMMA SoleExit ==
  ASSUME IInv, SoleInv, NEW w \in Workers, Exit(w), UNCHANGED <<job, apc, aop, asnap>>
  PROVE  SoleInv'
BY SoleElsewhere, SoleQuiet DEF Exit, Goto

\* The remaining steps of a worker: fetch, repair, the writes, conflict and commit.
LEMMA SoleOtherSteps ==
  ASSUME IInv, SoleInv, Exclusive, NEW w \in Workers,
         Fetch(w) \/ Repair(w) \/ Save(w) \/ Conflict(w) \/ HandlerSave(w) \/ Commit(w)
  PROVE  SoleInv'
<1>1. /\ pend = [pend EXCEPT ![w] = pend[w]] /\ snap = [snap EXCEPT ![w] = snap[w]]
      /\ todo = [todo EXCEPT ![w] = todo[w]]
  BY RestFrame DEF IInv
<1>2. pc[w] \in Saving \cup {"conflict"} => NotOvertaken(msg[w])
  BY DEF SoleInv, SoleWorker
<1>3. CASE Fetch(w)
  <2>1. /\ pc'[w] = "load" /\ UNCHANGED <<job, snap, todo, pend, apc, aop, asnap>>
        /\ \A v \in Workers \ {w} : pc'[v] = pc[v] /\ msg'[v] = msg[v]
    BY <1>3 DEF Fetch, Goto, rowVars, apiVars, IInv, TypeOK
  <2>2. SoleWorker(pc[w], snap[w], todo[w], pend[w], msg[w])'
    BY <2>1 DEF SoleWorker, AtWork, PageLoop, Saving
  <2>3. ASSUME NEW v \in Workers \ {w}
        PROVE  SoleWorker(pc[v], snap[v], todo[v], pend[v], msg[v])'
    BY <2>1 DEF SoleInv, SoleWorker, KeepsPages, Unrecognised, NotOvertaken
  <2>4. QED
    BY <2>1, <2>2, <2>3 DEF SoleInv, Asked
<1>4. CASE Repair(w)
  <2>1. /\ pc' = [pc EXCEPT ![w] = "done"]
        /\ UNCHANGED <<job, msg, snap, todo, pend, apc, aop, asnap>>
    BY <1>4 DEF Repair, Goto, apiVars
  <2>2. QED
    BY <1>1, <2>1, SoleElsewhere, SoleQuiet
<1>5. CASE Save(w)
  <2>1. /\ pc[w] \in Saving /\ pend' = [pend EXCEPT ![w] = NoSave]
        /\ UNCHANGED <<msg, todo, apc, aop, asnap>>
    BY <1>5 DEF Save, Saving, apiVars
  <2>2. CASE /\ Saveable(snap[w]) /\ SaveWithEvent(snap[w], pend[w].event)
             /\ snap' = [snap EXCEPT ![w] = Saved(@)] /\ Goto(w, pend[w].next)
    BY <2>1, <2>2, SoleWrite
  <2>3. CASE Goto(w, "conflict") /\ UNCHANGED <<job, snap>>
    <3>1. SoleWorker("conflict", snap[w], todo[w], NoSave, msg[w])
      BY <1>2, <2>1 DEF SoleWorker, AtWork, PageLoop, Saving
    <3>2. QED
      BY <1>1, <2>1, <2>3, <3>1, SoleQuiet DEF Goto
  <2>4. QED
    BY <1>5, <2>2, <2>3 DEF Save
<1>6. CASE Conflict(w)
  <2>1. UNCHANGED <<job, apc, aop, asnap>> /\ pc[w] = "conflict"
    BY <1>6 DEF Conflict, rowVars, apiVars
  <2>2. UNCHANGED <<position, owner, todo, built>> => Rest(w, todo[w], built[w])
    BY <1>6, RestFrame DEF Conflict, IInv, Rest, partitionVars
  <2>3. CASE /\ CancelRequested(w) /\ SaveCancelled(w, "handlersave")
             /\ UNCHANGED <<position, owner, todo, built>>
    BY <1>2, <2>1, <2>2, <2>3, SoleCancelled DEF Saving
  <2>4. CASE Continue(w, snap[w], "done") /\ UNCHANGED <<position, owner, todo, built>>
    BY <2>2, <2>4, SoleContinue DEF Saving, AtWork, PageLoop
  <2>5. CASE Exit(w)
    BY <2>1, <2>5, SoleExit
  <2>6. QED
    BY <1>6, <2>3, <2>4, <2>5 DEF Conflict
<1>7. CASE HandlerSave(w)
  <2>1. pc[w] \in Saving /\ UNCHANGED <<msg, apc, aop, asnap>>
    BY <1>7 DEF HandlerSave, Saving, apiVars
  <2>2. CASE /\ Saveable(snap[w]) /\ SaveWithEvent(snap[w], pend[w].event)
             /\ snap' = [snap EXCEPT ![w] = Saved(@)] /\ Goto(w, pend[w].next)
             /\ pend' = [pend EXCEPT ![w] = NoSave] /\ UNCHANGED todo
    BY <2>1, <2>2, SoleWrite
  <2>3. CASE Exit(w) /\ UNCHANGED job
    BY <2>1, <2>3, SoleExit
  <2>4. QED
    BY <1>7, <2>2, <2>3 DEF HandlerSave
<1>8. CASE Commit(w)
  <2>1. UNCHANGED <<job, apc, aop, asnap>>
    BY <1>8 DEF Commit, rowVars, apiVars
  <2>2. CASE /\ Goto(w, "idle") /\ snap' = [snap EXCEPT ![w] = NewJob]
             /\ todo' = [todo EXCEPT ![w] = {}] /\ UNCHANGED <<pend, msg>>
    BY <1>1, <2>1, <2>2, SoleElsewhere, SoleQuiet DEF Goto
  <2>3. CASE Exit(w)
    BY <2>1, <2>3, SoleExit
  <2>4. QED
    BY <1>8, <2>2, <2>3 DEF Commit
<1>9. QED
  BY <1>3, <1>4, <1>5, <1>6, <1>7, <1>8

\* What a request holds to save is what it made of the row it read.
LEMMA SoleRead ==
  ASSUME IInv, SoleInv, NEW c \in Clients,
         CancelRead(c) \/ RetryRead(c) \/ \E op \in {"cancel", "retry"} : Request(c, op)
  PROVE  SoleInv'
<1>1. UNCHANGED <<job, pc, snap, todo, pend, msg>>
  BY DEF CancelRead, RetryRead, Request, rowVars, taskVars
<1>2. ASSUME NEW d \in Clients, d # c
      PROVE  apc'[d] = apc[d] /\ aop'[d] = aop[d] /\ asnap'[d] = asnap[d]
  BY <1>2 DEF CancelRead, RetryRead, Request, Respond, IInv, TypeOK
<1>3. apc'[c] = "save" => asnap'[c] = Asked(aop[c])'
  <2>1. CASE CancelRead(c)
    <3>1. aop' = aop /\ aop[c] = "cancel"
      BY <2>1 DEF CancelRead
    <3>2. \/ asnap' = [asnap EXCEPT ![c] =
               IF job.state \in {"queued", "retrying"} THEN Cancel(RequestCancel(job))
               ELSE RequestCancel(job)]
          \/ apc' = [apc EXCEPT ![c] = "idle"]
      BY <2>1 DEF CancelRead, Respond
    <3>3. QED
      BY <1>1, <3>1, <3>2 DEF Asked, IInv, TypeOK
  <2>2. CASE RetryRead(c)
    <3>1. aop' = aop /\ aop[c] = "retry"
      BY <2>2 DEF RetryRead
    <3>2. \/ asnap' = [asnap EXCEPT ![c] = Retry(job)]
          \/ apc' = [apc EXCEPT ![c] = "idle"]
      BY <2>2 DEF RetryRead, Respond
    <3>3. QED
      BY <1>1, <3>1, <3>2 DEF Asked, IInv, TypeOK
  <2>3. CASE \E op \in {"cancel", "retry"} : Request(c, op)
    BY <2>3 DEF Request, IInv, TypeOK
  <2>4. QED
    BY <2>1, <2>2, <2>3
<1>4. ASSUME NEW d \in Clients, apc'[d] = "save", asnap'[d].revision = job'.revision
      PROVE  asnap'[d] = Asked(aop[d])'
  <2>1. CASE d = c
    BY <1>3, <1>4, <2>1
  <2>2. CASE d # c
    BY <1>1, <1>2, <1>4, <2>2 DEF SoleInv, Asked
  <2>3. QED
    BY <2>1, <2>2
<1>5. QED
  BY <1>1, <1>4, SoleWorkersSame DEF SoleInv

\* cancel_job and retry_job leave an attempt that has begun to its worker, and only they
\* replace one that has not.
LEMMA SoleApi ==
  ASSUME IInv, SoleInv, NEW c \in Clients, ApiSave(c)
  PROVE  SoleInv'
<1>1. /\ UNCHANGED <<pc, snap, todo, pend, msg, aop>> /\ apc'[c] # "save"
      /\ \A d \in Clients \ {c} : apc'[d] = apc[d] /\ asnap'[d] = asnap[d]
  BY DEF ApiSave, Respond, taskVars, IInv, TypeOK
<1>2. CASE UNCHANGED job
  <2>1. \A w \in Workers : SoleWorker(pc[w], snap[w], todo[w], pend[w], msg[w])'
    BY <1>1, <1>2, SoleWorkersSame
  <2>2. QED
    BY <1>1, <1>2, <2>1 DEF SoleInv, Asked
<1>3. CASE Saveable(asnap[c]) /\ job' = Saved(asnap[c])
  <2>1. /\ job \in Jobs /\ asnap[c] \in Jobs /\ asnap[c].revision = job.revision
        /\ asnap[c] = Asked(aop[c])
    BY <1>3 DEF ApiSave, IInv, TypeOK, Saveable, SoleInv
  <2>2. /\ job'.attempt = asnap[c].attempt /\ job'.pages = asnap[c].pages
        /\ job'.state = asnap[c].state /\ job'.revision = job.revision + 1
    BY <1>3, <2>1 DEF Saved, Jobs
  <2>3. \/ aop[c] = "cancel" /\ CanRequestCancel(job)
        \/ aop[c] = "retry" /\ CanRetry(job)
    BY <1>3 DEF ApiSave, IInv, SnapshotInv, Saveable
  <2>4. job.state \in Begun => /\ job'.state = "cancel_requested"
                               /\ job'.attempt = job.attempt /\ job'.pages = job.pages
    <3>1. job.state \in Begun => asnap[c] = RequestCancel(job)
      BY <2>1, <2>3 DEF Asked, Begun, CanRetry
    <3>2. RequestCancel(job).state = "cancel_requested"
      BY <2>1 DEF RequestCancel, Jobs
    <3>3. QED
      BY <2>1, <2>2, <3>1, <3>2, SamePages
  <2>5. \/ job'.attempt = job.attempt /\ ~ CanRetry(job)
        \/ job'.attempt = job.attempt + 1 /\ job'.state = "retrying"
    BY <1>3, <2>2 DEF ApiSave, IInv, SnapshotInv, Saveable, CanRetry, CanRequestCancel
  <2>6. job.state \in {"queued", "retrying"} => job'.state = "cancelled"
    <3>1. job.state \in {"queued", "retrying"} => asnap[c] = Cancel(RequestCancel(job))
      BY <2>1, <2>3 DEF Asked, CanRetry
    <3>2. \A b \in Jobs : Cancel(b).state = "cancelled"
      BY DEF Cancel, Jobs
    <3>3. RequestCancel(job) \in Jobs
      BY <2>1, JobType
    <3>4. Cancel(RequestCancel(job)).state = "cancelled"
      BY <3>2, <3>3
    <3>5. QED
      BY <2>2, <3>1, <3>4
  <2>7. ASSUME NEW w \in Workers
        PROVE  SoleWorker(pc[w], snap[w], todo[w], pend[w], msg[w])'
    <3>1. SoleWorker(pc[w], snap[w], todo[w], pend[w], msg[w])
      BY DEF SoleInv
    <3>2. snap[w].revision # job'.revision
      <4>1. snap[w].revision <= job.revision /\ snap[w].revision \in Nat /\ job.revision \in Nat
        BY DEF IInv, SnapshotInv, FromRow, TypeOK, Jobs
      <4>2. QED
        BY <2>2, <4>1
    <3>3. pc[w] \in AtWork => /\ job'.attempt = msg[w] /\ snap[w].attempt = msg[w]
                              /\ snap[w].pages = job'.pages
                              /\ job'.state \in Begun /\ snap[w].state \in Begun
      BY <2>4, <3>1 DEF SoleWorker, Begun
    <3>4. job.attempt \in Nat /\ msg[w] \in Nat
      BY <2>1 DEF Jobs, IInv, TypeOK
    <3>5. NotOvertaken(msg[w]) => NotOvertaken(msg[w])'
      <4>1. CASE job.attempt = msg[w]
        BY <1>1, <2>5, <3>4, <4>1 DEF NotOvertaken
      <4>2. CASE job.attempt > msg[w] /\ job.state = "retrying"
        BY <1>1, <2>5, <2>6, <3>4, <4>2 DEF NotOvertaken
      <4>3. CASE job.attempt > msg[w] /\ job.state = "cancelled"
        BY <1>1, <2>5, <3>4, <4>3 DEF NotOvertaken, CanRetry
      <4>4. QED
        BY <4>1, <4>2, <4>3 DEF NotOvertaken
    <3>6. QED
      BY <1>1, <3>1, <3>2, <3>3, <3>5 DEF SoleWorker, Unrecognised
  <2>8. ASSUME NEW d \in Clients, apc'[d] = "save" PROVE asnap'[d].revision # job'.revision
    <3>1. d # c /\ asnap'[d] = asnap[d] /\ apc[d] = "save"
      BY <1>1, <2>8
    <3>2. asnap[d].revision <= job.revision /\ asnap[d].revision \in Nat /\ job.revision \in Nat
      BY <3>1 DEF IInv, SnapshotInv, TypeOK, Jobs
    <3>3. QED
      BY <2>2, <3>1, <3>2
  <2>9. QED
    BY <2>7, <2>8 DEF SoleInv
<1>4. QED
  BY <1>2, <1>3 DEF ApiSave, SaveWithEvent

\* Every step keeps it: one case per action of Next.
LEMMA NextSole == IInv /\ SoleInv /\ Exclusive /\ [Next]_vars => SoleInv'
<1> SUFFICES ASSUME IInv, SoleInv, Exclusive, [Next]_vars PROVE SoleInv'
  OBVIOUS
<1>1. ASSUME NEW w \in Workers, WorkerStep(w) PROVE SoleInv'
  BY <1>1, SoleLoad, SoleSteps, SoleOtherSteps DEF WorkerStep
<1>2. ASSUME NEW w \in Workers, Crash(w) PROVE SoleInv'
  BY <1>2, SoleExit DEF Crash, rowVars, apiVars
<1>3. ASSUME NEW c \in Clients,
             CancelRead(c) \/ RetryRead(c) \/ \E op \in {"cancel", "retry"} : Request(c, op)
      PROVE  SoleInv'
  BY <1>3, SoleRead
<1>4. ASSUME NEW c \in Clients, ApiSave(c) PROVE SoleInv'
  BY <1>4, SoleApi
<1>5. CASE Rebalance \/ Dispatch \/ DispatcherFails \/ RetentionClaim \/ UNCHANGED vars
  BY <1>5, SoleIdle DEF Rebalance, Dispatch, Publish, MarkPublished, DispatcherFails,
                        RetentionClaim, vars, rowVars, taskVars, apiVars
<1>6. QED
  BY <1>1, <1>2, <1>3, <1>4, <1>5 DEF Next

\* No worker has begun anything when the job is created.
LEMMA InitSole == Init => SoleInv
BY DEF Init, SoleInv, SoleWorker, AtWork, PageLoop, Saving

\* As long as process() runs in one worker at a time, SoleInv holds.
THEOREM SoleHolds == Spec /\ []Exclusive => []SoleInv
BY InitSole, NextSole, Inductive, PTL DEF Spec

\* A message of an old attempt never writes over a newer one: retry_job can replace an
\* attempt under the worker only before the worker has begun it, and then the worker's
\* save still carries the message's attempt and the revision check refuses it.
THEOREM StaleAttemptSafe == Spec /\ []Exclusive => []StaleAttemptUntouched
<1>1. SoleInv => StaleAttemptUntouched
  BY DEF SoleInv, SoleWorker, StaleAttemptUntouched, Saving
<1>2. QED
  BY <1>1, SoleHolds, PTL

\* The engine is never asked for a page whose result is stored: the page loop visits
\* the pages the checkpoint lacks, and nobody else stores one meanwhile.
THEOREM PagesRecognisedOnce == Spec /\ []Exclusive => []NoReprocessing
<1>1. IInv /\ SoleInv => NoReprocessing
  <2> SUFFICES ASSUME IInv, SoleInv, NEW w \in Workers, pc[w] = "engine"
               PROVE  job.pages[CurrentPage(w)].state # "succeeded"
    BY DEF NoReprocessing
  <2>1. CurrentPage(w) \in todo[w]
    BY SoleKnows DEF CurrentLabels, AtWork
  <2>2. snap[w].pages = job.pages /\ Unrecognised(snap[w], todo[w])
    BY DEF SoleInv, SoleWorker, AtWork, PageLoop
  <2>3. QED
    BY <2>1, <2>2 DEF Unrecognised
<1>2. QED
  BY <1>1, SoleHolds, Inductive, PTL

\* cancel_job and retry_job keep the recognised pages of the row.
LEMMA AskedPages ==
  ASSUME job \in Jobs, NEW op, NEW n \in PageNumbers,
         job.pages # NoPages, job.pages[n].state = "succeeded"
  PROVE  Asked(op).pages[n] = job.pages[n]
<1>1. Retry(job).pages[n] = job.pages[n]
  BY DEF Retry, PagePrepareRetry
<1>2. RequestCancel(job).pages = job.pages /\ Cancel(RequestCancel(job)).pages = job.pages
  BY SamePages, JobType
<1>3. QED
  BY <1>1, <1>2 DEF Asked

\* A page once recognised stays recognised, over crashes, redelivery, cancellation and
\* retry_job: whoever saves the row saves its pages too, and had them all when it saved.
THEOREM PagesKept == Spec /\ []Exclusive => PageCheckpointed
<1> DEFINE Kept ==
      \A n \in PageNumbers :
        job.pages # NoPages /\ job.pages[n].state = "succeeded"
          => job'.pages[n] = job.pages[n]
<1>1. IInv /\ SoleInv /\ [Next]_vars => [Kept]_job
  <2> SUFFICES ASSUME IInv, SoleInv, [Next]_vars, NEW n \in PageNumbers,
                      job.pages # NoPages, job.pages[n].state = "succeeded"
               PROVE  job'.pages[n] = job.pages[n]
    OBVIOUS
  <2>1. job \in Jobs /\ \A j \in Jobs : Saved(j).pages = j.pages
    BY DEF IInv, TypeOK, Saved, Jobs
  <2>2. ASSUME NEW w \in Workers, pc[w] \in Saving, Saveable(snap[w]), job' = Saved(snap[w])
        PROVE  job'.pages[n] = job.pages[n]
    <3>1. snap[w] \in Jobs /\ KeepsPages(snap[w])
      BY <2>2 DEF IInv, TypeOK, SoleInv, SoleWorker, Saveable
    <3>2. QED
      BY <2>1, <2>2, <3>1 DEF KeepsPages
  <2>3. ASSUME NEW c \in Clients, apc[c] = "save", Saveable(asnap[c]), job' = Saved(asnap[c])
        PROVE  job'.pages[n] = job.pages[n]
    <3>1. asnap[c] \in Jobs /\ asnap[c] = Asked(aop[c])
      BY <2>3 DEF IInv, TypeOK, SoleInv, Saveable
    <3>2. Asked(aop[c]).pages[n] = job.pages[n]
      BY <2>1, AskedPages
    <3>3. QED
      BY <2>1, <2>3, <3>1, <3>2
  <2>4. QED
    BY <2>2, <2>3, RowSteps
<1>2. QED
  BY <1>1, SoleHolds, Inductive, PTL DEF Spec, PageCheckpointed

(***************************************************************************)
(* When no two workers process the job at once.                            *)
(***************************************************************************)

\* The group never takes the partition from a worker that is inside process(): no poll
\* or session timeout expires while a page is recognised.
NoEviction == [][Rebalance => \A w \in Workers : pc[w] = "idle"]_vars

\* Only the owner of the partition is inside process().
OwnerInv == \A w \in Workers : pc[w] # "idle" => owner = w

\* The partition changes hands only when its owner leaves process().
LEMMA NextOwner ==
  ASSUME TypeOK, OwnerInv, [Next]_vars, [Rebalance => \A w \in Workers : pc[w] = "idle"]_vars
  PROVE  OwnerInv'
<1>1. ASSUME NEW w \in Workers, pc[w] # "idle", Exit(w) PROVE OwnerInv'
  BY <1>1 DEF Exit, Goto, OwnerInv, TypeOK
<1>2. ASSUME NEW w \in Workers, NEW l, pc[w] # "idle" \/ owner = w, Goto(w, l),
             owner' = owner
      PROVE  OwnerInv'
  BY <1>2 DEF Goto, OwnerInv, TypeOK
<1>3. ASSUME NEW w \in Workers, WorkerStep(w) PROVE OwnerInv'
  <2>1. CASE Fetch(w) \/ Repair(w) \/ Prepare(w) \/ Check(w) \/ Loop(w) \/ Load(w)
    <3>1. owner' = owner /\ (pc[w] # "idle" \/ owner = w)
      BY <2>1 DEF Fetch, Repair, Prepare, Check, Loop, Load, partitionVars
    <3>2. \E l : Goto(w, l)
      BY <2>1 DEF Fetch, Repair, Prepare, Check, Loop, Load, Continue, SaveThen, SaveAt,
                  SaveCancelled, SaveFailed
    <3>3. QED
      BY <1>2, <3>1, <3>2
  <2>2. CASE Try(w) \/ EngineReturns(w) \/ EngineRaises(w) \/ FailPage(w) \/ FailJob(w)
             \/ Assemble(w) \/ Recheck(w) \/ Finish(w) \/ Except(w) \/ Save(w)
    <3>1. owner' = owner /\ pc[w] # "idle"
      BY <2>2 DEF Try, EngineReturns, EngineRaises, FailPage, FailJob, Assemble, Recheck,
                  Finish, Except, Save, partitionVars
    <3>2. \E l : Goto(w, l)
      BY <2>2 DEF Try, EngineReturns, EngineRaises, FailPage, FailJob, Assemble, Recheck,
                  Finish, Except, Save, Continue, SaveThen, SaveAt, SaveCancelled, SaveFailed
    <3>3. QED
      BY <1>2, <3>1, <3>2
  <2>3. CASE Conflict(w) \/ HandlerSave(w) \/ Commit(w)
    <3>1. pc[w] # "idle"
      BY <2>3 DEF Conflict, HandlerSave, Commit
    <3>2. Exit(w) \/ (owner' = owner /\ \E l : Goto(w, l))
      BY <2>3 DEF Conflict, HandlerSave, Commit, Continue, SaveCancelled, SaveAt
    <3>3. QED
      BY <1>1, <1>2, <3>1, <3>2
  <2>4. QED
    BY <1>3, <2>1, <2>2, <2>3 DEF WorkerStep
<1>4. ASSUME NEW w \in Workers, Crash(w) PROVE OwnerInv'
  BY <1>1, <1>4 DEF Crash
<1>5. CASE Rebalance
  <2>1. pc' = pc /\ rebalances' # rebalances
    BY <1>5 DEF Rebalance, taskVars, TypeOK
  <2>2. \A w \in Workers : pc[w] = "idle"
    BY <1>5, <2>1 DEF vars, boundVars
  <2>3. QED
    BY <2>1, <2>2 DEF OwnerInv
<1>6. ASSUME pc' = pc, owner' = owner PROVE OwnerInv'
  BY <1>6 DEF OwnerInv
<1>7. CASE Dispatch \/ DispatcherFails \/ RetentionClaim \/ UNCHANGED vars
  BY <1>6, <1>7 DEF Dispatch, Publish, MarkPublished, DispatcherFails, RetentionClaim, vars,
                    partitionVars, taskVars
<1>8. ASSUME NEW c \in Clients, NEW op,
             Request(c, op) \/ CancelRead(c) \/ RetryRead(c) \/ ApiSave(c)
      PROVE  OwnerInv'
  BY <1>6, <1>8 DEF Request, CancelRead, RetryRead, ApiSave, partitionVars, taskVars
<1>9. QED
  BY <1>3, <1>4, <1>5, <1>7, <1>8 DEF Next

\* Any number of workers, of which none is evicted while busy, take turns: crashes and
\* restarts, redelivery and conflicts put no second worker on a job.
THEOREM TurnsWithoutEviction == Spec /\ NoEviction => []Exclusive
<1>1. Init => OwnerInv
  BY DEF Init, OwnerInv
<1>2. OwnerInv => Exclusive
  BY DEF OwnerInv, Exclusive
<1>3. QED
  BY <1>1, <1>2, NextOwner, TypeCorrect, PTL DEF Spec, NoEviction

\* With one worker process nothing needs to be assumed of the group.
THEOREM OneWorkerExclusive ==
  ASSUME \A v, w \in Workers : v = w
  PROVE  Spec => []Exclusive
<1>1. Exclusive
  BY DEF Exclusive
<1>2. QED
  BY <1>1, PTL
=============================================================================
