------------------------ MODULE SandboxExchangeProofs ------------------------
(***************************************************************************)
(* The exchange with the sandbox: a worker that got its pages has all of   *)
(* them, of the declared file, and an exchange that was answered leaves    *)
(* nothing behind.  For any number of calls, pages, failures and crashes.  *)
(***************************************************************************)
EXTENDS SandboxExchange, TLAPS

Directory ==
  [exists : BOOLEAN, input : Contents \cup {"none"},
   request : {"none", "ready", "processing"}, output : BOOLEAN,
   pages : SUBSET Pages, manifest : BOOLEAN, response : {"none", "ok", "error"}]

Steps == {"start", "fetch", "submit", "wait", "upload", "unlink", "rmoutput", "rmdir", "done",
          "killed"}

\* The daemon has a request while it is at one, and renders it from its first page.
DaemonInv ==
  /\ daemon.req = NoRequest <=> daemon.at \in {"scan", "dead"}
  /\ daemon.at \in {"read", "mkdir", "hash"} => daemon.page = 1

\* Who has made the directory and what is in it; files of output/ are in output/.
DirInv(r) ==
  /\ ~ dir[r].exists => dir[r] = NoDirectory
  /\ at[r] \notin {"start", "done"} => dir[r].exists
  /\ ~ dir[r].output => dir[r].pages = {} /\ ~ dir[r].manifest
  /\ at[r] \in {"rmoutput", "rmdir", "done"} =>
       dir[r].input = "none" /\ dir[r].request = "none"
  /\ at[r] = "start" => dir[r] = NoDirectory

\* Nobody answers before the request is there, and the daemon takes it once.
HandOverInv(r) ==
  /\ at[r] \in {"start", "fetch", "submit"} =>
       dir[r].request = "none" /\ dir[r].response = "none" /\ daemon.req # r
  /\ at[r] \in {"wait", "upload"} /\ dir[r].response # "none" =>
       dir[r].request = "processing" /\ daemon.req # r
  /\ at[r] = "wait" /\ daemon.req = r => dir[r].request = "processing"

\* What the daemon has done by its step, as long as the worker waits for it.
RenderInv(r) ==
  at[r] = "wait" /\ daemon.req = r =>
    /\ daemon.at \in {"render", "manifest", "respond"} => dir[r].input = "declared"
    /\ daemon.at = "render" => \A n \in Pages : n < daemon.page => n \in dir[r].pages
    /\ daemon.at \in {"manifest", "respond"} => dir[r].pages = Pages
    /\ daemon.at = "respond" => dir[r].manifest

\* An answer stands for all the pages of the declared file.
AnswerInv(r) ==
  /\ at[r] = "upload" => dir[r].response = "ok"
  /\ at[r] \in {"wait", "upload"} /\ dir[r].response = "ok" =>
       dir[r].manifest /\ dir[r].pages = Pages /\ dir[r].input = "declared"

\* The pages a worker has stored.
StoredInv(r) ==
  /\ at[r] \in {"start", "fetch", "submit", "wait", "upload"} => next[r] <= NumPages
  /\ \A n \in Pages : n < next[r] => stored[n] = "declared"
  /\ outcome[r] = "pages" => \A n \in Pages : stored[n] = "declared"

\* After an answer, or before the request, the daemon has no business in the directory:
\* what the worker has removed is not made again.
EndInv(r) ==
  /\ at[r] \in {"start", "fetch", "submit", "wait", "upload"} => outcome[r] = "none"
  /\ at[r] \in {"unlink", "rmoutput", "rmdir", "done"} => outcome[r] # "none"
  /\ outcome[r] \in {"pages", "error"} =>
       /\ daemon.req # r /\ dir[r].request # "ready"
       /\ at[r] \in {"rmoutput", "rmdir"} =>
            dir[r].pages = {} /\ ~ dir[r].manifest /\ dir[r].response = "none"
       /\ at[r] = "rmdir" => ~ dir[r].output
       /\ at[r] = "done" => ~ dir[r].exists

RequestInv(r) == /\ DirInv(r) /\ HandOverInv(r) /\ RenderInv(r) /\ AnswerInv(r)
                 /\ StoredInv(r) /\ EndInv(r)

ExchangeInv == TypeOK /\ DaemonInv /\ \A r \in Requests : RequestInv(r)

-----------------------------------------------------------------------------
(* Requests that a step does not touch *)

\* Images of the declared file stay.
StoredStays == \A n \in Pages : stored[n] = "declared" => stored'[n] = "declared"

LEMMA Others ==
  ASSUME ExchangeInv, StoredStays, NEW q \in Requests,
         at'[q] = at[q], dir'[q] = dir[q], next'[q] = next[q], outcome'[q] = outcome[q],
         daemon'.req = q => daemon' = daemon
  PROVE  RequestInv(q)'
<1>1. RequestInv(q)
  BY DEF ExchangeInv
<1>2. DirInv(q)'
  BY <1>1 DEF RequestInv, DirInv
<1>3. HandOverInv(q)'
  BY <1>1 DEF RequestInv, HandOverInv
<1>4. RenderInv(q)'
  BY <1>1 DEF RequestInv, RenderInv
<1>5. AnswerInv(q)'
  BY <1>1 DEF RequestInv, AnswerInv
<1>6. StoredInv(q)'
  BY <1>1 DEF RequestInv, StoredInv, StoredStays
<1>7. EndInv(q)'
  BY <1>1 DEF RequestInv, EndInv
<1>8. QED
  BY <1>2, <1>3, <1>4, <1>5, <1>6, <1>7 DEF RequestInv

\* A step in the directory of one request.
LEMMA OneRequest ==
  ASSUME ExchangeInv, StoredStays, NEW r \in Requests,
         TypeOK', DaemonInv', RequestInv(r)',
         \A q \in Requests : q # r => /\ at'[q] = at[q] /\ dir'[q] = dir[q]
                                      /\ next'[q] = next[q] /\ outcome'[q] = outcome[q]
                                      /\ daemon'.req = q => daemon' = daemon
  PROVE  ExchangeInv'
BY Others DEF ExchangeInv

\* The types of one request, and the conjunct of TypeOK that DirInv states.
LEMMA Types ==
  /\ TypeOK => /\ dir \in [Requests -> Directory]
               /\ \A r \in Requests : /\ dir[r] \in Directory
                                       /\ next[r] \in Nat /\ dir[r].pages \subseteq Pages
               /\ daemon.page \in Nat
  /\ NumPages \in Nat /\ Pages \subseteq Nat
BY ExchangeAssumption DEF TypeOK, Directory, Pages

-----------------------------------------------------------------------------
(* Steps of a worker *)

Outcomes == {"none", "pages", "error", "gaveup"}

\* A step of one worker keeps the invariant when it does for its own request.
LEMMA WorkerMoves ==
  ASSUME ExchangeInv, StoredStays, NEW r \in Requests, NEW l \in Steps,
         dir' \in [Requests -> Directory], \A q \in Requests : q # r => dir'[q] = dir[q],
         at' = [at EXCEPT ![r] = l],
         next' \in [Requests -> 1..(NumPages + 1)],
         \A q \in Requests : q # r => next'[q] = next[q],
         outcome' \in [Requests -> Outcomes],
         \A q \in Requests : q # r => outcome'[q] = outcome[q],
         stored' \in [Pages -> Contents \cup {"none"}],
         failures' \in Nat, crashes' \in Nat,
         UNCHANGED <<valid, source, daemon>>,
         DirInv(r)', HandOverInv(r)', RenderInv(r)', AnswerInv(r)', StoredInv(r)', EndInv(r)'
  PROVE  ExchangeInv'
<1>1. TypeOK'
  <2>1. at' \in [Requests -> Steps]
    BY DEF ExchangeInv, TypeOK, Steps
  <2>2. \A q \in Requests : ~ dir'[q].exists => dir'[q] = NoDirectory
    BY DEF ExchangeInv, TypeOK, DirInv
  <2>3. QED
    BY <2>1, <2>2 DEF ExchangeInv, TypeOK, Directory, Steps, Outcomes
<1>2. \A q \in Requests : q # r => at'[q] = at[q]
  BY DEF ExchangeInv, TypeOK
<1>3. DaemonInv'
  BY DEF ExchangeInv, DaemonInv
<1>4. RequestInv(r)'
  BY DEF RequestInv
<1>5. QED
  BY <1>1, <1>2, <1>3, <1>4, OneRequest

\* What a worker's step leaves alone has its types.
LEMMA Typed ==
  ASSUME ExchangeInv
  PROVE  /\ dir \in [Requests -> Directory]
         /\ at \in [Requests -> Steps] /\ next \in [Requests -> 1..(NumPages + 1)]
         /\ outcome \in [Requests -> Outcomes]
         /\ stored \in [Pages -> Contents \cup {"none"}]
         /\ failures \in Nat /\ crashes \in Nat
         /\ NumPages \in Nat /\ NumPages >= 1 /\ Pages \subseteq Nat
         /\ \A r \in Requests : RequestInv(r) /\ dir[r] \in Directory /\ next[r] \in Nat
         /\ source \in Contents
BY ExchangeAssumption DEF ExchangeInv, TypeOK, Directory, Steps, Outcomes, Pages

LEMMA MakeDirectoryStep ==
  ASSUME ExchangeInv, NEW r \in Requests, MakeDirectory(r)
  PROVE  ExchangeInv'
<1>1. dir'[r] = [dir[r] EXCEPT !.exists = TRUE] /\ at'[r] = "fetch" /\ dir[r] = NoDirectory
      /\ next'[r] = next[r] /\ outcome'[r] = outcome[r] /\ daemon' = daemon /\ stored' = stored
      /\ at[r] = "start" /\ RequestInv(r)
  BY Typed DEF MakeDirectory, Goto, RequestInv, DirInv
<1>2. dir' \in [Requests -> Directory]
  BY Typed DEF Directory, MakeDirectory
<1>3. DirInv(r)' /\ HandOverInv(r)' /\ RenderInv(r)' /\ AnswerInv(r)' /\ StoredInv(r)' /\ EndInv(r)'
  BY <1>1 DEF RequestInv, DirInv, HandOverInv, RenderInv, AnswerInv, StoredInv, EndInv, NoDirectory
<1>4. QED
  BY <1>2, <1>3, Typed, WorkerMoves DEF MakeDirectory, Goto, Steps, StoredStays

LEMMA WriteInputStep ==
  ASSUME ExchangeInv, NEW r \in Requests, WriteInput(r)
  PROVE  ExchangeInv'
<1>1. dir'[r] = [dir[r] EXCEPT !.input = source] /\ at'[r] = "submit" /\ at[r] = "fetch"
      /\ next'[r] = next[r] /\ outcome'[r] = outcome[r] /\ daemon' = daemon /\ stored' = stored
      /\ RequestInv(r) /\ dir[r] \in Directory
  BY Typed DEF WriteInput, Goto
<1>2. dir' \in [Requests -> Directory]
  BY <1>1, Typed DEF Directory, WriteInput
<1>3. DirInv(r)' /\ HandOverInv(r)' /\ RenderInv(r)' /\ AnswerInv(r)' /\ StoredInv(r)' /\ EndInv(r)'
  BY <1>1 DEF RequestInv, DirInv, HandOverInv, RenderInv, AnswerInv, StoredInv, EndInv, Directory
<1>4. QED
  BY <1>2, <1>3, Typed, WorkerMoves DEF WriteInput, Goto, Steps, StoredStays

LEMMA SubmitStep ==
  ASSUME ExchangeInv, NEW r \in Requests, Submit(r)
  PROVE  ExchangeInv'
<1>1. dir'[r] = [dir[r] EXCEPT !.request = "ready"] /\ at'[r] = "wait" /\ at[r] = "submit"
      /\ next'[r] = next[r] /\ outcome'[r] = outcome[r] /\ daemon' = daemon /\ stored' = stored
      /\ RequestInv(r) /\ dir[r] \in Directory
  BY Typed DEF Submit, Goto
<1>2. dir' \in [Requests -> Directory]
  BY <1>1, Typed DEF Directory, Submit
<1>3. DirInv(r)' /\ HandOverInv(r)' /\ RenderInv(r)' /\ AnswerInv(r)' /\ StoredInv(r)' /\ EndInv(r)'
  BY <1>1 DEF RequestInv, DirInv, HandOverInv, RenderInv, AnswerInv, StoredInv, EndInv, Directory
<1>4. QED
  BY <1>2, <1>3, Typed, WorkerMoves DEF Submit, Goto, Steps, StoredStays

\* prepare ends without pages; with an error only when the daemon is not at the request.
LEMMA EndStep ==
  ASSUME ExchangeInv, NEW r \in Requests, NEW how \in {"error", "gaveup"}, End(r, how),
         at[r] \in {"fetch", "wait", "upload"},
         how = "error" => at[r] # "wait" \/ dir[r].response # "none",
         failures' \in Nat, UNCHANGED <<valid, source, dir, next, daemon, stored, crashes>>
  PROVE  ExchangeInv'
<1>1. at'[r] = "unlink" /\ outcome'[r] = how /\ RequestInv(r) /\ dir[r] \in Directory
  BY Typed DEF End, Goto
<1>2. DirInv(r)' /\ HandOverInv(r)' /\ RenderInv(r)' /\ AnswerInv(r)' /\ StoredInv(r)' /\ EndInv(r)'
  BY <1>1 DEF RequestInv, DirInv, HandOverInv, RenderInv, AnswerInv, StoredInv, EndInv, Directory
<1>3. outcome' \in [Requests -> Outcomes] /\ \A q \in Requests : q # r => outcome'[q] = outcome[q]
  BY Typed DEF End, Outcomes
<1>4. QED
  BY <1>2, <1>3, Typed, WorkerMoves DEF End, Goto, Steps, StoredStays

LEMMA AnsweredStep ==
  ASSUME ExchangeInv, NEW r \in Requests, Answered(r)
  PROVE  ExchangeInv'
<1>1. CASE dir[r].response = "ok" /\ Goto(r, "upload") /\ UNCHANGED outcome
  <2>1. at'[r] = "upload" /\ at[r] = "wait" /\ RequestInv(r) /\ dir[r].response = "ok"
        /\ UNCHANGED <<dir, next, outcome, daemon, stored>>
    BY <1>1, Typed DEF Answered, Goto
  <2>2. DirInv(r)' /\ HandOverInv(r)' /\ RenderInv(r)' /\ AnswerInv(r)' /\ StoredInv(r)' /\ EndInv(r)'
    BY <2>1 DEF RequestInv, DirInv, HandOverInv, RenderInv, AnswerInv, StoredInv, EndInv
  <2>3. QED
    BY <1>1, <2>2, Typed, WorkerMoves DEF Answered, Goto, Steps, StoredStays
<1>2. CASE dir[r].response = "error" /\ End(r, "error")
  BY <1>2, EndStep, Typed DEF Answered
<1>3. QED
  BY <1>1, <1>2 DEF Answered

LEMMA TimeOutStep ==
  ASSUME ExchangeInv, NEW r \in Requests, TimeOut(r)
  PROVE  ExchangeInv'
BY EndStep, Typed DEF TimeOut

LEMMA CancelledStep ==
  ASSUME ExchangeInv, NEW r \in Requests, Cancelled(r)
  PROVE  ExchangeInv'
BY EndStep, Typed DEF Cancelled

LEMMA WorkerFailsStep ==
  ASSUME ExchangeInv, NEW r \in Requests, WorkerFails(r)
  PROVE  ExchangeInv'
BY EndStep, Typed DEF WorkerFails

\* Only images of the declared file are stored; the last one completes them.
LEMMA StorePageStep ==
  ASSUME ExchangeInv, NEW r \in Requests, StorePage(r)
  PROVE  ExchangeInv'
<1>1. RequestInv(r) /\ at[r] = "upload" /\ dir[r].manifest /\ dir[r].pages = Pages
      /\ dir[r].input = "declared" /\ next[r] \in Nat /\ next[r] <= NumPages /\ next[r] >= 1
      /\ outcome[r] = "none"
  BY Typed DEF StorePage, RequestInv, AnswerInv, StoredInv, EndInv
<1>2. PICK k \in Pages : k = next[r]
  BY <1>1, Typed DEF Pages
<1>3. stored' = [stored EXCEPT ![k] = "declared"] /\ next' = [next EXCEPT ![r] = k + 1]
      /\ IF k = NumPages THEN End(r, "pages") ELSE UNCHANGED <<at, outcome>>
  BY <1>1, <1>2 DEF StorePage
<1>4. StoredStays /\ stored'[k] = "declared" /\ stored' \in [Pages -> Contents \cup {"none"}]
  BY <1>2, <1>3, Typed DEF StoredStays, Contents
<1>5. next' \in [Requests -> 1..(NumPages + 1)] /\ next'[r] = k + 1
      /\ \A q \in Requests : q # r => next'[q] = next[q]
  BY <1>2, <1>3, Typed DEF Pages
<1>6. UNCHANGED <<valid, source, dir, daemon, failures, crashes>>
  BY DEF StorePage
<1>7. \A n \in Pages : n < k + 1 => stored'[n] = "declared"
  <2>1. \A n \in Pages : n < k + 1 => n < k \/ n = k
    BY <1>2, Typed
  <2>2. QED
    BY <1>1, <1>2, <1>4, <2>1 DEF RequestInv, StoredInv, StoredStays
<1>8. CASE k = NumPages
  <2>1. at'[r] = "unlink" /\ outcome'[r] = "pages"
    BY <1>3, <1>8, Typed DEF End, Goto
  <2>2. \A n \in Pages : stored'[n] = "declared"
    BY <1>7, <1>8, Typed DEF Pages
  <2>3. StoredInv(r)'
    BY <2>1, <2>2 DEF StoredInv
  <2>4. DirInv(r)' /\ HandOverInv(r)' /\ RenderInv(r)' /\ AnswerInv(r)' /\ EndInv(r)'
    BY <1>1, <1>6, <2>1 DEF RequestInv, DirInv, HandOverInv, RenderInv, AnswerInv, EndInv
  <2>5. outcome' \in [Requests -> Outcomes]
        /\ \A q \in Requests : q # r => outcome'[q] = outcome[q]
    BY <1>3, <1>8, Typed DEF End, Outcomes
  <2>6. at' = [at EXCEPT ![r] = "unlink"]
    BY <1>3, <1>8 DEF End, Goto
  <2>7. QED
    BY <1>4, <1>5, <1>6, <2>3, <2>4, <2>5, <2>6, Typed, WorkerMoves DEF Steps
<1>9. CASE k # NumPages
  <2>1. UNCHANGED <<at, outcome>>
    BY <1>3, <1>9
  <2>2. StoredInv(r)'
    BY <1>1, <1>2, <1>5, <1>7, <1>9, <2>1, Typed DEF StoredInv
  <2>3. DirInv(r)' /\ HandOverInv(r)' /\ RenderInv(r)' /\ AnswerInv(r)' /\ EndInv(r)'
    BY <1>1, <1>6, <2>1 DEF RequestInv, DirInv, HandOverInv, RenderInv, AnswerInv, EndInv
  <2>4. at' = [at EXCEPT ![r] = "upload"]
    BY <1>1, <2>1, Typed
  <2>5. QED
    BY <1>4, <1>5, <1>6, <2>1, <2>2, <2>3, <2>4, Typed, WorkerMoves DEF Steps
<1>10. QED
  BY <1>8, <1>9

LEMMA UnlinkStep ==
  ASSUME ExchangeInv, NEW r \in Requests, Unlink(r)
  PROVE  ExchangeInv'
<1>1. dir'[r] = [NoDirectory EXCEPT !.exists = TRUE, !.output = dir[r].output]
      /\ at'[r] = "rmoutput" /\ at[r] = "unlink" /\ RequestInv(r) /\ dir[r] \in Directory
      /\ UNCHANGED <<next, outcome, daemon, stored>>
  BY Typed DEF Unlink, Goto
<1>2. dir' \in [Requests -> Directory]
  <2>1. [NoDirectory EXCEPT !.exists = TRUE, !.output = dir[r].output] \in Directory
    BY <1>1 DEF NoDirectory, Directory
  <2>2. QED
    BY <2>1, Typed DEF Unlink
<1>3. DirInv(r)' /\ HandOverInv(r)' /\ RenderInv(r)' /\ AnswerInv(r)' /\ StoredInv(r)' /\ EndInv(r)'
  BY <1>1 DEF RequestInv, DirInv, HandOverInv, RenderInv, AnswerInv, StoredInv, EndInv, Directory, NoDirectory
<1>4. QED
  BY <1>2, <1>3, Typed, WorkerMoves DEF Unlink, Goto, Steps, StoredStays

LEMMA RemoveOutputStep ==
  ASSUME ExchangeInv, NEW r \in Requests, RemoveOutput(r)
  PROVE  ExchangeInv'
<1>1. dir'[r] = [dir[r] EXCEPT !.output = @ /\ (dir[r].pages # {} \/ dir[r].manifest)]
      /\ at'[r] = "rmdir" /\ at[r] = "rmoutput" /\ RequestInv(r) /\ dir[r] \in Directory
      /\ UNCHANGED <<next, outcome, daemon, stored>>
  BY Typed DEF RemoveOutput, Goto
<1>2. dir' \in [Requests -> Directory]
  <2>1. [dir[r] EXCEPT !.output = @ /\ (dir[r].pages # {} \/ dir[r].manifest)] \in Directory
    BY <1>1 DEF Directory
  <2>2. QED
    BY <2>1, Typed DEF RemoveOutput
<1>3. DirInv(r)' /\ HandOverInv(r)' /\ RenderInv(r)' /\ AnswerInv(r)' /\ StoredInv(r)' /\ EndInv(r)'
  BY <1>1 DEF RequestInv, DirInv, HandOverInv, RenderInv, AnswerInv, StoredInv, EndInv, Directory, NoDirectory
<1>4. QED
  BY <1>2, <1>3, Typed, WorkerMoves DEF RemoveOutput, Goto, Steps, StoredStays

LEMMA RemoveDirectoryStep ==
  ASSUME ExchangeInv, NEW r \in Requests, RemoveDirectory(r)
  PROVE  ExchangeInv'
<1>1. dir'[r] = [dir[r] EXCEPT !.exists = dir[r].output \/ dir[r].response # "none"]
      /\ at'[r] = "done" /\ at[r] = "rmdir" /\ RequestInv(r) /\ dir[r] \in Directory
      /\ UNCHANGED <<next, outcome, daemon, stored>>
  BY Typed DEF RemoveDirectory, Goto
<1>2. dir' \in [Requests -> Directory]
  <2>1. [dir[r] EXCEPT !.exists = dir[r].output \/ dir[r].response # "none"] \in Directory
    BY <1>1 DEF Directory
  <2>2. QED
    BY <2>1, Typed DEF RemoveDirectory
<1>3. DirInv(r)' /\ HandOverInv(r)' /\ RenderInv(r)' /\ AnswerInv(r)' /\ StoredInv(r)' /\ EndInv(r)'
  BY <1>1 DEF RequestInv, DirInv, HandOverInv, RenderInv, AnswerInv, StoredInv, EndInv, Directory,
     NoDirectory
<1>4. QED
  BY <1>2, <1>3, Typed, WorkerMoves DEF RemoveDirectory, Goto, Steps, StoredStays

LEMMA WorkerCrashStep ==
  ASSUME ExchangeInv, NEW r \in Requests, WorkerCrash(r)
  PROVE  ExchangeInv'
<1>1. at'[r] = "killed" /\ at[r] \notin {"start", "done", "killed"} /\ RequestInv(r)
      /\ UNCHANGED <<dir, next, outcome, daemon, stored>>
  BY Typed DEF WorkerCrash, Goto
<1>2. DirInv(r)' /\ HandOverInv(r)' /\ RenderInv(r)' /\ AnswerInv(r)' /\ StoredInv(r)' /\ EndInv(r)'
  BY <1>1 DEF RequestInv, DirInv, HandOverInv, RenderInv, AnswerInv, StoredInv, EndInv
<1>3. crashes' \in Nat /\ at' = [at EXCEPT ![r] = "killed"] /\ StoredStays
      /\ UNCHANGED <<valid, source, dir, next, outcome, daemon, stored, failures>>
  BY Typed DEF WorkerCrash, Goto, StoredStays
<1>4. QED
  BY <1>2, <1>3, Typed, WorkerMoves DEF Steps

-----------------------------------------------------------------------------
(* Steps of the daemon *)

DaemonState == [at : {"scan", "read", "mkdir", "hash", "render", "manifest", "respond", "except",
                      "dead"},
                req : Requests \cup {NoRequest}, page : Pages]

LEMMA DaemonTypes ==
  ASSUME ExchangeInv
  PROVE  /\ daemon \in DaemonState /\ Idle \in DaemonState /\ [Idle EXCEPT !.at = "dead"] \in DaemonState
         /\ daemon.req \in Requests \cup {NoRequest}
         /\ daemon.page \in Pages /\ daemon.page \in Nat
         /\ daemon.at \notin {"scan", "dead"} => daemon.req \in Requests
         /\ NoRequest \notin Requests
BY ExchangeAssumption DEF ExchangeInv, TypeOK, DaemonState, Idle, DaemonInv, Pages

\* A step of the daemon keeps the invariant when it does for the request it is at.
LEMMA DaemonMoves ==
  ASSUME ExchangeInv, NEW r \in Requests,
         daemon' \in DaemonState, daemon'.req \in {r, NoRequest}, DaemonInv',
         dir' \in [Requests -> Directory], \A q \in Requests : q # r => dir'[q] = dir[q],
         UNCHANGED <<valid, source, workerVars, stored, failures, crashes>>,
         DirInv(r)', HandOverInv(r)', RenderInv(r)', AnswerInv(r)', EndInv(r)'
  PROVE  ExchangeInv'
<1>1. TypeOK'
  <2>1. \A q \in Requests : ~ dir'[q].exists => dir'[q] = NoDirectory
    BY DEF ExchangeInv, TypeOK, DirInv
  <2>2. QED
    BY <2>1 DEF ExchangeInv, TypeOK, Directory, DaemonState, workerVars
<1>2. StoredInv(r)' /\ StoredStays
  BY DEF ExchangeInv, RequestInv, StoredInv, StoredStays, workerVars
<1>3. RequestInv(r)'
  BY <1>2 DEF RequestInv
<1>4. NoRequest \notin Requests
  BY ExchangeAssumption
<1>5. QED
  BY <1>1, <1>2, <1>3, <1>4, OneRequest DEF workerVars

\* The daemon drops what it was at, or begins anew.
LEMMA DaemonFree ==
  ASSUME ExchangeInv, daemon' \in {Idle, [Idle EXCEPT !.at = "dead"]}, crashes' \in Nat,
         UNCHANGED <<valid, source, dir, workerVars, stored, failures>>
  PROVE  ExchangeInv'
<1>1. daemon'.req = NoRequest /\ daemon' \in DaemonState /\ DaemonInv'
  BY DaemonTypes DEF Idle, DaemonInv
<1>2. TypeOK'
  BY <1>1 DEF ExchangeInv, TypeOK, DaemonState, workerVars
<1>3. \A q \in Requests : RequestInv(q)'
  BY <1>1, Others, DaemonTypes DEF workerVars, StoredStays
<1>4. QED
  BY <1>1, <1>2, <1>3 DEF ExchangeInv

LEMMA DaemonCrashStep ==
  ASSUME ExchangeInv, DaemonCrash
  PROVE  ExchangeInv'
BY DaemonFree, Typed DEF DaemonCrash

LEMMA DaemonRestartStep ==
  ASSUME ExchangeInv, DaemonRestart
  PROVE  ExchangeInv'
BY DaemonFree, Typed DEF DaemonRestart

\* The daemon goes to another step of the same request and writes nothing.
LEMMA DaemonSteps ==
  ASSUME ExchangeInv, NEW l \in {"mkdir", "hash", "render", "except"}, Step(l),
         daemon.at \notin {"scan", "dead"},
         l # "except" => daemon.page = 1,
         l = "render" => dir[daemon.req].input = "declared",
         UNCHANGED <<valid, source, dir, workerVars, stored, failures, crashes>>
  PROVE  ExchangeInv'
<1>1. PICK r \in Requests : r = daemon.req
  BY DaemonTypes
<1>2. daemon' \in DaemonState /\ daemon'.req = r /\ daemon'.at = l /\ daemon'.page = daemon.page
      /\ DaemonInv'
  BY <1>1, DaemonTypes DEF Step, DaemonState, DaemonInv
<1>3. RequestInv(r)
  BY Typed
<1>4. DirInv(r)' /\ HandOverInv(r)' /\ AnswerInv(r)' /\ EndInv(r)'
  BY <1>1, <1>2, <1>3 DEF RequestInv, DirInv, HandOverInv, AnswerInv, EndInv, workerVars
<1>5. RenderInv(r)'
  <2>1. \A n \in Pages : ~ (n < 1)
    BY Typed DEF Pages
  <2>2. QED
    BY <1>1, <1>2, <2>1 DEF RenderInv
<1>6. QED
  BY <1>2, <1>4, <1>5, DaemonMoves, Typed

LEMMA ReadRequestStep ==
  ASSUME ExchangeInv, ReadRequest
  PROVE  ExchangeInv'
BY DaemonSteps DEF ReadRequest, ExchangeInv, DaemonInv

LEMMA TakeStep ==
  ASSUME ExchangeInv, NEW r \in Requests, Take(r)
  PROVE  ExchangeInv'
<1>1. daemon' \in DaemonState /\ daemon'.req = r /\ daemon'.at = "read" /\ DaemonInv'
  BY DaemonTypes, ExchangeAssumption DEF Take, DaemonState, DaemonInv, Pages
<1>2. RequestInv(r) /\ dir[r] \in Directory /\ dir[r].request = "ready"
      /\ dir'[r] = [dir[r] EXCEPT !.request = "processing"] /\ UNCHANGED workerVars
      /\ daemon.req # r
  BY Typed, DaemonTypes DEF Take, ExchangeInv, DaemonInv
<1>3. dir' \in [Requests -> Directory]
  BY Typed DEF Take, Directory
<1>4. DirInv(r)' /\ HandOverInv(r)' /\ RenderInv(r)' /\ AnswerInv(r)' /\ EndInv(r)'
  BY <1>1, <1>2 DEF RequestInv, DirInv, HandOverInv, RenderInv, AnswerInv, EndInv, workerVars, Directory,
     NoDirectory
<1>5. QED
  BY <1>1, <1>3, <1>4, DaemonMoves, Typed DEF Take

LEMMA CheckInputStep ==
  ASSUME ExchangeInv, CheckInput
  PROVE  ExchangeInv'
BY DaemonSteps DEF CheckInput, ExchangeInv, DaemonInv, Mine

\* output/ is only made for a request whose worker waits or has given up.
LEMMA MakeOutputStep ==
  ASSUME ExchangeInv, MakeOutput
  PROVE  ExchangeInv'
<1>1. PICK r \in Requests : r = daemon.req
  BY DaemonTypes DEF MakeOutput
<1>2. daemon' \in DaemonState /\ daemon'.req = r /\ daemon'.at = "hash" /\ DaemonInv'
  BY <1>1, DaemonTypes DEF MakeOutput, Step, DaemonState, DaemonInv, ExchangeInv
<1>3. RequestInv(r) /\ dir[r] \in Directory /\ UNCHANGED workerVars
      /\ dir'[r] = [dir[r] EXCEPT !.exists = TRUE, !.output = TRUE]
      /\ dir' = [dir EXCEPT ![r] = [dir[r] EXCEPT !.exists = TRUE, !.output = TRUE]]
  BY <1>1, Typed DEF MakeOutput
<1>4. dir' \in [Requests -> Directory] /\ \A q \in Requests : q # r => dir'[q] = dir[q]
  BY <1>3, Typed DEF Directory
<1>5. DirInv(r)' /\ HandOverInv(r)' /\ RenderInv(r)' /\ AnswerInv(r)' /\ EndInv(r)'
  BY <1>1, <1>2, <1>3 DEF RequestInv, DirInv, HandOverInv, RenderInv, AnswerInv, EndInv, workerVars,
     Directory, NoDirectory
<1>6. QED
  BY <1>2, <1>4, <1>5, DaemonMoves DEF MakeOutput

LEMMA RenderPageStep ==
  ASSUME ExchangeInv, RenderPage
  PROVE  ExchangeInv'
<1>1. PICK r \in Requests, k \in Pages : r = daemon.req /\ k = daemon.page
  BY DaemonTypes DEF RenderPage
<1>2. CASE Step("except") /\ UNCHANGED dir
  BY <1>2, DaemonSteps DEF RenderPage
<1>3. CASE /\ dir[r].output /\ dir' = [dir EXCEPT ![r].pages = @ \cup {k}]
           /\ daemon' = IF k = NumPages THEN [daemon EXCEPT !.at = "manifest"]
                        ELSE [daemon EXCEPT !.page = @ + 1]
  <2>1. k \in Nat /\ (k # NumPages => k + 1 \in Pages) /\ \A n \in Pages : n \in Nat /\ n <= NumPages
    BY Typed DEF Pages
  <2>2. daemon' \in DaemonState /\ daemon'.req = r /\ DaemonInv'
        /\ IF k = NumPages THEN daemon'.at = "manifest"
           ELSE daemon'.at = "render" /\ daemon'.page = k + 1
    BY <1>1, <1>3, <2>1, DaemonTypes DEF RenderPage, DaemonState, DaemonInv, ExchangeInv
  <2>3. RequestInv(r) /\ dir[r] \in Directory /\ dir[r].output /\ UNCHANGED workerVars
        /\ dir'[r] = [dir[r] EXCEPT !.pages = @ \cup {k}] /\ daemon.at = "render"
    BY <1>3, Typed DEF RenderPage
  <2>4. dir' \in [Requests -> Directory]
    <3>1. [dir[r] EXCEPT !.pages = @ \cup {k}] \in Directory
      BY <1>1, <2>3 DEF Directory
    <3>2. QED
      BY <1>3, <3>1, Typed
  <2>5. DirInv(r)' /\ HandOverInv(r)' /\ EndInv(r)'
    BY <1>1, <2>2, <2>3 DEF RequestInv, DirInv, HandOverInv, EndInv, workerVars, Directory, NoDirectory
  <2>6. AnswerInv(r)'
    BY <1>1, <2>3 DEF RequestInv, HandOverInv, AnswerInv, workerVars, Directory
  <2>7. RenderInv(r)'
    <3>1. SUFFICES ASSUME at[r] = "wait"
                   PROVE  /\ dir'[r].input = "declared"
                          /\ daemon'.at = "render" => \A n \in Pages : n < daemon'.page => n \in dir'[r].pages
                          /\ daemon'.at \in {"manifest", "respond"} => dir'[r].pages = Pages
                          /\ daemon'.at # "respond"
      BY <2>3 DEF RenderInv, workerVars
    <3>2. dir[r].input = "declared" /\ \A n \in Pages : n < k => n \in dir[r].pages
      BY <1>1, <2>3, <3>1 DEF RequestInv, RenderInv
    <3>3. dir'[r].pages = dir[r].pages \cup {k} /\ dir'[r].input = dir[r].input
          /\ dir[r].pages \subseteq Pages
      BY <2>3 DEF Directory
    <3>4. \A n \in Pages : n < k + 1 => n \in dir'[r].pages
      BY <2>1, <3>2, <3>3
    <3>5. CASE k = NumPages
      <4>1. \A n \in Pages : n \in dir'[r].pages
        BY <2>1, <3>4, <3>5
      <4>2. QED
        BY <2>2, <3>2, <3>3, <3>5, <4>1
    <3>6. CASE k # NumPages
      BY <2>2, <3>2, <3>3, <3>4, <3>6
    <3>7. QED
      BY <3>5, <3>6
  <2>8. QED
    BY <1>3, <2>2, <2>4, <2>5, <2>6, <2>7, DaemonMoves, Typed DEF RenderPage
<1>4. QED
  BY <1>1, <1>2, <1>3 DEF RenderPage, Mine

LEMMA WriteManifestStep ==
  ASSUME ExchangeInv, WriteManifest
  PROVE  ExchangeInv'
<1>1. PICK r \in Requests : r = daemon.req
  BY DaemonTypes DEF WriteManifest
<1>2. CASE Step("except") /\ UNCHANGED dir
  BY <1>2, DaemonSteps DEF WriteManifest
<1>3. CASE dir[r].output /\ dir' = [dir EXCEPT ![r].manifest = TRUE] /\ Step("respond")
  <2>1. daemon' \in DaemonState /\ daemon'.req = r /\ daemon'.at = "respond" /\ DaemonInv'
    BY <1>1, <1>3, DaemonTypes DEF Step, DaemonState, DaemonInv
  <2>2. RequestInv(r) /\ dir[r] \in Directory /\ dir[r].output /\ UNCHANGED workerVars
        /\ dir'[r] = [dir[r] EXCEPT !.manifest = TRUE] /\ daemon.at = "manifest"
    BY <1>3, Typed DEF WriteManifest
  <2>3. dir' \in [Requests -> Directory]
    <3>1. [dir[r] EXCEPT !.manifest = TRUE] \in Directory
      BY <2>2 DEF Directory
    <3>2. QED
      BY <1>3, <3>1, Typed
  <2>4. DirInv(r)' /\ HandOverInv(r)' /\ RenderInv(r)' /\ AnswerInv(r)' /\ EndInv(r)'
    BY <1>1, <2>1, <2>2 DEF RequestInv, DirInv, HandOverInv, RenderInv, AnswerInv, EndInv, workerVars,
       Directory, NoDirectory
  <2>5. QED
    BY <1>3, <2>1, <2>3, <2>4, DaemonMoves, Typed DEF WriteManifest
<1>4. QED
  BY <1>1, <1>2, <1>3 DEF WriteManifest, Mine

\* The daemon answers last, and turns to the next request.
LEMMA AnswerStep ==
  ASSUME ExchangeInv, NEW r \in Requests, r = daemon.req, NEW a \in {"ok", "error"},
         a = "ok" => daemon.at = "respond", dir[r].exists,
         dir' = [dir EXCEPT ![r].response = a], daemon' = Idle,
         UNCHANGED <<valid, source, workerVars, stored, failures, crashes>>
  PROVE  ExchangeInv'
<1>1. daemon' \in DaemonState /\ daemon'.req = NoRequest /\ NoRequest # r /\ DaemonInv'
  BY DaemonTypes DEF Idle, DaemonInv
<1>2. RequestInv(r) /\ dir[r] \in Directory /\ dir'[r] = [dir[r] EXCEPT !.response = a]
  BY Typed
<1>3. dir' \in [Requests -> Directory]
  BY Typed DEF Directory
<1>4. DirInv(r)' /\ HandOverInv(r)' /\ RenderInv(r)' /\ AnswerInv(r)' /\ EndInv(r)'
  BY <1>1, <1>2 DEF RequestInv, DirInv, HandOverInv, RenderInv, AnswerInv, EndInv, workerVars, Directory,
     NoDirectory
<1>5. QED
  BY <1>1, <1>3, <1>4, DaemonMoves, Typed

LEMMA RespondStep ==
  ASSUME ExchangeInv, Respond
  PROVE  ExchangeInv'
<1>1. daemon.req \in Requests
  BY DaemonTypes DEF Respond
<1>2. CASE Step("except") /\ UNCHANGED dir
  BY <1>2, DaemonSteps DEF Respond
<1>3. CASE Mine.exists /\ dir' = [dir EXCEPT ![daemon.req].response = "ok"] /\ daemon' = Idle
  BY <1>1, <1>3, AnswerStep DEF Respond, Mine
<1>4. QED
  BY <1>2, <1>3 DEF Respond

LEMMA ExceptStep ==
  ASSUME ExchangeInv, Except
  PROVE  ExchangeInv'
<1>1. daemon.req \in Requests
  BY DaemonTypes DEF Except
<1>2. CASE daemon' = [Idle EXCEPT !.at = "dead"] /\ UNCHANGED dir
  BY <1>2, DaemonFree, Typed DEF Except
<1>3. CASE Mine.exists /\ dir' = [dir EXCEPT ![daemon.req].response = "error"] /\ daemon' = Idle
  BY <1>1, <1>3, AnswerStep DEF Except, Mine
<1>4. QED
  BY <1>2, <1>3 DEF Except

-----------------------------------------------------------------------------
(* The invariant *)

LEMMA OverwriteStep ==
  ASSUME ExchangeInv, Overwrite
  PROVE  ExchangeInv'
<1>1. TypeOK' /\ DaemonInv'
  BY DEF ExchangeInv, TypeOK, DaemonInv, Overwrite, workerVars
<1>2. \A q \in Requests : RequestInv(q)'
  BY Others DEF Overwrite, workerVars, StoredStays
<1>3. QED
  BY <1>1, <1>2 DEF ExchangeInv

LEMMA ExchangeInit ==
  ASSUME Init
  PROVE  ExchangeInv
<1>1. NoDirectory \in Directory /\ Idle \in DaemonState /\ DaemonInv
  BY ExchangeAssumption DEF NoDirectory, Directory, Idle, DaemonState, Pages, DaemonInv, Init, Contents
<1>2. TypeOK
  BY <1>1, ExchangeAssumption DEF Init, TypeOK, Directory, DaemonState, Pages, Contents
<1>3. ASSUME NEW r \in Requests PROVE RequestInv(r)
  <2>1. dir[r] = NoDirectory /\ at[r] = "start" /\ outcome[r] = "none" /\ next[r] = 1
        /\ daemon.req # r
    BY ExchangeAssumption DEF Init, Idle
  <2>2. StoredInv(r)
    BY <2>1, ExchangeAssumption DEF StoredInv, Pages
  <2>3. QED
    BY <2>1, <2>2 DEF RequestInv, DirInv, HandOverInv, RenderInv, AnswerInv, EndInv, NoDirectory
<1>4. QED
  BY <1>1, <1>2, <1>3 DEF ExchangeInv

LEMMA ExchangeNext ==
  ASSUME ExchangeInv, [Next]_vars
  PROVE  ExchangeInv'
<1>1. ASSUME NEW r \in Requests, Worker(r) \/ WorkerFails(r) \/ WorkerCrash(r)
      PROVE  ExchangeInv'
  BY <1>1, MakeDirectoryStep, WriteInputStep, SubmitStep, AnsweredStep, TimeOutStep, CancelledStep,
     StorePageStep, UnlinkStep, RemoveOutputStep, RemoveDirectoryStep, WorkerFailsStep,
     WorkerCrashStep DEF Worker
<1>2. CASE Daemon
  BY <1>2, TakeStep, ReadRequestStep, MakeOutputStep, CheckInputStep, RenderPageStep,
     WriteManifestStep, RespondStep, ExceptStep, DaemonRestartStep DEF Daemon
<1>3. CASE DaemonCrash
  BY <1>3, DaemonCrashStep
<1>4. CASE Overwrite
  BY <1>4, OverwriteStep
<1>5. CASE UNCHANGED vars
  <2>1. TypeOK' /\ DaemonInv'
    BY <1>5 DEF ExchangeInv, TypeOK, DaemonInv, vars, workerVars
  <2>2. \A q \in Requests : RequestInv(q)'
    BY <1>5, Others DEF vars, workerVars, StoredStays
  <2>3. QED
    BY <2>1, <2>2 DEF ExchangeInv
<1>6. QED
  BY <1>1, <1>2, <1>3, <1>4, <1>5 DEF Next

\* ExchangeInv holds in every state that workers in prepare and the daemon can reach,
\* kills of either included.
THEOREM ExchangeInductive == Spec => []ExchangeInv
<1>1. Init => ExchangeInv
  BY ExchangeInit
<1>2. ExchangeInv /\ [Next]_vars => ExchangeInv'
  BY ExchangeNext
<1>3. QED
  BY <1>1, <1>2, PTL DEF Spec

\* Types of the exchange: a directory that does not exist has nothing in it, although
\* rmtree and the daemon work in it at once.
THEOREM ExchangeTypeCorrect == Spec => []TypeOK
<1>1. ExchangeInv => TypeOK
  BY DEF ExchangeInv
<1>2. QED
  BY <1>1, ExchangeInductive, PTL

\* A prepare that returns pages has stored all of them, rendered from the declared file
\* (_upload_pages, sha256 of validate_and_render).
THEOREM PagesAreDeclared == Spec => []PreparedPages
<1>1. ExchangeInv => PreparedPages
  BY DEF ExchangeInv, RequestInv, StoredInv, PreparedPages
<1>2. QED
  BY <1>1, ExchangeInductive, PTL

\* A worker that read the response finds the manifest and every page (process_request
\* answers last and takes a request once).
THEOREM AnswersAreReadable == Spec => []AnswerReadable
<1>1. ExchangeInv => AnswerReadable
  BY DEF ExchangeInv, RequestInv, AnswerInv, AnswerReadable
<1>2. QED
  BY <1>1, ExchangeInductive, PTL

\* rmtree removes the directory of an exchange for good, unless the worker was killed or
\* gave up on the daemon.
THEOREM AnsweredIsRemoved == Spec => []AnsweredLeavesNothing
<1>1. ExchangeInv => AnsweredLeavesNothing
  BY DEF ExchangeInv, TypeOK, RequestInv, EndInv, AnsweredLeavesNothing
<1>2. QED
  BY <1>1, ExchangeInductive, PTL
=============================================================================
