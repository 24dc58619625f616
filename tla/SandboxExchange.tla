--------------------------- MODULE SandboxExchange ---------------------------
(***************************************************************************)
(* Pages of a document, rendered by a parser without network: workers      *)
(* (DirectorySandboxPreprocessor.prepare) leave the file and a request in  *)
(* a directory of a shared volume, the daemon takes the request, renders   *)
(* and answers there, the worker stores the pages and removes the          *)
(* directory.  A worker that has waited long enough removes it under the   *)
(* daemon's hands; worker and daemon may be killed anywhere.               *)
(*                                                                         *)
(* Every request has a directory of its own (uuid4); all requests here are *)
(* for the same attempt of one job, so they store under the same keys, as  *)
(* they do after the message of the job was delivered twice.               *)
(***************************************************************************)
EXTENDS Naturals

CONSTANTS Requests,    \* calls of prepare
          NumPages,    \* pages of the document
          MaxFailures, \* bound: storage calls of workers failing
          MaxCrashes,  \* bound: workers and daemon killed
          NoRequest

ASSUME ExchangeAssumption ==
  /\ NoRequest \notin Requests
  /\ NumPages \in Nat \ {0} /\ MaxFailures \in Nat /\ MaxCrashes \in Nat

VARIABLES
  valid,     \* the renderer can deal with the declared file
  source,    \* the uploaded object: a presigned URL may still replace it
  dir,       \* request -> its directory
  at,        \* request -> where its worker is
  next,      \* request -> the page to store next
  outcome,   \* request -> how prepare ends
  daemon,    \* what the daemon is doing, for which request, and the page it is at
  stored,    \* page -> the file its image in object storage was rendered from
  failures, crashes

workerVars == <<at, next, outcome>>
vars == <<valid, source, dir, workerVars, daemon, stored, failures, crashes>>

Pages == 1..NumPages
Contents == {"declared", "other"}

\* input, request.json or processing.json, output/ and what is in it, response.json
NoDirectory == [exists |-> FALSE, input |-> "none", request |-> "none", output |-> FALSE,
                pages |-> {}, manifest |-> FALSE, response |-> "none"]

Idle == [at |-> "scan", req |-> NoRequest, page |-> 1]

Init ==
  /\ valid \in BOOLEAN /\ source = "declared"
  /\ dir = [r \in Requests |-> NoDirectory]
  /\ at = [r \in Requests |-> "start"] /\ next = [r \in Requests |-> 1]
  /\ outcome = [r \in Requests |-> "none"]
  /\ daemon = Idle /\ stored = [n \in Pages |-> "none"]
  /\ failures = 0 /\ crashes = 0

\* The client replaces the object it had completed, or puts it back.
Overwrite ==
  /\ source' \in Contents \ {source}
  /\ UNCHANGED <<valid, dir, workerVars, daemon, stored, failures, crashes>>

-----------------------------------------------------------------------------
(* A worker: DirectorySandboxPreprocessor.prepare *)

Goto(r, label) == at' = [at EXCEPT ![r] = label]

\* Whatever way prepare ends, the finally clause comes next.
End(r, how) == Goto(r, "unlink") /\ outcome' = [outcome EXCEPT ![r] = how]

MakeDirectory(r) ==
  /\ at[r] = "start"
  /\ dir' = [dir EXCEPT ![r].exists = TRUE]
  /\ Goto(r, "fetch")
  /\ UNCHANGED <<valid, source, next, outcome, daemon, stored, failures, crashes>>

WriteInput(r) ==
  /\ at[r] = "fetch"
  /\ dir' = [dir EXCEPT ![r].input = source]
  /\ Goto(r, "submit")
  /\ UNCHANGED <<valid, source, next, outcome, daemon, stored, failures, crashes>>

\* request.tmp is renamed to request.json.
Submit(r) ==
  /\ at[r] = "submit"
  /\ dir' = [dir EXCEPT ![r].request = "ready"]
  /\ Goto(r, "wait")
  /\ UNCHANGED <<valid, source, next, outcome, daemon, stored, failures, crashes>>

\* response.json is there; an error ends the call.
Answered(r) ==
  /\ at[r] = "wait"
  /\ \/ dir[r].response = "ok" /\ Goto(r, "upload") /\ UNCHANGED outcome
     \/ dir[r].response = "error" /\ End(r, "error")
  /\ UNCHANGED <<valid, source, dir, next, daemon, stored, failures, crashes>>

\* The deadline has passed, and there is no response.
TimeOut(r) ==
  /\ at[r] = "wait" /\ dir[r].response = "none"
  /\ End(r, "gaveup")
  /\ UNCHANGED <<valid, source, dir, next, daemon, stored, failures, crashes>>

\* The worker is told to stop while prepare awaits: only the finally clause runs.
Cancelled(r) ==
  /\ at[r] \in {"fetch", "wait", "upload"}
  /\ End(r, "gaveup")
  /\ UNCHANGED <<valid, source, dir, next, daemon, stored, failures, crashes>>

\* _upload_pages: the manifest names the pages; what cannot be read ends the call.
StorePage(r) ==
  /\ at[r] = "upload"
  /\ \/ /\ dir[r].manifest /\ next[r] \in dir[r].pages
        /\ stored' = [stored EXCEPT ![next[r]] = dir[r].input]
        /\ next' = [next EXCEPT ![r] = @ + 1]
        /\ IF next[r] = NumPages THEN End(r, "pages") ELSE UNCHANGED <<at, outcome>>
     \/ /\ ~ (dir[r].manifest /\ next[r] \in dir[r].pages)
        /\ End(r, "error") /\ UNCHANGED <<stored, next>>
  /\ UNCHANGED <<valid, source, dir, daemon, failures, crashes>>

\* storage.get_bytes or put_bytes raises.
WorkerFails(r) ==
  /\ at[r] \in {"fetch", "upload"} /\ failures < MaxFailures
  /\ failures' = failures + 1
  /\ End(r, "error")
  /\ UNCHANGED <<valid, source, dir, next, daemon, stored, crashes>>

\* rmtree(ignore_errors=True): the files it has listed, then output/ if that is empty
\* by now, then the directory if that is.
Unlink(r) ==
  /\ at[r] = "unlink"
  /\ dir' = [dir EXCEPT ![r] = [NoDirectory EXCEPT !.exists = TRUE, !.output = dir[r].output]]
  /\ Goto(r, "rmoutput")
  /\ UNCHANGED <<valid, source, next, outcome, daemon, stored, failures, crashes>>

RemoveOutput(r) ==
  /\ at[r] = "rmoutput"
  /\ dir' = [dir EXCEPT ![r].output = @ /\ (dir[r].pages # {} \/ dir[r].manifest)]
  /\ Goto(r, "rmdir")
  /\ UNCHANGED <<valid, source, next, outcome, daemon, stored, failures, crashes>>

RemoveDirectory(r) ==
  /\ at[r] = "rmdir"
  /\ dir' = [dir EXCEPT ![r].exists = dir[r].output \/ dir[r].response # "none"]
  /\ Goto(r, "done")
  /\ UNCHANGED <<valid, source, next, outcome, daemon, stored, failures, crashes>>

WorkerCrash(r) ==
  /\ at[r] \notin {"start", "done", "killed"} /\ crashes < MaxCrashes
  /\ crashes' = crashes + 1
  /\ Goto(r, "killed")
  /\ UNCHANGED <<valid, source, dir, next, outcome, daemon, stored, failures>>

-----------------------------------------------------------------------------
(* The daemon: process_request and validate_and_render *)

Step(label) == daemon' = [daemon EXCEPT !.at = label]
Mine == dir[daemon.req]

\* The loop of main comes to a request and renames it, so that it is taken once.
Take(r) ==
  /\ daemon.at = "scan" /\ dir[r].request = "ready"
  /\ dir' = [dir EXCEPT ![r].request = "processing"]
  /\ daemon' = [at |-> "read", req |-> r, page |-> 1]
  /\ UNCHANGED <<valid, source, workerVars, stored, failures, crashes>>

ReadRequest ==
  /\ daemon.at = "read"
  /\ Step(IF Mine.request = "processing" THEN "mkdir" ELSE "except")
  /\ UNCHANGED <<valid, source, dir, workerVars, stored, failures, crashes>>

\* Mutant: only output/ is made.
MakeOutput_NoParents ==
  /\ daemon.at = "mkdir"
  /\ dir' = [dir EXCEPT ![daemon.req].output = TRUE]
  /\ Step("hash")
  /\ UNCHANGED <<valid, source, workerVars, stored, failures, crashes>>

\* output.mkdir(parents=True) makes the directory again if the worker has removed it.
MakeOutput ==
  /\ daemon.at = "mkdir"
  /\ dir' = [dir EXCEPT ![daemon.req].exists = TRUE, ![daemon.req].output = TRUE]
  /\ Step("hash")
  /\ UNCHANGED <<valid, source, workerVars, stored, failures, crashes>>

\* Mutant: the hash of the request is not compared.
CheckInput_AnyHash ==
  /\ daemon.at = "hash"
  /\ Step(IF Mine.input # "none" THEN "render" ELSE "except")
  /\ UNCHANGED <<valid, source, dir, workerVars, stored, failures, crashes>>

\* sha256 of the input against the request.
CheckInput ==
  /\ daemon.at = "hash"
  /\ Step(IF Mine.input = "declared" THEN "render" ELSE "except")
  /\ UNCHANGED <<valid, source, dir, workerVars, stored, failures, crashes>>

\* render_pdf, normalize_image: the file is opened once more for the first page; a file
\* of the wrong type, or beyond a limit, is noticed there or at a later page.
RenderPage ==
  /\ daemon.at = "render"
  /\ \/ /\ Mine.output /\ (daemon.page = 1 => Mine.input # "none")
        /\ valid \/ daemon.page < NumPages
        /\ dir' = [dir EXCEPT ![daemon.req].pages = @ \cup {daemon.page}]
        /\ daemon' = IF daemon.page = NumPages THEN [daemon EXCEPT !.at = "manifest"]
                     ELSE [daemon EXCEPT !.page = @ + 1]
     \/ /\ ~ valid \/ ~ Mine.output \/ (daemon.page = 1 /\ Mine.input = "none")
        /\ Step("except") /\ UNCHANGED dir
  /\ UNCHANGED <<valid, source, workerVars, stored, failures, crashes>>

\* Mutant: the answer is given before the manifest is written.
WriteManifest_Late ==
  /\ daemon.at = "manifest"
  /\ IF Mine.response = "none"
     THEN dir' = [dir EXCEPT ![daemon.req].response = IF Mine.exists THEN "ok" ELSE @]
          /\ UNCHANGED daemon
     ELSE dir' = [dir EXCEPT ![daemon.req].manifest = Mine.output] /\ Step("respond")
  /\ UNCHANGED <<valid, source, workerVars, stored, failures, crashes>>

WriteManifest ==
  /\ daemon.at = "manifest"
  /\ \/ /\ Mine.output
        /\ dir' = [dir EXCEPT ![daemon.req].manifest = TRUE]
        /\ Step("respond")
     \/ ~ Mine.output /\ Step("except") /\ UNCHANGED dir
  /\ UNCHANGED <<valid, source, workerVars, stored, failures, crashes>>

\* atomic_json; a directory that is gone takes the daemon to its exception handler ...
Respond ==
  /\ daemon.at = "respond"
  /\ \/ /\ Mine.exists
        /\ dir' = [dir EXCEPT ![daemon.req].response = "ok"]
        /\ daemon' = Idle
     \/ ~ Mine.exists /\ Step("except") /\ UNCHANGED dir
  /\ UNCHANGED <<valid, source, workerVars, stored, failures, crashes>>

\* Mutant: the handler waits for the directory.
Except_Waits ==
  /\ daemon.at = "except" /\ Mine.exists
  /\ dir' = [dir EXCEPT ![daemon.req].response = "error"]
  /\ daemon' = Idle
  /\ UNCHANGED <<valid, source, workerVars, stored, failures, crashes>>

\* ... whose own atomic_json then raises out of main.
Except ==
  /\ daemon.at = "except"
  /\ \/ /\ Mine.exists
        /\ dir' = [dir EXCEPT ![daemon.req].response = "error"]
        /\ daemon' = Idle
     \/ ~ Mine.exists /\ daemon' = [Idle EXCEPT !.at = "dead"] /\ UNCHANGED dir
  /\ UNCHANGED <<valid, source, workerVars, stored, failures, crashes>>

\* The daemon is killed, by a file that needs more memory than it has for example.
DaemonCrash ==
  /\ daemon.at # "dead" /\ crashes < MaxCrashes
  /\ crashes' = crashes + 1
  /\ daemon' = [Idle EXCEPT !.at = "dead"]
  /\ UNCHANGED <<valid, source, dir, workerVars, stored, failures>>

\* restart: unless-stopped
DaemonRestart ==
  /\ daemon.at = "dead"
  /\ daemon' = Idle
  /\ UNCHANGED <<valid, source, dir, workerVars, stored, failures, crashes>>

-----------------------------------------------------------------------------
Worker(r) ==
  \/ MakeDirectory(r) \/ WriteInput(r) \/ Submit(r) \/ Answered(r) \/ TimeOut(r) \/ Cancelled(r)
  \/ StorePage(r) \/ Unlink(r) \/ RemoveOutput(r) \/ RemoveDirectory(r)

Daemon ==
  \/ \E r \in Requests : Take(r)
  \/ ReadRequest \/ MakeOutput \/ CheckInput \/ RenderPage \/ WriteManifest
  \/ Respond \/ Except \/ DaemonRestart

Next ==
  \/ \E r \in Requests : Worker(r) \/ WorkerFails(r) \/ WorkerCrash(r)
  \/ Daemon \/ DaemonCrash \/ Overwrite

Spec == Init /\ [][Next]_vars

\* The daemon's loop goes on and its container is restarted; workers owe it nothing.
FairSpec == Spec /\ WF_vars(Daemon)

-----------------------------------------------------------------------------
(* Properties *)

TypeOK ==
  /\ valid \in BOOLEAN /\ source \in Contents
  /\ dir \in [Requests ->
       [exists : BOOLEAN, input : Contents \cup {"none"},
        request : {"none", "ready", "processing"}, output : BOOLEAN,
        pages : SUBSET Pages, manifest : BOOLEAN, response : {"none", "ok", "error"}]]
  /\ at \in [Requests -> {"start", "fetch", "submit", "wait", "upload", "unlink",
                          "rmoutput", "rmdir", "done", "killed"}]
  /\ next \in [Requests -> 1..(NumPages + 1)]
  /\ outcome \in [Requests -> {"none", "pages", "error", "gaveup"}]
  /\ daemon \in [at : {"scan", "read", "mkdir", "hash", "render", "manifest", "respond",
                       "except", "dead"},
                 req : Requests \cup {NoRequest}, page : Pages]
  /\ stored \in [Pages -> Contents \cup {"none"}]
  /\ failures \in Nat /\ crashes \in Nat
  /\ \A r \in Requests : ~ dir[r].exists => dir[r] = NoDirectory

\* A worker that has its pages has all of them in storage, rendered from the file that
\* was declared, although the object may have been replaced and another worker may be
\* storing under the same keys.
PreparedPages ==
  \A r \in Requests : outcome[r] = "pages" => \A n \in Pages : stored[n] = "declared"

\* A worker that was told its pages are ready finds them: the daemon answers last, and
\* nobody else touches the directory.
AnswerReadable ==
  \A r \in Requests : at[r] = "upload" => dir[r].manifest /\ dir[r].pages = Pages

\* An exchange leaves nothing on the volume when its worker was not killed and did not
\* give up on the daemon.
AnsweredLeavesNothing ==
  \A r \in Requests : at[r] = "done" /\ dir[r].exists => outcome[r] = "gaveup"

\* A request that was left for the daemon is taken or withdrawn, although others may
\* end the daemon.
RequestTaken ==
  \A r \in Requests : dir[r].request = "ready" ~> dir[r].request # "ready"
=============================================================================
