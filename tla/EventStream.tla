---------------------------- MODULE EventStream ----------------------------
(***************************************************************************)
(* Live updates of one job: the stream of job_events that router.py sends  *)
(* over a connection, the browser's subscriber (sse.ts) that reconnects    *)
(* with Last-Event-ID, and the hooks (useWorkspace.ts) that merge events   *)
(* with the answers to polls into the job the user sees.                   *)
(*                                                                         *)
(* An event is the pair of status and attempt it reports; its sequence     *)
(* number is its place in the log.  A save commits the row and its event   *)
(* together, so the row is what the last event says.                       *)
(***************************************************************************)
EXTENDS Naturals, Sequences, FiniteSetsExt

CONSTANTS PageLimit,   \* LIMIT of list_after
          Polls,       \* bound: outstanding requests for the job besides the refresh
          RefreshSlot, \* the request of the periodic refresh
          MaxEvents,   \* bound: events of the job
          MaxLosses    \* bound: connections broken or refused, requests failing

ASSUME StreamAssumption ==
  /\ PageLimit \in Nat \ {0} /\ MaxEvents \in Nat \ {0} /\ MaxLosses \in Nat
  /\ RefreshSlot \notin Polls

VARIABLES
  log,       \* job_events of the job
  spc,       \* where generate() has got to, "none" when no stream is open
  sent,      \* its variable sequence
  upto,      \* sequence of the last event in pending
  endedAt,   \* 0, or the length of the log when generate() ended the stream
  wire,      \* events sent and not received
  sub,       \* the subscription: off, connecting, open, backoff, closed, refused
  last,      \* lastEventId, kept over subscriptions in lastEventIds
  final,     \* lastEventWasTerminal
  mounted,   \* the value of active the effect last ran with
  timer,     \* pollingTimer is set
  view,      \* the job the user sees
  req,       \* slot -> a request for the job and its answer
  losses

serverVars == <<spc, sent, upto, endedAt>>
subVars == <<sub, last, final, mounted, timer>>
vars == <<log, serverVars, wire, subVars, view, req, losses>>

\* "running" stands for every state a worker takes a job through, "failed" for both
\* ends a job can be retried from (failed, cancelled).
Ended == {"succeeded", "failed"}
Statuses == {"queued", "running", "retrying"} \cup Ended
Events == [status : Statuses, attempt : Nat]

Row == log[Len(log)]
Over(e) == e.status \in Ended

Slots == Polls \cup {RefreshSlot}
Free == [state |-> "free", at |-> 0]
Asked == [state |-> "asked", at |-> 0]

Queued == [status |-> "queued", attempt |-> 1]

\* The job was just created and is shown; the effect has not run yet.
Init ==
  /\ log = <<Queued>> /\ view = Queued
  /\ spc = "none" /\ sent = 0 /\ upto = 0 /\ endedAt = 0 /\ wire = <<>>
  /\ sub = "off" /\ last = 0 /\ final = FALSE /\ mounted = FALSE /\ timer = FALSE
  /\ req = [s \in Slots |-> Free] /\ losses = 0

-----------------------------------------------------------------------------
(* Writers of the row: workers and other users *)

\* A stale worker may still report on a page of a job that is over.
Progress ==
  /\ Len(log) < MaxEvents
  /\ log' = Append(log, IF Over(Row) THEN Row ELSE [Row EXCEPT !.status = "running"])
  /\ UNCHANGED <<serverVars, wire, subVars, view, req, losses>>

EndAttempt ==
  /\ Len(log) < MaxEvents /\ ~ Over(Row)
  /\ \E s \in Ended : log' = Append(log, [Row EXCEPT !.status = s])
  /\ UNCHANGED <<serverVars, wire, subVars, view, req, losses>>

Retried == [status |-> "retrying", attempt |-> Row.attempt + 1]

Retry ==
  /\ Len(log) < MaxEvents /\ Row.status = "failed"
  /\ log' = Append(log, Retried)
  /\ UNCHANGED <<serverVars, wire, subVars, view, req, losses>>

\* This user's retry: the answer carries the job, for onChanged to show.
RetryHere(s) ==
  /\ Len(log) < MaxEvents /\ Row.status = "failed" /\ view.status = "failed"
  /\ req[s] = Free
  /\ log' = Append(log, Retried)
  /\ req' = [req EXCEPT ![s] = [state |-> "read", at |-> Len(log) + 1]]
  /\ UNCHANGED <<serverVars, wire, subVars, view, losses>>

-----------------------------------------------------------------------------
(* generate() *)

\* Mutant: a page of the log is taken to be full.
Found_FullPage ==
  /\ Len(log) > sent
  /\ upto' = sent + PageLimit
  /\ spc' = "send"

\* What both list_after and wait_after find.
Found ==
  /\ Len(log) > sent
  /\ upto' = Min({Len(log), sent + PageLimit})
  /\ spc' = "send"

End == spc' = "none" /\ endedAt' = Len(log)

List ==
  /\ spc = "list"
  /\ \/ Found
     \/ Len(log) = sent /\ spc' = "wait" /\ UNCHANGED upto
  /\ UNCHANGED <<log, sent, endedAt, wire, subVars, view, req, losses>>

\* wait_after finds an event, or times out, perhaps just before one is written.
Wait ==
  /\ spc = "wait"
  /\ Found \/ (spc' = "heartbeat" /\ UNCHANGED upto)
  /\ UNCHANGED <<log, sent, endedAt, wire, subVars, view, req, losses>>

\* A job that is over ends the stream, its last event sent or not.
Heartbeat ==
  /\ spc = "heartbeat"
  /\ IF Over(Row) THEN End ELSE spc' = "list" /\ UNCHANGED endedAt
  /\ UNCHANGED <<log, sent, upto, wire, subVars, view, req, losses>>

Send ==
  /\ spc = "send"
  /\ sent' = sent + 1
  /\ wire' = Append(wire, sent + 1)
  /\ spc' = IF sent + 1 = upto THEN "check" ELSE "send"
  /\ UNCHANGED <<log, upto, endedAt, subVars, view, req, losses>>

\* Mutant: the attempt of the last event is not compared.
Check_AnyAttempt ==
  /\ spc = "check"
  /\ IF Over(Row) /\ log[sent].status = Row.status
     THEN End ELSE spc' = "list" /\ UNCHANGED endedAt
  /\ UNCHANGED <<log, sent, upto, wire, subVars, view, req, losses>>

\* The stream is complete when its last event ends the attempt the row is in.
Check ==
  /\ spc = "check"
  /\ IF Over(Row) /\ log[sent] = Row THEN End ELSE spc' = "list" /\ UNCHANGED endedAt
  /\ UNCHANGED <<log, sent, upto, wire, subVars, view, req, losses>>

-----------------------------------------------------------------------------
(* Requests for the job: polls and the refresh of the list *)

\* pollHandler asks for the job; not when Polls are outstanding, which bounds them.
Ask == \/ \E s \in Polls : req[s] = Free /\ req' = [req EXCEPT ![s] = Asked]
       \/ (\A s \in Polls : req[s] # Free) /\ UNCHANGED req

Refresh ==
  /\ req[RefreshSlot] = Free
  /\ req' = [req EXCEPT ![RefreshSlot] = Asked]
  /\ UNCHANGED <<log, serverVars, wire, subVars, view, losses>>

TimerPoll ==
  /\ timer /\ Ask
  /\ UNCHANGED <<log, serverVars, wire, subVars, view, losses>>

Read(s) ==
  /\ req[s] = Asked
  /\ req' = [req EXCEPT ![s] = [state |-> "read", at |-> Len(log)]]
  /\ UNCHANGED <<log, serverVars, wire, subVars, view, losses>>

\* upsertJob and setJobs replace what is shown, whatever it was.
Answer(s) ==
  /\ req[s].state = "read"
  /\ view' = log[req[s].at]
  /\ req' = [req EXCEPT ![s] = Free]
  /\ UNCHANGED <<log, serverVars, wire, subVars, losses>>

RequestFails(s) ==
  /\ req[s] # Free /\ losses < MaxLosses
  /\ losses' = losses + 1
  /\ req' = [req EXCEPT ![s] = Free]
  /\ UNCHANGED <<log, serverVars, wire, subVars, view>>

-----------------------------------------------------------------------------
(* subscribeJobEvents *)

\* Mutant: reconnecting starts the stream from its beginning.
Connect_FromStart ==
  /\ sub \in {"connecting", "backoff"}
  /\ sub' = "open" /\ final' = FALSE /\ timer' = FALSE
  /\ spc' = "list" /\ sent' = 0 /\ endedAt' = 0 /\ wire' = <<>>
  /\ UNCHANGED <<log, upto, last, mounted, view, req, losses>>

Connect ==
  /\ sub \in {"connecting", "backoff"}
  /\ sub' = "open" /\ final' = FALSE /\ timer' = FALSE
  /\ spc' = "list" /\ sent' = last /\ endedAt' = 0 /\ wire' = <<>>
  /\ UNCHANGED <<log, upto, last, mounted, view, req, losses>>

\* mergeJobEvent ignores events of an earlier attempt.
Merge(job, e) == IF e.attempt < job.attempt THEN job ELSE e

Receive ==
  /\ sub = "open" /\ wire # <<>>
  /\ last' = Head(wire) /\ wire' = Tail(wire)
  /\ final' = Over(log[Head(wire)])
  /\ view' = Merge(view, log[Head(wire)])
  /\ UNCHANGED <<log, serverVars, sub, mounted, timer, req, losses>>

\* onConnectionChange("reconnecting"): poll now, and from now on by a timer.
Reconnecting ==
  /\ sub' = "backoff" /\ timer' = TRUE
  /\ IF timer THEN UNCHANGED req ELSE Ask

\* The stream ends after its last event: over if that event was a terminal one.
StreamEnd ==
  /\ sub = "open" /\ wire = <<>> /\ endedAt # 0
  /\ IF final THEN sub' = "closed" /\ Ask /\ UNCHANGED timer ELSE Reconnecting
  /\ UNCHANGED <<log, serverVars, wire, last, final, mounted, view, losses>>

\* The connection breaks, or cannot be made: no answer, or one of a gateway.
Drop ==
  /\ sub \in {"connecting", "open", "backoff"} /\ losses < MaxLosses
  /\ losses' = losses + 1
  /\ Reconnecting
  /\ spc' = "none" /\ wire' = <<>>
  /\ UNCHANGED <<log, sent, upto, endedAt, last, final, mounted, view>>

\* The server answers the connection with an envelope that reports a failure, at status
\* 200 also when only a dependency of it is down for the moment, or with a status that
\* is not allowed.  The subscriber stops for good, whatever it has received so far, and
\* polls once; a polling timer that runs goes on.
Refused ==
  /\ sub \in {"connecting", "backoff"} /\ losses < MaxLosses
  /\ losses' = losses + 1
  /\ sub' = "refused" /\ Ask
  /\ UNCHANGED <<log, serverVars, wire, last, final, mounted, timer, view>>

\* Mutant: the effect does not depend on active, so nothing closes the subscription.
Effect_NeverCloses ==
  /\ mounted # ~ Over(view) /\ ~ mounted
  /\ mounted' = TRUE
  /\ sub' = "connecting"
  /\ UNCHANGED <<log, serverVars, wire, last, final, timer, view, req, losses>>

\* The effect of useJobSubscription runs when active has changed: it subscribes, or
\* closes the subscription, which polls once more.
Effect ==
  /\ mounted # ~ Over(view)
  /\ mounted' = ~ mounted
  /\ \/ /\ ~ mounted /\ sub' = "connecting"
        /\ UNCHANGED <<spc, wire, timer, req>>
     \/ /\ mounted /\ sub' = "off" /\ spc' = "none" /\ wire' = <<>> /\ timer' = FALSE
        /\ Ask
  /\ UNCHANGED <<log, sent, upto, endedAt, last, final, view, losses>>

-----------------------------------------------------------------------------
Writers == Progress \/ EndAttempt \/ Retry \/ \E s \in Polls : RetryHere(s)

Generate == List \/ Wait \/ Heartbeat \/ Send \/ Check

Next ==
  \/ Writers \/ Generate
  \/ Refresh \/ TimerPoll \/ \E s \in Slots : Read(s) \/ Answer(s) \/ RequestFails(s)
  \/ Connect \/ Receive \/ StreamEnd \/ Drop \/ Refused \/ Effect

Spec == Init /\ [][Next]_vars

\* The server runs, the browser runs its timers and effects, and requests are
\* answered; nobody owes an event, a retry or a poll by the reconnection timer.
Fairness ==
  /\ WF_vars(Generate) /\ WF_vars(Connect) /\ WF_vars(Receive) /\ WF_vars(StreamEnd)
  /\ WF_vars(Effect) /\ WF_vars(Refresh)
  /\ \A s \in Slots : WF_vars(Read(s) \/ Answer(s))

FairSpec == Spec /\ Fairness

-----------------------------------------------------------------------------
(* Properties *)

TypeOK ==
  /\ log \in Seq(Events) /\ log # <<>>
  /\ spc \in {"none", "list", "wait", "heartbeat", "send", "check"}
  /\ sent \in 0..Len(log) /\ upto \in Nat /\ endedAt \in Nat /\ last \in Nat
  /\ wire \in Seq(Nat)
  /\ sub \in {"off", "connecting", "open", "backoff", "closed", "refused"}
  /\ final \in BOOLEAN /\ mounted \in BOOLEAN /\ timer \in BOOLEAN
  /\ view \in Events
  /\ req \in [Slots -> [state : {"free", "asked", "read"}, at : Nat]]
  /\ losses \in Nat

\* Over any number of broken connections, subscriptions and pages of the log, the
\* subscriber receives every event once and in order.
EveryEventOnce == [][last' = last + 1]_last

\* A subscriber that takes the end of a stream for the end of the job was told the end
\* of the attempt that was current when the server ended the stream, never the end of an
\* earlier one.  (Besides, it stops when the server refuses the connection.)
StopsAtTheEnd ==
  sub = "closed" => \A i \in last..endedAt : Over(log[i]) /\ log[i] = log[last]

\* Once the job stays over, the user is shown how it ended and the subscription is
\* gone: no stale answer, lost or refused connection, or heartbeat keeps an old state
\* on the screen or the reconnection loop alive (App.tsx: what the server has recorded
\* is authoritative).
EndIsShown == <>[]Over(Row) => <>[](view = Row /\ sub = "off")
=============================================================================
