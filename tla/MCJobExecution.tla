--------------------------- MODULE MCJobExecution ---------------------------
(***************************************************************************)
(* Instances of JobExecution for TLC.  Workers and clients are symmetric   *)
(* model values.  The view identifies states that differ only in the       *)
(* value of revisions: the row's revision grows with every write, so all   *)
(* that a step can tell is whether a snapshot is still current, and a      *)
(* snapshot that is not can never become current again.                    *)
(***************************************************************************)
EXTENDS JobExecution, TLC

Symmetry == Permutations(Workers) \cup Permutations(Clients)

Freshness(j) == [j EXCEPT !.revision = IF @ = job.revision THEN 1 ELSE 0]

\* A worker's snapshot is dead between messages and where process() has returned.
WorkerView(w) ==
  <<pc[w], IF pc[w] = "idle" THEN <<>> ELSE <<msg[w], rec[w]>>,
    IF pc[w] \in {"idle", "load", "conflict", "done"} THEN NewJob ELSE Freshness(snap[w]),
    todo[w], pend[w], built[w]>>

ClientView(c) ==
  <<apc[c], IF apc[c] = "idle" THEN <<>> ELSE <<aop[c], atry[c]>>,
    IF apc[c] = "save" THEN Freshness(asnap[c]) ELSE NewJob>>

RevisionView ==
  <<Freshness(job), claimed, terminals, outbox, partitionVars, boundVars,
    [w \in Workers |-> WorkerView(w)], [c \in Clients |-> ClientView(c)]>>
=============================================================================
