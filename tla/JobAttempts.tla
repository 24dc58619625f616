---------------------------- MODULE JobAttempts -----------------------------
(***************************************************************************)
(* What a user of the API relies on: a job is a succession of attempts.    *)
(* An attempt is open until it ends with one outcome, which is announced   *)
(* once and for good; an attempt that was asked to stop can only end as    *)
(* cancelled; and a user may try a job again that did not succeed.         *)
(***************************************************************************)
EXTENDS Naturals, Sequences

VARIABLES number,     \* the current attempt
          phase,      \* open, stopping, or how it ended
          announced   \* terminal events of the job, as its readers see them

Outcomes == {"succeeded", "failed", "cancelled"}

EventType(outcome) == CASE outcome = "cancelled" -> "job.cancelled"
                        [] outcome = "failed"    -> "job.failed"
                        [] OTHER                 -> "job.succeeded"

Init == number = 1 /\ phase = "open" /\ announced = <<>>

Stop == phase = "open" /\ phase' = "stopping" /\ UNCHANGED <<number, announced>>

End(outcome) ==
  /\ phase = "open" \/ (phase = "stopping" /\ outcome = "cancelled")
  /\ phase' = outcome
  /\ announced' = Append(announced, [type |-> EventType(outcome), attempt |-> number])
  /\ UNCHANGED number

TryAgain ==
  /\ phase \in {"failed", "cancelled"}
  /\ number' = number + 1 /\ phase' = "open"
  /\ UNCHANGED announced

Next == Stop \/ TryAgain \/ \E outcome \in Outcomes : End(outcome)

Spec == Init /\ [][Next]_<<number, phase, announced>>
=============================================================================
