------------------------- MODULE EventStreamProofs -------------------------
(***************************************************************************)
(* The stream of a job's events delivers each event once, and a subscriber *)
(* that is not refused stops only when told the end of the current         *)
(* attempt: for any page size, any number of events, broken and refused    *)
(* connections and outstanding polls.                                      *)
(***************************************************************************)
EXTENDS EventStream, TLAPS

\* What is on the wire are the events between what the subscriber has and what the
\* server has sent; a stream exists only while the subscriber reads it.
WireInv ==
  /\ sub # "open" => spc = "none" /\ wire = <<>>
  /\ sub = "open" => sent = last + Len(wire) /\ \A i \in 1..Len(wire) : wire[i] = last + i
  /\ spc = "send" => sent < upto /\ upto <= Len(log)
  /\ last <= Len(log)
  /\ ~ mounted => sub = "off"

\* An answer under way was read from the row as some event left it.
ReqInv == \A s \in Slots : req[s].state = "read" => req[s].at \in 1..Len(log)

\* Attempts never go back, and nothing but a retry follows the end of an attempt.
LogInv ==
  \A i \in 1..Len(log), j \in 1..Len(log) :
    i <= j => /\ log[i].attempt <= log[j].attempt
              /\ Over(log[i]) /\ log[i].attempt = log[j].attempt => log[j] = log[i]

\* The subscriber has received, or will receive, an event over this connection.
Told == wire # <<>> \/ final

\* How far a stream can have got when the last event it sent is a terminal one.
EndInv ==
  /\ endedAt <= Len(log)
  /\ sub = "open" /\ endedAt # 0 => spc = "none"
  /\ spc = "check" => sent >= 1
  /\ sub \in {"open", "closed"} /\ final => last >= 1 /\ Over(log[last])
  /\ sub = "closed" => final
  /\ spc = "list" /\ Told /\ Over(log[sent]) => Len(log) > sent
  /\ spc \in {"wait", "heartbeat"} /\ Told => ~ Over(log[sent])
  /\ sub = "open" /\ endedAt # 0 /\ Told /\ Over(log[sent])
       => \A i \in sent..endedAt : log[i] = log[sent]

StreamInv == TypeOK /\ WireInv /\ ReqInv /\ LogInv /\ EndInv /\ StopsAtTheEnd

-----------------------------------------------------------------------------
\* The state of the stream starts out right.
LEMMA InitInv == Init => StreamInv
<1> SUFFICES ASSUME Init PROVE StreamInv
  OBVIOUS
<1> USE StreamAssumption DEF Init
<1>1. Queued \in Events /\ ~ Over(Queued)
  BY DEF Queued, Events, Statuses, Over, Ended
<1>2. log \in Seq(Events) /\ Len(log) = 1 /\ log[1] = Queued
  BY <1>1
<1>3. final \in BOOLEAN /\ mounted \in BOOLEAN /\ timer \in BOOLEAN
  BY Zenon
<1>4. TypeOK
  BY <1>1, <1>2, <1>3 DEF TypeOK, Free
<1>5. WireInv /\ ReqInv /\ EndInv /\ StopsAtTheEnd
  BY <1>2 DEF WireInv, ReqInv, EndInv, StopsAtTheEnd, Free, Told
<1>6. LogInv
  BY <1>1, <1>2 DEF LogInv, Events
<1>7. QED
  BY <1>4, <1>5, <1>6 DEF StreamInv

\* What a writer may add to the log.
Follows(e) ==
  /\ e \in Events
  /\ \/ e = Row
     \/ ~ Over(Row) /\ e.attempt = Row.attempt
     \/ e.attempt = Row.attempt + 1

\* Every writer appends one event that follows the row, and touches nothing else
\* except that an answer with the new row may be on its way.
LEMMA WriterStep ==
  ASSUME StreamInv, Writers
  PROVE  /\ \E e : Follows(e) /\ log' = Append(log, e)
         /\ UNCHANGED <<serverVars, wire, subVars, view, losses>>
         /\ req' \in [Slots -> [state : {"free", "asked", "read"}, at : Nat]]
         /\ \A s \in Slots : req'[s] = req[s] \/ req'[s].at = Len(log) + 1
<1> USE DEF StreamInv, TypeOK
<1>1. Row \in Events
  BY DEF Row
<1>2. Retried \in Events /\ Retried.attempt = Row.attempt + 1
  BY <1>1 DEF Retried, Events, Statuses
<1>3. \A s \in Statuses : /\ [Row EXCEPT !.status = s] \in Events
                          /\ [Row EXCEPT !.status = s].attempt = Row.attempt
  BY <1>1 DEF Events
<1>4. CASE Progress
  BY <1>1, <1>3, <1>4 DEF Progress, Follows, Statuses
<1>5. CASE EndAttempt
  BY <1>3, <1>5 DEF EndAttempt, Follows, Statuses
<1>6. CASE Retry
  BY <1>2, <1>6 DEF Retry, Follows
<1>7. ASSUME NEW s \in Polls, RetryHere(s)
      PROVE  /\ \E e : Follows(e) /\ log' = Append(log, e)
             /\ UNCHANGED <<serverVars, wire, subVars, view, losses>>
             /\ req' \in [Slots -> [state : {"free", "asked", "read"}, at : Nat]]
             /\ \A t \in Slots : req'[t] = req[t] \/ req'[t].at = Len(log) + 1
  BY <1>2, <1>7 DEF RetryHere, Follows, Slots
<1>8. QED
  BY <1>4, <1>5, <1>6, <1>7 DEF Writers

\* An event that follows the row keeps the log in order.
LEMMA AppendKeepsOrder ==
  ASSUME StreamInv, NEW e, Follows(e), log' = Append(log, e)
  PROVE  LogInv'
<1> USE DEF StreamInv, TypeOK
<1>1. /\ log' \in Seq(Events) /\ Len(log') = Len(log) + 1
      /\ \A i \in 1..Len(log) : log'[i] = log[i]
      /\ log'[Len(log) + 1] = e
  BY DEF Follows
<1>2. Len(log) \in 1..Len(log)
  OBVIOUS
<1> SUFFICES ASSUME NEW i \in 1..Len(log'), NEW j \in 1..Len(log'), i <= j
             PROVE  /\ log'[i].attempt <= log'[j].attempt
                    /\ Over(log'[i]) /\ log'[i].attempt = log'[j].attempt => log'[j] = log'[i]
  BY DEF LogInv, Over
<1>3. CASE j <= Len(log)
  <2>1. Len(log) \in Nat /\ LogInv
    OBVIOUS
  <2>2. i \in 1..Len(log) /\ j \in 1..Len(log)
    BY <1>1, <1>3, <2>1
  <2>3. log'[i] = log[i] /\ log'[j] = log[j]
    BY <1>1, <2>2
  <2> HIDE DEF StreamInv, TypeOK
  <2>4. QED
    BY <2>1, <2>2, <2>3 DEF LogInv
<1>4. CASE j = Len(log) + 1 /\ i = j
  BY <1>1, <1>4 DEF Follows, Events
<1>5. CASE j = Len(log) + 1 /\ i <= Len(log)
  <2>1. i \in 1..Len(log) /\ log'[i] = log[i] /\ log'[j] = e
    BY <1>1, <1>5
  <2>2. /\ log[i].attempt <= Row.attempt
        /\ Over(log[i]) /\ log[i].attempt = Row.attempt => Row = log[i]
    BY <1>2, <2>1 DEF LogInv, Row
  <2>3. log[i] \in Events /\ Row \in Events
    BY <2>1, <1>2 DEF Row
  <2>4. QED
    BY <2>1, <2>2, <2>3 DEF Follows, Events
<1>6. QED
  BY <1>1, <1>3, <1>4, <1>5

\* A writer keeps the invariant.
LEMMA WritersInv ==
  ASSUME StreamInv, Writers
  PROVE  StreamInv'
<1> USE DEF StreamInv, serverVars, subVars
<1>1. PICK e : Follows(e) /\ log' = Append(log, e)
  BY WriterStep
<1>2. /\ UNCHANGED <<spc, sent, upto, endedAt, wire, sub, last, final, mounted, timer, view, losses>>
      /\ req' \in [Slots -> [state : {"free", "asked", "read"}, at : Nat]]
      /\ \A s \in Slots : req'[s] = req[s] \/ req'[s].at = Len(log) + 1
  BY WriterStep
<1>3. /\ log' \in Seq(Events) /\ Len(log') = Len(log) + 1 /\ log' # <<>>
      /\ \A i \in 1..Len(log) : log'[i] = log[i]
  BY <1>1 DEF TypeOK, Follows
<1>4. LogInv'
  BY <1>1, AppendKeepsOrder
<1>5. TypeOK'
  BY <1>2, <1>3 DEF TypeOK
<1>6. WireInv'
  BY <1>2, <1>3 DEF TypeOK, WireInv
<1>7. ReqInv'
  <2> SUFFICES ASSUME NEW s \in Slots, req'[s].state = "read"
               PROVE  req'[s].at \in 1..Len(log')
    BY DEF ReqInv, Slots
  <2>1. Len(log) \in Nat
    BY DEF TypeOK
  <2>2. CASE req'[s] = req[s]
    BY <1>3, <2>1, <2>2 DEF ReqInv
  <2>3. CASE req'[s].at = Len(log) + 1
    BY <1>3, <2>1, <2>3
  <2>4. QED
    BY <1>2, <2>2, <2>3
<1>8. Told' <=> Told
  BY <1>2 DEF Told
<1>9. Told /\ sub = "open" => sent \in 1..Len(log)
  BY DEF TypeOK, WireInv, EndInv, Told
<1>10. EndInv'
  <2>1. Told /\ sub = "open" => log'[sent] = log[sent]
    BY <1>3, <1>9
  <2>2. sub \in {"open", "closed"} /\ final => log'[last] = log[last]
    BY <1>3 DEF TypeOK, WireInv, EndInv
  <2>3. spc # "none" => sub = "open"
    BY DEF WireInv
  <2>4. (sub = "open" /\ endedAt # 0 /\ Told /\ Over(log[sent])
           => \A i \in sent..endedAt : log[i] = log[sent])'
    <3> SUFFICES ASSUME sub = "open", endedAt # 0, Told, Over(log[sent]), NEW i \in sent..endedAt
                 PROVE  log'[i] = log'[sent]
      BY <1>2, <1>8, <2>1 DEF Over
    <3>1. i \in 1..Len(log) /\ log[i] = log[sent]
      BY <1>9 DEF TypeOK, EndInv
    <3>2. QED
      BY <1>3, <2>1, <3>1
  <2>5. QED
    BY <1>2, <1>3, <1>8, <2>1, <2>2, <2>3, <2>4 DEF TypeOK, EndInv, Over
<1>11. StopsAtTheEnd'
  BY <1>2, <1>3 DEF TypeOK, WireInv, EndInv, StopsAtTheEnd, Over
<1>12. QED
  BY <1>4, <1>5, <1>6, <1>7, <1>10, <1>11

-----------------------------------------------------------------------------
\* A page of the log ends within the log, beyond what was sent.
LEMMA PageFound ==
  ASSUME StreamInv, Found
  PROVE  upto' \in Nat /\ sent < upto' /\ upto' <= Len(log)
<1> DEFINE n == sent + PageLimit
<1>1. Len(log) \in Nat /\ sent \in Nat /\ n \in Nat /\ n > sent
  BY StreamAssumption DEF StreamInv, TypeOK
<1> HIDE DEF n
<1>2. \A a, b \in Nat : Min({a, b}) \in {a, b} /\ Min({a, b}) <= a
  <2> SUFFICES ASSUME NEW a \in Nat, NEW b \in Nat
               PROVE  Min({a, b}) \in {a, b} /\ Min({a, b}) <= a
    OBVIOUS
  <2>1. \E x \in {a, b} : \A y \in {a, b} : x <= y
    OBVIOUS
  <2>2. QED
    BY <2>1 DEF Min
<1>3. upto' = Min({Len(log), n}) /\ Len(log) > sent
  BY DEF Found, n
<1>4. QED
  BY <1>1, <1>2, <1>3

\* generate() keeps the invariant.
LEMMA GenerateInv ==
  ASSUME StreamInv, Generate
  PROVE  StreamInv'
<1> USE DEF StreamInv, subVars
<1>1. UNCHANGED <<log, sub, last, final, mounted, timer, view, req, losses>>
  BY DEF Generate, List, Wait, Heartbeat, Send, Check
<1>2. sub = "open" /\ endedAt = 0
  BY DEF Generate, List, Wait, Heartbeat, Send, Check, WireInv, EndInv
<1>3. LogInv' /\ ReqInv' /\ StopsAtTheEnd'
  BY <1>1, <1>2 DEF LogInv, ReqInv, StopsAtTheEnd, Over
<1>4. Len(log) \in Nat /\ Len(log) > 0 /\ Len(wire) \in Nat
  BY DEF TypeOK
<1>5. CASE Found /\ UNCHANGED <<sent, endedAt, wire>>
  <2>1. upto' \in Nat /\ sent < upto' /\ upto' <= Len(log) /\ spc' = "send"
    BY <1>5, PageFound DEF Found
  <2>2. TypeOK'
    BY <1>1, <1>5, <2>1 DEF TypeOK
  <2>3. WireInv'
    BY <1>1, <1>2, <1>5, <2>1 DEF WireInv
  <2>4. EndInv'
    BY <1>1, <1>2, <1>5, <2>1 DEF EndInv, Told, Over
  <2>5. QED
    BY <1>3, <2>2, <2>3, <2>4
<1>6. CASE /\ spc' \in {"list", "wait", "heartbeat"}
           /\ UNCHANGED <<sent, upto, endedAt, wire>>
           /\ Told /\ Over(log[sent]) => spc' = "list" /\ Len(log) > sent
  <2>1. TypeOK'
    BY <1>1, <1>6 DEF TypeOK
  <2>2. WireInv'
    BY <1>1, <1>2, <1>6 DEF WireInv
  <2>3. EndInv'
    BY <1>1, <1>2, <1>6 DEF EndInv, Told, Over
  <2>4. QED
    BY <1>3, <2>1, <2>2, <2>3
<1>7. CASE /\ End /\ UNCHANGED <<sent, upto, wire>>
           /\ Told /\ Over(log[sent]) => sent \in 1..Len(log) /\ log[sent] = Row
  <2>1. TypeOK'
    BY <1>1, <1>4, <1>7 DEF TypeOK, End
  <2>2. WireInv'
    BY <1>1, <1>2, <1>7 DEF WireInv, End
  <2>3. ASSUME Told, Over(log[sent]), NEW i \in sent..Len(log)
        PROVE  log[i] = log[sent]
    <3>1. i \in 1..Len(log) /\ Len(log) \in 1..Len(log) /\ sent \in 1..Len(log) /\ log[sent] = log[Len(log)]
      BY <1>4, <1>7, <2>3 DEF Row
    <3>2. log[sent].attempt <= log[i].attempt /\ log[i].attempt <= log[Len(log)].attempt
      BY <3>1, <2>3 DEF LogInv
    <3>3. log[sent].attempt \in Nat /\ log[i].attempt \in Nat
      <4>1. log[sent] \in Events /\ log[i] \in Events
        BY <3>1 DEF TypeOK
      <4>2. QED
        BY <4>1 DEF Events
    <3>4. log[sent].attempt = log[i].attempt
      BY <3>1, <3>2, <3>3
    <3>5. QED
      BY <3>1, <3>4, <2>3 DEF LogInv
  <2>4. EndInv'
    BY <1>1, <1>2, <1>4, <1>7, <2>3 DEF EndInv, Told, Over, End
  <2>5. QED
    BY <1>3, <2>1, <2>2, <2>4
<1>8. CASE List
  <2>1. CASE Len(log) = sent /\ spc' = "wait" /\ UNCHANGED upto
    BY <1>6, <1>8, <2>1 DEF List, EndInv
  <2>2. QED
    BY <1>5, <1>8, <2>1 DEF List
<1>9. CASE Wait
  BY <1>5, <1>6, <1>9 DEF Wait, EndInv
<1>10. CASE Heartbeat
  BY <1>6, <1>7, <1>10 DEF Heartbeat, EndInv
<1>11. CASE Send
  <2>1. sent < upto /\ upto <= Len(log) /\ spc' \in {"send", "check"}
    BY <1>11 DEF Send, WireInv
  <2>2. sent' = sent + 1 /\ UNCHANGED <<upto, endedAt>> /\ wire' = Append(wire, sent + 1)
    BY <1>11 DEF Send
  <2>3. TypeOK'
    BY <1>1, <2>1, <2>2 DEF TypeOK
  <2>4. WireInv'
    <3>1. /\ Len(wire') = Len(wire) + 1 /\ wire'[Len(wire) + 1] = sent + 1
          /\ \A i \in 1..Len(wire) : wire'[i] = wire[i]
      BY <2>2 DEF TypeOK
    <3>2. sent = last + Len(wire) /\ sent \in Nat /\ last \in Nat
      BY <1>2 DEF WireInv, TypeOK
    <3>3. \A i \in 1..Len(wire') : wire'[i] = last + i
      BY <1>2, <1>4, <3>1, <3>2 DEF WireInv
    <3>4. spc' = "send" => sent' < upto'
      BY <1>11, <2>1, <3>2 DEF Send, TypeOK
    <3>5. QED
      BY <1>1, <1>2, <1>4, <2>1, <2>2, <3>1, <3>2, <3>3, <3>4 DEF WireInv, TypeOK
  <2>5. EndInv'
    BY <1>1, <1>2, <2>1, <2>2 DEF EndInv, TypeOK, Over
  <2>6. QED
    BY <1>3, <2>3, <2>4, <2>5
<1>12. CASE Check
  <2>1. sent \in 1..Len(log)
    BY <1>12 DEF Check, EndInv, TypeOK
  <2>2. CASE Over(Row) /\ log[sent] = Row
    BY <1>7, <1>12, <2>1, <2>2 DEF Check
  <2>3. CASE ~ (Over(Row) /\ log[sent] = Row)
    <3>1. Over(log[sent]) => Len(log) > sent
      BY <2>1, <2>3, <1>4 DEF Row
    <3>2. QED
      BY <1>6, <1>12, <2>3, <3>1 DEF Check
  <2>4. QED
    BY <2>2, <2>3
<1>13. QED
  BY <1>8, <1>9, <1>10, <1>11, <1>12 DEF Generate

-----------------------------------------------------------------------------
\* req may hold these answers next: requests still there, asked for, or read now.
ReqStep ==
  /\ req' \in [Slots -> [state : {"free", "asked", "read"}, at : Nat]]
  /\ \A s \in Slots : req'[s] \in {req[s], Free, Asked, [state |-> "read", at |-> Len(log)]}

\* Asking for the job leaves requests that are still there, or asked for.
LEMMA AskStep ==
  ASSUME TypeOK, Ask \/ UNCHANGED req
  PROVE  ReqStep
<1>1. Asked \in [state : {"free", "asked", "read"}, at : Nat]
  BY DEF Asked
<1>2. CASE UNCHANGED req
  BY <1>2 DEF TypeOK, ReqStep
<1>3. ASSUME NEW s \in Polls, req' = [req EXCEPT ![s] = Asked]
      PROVE  ReqStep
  BY <1>1, <1>3 DEF TypeOK, ReqStep
<1>4. QED
  BY <1>2, <1>3 DEF Ask

\* Such a step keeps what is known of the answers.
LEMMA ReqStepInv ==
  ASSUME TypeOK, ReqInv, ReqStep, UNCHANGED log
  PROVE  ReqInv'
<1> SUFFICES ASSUME NEW s \in Slots, req'[s].state = "read"
             PROVE  req'[s].at \in 1..Len(log)
  BY DEF ReqInv, Slots
<1>1. Len(log) \in Nat /\ Len(log) > 0
  BY DEF TypeOK
<1>2. req'[s] = req[s] \/ req'[s] = [state |-> "read", at |-> Len(log)]
  BY DEF ReqStep, Free, Asked
<1>3. QED
  BY <1>1, <1>2 DEF ReqInv

\* Requests and their answers keep the invariant.
LEMMA RequestsInv ==
  ASSUME StreamInv,
         Refresh \/ TimerPoll \/ \E s \in Slots : Read(s) \/ Answer(s) \/ RequestFails(s)
  PROVE  StreamInv'
<1> USE DEF StreamInv, serverVars, subVars
<1>1. UNCHANGED <<log, spc, sent, upto, endedAt, wire, sub, last, final, mounted, timer>>
  BY DEF Refresh, TimerPoll, Read, Answer, RequestFails
<1>2. WireInv' /\ LogInv' /\ EndInv' /\ StopsAtTheEnd'
  BY <1>1 DEF WireInv, LogInv, EndInv, StopsAtTheEnd, Over, Told
<1>3. /\ Free \in [state : {"free", "asked", "read"}, at : Nat]
      /\ Asked \in [state : {"free", "asked", "read"}, at : Nat]
      /\ [state |-> "read", at |-> Len(log)] \in [state : {"free", "asked", "read"}, at : Nat]
  BY DEF Free, Asked, TypeOK
<1>4. ReqStep /\ view' \in Events /\ losses' \in Nat
  <2>1. CASE TimerPoll
    BY <2>1, AskStep DEF TimerPoll, TypeOK
  <2>2. ASSUME NEW s \in Slots, NEW r \in {Free, Asked, [state |-> "read", at |-> Len(log)]},
               req' = [req EXCEPT ![s] = r]
        PROVE  ReqStep
    BY <1>3, <2>2 DEF ReqStep, TypeOK
  <2>3. CASE Refresh
    BY <2>2, <2>3 DEF Refresh, Slots, TypeOK
  <2>4. ASSUME NEW s \in Slots, Read(s)
        PROVE  ReqStep /\ view' \in Events /\ losses' \in Nat
    BY <2>2, <2>4 DEF Read, TypeOK
  <2>5. ASSUME NEW s \in Slots, Answer(s)
        PROVE  ReqStep /\ view' \in Events /\ losses' \in Nat
    <3>1. log[req[s].at] \in Events
      BY <2>5 DEF Answer, ReqInv, TypeOK
    <3>2. ReqStep
      BY <2>2, <2>5 DEF Answer
    <3>3. QED
      BY <2>5, <3>1, <3>2 DEF Answer, TypeOK
  <2>6. ASSUME NEW s \in Slots, RequestFails(s)
        PROVE  ReqStep /\ view' \in Events /\ losses' \in Nat
    <3>1. ReqStep
      BY <2>2, <2>6 DEF RequestFails
    <3>2. QED
      BY <2>6, <3>1 DEF RequestFails, TypeOK
  <2>7. QED
    BY <2>1, <2>3, <2>4, <2>5, <2>6
<1>5. TypeOK'
  BY <1>1, <1>4 DEF TypeOK, ReqStep
<1>6. QED
  BY <1>1, <1>2, <1>4, <1>5, ReqStepInv

-----------------------------------------------------------------------------
\* What the head of the wire is, and what is left of the wire without it.
LEMMA ReceiveStep ==
  ASSUME StreamInv, Receive
  PROVE  /\ last' = last + 1 /\ last' \in 1..Len(log) /\ Head(wire) = last + 1
         /\ wire' \in Seq(Nat) /\ Len(wire') = Len(wire) - 1
         /\ \A i \in 1..Len(wire') : wire'[i] = wire[i + 1]
<1> USE DEF StreamInv
<1>1. /\ sub = "open" /\ wire # <<>> /\ last' = Head(wire) /\ wire' = Tail(wire)
  BY DEF Receive
<1>2. wire \in Seq(Nat) /\ Len(wire) \in Nat /\ Len(wire) >= 1 /\ Head(wire) = wire[1]
  BY <1>1 DEF TypeOK
<1>3. /\ Tail(wire) \in Seq(Nat) /\ Len(Tail(wire)) = Len(wire) - 1
      /\ \A i \in 1..Len(Tail(wire)) : Tail(wire)[i] = wire[i + 1]
  BY <1>2
<1>4. /\ wire[1] = last + 1 /\ sent = last + Len(wire)
      /\ last \in Nat /\ sent \in 0..Len(log) /\ Len(log) \in Nat
  BY <1>1, <1>2 DEF WireInv, TypeOK
<1>5. QED
  BY <1>1, <1>2, <1>3, <1>4

\* Receiving an event keeps the invariant.
LEMMA ReceiveInv ==
  ASSUME StreamInv, Receive
  PROVE  StreamInv'
<1> USE DEF StreamInv, serverVars
<1>1. /\ UNCHANGED <<log, spc, sent, upto, endedAt, sub, mounted, timer, req, losses>>
      /\ sub = "open" /\ wire # <<>>
  BY DEF Receive
<1>2. /\ last' = last + 1 /\ last' \in 1..Len(log) /\ Head(wire) = last + 1
      /\ wire' \in Seq(Nat) /\ Len(wire') = Len(wire) - 1
      /\ \A i \in 1..Len(wire') : wire'[i] = wire[i + 1]
  BY ReceiveStep
<1>3. final' = Over(log[last']) /\ view' = Merge(view, log[last'])
  BY Zenon DEF Receive
<1>4. final' \in BOOLEAN
  <2>1. CASE Over(log[last'])
    BY <1>3, <2>1
  <2>2. CASE ~ Over(log[last'])
    BY <1>3, <2>2 DEF Over
  <2>3. QED
    BY <2>1, <2>2
<1>5. view' \in Events
  BY <1>2, <1>3 DEF Merge, TypeOK
<1>6. TypeOK'
  BY <1>1, <1>2, <1>4, <1>5 DEF TypeOK
<1>7. WireInv'
  BY <1>1, <1>2 DEF WireInv, TypeOK
<1>8. LogInv' /\ ReqInv' /\ StopsAtTheEnd'
  BY <1>1 DEF LogInv, ReqInv, StopsAtTheEnd, Over
<1>9. Told
  BY <1>1 DEF Told
<1>10. final' => Over(log[last'])
  BY <1>3
<1>11. EndInv'
  BY <1>1, <1>2, <1>9, <1>10 DEF EndInv, Over, TypeOK
<1>12. QED
  BY <1>6, <1>7, <1>8, <1>11

\* A connection, its loss or refusal, and the effect that opens and closes the subscription keep
\* the invariant.
LEMMA SubscriptionInv ==
  ASSUME StreamInv, Connect \/ StreamEnd \/ Drop \/ Refused \/ Effect
  PROVE  StreamInv'
<1> USE DEF StreamInv, serverVars
<1>1. UNCHANGED <<log, upto, last, view>>
  BY DEF Connect, StreamEnd, Drop, Refused, Effect
<1>2. LogInv'
  BY <1>1 DEF LogInv, Over
<1>3. Ask \/ UNCHANGED req
  BY DEF Connect, StreamEnd, Drop, Refused, Effect, Reconnecting
<1>4. ReqStep /\ ReqInv'
  BY <1>1, <1>3, AskStep, ReqStepInv
<1>5. losses' \in Nat
  BY DEF Connect, StreamEnd, Drop, Refused, Effect, TypeOK
<1>6. CASE Connect
  <2>1. /\ sub' = "open" /\ final' = FALSE /\ timer' = FALSE /\ spc' = "list"
        /\ sent' = last /\ endedAt' = 0 /\ wire' = <<>> /\ UNCHANGED mounted
    BY <1>6 DEF Connect
  <2>2. final' \in BOOLEAN /\ timer' \in BOOLEAN
    BY <2>1, Zenon
  <2>3. TypeOK'
    BY <1>1, <1>4, <1>5, <2>1, <2>2 DEF TypeOK, WireInv, ReqStep
  <2>4. WireInv' /\ StopsAtTheEnd'
    BY <1>1, <2>1, <1>6 DEF WireInv, StopsAtTheEnd, TypeOK, Connect
  <2>5. EndInv'
    BY <1>1, <2>1 DEF EndInv, Told, TypeOK
  <2>6. QED
    BY <1>2, <1>4, <2>3, <2>4, <2>5
<1>7. CASE Drop
  <2>1. /\ sub' = "backoff" /\ timer' = TRUE /\ spc' = "none" /\ wire' = <<>>
        /\ UNCHANGED <<sent, endedAt, final, mounted>>
    BY <1>7 DEF Drop, Reconnecting
  <2>2. timer' \in BOOLEAN
    BY <2>1, Zenon
  <2>3. TypeOK'
    BY <1>1, <1>4, <1>5, <2>1, <2>2 DEF TypeOK, ReqStep
  <2>4. WireInv' /\ EndInv' /\ StopsAtTheEnd'
    BY <1>1, <1>7, <2>1 DEF WireInv, EndInv, StopsAtTheEnd, Drop
  <2>5. QED
    BY <1>2, <1>4, <2>3, <2>4
<1>8. CASE Effect
  <2>1. UNCHANGED <<sent, endedAt, final>> /\ mounted' = ~ mounted
    BY <1>8 DEF Effect
  <2>2. mounted' \in BOOLEAN
    BY <2>1, Zenon
  <2>3. \/ sub' = "connecting" /\ UNCHANGED <<spc, wire, timer>>
        \/ sub' = "off" /\ spc' = "none" /\ wire' = <<>> /\ timer' = FALSE
    BY <1>8 DEF Effect
  <2>4. timer' \in BOOLEAN
    BY <2>3, Zenon DEF TypeOK
  <2>5. TypeOK'
    <3>1. sub' \in {"connecting", "off"} /\ spc' \in {spc, "none"} /\ wire' \in {wire, <<>>}
      BY <2>3
    <3>2. UNCHANGED <<sent, endedAt, final>>
      BY <2>1
    <3>3. /\ sub' \in {"off", "connecting", "open", "backoff", "closed", "refused"} /\ wire' \in Seq(Nat)
          /\ spc' \in {"none", "list", "wait", "heartbeat", "send", "check"}
      <4>1. <<>> \in Seq(Nat) /\ wire \in Seq(Nat)
        BY DEF TypeOK
      <4>2. wire' \in Seq(Nat)
        BY <3>1, <4>1, Zenon
      <4>3. QED
        BY <3>1, <4>2 DEF TypeOK
    <3>4. final' \in BOOLEAN
      BY <3>2 DEF TypeOK
    <3>5. QED
      BY <1>1, <1>4, <1>5, <2>2, <2>4, <3>2, <3>3, <3>4 DEF TypeOK, ReqStep
  <2>6. CASE ~ mounted /\ sub' = "connecting" /\ UNCHANGED <<spc, wire>>
    <3>1. sub = "off" /\ spc = "none" /\ wire = <<>>
      BY <2>6 DEF WireInv
    <3>2. mounted'
      BY <2>1, <2>6
    <3>3. QED
      BY <1>1, <1>2, <1>4, <2>1, <2>5, <2>6, <3>1, <3>2 DEF WireInv, EndInv, StopsAtTheEnd
  <2>7. CASE sub' = "off" /\ spc' = "none" /\ wire' = <<>>
    BY <1>1, <1>2, <1>4, <2>1, <2>5, <2>7 DEF WireInv, EndInv, StopsAtTheEnd
  <2>8. QED
    BY <1>8, <2>6, <2>7 DEF Effect
<1>9. CASE StreamEnd
  <2>1. /\ sub = "open" /\ wire = <<>> /\ endedAt # 0
        /\ UNCHANGED <<spc, sent, endedAt, wire, final, mounted, losses>>
    BY <1>9 DEF StreamEnd
  <2>2. sent = last /\ spc = "none"
    BY <2>1 DEF WireInv, EndInv, TypeOK
  <2>3. CASE final /\ sub' = "closed" /\ UNCHANGED timer
    <3>1. TypeOK'
      BY <1>1, <1>4, <2>1, <2>3 DEF TypeOK, ReqStep
    <3>2. WireInv' /\ EndInv'
      BY <1>1, <2>1, <2>2, <2>3 DEF WireInv, EndInv, Over
    <3>3. Over(log[last]) /\ \A i \in last..endedAt : log[i] = log[last]
      BY <2>1, <2>2, <2>3 DEF EndInv, Told
    <3>4. StopsAtTheEnd'
      BY <1>1, <2>1, <3>3 DEF StopsAtTheEnd, Over
    <3>5. QED
      BY <1>2, <1>4, <3>1, <3>2, <3>4
  <2>4. CASE sub' = "backoff" /\ timer' = TRUE
    <3>1. timer' \in BOOLEAN
      BY <2>4, Zenon
    <3>2. TypeOK'
      BY <1>1, <1>4, <2>1, <2>4, <3>1 DEF TypeOK, ReqStep
    <3>3. WireInv' /\ EndInv' /\ StopsAtTheEnd'
      BY <1>1, <2>1, <2>2, <2>4 DEF WireInv, EndInv, StopsAtTheEnd
    <3>4. QED
      BY <1>2, <1>4, <3>2, <3>3
  <2>5. QED
    BY <1>9, <2>3, <2>4 DEF StreamEnd, Reconnecting
<1>10. CASE Refused
  <2>1. /\ sub \in {"connecting", "backoff"} /\ sub' = "refused"
        /\ UNCHANGED <<spc, sent, endedAt, wire, final, mounted, timer>>
    BY <1>10 DEF Refused
  <2>2. TypeOK'
    BY <1>1, <1>4, <1>5, <2>1 DEF TypeOK, ReqStep
  <2>3. WireInv' /\ EndInv' /\ StopsAtTheEnd'
    BY <1>1, <2>1 DEF WireInv, EndInv, StopsAtTheEnd
  <2>4. QED
    BY <1>2, <1>4, <2>2, <2>3
<1>11. QED
  BY <1>6, <1>7, <1>8, <1>9, <1>10

-----------------------------------------------------------------------------
\* The invariant is inductive: every step of the stream, the subscriber and the
\* requests keeps it.
THEOREM StreamInductive == Spec => []StreamInv
<1>1. Init => StreamInv
  BY InitInv
<1>2. StreamInv /\ [Next]_vars => StreamInv'
  <2> SUFFICES ASSUME StreamInv, [Next]_vars PROVE StreamInv'
    OBVIOUS
  <2>1. CASE Next
    BY <2>1, WritersInv, GenerateInv, RequestsInv, ReceiveInv, SubscriptionInv DEF Next
  <2>2. CASE UNCHANGED vars
    BY <2>2 DEF vars, serverVars, subVars, StreamInv, TypeOK, WireInv, ReqInv, LogInv,
                EndInv, StopsAtTheEnd, Told, Over
  <2>3. QED
    BY <2>1, <2>2
<1>3. QED
  BY <1>1, <1>2, PTL DEF Spec

\* The variables of the stream keep their types: among others, generate() never
\* gets ahead of the log it pages through.
THEOREM StreamTypeCorrect == Spec => []TypeOK
<1>1. StreamInv => TypeOK
  BY DEF StreamInv
<1>2. QED
  BY <1>1, StreamInductive, PTL

\* Over reconnections with Last-Event-ID and pages of the log, the subscriber receives
\* every event once and in order.
THEOREM DeliveredOnce == Spec => EveryEventOnce
<1>1. StreamInv /\ [Next]_vars => [last' = last + 1]_last
  <2> SUFFICES ASSUME StreamInv, [Next]_vars, last' # last PROVE last' = last + 1
    OBVIOUS
  <2>1. CASE Receive
    BY <2>1, ReceiveStep
  <2>2. CASE ~ Receive
    BY <2>2 DEF Next, vars, subVars, Writers, Progress, EndAttempt, Retry, RetryHere,
                Generate, List, Wait, Heartbeat, Send, Check, Refresh, TimerPoll, Read,
                Answer, RequestFails, Connect, StreamEnd, Drop, Refused, Effect
  <2>3. QED
    BY <2>1, <2>2
<1>2. QED
  BY <1>1, StreamInductive, PTL DEF Spec, EveryEventOnce

\* A subscriber that takes the end of a stream for the end of the job was told the end
\* of the attempt that was current when the server ended the stream; one whose
\* connection the server refused stops without having been told an end.
THEOREM StopsRightly == Spec => []StopsAtTheEnd
<1>1. StreamInv => StopsAtTheEnd
  BY DEF StreamInv
<1>2. QED
  BY <1>1, StreamInductive, PTL
=============================================================================
