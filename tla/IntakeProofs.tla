----------------------------- MODULE IntakeProofs -----------------------------
(***************************************************************************)
(* From a file to a job, for any number of concurrent requests, job ids,   *)
(* writes and failures: one idempotency key has one job, a verdict about   *)
(* one file stands, and a session that retention deletes leaves nothing in *)
(* storage.                                                                *)
(***************************************************************************)
EXTENDS Intake, TLAPS

CallRecords == [at : Labels, verdict : {"none", "completed", "rejected"},
                opt : Options \cup {NoOption}, found : JobIds \cup {NoJob}]

\* The life of the session: one request opens it, nothing else happens before, URLs are
\* valid only while it is there and not due, and only what is due is claimed.
SessionInv ==
  /\ \A c \in Calls : call[c].at = "add" => session = "none"
  /\ \A c, d \in Calls : call[c].at = "add" /\ call[d].at = "add" => c = d
  /\ session \in {"none", "lost"} => \A c \in Calls : call[c].at \in {"idle", "add"}
  /\ urls => session \in Rows /\ ~ due
  /\ claimed => session \in Rows /\ due
  /\ due => session \in Rows \cup {"deleted"}
  /\ session = "deleted" => due
  /\ cleaner # "idle" => claimed

\* The multipart upload is assembled before there is a verdict and aborted before the
\* object is deleted; from then on nothing can write the object again.
StorageInv ==
  /\ open => multipart /\ session \notin {"completed", "rejected"}
  /\ \A c \in Calls : call[c].at \in {"stat", "get", "save"} => ~ open
  /\ cleaner \in {"object", "row"} => ~ open
  /\ cleaner = "row" => object = "none"

\* What a verdict says of the object, as long as that was written once.
Right(v) == /\ v = "completed" => object = "declared" /\ genuine
            /\ v = "rejected" => object \in {"other", "short"}

\* A verdict follows a write; settled or about to be saved, it is right about the
\* object, unless that was written again or retention has the session.
VerdictInv ==
  /\ object # "none" => writes >= 1
  /\ session \in {"completed", "rejected"} => writes >= 1
  /\ writes <= 1 /\ Visible => Right(session)
  /\ \A c \in Calls : call[c].at = "save" =>
       /\ writes >= 1 /\ call[c].verdict \in {"completed", "rejected"}
       /\ writes <= 1 /\ Visible => Right(call[c].verdict)

\* The unique index: one row with the key at a time; a job that was answered has been
\* there, and a request answers with a job it has found and options it was sent.
KeyInv ==
  /\ \A i, j \in JobIds : JobRow(i) /\ JobRow(j) => i = j
  /\ \A a \in answers : job[a.job] # "none"
  /\ \A c \in Calls :
       /\ call[c].at \in {"find", "load", "refind", "reload", "insert"} => call[c].opt \in Options
       /\ call[c].at \in {"load", "reload"} => call[c].found \in JobIds

IntakeInv ==
  TypeOK /\ SessionInv /\ StorageInv /\ VerdictInv /\ KeyInv /\ SessionLeavesNothing

-----------------------------------------------------------------------------
(* How a request moves on *)

\* The request is at a label with these locals, and no other request has moved.
Moves(c, l, v, o, f) ==
  /\ call' \in [Calls -> CallRecords]
  /\ call'[c].at = l /\ call'[c].verdict = v /\ call'[c].opt = o /\ call'[c].found = f
  /\ \A d \in Calls : d # c => call'[d] = call[d]

LEMMA RecordMoves ==
  ASSUME TypeOK, NEW c \in Calls, NEW r \in CallRecords, call' = [call EXCEPT ![c] = r]
  PROVE  Moves(c, r.at, r.verdict, r.opt, r.found)
BY DEF TypeOK, Moves, CallRecords

LEMMA GotoMoves ==
  ASSUME TypeOK, NEW c \in Calls, NEW l \in Labels, Goto(c, l)
  PROVE  Moves(c, l, call[c].verdict, call[c].opt, call[c].found)
<1> DEFINE r == [call[c] EXCEPT !.at = l]
<1>1. call[c] \in CallRecords
  BY DEF TypeOK, CallRecords
<1>2. r \in CallRecords /\ r.at = l /\ r.verdict = call[c].verdict /\ r.opt = call[c].opt
      /\ r.found = call[c].found
  BY <1>1 DEF CallRecords
<1>3. call' = [call EXCEPT ![c] = r]
  BY DEF Goto
<1> HIDE DEF r
<1>4. QED
  BY <1>2, <1>3, RecordMoves

LEMMA ReturnMoves ==
  ASSUME TypeOK, NEW c \in Calls, Return(c)
  PROVE  Moves(c, "idle", "none", NoOption, NoJob)
<1>1. NoCall \in CallRecords /\ NoCall.at = "idle" /\ NoCall.verdict = "none"
      /\ NoCall.opt = NoOption /\ NoCall.found = NoJob
  BY DEF NoCall, CallRecords, Labels
<1>2. QED
  BY <1>1, RecordMoves DEF Return

LEMMA JudgeMoves ==
  ASSUME TypeOK, NEW c \in Calls, NEW v \in {"completed", "rejected"}, Judge(c, v)
  PROVE  Moves(c, "save", v, call[c].opt, call[c].found)
<1> DEFINE r == [call[c] EXCEPT !.at = "save", !.verdict = v]
<1>1. call[c] \in CallRecords
  BY DEF TypeOK, CallRecords
<1>2. r \in CallRecords /\ r.at = "save" /\ r.verdict = v /\ r.opt = call[c].opt
      /\ r.found = call[c].found
  BY <1>1 DEF CallRecords, Labels
<1>3. call' = [call EXCEPT ![c] = r]
  BY <1>1 DEF Judge, TypeOK, CallRecords
<1> HIDE DEF r
<1>4. QED
  BY <1>2, <1>3, RecordMoves

-----------------------------------------------------------------------------
(* Each operation keeps the invariant *)

\* What TypeOK says of the Boolean variables, and of the others.
BoolOK == /\ multipart \in BOOLEAN /\ genuine \in BOOLEAN /\ claimed \in BOOLEAN
          /\ due \in BOOLEAN /\ urls \in BOOLEAN /\ open \in BOOLEAN

DataOK ==
  /\ session \in Rows \cup {"none", "lost", "deleted"}
  /\ parts \in Contents \cup {"none"} /\ object \in Contents \cup {"none"}
  /\ writes \in Nat /\ failures \in Nat
  /\ job \in [JobIds -> {"none", "live", "claimed", "deleted"}]
  /\ asked \in [JobIds -> Options \cup {NoOption}]
  /\ answers \subseteq [job : JobIds, opt : Options]
  /\ call \in [Calls -> CallRecords]
  /\ cleaner \in {"idle", "abort", "object", "row"}

LEMMA TypeParts == /\ TypeOK <=> BoolOK /\ DataOK
                   /\ TypeOK' <=> BoolOK' /\ DataOK'
<1>1. /\ declared \in BOOLEAN \X BOOLEAN <=> multipart \in BOOLEAN /\ genuine \in BOOLEAN
      /\ declared' \in BOOLEAN \X BOOLEAN <=> multipart' \in BOOLEAN /\ genuine' \in BOOLEAN
  BY DEF declared
<1>2. QED
  BY <1>1 DEF TypeOK, BoolOK, DataOK, CallRecords

\* Nothing has happened yet.
LEMMA InitInv == Init => IntakeInv
<1> SUFFICES ASSUME Init PROVE IntakeInv
  OBVIOUS
<1>1. NoCall \in CallRecords /\ NoCall.at = "idle"
  BY DEF NoCall, CallRecords, Labels
<1>2. BoolOK
  BY Zenon DEF Init, BoolOK
<1>3. DataOK
  BY <1>1 DEF Init, DataOK
<1>4. \A c \in Calls : call[c].at = "idle"
  BY <1>1 DEF Init
<1>5. SessionInv /\ StorageInv /\ SessionLeavesNothing
  BY <1>4 DEF Init, SessionInv, StorageInv, SessionLeavesNothing, Rows
<1>6. VerdictInv /\ KeyInv
  BY <1>4 DEF Init, VerdictInv, KeyInv, JobRow, Right, Visible, Rows
<1>7. QED
  BY <1>2, <1>3, <1>5, <1>6, TypeParts DEF IntakeInv

\* What the invariant says of one request, at label l with verdict v, options o and the
\* job f it has found.
CallOK(l, v, o, f) ==
  /\ l # "add" /\ (l # "idle" => session \notin {"none", "lost"})
  /\ l \in {"stat", "get", "save"} => ~ open
  /\ l = "save" => /\ writes >= 1 /\ v \in {"completed", "rejected"}
                   /\ writes <= 1 /\ Visible => Right(v)
  /\ l \in {"find", "load", "refind", "reload", "insert"} => o \in Options
  /\ l \in {"load", "reload"} => f \in JobIds

\* Every request that is past create_upload is in order.
LEMMA CallsAreOK ==
  ASSUME IntakeInv, NEW c \in Calls, call[c].at # "add"
  PROVE  CallOK(call[c].at, call[c].verdict, call[c].opt, call[c].found)
BY DEF IntakeInv, SessionInv, StorageInv, VerdictInv, KeyInv, CallOK

\* A request that only reads, or waits, has to be in order at its next label.
LEMMA RequestKeepsInv ==
  ASSUME IntakeInv, NEW c \in Calls, NEW l, NEW v, NEW o, NEW f, Moves(c, l, v, o, f),
         UNCHANGED <<declared, rowVars, storageVars, jobVars, cleaner, failures>>,
         CallOK(l, v, o, f)
  PROVE  IntakeInv'
<1> USE DEF IntakeInv, declared, rowVars, storageVars, jobVars, Moves
<1>1. TypeOK'
  <2>1. BoolOK /\ DataOK
    BY TypeParts
  <2>2. BoolOK'
    BY <2>1 DEF BoolOK
  <2>3. DataOK'
    BY <2>1 DEF DataOK
  <2>4. QED
    BY <2>2, <2>3, TypeParts
<1>2. SessionInv' /\ StorageInv' /\ SessionLeavesNothing'
  BY DEF SessionInv, StorageInv, SessionLeavesNothing, CallOK
<1>3. VerdictInv'
  BY DEF VerdictInv, CallOK, Visible, Right
<1>4. KeyInv'
  BY DEF KeyInv, CallOK, JobRow
<1>5. QED
  BY <1>1, <1>2, <1>3, <1>4

\* create_upload: the target, then the row.
LEMMA CreateUploadInv ==
  ASSUME IntakeInv, NEW c \in Calls, CreateUpload(c)
  PROVE  IntakeInv'
<1> USE DEF IntakeInv, declared, rowVars, storageVars, jobVars
<1>1. TypeOK /\ BoolOK /\ DataOK
  BY TypeParts
<1>2. session = "none" /\ ~ claimed /\ ~ due /\ ~ urls /\ cleaner = "idle"
  BY <1>1 DEF CreateUpload, CreateTarget, AddSession, AddFails, SessionInv, Rows
<1>3. \A d \in Calls : call[d].at \in {"idle", "add"} /\ (d # c => call[d].at = "idle")
  BY <1>2 DEF CreateUpload, CreateTarget, AddSession, AddFails, SessionInv
<1>4. /\ UNCHANGED <<declared, claimed, due, parts, object, writes, jobVars, cleaner, failures>>
      /\ urls' => session' = "pending"
      /\ session' \in {"none", "lost", "pending"} /\ (call'[c].at = "add" => session' = "none")
      /\ call'[c].at \in {"idle", "add"} /\ call' \in [Calls -> CallRecords]
      /\ \A d \in Calls : d # c => call'[d] = call[d]
  <2>1. CASE CreateTarget(c)
    <3>1. Moves(c, "add", call[c].verdict, call[c].opt, call[c].found)
      BY <1>1, <2>1, GotoMoves DEF CreateTarget, Labels
    <3>2. QED
      BY <1>2, <2>1, <3>1 DEF CreateTarget, Moves
  <2>2. CASE AddSession(c) \/ AddFails(c)
    <3>1. Moves(c, "idle", "none", NoOption, NoJob)
      BY <1>1, <2>2, ReturnMoves DEF AddSession, AddFails
    <3>2. QED
      BY <1>2, <2>2, <3>1 DEF AddSession, AddFails, Moves
  <2>3. QED
    BY <2>1, <2>2 DEF CreateUpload
<1>5. (open' => multipart) /\ urls' \in BOOLEAN /\ open' \in BOOLEAN
  <2>1. open => multipart
    BY DEF StorageInv
  <2>2. urls' = urls \/ urls' = TRUE
    BY DEF CreateUpload, CreateTarget, AddSession, AddFails
  <2>3. open' = open \/ open' = multipart
    BY DEF CreateUpload, CreateTarget, AddSession, AddFails
  <2>4. urls' \in BOOLEAN /\ open' \in BOOLEAN
    BY <1>1, <2>2, <2>3, Zenon DEF BoolOK
  <2>5. QED
    BY <2>1, <2>3, <2>4
<1>6. TypeOK'
  <2>1. BoolOK'
    BY <1>1, <1>4, <1>5 DEF BoolOK
  <2>2. DataOK'
    BY <1>1, <1>4 DEF DataOK, Rows
  <2>3. QED
    BY <2>1, <2>2, TypeParts
<1>7. SessionInv'
  BY <1>2, <1>3, <1>4 DEF SessionInv, Rows
<1>8. StorageInv' /\ SessionLeavesNothing'
  BY <1>2, <1>3, <1>4, <1>5 DEF StorageInv, SessionLeavesNothing
<1>9. VerdictInv' /\ KeyInv'
  BY <1>3, <1>4 DEF VerdictInv, KeyInv, JobRow, Right
<1>10. QED
  BY <1>6, <1>7, <1>8, <1>9

\* Nothing is at "idle" but what has no locals to keep in order.
LEMMA ReturnKeepsInv ==
  ASSUME IntakeInv, NEW c \in Calls, Return(c),
         UNCHANGED <<declared, rowVars, storageVars, jobVars, cleaner, failures>>
  PROVE  IntakeInv'
<1>1. Moves(c, "idle", "none", NoOption, NoJob)
  BY ReturnMoves DEF IntakeInv
<1>2. CallOK("idle", "none", NoOption, NoJob)
  BY DEF CallOK
<1>3. QED
  BY <1>1, <1>2, RequestKeepsInv

\* The steps of complete_upload that look at the row and at the object.
LEMMA LookInv ==
  ASSUME IntakeInv, NEW c \in Calls, CompleteRead(c) \/ Stat(c) \/ Get(c)
  PROVE  IntakeInv'
<1>1. TypeOK /\ BoolOK /\ DataOK
  BY TypeParts DEF IntakeInv
<1>2. UNCHANGED <<declared, rowVars, storageVars, jobVars, cleaner, failures>>
  BY DEF CompleteRead, Stat, Get
<1>3. CASE CompleteRead(c)
  <2>1. Moves(c, "assemble", call[c].verdict, call[c].opt, call[c].found)
    BY <1>1, <1>3, GotoMoves DEF CompleteRead, Labels
  <2>2. CallOK("assemble", call[c].verdict, call[c].opt, call[c].found)
    BY <1>3 DEF CompleteRead, CallOK
  <2>3. QED
    BY <1>2, <2>1, <2>2, RequestKeepsInv
<1>4. CASE (Stat(c) \/ Get(c)) /\ Return(c)
  BY <1>2, <1>4, ReturnKeepsInv
<1>5. CASE Stat(c) /\ Goto(c, "get")
  <2>1. Moves(c, "get", call[c].verdict, call[c].opt, call[c].found)
    BY <1>1, <1>5, GotoMoves DEF Labels
  <2>2. CallOK("get", call[c].verdict, call[c].opt, call[c].found)
    BY <1>5, CallsAreOK DEF Stat, CallOK
  <2>3. QED
    BY <1>2, <2>1, <2>2, RequestKeepsInv
<1>6. ASSUME NEW v \in {"completed", "rejected"}, Judge(c, v), Right(v), object # "none",
             call[c].at \in {"stat", "get"}
      PROVE  IntakeInv'
  <2>1. Moves(c, "save", v, call[c].opt, call[c].found)
    BY <1>1, <1>6, JudgeMoves
  <2>2. CallOK("save", v, call[c].opt, call[c].found)
    BY <1>6, CallsAreOK DEF CallOK, IntakeInv, VerdictInv
  <2>3. QED
    BY <1>2, <2>1, <2>2, RequestKeepsInv
<1>7. QED
  BY <1>1, <1>3, <1>4, <1>5, <1>6 DEF Stat, Get, Right, Validates, DataOK, Contents

\* storage.complete_upload: a multipart upload becomes the object, once.
LEMMA AssembleInv ==
  ASSUME IntakeInv, NEW c \in Calls, Assemble(c)
  PROVE  IntakeInv'
<1>1. TypeOK /\ BoolOK /\ DataOK
  BY TypeParts DEF IntakeInv
<1>2. session \notin {"none", "lost"}
  BY DEF Assemble, IntakeInv, SessionInv
<1>3. CASE Return(c) /\ UNCHANGED storageVars
  BY <1>3, ReturnKeepsInv DEF Assemble
<1>4. Goto(c, "stat") => Moves(c, "stat", call[c].verdict, call[c].opt, call[c].found)
  BY <1>1, GotoMoves DEF Labels
<1>5. CASE ~ multipart /\ Goto(c, "stat") /\ UNCHANGED storageVars
  <2>1. CallOK("stat", call[c].verdict, call[c].opt, call[c].found)
    BY <1>2, <1>5 DEF CallOK, IntakeInv, StorageInv
  <2>2. QED
    BY <1>4, <1>5, <2>1, RequestKeepsInv DEF Assemble
<1>6. CASE /\ multipart /\ open /\ parts # "none"
           /\ object' = parts /\ open' = FALSE /\ writes' = writes + 1
           /\ Goto(c, "stat") /\ UNCHANGED <<urls, parts>>
  <2> USE DEF IntakeInv
  <2>1. Moves(c, "stat", call[c].verdict, call[c].opt, call[c].found)
    BY <1>4, <1>6
  <2>2. UNCHANGED <<multipart, genuine, session, claimed, due, jobVars, cleaner, failures>>
    BY DEF Assemble, declared, rowVars
  <2>3. cleaner \notin {"object", "row"} /\ session \notin {"completed", "rejected", "deleted"}
        /\ \A d \in Calls : call[d].at \notin {"stat", "get", "save"}
    BY <1>6 DEF StorageInv, SessionLeavesNothing
  <2>4. open' \in BOOLEAN
    BY <1>6, Zenon
  <2>5. BoolOK'
    BY <1>1, <1>6, <2>2, <2>4 DEF BoolOK
  <2>6. DataOK'
    BY <1>1, <1>6, <2>1, <2>2 DEF DataOK, Moves, jobVars
  <2>7. SessionInv'
    BY <1>2, <1>6, <2>1, <2>2 DEF SessionInv, Moves
  <2>8. StorageInv' /\ SessionLeavesNothing'
    BY <1>6, <2>2, <2>3 DEF StorageInv, SessionLeavesNothing
  <2>9. VerdictInv'
    BY <1>1, <1>6, <2>1, <2>2, <2>3 DEF VerdictInv, Moves, DataOK, Right
  <2>10. KeyInv'
    BY <1>1, <2>1, <2>2 DEF KeyInv, Moves, JobRow, jobVars
  <2>11. QED
    BY <2>5, <2>6, <2>7, <2>8, <2>9, <2>10, TypeParts
<1>7. QED
  BY <1>3, <1>5, <1>6 DEF Assemble

\* uploads.save: the verdict is about the object as it still is.
LEMMA SaveVerdictInv ==
  ASSUME IntakeInv, NEW c \in Calls, SaveVerdict(c)
  PROVE  IntakeInv'
<1> USE DEF IntakeInv, rowVars, declared, storageVars, jobVars
<1>1. TypeOK /\ BoolOK /\ DataOK
  BY TypeParts
<1>2. Moves(c, "idle", "none", NoOption, NoJob)
  BY <1>1, ReturnMoves DEF SaveVerdict
<1>3. CASE ~ Visible
  <2>1. session' = session /\ UNCHANGED <<declared, claimed, due, storageVars, jobVars, cleaner, failures>>
    BY <1>3 DEF SaveVerdict
  <2>2. QED
    BY <2>1, ReturnKeepsInv DEF SaveVerdict
<1>4. CASE Visible
  <2> DEFINE v == call[c].verdict
  <2>1. /\ session' = v /\ v \in {"completed", "rejected"} /\ writes >= 1
        /\ writes <= 1 => Right(v)
    BY <1>4 DEF SaveVerdict, VerdictInv
  <2>2. UNCHANGED <<declared, claimed, due, storageVars, jobVars, cleaner, failures>>
    BY DEF SaveVerdict
  <2>3. ~ open /\ session \in Rows /\ ~ claimed /\ cleaner = "idle"
    BY <1>4 DEF SaveVerdict, StorageInv, SessionInv, Visible
  <2>4. BoolOK'
    BY <1>1, <2>2 DEF BoolOK
  <2>5. DataOK'
    BY <1>1, <1>2, <2>1, <2>2 DEF DataOK, Moves, Rows
  <2>6. SessionInv'
    BY <1>2, <2>1, <2>2, <2>3 DEF SessionInv, Moves, Rows
  <2>7. StorageInv' /\ SessionLeavesNothing'
    BY <1>2, <2>1, <2>2, <2>3 DEF StorageInv, SessionLeavesNothing, Moves
  <2>8. VerdictInv'
    BY <1>2, <1>4, <2>1, <2>2, <2>3 DEF VerdictInv, Moves, Right, Visible
  <2>9. KeyInv'
    BY <1>2, <2>2 DEF KeyInv, Moves, JobRow
  <2>10. QED
    BY <2>4, <2>5, <2>6, <2>7, <2>8, <2>9, TypeParts
<1>5. QED
  BY <1>3, <1>4

\* The steps of create_job up to the insert.
LEMMA FindInv ==
  ASSUME IntakeInv, NEW c \in Calls, CreateRead(c) \/ Find(c)
  PROVE  IntakeInv'
<1>1. TypeOK /\ BoolOK /\ DataOK
  BY TypeParts DEF IntakeInv
<1>2. UNCHANGED <<declared, rowVars, storageVars, jobVars, cleaner, failures>>
  BY DEF CreateRead, Find
<1>3. call[c] \in CallRecords
  BY <1>1 DEF DataOK
<1>4. CASE CreateRead(c)
  <2>1. PICK o \in Options : call' = [call EXCEPT ![c].at = "find", ![c].opt = o]
    BY <1>4 DEF CreateRead
  <2> DEFINE r == [call[c] EXCEPT !.at = "find", !.opt = o]
  <2>2. r \in CallRecords /\ r.at = "find" /\ r.opt = o
    BY <1>3 DEF CallRecords, Labels
  <2>3. call' = [call EXCEPT ![c] = r]
    BY <1>1, <1>3, <2>1 DEF DataOK, CallRecords
  <2>4. CallOK(r.at, r.verdict, r.opt, r.found)
    BY <1>4, <2>2 DEF CallOK, CreateRead
  <2> HIDE DEF r
  <2>5. Moves(c, r.at, r.verdict, r.opt, r.found)
    BY <1>1, <2>2, <2>3, RecordMoves
  <2>6. QED
    BY <1>2, <2>4, <2>5, RequestKeepsInv
<1>5. CASE Find(c) /\ \E j \in JobIds :
             call' = [call EXCEPT ![c].found = j, ![c].at = IF @ = "find" THEN "load" ELSE "reload"]
  <2>1. PICK j \in JobIds :
             call' = [call EXCEPT ![c].found = j, ![c].at = IF @ = "find" THEN "load" ELSE "reload"]
    BY <1>5
  <2> DEFINE r == [call[c] EXCEPT !.found = j, !.at = IF @ = "find" THEN "load" ELSE "reload"]
  <2>2. r \in CallRecords /\ r.at \in {"load", "reload"} /\ r.opt = call[c].opt /\ r.found = j
    BY <1>3 DEF CallRecords, Labels
  <2>3. call' = [call EXCEPT ![c] = r]
    BY <1>1, <1>3, <2>1 DEF DataOK, CallRecords
  <2>4. CallOK(r.at, r.verdict, r.opt, r.found)
    BY <1>5, <2>2, CallsAreOK DEF CallOK, Find
  <2> HIDE DEF r
  <2>5. Moves(c, r.at, r.verdict, r.opt, r.found)
    BY <1>1, <2>2, <2>3, RecordMoves
  <2>6. QED
    BY <1>2, <2>4, <2>5, RequestKeepsInv
<1>6. CASE Find(c) /\ Goto(c, "insert")
  <2>1. Moves(c, "insert", call[c].verdict, call[c].opt, call[c].found)
    BY <1>1, <1>6, GotoMoves DEF Labels
  <2>2. CallOK("insert", call[c].verdict, call[c].opt, call[c].found)
    BY <1>6, CallsAreOK DEF Find, CallOK
  <2>3. QED
    BY <1>2, <2>1, <2>2, RequestKeepsInv
<1>7. CASE Find(c) /\ Return(c)
  BY <1>2, <1>7, ReturnKeepsInv
<1>8. QED
  BY <1>4, <1>5, <1>6, <1>7 DEF Find

\* A request that is answered with a job that has a row.
LEMMA AnswerInv ==
  ASSUME IntakeInv, NEW c \in Calls, NEW j \in JobIds, Return(c), call[c].opt \in Options,
         UNCHANGED <<declared, rowVars, storageVars, cleaner, failures>>,
         answers' = answers \/ Answer(c, j),
         job' \in [JobIds -> {"none", "live", "claimed", "deleted"}],
         asked' \in [JobIds -> Options \cup {NoOption}],
         job'[j] = "live", \A i \in JobIds : i # j => job'[i] = job[i] /\ ~ JobRow(i)
  PROVE  IntakeInv'
<1> USE DEF IntakeInv, rowVars, declared, storageVars
<1>1. TypeOK /\ BoolOK /\ DataOK
  BY TypeParts
<1>2. Moves(c, "idle", "none", NoOption, NoJob)
  BY <1>1, ReturnMoves
<1>3. BoolOK'
  BY <1>1 DEF BoolOK
<1>4. answers' \subseteq answers \cup {[job |-> j, opt |-> call[c].opt]}
      /\ answers' \subseteq [job : JobIds, opt : Options]
  BY <1>1 DEF Answer, DataOK
<1>5. DataOK'
  BY <1>1, <1>2, <1>4 DEF DataOK, Moves
<1>6. SessionInv' /\ StorageInv' /\ SessionLeavesNothing' /\ VerdictInv'
  BY <1>2 DEF SessionInv, StorageInv, SessionLeavesNothing, VerdictInv, Moves, Visible, Right
<1>7. KeyInv'
  <2>1. \A i, k \in JobIds : JobRow(i)' /\ JobRow(k)' => i = k
    BY DEF JobRow
  <2>2. \A a \in answers' : job'[a.job] # "none"
    BY <1>1, <1>4 DEF KeyInv, DataOK
  <2>3. QED
    BY <1>2, <2>1, <2>2 DEF KeyInv, Moves
<1>8. QED
  BY <1>3, <1>5, <1>6, <1>7, TypeParts

\* get and the insert: answered is the one job with the key.
LEMMA AnswersInv ==
  ASSUME IntakeInv, NEW c \in Calls, Load(c) \/ Insert(c)
  PROVE  IntakeInv'
<1> USE DEF jobVars
<1>1. TypeOK /\ BoolOK /\ DataOK
  BY TypeParts DEF IntakeInv
<1>2. UNCHANGED <<declared, rowVars, storageVars, cleaner, failures>>
  BY DEF Load, Insert
<1>3. call[c].opt \in Options /\ session \notin {"none", "lost"}
  BY CallsAreOK DEF Load, Insert, CallOK
<1>4. ASSUME Goto(c, "insert") \/ Goto(c, "refind"), UNCHANGED jobVars PROVE IntakeInv'
  <2>1. PICK l \in {"insert", "refind"} : Goto(c, l)
    BY <1>4
  <2>2. Moves(c, l, call[c].verdict, call[c].opt, call[c].found)
    BY <1>1, <2>1, GotoMoves DEF Labels
  <2>3. CallOK(l, call[c].verdict, call[c].opt, call[c].found)
    BY <1>3 DEF CallOK
  <2>4. QED
    BY <1>2, <1>4, <2>2, <2>3, RequestKeepsInv
<1>5. ASSUME Return(c), UNCHANGED jobVars PROVE IntakeInv'
  BY <1>2, <1>5, ReturnKeepsInv
<1>6. CASE Load(c)
  <2> DEFINE j == call[c].found
  <2>1. j \in JobIds
    BY <1>6, CallsAreOK DEF Load, CallOK
  <2>2. CASE job[j] = "live" /\ Return(c) /\ (Answer(c, j) \/ UNCHANGED answers)
    <3>1. \A i \in JobIds : i # j => ~ JobRow(i)
      BY <2>1, <2>2 DEF IntakeInv, KeyInv, JobRow
    <3>2. UNCHANGED <<job, asked>>
      BY <1>6 DEF Load
    <3>3. QED
      BY <1>1, <1>2, <1>3, <2>1, <2>2, <3>1, <3>2, AnswerInv DEF DataOK
  <2>3. CASE job[j] # "live" /\ UNCHANGED answers /\ (Goto(c, "insert") \/ Return(c))
    BY <1>4, <1>5, <1>6, <2>3 DEF Load
  <2>4. QED
    BY <1>6, <2>2, <2>3 DEF Load
<1>7. CASE Insert(c) /\ ~ KeyTaken /\ Return(c) /\ \E j \in JobIds :
             /\ job[j] = "none" /\ job' = [job EXCEPT ![j] = "live"]
             /\ asked' = [asked EXCEPT ![j] = call[c].opt]
             /\ Answer(c, j) \/ UNCHANGED answers
  <2>1. PICK j \in JobIds : /\ job' = [job EXCEPT ![j] = "live"]
                            /\ asked' = [asked EXCEPT ![j] = call[c].opt]
                            /\ Answer(c, j) \/ UNCHANGED answers
    BY <1>7
  <2>2. job' \in [JobIds -> {"none", "live", "claimed", "deleted"}] /\ job'[j] = "live"
    BY <1>1, <2>1 DEF DataOK
  <2>3. asked' \in [JobIds -> Options \cup {NoOption}]
    BY <1>1, <1>3, <2>1 DEF DataOK
  <2>4. \A i \in JobIds : i # j => job'[i] = job[i] /\ ~ JobRow(i)
    BY <1>1, <1>7, <2>1 DEF DataOK, KeyTaken, Referenced
  <2>5. QED
    BY <1>2, <1>3, <1>7, <2>1, <2>2, <2>3, <2>4, AnswerInv
<1>8. QED
  BY <1>4, <1>5, <1>6, <1>7 DEF Insert

\* The client and the clock: a second write ends what a verdict says, and nothing is
\* written once the session is due.
LEMMA ClientInv ==
  ASSUME IntakeInv,
         UrlsExpire \/ SessionExpires \/ \E content \in Contents : Put(content) \/ PutParts(content)
  PROVE  IntakeInv'
<1> USE DEF IntakeInv, rowVars, declared, storageVars, jobVars
<1>1. TypeOK /\ BoolOK /\ DataOK
  BY TypeParts
<1>2. UNCHANGED <<multipart, genuine, session, claimed, open, jobVars, call, cleaner, failures>>
  BY DEF UrlsExpire, SessionExpires, Put, PutParts
<1>3. urls' \in BOOLEAN /\ due' \in BOOLEAN
  BY <1>1, Zenon DEF UrlsExpire, SessionExpires, Put, PutParts, BoolOK
<1>4. BoolOK'
  BY <1>1, <1>2, <1>3 DEF BoolOK
<1>5. DataOK'
  BY <1>1, <1>2 DEF DataOK, UrlsExpire, SessionExpires, Put, PutParts
<1>6. /\ urls' => urls /\ due' = due
      /\ due => due'
      /\ due' => session \in Rows \cup {"deleted"}
      /\ \/ object' = object /\ writes' = writes
         \/ urls /\ object' # "none" /\ writes' = writes + 1
  BY DEF UrlsExpire, SessionExpires, Put, PutParts, SessionInv, Contents
<1>7. SessionInv'
  BY <1>2, <1>6 DEF SessionInv
<1>8. StorageInv' /\ SessionLeavesNothing'
  <2>1. urls => cleaner = "idle" /\ session # "deleted"
    BY DEF SessionInv, Rows
  <2>2. QED
    BY <1>2, <1>6, <2>1 DEF StorageInv, SessionLeavesNothing
<1>9. VerdictInv'
  BY <1>1, <1>2, <1>6 DEF VerdictInv, DataOK, Right, Visible
<1>10. KeyInv'
  BY <1>2 DEF KeyInv, JobRow
<1>11. QED
  BY <1>4, <1>5, <1>7, <1>8, <1>9, <1>10, TypeParts

\* Retention of jobs: a row that goes frees the key.
LEMMA JobGoesInv ==
  ASSUME IntakeInv, NEW j \in JobIds, ClaimJob(j) \/ DeleteJob(j)
  PROVE  IntakeInv'
<1> USE DEF IntakeInv, rowVars, declared, storageVars
<1>1. TypeOK /\ BoolOK /\ DataOK
  BY TypeParts
<1>2. UNCHANGED <<declared, rowVars, storageVars, asked, answers, call, cleaner, failures>>
  BY DEF ClaimJob, DeleteJob
<1>3. /\ job' \in [JobIds -> {"none", "live", "claimed", "deleted"}]
      /\ JobRow(j) /\ job'[j] \in {"claimed", "deleted"}
      /\ \A i \in JobIds : i # j => job'[i] = job[i]
  BY <1>1 DEF ClaimJob, DeleteJob, DataOK, JobRow
<1>4. BoolOK'
  BY <1>1, <1>2 DEF BoolOK
<1>5. DataOK'
  BY <1>1, <1>2, <1>3 DEF DataOK
<1>6. SessionInv' /\ StorageInv' /\ SessionLeavesNothing' /\ VerdictInv'
  BY <1>2 DEF SessionInv, StorageInv, SessionLeavesNothing, VerdictInv, Visible, Right
<1>7. KeyInv'
  BY <1>1, <1>2, <1>3 DEF KeyInv, JobRow, DataOK
<1>8. QED
  BY <1>4, <1>5, <1>6, <1>7, TypeParts

\* Retention of the session: abort, then the object, then the row, each after a claim
\* that keeps completions from saving.
LEMMA CleanerInv ==
  ASSUME IntakeInv, Cleaner \/ CleanerFails
  PROVE  IntakeInv'
<1> USE DEF IntakeInv, rowVars, declared, storageVars, jobVars
<1>1. TypeOK /\ BoolOK /\ DataOK
  BY TypeParts
<1>2. UNCHANGED <<multipart, genuine, due, urls, parts, writes, jobVars, call>>
  BY DEF Cleaner, ClaimSession, Abort, DeleteSource, DeleteSession, CleanerFails
<1>3. claimed' \in BOOLEAN /\ open' \in BOOLEAN
  BY <1>1, Zenon DEF Cleaner, ClaimSession, Abort, DeleteSource, DeleteSession, CleanerFails, BoolOK
<1>4. BoolOK'
  BY <1>1, <1>2, <1>3 DEF BoolOK
<1>5. DataOK'
  BY <1>1, <1>2 DEF DataOK, Cleaner, ClaimSession, Abort, DeleteSource, DeleteSession, CleanerFails
<1>6. SessionInv'
  BY <1>1, <1>2 DEF SessionInv, Cleaner, ClaimSession, Abort, DeleteSource, DeleteSession,
     CleanerFails, Rows
<1>7. StorageInv' /\ SessionLeavesNothing'
  BY <1>1, <1>2 DEF SessionInv, StorageInv, SessionLeavesNothing, DataOK, Cleaner, ClaimSession,
     Abort, DeleteSource, DeleteSession, CleanerFails, Rows
<1>8. VerdictInv'
  BY <1>1, <1>2 DEF SessionInv, VerdictInv, Right, Visible, Rows, Cleaner, ClaimSession, Abort,
     DeleteSource, DeleteSession, CleanerFails
<1>9. KeyInv'
  BY <1>2 DEF KeyInv, JobRow
<1>10. QED
  BY <1>4, <1>5, <1>6, <1>7, <1>8, <1>9, TypeParts

-----------------------------------------------------------------------------
\* The invariant is inductive: however requests, the client, failures and retention
\* interleave.
THEOREM IntakeInductive == Spec => []IntakeInv
<1>1. Init => IntakeInv
  BY InitInv
<1>2. IntakeInv /\ [Next]_vars => IntakeInv'
  <2> SUFFICES ASSUME IntakeInv, [Next]_vars PROVE IntakeInv'
    OBVIOUS
  <2>1. ASSUME NEW c \in Calls, CreateUpload(c) \/ CompleteUpload(c) \/ CreateJob(c)
        PROVE  IntakeInv'
    BY <2>1, CreateUploadInv, LookInv, AssembleInv, SaveVerdictInv, FindInv, AnswersInv
       DEF CompleteUpload, CreateJob
  <2>2. ASSUME NEW c \in Calls, CallFails(c) PROVE IntakeInv'
    BY <2>2, ReturnKeepsInv DEF CallFails
  <2>3. ASSUME NEW j \in JobIds, ClaimJob(j) \/ DeleteJob(j) PROVE IntakeInv'
    BY <2>3, JobGoesInv
  <2>4. CASE UNCHANGED vars
    <3> USE <2>4 DEF vars, declared, rowVars, storageVars, jobVars
    <3>1. TypeOK'
      BY DEF IntakeInv, TypeOK
    <3>2. SessionInv' /\ StorageInv' /\ SessionLeavesNothing'
      BY DEF IntakeInv, SessionInv, StorageInv, SessionLeavesNothing
    <3>3. VerdictInv' /\ KeyInv'
      BY DEF IntakeInv, VerdictInv, KeyInv, JobRow, Right, Visible
    <3>4. QED
      BY <3>1, <3>2, <3>3 DEF IntakeInv
  <2>5. QED
    BY <2>1, <2>2, <2>3, <2>4, ClientInv, CleanerInv DEF Next
<1>3. QED
  BY <1>1, <1>2, PTL DEF Spec

\* The session, the storage, the jobs and the requests keep their types; among others
\* every answer names a job and the options of a request.
THEOREM IntakeTypeCorrect == Spec => []TypeOK
<1>1. IntakeInv => TypeOK
  BY DEF IntakeInv
<1>2. QED
  BY <1>1, IntakeInductive, PTL

\* Two requests with one idempotency key are answered with the same job, unless one of
\* the two jobs has been deleted.
THEOREM OneJobPerKey == Spec => []KeyAnswersAgree
<1>1. IntakeInv => KeyAnswersAgree
  <2> SUFFICES ASSUME IntakeInv, NEW a \in answers, NEW b \in answers, a.job # b.job
               PROVE  "deleted" \in {job[a.job], job[b.job]}
    BY DEF KeyAnswersAgree
  <2>1. a.job \in JobIds /\ b.job \in JobIds /\ DataOK
    BY TypeParts DEF IntakeInv, DataOK
  <2>2. QED
    BY <2>1 DEF IntakeInv, KeyInv, JobRow, DataOK
<1>2. QED
  BY <1>1, IntakeInductive, PTL

\* A session that retention deleted has left neither object nor multipart upload.
THEOREM SessionGoesWhole == Spec => []SessionLeavesNothing
<1>1. IntakeInv => SessionLeavesNothing
  BY DEF IntakeInv
<1>2. QED
  BY <1>1, IntakeInductive, PTL

\* A completed session that readers see has the declared bytes in storage, if the client
\* has written the file only once.
THEOREM CompletedIsIntact == Spec => []CompletedIntact
<1>1. IntakeInv => CompletedIntact
  BY DEF IntakeInv, VerdictInv, CompletedIntact, Right
<1>2. QED
  BY <1>1, IntakeInductive, PTL

\* Two completions of one session never overturn each other's verdict, if the client
\* has written the file only once.
THEOREM VerdictIsFinal == Spec => VerdictStands
<1> DEFINE Stands == (writes <= 1 /\ session \in {"completed", "rejected"})
                       => session' \in {session, "deleted"}
<1>1. IntakeInv /\ [Next]_vars => [Stands]_vars
  <2> SUFFICES ASSUME IntakeInv, [Next]_vars, writes <= 1, session \in {"completed", "rejected"}
               PROVE  session' \in {session, "deleted"}
    OBVIOUS
  <2>1. ASSUME NEW c \in Calls, SaveVerdict(c) PROVE session' = session
    <3>1. CASE Visible
      BY <2>1, <3>1 DEF SaveVerdict, IntakeInv, VerdictInv, Right
    <3>2. CASE ~ Visible
      BY <2>1, <3>2 DEF SaveVerdict
    <3>3. QED
      BY <3>1, <3>2
  <2>2. ASSUME NEW c \in Calls PROVE ~ AddSession(c) /\ ~ AddFails(c)
    BY DEF AddSession, AddFails, IntakeInv, SessionInv
  <2>3. CASE DeleteSession
    BY <2>3 DEF DeleteSession
  <2>4. CASE /\ ~ DeleteSession /\ ~ \E c \in Calls : SaveVerdict(c)
    BY <2>2, <2>4 DEF Next, vars, rowVars, CreateUpload, CreateTarget, CompleteUpload, CompleteRead,
       Assemble, Stat, Get, CreateJob, CreateRead, Find, Load, Insert, CallFails, Put, PutParts,
       UrlsExpire, SessionExpires, ClaimJob, DeleteJob, Cleaner, ClaimSession, Abort,
       DeleteSource, CleanerFails
  <2>5. QED
    BY <2>1, <2>3, <2>4
<1>2. QED
  BY <1>1, IntakeInductive, PTL DEF Spec, VerdictStands
=============================================================================
