------------------------- MODULE OrderlyServerProofs -------------------------
(***************************************************************************)
(* Theorems about the server whose callers decide a change only after the  *)
(* reply that announced it (AfterReply), and one at a time (Serial): for   *)
(* every number of changes and calls, with store faults, crashes, resets.  *)
(***************************************************************************)
EXTENDS TerraSenseProofs

(* What is applied is what was validated and shown.                          *)

\* A change that passed, or whose failure may not have reached the row: only
\* these can be met pending after their reply.
Decidable(r) == \/ loop[r].pc = "passed"
                \/ loop[r].pc = "exhausted" /\ loop[r].lost

\* The main.tf that ApproveChange would apply is the text that passed, or lost.
MainOK(r) == loop[r].pc \in Passing => /\ loop[r].score >= Threshold
                                       /\ ws[r].main \in {loop[r].hcl, NoHCL}

\* The row shows the text that passed, or that the run failed.
RowOK(r) ==
    ~loop[r].lost /\ rows[r].status # "absent" =>
        /\ loop[r].pc \in {"log_complete", "passed"} =>
              rows[r].hcl = loop[r].hcl /\ rows[r].score = loop[r].score
        /\ loop[r].pc \in {"log_exhausted", "exhausted"} => rows[r].status = "failed"

BegunOK(r) == infra[r].begun # {} =>
                 /\ Decidable(r)
                 /\ loop[r].pc = "passed" => infra[r].begun \subseteq {loop[r].hcl}

DecidedOK(c) == call[c].pc \in InHandler => Decidable(call[c].req)

ValidInv == /\ \A r \in Requests : MainOK(r) /\ RowOK(r) /\ BegunOK(r)
            /\ \A c \in Calls : DecidedOK(c)

LEMMA ValidFacts ==
    ASSUME IInv, ValidInv, NEW r \in Requests
    PROVE  /\ loop \in [Requests -> LoopState] /\ loop[r] \in LoopState
           /\ rows \in [Requests -> Row] /\ rows[r] \in Row
           /\ StoreTypeOK /\ GoroutineInv /\ GateIInv
           /\ TextOK(r) /\ TreeOK(r) /\ MainOK(r) /\ RowOK(r) /\ BegunOK(r)
<1>1. StoreTypeOK /\ GoroutineInv /\ GateIInv
  BY SplitIInv DEF IInv
<1> QED BY <1>1 DEF StoreTypeOK, GoroutineInv, GoroutineOK, ValidInv

-----------------------------------------------------------------------------
(* The steps of a loop: before its reply nobody decides.                     *)

\* A step of r's goroutine leaves it as l and touches nothing of the others.
LEMMA LoopValid ==
    ASSUME IInv, ValidInv, NEW r \in Requests, loop[r].pc \notin Accepted,
           NEW l, loop' = [loop EXCEPT ![r] = l], UNCHANGED <<call, infra>>,
           \A q \in Requests \ {r} : rows'[q] = rows[q] /\ ws'[q] = ws[q],
           MainOK(r)', RowOK(r)'
    PROVE  ValidInv'
<1>1. loop'[r] = l /\ \A q \in Requests \ {r} : loop'[q] = loop[q]
  BY ValidFacts
<1>2. ~Decidable(r)
  BY DEF Decidable, Accepted
<1>3. ASSUME NEW q \in Requests, q # r
      PROVE  MainOK(q)' /\ RowOK(q)' /\ BegunOK(q)' /\ (Decidable(q) <=> Decidable(q)')
  <2>1. rows'[q] = rows[q] /\ ws'[q] = ws[q] /\ loop'[q] = loop[q] /\ infra'[q] = infra[q]
    BY <1>1, <1>3
  <2>2. MainOK(q) /\ RowOK(q) /\ BegunOK(q)
    BY DEF ValidInv
  <2> QED BY <2>1, <2>2 DEF MainOK, RowOK, BegunOK, Decidable
<1>4. BegunOK(r)'
  <2>1. infra[r].begun = {}
    BY <1>2 DEF ValidInv, BegunOK
  <2> QED BY <2>1 DEF BegunOK
<1>5. ASSUME NEW c \in Calls
      PROVE  DecidedOK(c)'
  <2>1. PICK q \in Requests : q = call[c].req
    BY ValidFacts, HandlerFacts
  <2>2. call[c].pc \in InHandler => q # r /\ Decidable(q)
    BY <1>2, <2>1 DEF ValidInv, DecidedOK
  <2>3. call[c].pc \in InHandler => Decidable(q)'
    BY <1>3, <2>2
  <2> QED BY <2>1, <2>3 DEF DecidedOK, Decidable
<1> QED BY <1>3, <1>4, <1>5 DEF ValidInv

\* Stations of which ValidInv says nothing.
Silent == (InFlight \union {"error"}) \ {"persist_passed", "log_complete", "log_exhausted"}

LEMMA SilentValid ==
    ASSUME IInv, ValidInv, NEW r \in Requests, loop[r].pc \notin Accepted,
           NEW l, loop' = [loop EXCEPT ![r] = l], l.pc \in Silent,
           UNCHANGED <<call, infra>>,
           \A q \in Requests \ {r} : rows'[q] = rows[q] /\ ws'[q] = ws[q]
    PROVE  ValidInv'
<1>1. loop'[r].pc = l.pc
  BY ValidFacts
<1>2. MainOK(r)' /\ RowOK(r)'
  BY <1>1 DEF MainOK, RowOK, Silent, Passing, InFlight
<1> QED BY <1>2, LoopValid

LEMMA GoValid ==
    ASSUME IInv, ValidInv, NEW r \in Requests, loop[r].pc \notin Accepted,
           NEW to \in Silent, Go(r, to) \/ \E o : GoAnyway(r, to, o),
           UNCHANGED <<call, infra>>,
           \A q \in Requests \ {r} : rows'[q] = rows[q] /\ ws'[q] = ws[q]
    PROVE  ValidInv'
<1>1. loop[r] \in LoopState
  BY ValidFacts
<1>2. CASE Go(r, to)
  <2> DEFINE l == [loop[r] EXCEPT !.pc = to]
  <2>1. loop' = [loop EXCEPT ![r] = l]
    BY <1>2 DEF Go
  <2>2. l.pc \in Silent
    BY <1>1 DEF LoopState
  <2> HIDE DEF l
  <2> QED BY <2>1, <2>2, SilentValid
<1>3. ASSUME NEW o, GoAnyway(r, to, o)
      PROVE  ValidInv'
  <2> DEFINE b == loop[r].lost \/ ~Acked(r, o)
             l == [loop[r] EXCEPT !.pc = to, !.lost = b]
  <2>1. loop' = [loop EXCEPT ![r] = l]
    BY <1>3 DEF GoAnyway
  <2> HIDE DEF b
  <2>2. l.pc \in Silent
    BY <1>1 DEF LoopState
  <2> HIDE DEF l
  <2> QED BY <2>1, <2>2, SilentValid
<1> QED BY <1>2, <1>3

LEMMA GenerateValid ==
    ASSUME IInv, ValidInv, NEW r \in Requests, NEW h, NEW o, Generate(r, h, o),
           UNCHANGED <<call, infra>>
    PROVE  ValidInv'
<1> DEFINE b == ~Acked(r, o)
           l == [loop[r] EXCEPT !.pc = "plan", !.hcl = h, !.lost = b]
<1>1. loop[r] \in LoopState
  BY ValidFacts
<1>2. loop' = [loop EXCEPT ![r] = l]
  BY DEF Generate
<1> HIDE DEF b
<1>3. l.pc \in Silent
  BY <1>1 DEF LoopState, Silent, InFlight
<1> HIDE DEF l
<1>4. loop[r].pc \notin Accepted /\ UNCHANGED <<rows, ws>>
  BY DEF Generate, CreateAudit, At, Accepted
<1> QED BY <1>2, <1>3, <1>4, SilentValid

LEMMA CompleteValid ==
    ASSUME IInv, ValidInv, NEW r \in Requests, NEW h, Complete(r, h),
           UNCHANGED <<call, infra>>
    PROVE  ValidInv'
<1> DEFINE l == [loop[r] EXCEPT !.pc = "plan", !.hcl = h, !.asked = @ + 1]
<1>1. loop[r] \in LoopState
  BY ValidFacts
<1>2. loop' = [loop EXCEPT ![r] = l]
  BY DEF Complete
<1>3. l.pc \in Silent
  BY <1>1 DEF LoopState, Silent, InFlight
<1> HIDE DEF l
<1>4. loop[r].pc \notin Accepted /\ UNCHANGED <<rows, ws>>
  BY DEF Complete, At, Accepted
<1> QED BY <1>2, <1>3, <1>4, SilentValid

LEMMA PlanValid ==
    ASSUME IInv, ValidInv, NEW r \in Requests,
           \/ StartPlan(r) \/ PlanRefused(r) \/ PlanDeadline(r)
           \/ \E ok \in BOOLEAN : PlanReturns(r, ok),
           UNCHANGED <<call, infra>>
    PROVE  ValidInv'
<1>1. loop[r] \in LoopState /\ ws \in [Requests -> WorkspaceState]
  BY ValidFacts DEF GoroutineInv
<1>2. loop[r].pc \notin Accepted
  BY DEF StartPlan, PlanRefused, PlanDeadline, PlanReturns, At, Accepted
<1>3. \A q \in Requests \ {r} : rows'[q] = rows[q] /\ ws'[q] = ws[q]
  BY <1>1 DEF StartPlan, WriteRunDir, PlanRefused, PlanDeadline, PlanReturns
<1>4. CASE StartPlan(r)
  <2> DEFINE l == [loop[r] EXCEPT !.pc = "planning", !.tried = @ \union {loop[r].hcl}]
  <2>1. loop' = [loop EXCEPT ![r] = l]
    BY <1>4 DEF StartPlan
  <2>2. l.pc \in Silent
    BY <1>1 DEF LoopState, Silent, InFlight
  <2> HIDE DEF l
  <2> QED BY <1>2, <1>3, <2>1, <2>2, SilentValid
<1>5. CASE PlanRefused(r)
  <2> DEFINE l == [loop[r] EXCEPT !.pc = "check", !.planned = FALSE,
                                  !.tried = @ \union {loop[r].hcl}]
  <2>1. loop' = [loop EXCEPT ![r] = l]
    BY <1>5 DEF PlanRefused
  <2>2. l.pc \in Silent
    BY <1>1 DEF LoopState, Silent, InFlight
  <2> HIDE DEF l
  <2> QED BY <1>2, <1>3, <2>1, <2>2, SilentValid
<1>6. ASSUME NEW ok, loop' = [loop EXCEPT ![r].pc = "check", ![r].planned = ok]
      PROVE  ValidInv'
  <2> DEFINE l == [loop[r] EXCEPT !.pc = "check", !.planned = ok]
  <2>1. loop' = [loop EXCEPT ![r] = l]
    BY <1>6
  <2>2. l.pc \in Silent
    BY <1>1 DEF LoopState, Silent, InFlight
  <2> HIDE DEF l
  <2> QED BY <1>2, <1>3, <2>1, <2>2, SilentValid
<1> QED BY <1>4, <1>5, <1>6 DEF PlanDeadline, PlanReturns

\* A passing verdict is that of a scan with the candidate as main.tf.
LEMMA JudgeValid ==
    ASSUME IInv, ValidInv, NEW r \in Requests, NEW score, Judge(r, score),
           loop[r].pc \in {"check", "scanning"}, UNCHANGED <<call, infra, rows, ws>>,
           score >= Threshold => loop[r].pc = "scanning"
    PROVE  ValidInv'
<1> DEFINE n == loop[r].attempts + 1
           passed == Validated(r, score)
           pc == IF passed THEN "persist_passed"
                 ELSE IF LastAttempt(n) THEN "persist_failed" ELSE "log_attempt"
           m == IF passed THEN loop[r].attempts ELSE n
           l == [loop[r] EXCEPT !.pc = pc, !.score = score, !.attempts = m]
<1>1. loop[r] \in LoopState /\ TextOK(r) /\ loop \in [Requests -> LoopState]
  BY ValidFacts
<1>2. loop' = [loop EXCEPT ![r] = l]
  BY DEF Judge
<1>3. pc = "persist_passed" => score >= Threshold
  BY DEF Validated
<1>4. pc \in {"persist_passed", "persist_failed", "log_attempt"}
  OBVIOUS
<1> HIDE DEF pc, m
<1>5. l.pc = pc /\ l.score = score /\ l.hcl = loop[r].hcl
  BY <1>1 DEF LoopState
<1> HIDE DEF l
<1>6. loop'[r] = l
  BY <1>1, <1>2
<1>7. MainOK(r)'
  BY <1>1, <1>3, <1>4, <1>5, <1>6 DEF MainOK, Passing, TextOK
<1>8. RowOK(r)'
  BY <1>4, <1>5, <1>6 DEF RowOK
<1>9. loop[r].pc \notin Accepted
  BY DEF Accepted
<1> QED BY <1>2, <1>7, <1>8, <1>9, LoopValid

\* The statements whose errors Run drops, on the way to its reply.
LEMMA StoredValid ==
    ASSUME IInv, ValidInv, NEW r \in Requests, NEW o,
           \/ PersistPassed(r, o) \/ LogComplete(r, o)
           \/ MarkFailed(r, o) \/ LogExhausted(r, o),
           UNCHANGED <<call, infra>>
    PROVE  ValidInv'
<1>1. PICK to \in {"log_complete", "passed", "log_exhausted", "exhausted"} :
        /\ GoAnyway(r, to, o)
        /\ to \in {"log_complete", "passed"} => loop[r].pc \in Passing
        /\ to = "log_complete" =>
             UpdateHCLAndScore(r, loop[r].hcl, loop[r].score, loop[r].attempts, o)
        /\ to = "log_exhausted" => UpdateStatus(r, "failed", o)
        /\ to = "passed" => loop[r].pc = "log_complete" /\ rows' = rows
        /\ to = "exhausted" => loop[r].pc = "log_exhausted" /\ rows' = rows
        /\ loop[r].pc \notin Accepted /\ ws' = ws
  <2>1. CASE PersistPassed(r, o)
    BY <2>1 DEF PersistPassed, At, Passing, Accepted
  <2>2. CASE LogComplete(r, o)
    BY <2>2 DEF LogComplete, CreateAudit, At, Passing, Accepted
  <2>3. CASE MarkFailed(r, o)
    BY <2>3 DEF MarkFailed, At, Accepted
  <2>4. CASE LogExhausted(r, o)
    BY <2>4 DEF LogExhausted, CreateAudit, At, Accepted
  <2> QED BY <2>1, <2>2, <2>3, <2>4
<1> DEFINE b == loop[r].lost \/ ~Acked(r, o)
           l == [loop[r] EXCEPT !.pc = to, !.lost = b]
<1>2. /\ loop[r] \in LoopState /\ loop \in [Requests -> LoopState]
      /\ rows \in [Requests -> Row] /\ rows[r] \in Row /\ MainOK(r) /\ RowOK(r)
  BY ValidFacts
<1>3. loop' = [loop EXCEPT ![r] = l]
  BY <1>1 DEF GoAnyway
<1>4. ~b => ~loop[r].lost /\ o = "ok" /\ rows[r].status # "absent"
  BY DEF Acked
<1> HIDE DEF b
<1>5. /\ l.pc = to /\ l.lost = b /\ l.hcl = loop[r].hcl /\ l.score = loop[r].score
  BY <1>2 DEF LoopState
<1> HIDE DEF l
<1>6. loop'[r] = l
  BY <1>2, <1>3
<1>7. \A q \in Requests \ {r} : rows'[q] = rows[q] /\ ws'[q] = ws[q]
  BY <1>1, <1>2 DEF UpdateHCLAndScore, UpdateStatus
<1>8. MainOK(r)'
  BY <1>1, <1>2, <1>5, <1>6 DEF MainOK, Passing
<1>9. RowOK(r)'
  <2>1. CASE to = "log_complete"
    <3>1. ~b => rows'[r].hcl = loop[r].hcl /\ rows'[r].score = loop[r].score
      BY <1>1, <1>2, <1>4, <2>1 DEF UpdateHCLAndScore, Reaches, Row
    <3> QED BY <1>5, <1>6, <2>1, <3>1 DEF RowOK
  <2>2. CASE to = "log_exhausted"
    <3>1. ~b => rows'[r].status = "failed"
      BY <1>1, <1>2, <1>4, <2>2 DEF UpdateStatus, Reaches, Row
    <3> QED BY <1>5, <1>6, <2>2, <3>1 DEF RowOK
  <2>3. CASE to \in {"passed", "exhausted"}
    BY <1>1, <1>2, <1>4, <1>5, <1>6, <2>3 DEF RowOK
  <2> QED BY <2>1, <2>2, <2>3
<1> QED BY <1>1, <1>3, <1>7, <1>8, <1>9, LoopValid

LEMMA SubmitValid ==
    ASSUME IInv, ValidInv, NEW r \in Requests, LoopStep(r), UNCHANGED <<call, infra>>
    PROVE  ValidInv'
<1>0. /\ rows \in [Requests -> Row] /\ ws \in [Requests -> WorkspaceState]
  BY ValidFacts DEF GoroutineInv
<1>1. ASSUME NEW o, Start(r, o)
      PROVE  ValidInv'
  <2>1. \A q \in Requests \ {r} : rows'[q] = rows[q] /\ ws'[q] = ws[q]
    BY <1>0, <1>1 DEF Start, CreateRow
  <2> QED BY <1>1, <2>1, GoValid DEF Start, At, Accepted, Silent, InFlight
<1>2. ASSUME NEW o, PersistFailed(r, o) \/ LogAttempt(r, o)
      PROVE  ValidInv'
  <2>1. \A q \in Requests \ {r} : rows'[q] = rows[q] /\ ws'[q] = ws[q]
    BY <1>0, <1>2 DEF PersistFailed, UpdateHCLAndScore, LogAttempt, CreateAudit
  <2> QED BY <1>2, <2>1, GoValid
          DEF PersistFailed, LogAttempt, At, Accepted, Silent, InFlight
<1>3. CASE GenerateFails(r) \/ CompleteFails(r)
  BY <1>3, GoValid DEF GenerateFails, CompleteFails, At, Accepted, Silent
<1>4. CASE StartScan(r)
  <2>1. \A q \in Requests \ {r} : rows'[q] = rows[q] /\ ws'[q] = ws[q]
    BY <1>0, <1>4 DEF StartScan, WriteMain
  <2> QED BY <1>4, <2>1, GoValid DEF StartScan, At, Accepted, Silent, InFlight
<1>5. CASE ScanReturns(r)
  BY <1>5, JudgeValid DEF ScanReturns, At
<1>6. CASE ScanFails(r)
  <2>1. ~(0 >= Threshold)
    BY DEF Threshold
  <2> QED BY <1>6, <2>1, JudgeValid DEF ScanFails, At
<1> QED BY <1>1, <1>2, <1>3, <1>4, <1>5, <1>6, GenerateValid, CompleteValid,
           PlanValid, StoredValid
        DEF LoopStep, OwnStep, DatabaseStep, ModelStep

-----------------------------------------------------------------------------
(* The steps of a handler: it found its change pending after the reply.      *)

\* Requests with the same row, loop and directory are as they were.
LEMMA HandlerValid ==
    ASSUME IInv, ValidInv, NEW c \in Calls, NEW q \in Requests,
           NEW k, call' = [call EXCEPT ![c] = k], k.req = q,
           k.pc \in InHandler => Decidable(q),
           UNCHANGED <<loop, ws>>,
           \A x \in Requests :
               /\ rows'[x].hcl = rows[x].hcl /\ rows'[x].score = rows[x].score
               /\ rows'[x].status # rows[x].status =>
                    Decidable(x) /\ rows[x].status # "absent",
           \A x \in Requests : BegunOK(x)'
    PROVE  ValidInv'
<1>1. call \in [Calls -> CallState]
  BY DEF IInv, GateIInv
<1>2. ASSUME NEW x \in Requests
      PROVE  MainOK(x)' /\ RowOK(x)'
  <2>1. MainOK(x) /\ RowOK(x)
    BY DEF ValidInv
  <2>2. RowOK(x)'
    <3> SUFFICES ASSUME ~loop[x].lost, rows'[x].status # "absent"
                 PROVE  /\ loop[x].pc \in {"log_complete", "passed"} =>
                             rows'[x].hcl = loop[x].hcl /\ rows'[x].score = loop[x].score
                        /\ loop[x].pc \in {"log_exhausted", "exhausted"} =>
                             rows'[x].status = "failed"
      BY DEF RowOK
    <3>1. rows[x].status # "absent"
      OBVIOUS
    <3> QED BY <2>1, <3>1 DEF RowOK, Decidable
  <2> QED BY <2>1, <2>2 DEF MainOK
<1>3. ASSUME NEW d \in Calls
      PROVE  DecidedOK(d)'
  <2>1. CASE d = c
    BY <1>1, <2>1 DEF DecidedOK, Decidable
  <2>2. CASE d # c
    <3>1. call'[d] = call[d] /\ DecidedOK(d)
      BY <1>1, <2>2 DEF ValidInv
    <3> QED BY <3>1 DEF DecidedOK, Decidable
  <2> QED BY <2>1, <2>2
<1> QED BY <1>2, <1>3 DEF ValidInv

LEMMA BegunFrame ==
    ASSUME ValidInv, NEW x \in Requests, loop' = loop, infra'[x].begun = infra[x].begun
    PROVE  BegunOK(x)'
BY DEF ValidInv, BegunOK, Decidable

LEMMA DecideValid ==
    ASSUME AfterReply, IInv, ValidInv, NEW c \in Calls, Decide(c)
    PROVE  ValidInv'
<1>0. PICK q \in Requests : q = call[c].req
  BY HandlerFacts DEF IInv
<1>1. PICK o : Receive(c, o) /\ q = call[c].req /\ loop' = loop /\ loop[q].pc \in Accepted
  BY <1>0 DEF Decide, MayDecide
<1> DEFINE k == [call[c] EXCEPT !.pc = Verdict(q, o)]
<1>2. /\ call' = [call EXCEPT ![c] = k] /\ UNCHANGED <<rows, ws, infra>>
  BY <1>1 DEF Receive, Reply
<1>3. k.req = q /\ k.pc = Verdict(q, o)
  BY <1>1, HandlerFacts DEF IInv, CallState
<1> HIDE DEF k
<1>4. ASSUME k.pc \in InHandler
      PROVE  Decidable(q)
  <2>1. rows[q].status = "pending"
    BY <1>3, <1>4 DEF Verdict, InHandler, Deciding, Terraforming, Recording
  <2>2. RowOK(q)
    BY DEF ValidInv
  <2> QED BY <1>1, <2>1, <2>2 DEF RowOK, Decidable, Accepted
<1>5. \A x \in Requests : BegunOK(x)'
  BY <1>1, <1>2, BegunFrame
<1> QED BY <1>1, <1>2, <1>3, <1>4, <1>5, HandlerValid

\* A handler past its check moves on, and the status is all it changes.
LEMMA ReplyValid ==
    ASSUME IInv, ValidInv, NEW c \in Calls, call[c].pc \in InHandler,
           NEW to, Reply(c, to), UNCHANGED <<loop, ws>>,
           NEW s \in Statuses, NEW o, UpdateStatus(call[c].req, s, o) \/ rows' = rows,
           \A x \in Requests : infra'[x].begun = infra[x].begun
    PROVE  ValidInv'
<1>1. PICK q \in Requests : q = call[c].req
  BY HandlerFacts DEF IInv
<1> DEFINE k == [call[c] EXCEPT !.pc = to]
<1>2. call' = [call EXCEPT ![c] = k]
  BY DEF Reply
<1>3. k.req = q
  BY <1>1, HandlerFacts DEF IInv, CallState
<1>4. Decidable(q)
  BY <1>1 DEF ValidInv, DecidedOK
<1> HIDE DEF k
<1>5. ASSUME NEW x \in Requests
      PROVE  /\ rows'[x].hcl = rows[x].hcl /\ rows'[x].score = rows[x].score
             /\ rows'[x].status # rows[x].status =>
                  Decidable(x) /\ rows[x].status # "absent"
  <2>1. rows \in [Requests -> Row] /\ rows[x] \in Row
    BY ValidFacts
  <2>2. CASE UpdateStatus(q, s, o)
    BY <1>4, <2>1, <2>2 DEF UpdateStatus, Reaches, Row
  <2> QED BY <1>1, <2>2
<1>6. \A x \in Requests : BegunOK(x)'
  BY BegunFrame
<1> QED BY <1>2, <1>3, <1>4, <1>5, <1>6, HandlerValid

LEMMA ApplyBeginsValid ==
    ASSUME DataAssumption, IInv, ValidInv, NEW c \in Calls, ApplyBegins(c), loop' = loop
    PROVE  ValidInv'
<1>1. PICK q \in Requests : q = call[c].req
  BY HandlerFacts DEF IInv
<1>2. PICK h : h = ws[q].main
  OBVIOUS
<1> DEFINE k == [call[c] EXCEPT !.pc = "applying", !.hcl = h]
<1>3. /\ infra' = [infra EXCEPT ![q].begun = @ \union {h}]
      /\ call' = [call EXCEPT ![c] = k]
      /\ UNCHANGED <<rows, ws>> /\ call[c].pc \in InHandler /\ h \in Plannable
  BY <1>1, <1>2 DEF ApplyBegins, CallAt, InHandler, Terraforming
<1>4. k.req = q
  BY <1>1, HandlerFacts DEF IInv, CallState
<1>5. Decidable(q) /\ MainOK(q) /\ BegunOK(q)
  BY <1>1, <1>3 DEF ValidInv, DecidedOK
<1> HIDE DEF k
<1>6. h # NoHCL
  BY <1>3 DEF DataAssumption
<1>7. infra \in [Requests -> Infra]
  BY HandlerFacts DEF IInv
<1>8. /\ infra'[q].begun = infra[q].begun \union {h}
      /\ \A x \in Requests \ {q} : infra'[x] = infra[x]
  BY <1>3, <1>7 DEF Infra
<1>9. BegunOK(q)'
  BY <1>2, <1>5, <1>6, <1>8 DEF BegunOK, Decidable, MainOK, Passing
<1>10. \A x \in Requests : BegunOK(x)'
  BY <1>8, <1>9, BegunFrame
<1> QED BY <1>3, <1>4, <1>5, <1>10, HandlerValid

LEMMA HandleValid ==
    ASSUME DataAssumption, IInv, ValidInv, NEW c \in Calls, Handle(c)
    PROVE  ValidInv'
<1>0. loop' = loop
  BY DEF Handle
<1>1. ASSUME NEW o, \/ SetStatus(c, o) \/ LogDecision(c, o)
                    \/ MarkApplied(c, o) \/ LogApplied(c, o)
      PROVE  ValidInv'
  <2>1. PICK to : Reply(c, to)
    BY <1>1 DEF SetStatus, LogDecision, MarkApplied, LogApplied
  <2>2. call[c].pc \in InHandler /\ UNCHANGED <<ws, infra>>
    BY <1>1 DEF SetStatus, LogDecision, MarkApplied, LogApplied, CallAt,
                InHandler, Deciding, Recording
  <2>3. PICK s \in Statuses : UpdateStatus(call[c].req, s, o) \/ rows' = rows
    BY <1>1 DEF SetStatus, LogDecision, MarkApplied, LogApplied, CreateAudit, Decision,
                Statuses
  <2> QED BY <1>0, <2>1, <2>2, <2>3, ReplyValid
<1>2. ASSUME NEW ok \in BOOLEAN, TerraformInit(c, ok) \/ ApplyFails(c) \/ ApplySucceeds(c)
      PROVE  ValidInv'
  <2>1. PICK to : Reply(c, to)
    BY <1>2 DEF TerraformInit, ApplyFails, ApplySucceeds
  <2>2. UNCHANGED <<rows, ws>> /\ call[c].pc \in InHandler
    BY <1>2 DEF TerraformInit, ApplyFails, ApplySucceeds, CallAt, InHandler, Terraforming
  <2>3. infra \in [Requests -> Infra]
    BY HandlerFacts DEF IInv
  <2>4. \A x \in Requests : infra'[x].begun = infra[x].begun
    BY <1>2, <2>3 DEF TerraformInit, ApplyFails, ApplySucceeds, Infra
  <2>5. "pending" \in Statuses
    BY DEF Statuses
  <2> QED BY <1>0, <2>1, <2>2, <2>4, <2>5, ReplyValid
<1> QED BY <1>0, <1>1, <1>2, ApplyBeginsValid
        DEF Handle, GateDatabaseStep, TerraformStep

-----------------------------------------------------------------------------
(* The end of the process, and resets.                                       *)

LEMMA CrashValid ==
    ASSUME IInv, ValidInv, ServerCrash
    PROVE  ValidInv'
<1>1. ASSUME NEW r \in Requests
      PROVE  MainOK(r)' /\ RowOK(r)' /\ BegunOK(r)'
  <2>1. /\ loop[r] \in LoopState /\ MainOK(r) /\ RowOK(r) /\ BegunOK(r)
    BY ValidFacts
  <2>2. \/ loop'[r] = loop[r]
        \/ loop'[r].pc = "crashed" /\ loop[r].pc \in InFlight
    BY <2>1 DEF ServerCrash, CrashLoops, LoopState
  <2>3. (ws'[r] = ws[r] \/ ws'[r].main = NoHCL) /\ rows' = rows
    BY DEF ServerCrash, CrashDisk, NoWorkspace
  <2>4. infra'[r].begun = infra[r].begun
    BY HandlerFacts DEF ServerCrash, CrashCalls, IInv, GateIInv, Infra
  <2>5. MainOK(r)' /\ RowOK(r)'
    BY <2>1, <2>2, <2>3 DEF MainOK, RowOK, Passing
  <2>6. BegunOK(r)'
    BY <2>1, <2>2, <2>4 DEF BegunOK, Decidable, InFlight
  <2> QED BY <2>5, <2>6
<1>2. ASSUME NEW c \in Calls
      PROVE  DecidedOK(c)'
  <2>1. call[c] \in CallState
    BY HandlerFacts DEF IInv
  <2>2. call'[c].pc \notin InHandler
    BY <2>1 DEF ServerCrash, CrashCalls, CallState, InHandler, Deciding, Terraforming,
                Recording
  <2> QED BY <2>2 DEF DecidedOK
<1> QED BY <1>1, <1>2 DEF ValidInv

LEMMA ResetValid ==
    ASSUME ValidInv, Reset
    PROVE  ValidInv'
<1>1. UNCHANGED <<ws, loop, call, infra>>
  BY DEF Reset
<1>2. ASSUME NEW r \in Requests
      PROVE  RowOK(r)'
  <2>1. rows'[r] = rows[r] \/ rows'[r].status = "absent"
    BY DEF Reset, NoRow
  <2> QED BY <1>1, <2>1 DEF ValidInv, RowOK
<1> QED BY <1>1, <1>2 DEF ValidInv, MainOK, BegunOK, DecidedOK, Decidable

LEMMA ValidStep ==
    ASSUME DataAssumption, AfterReply, IInv, ValidInv, [Next]_vars
    PROVE  ValidInv'
<1>1. ASSUME UNCHANGED vars
      PROVE  ValidInv'
  BY <1>1 DEF vars, ValidInv, MainOK, RowOK, BegunOK, DecidedOK, Decidable
<1> QED BY <1>1, SubmitValid, DecideValid, HandleValid, CrashValid, ResetValid
        DEF Next, Submit

\* Where a change is decided only after its reply: what is applied is the text
\* the row shows, which terraform planned and which came with a passing score,
\* unless a statement of its loop was lost or a reset deleted the row
\* (CreateChange answers after Run returned; ApproveChange applies main.tf).
THEOREM OnlyValidated == ASSUME AfterReply PROVE Spec => []OnlyValidatedApplied
<1>1. Init => ValidInv
  BY DEF Init, LoopInit, GateInit, StoreInit, Idle, ValidInv, MainOK, RowOK, BegunOK,
         DecidedOK, Passing, InHandler, Deciding, Terraforming, Recording
<1>2. IInv /\ ValidInv /\ [Next]_vars => ValidInv'
  BY ValidStep, DataAssumption
<1>3. IInv /\ ValidInv => OnlyValidatedApplied
  <2> SUFFICES ASSUME IInv, ValidInv, NEW r \in Requests,
                      infra[r].begun # {}, ~loop[r].lost, ~Gone(r)
               PROVE  /\ infra[r].begun = {rows[r].hcl}
                      /\ rows[r].hcl \in Plannable /\ rows[r].score >= Threshold
    BY DEF OnlyValidatedApplied
  <2>1. MainOK(r) /\ RowOK(r) /\ BegunOK(r) /\ TreeOK(r)
    BY ValidFacts
  <2>2. loop[r].pc = "passed" /\ infra[r].begun \subseteq {loop[r].hcl}
    BY <2>1 DEF BegunOK, Decidable
  <2>3. rows[r].hcl = loop[r].hcl /\ rows[r].score = loop[r].score
    BY <2>1, <2>2 DEF Gone, RowOK
  <2>4. loop[r].hcl \in Plannable /\ loop[r].score >= Threshold
    BY <2>1, <2>2 DEF TreeOK, MainOK, Passing
  <2> QED BY <2>2, <2>3, <2>4
<1> QED BY <1>1, <1>2, <1>3, ServerInvariant, PTL DEF Spec

-----------------------------------------------------------------------------
(* The life of a change.                                                     *)

Bare == {"pending", "absent"}

\* Until Run marks it failed a row is pending; an "approved" entry belongs to an
\* approved row; only of deleted changes something was deleted.
LoopLife(r) ==
    /\ loop[r].pc \in InFlight \ {"log_exhausted"} => rows[r].status \in Bare
    /\ Attested(r, "approved") /\ rows[r].status # "absent"
         => rows[r].status \in {"approved", "applied"}
    /\ erased[r] # {} => Gone(r)

\* The row as a handler left it, or deleted.
CallLife(c) ==
    LET status == rows[call[c].req].status IN
    /\ call[c].pc \in InHandler => loop[call[c].req].pc \in Accepted
    /\ call[c].pc = "set_status" => status \in Bare
    /\ call[c].pc = "log_decision" => status \in {Decision(c), "absent"}
    /\ call[c].pc \in Terraforming \union {"mark_applied"} => status \in {"approved", "absent"}
    /\ call[c].pc = "log_applied" => status \in {"applied", "absent"}
    /\ call[c].pc = "applying" => infra[call[c].req].begun # {}

\* No other handler works on the request.
Alone(c, q) == \A d \in Calls \ {c} : call[d].pc \in InHandler => call[d].req # q

LifeInv == /\ DeletedInv
           /\ \A r \in Requests : LoopLife(r)
           /\ \A c \in Calls : CallLife(c)
           /\ \A c \in Calls : call[c].pc \in InHandler => Alone(c, call[c].req)

LEMMA LifeFacts ==
    ASSUME IInv
    PROVE  /\ StoreTypeOK /\ GoroutineInv /\ GateIInv
           /\ loop \in [Requests -> LoopState] /\ rows \in [Requests -> Row]
           /\ audit \in [Requests -> Seq(Entry)]
           /\ call \in [Calls -> CallState] /\ infra \in [Requests -> Infra]
           /\ \A c \in Calls : call[c].req \in Requests
<1>1. StoreTypeOK /\ GoroutineInv /\ GateIInv
  BY SplitIInv DEF IInv
<1> QED BY <1>1 DEF StoreTypeOK, GoroutineInv, GateIInv, CallState

\* An insert into audit_logs adds that entry and no other.
LEMMA CreateAuditOnly ==
    ASSUME StoreTypeOK, NEW r \in Requests, NEW a \in Actions, NEW n \in Nat, NEW o,
           CreateAudit(r, a, n, o), NEW q \in Requests, NEW b, Logged(q, b)'
    PROVE  Logged(q, b) \/ (q = r /\ b = a /\ rows[r].status # "absent")
<1> DEFINE e == [action |-> a, attempt |-> n]
           s == audit[r]
<1>1. s \in Seq(Entry) /\ e \in Entry /\ e.action = a /\ audit \in [Requests -> Seq(Entry)]
  BY DEF StoreTypeOK, Entry
<1>2. /\ Len(Append(s, e)) = Len(s) + 1 /\ Append(s, e)[Len(s) + 1] = e
      /\ \A i \in 1..Len(s) : Append(s, e)[i] = s[i]
      /\ Len(s) \in Nat
  BY <1>1, AppendProperties, LenProperties
<1>3. audit' = IF Reaches(r, o) THEN [audit EXCEPT ![r] = Append(s, e)] ELSE audit
  BY DEF CreateAudit
<1> HIDE DEF e, s
<1>4. PICK i \in 1..Len(audit'[q]) : audit'[q][i].action = b
  BY DEF Logged
<1>5. CASE audit'[q] = audit[q]
  BY <1>4, <1>5 DEF Logged
<1>6. CASE audit'[q] # audit[q]
  <2>1. q = r /\ audit'[q] = Append(s, e) /\ rows[r].status # "absent"
    BY <1>1, <1>3, <1>6 DEF Reaches
  <2>2. CASE i = Len(s) + 1
    BY <1>1, <1>2, <1>4, <2>1, <2>2
  <2>3. CASE i # Len(s) + 1
    <3>1. i \in 1..Len(s) /\ s[i].action = b
      BY <1>2, <1>4, <2>1, <2>3
    <3> QED BY <2>1, <3>1 DEF Logged, s
  <2> QED BY <2>2, <2>3
<1> QED BY <1>5, <1>6

\* What a step of r's goroutine does to the rows, as the life cycle sees it.
StartsLife(r) ==
    /\ loop[r].pc = "idle" /\ loop'[r].pc \in {"generate", "error"} /\ audit' = audit
    /\ rows'[r].status = "pending" \/ (rows' = rows /\ loop'[r].pc = "error")
FailsLife(r) ==
    /\ loop[r].pc = "mark_failed" /\ loop'[r].pc = "log_exhausted" /\ audit' = audit
    /\ rows[r].status # "absent" /\ rows'[r].status = "failed"
KeepsLife(r) ==
    /\ loop[r].pc \in InFlight /\ loop'[r].pc # "idle"
    /\ rows'[r].status = rows[r].status
    /\ loop'[r].pc \in InFlight \ {"log_exhausted"}
         => loop[r].pc \in InFlight \ {"log_exhausted"}
    /\ Logged(r, "approved")' => Logged(r, "approved")

LEMMA LoopStepLife ==
    ASSUME StoreTypeOK, loop \in [Requests -> LoopState], NEW r \in Requests, LoopStep(r)
    PROVE  /\ \A q \in Requests \ {r} :
                rows'[q] = rows[q] /\ audit'[q] = audit[q] /\ loop'[q] = loop[q]
           /\ StartsLife(r) \/ FailsLife(r) \/ KeepsLife(r)
<1> USE DEF KeepsLife
<1> DEFINE Others == \A q \in Requests \ {r} :
                        rows'[q] = rows[q] /\ audit'[q] = audit[q] /\ loop'[q] = loop[q]
           Early == InFlight \ {"log_exhausted"}
<1>0. /\ loop[r] \in LoopState /\ rows \in [Requests -> Row]
      /\ audit \in [Requests -> Seq(Entry)]
  BY DEF StoreTypeOK
\* A step that leaves the goroutine at to.
<1>1. ASSUME NEW to, Go(r, to) \/ \E o : GoAnyway(r, to, o)
      PROVE  loop'[r].pc = to /\ \A q \in Requests \ {r} : loop'[q] = loop[q]
  <2>1. CASE Go(r, to)
    BY <1>0, <2>1 DEF Go, LoopState
  <2>2. ASSUME NEW o, GoAnyway(r, to, o)
        PROVE  loop'[r].pc = to /\ \A q \in Requests \ {r} : loop'[q] = loop[q]
    <3> DEFINE b == loop[r].lost \/ ~Acked(r, o)
    <3>1. loop' = [loop EXCEPT ![r].pc = to, ![r].lost = b]
      BY <2>2 DEF GoAnyway
    <3> HIDE DEF b
    <3> QED BY <1>0, <3>1 DEF LoopState
  <2> QED BY <1>1, <2>1, <2>2
<1>2. UNCHANGED <<rows, audit>> =>
        /\ \A q \in Requests : rows'[q] = rows[q] /\ audit'[q] = audit[q]
        /\ Logged(r, "approved")' => Logged(r, "approved")
  BY DEF Logged
<1>3. ASSUME NEW o, Start(r, o)
      PROVE  Others /\ StartsLife(r)
  <2>1. /\ loop[r].pc = "idle" /\ loop'[r].pc \in {"generate", "error"}
        /\ o = "failed" => loop'[r].pc = "error"
        /\ \A q \in Requests \ {r} : loop'[q] = loop[q]
    BY <1>1, <1>3 DEF Start, At
  <2>2. CreateRow(r, o)
    BY <1>3 DEF Start
  <2>3. PendingRow.status = "pending"
    BY DEF PendingRow, NoRow
  <2> QED BY <1>0, <2>1, <2>2, <2>3 DEF CreateRow, StartsLife
<1>4. ASSUME NEW o, MarkFailed(r, o)
      PROVE  Others /\ (FailsLife(r) \/ KeepsLife(r))
  <2>1. /\ loop[r].pc = "mark_failed" /\ loop'[r].pc = "log_exhausted"
        /\ \A q \in Requests \ {r} : loop'[q] = loop[q]
        /\ UpdateStatus(r, "failed", o)
    BY <1>1, <1>4 DEF MarkFailed, At
  <2>2. CASE Reaches(r, o)
    BY <1>0, <2>1, <2>2 DEF UpdateStatus, Reaches, FailsLife, Row
  <2>3. CASE ~Reaches(r, o)
    <3>1. UNCHANGED <<rows, audit>>
      BY <2>1, <2>3 DEF UpdateStatus
    <3> QED BY <1>2, <2>1, <3>1 DEF InFlight
  <2> QED BY <2>2, <2>3
<1>5. ASSUME NEW o, PersistPassed(r, o) \/ PersistFailed(r, o)
      PROVE  Others /\ KeepsLife(r)
  <2>1. PICK to \in {"log_complete", "mark_failed"} :
          /\ GoAnyway(r, to, o)
          /\ UpdateHCLAndScore(r, loop[r].hcl, loop[r].score, loop[r].attempts, o)
          /\ loop[r].pc \in Early
    BY <1>5 DEF PersistPassed, PersistFailed, At, InFlight
  <2>2. /\ rows'[r].status = rows[r].status /\ audit' = audit
        /\ \A q \in Requests \ {r} : rows'[q] = rows[q]
    BY <1>0, <2>1 DEF UpdateHCLAndScore, Row
  <2>3. loop'[r].pc = to /\ \A q \in Requests \ {r} : loop'[q] = loop[q]
    BY <1>1, <2>1
  <2> QED BY <2>1, <2>2, <2>3 DEF Logged
<1>6. ASSUME NEW o, LogComplete(r, o) \/ LogExhausted(r, o) \/ LogAttempt(r, o)
      PROVE  Others /\ KeepsLife(r)
  <2>1. PICK to \in {"passed", "exhausted", "complete"}, a \in Actions \ {"approved"} :
          /\ GoAnyway(r, to, o) /\ CreateAudit(r, a, loop[r].attempts, o)
          /\ loop[r].pc \in InFlight /\ (to = "complete" => loop[r].pc \in Early)
    BY <1>6 DEF LogComplete, LogExhausted, LogAttempt, At, InFlight, Actions
  <2>2. loop[r].attempts \in Nat
    BY <1>0 DEF LoopState
  <2>3. Logged(r, "approved")' => Logged(r, "approved")
    BY <2>1, <2>2, CreateAuditOnly
  <2>4. rows' = rows /\ \A q \in Requests \ {r} : audit'[q] = audit[q]
    BY <1>0, <2>1 DEF CreateAudit
  <2>5. loop'[r].pc = to /\ \A q \in Requests \ {r} : loop'[q] = loop[q]
    BY <1>1, <2>1
  <2> QED BY <2>1, <2>3, <2>4, <2>5 DEF InFlight
\* A step that leaves the goroutine as l.
<1>7. ASSUME NEW l, loop' = [loop EXCEPT ![r] = l]
      PROVE  loop'[r] = l /\ \A q \in Requests \ {r} : loop'[q] = loop[q]
  BY <1>7
<1>8. ASSUME NEW h, NEW o, Generate(r, h, o)
      PROVE  Others /\ KeepsLife(r)
  <2> DEFINE b == ~Acked(r, o)
             l == [loop[r] EXCEPT !.pc = "plan", !.hcl = h, !.lost = b]
  <2>1. loop' = [loop EXCEPT ![r] = l]
    BY <1>8 DEF Generate
  <2> HIDE DEF b
  <2>2. l.pc = "plan"
    BY <1>0 DEF LoopState
  <2> HIDE DEF l
  <2>3. loop'[r].pc = "plan" /\ \A q \in Requests \ {r} : loop'[q] = loop[q]
    BY <1>7, <2>1, <2>2
  <2>4. CreateAudit(r, "generation_attempt", 0, o) /\ loop[r].pc \in Early
    BY <1>8 DEF Generate, At, InFlight
  <2>5. Logged(r, "approved")' => Logged(r, "approved")
    BY <2>4, CreateAuditOnly DEF Actions
  <2>6. rows' = rows /\ \A q \in Requests \ {r} : audit'[q] = audit[q]
    BY <1>0, <2>4 DEF CreateAudit
  <2> QED BY <2>3, <2>4, <2>5, <2>6
<1>9. CASE GenerateFails(r) \/ CompleteFails(r) \/ StartScan(r)
  <2>1. PICK to \in {"error", "scanning"} :
          Go(r, to) /\ UNCHANGED <<rows, audit>> /\ loop[r].pc \in Early
    BY <1>9 DEF GenerateFails, CompleteFails, StartScan, At, InFlight
  <2> QED BY <1>1, <1>2, <2>1
<1>10. ASSUME NEW l, loop' = [loop EXCEPT ![r] = l], l.pc # "idle",
              UNCHANGED <<rows, audit>>, loop[r].pc \in Early
       PROVE  Others /\ KeepsLife(r)
  BY <1>2, <1>7, <1>10
<1>11. ASSUME NEW h, Complete(r, h)
       PROVE  Others /\ KeepsLife(r)
  <2> DEFINE l == [loop[r] EXCEPT !.pc = "plan", !.hcl = h, !.asked = @ + 1]
  <2>1. /\ loop' = [loop EXCEPT ![r] = l] /\ UNCHANGED <<rows, audit>>
        /\ loop[r].pc \in Early
    BY <1>11 DEF Complete, At, InFlight
  <2>2. l.pc # "idle"
    BY <1>0 DEF LoopState
  <2> HIDE DEF l
  <2> QED BY <1>10, <2>1, <2>2
<1>12. CASE StartPlan(r)
  <2> DEFINE l == [loop[r] EXCEPT !.pc = "planning", !.tried = @ \union {loop[r].hcl}]
  <2>1. /\ loop' = [loop EXCEPT ![r] = l] /\ UNCHANGED <<rows, audit>>
        /\ loop[r].pc \in Early
    BY <1>12 DEF StartPlan, At, InFlight
  <2>2. l.pc # "idle"
    BY <1>0 DEF LoopState
  <2> HIDE DEF l
  <2> QED BY <1>10, <2>1, <2>2
<1>13. CASE PlanRefused(r)
  <2> DEFINE l == [loop[r] EXCEPT !.pc = "check", !.planned = FALSE,
                                  !.tried = @ \union {loop[r].hcl}]
  <2>1. /\ loop' = [loop EXCEPT ![r] = l] /\ UNCHANGED <<rows, audit>>
        /\ loop[r].pc \in Early
    BY <1>13 DEF PlanRefused, At, InFlight
  <2>2. l.pc # "idle"
    BY <1>0 DEF LoopState
  <2> HIDE DEF l
  <2> QED BY <1>10, <2>1, <2>2
<1>14. ASSUME NEW ok, loop' = [loop EXCEPT ![r].pc = "check", ![r].planned = ok],
              UNCHANGED <<rows, audit>>, loop[r].pc = "planning"
       PROVE  Others /\ KeepsLife(r)
  <2> DEFINE l == [loop[r] EXCEPT !.pc = "check", !.planned = ok]
  <2>1. loop' = [loop EXCEPT ![r] = l] /\ loop[r].pc \in Early
    BY <1>14 DEF InFlight
  <2>2. l.pc # "idle"
    BY <1>0 DEF LoopState
  <2> HIDE DEF l
  <2> QED BY <1>10, <1>14, <2>1, <2>2
<1>15. ASSUME NEW score, Judge(r, score), loop[r].pc \in {"check", "scanning"},
              UNCHANGED <<rows, audit>>
       PROVE  Others /\ KeepsLife(r)
  <2> DEFINE n == loop[r].attempts + 1
             passed == Validated(r, score)
             pc == IF passed THEN "persist_passed"
                   ELSE IF LastAttempt(n) THEN "persist_failed" ELSE "log_attempt"
             m == IF passed THEN loop[r].attempts ELSE n
             l == [loop[r] EXCEPT !.pc = pc, !.score = score, !.attempts = m]
  <2>1. loop' = [loop EXCEPT ![r] = l] /\ pc # "idle" /\ loop[r].pc \in Early
    BY <1>15 DEF Judge, InFlight
  <2>2. l.pc = pc
    <3> HIDE DEF pc, m
    <3> QED BY <1>0 DEF LoopState
  <2> HIDE DEF l, pc
  <2> QED BY <1>10, <1>15, <2>1, <2>2
<1>16. CASE ScanReturns(r) \/ ScanFails(r)
  BY <1>15, <1>16 DEF ScanReturns, ScanFails, At
<1>17. CASE PlanDeadline(r) \/ \E ok \in BOOLEAN : PlanReturns(r, ok)
  BY <1>14, <1>17 DEF PlanDeadline, PlanReturns, At
<1> HIDE DEF KeepsLife
<1> QED BY <1>3, <1>4, <1>5, <1>6, <1>8, <1>9, <1>11, <1>12, <1>13, <1>16, <1>17
        DEF LoopStep, OwnStep, DatabaseStep, ModelStep

-----------------------------------------------------------------------------
(* The invariant of the life cycle.                                          *)

LEMMA SubmitLife ==
    ASSUME IInv, LifeInv, DeletedInv', NEW r \in Requests, Submit(r)
    PROVE  LifeInv'
<1>1. /\ \A q \in Requests \ {r} :
           rows'[q] = rows[q] /\ audit'[q] = audit[q] /\ loop'[q] = loop[q]
      /\ StartsLife(r) \/ FailsLife(r) \/ KeepsLife(r)
      /\ UNCHANGED <<call, infra, erased>>
  BY LifeFacts, LoopStepLife DEF Submit
<1>2. loop[r].pc \notin Accepted
  BY <1>1 DEF StartsLife, FailsLife, KeepsLife, InFlight, Accepted
<1>3. LoopLife(r)'
  <2>1. LoopLife(r) /\ (loop[r].pc = "idle" => rows[r].status = "absent")
                    /\ (rows[r].status = "absent" => audit[r] = <<>>)
    BY DEF LifeInv, DeletedInv
  <2>2. CASE StartsLife(r)
    <3>1. rows[r].status = "absent" /\ audit'[r] = <<>> /\ erased'[r] = {}
      BY <1>1, <2>1, <2>2 DEF StartsLife, LoopLife, Gone
    <3>2. ~Attested(r, "approved")'
      <4>1. Len(<<>>) = 0
        BY EmptySeq
      <4> QED BY <3>1, <4>1 DEF Attested, Logged
    <3> QED BY <2>2, <3>1, <3>2 DEF StartsLife, LoopLife, Bare
  <2>3. CASE FailsLife(r)
    <3>1. rows[r].status = "pending"
      BY <2>1, <2>3 DEF FailsLife, LoopLife, Bare, InFlight
    <3>2. ~Attested(r, "approved") /\ erased'[r] = erased[r] /\ audit'[r] = audit[r]
      BY <1>1, <2>1, <2>3, <3>1 DEF FailsLife, LoopLife
    <3>3. ~Attested(r, "approved")'
      BY <3>2 DEF Attested, Logged
    <3>4. erased'[r] = {}
      BY <2>1, <3>1, <3>2 DEF LoopLife, Gone
    <3> QED BY <2>3, <3>3, <3>4 DEF FailsLife, LoopLife
  <2>4. CASE KeepsLife(r)
    <3>1. Attested(r, "approved")' => Attested(r, "approved")
      BY <1>1, <2>4 DEF Attested, KeepsLife
    <3>2. erased'[r] = erased[r] /\ rows'[r].status = rows[r].status
      BY <1>1, <2>4 DEF KeepsLife
    <3>3. Gone(r) => Gone(r)'
      BY <2>4, <3>2 DEF Gone, KeepsLife
    <3> QED BY <2>1, <2>4, <3>1, <3>2, <3>3 DEF LoopLife, KeepsLife
  <2> QED BY <1>1, <2>2, <2>3, <2>4
<1>4. ASSUME NEW q \in Requests, q # r
      PROVE  LoopLife(q)'
  BY <1>1, <1>4 DEF LifeInv, LoopLife, Gone, Attested, Logged
<1>5. ASSUME NEW c \in Calls
      PROVE  CallLife(c)'
  <2>1. PICK q \in Requests : q = call[c].req
    BY LifeFacts
  <2>2. CallLife(c)
    BY DEF LifeInv
  <2>3. CASE q = r
    <3>1. call[c].pc \notin InHandler
      BY <1>2, <2>1, <2>2, <2>3 DEF CallLife
    <3> QED BY <1>1, <3>1 DEF CallLife, InHandler, Deciding, Terraforming, Recording
  <2>4. CASE q # r
    <3>1. rows'[q] = rows[q] /\ loop'[q] = loop[q]
      BY <1>1, <2>4
    <3> QED BY <1>1, <2>1, <2>2, <3>1 DEF CallLife, Decision
  <2> QED BY <2>3, <2>4
<1>6. \A c \in Calls : call'[c].pc \in InHandler => Alone(c, call[c].req)'
  BY <1>1 DEF LifeInv, Alone
<1> QED BY <1>1, <1>3, <1>4, <1>5, <1>6 DEF LifeInv

\* A step of c's handler, the only one on q.
LEMMA HandlerLife ==
    ASSUME IInv, LifeInv, DeletedInv', NEW c \in Calls, NEW q \in Requests, Alone(c, q),
           NEW k, call' = [call EXCEPT ![c] = k], k.req = q, loop' = loop, erased' = erased,
           \A x \in Requests : x # q => rows'[x].status = rows[x].status,
           rows'[q].status = rows[q].status \/ loop[q].pc \in Accepted,
           rows'[q].status = "absent" <=> rows[q].status = "absent",
           \A x \in Requests : x # q => audit'[x] = audit[x],
           Attested(q, "approved")' /\ rows'[q].status # "absent"
             => rows'[q].status \in {"approved", "applied"},
           \A x \in Requests : infra[x].begun # {} => infra'[x].begun # {},
           CallLife(c)'
    PROVE  LifeInv'
<1>1. call \in [Calls -> CallState]
  BY LifeFacts
<1>2. call'[c] = k /\ \A d \in Calls \ {c} : call'[d] = call[d]
  BY <1>1
<1>3. ASSUME NEW r \in Requests
      PROVE  LoopLife(r)'
  <2>1. LoopLife(r)
    BY DEF LifeInv
  <2>2. CASE r = q
    <3>1. loop[q].pc \in InFlight \ {"log_exhausted"} => rows'[q].status = rows[q].status
      BY DEF InFlight, Accepted
    <3> QED BY <2>1, <2>2, <3>1 DEF LoopLife, Gone
  <2>3. CASE r # q
    BY <2>1, <2>3 DEF LoopLife, Gone, Attested, Logged
  <2> QED BY <2>2, <2>3
<1>4. ASSUME NEW d \in Calls, d # c
      PROVE  CallLife(d)'
  <2>1. PICK x \in Requests : x = call[d].req
    BY LifeFacts
  <2>2. CallLife(d) /\ call'[d] = call[d]
    BY <1>2, <1>4 DEF LifeInv
  <2>3. CASE x = q
    <3>1. call[d].pc \notin InHandler
      BY <1>4, <2>1, <2>3 DEF Alone
    <3> QED BY <2>2, <3>1 DEF CallLife, InHandler, Deciding, Terraforming, Recording
  <2>4. CASE x # q
    <3>1. rows'[x].status = rows[x].status
      BY <2>4
    <3>2. infra[x].begun # {} => infra'[x].begun # {}
      OBVIOUS
    <3> QED BY <2>1, <2>2, <3>1, <3>2 DEF CallLife, Decision
  <2> QED BY <2>3, <2>4
<1>5. ASSUME NEW d \in Calls, call'[d].pc \in InHandler
      PROVE  Alone(d, call[d].req)'
  <2>1. CASE d = c
    BY <1>2, <2>1 DEF Alone
  <2>2. CASE d # c
    <3>1. call'[d] = call[d] /\ call[d].req # q /\ Alone(d, call[d].req)
      BY <1>2, <1>5, <2>2 DEF Alone, LifeInv
    <3> QED BY <1>2, <3>1 DEF Alone
  <2> QED BY <2>1, <2>2
<1> QED BY <1>3, <1>4, <1>5 DEF LifeInv

LEMMA DecideLife ==
    ASSUME AfterReply, Serial, IInv, LifeInv, DeletedInv', NEW c \in Calls, Decide(c)
    PROVE  LifeInv'
<1>0. PICK q \in Requests : q = call[c].req
  BY LifeFacts
<1>1. PICK o : Receive(c, o)
  BY DEF Decide
<1>2. /\ loop' = loop /\ erased' = erased /\ UNCHANGED <<rows, audit, infra>>
      /\ loop[q].pc \in Accepted /\ Alone(c, q)
  BY <1>0, <1>1 DEF Decide, MayDecide, Receive, Alone
<1> DEFINE k == [call[c] EXCEPT !.pc = Verdict(q, o)]
<1>3. call' = [call EXCEPT ![c] = k]
  BY <1>0, <1>1 DEF Receive, Reply
<1>4. k.req = q /\ k.pc = Verdict(q, o)
  BY <1>0, LifeFacts DEF CallState
<1> HIDE DEF k
<1>5. /\ k.pc \in {"500", "404", "409", "set_status"}
      /\ k.pc = "set_status" => rows[q].status = "pending"
  BY <1>4 DEF Verdict
<1>6. call'[c] = k
  BY <1>3, LifeFacts
<1>7. CallLife(c)'
  BY <1>2, <1>4, <1>5, <1>6
  DEF CallLife, Bare, InHandler, Deciding, Terraforming, Recording
<1>8. Attested(q, "approved")' => Attested(q, "approved")
  BY <1>2 DEF Attested, Logged
<1> QED BY <1>2, <1>3, <1>4, <1>7, <1>8, HandlerLife DEF LifeInv, LoopLife

\* What a handler past its check relies on.
LEMMA InHandlerFacts ==
    ASSUME IInv, LifeInv, NEW c \in Calls, NEW q \in Requests, q = call[c].req,
           call[c].pc \in InHandler
    PROVE  /\ loop[q].pc \in Accepted /\ Alone(c, q) /\ CallLife(c) /\ LoopLife(q)
           /\ call[c] \in CallState /\ loop[q].pc # "idle"
           /\ rows \in [Requests -> Row] /\ audit \in [Requests -> Seq(Entry)]
           /\ infra \in [Requests -> Infra]
<1>1. CallLife(c) /\ Alone(c, q) /\ LoopLife(q)
  BY DEF LifeInv
<1>2. loop[q].pc \in Accepted
  BY <1>1 DEF CallLife
<1> QED BY <1>1, <1>2, LifeFacts DEF Accepted

\* A handler whose statement met no row, or that only moves on, or is through.
LEMMA RepliesLife ==
    ASSUME IInv, LifeInv, DeletedInv', NEW c \in Calls, call[c].pc \in InHandler,
           NEW to, Reply(c, to), loop' = loop, erased' = erased,
           \A x \in Requests : rows'[x].status = rows[x].status /\ audit'[x] = audit[x],
           \A x \in Requests : infra[x].begun # {} => infra'[x].begun # {},
           \/ to \notin InHandler
           \/ to = "apply" /\ call[c].pc = "init"
           \/ to = "mark_applied" /\ call[c].pc = "applying"
    PROVE  LifeInv'
<1>0. PICK q \in Requests : q = call[c].req
  BY LifeFacts
<1>1. loop[q].pc \in Accepted /\ Alone(c, q) /\ CallLife(c) /\ LoopLife(q)
      /\ call[c] \in CallState
  BY <1>0, InHandlerFacts
<1> DEFINE k == [call[c] EXCEPT !.pc = to]
<1>2. call' = [call EXCEPT ![c] = k]
  BY DEF Reply
<1>3. k.req = q /\ k.pc = to
  BY <1>0, <1>1 DEF CallState
<1> HIDE DEF k
<1>4. call'[c] = k
  BY <1>2, LifeFacts
<1>5. CallLife(c)'
  BY <1>0, <1>1, <1>3, <1>4
  DEF CallLife, InHandler, Deciding, Terraforming, Recording
<1>6. Attested(q, "approved")' => Attested(q, "approved")
  BY DEF Attested, Logged
<1> QED BY <1>1, <1>2, <1>3, <1>5, <1>6, HandlerLife DEF LoopLife

\* The two statements that set the status.
LEMMA StatusLife ==
    ASSUME IInv, LifeInv, DeletedInv', NEW c \in Calls, NEW o,
           SetStatus(c, o) \/ MarkApplied(c, o), loop' = loop, erased' = erased
    PROVE  LifeInv'
<1>0. PICK q \in Requests : q = call[c].req
  BY LifeFacts
<1>1. PICK s \in {"approved", "rejected", "applied"}, next \in {"log_decision", "log_applied"} :
        /\ UpdateStatus(q, s, o)
        /\ Reply(c, IF Acked(q, o) THEN next ELSE "500")
        /\ infra' = infra /\ call[c].pc \in InHandler
        /\ \/ call[c].pc = "set_status" /\ next = "log_decision" /\ s = Decision(c)
           \/ call[c].pc = "mark_applied" /\ next = "log_applied" /\ s = "applied"
  BY <1>0 DEF SetStatus, MarkApplied, CallAt, Decision, InHandler, Deciding, Recording
<1>2. /\ loop[q].pc \in Accepted /\ Alone(c, q) /\ CallLife(c) /\ LoopLife(q)
      /\ call[c] \in CallState /\ rows \in [Requests -> Row]
  BY <1>0, <1>1, InHandlerFacts
<1>3. PICK to : to = IF Acked(q, o) THEN next ELSE "500"
  OBVIOUS
<1> DEFINE k == [call[c] EXCEPT !.pc = to]
<1>4. call' = [call EXCEPT ![c] = k]
  BY <1>1, <1>3 DEF Reply
<1>5. k.req = q /\ k.pc = to /\ k.kind = call[c].kind
  BY <1>0, <1>2 DEF CallState
<1> HIDE DEF k
<1>6. call'[c] = k
  BY <1>4, LifeFacts
<1>7. /\ audit' = audit
      /\ \A x \in Requests : x # q => rows'[x].status = rows[x].status
      /\ rows'[q].status = IF Reaches(q, o) THEN s ELSE rows[q].status
  BY <1>1, <1>2 DEF UpdateStatus, Row
<1>8. rows'[q].status = "absent" <=> rows[q].status = "absent"
  BY <1>1, <1>7 DEF Reaches
<1>9. CallLife(c)'
  <2>1. Acked(q, o) => rows'[q].status = s
    BY <1>7 DEF Acked, Reaches
  <2> QED BY <1>0, <1>1, <1>2, <1>3, <1>5, <1>6, <2>1
          DEF CallLife, Decision, InHandler, Deciding, Terraforming, Recording
<1>10. Attested(q, "approved")' => Attested(q, "approved")
  BY <1>7 DEF Attested, Logged
<1>11. Attested(q, "approved") /\ rows'[q].status # "absent"
         => rows'[q].status \in {"approved", "applied"}
  <2>1. CASE call[c].pc = "set_status"
    <3>1. Attested(q, "approved") => rows[q].status = "absent"
      BY <1>0, <1>2, <2>1 DEF CallLife, LoopLife, Bare
    <3> QED BY <1>8, <3>1
  <2>2. CASE call[c].pc = "mark_applied"
    BY <1>1, <1>2, <1>7, <2>2 DEF LoopLife
  <2> QED BY <1>1, <2>1, <2>2
<1> QED BY <1>1, <1>2, <1>4, <1>5, <1>7, <1>8, <1>9, <1>10, <1>11, HandlerLife

\* The two statements that write an entry.
LEMMA EntryLife ==
    ASSUME IInv, LifeInv, DeletedInv', NEW c \in Calls, NEW o,
           LogDecision(c, o) \/ LogApplied(c, o), loop' = loop, erased' = erased
    PROVE  LifeInv'
<1>0. PICK q \in Requests : q = call[c].req
  BY LifeFacts
<1>1. PICK a \in {"approved", "rejected", "applied"}, to \in {"init", "200", "500"} :
        /\ CreateAudit(q, a, 0, o) /\ Reply(c, to) /\ infra' = infra
        /\ call[c].pc \in InHandler
        /\ \/ /\ call[c].pc = "log_decision" /\ a = Decision(c)
              /\ to = "init" => call[c].kind = "approve"
           \/ call[c].pc = "log_applied" /\ a = "applied" /\ to # "init"
  <2>1. CASE LogDecision(c, o)
    BY <1>0, <2>1, LifeFacts
    DEF LogDecision, CallAt, Decision, CallState, InHandler, Deciding
  <2>2. CASE LogApplied(c, o)
    BY <1>0, <2>2 DEF LogApplied, CallAt, InHandler, Recording
  <2> QED BY <2>1, <2>2
<1>2. /\ loop[q].pc \in Accepted /\ Alone(c, q) /\ CallLife(c) /\ LoopLife(q)
      /\ call[c] \in CallState /\ audit \in [Requests -> Seq(Entry)]
  BY <1>0, <1>1, InHandlerFacts
<1> DEFINE k == [call[c] EXCEPT !.pc = to]
<1>4. call' = [call EXCEPT ![c] = k]
  BY <1>1 DEF Reply
<1>5. k.req = q /\ k.pc = to /\ k.kind = call[c].kind
  BY <1>0, <1>2 DEF CallState
<1> HIDE DEF k
<1>6. call'[c] = k
  BY <1>4, LifeFacts
<1>7. rows' = rows /\ \A x \in Requests : x # q => audit'[x] = audit[x]
  BY <1>1, <1>2 DEF CreateAudit
<1>8. CallLife(c)'
  BY <1>0, <1>1, <1>2, <1>5, <1>6, <1>7
  DEF CallLife, Decision, InHandler, Deciding, Terraforming, Recording
<1>9. Attested(q, "approved")' /\ rows'[q].status # "absent"
        => rows'[q].status \in {"approved", "applied"}
  <2>1. Logged(q, "approved")' => Logged(q, "approved") \/ a = "approved"
    BY <1>1, LifeFacts, CreateAuditOnly DEF Actions
  <2>2. Attested(q, "approved")' => Attested(q, "approved") \/ a = "approved"
    BY <2>1 DEF Attested
  <2>3. a = "approved" => rows[q].status \in {"approved", "absent"}
    BY <1>0, <1>1, <1>2 DEF CallLife
  <2> QED BY <1>2, <1>7, <2>2, <2>3 DEF LoopLife
<1> QED BY <1>1, <1>2, <1>4, <1>5, <1>7, <1>8, <1>9, HandlerLife

LEMMA ApplyBeginsLife ==
    ASSUME IInv, LifeInv, DeletedInv', NEW c \in Calls, ApplyBegins(c),
           loop' = loop, erased' = erased
    PROVE  LifeInv'
<1>0. PICK q \in Requests : q = call[c].req
  BY LifeFacts
<1>1. PICK h : h = ws[q].main
  OBVIOUS
<1> DEFINE k == [call[c] EXCEPT !.pc = "applying", !.hcl = h]
<1>2. /\ call' = [call EXCEPT ![c] = k] /\ UNCHANGED <<rows, audit>>
      /\ infra' = [infra EXCEPT ![q].begun = @ \union {h}]
      /\ call[c].pc = "apply" /\ call[c].pc \in InHandler
  BY <1>0, <1>1 DEF ApplyBegins, CallAt, InHandler, Terraforming
<1>3. /\ loop[q].pc \in Accepted /\ Alone(c, q) /\ CallLife(c) /\ LoopLife(q)
      /\ call[c] \in CallState /\ infra \in [Requests -> Infra]
  BY <1>0, <1>2, InHandlerFacts
<1>4. k.req = q /\ k.pc = "applying"
  BY <1>0, <1>3 DEF CallState
<1> HIDE DEF k
<1>5. /\ infra'[q].begun = infra[q].begun \union {h}
      /\ \A x \in Requests \ {q} : infra'[x] = infra[x]
  BY <1>2, <1>3 DEF Infra
<1>6. call'[c] = k
  BY <1>2, LifeFacts
<1>7. CallLife(c)'
  BY <1>0, <1>2, <1>3, <1>4, <1>5, <1>6
  DEF CallLife, InHandler, Deciding, Terraforming, Recording
<1>8. Attested(q, "approved")' => Attested(q, "approved")
  BY <1>2 DEF Attested, Logged
<1>9. \A x \in Requests : infra[x].begun # {} => infra'[x].begun # {}
  BY <1>5
<1> QED BY <1>2, <1>3, <1>4, <1>7, <1>8, <1>9, HandlerLife DEF LoopLife

LEMMA HandleLife ==
    ASSUME IInv, LifeInv, DeletedInv', NEW c \in Calls, Handle(c)
    PROVE  LifeInv'
<1>1. loop' = loop /\ erased' = erased
  BY DEF Handle
<1>2. ASSUME NEW ok \in BOOLEAN, TerraformInit(c, ok) \/ ApplyFails(c) \/ ApplySucceeds(c)
      PROVE  LifeInv'
  <2>1. PICK to :
          /\ Reply(c, to) /\ call[c].pc \in InHandler
          /\ \/ to \notin InHandler
             \/ to = "apply" /\ call[c].pc = "init"
             \/ to = "mark_applied" /\ call[c].pc = "applying"
    BY <1>2 DEF TerraformInit, ApplyFails, ApplySucceeds, CallAt,
                InHandler, Deciding, Terraforming, Recording
  <2>2. UNCHANGED <<rows, audit>>
    BY <1>2 DEF TerraformInit, ApplyFails, ApplySucceeds
  <2>3. infra \in [Requests -> Infra]
    BY LifeFacts
  <2>4. \A x \in Requests : infra'[x].begun = infra[x].begun
    BY <1>2, <2>3 DEF TerraformInit, ApplyFails, ApplySucceeds, Infra
  <2> QED BY <1>1, <2>1, <2>2, <2>4, RepliesLife
<1> QED BY <1>1, <1>2, StatusLife, EntryLife, ApplyBeginsLife
        DEF Handle, GateDatabaseStep, TerraformStep

LEMMA CrashLife ==
    ASSUME IInv, LifeInv, DeletedInv', ServerCrash
    PROVE  LifeInv'
<1>1. UNCHANGED <<rows, audit, erased>>
  BY DEF ServerCrash
<1>2. ASSUME NEW r \in Requests
      PROVE  LoopLife(r)'
  <2>1. loop[r] \in LoopState /\ LoopLife(r)
    BY LifeFacts DEF LifeInv
  <2>2. loop'[r] = loop[r] \/ loop'[r].pc = "crashed"
    BY <2>1 DEF ServerCrash, CrashLoops, LoopState
  <2>3. Gone(r) => Gone(r)'
    BY <1>1, <2>2 DEF Gone
  <2>4. Attested(r, "approved")' => Attested(r, "approved")
    BY <1>1 DEF Attested, Logged
  <2> QED BY <1>1, <2>1, <2>2, <2>3, <2>4 DEF LoopLife, InFlight
<1>3. ASSUME NEW c \in Calls
      PROVE  call'[c].pc \notin InHandler
  <2>1. call[c] \in CallState
    BY LifeFacts
  <2> QED BY <2>1 DEF ServerCrash, CrashCalls, CallState, InHandler, Deciding,
                      Terraforming, Recording
<1>4. \A c \in Calls : CallLife(c)'
  BY <1>3 DEF CallLife, InHandler, Deciding, Terraforming, Recording
<1> QED BY <1>2, <1>3, <1>4 DEF LifeInv

LEMMA ResetLife ==
    ASSUME IInv, LifeInv, DeletedInv', Reset
    PROVE  LifeInv'
<1>1. PICK D \in SUBSET {r \in Requests : rows[r].status # "absent"} :
        /\ rows' = [r \in Requests |-> IF r \in D THEN NoRow ELSE rows[r]]
        /\ audit' = [r \in Requests |-> IF r \in D THEN <<>> ELSE audit[r]]
        /\ erased' = [r \in Requests |->
                        IF r \in D THEN erased[r] \union {a \in Actions : Logged(r, a)}
                                   ELSE erased[r]]
  BY DEF Reset
<1>2. UNCHANGED <<loop, call, infra>>
  BY DEF Reset
<1>3. ASSUME NEW r \in Requests
      PROVE  LoopLife(r)'
  <2>1. LoopLife(r) /\ (loop[r].pc = "idle" => rows[r].status = "absent")
    BY DEF LifeInv, DeletedInv
  <2>2. CASE r \in D
    <3>1. rows'[r].status = "absent" /\ loop[r].pc # "idle"
      BY <1>1, <2>1, <2>2 DEF NoRow
    <3> QED BY <1>2, <3>1 DEF LoopLife, Gone, Bare
  <2>3. CASE r \notin D
    <3>1. rows'[r] = rows[r] /\ audit'[r] = audit[r] /\ erased'[r] = erased[r]
      BY <1>1, <2>3
    <3> QED BY <1>2, <2>1, <3>1 DEF LoopLife, Gone, Attested, Logged
  <2> QED BY <2>2, <2>3
<1>4. ASSUME NEW c \in Calls
      PROVE  CallLife(c)'
  <2>1. PICK q \in Requests : q = call[c].req
    BY LifeFacts
  <2>2. rows'[q].status \in {rows[q].status, "absent"}
    BY <1>1 DEF NoRow
  <2>3. CallLife(c)
    BY DEF LifeInv
  <2> QED BY <1>2, <2>1, <2>2, <2>3 DEF CallLife, Decision, Bare
<1>5. \A c \in Calls : call'[c].pc \in InHandler => Alone(c, call[c].req)'
  BY <1>2 DEF LifeInv, Alone
<1> QED BY <1>3, <1>4, <1>5 DEF LifeInv

LEMMA LifeStep ==
    ASSUME AfterReply, Serial, IInv, LifeInv, [Next]_vars
    PROVE  LifeInv'
<1>1. DeletedInv'
  BY DeletedStep DEF LifeInv, StepKeepsDeleted
<1>2. CASE UNCHANGED vars
  BY <1>1, <1>2 DEF vars, LifeInv, LoopLife, CallLife, Alone, Gone, Attested, Logged, Decision
<1> QED BY <1>1, <1>2, SubmitLife, DecideLife, HandleLife, CrashLife, ResetLife DEF Next

-----------------------------------------------------------------------------
(* Every step is one of the abstract life cycle, or invisible to it.         *)

SameLife(r) == LifeStatus(r)' = LifeStatus(r)
SameInfra(r) == /\ (infra[r].begun # {})' = (infra[r].begun # {})
                /\ (infra[r].done # {})' = (infra[r].done # {})

LifeNext == Lifecycle!LifecycleNext \/ UNCHANGED Lifecycle!lifecycleVars

LEMMA NoMove ==
    ASSUME \A r \in Requests : SameLife(r) /\ SameInfra(r)
    PROVE  LifeNext
BY DEF LifeNext, Lifecycle!lifecycleVars, SameLife, SameInfra

LEMMA OneMove ==
    ASSUME NEW r \in Requests, NEW from, NEW to,
           LifeStatus(r) = from, LifeStatus(r)' = to,
           \A q \in Requests \ {r} : SameLife(q), \A q \in Requests : SameInfra(q)
    PROVE  Lifecycle!Move(r, from, to)
BY DEF Lifecycle!Move, SameLife, SameInfra

LEMMA SubmitFollows ==
    ASSUME IInv, LifeInv, NEW r \in Requests, Submit(r)
    PROVE  LifeNext
<1>1. /\ \A q \in Requests \ {r} :
           rows'[q] = rows[q] /\ audit'[q] = audit[q] /\ loop'[q] = loop[q]
      /\ StartsLife(r) \/ FailsLife(r) \/ KeepsLife(r)
      /\ UNCHANGED <<call, infra, erased>>
  BY LifeFacts, LoopStepLife DEF Submit
<1>2. LoopLife(r) /\ (loop[r].pc = "idle" => rows[r].status = "absent")
  BY DEF LifeInv, DeletedInv
<1>3. \A q \in Requests \ {r} : SameLife(q)
  BY <1>1 DEF SameLife, LifeStatus, Gone
<1>4. \A q \in Requests : SameInfra(q)
  BY <1>1 DEF SameInfra
<1>5. CASE StartsLife(r)
  <2>1. LifeStatus(r) = "absent" /\ erased'[r] = {}
    BY <1>1, <1>2, <1>5 DEF StartsLife, LifeStatus, Gone, LoopLife
  <2>2. CASE rows'[r].status = "pending"
    <3>1. LifeStatus(r)' = "pending"
      BY <2>2 DEF LifeStatus, Gone
    <3> QED BY <1>3, <1>4, <2>1, <3>1, OneMove DEF LifeNext, Lifecycle!LifecycleNext
  <2>3. CASE rows'[r].status # "pending"
    <3>1. LifeStatus(r)' = "deleted"
      BY <1>2, <1>5, <2>1, <2>3 DEF StartsLife, LifeStatus, Gone
    <3>2. Lifecycle!Delete({r}, {})
      BY <1>3, <1>4, <3>1 DEF Lifecycle!Delete, SameLife, SameInfra
    <3> QED BY <2>1, <3>2 DEF LifeNext, Lifecycle!LifecycleNext
  <2> QED BY <2>2, <2>3
<1>6. CASE FailsLife(r)
  <2>1. LifeStatus(r) = "pending" /\ LifeStatus(r)' = "failed"
    BY <1>2, <1>6 DEF FailsLife, LoopLife, LifeStatus, Gone, Bare, InFlight
  <2> QED BY <1>3, <1>4, <2>1, OneMove DEF LifeNext, Lifecycle!LifecycleNext
<1>7. CASE KeepsLife(r)
  <2>1. SameLife(r)
    BY <1>1, <1>7 DEF KeepsLife, SameLife, LifeStatus, Gone, InFlight
  <2> QED BY <1>3, <1>4, <2>1, NoMove
<1> QED BY <1>1, <1>5, <1>6, <1>7

\* A handler of an approval that reached terraform: the change stands approved,
\* or was deleted while it did.
LEMMA StandsApproved ==
    ASSUME IInv, LifeInv, NEW c \in Calls, call[c].pc \in Terraforming,
           NEW q \in Requests, q = call[c].req
    PROVE  LifeStatus(q) \in {"approved", "orphaned"}
<1>1. /\ loop[q].pc # "idle" /\ CallLife(c) /\ LoopLife(q)
  BY InHandlerFacts DEF InHandler
<1>2. Attested(q, "approved")
  BY HandlerFacts DEF IInv, CallOK
<1>3. CASE rows[q].status = "approved"
  BY <1>3 DEF LifeStatus, Gone
<1>4. CASE rows[q].status = "absent"
  <2>1. audit[q] = <<>>
    BY <1>4 DEF LifeInv, DeletedInv
  <2>2. ~Logged(q, "approved")
    <3>1. Len(<<>>) = 0
      BY EmptySeq
    <3> QED BY <2>1, <3>1 DEF Logged
  <2> QED BY <1>1, <1>2, <1>4, <2>2 DEF Attested, LifeStatus, Gone
<1> QED BY <1>1, <1>3, <1>4 DEF CallLife

LEMMA HandleFollows ==
    ASSUME IInv, LifeInv, NEW c \in Calls, Handle(c)
    PROVE  LifeNext
<1>0. PICK q \in Requests : q = call[c].req
  BY LifeFacts
<1>1. loop' = loop /\ erased' = erased /\ rows \in [Requests -> Row]
      /\ infra \in [Requests -> Infra]
  BY LifeFacts DEF Handle
<1>2. ASSUME UNCHANGED <<rows, infra>>
      PROVE  LifeNext
  BY <1>1, <1>2, NoMove DEF SameLife, SameInfra, LifeStatus, Gone
<1>3. ASSUME NEW s \in {"approved", "rejected", "applied"}, NEW o, UpdateStatus(q, s, o),
             infra' = infra, call[c].pc \in InHandler,
             \/ s \in {"approved", "rejected"} /\ rows[q].status \in Bare
             \/ s = "applied" /\ rows[q].status \in {"approved", "absent"}
                              /\ infra[q].done # {}
      PROVE  LifeNext
  <2>1. CASE ~Reaches(q, o)
    BY <1>2, <1>3, <2>1 DEF UpdateStatus
  <2>2. CASE Reaches(q, o)
    <3>1. /\ rows'[q].status = s /\ rows[q].status # "absent"
          /\ \A x \in Requests \ {q} : rows'[x] = rows[x]
      BY <1>1, <1>3, <2>2 DEF UpdateStatus, Reaches, Row
    <3>2. LifeStatus(q) = rows[q].status /\ LifeStatus(q)' = s
      BY <1>3, <3>1 DEF LifeStatus, Gone
    <3>3. \A x \in Requests \ {q} : SameLife(x)
      BY <1>1, <3>1 DEF SameLife, LifeStatus, Gone
    <3>4. \A x \in Requests : SameInfra(x)
      BY <1>3 DEF SameInfra
    <3>5. Lifecycle!Move(q, rows[q].status, s)
      BY <3>2, <3>3, <3>4, OneMove
    <3>6. CASE s \in {"approved", "rejected"} /\ rows[q].status = "pending"
      BY <3>5, <3>6 DEF LifeNext, Lifecycle!LifecycleNext
    <3>7. CASE s = "applied" /\ rows[q].status = "approved" /\ infra[q].done # {}
      BY <3>5, <3>7 DEF LifeNext, Lifecycle!LifecycleNext, Lifecycle!MarkApplied
    <3> QED BY <1>3, <3>1, <3>6, <3>7 DEF Bare
  <2> QED BY <2>1, <2>2
<1>4. ASSUME NEW o, SetStatus(c, o)
      PROVE  LifeNext
  <2>1. /\ call[c].pc = "set_status" /\ call[c].pc \in InHandler
        /\ UpdateStatus(q, Decision(c), o) /\ infra' = infra
    BY <1>0, <1>4 DEF SetStatus, CallAt, InHandler, Deciding
  <2>2. rows[q].status \in Bare /\ Decision(c) \in {"approved", "rejected"}
    BY <1>0, <2>1 DEF LifeInv, CallLife, Decision
  <2> QED BY <1>3, <2>1, <2>2
<1>5. ASSUME NEW o, MarkApplied(c, o)
      PROVE  LifeNext
  <2>1. /\ call[c].pc = "mark_applied" /\ call[c].pc \in InHandler
        /\ UpdateStatus(q, "applied", o) /\ infra' = infra
    BY <1>0, <1>5 DEF MarkApplied, CallAt, InHandler, Recording
  <2>2. rows[q].status \in {"approved", "absent"}
    BY <1>0, <2>1 DEF LifeInv, CallLife
  <2>3. infra[q].done # {}
    BY <1>0, <2>1, HandlerFacts DEF IInv, CallOK, Recording
  <2> QED BY <1>3, <2>1, <2>2, <2>3
<1>6. ASSUME NEW ok \in BOOLEAN, NEW o,
             \/ LogDecision(c, o) \/ LogApplied(c, o)
             \/ TerraformInit(c, ok) \/ ApplyFails(c)
      PROVE  LifeNext
  BY <1>2, <1>6 DEF LogDecision, LogApplied, CreateAudit, TerraformInit, ApplyFails
<1>7. ASSUME UNCHANGED rows
      PROVE  \A x \in Requests : SameLife(x)
  BY <1>1, <1>7 DEF SameLife, LifeStatus, Gone
<1>8. CASE ApplyBegins(c)
  <2>1. PICK h : infra' = [infra EXCEPT ![q].begun = @ \union {h}]
    BY <1>0, <1>8 DEF ApplyBegins
  <2>2. LifeStatus(q) \in {"approved", "orphaned"} /\ rows' = rows
    BY <1>0, <1>8, StandsApproved DEF ApplyBegins, CallAt, Terraforming
  <2>3. /\ infra'[q].begun # {} /\ infra'[q].done = infra[q].done
        /\ \A x \in Requests \ {q} : infra'[x] = infra[x]
    BY <1>1, <2>1 DEF Infra
  <2>4. Lifecycle!Begin(q)
    BY <1>7, <2>2, <2>3 DEF Lifecycle!Begin, SameLife
  <2> QED BY <2>4 DEF LifeNext, Lifecycle!LifecycleNext
<1>9. CASE ApplySucceeds(c)
  <2>1. PICK h : infra' = [infra EXCEPT ![q].done = @ \union {h}]
    BY <1>0, <1>9 DEF ApplySucceeds
  <2>2. LifeStatus(q) \in {"approved", "orphaned"} /\ rows' = rows /\ infra[q].begun # {}
    BY <1>0, <1>9, StandsApproved DEF ApplySucceeds, CallAt, Terraforming, LifeInv, CallLife
  <2>3. /\ infra'[q].done # {} /\ infra'[q].begun = infra[q].begun
        /\ \A x \in Requests \ {q} : infra'[x] = infra[x]
    BY <1>1, <2>1 DEF Infra
  <2>4. Lifecycle!Succeed({q})
    BY <1>7, <2>2, <2>3 DEF Lifecycle!Succeed, SameLife
  <2> QED BY <2>4 DEF LifeNext, Lifecycle!LifecycleNext
<1> QED BY <1>4, <1>5, <1>6, <1>8, <1>9 DEF Handle, GateDatabaseStep, TerraformStep, Outcomes

LEMMA CrashFollows ==
    ASSUME IInv, LifeInv, ServerCrash
    PROVE  LifeNext
<1>1. UNCHANGED <<rows, audit, erased>>
  BY DEF ServerCrash
<1>2. ASSUME NEW r \in Requests
      PROVE  SameLife(r)
  <2>1. loop[r] \in LoopState
    BY LifeFacts
  <2>2. loop'[r].pc = "idle" <=> loop[r].pc = "idle"
    BY <2>1 DEF ServerCrash, CrashLoops, LoopState, InFlight
  <2> QED BY <1>1, <2>2 DEF SameLife, LifeStatus, Gone
<1>3. PICK orphans \in SUBSET {c \in Calls : CallAt(c, "applying")} :
        infra' = [r \in Requests |-> [infra[r] EXCEPT !.done =
                    @ \union {call[c].hcl : c \in {d \in orphans : call[d].req = r}}]]
  BY DEF ServerCrash, CrashCalls
<1> DEFINE S == {call[c].req : c \in orphans}
<1>4. ASSUME NEW r \in Requests
      PROVE  /\ infra'[r].begun = infra[r].begun
             /\ infra'[r].done # {} <=> infra[r].done # {} \/ r \in S
  <2>1. infra[r] \in Infra
    BY LifeFacts
  <2>2. infra'[r].begun = infra[r].begun
    BY <1>3, <2>1 DEF Infra
  <2>3. infra'[r].done =
          infra[r].done \union {call[c].hcl : c \in {d \in orphans : call[d].req = r}}
    BY <1>3, <2>1 DEF Infra
  <2> QED BY <2>2, <2>3
<1>5. S \in SUBSET Requests
  BY LifeFacts
<1>6. ASSUME NEW r \in S
      PROVE  LifeStatus(r) \in {"approved", "orphaned"} /\ infra[r].begun # {}
  <2>1. PICK c \in Calls : r = call[c].req /\ call[c].pc = "applying"
    BY <1>3 DEF CallAt
  <2>2. LifeStatus(r) \in {"approved", "orphaned"}
    BY <1>5, <2>1, StandsApproved DEF Terraforming
  <2> QED BY <2>1, <2>2 DEF LifeInv, CallLife
<1> HIDE DEF S
<1>7. PICK T \in SUBSET Requests : T = S
  BY <1>5
<1>8. Lifecycle!Succeed(T)
  BY <1>2, <1>4, <1>6, <1>7 DEF Lifecycle!Succeed, SameLife
<1> QED BY <1>8 DEF LifeNext, Lifecycle!LifecycleNext

LEMMA ResetFollows ==
    ASSUME IInv, LifeInv, Reset
    PROVE  LifeNext
<1>1. PICK D \in SUBSET {r \in Requests : rows[r].status # "absent"} :
        /\ rows' = [r \in Requests |-> IF r \in D THEN NoRow ELSE rows[r]]
        /\ erased' = [r \in Requests |->
                        IF r \in D THEN erased[r] \union {a \in Actions : Logged(r, a)}
                                   ELSE erased[r]]
  BY DEF Reset
<1>2. UNCHANGED <<loop, infra>> /\ rows \in [Requests -> Row]
  BY LifeFacts DEF Reset
<1> DEFINE orphans == {r \in D : Logged(r, "approved")}
<1>3. ASSUME NEW r \in D
      PROVE  /\ LifeStatus(r) = rows[r].status
             /\ LifeStatus(r)' = IF r \in orphans THEN "orphaned" ELSE "deleted"
             /\ r \in orphans => LifeStatus(r) \in {"approved", "applied"}
  <2>1. /\ LoopLife(r) /\ rows[r].status # "absent"
        /\ loop[r].pc = "idle" => rows[r].status = "absent"
    BY DEF LifeInv, DeletedInv
  <2>2. LifeStatus(r) = rows[r].status /\ erased[r] = {}
    BY <2>1 DEF LifeStatus, Gone, LoopLife
  <2>3. Gone(r)'
    BY <1>1, <1>2, <2>1 DEF Gone, NoRow
  <2>4. "approved" \in erased'[r] <=> Logged(r, "approved")
    BY <1>1, <2>2 DEF Actions
  <2>5. r \in orphans => rows[r].status \in {"approved", "applied"}
    BY <2>1 DEF LoopLife, Attested
  <2> QED BY <2>2, <2>3, <2>4, <2>5 DEF LifeStatus
<1>4. ASSUME NEW r \in Requests, r \notin D
      PROVE  SameLife(r)
  BY <1>1, <1>2, <1>4 DEF SameLife, LifeStatus, Gone
<1>5. \A r \in Requests : SameInfra(r)
  BY <1>2 DEF SameInfra
<1>6. D \in SUBSET {r \in Requests : LifeStatus(r) \notin {"orphaned", "deleted"}}
  BY <1>2, <1>3 DEF Row, Statuses
<1>7. orphans \in SUBSET D
  OBVIOUS
<1> HIDE DEF orphans
<1>8. Lifecycle!Delete(D, orphans)
  BY <1>3, <1>4, <1>5, <1>6, <1>7 DEF Lifecycle!Delete, SameLife, SameInfra
<1>9. D \in SUBSET {r \in Requests :
         [q \in Requests |-> LifeStatus(q)][r] \notin {"orphaned", "deleted"}}
  BY <1>6
<1> QED BY <1>7, <1>8, <1>9 DEF LifeNext, Lifecycle!LifecycleNext

LEMMA StepFollows ==
    ASSUME IInv, LifeInv, [Next]_vars
    PROVE  LifeNext
<1>1. CASE UNCHANGED vars
  BY <1>1, NoMove DEF vars, SameLife, SameInfra, LifeStatus, Gone
<1>2. ASSUME NEW c \in Calls, Decide(c)
      PROVE  LifeNext
  BY <1>2, NoMove DEF Decide, Receive, SameLife, SameInfra, LifeStatus, Gone
<1> QED BY <1>1, <1>2, SubmitFollows, HandleFollows, CrashFollows, ResetFollows DEF Next

LEMMA InitFollows ==
    ASSUME Init
    PROVE  LifeInv /\ Lifecycle!LifecycleInit
<1>1. ASSUME NEW r \in Requests
      PROVE  /\ rows[r].status = "absent" /\ audit[r] = <<>> /\ loop[r].pc = "idle"
             /\ erased[r] = {} /\ infra[r].begun = {} /\ infra[r].done = {}
  BY DEF Init, StoreInit, LoopInit, GateInit, NoRow, Idle
<1>2. \A c \in Calls : call[c].pc \notin InHandler
  BY DEF Init, GateInit, InHandler, Deciding, Terraforming, Recording
<1>3. LifeInv
  BY <1>1, <1>2 DEF LifeInv, DeletedInv, LoopLife, CallLife, InFlight, InHandler, Deciding,
                    Terraforming, Recording
<1>4. Lifecycle!LifecycleInit
  BY <1>1 DEF Lifecycle!LifecycleInit, LifeStatus, Gone
<1> QED BY <1>3, <1>4

\* Where a change is decided after its reply and by one call at a time, the
\* server, its crashes and resets included, implements the life of a change: one
\* decision on a pending row, terraform only while it stands approved (or was
\* deleted then), applied only once that was done, and no way back.
THEOREM LifecycleFollowed == ASSUME AfterReply, Serial PROVE Spec => FollowsLifecycle
<1>1. Init => LifeInv /\ Lifecycle!LifecycleInit
  BY InitFollows
<1>2. IInv /\ LifeInv /\ [Next]_vars => LifeInv'
  BY LifeStep
<1>3. IInv /\ LifeInv /\ [Next]_vars
        => [Lifecycle!LifecycleNext]_(Lifecycle!lifecycleVars)
  BY StepFollows DEF LifeNext
<1> QED BY <1>1, <1>2, <1>3, ServerInvariant, PTL
        DEF Spec, FollowsLifecycle, Lifecycle!LifecycleSpec
=============================================================================
