------------------------ MODULE CorrectionLoopProofs ------------------------
(***************************************************************************)
(* Theorems about CorrectionLoop for every set of requests and texts, every *)
(* integer MaxRetries, with and without store faults.                       *)
(***************************************************************************)
EXTENDS CorrectionLoop, CheckovScoreProofs, SequenceTheorems

(* The inductive invariant: what LoopTypeOK leaves out.                      *)

\* Stations of the loop, by what Run has done.
Fresh == {"idle", "generate"}
Validating == {"plan", "planning", "check", "scanning"}
Passing == {"persist_passed", "log_complete", "passed"}
Asking == {"log_attempt", "complete"}
GivingUp == {"persist_failed", "mark_failed", "log_exhausted", "exhausted"}

\* The candidate is a text from the first answer on, and RunCheckov scans it.
TextOK(r) ==
    /\ loop[r].pc \in Fresh => loop[r].hcl = NoHCL
    /\ loop[r].pc \in Validating \union Passing \union Asking \union GivingUp
         => loop[r].hcl \in HCL
    /\ loop[r].pc = "scanning" => ws[r].main = loop[r].hcl

\* correctionAttempts against the corrections asked for.
CountOK(r) ==
    /\ loop[r].asked <= Budget - 1
    /\ loop[r].hcl = NoHCL => loop[r].asked = 0
    /\ loop[r].pc \in Fresh => loop[r].attempts = 0 /\ loop[r].asked = 0
    /\ loop[r].pc \in Validating \union Passing => loop[r].attempts = loop[r].asked
    /\ loop[r].pc \in Asking \union GivingUp => loop[r].attempts = loop[r].asked + 1
    /\ loop[r].pc \in Asking => loop[r].attempts < MaxRetries
    /\ loop[r].pc \in GivingUp => loop[r].attempts >= MaxRetries

\* As long as no text tried passes by itself, neither do the run directories
\* together.
SomeTextPasses(r) ==
    \E h \in loop[r].tried : FourFifths(Report[h].passed, Report[h].failed)

TreeOK(r) ==
    /\ loop[r].pc \in {"planning", "check", "scanning"}
         => loop[r].hcl \in loop[r].tried
    /\ loop[r].pc \in {"check", "scanning"} /\ loop[r].planned
         => loop[r].hcl \in Plannable
    /\ FourFifths(ws[r].passed, ws[r].failed) => SomeTextPasses(r)
    /\ loop[r].pc \in Passing => loop[r].hcl \in Plannable /\ SomeTextPasses(r)

GoroutineOK(r) == TextOK(r) /\ CountOK(r) /\ TreeOK(r)

LoopIInv == LoopTypeOK /\ \A r \in Requests : GoroutineOK(r)

-----------------------------------------------------------------------------
(* The statements of the stores keep rows and trails well formed.            *)

StoreTypeOK == rows \in [Requests -> Row] /\ audit \in [Requests -> Seq(Entry)]

LEMMA CreateRowType ==
    ASSUME DataAssumption, StoreTypeOK, NEW r \in Requests, NEW o, CreateRow(r, o)
    PROVE  StoreTypeOK'
<1>1. PendingRow \in Row
  BY DEF PendingRow, NoRow, Row, Statuses, HCLOrNone
<1> QED BY <1>1 DEF StoreTypeOK, CreateRow

LEMMA UpdateStatusType ==
    ASSUME StoreTypeOK, NEW r \in Requests, NEW s \in Statuses, NEW o,
           UpdateStatus(r, s, o)
    PROVE  StoreTypeOK'
BY DEF StoreTypeOK, UpdateStatus, Row

LEMMA UpdateHCLAndScoreType ==
    ASSUME StoreTypeOK, NEW r \in Requests, NEW h \in HCLOrNone, NEW s \in Nat,
           NEW n \in Nat, NEW o, UpdateHCLAndScore(r, h, s, n, o)
    PROVE  StoreTypeOK'
BY DEF StoreTypeOK, UpdateHCLAndScore, Row

LEMMA CreateAuditType ==
    ASSUME StoreTypeOK, NEW r \in Requests, NEW a \in Actions, NEW n \in Nat,
           NEW o, CreateAudit(r, a, n, o)
    PROVE  StoreTypeOK'
<1> DEFINE e == [action |-> a, attempt |-> n]
<1>1. e \in Entry
  BY DEF Entry
<1>2. audit[r] \in Seq(Entry)
  BY DEF StoreTypeOK
<1>3. Append(audit[r], e) \in Seq(Entry)
  BY <1>1, <1>2, AppendProperties
<1> HIDE DEF e
<1>4. audit' = IF Reaches(r, o) THEN [audit EXCEPT ![r] = Append(audit[r], e)] ELSE audit
  BY DEF CreateAudit, e
<1> QED BY <1>3, <1>4 DEF StoreTypeOK, CreateAudit

-----------------------------------------------------------------------------
(* The steps of one goroutine.                                               *)

GoroutineInv == /\ ws \in [Requests -> WorkspaceState]
                /\ loop \in [Requests -> LoopState]
                /\ \A r \in Requests : GoroutineOK(r)

LEMMA JoinIInv ==
    ASSUME StoreTypeOK', GoroutineInv'
    PROVE  LoopIInv'
BY DEF LoopIInv, LoopTypeOK, StoreTypeOK, GoroutineInv

LEMMA SplitIInv == LoopIInv <=> StoreTypeOK /\ GoroutineInv
BY DEF LoopIInv, LoopTypeOK, StoreTypeOK, GoroutineInv

\* A step of r's goroutine keeps the invariant when it keeps r's part of it.
LEMMA FrameInv ==
    ASSUME GoroutineInv, NEW r \in Requests,
           NEW l \in LoopState, NEW w \in WorkspaceState,
           loop' = [loop EXCEPT ![r] = l], ws' = [ws EXCEPT ![r] = w],
           GoroutineOK(r)'
    PROVE  GoroutineInv'
<1>1. /\ ws' \in [Requests -> WorkspaceState]
      /\ loop' \in [Requests -> LoopState]
  BY DEF GoroutineInv
<1>2. ASSUME NEW q \in Requests, q # r
      PROVE  GoroutineOK(q)'
  <2>1. ws'[q] = ws[q] /\ loop'[q] = loop[q] /\ GoroutineOK(q)
    BY <1>2 DEF GoroutineInv
  <2> QED BY <2>1 DEF GoroutineOK, TextOK, CountOK, TreeOK, SomeTextPasses
<1> QED BY <1>1, <1>2 DEF GoroutineInv

\* The same when the step leaves the workspace alone.
LEMMA FrameLoop ==
    ASSUME GoroutineInv, NEW r \in Requests, NEW l \in LoopState,
           loop' = [loop EXCEPT ![r] = l], ws' = ws, GoroutineOK(r)'
    PROVE  GoroutineInv'
<1>1. ws[r] \in WorkspaceState /\ ws = [ws EXCEPT ![r] = ws[r]]
  BY DEF GoroutineInv
<1> QED BY <1>1, FrameInv

LEMMA LocalTypes ==
    ASSUME GoroutineInv, NEW r \in Requests
    PROVE  /\ loop \in [Requests -> LoopState] /\ ws \in [Requests -> WorkspaceState]
           /\ loop[r] \in LoopState /\ ws[r] \in WorkspaceState
           /\ TextOK(r) /\ CountOK(r) /\ TreeOK(r)
BY DEF GoroutineInv, GoroutineOK

LEMMA StartPlanInv ==
    ASSUME DataAssumption, GoroutineInv, NEW r \in Requests, StartPlan(r)
    PROVE  GoroutineInv'
<1> DEFINE h == loop[r].hcl
           l == [loop[r] EXCEPT !.pc = "planning", !.tried = @ \union {h}]
           w == [ws[r] EXCEPT !.exists = TRUE, !.passed = @ + Report[h].passed,
                              !.failed = @ + Report[h].failed]
<1>0. /\ loop \in [Requests -> LoopState] /\ ws \in [Requests -> WorkspaceState]
      /\ loop[r] \in LoopState /\ ws[r] \in WorkspaceState
      /\ TextOK(r) /\ CountOK(r) /\ TreeOK(r)
  BY LocalTypes
<1>1. h \in HCL
  BY <1>0 DEF StartPlan, At, TextOK, Validating
<1>2. Report[h] \in [passed : Nat, failed : Nat]
  BY <1>1 DEF DataAssumption
<1>3. l \in LoopState
  BY <1>0, <1>1 DEF LoopState, InFlight
<1>w. w \in WorkspaceState
  <2>1. ws[r].passed + Report[h].passed \in Nat /\ ws[r].failed + Report[h].failed \in Nat
    BY <1>0, <1>2 DEF WorkspaceState
  <2> QED BY <1>0, <2>1 DEF WorkspaceState
<1>4. loop' = [loop EXCEPT ![r] = l] /\ ws' = [ws EXCEPT ![r] = w]
  BY DEF StartPlan, WriteRunDir
<1>5. loop'[r] = l /\ ws'[r] = w
  BY <1>0, <1>4
<1>6. TextOK(r)' /\ CountOK(r)'
  BY <1>0, <1>1, <1>5 DEF TextOK, CountOK, StartPlan, LoopState, At, Validating, Passing, Asking, GivingUp, Fresh
<1>7. FourFifths(w.passed, w.failed) =>
        FourFifths(ws[r].passed, ws[r].failed) \/ FourFifths(Report[h].passed, Report[h].failed)
  BY <1>0, <1>2 DEF FourFifths, WorkspaceState
<1>8. TreeOK(r)'
  BY <1>0, <1>5, <1>7 DEF TreeOK, SomeTextPasses, LoopState, Passing
<1> QED BY <1>3, <1>w, <1>4, <1>6, <1>8, FrameInv DEF GoroutineOK

LEMMA PlanRefusedInv ==
    ASSUME GoroutineInv, NEW r \in Requests, PlanRefused(r)
    PROVE  GoroutineInv'
<1> DEFINE l == [loop[r] EXCEPT !.pc = "check", !.planned = FALSE,
                               !.tried = @ \union {loop[r].hcl}]
<1>0. /\ loop \in [Requests -> LoopState] /\ ws \in [Requests -> WorkspaceState]
      /\ loop[r] \in LoopState /\ ws[r] \in WorkspaceState
      /\ TextOK(r) /\ CountOK(r) /\ TreeOK(r)
  BY LocalTypes
<1>1. loop[r].hcl \in HCL
  BY <1>0 DEF TextOK, PlanRefused, At, Validating
<1>3. l \in LoopState
  BY <1>0, <1>1 DEF LoopState, InFlight, Ended
<1>4. loop' = [loop EXCEPT ![r] = l] /\ ws' = ws
  BY DEF PlanRefused
<1>5. loop'[r] = l /\ ws'[r] = ws[r]
  BY <1>0, <1>4
<1>6. TextOK(r)'
  BY <1>0, <1>5, <1>1 DEF TextOK, PlanRefused, LoopState, At, Validating, Passing, Asking, GivingUp, Fresh
<1>7. CountOK(r)'
  BY <1>0, <1>5, <1>1 DEF CountOK, PlanRefused, LoopState, At, Validating, Passing, Asking, GivingUp, Fresh
<1>8. TreeOK(r)'
  BY <1>0, <1>5 DEF TreeOK, SomeTextPasses, PlanRefused, LoopState, At, Validating, Passing, Asking, GivingUp, Fresh
<1> QED BY <1>3, <1>4, <1>6, <1>7, <1>8, FrameLoop DEF GoroutineOK

LEMMA PlanReturnsInv ==
    ASSUME GoroutineInv, NEW r \in Requests, NEW ok \in BOOLEAN,
           PlanReturns(r, ok)
    PROVE  GoroutineInv'
<1> DEFINE l == [loop[r] EXCEPT !.pc = "check", !.planned = ok]
<1>0. /\ loop \in [Requests -> LoopState] /\ ws \in [Requests -> WorkspaceState]
      /\ loop[r] \in LoopState /\ ws[r] \in WorkspaceState
      /\ TextOK(r) /\ CountOK(r) /\ TreeOK(r)
  BY LocalTypes
<1>3. l \in LoopState
  BY <1>0 DEF LoopState, InFlight, Ended
<1>4. loop' = [loop EXCEPT ![r] = l] /\ ws' = ws
  BY DEF PlanReturns
<1>5. loop'[r] = l /\ ws'[r] = ws[r]
  BY <1>0, <1>4
<1>6. TextOK(r)'
  BY <1>0, <1>5 DEF TextOK, PlanReturns, LoopState, At, Validating, Passing, Asking, GivingUp, Fresh
<1>7. CountOK(r)'
  BY <1>0, <1>5 DEF CountOK, PlanReturns, LoopState, At, Validating, Passing, Asking, GivingUp, Fresh
<1>8. TreeOK(r)'
  BY <1>0, <1>5 DEF TreeOK, SomeTextPasses, PlanReturns, LoopState, At, Validating, Passing, Asking, GivingUp, Fresh
<1> QED BY <1>3, <1>4, <1>6, <1>7, <1>8, FrameLoop DEF GoroutineOK

LEMMA PlanDeadlineInv ==
    ASSUME GoroutineInv, NEW r \in Requests, PlanDeadline(r)
    PROVE  GoroutineInv'
<1> DEFINE l == [loop[r] EXCEPT !.pc = "check", !.planned = FALSE]
<1>0. /\ loop \in [Requests -> LoopState] /\ ws \in [Requests -> WorkspaceState]
      /\ loop[r] \in LoopState /\ ws[r] \in WorkspaceState
      /\ TextOK(r) /\ CountOK(r) /\ TreeOK(r)
  BY LocalTypes
<1>3. l \in LoopState
  BY <1>0 DEF LoopState, InFlight, Ended
<1>4. loop' = [loop EXCEPT ![r] = l] /\ ws' = ws
  BY DEF PlanDeadline
<1>5. loop'[r] = l /\ ws'[r] = ws[r]
  BY <1>0, <1>4
<1>6. TextOK(r)'
  BY <1>0, <1>5 DEF TextOK, PlanDeadline, LoopState, At, Validating, Passing, Asking, GivingUp, Fresh
<1>7. CountOK(r)'
  BY <1>0, <1>5 DEF CountOK, PlanDeadline, LoopState, At, Validating, Passing, Asking, GivingUp, Fresh
<1>8. TreeOK(r)'
  BY <1>0, <1>5 DEF TreeOK, SomeTextPasses, PlanDeadline, LoopState, At, Validating, Passing, Asking, GivingUp, Fresh
<1> QED BY <1>3, <1>4, <1>6, <1>7, <1>8, FrameLoop DEF GoroutineOK

LEMMA GenerateInv ==
    ASSUME DataAssumption, GoroutineInv, NEW r \in Requests, NEW h \in HCL, NEW o,
           Generate(r, h, o)
    PROVE  GoroutineInv'
<1> DEFINE b == ~Acked(r, o)
           l == [loop[r] EXCEPT !.pc = "plan", !.hcl = h, !.lost = b]
<1>0. /\ loop \in [Requests -> LoopState] /\ ws \in [Requests -> WorkspaceState]
      /\ loop[r] \in LoopState /\ ws[r] \in WorkspaceState
      /\ TextOK(r) /\ CountOK(r) /\ TreeOK(r)
  BY LocalTypes
<1>4. loop' = [loop EXCEPT ![r] = l] /\ ws' = ws
  BY DEF Generate
<1>b. b \in BOOLEAN
  OBVIOUS
<1> HIDE DEF b
<1>3. l \in LoopState
  BY <1>0, <1>b DEF LoopState, InFlight, Ended, HCLOrNone
<1>5. loop'[r] = l /\ ws'[r] = ws[r]
  BY <1>0, <1>4
<1>6. TextOK(r)'
  BY <1>0, <1>5 DEF TextOK, Generate, LoopState, At, Validating, Passing, Asking, GivingUp, Fresh
<1>7. CountOK(r)'
  BY <1>0, <1>5 DEF CountOK, Generate, LoopState, At, Validating, Passing, Asking, GivingUp, Fresh
<1>8. TreeOK(r)'
  BY <1>0, <1>5 DEF TreeOK, SomeTextPasses, Generate, LoopState, At, Validating, Passing, Asking, GivingUp, Fresh
<1> QED BY <1>3, <1>4, <1>6, <1>7, <1>8, FrameLoop DEF GoroutineOK

LEMMA CompleteInv ==
    ASSUME DataAssumption, RetriesAssumption, GoroutineInv, NEW r \in Requests,
           NEW h \in HCL, Complete(r, h)
    PROVE  GoroutineInv'
<1> DEFINE l == [loop[r] EXCEPT !.pc = "plan", !.hcl = h, !.asked = @ + 1]
<1>0. /\ loop \in [Requests -> LoopState] /\ ws \in [Requests -> WorkspaceState]
      /\ loop[r] \in LoopState /\ ws[r] \in WorkspaceState
      /\ TextOK(r) /\ CountOK(r) /\ TreeOK(r)
  BY LocalTypes
<1>1. loop[r].asked + 1 \in Nat
  BY <1>0 DEF LoopState
<1>3. l \in LoopState
  BY <1>0, <1>1 DEF LoopState, InFlight, Ended, HCLOrNone
<1>4. loop' = [loop EXCEPT ![r] = l] /\ ws' = ws
  BY DEF Complete
<1>5. loop'[r] = l /\ ws'[r] = ws[r]
  BY <1>0, <1>4
<1>6. TextOK(r)'
  BY <1>0, <1>5 DEF TextOK, Complete, LoopState, At, Validating, Passing, Asking, GivingUp, Fresh
<1>7. CountOK(r)'
  BY <1>0, <1>5 DEF CountOK, Budget, RetriesAssumption, Complete, LoopState, At, Validating, Passing, Asking, GivingUp, Fresh
<1>8. TreeOK(r)'
  BY <1>0, <1>5 DEF TreeOK, SomeTextPasses, Complete, LoopState, At, Validating, Passing, Asking, GivingUp, Fresh
<1> QED BY <1>3, <1>4, <1>6, <1>7, <1>8, FrameLoop DEF GoroutineOK

LEMMA StartScanInv ==
    ASSUME GoroutineInv, NEW r \in Requests, StartScan(r)
    PROVE  GoroutineInv'
<1> DEFINE h == loop[r].hcl
           l == [loop[r] EXCEPT !.pc = "scanning"]
           w == [ws[r] EXCEPT !.exists = TRUE, !.main = h]
<1>0. /\ loop \in [Requests -> LoopState] /\ ws \in [Requests -> WorkspaceState]
      /\ loop[r] \in LoopState /\ ws[r] \in WorkspaceState
      /\ TextOK(r) /\ CountOK(r) /\ TreeOK(r)
  BY LocalTypes
<1>1. h \in HCL
  BY <1>0 DEF StartScan, At, TextOK, Validating
<1>2. l \in LoopState
  BY <1>0 DEF LoopState, InFlight
<1>3. w \in WorkspaceState
  BY <1>0, <1>1 DEF WorkspaceState, HCLOrNone
<1>4. loop' = [loop EXCEPT ![r] = l] /\ ws' = [ws EXCEPT ![r] = w]
  BY DEF StartScan, WriteMain, Go
<1>5. loop'[r] = l /\ ws'[r] = w
  BY <1>0, <1>4
<1>6. TextOK(r)'
  BY <1>0, <1>1, <1>5 DEF TextOK, LoopState, WorkspaceState, Validating, Passing,
                          Asking, GivingUp, Fresh
<1>7. CountOK(r)'
  BY <1>0, <1>5 DEF CountOK, StartScan, LoopState, At, Validating, Passing,
                    Asking, GivingUp, Fresh
<1>8. TreeOK(r)'
  BY <1>0, <1>5 DEF TreeOK, SomeTextPasses, StartScan, LoopState, WorkspaceState,
                    At, Passing
<1> QED BY <1>2, <1>3, <1>4, <1>6, <1>7, <1>8, FrameInv DEF GoroutineOK

\* The verdict: whatever score the scan yields, as long as a passing one comes
\* from a text that passes.
LEMMA JudgeInv ==
    ASSUME RetriesAssumption, GoroutineInv, NEW r \in Requests, NEW score \in Nat,
           loop[r].pc \in {"check", "scanning"}, Judge(r, score), ws' = ws,
           score >= Threshold => SomeTextPasses(r)
    PROVE  GoroutineInv'
<1> DEFINE n == loop[r].attempts + 1
           passed == Validated(r, score)
           pc == IF passed THEN "persist_passed"
                 ELSE IF LastAttempt(n) THEN "persist_failed" ELSE "log_attempt"
           m == IF passed THEN loop[r].attempts ELSE n
           l == [loop[r] EXCEPT !.pc = pc, !.score = score, !.attempts = m]
<1>0. /\ loop \in [Requests -> LoopState] /\ ws \in [Requests -> WorkspaceState]
      /\ loop[r] \in LoopState /\ ws[r] \in WorkspaceState
      /\ TextOK(r) /\ CountOK(r) /\ TreeOK(r)
  BY LocalTypes
<1>1. m \in Nat
  BY <1>0 DEF LoopState
<1>2. pc \in {"persist_passed", "persist_failed", "log_attempt"}
  OBVIOUS
<1>3. loop' = [loop EXCEPT ![r] = l]
  BY DEF Judge
<1>4. passed => loop[r].planned /\ score >= Threshold
  BY DEF Validated
<1>5. ~passed => (LastAttempt(n) <=> loop[r].attempts + 1 >= MaxRetries)
  BY DEF LastAttempt
<1>6. l \in LoopState
  <2> HIDE DEF pc, m
  <2> QED BY <1>0, <1>1, <1>2 DEF LoopState, InFlight
<1>7. loop'[r] = l /\ ws'[r] = ws[r]
  BY <1>0, <1>3
<1>8. /\ loop'[r].pc = pc /\ loop'[r].attempts = m /\ loop'[r].hcl = loop[r].hcl
      /\ loop'[r].asked = loop[r].asked /\ loop'[r].tried = loop[r].tried
  BY <1>0, <1>7 DEF LoopState
<1>9. TextOK(r)'
  <2> HIDE DEF pc
  <2> QED BY <1>0, <1>2, <1>7, <1>8 DEF TextOK, Validating, Passing, Asking, GivingUp, Fresh
<1>10. CountOK(r)'
  <2>1. loop[r].attempts = loop[r].asked /\ loop[r].asked \in Nat
    BY <1>0 DEF CountOK, Validating, LoopState
  <2> QED BY <1>0, <1>5, <1>8, <2>1 DEF CountOK, RetriesAssumption, Validating,
                                         Passing, Asking, GivingUp, Fresh
<1>11. TreeOK(r)'
  <2>1. SomeTextPasses(r)' <=> SomeTextPasses(r)
    BY <1>8 DEF SomeTextPasses
  <2> HIDE DEF passed
  <2> QED BY <1>0, <1>4, <1>7, <1>8, <2>1 DEF TreeOK, Passing
<1> QED BY <1>3, <1>6, <1>9, <1>10, <1>11, FrameLoop DEF GoroutineOK

LEMMA ScanReturnsInv ==
    ASSUME DataAssumption, RetriesAssumption, GoroutineInv, NEW r \in Requests,
           ScanReturns(r)
    PROVE  GoroutineInv'
<1> DEFINE h == loop[r].hcl
<1>0. /\ ws[r] \in WorkspaceState
      /\ TextOK(r) /\ CountOK(r) /\ TreeOK(r)
  BY LocalTypes
<1>1. loop[r].pc = "scanning" /\ h \in HCL /\ ws[r].main = h /\ h \in loop[r].tried
  BY <1>0 DEF ScanReturns, At, TextOK, TreeOK, Validating
<1>2. Report[h].passed \in Nat /\ Report[h].failed \in Nat
  BY <1>1 DEF DataAssumption
<1>3. ws[r].passed \in Nat /\ ws[r].failed \in Nat
  BY <1>0 DEF WorkspaceState
<1>4. TreePassed(r) \in Nat /\ TreeFailed(r) \in Nat
  BY <1>1, <1>2, <1>3 DEF TreePassed, TreeFailed
<1>5. TreeScore(r) \in Nat
  <2>1. Score(TreePassed(r), TreeFailed(r)) \in 0..100
    BY <1>4, ScoreType
  <2> QED BY <2>1 DEF TreeScore
<1>6. TreeScore(r) >= Threshold => SomeTextPasses(r)
  <2>1. SUFFICES ASSUME TreeScore(r) >= Threshold
                 PROVE  SomeTextPasses(r)
    OBVIOUS
  <2>2. Passes(ws[r].passed + Report[h].passed, ws[r].failed + Report[h].failed)
    BY <2>1, <1>1 DEF TreeScore, TreePassed, TreeFailed, Passes
  <2>3. \/ FourFifths(ws[r].passed, ws[r].failed)
        \/ FourFifths(Report[h].passed, Report[h].failed)
    BY <2>2, <1>2, <1>3, PoolingFailures, VerdictIsExact
  <2> QED BY <2>3, <1>0, <1>1 DEF TreeOK, SomeTextPasses
<1> QED BY <1>1, <1>5, <1>6, JudgeInv DEF ScanReturns

LEMMA ScanFailsInv ==
    ASSUME RetriesAssumption, GoroutineInv, NEW r \in Requests, ScanFails(r)
    PROVE  GoroutineInv'
<1>1. loop[r].pc \in {"check", "scanning"} /\ Judge(r, 0) /\ ws' = ws
  BY DEF ScanFails, At
<1>2. ~(0 >= Threshold)
  BY DEF Threshold
<1> QED BY <1>1, <1>2, JudgeInv

\* Steps that only move on, within what Run has done or to an end.
MovesFrom(r, to) ==
    \/ to \in {"error", "crashed"}
    \/ loop[r].pc \in Fresh /\ to = "generate"
    \/ loop[r].pc \in Passing /\ to \in Passing
    \/ loop[r].pc \in Asking /\ to \in Asking
    \/ loop[r].pc \in GivingUp /\ to \in GivingUp

LEMMA MoveInv ==
    ASSUME GoroutineInv, NEW r \in Requests, NEW l \in LoopState,
           loop' = [loop EXCEPT ![r] = l], ws' = ws, MovesFrom(r, l.pc),
           l.hcl = loop[r].hcl, l.attempts = loop[r].attempts,
           l.asked = loop[r].asked, l.tried = loop[r].tried
    PROVE  GoroutineInv'
<1>0. /\ loop \in [Requests -> LoopState] /\ ws \in [Requests -> WorkspaceState]
      /\ TextOK(r) /\ CountOK(r) /\ TreeOK(r)
  BY LocalTypes
<1>1. loop'[r] = l /\ ws'[r] = ws[r]
  BY <1>0
<1>2. TextOK(r)'
  BY <1>0, <1>1 DEF MovesFrom, TextOK, Validating, Passing, Asking, GivingUp, Fresh
<1>3. CountOK(r)'
  BY <1>0, <1>1 DEF MovesFrom, CountOK, Validating, Passing, Asking, GivingUp, Fresh
<1>4. TreeOK(r)'
  BY <1>0, <1>1 DEF MovesFrom, TreeOK, SomeTextPasses, Validating, Passing, Asking,
                    GivingUp, Fresh
<1> QED BY <1>2, <1>3, <1>4, FrameLoop DEF GoroutineOK

LEMMA GoInv ==
    ASSUME GoroutineInv, NEW r \in Requests, NEW to, Go(r, to), ws' = ws,
           MovesFrom(r, to)
    PROVE  GoroutineInv'
<1> DEFINE l == [loop[r] EXCEPT !.pc = to]
<1>1. loop[r] \in LoopState
  BY LocalTypes
<1>2. to \in InFlight \union Ended
  BY DEF MovesFrom, Fresh, Passing, Asking, GivingUp, InFlight, Ended, Accepted
<1>3. /\ l \in LoopState /\ l.pc = to /\ l.hcl = loop[r].hcl
      /\ l.attempts = loop[r].attempts /\ l.asked = loop[r].asked
      /\ l.tried = loop[r].tried
  BY <1>1, <1>2 DEF LoopState
<1>4. loop' = [loop EXCEPT ![r] = l]
  BY DEF Go
<1> HIDE DEF l
<1> QED BY <1>3, <1>4, MoveInv

LEMMA GoAnywayInv ==
    ASSUME GoroutineInv, NEW r \in Requests, NEW to, NEW o, GoAnyway(r, to, o),
           ws' = ws, MovesFrom(r, to)
    PROVE  GoroutineInv'
<1> DEFINE b == loop[r].lost \/ ~Acked(r, o)
           l == [loop[r] EXCEPT !.pc = to, !.lost = b]
<1>1. loop[r] \in LoopState /\ b \in BOOLEAN
  BY LocalTypes
<1>2. to \in InFlight \union Ended
  BY DEF MovesFrom, Fresh, Passing, Asking, GivingUp, InFlight, Ended, Accepted
<1>3. loop' = [loop EXCEPT ![r] = l]
  BY DEF GoAnyway
<1> HIDE DEF b
<1>4. /\ l \in LoopState /\ l.pc = to /\ l.hcl = loop[r].hcl
      /\ l.attempts = loop[r].attempts /\ l.asked = loop[r].asked
      /\ l.tried = loop[r].tried
  BY <1>1, <1>2 DEF LoopState
<1> HIDE DEF l
<1> QED BY <1>3, <1>4, MoveInv

\* The end of the process: every goroutine in flight stops where it is.
LEMMA CrashInv ==
    ASSUME GoroutineInv, CrashLoops, CrashDisk
    PROVE  GoroutineInv'
<1>1. loop \in [Requests -> LoopState] /\ ws \in [Requests -> WorkspaceState]
  BY DEF GoroutineInv
<1>2. ws' \in [Requests -> WorkspaceState]
  <2>1. NoWorkspace \in WorkspaceState
    BY DEF NoWorkspace, WorkspaceState, HCLOrNone
  <2> QED BY <1>1, <2>1 DEF CrashDisk
<1>3. loop' \in [Requests -> LoopState]
  <2>1. ASSUME NEW r \in Requests
        PROVE  [loop[r] EXCEPT !.pc = "crashed"] \in LoopState
    BY <1>1 DEF LoopState, Ended
  <2> QED BY <1>1, <2>1 DEF CrashLoops
<1>4. ASSUME NEW r \in Requests
      PROVE  GoroutineOK(r)'
  <2>0. /\ loop[r] \in LoopState /\ ws[r] \in WorkspaceState
        /\ TextOK(r) /\ CountOK(r) /\ TreeOK(r)
    BY LocalTypes
  <2>1. ws'[r] = ws[r] \/ ws'[r] = NoWorkspace
    BY DEF CrashDisk
  <2>2. \/ loop[r].pc \notin InFlight /\ loop'[r] = loop[r]
        \/ loop'[r] = [loop[r] EXCEPT !.pc = "crashed"]
    BY DEF CrashLoops
  <2>3. TextOK(r)'
    BY <2>0, <2>2 DEF TextOK, LoopState, InFlight, Validating, Passing, Asking,
                      GivingUp, Fresh
  <2>4. CountOK(r)'
    BY <2>0, <2>2 DEF CountOK, LoopState, Validating, Passing, Asking, GivingUp, Fresh
  <2>5. SomeTextPasses(r)' <=> SomeTextPasses(r)
    BY <2>0, <2>2 DEF SomeTextPasses, LoopState
  <2>6. FourFifths(ws'[r].passed, ws'[r].failed)
          => FourFifths(ws[r].passed, ws[r].failed)
    BY <2>1 DEF NoWorkspace, FourFifths
  <2>7. TreeOK(r)'
    BY <2>0, <2>2, <2>5, <2>6 DEF TreeOK, LoopState, InFlight, Passing
  <2> QED BY <2>3, <2>4, <2>7 DEF GoroutineOK
<1> QED BY <1>2, <1>3, <1>4 DEF GoroutineInv

-----------------------------------------------------------------------------
(* The whole component.                                                      *)

LEMMA LoopInitInv ==
    ASSUME RetriesAssumption, LoopSpecInit
    PROVE  LoopIInv
<1>1. StoreTypeOK
  BY DEF LoopSpecInit, StoreInit, StoreTypeOK, NoRow, Row, HCLOrNone
<1>2. /\ loop \in [Requests -> LoopState] /\ ws \in [Requests -> WorkspaceState]
      /\ \A r \in Requests : loop[r] = Idle /\ ws[r] = NoWorkspace
  BY DEF LoopSpecInit, LoopInit, WorkspaceInit, Idle, NoWorkspace, LoopState,
         WorkspaceState, HCLOrNone
<1>3. 0 <= Budget - 1
  BY DEF Budget, RetriesAssumption
<1>4. ASSUME NEW r \in Requests
      PROVE  GoroutineOK(r)
  BY <1>2, <1>3 DEF GoroutineOK, TextOK, CountOK, TreeOK, FourFifths, Idle,
       NoWorkspace, Validating, Passing, Asking, GivingUp, Fresh
<1> QED BY <1>1, <1>2, <1>4, SplitIInv DEF GoroutineInv

\* A step of a goroutine keeps the invariant: also among other handlers, which
\* touch neither loop nor ws.
LEMMA LoopStepInv ==
    ASSUME DataAssumption, RetriesAssumption, LoopIInv, NEW r \in Requests,
           LoopStep(r)
    PROVE  LoopIInv'
<1>0. StoreTypeOK /\ GoroutineInv
  BY SplitIInv
<1>1. loop[r] \in LoopState /\ TextOK(r)
  BY <1>0, LocalTypes
<1>2. ASSUME NEW o \in Outcomes, Start(r, o)
      PROVE  LoopIInv'
  <2>1. StoreTypeOK'
    BY <1>0, <1>1, <1>2, CreateRowType DEF Start
  <2>2. GoroutineInv'
    BY <1>0, <1>2, GoInv DEF Start, At, MovesFrom, Fresh, Passing,
                                 Asking, GivingUp
  <2> QED BY <2>1, <2>2, JoinIInv
<1>3. ASSUME NEW h \in HCL, NEW o \in Outcomes, Generate(r, h, o)
      PROVE  LoopIInv'
  <2>1. StoreTypeOK'
    BY <1>0, <1>3, CreateAuditType DEF Generate, Actions
  <2>2. GoroutineInv'
    BY <1>0, <1>3, GenerateInv
  <2> QED BY <2>1, <2>2, JoinIInv
<1>4. ASSUME GenerateFails(r)
      PROVE  LoopIInv'
  <2>1. StoreTypeOK'
    BY <1>0, <1>4 DEF GenerateFails, StoreTypeOK
  <2>2. GoroutineInv'
    BY <1>0, <1>4, GoInv DEF GenerateFails, MovesFrom
  <2> QED BY <2>1, <2>2, JoinIInv
<1>5. ASSUME StartPlan(r)
      PROVE  LoopIInv'
  <2>1. StoreTypeOK'
    BY <1>0, <1>5 DEF StartPlan, StoreTypeOK
  <2>2. GoroutineInv'
    BY <1>0, <1>5, StartPlanInv
  <2> QED BY <2>1, <2>2, JoinIInv
<1>6. ASSUME PlanRefused(r)
      PROVE  LoopIInv'
  <2>1. StoreTypeOK'
    BY <1>0, <1>6 DEF PlanRefused, StoreTypeOK
  <2>2. GoroutineInv'
    BY <1>0, <1>6, PlanRefusedInv
  <2> QED BY <2>1, <2>2, JoinIInv
<1>7. ASSUME NEW ok \in BOOLEAN, PlanReturns(r, ok)
      PROVE  LoopIInv'
  <2>1. StoreTypeOK'
    BY <1>0, <1>7 DEF PlanReturns, StoreTypeOK
  <2>2. GoroutineInv'
    BY <1>0, <1>7, PlanReturnsInv
  <2> QED BY <2>1, <2>2, JoinIInv
<1>8. ASSUME PlanDeadline(r)
      PROVE  LoopIInv'
  <2>1. StoreTypeOK'
    BY <1>0, <1>8 DEF PlanDeadline, StoreTypeOK
  <2>2. GoroutineInv'
    BY <1>0, <1>8, PlanDeadlineInv
  <2> QED BY <2>1, <2>2, JoinIInv
<1>9. ASSUME StartScan(r)
      PROVE  LoopIInv'
  <2>1. StoreTypeOK'
    BY <1>0, <1>9 DEF StartScan, StoreTypeOK
  <2>2. GoroutineInv'
    BY <1>0, <1>9, StartScanInv
  <2> QED BY <2>1, <2>2, JoinIInv
<1>10. ASSUME ScanReturns(r)
      PROVE  LoopIInv'
  <2>1. StoreTypeOK'
    BY <1>0, <1>10 DEF ScanReturns, StoreTypeOK
  <2>2. GoroutineInv'
    BY <1>0, <1>10, ScanReturnsInv
  <2> QED BY <2>1, <2>2, JoinIInv
<1>11. ASSUME ScanFails(r)
      PROVE  LoopIInv'
  <2>1. StoreTypeOK'
    BY <1>0, <1>11 DEF ScanFails, StoreTypeOK
  <2>2. GoroutineInv'
    BY <1>0, <1>11, ScanFailsInv
  <2> QED BY <2>1, <2>2, JoinIInv
<1>12. ASSUME NEW o \in Outcomes, PersistPassed(r, o)
      PROVE  LoopIInv'
  <2>0. loop[r].hcl \in HCLOrNone /\ loop[r].score \in Nat /\ loop[r].attempts \in Nat
    BY <1>1 DEF LoopState
  <2>1. StoreTypeOK'
    BY <1>0, <2>0, <1>12, UpdateHCLAndScoreType DEF PersistPassed
  <2>2. GoroutineInv'
    BY <1>0, <1>12, GoAnywayInv DEF PersistPassed, At, MovesFrom, Fresh, Passing,
                                 Asking, GivingUp
  <2> QED BY <2>1, <2>2, JoinIInv
<1>13. ASSUME NEW o \in Outcomes, LogComplete(r, o)
      PROVE  LoopIInv'
  <2>0. loop[r].hcl \in HCLOrNone /\ loop[r].score \in Nat /\ loop[r].attempts \in Nat
    BY <1>1 DEF LoopState
  <2>1. StoreTypeOK'
    BY <1>0, <2>0, <1>13, CreateAuditType DEF LogComplete, Actions
  <2>2. GoroutineInv'
    BY <1>0, <1>13, GoAnywayInv DEF LogComplete, At, MovesFrom, Fresh, Passing,
                                 Asking, GivingUp
  <2> QED BY <2>1, <2>2, JoinIInv
<1>14. ASSUME NEW o \in Outcomes, PersistFailed(r, o)
      PROVE  LoopIInv'
  <2>0. loop[r].hcl \in HCLOrNone /\ loop[r].score \in Nat /\ loop[r].attempts \in Nat
    BY <1>1 DEF LoopState
  <2>1. StoreTypeOK'
    BY <1>0, <2>0, <1>14, UpdateHCLAndScoreType DEF PersistFailed
  <2>2. GoroutineInv'
    BY <1>0, <1>14, GoAnywayInv DEF PersistFailed, At, MovesFrom, Fresh, Passing,
                                 Asking, GivingUp
  <2> QED BY <2>1, <2>2, JoinIInv
<1>15. ASSUME NEW o \in Outcomes, MarkFailed(r, o)
      PROVE  LoopIInv'
  <2>1. StoreTypeOK'
    BY <1>0, <1>1, <1>15, UpdateStatusType DEF MarkFailed, Statuses
  <2>2. GoroutineInv'
    BY <1>0, <1>15, GoAnywayInv DEF MarkFailed, At, MovesFrom, Fresh, Passing,
                                 Asking, GivingUp
  <2> QED BY <2>1, <2>2, JoinIInv
<1>16. ASSUME NEW o \in Outcomes, LogExhausted(r, o)
      PROVE  LoopIInv'
  <2>0. loop[r].hcl \in HCLOrNone /\ loop[r].score \in Nat /\ loop[r].attempts \in Nat
    BY <1>1 DEF LoopState
  <2>1. StoreTypeOK'
    BY <1>0, <2>0, <1>16, CreateAuditType DEF LogExhausted, Actions
  <2>2. GoroutineInv'
    BY <1>0, <1>16, GoAnywayInv DEF LogExhausted, At, MovesFrom, Fresh, Passing,
                                 Asking, GivingUp
  <2> QED BY <2>1, <2>2, JoinIInv
<1>17. ASSUME NEW o \in Outcomes, LogAttempt(r, o)
      PROVE  LoopIInv'
  <2>0. loop[r].hcl \in HCLOrNone /\ loop[r].score \in Nat /\ loop[r].attempts \in Nat
    BY <1>1 DEF LoopState
  <2>1. StoreTypeOK'
    BY <1>0, <2>0, <1>17, CreateAuditType DEF LogAttempt, Actions
  <2>2. GoroutineInv'
    BY <1>0, <1>17, GoAnywayInv DEF LogAttempt, At, MovesFrom, Fresh, Passing,
                                 Asking, GivingUp
  <2> QED BY <2>1, <2>2, JoinIInv
<1>18. ASSUME NEW h \in HCL, Complete(r, h)
      PROVE  LoopIInv'
  <2>1. StoreTypeOK'
    BY <1>0, <1>18 DEF Complete, StoreTypeOK
  <2>2. GoroutineInv'
    BY <1>0, <1>18, CompleteInv
  <2> QED BY <2>1, <2>2, JoinIInv
<1>19. ASSUME CompleteFails(r)
      PROVE  LoopIInv'
  <2>1. StoreTypeOK'
    BY <1>0, <1>19 DEF CompleteFails, StoreTypeOK
  <2>2. GoroutineInv'
    BY <1>0, <1>19, GoInv DEF CompleteFails, MovesFrom
  <2> QED BY <2>1, <2>2, JoinIInv
<1> QED BY <1>2, <1>3, <1>4, <1>5, <1>6, <1>7, <1>8, <1>9, <1>10,
             <1>11, <1>12, <1>13, <1>14, <1>15, <1>16, <1>17, <1>18, <1>19
           DEF LoopStep, OwnStep, DatabaseStep, ModelStep

LEMMA LoopCrashInv ==
    ASSUME LoopIInv, CrashLoops, CrashDisk, UNCHANGED <<rows, audit>>
    PROVE  LoopIInv'
<1>1. StoreTypeOK /\ GoroutineInv
  BY SplitIInv
<1>2. StoreTypeOK'
  BY <1>1 DEF StoreTypeOK
<1>3. GoroutineInv'
  BY <1>1, CrashInv
<1> QED BY <1>2, <1>3, JoinIInv

LEMMA LoopStutterInv ==
    ASSUME LoopIInv, UNCHANGED loopVars
    PROVE  LoopIInv'
BY DEF LoopIInv, loopVars, LoopTypeOK, GoroutineOK, TextOK, CountOK, TreeOK, SomeTextPasses

THEOREM LoopInvariant == LoopSpec => []LoopIInv
<1>1. LoopSpecInit => LoopIInv
  BY LoopInitInv, RetriesAssumption
<1>2. LoopIInv /\ [LoopNext]_loopVars => LoopIInv'
  <2> SUFFICES ASSUME LoopIInv, [LoopNext]_loopVars
               PROVE  LoopIInv'
    OBVIOUS
  <2>1. ASSUME NEW r \in Requests, LoopStep(r)
        PROVE  LoopIInv'
    BY <2>1, LoopStepInv, DataAssumption, RetriesAssumption
  <2>2. CASE Crash
    BY <2>2, LoopCrashInv DEF Crash
  <2>3. CASE UNCHANGED loopVars
    BY <2>3, LoopStutterInv
  <2> QED BY <2>1, <2>2, <2>3 DEF LoopNext
<1> QED BY <1>1, <1>2, PTL DEF LoopSpec

\* Rows, trails, workspaces and goroutines keep their types (Run).
THEOREM LoopTypeCorrect == LoopSpec => []LoopTypeOK
<1>1. LoopIInv => LoopTypeOK
  BY DEF LoopIInv
<1> QED BY <1>1, LoopInvariant, PTL

\* For every MaxRetries, zero and negative ones included, Run asks for at most
\* Budget - 1 corrections and gives up only after all of them.
THEOREM BudgetIsSpent == LoopSpec => []SpendsItsBudget
<1>1. LoopIInv => SpendsItsBudget
  <2> SUFFICES ASSUME LoopIInv, NEW r \in Requests
               PROVE  /\ loop[r].asked <= Budget - 1
                      /\ loop[r].pc = "exhausted" => loop[r].asked = Budget - 1
    BY DEF SpendsItsBudget
  <2>1. loop[r].asked \in Nat /\ CountOK(r)
    BY DEF LoopIInv, LoopTypeOK, LoopState, GoroutineOK
  <2> QED BY <2>1, RetriesAssumption DEF CountOK, GivingUp, Budget, RetriesAssumption
<1> QED BY <1>1, LoopInvariant, PTL

\* A success is a text terraform planned, and one of the texts tried has a
\* passing score of its own: pooling the candidates makes no failing ones pass.
THEOREM PassingTextExists == LoopSpec => []PassNeedsAPassingText
<1>1. LoopIInv => PassNeedsAPassingText
  <2> SUFFICES ASSUME LoopIInv, NEW r \in Requests, loop[r].pc \in Passing
               PROVE  /\ loop[r].hcl \in Plannable
                      /\ \E h \in loop[r].tried :
                            Passes(Report[h].passed, Report[h].failed)
    BY DEF PassNeedsAPassingText, Passing
  <2>1. TreeOK(r) /\ loop[r].tried \subseteq HCL
    BY DEF LoopIInv, GoroutineOK, LoopTypeOK, LoopState
  <2>2. PICK h \in loop[r].tried : FourFifths(Report[h].passed, Report[h].failed)
    BY <2>1 DEF TreeOK, SomeTextPasses
  <2>3. Report[h].passed \in Nat /\ Report[h].failed \in Nat
    BY <2>1, DataAssumption DEF DataAssumption
  <2>4. Passes(Report[h].passed, Report[h].failed)
    BY <2>2, <2>3, VerdictIsExact
  <2> QED BY <2>1, <2>4 DEF TreeOK
<1> QED BY <1>1, LoopInvariant, PTL

-----------------------------------------------------------------------------
(* The trail of a request.                                                   *)

InOrder(trail) ==
    \A i, j \in 1..Len(trail) :
        i < j => /\ trail[i].attempt <= trail[j].attempt
                 /\ trail[j].action # "generation_attempt"
                 /\ trail[i].action \notin {"generation_complete", "correction_exhausted"}

\* A trail that may go on: no outcome in it, no attempt beyond the n-th.
OpenTrail(trail, n) ==
    \A i \in 1..Len(trail) :
        /\ trail[i].action \notin {"generation_complete", "correction_exhausted"}
        /\ trail[i].attempt <= n

\* Where Run may still write an entry after the first.
Logging == Validating \union Asking \union
           {"persist_passed", "log_complete", "persist_failed", "mark_failed", "log_exhausted"}

TrailOK(r) ==
    /\ InOrder(audit[r])
    /\ loop[r].pc \in Fresh => audit[r] = <<>>
    /\ loop[r].pc \in Logging => OpenTrail(audit[r], loop[r].attempts)

TrailInv == \A r \in Requests : TrailOK(r)

LEMMA AppendInOrder ==
    ASSUME NEW s \in Seq(Entry), NEW e \in Entry, NEW n \in Nat,
           InOrder(s), OpenTrail(s, n), n <= e.attempt, e.action # "generation_attempt"
    PROVE  /\ InOrder(Append(s, e))
           /\ e.action = "correction_attempt" => OpenTrail(Append(s, e), e.attempt)
<1> DEFINE t == Append(s, e)
<1>1. /\ Len(t) = Len(s) + 1 /\ t[Len(s) + 1] = e
      /\ \A i \in 1..Len(s) : t[i] = s[i]
      /\ Len(s) \in Nat
  BY AppendProperties, LenProperties
<1>2. \A i \in 1..Len(s) : s[i] \in Entry
  BY ElementOfSeq
<1>3. \A i \in 1..Len(s) : s[i].attempt \in Nat
  BY <1>2 DEF Entry
<1>4. e.attempt \in Nat
  BY DEF Entry
<1> HIDE DEF t
<1>5. \A i \in 1..Len(t) : i \in 1..Len(s) \/ i = Len(s) + 1
  BY <1>1
<1>6. InOrder(t)
  <2> SUFFICES ASSUME NEW i \in 1..Len(t), NEW j \in 1..Len(t), i < j
               PROVE  /\ t[i].attempt <= t[j].attempt
                      /\ t[j].action # "generation_attempt"
                      /\ t[i].action \notin {"generation_complete", "correction_exhausted"}
    BY DEF InOrder
  <2>1. i \in 1..Len(s)
    BY <1>1
  <2>2. CASE j \in 1..Len(s)
    BY <1>1, <2>1, <2>2 DEF InOrder
  <2>3. CASE j = Len(s) + 1
    BY <1>1, <1>3, <1>4, <2>1, <2>3 DEF OpenTrail
  <2> QED BY <1>5, <2>2, <2>3
<1>7. ASSUME e.action = "correction_attempt", NEW i \in 1..Len(t)
      PROVE  /\ t[i].action \notin {"generation_complete", "correction_exhausted"}
             /\ t[i].attempt <= e.attempt
  BY <1>1, <1>3, <1>4, <1>5, <1>7 DEF OpenTrail
<1> QED BY <1>6, <1>7 DEF OpenTrail, t

\* The first entry of a trail.
LEMMA FirstInOrder ==
    ASSUME NEW e \in Entry, e.action = "generation_attempt", NEW n \in Nat, e.attempt <= n
    PROVE  InOrder(Append(<<>>, e)) /\ OpenTrail(Append(<<>>, e), n)
<1> DEFINE t == Append(<<>>, e)
<1>1. Len(t) = 1 /\ t[1] = e
  BY AppendProperties, EmptySeq
<1> HIDE DEF t
<1>2. \A i \in 1..Len(t) : i = 1
  BY <1>1
<1> QED BY <1>1, <1>2 DEF InOrder, OpenTrail, t

\* Goroutines beside r's have their own trails.
LEMMA TrailFrame ==
    ASSUME TrailInv, NEW r \in Requests,
           \A q \in Requests \ {r} : audit'[q] = audit[q] /\ loop'[q] = loop[q],
           TrailOK(r)'
    PROVE  TrailInv'
BY DEF TrailInv, TrailOK

LEMMA OpenLonger ==
    ASSUME NEW s \in Seq(Entry), NEW n \in Nat, NEW m \in Nat, n <= m, OpenTrail(s, n)
    PROVE  OpenTrail(s, m)
<1>1. \A i \in 1..Len(s) : s[i] \in Entry
  BY ElementOfSeq
<1>2. \A i \in 1..Len(s) : s[i].attempt \in Nat
  BY <1>1 DEF Entry
<1> QED BY <1>2 DEF OpenTrail

LEMMA TrailFacts ==
    ASSUME StoreTypeOK, GoroutineInv, TrailInv, NEW r \in Requests
    PROVE  /\ audit \in [Requests -> Seq(Entry)] /\ audit[r] \in Seq(Entry)
           /\ loop \in [Requests -> LoopState] /\ loop[r] \in LoopState
           /\ loop[r].attempts \in Nat /\ TrailOK(r)
BY DEF StoreTypeOK, GoroutineInv, TrailInv, LoopState

\* A step of r's goroutine that writes no entry.
LEMMA QuietTrail ==
    ASSUME StoreTypeOK, GoroutineInv, TrailInv, NEW r \in Requests, audit' = audit,
           NEW l, loop' = [loop EXCEPT ![r] = l],
           l.attempts \in Nat, l.attempts >= loop[r].attempts,
           l.pc \in Fresh => loop[r].pc \in Fresh,
           l.pc \in Logging => loop[r].pc \in Logging
    PROVE  TrailInv'
<1>1. /\ audit[r] \in Seq(Entry) /\ loop \in [Requests -> LoopState]
      /\ loop[r].attempts \in Nat /\ TrailOK(r)
  BY TrailFacts
<1>2. loop'[r] = l /\ \A q \in Requests \ {r} : loop'[q] = loop[q]
  BY <1>1
<1>3. OpenTrail(audit[r], loop[r].attempts) => OpenTrail(audit[r], l.attempts)
  BY <1>1, OpenLonger
<1>4. TrailOK(r)'
  BY <1>1, <1>2, <1>3 DEF TrailOK
<1> QED BY <1>2, <1>4, TrailFrame

LEMMA MovesQuietly ==
    ASSUME StoreTypeOK, GoroutineInv, TrailInv, NEW r \in Requests, audit' = audit,
           NEW to, Go(r, to) \/ \E o : GoAnyway(r, to, o),
           to \in Fresh => loop[r].pc \in Fresh,
           to \in Logging => loop[r].pc \in Logging
    PROVE  TrailInv'
<1>1. loop[r] \in LoopState /\ loop[r].attempts \in Nat
  BY TrailFacts
<1>2. CASE Go(r, to)
  <2> DEFINE l == [loop[r] EXCEPT !.pc = to]
  <2>1. l.pc = to /\ l.attempts = loop[r].attempts
    BY <1>1 DEF LoopState
  <2>2. loop' = [loop EXCEPT ![r] = l]
    BY <1>2 DEF Go
  <2> HIDE DEF l
  <2>3. l.attempts \in Nat /\ l.attempts >= loop[r].attempts
    BY <1>1, <2>1
  <2> QED BY <1>1, <2>1, <2>2, <2>3, QuietTrail
<1>3. ASSUME NEW o, GoAnyway(r, to, o)
      PROVE  TrailInv'
  <2> DEFINE b == loop[r].lost \/ ~Acked(r, o)
             l == [loop[r] EXCEPT !.pc = to, !.lost = b]
  <2>2. loop' = [loop EXCEPT ![r] = l]
    BY <1>3 DEF GoAnyway
  <2> HIDE DEF b
  <2>1. l.pc = to /\ l.attempts = loop[r].attempts
    BY <1>1 DEF LoopState
  <2> HIDE DEF l
  <2>3. l.attempts \in Nat /\ l.attempts >= loop[r].attempts
    BY <1>1, <2>1
  <2> QED BY <1>1, <2>1, <2>2, <2>3, QuietTrail
<1> QED BY <1>2, <1>3

LEMMA JudgeTrail ==
    ASSUME StoreTypeOK, GoroutineInv, TrailInv, NEW r \in Requests, audit' = audit,
           NEW score, Judge(r, score), loop[r].pc \in Validating
    PROVE  TrailInv'
<1> DEFINE n == loop[r].attempts + 1
           passed == Validated(r, score)
           pc == IF passed THEN "persist_passed"
                 ELSE IF LastAttempt(n) THEN "persist_failed" ELSE "log_attempt"
           m == IF passed THEN loop[r].attempts ELSE n
           l == [loop[r] EXCEPT !.pc = pc, !.score = score, !.attempts = m]
<1>1. loop[r] \in LoopState /\ loop[r].attempts \in Nat
  BY TrailFacts
<1>2. m \in Nat /\ m >= loop[r].attempts
  BY <1>1
<1>3. pc \in {"persist_passed", "persist_failed", "log_attempt"}
  OBVIOUS
<1>4. loop' = [loop EXCEPT ![r] = l]
  BY DEF Judge
<1> HIDE DEF m, pc
<1>5. l.pc = pc /\ l.attempts = m
  BY <1>1 DEF LoopState
<1> HIDE DEF l
<1> QED BY <1>2, <1>3, <1>4, <1>5, QuietTrail DEF Fresh, Logging, Asking

LEMMA GenerateTrail ==
    ASSUME StoreTypeOK, GoroutineInv, TrailInv, NEW r \in Requests, NEW h, NEW o,
           Generate(r, h, o)
    PROVE  TrailInv'
<1> DEFINE b == ~Acked(r, o)
           l == [loop[r] EXCEPT !.pc = "plan", !.hcl = h, !.lost = b]
           e == [action |-> "generation_attempt", attempt |-> 0]
<1>1. /\ audit \in [Requests -> Seq(Entry)] /\ loop \in [Requests -> LoopState]
      /\ loop[r] \in LoopState /\ loop[r].attempts \in Nat /\ TrailOK(r)
  BY TrailFacts
<1>2. loop' = [loop EXCEPT ![r] = l]
  BY DEF Generate
<1> HIDE DEF b
<1>3. l.pc = "plan" /\ l.attempts = loop[r].attempts
  BY <1>1 DEF LoopState
<1> HIDE DEF l
<1>4. loop'[r] = l /\ \A q \in Requests \ {r} : loop'[q] = loop[q]
  BY <1>1, <1>2
<1>5. audit[r] = <<>> /\ loop[r].attempts \in Nat
  BY <1>1 DEF TrailOK, Generate, At, Fresh
<1>6. e \in Entry /\ e.action = "generation_attempt" /\ e.attempt = 0
  BY DEF Entry, Actions
<1>7. audit' = IF Reaches(r, o) THEN [audit EXCEPT ![r] = Append(audit[r], e)] ELSE audit
  BY DEF Generate, CreateAudit
<1> HIDE DEF e
<1>8. /\ audit'[r] \in {<<>>, Append(<<>>, e)}
      /\ \A q \in Requests \ {r} : audit'[q] = audit[q]
  BY <1>1, <1>5, <1>7
<1>9. InOrder(audit'[r]) /\ OpenTrail(audit'[r], loop[r].attempts)
  <2>1. InOrder(<<>>) /\ OpenTrail(<<>>, loop[r].attempts)
    <3>1. Len(<<>>) = 0
      BY EmptySeq
    <3> QED BY <3>1 DEF InOrder, OpenTrail
  <2>2. InOrder(Append(<<>>, e)) /\ OpenTrail(Append(<<>>, e), loop[r].attempts)
    <3>1. e.attempt <= loop[r].attempts
      BY <1>1, <1>6
    <3> QED BY <1>1, <1>6, <3>1, FirstInOrder
  <2> QED BY <1>8, <2>1, <2>2
<1>10. TrailOK(r)'
  BY <1>3, <1>4, <1>9 DEF TrailOK, Fresh
<1> QED BY <1>4, <1>8, <1>10, TrailFrame

\* The entries after the first.
LEMMA LogTrail ==
    ASSUME StoreTypeOK, GoroutineInv, TrailInv, NEW r \in Requests, NEW o,
           LogComplete(r, o) \/ LogExhausted(r, o) \/ LogAttempt(r, o)
    PROVE  TrailInv'
<1>1. PICK a, to :
        /\ CreateAudit(r, a, loop[r].attempts, o) /\ GoAnyway(r, to, o)
        /\ loop[r].pc \in Logging
        /\ \/ to \in {"passed", "exhausted"}
              /\ a \in {"generation_complete", "correction_exhausted"}
           \/ to = "complete" /\ a = "correction_attempt"
  BY DEF LogComplete, LogExhausted, LogAttempt, At, Logging, Asking
<1> DEFINE b == loop[r].lost \/ ~Acked(r, o)
           l == [loop[r] EXCEPT !.pc = to, !.lost = b]
           n == loop[r].attempts
           e == [action |-> a, attempt |-> n]
<1>2. /\ audit \in [Requests -> Seq(Entry)] /\ audit[r] \in Seq(Entry)
      /\ loop \in [Requests -> LoopState]
      /\ loop[r] \in LoopState /\ n \in Nat /\ TrailOK(r)
  BY TrailFacts
<1>3. loop' = [loop EXCEPT ![r] = l]
  BY <1>1 DEF GoAnyway
<1> HIDE DEF b
<1>4. l.pc = to /\ l.attempts = n
  BY <1>2 DEF LoopState
<1> HIDE DEF l
<1>5. loop'[r] = l /\ \A q \in Requests \ {r} : loop'[q] = loop[q]
  BY <1>2, <1>3
<1>6. e \in Entry /\ e.action = a /\ e.attempt = n
  BY <1>1, <1>2 DEF Entry, Actions
<1>7. audit' = IF Reaches(r, o) THEN [audit EXCEPT ![r] = Append(audit[r], e)] ELSE audit
  BY <1>1 DEF CreateAudit
<1> HIDE DEF e
<1>8. /\ audit'[r] \in {audit[r], Append(audit[r], e)}
      /\ \A q \in Requests \ {r} : audit'[q] = audit[q]
  BY <1>2, <1>7
<1>9. InOrder(audit[r]) /\ OpenTrail(audit[r], n)
  BY <1>1, <1>2 DEF TrailOK
<1>10. /\ InOrder(Append(audit[r], e))
       /\ a = "correction_attempt" => OpenTrail(Append(audit[r], e), n)
  BY <1>1, <1>2, <1>6, <1>9, AppendInOrder
<1>11. TrailOK(r)'
  BY <1>1, <1>4, <1>5, <1>8, <1>9, <1>10
  DEF TrailOK, Fresh, Logging, Validating, Asking
<1> QED BY <1>5, <1>8, <1>11, TrailFrame

LEMMA CompleteTrail ==
    ASSUME StoreTypeOK, GoroutineInv, TrailInv, NEW r \in Requests, NEW h, Complete(r, h)
    PROVE  TrailInv'
<1> DEFINE l == [loop[r] EXCEPT !.pc = "plan", !.hcl = h, !.asked = @ + 1]
<1>1. loop[r] \in LoopState /\ loop[r].attempts \in Nat
  BY TrailFacts
<1>2. l.pc = "plan" /\ l.attempts = loop[r].attempts
  BY <1>1 DEF LoopState
<1>3. loop' = [loop EXCEPT ![r] = l] /\ audit' = audit /\ loop[r].pc = "complete"
  BY DEF Complete, At
<1> HIDE DEF l
<1>4. l.attempts \in Nat /\ l.attempts >= loop[r].attempts
  BY <1>1, <1>2
<1> QED BY <1>1, <1>2, <1>3, <1>4, QuietTrail DEF Fresh, Logging, Asking

\* terraform starts, returns or is killed.
LEMMA PlanTrail ==
    ASSUME StoreTypeOK, GoroutineInv, TrailInv, NEW r \in Requests,
           \/ StartPlan(r) \/ PlanRefused(r) \/ PlanDeadline(r)
           \/ \E ok \in BOOLEAN : PlanReturns(r, ok)
    PROVE  TrailInv'
<1>1. loop[r] \in LoopState /\ loop[r].attempts \in Nat
  BY TrailFacts
<1>2. CASE StartPlan(r)
  <2> DEFINE l == [loop[r] EXCEPT !.pc = "planning", !.tried = @ \union {loop[r].hcl}]
  <2>1. l.pc \in Validating /\ l.attempts = loop[r].attempts
    BY <1>1 DEF LoopState, Validating
  <2>2. loop' = [loop EXCEPT ![r] = l] /\ audit' = audit /\ loop[r].pc \in Validating
    BY <1>2 DEF StartPlan, At, Validating
  <2> HIDE DEF l
  <2>3. l.attempts \in Nat /\ l.attempts >= loop[r].attempts
    BY <1>1, <2>1
  <2> QED BY <1>1, <2>1, <2>2, <2>3, QuietTrail DEF Fresh, Logging, Validating
<1>3. CASE PlanRefused(r)
  <2> DEFINE l == [loop[r] EXCEPT !.pc = "check", !.planned = FALSE,
                                !.tried = @ \union {loop[r].hcl}]
  <2>1. l.pc \in Validating /\ l.attempts = loop[r].attempts
    BY <1>1 DEF LoopState, Validating
  <2>2. loop' = [loop EXCEPT ![r] = l] /\ audit' = audit /\ loop[r].pc \in Validating
    BY <1>3 DEF PlanRefused, At, Validating
  <2> HIDE DEF l
  <2>3. l.attempts \in Nat /\ l.attempts >= loop[r].attempts
    BY <1>1, <2>1
  <2> QED BY <1>1, <2>1, <2>2, <2>3, QuietTrail DEF Fresh, Logging, Validating
<1>4. CASE PlanDeadline(r)
  <2> DEFINE l == [loop[r] EXCEPT !.pc = "check", !.planned = FALSE]
  <2>1. l.pc \in Validating /\ l.attempts = loop[r].attempts
    BY <1>1 DEF LoopState, Validating
  <2>2. loop' = [loop EXCEPT ![r] = l] /\ audit' = audit /\ loop[r].pc \in Validating
    BY <1>4 DEF PlanDeadline, At, Validating
  <2> HIDE DEF l
  <2>3. l.attempts \in Nat /\ l.attempts >= loop[r].attempts
    BY <1>1, <2>1
  <2> QED BY <1>1, <2>1, <2>2, <2>3, QuietTrail DEF Fresh, Logging, Validating
<1>5. ASSUME NEW ok \in BOOLEAN, PlanReturns(r, ok)
      PROVE  TrailInv'
  <2> DEFINE l == [loop[r] EXCEPT !.pc = "check", !.planned = ok]
  <2>1. l.pc \in Validating /\ l.attempts = loop[r].attempts
    BY <1>1 DEF LoopState, Validating
  <2>2. loop' = [loop EXCEPT ![r] = l] /\ audit' = audit /\ loop[r].pc \in Validating
    BY <1>5 DEF PlanReturns, At, Validating
  <2> HIDE DEF l
  <2>3. l.attempts \in Nat /\ l.attempts >= loop[r].attempts
    BY <1>1, <2>1
  <2> QED BY <1>1, <2>1, <2>2, <2>3, QuietTrail DEF Fresh, Logging, Validating
<1> QED BY <1>2, <1>3, <1>4, <1>5

LEMMA TrailStep ==
    ASSUME LoopIInv, TrailInv, [LoopNext]_loopVars
    PROVE  TrailInv'
<1>1. StoreTypeOK /\ GoroutineInv
  BY SplitIInv
<1>2. ASSUME NEW r \in Requests, LoopStep(r)
      PROVE  TrailInv'
  <2>1. ASSUME NEW o, Start(r, o)
        PROVE  TrailInv'
    BY <1>1, <2>1, MovesQuietly
    DEF Start, At, CreateRow, Fresh, Logging, Validating, Asking
  <2>2. ASSUME GenerateFails(r) \/ CompleteFails(r)
        PROVE  TrailInv'
    BY <1>1, <2>2, MovesQuietly
    DEF GenerateFails, CompleteFails, Fresh, Logging, Validating, Asking
  <2>3. ASSUME StartScan(r)
        PROVE  TrailInv'
    BY <1>1, <2>3, MovesQuietly
    DEF StartScan, At, Fresh, Logging, Validating, Asking
  <2>4. ASSUME ScanReturns(r) \/ ScanFails(r)
        PROVE  TrailInv'
    BY <1>1, <2>4, JudgeTrail DEF ScanReturns, ScanFails, At, Validating
  <2>5. ASSUME NEW o, PersistPassed(r, o) \/ PersistFailed(r, o) \/ MarkFailed(r, o)
        PROVE  TrailInv'
    <3>1. PICK to \in {"log_complete", "mark_failed", "log_exhausted"} :
            GoAnyway(r, to, o) /\ audit' = audit /\ loop[r].pc \in Logging
      BY <2>5 DEF PersistPassed, PersistFailed, MarkFailed, UpdateHCLAndScore,
                  UpdateStatus, At, Logging
    <3> QED BY <1>1, <3>1, MovesQuietly DEF Fresh
  <2> QED BY <1>1, <1>2, <2>1, <2>2, <2>3, <2>4, <2>5, GenerateTrail, LogTrail,
             CompleteTrail, PlanTrail
          DEF LoopStep, OwnStep, DatabaseStep, ModelStep
<1>3. CASE Crash
  <2>1. ASSUME NEW r \in Requests
        PROVE  TrailOK(r)'
    <3>1. TrailOK(r) /\ loop[r] \in LoopState
      BY <1>1, TrailFacts
    <3>2. \/ loop'[r] = loop[r]
          \/ loop'[r] = [loop[r] EXCEPT !.pc = "crashed"]
      BY <1>3 DEF Crash, CrashLoops
    <3>3. audit'[r] = audit[r]
      BY <1>3 DEF Crash
    <3>4. loop'[r] = loop[r] \/ loop'[r].pc = "crashed"
      BY <3>1, <3>2 DEF LoopState
    <3> QED BY <3>1, <3>3, <3>4 DEF TrailOK, Fresh, Logging, Validating, Asking
  <2> QED BY <2>1 DEF TrailInv
<1>4. CASE UNCHANGED loopVars
  BY <1>4 DEF loopVars, TrailInv, TrailOK
<1> QED BY <1>2, <1>3, <1>4 DEF LoopNext

\* Whatever statements are lost, wherever the process ends: a trail begins with
\* its generation, counts its corrections up and ends with its outcome (Run's
\* calls of logAuditEvent).
THEOREM TrailsReadInOrder == LoopSpec => []TrailReadsInOrder
<1>1. LoopSpecInit => TrailInv
  <2> SUFFICES ASSUME LoopSpecInit, NEW r \in Requests
               PROVE  TrailOK(r)
    BY DEF TrailInv
  <2>1. audit[r] = <<>> /\ loop[r].pc = "idle" /\ Len(<<>>) = 0
    BY EmptySeq DEF LoopSpecInit, StoreInit, LoopInit, Idle
  <2> QED BY <2>1 DEF TrailOK, InOrder, Logging, Validating, Asking
<1>2. LoopIInv /\ TrailInv /\ [LoopNext]_loopVars => TrailInv'
  BY TrailStep
<1>3. TrailInv => TrailReadsInOrder
  BY DEF TrailInv, TrailOK, InOrder, TrailReadsInOrder
<1> QED BY <1>1, <1>2, <1>3, LoopInvariant, PTL DEF LoopSpec

-----------------------------------------------------------------------------
(* The row and the trail of a run whose statements were all acknowledged.    *)

Persisted == {"log_complete", "passed", "mark_failed", "log_exhausted", "exhausted"}

\* What a run at l, all of whose statements were acknowledged, has left in its
\* row and its trail.
StoredRow(l, row) ==
    /\ l.pc \in InFlight \ {"log_exhausted"} \/ l.pc = "passed" => row.status = "pending"
    /\ l.pc \in {"log_exhausted", "exhausted"} => row.status = "failed"
    /\ l.pc \in Persisted => /\ row.hcl = l.hcl /\ row.score = l.score
                             /\ row.attempts = l.attempts
    /\ l.pc \in Passing => l.score >= Threshold

StoredTrail(l, trail) ==
    /\ l.pc \in Fresh => trail = <<>>
    /\ l.pc \in Logging \ {"complete"} =>
         Len(trail) = l.asked + 1 /\ CountsUp(trail, l.asked)
    /\ l.pc = "complete" =>
         Len(trail) = l.asked + 2 /\ CountsUp(trail, l.asked + 1)
    /\ l.pc \in Accepted =>
         /\ Len(trail) = l.asked + 2 /\ CountsUp(trail, l.asked)
         /\ trail[l.asked + 2] =
              [action |-> IF l.pc = "passed" THEN "generation_complete"
                                             ELSE "correction_exhausted",
               attempt |-> l.attempts]

Stored(l, row, trail) == /\ l.pc \in Fresh => ~l.lost
                         /\ ~l.lost => StoredRow(l, row) /\ StoredTrail(l, trail)

StoredInv == \A r \in Requests : Stored(loop[r], rows[r], audit[r])

LEMMA StoredFrame ==
    ASSUME StoredInv, NEW r \in Requests,
           \A q \in Requests \ {r} : /\ loop'[q] = loop[q] /\ rows'[q] = rows[q]
                                     /\ audit'[q] = audit[q],
           Stored(loop'[r], rows'[r], audit'[r])
    PROVE  StoredInv'
<1>1. ASSUME NEW q \in Requests
      PROVE  Stored(loop'[q], rows'[q], audit'[q])
  BY DEF StoredInv
<1> QED BY <1>1 DEF StoredInv

LEMMA StoredFacts ==
    ASSUME LoopIInv, StoredInv, NEW r \in Requests
    PROVE  /\ loop \in [Requests -> LoopState] /\ loop[r] \in LoopState
           /\ rows \in [Requests -> Row] /\ rows[r] \in Row
           /\ audit \in [Requests -> Seq(Entry)] /\ audit[r] \in Seq(Entry)
           /\ Stored(loop[r], rows[r], audit[r]) /\ TextOK(r) /\ CountOK(r)
           /\ loop[r].asked \in Nat /\ loop[r].attempts \in Nat
BY DEF LoopIInv, LoopTypeOK, GoroutineOK, StoredInv, LoopState

\* A run that is over without a result has promised nothing.
LEMMA StoredEnded ==
    ASSUME NEW l, NEW row, NEW trail, l.pc \in {"error", "crashed"}
    PROVE  Stored(l, row, trail)
BY DEF Stored, StoredRow, StoredTrail, InFlight, Persisted, Passing, Fresh, Logging,
       Validating, Asking, Accepted

\* Where a step that moves on leads, and what it says of its statement.
LEMMA GoShape ==
    ASSUME NEW r \in Requests, NEW to, loop \in [Requests -> LoopState], Go(r, to)
    PROVE  \E l : /\ loop' = [loop EXCEPT ![r] = l] /\ l.pc = to
                  /\ l.hcl = loop[r].hcl /\ l.score = loop[r].score
                  /\ l.attempts = loop[r].attempts /\ l.asked = loop[r].asked
                  /\ l.lost = loop[r].lost
<1> DEFINE l == [loop[r] EXCEPT !.pc = to]
<1>1. loop[r] \in LoopState
  OBVIOUS
<1>2. loop' = [loop EXCEPT ![r] = l]
  BY DEF Go
<1>3. /\ l.pc = to /\ l.hcl = loop[r].hcl /\ l.score = loop[r].score
      /\ l.attempts = loop[r].attempts /\ l.asked = loop[r].asked /\ l.lost = loop[r].lost
  BY <1>1 DEF LoopState
<1> HIDE DEF l
<1> QED BY <1>2, <1>3

LEMMA AnywayShape ==
    ASSUME NEW r \in Requests, NEW to, NEW o, loop \in [Requests -> LoopState],
           GoAnyway(r, to, o)
    PROVE  \E l : /\ loop' = [loop EXCEPT ![r] = l] /\ l.pc = to
                  /\ l.hcl = loop[r].hcl /\ l.score = loop[r].score
                  /\ l.attempts = loop[r].attempts /\ l.asked = loop[r].asked
                  /\ ~l.lost => ~loop[r].lost /\ Reaches(r, o)
<1> DEFINE b == loop[r].lost \/ ~Acked(r, o)
           l == [loop[r] EXCEPT !.pc = to, !.lost = b]
<1>1. loop[r] \in LoopState
  OBVIOUS
<1>2. loop' = [loop EXCEPT ![r] = l]
  BY DEF GoAnyway
<1>3. ~b => ~loop[r].lost /\ Reaches(r, o)
  BY DEF Acked, Reaches
<1> HIDE DEF b
<1>4. /\ l.pc = to /\ l.hcl = loop[r].hcl /\ l.score = loop[r].score
      /\ l.attempts = loop[r].attempts /\ l.asked = loop[r].asked /\ l.lost = b
  BY <1>1 DEF LoopState
<1> HIDE DEF l
<1>5. ~l.lost => ~loop[r].lost /\ Reaches(r, o)
  BY <1>3, <1>4
<1> QED BY <1>2, <1>4, <1>5

\* Within a round nothing is stored.
LEMMA StoredRound ==
    ASSUME LoopIInv, StoredInv, NEW r \in Requests, rows' = rows, audit' = audit,
           NEW l, loop' = [loop EXCEPT ![r] = l], loop[r].pc \in Validating,
           l.pc \in Validating \union {"persist_passed", "persist_failed", "log_attempt"},
           l.pc = "persist_passed" => l.score >= Threshold,
           l.asked = loop[r].asked, l.lost = loop[r].lost
    PROVE  StoredInv'
<1>1. loop \in [Requests -> LoopState] /\ Stored(loop[r], rows[r], audit[r])
  BY StoredFacts
<1>2. loop'[r] = l /\ \A q \in Requests \ {r} : loop'[q] = loop[q]
  BY <1>1
<1>3. StoredRow(loop[r], rows[r]) => StoredRow(l, rows[r])
  BY DEF StoredRow, InFlight, Persisted, Passing, Validating
<1>4. StoredTrail(loop[r], audit[r]) => StoredTrail(l, audit[r])
  BY DEF StoredTrail, Fresh, Logging, Asking, Validating, Accepted
<1>5. Stored(l, rows[r], audit[r])
  BY <1>1, <1>3, <1>4 DEF Stored, Fresh, Validating
<1> QED BY <1>2, <1>5, StoredFrame

LEMMA StoredPlan ==
    ASSUME LoopIInv, StoredInv, NEW r \in Requests,
           \/ StartPlan(r) \/ PlanRefused(r) \/ PlanDeadline(r) \/ StartScan(r)
           \/ \E ok \in BOOLEAN : PlanReturns(r, ok)
    PROVE  StoredInv'
<1>1. loop[r] \in LoopState
  BY StoredFacts
<1> USE DEF Validating
<1>2. CASE StartPlan(r)
  <2> DEFINE l == [loop[r] EXCEPT !.pc = "planning", !.tried = @ \union {loop[r].hcl}]
  <2>1. l.pc = "planning" /\ l.asked = loop[r].asked /\ l.lost = loop[r].lost
    BY <1>1 DEF LoopState
  <2>2. /\ loop' = [loop EXCEPT ![r] = l] /\ audit' = audit /\ rows' = rows
        /\ loop[r].pc \in Validating
    BY <1>2 DEF StartPlan, At
  <2> HIDE DEF l
  <2> QED BY <2>1, <2>2, StoredRound
<1>3. CASE PlanRefused(r)
  <2> DEFINE l == [loop[r] EXCEPT !.pc = "check", !.planned = FALSE,
                                !.tried = @ \union {loop[r].hcl}]
  <2>1. l.pc = "check" /\ l.asked = loop[r].asked /\ l.lost = loop[r].lost
    BY <1>1 DEF LoopState
  <2>2. /\ loop' = [loop EXCEPT ![r] = l] /\ audit' = audit /\ rows' = rows
        /\ loop[r].pc \in Validating
    BY <1>3 DEF PlanRefused, At
  <2> HIDE DEF l
  <2> QED BY <2>1, <2>2, StoredRound
<1>4. CASE PlanDeadline(r)
  <2> DEFINE l == [loop[r] EXCEPT !.pc = "check", !.planned = FALSE]
  <2>1. l.pc = "check" /\ l.asked = loop[r].asked /\ l.lost = loop[r].lost
    BY <1>1 DEF LoopState
  <2>2. /\ loop' = [loop EXCEPT ![r] = l] /\ audit' = audit /\ rows' = rows
        /\ loop[r].pc \in Validating
    BY <1>4 DEF PlanDeadline, At
  <2> HIDE DEF l
  <2> QED BY <2>1, <2>2, StoredRound
<1>5. ASSUME NEW ok \in BOOLEAN, PlanReturns(r, ok)
      PROVE  StoredInv'
  <2> DEFINE l == [loop[r] EXCEPT !.pc = "check", !.planned = ok]
  <2>1. l.pc = "check" /\ l.asked = loop[r].asked /\ l.lost = loop[r].lost
    BY <1>1 DEF LoopState
  <2>2. /\ loop' = [loop EXCEPT ![r] = l] /\ audit' = audit /\ rows' = rows
        /\ loop[r].pc \in Validating
    BY <1>5 DEF PlanReturns, At
  <2> HIDE DEF l
  <2> QED BY <2>1, <2>2, StoredRound
<1>6. CASE StartScan(r)
  <2>1. /\ Go(r, "scanning") /\ audit' = audit /\ rows' = rows
        /\ loop[r].pc \in Validating
    BY <1>6 DEF StartScan, At
  <2>2. PICK l : /\ loop' = [loop EXCEPT ![r] = l] /\ l.pc = "scanning"
                 /\ l.asked = loop[r].asked /\ l.lost = loop[r].lost
    BY <2>1, StoredFacts, GoShape
  <2> QED BY <2>1, <2>2, StoredRound
<1> QED BY <1>2, <1>3, <1>4, <1>5, <1>6

LEMMA StoredJudge ==
    ASSUME LoopIInv, StoredInv, NEW r \in Requests, rows' = rows, audit' = audit,
           NEW score, Judge(r, score), loop[r].pc \in Validating
    PROVE  StoredInv'
<1> DEFINE n == loop[r].attempts + 1
           passed == Validated(r, score)
           pc == IF passed THEN "persist_passed"
                 ELSE IF LastAttempt(n) THEN "persist_failed" ELSE "log_attempt"
           m == IF passed THEN loop[r].attempts ELSE n
           l == [loop[r] EXCEPT !.pc = pc, !.score = score, !.attempts = m]
<1>1. loop[r] \in LoopState
  BY StoredFacts
<1>3. /\ pc \in {"persist_passed", "persist_failed", "log_attempt"}
      /\ pc = "persist_passed" => score >= Threshold
  BY DEF Validated
<1>4. loop' = [loop EXCEPT ![r] = l]
  BY DEF Judge
<1> HIDE DEF m, pc
<1>5. l.pc = pc /\ l.score = score /\ l.asked = loop[r].asked /\ l.lost = loop[r].lost
  BY <1>1 DEF LoopState
<1> HIDE DEF l
<1> QED BY <1>3, <1>4, <1>5, StoredRound

LEMMA StoredStart ==
    ASSUME LoopIInv, StoredInv, NEW r \in Requests, NEW o, Start(r, o)
    PROVE  StoredInv'
<1>1. /\ loop \in [Requests -> LoopState] /\ rows \in [Requests -> Row]
      /\ Stored(loop[r], rows[r], audit[r])
  BY StoredFacts
<1>2. PICK l : /\ loop' = [loop EXCEPT ![r] = l]
               /\ l.pc = IF o = "ok" THEN "generate" ELSE "error"
               /\ l.lost = loop[r].lost
  BY <1>1, GoShape DEF Start
<1>3. loop'[r] = l /\ \A q \in Requests \ {r} : loop'[q] = loop[q]
  BY <1>1, <1>2
<1>4. /\ audit' = audit /\ \A q \in Requests \ {r} : rows'[q] = rows[q]
      /\ o = "ok" => rows'[r] = PendingRow
  BY <1>1 DEF Start, CreateRow
<1>5. Stored(l, rows'[r], audit[r])
  <2>1. CASE o # "ok"
    BY <1>2, <2>1, StoredEnded
  <2>2. CASE o = "ok"
    <3>1. l.pc = "generate" /\ rows'[r].status = "pending"
      BY <1>2, <1>4, <2>2 DEF PendingRow, NoRow
    <3>2. ~l.lost => audit[r] = <<>>
      BY <1>1, <1>2 DEF Start, At, Stored, StoredTrail, Fresh
    <3>3. ~l.lost => StoredRow(l, rows'[r]) /\ StoredTrail(l, audit[r])
      BY <3>1, <3>2 DEF StoredRow, StoredTrail, Persisted, Passing, Fresh, Logging,
                        Validating, Asking, Accepted, InFlight
    <3>4. ~l.lost
      BY <1>1, <1>2 DEF Start, At, Stored, Fresh
    <3> QED BY <3>3, <3>4 DEF Stored
  <2> QED BY <2>1, <2>2
<1> QED BY <1>3, <1>4, <1>5, StoredFrame

\* A longer trail.
LEMMA CountsLonger ==
    ASSUME NEW s \in Seq(Entry), NEW e, NEW n \in Nat, Len(s) = n + 1, CountsUp(s, n)
    PROVE  /\ Len(Append(s, e)) = n + 2 /\ Append(s, e)[n + 2] = e
           /\ CountsUp(Append(s, e), n)
           /\ e = [action |-> "correction_attempt", attempt |-> n + 1]
                => CountsUp(Append(s, e), n + 1)
<1> DEFINE t == Append(s, e)
<1>1. s \in Seq(Entry \union {e})
  BY SeqMonotonic, ElementOfSeq DEF Entry
<1>2. /\ Len(t) = Len(s) + 1 /\ t[Len(s) + 1] = e
      /\ \A i \in 1..Len(s) : t[i] = s[i]
  BY <1>1, AppendProperties
<1> HIDE DEF t
<1>3. t[n + 2] = e /\ t[1] = s[1] /\ \A i \in 1..n : t[i + 1] = s[i + 1]
  BY <1>2
<1>4. CountsUp(t, n)
  BY <1>3 DEF CountsUp
<1>5. ASSUME e = [action |-> "correction_attempt", attempt |-> n + 1]
      PROVE  CountsUp(t, n + 1)
  <2>1. \A i \in 1..(n + 1) : i \in 1..n \/ i = n + 1
    OBVIOUS
  <2>2. \A i \in 1..n : t[i + 1] = [action |-> "correction_attempt", attempt |-> i]
    BY <1>4 DEF CountsUp
  <2>3. t[(n + 1) + 1] = [action |-> "correction_attempt", attempt |-> n + 1]
    BY <1>3, <1>5
  <2>4. t[1].action = "generation_attempt"
    BY <1>4 DEF CountsUp
  <2> QED BY <2>1, <2>2, <2>3, <2>4 DEF CountsUp
<1> QED BY <1>2, <1>3, <1>4, <1>5 DEF t

LEMMA StoredGenerate ==
    ASSUME LoopIInv, StoredInv, NEW r \in Requests, NEW h, NEW o, Generate(r, h, o)
    PROVE  StoredInv'
<1> DEFINE b == ~Acked(r, o)
           l == [loop[r] EXCEPT !.pc = "plan", !.hcl = h, !.lost = b]
           e == [action |-> "generation_attempt", attempt |-> 0]
<1>1. /\ loop \in [Requests -> LoopState] /\ loop[r] \in LoopState
      /\ audit \in [Requests -> Seq(Entry)]
      /\ Stored(loop[r], rows[r], audit[r]) /\ loop[r].pc = "generate"
  BY StoredFacts DEF Generate, At
<1>2. loop[r].asked = 0
  BY <1>1, StoredFacts DEF CountOK, Fresh
<1>3. audit[r] = <<>> /\ rows[r].status = "pending"
  BY <1>1 DEF Stored, StoredRow, StoredTrail, Fresh, InFlight
<1>4. loop' = [loop EXCEPT ![r] = l]
  BY DEF Generate
<1>5. ~b => Reaches(r, o)
  BY DEF Acked, Reaches
<1> HIDE DEF b
<1>6. l.pc = "plan" /\ l.asked = loop[r].asked /\ l.lost = b
  BY <1>1 DEF LoopState
<1> HIDE DEF l
<1>7. loop'[r] = l /\ \A q \in Requests \ {r} : loop'[q] = loop[q]
  BY <1>1, <1>4
<1>8. /\ rows' = rows
      /\ audit' = IF Reaches(r, o) THEN [audit EXCEPT ![r] = Append(audit[r], e)]
                                   ELSE audit
  BY DEF Generate, CreateAudit
<1>9. e \in Entry /\ e.action = "generation_attempt"
  BY DEF Entry, Actions
<1> HIDE DEF e
<1>10. /\ \A q \in Requests \ {r} : audit'[q] = audit[q]
       /\ ~l.lost => audit'[r] = Append(<<>>, e)
  BY <1>1, <1>3, <1>5, <1>6, <1>8
<1>11. Len(Append(<<>>, e)) = 1 /\ CountsUp(Append(<<>>, e), 0)
  <2>1. Len(Append(<<>>, e)) = 1 /\ Append(<<>>, e)[1] = e
    BY <1>9, AppendProperties, EmptySeq
  <2> QED BY <1>9, <2>1 DEF CountsUp
<1>12. StoredRow(l, rows[r])
  BY <1>3, <1>6 DEF StoredRow, InFlight, Persisted, Passing
<1>13. ~l.lost => StoredTrail(l, audit'[r])
  BY <1>2, <1>6, <1>10, <1>11 DEF StoredTrail, Fresh, Logging, Validating, Accepted
<1>14. Stored(l, rows'[r], audit'[r])
  BY <1>6, <1>8, <1>12, <1>13 DEF Stored, Fresh
<1> QED BY <1>7, <1>8, <1>10, <1>14, StoredFrame

LEMMA StoredComplete ==
    ASSUME LoopIInv, StoredInv, NEW r \in Requests, NEW h, Complete(r, h)
    PROVE  StoredInv'
<1> DEFINE l == [loop[r] EXCEPT !.pc = "plan", !.hcl = h, !.asked = @ + 1]
<1>1. /\ loop \in [Requests -> LoopState] /\ loop[r] \in LoopState
      /\ loop[r].asked \in Nat
      /\ Stored(loop[r], rows[r], audit[r]) /\ loop[r].pc = "complete"
  BY StoredFacts DEF Complete, At
<1>2. l.pc = "plan" /\ l.asked = loop[r].asked + 1 /\ l.lost = loop[r].lost
  BY <1>1 DEF LoopState
<1>3. loop' = [loop EXCEPT ![r] = l] /\ audit' = audit /\ rows' = rows
  BY DEF Complete
<1> HIDE DEF l
<1>4. loop'[r] = l /\ \A q \in Requests \ {r} : loop'[q] = loop[q]
  BY <1>1, <1>3
<1>5. ~l.lost => StoredRow(l, rows[r])
  BY <1>1, <1>2 DEF Stored, StoredRow, InFlight, Persisted, Passing
<1>6. ~l.lost => StoredTrail(l, audit[r])
  <2>1. ~l.lost => Len(audit[r]) = loop[r].asked + 2
                     /\ CountsUp(audit[r], loop[r].asked + 1)
    BY <1>1, <1>2 DEF Stored, StoredTrail
  <2> QED BY <1>1, <1>2, <2>1
          DEF StoredTrail, Fresh, Logging, Validating, Accepted
<1>7. Stored(l, rows[r], audit[r])
  BY <1>2, <1>5, <1>6 DEF Stored, Fresh
<1> QED BY <1>3, <1>4, <1>7, StoredFrame

\* The row is written: text, score and attempts, while it is pending.
LEMMA StoredPersist ==
    ASSUME LoopIInv, StoredInv, NEW r \in Requests, NEW o,
           PersistPassed(r, o) \/ PersistFailed(r, o)
    PROVE  StoredInv'
<1>1. PICK to : /\ GoAnyway(r, to, o)
                /\ \/ loop[r].pc = "persist_passed" /\ to = "log_complete"
                   \/ loop[r].pc = "persist_failed" /\ to = "mark_failed"
  BY DEF PersistPassed, PersistFailed, At
<1>2. UpdateHCLAndScore(r, loop[r].hcl, loop[r].score, loop[r].attempts, o)
  BY DEF PersistPassed, PersistFailed
<1>3. /\ loop \in [Requests -> LoopState] /\ rows \in [Requests -> Row]
      /\ rows[r] \in Row /\ Stored(loop[r], rows[r], audit[r])
  BY StoredFacts
<1>4. PICK l : /\ loop' = [loop EXCEPT ![r] = l] /\ l.pc = to
               /\ l.hcl = loop[r].hcl /\ l.score = loop[r].score
               /\ l.attempts = loop[r].attempts /\ l.asked = loop[r].asked
               /\ ~l.lost => ~loop[r].lost /\ Reaches(r, o)
  BY <1>1, <1>3, AnywayShape
<1>5. loop'[r] = l /\ \A q \in Requests \ {r} : loop'[q] = loop[q]
  BY <1>3, <1>4
<1>6. audit' = audit /\ \A q \in Requests \ {r} : rows'[q] = rows[q]
  BY <1>2, <1>3 DEF UpdateHCLAndScore
<1>7. ~l.lost => /\ rows'[r].status = rows[r].status /\ rows'[r].hcl = l.hcl
                 /\ rows'[r].score = l.score /\ rows'[r].attempts = l.attempts
  BY <1>2, <1>3, <1>4 DEF UpdateHCLAndScore, Row
<1>8. ~l.lost => StoredRow(loop[r], rows[r]) /\ StoredTrail(loop[r], audit[r])
  BY <1>3, <1>4 DEF Stored
<1>9. ~l.lost => StoredRow(l, rows'[r])
  BY <1>1, <1>4, <1>7, <1>8 DEF StoredRow, InFlight, Persisted, Passing
<1>10. ~l.lost => StoredTrail(l, audit[r])
  BY <1>1, <1>4, <1>8 DEF StoredTrail, Fresh, Logging, Validating, Asking, Accepted
<1>11. Stored(l, rows'[r], audit'[r])
  BY <1>1, <1>4, <1>6, <1>9, <1>10 DEF Stored, Fresh
<1> QED BY <1>5, <1>6, <1>11, StoredFrame

LEMMA StoredMark ==
    ASSUME LoopIInv, StoredInv, NEW r \in Requests, NEW o, MarkFailed(r, o)
    PROVE  StoredInv'
<1>1. /\ GoAnyway(r, "log_exhausted", o) /\ loop[r].pc = "mark_failed"
      /\ UpdateStatus(r, "failed", o)
  BY DEF MarkFailed, At
<1>3. /\ loop \in [Requests -> LoopState] /\ rows \in [Requests -> Row]
      /\ rows[r] \in Row /\ Stored(loop[r], rows[r], audit[r])
  BY StoredFacts
<1>4. PICK l : /\ loop' = [loop EXCEPT ![r] = l] /\ l.pc = "log_exhausted"
               /\ l.hcl = loop[r].hcl /\ l.score = loop[r].score
               /\ l.attempts = loop[r].attempts /\ l.asked = loop[r].asked
               /\ ~l.lost => ~loop[r].lost /\ Reaches(r, o)
  BY <1>1, <1>3, AnywayShape
<1>5. loop'[r] = l /\ \A q \in Requests \ {r} : loop'[q] = loop[q]
  BY <1>3, <1>4
<1>6. audit' = audit /\ \A q \in Requests \ {r} : rows'[q] = rows[q]
  BY <1>1, <1>3 DEF UpdateStatus
<1>7. ~l.lost => /\ rows'[r].status = "failed" /\ rows'[r].hcl = rows[r].hcl
                 /\ rows'[r].score = rows[r].score
                 /\ rows'[r].attempts = rows[r].attempts
  BY <1>1, <1>3, <1>4 DEF UpdateStatus, Row
<1>8. ~l.lost => StoredRow(loop[r], rows[r]) /\ StoredTrail(loop[r], audit[r])
  BY <1>3, <1>4 DEF Stored
<1>9. ~l.lost => StoredRow(l, rows'[r])
  BY <1>1, <1>4, <1>7, <1>8 DEF StoredRow, InFlight, Persisted, Passing
<1>10. ~l.lost => StoredTrail(l, audit[r])
  BY <1>1, <1>4, <1>8 DEF StoredTrail, Fresh, Logging, Validating, Asking, Accepted
<1>11. Stored(l, rows'[r], audit'[r])
  BY <1>4, <1>6, <1>9, <1>10 DEF Stored, Fresh
<1> QED BY <1>5, <1>6, <1>11, StoredFrame

\* What the entry a run appends makes of its trail.
LEMMA StoredLog ==
    ASSUME LoopIInv, StoredInv, NEW r \in Requests, NEW o,
           LogComplete(r, o) \/ LogExhausted(r, o) \/ LogAttempt(r, o)
    PROVE  StoredInv'
<1>1. PICK to, a :
        /\ CreateAudit(r, a, loop[r].attempts, o) /\ GoAnyway(r, to, o)
        /\ \/ /\ loop[r].pc = "log_complete" /\ to = "passed"
              /\ a = "generation_complete"
           \/ /\ loop[r].pc = "log_exhausted" /\ to = "exhausted"
              /\ a = "correction_exhausted"
           \/ /\ loop[r].pc = "log_attempt" /\ to = "complete"
              /\ a = "correction_attempt"
  BY DEF LogComplete, LogExhausted, LogAttempt, At
<1> DEFINE n == loop[r].asked
           e == [action |-> a, attempt |-> loop[r].attempts]
<1>3. /\ loop \in [Requests -> LoopState]
      /\ audit \in [Requests -> Seq(Entry)] /\ audit[r] \in Seq(Entry)
      /\ Stored(loop[r], rows[r], audit[r]) /\ n \in Nat
  BY StoredFacts
<1>4. PICK l : /\ loop' = [loop EXCEPT ![r] = l] /\ l.pc = to
               /\ l.hcl = loop[r].hcl /\ l.score = loop[r].score
               /\ l.attempts = loop[r].attempts /\ l.asked = n
               /\ ~l.lost => ~loop[r].lost /\ Reaches(r, o)
  BY <1>1, <1>3, AnywayShape
<1>5. loop'[r] = l /\ \A q \in Requests \ {r} : loop'[q] = loop[q]
  BY <1>3, <1>4
<1>6. /\ rows' = rows
      /\ audit' = IF Reaches(r, o) THEN [audit EXCEPT ![r] = Append(audit[r], e)]
                                   ELSE audit
  BY <1>1 DEF CreateAudit
<1>7. loop[r].pc = "log_attempt" => loop[r].attempts = n + 1
  BY StoredFacts DEF CountOK, Asking
<1>8. ~l.lost => StoredRow(loop[r], rows[r]) /\ StoredTrail(loop[r], audit[r])
  BY <1>3, <1>4 DEF Stored
<1>e. /\ to = "complete" => e = [action |-> "correction_attempt", attempt |-> n + 1]
      /\ to = "passed" => e = [action |-> "generation_complete", attempt |-> l.attempts]
      /\ to = "exhausted" => e = [action |-> "correction_exhausted", attempt |-> l.attempts]
  BY <1>1, <1>4, <1>7
<1> HIDE DEF e
<1>9. /\ \A q \in Requests \ {r} : audit'[q] = audit[q]
      /\ ~l.lost => audit'[r] = Append(audit[r], e)
  BY <1>3, <1>4, <1>6
<1>10. ~l.lost => Len(audit[r]) = n + 1 /\ CountsUp(audit[r], n)
  BY <1>1, <1>8 DEF StoredTrail, Logging, Asking
<1>11. ~l.lost => /\ Len(audit'[r]) = n + 2 /\ audit'[r][n + 2] = e
                  /\ CountsUp(audit'[r], n)
                  /\ to = "complete" => CountsUp(audit'[r], n + 1)
  <2> SUFFICES ASSUME ~l.lost
               PROVE  /\ Len(audit'[r]) = n + 2 /\ audit'[r][n + 2] = e
                      /\ CountsUp(audit'[r], n)
                      /\ to = "complete" => CountsUp(audit'[r], n + 1)
    OBVIOUS
  <2>1. Len(audit[r]) = n + 1 /\ CountsUp(audit[r], n) /\ n \in Nat
           /\ audit[r] \in Seq(Entry) /\ audit'[r] = Append(audit[r], e)
    BY <1>3, <1>9, <1>10
  <2> HIDE DEF n
  <2>2. /\ Len(Append(audit[r], e)) = n + 2 /\ Append(audit[r], e)[n + 2] = e
        /\ CountsUp(Append(audit[r], e), n)
        /\ e = [action |-> "correction_attempt", attempt |-> n + 1]
             => CountsUp(Append(audit[r], e), n + 1)
    BY <2>1, CountsLonger
  <2>3. to = "complete" => CountsUp(Append(audit[r], e), n + 1)
    BY <2>2, <1>e
  <2> QED BY <2>1, <2>2, <2>3
<1>12. ~l.lost => StoredRow(l, rows[r])
  BY <1>1, <1>4, <1>8 DEF StoredRow, InFlight, Persisted, Passing
<1>13. ~l.lost => StoredTrail(l, audit'[r])
  <2>1. CASE to = "complete"
    BY <1>4, <1>11, <2>1 DEF StoredTrail, Fresh, Logging, Validating, Asking, Accepted
  <2>2. CASE to = "passed"
    BY <1>4, <1>11, <1>e, <2>2 DEF StoredTrail, Fresh, Logging, Validating, Asking,
                                   Accepted
  <2>3. CASE to = "exhausted"
    BY <1>4, <1>11, <1>e, <2>3 DEF StoredTrail, Fresh, Logging, Validating, Asking,
                                   Accepted
  <2> QED BY <1>1, <2>1, <2>2, <2>3
<1>14. Stored(l, rows'[r], audit'[r])
  BY <1>1, <1>4, <1>6, <1>12, <1>13 DEF Stored, Fresh
<1> QED BY <1>5, <1>6, <1>9, <1>14, StoredFrame

LEMMA StoredFails ==
    ASSUME LoopIInv, StoredInv, NEW r \in Requests, GenerateFails(r) \/ CompleteFails(r)
    PROVE  StoredInv'
<1>1. Go(r, "error") /\ audit' = audit /\ rows' = rows
  BY DEF GenerateFails, CompleteFails
<1>2. loop \in [Requests -> LoopState]
  BY StoredFacts
<1>3. PICK l : loop' = [loop EXCEPT ![r] = l] /\ l.pc = "error"
  BY <1>1, <1>2, GoShape
<1>4. loop'[r] = l /\ \A q \in Requests \ {r} : loop'[q] = loop[q]
  BY <1>2, <1>3
<1>5. Stored(l, rows[r], audit[r])
  BY <1>3, StoredEnded
<1> QED BY <1>1, <1>4, <1>5, StoredFrame

LEMMA StoredStep ==
    ASSUME LoopIInv, StoredInv, [LoopNext]_loopVars
    PROVE  StoredInv'
<1>1. ASSUME NEW r \in Requests, LoopStep(r)
      PROVE  StoredInv'
  <2>1. ASSUME ScanReturns(r) \/ ScanFails(r)
        PROVE  StoredInv'
    BY <1>1, <2>1, StoredJudge DEF ScanReturns, ScanFails, At, Validating
  <2> QED BY <1>1, <2>1, StoredStart, StoredGenerate, StoredFails, StoredPlan,
             StoredPersist, StoredMark, StoredLog, StoredComplete
          DEF LoopStep, OwnStep, DatabaseStep, ModelStep
<1>2. CASE Crash
  <2>1. ASSUME NEW r \in Requests
        PROVE  Stored(loop'[r], rows'[r], audit'[r])
    <3>1. loop[r] \in LoopState /\ Stored(loop[r], rows[r], audit[r])
      BY StoredFacts
    <3>2. \/ loop'[r] = loop[r]
          \/ loop'[r] = [loop[r] EXCEPT !.pc = "crashed"]
      BY <1>2 DEF Crash, CrashLoops
    <3>3. rows'[r] = rows[r] /\ audit'[r] = audit[r]
      BY <1>2 DEF Crash
    <3>4. loop'[r] = loop[r] \/ loop'[r].pc = "crashed"
      BY <3>1, <3>2 DEF LoopState
    <3> QED BY <3>1, <3>3, <3>4, StoredEnded
  <2> QED BY <2>1 DEF StoredInv
<1>3. CASE UNCHANGED loopVars
  BY <1>3 DEF loopVars, StoredInv
<1> QED BY <1>1, <1>2, <1>3 DEF LoopNext

\* Whatever happens to the other runs and wherever the process ends: the row and
\* the trail of a run whose statements were acknowledged tell its result when it
\* returns it (Run's seven statements).
THEOREM ResultsAreTold == LoopSpec => RowTellsTheResult
<1>1. LoopSpecInit => StoredInv
  <2> SUFFICES ASSUME LoopSpecInit, NEW r \in Requests
               PROVE  Stored(loop[r], rows[r], audit[r])
    BY DEF StoredInv
  <2>1. audit[r] = <<>> /\ loop[r].pc = "idle" /\ loop[r].lost = FALSE
    BY DEF LoopSpecInit, StoreInit, LoopInit, Idle
  <2> QED BY <2>1 DEF Stored, StoredRow, StoredTrail, InFlight, Persisted, Passing,
                      Fresh, Logging, Validating, Asking, Accepted
<1>2. LoopIInv /\ StoredInv /\ [LoopNext]_loopVars => StoredInv'
  BY StoredStep
<1>3. ASSUME LoopIInv, StoredInv, NEW r \in Requests,
             loop[r].pc \in Accepted, ~loop[r].lost
      PROVE  ResultIsStored(r)
  <2>1. /\ StoredRow(loop[r], rows[r]) /\ StoredTrail(loop[r], audit[r])
        /\ CountOK(r)
    BY <1>3, StoredFacts DEF Stored
  <2>2. CASE loop[r].pc = "passed"
    BY <2>1, <2>2 DEF StoredRow, StoredTrail, CountOK, Persisted, Passing, Accepted,
                      ResultIsStored
  <2>3. CASE loop[r].pc = "exhausted"
    BY <2>1, <2>3 DEF StoredRow, StoredTrail, CountOK, Persisted, GivingUp, Accepted,
                      ResultIsStored
  <2> QED BY <1>3, <2>2, <2>3 DEF Accepted
<1> DEFINE Told == \A r \in Requests :
                     loop[r].pc \in Accepted /\ ~loop[r].lost => ResultIsStored(r)
           Tells == \A r \in Requests :
                      loop[r].pc \notin Accepted /\ loop'[r].pc \in Accepted
                        /\ ~loop'[r].lost => ResultIsStored(r)'
<1>4. LoopIInv /\ StoredInv => Told
  BY <1>3
<1>5. Told' => [Tells]_loopVars
  BY DEF ResultIsStored
<1> HIDE DEF Told
<1> QED BY <1>1, <1>2, <1>4, <1>5, LoopInvariant, PTL DEF LoopSpec, RowTellsTheResult

-----------------------------------------------------------------------------
(* A run ends: no step of its goroutine leaves as many to take as before.    *)

LEMMA StepsTyped ==
    ASSUME RetriesAssumption, LoopIInv, NEW r \in Requests
    PROVE  /\ StepsOfRound(loop[r].pc) \in 0..12 /\ Budget - 1 - loop[r].asked \in Nat
           /\ StepsLeft(r) \in Nat
<1>1. loop[r].asked \in Nat /\ loop[r].asked <= Budget - 1
  BY DEF LoopIInv, LoopTypeOK, LoopState, GoroutineOK, CountOK
<1>2. Budget \in Nat
  BY DEF RetriesAssumption, Budget
<1>3. StepsOfRound(loop[r].pc) \in 0..12
  BY DEF StepsOfRound
<1>4. Budget - 1 - loop[r].asked \in Nat
  BY <1>1, <1>2
<1> QED BY <1>3, <1>4 DEF StepsLeft

\* Only the goroutine that steps counts down.
Fewer == \A q \in Requests : loop'[q] # loop[q] => StepsLeft(q)' < StepsLeft(q)

LEMMA FewerInRound ==
    ASSUME RetriesAssumption, LoopIInv, NEW r \in Requests, NEW l,
           loop' = [loop EXCEPT ![r] = l], l.asked = loop[r].asked,
           StepsOfRound(l.pc) < StepsOfRound(loop[r].pc)
    PROVE  Fewer
<1>1. loop \in [Requests -> LoopState]
  BY DEF LoopIInv, LoopTypeOK
<1>2. loop'[r] = l /\ \A q \in Requests \ {r} : loop'[q] = loop[q]
  BY <1>1
<1>3. StepsLeft(r)' < StepsLeft(r)
  <2>1. Budget' = Budget
    BY DEF Budget
  <2>2. StepsLeft(r)' = StepsOfRound(l.pc) + 6 * (Budget - 1 - loop[r].asked)
    BY <1>2, <2>1 DEF StepsLeft, StepsOfRound
  <2>3. StepsOfRound(l.pc) \in Nat
    BY DEF StepsOfRound
  <2> QED BY <2>2, <2>3, StepsTyped DEF StepsLeft
<1> QED BY <1>2, <1>3 DEF Fewer

\* The stations a step leads to, for the steps that only move on.
LEMMA FewerOn ==
    ASSUME RetriesAssumption, LoopIInv, NEW r \in Requests, NEW to,
           Go(r, to) \/ \E o : GoAnyway(r, to, o),
           StepsOfRound(to) < StepsOfRound(loop[r].pc)
    PROVE  Fewer
<1>1. loop \in [Requests -> LoopState]
  BY DEF LoopIInv, LoopTypeOK
<1>2. PICK l : loop' = [loop EXCEPT ![r] = l] /\ l.pc = to /\ l.asked = loop[r].asked
  BY <1>1, GoShape, AnywayShape
<1> QED BY <1>2, FewerInRound

LEMMA FewerByMoves ==
    ASSUME RetriesAssumption, LoopIInv, NEW r \in Requests,
           \/ \E o : \/ Start(r, o) \/ PersistPassed(r, o) \/ LogComplete(r, o)
                     \/ PersistFailed(r, o) \/ MarkFailed(r, o)
                     \/ LogExhausted(r, o) \/ LogAttempt(r, o)
           \/ GenerateFails(r) \/ CompleteFails(r) \/ StartScan(r)
    PROVE  Fewer
<1>1. PICK to : /\ Go(r, to) \/ \E o : GoAnyway(r, to, o)
                /\ StepsOfRound(to) < StepsOfRound(loop[r].pc)
  <2>1. ASSUME NEW o, Start(r, o)
        PROVE  \E to : Go(r, to) /\ StepsOfRound(to) < StepsOfRound(loop[r].pc)
    <3>1. PICK to \in {"generate", "error"} : Go(r, to)
      BY <2>1 DEF Start
    <3> QED BY <2>1, <3>1 DEF Start, At, StepsOfRound
  <2>2. ASSUME NEW o, \/ PersistPassed(r, o) \/ LogComplete(r, o) \/ PersistFailed(r, o)
                      \/ MarkFailed(r, o) \/ LogExhausted(r, o) \/ LogAttempt(r, o)
        PROVE  \E to : GoAnyway(r, to, o) /\ StepsOfRound(to) < StepsOfRound(loop[r].pc)
    BY <2>2 DEF PersistPassed, LogComplete, PersistFailed, MarkFailed, LogExhausted,
                LogAttempt, At, StepsOfRound
  <2>3. ASSUME GenerateFails(r) \/ CompleteFails(r) \/ StartScan(r)
        PROVE  \E to : Go(r, to) /\ StepsOfRound(to) < StepsOfRound(loop[r].pc)
    BY <2>3 DEF GenerateFails, CompleteFails, StartScan, At, StepsOfRound
  <2> QED BY <2>1, <2>2, <2>3
<1> QED BY <1>1, FewerOn

LEMMA FewerByAnswers ==
    ASSUME RetriesAssumption, LoopIInv, NEW r \in Requests,
           \/ \E h, o : Generate(r, h, o)
           \/ StartPlan(r) \/ PlanRefused(r) \/ PlanDeadline(r)
           \/ \E ok : PlanReturns(r, ok)
           \/ ScanReturns(r) \/ ScanFails(r)
    PROVE  Fewer
<1>1. loop[r] \in LoopState
  BY DEF LoopIInv, LoopTypeOK
<1>2. ASSUME NEW h, NEW o, Generate(r, h, o)
      PROVE  Fewer
  <2> DEFINE b == ~Acked(r, o)
             l == [loop[r] EXCEPT !.pc = "plan", !.hcl = h, !.lost = b]
  <2>1. loop' = [loop EXCEPT ![r] = l] /\ loop[r].pc = "generate"
    BY <1>2 DEF Generate, At
  <2> HIDE DEF b
  <2>2. l.pc = "plan" /\ l.asked = loop[r].asked
    BY <1>1 DEF LoopState
  <2> HIDE DEF l
  <2>3. StepsOfRound(l.pc) < StepsOfRound(loop[r].pc)
    BY <2>1, <2>2 DEF StepsOfRound
  <2> QED BY <2>1, <2>2, <2>3, FewerInRound
<1>3. CASE StartPlan(r)
  <2> DEFINE l == [loop[r] EXCEPT !.pc = "planning", !.tried = @ \union {loop[r].hcl}]
  <2>1. loop' = [loop EXCEPT ![r] = l] /\ loop[r].pc = "plan"
    BY <1>3 DEF StartPlan, At
  <2>2. l.pc = "planning" /\ l.asked = loop[r].asked
    BY <1>1 DEF LoopState
  <2> HIDE DEF l
  <2>3. StepsOfRound(l.pc) < StepsOfRound(loop[r].pc)
    BY <2>1, <2>2 DEF StepsOfRound
  <2> QED BY <2>1, <2>2, <2>3, FewerInRound
<1>4. CASE PlanRefused(r)
  <2> DEFINE l == [loop[r] EXCEPT !.pc = "check", !.planned = FALSE,
                                  !.tried = @ \union {loop[r].hcl}]
  <2>1. loop' = [loop EXCEPT ![r] = l] /\ loop[r].pc = "plan"
    BY <1>4 DEF PlanRefused, At
  <2>2. l.pc = "check" /\ l.asked = loop[r].asked
    BY <1>1 DEF LoopState
  <2> HIDE DEF l
  <2>3. StepsOfRound(l.pc) < StepsOfRound(loop[r].pc)
    BY <2>1, <2>2 DEF StepsOfRound
  <2> QED BY <2>1, <2>2, <2>3, FewerInRound
<1>5. ASSUME NEW ok, PlanReturns(r, ok) \/ (PlanDeadline(r) /\ ok = FALSE)
      PROVE  Fewer
  <2> DEFINE l == [loop[r] EXCEPT !.pc = "check", !.planned = ok]
  <2>1. loop' = [loop EXCEPT ![r] = l] /\ loop[r].pc = "planning"
    BY <1>5 DEF PlanReturns, PlanDeadline, At
  <2>2. l.pc = "check" /\ l.asked = loop[r].asked
    BY <1>1 DEF LoopState
  <2> HIDE DEF l
  <2>3. StepsOfRound(l.pc) < StepsOfRound(loop[r].pc)
    BY <2>1, <2>2 DEF StepsOfRound
  <2> QED BY <2>1, <2>2, <2>3, FewerInRound
<1>6. ASSUME NEW score, Judge(r, score), loop[r].pc \in {"check", "scanning"}
      PROVE  Fewer
  <2> DEFINE n == loop[r].attempts + 1
             passed == Validated(r, score)
             pc == IF passed THEN "persist_passed"
                   ELSE IF LastAttempt(n) THEN "persist_failed" ELSE "log_attempt"
             m == IF passed THEN loop[r].attempts ELSE n
             l == [loop[r] EXCEPT !.pc = pc, !.score = score, !.attempts = m]
  <2>1. loop' = [loop EXCEPT ![r] = l]
    BY <1>6 DEF Judge
  <2>2. pc \in {"persist_passed", "persist_failed", "log_attempt"}
    OBVIOUS
  <2> HIDE DEF m, pc
  <2>3. l.pc = pc /\ l.asked = loop[r].asked
    BY <1>1 DEF LoopState
  <2> HIDE DEF l
  <2>4. StepsOfRound(l.pc) < StepsOfRound(loop[r].pc)
    BY <1>6, <2>2, <2>3 DEF StepsOfRound
  <2> QED BY <2>1, <2>3, <2>4, FewerInRound
<1>7. CASE ScanReturns(r) \/ ScanFails(r)
  BY <1>6, <1>7 DEF ScanReturns, ScanFails, At
<1> QED BY <1>2, <1>3, <1>4, <1>5, <1>7

\* A correction starts a new round, and there is one less to ask for.
LEMMA FewerByComplete ==
    ASSUME RetriesAssumption, LoopIInv, NEW r \in Requests, NEW h, Complete(r, h)
    PROVE  Fewer
<1> DEFINE l == [loop[r] EXCEPT !.pc = "plan", !.hcl = h, !.asked = @ + 1]
<1>1. loop \in [Requests -> LoopState] /\ loop[r] \in LoopState /\ loop[r].asked \in Nat
  BY DEF LoopIInv, LoopTypeOK, LoopState
<1>2. loop' = [loop EXCEPT ![r] = l] /\ loop[r].pc = "complete"
  BY DEF Complete, At
<1>3. l.pc = "plan" /\ l.asked = loop[r].asked + 1
  BY <1>1 DEF LoopState
<1> HIDE DEF l
<1>4. loop'[r] = l /\ \A q \in Requests \ {r} : loop'[q] = loop[q]
  BY <1>1, <1>2
<1>5. StepsLeft(r)' < StepsLeft(r)
  <2>1. Budget' = Budget /\ Budget \in Nat
    BY DEF RetriesAssumption, Budget
  <2>2. StepsLeft(r)' = 10 + 6 * (Budget - 1 - (loop[r].asked + 1))
    BY <1>3, <1>4, <2>1 DEF StepsLeft, StepsOfRound
  <2>3. StepsLeft(r) = 5 + 6 * (Budget - 1 - loop[r].asked)
    BY <1>2 DEF StepsLeft, StepsOfRound
  <2> QED BY <1>1, <2>1, <2>2, <2>3
<1> QED BY <1>4, <1>5 DEF Fewer

LEMMA FewerByCrash ==
    ASSUME RetriesAssumption, LoopIInv, Crash
    PROVE  Fewer
<1> SUFFICES ASSUME NEW r \in Requests, loop'[r] # loop[r]
             PROVE  StepsLeft(r)' < StepsLeft(r)
  BY DEF Fewer
<1>1. loop[r] \in LoopState
  BY DEF LoopIInv, LoopTypeOK
<1>2. loop[r].pc \in InFlight /\ loop'[r] = [loop[r] EXCEPT !.pc = "crashed"]
  BY DEF Crash, CrashLoops
<1>3. loop'[r].pc = "crashed" /\ loop'[r].asked = loop[r].asked
  BY <1>1, <1>2 DEF LoopState
<1>4. Budget' = Budget
  BY DEF Budget
<1>5. StepsLeft(r)' = 0 + 6 * (Budget - 1 - loop[r].asked)
  BY <1>3, <1>4 DEF StepsLeft, StepsOfRound
<1>6. StepsOfRound(loop[r].pc) > 0
  BY <1>2 DEF StepsOfRound, InFlight
<1> QED BY <1>5, <1>6, StepsTyped DEF StepsLeft

\* For every MaxRetries: a run takes at most six steps for each correction in its
\* budget and twelve more, whatever the model, the tools and the database do
\* (Run's for loop; with the deadlines, why it returns).
THEOREM RunsAreFinite == LoopSpec => EveryStepLeavesFewer
<1>1. ASSUME LoopIInv, LoopNext
      PROVE  Fewer
  BY <1>1, RetriesAssumption, FewerByMoves, FewerByAnswers, FewerByComplete, FewerByCrash
  DEF LoopNext, LoopStep, OwnStep, DatabaseStep, ModelStep
<1> DEFINE Typed == \A r \in Requests : StepsLeft(r) \in Nat
           Counts == \A r \in Requests :
                       loop'[r] # loop[r] => /\ StepsLeft(r)' \in Nat
                                             /\ StepsLeft(r)' < StepsLeft(r)
<1>2. LoopIInv => Typed
  BY RetriesAssumption, StepsTyped
<1>3. LoopIInv /\ Typed' /\ [LoopNext]_loopVars => [Counts]_loopVars
  BY <1>1 DEF Fewer
<1> HIDE DEF Typed
<1> QED BY <1>2, <1>3, LoopInvariant, PTL DEF LoopSpec, EveryStepLeavesFewer

-----------------------------------------------------------------------------
(* The run implements its contract: each step of a goroutine is a step of   *)
(* LoopContract on the same request, or changes nothing of it.              *)

phaseMap == [r \in Requests |-> Phase(r)]
textsMap == [r \in Requests |-> Texts(r)]

\* A step of r's goroutine moves r only.
LEMMA MapFrame ==
    ASSUME NEW r \in Requests, NEW l, loop \in [Requests -> LoopState],
           loop' = [loop EXCEPT ![r] = l]
    PROVE  /\ phaseMap' = [phaseMap EXCEPT ![r] = Phase(r)']
           /\ textsMap' = [textsMap EXCEPT ![r] = Texts(r)']
<1>1. ASSUME NEW q \in Requests, q # r
      PROVE  Phase(q)' = Phase(q) /\ Texts(q)' = Texts(q)
  <2>1. loop'[q] = loop[q]
    BY <1>1
  <2> QED BY <2>1 DEF Phase, Texts
<1> QED BY <1>1 DEF phaseMap, textsMap

\* A step between two pcs where the request counts as worked on, with the same
\* candidate, is no step of the contract.
LEMMA StillWorking ==
    ASSUME NEW r \in Requests, NEW l, loop \in [Requests -> LoopState],
           loop' = [loop EXCEPT ![r] = l],
           loop[r].pc \in InFlight, l.pc \in InFlight,
           l.hcl = loop[r].hcl, l.asked = loop[r].asked
    PROVE  UNCHANGED <<phaseMap, textsMap>>
<1>1. loop'[r] = l
  OBVIOUS
<1>2. Phase(r) = "working" /\ Phase(r)' = "working"
  BY <1>1 DEF Phase, InFlight
<1>3. Texts(r)' = Texts(r)
  BY <1>1 DEF Texts
<1>4. phaseMap[r] = Phase(r) /\ textsMap[r] = Texts(r)
  BY DEF phaseMap, textsMap
<1> QED BY <1>2, <1>3, <1>4, MapFrame DEF phaseMap, textsMap

\* A step that moves on, whether or not it takes note of a lost statement.
Moves(r, to) == Go(r, to) \/ \E o : GoAnyway(r, to, o)

LEMMA MoveShape ==
    ASSUME NEW r \in Requests, NEW to, loop \in [Requests -> LoopState], Moves(r, to)
    PROVE  \E l : /\ loop' = [loop EXCEPT ![r] = l]
                  /\ l.pc = to /\ l.hcl = loop[r].hcl /\ l.asked = loop[r].asked
<1>1. loop[r] \in LoopState
  OBVIOUS
<1>2. CASE Go(r, to)
  <2> DEFINE l == [loop[r] EXCEPT !.pc = to]
  <2>1. loop' = [loop EXCEPT ![r] = l]
    BY <1>2 DEF Go
  <2>2. l.pc = to /\ l.hcl = loop[r].hcl /\ l.asked = loop[r].asked
    BY <1>1 DEF LoopState
  <2> HIDE DEF l
  <2> QED BY <2>1, <2>2
<1>3. ASSUME NEW o, GoAnyway(r, to, o)
      PROVE  \E l : /\ loop' = [loop EXCEPT ![r] = l]
                    /\ l.pc = to /\ l.hcl = loop[r].hcl /\ l.asked = loop[r].asked
  <2> DEFINE b == loop[r].lost \/ ~Acked(r, o)
             l == [loop[r] EXCEPT !.pc = to, !.lost = b]
  <2>1. loop' = [loop EXCEPT ![r] = l]
    BY <1>3 DEF GoAnyway
  <2> HIDE DEF b
  <2>2. l.pc = to /\ l.hcl = loop[r].hcl /\ l.asked = loop[r].asked
    BY <1>1 DEF LoopState
  <2> HIDE DEF l
  <2> QED BY <2>1, <2>2
<1> QED BY <1>2, <1>3 DEF Moves

LEMMA MoveOn ==
    ASSUME NEW r \in Requests, NEW to, loop \in [Requests -> LoopState], Moves(r, to)
    PROVE  /\ loop'[r].pc = to
           /\ phaseMap[r] = Phase(r) /\ textsMap[r] = Texts(r)
           /\ phaseMap' = [phaseMap EXCEPT ![r] = Phase(r)']
           /\ UNCHANGED textsMap
<1>1. PICK l : /\ loop' = [loop EXCEPT ![r] = l]
               /\ l.pc = to /\ l.hcl = loop[r].hcl /\ l.asked = loop[r].asked
  BY MoveShape
<1>2. loop'[r] = l
  BY <1>1
<1>3. l.pc = to /\ l.hcl = loop[r].hcl /\ l.asked = loop[r].asked
  BY <1>1
<1>4. Texts(r)' = Texts(r)
  BY <1>2, <1>3 DEF Texts
<1>5. textsMap' = [textsMap EXCEPT ![r] = Texts(r)'] /\ phaseMap' = [phaseMap EXCEPT ![r] = Phase(r)']
  BY <1>1, MapFrame
<1>6. phaseMap[r] = Phase(r) /\ textsMap[r] = Texts(r)
  BY DEF phaseMap, textsMap
<1> QED BY <1>2, <1>3, <1>4, <1>5, <1>6 DEF textsMap

\* A step that changes the pc only, and not to an end.
LEMMA MoveWithin ==
    ASSUME NEW r \in Requests, NEW to \in InFlight, loop \in [Requests -> LoopState],
           loop[r].pc \in InFlight, Moves(r, to)
    PROVE  UNCHANGED <<phaseMap, textsMap>>
<1>1. Phase(r) = "working" /\ Phase(r)' = "working"
  BY MoveOn DEF Phase, InFlight
<1> QED BY <1>1, MoveOn DEF phaseMap

\* The steps of the contract, on the mapped state.
LEMMA Contracted ==
    ASSUME NEW r \in Requests,
           \/ Contract!Open(r) \/ Contract!Work(r) \/ Contract!Abort(r)
           \/ UNCHANGED <<phaseMap, textsMap>>
    PROVE  [Contract!ContractNext]_(Contract!contractVars)
BY DEF Contract!ContractNext, Contract!contractVars, phaseMap, textsMap

LEMMA EndsByError ==
    ASSUME NEW r \in Requests, loop \in [Requests -> LoopState],
           loop[r].pc \in InFlight \union {"idle"}, Moves(r, "error")
    PROVE  Contract!Abort(r)
<1>1. Phase(r) \in {"none", "working"} /\ Phase(r)' = "aborted"
  BY MoveOn DEF Phase, InFlight
<1> QED BY <1>1, MoveOn DEF Contract!Abort, phaseMap, textsMap

\* The model's answers, and the two ways Run returns a result.
LEMMA GenerateAsks ==
    ASSUME DataAssumption, LoopIInv, NEW r \in Requests, NEW h \in HCL, NEW o,
           RetriesAssumption, Generate(r, h, o)
    PROVE  Contract!Ask(r)
<1> DEFINE b == ~Acked(r, o)
           l == [loop[r] EXCEPT !.pc = "plan", !.hcl = h, !.lost = b]
<1>0. loop \in [Requests -> LoopState] /\ loop[r] \in LoopState /\ TextOK(r) /\ CountOK(r)
  BY DEF LoopIInv, LoopTypeOK, GoroutineOK
<1>1. loop' = [loop EXCEPT ![r] = l]
  BY DEF Generate
<1> HIDE DEF b
<1>2. loop'[r] = l /\ l.pc = "plan" /\ l.hcl = h /\ l.asked = loop[r].asked
  BY <1>0, <1>1 DEF LoopState
<1>3. loop[r].pc = "generate" /\ loop[r].hcl = NoHCL /\ loop[r].asked = 0
  BY <1>0 DEF Generate, At, TextOK, CountOK, Fresh
<1>4. Phase(r) = "working" /\ Phase(r)' = "working"
  BY <1>2, <1>3 DEF Phase
<1>5. Texts(r) = 0 /\ Texts(r)' = Texts(r) + 1 /\ 0 < Budget
  BY <1>2, <1>3 DEF Texts, DataAssumption, Budget, RetriesAssumption
<1>6. /\ phaseMap' = [phaseMap EXCEPT ![r] = Phase(r)']
      /\ textsMap' = [textsMap EXCEPT ![r] = Texts(r)']
      /\ phaseMap[r] = Phase(r) /\ textsMap[r] = Texts(r)
  BY <1>0, <1>1, MapFrame DEF phaseMap, textsMap
<1>7. textsMap' = [textsMap EXCEPT ![r] = textsMap[r] + 1] /\ phaseMap' = phaseMap
  BY <1>4, <1>5, <1>6 DEF phaseMap
<1> QED BY <1>4, <1>5, <1>6, <1>7 DEF Contract!Ask, phaseMap, textsMap

LEMMA CompleteAsks ==
    ASSUME DataAssumption, LoopIInv, NEW r \in Requests, NEW h \in HCL,
           RetriesAssumption, Complete(r, h)
    PROVE  Contract!Ask(r)
<1> DEFINE l == [loop[r] EXCEPT !.pc = "plan", !.hcl = h, !.asked = @ + 1]
<1>0. loop \in [Requests -> LoopState] /\ loop[r] \in LoopState /\ TextOK(r) /\ CountOK(r)
  BY DEF LoopIInv, LoopTypeOK, GoroutineOK
<1>1. loop' = [loop EXCEPT ![r] = l]
  BY DEF Complete
<1>2. loop'[r] = l /\ l.pc = "plan" /\ l.hcl = h /\ l.asked = loop[r].asked + 1
  BY <1>0, <1>1 DEF LoopState
<1>3. /\ loop[r].pc = "complete" /\ loop[r].hcl \in HCL
      /\ loop[r].asked \in Nat /\ loop[r].asked + 1 < MaxRetries
  BY <1>0 DEF Complete, At, TextOK, CountOK, Asking, LoopState
<1>4. Phase(r) = "working" /\ Phase(r)' = "working"
  BY <1>2, <1>3 DEF Phase
<1>5. /\ Texts(r) = loop[r].asked + 1 /\ Texts(r)' = Texts(r) + 1
      /\ Texts(r) < Budget
  BY <1>2, <1>3 DEF Texts, DataAssumption, Budget, RetriesAssumption
<1>6. /\ phaseMap' = [phaseMap EXCEPT ![r] = Phase(r)']
      /\ textsMap' = [textsMap EXCEPT ![r] = Texts(r)']
      /\ phaseMap[r] = Phase(r) /\ textsMap[r] = Texts(r)
  BY <1>0, <1>1, MapFrame DEF phaseMap, textsMap
<1>7. textsMap' = [textsMap EXCEPT ![r] = textsMap[r] + 1] /\ phaseMap' = phaseMap
  BY <1>4, <1>5, <1>6 DEF phaseMap
<1> QED BY <1>4, <1>5, <1>6, <1>7 DEF Contract!Ask, phaseMap, textsMap

LEMMA ResultEnds ==
    ASSUME DataAssumption, LoopIInv, RetriesAssumption, NEW r \in Requests, NEW o,
           LogComplete(r, o) \/ LogExhausted(r, o)
    PROVE  Contract!Finish(r) \/ Contract!GiveUp(r)
<1>0. /\ loop \in [Requests -> LoopState] /\ loop[r].asked \in Nat
      /\ TextOK(r) /\ CountOK(r)
  BY DEF LoopIInv, LoopTypeOK, GoroutineOK, LoopState
<1>1. CASE LogComplete(r, o)
  <2>1. loop[r].pc = "log_complete" /\ Moves(r, "passed") /\ loop[r].hcl # NoHCL
    BY <1>0, <1>1 DEF Moves, LogComplete, At, TextOK, Passing, DataAssumption
  <2>2. Phase(r) = "working" /\ Phase(r)' = "ready" /\ Texts(r) > 0
    BY <1>0, <2>1, MoveOn DEF Phase, Texts
  <2> QED BY <1>0, <2>1, <2>2, MoveOn DEF Contract!Finish, phaseMap, textsMap
<1>2. CASE LogExhausted(r, o)
  <2>1. /\ loop[r].pc = "log_exhausted" /\ Moves(r, "exhausted") /\ loop[r].hcl # NoHCL
        /\ loop[r].asked + 1 >= MaxRetries /\ loop[r].asked <= Budget - 1
    BY <1>0, <1>2 DEF Moves, LogExhausted, At, TextOK, CountOK, GivingUp, DataAssumption
  <2>2. Phase(r) = "working" /\ Phase(r)' = "exhausted"
    BY <1>0, <2>1, MoveOn DEF Phase
  <2>3. Texts(r) = Budget
    BY <1>0, <2>1 DEF Texts, Budget, RetriesAssumption
  <2> QED BY <1>0, <2>1, <2>2, <2>3, MoveOn DEF Contract!GiveUp, phaseMap, textsMap
<1> QED BY <1>1, <1>2

-----------------------------------------------------------------------------
\* Every step of a goroutine is a step of the contract or invisible to it.
LEMMA StepImplements ==
    ASSUME DataAssumption, RetriesAssumption, LoopIInv, NEW r \in Requests,
           LoopStep(r)
    PROVE  \/ Contract!Open(r) \/ Contract!Work(r) \/ Contract!Abort(r)
           \/ UNCHANGED <<phaseMap, textsMap>>
<1>0. loop \in [Requests -> LoopState] /\ loop[r] \in LoopState
  BY DEF LoopIInv, LoopTypeOK
<1>1. ASSUME NEW o \in Outcomes, Start(r, o)
      PROVE  Contract!Open(r) \/ Contract!Abort(r)
  <2>1. CASE o = "ok"
    <3>1. loop[r].pc = "idle" /\ Moves(r, "generate")
      BY <1>1, <2>1 DEF Moves, Start, At
    <3>2. Phase(r) = "none" /\ Phase(r)' = "working"
      BY <1>0, <3>1, MoveOn DEF Phase
    <3> QED BY <1>0, <3>1, <3>2, MoveOn DEF Contract!Open, phaseMap, textsMap
  <2>2. CASE o # "ok"
    BY <1>0, <1>1, <2>2, EndsByError DEF Moves, Start, At
  <2> QED BY <2>1, <2>2
<1>2. ASSUME NEW h \in HCL, NEW o \in Outcomes, Generate(r, h, o)
      PROVE  Contract!Work(r)
  BY <1>2, GenerateAsks DEF Contract!Work
<1>3. ASSUME NEW h \in HCL, Complete(r, h)
      PROVE  Contract!Work(r)
  BY <1>3, CompleteAsks DEF Contract!Work
<1>4. ASSUME NEW o \in Outcomes, LogComplete(r, o) \/ LogExhausted(r, o)
      PROVE  Contract!Work(r)
  BY <1>4, ResultEnds DEF Contract!Work
<1>5. CASE GenerateFails(r) \/ CompleteFails(r)
  BY <1>0, <1>5, EndsByError DEF Moves, GenerateFails, CompleteFails, At, InFlight
<1>6. ASSUME NEW o \in Outcomes,
             \/ PersistPassed(r, o) \/ PersistFailed(r, o) \/ MarkFailed(r, o)
             \/ LogAttempt(r, o)
      PROVE  UNCHANGED <<phaseMap, textsMap>>
  BY <1>0, <1>6, MoveWithin DEF PersistPassed, PersistFailed, MarkFailed,
                                Moves, LogAttempt, At, InFlight
<1>7. CASE StartPlan(r)
  <2> DEFINE l == [loop[r] EXCEPT !.pc = "planning", !.tried = @ \union {loop[r].hcl}]
  <2>1. loop' = [loop EXCEPT ![r] = l] /\ loop[r].pc \in InFlight
    BY <1>7 DEF StartPlan, At, InFlight
  <2>2. l.pc \in InFlight /\ l.hcl = loop[r].hcl /\ l.asked = loop[r].asked
    BY <1>0 DEF LoopState, InFlight
  <2> HIDE DEF l
  <2> QED BY <1>0, <2>1, <2>2, StillWorking
<1>8. CASE PlanRefused(r)
  <2> DEFINE l == [loop[r] EXCEPT !.pc = "check", !.planned = FALSE,
                                  !.tried = @ \union {loop[r].hcl}]
  <2>1. loop' = [loop EXCEPT ![r] = l] /\ loop[r].pc \in InFlight
    BY <1>8 DEF PlanRefused, At, InFlight
  <2>2. l.pc \in InFlight /\ l.hcl = loop[r].hcl /\ l.asked = loop[r].asked
    BY <1>0 DEF LoopState, InFlight
  <2> HIDE DEF l
  <2> QED BY <1>0, <2>1, <2>2, StillWorking
<1>9. ASSUME NEW ok \in BOOLEAN, PlanReturns(r, ok) \/ (PlanDeadline(r) /\ ~ok)
      PROVE  UNCHANGED <<phaseMap, textsMap>>
  <2> DEFINE l == [loop[r] EXCEPT !.pc = "check", !.planned = ok]
  <2>0. ~ok => ok = FALSE
    OBVIOUS
  <2>1. loop' = [loop EXCEPT ![r] = l] /\ loop[r].pc \in InFlight
    BY <1>9, <2>0 DEF PlanReturns, PlanDeadline, At, InFlight
  <2>2. l.pc \in InFlight /\ l.hcl = loop[r].hcl /\ l.asked = loop[r].asked
    BY <1>0 DEF LoopState, InFlight
  <2> HIDE DEF l
  <2> QED BY <1>0, <2>1, <2>2, StillWorking
<1>10. CASE StartScan(r)
  BY <1>0, <1>10, MoveWithin DEF Moves, StartScan, At, InFlight
<1>11. ASSUME NEW score, Judge(r, score), loop[r].pc \in InFlight
       PROVE  UNCHANGED <<phaseMap, textsMap>>
  <2> DEFINE n == loop[r].attempts + 1
             passed == Validated(r, score)
             pc == IF passed THEN "persist_passed"
                   ELSE IF LastAttempt(n) THEN "persist_failed" ELSE "log_attempt"
             m == IF passed THEN loop[r].attempts ELSE n
             l == [loop[r] EXCEPT !.pc = pc, !.score = score, !.attempts = m]
  <2>1. loop' = [loop EXCEPT ![r] = l]
    BY <1>11 DEF Judge
  <2>2. pc \in InFlight
    BY DEF InFlight
  <2>3. l.pc = pc /\ l.hcl = loop[r].hcl /\ l.asked = loop[r].asked
    <3> HIDE DEF pc, m
    <3> QED BY <1>0 DEF LoopState
  <2> HIDE DEF l, pc
  <2> QED BY <1>0, <1>11, <2>1, <2>2, <2>3, StillWorking
<1>12. CASE ScanReturns(r) \/ ScanFails(r)
  BY <1>11, <1>12 DEF ScanReturns, ScanFails, At, InFlight
<1> QED BY <1>1, <1>2, <1>3, <1>4, <1>5, <1>6, <1>7, <1>8, <1>9, <1>10, <1>12
        DEF LoopStep, OwnStep, DatabaseStep, ModelStep

\* Run keeps the contract for every set of requests and texts, every MaxRetries,
\* and whatever the database, the tools and the process do.
THEOREM ContractKept == LoopSpec => KeepsItsContract
<1>1. LoopSpecInit => Contract!ContractInit
  BY DEF LoopSpecInit, LoopInit, Contract!ContractInit, Phase, Texts, Idle
<1>2. LoopIInv /\ [LoopNext]_loopVars => [Contract!ContractNext]_(Contract!contractVars)
  <2> SUFFICES ASSUME LoopIInv, [LoopNext]_loopVars
               PROVE  [Contract!ContractNext]_(Contract!contractVars)
    OBVIOUS
  <2>1. ASSUME NEW r \in Requests, LoopStep(r)
        PROVE  [Contract!ContractNext]_(Contract!contractVars)
    BY <2>1, StepImplements, Contracted, DataAssumption, RetriesAssumption
  <2>2. CASE Crash
    <3>1. ASSUME NEW r \in Requests
          PROVE  /\ Phase(r)' = IF Phase(r) = "working" THEN "aborted" ELSE Phase(r)
                 /\ Texts(r)' = Texts(r)
      <4>1. loop[r] \in LoopState
        BY DEF LoopIInv, LoopTypeOK
      <4>2. loop'[r] = IF loop[r].pc \in InFlight
                       THEN [loop[r] EXCEPT !.pc = "crashed"] ELSE loop[r]
        BY <2>2 DEF Crash, CrashLoops
      <4>3. loop[r].pc \in InFlight <=> Phase(r) = "working"
        BY <4>1 DEF Phase, LoopState, InFlight, Ended, Accepted
      <4>4. Texts(r)' = Texts(r)
        BY <4>1, <4>2 DEF Texts, LoopState
      <4>5. Phase(r)' = IF Phase(r) = "working" THEN "aborted" ELSE Phase(r)
        BY <4>1, <4>2, <4>3 DEF Phase, LoopState
      <4> QED BY <4>4, <4>5
    <3> QED BY <3>1 DEF Contract!ContractNext, Contract!AbortAll
  <2>3. CASE UNCHANGED loopVars
    BY <2>3 DEF loopVars, Contract!contractVars, Phase, Texts
  <2> QED BY <2>1, <2>2, <2>3 DEF LoopNext
<1> QED BY <1>1, <1>2, LoopInvariant, PTL DEF LoopSpec, KeepsItsContract, Contract!ContractSpec
=============================================================================
