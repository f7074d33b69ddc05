-------------------------- MODULE ToolOutputProofs --------------------------
(***************************************************************************)
(* What is made of the output of the two tools: RunCheckov's verdict on a  *)
(* request's directory, for any texts and any number of attempts, and      *)
(* parsePlanJSON's counts for any output of terraform.       *)
(***************************************************************************)
EXTENDS CheckovTally, PlanOutput, CheckovScoreProofs, FiniteSetTheorems,
        SequenceTheorems

(* RunCheckov.                                                               *)

\* The verdict on the run directories alone, and on them with a text on top.
RunsPass(r) == Passes(ws[r].passed, ws[r].failed)
PassesUnder(r, h) ==
    Passes(ws[r].passed + Report[h].passed, ws[r].failed + Report[h].failed)

\* As long as nothing but failing texts came since a failing result, it would
\* be that again, and without its main.tf too, unless that was what failed.
StillFails(r) ==
    ~result[r].passed /\ (\A h \in since[r] : ~Alone(h)) =>
        /\ top[r] = NoHCL \/ top[r] \in since[r] \/ Alone(top[r]) => ~RunsPass(r)
        /\ top[r] # NoHCL => ~PassesUnder(r, top[r])

StillPasses(r) ==
    result[r].passed /\ (\A h \in since[r] : Alone(h)) =>
        /\ top[r] # NoHCL /\ PassesUnder(r, top[r])
        /\ top[r] \in since[r] \/ ~Alone(top[r]) => RunsPass(r)

RoundOK(r) ==
    /\ round[r].pc = "check" => round[r].hcl \in HCL
    /\ result[r] = Result(result[r].passedChecks, result[r].failedChecks)
    /\ StillFails(r) /\ StillPasses(r)

IInv == TypeOK /\ \A r \in Requests : RoundOK(r)

LEMMA ResultType ==
    ASSUME NEW p \in Nat, NEW f \in Nat
    PROVE  Result(p, f) \in [passedChecks : Nat, failedChecks : Nat,
                             score : 0..100, passed : BOOLEAN]
<1>1. Score(p, f) \in 0..100
  BY ScoreType
<1>2. Passes(p, f) \in BOOLEAN
  BY DEF Passes
<1> QED BY <1>1, <1>2 DEF Result

LEMMA ReportType ==
    ASSUME NEW h \in HCL
    PROVE  h # NoHCL /\ Report[h].passed \in Nat /\ Report[h].failed \in Nat
BY DataAssumption

LEMMA WorkspaceFacts ==
    ASSUME TypeOK, NEW r \in Requests
    PROVE  /\ ws \in [Requests -> WorkspaceState] /\ ws[r] \in WorkspaceState
           /\ ws[r].passed \in Nat /\ ws[r].failed \in Nat
           /\ top[r] \in HCL \union {NoHCL} /\ since[r] \subseteq HCL
BY DEF TypeOK, WorkspaceState, HCLOrNone

\* A text that is scanned with other files.
LEMMA PoolText ==
    ASSUME NEW h \in HCL, NEW p \in Nat, NEW f \in Nat
    PROVE  /\ ~Passes(p, f) /\ ~Alone(h) =>
                 ~Passes(p + Report[h].passed, f + Report[h].failed)
           /\ Passes(p, f) /\ Alone(h) =>
                 Passes(p + Report[h].passed, f + Report[h].failed)
<1>1. PICK q \in Nat, g \in Nat : q = Report[h].passed /\ g = Report[h].failed
  BY ReportType
<1>2. Passes(p + q, f + g) => Passes(p, f) \/ Passes(q, g)
  BY PoolingFailures
<1>3. Passes(p, f) /\ Passes(q, g) => Passes(p + q, f + g)
  BY PoolingPasses
<1> QED BY <1>1, <1>2, <1>3 DEF Alone

LEMMA InitRoundOK ==
    ASSUME Init
    PROVE  IInv
<1>1. TypeOK
  <2>1. ws \in [Requests -> WorkspaceState]
    BY DEF Init, WorkspaceInit, NoWorkspace, WorkspaceState, HCLOrNone
  <2>2. round \in [Requests -> Rounds]
    BY TallyAssumption DEF Init, Rounds, HCLOrNone, TallyAssumption
  <2>3. result \in [Requests -> [passedChecks : Nat, failedChecks : Nat,
                                 score : 0..100, passed : BOOLEAN]]
    BY ResultType DEF Init
  <2> QED BY <2>1, <2>2, <2>3 DEF Init, TypeOK, HCLOrNone
<1>2. ASSUME NEW r \in Requests
      PROVE  RoundOK(r)
  <2>1. ~Passes(0, 0)
    BY DEF Passes, Score, Threshold
  <2>2. ws[r].passed = 0 /\ ws[r].failed = 0
    BY DEF Init, WorkspaceInit, NoWorkspace
  <2>3. result[r] = Result(0, 0) /\ top[r] = NoHCL /\ round[r].pc = "plan"
    BY DEF Init
  <2>4. result[r].passedChecks = 0 /\ result[r].failedChecks = 0 /\ ~result[r].passed
    BY <2>1, <2>3 DEF Result
  <2> QED BY <2>1, <2>2, <2>3, <2>4 DEF RoundOK, StillFails, StillPasses, RunsPass
<1> QED BY <1>1, <1>2 DEF IInv

\* A request whose files, result and history are left alone.
LEMMA RoundKept ==
    ASSUME NEW r \in Requests, RoundOK(r),
           ws'[r].passed = ws[r].passed, ws'[r].failed = ws[r].failed,
           result'[r] = result[r], top'[r] = top[r], since'[r] = since[r],
           round'[r].pc = "check" => round'[r].hcl \in HCL
    PROVE  RoundOK(r)'
BY DEF RoundOK, StillFails, StillPasses, RunsPass, PassesUnder

LEMMA PlanRoundOK ==
    ASSUME IInv, NEW r \in Requests, NEW h \in HCL, RunTerraformPlan(r, h)
    PROVE  IInv'
<1> DEFINE w == [ws[r] EXCEPT !.exists = TRUE, !.passed = @ + Report[h].passed,
                              !.failed = @ + Report[h].failed]
<1>1. /\ ws' = [ws EXCEPT ![r] = w]
      /\ round' = [round EXCEPT ![r].pc = "check", ![r].hcl = h, ![r].runs = @ + 1]
      /\ since' = [since EXCEPT ![r] = @ \union {h}]
      /\ UNCHANGED <<result, top>> /\ round[r].runs < MaxRuns
  BY DEF RunTerraformPlan, Called, WriteRunDir
<1>2. TypeOK
  BY DEF IInv
<1>3. w \in WorkspaceState /\ w.passed = ws[r].passed + Report[h].passed
      /\ w.failed = ws[r].failed + Report[h].failed
  <2>1. ws[r].passed + Report[h].passed \in Nat /\ ws[r].failed + Report[h].failed \in Nat
    BY <1>2, WorkspaceFacts, ReportType
  <2>2. ws[r] \in WorkspaceState
    BY <1>2, WorkspaceFacts
  <2> QED BY <2>1, <2>2 DEF WorkspaceState
<1> HIDE DEF w
<1>4. TypeOK'
  <2>1. ws' \in [Requests -> WorkspaceState]
    BY <1>1, <1>2, <1>3 DEF TypeOK
  <2>2. round' \in [Requests -> Rounds]
    BY <1>1, <1>2, TallyAssumption DEF TypeOK, Rounds, HCLOrNone, TallyAssumption
  <2>3. since' \in [Requests -> SUBSET HCL]
    BY <1>1, <1>2 DEF TypeOK
  <2> QED BY <1>1, <1>2, <2>1, <2>2, <2>3 DEF TypeOK
<1>5. ASSUME NEW q \in Requests, q # r
      PROVE  RoundOK(q)'
  <2>1. /\ ws'[q] = ws[q] /\ round'[q] = round[q] /\ since'[q] = since[q]
        /\ result'[q] = result[q] /\ top'[q] = top[q]
    BY <1>1, <1>2, <1>5 DEF TypeOK
  <2>2. RoundOK(q)
    BY DEF IInv
  <2> QED BY <2>1, <2>2, RoundKept DEF RoundOK
<1>6. RoundOK(r)'
  <2>1. /\ ws'[r].passed = ws[r].passed + Report[h].passed
        /\ ws'[r].failed = ws[r].failed + Report[h].failed
        /\ round'[r].hcl = h /\ since'[r] = since[r] \union {h}
        /\ result'[r] = result[r] /\ top'[r] = top[r]
    BY <1>1, <1>2, <1>3 DEF TypeOK, Rounds
  <2>2. RoundOK(r)
    BY DEF IInv
  <2>3. RunsPass(r)' <=> PassesUnder(r, h)
    BY <2>1 DEF RunsPass, PassesUnder
  <2>4. /\ ~RunsPass(r) /\ ~Alone(h) => ~PassesUnder(r, h)
        /\ RunsPass(r) /\ Alone(h) => PassesUnder(r, h)
    BY <1>2, WorkspaceFacts, PoolText DEF RunsPass, PassesUnder
  <2>5. ASSUME top[r] # NoHCL
        PROVE  /\ ~PassesUnder(r, top[r]) /\ ~Alone(h) => ~PassesUnder(r, top[r])'
               /\ PassesUnder(r, top[r]) /\ Alone(h) => PassesUnder(r, top[r])'
    <3>1. PICK t \in HCL : t = top[r] /\ t = top'[r]
      BY <1>2, <2>1, <2>5, WorkspaceFacts
    <3>2. /\ ws[r].passed \in Nat /\ ws[r].failed \in Nat
          /\ Report[t].passed \in Nat /\ Report[t].failed \in Nat
          /\ Report[h].passed \in Nat /\ Report[h].failed \in Nat
      BY <1>2, WorkspaceFacts, ReportType
    <3> DEFINE p == ws[r].passed + Report[t].passed
               f == ws[r].failed + Report[t].failed
    <3>3. p \in Nat /\ f \in Nat
      BY <3>2
    <3>4. /\ ws'[r].passed + Report[t].passed = p + Report[h].passed
          /\ ws'[r].failed + Report[t].failed = f + Report[h].failed
      BY <2>1, <3>2
    <3>5. PassesUnder(r, top[r]) <=> Passes(p, f)
      BY <3>1 DEF PassesUnder
    <3>6. PassesUnder(r, top[r])' <=> Passes(p + Report[h].passed, f + Report[h].failed)
      BY <3>1, <3>4 DEF PassesUnder
    <3> HIDE DEF p, f
    <3> QED BY <3>3, <3>5, <3>6, PoolText
  <2>6. StillFails(r)'
    <3> SUFFICES ASSUME ~result[r].passed, \A k \in since[r] \union {h} : ~Alone(k)
                 PROVE  /\ \/ top[r] = NoHCL \/ top[r] \in since[r] \union {h}
                           \/ Alone(top[r])
                           => ~RunsPass(r)'
                        /\ top[r] # NoHCL => ~PassesUnder(r, top[r])'
      BY <2>1 DEF StillFails, Alone
    <3> QED BY <2>2, <2>3, <2>4, <2>5 DEF RoundOK, StillFails
  <2>7. StillPasses(r)'
    <3> SUFFICES ASSUME result[r].passed, \A k \in since[r] \union {h} : Alone(k)
                 PROVE  /\ top[r] # NoHCL /\ PassesUnder(r, top[r])'
                        /\ top[r] \in since[r] \union {h} \/ ~Alone(top[r])
                           => RunsPass(r)'
      BY <2>1 DEF StillPasses, Alone
    <3> QED BY <2>2, <2>3, <2>4, <2>5 DEF RoundOK, StillPasses
  <2>8. result'[r] = Result(result'[r].passedChecks, result'[r].failedChecks)
    BY <2>1, <2>2 DEF RoundOK
  <2> QED BY <2>1, <2>6, <2>7, <2>8 DEF RoundOK
<1> QED BY <1>4, <1>5, <1>6 DEF IInv

LEMMA RefusedRoundOK ==
    ASSUME IInv, NEW r \in Requests,
           (\E h \in HCL : PlanRefused(r, h)) \/ CheckovFails(r)
    PROVE  IInv'
<1>1. /\ UNCHANGED <<result, top, since>>
      /\ ws' \in {ws, [ws EXCEPT ![r].exists = TRUE, ![r].main = round[r].hcl]}
      /\ \/ \E h \in HCL :
              /\ round' = [round EXCEPT ![r].pc = "check", ![r].hcl = h,
                                        ![r].runs = @ + 1]
              /\ round[r].runs < MaxRuns
         \/ round[r].pc = "check" /\ round' = [round EXCEPT ![r].pc = "plan"]
      /\ round[r].pc = "check" \/ ws' = ws
  BY DEF PlanRefused, Called, CheckovFails, Judged, WriteMain
<1>2. TypeOK /\ \A q \in Requests : RoundOK(q)
  BY DEF IInv
<1>3. round[r].pc = "check" => round[r].hcl \in HCL
  BY <1>2 DEF RoundOK
<1>4. /\ round' \in [Requests -> Rounds]
      /\ \A q \in Requests : round'[q].pc = "check" => round'[q].hcl \in HCL
  <2>1. ASSUME NEW h \in HCL, round[r].runs < MaxRuns,
               round' = [round EXCEPT ![r].pc = "check", ![r].hcl = h, ![r].runs = @ + 1]
        PROVE  /\ round' \in [Requests -> Rounds]
               /\ \A q \in Requests : round'[q].pc = "check" => round'[q].hcl \in HCL
    <3>1. round' \in [Requests -> Rounds]
      BY <1>2, <2>1, TallyAssumption DEF TypeOK, Rounds, HCLOrNone, TallyAssumption
    <3>2. round'[r].hcl = h /\ \A q \in Requests \ {r} : round'[q] = round[q]
      BY <1>2, <2>1 DEF TypeOK, Rounds
    <3> QED BY <1>2, <3>1, <3>2 DEF RoundOK
  <2>2. ASSUME round' = [round EXCEPT ![r].pc = "plan"]
        PROVE  /\ round' \in [Requests -> Rounds]
               /\ \A q \in Requests : round'[q].pc = "check" => round'[q].hcl \in HCL
    <3>1. round' \in [Requests -> Rounds]
      BY <1>2, <2>2 DEF TypeOK, Rounds
    <3>2. round'[r].pc = "plan" /\ \A q \in Requests \ {r} : round'[q] = round[q]
      BY <1>2, <2>2 DEF TypeOK, Rounds
    <3> QED BY <1>2, <3>1, <3>2 DEF RoundOK
  <2> QED BY <1>1, <2>1, <2>2
<1>5. /\ ws' \in [Requests -> WorkspaceState]
      /\ \A q \in Requests : ws'[q].passed = ws[q].passed /\ ws'[q].failed = ws[q].failed
  <2>1. CASE ws' = ws
    BY <1>2, <2>1 DEF TypeOK
  <2>2. CASE ws' # ws
    <3>1. PICK h \in HCL : h = round[r].hcl
      BY <1>1, <1>3, <2>2
    <3>2. ws' = [ws EXCEPT ![r].exists = TRUE, ![r].main = h]
      BY <1>1, <2>2, <3>1
    <3> DEFINE w == [ws[r] EXCEPT !.exists = TRUE, !.main = h]
    <3>3. /\ ws[r] \in WorkspaceState /\ w \in WorkspaceState
          /\ w.passed = ws[r].passed /\ w.failed = ws[r].failed
      BY <1>2, WorkspaceFacts DEF WorkspaceState, HCLOrNone
    <3>4. ws' = [ws EXCEPT ![r] = w]
      BY <3>2
    <3> HIDE DEF w
    <3> QED BY <1>2, <3>3, <3>4 DEF TypeOK
  <2> QED BY <2>1, <2>2
<1>6. TypeOK'
  BY <1>1, <1>2, <1>4, <1>5 DEF TypeOK
<1> QED BY <1>1, <1>2, <1>4, <1>5, <1>6, RoundKept DEF IInv

\* What RunCheckov leaves, in the terms of the counts before it.
LEMMA CheckovFacts ==
    ASSUME IInv, NEW r \in Requests, RunCheckov(r)
    PROVE  /\ round[r].hcl \in HCL /\ TypeOK'
           /\ ws'[r].passed = ws[r].passed /\ ws'[r].failed = ws[r].failed
           /\ result'[r] = Result(result'[r].passedChecks, result'[r].failedChecks)
           /\ result'[r].passed = PassesUnder(r, round[r].hcl)
           /\ top'[r] = round[r].hcl /\ since'[r] = {} /\ round'[r].pc = "plan"
           /\ \A q \in Requests \ {r} :
                 /\ ws'[q] = ws[q] /\ round'[q] = round[q] /\ since'[q] = since[q]
                 /\ result'[q] = result[q] /\ top'[q] = top[q]
<1> DEFINE p == ws[r].passed + Report[round[r].hcl].passed
           f == ws[r].failed + Report[round[r].hcl].failed
<1>1. /\ round[r].pc = "check" /\ round' = [round EXCEPT ![r].pc = "plan"]
      /\ ws' = [ws EXCEPT ![r].exists = TRUE, ![r].main = round[r].hcl]
      /\ result' = [result EXCEPT ![r] = Summary(r)']
      /\ top' = [top EXCEPT ![r] = round[r].hcl] /\ since' = [since EXCEPT ![r] = {}]
  BY DEF RunCheckov, Judged, WriteMain
<1>2. TypeOK /\ round[r].hcl \in HCL
  BY <1>1 DEF IInv, RoundOK
<1>3. p \in Nat /\ f \in Nat
  BY <1>2, WorkspaceFacts, ReportType
<1>4. /\ ws' \in [Requests -> WorkspaceState] /\ ws'[r].main = round[r].hcl
      /\ ws'[r].passed = ws[r].passed /\ ws'[r].failed = ws[r].failed
  <2>1. PICK h \in HCL : h = round[r].hcl
    BY <1>2
  <2> DEFINE w == [ws[r] EXCEPT !.exists = TRUE, !.main = h]
  <2>2. ws' = [ws EXCEPT ![r] = w]
    BY <1>1, <2>1
  <2>3. /\ w \in WorkspaceState /\ w.main = h
        /\ w.passed = ws[r].passed /\ w.failed = ws[r].failed
    BY <1>2, WorkspaceFacts DEF WorkspaceState, HCLOrNone
  <2> HIDE DEF w
  <2>4. ws \in [Requests -> WorkspaceState]
    BY <1>2 DEF TypeOK
  <2>5. ws'[r] = w /\ ws' \in [Requests -> WorkspaceState]
    BY <2>2, <2>3, <2>4
  <2> QED BY <2>1, <2>3, <2>5
<1>5. Summary(r)' = Result(p, f)
  BY <1>4 DEF Summary, TreePassed, TreeFailed
<1> HIDE DEF p, f
<1>6. result' = [result EXCEPT ![r] = Result(p, f)]
  BY <1>1, <1>5
<1>7. result'[r] = Result(p, f)
  BY <1>2, <1>6 DEF TypeOK
<1>8. result'[r].passedChecks = p /\ result'[r].failedChecks = f
      /\ result'[r].passed = Passes(p, f)
  BY <1>7 DEF Result
<1>9. PassesUnder(r, round[r].hcl) = Passes(p, f)
  BY DEF PassesUnder, p, f
<1>10. TypeOK'
  <2>1. result' \in [Requests -> [passedChecks : Nat, failedChecks : Nat,
                                  score : 0..100, passed : BOOLEAN]]
    BY <1>2, <1>3, <1>6, ResultType DEF TypeOK
  <2>2. round' \in [Requests -> Rounds]
    BY <1>1, <1>2 DEF TypeOK, Rounds
  <2> QED BY <1>1, <1>2, <1>4, <2>1, <2>2 DEF TypeOK, HCLOrNone
<1>11. top'[r] = round[r].hcl /\ since'[r] = {} /\ round'[r].pc = "plan"
  BY <1>1, <1>2 DEF TypeOK, Rounds
<1>12. \A q \in Requests \ {r} :
          /\ ws'[q] = ws[q] /\ round'[q] = round[q] /\ since'[q] = since[q]
          /\ result'[q] = result[q] /\ top'[q] = top[q]
  BY <1>1, <1>2 DEF TypeOK
<1> QED BY <1>2, <1>4, <1>7, <1>8, <1>9, <1>10, <1>11, <1>12

LEMMA CheckovRoundOK ==
    ASSUME IInv, NEW r \in Requests, RunCheckov(r)
    PROVE  IInv'
<1>1. ASSUME NEW q \in Requests, q # r
      PROVE  RoundOK(q)'
  BY <1>1, CheckovFacts, RoundKept DEF IInv, RoundOK
<1>2. RoundOK(r)'
  <2>1. PICK h \in HCL : h = round[r].hcl
    BY CheckovFacts
  <2>2. /\ ws'[r].passed = ws[r].passed /\ ws'[r].failed = ws[r].failed
        /\ top'[r] = h /\ since'[r] = {} /\ round'[r].pc = "plan"
        /\ result'[r].passed = PassesUnder(r, h) /\ h # NoHCL
        /\ result'[r] = Result(result'[r].passedChecks, result'[r].failedChecks)
    BY <2>1, CheckovFacts, ReportType
  <2>3. RunsPass(r)' = RunsPass(r) /\ PassesUnder(r, top[r])' = PassesUnder(r, h)
    BY <2>2 DEF RunsPass, PassesUnder
  <2>4. /\ ~RunsPass(r) /\ ~Alone(h) => ~PassesUnder(r, h)
        /\ RunsPass(r) /\ Alone(h) => PassesUnder(r, h)
    BY WorkspaceFacts, PoolText DEF RunsPass, PassesUnder, IInv
  <2>5. Alone(top[r])' = Alone(h)
    BY <2>2 DEF Alone
  <2>6. StillFails(r)'
    BY <2>2, <2>3, <2>4, <2>5 DEF StillFails
  <2>7. StillPasses(r)'
    BY <2>2, <2>3, <2>4, <2>5 DEF StillPasses
  <2> QED BY <2>2, <2>6, <2>7 DEF RoundOK
<1> QED BY <1>1, <1>2, CheckovFacts DEF IInv

\* The verdict is always that of its own counts, and what came since a result
\* has not turned it.
THEOREM TallyInvariant == Spec => []IInv
<1>1. IInv /\ [Next]_vars => IInv'
  <2>1. ASSUME IInv, UNCHANGED vars
        PROVE  IInv'
    BY <2>1 DEF IInv, TypeOK, vars, RoundOK, StillFails, StillPasses, RunsPass,
                PassesUnder
  <2> QED BY <2>1, PlanRoundOK, RefusedRoundOK, CheckovRoundOK DEF Next
<1> QED BY <1>1, InitRoundOK, PTL DEF Spec

\* The score is a percentage and the counts are counts, whatever is scanned.
THEOREM TallyTypeCorrect == Spec => []TypeOK
<1>1. IInv => TypeOK
  BY DEF IInv
<1> QED BY <1>1, TallyInvariant, PTL

\* After any number of attempts the verdict is the exact ratio of four to one
\* (checkov.go, score := passed * 100 / total).
THEOREM VerdictStaysExact == Spec => []VerdictIsFourFifths
<1>1. IInv => VerdictIsFourFifths
  <2> SUFFICES ASSUME IInv, NEW r \in Requests
               PROVE  result[r].passed
                        <=> FourFifths(result[r].passedChecks, result[r].failedChecks)
    BY DEF VerdictIsFourFifths
  <2>1. PICK p \in Nat, f \in Nat :
           p = result[r].passedChecks /\ f = result[r].failedChecks
    BY DEF IInv, TypeOK
  <2>2. result[r] = Result(p, f)
    BY <2>1 DEF IInv, RoundOK
  <2>3. result[r].passed = Passes(p, f)
    BY <2>2 DEF Result
  <2> QED BY <2>1, <2>3, VerdictIsExact
<1> QED BY <1>1, TallyInvariant, PTL

\* A directory's verdict is turned only by a text it got since, or by one its
\* main.tf lost, that has the verdict to show for it: what keeps the run
\* directories of earlier candidates from deciding alone.
THEOREM TextsTurnTheVerdict == Spec => ATextTurnsTheVerdict
<1> DEFINE Turns(r) ==
        /\ ~result[r].passed /\ result'[r].passed =>
              (\E h \in Given(r) : Alone(h)) \/ (\E h \in Replaced(r) : ~Alone(h))
        /\ result[r].passed /\ ~result'[r].passed =>
              (\E h \in Given(r) : ~Alone(h)) \/ (\E h \in Replaced(r) : Alone(h))
<1>1. ASSUME IInv, NEW q \in Requests, RunCheckov(q), NEW r \in Requests
      PROVE  Turns(r)
  <2>1. CASE r # q
    BY <1>1, <2>1, CheckovFacts
  <2>2. CASE r = q
    <3>1. PICK h \in HCL : h = round[r].hcl
      BY <1>1, <2>2, CheckovFacts
    <3>2. result'[r].passed = PassesUnder(r, h)
      BY <1>1, <2>2, <3>1, CheckovFacts
    <3>3. /\ ~RunsPass(r) /\ ~Alone(h) => ~PassesUnder(r, h)
          /\ RunsPass(r) /\ Alone(h) => PassesUnder(r, h)
      BY <1>1, WorkspaceFacts, PoolText DEF RunsPass, PassesUnder, IInv
    <3>4. StillFails(r) /\ StillPasses(r)
      BY <1>1 DEF IInv, RoundOK
    <3>5. /\ Given(r) = since[r] \union {h}
          /\ Replaced(r) = {top[r]} \ (Given(r) \union {NoHCL})
      BY <3>1 DEF Given, Replaced
    <3>6. ASSUME ~result[r].passed, \A k \in Given(r) : ~Alone(k),
                 \A k \in Replaced(r) : Alone(k)
          PROVE  ~result'[r].passed
      <4>1. \/ top[r] = NoHCL \/ top[r] \in since[r] \/ Alone(top[r])
            \/ top[r] = h /\ top[r] # NoHCL
        BY <3>5, <3>6
      <4> QED BY <3>2, <3>3, <3>4, <3>5, <3>6, <4>1 DEF StillFails
    <3>7. ASSUME result[r].passed, \A k \in Given(r) : Alone(k),
                 \A k \in Replaced(r) : ~Alone(k)
          PROVE  result'[r].passed
      <4>1. top[r] # NoHCL /\ PassesUnder(r, top[r])
        BY <3>4, <3>5, <3>7 DEF StillPasses
      <4>2. top[r] \in since[r] \/ ~Alone(top[r]) \/ top[r] = h
        BY <3>5, <3>7, <4>1
      <4> QED BY <3>2, <3>3, <3>4, <3>5, <3>7, <4>1, <4>2 DEF StillPasses
    <3> QED BY <3>6, <3>7
  <2> QED BY <2>1, <2>2
<1>2. ASSUME NEW q \in Requests, NEW r \in Requests, NEW h \in HCL,
             RunTerraformPlan(q, h) \/ PlanRefused(q, h) \/ CheckovFails(q)
      PROVE  Turns(r)
  BY <1>2 DEF RunTerraformPlan, PlanRefused, Called, CheckovFails
<1>3. IInv /\ [Next]_vars => [\A r \in Requests : Turns(r)]_vars
  <2> SUFFICES ASSUME IInv, Next, NEW r \in Requests
               PROVE  Turns(r)
    OBVIOUS
  <2>1. PICK q \in Requests :
           \/ RunCheckov(q) \/ CheckovFails(q)
           \/ \E h \in HCL : RunTerraformPlan(q, h) \/ PlanRefused(q, h)
    BY DEF Next
  <2>2. EmptyHCL \in HCL
    BY DataAssumption
  <2> HIDE DEF Turns
  <2> QED BY <1>1, <1>2, <2>1, <2>2
<1> QED BY <1>3, TallyInvariant, PTL DEF Spec, ATextTurnsTheVerdict

-----------------------------------------------------------------------------
(* parsePlanJSON.                                                            *)

\* Whether parsePlanJSON has passed the place of a mention.
Passed(i, k, j) == i < Len(read) \/ k < at.list \/ (k = at.list /\ j < at.word)

IsMention(i, k, j, action) ==
    /\ i \in Understood /\ k \in DOMAIN Lists(read[i])
    /\ j \in DOMAIN Lists(read[i])[k] /\ Lists(read[i])[k][j] = action

SoFar(action) ==
    {m \in Mentions(action) : Passed(m[1][1], m[1][2], m[2])}

CountsSoFar ==
    \A a \in Counted : IsFiniteSet(SoFar(a)) /\ count[a] = Cardinality(SoFar(a))

\* Within a line that was understood, or behind it.
Progress ==
    /\ parsing = "line" => Line.kind = "object"
    /\ parsing \in {"scan", "done"} /\ read # <<>> /\ Line.kind = "object"
         => at.list > Len(Lists(Line))

PlanIInv == /\ PlanTypeOK /\ Progress
            /\ IF parsing = "error" THEN count = NoCount ELSE CountsSoFar

LEMMA ListsType ==
    ASSUME NEW x \in Lines, x.kind = "object"
    PROVE  /\ Lists(x) \in Seq(Seq(STRING)) /\ Len(Lists(x)) \in Nat
           /\ DOMAIN Lists(x) = 1..Len(Lists(x))
           /\ \A k \in DOMAIN Lists(x) : /\ Lists(x)[k] \in Seq(STRING)
                                         /\ Len(Lists(x)[k]) \in Nat
                                         /\ DOMAIN Lists(x)[k] = 1..Len(Lists(x)[k])
<1>1. x \in ObjectLine
      BY LinesAssumption
<1>2. x.changes \in Seq(Seq(STRING)) /\ x.change \in Seq(STRING)
      BY <1>1 DEF ObjectLine
<1>3. Lists(x) \in Seq(Seq(STRING))
      BY <1>2, AppendProperties DEF Lists
<1>4. Len(Lists(x)) \in Nat /\ DOMAIN Lists(x) = 1..Len(Lists(x))
      BY <1>3, LenProperties
<1>5. \A k \in DOMAIN Lists(x) : Lists(x)[k] \in Seq(STRING)
      BY <1>3, <1>4, ElementOfSeq
<1> QED
    BY <1>3, <1>4, <1>5, LenProperties

LEMMA MentionsAre ==
    ASSUME NEW action, NEW m
    PROVE  m \in Mentions(action) <=>
             \E i, k, j : m = <<<<i, k>>, j>> /\ IsMention(i, k, j, action)
<1>1. ASSUME m \in Mentions(action)
      PROVE  \E i, k, j : m = <<<<i, k>>, j>> /\ IsMention(i, k, j, action)
  <2>1. PICK i \in Understood : m \in InLine(i, action)
        BY <1>1 DEF Mentions
  <2>2. PICK k \in DOMAIN Lists(read[i]) :
            m \in {<<i, k>>} \X {j \in DOMAIN Lists(read[i])[k] :
                                    Lists(read[i])[k][j] = action}
        BY <2>1 DEF InLine
  <2>3. PICK j \in DOMAIN Lists(read[i])[k] :
            m = <<<<i, k>>, j>> /\ Lists(read[i])[k][j] = action
        BY <2>2
  <2> QED
      BY <2>1, <2>2, <2>3 DEF IsMention
<1>2. ASSUME NEW i, NEW k, NEW j, m = <<<<i, k>>, j>>, IsMention(i, k, j, action)
      PROVE  m \in Mentions(action)
  <2>1. m \in {<<i, k>>} \X {jj \in DOMAIN Lists(read[i])[k] :
                                Lists(read[i])[k][jj] = action}
        BY <1>2 DEF IsMention
  <2>2. m \in InLine(i, action)
        BY <1>2, <2>1 DEF IsMention, InLine
  <2> QED
      BY <1>2, <2>2 DEF IsMention, Mentions
<1> QED
    BY <1>1, <1>2

LEMMA SoFarAre ==
    \A action, m :
        m \in SoFar(action) <=>
             \E i, k, j : /\ m = <<<<i, k>>, j>> /\ IsMention(i, k, j, action)
                          /\ Passed(i, k, j)
BY MentionsAre DEF SoFar

LEMMA SoFarAreNext ==
    (\A action, m :
        m \in SoFar(action) <=>
             \E i, k, j : /\ m = <<<<i, k>>, j>> /\ IsMention(i, k, j, action)
                          /\ Passed(i, k, j))'
BY SoFarAre, PTL

\* Which mentions have been passed does not change as long as neither the
\* mentions nor their being passed do.
LEMMA SameSoFar ==
    ASSUME NEW action,
           \A i, k, j : IsMention(i, k, j, action) /\ Passed(i, k, j)
             <=> IsMention(i, k, j, action)' /\ Passed(i, k, j)'
    PROVE  SoFar(action)' = SoFar(action)
<1>1. ASSUME NEW m PROVE m \in SoFar(action) <=> m \in SoFar(action)'
  <2>1. m \in SoFar(action) <=>
             \E i, k, j : /\ m = <<<<i, k>>, j>> /\ IsMention(i, k, j, action)
                          /\ Passed(i, k, j)
        BY SoFarAre
  <2>2. m \in SoFar(action)' <=>
             \E i, k, j : /\ m = <<<<i, k>>, j>> /\ IsMention(i, k, j, action)'
                          /\ Passed(i, k, j)'
        BY SoFarAreNext
  <2> QED
      BY <2>1, <2>2
<1> QED
    BY <1>1

LEMMA LineFacts ==
    ASSUME PlanTypeOK
    PROVE  /\ Len(read) \in Nat /\ DOMAIN read = 1..Len(read)
           /\ \A i \in 1..Len(read) : read[i] \in Lines
           /\ at.list \in Nat \ {0} /\ at.word \in Nat \ {0}
BY LenProperties, ElementOfSeq DEF PlanTypeOK

LEMMA MentionTypes ==
    ASSUME PlanTypeOK, NEW i, NEW k, NEW j, NEW action, IsMention(i, k, j, action)
    PROVE  /\ i \in 1..Len(read) /\ read[i] \in Lines /\ read[i].kind = "object"
           /\ Len(Lists(read[i])) \in Nat /\ k \in 1..Len(Lists(read[i]))
           /\ Len(Lists(read[i])[k]) \in Nat /\ j \in 1..Len(Lists(read[i])[k])
<1>1. /\ i \in 1..Len(read) /\ read[i] \in Lines /\ read[i].kind = "object"
      BY LineFacts DEF IsMention, Understood
<1> QED
    BY <1>1, ListsType DEF IsMention

LEMMA ScanFacts ==
    ASSUME PlanTypeOK, NEW x \in Lines, Scan(x)
    PROVE  /\ read' \in Seq(Lines) /\ Len(read') = Len(read) + 1
           /\ Len(read') <= MaxLines /\ read' # <<>>
           /\ DOMAIN read' = 1..(Len(read) + 1) /\ read'[Len(read) + 1] = x
           /\ \A i \in 1..Len(read) : read'[i] = read[i]
           /\ Line' = x
<1>1. read \in Seq(Lines) /\ Len(read) \in Nat
      BY LineFacts DEF PlanTypeOK
<1>2. /\ read' \in Seq(Lines) /\ Len(read') = Len(read) + 1
      /\ read'[Len(read) + 1] = x
      /\ \A i \in 1..Len(read) : read'[i] = read[i]
      BY <1>1, AppendProperties DEF Scan
<1>3. DOMAIN read' = 1..(Len(read) + 1)
      BY <1>2, LenProperties
<1>4. Len(read') <= MaxLines /\ read' # <<>>
      BY <1>1, <1>2, EmptySeq, LinesAssumption DEF Scan
<1> QED
    BY <1>2, <1>3, <1>4 DEF Line

\* Between two lines everything read so far has been passed.
LEMMA AllPassed ==
    ASSUME PlanTypeOK, Progress, parsing \in {"scan", "done"},
           NEW i, NEW k, NEW j, NEW action, IsMention(i, k, j, action)
    PROVE  Passed(i, k, j)
<1>1. /\ i \in 1..Len(read) /\ Len(read) \in Nat /\ read[i].kind = "object"
      /\ Len(Lists(read[i])) \in Nat /\ k \in 1..Len(Lists(read[i]))
      BY MentionTypes, LineFacts
<1>2. CASE i < Len(read)
      BY <1>2 DEF Passed
<1>3. CASE i = Len(read)
  <2>1. Line.kind = "object" /\ Line = read[i] /\ read # <<>>
        BY <1>1, <1>3, EmptySeq DEF Line
  <2>2. at.list > Len(Lists(read[i]))
        BY <2>1 DEF Progress
  <2>3. at.list \in Nat
        BY LineFacts
  <2> QED
      BY <1>1, <2>2, <2>3 DEF Passed
<1> QED
    BY <1>1, <1>2, <1>3

\* A new line leaves what has been passed as it is.
LEMMA ScanSoFar ==
    ASSUME PlanTypeOK, Progress, NEW x \in Lines, Scan(x), NEW action,
           x.kind = "object" => at' = [list |-> 1, word |-> 1]
    PROVE  SoFar(action)' = SoFar(action)
<1>1. /\ Len(read) \in Nat /\ DOMAIN read = 1..Len(read)
      /\ Len(read') = Len(read) + 1
      /\ DOMAIN read' = 1..(Len(read) + 1) /\ read'[Len(read) + 1] = x
      /\ \A i \in 1..Len(read) : read'[i] = read[i]
      BY ScanFacts, LineFacts
<1>2. ASSUME NEW i, NEW k, NEW j, IsMention(i, k, j, action), Passed(i, k, j)
      PROVE  IsMention(i, k, j, action)' /\ Passed(i, k, j)'
  <2>1. i \in 1..Len(read)
        BY <1>2, MentionTypes
  <2>2. read'[i] = read[i] /\ i \in Understood'
        BY <1>1, <1>2, <2>1 DEF IsMention, Understood
  <2> QED
      BY <1>1, <1>2, <2>1, <2>2 DEF IsMention, Passed
<1>3. ASSUME NEW i, NEW k, NEW j, IsMention(i, k, j, action)', Passed(i, k, j)'
      PROVE  IsMention(i, k, j, action) /\ Passed(i, k, j)
  <2>1. i \in 1..(Len(read) + 1) /\ read'[i].kind = "object"
        BY <1>1, <1>3 DEF IsMention, Understood
  <2>2. i # Len(read) + 1
    <3> SUFFICES ASSUME i = Len(read) + 1 PROVE FALSE
        OBVIOUS
    <3>1. x.kind = "object" /\ at' = [list |-> 1, word |-> 1]
          BY <1>1, <2>1
    <3>2. k \in DOMAIN Lists(x) /\ j \in DOMAIN Lists(x)[k]
          BY <1>1, <1>3 DEF IsMention
    <3>3. k \in 1..Len(Lists(x)) /\ j \in 1..Len(Lists(x)[k])
             /\ Len(Lists(x)) \in Nat /\ Len(Lists(x)[k]) \in Nat
          BY <3>1, <3>2, ListsType
    <3> QED
        BY <1>1, <1>3, <3>1, <3>3 DEF Passed
  <2>3. read'[i] = read[i] /\ i \in Understood
        BY <1>1, <2>1, <2>2 DEF Understood
  <2>4. IsMention(i, k, j, action)
        BY <1>3, <2>3 DEF IsMention
  <2> QED
      BY <2>4, AllPassed DEF Scan
<1> QED
    BY <1>2, <1>3, SameSoFar

LEMMA SkipInv ==
    ASSUME PlanIInv, NEW x \in Lines, SkipLine(x) PROVE PlanIInv'
<1> USE DEF PlanIInv
<1>1. /\ Scan(x) /\ x.kind \in {"blank", "odd"} /\ parsing = "scan"
      /\ UNCHANGED <<parsing, at, count, kept>>
      BY DEF SkipLine, Scan
<1>2. /\ Len(read) \in Nat /\ DOMAIN read = 1..Len(read)
      /\ DOMAIN read' = 1..(Len(read) + 1) /\ read'[Len(read) + 1] = x
      /\ \A i \in 1..Len(read) : read'[i] = read[i]
      /\ Line' = x
      BY <1>1, ScanFacts, LineFacts
<1>3. PlanTypeOK'
      BY <1>1, ScanFacts DEF PlanTypeOK
<1>4. Progress'
      BY <1>1, <1>2 DEF Progress
<1>5. CountsSoFar'
      BY <1>1, ScanSoFar DEF CountsSoFar
<1> QED
    BY <1>1, <1>3, <1>4, <1>5

LEMMA TakeInv ==
    ASSUME PlanIInv, NEW x \in Lines, TakeLine(x) PROVE PlanIInv'
<1> USE DEF PlanIInv
<1> DEFINE n == Len(read) + 1
<1>1. /\ Scan(x) /\ x.kind = "object" /\ parsing = "scan" /\ parsing' = "line"
      /\ at' = [list |-> 1, word |-> 1] /\ UNCHANGED count
      /\ kept' = [t \in DOMAIN kept \union {x.type} |-> IF t = x.type THEN n ELSE kept[t]]
      BY DEF TakeLine, Scan, Keep
<1>2. /\ n \in Nat /\ n - 1 \in Nat /\ DOMAIN read = 1..(n - 1)
      /\ DOMAIN read' = 1..n /\ read'[n] = x
      /\ \A i \in 1..(n - 1) : read'[i] = read[i]
      /\ Line' = x
      BY <1>1, ScanFacts, LineFacts
<1>3. n \in 1..MaxLines
      BY <1>1, <1>2, LineFacts, LinesAssumption DEF Scan
<1> HIDE DEF n
<1>4. DOMAIN kept' = DOMAIN kept \union {x.type} /\ kept'[x.type] = n
         /\ \A t \in DOMAIN kept : t # x.type => kept'[t] = kept[t]
      BY <1>1
<1>5. PlanTypeOK'
  <2>1. at' \in [list : Nat \ {0}, word : Nat \ {0}]
        BY <1>1
  <2>2. \A t \in DOMAIN kept' : kept'[t] \in 1..MaxLines
        BY <1>3, <1>4 DEF PlanTypeOK
  <2> QED
      BY <1>1, <2>1, <2>2, ScanFacts DEF PlanTypeOK
<1>6. Progress'
      BY <1>1, <1>2 DEF Progress
<1>7. CountsSoFar'
      BY <1>1, ScanSoFar DEF CountsSoFar
<1> QED
    BY <1>1, <1>5, <1>6, <1>7

LEMMA LongInv ==
    ASSUME PlanIInv, NEW x \in Lines, ScanLong(x) PROVE PlanIInv'
<1> USE DEF PlanIInv
<1>1. /\ Scan(x) /\ parsing' = "error" /\ count' = NoCount /\ kept' = <<>>
      /\ UNCHANGED at
      BY DEF ScanLong
<1>2. PlanTypeOK'
  <2>1. count' \in [Counted -> Nat]
        BY <1>1 DEF NoCount
  <2>2. DOMAIN kept' = {}
        BY <1>1
  <2> QED
      BY <1>1, <2>1, <2>2, ScanFacts DEF PlanTypeOK
<1>3. Progress'
      BY <1>1 DEF Progress
<1> QED
    BY <1>1, <1>2, <1>3

\* The list that is walked, and its words.
LEMMA WalkFacts ==
    ASSUME PlanIInv, parsing = "line"
    PROVE  /\ Line \in Lines /\ Line.kind = "object" /\ Line = read[Len(read)]
           /\ Len(read) \in Understood /\ Len(read) \in Nat
           /\ Len(Lists(Line)) \in Nat /\ DOMAIN Lists(Line) = 1..Len(Lists(Line))
           /\ at.list <= Len(Lists(Line)) =>
                /\ at.list \in DOMAIN Lists(Line) /\ List = Lists(Line)[at.list]
                /\ Len(List) \in Nat /\ DOMAIN List = 1..Len(List)
<1> USE DEF PlanIInv
<1>1. /\ Len(read) \in Nat /\ DOMAIN read = 1..Len(read) /\ at.list \in Nat \ {0}
      /\ \A i \in 1..Len(read) : read[i] \in Lines
      BY LineFacts
<1>2. Len(read) \in 1..Len(read)
  <2>1. Len(read) # 0
        BY EmptySeq DEF PlanTypeOK
  <2> QED
      BY <1>1, <2>1
<1>3. Line \in Lines /\ Line.kind = "object" /\ Line = read[Len(read)]
      BY <1>1, <1>2 DEF Line, Progress
<1>4. Len(read) \in Understood
      BY <1>1, <1>2, <1>3 DEF Understood
<1>5. Len(Lists(Line)) \in Nat /\ DOMAIN Lists(Line) = 1..Len(Lists(Line))
      BY <1>3, ListsType
<1>6. ASSUME at.list <= Len(Lists(Line))
      PROVE  /\ at.list \in DOMAIN Lists(Line) /\ List = Lists(Line)[at.list]
             /\ Len(List) \in Nat /\ DOMAIN List = 1..Len(List)
  <2>1. at.list \in DOMAIN Lists(Line)
        BY <1>1, <1>5, <1>6
  <2> QED
      BY <1>3, <2>1, ListsType DEF List
<1> QED
    BY <1>1, <1>3, <1>4, <1>5, <1>6

\* One word counts for its own action and for no other.
LEMMA WordCounts ==
    ASSUME PlanIInv, CountWord, NEW a \in Counted
    PROVE  IsFiniteSet(SoFar(a)') /\ count'[a] = Cardinality(SoFar(a)')
<1> USE DEF PlanIInv
<1>0. PICK n, l, p : n = Len(read) /\ l = at.list /\ p = at.word
      OBVIOUS
<1> DEFINE w == List[p]
           here == <<<<n, l>>, p>>
<1>1. /\ parsing = "line" /\ at.list <= Len(Lists(Line)) /\ at.word <= Len(List)
      /\ count' = Tick(count, w) /\ at' = [at EXCEPT !.word = @ + 1]
      /\ UNCHANGED <<read, parsing, kept>>
      BY <1>0 DEF CountWord
<1>2. /\ at \in [list : Nat \ {0}, word : Nat \ {0}]
      /\ l \in Nat \ {0} /\ p \in Nat \ {0}
      /\ count \in [Counted -> Nat]
      BY <1>0 DEF PlanTypeOK
<1>3. at'.list = l /\ at'.word = p + 1
      BY <1>0, <1>1, <1>2
<1>4. /\ n \in Understood /\ n \in Nat /\ l \in DOMAIN Lists(read[n])
      /\ Lists(read[n])[l] = List /\ p \in DOMAIN Lists(read[n])[l]
      BY <1>0, <1>1, <1>2, WalkFacts
<1>5. \A i, k, j : IsMention(i, k, j, a)' <=> IsMention(i, k, j, a)
      BY <1>1 DEF IsMention, Understood
<1>6. IsMention(n, l, p, a) <=> w = a
      BY <1>4 DEF IsMention
<1>7. ASSUME NEW i, NEW k, NEW j, IsMention(i, k, j, a)
      PROVE  Passed(i, k, j)' <=>
                Passed(i, k, j) \/ (i = n /\ k = l /\ j = p)
  <2>1. i \in 1..n /\ k \in Nat /\ j \in Nat
        BY <1>0, <1>7, MentionTypes
  <2> QED
      BY <1>0, <1>1, <1>2, <1>3, <1>4, <2>1 DEF Passed
<1>8. here \notin SoFar(a)
  <2> SUFFICES ASSUME here \in SoFar(a) PROVE FALSE
      OBVIOUS
  <2>1. PICK i, k, j : here = <<<<i, k>>, j>> /\ Passed(i, k, j)
        BY SoFarAre
  <2>2. i = n /\ k = l /\ j = p
        BY <2>1
  <2> QED
      BY <1>0, <1>2, <1>4, <2>1, <2>2 DEF Passed
<1>9. IsFiniteSet(SoFar(a)) /\ count[a] = Cardinality(SoFar(a))
      BY <1>1 DEF CountsSoFar
<1> HIDE DEF w
<1>10. CASE w = a
  <2>1. SoFar(a)' = SoFar(a) \union {here}
    <3>1. ASSUME NEW m \in SoFar(a)' PROVE m \in SoFar(a) \union {here}
      <4>1. PICK i, k, j : m = <<<<i, k>>, j>> /\ IsMention(i, k, j, a)'
                             /\ Passed(i, k, j)'
            BY SoFarAreNext
      <4>2. IsMention(i, k, j, a)
            BY <1>5, <4>1
      <4>3. Passed(i, k, j) \/ (i = n /\ k = l /\ j = p)
            BY <1>7, <4>1, <4>2
      <4>4. CASE Passed(i, k, j)
            BY <4>1, <4>2, <4>4, SoFarAre
      <4>5. CASE i = n /\ k = l /\ j = p
            BY <4>1, <4>5
      <4> QED
          BY <4>3, <4>4, <4>5
    <3>2. ASSUME NEW m \in SoFar(a) PROVE m \in SoFar(a)'
      <4>1. PICK i, k, j : m = <<<<i, k>>, j>> /\ IsMention(i, k, j, a)
                             /\ Passed(i, k, j)
            BY SoFarAre
      <4> QED
          BY <1>5, <1>7, <4>1, SoFarAreNext
    <3>3. here \in SoFar(a)'
      <4>1. IsMention(n, l, p, a)
            BY <1>6, <1>10
      <4>2. IsMention(n, l, p, a)' /\ Passed(n, l, p)'
            BY <1>5, <1>7, <4>1
      <4> QED
          BY <4>2, SoFarAreNext
    <3> QED
        BY <3>1, <3>2, <3>3
  <2>2. count'[a] = count[a] + 1
        BY <1>1, <1>2, <1>10 DEF Tick
  <2>3. IsFiniteSet(SoFar(a) \union {here})
           /\ Cardinality(SoFar(a) \union {here}) = Cardinality(SoFar(a)) + 1
        BY <1>8, <1>9, FS_AddElement
  <2> QED
      BY <1>9, <2>1, <2>2, <2>3
<1>11. CASE w # a
  <2>1. ~IsMention(n, l, p, a)
        BY <1>6, <1>11
  <2>2. \A i, k, j : IsMention(i, k, j, a) /\ Passed(i, k, j)
             <=> IsMention(i, k, j, a)' /\ Passed(i, k, j)'
        BY <1>5, <1>7, <2>1
  <2>3. SoFar(a)' = SoFar(a)
        BY <2>2, SameSoFar
  <2>4. count'[a] = count[a]
        BY <1>1, <1>2, <1>11 DEF Tick
  <2> QED
      BY <1>9, <2>3, <2>4
<1> QED
    BY <1>10, <1>11

LEMMA WordInv == PlanIInv /\ CountWord => PlanIInv'
<1> SUFFICES ASSUME PlanIInv, CountWord PROVE PlanIInv'
    OBVIOUS
<1>1. /\ parsing = "line" /\ count' = Tick(count, List[at.word])
      /\ at' = [at EXCEPT !.word = @ + 1]
      /\ UNCHANGED <<read, parsing, kept>>
      BY DEF CountWord
<1>2. PlanTypeOK'
  <2>1. at \in [list : Nat \ {0}, word : Nat \ {0}] /\ count \in [Counted -> Nat]
        BY DEF PlanIInv, PlanTypeOK
  <2>2. at' \in [list : Nat \ {0}, word : Nat \ {0}]
        BY <1>1, <2>1
  <2>3. count' \in [Counted -> Nat]
        BY <1>1, <2>1 DEF Tick
  <2> QED
      BY <1>1, <2>2, <2>3 DEF PlanIInv, PlanTypeOK
<1>3. Progress'
      BY <1>1 DEF PlanIInv, Progress, Line
<1>4. CountsSoFar'
      BY WordCounts DEF CountsSoFar
<1> QED
    BY <1>1, <1>2, <1>3, <1>4 DEF PlanIInv

LEMMA NextInv == PlanIInv /\ NextList => PlanIInv'
<1> SUFFICES ASSUME PlanIInv, NextList PROVE PlanIInv'
    OBVIOUS
<1> USE DEF PlanIInv
<1>1. /\ parsing = "line" /\ at.list <= Len(Lists(Line)) /\ at.word > Len(List)
      /\ at' = [list |-> at.list + 1, word |-> 1]
      /\ UNCHANGED <<read, parsing, count, kept>>
      BY DEF NextList
<1>2. at.list \in Nat \ {0} /\ at.word \in Nat \ {0}
      BY DEF PlanTypeOK
<1>3. PlanTypeOK'
  <2>1. at' \in [list : Nat \ {0}, word : Nat \ {0}]
        BY <1>1, <1>2
  <2> QED
      BY <1>1, <2>1 DEF PlanTypeOK
<1>4. Progress'
      BY <1>1 DEF Progress, Line
<1>5. ASSUME NEW a \in Counted PROVE SoFar(a)' = SoFar(a)
  <2>1. \A i, k, j : IsMention(i, k, j, a)' <=> IsMention(i, k, j, a)
        BY <1>1 DEF IsMention, Understood
  <2>2. ASSUME NEW i, NEW k, NEW j, IsMention(i, k, j, a)
        PROVE  Passed(i, k, j)' <=> Passed(i, k, j)
    <3>1. /\ i \in 1..Len(read) /\ Len(read) \in Nat /\ k \in Nat
          /\ Len(Lists(read[i])[k]) \in Nat /\ j \in 1..Len(Lists(read[i])[k])
          BY <2>2, MentionTypes, LineFacts
    <3>2. i = Len(read) /\ k = at.list => j \in 1..Len(List)
          BY <3>1 DEF List, Line
    <3>3. Len(List) \in Nat
          BY <1>1, WalkFacts
    <3> QED
        BY <1>1, <1>2, <3>1, <3>2, <3>3 DEF Passed
  <2>3. \A i, k, j : IsMention(i, k, j, a) /\ Passed(i, k, j)
             <=> IsMention(i, k, j, a)' /\ Passed(i, k, j)'
        BY <2>1, <2>2
  <2> QED
      BY <2>3, SameSoFar
<1>6. CountsSoFar'
      BY <1>1, <1>5 DEF CountsSoFar
<1> QED
    BY <1>1, <1>3, <1>4, <1>6

LEMMA EndInv == PlanIInv /\ (EndOfLine \/ EndOfOutput \/ UNCHANGED planVars) => PlanIInv'
<1> SUFFICES ASSUME PlanIInv, EndOfLine \/ EndOfOutput \/ UNCHANGED planVars
             PROVE  PlanIInv'
    OBVIOUS
<1> USE DEF PlanIInv
<1>1. /\ UNCHANGED <<read, at, count, kept>>
      /\ \/ /\ parsing = "line" /\ parsing' = "scan" /\ at.list > Len(Lists(Line))
         \/ parsing = "scan" /\ parsing' = "done"
         \/ parsing' = parsing
      BY DEF EndOfLine, EndOfOutput, planVars
<1>2. PlanTypeOK'
      BY <1>1 DEF PlanTypeOK
<1>3. Progress'
      BY <1>1 DEF Progress, Line
<1>4. parsing # "error" => CountsSoFar'
      BY <1>1 DEF CountsSoFar, SoFar, Mentions, InLine, Understood, Passed
<1> QED
    BY <1>1, <1>2, <1>3, <1>4

LEMMA PlanInvariant == PlanSpec => []PlanIInv
<1>1. PlanInit => PlanIInv
  <2> SUFFICES ASSUME PlanInit PROVE PlanIInv
      OBVIOUS
  <2> USE DEF PlanInit
  <2>1. DOMAIN read = {} /\ DOMAIN kept = {} /\ Len(read) = 0
        BY EmptySeq
  <2>2. PlanTypeOK
    <3>1. read \in Seq(Lines)
          BY EmptySeq
    <3>2. at \in [list : Nat \ {0}, word : Nat \ {0}] /\ count \in [Counted -> Nat]
          BY DEF NoCount
    <3> QED
        BY <2>1, <3>1, <3>2, LinesAssumption DEF PlanTypeOK
  <2>3. Understood = {}
        BY <2>1 DEF Understood
  <2>4. Progress
        BY <2>1, <2>3 DEF Progress
  <2>5. \A a : SoFar(a) = {}
        BY <2>3 DEF SoFar, Mentions
  <2>6. CountsSoFar
        BY <2>5, FS_EmptySet DEF CountsSoFar, NoCount
  <2> QED
      BY <2>2, <2>4, <2>6 DEF PlanIInv
<1>2. PlanIInv /\ [PlanNext]_planVars => PlanIInv'
      BY SkipInv, TakeInv, LongInv, WordInv, NextInv, EndInv DEF PlanNext
<1> QED
    BY <1>1, <1>2, PTL DEF PlanSpec

\* Whatever terraform prints, the counts are counts and PlanJSON keeps lines
\* that were read.
THEOREM PlanTypeCorrect == PlanSpec => []PlanTypeOK
<1>1. PlanIInv => PlanTypeOK
      BY DEF PlanIInv
<1> QED
    BY PlanInvariant, <1>1, PTL

\* For any output of any length: ToAdd, ToChange and ToDestroy are the numbers of
\* the words "create", "update" and "delete" in all the lists of all the lines
\* that json.Unmarshal takes, and zero after a scan that ended in an error.
THEOREM EveryActionIsCounted == PlanSpec => []CountsEveryAction
<1>1. PlanIInv => CountsEveryAction
  <2> SUFFICES ASSUME PlanIInv, parsing # "line", NEW a \in Counted
               PROVE  count[a] = IF parsing = "error" THEN 0 ELSE Cardinality(Mentions(a))
      BY DEF CountsEveryAction
  <2>1. CASE parsing = "error"
        BY <2>1 DEF PlanIInv, NoCount
  <2>2. CASE parsing # "error"
    <3>1. SoFar(a) = Mentions(a)
      <4> SUFFICES ASSUME NEW m \in Mentions(a) PROVE m \in SoFar(a)
          BY DEF SoFar
      <4>1. PICK i, k, j : m = <<<<i, k>>, j>> /\ IsMention(i, k, j, a)
            BY MentionsAre
      <4>2. Passed(i, k, j)
            BY <2>2, <4>1, AllPassed DEF PlanIInv, PlanTypeOK
      <4> QED
          BY <4>1, <4>2, SoFarAre
    <3> QED
        BY <2>2, <3>1 DEF PlanIInv, CountsSoFar
  <2> QED
      BY <2>1, <2>2
<1> QED
    BY PlanInvariant, <1>1, PTL
=============================================================================
