---------------------------- MODULE CheckovTally ----------------------------
(***************************************************************************)
(* RunCheckov's verdict on the directory of a request, one attempt of      *)
(* runValidation after the other: RunTerraformPlan leaves a run directory  *)
(* with the text, RunCheckov overwrites the main.tf at the top with it and *)
(* scans everything below.                                                 *)
(***************************************************************************)
EXTENDS Workspace

CONSTANT MaxRuns   \* bound: calls of runValidation for one request
ASSUME TallyAssumption == MaxRuns \in Nat

VARIABLES
    round,   \* runValidation: its next call, the text, the calls made so far
    result,  \* the last CheckovResult of a request's directory
    top,     \* history: the text in the main.tf that result was scanned with
    since    \* history: the texts that got a run directory after that

vars == <<ws, round, result, top, since>>

Rounds == [pc : {"plan", "check"}, hcl : HCLOrNone, runs : 0..MaxRuns]

\* parseCheckovOutput looks at the summary counts only: the severities are
\* copied into the warnings and decide nothing.
Result(p, f) == [passedChecks |-> p, failedChecks |-> f,
                 score |-> Score(p, f), passed |-> Passes(p, f)]

Init == /\ WorkspaceInit
        /\ round = [r \in Requests |-> [pc |-> "plan", hcl |-> NoHCL, runs |-> 0]]
        /\ result = [r \in Requests |-> Result(0, 0)]
        /\ top = [r \in Requests |-> NoHCL] /\ since = [r \in Requests |-> {}]

\* Its first call, which leads to the second whatever it returns.
Called(r, h) ==
    /\ round[r].pc = "plan" /\ round[r].runs < MaxRuns
    /\ round' = [round EXCEPT ![r].pc = "check", ![r].hcl = h, ![r].runs = @ + 1]
    /\ UNCHANGED <<result, top>>

RunTerraformPlan(r, h) ==
    /\ Called(r, h) /\ WriteRunDir(r, h)
    /\ since' = [since EXCEPT ![r] = @ \union {h}]

\* No terraform, or no disk: the text gets no run directory.
PlanRefused(r, h) == Called(r, h) /\ UNCHANGED <<ws, since>>

\* Its second call is over.
Judged(r) == round[r].pc = "check" /\ round' = [round EXCEPT ![r].pc = "plan"]

\* The CheckovResult of the directory as it is.
Summary(r) == Result(TreePassed(r), TreeFailed(r))

\* Slip: checkov is started before main.tf is written.
ScanThenWrite(r) ==
    /\ Judged(r)
    /\ WriteMain(r, round[r].hcl)
    /\ result' = [result EXCEPT ![r] = IF top[r] = NoHCL
                                       THEN Result(ws[r].passed, ws[r].failed)
                                       ELSE Summary(r)]
    /\ top' = [top EXCEPT ![r] = round[r].hcl]
    /\ since' = [since EXCEPT ![r] = {}]

RunCheckov(r) ==
    /\ Judged(r)
    /\ WriteMain(r, round[r].hcl)
    /\ result' = [result EXCEPT ![r] = Summary(r)']
    /\ top' = [top EXCEPT ![r] = round[r].hcl]
    /\ since' = [since EXCEPT ![r] = {}]

\* No checkov and nothing written, or an answer that does not parse.
CheckovFails(r) ==
    /\ Judged(r)
    /\ WriteMain(r, round[r].hcl) \/ UNCHANGED ws
    /\ UNCHANGED <<result, top, since>>

Next == \E r \in Requests :
           \/ RunCheckov(r) \/ CheckovFails(r)
           \/ \E h \in HCL : RunTerraformPlan(r, h) \/ PlanRefused(r, h)

Spec == Init /\ [][Next]_vars
-----------------------------------------------------------------------------
TypeOK ==
    /\ ws \in [Requests -> WorkspaceState] /\ round \in [Requests -> Rounds]
    /\ result \in [Requests -> [passedChecks : Nat, failedChecks : Nat,
                                score : 0..100, passed : BOOLEAN]]
    /\ top \in [Requests -> HCLOrNone] /\ since \in [Requests -> SUBSET HCL]

\* The truncated percentage compared with 80 is the exact four-to-one test:
\* rounding never lets a directory pass, or fail, that the ratio would not
\* (checkov.go, score := passed * 100 / total).
VerdictIsFourFifths ==
    \A r \in Requests :
        result[r].passed <=> FourFifths(result[r].passedChecks, result[r].failedChecks)

\* The verdict on a file of that text alone.
Alone(h) == Passes(Report[h].passed, Report[h].failed)

\* What a result saw come and go since the one before: the texts planned since
\* and its own, which main.tf now repeats, and the text that main.tf lost.
Given(r) == since[r] \union {round[r].hcl}
Replaced(r) == {top[r]} \ (Given(r) \union {NoHCL})

\* From a failing result to a passing one it takes a new text that passes alone,
\* or the loss of one that fails alone; back, a new one that fails alone or the
\* loss of one that passes: run directories that were there before, and the
\* new text's being counted twice, never turn the verdict by themselves
\* (RunTerraformPlan's and RunCheckov's files under one directory).
ATextTurnsTheVerdict ==
    [][\A r \in Requests :
          /\ ~result[r].passed /\ result'[r].passed =>
                (\E h \in Given(r) : Alone(h)) \/ (\E h \in Replaced(r) : ~Alone(h))
          /\ result[r].passed /\ ~result'[r].passed =>
                (\E h \in Given(r) : ~Alone(h)) \/ (\E h \in Replaced(r) : Alone(h))
      ]_vars
=============================================================================
