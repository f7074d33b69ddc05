--------------------------- MODULE CorrectionLoop ---------------------------
(***************************************************************************)
(* internal/correction: CorrectionLoop.Run, the work behind POST           *)
(* /api/v1/changes.  One handler goroutine per request walks the pcs       *)
(* below; an action ends where the code waits for the database, a          *)
(* subprocess or the language model, so anything can happen in between.    *)
(***************************************************************************)
EXTENDS Store, Workspace

CONSTANT MaxRetries     \* MAX_CORRECTION_RETRIES: any integer parses
ASSUME RetriesAssumption == MaxRetries \in Int

VARIABLE loop   \* the goroutine of each request: its locals and what it did

loopVars == <<rows, audit, ws, loop>>

\* Run returned a result.  CreateChange looks at the error only, so that is a
\* 202 "pending, queued for approval" even when the budget is exhausted.
Accepted == {"passed", "exhausted"}
Ended == Accepted \union {"error", "crashed"}
InFlight == {"generate", "plan", "planning", "check", "scanning",
             "persist_passed", "log_complete",
             "persist_failed", "mark_failed", "log_exhausted",
             "log_attempt", "complete"}

LoopState == [pc : {"idle"} \union InFlight \union Ended,
              hcl : HCLOrNone,      \* the candidate
              planned : BOOLEAN,    \* RunTerraformPlan returned no error
              score : Nat,          \* checkovResult.Score, 0 after an error
              attempts : Nat,       \* correctionAttempts
              asked : Nat,          \* history: corrections the model answered
              tried : SUBSET HCL,   \* history: candidates given to terraform
              lost : BOOLEAN]       \* history: a statement was not acknowledged

Idle == [pc |-> "idle", hcl |-> NoHCL, planned |-> FALSE, score |-> 0,
         attempts |-> 0, asked |-> 0, tried |-> {}, lost |-> FALSE]

LoopInit == loop = [r \in Requests |-> Idle]

At(r, pc) == loop[r].pc = pc
Go(r, pc) == loop' = [loop EXCEPT ![r].pc = pc]

\* Past a statement whose error is dropped.
GoAnyway(r, pc, o) ==
    loop' = [loop EXCEPT ![r].pc = pc, ![r].lost = @ \/ ~Acked(r, o)]

-----------------------------------------------------------------------------
\* Run's first statement: a row, pending at once.
Start(r, o) ==
    /\ At(r, "idle")
    /\ CreateRow(r, o)
    /\ Go(r, IF o = "ok" THEN "generate" ELSE "error")
    /\ UNCHANGED ws

\* GenerateHCL refuses an empty text; the audit insert's error is dropped.
Generate(r, h, o) ==
    /\ At(r, "generate")
    /\ h # EmptyHCL
    /\ CreateAudit(r, "generation_attempt", 0, o)
    /\ loop' = [loop EXCEPT ![r].pc = "plan", ![r].hcl = h,
                            ![r].lost = ~Acked(r, o)]
    /\ UNCHANGED ws

\* No answer, or one that does not parse: Run returns the error and leaves the
\* row as it is.
GenerateFails(r) ==
    /\ At(r, "generate")
    /\ Go(r, "error")
    /\ UNCHANGED <<rows, audit, ws>>

\* runValidation: RunTerraformPlan writes a run directory and starts terraform...
StartPlan(r) ==
    /\ At(r, "plan")
    /\ WriteRunDir(r, loop[r].hcl)
    /\ loop' = [loop EXCEPT ![r].pc = "planning",
                            ![r].tried = @ \union {loop[r].hcl}]
    /\ UNCHANGED <<rows, audit>>

\* ... or finds no terraform, or no disk.
PlanRefused(r) ==
    /\ At(r, "plan")
    /\ loop' = [loop EXCEPT ![r].pc = "check", ![r].planned = FALSE,
                            ![r].tried = @ \union {loop[r].hcl}]
    /\ UNCHANGED <<rows, audit, ws>>

\* init and plan can fail for reasons of their own (providers, network).
PlanReturns(r, ok) ==
    /\ At(r, "planning")
    /\ ok => loop[r].hcl \in Plannable
    /\ loop' = [loop EXCEPT ![r].pc = "check", ![r].planned = ok]
    /\ UNCHANGED <<rows, audit, ws>>

\* Slip: no deadline.
PlanWaits(r) == At(r, "planning") /\ FALSE /\ Go(r, "check")

\* 30 seconds after the call, or when the client is gone, terraform is killed.
PlanDeadline(r) ==
    /\ At(r, "planning")
    /\ loop' = [loop EXCEPT ![r].pc = "check", ![r].planned = FALSE]
    /\ UNCHANGED <<rows, audit, ws>>

\* RunCheckov runs whatever became of the plan.
StartScan(r) ==
    /\ At(r, "check")
    /\ WriteMain(r, loop[r].hcl)
    /\ Go(r, "scanning")
    /\ UNCHANGED <<rows, audit>>

\* Slips: one round too many, one too few.
OneTooMany(n) == n > MaxRetries
OneTooFew(n) == n + 1 >= MaxRetries
LastAttempt(n) == n >= MaxRetries

\* Slip: the error of terraform is not looked at.
ValidatedByScore(r, score) == score >= Threshold
Validated(r, score) == loop[r].planned /\ score >= Threshold

\* The branch Run takes on the verdict of runValidation.
Judge(r, score) ==
    LET passed == Validated(r, score)
        n == loop[r].attempts + 1
        pc == IF passed THEN "persist_passed"
              ELSE IF LastAttempt(n) THEN "persist_failed" ELSE "log_attempt"
    IN loop' = [loop EXCEPT ![r].pc = pc, ![r].score = score,
                            ![r].attempts = IF passed THEN @ ELSE n]

ScanReturns(r) ==
    /\ At(r, "scanning")
    /\ Judge(r, TreeScore(r))
    /\ UNCHANGED <<rows, audit, ws>>

\* Slip: a scan that failed is run again.
ScanAgain(r) == At(r, "scanning") /\ Go(r, "check") /\ UNCHANGED <<rows, audit, ws>>

\* No checkov, no disk, no output or output that does not parse, or the 60
\* seconds are over: a CheckovResult of zeros and an error.
ScanFails(r) ==
    /\ At(r, "check") \/ At(r, "scanning")
    /\ Judge(r, 0)
    /\ UNCHANGED <<rows, audit, ws>>

-----------------------------------------------------------------------------
\* The branch that passed.  The errors of both statements are dropped.
PersistPassed(r, o) ==
    /\ At(r, "persist_passed")
    /\ UpdateHCLAndScore(r, loop[r].hcl, loop[r].score, loop[r].attempts, o)
    /\ GoAnyway(r, "log_complete", o)
    /\ UNCHANGED ws

\* Slip: the entry does not say how many corrections it took.
LogCompleteBare(r, o) ==
    /\ At(r, "log_complete")
    /\ CreateAudit(r, "generation_complete", 0, o)
    /\ GoAnyway(r, "passed", o)
    /\ UNCHANGED ws

LogComplete(r, o) ==
    /\ At(r, "log_complete")
    /\ CreateAudit(r, "generation_complete", loop[r].attempts, o)
    /\ GoAnyway(r, "passed", o)
    /\ UNCHANGED ws

\* The budget is spent.  The errors of all three statements are dropped.
PersistFailed(r, o) ==
    /\ At(r, "persist_failed")
    /\ UpdateHCLAndScore(r, loop[r].hcl, loop[r].score, loop[r].attempts, o)
    /\ GoAnyway(r, "mark_failed", o)
    /\ UNCHANGED ws

\* Slips: a status the column has no value for; no status at all.
MarkExhausted(r, o) ==
    /\ At(r, "mark_failed")
    /\ UpdateStatus(r, "exhausted", o)
    /\ GoAnyway(r, "log_exhausted", o)
    /\ UNCHANGED ws

MarkNothing(r, o) ==
    /\ At(r, "mark_failed")
    /\ Go(r, "log_exhausted")
    /\ UNCHANGED <<rows, audit, ws>>

MarkFailed(r, o) ==
    /\ At(r, "mark_failed")
    /\ UpdateStatus(r, "failed", o)
    /\ GoAnyway(r, "log_exhausted", o)
    /\ UNCHANGED ws

LogExhausted(r, o) ==
    /\ At(r, "log_exhausted")
    /\ CreateAudit(r, "correction_exhausted", loop[r].attempts, o)
    /\ GoAnyway(r, "exhausted", o)
    /\ UNCHANGED ws

\* Another round: the raw answer is the next candidate, whatever it is.
LogAttempt(r, o) ==
    /\ At(r, "log_attempt")
    /\ CreateAudit(r, "correction_attempt", loop[r].attempts, o)
    /\ GoAnyway(r, "complete", o)
    /\ UNCHANGED ws

Complete(r, h) ==
    /\ At(r, "complete")
    /\ loop' = [loop EXCEPT ![r].pc = "plan", ![r].hcl = h, ![r].asked = @ + 1]
    /\ UNCHANGED <<rows, audit, ws>>

CompleteFails(r) ==
    /\ At(r, "complete")
    /\ Go(r, "error")
    /\ UNCHANGED <<rows, audit, ws>>

-----------------------------------------------------------------------------
\* The server process ends: its goroutines are gone and nothing resumes them.
CrashLoops ==
    loop' = [r \in Requests |->
               IF loop[r].pc \in InFlight THEN [loop[r] EXCEPT !.pc = "crashed"]
                                          ELSE loop[r]]

\* The directory (by default below /tmp) survives or not.
CrashDisk == ws' \in {ws, [r \in Requests |-> NoWorkspace]}

Crash == CrashLoops /\ CrashDisk /\ UNCHANGED <<rows, audit>>

\* The steps the handler, the database, the model and the deadlines owe.
DatabaseStep(r) ==
    \E o \in Outcomes : \/ PersistPassed(r, o) \/ LogComplete(r, o)
                        \/ PersistFailed(r, o) \/ MarkFailed(r, o)
                        \/ LogExhausted(r, o) \/ LogAttempt(r, o)

ModelStep(r) ==
    \/ \E h \in HCL, o \in Outcomes : Generate(r, h, o)
    \/ \E h \in HCL : Complete(r, h)
    \/ GenerateFails(r) \/ CompleteFails(r)

OwnStep(r) == \/ DatabaseStep(r) \/ ModelStep(r)
              \/ StartPlan(r) \/ PlanRefused(r) \/ PlanDeadline(r)
              \/ StartScan(r) \/ ScanFails(r)

LoopStep(r) == \/ \E o \in Outcomes : Start(r, o)
               \/ OwnStep(r)
               \/ \E ok \in BOOLEAN : PlanReturns(r, ok)
               \/ ScanReturns(r)

LoopNext == (\E r \in Requests : LoopStep(r)) \/ Crash

LoopSpecInit == StoreInit /\ WorkspaceInit /\ LoopInit

LoopSpec == LoopSpecInit /\ [][LoopNext]_loopVars

\* terraform and checkov themselves owe nothing: they may hang.
LoopFairness == \A r \in Requests : WF_loopVars(OwnStep(r))

LoopFairSpec == LoopSpec /\ LoopFairness
-----------------------------------------------------------------------------
(* Properties *)

LoopTypeOK == /\ rows \in [Requests -> Row]
              /\ audit \in [Requests -> Seq(Entry)]
              /\ ws \in [Requests -> WorkspaceState]
              /\ loop \in [Requests -> LoopState]

\* Candidates validated before Run gives up: MaxRetries, but always the first.
Budget == IF MaxRetries > 1 THEN MaxRetries ELSE 1

\* The model is asked for at most Budget - 1 corrections however its answers,
\* the tools and the database behave, and Run gives up only when it was asked
\* for all of them (Run: correctionAttempts >= l.maxRetries).
SpendsItsBudget ==
    \A r \in Requests :
        /\ loop[r].asked <= Budget - 1
        /\ loop[r].pc = "exhausted" => loop[r].asked = Budget - 1

\* Run reports success only for a text terraform planned, and only when some
\* text tried for the request has four passed checks per failed one on its own:
\* scanning the candidates together never turns failing texts into a passing
\* directory (runValidation, RunCheckov's -d).
PassNeedsAPassingText ==
    \A r \in Requests :
        loop[r].pc \in {"persist_passed", "log_complete", "passed"} =>
            /\ loop[r].hcl \in Plannable
            /\ \E h \in loop[r].tried : Passes(Report[h].passed, Report[h].failed)

\* The first n entries after the generation's: corrections 1, 2, ..., n.
CountsUp(trail, n) ==
    /\ trail[1].action = "generation_attempt"
    /\ \A i \in 1..n : trail[i + 1] = [action |-> "correction_attempt", attempt |-> i]

\* The row and the trail tell the result: pending with the text that passed, or
\* failed with the last text; the generation, each correction once and in its
\* place, and the outcome with the attempts it took.
ResultIsStored(r) ==
    /\ rows[r].hcl = loop[r].hcl /\ rows[r].score = loop[r].score
    /\ IF loop[r].pc = "passed"
         THEN /\ rows[r].status = "pending" /\ rows[r].score >= Threshold
              /\ rows[r].attempts = loop[r].asked
         ELSE /\ rows[r].status = "failed"
              /\ rows[r].attempts = loop[r].asked + 1
    /\ Len(audit[r]) = loop[r].asked + 2 /\ CountsUp(audit[r], loop[r].asked)
    /\ audit[r][loop[r].asked + 2] =
         [action |-> IF loop[r].pc = "passed" THEN "generation_complete"
                                              ELSE "correction_exhausted",
          attempt |-> rows[r].attempts]

\* When every statement of a run was acknowledged, whatever happened to the
\* runs beside it, row and trail tell the result at the moment Run returns it
\* (the seven statements of Run, in the order it makes them; its comment, step
\* 5: every attempt is written to audit_logs).
RowTellsTheResult ==
    [][\A r \in Requests :
         loop[r].pc \notin Accepted /\ loop'[r].pc \in Accepted /\ ~loop'[r].lost
           => ResultIsStored(r)']_loopVars

\* The trail of a request reads in order whatever statements were lost: the
\* corrections count up, generation comes first and the outcome last.
TrailReadsInOrder ==
    \A r \in Requests :
        LET trail == audit[r]
        IN \A i, j \in 1..Len(trail) :
             i < j => /\ trail[i].attempt <= trail[j].attempt
                      /\ trail[j].action # "generation_attempt"
                      /\ trail[i].action \notin {"generation_complete",
                                                 "correction_exhausted"}

\* The steps a run may still take: those of its round, and six for each
\* correction it may still ask for.
StepsOfRound(pc) ==
    CASE pc = "idle" -> 12
      [] pc = "generate" -> 11
      [] pc = "plan" -> 10
      [] pc = "planning" -> 9
      [] pc = "check" -> 8
      [] pc = "scanning" -> 7
      [] pc = "log_attempt" -> 6
      [] pc = "complete" -> 5
      [] pc = "persist_failed" -> 3
      [] pc \in {"mark_failed", "persist_passed"} -> 2
      [] pc \in {"log_exhausted", "log_complete"} -> 1
      [] OTHER -> 0
StepsLeft(r) == StepsOfRound(loop[r].pc) + 6 * (Budget - 1 - loop[r].asked)

\* No run goes round for ever, whatever the model answers, however the tools and
\* the database fail and wherever the process ends: each step of a run leaves
\* fewer to take than before (Run's for loop over correctionAttempts).
EveryStepLeavesFewer ==
    [][\A r \in Requests :
         loop'[r] # loop[r] => /\ StepsLeft(r)' \in Nat
                               /\ StepsLeft(r)' < StepsLeft(r)]_loopVars

\* Every request that was started ends: a hung terraform or checkov, a failing
\* database, a model that never writes an acceptable text cannot keep Run busy.
EveryRunEnds ==
    \A r \in Requests : (loop[r].pc \in InFlight) ~> (loop[r].pc \in Ended)

\* Run is the contract: phase and texts are functions of its goroutine's state.
Phase(r) == CASE loop[r].pc = "idle" -> "none"
              [] loop[r].pc = "passed" -> "ready"
              [] loop[r].pc = "exhausted" -> "exhausted"
              [] loop[r].pc \in {"error", "crashed"} -> "aborted"
              [] OTHER -> "working"
Texts(r) == IF loop[r].hcl = NoHCL THEN 0 ELSE loop[r].asked + 1

Contract == INSTANCE LoopContract WITH
                phase <- [r \in Requests |-> Phase(r)],
                texts <- [r \in Requests |-> Texts(r)]

KeepsItsContract == Contract!ContractSpec

-----------------------------------------------------------------------------
(* What a comment says and the code does not do; a run shows the difference. *)

\* loop.go, runValidation "runs terraform plan and checkov against hclContent":
\* a text that passed reaches the threshold by itself.
AcceptedTextPasses ==
    \A r \in Requests :
        loop[r].pc = "passed" => Passes(Report[loop[r].hcl].passed,
                                        Report[loop[r].hcl].failed)
=============================================================================
