# A TLA+ verification of TerraSense

TerraSense turns a sentence ("an S3 bucket for logs") into Terraform, checks it
with `terraform plan` and Checkov, lets a language model repair it, and applies
it only after a human approved it. This directory holds TLA+ modules of the Go
server's own logic, TLC instances of them, and theorems checked by TLAPS.
`PROJECT.json` lists the components, the runs, the mutants that show what each
property depends on, the source lines of every definition, the hazards and the
theorems.

To repeat a run or a proof, in this directory:

    tlc -workers 2 -config ServerOrderly.cfg MCTerraSense
    tlapm TerraSenseProofs.tla

## 1. Inventory of the system

| component | source | state | operations | what makes it correct |
|---|---|---|---|---|
| correction loop | `internal/correction/loop.go` | the locals of one goroutine per request | `Run`, `runValidation`, `logAuditEvent` | the budget is kept and spent; success means a validated text; row and trail tell the result; it always ends |
| HCL generator, model client | `internal/tools/hcl_generator.go` | none | `GenerateHCL`, `Complete` | an empty first answer is an error; later answers are taken as they are |
| plan executor | `internal/tools/plan_executor.go` | a new run directory for each call | `RunTerraformPlan`, `parsePlanJSON` | no call outlives 30 s; a failure is never taken for a plan; every action of the output is counted once |
| Checkov runner | `internal/validators/checkov.go` | the top `main.tf` of the request's directory | `RunCheckov`, `parseCheckovOutput` | the verdict is the ratio of checks; 60 s; no output is no success |
| approval gate | `internal/api/handlers.go` `ApproveChange`, `RejectChange` | one goroutine per HTTP call | read, set status, log, init, apply, set status, log | nothing is applied ungated; a 200 is true; one decision per change |
| request store, audit store | `internal/store/infra_request.go`, `audit_log.go` | `infra_requests`, `audit_logs` | `Create`, `UpdateStatus`, `UpdateHCLAndScore`, `GetByID`, audit `Create`, listings | single statements; the foreign key; a trail read in pages misses nothing that was there |
| schema | `internal/db/migrations` | enum, defaults, foreign key | | |
| demo reset | `internal/demo/seed.go`, `cmd/seed_demo` | one transaction | `SeedDemoRequests` | all or nothing; old rows gone; no orphaned entries; it ends; a change it deletes under its goroutines stays deleted |
| module library | `internal/store/module.go`, `internal/tools/module_lister.go`, `cmd/seed` | `terraform_modules` | `BulkInsert`, `List`, `GetByName` | a bulk insert is atomic, upserts keep ids, it ends |
| router, middleware | `internal/api/router.go`, `middleware.go` | none shared; a recorder per request | `RequestID`, `RecoveryMiddleware`, `RequestLogger`, `CORS`, `RequireAPIKey`, the mux | no writer runs without the key; every request is answered, marked and logged as answered |
| read handlers | `internal/api/handlers.go` | none | list, get, audit page, analytics | pages, arithmetic of rates |
| configuration, start-up, pool | `internal/config`, `cmd/server`, `internal/db` | start-up only | | |
| state reader | `internal/tools/state_reader.go` | none | reads a state file; no caller in the server | |
| portal | `portal/app` | a page read once | approve, reject by id | the page may be stale |

How they interact. `POST /api/v1/changes` runs the loop inside the handler's
goroutine: the loop calls the model, then the plan executor, then Checkov, and
writes row and trail through the stores. Approve and reject are other
goroutines on the same row and on the same directory
`<TERRAFORM_WORKING_DIR>/<id>`. There is no lock and no transaction between any
of them: what they share is PostgreSQL, where each statement commits alone, and
the disk. The demo reset is the only multi-statement transaction beside
`BulkInsert`; it deletes rows whose loop or approval is still running, and tells
neither. Every request passes the same four layers of middleware, which keep
nothing between requests.

What is hard. Decisions can overlap each other and the loop. A row is
`pending` from its first insert, before there is a text. Most errors of the
loop's statements are dropped. A statement may commit without its answer
arriving. Processes end between statements, and a `terraform apply` may outlive
the server. Tools hang, deadlines race their answers. The scanned directory
keeps every earlier candidate. A change can be deleted while terraform applies
it. The audit trail is paged by offset while entries arrive, and an entry can
commit with a timestamp older than one already shown. A handler can panic after
its answer has left. `PROJECT.json` lists each of these hazards at
its line with the properties that watch it.

## 2. Modules

    ChangeData        requests, texts, what terraform and Checkov make of a text
      Store           infra_requests and audit_logs, one operator per statement
      Workspace       the directory of a request            (uses CheckovScore)
        CorrectionLoop    POST /changes: Run              implements LoopContract
        ApprovalGate      approve and reject
          TerraSense      both on one database and disk   implements ChangeLifecycle
    CheckovScore      the score and its verdict
    CheckovTally      RunCheckov's verdicts on one directory, attempt after attempt (uses Workspace)
    PlanOutput        parsePlanJSON, line by line and word by word
    DemoReset         SeedDemoRequests against itself and the other writers
    ModuleLibrary     BulkInsert against itself           implements AtomicLibrary
    AuditPages        the audit trail read in pages, against writers and the reset
    HttpLayers        one request through router and middleware, in and out
    MC*               instances for TLC (MCToolOutput and MCReadApi hold two
                      modules each that share no variable: a behaviour is one of
                      the two and leaves the other's variables alone)
    *Proofs           theorems (ToolOutputProofs: CheckovTally and PlanOutput;
                      ReadApiProofs: AuditPages and HttpLayers; OrderlyServerProofs:
                      TerraSense for callers who keep an order)

`LoopContract`, `ChangeLifecycle` and `AtomicLibrary` are the abstract
specifications: what a caller of `POST /changes`, what a user looking at one
change, and what a caller of `BulkInsert` is told. In `AtomicLibrary` each call is
given one list, and `Land` takes that list and all of it.

### Correspondence

*Store.* `rows[r]` is the row of a request (`status`, `generated_hcl`,
`checkov_score`, `correction_attempts`; absent when there is none), `audit[r]`
the entries of that request in insertion order (action and the attempt number
in their details). Every statement has an outcome: `ok`, `unacked` (committed,
but the caller sees an error: lost connection, cancelled context) or `failed`.
`UPDATE ... WHERE id` overwrites whatever status is there, as the SQL does.
`StoreFaults = FALSE` leaves only `ok`. A statement that meets no row, because a
reset deleted it, changes nothing and is not acknowledged: the updates look at
`RowsAffected`, the entry is refused by the foreign key.

*CorrectionLoop.* `loop[r].pc` is where `Run` waits; each action is the code
between two waits:

| action | code |
|---|---|
| `Start` | `infraStore.Create` |
| `Generate`, `GenerateFails` | `GenerateHCL` and the audit entry after it |
| `StartPlan`, `PlanRefused`, `PlanReturns`, `PlanDeadline` | `RunTerraformPlan`: the run directory, terraform init and plan, the 30 s context |
| `StartScan`, `ScanReturns`, `ScanFails` | `RunCheckov`: `main.tf`, `checkov -d`, the 60 s context; then the branch `Run` takes (`Judge`) |
| `PersistPassed`, `LogComplete` | the branch that passed |
| `PersistFailed`, `MarkFailed`, `LogExhausted` | the budget is spent |
| `LogAttempt`, `Complete`, `CompleteFails` | another round: the correction prompt |
| `Crash` | the process ends; the directory (by default below /tmp) survives or not |

`ws[r]` holds the top `main.tf` and the sum of the checks of all run
directories, since `RunCheckov` scans the request's whole directory.
`loop[r].asked`, `loop[r].tried` and `loop[r].lost` (a statement whose error `Run`
drops was not acknowledged: `GoAnyway`) are history variables for the properties.

*ApprovalGate.* `call[c]` is one HTTP call: `Receive` (GetByID and the test for
`pending`), `SetStatus`, `LogDecision`, `TerraformInit`, `ApplyBegins`,
`ApplyFails`, `ApplySucceeds`, `MarkApplied`, `LogApplied`. `infra[r]` is the
outside world: texts whose apply began and texts whose apply succeeded.
terraform's own lock on the state of a directory admits one apply at a time.

*TerraSense* interleaves the two and adds `ServerCrash`, which ends all
goroutines at once (terraform children may still succeed), and `Reset`, the
commit of a demo reset at any moment: any set of the rows goes with its entries
(one created during the reset's transaction stays), the goroutines and the
directories stay. `erased` remembers which actions the deleted trails had.
Three constants state what the callers do: `AfterReply` (a change is decided
only after its 202), `Serial` (no two decisions on one change overlap) and
`MayReset` (somebody calls the reset). The code enforces none of them, so the
runs use both settings and say which property needs which.

*DemoReset.* Each call of `SeedDemoRequests` is a transaction at READ
COMMITTED. Its two DELETEs are modelled in two steps, the snapshot and the
deletion, because a statement deletes only rows its snapshot has, waits for a
row another transaction has deleted, and skips it when that one commits. The
foreign key is checked at the end of the second DELETE (`CheckPasses`,
`CheckFails`); a circle of waiters loses a victim (`Victim`); any statement may
fail (`Fail`), and the deferred `Rollback` undoes all. `OtherCreate` and
`OtherLog` are the single statements of loops and handlers.

*ModuleLibrary.* `library` maps each name to its committed row (its id, and by
call and position the text it has), `ins[t]` is the transaction of one call of
`BulkInsert`: its list, the statements done, and its own versions of rows, which
others wait for. An upsert meets the call's own version or the committed row and
keeps the id; `landed` records that it committed, for the refinement; `Commit`, `Fail`, `Rollback` and `Victim` are as in the reset.
`cmd/seed` passes one fixed list; the model takes any, as the store does.

*CheckovTally.* The calls of `runValidation` for one request, on the directory of
`Workspace`: `RunTerraformPlan` adds a run directory with the text (`PlanRefused`:
none), `RunCheckov` overwrites the top `main.tf` with the same text and scans
everything (`CheckovFails`: with or without having written). So the summary goes
from S + 2x to S + x + 2y when y follows x: the newest text counts twice, and the
extra count of the one before is lost. `result` is the last `CheckovResult`; `top`
and `since` remember which text its `main.tf` had and which got a run directory
after it, for `ATextTurnsTheVerdict`.

*PlanOutput.* `read` is what the scanner took so far, `count` the three counters,
`kept` the position of the line `PlanJSON` has for each type. `SkipLine`, `TakeLine`
and `ScanLong` take a line; within one that was understood `at` walks the lists of
actions, those of `"changes"` and then that of `"change"`: `CountWord` is one turn of
the switch, `NextList` and `EndOfLine` end the loops, `EndOfOutput` returns. A line
is empty, text that `json.Unmarshal` refuses (an object under `"changes"`, which
terraform's own `change_summary` has, is of this kind), too long for
`bufio.Scanner`, or an object with lists of actions.

*AuditPages.* `AuditLogStore.Create` in its two moments, `Insert` (the statement
takes its timestamp) and `Commit` (others see the entry), so that entries of
different connections become visible in any order and may share a timestamp;
`List` with the defaults for limit and page, its `LIMIT` and `OFFSET`, and the
order of equal timestamps chosen anew for each statement. The reader asks for
page after page until one is short. `Entries` are those the filters let
through: the `WHERE` clause restricts the set and nothing else. Nothing in the
server calls `List`; `GetAuditLog` is its first page with limit 20, asked once.
A reset is its transaction at READ COMMITTED: `DeleteLogs` takes the entries
visible at its start, `DeleteRows` the rows there at its own, and `CommitReset` takes
both away at once, if no entry of those rows has come in between (the foreign key).
A change created after the snapshots keeps its row and its entries, visible or in
flight, so a reset leaves some entries of the trail and takes others; and an entry
whose row is gone cannot commit.

*HttpLayers.* One request through `CORS`, `RequestLogger`,
`RecoveryMiddleware`, `RequestID` and the mux with `RequireAPIKey`, and back by
`Unwind` on a return or on a panic, up to `Recover`. A handler is the set of
statuses it answers with, and may panic before or after it answered.
`status` is the recorder that `RequestLogger` puts around the writer: it
notes each `WriteHeader`, while net/http (external) sends the first, with the
headers set by then. An unmatched route is answered 404 or 405, or redirected by the
mux (301, 307). The key is right or not: with an empty `API_KEY`, which `main.go:44`
accepts, an absent header is the right one.

Definitions marked "Slip" stand beside the operator they deform and are used by
no specification: each is a plausible mistake in that code, and replacing the
operator by it makes the property named in `PROJECT.json` fail.

## 3. What the runs check

| run | shows | instance |
|---|---|---|
| `ToolOutput` | Checkov: the truncated percentage against 80 is exactly four passed checks per failed one; the verdict on the directory turns only by a text that came with the new verdict itself, or by one with the old verdict that was overwritten. terraform: every create, update and delete is counted once whatever lines surround it | 7 texts, 3 calls of `runValidation`; up to 4 lines of 15 |
| `LoopFaults` | budget, passing text, order of the trail, row and trail tell the result of a run whose statements were acknowledged, refinement of `LoopContract`, each step leaves fewer to take, termination; under store faults, hanging tools, crashes | 1 request, 4 texts, 3 retries |
| `ServerAnyCaller` | `GatedApply`, `AnswersAreTrue`, `EachApplyIsApproved`, `DeletedStaysDeleted`, and rejections are answered, with calls that come at any time and overlap | 2 calls, faults, resets |
| `ServerOrderly` | each change follows `ChangeLifecycle`, and only the validated text that the row shows is applied (unless a statement of its loop was lost), when decisions come after the reply and one by one | 2 calls, 2 retries, faults, resets |
| `ReadApi` | pages: what was there when a reading began is shown, whatever commits or is deleted between two pages, and each repeat is an arrival. Layers: the log line tells the answer, no writer without the key, every answer is marked | 2 changes with 2 entries each, 1 reset, 3 instants, limits 1 to 3; one request, all of them |
| `DemoResetRaces` | no orphans, all or none of the demo rows, old rows gone, every reset ends | 2 resets, 1 other row, 2 entries, 3 demo rows |
| `LibraryRaces` | refinement of `AtomicLibrary`; every bulk insert ends | 3 calls, every list of up to 2 of 2 names |

Five runs show where the code does not do what its own text says:

* `LoopOwnScore`: a text that fails Checkov alone is accepted, because the scan
  of the directory counts the checks of earlier candidates (`checkov.go:103`;
  `loop.go:223` says the validation is of this text). `PassNeedsAPassingText`
  says what does hold: some candidate tried for the request passes by itself.
* `ServerEarlyDecision`: an approval during generation applies an unvalidated
  candidate (`handlers.go:172`; `handlers.go:146` speaks of "a validated change").
* `ServerOverlap`: two decisions both read `pending` and both write
  (`infra_request.go:149`; "Only changes in pending status may be approved").
* `ServerUnseen`: the validated text is not stored, its error is dropped
  (`loop.go:170`), and the change is applied without anyone having seen the text.
* `DemoResetTwice`: two overlapping resets leave six demo rows (`seed.go:181`).
  `CommitClears` says what does hold: the rows that were there at its beginning
  are gone, and a reset that ran alone leaves its own rows only.

Differences that need no run, met while modelling (`README.md` is the repository's):

* `README.md:90` describes the gate by HIGH and CRITICAL findings; the code
  compares the score with 80 and never looks at a severity.
* `README.md:80` promises a typed error when the budget is spent; `Run` returns
  no error and `CreateChange` answers 202 "pending, queued for approval".
* `loop.go:190` says an exhausted request is never stuck in pending; the error
  of that `UpdateStatus` is dropped, so it can be.
* `plan_executor.go:190` says every parsed line is stored; a later line of a type
  replaces the earlier one, so of a plan's lines one of each type is left.
* `middleware.go:73` answers 401 to an absent key, and `router.go:9` takes an empty
  key for the tests' affair; `main.go:44` passes on an empty `API_KEY`, and then a
  request without the header reaches every writer.
* `audit_log_test.go:35` speaks of a foreign key cascade; migration 002 has none (the
  test deletes the entries itself).
* `README.md:94` says no subprocess hangs; init and apply under `ApproveChange`
  have only the request's context.
* `README.md:96` says directories are cleaned up; nothing removes them.
* `models.go:47` calls the audit log append-only; the demo reset empties it.
* `README.md:88` says the approver's identity is recorded; the actor of every
  entry is `"system"`. `README.md:92` speaks of a bearer token; the middleware
  reads `X-API-Key`. `README.md:187` says the request moves to
  `pending_approval`; it is `pending` from its first insert.
* `middleware.go:30` logs "every request"; an `OPTIONS` is answered by the layer
  outside. A panic after the answer is logged as the 500 nobody got.
* `plan_executor.go:185` tolerates lines that are no JSON, but a line of more
  than 64 KB ends the scan and the plan counts as failed. `plan_executor.go:151`
  names `planned_changes` as the line that counts; lines of any type do, so drift
  is added in. No caller reads the counts.
* `GetAnalytics` counts `approved` rows as approvals; a change leaves that status
  when it is applied, so an apply lowers the rate.
* `AuditLogFilters.Status` (`audit_log.go:23`) is never used by `List`.
* Demo rows have no directory, so approving one fails at `terraform init` and
  leaves it `approved`, which no call can decide again.

### Bounds, and why they are enough

* *One request* in the loop and server runs. Requests share no variable: each
  action touches the row, trail, directory and goroutine of one request, and
  `Crash` acts on all alike. The theorems hold for any number.
* *Two calls*: overlap is a matter of two; a third call that overlaps adds no
  new pair. `ServerAnyCaller` has MaxRetries 1 because the decisions race the
  loop's stations, not its rounds; `LoopFaults` takes 3.
* *Three retries* exercise first, middle and last round; the constant may be
  any integer, and the theorems cover zero and negative ones.
* *Texts*: one that is fine, one that plans and scores 30, one that scores 90
  and does not plan, and the empty text, which plans and has no check at all.
  The server runs leave out the second, whose path the empty text takes, and
  `ServerAnyCaller` (`MCFewHCL`) the third as well: its properties do not depend
  on why a text fails, and terraform may refuse any text.
* *Resets* come at any moment and any number of times; a deleted row is not
  created again, so one request sees one effective reset.
* *ToolOutput*: the texts are empty, at the ratio (4:1, 8:2), around it (3:1, 1:0)
  and far from it (10:0, 0:2), so that sums pass 80 % from both sides, hit it and
  truncate just below; three calls are the budget of the default three retries, and
  have a text overwritten that came before the last result. The arithmetic is proved
  for all numbers. Four lines let two types each meet a second line and a line that
  is skipped; the shapes have no action, one, two of one resource, several
  resources, and a top-level `change`.
* *ReadApi*: four entries against limits of 1, 2 and the default 3 give readings of
  one to five pages with arrivals between them, entries that commit after and
  carry an older time, and equal times; two changes let a reset take one with its
  entries and leave the other. `HttpLayers` has no constants: its states are all
  there are.
* *DemoReset*: two resets and one foreign row with two entries suffice for
  every wait, including the deadlock in which each holds what the other wants.
* *LibraryRaces*: two names make the two orders that deadlock, a list with one
  name twice meets its own row; the third call comes between the other two.

### Fairness

`LoopFairSpec` gives each request weak fairness on its own steps: statements
and the model's calls return (with an error if need be: the pool and the SDK
have no other outcome than an answer or an error), and the deadlines of 30 and
60 seconds fire. terraform and Checkov themselves owe nothing; they may hang
until the deadline. (`exec.CommandContext` kills the process it started and, having
no `WaitDelay`, waits for its output to end: that no grandchild, such as a provider
plugin, outlives it with the pipe open is assumed.) Each request has one goroutine, so one `WF` per request is
what the Go scheduler gives. `FairSpec` of TerraSense owes only that handlers get
answers to their statements; its one liveness property needs nothing of the loops. terraform under `ApproveChange` has no deadline
and owes nothing, so the progress of approvals is not claimed. A decision that
nobody sends is not owed either. `FairSpec` of DemoReset: the handler proceeds,
the database answers, PostgreSQL resolves deadlocks; failures are not owed.
`FairSpec` of ModuleLibrary owes the same.

`CHECK_DEADLOCK FALSE` stands in every cfg because requests, calls and resets
are finite and may all have ended.

## 4. What is proved

For all sets of requests, texts and calls, every report of Checkov, every
integer `MaxRetries`, with and without store faults. The only hypotheses are
the assumptions on constants: `DataAssumption` (the reports are natural
numbers, `EmptyHCL` is a text, `NoHCL` is none), `StoreAssumption`,
`RetriesAssumption`, for `OrderlyServerProofs` how the callers behave
(`AfterReply`, `Serial`), and for the reset `SeededAssumption` (at least one demo
row) and `RowsAssumption` (generated ids differ from those of demo rows).

* `CheckovScoreProofs`: `VerdictIsExact`: the integer score reaches 80 exactly
  when passed ≥ 4 · failed and a check ran. `PoolingFailures` and
  `PoolingPasses`: adding the counts of two directories passes only if one of
  them passes, and passes if both do.
* `CorrectionLoopProofs`: `LoopTypeOK`, `SpendsItsBudget`,
  `PassNeedsAPassingText`. None is inductive. `LoopIInv` adds per goroutine:
  `TextOK` (what the candidate and `main.tf` are at each station), `CountOK`
  (attempts against corrections asked for and `MaxRetries`, station by
  station: that is why `attempts = asked` while validating and one more while
  giving up) and `TreeOK` (as long as no tried text passes by itself the run
  directories together do not, by `PoolingFailures`). One lemma per action.
  `TrailReadsInOrder` needs `TrailOK` besides: an empty trail until the first
  entry is due, and no outcome and no attempt beyond the count as long as `Run`
  may still log; then what it appends at a station keeps the order.
  `ResultsAreTold` is about a run none of whose statements was lost. `StoredInv`
  says what such a run has left at each station: the status, the fields that
  `UpdateHCLAndScore` wrote, the generation entry and the corrections 1 to n at
  their places, and the outcome behind them. It says nothing of a run that lost a
  statement, and needs to remember nothing of it, since `lost` stays TRUE.
  `ContractKept`: `LoopSpec` implements `ContractSpec` under the mapping `Phase`,
  `Texts`; every step is a step of the contract or a stutter, from `LoopIInv`.
  `RunsAreFinite` is the safety half of `EveryRunEnds`: `StepsLeft` (the steps of
  the round, and six for each correction the budget still has) is a natural
  number in the states of `LoopIInv` and every step of a run lowers it. What is
  left to TLC is that a next step comes.
* `ToolOutputProofs`. Checkov: `TallyTypeCorrect`, `VerdictStaysExact` and
  `TextsTurnTheVerdict`, for any number of attempts and any texts. The invariant has
  two halves for the time between two results. `StillFails`: after a failing one, as
  long as only texts that fail alone came, the run directories fail beside any
  `main.tf` that was there, and without it unless that was what failed; `StillPasses`
  the same of a passing one. Each step keeps them by `PoolingFailures` and
  `PoolingPasses`.
  terraform: `PlanTypeCorrect`, `EveryActionIsCounted`, for any lines. A count is the size of a set, the places of the output that mention
  the action. `CountsSoFar` says that it has that size for the places already
  passed (`Passed` compares line, list and word with `at`), so each `CountWord`
  adds one place or none; `Progress` says that a line left behind was walked to its
  end, so at the end the places passed are all of them.
* `ReadApiProofs`. Pages: `PagesTypeCorrect`, `NoSettledEntryIsMissed`,
  `RepeatsComeFromArrivals`, for any number of entries and any limit. The
  invariant `SettledAhead` says that an entry not yet shown has at least as many
  newer entries in front of it as the pages read so far took (`NextOffset`): a
  commit can only push it back, and a page shows exactly the places it takes.
  Resets take entries from the trail and leave others, so one could pull an entry back
  under the offset; `ResetOK` says why none does: an entry it leaves belongs to a row
  that came after the second snapshot, so it is no older than any the first found, and
  only what lies in front of an entry (the newer ones) moves it. Deleted entries are
  exempt from what a reading owes.
  `RepeatsBounded` counts
  repeats and entries that will be repeated (`Ahead`) against arrivals: a commit
  pushes at most one shown entry behind the offset.
  Layers: `HttpTypeCorrect`, `LogIsTrue`, `KeyGuardsWriters`, `AnswersAreMarked`.
  The run is exhaustive for the routes of today; the invariant says why it comes
  out so: `PlaceOK` (in which layer each way of going can be), `RecordOK` (the
  recorder has the status sent, but for the 500 of a recovery), `HeadersOK`,
  `KeyOK`.
* `TerraSenseProofs`: `ServerTypeCorrect`, `ApplyIsGated`, `AnswersTrue`,
  `DeletedForGood`, `AppliesArePaid`. The
  invariant is `LoopIInv` and, for each call, what its handler relies on at its
  station (`CallOK`: the entry before terraform, a finished apply before the row
  says applied) and for each change `ChangeOK`. The argument rests on three
  monotone facts: what a trail or a deleted trail attests only grows, succeeded
  applies only grow, and no step but `MarkApplied` makes a row read applied. A
  deleted change stays deleted because only `Start` inserts a row, which the loop
  does once, and every later statement of loop or handler is not acknowledged.
  `AppliesArePaid`, for any number of overlapping approvals: `CreditOK` counts the
  approvals that have written their first entry and may yet write the second
  (`Owing`); those and the `applied` entries together are never more than the
  `approved` ones, until the change is deleted and its trail takes no entry.
* `OrderlyServerProofs`: `OnlyValidated`, where changes are decided after their
  reply, and `LifecycleFollowed`, where moreover no two decisions on one change
  overlap. Neither hypothesis can go: an early approval applies a text nobody
  validated (`ServerEarlyDecision`), and of two overlapping decisions one
  overwrites the other (`ServerOverlap`), which is no move of the life cycle. The
  first rests on `ValidInv`: only a change that passed, or whose failure was lost,
  can be met pending after its reply, so every handler past its check and every
  apply belongs to such a change, and its `main.tf` is the text that passed. The
  second is a refinement, from `LifeInv`: a handler meets the row as it left it
  itself (`CallLife`, `Alone`), an `approved` entry belongs to an approved row,
  and deleted entries to deleted changes (`LoopLife`). An apply of a deleted
  change is one of an `orphaned` change because the deleted trail had the entry.
* `DemoResetProofs`: `ResetTypeCorrect`, `NothingIsOrphaned`,
  `DemoRowsComeTogether`, `CommitsClear`, for any number
  of resets and of demo rows. `TxOK` says that after the foreign key was checked
  no entry refers to a row the transaction deletes (new entries for those rows
  are held up), and how many rows it has inserted; `DemoOK` says that every
  snapshot and every set of deleted rows has the demo rows of each reset all or
  not at all, which is closed under the intersections and differences that
  DELETE and COMMIT form. For `CommitsClear` the invariant `ClearOK` says where
  each row a reset found is at each of its stations: still committed and in the
  snapshot, among those it deletes, or gone by another reset's commit.
* `ModuleLibraryProofs`: `LibraryTypeCorrect`, and `BulkInsertIsAtomic`: `BulkInsert` implements
  `AtomicLibrary` (each call lands its whole list at most once, in one step) for
  any number of calls and any lists, from
  `LibraryAssumption` (lists of names; `NoModule` is no row). The invariant says
  what a transaction has written after n statements (`WrittenOK`: the text of
  each name's last occurrence so far, with the id of the committed row) and that
  no two hold one name (`Apart`), so that the rows a transaction met are still
  the committed ones when it commits.

### Only model-checked

Liveness (`EveryRunEnds`, `RejectionsAreAnswered`, `EveryResetEnds`, `EveryInsertEnds`), which TLAPS cannot
treat: each needs fairness and ENABLED. Every invariant and every action property
of a passing run is also a theorem. The five runs that expect a violation refute
what they check, so there is nothing to prove.

## 5. Abstractions, and what is not modelled

* Texts, prompts, findings, severities and plan output are data: a text is a
  value with a verdict of terraform and a report of Checkov. The warnings of a
  row and its plan output are left out: no decision reads them.
* The answers of `terraform` may fail although the text is fine, and never
  succeed although it is not.
* `os.WriteFile` is atomic in the model. `GetByID` and `UpdateStatus` are the
  separate statements they are.
* 400 replies (an id that does not parse, a missing reason or description)
  touch no state and are left out.
* In `DemoReset` a DELETE takes its locks at once, when all its rows are free;
  PostgreSQL takes them row by row. What that could add are deadlocks between
  two DELETEs of one table, which end like the ones modelled.
* A reset is one step in `TerraSense`, and in `AuditPages` the snapshots of its two
  DELETEs and its commit; `DemoReset` takes its transaction apart, with waits, failures
  and overlap, and shows that it takes effect as a whole.
* Not modelled: the aggregates of `GetAnalytics` (sums over one committed state;
  data); configuration, start-up and the connection pool (they run before the
  first request, and the pool bounds only how long a statement waits); the state
  reader (nothing in the server calls it); the portal's pages (rendering; that
  one may be stale is in `AfterReply = FALSE` and in `Receive`, which reads the
  row anew).

## 6. Plan

Done in this order: `CheckovScore`, `Store` and `Workspace`, `CorrectionLoop`
with its contract, `ApprovalGate`, `TerraSense` with its life cycle, `DemoReset`,
`ModuleLibrary` with its atomic specification; then the reset against loops and
approvals in flight, `PlanOutput`, `AuditPages`, `HttpLayers`, and the proofs of
`CheckovTally`, `CommitClears`, `DeletedStaysDeleted`, `TrailReadsInOrder`,
`OnlyValidatedApplied` and `FollowsLifecycle`; then those of `PlanOutput`,
`AuditPages` and `HttpLayers`, of `RowTellsTheResult`, and the variant of the loop;
then `CheckovTally` on the directory of `Workspace`, resets that leave entries behind
in `AuditPages`, the list of each call in `AtomicLibrary`, and `EachApplyIsApproved`.

Left, proving more: variants for a reset and a bulk insert, the safety halves of
`EveryResetEnds` and `EveryInsertEnds`; and one decision per change when calls come
one at a time, which `FollowsLifecycle` contains but does not name.
