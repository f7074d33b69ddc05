---------------------------- MODULE ApprovalGate ----------------------------
(***************************************************************************)
(* internal/api: ApproveChange and RejectChange, the only code that runs   *)
(* terraform apply.  One handler goroutine per HTTP call; an action ends   *)
(* where it waits for the database or for terraform.                       *)
(***************************************************************************)
EXTENDS Store, Workspace

CONSTANT Calls      \* HTTP calls; which decision on which change is open

VARIABLES
    call,   \* the goroutine of each call
    infra   \* the real infrastructure of each request: the texts whose apply
            \* began, and those whose apply succeeded

Replies == {"200", "404", "409", "500"}
Deciding == {"set_status", "log_decision"}
Terraforming == {"init", "apply", "applying"}
Recording == {"mark_applied", "log_applied"}
InHandler == Deciding \union Terraforming \union Recording

CallState == [pc : {"idle", "crashed"} \union InHandler \union Replies,
              kind : {"approve", "reject"},
              req : Requests,
              hcl : HCLOrNone]      \* the main.tf terraform apply read

Infra == [begun : SUBSET HCLOrNone, done : SUBSET HCLOrNone]

GateInit ==
    /\ call \in [Calls -> [pc : {"idle"}, kind : {"approve", "reject"},
                           req : Requests, hcl : {NoHCL}]]
    /\ infra = [r \in Requests |-> [begun |-> {}, done |-> {}]]

CallAt(c, pc) == call[c].pc = pc
Reply(c, pc) == call' = [call EXCEPT ![c].pc = pc]

Decision(c) == IF call[c].kind = "approve" THEN "approved" ELSE "rejected"

-----------------------------------------------------------------------------
\* Slip: the status is not looked at.
AnyVerdict(r, o) == IF o # "ok" THEN "500"
                    ELSE IF rows[r].status = "absent" THEN "404" ELSE "set_status"

\* GetByID and the test of its status; what follows acts on this one reading.
\* (400 for an id that does not parse or a missing reason touches no state.)
Verdict(r, o) == IF o # "ok" THEN "500"
                 ELSE CASE rows[r].status = "absent" -> "404"
                        [] rows[r].status = "pending" -> "set_status"
                        [] OTHER -> "409"

Receive(c, o) ==
    /\ CallAt(c, "idle")
    /\ Reply(c, Verdict(call[c].req, o))
    /\ UNCHANGED <<rows, audit, ws, infra>>

SetStatus(c, o) ==
    /\ CallAt(c, "set_status")
    /\ UpdateStatus(call[c].req, Decision(c), o)
    /\ Reply(c, IF Acked(call[c].req, o) THEN "log_decision" ELSE "500")
    /\ UNCHANGED <<ws, infra>>

\* Slips: the error is dropped; a rejection goes on like an approval.
LogDecisionUnchecked(c, o) ==
    /\ CallAt(c, "log_decision")
    /\ CreateAudit(call[c].req, Decision(c), 0, o)
    /\ Reply(c, IF call[c].kind = "reject" THEN "200" ELSE "init")
    /\ UNCHANGED <<ws, infra>>

LogDecisionGoesOn(c, o) ==
    /\ CallAt(c, "log_decision")
    /\ CreateAudit(call[c].req, Decision(c), 0, o)
    /\ Reply(c, IF Acked(call[c].req, o) THEN "init" ELSE "500")
    /\ UNCHANGED <<ws, infra>>

LogDecision(c, o) ==
    /\ CallAt(c, "log_decision")
    /\ CreateAudit(call[c].req, Decision(c), 0, o)
    /\ Reply(c, IF ~Acked(call[c].req, o) THEN "500"
                ELSE IF call[c].kind = "reject" THEN "200" ELSE "init")
    /\ UNCHANGED <<ws, infra>>

\* terraform init: needs the directory, and providers that download.
TerraformInit(c, ok) ==
    /\ CallAt(c, "init")
    /\ ok => ws[call[c].req].exists
    /\ Reply(c, IF ok THEN "apply" ELSE "500")
    /\ UNCHANGED <<rows, audit, ws, infra>>

\* terraform apply reads main.tf and takes the lock on the directory's state.
ApplyBegins(c) ==
    LET r == call[c].req
    IN /\ CallAt(c, "apply")
       /\ ws[r].main \in Plannable
       /\ \A d \in Calls : CallAt(d, "applying") => call[d].req # r
       /\ infra' = [infra EXCEPT ![r].begun = @ \union {ws[r].main}]
       /\ call' = [call EXCEPT ![c].pc = "applying", ![c].hcl = ws[r].main]
       /\ UNCHANGED <<rows, audit, ws>>

\* Slip: the error of terraform apply is logged and forgotten.
ApplyFailsUnnoticed(c) ==
    /\ CallAt(c, "apply") \/ CallAt(c, "applying")
    /\ Reply(c, "mark_applied")
    /\ UNCHANGED <<rows, audit, ws, infra>>

\* It fails before or after it changed something: 500, and the row stays
\* approved.
ApplyFails(c) ==
    /\ CallAt(c, "apply") \/ CallAt(c, "applying")
    /\ Reply(c, "500")
    /\ UNCHANGED <<rows, audit, ws, infra>>

ApplySucceeds(c) ==
    /\ CallAt(c, "applying")
    /\ infra' = [infra EXCEPT ![call[c].req].done = @ \union {call[c].hcl}]
    /\ Reply(c, "mark_applied")
    /\ UNCHANGED <<rows, audit, ws>>

\* Slip: a status the column has no value for.
MarkDone(c, o) ==
    /\ CallAt(c, "mark_applied")
    /\ UpdateStatus(call[c].req, "done", o)
    /\ Reply(c, IF Acked(call[c].req, o) THEN "log_applied" ELSE "500")
    /\ UNCHANGED <<ws, infra>>

MarkApplied(c, o) ==
    /\ CallAt(c, "mark_applied")
    /\ UpdateStatus(call[c].req, "applied", o)
    /\ Reply(c, IF Acked(call[c].req, o) THEN "log_applied" ELSE "500")
    /\ UNCHANGED <<ws, infra>>

LogApplied(c, o) ==
    /\ CallAt(c, "log_applied")
    /\ CreateAudit(call[c].req, "applied", 0, o)
    /\ Reply(c, IF Acked(call[c].req, o) THEN "200" ELSE "500")
    /\ UNCHANGED <<ws, infra>>

-----------------------------------------------------------------------------
\* The server process ends.  A terraform apply it started is not told: it may
\* go on and succeed.
CrashCalls ==
    /\ call' = [c \in Calls |->
                  IF call[c].pc \in InHandler THEN [call[c] EXCEPT !.pc = "crashed"]
                                              ELSE call[c]]
    /\ \E orphans \in SUBSET {c \in Calls : CallAt(c, "applying")} :
         infra' = [r \in Requests |-> [infra[r] EXCEPT !.done =
                     @ \union {call[c].hcl : c \in {d \in orphans : call[d].req = r}}]]

\* The statements of the handlers; the database answers each.
GateDatabaseStep(c) ==
    \E o \in Outcomes : \/ SetStatus(c, o) \/ LogDecision(c, o)
                        \/ MarkApplied(c, o) \/ LogApplied(c, o)

\* terraform, which r.Context() stops only when the client leaves.
TerraformStep(c) ==
    \/ \E ok \in BOOLEAN : TerraformInit(c, ok)
    \/ ApplyBegins(c) \/ ApplyFails(c) \/ ApplySucceeds(c)
=============================================================================
