------------------------------- MODULE Store --------------------------------
(***************************************************************************)
(* internal/store over the tables of internal/db/migrations: one row per   *)
(* change request and its audit trail.  Each operation is one statement,   *)
(* committed on its own: no handler holds a transaction across two.        *)
(***************************************************************************)
EXTENDS ChangeData

CONSTANT StoreFaults    \* may a statement fail?
ASSUME StoreAssumption == StoreFaults \in BOOLEAN

VARIABLES
    rows,    \* infra_requests
    audit    \* audit_logs, the entries of each request in insertion order

storeVars == <<rows, audit>>

Statuses == {"pending", "approved", "rejected", "applied", "failed"}

Row == [status : Statuses \union {"absent"}, hcl : HCLOrNone, score : Nat,
        attempts : Nat]

NoRow == [status |-> "absent", hcl |-> NoHCL, score |-> 0, attempts |-> 0]
PendingRow == [NoRow EXCEPT !.status = "pending"]

\* The actions the handlers and the loop write (the column is free text), and
\* the correction_attempts or attempt of an entry's details.
Actions == {"generation_attempt", "correction_attempt", "generation_complete",
            "correction_exhausted", "approved", "rejected", "applied"}
Entry == [action : Actions, attempt : Nat]

\* A statement commits and says so, commits without the answer arriving (the
\* connection or the request's context is gone), or does not commit.
Outcomes == IF StoreFaults THEN {"ok", "unacked", "failed"} ELSE {"ok"}

\* A statement that meets no row changes none.
Reaches(r, o) == o # "failed" /\ rows[r].status # "absent"

\* Slip: RowsAffected() is not looked at, and no foreign key refuses.
AckedWithoutRow(r, o) == o = "ok"

\* What the caller sees as err == nil: an answer, and RowsAffected() # 0 (for
\* an insert into audit_logs, a request_id the foreign key accepts).
Acked(r, o) == o = "ok" /\ rows[r].status # "absent"

StoreInit == /\ rows = [r \in Requests |-> NoRow]
             /\ audit = [r \in Requests |-> <<>>]

\* InfraRequestStore.Create; status takes the column's default.
CreateRow(r, o) ==
    /\ rows' = IF o # "failed" THEN [rows EXCEPT ![r] = PendingRow] ELSE rows
    /\ audit' = audit

\* The WHERE clause names the id only: the status found there is overwritten
\* whatever it is.
UpdateStatus(r, s, o) ==
    /\ rows' = IF Reaches(r, o) THEN [rows EXCEPT ![r].status = s] ELSE rows
    /\ audit' = audit

\* Slip: the column correction_attempts is left out.
UpdateHCLOnly(r, hcl, score, attempts, o) ==
    /\ rows' = IF Reaches(r, o)
                 THEN [rows EXCEPT ![r].hcl = hcl, ![r].score = score]
                 ELSE rows
    /\ audit' = audit

UpdateHCLAndScore(r, hcl, score, attempts, o) ==
    /\ rows' = IF Reaches(r, o)
                 THEN [rows EXCEPT ![r].hcl = hcl, ![r].score = score,
                                   ![r].attempts = attempts]
                 ELSE rows
    /\ audit' = audit

\* AuditLogStore.Create.
CreateAudit(r, action, n, o) ==
    /\ audit' = IF Reaches(r, o)
                  THEN [audit EXCEPT ![r] =
                          Append(@, [action |-> action, attempt |-> n])]
                  ELSE audit
    /\ rows' = rows

Logged(r, action) == \E i \in 1..Len(audit[r]) : audit[r][i].action = action
=============================================================================
