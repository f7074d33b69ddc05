----------------------------- MODULE DemoReset ------------------------------
(***************************************************************************)
(* internal/demo: SeedDemoRequests, behind DELETE /api/v1/demo/reset and   *)
(* cmd/seed_demo: one transaction that empties audit_logs and              *)
(* infra_requests and inserts the demo rows, against other resets and      *)
(* against the single statements of the loops and the handlers.            *)
(*                                                                         *)
(* PostgreSQL at its default, READ COMMITTED: a statement sees what was    *)
(* committed when it started; a row another transaction has deleted is     *)
(* waited for and, once that commits, skipped.                             *)
(***************************************************************************)
EXTENDS Naturals, FiniteSets

CONSTANTS
    Resets,     \* calls of SeedDemoRequests
    Rows,       \* ids of the rows the loops create
    EntryIds,   \* ids of the entries the loops and the handlers write
    Seeded      \* len(demoRows)

ASSUME SeededAssumption == Seeded \in Nat \ {0}
ASSUME RowsAssumption == Rows \cap (Resets \X (1..Seeded)) = {}

VARIABLES
    requests,   \* committed rows of infra_requests
    logs,       \* committed rows of audit_logs
    born,       \* ids in use: gen_random_uuid() repeats none
    tx          \* the transaction of each reset

vars == <<requests, logs, born, tx>>

DemoRows(t) == {t} \X (1..Seeded)
AllDemo == Resets \X (1..Seeded)
RowIds == Rows \union AllDemo
Entry == [id : EntryIds, row : RowIds]

Deleting == {"logs", "deleting_logs", "rows", "deleting_rows", "checking"}
Open == Deleting \union {"insert", "commit"}
Ended == {"200", "500"}

Tx == [pc : {"idle"} \union Open \union Ended,
       seenLogs : SUBSET Entry,     \* snapshot of the running DELETE
       seenRows : SUBSET RowIds,
       logs : SUBSET Entry,         \* deleted by it, and so locked
       rows : SUBSET RowIds,
       n : 0..Seeded,               \* demo rows inserted by it
       before : SUBSET RowIds,      \* history: the rows when it began
       alone : BOOLEAN]             \* history: no other was open meanwhile

NoTx == [pc |-> "idle", seenLogs |-> {}, seenRows |-> {}, logs |-> {}, rows |-> {},
         n |-> 0, before |-> {}, alone |-> TRUE]

Init == /\ requests = {} /\ logs = {} /\ born = {}
        /\ tx = [t \in Resets |-> NoTx]

At(t, pc) == tx[t].pc = pc
IsOpen(t) == tx[t].pc \in Open

\* Entries that keep t from deleting the rows it has locked.
Referring(t) == {e \in logs : e.row \in tx[t].rows} \ tx[t].logs

Waits(t, u) ==
    /\ u # t
    /\ \/ At(t, "deleting_logs") /\ tx[t].seenLogs \cap tx[u].logs # {}
       \/ At(t, "deleting_rows") /\ tx[t].seenRows \cap tx[u].rows # {}
       \/ At(t, "checking") /\ Referring(t) \cap tx[u].logs # {}

-----------------------------------------------------------------------------
Begin(t) ==
    /\ At(t, "idle")
    /\ tx' = [u \in Resets |->
                IF u = t THEN [NoTx EXCEPT !.pc = "logs", !.before = requests,
                                           !.alone = \A v \in Resets : ~IsOpen(v)]
                ELSE IF IsOpen(u) THEN [tx[u] EXCEPT !.alone = FALSE] ELSE tx[u]]
    /\ UNCHANGED <<requests, logs, born>>

\* DELETE FROM audit_logs: the snapshot, then the rows, when they are free.
ScanLogs(t) ==
    /\ At(t, "logs")
    /\ tx' = [tx EXCEPT ![t].pc = "deleting_logs", ![t].seenLogs = logs]
    /\ UNCHANGED <<requests, logs, born>>

DeleteLogs(t) ==
    /\ At(t, "deleting_logs")
    /\ \A u \in Resets : ~Waits(t, u)
    /\ tx' = [tx EXCEPT ![t].pc = "rows", ![t].logs = @ \union (tx[t].seenLogs \cap logs)]
    /\ UNCHANGED <<requests, logs, born>>

\* DELETE FROM infra_requests, in the same way ...
ScanRows(t) ==
    /\ At(t, "rows")
    /\ tx' = [tx EXCEPT ![t].pc = "deleting_rows", ![t].seenRows = requests]
    /\ UNCHANGED <<requests, logs, born>>

\* Slip: the rows whose entries are in the way are spared.
DeleteUnloggedRows(t) ==
    /\ At(t, "deleting_rows")
    /\ \A u \in Resets : ~Waits(t, u)
    /\ tx' = [tx EXCEPT ![t].pc = "checking",
                        ![t].rows = (tx[t].seenRows \cap requests)
                                       \ {e.row : e \in logs \ tx[t].logs}]
    /\ UNCHANGED <<requests, logs, born>>

DeleteRows(t) ==
    /\ At(t, "deleting_rows")
    /\ \A u \in Resets : ~Waits(t, u)
    /\ tx' = [tx EXCEPT ![t].pc = "checking", ![t].rows = tx[t].seenRows \cap requests]
    /\ UNCHANGED <<requests, logs, born>>

\* Slip: the column without REFERENCES.
PassesUnchecked(t) ==
    /\ At(t, "checking")
    /\ tx' = [tx EXCEPT ![t].pc = "insert"]
    /\ UNCHANGED <<requests, logs, born>>

\* ... and at its end the foreign key of audit_logs.
CheckPasses(t) ==
    /\ At(t, "checking")
    /\ Referring(t) = {}
    /\ tx' = [tx EXCEPT ![t].pc = "insert"]
    /\ UNCHANGED <<requests, logs, born>>

\* However a transaction ends, its locks and what it has not committed are gone.
Finished(x, reply) ==
    [NoTx EXCEPT !.pc = reply, !.before = x.before, !.alone = x.alone]

\* Slip: the transaction is left open.
ReturnsOnly(t) == tx' = [tx EXCEPT ![t].pc = "500"]
Rollback(t) == tx' = [tx EXCEPT ![t] = Finished(@, "500")]

CheckFails(t) ==
    /\ At(t, "checking")
    /\ \E e \in Referring(t) : \A u \in Resets \ {t} : e \notin tx[u].logs
    /\ Rollback(t)
    /\ UNCHANGED <<requests, logs, born>>

\* Slip: the row goes to the pool, outside the transaction.
InsertAtOnce(t) ==
    /\ At(t, "insert")
    /\ requests' = requests \union {<<t, tx[t].n + 1>>}
    /\ tx' = [tx EXCEPT ![t].n = @ + 1,
                        ![t].pc = IF tx[t].n + 1 = Seeded THEN "commit" ELSE "insert"]
    /\ UNCHANGED <<logs, born>>

\* Slip: one row too many.
InsertPastTheEnd(t) ==
    /\ At(t, "insert")
    /\ tx' = [tx EXCEPT ![t].n = @ + 1,
                        ![t].pc = IF tx[t].n = Seeded THEN "commit" ELSE "insert"]
    /\ UNCHANGED <<requests, logs, born>>

Insert(t) ==
    /\ At(t, "insert")
    /\ tx' = [tx EXCEPT ![t].n = @ + 1,
                        ![t].pc = IF tx[t].n + 1 = Seeded THEN "commit" ELSE "insert"]
    /\ UNCHANGED <<requests, logs, born>>

\* The answer to COMMIT may be lost: an error for a reset that was done.
Commit(t, reply) ==
    /\ At(t, "commit")
    /\ requests' = (requests \ tx[t].rows) \union ({t} \X (1..tx[t].n))
    /\ logs' = logs \ tx[t].logs
    /\ tx' = [tx EXCEPT ![t] = Finished(@, reply)]
    /\ UNCHANGED born

\* Any statement can fail, Begin included; a cancelled request does the same.
Fail(t) ==
    /\ At(t, "idle") \/ IsOpen(t)
    /\ Rollback(t)
    /\ UNCHANGED <<requests, logs, born>>

\* PostgreSQL ends a circle of waiters by failing one of them.
Deadlocked(t) ==
    \E C \in SUBSET Resets : t \in C /\ \A u \in C : \E v \in C : Waits(u, v)
Victim(t) == Deadlocked(t) /\ Rollback(t) /\ UNCHANGED <<requests, logs, born>>

-----------------------------------------------------------------------------
\* The other writers commit each statement on its own.  An entry for a row that
\* a reset has deleted waits for it, and is refused when it commits.
OtherCreate(r) ==
    /\ r \notin born
    /\ requests' = requests \union {r}
    /\ born' = born \union {r}
    /\ UNCHANGED <<logs, tx>>

OtherLog(i, r) ==
    /\ i \notin born
    /\ r \in requests
    /\ \A t \in Resets : r \notin tx[t].rows
    /\ logs' = logs \union {[id |-> i, row |-> r]}
    /\ born' = born \union {i}
    /\ UNCHANGED <<requests, tx>>

Step(t) == \/ ScanLogs(t) \/ DeleteLogs(t) \/ ScanRows(t) \/ DeleteRows(t)
           \/ CheckPasses(t) \/ CheckFails(t) \/ Insert(t)
           \/ (\E reply \in Ended : Commit(t, reply)) \/ Victim(t)

Next == \/ \E t \in Resets : Begin(t) \/ Step(t) \/ Fail(t)
        \/ \E r \in Rows : OtherCreate(r)
        \/ \E i \in EntryIds, r \in RowIds : OtherLog(i, r)

Spec == Init /\ [][Next]_vars

\* The handler goes from statement to statement and the database answers each.
FairSpec == Spec /\ \A t \in Resets : WF_vars(Step(t))
-----------------------------------------------------------------------------
TypeOK == /\ requests \subseteq RowIds /\ logs \subseteq Entry
          /\ born \subseteq Rows \union EntryIds
          /\ tx \in [Resets -> Tx]

\* No entry is left without its row, however resets and other statements
\* interleave (audit_logs.request_id REFERENCES infra_requests).
NoOrphans == \A e \in logs : e.row \in requests

\* The demo rows of a reset appear together and disappear together
\* (SeedDemoRequests: tx.Exec, Commit, deferred Rollback).
AllOrNone ==
    \A t \in Resets : requests \cap DemoRows(t) \in {{}, DemoRows(t)}

\* A reset that commits has removed every row that was there when it began,
\* demo rows of other resets included; and one that ran alone leaves its own
\* demo rows only ("deletes all existing infra_requests and inserts the 3 demo
\* rows").
CommitClears ==
    [][\A t \in Resets :
         DemoRows(t) \subseteq requests' /\ ~(DemoRows(t) \subseteq requests) =>
            /\ requests' \cap tx[t].before = {}
            /\ tx[t].alone => requests' \cap AllDemo = DemoRows(t)]_vars

\* Every reset that began ends, whoever waits for whom.
EveryResetEnds == \A t \in Resets : IsOpen(t) ~> ~IsOpen(t)

\* seed.go: "deletes all existing infra_requests and inserts the 3 demo rows".
OnlyOneSetOfDemoRows == Cardinality(requests \cap AllDemo) <= Seeded
=============================================================================
