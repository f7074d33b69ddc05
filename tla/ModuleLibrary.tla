--------------------------- MODULE ModuleLibrary ----------------------------
(***************************************************************************)
(* internal/store: ModuleStore.BulkInsert on terraform_modules, called by  *)
(* cmd/seed: one transaction, one upsert by name for each module of the    *)
(* list, against other bulk inserts.                                       *)
(*                                                                         *)
(* PostgreSQL: INSERT ... ON CONFLICT waits for a transaction that has     *)
(* written the same name, and then meets what that one committed.          *)
(***************************************************************************)
EXTENDS Naturals, Sequences

CONSTANTS
    Inserts,    \* calls of BulkInsert
    Names,      \* the values of the UNIQUE column name
    Lists,      \* the lists of modules, by their names
    NoModule    \* no row of that name

\* gen_random_uuid() gives an insert's row an id of its own; the other columns
\* are known by the call and the position in its list they come from.
Module == [id : Inserts, text : Inserts \X (Nat \ {0})]

ASSUME LibraryAssumption == Lists \subseteq Seq(Names) /\ NoModule \notin Module

VARIABLES
    library,    \* committed rows of terraform_modules
    ins         \* the transaction of each call

vars == <<library, ins>>

Rows == [Names -> Module \union {NoModule}]

Ins == [pc : {"idle", "open", "ok", "error"},
        list : Lists \union {<<>>},
        n : Nat,            \* statements done
        written : Rows,     \* its own versions, locked until it ends
        landed : BOOLEAN]   \* history: it committed

Nothing == [n \in Names |-> NoModule]
NoIns == [pc |-> "idle", list |-> <<>>, n |-> 0, written |-> Nothing,
          landed |-> FALSE]

Init == library = Nothing /\ ins = [t \in Inserts |-> NoIns]

IsOpen(t) == ins[t].pc = "open"
More(t) == ins[t].n < Len(ins[t].list)
NextName(t) == ins[t].list[ins[t].n + 1]

Waits(t, u) == /\ u # t /\ IsOpen(t) /\ More(t)
               /\ ins[u].written[NextName(t)] # NoModule

-----------------------------------------------------------------------------
\* An empty list opens no transaction.
Begin(t, list) ==
    /\ ins[t].pc = "idle"
    /\ ins' = [ins EXCEPT ![t].pc = IF list = <<>> THEN "ok" ELSE "open",
                          ![t].list = list]
    /\ UNCHANGED library

\* The row the statement meets: its own version, or the committed one.
Met(t, name) == IF ins[t].written[name] # NoModule THEN ins[t].written[name]
                                                   ELSE library[name]

\* Slip: the positions of a Go slice.
UpsertedFromZero(t, old) == [id |-> IF old = NoModule THEN t ELSE old.id,
                             text |-> <<t, ins[t].n>>]

Upserted(t, old) == [id |-> IF old = NoModule THEN t ELSE old.id,
                     text |-> <<t, ins[t].n + 1>>]

Upsert(t) ==
    /\ IsOpen(t) /\ More(t)
    /\ \A u \in Inserts : ~Waits(t, u)
    /\ ins' = [ins EXCEPT ![t].n = @ + 1,
                          ![t].written[NextName(t)] = Upserted(t, Met(t, NextName(t)))]
    /\ UNCHANGED library

\* Slip: an error in the loop over the list ends it, and what was done is kept.
CommitSoFar(t, reply) ==
    /\ IsOpen(t)
    /\ library' = [n \in Names |-> IF ins[t].written[n] # NoModule
                                     THEN ins[t].written[n] ELSE library[n]]
    /\ ins' = [ins EXCEPT ![t].pc = reply, ![t].written = Nothing, ![t].landed = TRUE]

\* The answer to COMMIT may be lost: an error for an insert that was done.
Commit(t, reply) ==
    /\ IsOpen(t) /\ ~More(t)
    /\ library' = [n \in Names |-> IF ins[t].written[n] # NoModule
                                     THEN ins[t].written[n] ELSE library[n]]
    /\ ins' = [ins EXCEPT ![t].pc = reply, ![t].written = Nothing, ![t].landed = TRUE]

\* Slip: the transaction is left open.
ReturnsOnly(t) == ins' = [ins EXCEPT ![t].pc = "error"]

\* The deferred Rollback.
Rollback(t) == ins' = [ins EXCEPT ![t].pc = "error", ![t].written = Nothing]

\* Any statement can fail, Begin included.
Fail(t) ==
    /\ ins[t].pc \in {"idle", "open"}
    /\ Rollback(t)
    /\ UNCHANGED library

\* PostgreSQL ends a circle of waiters by failing one of them.
Deadlocked(t) ==
    \E C \in SUBSET Inserts : t \in C /\ \A u \in C : \E v \in C : Waits(u, v)
Victim(t) == Deadlocked(t) /\ Rollback(t) /\ UNCHANGED library

Step(t) == Upsert(t) \/ (\E reply \in {"ok", "error"} : Commit(t, reply)) \/ Victim(t)

Next == \E t \in Inserts : \/ \E list \in Lists : Begin(t, list)
                           \/ Step(t)
                           \/ Fail(t)

Spec == Init /\ [][Next]_vars

\* BulkInsert goes from statement to statement and the database answers each.
FairSpec == Spec /\ \A t \in Inserts : WF_vars(Step(t))
-----------------------------------------------------------------------------
TypeOK == library \in Rows /\ ins \in [Inserts -> Ins]

\* However bulk inserts interleave, fail or deadlock, each lands the very list
\* it was called with, all of it in one step, or nothing of it ever (BulkInsert:
\* "either all modules land or none do").
Atomic == INSTANCE AtomicLibrary WITH asked <- [t \in Inserts |-> ins[t].list],
                                      landed <- {t \in Inserts : ins[t].landed}
LandsAtomically == Atomic!LibrarySpec

\* Every bulk insert ends, whatever order the others take the names in.
EveryInsertEnds == \A t \in Inserts : IsOpen(t) ~> ~IsOpen(t)
=============================================================================
