-------------------------- MODULE DemoResetProofs ---------------------------
(***************************************************************************)
(* Theorems about SeedDemoRequests for any number of resets and of other   *)
(* writers.                                                                *)
(***************************************************************************)
EXTENDS DemoReset, TLAPS

\* A set of rows holds the demo rows of t together.
Together(S, t) == S \cap DemoRows(t) \in {{}, DemoRows(t)}

\* What a transaction has at each station: once the foreign key was checked no
\* entry refers to a row it deletes, and it has counted its inserts.
TxOK(t) ==
    /\ tx[t].pc \in {"insert", "commit"} => Referring(t) = {}
    /\ tx[t].pc \in Deleting => tx[t].n = 0
    /\ tx[t].pc = "insert" => tx[t].n < Seeded
    /\ tx[t].pc = "commit" => tx[t].n = Seeded

\* The demo rows of t come with its commit, and every snapshot has all or none.
DemoOK(t) ==
    /\ tx[t].pc \in {"idle"} \union Open => requests \cap DemoRows(t) = {}
    /\ Together(requests, t)
    /\ \A u \in Resets : Together(tx[u].seenRows, t) /\ Together(tx[u].rows, t)

IInv == TypeOK /\ NoOrphans /\ \A t \in Resets : TxOK(t) /\ DemoOK(t)

-----------------------------------------------------------------------------
(* Sets that hold the demo rows together.                                    *)

LEMMA TogetherEmpty == \A t \in Resets : Together({}, t)
BY DEF Together

LEMMA TogetherCap ==
    ASSUME NEW A, NEW B, NEW t \in Resets, Together(A, t), Together(B, t)
    PROVE  Together(A \cap B, t)
<1>1. CASE A \cap DemoRows(t) = {}
  BY <1>1 DEF Together
<1>2. CASE A \cap DemoRows(t) = DemoRows(t)
  <2>1. (A \cap B) \cap DemoRows(t) = B \cap DemoRows(t)
    BY <1>2
  <2> QED BY <2>1 DEF Together
<1> QED BY <1>1, <1>2 DEF Together

LEMMA TogetherMinus ==
    ASSUME NEW A, NEW B, NEW t \in Resets, Together(A, t), Together(B, t)
    PROVE  Together(A \ B, t)
<1>1. CASE A \cap DemoRows(t) = {} \/ B \cap DemoRows(t) = DemoRows(t)
  BY <1>1 DEF Together
<1>2. CASE A \cap DemoRows(t) = DemoRows(t) /\ B \cap DemoRows(t) = {}
  <2>1. (A \ B) \cap DemoRows(t) = DemoRows(t)
    BY <1>2
  <2> QED BY <2>1 DEF Together
<1> QED BY <1>1, <1>2 DEF Together

LEMMA DemoRowsDisjoint ==
    \A t, u \in Resets : t # u => DemoRows(t) \cap DemoRows(u) = {}
BY DEF DemoRows

LEMMA DemoRowsAreNoOthers ==
    \A t \in Resets : DemoRows(t) \cap Rows = {} /\ DemoRows(t) \subseteq RowIds
BY RowsAssumption DEF DemoRows, AllDemo, RowIds

-----------------------------------------------------------------------------
(* Steps of one transaction.                                                 *)

\* A step that changes only the record of t, to x.
LEMMA BecomeInv ==
    ASSUME IInv, NEW t \in Resets, NEW x \in Tx,
           tx' = [tx EXCEPT ![t] = x], UNCHANGED <<requests, logs, born>>,
           x.pc \in {"insert", "commit"}
             => \A e \in logs : e.row \in x.rows => e \in x.logs,
           x.pc \in Deleting => x.n = 0,
           x.pc = "insert" => x.n < Seeded,
           x.pc = "commit" => x.n = Seeded,
           tx[t].pc \in {"idle"} \union Open \/ x.pc \notin {"idle"} \union Open,
           \A u \in Resets : Together(x.seenRows, u) /\ Together(x.rows, u)
    PROVE  IInv'
<1>1. tx \in [Resets -> Tx]
  BY DEF IInv, TypeOK
<1>2. tx'[t] = x /\ \A u \in Resets \ {t} : tx'[u] = tx[u]
  BY <1>1
<1>3. TypeOK' /\ NoOrphans'
  BY <1>1 DEF IInv, TypeOK, NoOrphans
<1>4. ASSUME NEW u \in Resets
      PROVE  TxOK(u)'
  <2>1. CASE u = t
    BY <1>2, <2>1 DEF TxOK, Referring
  <2>2. CASE u # t
    BY <1>2, <2>2 DEF IInv, TxOK, Referring
  <2> QED BY <2>1, <2>2
<1>5. ASSUME NEW u \in Resets
      PROVE  DemoOK(u)'
  <2>1. DemoOK(u)
    BY DEF IInv
  <2>2. tx'[u].pc \in {"idle"} \union Open => tx[u].pc \in {"idle"} \union Open
    BY <1>2
  <2>3. \A v \in Resets : Together(tx'[v].seenRows, u) /\ Together(tx'[v].rows, u)
    BY <1>2, <2>1 DEF DemoOK
  <2> QED BY <2>1, <2>2, <2>3 DEF DemoOK, Together
<1> QED BY <1>3, <1>4, <1>5 DEF IInv

LEMMA Facts ==
    ASSUME IInv, NEW t \in Resets
    PROVE  /\ tx \in [Resets -> Tx] /\ tx[t] \in Tx
           /\ requests \subseteq RowIds /\ logs \subseteq Entry
           /\ TxOK(t) /\ DemoOK(t)
           /\ \A u \in Resets : /\ Together(requests, u)
                                /\ Together(tx[t].seenRows, u) /\ Together(tx[t].rows, u)
BY DEF IInv, TypeOK, DemoOK

LEMMA NoTxType ==
    ASSUME SeededAssumption
    PROVE  NoTx \in Tx /\ NoTx.rows = {} /\ NoTx.seenRows = {}
<1>1. 0 \in 0..Seeded
  BY SeededAssumption
<1> QED BY <1>1 DEF NoTx, Tx

\* A finished transaction holds no rows.
LEMMA FinishedType ==
    ASSUME SeededAssumption, NEW x \in Tx, NEW reply \in Ended
    PROVE  /\ Finished(x, reply) \in Tx /\ Finished(x, reply).pc = reply
           /\ Finished(x, reply).rows = {} /\ Finished(x, reply).seenRows = {}
<1>1. NoTx \in Tx /\ NoTx.rows = {} /\ NoTx.seenRows = {}
  BY NoTxType
<1>2. x.before \in SUBSET RowIds /\ x.alone \in BOOLEAN
  BY DEF Tx
<1> QED BY <1>1, <1>2 DEF Finished, Tx

LEMMA RollbackInv ==
    ASSUME SeededAssumption, IInv, NEW t \in Resets, Rollback(t),
           UNCHANGED <<requests, logs, born>>
    PROVE  IInv'
<1> DEFINE x == Finished(tx[t], "500")
<1>1. tx[t] \in Tx
  BY Facts
<1>2. x \in Tx /\ x.pc = "500" /\ x.rows = {} /\ x.seenRows = {}
  BY <1>1, FinishedType DEF Ended
<1>3. tx' = [tx EXCEPT ![t] = x]
  BY DEF Rollback
<1> HIDE DEF x
<1> QED BY <1>2, <1>3, BecomeInv, TogetherEmpty DEF Deleting, Open

LEMMA ScanInv ==
    ASSUME IInv, NEW t \in Resets, ScanLogs(t) \/ ScanRows(t)
    PROVE  IInv'
<1>1. /\ tx[t] \in Tx /\ requests \subseteq RowIds /\ logs \subseteq Entry /\ TxOK(t)
      /\ \A u \in Resets : /\ Together(requests, u)
                           /\ Together(tx[t].seenRows, u) /\ Together(tx[t].rows, u)
  BY Facts
<1>2. CASE ScanLogs(t)
  <2> DEFINE x == [tx[t] EXCEPT !.pc = "deleting_logs", !.seenLogs = logs]
  <2>1. tx' = [tx EXCEPT ![t] = x] /\ tx[t].pc = "logs"
        /\ UNCHANGED <<requests, logs, born>>
    BY <1>2 DEF ScanLogs, At
  <2>2. /\ x \in Tx /\ x.pc = "deleting_logs" /\ x.n = tx[t].n
        /\ x.seenRows = tx[t].seenRows /\ x.rows = tx[t].rows
    BY <1>1 DEF Tx, Open, Deleting
  <2>3. x.n = 0
    BY <1>1, <2>1, <2>2 DEF TxOK, Deleting
  <2> HIDE DEF x
  <2> QED BY <1>1, <2>1, <2>2, <2>3, BecomeInv DEF Open, Deleting
<1>3. CASE ScanRows(t)
  <2> DEFINE x == [tx[t] EXCEPT !.pc = "deleting_rows", !.seenRows = requests]
  <2>1. tx' = [tx EXCEPT ![t] = x] /\ tx[t].pc = "rows"
        /\ UNCHANGED <<requests, logs, born>>
    BY <1>3 DEF ScanRows, At
  <2>2. /\ x \in Tx /\ x.pc = "deleting_rows" /\ x.n = tx[t].n
        /\ x.seenRows = requests /\ x.rows = tx[t].rows
    BY <1>1 DEF Tx, Open, Deleting
  <2>3. x.n = 0
    BY <1>1, <2>1, <2>2 DEF TxOK, Deleting
  <2> HIDE DEF x
  <2> QED BY <1>1, <2>1, <2>2, <2>3, BecomeInv DEF Open, Deleting
<1> QED BY <1>2, <1>3

LEMMA DeleteInv ==
    ASSUME IInv, NEW t \in Resets, DeleteLogs(t) \/ DeleteRows(t)
    PROVE  IInv'
<1>1. /\ tx[t] \in Tx /\ requests \subseteq RowIds /\ logs \subseteq Entry /\ TxOK(t)
      /\ \A u \in Resets : /\ Together(requests, u)
                           /\ Together(tx[t].seenRows, u) /\ Together(tx[t].rows, u)
  BY Facts
<1>2. CASE DeleteLogs(t)
  <2> DEFINE x == [tx[t] EXCEPT !.pc = "rows",
                                !.logs = @ \union (tx[t].seenLogs \cap logs)]
  <2>1. tx' = [tx EXCEPT ![t] = x] /\ tx[t].pc = "deleting_logs"
        /\ UNCHANGED <<requests, logs, born>>
    BY <1>2 DEF DeleteLogs, At
  <2>2. /\ x \in Tx /\ x.pc = "rows" /\ x.n = tx[t].n
        /\ x.seenRows = tx[t].seenRows /\ x.rows = tx[t].rows
    BY <1>1 DEF Tx, Open, Deleting
  <2>3. x.n = 0
    BY <1>1, <2>1, <2>2 DEF TxOK, Deleting
  <2> HIDE DEF x
  <2> QED BY <1>1, <2>1, <2>2, <2>3, BecomeInv DEF Open, Deleting
<1>3. CASE DeleteRows(t)
  <2> DEFINE gone == tx[t].seenRows \cap requests
             x == [tx[t] EXCEPT !.pc = "checking", !.rows = gone]
  <2>1. tx' = [tx EXCEPT ![t] = x] /\ tx[t].pc = "deleting_rows"
        /\ UNCHANGED <<requests, logs, born>>
    BY <1>3 DEF DeleteRows, At
  <2>2. /\ x \in Tx /\ x.pc = "checking" /\ x.n = tx[t].n
        /\ x.seenRows = tx[t].seenRows /\ x.rows = gone
    BY <1>1 DEF Tx, Open, Deleting
  <2>3. x.n = 0
    BY <1>1, <2>1, <2>2 DEF TxOK, Deleting
  <2>4. \A u \in Resets : Together(gone, u)
    BY <1>1, TogetherCap
  <2> HIDE DEF x, gone
  <2> QED BY <1>1, <2>1, <2>2, <2>3, <2>4, BecomeInv DEF Open, Deleting
<1> QED BY <1>2, <1>3

LEMMA CheckPassesInv ==
    ASSUME SeededAssumption, IInv, NEW t \in Resets, CheckPasses(t)
    PROVE  IInv'
<1> DEFINE x == [tx[t] EXCEPT !.pc = "insert"]
<1>1. /\ tx[t] \in Tx /\ TxOK(t)
      /\ \A u \in Resets : Together(tx[t].seenRows, u) /\ Together(tx[t].rows, u)
  BY Facts
<1>2. /\ tx' = [tx EXCEPT ![t] = x] /\ tx[t].pc = "checking"
      /\ UNCHANGED <<requests, logs, born>> /\ Referring(t) = {}
  BY DEF CheckPasses, At
<1>3. /\ x \in Tx /\ x.pc = "insert" /\ x.n = tx[t].n /\ x.logs = tx[t].logs
      /\ x.seenRows = tx[t].seenRows /\ x.rows = tx[t].rows
  BY <1>1 DEF Tx, Open
<1>4. x.n = 0 /\ x.n < Seeded
  BY <1>1, <1>2, <1>3, SeededAssumption DEF TxOK, Deleting
<1>5. \A e \in logs : e.row \in x.rows => e \in x.logs
  BY <1>2, <1>3 DEF Referring
<1> HIDE DEF x
<1> QED BY <1>1, <1>2, <1>3, <1>4, <1>5, BecomeInv DEF Open, Deleting

LEMMA InsertInv ==
    ASSUME SeededAssumption, IInv, NEW t \in Resets, Insert(t)
    PROVE  IInv'
<1> DEFINE n == tx[t].n + 1
           pc == IF n = Seeded THEN "commit" ELSE "insert"
           x == [tx[t] EXCEPT !.n = n, !.pc = pc]
<1>1. /\ tx[t] \in Tx /\ TxOK(t)
      /\ \A u \in Resets : Together(tx[t].seenRows, u) /\ Together(tx[t].rows, u)
  BY Facts
<1>2. /\ tx' = [tx EXCEPT ![t] = x] /\ tx[t].pc = "insert"
      /\ UNCHANGED <<requests, logs, born>>
  BY DEF Insert, At
<1>3. tx[t].n \in Nat /\ tx[t].n < Seeded
  BY <1>1, <1>2, SeededAssumption DEF TxOK, Tx
<1>4. n \in 0..Seeded /\ (pc = "insert" => n < Seeded) /\ (pc = "commit" => n = Seeded)
      /\ pc \in {"insert", "commit"}
  BY <1>3, SeededAssumption
<1> HIDE DEF n, pc
<1>5. /\ x \in Tx /\ x.pc = pc /\ x.n = n /\ x.logs = tx[t].logs
      /\ x.seenRows = tx[t].seenRows /\ x.rows = tx[t].rows
  BY <1>1, <1>4 DEF Tx, Open
<1>6. \A e \in logs : e.row \in x.rows => e \in x.logs
  BY <1>1, <1>2, <1>5 DEF TxOK, Referring
<1> HIDE DEF x
<1> QED BY <1>1, <1>2, <1>4, <1>5, <1>6, BecomeInv DEF Open, Deleting

\* Begin also takes the flag alone from the others, which the invariant ignores.
LEMMA BeginInv ==
    ASSUME SeededAssumption, IInv, NEW t \in Resets, Begin(t)
    PROVE  IInv'
<1>1. tx \in [Resets -> Tx] /\ requests \subseteq RowIds
  BY DEF IInv, TypeOK
<1>2. UNCHANGED <<requests, logs, born>> /\ tx[t].pc = "idle"
  BY DEF Begin, At
<1>3. PICK b \in BOOLEAN :
        tx'[t] = [NoTx EXCEPT !.pc = "logs", !.before = requests, !.alone = b]
  BY DEF Begin
<1>4. tx'[t] = [pc |-> "logs", seenLogs |-> {}, seenRows |-> {}, logs |-> {},
                rows |-> {}, n |-> 0, before |-> requests, alone |-> b]
  BY <1>3 DEF NoTx
<1>5. tx'[t] \in Tx
  <2>1. 0 \in 0..Seeded
    BY SeededAssumption
  <2> QED BY <1>1, <1>4, <2>1 DEF Tx, Open, Deleting
<1>6. ASSUME NEW u \in Resets, u # t
      PROVE  /\ tx'[u] \in Tx /\ tx'[u].pc = tx[u].pc /\ tx'[u].n = tx[u].n
             /\ tx'[u].rows = tx[u].rows /\ tx'[u].logs = tx[u].logs
             /\ tx'[u].seenRows = tx[u].seenRows
  <2>1. tx'[u] = [tx[u] EXCEPT !.alone = FALSE] \/ tx'[u] = tx[u]
    BY <1>6 DEF Begin
  <2> QED BY <1>1, <2>1 DEF Tx
<1>7. tx' \in [Resets -> Tx]
  <2>1. tx' = [u \in Resets |-> tx'[u]]
    BY DEF Begin
  <2> QED BY <1>5, <1>6, <2>1
<1>8. TypeOK' /\ NoOrphans'
  BY <1>2, <1>7 DEF IInv, TypeOK, NoOrphans
<1>9. ASSUME NEW u \in Resets
      PROVE  TxOK(u)'
  <2>1. CASE u = t
    BY <1>4, <2>1 DEF TxOK
  <2>2. CASE u # t
    BY <1>2, <1>6, <2>2 DEF IInv, TxOK, Referring
  <2> QED BY <2>1, <2>2
<1>10. ASSUME NEW u \in Resets
       PROVE  DemoOK(u)'
  <2>1. DemoOK(u)
    BY DEF IInv
  <2>2. tx'[u].pc \in {"idle"} \union Open => tx[u].pc \in {"idle"} \union Open
    BY <1>2, <1>6
  <2>3. ASSUME NEW v \in Resets
        PROVE  Together(tx'[v].seenRows, u) /\ Together(tx'[v].rows, u)
    <3>1. CASE v = t
      BY <1>4, <3>1, TogetherEmpty
    <3>2. CASE v # t
      BY <1>6, <2>1, <3>2 DEF DemoOK
    <3> QED BY <3>1, <3>2
  <2> QED BY <1>2, <2>1, <2>2, <2>3 DEF DemoOK, Together
<1> QED BY <1>8, <1>9, <1>10 DEF IInv

LEMMA CommitInv ==
    ASSUME SeededAssumption, IInv, NEW t \in Resets, NEW reply \in Ended,
           Commit(t, reply)
    PROVE  IInv'
<1>1. /\ tx \in [Resets -> Tx] /\ tx[t] \in Tx /\ TxOK(t) /\ DemoOK(t)
      /\ requests \subseteq RowIds /\ logs \subseteq Entry /\ NoOrphans
  BY Facts DEF IInv
<1> DEFINE x == Finished(tx[t], reply)
<1>2. /\ tx' = [tx EXCEPT ![t] = x] /\ tx[t].pc = "commit" /\ born' = born
      /\ requests' = (requests \ tx[t].rows) \union ({t} \X (1..tx[t].n))
      /\ logs' = logs \ tx[t].logs
  BY DEF Commit, At
<1>3. x \in Tx /\ x.pc = reply /\ x.rows = {} /\ x.seenRows = {}
  BY <1>1, FinishedType
<1> HIDE DEF x
<1>4. tx'[t] = x /\ \A u \in Resets \ {t} : tx'[u] = tx[u]
  BY <1>1, <1>2
<1>5. requests' = (requests \ tx[t].rows) \union DemoRows(t)
  BY <1>1, <1>2 DEF TxOK, DemoRows
<1>6. TypeOK'
  BY <1>1, <1>2, <1>3, <1>5, DemoRowsAreNoOthers DEF IInv, TypeOK
<1>7. NoOrphans'
  <2> SUFFICES ASSUME NEW e \in logs'
               PROVE  e.row \in requests'
    BY DEF NoOrphans
  <2>1. e \in logs /\ e \notin tx[t].logs /\ e.row \in requests
    BY <1>1, <1>2 DEF NoOrphans
  <2>2. e.row \notin tx[t].rows
    BY <1>1, <1>2, <2>1 DEF TxOK, Referring
  <2> QED BY <1>5, <2>1, <2>2
<1>8. ASSUME NEW u \in Resets
      PROVE  TxOK(u)'
  <2>1. CASE u = t
    BY <1>3, <1>4, <2>1 DEF TxOK, Ended, Deleting
  <2>2. CASE u # t
    <3>1. TxOK(u) /\ tx'[u] = tx[u]
      BY <1>4, <2>2 DEF IInv
    <3>2. Referring(u)' \subseteq Referring(u)
      BY <1>2, <3>1 DEF Referring
    <3> QED BY <3>1, <3>2 DEF TxOK
  <2> QED BY <2>1, <2>2
<1>9. ASSUME NEW u \in Resets
      PROVE  DemoOK(u)'
  <2>1. DemoOK(u) /\ Together(requests \ tx[t].rows, u)
    BY <1>1, TogetherMinus DEF IInv, DemoOK
  <2>2. Together(requests', u)
    <3>1. CASE u = t
      BY <1>5, <3>1 DEF Together
    <3>2. CASE u # t
      <4>1. requests' \cap DemoRows(u) = (requests \ tx[t].rows) \cap DemoRows(u)
        BY <1>5, <3>2, DemoRowsDisjoint
      <4> QED BY <2>1, <4>1 DEF Together
    <3> QED BY <3>1, <3>2
  <2>3. tx'[u].pc \in {"idle"} \union Open => requests' \cap DemoRows(u) = {}
    <3>1. CASE u = t
      BY <1>3, <1>4, <3>1 DEF Open, Deleting, Ended
    <3>2. CASE u # t
      BY <1>4, <1>5, <2>1, <3>2, DemoRowsDisjoint DEF DemoOK
    <3> QED BY <3>1, <3>2
  <2>4. \A v \in Resets : Together(tx'[v].seenRows, u) /\ Together(tx'[v].rows, u)
    BY <1>3, <1>4, <2>1, TogetherEmpty DEF DemoOK
  <2> QED BY <2>2, <2>3, <2>4 DEF DemoOK, Together
<1> QED BY <1>6, <1>7, <1>8, <1>9 DEF IInv

-----------------------------------------------------------------------------
(* Steps of the other writers.                                               *)

LEMMA OtherCreateInv ==
    ASSUME IInv, NEW r \in Rows, OtherCreate(r)
    PROVE  IInv'
<1>1. requests' = requests \union {r} /\ UNCHANGED <<logs, tx>>
      /\ born' = born \union {r}
  BY DEF OtherCreate
<1>2. TypeOK' /\ NoOrphans'
  BY <1>1 DEF IInv, TypeOK, NoOrphans, RowIds
<1>3. ASSUME NEW u \in Resets
      PROVE  TxOK(u)' /\ DemoOK(u)'
  <2>1. TxOK(u) /\ DemoOK(u)
    BY DEF IInv
  <2>2. requests' \cap DemoRows(u) = requests \cap DemoRows(u)
    BY <1>1, DemoRowsAreNoOthers
  <2> QED BY <1>1, <2>1, <2>2 DEF TxOK, Referring, DemoOK, Together
<1> QED BY <1>2, <1>3 DEF IInv

LEMMA OtherLogInv ==
    ASSUME IInv, NEW i \in EntryIds, NEW r \in RowIds, OtherLog(i, r)
    PROVE  IInv'
<1> DEFINE e == [id |-> i, row |-> r]
<1>1. /\ logs' = logs \union {e} /\ UNCHANGED <<requests, tx>>
      /\ r \in requests /\ \A t \in Resets : r \notin tx[t].rows
      /\ born' = born \union {i}
  BY DEF OtherLog
<1>2. e \in Entry /\ e.row = r
  BY DEF Entry
<1> HIDE DEF e
<1>3. TypeOK' /\ NoOrphans'
  BY <1>1, <1>2 DEF IInv, TypeOK, NoOrphans
<1>4. ASSUME NEW u \in Resets
      PROVE  TxOK(u)' /\ DemoOK(u)'
  <2>1. TxOK(u) /\ DemoOK(u)
    BY DEF IInv
  <2>2. Referring(u)' = Referring(u)
    BY <1>1, <1>2 DEF Referring
  <2> QED BY <1>1, <2>1, <2>2 DEF TxOK, DemoOK, Together
<1> QED BY <1>3, <1>4 DEF IInv

-----------------------------------------------------------------------------
(* The theorems.                                                             *)

LEMMA InitInv ==
    ASSUME SeededAssumption, Init
    PROVE  IInv
<1>1. NoTx \in Tx
  BY NoTxType, SeededAssumption
<1>2. TypeOK /\ NoOrphans
  BY <1>1 DEF Init, TypeOK, NoOrphans
<1>3. \A t \in Resets : tx[t] = NoTx /\ TxOK(t) /\ DemoOK(t)
  BY TogetherEmpty DEF Init, NoTx, TxOK, DemoOK, Deleting
<1> QED BY <1>2, <1>3 DEF IInv

LEMMA NextInv ==
    ASSUME SeededAssumption, IInv, [Next]_vars
    PROVE  IInv'
<1>1. ASSUME NEW t \in Resets, Step(t)
      PROVE  IInv'
  <2>1. ASSUME CheckFails(t) \/ Victim(t)
        PROVE  IInv'
    BY <2>1, RollbackInv, SeededAssumption DEF CheckFails, Victim
  <2> QED BY <1>1, <2>1, SeededAssumption, ScanInv, DeleteInv, CheckPassesInv,
             InsertInv, CommitInv DEF Step
<1>2. ASSUME NEW t \in Resets, Fail(t)
      PROVE  IInv'
  BY <1>2, RollbackInv, SeededAssumption DEF Fail
<1>3. CASE UNCHANGED vars
  <2>1. requests' = requests /\ logs' = logs /\ born' = born /\ tx' = tx
    BY <1>3 DEF vars
  <2>2. \A t \in Resets : TxOK(t)' /\ DemoOK(t)'
    BY <2>1 DEF IInv, TxOK, DemoOK, Referring, Together
  <2> QED BY <2>1, <2>2 DEF IInv, TypeOK, NoOrphans
<1> QED BY <1>1, <1>2, <1>3, SeededAssumption, BeginInv, OtherCreateInv, OtherLogInv
        DEF Next

\* Every step of resets and other writers keeps types, stations and demo rows.
THEOREM ResetInvariant == Spec => []IInv
<1>1. Init => IInv
  BY InitInv, SeededAssumption
<1>2. IInv /\ [Next]_vars => IInv'
  BY NextInv, SeededAssumption
<1> QED BY <1>1, <1>2, PTL DEF Spec

\* However many resets and writers interleave, no entry of audit_logs is left
\* without its row: SeedDemoRequests deletes the rows only when the check of the
\* foreign key found none in the way.
THEOREM NothingIsOrphaned == Spec => []NoOrphans
<1>1. IInv => NoOrphans
  BY DEF IInv
<1> QED BY <1>1, ResetInvariant, PTL

\* However many resets overlap, the demo rows of each appear and disappear as
\* one: SeedDemoRequests inserts them in one transaction, and a DELETE sees all
\* of them or none.
THEOREM DemoRowsComeTogether == Spec => []AllOrNone
<1>1. IInv => AllOrNone
  BY DEF IInv, DemoOK, Together, AllOrNone
<1> QED BY <1>1, ResetInvariant, PTL

\* Rows, entries and transactions keep their types, and ids are not reused.
THEOREM ResetTypeCorrect == Spec => []TypeOK
<1>1. IInv => TypeOK
  BY DEF IInv
<1> QED BY <1>1, ResetInvariant, PTL

-----------------------------------------------------------------------------
(* What a commit clears.                                                     *)

Late == {"checking", "insert", "commit"}

\* S holds what the reset of record x has to delete.
Covers(S, x) == /\ requests \cap x.before \subseteq S
                /\ x.alone => requests \cap AllDemo \subseteq S

\* What was there when t began has no id that can still come; its snapshot, and
\* then the rows it has deleted, hold all of that which is left, and every demo
\* row if t is alone.
ClearOK(t) ==
    /\ \A u \in Resets : tx[u].pc \in {"idle"} \union Open
                            => tx[t].before \cap DemoRows(u) = {}
    /\ tx[t].before \cap Rows \subseteq born
    /\ tx[t].pc = "deleting_rows" => Covers(tx[t].seenRows, tx[t])
    /\ tx[t].pc \in Late => Covers(tx[t].rows, tx[t])
    /\ IsOpen(t) /\ tx[t].alone => \A u \in Resets \ {t} : ~IsOpen(u)

ClearInv == IInv /\ requests \cap Rows \subseteq born /\ \A t \in Resets : ClearOK(t)

\* A step that changes only the record of t, which does not begin.
LEMMA BecomeClear ==
    ASSUME ClearInv, IInv', NEW t \in Resets, NEW x \in Tx,
           tx' = [tx EXCEPT ![t] = x], UNCHANGED <<requests, logs, born>>,
           x.before = tx[t].before, x.alone = tx[t].alone,
           x.pc \in {"idle"} \union Open => tx[t].pc \in Open,
           x.pc = "deleting_rows" => Covers(x.seenRows, x),
           x.pc \in Late => Covers(x.rows, x)
    PROVE  ClearInv'
<1>1. tx \in [Resets -> Tx]
  BY DEF ClearInv, IInv, TypeOK
<1>2. tx'[t] = x /\ \A u \in Resets \ {t} : tx'[u] = tx[u]
  BY <1>1
<1>3. \A u \in Resets : tx'[u].before = tx[u].before /\ tx'[u].alone = tx[u].alone
  BY <1>2
<1>4. \A u \in Resets : tx'[u].pc \in {"idle"} \union Open => tx[u].pc \in {"idle"} \union Open
  BY <1>2
<1>5. \A u \in Resets : IsOpen(u)' => IsOpen(u)
  BY <1>2 DEF IsOpen
<1>6. ASSUME NEW u \in Resets
      PROVE  ClearOK(u)'
  <2>1. ClearOK(u)
    BY DEF ClearInv
  <2>2. /\ \A v \in Resets : tx'[v].pc \in {"idle"} \union Open
                               => tx'[u].before \cap DemoRows(v) = {}
        /\ tx'[u].before \cap Rows \subseteq born'
    BY <1>3, <1>4, <2>1 DEF ClearOK
  <2>3. IsOpen(u)' /\ tx'[u].alone => \A v \in Resets \ {u} : ~IsOpen(v)'
    BY <1>3, <1>5, <2>1 DEF ClearOK
  <2>4. /\ tx'[u].pc = "deleting_rows" => Covers(tx[u].seenRows, tx[u])' 
        /\ tx'[u].pc \in Late => Covers(tx[u].rows, tx[u])'
    <3>1. CASE u = t
      BY <1>2, <3>1 DEF Covers
    <3>2. CASE u # t
      BY <1>2, <2>1, <3>2 DEF ClearOK, Covers
    <3> QED BY <3>1, <3>2
  <2> QED BY <2>2, <2>3, <2>4 DEF ClearOK
<1> QED BY <1>6 DEF ClearInv

LEMMA ClearFacts ==
    ASSUME ClearInv, NEW t \in Resets
    PROVE  /\ tx \in [Resets -> Tx] /\ tx[t] \in Tx /\ ClearOK(t) /\ IInv
           /\ requests \cap Rows \subseteq born
BY DEF ClearInv, IInv, TypeOK

LEMMA RollbackClear ==
    ASSUME SeededAssumption, ClearInv, NEW t \in Resets, Rollback(t),
           UNCHANGED <<requests, logs, born>>
    PROVE  ClearInv'
<1> DEFINE x == Finished(tx[t], "500")
<1>1. IInv' /\ tx[t] \in Tx
  BY RollbackInv, ClearFacts
<1>2. x \in Tx /\ x.pc = "500"
  BY <1>1, FinishedType DEF Ended
<1>3. x.before = tx[t].before /\ x.alone = tx[t].alone
  BY DEF Finished, NoTx
<1>4. tx' = [tx EXCEPT ![t] = x]
  BY DEF Rollback
<1> HIDE DEF x
<1> QED BY <1>1, <1>2, <1>3, <1>4, BecomeClear DEF Open, Deleting, Late

LEMMA ScanClear ==
    ASSUME ClearInv, NEW t \in Resets, ScanLogs(t) \/ ScanRows(t)
    PROVE  ClearInv'
<1>1. IInv' /\ tx[t] \in Tx /\ requests \subseteq RowIds /\ logs \subseteq Entry
  BY ScanInv, ClearFacts DEF IInv, TypeOK
<1>2. CASE ScanLogs(t)
  <2> DEFINE x == [tx[t] EXCEPT !.pc = "deleting_logs", !.seenLogs = logs]
  <2>1. tx' = [tx EXCEPT ![t] = x] /\ tx[t].pc = "logs"
        /\ UNCHANGED <<requests, logs, born>>
    BY <1>2 DEF ScanLogs, At
  <2>2. /\ x \in Tx /\ x.pc = "deleting_logs"
        /\ x.before = tx[t].before /\ x.alone = tx[t].alone
    BY <1>1 DEF Tx, Open, Deleting
  <2> HIDE DEF x
  <2> QED BY <1>1, <2>1, <2>2, BecomeClear DEF Open, Deleting, Late
<1>3. CASE ScanRows(t)
  <2> DEFINE x == [tx[t] EXCEPT !.pc = "deleting_rows", !.seenRows = requests]
  <2>1. tx' = [tx EXCEPT ![t] = x] /\ tx[t].pc = "rows"
        /\ UNCHANGED <<requests, logs, born>>
    BY <1>3 DEF ScanRows, At
  <2>2. /\ x \in Tx /\ x.pc = "deleting_rows" /\ x.seenRows = requests
        /\ x.before = tx[t].before /\ x.alone = tx[t].alone
    BY <1>1 DEF Tx, Open, Deleting
  <2> HIDE DEF x
  <2>3. Covers(x.seenRows, x)
    BY <2>2 DEF Covers
  <2> QED BY <1>1, <2>1, <2>2, <2>3, BecomeClear DEF Open, Deleting, Late
<1> QED BY <1>2, <1>3

LEMMA DeleteClear ==
    ASSUME ClearInv, NEW t \in Resets, DeleteLogs(t) \/ DeleteRows(t)
    PROVE  ClearInv'
<1>1. /\ IInv' /\ tx[t] \in Tx /\ ClearOK(t)
      /\ requests \subseteq RowIds /\ logs \subseteq Entry
  BY DeleteInv, ClearFacts DEF IInv, TypeOK
<1>2. CASE DeleteLogs(t)
  <2> DEFINE x == [tx[t] EXCEPT !.pc = "rows",
                                !.logs = @ \union (tx[t].seenLogs \cap logs)]
  <2>1. tx' = [tx EXCEPT ![t] = x] /\ tx[t].pc = "deleting_logs"
        /\ UNCHANGED <<requests, logs, born>>
    BY <1>2 DEF DeleteLogs, At
  <2>2. /\ x \in Tx /\ x.pc = "rows"
        /\ x.before = tx[t].before /\ x.alone = tx[t].alone
    BY <1>1 DEF Tx, Open, Deleting
  <2> HIDE DEF x
  <2> QED BY <1>1, <2>1, <2>2, BecomeClear DEF Open, Deleting, Late
<1>3. CASE DeleteRows(t)
  <2> DEFINE gone == tx[t].seenRows \cap requests
             x == [tx[t] EXCEPT !.pc = "checking", !.rows = gone]
  <2>1. tx' = [tx EXCEPT ![t] = x] /\ tx[t].pc = "deleting_rows"
        /\ UNCHANGED <<requests, logs, born>>
    BY <1>3 DEF DeleteRows, At
  <2>2. /\ x \in Tx /\ x.pc = "checking" /\ x.rows = gone
        /\ x.before = tx[t].before /\ x.alone = tx[t].alone
    BY <1>1 DEF Tx, Open, Deleting
  <2> HIDE DEF x
  <2>3. Covers(x.rows, x)
    BY <1>1, <2>1, <2>2 DEF ClearOK, Covers
  <2> QED BY <1>1, <2>1, <2>2, <2>3, BecomeClear DEF Open, Deleting, Late
<1> QED BY <1>2, <1>3

LEMMA LateClear ==
    ASSUME SeededAssumption, ClearInv, NEW t \in Resets, CheckPasses(t) \/ Insert(t)
    PROVE  ClearInv'
<1>1. IInv' /\ tx[t] \in Tx /\ ClearOK(t) /\ tx \in [Resets -> Tx]
  BY CheckPassesInv, InsertInv, ClearFacts
<1>2. tx'[t] \in Tx /\ tx' = [tx EXCEPT ![t] = tx'[t]]
  <2>1. tx'[t] \in Tx
    BY <1>1 DEF IInv, TypeOK
  <2> QED BY <1>1, <2>1 DEF CheckPasses, Insert
<1>3. /\ tx'[t].pc \in {"insert", "commit"} /\ tx[t].pc \in {"checking", "insert"}
      /\ tx'[t].rows = tx[t].rows
      /\ tx'[t].before = tx[t].before /\ tx'[t].alone = tx[t].alone
      /\ UNCHANGED <<requests, logs, born>>
  BY <1>1 DEF CheckPasses, Insert, At, Tx
<1>4. PICK x \in Tx : x = tx'[t]
  BY <1>2
<1>5. Covers(x.rows, x)
  BY <1>1, <1>3, <1>4 DEF ClearOK, Covers, Late
<1> QED BY <1>1, <1>2, <1>3, <1>4, <1>5, BecomeClear DEF Open, Deleting, Late

LEMMA BeginClear ==
    ASSUME SeededAssumption, ClearInv, NEW t \in Resets, Begin(t)
    PROVE  ClearInv'
<1>1. /\ IInv' /\ tx \in [Resets -> Tx] /\ IInv /\ requests \cap Rows \subseteq born
      /\ UNCHANGED <<requests, logs, born>> /\ tx[t].pc = "idle"
  BY BeginInv, ClearFacts DEF Begin, At
<1>2. /\ tx'[t].pc = "logs" /\ tx'[t].before = requests
      /\ tx'[t].alone = (\A v \in Resets : ~IsOpen(v))
  BY <1>1 DEF Begin, NoTx
<1>3. ASSUME NEW u \in Resets, u # t
      PROVE  /\ tx'[u].pc = tx[u].pc /\ tx'[u].before = tx[u].before
             /\ tx'[u].rows = tx[u].rows /\ tx'[u].seenRows = tx[u].seenRows
             /\ IsOpen(u) => ~tx'[u].alone
             /\ ~IsOpen(u) => tx'[u] = tx[u]
  <2>1. tx'[u] = IF IsOpen(u) THEN [tx[u] EXCEPT !.alone = FALSE] ELSE tx[u]
    BY <1>3 DEF Begin
  <2> QED BY <1>1, <2>1 DEF Tx
<1>4. \A u \in Resets : tx'[u].pc \in {"idle"} \union Open => tx[u].pc \in {"idle"} \union Open
  BY <1>1, <1>3
<1>5. ASSUME NEW u \in Resets
      PROVE  ClearOK(u)'
  <2>1. ClearOK(u)
    BY DEF ClearInv
  <2>2. CASE u = t
    <3>1. \A v \in Resets : tx'[v].pc \in {"idle"} \union Open
                               => requests \cap DemoRows(v) = {}
      BY <1>1, <1>4 DEF IInv, DemoOK
    <3>2. tx'[t].alone => \A v \in Resets \ {t} : ~IsOpen(v)'
      BY <1>2, <1>3 DEF IsOpen
    <3> QED BY <1>1, <1>2, <2>2, <3>1, <3>2 DEF ClearOK, Late
  <2>3. CASE u # t
    <3>1. /\ \A v \in Resets : tx'[v].pc \in {"idle"} \union Open
                                 => tx'[u].before \cap DemoRows(v) = {}
          /\ tx'[u].before \cap Rows \subseteq born'
      BY <1>1, <1>3, <1>4, <2>1, <2>3 DEF ClearOK
    <3>2. IsOpen(u)' => IsOpen(u) /\ ~tx'[u].alone
      BY <1>3, <2>3 DEF IsOpen
    <3>3. /\ tx'[u].pc = "deleting_rows" => Covers(tx[u].seenRows, tx[u])'
          /\ tx'[u].pc \in Late => Covers(tx[u].rows, tx[u])'
      BY <1>1, <1>3, <2>1, <2>3, <3>2 DEF ClearOK, Covers, IsOpen, Late, Open, Deleting
    <3> QED BY <3>1, <3>2, <3>3 DEF ClearOK
  <2> QED BY <2>2, <2>3
<1> QED BY <1>1, <1>5 DEF ClearInv

\* Another reset that commits has rows of its own, which no snapshot knows, and
\* then nobody was alone.
LEMMA CommitClear ==
    ASSUME SeededAssumption, ClearInv, NEW t \in Resets, NEW reply \in Ended,
           Commit(t, reply)
    PROVE  /\ ClearInv'
           /\ requests' = (requests \ tx[t].rows) \union DemoRows(t)
<1>1. /\ IInv' /\ tx[t] \in Tx /\ tx \in [Resets -> Tx] /\ TxOK(t)
      /\ requests \cap Rows \subseteq born
  BY CommitInv, ClearFacts DEF IInv
<1> DEFINE x == Finished(tx[t], reply)
<1>2. /\ tx' = [tx EXCEPT ![t] = x] /\ tx[t].pc = "commit" /\ born' = born
      /\ requests' = (requests \ tx[t].rows) \union ({t} \X (1..tx[t].n))
  BY DEF Commit, At
<1>3. x.pc = reply /\ x.before = tx[t].before /\ x.alone = tx[t].alone
  BY DEF Finished, NoTx
<1> HIDE DEF x
<1>4. tx'[t] = x /\ \A u \in Resets \ {t} : tx'[u] = tx[u]
  BY <1>1, <1>2
<1>5. requests' = (requests \ tx[t].rows) \union DemoRows(t)
  BY <1>1, <1>2 DEF TxOK, DemoRows
<1>6. requests' \cap Rows \subseteq born'
  BY <1>1, <1>2, <1>5, DemoRowsAreNoOthers
<1>7. IsOpen(t) /\ ~IsOpen(t)'
  BY <1>2, <1>3, <1>4 DEF IsOpen, Open, Deleting, Ended
<1>8. ASSUME NEW u \in Resets
      PROVE  ClearOK(u)'
  <2>1. ClearOK(u)
    BY DEF ClearInv
  <2>2. /\ tx'[u].before = tx[u].before /\ tx'[u].alone = tx[u].alone
        /\ \A v \in Resets : IsOpen(v)' => IsOpen(v)
        /\ \A v \in Resets : tx'[v].pc \in {"idle"} \union Open
                               => tx[v].pc \in {"idle"} \union Open
    BY <1>3, <1>4 DEF IsOpen, Ended, Open, Deleting
  <2>3. /\ \A v \in Resets : tx'[v].pc \in {"idle"} \union Open
                               => tx'[u].before \cap DemoRows(v) = {}
        /\ tx'[u].before \cap Rows \subseteq born'
        /\ IsOpen(u)' /\ tx'[u].alone => \A v \in Resets \ {u} : ~IsOpen(v)'
    BY <1>2, <2>1, <2>2 DEF ClearOK
  <2>4. CASE u = t
    BY <1>7, <2>3, <2>4 DEF ClearOK, IsOpen, Late, Open, Deleting
  <2>5. CASE u # t
    <3>1. tx'[u] = tx[u] /\ (IsOpen(u) => ~tx[u].alone)
      BY <1>4, <1>7, <2>1, <2>5 DEF ClearOK
    <3>2. requests' \cap tx[u].before \subseteq requests \cap tx[u].before
      <4>1. tx[u].before \cap DemoRows(t) = {}
        BY <1>7, <2>1 DEF ClearOK, IsOpen
      <4> QED BY <1>5, <4>1
    <3>3. /\ tx'[u].pc = "deleting_rows" => Covers(tx[u].seenRows, tx[u])'
          /\ tx'[u].pc \in Late => Covers(tx[u].rows, tx[u])'
      BY <2>1, <3>1, <3>2 DEF ClearOK, Covers, IsOpen, Late, Open, Deleting
    <3> QED BY <2>3, <3>3 DEF ClearOK
  <2> QED BY <2>4, <2>5
<1> QED BY <1>1, <1>5, <1>6, <1>8 DEF ClearInv

LEMMA OtherCreateClear ==
    ASSUME ClearInv, NEW r \in Rows, OtherCreate(r)
    PROVE  ClearInv'
<1>1. /\ IInv' /\ requests \cap Rows \subseteq born
      /\ requests' = requests \union {r} /\ UNCHANGED <<logs, tx>>
      /\ born' = born \union {r} /\ r \notin born
  BY OtherCreateInv DEF ClearInv, OtherCreate
<1>2. r \notin AllDemo
  BY RowsAssumption DEF AllDemo
<1>3. ASSUME NEW u \in Resets
      PROVE  ClearOK(u)'
  <2>1. ClearOK(u)
    BY DEF ClearInv
  <2>2. requests' \cap tx[u].before = requests \cap tx[u].before
    BY <1>1, <2>1 DEF ClearOK
  <2>3. requests' \cap AllDemo = requests \cap AllDemo
    BY <1>1, <1>2
  <2> QED BY <1>1, <2>1, <2>2, <2>3 DEF ClearOK, Covers, IsOpen
<1> QED BY <1>1, <1>3 DEF ClearInv

LEMMA OtherLogClear ==
    ASSUME ClearInv, NEW i \in EntryIds, NEW r \in RowIds, OtherLog(i, r)
    PROVE  ClearInv'
<1>1. /\ IInv' /\ requests \cap Rows \subseteq born
      /\ UNCHANGED <<requests, tx>> /\ born' = born \union {i}
  BY OtherLogInv DEF ClearInv, OtherLog
<1>2. \A u \in Resets : ClearOK(u)'
  BY <1>1 DEF ClearInv, ClearOK, Covers, IsOpen
<1> QED BY <1>1, <1>2 DEF ClearInv

LEMMA NextClear ==
    ASSUME SeededAssumption, ClearInv, [Next]_vars
    PROVE  ClearInv'
<1>1. ASSUME NEW t \in Resets, Step(t)
      PROVE  ClearInv'
  <2>1. ASSUME CheckFails(t) \/ Victim(t)
        PROVE  ClearInv'
    BY <2>1, RollbackClear, SeededAssumption DEF CheckFails, Victim
  <2> QED BY <1>1, <2>1, SeededAssumption, ScanClear, DeleteClear, LateClear,
             CommitClear DEF Step
<1>2. ASSUME NEW t \in Resets, Fail(t)
      PROVE  ClearInv'
  BY <1>2, RollbackClear, SeededAssumption DEF Fail
<1>3. CASE UNCHANGED vars
  <2>1. requests' = requests /\ logs' = logs /\ born' = born /\ tx' = tx
    BY <1>3 DEF vars
  <2>2. IInv'
    BY <1>3, NextInv, SeededAssumption DEF ClearInv
  <2>3. \A u \in Resets : ClearOK(u)'
    BY <2>1 DEF ClearInv, ClearOK, Covers, IsOpen
  <2> QED BY <2>1, <2>2, <2>3 DEF ClearInv
<1> QED BY <1>1, <1>2, <1>3, SeededAssumption, BeginClear, OtherCreateClear,
           OtherLogClear DEF Next

\* The demo rows of a reset come with its own commit only.
LEMMA AppearsWithCommit ==
    ASSUME SeededAssumption, ClearInv, [Next]_vars, NEW t \in Resets,
           DemoRows(t) \subseteq requests', ~(DemoRows(t) \subseteq requests)
    PROVE  \E reply \in Ended : Commit(t, reply)
<1>1. <<t, 1>> \in DemoRows(t)
  BY SeededAssumption DEF DemoRows
<1>2. ASSUME NEW u \in Resets, u # t, NEW reply \in Ended, Commit(u, reply)
      PROVE  FALSE
  <2>1. requests' = (requests \ tx[u].rows) \union DemoRows(u)
    BY <1>2, CommitClear, SeededAssumption
  <2>2. DemoRows(t) \cap DemoRows(u) = {}
    BY <1>2, DemoRowsDisjoint
  <2> QED BY <2>1, <2>2
<1>3. ASSUME NEW r \in Rows, OtherCreate(r)
      PROVE  FALSE
  BY <1>3, DemoRowsAreNoOthers DEF OtherCreate
<1>4. requests' # requests
  OBVIOUS
<1>5. ASSUME NEW u \in Resets, Begin(u) \/ Step(u) \/ Fail(u)
      PROVE  u = t /\ \E reply \in Ended : Commit(t, reply)
  BY <1>2, <1>4, <1>5 DEF Begin, Step, Fail, ScanLogs, DeleteLogs, ScanRows, DeleteRows,
     CheckPasses, CheckFails, Insert, Victim
<1>6. ~ UNCHANGED vars
  BY <1>4 DEF vars
<1>7. ASSUME NEW i \in EntryIds, NEW r \in RowIds, OtherLog(i, r)
      PROVE  FALSE
  BY <1>4, <1>7 DEF OtherLog
<1> QED BY <1>3, <1>5, <1>6, <1>7 DEF Next

\* However many resets overlap, one that commits has removed every row that was
\* there when it began, and one that ran alone leaves no demo rows but its own
\* (SeedDemoRequests's two DELETEs).
THEOREM CommitsClear == Spec => CommitClears
<1> DEFINE Clears ==
       \A t \in Resets :
         DemoRows(t) \subseteq requests' /\ ~(DemoRows(t) \subseteq requests) =>
            /\ requests' \cap tx[t].before = {}
            /\ tx[t].alone => requests' \cap AllDemo = DemoRows(t)
<1>1. Init => ClearInv
  <2> SUFFICES ASSUME Init
               PROVE  ClearInv
    OBVIOUS
  <2>1. \A t \in Resets : tx[t] = NoTx
    BY DEF Init
  <2>2. \A t \in Resets : ClearOK(t)
    BY <2>1 DEF ClearOK, NoTx, IsOpen, Late, Open, Deleting
  <2> QED BY <2>2, InitInv, SeededAssumption DEF Init, ClearInv
<1>2. ClearInv /\ [Next]_vars => ClearInv'
  BY NextClear, SeededAssumption
<1>3. ClearInv /\ [Next]_vars => [Clears]_vars
  <2> SUFFICES ASSUME ClearInv, [Next]_vars, NEW t \in Resets,
                      DemoRows(t) \subseteq requests', ~(DemoRows(t) \subseteq requests)
               PROVE  /\ requests' \cap tx[t].before = {}
                      /\ tx[t].alone => requests' \cap AllDemo = DemoRows(t)
    OBVIOUS
  <2>1. PICK reply \in Ended : Commit(t, reply)
    BY AppearsWithCommit, SeededAssumption
  <2>2. requests' = (requests \ tx[t].rows) \union DemoRows(t) /\ tx[t].pc = "commit"
    BY <2>1, CommitClear, SeededAssumption DEF Commit, At
  <2>3. ClearOK(t) /\ tx[t].before \cap DemoRows(t) = {}
    BY <2>2 DEF ClearInv, ClearOK, Open
  <2>4. Covers(tx[t].rows, tx[t]) /\ DemoRows(t) \subseteq AllDemo
    BY <2>2, <2>3 DEF ClearOK, Late, DemoRows, AllDemo
  <2> QED BY <2>2, <2>3, <2>4 DEF Covers
<1> QED BY <1>1, <1>2, <1>3, PTL DEF Spec, CommitClears
=============================================================================
