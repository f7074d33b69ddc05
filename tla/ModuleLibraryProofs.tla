------------------------ MODULE ModuleLibraryProofs -------------------------
(***************************************************************************)
(* BulkInsert implements the atomic library, for any number of calls, any  *)
(* names and any lists.                                                    *)
(***************************************************************************)
EXTENDS ModuleLibrary, TLAPS

\* The position k is the last of name among the first n of list.
IsLast(list, n, name, k) ==
    /\ k \in 1..n /\ list[k] = name
    /\ \A j \in 1..n : list[j] = name => j <= k

\* What t has written after n statements: for each name among them the text of
\* the last, with the id of the row that is committed under it.
WrittenOK(t, name) ==
    LET w == ins[t].written[name]
    IN /\ w = NoModule => \A k \in 1..ins[t].n : ins[t].list[k] # name
       /\ w # NoModule =>
            /\ ins[t].pc = "open"
            /\ w.id = (IF library[name] = NoModule THEN t ELSE library[name].id)
            /\ \E k \in 1..ins[t].n :
                  IsLast(ins[t].list, ins[t].n, name, k) /\ w.text = <<t, k>>

OpenOK(t) ==
    /\ ins[t].pc = "idle" => /\ ins[t].n = 0 /\ ins[t].written = Nothing
                             /\ ins[t].list = <<>>
    /\ IsOpen(t) => /\ ins[t].n <= Len(ins[t].list)
                    /\ ins[t].list \in Lists /\ ins[t].list # <<>>
                    /\ \A name \in Names : WrittenOK(t, name)
    /\ ~IsOpen(t) => ins[t].written = Nothing
    /\ ins[t].pc \in {"idle", "open"} => ~ins[t].landed

\* Two transactions never hold the same name.
Apart(t, u) ==
    \A name \in Names : ins[t].written[name] = NoModule \/ ins[u].written[name] = NoModule

IInv == /\ TypeOK
        /\ \A t \in Inserts : OpenOK(t)
        /\ \A t, u \in Inserts : t # u => Apart(t, u)

-----------------------------------------------------------------------------
LEMMA NothingType == Nothing \in Rows /\ \A name \in Names : Nothing[name] = NoModule
BY DEF Nothing, Rows

LEMMA ListType ==
    ASSUME LibraryAssumption, TypeOK, NEW t \in Inserts
    PROVE  /\ ins[t] \in Ins /\ ins[t].list \in Seq(Names) /\ ins[t].n \in Nat
           /\ Len(ins[t].list) \in Nat /\ ins[t].written \in Rows
<1>1. ins[t] \in Ins
  BY DEF TypeOK
<1>2. <<>> \in Seq(Names)
  OBVIOUS
<1>3. ins[t].list \in Seq(Names)
  BY <1>1, <1>2 DEF LibraryAssumption, Ins
<1> QED BY <1>1, <1>3 DEF Ins

\* The last position in a list is the one the abstract library chooses.
LEMMA LastIsLast ==
    ASSUME NEW list \in Seq(Names), NEW name, NEW k,
           IsLast(list, Len(list), name, k)
    PROVE  Atomic!LastOf(list, name) = k
<1> DEFINE P(x) == list[x] = name /\ \A j \in 1..Len(list) : list[j] = name => j <= x
           c == Atomic!LastOf(list, name)
<1>1. k \in 1..Len(list) /\ P(k)
  BY DEF IsLast
<1>2. c = CHOOSE x \in 1..Len(list) : P(x)
  BY DEF Atomic!LastOf
<1>3. c \in 1..Len(list) /\ P(c)
  <2> HIDE DEF P, c
  <2> QED BY <1>1, <1>2
<1>4. c <= k /\ k <= c
  BY <1>1, <1>3
<1>5. Len(list) \in Nat
  OBVIOUS
<1>6. c \in 1..Len(list) /\ k \in 1..Len(list)
  BY <1>1, <1>3
<1> HIDE DEF c, P
<1>7. c = k
  BY <1>4, <1>5, <1>6
<1> QED BY <1>7 DEF c

-----------------------------------------------------------------------------
(* A step that changes only the record of t.                                 *)

LEMMA BecomeInv ==
    ASSUME IInv, NEW t \in Inserts, NEW x \in Ins,
           ins' = [ins EXCEPT ![t] = x], library' = library,
           OpenOK(t)',
           \A u \in Inserts \ {t}, name \in Names :
              x.written[name] = NoModule \/ ins[u].written[name] = NoModule
    PROVE  IInv'
<1>1. ins \in [Inserts -> Ins] /\ library \in Rows
  BY DEF IInv, TypeOK
<1>2. ins'[t] = x /\ \A u \in Inserts \ {t} : ins'[u] = ins[u]
  BY <1>1
<1>3. TypeOK'
  BY <1>1 DEF TypeOK
<1>4. ASSUME NEW u \in Inserts
      PROVE  OpenOK(u)'
  <2>1. CASE u = t
    BY <2>1
  <2>2. CASE u # t
    BY <1>2, <2>2 DEF IInv, OpenOK, IsOpen, WrittenOK
  <2> QED BY <2>1, <2>2
<1>5. ASSUME NEW u \in Inserts, NEW v \in Inserts, u # v
      PROVE  Apart(u, v)'
  <2>1. CASE u = t
    BY <1>2, <1>5, <2>1 DEF Apart
  <2>2. CASE v = t
    BY <1>2, <1>5, <2>2 DEF Apart
  <2>3. CASE u # t /\ v # t
    BY <1>2, <1>5, <2>3 DEF IInv, Apart
  <2> QED BY <2>1, <2>2, <2>3
<1> QED BY <1>3, <1>4, <1>5 DEF IInv

LEMMA BeginInv ==
    ASSUME LibraryAssumption, IInv, NEW t \in Inserts, NEW list \in Lists,
           Begin(t, list)
    PROVE  IInv'
<1> DEFINE pc == IF list = <<>> THEN "ok" ELSE "open"
           x == [ins[t] EXCEPT !.pc = pc, !.list = list]
<1>1. ins \in [Inserts -> Ins] /\ ins[t] \in Ins /\ OpenOK(t)
  BY DEF IInv, TypeOK
<1>2. /\ ins' = [ins EXCEPT ![t] = x] /\ library' = library
      /\ ins[t].n = 0 /\ ins[t].written = Nothing /\ ~ins[t].landed
  BY <1>1 DEF Begin, OpenOK
<1>3. pc \in {"ok", "open"} /\ list \in Seq(Names) /\ (pc = "open" => list # <<>>)
  BY DEF LibraryAssumption
<1> HIDE DEF pc
<1>4. /\ x \in Ins /\ x.pc = pc /\ x.list = list /\ x.n = 0 /\ x.written = Nothing
      /\ x.landed = FALSE
  BY <1>1, <1>2, <1>3 DEF Ins
<1> HIDE DEF x
<1>5. ins'[t] = x
  BY <1>1, <1>2
<1>6. Len(list) \in Nat /\ 0 <= Len(list)
  BY <1>3
<1>7. \A name \in Names : WrittenOK(t, name)'
  BY <1>4, <1>5, NothingType DEF WrittenOK
<1>8. OpenOK(t)'
  BY <1>3, <1>4, <1>5, <1>6, <1>7 DEF OpenOK, IsOpen
<1> QED BY <1>2, <1>4, <1>8, BecomeInv, NothingType

LEMMA RollbackInv ==
    ASSUME IInv, NEW t \in Inserts, Rollback(t), UNCHANGED library
    PROVE  IInv'
<1> DEFINE x == [ins[t] EXCEPT !.pc = "error", !.written = Nothing]
<1>1. ins \in [Inserts -> Ins] /\ ins[t] \in Ins
  BY DEF IInv, TypeOK
<1>2. ins' = [ins EXCEPT ![t] = x]
  BY DEF Rollback
<1>3. x \in Ins /\ x.pc = "error" /\ x.written = Nothing
  BY <1>1, NothingType DEF Ins
<1> HIDE DEF x
<1>4. OpenOK(t)'
  BY <1>1, <1>2, <1>3 DEF OpenOK, IsOpen
<1> QED BY <1>2, <1>3, <1>4, BecomeInv, NothingType

-----------------------------------------------------------------------------
(* The upsert: a statement more, and the name it writes is the last.         *)

LEMMA LastMovesOn ==
    ASSUME NEW list, NEW n \in Nat, NEW name, NEW k, IsLast(list, n, name, k),
           list[n + 1] # name
    PROVE  IsLast(list, n + 1, name, k)
BY DEF IsLast

LEMMA NewIsLast ==
    ASSUME NEW list, NEW n \in Nat
    PROVE  IsLast(list, n + 1, list[n + 1], n + 1)
BY DEF IsLast

LEMMA UpsertInv ==
    ASSUME LibraryAssumption, IInv, NEW t \in Inserts, Upsert(t)
    PROVE  IInv'
<1> DEFINE n == ins[t].n
           list == ins[t].list
           name == list[n + 1]
           m == Upserted(t, Met(t, name))
           x == [ins[t] EXCEPT !.n = n + 1, !.written[name] = m]
<1>1. /\ ins \in [Inserts -> Ins] /\ ins[t] \in Ins /\ OpenOK(t) /\ library \in Rows
      /\ n \in Nat /\ list \in Seq(Names) /\ Len(list) \in Nat /\ ins[t].written \in Rows
  BY ListType DEF IInv, TypeOK
<1>2. /\ IsOpen(t) /\ n < Len(list) /\ library' = library
      /\ ins' = [ins EXCEPT ![t] = x]
      /\ \A u \in Inserts : ~Waits(t, u)
  BY DEF Upsert, More, NextName
<1>3. name \in Names
  BY <1>1, <1>2
<1>4. /\ m \in Module /\ m # NoModule /\ m.text = <<t, n + 1>>
      /\ m.id = (IF library[name] = NoModule THEN t ELSE library[name].id)
  <2> DEFINE old == Met(t, name)
  <2>1. old \in Module \union {NoModule}
    BY <1>1, <1>3 DEF Met, Rows
  <2>2. m = [id |-> IF old = NoModule THEN t ELSE old.id, text |-> <<t, n + 1>>]
    BY DEF Upserted
  <2>3. WrittenOK(t, name)
    BY <1>1, <1>2, <1>3 DEF OpenOK
  <2>4. (IF old = NoModule THEN t ELSE old.id)
          = (IF library[name] = NoModule THEN t ELSE library[name].id)
    <3>1. CASE ins[t].written[name] = NoModule
      BY <3>1 DEF Met
    <3>2. CASE ins[t].written[name] # NoModule
      BY <2>3, <3>2 DEF Met, WrittenOK
    <3> QED BY <3>1, <3>2
  <2> HIDE DEF old, m, name
  <2>5. (IF old = NoModule THEN t ELSE old.id) \in Inserts
    BY <2>1 DEF Module
  <2>6. n + 1 \in Nat \ {0}
    BY <1>1
  <2> HIDE DEF n
  <2>7. m \in Module
    BY <2>2, <2>5, <2>6 DEF Module
  <2> QED BY <2>2, <2>4, <2>7 DEF LibraryAssumption
<1> HIDE DEF m
<1>5. /\ x.pc = "open" /\ x.list = list /\ x.n = n + 1 /\ ~x.landed
      /\ x.written = [ins[t].written EXCEPT ![name] = m]
  BY <1>1, <1>2 DEF IsOpen, Ins, OpenOK
<1>6. x \in Ins
  <2>1. [ins[t].written EXCEPT ![name] = m] \in Rows
    BY <1>1, <1>3, <1>4 DEF Rows
  <2>2. n + 1 \in Nat
    BY <1>1
  <2> QED BY <1>1, <2>1, <2>2 DEF Ins
<1>7. /\ x.written[name] = m
      /\ \A other \in Names \ {name} : x.written[other] = ins[t].written[other]
  BY <1>1, <1>3, <1>5 DEF Rows
<1> HIDE DEF x
<1>8. ins'[t] = x
  BY <1>1, <1>2
<1>9. ASSUME NEW other \in Names
      PROVE  WrittenOK(t, other)'
  <2>1. CASE other = name
    <3>1. IsLast(list, n + 1, name, n + 1)
      BY <1>1, NewIsLast
    <3>2. n + 1 \in 1..(n + 1)
      BY <1>1
    <3> HIDE DEF n, list, name
    <3> QED BY <1>2, <1>4, <1>5, <1>7, <1>8, <2>1, <3>1, <3>2 DEF WrittenOK
  <2>2. CASE other # name
    <3>1. WrittenOK(t, other)
      BY <1>1, <1>2 DEF OpenOK
    <3>2. ins'[t].written[other] = ins[t].written[other]
      BY <1>7, <1>8, <2>2
    <3>3. CASE ins[t].written[other] = NoModule
      <4>1. \A k \in 1..(n + 1) : list[k] # other
        BY <1>1, <2>2, <3>1, <3>3 DEF WrittenOK
      <4> QED BY <1>5, <1>8, <3>2, <3>3, <4>1 DEF WrittenOK
    <3>4. CASE ins[t].written[other] # NoModule
      <4>1. PICK k \in 1..n : /\ IsLast(list, n, other, k)
                              /\ ins[t].written[other].text = <<t, k>>
        BY <3>1, <3>4 DEF WrittenOK
      <4>2. IsLast(list, n + 1, other, k) /\ k \in 1..(n + 1)
        BY <1>1, <2>2, <4>1, LastMovesOn
      <4>3. ins[t].written[other].id
              = (IF library[other] = NoModule THEN t ELSE library[other].id)
        BY <3>1, <3>4 DEF WrittenOK
      <4> HIDE DEF n, list, name
      <4> QED BY <1>2, <1>5, <1>8, <3>2, <3>4, <4>1, <4>2, <4>3 DEF WrittenOK
    <3> QED BY <3>3, <3>4
  <2> QED BY <2>1, <2>2
<1>10. OpenOK(t)'
  <2>1. list \in Lists /\ list # <<>> /\ n + 1 <= Len(list)
    BY <1>1, <1>2 DEF OpenOK
  <2> HIDE DEF n, list, name
  <2> QED BY <1>5, <1>8, <1>9, <2>1 DEF OpenOK, IsOpen
<1>11. ASSUME NEW u \in Inserts \ {t}, NEW other \in Names
       PROVE  x.written[other] = NoModule \/ ins[u].written[other] = NoModule
  <2>1. CASE other = name
    BY <1>2, <2>1 DEF Waits, More, NextName
  <2>2. CASE other # name
    BY <1>7, <2>2 DEF IInv, Apart
  <2> QED BY <2>1, <2>2
<1> HIDE DEF n, list, name
<1> QED BY <1>2, <1>6, <1>10, <1>11, BecomeInv

-----------------------------------------------------------------------------
(* COMMIT: a step of the atomic library.                                     *)

\* The calls that committed, which the abstract library knows as landed, and
\* what each was given.
Landers == {t \in Inserts : ins[t].landed}
Asked == [t \in Inserts |-> ins[t].list]
Same == UNCHANGED <<library, Asked, Landers>>

LEMMA CommitLands ==
    ASSUME LibraryAssumption, IInv, NEW t \in Inserts, NEW reply, Commit(t, reply)
    PROVE  Atomic!LibraryNext
<1> DEFINE n == ins[t].n
<1>0. PICK list \in Lists : list = ins[t].list
  BY DEF Commit, IInv, OpenOK
<1>1. /\ OpenOK(t) /\ n \in Nat /\ list \in Seq(Names) /\ Len(list) \in Nat
      /\ ins[t].written \in Rows
  BY <1>0, ListType DEF IInv
<1>2. IsOpen(t) /\ ~(n < Len(list))
  BY <1>0 DEF Commit, More
<1>3. n = Len(list)
  BY <1>0, <1>1, <1>2 DEF OpenOK
<1>4. ASSUME NEW name \in Names
      PROVE  (IF ins[t].written[name] # NoModule THEN ins[t].written[name]
                                                 ELSE library[name])
               = (IF Atomic!Has(list, name)
                    THEN Atomic!Landed(t, list, name, library[name])
                    ELSE library[name])
  <2> DEFINE w == ins[t].written[name]
  <2>1. WrittenOK(t, name) /\ w \in Module \union {NoModule}
    BY <1>1, <1>2 DEF OpenOK, Rows
  <2>2. CASE w = NoModule
    <3>1. ~Atomic!Has(list, name)
      BY <1>0, <1>3, <2>1, <2>2 DEF WrittenOK, Atomic!Has
    <3> QED BY <2>2, <3>1
  <2>3. CASE w # NoModule
    <3>1. PICK k \in 1..n : IsLast(list, n, name, k) /\ w.text = <<t, k>>
      BY <1>0, <2>1, <2>3 DEF WrittenOK
    <3>2. Atomic!Has(list, name)
      BY <1>3, <3>1 DEF IsLast, Atomic!Has
    <3>3. Atomic!LastOf(list, name) = k
      BY <1>1, <1>3, <3>1, LastIsLast
    <3>4. w.id = (IF library[name] = NoModule THEN t ELSE library[name].id)
      BY <2>1, <2>3 DEF WrittenOK
    <3>5. w = [id |-> w.id, text |-> w.text]
      BY <2>1, <2>3 DEF Module
    <3> HIDE DEF w
    <3>6. w = Atomic!Landed(t, list, name, library[name])
      BY <3>1, <3>3, <3>4, <3>5 DEF Atomic!Landed
    <3> QED BY <2>3, <3>2, <3>6 DEF w
  <2> QED BY <2>2, <2>3
<1>5. library' = [name \in Names |-> IF ins[t].written[name] # NoModule
                                       THEN ins[t].written[name] ELSE library[name]]
  BY DEF Commit
<1>6. t \notin Landers /\ Landers' = Landers \union {t}
  <2>1. ins \in [Inserts -> Ins] /\ ~ins[t].landed
    BY <1>1, <1>2 DEF IInv, TypeOK, OpenOK, IsOpen
  <2>2. ins'[t].landed /\ \A u \in Inserts \ {t} : ins'[u] = ins[u]
    BY <2>1 DEF Commit, Ins
  <2> QED BY <2>1, <2>2 DEF Landers
<1>7. Asked[t] = list /\ list # <<>> /\ Asked' = Asked
  <2>1. list # <<>>
    BY <1>0, <1>1, <1>2 DEF OpenOK
  <2>2. \A u \in Inserts : ins'[u].list = ins[u].list
    BY DEF Commit, IInv, TypeOK, Ins
  <2> QED BY <1>0, <2>1, <2>2 DEF Asked
<1>8. library' = [name \in Names |-> IF Atomic!Has(list, name)
                                       THEN Atomic!Landed(t, list, name, library[name])
                                       ELSE library[name]]
  BY <1>4, <1>5
<1>9. Atomic!Land(t)
  BY <1>6, <1>7, <1>8 DEF Atomic!Land, Landers, Asked
<1> QED BY <1>9 DEF Atomic!LibraryNext

LEMMA CommitInv ==
    ASSUME LibraryAssumption, IInv, NEW t \in Inserts, NEW reply \in {"ok", "error"},
           Commit(t, reply)
    PROVE  IInv'
<1> DEFINE x == [ins[t] EXCEPT !.pc = reply, !.written = Nothing, !.landed = TRUE]
<1>1. ins \in [Inserts -> Ins] /\ ins[t] \in Ins /\ library \in Rows
      /\ ins[t].written \in Rows
  BY ListType DEF IInv, TypeOK
<1>2. /\ ins' = [ins EXCEPT ![t] = x]
      /\ library' = [name \in Names |-> IF ins[t].written[name] # NoModule
                                          THEN ins[t].written[name] ELSE library[name]]
  BY DEF Commit
<1>3. x \in Ins /\ x.pc = reply /\ x.written = Nothing
  BY <1>1, NothingType DEF Ins
<1> HIDE DEF x
<1>4. ins'[t] = x /\ \A u \in Inserts \ {t} : ins'[u] = ins[u]
  BY <1>1, <1>2
<1>5. TypeOK'
  BY <1>1, <1>2, <1>3 DEF TypeOK, Rows
<1>6. ASSUME NEW u \in Inserts
      PROVE  OpenOK(u)'
  <2>1. CASE u = t
    BY <1>3, <1>4, <2>1 DEF OpenOK, IsOpen
  <2>2. CASE u # t
    <3>1. ins'[u] = ins[u] /\ OpenOK(u) /\ Apart(t, u)
      BY <1>4, <2>2 DEF IInv
    <3>2. ASSUME NEW name \in Names, WrittenOK(u, name)
          PROVE  WrittenOK(u, name)'
      <4>1. CASE ins[u].written[name] = NoModule
        BY <3>1, <3>2, <4>1 DEF WrittenOK
      <4>2. CASE ins[u].written[name] # NoModule
        <5>1. library'[name] = library[name]
          BY <1>2, <3>1, <4>2 DEF Apart
        <5> QED BY <3>1, <3>2, <5>1 DEF WrittenOK
      <4> QED BY <4>1, <4>2
    <3> QED BY <3>1, <3>2 DEF OpenOK, IsOpen
  <2> QED BY <2>1, <2>2
<1>7. ASSUME NEW u \in Inserts, NEW v \in Inserts, u # v
      PROVE  Apart(u, v)'
  BY <1>3, <1>4, <1>7, NothingType DEF IInv, Apart
<1> QED BY <1>5, <1>6, <1>7 DEF IInv

-----------------------------------------------------------------------------
LEMMA InitInv ==
    ASSUME Init
    PROVE  IInv
<1>1. NoIns \in Ins
  BY NothingType DEF NoIns, Ins
<1>2. \A t \in Inserts : ins[t] = NoIns
  BY DEF Init
<1>3. TypeOK
  BY <1>1, NothingType DEF Init, TypeOK
<1>4. NoIns.pc = "idle" /\ NoIns.n = 0 /\ NoIns.written = Nothing
      /\ ~NoIns.landed /\ NoIns.list = <<>>
  BY DEF NoIns
<1>5. \A t \in Inserts : OpenOK(t)
  BY <1>2, <1>4 DEF OpenOK, IsOpen
<1>6. \A t, u \in Inserts : Apart(t, u)
  BY <1>2, <1>4, NothingType DEF Apart
<1> QED BY <1>3, <1>5, <1>6 DEF IInv

LEMMA NextInv ==
    ASSUME LibraryAssumption, IInv, [Next]_vars
    PROVE  IInv' /\ [Atomic!LibraryNext]_(Atomic!libraryVars)
<1>1. ASSUME NEW t \in Inserts, NEW list \in Lists, Begin(t, list)
      PROVE  IInv' /\ Atomic!LibraryNext
  <2>1. \A u \in Inserts : ins'[u].landed = ins[u].landed
    BY <1>1 DEF IInv, TypeOK, Ins, Begin
  <2>2. Asked[t] = <<>> /\ t \notin Landers /\ Landers' = Landers /\ library' = library
    BY <1>1, <2>1 DEF Begin, IInv, OpenOK, Asked, Landers
  <2>3. Asked' = [Asked EXCEPT ![t] = list]
    BY <1>1 DEF Begin, IInv, TypeOK, Ins, Asked
  <2>4. Atomic!Ask(t, list)
    BY <2>2, <2>3 DEF Atomic!Ask, Asked, Landers
  <2> QED BY <1>1, <2>4, BeginInv, LibraryAssumption DEF Atomic!LibraryNext
<1>2. ASSUME NEW t \in Inserts, Upsert(t)
      PROVE  IInv' /\ Same
  <2>1. \A u \in Inserts : ins'[u].landed = ins[u].landed /\ ins'[u].list = ins[u].list
    BY <1>2 DEF IInv, TypeOK, Ins, Upsert
  <2> QED BY <1>2, <2>1, UpsertInv, LibraryAssumption DEF Upsert, Landers, Asked, Same
<1>3. ASSUME NEW t \in Inserts, Victim(t) \/ Fail(t)
      PROVE  IInv' /\ Same
  <2>1. \A u \in Inserts : ins'[u].landed = ins[u].landed /\ ins'[u].list = ins[u].list
    BY <1>3 DEF IInv, TypeOK, Ins, Victim, Fail, Rollback
  <2> QED BY <1>3, <2>1, RollbackInv DEF Victim, Fail, Landers, Asked, Same
<1>4. ASSUME NEW t \in Inserts, NEW reply \in {"ok", "error"}, Commit(t, reply)
      PROVE  IInv' /\ Atomic!LibraryNext
  BY <1>4, CommitInv, CommitLands, LibraryAssumption
<1>5. ASSUME UNCHANGED vars
      PROVE  IInv' /\ Same
  <2>1. ins' = ins /\ library' = library
    BY <1>5 DEF vars
  <2>2. \A t \in Inserts : OpenOK(t)'
    BY <2>1 DEF IInv, OpenOK, IsOpen, WrittenOK
  <2>3. \A t, u \in Inserts : t # u => Apart(t, u)'
    BY <2>1 DEF IInv, Apart
  <2> QED BY <2>1, <2>2, <2>3 DEF IInv, TypeOK, Landers, Asked, Same
<1>6. CASE Next
  <2>1. ASSUME NEW t \in Inserts, Step(t)
        PROVE  IInv' /\ (Atomic!LibraryNext \/ Same)
    BY <2>1, <1>2, <1>3, <1>4 DEF Step
  <2>2. IInv' /\ (Atomic!LibraryNext \/ Same)
    BY <1>6, <1>1, <1>3, <2>1 DEF Next
  <2> QED BY <2>2 DEF Same, Landers, Asked, Atomic!libraryVars
<1>7. CASE UNCHANGED vars
  BY <1>5, <1>7 DEF Same, Landers, Asked, Atomic!libraryVars
<1> QED BY <1>6, <1>7

\* Types, and what the transactions hold.
THEOREM LibraryInvariant == Spec => []IInv
<1>1. Init => IInv
  BY InitInv
<1>2. IInv /\ [Next]_vars => IInv'
  BY NextInv, LibraryAssumption
<1> QED BY <1>1, <1>2, PTL DEF Spec

\* Library, lists and transactions keep their types whatever calls interleave
\* (BulkInsert's upserts, commits and rollbacks).
THEOREM LibraryTypeCorrect == Spec => []TypeOK
<1>1. IInv => TypeOK
  BY DEF IInv
<1> QED BY <1>1, LibraryInvariant, PTL

\* BulkInsert implements the atomic library: whatever the order in which calls
\* take the names and wherever they fail, terraform_modules changes by whole
\* lists, and an upserted module keeps its id.
THEOREM BulkInsertIsAtomic == Spec => LandsAtomically
<1>1. Init => Atomic!LibraryInit
  <2> SUFFICES ASSUME Init
               PROVE  Atomic!LibraryInit
    OBVIOUS
  <2>1. \A t \in Inserts : ~ins[t].landed /\ ins[t].list = <<>>
    BY DEF Init, NoIns
  <2> QED BY <2>1 DEF Init, Nothing, Atomic!LibraryInit
<1>2. IInv /\ [Next]_vars => [Atomic!LibraryNext]_(Atomic!libraryVars)
  BY NextInv, LibraryAssumption
<1> QED BY <1>1, <1>2, LibraryInvariant, PTL DEF Spec, LandsAtomically, Atomic!LibrarySpec
=============================================================================
