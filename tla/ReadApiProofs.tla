--------------------------- MODULE ReadApiProofs ---------------------------
(***************************************************************************)
(* The audit trail read in pages, for any number of entries and any limit,  *)
(* and a request's way through the layers of the router.                    *)
(***************************************************************************)
EXTENDS AuditPages, HttpLayers, FiniteSetTheorems, TLAPS

(* The inductive invariant of a reading.                                     *)

\* The entries List puts before e, where no time is shared.
Newer(e) == {f \in visible : stamp[f] > stamp[e]}

\* Where the next page begins.
NextOffset == Offset(reader.page, reader.limit)

\* An entry has its time before it is seen, is seen before it is shown, and
\* what is deleted is gone.
OrderOK ==
    /\ \A e \in visible \union deleted : stamp[e] > 0
    /\ visible \intersect deleted = {}
    /\ settled \subseteq visible \union deleted
    /\ \A e \in Entries : shown[e] > 0 => e \in visible \union deleted
    /\ reader.phase = "away" => \A e \in Entries : shown[e] = 0

\* What is still to be shown lies beyond the pages already read.
SettledAhead ==
    \A e \in settled \ deleted :
        OwnTime(e) /\ shown[e] = 0 /\ reader.phase # "away" =>
            /\ reader.phase = "reading"
            /\ e \in visible /\ Cardinality(Newer(e)) >= NextOffset

\* What was shown and is beyond the pages already read will be shown again.
Ahead == {e \in visible : shown[e] > 0 /\ Cardinality(Newer(e)) >= NextOffset}

Repeats == UNION {{e} \X (2..shown[e]) : e \in Entries}

NoTies == \A e \in Entries : stamp[e] > 0 => OwnTime(e)

RepeatsBounded ==
    /\ IsFiniteSet(Repeats)
    /\ NoTies => /\ Cardinality(Repeats) <= late
                 /\ reader.phase = "reading" =>
                        Cardinality(Repeats) + Cardinality(Ahead) <= late

ReadingInv == PagesTypeOK /\ OrderOK /\ SettledAhead /\ RepeatsBounded

\* An entry that is seen has its row, and one that a reset leaves behind, since
\* its row came after the second DELETE, is no older than what the first found.
ResetOK ==
    /\ \A e \in Entries : stamp[e] <= clock /\ (row[ChangeOf[e]] = "none" => stamp[e] = 0)
    /\ \A e \in visible : row[ChangeOf[e]] = "kept"
    /\ \A t \in Resets : \A e \in purge[t].seen : stamp[e] > 0
    /\ \A t \in Resets : purge[t].pc = "rows" =>
          \A e \in purge[t].seen, f \in Entries :
             stamp[f] > 0 /\ row[ChangeOf[f]] = "kept" /\ ChangeOf[f] \notin purge[t].rows
                => stamp[f] >= stamp[e]

PagesIInv == ReadingInv /\ ResetOK

LEMMA LimitFacts ==
    ASSUME NEW p \in Nat, NEW n \in Nat
    PROVE  /\ Limit(n) \in Nat \ {0} /\ Page(p) \in Nat \ {0}
           /\ Offset(p, n) \in Nat
           /\ Offset(Page(p) + 1, n) = Offset(p, n) + Limit(n)
<1>1. Limit(n) \in Nat \ {0} /\ Page(p) \in Nat \ {0}
      BY PagesAssumption DEF Limit, Page
<1>2. PICK q \in Nat, m \in Nat : q = Page(p) - 1 /\ m = Limit(n)
      BY <1>1
<1>3. Page(Page(p) + 1) = q + 2
      BY <1>1, <1>2 DEF Page
<1>4. q * m \in Nat
      OBVIOUS
<1>5. Offset(p, n) = q * m /\ Offset(Page(p) + 1, n) = (q + 1) * m
      BY <1>2, <1>3 DEF Offset
<1>6. (q + 1) * m = q * m + m
      OBVIOUS
<1> QED
    BY <1>1, <1>2, <1>4, <1>5, <1>6

LEMMA NewerFinite ==
    ASSUME PagesTypeOK, NEW e
    PROVE  /\ IsFiniteSet(visible) /\ IsFiniteSet(Newer(e)) /\ IsFiniteSet(Ahead)
           /\ Cardinality(Newer(e)) \in Nat /\ Cardinality(Ahead) \in Nat
<1>1. IsFiniteSet(visible)
      BY FS_Subset, PagesAssumption DEF PagesTypeOK
<1>2. Newer(e) \in SUBSET visible /\ Ahead \in SUBSET visible
      BY DEF Newer, Ahead
<1> QED
    BY <1>1, <1>2, FS_Subset, FS_CardinalityType

\* Of two entries whose times differ, the older has the more before it.
LEMMA OlderHasMore ==
    ASSUME PagesTypeOK, NEW x \in visible, NEW y \in visible, stamp[x] > stamp[y]
    PROVE  Cardinality(Newer(y)) >= Cardinality(Newer(x)) + 1
<1> stamp \in [Entries -> Nat] /\ visible \subseteq Entries
    BY PagesAssumption DEF PagesTypeOK
<1>1. Newer(x) \union {x} \in SUBSET Newer(y)
      BY DEF Newer
<1>2. x \notin Newer(x)
      BY DEF Newer
<1>3. Cardinality(Newer(x) \union {x}) = Cardinality(Newer(x)) + 1
      BY <1>2, NewerFinite, FS_AddElement
<1>4. Cardinality(Newer(x) \union {x}) <= Cardinality(Newer(y))
      BY <1>1, NewerFinite, FS_Subset
<1> QED
    BY <1>3, <1>4, NewerFinite

LEMMA PagesInitInv == PagesInit => ReadingInv
<1> SUFFICES ASSUME PagesInit PROVE ReadingInv
    OBVIOUS
<1> USE DEF PagesInit
<1>1. PagesTypeOK
      BY PagesAssumption DEF PagesTypeOK, Reader, Phases, Purge
<1>2. OrderOK /\ SettledAhead
      BY DEF OrderOK, SettledAhead
<1>3. Repeats = {}
      BY DEF Repeats
<1>4. RepeatsBounded
      BY <1>3, FS_EmptySet DEF RepeatsBounded
<1> QED
    BY <1>1, <1>2, <1>4 DEF ReadingInv

\* A step that leaves entries and reader as they are.
LEMMA QuietInv ==
    ASSUME ReadingInv,
           UNCHANGED <<stamp, visible, deleted, reader, shown, settled, late>>,
           clock' \in 1..MaxTime, row' \in [Changes -> {"none", "kept", "gone"}],
           purge' \in [Resets -> Purge]
    PROVE  ReadingInv'
<1>1. PagesTypeOK'
      BY DEF ReadingInv, PagesTypeOK
<1>2. OrderOK'
      BY DEF ReadingInv, OrderOK
<1>3. SettledAhead'
      BY DEF ReadingInv, SettledAhead, Newer, NextOffset, OwnTime
<1>4. RepeatsBounded'
      BY DEF ReadingInv, RepeatsBounded, Repeats, NoTies, OwnTime, Ahead, Newer,
             NextOffset
<1> QED
    BY <1>1, <1>2, <1>3, <1>4 DEF ReadingInv

LEMMA TickInv ==
    ASSUME ReadingInv,
           \/ Tick \/ UNCHANGED pagesVars \/ \E c \in Changes : NewRow(c)
           \/ \E t \in Resets : DeleteLogs(t) \/ DeleteRows(t)
    PROVE  ReadingInv'
<1>1. /\ clock \in 1..MaxTime /\ row \in [Changes -> {"none", "kept", "gone"}]
      /\ purge \in [Resets -> Purge] /\ visible \subseteq Entries
      BY DEF ReadingInv, PagesTypeOK
<1>2. CASE Tick
      BY <1>1, <1>2, PagesAssumption, QuietInv DEF Tick
<1>3. CASE UNCHANGED pagesVars
      BY <1>1, <1>3, QuietInv DEF pagesVars
<1>4. CASE \E c \in Changes : NewRow(c)
      BY <1>1, <1>4, QuietInv DEF NewRow
<1>5. ASSUME NEW t \in Resets, DeleteLogs(t) \/ DeleteRows(t)
      PROVE  ReadingInv'
  <2>1. purge' \in [Resets -> Purge]
        BY <1>1, <1>5 DEF DeleteLogs, DeleteRows, Purge
  <2> QED
      BY <1>1, <1>5, <2>1, QuietInv DEF DeleteLogs, DeleteRows
<1> QED
    BY <1>2, <1>3, <1>4, <1>5

LEMMA InsertInv ==
    ASSUME ReadingInv, NEW e \in Entries, Insert(e) PROVE ReadingInv'
<1> USE DEF ReadingInv
<1>1. /\ UNCHANGED <<clock, row, visible, deleted, purge, reader, shown, settled, late>>
      /\ stamp' = [stamp EXCEPT ![e] = clock] /\ stamp[e] = 0
      BY DEF Insert
<1>2. stamp \in [Entries -> 0..MaxTime] /\ clock \in 1..MaxTime /\ MaxTime \in Nat
      BY PagesAssumption DEF PagesTypeOK
<1>3. stamp' \in [Entries -> 0..MaxTime]
      BY <1>1, <1>2
<1>4. PagesTypeOK'
      BY <1>1, <1>3 DEF PagesTypeOK
<1>5. \A f \in Entries : f # e => stamp'[f] = stamp[f]
      BY <1>1, <1>2
<1>6. stamp'[e] > 0
      BY <1>1, <1>2
<1>7. OrderOK'
      BY <1>1, <1>5, <1>6 DEF OrderOK, PagesTypeOK
<1>8. e \notin visible /\ e \notin deleted /\ visible \subseteq Entries
         /\ settled \subseteq Entries
      BY <1>1 DEF OrderOK, PagesTypeOK
<1>9. \A x \in visible : Newer(x)' = Newer(x)
      BY <1>1, <1>5, <1>8 DEF Newer
<1>10. \A x \in Entries : x # e /\ stamp[x] > 0 /\ OwnTime(x)' => OwnTime(x)
       BY <1>1, <1>2, <1>5 DEF OwnTime
<1>11. NextOffset' = NextOffset
       BY <1>1 DEF NextOffset
<1>12. SettledAhead'
       BY <1>1, <1>8, <1>9, <1>10, <1>11 DEF SettledAhead, OrderOK
<1>13. NoTies' => NoTies
       BY <1>1, <1>2, <1>5, <1>10 DEF NoTies
<1>14. Ahead' = Ahead
       BY <1>1, <1>9, <1>11 DEF Ahead
<1>15. Repeats' = Repeats
       BY <1>1 DEF Repeats
<1>16. RepeatsBounded'
       BY <1>1, <1>13, <1>14, <1>15 DEF RepeatsBounded
<1> QED
    BY <1>4, <1>7, <1>12, <1>16

\* An arrival moves at most one entry that was shown into the pages to come.
LEMMA CommitInv ==
    ASSUME ReadingInv, NEW c \in Entries, Commit(c) PROVE ReadingInv'
<1> USE DEF ReadingInv
<1>1. /\ UNCHANGED <<clock, row, stamp, deleted, purge, reader, shown, settled>>
      /\ visible' = visible \union {c}
      /\ late' = IF reader.phase = "reading" THEN late + 1 ELSE late
      /\ stamp[c] > 0 /\ c \notin visible /\ c \notin deleted
      BY DEF Commit, InFlight
<1>2. PagesTypeOK'
      BY <1>1 DEF PagesTypeOK
<1>3. OrderOK'
      BY <1>1 DEF OrderOK
<1>4. NextOffset' = NextOffset /\ Repeats' = Repeats /\ (NoTies' <=> NoTies)
      BY <1>1 DEF NextOffset, Repeats, NoTies, OwnTime
<1>5. ASSUME NEW x
      PROVE  /\ Newer(x) \subseteq Newer(x)' /\ Newer(x)' \subseteq Newer(x) \union {c}
             /\ Cardinality(Newer(x)) <= Cardinality(Newer(x)')
             /\ Cardinality(Newer(x)') <= Cardinality(Newer(x)) + 1
             /\ Cardinality(Newer(x)') \in Nat
  <2>1. Newer(x) \in SUBSET Newer(x)' /\ Newer(x)' \in SUBSET (Newer(x) \union {c})
        BY <1>1 DEF Newer
  <2>2. IsFiniteSet(Newer(x)) /\ Cardinality(Newer(x)) \in Nat
        BY NewerFinite
  <2>3. IsFiniteSet(Newer(x) \union {c})
           /\ Cardinality(Newer(x) \union {c}) <= Cardinality(Newer(x)) + 1
        BY <2>2, FS_AddElement
  <2>4. /\ IsFiniteSet(Newer(x)')
        /\ Cardinality(Newer(x)') <= Cardinality(Newer(x) \union {c})
        BY <2>1, <2>3, FS_Subset
  <2>5. Cardinality(Newer(x)) <= Cardinality(Newer(x)') /\ Cardinality(Newer(x)') \in Nat
        BY <2>1, <2>4, FS_Subset, FS_CardinalityType
  <2>6. Cardinality(Newer(x) \union {c}) \in Nat
        BY <2>3, FS_CardinalityType
  <2> QED
      BY <2>1, <2>2, <2>3, <2>4, <2>5, <2>6
<1>6. reader.phase = "reading" => NextOffset \in Nat
      BY DEF PagesTypeOK, NextOffset
<1>7. SettledAhead'
  <2> SUFFICES ASSUME NEW e \in settled \ deleted, OwnTime(e), shown[e] = 0,
                      reader.phase # "away"
               PROVE  /\ reader.phase = "reading"
                      /\ e \in visible' /\ Cardinality(Newer(e)') >= NextOffset
      BY <1>1, <1>4 DEF SettledAhead, OwnTime
  <2>1. /\ reader.phase = "reading" /\ e \in visible
        /\ Cardinality(Newer(e)) >= NextOffset
        BY DEF SettledAhead
  <2>2. Cardinality(Newer(e)) \in Nat
        BY NewerFinite
  <2> QED
      BY <1>1, <1>5, <1>6, <2>1, <2>2
<1>8. ASSUME NoTies, reader.phase = "reading"
      PROVE  /\ Cardinality(Ahead') <= Cardinality(Ahead) + 1
             /\ Cardinality(Ahead') \in Nat
  <2>1. ASSUME NEW x \in Ahead' \ Ahead
        PROVE  /\ x \in visible /\ Cardinality(Newer(x)) + 1 = NextOffset
    <3>1. x \in visible
          BY <1>1 DEF Ahead, OrderOK, PagesTypeOK
    <3>2. shown[x] > 0 /\ Cardinality(Newer(x)') >= NextOffset
          BY <1>1, <1>4 DEF Ahead
    <3>3. ~(Cardinality(Newer(x)) >= NextOffset)
          BY <3>1, <3>2 DEF Ahead
    <3>4. Cardinality(Newer(x)) \in Nat
          BY NewerFinite
    <3> QED
        BY <1>5, <1>6, <1>8, <3>1, <3>2, <3>3, <3>4
  <2>2. ASSUME NEW x \in Ahead' \ Ahead, NEW y \in Ahead' \ Ahead PROVE x = y
    <3>1. x \in visible /\ y \in visible
          BY <2>1
    <3>2. Cardinality(Newer(x)) = Cardinality(Newer(y))
             /\ Cardinality(Newer(x)) \in Nat /\ Cardinality(Newer(y)) \in Nat
          BY <2>1, <1>6, <1>8, NewerFinite
    <3>3. ~(stamp[x] > stamp[y]) /\ ~(stamp[y] > stamp[x])
          BY <3>1, <3>2, OlderHasMore
    <3>4. /\ x \in Entries /\ y \in Entries /\ stamp[x] > 0
          /\ stamp[x] \in Int /\ stamp[y] \in Int
          BY <3>1, PagesAssumption DEF PagesTypeOK, OrderOK
    <3>5. stamp[x] = stamp[y]
          BY <3>3, <3>4
    <3> QED
        BY <3>4, <3>5, <1>8 DEF NoTies, OwnTime
  <2>3. PICK x : Ahead' \in SUBSET (Ahead \union {x})
    <3>1. CASE Ahead' \ Ahead = {}
          BY <3>1
    <3>2. CASE Ahead' \ Ahead # {}
      <4>1. PICK x : x \in Ahead' \ Ahead
            BY <3>2
      <4> QED
          BY <2>2, <4>1
    <3> QED
        BY <3>1, <3>2
  <2>4. IsFiniteSet(Ahead \union {x})
           /\ Cardinality(Ahead \union {x}) <= Cardinality(Ahead) + 1
        BY NewerFinite, FS_AddElement
  <2>5. Cardinality(Ahead') <= Cardinality(Ahead \union {x})
           /\ Cardinality(Ahead') \in Nat /\ Cardinality(Ahead \union {x}) \in Nat
        BY <2>3, <2>4, FS_Subset, FS_CardinalityType
  <2> QED
      BY <2>4, <2>5, NewerFinite
<1>9. RepeatsBounded'
  <2>1. IsFiniteSet(Repeats)
        BY DEF RepeatsBounded
  <2>2. Cardinality(Repeats) \in Nat /\ Cardinality(Ahead) \in Nat
           /\ late \in Nat
        BY <2>1, NewerFinite, FS_CardinalityType DEF PagesTypeOK
  <2>3. ASSUME NoTies
        PROVE  /\ Cardinality(Repeats) <= late'
               /\ reader.phase = "reading" =>
                     Cardinality(Repeats) + Cardinality(Ahead') <= late'
    <3>1. CASE reader.phase = "reading"
          BY <1>1, <1>8, <2>2, <2>3, <3>1 DEF RepeatsBounded
    <3>2. CASE reader.phase # "reading"
          BY <1>1, <2>3, <3>2 DEF RepeatsBounded
    <3> QED
        BY <3>1, <3>2
  <2> QED
      BY <1>1, <1>4, <2>1, <2>3 DEF RepeatsBounded
<1> QED
    BY <1>2, <1>3, <1>7, <1>9

\* What a reset leaves behind has as many entries before it as it had.
LEMMA ResetInv ==
    ASSUME ReadingInv, ResetOK, NEW t \in Resets, CommitReset(t)
    PROVE  ReadingInv'
<1> USE DEF ReadingInv
<1> DEFINE S == purge[t].seen
<1>1. /\ visible' = visible \ S /\ deleted' = deleted \union (S \intersect visible)
      /\ row' = [c \in Changes |-> IF c \in purge[t].rows THEN "gone" ELSE row[c]]
      /\ purge' = [purge EXCEPT ![t].pc = "done"]
      /\ UNCHANGED <<clock, stamp, reader, shown, settled, late>>
      BY DEF CommitReset
<1>2. PagesTypeOK'
  <2>1. purge' \in [Resets -> Purge] /\ row' \in [Changes -> {"none", "kept", "gone"}]
        BY <1>1 DEF PagesTypeOK, Purge
  <2> QED
      BY <1>1, <2>1 DEF PagesTypeOK
<1>3. OrderOK'
      BY <1>1 DEF OrderOK
<1>4. ASSUME NEW f \in visible' PROVE f \in visible /\ Newer(f)' = Newer(f)
  <2>1. /\ f \in visible /\ f \in Entries /\ f \notin S /\ stamp[f] > 0
        /\ row[ChangeOf[f]] = "kept" /\ ChangeOf[f] \notin purge[t].rows
        BY <1>1 DEF PagesTypeOK, OrderOK, ResetOK, CommitReset
  <2>2. \A e \in S : stamp[f] >= stamp[e]
        BY <2>1 DEF ResetOK, CommitReset
  <2>3. \A e \in visible : stamp[e] \in Int /\ stamp[f] \in Int
        BY <2>1, PagesAssumption DEF PagesTypeOK
  <2>4. \A e \in visible : stamp[e] > stamp[f] => e \notin S
        BY <2>2, <2>3
  <2> QED
      BY <1>1, <2>1, <2>4 DEF Newer
<1>5. NextOffset' = NextOffset /\ Repeats' = Repeats /\ (NoTies' <=> NoTies)
      BY <1>1 DEF NextOffset, Repeats, NoTies, OwnTime
<1>6. SettledAhead'
  <2> SUFFICES ASSUME NEW e \in settled \ deleted', OwnTime(e), shown[e] = 0,
                      reader.phase # "away"
               PROVE  /\ reader.phase = "reading"
                      /\ e \in visible' /\ Cardinality(Newer(e)') >= NextOffset
      BY <1>1, <1>5 DEF SettledAhead, OwnTime
  <2>1. e \in settled \ deleted /\ (e \in visible => e \in visible')
        BY <1>1
  <2>2. /\ reader.phase = "reading" /\ e \in visible
        /\ Cardinality(Newer(e)) >= NextOffset
        BY <2>1 DEF SettledAhead
  <2> QED
      BY <1>4, <2>1, <2>2
<1>7. Cardinality(Ahead') <= Cardinality(Ahead) /\ Cardinality(Ahead') \in Nat
  <2>1. Ahead' \in SUBSET Ahead
        BY <1>1, <1>4, <1>5 DEF Ahead
  <2> QED
      BY <2>1, NewerFinite, FS_Subset, FS_CardinalityType
<1>8. Cardinality(Repeats) \in Nat /\ Cardinality(Ahead) \in Nat /\ late \in Nat
      BY NewerFinite, FS_CardinalityType DEF RepeatsBounded, PagesTypeOK
<1>9. RepeatsBounded'
      BY <1>1, <1>5, <1>7, <1>8 DEF RepeatsBounded
<1> QED
    BY <1>2, <1>3, <1>6, <1>9

LEMMA ResetOKInv ==
    ASSUME PagesIInv, [PagesNext]_pagesVars
    PROVE  ResetOK'
<1> USE DEF PagesIInv
<1>0. /\ stamp \in [Entries -> 0..MaxTime] /\ clock \in 1..MaxTime /\ MaxTime \in Nat
      /\ row \in [Changes -> {"none", "kept", "gone"}] /\ purge \in [Resets -> Purge]
      /\ visible \subseteq Entries /\ ChangeOf \in [Entries -> Changes]
      /\ \A u \in Resets : purge[u].seen \subseteq Entries
      BY PagesAssumption DEF ReadingInv, PagesTypeOK, Purge
<1>1. ASSUME UNCHANGED <<row, stamp, visible, purge>>, clock' \in Int, clock' >= clock
      PROVE  ResetOK'
      BY <1>0, <1>1 DEF ResetOK
<1>2. CASE Tick
      BY <1>0, <1>1, <1>2 DEF Tick
<1>3. CASE List \/ UNCHANGED pagesVars
      BY <1>0, <1>1, <1>3 DEF List, pagesVars
<1>4. ASSUME NEW p \in 0..1, NEW n \in 0..MaxLimit, Begin(p, n)
      PROVE  ResetOK'
      BY <1>0, <1>1, <1>4 DEF Begin
<1>5. ASSUME NEW c \in Changes, NewRow(c)
      PROVE  ResetOK'
  <2>1. /\ row[c] = "none" /\ row' = [row EXCEPT ![c] = "kept"]
        /\ UNCHANGED <<clock, stamp, visible, purge>>
        BY <1>5 DEF NewRow
  <2>2. \A e \in Entries :
           /\ stamp[e] > 0 => row'[ChangeOf[e]] = row[ChangeOf[e]]
           /\ row'[ChangeOf[e]] = "none" => row[ChangeOf[e]] = "none"
        BY <1>0, <2>1 DEF ResetOK
  <2>3. \A e \in visible : row'[ChangeOf[e]] = "kept"
        BY <1>0, <2>1 DEF ResetOK
  <2> QED
      BY <1>0, <2>1, <2>2, <2>3 DEF ResetOK
<1>6. ASSUME NEW e \in Entries, Insert(e)
      PROVE  ResetOK'
  <2>1. /\ row[ChangeOf[e]] = "kept" /\ stamp' = [stamp EXCEPT ![e] = clock]
        /\ UNCHANGED <<clock, row, visible, purge>>
        BY <1>6 DEF Insert
  <2>2. stamp'[e] = clock /\ \A f \in Entries : f # e => stamp'[f] = stamp[f]
        BY <1>0, <2>1
  <2>3. \A f \in Entries : stamp'[f] <= clock /\ stamp'[f] >= stamp[f]
        BY <1>0, <1>6, <2>2 DEF ResetOK, Insert
  <2>4. ASSUME NEW u \in Resets, purge[u].pc = "rows",
               NEW x \in purge[u].seen, NEW f \in Entries,
               stamp'[f] > 0, row[ChangeOf[f]] = "kept", ChangeOf[f] \notin purge[u].rows
        PROVE  stamp'[f] >= stamp'[x]
    <3>1. x \in Entries /\ stamp[x] > 0 /\ x # e
          BY <1>0, <1>6, <2>4 DEF ResetOK, Insert
    <3>2. CASE f = e
          BY <2>2, <2>3, <3>1, <3>2
    <3>3. CASE f # e
          BY <2>2, <2>4, <3>1, <3>3 DEF ResetOK
    <3> QED
        BY <3>2, <3>3
  <2>5. \A u \in Resets : \A x \in purge[u].seen : stamp'[x] > 0
        BY <1>0, <2>2 DEF ResetOK
  <2> QED
      BY <1>0, <2>1, <2>2, <2>3, <2>4, <2>5 DEF ResetOK
<1>7. ASSUME NEW e \in Entries, Commit(e)
      PROVE  ResetOK'
      BY <1>0, <1>7 DEF Commit, ResetOK
<1>8. ASSUME NEW t \in Resets, DeleteLogs(t)
      PROVE  ResetOK'
  <2>1. /\ UNCHANGED <<clock, row, stamp, visible>>
        /\ \A u \in Resets : purge'[u].pc = "rows" => purge'[u] = purge[u]
        /\ \A u \in Resets : purge'[u].seen \in {purge[u].seen, visible}
        /\ \A e \in visible : stamp[e] > 0
        BY <1>0, <1>8 DEF DeleteLogs, Purge, ReadingInv, OrderOK
  <2> QED
      BY <1>0, <2>1 DEF ResetOK
<1>9. ASSUME NEW t \in Resets, DeleteRows(t)
      PROVE  ResetOK'
  <2>1. /\ UNCHANGED <<clock, row, stamp, visible>>
        /\ purge'[t].seen = purge[t].seen
        /\ purge'[t].rows = {c \in Changes : row[c] = "kept"}
        /\ \A u \in Resets \ {t} : purge'[u] = purge[u]
        BY <1>0, <1>9 DEF DeleteRows, Purge
  <2> QED
      BY <1>0, <2>1 DEF ResetOK
<1>10. ASSUME NEW t \in Resets, CommitReset(t)
       PROVE  ResetOK'
  <2>1. /\ UNCHANGED <<clock, stamp>> /\ visible' = visible \ purge[t].seen
        /\ row' = [c \in Changes |-> IF c \in purge[t].rows THEN "gone" ELSE row[c]]
        /\ \A e \in visible' : ChangeOf[e] \notin purge[t].rows
        BY <1>10 DEF CommitReset
  <2>2. \A u \in Resets : /\ purge'[u].pc = "rows" => purge'[u] = purge[u]
                          /\ purge'[u].seen = purge[u].seen
        BY <1>0, <1>10 DEF CommitReset, Purge
  <2>3. \A e \in Entries :
           row'[ChangeOf[e]] # "gone" => row'[ChangeOf[e]] = row[ChangeOf[e]]
        BY <1>0, <2>1
  <2>4. \A e \in visible' : row'[ChangeOf[e]] = "kept"
        BY <1>0, <2>1 DEF ResetOK
  <2>5. ASSUME NEW u \in Resets, purge'[u].pc = "rows",
               NEW x \in purge'[u].seen, NEW f \in Entries,
               stamp[f] > 0, row'[ChangeOf[f]] = "kept", ChangeOf[f] \notin purge'[u].rows
        PROVE  stamp[f] >= stamp[x]
    <3>1. purge'[u] = purge[u] /\ row[ChangeOf[f]] = "kept"
          BY <2>2, <2>3, <2>5
    <3> QED
        BY <2>5, <3>1 DEF ResetOK
  <2>6. \A e \in Entries : row'[ChangeOf[e]] = "none" => row[ChangeOf[e]] = "none"
        BY <1>0, <2>3
  <2>7. \A u \in Resets : \A x \in purge'[u].seen : stamp[x] > 0
    <3>1. \A u \in Resets : \A x \in purge[u].seen : stamp[x] > 0
          BY DEF ResetOK
    <3> QED
        BY <2>2, <3>1
  <2>8. \A e \in Entries :
           stamp[e] <= clock /\ (row'[ChangeOf[e]] = "none" => stamp[e] = 0)
        BY <2>6 DEF ResetOK
  <2> QED
      BY <2>1, <2>4, <2>5, <2>7, <2>8 DEF ResetOK
<1> QED
    BY <1>2, <1>3, <1>4, <1>5, <1>6, <1>7, <1>8, <1>9, <1>10 DEF PagesNext

LEMMA BeginInv ==
    ASSUME ReadingInv, NEW p \in 0..1, NEW n \in 0..MaxLimit, Begin(p, n)
    PROVE  ReadingInv'
<1> USE DEF ReadingInv
<1>1. /\ reader.phase = "away"
      /\ reader' = [phase |-> "reading", page |-> p, limit |-> n]
      /\ settled' = visible
      /\ UNCHANGED <<clock, row, stamp, visible, deleted, purge, shown, late>>
      BY DEF Begin
<1>2. p \in Nat /\ n \in Nat
      BY PagesAssumption
<1>3. NextOffset' = Offset(p, n)
      BY <1>1 DEF NextOffset, Offset, Page, Limit
<1>4. Offset(p, n) = 0
  <2>1. Page(p) = 1
        BY DEF Page
  <2>2. Limit(n) \in Nat
        BY <1>2, LimitFacts
  <2> QED
      BY <2>1, <2>2 DEF Offset
<1>5. PagesTypeOK'
  <2>1. reader' \in Reader
        BY <1>1, <1>2 DEF Reader, Phases
  <2>2. Offset(reader'.page, reader'.limit) \in Nat
        BY <1>1, <1>4
  <2> QED
      BY <1>1, <2>1, <2>2 DEF PagesTypeOK, Offset, Page, Limit
<1>6. \A e \in Entries : shown[e] = 0
      BY <1>1 DEF OrderOK
<1>7. OrderOK'
      BY <1>1, <1>6 DEF OrderOK
<1>8. SettledAhead'
  <2> SUFFICES ASSUME NEW e \in visible
               PROVE  Cardinality(Newer(e)) >= NextOffset'
      BY <1>1 DEF SettledAhead, Newer
  <2> QED
      BY <1>3, <1>4, NewerFinite
<1>9. Repeats' = Repeats /\ (NoTies' <=> NoTies)
      BY <1>1 DEF Repeats, NoTies, OwnTime
<1>10. Ahead' = {}
       BY <1>1, <1>6 DEF Ahead, PagesTypeOK
<1>11. Cardinality(Ahead') = 0
       BY <1>10, FS_EmptySet
<1>12. Cardinality(Repeats) \in Nat
       BY FS_CardinalityType DEF RepeatsBounded
<1>13. RepeatsBounded'
       BY <1>1, <1>9, <1>11, <1>12 DEF RepeatsBounded
<1> QED
    BY <1>5, <1>7, <1>8, <1>13

\* What a page is: S is skipped, P shown.
SkipsAndShows(S, P, offset, limit) ==
    /\ S \subseteq visible /\ P \subseteq visible /\ S \intersect P = {}
    /\ Cardinality(S) <= offset /\ (S # visible => Cardinality(S) = offset)
    /\ Cardinality(P) <= limit
    /\ S \union P # visible => Cardinality(P) = limit
    /\ Newest(S) /\ Newest(S \union P)

LEMMA PageSizes ==
    ASSUME PagesTypeOK, NEW S \in SUBSET visible, NEW P \in SUBSET visible,
           S \intersect P = {}
    PROVE  /\ IsFiniteSet(S) /\ IsFiniteSet(P) /\ IsFiniteSet(S \union P)
           /\ Cardinality(S) \in Nat /\ Cardinality(P) \in Nat
           /\ Cardinality(S \union P) = Cardinality(S) + Cardinality(P)
<1>1. IsFiniteSet(S) /\ IsFiniteSet(P)
      BY NewerFinite, FS_Subset
<1>2. /\ IsFiniteSet(S \union P)
      /\ Cardinality(S \union P) =
            Cardinality(S) + Cardinality(P) - Cardinality(S \intersect P)
      BY <1>1, FS_Union
<1>3. Cardinality(S \intersect P) = 0
      BY FS_EmptySet
<1> QED
    BY <1>1, <1>2, <1>3, FS_CardinalityType

\* An entry of its own time that lies beyond the offset is on the page, or
\* the page is full and it lies beyond the next offset.
LEMMA AheadStaysAhead ==
    ASSUME PagesTypeOK, NEW S, NEW P, NEW offset \in Nat, NEW limit \in Nat,
           SkipsAndShows(S, P, offset, limit),
           NEW e \in visible, OwnTime(e), Cardinality(Newer(e)) >= offset, e \notin P
    PROVE  /\ Cardinality(P) = limit
           /\ Cardinality(Newer(e)) >= offset + limit
<1> USE DEF SkipsAndShows
<1>0. /\ IsFiniteSet(S) /\ IsFiniteSet(S \union P)
      /\ Cardinality(S) \in Nat /\ Cardinality(P) \in Nat
      /\ Cardinality(S \union P) = Cardinality(S) + Cardinality(P)
      BY PageSizes
<1>1. /\ visible \subseteq Entries /\ \A f \in Entries : stamp[f] \in Int
      BY PagesAssumption DEF PagesTypeOK
<1>2. IsFiniteSet(Newer(e)) /\ Cardinality(Newer(e)) \in Nat /\ e \notin Newer(e)
  <2>1. IsFiniteSet(Newer(e)) /\ Cardinality(Newer(e)) \in Nat
        BY NewerFinite
  <2>2. stamp[e] \in Int
        BY <1>1
  <2> QED
      BY <2>1, <2>2 DEF Newer
<1>3. e \notin S
  <2> SUFFICES ASSUME e \in S PROVE FALSE
      OBVIOUS
  <2>1. Newer(e) \union {e} \in SUBSET S
        BY <1>1 DEF Newer, Newest
  <2>2. Cardinality(Newer(e) \union {e}) = Cardinality(Newer(e)) + 1
        BY <1>2, FS_AddElement
  <2>3. Cardinality(Newer(e) \union {e}) <= Cardinality(S)
        BY <1>0, <2>1, FS_Subset
  <2> QED
      BY <1>0, <1>2, <2>2, <2>3
<1>4. Cardinality(S) = offset /\ Cardinality(P) = limit
      BY <1>3
<1>5. S \union P \in SUBSET Newer(e)
  <2> SUFFICES ASSUME NEW f \in S \union P PROVE f \in visible /\ stamp[f] > stamp[e]
      BY DEF Newer
  <2>1. f \in visible /\ f # e
        BY <1>3
  <2>2. stamp[f] >= stamp[e]
        BY <1>3 DEF Newest
  <2>3. stamp[f] # stamp[e]
        BY <1>1, <2>1 DEF OwnTime
  <2> QED
      BY <1>1, <2>1, <2>2, <2>3
<1>6. Cardinality(S \union P) <= Cardinality(Newer(e))
      BY <1>2, <1>5, FS_Subset
<1> QED
    BY <1>0, <1>2, <1>4, <1>6

\* Where no time is shared, what is on the page lies beyond the offset and
\* before the next one.
LEMMA PageIsBetween ==
    ASSUME PagesTypeOK, OrderOK, NoTies,
           NEW S, NEW P, NEW offset \in Nat, NEW limit \in Nat,
           SkipsAndShows(S, P, offset, limit), NEW e \in P
    PROVE  /\ Cardinality(Newer(e)) >= offset
           /\ Cardinality(Newer(e)) < offset + limit
<1> USE DEF SkipsAndShows
<1>0. /\ IsFiniteSet(S) /\ IsFiniteSet(S \union P)
      /\ Cardinality(S) \in Nat /\ Cardinality(P) \in Nat
      /\ Cardinality(S \union P) = Cardinality(S) + Cardinality(P)
      BY PageSizes
<1>1. /\ visible \subseteq Entries /\ \A f \in Entries : stamp[f] \in Int
      BY PagesAssumption DEF PagesTypeOK
<1>2. IsFiniteSet(Newer(e)) /\ Cardinality(Newer(e)) \in Nat /\ e \notin Newer(e)
  <2>1. IsFiniteSet(Newer(e)) /\ Cardinality(Newer(e)) \in Nat
        BY NewerFinite
  <2>2. stamp[e] \in Int
        BY <1>1
  <2> QED
      BY <2>1, <2>2 DEF Newer
<1>3. e \in visible /\ e \in Entries /\ e \notin S /\ OwnTime(e)
      BY <1>1 DEF NoTies, OrderOK
<1>4. Cardinality(S) = offset
      BY <1>3
<1>5. S \in SUBSET Newer(e)
  <2> SUFFICES ASSUME NEW f \in S PROVE f \in visible /\ stamp[f] > stamp[e]
      BY DEF Newer
  <2>1. f \in visible /\ f # e
        BY <1>3
  <2>2. stamp[f] >= stamp[e]
        BY <1>3 DEF Newest
  <2>3. stamp[f] # stamp[e]
        BY <1>1, <1>3, <2>1 DEF OwnTime
  <2> QED
      BY <1>1, <1>3, <2>1, <2>2, <2>3
<1>6. Cardinality(S) <= Cardinality(Newer(e))
      BY <1>2, <1>5, FS_Subset
<1>7. Newer(e) \union {e} \in SUBSET (S \union P)
      BY <1>1, <1>3 DEF Newer, Newest
<1>8. Cardinality(Newer(e) \union {e}) = Cardinality(Newer(e)) + 1
      BY <1>2, FS_AddElement
<1>9. Cardinality(Newer(e) \union {e}) <= Cardinality(S \union P)
      BY <1>0, <1>7, FS_Subset
<1> QED
    BY <1>0, <1>2, <1>4, <1>6, <1>8, <1>9

\* A page adds one repeat for each entry on it that was shown before.
LEMMA RepeatsOfAPage ==
    ASSUME PagesTypeOK, IsFiniteSet(Repeats), NEW P \in SUBSET visible,
           shown' = [e \in Entries |-> IF e \in P THEN shown[e] + 1 ELSE shown[e]]
    PROVE  LET D == {e \in P : shown[e] > 0}
           IN  /\ IsFiniteSet(Repeats') /\ IsFiniteSet(D)
               /\ Cardinality(D) \in Nat
               /\ Cardinality(Repeats') <= Cardinality(Repeats) + Cardinality(D)
<1> DEFINE D == {e \in P : shown[e] > 0}
           New == {<<e, shown[e] + 1>> : e \in D}
           f == [e \in D |-> <<e, shown[e] + 1>>]
<1>1. shown \in [Entries -> Nat] /\ visible \subseteq Entries
      BY DEF PagesTypeOK
<1>2. IsFiniteSet(D) /\ Cardinality(D) \in Nat
  <2>1. D \in SUBSET visible
        OBVIOUS
  <2> QED
      BY <2>1, NewerFinite, FS_Subset, FS_CardinalityType
<1>3. f \in Surjection(D, New)
      BY DEF Surjection
<1>4. IsFiniteSet(New) /\ Cardinality(New) <= Cardinality(D)
      BY <1>2, <1>3, FS_Surjection
<1>5. Repeats' = Repeats \union New
  <2>1. ASSUME NEW r \in Repeats' PROVE r \in Repeats \union New
    <3>1. PICK e \in Entries : r \in {e} \X (2..shown'[e])
          BY DEF Repeats
    <3>2. PICK k \in 2..shown'[e] : r = <<e, k>>
          BY <3>1
    <3>3. CASE k \in 2..shown[e]
          BY <3>2, <3>3 DEF Repeats
    <3>4. CASE k \notin 2..shown[e]
      <4>1. e \in P /\ k = shown[e] + 1 /\ shown[e] > 0
            BY <1>1, <3>2, <3>4
      <4> QED
          BY <3>2, <4>1
    <3> QED
        BY <3>3, <3>4
  <2>2. ASSUME NEW r \in Repeats PROVE r \in Repeats'
    <3>1. PICK e \in Entries : r \in {e} \X (2..shown[e])
          BY DEF Repeats
    <3>2. 2..shown[e] \subseteq 2..shown'[e]
          BY <1>1
    <3> QED
        BY <3>1, <3>2 DEF Repeats
  <2>3. ASSUME NEW r \in New PROVE r \in Repeats'
    <3>1. PICK e \in D : r = <<e, shown[e] + 1>>
          OBVIOUS
    <3>2. e \in Entries /\ shown[e] + 1 \in 2..shown'[e]
          BY <1>1
    <3>3. r \in {e} \X (2..shown'[e])
          BY <3>1, <3>2
    <3> QED
        BY <3>2, <3>3 DEF Repeats
  <2> QED
      BY <2>1, <2>2, <2>3
<1> HIDE DEF New
<1>6. /\ IsFiniteSet(Repeats \union New)
      /\ Cardinality(Repeats \union New) =
            Cardinality(Repeats) + Cardinality(New) - Cardinality(Repeats \intersect New)
      BY <1>4, FS_Union
<1>7. Repeats \intersect New \in SUBSET New
      OBVIOUS
<1>8. Cardinality(Repeats \intersect New) \in Nat
      BY <1>4, <1>7, FS_Subset, FS_CardinalityType
<1>9. Cardinality(Repeats) \in Nat /\ Cardinality(New) \in Nat
      BY <1>4, FS_CardinalityType
<1>10. Cardinality(Repeats') <= Cardinality(Repeats) + Cardinality(D)
       BY <1>2, <1>4, <1>5, <1>6, <1>8, <1>9
<1> QED
    BY <1>2, <1>5, <1>6, <1>10

LEMMA ListInv == ReadingInv /\ List => ReadingInv'
<1> SUFFICES ASSUME ReadingInv, List PROVE ReadingInv'
    OBVIOUS
<1> USE DEF ReadingInv
<1> DEFINE o == Offset(reader.page, reader.limit)
           L == Limit(reader.limit)
<1>1. PICK P \in Answers(o, L) :
         /\ shown' = [e \in Entries |-> IF e \in P THEN shown[e] + 1 ELSE shown[e]]
         /\ reader' = IF Cardinality(P) < L
                        THEN [reader EXCEPT !.phase = "finished"]
                        ELSE [reader EXCEPT !.page = Page(@) + 1]
      BY DEF List
<1>2. /\ reader.phase = "reading"
      /\ UNCHANGED <<clock, row, stamp, visible, deleted, purge, settled, late>>
      BY DEF List
<1>3. PICK S \in SUBSET visible : SkipsAndShows(S, P, o, L)
  <2>1. P \in SUBSET visible
        BY <1>1 DEF Answers
  <2>2. PICK S \in SUBSET (visible \ P) :
            /\ Cardinality(S) <= o /\ (S # visible => Cardinality(S) = o)
            /\ Cardinality(P) <= L
            /\ S \union P # visible => Cardinality(P) = L
            /\ Newest(S) /\ Newest(S \union P)
        BY <1>1 DEF Answers
  <2> QED
      BY <2>1, <2>2 DEF SkipsAndShows
<1>4. /\ reader \in Reader /\ reader.page \in Nat /\ reader.limit \in Nat
      /\ shown \in [Entries -> Nat] /\ late \in Nat /\ visible \subseteq Entries
      BY DEF PagesTypeOK, Reader
<1>5. /\ o \in Nat /\ L \in Nat \ {0} /\ Page(reader.page) \in Nat
      /\ Offset(Page(reader.page) + 1, reader.limit) = o + L
      BY <1>4, LimitFacts
<1>6. P \subseteq visible /\ Cardinality(P) \in Nat /\ Cardinality(P) <= L
      BY <1>3, PageSizes DEF SkipsAndShows
<1>7. \/ /\ Cardinality(P) < L
         /\ reader' = [reader EXCEPT !.phase = "finished"]
      \/ /\ Cardinality(P) = L
         /\ reader' = [reader EXCEPT !.page = Page(reader.page) + 1]
      BY <1>1, <1>5, <1>6
<1>8. \/ /\ Cardinality(P) < L /\ reader' \in Reader /\ reader'.phase = "finished"
      \/ /\ Cardinality(P) = L /\ reader' \in Reader /\ reader'.phase = "reading"
         /\ NextOffset' = o + L /\ Offset(reader'.page, reader'.limit) = o + L
  <2>1. CASE /\ Cardinality(P) < L
             /\ reader' = [reader EXCEPT !.phase = "finished"]
        BY <1>4, <2>1 DEF Reader, Phases
  <2>2. CASE /\ Cardinality(P) = L
             /\ reader' = [reader EXCEPT !.page = Page(reader.page) + 1]
    <3>1. /\ reader' \in Reader /\ reader'.phase = "reading"
          /\ reader'.page = Page(reader.page) + 1 /\ reader'.limit = reader.limit
          BY <1>2, <1>4, <1>5, <2>2 DEF Reader, Phases
    <3>2. Offset(reader'.page, reader'.limit) = o + L
          BY <1>5, <3>1
    <3>3. NextOffset' = Offset(reader'.page, reader'.limit)
          BY DEF NextOffset, Offset, Page, Limit
    <3> QED
        BY <2>2, <3>1, <3>2, <3>3
  <2> QED
      BY <1>7, <2>1, <2>2
<1>9. NextOffset = o
      BY DEF NextOffset
<1> HIDE DEF o, L
<1>10. \A e \in Entries : shown'[e] = IF e \in P THEN shown[e] + 1 ELSE shown[e]
       BY <1>1
<1>11. PagesTypeOK'
  <2>1. shown' \in [Entries -> Nat]
        BY <1>1, <1>4
  <2>2. (reader.phase = "reading" => Offset(reader.page, reader.limit) \in Nat)'
        BY <1>5, <1>8 DEF Offset, Page, Limit
  <2> QED
      BY <1>2, <1>8, <2>1, <2>2 DEF PagesTypeOK
<1>12. OrderOK'
       BY <1>2, <1>4, <1>6, <1>8, <1>10 DEF OrderOK
<1>13. \A e : Newer(e)' = Newer(e)
       BY <1>2 DEF Newer
<1>14. SettledAhead'
  <2> SUFFICES ASSUME NEW e \in settled \ deleted, OwnTime(e), shown'[e] = 0
               PROVE  /\ reader'.phase = "reading" /\ e \in visible
                      /\ Cardinality(Newer(e)) >= NextOffset'
      BY <1>2, <1>13 DEF SettledAhead, OwnTime
  <2>1. e \in Entries
        BY DEF PagesTypeOK
  <2>2. shown[e] = 0 /\ e \notin P
        BY <1>4, <1>10, <2>1
  <2>3. e \in visible /\ Cardinality(Newer(e)) >= o
        BY <1>2, <1>9, <2>2 DEF SettledAhead
  <2>4. Cardinality(P) = L /\ Cardinality(Newer(e)) >= o + L
        BY <1>3, <1>5, <2>2, <2>3, AheadStaysAhead
  <2> QED
      BY <1>5, <1>8, <2>3, <2>4
<1>15. RepeatsBounded'
  <2> DEFINE D == {e \in P : shown[e] > 0}
  <2>1. IsFiniteSet(Repeats)
        BY DEF RepeatsBounded
  <2>2. /\ IsFiniteSet(Repeats') /\ IsFiniteSet(D)
        /\ Cardinality(D) \in Nat
        /\ Cardinality(Repeats') <= Cardinality(Repeats) + Cardinality(D)
        BY <1>1, <1>6, <2>1, RepeatsOfAPage
  <2>3. NoTies' <=> NoTies
        BY <1>2 DEF NoTies, OwnTime
  <2> SUFFICES ASSUME NoTies
               PROVE  /\ Cardinality(Repeats') <= late
                      /\ reader'.phase = "reading" =>
                            Cardinality(Repeats') + Cardinality(Ahead') <= late
      BY <1>2, <2>2, <2>3 DEF RepeatsBounded
  <2>4. D \in SUBSET Ahead
    <3> SUFFICES ASSUME NEW e \in P PROVE e \in visible /\ Cardinality(Newer(e)) >= o
        BY <1>9 DEF Ahead
    <3> QED
        BY <1>3, <1>5, <1>6, PageIsBetween
  <2>5. Cardinality(Repeats) \in Nat /\ Cardinality(Repeats') \in Nat
        BY <2>1, <2>2, FS_CardinalityType
  <2>6. Cardinality(Repeats) + Cardinality(Ahead) <= late
        BY <1>2 DEF RepeatsBounded
  <2>7. IsFiniteSet(Ahead) /\ Cardinality(Ahead) \in Nat
        BY NewerFinite
  <2>8. Cardinality(D) <= Cardinality(Ahead)
        BY <2>4, <2>7, FS_Subset
  <2>9. Cardinality(Repeats') <= late
        BY <1>4, <2>2, <2>5, <2>6, <2>7, <2>8
  <2>10. ASSUME reader'.phase = "reading"
         PROVE  Cardinality(Repeats') + Cardinality(Ahead') <= late
    <3>1. NextOffset' = o + L
          BY <1>8, <2>10
    <3>2. Ahead' \in SUBSET (Ahead \ D)
      <4> SUFFICES ASSUME NEW e \in Ahead' PROVE e \in Ahead /\ e \notin P
          OBVIOUS
      <4>1. /\ e \in visible /\ shown'[e] > 0 /\ Cardinality(Newer(e)) >= o + L
            /\ Cardinality(Newer(e)) \in Nat
            BY <1>2, <1>13, <3>1, NewerFinite DEF Ahead
      <4>2. e \notin P
        <5> SUFFICES ASSUME e \in P PROVE FALSE
            OBVIOUS
        <5>1. Cardinality(Newer(e)) < o + L
              BY <1>3, <1>5, PageIsBetween
        <5> QED
            BY <1>5, <4>1, <5>1
      <4>3. shown[e] > 0 /\ Cardinality(Newer(e)) >= o
            BY <1>4, <1>5, <1>10, <4>1, <4>2
      <4> QED
          BY <1>9, <4>1, <4>2, <4>3 DEF Ahead
    <3> HIDE DEF D
    <3>3. /\ IsFiniteSet(Ahead \ D)
          /\ Cardinality(Ahead \ D) = Cardinality(Ahead) - Cardinality(Ahead \intersect D)
          BY <2>2, <2>7, FS_Difference
    <3>4. Ahead \intersect D = D
          BY <2>4
    <3>5. Cardinality(Ahead') <= Cardinality(Ahead \ D) /\ Cardinality(Ahead') \in Nat
          BY <3>2, <3>3, FS_Subset, FS_CardinalityType
    <3>6. Cardinality(Ahead \ D) = Cardinality(Ahead) - Cardinality(D)
          BY <3>3, <3>4
    <3>7. Cardinality(D) \in Nat
             /\ Cardinality(Repeats') <= Cardinality(Repeats) + Cardinality(D)
          BY <2>2 DEF D
    <3> QED
        BY <1>4, <2>5, <2>6, <2>7, <3>5, <3>6, <3>7
  <2> QED
      BY <2>9, <2>10
<1> QED
    BY <1>11, <1>12, <1>14, <1>15

LEMMA PagesInvariant == PagesSpec => []PagesIInv
<1>1. PagesInit => PagesIInv
  <2>1. ASSUME PagesInit PROVE ResetOK
        BY <2>1, PagesAssumption DEF PagesInit, ResetOK
  <2> QED
      BY <2>1, PagesInitInv DEF PagesIInv
<1>2. PagesIInv /\ [PagesNext]_pagesVars => PagesIInv'
  <2> SUFFICES ASSUME PagesIInv, [PagesNext]_pagesVars PROVE ReadingInv'
      BY ResetOKInv DEF PagesIInv
  <2> QED
      BY TickInv, InsertInv, CommitInv, ResetInv, BeginInv, ListInv DEF PagesNext, PagesIInv
<1> QED
    BY <1>1, <1>2, PTL DEF PagesSpec

\* Whatever limit and page a caller asks for, the offset List computes is never
\* negative, and the types hold.
THEOREM PagesTypeCorrect == PagesSpec => []PagesTypeOK
<1>1. PagesIInv => PagesTypeOK
      BY DEF PagesIInv, ReadingInv
<1> QED
    BY PagesInvariant, <1>1, PTL

\* For any number of entries, any limit and any arrivals and deletions between
\* the pages: a reading that is over has shown every entry that was there when
\* it began, is still there and shares its time with no other (List).
THEOREM NoSettledEntryIsMissed == PagesSpec => []NothingSettledIsMissed
<1>1. PagesIInv => NothingSettledIsMissed
  <2> SUFFICES ASSUME PagesIInv, reader.phase = "finished",
                      NEW e \in settled \ deleted, OwnTime(e)
               PROVE  shown[e] > 0
      BY DEF NothingSettledIsMissed
  <2>1. shown[e] \in Nat
        BY DEF PagesIInv, ReadingInv, PagesTypeOK
  <2>2. shown[e] # 0
        BY DEF PagesIInv, ReadingInv, SettledAhead
  <2> QED
      BY <2>1, <2>2
<1> QED
    BY PagesInvariant, <1>1, PTL

\* Where no two entries carry the same time, a reading repeats at most as many
\* entries as arrived while it lasted, however large the pages are (List).
THEOREM RepeatsComeFromArrivals == PagesSpec => []RepeatsAreArrivals
<1>1. PagesIInv => RepeatsAreArrivals
      BY DEF PagesIInv, ReadingInv, RepeatsBounded, RepeatsAreArrivals, Repeats, NoTies
<1> QED
    BY PagesInvariant, <1>1, PTL

-----------------------------------------------------------------------------
(* One request through the layers.                                           *)

\* What the request's line says, and what must stand in the log: nothing until
\* RequestLogger is left by a return.
LineOf == IF cut THEN 500 ELSE answer.status
LogSoFar == IF going # "out" \/ at > 1 \/ req.options THEN <<>> ELSE <<LineOf>>

\* Where a request is: inside nothing is written before the handler, a panic
\* is caught by RecoveryMiddleware, and what returns was answered.
PlaceOK ==
    /\ going = "in" => at >= 1 /\ answer.status = None /\ ran = "none" /\ ~cut
    /\ going = "handler" => at = 5 /\ ran # "none" /\ ~cut
    /\ going = "panic" => at \in {3, 4} /\ ran # "none" /\ cut = (answer.status # None)
    /\ going = "out" => at < 5 /\ answer.status # None

\* The recorder has the status of the answer, but for the 500 of a recovery.
RecordOK ==
    /\ log = LogSoFar
    /\ going # "out" => status = answer.status
    /\ going = "out" /\ at >= 2 => status = LineOf
    /\ req.options => at \in {0, 1} /\ going \in {"in", "out"} /\ (going = "out" => at = 0)
                      /\ ~cut

HeadersOK ==
    /\ going # "in" \/ at > 1 => "CORS" \in headers
    /\ ~req.options /\ (going # "in" \/ at > 4) => "X-Request-ID" \in headers
    /\ answer.status # None => /\ "CORS" \in answer.headers
                               /\ req.options \/ "X-Request-ID" \in answer.headers

\* Only a request that was let through has a handler, and one that was not has
\* its 401.
KeyOK ==
    /\ ran # "none" => /\ req.route # "none" /\ ran = HandlerOf[req.route]
                       /\ req.route \in Authenticated => req.key
    /\ going # "in" /\ req.route \in Authenticated /\ ~req.key =>
          going = "out" /\ answer.status = 401 /\ ~cut

HttpIInv == /\ HttpTypeOK /\ (req.options => req.route = "none")
            /\ PlaceOK /\ RecordOK /\ HeadersOK /\ KeyOK

LEMMA LayerFacts ==
    /\ Inner = 5
    /\ Layers[1] = "CORS" /\ Layers[2] = "RequestLogger"
    /\ Layers[3] = "RecoveryMiddleware" /\ Layers[4] = "RequestID"
BY DEF Inner, Layers

\* The layers as numbers.
LEMMA LayerAt ==
    ASSUME NEW n \in 1..4
    PROVE  /\ Layers[n] = "CORS" <=> n = 1
           /\ Layers[n] = "RequestLogger" <=> n = 2
           /\ Layers[n] = "RecoveryMiddleware" <=> n = 3
           /\ Layers[n] = "RequestID" <=> n = 4
BY LayerFacts

LEMMA Written ==
    ASSUME HttpTypeOK, NEW code, WriteHeader(code)
    PROVE  /\ answer.status = None => answer' = [status |-> code, headers |-> headers']
           /\ answer.status # None => answer' = answer
           /\ status' = IF at >= 3 THEN code ELSE status
<1>1. (\E i \in 1..(at - 1) : Layers[i] = "RequestLogger") <=> at >= 3
  <2>1. at \in 0..5
    BY LayerFacts DEF HttpTypeOK
  <2>2. ASSUME NEW i \in 1..(at - 1)
        PROVE  i \in 1..4 /\ (Layers[i] = "RequestLogger" <=> i = 2)
    BY <2>1, LayerAt
  <2> QED BY <2>1, <2>2
<1> QED BY <1>1 DEF WriteHeader

LEMMA AnswerType ==
    ASSUME HttpTypeOK, NEW code \in Statuses, WriteHeader(code), headers \subseteq headers',
           headers' \subseteq {"CORS", "X-Request-ID"}
    PROVE  /\ answer' \in [status : Statuses \union {None}, headers : SUBSET headers']
           /\ status' \in Statuses \union {None}
           /\ answer'.status # None
<1>1. None \notin Statuses
  BY DEF None, Statuses
<1>2. answer \in [status : Statuses \union {None}, headers : SUBSET headers]
  BY DEF HttpTypeOK
<1>3. CASE answer.status = None
  <2>1. answer' = [status |-> code, headers |-> headers']
    BY <1>3, Written
  <2> QED BY <1>1, <2>1, Written DEF HttpTypeOK
<1>4. CASE answer.status # None
  <2>1. answer' = answer /\ SUBSET headers \subseteq SUBSET headers'
    BY <1>4, Written
  <2>2. answer' \in [status : Statuses \union {None}, headers : SUBSET headers']
    BY <1>2, <2>1
  <2> QED BY <1>4, <2>1, <2>2, Written DEF HttpTypeOK
<1> QED BY <1>3, <1>4

LEMMA HttpInitInv ==
    ASSUME HttpInit
    PROVE  HttpIInv
<1>1. req \in HttpRequest /\ (req.options => req.route = "none")
  BY DEF HttpInit
<1>2. HttpTypeOK
  <2>1. answer \in [status : Statuses \union {None}, headers : SUBSET headers]
    BY DEF HttpInit
  <2>2. log \in Seq(Statuses)
    BY DEF HttpInit
  <2>3. at \in 0..Inner
    BY LayerFacts DEF HttpInit
  <2> QED BY <1>1, <2>1, <2>2, <2>3 DEF HttpInit, HttpTypeOK
<1> QED BY <1>1, <1>2, LayerFacts
        DEF HttpInit, HttpIInv, PlaceOK, RecordOK, HeadersOK, KeyOK, LogSoFar, None

LEMMA CorsInv ==
    ASSUME HttpIInv, CORS
    PROVE  HttpIInv'
<1>1. at = 1 /\ going = "in" /\ headers' = headers \union {"CORS"}
  BY LayerAt, LayerFacts DEF CORS, In, HttpIInv, HttpTypeOK, PlaceOK
<1>2. CASE req.options
  <2>1. WriteHeader(200) /\ at' = 0 /\ going' = "out"
    BY <1>1, <1>2 DEF CORS, Back
  <2>2. 200 \in Statuses /\ 200 # None
    BY DEF Statuses, None
  <2>3. HttpTypeOK'
    BY <1>1, <2>1, <2>2, AnswerType, LayerFacts DEF HttpIInv, HttpTypeOK, CORS
  <2>4. answer' = [status |-> 200, headers |-> headers']
    BY <1>1, <2>1, Written DEF HttpIInv, PlaceOK
  <2> QED BY <1>1, <1>2, <2>1, <2>2, <2>3, <2>4
          DEF CORS, HttpIInv, PlaceOK, RecordOK, HeadersOK, KeyOK, LogSoFar, Authenticated
<1>3. CASE ~req.options
  <2>1. at' = 2 /\ going' = "in" /\ UNCHANGED <<answer, status>>
    BY <1>1, <1>3 DEF CORS, Forward, Silent
  <2>2. HttpTypeOK'
    BY <1>1, <2>1, LayerFacts DEF HttpIInv, HttpTypeOK, CORS
  <2> QED BY <1>1, <1>3, <2>1, <2>2
          DEF CORS, HttpIInv, PlaceOK, RecordOK, HeadersOK, KeyOK, LogSoFar, LineOf
<1> QED BY <1>2, <1>3

LEMMA ForwardInv ==
    ASSUME HttpIInv, Pass \/ RequestID
    PROVE  HttpIInv'
<1>1. /\ at \in 2..4 /\ going = "in" /\ at' = at + 1 /\ going' = "in"
      /\ UNCHANGED <<req, answer, status, log, ran, cut>>
      /\ headers' = IF at = 4 THEN headers \union {"X-Request-ID"} ELSE headers
  BY LayerAt, LayerFacts DEF Pass, RequestID, In, Forward, Silent, HttpIInv, HttpTypeOK, PlaceOK
<1>2. HttpTypeOK'
  BY <1>1, LayerFacts DEF HttpIInv, HttpTypeOK
<1> QED BY <1>1, <1>2 DEF HttpIInv, PlaceOK, RecordOK, HeadersOK, KeyOK, LogSoFar, LineOf

LEMMA DispatchInv ==
    ASSUME HttpIInv, Dispatch
    PROVE  HttpIInv'
<1>1. /\ at = 5 /\ going = "in" /\ UNCHANGED <<req, headers, log, cut>> /\ ~req.options
      /\ "CORS" \in headers /\ "X-Request-ID" \in headers /\ answer.status = None
  BY LayerFacts DEF Dispatch, HttpIInv, PlaceOK, RecordOK, HeadersOK
<1>2. ASSUME NEW code \in Statuses, WriteHeader(code), Back, UNCHANGED ran,
             req.route \in Authenticated /\ ~req.key => code = 401
      PROVE  HttpIInv'
  <2>1. at' = 4 /\ going' = "out"
    BY <1>1, <1>2 DEF Back
  <2>2. HttpTypeOK'
    BY <1>1, <1>2, <2>1, AnswerType, LayerFacts DEF HttpIInv, HttpTypeOK
  <2>3. answer' = [status |-> code, headers |-> headers'] /\ status' = code /\ code # None
    BY <1>1, <1>2, Written DEF HttpIInv, PlaceOK, Statuses, None
  <2> QED BY <1>1, <1>2, <2>1, <2>2, <2>3
          DEF HttpIInv, PlaceOK, RecordOK, HeadersOK, KeyOK, LogSoFar, LineOf
<1>3. CASE req.route = "none"
  BY <1>1, <1>2, <1>3 DEF Dispatch, Statuses, Authenticated
<1>4. CASE req.route \in Authenticated /\ ~req.key
  BY <1>1, <1>2, <1>4 DEF Dispatch, Statuses, Authenticated
<1>5. CASE req.route # "none" /\ ~(req.route \in Authenticated /\ ~req.key)
  <2>1. /\ ran' = HandlerOf[req.route] /\ going' = "handler" /\ at' = at
        /\ UNCHANGED <<answer, status>>
    BY <1>5 DEF Dispatch, Silent
  <2>2. HandlerOf[req.route] # "none"
    BY <1>5 DEF HttpIInv, HttpTypeOK, HttpRequest, HandlerOf
  <2>3. HttpTypeOK'
    BY <1>1, <2>1 DEF HttpIInv, HttpTypeOK
  <2> QED BY <1>1, <1>5, <2>1, <2>2, <2>3
          DEF HttpIInv, PlaceOK, RecordOK, HeadersOK, KeyOK, LogSoFar, LineOf
<1> QED BY <1>3, <1>4, <1>5

LEMMA AnswerInv ==
    ASSUME HttpIInv, NEW code \in Statuses, Answer(code)
    PROVE  HttpIInv'
<1>1. /\ at = 5 /\ going = "handler" /\ UNCHANGED <<req, at, going, headers, log, ran, cut>>
      /\ ~req.options /\ "CORS" \in headers /\ "X-Request-ID" \in headers
      /\ answer.status = None /\ WriteHeader(code)
  BY DEF Answer, HttpIInv, PlaceOK, RecordOK, HeadersOK
<1>2. HttpTypeOK'
  BY <1>1, AnswerType DEF HttpIInv, HttpTypeOK
<1>3. answer' = [status |-> code, headers |-> headers'] /\ status' = code
  BY <1>1, Written DEF HttpIInv
<1> QED BY <1>1, <1>2, <1>3
        DEF HttpIInv, PlaceOK, RecordOK, HeadersOK, KeyOK, LogSoFar, LineOf

LEMMA LeaveInv ==
    ASSUME HttpIInv, Return \/ Panic
    PROVE  HttpIInv'
<1>1. /\ at = 5 /\ going = "handler" /\ at' = 4 /\ going' \in {"out", "panic"}
      /\ UNCHANGED <<req, headers, log, ran, answer, status>>
      /\ ~req.options
      /\ going' = "out" => answer.status # None /\ cut' = cut
      /\ going' = "panic" => cut' = (answer.status # None)
  BY DEF Return, Panic, Back, Silent, HttpIInv, PlaceOK, RecordOK
<1>2. cut' \in BOOLEAN
  BY DEF HttpIInv, HttpTypeOK, Return, Panic
<1>3. HttpTypeOK'
  BY <1>1, <1>2, LayerFacts DEF HttpIInv, HttpTypeOK
<1> QED BY <1>1, <1>3
        DEF HttpIInv, PlaceOK, RecordOK, HeadersOK, KeyOK, LogSoFar, LineOf

LEMMA UnwindInv ==
    ASSUME HttpIInv, Unwind
    PROVE  HttpIInv'
<1>1. /\ at \in 1..4 /\ going \in {"out", "panic"} /\ at' = at - 1
      /\ going = "panic" => at = 4
      /\ UNCHANGED <<req, going, headers, ran, cut, answer, status>> /\ ~req.options
      /\ log' = IF going = "out" /\ at = 2 THEN Append(log, status) ELSE log
  BY LayerAt, LayerFacts DEF Unwind, Logs, Silent, HttpIInv, HttpTypeOK, PlaceOK, RecordOK
<1>2. going = "out" => answer.status \in Statuses
  BY DEF HttpIInv, PlaceOK, HttpTypeOK
<1>3. going = "out" => LineOf \in Statuses
  <2>1. 500 \in Statuses
    BY DEF Statuses
  <2> QED BY <1>2, <2>1 DEF LineOf
<1>4. log' \in Seq(Statuses) /\ log' = LogSoFar'
  <2>1. CASE going = "out" /\ at = 2
    <3>1. status = LineOf /\ log = <<>>
      BY <1>1, <2>1 DEF HttpIInv, RecordOK, LogSoFar
    <3>2. log' = <<LineOf>>
      BY <1>1, <2>1, <3>1
    <3>3. log' \in Seq(Statuses)
      BY <1>3, <2>1, <3>2
    <3>4. going' = "out" /\ at' = 1 /\ ~req'.options
      BY <1>1, <2>1
    <3>5. LineOf' = LineOf
      BY <1>1 DEF LineOf
    <3>6. LogSoFar' = <<LineOf>>
      BY <3>4, <3>5 DEF LogSoFar
    <3> QED BY <3>2, <3>3, <3>6
  <2>2. CASE ~(going = "out" /\ at = 2)
    BY <1>1, <2>2 DEF HttpIInv, HttpTypeOK, RecordOK, LogSoFar, LineOf
  <2> QED BY <2>1, <2>2
<1>5. HttpTypeOK'
  BY <1>1, <1>4, LayerFacts DEF HttpIInv, HttpTypeOK
<1> QED BY <1>1, <1>4, <1>5 DEF HttpIInv, PlaceOK, RecordOK, HeadersOK, KeyOK, LineOf

LEMMA RecoverInv ==
    ASSUME HttpIInv, Recover
    PROVE  HttpIInv'
<1>1. /\ at = 3 /\ going = "panic" /\ at' = 2 /\ going' = "out"
      /\ UNCHANGED <<req, headers, log, ran, cut>> /\ WriteHeader(500) /\ ~req.options
      /\ "CORS" \in headers /\ "X-Request-ID" \in headers
      /\ cut = (answer.status # None)
  BY LayerAt, LayerFacts DEF Recover, Back, HttpIInv, HttpTypeOK, PlaceOK, RecordOK, HeadersOK
<1>2. 500 \in Statuses
  BY DEF Statuses
<1>3. HttpTypeOK' /\ answer'.status # None
  BY <1>1, <1>2, AnswerType, LayerFacts DEF HttpIInv, HttpTypeOK
<1>4. status' = 500 /\ answer' = (IF cut THEN answer ELSE [status |-> 500, headers |-> headers'])
  <2>1. HttpTypeOK
    BY DEF HttpIInv
  <2>2. /\ answer.status = None => answer' = [status |-> 500, headers |-> headers']
        /\ answer.status # None => answer' = answer
        /\ status' = 500
    BY <1>1, <2>1, Written
  <2>3. CASE answer.status = None
    BY <1>1, <2>2, <2>3
  <2>4. CASE answer.status # None
    BY <1>1, <2>2, <2>4
  <2> QED BY <2>3, <2>4
<1> QED BY <1>1, <1>3, <1>4
        DEF HttpIInv, PlaceOK, RecordOK, HeadersOK, KeyOK, LogSoFar, LineOf

LEMMA HttpInvariant == HttpSpec => []HttpIInv
<1>1. HttpIInv /\ [HttpNext]_httpVars => HttpIInv'
  <2> SUFFICES ASSUME HttpIInv, [HttpNext]_httpVars
               PROVE  HttpIInv'
    OBVIOUS
  <2>1. CASE UNCHANGED httpVars
    BY <2>1 DEF httpVars, HttpIInv, HttpTypeOK, PlaceOK, RecordOK, HeadersOK, KeyOK,
                LogSoFar, LineOf
  <2> QED BY <2>1, CorsInv, ForwardInv, DispatchInv, AnswerInv, LeaveInv, UnwindInv,
             RecoverInv DEF HttpNext
<1> QED BY <1>1, HttpInitInv, PTL DEF HttpSpec

\* What NewRouter, the middleware and net/http keep of one request stays of its
\* type, whatever the request and wherever its handler panics.
THEOREM HttpTypeCorrect == HttpSpec => []HttpTypeOK
<1>1. HttpIInv => HttpTypeOK
  BY DEF HttpIInv
<1> QED BY <1>1, HttpInvariant, PTL

\* Every request is answered and, but for a preflight, logged once with the
\* status the client got, or with 500 where the handler panicked under way
\* (RequestLogger, RecoveryMiddleware).
THEOREM LogIsTrue == HttpSpec => []LogTellsTheAnswer
<1>1. HttpIInv => LogTellsTheAnswer
  <2> SUFFICES ASSUME HttpIInv, at = 0
               PROVE  LogTellsTheAnswer
    BY DEF LogTellsTheAnswer, Served
  <2>1. going = "out" /\ answer.status # None
    BY DEF HttpIInv, HttpTypeOK, PlaceOK
  <2> QED BY <2>1 DEF HttpIInv, RecordOK, LogSoFar, LineOf, LogTellsTheAnswer
<1> QED BY <1>1, HttpInvariant, PTL

\* No handler that writes runs without the server's key, under any route, and
\* such a request gets its 401 (NewRouter, RequireAPIKey).
THEOREM KeyGuardsWriters == HttpSpec => []WritersNeedTheKey
<1>1. HttpIInv => WritersNeedTheKey
  <2> SUFFICES ASSUME HttpIInv
               PROVE  WritersNeedTheKey
    OBVIOUS
  <2>1. ASSUME req.route # "none", HandlerOf[req.route] \in Writers
        PROVE  req.route \in Authenticated
    BY <2>1 DEF HttpIInv, HttpTypeOK, HttpRequest, HandlerOf, Writers, Authenticated
  <2>2. ran \in Writers => req.key
    BY <2>1 DEF HttpIInv, KeyOK, Writers
  <2>3. ASSUME Served, req.route # "none", ~req.key, HandlerOf[req.route] \in Writers
        PROVE  answer.status = 401 /\ log = <<401>>
    <3>1. at = 0 /\ going = "out" /\ ~req.options
      BY <2>3 DEF Served, HttpIInv, HttpTypeOK, PlaceOK
    <3>2. answer.status = 401 /\ ~cut
      BY <2>1, <2>3, <3>1 DEF HttpIInv, KeyOK
    <3> QED BY <3>1, <3>2 DEF HttpIInv, RecordOK, LogSoFar, LineOf
  <2> QED BY <2>2, <2>3 DEF WritersNeedTheKey
<1> QED BY <1>1, HttpInvariant, PTL

\* Every answer carries the CORS headers, and every one but a preflight's the
\* request id (CORS, RequestID).
THEOREM AnswersAreMarked == HttpSpec => []EveryAnswerIsMarked
<1>1. HttpIInv => EveryAnswerIsMarked
  BY DEF HttpIInv, HttpTypeOK, PlaceOK, HeadersOK, EveryAnswerIsMarked, Served
<1> QED BY <1>1, HttpInvariant, PTL
=============================================================================
