------------------------- MODULE CheckovScoreProofs -------------------------
(***************************************************************************)
(* What parseCheckovOutput's integer arithmetic amounts to, for all counts. *)
(***************************************************************************)
EXTENDS CheckovScore, TLAPS

\* The score is a percentage.
LEMMA ScoreType == \A p, f \in Nat : Score(p, f) \in 0..100
BY DEF Score, ScoreFromTotal

\* The truncated percentage compared with 80 is the exact four-to-one test:
\* rounding never changes a verdict (checkov.go, score := passed * 100 / total).
THEOREM VerdictIsExact == \A p, f \in Nat : Passes(p, f) <=> FourFifths(p, f)
BY DEF Passes, FourFifths, Score, ScoreFromTotal, Threshold

\* Scanning two directories together passes only if one of them passes alone:
\* adding up the counts of failing files never makes a passing one.
THEOREM PoolingFailures ==
    ASSUME NEW p \in Nat, NEW f \in Nat, NEW q \in Nat, NEW g \in Nat,
           Passes(p + q, f + g)
    PROVE  Passes(p, f) \/ Passes(q, g)
<1>1. p + q \in Nat /\ f + g \in Nat
  OBVIOUS
<1>2. FourFifths(p + q, f + g)
  BY <1>1, VerdictIsExact
<1>3. FourFifths(p, f) \/ FourFifths(q, g)
  BY <1>2 DEF FourFifths
<1> QED BY <1>3, VerdictIsExact

\* And two that pass do so together: more of the same never costs the verdict.
THEOREM PoolingPasses ==
    ASSUME NEW p \in Nat, NEW f \in Nat, NEW q \in Nat, NEW g \in Nat,
           Passes(p, f), Passes(q, g)
    PROVE  Passes(p + q, f + g)
<1>1. p + q \in Nat /\ f + g \in Nat
  OBVIOUS
<1>2. FourFifths(p, f) /\ FourFifths(q, g)
  BY VerdictIsExact
<1>3. FourFifths(p + q, f + g)
  BY <1>2 DEF FourFifths
<1> QED BY <1>1, <1>3, VerdictIsExact
=============================================================================
