---------------------------- MODULE CheckovScore ----------------------------
(***************************************************************************)
(* The arithmetic of internal/validators/checkov.go: the score a Checkov   *)
(* summary earns and the verdict the correction loop takes from it.        *)
(***************************************************************************)
EXTENDS Naturals

Threshold == 80

\* parseCheckovOutput: integer division, and 0 when no check ran.
\* (The definitions before it, here and below, are slips: each must break a
\* property of some run.)
RoundedUpScore(p, f) == (p * 100 + p + f - 1) \div (p + f)
RatioToFailed(p, f) == (p * 100) \div (IF f = 0 THEN 1 ELSE f)
ScoreFromTotal(p, f) == (p * 100) \div (p + f)
Score(p, f) == IF p + f > 0 THEN ScoreFromTotal(p, f) ELSE 0

\* "checkovResult.Score < 80" refuses a candidate.
Passes(p, f) == Score(p, f) >= Threshold

\* What the verdict means without the division: at least four passed checks
\* for each failed one, and at least one check.
FourFifths(p, f) == p + f > 0 /\ p >= 4 * f
=============================================================================
