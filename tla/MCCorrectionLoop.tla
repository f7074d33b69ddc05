-------------------------- MODULE MCCorrectionLoop --------------------------
(***************************************************************************)
(* Texts for TLC: one that is fine, one that plans but scores 30, one that *)
(* scores 90 but does not plan, and the empty text, which plans and has no *)
(* check to pass.                                                          *)
(***************************************************************************)
EXTENDS CorrectionLoop

MCHCL == {"good", "weak", "broken", "empty"}
MCPlannable == {"good", "weak", "empty"}
MCReport == [h \in MCHCL |->
    CASE h = "good" -> [passed |-> 10, failed |-> 0]
      [] h = "weak" -> [passed |-> 3, failed |-> 7]
      [] h = "broken" -> [passed |-> 9, failed |-> 1]
      [] h = "empty" -> [passed |-> 0, failed |-> 0]]
=============================================================================
