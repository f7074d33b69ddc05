---------------------------- MODULE MCTerraSense ----------------------------
(***************************************************************************)
(* TLC instances of the whole server, with the texts of MCCorrectionLoop   *)
(* less the one that plans and scores 30: "empty" already plans and fails. *)
(* Changes meet only in the end of the process, so one change with two     *)
(* calls shows every race.                                                 *)
(***************************************************************************)
EXTENDS TerraSense

MCHCL == {"good", "broken", "empty"}
MCPlannable == {"good", "empty"}
MCReport == [h \in MCHCL |->
    CASE h = "good" -> [passed |-> 10, failed |-> 0]
      [] h = "broken" -> [passed |-> 9, failed |-> 1]
      [] h = "empty" -> [passed |-> 0, failed |-> 0]]

\* Where it does not matter why a text fails.
MCFewHCL == MCHCL \ {"broken"}
MCFewReport == [h \in MCFewHCL |-> MCReport[h]]
=============================================================================
