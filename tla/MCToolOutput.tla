---------------------------- MODULE MCToolOutput ----------------------------
(***************************************************************************)
(* The outputs of both tools read side by side for TLC: a behaviour is one *)
(* of the two, and leaves the other's variables alone.                     *)
(***************************************************************************)
EXTENDS CheckovTally, PlanOutput

VARIABLE tool   \* whose output this behaviour reads

\* Texts by the checks they pass and fail: empty, around the ratio of four to
\* one, and far from it.
MCTexts == {[passed |-> c[1], failed |-> c[2]] :
              c \in {<<0, 0>>, <<1, 0>>, <<3, 1>>, <<4, 1>>, <<8, 2>>, <<10, 0>>, <<0, 2>>}}
MCEmptyHCL == [passed |-> 0, failed |-> 0]
MCReport == [h \in MCTexts |-> h]

MCTypes == {"planned_changes", "resource_drift"}
MCShapes == { <<<<>>, <<>>>>,
              <<<<>>, <<"delete">>>>,
              <<<<>>, <<"delete", "create">>>>,
              <<<< <<"update">> >>, <<>>>>,
              <<<< <<"create">>, <<"no-op">> >>, <<>>>>,
              <<<< <<"delete", "create">>, <<"delete">> >>, <<"create">>>> }
MCLines == [kind : {"blank", "odd", "long"}] \union
           {[kind |-> "object", type |-> t, changes |-> s[1], change |-> s[2]] :
              t \in MCTypes, s \in MCShapes}

MCInit == /\ tool \in {"checkov", "terraform"}
          /\ Init /\ PlanInit

MCNext == \/ tool = "checkov" /\ Next /\ UNCHANGED <<tool, planVars>>
          \/ tool = "terraform" /\ PlanNext /\ UNCHANGED <<tool, vars>>

MCSpec == MCInit /\ [][MCNext]_<<tool, vars, planVars>>
=============================================================================
