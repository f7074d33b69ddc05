----------------------------- MODULE Workspace ------------------------------
(***************************************************************************)
(* The directory <TERRAFORM_WORKING_DIR>/<request id>.  RunTerraformPlan   *)
(* adds a run directory with its own main.tf, RunCheckov overwrites the    *)
(* main.tf at the top and scans everything below, ApproveChange applies    *)
(* the main.tf at the top.  No code removes any of it.                     *)
(***************************************************************************)
EXTENDS ChangeData, CheckovScore

VARIABLE ws

WorkspaceState == [exists : BOOLEAN, main : HCLOrNone, passed : Nat, failed : Nat]

NoWorkspace == [exists |-> FALSE, main |-> NoHCL, passed |-> 0, failed |-> 0]

WorkspaceInit == ws = [r \in Requests |-> NoWorkspace]

\* writeHCL in a new run directory; passed and failed sum up the checks of all
\* run directories.
WriteRunDir(r, h) ==
    ws' = [ws EXCEPT ![r].exists = TRUE,
                     ![r].passed = @ + Report[h].passed,
                     ![r].failed = @ + Report[h].failed]

\* RunCheckov's MkdirAll and WriteFile.
WriteMain(r, h) == ws' = [ws EXCEPT ![r].exists = TRUE, ![r].main = h]

\* The summary of `checkov -d <dir>`: main.tf and every run directory.
TreePassed(r) == ws[r].passed + Report[ws[r].main].passed
TreeFailed(r) == ws[r].failed + Report[ws[r].main].failed
TreeScore(r) == Score(TreePassed(r), TreeFailed(r))
=============================================================================
