----------------------------- MODULE ChangeData -----------------------------
(***************************************************************************)
(* The data every component handles: change requests and the Terraform    *)
(* text (HCL) the language model writes for them.  What Terraform and      *)
(* Checkov make of a text is a property of the text.                       *)
(***************************************************************************)
EXTENDS Integers, Sequences, FiniteSets

CONSTANTS
    Requests,   \* ids of rows of infra_requests
    HCL,        \* the texts the model may answer
    EmptyHCL,   \* the empty text
    NoHCL,      \* NULL in generated_hcl; no main.tf on disk
    Plannable,  \* the texts terraform init and plan accept
    Report      \* the checks Checkov passes and fails on a file of that text

ASSUME DataAssumption ==
    /\ EmptyHCL \in HCL /\ NoHCL \notin HCL
    /\ Plannable \subseteq HCL
    /\ Report \in [HCL -> [passed : Nat, failed : Nat]]

HCLOrNone == HCL \union {NoHCL}
=============================================================================
