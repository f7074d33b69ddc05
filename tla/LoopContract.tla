---------------------------- MODULE LoopContract ----------------------------
(***************************************************************************)
(* What POST /api/v1/changes promises, without how: each request asks the  *)
(* language model for at most Budget texts, and gives up only when all of  *)
(* them were tried.                                                        *)
(***************************************************************************)
EXTENDS Naturals

CONSTANTS Requests,
          Budget    \* texts one request may cost

VARIABLES phase,    \* none, working, then ready, exhausted or aborted
          texts     \* how many texts the model has written for the request

contractVars == <<phase, texts>>

ContractInit == /\ phase = [r \in Requests |-> "none"]
                /\ texts = [r \in Requests |-> 0]

Open(r) == /\ phase[r] = "none"
           /\ phase' = [phase EXCEPT ![r] = "working"]
           /\ UNCHANGED texts

Ask(r) == /\ phase[r] = "working"
          /\ texts[r] < Budget
          /\ texts' = [texts EXCEPT ![r] = @ + 1]
          /\ UNCHANGED phase

Finish(r) == /\ phase[r] = "working"
             /\ texts[r] > 0
             /\ phase' = [phase EXCEPT ![r] = "ready"]
             /\ UNCHANGED texts

GiveUp(r) == /\ phase[r] = "working"
             /\ texts[r] = Budget
             /\ phase' = [phase EXCEPT ![r] = "exhausted"]
             /\ UNCHANGED texts

\* A database or model error, before or during the work.
Abort(r) == /\ phase[r] \in {"none", "working"}
            /\ phase' = [phase EXCEPT ![r] = "aborted"]
            /\ UNCHANGED texts

\* The process ends and takes every working request with it.
AbortAll == /\ phase' = [r \in Requests |-> IF phase[r] = "working"
                                            THEN "aborted" ELSE phase[r]]
            /\ UNCHANGED texts

Work(r) == Ask(r) \/ Finish(r) \/ GiveUp(r) \/ (phase[r] = "working" /\ Abort(r))

ContractNext == AbortAll \/ \E r \in Requests : Open(r) \/ Work(r) \/ Abort(r)

ContractSpec == ContractInit /\ [][ContractNext]_contractVars
=============================================================================
