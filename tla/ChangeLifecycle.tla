-------------------------- MODULE ChangeLifecycle ---------------------------
(***************************************************************************)
(* What a user of TerraSense is told about a change: it is pending until   *)
(* the system fails it or one person decides it, infrastructure is touched *)
(* only while it stands approved, and it reads applied only once that was  *)
(* done.  A change that is deleted never comes back; deleted while it was   *)
(* approved it may still be applied, and nobody is told.                   *)
(* (request_status in internal/db/migrations names the states of a row.)   *)
(***************************************************************************)
CONSTANT Requests

VARIABLES status, begun, done

lifecycleVars == <<status, begun, done>>

LifecycleInit == /\ status = [r \in Requests |-> "absent"]
                 /\ begun = [r \in Requests |-> FALSE]
                 /\ done = [r \in Requests |-> FALSE]

Move(r, from, to) == /\ status[r] = from
                     /\ status' = [status EXCEPT ![r] = to]
                     /\ UNCHANGED <<begun, done>>

\* Some changes are deleted at once, or never came to have a row; those that
\* were approved leave an apply behind that may still run.
Delete(D, orphans) ==
    /\ \A r \in orphans : status[r] \in {"approved", "applied"}
    /\ status' = [r \in Requests |-> IF r \in orphans THEN "orphaned"
                                     ELSE IF r \in D THEN "deleted" ELSE status[r]]
    /\ UNCHANGED <<begun, done>>

Begin(r) == /\ status[r] \in {"approved", "orphaned"}
            /\ begun' = [begun EXCEPT ![r] = TRUE]
            /\ UNCHANGED <<status, done>>

\* Several may succeed at once: applies that outlive the server.
Succeed(S) == /\ \A r \in S : status[r] \in {"approved", "orphaned"} /\ begun[r]
              /\ done' = [r \in Requests |-> done[r] \/ r \in S]
              /\ UNCHANGED <<status, begun>>

MarkApplied(r) == done[r] /\ Move(r, "approved", "applied")

LifecycleNext ==
    \/ \E r \in Requests : \/ Move(r, "absent", "pending")
                           \/ Move(r, "pending", "failed")
                           \/ Move(r, "pending", "approved")
                           \/ Move(r, "pending", "rejected")
                           \/ Begin(r)
                           \/ MarkApplied(r)
    \/ \E S \in SUBSET Requests : Succeed(S)
    \/ \E D \in SUBSET {r \in Requests : status[r] \notin {"orphaned", "deleted"}} :
         \E orphans \in SUBSET D : Delete(D, orphans)

LifecycleSpec == LifecycleInit /\ [][LifecycleNext]_lifecycleVars
=============================================================================
