----------------------------- MODULE TerraSense -----------------------------
(***************************************************************************)
(* The server: the correction loops of POST /api/v1/changes and the calls  *)
(* to approve and reject, side by side on one database and one disk, the   *)
(* reset of the demo data and the end of the process at any moment.        *)
(*                                                                         *)
(* Constants say what the people and scripts that call it do.              *)
(*   AfterReply  a change is decided only after the reply that announced   *)
(*               it; the portal itself lists a row as soon as it exists    *)
(*   Serial      no two decisions on one change overlap                    *)
(*   MayReset    somebody calls DELETE /api/v1/demo/reset                  *)
(***************************************************************************)
EXTENDS CorrectionLoop, ApprovalGate

CONSTANTS AfterReply, Serial, MayReset
ASSUME CallersAssumption ==
    AfterReply \in BOOLEAN /\ Serial \in BOOLEAN /\ MayReset \in BOOLEAN

VARIABLE erased     \* history: the actions in the trails that resets deleted

vars == <<rows, audit, ws, loop, call, infra, erased>>

Init == /\ StoreInit /\ WorkspaceInit /\ LoopInit /\ GateInit
        /\ erased = [r \in Requests |-> {}]

Submit(r) == LoopStep(r) /\ UNCHANGED <<call, infra, erased>>

MayDecide(r) ==
    /\ AfterReply => loop[r].pc \in Accepted
    /\ Serial => \A c \in Calls : call[c].pc \in InHandler => call[c].req # r

Decide(c) ==
    /\ MayDecide(call[c].req)
    /\ \E o \in Outcomes : Receive(c, o)
    /\ UNCHANGED <<loop, erased>>

Handle(c) ==
    (GateDatabaseStep(c) \/ TerraformStep(c)) /\ UNCHANGED <<loop, erased>>

ServerCrash ==
    CrashLoops /\ CrashCalls /\ CrashDisk /\ UNCHANGED <<rows, audit, erased>>

\* The commit of a reset: the rows its DELETE saw go, with their entries; one
\* created meanwhile stays.  (DemoReset takes the transaction apart, and shows
\* that it happens as a whole.)  Nothing tells the goroutines and the disk.
Reset ==
    /\ MayReset
    /\ \E D \in SUBSET {r \in Requests : rows[r].status # "absent"} :
         /\ rows' = [r \in Requests |-> IF r \in D THEN NoRow ELSE rows[r]]
         /\ audit' = [r \in Requests |-> IF r \in D THEN <<>> ELSE audit[r]]
         /\ erased' = [r \in Requests |->
                         IF r \in D THEN erased[r] \union {a \in Actions : Logged(r, a)}
                                    ELSE erased[r]]
    /\ UNCHANGED <<ws, loop, call, infra>>

Next == \/ \E r \in Requests : Submit(r)
        \/ \E c \in Calls : Decide(c) \/ Handle(c)
        \/ ServerCrash
        \/ Reset

Spec == Init /\ [][Next]_vars

\* The handlers owe the statements they have begun.  terraform under
\* ApproveChange has no deadline and owes nothing; what the loops owe
\* (CorrectionLoop) no property of the server needs.
Fairness ==
    \A c \in Calls : WF_vars(GateDatabaseStep(c) /\ UNCHANGED <<loop, erased>>)

FairSpec == Spec /\ Fairness
-----------------------------------------------------------------------------
TypeOK == /\ LoopTypeOK
          /\ call \in [Calls -> CallState]
          /\ infra \in [Requests -> Infra]
          /\ erased \in [Requests -> SUBSET Actions]

\* The action is, or was until a reset deleted it, in the trail of the change.
Attested(r, action) == Logged(r, action) \/ action \in erased[r]

\* A change that has no row and never will again.
Gone(r) == rows[r].status = "absent" /\ loop[r].pc # "idle"

\* Whatever fails, crashes, overlaps or is reset: no apply began without an
\* "approved" entry written before to the trail of that very change
\* (ApproveChange writes it before terraform init; README, Approval gate).
GatedApply ==
    \A r \in Requests : infra[r].begun # {} => Attested(r, "approved")

\* Whatever fails, crashes, overlaps or is reset, a row that reads applied
\* belongs to infrastructure that was applied, and a 200 tells the truth: what
\* the call decided was written to the trail, and for an approval the apply was
\* done and its entry written (ApproveChange, RejectChange: an error of any
\* statement is a 500).
AnswersAreTrue ==
    /\ \A r \in Requests : rows[r].status = "applied" => infra[r].done # {}
    /\ \A c \in Calls : CallAt(c, "200") =>
         /\ Attested(call[c].req, Decision(c))
         /\ call[c].kind = "approve" => /\ Attested(call[c].req, "applied")
                                        /\ infra[call[c].req].done # {}

Places(trail, n, action) == {i \in 1..n : trail[i].action = action}

\* However far one reads a trail, no more applies than approvals.
Paid(trail) ==
    \A n \in 1..Len(trail) :
        Cardinality(Places(trail, n, "applied")) <= Cardinality(Places(trail, n, "approved"))

\* The entries of overlapping approvals and of the loop reach one trail in
\* whatever order they commit, and some are lost; still each "applied" has an
\* "approved" of its own before it (the two entries of ApproveChange).
EachApplyIsApproved == \A r \in Requests : Paid(audit[r])

\* A reset under a running loop or a running approval: whatever they still
\* write, the change does not come back, no entry of it does, and no call about
\* it is answered 200 (the updates match no row and say so, the foreign key
\* refuses the entries).
DeletedStaysDeleted ==
    [][\A r \in Requests : Gone(r) =>
         /\ Gone(r)' /\ audit'[r] = <<>>
         /\ \A c \in Calls :
              call[c].req = r /\ ~CallAt(c, "200") => ~CallAt(c, "200")']_vars

\* What is applied is the text the row shows, and a text the loop validated:
\* terraform planned it and it came with a passing score (when every statement
\* of its loop was acknowledged, and until a reset deletes the row).
OnlyValidatedApplied ==
    \A r \in Requests : infra[r].begun # {} /\ ~loop[r].lost /\ ~Gone(r) =>
        /\ infra[r].begun = {rows[r].hcl}
        /\ rows[r].hcl \in Plannable
        /\ rows[r].score >= Threshold

\* README.md: "a human reviews the final plan before apply runs": what is
\* applied is what the row showed.
OnlyShownApplied ==
    \A r \in Requests : infra[r].begun \subseteq {rows[r].hcl}

\* handlers.go, ApproveChange: "Only changes in pending status may be approved"
\* (and RejectChange makes the same test).
OnlyPendingDecided ==
    [][\A r \in Requests :
         rows'[r].status # rows[r].status /\ rows'[r].status \in {"approved", "rejected"}
           => rows[r].status = "pending"]_vars

\* The abstract life of a change.
LifeStatus(r) == IF ~Gone(r) THEN rows[r].status
                 ELSE IF "approved" \in erased[r] THEN "orphaned" ELSE "deleted"

Lifecycle == INSTANCE ChangeLifecycle WITH
                 status <- [r \in Requests |-> LifeStatus(r)],
                 begun <- [r \in Requests |-> infra[r].begun # {}],
                 done <- [r \in Requests |-> infra[r].done # {}]

FollowsLifecycle == Lifecycle!LifecycleSpec

\* Once the check is passed a rejection is answered, whatever else goes on: a
\* hanging terraform holds up only the approval that waits for it, so the time
\* comes when no rejection is under way (RejectChange).
Rejecting == {c \in Calls : call[c].pc \in InHandler /\ call[c].kind = "reject"}

RejectionsAreAnswered == Rejecting # {} ~> Rejecting = {}
=============================================================================
