-------------------------- MODULE TerraSenseProofs --------------------------
(***************************************************************************)
(* Theorems about the whole server: for every number of changes and calls, *)
(* with store faults, crashes, resets and overlapping decisions.           *)
(***************************************************************************)
EXTENDS TerraSense, CorrectionLoopProofs, FiniteSetTheorems

(* What a trail attests, it attests for good: a reset moves it to erased.    *)

AuditGrows == \A q \in Requests, a \in Actions : Attested(q, a) => Attested(q, a)'

LEMMA AuditKept ==
    ASSUME audit' = audit, erased' = erased
    PROVE  AuditGrows
BY DEF AuditGrows, Attested, Logged

LEMMA CreateAuditGrows ==
    ASSUME StoreTypeOK, NEW r \in Requests, NEW a \in Actions, NEW n \in Nat, NEW o,
           CreateAudit(r, a, n, o), erased' = erased
    PROVE  AuditGrows /\ (Acked(r, o) => Attested(r, a)')
<1> DEFINE e == [action |-> a, attempt |-> n]
           s == audit[r]
<1>1. s \in Seq(Entry) /\ e \in Entry
  BY DEF StoreTypeOK, Entry
<1>2. /\ Len(Append(s, e)) = Len(s) + 1 /\ Append(s, e)[Len(s) + 1] = e
      /\ \A i \in 1..Len(s) : Append(s, e)[i] = s[i]
      /\ Len(s) \in Nat
  BY <1>1, AppendProperties, LenProperties
<1>3. CASE Reaches(r, o)
  <2>1. audit' = [audit EXCEPT ![r] = Append(s, e)]
    BY <1>3 DEF CreateAudit
  <2>2. audit'[r] = Append(s, e) /\ \A q \in Requests \ {r} : audit'[q] = audit[q]
    BY <2>1 DEF StoreTypeOK
  <2>3. Logged(r, a)'
    <3>1. Len(s) + 1 \in 1..Len(audit'[r]) /\ audit'[r][Len(s) + 1] = e
      BY <1>2, <2>2
    <3> QED BY <3>1 DEF Logged
  <2>4. ASSUME NEW b \in Actions, Logged(r, b)
        PROVE  Logged(r, b)'
    <3>1. PICK i \in 1..Len(s) : s[i].action = b
      BY <2>4 DEF Logged
    <3>2. i \in 1..Len(audit'[r]) /\ audit'[r][i].action = b
      BY <3>1, <1>2, <2>2
    <3> QED BY <3>2 DEF Logged
  <2>5. ASSUME NEW q \in Requests, q # r, NEW b \in Actions, Logged(q, b)
        PROVE  Logged(q, b)'
    BY <2>2, <2>5 DEF Logged
  <2> QED BY <2>3, <2>4, <2>5 DEF AuditGrows, Attested
<1>4. CASE ~Reaches(r, o)
  BY <1>4, AuditKept DEF CreateAudit, Acked, Reaches
<1> QED BY <1>3, <1>4

-----------------------------------------------------------------------------
(* The inductive invariant.                                                  *)

\* What a handler relies on at each station: the entry of its decision before
\* terraform, and a finished apply before the row says applied.
CallOK(c) ==
    /\ call[c].kind = "reject" => call[c].pc \notin Terraforming \union Recording
    /\ call[c].kind = "approve" /\ call[c].pc \in Terraforming \union Recording \union {"200"}
         => Attested(call[c].req, "approved")
    /\ call[c].kind = "approve" /\ call[c].pc \in Recording \union {"200"}
         => infra[call[c].req].done # {}
    /\ call[c].kind = "approve" /\ call[c].pc = "200" => Attested(call[c].req, "applied")
    /\ call[c].kind = "reject" /\ call[c].pc = "200" => Attested(call[c].req, "rejected")

ChangeOK(r) ==
    /\ infra[r].begun # {} => Attested(r, "approved")
    /\ rows[r].status = "applied" => infra[r].done # {}

GateIInv == /\ call \in [Calls -> CallState] /\ infra \in [Requests -> Infra]
            /\ \A c \in Calls : CallOK(c)
            /\ \A r \in Requests : ChangeOK(r)

IInv == LoopIInv /\ GateIInv /\ erased \in [Requests -> SUBSET Actions]

DoneGrows == \A r \in Requests : infra[r].done \subseteq infra'[r].done

\* No row comes to read applied.
NoneApplied == \A r \in Requests : rows'[r].status = "applied" => rows[r].status = "applied"

LEMMA CallFrame ==
    ASSUME GateIInv, NEW c \in Calls, call'[c] = call[c], AuditGrows, DoneGrows
    PROVE  CallOK(c)'
<1>1. PICK q \in Requests : q = call[c].req /\ q = call'[c].req
  BY DEF GateIInv, CallState
<1>2. CallOK(c)
  BY DEF GateIInv
<1>3. infra[q].done # {} => infra'[q].done # {}
  BY <1>1 DEF DoneGrows
<1>4. ASSUME NEW a \in {"approved", "rejected", "applied"}
      PROVE  Attested(call[c].req, a) => Attested(call[c].req, a)'
  <2>1. Attested(q, a) => Attested(q, a)'
    BY <1>1, <1>4 DEF AuditGrows, Actions
  <2> QED BY <1>1, <2>1 DEF Attested, Logged
<1> QED BY <1>1, <1>2, <1>3, <1>4 DEF CallOK

LEMMA ChangeFrame ==
    ASSUME GateIInv, NEW r \in Requests, infra'[r].begun = infra[r].begun,
           AuditGrows, DoneGrows, NoneApplied
    PROVE  ChangeOK(r)'
<1>1. ChangeOK(r)
  BY DEF GateIInv
<1>2. Attested(r, "approved") => Attested(r, "approved")'
  BY DEF AuditGrows, Actions
<1> QED BY <1>1, <1>2 DEF ChangeOK, DoneGrows, NoneApplied

\* Steps that leave the handlers and the infrastructure alone.
LEMMA GateFrame ==
    ASSUME GateIInv, UNCHANGED <<call, infra>>, AuditGrows, NoneApplied
    PROVE  GateIInv'
<1>1. DoneGrows
  BY DEF DoneGrows
<1> QED BY <1>1, CallFrame, ChangeFrame DEF GateIInv

-----------------------------------------------------------------------------
(* The loops write other entries and other statuses.                         *)

LEMMA LoopStepQuiet ==
    ASSUME StoreTypeOK, loop \in [Requests -> LoopState], NEW r \in Requests,
           LoopStep(r),
           erased' = erased
    PROVE  AuditGrows /\ NoneApplied
<1>0. loop[r] \in LoopState /\ loop[r].attempts \in Nat
  BY DEF LoopState
<1>1. ASSUME NEW o, Start(r, o)
      PROVE  AuditGrows /\ NoneApplied
  BY <1>1, AuditKept DEF Start, CreateRow, NoneApplied, StoreTypeOK, PendingRow, NoRow
<1>2. ASSUME NEW o, MarkFailed(r, o)
      PROVE  AuditGrows /\ NoneApplied
  BY <1>2, AuditKept DEF MarkFailed, UpdateStatus, NoneApplied, StoreTypeOK, Row
<1>3. ASSUME NEW o, PersistPassed(r, o) \/ PersistFailed(r, o)
      PROVE  AuditGrows /\ NoneApplied
  <2>1. PICK h, sc, n : UpdateHCLAndScore(r, h, sc, n, o)
    BY <1>3 DEF PersistPassed, PersistFailed
  <2>2. \A q \in Requests : rows'[q].status = rows[q].status
    BY <2>1 DEF UpdateHCLAndScore, StoreTypeOK, Row
  <2> QED BY <2>1, <2>2, AuditKept DEF UpdateHCLAndScore, NoneApplied
<1>4. ASSUME NEW o, \/ LogComplete(r, o) \/ LogExhausted(r, o) \/ LogAttempt(r, o)
                    \/ \E h \in HCL : Generate(r, h, o)
      PROVE  AuditGrows /\ NoneApplied
  <2>1. PICK a \in Actions, n \in Nat : CreateAudit(r, a, n, o)
    BY <1>0, <1>4 DEF LogComplete, LogExhausted, LogAttempt, Generate, Actions
  <2>2. NoneApplied
    BY <2>1 DEF CreateAudit, NoneApplied
  <2> QED BY <2>1, <2>2, CreateAuditGrows
<1>5. ASSUME UNCHANGED <<rows, audit>>
      PROVE  AuditGrows /\ NoneApplied
  BY <1>5, AuditKept DEF NoneApplied
<1> QED BY <1>1, <1>2, <1>3, <1>4, <1>5
        DEF LoopStep, OwnStep, DatabaseStep, ModelStep, GenerateFails, StartPlan,
            PlanRefused, PlanReturns, PlanDeadline, StartScan, ScanReturns,
            ScanFails, Complete, CompleteFails

-----------------------------------------------------------------------------
(* The steps of one handler.                                                 *)

\* A handler that becomes k, when k has what its station relies on.
LEMMA BecomeInv ==
    ASSUME GateIInv, NEW c \in Calls, NEW q \in Requests, NEW k \in CallState,
           call' = [call EXCEPT ![c] = k], k.req = q,
           infra' \in [Requests -> Infra], AuditGrows, DoneGrows,
           \A r \in Requests : ChangeOK(r)',
           k.kind = "reject" => k.pc \notin Terraforming \union Recording,
           k.kind = "approve" /\ k.pc \in Terraforming \union Recording \union {"200"}
             => Attested(q, "approved")',
           k.kind = "approve" /\ k.pc \in Recording \union {"200"} => infra'[q].done # {},
           k.kind = "approve" /\ k.pc = "200" => Attested(q, "applied")',
           k.kind = "reject" /\ k.pc = "200" => Attested(q, "rejected")'
    PROVE  GateIInv'
<1>1. call \in [Calls -> CallState]
  BY DEF GateIInv
<1>2. call' \in [Calls -> CallState] /\ call'[c] = k
  BY <1>1
<1>3. CallOK(c)'
  BY <1>2 DEF CallOK, Attested, Logged
<1>4. ASSUME NEW d \in Calls, d # c
      PROVE  CallOK(d)'
  BY <1>1, <1>4, CallFrame
<1> QED BY <1>2, <1>3, <1>4 DEF GateIInv

\* The same for a handler that only moves on.
LEMMA ReplyInv ==
    ASSUME GateIInv, NEW c \in Calls, NEW q \in Requests, q = call[c].req,
           NEW to \in InHandler \union Replies, Reply(c, to),
           infra' \in [Requests -> Infra], AuditGrows, DoneGrows,
           \A r \in Requests : ChangeOK(r)',
           call[c].kind = "reject" => to \notin Terraforming \union Recording,
           call[c].kind = "approve" /\ to \in Terraforming \union Recording \union {"200"}
             => Attested(q, "approved")',
           call[c].kind = "approve" /\ to \in Recording \union {"200"}
             => infra'[q].done # {},
           call[c].kind = "approve" /\ to = "200" => Attested(q, "applied")',
           call[c].kind = "reject" /\ to = "200" => Attested(q, "rejected")'
    PROVE  GateIInv'
<1> DEFINE k == [call[c] EXCEPT !.pc = to]
<1>1. call[c] \in CallState
  BY DEF GateIInv
<1>2. k \in CallState /\ k.pc = to /\ k.kind = call[c].kind /\ k.req = q
  BY <1>1 DEF CallState
<1>3. call' = [call EXCEPT ![c] = k]
  BY DEF Reply
<1> HIDE DEF k
<1> QED BY <1>2, <1>3, BecomeInv

\* What a handler knows when it acts.
LEMMA HandlerFacts ==
    ASSUME GateIInv, NEW c \in Calls
    PROVE  /\ call[c] \in CallState /\ call[c].req \in Requests
           /\ call[c].kind \in {"approve", "reject"} /\ CallOK(c)
           /\ infra \in [Requests -> Infra]
           /\ \A r \in Requests : ChangeOK(r)
BY DEF GateIInv, CallState

LEMMA ReceiveInv ==
    ASSUME GateIInv, NEW c \in Calls, NEW o, Receive(c, o),
           erased' = erased
    PROVE  GateIInv'
<1> DEFINE to == Verdict(call[c].req, o)
<1>1. call[c].req \in Requests /\ infra' \in [Requests -> Infra]
  BY HandlerFacts DEF Receive
<1>2. to \in {"500", "404", "409", "set_status"}
  BY DEF Verdict
<1>3. AuditGrows /\ DoneGrows /\ NoneApplied
  BY AuditKept DEF Receive, DoneGrows, NoneApplied
<1>4. \A r \in Requests : ChangeOK(r)'
  BY <1>3, ChangeFrame DEF Receive
<1>5. Reply(c, to)
  BY DEF Receive
<1>6. to \in InHandler \union Replies /\ to \notin Terraforming \union Recording \union {"200"}
  BY <1>2 DEF InHandler, Deciding, Terraforming, Recording, Replies
<1> HIDE DEF to
<1> QED BY <1>1, <1>3, <1>4, <1>5, <1>6, ReplyInv

LEMMA SetStatusInv ==
    ASSUME GateIInv, StoreTypeOK, NEW c \in Calls, NEW o, SetStatus(c, o),
           erased' = erased
    PROVE  GateIInv' /\ StoreTypeOK'
<1> DEFINE q == call[c].req
           to == IF Acked(q, o) THEN "log_decision" ELSE "500"
<1>1. q \in Requests /\ infra' \in [Requests -> Infra]
  BY HandlerFacts DEF SetStatus
<1>2. Decision(c) \in {"approved", "rejected"}
  BY DEF Decision
<1>3. UpdateStatus(q, Decision(c), o) /\ Reply(c, to) /\ infra' = infra
  BY DEF SetStatus
<1>4. AuditGrows /\ DoneGrows
  BY <1>3, AuditKept DEF UpdateStatus, DoneGrows
<1>5. NoneApplied
  BY <1>1, <1>2, <1>3 DEF UpdateStatus, NoneApplied, StoreTypeOK, Row
<1>6. \A r \in Requests : ChangeOK(r)'
  BY <1>3, <1>4, <1>5, ChangeFrame
<1>7. to \in InHandler \union Replies /\ to \notin Terraforming \union Recording \union {"200"}
  BY DEF InHandler, Deciding, Terraforming, Recording, Replies
<1>8. StoreTypeOK'
  <2>1. Decision(c) \in Statuses
    BY <1>2 DEF Statuses
  <2> QED BY <1>1, <1>3, <2>1, UpdateStatusType
<1> HIDE DEF to
<1> QED BY <1>1, <1>3, <1>4, <1>6, <1>7, <1>8, ReplyInv

LEMMA LogDecisionInv ==
    ASSUME GateIInv, StoreTypeOK, NEW c \in Calls, NEW o, LogDecision(c, o),
           erased' = erased
    PROVE  GateIInv' /\ StoreTypeOK'
<1>1. PICK q \in Requests, a \in Actions : q = call[c].req /\ a = Decision(c)
  BY HandlerFacts DEF Decision, Actions
<1>2. CreateAudit(q, a, 0, o) /\ infra' = infra
  BY <1>1 DEF LogDecision
<1>3. AuditGrows /\ (Acked(q, o) => Attested(q, a)') /\ StoreTypeOK'
  BY <1>2, CreateAuditGrows, CreateAuditType
<1>4. DoneGrows /\ NoneApplied
  BY <1>2 DEF DoneGrows, NoneApplied, CreateAudit
<1>5. \A r \in Requests : ChangeOK(r)'
  BY <1>2, <1>3, <1>4, ChangeFrame
<1>6. infra' \in [Requests -> Infra] /\ call[c].kind \in {"approve", "reject"}
  BY <1>2, HandlerFacts
<1>7. CASE ~Acked(q, o)
  <2>1. Reply(c, "500")
    BY <1>1, <1>7 DEF LogDecision
  <2> QED BY <1>1, <1>3, <1>4, <1>5, <1>6, <2>1, ReplyInv
          DEF InHandler, Terraforming, Recording, Replies
<1>8. CASE Acked(q, o) /\ call[c].kind = "reject"
  <2>1. Reply(c, "200") /\ a = "rejected"
    BY <1>1, <1>8 DEF LogDecision, Decision
  <2> QED BY <1>1, <1>3, <1>4, <1>5, <1>6, <1>8, <2>1, ReplyInv
          DEF InHandler, Terraforming, Recording, Replies
<1>9. CASE Acked(q, o) /\ call[c].kind = "approve"
  <2>1. Reply(c, "init") /\ a = "approved"
    BY <1>1, <1>9 DEF LogDecision, Decision
  <2> QED BY <1>1, <1>3, <1>4, <1>5, <1>6, <1>9, <2>1, ReplyInv
          DEF InHandler, Terraforming, Recording, Replies
<1> QED BY <1>3, <1>6, <1>7, <1>8, <1>9

\* A handler at terraform or at its last two statements is an approval, with
\* its entry in the trail.
LEMMA ApprovalFacts ==
    ASSUME GateIInv, NEW c \in Calls, call[c].pc \in Terraforming \union Recording
    PROVE  /\ call[c].kind = "approve"
           /\ Attested(call[c].req, "approved")
           /\ call[c].pc \in Recording => infra[call[c].req].done # {}
BY HandlerFacts DEF CallOK

LEMMA TerraformInv ==
    ASSUME GateIInv, NEW c \in Calls, NEW ok \in BOOLEAN,
           TerraformInit(c, ok) \/ ApplyFails(c),
           erased' = erased
    PROVE  GateIInv'
<1>1. PICK q \in Requests : q = call[c].req
  BY HandlerFacts
<1>2. UNCHANGED <<rows, audit, infra>> /\ call[c].pc \in Terraforming
  BY DEF TerraformInit, ApplyFails, CallAt, Terraforming
<1>3. AuditGrows /\ DoneGrows /\ NoneApplied
  BY <1>2, AuditKept DEF DoneGrows, NoneApplied
<1>4. \A r \in Requests : ChangeOK(r)'
  BY <1>2, <1>3, ChangeFrame
<1>5. infra' \in [Requests -> Infra]
  BY <1>2, HandlerFacts
<1>6. call[c].kind = "approve" /\ Attested(q, "approved")
  BY <1>1, <1>2, ApprovalFacts
<1>7. Attested(q, "approved")'
  BY <1>3, <1>6 DEF AuditGrows, Actions
<1>8. Reply(c, "apply") \/ Reply(c, "500")
  BY DEF TerraformInit, ApplyFails
<1> QED BY <1>1, <1>3, <1>4, <1>5, <1>6, <1>7, <1>8, ReplyInv
        DEF InHandler, Terraforming, Recording, Replies

LEMMA ApplyBeginsInv ==
    ASSUME DataAssumption, GateIInv, NEW c \in Calls, ApplyBegins(c),
           erased' = erased
    PROVE  GateIInv'
<1>1. PICK q \in Requests : q = call[c].req
  BY HandlerFacts
<1>2. PICK h \in HCLOrNone : h = ws[q].main
  BY <1>1 DEF ApplyBegins, DataAssumption, HCLOrNone
<1> DEFINE k == [call[c] EXCEPT !.pc = "applying", !.hcl = h]
<1>3. /\ infra' = [infra EXCEPT ![q].begun = @ \union {h}]
      /\ call' = [call EXCEPT ![c] = k]
      /\ UNCHANGED <<rows, audit>> /\ call[c].pc = "apply"
  BY <1>1, <1>2 DEF ApplyBegins, CallAt
<1>4. AuditGrows /\ NoneApplied
  BY <1>3, AuditKept DEF NoneApplied
<1>5. infra \in [Requests -> Infra] /\ call[c] \in CallState
  BY HandlerFacts
<1>6. /\ infra' \in [Requests -> Infra]
      /\ \A r \in Requests : infra'[r].done = infra[r].done
      /\ \A r \in Requests \ {q} : infra'[r].begun = infra[r].begun
  BY <1>3, <1>5 DEF Infra
<1>7. DoneGrows
  BY <1>6 DEF DoneGrows
<1>8. call[c].kind = "approve" /\ Attested(q, "approved")
  BY <1>1, <1>3, ApprovalFacts DEF Terraforming
<1>9. Attested(q, "approved")'
  BY <1>4, <1>8 DEF AuditGrows, Actions
<1>10. ASSUME NEW r \in Requests
       PROVE  ChangeOK(r)'
  <2>1. CASE r # q
    BY <1>4, <1>6, <1>7, <2>1, ChangeFrame
  <2>2. CASE r = q
    <3>1. ChangeOK(r)
      BY HandlerFacts
    <3> QED BY <1>3, <1>6, <1>9, <2>2, <3>1 DEF ChangeOK
  <2> QED BY <2>1, <2>2
<1>11. k \in CallState /\ k.req = q /\ k.kind = "approve" /\ k.pc = "applying"
  BY <1>1, <1>5, <1>8 DEF CallState, InHandler, Terraforming
<1> HIDE DEF k
<1> QED BY <1>3, <1>4, <1>6, <1>7, <1>9, <1>10, <1>11, BecomeInv
        DEF Terraforming, Recording

LEMMA ApplySucceedsInv ==
    ASSUME GateIInv, NEW c \in Calls, ApplySucceeds(c),
           erased' = erased
    PROVE  GateIInv'
<1>1. PICK q \in Requests : q = call[c].req
  BY HandlerFacts
<1>2. /\ infra' = [infra EXCEPT ![q].done = @ \union {call[c].hcl}]
      /\ UNCHANGED <<rows, audit>> /\ call[c].pc = "applying"
      /\ Reply(c, "mark_applied")
  BY <1>1 DEF ApplySucceeds, CallAt
<1>3. AuditGrows /\ NoneApplied
  BY <1>2, AuditKept DEF NoneApplied
<1>4. infra \in [Requests -> Infra] /\ call[c].hcl \in HCLOrNone
  BY HandlerFacts DEF CallState
<1>5. /\ infra' \in [Requests -> Infra]
      /\ \A r \in Requests : infra'[r].begun = infra[r].begun
      /\ infra'[q].done = infra[q].done \union {call[c].hcl}
      /\ \A r \in Requests \ {q} : infra'[r].done = infra[r].done
  BY <1>2, <1>4 DEF Infra
<1>6. DoneGrows /\ infra'[q].done # {}
  BY <1>5 DEF DoneGrows
<1>7. \A r \in Requests : ChangeOK(r)'
  BY <1>3, <1>5, <1>6, ChangeFrame
<1>8. call[c].kind = "approve" /\ Attested(q, "approved")
  BY <1>1, <1>2, ApprovalFacts DEF Terraforming
<1>9. Attested(q, "approved")'
  BY <1>3, <1>8 DEF AuditGrows, Actions
<1> QED BY <1>1, <1>2, <1>3, <1>5, <1>6, <1>7, <1>8, <1>9, ReplyInv
        DEF InHandler, Recording
LEMMA MarkAppliedInv ==
    ASSUME GateIInv, StoreTypeOK, NEW c \in Calls, NEW o, MarkApplied(c, o),
           erased' = erased
    PROVE  GateIInv' /\ StoreTypeOK'
<1>1. PICK q \in Requests : q = call[c].req
  BY HandlerFacts
<1> DEFINE to == IF Acked(q, o) THEN "log_applied" ELSE "500"
<1>2. /\ UpdateStatus(q, "applied", o) /\ Reply(c, to) /\ infra' = infra
      /\ call[c].pc \in Recording
  BY <1>1 DEF MarkApplied, CallAt, Recording
<1>3. StoreTypeOK'
  BY <1>2, UpdateStatusType DEF Statuses
<1>4. AuditGrows /\ DoneGrows
  BY <1>2, AuditKept DEF UpdateStatus, DoneGrows
<1>5. /\ call[c].kind = "approve" /\ Attested(q, "approved")
      /\ infra[q].done # {}
  BY <1>1, <1>2, ApprovalFacts
<1>6. infra'[q].done # {} /\ Attested(q, "approved")'
  BY <1>2, <1>4, <1>5 DEF AuditGrows, Actions
<1>7. \A r \in Requests \ {q} : rows'[r].status = rows[r].status
  BY <1>2 DEF UpdateStatus, StoreTypeOK
<1>8. ASSUME NEW r \in Requests
      PROVE  ChangeOK(r)'
  <2>1. ChangeOK(r) /\ (Attested(r, "approved") => Attested(r, "approved")')
    BY <1>4, HandlerFacts DEF AuditGrows, Actions
  <2>2. CASE r = q
    BY <1>2, <1>6, <2>2 DEF ChangeOK
  <2>3. CASE r # q
    BY <1>2, <1>7, <2>1, <2>3 DEF ChangeOK
  <2> QED BY <2>2, <2>3
<1>9. infra' \in [Requests -> Infra]
  BY <1>2, HandlerFacts
<1>10. to \in InHandler \union Replies /\ to # "200"
  BY DEF InHandler, Recording, Replies
<1> HIDE DEF to
<1> QED BY <1>1, <1>2, <1>3, <1>4, <1>5, <1>6, <1>8, <1>9, <1>10, ReplyInv

LEMMA LogAppliedInv ==
    ASSUME GateIInv, StoreTypeOK, NEW c \in Calls, NEW o, LogApplied(c, o),
           erased' = erased
    PROVE  GateIInv' /\ StoreTypeOK'
<1>1. PICK q \in Requests : q = call[c].req
  BY HandlerFacts
<1> DEFINE to == IF Acked(q, o) THEN "200" ELSE "500"
<1>2. /\ CreateAudit(q, "applied", 0, o) /\ Reply(c, to) /\ infra' = infra
      /\ call[c].pc \in Recording
  BY <1>1 DEF LogApplied, CallAt, Recording
<1>3. /\ AuditGrows /\ StoreTypeOK'
      /\ Acked(q, o) => Attested(q, "applied")'
  BY <1>2, CreateAuditGrows, CreateAuditType DEF Actions
<1>4. DoneGrows /\ NoneApplied
  BY <1>2 DEF DoneGrows, NoneApplied, CreateAudit
<1>5. \A r \in Requests : ChangeOK(r)'
  BY <1>2, <1>3, <1>4, ChangeFrame
<1>6. /\ call[c].kind = "approve" /\ Attested(q, "approved")
      /\ infra[q].done # {}
  BY <1>1, <1>2, ApprovalFacts
<1>7. infra'[q].done # {} /\ Attested(q, "approved")'
  BY <1>2, <1>3, <1>6 DEF AuditGrows, Actions
<1>8. infra' \in [Requests -> Infra]
  BY <1>2, HandlerFacts
<1>9. /\ to \in InHandler \union Replies
      /\ to = "200" => Attested(q, "applied")'
  BY <1>3 DEF Replies
<1> HIDE DEF to
<1> QED BY <1>1, <1>2, <1>3, <1>4, <1>5, <1>6, <1>7, <1>8, <1>9, ReplyInv

LEMMA HandleInv ==
    ASSUME DataAssumption, GateIInv, StoreTypeOK, NEW c \in Calls,
           GateDatabaseStep(c) \/ TerraformStep(c),
           erased' = erased
    PROVE  GateIInv' /\ StoreTypeOK'
<1>1. CASE GateDatabaseStep(c)
  BY <1>1, SetStatusInv, LogDecisionInv, MarkAppliedInv, LogAppliedInv
  DEF GateDatabaseStep
<1>2. CASE TerraformStep(c)
  <2>1. UNCHANGED <<rows, audit>>
    BY <1>2 DEF TerraformStep, TerraformInit, ApplyBegins, ApplyFails, ApplySucceeds
  <2>2. StoreTypeOK'
    BY <2>1 DEF StoreTypeOK
  <2>3. GateIInv'
    <3>1. ASSUME NEW ok \in BOOLEAN, TerraformInit(c, ok)
          PROVE  GateIInv'
      BY <3>1, TerraformInv
    <3>2. CASE ApplyFails(c)
      BY <3>2, TerraformInv
    <3> QED BY <1>2, <3>1, <3>2, ApplyBeginsInv, ApplySucceedsInv DEF TerraformStep
  <2> QED BY <2>2, <2>3
<1> QED BY <1>1, <1>2

\* The handlers touch neither a goroutine of the loops nor the disk.
LEMMA HandlerFrame ==
    ASSUME NEW c \in Calls,
           \/ \E o : Receive(c, o)
           \/ GateDatabaseStep(c)
           \/ TerraformStep(c)
    PROVE  ws' = ws
BY DEF Receive, GateDatabaseStep, TerraformStep, SetStatus, LogDecision, MarkApplied,
       LogApplied, TerraformInit, ApplyBegins, ApplyFails, ApplySucceeds

LEMMA GoroutineFrame ==
    ASSUME LoopIInv, StoreTypeOK', ws' = ws, loop' = loop
    PROVE  LoopIInv'
<1>1. GoroutineInv
  BY SplitIInv
<1>2. GoroutineInv'
  BY <1>1 DEF GoroutineInv, GoroutineOK, TextOK, CountOK, TreeOK, SomeTextPasses
<1> QED BY <1>2, JoinIInv

-----------------------------------------------------------------------------
(* The end of the process.                                                   *)

LEMMA CrashCallsInv ==
    ASSUME GateIInv, CrashCalls, UNCHANGED <<rows, audit>>,
           erased' = erased
    PROVE  GateIInv'
<1>1. call \in [Calls -> CallState] /\ infra \in [Requests -> Infra]
  BY DEF GateIInv
<1>2. AuditGrows /\ NoneApplied
  BY AuditKept DEF NoneApplied
<1>3. PICK orphans \in SUBSET {c \in Calls : CallAt(c, "applying")} :
        infra' = [r \in Requests |-> [infra[r] EXCEPT !.done =
                    @ \union {call[c].hcl : c \in {d \in orphans : call[d].req = r}}]]
  BY DEF CrashCalls
<1> DEFINE more(r) == {call[c].hcl : c \in {d \in orphans : call[d].req = r}}
<1>4. \A r \in Requests : more(r) \subseteq HCLOrNone
  BY <1>1 DEF CallState
<1>5. \A r \in Requests : infra'[r] = [infra[r] EXCEPT !.done = @ \union more(r)]
  BY <1>3
<1>6. infra' = [r \in Requests |-> infra'[r]]
  BY <1>3
<1> HIDE DEF more
<1>7. \A r \in Requests : /\ infra'[r] \in Infra /\ infra'[r].begun = infra[r].begun
                          /\ infra[r].done \subseteq infra'[r].done
  <2> TAKE r \in Requests
  <2>1. PICK m \in SUBSET HCLOrNone : infra'[r] = [infra[r] EXCEPT !.done = @ \union m]
    BY <1>4, <1>5
  <2> QED BY <1>1, <2>1 DEF Infra
<1>8. infra' \in [Requests -> Infra] /\ DoneGrows
  BY <1>6, <1>7 DEF DoneGrows
<1>9. \A r \in Requests : ChangeOK(r)'
  BY <1>2, <1>7, <1>8, ChangeFrame
<1>10. call' \in [Calls -> CallState]
  <2>1. \A c \in Calls : [call[c] EXCEPT !.pc = "crashed"] \in CallState
    BY <1>1 DEF CallState
  <2> QED BY <1>1, <2>1 DEF CrashCalls
<1>11. ASSUME NEW c \in Calls
       PROVE  CallOK(c)'
  <2>1. CASE call[c].pc \in InHandler
    <3>1. call'[c].pc = "crashed"
      <4>1. call'[c] = [call[c] EXCEPT !.pc = "crashed"]
        BY <2>1 DEF CrashCalls
      <4> QED BY <1>1, <4>1 DEF CallState
    <3> QED BY <3>1 DEF CallOK, Terraforming, Recording
  <2>2. CASE call[c].pc \notin InHandler
    <3>1. call'[c] = call[c]
      BY <2>2 DEF CrashCalls
    <3> QED BY <1>2, <1>8, <3>1, CallFrame
  <2> QED BY <2>1, <2>2
<1> QED BY <1>8, <1>9, <1>10, <1>11 DEF GateIInv

-----------------------------------------------------------------------------
(* A reset: the rows go, what their trails attested is remembered.           *)

LEMMA ResetFacts ==
    ASSUME StoreTypeOK, erased \in [Requests -> SUBSET Actions], Reset
    PROVE  /\ StoreTypeOK' /\ erased' \in [Requests -> SUBSET Actions]
           /\ AuditGrows /\ NoneApplied
<1>1. PICK D \in SUBSET Requests :
        /\ rows' = [r \in Requests |-> IF r \in D THEN NoRow ELSE rows[r]]
        /\ audit' = [r \in Requests |-> IF r \in D THEN <<>> ELSE audit[r]]
        /\ erased' = [r \in Requests |->
                        IF r \in D THEN erased[r] \union {a \in Actions : Logged(r, a)}
                                   ELSE erased[r]]
  BY DEF Reset
<1>2. StoreTypeOK'
  <2>1. NoRow \in Row /\ <<>> \in Seq(Entry)
    BY DEF NoRow, Row, HCLOrNone
  <2> QED BY <1>1, <2>1 DEF StoreTypeOK
<1>3. erased' \in [Requests -> SUBSET Actions]
  BY <1>1
<1>4. ASSUME NEW q \in Requests, NEW a \in Actions, Attested(q, a)
      PROVE  Attested(q, a)'
  <2>1. CASE q \in D
    <3>1. erased'[q] = erased[q] \union {b \in Actions : Logged(q, b)}
      BY <1>1, <2>1
    <3> QED BY <1>4, <3>1 DEF Attested
  <2>2. CASE q \notin D
    <3>1. audit'[q] = audit[q] /\ erased'[q] = erased[q]
      BY <1>1, <2>2
    <3> QED BY <1>4, <3>1 DEF Attested, Logged
  <2> QED BY <2>1, <2>2
<1>5. NoneApplied
  <2>1. NoRow.status # "applied"
    BY DEF NoRow
  <2> QED BY <1>1, <2>1 DEF NoneApplied
<1> QED BY <1>2, <1>3, <1>4, <1>5 DEF AuditGrows

LEMMA ResetInv ==
    ASSUME IInv, Reset
    PROVE  LoopIInv' /\ GateIInv' /\ erased' \in [Requests -> SUBSET Actions]
<1>1. LoopIInv /\ GateIInv /\ StoreTypeOK /\ erased \in [Requests -> SUBSET Actions]
  BY SplitIInv DEF IInv
<1>2. UNCHANGED <<ws, loop, call, infra>>
  BY DEF Reset
<1>3. /\ StoreTypeOK' /\ erased' \in [Requests -> SUBSET Actions]
      /\ AuditGrows /\ NoneApplied
  BY <1>1, ResetFacts
<1> QED BY <1>1, <1>2, <1>3, GateFrame, GoroutineFrame

-----------------------------------------------------------------------------
(* A deleted change stays deleted.                                           *)

\* A change has no row before its loop starts, and a trail only with its row.
DeletedInv == \A q \in Requests :
                 /\ loop[q].pc = "idle" => rows[q].status = "absent"
                 /\ rows[q].status = "absent" => audit[q] = <<>>

\* Statements that neither create nor delete a row meet one or change nothing.
RowFrame == \A q \in Requests :
               /\ rows'[q].status = "absent" <=> rows[q].status = "absent"
               /\ rows[q].status = "absent" => audit'[q] = audit[q]

IdleFrame == \A q \in Requests : loop'[q].pc = "idle" <=> loop[q].pc = "idle"

\* A call answered 200 by this step is about a change that has a row.
AnsweredWithRow ==
    \A c \in Calls : call'[c].pc = "200" /\ call[c].pc # "200"
                       => rows[call[c].req].status # "absent"

LEMMA UpdateStatusFrame ==
    ASSUME StoreTypeOK, NEW r \in Requests, NEW s \in Statuses, NEW o,
           UpdateStatus(r, s, o)
    PROVE  RowFrame
BY DEF StoreTypeOK, UpdateStatus, Reaches, RowFrame, Row, Statuses

LEMMA UpdateHCLFrame ==
    ASSUME StoreTypeOK, NEW r \in Requests, NEW h, NEW sc, NEW n, NEW o,
           UpdateHCLAndScore(r, h, sc, n, o)
    PROVE  RowFrame
BY DEF StoreTypeOK, UpdateHCLAndScore, RowFrame, Row

LEMMA CreateAuditFrame ==
    ASSUME StoreTypeOK, NEW r \in Requests, NEW a, NEW n, NEW o, CreateAudit(r, a, n, o)
    PROVE  RowFrame
BY DEF StoreTypeOK, CreateAudit, Reaches, RowFrame

LEMMA SameFrame ==
    ASSUME UNCHANGED <<rows, audit>>
    PROVE  RowFrame
BY DEF RowFrame

LEMMA LoopStepFrame ==
    ASSUME StoreTypeOK, loop \in [Requests -> LoopState], NEW r \in Requests,
           OwnStep(r) \/ (\E ok \in BOOLEAN : PlanReturns(r, ok)) \/ ScanReturns(r)
    PROVE  RowFrame /\ IdleFrame
<1>1. ASSUME NEW l, loop' = [loop EXCEPT ![r] = l], l.pc # "idle", loop[r].pc # "idle"
      PROVE  IdleFrame
  BY <1>1 DEF IdleFrame
<1>2. ASSUME NEW to, Go(r, to) \/ \E o : GoAnyway(r, to, o), to # "idle",
             loop[r].pc # "idle"
      PROVE  IdleFrame
  <2>1. loop[r] \in LoopState
    OBVIOUS
  <2>2. CASE Go(r, to)
    <3> DEFINE l == [loop[r] EXCEPT !.pc = to]
    <3>1. loop' = [loop EXCEPT ![r] = l]
      BY <2>2 DEF Go
    <3>2. l.pc = to
      BY <2>1 DEF LoopState
    <3> HIDE DEF l
    <3> QED BY <1>1, <1>2, <3>1, <3>2
  <2>3. ASSUME NEW o, GoAnyway(r, to, o)
        PROVE  IdleFrame
    <3> DEFINE b == loop[r].lost \/ ~Acked(r, o)
               l == [loop[r] EXCEPT !.pc = to, !.lost = b]
    <3>1. loop' = [loop EXCEPT ![r] = l]
      BY <2>3 DEF GoAnyway
    <3> HIDE DEF b
    <3>2. l.pc = to
      BY <2>1 DEF LoopState
    <3> HIDE DEF l
    <3> QED BY <1>1, <1>2, <3>1, <3>2
  <2> QED BY <1>2, <2>2, <2>3
<1>3. ASSUME NEW o, PersistPassed(r, o) \/ PersistFailed(r, o)
      PROVE  RowFrame /\ IdleFrame
  BY <1>2, <1>3, UpdateHCLFrame DEF PersistPassed, PersistFailed, At
<1>4. ASSUME NEW o, LogComplete(r, o) \/ LogExhausted(r, o) \/ LogAttempt(r, o)
      PROVE  RowFrame /\ IdleFrame
  BY <1>2, <1>4, CreateAuditFrame DEF LogComplete, LogExhausted, LogAttempt, At
<1>5. ASSUME NEW o, MarkFailed(r, o)
      PROVE  RowFrame /\ IdleFrame
  BY <1>2, <1>5, UpdateStatusFrame DEF MarkFailed, At, Statuses
<1>6. ASSUME NEW o, NEW h, Generate(r, h, o)
      PROVE  RowFrame /\ IdleFrame
  <2>1. RowFrame
    BY <1>6, CreateAuditFrame DEF Generate
  <2> DEFINE b == ~Acked(r, o)
             l == [loop[r] EXCEPT !.pc = "plan", !.hcl = h, !.lost = b]
  <2>2. loop' = [loop EXCEPT ![r] = l] /\ loop[r].pc # "idle"
    BY <1>6 DEF Generate, At
  <2> HIDE DEF b
  <2>3. l.pc # "idle"
    BY DEF LoopState
  <2> HIDE DEF l
  <2> QED BY <1>1, <2>1, <2>2, <2>3
<1>7. CASE GenerateFails(r) \/ CompleteFails(r) \/ StartScan(r)
  BY <1>2, <1>7, SameFrame DEF GenerateFails, CompleteFails, StartScan, At
<1>8. ASSUME NEW h, Complete(r, h)
      PROVE  RowFrame /\ IdleFrame
  <2> DEFINE l == [loop[r] EXCEPT !.pc = "plan", !.hcl = h, !.asked = @ + 1]
  <2>1. loop' = [loop EXCEPT ![r] = l]
    BY <1>8 DEF Complete
  <2>2. loop[r].pc # "idle"
    BY <1>8 DEF Complete, At
  <2>3. loop[r] \in LoopState
    OBVIOUS
  <2>4. l.pc # "idle"
    BY <2>3 DEF LoopState
  <2> HIDE DEF l
  <2> QED BY <1>1, <1>8, <2>1, <2>2, <2>4, SameFrame DEF Complete
<1>9. ASSUME NEW ok \in BOOLEAN, PlanReturns(r, ok) \/ (PlanDeadline(r) /\ ~ok)
      PROVE  RowFrame /\ IdleFrame
  <2> DEFINE l == [loop[r] EXCEPT !.pc = "check", !.planned = ok]
  <2>0. ~ok => ok = FALSE
    OBVIOUS
  <2>1. loop' = [loop EXCEPT ![r] = l]
    BY <1>9, <2>0 DEF PlanReturns, PlanDeadline
  <2>2. loop[r].pc # "idle"
    BY <1>9, <2>0 DEF PlanReturns, PlanDeadline, At
  <2>3. loop[r] \in LoopState
    OBVIOUS
  <2>4. l.pc # "idle"
    BY <2>3 DEF LoopState
  <2> HIDE DEF l
  <2> QED BY <1>1, <1>9, <2>1, <2>2, <2>4, SameFrame DEF PlanReturns, PlanDeadline
<1>10. CASE StartPlan(r)
  <2> DEFINE l == [loop[r] EXCEPT !.pc = "planning", !.tried = @ \union {loop[r].hcl}]
  <2>1. loop' = [loop EXCEPT ![r] = l]
    BY <1>10 DEF StartPlan
  <2>2. loop[r].pc # "idle"
    BY <1>10 DEF StartPlan, At
  <2>3. loop[r] \in LoopState
    OBVIOUS
  <2>4. l.pc # "idle"
    BY <2>3 DEF LoopState
  <2> HIDE DEF l
  <2> QED BY <1>1, <1>10, <2>1, <2>2, <2>4, SameFrame DEF StartPlan
<1>11. CASE PlanRefused(r)
  <2> DEFINE l == [loop[r] EXCEPT !.pc = "check", !.planned = FALSE,
                                  !.tried = @ \union {loop[r].hcl}]
  <2>1. loop' = [loop EXCEPT ![r] = l]
    BY <1>11 DEF PlanRefused
  <2>2. loop[r].pc # "idle"
    BY <1>11 DEF PlanRefused, At
  <2>3. loop[r] \in LoopState
    OBVIOUS
  <2>4. l.pc # "idle"
    BY <2>3 DEF LoopState
  <2> HIDE DEF l
  <2> QED BY <1>1, <1>11, <2>1, <2>2, <2>4, SameFrame DEF PlanRefused
<1>12. ASSUME NEW score, Judge(r, score), loop[r].pc # "idle", UNCHANGED <<rows, audit>>
       PROVE  RowFrame /\ IdleFrame
  <2> DEFINE n == loop[r].attempts + 1
             passed == Validated(r, score)
             pc == IF passed THEN "persist_passed"
                   ELSE IF LastAttempt(n) THEN "persist_failed" ELSE "log_attempt"
             m == IF passed THEN loop[r].attempts ELSE n
             l == [loop[r] EXCEPT !.pc = pc, !.score = score, !.attempts = m]
  <2>1. loop' = [loop EXCEPT ![r] = l] /\ pc # "idle"
    BY <1>12 DEF Judge
  <2>2. l.pc = pc
    <3> HIDE DEF pc, m
    <3> QED BY DEF LoopState
  <2> HIDE DEF l, pc
  <2> QED BY <1>1, <1>12, <2>1, <2>2, SameFrame
<1>13. CASE ScanReturns(r) \/ ScanFails(r)
  BY <1>12, <1>13 DEF ScanReturns, ScanFails, At
<1> QED BY <1>3, <1>4, <1>5, <1>6, <1>7, <1>8, <1>9, <1>10, <1>11, <1>13
        DEF OwnStep, DatabaseStep, ModelStep

LEMMA StartFrame ==
    ASSUME StoreTypeOK, loop \in [Requests -> LoopState], NEW r \in Requests, NEW o,
           Start(r, o)
    PROVE  /\ loop[r].pc = "idle" /\ loop'[r].pc # "idle" /\ audit' = audit
           /\ \A q \in Requests \ {r} : rows'[q] = rows[q] /\ loop'[q] = loop[q]
           /\ rows'[r].status # "absent" \/ rows'[r] = rows[r]
<1>1. loop'[r].pc # "idle"
  BY DEF Start, Go, LoopState
<1>2. rows'[r].status # "absent" \/ rows'[r] = rows[r]
  BY DEF Start, CreateRow, StoreTypeOK, PendingRow, NoRow
<1> QED BY <1>1, <1>2 DEF Start, At, Go, CreateRow, StoreTypeOK

LEMMA HandlerStepFrame ==
    ASSUME StoreTypeOK, GateIInv, NEW c \in Calls,
           (\E o : Receive(c, o)) \/ GateDatabaseStep(c) \/ TerraformStep(c)
    PROVE  RowFrame /\ AnsweredWithRow
<1>0. call[c].req \in Requests /\ call \in [Calls -> CallState]
  BY HandlerFacts DEF GateIInv
<1>1. ASSUME NEW to, Reply(c, to),
             to = "200" => rows[call[c].req].status # "absent"
      PROVE  AnsweredWithRow
  <2>1. \A d \in Calls \ {c} : call'[d] = call[d]
    BY <1>0, <1>1 DEF Reply
  <2>2. call'[c].pc = to
    BY <1>0, <1>1 DEF Reply, CallState
  <2> QED BY <1>1, <2>1, <2>2 DEF AnsweredWithRow
<1>2. ASSUME NEW o, Receive(c, o)
      PROVE  RowFrame /\ AnsweredWithRow
  <2>1. Verdict(call[c].req, o) # "200"
    BY DEF Verdict
  <2> QED BY <1>1, <1>2, <2>1, SameFrame DEF Receive
<1>3. ASSUME NEW o, SetStatus(c, o) \/ MarkApplied(c, o)
      PROVE  RowFrame /\ AnsweredWithRow
  <2>1. RowFrame
    BY <1>0, <1>3, UpdateStatusFrame DEF SetStatus, MarkApplied, Decision, Statuses
  <2>2. \E to : Reply(c, to) /\ to # "200"
    BY <1>3 DEF SetStatus, MarkApplied
  <2> QED BY <1>1, <2>1, <2>2
<1>4. ASSUME NEW o, LogDecision(c, o) \/ LogApplied(c, o)
      PROVE  RowFrame /\ AnsweredWithRow
  <2>1. RowFrame
    BY <1>0, <1>4, CreateAuditFrame DEF LogDecision, LogApplied
  <2>2. \E to : Reply(c, to) /\ (to = "200" => Acked(call[c].req, o))
    <3>1. CASE LogDecision(c, o)
      BY <3>1 DEF LogDecision
    <3>2. CASE LogApplied(c, o)
      BY <3>2 DEF LogApplied
    <3> QED BY <1>4, <3>1, <3>2
  <2> QED BY <1>1, <2>1, <2>2 DEF Acked
<1>5. ASSUME NEW ok \in BOOLEAN, TerraformInit(c, ok) \/ ApplyFails(c) \/ ApplySucceeds(c)
      PROVE  RowFrame /\ AnsweredWithRow
  <2>1. \E to : Reply(c, to) /\ to # "200"
    BY <1>5 DEF TerraformInit, ApplyFails, ApplySucceeds
  <2> QED BY <1>1, <1>5, <2>1, SameFrame DEF TerraformInit, ApplyFails, ApplySucceeds
<1>6. CASE ApplyBegins(c)
  <2>1. \A d \in Calls \ {c} : call'[d] = call[d]
    BY <1>0, <1>6 DEF ApplyBegins
  <2>2. call'[c].pc = "applying"
    BY <1>0, <1>6 DEF ApplyBegins, CallState
  <2>3. AnsweredWithRow
    BY <2>1, <2>2 DEF AnsweredWithRow
  <2> QED BY <1>6, <2>3, SameFrame DEF ApplyBegins
<1> QED BY <1>2, <1>3, <1>4, <1>5, <1>6 DEF GateDatabaseStep, TerraformStep

\* What every step does to a change without a row.
StepKeepsDeleted ==
    /\ DeletedInv'
    /\ \A q \in Requests : Gone(q) => Gone(q)' /\ audit'[q] = <<>>
    /\ AnsweredWithRow

LEMMA FramesKeepDeleted ==
    ASSUME DeletedInv, RowFrame, IdleFrame, AnsweredWithRow
    PROVE  StepKeepsDeleted
BY DEF DeletedInv, RowFrame, IdleFrame, StepKeepsDeleted, Gone

LEMMA DeletedStep ==
    ASSUME IInv, DeletedInv, [Next]_vars
    PROVE  StepKeepsDeleted
<1>1. /\ GateIInv /\ StoreTypeOK /\ loop \in [Requests -> LoopState]
      /\ call \in [Calls -> CallState]
  BY SplitIInv DEF IInv, GoroutineInv, GateIInv
<1>2. call' = call => AnsweredWithRow
  BY DEF AnsweredWithRow
<1>3. loop' = loop => IdleFrame
  BY DEF IdleFrame
<1>4. ASSUME NEW r \in Requests, Submit(r)
      PROVE  StepKeepsDeleted
  <2>1. LoopStep(r) /\ AnsweredWithRow
    BY <1>2, <1>4 DEF Submit
  <2>2. ASSUME NEW o, Start(r, o)
        PROVE  StepKeepsDeleted
    BY <1>1, <2>1, <2>2, StartFrame DEF StepKeepsDeleted, DeletedInv, Gone
  <2> QED BY <1>1, <2>1, <2>2, LoopStepFrame, FramesKeepDeleted DEF LoopStep
<1>5. ASSUME NEW c \in Calls, Decide(c) \/ Handle(c)
      PROVE  StepKeepsDeleted
  BY <1>1, <1>3, <1>5, HandlerStepFrame, FramesKeepDeleted DEF Decide, Handle
<1>6. CASE ServerCrash
  <2>1. IdleFrame
    <3>1. ASSUME NEW q \in Requests
          PROVE  loop'[q].pc = "idle" <=> loop[q].pc = "idle"
      <4>1. loop[q] \in LoopState
        BY <1>1
      <4>2. loop'[q] = IF loop[q].pc \in InFlight
                       THEN [loop[q] EXCEPT !.pc = "crashed"] ELSE loop[q]
        BY <1>6 DEF ServerCrash, CrashLoops
      <4> QED BY <4>1, <4>2 DEF LoopState, InFlight
    <3> QED BY <3>1 DEF IdleFrame
  <2>2. AnsweredWithRow
    <3>1. ASSUME NEW c \in Calls, call'[c].pc = "200"
          PROVE  call[c].pc = "200"
      <4>1. call'[c] = IF call[c].pc \in InHandler
                       THEN [call[c] EXCEPT !.pc = "crashed"] ELSE call[c]
        BY <1>6 DEF ServerCrash, CrashCalls
      <4> QED BY <1>1, <3>1, <4>1 DEF CallState
    <3> QED BY <3>1 DEF AnsweredWithRow
  <2> QED BY <1>6, <2>1, <2>2, SameFrame, FramesKeepDeleted DEF ServerCrash
<1>7. CASE Reset
  <2>1. PICK D \in SUBSET Requests :
          /\ rows' = [r \in Requests |-> IF r \in D THEN NoRow ELSE rows[r]]
          /\ audit' = [r \in Requests |-> IF r \in D THEN <<>> ELSE audit[r]]
    BY <1>7 DEF Reset
  <2>2. AnsweredWithRow /\ loop' = loop
    BY <1>2, <1>7 DEF Reset
  <2>3. NoRow.status = "absent"
    BY DEF NoRow
  <2> QED BY <2>1, <2>2, <2>3 DEF StepKeepsDeleted, DeletedInv, Gone
<1>8. CASE UNCHANGED vars
  <2>1. UNCHANGED <<rows, audit, loop, call>>
    BY <1>8 DEF vars
  <2> QED BY <1>2, <1>3, <2>1, SameFrame, FramesKeepDeleted
<1> QED BY <1>4, <1>5, <1>6, <1>7, <1>8 DEF Next

-----------------------------------------------------------------------------
(* Each "applied" entry has an "approved" entry of its own before it.        *)

\* The approvals whose handler has written its first entry and may yet write
\* the second: each is an entry the trail still owes its change.
Owing(q) == {c \in Calls : /\ call[c].kind = "approve" /\ call[c].req = q
                           /\ call[c].pc \in Terraforming \union Recording}

Count(trail, action) == Cardinality(Places(trail, Len(trail), action))

CreditOK(q) ==
    /\ IsFiniteSet(Owing(q)) /\ Paid(audit[q])
    /\ ~Gone(q) =>
         Count(audit[q], "applied") + Cardinality(Owing(q)) <= Count(audit[q], "approved")

CreditInv == \A q \in Requests : CreditOK(q)

LEMMA PlacesFinite ==
    ASSUME NEW s, NEW n \in Nat, NEW a
    PROVE  IsFiniteSet(Places(s, n, a)) /\ Cardinality(Places(s, n, a)) \in Nat
<1>1. IsFiniteSet(1..n)
  BY FS_Interval
<1>2. Places(s, n, a) \subseteq 1..n
  BY DEF Places
<1>3. IsFiniteSet(Places(s, n, a))
  BY <1>1, <1>2, FS_Subset
<1> QED BY <1>3, FS_CardinalityType

LEMMA PlacesAppend ==
    ASSUME NEW s \in Seq(Entry), NEW e \in Entry, NEW a
    PROVE  /\ \A n \in 1..Len(s) : Places(Append(s, e), n, a) = Places(s, n, a)
           /\ Count(Append(s, e), a) = IF e.action = a THEN Count(s, a) + 1 ELSE Count(s, a)
<1> DEFINE t == Append(s, e)
           k == Len(s)
<1>1. /\ k \in Nat /\ Len(t) = k + 1 /\ t[k + 1] = e
      /\ \A i \in 1..k : t[i] = s[i]
  BY AppendProperties, LenProperties
<1>2. \A n \in 1..k : Places(t, n, a) = Places(s, n, a)
  BY <1>1 DEF Places
<1>3. CASE e.action = a
  <2>1. Places(t, k + 1, a) = Places(s, k, a) \union {k + 1} /\ k + 1 \notin Places(s, k, a)
    BY <1>1, <1>3 DEF Places
  <2>2. IsFiniteSet(Places(s, k, a))
    BY <1>1, PlacesFinite
  <2>3. Cardinality(Places(s, k, a) \union {k + 1}) = Cardinality(Places(s, k, a)) + 1
    BY <2>1, <2>2, FS_AddElement
  <2> QED BY <1>1, <1>2, <1>3, <2>1, <2>3 DEF Count
<1>4. CASE e.action # a
  <2>1. Places(t, k + 1, a) = Places(s, k, a)
    BY <1>1, <1>4 DEF Places
  <2> QED BY <1>1, <1>2, <1>4, <2>1 DEF Count
<1> QED BY <1>3, <1>4

\* An append that some approval has paid for, or that costs nothing.
LEMMA PaidAppend ==
    ASSUME NEW s \in Seq(Entry), NEW e \in Entry, Paid(s),
           e.action = "applied" => Count(s, "applied") + 1 <= Count(s, "approved")
    PROVE  Paid(Append(s, e))
<1> DEFINE t == Append(s, e)
           k == Len(s)
<1>1. k \in Nat /\ Len(t) = k + 1
  BY AppendProperties, LenProperties
<1>2. \A n \in 1..k : Cardinality(Places(t, n, "applied")) <= Cardinality(Places(t, n, "approved"))
  BY PlacesAppend DEF Paid
<1>3. Count(s, "applied") \in Nat /\ Count(s, "approved") \in Nat
  BY <1>1, PlacesFinite DEF Count
<1>4. Count(s, "applied") <= Count(s, "approved")
  <2>1. CASE k = 0
    <3>1. Places(s, k, "applied") = {} /\ Places(s, k, "approved") = {}
      BY <2>1 DEF Places
    <3>2. Count(s, "applied") = Count(s, "approved")
      BY <3>1 DEF Count
    <3> QED BY <1>3, <3>2
  <2>2. CASE k # 0
    BY <1>1, <2>2 DEF Paid, Count
  <2> QED BY <2>1, <2>2
<1>5. Count(t, "applied") <= Count(t, "approved")
  BY <1>3, <1>4, PlacesAppend
<1>6. Cardinality(Places(t, k + 1, "applied")) <= Cardinality(Places(t, k + 1, "approved"))
  BY <1>1, <1>5 DEF Count
<1> QED BY <1>1, <1>2, <1>6 DEF Paid

\* No entry, and none owed that was not owed before.
LEMMA CreditKept ==
    ASSUME NEW q \in Requests, CreditOK(q), audit \in [Requests -> Seq(Entry)],
           audit'[q] = audit[q],
           Owing(q)' \subseteq Owing(q), Gone(q) => Gone(q)'
    PROVE  CreditOK(q)'
<1>1. /\ IsFiniteSet(Owing(q)') /\ Cardinality(Owing(q)') \in Nat
      /\ Cardinality(Owing(q)) \in Nat /\ Cardinality(Owing(q)') <= Cardinality(Owing(q))
  BY FS_Subset, FS_CardinalityType DEF CreditOK
<1>2. Len(audit[q]) \in Nat
  BY LenProperties
<1>3. Count(audit[q], "applied") \in Nat /\ Count(audit[q], "approved") \in Nat
  BY <1>2, PlacesFinite DEF Count
<1>4. /\ Paid(audit[q])' = Paid(audit[q])
      /\ Count(audit[q], "applied")' = Count(audit[q], "applied")
      /\ Count(audit[q], "approved")' = Count(audit[q], "approved")
  BY DEF Paid, Count, Places
<1>5. /\ Paid(audit[q])
      /\ ~Gone(q) =>
           Count(audit[q], "applied") + Cardinality(Owing(q)) <= Count(audit[q], "approved")
  BY DEF CreditOK
<1>6. ~Gone(q)' => Count(audit[q], "applied") + Cardinality(Owing(q)') <= Count(audit[q], "approved")
  BY <1>1, <1>3, <1>5
<1> QED BY <1>1, <1>4, <1>5, <1>6 DEF CreditOK

\* An entry: an approval's makes its call owe, the one of its apply pays, and
\* others concern nobody.
LEMMA CreditAppend ==
    ASSUME NEW q \in Requests, CreditOK(q), audit \in [Requests -> Seq(Entry)], ~Gone(q),
           NEW e \in Entry, audit'[q] = Append(audit[q], e), NEW c,
           \/ e.action = "approved" /\ Owing(q)' \subseteq Owing(q) \union {c}
           \/ e.action = "applied" /\ c \in Owing(q) /\ Owing(q)' \subseteq Owing(q) \ {c}
           \/ e.action \notin {"applied", "approved"} /\ Owing(q)' \subseteq Owing(q)
    PROVE  CreditOK(q)'
<1> DEFINE s == audit[q]
           O == Owing(q)
           P == Owing(q)'
<1>1. s \in Seq(Entry) /\ Len(s) \in Nat
  BY LenProperties
<1>2. Count(s, "applied") \in Nat /\ Count(s, "approved") \in Nat
  BY <1>1, PlacesFinite DEF Count
<1>3. /\ IsFiniteSet(O) /\ Cardinality(O) \in Nat /\ Paid(s)
      /\ Count(s, "applied") + Cardinality(O) <= Count(s, "approved")
  BY FS_CardinalityType DEF CreditOK
<1>4. /\ Count(Append(s, e), "applied") =
           IF e.action = "applied" THEN Count(s, "applied") + 1 ELSE Count(s, "applied")
      /\ Count(Append(s, e), "approved") =
           IF e.action = "approved" THEN Count(s, "approved") + 1 ELSE Count(s, "approved")
  BY <1>1, PlacesAppend
<1>5. /\ Paid(audit[q])' = Paid(Append(s, e))
      /\ Count(audit[q], "applied")' = Count(Append(s, e), "applied")
      /\ Count(audit[q], "approved")' = Count(Append(s, e), "approved")
  BY DEF Paid, Count, Places
<1> SUFFICES /\ IsFiniteSet(P) /\ Paid(Append(s, e))
             /\ Count(Append(s, e), "applied") + Cardinality(P)
                  <= Count(Append(s, e), "approved")
  BY <1>5 DEF CreditOK
<1> HIDE DEF s, O, P
<1>6. CASE e.action = "approved" /\ P \subseteq O \union {c}
  <2>1. /\ IsFiniteSet(O \union {c})
        /\ Cardinality(O \union {c}) \in Nat /\ Cardinality(O \union {c}) <= Cardinality(O) + 1
    <3> DEFINE Q == O \union {c}
    <3>1. IsFiniteSet(Q) /\ Cardinality(Q) = IF c \in O THEN Cardinality(O) ELSE Cardinality(O) + 1
      BY <1>3, FS_AddElement
    <3>2. Cardinality(Q) \in Nat
      BY <3>1, FS_CardinalityType
    <3> HIDE DEF Q
    <3>3. Cardinality(Q) <= Cardinality(O) + 1
      BY <1>3, <3>1, <3>2
    <3> QED BY <3>1, <3>2, <3>3 DEF Q
  <2>2. /\ IsFiniteSet(P) /\ Cardinality(P) \in Nat
        /\ Cardinality(P) <= Cardinality(O \union {c})
    BY <1>6, <2>1, FS_Subset, FS_CardinalityType
  <2>3. Paid(Append(s, e))
    BY <1>1, <1>3, <1>6, PaidAppend
  <2> QED BY <1>2, <1>3, <1>4, <1>6, <2>1, <2>2, <2>3
<1>7. CASE e.action = "applied" /\ c \in O /\ P \subseteq O \ {c}
  <2>1. /\ IsFiniteSet(O \ {c})
        /\ Cardinality(O \ {c}) \in Nat /\ Cardinality(O \ {c}) = Cardinality(O) - 1
    BY <1>3, <1>7, FS_RemoveElement, FS_CardinalityType
  <2>2. /\ IsFiniteSet(P) /\ Cardinality(P) \in Nat
        /\ Cardinality(P) <= Cardinality(O \ {c})
    BY <1>7, <2>1, FS_Subset, FS_CardinalityType
  <2>3. Count(s, "applied") + 1 <= Count(s, "approved")
    BY <1>2, <1>3, <2>1
  <2>4. Paid(Append(s, e))
    BY <1>1, <1>3, <2>3, PaidAppend
  <2> QED BY <1>2, <1>3, <1>4, <1>7, <2>1, <2>2, <2>4
<1>8. CASE e.action \notin {"applied", "approved"} /\ P \subseteq O
  <2>1. /\ IsFiniteSet(P) /\ Cardinality(P) \in Nat
        /\ Cardinality(P) <= Cardinality(O)
    BY <1>3, <1>8, FS_Subset, FS_CardinalityType
  <2>2. Paid(Append(s, e))
    BY <1>1, <1>3, <1>8, PaidAppend
  <2> QED BY <1>2, <1>3, <1>4, <1>8, <2>1, <2>2
<1> QED BY <1>6, <1>7, <1>8 DEF O, P

\* What a step of one handler or of none does to those who owe.
LEMMA OwingFrame ==
    ASSUME call \in [Calls -> CallState], NEW q \in Requests, NEW c \in Calls,
           \A d \in Calls \ {c} : call'[d] = call[d],
           call'[c].kind = call[c].kind, call'[c].req = call[c].req
    PROVE  /\ Owing(q)' \subseteq Owing(q) \union {c}
           /\ call[c].req # q => Owing(q)' \subseteq Owing(q)
           /\ call[c].kind # "approve" => Owing(q)' \subseteq Owing(q)
           /\ call'[c].pc \notin Terraforming \union Recording
                => Owing(q)' \subseteq Owing(q) \ {c}
           /\ call[c].kind = "approve" /\ call[c].pc \in Terraforming \union Recording
                => Owing(q)' \subseteq Owing(q)
BY DEF Owing

LEMMA ReplyMoves ==
    ASSUME call \in [Calls -> CallState], NEW c \in Calls, NEW to, Reply(c, to)
    PROVE  /\ \A d \in Calls \ {c} : call'[d] = call[d]
           /\ call'[c].kind = call[c].kind /\ call'[c].req = call[c].req
           /\ call'[c].pc = to
BY DEF Reply, CallState

\* Both entries of a handler.
LEMMA CreditEntry ==
    ASSUME IInv, CreditInv, StepKeepsDeleted, NEW c \in Calls, NEW o,
           LogDecision(c, o) \/ LogApplied(c, o)
    PROVE  CreditInv'
<1>1. /\ call \in [Calls -> CallState] /\ call[c].req \in Requests
      /\ call[c] \in CallState /\ CallOK(c)
      /\ StoreTypeOK /\ audit \in [Requests -> Seq(Entry)]
  BY SplitIInv, HandlerFacts DEF IInv, GateIInv, StoreTypeOK
<1>0. PICK r \in Requests : r = call[c].req
  BY <1>1
<1> DEFINE a == IF call[c].pc = "log_decision" THEN Decision(c) ELSE "applied"
           e == [action |-> a, attempt |-> 0]
<1>2. /\ call[c].pc \in {"log_decision", "log_applied"} /\ CreateAudit(r, a, 0, o)
      /\ \E to : /\ Reply(c, to)
                 /\ call[c].kind = "reject" \/ ~Acked(r, o) \/ call[c].pc = "log_applied"
                      => to \notin Terraforming \union Recording
  <2>1. CASE LogDecision(c, o)
    <3> DEFINE to == IF ~Acked(r, o) THEN "500"
                     ELSE IF call[c].kind = "reject" THEN "200" ELSE "init"
    <3>1. call[c].pc = "log_decision" /\ CreateAudit(r, a, 0, o) /\ Reply(c, to)
      BY <1>0, <2>1 DEF LogDecision, CallAt
    <3>2. call[c].kind = "reject" \/ ~Acked(r, o) => to \notin Terraforming \union Recording
      BY DEF Terraforming, Recording
    <3> HIDE DEF to, a
    <3> QED BY <3>1, <3>2
  <2>2. CASE LogApplied(c, o)
    <3> DEFINE to == IF Acked(r, o) THEN "200" ELSE "500"
    <3>1. call[c].pc = "log_applied" /\ CreateAudit(r, "applied", 0, o) /\ Reply(c, to)
      BY <1>0, <2>2 DEF LogApplied, CallAt
    <3>2. a = "applied" /\ to \notin Terraforming \union Recording
      BY <3>1 DEF Terraforming, Recording
    <3> HIDE DEF to, a
    <3> QED BY <3>1, <3>2
  <2> QED BY <2>1, <2>2
<1>3. e \in Entry /\ e.action = a
  BY DEF Entry, Actions, Decision
<1> HIDE DEF a, e
<1>4. PICK to : /\ Reply(c, to)
                /\ call[c].kind = "reject" \/ ~Acked(r, o) \/ call[c].pc = "log_applied"
                     => to \notin Terraforming \union Recording
  BY <1>2
<1>5. /\ \A d \in Calls \ {c} : call'[d] = call[d]
      /\ call'[c].kind = call[c].kind /\ call'[c].req = call[c].req /\ call'[c].pc = to
  BY <1>1, <1>4, ReplyMoves
<1>6. ASSUME NEW q \in Requests, q # r
      PROVE  CreditOK(q)'
  <2>1. audit'[q] = audit[q]
    BY <1>1, <1>2, <1>6 DEF CreateAudit
  <2>2. Owing(q)' \subseteq Owing(q)
    BY <1>0, <1>1, <1>5, <1>6, OwingFrame
  <2> QED BY <1>1, <2>1, <2>2, CreditKept DEF CreditInv, StepKeepsDeleted
<1>7. CASE ~Reaches(r, o)
  <2>1. audit'[r] = audit[r] /\ ~Acked(r, o)
    BY <1>2, <1>7 DEF CreateAudit, Acked, Reaches
  <2>2. Owing(r)' \subseteq Owing(r)
    BY <1>0, <1>1, <1>4, <1>5, <2>1, OwingFrame
  <2>3. CreditOK(r)'
    BY <1>1, <2>1, <2>2, CreditKept DEF CreditInv, StepKeepsDeleted
  <2> QED BY <1>6, <2>3 DEF CreditInv
<1>8. CASE Reaches(r, o)
  <2>1. audit'[r] = Append(audit[r], e)
    BY <1>1, <1>2, <1>8 DEF CreateAudit, e
  <2>2. ~Gone(r)
    BY <1>8 DEF Reaches, Gone
  <2>3. \/ e.action = "approved" /\ Owing(r)' \subseteq Owing(r) \union {c}
        \/ e.action = "applied" /\ c \in Owing(r) /\ Owing(r)' \subseteq Owing(r) \ {c}
        \/ e.action \notin {"applied", "approved"} /\ Owing(r)' \subseteq Owing(r)
    <3>1. CASE call[c].pc = "log_decision" /\ call[c].kind = "approve"
      BY <1>0, <1>1, <1>3, <1>5, <3>1, OwingFrame DEF a, Decision
    <3>2. CASE call[c].pc = "log_decision" /\ call[c].kind = "reject"
      BY <1>0, <1>1, <1>3, <1>5, <3>2, OwingFrame DEF a, Decision
    <3>3. CASE call[c].pc = "log_applied"
      <4>1. call[c].kind = "approve" /\ c \in Owing(r)
        BY <1>0, <1>1, <3>3 DEF CallOK, CallState, Owing, Recording
      <4> QED BY <1>0, <1>1, <1>3, <1>4, <1>5, <3>3, <4>1, OwingFrame DEF a
    <3> QED BY <1>1, <1>2, <3>1, <3>2, <3>3 DEF CallState
  <2>4. CreditOK(r)'
    BY <1>1, <1>3, <2>1, <2>2, <2>3, CreditAppend DEF CreditInv
  <2> QED BY <1>6, <2>4 DEF CreditInv
<1> QED BY <1>7, <1>8

\* Every step.
LEMMA CreditStep ==
    ASSUME IInv, DeletedInv, CreditInv, [Next]_vars
    PROVE  CreditInv'
<1>1. /\ call \in [Calls -> CallState] /\ StoreTypeOK
      /\ audit \in [Requests -> Seq(Entry)] /\ loop \in [Requests -> LoopState]
      /\ StepKeepsDeleted /\ GateIInv
  BY SplitIInv, DeletedStep DEF IInv, GoroutineInv, GateIInv, StoreTypeOK
<1>2. ASSUME NEW q \in Requests, audit'[q] = audit[q], Owing(q)' \subseteq Owing(q)
      PROVE  CreditOK(q)'
  BY <1>1, <1>2, CreditKept DEF CreditInv, StepKeepsDeleted
<1>3. ASSUME UNCHANGED <<audit, call>>
      PROVE  CreditInv'
  <2>1. \A q \in Requests : audit'[q] = audit[q] /\ Owing(q)' = Owing(q)
    BY <1>3 DEF Owing
  <2> QED BY <1>2, <2>1 DEF CreditInv
<1>4. ASSUME NEW r \in Requests, Submit(r)
      PROVE  CreditInv'
  <2>1. LoopStep(r) /\ UNCHANGED call
    BY <1>4 DEF Submit
  <2>2. \A q \in Requests : Owing(q)' = Owing(q)
    BY <2>1 DEF Owing
  <2>3. ASSUME NEW o, NEW a \in Actions \ {"applied", "approved"}, NEW n \in Nat,
               CreateAudit(r, a, n, o)
        PROVE  CreditInv'
    <3> DEFINE e == [action |-> a, attempt |-> n]
    <3>1. e \in Entry /\ e.action = a
      BY DEF Entry
    <3>2. CASE Reaches(r, o)
      <4>1. audit'[r] = Append(audit[r], e) /\ ~Gone(r)
        BY <1>1, <2>3, <3>2 DEF CreateAudit, Reaches, Gone
      <4>2. \A q \in Requests \ {r} : audit'[q] = audit[q]
        BY <1>1, <2>3 DEF CreateAudit
      <4> HIDE DEF e
      <4>3. CreditOK(r)'
        BY <1>1, <2>2, <2>3, <3>1, <4>1, CreditAppend DEF CreditInv
      <4> QED BY <1>2, <2>2, <4>2, <4>3 DEF CreditInv
    <3>3. CASE ~Reaches(r, o)
      BY <1>3, <2>1, <2>3, <3>3 DEF CreateAudit
    <3> QED BY <3>2, <3>3
  <2>4. ASSUME NEW o, \/ LogComplete(r, o) \/ LogExhausted(r, o) \/ LogAttempt(r, o)
                      \/ \E h \in HCL : Generate(r, h, o)
        PROVE  CreditInv'
    <3>1. loop[r].attempts \in Nat
      BY <1>1 DEF LoopState
    <3> QED BY <2>3, <2>4, <3>1
            DEF LogComplete, LogExhausted, LogAttempt, Generate, Actions
  <2>5. \/ audit' = audit
        \/ \E o : \/ LogComplete(r, o) \/ LogExhausted(r, o) \/ LogAttempt(r, o)
                  \/ \E h \in HCL : Generate(r, h, o)
    BY <2>1 DEF LoopStep, OwnStep, DatabaseStep, ModelStep, Start, CreateRow, GenerateFails,
                StartPlan, PlanRefused, PlanReturns, PlanDeadline, StartScan, ScanReturns,
                ScanFails, Complete, CompleteFails, PersistPassed, PersistFailed, MarkFailed,
                UpdateStatus, UpdateHCLAndScore
  <2> QED BY <1>3, <2>1, <2>4, <2>5
<1>5. ASSUME NEW c \in Calls, Decide(c) \/ Handle(c)
      PROVE  CreditInv'
  <2>1. ASSUME NEW o, LogDecision(c, o) \/ LogApplied(c, o)
        PROVE  CreditInv'
    BY <1>1, <2>1, CreditEntry
  <2>2. ASSUME NEW to, Reply(c, to), audit' = audit,
               to \in Terraforming \union Recording =>
                  call[c].pc \in Terraforming \union Recording
        PROVE  CreditInv'
    <3>1. /\ \A d \in Calls \ {c} : call'[d] = call[d]
          /\ call'[c].kind = call[c].kind /\ call'[c].req = call[c].req
          /\ call'[c].pc = to
      BY <1>1, <2>2, ReplyMoves
    <3>2. \A q \in Requests : Owing(q)' \subseteq Owing(q)
      BY <1>1, <2>2, <3>1 DEF Owing
    <3> QED BY <1>2, <2>2, <3>2 DEF CreditInv
  <2>3. CASE ApplyBegins(c)
    <3>1. /\ \A d \in Calls \ {c} : call'[d] = call[d]
          /\ call'[c].kind = call[c].kind /\ call'[c].req = call[c].req
          /\ call[c].pc = "apply" /\ audit' = audit
      BY <1>1, <2>3 DEF ApplyBegins, CallAt, CallState
    <3>2. \A q \in Requests : Owing(q)' \subseteq Owing(q)
      BY <1>1, <3>1 DEF Owing, Terraforming
    <3> QED BY <1>2, <3>1, <3>2 DEF CreditInv
  <2>4. ASSUME NEW o, Receive(c, o) \/ SetStatus(c, o)
        PROVE  CreditInv'
    <3>1. \E to : Reply(c, to) /\ to \notin Terraforming \union Recording /\ audit' = audit
      <4>1. Verdict(call[c].req, o) \notin Terraforming \union Recording
        BY DEF Verdict, Terraforming, Recording
      <4> QED BY <2>4, <4>1
              DEF Receive, SetStatus, UpdateStatus, Terraforming, Recording
    <3> QED BY <2>2, <3>1
  <2>5. ASSUME NEW o, NEW ok \in BOOLEAN,
               \/ TerraformInit(c, ok) \/ ApplyFails(c) \/ ApplySucceeds(c)
               \/ MarkApplied(c, o)
        PROVE  CreditInv'
    <3>1. call[c].pc \in Terraforming \union Recording
      BY <2>5 DEF TerraformInit, ApplyFails, ApplySucceeds, MarkApplied, CallAt,
                  Terraforming, Recording
    <3>2. (\E to : Reply(c, to)) /\ audit' = audit
      BY <2>5 DEF TerraformInit, ApplyFails, ApplySucceeds, MarkApplied, UpdateStatus
    <3> QED BY <2>2, <3>1, <3>2
  <2> QED BY <1>5, <2>1, <2>3, <2>4, <2>5
          DEF Decide, Handle, GateDatabaseStep, TerraformStep
<1>6. CASE ServerCrash
  <2>1. ASSUME NEW q \in Requests
        PROVE  Owing(q)' \subseteq Owing(q)
    <3>1. \A c \in Calls : call'[c] = IF call[c].pc \in InHandler
                                      THEN [call[c] EXCEPT !.pc = "crashed"] ELSE call[c]
      BY <1>6 DEF ServerCrash, CrashCalls
    <3>2. \A c \in Calls : call'[c] = call[c] \/ call'[c].pc = "crashed"
      BY <1>1, <3>1 DEF CallState
    <3> QED BY <3>2 DEF Owing, Terraforming, Recording
  <2> QED BY <1>2, <1>6, <2>1 DEF ServerCrash, CreditInv
<1>7. CASE Reset
  <2>1. PICK D \in SUBSET {r \in Requests : rows[r].status # "absent"} :
          /\ rows' = [r \in Requests |-> IF r \in D THEN NoRow ELSE rows[r]]
          /\ audit' = [r \in Requests |-> IF r \in D THEN <<>> ELSE audit[r]]
    BY <1>7 DEF Reset
  <2>2. \A q \in Requests : Owing(q)' = Owing(q)
    BY <1>7 DEF Reset, Owing
  <2>3. ASSUME NEW q \in D
        PROVE  CreditOK(q)'
    <3>1. q \in Requests /\ loop'[q].pc # "idle"
      BY <1>7, <2>3 DEF Reset, DeletedInv
    <3>2. Gone(q)'
      BY <2>1, <2>3, <3>1 DEF Gone, NoRow
    <3>3. Paid(audit[q])'
      <4>1. audit'[q] = <<>>
        BY <2>1, <3>1
      <4>2. Paid(<<>>)
        BY DEF Paid
      <4> QED BY <4>1, <4>2 DEF Paid, Places
    <3> QED BY <2>2, <3>1, <3>2, <3>3 DEF CreditInv, CreditOK
  <2>4. \A q \in Requests \ D : audit'[q] = audit[q]
    BY <2>1
  <2> QED BY <1>2, <2>2, <2>3, <2>4 DEF CreditInv
<1>8. CASE UNCHANGED vars
  BY <1>3, <1>8 DEF vars
<1> QED BY <1>4, <1>5, <1>6, <1>7, <1>8 DEF Next

LEMMA DeletedInit == Init => DeletedInv
BY DEF Init, StoreInit, LoopInit, DeletedInv, NoRow, Idle

LEMMA CreditInit ==
    ASSUME Init
    PROVE  CreditInv
<1> SUFFICES ASSUME NEW q \in Requests
             PROVE  CreditOK(q)
  BY DEF CreditInv
<1>1. audit[q] = <<>> /\ \A c \in Calls : call[c].pc = "idle"
  BY DEF Init, StoreInit, GateInit
<1>2. Owing(q) = {}
  BY <1>1 DEF Owing, Terraforming, Recording
<1>3. /\ Places(<<>>, 0, "applied") = {} /\ Places(<<>>, 0, "approved") = {}
      /\ Len(<<>>) = 0 /\ Paid(<<>>)
  BY DEF Places, Paid
<1>4. Cardinality({}) = 0 /\ IsFiniteSet({})
  BY FS_EmptySet
<1>5. Count(<<>>, "applied") = 0 /\ Count(<<>>, "approved") = 0
  BY <1>3, <1>4 DEF Count
<1> QED BY <1>1, <1>2, <1>3, <1>4, <1>5 DEF CreditOK

-----------------------------------------------------------------------------
(* The theorems.                                                             *)

LEMMA InitInv ==
    ASSUME RetriesAssumption, Init
    PROVE  IInv
<1>1. LoopIInv
  BY LoopInitInv DEF Init, LoopSpecInit
<1>2. call \in [Calls -> CallState] /\ infra \in [Requests -> Infra]
  BY DEF Init, GateInit, CallState, Infra, HCLOrNone
<1>3. \A c \in Calls : CallOK(c)
  BY DEF Init, GateInit, CallOK, Terraforming, Recording
<1>4. \A r \in Requests : ChangeOK(r)
  BY DEF Init, GateInit, StoreInit, NoRow, ChangeOK
<1>5. erased \in [Requests -> SUBSET Actions]
  BY DEF Init
<1> QED BY <1>1, <1>2, <1>3, <1>4, <1>5 DEF IInv, GateIInv

LEMMA NextInv ==
    ASSUME DataAssumption, RetriesAssumption, IInv, [Next]_vars
    PROVE  IInv'
<1>1. LoopIInv /\ GateIInv /\ StoreTypeOK /\ loop \in [Requests -> LoopState]
  BY SplitIInv DEF IInv, GoroutineInv
<1>2. ASSUME NEW r \in Requests, Submit(r)
      PROVE  IInv'
  <2>1. LoopStep(r) /\ UNCHANGED <<call, infra, erased>>
    BY <1>2 DEF Submit
  <2>2. AuditGrows /\ NoneApplied
    BY <1>1, <2>1, LoopStepQuiet
  <2> QED BY <1>1, <2>1, <2>2, LoopStepInv, GateFrame DEF IInv
<1>3. ASSUME NEW c \in Calls, Decide(c)
      PROVE  IInv'
  <2>1. PICK o : Receive(c, o) /\ loop' = loop /\ erased' = erased
    BY <1>3 DEF Decide
  <2>2. StoreTypeOK' /\ ws' = ws
    BY <1>1, <2>1 DEF Receive, StoreTypeOK
  <2> QED BY <1>1, <2>1, <2>2, ReceiveInv, GoroutineFrame DEF IInv
<1>4. ASSUME NEW c \in Calls, Handle(c)
      PROVE  IInv'
  <2>1. (GateDatabaseStep(c) \/ TerraformStep(c)) /\ UNCHANGED <<loop, erased>>
    BY <1>4 DEF Handle
  <2>2. GateIInv' /\ StoreTypeOK' /\ ws' = ws
    BY <1>1, <2>1, HandleInv, HandlerFrame
  <2> QED BY <1>1, <2>1, <2>2, GoroutineFrame DEF IInv
<1>5. CASE ServerCrash
  <2>1. CrashLoops /\ CrashCalls /\ CrashDisk /\ UNCHANGED <<rows, audit, erased>>
    BY <1>5 DEF ServerCrash
  <2> QED BY <1>1, <2>1, LoopCrashInv, CrashCallsInv DEF IInv
<1>6. CASE UNCHANGED vars
  <2>1. UNCHANGED loopVars /\ UNCHANGED <<call, infra, rows, audit, erased>>
    BY <1>6 DEF vars, loopVars
  <2>2. AuditGrows /\ NoneApplied
    BY <2>1, AuditKept DEF NoneApplied
  <2> QED BY <1>1, <2>1, <2>2, LoopStutterInv, GateFrame DEF IInv
<1>7. CASE Reset
  <2>1. LoopIInv' /\ GateIInv' /\ erased' \in [Requests -> SUBSET Actions]
    BY <1>1, <1>7, ResetInv DEF IInv
  <2> QED BY <2>1 DEF IInv
<1> QED BY <1>2, <1>3, <1>4, <1>5, <1>6, <1>7 DEF Next

\* The inductive invariant holds of the whole server.
THEOREM ServerInvariant == Spec => []IInv
<1>1. Init => IInv
  BY InitInv, RetriesAssumption
<1>2. IInv /\ [Next]_vars => IInv'
  BY NextInv, DataAssumption, RetriesAssumption
<1> QED BY <1>1, <1>2, PTL DEF Spec

\* Rows, trails, directories, goroutines, calls and infrastructure keep their
\* types, whatever fails or crashes (the status of a row above all: it is one
\* of the five of the column's enum).
THEOREM ServerTypeCorrect == Spec => []TypeOK
<1>1. IInv => TypeOK
  BY DEF IInv, LoopIInv, GateIInv, TypeOK
<1> QED BY <1>1, ServerInvariant, PTL

\* ApproveChange writes the "approved" entry before it starts terraform and
\* stops when that write is not acknowledged, so no apply begins without it.
THEOREM ApplyIsGated == Spec => []GatedApply
<1>1. IInv => GatedApply
  BY DEF IInv, GateIInv, ChangeOK, GatedApply
<1> QED BY <1>1, ServerInvariant, PTL

\* ApproveChange and RejectChange answer 200 only after every statement and the
\* apply succeeded, and only a finished apply turns a row to applied.
THEOREM AnswersTrue == Spec => []AnswersAreTrue
<1>1. IInv => AnswersAreTrue
  <2> SUFFICES ASSUME IInv
               PROVE  AnswersAreTrue
    OBVIOUS
  <2>1. \A r \in Requests : rows[r].status = "applied" => infra[r].done # {}
    BY DEF IInv, GateIInv, ChangeOK
  <2>2. ASSUME NEW c \in Calls, CallAt(c, "200")
        PROVE  /\ Attested(call[c].req, Decision(c))
               /\ call[c].kind = "approve" => /\ Attested(call[c].req, "applied")
                                              /\ infra[call[c].req].done # {}
    BY <2>2, HandlerFacts DEF IInv, CallOK, CallAt, Decision
  <2> QED BY <2>1, <2>2 DEF AnswersAreTrue
<1> QED BY <1>1, ServerInvariant, PTL

\* A change that a reset deleted under its loop or its approval has no row, no
\* entry and no 200 ever after (UpdateStatus and UpdateHCLAndScore look at
\* RowsAffected, audit_logs refers to infra_requests).
THEOREM DeletedForGood == Spec => DeletedStaysDeleted
<1>1. Init => DeletedInv
  BY DeletedInit
<1>2. IInv /\ DeletedInv /\ [Next]_vars => DeletedInv'
  BY DeletedStep DEF StepKeepsDeleted
<1>3. IInv /\ DeletedInv /\ [Next]_vars =>
        [\A r \in Requests : Gone(r) =>
           /\ Gone(r)' /\ audit'[r] = <<>>
           /\ \A c \in Calls :
                call[c].req = r /\ ~CallAt(c, "200") => ~CallAt(c, "200")']_vars
  BY DeletedStep DEF StepKeepsDeleted, AnsweredWithRow, CallAt, Gone
<1> QED BY <1>1, <1>2, <1>3, ServerInvariant, PTL DEF Spec, DeletedStaysDeleted
\* However many approvals of one change overlap, and whatever statements are
\* lost, no trail ever has more "applied" than "approved" entries, wherever one
\* stops reading it: a handler writes its second only when the first was
\* acknowledged, and a trail that is deleted between them refuses the second.
THEOREM AppliesArePaid == Spec => []EachApplyIsApproved
<1>1. Init => DeletedInv /\ CreditInv
  BY DeletedInit, CreditInit
<1>2. IInv /\ DeletedInv /\ CreditInv /\ [Next]_vars => DeletedInv' /\ CreditInv'
  BY DeletedStep, CreditStep DEF StepKeepsDeleted
<1>3. CreditInv => EachApplyIsApproved
  BY DEF CreditInv, CreditOK, EachApplyIsApproved
<1> QED BY <1>1, <1>2, <1>3, ServerInvariant, PTL DEF Spec
=============================================================================
