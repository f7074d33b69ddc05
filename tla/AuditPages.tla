----------------------------- MODULE AuditPages -----------------------------
(***************************************************************************)
(* The audit trail read in pages, newest first (AuditLogStore.List, and    *)
(* GetAuditLog's one page), while entries go on being written and the demo *)
(* resets delete what their snapshots show.  An entry takes its timestamp  *)
(* when its INSERT starts and is seen when it commits: entries of          *)
(* different connections commit in any order, and two may carry the same   *)
(* time.                                                                   *)
(***************************************************************************)
EXTENDS Integers, FiniteSets

CONSTANTS Changes,       \* rows of infra_requests
          Entries,       \* audit entries, each a call of AuditLogStore.Create
          ChangeOf,      \* the change an entry refers to, audit_logs.request_id
          Resets,        \* calls of SeedDemoRequests
          DefaultLimit,  \* the limit a caller gets who asks for none (20)
          MaxLimit,      \* bound: the largest limit asked for
          MaxTime        \* bound: the database's clock

ASSUME PagesAssumption ==
    /\ IsFiniteSet(Entries) /\ ChangeOf \in [Entries -> Changes]
    /\ DefaultLimit \in Nat \ {0} /\ MaxLimit \in Nat /\ MaxTime \in Nat \ {0}

VARIABLES
    clock,    \* NOW()
    row,      \* the row of a change: none yet, kept, or gone
    stamp,    \* timestamp of an entry, 0 before its INSERT
    visible,  \* the committed entries
    deleted,  \* those a reset has deleted
    purge,    \* the transaction of each reset
    reader,   \* the caller of List: what it asked for and is to ask next
    shown,    \* how often each entry was shown
    settled,  \* history: the entries visible when the reading began
    late      \* history: commits since then

pagesVars == <<clock, row, stamp, visible, deleted, purge, reader, shown, settled, late>>

Purge == [pc : {"idle", "logs", "rows", "done"},
          seen : SUBSET Entries,    \* the entries its first DELETE found
          rows : SUBSET Changes]    \* the rows its second one found

Phases == {"away", "reading", "finished"}
Reader == [phase : Phases, page : Nat, limit : Nat]

\* Slip: page 0, the zero value of AuditLogFilters, is taken as it is.
PageAsAsked(p) == p

\* filters.Limit and filters.Page: what is not positive takes the default.
Limit(n) == IF n <= 0 THEN DefaultLimit ELSE n
Page(p) == IF p <= 0 THEN 1 ELSE p

\* Slips: the first page is taken for page 0; pages overlap by an entry.
OffsetFromZero(p, n) == Page(p) * Limit(n)
OffsetOverlap(p, n) == (Page(p) - 1) * (Limit(n) - 1)

Offset(p, n) == (Page(p) - 1) * Limit(n)

\* ORDER BY timestamp DESC leaves the order of equal timestamps to the
\* database, anew for each statement.
Newest(S) == \A e \in S, f \in visible \ S : stamp[e] >= stamp[f]

\* LIMIT and OFFSET: skip the newest, show the newest of the rest; fewer than
\* asked for only when there are no more.
Answers(offset, limit) ==
    {P \in SUBSET visible :
        \E S \in SUBSET (visible \ P) :
            /\ Cardinality(S) <= offset /\ (S # visible => Cardinality(S) = offset)
            /\ Cardinality(P) <= limit
            /\ S \union P # visible => Cardinality(P) = limit
            /\ Newest(S) /\ Newest(S \union P)}

PagesInit ==
    /\ clock = 1
    /\ row = [c \in Changes |-> "none"]
    /\ purge = [t \in Resets |-> [pc |-> "idle", seen |-> {}, rows |-> {}]]
    /\ stamp = [e \in Entries |-> 0] /\ visible = {} /\ deleted = {}
    /\ reader = [phase |-> "away", page |-> 0, limit |-> 0]
    /\ shown = [e \in Entries |-> 0] /\ settled = {} /\ late = 0

Tick == /\ clock < MaxTime
        /\ clock' = clock + 1
        /\ UNCHANGED <<row, stamp, visible, deleted, purge, reader, shown, settled, late>>

InFlight == {e \in Entries : stamp[e] > 0} \ (visible \union deleted)

\* InfraRequestStore.Create, or the row of a reset's INSERT.
NewRow(c) == /\ row[c] = "none"
             /\ row' = [row EXCEPT ![c] = "kept"]
             /\ UNCHANGED <<clock, stamp, visible, deleted, purge, reader, shown, settled,
                            late>>

\* AuditLogStore.Create, in its two moments: callers know the row's id, and the
\* foreign key refuses the entry if the row is gone by then.
Insert(e) == /\ stamp[e] = 0 /\ row[ChangeOf[e]] = "kept"
             /\ stamp' = [stamp EXCEPT ![e] = clock]
             /\ UNCHANGED <<clock, row, visible, deleted, purge, reader, shown, settled,
                            late>>

Commit(e) == /\ e \in InFlight /\ row[ChangeOf[e]] = "kept"
             /\ visible' = visible \union {e}
             /\ late' = IF reader.phase = "reading" THEN late + 1 ELSE late
             /\ UNCHANGED <<clock, row, stamp, deleted, purge, reader, shown, settled>>

\* DELETE FROM audit_logs: what is committed when it starts.
DeleteLogs(t) ==
    /\ purge[t].pc = "idle"
    /\ purge' = [purge EXCEPT ![t].pc = "logs", ![t].seen = visible]
    /\ UNCHANGED <<clock, row, stamp, visible, deleted, reader, shown, settled, late>>

\* DELETE FROM infra_requests, in the same way, but later.
DeleteRows(t) ==
    /\ purge[t].pc = "logs"
    /\ purge' = [purge EXCEPT ![t].pc = "rows",
                              ![t].rows = {c \in Changes : row[c] = "kept"}]
    /\ UNCHANGED <<clock, row, stamp, visible, deleted, reader, shown, settled, late>>

\* The foreign key lets no row go with an entry left, so what both find goes
\* at once; changes made since then keep their entries.  (A reset that fails
\* never gets here; what two overlapping ones found goes with the first.)
CommitReset(t) ==
    /\ purge[t].pc = "rows"
    /\ \A e \in visible : ChangeOf[e] \in purge[t].rows => e \in purge[t].seen
    /\ visible' = visible \ purge[t].seen
    /\ deleted' = deleted \union (purge[t].seen \intersect visible)
    /\ row' = [c \in Changes |-> IF c \in purge[t].rows THEN "gone" ELSE row[c]]
    /\ purge' = [purge EXCEPT ![t].pc = "done"]
    /\ UNCHANGED <<clock, stamp, reader, shown, settled, late>>

Begin(p, n) == /\ reader.phase = "away"
               /\ reader' = [phase |-> "reading", page |-> p, limit |-> n]
               /\ settled' = visible
               /\ UNCHANGED <<clock, row, stamp, visible, deleted, purge, shown, late>>

\* One call of List.  Its caller goes on to the next page until one is short.
List ==
    /\ reader.phase = "reading"
    /\ \E P \in Answers(Offset(reader.page, reader.limit), Limit(reader.limit)) :
         /\ shown' = [e \in Entries |-> IF e \in P THEN shown[e] + 1 ELSE shown[e]]
         /\ reader' = IF Cardinality(P) < Limit(reader.limit)
                        THEN [reader EXCEPT !.phase = "finished"]
                        ELSE [reader EXCEPT !.page = Page(@) + 1]
    /\ UNCHANGED <<clock, row, stamp, visible, deleted, purge, settled, late>>

PagesNext == \/ Tick \/ List
             \/ \E c \in Changes : NewRow(c)
             \/ \E t \in Resets : DeleteLogs(t) \/ DeleteRows(t) \/ CommitReset(t)
             \/ \E e \in Entries : Insert(e) \/ Commit(e)
             \/ \E p \in 0..1, n \in 0..MaxLimit : Begin(p, n)

PagesSpec == PagesInit /\ [][PagesNext]_pagesVars
-----------------------------------------------------------------------------
\* The offset List computes is one that PostgreSQL accepts.
PagesTypeOK ==
    /\ clock \in 1..MaxTime /\ stamp \in [Entries -> 0..MaxTime]
    /\ row \in [Changes -> {"none", "kept", "gone"}] /\ purge \in [Resets -> Purge]
    /\ visible \subseteq Entries /\ deleted \subseteq Entries
    /\ settled \subseteq Entries /\ late \in Nat
    /\ reader \in Reader /\ shown \in [Entries -> Nat]
    /\ reader.phase = "reading" => Offset(reader.page, reader.limit) \in Nat

OwnTime(e) == \A f \in Entries \ {e} : stamp[f] # stamp[e]

\* However entries arrive between its pages, one whose commit may even come
\* with an older timestamp than what was shown, and whatever resets take away
\* under it, a reading that is over has shown every entry that was there when
\* it began, if the entry was not deleted and shares its time with no other
\* (List's LIMIT and OFFSET).
NothingSettledIsMissed ==
    reader.phase = "finished" =>
        \A e \in settled \ deleted : OwnTime(e) => shown[e] > 0

\* An entry is shown again only because another arrived meanwhile, and each
\* arrival repeats at most one, where no two entries carry the same time.
RepeatsAreArrivals ==
    (\A e \in Entries : stamp[e] > 0 => OwnTime(e)) =>
        Cardinality(UNION {{e} \X (2..shown[e]) : e \in Entries}) <= late
=============================================================================
