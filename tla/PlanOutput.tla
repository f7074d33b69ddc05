----------------------------- MODULE PlanOutput -----------------------------
(***************************************************************************)
(* parsePlanJSON of internal/tools/plan_executor.go: what RunTerraformPlan *)
(* makes of the lines `terraform plan -json` printed, read one at a time   *)
(* and, within a line, one action word at a time.                          *)
(***************************************************************************)
EXTENDS Integers, Sequences, FiniteSets

CONSTANTS Lines,    \* the lines the output may hold
          MaxLines  \* bound: lines of one output

\* A line as the scanner and json.Unmarshal tell it apart: empty; text, or
\* JSON of another shape (an object where planLine has a list); longer than
\* the scanner's buffer; or an object with the fields of planLine, where a
\* missing "change" and one without actions are the same.
ObjectLine == [kind : {"object"}, type : STRING,
               changes : Seq(Seq(STRING)), change : Seq(STRING)]
ASSUME LinesAssumption ==
    /\ \A x \in Lines : x.kind \in {"blank", "odd", "long"} \/ x \in ObjectLine
    /\ MaxLines \in Nat

VARIABLES
    read,     \* the lines the scanner took so far
    parsing,  \* "scan", "line" within one, then "done" or "error" (scanner.Err())
    at,       \* the next word to look at: the list of actions, the place in it
    count,    \* ToAdd, ToChange and ToDestroy, under the actions they count
    kept      \* PlanJSON, the position of the line kept for each type

planVars == <<read, parsing, at, count, kept>>

Counted == {"create", "update", "delete"}
NoCount == [a \in Counted |-> 0]

\* The lists of actions the body walks: one for each resource of "changes",
\* then that of the top-level "change".
Lists(x) == Append(x.changes, x.change)

Line == read[Len(read)]
List == Lists(Line)[at.list]

\* Slip: a replacement, ["delete", "create"], counts for one change only.
TickFirst(c, word) == IF at.word = 1 /\ word \in Counted
                        THEN [c EXCEPT ![word] = @ + 1] ELSE c

\* Slip: what is destroyed is taken off what is added.
TickNet(c, word) == IF word = "delete" THEN [c EXCEPT !["create"] = @ - 1]
                    ELSE IF word \in Counted THEN [c EXCEPT ![word] = @ + 1] ELSE c

\* The switch; any other action ("no-op", "read") counts for nothing.
Tick(c, word) == IF word \in Counted THEN [c EXCEPT ![word] = @ + 1] ELSE c

\* result.PlanJSON[pl.Type] = raw: a later line of a type takes the place of
\* the one before.
Keep(x, n) ==
    [t \in DOMAIN kept \union {x.type} |-> IF t = x.type THEN n ELSE kept[t]]

PlanInit == /\ read = <<>> /\ parsing = "scan" /\ at = [list |-> 1, word |-> 1]
            /\ count = NoCount /\ kept = <<>>

Scan(x) == /\ parsing = "scan" /\ Len(read) < MaxLines
           /\ read' = Append(read, x)

\* What is empty, and what json.Unmarshal refuses, is skipped.
SkipLine(x) ==
    /\ Scan(x) /\ x.kind \in {"blank", "odd"}
    /\ UNCHANGED <<parsing, at, count, kept>>

TakeLine(x) ==
    /\ Scan(x) /\ x.kind = "object"
    /\ kept' = Keep(x, Len(read) + 1)
    /\ parsing' = "line" /\ at' = [list |-> 1, word |-> 1]
    /\ UNCHANGED count

\* bufio.Scanner stops at a line beyond 64 KB, whatever it says: the result
\* is dropped and the loop takes the plan for a failed one.
ScanLong(x) ==
    /\ Scan(x) /\ x.kind = "long"
    /\ parsing' = "error" /\ count' = NoCount /\ kept' = <<>>
    /\ UNCHANGED at

CountWord ==
    /\ parsing = "line" /\ at.list <= Len(Lists(Line)) /\ at.word <= Len(List)
    /\ count' = Tick(count, List[at.word])
    /\ at' = [at EXCEPT !.word = @ + 1]
    /\ UNCHANGED <<read, parsing, kept>>

NextList ==
    /\ parsing = "line" /\ at.list <= Len(Lists(Line)) /\ at.word > Len(List)
    /\ at' = [list |-> at.list + 1, word |-> 1]
    /\ UNCHANGED <<read, parsing, count, kept>>

EndOfLine ==
    /\ parsing = "line" /\ at.list > Len(Lists(Line))
    /\ parsing' = "scan"
    /\ UNCHANGED <<read, at, count, kept>>

EndOfOutput ==
    /\ parsing = "scan"
    /\ parsing' = "done"
    /\ UNCHANGED <<read, at, count, kept>>

PlanNext == \/ EndOfOutput \/ CountWord \/ NextList \/ EndOfLine
            \/ \E x \in Lines : SkipLine(x) \/ TakeLine(x) \/ ScanLong(x)

PlanSpec == PlanInit /\ [][PlanNext]_planVars
-----------------------------------------------------------------------------
PlanTypeOK == /\ read \in Seq(Lines) /\ Len(read) <= MaxLines
              /\ parsing \in {"scan", "line", "done", "error"}
              /\ parsing = "line" => read # <<>>
              /\ at \in [list : Nat \ {0}, word : Nat \ {0}]
              /\ count \in [Counted -> Nat]
              /\ \A t \in DOMAIN kept : kept[t] \in 1..MaxLines

Understood == {i \in DOMAIN read : read[i].kind = "object"}

\* Where the output mentions an action: the line, the list, the place in it.
InLine(i, action) ==
    UNION {{<<i, k>>} \X {j \in DOMAIN Lists(read[i])[k] : Lists(read[i])[k][j] = action} :
             k \in DOMAIN Lists(read[i])}
Mentions(action) == UNION {InLine(i, action) : i \in Understood}

\* Whatever lines surround it, every create, update and delete of the output
\* is counted once and under its own count (a replacement under two of them),
\* and an output whose scan ended in an error counts for nothing
\* (parsePlanJSON's ToAdd, ToChange and ToDestroy).
CountsEveryAction ==
    parsing # "line" =>
        \A a \in Counted :
            count[a] = IF parsing = "error" THEN 0 ELSE Cardinality(Mentions(a))
=============================================================================
