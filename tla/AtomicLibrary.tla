--------------------------- MODULE AtomicLibrary ----------------------------
(***************************************************************************)
(* What BulkInsert promises ("either all modules land or none do"): each   *)
(* call lands its list at most once and in one step, whatever runs.  A     *)
(* name that was there keeps its id, and one that the list has twice gets  *)
(* the later text.                                                         *)
(***************************************************************************)
EXTENDS Naturals, Sequences

CONSTANTS Inserts, Names, Lists, NoModule

VARIABLES library,
          asked,    \* the list each call is given, empty before it begins
          landed    \* the calls whose list landed

libraryVars == <<library, asked, landed>>

Has(list, n) == \E k \in 1..Len(list) : list[k] = n

\* The last position of n in a list that has it.
LastOf(list, n) ==
    CHOOSE k \in 1..Len(list) :
        list[k] = n /\ \A j \in 1..Len(list) : list[j] = n => j <= k

\* The module that list, inserted by t, makes of the module old named n.
Landed(t, list, n, old) == [id |-> IF old = NoModule THEN t ELSE old.id,
                            text |-> <<t, LastOf(list, n)>>]

LibraryInit == /\ library = [n \in Names |-> NoModule]
               /\ asked = [t \in Inserts |-> <<>>] /\ landed = {}

Ask(t, list) ==
    /\ asked[t] = <<>> /\ t \notin landed
    /\ asked' = [asked EXCEPT ![t] = list]
    /\ UNCHANGED <<library, landed>>

\* The list of that call, and all of it.
Land(t) ==
    /\ asked[t] # <<>> /\ t \notin landed
    /\ landed' = landed \union {t}
    /\ library' = [n \in Names |->
                     IF Has(asked[t], n) THEN Landed(t, asked[t], n, library[n])
                                         ELSE library[n]]
    /\ UNCHANGED asked

LibraryNext == \E t \in Inserts : Land(t) \/ \E list \in Lists : Ask(t, list)

LibrarySpec == LibraryInit /\ [][LibraryNext]_libraryVars
=============================================================================
