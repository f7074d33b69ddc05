----------------------------- MODULE MCReadApi -----------------------------
(***************************************************************************)
(* The way of a request through the router, and the audit trail read page  *)
(* by page, side by side for TLC: a behaviour is one of the two, and       *)
(* leaves the other's variables alone.                                     *)
(***************************************************************************)
EXTENDS AuditPages, HttpLayers, TLC

VARIABLE part   \* which of the two this behaviour is about

CONSTANT Calls   \* the entries of one change

MCEntries == Changes \X Calls
MCChangeOf == [e \in MCEntries |-> e[1]]
MCSymmetry == Permutations(Changes) \union Permutations(Calls)

MCInit == /\ part \in {"pages", "http"}
          /\ PagesInit
          /\ HttpInit
          /\ part = "pages" => req.route = "none" /\ req.options /\ req.key

MCNext == \/ part = "pages" /\ PagesNext /\ UNCHANGED <<part, httpVars>>
          \/ part = "http" /\ HttpNext /\ UNCHANGED <<part, pagesVars>>

MCSpec == MCInit /\ [][MCNext]_<<part, pagesVars, httpVars>>
=============================================================================
