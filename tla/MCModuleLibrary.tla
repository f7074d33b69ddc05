-------------------------- MODULE MCModuleLibrary ---------------------------
(***************************************************************************)
(* Every list of up to two of two names: the same order, opposite orders,  *)
(* one name twice, none at all.                                            *)
(***************************************************************************)
EXTENDS ModuleLibrary, SequencesExt

MCLists == BoundedSeq(Names, 2)
=============================================================================
