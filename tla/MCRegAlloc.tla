----------------------------- MODULE MCRegAlloc -----------------------------
(***************************************************************************)
(* Bounded instances of RegAlloc.                                          *)
(***************************************************************************)
EXTENDS RegAlloc, TLC

Symmetry == Permutations(Vars)
=============================================================================
