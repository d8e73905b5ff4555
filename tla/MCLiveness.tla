----------------------------- MODULE MCLiveness -----------------------------
(***************************************************************************)
(* Bounded instances of Liveness.                                          *)
(***************************************************************************)
EXTENDS Liveness, TLC

Symmetry == Permutations(Vars)
=============================================================================
