---------------------------- MODULE MCDominance -----------------------------
(***************************************************************************)
(* Bounded instances of Dominance.                                         *)
(***************************************************************************)
EXTENDS Dominance, TLC

Symmetry == Permutations(Codes \ {Entry})
=============================================================================
