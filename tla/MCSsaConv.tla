----------------------------- MODULE MCSsaConv ------------------------------
(***************************************************************************)
(* Bounded instances of SsaConv.                                           *)
(***************************************************************************)
EXTENDS SsaConv, TLC

Symmetry == Permutations(Codes \ {Entry})
=============================================================================
