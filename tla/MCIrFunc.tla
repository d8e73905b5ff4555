------------------------------ MODULE MCIrFunc ------------------------------
(***************************************************************************)
(* Bounded instances of IrFunc.                                            *)
(***************************************************************************)
EXTENDS IrFunc, TLC

Symmetry == Permutations(Vars) \union Permutations(Codes)
              \union Permutations(Insns) \union Permutations(Slots)
=============================================================================
