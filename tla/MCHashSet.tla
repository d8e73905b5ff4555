----------------------------- MODULE MCHashSet ------------------------------
(***************************************************************************)
(* Bounded instances of HashSet: pointers whose low bits differ, and two   *)
(* with the same hash.                                                     *)
(***************************************************************************)
EXTENDS HashSet, TLC

CONSTANTS v1, v2, v3, v4, v5

FiveValues == {v1, v2, v3, v4, v5}
Hashes == v1 :> 1 @@ v2 :> 2 @@ v3 :> 3 @@ v4 :> 4 @@ v5 :> 4
=============================================================================
