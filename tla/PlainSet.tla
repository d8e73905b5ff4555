------------------------------ MODULE PlainSet ------------------------------
(***************************************************************************)
(* What util/set.h promises: a set of values.                              *)
(***************************************************************************)
CONSTANT Values

VARIABLE elems    \* the values for which set_contains answers yes

Init == elems = {}

Add(v) == elems' = elems \union {v}
Remove(v) == elems' = elems \ {v}
Retain(other) == elems' = elems \intersect other
Clear == elems' = {}

Next ==
  \/ \E v \in Values : Add(v) \/ Remove(v)
  \/ \E other \in SUBSET Values : Retain(other)
  \/ Clear

Spec == Init /\ [][Next]_elems
=============================================================================
