------------------------------ MODULE MCSpill ------------------------------
(***************************************************************************)
(* Bounded instances of Spill: three variables are defined one after the   *)
(* other, then three instructions read them, two at a time; one of these   *)
(* may define a variable again, as a move does that was a phi.             *)
(***************************************************************************)
EXTENDS Spill

CONSTANTS a, b, c

Two(S) == {u \in SUBSET S : Cardinality(u) <= 2}

AllFunctions ==
  {f \in {<<Op({a}, {}, 1), Op({b}, u2, 2), Op({c}, u3, 3), Op(d4, u4, 4), Op({}, u5, 5), Op({}, u6, 6)>> :
            u2 \in Two({a}), u3 \in Two({a, b}), d4 \in {{}, {a}, {c}}, u4 \in Two(Vars),
            u5 \in Two(Vars), u6 \in {{}, {c}}} :
     \A i \in DOMAIN f : f[i].def \subseteq LiveIn(f, i + 1)}
=============================================================================
