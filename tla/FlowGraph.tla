----------------------------- MODULE FlowGraph ------------------------------
(***************************************************************************)
(* Control flow graphs, and what dominance means in them.  These are the   *)
(* reference definitions, by reachability, that the algorithms of          *)
(* compiler/common/ir are compared with.                                   *)
(***************************************************************************)
EXTENDS Integers, FiniteSets

CONSTANTS
  Codes,     \* the blocks of the function
  Entry,     \* the first block of code_list
  MaxSucc    \* how many blocks one block can jump to

ASSUME FlowGraphAssumption ==
  /\ IsFiniteSet(Codes) /\ Entry \in Codes /\ MaxSucc \in Nat

N == Cardinality(Codes)

Predecessors(g, c) == {p \in Codes : c \in g[p]}

\* The blocks that are reached from those in S by any number of jumps.
Reached(g, S) ==
  LET R[k \in 0 .. N] ==
        IF k = 0 THEN S ELSE R[k - 1] \union UNION {g[c] : c \in R[k - 1]}
  IN  R[N]

\* The blocks that the entry reaches without passing through d.
ReachedWithout(g, d) ==
  IF d = Entry THEN {}
  ELSE Reached([c \in Codes |-> IF c = d THEN {} ELSE g[c] \ {d}], {Entry})

\* Every block is reachable, which opt_dead_code sees to, and none jumps to the
\* entry, which has no predecessor in what the front end builds.
FlowGraphs ==
  {g \in [Codes -> {S \in SUBSET (Codes \ {Entry}) : Cardinality(S) <= MaxSucc}] :
     Reached(g, {Entry}) = Codes}

OnCycle(g, c) == c \in Reached(g, g[c])

Dominates(g, d, c) == c \notin ReachedWithout(g, d)

StrictDominators(g, c) == {d \in Codes \ {c} : Dominates(g, d, c)}

Idom(g, c) ==
  CHOOSE d \in StrictDominators(g, c) : \A e \in StrictDominators(g, c) : Dominates(g, e, d)

\* Where the dominance of d ends.
DomFrontier(g, d) ==
  {c \in Codes : /\ \E p \in Predecessors(g, c) : Dominates(g, d, p)
                 /\ d = c \/ ~ Dominates(g, d, c)}
=============================================================================
