------------------------------ MODULE RegAlloc ------------------------------
(***************************************************************************)
(* The colouring of compiler/common/back/regalloc.c: nodes are taken out   *)
(* of the interference graph one by one, put back in the opposite order,   *)
(* and given a register that none of their neighbours has.                 *)
(*                                                                         *)
(* The graph is any that ra_liveness can deliver: variables that are live  *)
(* at the same time are linked both ways, a node of a fixed register has   *)
(* links to the variables that live where it is used, and they have none   *)
(* to it.  All variables are of one class of registers.                    *)
(***************************************************************************)
EXTENDS Integers, Sequences, FiniteSets

CONSTANTS
  Vars,        \* the variables that are used
  NumRegs,     \* how many registers can hold them, profile->gpr_count
  CalleeSave   \* the registers a callee must save, chosen if there is no other

ASSUME RegAllocAssumption ==
  /\ IsFiniteSet(Vars) /\ NumRegs \in Nat \ {0}
  /\ CalleeSave \subseteq 1 .. NumRegs
  /\ Vars \intersect (1 .. NumRegs) = {}

Regs == 1 .. NumRegs

\* A node is a variable or a fixed register, called by its number.
Nodes == Vars \union Regs

REGNO_NONE == 0

VARIABLES
  lives,       \* which nodes interfere: what ra_liveness has found
  graph,       \* ra_nodes_t.nodes
  links,       \* ra_node_t.links
  regno,       \* ra_node_t.regno
  stack,       \* the nodes taken out
  pc,          \* "unconstrained", "constrained", "rest", "color" or "done"
  free,        \* the variables that were taken out as unconstrained
  must_spill

raVars == <<lives, graph, links, regno, stack, pc, free, must_spill>>

Items(s) == {s[i] : i \in 1 .. Len(s)}

\* The fixed registers that occur; their nodes have a colour from the start.
Fixed == {n \in Regs : regno[n] # REGNO_NONE}

-----------------------------------------------------------------------------
\* The node leaves the graph and the links of its neighbours, and keeps its own.
pop_node(n) ==
  /\ graph' = graph \ {n}
  /\ links' = [m \in Nodes |-> IF m \in links[n] THEN links[m] \ {n} ELSE links[m]]
  /\ stack' = Append(stack, n)
  /\ UNCHANGED <<lives, regno, must_spill>>

\* Mutant: the registers of fixed nodes only are looked at.
TakenByFixed(n, L) == {regno[m] : m \in L[n] \intersect Regs}

\* The registers of the neighbours of n.
Taken(n, L) == {regno[m] : m \in L[n]}

\* The first register that is free and need not be saved, else the last free one.
Choice(available) ==
  IF available \ CalleeSave # {}
    THEN CHOOSE r \in available \ CalleeSave : \A q \in available \ CalleeSave : r <= q
    ELSE IF available # {} THEN CHOOSE r \in available : \A q \in available : q <= r
    ELSE REGNO_NONE

\* What choose_one_reg leaves in the regno of node n.
choose_one_reg(n, L) ==
  IF regno[n] # REGNO_NONE THEN regno[n] ELSE Choice(Regs \ Taken(n, L))

\* Mutant: as many variables are enough as there are registers.
FewLinksOrEqual(v) == Cardinality(links[v]) <= NumRegs

\* A variable that can be coloured whatever its neighbours get.
FewLinks(v) == Cardinality(links[v]) < NumRegs

\* No variable is left that pop_node can take as unconstrained.
NoneUnconstrained == \A v \in graph \intersect Vars : ~ FewLinks(v)

Unconstrained(v) ==
  /\ pc = "unconstrained"
  /\ v \in graph /\ FewLinks(v)
  /\ pop_node(v)
  /\ free' = free \union {v}
  /\ UNCHANGED pc

\* The loop that is to pop the constrained variables pops the fixed registers.
Constrained(n) ==
  /\ pc \in {"unconstrained", "constrained"}
  /\ pc = "unconstrained" => NoneUnconstrained
  /\ n \in graph /\ regno[n] # REGNO_NONE
  /\ pop_node(n)
  /\ pc' = "constrained"
  /\ UNCHANGED free

\* Whatever is left is popped last, and comes back first.
Rest(n) ==
  /\ pc \in {"unconstrained", "constrained", "rest"}
  /\ pc = "unconstrained" => NoneUnconstrained
  /\ graph \intersect Fixed = {}
  /\ n \in graph
  /\ pop_node(n)
  /\ pc' = "rest"
  /\ UNCHANGED free

\* Mutant: the nodes come back in the order in which they left.
ColorInPopOrder ==
  LET n == Head(stack)
      L == [m \in Nodes |-> IF m \in links[n] THEN links[m] \union {n} ELSE links[m]]
  IN  /\ pc = "color" \/ graph = {}
      /\ stack # <<>>
      /\ pc' = "color"
      /\ stack' = Tail(stack)
      /\ graph' = graph \union {n}
      /\ links' = L
      /\ regno' = [regno EXCEPT ![n] = choose_one_reg(n, L)]
      /\ must_spill' = (must_spill \/ regno'[n] = REGNO_NONE)
      /\ UNCHANGED <<lives, free>>

\* push_node: the node returns to the links of its neighbours; then it gets a
\* register, unless it has one, or there is none left and something must spill.
Color ==
  LET n == stack[Len(stack)]
      L == [m \in Nodes |-> IF m \in links[n] THEN links[m] \union {n} ELSE links[m]]
  IN  /\ pc = "color" \/ graph = {}
      /\ stack # <<>>
      /\ pc' = "color"
      /\ stack' = SubSeq(stack, 1, Len(stack) - 1)
      /\ graph' = graph \union {n}
      /\ links' = L
      /\ regno' = [regno EXCEPT ![n] = choose_one_reg(n, L)]
      /\ must_spill' = (must_spill \/ regno'[n] = REGNO_NONE)
      /\ UNCHANGED <<lives, free>>

Done ==
  /\ pc # "done" /\ stack = <<>>
  /\ pc = "color" \/ graph = {}
  /\ pc' = "done"
  /\ UNCHANGED <<lives, graph, links, regno, stack, free, must_spill>>

\* The graph that ra_liveness returns: link_vars links variables both ways,
\* link_regs links only the node of the register to the variables.
Init ==
  /\ \E meet \in SUBSET {e \in SUBSET Vars : Cardinality(e) = 2}, fixed \in SUBSET Regs :
       \E across \in [fixed -> SUBSET Vars] :
         /\ lives = [n \in Nodes |-> IF n \in Vars THEN {v \in Vars \ {n} : {n, v} \in meet}
                                   ELSE IF n \in fixed THEN across[n] ELSE {}]
         /\ graph = Vars \union fixed
         /\ regno = [n \in Nodes |-> IF n \in fixed THEN n ELSE REGNO_NONE]
  /\ links = lives
  /\ stack = <<>> /\ pc = "unconstrained" /\ free = {} /\ must_spill = FALSE

Next ==
  \/ \E v \in Vars : Unconstrained(v)
  \/ \E n \in Nodes : Constrained(n) \/ Rest(n)
  \/ Color \/ Done

Spec == Init /\ [][Next]_raVars

-----------------------------------------------------------------------------
\* Each node is in the graph or on the stack, once; no variable in the graph is
\* linked to a node that has left it; at the end every link is back.
TypeOK ==
  /\ lives \in [Nodes -> SUBSET Vars] /\ links \in [Nodes -> SUBSET Nodes]
  /\ regno \in [Nodes -> Regs \union {REGNO_NONE}]
  /\ pc \in {"unconstrained", "constrained", "rest", "color", "done"}
  /\ free \subseteq Vars /\ must_spill \in BOOLEAN
  /\ graph \intersect Items(stack) = {} /\ graph \union Items(stack) = Vars \union Fixed
  /\ Len(stack) = Cardinality(Items(stack))
  /\ \A v \in graph \intersect Vars : links[v] \intersect Items(stack) = {}
  /\ pc = "done" => \A n \in Vars \union Fixed : lives[n] \subseteq links[n]

\* Two variables that live at the same time never share a register, although each
\* is compared only with those neighbours that are back in the graph.
VarsApart ==
  \A u, v \in Vars : v \in lives[u] /\ regno[u] # REGNO_NONE => regno[u] # regno[v]

\* A variable that was taken out as unconstrained keeps its promise where no
\* register is fixed: it is not the one that makes the function spill.
UnconstrainedColored ==
  pc = "done" /\ Fixed = {} => \A v \in free : regno[v] # REGNO_NONE

\* A fixed register is kept apart from the variables that live across it and were
\* taken out as unconstrained: these are coloured after it is back.
FixedApartIfFree ==
  \A n \in Fixed : \A v \in lives[n] \intersect free : regno[v] # regno[n]

\* Fixed registers "are popped last; no possible color conflict" (regalloc).  A
\* variable with too many neighbours is popped after them and coloured before.
FixedApart ==
  pc = "done" /\ ~ must_spill => \A n \in Fixed : \A v \in lives[n] : regno[v] # regno[n]
=============================================================================
