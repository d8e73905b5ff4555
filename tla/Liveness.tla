------------------------------ MODULE Liveness ------------------------------
(***************************************************************************)
(* ra_liveness of compiler/common/back/regalloc.c: which variables are     *)
(* live where, by a list of instructions still to update, and which of     *)
(* them must therefore not share a register.                               *)
(*                                                                         *)
(* The function is the list of its instructions in the order of its        *)
(* blocks; the target of a jump is the first instruction of a block.  When *)
(* codegen gets here cg_isel has turned every instruction into a machine   *)
(* instruction, jumps included; `selected' says so.                        *)
(***************************************************************************)
EXTENDS Integers, Sequences, FiniteSets

CONSTANTS
  Vars,      \* the variables of the function
  NumInsns,  \* how many instructions it has
  MaxUses    \* how many variables one of them reads

ASSUME LivenessAssumption == IsFiniteSet(Vars) /\ NumInsns \in Nat \ {0} /\ MaxUses \in Nat

Nodes == 1 .. NumInsns

VARIABLES
  insns,     \* the instructions: what each defines, uses and does next
  selected,  \* whether instruction selection has been done
  in, out,   \* lt_node_t.in and .out
  dirty,     \* the array of nodes that may need to be updated
  flag,      \* lt_node_t.dirty
  links      \* ra_node_t.links, once the update is over

liveVars == <<insns, selected, in, out, dirty, flag, links>>

-----------------------------------------------------------------------------
\* A jump defines and uses nothing, a branch or return defines nothing.
Uses == {S \in SUBSET Vars : Cardinality(S) <= MaxUses}
InsnType ==
  [type : {"op"}, def : {{}} \union {{v} : v \in Vars}, use : Uses, target : {0}]
    \union [type : {"jump"}, def : {{}}, use : {{}}, target : Nodes]
    \union [type : {"branch"}, def : {{}}, use : Uses, target : Nodes]
    \union [type : {"return"}, def : {{}}, use : Uses, target : {0}]

\* The next instruction in order, even behind a return; a jump is seen for what it
\* is as long as it is not a machine instruction.
ir_next_after(i) ==
  IF insns[i].type = "jump" /\ ~ selected THEN {insns[i].target}
  ELSE IF i < NumInsns THEN {i + 1} ELSE {}

\* Mutant: the target of a branch is forgotten.
ir_branch_target_none(i) == {}

ir_branch_target(i) ==
  IF insns[i].type = "branch" /\ ~ selected THEN {insns[i].target} ELSE {}

Succ(i) == ir_next_after(i) \union ir_branch_target(i)
Pred(i) == {p \in Nodes : i \in Succ(p)}

\* The preds of a node, as lt_node_t.pred lists them.
SortedPreds(S) ==
  CHOOSE q \in [1 .. Cardinality(S) -> S] :
    \A j, k \in 1 .. Cardinality(S) : j < k => q[j] < q[k]

\* Mutant: what a node defines stays live in front of it.
NewInKeepsDef(i) == in[i] \union out[i] \union insns[i].use

\* What is live in front of node i.
NewIn(i) == in[i] \union (out[i] \ insns[i].def) \union insns[i].use

\* Mutant: a predecessor is listed again though it is listed already.
PushedAgain(i, now, isDirty) ==
  {p \in Pred(i) : ~ now \subseteq out[p]}

\* The predecessors that become dirty when `now' is live in front of node i.
Pushed(i, now, isDirty) ==
  {p \in Pred(i) : ~ now \subseteq out[p] /\ ~ isDirty[p]}

\* Mutant: a node stays dirty as long as anything is live in front of it.
ChangedIfLive(i, now) == now # {}

\* Whether the node is dirty again when `now' is live in front of it.
Changed(i, now) == now # in[i]

\* The first dirty node is updated, with its predecessors.
Update ==
  LET i == Head(dirty)
      now == NewIn(i)
      own == [flag EXCEPT ![i] = Changed(i, now)]
      pushed == Pushed(i, now, own)
      flags == [k \in Nodes |-> own[k] \/ k \in pushed]
  IN  /\ dirty # <<>>
      /\ in' = [in EXCEPT ![i] = now]
      /\ out' = [k \in Nodes |-> IF k \in Pred(i) THEN out[k] \union now ELSE out[k]]
      /\ flag' = flags
      /\ dirty' = Tail(dirty) \o SortedPreds(pushed) \o (IF flags[i] THEN <<i>> ELSE <<>>)
      /\ UNCHANGED <<insns, selected, links>>

\* link_vars is called for the two sets of every node.
LinkSets(i) == {in[i], out[i]}

Linked(u, v) == u # v /\ \E i \in Nodes : \E live \in LinkSets(i) : {u, v} \subseteq live

Link ==
  /\ dirty = <<>> /\ links = <<>>
  /\ links' = [u \in Vars |-> {v \in Vars : Linked(u, v)}]
  /\ UNCHANGED <<insns, selected, in, out, dirty, flag>>

\* Where the program really goes, before and after instruction selection.
Flow ==
  [i \in Nodes |->
     CASE insns[i].type = "op" -> {i + 1}
       [] insns[i].type = "jump" -> {insns[i].target}
       [] insns[i].type = "branch" -> {i + 1, insns[i].target}
       [] insns[i].type = "return" -> {}]

\* Where the links of the nodes lead.
NodeLinks == [i \in Nodes |-> Succ(i)]

\* Along the edges of next, the nodes that lead to one in seed over nodes in pass.
LeadingTo(seed, pass, next) ==
  LET L[k \in 0 .. NumInsns] ==
        IF k = 0 THEN seed ELSE L[k - 1] \union {i \in pass : next[i] \intersect L[k - 1] # {}}
  IN  L[NumInsns]

\* Along the edges of next, the nodes from which a use of v is reached without
\* passing a definition of it.
LiveAt(v, next) ==
  LeadingTo({i \in Nodes : v \in insns[i].use}, {i \in Nodes : v \notin insns[i].def}, next)

\* The instructions that are reached from those in S.
ReachedFrom(S) ==
  LET R[k \in 0 .. NumInsns] == IF k = 0 THEN S ELSE R[k - 1] \union UNION {Flow[i] : i \in R[k - 1]}
  IN  R[NumInsns]

\* What arrives here: a function that ends with a jump or a return, whose dead code
\* is gone, and whose variables are all defined before they are used.
Init ==
  /\ \E first \in [1 .. NumInsns - 1 -> InsnType] :
       \E last \in {x \in InsnType : x.type \in {"jump", "return"}} : insns = Append(first, last)
  /\ insns[1].use = {} /\ ReachedFrom({1}) = Nodes
  /\ \A v \in Vars : 1 \notin LiveAt(v, Flow)
  /\ selected \in BOOLEAN
  /\ in = [i \in Nodes |-> {}] /\ out = [i \in Nodes |-> {}]
  /\ dirty = [i \in Nodes |-> i] /\ flag = [i \in Nodes |-> TRUE]
  /\ links = <<>>

Next == Update \/ Link

Spec == Init /\ [][Next]_liveVars

\* The loop runs until nothing is dirty.
FairSpec == Spec /\ WF_liveVars(Next)

-----------------------------------------------------------------------------
TypeOK ==
  /\ insns \in [Nodes -> InsnType] /\ selected \in BOOLEAN
  /\ in \in [Nodes -> SUBSET Vars] /\ out \in [Nodes -> SUBSET Vars]
  /\ dirty \in Seq(Nodes) /\ flag \in [Nodes -> BOOLEAN]
  /\ links # <<>> =>
       /\ links \in [Vars -> SUBSET Vars]
       /\ \A u, v \in Vars : v \in links[u] => u # v /\ u \in links[v]

\* The array of dirty nodes is as long as the function: no node may be in it twice.
DirtyFits ==
  /\ Len(dirty) <= NumInsns
  /\ \A j, k \in 1 .. Len(dirty) : dirty[j] = dirty[k] => j = k
  /\ \A i \in Nodes : flag[i] <=> \E k \in 1 .. Len(dirty) : dirty[k] = i

\* The list of dirty nodes fits the array that ra_liveness has for it (regalloc.c:209),
\* and variables are linked both ways.
WorklistOK == TypeOK /\ DirtyFits

\* When the list is empty, exactly what is live along the links of the nodes has
\* been found, whatever the order of the updates.
LivenessExact ==
  dirty = <<>> => \A v \in Vars : {i \in Nodes : v \in in[i]} = LiveAt(v, NodeLinks)

\* As long as the jumps are known, variables that are live at the same time are
\* linked, and keep their registers apart.
LinkedIfUnselected ==
  links # <<>> /\ ~ selected => \A u, v \in Vars :
    u # v /\ LiveAt(u, Flow) \intersect LiveAt(v, Flow) # {} => v \in links[u]

\* The loop comes to an end.
UpdateEnds == <>(dirty = <<>>)

\* A node has "Links to `ra_node_t` nodes that are alive at the same time."  It
\* fails after instruction selection: no value is seen to live across a jump.
LinkedIfLive ==
  links # <<>> => \A u, v \in Vars :
    u # v /\ LiveAt(u, Flow) \intersect LiveAt(v, Flow) # {} => v \in links[u]
=============================================================================
