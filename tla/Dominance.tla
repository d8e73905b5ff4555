----------------------------- MODULE Dominance ------------------------------
(***************************************************************************)
(* compute_dominance of compiler/common/ir/ir.c: the dominator tree and    *)
(* the dominance frontiers of the blocks of a function, by the algorithm   *)
(* of Lengauer and Tarjan, on which the conversion to SSA form rests.      *)
(*                                                                         *)
(* The control flow graph is any graph whose blocks are all reachable,     *)
(* which opt_dead_code sees to, with at most MaxSucc jumps in a block and  *)
(* none to the first block.  Nodes are numbered as the code does, from 0   *)
(* in the order of the depth-first search.  The successors of a block, its *)
(* predecessors and the members of a bucket are sets of a hash table and   *)
(* are visited in any order.                                               *)
(***************************************************************************)
EXTENDS FlowGraph, Sequences

VARIABLES
  succ,       \* ir_code_t.succ
  pc,         \* the loop that runs: "dfs", "semi", "idom", "frontier", "done", or
              \* "off_end" once memory in front of the array of nodes is used
  calls,      \* the calls of dom_node_dfs that have not returned
  dfs_index,  \* ir_code_t.dfs_index, -1 as long as it is not visited
  parent, ancestor, semi, idom, best, bucket, frontier,    \* dom_node_t
  w,          \* the loop variable
  preds,      \* the predecessors of node w still to visit
  members     \* the nodes in the bucket of w's parent still to visit

graph == <<succ, dfs_index, parent>>
forest == <<ancestor, best>>
work == <<w, preds, members>>
domVars == <<graph, forest, semi, idom, bucket, frontier, pc, calls, work>>

Nodes == 0 .. N - 1
NoNode == -1          \* (size_t) -1

pred(c) == Predecessors(succ, c)
visited == {c \in Codes : dfs_index[c] # NoNode}
CodeAt(i) == CHOOSE c \in Codes : dfs_index[c] = i
Index(C) == {dfs_index[c] : c \in C}

-----------------------------------------------------------------------------
\* dom_node_dfs visits block c, as a child of node p.
Visit(c, p) ==
  /\ dfs_index' = [dfs_index EXCEPT ![c] = Cardinality(visited)]
  /\ parent' = [parent EXCEPT ![Cardinality(visited)] = p]
  /\ calls' = Append(calls, c)
  /\ UNCHANGED <<succ, forest, semi, idom, bucket, frontier, pc, work>>

\* The block on top of the calls visits the next of its successors, or returns.
dom_node_dfs ==
  LET top == calls[Len(calls)]
  IN  /\ pc = "dfs" /\ calls # <<>>
      /\ \/ \E s \in succ[top] \ visited : Visit(s, dfs_index[top])
         \/ /\ succ[top] \subseteq visited
            /\ calls' = SubSeq(calls, 1, Len(calls) - 1)
            /\ UNCHANGED <<graph, forest, semi, idom, bucket, frontier, pc, work>>

\* Mutant: the successors are evaluated instead of the predecessors.
EnterNodeSucc(i) ==
  IF i >= 1 THEN /\ pc' = "semi" /\ w' = i /\ preds' = succ[CodeAt(i)] /\ members' = {}
            ELSE /\ pc' = "idom" /\ w' = 1 /\ preds' = {} /\ members' = {}

\* The loop over the nodes from the last to the first; node 0 is left out.
EnterNode(i) ==
  IF i >= 1 THEN /\ pc' = "semi" /\ w' = i /\ preds' = pred(CodeAt(i)) /\ members' = {}
            ELSE /\ pc' = "idom" /\ w' = 1 /\ preds' = {} /\ members' = {}

StartSemi ==
  /\ pc = "dfs" /\ calls = <<>> /\ visited = Codes
  /\ EnterNode(N - 1)
  /\ UNCHANGED <<graph, forest, semi, idom, bucket, frontier, calls>>

-----------------------------------------------------------------------------
\* dom_node_compress of v, on every node from v up to the root of its tree.  The
\* root is compressed as well: afterwards they are all roots of their own.
Chain(v) ==
  LET C[i \in Nodes] == IF ancestor[i] = NoNode THEN {i} ELSE {i} \union C[ancestor[i]]
  IN  C[v]
Better(b, a) == IF semi[b] > semi[a] THEN a ELSE b
CompressedBest ==
  LET B[i \in Nodes] ==
        IF ancestor[i] = NoNode THEN best[i] ELSE Better(best[i], B[ancestor[i]])
  IN  B
CompressedAncestor ==
  LET A[i \in Nodes] == IF ancestor[i] = NoNode THEN NoNode ELSE A[ancestor[i]]
  IN  A
dom_node_compress(v) ==
  [best |-> [i \in Nodes |-> IF i \in Chain(v) THEN CompressedBest[i] ELSE best[i]],
   ancestor |-> [i \in Nodes |-> IF i \in Chain(v) THEN CompressedAncestor[i] ELSE ancestor[i]]]

\* dom_node_eval of v: the forest it leaves and the node it returns.
dom_node_eval(v) ==
  IF ancestor[v] = NoNode
    THEN [best |-> best, ancestor |-> ancestor, node |-> v]
    ELSE LET f == dom_node_compress(v)
         IN  [best |-> f.best, ancestor |-> f.ancestor, node |-> f.best[v]]

\* One predecessor c of node w.  The node is linked to its parent here, before
\* the predecessors that remain are evaluated.
EvalPred(c) ==
  LET e == dom_node_eval(dfs_index[c])
      s == IF semi[w] > semi[e.node] THEN semi[e.node] ELSE semi[w]
  IN  /\ pc = "semi" /\ c \in preds
      /\ semi' = [semi EXCEPT ![w] = s]
      /\ bucket' = [bucket EXCEPT ![s] = @ \union {w}]
      /\ best' = e.best
      /\ ancestor' = [e.ancestor EXCEPT ![w] = parent[w]]
      /\ preds' = preds \ {c}
      /\ members' = IF preds' = {} THEN bucket'[parent[w]] ELSE {}
      /\ UNCHANGED <<graph, idom, frontier, pc, calls, w>>

\* One node v of the bucket of w's parent, which is never emptied.
EvalMember(v) ==
  LET e == dom_node_eval(v)
  IN  /\ pc = "semi" /\ preds = {} /\ v \in members
      /\ idom' = [idom EXCEPT ![v] = IF semi[e.node] < semi[v] THEN e.node ELSE parent[w]]
      /\ best' = e.best /\ ancestor' = e.ancestor
      /\ members' = members \ {v}
      /\ UNCHANGED <<graph, semi, bucket, frontier, pc, calls, w, preds>>

NextNode ==
  /\ pc = "semi" /\ preds = {} /\ members = {}
  /\ EnterNode(w - 1)
  /\ UNCHANGED <<graph, forest, semi, idom, bucket, frontier, calls>>

\* The immediate dominators that were left relative, from the first to the last.
FixIdom ==
  /\ pc = "idom"
  /\ IF w < N
       THEN /\ idom' = [idom EXCEPT ![w] = IF idom[w] # semi[w] THEN idom[idom[w]] ELSE @]
            /\ w' = w + 1
            /\ UNCHANGED pc
       ELSE /\ idom' = [idom EXCEPT ![0] = NoNode]
            /\ w' = 1
            /\ pc' = "frontier"
  /\ UNCHANGED <<graph, forest, semi, bucket, frontier, calls, preds, members>>

\* The nodes that the runner visits from r until it meets the dominator of i, with
\* NoNode if it runs off the top of the tree.
Runner(i, r) ==
  LET R[k \in Nodes \union {NoNode}] ==
        IF k = idom[i] THEN {} ELSE IF k = NoNode THEN {NoNode} ELSE {k} \union R[idom[k]]
  IN  R[r]

\* Mutant: only three ways or more make a join.
IsJoinOfThree(i) == Cardinality(pred(CodeAt(i))) > 2

\* Only blocks with several predecessors are on a frontier.
IsJoin(i) == Cardinality(pred(CodeAt(i))) >= 2

FrontierOf ==
  LET visits == IF w < N /\ IsJoin(w)
                  THEN UNION {Runner(w, r) : r \in Index(pred(CodeAt(w)))} ELSE {}
  IN  /\ pc = "frontier"
      /\ \/ /\ w >= N
            /\ pc' = "done" /\ UNCHANGED <<w, frontier>>
         \/ /\ w < N /\ NoNode \notin visits
            /\ frontier' = [i \in Nodes |-> IF i \in visits THEN frontier[i] \union {w} ELSE frontier[i]]
            /\ w' = w + 1 /\ UNCHANGED pc
         \/ /\ w < N /\ NoNode \in visits
            /\ pc' = "off_end" /\ UNCHANGED <<w, frontier>>
      /\ UNCHANGED <<graph, forest, semi, idom, bucket, calls, preds, members>>

-----------------------------------------------------------------------------
Init ==
  /\ succ \in FlowGraphs
  /\ pc = "dfs" /\ calls = <<Entry>>
  /\ dfs_index = [c \in Codes |-> IF c = Entry THEN 0 ELSE NoNode]
  /\ parent = [i \in Nodes |-> NoNode]
  /\ semi = [i \in Nodes |-> i] /\ best = [i \in Nodes |-> i]
  /\ ancestor = [i \in Nodes |-> NoNode]
  /\ idom = [i \in Nodes |-> 0]
  /\ bucket = [i \in Nodes |-> {}] /\ frontier = [i \in Nodes |-> {}]
  /\ w = 0 /\ preds = {} /\ members = {}

Next ==
  \/ dom_node_dfs \/ StartSemi
  \/ \E c \in Codes : EvalPred(c)
  \/ \E v \in Nodes : EvalMember(v)
  \/ NextNode \/ FixIdom \/ FrontierOf

Spec == Init /\ [][Next]_domVars

-----------------------------------------------------------------------------
\* The smallest node from which i is reached through nodes larger than i.
RealSemi(i) ==
  LET R[k \in 0 .. N] ==
        IF k = 0 THEN Index(pred(CodeAt(i)))
        ELSE R[k - 1] \union UNION {Index(pred(CodeAt(j))) : j \in {x \in R[k - 1] : x > i}}
  IN  CHOOSE m \in R[N] \union {i} : \A x \in R[N] \union {i} : m <= x

TypeOK ==
  /\ succ \in [Codes -> SUBSET Codes]
  /\ pc \in {"dfs", "semi", "idom", "frontier", "done", "off_end"}
  /\ dfs_index \in [Codes -> Nodes \union {NoNode}]
  /\ parent \in [Nodes -> Nodes \union {NoNode}] /\ ancestor \in [Nodes -> Nodes \union {NoNode}]
  /\ semi \in [Nodes -> Nodes] /\ best \in [Nodes -> Nodes]
  /\ idom \in [Nodes -> Nodes \union {NoNode}]
  /\ bucket \in [Nodes -> SUBSET Nodes] /\ frontier \in [Nodes -> SUBSET Nodes]
  /\ w \in 0 .. N /\ preds \subseteq Codes /\ members \subseteq Nodes
  /\ \A i \in 1 .. N - 1 : parent[i] < i /\ ancestor[i] < i

\* The result is right or the loop over the frontiers leaves the array of nodes:
\* compute_dominance never returns a wrong dominator or frontier.
ExactIfDone ==
  pc = "done" => \A i \in Nodes :
    /\ i # 0 => CodeAt(idom[i]) = Idom(succ, CodeAt(i))
    /\ frontier[i] = Index(DomFrontier(succ, CodeAt(i)))

\* Whatever the order of the sets, no semidominator is estimated too low.
SemiNotTooLow ==
  pc = "idom" /\ w = 1 => \A i \in 1 .. N - 1 : semi[i] >= RealSemi(i)

Ancestors(i) ==
  LET A[k \in Nodes \union {NoNode}] == IF k = NoNode THEN {} ELSE {parent[k]} \union A[parent[k]]
  IN  A[i]

\* The computed dominator lies on the way of the search to the block, at or below
\* the real one: a wrong result is always one that is too close.
IdomNotTooHigh ==
  pc = "frontier" /\ w = 1 =>
    \A i \in 1 .. N - 1 :
      /\ idom[i] >= dfs_index[Idom(succ, CodeAt(i))]
      /\ idom[i] \in Ancestors(i)

\* The arrays hold indices of nodes, and what is computed on the way errs on one side
\* only, whatever the order of the sets: semidominators are never estimated too low
\* (ir.c:189), relative dominators never too high.
EstimatesOK == TypeOK /\ SemiNotTooLow /\ IdomNotTooHigh

\* The field idom is the "Immediate dominator" of the block.  It fails as soon as
\* a node is evaluated twice: dom_node_compress has made it a root by then.
IdomIsDominator ==
  pc = "frontier" => \A i \in 1 .. N - 1 : CodeAt(idom[i]) = Idom(succ, CodeAt(i))
=============================================================================
