-------------------------- MODULE DominanceProofs ---------------------------
(***************************************************************************)
(* Proofs about Dominance: for any control flow graph and any order of the *)
(* sets, the semidominators are never estimated too low, the dominators    *)
(* never too high; and if compute_dominance returns, the dominators and    *)
(* the frontiers are exact.                                                *)
(*                                                                         *)
(* Paths are not spelled out.  What a node is reached from is what is in   *)
(* every set that has the node and is closed under the steps of the path.  *)
(* Induction is by the least counterexample.                               *)
(***************************************************************************)
EXTENDS Dominance, FlowGraphProofs, SequenceTheorems

USE FlowGraphAssumption, NumCodes

-----------------------------------------------------------------------------
(* Trees, given by what is above each node: the search, the forest of       *)
(* compress and the dominators.                                             *)

\* Above every node is a smaller one, or none.
Rooted(f) == f \in [Nodes -> Nodes \union {NoNode}] /\ \A i \in Nodes : f[i] < i

\* B is computed up to n from what it is above each node.
Computed(B, f, V, root, step, n) ==
  /\ B \in [Nodes \union {NoNode} -> V] /\ B[NoNode] = root
  /\ \A k \in Nodes : k < n => B[k] = step[<<k, B[f[k]]>>]

LEMMA NodeFacts ==
  /\ Nodes \subseteq Nat /\ NoNode \notin Nodes /\ NoNode = -1
  /\ \A i \in Nodes : i < N /\ i - 1 < i
  BY DEF Nodes, NoNode

LEMMA NodeNumber == \A i \in Nodes : i \in Nat /\ i \in Int
  BY DEF Nodes

LEMMA RootedFacts ==
  ASSUME NEW f, Rooted(f), NEW k \in Nodes
  PROVE  /\ k \in Nat /\ f[k] \in Nodes \union {NoNode}
         /\ f[k] \in Int /\ f[k] < k
<1>1. f[k] \in Nodes \union {NoNode} /\ f[k] < k
  BY DEF Rooted
<1>2. \A x \in Nodes \union {NoNode} : x \in Int
  BY NodeFacts
<1> QED BY <1>1, <1>2, NodeFacts

\* What is computed for a node from what it is for the one above it, there is.
LEMMA UpwardRecursion ==
  ASSUME NEW f, Rooted(f), NEW V, NEW root \in V, NEW step \in [Nodes \X V -> V]
  PROVE  \E B : Computed(B, f, V, root, step, N)
<1> DEFINE Bad == {n \in Nat : ~ \E B : Computed(B, f, V, root, step, n)}
<1> SUFFICES ASSUME Bad # {} PROVE FALSE
  OBVIOUS
<1>1. Bad \subseteq Nat /\ \A n \in Nat : n \notin Bad <=> \E B : Computed(B, f, V, root, step, n)
  OBVIOUS
<1> HIDE DEF Bad
<1>2. PICK m \in Bad : \A k \in Bad : m <= k
  BY <1>1, LeastNumber
<1>3. CASE m = 0
  <2> DEFINE B == [k \in Nodes \union {NoNode} |-> root]
  <2>1. Computed(B, f, V, root, step, 0)
    BY DEF Computed, Nodes
  <2> HIDE DEF B
  <2> QED BY <1>1, <1>2, <1>3, <2>1
<1>4. CASE m # 0
  <2>1. m \in Nat /\ m - 1 \in Nat /\ m - 1 \notin Bad
    BY <1>1, <1>2, <1>4
  <2>2. PICK C : Computed(C, f, V, root, step, m - 1)
    BY <1>1, <2>1
  <2>3. CASE m - 1 \in Nodes
    <3> DEFINE value == step[<<m - 1, C[f[m - 1]]>>]
               B == [C EXCEPT ![m - 1] = value]
    <3>1. value \in V
      BY <2>2, <2>3 DEF Computed, Rooted
    <3>2. B \in [Nodes \union {NoNode} -> V] /\ B[NoNode] = root
      BY <2>2, <2>3, <3>1, NodeFacts DEF Computed
    <3>3. ASSUME NEW k \in Nodes, k < m PROVE B[k] = step[<<k, B[f[k]]>>]
      <4>1. f[k] \in Nodes \union {NoNode} /\ f[k] < k /\ k \in Nat /\ f[k] \in Int
        BY RootedFacts
      <4>2. f[k] # m - 1
        BY <2>1, <3>3, <4>1
      <4>3. B[f[k]] = C[f[k]]
        BY <2>2, <4>1, <4>2 DEF Computed
      <4>4. CASE k = m - 1
        <5>1. B[k] = value
          BY <2>2, <2>3, <4>4 DEF Computed
        <5> QED BY <4>3, <4>4, <5>1
      <4>5. CASE k # m - 1
        <5>1. B[k] = C[k] /\ k < m - 1
          BY <2>1, <2>2, <3>3, <4>1, <4>5 DEF Computed
        <5> HIDE DEF B
        <5> QED BY <2>2, <4>3, <5>1 DEF Computed
      <4> QED BY <4>4, <4>5
    <3> HIDE DEF B
    <3>4. Computed(B, f, V, root, step, m)
      BY <3>2, <3>3 DEF Computed
    <3> QED BY <1>1, <1>2, <2>1, <3>4
  <2>4. CASE m - 1 \notin Nodes
    <3>1. \A k \in Nodes : k < m => k < m - 1
      BY <2>1, <2>4 DEF Nodes
    <3>2. Computed(C, f, V, root, step, m)
      BY <2>2, <3>1 DEF Computed
    <3> QED BY <1>1, <1>2, <2>1, <3>2
  <2> QED BY <2>3, <2>4
<1> QED BY <1>3, <1>4

\* All nodes above i.
Above(f, i) ==
  LET A[k \in Nodes \union {NoNode}] == IF k = NoNode THEN {} ELSE {f[k]} \union A[f[k]]
  IN  A[i]

LEMMA AboveStep ==
  ASSUME NEW f, Rooted(f)
  PROVE  /\ Above(f, NoNode) = {}
         /\ \A i \in Nodes : Above(f, i) = {f[i]} \union Above(f, f[i])
         /\ \A i \in Nodes \union {NoNode} : Above(f, i) \subseteq Nodes \union {NoNode}
<1> DEFINE M == Nodes \union {NoNode}
           Defines(A) == A = [k \in M |-> IF k = NoNode THEN {} ELSE {f[k]} \union A[f[k]]]
           V == SUBSET M
           step == [x \in Nodes \X V |-> {f[x[1]]} \union x[2]]
           L == CHOOSE A : Defines(A)
<1>1. step \in [Nodes \X V -> V]
  BY DEF Rooted
<1>2. PICK B : Computed(B, f, V, {}, step, N)
  <2>1. {} \in V
    OBVIOUS
  <2> HIDE DEF V, step
  <2> QED BY <1>1, <2>1, UpwardRecursion
<1>3. B \in [M -> V] /\ B[NoNode] = {}
  BY <1>2 DEF Computed
<1>4. \A k \in Nodes : B[k] = {f[k]} \union B[f[k]]
  <2> TAKE k \in Nodes
  <2>1. f[k] \in M /\ k < N
    BY RootedFacts, NodeFacts
  <2>2. B[k] = step[<<k, B[f[k]]>>]
    BY <1>2, <2>1 DEF Computed
  <2>3. <<k, B[f[k]]>> \in Nodes \X V
    BY <1>3, <2>1
  <2> QED BY <2>2, <2>3
<1>5. Defines(B)
  BY <1>3, <1>4, NodeFacts
<1>6. Defines(L)
  <2> HIDE DEF Defines
  <2> QED BY <1>5, Zenon
<1>7. \A i : Above(f, i) = L[i]
  BY DEF Above
<1> HIDE DEF L
<1>8. L[NoNode] = {} /\ \A k \in Nodes : L[k] = {f[k]} \union L[f[k]]
  BY <1>6, NodeFacts
<1>9. \A k \in M : L[k] \subseteq M
  <2> DEFINE Bad == {k \in Nodes : ~ (L[k] \subseteq M)}
  <2>1. Bad = {}
    <3> SUFFICES ASSUME Bad # {} PROVE FALSE
      OBVIOUS
    <3>1. Bad \subseteq Nat
      BY NodeFacts
    <3>2. PICK k \in Bad : \A j \in Bad : k <= j
      <4> HIDE DEF Bad
      <4> QED BY <3>1, LeastNumber
    <3>3. k \in Nodes /\ f[k] \in M /\ f[k] < k /\ k \in Nat /\ f[k] \in Int
      BY RootedFacts
    <3>4. f[k] \notin Bad
      <4> HIDE DEF Bad
      <4> QED BY <3>2, <3>3
    <3>5. L[f[k]] \subseteq M
      BY <1>8, <3>3, <3>4
    <3> QED BY <1>8, <3>3, <3>5
  <2> QED BY <1>8, <2>1
<1> QED BY <1>7, <1>8, <1>9

\* What is above a node is smaller.
LEMMA AboveLess ==
  ASSUME NEW f, Rooted(f), NEW i \in Nodes
  PROVE  \A x \in Above(f, i) : x < i
<1> DEFINE Bad == {k \in Nodes : \E x \in Above(f, k) : ~ (x < k)}
<1> SUFFICES ASSUME Bad # {} PROVE FALSE
  OBVIOUS
<1>1. Bad \subseteq Nat
  BY NodeFacts
<1>2. PICK k \in Bad : \A j \in Bad : k <= j
  <2> HIDE DEF Bad
  <2> QED BY <1>1, LeastNumber
<1>3. k \in Nodes /\ f[k] \in Nodes \union {NoNode} /\ f[k] < k /\ k \in Nat /\ f[k] \in Int
  BY RootedFacts
<1>4. f[k] \notin Bad
  <2> HIDE DEF Bad
  <2> QED BY <1>2, <1>3
<1>5. \A x \in Above(f, f[k]) : x < k
  <2>1. CASE f[k] = NoNode
    BY <2>1, AboveStep
  <2>2. CASE f[k] \in Nodes
    <3>1. \A x \in Above(f, f[k]) : x < f[k]
      BY <1>4, <2>2
    <3>2. \A x \in Nodes \union {NoNode} : x \in Int
      BY NodeFacts
    <3>3. \A x \in Above(f, f[k]) : x \in Int
      BY <2>2, <3>2, AboveStep
    <3> QED BY <1>3, <3>1, <3>3
  <2> QED BY <1>3, <2>1, <2>2
<1>6. Above(f, k) = {f[k]} \union Above(f, f[k])
  BY <1>3, AboveStep
<1> QED BY <1>2, <1>3, <1>5, <1>6

\* What is above a node is above those below.
LEMMA AboveAbove ==
  ASSUME NEW f, Rooted(f), NEW i \in Nodes, NEW j \in Nodes, j \in Above(f, i)
  PROVE  Above(f, j) \subseteq Above(f, i)
<1> DEFINE Bad == {k \in Nodes : j \in Above(f, k) /\ ~ (Above(f, j) \subseteq Above(f, k))}
<1> SUFFICES ASSUME Bad # {} PROVE FALSE
  OBVIOUS
<1>1. Bad \subseteq Nat
  BY NodeFacts
<1>2. PICK k \in Bad : \A l \in Bad : k <= l
  <2> HIDE DEF Bad
  <2> QED BY <1>1, LeastNumber
<1>3. k \in Nodes /\ f[k] \in Nodes \union {NoNode} /\ f[k] < k /\ k \in Nat /\ f[k] \in Int
  BY RootedFacts
<1>4. f[k] \notin Bad
  <2> HIDE DEF Bad
  <2> QED BY <1>2, <1>3
<1>5. Above(f, k) = {f[k]} \union Above(f, f[k]) /\ Above(f, NoNode) = {}
  BY <1>3, AboveStep
<1>6. CASE j = f[k]
  BY <1>2, <1>5, <1>6
<1>7. CASE j # f[k]
  BY <1>2, <1>3, <1>4, <1>5, <1>7
<1> QED BY <1>6, <1>7

\* Of two nodes above another the smaller is above the larger.
LEMMA AboveLinear ==
  ASSUME NEW f, Rooted(f), NEW i \in Nodes, NEW j \in Nodes, j \in Above(f, i)
  PROVE  \A x \in Above(f, i) : x < j => x \in Above(f, j)
<1> DEFINE Bad == {k \in Nodes : j \in Above(f, k) /\ \E x \in Above(f, k) : x < j /\ x \notin Above(f, j)}
<1> SUFFICES ASSUME Bad # {} PROVE FALSE
  OBVIOUS
<1>1. Bad \subseteq Nat
  BY NodeFacts
<1>2. PICK k \in Bad : \A l \in Bad : k <= l
  <2> HIDE DEF Bad
  <2> QED BY <1>1, LeastNumber
<1>3. k \in Nodes /\ f[k] \in Nodes \union {NoNode} /\ f[k] < k /\ k \in Nat /\ f[k] \in Int
  BY RootedFacts
<1>4. f[k] \notin Bad
  <2> HIDE DEF Bad
  <2> QED BY <1>2, <1>3
<1>5. Above(f, k) = {f[k]} \union Above(f, f[k]) /\ Above(f, NoNode) = {}
  BY <1>3, AboveStep
<1>6. CASE j = f[k]
  <2>1. j < j => FALSE
    BY NodeFacts
  <2> QED BY <1>2, <1>5, <1>6, <2>1
<1>7. CASE j # f[k]
  <2>1. j \in Above(f, f[k]) /\ f[k] \in Nodes
    BY <1>2, <1>3, <1>5, <1>7
  <2>2. \A x \in Above(f, f[k]) : x < j => x \in Above(f, j)
    BY <1>4, <2>1
  <2>3. j < f[k]
    BY <2>1, AboveLess
  <2>4. ~ (f[k] < j)
    BY <1>3, <2>3, NodeFacts
  <2> QED BY <1>2, <1>5, <2>2, <2>4
<1> QED BY <1>6, <1>7

\* On the way from a node to one above it is a child of that one.
LEMMA AboveChild ==
  ASSUME NEW f, Rooted(f), NEW i \in Nodes, NEW x \in Above(f, i)
  PROVE  \E k \in Nodes : f[k] = x /\ (k = i \/ k \in Above(f, i))
<1> DEFINE Bad == {k \in Nodes : x \in Above(f, k) /\ ~ \E l \in Nodes : f[l] = x /\ (l = k \/ l \in Above(f, k))}
<1> SUFFICES ASSUME Bad # {} PROVE FALSE
  OBVIOUS
<1>1. Bad \subseteq Nat
  BY NodeFacts
<1>2. PICK k \in Bad : \A l \in Bad : k <= l
  <2> HIDE DEF Bad
  <2> QED BY <1>1, LeastNumber
<1>3. k \in Nodes /\ f[k] \in Nodes \union {NoNode} /\ f[k] < k /\ k \in Nat /\ f[k] \in Int
  BY RootedFacts
<1>4. f[k] \notin Bad
  <2> HIDE DEF Bad
  <2> QED BY <1>2, <1>3
<1>5. Above(f, k) = {f[k]} \union Above(f, f[k]) /\ Above(f, NoNode) = {}
  BY <1>3, AboveStep
<1> QED BY <1>2, <1>3, <1>4, <1>5

\* A node is below the first one if every other has one above it.
LEMMA AboveFirst ==
  ASSUME NEW f, Rooted(f), \A k \in Nodes \ {0} : f[k] \in Nodes, NEW i \in Nodes \ {0}
  PROVE  0 \in Above(f, i)
<1> DEFINE Bad == {k \in Nodes \ {0} : 0 \notin Above(f, k)}
<1> SUFFICES ASSUME Bad # {} PROVE FALSE
  OBVIOUS
<1>1. Bad \subseteq Nat
  BY NodeFacts
<1>2. PICK k \in Bad : \A l \in Bad : k <= l
  <2> HIDE DEF Bad
  <2> QED BY <1>1, LeastNumber
<1>3. k \in Nodes /\ k # 0 /\ f[k] \in Nodes /\ f[k] < k /\ k \in Nat /\ f[k] \in Int
  BY RootedFacts
<1>4. f[k] \notin Bad
  <2> HIDE DEF Bad
  <2> QED BY <1>2, <1>3
<1>5. Above(f, k) = {f[k]} \union Above(f, f[k])
  BY <1>3, AboveStep
<1> QED BY <1>2, <1>3, <1>4, <1>5

\* What is above a node does not depend on the nodes behind it.
LEMMA AboveAgree ==
  ASSUME NEW f, Rooted(f), NEW g, Rooted(g), NEW n, \A k \in Nodes : k < n => f[k] = g[k],
         NEW i \in Nodes, i < n, n \in Int
  PROVE  Above(f, i) = Above(g, i)
<1> DEFINE Bad == {k \in Nodes : k < n /\ Above(f, k) # Above(g, k)}
<1> SUFFICES ASSUME Bad # {} PROVE FALSE
  OBVIOUS
<1>1. Bad \subseteq Nat
  BY NodeFacts
<1>2. PICK k \in Bad : \A l \in Bad : k <= l
  <2> HIDE DEF Bad
  <2> QED BY <1>1, LeastNumber
<1>3. k \in Nodes /\ f[k] \in Nodes \union {NoNode} /\ f[k] < k /\ k \in Nat /\ f[k] \in Int /\ k < n
  BY RootedFacts
<1>4. f[k] \notin Bad /\ f[k] < n
  <2> HIDE DEF Bad
  <2> QED BY <1>2, <1>3
<1>5. /\ Above(f, k) = {f[k]} \union Above(f, f[k]) /\ Above(f, NoNode) = {}
      /\ Above(g, k) = {g[k]} \union Above(g, g[k]) /\ Above(g, NoNode) = {}
  BY <1>3, AboveStep
<1>6. f[k] = g[k]
  BY <1>3
<1> QED BY <1>2, <1>3, <1>4, <1>5, <1>6

-----------------------------------------------------------------------------
(* The numbered graph.                                                      *)

LEMMA AncestorsAbove == \A i : Ancestors(i) = Above(parent, i)
  BY DEF Ancestors, Above

\* Node i jumps to node j.
Leads(i, j) == CodeAt(j) \in succ[CodeAt(i)]

\* What the search has done when it is over.  An edge that does not go back goes to
\* a node below, and what is below a node is numbered in one piece.
Numbered ==
  /\ succ \in FlowGraphs
  /\ dfs_index \in [Codes -> Nodes]
  /\ \A a, b \in Codes : dfs_index[a] = dfs_index[b] => a = b
  /\ \A i \in Nodes : \E c \in Codes : dfs_index[c] = i
  /\ dfs_index[Entry] = 0
  /\ Rooted(parent)
  /\ \A i \in Nodes \ {0} : \E p, c \in Codes :
       c \in succ[p] /\ dfs_index[p] = parent[i] /\ dfs_index[c] = i
  /\ \A a, b \in Codes : b \in succ[a] /\ dfs_index[a] < dfs_index[b]
                           => dfs_index[a] \in Above(parent, dfs_index[b])
  /\ \A x, y, z \in Nodes : x \in Above(parent, z) /\ x < y /\ y < z => x \in Above(parent, y)

\* Blocks and their numbers.
LEMMA CodeAtFacts ==
  ASSUME Numbered
  PROVE  /\ \A i \in Nodes : CodeAt(i) \in Codes /\ dfs_index[CodeAt(i)] = i
         /\ \A c \in Codes : CodeAt(dfs_index[c]) = c /\ dfs_index[c] \in Nodes
         /\ 0 \in Nodes /\ CodeAt(0) = Entry
<1>1. \A i \in Nodes : CodeAt(i) \in Codes /\ dfs_index[CodeAt(i)] = i
  BY DEF Numbered, CodeAt
<1>2. \A c \in Codes : CodeAt(dfs_index[c]) = c /\ dfs_index[c] \in Nodes
  BY <1>1 DEF Numbered
<1>3. 0 \in Nodes /\ CodeAt(0) = Entry
  BY <1>2, FlowGraphAssumption DEF Numbered
<1> QED BY <1>1, <1>2, <1>3

\* The tree of the search.
LEMMA TreeFacts ==
  ASSUME Numbered
  PROVE  /\ Rooted(parent)
         /\ \A i \in Nodes \ {0} : parent[i] \in Nodes /\ Leads(parent[i], i)
         /\ \A i, j \in Nodes : Leads(i, j) /\ i < j => i \in Above(parent, j)
         /\ \A i \in Nodes : ~ Leads(i, 0)
         /\ \A x, y, z \in Nodes : x \in Above(parent, z) /\ x < y /\ y < z => x \in Above(parent, y)
<1>1. ASSUME NEW i \in Nodes \ {0} PROVE parent[i] \in Nodes /\ Leads(parent[i], i)
  <2>1. PICK p \in Codes, c \in Codes : c \in succ[p] /\ dfs_index[p] = parent[i] /\ dfs_index[c] = i
    BY DEF Numbered
  <2>2. CodeAt(parent[i]) = p /\ CodeAt(i) = c /\ parent[i] \in Nodes
    BY <2>1, CodeAtFacts
  <2> QED BY <2>1, <2>2 DEF Leads
<1>2. ASSUME NEW i \in Nodes, NEW j \in Nodes, Leads(i, j), i < j PROVE i \in Above(parent, j)
  <2>1. CodeAt(i) \in Codes /\ CodeAt(j) \in Codes /\ dfs_index[CodeAt(i)] = i /\ dfs_index[CodeAt(j)] = j
    BY CodeAtFacts
  <2> QED BY <1>2, <2>1 DEF Leads, Numbered
<1>3. \A i \in Nodes : ~ Leads(i, 0)
  <2>1. succ \in FlowGraphs
    BY DEF Numbered
  <2> QED BY <2>1, CodeAtFacts, GraphFacts DEF Leads
<1> QED BY <1>1, <1>2, <1>3 DEF Numbered

\* Predecessors, as numbers.
Back == [i \in Nodes |-> Index(pred(CodeAt(i)))]

\* And as blocks.
PredCodes == [i \in Nodes |-> pred(CodeAt(i))]

LEMMA PredFacts ==
  ASSUME Numbered, NEW i \in Nodes
  PROVE  /\ \A j : j \in Back[i] <=> j \in Nodes /\ Leads(j, i)
         /\ \A c \in Codes : c \in PredCodes[i] <=> Leads(dfs_index[c], i)
         /\ PredCodes[i] \subseteq Codes /\ Back[i] \subseteq Nodes
<1>1. \A c \in Codes : c \in pred(CodeAt(i)) <=> CodeAt(i) \in succ[c]
  BY DEF pred, Predecessors
<1>2. \A c \in Codes : c \in pred(CodeAt(i)) <=> Leads(dfs_index[c], i)
  BY <1>1, CodeAtFacts DEF Leads
<1>3. pred(CodeAt(i)) \subseteq Codes
  BY DEF pred, Predecessors
<1>4. ASSUME NEW j \in Back[i] PROVE j \in Nodes /\ Leads(j, i)
  <2>1. PICK c \in pred(CodeAt(i)) : j = dfs_index[c]
    BY DEF Back, Index
  <2> QED BY <1>2, <1>3, <2>1, CodeAtFacts
<1>5. ASSUME NEW j \in Nodes, Leads(j, i) PROVE j \in Back[i]
  <2>1. CodeAt(j) \in Codes /\ dfs_index[CodeAt(j)] = j
    BY CodeAtFacts
  <2>2. CodeAt(j) \in pred(CodeAt(i))
    BY <1>2, <1>5, <2>1
  <2> QED BY <2>1, <2>2 DEF Back, Index
<1>6. PredCodes[i] = pred(CodeAt(i))
  BY DEF PredCodes
<1> QED BY <1>2, <1>3, <1>4, <1>5, <1>6

-----------------------------------------------------------------------------
(* Dominance, between nodes.                                                *)

Dom(d, i) == Dominates(succ, CodeAt(d), CodeAt(i))

\* The nodes that d does not dominate: what is reached without it.
LEMMA DomFacts ==
  ASSUME Numbered, NEW d \in Nodes
  PROVE  /\ Dom(d, d)
         /\ d # 0 => ~ Dom(d, 0)
         /\ \A i, j \in Nodes : ~ Dom(d, i) /\ Leads(i, j) /\ j # d => ~ Dom(d, j)
         /\ \A T \in SUBSET Nodes :
              (d # 0 => 0 \in T) /\ (\A i \in T : \A j \in Nodes : Leads(i, j) /\ j # d => j \in T)
                => \A i \in Nodes : ~ Dom(d, i) => i \in T
<1> DEFINE W == ReachedWithout(succ, CodeAt(d))
<1>0. succ \in FlowGraphs /\ succ \in [Codes -> SUBSET Codes]
  BY GraphFacts DEF Numbered
<1>1. /\ CodeAt(d) \in Codes /\ \A i \in Nodes : CodeAt(i) \in Codes /\ dfs_index[CodeAt(i)] = i
      /\ \A c \in Codes : CodeAt(dfs_index[c]) = c /\ dfs_index[c] \in Nodes
      /\ 0 \in Nodes /\ CodeAt(0) = Entry
  BY CodeAtFacts
<1>2. /\ W \in SUBSET Codes /\ CodeAt(d) \notin W /\ (CodeAt(d) # Entry => Entry \in W)
      /\ \A c \in W : succ[c] \ {CodeAt(d)} \subseteq W
  BY <1>0, <1>1, WithoutFacts
<1>3. \A T \in SUBSET Codes :
        (CodeAt(d) # Entry => Entry \in T) /\ (\A c \in T : succ[c] \ {CodeAt(d)} \subseteq T) => W \subseteq T
  BY <1>0, <1>1, WithoutFacts
<1>4. \A i : Dom(d, i) <=> CodeAt(i) \notin W
  BY DEF Dom, Dominates
<1> HIDE DEF W
<1>5. \A i \in Nodes : CodeAt(i) = CodeAt(d) => i = d
  BY <1>1
<1>6. Dom(d, d) /\ (d # 0 => ~ Dom(d, 0))
  BY <1>1, <1>2, <1>4, <1>5
<1>7. \A i, j \in Nodes : ~ Dom(d, i) /\ Leads(i, j) /\ j # d => ~ Dom(d, j)
  BY <1>1, <1>2, <1>4, <1>5 DEF Leads
<1>8. ASSUME NEW T \in SUBSET Nodes, d # 0 => 0 \in T,
             \A i \in T : \A j \in Nodes : Leads(i, j) /\ j # d => j \in T
      PROVE  \A i \in Nodes : ~ Dom(d, i) => i \in T
  <2> DEFINE C == {c \in Codes : dfs_index[c] \in T}
  <2>1. CodeAt(d) # Entry => Entry \in C
    BY <1>1, <1>8
  <2>2. ASSUME NEW c \in C, NEW e \in succ[c] \ {CodeAt(d)} PROVE e \in C
    <3>1. c \in Codes /\ e \in Codes /\ dfs_index[c] \in T /\ dfs_index[e] \in Nodes
      BY <1>0, <1>1
    <3>2. Leads(dfs_index[c], dfs_index[e])
      BY <1>1, <3>1 DEF Leads
    <3>3. dfs_index[e] # d
      BY <1>1, <3>1
    <3> QED BY <1>8, <3>1, <3>2, <3>3
  <2>3. C \in SUBSET Codes /\ \A c \in C : succ[c] \ {CodeAt(d)} \subseteq C
    BY <2>2
  <2>4. \A i \in Nodes : CodeAt(i) \in C => i \in T
    BY <1>1
  <2> HIDE DEF C
  <2>5. W \subseteq C
    BY <1>3, <2>1, <2>3
  <2> QED BY <1>4, <2>4, <2>5
<1> QED BY <1>6, <1>7, <1>8

\* Dominance is an order.
LEMMA DomOrder ==
  ASSUME Numbered, NEW a \in Nodes, NEW b \in Nodes, Dom(a, b)
  PROVE  /\ \A c \in Nodes : Dom(b, c) => Dom(a, c)
         /\ Dom(b, a) => a = b
<1>1. ASSUME NEW c \in Nodes, Dom(b, c) PROVE Dom(a, c)
  <2> DEFINE T == {i \in Nodes : ~ Dom(a, i) /\ ~ Dom(b, i)}
  <2>1. CASE b = 0
    <3>1. a = 0
      BY <2>1, DomFacts
    <3> QED BY <1>1, <2>1, <3>1
  <2>2. CASE b # 0
    <3>1. a # 0 => 0 \in T
      BY <2>2, CodeAtFacts, DomFacts
    <3>2. ASSUME NEW i \in T, NEW j \in Nodes, Leads(i, j), j # a PROVE j \in T
      <4>1. ~ Dom(a, j)
        BY <3>2, DomFacts
      <4>2. j # b
        BY <4>1
      <4>3. ~ Dom(b, j)
        BY <3>2, <4>2, DomFacts
      <4> QED BY <4>1, <4>3
    <3>3. T \in SUBSET Nodes /\ c \notin T
      BY <1>1
    <3> HIDE DEF T
    <3>4. ~ Dom(a, c) => c \in T
      BY <3>1, <3>2, <3>3, DomFacts
    <3> QED BY <3>3, <3>4
  <2> QED BY <2>1, <2>2
<1>2. ASSUME Dom(b, a) PROVE a = b
  <2>1. CodeAt(a) = CodeAt(b)
    <3>1. CodeAt(a) \in Codes /\ CodeAt(b) \in Codes /\ succ \in FlowGraphs
      BY CodeAtFacts DEF Numbered
    <3> QED BY <1>2, <3>1, DominatesAntisymmetric DEF Dom
  <2> QED BY <2>1, CodeAtFacts
<1> QED BY <1>1, <1>2

\* What dominates a node is above it in the tree of the search.
LEMMA DomAbove ==
  ASSUME Numbered, NEW d \in Nodes, NEW i \in Nodes, Dom(d, i), d # i
  PROVE  d \in Above(parent, i)
<1> SUFFICES ASSUME d \notin Above(parent, i) PROVE FALSE
  OBVIOUS
<1> DEFINE Bad == {x \in {i} \union Above(parent, i) : x \in Nodes /\ Dom(d, x)}
<1>1. i \in Bad /\ Bad \subseteq Nat
  BY NodeFacts
<1> HIDE DEF Bad
<1>2. PICK x \in Bad : \A y \in Bad : x <= y
  BY <1>1, LeastNumber
<1>3. x \in Nodes /\ Dom(d, x) /\ x \in {i} \union Above(parent, i) /\ x # d
  BY <1>2 DEF Bad
<1>4. x # 0
  <2>1. d # 0
    <3>1. CASE i = 0
      BY <3>1, DomFacts, CodeAtFacts
    <3>2. CASE i # 0
      BY <3>2, TreeFacts, AboveFirst
    <3> QED BY <3>1, <3>2
  <2> QED BY <1>3, <2>1, DomFacts
<1>5. parent[x] \in Nodes /\ Leads(parent[x], x) /\ parent[x] < x
  BY <1>3, <1>4, TreeFacts, RootedFacts
<1>6. Above(parent, x) = {parent[x]} \union Above(parent, parent[x])
  BY <1>3, TreeFacts, AboveStep
<1>7. parent[x] \in Above(parent, i)
  BY <1>3, <1>6, TreeFacts, AboveAbove
<1>8. parent[x] \notin Bad
  BY <1>2, <1>3, <1>5, NodeNumber
<1>9. ~ Dom(d, parent[x])
  BY <1>5, <1>7, <1>8 DEF Bad
<1> QED BY <1>3, <1>5, <1>9, DomFacts

LEMMA DomLess ==
  ASSUME Numbered, NEW d \in Nodes, NEW i \in Nodes, Dom(d, i), d # i
  PROVE  d < i
  BY DomAbove, TreeFacts, AboveLess

\* What dominates a node from above another on the way to it dominates that one.
LEMMA DomThrough ==
  ASSUME Numbered, NEW d \in Nodes, NEW i \in Nodes, Dom(d, i),
         NEW u \in Nodes, u \in Above(parent, i), d < u
  PROVE  Dom(d, u)
<1> SUFFICES ASSUME ~ Dom(d, u) PROVE FALSE
  OBVIOUS
<1> DEFINE Bad == {x \in {i} \union Above(parent, i) : x \in Nodes /\ u <= x /\ Dom(d, x)}
<1>1. i \in Bad /\ Bad \subseteq Nat
  <2>1. u < i
    BY TreeFacts, AboveLess
  <2>2. u <= i
    BY <2>1, NodeFacts
  <2> QED BY <2>2, NodeFacts
<1> HIDE DEF Bad
<1>2. PICK x \in Bad : \A y \in Bad : x <= y
  BY <1>1, LeastNumber
<1>3. x \in Nodes /\ Dom(d, x) /\ x \in {i} \union Above(parent, i) /\ u <= x /\ x # u
  BY <1>2 DEF Bad
<1>4. x # 0 /\ u < x /\ x # d
  BY <1>3, NodeFacts
<1>5. parent[x] \in Nodes /\ Leads(parent[x], x) /\ parent[x] < x
  BY <1>3, <1>4, TreeFacts, RootedFacts
<1>6. Above(parent, x) = {parent[x]} \union Above(parent, parent[x])
  BY <1>3, TreeFacts, AboveStep
<1>7. parent[x] \in Above(parent, i)
  BY <1>3, <1>6, TreeFacts, AboveAbove
<1>8. u <= parent[x]
  <2>1. u \in Above(parent, x)
    <3>1. CASE x = i
      BY <3>1
    <3>2. CASE x # i
      BY <1>3, <1>4, <3>2, TreeFacts, AboveLinear
    <3> QED BY <3>1, <3>2
  <2>2. u = parent[x] \/ u < parent[x]
    BY <1>5, <1>6, <2>1, TreeFacts, AboveLess
  <2> QED BY <1>5, <2>2, NodeNumber
<1>9. parent[x] \notin Bad
  BY <1>2, <1>3, <1>5, NodeNumber
<1>10. ~ Dom(d, parent[x])
  BY <1>5, <1>7, <1>8, <1>9 DEF Bad
<1> QED BY <1>3, <1>4, <1>5, <1>10, DomFacts

\* On the way from a node up to u, the next node is on that way too.
LEMMA BetweenStep ==
  ASSUME NEW f, Rooted(f), NEW i \in Nodes, NEW u \in Nodes, u \in Above(f, i),
         NEW x \in Nodes, x \in {i} \union Above(f, i), u < x
  PROVE  f[x] \in Nodes /\ f[x] \in Above(f, i) /\ u <= f[x] /\ u \in Above(f, x)
<1>1. u \in Above(f, x)
  <2>1. CASE x = i
    BY <2>1
  <2>2. CASE x # i
    BY <2>2, AboveLinear
  <2> QED BY <2>1, <2>2
<1>2. Above(f, x) = {f[x]} \union Above(f, f[x]) /\ Above(f, NoNode) = {} /\ f[x] \in Nodes \union {NoNode}
  BY AboveStep, RootedFacts
<1>3. f[x] \in Nodes
  BY <1>1, <1>2
<1>4. f[x] \in Above(f, i)
  <2>1. CASE x = i
    BY <1>2, <2>1
  <2>2. CASE x # i
    BY <1>2, <2>2, AboveAbove
  <2> QED BY <2>1, <2>2
<1>5. u = f[x] \/ u < f[x]
  BY <1>1, <1>2, <1>3, AboveLess
<1> QED BY <1>1, <1>3, <1>4, <1>5, NodeNumber

-----------------------------------------------------------------------------
(* Semidominators.                                                          *)

\* X has the predecessors of all its nodes that are not before i.
BackClosed(B, X, i) ==
  X \in SUBSET Nodes /\ \A x \in X : x >= i => B[x] \subseteq X

\* Node i, or one from which it is reached through nodes larger than i.
InSemi(B, m, i) == \A X : BackClosed(B, X, i) /\ i \in X => m \in X

\* X has the parents of all its nodes that are not before k.
UpClosed(f, X, k) == X \in SUBSET Nodes /\ \A x \in X : x >= k => f[x] \in X

\* Node v, or one above it with all between them not before k.
InUp(f, u, v, k) == \A X : UpClosed(f, X, k) /\ v \in X => u \in X

LEMMA InSemiNode ==
  ASSUME Numbered, NEW i \in Nodes
  PROVE  InSemi(Back, i, i) /\ \A m : InSemi(Back, m, i) => m \in Nodes
<1>1. BackClosed(Back, Nodes, i)
  BY PredFacts DEF BackClosed
<1> QED BY <1>1 DEF InSemi

LEMMA InUpNode ==
  ASSUME Numbered, NEW v \in Nodes, NEW k \in Nodes \ {0}
  PROVE  /\ InUp(parent, v, v, k)
         /\ \A u : InUp(parent, u, v, k) => u \in Nodes
         /\ \A u : InUp(parent, u, v, k) /\ v < k => u = v
<1>1. UpClosed(parent, Nodes, k)
  <2>1. \A x \in Nodes : x >= k => x # 0
    BY NodeNumber
  <2> QED BY <2>1, TreeFacts DEF UpClosed
<1>2. v < k => UpClosed(parent, {v}, k)
  BY NodeNumber DEF UpClosed
<1> QED BY <1>1, <1>2 DEF InUp

\* With more to go through, less is reached without fail.
LEMMA InUpWider ==
  ASSUME NEW u, NEW v, NEW k \in Int, NEW l \in Int, l <= k, InUp(parent, u, v, k)
  PROVE  InUp(parent, u, v, l)
<1>1. ASSUME NEW X, UpClosed(parent, X, l) PROVE UpClosed(parent, X, k)
  <2>1. \A x \in X : x \in Int
    BY <1>1, NodeNumber DEF UpClosed
  <2> QED BY <1>1, <2>1 DEF UpClosed
<1> QED BY <1>1 DEF InUp

\* se holds estimates, of which those before k are the nodes themselves.
Estimates(B, se, k) ==
  /\ se \in [Nodes -> Nodes]
  /\ \A i \in Nodes : InSemi(B, se[i], i)
  /\ \A i \in Nodes : i < k => se[i] = i

\* What the evaluation of a predecessor finds is an estimate too.
LEMMA SemiStep ==
  ASSUME Numbered, NEW k \in Nodes \ {0}, NEW se, Estimates(Back, se, k),
         NEW j \in Back[k], NEW u, InUp(parent, u, j, k)
  PROVE  InSemi(Back, se[u], k)
<1> SUFFICES ASSUME NEW X, BackClosed(Back, X, k), k \in X PROVE se[u] \in X
  BY DEF InSemi
<1>1. X \in SUBSET Nodes /\ j \in X /\ j \in Nodes
  BY PredFacts, NodeNumber DEF BackClosed
<1>2. UpClosed(parent, X, k)
  <2> SUFFICES ASSUME NEW x \in X, x >= k PROVE parent[x] \in X
    BY <1>1 DEF UpClosed
  <2>1. x \in Nodes \ {0}
    BY <1>1, NodeNumber
  <2>2. parent[x] \in Back[x]
    BY <2>1, TreeFacts, PredFacts
  <2> QED BY <2>2 DEF BackClosed
<1>3. u \in X /\ u \in Nodes
  BY <1>1, <1>2 DEF InUp
<1>4. CASE u < k
  BY <1>3, <1>4 DEF Estimates
<1>5. CASE ~ (u < k)
  <2>1. BackClosed(Back, X, u)
    <3>1. \A x \in X : x >= u => x >= k
      BY <1>1, <1>3, <1>5, NodeNumber
    <3> QED BY <3>1 DEF BackClosed
  <2>2. InSemi(Back, se[u], u)
    BY <1>3 DEF Estimates
  <2> QED BY <1>3, <2>1, <2>2 DEF InSemi
<1> QED BY <1>4, <1>5

\* An estimate that is smaller than the node is above it in the tree: a path through
\* larger nodes does not leave what is below the node it comes from.
LEMMA SemiAbove ==
  ASSUME Numbered, NEW i \in Nodes, NEW m, InSemi(Back, m, i), m < i
  PROVE  m \in Above(parent, i)
<1> DEFINE X == {y \in Nodes : IF y < i THEN y \in Above(parent, i)
                               ELSE \A x \in Nodes : x < i /\ x \in Above(parent, y) => x \in Above(parent, i)}
<1>1. i \in X
  BY NodeNumber
<1>2. ASSUME NEW y \in X, y >= i, NEW z \in Back[y] PROVE z \in X
  <2>1. z \in Nodes /\ Leads(z, y) /\ y \in Nodes
    BY PredFacts
  <2>2. ~ (y < i)
    BY <1>2, <2>1, NodeNumber
  <2>3. \A x \in Nodes : x < i /\ x \in Above(parent, y) => x \in Above(parent, i)
    BY <2>2
  <2>4. z < y => z \in Above(parent, y)
    BY <2>1, TreeFacts
  <2>5. CASE z < i
    <3>1. z < y
      BY <1>2, <2>1, <2>5, NodeNumber
    <3> QED BY <2>1, <2>3, <2>4, <2>5, <3>1
  <2>6. CASE ~ (z < i)
    <3> SUFFICES ASSUME NEW x \in Nodes, x < i, x \in Above(parent, z)
                 PROVE  x \in Above(parent, i)
      BY <2>1, <2>6
    <3>1. CASE z < y
      <4>1. Above(parent, z) \subseteq Above(parent, y)
        BY <2>1, <2>4, <3>1, TreeFacts, AboveAbove
      <4> QED BY <2>3, <4>1
    <3>2. CASE z = y
      BY <2>3, <3>2
    <3>3. CASE y < z
      <4>1. x < y
        BY <1>2, <2>1, NodeNumber
      <4>2. x \in Above(parent, y)
        BY <2>1, <3>3, <4>1, TreeFacts
      <4> QED BY <2>3, <4>2
    <3> QED BY <2>1, <3>1, <3>2, <3>3, NodeNumber
  <2> QED BY <2>5, <2>6
<1>3. X \in SUBSET Nodes
  OBVIOUS
<1> HIDE DEF X
<1>4. BackClosed(Back, X, i)
  BY <1>2, <1>3 DEF BackClosed
<1>5. m \in X
  BY <1>1, <1>4 DEF InSemi
<1> QED BY <1>5 DEF X

\* No dominator is between an estimate and the node.
LEMMA SemiDominated ==
  ASSUME Numbered, NEW i \in Nodes, NEW m, InSemi(Back, m, i), m < i,
         NEW d \in Nodes, Dom(d, i), d # i
  PROVE  d <= m
<1> DEFINE X == {y \in Nodes : Dom(d, y)}
<1>1. d < i /\ i \in X /\ X \in SUBSET Nodes
  BY DomLess
<1>2. ASSUME NEW y \in X, y >= i, NEW z \in Back[y] PROVE z \in X
  <2>1. z \in Nodes /\ Leads(z, y) /\ y \in Nodes
    BY PredFacts
  <2>2. y # d
    BY <1>1, <1>2, <2>1, NodeNumber
  <2> QED BY <2>1, <2>2, DomFacts
<1> HIDE DEF X
<1>3. BackClosed(Back, X, i)
  BY <1>1, <1>2 DEF BackClosed
<1>4. m \in X
  BY <1>1, <1>3 DEF InSemi
<1>5. m \in Nodes /\ Dom(d, m)
  BY <1>4 DEF X
<1>6. d = m \/ d < m
  BY <1>5, DomLess
<1> QED BY <1>5, <1>6, NodeNumber

\* What is found above v is not above p, where p and all before it are not linked.
LEMMA UpBetween ==
  ASSUME Numbered, NEW v \in Nodes, NEW p \in Nodes, p \in Above(parent, v),
         NEW k \in Nodes \ {0}, p < k, NEW u, InUp(parent, u, v, k)
  PROVE  u = v \/ (u \in Above(parent, v) /\ p <= u)
<1> DEFINE X == {x \in Nodes : x \in {v} \union Above(parent, v) /\ p <= x}
<1>1. v \in X
  <2>1. p < v
    BY TreeFacts, AboveLess
  <2> QED BY <2>1, NodeNumber
<1>2. ASSUME NEW x \in X, x >= k PROVE parent[x] \in X
  <2>1. p < x
    BY <1>2, NodeNumber
  <2> QED BY <2>1, TreeFacts, BetweenStep
<1>3. X \in SUBSET Nodes
  OBVIOUS
<1> HIDE DEF X
<1>4. UpClosed(parent, X, k)
  BY <1>2, <1>3 DEF UpClosed
<1>5. u \in X
  BY <1>1, <1>4 DEF InUp
<1> QED BY <1>5 DEF X

-----------------------------------------------------------------------------
(* dom_node_compress and dom_node_eval.                                     *)

\* Only nodes from k on are linked, each to its parent, and the best of a node is
\* found above it.
ForestOK(f, anc, be, k) ==
  /\ Rooted(anc) /\ be \in [Nodes -> Nodes]
  /\ \A i \in Nodes : anc[i] # NoNode => i >= k /\ anc[i] = f[i]
  /\ \A i \in Nodes : InUp(f, be[i], i, k)

\* What is compressed is a root, its best its own or that of a node above it.
LEMMA CompressedFacts ==
  ASSUME Rooted(ancestor), best \in [Nodes -> Nodes]
  PROVE  /\ \A i \in Nodes : CompressedAncestor[i] = NoNode /\ CompressedBest[i] \in Nodes
         /\ \A i \in Nodes : \/ CompressedBest[i] = best[i]
                             \/ /\ ancestor[i] \in Nodes
                                /\ CompressedBest[i] = CompressedBest[ancestor[i]]
<1>1. \A i \in Nodes : /\ ancestor[i] \in Nodes \union {NoNode} /\ ancestor[i] < i
                       /\ ancestor[i] # NoNode => ancestor[i] \in Nodes
  BY DEF Rooted
<1>2. \A i \in Nodes : CompressedAncestor[i] = NoNode
  <2> DEFINE Defines(A) == A = [i \in Nodes |-> IF ancestor[i] = NoNode THEN NoNode ELSE A[ancestor[i]]]
             Z == [i \in Nodes |-> NoNode]
             L == CHOOSE A : Defines(A)
  <2>1. Defines(Z)
    BY <1>1
  <2>2. Defines(L)
    <3> HIDE DEF Defines, Z
    <3> QED BY <2>1, Zenon
  <2>3. CompressedAncestor = L
    BY DEF CompressedAncestor
  <2> HIDE DEF L
  <2>4. \A i \in Nodes : L[i] = IF ancestor[i] = NoNode THEN NoNode ELSE L[ancestor[i]]
    BY <2>2
  <2> DEFINE Bad == {i \in Nodes : L[i] # NoNode}
  <2>5. Bad = {}
    <3> SUFFICES ASSUME Bad # {} PROVE FALSE
      OBVIOUS
    <3>1. Bad \subseteq Nat
      BY NodeFacts
    <3>2. PICK i \in Bad : \A j \in Bad : i <= j
      <4> HIDE DEF Bad
      <4> QED BY <3>1, LeastNumber
    <3>3. i \in Nodes /\ ancestor[i] \in Nodes /\ ancestor[i] < i /\ i \in Nat /\ ancestor[i] \in Nat
      <4>1. i \in Nodes /\ ancestor[i] # NoNode
        BY <2>4
      <4> QED BY <1>1, <4>1, NodeNumber
    <3>4. ancestor[i] \notin Bad
      <4> HIDE DEF Bad
      <4> QED BY <3>2, <3>3
    <3> QED BY <2>4, <3>3, <3>4
  <2> QED BY <2>3, <2>5
<1> DEFINE Defines(B) ==
             B = [i \in Nodes |-> IF ancestor[i] = NoNode THEN best[i] ELSE Better(best[i], B[ancestor[i]])]
           L == CHOOSE B : Defines(B)
<1>3. ASSUME NEW i \in Nodes PROVE Defines(L)
  <2> DEFINE step == [x \in Nodes \X Nodes |->
                        IF ancestor[x[1]] = NoNode THEN best[x[1]] ELSE Better(best[x[1]], x[2])]
  <2>1. \A a, b \in Nodes : Better(a, b) \in Nodes
    BY DEF Better
  <2>2. step \in [Nodes \X Nodes -> Nodes]
    BY <2>1
  <2>3. PICK B : Computed(B, ancestor, Nodes, i, step, N)
    <3> HIDE DEF step
    <3> QED BY <2>2, UpwardRecursion
  <2> DEFINE C == [k \in Nodes |-> B[k]]
  <2>4. ASSUME NEW k \in Nodes
        PROVE  C[k] = IF ancestor[k] = NoNode THEN best[k] ELSE Better(best[k], C[ancestor[k]])
    <3>1. B[k] = step[<<k, B[ancestor[k]]>>] /\ B[ancestor[k]] \in Nodes
      BY <1>1, <2>3, NodeFacts DEF Computed
    <3>2. <<k, B[ancestor[k]]>> \in Nodes \X Nodes
      BY <3>1
    <3>3. B[k] = IF ancestor[k] = NoNode THEN best[k] ELSE Better(best[k], B[ancestor[k]])
      BY <3>1, <3>2
    <3> HIDE DEF step
    <3> QED BY <1>1, <3>3
  <2>5. Defines(C)
    <3>1. C = [k \in Nodes |-> C[k]]
      OBVIOUS
    <3> HIDE DEF C
    <3> QED BY <2>4, <3>1
  <2> HIDE DEF Defines, C
  <2> QED BY <2>5, Zenon
<1>4. CompressedBest = L
  BY DEF CompressedBest
<1> HIDE DEF L
<1>5. \A i \in Nodes : L[i] = IF ancestor[i] = NoNode THEN best[i] ELSE Better(best[i], L[ancestor[i]])
  <2> TAKE i \in Nodes
  <2>1. Defines(L)
    BY <1>3
  <2> QED BY <2>1
<1>6. \A i \in Nodes : L[i] = best[i] \/ (ancestor[i] \in Nodes /\ L[i] = L[ancestor[i]])
  BY <1>1, <1>5 DEF Better
<1>7. \A i \in Nodes : L[i] \in Nodes
  <2> DEFINE Bad == {i \in Nodes : L[i] \notin Nodes}
  <2>1. Bad = {}
    <3> SUFFICES ASSUME Bad # {} PROVE FALSE
      OBVIOUS
    <3>1. Bad \subseteq Nat
      BY NodeFacts
    <3>2. PICK i \in Bad : \A j \in Bad : i <= j
      <4> HIDE DEF Bad
      <4> QED BY <3>1, LeastNumber
    <3>3. i \in Nodes /\ ancestor[i] \in Nodes /\ L[i] = L[ancestor[i]]
      BY <1>6
    <3>4. ancestor[i] < i /\ i \in Nat /\ ancestor[i] \in Nat
      BY <1>1, <3>3, NodeNumber
    <3>5. ancestor[i] \notin Bad
      <4> HIDE DEF Bad
      <4> QED BY <3>2, <3>4
    <3> QED BY <3>3, <3>5
  <2> QED BY <2>1
<1> QED BY <1>2, <1>4, <1>6, <1>7

\* Its best is found above it.
LEMMA CompressedUp ==
  ASSUME NEW f, NEW k \in Int, ForestOK(f, ancestor, best, k)
  PROVE  \A i \in Nodes : InUp(f, CompressedBest[i], i, k)
<1> DEFINE Bad == {i \in Nodes : ~ InUp(f, CompressedBest[i], i, k)}
<1> SUFFICES ASSUME Bad # {} PROVE FALSE
  OBVIOUS
<1>1. Bad \subseteq Nat
  BY NodeFacts
<1>2. PICK i \in Bad : \A j \in Bad : i <= j
  <2> HIDE DEF Bad
  <2> QED BY <1>1, LeastNumber
<1>3. Rooted(ancestor) /\ best \in [Nodes -> Nodes] /\ i \in Nodes
  BY DEF ForestOK
<1>4. CASE CompressedBest[i] = best[i]
  BY <1>2, <1>3, <1>4 DEF ForestOK
<1>5. CASE ancestor[i] \in Nodes /\ CompressedBest[i] = CompressedBest[ancestor[i]]
  <2>1. ancestor[i] < i /\ i \in Nat /\ ancestor[i] \in Nat
    BY <1>3, <1>5, RootedFacts, NodeNumber
  <2>2. ancestor[i] \notin Bad
    <3> HIDE DEF Bad
    <3> QED BY <1>2, <2>1
  <2>3. InUp(f, CompressedBest[i], ancestor[i], k)
    BY <1>5, <2>2
  <2>4. i >= k /\ ancestor[i] = f[i]
    BY <1>3, <1>5, NodeFacts DEF ForestOK
  <2>5. InUp(f, CompressedBest[i], i, k)
    BY <2>3, <2>4 DEF InUp, UpClosed
  <2> QED BY <1>2, <2>5
<1> QED BY <1>3, <1>4, <1>5, CompressedFacts

\* Evaluating a node keeps the forest and returns what is found above the node.
LEMMA EvalFacts ==
  ASSUME Numbered, NEW k \in Nodes \ {0}, ForestOK(parent, ancestor, best, k), NEW v \in Nodes
  PROVE  /\ ForestOK(parent, dom_node_eval(v).ancestor, dom_node_eval(v).best, k)
         /\ InUp(parent, dom_node_eval(v).node, v, k)
<1> DEFINE e == dom_node_eval(v)
<1>0. k \in Int
  BY NodeNumber
<1>1. CASE ancestor[v] = NoNode
  <2>1. e.best = best /\ e.ancestor = ancestor /\ e.node = v
    BY <1>1 DEF dom_node_eval
  <2> QED BY <2>1, InUpNode
<1>2. CASE ancestor[v] # NoNode
  <2> DEFINE C == Chain(v)
  <2>1. /\ e.best = [i \in Nodes |-> IF i \in C THEN CompressedBest[i] ELSE best[i]]
        /\ e.ancestor = [i \in Nodes |-> IF i \in C THEN CompressedAncestor[i] ELSE ancestor[i]]
        /\ e.node = IF v \in C THEN CompressedBest[v] ELSE best[v]
    BY <1>2 DEF dom_node_eval, dom_node_compress
  <2> HIDE DEF e, C
  <2>2. Rooted(ancestor) /\ best \in [Nodes -> Nodes]
    BY DEF ForestOK
  <2>3. \A i \in Nodes : /\ CompressedAncestor[i] = NoNode /\ CompressedBest[i] \in Nodes
                         /\ InUp(parent, CompressedBest[i], i, k)
    BY <1>0, <2>2, CompressedFacts, CompressedUp
  <2>4. \A i \in Nodes : e.ancestor[i] = ancestor[i] \/ e.ancestor[i] = NoNode
    BY <2>1, <2>3
  <2>5. \A i \in Nodes : e.best[i] = best[i] \/ e.best[i] = CompressedBest[i]
    BY <2>1
  <2>6. Rooted(e.ancestor)
    <3>1. \A i \in Nodes : ancestor[i] \in Nodes \union {NoNode} /\ ancestor[i] < i /\ NoNode < i
      BY <2>2, NodeFacts, NodeNumber DEF Rooted
    <3>2. e.ancestor \in [Nodes -> Nodes \union {NoNode}]
      BY <2>1, <2>3, <3>1
    <3> QED BY <2>4, <3>1, <3>2 DEF Rooted
  <2>7. e.best \in [Nodes -> Nodes]
    BY <2>1, <2>2, <2>3
  <2>8. \A i \in Nodes : InUp(parent, e.best[i], i, k)
    BY <2>3, <2>5 DEF ForestOK
  <2>9. \A i \in Nodes : e.ancestor[i] # NoNode => i >= k /\ e.ancestor[i] = parent[i]
    BY <2>4 DEF ForestOK
  <2>10. InUp(parent, e.node, v, k)
    BY <2>1, <2>3 DEF ForestOK
  <2> QED BY <2>6, <2>7, <2>8, <2>9, <2>10 DEF ForestOK, e
<1> QED BY <1>1, <1>2

-----------------------------------------------------------------------------
(* The search.                                                              *)

\* The first n numbers are given out, one to a block.
Counted(d, n) ==
  /\ d \in [Codes -> Nodes \union {NoNode}]
  /\ n \in 1 .. N /\ Cardinality({c \in Codes : d[c] # NoNode}) = n
  /\ \A a, b \in Codes : d[a] = d[b] /\ d[a] # NoNode => a = b
  /\ \A c \in Codes : d[c] < n
  /\ \A i \in Nodes : i < n => \E c \in Codes : d[c] = i
  /\ d[Entry] = 0

\* What is visited is a tree, of which an edge leads downwards if it leads on.
Spanned(g, d, f, n) ==
  /\ Rooted(f)
  /\ \A i \in Nodes \ {0} : i < n =>
       f[i] \in Nodes /\ \E p, c \in Codes : c \in g[p] /\ d[p] = f[i] /\ d[c] = i
  /\ \A a, b \in Codes : b \in g[a] /\ d[a] # NoNode /\ d[a] < d[b] => d[a] \in Above(f, d[b])
  /\ \A x, y, z \in Nodes : z < n /\ x \in Above(f, z) /\ x < y /\ y < z => x \in Above(f, y)

\* The calls are what is above the last of them; what is visited later is below each
\* of them, and a block of which no call is left is done with.
Stacked(g, d, f, cs, n) ==
  /\ cs \in Seq(Codes)
  /\ \A j \in 1 .. Len(cs) : d[cs[j]] # NoNode
  /\ \A j, k \in 1 .. Len(cs) : j < k => d[cs[j]] < d[cs[k]]
  /\ \A j \in 1 .. Len(cs) : \A y \in Nodes : d[cs[j]] < y /\ y < n => d[cs[j]] \in Above(f, y)
  /\ \A j \in 1 .. Len(cs) : \A x \in Above(f, d[cs[j]]) :
       x = NoNode \/ \E k \in 1 .. Len(cs) : x = d[cs[k]]
  /\ \A c \in Codes : d[c] # NoNode =>
       (\E j \in 1 .. Len(cs) : cs[j] = c) \/ \A b \in g[c] : d[b] # NoNode

SearchOK(g, d, f, cs, n) == Counted(d, n) /\ Spanned(g, d, f, n) /\ Stacked(g, d, f, cs, n)

\* The first block is visited when the search begins.
LEMMA SearchStarts ==
  ASSUME NEW g \in FlowGraphs
  PROVE  SearchOK(g, [c \in Codes |-> IF c = Entry THEN 0 ELSE NoNode],
                  [i \in Nodes |-> NoNode], <<Entry>>, 1)
<1> DEFINE d == [c \in Codes |-> IF c = Entry THEN 0 ELSE NoNode]
           f == [i \in Nodes |-> NoNode]
<1>1. N >= 1 /\ 0 \in Nodes
  <2>1. IsFiniteSet(Codes) /\ Codes # {}
    BY FlowGraphAssumption
  <2>2. N # 0
    BY <2>1, FS_EmptySet DEF N
  <2> QED BY <2>2 DEF Nodes
<1>2. \A c \in Codes : d[c] # NoNode <=> c = Entry
  BY NodeFacts, <1>1
<1>3. Entry \in Codes /\ d[Entry] = 0
  BY FlowGraphAssumption
<1>4. Rooted(f)
  <2>1. \A i \in Nodes : NoNode < i
    BY NodeFacts, NodeNumber
  <2> QED BY <2>1 DEF Rooted
<1>5. Above(f, 0) = {NoNode}
  <2>1. f[0] = NoNode
    BY <1>1
  <2> HIDE DEF f
  <2> QED BY <1>1, <1>4, <2>1, AboveStep
<1>6. d \in [Codes -> Nodes \union {NoNode}]
  BY <1>1
<1>7. \A c \in Codes : d[c] < 1 /\ d[c] \in Int
  BY NodeFacts
<1>8. \A i \in Nodes : i < 1 => i = 0
  BY NodeNumber
<1> HIDE DEF d, f
<1>9. Counted(d, 1)
  <2>1. {c \in Codes : d[c] # NoNode} = {Entry}
    BY <1>2, <1>3
  <2>2. Cardinality({Entry}) = 1
    BY FS_Singleton
  <2> QED BY <1>1, <1>2, <1>3, <1>6, <1>7, <1>8, <2>1, <2>2 DEF Counted
<1>10. Spanned(g, d, f, 1)
  <2>1. \A a, b \in Codes : d[a] # NoNode => ~ (d[a] < d[b])
    BY <1>2, <1>3, <1>7
  <2>2. \A x, y, z \in Nodes : ~ (z < 1 /\ x < y /\ y < z)
    BY NodeNumber
  <2> QED BY <1>4, <1>8, <2>1, <2>2 DEF Spanned
<1>11. Stacked(g, d, f, <<Entry>>, 1)
  <2> DEFINE cs == <<Entry>>
  <2>1. cs \in Seq(Codes) /\ Len(cs) = 1 /\ cs[1] = Entry
    BY <1>3
  <2> HIDE DEF cs
  <2>2. \A j \in 1 .. Len(cs) : cs[j] = Entry /\ j = 1
    BY <2>1
  <2>3. \A y \in Nodes : ~ (0 < y /\ y < 1)
    BY NodeNumber
  <2>4. \A j, k \in 1 .. Len(cs) : ~ (j < k)
    BY <2>2
  <2>5. \A c \in Codes : d[c] # NoNode => \E j \in 1 .. Len(cs) : cs[j] = c
    BY <1>2, <2>1
  <2>6. \A j \in 1 .. Len(cs) : d[cs[j]] = 0
    BY <1>3, <2>2
  <2>7. Stacked(g, d, f, cs, 1)
    BY <1>2, <1>3, <1>5, <2>1, <2>2, <2>3, <2>4, <2>5, <2>6 DEF Stacked
  <2> QED BY <2>7 DEF cs
<1> QED BY <1>9, <1>10, <1>11 DEF SearchOK, d, f

\* A successor of the last call is visited.
LEMMA SearchVisits ==
  ASSUME NEW g \in FlowGraphs, NEW d, NEW f, NEW cs, NEW n, SearchOK(g, d, f, cs, n),
         cs # <<>>, NEW s \in g[cs[Len(cs)]], d[s] = NoNode
  PROVE  n \in Nodes /\ SearchOK(g, [d EXCEPT ![s] = n], [f EXCEPT ![n] = d[cs[Len(cs)]]], Append(cs, s), n + 1)
<1> DEFINE top == cs[Len(cs)]   p == d[top]
           d2 == [d EXCEPT ![s] = n]   f2 == [f EXCEPT ![n] = p]   cs2 == Append(cs, s)
<1>0. Counted(d, n) /\ Spanned(g, d, f, n) /\ Stacked(g, d, f, cs, n)
  BY DEF SearchOK
<1>1. cs \in Seq(Codes) /\ Len(cs) \in Nat /\ Len(cs) >= 1 /\ Len(cs) \in 1 .. Len(cs)
  BY <1>0, EmptySeq, LenProperties DEF Stacked
<1>2. top \in Codes /\ s \in Codes /\ s # Entry /\ g \in [Codes -> SUBSET Codes]
  <2>1. top \in Codes
    BY <1>1, ElementOfSeq
  <2> QED BY <2>1, GraphFacts
<1>3. /\ d \in [Codes -> Nodes \union {NoNode}] /\ n \in Nat /\ n >= 1 /\ n <= N
      /\ \A c \in Codes : d[c] \in Int /\ d[c] < n /\ (d[c] # NoNode => d[c] \in Nodes)
  <2>1. d \in [Codes -> Nodes \union {NoNode}] /\ n \in 1 .. N /\ \A c \in Codes : d[c] < n
    BY <1>0 DEF Counted
  <2>2. \A i \in Nodes \union {NoNode} : i \in Int
    BY NodeFacts, NodeNumber
  <2>3. \A c \in Codes : d[c] \in Nodes \union {NoNode}
    BY <2>1
  <2> QED BY <2>1, <2>2, <2>3
<1>4. n \in Nodes /\ Cardinality({c \in Codes : d2[c] # NoNode}) = n + 1
  <2> DEFINE V == {c \in Codes : d[c] # NoNode}  V2 == {c \in Codes : d2[c] # NoNode}
  <2>1. IsFiniteSet(Codes) /\ V \subseteq Codes /\ IsFiniteSet(V) /\ s \notin V /\ Cardinality(V) = n
    BY <1>0, FS_Subset DEF Counted
  <2>2. Cardinality(V \union {s}) = n + 1
    <3> HIDE DEF V
    <3> QED BY <2>1, FS_AddElement
  <2>3. n + 1 <= N
    <3>1. V \union {s} \subseteq Codes
      BY <1>2
    <3> HIDE DEF V
    <3> QED BY <2>1, <2>2, <3>1, FS_Subset DEF N
  <2>4. n \in Nodes
    BY <1>3, <2>3 DEF Nodes
  <2>5. V2 = V \union {s}
    BY <1>2, <1>3, <2>4, NodeFacts
  <2> QED BY <2>2, <2>4, <2>5
<1>5. p \in Nodes /\ p < n /\ p # NoNode
  BY <1>0, <1>1, <1>2, <1>3 DEF Stacked
<1>6. Rooted(f) /\ f2[n] = p /\ \A i \in Nodes : i # n => f2[i] = f[i]
  BY <1>0, <1>4 DEF Spanned, Rooted
<1>7. Rooted(f2)
  BY <1>4, <1>5, <1>6 DEF Rooted
<1>8. \A c \in Codes : d2[c] = IF c = s THEN n ELSE d[c]
  BY <1>3
<1>9. d2 \in [Codes -> Nodes \union {NoNode}]
  BY <1>3, <1>4
<1>10. /\ cs2 \in Seq(Codes) /\ Len(cs2) = Len(cs) + 1 /\ cs2[Len(cs) + 1] = s
       /\ \A j \in 1 .. Len(cs) : cs2[j] = cs[j] /\ cs[j] \in Codes /\ d[cs[j]] # NoNode
       /\ \A j \in 1 .. Len(cs2) : j \in 1 .. Len(cs) \/ j = Len(cs) + 1
  <2>1. cs2 \in Seq(Codes) /\ Len(cs2) = Len(cs) + 1 /\ cs2[Len(cs) + 1] = s
    BY <1>1, <1>2, AppendProperties
  <2>2. \A j \in 1 .. Len(cs) : cs2[j] = cs[j] /\ cs[j] \in Codes
    BY <1>1, <1>2, AppendProperties, ElementOfSeq
  <2> QED BY <1>0, <1>1, <2>1, <2>2 DEF Stacked
<1> HIDE DEF d2, f2, cs2
<1>11. \A i \in Nodes : i < n => Above(f2, i) = Above(f, i)
  <2>1. n \in Int /\ \A k \in Nodes : k < n => f2[k] = f[k]
    BY <1>3, <1>6
  <2> QED BY <1>6, <1>7, <2>1, AboveAgree
<1>12. Above(f2, n) = {p} \union Above(f, p)
  BY <1>4, <1>5, <1>6, <1>7, <1>11, AboveStep
<1>13. \A i \in Nodes : i < n + 1 => i < n \/ i = n
  BY <1>3, NodeNumber
<1>14. Counted(d2, n + 1)
  <2>1. n + 1 \in 1 .. N
    BY <1>3, <1>4 DEF Nodes
  <2>2. \A a, b \in Codes : d2[a] = d2[b] /\ d2[a] # NoNode => a = b
    <3>1. \A c \in Codes : d[c] # n
      BY <1>3
    <3>2. \A a, b \in Codes : d[a] = d[b] /\ d[a] # NoNode => a = b
      BY <1>0 DEF Counted
    <3> QED BY <1>8, <3>1, <3>2
  <2>3. \A c \in Codes : d2[c] < n + 1
    BY <1>3, <1>8
  <2>4. ASSUME NEW i \in Nodes, i < n + 1 PROVE \E c \in Codes : d2[c] = i
    <3>1. CASE i < n
      <4>1. PICK c \in Codes : d[c] = i
        BY <1>0, <3>1 DEF Counted
      <4>2. d2[c] = i
        BY <1>8, <4>1, NodeFacts
      <4> QED BY <4>2
    <3>2. CASE i = n
      BY <1>2, <1>8, <3>2
    <3> QED BY <1>13, <2>4, <3>1, <3>2
  <2>5. d2[Entry] = 0
    BY <1>0, <1>2, <1>8, FlowGraphAssumption DEF Counted
  <2> QED BY <1>4, <1>9, <2>1, <2>2, <2>3, <2>4, <2>5 DEF Counted
<1>15. \A j \in 1 .. Len(cs) : d[cs[j]] \in Above(f2, n)
  <2> TAKE j \in 1 .. Len(cs)
  <2>1. CASE j = Len(cs)
    BY <1>12, <2>1
  <2>2. CASE j # Len(cs)
    <3>1. j < Len(cs)
      BY <1>1, <2>2
    <3>2. d[cs[j]] < p
      BY <1>0, <1>1, <3>1 DEF Stacked
    <3>3. d[cs[j]] \in Above(f, p)
      BY <1>0, <1>5, <3>2 DEF Stacked
    <3> QED BY <1>12, <3>3
  <2> QED BY <2>1, <2>2
<1>16. \A x \in Above(f2, n) : x = NoNode \/ \E k \in 1 .. Len(cs) : x = d[cs[k]]
  <2>1. \A x \in Above(f, p) : x = NoNode \/ \E k \in 1 .. Len(cs) : x = d[cs[k]]
    BY <1>0, <1>1 DEF Stacked
  <2> QED BY <1>1, <1>12, <2>1
<1>17. Spanned(g, d2, f2, n + 1)
  <2>1. ASSUME NEW i \in Nodes \ {0}, i < n + 1
        PROVE  f2[i] \in Nodes /\ \E q, c \in Codes : c \in g[q] /\ d2[q] = f2[i] /\ d2[c] = i
    <3>1. CASE i < n
      <4>0. f[i] \in Nodes
        BY <1>0, <3>1 DEF Spanned
      <4>1. PICK q \in Codes, c \in Codes : c \in g[q] /\ d[q] = f[i] /\ d[c] = i
        BY <1>0, <3>1 DEF Spanned
      <4>2. c # s /\ f2[i] = f[i]
        BY <1>3, <1>6, <3>1, <4>1, NodeFacts
      <4>3. q # s
        BY <4>0, <4>1, NodeFacts
      <4> QED BY <1>8, <4>0, <4>1, <4>2, <4>3
    <3>2. CASE i = n
      <4>1. d2[top] = p /\ d2[s] = n
        BY <1>2, <1>5, <1>8
      <4> QED BY <1>2, <1>5, <1>6, <3>2, <4>1
    <3> QED BY <1>13, <2>1, <3>1, <3>2
  <2>2. ASSUME NEW a \in Codes, NEW b \in Codes, b \in g[a], d2[a] # NoNode, d2[a] < d2[b]
        PROVE  d2[a] \in Above(f2, d2[b])
    <3>1. CASE b = s
      <4>1. a # s
        BY <1>3, <1>8, <2>2, <3>1
      <4>2. d2[a] = d[a] /\ d2[b] = n
        BY <1>8, <3>1, <4>1
      <4>3. \E j \in 1 .. Len(cs) : cs[j] = a
        BY <1>0, <2>2, <3>1, <4>2 DEF Stacked
      <4> QED BY <1>15, <4>2, <4>3
    <3>2. CASE b # s
      <4>1. d2[b] = d[b] /\ d[b] < n
        BY <1>3, <1>8, <3>2
      <4>2. a # s
        BY <1>3, <1>8, <2>2, <4>1
      <4>3. d2[a] = d[a]
        BY <1>8, <4>2
      <4>4. d[a] \in Above(f, d[b])
        BY <1>0, <2>2, <4>1, <4>3 DEF Spanned
      <4>5. d[b] \in Nodes
        BY <1>3, <2>2, <4>1, <4>3, NodeFacts, NodeNumber
      <4> QED BY <1>11, <4>1, <4>3, <4>4, <4>5
    <3> QED BY <3>1, <3>2
  <2>3. ASSUME NEW x \in Nodes, NEW y \in Nodes, NEW z \in Nodes,
               z < n + 1, x \in Above(f2, z), x < y, y < z
        PROVE  x \in Above(f2, y)
    <3>1. y < n
      BY <1>3, <2>3, NodeNumber
    <3>2. CASE z < n
      BY <1>0, <1>11, <2>3, <3>1, <3>2 DEF Spanned
    <3>3. CASE z = n
      <4>1. \E k \in 1 .. Len(cs) : x = d[cs[k]]
        BY <1>16, <2>3, <3>3, NodeFacts
      <4>2. x \in Above(f, y)
        BY <1>0, <2>3, <3>1, <4>1 DEF Stacked
      <4> QED BY <1>11, <3>1, <4>2
    <3> QED BY <1>13, <2>3, <3>2, <3>3
  <2> QED BY <1>7, <2>1, <2>2, <2>3 DEF Spanned
<1>18. Stacked(g, d2, f2, cs2, n + 1)
  <2>1. \A j \in 1 .. Len(cs) : d2[cs2[j]] = d[cs[j]] /\ d[cs[j]] < n /\ d[cs[j]] \in Nodes
    BY <1>3, <1>8, <1>10
  <2>2. d2[cs2[Len(cs) + 1]] = n
    BY <1>2, <1>8, <1>10
  <2>3. \A j \in 1 .. Len(cs2) : d2[cs2[j]] # NoNode
    BY <1>4, <1>10, <2>1, <2>2, NodeFacts
  <2>4. ASSUME NEW j \in 1 .. Len(cs2), NEW k \in 1 .. Len(cs2), j < k
        PROVE  d2[cs2[j]] < d2[cs2[k]]
    <3>1. j \in 1 .. Len(cs)
      BY <1>1, <1>10, <2>4
    <3>2. CASE k \in 1 .. Len(cs)
      BY <1>0, <2>1, <2>4, <3>1, <3>2 DEF Stacked
    <3>3. CASE k = Len(cs) + 1
      BY <2>1, <2>2, <3>1, <3>3
    <3> QED BY <1>10, <3>2, <3>3
  <2>5. ASSUME NEW j \in 1 .. Len(cs2), NEW y \in Nodes, d2[cs2[j]] < y, y < n + 1
        PROVE  d2[cs2[j]] \in Above(f2, y)
    <3>1. CASE j \in 1 .. Len(cs)
      <4>1. CASE y < n
        BY <1>0, <1>11, <2>1, <2>5, <3>1, <4>1 DEF Stacked
      <4>2. CASE y = n
        BY <1>15, <2>1, <3>1, <4>2
      <4> QED BY <1>13, <2>5, <4>1, <4>2
    <3>2. CASE j = Len(cs) + 1
      BY <1>3, <2>2, <2>5, <3>2, NodeNumber
    <3> QED BY <1>10, <3>1, <3>2
  <2>6. ASSUME NEW j \in 1 .. Len(cs2), NEW x \in Above(f2, d2[cs2[j]])
        PROVE  x = NoNode \/ \E k \in 1 .. Len(cs2) : x = d2[cs2[k]]
    <3>1. x = NoNode \/ \E k \in 1 .. Len(cs) : x = d[cs[k]]
      <4>1. CASE j \in 1 .. Len(cs)
        <5>1. Above(f2, d2[cs2[j]]) = Above(f, d[cs[j]])
          BY <1>11, <2>1, <4>1
        <5> QED BY <1>0, <2>6, <4>1, <5>1 DEF Stacked
      <4>2. CASE j = Len(cs) + 1
        BY <1>16, <2>2, <2>6, <4>2
      <4> QED BY <1>10, <4>1, <4>2
    <3>2. 1 .. Len(cs) \subseteq 1 .. Len(cs2)
      BY <1>1, <1>10
    <3> QED BY <2>1, <3>1, <3>2
  <2>7. ASSUME NEW c \in Codes, d2[c] # NoNode
        PROVE  (\E j \in 1 .. Len(cs2) : cs2[j] = c) \/ \A b \in g[c] : d2[b] # NoNode
    <3>1. CASE c = s
      <4>1. Len(cs) + 1 \in 1 .. Len(cs2)
        BY <1>1, <1>10
      <4> QED BY <1>10, <3>1, <4>1
    <3>2. CASE c # s
      <4>1. (\E j \in 1 .. Len(cs) : cs[j] = c) \/ \A b \in g[c] : d[b] # NoNode
        BY <1>0, <1>8, <2>7, <3>2 DEF Stacked
      <4>2. 1 .. Len(cs) \subseteq 1 .. Len(cs2)
        BY <1>1, <1>10
      <4>3. \A b \in g[c] : d[b] # NoNode => d2[b] # NoNode
        BY <1>2, <1>4, <1>8, NodeFacts
      <4> QED BY <1>10, <4>1, <4>2, <4>3
    <3> QED BY <3>1, <3>2
  <2> QED BY <1>10, <2>3, <2>4, <2>5, <2>6, <2>7 DEF Stacked
<1> QED BY <1>4, <1>14, <1>17, <1>18 DEF SearchOK, d2, f2, cs2

\* The last call returns when all its successors are visited.
LEMMA SearchReturns ==
  ASSUME NEW g \in FlowGraphs, NEW d, NEW f, NEW cs, NEW n, SearchOK(g, d, f, cs, n),
         cs # <<>>, \A b \in g[cs[Len(cs)]] : d[b] # NoNode
  PROVE  SearchOK(g, d, f, SubSeq(cs, 1, Len(cs) - 1), n)
<1> DEFINE l == Len(cs) - 1   cs2 == SubSeq(cs, 1, l)
<1>0. Counted(d, n) /\ Spanned(g, d, f, n) /\ Stacked(g, d, f, cs, n)
  BY DEF SearchOK
<1>1. cs \in Seq(Codes) /\ Len(cs) \in Nat /\ Len(cs) >= 1
  BY <1>0, EmptySeq, LenProperties DEF Stacked
<1>2. cs2 \in Seq(Codes) /\ Len(cs2) = l /\ \A j \in 1 .. l : cs2[j] = cs[j]
  <2>1. l \in Int /\ 0 <= l /\ \A j \in 1 .. l : cs[j] \in Codes
    BY <1>1, ElementOfSeq
  <2> HIDE DEF l
  <2>2. /\ cs2 \in Seq(Codes) /\ Len(cs2) = IF 1 <= l THEN l - 1 + 1 ELSE 0
        /\ \A j \in 1 .. l - 1 + 1 : cs2[j] = cs[1 + j - 1]
    BY <2>1, SubSeqProperties
  <2>3. l - 1 + 1 = l /\ \A j \in 1 .. l : 1 + j - 1 = j
    BY <2>1
  <2> HIDE DEF cs2
  <2> QED BY <2>1, <2>2, <2>3
<1>3. /\ \A j \in 1 .. Len(cs2) : j \in 1 .. Len(cs) /\ cs2[j] = cs[j]
      /\ \A j \in 1 .. Len(cs) : j = Len(cs) \/ (j \in 1 .. Len(cs2) /\ cs2[j] = cs[j])
  BY <1>1, <1>2
<1> HIDE DEF cs2, l
<1>4. ASSUME NEW j \in 1 .. Len(cs2), NEW x \in Above(f, d[cs2[j]])
      PROVE  x = NoNode \/ \E k \in 1 .. Len(cs2) : x = d[cs2[k]]
  <2>1. CASE x = NoNode
    BY <2>1
  <2>2. CASE x # NoNode
    <3>1. PICK k \in 1 .. Len(cs) : x = d[cs[k]]
      BY <1>0, <1>3, <1>4, <2>2 DEF Stacked
    <3>2. k # Len(cs)
      <4>1. j \in 1 .. Len(cs) /\ j < Len(cs) /\ cs2[j] = cs[j]
        BY <1>1, <1>2, <1>3 DEF l
      <4>2. Len(cs) \in 1 .. Len(cs)
        BY <1>1
      <4>3. d[cs[j]] < d[cs[Len(cs)]]
        BY <1>0, <4>1, <4>2 DEF Stacked
      <4>4. d[cs[j]] \in Nodes /\ d[cs[Len(cs)]] \in Nodes
        <5>1. cs[j] \in Codes /\ cs[Len(cs)] \in Codes
          BY <1>1, <4>1, <4>2, ElementOfSeq
        <5> QED BY <1>0, <4>1, <4>2, <5>1 DEF Stacked, Counted
      <4>5. x < d[cs[j]]
        BY <1>0, <1>4, <4>1, <4>4, AboveLess DEF Spanned
      <4> QED BY <3>1, <4>3, <4>4, <4>5, NodeNumber
    <3> QED BY <1>3, <3>1, <3>2
  <2> QED BY <2>1, <2>2
<1>5. ASSUME NEW c \in Codes, d[c] # NoNode
      PROVE  (\E j \in 1 .. Len(cs2) : cs2[j] = c) \/ \A b \in g[c] : d[b] # NoNode
  <2>1. CASE c = cs[Len(cs)]
    BY <2>1
  <2>2. CASE c # cs[Len(cs)]
    BY <1>0, <1>3, <1>5, <2>2 DEF Stacked
  <2> QED BY <2>1, <2>2
<1>6. Stacked(g, d, f, cs2, n)
  <2>1. \A j \in 1 .. Len(cs2) : d[cs2[j]] # NoNode
    BY <1>0, <1>3 DEF Stacked
  <2>2. \A j, k \in 1 .. Len(cs2) : j < k => d[cs2[j]] < d[cs2[k]]
    BY <1>0, <1>3 DEF Stacked
  <2>3. \A j \in 1 .. Len(cs2) : \A y \in Nodes : d[cs2[j]] < y /\ y < n => d[cs2[j]] \in Above(f, y)
    BY <1>0, <1>3 DEF Stacked
  <2> QED BY <1>2, <1>4, <1>5, <2>1, <2>2, <2>3 DEF Stacked
<1> QED BY <1>0, <1>6 DEF SearchOK, cs2, l

\* When every block is visited, the graph is numbered.
LEMMA SearchEnds ==
  ASSUME succ \in FlowGraphs, NEW cs, NEW n, SearchOK(succ, dfs_index, parent, cs, n), visited = Codes
  PROVE  Numbered
<1>1. /\ Counted(dfs_index, n) /\ Spanned(succ, dfs_index, parent, n)
  BY DEF SearchOK
<1>2. {c \in Codes : dfs_index[c] # NoNode} = Codes
  BY DEF visited
<1>3. n = N
  BY <1>1, <1>2 DEF Counted, N
<1>4. \A i \in Nodes : i < n
  BY <1>3, NodeFacts
<1>5. \A c \in Codes : dfs_index[c] # NoNode
  BY <1>2
<1>6. dfs_index \in [Codes -> Nodes]
  BY <1>1, <1>5 DEF Counted
<1>7. /\ \A a, b \in Codes : dfs_index[a] = dfs_index[b] => a = b
      /\ \A i \in Nodes : \E c \in Codes : dfs_index[c] = i
      /\ dfs_index[Entry] = 0
  BY <1>1, <1>4, <1>5 DEF Counted
<1>8. /\ Rooted(parent)
      /\ \A i \in Nodes \ {0} : \E p, c \in Codes :
           c \in succ[p] /\ dfs_index[p] = parent[i] /\ dfs_index[c] = i
  BY <1>1, <1>4 DEF Spanned
<1>9. \A a, b \in Codes : b \in succ[a] /\ dfs_index[a] < dfs_index[b]
                            => dfs_index[a] \in Above(parent, dfs_index[b])
  BY <1>1, <1>5 DEF Spanned
<1>10. \A x, y, z \in Nodes : x \in Above(parent, z) /\ x < y /\ y < z => x \in Above(parent, y)
  BY <1>1, <1>4 DEF Spanned
<1> QED BY <1>6, <1>7, <1>8, <1>9, <1>10 DEF Numbered

-----------------------------------------------------------------------------
(* What the results are compared with, in numbers.                          *)

\* The nodes that dominate each node, apart from itself.
Doms == [i \in Nodes |-> {d \in Nodes \ {i} : Dom(d, i)}]

\* The strict dominator that all others dominate is the one that Idom chooses.
LEMMA IdomIs ==
  ASSUME Numbered, NEW i \in Nodes, NEW m \in Doms[i], \A d \in Doms[i] : Dom(d, m)
  PROVE  Idom(succ, CodeAt(i)) = CodeAt(m)
<1> DEFINE S == StrictDominators(succ, CodeAt(i))
           Best(d) == d \in S /\ \A e \in S : Dominates(succ, e, d)
<1>1. m \in Nodes /\ m # i /\ Dom(m, i)
  BY DEF Doms
<1>2. Best(CodeAt(m))
  <2>1. CodeAt(m) \in S
    BY <1>1, CodeAtFacts DEF StrictDominators, Dom
  <2>2. ASSUME NEW e \in S PROVE Dominates(succ, e, CodeAt(m))
    <3>1. e \in Codes /\ e # CodeAt(i) /\ Dominates(succ, e, CodeAt(i))
      BY DEF StrictDominators
    <3>2. dfs_index[e] \in Nodes /\ CodeAt(dfs_index[e]) = e /\ dfs_index[e] # i
      BY <3>1, CodeAtFacts
    <3>3. dfs_index[e] \in Doms[i]
      BY <3>1, <3>2 DEF Doms, Dom
    <3> QED BY <3>2, <3>3 DEF Dom
  <2> QED BY <2>1, <2>2
<1>3. ASSUME NEW d, Best(d) PROVE d = CodeAt(m)
  <2>1. d \in Codes /\ CodeAt(m) \in Codes /\ succ \in FlowGraphs
    BY <1>1, <1>3, CodeAtFacts DEF StrictDominators, Numbered
  <2>2. Dominates(succ, d, CodeAt(m)) /\ Dominates(succ, CodeAt(m), d)
    BY <1>2, <1>3
  <2> QED BY <2>1, <2>2, DominatesAntisymmetric
<1> DEFINE I == CHOOSE d \in S : \A e \in S : Dominates(succ, e, d)
<1>4. Idom(succ, CodeAt(i)) = I
  BY DEF Idom
<1>5. Best(I)
  <2> HIDE DEF S
  <2> QED BY <1>2, Zenon
<1> HIDE DEF Best, I
<1> QED BY <1>3, <1>4, <1>5

\* Every node but the first has an immediate dominator.
LEMMA IdomExists ==
  ASSUME Numbered, NEW i \in Nodes \ {0}
  PROVE  \E m \in Doms[i] : \A d \in Doms[i] : Dom(d, m) /\ d <= m
<1>1. 0 \in Doms[i]
  <2>1. 0 \in Nodes
    BY CodeAtFacts
  <2>2. Dom(0, i)
    <3> DEFINE T == {}
    <3>1. T \in SUBSET Nodes /\ \A x : x \notin T
      OBVIOUS
    <3> HIDE DEF T
    <3>2. \A x \in Nodes : ~ Dom(0, x) => x \in T
      BY <2>1, <3>1, DomFacts
    <3> QED BY <3>1, <3>2
  <2> QED BY <2>1, <2>2 DEF Doms
<1>2. \A d \in Doms[i] : d \in Nodes /\ d \in Nat /\ d # i /\ Dom(d, i) /\ d < i
  BY DomLess, NodeNumber DEF Doms
<1> DEFINE T == {i - d : d \in Doms[i]}
<1>3. T \subseteq Nat /\ T # {} /\ i \in Nat
  BY <1>1, <1>2, NodeNumber
<1>4. PICK t \in T : \A k \in T : t <= k
  <2> HIDE DEF T
  <2> QED BY <1>3, LeastNumber
<1>5. PICK m \in Doms[i] : t = i - m
  OBVIOUS
<1>6. ASSUME NEW d \in Doms[i] PROVE d <= m
  <2>1. i - d \in T
    OBVIOUS
  <2>2. i - m <= i - d
    BY <1>4, <1>5, <2>1
  <2> QED BY <1>2, <1>3, <2>2
<1>7. ASSUME NEW d \in Doms[i] PROVE Dom(d, m)
  <2>1. CASE d = m
    BY <1>2, <2>1, DomFacts
  <2>2. CASE d # m
    <3>1. d < m
      BY <1>2, <1>6, <2>2
    <3>2. m \in Above(parent, i)
      BY <1>2, DomAbove
    <3> QED BY <1>2, <3>1, <3>2, DomThrough
  <2> QED BY <2>1, <2>2
<1> QED BY <1>6, <1>7

\* The frontier of a node, as nodes.
LEMMA FrontierNodes ==
  ASSUME Numbered, NEW i \in Nodes
  PROVE  Index(DomFrontier(succ, CodeAt(i)))
           = {j \in Nodes : (\E r \in Back[j] : Dom(i, r)) /\ (i = j \/ ~ Dom(i, j))}
<1> DEFINE F == DomFrontier(succ, CodeAt(i))
           G == {j \in Nodes : (\E r \in Back[j] : Dom(i, r)) /\ (i = j \/ ~ Dom(i, j))}
<1>1. ASSUME NEW j \in Nodes
      PROVE  CodeAt(j) \in F <=> j \in G
  <2>1. (\E p \in Predecessors(succ, CodeAt(j)) : Dominates(succ, CodeAt(i), p))
          <=> \E r \in Back[j] : Dom(i, r)
    <3>1. ASSUME NEW p \in Predecessors(succ, CodeAt(j)), Dominates(succ, CodeAt(i), p)
          PROVE  \E r \in Back[j] : Dom(i, r)
      <4>1. p \in Codes /\ dfs_index[p] \in Back[j]
        BY DEF Back, Index, pred, Predecessors
      <4>2. Dom(i, dfs_index[p])
        BY <3>1, <4>1, CodeAtFacts DEF Dom
      <4> QED BY <4>1, <4>2
    <3>2. ASSUME NEW r \in Back[j], Dom(i, r)
          PROVE  \E p \in Predecessors(succ, CodeAt(j)) : Dominates(succ, CodeAt(i), p)
      <4>1. PICK p \in pred(CodeAt(j)) : r = dfs_index[p]
        BY DEF Back, Index
      <4>2. p \in Predecessors(succ, CodeAt(j)) /\ p \in Codes
        BY DEF pred, Predecessors
      <4>3. Dominates(succ, CodeAt(i), p)
        BY <3>2, <4>1, <4>2, CodeAtFacts DEF Dom
      <4> QED BY <4>2, <4>3
    <3> QED BY <3>1, <3>2
  <2>2. CodeAt(i) = CodeAt(j) <=> i = j
    BY CodeAtFacts
  <2> QED BY <2>1, <2>2, CodeAtFacts DEF DomFrontier, Dom
<1>2. F \subseteq Codes /\ G \subseteq Nodes
  BY DEF DomFrontier
<1> HIDE DEF F, G
<1>3. ASSUME NEW x PROVE x \in Index(F) <=> x \in G
  <2>1. ASSUME x \in Index(F) PROVE x \in G
    <3>1. PICK c \in F : x = dfs_index[c]
      BY <2>1 DEF Index
    <3>2. x \in Nodes /\ CodeAt(x) = c
      BY <1>2, <3>1, CodeAtFacts
    <3> QED BY <1>1, <3>2
  <2>2. ASSUME x \in G PROVE x \in Index(F)
    <3>1. x \in Nodes /\ CodeAt(x) \in F /\ dfs_index[CodeAt(x)] = x
      BY <1>1, <1>2, <2>2, CodeAtFacts
    <3> QED BY <3>1 DEF Index
  <2> QED BY <2>1, <2>2
<1>4. Index(F) = G
  BY <1>3
<1> QED BY <1>4 DEF F, G

-----------------------------------------------------------------------------
(* The loop over the frontiers.                                             *)

\* Runner, for any tree.
RunnerOf(id, i, r) ==
  LET R[k \in Nodes \union {NoNode}] ==
        IF k = id[i] THEN {} ELSE IF k = NoNode THEN {NoNode} ELSE {k} \union R[id[k]]
  IN  R[r]

LEMMA RunnerIs == \A i, r : Runner(i, r) = RunnerOf(idom, i, r)
  BY DEF Runner, RunnerOf

LEMMA RunnerStep ==
  ASSUME NEW id, Rooted(id), NEW i
  PROVE  /\ RunnerOf(id, i, NoNode) = IF NoNode = id[i] THEN {} ELSE {NoNode}
         /\ \A k \in Nodes : RunnerOf(id, i, k) = IF k = id[i] THEN {} ELSE {k} \union RunnerOf(id, i, id[k])
<1> DEFINE M == Nodes \union {NoNode}
           Defines(A) == A = [k \in M |-> IF k = id[i] THEN {} ELSE IF k = NoNode THEN {NoNode}
                                          ELSE {k} \union A[id[k]]]
           V == SUBSET M
           root == IF NoNode = id[i] THEN {} ELSE {NoNode}
           step == [x \in Nodes \X V |-> IF x[1] = id[i] THEN {} ELSE {x[1]} \union x[2]]
           L == CHOOSE A : Defines(A)
<1>1. step \in [Nodes \X V -> V] /\ root \in V
  OBVIOUS
<1>2. PICK B : Computed(B, id, V, root, step, N)
  <2> HIDE DEF V, step, root
  <2> QED BY <1>1, UpwardRecursion
<1>3. B \in [M -> V] /\ B[NoNode] = root
  BY <1>2 DEF Computed
<1>4. \A k \in Nodes : B[k] = IF k = id[i] THEN {} ELSE {k} \union B[id[k]]
  <2> TAKE k \in Nodes
  <2>1. id[k] \in M /\ k < N
    BY RootedFacts, NodeFacts
  <2>2. B[k] = step[<<k, B[id[k]]>>]
    BY <1>2, <2>1 DEF Computed
  <2>3. <<k, B[id[k]]>> \in Nodes \X V
    BY <1>3, <2>1
  <2> QED BY <2>2, <2>3
<1>5. Defines(B)
  BY <1>3, <1>4, NodeFacts
<1>6. Defines(L)
  <2> HIDE DEF Defines
  <2> QED BY <1>5, Zenon
<1>7. \A k : RunnerOf(id, i, k) = L[k]
  BY DEF RunnerOf
<1> HIDE DEF L
<1>8. /\ L[NoNode] = root
      /\ \A k \in Nodes : L[k] = IF k = id[i] THEN {} ELSE {k} \union L[id[k]]
  BY <1>6, NodeFacts
<1> QED BY <1>7, <1>8

\* A runner that does not run off the top visits what is below the dominator.
LEMMA RunnerVisits ==
  ASSUME NEW id, Rooted(id), NEW i, NEW m \in Nodes, id[i] = m,
         NEW r \in Nodes, NoNode \notin RunnerOf(id, i, r)
  PROVE  /\ r = m \/ m \in Above(id, r)
         /\ RunnerOf(id, i, r) = {k \in Nodes : k \in {r} \union Above(id, r) /\ m < k}
<1> DEFINE W(k) == {l \in Nodes : l \in {k} \union Above(id, k) /\ m < l}
           Good(k) == (k = m \/ m \in Above(id, k)) /\ RunnerOf(id, i, k) = W(k)
           Bad == {k \in Nodes : NoNode \notin RunnerOf(id, i, k) /\ ~ Good(k)}
<1> SUFFICES ASSUME Bad # {} PROVE FALSE
  OBVIOUS
<1>1. Bad \subseteq Nat
  BY NodeFacts
<1>2. PICK k \in Bad : \A l \in Bad : k <= l
  <2> HIDE DEF Bad
  <2> QED BY <1>1, LeastNumber
<1>3. k \in Nodes /\ id[k] \in Nodes \union {NoNode} /\ id[k] < k /\ k \in Nat /\ id[k] \in Int
  BY RootedFacts
<1>4. id[k] \notin Bad
  <2> HIDE DEF Bad
  <2> QED BY <1>2, <1>3
<1>5. NoNode \notin RunnerOf(id, i, k) /\ ~ Good(k)
  BY <1>2
<1>6. m \in Int /\ NoNode # m
  BY NodeFacts, NodeNumber
<1>7. k # m
  <2> SUFFICES ASSUME k = m PROVE FALSE
    OBVIOUS
  <2>1. RunnerOf(id, i, m) = {}
    BY RunnerStep
  <2>2. \A l \in Above(id, m) : l < m
    BY AboveLess
  <2>3. W(m) = {}
    BY <2>2, NodeNumber
  <2> QED BY <1>5, <2>1, <2>3
<1>8. RunnerOf(id, i, k) = {k} \union RunnerOf(id, i, id[k])
  BY <1>3, <1>7, RunnerStep
<1>9. id[k] \in Nodes
  <2> SUFFICES ASSUME id[k] = NoNode PROVE FALSE
    BY <1>3
  <2>1. NoNode \in RunnerOf(id, i, NoNode)
    BY <1>6, RunnerStep
  <2> QED BY <1>5, <1>8, <2>1
<1>10. Good(id[k])
  BY <1>4, <1>5, <1>8, <1>9
<1>11. Above(id, k) = {id[k]} \union Above(id, id[k])
  BY <1>3, AboveStep
<1>12. m \in Above(id, k)
  BY <1>10, <1>11
<1>13. m < k
  BY <1>3, <1>12, AboveLess
<1>14. RunnerOf(id, i, k) = W(k)
  BY <1>3, <1>8, <1>10, <1>11, <1>13
<1> QED BY <1>5, <1>12, <1>14

\* Every predecessor of a node is below what idom says of the node.
Met == \A j \in Nodes \ {0} : \A r \in Back[j] : r = idom[j] \/ idom[j] \in Above(idom, r)

\* What idom says is above the node in the tree of the search, at or below all that
\* dominate it.
NotTooHigh(f, D, id, n) ==
  \A v \in Nodes \ {0} : v < n => id[v] \in Nodes /\ id[v] \in Above(f, v) /\ \A d \in D[v] : d <= id[v]

\* If so, it is a dominator, ..
LEMMA MetDominates ==
  ASSUME Numbered, Rooted(idom), Met, NEW j \in Nodes \ {0}, NEW m \in Nodes, m = idom[j]
  PROVE  Dom(m, j)
<1> DEFINE T == {x \in Nodes : x # m /\ m \notin Above(idom, x)}
<1>1. T \in SUBSET Nodes
  OBVIOUS
<1>2. m # 0 => 0 \in T
  <2>1. 0 \in Nodes /\ m # NoNode
    BY CodeAtFacts, NodeFacts
  <2>2. idom[0] = NoNode
    BY <2>1, NodeFacts, RootedFacts
  <2>3. Above(idom, 0) = {NoNode}
    BY <2>1, <2>2, AboveStep
  <2> QED BY <2>1, <2>3
<1>3. ASSUME NEW i \in T, NEW x \in Nodes, Leads(i, x), x # m PROVE x \in T
  <2>1. x # 0 /\ i \in Back[x] /\ i \in Nodes
    BY <1>3, TreeFacts, PredFacts
  <2>2. i = idom[x] \/ idom[x] \in Above(idom, i)
    BY <2>1 DEF Met
  <2>3. i # m /\ m \notin Above(idom, i)
    OBVIOUS
  <2>4. idom[x] \in Nodes \union {NoNode} /\ Above(idom, NoNode) = {}
    BY RootedFacts, AboveStep
  <2>5. Above(idom, x) = {idom[x]} \union Above(idom, idom[x])
    BY AboveStep
  <2>6. idom[x] \in Above(idom, i) => Above(idom, idom[x]) \subseteq Above(idom, i)
    BY <2>1, <2>4, AboveAbove
  <2>7. m \notin Above(idom, x)
    BY <2>2, <2>3, <2>5, <2>6
  <2> QED BY <1>3, <2>7
<1>4. j \notin T
  BY AboveStep
<1> HIDE DEF T
<1> QED BY <1>1, <1>2, <1>3, <1>4, DomFacts

\* .. and the immediate one.
LEMMA MetIsIdom ==
  ASSUME Numbered, Rooted(idom), Met, NotTooHigh(parent, Doms, idom, N), NEW j \in Nodes \ {0}
  PROVE  /\ idom[j] \in Doms[j] /\ \A d \in Doms[j] : Dom(d, idom[j])
         /\ Idom(succ, CodeAt(j)) = CodeAt(idom[j])
<1>1. /\ idom[j] \in Nodes /\ idom[j] \in Above(parent, j)
      /\ \A d \in Doms[j] : d <= idom[j]
  BY NodeFacts DEF NotTooHigh
<1>2. idom[j] \in Doms[j]
  <2>1. Dom(idom[j], j)
    BY <1>1, MetDominates
  <2>2. idom[j] # j
    BY RootedFacts, <1>1, NodeNumber
  <2> QED BY <1>1, <2>1, <2>2 DEF Doms
<1>3. ASSUME NEW d \in Doms[j] PROVE Dom(d, idom[j])
  <2>1. d \in Nodes /\ Dom(d, j) /\ d <= idom[j]
    BY <1>1 DEF Doms
  <2>2. CASE d = idom[j]
    BY <1>1, <2>2, DomFacts
  <2>3. CASE d # idom[j]
    <3>1. d < idom[j]
      BY <1>1, <2>1, <2>3, NodeNumber
    <3> QED BY <1>1, <2>1, <3>1, DomThrough
  <2> QED BY <2>2, <2>3
<1> QED BY <1>2, <1>3, IdomIs

\* The dominators of a node are those above it in idom.
LEMMA MetDoms ==
  ASSUME Numbered, Rooted(idom), Met, NotTooHigh(parent, Doms, idom, N),
         NEW i \in Nodes, NEW r \in Nodes
  PROVE  Dom(i, r) <=> i = r \/ i \in Above(idom, r)
<1> DEFINE Good(x) == Dom(i, x) <=> i = x \/ i \in Above(idom, x)
           Bad == {x \in Nodes : ~ Good(x)}
<1> SUFFICES ASSUME Bad # {} PROVE FALSE
  OBVIOUS
<1>1. Bad \subseteq Nat
  BY NodeFacts
<1>2. PICK x \in Bad : \A l \in Bad : x <= l
  <2> HIDE DEF Bad
  <2> QED BY <1>1, LeastNumber
<1>3. x \in Nodes /\ idom[x] < x /\ x \in Nat /\ idom[x] \in Int /\ ~ Good(x)
  BY <1>2, RootedFacts
<1>4. idom[x] \notin Bad
  <2> HIDE DEF Bad
  <2> QED BY <1>2, <1>3
<1>5. Dom(x, x) /\ Above(idom, x) = {idom[x]} \union Above(idom, idom[x])
  BY <1>3, DomFacts, AboveStep
<1>6. x # i
  BY <1>3, <1>5
<1>7. CASE x = 0
  <2>1. ~ Dom(i, x)
    BY <1>6, <1>7, DomFacts
  <2>2. idom[x] = NoNode
    BY <1>3, <1>7, NodeFacts, RootedFacts
  <2>3. i \notin Above(idom, x)
    BY <1>5, <2>2, AboveStep, NodeFacts
  <2> QED BY <1>3, <1>6, <2>1, <2>3
<1>8. CASE x # 0
  <2>1. /\ idom[x] \in Doms[x] /\ \A d \in Doms[x] : Dom(d, idom[x])
    BY <1>3, <1>8, MetIsIdom
  <2>2. idom[x] \in Nodes /\ Dom(idom[x], x)
    BY <1>3, <2>1 DEF Doms
  <2>3. Good(idom[x])
    BY <1>4, <2>2
  <2>4. Dom(i, x) => Dom(i, idom[x])
    BY <1>3, <1>6, <2>1 DEF Doms
  <2>5. Dom(i, idom[x]) => Dom(i, x)
    BY <1>3, <2>2, DomOrder
  <2> QED BY <1>3, <1>5, <1>6, <2>3, <2>4, <2>5
<1> QED BY <1>7, <1>8

\* Node j has several predecessors.
Many(P, j) == Cardinality(P[j]) >= 2

LEMMA ManyIsJoin == \A j \in Nodes : IsJoin(j) <=> Many(PredCodes, j)
  BY DEF IsJoin, Many, PredCodes

\* What the loop has done when it comes to node k.
Joined(P, B, id, fr, k) ==
  /\ \A j \in Nodes \ {0} : j < k /\ Many(P, j) => \A r \in B[j] : NoNode \notin RunnerOf(id, j, r)
  /\ fr = [i \in Nodes |-> {j \in Nodes \ {0} : /\ j < k /\ Many(P, j)
                                                /\ \E r \in B[j] : i \in RunnerOf(id, j, r)}]

\* If a node has one predecessor, that is its parent and its dominator.
LEMMA SolePred ==
  ASSUME Numbered, NEW j \in Nodes \ {0}, ~ Many(PredCodes, j)
  PROVE  Back[j] = {parent[j]} /\ parent[j] \in Doms[j]
<1> DEFINE S == PredCodes[j]   p == parent[j]   q == CodeAt(p)
<1>1. p \in Nodes /\ Leads(p, j) /\ q \in Codes /\ dfs_index[q] = p
  BY TreeFacts, CodeAtFacts
<1>2. q \in S /\ S \subseteq Codes /\ IsFiniteSet(S)
  <2>1. q \in S /\ S \subseteq Codes
    BY <1>1, PredFacts
  <2> HIDE DEF S
  <2> QED BY <2>1, FS_Subset, FlowGraphAssumption
<1>3. \A c \in S : c = q
  <2> SUFFICES ASSUME NEW c \in S, c # q PROVE FALSE
    OBVIOUS
  <2> HIDE DEF S, q, p
  <2>1. IsFiniteSet({q}) /\ Cardinality({q}) = 1 /\ Cardinality({q} \union {c}) = 2
    <3>1. IsFiniteSet({q}) /\ Cardinality({q}) = 1
      BY FS_Singleton
    <3>2. Cardinality({q} \union {c}) = Cardinality({q}) + 1
      BY <3>1, FS_AddElement
    <3> QED BY <3>1, <3>2
  <2>2. {q} \union {c} \subseteq S
    BY <1>2
  <2>3. Cardinality({q} \union {c}) <= Cardinality(S)
    BY <1>2, <2>2, FS_Subset
  <2> QED BY <1>2, <2>1, <2>3, FS_CardinalityType DEF Many, S
<1>4. S = {q}
  BY <1>2, <1>3
<1>5. Back[j] = {p}
  <2>1. Back[j] = {dfs_index[c] : c \in S}
    BY DEF Back, PredCodes, Index
  <2> HIDE DEF S, q, p
  <2> QED BY <1>1, <1>4, <2>1
<1>6. Dom(p, j)
  <2> DEFINE T == Nodes \ {p, j}
  <2>1. p # 0 => 0 \in T
    BY CodeAtFacts
  <2>2. ASSUME NEW i \in T, NEW x \in Nodes, Leads(i, x), x # p PROVE x \in T
    <3>1. x # j
      BY <1>5, <2>2, PredFacts
    <3> QED BY <2>2, <3>1
  <2>3. T \in SUBSET Nodes /\ j \notin T
    OBVIOUS
  <2> HIDE DEF T, p
  <2> QED BY <1>1, <2>1, <2>2, <2>3, DomFacts
<1>7. p # j
  BY <1>1, TreeFacts, RootedFacts, NodeNumber
<1> QED BY <1>1, <1>5, <1>6, <1>7 DEF Doms

\* When the loop has been through all nodes, every predecessor is below the dominator.
LEMMA JoinedMet ==
  ASSUME Numbered, Rooted(idom), NotTooHigh(parent, Doms, idom, N),
         Joined(PredCodes, Back, idom, frontier, N)
  PROVE  Met
<1> SUFFICES ASSUME NEW j \in Nodes \ {0}, NEW r \in Back[j]
             PROVE  r = idom[j] \/ idom[j] \in Above(idom, r)
  BY DEF Met
<1>1. /\ idom[j] \in Nodes /\ idom[j] \in Above(parent, j) /\ r \in Nodes
      /\ \A d \in Doms[j] : d <= idom[j]
  BY NodeFacts, PredFacts DEF NotTooHigh
<1>2. CASE Many(PredCodes, j)
  <2>1. NoNode \notin RunnerOf(idom, j, r)
    BY <1>2, NodeFacts DEF Joined
  <2> QED BY <1>1, <2>1, RunnerVisits
<1>3. CASE ~ Many(PredCodes, j)
  <2>1. r = parent[j] /\ parent[j] <= idom[j]
    BY <1>1, <1>3, SolePred
  <2>2. Above(parent, j) = {parent[j]} \union Above(parent, parent[j])
    BY TreeFacts, AboveStep
  <2>3. \A x \in Above(parent, parent[j]) : x < parent[j]
    BY TreeFacts, AboveLess
  <2>4. parent[j] \in Nodes
    BY TreeFacts
  <2>5. ~ (idom[j] < parent[j])
    BY <1>1, <2>1, <2>4, NodeNumber
  <2> QED BY <1>1, <2>1, <2>2, <2>3, <2>5
<1> QED BY <1>2, <1>3

\* A predecessor that i dominates makes the node one of the frontier of i if and only
\* if i is below the dominator of the node.
LEMMA MetBelow ==
  ASSUME Numbered, Rooted(idom), Met, NotTooHigh(parent, Doms, idom, N),
         NEW i \in Nodes, NEW j \in Nodes \ {0}, NEW r \in Back[j], Dom(i, r)
  PROVE  idom[j] < i <=> i = j \/ ~ Dom(i, j)
<1> DEFINE m == idom[j]
<1>1. m \in Doms[j] /\ \A d \in Doms[j] : Dom(d, m)
  BY MetIsIdom
<1>2. m \in Nodes /\ Dom(m, j) /\ m < j /\ r \in Nodes
  BY <1>1, PredFacts, DomLess DEF Doms
<1>3. \A d \in Doms[j] : d <= m
  BY <1>2, NodeFacts DEF NotTooHigh
<1>4. ASSUME m < i, Dom(i, j) PROVE i = j
  <2> SUFFICES ASSUME i # j PROVE FALSE
    OBVIOUS
  <2>1. i \in Doms[j]
    BY <1>4 DEF Doms
  <2> QED BY <1>2, <1>3, <1>4, <2>1, NodeNumber
<1>5. ASSUME ~ Dom(i, j) PROVE m < i
  <2>1. ~ Dom(i, m)
    BY <1>2, <1>5, DomOrder
  <2>2. i # m /\ i \notin Above(idom, m)
    BY <1>2, <2>1, MetDoms
  <2>3. r = m \/ m \in Above(idom, r)
    BY DEF Met
  <2>4. i = r \/ i \in Above(idom, r)
    BY <1>2, MetDoms
  <2>5. r # m
    BY <2>2, <2>4
  <2>6. m \in Above(idom, r)
    BY <2>3, <2>5
  <2>7. m < r
    BY <1>2, <2>6, AboveLess
  <2>8. i # r => ~ (i < m)
    BY <1>2, <2>2, <2>4, <2>6, AboveLinear
  <2> QED BY <1>2, <2>2, <2>7, <2>8, NodeNumber
<1> QED BY <1>2, <1>4, <1>5

\* Then the frontiers are exact.
LEMMA MetFrontier ==
  ASSUME Numbered, Rooted(idom), NotTooHigh(parent, Doms, idom, N),
         Joined(PredCodes, Back, idom, frontier, N), NEW i \in Nodes
  PROVE  frontier[i] = Index(DomFrontier(succ, CodeAt(i)))
<1>1. Met
  BY JoinedMet
<1> DEFINE F == {j \in Nodes \ {0} : /\ j < N /\ Many(PredCodes, j)
                                     /\ \E r \in Back[j] : i \in RunnerOf(idom, j, r)}
           G == {j \in Nodes : (\E r \in Back[j] : Dom(i, r)) /\ (i = j \/ ~ Dom(i, j))}
<1>2. frontier[i] = F
  BY DEF Joined
<1>3. ASSUME NEW j \in Nodes \ {0}, Many(PredCodes, j), NEW r \in Back[j]
      PROVE  i \in RunnerOf(idom, j, r) <=> Dom(i, r) /\ idom[j] < i
  <2>1. NoNode \notin RunnerOf(idom, j, r) /\ r \in Nodes /\ idom[j] \in Nodes
    BY <1>3, NodeFacts, PredFacts DEF Joined, NotTooHigh
  <2>2. RunnerOf(idom, j, r) = {k \in Nodes : k \in {r} \union Above(idom, r) /\ idom[j] < k}
    BY <2>1, RunnerVisits
  <2>3. Dom(i, r) <=> i = r \/ i \in Above(idom, r)
    BY <1>1, <2>1, MetDoms
  <2> QED BY <2>2, <2>3
<1>4. ASSUME NEW j \in Nodes PROVE j \in F <=> j \in G
  <2>1. CASE j = 0
    BY <2>1, PredFacts, TreeFacts
  <2>2. CASE j # 0 /\ Many(PredCodes, j)
    <3>1. \A r \in Back[j] : i \in RunnerOf(idom, j, r) <=> Dom(i, r) /\ (i = j \/ ~ Dom(i, j))
      BY <1>1, <1>3, <2>2, MetBelow
    <3>2. j < N
      BY NodeFacts
    <3> QED BY <2>2, <3>1, <3>2
  <2>3. CASE j # 0 /\ ~ Many(PredCodes, j)
    <3>1. Back[j] = {parent[j]} /\ parent[j] \in Nodes
      BY <2>3, SolePred, TreeFacts
    <3>2. idom[j] = parent[j]
      <4>1. parent[j] = idom[j] \/ idom[j] \in Above(idom, parent[j])
        BY <1>1, <2>3, <3>1 DEF Met
      <4>2. parent[j] \in Doms[j]
        BY <2>3, SolePred
      <4>3. parent[j] <= idom[j] /\ idom[j] \in Nodes
        BY <2>3, <4>2, NodeFacts DEF NotTooHigh
      <4>4. \A x \in Above(idom, parent[j]) : x < parent[j]
        BY <3>1, AboveLess
      <4> QED BY <3>1, <4>1, <4>3, <4>4, NodeNumber
    <3>3. ~ (Dom(i, parent[j]) /\ (i = j \/ ~ Dom(i, j)))
      <4> SUFFICES ASSUME Dom(i, parent[j]), i = j \/ ~ Dom(i, j) PROVE FALSE
        OBVIOUS
      <4>1. idom[j] < i
        BY <1>1, <2>3, <3>1, MetBelow
      <4>2. i = parent[j] \/ i < parent[j]
        BY <3>1, DomLess
      <4> QED BY <3>1, <3>2, <4>1, <4>2, NodeNumber
    <3> QED BY <2>3, <3>1, <3>3
  <2> QED BY <2>1, <2>2, <2>3
<1>5. F = G
  <2>1. F \subseteq Nodes /\ G \subseteq Nodes
    OBVIOUS
  <2> HIDE DEF F, G
  <2> QED BY <1>4, <2>1
<1>6. Index(DomFrontier(succ, CodeAt(i))) = G
  BY FrontierNodes
<1> QED BY <1>2, <1>5, <1>6

-----------------------------------------------------------------------------
(* The real semidominator.                                                  *)

\* What RealSemi takes the least of has all that a path through larger nodes comes
\* from: it is computed in as many steps as there are blocks, which is enough.
LEMMA RealSemiLeast ==
  ASSUME Numbered, NEW i \in Nodes
  PROVE  \E X : /\ BackClosed(Back, X, i) /\ i \in X
                /\ RealSemi(i) = CHOOSE m \in X : \A x \in X : m <= x
<1> DEFINE g == [c \in Codes |-> IF dfs_index[c] > i THEN pred(c) ELSE {}]
           seed == pred(CodeAt(i))
           More(S) == UNION {Index(pred(CodeAt(j))) : j \in {x \in S : x > i}}
           Defines(R) == R = [k \in 0 .. N |-> IF k = 0 THEN Index(pred(CodeAt(i)))
                                ELSE R[k - 1] \union UNION {Index(pred(CodeAt(j))) : j \in {x \in R[k - 1] : x > i}}]
           L == CHOOSE R : Defines(R)
<1>1. g \in [Codes -> SUBSET Codes] /\ seed \in SUBSET Codes
  BY DEF pred, Predecessors
<1>2. PICK f : IsLayers(f, g, seed, N)
  <2> HIDE DEF g, seed
  <2> QED BY <1>1, LayersExist
<1>3. \A S \in SUBSET Codes : Index(After(g, S)) = More(Index(S))
  <2> SUFFICES ASSUME NEW S \in SUBSET Codes, NEW y
               PROVE  y \in Index(After(g, S)) <=> y \in More(Index(S))
    OBVIOUS
  <2>1. ASSUME y \in Index(After(g, S)) PROVE y \in More(Index(S))
    <3>0. PICK c \in S : \E p \in g[c] : y = dfs_index[p]
      BY <2>1 DEF Index, After
    <3>1. PICK p \in g[c] : y = dfs_index[p]
      BY <3>0
    <3>2. c \in Codes /\ dfs_index[c] > i /\ p \in pred(c)
      OBVIOUS
    <3>3. CodeAt(dfs_index[c]) = c /\ dfs_index[c] \in Index(S)
      BY <3>2, CodeAtFacts DEF Index
    <3>4. y \in Index(pred(CodeAt(dfs_index[c])))
      BY <3>1, <3>2, <3>3 DEF Index
    <3> QED BY <3>2, <3>3, <3>4
  <2>2. ASSUME y \in More(Index(S)) PROVE y \in Index(After(g, S))
    <3>1. PICK j \in Index(S) : j > i /\ y \in Index(pred(CodeAt(j)))
      BY <2>2
    <3>2. PICK c \in S : j = dfs_index[c]
      BY DEF Index
    <3>3. CodeAt(j) = c /\ c \in Codes
      BY <3>2, CodeAtFacts
    <3>4. PICK p \in pred(c) : y = dfs_index[p]
      BY <3>1, <3>3 DEF Index
    <3>5. g[c] = pred(c)
      BY <3>1, <3>2, <3>3
    <3> QED BY <3>4, <3>5 DEF Index, After
  <2> QED BY <2>1, <2>2
<1>4. \A k \in 0 .. N : f[k] \in SUBSET Codes
  BY <1>2 DEF IsLayers
<1>5. /\ f[0] = seed
      /\ \A k \in 1 .. N : Index(f[k]) = Index(f[k - 1]) \union More(Index(f[k - 1]))
  <2>1. f[0] = seed /\ \A k \in 1 .. N : f[k] = f[k - 1] \union After(g, f[k - 1])
    BY <1>2 DEF IsLayers
  <2>2. \A S, T : Index(S \union T) = Index(S) \union Index(T)
    BY DEF Index
  <2> HIDE DEF More, g
  <2> QED BY <1>3, <1>4, <2>1, <2>2
<1> DEFINE F == [k \in 0 .. N |-> Index(f[k])]
<1>6. Defines(F)
  <2>1. \A k \in 0 .. N : k # 0 => k \in 1 .. N /\ k - 1 \in 0 .. N
    OBVIOUS
  <2>2. \A k \in 0 .. N : F[k] = IF k = 0 THEN Index(seed) ELSE F[k - 1] \union More(F[k - 1])
    <3> HIDE DEF More, seed
    <3> QED BY <1>5, <2>1
  <2>3. F = [k \in 0 .. N |-> IF k = 0 THEN Index(seed) ELSE F[k - 1] \union More(F[k - 1])]
    <3> HIDE DEF More, seed
    <3> QED BY <2>2
  <2> QED BY <2>3
<1>7. Defines(L)
  <2> HIDE DEF Defines
  <2> QED BY <1>6, Zenon
<1>8. RealSemi(i) = CHOOSE m \in L[N] \union {i} : \A x \in L[N] \union {i} : m <= x
  BY DEF RealSemi
<1>9. \A k \in 0 .. N : L[k] = IF k = 0 THEN Index(seed) ELSE L[k - 1] \union More(L[k - 1])
  <2> HIDE DEF L
  <2> QED BY <1>7
<1> HIDE DEF L
<1>10. L[N] = Index(f[N])
  <2> DEFINE Bad == {k \in 0 .. N : L[k] # Index(f[k])}
  <2> SUFFICES ASSUME Bad # {} PROVE FALSE
    OBVIOUS
  <2>1. Bad \subseteq Nat
    OBVIOUS
  <2>2. PICK k \in Bad : \A j \in Bad : k <= j
    <3> HIDE DEF Bad
    <3> QED BY <2>1, LeastNumber
  <2>3. k \in 0 .. N /\ L[k] # Index(f[k])
    OBVIOUS
  <2>4. k # 0
    BY <1>5, <1>9, <2>3
  <2>5. k - 1 \in 0 .. N /\ k \in 1 .. N /\ k - 1 \notin Bad
    <3>1. k - 1 \in 0 .. N /\ k \in 1 .. N /\ ~ (k <= k - 1)
      BY <2>3, <2>4
    <3> HIDE DEF Bad
    <3> QED BY <2>2, <3>1
  <2>6. L[k - 1] = Index(f[k - 1])
    BY <2>5
  <2>7. L[k] = L[k - 1] \union More(L[k - 1])
    BY <1>9, <2>3, <2>4
  <2> HIDE DEF More
  <2> QED BY <1>5, <2>3, <2>5, <2>6, <2>7
<1> DEFINE X == L[N] \union {i}
<1>11. X \in SUBSET Nodes
  <2>1. f[N] \in SUBSET Codes
    BY <1>4
  <2>2. Index(f[N]) \subseteq Nodes
    BY <2>1, CodeAtFacts DEF Index
  <2> QED BY <1>10, <2>2
<1>12. seed \subseteq f[N] /\ After(g, f[N]) \subseteq f[N]
  <2> HIDE DEF g, seed
  <2>1. 0 \in 0 .. N /\ N \in 0 .. N
    OBVIOUS
  <2>2. f[0] \subseteq f[N]
    BY <1>2, <2>1, LayersGrow
  <2> QED BY <1>1, <1>2, <1>5, <2>2, LayersComplete
<1>13. ASSUME NEW x \in X, x >= i PROVE Back[x] \subseteq X
  <2>1. CASE x = i
    <3>1. Back[i] = Index(seed)
      BY DEF Back
    <3> QED BY <1>10, <1>12, <2>1, <3>1 DEF Index
  <2>2. CASE x # i
    <3>1. x \in Index(f[N]) /\ x \in Nodes
      BY <1>10, <1>11, <2>2
    <3>2. x > i
      BY <1>13, <2>2, <3>1, NodeNumber
    <3>3. PICK c \in f[N] : x = dfs_index[c]
      BY <3>1 DEF Index
    <3>4. c \in Codes /\ CodeAt(x) = c
      BY <1>4, <3>3, CodeAtFacts
    <3>5. g[c] = pred(c) /\ g[c] \subseteq f[N]
      BY <1>12, <3>2, <3>3, <3>4 DEF After
    <3>6. Back[x] = Index(pred(c))
      BY <3>1, <3>4 DEF Back
    <3> QED BY <1>10, <3>5, <3>6 DEF Index
  <2> QED BY <2>1, <2>2
<1> HIDE DEF X
<1>14. BackClosed(Back, X, i)
  BY <1>11, <1>13 DEF BackClosed
<1>15. i \in X
  BY DEF X
<1> QED BY <1>8, <1>14, <1>15 DEF X

\* No estimate is less than the real semidominator.
LEMMA SemiReal ==
  ASSUME Numbered, NEW i \in Nodes, NEW m, InSemi(Back, m, i)
  PROVE  m >= RealSemi(i)
<1>1. PICK X : /\ BackClosed(Back, X, i) /\ i \in X
               /\ RealSemi(i) = CHOOSE r \in X : \A x \in X : r <= x
  BY RealSemiLeast
<1>2. m \in X /\ X \subseteq Nat /\ X # {} /\ X \subseteq Nodes
  BY <1>1, NodeNumber DEF InSemi, BackClosed
<1>3. \E r \in X : \A x \in X : r <= x
  BY <1>2, LeastNumber
<1>4. RealSemi(i) \in X /\ \A x \in X : RealSemi(i) <= x
  BY <1>1, <1>3
<1> QED BY <1>2, <1>4, NodeNumber

-----------------------------------------------------------------------------
(* The invariant.                                                           *)

\* The arrays hold indices of nodes, the variables of the loops nodes and blocks.
Arrays ==
  /\ succ \in FlowGraphs /\ Rooted(parent) /\ Rooted(ancestor)
  /\ dfs_index \in [Codes -> Nodes \union {NoNode}]
  /\ pc \in {"dfs", "semi", "idom", "frontier", "done", "off_end"}
  /\ semi \in [Nodes -> Nodes] /\ best \in [Nodes -> Nodes]
  /\ idom \in [Nodes -> Nodes \union {NoNode}]
  /\ bucket \in [Nodes -> SUBSET Nodes] /\ frontier \in [Nodes -> SUBSET Nodes]
  /\ w \in 0 .. N /\ preds \subseteq Codes /\ members \subseteq Nodes

\* As long as the search runs, nothing else has.
Fresh ==
  /\ semi = [i \in Nodes |-> i] /\ best = [i \in Nodes |-> i]
  /\ ancestor = [i \in Nodes |-> NoNode] /\ idom = [i \in Nodes |-> 0]
  /\ bucket = [i \in Nodes |-> {}]

\* A node is in a bucket only after its semidominator was estimated to be that, or
\* more than it is now.
Buckets(B, se, bu, k) ==
  \A s \in Nodes : \A v \in bu[s] : v >= k /\ InSemi(B, s, v) /\ se[v] <= s

\* The nodes behind k are in the bucket of their estimate, which is at most the parent.
Finished(f, se, bu, k) ==
  \A v \in Nodes : v > k => v \in bu[se[v]] /\ se[v] <= f[v]

\* So is k as soon as a predecessor, and its parent, is evaluated.
Current(f, P, d, se, bu, ps, k) ==
  /\ ps \subseteq P[k]
  /\ ps # P[k] => k \in bu[se[k]]
  /\ \A c \in P[k] \ ps : d[c] = f[k] => se[k] <= f[k]

Collected(f, bu, ps, ms, k) ==
  /\ ms \subseteq bu[f[k]]
  /\ ps # {} => ms = {}

\* The relative dominator is above the node, at or below its semidominator.
Relative(f, se, id, v) == id[v] \in Above(f, v) /\ se[v] <= id[v]

\* The child of the semidominator on the way to v is not through yet.
Waits(f, se, ps, ms, k, v) ==
  \E x \in Nodes \ {0} : /\ f[x] = se[v] /\ x \in {v} \union Above(f, v)
                         /\ x < k \/ (x = k /\ (ps # {} \/ v \in ms))

Evaluated(f, se, id, ps, ms, k) ==
  \A v \in Nodes : v > k \/ (v = k /\ ps = {}) => Relative(f, se, id, v) \/ Waits(f, se, ps, ms, k, v)

SemiPhase ==
  /\ w \in Nodes \ {0}
  /\ Estimates(Back, semi, w)
  /\ ForestOK(parent, ancestor, best, w)
  /\ idom \in [Nodes -> Nodes]
  /\ Buckets(Back, semi, bucket, w)
  /\ Finished(parent, semi, bucket, w)
  /\ Current(parent, PredCodes, dfs_index, semi, bucket, preds, w)
  /\ Collected(parent, bucket, preds, members, w)
  /\ Evaluated(parent, semi, idom, preds, members, w)

\* From node k on the dominators are relative.
StillRelative(f, B, se, id, k) ==
  /\ \A v \in Nodes : InSemi(B, se[v], v)
  /\ \A v \in Nodes \ {0} : v >= k => Relative(f, se, id, v)

IdomPhase ==
  /\ w \in 1 .. N /\ idom \in [Nodes -> Nodes]
  /\ StillRelative(parent, Back, semi, idom, w)
  /\ NotTooHigh(parent, Doms, idom, w)

FrontierPhase ==
  /\ w \in 1 .. N /\ Rooted(idom)
  /\ NotTooHigh(parent, Doms, idom, N)
  /\ Joined(PredCodes, Back, idom, frontier, w)

DomInv ==
  /\ Arrays
  /\ pc = "dfs" => Fresh /\ \E n : SearchOK(succ, dfs_index, parent, calls, n)
  /\ pc # "dfs" => Numbered
  /\ pc \in {"dfs", "semi", "idom"} => frontier = [i \in Nodes |-> {}]
  /\ pc = "semi" => SemiPhase
  /\ pc = "idom" => IdomPhase
  /\ pc \in {"frontier", "done", "off_end"} => FrontierPhase
  /\ pc = "done" => w >= N

\* A step that leaves the graph alone leaves alone all that is said of it.
LEMMA SameGraph ==
  ASSUME UNCHANGED graph
  PROVE  /\ succ' = succ /\ dfs_index' = dfs_index /\ parent' = parent
         /\ Numbered' <=> Numbered
         /\ Back' = Back /\ PredCodes' = PredCodes /\ Doms' = Doms
<1>1. succ' = succ /\ dfs_index' = dfs_index /\ parent' = parent
  BY DEF graph
<1>2. Numbered' <=> Numbered
  BY <1>1 DEF Numbered
<1>3. Back' = Back /\ PredCodes' = PredCodes
  BY <1>1 DEF Back, PredCodes, Index, pred, CodeAt
<1>4. Doms' = Doms
  BY <1>1 DEF Doms, Dom, CodeAt
<1> QED BY <1>1, <1>2, <1>3, <1>4

LEMMA InvInit == Init => DomInv
<1> SUFFICES ASSUME Init PROVE DomInv
  OBVIOUS
<1>1. SearchOK(succ, dfs_index, parent, calls, 1)
  BY SearchStarts DEF Init
<1>2. 0 \in Nodes /\ Rooted(parent) /\ dfs_index \in [Codes -> Nodes \union {NoNode}]
  <2>1. Rooted(parent) /\ dfs_index \in [Codes -> Nodes \union {NoNode}] /\ dfs_index[Entry] = 0
    BY <1>1 DEF SearchOK, Spanned, Counted
  <2>2. dfs_index[Entry] \in Nodes \union {NoNode}
    BY <2>1, FlowGraphAssumption
  <2> QED BY <2>1, <2>2, NodeFacts
<1>3. Rooted(ancestor)
  BY <1>2 DEF Init
<1>4. 0 \in 0 .. N
  OBVIOUS
<1>5. Arrays
  BY <1>2, <1>3, <1>4 DEF Arrays, Init
<1>6. Fresh /\ pc = "dfs" /\ frontier = [i \in Nodes |-> {}]
  BY DEF Fresh, Init
<1> QED BY <1>1, <1>5, <1>6 DEF DomInv

-----------------------------------------------------------------------------
(* The steps.                                                               *)

\* The search.
LEMMA SearchKeeps ==
  ASSUME DomInv, dom_node_dfs
  PROVE  DomInv'
<1> DEFINE top == calls[Len(calls)]
<1>1. Arrays /\ Fresh /\ pc = "dfs" /\ calls # <<>> /\ succ \in FlowGraphs
      /\ frontier = [i \in Nodes |-> {}]
  BY DEF DomInv, dom_node_dfs, Arrays
<1>2. PICK n : SearchOK(succ, dfs_index, parent, calls, n)
  BY <1>1 DEF DomInv
<1>3. n = Cardinality(visited)
  BY <1>2 DEF SearchOK, Counted, visited
<1>4. /\ pc' = "dfs" /\ succ' = succ
      /\ UNCHANGED <<semi, best, ancestor, idom, bucket, frontier, w, preds, members>>
  BY <1>1 DEF dom_node_dfs, Visit, forest, work, graph
<1>5. \E k : SearchOK(succ, dfs_index', parent', calls', k)
  <2>1. CASE \E s \in succ[top] \ visited : Visit(s, dfs_index[top])
    <3>1. PICK s \in succ[top] \ visited : Visit(s, dfs_index[top])
      BY <2>1
    <3>2. s \in Codes
      <4>1. top \in Codes
        <5>1. calls \in Seq(Codes)
          BY <1>2 DEF SearchOK, Stacked
        <5>2. Len(calls) \in Nat /\ Len(calls) >= 1
          BY <1>1, <5>1, EmptySeq, LenProperties
        <5> QED BY <5>1, <5>2, ElementOfSeq
      <4> QED BY <1>1, <3>1, <4>1, GraphFacts
    <3>3. dfs_index[s] = NoNode
      BY <3>1, <3>2 DEF visited
    <3>4. /\ dfs_index' = [dfs_index EXCEPT ![s] = n]
          /\ parent' = [parent EXCEPT ![n] = dfs_index[top]] /\ calls' = Append(calls, s)
      BY <1>3, <3>1 DEF Visit
    <3>5. SearchOK(succ, [dfs_index EXCEPT ![s] = n], [parent EXCEPT ![n] = dfs_index[top]],
                   Append(calls, s), n + 1)
      BY <1>1, <1>2, <3>1, <3>3, SearchVisits
    <3> QED BY <3>4, <3>5
  <2>2. CASE /\ succ[top] \subseteq visited
             /\ calls' = SubSeq(calls, 1, Len(calls) - 1)
             /\ UNCHANGED graph
    <3>1. \A b \in succ[top] : dfs_index[b] # NoNode
      BY <2>2 DEF visited
    <3>2. SearchOK(succ, dfs_index, parent, SubSeq(calls, 1, Len(calls) - 1), n)
      BY <1>1, <1>2, <3>1, SearchReturns
    <3> QED BY <2>2, <3>2 DEF graph
  <2> QED BY <2>1, <2>2 DEF dom_node_dfs
<1>6. Rooted(parent') /\ dfs_index' \in [Codes -> Nodes \union {NoNode}]
  BY <1>5 DEF SearchOK, Spanned, Counted
<1>7. Arrays'
  BY <1>1, <1>4, <1>6 DEF Arrays
<1>8. Fresh' /\ frontier' = [i \in Nodes |-> {}]
  BY <1>1, <1>4 DEF Fresh
<1> QED BY <1>4, <1>5, <1>7, <1>8 DEF DomInv

\* The loop over the nodes begins with the last.
LEMMA LoopStarts ==
  ASSUME DomInv, StartSemi
  PROVE  DomInv'
<1>1. /\ Arrays /\ Fresh /\ visited = Codes /\ frontier = [i \in Nodes |-> {}]
      /\ EnterNode(N - 1) /\ UNCHANGED <<graph, forest, semi, idom, bucket, frontier, calls>>
  BY DEF DomInv, StartSemi
<1>2. Numbered
  <2>1. PICK n : SearchOK(succ, dfs_index, parent, calls, n)
    BY DEF DomInv, StartSemi
  <2> QED BY <1>1, <2>1, SearchEnds DEF Arrays
<1>3. /\ succ' = succ /\ dfs_index' = dfs_index /\ parent' = parent
      /\ Numbered' /\ Back' = Back /\ PredCodes' = PredCodes /\ Doms' = Doms
  BY <1>1, <1>2, SameGraph
<1>4. UNCHANGED <<semi, best, ancestor, idom, bucket, frontier>>
  BY <1>1 DEF forest
<1>5. N - 1 \in Nodes /\ 0 \in Nodes
  BY <1>2, CodeAtFacts, NodeNumber DEF Nodes
<1>6. CASE N - 1 >= 1
  <2>1. /\ pc' = "semi" /\ w' = N - 1 /\ preds' = pred(CodeAt(N - 1)) /\ members' = {}
    BY <1>1, <1>6 DEF EnterNode
  <2> DEFINE k == N - 1
  <2>2. k \in Nodes \ {0} /\ preds' = PredCodes[k] /\ preds' \subseteq Codes /\ preds' # {}
    <3>1. k \in Nodes \ {0} /\ PredCodes[k] = pred(CodeAt(k))
      BY <1>5, <1>6 DEF PredCodes
    <3>2. CodeAt(parent[k]) \in PredCodes[k]
      BY <1>2, <3>1, TreeFacts, CodeAtFacts, PredFacts
    <3> QED BY <1>2, <2>1, <3>1, <3>2, PredFacts
  <2>3. \A v \in Nodes : ~ (v > k)
    BY NodeFacts, NodeNumber
  <2> HIDE DEF k
  <2>4. w' = k /\ w' \in 0 .. N
    BY <1>5, <2>1 DEF k, Nodes
  <2>5. Estimates(Back, semi', k)
    BY <1>1, <1>2, <1>4, InSemiNode DEF Estimates, Fresh
  <2>6. ForestOK(parent, ancestor', best', k)
    <3>1. \A i \in Nodes : InUp(parent, best'[i], i, k)
      BY <1>1, <1>2, <1>4, <2>2, InUpNode DEF Fresh
    <3> QED BY <1>1, <1>4, <3>1 DEF ForestOK, Fresh, Arrays
  <2>7. idom' \in [Nodes -> Nodes]
    BY <1>1, <1>4, <1>5 DEF Fresh
  <2>8. Buckets(Back, semi', bucket', k)
    BY <1>1, <1>4 DEF Buckets, Fresh
  <2>9. Finished(parent, semi', bucket', k)
    BY <2>3 DEF Finished
  <2>10. Current(parent, PredCodes, dfs_index, semi', bucket', preds', k)
    BY <2>2 DEF Current
  <2>11. Collected(parent, bucket', preds', members', k)
    BY <2>1 DEF Collected
  <2>12. Evaluated(parent, semi', idom', preds', members', k)
    BY <2>2, <2>3 DEF Evaluated
  <2>13. SemiPhase'
    BY <1>3, <2>2, <2>4, <2>5, <2>6, <2>7, <2>8, <2>9, <2>10, <2>11, <2>12 DEF SemiPhase
  <2>14. Arrays'
    BY <1>1, <1>3, <1>4, <2>1, <2>2, <2>4 DEF Arrays
  <2> QED BY <1>1, <1>3, <1>4, <2>1, <2>13, <2>14 DEF DomInv
<1>7. CASE ~ (N - 1 >= 1)
  <2>1. /\ pc' = "idom" /\ w' = 1 /\ preds' = {} /\ members' = {}
    BY <1>1, <1>7 DEF EnterNode
  <2>2. N = 1
    BY <1>5, <1>7, NodeNumber
  <2>3. \A v \in Nodes : v = 0
    BY <2>2, NodeFacts, NodeNumber
  <2>4. idom' \in [Nodes -> Nodes]
    BY <1>1, <1>4, <1>5 DEF Fresh
  <2>5. StillRelative(parent, Back, semi', idom', 1)
    BY <1>1, <1>2, <1>4, <2>3, InSemiNode DEF StillRelative, Fresh
  <2>6. NotTooHigh(parent, Doms, idom', 1)
    BY <2>3 DEF NotTooHigh
  <2>7. IdomPhase'
    BY <1>3, <2>1, <2>2, <2>4, <2>5, <2>6 DEF IdomPhase
  <2>8. Arrays'
    BY <1>1, <1>3, <1>4, <2>1, <2>2 DEF Arrays
  <2> QED BY <1>1, <1>3, <1>4, <2>1, <2>7, <2>8 DEF DomInv
<1> QED BY <1>6, <1>7

\* A predecessor is evaluated.
LEMMA EvalPredKeeps ==
  ASSUME DomInv, NEW c \in Codes, EvalPred(c)
  PROVE  DomInv'
<1> DEFINE e == dom_node_eval(dfs_index[c])
           s == IF semi[w] > semi[e.node] THEN semi[e.node] ELSE semi[w]
<1>0. /\ Arrays /\ Numbered /\ SemiPhase /\ pc = "semi" /\ c \in preds
      /\ frontier = [i \in Nodes |-> {}]
      /\ semi' = [semi EXCEPT ![w] = s]
      /\ bucket' = [bucket EXCEPT ![s] = @ \union {w}]
      /\ best' = e.best /\ ancestor' = [e.ancestor EXCEPT ![w] = parent[w]]
      /\ preds' = preds \ {c}
      /\ members' = IF preds' = {} THEN bucket'[parent[w]] ELSE {}
      /\ UNCHANGED <<graph, idom, frontier, pc, calls, w>>
  BY DEF DomInv, EvalPred
<1>1. /\ succ' = succ /\ dfs_index' = dfs_index /\ parent' = parent
      /\ Numbered' /\ Back' = Back /\ PredCodes' = PredCodes /\ Doms' = Doms
  BY <1>0, SameGraph
<1>2. /\ w \in Nodes \ {0}
      /\ Estimates(Back, semi, w)
      /\ ForestOK(parent, ancestor, best, w)
      /\ idom \in [Nodes -> Nodes]
      /\ Buckets(Back, semi, bucket, w)
      /\ Finished(parent, semi, bucket, w)
      /\ Current(parent, PredCodes, dfs_index, semi, bucket, preds, w)
      /\ Evaluated(parent, semi, idom, preds, members, w)
  BY <1>0 DEF SemiPhase
<1>3. c \in PredCodes[w] /\ dfs_index[c] \in Back[w] /\ dfs_index[c] \in Nodes
  <2>1. c \in PredCodes[w]
    BY <1>0, <1>2 DEF Current
  <2> QED BY <1>0, <1>2, <2>1, PredFacts, CodeAtFacts
<1>4. /\ ForestOK(parent, e.ancestor, e.best, w)
      /\ InUp(parent, e.node, dfs_index[c], w)
  BY <1>0, <1>2, <1>3, EvalFacts
<1>5. e.node \in Nodes
  BY <1>0, <1>2, <1>3, <1>4, InUpNode
<1>6. InSemi(Back, semi[e.node], w)
  BY <1>0, <1>2, <1>3, <1>4, SemiStep
<1> HIDE DEF e
<1>7. semi \in [Nodes -> Nodes] /\ bucket \in [Nodes -> SUBSET Nodes]
  BY <1>0 DEF Arrays
<1>8. /\ s \in Nodes /\ s <= semi[w] /\ s <= semi[e.node] /\ InSemi(Back, s, w)
  <2>1. semi[w] \in Nodes /\ semi[e.node] \in Nodes /\ InSemi(Back, semi[w], w)
    BY <1>2, <1>5, <1>7 DEF Estimates
  <2>2. semi[w] \in Int /\ semi[e.node] \in Int
    BY <2>1, NodeNumber
  <2> QED BY <1>6, <2>1, <2>2
<1>9. (dfs_index[c] = parent[w]) => s <= parent[w]
  <2> SUFFICES ASSUME dfs_index[c] = parent[w] PROVE s <= parent[w]
    OBVIOUS
  <2>1. parent[w] < w /\ parent[w] \in Nodes
    BY <1>0, <1>2, TreeFacts, RootedFacts
  <2>2. e.node = parent[w]
    BY <1>0, <1>2, <1>3, <1>4, <2>1, InUpNode
  <2>3. semi[e.node] = parent[w]
    BY <1>2, <2>1, <2>2 DEF Estimates
  <2> QED BY <1>8, <2>3
<1> HIDE DEF s
<1>10. /\ semi' \in [Nodes -> Nodes] /\ semi'[w] = s
       /\ \A v \in Nodes : v # w => semi'[v] = semi[v]
       /\ \A v \in Nodes : semi'[v] <= semi[v]
  <2>1. \A v \in Nodes : semi[v] <= semi[v]
    BY <1>7, NodeNumber
  <2> QED BY <1>0, <1>2, <1>7, <1>8, <2>1
<1>11. /\ bucket' \in [Nodes -> SUBSET Nodes] /\ bucket'[s] = bucket[s] \union {w}
       /\ \A t \in Nodes : t # s => bucket'[t] = bucket[t]
       /\ \A t \in Nodes : bucket[t] \subseteq bucket'[t]
  BY <1>0, <1>2, <1>7, <1>8
<1>12. Estimates(Back, semi', w)
  <2>1. \A v \in Nodes : v < w => v # w
    BY <1>2, NodeNumber
  <2> QED BY <1>2, <1>8, <1>10, <2>1 DEF Estimates
<1>13. ForestOK(parent, ancestor', best', w)
  <2>1. e.ancestor \in [Nodes -> Nodes \union {NoNode}] /\ \A v \in Nodes : e.ancestor[v] < v
    BY <1>4 DEF ForestOK, Rooted
  <2>2. parent[w] \in Nodes /\ parent[w] < w /\ w >= w
    BY <1>0, <1>2, TreeFacts, RootedFacts, NodeNumber
  <2>3. Rooted(ancestor')
    BY <1>0, <1>2, <2>1, <2>2 DEF Rooted
  <2>4. \A v \in Nodes : ancestor'[v] = e.ancestor[v] \/ (v = w /\ ancestor'[v] = parent[v])
    BY <1>0, <2>1
  <2>5. \A v \in Nodes : ancestor'[v] # NoNode => v >= w /\ ancestor'[v] = parent[v]
    BY <1>4, <2>2, <2>4 DEF ForestOK
  <2> QED BY <1>0, <1>4, <2>3, <2>5 DEF ForestOK
<1>14. Buckets(Back, semi', bucket', w)
  <2> SUFFICES ASSUME NEW t \in Nodes, NEW v \in bucket'[t]
               PROVE  v >= w /\ InSemi(Back, t, v) /\ semi'[v] <= t
    BY DEF Buckets
  <2>1. CASE v \in bucket[t]
    <3>1. v >= w /\ InSemi(Back, t, v) /\ semi[v] <= t /\ v \in Nodes
      BY <1>2, <1>7, <2>1 DEF Buckets
    <3>2. semi'[v] <= semi[v] /\ semi'[v] \in Nodes /\ semi[v] \in Nodes
      BY <1>7, <1>10, <3>1
    <3> QED BY <3>1, <3>2, NodeNumber
  <2>2. CASE v \notin bucket[t]
    <3>1. t = s /\ v = w
      BY <1>11, <2>2
    <3> QED BY <1>2, <1>8, <1>10, <3>1, NodeNumber
  <2> QED BY <2>1, <2>2
<1>15. Finished(parent, semi', bucket', w)
  <2> SUFFICES ASSUME NEW v \in Nodes, v > w
               PROVE  v \in bucket'[semi'[v]] /\ semi'[v] <= parent[v]
    BY DEF Finished
  <2>1. semi'[v] = semi[v] /\ semi[v] \in Nodes
    BY <1>2, <1>7, <1>10, NodeNumber
  <2>2. v \in bucket[semi[v]] /\ semi[v] <= parent[v]
    BY <1>2 DEF Finished
  <2> QED BY <1>11, <2>1, <2>2
<1>16. Current(parent, PredCodes, dfs_index, semi', bucket', preds', w)
  <2>1. preds' \subseteq PredCodes[w]
    BY <1>0, <1>2 DEF Current
  <2>2. w \in bucket'[semi'[w]]
    BY <1>10, <1>11
  <2>3. ASSUME NEW p \in PredCodes[w] \ preds', dfs_index[p] = parent[w]
        PROVE  semi'[w] <= parent[w]
    <3>1. CASE p = c
      BY <1>9, <1>10, <2>3, <3>1
    <3>2. CASE p # c
      <4>1. p \in PredCodes[w] \ preds
        BY <1>0, <3>2
      <4>2. semi[w] <= parent[w]
        BY <1>2, <2>3, <4>1 DEF Current
      <4>3. parent[w] \in Nodes /\ semi[w] \in Nodes
        BY <1>0, <1>2, <1>7, TreeFacts
      <4> QED BY <1>8, <1>10, <4>2, <4>3, NodeNumber
    <3> QED BY <3>1, <3>2
  <2> QED BY <2>1, <2>2, <2>3 DEF Current
<1>17. Collected(parent, bucket', preds', members', w)
  BY <1>0 DEF Collected
<1>18. Evaluated(parent, semi', idom', preds', members', w)
  <2> SUFFICES ASSUME NEW v \in Nodes, v > w \/ (v = w /\ preds' = {})
               PROVE  Relative(parent, semi', idom', v) \/ Waits(parent, semi', preds', members', w, v)
    BY DEF Evaluated
  <2>0. idom' = idom /\ w \in Int /\ v \in Int
    BY <1>0, <1>2, NodeNumber
  <2>1. CASE v > w
    <3>1. semi'[v] = semi[v] /\ semi[v] \in Nodes
      BY <1>7, <1>10, <2>0, <2>1
    <3>2. CASE Relative(parent, semi, idom, v)
      BY <2>0, <3>1, <3>2 DEF Relative
    <3>3. CASE Waits(parent, semi, preds, members, w, v)
      <4>1. PICK x \in Nodes \ {0} : /\ parent[x] = semi[v] /\ x \in {v} \union Above(parent, v)
                                     /\ x < w \/ (x = w /\ (preds # {} \/ v \in members))
        BY <3>3 DEF Waits
      <4>2. CASE x < w
        BY <3>1, <4>1, <4>2 DEF Waits
      <4>3. CASE x = w
        <5>1. v \in bucket'[parent[w]]
          BY <1>2, <1>11, <2>1, <3>1, <4>1, <4>3 DEF Finished
        <5>2. preds' # {} \/ v \in members'
          BY <1>0, <5>1
        <5> QED BY <3>1, <4>1, <4>3, <5>2 DEF Waits
      <4> QED BY <4>1, <4>2, <4>3
    <3> QED BY <1>2, <2>1, <3>2, <3>3 DEF Evaluated
  <2>2. CASE v = w /\ preds' = {}
    <3>1. members' = bucket'[parent[w]]
      BY <1>0, <2>2
    <3>2. PICK p \in PredCodes[w] : dfs_index[p] = parent[w]
      BY <1>0, <1>2, TreeFacts, CodeAtFacts, PredFacts
    <3>3. s <= parent[w]
      BY <1>10, <1>16, <2>2, <3>2 DEF Current
    <3>4. parent[w] \in Nodes /\ parent[w] < w
      BY <1>0, <1>2, TreeFacts, RootedFacts
    <3>5. s < w
      <4>1. s \in Int /\ parent[w] \in Int
        BY <1>8, <3>4, NodeNumber
      <4> QED BY <2>0, <3>3, <3>4, <4>1
    <3>6. s \in Above(parent, w)
      BY <1>0, <1>2, <1>8, <3>5, SemiAbove
    <3>7. PICK x \in Nodes : parent[x] = s /\ (x = w \/ x \in Above(parent, w))
      BY <1>0, <1>2, <3>6, TreeFacts, AboveChild
    <3>8. x # 0
      <4>1. parent[x] < x
        BY <1>0, TreeFacts, RootedFacts
      <4> QED BY <1>8, <3>7, <4>1, NodeNumber
    <3>9. CASE x = w
      <4>1. v \in members'
        BY <1>11, <2>2, <3>1, <3>7, <3>9
      <4> QED BY <1>10, <2>2, <3>7, <3>8, <3>9, <4>1 DEF Waits
    <3>10. CASE x # w
      <4>1. x < w
        BY <1>0, <1>2, <3>7, <3>10, TreeFacts, AboveLess
      <4> QED BY <1>10, <2>2, <3>7, <3>8, <4>1 DEF Waits
    <3> QED BY <3>9, <3>10
  <2> QED BY <2>1, <2>2
<1>19. SemiPhase'
  BY <1>0, <1>1, <1>2, <1>12, <1>13, <1>14, <1>15, <1>16, <1>17, <1>18 DEF SemiPhase
<1>20. Arrays'
  <2>1. Rooted(ancestor') /\ best' \in [Nodes -> Nodes]
    BY <1>13 DEF ForestOK
  <2>2. members' \subseteq Nodes
    <3>1. parent[w] \in Nodes
      BY <1>0, <1>2, TreeFacts
    <3> QED BY <1>0, <1>11, <3>1
  <2>3. preds' \subseteq Codes
    BY <1>0 DEF Arrays
  <2> QED BY <1>0, <1>1, <1>10, <1>11, <2>1, <2>2, <2>3 DEF Arrays
<1> QED BY <1>0, <1>1, <1>19, <1>20 DEF DomInv

\* A node of the bucket is evaluated.
LEMMA EvalMemberKeeps ==
  ASSUME DomInv, NEW v \in Nodes, EvalMember(v)
  PROVE  DomInv'
<1> DEFINE e == dom_node_eval(v)
           p == parent[w]
<1>0. /\ Arrays /\ Numbered /\ SemiPhase /\ pc = "semi" /\ preds = {} /\ v \in members
      /\ frontier = [i \in Nodes |-> {}]
      /\ idom' = [idom EXCEPT ![v] = IF semi[e.node] < semi[v] THEN e.node ELSE p]
      /\ best' = e.best /\ ancestor' = e.ancestor
      /\ members' = members \ {v}
      /\ UNCHANGED <<graph, semi, bucket, frontier, pc, calls, w, preds>>
  BY DEF DomInv, EvalMember
<1>1. /\ succ' = succ /\ dfs_index' = dfs_index /\ parent' = parent
      /\ Numbered' /\ Back' = Back /\ PredCodes' = PredCodes /\ Doms' = Doms
  BY <1>0, SameGraph
<1>2. /\ w \in Nodes \ {0}
      /\ Estimates(Back, semi, w)
      /\ ForestOK(parent, ancestor, best, w)
      /\ idom \in [Nodes -> Nodes]
      /\ Buckets(Back, semi, bucket, w)
      /\ Finished(parent, semi, bucket, w)
      /\ Current(parent, PredCodes, dfs_index, semi, bucket, preds, w)
      /\ Collected(parent, bucket, preds, members, w)
      /\ Evaluated(parent, semi, idom, preds, members, w)
  BY <1>0 DEF SemiPhase
<1>3. ForestOK(parent, e.ancestor, e.best, w) /\ InUp(parent, e.node, v, w) /\ e.node \in Nodes
  BY <1>0, <1>2, EvalFacts, InUpNode
<1> HIDE DEF e
<1>4. p \in Nodes /\ p < w /\ semi \in [Nodes -> Nodes]
  BY <1>0, <1>2, TreeFacts, RootedFacts DEF Arrays
<1>5. v >= w /\ InSemi(Back, p, v) /\ semi[v] <= p
  <2>1. v \in bucket[p]
    BY <1>0, <1>2 DEF Collected
  <2> QED BY <1>2, <1>4, <2>1 DEF Buckets
<1> HIDE DEF p
<1>6. p \in Above(parent, v)
  <2>1. p < v
    BY <1>2, <1>4, <1>5, NodeNumber
  <2> QED BY <1>0, <1>5, <2>1, SemiAbove
<1>7. e.node = v \/ (e.node \in Above(parent, v) /\ p <= e.node)
  BY <1>0, <1>2, <1>3, <1>4, <1>6, UpBetween
<1>8. idom' \in [Nodes -> Nodes] /\ \A u \in Nodes : u # v => idom'[u] = idom[u]
  BY <1>0, <1>2, <1>3, <1>4
<1>9. Relative(parent, semi, idom', v)
  <2>1. semi[v] \in Int /\ p \in Int /\ e.node \in Int
    BY <1>3, <1>4, NodeNumber
  <2>2. CASE semi[e.node] < semi[v]
    <3>1. idom'[v] = e.node
      BY <1>0, <1>2, <2>2
    <3>2. e.node # v
      BY <2>1, <2>2
    <3> QED BY <1>5, <1>7, <2>1, <3>1, <3>2 DEF Relative
  <2>3. CASE ~ (semi[e.node] < semi[v])
    <3>1. idom'[v] = p
      BY <1>0, <1>2, <2>3
    <3> QED BY <1>5, <1>6, <3>1 DEF Relative
  <2> QED BY <2>2, <2>3
<1>10. Collected(parent, bucket, preds, members', w)
  BY <1>0, <1>2 DEF Collected
<1>11. Evaluated(parent, semi, idom', preds, members', w)
  <2> SUFFICES ASSUME NEW u \in Nodes, u > w \/ (u = w /\ preds = {}), u # v
               PROVE  Relative(parent, semi, idom', u) \/ Waits(parent, semi, preds, members', w, u)
    BY <1>9 DEF Evaluated
  <2>1. CASE Relative(parent, semi, idom, u)
    BY <1>8, <2>1 DEF Relative
  <2>2. CASE Waits(parent, semi, preds, members, w, u)
    <3>1. u \in members => u \in members'
      BY <1>0
    <3> QED BY <2>2, <3>1 DEF Waits
  <2> QED BY <1>2, <2>1, <2>2 DEF Evaluated
<1>12. SemiPhase'
  BY <1>0, <1>1, <1>2, <1>3, <1>8, <1>10, <1>11 DEF SemiPhase
<1>13. Arrays'
  <2>1. Rooted(ancestor') /\ best' \in [Nodes -> Nodes]
    BY <1>0, <1>3 DEF ForestOK
  <2> QED BY <1>0, <1>1, <1>8, <2>1 DEF Arrays
<1> QED BY <1>0, <1>1, <1>12, <1>13 DEF DomInv

\* The loop goes on to the node before.
LEMMA NextNodeKeeps ==
  ASSUME DomInv, NextNode
  PROVE  DomInv'
<1>0. /\ Arrays /\ Numbered /\ SemiPhase /\ pc = "semi" /\ preds = {} /\ members = {}
      /\ frontier = [i \in Nodes |-> {}] /\ EnterNode(w - 1)
      /\ UNCHANGED <<graph, forest, semi, idom, bucket, frontier, calls>>
  BY DEF DomInv, NextNode
<1>1. /\ succ' = succ /\ dfs_index' = dfs_index /\ parent' = parent
      /\ Numbered' /\ Back' = Back /\ PredCodes' = PredCodes /\ Doms' = Doms
      /\ UNCHANGED <<semi, best, ancestor, idom, bucket, frontier>>
  BY <1>0, SameGraph DEF forest
<1>2. /\ w \in Nodes \ {0}
      /\ Estimates(Back, semi, w)
      /\ ForestOK(parent, ancestor, best, w)
      /\ idom \in [Nodes -> Nodes]
      /\ Buckets(Back, semi, bucket, w)
      /\ Finished(parent, semi, bucket, w)
      /\ Current(parent, PredCodes, dfs_index, semi, bucket, preds, w)
      /\ Evaluated(parent, semi, idom, preds, members, w)
  BY <1>0 DEF SemiPhase
<1>3. w \in Int /\ w >= 1 /\ w < N
  BY <1>2, NodeNumber, NodeFacts
<1>4. \A i \in Nodes \ {0} : PredCodes[i] # {}
  BY <1>0, TreeFacts, CodeAtFacts, PredFacts
<1>5. \A v \in Nodes : /\ v >= w => (Relative(parent, semi, idom, v) \/ Waits(parent, semi, preds, members, w, v))
                       /\ v >= w => v \in bucket[semi[v]] /\ semi[v] <= parent[v]
  <2> TAKE v \in Nodes
  <2>1. v >= w => v > w \/ v = w
    BY <1>3, NodeNumber
  <2>2. w \in bucket[semi[w]]
    BY <1>0, <1>2, <1>4 DEF Current
  <2>3. semi[w] <= parent[w]
    <3>1. PICK p \in PredCodes[w] : dfs_index[p] = parent[w]
      BY <1>0, <1>2, TreeFacts, CodeAtFacts, PredFacts
    <3> QED BY <1>0, <1>2, <3>1 DEF Current
  <2> QED BY <1>0, <1>2, <2>1, <2>2, <2>3 DEF Evaluated, Finished
<1>6. CASE w - 1 >= 1
  <2> DEFINE k == w - 1
  <2>1. /\ pc' = "semi" /\ w' = k /\ preds' = pred(CodeAt(k)) /\ members' = {}
    BY <1>0, <1>6 DEF EnterNode
  <2>2. k \in Nodes \ {0} /\ k \in Int /\ k < w
    BY <1>3, <1>6 DEF Nodes
  <2>3. preds' = PredCodes[k] /\ preds' # {} /\ preds' \subseteq Codes
    <3>1. PredCodes[k] = pred(CodeAt(k))
      BY <2>2 DEF PredCodes
    <3> QED BY <1>0, <1>4, <2>1, <2>2, <3>1, PredFacts
  <2>4. \A v \in Nodes : (v < k => v < w) /\ (v >= w => v >= k) /\ (v > k => v >= w)
    BY <1>3, NodeNumber
  <2> HIDE DEF k
  <2>5. Estimates(Back, semi, k)
    BY <1>2, <2>4 DEF Estimates
  <2>6. ForestOK(parent, ancestor, best, k)
    <3>1. \A i \in Nodes : InUp(parent, best[i], i, k)
      BY <1>2, <1>3, <2>2, InUpWider DEF ForestOK
    <3> QED BY <1>2, <2>4, <3>1 DEF ForestOK
  <2>7. Buckets(Back, semi, bucket, k)
    <3>1. bucket \in [Nodes -> SUBSET Nodes]
      BY <1>0 DEF Arrays
    <3> QED BY <1>2, <2>4, <3>1 DEF Buckets
  <2>8. Finished(parent, semi, bucket, k)
    BY <1>5, <2>4 DEF Finished
  <2>9. Current(parent, PredCodes, dfs_index, semi, bucket, preds', k)
    BY <2>3 DEF Current
  <2>10. Collected(parent, bucket, preds', members', k)
    BY <2>1 DEF Collected
  <2>11. Evaluated(parent, semi, idom, preds', members', k)
    <3> SUFFICES ASSUME NEW v \in Nodes, v > k, ~ Relative(parent, semi, idom, v)
                 PROVE  Waits(parent, semi, preds', members', k, v)
      BY <2>3 DEF Evaluated
    <3>1. Waits(parent, semi, preds, members, w, v)
      BY <1>5, <2>4
    <3>2. PICK x \in Nodes \ {0} : /\ parent[x] = semi[v] /\ x \in {v} \union Above(parent, v)
                                   /\ x < w
      BY <1>0, <3>1 DEF Waits
    <3>3. x < k \/ x = k
      BY <1>3, <3>2, NodeNumber DEF k
    <3> QED BY <2>3, <3>2, <3>3 DEF Waits
  <2>12. SemiPhase'
    BY <1>1, <1>2, <2>1, <2>2, <2>5, <2>6, <2>7, <2>8, <2>9, <2>10, <2>11 DEF SemiPhase
  <2>13. Arrays'
    <3>1. k \in 0 .. N
      BY <2>2 DEF Nodes
    <3> QED BY <1>0, <1>1, <2>1, <2>3, <3>1 DEF Arrays
  <2> QED BY <1>0, <1>1, <2>1, <2>12, <2>13 DEF DomInv
<1>7. CASE ~ (w - 1 >= 1)
  <2>1. /\ pc' = "idom" /\ w' = 1 /\ preds' = {} /\ members' = {}
    BY <1>0, <1>7 DEF EnterNode
  <2>2. w = 1 /\ 1 \in 1 .. N /\ 1 \in 0 .. N
    BY <1>3, <1>7
  <2>3. \A v \in Nodes \ {0} : v >= 1 /\ ~ (v < 1)
    BY NodeNumber
  <2>4. StillRelative(parent, Back, semi, idom, 1)
    <3>1. ASSUME NEW v \in Nodes \ {0} PROVE Relative(parent, semi, idom, v)
      <4>1. Relative(parent, semi, idom, v) \/ Waits(parent, semi, preds, members, w, v)
        BY <1>5, <2>2, <2>3
      <4> QED BY <1>0, <2>2, <2>3, <4>1 DEF Waits
    <3> QED BY <1>2, <3>1 DEF StillRelative, Estimates
  <2>5. NotTooHigh(parent, Doms, idom, 1)
    BY <2>3 DEF NotTooHigh
  <2>6. IdomPhase'
    BY <1>1, <1>2, <2>1, <2>2, <2>4, <2>5 DEF IdomPhase
  <2>7. Arrays'
    BY <1>0, <1>1, <2>1, <2>2 DEF Arrays
  <2> QED BY <1>0, <1>1, <2>1, <2>6, <2>7 DEF DomInv
<1> QED BY <1>6, <1>7

\* A relative dominator is made absolute.
LEMMA FixIdomKeeps ==
  ASSUME DomInv, FixIdom
  PROVE  DomInv'
<1>0. /\ Arrays /\ Numbered /\ IdomPhase /\ pc = "idom" /\ frontier = [i \in Nodes |-> {}]
      /\ UNCHANGED <<graph, forest, semi, bucket, frontier, calls, preds, members>>
  BY DEF DomInv, FixIdom
<1>1. /\ succ' = succ /\ dfs_index' = dfs_index /\ parent' = parent
      /\ Numbered' /\ Back' = Back /\ PredCodes' = PredCodes /\ Doms' = Doms
      /\ UNCHANGED <<semi, best, ancestor, bucket, frontier, preds, members>>
  BY <1>0, SameGraph DEF forest
<1>2. /\ w \in 1 .. N /\ idom \in [Nodes -> Nodes] /\ semi \in [Nodes -> Nodes]
      /\ StillRelative(parent, Back, semi, idom, w)
      /\ NotTooHigh(parent, Doms, idom, w)
  BY <1>0 DEF IdomPhase, Arrays
<1>3. Rooted(parent) /\ \A v \in Nodes : \A x \in Above(parent, v) : x < v
  BY <1>0, TreeFacts, AboveLess
<1>4. CASE w < N
  <2> DEFINE r == idom[w]
             new == IF r # semi[w] THEN idom[r] ELSE r
  <2>1. /\ pc' = "idom" /\ w' = w + 1 /\ idom' = [idom EXCEPT ![w] = new]
    BY <1>0, <1>4 DEF FixIdom
  <2>2. w \in Nodes \ {0} /\ w + 1 \in 1 .. N /\ w + 1 \in 0 .. N /\ r \in Nodes /\ semi[w] \in Nodes
    BY <1>2, <1>4 DEF Nodes
  <2>3. r \in Above(parent, w) /\ semi[w] <= r /\ r < w /\ InSemi(Back, semi[w], w)
    <3>1. w >= w
      BY <2>2, NodeNumber
    <3> QED BY <1>2, <1>3, <2>2, <3>1 DEF StillRelative, Relative
  <2>4. semi[w] < w /\ \A d \in Doms[w] : d \in Nodes /\ Dom(d, w) /\ d <= semi[w]
    <3>1. semi[w] < w
      BY <2>2, <2>3, NodeNumber
    <3> QED BY <1>0, <2>2, <2>3, <3>1, SemiDominated DEF Doms
  <2>5. new \in Nodes /\ new \in Above(parent, w) /\ \A d \in Doms[w] : d <= new
    <3>1. CASE r = semi[w]
      BY <2>2, <2>3, <2>4, <3>1
    <3>2. CASE r # semi[w]
      <4>1. semi[w] < r /\ r # 0
        BY <2>2, <2>3, <3>2, NodeNumber
      <4>2. idom[r] \in Nodes /\ idom[r] \in Above(parent, r) /\ \A d \in Doms[r] : d <= idom[r]
        BY <1>2, <2>2, <2>3, <4>1 DEF NotTooHigh
      <4>3. Above(parent, r) \subseteq Above(parent, w)
        BY <1>3, <2>2, <2>3, AboveAbove
      <4>4. ASSUME NEW d \in Doms[w] PROVE d \in Doms[r]
        <5>1. d \in Nodes /\ Dom(d, w) /\ d < r
          BY <2>2, <2>4, <4>1, NodeNumber
        <5>2. Dom(d, r)
          BY <1>0, <2>2, <2>3, <5>1, DomThrough
        <5>3. d # r
          BY <2>2, <5>1, NodeNumber
        <5> QED BY <2>2, <5>1, <5>2, <5>3 DEF Doms
      <4> QED BY <3>2, <4>2, <4>3, <4>4
    <3> QED BY <3>1, <3>2
  <2> HIDE DEF new, r
  <2>6. /\ idom' \in [Nodes -> Nodes] /\ idom'[w] = new
        /\ \A v \in Nodes : v # w => idom'[v] = idom[v]
    BY <1>2, <2>1, <2>2, <2>5
  <2>7. \A v \in Nodes : /\ v >= w + 1 => v # w /\ v >= w
                         /\ v < w + 1 => v = w \/ v < w
    BY <2>2, NodeNumber
  <2>8. StillRelative(parent, Back, semi, idom', w + 1)
    BY <1>2, <2>6, <2>7 DEF StillRelative, Relative
  <2>9. NotTooHigh(parent, Doms, idom', w + 1)
    BY <1>2, <2>5, <2>6, <2>7 DEF NotTooHigh
  <2>10. IdomPhase'
    BY <1>1, <2>1, <2>2, <2>6, <2>8, <2>9 DEF IdomPhase
  <2>11. Arrays'
    BY <1>0, <1>1, <2>1, <2>2, <2>6 DEF Arrays
  <2> QED BY <1>0, <1>1, <2>1, <2>10, <2>11 DEF DomInv
<1>5. CASE ~ (w < N)
  <2>1. /\ pc' = "frontier" /\ w' = 1 /\ idom' = [idom EXCEPT ![0] = NoNode]
    BY <1>0, <1>5 DEF FixIdom
  <2>2. w = N /\ 1 \in 1 .. N /\ 1 \in 0 .. N /\ 0 \in Nodes
    BY <1>2, <1>5 DEF Nodes
  <2>3. /\ idom' \in [Nodes -> Nodes \union {NoNode}] /\ idom'[0] = NoNode
        /\ \A v \in Nodes \ {0} : idom'[v] = idom[v]
    BY <1>2, <2>1, <2>2
  <2>4. NotTooHigh(parent, Doms, idom', N)
    BY <1>2, <2>2, <2>3 DEF NotTooHigh
  <2>5. Rooted(idom')
    <3>1. \A v \in Nodes \ {0} : idom[v] < v
      BY <1>2, <1>3, <2>2, NodeFacts DEF NotTooHigh
    <3>2. NoNode < 0
      BY NodeFacts
    <3> QED BY <2>3, <3>1, <3>2 DEF Rooted
  <2>6. Joined(PredCodes, Back, idom', frontier, 1)
    <3>1. \A j \in Nodes \ {0} : ~ (j < 1)
      BY NodeNumber
    <3> QED BY <1>0, <3>1 DEF Joined
  <2>7. FrontierPhase'
    BY <1>1, <2>1, <2>2, <2>4, <2>5, <2>6 DEF FrontierPhase
  <2>8. Arrays'
    BY <1>0, <1>1, <2>1, <2>2, <2>3 DEF Arrays
  <2> QED BY <1>0, <1>1, <2>1, <2>7, <2>8 DEF DomInv
<1> QED BY <1>4, <1>5

\* A node is put on the frontiers it belongs to.
LEMMA FrontierKeeps ==
  ASSUME DomInv, FrontierOf
  PROVE  DomInv'
<1> DEFINE visits == IF w < N /\ IsJoin(w)
                       THEN UNION {Runner(w, r) : r \in Index(pred(CodeAt(w)))} ELSE {}
<1>0. /\ Arrays /\ Numbered /\ FrontierPhase /\ pc = "frontier"
      /\ UNCHANGED <<graph, forest, semi, idom, bucket, calls, preds, members>>
  BY DEF DomInv, FrontierOf
<1>1. /\ succ' = succ /\ dfs_index' = dfs_index /\ parent' = parent
      /\ Numbered' /\ Back' = Back /\ PredCodes' = PredCodes /\ Doms' = Doms
      /\ UNCHANGED <<semi, best, ancestor, idom, bucket, preds, members>>
  BY <1>0, SameGraph DEF forest
<1>2. /\ w \in 1 .. N /\ Rooted(idom)
      /\ NotTooHigh(parent, Doms, idom, N)
      /\ Joined(PredCodes, Back, idom, frontier, w)
  BY <1>0 DEF FrontierPhase
<1>3. CASE w >= N /\ pc' = "done" /\ UNCHANGED <<w, frontier>>
  <2>1. FrontierPhase'
    BY <1>1, <1>2, <1>3 DEF FrontierPhase
  <2>2. Arrays'
    BY <1>0, <1>1, <1>3 DEF Arrays
  <2> QED BY <1>0, <1>1, <1>3, <2>1, <2>2 DEF DomInv
<1>4. CASE w < N /\ NoNode \in visits /\ pc' = "off_end" /\ UNCHANGED <<w, frontier>>
  <2>1. FrontierPhase'
    BY <1>1, <1>2, <1>4 DEF FrontierPhase
  <2>2. Arrays'
    BY <1>0, <1>1, <1>4 DEF Arrays
  <2> QED BY <1>0, <1>1, <1>4, <2>1, <2>2 DEF DomInv
<1>5. CASE /\ w < N /\ NoNode \notin visits
           /\ frontier' = [i \in Nodes |-> IF i \in visits THEN frontier[i] \union {w} ELSE frontier[i]]
           /\ w' = w + 1 /\ UNCHANGED pc
  <2>1. w \in Nodes \ {0} /\ w + 1 \in 1 .. N /\ w + 1 \in 0 .. N
    BY <1>2, <1>5 DEF Nodes
  <2>2. visits = IF Many(PredCodes, w) THEN UNION {RunnerOf(idom, w, r) : r \in Back[w]} ELSE {}
    <3>1. Back[w] = Index(pred(CodeAt(w)))
      BY <2>1 DEF Back
    <3> QED BY <1>5, <2>1, <3>1, ManyIsJoin, RunnerIs
  <2> HIDE DEF visits
  <2>3. \A x : x \in visits <=> Many(PredCodes, w) /\ \E r \in Back[w] : x \in RunnerOf(idom, w, r)
    BY <2>2
  <2>4. \A j \in Nodes : j < w + 1 <=> j = w \/ j < w
    BY <2>1, NodeNumber
  <2>5. \A j \in Nodes \ {0} : j < w + 1 /\ Many(PredCodes, j) =>
          \A r \in Back[j] : NoNode \notin RunnerOf(idom, j, r)
    BY <1>2, <1>5, <2>3, <2>4 DEF Joined
  <2> DEFINE F(i, k) == {j \in Nodes \ {0} : /\ j < k /\ Many(PredCodes, j)
                                              /\ \E r \in Back[j] : i \in RunnerOf(idom, j, r)}
  <2>6. ASSUME NEW i \in Nodes
        PROVE  (IF i \in visits THEN F(i, w) \union {w} ELSE F(i, w)) = F(i, w + 1)
    <3>1. \A j \in Nodes : j \in F(i, w + 1) <=> j \in F(i, w) \/ (j = w /\ i \in visits)
      BY <2>1, <2>3, <2>4
    <3>2. F(i, w) \subseteq Nodes /\ F(i, w + 1) \subseteq Nodes
      OBVIOUS
    <3> HIDE DEF F
    <3> QED BY <2>1, <3>1, <3>2
  <2>7. frontier = [i \in Nodes |-> F(i, w)]
    BY <1>2 DEF Joined
  <2>8. frontier' = [i \in Nodes |-> F(i, w + 1)]
    <3>1. \A i \in Nodes : frontier[i] = F(i, w)
      BY <2>7
    <3> HIDE DEF F
    <3> QED BY <1>5, <2>6, <3>1
  <2>9. Joined(PredCodes, Back, idom, frontier', w + 1)
    BY <2>5, <2>8 DEF Joined
  <2>10. FrontierPhase'
    BY <1>1, <1>2, <1>5, <2>1, <2>9 DEF FrontierPhase
  <2>11. Arrays'
    <3>1. \A i \in Nodes : F(i, w + 1) \in SUBSET Nodes
      OBVIOUS
    <3>2. frontier' \in [Nodes -> SUBSET Nodes]
      <4> HIDE DEF F
      <4> QED BY <2>8, <3>1
    <3> QED BY <1>0, <1>1, <1>5, <2>1, <3>2 DEF Arrays
  <2> QED BY <1>0, <1>1, <1>5, <2>10, <2>11 DEF DomInv
<1> QED BY <1>3, <1>4, <1>5 DEF FrontierOf

\* Every step keeps the invariant.
LEMMA InvNext == DomInv /\ [Next]_domVars => DomInv'
<1> SUFFICES ASSUME DomInv, [Next]_domVars PROVE DomInv'
  OBVIOUS
<1>1. CASE dom_node_dfs
  BY <1>1, SearchKeeps
<1>2. CASE StartSemi
  BY <1>2, LoopStarts
<1>3. CASE \E c \in Codes : EvalPred(c)
  BY <1>3, EvalPredKeeps
<1>4. CASE \E v \in Nodes : EvalMember(v)
  BY <1>4, EvalMemberKeeps
<1>5. CASE NextNode
  BY <1>5, NextNodeKeeps
<1>6. CASE FixIdom
  BY <1>6, FixIdomKeeps
<1>7. CASE FrontierOf
  BY <1>7, FrontierKeeps
<1>8. CASE UNCHANGED domVars
  <2>1. UNCHANGED graph /\ UNCHANGED <<best, ancestor, semi, idom, bucket, frontier, pc, calls, w, preds, members>>
    BY <1>8 DEF domVars, forest, work
  <2>2. /\ succ' = succ /\ dfs_index' = dfs_index /\ parent' = parent
        /\ Numbered' <=> Numbered
        /\ Back' = Back /\ PredCodes' = PredCodes /\ Doms' = Doms
    BY <2>1, SameGraph
  <2>3. Arrays' <=> Arrays
    BY <2>1, <2>2 DEF Arrays
  <2>4. Fresh' <=> Fresh
    BY <2>1, <2>2 DEF Fresh
  <2>5. SemiPhase' <=> SemiPhase
    BY <2>1, <2>2 DEF SemiPhase
  <2>6. IdomPhase' <=> IdomPhase
    BY <2>1, <2>2 DEF IdomPhase
  <2>7. FrontierPhase' <=> FrontierPhase
    BY <2>1, <2>2 DEF FrontierPhase
  <2>8. (\E n : SearchOK(succ', dfs_index', parent', calls', n))
          <=> \E n : SearchOK(succ, dfs_index, parent, calls, n)
    BY <2>1, <2>2
  <2> QED BY <2>1, <2>2, <2>3, <2>4, <2>5, <2>6, <2>7, <2>8 DEF DomInv
<1> QED BY <1>1, <1>2, <1>3, <1>4, <1>5, <1>6, <1>7, <1>8 DEF Next

\* The invariant holds in every state that compute_dominance can be in.
THEOREM DominanceInvariant == Spec => []DomInv
  BY InvInit, InvNext, PTL DEF Spec

LEMMA InvEstimates == DomInv => EstimatesOK
<1> SUFFICES ASSUME DomInv PROVE EstimatesOK
  OBVIOUS
<1>1. Arrays
  BY DEF DomInv
<1>2. \A i \in 1 .. N - 1 : i \in Nodes \ {0}
  BY DEF Nodes
<1>3. TypeOK
  <2>1. succ \in [Codes -> SUBSET Codes]
    BY <1>1, GraphFacts DEF Arrays
  <2>2. /\ parent \in [Nodes -> Nodes \union {NoNode}] /\ ancestor \in [Nodes -> Nodes \union {NoNode}]
        /\ \A i \in 1 .. N - 1 : parent[i] < i /\ ancestor[i] < i
    BY <1>1, <1>2 DEF Arrays, Rooted
  <2> QED BY <1>1, <2>1, <2>2 DEF Arrays, TypeOK
<1>4. SemiNotTooLow
  <2> SUFFICES ASSUME pc = "idom", NEW i \in 1 .. N - 1 PROVE semi[i] >= RealSemi(i)
    BY DEF SemiNotTooLow
  <2>1. Numbered /\ InSemi(Back, semi[i], i) /\ i \in Nodes
    BY <1>2 DEF DomInv, IdomPhase, StillRelative
  <2> QED BY <2>1, SemiReal
<1>5. IdomNotTooHigh
  <2> SUFFICES ASSUME pc = "frontier", NEW i \in 1 .. N - 1
               PROVE  idom[i] >= dfs_index[Idom(succ, CodeAt(i))] /\ idom[i] \in Ancestors(i)
    BY DEF IdomNotTooHigh
  <2>1. Numbered /\ NotTooHigh(parent, Doms, idom, N) /\ i \in Nodes \ {0}
    BY <1>2 DEF DomInv, FrontierPhase
  <2>2. idom[i] \in Nodes /\ idom[i] \in Above(parent, i) /\ \A d \in Doms[i] : d <= idom[i]
    BY <2>1, NodeFacts DEF NotTooHigh
  <2>3. PICK m \in Doms[i] : \A d \in Doms[i] : Dom(d, m)
    BY <2>1, IdomExists
  <2>4. m \in Nodes
    BY <2>1 DEF Doms
  <2>5. dfs_index[Idom(succ, CodeAt(i))] = m
    BY <2>1, <2>3, <2>4, IdomIs, CodeAtFacts
  <2> QED BY <2>2, <2>4, <2>5, NodeNumber, AncestorsAbove
<1> QED BY <1>3, <1>4, <1>5 DEF EstimatesOK

LEMMA InvExact == DomInv => ExactIfDone
<1> SUFFICES ASSUME DomInv, pc = "done", NEW i \in Nodes
             PROVE  /\ i # 0 => CodeAt(idom[i]) = Idom(succ, CodeAt(i))
                    /\ frontier[i] = Index(DomFrontier(succ, CodeAt(i)))
  BY DEF ExactIfDone
<1>1. /\ Numbered /\ w \in 1 .. N /\ w >= N /\ Rooted(idom)
      /\ NotTooHigh(parent, Doms, idom, N)
      /\ Joined(PredCodes, Back, idom, frontier, w)
  BY DEF DomInv, FrontierPhase
<1>2. w = N
  BY <1>1
<1>3. Joined(PredCodes, Back, idom, frontier, N)
  BY <1>1, <1>2
<1>4. Met
  BY <1>1, <1>3, JoinedMet
<1> QED BY <1>1, <1>3, <1>4, MetIsIdom, MetFrontier

\* The numbers of the nodes stay in the arrays, no semidominator is estimated too low
\* and no dominator is left too high in the tree (ir.c:189), for every graph and
\* whatever the order in which the sets are visited.
THEOREM DominanceEstimates == Spec => []EstimatesOK
  BY DominanceInvariant, InvEstimates, PTL

\* If compute_dominance returns without leaving the array of nodes, the dominators and
\* the frontiers it leaves are the real ones, although the links are set too early.
THEOREM DominanceExact == Spec => []ExactIfDone
  BY DominanceInvariant, InvExact, PTL
=============================================================================
