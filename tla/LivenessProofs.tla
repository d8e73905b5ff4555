--------------------------- MODULE LivenessProofs ---------------------------
(***************************************************************************)
(* Proofs about Liveness: the list of nodes to update fits its array, and  *)
(* when it is empty every node knows exactly what is live in front of it,  *)
(* for every function, whatever its jumps and loops.                       *)
(*                                                                         *)
(* Induction is by the least counterexample: a set of naturals that is not *)
(* empty has a least member.                                               *)
(***************************************************************************)
EXTENDS Liveness, FiniteSetTheorems, WellFoundedInduction, TLAPS

USE LivenessAssumption

\* A set of naturals has a least member.
LEMMA LeastNumber ==
  ASSUME NEW T, T \subseteq Nat, T # {}
  PROVE  \E n \in T : \A k \in T : n <= k
<1>1. PICK n \in T : \A k \in T : ~ (<<k, n>> \in OpToRel(<, Nat))
  BY NatLessThanWellFounded, WFMin
<1>2. ASSUME NEW k \in T PROVE n <= k
  <2>1. ~ (k < n)
    BY <1>1 DEF OpToRel
  <2> QED BY <2>1
<1> QED BY <1>2

-----------------------------------------------------------------------------
(* The order in which the predecessors are listed.                          *)

SortedIn(S, q) == \A j, k \in 1 .. Cardinality(S) : j < k => q[j] < q[k]

\* A finite set of positive numbers can be listed in order.
LEMMA SortedExists ==
  ASSUME NEW n \in Nat, NEW S \in SUBSET (1 .. n)
  PROVE  \E q \in [1 .. Cardinality(S) -> S] : SortedIn(S, q)
<1> DEFINE Can(X) == \E q \in [1 .. Cardinality(X) -> X] : SortedIn(X, q)
           Bad == {m \in Nat : \E X \in SUBSET (1 .. m) : ~ Can(X)}
<1> SUFFICES ASSUME Bad # {} PROVE FALSE
  OBVIOUS
<1>1. PICK m \in Bad : \A k \in Bad : m <= k
  <2>1. Bad \subseteq Nat
    OBVIOUS
  <2> HIDE DEF Bad
  <2> QED BY <2>1, LeastNumber
<1>2. PICK X \in SUBSET (1 .. m) : ~ Can(X)
  OBVIOUS
<1>a. m \in Nat /\ (m # 0 => m - 1 \in Nat /\ m - 1 \notin Bad)
  <2>1. m \in Nat
    OBVIOUS
  <2> HIDE DEF Bad
  <2> QED BY <1>1, <2>1
<1>b. \A k \in Nat \ Bad : \A Y \in SUBSET (1 .. k) : Can(Y)
  OBVIOUS
<1> HIDE DEF Bad
<1>3. IsFiniteSet(X) /\ IsFiniteSet(X \ {m}) /\ Cardinality(X \ {m}) \in Nat
  <2>1. IsFiniteSet(1 .. m)
    BY <1>a, FS_Interval
  <2> QED BY <2>1, FS_Subset, FS_CardinalityType
<1>4. X # {}
  <2>1. SUFFICES ASSUME X = {} PROVE FALSE
    OBVIOUS
  <2>2. Cardinality(X) = 0
    BY <2>1, FS_EmptySet
  <2>3. [j \in 1 .. 0 |-> j] \in [1 .. Cardinality(X) -> X] /\ SortedIn(X, [j \in 1 .. 0 |-> j])
    BY <2>1, <2>2 DEF SortedIn
  <2> QED BY <1>2, <2>3
<1>5. m \in X /\ m \in Nat \ {0}
  <2>1. PICK x \in X : TRUE
    BY <1>4
  <2>3. x \in 1 .. m
    BY <2>1
  <2>4. m # 0
    BY <1>a, <2>3
  <2>2. X \notin SUBSET (1 .. m - 1)
    BY <1>2, <1>a, <1>b, <2>4
  <2> QED BY <1>2, <1>a, <2>4, <2>2
<1>6. Can(X \ {m})
  <2>1. X \ {m} \in SUBSET (1 .. m - 1)
    BY <1>2, <1>5
  <2> QED BY <1>a, <1>b, <1>5, <2>1
<1> DEFINE c == Cardinality(X \ {m})
<1>7. Cardinality(X) = c + 1
  <2>1. (X \ {m}) \union {m} = X
    BY <1>5
  <2> QED BY <1>3, <2>1, FS_AddElement
<1>8. PICK q \in [1 .. c -> X \ {m}] : \A j, k \in 1 .. c : j < k => q[j] < q[k]
  BY <1>6 DEF SortedIn
<1> DEFINE r == [j \in 1 .. c + 1 |-> IF j = c + 1 THEN m ELSE q[j]]
<1>9. c \in Nat
  BY <1>3
<1> HIDE DEF c, Can
<1>10. r \in [1 .. c + 1 -> X]
  BY <1>5, <1>8, <1>9
<1>11. ASSUME NEW j \in 1 .. c + 1, NEW k \in 1 .. c + 1, j < k PROVE r[j] < r[k]
  <2>1. q[j] \in X \ {m} /\ j \in 1 .. c
    BY <1>8, <1>9, <1>11
  <2>2. q[j] \in 1 .. m /\ q[j] # m
    BY <2>1
  <2>3. q[j] < m
    BY <1>a, <2>2
  <2>4. CASE k = c + 1
    BY <1>9, <1>11, <2>1, <2>3, <2>4
  <2>5. CASE k # c + 1
    BY <1>8, <1>9, <1>11, <2>1, <2>5
  <2> QED BY <2>4, <2>5
<1> QED BY <1>2, <1>7, <1>10, <1>11 DEF Can, SortedIn

\* The preds of a node are each listed once, in order.
LEMMA SortedPredsLists ==
  ASSUME NEW S \in SUBSET Nodes
  PROVE  /\ SortedPreds(S) \in Seq(S) /\ Len(SortedPreds(S)) = Cardinality(S)
         /\ \A j, k \in 1 .. Len(SortedPreds(S)) : SortedPreds(S)[j] = SortedPreds(S)[k] => j = k
         /\ \A i \in S : \E k \in 1 .. Len(SortedPreds(S)) : SortedPreds(S)[k] = i
<1> DEFINE q == SortedPreds(S)  n == Cardinality(S)
<1>1. IsFiniteSet(S) /\ n \in Nat
  <2>1. IsFiniteSet(Nodes)
    BY FS_Interval DEF Nodes
  <2> QED BY <2>1, FS_Subset, FS_CardinalityType
<1>2. q \in [1 .. n -> S] /\ \A j, k \in 1 .. n : j < k => q[j] < q[k]
  <2>1. \E f \in [1 .. n -> S] : \A j, k \in 1 .. n : j < k => f[j] < f[k]
    BY SortedExists DEF SortedIn, Nodes
  <2> QED BY <2>1, Zenon DEF SortedPreds
<1> HIDE DEF q, n
<1>3. q \in Seq(S) /\ Len(q) = n
  BY <1>1, <1>2
<1>4. \A j, k \in 1 .. n : q[j] = q[k] => j = k
  <2> SUFFICES ASSUME NEW j \in 1 .. n, NEW k \in 1 .. n, q[j] = q[k], j # k PROVE FALSE
    OBVIOUS
  <2>1. q[j] \in Int /\ q[k] \in Int
    <3>1. S \subseteq Int
      BY DEF Nodes
    <3> QED BY <1>2, <3>1
  <2>2. j < k \/ k < j
    BY <1>1
  <2> QED BY <1>2, <2>1, <2>2
<1>5. \A i \in S : \E k \in 1 .. n : q[k] = i
  <2>1. q \in Injection(1 .. n, S)
    BY <1>2, <1>4 DEF Injection, IsInjective
  <2>2. Cardinality(1 .. n) = n
    BY <1>1, FS_Interval
  <2>3. q \in Surjection(1 .. n, S)
    BY <1>1, <2>1, <2>2, FS_Injection DEF n
  <2> QED BY <2>3 DEF Surjection
<1> QED BY <1>3, <1>4, <1>5 DEF q, n

-----------------------------------------------------------------------------
(* What LeadingTo computes: the least set that has the nodes of seed, and   *)
(* every node of pass that is followed by one it has.                       *)

\* The nodes of pass that lead to T in one step.
Before(pass, next, T) == {i \in pass : next[i] \intersect T # {}}

\* f lists what leads to seed in at most 0, 1, .. n steps.
IsLayers(f, seed, pass, next, n) ==
  /\ f \in [0 .. n -> SUBSET Nodes]
  /\ f[0] = seed
  /\ \A k \in 1 .. n : f[k] = f[k - 1] \union Before(pass, next, f[k - 1])

\* There is such a list of every length.
LEMMA LayersExist ==
  ASSUME NEW seed \in SUBSET Nodes, NEW pass \in SUBSET Nodes, NEW next, NEW n \in Nat
  PROVE  \E f : IsLayers(f, seed, pass, next, n)
<1> DEFINE Bad == {k \in Nat : ~ \E f : IsLayers(f, seed, pass, next, k)}
<1> SUFFICES ASSUME Bad # {} PROVE FALSE
  OBVIOUS
<1>1. Bad \subseteq Nat
  OBVIOUS
<1>2. \A k \in Nat : k \notin Bad <=> \E f : IsLayers(f, seed, pass, next, k)
  OBVIOUS
<1> HIDE DEF Bad
<1>3. PICK m \in Bad : \A k \in Bad : m <= k
  BY <1>1, LeastNumber
<1>4. m \in Nat
  BY <1>1
<1>5. m # 0
  <2> DEFINE g == [k \in 0 .. 0 |-> seed]
  <2>1. IsLayers(g, seed, pass, next, 0)
    BY DEF IsLayers
  <2> QED BY <1>2, <2>1
<1>6. m - 1 \in Nat /\ m - 1 \notin Bad
  BY <1>3, <1>4, <1>5
<1>7. PICK f : IsLayers(f, seed, pass, next, m - 1)
  BY <1>2, <1>6
<1> DEFINE g == [k \in 0 .. m |-> IF k = m THEN f[m - 1] \union Before(pass, next, f[m - 1]) ELSE f[k]]
<1>8. \A T : Before(pass, next, T) \in SUBSET Nodes
  BY DEF Before
<1>9. g \in [0 .. m -> SUBSET Nodes] /\ g[0] = seed
  BY <1>4, <1>5, <1>6, <1>7, <1>8 DEF IsLayers
<1>10. ASSUME NEW k \in 1 .. m PROVE g[k] = g[k - 1] \union Before(pass, next, g[k - 1])
  <2>1. g[k - 1] = f[k - 1]
    BY <1>4, <1>5
  <2>2. CASE k = m
    BY <1>4, <2>1, <2>2
  <2>3. CASE k # m
    <3>1. g[k] = f[k] /\ k \in 1 .. m - 1
      BY <1>4, <2>3
    <3> HIDE DEF g
    <3> QED BY <1>7, <2>1, <3>1 DEF IsLayers
  <2> QED BY <2>2, <2>3
<1> HIDE DEF g
<1>11. IsLayers(g, seed, pass, next, m)
  BY <1>9, <1>10 DEF IsLayers
<1> QED BY <1>2, <1>3, <1>4, <1>11

\* The last of the list is what LeadingTo returns.
LEMMA LeadingToLayers ==
  ASSUME NEW seed \in SUBSET Nodes, NEW pass \in SUBSET Nodes, NEW next
  PROVE  \E f : IsLayers(f, seed, pass, next, NumInsns) /\ LeadingTo(seed, pass, next) = f[NumInsns]
<1> DEFINE Defines(f) == f = [k \in 0 .. NumInsns |->
                            IF k = 0 THEN seed
                            ELSE f[k - 1] \union {i \in pass : next[i] \intersect f[k - 1] # {}}]
           L == CHOOSE f : Defines(f)
<1>1. PICK g : IsLayers(g, seed, pass, next, NumInsns)
  BY LayersExist
<1>2. Defines(g)
  <2>1. \A k \in 0 .. NumInsns : g[k] = IF k = 0 THEN seed ELSE g[k - 1] \union Before(pass, next, g[k - 1])
    BY <1>1 DEF IsLayers
  <2>2. g = [k \in 0 .. NumInsns |-> g[k]]
    BY <1>1 DEF IsLayers
  <2> QED BY <2>1, <2>2 DEF Before
<1>3. Defines(L)
  <2> HIDE DEF Defines
  <2> QED BY <1>2, Zenon
<1>4. LeadingTo(seed, pass, next) = L[NumInsns]
  BY DEF LeadingTo
<1> HIDE DEF L
<1>5. L[0] = seed
  BY <1>3
<1>6. \A k \in 1 .. NumInsns : L[k] = L[k - 1] \union Before(pass, next, L[k - 1])
  <2>1. \A k \in 0 .. NumInsns :
          L[k] = IF k = 0 THEN seed ELSE L[k - 1] \union {i \in pass : next[i] \intersect L[k - 1] # {}}
    BY <1>3
  <2>2. \A k \in 1 .. NumInsns : k \in 0 .. NumInsns /\ k # 0
    OBVIOUS
  <2> HIDE DEF Defines
  <2> QED BY <2>1, <2>2, Zenon DEF Before
<1>7. L = [k \in 0 .. NumInsns |-> L[k]]
  BY <1>3
<1> DEFINE Bad == {k \in 0 .. NumInsns : L[k] \notin SUBSET Nodes}
<1>8. Bad = {}
  <2> SUFFICES ASSUME Bad # {} PROVE FALSE
    OBVIOUS
  <2>1. PICK m \in Bad : \A k \in Bad : m <= k
    <3>1. Bad \subseteq Nat
      OBVIOUS
    <3> HIDE DEF Bad
    <3> QED BY <3>1, LeastNumber
  <2>2. m \in 1 .. NumInsns
    BY <1>5
  <2>3. m - 1 \in 0 .. NumInsns /\ m - 1 \notin Bad
    <3>1. m - 1 \in 0 .. NumInsns
      BY <2>2
    <3> HIDE DEF Bad
    <3> QED BY <2>1, <2>2, <3>1
  <2>4. L[m - 1] \in SUBSET Nodes
    BY <2>3
  <2>5. L[m] \in SUBSET Nodes
    BY <1>6, <2>2, <2>4 DEF Before
  <2> QED BY <2>5
<1>9. IsLayers(L, seed, pass, next, NumInsns)
  <2>1. L \in [0 .. NumInsns -> SUBSET Nodes]
    BY <1>7, <1>8
  <2> QED BY <1>5, <1>6, <2>1 DEF IsLayers
<1> QED BY <1>4, <1>9

\* A longer list only adds nodes.
LEMMA LayersGrow ==
  ASSUME NEW seed, NEW pass, NEW next, NEW n \in Nat, NEW f, IsLayers(f, seed, pass, next, n),
         NEW j \in 0 .. n
  PROVE  \A k \in j .. n : f[j] \subseteq f[k]
<1> DEFINE Bad == {k \in j .. n : ~ (f[j] \subseteq f[k])}
<1> SUFFICES ASSUME Bad # {} PROVE FALSE
  OBVIOUS
<1>1. Bad \subseteq Nat
  OBVIOUS
<1>2. PICK m \in Bad : \A k \in Bad : m <= k
  <2> HIDE DEF Bad
  <2> QED BY <1>1, LeastNumber
<1>3. m \in j .. n /\ ~ (f[j] \subseteq f[m]) /\ m # j
  OBVIOUS
<1>4. m - 1 \in j .. n /\ m - 1 \notin Bad /\ m \in 1 .. n
  <2>1. m - 1 \in j .. n /\ m \in 1 .. n /\ ~ (m <= m - 1)
    BY <1>3
  <2> HIDE DEF Bad
  <2> QED BY <1>2, <2>1
<1>5. f[j] \subseteq f[m - 1]
  BY <1>4
<1>6. f[m - 1] \subseteq f[m]
  BY <1>4 DEF IsLayers
<1> QED BY <1>3, <1>5, <1>6

\* A list as long as the function has all that leads to seed: a step that adds
\* nothing is the last to add something, and a step that adds a node is one of
\* NumInsns at most.
LEMMA LayersComplete ==
  ASSUME NEW seed, NEW pass \in SUBSET Nodes, NEW next,
         NEW f, IsLayers(f, seed, pass, next, NumInsns)
  PROVE  Before(pass, next, f[NumInsns]) \subseteq f[NumInsns]
<1>0. \A k \in 0 .. NumInsns : f[k] \in SUBSET Nodes /\ IsFiniteSet(f[k]) /\ Cardinality(f[k]) \in Nat
  <2>1. IsFiniteSet(Nodes)
    BY FS_Interval DEF Nodes
  <2>2. \A k \in 0 .. NumInsns : f[k] \in SUBSET Nodes
    BY DEF IsLayers
  <2> QED BY <2>1, <2>2, FS_Subset, FS_CardinalityType
<1>1. ASSUME NEW k \in 0 .. NumInsns - 1, f[k + 1] = f[k]
      PROVE  Before(pass, next, f[NumInsns]) \subseteq f[NumInsns]
  <2> DEFINE Bad == {j \in k .. NumInsns : f[j] # f[k]}
  <2>1. Bad = {}
    <3> SUFFICES ASSUME Bad # {} PROVE FALSE
      OBVIOUS
    <3>1. Bad \subseteq Nat
      OBVIOUS
    <3>2. PICK m \in Bad : \A j \in Bad : m <= j
      <4> HIDE DEF Bad
      <4> QED BY <3>1, LeastNumber
    <3>3. m \in k .. NumInsns /\ f[m] # f[k] /\ m # k
      OBVIOUS
    <3>4. m - 1 \in k .. NumInsns /\ m - 1 \notin Bad /\ m \in 1 .. NumInsns /\ k + 1 \in 1 .. NumInsns
      <4>1. m - 1 \in k .. NumInsns /\ m \in 1 .. NumInsns /\ ~ (m <= m - 1) /\ k + 1 \in 1 .. NumInsns
        BY <3>3
      <4> HIDE DEF Bad
      <4> QED BY <3>2, <4>1
    <3>5. f[m - 1] = f[k]
      BY <3>4
    <3>6. f[m] = f[m - 1] \union Before(pass, next, f[m - 1])
      BY <3>4 DEF IsLayers
    <3>7. f[k + 1] = f[(k + 1) - 1] \union Before(pass, next, f[(k + 1) - 1])
      BY <3>4 DEF IsLayers
    <3>8. (k + 1) - 1 = k
      OBVIOUS
    <3> QED BY <1>1, <3>3, <3>5, <3>6, <3>7, <3>8
  <2>2. f[NumInsns] = f[k]
    BY <2>1
  <2>3. f[k + 1] = f[(k + 1) - 1] \union Before(pass, next, f[(k + 1) - 1])
    <3>1. k + 1 \in 1 .. NumInsns
      OBVIOUS
    <3> QED BY <3>1 DEF IsLayers
  <2>4. (k + 1) - 1 = k
    OBVIOUS
  <2> QED BY <1>1, <2>2, <2>3, <2>4
<1>2. ASSUME \A k \in 0 .. NumInsns - 1 : f[k + 1] # f[k]
      PROVE  f[NumInsns] = Nodes
  <2> DEFINE Bad == {k \in 0 .. NumInsns : Cardinality(f[k]) < k}
  <2>1. Bad = {}
    <3> SUFFICES ASSUME Bad # {} PROVE FALSE
      OBVIOUS
    <3>1. Bad \subseteq Nat
      OBVIOUS
    <3>2. PICK m \in Bad : \A j \in Bad : m <= j
      <4> HIDE DEF Bad
      <4> QED BY <3>1, LeastNumber
    <3>3. m \in 0 .. NumInsns /\ Cardinality(f[m]) < m
      OBVIOUS
    <3>4. m # 0
      BY <1>0, <3>3
    <3>5. m - 1 \in 0 .. NumInsns - 1 /\ m - 1 \in 0 .. NumInsns /\ m \in 1 .. NumInsns /\ (m - 1) + 1 = m
      BY <3>3, <3>4
    <3>6. m - 1 \notin Bad
      <4>1. ~ (m <= m - 1)
        BY <3>5
      <4> HIDE DEF Bad
      <4> QED BY <3>2, <4>1
    <3>7. Cardinality(f[m - 1]) >= m - 1
      BY <1>0, <3>5, <3>6
    <3>8. f[m - 1] \subseteq f[m] /\ f[m] # f[m - 1]
      <4>1. f[m] = f[m - 1] \union Before(pass, next, f[m - 1])
        BY <3>5 DEF IsLayers
      <4>2. f[(m - 1) + 1] # f[m - 1]
        BY <1>2, <3>5
      <4> QED BY <3>5, <4>1, <4>2
    <3>9. Cardinality(f[m - 1]) <= Cardinality(f[m]) /\ Cardinality(f[m - 1]) # Cardinality(f[m])
      <4>1. IsFiniteSet(f[m])
        BY <1>0, <3>3
      <4> QED BY <3>8, <4>1, FS_Subset
    <3>10. Cardinality(f[m]) \in Nat /\ Cardinality(f[m - 1]) \in Nat
      BY <1>0, <3>5, <3>3
    <3> HIDE DEF Bad
    <3> QED BY <3>3, <3>5, <3>7, <3>9, <3>10
  <2>2. Cardinality(f[NumInsns]) >= NumInsns
    <3>1. NumInsns \in 0 .. NumInsns /\ NumInsns \notin Bad
      BY <2>1
    <3> QED BY <1>0, <3>1
  <2>3. IsFiniteSet(Nodes) /\ Cardinality(Nodes) = NumInsns
    BY FS_Interval DEF Nodes
  <2>4. f[NumInsns] \in SUBSET Nodes /\ Cardinality(f[NumInsns]) \in Nat
    BY <1>0
  <2>5. Cardinality(f[NumInsns]) <= Cardinality(Nodes)
    BY <2>3, <2>4, FS_Subset
  <2>6. Cardinality(f[NumInsns]) = Cardinality(Nodes)
    BY <2>2, <2>3, <2>4, <2>5
  <2> QED BY <2>3, <2>4, <2>6, FS_Subset
<1> QED BY <1>1, <1>2 DEF Before

\* LeadingTo is the least set with the nodes of seed and all of pass that lead to it.
LEMMA LeadingToLeast ==
  ASSUME NEW seed \in SUBSET Nodes, NEW pass \in SUBSET Nodes, NEW next
  PROVE  /\ LeadingTo(seed, pass, next) \in SUBSET Nodes
         /\ seed \subseteq LeadingTo(seed, pass, next)
         /\ Before(pass, next, LeadingTo(seed, pass, next)) \subseteq LeadingTo(seed, pass, next)
         /\ \A S : seed \subseteq S /\ Before(pass, next, S) \subseteq S
                   => LeadingTo(seed, pass, next) \subseteq S
<1>1. PICK f : IsLayers(f, seed, pass, next, NumInsns) /\ LeadingTo(seed, pass, next) = f[NumInsns]
  BY LeadingToLayers
<1>2. f[NumInsns] \in SUBSET Nodes
  BY <1>1 DEF IsLayers
<1>3. seed \subseteq f[NumInsns]
  <2>1. f[0] = seed
    BY <1>1 DEF IsLayers
  <2>2. 0 \in 0 .. NumInsns /\ NumInsns \in 0 .. NumInsns
    OBVIOUS
  <2> QED BY <1>1, <2>1, <2>2, LayersGrow
<1>4. Before(pass, next, f[NumInsns]) \subseteq f[NumInsns]
  BY <1>1, LayersComplete
<1>5. ASSUME NEW S, seed \subseteq S, Before(pass, next, S) \subseteq S
      PROVE  f[NumInsns] \subseteq S
  <2> DEFINE Bad == {k \in 0 .. NumInsns : ~ (f[k] \subseteq S)}
  <2> SUFFICES ASSUME Bad # {} PROVE FALSE
    OBVIOUS
  <2>1. Bad \subseteq Nat
    OBVIOUS
  <2>2. PICK m \in Bad : \A k \in Bad : m <= k
    <3> HIDE DEF Bad
    <3> QED BY <2>1, LeastNumber
  <2>3. m \in 0 .. NumInsns /\ ~ (f[m] \subseteq S)
    OBVIOUS
  <2>4. m # 0
    BY <1>1, <1>5, <2>3 DEF IsLayers
  <2>5. m - 1 \in 0 .. NumInsns /\ m \in 1 .. NumInsns /\ m - 1 \notin Bad
    <3>1. m - 1 \in 0 .. NumInsns /\ m \in 1 .. NumInsns /\ ~ (m <= m - 1)
      BY <2>3, <2>4
    <3> HIDE DEF Bad
    <3> QED BY <2>2, <3>1
  <2>6. f[m - 1] \subseteq S
    BY <2>5
  <2>7. f[m] = f[m - 1] \union Before(pass, next, f[m - 1])
    BY <1>1, <2>5 DEF IsLayers
  <2>8. Before(pass, next, f[m - 1]) \subseteq Before(pass, next, S)
    BY <2>6 DEF Before
  <2> QED BY <1>5, <2>3, <2>6, <2>7, <2>8
<1> QED BY <1>1, <1>2, <1>3, <1>4, <1>5

-----------------------------------------------------------------------------
(* Lists of the members of a set, each once.                                *)

Lists(q, S) ==
  /\ q \in Seq(S)
  /\ \A j, k \in 1 .. Len(q) : q[j] = q[k] => j = k
  /\ \A x \in S : \E k \in 1 .. Len(q) : q[k] = x

\* The head of a list is taken away.
LEMMA ListsTail ==
  ASSUME NEW S, NEW q, Lists(q, S), q # <<>>
  PROVE  Head(q) \in S /\ Lists(Tail(q), S \ {Head(q)})
<1>1. q \in Seq(S) /\ Len(q) \in Nat \ {0} /\ Head(q) = q[1] /\ q[1] \in S
  BY DEF Lists
<1>2. Tail(q) \in Seq(S) /\ Len(Tail(q)) = Len(q) - 1 /\ \A k \in 1 .. Len(q) - 1 : Tail(q)[k] = q[k + 1]
  BY <1>1
<1> DEFINE t == Tail(q)  h == q[1]
<1> HIDE DEF t, h
<1>3. \A k \in 1 .. Len(q) - 1 : t[k] = q[k + 1] /\ t[k] \in S \ {h}
  <2> SUFFICES ASSUME NEW k \in 1 .. Len(q) - 1 PROVE t[k] = q[k + 1] /\ t[k] \in S \ {h}
    OBVIOUS
  <2>1. k + 1 \in 1 .. Len(q) /\ 1 \in 1 .. Len(q) /\ k + 1 # 1
    BY <1>1
  <2>2. q[k + 1] \in S /\ q[k + 1] # q[1]
    BY <1>1, <2>1 DEF Lists
  <2> QED BY <1>2, <2>2 DEF t, h
<1>4. t \in Seq(S \ {h})
  <2>1. t \in Seq(S) /\ Len(t) = Len(q) - 1
    BY <1>2 DEF t
  <2>2. t \in [1 .. Len(t) -> S] /\ Len(t) \in Nat
    BY <2>1
  <2>3. t \in [1 .. Len(t) -> S \ {h}]
    BY <1>3, <2>1, <2>2
  <2> QED BY <2>2, <2>3
<1>5. \A j, k \in 1 .. Len(t) : t[j] = t[k] => j = k
  <2> SUFFICES ASSUME NEW j \in 1 .. Len(t), NEW k \in 1 .. Len(t), t[j] = t[k] PROVE j = k
    OBVIOUS
  <2>1. Len(t) = Len(q) - 1
    BY <1>2 DEF t
  <2>2. j + 1 \in 1 .. Len(q) /\ k + 1 \in 1 .. Len(q) /\ q[j + 1] = q[k + 1]
    BY <1>1, <1>3, <2>1
  <2>3. j + 1 = k + 1
    BY <2>2 DEF Lists
  <2> QED BY <1>1, <2>1, <2>3
<1>6. \A x \in S \ {h} : \E k \in 1 .. Len(t) : t[k] = x
  <2> SUFFICES ASSUME NEW x \in S \ {h} PROVE \E k \in 1 .. Len(t) : t[k] = x
    OBVIOUS
  <2>1. PICK k \in 1 .. Len(q) : q[k] = x
    BY DEF Lists
  <2>2. k # 1
    BY <2>1 DEF h
  <2>3. k - 1 \in 1 .. Len(t) /\ (k - 1) + 1 = k
    BY <1>1, <1>2, <2>2 DEF t
  <2>4. t[k - 1] = x
    BY <1>2, <1>3, <2>1, <2>3 DEF t
  <2> QED BY <2>3, <2>4
<1> QED BY <1>1, <1>4, <1>5, <1>6 DEF Lists, t, h

\* A list is put behind another that has none of its members.
LEMMA ListsConcat ==
  ASSUME NEW S, NEW T, NEW q, NEW r, Lists(q, S), Lists(r, T), S \intersect T = {}
  PROVE  Lists(q \o r, S \union T)
<1> DEFINE c == q \o r  m == Len(q)  n == Len(r)
<1>1. q \in Seq(S) /\ r \in Seq(T) /\ m \in Nat /\ n \in Nat
  BY DEF Lists
<1>2. \A k \in 1 .. m : q[k] \in S
  BY <1>1
<1>3. \A k \in 1 .. n : r[k] \in T
  BY <1>1
<1>4. c \in Seq(S \union T) /\ Len(c) = m + n
  <2>1. q \in Seq(S \union T) /\ r \in Seq(S \union T)
    BY <1>1
  <2> QED BY <1>1, <2>1
<1>5. \A k \in 1 .. m + n : c[k] = IF k <= m THEN q[k] ELSE r[k - m]
  BY <1>1
<1> HIDE DEF c, m, n
<1>6. ASSUME NEW j \in 1 .. m + n, NEW k \in 1 .. m + n, c[j] = c[k] PROVE j = k
  <2>1. CASE j <= m /\ k <= m
    <3>1. j \in 1 .. m /\ k \in 1 .. m /\ q[j] = q[k]
      BY <1>1, <1>5, <1>6, <2>1
    <3> QED BY <3>1 DEF Lists, m
  <2>2. CASE ~ (j <= m) /\ ~ (k <= m)
    <3>1. j - m \in 1 .. n /\ k - m \in 1 .. n /\ r[j - m] = r[k - m]
      BY <1>1, <1>5, <1>6, <2>2
    <3>2. j - m = k - m
      BY <3>1 DEF Lists, n
    <3> QED BY <1>1, <3>2
  <2>3. CASE j <= m /\ ~ (k <= m)
    <3>1. j \in 1 .. m /\ k - m \in 1 .. n /\ q[j] = r[k - m]
      BY <1>1, <1>5, <1>6, <2>3
    <3> QED BY <1>2, <1>3, <3>1
  <2>4. CASE ~ (j <= m) /\ k <= m
    <3>1. k \in 1 .. m /\ j - m \in 1 .. n /\ q[k] = r[j - m]
      BY <1>1, <1>5, <1>6, <2>4
    <3> QED BY <1>2, <1>3, <3>1
  <2> QED BY <2>1, <2>2, <2>3, <2>4
<1>7. ASSUME NEW x \in S \union T PROVE \E k \in 1 .. m + n : c[k] = x
  <2>1. CASE x \in S
    <3>1. PICK k \in 1 .. m : q[k] = x
      BY <2>1 DEF Lists, m
    <3>2. k \in 1 .. m + n /\ k <= m
      BY <1>1
    <3> QED BY <1>5, <3>1, <3>2
  <2>2. CASE x \in T
    <3>1. PICK k \in 1 .. n : r[k] = x
      BY <2>2 DEF Lists, n
    <3>2. k + m \in 1 .. m + n /\ ~ (k + m <= m) /\ (k + m) - m = k
      BY <1>1
    <3> QED BY <1>5, <3>1, <3>2
  <2> QED BY <2>1, <2>2
<1> QED BY <1>4, <1>6, <1>7 DEF Lists, c

\* Nothing is listed by the list without members, a single one by its list.
LEMMA ListsFew == Lists(<<>>, {}) /\ \A x : Lists(<<x>>, {x})
  BY DEF Lists

\* A list of nodes, each once, fits an array as long as the function.
LEMMA ListsFit ==
  ASSUME NEW S \in SUBSET Nodes, NEW q, Lists(q, S)
  PROVE  q \in Seq(Nodes) /\ Len(q) <= NumInsns
<1>1. S \subseteq Nodes
  OBVIOUS
<1>2. IsFiniteSet(Nodes) /\ Cardinality(Nodes) = NumInsns
  BY FS_Interval DEF Nodes
<1>3. IsFiniteSet(S) /\ Cardinality(S) <= NumInsns /\ Cardinality(S) \in Nat
  BY <1>1, <1>2, FS_Subset, FS_CardinalityType
<1>5. q \in Seq(S) /\ Len(q) \in Nat /\ q \in [1 .. Len(q) -> S]
  BY DEF Lists
<1>6. q \in Injection(1 .. Len(q), S)
  BY <1>5 DEF Lists, Injection, IsInjective
<1>7. Cardinality(1 .. Len(q)) = Len(q) /\ Cardinality(1 .. Len(q)) <= Cardinality(S)
  <2>1. IsFiniteSet(1 .. Len(q)) /\ Cardinality(1 .. Len(q)) = Len(q)
    BY <1>5, FS_Interval
  <2>2. Cardinality(1 .. Len(q)) <= Cardinality(S)
    BY <1>3, <1>6, FS_Injection
  <2> QED BY <2>1, <2>2
<1>8. q \in Seq(Nodes)
  BY <1>1, <1>5
<1> QED BY <1>3, <1>5, <1>7, <1>8

-----------------------------------------------------------------------------
(* The invariant that carries the proofs.                                   *)

\* What is live behind a node is what is live in front of the nodes it leads to,
\* also while the nodes are still being updated.
OutFromIn == \A i \in Nodes : out[i] = UNION {in[s] : s \in Succ(i)}

\* What has been found to be live is live.
InSound == \A i \in Nodes : \A v \in in[i] : i \in LiveAt(v, NodeLinks)

\* A node that is not dirty has nothing to add.
CleanSettled == \A i \in Nodes : ~ flag[i] => NewIn(i) = in[i]

\* The function does not fall through its end.
EndsInJump == insns[NumInsns].type \in {"jump", "return"}

\* Variables are linked once the list is empty, according to it.
LinksFromSets ==
  links # <<>> => dirty = <<>> /\ links = [u \in Vars |-> {v \in Vars : Linked(u, v)}]

LiveInv ==
  /\ WorklistOK
  /\ OutFromIn /\ InSound /\ CleanSettled /\ EndsInJump /\ LinksFromSets

\* What an instruction reads and writes are variables, and what it jumps to is an
\* instruction.
LEMMA InsnFacts ==
  ASSUME TypeOK, NEW i \in Nodes
  PROVE  /\ insns[i].use \in SUBSET Vars /\ insns[i].def \in SUBSET Vars
         /\ insns[i].type \in {"op", "jump", "branch", "return"}
         /\ insns[i].type \in {"jump", "branch"} => insns[i].target \in Nodes
<1>1. insns[i] \in InsnType
  BY DEF TypeOK
<1>2. \A S \in Uses : S \subseteq Vars
  BY DEF Uses
<1>3. \A S \in {{v} : v \in Vars} : S \subseteq Vars
  OBVIOUS
<1> QED BY <1>1, <1>2, <1>3 DEF InsnType

\* A node leads to nodes.
LEMMA SuccNodes ==
  ASSUME TypeOK, NEW i \in Nodes
  PROVE  Succ(i) \in SUBSET Nodes
<1>1. i < NumInsns => i + 1 \in Nodes
  BY DEF Nodes
<1> QED BY <1>1, InsnFacts DEF Succ, ir_next_after, ir_branch_target

\* What LiveAt means: v is live at a use of it, at a node that does not define it
\* and leads to one where it is live, and nowhere else.
LEMMA LiveAtMeans ==
  ASSUME NEW v, NEW next \in [Nodes -> SUBSET Nodes]
  PROVE  /\ LiveAt(v, next) \in SUBSET Nodes
         /\ \A i \in Nodes : v \in insns[i].use => i \in LiveAt(v, next)
         /\ \A i \in Nodes : v \notin insns[i].def /\ next[i] \intersect LiveAt(v, next) # {}
                             => i \in LiveAt(v, next)
         /\ \A S : /\ \A i \in Nodes : v \in insns[i].use => i \in S
                   /\ \A i \in Nodes : v \notin insns[i].def /\ next[i] \intersect S # {} => i \in S
                   => LiveAt(v, next) \subseteq S
<1> DEFINE seed == {i \in Nodes : v \in insns[i].use}
           pass == {i \in Nodes : v \notin insns[i].def}
<1>1. seed \in SUBSET Nodes /\ pass \in SUBSET Nodes
  OBVIOUS
<1>2. LiveAt(v, next) = LeadingTo(seed, pass, next)
  BY DEF LiveAt
<1>3. /\ \A i \in Nodes : i \in seed <=> v \in insns[i].use
      /\ \A i \in Nodes : i \in pass <=> v \notin insns[i].def
  OBVIOUS
<1> HIDE DEF seed, pass
<1> DEFINE L == LeadingTo(seed, pass, next)
<1>4. /\ L \in SUBSET Nodes /\ seed \subseteq L /\ Before(pass, next, L) \subseteq L
      /\ \A S : seed \subseteq S /\ Before(pass, next, S) \subseteq S => L \subseteq S
  BY <1>1, LeadingToLeast
<1>5. \A S : \A i : i \in Before(pass, next, S) <=> i \in pass /\ next[i] \intersect S # {}
  BY DEF Before
<1> HIDE DEF L
<1>6. ASSUME NEW S, \A i \in Nodes : v \in insns[i].use => i \in S,
             \A i \in Nodes : v \notin insns[i].def /\ next[i] \intersect S # {} => i \in S
      PROVE  L \subseteq S
  <2>1. seed \subseteq S
    BY <1>1, <1>3, <1>6
  <2>2. Before(pass, next, S) \subseteq S
    BY <1>1, <1>3, <1>5, <1>6
  <2> QED BY <1>4, <2>1, <2>2
<1>7. \A i \in Nodes : v \in insns[i].use => i \in L
  BY <1>3, <1>4
<1>8. \A i \in Nodes : v \notin insns[i].def /\ next[i] \intersect L # {} => i \in L
  BY <1>3, <1>4, <1>5
<1> QED BY <1>2, <1>4, <1>6, <1>7, <1>8 DEF L

\* The function stays what it is, and so does what is live in it.
LEMMA SameProgram ==
  ASSUME UNCHANGED <<insns, selected>>
  PROVE  /\ \A i \in Nodes : Succ(i)' = Succ(i)
         /\ NodeLinks' = NodeLinks
         /\ Flow' = Flow
         /\ \A v : LiveAt(v, NodeLinks)' = LiveAt(v, NodeLinks)
         /\ \A v : LiveAt(v, Flow)' = LiveAt(v, Flow)
<1>1. insns' = insns /\ selected' = selected
  OBVIOUS
<1>2. \A i \in Nodes : Succ(i)' = Succ(i)
  BY <1>1 DEF Succ, ir_next_after, ir_branch_target
<1>3. NodeLinks' = NodeLinks
  BY <1>2 DEF NodeLinks
<1>4. Flow' = Flow
  BY <1>1 DEF Flow
<1>5. \A v : LiveAt(v, NodeLinks)' = LiveAt(v, NodeLinks)
  BY <1>1, <1>3 DEF LiveAt
<1>6. \A v : LiveAt(v, Flow)' = LiveAt(v, Flow)
  BY <1>1, <1>4 DEF LiveAt
<1> QED BY <1>2, <1>3, <1>4, <1>5, <1>6

\* NodeLinks as a function.
LEMMA NodeLinksType ==
  ASSUME TypeOK
  PROVE  NodeLinks \in [Nodes -> SUBSET Nodes] /\ \A i \in Nodes : NodeLinks[i] = Succ(i)
  BY SuccNodes DEF NodeLinks

\* It holds at the start.
LEMMA LiveInit == Init => LiveInv
<1> SUFFICES ASSUME Init PROVE LiveInv
  OBVIOUS
<1>1. insns \in [Nodes -> InsnType] /\ EndsInJump
  <2>1. PICK first \in [1 .. NumInsns - 1 -> InsnType], last \in {x \in InsnType : x.type \in {"jump", "return"}} :
          insns = Append(first, last)
    BY DEF Init
  <2>2. first \in Seq(InsnType) /\ Len(first) = NumInsns - 1 /\ last \in InsnType
    OBVIOUS
  <2>3. insns \in Seq(InsnType) /\ Len(insns) = NumInsns /\ insns[NumInsns] = last
    BY <2>1, <2>2
  <2>4. insns \in [Nodes -> InsnType]
    BY <2>3 DEF Nodes
  <2> QED BY <2>1, <2>3, <2>4 DEF EndsInJump
<1>2. /\ selected \in BOOLEAN /\ links = <<>>
      /\ in = [i \in Nodes |-> {}] /\ out = [i \in Nodes |-> {}]
      /\ dirty = [i \in Nodes |-> i] /\ flag = [i \in Nodes |-> TRUE]
  BY DEF Init
<1>3. dirty \in Seq(Nodes) /\ Len(dirty) = NumInsns
  BY <1>2 DEF Nodes
<1>4. WorklistOK
  <2>1. TypeOK
    BY <1>1, <1>2, <1>3 DEF TypeOK
  <2>2. DirtyFits
    BY <1>2, <1>3 DEF DirtyFits, Nodes
  <2> QED BY <2>1, <2>2 DEF WorklistOK
<1>5. OutFromIn
  <2>1. \A i \in Nodes : Succ(i) \subseteq Nodes
    BY <1>4, SuccNodes DEF WorklistOK
  <2> QED BY <1>2, <2>1 DEF OutFromIn
<1>6. InSound /\ CleanSettled /\ LinksFromSets
  BY <1>2 DEF InSound, CleanSettled, LinksFromSets
<1> QED BY <1>1, <1>4, <1>5, <1>6 DEF LiveInv

\* The node that is updated gets nothing that is not live in front of it.
LEMMA NewInSound ==
  ASSUME TypeOK, OutFromIn, InSound, NEW i \in Nodes
  PROVE  NewIn(i) \in SUBSET Vars /\ \A v \in NewIn(i) : i \in LiveAt(v, NodeLinks)
<1>1. in[i] \in SUBSET Vars /\ out[i] \in SUBSET Vars /\ insns[i].use \in SUBSET Vars
  BY InsnFacts DEF TypeOK
<1>2. ASSUME NEW v \in NewIn(i) PROVE i \in LiveAt(v, NodeLinks)
  <2>1. CASE v \in in[i]
    BY <2>1 DEF InSound
  <2>2. CASE v \in insns[i].use
    BY <2>2, NodeLinksType, LiveAtMeans
  <2>3. CASE v \in out[i] \ insns[i].def
    <3>1. PICK s \in Succ(i) : v \in in[s]
      BY <2>3 DEF OutFromIn
    <3>2. s \in Nodes /\ s \in LiveAt(v, NodeLinks)
      BY <3>1, SuccNodes DEF InSound
    <3>3. NodeLinks[i] \intersect LiveAt(v, NodeLinks) # {}
      BY <3>1, <3>2, NodeLinksType
    <3> QED BY <2>3, <3>3, NodeLinksType, LiveAtMeans
  <2> QED BY <1>2, <2>1, <2>2, <2>3 DEF NewIn
<1> QED BY <1>1, <1>2 DEF NewIn

\* The update of node i, which makes the nodes in P dirty.
UpdateIs(i, P) ==
  /\ dirty # <<>> /\ i = Head(dirty) /\ i \in Nodes
  /\ P \in SUBSET Nodes /\ i \notin P
  /\ \A p \in Nodes \ {i} : p \in P <=> i \in Succ(p) /\ ~ NewIn(i) \subseteq out[p] /\ ~ flag[p]
  /\ in' = [in EXCEPT ![i] = NewIn(i)]
  /\ out' = [k \in Nodes |-> IF i \in Succ(k) THEN out[k] \union NewIn(i) ELSE out[k]]
  /\ flag' = [k \in Nodes |-> IF k = i THEN NewIn(i) # in[i] ELSE flag[k] \/ k \in P]
  /\ dirty' = Tail(dirty) \o SortedPreds(P) \o (IF NewIn(i) # in[i] THEN <<i>> ELSE <<>>)
  /\ UNCHANGED <<insns, selected, links>>

\* The node that is updated is not one of the predecessors that become dirty: what is
\* live in front of it is live behind a node that leads to it.
LEMMA UpdateParts ==
  ASSUME LiveInv, Update
  PROVE  \E i, P : UpdateIs(i, P)
<1> DEFINE i == Head(dirty)  now == NewIn(i)  again == now # in[i]
           own == [flag EXCEPT ![i] = Changed(i, now)]
           P == Pushed(i, now, own)
<1>1. TypeOK /\ DirtyFits /\ OutFromIn /\ dirty # <<>>
  BY DEF LiveInv, WorklistOK, Update
<1>2. i \in Nodes
  <2>1. dirty \in Seq(Nodes)
    BY <1>1 DEF TypeOK
  <2> QED BY <1>1, <2>1
<1>3. \A k \in Nodes : own[k] <=> IF k = i THEN again ELSE flag[k]
  BY <1>1, <1>2 DEF Changed, TypeOK
<1>4. P \in SUBSET Nodes
  BY DEF Pushed, Pred
<1>5. P = {p \in Pred(i) : ~ now \subseteq out[p] /\ ~ (IF p = i THEN again ELSE flag[p])}
  BY <1>3 DEF Pushed, Pred
<1>6. i \notin P
  <2>1. SUFFICES ASSUME i \in P PROVE FALSE
    OBVIOUS
  <2>2. i \in Pred(i) /\ ~ again /\ ~ now \subseteq out[i]
    BY <1>5, <2>1
  <2>3. i \in Succ(i) /\ in[i] = now
    BY <2>2 DEF Pred
  <2>4. in[i] \subseteq out[i]
    BY <1>1, <1>2, <2>3 DEF OutFromIn
  <2> QED BY <2>2, <2>3, <2>4
<1>7. /\ in' = [in EXCEPT ![i] = now]
      /\ out' = [k \in Nodes |-> IF k \in Pred(i) THEN out[k] \union now ELSE out[k]]
      /\ flag' = [k \in Nodes |-> own[k] \/ k \in P]
      /\ dirty' = Tail(dirty) \o SortedPreds(P) \o (IF own[i] \/ i \in P THEN <<i>> ELSE <<>>)
      /\ UNCHANGED <<insns, selected, links>>
  BY <1>2 DEF Update
<1> HIDE DEF own, P
<1>8. flag' = [k \in Nodes |-> IF k = i THEN again ELSE flag[k] \/ k \in P]
  BY <1>3, <1>6, <1>7
<1>9. dirty' = Tail(dirty) \o SortedPreds(P) \o (IF again THEN <<i>> ELSE <<>>)
  BY <1>2, <1>3, <1>6, <1>7
<1>10. out' = [k \in Nodes |-> IF i \in Succ(k) THEN out[k] \union now ELSE out[k]]
  BY <1>7 DEF Pred
<1>11. \A p \in Nodes \ {i} : p \in P <=> i \in Succ(p) /\ ~ now \subseteq out[p] /\ ~ flag[p]
  BY <1>5 DEF Pred
<1>12. UpdateIs(i, P)
  BY <1>1, <1>2, <1>4, <1>6, <1>7, <1>8, <1>9, <1>10, <1>11 DEF UpdateIs
<1> QED BY <1>12

-----------------------------------------------------------------------------
(* The update of a node keeps the invariant.                                *)

\* A node is still in the list exactly if its flag is set.
LEMMA UpdateLists ==
  ASSUME LiveInv, NEW i, NEW P, UpdateIs(i, P)
  PROVE  Lists(dirty', {k \in Nodes : flag'[k]})
<1> DEFINE D == {k \in Nodes : flag[k]}
           t == Tail(dirty)  q == SortedPreds(P)  again == NewIn(i) # in[i]
           r == IF again THEN <<i>> ELSE <<>>
           A == IF again THEN {i} ELSE {}
<1>1. TypeOK /\ DirtyFits /\ i \in Nodes /\ P \in SUBSET Nodes /\ i \notin P
  BY DEF LiveInv, WorklistOK, UpdateIs
<1>2. Lists(dirty, D)
  <2>1. dirty \in Seq(Nodes) /\ \A k \in 1 .. Len(dirty) : dirty[k] \in D
    BY <1>1 DEF TypeOK, DirtyFits
  <2>2. dirty \in Seq(D)
    BY <2>1
  <2>3. \A x \in D : \E k \in 1 .. Len(dirty) : dirty[k] = x
    BY <1>1 DEF DirtyFits
  <2> QED BY <1>1, <2>2, <2>3 DEF Lists, DirtyFits
<1>3. dirty # <<>> /\ i = Head(dirty)
  BY DEF UpdateIs
<1> HIDE DEF D
<1>4. i \in D /\ Lists(t, D \ {i})
  BY <1>2, <1>3, ListsTail
<1>5. Lists(q, P)
  BY <1>1, SortedPredsLists DEF Lists
<1>6. Lists(r, A)
  BY ListsFew
<1>7. P \intersect D = {}
  BY <1>1 DEF D, UpdateIs
<1>8. dirty' = t \o q \o r
  BY DEF UpdateIs
<1>9. \A k \in Nodes : flag'[k] <=> IF k = i THEN again ELSE k \in D \/ k \in P
  BY <1>1 DEF D, UpdateIs, TypeOK
<1> HIDE DEF t, q, r
<1>10. Lists(t \o q, (D \ {i}) \union P)
  BY <1>4, <1>5, <1>7, ListsConcat
<1>11. ((D \ {i}) \union P) \intersect A = {}
  BY <1>1
<1> HIDE DEF A
<1>12. Lists((t \o q) \o r, ((D \ {i}) \union P) \union A)
  BY <1>6, <1>10, <1>11, ListsConcat
<1>13. {k \in Nodes : flag'[k]} = ((D \ {i}) \union P) \union A
  <2>1. D \subseteq Nodes
    BY DEF D
  <2> HIDE DEF again
  <2> QED BY <1>1, <1>9, <2>1 DEF A
<1> QED BY <1>8, <1>12, <1>13

\* The types, and the list that fits.
LEMMA UpdateWorklist ==
  ASSUME LiveInv, NEW i, NEW P, UpdateIs(i, P)
  PROVE  WorklistOK'
<1>1. TypeOK /\ i \in Nodes /\ P \in SUBSET Nodes
  BY DEF LiveInv, WorklistOK, UpdateIs
<1>2. Lists(dirty', {k \in Nodes : flag'[k]})
  BY UpdateLists
<1>3. dirty' \in Seq(Nodes) /\ Len(dirty') <= NumInsns
  BY <1>2, ListsFit
<1>4. NewIn(i) \in SUBSET Vars
  BY <1>1, NewInSound DEF LiveInv
<1>5. in' \in [Nodes -> SUBSET Vars] /\ out' \in [Nodes -> SUBSET Vars]
  BY <1>1, <1>4 DEF UpdateIs, TypeOK
<1>6. flag' \in [Nodes -> BOOLEAN]
  BY <1>1 DEF UpdateIs, TypeOK
<1>7. UNCHANGED <<insns, selected, links>>
  BY DEF UpdateIs
<1>8. TypeOK'
  BY <1>1, <1>3, <1>5, <1>6, <1>7 DEF TypeOK
<1>9. DirtyFits'
  <2>1. \A k \in 1 .. Len(dirty') : dirty'[k] \in {x \in Nodes : flag'[x]}
    BY <1>2 DEF Lists
  <2> QED BY <1>2, <1>3, <2>1 DEF DirtyFits, Lists
<1> QED BY <1>8, <1>9 DEF WorklistOK

\* Behind the nodes that lead to it, the updated node's news are known.
LEMMA UpdateOut ==
  ASSUME LiveInv, NEW i, NEW P, UpdateIs(i, P)
  PROVE  OutFromIn'
<1>1. TypeOK /\ OutFromIn /\ i \in Nodes
  BY DEF LiveInv, WorklistOK, UpdateIs
<1>2. \A k \in Nodes : Succ(k)' = Succ(k) /\ Succ(k) \subseteq Nodes
  BY <1>1, SameProgram, SuccNodes DEF UpdateIs
<1> SUFFICES ASSUME NEW k \in Nodes PROVE out'[k] = UNION {in'[s] : s \in Succ(k)}
  BY <1>2 DEF OutFromIn
<1>3. in[i] \subseteq NewIn(i)
  BY DEF NewIn
<1>4. \A s \in Succ(k) : in'[s] = IF s = i THEN NewIn(i) ELSE in[s]
  BY <1>1, <1>2 DEF UpdateIs, TypeOK
<1>5. out'[k] = IF i \in Succ(k) THEN out[k] \union NewIn(i) ELSE out[k]
  BY DEF UpdateIs
<1>6. out[k] = UNION {in[s] : s \in Succ(k)}
  BY <1>1 DEF OutFromIn
<1>7. CASE i \notin Succ(k)
  BY <1>4, <1>5, <1>6, <1>7
<1>8. CASE i \in Succ(k)
  <2>1. ASSUME NEW v \in out'[k] PROVE v \in UNION {in'[s] : s \in Succ(k)}
    <3>1. CASE v \in NewIn(i)
      BY <1>4, <1>8, <3>1
    <3>2. CASE v \in out[k]
      <4>1. PICK s \in Succ(k) : v \in in[s]
        BY <1>6, <3>2
      <4>2. v \in in'[s]
        BY <1>3, <1>4, <4>1
      <4> QED BY <4>2
    <3> QED BY <1>5, <1>8, <2>1, <3>1, <3>2
  <2>2. ASSUME NEW v \in UNION {in'[s] : s \in Succ(k)} PROVE v \in out'[k]
    <3>1. PICK s \in Succ(k) : v \in in'[s]
      OBVIOUS
    <3>2. CASE s = i
      BY <1>4, <1>5, <3>1, <3>2
    <3>3. CASE s # i
      <4>1. v \in in[s]
        BY <1>4, <3>1, <3>3
      <4> QED BY <1>5, <1>6, <4>1
    <3> QED BY <3>2, <3>3
  <2> QED BY <2>1, <2>2
<1> QED BY <1>7, <1>8

\* What is added is live.
LEMMA UpdateSound ==
  ASSUME LiveInv, NEW i, NEW P, UpdateIs(i, P)
  PROVE  InSound'
<1>1. TypeOK /\ OutFromIn /\ InSound /\ i \in Nodes
  BY DEF LiveInv, WorklistOK, UpdateIs
<1>2. \A v : LiveAt(v, NodeLinks)' = LiveAt(v, NodeLinks)
  BY SameProgram DEF UpdateIs
<1> SUFFICES ASSUME NEW k \in Nodes, NEW v \in in'[k] PROVE k \in LiveAt(v, NodeLinks)
  BY <1>2 DEF InSound
<1>3. in'[k] = IF k = i THEN NewIn(i) ELSE in[k]
  BY <1>1 DEF UpdateIs, TypeOK
<1> QED BY <1>1, <1>3, NewInSound DEF InSound

\* A node that is left alone has nothing to add: it is no predecessor, or knows
\* what is new.
LEMMA UpdateSettled ==
  ASSUME LiveInv, NEW i, NEW P, UpdateIs(i, P)
  PROVE  CleanSettled'
<1>1. TypeOK /\ CleanSettled /\ i \in Nodes
  BY DEF LiveInv, WorklistOK, UpdateIs
<1> SUFFICES ASSUME NEW k \in Nodes, ~ flag'[k] PROVE NewIn(k)' = in'[k]
  BY DEF CleanSettled
<1>2. insns' = insns
  BY DEF UpdateIs
<1>3. out'[k] = IF i \in Succ(k) THEN out[k] \union NewIn(i) ELSE out[k]
  BY DEF UpdateIs
<1>4. in'[k] = IF k = i THEN NewIn(i) ELSE in[k]
  BY <1>1 DEF UpdateIs, TypeOK
<1>5. CASE k = i
  <2>1. out'[k] \subseteq out[i] \union NewIn(i)
    BY <1>3, <1>5
  <2> QED BY <1>2, <1>3, <1>4, <1>5, <2>1 DEF NewIn
<1>6. CASE k # i
  <2>1. ~ flag[k] /\ k \notin P
    BY <1>1, <1>6 DEF UpdateIs
  <2>2. out'[k] = out[k]
    BY <1>3, <1>6, <2>1 DEF UpdateIs
  <2> QED BY <1>1, <1>2, <1>4, <1>6, <2>1, <2>2 DEF CleanSettled, NewIn
<1> QED BY <1>5, <1>6

-----------------------------------------------------------------------------
(* The theorems.                                                            *)

\* Linking the variables changes nothing else.
LEMMA LinkStep == LiveInv /\ Link => LiveInv'
<1> SUFFICES ASSUME LiveInv, Link PROVE LiveInv'
  OBVIOUS
<1>1. /\ links' = [u \in Vars |-> {v \in Vars : Linked(u, v)}] /\ dirty = <<>>
      /\ UNCHANGED <<insns, selected, in, out, dirty, flag>>
  BY DEF Link
<1>2. \A u, v : Linked(u, v) <=> Linked(v, u) /\ u # v
  BY DEF Linked
<1>3. TypeOK /\ DirtyFits
  BY DEF LiveInv, WorklistOK
<1>4. links' \in [Vars -> SUBSET Vars] /\ \A u, v \in Vars : v \in links'[u] => u # v /\ u \in links'[v]
  BY <1>1, <1>2
<1>5. WorklistOK'
  BY <1>1, <1>3, <1>4 DEF WorklistOK, TypeOK, DirtyFits
<1>6. \A i \in Nodes : Succ(i)' = Succ(i)
  BY <1>1, SameProgram
<1>7. \A v : LiveAt(v, NodeLinks)' = LiveAt(v, NodeLinks)
  BY <1>1, SameProgram
<1>8. OutFromIn'
  BY <1>1, <1>6 DEF LiveInv, OutFromIn
<1>9. InSound'
  BY <1>1, <1>7 DEF LiveInv, InSound
<1>10. CleanSettled' /\ EndsInJump'
  BY <1>1 DEF LiveInv, CleanSettled, NewIn, EndsInJump
<1>11. \A u, v : Linked(u, v)' <=> Linked(u, v)
  BY <1>1 DEF Linked, LinkSets
<1>12. LinksFromSets'
  BY <1>1, <1>11 DEF LinksFromSets
<1> QED BY <1>5, <1>8, <1>9, <1>10, <1>12 DEF LiveInv

\* Updating a node keeps the invariant.
LEMMA UpdateStep == LiveInv /\ Update => LiveInv'
<1> SUFFICES ASSUME LiveInv, Update PROVE LiveInv'
  OBVIOUS
<1>1. PICK i, P : UpdateIs(i, P)
  BY UpdateParts
<1>2. WorklistOK' /\ OutFromIn' /\ InSound' /\ CleanSettled'
  BY <1>1, UpdateWorklist, UpdateOut, UpdateSound, UpdateSettled
<1>3. EndsInJump'
  BY <1>1 DEF UpdateIs, LiveInv, EndsInJump
<1>4. LinksFromSets'
  BY <1>1 DEF UpdateIs, LiveInv, LinksFromSets
<1> QED BY <1>2, <1>3, <1>4 DEF LiveInv

\* No step breaks the invariant.
LEMMA LiveNext == LiveInv /\ [Next]_liveVars => LiveInv'
<1> SUFFICES ASSUME LiveInv, [Next]_liveVars PROVE LiveInv'
  OBVIOUS
<1>1. CASE UNCHANGED liveVars
  <2>1. \A i \in Nodes : Succ(i)' = Succ(i)
    BY <1>1, SameProgram DEF liveVars
  <2>2. \A v : LiveAt(v, NodeLinks)' = LiveAt(v, NodeLinks)
    BY <1>1, SameProgram DEF liveVars
  <2>3. \A u, v : Linked(u, v)' <=> Linked(u, v)
    BY <1>1 DEF Linked, LinkSets, liveVars
  <2>4. WorklistOK'
    BY <1>1 DEF LiveInv, WorklistOK, TypeOK, DirtyFits, liveVars
  <2>5. OutFromIn' /\ InSound'
    BY <1>1, <2>1, <2>2 DEF LiveInv, OutFromIn, InSound, liveVars
  <2>6. CleanSettled' /\ EndsInJump' /\ LinksFromSets'
    BY <1>1, <2>3 DEF LiveInv, CleanSettled, NewIn, EndsInJump, LinksFromSets, liveVars
  <2> QED BY <2>4, <2>5, <2>6 DEF LiveInv
<1> QED BY <1>1, UpdateStep, LinkStep DEF Next

\* The invariant holds throughout.
LEMMA LiveAlways == Spec => []LiveInv
<1> QED BY LiveInit, LiveNext, PTL DEF Spec

\* The list of dirty nodes never has a node twice, and so fits the array of
\* ra_liveness, whatever the function; variables are linked both ways.
THEOREM WorklistCorrect == Spec => []WorklistOK
<1>1. LiveInv => WorklistOK
  BY DEF LiveInv
<1> QED BY <1>1, LiveAlways, PTL

\* When nothing is dirty the sets are closed along the links of the nodes, so they
\* have all that is live; they never have more.
LEMMA EmptyIsExact == LiveInv => LivenessExact
<1> SUFFICES ASSUME LiveInv, dirty = <<>>, NEW v \in Vars
             PROVE  {i \in Nodes : v \in in[i]} = LiveAt(v, NodeLinks)
  BY DEF LivenessExact
<1>1. TypeOK /\ DirtyFits /\ OutFromIn /\ InSound /\ CleanSettled
  BY DEF LiveInv, WorklistOK
<1>2. \A i \in Nodes : NewIn(i) = in[i]
  <2>1. \A i \in Nodes : ~ flag[i]
    BY <1>1 DEF DirtyFits
  <2> QED BY <1>1, <2>1 DEF CleanSettled
<1> DEFINE S == {i \in Nodes : v \in in[i]}
<1>3. S \subseteq LiveAt(v, NodeLinks)
  BY <1>1 DEF InSound
<1>4. \A i \in Nodes : v \in insns[i].use => i \in S
  BY <1>2 DEF NewIn
<1>5. ASSUME NEW i \in Nodes, v \notin insns[i].def, NodeLinks[i] \intersect S # {} PROVE i \in S
  <2>1. PICK s \in Succ(i) : v \in in[s]
    BY <1>1, <1>5, NodeLinksType
  <2>2. v \in out[i]
    BY <1>1, <2>1 DEF OutFromIn
  <2> QED BY <1>2, <1>5, <2>2 DEF NewIn
<1> HIDE DEF S
<1>6. LiveAt(v, NodeLinks) \subseteq S
  BY <1>1, <1>4, <1>5, NodeLinksType, LiveAtMeans
<1> QED BY <1>3, <1>6 DEF S

\* When nothing is left to update, every node knows exactly what is live in front of
\* it along the links, whatever the order of the updates and the loops of the function.
THEOREM LivenessCorrect == Spec => []LivenessExact
<1> QED BY EmptyIsExact, LiveAlways, PTL

\* Before instruction selection the links go wherever the program does.
LEMMA FlowInLinks ==
  ASSUME TypeOK, EndsInJump, ~ selected
  PROVE  Flow \in [Nodes -> SUBSET Nodes] /\ \A i \in Nodes : Flow[i] \subseteq NodeLinks[i]
<1> SUFFICES ASSUME NEW i \in Nodes PROVE Flow[i] \subseteq Succ(i) /\ Flow[i] \in SUBSET Nodes
  BY NodeLinksType DEF Flow
<1>1. insns[i].type \in {"op", "branch"} => i < NumInsns
  BY DEF EndsInJump, Nodes
<1>2. Flow[i] \subseteq Succ(i)
  BY <1>1, InsnFacts DEF Flow, Succ, ir_next_after, ir_branch_target
<1> QED BY <1>2, SuccNodes

\* So what the program keeps live has been found, and is linked.
LEMMA LinksSeparate == LiveInv => LinkedIfUnselected
<1> SUFFICES ASSUME LiveInv, links # <<>>, ~ selected, NEW u \in Vars, NEW v \in Vars, u # v,
                    NEW i, i \in LiveAt(u, Flow), i \in LiveAt(v, Flow)
             PROVE  v \in links[u]
  BY DEF LinkedIfUnselected
<1>1. TypeOK /\ EndsInJump /\ LinksFromSets /\ LivenessExact
  BY EmptyIsExact DEF LiveInv, WorklistOK
<1>2. dirty = <<>> /\ links = [x \in Vars |-> {y \in Vars : Linked(x, y)}]
  BY <1>1 DEF LinksFromSets
<1>3. Flow \in [Nodes -> SUBSET Nodes] /\ NodeLinks \in [Nodes -> SUBSET Nodes]
      /\ \A k \in Nodes : Flow[k] \subseteq NodeLinks[k]
  BY <1>1, FlowInLinks, NodeLinksType
<1>4. ASSUME NEW w \in Vars, i \in LiveAt(w, Flow) PROVE i \in Nodes /\ w \in in[i]
  <2> DEFINE S == LiveAt(w, NodeLinks)
  <2>1. /\ S \in SUBSET Nodes
        /\ \A k \in Nodes : w \in insns[k].use => k \in S
        /\ \A k \in Nodes : w \notin insns[k].def /\ NodeLinks[k] \intersect S # {} => k \in S
    BY <1>3, LiveAtMeans
  <2> HIDE DEF S
  <2>2. \A k \in Nodes : w \notin insns[k].def /\ Flow[k] \intersect S # {} => k \in S
    BY <1>3, <2>1
  <2>3. LiveAt(w, Flow) \subseteq S
    BY <1>3, <2>1, <2>2, LiveAtMeans
  <2>4. S = {k \in Nodes : w \in in[k]}
    BY <1>1, <1>2 DEF LivenessExact, S
  <2> QED BY <1>4, <2>3, <2>4
<1>5. Linked(u, v)
  BY <1>4 DEF Linked, LinkSets
<1> QED BY <1>2, <1>5

\* As long as jumps are seen for what they are, variables that are live at the same
\* time are linked, in every function: the allocation keeps their registers apart.
THEOREM LinkedCorrect == Spec => []LinkedIfUnselected
<1> QED BY LinksSeparate, LiveAlways, PTL
=============================================================================
