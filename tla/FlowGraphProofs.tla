-------------------------- MODULE FlowGraphProofs ---------------------------
(***************************************************************************)
(* Proofs about FlowGraph: what reachability and dominance are, in any     *)
(* control flow graph.  The proofs about Dominance and SsaConv rest on     *)
(* these facts.                                                            *)
(*                                                                         *)
(* Induction is by the least counterexample: a set of naturals that is not *)
(* empty has a least member.                                               *)
(***************************************************************************)
EXTENDS FlowGraph, FiniteSetTheorems, WellFoundedInduction, TLAPS

USE FlowGraphAssumption

LEMMA NumCodes == N \in Nat
  BY FS_CardinalityType DEF N

USE NumCodes

\* A set of naturals has a least member.
LEMMA LeastNumber ==
  ASSUME NEW T, T \subseteq Nat, T # {}
  PROVE  \E n \in T : \A k \in T : n <= k
<1>1. PICK n \in T : \A k \in T : ~ (<<k, n>> \in OpToRel(<, Nat))
  BY NatLessThanWellFounded, WFMin
<1>2. ASSUME NEW k \in T PROVE n <= k
  <2>1. ~ (k < n)
    BY <1>1 DEF OpToRel
  <2> QED BY <2>1
<1> QED BY <1>2

-----------------------------------------------------------------------------
(* What Reached computes: the least set that has the blocks of seed, and    *)
(* with a block those it leads to.                                          *)

\* The blocks that those of T lead to in one step.
After(g, T) == UNION {g[c] : c \in T}

\* f lists what seed leads to in at most 0, 1, .. n steps.
IsLayers(f, g, seed, n) ==
  /\ f \in [0 .. n -> SUBSET Codes]
  /\ f[0] = seed
  /\ \A k \in 1 .. n : f[k] = f[k - 1] \union After(g, f[k - 1])

\* There is such a list of every length.
LEMMA LayersExist ==
  ASSUME NEW g \in [Codes -> SUBSET Codes], NEW seed \in SUBSET Codes, NEW n \in Nat
  PROVE  \E f : IsLayers(f, g, seed, n)
<1> DEFINE Bad == {k \in Nat : ~ \E f : IsLayers(f, g, seed, k)}
<1> SUFFICES ASSUME Bad # {} PROVE FALSE
  OBVIOUS
<1>1. Bad \subseteq Nat
  OBVIOUS
<1>2. \A k \in Nat : k \notin Bad <=> \E f : IsLayers(f, g, seed, k)
  OBVIOUS
<1> HIDE DEF Bad
<1>3. PICK m \in Bad : \A k \in Bad : m <= k
  BY <1>1, LeastNumber
<1>4. m \in Nat
  BY <1>1
<1>5. m # 0
  <2> DEFINE h == [k \in 0 .. 0 |-> seed]
  <2>1. IsLayers(h, g, seed, 0)
    BY DEF IsLayers
  <2> QED BY <1>2, <2>1
<1>6. m - 1 \in Nat /\ m - 1 \notin Bad
  BY <1>3, <1>4, <1>5
<1>7. PICK f : IsLayers(f, g, seed, m - 1)
  BY <1>2, <1>6
<1> DEFINE h == [k \in 0 .. m |-> IF k = m THEN f[m - 1] \union After(g, f[m - 1]) ELSE f[k]]
<1>8. \A T \in SUBSET Codes : After(g, T) \in SUBSET Codes
  BY DEF After
<1>9. h \in [0 .. m -> SUBSET Codes] /\ h[0] = seed
  BY <1>4, <1>5, <1>6, <1>7, <1>8 DEF IsLayers
<1>10. ASSUME NEW k \in 1 .. m PROVE h[k] = h[k - 1] \union After(g, h[k - 1])
  <2>1. h[k - 1] = f[k - 1]
    BY <1>4, <1>5
  <2>2. CASE k = m
    BY <1>4, <2>1, <2>2
  <2>3. CASE k # m
    <3>1. h[k] = f[k] /\ k \in 1 .. m - 1
      BY <1>4, <2>3
    <3> HIDE DEF h
    <3> QED BY <1>7, <2>1, <3>1 DEF IsLayers
  <2> QED BY <2>2, <2>3
<1> HIDE DEF h
<1>11. IsLayers(h, g, seed, m)
  BY <1>9, <1>10 DEF IsLayers
<1> QED BY <1>2, <1>3, <1>4, <1>11

\* The last of the list is what Reached returns.
LEMMA ReachedLayers ==
  ASSUME NEW g \in [Codes -> SUBSET Codes], NEW seed \in SUBSET Codes
  PROVE  \E f : IsLayers(f, g, seed, N) /\ Reached(g, seed) = f[N]
<1> DEFINE Defines(f) == f = [k \in 0 .. N |->
                            IF k = 0 THEN seed
                            ELSE f[k - 1] \union UNION {g[c] : c \in f[k - 1]}]
           L == CHOOSE f : Defines(f)
<1>1. PICK h : IsLayers(h, g, seed, N)
  BY LayersExist
<1>2. Defines(h)
  <2>1. \A k \in 0 .. N : h[k] = IF k = 0 THEN seed ELSE h[k - 1] \union After(g, h[k - 1])
    BY <1>1 DEF IsLayers
  <2>2. h = [k \in 0 .. N |-> h[k]]
    BY <1>1 DEF IsLayers
  <2> QED BY <2>1, <2>2 DEF After
<1>3. Defines(L)
  <2> HIDE DEF Defines
  <2> QED BY <1>2, Zenon
<1>4. Reached(g, seed) = L[N]
  BY DEF Reached
<1> HIDE DEF L
<1>5. L[0] = seed
  BY <1>3
<1>6. \A k \in 1 .. N : L[k] = L[k - 1] \union After(g, L[k - 1])
  <2>1. \A k \in 0 .. N :
          L[k] = IF k = 0 THEN seed ELSE L[k - 1] \union UNION {g[c] : c \in L[k - 1]}
    BY <1>3
  <2>2. \A k \in 1 .. N : k \in 0 .. N /\ k # 0
    OBVIOUS
  <2> HIDE DEF Defines
  <2> QED BY <2>1, <2>2, Zenon DEF After
<1>7. L = [k \in 0 .. N |-> L[k]]
  BY <1>3
<1> DEFINE Bad == {k \in 0 .. N : L[k] \notin SUBSET Codes}
<1>8. Bad = {}
  <2> SUFFICES ASSUME Bad # {} PROVE FALSE
    OBVIOUS
  <2>1. PICK m \in Bad : \A k \in Bad : m <= k
    <3>1. Bad \subseteq Nat
      OBVIOUS
    <3> HIDE DEF Bad
    <3> QED BY <3>1, LeastNumber
  <2>2. m \in 1 .. N
    BY <1>5
  <2>3. m - 1 \in 0 .. N /\ m - 1 \notin Bad
    <3>1. m - 1 \in 0 .. N
      BY <2>2
    <3> HIDE DEF Bad
    <3> QED BY <2>1, <2>2, <3>1
  <2>4. L[m - 1] \in SUBSET Codes
    BY <2>3
  <2>5. L[m] \in SUBSET Codes
    BY <1>6, <2>2, <2>4 DEF After
  <2> QED BY <2>5
<1>9. IsLayers(L, g, seed, N)
  <2>1. L \in [0 .. N -> SUBSET Codes]
    BY <1>7, <1>8
  <2> QED BY <1>5, <1>6, <2>1 DEF IsLayers
<1> QED BY <1>4, <1>9

\* A longer list only adds nodes.
LEMMA LayersGrow ==
  ASSUME NEW g, NEW seed, NEW n \in Nat, NEW f, IsLayers(f, g, seed, n),
         NEW j \in 0 .. n
  PROVE  \A k \in j .. n : f[j] \subseteq f[k]
<1> DEFINE Bad == {k \in j .. n : ~ (f[j] \subseteq f[k])}
<1> SUFFICES ASSUME Bad # {} PROVE FALSE
  OBVIOUS
<1>1. Bad \subseteq Nat
  OBVIOUS
<1>2. PICK m \in Bad : \A k \in Bad : m <= k
  <2> HIDE DEF Bad
  <2> QED BY <1>1, LeastNumber
<1>3. m \in j .. n /\ ~ (f[j] \subseteq f[m]) /\ m # j
  OBVIOUS
<1>4. m - 1 \in j .. n /\ m - 1 \notin Bad /\ m \in 1 .. n
  <2>1. m - 1 \in j .. n /\ m \in 1 .. n /\ ~ (m <= m - 1)
    BY <1>3
  <2> HIDE DEF Bad
  <2> QED BY <1>2, <2>1
<1>5. f[j] \subseteq f[m - 1]
  BY <1>4
<1>6. f[m - 1] \subseteq f[m]
  BY <1>4 DEF IsLayers
<1> QED BY <1>3, <1>5, <1>6

\* A list as long as there are blocks has all that is reached: a step that adds
\* nothing is the last to add something, and one that does adds one of N blocks.
LEMMA LayersComplete ==
  ASSUME NEW g \in [Codes -> SUBSET Codes], NEW seed,
         NEW f, IsLayers(f, g, seed, N)
  PROVE  After(g, f[N]) \subseteq f[N]
<1>0. \A k \in 0 .. N : f[k] \in SUBSET Codes /\ IsFiniteSet(f[k]) /\ Cardinality(f[k]) \in Nat
  <2>1. IsFiniteSet(Codes)
    OBVIOUS
  <2>2. \A k \in 0 .. N : f[k] \in SUBSET Codes
    BY DEF IsLayers
  <2> QED BY <2>1, <2>2, FS_Subset, FS_CardinalityType
<1>1. ASSUME NEW k \in 0 .. N - 1, f[k + 1] = f[k]
      PROVE  After(g, f[N]) \subseteq f[N]
  <2> DEFINE Bad == {j \in k .. N : f[j] # f[k]}
  <2>1. Bad = {}
    <3> SUFFICES ASSUME Bad # {} PROVE FALSE
      OBVIOUS
    <3>1. Bad \subseteq Nat
      OBVIOUS
    <3>2. PICK m \in Bad : \A j \in Bad : m <= j
      <4> HIDE DEF Bad
      <4> QED BY <3>1, LeastNumber
    <3>3. m \in k .. N /\ f[m] # f[k] /\ m # k
      OBVIOUS
    <3>4. m - 1 \in k .. N /\ m - 1 \notin Bad /\ m \in 1 .. N /\ k + 1 \in 1 .. N
      <4>1. m - 1 \in k .. N /\ m \in 1 .. N /\ ~ (m <= m - 1) /\ k + 1 \in 1 .. N
        BY <3>3
      <4> HIDE DEF Bad
      <4> QED BY <3>2, <4>1
    <3>5. f[m - 1] = f[k]
      BY <3>4
    <3>6. f[m] = f[m - 1] \union After(g, f[m - 1])
      BY <3>4 DEF IsLayers
    <3>7. f[k + 1] = f[(k + 1) - 1] \union After(g, f[(k + 1) - 1])
      BY <3>4 DEF IsLayers
    <3>8. (k + 1) - 1 = k
      OBVIOUS
    <3> QED BY <1>1, <3>3, <3>5, <3>6, <3>7, <3>8
  <2>2. f[N] = f[k]
    BY <2>1
  <2>3. f[k + 1] = f[(k + 1) - 1] \union After(g, f[(k + 1) - 1])
    <3>1. k + 1 \in 1 .. N
      OBVIOUS
    <3> QED BY <3>1 DEF IsLayers
  <2>4. (k + 1) - 1 = k
    OBVIOUS
  <2> QED BY <1>1, <2>2, <2>3, <2>4
<1>2. ASSUME \A k \in 0 .. N - 1 : f[k + 1] # f[k]
      PROVE  f[N] = Codes
  <2> DEFINE Bad == {k \in 0 .. N : Cardinality(f[k]) < k}
  <2>1. Bad = {}
    <3> SUFFICES ASSUME Bad # {} PROVE FALSE
      OBVIOUS
    <3>1. Bad \subseteq Nat
      OBVIOUS
    <3>2. PICK m \in Bad : \A j \in Bad : m <= j
      <4> HIDE DEF Bad
      <4> QED BY <3>1, LeastNumber
    <3>3. m \in 0 .. N /\ Cardinality(f[m]) < m
      OBVIOUS
    <3>4. m # 0
      BY <1>0, <3>3
    <3>5. m - 1 \in 0 .. N - 1 /\ m - 1 \in 0 .. N /\ m \in 1 .. N /\ (m - 1) + 1 = m
      BY <3>3, <3>4
    <3>6. m - 1 \notin Bad
      <4>1. ~ (m <= m - 1)
        BY <3>5
      <4> HIDE DEF Bad
      <4> QED BY <3>2, <4>1
    <3>7. Cardinality(f[m - 1]) >= m - 1
      BY <1>0, <3>5, <3>6
    <3>8. f[m - 1] \subseteq f[m] /\ f[m] # f[m - 1]
      <4>1. f[m] = f[m - 1] \union After(g, f[m - 1])
        BY <3>5 DEF IsLayers
      <4>2. f[(m - 1) + 1] # f[m - 1]
        BY <1>2, <3>5
      <4> QED BY <3>5, <4>1, <4>2
    <3>9. Cardinality(f[m - 1]) <= Cardinality(f[m]) /\ Cardinality(f[m - 1]) # Cardinality(f[m])
      <4>1. IsFiniteSet(f[m])
        BY <1>0, <3>3
      <4> QED BY <3>8, <4>1, FS_Subset
    <3>10. Cardinality(f[m]) \in Nat /\ Cardinality(f[m - 1]) \in Nat
      BY <1>0, <3>5, <3>3
    <3> HIDE DEF Bad
    <3> QED BY <3>3, <3>5, <3>7, <3>9, <3>10
  <2>2. Cardinality(f[N]) >= N
    <3>1. N \in 0 .. N /\ N \notin Bad
      BY <2>1
    <3> QED BY <1>0, <3>1
  <2>3. IsFiniteSet(Codes) /\ Cardinality(Codes) = N
    BY DEF N
  <2>4. f[N] \in SUBSET Codes /\ Cardinality(f[N]) \in Nat
    BY <1>0
  <2>5. Cardinality(f[N]) <= Cardinality(Codes)
    BY <2>3, <2>4, FS_Subset
  <2>6. Cardinality(f[N]) = Cardinality(Codes)
    BY <2>2, <2>3, <2>4, <2>5
  <2> QED BY <2>3, <2>4, <2>6, FS_Subset
<1> QED BY <1>1, <1>2 DEF After

\* Reached is the least set with the nodes of seed and all of pass that lead to it.
LEMMA ReachedLeast ==
  ASSUME NEW g \in [Codes -> SUBSET Codes], NEW seed \in SUBSET Codes
  PROVE  /\ Reached(g, seed) \in SUBSET Codes
         /\ seed \subseteq Reached(g, seed)
         /\ After(g, Reached(g, seed)) \subseteq Reached(g, seed)
         /\ \A S : seed \subseteq S /\ After(g, S) \subseteq S
                   => Reached(g, seed) \subseteq S
<1>1. PICK f : IsLayers(f, g, seed, N) /\ Reached(g, seed) = f[N]
  BY ReachedLayers
<1>2. f[N] \in SUBSET Codes
  BY <1>1 DEF IsLayers
<1>3. seed \subseteq f[N]
  <2>1. f[0] = seed
    BY <1>1 DEF IsLayers
  <2>2. 0 \in 0 .. N /\ N \in 0 .. N
    OBVIOUS
  <2> QED BY <1>1, <2>1, <2>2, LayersGrow
<1>4. After(g, f[N]) \subseteq f[N]
  BY <1>1, LayersComplete
<1>5. ASSUME NEW S, seed \subseteq S, After(g, S) \subseteq S
      PROVE  f[N] \subseteq S
  <2> DEFINE Bad == {k \in 0 .. N : ~ (f[k] \subseteq S)}
  <2> SUFFICES ASSUME Bad # {} PROVE FALSE
    OBVIOUS
  <2>1. Bad \subseteq Nat
    OBVIOUS
  <2>2. PICK m \in Bad : \A k \in Bad : m <= k
    <3> HIDE DEF Bad
    <3> QED BY <2>1, LeastNumber
  <2>3. m \in 0 .. N /\ ~ (f[m] \subseteq S)
    OBVIOUS
  <2>4. m # 0
    BY <1>1, <1>5, <2>3 DEF IsLayers
  <2>5. m - 1 \in 0 .. N /\ m \in 1 .. N /\ m - 1 \notin Bad
    <3>1. m - 1 \in 0 .. N /\ m \in 1 .. N /\ ~ (m <= m - 1)
      BY <2>3, <2>4
    <3> HIDE DEF Bad
    <3> QED BY <2>2, <3>1
  <2>6. f[m - 1] \subseteq S
    BY <2>5
  <2>7. f[m] = f[m - 1] \union After(g, f[m - 1])
    BY <1>1, <2>5 DEF IsLayers
  <2>8. After(g, f[m - 1]) \subseteq After(g, S)
    BY <2>6 DEF After
  <2> QED BY <1>5, <2>3, <2>6, <2>7, <2>8
<1> QED BY <1>1, <1>2, <1>3, <1>4, <1>5

\* With a block, T has all it leads to.
Closed(g, T) == \A c \in T : g[c] \subseteq T

LEMMA ReachedFacts ==
  ASSUME NEW g \in [Codes -> SUBSET Codes], NEW S \in SUBSET Codes
  PROVE  /\ Reached(g, S) \in SUBSET Codes
         /\ S \subseteq Reached(g, S)
         /\ Closed(g, Reached(g, S))
         /\ \A T \in SUBSET Codes : S \subseteq T /\ Closed(g, T) => Reached(g, S) \subseteq T
<1>1. \A T \in SUBSET Codes : Closed(g, T) <=> After(g, T) \subseteq T
  BY DEF Closed, After
<1> QED BY <1>1, ReachedLeast

\* What a block that is reached leads to, a block leads to.
LEMMA ReachedOnward ==
  ASSUME NEW g \in [Codes -> SUBSET Codes], NEW S \in SUBSET Codes, NEW T \in SUBSET Codes,
         T \subseteq Reached(g, S)
  PROVE  Reached(g, T) \subseteq Reached(g, S)
  BY ReachedFacts

\* A block leads to what its successors lead to.
LEMMA ReachedStep ==
  ASSUME NEW g \in [Codes -> SUBSET Codes], NEW p \in Codes, NEW c \in g[p]
  PROVE  Reached(g, {c}) \subseteq Reached(g, {p})
<1>1. c \in Reached(g, {p}) /\ c \in Codes
  BY ReachedFacts DEF Closed
<1> QED BY <1>1, ReachedOnward

-----------------------------------------------------------------------------
(* Dominance.                                                               *)

LEMMA GraphFacts ==
  ASSUME NEW g \in FlowGraphs
  PROVE  /\ g \in [Codes -> SUBSET Codes]
         /\ \A c \in Codes : Entry \notin g[c]
         /\ \A T \in SUBSET Codes : Entry \in T /\ Closed(g, T) => T = Codes
<1>1. g \in [Codes -> SUBSET (Codes \ {Entry})] /\ Reached(g, {Entry}) = Codes
  BY DEF FlowGraphs
<1>2. g \in [Codes -> SUBSET Codes]
  BY <1>1
<1> QED BY <1>1, <1>2, ReachedFacts

\* The blocks reached without d are the least set that has the entry, unless that is
\* d, and with a block those it leads to, apart from d.
LEMMA WithoutFacts ==
  ASSUME NEW g \in FlowGraphs, NEW d \in Codes
  PROVE  /\ ReachedWithout(g, d) \in SUBSET Codes
         /\ d \notin ReachedWithout(g, d)
         /\ d # Entry => Entry \in ReachedWithout(g, d)
         /\ \A c \in ReachedWithout(g, d) : g[c] \ {d} \subseteq ReachedWithout(g, d)
         /\ \A T \in SUBSET Codes :
              (d # Entry => Entry \in T) /\ (\A c \in T : g[c] \ {d} \subseteq T)
                => ReachedWithout(g, d) \subseteq T
<1> DEFINE h == [c \in Codes |-> IF c = d THEN {} ELSE g[c] \ {d}]
<1>1. CASE d = Entry
  BY <1>1 DEF ReachedWithout
<1>2. CASE d # Entry
  <2>1. ReachedWithout(g, d) = Reached(h, {Entry})
    BY <1>2 DEF ReachedWithout
  <2>2. h \in [Codes -> SUBSET Codes] /\ {Entry} \in SUBSET Codes
    BY GraphFacts
  <2>3. \A c \in Codes : h[c] = IF c = d THEN {} ELSE g[c] \ {d}
    OBVIOUS
  <2> HIDE DEF h
  <2>4. Reached(h, {Entry}) \in SUBSET Codes /\ Entry \in Reached(h, {Entry})
    BY <2>2, ReachedFacts
  <2>5. d \notin Reached(h, {Entry})
    <3>1. Closed(h, Codes \ {d})
      BY <2>2, <2>3 DEF Closed
    <3>2. {Entry} \subseteq Codes \ {d} /\ Codes \ {d} \in SUBSET Codes
      BY <1>2
    <3> QED BY <2>2, <3>1, <3>2, ReachedFacts
  <2>6. \A c \in Reached(h, {Entry}) : g[c] \ {d} \subseteq Reached(h, {Entry})
    <3>1. Closed(h, Reached(h, {Entry}))
      BY <2>2, ReachedFacts
    <3> QED BY <2>3, <2>4, <2>5, <3>1 DEF Closed
  <2>7. ASSUME NEW T \in SUBSET Codes, Entry \in T, \A c \in T : g[c] \ {d} \subseteq T
        PROVE  Reached(h, {Entry}) \subseteq T
    <3>1. Closed(h, T)
      BY <2>3, <2>7 DEF Closed
    <3> QED BY <2>2, <2>7, <3>1, ReachedFacts
  <2>8. \A T \in SUBSET Codes :
          (d # Entry => Entry \in T) /\ (\A c \in T : g[c] \ {d} \subseteq T)
            => Reached(h, {Entry}) \subseteq T
    BY <1>2, <2>7
  <2> DEFINE W == ReachedWithout(g, d)  R == Reached(h, {Entry})
  <2>9. W = R
    BY <2>1
  <2>10. /\ R \in SUBSET Codes /\ d \notin R /\ Entry \in R
         /\ \A c \in R : g[c] \ {d} \subseteq R
    BY <2>4, <2>5, <2>6
  <2>11. \A T \in SUBSET Codes :
          (d # Entry => Entry \in T) /\ (\A c \in T : g[c] \ {d} \subseteq T) => R \subseteq T
    BY <2>8
  <2> HIDE DEF R
  <2>12. /\ W \in SUBSET Codes /\ d \notin W /\ Entry \in W
         /\ \A c \in W : g[c] \ {d} \subseteq W
    BY <2>9, <2>10
  <2>13. \A T \in SUBSET Codes :
          (d # Entry => Entry \in T) /\ (\A c \in T : g[c] \ {d} \subseteq T) => W \subseteq T
    BY <2>9, <2>11, Zenon
  <2> QED BY <2>12, <2>13
<1> QED BY <1>1, <1>2

\* Every block dominates itself, the entry all of them.
LEMMA DominatesItself ==
  ASSUME NEW g \in FlowGraphs, NEW c \in Codes
  PROVE  Dominates(g, c, c) /\ Dominates(g, Entry, c)
  BY WithoutFacts DEF Dominates, ReachedWithout

\* What dominates a block from above dominates its predecessors.
LEMMA DominatesPred ==
  ASSUME NEW g \in FlowGraphs, NEW d \in Codes, NEW p \in Codes, NEW c \in g[p],
         d # c, Dominates(g, d, c)
  PROVE  Dominates(g, d, p)
  BY WithoutFacts DEF Dominates

\* Two blocks that dominate each other are one.
LEMMA DominatesAntisymmetric ==
  ASSUME NEW g \in FlowGraphs, NEW a \in Codes, NEW b \in Codes,
         Dominates(g, a, b), Dominates(g, b, a)
  PROVE  a = b
<1> SUFFICES ASSUME a # b PROVE FALSE
  OBVIOUS
<1> DEFINE U == ReachedWithout(g, a)  W == ReachedWithout(g, b)  T == U \intersect W
<1>1. b \notin U /\ a \notin W /\ U \in SUBSET Codes
  BY WithoutFacts DEF Dominates
<1>2. a # Entry => Entry \in U
  BY WithoutFacts
<1>3. b # Entry => Entry \in W
  BY WithoutFacts
<1>4. Entry \in T
  BY <1>1, <1>2, <1>3
<1>5. (\A c \in U : g[c] \ {a} \subseteq U) /\ (\A c \in W : g[c] \ {b} \subseteq W)
  BY WithoutFacts
<1>6. Closed(g, T)
  <2> SUFFICES ASSUME NEW c \in T, NEW x \in g[c] PROVE x \in T
    BY DEF Closed
  <2>1. x = a \/ x \in U
    BY <1>5
  <2>2. x = b \/ x \in W
    BY <1>5
  <2> QED BY <1>1, <2>1, <2>2
<1> HIDE DEF U, W
<1>7. T = Codes
  BY <1>1, <1>4, <1>6, GraphFacts
<1> QED BY <1>1, <1>7

\* A block leads to all that it dominates.
LEMMA DominatesReaches ==
  ASSUME NEW g \in FlowGraphs, NEW d \in Codes, NEW c \in Codes, Dominates(g, d, c)
  PROVE  c \in Reached(g, {d})
<1> DEFINE W == ReachedWithout(g, d)  R == Reached(g, {d})  T == W \union R
<1>1. W \in SUBSET Codes /\ c \notin W /\ (d # Entry => Entry \in W) /\ \A b \in W : g[b] \ {d} \subseteq W
  BY WithoutFacts DEF Dominates
<1>2. R \in SUBSET Codes /\ d \in R /\ Closed(g, R)
  BY GraphFacts, ReachedFacts
<1> HIDE DEF W, R
<1>3. Entry \in T /\ T \in SUBSET Codes /\ Closed(g, T)
  BY <1>1, <1>2 DEF Closed
<1>4. T = Codes
  BY <1>3, GraphFacts
<1> QED BY <1>1, <1>4 DEF R
=============================================================================
