--------------------------- MODULE SsaConvProofs ----------------------------
(***************************************************************************)
(* Proofs about SsaConv: where no phi that is needed is missing, every use *)
(* in the converted function reads what it read before, for any control    *)
(* flow graph, any definitions and uses and any order of the searches; and *)
(* in a function without loops no phi that is needed is missing.           *)
(***************************************************************************)
EXTENDS SsaConv, FlowGraphProofs, SequenceTheorems

USE FlowGraphAssumption, NumCodes

-----------------------------------------------------------------------------
(* The names of x, and the blocks that give it one.                         *)

\* The blocks from which x may still be read.
LiveBlocks == {c \in Codes : Reached(succ, {c}) \intersect uses # {}}

\* The blocks where x gets a name.
Origins == defs \union phis \union {Entry}

\* What x is called behind such a block.
NameOf(d) == IF d \in defs THEN Def(d) ELSE IF d \in phis THEN Phi(d) ELSE Orig

\* Of the blocks that dominate c and give x a name, d is the last.
IsNearest(d, c) ==
  /\ d \in Origins /\ Dominates(succ, d, c)
  /\ \A o \in Origins : Dominates(succ, o, c) => Dominates(succ, o, d)

\* The code, and phis where insert_combinators may put them.
CodeOK ==
  /\ succ \in FlowGraphs /\ defs \in SUBSET Codes /\ uses \in SUBSET Codes
  /\ phis \subseteq IteratedFrontier

\* No phi is missing.
Placed == NeedsPhi \subseteq phis

LEMMA NamesDiffer ==
  /\ \A c, d : Def(c) # Phi(d) /\ Def(c) # Orig /\ Phi(c) # Orig /\ Def(c) # Undef /\ Phi(c) # Undef
  /\ Orig # Undef
  /\ \A c, d : (Def(c) = Def(d) => c = d) /\ (Phi(c) = Phi(d) => c = d)
  /\ Orig \in SsaVars /\ \A c \in Codes : Def(c) \in SsaVars /\ Phi(c) \in SsaVars
  /\ Undef \notin SsaVars
<1>1. /\ \A c, d : Def(c) # Phi(d) /\ Def(c) # Orig /\ Phi(c) # Orig /\ Def(c) # Undef /\ Phi(c) # Undef
      /\ Orig # Undef
  <2>1. \A c : Def(c).kind = "def" /\ Phi(c).kind = "phi" /\ Orig.kind = "orig" /\ Undef.kind = "undef"
    BY DEF Def, Phi, Orig, Undef
  <2> QED BY <2>1
<1>2. \A c, d : (Def(c) = Def(d) => c = d) /\ (Phi(c) = Phi(d) => c = d)
  <2>1. \A c : Def(c).block = c /\ Phi(c).block = c
    BY DEF Def, Phi
  <2> QED BY <2>1
<1>3. Orig \in SsaVars /\ \A c \in Codes : Def(c) \in SsaVars /\ Phi(c) \in SsaVars
  BY DEF SsaVars
<1>4. Undef \notin SsaVars
  BY <1>1 DEF SsaVars
<1> QED BY <1>1, <1>2, <1>3, <1>4

\* The frontiers of the blocks, and what the iterated frontier is.
LEMMA FrontierFacts ==
  ASSUME CodeOK
  PROVE  /\ IteratedFrontier \in SUBSET Codes
         /\ \A d \in defs : DomFrontier(succ, d) \subseteq IteratedFrontier
         /\ \A d \in IteratedFrontier : DomFrontier(succ, d) \subseteq IteratedFrontier
         /\ \A T \in SUBSET Codes :
              (\A d \in defs \union T : DomFrontier(succ, d) \subseteq T) => IteratedFrontier \subseteq T
         /\ \A d \in Codes : Entry \notin DomFrontier(succ, d)
<1> DEFINE h == [c \in Codes |-> DomFrontier(succ, c)]
<1>1. h \in [Codes -> SUBSET Codes] /\ \A c \in Codes : h[c] = DomFrontier(succ, c)
  BY DEF DomFrontier
<1>2. Frontier(defs) \in SUBSET Codes /\ Frontier(defs) = UNION {DomFrontier(succ, c) : c \in defs}
  BY DEF Frontier, DomFrontier
<1>3. IteratedFrontier = Reached(h, Frontier(defs))
  BY DEF IteratedFrontier
<1> HIDE DEF h
<1>4. /\ IteratedFrontier \in SUBSET Codes /\ Frontier(defs) \subseteq IteratedFrontier
      /\ Closed(h, IteratedFrontier)
      /\ \A T \in SUBSET Codes : Frontier(defs) \subseteq T /\ Closed(h, T) => IteratedFrontier \subseteq T
  BY <1>1, <1>2, <1>3, ReachedFacts
<1>5. \A d \in defs : DomFrontier(succ, d) \subseteq IteratedFrontier
  BY <1>2, <1>4
<1>6. \A d \in IteratedFrontier : DomFrontier(succ, d) \subseteq IteratedFrontier
  BY <1>1, <1>4 DEF Closed
<1>7. ASSUME NEW T \in SUBSET Codes, \A d \in defs \union T : DomFrontier(succ, d) \subseteq T
      PROVE  IteratedFrontier \subseteq T
  <2>1. Frontier(defs) \subseteq T
    BY <1>2, <1>7
  <2>2. Closed(h, T)
    BY <1>1, <1>7 DEF Closed
  <2> QED BY <1>4, <2>1, <2>2
<1>8. ASSUME NEW d \in Codes PROVE Entry \notin DomFrontier(succ, d)
  BY GraphFacts DEF CodeOK, DomFrontier, Predecessors
<1> QED BY <1>4, <1>5, <1>6, <1>7, <1>8

\* What is read from a block may be read from its predecessors.
LEMMA LiveFacts ==
  ASSUME CodeOK
  PROVE  /\ uses \subseteq LiveBlocks
         /\ \A p \in Codes : \A c \in succ[p] : c \in LiveBlocks => p \in LiveBlocks
<1>1. succ \in [Codes -> SUBSET Codes] /\ uses \in SUBSET Codes
  BY GraphFacts DEF CodeOK
<1>2. ASSUME NEW c \in uses PROVE c \in LiveBlocks
  <2>1. c \in Reached(succ, {c})
    BY <1>1, ReachedFacts
  <2> QED BY <1>1, <2>1 DEF LiveBlocks
<1>3. ASSUME NEW p \in Codes, NEW c \in succ[p], c \in LiveBlocks PROVE p \in LiveBlocks
  BY <1>1, <1>3, ReachedStep DEF LiveBlocks
<1> QED BY <1>2, <1>3

\* A block with no phi, where x may still be read, is dominated from above by every
\* block that gives x a name and dominates one of its predecessors.
LEMMA NoPhiDominated ==
  ASSUME CodeOK, Placed, NEW c \in LiveBlocks, c \notin phis,
         NEW d \in Origins, NEW p \in Codes, c \in succ[p], Dominates(succ, d, p)
  PROVE  d # c /\ Dominates(succ, d, c)
<1>1. c \in Codes /\ c \notin IteratedFrontier
  BY DEF LiveBlocks, Placed, NeedsPhi
<1>2. d \in Codes
  BY FlowGraphAssumption, FrontierFacts DEF CodeOK, Origins
<1>3. c \notin DomFrontier(succ, d)
  <2>1. CASE d = Entry
    <3>1. Dominates(succ, d, c) /\ c # Entry
      BY <1>1, <2>1, DominatesItself, GraphFacts DEF CodeOK
    <3> QED BY <2>1, <3>1 DEF DomFrontier
  <2>2. CASE d # Entry
    BY <1>1, <2>2, FrontierFacts DEF CodeOK, Origins
  <2> QED BY <2>1, <2>2
<1>4. p \in Predecessors(succ, c)
  BY DEF Predecessors
<1> QED BY <1>1, <1>3, <1>4 DEF DomFrontier

\* All predecessors of such a block agree on what x is called.
LEMMA PredsAgree ==
  ASSUME CodeOK, Placed, NEW c \in LiveBlocks, c \notin phis,
         NEW d, NEW p \in Codes, c \in succ[p], IsNearest(d, p),
         NEW q \in Codes, c \in succ[q]
  PROVE  IsNearest(d, q)
<1>1. succ \in FlowGraphs /\ c \in Codes
  BY DEF CodeOK, LiveBlocks
<1>2. Origins \subseteq Codes /\ d \in Origins
  BY FlowGraphAssumption, FrontierFacts DEF CodeOK, Origins, IsNearest
<1>3. Dominates(succ, d, q)
  <2>1. d # c /\ Dominates(succ, d, c)
    BY NoPhiDominated DEF IsNearest
  <2> QED BY <1>1, <1>2, <2>1, DominatesPred
<1>4. ASSUME NEW o \in Origins, Dominates(succ, o, q) PROVE Dominates(succ, o, d)
  <2>1. o # c /\ Dominates(succ, o, c)
    BY <1>4, NoPhiDominated
  <2>2. Dominates(succ, o, p)
    BY <1>1, <1>2, <2>1, DominatesPred
  <2> QED BY <2>2 DEF IsNearest
<1> QED BY <1>2, <1>3, <1>4 DEF IsNearest

\* Where x gets no name it keeps that of its predecessors.
LEMMA NearestStays ==
  ASSUME CodeOK, Placed, NEW c \in LiveBlocks, c \notin Origins,
         NEW d, NEW p \in Codes, c \in succ[p]
  PROVE  IsNearest(d, p) <=> IsNearest(d, c)
<1>1. succ \in FlowGraphs /\ c \in Codes /\ c \notin phis
  BY DEF CodeOK, LiveBlocks, Origins
<1>2. Origins \subseteq Codes
  BY FlowGraphAssumption, FrontierFacts DEF CodeOK, Origins
<1>3. \A o \in Origins : Dominates(succ, o, p) <=> Dominates(succ, o, c)
  <2> TAKE o \in Origins
  <2>1. Dominates(succ, o, p) => Dominates(succ, o, c)
    BY <1>1, NoPhiDominated
  <2>2. Dominates(succ, o, c) => Dominates(succ, o, p)
    BY <1>1, <1>2, DominatesPred
  <2> QED BY <2>1, <2>2
<1> QED BY <1>3 DEF IsNearest

\* A block that gives x a name is itself the nearest one, and there is no other.
LEMMA NearestItself ==
  ASSUME CodeOK, NEW c \in Origins
  PROVE  IsNearest(c, c) /\ \A d : IsNearest(d, c) => d = c
<1>1. Origins \subseteq Codes /\ succ \in FlowGraphs
  BY FlowGraphAssumption, FrontierFacts DEF CodeOK, Origins
<1>2. IsNearest(c, c)
  BY <1>1, DominatesItself DEF IsNearest
<1>3. ASSUME NEW d, IsNearest(d, c) PROVE d = c
  <2>1. Dominates(succ, d, c) /\ Dominates(succ, c, d) /\ d \in Codes
    BY <1>1, <1>3, DominatesItself DEF IsNearest
  <2> QED BY <1>1, <2>1, DominatesAntisymmetric
<1> QED BY <1>2, <1>3

\* The entry has no phi.
LEMMA EntryHasNoPhi == CodeOK => Entry \notin phis
<1> SUFFICES ASSUME CodeOK PROVE Entry \notin IteratedFrontier
  BY DEF CodeOK
<1> DEFINE T == Codes \ {Entry}
<1>1. \A d \in defs \union T : DomFrontier(succ, d) \subseteq T
  BY FrontierFacts DEF CodeOK, DomFrontier
<1>2. T \in SUBSET Codes
  OBVIOUS
<1> HIDE DEF T
<1>3. IteratedFrontier \subseteq T
  BY <1>1, <1>2, FrontierFacts
<1> QED BY <1>3 DEF T
-----------------------------------------------------------------------------
(* The stack of calls of the two searches.                                  *)

LEMMA CallsPushed ==
  ASSUME NEW S, NEW q \in Seq(S), NEW x \in S
  PROVE  /\ Append(q, x) \in Seq(S) /\ q \o <<x>> = Append(q, x)
         /\ Len(Append(q, x)) = Len(q) + 1
         /\ \A k \in 1 .. Len(q) + 1 : Append(q, x)[k] = IF k = Len(q) + 1 THEN x ELSE q[k]
  OBVIOUS

LEMMA CallsPopped ==
  ASSUME NEW S, NEW q \in Seq(S), q # <<>>
  PROVE  /\ Len(q) \in Nat \ {0} /\ q[Len(q)] \in S
         /\ SubSeq(q, 1, Len(q) - 1) \in Seq(S)
         /\ Len(SubSeq(q, 1, Len(q) - 1)) = Len(q) - 1
         /\ \A k \in 1 .. Len(q) - 1 : SubSeq(q, 1, Len(q) - 1)[k] = q[k]
<1>1. Len(q) \in Nat \ {0} /\ \A k \in 1 .. Len(q) : q[k] \in S
  OBVIOUS
<1>2. PICK m \in Nat \ {0} : m = Len(q)
  BY <1>1
<1> DEFINE n == m - 1
<1>3. \A k \in 1 .. n : q[k] \in S
  BY <1>1, <1>2
<1>4. n \in Int /\ 1 \in Int /\ n - 1 + 1 = n /\ (IF 1 <= n THEN n ELSE 0) = n
  OBVIOUS
<1>5. /\ SubSeq(q, 1, n) \in Seq(S) /\ Len(SubSeq(q, 1, n)) = IF 1 <= n THEN n - 1 + 1 ELSE 0
      /\ \A k \in 1 .. n - 1 + 1 : SubSeq(q, 1, n)[k] = q[1 + k - 1]
  <2> HIDE DEF n
  <2> QED BY <1>3, <1>4, SubSeqProperties
<1>6. \A k \in 1 .. n : 1 + k - 1 = k
  OBVIOUS
<1>7. Len(SubSeq(q, 1, n)) = n /\ \A k \in 1 .. n : SubSeq(q, 1, n)[k] = q[k]
  <2> HIDE DEF n
  <2> QED BY <1>4, <1>5, <1>6
<1>8. m \in 1 .. m
  OBVIOUS
<1> QED BY <1>1, <1>2, <1>5, <1>7, <1>8

LEMMA CallsReplaced ==
  ASSUME NEW S, NEW q \in Seq(S), q # <<>>, NEW x \in S
  PROVE  /\ Append(SubSeq(q, 1, Len(q) - 1), x) \in Seq(S)
         /\ Len(Append(SubSeq(q, 1, Len(q) - 1), x)) = Len(q)
         /\ \A k \in 1 .. Len(q) : Append(SubSeq(q, 1, Len(q) - 1), x)[k] = IF k = Len(q) THEN x ELSE q[k]
<1> DEFINE p == SubSeq(q, 1, Len(q) - 1)
<1>1. /\ Len(q) \in Nat \ {0} /\ p \in Seq(S) /\ Len(p) = Len(q) - 1
      /\ \A k \in 1 .. Len(q) - 1 : p[k] = q[k]
  BY CallsPopped
<1> HIDE DEF p
<1>2. /\ Append(p, x) \in Seq(S) /\ Len(Append(p, x)) = Len(q)
      /\ \A k \in 1 .. Len(q) : Append(p, x)[k] = IF k = Len(q) THEN x ELSE p[k]
  BY <1>1, CallsPushed
<1> QED BY <1>1, <1>2 DEF p

\* A depth-first search is under way: the calls are for different blocks, and what a
\* block leads to has been visited or is still to be.
Walk(g, q, vis) ==
  /\ \A k \in 1 .. Len(q) : q[k].block \in vis /\ q[k].left \subseteq g[q[k].block]
  /\ \A i, j \in 1 .. Len(q) : q[i].block = q[j].block => i = j
  /\ \A c \in vis : \A s \in g[c] : s \in vis \/ \E k \in 1 .. Len(q) : q[k].block = c /\ s \in q[k].left

\* The top of the calls, q[n], is done with s.
TopWithout(q, r, n, s) ==
  \A k \in 1 .. n : /\ r[k].block = q[k].block
                    /\ r[k].left = IF k = n THEN q[k].left \ {s} ELSE q[k].left

LEMMA WalkSkips ==
  ASSUME NEW g, NEW q, NEW r, NEW vis, NEW n \in Nat, Len(q) = n, Len(r) = n,
         Walk(g, q, vis), NEW s \in vis, TopWithout(q, r, n, s)
  PROVE  Walk(g, r, vis)
<1>1. \A k \in 1 .. n : r[k].block = q[k].block /\ r[k].left \subseteq q[k].left
  BY DEF TopWithout
<1>2. \A k \in 1 .. n : \A x \in q[k].left : x = s \/ x \in r[k].left
  BY DEF TopWithout
<1>3. \A k \in 1 .. Len(r) : r[k].block \in vis /\ r[k].left \subseteq g[r[k].block]
  BY <1>1 DEF Walk
<1>4. \A i, j \in 1 .. Len(r) : r[i].block = r[j].block => i = j
  BY <1>1 DEF Walk
<1>5. ASSUME NEW c \in vis, NEW x \in g[c], x \notin vis
      PROVE  \E k \in 1 .. Len(r) : r[k].block = c /\ x \in r[k].left
  <2>1. PICK k \in 1 .. n : q[k].block = c /\ x \in q[k].left
    BY <1>5 DEF Walk
  <2> QED BY <1>1, <1>2, <1>5, <2>1
<1> QED BY <1>3, <1>4, <1>5 DEF Walk

LEMMA WalkEnters ==
  ASSUME NEW g, NEW q, NEW r, NEW vis, NEW n \in Nat, Len(q) = n, Len(r) = n + 1,
         Walk(g, q, vis), NEW s, s \notin vis, TopWithout(q, r, n, s),
         r[n + 1].block = s, r[n + 1].left = g[s]
  PROVE  Walk(g, r, vis \union {s})
<1>1. \A k \in 1 .. n : r[k].block = q[k].block /\ r[k].left \subseteq q[k].left
  BY DEF TopWithout
<1>2. \A k \in 1 .. n : \A x \in q[k].left : x = s \/ x \in r[k].left
  BY DEF TopWithout
<1>3. \A k \in 1 .. n : q[k].block \in vis /\ q[k].left \subseteq g[q[k].block]
  BY DEF Walk
<1>4. \A k \in 1 .. Len(r) : r[k].block \in vis \union {s} /\ r[k].left \subseteq g[r[k].block]
  <2> TAKE k \in 1 .. Len(r)
  <2>1. CASE k = n + 1
    BY <2>1
  <2>2. CASE k # n + 1
    BY <1>1, <1>3, <2>2
  <2> QED BY <2>1, <2>2
<1>5. \A i, j \in 1 .. Len(r) : r[i].block = r[j].block => i = j
  <2> TAKE i, j \in 1 .. Len(r)
  <2>1. CASE i # n + 1 /\ j # n + 1
    BY <1>1, <2>1 DEF Walk
  <2>2. CASE i = n + 1 \/ j = n + 1
    BY <1>1, <1>3, <2>2
  <2> QED BY <2>1, <2>2
<1>6. ASSUME NEW c \in vis \union {s}, NEW x \in g[c], x \notin vis \union {s}
      PROVE  \E k \in 1 .. Len(r) : r[k].block = c /\ x \in r[k].left
  <2>1. CASE c = s
    BY <1>6, <2>1
  <2>2. CASE c # s
    <3>1. PICK k \in 1 .. n : q[k].block = c /\ x \in q[k].left
      BY <1>6, <2>2 DEF Walk
    <3> QED BY <1>1, <1>2, <1>6, <3>1
  <2> QED BY <2>1, <2>2
<1> QED BY <1>4, <1>5, <1>6 DEF Walk

LEMMA WalkReturns ==
  ASSUME NEW g, NEW q, NEW r, NEW vis, NEW n \in Nat, Len(q) = n, n # 0, Len(r) = n - 1,
         Walk(g, q, vis), q[n].left = {},
         \A k \in 1 .. n - 1 : r[k].block = q[k].block /\ r[k].left = q[k].left
  PROVE  Walk(g, r, vis)
<1>1. \A k \in 1 .. n - 1 : k \in 1 .. n
  OBVIOUS
<1>2. \A k \in 1 .. Len(r) : r[k].block \in vis /\ r[k].left \subseteq g[r[k].block]
  BY <1>1 DEF Walk
<1>3. \A i, j \in 1 .. Len(r) : r[i].block = r[j].block => i = j
  BY <1>1 DEF Walk
<1>4. ASSUME NEW c \in vis, NEW x \in g[c], x \notin vis
      PROVE  \E k \in 1 .. Len(r) : r[k].block = c /\ x \in r[k].left
  <2>1. PICK k \in 1 .. n : q[k].block = c /\ x \in q[k].left
    BY <1>4 DEF Walk
  <2>2. k \in 1 .. n - 1
    BY <2>1
  <2> QED BY <2>1, <2>2
<1> QED BY <1>2, <1>3, <1>4 DEF Walk

\* A search that has come to its end has visited all it leads to.
LEMMA WalkEnds ==
  ASSUME NEW g, NEW vis, Walk(g, <<>>, vis)
  PROVE  Closed(g, vis)
  BY DEF Walk, Closed

-----------------------------------------------------------------------------
(* The search for uses.                                                     *)

SearchFrames == [block : Codes, left : SUBSET Codes, found : BOOLEAN]
NameFrames == [block : Codes, left : SUBSET Codes, to : SsaVars]

Shape ==
  /\ CodeOK
  /\ pc \in {"usage", "insert", "rename", "run"}
  /\ visited \in SUBSET Codes /\ uses_var \in SUBSET Codes /\ todo \in SUBSET Codes
  /\ bind \in [Codes -> [Codes -> SsaVars \union {Undef}]]
  /\ dest \in [Codes -> SsaVars] /\ read \in [Codes -> SsaVars]
  /\ at \in Codes /\ env = [v \in SsaVars \union {Undef} |-> env[v]]
  /\ pc = "usage" => calls \in Seq(SearchFrames) /\ phis = {}
  /\ pc \in {"insert", "run"} => calls = <<>>
  /\ pc = "rename" => calls \in Seq(NameFrames)
  /\ pc \in {"usage", "rename"} => Walk(succ, calls, visited)

Acyclic == \A c \in Codes : ~ OnCycle(succ, c)

\* What the calls that have returned have answered, and what the others know so far,
\* if there is no loop: a block that is visited and has not returned is then never met.
Answers ==
  /\ \A j, k \in 1 .. Len(calls) : j < k => calls[k].block \in Reached(succ, succ[calls[j].block])
  /\ \A k \in 1 .. Len(calls) : \A s \in succ[calls[k].block] \ calls[k].left :
       s \in LiveBlocks => calls[k].found \/ (k < Len(calls) /\ s = calls[k + 1].block)
  /\ \A c \in visited \intersect LiveBlocks : c \in uses_var \/ \E k \in 1 .. Len(calls) : calls[k].block = c

SearchInv ==
  pc = "usage" =>
    /\ uses \subseteq uses_var /\ defs \subseteq visited \union todo
    /\ \A k \in 1 .. Len(calls) : calls[k].block \in uses => calls[k].found
    /\ Acyclic => Answers

\* The phis are in blocks of the frontier, which grows with them; what was found before.
InsertInv ==
  pc = "insert" =>
    /\ phis = visited /\ todo \subseteq IteratedFrontier
    /\ \A d \in defs \union visited : DomFrontier(succ, d) \subseteq todo
    /\ Acyclic => Reached(succ, defs) \intersect LiveBlocks \subseteq uses_var

PlacedInv == pc \in {"rename", "run"} /\ Acyclic => Placed

SInv == Shape /\ SearchInv /\ InsertInv /\ PlacedInv

\* From a block that does not read x itself it is read by way of a successor.
LEMMA LiveNext ==
  ASSUME CodeOK, NEW c \in LiveBlocks, c \notin uses
  PROVE  \E s \in succ[c] : s \in LiveBlocks
<1> DEFINE T == {c} \union UNION {Reached(succ, {s}) : s \in succ[c]}
<1>1. succ \in [Codes -> SUBSET Codes] /\ c \in Codes
  BY GraphFacts DEF CodeOK, LiveBlocks
<1>2. \A s \in succ[c] : Reached(succ, {s}) \in SUBSET Codes /\ s \in Reached(succ, {s}) /\ Closed(succ, Reached(succ, {s}))
  BY <1>1, ReachedFacts
<1>3. T \in SUBSET Codes /\ {c} \subseteq T
  BY <1>1, <1>2
<1>4. Closed(succ, T)
  BY <1>2 DEF Closed
<1> HIDE DEF T
<1>5. Reached(succ, {c}) \subseteq T
  BY <1>1, <1>3, <1>4, ReachedFacts
<1>6. PICK u \in uses : u \in T
  BY <1>5 DEF LiveBlocks
<1>7. PICK s \in succ[c] : u \in Reached(succ, {s})
  BY <1>6 DEF T
<1>8. s \in LiveBlocks
  BY <1>1, <1>7 DEF LiveBlocks
<1> QED BY <1>8

\* What a step leaves alone.
LEMMA SameCode ==
  ASSUME UNCHANGED <<succ, defs, uses>>
  PROVE  /\ LiveBlocks' = LiveBlocks /\ IteratedFrontier' = IteratedFrontier /\ NeedsPhi' = NeedsPhi
         /\ (Acyclic' <=> Acyclic) /\ Frontier(defs)' = Frontier(defs)
  BY DEF LiveBlocks, IteratedFrontier, NeedsPhi, Acyclic, Frontier

\* The loop over the definitions starts a search.
LEMMA SearchFromStep ==
  ASSUME SInv, NEW c \in Codes, SearchFrom(c)
  PROVE  SInv'
<1>1. /\ pc = "usage" /\ calls = <<>> /\ c \in todo /\ pc' = "usage"
      /\ todo' = todo \ {c} /\ uses_var' = uses_var \union {c} /\ visited' = visited \union {c}
      /\ calls' = IF c \in visited THEN <<>> ELSE <<[block |-> c, left |-> succ[c], found |-> TRUE]>>
      /\ UNCHANGED <<code, result, execution, pc>>
  BY DEF SearchFrom
<1>2. Shape /\ SearchInv
  BY DEF SInv
<1>3. succ \in [Codes -> SUBSET Codes]
  BY <1>2, GraphFacts DEF Shape, CodeOK
<1>4. /\ succ' = succ /\ uses' = uses /\ defs' = defs /\ LiveBlocks' = LiveBlocks /\ (Acyclic' <=> Acyclic)
      /\ UNCHANGED code /\ UNCHANGED result /\ UNCHANGED execution
  <2>1. UNCHANGED code /\ UNCHANGED result /\ UNCHANGED execution
    BY <1>1
  <2>2. UNCHANGED <<succ, defs, uses>>
    BY <2>1 DEF code
  <2>3. LiveBlocks' = LiveBlocks /\ (Acyclic' <=> Acyclic)
    BY <2>2, SameCode
  <2> QED BY <2>1, <2>2, <2>3
<1>5. CodeOK'
  BY <1>2, <1>1, <1>4, SameCode DEF Shape, CodeOK, result
<1> DEFINE f == [block |-> c, left |-> succ[c], found |-> TRUE]
<1>6. f \in SearchFrames /\ f.block = c /\ f.left = succ[c] /\ f.found
  BY <1>3 DEF SearchFrames
<1>7. c \in visited => calls' = <<>> /\ visited' = visited
  BY <1>1
<1>8. c \notin visited => Len(calls') = 1 /\ calls'[1] = f
  BY <1>1
<1>9. calls' \in Seq(SearchFrames)
  BY <1>1, <1>6
<1>10. Walk(succ, calls', visited')
  <2>1. CASE c \in visited
    BY <1>1, <1>2, <1>7, <2>1 DEF Shape
  <2>2. CASE c \notin visited
    <3>1. Walk(succ, <<>>, visited)
      BY <1>1, <1>2 DEF Shape
    <3>2. PICK n \in Nat : n = 0
      OBVIOUS
    <3>3. TopWithout(<<>>, calls', n, c)
      BY <3>2 DEF TopWithout
    <3>5. Len(<<>>) = n /\ Len(calls') = n + 1 /\ calls'[n + 1] = f
      BY <1>8, <2>2, <3>2
    <3> HIDE DEF f
    <3>4. Walk(succ, calls', visited \union {c})
      BY <1>6, <2>2, <3>1, <3>3, <3>5, WalkEnters
    <3> QED BY <1>1, <3>4
  <2> QED BY <2>1, <2>2
<1>11. Shape'
  BY <1>1, <1>2, <1>4, <1>5, <1>9, <1>10 DEF Shape, result, execution
<1>12. \A k \in 1 .. Len(calls') : calls'[k] = f /\ k = 1 /\ Len(calls') = 1
  <2>1. CASE c \in visited
    <3>1. Len(calls') = 0
      BY <1>7, <2>1
    <3> QED BY <3>1
  <2>2. CASE c \notin visited
    <3> HIDE DEF f
    <3>1. Len(calls') = 1 /\ calls'[1] = f
      BY <1>8, <2>2
    <3>2. \A k \in 1 .. 1 : k = 1
      OBVIOUS
    <3> QED BY <3>1, <3>2
  <2> QED BY <2>1, <2>2
<1> HIDE DEF f
<1>13. ASSUME Acyclic PROVE Answers'
  <2>1. \A j, k \in 1 .. Len(calls') : j < k => calls'[k].block \in Reached(succ, succ[calls'[j].block])
    BY <1>12
  <2>2. \A k \in 1 .. Len(calls') : \A s \in succ[calls'[k].block] \ calls'[k].left : FALSE
    BY <1>6, <1>12
  <2>3. ASSUME NEW b \in visited' \intersect LiveBlocks PROVE b \in uses_var'
    <3>1. CASE b = c
      BY <1>1, <3>1
    <3>2. CASE b # c
      BY <1>1, <1>2, <1>13, <2>3, <3>2 DEF SearchInv, Answers
    <3> QED BY <3>1, <3>2
  <2> QED BY <1>4, <2>1, <2>2, <2>3 DEF Answers
<1>14. SearchInv'
  <2>1. uses \subseteq uses_var' /\ defs \subseteq visited' \union todo'
    BY <1>1, <1>2 DEF SearchInv
  <2>2. \A k \in 1 .. Len(calls') : calls'[k].found
    BY <1>6, <1>12
  <2> QED BY <1>4, <1>13, <2>1, <2>2 DEF SearchInv
<1> QED BY <1>1, <1>11, <1>14 DEF SInv, InsertInv, PlacedInv

\* The search takes the next successor.
LEMMA SearchSuccStep ==
  ASSUME SInv, NEW s \in Codes, SearchSucc(s)
  PROVE  SInv'
<1> DEFINE n == Len(calls)  top == calls[Len(calls)]
           here == [top EXCEPT !.left = @ \ {s}, !.found = @ \/ (s \in visited /\ s \in uses_var)]
           q == Append(SubSeq(calls, 1, Len(calls) - 1), here)
           f == [block |-> s, left |-> succ[s], found |-> s \in uses_var]
<1>1. /\ pc = "usage" /\ calls # <<>> /\ s \in top.left /\ pc' = "usage"
      /\ calls' = (IF s \in visited THEN q ELSE q \o <<f>>)
      /\ visited' = visited \union {s} /\ todo' = todo /\ uses_var' = uses_var
      /\ UNCHANGED <<code, result, execution>>
  BY DEF SearchSucc, Top, Pop
<1>2. Shape /\ SearchInv /\ calls \in Seq(SearchFrames) /\ Walk(succ, calls, visited)
  BY <1>1 DEF SInv, Shape
<1>3. succ \in [Codes -> SUBSET Codes]
  BY <1>2, GraphFacts DEF Shape, CodeOK
<1>4. /\ succ' = succ /\ uses' = uses /\ defs' = defs /\ LiveBlocks' = LiveBlocks /\ (Acyclic' <=> Acyclic)
      /\ UNCHANGED code /\ UNCHANGED result /\ UNCHANGED execution
  <2>1. UNCHANGED code /\ UNCHANGED result /\ UNCHANGED execution
    BY <1>1
  <2>2. UNCHANGED <<succ, defs, uses>>
    BY <2>1 DEF code
  <2>3. LiveBlocks' = LiveBlocks /\ (Acyclic' <=> Acyclic)
    BY <2>2, SameCode
  <2> QED BY <2>1, <2>2, <2>3
<1>5. CodeOK'
  BY <1>2, <1>1, <1>4, SameCode DEF Shape, CodeOK, result
<1>6. n \in Nat \ {0} /\ top \in SearchFrames
  BY <1>1, <1>2, CallsPopped
<1>7. here \in SearchFrames /\ here.block = top.block /\ here.left = top.left \ {s}
      /\ (here.found <=> top.found \/ (s \in visited /\ s \in uses_var))
  BY <1>6 DEF SearchFrames
<1>8. f \in SearchFrames /\ f.block = s /\ f.left = succ[s] /\ (f.found <=> s \in uses_var)
  <2>1. succ[s] \in SUBSET Codes
    BY <1>3
  <2>2. f \in SearchFrames /\ f.block = s /\ f.left = succ[s]
    BY <2>1 DEF SearchFrames
  <2>3. f.found = (s \in uses_var)
    BY Zenon
  <2> HIDE DEF f
  <2> QED BY <2>2, <2>3, Zenon
<1> HIDE DEF here, f
<1>9. q \in Seq(SearchFrames) /\ Len(q) = n /\ \A k \in 1 .. n : q[k] = IF k = n THEN here ELSE calls[k]
  BY <1>1, <1>2, <1>7, CallsReplaced
<1> HIDE DEF q
<1>10. s \in succ[top.block] /\ top.block \in Codes
  <2>1. top.block \in visited /\ top.left \subseteq succ[top.block]
    BY <1>2, <1>6 DEF Walk
  <2> QED BY <1>1, <1>2, <2>1 DEF Shape
<1>11. s \in visited => calls' = q /\ visited' = visited
  BY <1>1
<1>12. s \notin visited => /\ calls' \in Seq(SearchFrames) /\ Len(calls') = n + 1
                           /\ \A k \in 1 .. n + 1 : calls'[k] = IF k = n + 1 THEN f ELSE q[k]
  BY <1>1, <1>8, <1>9, CallsPushed
<1> HIDE DEF n, top
<1>13. TopWithout(calls, q, n, s) /\ \A k \in 1 .. n : s \notin visited => calls'[k] = q[k]
  <2>1. \A k \in 1 .. n : q[k].block = calls[k].block /\ q[k].left = IF k = n THEN calls[k].left \ {s} ELSE calls[k].left
    BY <1>7, <1>9 DEF n, top
  <2>2. \A k \in 1 .. n : k \in 1 .. n + 1 /\ k # n + 1
    BY <1>6
  <2> QED BY <1>12, <2>1, <2>2 DEF TopWithout
<1>14. Walk(succ, calls', visited')
  <2>1. CASE s \in visited
    BY <1>2, <1>6, <1>9, <1>11, <1>13, <2>1, WalkSkips DEF n
  <2>2. CASE s \notin visited
    <3>1. TopWithout(calls, calls', n, s)
      BY <1>13, <2>2 DEF TopWithout
    <3>2. n + 1 \in 1 .. n + 1 /\ calls'[n + 1] = f
      BY <1>6, <1>12, <2>2
    <3>3. Walk(succ, calls', visited \union {s})
      BY <1>2, <1>6, <1>8, <1>12, <2>2, <3>1, <3>2, WalkEnters DEF n
    <3> QED BY <1>1, <3>3
  <2> QED BY <2>1, <2>2
<1>15. Shape'
  <2>1. calls' \in Seq(SearchFrames)
    BY <1>9, <1>11, <1>12
  <2> QED BY <1>1, <1>2, <1>4, <1>5, <1>14, <2>1 DEF Shape, result, execution
<1>16. /\ Len(calls') \in {n, n + 1}
       /\ \A k \in 1 .. Len(calls') : calls'[k] = IF k = n + 1 THEN f ELSE IF k = n THEN here ELSE calls[k]
       /\ (Len(calls') = n + 1 <=> s \notin visited)
  BY <1>6, <1>9, <1>11, <1>12
<1>17. \A k \in 1 .. n : calls[k].block \in visited /\ calls'[k].block = calls[k].block
  BY <1>2, <1>6, <1>7, <1>16 DEF Walk, n, top
<1>18. ASSUME Acyclic PROVE Answers'
  <2>1. Answers
    BY <1>1, <1>2, <1>18 DEF SearchInv
  <2>2. \A k \in 1 .. n : s \in Reached(succ, succ[calls[k].block])
    <3> TAKE k \in 1 .. n
    <3>1. succ[calls[k].block] \in SUBSET Codes
      BY <1>2, <1>3, <1>17 DEF Shape
    <3>2. CASE k = n
      BY <1>3, <1>10, <3>1, <3>2, ReachedFacts DEF n, top
    <3>3. CASE k # n
      <4>1. top.block \in Reached(succ, succ[calls[k].block])
        BY <1>6, <2>1, <3>3 DEF Answers, n, top
      <4> QED BY <1>3, <1>10, <3>1, <4>1, ReachedFacts DEF Closed
    <3> QED BY <3>2, <3>3
  <2>3. \A k \in 1 .. n : calls[k].block # s
    BY <1>18, <2>2 DEF Acyclic, OnCycle
  <2>4. \A j, k \in 1 .. Len(calls') : j < k => calls'[k].block \in Reached(succ, succ[calls'[j].block])
    <3> TAKE j, k \in 1 .. Len(calls')
    <3> HAVE j < k
    <3>1. j \in 1 .. n
      BY <1>6, <1>16
    <3>2. CASE k = n + 1
      BY <1>8, <1>16, <1>17, <2>2, <3>1, <3>2
    <3>3. CASE k # n + 1
      <4>1. k \in 1 .. n
        BY <1>6, <1>16, <3>3
      <4> QED BY <1>17, <2>1, <3>1, <4>1 DEF Answers, n
    <3> QED BY <3>2, <3>3
  <2>5. ASSUME NEW k \in 1 .. Len(calls'), NEW x \in succ[calls'[k].block] \ calls'[k].left, x \in LiveBlocks
        PROVE  calls'[k].found \/ (k < Len(calls') /\ x = calls'[k + 1].block)
    <3>1. CASE k = n + 1
      BY <1>8, <1>16, <2>5, <3>1
    <3>2. CASE k = n /\ x # s
      <4>1. x \in succ[top.block] \ top.left /\ calls'[k] = here
        BY <1>6, <1>7, <1>16, <2>5, <3>2
      <4>2. top.found \/ (n < n /\ x = calls[n + 1].block)
        BY <1>6, <2>1, <2>5, <4>1 DEF Answers, n, top
      <4> QED BY <1>6, <1>7, <4>1, <4>2
    <3>3. CASE k = n /\ x = s /\ s \in visited
      <4>1. s \in uses_var
        BY <2>1, <2>3, <2>5, <3>3 DEF Answers, n
      <4> QED BY <1>6, <1>7, <1>16, <2>5, <3>3, <4>1
    <3>4. CASE k = n /\ x = s /\ s \notin visited
      <4>1. k < Len(calls') /\ k + 1 \in 1 .. Len(calls') /\ calls'[k + 1] = f
        BY <1>6, <1>16, <3>4
      <4> QED BY <1>8, <3>4, <4>1
    <3>5. CASE k # n /\ k # n + 1
      <4>1. k \in 1 .. n /\ k < n /\ k + 1 \in 1 .. n /\ k + 1 \in 1 .. Len(calls') /\ k < Len(calls')
        BY <1>6, <1>16, <3>5
      <4>2. calls'[k] = calls[k] /\ calls'[k + 1].block = calls[k + 1].block
        BY <1>16, <1>17, <3>5, <4>1
      <4>3. calls[k].found \/ (k < n /\ x = calls[k + 1].block)
        BY <2>1, <2>5, <4>1, <4>2 DEF Answers, n
      <4> QED BY <4>1, <4>2, <4>3
    <3> QED BY <3>1, <3>2, <3>3, <3>4, <3>5
  <2>6. ASSUME NEW c \in visited' \intersect LiveBlocks, c \notin uses_var'
        PROVE  \E k \in 1 .. Len(calls') : calls'[k].block = c
    <3>1. CASE c \in visited
      <4>1. PICK k \in 1 .. n : calls[k].block = c
        BY <1>1, <2>1, <2>6, <3>1 DEF Answers, n
      <4>2. k \in 1 .. Len(calls')
        BY <1>6, <1>16
      <4> QED BY <1>17, <4>1, <4>2
    <3>2. CASE c \notin visited
      <4>1. c = s /\ n + 1 \in 1 .. Len(calls') /\ calls'[n + 1] = f
        BY <1>1, <1>6, <1>16, <2>6, <3>2
      <4> QED BY <1>8, <4>1
    <3> QED BY <3>1, <3>2
  <2> QED BY <1>4, <2>4, <2>5, <2>6 DEF Answers
<1>19. SearchInv'
  <2>1. uses \subseteq uses_var' /\ defs \subseteq visited' \union todo'
    BY <1>1, <1>2 DEF SearchInv
  <2>2. ASSUME NEW k \in 1 .. Len(calls'), calls'[k].block \in uses PROVE calls'[k].found
    <3>1. CASE k = n + 1
      BY <1>8, <1>16, <2>1, <2>2, <3>1, <1>1
    <3>2. CASE k # n + 1
      <4>1. k \in 1 .. n /\ calls[k].block \in uses
        BY <1>6, <1>16, <1>17, <2>2, <3>2
      <4>2. calls[k].found
        BY <1>1, <1>2, <4>1 DEF SearchInv, n
      <4> QED BY <1>6, <1>7, <1>16, <3>2, <4>1, <4>2 DEF n, top
    <3> QED BY <3>1, <3>2
  <2> QED BY <1>4, <1>18, <2>1, <2>2 DEF SearchInv
<1> QED BY <1>1, <1>15, <1>19 DEF SInv, InsertInv, PlacedInv
\* All successors have answered.
LEMMA SearchReturnStep ==
  ASSUME SInv, SearchReturn
  PROVE  SInv'
<1> DEFINE n == Len(calls)  top == calls[Len(calls)]  q == SubSeq(calls, 1, Len(calls) - 1)
           f(k) == [q[k] EXCEPT !.found = @ \/ top.found]
<1>1. /\ pc = "usage" /\ calls # <<>> /\ top.left = {} /\ pc' = "usage"
      /\ uses_var' = (IF top.found THEN uses_var \union {top.block} ELSE uses_var)
      /\ calls' = [i \in 1 .. Len(q) |-> IF i = Len(q) THEN f(i) ELSE q[i]]
      /\ visited' = visited /\ todo' = todo
      /\ UNCHANGED <<code, result, execution>>
  BY DEF SearchReturn, Top, Pop
<1>2. Shape /\ SearchInv /\ calls \in Seq(SearchFrames) /\ Walk(succ, calls, visited)
  BY <1>1 DEF SInv, Shape
<1>3. succ \in [Codes -> SUBSET Codes]
  BY <1>2, GraphFacts DEF Shape, CodeOK
<1>4. /\ succ' = succ /\ uses' = uses /\ defs' = defs /\ LiveBlocks' = LiveBlocks /\ (Acyclic' <=> Acyclic)
      /\ UNCHANGED code /\ UNCHANGED result /\ UNCHANGED execution
  <2>1. UNCHANGED code /\ UNCHANGED result /\ UNCHANGED execution
    BY <1>1
  <2>2. UNCHANGED <<succ, defs, uses>>
    BY <2>1 DEF code
  <2>3. LiveBlocks' = LiveBlocks /\ (Acyclic' <=> Acyclic)
    BY <2>2, SameCode
  <2> QED BY <2>1, <2>2, <2>3
<1>5. CodeOK'
  BY <1>2, <1>1, <1>4, SameCode DEF Shape, CodeOK, result
<1>6. /\ n \in Nat \ {0} /\ top \in SearchFrames
      /\ q \in Seq(SearchFrames) /\ Len(q) = n - 1 /\ \A k \in 1 .. n - 1 : q[k] = calls[k]
  BY <1>1, <1>2, CallsPopped
<1> HIDE DEF q, n
<1>7. ASSUME NEW k \in 1 .. n - 1
      PROVE  /\ k \in 1 .. n /\ calls[k] \in SearchFrames
             /\ f(k) \in SearchFrames /\ f(k).block = calls[k].block /\ f(k).left = calls[k].left
             /\ (f(k).found <=> calls[k].found \/ top.found)
  <2>1. q[k] = calls[k] /\ q[k] \in SearchFrames /\ k \in 1 .. n
    BY <1>6
  <2> QED BY <1>6, <2>1 DEF SearchFrames
<1> HIDE DEF f, top
<1>8. /\ calls' \in Seq(SearchFrames) /\ Len(calls') = n - 1
      /\ \A k \in 1 .. n - 1 : calls'[k] = IF k = n - 1 THEN f(k) ELSE calls[k]
  <2>1. PICK m \in Nat : m = n - 1
    BY <1>6
  <2>2. calls' = [i \in 1 .. m |-> IF i = m THEN f(i) ELSE q[i]]
    BY <1>1, <1>6, <2>1
  <2>3. \A i \in 1 .. m : f(i) \in SearchFrames /\ calls[i] \in SearchFrames /\ q[i] = calls[i]
    BY <1>6, <1>7, <2>1
  <2> QED BY <2>1, <2>2, <2>3
<1>9. \A k \in 1 .. n - 1 :
         /\ k \in 1 .. n /\ calls'[k].block = calls[k].block /\ calls'[k].left = calls[k].left
         /\ (calls[k].found => calls'[k].found)
         /\ (k = n - 1 /\ top.found => calls'[k].found)
  BY <1>7, <1>8
<1>10. top = calls[n] /\ n \in 1 .. n /\ n = Len(calls)
  BY <1>6 DEF top, n
<1>11. Walk(succ, calls', visited)
  BY <1>1, <1>2, <1>6, <1>8, <1>9, <1>10, WalkReturns
<1>12. Shape'
  <2>1. top.block \in Codes
    BY <1>6 DEF SearchFrames
  <2>2. uses_var' \in SUBSET Codes
    BY <1>1, <1>2, <2>1 DEF Shape
  <2> QED BY <1>1, <1>2, <1>4, <1>5, <1>8, <1>11, <2>2 DEF Shape, result, execution
<1>13. \A k \in 1 .. n : calls[k].block \in uses => calls[k].found
  BY <1>1, <1>2, <1>10 DEF SearchInv
<1>14. ASSUME Acyclic PROVE Answers'
  <2>1. Answers
    BY <1>1, <1>2, <1>14 DEF SearchInv
  <2>2. top.block \in LiveBlocks => top.found
    <3> SUFFICES ASSUME top.block \in LiveBlocks, top.block \notin uses PROVE top.found
      BY <1>10, <1>13
    <3>1. PICK s \in succ[top.block] : s \in LiveBlocks
      BY <1>2, LiveNext DEF Shape
    <3>2. s \in succ[calls[n].block] \ calls[n].left
      BY <1>1, <1>10, <3>1
    <3>3. ~ (n < n)
      BY <1>6
    <3> QED BY <1>10, <2>1, <3>1, <3>2, <3>3 DEF Answers
  <2>3. \A j, k \in 1 .. Len(calls') : j < k => calls'[k].block \in Reached(succ, succ[calls'[j].block])
    BY <1>8, <1>9, <1>10, <2>1 DEF Answers
  <2>4. ASSUME NEW k \in 1 .. Len(calls'), NEW x \in succ[calls'[k].block] \ calls'[k].left, x \in LiveBlocks
        PROVE  calls'[k].found \/ (k < Len(calls') /\ x = calls'[k + 1].block)
    <3>1. k \in 1 .. n - 1 /\ x \in succ[calls[k].block] \ calls[k].left
      BY <1>8, <1>9, <2>4
    <3>2. calls[k].found \/ x = calls[k + 1].block
      BY <1>9, <1>10, <2>1, <2>4, <3>1 DEF Answers
    <3>3. CASE k = n - 1
      <4>1. k + 1 = n
        BY <1>6, <3>3
      <4> QED BY <1>9, <1>10, <2>2, <2>4, <3>1, <3>2, <3>3, <4>1
    <3>4. CASE k # n - 1
      <4>1. k + 1 \in 1 .. n - 1 /\ k < n - 1
        BY <1>6, <3>1, <3>4
      <4> QED BY <1>8, <1>9, <3>1, <3>2, <4>1
    <3> QED BY <3>3, <3>4
  <2>5. ASSUME NEW c \in visited' \intersect LiveBlocks, c \notin uses_var'
        PROVE  \E k \in 1 .. Len(calls') : calls'[k].block = c
    <3>1. PICK k \in 1 .. n : calls[k].block = c
      BY <1>1, <1>10, <2>1, <2>5 DEF Answers
    <3>2. k # n
      BY <1>1, <1>10, <2>2, <2>5, <3>1
    <3>3. k \in 1 .. n - 1
      BY <1>6, <3>2
    <3> QED BY <1>8, <1>9, <3>1, <3>3
  <2> QED BY <1>4, <2>3, <2>4, <2>5 DEF Answers
<1>15. SearchInv'
  <2>1. uses \subseteq uses_var' /\ defs \subseteq visited' \union todo'
    BY <1>1, <1>2 DEF SearchInv
  <2>2. \A k \in 1 .. Len(calls') : calls'[k].block \in uses => calls'[k].found
    BY <1>8, <1>9, <1>13
  <2> QED BY <1>4, <1>14, <2>1, <2>2 DEF SearchInv
<1> QED BY <1>1, <1>12, <1>15 DEF SInv, InsertInv, PlacedInv

-----------------------------------------------------------------------------
(* The insertion of phis.                                                   *)

LEMMA StartInsertStep ==
  ASSUME SInv, StartInsert
  PROVE  SInv'
<1>1. /\ pc = "usage" /\ calls = <<>> /\ todo = {} /\ pc' = "insert"
      /\ todo' = Frontier(defs) /\ visited' = {} /\ uses_var' = uses_var /\ calls' = calls
      /\ UNCHANGED code /\ UNCHANGED result /\ UNCHANGED execution
  BY DEF StartInsert
<1>2. Shape /\ SearchInv /\ phis = {} /\ Walk(succ, <<>>, visited)
  BY <1>1 DEF SInv, Shape
<1>3. succ \in [Codes -> SUBSET Codes] /\ defs \in SUBSET Codes
  BY <1>2, GraphFacts DEF Shape, CodeOK
<1>4. UNCHANGED <<succ, defs, uses, phis>>
  BY <1>1 DEF code, result
<1>5. LiveBlocks' = LiveBlocks /\ (Acyclic' <=> Acyclic) /\ IteratedFrontier' = IteratedFrontier /\ CodeOK'
  BY <1>2, <1>4, SameCode DEF Shape, CodeOK
<1>6. Frontier(defs) \in SUBSET Codes /\ Frontier(defs) = UNION {DomFrontier(succ, c) : c \in defs}
  BY DEF Frontier, DomFrontier
<1>7. todo' \subseteq IteratedFrontier /\ \A d \in defs : DomFrontier(succ, d) \subseteq todo'
  BY <1>1, <1>2, <1>6, FrontierFacts DEF Shape
<1>8. Shape'
  BY <1>1, <1>2, <1>4, <1>5, <1>6 DEF Shape, result, execution
<1>9. ASSUME Acyclic PROVE Reached(succ, defs) \intersect LiveBlocks \subseteq uses_var
  <2>1. Closed(succ, visited) /\ defs \subseteq visited /\ visited \in SUBSET Codes
    BY <1>1, <1>2, WalkEnds DEF SearchInv, Shape
  <2>2. Reached(succ, defs) \subseteq visited
    BY <1>3, <2>1, ReachedFacts
  <2>3. visited \intersect LiveBlocks \subseteq uses_var
    BY <1>1, <1>2, <1>9 DEF SearchInv, Answers
  <2> QED BY <2>2, <2>3
<1>10. InsertInv'
  BY <1>1, <1>2, <1>4, <1>5, <1>7, <1>9 DEF InsertInv
<1> QED BY <1>1, <1>8, <1>10 DEF SInv, SearchInv, PlacedInv

LEMMA CreateStep ==
  ASSUME SInv, NEW c \in Codes, create_combinator(c)
  PROVE  SInv'
<1>1. /\ pc = "insert" /\ c \in todo \ visited /\ c \in uses_var /\ pc' = pc
      /\ visited' = visited \union {c} /\ phis' = phis \union {c}
      /\ todo' = todo \union DomFrontier(succ, c)
      /\ UNCHANGED <<uses_var, calls, bind, dest, read>> /\ UNCHANGED code /\ UNCHANGED execution
  BY DEF create_combinator
<1>2. Shape /\ InsertInv
  BY DEF SInv
<1>3. UNCHANGED <<succ, defs, uses>>
  BY <1>1 DEF code
<1>4. LiveBlocks' = LiveBlocks /\ (Acyclic' <=> Acyclic) /\ IteratedFrontier' = IteratedFrontier
  BY <1>3, SameCode
<1>5. c \in IteratedFrontier /\ DomFrontier(succ, c) \subseteq IteratedFrontier
  BY <1>1, <1>2, FrontierFacts DEF InsertInv, Shape
<1>6. CodeOK'
  BY <1>1, <1>2, <1>3, <1>4, <1>5 DEF Shape, CodeOK
<1>7. todo' \in SUBSET Codes
  BY <1>1, <1>2 DEF Shape, DomFrontier
<1>8. Shape'
  BY <1>1, <1>2, <1>3, <1>6, <1>7 DEF Shape, execution
<1>9. InsertInv'
  BY <1>1, <1>2, <1>3, <1>4, <1>5 DEF InsertInv
<1> QED BY <1>1, <1>8, <1>9 DEF SInv, SearchInv, PlacedInv

\* When no block of the frontier is left that uses x, all that need a phi have one, as
\* long as the search for uses has found what there is.
LEMMA AllPlaced ==
  ASSUME SInv, pc = "insert", todo \intersect uses_var \subseteq visited, Acyclic
  PROVE  Placed
<1>1. Shape /\ InsertInv /\ CodeOK
  BY DEF SInv, Shape
<1>2. succ \in FlowGraphs /\ succ \in [Codes -> SUBSET Codes] /\ defs \in SUBSET Codes
  BY <1>1, GraphFacts DEF CodeOK
<1>3. Reached(succ, defs) \in SUBSET Codes /\ defs \subseteq Reached(succ, defs)
  BY <1>2, ReachedFacts
<1> DEFINE T == {c \in Reached(succ, defs) : c \in LiveBlocks => c \in visited}
<1>4. ASSUME NEW d \in defs \union T, NEW c \in DomFrontier(succ, d) PROVE c \in T
  <2>1. PICK p \in Codes : c \in succ[p] /\ Dominates(succ, d, p)
    BY DEF DomFrontier, Predecessors
  <2>2. d \in Codes /\ c \in Codes /\ d \in Reached(succ, defs)
    BY <1>3 DEF DomFrontier
  <2>3. p \in Reached(succ, {d})
    BY <1>2, <2>1, <2>2, DominatesReaches
  <2>4. c \in Reached(succ, {d})
    <3>1. Closed(succ, Reached(succ, {d}))
      BY <1>2, <2>2, ReachedFacts
    <3> QED BY <2>1, <2>3, <3>1 DEF Closed
  <2>5. c \in Reached(succ, defs)
    <3>1. {d} \in SUBSET Codes /\ {d} \subseteq Reached(succ, defs)
      BY <2>2
    <3>2. Reached(succ, {d}) \subseteq Reached(succ, defs)
      BY <1>2, <3>1, ReachedOnward
    <3> QED BY <2>4, <3>2
  <2>6. ASSUME c \in LiveBlocks PROVE c \in visited
    <3>1. Reached(succ, {c}) \subseteq Reached(succ, {d})
      <4>1. {c} \in SUBSET Codes /\ {d} \in SUBSET Codes /\ {c} \subseteq Reached(succ, {d})
        BY <2>2, <2>4
      <4> QED BY <1>2, <4>1, ReachedOnward
    <3>2. d \in LiveBlocks
      BY <2>2, <2>6, <3>1 DEF LiveBlocks
    <3>3. d \in defs \union visited
      BY <3>2
    <3>4. c \in todo
      BY <1>1, <3>3 DEF InsertInv
    <3>5. c \in uses_var
      BY <1>1, <2>5, <2>6 DEF InsertInv
    <3> QED BY <3>4, <3>5
  <2> QED BY <2>5, <2>6
<1>5. T \in SUBSET Codes /\ \A c \in T : c \in LiveBlocks => c \in visited
  BY <1>3
<1>6. \A d \in defs \union T : DomFrontier(succ, d) \subseteq T
  BY <1>4
<1> HIDE DEF T
<1>7. IteratedFrontier \subseteq T
  BY <1>1, <1>5, <1>6, FrontierFacts
<1>8. NeedsPhi = {c \in IteratedFrontier : c \in LiveBlocks}
  BY <1>1, FrontierFacts DEF NeedsPhi, LiveBlocks
<1> QED BY <1>1, <1>5, <1>7, <1>8 DEF Placed, InsertInv
-----------------------------------------------------------------------------
(* Renaming.                                                                *)

\* v is what x is called in front of block c.
Named(c, v) ==
  \/ c = Entry /\ v = Orig
  \/ c \in phis /\ v \in SsaVars
  \/ \E p \in Codes, d \in Origins : c \in succ[p] /\ IsNearest(d, p) /\ v = NameOf(d)

\* And what it is called behind it.
OutName(c, v) == IF c \in defs THEN Def(c) ELSE IF c \in phis THEN Phi(c) ELSE v

\* What a read in block c may be renamed to.
ReadOK(c, r) == IF c \in phis THEN r = Phi(c) ELSE Named(c, r)

\* The blocks that have been renamed agree with the last block on the way to them that
\* gives x a name: what they read, what they pass to the phis that follow, and what
\* the search goes on with.
Names ==
  /\ \A c \in visited \intersect LiveBlocks :
       \E d : IsNearest(d, c) /\ \A s \in succ[c] \intersect phis : bind[s][c] = NameOf(d)
  /\ \A c \in visited \intersect uses : ReadOK(c, read[c])
  /\ \A k \in 1 .. Len(calls) : calls[k].block \in LiveBlocks =>
       \E d : IsNearest(d, calls[k].block) /\ calls[k].to = NameOf(d)

Renaming == pc \in {"rename", "run"}

Bound == \A c \in visited : \A s \in succ[c] \intersect phis : bind[s][c] \in SsaVars

RenameInv ==
  /\ pc = "rename" => (visited = {} => calls = <<>>) /\ (visited # {} => Entry \in visited)
  /\ pc = "run" => visited = Codes
  /\ Renaming => Bound
  /\ Renaming /\ Placed => Names

\* The names and what they depend on do not change.
LEMMA SameNames ==
  ASSUME UNCHANGED <<succ, defs, uses, phis>>
  PROVE  /\ LiveBlocks' = LiveBlocks /\ (CodeOK' <=> CodeOK) /\ (Placed' <=> Placed) /\ (Acyclic' <=> Acyclic)
         /\ \A d, c : (IsNearest(d, c)' <=> IsNearest(d, c))
         /\ \A d : NameOf(d)' = NameOf(d)
         /\ \A c, r : (ReadOK(c, r)' <=> ReadOK(c, r))
<1>1. /\ LiveBlocks' = LiveBlocks /\ IteratedFrontier' = IteratedFrontier /\ NeedsPhi' = NeedsPhi
      /\ (Acyclic' <=> Acyclic)
  BY SameCode
<1>2. Origins' = Origins
  BY DEF Origins
<1>3. \A d, c : (IsNearest(d, c)' <=> IsNearest(d, c))
  BY <1>2 DEF IsNearest
<1>4. \A d : NameOf(d)' = NameOf(d)
  BY DEF NameOf
<1>5. \A c, r : (ReadOK(c, r)' <=> ReadOK(c, r))
  BY <1>2, <1>3, <1>4 DEF ReadOK, Named
<1> QED BY <1>1, <1>3, <1>4, <1>5 DEF CodeOK, Placed

\* Behind a block from which x may be read it is called after the nearest block.
LEMMA OutNamed ==
  ASSUME CodeOK, Placed, NEW c \in LiveBlocks, NEW v, Named(c, v)
  PROVE  \E d : IsNearest(d, c) /\ OutName(c, v) = NameOf(d)
<1>1. CASE c \in defs \/ c \in phis
  <2>1. c \in Origins /\ OutName(c, v) = NameOf(c)
    BY <1>1 DEF Origins, OutName, NameOf
  <2> QED BY <2>1, NearestItself
<1>2. CASE c \notin defs /\ c = Entry
  <2>1. v = Orig
    <3>1. \A p \in Codes : c \notin succ[p]
      BY <1>2, GraphFacts DEF CodeOK
    <3> QED BY <1>2, <3>1, EntryHasNoPhi DEF Named
  <2>2. c \in Origins /\ OutName(c, v) = NameOf(c)
    BY <1>2, <2>1, EntryHasNoPhi DEF Origins, OutName, NameOf
  <2> QED BY <2>2, NearestItself
<1>3. CASE c \notin defs /\ c \notin phis /\ c # Entry
  <2>1. PICK p \in Codes, d \in Origins : c \in succ[p] /\ IsNearest(d, p) /\ v = NameOf(d)
    BY <1>3 DEF Named
  <2>2. c \notin Origins /\ OutName(c, v) = v
    BY <1>3 DEF Origins, OutName
  <2>3. IsNearest(d, c)
    BY <2>1, <2>2, NearestStays
  <2> QED BY <2>1, <2>2, <2>3
<1> QED BY <1>1, <1>2, <1>3

\* Block c is renamed, where x is called v in front of it.
LEMMA RenameParts ==
  ASSUME Shape, NEW c \in Codes, c \notin visited, NEW v \in SsaVars, Rename(c, v)
  PROVE  /\ bind' \in [Codes -> [Codes -> SsaVars \union {Undef}]]
         /\ dest' \in [Codes -> SsaVars] /\ read' \in [Codes -> SsaVars]
         /\ visited' = visited \union {c}
         /\ OutName(c, v) \in SsaVars
         /\ \A s, b \in Codes :
              bind'[s][b] = IF s \in succ[c] \intersect phis /\ b = c THEN OutName(c, v) ELSE bind[s][b]
         /\ \A b \in Codes : b # c => read'[b] = read[b]
         /\ c \in uses => read'[c] = IF c \in phis THEN Phi(c) ELSE v
<1> DEFINE v1 == IF c \in phis THEN Phi(c) ELSE v
           v2 == OutName(c, v)
<1>1. /\ read' = (IF c \in uses THEN [read EXCEPT ![c] = v1] ELSE read)
      /\ dest' = (IF c \in defs THEN [dest EXCEPT ![c] = v2] ELSE dest)
      /\ bind' = [s \in Codes |-> IF s \in succ[c] \intersect phis THEN [bind[s] EXCEPT ![c] = v2] ELSE bind[s]]
      /\ visited' = visited \union {c}
  BY DEF Rename, OutName
<1>2. /\ bind \in [Codes -> [Codes -> SsaVars \union {Undef}]]
      /\ dest \in [Codes -> SsaVars] /\ read \in [Codes -> SsaVars]
  BY DEF Shape
<1>3. v1 \in SsaVars /\ v2 \in SsaVars
  BY NamesDiffer DEF OutName
<1> HIDE DEF v1, v2
<1>4. bind' \in [Codes -> [Codes -> SsaVars \union {Undef}]]
  BY <1>1, <1>2, <1>3
<1>5. dest' \in [Codes -> SsaVars] /\ read' \in [Codes -> SsaVars]
  BY <1>1, <1>2, <1>3
<1>6. \A s, b \in Codes :
        bind'[s][b] = IF s \in succ[c] \intersect phis /\ b = c THEN v2 ELSE bind[s][b]
  BY <1>1, <1>2
<1>7. (\A b \in Codes : b # c => read'[b] = read[b]) /\ (c \in uses => read'[c] = v1)
  BY <1>1, <1>2
<1> QED BY <1>1, <1>3, <1>4, <1>5, <1>6, <1>7 DEF v1, v2

\* All paths from a block that is renamed into phis are bound.
LEMMA RenameBound ==
  ASSUME Shape, NEW c \in Codes, c \notin visited, NEW v \in SsaVars, Rename(c, v),
         UNCHANGED <<succ, defs, uses, phis>>, Bound
  PROVE  Bound'
<1>1. succ \in [Codes -> SUBSET Codes] /\ visited \in SUBSET Codes
  BY GraphFacts DEF Shape, CodeOK
<1>2. \A b \in Codes : succ[b] \subseteq Codes
  BY <1>1
<1>3. /\ visited' = visited \union {c} /\ OutName(c, v) \in SsaVars
      /\ \A s, b \in Codes :
           bind'[s][b] = IF s \in succ[c] \intersect phis /\ b = c THEN OutName(c, v) ELSE bind[s][b]
  BY RenameParts
<1> QED BY <1>1, <1>2, <1>3 DEF Bound

\* And it agrees with the nearest block that gives x a name.
LEMMA RenameNames ==
  ASSUME Shape, NEW c \in Codes, c \notin visited, NEW v \in SsaVars, Rename(c, v),
         UNCHANGED <<succ, defs, uses, phis>>,
         Placed, Names, c \in LiveBlocks => Named(c, v)
  PROVE  /\ \A b \in visited' \intersect LiveBlocks :
              \E d : IsNearest(d, b) /\ \A s \in succ[b] \intersect phis : bind'[s][b] = NameOf(d)
         /\ \A b \in visited' \intersect uses : ReadOK(b, read'[b])
<1>1. /\ CodeOK /\ visited \in SUBSET Codes /\ uses \in SUBSET Codes /\ uses \subseteq LiveBlocks
  BY LiveFacts DEF Shape, CodeOK
<1>2. \A b \in Codes : succ[b] \subseteq Codes
  BY <1>1, GraphFacts DEF CodeOK
<1>3. /\ visited' = visited \union {c}
      /\ \A s, b \in Codes :
           bind'[s][b] = IF s \in succ[c] \intersect phis /\ b = c THEN OutName(c, v) ELSE bind[s][b]
      /\ \A b \in Codes : b # c => read'[b] = read[b]
      /\ c \in uses => read'[c] = IF c \in phis THEN Phi(c) ELSE v
  BY RenameParts
<1>4. ASSUME NEW b \in visited' \intersect LiveBlocks
      PROVE  \E d : IsNearest(d, b) /\ \A s \in succ[b] \intersect phis : bind'[s][b] = NameOf(d)
  <2>1. CASE b = c
    <3>1. PICK d : IsNearest(d, c) /\ OutName(c, v) = NameOf(d)
      BY <1>1, <1>4, <2>1, OutNamed
    <3> QED BY <1>2, <1>3, <2>1, <3>1
  <2>2. CASE b # c
    <3>1. b \in visited /\ b \in Codes
      BY <1>1, <1>3, <1>4, <2>2
    <3>2. PICK d : IsNearest(d, b) /\ \A s \in succ[b] \intersect phis : bind[s][b] = NameOf(d)
      BY <1>4, <3>1 DEF Names
    <3> QED BY <1>2, <1>3, <2>2, <3>1, <3>2
  <2> QED BY <2>1, <2>2
<1>5. ASSUME NEW b \in visited' \intersect uses PROVE ReadOK(b, read'[b])
  <2>1. CASE b = c
    BY <1>1, <1>3, <1>5, <2>1 DEF ReadOK
  <2>2. CASE b # c
    BY <1>1, <1>3, <1>5, <2>2 DEF Names
  <2> QED BY <2>1, <2>2
<1> QED BY <1>4, <1>5

LEMMA StartRenameStep ==
  ASSUME SInv, StartRename
  PROVE  SInv' /\ RenameInv'
<1>1. /\ pc = "insert" /\ todo \intersect uses_var \subseteq visited /\ pc' = "rename"
      /\ visited' = {} /\ calls' = <<>> /\ todo' = {} /\ uses_var' = uses_var
      /\ UNCHANGED code /\ UNCHANGED result /\ UNCHANGED execution
  BY DEF StartRename
<1>2. Shape
  BY DEF SInv
<1>3. UNCHANGED <<succ, defs, uses, phis>>
  BY <1>1 DEF code, result
<1>4. (CodeOK' <=> CodeOK) /\ (Placed' <=> Placed) /\ (Acyclic' <=> Acyclic)
  BY <1>3, SameNames
<1>5. Acyclic => Placed
  BY <1>1, AllPlaced
<1>6. Len(calls') = 0
  BY <1>1
<1>7. Walk(succ', calls', visited')
  BY <1>1, <1>6 DEF Walk
<1>8. Shape'
  BY <1>1, <1>2, <1>3, <1>4, <1>7 DEF Shape, result, execution
<1>9. RenameInv'
  <2>1. Bound' /\ Names'
    BY <1>1, <1>6 DEF Bound, Names
  <2> QED BY <1>1, <2>1 DEF RenameInv
<1> QED BY <1>1, <1>4, <1>5, <1>8, <1>9 DEF SInv, SearchInv, InsertInv, PlacedInv

\* A block is entered: the calls that are under way go on as they were, apart from the
\* successor that the last of them has taken, and that of the block is pushed.
LEMMA RenameStep ==
  ASSUME SInv, RenameInv, pc = "rename", pc' = "rename", NEW c \in Codes, c \notin visited,
         NEW v \in SsaVars, Rename(c, v), UNCHANGED <<succ, defs, uses, phis, uses_var, todo, at, env>>,
         Placed /\ c \in LiveBlocks => Named(c, v),
         visited = {} => c = Entry,
         NEW n \in Nat, Len(calls) = n, Len(calls') = n + 1, calls' \in Seq(NameFrames),
         TopWithout(calls, calls', n, c), \A k \in 1 .. n : calls'[k].to = calls[k].to,
         calls'[n + 1] = [block |-> c, left |-> succ[c], to |-> OutName(c, v)]
  PROVE  SInv' /\ RenameInv'
<1>1. Shape /\ PlacedInv
  BY DEF SInv
<1>2. (CodeOK' <=> CodeOK) /\ (Placed' <=> Placed) /\ (Acyclic' <=> Acyclic) /\ LiveBlocks' = LiveBlocks
  BY SameNames
<1>3. /\ bind' \in [Codes -> [Codes -> SsaVars \union {Undef}]]
      /\ dest' \in [Codes -> SsaVars] /\ read' \in [Codes -> SsaVars]
      /\ visited' = visited \union {c}
  BY <1>1, RenameParts
<1>4. Walk(succ, calls', visited \union {c})
  <2>1. Walk(succ, calls, visited)
    BY <1>1 DEF Shape
  <2>2. calls'[n + 1].block = c /\ calls'[n + 1].left = succ[c]
    OBVIOUS
  <2> QED BY <2>1, <2>2, WalkEnters
<1>5. Shape'
  BY <1>1, <1>2, <1>3, <1>4 DEF Shape
<1>6. Bound'
  BY <1>1, RenameBound DEF RenameInv, Renaming
<1>7. ASSUME Placed PROVE Names'
  <2>1. Names
    BY <1>7 DEF RenameInv, Renaming
  <2>2. c \in LiveBlocks => Named(c, v)
    BY <1>7
  <2>3. /\ \A b \in visited' \intersect LiveBlocks :
             \E d : IsNearest(d, b) /\ \A s \in succ[b] \intersect phis : bind'[s][b] = NameOf(d)
        /\ \A b \in visited' \intersect uses : ReadOK(b, read'[b])
    BY <1>1, <1>7, <2>1, <2>2, RenameNames
  <2>4. \A k \in 1 .. n + 1 : calls'[k].block \in LiveBlocks =>
          \E d : IsNearest(d, calls'[k].block) /\ calls'[k].to = NameOf(d)
    <3> SUFFICES ASSUME NEW k \in 1 .. n + 1, calls'[k].block \in LiveBlocks
                 PROVE  \E d : IsNearest(d, calls'[k].block) /\ calls'[k].to = NameOf(d)
      OBVIOUS
    <3>1. CASE k = n + 1
      <4>1. calls'[k].block = c /\ calls'[k].to = OutName(c, v)
        BY <3>1
      <4> QED BY <1>1, <1>7, <2>2, <4>1, OutNamed DEF Shape
    <3>2. CASE k # n + 1
      <4>1. k \in 1 .. n
        BY <3>2
      <4>2. calls'[k].block = calls[k].block /\ calls'[k].to = calls[k].to
        BY <4>1 DEF TopWithout
      <4> QED BY <2>1, <4>1, <4>2 DEF Names
    <3> QED BY <3>1, <3>2
  <2>5. /\ \A d, b : (IsNearest(d, b)' <=> IsNearest(d, b))
        /\ \A d : NameOf(d)' = NameOf(d)
        /\ \A b, r : (ReadOK(b, r)' <=> ReadOK(b, r))
    BY SameNames
  <2>6. \A b \in visited' \intersect LiveBlocks :
             \E d : IsNearest(d, b)' /\ \A s \in succ[b] \intersect phis : bind'[s][b] = NameOf(d)'
    BY <2>3, <2>5
  <2>7. \A b \in visited' \intersect uses : ReadOK(b, read[b])'
    BY <2>3, <2>5
  <2>8. \A k \in 1 .. Len(calls') : calls'[k].block \in LiveBlocks =>
          \E d : IsNearest(d, calls[k].block)' /\ calls'[k].to = NameOf(d)'
    BY <2>4, <2>5
  <2> QED BY <1>2, <2>6, <2>7, <2>8 DEF Names
<1>8. RenameInv'
  BY <1>2, <1>3, <1>6, <1>7 DEF RenameInv
<1> QED BY <1>1, <1>2, <1>5, <1>8 DEF SInv, SearchInv, InsertInv, PlacedInv

LEMMA RenameEntryStep ==
  ASSUME SInv, RenameInv, RenameEntry
  PROVE  SInv' /\ RenameInv'
<1> DEFINE f == [block |-> Entry, left |-> succ[Entry], to |-> OutName(Entry, Orig)]
<1>1. /\ pc = "rename" /\ pc' = "rename" /\ visited = {} /\ Rename(Entry, Orig)
      /\ calls' = <<[block |-> Entry, left |-> succ[Entry], to |-> IF Entry \in defs THEN Def(Entry) ELSE Orig]>>
      /\ UNCHANGED code /\ UNCHANGED <<uses_var, todo, phis>> /\ UNCHANGED execution
  BY DEF RenameEntry
<1>2. Shape /\ CodeOK /\ Entry \in Codes
  BY FlowGraphAssumption DEF SInv, Shape
<1>3. UNCHANGED <<succ, defs, uses, phis, uses_var, todo, at, env>>
  BY <1>1 DEF code, execution
<1>4. OutName(Entry, Orig) = IF Entry \in defs THEN Def(Entry) ELSE Orig
  BY <1>2, EntryHasNoPhi DEF OutName
<1>5. calls' = <<f>> /\ calls = <<>>
  BY <1>1, <1>4 DEF RenameInv
<1>6. f \in NameFrames
  <2>1. OutName(Entry, Orig) \in SsaVars
    BY <1>2, <1>4, NamesDiffer
  <2>2. succ[Entry] \in SUBSET Codes
    BY <1>2, GraphFacts DEF CodeOK
  <2> QED BY <1>2, <2>1, <2>2 DEF NameFrames
<1> HIDE DEF f
<1>7. PICK n \in Nat : n = 0
  OBVIOUS
<1>8. Len(calls) = n /\ Len(calls') = n + 1 /\ calls'[n + 1] = f /\ calls' \in Seq(NameFrames)
  BY <1>5, <1>6, <1>7
<1>9. TopWithout(calls, calls', n, Entry) /\ \A k \in 1 .. n : calls'[k].to = calls[k].to
  BY <1>7 DEF TopWithout
<1>10. Orig \in SsaVars /\ Named(Entry, Orig)
  BY NamesDiffer DEF Named
<1>11. calls'[n + 1] = [block |-> Entry, left |-> succ[Entry], to |-> OutName(Entry, Orig)]
  BY <1>8 DEF f
<1>12. Entry \notin visited
  BY <1>1
<1> QED BY <1>1, <1>2, <1>3, <1>8, <1>9, <1>10, <1>11, <1>12, RenameStep

LEMMA RenameSuccStep ==
  ASSUME SInv, RenameInv, NEW s \in Codes, RenameSucc(s)
  PROVE  SInv' /\ RenameInv'
<1> DEFINE here == [Top EXCEPT !.left = @ \ {s}]
           r == Append(Pop, here)
           f == [block |-> s, left |-> succ[s], to |-> OutName(s, Top.to)]
<1>1. /\ pc = "rename" /\ pc' = "rename" /\ calls # <<>> /\ s \in Top.left
      /\ s \in visited => calls' = r /\ UNCHANGED <<visited, bind, dest, read>>
      /\ s \notin visited => Rename(s, Top.to) /\ calls' = Append(r, f)
      /\ UNCHANGED code /\ UNCHANGED <<uses_var, todo, phis>> /\ UNCHANGED execution
  BY DEF RenameSucc, OutName
<1>2. Shape /\ CodeOK /\ calls \in Seq(NameFrames) /\ Walk(succ, calls, visited) /\ PlacedInv
  BY <1>1 DEF SInv, Shape
<1>3. UNCHANGED <<succ, defs, uses, phis, uses_var, todo, at, env>>
  BY <1>1 DEF code, execution
<1>4. PICK n \in Nat \ {0} : n = Len(calls)
  BY <1>1, <1>2, CallsPopped
<1>5. Top = calls[n] /\ Top \in NameFrames /\ n \in 1 .. n
  BY <1>1, <1>2, <1>4, CallsPopped DEF Top
<1>6. /\ here \in NameFrames /\ here.block = Top.block /\ here.left = Top.left \ {s} /\ here.to = Top.to
      /\ Top.to \in SsaVars
  BY <1>5 DEF NameFrames
<1> HIDE DEF here
<1>7. r \in Seq(NameFrames) /\ Len(r) = n /\ \A k \in 1 .. n : r[k] = IF k = n THEN here ELSE calls[k]
  BY <1>1, <1>2, <1>4, <1>6, CallsReplaced DEF Pop
<1> HIDE DEF r
<1>8. /\ \A k \in 1 .. n : r[k].block = calls[k].block /\ r[k].to = calls[k].to
      /\ TopWithout(calls, r, n, s)
  BY <1>5, <1>6, <1>7 DEF TopWithout
<1>9. Top.block \in visited /\ Top.block \in Codes /\ s \in succ[Top.block]
  <2>1. calls[n].block \in visited /\ calls[n].left \subseteq succ[calls[n].block]
    BY <1>2, <1>4, <1>5 DEF Walk
  <2> QED BY <1>1, <1>2, <1>5, <2>1 DEF Shape
<1>10. CASE s \in visited
  <2>1. calls' = r /\ UNCHANGED <<visited, bind, dest, read>>
    BY <1>1, <1>10
  <2>2. (CodeOK' <=> CodeOK) /\ (Placed' <=> Placed) /\ (Acyclic' <=> Acyclic) /\ LiveBlocks' = LiveBlocks
    BY <1>3, SameNames
  <2>3. Walk(succ, r, visited)
    BY <1>2, <1>4, <1>7, <1>8, <1>10, WalkSkips
  <2>4. Shape'
    BY <1>1, <1>2, <1>3, <1>7, <2>1, <2>2, <2>3 DEF Shape
  <2>5. Bound'
    BY <1>1, <1>3, <2>1 DEF RenameInv, Renaming, Bound
  <2>6. ASSUME Placed PROVE Names'
    <3>1. Names
      BY <1>1, <2>6 DEF RenameInv, Renaming
    <3>2. /\ \A d, b : (IsNearest(d, b)' <=> IsNearest(d, b))
          /\ \A d : NameOf(d)' = NameOf(d)
          /\ \A b, v : (ReadOK(b, v)' <=> ReadOK(b, v))
      BY <1>3, SameNames
    <3>3. \A b \in visited' \intersect LiveBlocks :
             \E d : IsNearest(d, b)' /\ \A t \in succ[b] \intersect phis : bind'[t][b] = NameOf(d)'
      BY <2>1, <3>1, <3>2 DEF Names
    <3>4. \A b \in visited' \intersect uses : ReadOK(b, read[b])'
      BY <2>1, <3>1, <3>2 DEF Names
    <3>5. \A k \in 1 .. n : calls[k].block \in LiveBlocks =>
            \E d : IsNearest(d, calls[k].block) /\ calls[k].to = NameOf(d)
      BY <1>4, <3>1 DEF Names
    <3>6. \A k \in 1 .. n : r[k].block \in LiveBlocks =>
            \E d : IsNearest(d, r[k].block) /\ r[k].to = NameOf(d)
      BY <1>8, <3>5
    <3>7. \A k \in 1 .. Len(calls') : calls'[k].block \in LiveBlocks =>
            \E d : IsNearest(d, calls[k].block)' /\ calls'[k].to = NameOf(d)'
      BY <1>7, <2>1, <3>2, <3>6
    <3> QED BY <1>3, <2>2, <3>3, <3>4, <3>7 DEF Names
  <2>7. RenameInv'
    BY <1>1, <1>10, <2>1, <2>2, <2>5, <2>6 DEF RenameInv
  <2> QED BY <1>1, <1>2, <2>2, <2>4, <2>7 DEF SInv, SearchInv, InsertInv, PlacedInv
<1>11. CASE s \notin visited
  <2>1. Rename(s, Top.to) /\ calls' = Append(r, f) /\ visited # {}
    BY <1>1, <1>9, <1>11
  <2>2. f \in NameFrames
    <3>1. OutName(s, Top.to) \in SsaVars
      BY <1>6, NamesDiffer DEF OutName
    <3>2. succ[s] \in SUBSET Codes
      BY <1>2, GraphFacts DEF CodeOK
    <3> QED BY <3>1, <3>2 DEF NameFrames
  <2>3. ASSUME Placed, s \in LiveBlocks PROVE Named(s, Top.to)
    <3>1. Top.block \in LiveBlocks
      BY <1>2, <1>9, <2>3, LiveFacts
    <3>2. PICK d : IsNearest(d, Top.block) /\ Top.to = NameOf(d)
      BY <1>1, <1>4, <1>5, <2>3, <3>1 DEF RenameInv, Renaming, Names
    <3> QED BY <1>9, <3>2 DEF Named, IsNearest
  <2> DEFINE q == calls'
  <2>4. q \in Seq(NameFrames) /\ Len(q) = n + 1 /\ \A k \in 1 .. n + 1 : q[k] = IF k = n + 1 THEN f ELSE r[k]
    <3> HIDE DEF f
    <3> QED BY <1>7, <2>1, <2>2, CallsPushed
  <2>5. \A k \in 1 .. n : q[k] = r[k]
    BY <2>4
  <2>6. q[n + 1] = f
    BY <2>4
  <2>7. TopWithout(calls, q, n, s) /\ \A k \in 1 .. n : q[k].to = calls[k].to
    BY <1>8, <2>5 DEF TopWithout
  <2>8. n \in Nat /\ Len(calls) = n
    BY <1>4
  <2> HIDE DEF f
  <2>9. q[n + 1] = [block |-> s, left |-> succ[s], to |-> OutName(s, Top.to)]
    BY <2>6 DEF f
  <2> DEFINE v == Top.to
  <2>10. v \in SsaVars /\ Rename(s, v) /\ (Placed /\ s \in LiveBlocks => Named(s, v))
    BY <1>6, <2>1, <2>3
  <2> QED BY <1>1, <1>3, <1>11, <2>1, <2>4, <2>7, <2>8, <2>9, <2>10, RenameStep
<1> QED BY <1>10, <1>11

LEMMA RenameReturnStep ==
  ASSUME SInv, RenameInv, RenameReturn
  PROVE  SInv' /\ RenameInv'
<1>1. /\ pc = "rename" /\ pc' = "rename" /\ calls # <<>> /\ Top.left = {} /\ calls' = Pop
      /\ UNCHANGED code /\ UNCHANGED <<visited, uses_var, todo>> /\ UNCHANGED result /\ UNCHANGED execution
  BY DEF RenameReturn
<1>2. Shape /\ CodeOK /\ calls \in Seq(NameFrames) /\ Walk(succ, calls, visited) /\ PlacedInv
  BY <1>1 DEF SInv, Shape
<1>3. UNCHANGED <<succ, defs, uses, phis>>
  BY <1>1 DEF code, result
<1>4. PICK n \in Nat \ {0} : n = Len(calls)
  BY <1>1, <1>2, CallsPopped
<1> DEFINE q == calls'
<1>5. q \in Seq(NameFrames) /\ Len(q) = n - 1 /\ \A k \in 1 .. n - 1 : q[k] = calls[k]
  BY <1>1, <1>2, <1>4, CallsPopped DEF Pop
<1>6. (CodeOK' <=> CodeOK) /\ (Placed' <=> Placed) /\ (Acyclic' <=> Acyclic) /\ LiveBlocks' = LiveBlocks
  BY <1>3, SameNames
<1>7. Walk(succ, q, visited)
  <2>1. calls[n].left = {}
    BY <1>1, <1>4 DEF Top
  <2> HIDE DEF q
  <2> QED BY <1>2, <1>4, <1>5, <2>1, WalkReturns
<1>8. Shape'
  BY <1>1, <1>2, <1>3, <1>5, <1>6, <1>7 DEF Shape, result, execution
<1>9. Bound'
  BY <1>1, <1>3 DEF RenameInv, Renaming, Bound, result
<1>10. ASSUME Placed PROVE Names'
  <2>1. Names
    BY <1>1, <1>10 DEF RenameInv, Renaming
  <2>2. /\ \A d, b : (IsNearest(d, b)' <=> IsNearest(d, b))
        /\ \A d : NameOf(d)' = NameOf(d)
        /\ \A b, v : (ReadOK(b, v)' <=> ReadOK(b, v))
    BY <1>3, SameNames
  <2>3. UNCHANGED <<visited, bind, read>>
    BY <1>1 DEF result
  <2>4. \A b \in visited' \intersect LiveBlocks :
           \E d : IsNearest(d, b)' /\ \A t \in succ[b] \intersect phis : bind'[t][b] = NameOf(d)'
    BY <2>1, <2>2, <2>3 DEF Names
  <2>5. \A b \in visited' \intersect uses : ReadOK(b, read[b])'
    BY <2>1, <2>2, <2>3 DEF Names
  <2>6. \A k \in 1 .. n - 1 : k \in 1 .. n
    OBVIOUS
  <2>7. \A k \in 1 .. n - 1 : q[k].block \in LiveBlocks =>
          \E d : IsNearest(d, q[k].block) /\ q[k].to = NameOf(d)
    BY <1>4, <1>5, <2>1, <2>6 DEF Names
  <2>8. \A k \in 1 .. Len(calls') : calls'[k].block \in LiveBlocks =>
          \E d : IsNearest(d, calls[k].block)' /\ calls'[k].to = NameOf(d)'
    BY <1>5, <2>2, <2>7
  <2> QED BY <1>3, <1>6, <2>4, <2>5, <2>8 DEF Names
<1>11. RenameInv'
  <2>1. visited # {}
    BY <1>1 DEF RenameInv
  <2> QED BY <1>1, <1>6, <1>9, <1>10, <2>1 DEF RenameInv
<1> QED BY <1>1, <1>2, <1>6, <1>8, <1>11 DEF SInv, SearchInv, InsertInv, PlacedInv

\* Of the search and what it has found, the execution changes nothing.
LEMMA SameNaming ==
  ASSUME UNCHANGED code, UNCHANGED search, UNCHANGED result
  PROVE  /\ UNCHANGED <<succ, defs, uses, phis, visited, uses_var, todo, calls, bind, dest, read>>
         /\ LiveBlocks' = LiveBlocks /\ (CodeOK' <=> CodeOK) /\ (Placed' <=> Placed) /\ (Acyclic' <=> Acyclic)
         /\ (Names' <=> Names) /\ (Bound' <=> Bound)
<1>1. UNCHANGED <<succ, defs, uses, phis, visited, uses_var, todo, calls, bind, dest, read>>
  BY DEF code, search, result
<1>2. /\ LiveBlocks' = LiveBlocks /\ (CodeOK' <=> CodeOK) /\ (Placed' <=> Placed) /\ (Acyclic' <=> Acyclic)
      /\ \A d, c : (IsNearest(d, c)' <=> IsNearest(d, c))
      /\ \A d : NameOf(d)' = NameOf(d)
      /\ \A c, r : (ReadOK(c, r)' <=> ReadOK(c, r))
  BY <1>1, SameNames
<1>3. Bound' <=> Bound
  BY <1>1 DEF Bound
<1>4. (\A c \in visited' \intersect LiveBlocks' :
         \E d : IsNearest(d, c)' /\ \A s \in succ'[c] \intersect phis' : bind'[s][c] = NameOf(d)')
        <=> \A c \in visited \intersect LiveBlocks :
              \E d : IsNearest(d, c) /\ \A s \in succ[c] \intersect phis : bind[s][c] = NameOf(d)
  BY <1>1, <1>2
<1>5. (\A c \in visited' \intersect uses' : ReadOK(c, read[c])')
        <=> \A c \in visited \intersect uses : ReadOK(c, read[c])
  BY <1>1, <1>2
<1>6. (\A k \in 1 .. Len(calls') : calls'[k].block \in LiveBlocks' =>
         \E d : IsNearest(d, calls[k].block)' /\ calls'[k].to = NameOf(d)')
        <=> \A k \in 1 .. Len(calls) : calls[k].block \in LiveBlocks =>
              \E d : IsNearest(d, calls[k].block) /\ calls[k].to = NameOf(d)
  BY <1>1, <1>2
<1>7. Names' <=> Names
  BY <1>4, <1>5, <1>6 DEF Names
<1> QED BY <1>1, <1>2, <1>3, <1>7

-----------------------------------------------------------------------------
(* The execution.                                                           *)

\* The two functions have read the same, and where x may still be read, it is in the
\* variable that the nearest block has named.
Alike ==
  /\ lastRead[1] = lastRead[2]
  /\ at \in LiveBlocks => \A d : IsNearest(d, at) => value = env[NameOf(d)]

RunInv ==
  /\ pc # "run" => value = <<Entry, -1>> /\ env[Orig] = value /\ lastRead[1] = lastRead[2]
  /\ pc = "run" /\ Placed => Alike

ConvInv == SInv /\ RenameInv /\ RunInv

\* Block c runs in both functions; e is what the variables hold behind its phi.
LEMMA BlockRuns ==
  ASSUME CodeOK, Placed, UNCHANGED <<succ, defs, uses, phis>>,
         NEW c \in Codes, NEW e, e = [v \in SsaVars \union {Undef} |-> e[v]], RunBlock(c, e),
         lastRead[1] = lastRead[2],
         c \in uses => value = e[read[c]],
         c \in LiveBlocks /\ c \notin defs => \A d : IsNearest(d, c) => value = e[NameOf(d)]
  PROVE  Alike'
<1>1. /\ at' = c
      /\ lastRead' = (IF c \in uses THEN <<value, e[read[c]]>> ELSE lastRead)
      /\ value' = IF c \in defs THEN Fresh(c, e) ELSE value
      /\ env' = IF c \in defs THEN [e EXCEPT ![Def(c)] = Fresh(c, e)] ELSE e
  BY DEF RunBlock
<1>2. lastRead'[1] = lastRead'[2]
  BY <1>1
<1>3. ASSUME c \in LiveBlocks, NEW d, IsNearest(d, c) PROVE value' = env'[NameOf(d)]
  <2>1. CASE c \in defs
    <3>1. d = c /\ NameOf(d) = Def(c)
      BY <1>3, <2>1, NearestItself DEF Origins, NameOf
    <3>2. Def(c) \in SsaVars
      BY NamesDiffer
    <3> QED BY <1>1, <2>1, <3>1, <3>2
  <2>2. CASE c \notin defs
    BY <1>1, <1>3, <2>2
  <2> QED BY <2>1, <2>2
<1>4. LiveBlocks' = LiveBlocks /\ \A d : (IsNearest(d, c)' <=> IsNearest(d, c)) /\ NameOf(d)' = NameOf(d)
  BY SameNames
<1>5. \A d : (IsNearest(d, at)' <=> IsNearest(d, c)')
  BY <1>1 DEF IsNearest
<1> QED BY <1>1, <1>2, <1>3, <1>4, <1>5 DEF Alike

LEMMA RunShape ==
  ASSUME NEW c \in Codes, NEW e, e = [v \in SsaVars \union {Undef} |-> e[v]], RunBlock(c, e)
  PROVE  at' \in Codes /\ env' = [v \in SsaVars \union {Undef} |-> env'[v]]
<1>1. at' = c /\ env' = IF c \in defs THEN [e EXCEPT ![Def(c)] = Fresh(c, e)] ELSE e
  BY DEF RunBlock
<1>2. CASE c \in defs
  <2> DEFINE x == Fresh(c, e)
  <2>1. env' = [e EXCEPT ![Def(c)] = x]
    BY <1>1, <1>2
  <2> HIDE DEF x
  <2> QED BY <1>1, <2>1
<1>3. CASE c \notin defs
  BY <1>1, <1>3
<1> QED BY <1>2, <1>3

LEMMA StartRunStep ==
  ASSUME ConvInv, StartRun
  PROVE  ConvInv'
<1>1. /\ pc = "rename" /\ visited # {} /\ calls = <<>> /\ pc' = "run" /\ RunBlock(Entry, env)
      /\ UNCHANGED code /\ UNCHANGED search /\ UNCHANGED result
  BY DEF StartRun
<1>2. SInv /\ Shape /\ CodeOK /\ RenameInv /\ RunInv /\ PlacedInv /\ Entry \in Codes
  BY FlowGraphAssumption DEF ConvInv, SInv, Shape
<1>3. /\ UNCHANGED <<succ, defs, uses, phis, visited, uses_var, todo, calls, bind, dest, read>>
      /\ LiveBlocks' = LiveBlocks /\ (CodeOK' <=> CodeOK) /\ (Placed' <=> Placed) /\ (Acyclic' <=> Acyclic)
      /\ (Names' <=> Names) /\ (Bound' <=> Bound)
  BY <1>1, SameNaming
<1>4. visited = Codes
  <2>1. Walk(succ, <<>>, visited) /\ visited \in SUBSET Codes /\ Entry \in visited
    BY <1>1, <1>2 DEF Shape, RenameInv
  <2> QED BY <1>2, <2>1, WalkEnds, GraphFacts DEF CodeOK
<1>5. env = [v \in SsaVars \union {Undef} |-> env[v]]
  BY <1>2 DEF Shape
<1>6. Shape'
  BY <1>1, <1>2, <1>3, <1>5, RunShape DEF Shape
<1>7. SInv'
  BY <1>1, <1>2, <1>3, <1>6 DEF SInv, SearchInv, InsertInv, PlacedInv
<1>8. RenameInv'
  BY <1>1, <1>2, <1>3, <1>4 DEF RenameInv, Renaming
<1>9. ASSUME Placed PROVE Alike'
  <2>1. Names /\ Entry \notin phis
    BY <1>1, <1>2, <1>9, EntryHasNoPhi DEF RenameInv, Renaming
  <2>2. value = env[Orig] /\ lastRead[1] = lastRead[2]
    BY <1>1, <1>2 DEF RunInv
  <2>3. ASSUME Entry \in uses PROVE read[Entry] = Orig
    <3>1. Named(Entry, read[Entry])
      BY <1>2, <1>4, <2>1, <2>3 DEF Names, ReadOK
    <3>2. \A p \in Codes : Entry \notin succ[p]
      BY <1>2, GraphFacts DEF CodeOK
    <3> QED BY <2>1, <3>1, <3>2 DEF Named
  <2>4. ASSUME Entry \notin defs, NEW d, IsNearest(d, Entry) PROVE NameOf(d) = Orig
    <3>1. d = Entry
      BY <1>2, <2>4, NearestItself DEF Origins
    <3> QED BY <2>1, <2>4, <3>1 DEF NameOf
  <2> QED BY <1>1, <1>2, <1>3, <1>5, <1>9, <2>2, <2>3, <2>4, BlockRuns
<1>10. RunInv'
  BY <1>1, <1>3, <1>9 DEF RunInv
<1> QED BY <1>7, <1>8, <1>10 DEF ConvInv

LEMMA JumpStep ==
  ASSUME ConvInv, NEW c \in Codes, Jump(c)
  PROVE  ConvInv'
<1> DEFINE e == IF c \in phis THEN [env EXCEPT ![Phi(c)] = env[bind[c][at]]] ELSE env
<1>1. /\ pc = "run" /\ c \in succ[at] /\ RunBlock(c, e) /\ pc' = pc
      /\ UNCHANGED code /\ UNCHANGED search /\ UNCHANGED result
  BY DEF Jump
<1>2. SInv /\ Shape /\ CodeOK /\ RenameInv /\ RunInv /\ PlacedInv /\ visited = Codes /\ at \in Codes
  BY <1>1 DEF ConvInv, SInv, Shape, RenameInv
<1>3. /\ UNCHANGED <<succ, defs, uses, phis, visited, uses_var, todo, calls, bind, dest, read>>
      /\ LiveBlocks' = LiveBlocks /\ (CodeOK' <=> CodeOK) /\ (Placed' <=> Placed) /\ (Acyclic' <=> Acyclic)
      /\ (Names' <=> Names) /\ (Bound' <=> Bound)
  BY <1>1, SameNaming
<1>4. env = [v \in SsaVars \union {Undef} |-> env[v]]
  BY <1>2 DEF Shape
<1>5. Phi(c) \in SsaVars
  BY NamesDiffer
<1>6. c \in phis => e[Phi(c)] = env[bind[c][at]]
  BY <1>4, <1>5
<1>7. c \notin phis => e = env
  OBVIOUS
<1>8. e = [v \in SsaVars \union {Undef} |-> e[v]]
  BY <1>4
<1> HIDE DEF e
<1>9. Shape'
  BY <1>1, <1>2, <1>3, <1>8, RunShape DEF Shape
<1>10. SInv'
  BY <1>1, <1>2, <1>3, <1>9 DEF SInv, SearchInv, InsertInv, PlacedInv
<1>11. RenameInv'
  BY <1>1, <1>2, <1>3 DEF RenameInv, Renaming
<1>12. ASSUME Placed PROVE Alike'
  <2>1. Names /\ Alike
    BY <1>1, <1>2, <1>12 DEF RenameInv, Renaming, RunInv
  <2>2. uses \subseteq LiveBlocks /\ c # Entry /\ (c \in LiveBlocks => at \in LiveBlocks)
    BY <1>1, <1>2, LiveFacts, GraphFacts DEF CodeOK
  <2>3. ASSUME c \in LiveBlocks, c \in phis PROVE e[Phi(c)] = value
    <3>1. PICK d : IsNearest(d, at) /\ \A s \in succ[at] \intersect phis : bind[s][at] = NameOf(d)
      BY <1>2, <2>1, <2>2, <2>3 DEF Names
    <3>2. value = env[NameOf(d)] /\ bind[c][at] = NameOf(d)
      BY <1>1, <2>1, <2>2, <2>3, <3>1 DEF Alike
    <3> QED BY <1>6, <2>3, <3>2
  <2>4. ASSUME c \in uses PROVE value = e[read[c]]
    <3>1. ReadOK(c, read[c]) /\ c \in LiveBlocks
      BY <1>2, <2>1, <2>2, <2>4 DEF Names
    <3>2. CASE c \in phis
      BY <2>3, <3>1, <3>2 DEF ReadOK
    <3>3. CASE c \notin phis
      <4>1. PICK p \in Codes, d \in Origins : c \in succ[p] /\ IsNearest(d, p) /\ read[c] = NameOf(d)
        BY <2>2, <3>1, <3>3 DEF ReadOK, Named
      <4>2. IsNearest(d, at)
        BY <1>1, <1>2, <1>12, <3>1, <3>3, <4>1, PredsAgree
      <4> QED BY <1>7, <2>1, <2>2, <3>1, <3>3, <4>1, <4>2 DEF Alike
    <3> QED BY <3>2, <3>3
  <2>5. ASSUME c \in LiveBlocks, c \notin defs, NEW d, IsNearest(d, c) PROVE value = e[NameOf(d)]
    <3>1. CASE c \in phis
      <4>1. d = c
        BY <1>2, <2>5, <3>1, NearestItself DEF Origins
      <4> QED BY <2>3, <2>5, <3>1, <4>1 DEF NameOf
    <3>2. CASE c \notin phis
      <4>1. c \notin Origins
        BY <2>2, <2>5, <3>2 DEF Origins
      <4>2. IsNearest(d, at)
        BY <1>1, <1>2, <1>12, <2>5, <4>1, NearestStays
      <4> QED BY <1>7, <2>1, <2>2, <2>5, <3>2, <4>2 DEF Alike
    <3> QED BY <3>1, <3>2
  <2>6. lastRead[1] = lastRead[2]
    BY <2>1 DEF Alike
  <2> QED BY <1>1, <1>2, <1>3, <1>8, <1>12, <2>4, <2>5, <2>6, BlockRuns
<1>13. RunInv'
  BY <1>1, <1>3, <1>12 DEF RunInv
<1> QED BY <1>10, <1>11, <1>13 DEF ConvInv

-----------------------------------------------------------------------------
(* The theorems.                                                            *)

LEMMA ConvStarts == Init => ConvInv
<1> SUFFICES ASSUME Init PROVE ConvInv
  OBVIOUS
<1>1. /\ succ \in FlowGraphs /\ defs \in SUBSET Codes /\ uses \in SUBSET Codes
      /\ pc = "usage" /\ visited = {} /\ uses_var = uses /\ todo = defs /\ calls = <<>>
      /\ phis = {} /\ at = Entry /\ value = <<Entry, -1>> /\ lastRead = <<value, value>>
      /\ dest = [c \in Codes |-> Orig] /\ read = [c \in Codes |-> Orig]
      /\ bind = [c \in Codes |-> [p \in Codes |-> Undef]]
      /\ env = [v \in SsaVars \union {Undef} |-> IF v = Undef THEN <<Entry, -2>> ELSE <<Entry, -1>>]
  BY DEF Init
<1>2. Orig \in SsaVars /\ Orig # Undef /\ Entry \in Codes
  BY NamesDiffer, FlowGraphAssumption
<1>3. Len(calls) = 0 /\ calls \in Seq(SearchFrames)
  BY <1>1
<1>4. Walk(succ, calls, visited) /\ Answers
  BY <1>1, <1>3 DEF Walk, Answers
<1>5. CodeOK
  BY <1>1 DEF CodeOK
<1>6. /\ bind \in [Codes -> [Codes -> SsaVars \union {Undef}]]
      /\ dest \in [Codes -> SsaVars] /\ read \in [Codes -> SsaVars]
  BY <1>1, <1>2
<1>7. env = [v \in SsaVars \union {Undef} |-> env[v]] /\ env[Orig] = <<Entry, -1>>
  BY <1>1, <1>2
<1>8. Shape
  BY <1>1, <1>2, <1>3, <1>4, <1>5, <1>6, <1>7 DEF Shape
<1>9. SInv
  BY <1>1, <1>3, <1>4, <1>8 DEF SInv, SearchInv, InsertInv, PlacedInv
<1>10. RenameInv /\ RunInv
  BY <1>1, <1>7 DEF RenameInv, Renaming, RunInv
<1> QED BY <1>9, <1>10 DEF ConvInv

\* Until the functions run nothing is executed.
LEMMA NotYetRun ==
  ASSUME RunInv, pc # "run", pc' # "run", UNCHANGED execution
  PROVE  RunInv'
  BY DEF RunInv, execution

LEMMA NotYetRenamed ==
  ASSUME pc' \in {"usage", "insert"}
  PROVE  RenameInv'
  BY DEF RenameInv, Renaming

LEMMA ConvSteps == ConvInv /\ [Next]_ssaVars => ConvInv'
<1> SUFFICES ASSUME ConvInv, [Next]_ssaVars PROVE ConvInv'
  OBVIOUS
<1>0. SInv /\ RenameInv /\ RunInv
  BY DEF ConvInv
<1>1. ASSUME NEW c \in Codes, SearchFrom(c) PROVE ConvInv'
  <2>1. pc = "usage" /\ pc' = "usage" /\ UNCHANGED execution
    BY <1>1 DEF SearchFrom
  <2> QED BY <1>0, <1>1, <2>1, SearchFromStep, NotYetRun, NotYetRenamed DEF ConvInv
<1>2. ASSUME NEW c \in Codes, SearchSucc(c) PROVE ConvInv'
  <2>1. pc = "usage" /\ pc' = "usage" /\ UNCHANGED execution
    BY <1>2 DEF SearchSucc
  <2> QED BY <1>0, <1>2, <2>1, SearchSuccStep, NotYetRun, NotYetRenamed DEF ConvInv
<1>3. ASSUME NEW c \in Codes, create_combinator(c) PROVE ConvInv'
  <2>1. pc = "insert" /\ pc' = "insert" /\ UNCHANGED execution
    BY <1>3 DEF create_combinator
  <2> QED BY <1>0, <1>3, <2>1, CreateStep, NotYetRun, NotYetRenamed DEF ConvInv
<1>4. ASSUME NEW c \in Codes, RenameSucc(c) PROVE ConvInv'
  <2>1. pc = "rename" /\ pc' = "rename" /\ UNCHANGED execution
    BY <1>4 DEF RenameSucc
  <2> QED BY <1>0, <1>4, <2>1, RenameSuccStep, NotYetRun DEF ConvInv
<1>5. ASSUME NEW c \in Codes, Jump(c) PROVE ConvInv'
  BY <1>5, JumpStep
<1>6. CASE SearchReturn
  <2>1. pc = "usage" /\ pc' = "usage" /\ UNCHANGED execution
    BY <1>6 DEF SearchReturn
  <2> QED BY <1>0, <1>6, <2>1, SearchReturnStep, NotYetRun, NotYetRenamed DEF ConvInv
<1>7. CASE StartInsert
  <2>1. pc = "usage" /\ pc' = "insert" /\ UNCHANGED execution
    BY <1>7 DEF StartInsert
  <2> QED BY <1>0, <1>7, <2>1, StartInsertStep, NotYetRun, NotYetRenamed DEF ConvInv
<1>8. CASE StartRename
  <2>1. pc = "insert" /\ pc' = "rename" /\ UNCHANGED execution
    BY <1>8 DEF StartRename
  <2> QED BY <1>0, <1>8, <2>1, StartRenameStep, NotYetRun DEF ConvInv
<1>9. CASE RenameEntry
  <2>1. pc = "rename" /\ pc' = "rename" /\ UNCHANGED execution
    BY <1>9 DEF RenameEntry
  <2> QED BY <1>0, <1>9, <2>1, RenameEntryStep, NotYetRun DEF ConvInv
<1>10. CASE RenameReturn
  <2>1. pc = "rename" /\ pc' = "rename" /\ UNCHANGED execution
    BY <1>10 DEF RenameReturn
  <2> QED BY <1>0, <1>10, <2>1, RenameReturnStep, NotYetRun DEF ConvInv
<1>11. CASE StartRun
  BY <1>11, StartRunStep
<1>12. CASE UNCHANGED ssaVars
  <2>1. UNCHANGED code /\ UNCHANGED search /\ UNCHANGED result /\ UNCHANGED execution /\ pc' = pc
    BY <1>12 DEF ssaVars
  <2>2. /\ UNCHANGED <<succ, defs, uses, phis, visited, uses_var, todo, calls, bind, dest, read>>
        /\ LiveBlocks' = LiveBlocks /\ (CodeOK' <=> CodeOK) /\ (Placed' <=> Placed) /\ (Acyclic' <=> Acyclic)
        /\ (Names' <=> Names) /\ (Bound' <=> Bound)
    BY <2>1, SameNaming
  <2>3. UNCHANGED <<at, value, env, lastRead>>
    BY <2>1 DEF execution
  <2>4. Shape'
    BY <1>0, <2>1, <2>2, <2>3 DEF SInv, Shape
  <2>5. SearchInv' /\ InsertInv' /\ PlacedInv'
    <3>1. (Answers' <=> Answers) /\ IteratedFrontier' = IteratedFrontier
      BY <2>2, SameCode DEF Answers
    <3> QED BY <1>0, <2>1, <2>2, <3>1 DEF SInv, SearchInv, InsertInv, PlacedInv
  <2>6. RenameInv'
    BY <1>0, <2>1, <2>2 DEF RenameInv, Renaming
  <2>7. RunInv'
    <3>1. \A d, c : (IsNearest(d, c)' <=> IsNearest(d, c)) /\ NameOf(d)' = NameOf(d)
      BY <2>2, SameNames
    <3>2. Alike' <=> Alike
      BY <2>2, <2>3, <3>1 DEF Alike
    <3> QED BY <1>0, <2>1, <2>2, <2>3, <3>2 DEF RunInv
  <2> QED BY <2>4, <2>5, <2>6, <2>7 DEF ConvInv, SInv
<1> QED BY <1>1, <1>2, <1>3, <1>4, <1>5, <1>6, <1>7, <1>8, <1>9, <1>10, <1>11, <1>12 DEF Next

LEMMA ConvAlways == Spec => []ConvInv
  BY ConvStarts, ConvSteps, PTL DEF Spec

\* Where no phi that is needed is missing, every use in the converted function reads
\* what it read before, on every path: ir_func_to_ssa keeps what x means.
THEOREM ConversionKeepsReads == Spec => []AgreeIfPlaced
<1>1. ConvInv => AgreeIfPlaced
  BY DEF ConvInv, RunInv, Alike, AgreeIfPlaced, Placed
<1> QED BY <1>1, ConvAlways, PTL

\* The searches enter no block twice, in a function without loops no phi that is needed
\* is missing, and renaming binds every path into a phi.
THEOREM ConversionIsSound == Spec => []ConversionOK
<1>1. ASSUME ConvInv PROVE TypeOK
  <2>1. Shape
    BY <1>1 DEF ConvInv, SInv
  <2>2. phis \subseteq Codes
    BY <2>1, FrontierFacts DEF Shape, CodeOK
  <2>3. \A i, j \in 1 .. Len(calls) : calls[i].block = calls[j].block => i = j
    <3>1. CASE pc \in {"usage", "rename"}
      BY <2>1, <3>1 DEF Shape, Walk
    <3>2. CASE pc \in {"insert", "run"}
      <4>1. Len(calls) = 0
        BY <2>1, <3>2 DEF Shape
      <4> QED BY <4>1
    <3> QED BY <2>1, <3>1, <3>2 DEF Shape
  <2> QED BY <2>1, <2>2, <2>3 DEF Shape, TypeOK
<1>2. ConvInv => AcyclicPlaced
  BY DEF ConvInv, SInv, PlacedInv, AcyclicPlaced, Acyclic, Placed
<1>3. ASSUME ConvInv PROVE BindingsFilled
  <2> SUFFICES ASSUME pc = "run", NEW c \in phis, NEW p \in Predecessors(succ, c)
               PROVE  bind[c][p] # Undef
    BY DEF BindingsFilled
  <2>1. p \in visited /\ c \in succ[p] /\ Bound
    BY <1>3 DEF ConvInv, RenameInv, Renaming, Predecessors
  <2> QED BY <2>1, NamesDiffer DEF Bound
<1>4. ConvInv => ConversionOK
  BY <1>1, <1>2, <1>3 DEF ConversionOK
<1> QED BY <1>4, ConvAlways, PTL
=============================================================================
