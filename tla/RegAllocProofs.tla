--------------------------- MODULE RegAllocProofs ---------------------------
(***************************************************************************)
(* Proofs about RegAlloc and Spill, for any interference graph, code and   *)
(* number of registers: variables that interfere are kept apart, and so is *)
(* a fixed register from the variables that were taken out as              *)
(* unconstrained.                                                          *)
(*                                                                         *)
(* The code compares a node only with the neighbours that are linked to it *)
(* when it comes back.  The invariant says which these are: what is linked *)
(* to a node on the stack, with what is below it, is all it lives with.    *)
(*                                                                         *)
(* The second part counts: a variable that was taken out of the graph      *)
(* because it had fewer neighbours than there are registers gets a         *)
(* register when it comes back, where no register is fixed.                *)
(*                                                                         *)
(* The third part is about Spill: variables that interfere are kept apart  *)
(* however often regalloc starts again, because each new start is one that *)
(* the proof about the colouring covers.  The last part is about what is   *)
(* computed: the loads and stores keep the function, and every instruction *)
(* finds in the registers what the function had computed.                  *)
(***************************************************************************)
EXTENDS Spill, FiniteSetTheorems, WellFoundedInduction, TLAPS

Popping == pc \in {"unconstrained", "constrained", "rest"}

Below(k) == {stack[j] : j \in 1 .. k - 1}

Typed ==
  /\ lives \in [Nodes -> SUBSET Vars] /\ links \in [Nodes -> SUBSET Nodes]
  /\ regno \in [Nodes -> Regs \union {REGNO_NONE}]
  /\ stack \in Seq(Nodes) /\ graph \subseteq Nodes /\ free \subseteq Vars
  /\ \A u, v \in Vars : v \in lives[u] => u # v /\ u \in lives[v]

\* Every node is in one place.
Parted ==
  /\ graph \intersect Items(stack) = {}
  /\ graph \union Items(stack) = Vars \union Fixed
  /\ \A j, k \in 1 .. Len(stack) : stack[j] = stack[k] => j = k

\* A variable gets its register when it comes back, and not before.
Uncolored == \A v \in Vars : regno[v] # REGNO_NONE => v \in graph /\ ~ Popping

\* A variable in the graph is linked to all it lives with that is not yet taken out.
GraphLinks ==
  Popping => \A v \in graph \intersect Vars :
    /\ links[v] \subseteq graph \intersect Vars
    /\ lives[v] \subseteq links[v] \union Items(stack)
    /\ \A u \in links[v] : v \in links[u]

\* A variable on the stack is linked to all it lives with, but for what is below it.
StackLinks ==
  \A k \in 1 .. Len(stack) :
    stack[k] \in Vars => lives[stack[k]] \subseteq links[stack[k]] \union Below(k)

\* A fixed register keeps its links, and hands them back when it returns.
FixedLinks ==
  /\ \A n \in Fixed : lives[n] \subseteq links[n] /\ (Popping => links[n] \subseteq Vars)
  /\ ~ Popping => \A n \in Fixed \intersect graph : \A v \in lives[n] : n \in links[v]

\* The unconstrained variables leave before the fixed registers, and return after.
FreeFirst ==
  /\ \A j, k \in 1 .. Len(stack) : stack[j] \in Fixed /\ stack[k] \in free => k < j
  /\ pc = "unconstrained" => Fixed \subseteq graph
  /\ free \intersect graph # {} => ~ Popping /\ Fixed \subseteq graph

IInv ==
  /\ Typed /\ Parted /\ Uncolored /\ GraphLinks /\ StackLinks /\ FixedLinks /\ FreeFirst
  /\ VarsApart /\ FixedApartIfFree
-----------------------------------------------------------------------------
\* The nodes of a stack after one is pushed.
LEMMA RangeOf == ASSUME NEW s \in Seq(Nodes), NEW n \in Nodes
                 PROVE  /\ Items(s) \subseteq Nodes
                        /\ Items(Append(s, n)) = Items(s) \union {n}
  BY DEF Items

\* The graph as liveness makes it satisfies the invariant.
LEMMA InitInv == ASSUME RegAllocAssumption, Init PROVE IInv
<1> USE RegAllocAssumption DEF Init, Nodes, Regs, REGNO_NONE
<1>1. stack = <<>> /\ Len(stack) = 0 /\ Items(stack) = {} /\ free = {} /\ Popping
  BY DEF Items, Popping
<1>2. /\ lives \in [Nodes -> SUBSET Vars] /\ links = lives
      /\ \A u, v \in Vars : v \in lives[u] => u # v /\ u \in lives[v]
      /\ \A n \in Nodes : lives[n] \subseteq Vars
  OBVIOUS
<1>3. \A v \in Vars : regno[v] = REGNO_NONE
  OBVIOUS
<1>4. Fixed \subseteq Regs /\ graph = Vars \union Fixed
  BY DEF Fixed
<1>5. Typed
  BY <1>1, <1>2 DEF Typed
<1>6. Parted /\ Uncolored /\ StackLinks
  BY <1>1, <1>3, <1>4 DEF Parted, Uncolored, StackLinks
<1>7. GraphLinks /\ FixedLinks
  BY <1>1, <1>2, <1>4 DEF GraphLinks, FixedLinks
<1>8. FreeFirst /\ VarsApart /\ FixedApartIfFree
  BY <1>1, <1>3, <1>4 DEF FreeFirst, VarsApart, FixedApartIfFree
<1> QED BY <1>5, <1>6, <1>7, <1>8 DEF IInv

\* What pop_node does to the invariant, for any node of the graph.
LEMMA PopKeeps ==
  ASSUME RegAllocAssumption, IInv, Popping, Popping', NEW n \in graph, pop_node(n),
         free' \subseteq Vars
  PROVE  /\ Typed' /\ Parted' /\ Uncolored' /\ GraphLinks' /\ StackLinks' /\ FixedLinks'
         /\ VarsApart'
<1> USE DEF IInv
<1>1. n \in Nodes /\ stack' = Append(stack, n) /\ Len(stack') = Len(stack) + 1
  BY DEF Typed, pop_node
<1>2. Items(stack') = Items(stack) \union {n}
  BY <1>1, RangeOf DEF Typed
<1>3. Fixed' = Fixed /\ regno' = regno /\ lives' = lives /\ graph' = graph \ {n}
  BY DEF pop_node, Fixed
<1>4. \A m \in Nodes : links'[m] = IF m \in links[n] THEN links[m] \ {n} ELSE links[m]
  BY DEF pop_node
<1>5. Typed'
  BY <1>1, <1>3 DEF Typed, pop_node
<1>6. \A k \in 1 .. Len(stack) : stack'[k] = stack[k] /\ stack[k] \in Items(stack)
  BY <1>1 DEF Typed, Items
<1>7. stack'[Len(stack')] = n
  BY <1>1 DEF Typed
<1>8. Parted'
  <2>1. \A j, k \in 1 .. Len(stack') : stack'[j] = stack'[k] => j = k
    BY <1>1, <1>6, <1>7 DEF Parted, Typed
  <2> QED BY <1>2, <1>3, <2>1 DEF Parted
<1>9. \A v \in Vars : regno[v] = REGNO_NONE
  BY DEF Uncolored
<1>10. Uncolored' /\ VarsApart'
  BY <1>3, <1>9 DEF Uncolored, VarsApart
<1>11. Vars \subseteq Nodes /\ Fixed \subseteq Regs /\ Vars \intersect Fixed = {} /\ Fixed \subseteq Nodes
  BY RegAllocAssumption DEF Fixed, Nodes, Regs
<1>12. n \in Vars \/ n \in Fixed
  BY DEF Parted
<1>13. links[n] \subseteq Vars
  BY <1>12 DEF GraphLinks, FixedLinks
<1>14. GraphLinks'
  <2> SUFFICES ASSUME NEW v \in graph' \intersect Vars
               PROVE  /\ links'[v] \subseteq graph' \intersect Vars
                      /\ lives'[v] \subseteq links'[v] \union Items(stack')
                      /\ \A u \in links'[v] : v \in links'[u]
    BY DEF GraphLinks
  <2>1. /\ links[v] \subseteq graph \intersect Vars /\ lives[v] \subseteq links[v] \union Items(stack)
        /\ \A u \in links[v] : v \in links[u]
    BY <1>3 DEF GraphLinks
  <2>2. n \notin links'[v]
    <3>1. n \in links[v] => v \in links[n]
      BY <2>1
    <3> QED BY <1>4, <1>11, <3>1
  <2>3. links[v] \ {n} \subseteq links'[v] /\ links'[v] \subseteq links[v]
    BY <1>4, <1>11
  <2>4. \A u \in links'[v] : v \in links'[u]
    BY <1>3, <1>4, <1>11, <2>1, <2>2, <2>3
  <2> QED BY <1>2, <1>3, <2>1, <2>2, <2>3, <2>4
<1>15. StackLinks'
  <2> SUFFICES ASSUME NEW k \in 1 .. Len(stack'), stack'[k] \in Vars,
                      NEW v \in lives'[stack'[k]], v \notin links'[stack'[k]]
               PROVE  v \in Below(k)'
    BY DEF StackLinks
  <2>1. v \in lives[stack'[k]] /\ v \in Vars /\ stack'[k] # v
    BY <1>3, <1>11 DEF Typed
  <2>2. CASE k = Len(stack')
    <3>1. stack'[k] = n /\ k = Len(stack) + 1
      BY <2>2, <1>1, <1>7
    <3>2. v \notin links[n]
      BY <2>1, <3>1, <1>4, <1>11
    <3>3. v \in Items(stack)
      BY <2>1, <3>1, <3>2 DEF GraphLinks
    <3>4. PICK j \in 1 .. Len(stack) : v = stack[j]
      BY <3>3 DEF Items
    <3>5. v = stack'[j] /\ j \in 1 .. k - 1
      BY <3>1, <3>4, <1>6
    <3> QED BY <3>5 DEF Below
  <2>3. CASE k # Len(stack')
    <3>1. k \in 1 .. Len(stack) /\ stack'[k] = stack[k] /\ stack[k] \in Items(stack)
      BY <2>3, <1>1, <1>6 DEF Typed
    <3>2. v \notin links[stack[k]]
      <4> SUFFICES ASSUME v \in links[stack[k]] PROVE FALSE
        OBVIOUS
      <4>1. stack[k] \in links[n] /\ v = n
        BY <3>1, <1>4, <1>11
      <4>2. stack[k] \in graph
        BY <4>1, <2>1 DEF GraphLinks
      <4> QED BY <4>2, <3>1 DEF Parted
    <3>3. v \in Below(k)
      BY <2>1, <3>1, <3>2 DEF StackLinks
    <3>4. PICK j \in 1 .. k - 1 : v = stack[j]
      BY <3>3 DEF Below
    <3>5. v = stack'[j]
      BY <3>1, <3>4, <1>6 DEF Typed
    <3> QED BY <3>5 DEF Below
  <2> QED BY <2>2, <2>3
<1>16. FixedLinks'
  <2> SUFFICES ASSUME NEW m \in Fixed
               PROVE  lives[m] \subseteq links'[m] /\ links'[m] \subseteq Vars
    BY <1>3 DEF FixedLinks
  <2>1. links'[m] = links[m]
    BY <1>4, <1>11, <1>13
  <2> QED BY <2>1 DEF FixedLinks
<1> QED BY <1>5, <1>8, <1>10, <1>14, <1>15, <1>16

\* Taking out an unconstrained node keeps the invariant.
LEMMA UnconstrainedInv ==
  ASSUME RegAllocAssumption, IInv, NEW v \in Vars, Unconstrained(v) PROVE IInv'
<1> USE DEF IInv, Unconstrained
<1>1. Popping /\ Popping' /\ pc' = "unconstrained" /\ free' = free \union {v} /\ graph' = graph \ {v}
  BY DEF Popping, pop_node
<1>2. /\ Typed' /\ Parted' /\ Uncolored' /\ GraphLinks' /\ StackLinks' /\ FixedLinks' /\ VarsApart'
  BY <1>1, PopKeeps DEF Typed
<1>3. Fixed' = Fixed /\ regno' = regno /\ lives' = lives /\ v \notin Fixed
  BY RegAllocAssumption DEF pop_node, Fixed, Regs
<1>4. FreeFirst'
  <2>1. Fixed' \subseteq graph'
    BY <1>1, <1>3 DEF FreeFirst
  <2>2. \A j \in 1 .. Len(stack') : stack'[j] \notin Fixed'
    BY <1>2, <2>1 DEF Parted, Items
  <2>3. free' \intersect graph' = {}
    BY <1>1 DEF FreeFirst
  <2> QED BY <2>1, <2>2, <2>3 DEF FreeFirst
<1>5. FixedApartIfFree'
  BY <1>1, <1>2, <1>3 DEF FixedApartIfFree, Uncolored, Typed, Fixed
<1> QED BY <1>2, <1>4, <1>5

\* The other two ways to pop a node leave free alone and come after it.
LEMMA PopLaterInv ==
  ASSUME RegAllocAssumption, IInv, Popping, pc' \in {"constrained", "rest"},
         NEW n \in graph, pop_node(n), UNCHANGED free
  PROVE  IInv'
<1> USE DEF IInv
<1>1. Popping' /\ free' \subseteq Vars
  BY DEF Popping, Typed
<1>2. /\ Typed' /\ Parted' /\ Uncolored' /\ GraphLinks' /\ StackLinks' /\ FixedLinks' /\ VarsApart'
  BY <1>1, PopKeeps
<1>3. /\ Fixed' = Fixed /\ regno' = regno /\ lives' = lives /\ graph' = graph \ {n}
      /\ stack' = Append(stack, n) /\ n \in Nodes
  BY DEF pop_node, Fixed, Typed
<1>4. free \intersect graph = {}
  BY DEF FreeFirst
<1>5. FreeFirst'
  <2> SUFFICES ASSUME NEW j \in 1 .. Len(stack'), NEW k \in 1 .. Len(stack'),
                      stack'[j] \in Fixed, stack'[k] \in free
               PROVE  k < j
    BY <1>3, <1>4 DEF FreeFirst
  <2>1. k # Len(stack) + 1
    BY <1>3, <1>4 DEF Typed
  <2> QED BY <1>3, <2>1 DEF FreeFirst, Typed
<1>6. FixedApartIfFree'
  BY <1>3 DEF FixedApartIfFree
<1> QED BY <1>2, <1>5, <1>6

\* A set of naturals that is not empty has a least member.
LEMMA LeastExists == ASSUME NEW S \in SUBSET Nat, S # {} PROVE \E r \in S : \A q \in S : r <= q
<1>1. PICK r \in S : \A q \in S : ~ (<<q, r>> \in OpToRel(<, Nat))
  BY NatLessThanWellFounded, WFMin
<1>2. \A q \in S : ~ (q < r)
  BY <1>1 DEF OpToRel
<1> QED BY <1>2

\* A non-empty set of naturals with a bound has a greatest member.
LEMMA GreatestExists ==
  ASSUME NEW m \in Nat, NEW S \in SUBSET (1 .. m), S # {} PROVE \E r \in S : \A q \in S : q <= r
<1> DEFINE T == {m - q : q \in S}
<1>1. T \in SUBSET Nat /\ T # {}
  <2>1. \A q \in S : m - q \in Nat
    OBVIOUS
  <2>2. T \subseteq Nat
    BY <2>1
  <2>3. PICK q \in S : TRUE
    OBVIOUS
  <2>4. m - q \in T
    BY <2>3
  <2> QED BY <2>2, <2>4
<1> HIDE DEF T
<1>2. PICK x \in T : \A y \in T : x <= y
  BY <1>1, LeastExists
<1> USE DEF T
<1>3. PICK r \in S : x = m - r
  BY <1>2
<1>4. \A q \in S : m - r <= m - q
  BY <1>2, <1>3
<1> QED BY <1>4

\* A free register is chosen, if any is free.
LEMMA ChoiceMade ==
  ASSUME RegAllocAssumption, NEW available \in SUBSET Regs, available # {}
  PROVE  Choice(available) \in available
<1> DEFINE S == available \ CalleeSave
<1>1. S \in SUBSET Nat /\ available \in SUBSET (1 .. NumRegs) /\ NumRegs \in Nat
  BY RegAllocAssumption DEF Regs
<1>2. CASE S # {}
  <2>1. \E r \in S : \A q \in S : r <= q
    BY <1>1, <1>2, LeastExists
  <2> QED BY <1>2, <2>1 DEF Choice
<1>3. CASE S = {}
  <2>1. \E r \in available : \A q \in available : q <= r
    BY <1>1, <1>3, GreatestExists
  <2> QED BY <1>3, <2>1 DEF Choice
<1> QED BY <1>2, <1>3

\* What is chosen is one of the available registers, or none.
LEMMA ChoiceFree ==
  ASSUME RegAllocAssumption, NEW available \in SUBSET Regs
  PROVE  Choice(available) \in available \union {REGNO_NONE}
<1>1. CASE available = {}
  BY <1>1 DEF Choice
<1> QED BY <1>1, ChoiceMade

\* A stack after one node is popped.
LEMMA ShorterSeq ==
  ASSUME NEW s \in Seq(Nodes), s # <<>>
  PROVE  SubSeq(s, 1, Len(s) - 1) \in Seq(Nodes) /\ Len(SubSeq(s, 1, Len(s) - 1)) = Len(s) - 1
<1>1. SubSeq(s, 1, Len(s) - 1) \in Seq(Nodes)
  OBVIOUS
<1>2. Len(SubSeq(s, 1, Len(s) - 1)) = Len(s) - 1
  OBVIOUS
<1> QED BY <1>1, <1>2

\* Colouring the node on top keeps the invariant.
LEMMA ColorInv == ASSUME RegAllocAssumption, IInv, Color PROVE IInv'
<1> DEFINE n == stack[Len(stack)]
<1> DEFINE L == [m \in Nodes |-> IF m \in links[n] THEN links[m] \union {n} ELSE links[m]]
<1> USE DEF IInv
<1>1. /\ Len(stack) \in Nat \ {0} /\ n \in Nodes /\ n \in Items(stack)
      /\ stack' = SubSeq(stack, 1, Len(stack) - 1) /\ Len(stack') = Len(stack) - 1
      /\ \A k \in 1 .. Len(stack') : k \in 1 .. Len(stack) /\ stack'[k] = stack[k]
      /\ stack' \in Seq(Nodes)
  <2>1. stack \in Seq(Nodes) /\ stack # <<>> /\ stack' = SubSeq(stack, 1, Len(stack) - 1)
    BY DEF Color, Typed
  <2>2. Len(stack) \in Nat \ {0} /\ n \in Nodes /\ n \in Items(stack)
    BY <2>1 DEF Items
  <2>3. Len(stack') = Len(stack) - 1 /\ stack' \in Seq(Nodes)
    BY <2>1, ShorterSeq
  <2>4. \A k \in 1 .. Len(stack') : k \in 1 .. Len(stack) /\ stack'[k] = stack[k]
    BY <2>1, <2>2, <2>3
  <2> QED BY <2>1, <2>2, <2>3, <2>4
<1>2. /\ graph' = graph \union {n} /\ links' = L /\ lives' = lives /\ free' = free
      /\ regno' = [regno EXCEPT ![n] = choose_one_reg(n, L)]
      /\ ~ Popping' /\ pc' # "unconstrained"
  BY DEF Color, Popping
<1>3. Items(stack') = Items(stack) \ {n}
  <2>1. \A k \in 1 .. Len(stack') : stack'[k] # n
    BY <1>1 DEF Parted, Typed
  <2>2. \A k \in 1 .. Len(stack) : stack[k] # n => k \in 1 .. Len(stack')
    BY <1>1
  <2> QED BY <1>1, <2>1, <2>2 DEF Items
<1>4. /\ Vars \subseteq Nodes /\ Fixed \subseteq Regs /\ Vars \intersect Fixed = {} /\ Fixed \subseteq Nodes
      /\ n \in Vars \/ n \in Fixed
  BY <1>1, RegAllocAssumption DEF Fixed, Nodes, Regs, Parted
<1>5. /\ \A m \in Nodes : links[m] \subseteq links'[m] /\ links'[m] \subseteq links[m] \union {n}
      /\ \A m \in Nodes : m \in links[n] => n \in links'[m]
      /\ links' \in [Nodes -> SUBSET Nodes]
  BY <1>1, <1>2 DEF Typed
<1>6. /\ regno'[n] = IF regno[n] # REGNO_NONE THEN regno[n] ELSE Choice(Regs \ Taken(n, links'))
      /\ \A m \in Nodes : m # n => regno'[m] = regno[m]
      /\ regno' \in [Nodes -> Regs \union {REGNO_NONE}]
  BY <1>1, <1>2, ChoiceFree DEF Typed, choose_one_reg
<1>7. Fixed' = Fixed
  BY <1>1, <1>4, <1>6, RegAllocAssumption DEF Fixed, Nodes, Regs, Typed
<1>8. Typed'
  BY <1>1, <1>2, <1>5, <1>6 DEF Typed
<1>9. Parted'
  BY <1>1, <1>2, <1>3, <1>7 DEF Parted
<1>10. Uncolored' /\ GraphLinks'
  BY <1>1, <1>2, <1>6, <1>4 DEF Uncolored, GraphLinks
<1>11. StackLinks'
  <2> SUFFICES ASSUME NEW k \in 1 .. Len(stack'), stack[k] \in Vars
               PROVE  lives[stack[k]] \subseteq links'[stack[k]] \union Below(k)'
    BY <1>1, <1>2 DEF StackLinks
  <2>1. k \in 1 .. Len(stack) /\ stack'[k] = stack[k]
    BY <1>1
  <2>2. \A j \in 1 .. k - 1 : j \in 1 .. Len(stack') /\ stack'[j] = stack[j]
    BY <1>1
  <2>3. Below(k) \subseteq Below(k)'
    BY <2>2 DEF Below
  <2>4. links[stack[k]] \subseteq links'[stack[k]]
    BY <1>4, <1>5
  <2> QED BY <2>1, <2>3, <2>4 DEF StackLinks
<1>12. FixedLinks'
  <2>1. \A m \in Fixed : lives[m] \subseteq links'[m]
    BY <1>4, <1>5 DEF FixedLinks
  <2> SUFFICES ASSUME NEW m \in Fixed, m \in graph', NEW v \in lives[m] PROVE m \in links'[v]
    BY <1>2, <1>7, <2>1 DEF FixedLinks
  <2>2. v \in Vars /\ v \in Nodes
    BY <1>4 DEF Typed
  <2>3. CASE m = n
    BY <1>5, <2>2, <2>3 DEF FixedLinks
  <2>4. CASE m # n
    <3>1. m \in graph /\ ~ Popping
      BY <1>2, <2>4 DEF Color, Popping
    <3> QED BY <1>5, <2>2, <3>1 DEF FixedLinks
  <2> QED BY <2>3, <2>4
<1>13. n \in free => Fixed \subseteq graph
  <2> SUFFICES ASSUME n \in free, NEW m \in Fixed, m \in Items(stack) PROVE FALSE
    BY DEF Parted
  <2>1. PICK j \in 1 .. Len(stack) : m = stack[j]
    BY DEF Items
  <2> QED BY <1>1, <2>1 DEF FreeFirst
<1>14. FreeFirst'
  <2>1. free' \intersect graph' # {} => Fixed \subseteq graph'
    BY <1>2, <1>13 DEF FreeFirst
  <2> QED BY <1>1, <1>2, <1>7, <2>1 DEF FreeFirst
<1>15. ASSUME n \in Vars, NEW m \in Nodes, m \in links'[n], regno'[n] # REGNO_NONE
       PROVE  regno'[n] # regno[m]
  <2>1. regno[n] = REGNO_NONE
    BY <1>1, <1>15 DEF Uncolored, Parted
  <2>2. regno'[n] = Choice(Regs \ Taken(n, links'))
    BY <1>6, <2>1
  <2>3. regno'[n] \in Regs \ Taken(n, links')
    BY <1>15, <2>2, ChoiceFree
  <2> QED BY <1>15, <2>3 DEF Taken
<1>16. VarsApart'
  <2> SUFFICES ASSUME NEW u \in Vars, u \in lives[n], n \in Vars, regno[u] # REGNO_NONE,
                      regno'[n] # REGNO_NONE
               PROVE  regno'[n] # regno[u]
    BY <1>2, <1>4, <1>6 DEF VarsApart, Typed
  <2>1. u \in graph /\ u \notin Items(stack)
    BY DEF Uncolored, Parted
  <2>2. u \in links[n]
    <3>1. u \in links[n] \/ u \in Below(Len(stack))
      BY <1>1 DEF StackLinks
    <3>2. Below(Len(stack)) \subseteq Items(stack)
      BY <1>1 DEF Below, Items
    <3> QED BY <2>1, <3>1, <3>2
  <2> QED BY <1>4, <1>5, <1>15, <2>2
<1>17. FixedApartIfFree'
  <2> SUFFICES ASSUME NEW m \in Fixed, NEW v \in lives[m] \intersect free, regno'[v] = regno'[m]
               PROVE  FALSE
    BY <1>2, <1>7 DEF FixedApartIfFree
  <2>0. v = n /\ regno'[m] = regno[m]
    <3>1. v \in Vars /\ v # m /\ v \in Nodes /\ m \in Nodes
      BY <1>4 DEF Typed
    <3>2. regno'[m] = regno[m]
      BY <1>6, <3>1 DEF Fixed
    <3> QED BY <1>6, <3>1, <3>2 DEF FixedApartIfFree
  <2>1. m \in graph /\ ~ Popping
    BY <1>13, <2>0 DEF Color, Popping
  <2>2. m \in links'[n] /\ n \in Vars
    BY <1>1, <1>4, <1>5, <2>0, <2>1 DEF FixedLinks, Typed
  <2> QED BY <1>4, <1>15, <2>0, <2>2 DEF Fixed
<1> QED BY <1>8, <1>9, <1>10, <1>11, <1>12, <1>14, <1>16, <1>17

\* The end of the colouring keeps the invariant.
LEMMA DoneInv == ASSUME IInv, Done PROVE IInv'
<1>1. ~ Popping' /\ UNCHANGED <<lives, graph, links, regno, stack, free>> /\ pc' # "unconstrained"
  BY DEF Done, Popping
<1>2. Fixed' = Fixed /\ (Popping => graph = {})
  BY <1>1 DEF Done, Popping, Fixed
<1> QED BY <1>1, <1>2 DEF IInv, Typed, Parted, Uncolored, GraphLinks, StackLinks, FixedLinks, FreeFirst,
                          VarsApart, FixedApartIfFree, Items, Below

\* Every step keeps the invariant.
LEMMA InvStep == ASSUME RegAllocAssumption, IInv, [Next]_raVars PROVE IInv'
<1>1. CASE \E v \in Vars : Unconstrained(v)
  BY <1>1, UnconstrainedInv
<1>2. ASSUME NEW n \in Nodes, Constrained(n) PROVE IInv'
  BY <1>2, PopLaterInv DEF Constrained, Popping
<1>3. ASSUME NEW n \in Nodes, Rest(n) PROVE IInv'
  BY <1>3, PopLaterInv DEF Rest, Popping
<1>4. CASE Color
  BY <1>4, ColorInv
<1>5. CASE Done
  BY <1>5, DoneInv
<1>6. CASE UNCHANGED raVars
  BY <1>6 DEF raVars, IInv, Typed, Parted, Uncolored, GraphLinks, StackLinks, FixedLinks, FreeFirst,
              VarsApart, FixedApartIfFree, Items, Below, Fixed, Popping
<1> QED BY <1>1, <1>2, <1>3, <1>4, <1>5, <1>6 DEF Next

-----------------------------------------------------------------------------
\* The invariant holds throughout.
LEMMA Invariance == Spec => []IInv
  BY RegAllocAssumption, InitInv, InvStep, PTL DEF Spec

\* Two variables that are live at the same time never get the same register,
\* whatever the graph, the number of registers and the order of the sets.
THEOREM VariablesApart == Spec => []VarsApart
<1>1. IInv => VarsApart
  BY DEF IInv
<1> QED BY <1>1, Invariance, PTL

\* A variable that was taken out as unconstrained never gets a register that an
\* instruction writes or reads by name while the variable is live.
THEOREM FixedApartFromFree == Spec => []FixedApartIfFree
<1>1. IInv => FixedApartIfFree
  BY DEF IInv
<1> QED BY <1>1, Invariance, PTL
-----------------------------------------------------------------------------
(* No unconstrained variable is spilled.  The links of a node on the stack  *)
(* do not change any more: all of them left after it, so none of them is    *)
(* below it and all have come back before it does.                          *)

Above(k) == {stack[j] : j \in k + 1 .. Len(stack)}

\* The neighbours of a node on the stack left after it.
LinksAbove ==
  Fixed = {} => \A k \in 1 .. Len(stack) : links[stack[k]] \subseteq graph \union Above(k)

\* A variable that was unconstrained has as few neighbours as when it was popped.
FewOnStack == Fixed = {} => \A k \in 1 .. Len(stack) : stack[k] \in free => FewLinks(stack[k])

FreeColored == Fixed = {} => \A v \in free \intersect graph : regno[v] # REGNO_NONE

AllBack == pc = "done" => stack = <<>>

CInv == IInv /\ LinksAbove /\ FewOnStack /\ FreeColored /\ AllBack
-----------------------------------------------------------------------------
\* Any set of nodes is finite.
LEMMA LinksFinite ==
  ASSUME RegAllocAssumption, NEW S, S \subseteq Nodes
  PROVE  IsFiniteSet(S) /\ Cardinality(S) \in Nat
<1>1. IsFiniteSet(Regs)
  BY RegAllocAssumption, FS_Interval DEF Regs
<1>2. IsFiniteSet(Nodes)
  BY <1>1, RegAllocAssumption, FS_Union DEF Nodes
<1>3. IsFiniteSet(S)
  BY <1>2, FS_Subset
<1> QED BY <1>3, FS_CardinalityType

\* Fewer neighbours than registers leave one register free, whatever the neighbours have.
LEMMA OneIsFree ==
  ASSUME RegAllocAssumption, NEW S, S \subseteq Nodes, Cardinality(S) < NumRegs, NEW f
  PROVE  Regs \ {f[m] : m \in S} # {}
<1> DEFINE T == {f[m] : m \in S}
           g == [m \in S |-> f[m]]
<1>1. IsFiniteSet(S) /\ Cardinality(S) \in Nat
  BY LinksFinite
<1>2. g \in Surjection(S, T)
  BY DEF Surjection, Range
<1>3. IsFiniteSet(T) /\ Cardinality(T) <= Cardinality(S)
  BY <1>1, <1>2, FS_Surjection
<1>4. Cardinality(T) \in Nat
  BY <1>3, FS_CardinalityType
<1>5. Cardinality(Regs) = NumRegs
  BY RegAllocAssumption, FS_Interval DEF Regs
<1>6. ASSUME Regs \subseteq T PROVE FALSE
  <2>1. Cardinality(Regs) <= Cardinality(T)
    BY <1>3, <1>6, FS_Subset
  <2> QED BY <1>1, <1>3, <1>4, <1>5, <2>1, RegAllocAssumption
<1> QED BY <1>6

\* An empty stack has nothing to count.
LEMMA InitC == ASSUME RegAllocAssumption, Init PROVE CInv
<1>1. stack = <<>> /\ free = {}
  BY DEF Init
<1> QED BY <1>1, InitInv DEF CInv, LinksAbove, FewOnStack, FreeColored, AllBack

\* Popping a node: it is above all others, and nobody gains a link.
LEMMA PopC ==
  ASSUME RegAllocAssumption, CInv, IInv', Popping, Popping', NEW n \in graph, pop_node(n),
         free' \subseteq free \union {n}, n \in free' => n \in Vars /\ FewLinks(n)
  PROVE  CInv'
<1> USE DEF CInv, IInv
<1> SUFFICES ASSUME Fixed = {}, Fixed' = {} PROVE LinksAbove' /\ FewOnStack' /\ FreeColored'
  <2>1. Fixed' = Fixed
    BY DEF pop_node, Fixed
  <2>2. AllBack'
    BY DEF AllBack, Popping
  <2> QED BY <2>1, <2>2 DEF LinksAbove, FewOnStack, FreeColored
<1>1. /\ n \in Nodes /\ n \in Vars /\ stack \in Seq(Nodes) /\ stack' = Append(stack, n)
      /\ Len(stack') = Len(stack) + 1 /\ graph' = graph \ {n} /\ regno' = regno
  BY DEF Typed, Parted, pop_node
<1>2. \A k \in 1 .. Len(stack) : stack'[k] = stack[k] /\ stack[k] \in Nodes /\ stack[k] # n
  BY <1>1 DEF Parted, Items
<1>3. stack'[Len(stack) + 1] = n
  BY <1>1
<1>4. \A m \in Nodes : links'[m] = IF m \in links[n] THEN links[m] \ {n} ELSE links[m]
  BY DEF pop_node
<1>5. \A m \in Nodes : links'[m] \subseteq links[m] /\ links[m] \subseteq Nodes
  BY <1>4 DEF Typed
<1>6. links'[n] \subseteq graph'
  <2>1. links[n] \subseteq graph
    BY <1>1 DEF GraphLinks
  <2>2. n \notin links'[n]
    BY <1>1, <1>4
  <2> QED BY <1>1, <1>5, <2>1, <2>2
<1>7. \A m \in Nodes : FewLinks(m) => FewLinks(m)'
  <2> SUFFICES ASSUME NEW m \in Nodes, FewLinks(m) PROVE FewLinks(m)'
    OBVIOUS
  <2>1. IsFiniteSet(links[m]) /\ Cardinality(links[m]) \in Nat
    BY <1>5, LinksFinite
  <2>2. links'[m] \in SUBSET links[m]
    BY <1>5
  <2>3. Cardinality(links'[m]) <= Cardinality(links[m]) /\ Cardinality(links'[m]) \in Nat
    BY <2>1, <2>2, FS_Subset, FS_CardinalityType
  <2> QED BY <2>1, <2>3, RegAllocAssumption DEF FewLinks
<1>8. LinksAbove'
  <2> SUFFICES ASSUME NEW k \in 1 .. Len(stack'), NEW m \in links'[stack'[k]], m \notin graph'
               PROVE  m \in Above(k)'
    BY DEF LinksAbove
  <2>1. k \in 1 .. Len(stack) /\ stack'[k] = stack[k] /\ m \in links[stack[k]]
    BY <1>1, <1>2, <1>3, <1>5, <1>6
  <2>2. CASE m = n
    <3>1. Len(stack') \in k + 1 .. Len(stack') /\ stack'[Len(stack')] = n
      BY <1>1, <1>3, <2>1
    <3> QED BY <2>2, <3>1 DEF Above
  <2>3. CASE m # n
    <3>1. m \in Above(k)
      BY <1>1, <2>1, <2>3 DEF LinksAbove
    <3>2. PICK j \in k + 1 .. Len(stack) : m = stack[j]
      BY <3>1 DEF Above
    <3>3. j \in k + 1 .. Len(stack') /\ stack'[j] = m
      BY <1>1, <1>2, <2>1, <3>2
    <3> QED BY <3>3 DEF Above
  <2> QED BY <2>2, <2>3
<1>9. FewOnStack'
  <2> SUFFICES ASSUME NEW k \in 1 .. Len(stack'), stack'[k] \in free'
               PROVE  Cardinality(links'[stack'[k]]) < NumRegs
    BY DEF FewOnStack, FewLinks
  <2>1. stack'[k] \in Nodes /\ FewLinks(stack'[k])
    BY <1>1, <1>2, <1>3 DEF FewOnStack
  <2>2. PICK m \in Nodes : m = stack'[k] /\ FewLinks(m)
    BY <2>1
  <2>3. FewLinks(m)'
    BY <1>7, <2>2
  <2> QED BY <2>2, <2>3 DEF FewLinks
<1>10. FreeColored'
  BY <1>1 DEF FreeColored, FreeFirst
<1> QED BY <1>8, <1>9, <1>10

\* A node that comes back keeps the count of those below it.
LEMMA ColorC == ASSUME RegAllocAssumption, CInv, IInv', Color PROVE CInv'
<1> USE DEF CInv, IInv
<1> DEFINE n == stack[Len(stack)]
<1>1. /\ Len(stack) \in Nat \ {0} /\ n \in Nodes /\ n \in Items(stack) /\ n \notin graph
      /\ Len(stack') = Len(stack) - 1
      /\ \A k \in 1 .. Len(stack') : k \in 1 .. Len(stack) /\ stack'[k] = stack[k] /\ stack[k] # n
      /\ \A k \in 1 .. Len(stack) : stack[k] \in Nodes /\ stack[k] \notin graph
  <2>1. stack \in Seq(Nodes) /\ stack # <<>> /\ stack' = SubSeq(stack, 1, Len(stack) - 1)
    BY DEF Color, Typed
  <2>2. Len(stack) \in Nat \ {0} /\ n \in Nodes /\ n \in Items(stack)
    BY <2>1 DEF Items
  <2>3. Len(stack') = Len(stack) - 1
    BY <2>1, ShorterSeq
  <2>4. ASSUME NEW k \in 1 .. Len(stack) PROVE stack[k] \in Nodes /\ stack[k] \notin graph
    <3>1. stack[k] \in Items(stack)
      BY DEF Items
    <3> QED BY <2>1, <3>1 DEF Parted
  <2>5. \A k \in 1 .. Len(stack') : k \in 1 .. Len(stack) /\ stack'[k] = stack[k] /\ stack[k] # n
    BY <2>1, <2>2, <2>3 DEF Parted
  <2> QED BY <2>2, <2>3, <2>4, <2>5
<1>2. /\ graph' = graph \union {n} /\ free' = free
      /\ links' = [m \in Nodes |-> IF m \in links[n] THEN links[m] \union {n} ELSE links[m]]
      /\ regno' = [regno EXCEPT ![n] = choose_one_reg(n, links')]
  BY DEF Color
<1>3. Fixed' = {} => Fixed = {}
  <2> SUFFICES ASSUME NEW r \in Fixed PROVE r \in Fixed'
    OBVIOUS
  <2>1. r \in Regs /\ r \in Nodes /\ regno[r] # REGNO_NONE
    BY DEF Fixed, Nodes
  <2>2. regno'[r] # REGNO_NONE
    BY <1>1, <1>2, <2>1 DEF Typed, choose_one_reg
  <2> QED BY <2>1, <2>2 DEF Fixed
<1> SUFFICES ASSUME Fixed = {} PROVE LinksAbove' /\ FewOnStack' /\ FreeColored'
  <2>1. AllBack'
    BY DEF AllBack, Color
  <2> QED BY <1>3, <2>1 DEF LinksAbove, FewOnStack, FreeColored
<1>4. links[n] \subseteq graph
  <2>1. Above(Len(stack)) = {}
    BY <1>1 DEF Above
  <2> QED BY <1>1, <2>1 DEF LinksAbove
<1>5. \A m \in Nodes : m \notin graph => links'[m] = links[m]
  BY <1>2, <1>4
<1>6. LinksAbove'
  <2> SUFFICES ASSUME NEW k \in 1 .. Len(stack'), NEW m \in links'[stack'[k]], m \notin graph'
               PROVE  m \in Above(k)'
    BY DEF LinksAbove
  <2>1. m \in Above(k) /\ m # n
    BY <1>1, <1>2, <1>5 DEF LinksAbove
  <2>2. PICK j \in k + 1 .. Len(stack) : m = stack[j]
    BY <2>1 DEF Above
  <2>3. j \in k + 1 .. Len(stack') /\ j \in 1 .. Len(stack')
    BY <1>1, <2>1, <2>2
  <2> QED BY <1>1, <2>2, <2>3 DEF Above
<1>7. FewOnStack'
  <2> SUFFICES ASSUME NEW k \in 1 .. Len(stack'), stack'[k] \in free'
               PROVE  Cardinality(links'[stack'[k]]) < NumRegs
    BY DEF FewOnStack, FewLinks
  <2>1. stack'[k] = stack[k] /\ stack[k] \in Nodes /\ stack[k] \notin graph /\ FewLinks(stack[k])
    BY <1>1, <1>2 DEF FewOnStack
  <2> QED BY <1>5, <2>1 DEF FewLinks
<1>8. ASSUME n \in free PROVE regno'[n] # REGNO_NONE
  <2>1. n \in Vars /\ regno[n] = REGNO_NONE
    BY <1>1, <1>8 DEF Uncolored, Typed
  <2>2. links'[n] = links[n] /\ links[n] \subseteq Nodes /\ Cardinality(links[n]) < NumRegs
    BY <1>1, <1>5, <1>8 DEF FewOnStack, FewLinks, Typed
  <2>3. Regs \ Taken(n, links') # {}
    BY <2>2, RegAllocAssumption, OneIsFree DEF Taken
  <2>4. regno'[n] = Choice(Regs \ Taken(n, links'))
    <3>1. regno'[n] = choose_one_reg(n, links')
      BY <1>1, <1>2 DEF Typed
    <3> QED BY <2>1, <3>1 DEF choose_one_reg
  <2>5. Choice(Regs \ Taken(n, links')) \in Regs
    BY <2>3, RegAllocAssumption, ChoiceMade
  <2> QED BY <2>4, <2>5 DEF Regs, REGNO_NONE
<1>9. FreeColored'
  <2>1. \A v \in Nodes : v # n => regno'[v] = regno[v]
    BY <1>2 DEF Typed
  <2> QED BY <1>2, <1>8, <2>1 DEF FreeColored, Typed, Nodes
<1> QED BY <1>6, <1>7, <1>9

\* Every step keeps the invariant.
LEMMA CInvStep == ASSUME RegAllocAssumption, CInv, [Next]_raVars PROVE CInv'
<1>0. IInv'
  BY InvStep DEF CInv
<1>1. ASSUME NEW v \in Vars, Unconstrained(v) PROVE CInv'
  BY <1>0, <1>1, PopC DEF Unconstrained, Popping
<1>2. ASSUME NEW n \in Nodes, Constrained(n) \/ Rest(n) PROVE CInv'
  <2>1. Popping /\ Popping' /\ n \in graph /\ pop_node(n) /\ free' = free
    BY <1>2 DEF Constrained, Rest, Popping
  <2>2. n \notin free
    BY <2>1 DEF CInv, IInv, FreeFirst
  <2> QED BY <1>0, <2>1, <2>2, PopC
<1>3. CASE Color
  BY <1>0, <1>3, ColorC
<1>4. CASE Done \/ UNCHANGED raVars
  <2>1. UNCHANGED <<graph, links, regno, stack, free>>
    BY <1>4 DEF Done, raVars
  <2>2. AllBack'
    BY <1>4 DEF CInv, AllBack, Done, raVars
  <2> QED BY <1>0, <2>1, <2>2 DEF CInv, LinksAbove, FewOnStack, FreeColored, FewLinks, Above, Fixed
<1> QED BY <1>1, <1>2, <1>3, <1>4 DEF Next

\* Where no register is fixed, a variable that was taken out as unconstrained gets a
\* register, whatever the graph and the order: it is never the one that makes regalloc spill.
THEOREM UnconstrainedNeverSpills == Spec => []UnconstrainedColored
<1>1. Spec => []CInv
  BY RegAllocAssumption, InitC, CInvStep, PTL DEF Spec
<1>2. CInv => UnconstrainedColored
  <2> SUFFICES ASSUME CInv, pc = "done", Fixed = {}, NEW v \in free PROVE regno[v] # REGNO_NONE
    BY DEF UnconstrainedColored
  <2>1. Items(stack) = {}
    BY DEF CInv, AllBack, Items
  <2>2. v \in graph
    <3>1. graph \union Items(stack) = Vars \union Fixed /\ free \subseteq Vars
      BY DEF CInv, IInv, Parted, Typed
    <3> QED BY <2>1, <3>1
  <2> QED BY <2>2 DEF CInv, FreeColored
<1> QED BY <1>1, <1>2, PTL
-----------------------------------------------------------------------------
(* The third part: what is true of the graph while the nodes come back.     *)
(* With it a run that ends without must_spill has a register for every      *)
(* variable, and all links are there again.                                 *)

PcTyped ==
  /\ pc \in {"unconstrained", "constrained", "rest", "color", "done"}
  /\ must_spill \in BOOLEAN

\* The neighbours of a variable on the stack left after it.
VarsAbove ==
  \A k \in 1 .. Len(stack) : stack[k] \in Vars => links[stack[k]] \subseteq graph \union Above(k)

\* A variable in the graph is linked to nothing on the stack.
LinksIn == \A v \in graph \intersect Vars : links[v] \intersect Items(stack) = {}

\* It is linked to all it lives with that is not on the stack.
LinksBack == \A v \in graph \intersect Vars : lives[v] \subseteq links[v] \union Items(stack)

\* As long as none must spill, each variable that is back has a register.
Unspilled == ~ must_spill /\ ~ Popping => \A v \in graph \intersect Vars : regno[v] # REGNO_NONE

BInv == CInv /\ PcTyped /\ VarsAbove /\ LinksIn /\ LinksBack /\ Unspilled
-----------------------------------------------------------------------------
\* At the start all links are there.
LEMMA StartB ==
  ASSUME CInv, stack = <<>>, links = lives, pc = "unconstrained", must_spill = FALSE
  PROVE  BInv
<1>1. Items(stack) = {} /\ Len(stack) = 0 /\ Popping
  BY DEF Items, Popping
<1>2. PcTyped /\ Unspilled
  BY <1>1 DEF PcTyped, Unspilled
<1>3. VarsAbove /\ LinksIn /\ LinksBack
  BY <1>1 DEF VarsAbove, LinksIn, LinksBack
<1> QED BY <1>2, <1>3 DEF BInv

\* Popping a node takes it out of the links of all that stays.
LEMMA PopB ==
  ASSUME RegAllocAssumption, BInv, CInv', Popping, Popping', NEW n \in graph, pop_node(n)
  PROVE  BInv'
<1> USE DEF BInv, CInv, IInv
<1>1. /\ n \in Nodes /\ stack \in Seq(Nodes) /\ stack' = Append(stack, n)
      /\ Len(stack') = Len(stack) + 1 /\ graph' = graph \ {n}
  BY DEF Typed, pop_node
<1>2. \A k \in 1 .. Len(stack) : stack'[k] = stack[k] /\ stack[k] \in Nodes
  BY <1>1
<1>3. stack'[Len(stack) + 1] = n
  BY <1>1
<1>4. \A m \in Nodes : links'[m] = IF m \in links[n] THEN links[m] \ {n} ELSE links[m]
  BY DEF pop_node
<1>5. \A m \in Nodes : links'[m] \subseteq links[m] /\ links[m] \subseteq Nodes
  BY <1>4 DEF Typed
<1>6. PcTyped'
  BY DEF PcTyped, Popping, pop_node
<1>7. VarsAbove'
  <2> SUFFICES ASSUME NEW k \in 1 .. Len(stack'), stack'[k] \in Vars,
                      NEW m \in links'[stack'[k]], m \notin graph'
               PROVE  m \in Above(k)'
    BY DEF VarsAbove
  <2>1. CASE k = Len(stack) + 1
    <3>1. n \in Vars /\ m \in links'[n]
      BY <1>3, <2>1
    <3>2. m \in links[n] /\ links[n] \subseteq graph /\ n \notin links'[n]
      BY <1>1, <1>4, <3>1 DEF GraphLinks, Typed
    <3> QED BY <1>1, <3>1, <3>2
  <2>2. CASE k \in 1 .. Len(stack)
    <3>1. stack'[k] = stack[k] /\ m \in links[stack[k]]
      BY <1>2, <1>5, <2>2
    <3>2. CASE m = n
      <4>1. Len(stack') \in k + 1 .. Len(stack') /\ stack'[Len(stack')] = n
        BY <1>1, <1>3, <2>2
      <4> QED BY <3>2, <4>1 DEF Above
    <3>3. CASE m # n
      <4>1. m \in Above(k)
        BY <1>1, <2>2, <3>1, <3>3 DEF VarsAbove
      <4>2. PICK j \in k + 1 .. Len(stack) : m = stack[j]
        BY <4>1 DEF Above
      <4>3. j \in k + 1 .. Len(stack') /\ stack'[j] = m
        BY <1>1, <1>2, <2>2, <4>2
      <4> QED BY <4>3 DEF Above
    <3> QED BY <3>2, <3>3
  <2> QED BY <1>1, <2>1, <2>2
<1>8. LinksIn' /\ LinksBack'
  BY DEF LinksIn, LinksBack, GraphLinks, Parted
<1>9. Unspilled'
  BY DEF Unspilled
<1> QED BY <1>6, <1>7, <1>8, <1>9

\* The node that comes back is linked to what it lives with, as far as that is back.
LEMMA ColorB == ASSUME RegAllocAssumption, BInv, CInv', Color PROVE BInv'
<1> USE DEF BInv, CInv, IInv
<1> DEFINE n == stack[Len(stack)]
<1>1. /\ Len(stack) \in Nat \ {0} /\ n \in Nodes /\ n \in Items(stack) /\ n \notin graph
      /\ Len(stack') = Len(stack) - 1
      /\ \A k \in 1 .. Len(stack') : k \in 1 .. Len(stack) /\ stack'[k] = stack[k] /\ stack[k] # n
      /\ \A k \in 1 .. Len(stack) : stack[k] \in Nodes /\ stack[k] \notin graph
  <2>1. stack \in Seq(Nodes) /\ stack # <<>> /\ stack' = SubSeq(stack, 1, Len(stack) - 1)
    BY DEF Color, Typed
  <2>2. Len(stack) \in Nat \ {0} /\ n \in Nodes /\ n \in Items(stack)
    BY <2>1 DEF Items
  <2>3. Len(stack') = Len(stack) - 1
    BY <2>1, ShorterSeq
  <2>4. ASSUME NEW k \in 1 .. Len(stack) PROVE stack[k] \in Nodes /\ stack[k] \notin graph
    <3>1. stack[k] \in Items(stack)
      BY DEF Items
    <3> QED BY <2>1, <3>1 DEF Parted
  <2>5. \A k \in 1 .. Len(stack') : k \in 1 .. Len(stack) /\ stack'[k] = stack[k] /\ stack[k] # n
    BY <2>1, <2>2, <2>3 DEF Parted
  <2> QED BY <2>2, <2>3, <2>4, <2>5
<1>2. /\ graph' = graph \union {n} /\ lives' = lives /\ pc' = "color" /\ ~ Popping'
      /\ pc = "color" \/ graph = {}
      /\ links' = [m \in Nodes |-> IF m \in links[n] THEN links[m] \union {n} ELSE links[m]]
      /\ regno' = [regno EXCEPT ![n] = choose_one_reg(n, links')]
      /\ must_spill' = (must_spill \/ regno'[n] = REGNO_NONE)
  BY DEF Color, Popping
<1>3. Items(stack') = Items(stack) \ {n}
  <2>1. \A k \in 1 .. Len(stack) : stack[k] # n => k \in 1 .. Len(stack')
    BY <1>1
  <2> QED BY <1>1, <2>1 DEF Items
<1>4. n \in Vars => links[n] \subseteq graph
  <2>1. Above(Len(stack)) = {}
    BY <1>1 DEF Above
  <2> QED BY <1>1, <2>1 DEF VarsAbove
<1>5. /\ \A m \in Nodes : links[m] \subseteq links'[m] /\ links'[m] \subseteq links[m] \union {n}
      /\ \A m \in Nodes : m \in links[n] => n \in links'[m]
  BY <1>2
<1>6. PcTyped'
  BY <1>2 DEF PcTyped
<1>7. VarsAbove'
  <2> SUFFICES ASSUME NEW k \in 1 .. Len(stack'), stack'[k] \in Vars,
                      NEW m \in links'[stack'[k]], m \notin graph'
               PROVE  m \in Above(k)'
    BY DEF VarsAbove
  <2>1. m \in Above(k) /\ m # n
    BY <1>1, <1>2, <1>5 DEF VarsAbove
  <2>2. PICK j \in k + 1 .. Len(stack) : m = stack[j]
    BY <2>1 DEF Above
  <2>3. j \in k + 1 .. Len(stack') /\ j \in 1 .. Len(stack')
    BY <1>1, <2>1, <2>2
  <2> QED BY <1>1, <2>2, <2>3 DEF Above
<1>8. LinksIn'
  <2> SUFFICES ASSUME NEW v \in graph' \intersect Vars, NEW m \in links'[v], m \in Items(stack')
               PROVE  FALSE
    BY DEF LinksIn
  <2>1. m # n /\ m \in Items(stack) /\ m \in links[v] /\ v \in Nodes
    BY <1>3, <1>5 DEF Nodes
  <2>2. CASE v = n
    BY <1>4, <2>1, <2>2 DEF Parted
  <2>3. CASE v # n
    BY <1>2, <2>1, <2>3 DEF LinksIn
  <2> QED BY <2>2, <2>3
<1>9. LinksBack'
  <2> SUFFICES ASSUME NEW v \in graph' \intersect Vars, NEW m \in lives[v], m \notin Items(stack')
               PROVE  m \in links'[v]
    BY <1>2 DEF LinksBack
  <2>1. m \in Vars /\ m # v /\ v \in lives[m] /\ v \in Nodes /\ m \in Nodes
    BY DEF Typed, Nodes
  <2>2. ASSUME NEW u \in lives[n], n \in Vars PROVE u \in links[n] \/ u \in Items(stack')
    <3>1. u \in links[n] \/ u \in Below(Len(stack))
      BY <1>1, <2>2 DEF StackLinks
    <3>2. Below(Len(stack)) = Items(stack')
      BY <1>1 DEF Below, Items
    <3> QED BY <3>1, <3>2
  <2>3. CASE v = n
    BY <1>5, <2>1, <2>2, <2>3
  <2>4. CASE v # n /\ m = n
    <3>1. v \in graph
      BY <1>2, <2>4
    <3>2. v \notin Items(stack')
      BY <1>3, <3>1 DEF Parted
    <3> QED BY <1>5, <2>1, <2>2, <2>4, <3>2
  <2>5. CASE v # n /\ m # n
    <3>1. v \in graph /\ m \notin Items(stack)
      BY <1>2, <1>3, <2>5
    <3> QED BY <1>5, <2>1, <3>1 DEF LinksBack
  <2> QED BY <2>3, <2>4, <2>5
<1>10. Unspilled'
  <2> SUFFICES ASSUME ~ must_spill', NEW v \in graph' \intersect Vars PROVE regno'[v] # REGNO_NONE
    BY DEF Unspilled
  <2>1. ~ must_spill /\ regno'[n] # REGNO_NONE
    BY <1>2
  <2>2. CASE v = n
    BY <2>1, <2>2
  <2>3. CASE v # n
    <3>1. v \in graph /\ pc = "color" /\ ~ Popping
      BY <1>2, <2>3 DEF Popping
    <3>2. regno'[v] = regno[v]
      BY <1>2, <2>3 DEF Typed, Nodes
    <3> QED BY <2>1, <3>1, <3>2 DEF Unspilled
  <2> QED BY <2>2, <2>3
<1> QED BY <1>6, <1>7, <1>8, <1>9, <1>10

\* Every step keeps the invariant.
LEMMA BInvStep == ASSUME RegAllocAssumption, BInv, [Next]_raVars PROVE BInv'
<1>0. CInv'
  BY CInvStep DEF BInv
<1>1. ASSUME NEW n \in graph, pop_node(n), Popping, Popping' PROVE BInv'
  BY <1>0, <1>1, PopB
<1>2. ASSUME NEW n \in Nodes, Unconstrained(n) \/ Constrained(n) \/ Rest(n) PROVE BInv'
  BY <1>1, <1>2 DEF Unconstrained, Constrained, Rest, Popping
<1>3. CASE Color
  BY <1>0, <1>3, ColorB
<1>4. CASE Done
  <2>1. UNCHANGED <<lives, graph, links, regno, stack, must_spill>> /\ pc' = "done"
    BY <1>4 DEF Done
  <2>2. Popping => graph = {}
    BY <1>4 DEF Done, Popping
  <2>3. VarsAbove' /\ LinksIn' /\ LinksBack' /\ PcTyped'
    BY <2>1 DEF BInv, VarsAbove, LinksIn, LinksBack, PcTyped, Above, Items
  <2>4. Unspilled'
    BY <2>1, <2>2 DEF BInv, Unspilled
  <2> QED BY <1>0, <2>3, <2>4 DEF BInv
<1>5. CASE UNCHANGED raVars
  BY <1>0, <1>5 DEF BInv, raVars, VarsAbove, LinksIn, LinksBack, PcTyped, Unspilled, Popping, Above, Items
<1> QED BY <1>2, <1>3, <1>4, <1>5 DEF Next, Nodes

\* Only the colouring writes a register number, and it leaves those of fixed registers.
LEMMA FixedStays == ASSUME RegAllocAssumption, IInv, [Next]_raVars PROVE Fixed' = Fixed /\ lives' = lives
<1>1. CASE Color
  <2> DEFINE n == stack[Len(stack)]
  <2>1. n \in Items(stack)
    BY <1>1, ShorterSeq DEF IInv, Typed, Color, Items
  <2>2. n \in Vars \/ n \in Fixed
    BY <2>1 DEF IInv, Parted
  <2>3. \A r \in Regs : regno'[r] = regno[r]
    BY <1>1, <2>2, RegAllocAssumption DEF Color, IInv, Typed, Nodes, Fixed, Regs, choose_one_reg
  <2> QED BY <1>1, <2>3 DEF Fixed, Color
<1>2. CASE UNCHANGED <<lives, regno>>
  BY <1>2 DEF Fixed
<1> QED BY <1>1, <1>2 DEF Next, Unconstrained, Constrained, Rest, Done, pop_node, raVars

\* A list without repetition is as long as the set of its members is large.
LEMMA StackCounted ==
  ASSUME NEW s \in Seq(Nodes), \A j, k \in 1 .. Len(s) : s[j] = s[k] => j = k
  PROVE  Len(s) = Cardinality(Items(s))
<1>1. s \in [1 .. Len(s) -> Items(s)]
  BY DEF Items
<1>2. s \in Bijection(1 .. Len(s), Items(s))
  BY <1>1 DEF Bijection, Injection, IsInjective, Surjection, Range, Items
<1>3. Len(s) \in Nat
  OBVIOUS
<1>4. IsFiniteSet(1 .. Len(s)) /\ Cardinality(1 .. Len(s)) = Len(s)
  <2>1. 1 \in Int /\ Len(s) \in Int /\ Len(s) - 1 + 1 = Len(s) /\ (~ (1 > Len(s)) \/ Len(s) = 0)
    BY <1>3
  <2> QED BY <1>3, <2>1, FS_Interval
<1>5. Cardinality(1 .. Len(s)) = Cardinality(Items(s))
  BY <1>2, <1>4, FS_Bijection DEF ExistsBijection
<1> QED BY <1>4, <1>5

\* The invariant includes all that the model's type invariant says.
LEMMA BInvTyped == ASSUME RegAllocAssumption, BInv PROVE TypeOK
<1> USE DEF BInv, CInv, IInv
<1>1. /\ lives \in [Nodes -> SUBSET Vars] /\ links \in [Nodes -> SUBSET Nodes]
      /\ regno \in [Nodes -> Regs \union {REGNO_NONE}] /\ free \subseteq Vars
  BY DEF Typed
<1>2. /\ graph \intersect Items(stack) = {} /\ graph \union Items(stack) = Vars \union Fixed
      /\ Len(stack) = Cardinality(Items(stack))
  BY StackCounted DEF Typed, Parted
<1>3. \A v \in graph \intersect Vars : links[v] \intersect Items(stack) = {}
  BY DEF LinksIn
<1>4. ASSUME pc = "done", NEW n \in Vars \union Fixed PROVE lives[n] \subseteq links[n]
  <2>1. Items(stack) = {}
    BY <1>4 DEF AllBack, Items
  <2>2. CASE n \in Vars
    BY <1>2, <2>1, <2>2 DEF LinksBack
  <2>3. CASE n \in Fixed
    BY <2>3 DEF FixedLinks
  <2> QED BY <2>2, <2>3, <1>4
<1> QED BY <1>1, <1>2, <1>3, <1>4 DEF TypeOK, PcTyped

\* Each node is in the graph or on the stack, once, whatever the order in which nodes are
\* taken; nothing in the graph is linked to what has left it, and when all nodes are back
\* each is linked to all it lives with, as ra_spill and a new start need it.
THEOREM EachNodeInOnePlace == Spec => []TypeOK
<1>1. Init => BInv
  <2>1. Init => CInv /\ stack = <<>> /\ links = lives /\ pc = "unconstrained" /\ must_spill = FALSE
    BY RegAllocAssumption, InitC DEF Init
  <2> QED BY <2>1, StartB
<1>2. Spec => []BInv
  BY <1>1, BInvStep, RegAllocAssumption, PTL DEF Spec
<1>3. BInv => TypeOK
  BY BInvTyped, RegAllocAssumption
<1> QED BY <1>2, <1>3, PTL

-----------------------------------------------------------------------------
(* Spill: regalloc at its label `again'.                                    *)

\* regalloc at its label `again': the links are as ra_liveness returns them.
Fresh ==
  /\ lives \in [Nodes -> SUBSET Vars] /\ links = lives
  /\ \A u, v \in Vars : v \in lives[u] => u # v /\ u \in lives[v]
  /\ graph = Vars /\ regno = [n \in Nodes |-> REGNO_NONE]
  /\ stack = <<>> /\ pc = "unconstrained" /\ free = {}

-----------------------------------------------------------------------------
\* Whatever the function is, link_vars links its variables both ways.
LEMMA InterferenceLinks ==
  ASSUME RegAllocAssumption, NEW c
  PROVE  /\ Interference(c) \in [Nodes -> SUBSET Vars]
         /\ \A u, v \in Vars : v \in Interference(c)[u] => u # v /\ u \in Interference(c)[v]
<1> DEFINE sets == {LiveIn(c, i) : i \in DOMAIN c}
<1>1. Interference(c) = [n \in Nodes |-> {v \in Vars \ {n} : \E live \in sets : {n, v} \subseteq live}]
  BY DEF Interference
<1> HIDE DEF sets
<1>2. Interference(c) \in [Nodes -> SUBSET Vars]
  BY <1>1
<1>3. \A u, v \in Vars : v \in Interference(c)[u] <=> u # v /\ \E live \in sets : {u, v} \subseteq live
  BY <1>1 DEF Nodes
<1> QED BY <1>2, <1>3

\* The graph liveness makes of any code satisfies the invariant.
LEMMA FreshInv == Fresh => IInv
<1> SUFFICES ASSUME Fresh PROVE IInv
  OBVIOUS
<1> USE RegAllocAssumption DEF Fresh, REGNO_NONE
<1>1. stack = <<>> /\ Len(stack) = 0 /\ Items(stack) = {} /\ free = {} /\ Popping
  BY DEF Items, Popping
<1>2. Fixed = {} /\ \A v \in Vars : regno[v] = REGNO_NONE
  BY DEF Fixed, Nodes, Regs
<1>3. \A n \in Nodes : lives[n] \subseteq Vars
  OBVIOUS
<1>4. Typed
  BY <1>1 DEF Typed, Nodes
<1>5. Parted /\ Uncolored /\ StackLinks
  BY <1>1, <1>2 DEF Parted, Uncolored, StackLinks
<1>6. GraphLinks /\ FixedLinks
  BY <1>1, <1>2, <1>3 DEF GraphLinks, FixedLinks, Nodes
<1>7. FreeFirst /\ VarsApart /\ FixedApartIfFree
  BY <1>1, <1>2 DEF FreeFirst, VarsApart, FixedApartIfFree
<1> QED BY <1>4, <1>5, <1>6, <1>7 DEF IInv

\* So does that of the first code.
LEMMA SpillInitInv == SpillInit => IInv
<1>1. SpillInit => Fresh
  BY RegAllocAssumption, InterferenceLinks DEF SpillInit, Fresh
<1> QED BY <1>1, FreshInv

\* And that of the code a spill leaves.
LEMMA StartInv == ASSUME NEW v \in Vars, ra_spill(v) PROVE IInv'
<1>1. Fresh'
  BY RegAllocAssumption, InterferenceLinks DEF ra_spill, Start, Fresh
<1>2. Fresh' => IInv'
  BY FreshInv, PTL
<1> QED BY <1>1, <1>2

\* Every step keeps the invariant.
LEMMA SpillStep == IInv /\ [SpillNext]_spillVars => IInv'
<1> SUFFICES ASSUME IInv, [SpillNext]_spillVars PROVE IInv'
  OBVIOUS
<1>1. CASE Next
  BY <1>1, RegAllocAssumption, InvStep
<1>2. CASE \E v \in Vars : ra_spill(v)
  BY <1>2, StartInv
<1>3. CASE UNCHANGED spillVars
  BY <1>3, RegAllocAssumption, InvStep DEF spillVars
<1> QED BY <1>1, <1>2, <1>3 DEF SpillNext

\* Two variables that are live at the same time never get the same register, in the
\* first attempt and in every attempt after a spill, for any function.
THEOREM SpilledVariablesApart == SpillSpec => []VarsApart
<1>1. SpillSpec => []IInv
  BY SpillInitInv, SpillStep, PTL DEF SpillSpec
<1>2. IInv => VarsApart
  BY DEF IInv
<1> QED BY <1>1, <1>2, PTL
-----------------------------------------------------------------------------
(* What a spill makes of the code.  Every instruction is still there, in    *)
(* the same order, with a load right in front of it if it uses the variable *)
(* and a store right behind it if it defines it, and nothing else.          *)

Instructions(n) ==
  [type : {"op"}, def : SUBSET Vars, use : SUBSET Vars, id : Nat]
    \union {Load(v, f) : v \in Vars, f \in 1 .. n} \union {Store(v, f) : v \in Vars, f \in 1 .. n}

\* Instruction x is at position p of list e, and w is read before and written behind it.
Wrapped(e, p, x, w, g) ==
  /\ p \in 1 .. Len(e) /\ e[p] = x
  /\ w \in x.use => p = 2 /\ e[1] = Load(w, g)
  /\ w \notin x.use => p = 1
  /\ w \in x.def => Len(e) = p + 1 /\ e[p + 1] = Store(w, g)
  /\ w \notin x.def => Len(e) = p

\* The first i instructions of c are at the positions P of d.
Layout(c, w, g, d, P, i) ==
  /\ \A k \in 1 .. i : P[k] \in 1 .. Len(d) /\ d[P[k]] = c[k]
  /\ \A j, k \in 1 .. i : j < k => P[j] < P[k]
  /\ \A k \in 1 .. i : w \in c[k].use => P[k] - 1 \in 1 .. Len(d) /\ d[P[k] - 1] = Load(w, g)
  /\ \A k \in 1 .. i : w \in c[k].def => P[k] + 1 \in 1 .. Len(d) /\ d[P[k] + 1] = Store(w, g)
  /\ \A q \in 1 .. Len(d) : \E k \in 1 .. i :
       \/ q = P[k]
       \/ q = P[k] - 1 /\ w \in c[k].use
       \/ q = P[k] + 1 /\ w \in c[k].def

\* What FlattenSeq defines.
IsFlatten(f, s, T, n) ==
  /\ f \in [1 .. n -> Seq(T)] /\ f[1] = s[1]
  /\ \A i \in 2 .. n : f[i] = f[i - 1] \o s[i]
-----------------------------------------------------------------------------
\* The lists FlattenSeq puts together exist.
LEMMA FlattenExists ==
  ASSUME NEW T, NEW s \in Seq(Seq(T)), NEW n \in 1 .. Len(s)
  PROVE  \E f : IsFlatten(f, s, T, n)
<1> DEFINE Bad == {k \in 1 .. Len(s) : ~ \E f : IsFlatten(f, s, T, k)}
<1> SUFFICES ASSUME Bad # {} PROVE FALSE
  OBVIOUS
<1>1. Bad \in SUBSET Nat
  OBVIOUS
<1>2. \A k \in 1 .. Len(s) : k \notin Bad <=> \E f : IsFlatten(f, s, T, k)
  OBVIOUS
<1>3. Bad \subseteq 1 .. Len(s)
  OBVIOUS
<1> HIDE DEF Bad
<1>4. PICK m \in Bad : \A k \in Bad : m <= k
  BY <1>1, LeastExists
<1>5. m \in 1 .. Len(s)
  BY <1>3
<1>6. \A k \in 1 .. Len(s) : s[k] \in Seq(T)
  OBVIOUS
<1>7. m # 1
  <2> DEFINE h == [k \in 1 .. 1 |-> s[1]]
  <2>1. h \in [1 .. 1 -> Seq(T)] /\ h[1] = s[1]
    BY <1>5, <1>6
  <2> HIDE DEF h
  <2>2. IsFlatten(h, s, T, 1)
    BY <2>1 DEF IsFlatten
  <2> QED BY <1>2, <1>4, <1>5, <2>2
<1>8. m - 1 \in 1 .. Len(s) /\ m - 1 \notin Bad
  BY <1>4, <1>5, <1>7
<1>9. PICK f : IsFlatten(f, s, T, m - 1)
  BY <1>2, <1>8
<1> DEFINE top == f[m - 1] \o s[m]
           h == [k \in 1 .. m |-> IF k = m THEN top ELSE f[k]]
<1>10. top \in Seq(T)
  <2>1. f[m - 1] \in Seq(T) /\ s[m] \in Seq(T)
    BY <1>5, <1>6, <1>8, <1>9 DEF IsFlatten
  <2> QED BY <2>1
<1>11. \A k \in 1 .. m : k # m => k \in 1 .. m - 1 /\ f[k] \in Seq(T)
  BY <1>5, <1>9 DEF IsFlatten
<1>12. h \in [1 .. m -> Seq(T)]
  BY <1>10, <1>11
<1>13. h[1] = s[1]
  BY <1>5, <1>7, <1>9 DEF IsFlatten
<1>14. ASSUME NEW i \in 2 .. m PROVE h[i] = h[i - 1] \o s[i]
  <2>1. h[i - 1] = f[i - 1]
    BY <1>5
  <2>2. CASE i = m
    <3>1. h[m] = top
      <4> HIDE DEF top
      <4> QED BY <1>5
    <3>2. h[m - 1] = f[m - 1]
      BY <2>1, <2>2
    <3> HIDE DEF h
    <3> QED BY <2>2, <3>1, <3>2
  <2>3. CASE i # m
    <3>1. h[i] = f[i] /\ i \in 2 .. m - 1
      BY <1>5, <2>3
    <3> HIDE DEF h
    <3> QED BY <1>9, <2>1, <3>1 DEF IsFlatten
  <2> QED BY <2>2, <2>3
<1> HIDE DEF h
<1>15. IsFlatten(h, s, T, m)
  BY <1>12, <1>13, <1>14 DEF IsFlatten
<1> QED BY <1>2, <1>4, <1>5, <1>15

\* FlattenSeq returns the last of them.
LEMMA FlattenLists ==
  ASSUME NEW T, NEW s \in Seq(Seq(T)), s # <<>>
  PROVE  \E f : IsFlatten(f, s, T, Len(s)) /\ Seqs!FlattenSeq(s) = f[Len(s)]
<1> DEFINE n == Len(s)
           Defines(f) == f = [i \in 1 .. n |-> IF i = 1 THEN s[i] ELSE f[i - 1] \o s[i]]
           F == CHOOSE f : Defines(f)
<1>1. n \in Nat /\ n \in 1 .. Len(s) /\ n # 0
  OBVIOUS
<1>2. PICK h : IsFlatten(h, s, T, n)
  BY <1>1, FlattenExists
<1>3. Defines(h)
  <2>1. \A i \in 1 .. n : h[i] = IF i = 1 THEN s[i] ELSE h[i - 1] \o s[i]
    <3>1. \A i \in 1 .. n : i # 1 => i \in 2 .. n
      BY <1>1
    <3>2. h[1] = s[1] /\ \A i \in 2 .. n : h[i] = h[i - 1] \o s[i]
      BY <1>2 DEF IsFlatten
    <3> HIDE DEF n
    <3> QED BY <3>1, <3>2
  <2>2. h = [i \in 1 .. n |-> h[i]]
    BY <1>2 DEF IsFlatten
  <2> QED BY <2>1, <2>2
<1>4. Defines(F)
  <2> HIDE DEF Defines
  <2> QED BY <1>3, Zenon
<1>5. Seqs!FlattenSeq(s) = F[n]
  BY <1>1 DEF Seqs!FlattenSeq
<1> HIDE DEF F
<1>6. \A i \in 1 .. n : F[i] = IF i = 1 THEN s[i] ELSE F[i - 1] \o s[i]
  BY <1>4
<1>7. F = [i \in 1 .. n |-> F[i]]
  BY <1>4, <1>6
<1> HIDE DEF Defines
<1>8. \A i \in 1 .. n : F[i] \in Seq(T)
  <2> DEFINE Bad == {i \in 1 .. n : F[i] \notin Seq(T)}
  <2> SUFFICES ASSUME Bad # {} PROVE FALSE
    OBVIOUS
  <2>1. Bad \in SUBSET Nat
    OBVIOUS
  <2>2. PICK m \in Bad : \A i \in Bad : m <= i
    <3> HIDE DEF Bad
    <3> QED BY <2>1, LeastExists
  <2>3. m \in 1 .. n /\ s[m] \in Seq(T)
    OBVIOUS
  <2>4. CASE m = 1
    BY <1>6, <2>3, <2>4
  <2>5. CASE m # 1
    <3>1. m - 1 \in 1 .. n /\ m - 1 \notin Bad
      BY <2>2, <2>3, <2>5
    <3>2. F[m - 1] \in Seq(T) /\ F[m] = F[m - 1] \o s[m]
      BY <1>6, <2>3, <2>5, <3>1
    <3>3. F[m] \in Seq(T)
      BY <2>3, <3>2
    <3> QED BY <3>3
  <2> QED BY <2>4, <2>5
<1>9. IsFlatten(F, s, T, n)
  <2>1. F \in [1 .. n -> Seq(T)]
    BY <1>7, <1>8
  <2>2. F[1] = s[1] /\ \A i \in 2 .. n : F[i] = F[i - 1] \o s[i]
    <3>1. 1 \in 1 .. n /\ \A i \in 2 .. n : i \in 1 .. n /\ i # 1
      BY <1>1
    <3> HIDE DEF n
    <3> QED BY <1>6, <3>1
  <2> QED BY <2>1, <2>2 DEF IsFlatten
<1> QED BY <1>5, <1>9

\* What is put in place of one instruction.
LEMMA AroundWraps ==
  ASSUME NEW T, NEW x \in T, NEW w, NEW g, Load(w, g) \in T, Store(w, g) \in T
  PROVE  Around(x, w, g) \in Seq(T) /\ \E p \in Nat : Wrapped(Around(x, w, g), p, x, w, g)
<1> DEFINE l == Load(w, g)
           s == Store(w, g)
           e == Around(x, w, g)
<1>1. e = (IF w \in x.use THEN <<l>> ELSE <<>>) \o (IF w \in x.def THEN <<x, s>> ELSE <<x>>)
  BY DEF Around
<1>2. l \in T /\ s \in T
  OBVIOUS
<1> HIDE DEF e, l, s
<1>3. CASE w \in x.use /\ w \in x.def
  <2>1. e = <<l>> \o <<x, s>>
    BY <1>1, <1>3
  <2>2. e \in Seq(T) /\ Len(e) = 3 /\ e[1] = l /\ e[2] = x /\ e[3] = s
    BY <1>2, <2>1
  <2>3. Wrapped(e, 2, x, w, g)
    BY <1>3, <2>2 DEF Wrapped, l, s
  <2> QED BY <2>2, <2>3 DEF e
<1>4. CASE w \in x.use /\ w \notin x.def
  <2>1. e = <<l>> \o <<x>>
    BY <1>1, <1>4
  <2>2. e \in Seq(T) /\ Len(e) = 2 /\ e[1] = l /\ e[2] = x
    BY <1>2, <2>1
  <2>3. Wrapped(e, 2, x, w, g)
    BY <1>4, <2>2 DEF Wrapped, l, s
  <2> QED BY <2>2, <2>3 DEF e
<1>5. CASE w \notin x.use /\ w \in x.def
  <2>1. e = <<>> \o <<x, s>>
    BY <1>1, <1>5
  <2>2. e \in Seq(T) /\ Len(e) = 2 /\ e[1] = x /\ e[2] = s
    BY <1>2, <2>1
  <2>3. Wrapped(e, 1, x, w, g)
    BY <1>5, <2>2 DEF Wrapped, l, s
  <2> QED BY <2>2, <2>3 DEF e
<1>6. CASE w \notin x.use /\ w \notin x.def
  <2>1. e = <<>> \o <<x>>
    BY <1>1, <1>6
  <2>2. e \in Seq(T) /\ Len(e) = 1 /\ e[1] = x
    BY <1>2, <2>1
  <2>3. Wrapped(e, 1, x, w, g)
    BY <1>6, <2>2 DEF Wrapped, l, s
  <2> QED BY <2>2, <2>3 DEF e
<1> QED BY <1>3, <1>4, <1>5, <1>6

\* A further instruction follows behind what is there.
LEMMA AppendLayout ==
  ASSUME NEW T, NEW c, NEW w, NEW g, NEW d \in Seq(T), NEW e \in Seq(T), NEW i \in Nat \ {0},
         NEW P, Layout(c, w, g, d, P, i - 1), NEW p, Wrapped(e, p, c[i], w, g)
  PROVE  \E Q : Layout(c, w, g, d \o e, Q, i)
<1> DEFINE Q == [k \in 1 .. i |-> IF k = i THEN Len(d) + p ELSE P[k]]
           b == d \o e
<1>1. /\ b \in Seq(T) /\ Len(b) = Len(d) + Len(e) /\ Len(d) \in Nat /\ Len(e) \in Nat
      /\ \A q \in 1 .. Len(d) : q \in 1 .. Len(b) /\ b[q] = d[q]
      /\ \A q \in 1 .. Len(e) : Len(d) + q \in 1 .. Len(b) /\ b[Len(d) + q] = e[q]
      /\ \A q \in 1 .. Len(b) : q \notin 1 .. Len(d) => q - Len(d) \in 1 .. Len(e)
  OBVIOUS
<1>2. Q[i] = Len(d) + p /\ \A k \in 1 .. i - 1 : Q[k] = P[k] /\ k \in 1 .. i
  OBVIOUS
<1>3. \A k \in 1 .. i : k # i => k \in 1 .. i - 1
  OBVIOUS
<1>4. p \in 1 .. Len(e) /\ e[p] = c[i]
  BY DEF Wrapped
<1> HIDE DEF Q, b
<1>5. \A k \in 1 .. i - 1 : P[k] \in 1 .. Len(d) /\ d[P[k]] = c[k]
  BY DEF Layout
<1>6. \A k \in 1 .. i : Q[k] \in 1 .. Len(b) /\ b[Q[k]] = c[k]
  <2> SUFFICES ASSUME NEW k \in 1 .. i PROVE Q[k] \in 1 .. Len(b) /\ b[Q[k]] = c[k]
    OBVIOUS
  <2>1. CASE k = i
    BY <1>1, <1>2, <1>4, <2>1
  <2>2. CASE k # i
    BY <1>1, <1>2, <1>3, <1>5, <2>2
  <2> QED BY <2>1, <2>2
<1>7. \A j, k \in 1 .. i : j < k => Q[j] < Q[k]
  <2> SUFFICES ASSUME NEW j \in 1 .. i, NEW k \in 1 .. i, j < k PROVE Q[j] < Q[k]
    OBVIOUS
  <2>1. j \in 1 .. i - 1 /\ Q[j] = P[j] /\ P[j] \in 1 .. Len(d)
    BY <1>2, <1>5
  <2>2. CASE k = i
    BY <1>1, <1>2, <1>4, <2>1, <2>2
  <2>3. CASE k # i
    BY <1>2, <1>3, <2>1, <2>3 DEF Layout
  <2> QED BY <2>2, <2>3
<1>8. \A k \in 1 .. i : w \in c[k].use => Q[k] - 1 \in 1 .. Len(b) /\ b[Q[k] - 1] = Load(w, g)
  <2> SUFFICES ASSUME NEW k \in 1 .. i, w \in c[k].use
               PROVE  Q[k] - 1 \in 1 .. Len(b) /\ b[Q[k] - 1] = Load(w, g)
    OBVIOUS
  <2>1. CASE k = i
    <3>1. p = 2 /\ e[1] = Load(w, g) /\ 1 \in 1 .. Len(e)
      BY <2>1, <1>4 DEF Wrapped
    <3>2. Q[k] - 1 = Len(d) + 1
      BY <1>1, <1>2, <2>1, <3>1
    <3> QED BY <1>1, <3>1, <3>2
  <2>2. CASE k # i
    BY <1>1, <1>2, <1>3, <2>2 DEF Layout
  <2> QED BY <2>1, <2>2
<1>9. \A k \in 1 .. i : w \in c[k].def => Q[k] + 1 \in 1 .. Len(b) /\ b[Q[k] + 1] = Store(w, g)
  <2> SUFFICES ASSUME NEW k \in 1 .. i, w \in c[k].def
               PROVE  Q[k] + 1 \in 1 .. Len(b) /\ b[Q[k] + 1] = Store(w, g)
    OBVIOUS
  <2>1. CASE k = i
    <3>1. Len(e) = p + 1 /\ e[p + 1] = Store(w, g) /\ p + 1 \in 1 .. Len(e)
      BY <2>1, <1>4 DEF Wrapped
    <3>2. Q[k] + 1 = Len(d) + (p + 1)
      BY <1>1, <1>2, <1>4, <2>1
    <3> QED BY <1>1, <3>1, <3>2
  <2>2. CASE k # i
    BY <1>1, <1>2, <1>3, <2>2 DEF Layout
  <2> QED BY <2>1, <2>2
<1>10. ASSUME NEW q \in 1 .. Len(b)
       PROVE  \E k \in 1 .. i : \/ q = Q[k]
                                \/ q = Q[k] - 1 /\ w \in c[k].use
                                \/ q = Q[k] + 1 /\ w \in c[k].def
  <2>1. CASE q \in 1 .. Len(d)
    <3>1. PICK k \in 1 .. i - 1 : \/ q = P[k]
                                  \/ q = P[k] - 1 /\ w \in c[k].use
                                  \/ q = P[k] + 1 /\ w \in c[k].def
      BY <2>1 DEF Layout
    <3> QED BY <1>2, <3>1
  <2>2. CASE q \notin 1 .. Len(d)
    <3>1. q - Len(d) \in 1 .. Len(e) /\ i \in 1 .. i
      BY <1>1, <2>2
    <3>2. \/ q - Len(d) = p
          \/ q - Len(d) = p - 1 /\ w \in c[i].use
          \/ q - Len(d) = p + 1 /\ w \in c[i].def
      <4> DEFINE r == q - Len(d)
      <4>1. r \in 1 .. Len(e) /\ Len(e) \in Nat
        BY <1>1, <3>1
      <4>2. /\ w \in c[i].use => p = 2
            /\ w \notin c[i].use => p = 1
            /\ w \in c[i].def => Len(e) = p + 1
            /\ w \notin c[i].def => Len(e) = p
        BY DEF Wrapped
      <4> HIDE DEF r
      <4>3. r = p \/ (r = p - 1 /\ w \in c[i].use) \/ (r = p + 1 /\ w \in c[i].def)
        BY <4>1, <4>2
      <4> QED BY <4>3 DEF r
    <3> QED BY <1>1, <1>2, <1>4, <3>1, <3>2
  <2> QED BY <2>1, <2>2
<1>11. Layout(c, w, g, b, Q, i)
  BY <1>6, <1>7, <1>8, <1>9, <1>10 DEF Layout
<1> QED BY <1>11 DEF b

\* So the code after a spill is laid out like that.
LEMMA SpilledLayout ==
  ASSUME NEW T, NEW c \in Seq(T), NEW w, NEW g, Load(w, g) \in T, Store(w, g) \in T
  PROVE  Spilled(c, w, g) \in Seq(T) /\ \E P : Layout(c, w, g, Spilled(c, w, g), P, Len(c))
<1> DEFINE s == [i \in DOMAIN c |-> Around(c[i], w, g)]
           n == Len(c)
<1>1. n \in Nat /\ DOMAIN c = 1 .. n /\ \A i \in 1 .. n : c[i] \in T
  OBVIOUS
<1>2. s \in Seq(Seq(T)) /\ Len(s) = n /\ \A i \in 1 .. n : s[i] = Around(c[i], w, g)
  <2>1. \A i \in 1 .. n : Around(c[i], w, g) \in Seq(T)
    BY <1>1, AroundWraps
  <2>2. s \in [1 .. n -> Seq(T)]
    BY <1>1, <2>1
  <2> QED BY <1>1, <2>2
<1>3. Spilled(c, w, g) = Seqs!FlattenSeq(s)
  BY DEF Spilled
<1>4. \A i \in 1 .. n : \E p \in Nat : Wrapped(s[i], p, c[i], w, g)
  BY <1>1, <1>2, AroundWraps
<1> HIDE DEF s, n
<1>5. \A i \in 1 .. n : s[i] \in Seq(T)
  BY <1>2
<1>6. CASE n = 0
  <2>1. Len(s) = 0
    BY <1>2, <1>6
  <2>2. Seqs!FlattenSeq(s) = s
    BY <2>1 DEF Seqs!FlattenSeq
  <2>3. s = <<>>
    BY <1>2, <2>1
  <2>4. Spilled(c, w, g) = <<>>
    BY <1>3, <2>2, <2>3
  <2>5. \A P : Layout(c, w, g, Spilled(c, w, g), P, n)
    BY <1>6, <2>4 DEF Layout
  <2> QED BY <2>4, <2>5 DEF n
<1>7. CASE n # 0
  <2>1. n \in 1 .. n /\ s # <<>>
    BY <1>1, <1>2, <1>7
  <2>2. PICK f : IsFlatten(f, s, T, n) /\ Seqs!FlattenSeq(s) = f[n]
    BY <1>2, <2>1, FlattenLists
  <2>3. f[1] = s[1] /\ (\A i \in 1 .. n : f[i] \in Seq(T)) /\ \A i \in 2 .. n : f[i] = f[i - 1] \o s[i]
    BY <2>2 DEF IsFlatten
  <2> DEFINE Bad == {i \in 1 .. n : ~ \E P : Layout(c, w, g, f[i], P, i)}
  <2>4. Bad \in SUBSET Nat /\ Bad \subseteq 1 .. n
    OBVIOUS
  <2>5. \A i \in 1 .. n : i \notin Bad <=> \E P : Layout(c, w, g, f[i], P, i)
    OBVIOUS
  <2> HIDE DEF Bad
  <2>6. ASSUME Bad # {} PROVE FALSE
    <3>1. PICK m \in Bad : \A i \in Bad : m <= i
      BY <2>4, <2>6, LeastExists
    <3>2. m \in 1 .. n /\ m \in Nat \ {0} /\ s[m] \in Seq(T)
      BY <1>5, <2>4
    <3>3. PICK p \in Nat : Wrapped(s[m], p, c[m], w, g)
      BY <1>4, <3>2
    <3>4. ASSUME NEW d \in Seq(T), NEW P, Layout(c, w, g, d, P, m - 1), f[m] = d \o s[m] PROVE FALSE
      <4>1. \E Q : Layout(c, w, g, d \o s[m], Q, m)
        BY <3>2, <3>3, <3>4, AppendLayout
      <4> QED BY <2>5, <3>1, <3>2, <3>4, <4>1
    <3>5. CASE m = 1
      <4>1. f[1] = <<>> \o s[1]
        BY <2>3, <3>2, <3>5
      <4>2. Layout(c, w, g, <<>>, <<>>, 0)
        BY DEF Layout
      <4>3. <<>> \in Seq(T) /\ m - 1 = 0
        BY <3>5
      <4> QED BY <3>4, <3>5, <4>1, <4>2, <4>3
    <3>6. CASE m # 1
      <4>1. m - 1 \in 1 .. n /\ m \in 2 .. n /\ m - 1 \notin Bad
        BY <1>1, <3>1, <3>2, <3>6
      <4>2. PICK P : Layout(c, w, g, f[m - 1], P, m - 1)
        BY <2>5, <4>1
      <4>3. f[m - 1] \in Seq(T) /\ f[m] = f[m - 1] \o s[m]
        BY <2>3, <4>1
      <4> QED BY <3>4, <4>2, <4>3
    <3> QED BY <3>5, <3>6
  <2>7. \E P : Layout(c, w, g, f[n], P, n)
    BY <2>1, <2>5, <2>6
  <2>8. Spilled(c, w, g) = f[n] /\ f[n] \in Seq(T)
    BY <1>3, <2>1, <2>2, <2>3
  <2> QED BY <2>7, <2>8 DEF n
<1> QED BY <1>6, <1>7
-----------------------------------------------------------------------------
(* What every spill keeps: the code is the original function with loads and *)
(* stores in between; a frame belongs to one variable; whatever defines a   *)
(* variable is followed by a use; and between a definition and a load of    *)
(* the variable the value is stored.                                        *)

OwnFrames(c) ==
  \A j, k \in DOMAIN c : c[j].type # "op" /\ c[k].type # "op" /\ c[j].id = c[k].id =>
    c[j].def \union c[j].use = c[k].def \union c[k].use

InOrder(c) == \A j, k \in Ops(c) : j < k => c[j].id < c[k].id

Kept(c) == {c[k] : k \in Ops(c)} \in Originals

\* Between i and u, where v is read, nothing defines v.
Reaches(c, v, i, u) ==
  u \in DOMAIN c /\ v \in c[u].use /\ i <= u /\ \A j \in DOMAIN c : i <= j /\ j < u => v \notin c[j].def

DefsLive(c) == \A i \in DOMAIN c : \A v \in c[i].def : \E u \in DOMAIN c : Reaches(c, v, i + 1, u)

UsesDefined(c) == \A i \in Ops(c) : \A v \in c[i].use : \E j \in Ops(c) : j < i /\ v \in c[j].def

Stored(c) ==
  \A p \in Ops(c), q \in DOMAIN c, v \in Vars :
    p < q /\ v \in c[p].def /\ c[q] = Load(v, c[q].id) =>
      \E s \in DOMAIN c : p < s /\ s < q /\ c[s] = Store(v, c[q].id)

CodeInv(c, n) ==
  /\ c \in Seq(Instructions(n))
  /\ OwnFrames(c) /\ InOrder(c) /\ Kept(c) /\ DefsLive(c) /\ UsesDefined(c) /\ Stored(c)
-----------------------------------------------------------------------------
\* The three kinds of instructions.
LEMMA InstructionKinds ==
  ASSUME NEW n \in Nat, NEW x \in Instructions(n)
  PROVE  /\ x.def \subseteq Vars /\ x.use \subseteq Vars
         /\ \/ x.type = "op" /\ x.id \in Nat
            \/ x.type = "load" /\ x.id \in 1 .. n /\ \E v \in Vars : x = Load(v, x.id)
            \/ x.type = "store" /\ x.id \in 1 .. n /\ \E v \in Vars : x = Store(v, x.id)
<1>1. CASE x \in [type : {"op"}, def : SUBSET Vars, use : SUBSET Vars, id : Nat]
  BY <1>1
<1>2. CASE x \in {Load(v, f) : v \in Vars, f \in 1 .. n}
  BY <1>2 DEF Load
<1>3. CASE x \in {Store(v, f) : v \in Vars, f \in 1 .. n}
  BY <1>3 DEF Store
<1> QED BY <1>1, <1>2, <1>3 DEF Instructions

\* Liveness in terms of the use that makes the variable live.
LEMMA LiveReaches ==
  ASSUME NEW n \in Nat, NEW c \in Seq(Instructions(n)), NEW v \in Vars, NEW i \in Nat \ {0}
  PROVE  v \in LiveIn(c, i) <=> \E u \in DOMAIN c : Reaches(c, v, i, u)
<1>1. DOMAIN c = 1 .. Len(c) /\ Len(c) \in Nat
  OBVIOUS
<1>2. ASSUME NEW u \in UsesOf(c, v), i <= u, Defs(c, v) \intersect (i .. u - 1) = {}
      PROVE  Reaches(c, v, i, u)
  <2>1. u \in DOMAIN c /\ v \in c[u].use /\ u \in Nat
    BY <1>1 DEF UsesOf
  <2>2. ASSUME NEW j \in DOMAIN c, i <= j, j < u PROVE v \notin c[j].def
    <3>1. j \in i .. u - 1
      BY <1>1, <2>1, <2>2
    <3> QED BY <1>2, <3>1 DEF Defs
  <2> QED BY <1>2, <2>1, <2>2 DEF Reaches
<1>3. ASSUME NEW u \in DOMAIN c, Reaches(c, v, i, u)
      PROVE  u \in UsesOf(c, v) /\ i <= u /\ Defs(c, v) \intersect (i .. u - 1) = {}
  <2>1. u \in UsesOf(c, v) /\ i <= u /\ u \in Nat
    BY <1>1, <1>3 DEF Reaches, UsesOf
  <2>2. ASSUME NEW j \in Defs(c, v), j \in i .. u - 1 PROVE FALSE
    <3>1. j \in DOMAIN c /\ v \in c[j].def /\ i <= j /\ j < u
      BY <1>1, <2>1, <2>2 DEF Defs
    <3> QED BY <1>3, <3>1 DEF Reaches
  <2> QED BY <2>1, <2>2
<1> QED BY <1>2, <1>3 DEF LiveIn, UsesOf

\* The code regalloc starts with.
LEMMA FunctionInv == ASSUME SpillAssumption, NEW c \in Functions PROVE CodeInv(c, 0)
<1> DEFINE Original0 == [type : {"op"}, def : SUBSET Vars, use : SUBSET Vars, id : Nat]
<1>1. /\ c \in Seq(Original0)
      /\ \A i \in DOMAIN c : c[i].id = i /\ c[i].def \subseteq LiveIn(c, i + 1)
      /\ \A i \in DOMAIN c : \A v \in c[i].use : \E j \in 1 .. i - 1 : v \in c[j].def
  BY DEF SpillAssumption
<1>2. Original0 \subseteq Instructions(0)
  BY DEF Instructions
<1>3. DOMAIN c = 1 .. Len(c) /\ Len(c) \in Nat /\ \A i \in DOMAIN c : c[i] \in Original0
  <2> HIDE DEF Original0
  <2> QED BY <1>1
<1>4. \A i \in DOMAIN c : c[i].type = "op" /\ c[i].def \subseteq Vars
  BY <1>3
<1>5. c \in Seq(Instructions(0))
  <2>1. c \in [1 .. Len(c) -> Instructions(0)]
    <3> HIDE DEF Original0
    <3> QED BY <1>1, <1>2, <1>3
  <2> QED BY <1>3, <2>1
<1> HIDE DEF Original0
<1>6. Ops(c) = DOMAIN c
  BY <1>4 DEF Ops
<1>7. OwnFrames(c) /\ Stored(c)
  BY <1>4 DEF OwnFrames, Stored, Load
<1>8. InOrder(c)
  BY <1>1, <1>6 DEF InOrder
<1>9. Kept(c)
  BY DEF Kept, Originals
<1>10. DefsLive(c)
  <2> SUFFICES ASSUME NEW i \in DOMAIN c, NEW v \in c[i].def
               PROVE  \E u \in DOMAIN c : Reaches(c, v, i + 1, u)
    BY DEF DefsLive
  <2>1. v \in LiveIn(c, i + 1) /\ v \in Vars /\ i + 1 \in Nat \ {0}
    BY <1>1, <1>3, <1>4
  <2> QED BY <1>5, <2>1, LiveReaches
<1>11. UsesDefined(c)
  <2> SUFFICES ASSUME NEW i \in DOMAIN c, NEW v \in c[i].use
               PROVE  \E j \in DOMAIN c : j < i /\ v \in c[j].def
    BY <1>6 DEF UsesDefined
  <2>1. PICK j \in 1 .. i - 1 : v \in c[j].def
    BY <1>1
  <2>2. i \in 1 .. Len(c)
    BY <1>3
  <2>3. j \in 1 .. Len(c) /\ j < i
    BY <1>3, <2>2
  <2> QED BY <1>3, <2>1, <2>3
<1> QED BY <1>5, <1>7, <1>8, <1>9, <1>10, <1>11 DEF CodeInv

\* How the positions after a spill compare, none of the old instructions naming frame n + 1.
LEMMA LayoutOrder ==
  ASSUME NEW n \in Nat, NEW c \in Seq(Instructions(n)), NEW w \in Vars,
         NEW d \in Seq(Instructions(n + 1)), NEW P, Layout(c, w, n + 1, d, P, Len(c)),
         NEW j \in DOMAIN c, NEW k \in DOMAIN c
  PROVE  /\ P[j] < P[k] <=> j < k
         /\ P[j] = P[k] <=> j = k
         /\ w \in c[j].def /\ j < k => P[j] + 1 < P[k]
         /\ w \in c[k].use /\ j < k => P[j] < P[k] - 1
         /\ w \in c[j].def /\ w \in c[k].use /\ j < k => P[j] + 1 < P[k] - 1
<1> DEFINE g == n + 1
<1>1. DOMAIN c = 1 .. Len(c) /\ Len(c) \in Nat /\ Len(d) \in Nat /\ j \in Nat /\ k \in Nat
  OBVIOUS
<1>2. P[j] \in 1 .. Len(d) /\ P[k] \in 1 .. Len(d) /\ d[P[j]] = c[j] /\ d[P[k]] = c[k]
  BY <1>1 DEF Layout
<1>3. j < k => P[j] < P[k]
  BY <1>1 DEF Layout
<1>4. k < j => P[k] < P[j]
  BY <1>1 DEF Layout
<1>5. w \in c[j].def => d[P[j] + 1] = Store(w, g)
  BY <1>1 DEF Layout
<1>6. w \in c[k].use => d[P[k] - 1] = Load(w, g)
  BY <1>1 DEF Layout
<1>7. ASSUME NEW i \in DOMAIN c PROVE c[i] # Store(w, g) /\ c[i] # Load(w, g)
  <2>1. c[i] \in Instructions(n)
    BY <1>1
  <2>2. c[i].type = "op" \/ c[i].id \in 1 .. n
    BY <2>1, InstructionKinds
  <2> QED BY <2>2 DEF Store, Load
<1>8. Store(w, g) # Load(w, g)
  BY DEF Store, Load
<1>9. w \in c[j].def => P[j] + 1 # P[k]
  BY <1>2, <1>5, <1>7
<1>10. w \in c[k].use => P[j] # P[k] - 1
  BY <1>2, <1>6, <1>7
<1>11. w \in c[j].def /\ w \in c[k].use => P[j] + 1 # P[k] - 1
  BY <1>5, <1>6, <1>8
<1>12. PICK x \in Int : x = P[j]
  BY <1>1, <1>2
<1>13. PICK y \in Int : y = P[k]
  BY <1>1, <1>2
<1>14. (P[j] < P[k] <=> j < k) /\ (P[j] = P[k] <=> j = k)
  BY <1>1, <1>3, <1>4, <1>12, <1>13
<1>15. w \in c[j].def /\ j < k => P[j] + 1 < P[k]
  BY <1>9, <1>12, <1>13, <1>14
<1>16. w \in c[k].use /\ j < k => P[j] < P[k] - 1
  BY <1>10, <1>12, <1>13, <1>14
<1>17. w \in c[j].def /\ w \in c[k].use /\ j < k => P[j] + 1 < P[k] - 1
  <2>1. \A a, b \in Int : a < b /\ a + 1 # b /\ a + 1 # b - 1 => a + 1 < b - 1
    OBVIOUS
  <2>2. w \in c[j].def /\ w \in c[k].use /\ j < k => x < y /\ x + 1 # y /\ x + 1 # y - 1
    BY <1>9, <1>11, <1>12, <1>13, <1>14
  <2>3. w \in c[j].def /\ w \in c[k].use /\ j < k => x + 1 < y - 1
    BY <2>1, <2>2
  <2> QED BY <1>12, <1>13, <2>3
<1> QED BY <1>14, <1>15, <1>16, <1>17

\* What can be at position q after a spill.
Found(c, w, g, d, P, q) ==
  \E k \in DOMAIN c :
    \/ q = P[k] /\ d[q] = c[k]
    \/ q = P[k] - 1 /\ w \in c[k].use /\ d[q] = Load(w, g)
    \/ q = P[k] + 1 /\ w \in c[k].def /\ d[q] = Store(w, g)

\* Nothing else is there.
LEMMA LayoutKinds ==
  ASSUME NEW n \in Nat, NEW c \in Seq(Instructions(n)), NEW w \in Vars,
         NEW d \in Seq(Instructions(n + 1)), NEW P, Layout(c, w, n + 1, d, P, Len(c)),
         NEW q \in DOMAIN d
  PROVE  Found(c, w, n + 1, d, P, q)
<1>1. DOMAIN c = 1 .. Len(c) /\ DOMAIN d = 1 .. Len(d)
  OBVIOUS
<1>2. PICK k \in 1 .. Len(c) : \/ q = P[k]
                               \/ q = P[k] - 1 /\ w \in c[k].use
                               \/ q = P[k] + 1 /\ w \in c[k].def
  BY <1>1 DEF Layout
<1>3. /\ d[P[k]] = c[k]
      /\ w \in c[k].use => d[P[k] - 1] = Load(w, n + 1)
      /\ w \in c[k].def => d[P[k] + 1] = Store(w, n + 1)
  BY DEF Layout
<1> QED BY <1>1, <1>2, <1>3 DEF Found

\* The instructions of the function are where their positions say.
LEMMA LayoutOps ==
  ASSUME NEW n \in Nat, NEW c \in Seq(Instructions(n)), NEW w \in Vars,
         NEW d \in Seq(Instructions(n + 1)), NEW P, Layout(c, w, n + 1, d, P, Len(c))
  PROVE  /\ \A k \in DOMAIN c : P[k] \in DOMAIN d /\ P[k] \in Nat /\ d[P[k]] = c[k]
         /\ \A k \in Ops(c) : P[k] \in Ops(d)
         /\ \A q \in Ops(d) : \E k \in Ops(c) : q = P[k] /\ d[q] = c[k]
<1>1. DOMAIN c = 1 .. Len(c) /\ DOMAIN d = 1 .. Len(d)
  OBVIOUS
<1>2. \A k \in DOMAIN c : P[k] \in DOMAIN d /\ P[k] \in Nat /\ d[P[k]] = c[k]
  BY <1>1 DEF Layout
<1>3. \A k \in Ops(c) : P[k] \in Ops(d)
  BY <1>2 DEF Ops
<1>4. ASSUME NEW q \in Ops(d) PROVE \E k \in Ops(c) : q = P[k] /\ d[q] = c[k]
  <2>1. q \in DOMAIN d /\ d[q].type = "op"
    BY DEF Ops
  <2>2. Found(c, w, n + 1, d, P, q)
    BY <2>1, LayoutKinds
  <2>3. PICK k \in DOMAIN c :
           \/ q = P[k] /\ d[q] = c[k]
           \/ q = P[k] - 1 /\ w \in c[k].use /\ d[q] = Load(w, n + 1)
           \/ q = P[k] + 1 /\ w \in c[k].def /\ d[q] = Store(w, n + 1)
    BY <2>2 DEF Found
  <2>4. q = P[k] /\ d[q] = c[k]
    BY <2>1, <2>3 DEF Load, Store
  <2> QED BY <2>1, <2>4 DEF Ops
<1> QED BY <1>2, <1>3, <1>4

\* Every definition is still followed by a use before the next one.
LEMMA SpillDefsLive ==
  ASSUME NEW n \in Nat, NEW c \in Seq(Instructions(n)), NEW w \in Vars,
         NEW d \in Seq(Instructions(n + 1)), NEW P, Layout(c, w, n + 1, d, P, Len(c)), DefsLive(c)
  PROVE  DefsLive(d)
<1>1. DOMAIN c = 1 .. Len(c) /\ DOMAIN d = 1 .. Len(d) /\ Len(d) \in Nat
  OBVIOUS
<1>2. \A k \in DOMAIN c : P[k] \in DOMAIN d /\ P[k] \in Nat /\ d[P[k]] = c[k]
  BY LayoutOps
<1>3. \A j, k \in DOMAIN c : P[j] < P[k] <=> j < k
  BY LayoutOrder
<1>4. \A k \in DOMAIN c : w \in c[k].def => P[k] + 1 \in DOMAIN d /\ d[P[k] + 1] = Store(w, n + 1)
  BY <1>1 DEF Layout
<1> SUFFICES ASSUME NEW q \in DOMAIN d, NEW v \in d[q].def
             PROVE  \E u \in DOMAIN d : Reaches(d, v, q + 1, u)
  BY DEF DefsLive
<1>5. Found(c, w, n + 1, d, P, q) /\ q \in Nat
  <2>1. Found(c, w, n + 1, d, P, q)
    BY LayoutKinds
  <2> QED BY <1>1, <2>1
<1>6. PICK k \in DOMAIN c :
           \/ q = P[k] /\ d[q] = c[k]
           \/ q = P[k] - 1 /\ w \in c[k].use /\ d[q] = Load(w, n + 1)
           \/ q = P[k] + 1 /\ w \in c[k].def /\ d[q] = Store(w, n + 1)
  BY <1>5 DEF Found
<1>7. CASE q = P[k] - 1 /\ w \in c[k].use /\ d[q] = Load(w, n + 1)
  <2>1. v = w /\ P[k] = q + 1
    BY <1>2, <1>5, <1>7 DEF Load
  <2>2. Reaches(d, v, q + 1, P[k])
    BY <1>1, <1>2, <1>5, <1>7, <2>1 DEF Reaches
  <2> QED BY <1>2, <2>2
<1>8. CASE q = P[k] + 1 /\ w \in c[k].def /\ d[q] = Store(w, n + 1)
  BY <1>8 DEF Store
<1>9. CASE q = P[k] /\ d[q] = c[k] /\ v = w
  <2>1. P[k] + 1 \in DOMAIN d /\ d[P[k] + 1] = Store(w, n + 1)
    BY <1>4, <1>9
  <2>2. v \in d[P[k] + 1].use
    BY <1>9, <2>1 DEF Store
  <2>3. Reaches(d, v, q + 1, P[k] + 1)
    BY <1>1, <1>5, <1>9, <2>1, <2>2 DEF Reaches
  <2> QED BY <2>1, <2>3
<1>10. CASE q = P[k] /\ d[q] = c[k] /\ v # w
  <2>1. PICK u \in DOMAIN c : Reaches(c, v, k + 1, u)
    BY <1>10 DEF DefsLive
  <2>2. k \in Nat /\ u \in Nat /\ k < u /\ v \in c[u].use
    BY <1>1, <2>1 DEF Reaches
  <2>3. P[k] < P[u] /\ P[u] \in DOMAIN d /\ v \in d[P[u]].use
    BY <1>2, <1>3, <2>2
  <2>4. ASSUME NEW j \in DOMAIN d, q + 1 <= j, j < P[u], v \in d[j].def PROVE FALSE
    <3>1. Found(c, w, n + 1, d, P, j)
      BY LayoutKinds
    <3>2. PICK i \in DOMAIN c :
             \/ j = P[i] /\ d[j] = c[i]
             \/ j = P[i] - 1 /\ w \in c[i].use /\ d[j] = Load(w, n + 1)
             \/ j = P[i] + 1 /\ w \in c[i].def /\ d[j] = Store(w, n + 1)
      BY <3>1 DEF Found
    <3>3. j = P[i] /\ d[j] = c[i]
      BY <1>10, <2>4, <3>2 DEF Load, Store
    <3>4. P[k] < P[i] /\ P[i] < P[u]
      BY <1>1, <1>2, <1>5, <1>10, <2>4, <3>3
    <3>5. k < i /\ i < u /\ i \in Nat
      BY <1>1, <1>3, <3>4
    <3>6. k + 1 <= i
      BY <2>2, <3>5
    <3> QED BY <2>1, <2>4, <3>3, <3>5, <3>6 DEF Reaches
  <2>5. q + 1 <= P[u]
    BY <1>2, <1>5, <1>10, <2>3
  <2>6. Reaches(d, v, q + 1, P[u])
    BY <2>3, <2>4, <2>5 DEF Reaches
  <2> QED BY <2>3, <2>6
<1> QED BY <1>6, <1>7, <1>8, <1>9, <1>10

\* Between every definition and a load there is still a store.
LEMMA SpillStored ==
  ASSUME NEW n \in Nat, NEW c \in Seq(Instructions(n)), NEW w \in Vars,
         NEW d \in Seq(Instructions(n + 1)), NEW P, Layout(c, w, n + 1, d, P, Len(c)), Stored(c)
  PROVE  Stored(d)
<1>1. DOMAIN c = 1 .. Len(c) /\ DOMAIN d = 1 .. Len(d) /\ Len(d) \in Nat
  OBVIOUS
<1>2. \A k \in DOMAIN c : P[k] \in DOMAIN d /\ P[k] \in Nat /\ d[P[k]] = c[k]
  BY LayoutOps
<1>3. \A j, k \in DOMAIN c :
        /\ P[j] < P[k] <=> j < k
        /\ w \in c[j].def /\ w \in c[k].use /\ j < k => P[j] + 1 < P[k] - 1
  BY LayoutOrder
<1>4. \A k \in DOMAIN c : w \in c[k].def => P[k] + 1 \in DOMAIN d /\ d[P[k] + 1] = Store(w, n + 1)
  BY <1>1 DEF Layout
<1> SUFFICES ASSUME NEW p \in Ops(d), NEW q \in DOMAIN d, NEW v \in Vars, p < q, v \in d[p].def,
                    d[q] = Load(v, d[q].id)
             PROVE  \E s \in DOMAIN d : p < s /\ s < q /\ d[s] = Store(v, d[q].id)
  BY DEF Stored
<1>5. PICK a \in Ops(c) : p = P[a] /\ d[p] = c[a]
  <2>1. \A x \in Ops(d) : \E k \in Ops(c) : x = P[k] /\ d[x] = c[k]
    BY LayoutOps
  <2> QED BY <2>1
<1>6. Found(c, w, n + 1, d, P, q) /\ q \in Nat /\ a \in DOMAIN c
  <2>1. Found(c, w, n + 1, d, P, q)
    BY LayoutKinds
  <2> QED BY <1>1, <2>1 DEF Ops
<1>7. PICK k \in DOMAIN c :
           \/ q = P[k] /\ d[q] = c[k]
           \/ q = P[k] - 1 /\ w \in c[k].use /\ d[q] = Load(w, n + 1)
           \/ q = P[k] + 1 /\ w \in c[k].def /\ d[q] = Store(w, n + 1)
  BY <1>6 DEF Found
<1>8. CASE q = P[k] /\ d[q] = c[k]
  <2>1. a < k
    BY <1>3, <1>5, <1>6, <1>8
  <2>2. PICK s \in DOMAIN c : a < s /\ s < k /\ c[s] = Store(v, c[k].id)
    BY <1>5, <1>8, <2>1 DEF Stored
  <2>3. P[s] \in DOMAIN d /\ p < P[s] /\ P[s] < q /\ d[P[s]] = Store(v, d[q].id)
    BY <1>2, <1>3, <1>5, <1>6, <1>8, <2>2
  <2> QED BY <2>3
<1>9. CASE q = P[k] - 1 /\ w \in c[k].use /\ d[q] = Load(w, n + 1)
  <2>1. v = w /\ d[q].id = n + 1
    <3>1. d[q].def = {w} /\ d[q].id = n + 1
      BY <1>9 DEF Load
    <3>2. d[q].def = {v}
      <4> DEFINE f == d[q].id
      <4>1. d[q] = Load(v, f)
        OBVIOUS
      <4> HIDE DEF f
      <4> QED BY <4>1 DEF Load
    <3> QED BY <3>1, <3>2
  <2>2. w \in c[a].def
    BY <1>5, <2>1
  <2>3. P[a] < P[k]
    BY <1>2, <1>5, <1>6, <1>9
  <2>4. P[a] + 1 < P[k] - 1
    BY <1>3, <1>6, <1>9, <2>2, <2>3
  <2>5. P[a] + 1 \in DOMAIN d /\ d[P[a] + 1] = Store(w, n + 1)
    BY <1>4, <1>6, <2>2
  <2>6. p < P[a] + 1 /\ P[a] + 1 < q
    BY <1>2, <1>5, <1>6, <1>9, <2>4
  <2> QED BY <2>1, <2>5, <2>6
<1>10. CASE q = P[k] + 1 /\ w \in c[k].def /\ d[q] = Store(w, n + 1)
  BY <1>10 DEF Load, Store
<1> QED BY <1>7, <1>8, <1>9, <1>10

\* A frame still belongs to one variable, the new one to the variable that was spilled.
LEMMA SpillOwnFrames ==
  ASSUME NEW n \in Nat, NEW c \in Seq(Instructions(n)), NEW w \in Vars,
         NEW d \in Seq(Instructions(n + 1)), NEW P, Layout(c, w, n + 1, d, P, Len(c)), OwnFrames(c)
  PROVE  OwnFrames(d)
<1>1. ASSUME NEW q \in DOMAIN d, d[q].type # "op"
      PROVE  \/ \E k \in DOMAIN c : d[q] = c[k] /\ c[k].id \in 1 .. n
             \/ d[q].id = n + 1 /\ d[q].def \union d[q].use = {w}
  <2>1. Found(c, w, n + 1, d, P, q)
    BY LayoutKinds
  <2>2. PICK k \in DOMAIN c :
             \/ q = P[k] /\ d[q] = c[k]
             \/ q = P[k] - 1 /\ w \in c[k].use /\ d[q] = Load(w, n + 1)
             \/ q = P[k] + 1 /\ w \in c[k].def /\ d[q] = Store(w, n + 1)
    BY <2>1 DEF Found
  <2>3. CASE d[q] = c[k]
    <3>1. c[k] \in Instructions(n)
      OBVIOUS
    <3>2. c[k].id \in 1 .. n
      BY <1>1, <2>3, <3>1, InstructionKinds
    <3> QED BY <2>3, <3>2
  <2>4. CASE d[q] = Load(w, n + 1) \/ d[q] = Store(w, n + 1)
    BY <2>4 DEF Load, Store
  <2> QED BY <2>2, <2>3, <2>4
<1>2. n + 1 \notin 1 .. n
  OBVIOUS
<1> SUFFICES ASSUME NEW j \in DOMAIN d, NEW k \in DOMAIN d, d[j].type # "op", d[k].type # "op",
                    d[j].id = d[k].id
             PROVE  d[j].def \union d[j].use = d[k].def \union d[k].use
  BY DEF OwnFrames
<1>3. CASE d[j].id = n + 1
  BY <1>1, <1>2, <1>3
<1>4. CASE d[j].id # n + 1
  <2>1. PICK x \in DOMAIN c : d[j] = c[x]
    BY <1>1, <1>4
  <2>2. PICK y \in DOMAIN c : d[k] = c[y]
    BY <1>1, <1>4
  <2> QED BY <2>1, <2>2 DEF OwnFrames
<1> QED BY <1>3, <1>4

\* A spill keeps all of this.
LEMMA SpillKeepsCode ==
  ASSUME NEW n \in Nat, NEW c, CodeInv(c, n), NEW w \in Vars
  PROVE  CodeInv(Spilled(c, w, n + 1), n + 1)
<1> DEFINE d == Spilled(c, w, n + 1)
<1>0. c \in Seq(Instructions(n))
  BY DEF CodeInv
<1>1. d \in Seq(Instructions(n + 1)) /\ \E P : Layout(c, w, n + 1, d, P, Len(c))
  <2>1. Instructions(n) \subseteq Instructions(n + 1)
    <3>1. 1 .. n \subseteq 1 .. n + 1
      OBVIOUS
    <3> QED BY <3>1 DEF Instructions
  <2>2. c \in Seq(Instructions(n + 1))
    <3>1. c \in [1 .. Len(c) -> Instructions(n)] /\ Len(c) \in Nat
      BY <1>0
    <3>2. c \in [1 .. Len(c) -> Instructions(n + 1)]
      BY <2>1, <3>1
    <3> QED BY <3>1, <3>2
  <2>3. n + 1 \in 1 .. n + 1
    OBVIOUS
  <2>4. Load(w, n + 1) \in Instructions(n + 1) /\ Store(w, n + 1) \in Instructions(n + 1)
    BY <2>3 DEF Instructions
  <2> QED BY <2>2, <2>4, SpilledLayout
<1> HIDE DEF d
<1>2. PICK P : Layout(c, w, n + 1, d, P, Len(c))
  BY <1>1
<1>3. /\ \A k \in DOMAIN c : P[k] \in DOMAIN d /\ P[k] \in Nat /\ d[P[k]] = c[k]
      /\ \A k \in Ops(c) : P[k] \in Ops(d)
      /\ \A q \in Ops(d) : \E k \in Ops(c) : q = P[k] /\ d[q] = c[k]
  BY <1>0, <1>1, <1>2, LayoutOps
<1>4. \A j, k \in DOMAIN c : P[j] < P[k] <=> j < k
  BY <1>0, <1>1, <1>2, LayoutOrder
<1>5. Ops(c) \subseteq DOMAIN c
  BY DEF Ops
<1>6. InOrder(d)
  <2> SUFFICES ASSUME NEW x \in Ops(d), NEW y \in Ops(d), x < y PROVE d[x].id < d[y].id
    BY DEF InOrder
  <2>1. PICK j \in Ops(c) : x = P[j] /\ d[x] = c[j]
    BY <1>3
  <2>2. PICK k \in Ops(c) : y = P[k] /\ d[y] = c[k]
    BY <1>3
  <2>3. j < k
    BY <1>4, <1>5, <2>1, <2>2
  <2> QED BY <2>1, <2>2, <2>3 DEF CodeInv, InOrder
<1>7. Kept(d)
  <2>1. {d[q] : q \in Ops(d)} = {c[k] : k \in Ops(c)}
    BY <1>3, <1>5
  <2> QED BY <2>1 DEF CodeInv, Kept
<1>8. UsesDefined(d)
  <2> SUFFICES ASSUME NEW x \in Ops(d), NEW v \in d[x].use
               PROVE  \E y \in Ops(d) : y < x /\ v \in d[y].def
    BY DEF UsesDefined
  <2>1. PICK j \in Ops(c) : x = P[j] /\ d[x] = c[j]
    BY <1>3
  <2>2. PICK k \in Ops(c) : k < j /\ v \in c[k].def
    BY <2>1 DEF CodeInv, UsesDefined
  <2>3. P[k] \in Ops(d) /\ P[k] < x /\ v \in d[P[k]].def
    BY <1>3, <1>4, <1>5, <2>1, <2>2
  <2> QED BY <2>3
<1>9. OwnFrames(d) /\ DefsLive(d) /\ Stored(d)
  BY <1>0, <1>1, <1>2, SpillOwnFrames, SpillDefsLive, SpillStored DEF CodeInv
<1>10. CodeInv(d, n + 1)
  BY <1>1, <1>6, <1>7, <1>8, <1>9 DEF CodeInv
<1> QED BY <1>10 DEF d
-----------------------------------------------------------------------------
(* What registers and frames hold.  The value of v before instruction k is  *)
(* that of the last instruction of the function before k that defines v, and *)
(* nothing, 0, if there is none.                                            *)

DefIds(c, v, k) == {c[d].id : d \in {e \in Ops(c) : e < k /\ v \in c[e].def}}

Value(c, v, k, x) ==
  IF DefIds(c, v, k) = {} THEN x = 0
  ELSE x \in DefIds(c, v, k) /\ \A e \in DefIds(c, v, k) : e <= x

\* A variable that is live has its value in its register.
RegsHold(m, k) ==
  \A v \in Vars : v \in LiveIn(code, k + 1) => Value(code, v, k + 1, m.reg[regno[v]])

\* A frame that is loaded from holds what its variable had where it was last stored.
MemHolds(m, k) ==
  \A q \in DOMAIN code, v \in Vars : code[q] = Load(v, code[q].id) =>
    \E s \in 0 .. k :
      /\ s = 0 \/ code[s] = Store(v, code[q].id)
      /\ \A j \in s + 1 .. k : code[j] # Store(v, code[q].id)
      /\ Value(code, v, s, m.mem[code[q].id])

\* Both, of m, what there is after k instructions.
Holds(m, k) == DOMAIN m.mem = 1 .. frames /\ RegsHold(m, k) /\ MemHolds(m, k)

\* The allocation that regalloc ends with: the registers kept apart, for this code.
Ready ==
  /\ frames \in Nat /\ CodeInv(code, frames) /\ lives = Interference(code)
  /\ VarsApart /\ \A v \in Vars : regno[v] \in Regs

\* Instruction x has brought value y to what it defines, and left the other registers.
Written(mm, m, x, y) ==
  \A r \in Regs : mm.reg[r] = IF \E d \in x.def : regno[d] = r THEN y ELSE m.reg[r]

\* Value y is that of all variables that instruction k + 1 defines.
Defined(k, y) == \A v \in code[k + 1].def : Value(code, v, k + 2, y)

\* What Machine defines.
IsMachine(f, n) ==
  /\ f = [k \in 0 .. n |-> f[k]]
  /\ f[0] = Empty /\ \A k \in 1 .. n : f[k] = Execute(f[k - 1], code[k])
-----------------------------------------------------------------------------
\* The states Machine goes through exist, for any number of instructions.
LEMMA MachineExists == ASSUME NEW n \in Nat PROVE \E f : IsMachine(f, n)
<1> DEFINE Bad == {k \in Nat : ~ \E f : IsMachine(f, k)}
<1> SUFFICES ASSUME Bad # {} PROVE FALSE
  OBVIOUS
<1>1. Bad \in SUBSET Nat
  OBVIOUS
<1>2. \A k \in Nat : k \notin Bad <=> \E f : IsMachine(f, k)
  OBVIOUS
<1> HIDE DEF Bad
<1>3. PICK m \in Bad : \A k \in Bad : m <= k
  BY <1>1, LeastExists
<1>4. m \in Nat
  BY <1>1
<1>5. m # 0
  <2> DEFINE h == [k \in 0 .. 0 |-> Empty]
  <2>1. h[0] = Empty /\ h = [k \in 0 .. 0 |-> h[k]]
    OBVIOUS
  <2> HIDE DEF h
  <2>2. IsMachine(h, 0)
    BY <2>1 DEF IsMachine
  <2> QED BY <1>2, <1>3, <2>2
<1>6. m - 1 \in Nat /\ m - 1 \notin Bad
  BY <1>3, <1>4, <1>5
<1>7. PICK f : IsMachine(f, m - 1)
  BY <1>2, <1>6
<1> DEFINE top == Execute(f[m - 1], code[m])
           h == [k \in 0 .. m |-> IF k = m THEN top ELSE f[k]]
<1>8. h[0] = Empty /\ h[m] = top /\ \A k \in 0 .. m - 1 : h[k] = f[k]
  <2> HIDE DEF top
  <2>1. f[0] = Empty
    BY <1>7 DEF IsMachine
  <2> QED BY <1>4, <1>5, <2>1
<1>9. h = [k \in 0 .. m |-> h[k]]
  OBVIOUS
<1> HIDE DEF h
<1>10. ASSUME NEW k \in 1 .. m PROVE h[k] = Execute(h[k - 1], code[k])
  <2>1. h[k - 1] = f[k - 1]
    BY <1>4, <1>8
  <2>2. CASE k = m
    BY <1>8, <2>1, <2>2
  <2>3. CASE k # m
    <3>1. k \in 1 .. m - 1 /\ h[k] = f[k]
      BY <1>4, <1>8, <2>3
    <3> QED BY <1>7, <2>1, <3>1 DEF IsMachine
  <2> QED BY <2>2, <2>3
<1>11. IsMachine(h, m)
  BY <1>8, <1>9, <1>10 DEF IsMachine
<1> QED BY <1>2, <1>3, <1>4, <1>11

\* So Machine is them.
LEMMA MachineSteps == ASSUME Len(code) \in Nat PROVE IsMachine(Machine, Len(code))
<1> DEFINE n == Len(code)
           Defines(f) == f = [k \in 0 .. n |-> IF k = 0 THEN Empty ELSE Execute(f[k - 1], code[k])]
           F == CHOOSE f : Defines(f)
<1>1. PICK h : IsMachine(h, n)
  BY MachineExists
<1>2. Defines(h)
  <2>1. \A k \in 0 .. n : h[k] = IF k = 0 THEN Empty ELSE Execute(h[k - 1], code[k])
    <3>1. \A k \in 0 .. n : k # 0 => k \in 1 .. n
      OBVIOUS
    <3> HIDE DEF n
    <3> QED BY <1>1, <3>1 DEF IsMachine
  <2>2. h = [k \in 0 .. n |-> h[k]]
    BY <1>1 DEF IsMachine
  <2> QED BY <2>1, <2>2
<1>3. Defines(F)
  <2> HIDE DEF Defines
  <2> QED BY <1>2, Zenon
<1>4. Machine = F
  BY DEF Machine
<1> HIDE DEF F
<1>5. \A k \in 0 .. n : F[k] = IF k = 0 THEN Empty ELSE Execute(F[k - 1], code[k])
  BY <1>3
<1>6. F = [k \in 0 .. n |-> F[k]]
  BY <1>3, <1>5
<1>7. 0 \in 0 .. n /\ \A k \in 1 .. n : k \in 0 .. n /\ k # 0
  OBVIOUS
<1> HIDE DEF n, Defines
<1>8. IsMachine(F, n)
  BY <1>5, <1>6, <1>7 DEF IsMachine
<1> QED BY <1>4, <1>8 DEF n

\* The value of a variable stays the same where no instruction of the function defines it.
LEMMA ValueStays ==
  ASSUME NEW c, DOMAIN c \subseteq Nat, NEW v, NEW s \in Nat, NEW k \in Nat, s <= k,
         \A p \in Ops(c) : s <= p /\ p < k => v \notin c[p].def,
         NEW x, Value(c, v, s, x)
  PROVE  Value(c, v, k, x)
<1>1. Ops(c) \subseteq Nat
  BY DEF Ops
<1>2. {e \in Ops(c) : e < k /\ v \in c[e].def} = {e \in Ops(c) : e < s /\ v \in c[e].def}
  BY <1>1
<1>3. DefIds(c, v, k) = DefIds(c, v, s)
  BY <1>2 DEF DefIds
<1> QED BY <1>3 DEF Value

\* And is that of the instruction right behind one that defines it.
LEMMA ValueDefined ==
  ASSUME NEW c, DOMAIN c \subseteq Nat, NEW v, InOrder(c), NEW k \in Ops(c), v \in c[k].def,
         \A e \in Ops(c) : c[e].id \in Nat
  PROVE  Value(c, v, k + 1, c[k].id)
<1>1. Ops(c) \subseteq Nat
  BY DEF Ops
<1>2. c[k].id \in DefIds(c, v, k + 1)
  BY <1>1 DEF DefIds
<1>3. ASSUME NEW d \in DefIds(c, v, k + 1) PROVE d <= c[k].id
  <2>1. PICK e \in Ops(c) : d = c[e].id /\ e < k + 1
    BY DEF DefIds
  <2>2. e < k \/ e = k
    BY <1>1, <2>1
  <2>3. e < k => c[e].id < c[k].id
    BY DEF InOrder
  <2> QED BY <2>1, <2>2, <2>3
<1> QED BY <1>2, <1>3 DEF Value

\* Two variables that are live at the same place have different registers.
LEMMA LiveApart ==
  ASSUME Ready, NEW i \in DOMAIN code, NEW u \in Vars, NEW v \in Vars, u # v,
         u \in LiveIn(code, i), v \in LiveIn(code, i), RegAllocAssumption
  PROVE  regno[u] # regno[v]
<1> DEFINE sets == {LiveIn(code, j) : j \in DOMAIN code}
<1>1. Interference(code)
        = [n \in Nodes |-> {y \in Vars \ {n} : \E live \in sets : {n, y} \subseteq live}]
  BY DEF Interference
<1>2. LiveIn(code, i) \in sets /\ {u, v} \subseteq LiveIn(code, i)
  OBVIOUS
<1> HIDE DEF sets
<1>3. v \in Interference(code)[u]
  BY <1>1, <1>2 DEF Nodes
<1>4. v \in lives[u] /\ regno[u] \in Regs
  BY <1>3 DEF Ready
<1>5. regno[u] # REGNO_NONE
  BY <1>4, RegAllocAssumption DEF Regs, REGNO_NONE
<1> QED BY <1>4, <1>5 DEF Ready, VarsApart

\* Before anything has run, nothing has been computed, and all is 0.
LEMMA HoldsFirst == ASSUME Ready, RegAllocAssumption PROVE Holds(Empty, 0)
<1>1. /\ code \in Seq(Instructions(frames)) /\ frames \in Nat
      /\ DOMAIN code = 1 .. Len(code) /\ \A v \in Vars : regno[v] \in Regs
  BY DEF Ready, CodeInv
<1>2. Ops(code) \subseteq 1 .. Len(code)
  BY <1>1 DEF Ops
<1>3. \A v : DefIds(code, v, 0) = {} /\ DefIds(code, v, 1) = {}
  BY <1>2 DEF DefIds
<1>4. \A r \in Regs : Empty.reg[r] = 0
  BY DEF Empty
<1>5. DOMAIN Empty.mem = 1 .. frames /\ \A f \in 1 .. frames : Empty.mem[f] = 0
  BY DEF Empty
<1>6. RegsHold(Empty, 0)
  BY <1>1, <1>3, <1>4 DEF RegsHold, Value
<1>7. MemHolds(Empty, 0)
  <2> SUFFICES ASSUME NEW q \in DOMAIN code, NEW v \in Vars, code[q] = Load(v, code[q].id)
               PROVE  \E s \in 0 .. 0 :
                        /\ s = 0 \/ code[s] = Store(v, code[q].id)
                        /\ \A j \in s + 1 .. 0 : code[j] # Store(v, code[q].id)
                        /\ Value(code, v, s, Empty.mem[code[q].id])
    BY DEF MemHolds
  <2>1. code[q] \in Instructions(frames) /\ code[q].type = "load"
    BY <1>1 DEF Load
  <2>2. code[q].id \in 1 .. frames
    BY <1>1, <2>1, InstructionKinds
  <2>3. Value(code, v, 0, Empty.mem[code[q].id])
    BY <1>3, <1>5, <2>2 DEF Value
  <2> QED BY <2>3
<1> QED BY <1>5, <1>6, <1>7 DEF Holds

\* A load brings the value its variable has: where that was computed, it was stored.
LEMMA LoadedValue ==
  ASSUME Ready, RegAllocAssumption, NEW k \in Nat, k + 1 \in DOMAIN code, NEW m, MemHolds(m, k),
         NEW v \in Vars, code[k + 1] = Load(v, code[k + 1].id)
  PROVE  Value(code, v, k + 2, m.mem[code[k + 1].id])
<1> DEFINE f == code[k + 1].id
<1>1. /\ code \in Seq(Instructions(frames)) /\ DOMAIN code = 1 .. Len(code) /\ DOMAIN code \subseteq Nat
  BY DEF Ready, CodeInv
<1>2. PICK s \in 0 .. k : /\ s = 0 \/ code[s] = Store(v, f)
                          /\ \A j \in s + 1 .. k : code[j] # Store(v, f)
                          /\ Value(code, v, s, m.mem[f])
  BY DEF MemHolds
<1>3. ASSUME NEW p \in Ops(code), s <= p, p < k + 2, v \in code[p].def PROVE FALSE
  <2>1. p \in DOMAIN code /\ code[p].type = "op" /\ p \in Nat \ {0}
    BY <1>1 DEF Ops
  <2>2. p # k + 1
    BY <2>1 DEF Load
  <2>3. p # s
    BY <1>2, <2>1 DEF Store
  <2>4. p < k + 1 /\ s < p
    BY <1>3, <2>1, <2>2, <2>3
  <2>5. PICK t \in DOMAIN code : p < t /\ t < k + 1 /\ code[t] = Store(v, f)
    BY <1>3, <2>4 DEF Ready, CodeInv, Stored
  <2>6. t \in s + 1 .. k
    BY <1>1, <2>1, <2>4, <2>5
  <2> QED BY <1>2, <2>5, <2>6
<1>4. s \in Nat /\ s <= k + 2 /\ k + 2 \in Nat
  OBVIOUS
<1> HIDE DEF f
<1>5. Value(code, v, k + 2, m.mem[f])
  BY <1>1, <1>2, <1>3, <1>4, ValueStays
<1> QED BY <1>5 DEF f

\* Writing y to the registers of what an instruction defines leaves the others alone.
LEMMA RegsStep ==
  ASSUME Ready, RegAllocAssumption, NEW k \in Nat, k + 1 \in DOMAIN code,
         NEW m, RegsHold(m, k), NEW mm, NEW y, Written(mm, m, code[k + 1], y), Defined(k, y)
  PROVE  RegsHold(mm, k + 1)
<1> DEFINE x == code[k + 1]
<1>1. /\ code \in Seq(Instructions(frames)) /\ DOMAIN code = 1 .. Len(code) /\ frames \in Nat
      /\ DOMAIN code \subseteq Nat /\ Len(code) \in Nat
      /\ \A v \in Vars : regno[v] \in Regs
  BY DEF Ready, CodeInv
<1>2. x.def \subseteq Vars
  BY <1>1, InstructionKinds
<1> SUFFICES ASSUME NEW v \in Vars, v \in LiveIn(code, k + 2)
             PROVE  Value(code, v, k + 2, mm.reg[regno[v]])
  <2>1. k + 1 + 1 = k + 2
    OBVIOUS
  <2> QED BY <2>1 DEF RegsHold
<1>3. CASE v \in x.def
  <2>1. mm.reg[regno[v]] = y
    BY <1>1, <1>3 DEF Written
  <2> QED BY <1>3, <2>1 DEF Defined
<1>4. CASE v \notin x.def
  <2>1. PICK u \in DOMAIN code : Reaches(code, v, k + 2, u)
    BY <1>1, LiveReaches
  <2>2. u \in Nat /\ k + 2 <= u /\ k + 2 \in DOMAIN code
    BY <1>1, <2>1 DEF Reaches
  <2>3. Reaches(code, v, k + 1, u)
    <3>1. ASSUME NEW j \in DOMAIN code, k + 1 <= j, j < u PROVE v \notin code[j].def
      <4>1. j = k + 1 \/ k + 2 <= j
        BY <1>1, <3>1
      <4> QED BY <1>4, <2>1, <3>1, <4>1 DEF Reaches
    <3> QED BY <2>1, <2>2, <3>1 DEF Reaches
  <2>4. v \in LiveIn(code, k + 1)
    BY <1>1, <2>3, LiveReaches
  <2>5. Value(code, v, k + 1, m.reg[regno[v]])
    BY <2>4 DEF RegsHold
  <2>6. ASSUME NEW d \in x.def, regno[d] = regno[v] PROVE FALSE
    <3>1. PICK t \in DOMAIN code : Reaches(code, d, (k + 1) + 1, t)
      BY DEF Ready, CodeInv, DefsLive
    <3>2. d \in Vars /\ d # v /\ (k + 1) + 1 = k + 2 /\ k + 2 \in Nat \ {0}
      BY <1>2, <1>4
    <3>3. d \in LiveIn(code, k + 2)
      BY <1>1, <3>1, <3>2, LiveReaches
    <3> QED BY <2>2, <2>6, <3>2, <3>3, LiveApart
  <2>7. mm.reg[regno[v]] = m.reg[regno[v]]
    BY <1>1, <2>6 DEF Written
  <2>8. Value(code, v, k + 2, m.reg[regno[v]])
    <3>1. ASSUME NEW p \in Ops(code), k + 1 <= p, p < k + 2 PROVE v \notin code[p].def
      <4>1. p = k + 1
        BY <1>1, <3>1 DEF Ops
      <4> QED BY <1>4, <4>1
    <3> QED BY <1>1, <2>5, <3>1, ValueStays
  <2> QED BY <2>7, <2>8
<1> QED BY <1>3, <1>4

\* An instruction that is no store leaves the frames.
LEMMA MemStep ==
  ASSUME Ready, NEW k \in Nat, k + 1 \in DOMAIN code, code[k + 1].type # "store",
         NEW m, MemHolds(m, k), NEW mm, mm.mem = m.mem
  PROVE  MemHolds(mm, k + 1)
<1> SUFFICES ASSUME NEW q \in DOMAIN code, NEW v \in Vars, code[q] = Load(v, code[q].id)
             PROVE  \E s \in 0 .. k + 1 :
                      /\ s = 0 \/ code[s] = Store(v, code[q].id)
                      /\ \A j \in s + 1 .. k + 1 : code[j] # Store(v, code[q].id)
                      /\ Value(code, v, s, mm.mem[code[q].id])
  BY DEF MemHolds
<1>1. PICK s \in 0 .. k : /\ s = 0 \/ code[s] = Store(v, code[q].id)
                          /\ \A j \in s + 1 .. k : code[j] # Store(v, code[q].id)
                          /\ Value(code, v, s, m.mem[code[q].id])
  BY DEF MemHolds
<1>2. code[k + 1] # Store(v, code[q].id)
  BY DEF Store
<1>3. s \in 0 .. k + 1 /\ \A j \in s + 1 .. k + 1 : j = k + 1 \/ j \in s + 1 .. k
  OBVIOUS
<1> QED BY <1>1, <1>2, <1>3

\* A store brings the value of its variable to its frame, which no other variable has.
LEMMA StoreStep ==
  ASSUME Ready, RegAllocAssumption, NEW k \in Nat, k + 1 \in DOMAIN code,
         NEW u \in Vars, NEW g \in 1 .. frames, code[k + 1] = Store(u, g),
         NEW m, Holds(m, k), NEW mm, mm.mem = [m.mem EXCEPT ![g] = m.reg[regno[u]]]
  PROVE  MemHolds(mm, k + 1)
<1>1. /\ code \in Seq(Instructions(frames)) /\ DOMAIN code = 1 .. Len(code) /\ frames \in Nat
      /\ DOMAIN code \subseteq Nat
  BY DEF Ready, CodeInv
<1>2. /\ DOMAIN m.mem = 1 .. frames /\ RegsHold(m, k) /\ MemHolds(m, k)
  BY DEF Holds
<1>3. mm.mem[g] = m.reg[regno[u]] /\ \A f \in 1 .. frames : f # g => mm.mem[f] = m.mem[f]
  BY <1>2
<1>4. Value(code, u, k + 1, m.reg[regno[u]])
  <2>1. u \in code[k + 1].use
    BY DEF Store
  <2>2. Reaches(code, u, k + 1, k + 1)
    BY <1>1, <2>1 DEF Reaches
  <2>3. u \in LiveIn(code, k + 1)
    BY <1>1, <2>2, LiveReaches
  <2> QED BY <1>2, <2>3 DEF RegsHold
<1>0. ASSUME NEW q \in DOMAIN code, code[q].type = "load" PROVE code[q].id \in 1 .. frames
  <2>1. code[q] \in Instructions(frames)
    BY <1>1
  <2> QED BY <1>0, <1>1, <2>1, InstructionKinds
<1> SUFFICES ASSUME NEW q \in DOMAIN code, NEW v \in Vars, NEW f, f = code[q].id, code[q] = Load(v, f)
             PROVE  \E s \in 0 .. k + 1 :
                      /\ s = 0 \/ code[s] = Store(v, f)
                      /\ \A j \in s + 1 .. k + 1 : code[j] # Store(v, f)
                      /\ Value(code, v, s, mm.mem[f])
  BY DEF MemHolds
<1>5. f \in 1 .. frames
  <2>1. code[q].type = "load"
    BY DEF Load
  <2> QED BY <1>0, <2>1
<1>6. CASE f = g
  <2>1. v = u
    <3>1. code[q].type # "op" /\ code[q].def \union code[q].use = {v}
      BY DEF Load
    <3>2. /\ code[k + 1].type # "op" /\ code[k + 1].id = g
          /\ code[k + 1].def \union code[k + 1].use = {u}
      BY DEF Store
    <3>3. {v} = {u}
      BY <1>6, <3>1, <3>2 DEF Ready, CodeInv, OwnFrames
    <3> QED BY <3>3
  <2>2. k + 1 \in 0 .. k + 1 /\ (k + 1) + 1 .. k + 1 = {}
    OBVIOUS
  <2> QED BY <1>3, <1>4, <1>6, <2>1, <2>2
<1>7. CASE f # g
  <2>1. PICK s \in 0 .. k : /\ s = 0 \/ code[s] = Store(v, f)
                            /\ \A j \in s + 1 .. k : code[j] # Store(v, f)
                            /\ Value(code, v, s, m.mem[f])
    BY <1>2 DEF MemHolds
  <2>2. code[k + 1] # Store(v, f)
    BY <1>7 DEF Store
  <2>3. s \in 0 .. k + 1 /\ \A j \in s + 1 .. k + 1 : j = k + 1 \/ j \in s + 1 .. k
    OBVIOUS
  <2>4. mm.mem[f] = m.mem[f]
    BY <1>3, <1>5, <1>7
  <2> QED BY <2>1, <2>2, <2>3, <2>4
<1> QED BY <1>6, <1>7

\* Every instruction keeps what registers and frames hold.
LEMMA HoldsNext ==
  ASSUME Ready, RegAllocAssumption, NEW k \in Nat, k + 1 \in DOMAIN code, NEW m, Holds(m, k)
  PROVE  Holds(Execute(m, code[k + 1]), k + 1)
<1> DEFINE x == code[k + 1]
           mm == Execute(m, x)
<1>1. /\ code \in Seq(Instructions(frames)) /\ frames \in Nat /\ DOMAIN code \subseteq Nat
      /\ DOMAIN code = 1 .. Len(code) /\ InOrder(code)
  BY DEF Ready, CodeInv
<1>2. /\ DOMAIN m.mem = 1 .. frames /\ RegsHold(m, k) /\ MemHolds(m, k)
  BY DEF Holds
<1>3. /\ x \in Instructions(frames)
      /\ \/ x.type = "op" /\ x.id \in Nat
         \/ x.type = "load" /\ x.id \in 1 .. frames /\ \E v \in Vars : x = Load(v, x.id)
         \/ x.type = "store" /\ x.id \in 1 .. frames /\ \E v \in Vars : x = Store(v, x.id)
  BY <1>1, InstructionKinds
<1>4. CASE x.type = "op"
  <2>1. mm = [reg |-> Write(m.reg, x.def, x.id), mem |-> m.mem]
    BY <1>4 DEF Execute
  <2>2. mm.mem = m.mem /\ Written(mm, m, x, x.id)
    BY <2>1 DEF Write, Written
  <2>3. Defined(k, x.id)
    <3> SUFFICES ASSUME NEW v \in x.def PROVE Value(code, v, k + 2, x.id)
      BY DEF Defined
    <3>1. k + 1 \in Ops(code) /\ (k + 1) + 1 = k + 2
      BY <1>4 DEF Ops
    <3>2. ASSUME NEW e \in Ops(code) PROVE code[e].id \in Nat
      <4>1. code[e] \in Instructions(frames) /\ code[e].type = "op"
        BY <1>1 DEF Ops
      <4> QED BY <1>1, <4>1, InstructionKinds
    <3>3. Value(code, v, (k + 1) + 1, code[k + 1].id)
      BY <1>1, <3>1, <3>2, ValueDefined
    <3> QED BY <3>1, <3>3
  <2> HIDE DEF mm
  <2>4. RegsHold(mm, k + 1)
    BY <1>2, <2>2, <2>3, RegsStep
  <2>5. MemHolds(mm, k + 1)
    BY <1>2, <1>4, <2>2, MemStep
  <2>6. Holds(mm, k + 1)
    BY <1>2, <2>2, <2>4, <2>5 DEF Holds
  <2> QED BY <2>6 DEF mm
<1>5. CASE x.type = "load"
  <2>1. mm = [reg |-> Write(m.reg, x.def, m.mem[x.id]), mem |-> m.mem]
    BY <1>5 DEF Execute
  <2>2. mm.mem = m.mem /\ Written(mm, m, x, m.mem[x.id])
    BY <2>1 DEF Write, Written
  <2>3. PICK v \in Vars : x = Load(v, x.id)
    BY <1>3, <1>5
  <2>4. x.def = {v}
    <3> DEFINE f == x.id
    <3>1. x = Load(v, f)
      BY <2>3
    <3> HIDE DEF f
    <3> QED BY <3>1 DEF Load
  <2>5. Defined(k, m.mem[x.id])
    <3>1. Value(code, v, k + 2, m.mem[x.id])
      BY <1>2, <2>3, LoadedValue
    <3> QED BY <2>4, <3>1 DEF Defined
  <2> HIDE DEF mm
  <2>6. RegsHold(mm, k + 1)
    BY <1>2, <2>2, <2>4, <2>5, RegsStep
  <2>7. MemHolds(mm, k + 1)
    BY <1>2, <1>5, <2>2, MemStep
  <2>8. Holds(mm, k + 1)
    BY <1>2, <2>2, <2>6, <2>7 DEF Holds
  <2> QED BY <2>8 DEF mm
<1>6. CASE x.type = "store"
  <2>1. PICK u \in Vars : x = Store(u, x.id)
    BY <1>3, <1>6
  <2>2. PICK g \in 1 .. frames : g = x.id
    BY <1>3, <1>6
  <2>3. x = Store(u, g)
    BY <2>1, <2>2
  <2>4. x.def = {} /\ x.use = {u} /\ x.id = g
    BY <2>3 DEF Store
  <2>5. (CHOOSE v \in x.use : TRUE) = u
    BY <2>4
  <2>6. mm = [reg |-> m.reg, mem |-> [m.mem EXCEPT ![g] = m.reg[regno[u]]]]
    BY <1>6, <2>4, <2>5 DEF Execute
  <2>7. /\ mm.reg = m.reg /\ mm.mem = [m.mem EXCEPT ![g] = m.reg[regno[u]]]
        /\ DOMAIN mm.mem = 1 .. frames
    BY <1>2, <2>6
  <2> HIDE DEF mm
  <2>8. Written(mm, m, x, 0) /\ Defined(k, 0)
    BY <2>4, <2>7 DEF Written, Defined
  <2>9. RegsHold(mm, k + 1)
    BY <1>2, <2>4, <2>8, RegsStep
  <2>10. MemHolds(mm, k + 1)
    BY <2>3, <2>7, StoreStep
  <2>11. Holds(mm, k + 1)
    BY <2>7, <2>9, <2>10 DEF Holds
  <2> QED BY <2>11 DEF mm
<1> QED BY <1>3, <1>4, <1>5, <1>6

\* After any number of instructions, registers and frames hold what they should.
LEMMA HoldsThroughout ==
  ASSUME Ready, RegAllocAssumption, NEW k \in 0 .. Len(code) PROVE Holds(Machine[k], k)
<1>1. code \in Seq(Instructions(frames)) /\ DOMAIN code = 1 .. Len(code) /\ Len(code) \in Nat
  BY DEF Ready, CodeInv
<1>2. IsMachine(Machine, Len(code))
  BY <1>1, MachineSteps
<1> DEFINE M == Machine
           Bad == {i \in 0 .. Len(code) : ~ Holds(M[i], i)}
<1> HIDE DEF M
<1> SUFFICES ASSUME Bad # {} PROVE FALSE
  BY DEF M
<1>3. Bad \in SUBSET Nat /\ Bad \subseteq 0 .. Len(code)
  BY <1>1
<1>4. \A i \in 0 .. Len(code) : i \notin Bad <=> Holds(M[i], i)
  OBVIOUS
<1> HIDE DEF Bad
<1>5. PICK i \in Bad : \A j \in Bad : i <= j
  BY <1>3, LeastExists
<1>6. i \in 0 .. Len(code)
  BY <1>3
<1>7. CASE i = 0
  <2>1. M[0] = Empty
    BY <1>2 DEF IsMachine, M
  <2> QED BY <1>4, <1>5, <1>6, <1>7, <2>1, HoldsFirst
<1>8. CASE i # 0
  <2>1. PICK j \in Nat : i = j + 1
    <3>1. i - 1 \in Nat /\ i = (i - 1) + 1
      BY <1>1, <1>6, <1>8
    <3> QED BY <3>1
  <2>2. j \in 0 .. Len(code) /\ j + 1 \in 1 .. Len(code) /\ j < i
    BY <1>1, <1>6, <2>1
  <2>3. Holds(M[j], j)
    BY <1>4, <1>5, <2>1, <2>2
  <2>4. M[j + 1] = Execute(M[j], code[j + 1])
    <3>1. \A n \in 1 .. Len(code) : M[n] = Execute(M[n - 1], code[n])
      BY <1>2 DEF IsMachine, M
    <3>2. (j + 1) - 1 = j
      OBVIOUS
    <3> QED BY <2>2, <3>1, <3>2
  <2>5. Holds(M[j + 1], j + 1)
    BY <1>1, <2>2, <2>3, <2>4, HoldsNext
  <2> QED BY <1>4, <1>5, <1>6, <2>1, <2>5
<1> QED BY <1>7, <1>8

\* So each instruction of the function reads what the function had computed.
LEMMA ReadyAgrees ==
  ASSUME Ready, RegAllocAssumption, NEW k \in DOMAIN code, code[k].type = "op", NEW v \in code[k].use
  PROVE  Machine[k - 1].reg[regno[v]] = Original(v, code[k].id)
<1>1. /\ code \in Seq(Instructions(frames)) /\ DOMAIN code = 1 .. Len(code) /\ Len(code) \in Nat
      /\ frames \in Nat /\ InOrder(code) /\ UsesDefined(code)
  BY DEF Ready, CodeInv
<1>2. v \in Vars /\ k \in Ops(code) /\ Ops(code) \subseteq DOMAIN code
  BY <1>1, InstructionKinds DEF Ops
<1> DEFINE x == Machine[k - 1].reg[regno[v]]
<1>3. k - 1 \in 0 .. Len(code) /\ (k - 1) + 1 = k
  BY <1>1
<1>4. Holds(Machine[k - 1], k - 1)
  BY <1>3, HoldsThroughout
<1>5. v \in LiveIn(code, k)
  <2>1. Reaches(code, v, k, k)
    BY <1>1 DEF Reaches
  <2> QED BY <1>1, <1>2, <2>1, LiveReaches
<1>6. Value(code, v, k, x)
  <2> HIDE DEF x
  <2>1. RegsHold(Machine[k - 1], k - 1)
    BY <1>4 DEF Holds
  <2> QED BY <1>2, <1>3, <1>5, <2>1 DEF RegsHold, x
<1> HIDE DEF x
<1>7. DefIds(code, v, k) # {}
  <2>1. PICK j \in Ops(code) : j < k /\ v \in code[j].def
    BY <1>2 , <1>1 DEF UsesDefined
  <2> QED BY <2>1 DEF DefIds
<1>8. x \in DefIds(code, v, k) /\ \A e \in DefIds(code, v, k) : e <= x
  BY <1>6, <1>7 DEF Value
<1>9. {e \in Defs(code, v) : code[e].type = "op" /\ code[e].id < code[k].id}
        = {e \in Ops(code) : e < k /\ v \in code[e].def}
  <2>1. ASSUME NEW e \in Ops(code) PROVE code[e].id < code[k].id <=> e < k
    <3>1. code[e] \in Instructions(frames) /\ code[k] \in Instructions(frames) /\ code[e].type = "op"
      BY <1>1, <1>2 DEF Ops
    <3>2. code[e].id \in Nat /\ code[k].id \in Nat
      BY <1>1, <3>1, InstructionKinds
    <3>3. (e < k => code[e].id < code[k].id) /\ (k < e => code[k].id < code[e].id)
      BY <1>1, <1>2 DEF InOrder
    <3> QED BY <1>1, <1>2, <3>2, <3>3
  <2> QED BY <2>1 DEF Defs, Ops
<1>10. Original(v, code[k].id)
         = CHOOSE d \in DefIds(code, v, k) : \A e \in DefIds(code, v, k) : e <= d
  BY <1>9 DEF Original, DefIds
<1>11. DefIds(code, v, k) \subseteq Nat
  <2> SUFFICES ASSUME NEW e \in Ops(code) PROVE code[e].id \in Nat
    BY DEF DefIds
  <2>1. code[e] \in Instructions(frames) /\ code[e].type = "op"
    BY <1>1, <1>2 DEF Ops
  <2> QED BY <1>1, <2>1, InstructionKinds
<1>12. \A d \in DefIds(code, v, k) : (\A e \in DefIds(code, v, k) : e <= d) => d = x
  BY <1>8, <1>11
<1> QED BY <1>8, <1>10, <1>12 DEF x
-----------------------------------------------------------------------------
(* The invariant of the whole: the colouring is as the proof about it says,  *)
(* its graph is that of the code, and the code is still the function.       *)

SpillInv ==
  /\ BInv /\ Fixed = {} /\ lives = Interference(code)
  /\ frames \in 0 .. MaxSpills /\ CodeInv(code, frames)

\* Where regalloc starts, first or again, nothing is coloured and all is in the graph.
LEMMA FreshBack == ASSUME Fresh, must_spill = FALSE PROVE BInv /\ Fixed = {}
<1>1. IInv /\ stack = <<>> /\ free = {} /\ pc = "unconstrained" /\ links = lives
  BY FreshInv DEF Fresh
<1>2. Len(stack) = 0
  BY <1>1
<1>3. CInv
  BY <1>1, <1>2 DEF CInv, LinksAbove, FewOnStack, FreeColored, AllBack
<1>4. Fixed = {}
  BY DEF Fresh, Fixed, Nodes
<1> QED BY <1>1, <1>3, <1>4, StartB

LEMMA SpillInvInit == ASSUME SpillInit PROVE SpillInv
<1>1. Fresh /\ must_spill = FALSE
  BY RegAllocAssumption, InterferenceLinks DEF SpillInit, Fresh
<1>2. BInv /\ Fixed = {}
  BY <1>1, FreshBack
<1>3. frames = 0 /\ CodeInv(code, 0)
  BY SpillAssumption, FunctionInv DEF SpillInit
<1>4. frames \in 0 .. MaxSpills
  BY <1>3, SpillAssumption DEF SpillAssumption
<1> QED BY <1>2, <1>3, <1>4 DEF SpillInv, SpillInit

LEMMA SpillInvStep == ASSUME SpillInv, [SpillNext]_spillVars PROVE SpillInv'
<1>1. CASE [Next]_raVars /\ UNCHANGED <<code, frames>>
  <2>1. BInv'
    BY <1>1, RegAllocAssumption, BInvStep DEF SpillInv
  <2>2. Fixed' = Fixed /\ lives' = lives
    BY <1>1, RegAllocAssumption, FixedStays DEF SpillInv, BInv, CInv
  <2>3. code' = code /\ frames' = frames
    BY <1>1
  <2> QED BY <2>1, <2>2, <2>3 DEF SpillInv
<1>2. ASSUME NEW v \in Vars, ra_spill(v) PROVE SpillInv'
  <2>1. Fresh' /\ must_spill' = FALSE
    BY <1>2, RegAllocAssumption, InterferenceLinks DEF ra_spill, Start, Fresh
  <2>2. Fresh' /\ (must_spill = FALSE)' => BInv' /\ (Fixed = {})'
    BY FreshBack, PTL
  <2>3. BInv' /\ Fixed' = {}
    BY <2>1, <2>2
  <2>4. frames' \in 0 .. MaxSpills /\ frames' = frames + 1 /\ frames \in Nat
    BY <1>2, SpillAssumption DEF ra_spill, SpillInv
  <2>5. CodeInv(Spilled(code, v, frames + 1), frames + 1)
    BY <2>4, SpillKeepsCode DEF SpillInv
  <2>6. code' = Spilled(code, v, frames + 1) /\ lives' = Interference(code')
    BY <1>2 DEF ra_spill, Start
  <2>7. CodeInv(code', frames')
    BY <2>4, <2>5, <2>6
  <2> QED BY <2>3, <2>4, <2>6, <2>7 DEF SpillInv
<1>3. CASE Next /\ UNCHANGED <<code, frames>>
  BY <1>1, <1>3
<1>4. CASE UNCHANGED spillVars
  BY <1>1, <1>4 DEF spillVars
<1> QED BY <1>2, <1>3, <1>4 DEF SpillNext

\* An allocation regalloc ends with has a register for every variable.
LEMMA AllocatedReady == ASSUME SpillInv, Allocated PROVE Ready
<1>1. stack = <<>> /\ ~ Popping
  BY DEF SpillInv, BInv, CInv, AllBack, Allocated, Popping
<1>2. Items(stack) = {}
  BY <1>1 DEF Items
<1>3. graph = Vars
  BY <1>2 DEF SpillInv, BInv, CInv, IInv, Parted
<1>4. \A v \in Vars : regno[v] # REGNO_NONE
  BY <1>1, <1>3 DEF SpillInv, BInv, Unspilled, Allocated
<1>5. \A v \in Vars : regno[v] \in Regs
  BY <1>4 DEF SpillInv, BInv, CInv, IInv, Typed, Nodes
<1>6. frames \in Nat
  BY SpillAssumption DEF SpillInv
<1> QED BY <1>5, <1>6 DEF Ready, SpillInv, BInv, CInv, IInv

LEMMA SpillInvTyped == ASSUME SpillInv PROVE SpillTypeOK
<1>1. TypeOK
  BY RegAllocAssumption, BInvTyped DEF SpillInv
<1>2. frames \in 0 .. MaxSpills /\ frames \in Nat /\ code \in Seq(Instructions(frames))
  BY SpillAssumption DEF SpillInv, CodeInv
<1>3. ASSUME NEW k \in DOMAIN code
      PROVE  /\ code[k].def \subseteq Vars /\ code[k].use \subseteq Vars
             /\ code[k].type # "op" => code[k].id \in 1 .. frames
  <2>1. code[k] \in Instructions(frames)
    BY <1>2
  <2> QED BY <1>2, <2>1, InstructionKinds
<1>4. {code[k] : k \in Ops(code)} \in Originals
  BY DEF SpillInv, CodeInv, Kept
<1>5. \A j, k \in Ops(code) : j < k => code[j].id < code[k].id
  BY DEF SpillInv, CodeInv, InOrder
<1> QED BY <1>1, <1>2, <1>3, <1>4, <1>5 DEF SpillTypeOK

\* However often regalloc starts again, the code is the original function with loads and
\* stores in between, and in every allocation it ends with each instruction reads, of
\* every variable, what the function had computed: no register is shared too early, and
\* no frame is read that is stale, for any function, any frames and any registers.
THEOREM SpillingIsSound == SpillSpec => []SpillOK
<1>1. SpillSpec => []SpillInv
  BY SpillInvInit, SpillInvStep, PTL DEF SpillSpec
<1>2. SpillInv => SpillOK
  <2> SUFFICES ASSUME SpillInv PROVE SpillTypeOK /\ ReloadsAgree
    BY DEF SpillOK
  <2>1. SpillTypeOK
    BY SpillInvTyped
  <2>2. ReloadsAgree
    <3> SUFFICES ASSUME Allocated, NEW k \in DOMAIN code, code[k].type = "op", NEW v \in code[k].use
                 PROVE  Machine[k - 1].reg[regno[v]] = Original(v, code[k].id)
      BY DEF ReloadsAgree
    <3> QED BY AllocatedReady, ReadyAgrees, RegAllocAssumption
  <2> QED BY <2>1, <2>2
<1> QED BY <1>1, <1>2, PTL
=============================================================================
