--------------------------- MODULE CodegenProofs ---------------------------
(***************************************************************************)
(* Proofs about Codegen: for every function and every order of its blocks, *)
(* the program goes the same way as the function, and where no phi can     *)
(* disturb another it reads the same values.                               *)
(*                                                                         *)
(* The first part says what a block looks like while the phis are          *)
(* expanded, the second runs a block of the function and one of the        *)
(* program side by side.  Induction is by the least counterexample.        *)
(***************************************************************************)
EXTENDS Codegen, WellFoundedInduction, TLAPS

\* A set of naturals has a least member.
LEMMA LeastMember ==
  ASSUME NEW T, T \subseteq Nat, T # {}
  PROVE  \E n \in T : \A k \in T : n <= k
<1>1. PICK n \in T : \A k \in T : ~ (<<k, n>> \in OpToRel(<, Nat))
  BY NatLessThanWellFounded, WFMin
<1>2. \A k \in T : ~ (k < n)
  BY <1>1 DEF OpToRel
<1> QED BY <1>2

\* What InsertAt makes of a sequence.
LEMMA Inserted ==
  ASSUME NEW T, NEW t \in Seq(T), NEW i \in 1 .. Len(t) + 1, NEW x \in T
  PROVE  /\ InsertAt(t, i, x) \in Seq(T) /\ Len(InsertAt(t, i, x)) = Len(t) + 1
         /\ \A k \in 1 .. i - 1 : InsertAt(t, i, x)[k] = t[k]
         /\ InsertAt(t, i, x)[i] = x
         /\ \A k \in i .. Len(t) : InsertAt(t, i, x)[k + 1] = t[k]
<1> DEFINE l == SubSeq(t, 1, i - 1)
           r == SubSeq(t, i, Len(t))
           lx == l \o <<x>>
<1>1. Len(t) \in Nat /\ i - 1 \in 0 .. Len(t)
  OBVIOUS
<1>2. l \in Seq(T) /\ Len(l) = i - 1 /\ \A k \in 1 .. i - 1 : l[k] = t[k]
  BY <1>1
<1>3. r \in Seq(T) /\ Len(r) = Len(t) - i + 1 /\ \A k \in 1 .. Len(t) - i + 1 : r[k] = t[k + i - 1]
  BY <1>1
<1> HIDE DEF l, r
<1>4. lx \in Seq(T) /\ Len(lx) = i /\ lx[i] = x /\ \A k \in 1 .. i - 1 : lx[k] = t[k]
  BY <1>1, <1>2
<1> HIDE DEF lx
<1> DEFINE u == lx \o r
<1>5. u \in Seq(T) /\ Len(u) = Len(t) + 1 /\ \A k \in 1 .. i : u[k] = lx[k]
  BY <1>1, <1>3, <1>4
<1>6. \A k \in i .. Len(t) : u[k + 1] = t[k]
  <2> TAKE k \in i .. Len(t)
  <2>1. PICK j \in 1 .. Len(r) : j = k + 1 - i
    <3>1. k + 1 - i \in 1 .. Len(r)
      BY <1>1, <1>3
    <3> QED BY <3>1
  <2>2. u[Len(lx) + j] = r[j]
    BY <1>3, <1>4, <2>1
  <2>3. j \in 1 .. Len(t) - i + 1 /\ j + i - 1 = k /\ Len(lx) + j = k + 1
    BY <1>1, <1>3, <1>4, <2>1
  <2>4. r[j] = t[k]
    BY <1>3, <2>3
  <2> QED BY <2>2, <2>3, <2>4
<1>7. InsertAt(t, i, x) = u
  BY DEF InsertAt, l, r, lx
<1> HIDE DEF u
<1>8. \A k \in 1 .. i - 1 : k \in 1 .. i /\ i \in 1 .. i
  OBVIOUS
<1>9. i \in 1 .. i
  OBVIOUS
<1> QED BY <1>4, <1>5, <1>6, <1>7, <1>8, <1>9
-----------------------------------------------------------------------------
(* A block while the phis are expanded.                                     *)

\* A move between two variables.
IsMove(x) == x \in Insns /\ x.kind = "mov" /\ x.dest \in Vars /\ x.src \in Vars

\* t has the first w instructions of s without the e in front, and the moves m behind
\* the first b of them.
Rewritten(t, s, w, b, e, m) ==
  /\ t \in Seq(Insns) /\ Len(t) = w - e + Len(m)
  /\ \A k \in e + 1 .. b : t[k - e] = s[k]
  /\ \A k \in 1 .. Len(m) : t[b - e + k] = m[k] /\ IsMove(m[k])
  /\ \A k \in b + 1 .. w : t[k - e + Len(m)] = s[k]

\* The instructions of block c that are left when its jump was removed, or all.
Kept(c) == IF Follows(c) # None /\ EndsInJumpTo(ssa[c], Follows(c)) THEN Len(ssa[c]) - 1 ELSE Len(ssa[c])

\* The number of phis of block c.
PhiCount(c) == CHOOSE f \in 0 .. Len(ssa[c]) : \E b \in 0 .. Len(ssa[c]) : Parts(ssa[c], f, b)

\* The moves m[p] are those of the first e[c] phis of the block c that p leads to.
Copies(e, m) ==
  /\ \A p, c \in Codes : PhisOf(c) # {} /\ c \in Goes(p) =>
       /\ Len(m[p]) = e[c]
       /\ \A k \in 1 .. e[c] : m[p][k] = Mov(ssa[c][k].dest, ssa[c][k].bind[p])
  /\ \A p \in Codes : (\A c \in Codes : c \in Goes(p) => PhisOf(c) = {}) => m[p] = <<>>

\* Every block c has lost its first e[c] phis and got the moves m[c].
Laid(e, m) ==
  /\ e \in [Codes -> Nat] /\ m \in [Codes -> Seq(Insns)]
  /\ \A c \in Codes :
       /\ e[c] <= PhiCount(c)
       /\ Rewritten(code[c], ssa[c], Kept(c), BeforeControl(ssa[c]), e[c], m[c])
  /\ Conventional => Copies(e, m)
-----------------------------------------------------------------------------
\* Where the branches and jumps of a block begin.
LEMMA BeforeControlIs ==
  ASSUME NEW s \in Seq(Insns), NEW b \in 0 .. Len(s), b > 0 => s[b].kind \notin Control,
         \A k \in b + 1 .. Len(s) : s[k].kind \in Control
  PROVE  BeforeControl(s) = b
<1> DEFINE S == {0} \union {k \in 1..Len(s) : s[k].kind \notin Control}
<1>1. b \in S /\ S \subseteq Nat
  OBVIOUS
<1>2. \A k \in S : b >= k
  OBVIOUS
<1>3. BeforeControl(s) = Max(S)
  BY DEF BeforeControl
<1> HIDE DEF S
<1>4. \A x \in S : (\A y \in S : x >= y) => x = b
  BY <1>1, <1>2
<1>5. Max(S) = b
  <2>1. \E x \in S : \A y \in S : x >= y
    BY <1>1, <1>2
  <2> QED BY <1>4, <2>1, Zenon DEF Max
<1> QED BY <1>3, <1>5

\* How a block of the function is made up.
LEMMA BlockParts ==
  ASSUME Built, NEW c \in Codes
  PROVE  /\ Parts(ssa[c], PhiCount(c), BeforeControl(ssa[c]))
         /\ PhiCount(c) \in Nat /\ BeforeControl(ssa[c]) \in Nat /\ ssa[c] \in Seq(Insns)
         /\ PhisOf(c) = 1 .. PhiCount(c)
         /\ Kept(c) \in BeforeControl(ssa[c]) .. Len(ssa[c])
<1> DEFINE s == ssa[c]
<1>1. s \in Seq(Insns) /\ Len(s) \in Nat
  BY DEF Built
<1>2. \E f \in 0 .. Len(s) : \E b \in 0 .. Len(s) : Parts(s, f, b)
  BY DEF Built
<1> HIDE DEF s
<1>3. PhiCount(c) \in 0 .. Len(s) /\ \E b \in 0 .. Len(s) : Parts(s, PhiCount(c), b)
  BY <1>2 DEF PhiCount, s
<1> DEFINE f == PhiCount(c)
<1>4. PICK b \in 0 .. Len(s) : Parts(s, f, b)
  BY <1>3
<1> HIDE DEF f
<1>5. BeforeControl(s) = b
  <2>1. b > 0 => s[b].kind \notin Control
    BY <1>1, <1>4 DEF Parts
  <2>2. \A k \in b + 1 .. Len(s) : s[k].kind \in Control
    BY <1>1, <1>4 DEF Parts
  <2> QED BY <1>1, <2>1, <2>2, BeforeControlIs
<1>6. {k \in 1 .. Len(s) : s[k].kind = "phi"} = 1 .. f
  <2>1. f \in Nat /\ f <= Len(s)
    BY <1>1, <1>3 DEF f
  <2> QED BY <1>1, <1>4, <2>1 DEF Parts
<1>7. Kept(c) \in b .. Len(s)
  <2>1. Kept(c) \in {Len(s), Len(s) - 1} /\ (Kept(c) # Len(s) => s # <<>> /\ s[Len(s)].kind = "jump")
    BY <1>1 DEF Kept, EndsInJumpTo, Last, s
  <2>2. Kept(c) # Len(s) => Len(s) > b
    <3> SUFFICES ASSUME Kept(c) # Len(s) PROVE Len(s) > b
      OBVIOUS
    <3>1. s[Len(s)].kind \in Control /\ Len(s) \in 1 .. Len(s)
      BY <1>1, <2>1 DEF Control
    <3> QED BY <1>4, <3>1 DEF Parts
  <2> QED BY <1>1, <1>4, <2>1, <2>2
<1> QED BY <1>1, <1>3, <1>4, <1>5, <1>6, <1>7 DEF s, f, PhisOf
-----------------------------------------------------------------------------
\* A move goes behind the moves that are there.
LEMMA PlaceOfMove ==
  ASSUME NEW s \in Seq(Insns), NEW f \in Nat, NEW b \in Nat, Parts(s, f, b), NEW w \in b .. Len(s),
         NEW e \in Nat, e <= f, NEW m \in Seq(Insns), NEW t, Rewritten(t, s, w, b, e, m)
  PROVE  BeforeControl(t) = b - e + Len(m) /\ b - e + Len(m) \in 0 .. Len(t)
<1>1. Len(s) \in Nat /\ Len(m) \in Nat /\ f <= b
  BY DEF Parts
<1>2. t \in Seq(Insns) /\ Len(t) = w - e + Len(m)
  BY DEF Rewritten
<1> DEFINE n == b - e + Len(m)
<1>3. n \in 0 .. Len(t)
  BY <1>1, <1>2
<1>4. n > 0 => t[n].kind \notin Control
  <2> SUFFICES ASSUME n > 0 PROVE t[n].kind \notin Control
    OBVIOUS
  <2>1. CASE Len(m) > 0
    <3>1. t[b - e + Len(m)] = m[Len(m)] /\ IsMove(m[Len(m)])
      BY <1>1, <2>1 DEF Rewritten
    <3> QED BY <3>1 DEF IsMove, Control
  <2>2. CASE Len(m) = 0
    <3>1. b \in e + 1 .. b /\ b \in 1 .. Len(s) /\ n = b - e
      BY <1>1, <2>2
    <3>2. t[b - e] = s[b] /\ s[b].kind \notin Control
      BY <3>1 DEF Rewritten, Parts
    <3> QED BY <3>1, <3>2
  <2> QED BY <1>1, <2>1, <2>2
<1>5. \A k \in n + 1 .. Len(t) : t[k].kind \in Control
  <2> TAKE k \in n + 1 .. Len(t)
  <2> DEFINE j == k + e - Len(m)
  <2>1. j \in b + 1 .. w /\ j \in 1 .. Len(s) /\ j > b /\ k = j - e + Len(m)
    BY <1>1, <1>2
  <2> HIDE DEF j
  <2>2. t[j - e + Len(m)] = s[j]
    BY <2>1 DEF Rewritten
  <2>3. s[j].kind \in Control
    BY <2>1 DEF Parts
  <2> QED BY <2>1, <2>2, <2>3
<1> QED BY <1>2, <1>3, <1>4, <1>5, BeforeControlIs

\* It is the last of them then.
LEMMA MoveAdded ==
  ASSUME NEW s \in Seq(Insns), NEW f \in Nat, NEW b \in Nat, Parts(s, f, b), NEW w \in b .. Len(s),
         NEW e \in Nat, e <= f, NEW m \in Seq(Insns), NEW t, Rewritten(t, s, w, b, e, m),
         NEW x, IsMove(x)
  PROVE  Rewritten(InsertAt(t, BeforeControl(t) + 1, x), s, w, b, e, Append(m, x))
<1>1. Len(s) \in Nat /\ Len(m) \in Nat /\ f <= b
  BY DEF Parts
<1>2. t \in Seq(Insns) /\ Len(t) = w - e + Len(m)
  BY DEF Rewritten
<1> DEFINE n == b - e + Len(m)
           i == n + 1
           u == InsertAt(t, i, x)
           mx == Append(m, x)
<1>3. BeforeControl(t) = n /\ n \in 0 .. Len(t) /\ i \in 1 .. Len(t) + 1 /\ x \in Insns
  BY <1>2, PlaceOfMove DEF IsMove
<1>4. /\ u \in Seq(Insns) /\ Len(u) = Len(t) + 1 /\ u[i] = x
      /\ \A k \in 1 .. i - 1 : u[k] = t[k]
      /\ \A k \in i .. Len(t) : u[k + 1] = t[k]
  <2>1. t \in Seq(Insns) /\ i \in 1 .. Len(t) + 1 /\ x \in Insns
    BY <1>2, <1>3
  <2> HIDE DEF i
  <2>2. u \in Seq(Insns) /\ Len(u) = Len(t) + 1
    BY <2>1, Inserted
  <2>3. u[i] = x
    BY <2>1, Inserted
  <2>4. \A k \in 1 .. i - 1 : u[k] = t[k]
    BY <2>1, Inserted
  <2>5. \A k \in i .. Len(t) : u[k + 1] = t[k]
    BY <2>1, Inserted
  <2> QED BY <2>2, <2>3, <2>4, <2>5
<1>5. /\ mx \in Seq(Insns) /\ Len(mx) = Len(m) + 1 /\ mx[Len(m) + 1] = x
      /\ \A k \in 1 .. Len(m) : mx[k] = m[k]
  BY <1>3
<1> HIDE DEF u, mx
<1>6. \A k \in e + 1 .. b : u[k - e] = s[k]
  <2> TAKE k \in e + 1 .. b
  <2>1. k - e \in 1 .. i - 1
    BY <1>1
  <2> QED BY <1>4, <2>1 DEF Rewritten
<1>7. \A k \in 1 .. Len(mx) : u[b - e + k] = mx[k] /\ IsMove(mx[k])
  <2> TAKE k \in 1 .. Len(mx)
  <2>1. CASE k = Len(m) + 1
    BY <1>1, <1>4, <1>5, <2>1
  <2>2. CASE k # Len(m) + 1
    <3>1. k \in 1 .. Len(m) /\ b - e + k \in 1 .. i - 1
      BY <1>1, <1>5, <2>2
    <3> QED BY <1>4, <1>5, <3>1 DEF Rewritten
  <2> QED BY <2>1, <2>2
<1>8. \A k \in b + 1 .. w : u[k - e + Len(mx)] = s[k]
  <2> TAKE k \in b + 1 .. w
  <2> DEFINE j == k - e + Len(m)
  <2>1. j \in i .. Len(t) /\ j + 1 = k - e + Len(mx)
    BY <1>1, <1>2, <1>5
  <2>2. t[j] = s[k]
    BY DEF Rewritten
  <2>3. u[j + 1] = t[j]
    BY <1>4, <2>1
  <2> QED BY <2>1, <2>2, <2>3
<1>9. Len(u) = w - e + Len(mx)
  BY <1>1, <1>2, <1>4, <1>5
<1>10. Rewritten(u, s, w, b, e, mx)
  BY <1>4, <1>6, <1>7, <1>8, <1>9 DEF Rewritten
<1> QED BY <1>3, <1>10 DEF u, mx

\* While phis are left the first of them is the head, and it can go.
LEMMA PhiGone ==
  ASSUME NEW s \in Seq(Insns), NEW f \in Nat, NEW b \in Nat, Parts(s, f, b), NEW w \in b .. Len(s),
         NEW e \in Nat, e < f, NEW m \in Seq(Insns), NEW t, Rewritten(t, s, w, b, e, m)
  PROVE  /\ t # <<>> /\ Head(t) = s[e + 1] /\ s[e + 1].kind = "phi"
         /\ Rewritten(Tail(t), s, w, b, e + 1, m)
<1>1. Len(s) \in Nat /\ Len(m) \in Nat /\ f <= b
  BY DEF Parts
<1>2. t \in Seq(Insns) /\ Len(t) = w - e + Len(m) /\ Len(t) \in Nat /\ Len(t) # 0
  BY <1>1 DEF Rewritten
<1>3. t # <<>> /\ Head(t) = t[1]
  BY <1>2
<1>4. t[1] = s[e + 1] /\ s[e + 1].kind = "phi"
  <2>1. e + 1 \in e + 1 .. b /\ (e + 1) - e = 1 /\ e + 1 \in 1 .. Len(s) /\ e + 1 <= f
    BY <1>1
  <2>2. t[(e + 1) - e] = s[e + 1]
    BY <2>1 DEF Rewritten
  <2> QED BY <2>1, <2>2 DEF Parts
<1> DEFINE u == Tail(t)
<1>5. u \in Seq(Insns) /\ Len(u) = Len(t) - 1 /\ \A k \in 1 .. Len(t) - 1 : u[k] = t[k + 1]
  BY <1>2, <1>3
<1> HIDE DEF u
<1>6. \A k \in (e + 1) + 1 .. b : u[k - (e + 1)] = s[k]
  <2> TAKE k \in (e + 1) + 1 .. b
  <2> DEFINE j == k - (e + 1)
  <2>1. j \in 1 .. Len(t) - 1 /\ j + 1 = k - e /\ k \in e + 1 .. b
    BY <1>1, <1>2
  <2>2. t[k - e] = s[k]
    BY <2>1 DEF Rewritten
  <2>3. u[j] = t[j + 1]
    BY <1>5, <2>1
  <2> QED BY <2>1, <2>2, <2>3
<1>7. \A k \in 1 .. Len(m) : u[b - (e + 1) + k] = m[k] /\ IsMove(m[k])
  <2> TAKE k \in 1 .. Len(m)
  <2> DEFINE j == b - (e + 1) + k
  <2>1. j \in 1 .. Len(t) - 1 /\ j + 1 = b - e + k
    BY <1>1, <1>2
  <2>2. t[b - e + k] = m[k] /\ IsMove(m[k])
    BY DEF Rewritten
  <2>3. u[j] = t[j + 1]
    BY <1>5, <2>1
  <2> QED BY <2>1, <2>2, <2>3
<1>8. \A k \in b + 1 .. w : u[k - (e + 1) + Len(m)] = s[k]
  <2> TAKE k \in b + 1 .. w
  <2> DEFINE j == k - (e + 1) + Len(m)
  <2>1. j \in 1 .. Len(t) - 1 /\ j + 1 = k - e + Len(m)
    BY <1>1, <1>2
  <2>2. t[k - e + Len(m)] = s[k]
    BY DEF Rewritten
  <2>3. u[j] = t[j + 1]
    BY <1>5, <2>1
  <2> QED BY <2>1, <2>2, <2>3
<1>9. Len(u) = w - (e + 1) + Len(m)
  BY <1>1, <1>2, <1>5
<1>10. Rewritten(u, s, w, b, e + 1, m)
  BY <1>5, <1>6, <1>7, <1>8, <1>9 DEF Rewritten
<1> QED BY <1>3, <1>4, <1>10 DEF u

\* A head that is a phi is one of those of the function.
LEMMA HeadIsPhi ==
  ASSUME NEW s \in Seq(Insns), NEW f \in Nat, NEW b \in Nat, Parts(s, f, b), NEW w \in b .. Len(s),
         NEW e \in Nat, e <= f, NEW m \in Seq(Insns), NEW t, Rewritten(t, s, w, b, e, m),
         t # <<>>, Head(t).kind = "phi"
  PROVE  e < f
<1> SUFFICES ASSUME e = f PROVE FALSE
  OBVIOUS
<1>1. Len(s) \in Nat /\ Len(m) \in Nat /\ f <= b
  BY DEF Parts
<1>2. t \in Seq(Insns) /\ Len(t) = w - e + Len(m) /\ Len(t) \in Nat /\ Len(t) # 0 /\ t[1].kind = "phi"
  BY <1>1 DEF Rewritten
<1>3. CASE f < b
  <2>1. e + 1 \in e + 1 .. b /\ (e + 1) - e = 1 /\ e + 1 \in 1 .. Len(s) /\ ~ (e + 1 <= f)
    BY <1>1, <1>3
  <2>2. t[(e + 1) - e] = s[e + 1] /\ s[e + 1].kind # "phi"
    BY <2>1 DEF Rewritten, Parts
  <2> QED BY <1>2, <2>1, <2>2
<1>4. CASE f = b /\ Len(m) > 0
  <2>1. t[b - e + 1] = m[1] /\ IsMove(m[1]) /\ b - e + 1 = 1
    BY <1>1, <1>4 DEF Rewritten
  <2> QED BY <1>2, <2>1 DEF IsMove
<1>5. CASE f = b /\ Len(m) = 0
  <2>1. b + 1 \in b + 1 .. w /\ (b + 1) - e + Len(m) = 1 /\ b + 1 \in 1 .. Len(s) /\ ~ (b + 1 <= f)
    BY <1>1, <1>2, <1>5
  <2>2. t[(b + 1) - e + Len(m)] = s[b + 1] /\ s[b + 1].kind # "phi"
    BY <2>1 DEF Rewritten, Parts
  <2> QED BY <1>2, <2>1, <2>2
<1> QED BY <1>1, <1>3, <1>4, <1>5
-----------------------------------------------------------------------------
\* A phi of a block has what WithMove needs.
LEMMA PhiFields ==
  ASSUME Built, NEW c \in Codes, NEW k \in PhisOf(c)
  PROVE  /\ ssa[c][k] \in Insns /\ ssa[c][k].dest \in Vars
         /\ \A p \in Codes : ssa[c][k].bind[p] \in Vars \union {None}
         /\ \A p \in Codes : ssa[c][k].bind[p] \in Vars =>
              IsMove(Mov(ssa[c][k].dest, ssa[c][k].bind[p]))
<1>1. ssa[c] \in Seq(Insns) /\ k \in 1 .. Len(ssa[c]) /\ ssa[c][k].kind = "phi"
  BY DEF Built, PhisOf
<1>2. ssa[c][k] \in Insns /\ HasFields(ssa[c][k])
  <2>1. \A j \in 1 .. Len(ssa[c]) : HasFields(ssa[c][j])
    BY DEF Built
  <2> QED BY <1>1, <2>1
<1> DEFINE r == ssa[c][k]
<1> HIDE DEF r
<1>3. r.dest \in Vars /\ r.bind \in [Codes -> Vars \union {None}]
  BY <1>1, <1>2 DEF HasFields, Insns, r
<1>4. NoBind \in [Codes -> Vars \union {None}]
  BY DEF NoBind
<1>5. ASSUME NEW p \in Codes, r.bind[p] \in Vars PROVE IsMove(Mov(r.dest, r.bind[p]))
  BY <1>3, <1>4, <1>5 DEF IsMove, Mov, Op, Insns
<1> QED BY <1>2, <1>3, <1>5 DEF r

\* What is said of a block depends on code, the rest does not change.
LEMMA LaidNext ==
  ASSUME UNCHANGED <<layout, ssa>>, NEW e, NEW m, e \in [Codes -> Nat], m \in [Codes -> Seq(Insns)],
         \A c \in Codes : /\ e[c] <= PhiCount(c)
                         /\ Rewritten(code'[c], ssa[c], Kept(c), BeforeControl(ssa[c]), e[c], m[c]),
         Conventional => Copies(e, m)
  PROVE  Laid(e, m)'
<1>1. \A c \in Codes : Kept(c)' = Kept(c)
  BY DEF Kept, Follows, IndexOf
<1>2. \A c \in Codes : PhiCount(c)' = PhiCount(c)
  BY DEF PhiCount
<1>3. Conventional' <=> Conventional
  BY DEF Conventional, PhisOf, Goes
<1>4. Copies(e, m)' <=> Copies(e, m)
  BY DEF Copies, PhisOf, Goes
<1>5. \A c \in Codes : /\ e[c] <= PhiCount(c)'
                      /\ Rewritten(code'[c], ssa'[c], Kept(c)', BeforeControl(ssa'[c]), e[c], m[c])
  BY <1>1, <1>2
<1> QED BY <1>3, <1>4, <1>5 DEF Laid

\* When the jumps have gone no phi has.
LEMMA RemoveJumpsLays ==
  ASSUME Built, code = ssa, cg_remove_jumps
  PROVE  \E e, m : Laid(e, m)'
<1> DEFINE e == [c \in Codes |-> 0]
           m == [c \in Codes |-> <<>>]
<1>1. UNCHANGED <<layout, ssa>> /\ code' = [c \in Codes |-> IF Removable(c) THEN Front(code[c]) ELSE code[c]]
  BY DEF cg_remove_jumps
<1>2. ASSUME NEW c \in Codes
      PROVE  0 <= PhiCount(c) /\ Rewritten(code'[c], ssa[c], Kept(c), BeforeControl(ssa[c]), 0, <<>>)
  <2> DEFINE s == ssa[c]
             b == BeforeControl(ssa[c])
             w == Kept(c)
             t == code'[c]
  <2>1. s \in Seq(Insns) /\ PhiCount(c) \in Nat /\ b \in Nat /\ Len(s) \in Nat /\ w \in b .. Len(s)
    BY BlockParts
  <2>2. \/ w = Len(s) /\ t = s
        \/ w = Len(s) - 1 /\ t = Front(s) /\ s # <<>>
    BY <1>1 DEF Kept, Removable, EndsInJumpTo
  <2> HIDE DEF s, b, w, t
  <2>3. t \in Seq(Insns) /\ Len(t) = w /\ \A k \in 1 .. w : t[k] = s[k]
    <3>1. CASE w = Len(s) /\ t = s
      BY <2>1, <3>1
    <3>2. CASE w = Len(s) - 1 /\ t = Front(s) /\ s # <<>>
      <4>1. t = SubSeq(s, 1, Len(s) - 1) /\ Len(s) > 0
        BY <2>1, <3>2 DEF Front
      <4> QED BY <2>1, <3>2, <4>1
    <3> QED BY <2>2, <3>1, <3>2
  <2>4. Len(<<>>) = 0
    OBVIOUS
  <2>5. \A k \in 0 + 1 .. b : k - 0 = k /\ k \in 1 .. w
    BY <2>1
  <2>6. \A k \in b + 1 .. w : k - 0 + Len(<<>>) = k /\ k \in 1 .. w
    BY <2>1
  <2>7. Len(t) = w - 0 + Len(<<>>)
    BY <2>1, <2>3
  <2>8. Rewritten(t, s, w, b, 0, <<>>)
    BY <2>3, <2>4, <2>5, <2>6, <2>7 DEF Rewritten
  <2> QED BY <2>1, <2>8 DEF s, b, w, t
<1>3. Copies(e, m)
  <2>1. \A c \in Codes : e[c] = 0 /\ m[c] = <<>> /\ Len(<<>>) = 0
    OBVIOUS
  <2> QED BY <2>1 DEF Copies
<1>4. e \in [Codes -> Nat] /\ m \in [Codes -> Seq(Insns)] /\ \A c \in Codes : e[c] = 0 /\ m[c] = <<>>
  OBVIOUS
<1> HIDE DEF e, m
<1>5. Laid(e, m)'
  BY <1>1, <1>2, <1>3, <1>4, LaidNext
<1> QED BY <1>5

\* One phi more is expanded.
LEMMA ExpandLays ==
  ASSUME Built, NEW e, NEW m, Laid(e, m), NEW c \in Codes, cg_expand_comb(c)
  PROVE  \E g, n : Laid(g, n)'
<1>0. PICK r : r = Head(code[c])
  OBVIOUS
<1> DEFINE g == [e EXCEPT ![c] = e[c] + 1]
           n == [p \in Codes |-> IF r.bind[p] = None THEN m[p] ELSE Append(m[p], Mov(r.dest, r.bind[p]))]
<1>1. /\ UNCHANGED <<layout, ssa>>
      /\ code' = [p \in Codes |-> IF p = c THEN Tail(WithMove(p, r)) ELSE WithMove(p, r)]
      /\ code[c] # <<>> /\ r.kind = "phi"
  BY <1>0 DEF cg_expand_comb, NextComb
<1>2. e \in [Codes -> Nat] /\ m \in [Codes -> Seq(Insns)]
  BY DEF Laid
<1>3. \A p \in Codes : e[p] <= PhiCount(p) /\ Rewritten(code[p], ssa[p], Kept(p), BeforeControl(ssa[p]), e[p], m[p])
  BY DEF Laid
<1>4. e[c] < PhiCount(c)
  BY <1>0, <1>1, <1>2, <1>3, BlockParts, HeadIsPhi
<1>5. r = ssa[c][e[c] + 1]
  BY <1>0, <1>2, <1>3, <1>4, BlockParts, PhiGone
<1>6. e[c] + 1 \in PhisOf(c)
  BY <1>2, <1>4, BlockParts
<1>7. /\ r \in Insns /\ r.dest \in Vars /\ \A p \in Codes : r.bind[p] \in Vars \union {None}
      /\ \A p \in Codes : r.bind[p] \in Vars => IsMove(Mov(r.dest, r.bind[p]))
  BY <1>5, <1>6, PhiFields
<1>8. g \in [Codes -> Nat] /\ g[c] = e[c] + 1 /\ \A p \in Codes : p # c => g[p] = e[p]
  BY <1>2
<1>9. ASSUME NEW p \in Codes
      PROVE  n[p] \in Seq(Insns) /\ Rewritten(WithMove(p, r), ssa[p], Kept(p), BeforeControl(ssa[p]), e[p], n[p])
  <2>1. CASE r.bind[p] = None
    BY <1>2, <1>3, <2>1 DEF WithMove
  <2>2. CASE r.bind[p] # None
    <3> DEFINE x == Mov(r.dest, r.bind[p])
    <3>1. IsMove(x) /\ x \in Insns /\ n[p] = Append(m[p], x)
      BY <1>7, <2>2 DEF IsMove
    <3>2. WithMove(p, r) = InsertAt(code[p], BeforeControl(code[p]) + 1, x)
      BY <2>2 DEF WithMove
    <3> HIDE DEF x, n
    <3>3. m[p] \in Seq(Insns) /\ e[p] \in Nat
      BY <1>2
    <3>4. Rewritten(InsertAt(code[p], BeforeControl(code[p]) + 1, x), ssa[p], Kept(p), BeforeControl(ssa[p]), e[p], Append(m[p], x))
      BY <1>3, <3>1, <3>3, BlockParts, MoveAdded
    <3> QED BY <3>1, <3>2, <3>3, <3>4
  <2> QED BY <2>1, <2>2
<1>10. n \in [Codes -> Seq(Insns)]
  BY <1>9
<1>11. \A p \in Codes : n[p] = IF r.bind[p] = None THEN m[p] ELSE Append(m[p], Mov(r.dest, r.bind[p]))
  OBVIOUS
<1> HIDE DEF g, n
<1>12. ASSUME NEW p \in Codes
       PROVE  g[p] <= PhiCount(p) /\ Rewritten(code'[p], ssa[p], Kept(p), BeforeControl(ssa[p]), g[p], n[p])
  <2>1. CASE p = c
    <3>1. code'[c] = Tail(WithMove(c, r)) /\ n[c] \in Seq(Insns) /\ e[c] \in Nat
      BY <1>1, <1>2, <1>10
    <3>2. Rewritten(Tail(WithMove(c, r)), ssa[c], Kept(c), BeforeControl(ssa[c]), e[c] + 1, n[c])
      BY <1>4, <1>9, <3>1, BlockParts, PhiGone
    <3>3. e[c] + 1 <= PhiCount(c)
      BY <1>4, <3>1, BlockParts
    <3> QED BY <1>8, <2>1, <3>1, <3>2, <3>3
  <2>2. CASE p # c
    BY <1>1, <1>3, <1>8, <1>9, <2>2
  <2> QED BY <2>1, <2>2
<1>13. ASSUME Conventional PROVE Copies(g, n)
  <2>1. Copies(e, m)
    BY <1>13 DEF Laid
  <2>2. PhisOf(c) # {}
    BY <1>6
  <2>3. \A p \in Codes : r.bind[p] # None <=> c \in Goes(p)
    BY <1>5, <1>6, <1>13, <2>2 DEF Conventional, Built
  <2>4. ASSUME NEW p \in Codes, NEW d \in Codes, PhisOf(d) # {}, d \in Goes(p)
        PROVE  Len(n[p]) = g[d] /\ \A k \in 1 .. g[d] : n[p][k] = Mov(ssa[d][k].dest, ssa[d][k].bind[p])
    <3>1. Len(m[p]) = e[d] /\ \A k \in 1 .. e[d] : m[p][k] = Mov(ssa[d][k].dest, ssa[d][k].bind[p])
      BY <2>1, <2>4 DEF Copies
    <3>2. CASE d = c
      <4> DEFINE x == Mov(r.dest, r.bind[p])
      <4>1. n[p] = Append(m[p], x) /\ x \in Insns
        <5>1. r.bind[p] # None
          BY <2>3, <2>4, <3>2
        <5> QED BY <1>7, <1>11, <5>1 DEF IsMove
      <4>2. x = Mov(ssa[d][e[d] + 1].dest, ssa[d][e[d] + 1].bind[p]) /\ g[d] = e[d] + 1
        BY <1>5, <1>8, <3>2
      <4> HIDE DEF x
      <4>3. m[p] \in Seq(Insns) /\ e[d] \in Nat
        BY <1>2
      <4>4. Len(n[p]) = e[d] + 1 /\ n[p][e[d] + 1] = x /\ \A k \in 1 .. e[d] : n[p][k] = m[p][k]
        BY <3>1, <4>1, <4>3
      <4>5. \A k \in 1 .. g[d] : k = e[d] + 1 \/ k \in 1 .. e[d]
        BY <4>2, <4>3
      <4> QED BY <3>1, <4>2, <4>4, <4>5
    <3>3. CASE d # c
      <4>1. c \notin Goes(p)
        BY <1>13, <2>4, <3>3 DEF Conventional
      <4> QED BY <1>8, <1>11, <2>3, <3>1, <3>3, <4>1
    <3> QED BY <3>2, <3>3
  <2>5. ASSUME NEW p \in Codes, \A d \in Codes : d \in Goes(p) => PhisOf(d) = {} PROVE n[p] = <<>>
    <3>1. c \notin Goes(p) /\ m[p] = <<>>
      BY <2>1, <2>2, <2>5 DEF Copies
    <3> QED BY <1>11, <2>3, <3>1
  <2> QED BY <2>4, <2>5 DEF Copies
<1>14. Laid(g, n)'
  <2>1. UNCHANGED <<layout, ssa>> /\ g \in [Codes -> Nat] /\ n \in [Codes -> Seq(Insns)]
    BY <1>1, <1>8, <1>10
  <2>2. \A p \in Codes :
          g[p] <= PhiCount(p) /\ Rewritten(code'[p], ssa[p], Kept(p), BeforeControl(ssa[p]), g[p], n[p])
    BY <1>12
  <2>3. Conventional => Copies(g, n)
    BY <1>13
  <2> QED BY <2>1, <2>2, <2>3, LaidNext
<1> QED BY <1>14

\* When no block begins with a phi all are expanded.
LEMMA AllExpanded ==
  ASSUME Built, NEW e, NEW m, Laid(e, m), \A c \in Codes : ~ NextComb(c)
  PROVE  Laid([c \in Codes |-> PhiCount(c)], m)
<1>1. e \in [Codes -> Nat] /\ m \in [Codes -> Seq(Insns)]
  BY DEF Laid
<1>2. ASSUME NEW c \in Codes PROVE e[c] = PhiCount(c)
  <2>1. Rewritten(code[c], ssa[c], Kept(c), BeforeControl(ssa[c]), e[c], m[c]) /\ e[c] <= PhiCount(c)
    BY DEF Laid
  <2>2. ~ (e[c] < PhiCount(c))
    <3> SUFFICES ASSUME e[c] < PhiCount(c) PROVE FALSE
      OBVIOUS
    <3>1. code[c] # <<>> /\ Head(code[c]).kind = "phi"
      BY <1>1, <2>1, BlockParts, PhiGone
    <3> QED BY <3>1 DEF NextComb
  <2> QED BY <1>1, <2>1, <2>2, BlockParts
<1>3. [c \in Codes |-> PhiCount(c)] = e
  BY <1>1, <1>2
<1> QED BY <1>3
-----------------------------------------------------------------------------
(* A block of the function and one of the program, side by side.            *)

Values == {None} \union (Vars \X {0, 1})

Machines(T) == [env : [Vars -> Values], reads : Seq(Values), left : BOOLEAN, to : T]

\* A machine in front of a block that falls through to next.
First(values, next) == [env |-> values, reads |-> <<>>, left |-> FALSE, to |-> next]

\* M[k] is what the first k of n instructions make of m.
IsRun(M, s, m, taken, n) ==
  /\ M = [k \in 0 .. n |-> M[k]]
  /\ M[0] = m
  /\ \A k \in 1 .. n : M[k] = Step(M[k - 1], s[k], taken)

\* What an instruction has so that it can run, if control may go to T.
Runs(r, T) ==
  /\ r.kind \in {"def", "mov"} => r.dest \in Vars
  /\ r.kind \in {"use", "mov", "branch"} => r.src \in Vars
  /\ r.kind \in {"branch", "jump", "return"} => r.to \in T

\* Both have left for the same block, or neither has.
Level(m, n, next) ==
  /\ m.left = n.left
  /\ m.left => n.to = m.to
  /\ ~ m.left => m.to = None /\ n.to = next

\* y is x after the first j of the moves.
Moved(y, x, moves, j) ==
  /\ y \in [Vars -> Values]
  /\ \A i \in 1 .. j : y[moves[i].dest] = x[moves[i].src]
  /\ \A v \in Vars : (\A i \in 1 .. j : moves[i].dest # v) => y[v] = x[v]

\* The moves can be made one after the other.
Apart(moves) ==
  \A i, j \in 1 .. Len(moves) : i < j => moves[j].src # moves[i].dest /\ moves[i].dest # moves[j].dest
-----------------------------------------------------------------------------
\* The instructions of a block run one after the other, however many they are.
LEMMA RunExists ==
  ASSUME NEW s, NEW m, NEW taken, NEW n \in Nat
  PROVE  \E M : IsRun(M, s, m, taken, n)
<1> DEFINE Bad == {k \in Nat : ~ \E M : IsRun(M, s, m, taken, k)}
<1> SUFFICES ASSUME Bad # {} PROVE FALSE
  OBVIOUS
<1>1. Bad \subseteq Nat
  OBVIOUS
<1>2. \A k \in Nat : k \notin Bad <=> \E M : IsRun(M, s, m, taken, k)
  OBVIOUS
<1> HIDE DEF Bad
<1>3. PICK b \in Bad : \A k \in Bad : b <= k
  BY <1>1, LeastMember
<1>4. b \in Nat
  BY <1>1
<1>5. b # 0
  <2> DEFINE h == [k \in 0 .. 0 |-> m]
  <2>1. h[0] = m /\ h = [k \in 0 .. 0 |-> h[k]]
    OBVIOUS
  <2> HIDE DEF h
  <2>2. IsRun(h, s, m, taken, 0)
    BY <2>1 DEF IsRun
  <2> QED BY <1>2, <1>3, <2>2
<1>6. b - 1 \in Nat /\ b - 1 \notin Bad
  BY <1>3, <1>4, <1>5
<1>7. PICK M : IsRun(M, s, m, taken, b - 1)
  BY <1>2, <1>6
<1> DEFINE top == Step(M[b - 1], s[b], taken)
           h == [k \in 0 .. b |-> IF k = b THEN top ELSE M[k]]
<1>8. h[0] = m /\ h[b] = top /\ \A k \in 0 .. b - 1 : h[k] = M[k]
  <2> HIDE DEF top
  <2>1. M[0] = m
    BY <1>7 DEF IsRun
  <2> QED BY <1>4, <1>5, <2>1
<1>9. h = [k \in 0 .. b |-> h[k]]
  OBVIOUS
<1> HIDE DEF h
<1>10. ASSUME NEW k \in 1 .. b PROVE h[k] = Step(h[k - 1], s[k], taken)
  <2>1. h[k - 1] = M[k - 1]
    BY <1>4, <1>8
  <2>2. CASE k = b
    BY <1>8, <2>1, <2>2
  <2>3. CASE k # b
    <3>1. k \in 1 .. b - 1 /\ h[k] = M[k]
      BY <1>4, <1>8, <2>3
    <3> QED BY <1>7, <2>1, <3>1 DEF IsRun
  <2> QED BY <2>2, <2>3
<1>11. IsRun(h, s, m, taken, b)
  BY <1>8, <1>9, <1>10 DEF IsRun
<1> QED BY <1>2, <1>3, <1>4, <1>11

\* So RunBlock is where they end.
LEMMA RunBlockIs ==
  ASSUME NEW s, Len(s) \in Nat, NEW values, NEW next, NEW taken
  PROVE  \E M : /\ IsRun(M, s, First(values, next), taken, Len(s))
                /\ RunBlock(s, values, next, taken) = M[Len(s)]
<1> DEFINE n == Len(s)
           m == [env |-> values, reads |-> <<>>, left |-> FALSE, to |-> next]
           Defines(f) == f = [k \in 0 .. n |-> IF k = 0 THEN m ELSE Step(f[k - 1], s[k], taken)]
           F == CHOOSE f : Defines(f)
<1>1. PICK h : IsRun(h, s, m, taken, n)
  <2> HIDE DEF m
  <2> QED BY RunExists
<1>2. Defines(h)
  <2> HIDE DEF m
  <2>1. \A k \in 0 .. n : h[k] = IF k = 0 THEN m ELSE Step(h[k - 1], s[k], taken)
    <3>1. \A k \in 0 .. n : k # 0 => k \in 1 .. n
      OBVIOUS
    <3> HIDE DEF n
    <3> QED BY <1>1, <3>1 DEF IsRun
  <2>2. h = [k \in 0 .. n |-> h[k]]
    BY <1>1 DEF IsRun
  <2> QED BY <2>1, <2>2
<1>3. Defines(F)
  <2> HIDE DEF Defines
  <2> QED BY <1>2, Zenon
<1>4. RunBlock(s, values, next, taken) = F[n]
  BY DEF RunBlock
<1> HIDE DEF F
<1>5. \A k \in 0 .. n : F[k] = IF k = 0 THEN m ELSE Step(F[k - 1], s[k], taken)
  <2> HIDE DEF m
  <2> QED BY <1>3
<1>6. F = [k \in 0 .. n |-> F[k]]
  <2> HIDE DEF m
  <2> QED BY <1>3, <1>5
<1>7. 0 \in 0 .. n /\ \A k \in 1 .. n : k \in 0 .. n /\ k # 0
  OBVIOUS
<1>8. m = First(values, next)
  BY DEF First
<1> HIDE DEF n, m, Defines
<1>9. IsRun(F, s, m, taken, n)
  BY <1>5, <1>6, <1>7 DEF IsRun
<1> QED BY <1>4, <1>8, <1>9 DEF n

\* A machine that has left a block does nothing more in it.
LEMMA StepLeft ==
  ASSUME NEW m, m.left = TRUE, NEW r, NEW taken
  PROVE  Step(m, r, taken) = m
BY DEF Step

\* A phi does nothing.
LEMMA StepPhi ==
  ASSUME NEW m, NEW r, r.kind = "phi", NEW taken
  PROVE  Step(m, r, taken) = m
BY DEF Step

\* What each kind of instruction does to a machine that has not left.
LEMMA StepIs ==
  ASSUME NEW T, NEW m \in Machines(T), m.left = FALSE, NEW r, NEW taken \in BOOLEAN
  PROVE  /\ r.kind = "phi" => Step(m, r, taken) = m
         /\ r.kind = "def" => Step(m, r, taken) =
              [env |-> [m.env EXCEPT ![r.dest] = Fresh(r.dest)], reads |-> m.reads, left |-> FALSE, to |-> m.to]
         /\ r.kind = "mov" => Step(m, r, taken) =
              [env |-> [m.env EXCEPT ![r.dest] = m.env[r.src]], reads |-> m.reads, left |-> FALSE, to |-> m.to]
         /\ r.kind = "use" => Step(m, r, taken) =
              [env |-> m.env, reads |-> Append(m.reads, m.env[r.src]), left |-> FALSE, to |-> m.to]
         /\ r.kind = "branch" => Step(m, r, taken) =
              [env |-> m.env, reads |-> Append(m.reads, m.env[r.src]), left |-> taken,
               to |-> IF taken THEN r.to ELSE m.to]
         /\ r.kind \in {"jump", "return"} => Step(m, r, taken) =
              [env |-> m.env, reads |-> m.reads, left |-> TRUE, to |-> r.to]
<1>1. m = [env |-> m.env, reads |-> m.reads, left |-> m.left, to |-> m.to]
  BY DEF Machines
<1>3. CASE r.kind = "phi"
  BY <1>3 DEF Step
<1>4. CASE r.kind = "def"
  BY <1>1, <1>4 DEF Step
<1>5. CASE r.kind = "mov"
  BY <1>1, <1>5 DEF Step
<1>6. CASE r.kind = "use"
  BY <1>1, <1>6 DEF Step
<1>7. CASE r.kind = "branch"
  BY <1>1, <1>7 DEF Step
<1>8. CASE r.kind \in {"jump", "return"}
  BY <1>1, <1>8 DEF Step
<1> QED BY <1>3, <1>4, <1>5, <1>6, <1>7, <1>8

\* The same, field by field.
Makes(m, r, taken, n) ==
  /\ r.kind \in {"def", "mov", "use"} => n.left = FALSE /\ n.to = m.to
  /\ r.kind = "branch" => n.left = taken /\ n.to = IF taken THEN r.to ELSE m.to
  /\ r.kind \in {"jump", "return"} => n.left = TRUE /\ n.to = r.to
  /\ r.kind \in {"use", "branch", "jump", "return"} => n.env = m.env
  /\ r.kind \in {"def", "mov", "jump", "return"} => n.reads = m.reads
  /\ r.kind = "def" => n.env = [m.env EXCEPT ![r.dest] = Fresh(r.dest)]
  /\ r.kind = "mov" => n.env = [m.env EXCEPT ![r.dest] = m.env[r.src]]
  /\ r.kind \in {"use", "branch"} => n.reads = Append(m.reads, m.env[r.src])

LEMMA StepFields ==
  ASSUME NEW T, NEW m \in Machines(T), m.left = FALSE, NEW r, NEW taken \in BOOLEAN
  PROVE  Makes(m, r, taken, Step(m, r, taken))
<1> DEFINE n == Step(m, r, taken)
<1>1. CASE r.kind = "def"
  <2>1. n = [env |-> [m.env EXCEPT ![r.dest] = Fresh(r.dest)], reads |-> m.reads, left |-> FALSE, to |-> m.to]
    BY <1>1, StepIs
  <2> HIDE DEF n
  <2>2. n.left = FALSE /\ n.to = m.to /\ n.reads = m.reads /\ n.env = [m.env EXCEPT ![r.dest] = Fresh(r.dest)]
    BY <2>1
  <2> QED BY <1>1, <2>2 DEF Makes, n
<1>2. CASE r.kind = "mov"
  <2>1. n = [env |-> [m.env EXCEPT ![r.dest] = m.env[r.src]], reads |-> m.reads, left |-> FALSE, to |-> m.to]
    BY <1>2, StepIs
  <2> HIDE DEF n
  <2>2. n.left = FALSE /\ n.to = m.to /\ n.reads = m.reads /\ n.env = [m.env EXCEPT ![r.dest] = m.env[r.src]]
    BY <2>1
  <2> QED BY <1>2, <2>2 DEF Makes, n
<1>3. CASE r.kind = "use"
  <2>1. n = [env |-> m.env, reads |-> Append(m.reads, m.env[r.src]), left |-> FALSE, to |-> m.to]
    BY <1>3, StepIs
  <2> HIDE DEF n
  <2>2. n.left = FALSE /\ n.to = m.to /\ n.env = m.env /\ n.reads = Append(m.reads, m.env[r.src])
    BY <2>1
  <2> QED BY <1>3, <2>2 DEF Makes, n
<1>4. CASE r.kind = "branch"
  <2>1. n = [env |-> m.env, reads |-> Append(m.reads, m.env[r.src]), left |-> taken,
             to |-> IF taken THEN r.to ELSE m.to]
    BY <1>4, StepIs
  <2> HIDE DEF n
  <2>2. /\ n.left = taken /\ n.to = (IF taken THEN r.to ELSE m.to)
        /\ n.env = m.env /\ n.reads = Append(m.reads, m.env[r.src])
    BY <2>1
  <2> QED BY <1>4, <2>2 DEF Makes, n
<1>5. CASE r.kind \in {"jump", "return"}
  <2>1. n = [env |-> m.env, reads |-> m.reads, left |-> TRUE, to |-> r.to]
    BY <1>5, StepIs
  <2> HIDE DEF n
  <2>2. n.left = TRUE /\ n.to = r.to /\ n.env = m.env /\ n.reads = m.reads
    BY <2>1
  <2> QED BY <1>5, <2>2 DEF Makes, n
<1> QED BY <1>1, <1>2, <1>3, <1>4, <1>5 DEF Makes

\* A machine stays one.
LEMMA StepTyped ==
  ASSUME tick \in {0, 1}, NEW T, NEW m \in Machines(T), NEW r, r.kind \in {x.kind : x \in Insns}, Runs(r, T),
         NEW taken \in BOOLEAN
  PROVE  Step(m, r, taken) \in Machines(T)
<1>1. m.env \in [Vars -> Values] /\ m.reads \in Seq(Values) /\ m.left \in BOOLEAN /\ m.to \in T
  BY DEF Machines
<1>2. CASE m.left = TRUE
  BY <1>2, StepLeft
<1>3. CASE m.left = FALSE
  <2> DEFINE n == Step(m, r, taken)
  <2>1. CASE r.kind = "phi"
    BY <1>3, <2>1, StepIs
  <2>2. CASE r.kind = "def"
    <3>1. r.dest \in Vars /\ Fresh(r.dest) \in Values
      BY <2>2 DEF Runs, Fresh, Values
    <3>2. [m.env EXCEPT ![r.dest] = Fresh(r.dest)] \in [Vars -> Values]
      BY <1>1, <3>1
    <3>3. n = [env |-> [m.env EXCEPT ![r.dest] = Fresh(r.dest)], reads |-> m.reads, left |-> FALSE, to |-> m.to]
      BY <1>3, <2>2, StepIs
    <3> QED BY <1>1, <3>2, <3>3 DEF Machines
  <2>3. CASE r.kind = "mov"
    <3>1. r.dest \in Vars /\ r.src \in Vars /\ m.env[r.src] \in Values
      BY <1>1, <2>3 DEF Runs
    <3>2. [m.env EXCEPT ![r.dest] = m.env[r.src]] \in [Vars -> Values]
      BY <1>1, <3>1
    <3>3. n = [env |-> [m.env EXCEPT ![r.dest] = m.env[r.src]], reads |-> m.reads, left |-> FALSE, to |-> m.to]
      BY <1>3, <2>3, StepIs
    <3> QED BY <1>1, <3>2, <3>3 DEF Machines
  <2>4. CASE r.kind = "use"
    <3>1. r.src \in Vars /\ m.env[r.src] \in Values /\ Append(m.reads, m.env[r.src]) \in Seq(Values)
      BY <1>1, <2>4 DEF Runs
    <3>2. n = [env |-> m.env, reads |-> Append(m.reads, m.env[r.src]), left |-> FALSE, to |-> m.to]
      BY <1>3, <2>4, StepIs
    <3> QED BY <1>1, <3>1, <3>2 DEF Machines
  <2>5. CASE r.kind = "branch"
    <3>1. /\ r.src \in Vars /\ r.to \in T /\ m.env[r.src] \in Values
          /\ Append(m.reads, m.env[r.src]) \in Seq(Values)
      BY <1>1, <2>5 DEF Runs
    <3>2. n = [env |-> m.env, reads |-> Append(m.reads, m.env[r.src]), left |-> taken,
               to |-> IF taken THEN r.to ELSE m.to]
      BY <1>3, <2>5, StepIs
    <3>3. (IF taken THEN r.to ELSE m.to) \in T
      BY <1>1, <3>1
    <3> QED BY <1>1, <3>1, <3>2, <3>3 DEF Machines
  <2>6. CASE r.kind \in {"jump", "return"}
    <3>1. n = [env |-> m.env, reads |-> m.reads, left |-> TRUE, to |-> r.to] /\ r.to \in T
      BY <1>3, <2>6, StepIs DEF Runs
    <3> QED BY <1>1, <3>1 DEF Machines
  <2>7. r.kind \in {"phi", "def", "use", "mov", "branch", "jump", "return"}
    BY DEF Insns
  <2> QED BY <2>1, <2>2, <2>3, <2>4, <2>5, <2>6, <2>7
<1> QED BY <1>1, <1>2, <1>3

\* An instruction that both have leaves them level.
LEMMA StepLevel ==
  ASSUME NEW T, NEW m \in Machines(T), NEW n \in Machines(T), NEW r, NEW taken \in BOOLEAN, NEW next,
         r.kind \in {"def", "use", "branch", "jump", "return"}, Level(m, n, next)
  PROVE  Level(Step(m, r, taken), Step(n, r, taken), next)
<1>1. m.left \in BOOLEAN /\ n.left \in BOOLEAN /\ m.left = n.left
  BY DEF Machines, Level
<1>2. CASE m.left = TRUE
  BY <1>1, <1>2, StepLeft
<1>3. CASE m.left = FALSE
  <2>1. n.left = FALSE /\ m.to = None /\ n.to = next
    BY <1>1, <1>3 DEF Level
  <2>5. Makes(m, r, taken, Step(m, r, taken)) /\ Makes(n, r, taken, Step(n, r, taken))
    BY <1>3, <2>1, StepFields
  <2>2. CASE r.kind \in {"def", "use"}
    <3>1. Step(m, r, taken).left = FALSE /\ Step(m, r, taken).to = m.to
      BY <1>3, <2>2, <2>5 DEF Makes
    <3>2. Step(n, r, taken).left = FALSE /\ Step(n, r, taken).to = n.to
      BY <2>1, <2>2, <2>5 DEF Makes
    <3> QED BY <2>1, <3>1, <3>2 DEF Level
  <2>3. CASE r.kind = "branch"
    <3>1. Step(m, r, taken).left = taken /\ Step(m, r, taken).to = IF taken THEN r.to ELSE m.to
      BY <1>3, <2>3, <2>5 DEF Makes
    <3>2. Step(n, r, taken).left = taken /\ Step(n, r, taken).to = IF taken THEN r.to ELSE n.to
      BY <2>1, <2>3, <2>5 DEF Makes
    <3> QED BY <2>1, <3>1, <3>2 DEF Level
  <2>4. CASE r.kind \in {"jump", "return"}
    <3>1. Step(m, r, taken).left = TRUE /\ Step(m, r, taken).to = r.to
      BY <1>3, <2>4, <2>5 DEF Makes
    <3>2. Step(n, r, taken).left = TRUE /\ Step(n, r, taken).to = r.to
      BY <2>1, <2>4, <2>5 DEF Makes
    <3> QED BY <3>1, <3>2 DEF Level
  <2> QED BY <2>2, <2>3, <2>4
<1> QED BY <1>1, <1>2, <1>3

\* It reads and writes the same, unless moves have been made: a jump reads nothing.
LEMMA StepAlike ==
  ASSUME tick \in {0, 1}, NEW T, NEW m \in Machines(T), NEW n \in Machines(T), NEW r, Runs(r, T),
         NEW taken \in BOOLEAN, m.left = n.left, n.reads = m.reads, NEW moves, NEW j \in Nat,
         Moved(n.env, m.env, moves, j),
         r.kind = "jump" \/ (j = 0 /\ r.kind \in {"def", "use", "branch", "return"})
  PROVE  /\ Step(n, r, taken).reads = Step(m, r, taken).reads
         /\ Moved(Step(n, r, taken).env, Step(m, r, taken).env, moves, j)
<1>1. m.left \in BOOLEAN /\ m.env \in [Vars -> Values] /\ n.env \in [Vars -> Values]
  BY DEF Machines
<1>2. CASE m.left = TRUE
  BY <1>2, StepLeft
<1>3. CASE m.left = FALSE
  <2>1. n.left = FALSE
    BY <1>3
  <2>4. Makes(m, r, taken, Step(m, r, taken)) /\ Makes(n, r, taken, Step(n, r, taken))
    BY <1>3, <2>1, StepFields
  <2>2. CASE r.kind = "jump"
    <3>1. Step(m, r, taken).env = m.env /\ Step(m, r, taken).reads = m.reads
      BY <1>3, <2>2, <2>4 DEF Makes
    <3>2. Step(n, r, taken).env = n.env /\ Step(n, r, taken).reads = n.reads
      BY <2>1, <2>2, <2>4 DEF Makes
    <3> QED BY <3>1, <3>2
  <2>3. CASE r.kind # "jump"
    <3>1. j = 0 /\ r.kind \in {"def", "use", "branch", "return"}
      BY <2>3
    <3>2. n.env = m.env
      BY <1>1, <3>1 DEF Moved
    <3>3. Step(m, r, taken).env = Step(n, r, taken).env /\ Step(m, r, taken).reads = Step(n, r, taken).reads
      <4>1. CASE r.kind = "def"
        BY <1>3, <2>1, <3>2, <4>1, <2>4 DEF Makes
      <4>2. CASE r.kind \in {"use", "branch"}
        <5>1. Step(m, r, taken).env = m.env /\ Step(m, r, taken).reads = Append(m.reads, m.env[r.src])
          BY <1>3, <4>2, <2>4 DEF Makes
        <5>2. Step(n, r, taken).env = n.env /\ Step(n, r, taken).reads = Append(n.reads, n.env[r.src])
          BY <2>1, <4>2, <2>4 DEF Makes
        <5> QED BY <3>2, <5>1, <5>2
      <4>3. CASE r.kind = "return"
        <5>1. Step(m, r, taken).env = m.env /\ Step(m, r, taken).reads = m.reads
          BY <1>3, <4>3, <2>4 DEF Makes
        <5>2. Step(n, r, taken).env = n.env /\ Step(n, r, taken).reads = n.reads
          BY <2>1, <4>3, <2>4 DEF Makes
        <5> QED BY <3>2, <5>1, <5>2
      <4> QED BY <3>1, <4>1, <4>2, <4>3
    <3>4. Step(m, r, taken).env \in [Vars -> Values]
      <4>1. r.kind \in {z.kind : z \in Insns}
        <5>1. Mov(r, r).kind = "mov" /\ NoBind \in [Codes -> Vars \union {None}]
          BY DEF Mov, Op, NoBind
        <5>2. Op(r.kind, None, None, NoBind, None) \in Insns /\ Op(r.kind, None, None, NoBind, None).kind = r.kind
          BY <3>1, <5>1 DEF Op, Insns
        <5> QED BY <5>2
      <4>2. Step(m, r, taken) \in Machines(T)
        BY <4>1, StepTyped
      <4> QED BY <4>2 DEF Machines
    <3>5. Moved(Step(m, r, taken).env, Step(m, r, taken).env, moves, 0)
      BY <3>4 DEF Moved
    <3> QED BY <3>1, <3>3, <3>5
  <2> QED BY <2>2, <2>3
<1> QED BY <1>1, <1>2, <1>3

\* A move that only the program has goes nowhere.
LEMMA MoveLevel ==
  ASSUME NEW T, NEW m \in Machines(T), NEW n \in Machines(T), NEW r, NEW taken \in BOOLEAN, NEW next,
         r.kind = "mov", Level(m, n, next)
  PROVE  Level(m, Step(n, r, taken), next) /\ Step(n, r, taken).left = n.left
<1>1. n.left \in BOOLEAN
  BY DEF Machines
<1>2. CASE n.left = TRUE
  BY <1>2, StepLeft
<1>3. CASE n.left = FALSE
  <2>1. Step(n, r, taken).left = FALSE /\ Step(n, r, taken).to = n.to
    <3>1. Makes(n, r, taken, Step(n, r, taken))
      BY <1>3, StepFields
    <3> QED BY <3>1 DEF Makes
  <2> QED BY <1>3, <2>1 DEF Level
<1> QED BY <1>1, <1>2, <1>3

\* Machine n has read what m has, and has made j moves as well.
With(m, n, moves, j) == n.reads = m.reads /\ Moved(n.env, m.env, moves, j)

\* If it is one of those that keep apart, one more of them has been made.
LEMMA MoveMade ==
  ASSUME NEW T, NEW m \in Machines(T), NEW n \in Machines(T), n.left = FALSE,
         NEW taken \in BOOLEAN, NEW moves \in Seq(Insns), Apart(moves), NEW j \in Nat, j < Len(moves),
         IsMove(moves[j + 1]), With(m, n, moves, j)
  PROVE  With(m, Step(n, moves[j + 1], taken), moves, j + 1)
<1> DEFINE r == moves[j + 1]
           y == Step(n, r, taken)
<1>0. n.reads = m.reads /\ Moved(n.env, m.env, moves, j)
  BY DEF With
<1>1. r.kind = "mov" /\ r.dest \in Vars /\ r.src \in Vars
  BY DEF IsMove
<1>2. y.reads = n.reads /\ y.env = [n.env EXCEPT ![r.dest] = n.env[r.src]]
  <2>1. Makes(n, r, taken, y)
    BY StepFields
  <2> QED BY <1>1, <2>1 DEF Makes
<1>3. n.env \in [Vars -> Values] /\ m.env \in [Vars -> Values]
  BY DEF Machines
<1>4. Len(moves) \in Nat /\ j + 1 \in 1 .. Len(moves)
  OBVIOUS
<1>5. \A i \in 1 .. j : r.src # moves[i].dest /\ moves[i].dest # r.dest
  <2>1. \A i \in 1 .. j : i \in 1 .. Len(moves) /\ i < j + 1
    BY <1>4
  <2> QED BY <1>4, <2>1 DEF Apart
<1> HIDE DEF r, y
<1>6. n.env[r.src] = m.env[r.src]
  BY <1>0, <1>1, <1>5 DEF Moved
<1>7. y.env \in [Vars -> Values] /\ y.env[r.dest] = m.env[r.src]
      /\ \A v \in Vars : v # r.dest => y.env[v] = n.env[v]
  BY <1>1, <1>2, <1>3, <1>6
<1>8. \A i \in 1 .. j + 1 : i = j + 1 \/ i \in 1 .. j
  OBVIOUS
<1>9. ASSUME NEW i \in 1 .. j + 1 PROVE y.env[moves[i].dest] = m.env[moves[i].src]
  <2>1. CASE i = j + 1
    BY <1>7, <2>1 DEF r
  <2>2. CASE i # j + 1
    <3>1. n.env[moves[i].dest] = m.env[moves[i].src] /\ moves[i].dest # r.dest
      BY <1>0, <1>5, <1>8, <2>2 DEF Moved
    <3>2. y.env[moves[i].dest] = n.env[moves[i].dest]
      BY <1>2, <1>3, <3>1
    <3> QED BY <3>1, <3>2
  <2> QED BY <2>1, <2>2
<1>10. ASSUME NEW v \in Vars, \A i \in 1 .. j + 1 : moves[i].dest # v PROVE y.env[v] = m.env[v]
  <2>1. v # r.dest
    BY <1>4, <1>10 DEF r
  <2>2. n.env[v] = m.env[v]
    BY <1>0, <1>8, <1>10 DEF Moved
  <2> QED BY <1>7, <2>1, <2>2
<1> QED BY <1>0, <1>2, <1>7, <1>9, <1>10 DEF With, Moved, r, y
-----------------------------------------------------------------------------
\* In a run every machine is one.
LEMMA RunTyped ==
  ASSUME tick \in {0, 1}, NEW T, NEW s, NEW n \in Nat, NEW m \in Machines(T), NEW taken \in BOOLEAN, NEW M,
         IsRun(M, s, m, taken, n),
         \A k \in 1 .. n : s[k].kind \in {x.kind : x \in Insns} /\ Runs(s[k], T)
  PROVE  \A k \in 0 .. n : M[k] \in Machines(T)
<1> DEFINE Bad == {k \in 0 .. n : M[k] \notin Machines(T)}
<1> SUFFICES ASSUME Bad # {} PROVE FALSE
  OBVIOUS
<1>1. Bad \subseteq Nat /\ \A k \in 0 .. n : k \in Bad <=> M[k] \notin Machines(T)
  OBVIOUS
<1>2. Bad \subseteq 0 .. n
  OBVIOUS
<1> HIDE DEF Bad
<1>3. PICK b \in Bad : \A k \in Bad : b <= k
  BY <1>1, LeastMember
<1>4. b \in 0 .. n /\ b # 0
  BY <1>1, <1>2 DEF IsRun
<1>5. b \in 1 .. n /\ b - 1 \in 0 .. n /\ ~ (b <= b - 1)
  BY <1>4
<1>6. M[b - 1] \in Machines(T)
  BY <1>1, <1>3, <1>5
<1>7. M[b] = Step(M[b - 1], s[b], taken)
  BY <1>5 DEF IsRun
<1>8. M[b] \in Machines(T)
  BY <1>5, <1>6, <1>7, StepTyped
<1> QED BY <1>1, <1>4, <1>8

\* M and N run the same n instructions, from positions p and q on.
Both(M, N, s, p, q, n, T, taken) ==
  /\ taken \in BOOLEAN
  /\ \A i \in 0 .. n : M[p + i] \in Machines(T) /\ N[q + i] \in Machines(T)
  /\ \A i \in 1 .. n :
       /\ M[p + i] = Step(M[p + i - 1], s[p + i], taken)
       /\ N[q + i] = Step(N[q + i - 1], s[p + i], taken)
       /\ Runs(s[p + i], T)
       /\ s[p + i].kind \in {"def", "use", "branch", "jump", "return"}

OnlyJumps(s, p, n) == \A i \in 1 .. n : s[p + i].kind = "jump"

\* They stay level, and alike as far as they were.
LEMMA InStep ==
  ASSUME tick \in {0, 1}, NEW T, NEW s, NEW M, NEW N, NEW p \in Nat, NEW q \in Nat, NEW n \in Nat,
         NEW taken, NEW next, NEW moves, NEW j \in Nat,
         Both(M, N, s, p, q, n, T, taken), Level(M[p], N[q], next),
         NEW g \in Nat, NEW h \in Nat, g = p + n, h = q + n
  PROVE  /\ Level(M[g], N[h], next)
         /\ With(M[p], N[q], moves, j) /\ (j = 0 \/ OnlyJumps(s, p, n)) => With(M[g], N[h], moves, j)
<1> DEFINE calm == With(M[p], N[q], moves, j) /\ (j = 0 \/ OnlyJumps(s, p, n))
<1> SUFFICES Level(M[p + n], N[q + n], next) /\ (calm => With(M[p + n], N[q + n], moves, j))
  OBVIOUS
<1>14. taken \in BOOLEAN
  BY DEF Both
<1>0. calm => With(M[p], N[q], moves, j) /\ (j = 0 \/ OnlyJumps(s, p, n))
  OBVIOUS
<1> HIDE DEF calm
<1> DEFINE Good(i) == Level(M[p + i], N[q + i], next) /\ (calm => With(M[p + i], N[q + i], moves, j))
           Bad == {i \in 0 .. n : ~ Good(i)}
<1>1. Bad \subseteq Nat /\ Bad \subseteq 0 .. n /\ \A i \in 0 .. n : i \in Bad <=> ~ Good(i)
  OBVIOUS
<1>2. Good(0)
  BY <1>0, p + 0 = p, q + 0 = q
<1> SUFFICES ASSUME Bad # {} PROVE FALSE
  <2> SUFFICES ASSUME Bad = {} PROVE Good(n)
    OBVIOUS
  <2>1. n \in 0 .. n
    OBVIOUS
  <2> HIDE DEF Bad, Good
  <2> QED BY <1>1, <2>1
<1> HIDE DEF Bad
<1>3. PICK b \in Bad : \A k \in Bad : b <= k
  BY <1>1, LeastMember
<1>4. b \in 0 .. n /\ ~ Good(b) /\ b # 0
  <2> HIDE DEF Good
  <2> QED BY <1>1, <1>2, <1>3
<1>5. b \in 1 .. n /\ b - 1 \in 0 .. n /\ ~ (b <= b - 1) /\ p + (b - 1) = p + b - 1 /\ q + (b - 1) = q + b - 1
  BY <1>4
<1>6. Good(b - 1)
  <2> HIDE DEF Good
  <2> QED BY <1>1, <1>3, <1>5
<1>7. Level(M[p + b - 1], N[q + b - 1], next) /\ (calm => With(M[p + b - 1], N[q + b - 1], moves, j))
  BY <1>5, <1>6
<1> HIDE DEF Good
<1> DEFINE x == M[p + b - 1]
           y == N[q + b - 1]
           r == s[p + b]
<1>8. x \in Machines(T) /\ y \in Machines(T)
  BY <1>5 DEF Both
<1>9. /\ M[p + b] = Step(x, r, taken) /\ N[q + b] = Step(y, r, taken) /\ Runs(r, T)
      /\ r.kind \in {"def", "use", "branch", "jump", "return"}
      /\ calm => j = 0 \/ r.kind = "jump"
  BY <1>0, <1>5 DEF Both, OnlyJumps
<1> HIDE DEF x, y, r
<1>10. Level(x, y, next) /\ (calm => With(x, y, moves, j))
  BY <1>7 DEF x, y
<1>11. Level(Step(x, r, taken), Step(y, r, taken), next)
  BY <1>8, <1>9, <1>10, <1>14, StepLevel
<1>12. ASSUME calm PROVE With(Step(x, r, taken), Step(y, r, taken), moves, j)
  <2>1. x.left = y.left /\ y.reads = x.reads /\ Moved(y.env, x.env, moves, j)
    BY <1>10, <1>12 DEF Level, With
  <2>2. r.kind = "jump" \/ (j = 0 /\ r.kind \in {"def", "use", "branch", "return"})
    BY <1>9, <1>12
  <2>3. Runs(r, T)
    BY <1>9
  <2>4. /\ Step(y, r, taken).reads = Step(x, r, taken).reads
        /\ Moved(Step(y, r, taken).env, Step(x, r, taken).env, moves, j)
    BY <1>8, <1>14, <2>1, <2>2, <2>3, StepAlike
  <2> QED BY <2>4 DEF With
<1>13. Good(b)
  BY <1>9, <1>11, <1>12 DEF Good
<1> QED BY <1>4, <1>13

\* The moves, from position q on, while the function waits.
LEMMA MovesRun ==
  ASSUME NEW T, NEW m \in Machines(T), NEW N, NEW q \in Nat, NEW taken \in BOOLEAN, NEW next,
         NEW moves \in Seq(Insns), NEW calm,
         \A i \in 0 .. Len(moves) : N[q + i] \in Machines(T),
         \A i \in 1 .. Len(moves) : N[q + i] = Step(N[q + i - 1], moves[i], taken) /\ IsMove(moves[i]),
         Level(m, N[q], next), calm => With(m, N[q], moves, 0),
         calm => Apart(moves) /\ (Len(moves) > 0 => m.left = FALSE)
  PROVE  /\ Level(m, N[q + Len(moves)], next)
         /\ calm => With(m, N[q + Len(moves)], moves, Len(moves))
<1> DEFINE n == Len(moves)
           Good(i) == Level(m, N[q + i], next) /\ (calm => With(m, N[q + i], moves, i))
           Bad == {i \in 0 .. n : ~ Good(i)}
<1>0. n \in Nat
  OBVIOUS
<1>1. Bad \subseteq Nat /\ Bad \subseteq 0 .. n /\ \A i \in 0 .. n : i \in Bad <=> ~ Good(i)
  OBVIOUS
<1>2. Good(0)
  BY q + 0 = q
<1> SUFFICES ASSUME Bad # {} PROVE FALSE
  <2> SUFFICES ASSUME Bad = {} PROVE Good(n)
    OBVIOUS
  <2>1. n \in 0 .. n
    BY <1>0
  <2> HIDE DEF Bad, Good
  <2> QED BY <1>1, <2>1
<1> HIDE DEF Bad
<1>3. PICK b \in Bad : \A k \in Bad : b <= k
  BY <1>1, LeastMember
<1>4. b \in 0 .. n /\ ~ Good(b) /\ b # 0
  <2> HIDE DEF Good, n
  <2> QED BY <1>1, <1>2, <1>3
<1> HIDE DEF n
<1>5. b \in 1 .. n /\ b - 1 \in 0 .. n /\ ~ (b <= b - 1) /\ q + (b - 1) = q + b - 1 /\ b - 1 \in Nat /\ b - 1 < n
      /\ (b - 1) + 1 = b /\ n > 0
  BY <1>0, <1>4
<1>6. Good(b - 1)
  <2> HIDE DEF Good
  <2> QED BY <1>1, <1>3, <1>5
<1> DEFINE y == N[q + b - 1]
           r == moves[b]
<1>7. y \in Machines(T) /\ N[q + b] = Step(y, r, taken) /\ IsMove(r)
  BY <1>5 DEF n
<1>8. Level(m, y, next) /\ (calm => With(m, y, moves, b - 1))
  BY <1>5, <1>6
<1> HIDE DEF Good, y, r
<1>9. Level(m, Step(y, r, taken), next)
  BY <1>7, <1>8, MoveLevel DEF IsMove
<1>10. ASSUME calm PROVE With(m, Step(y, r, taken), moves, b)
  <2>1. y.left = FALSE
    BY <1>5, <1>8, <1>10 DEF Level, n
  <2> DEFINE k == b - 1
  <2>2. r = moves[k + 1] /\ k < Len(moves) /\ k \in Nat /\ k + 1 = b /\ With(m, y, moves, k)
    BY <1>5, <1>8, <1>10 DEF r, n
  <2> HIDE DEF k
  <2>3. IsMove(moves[k + 1]) /\ Apart(moves)
    BY <1>7, <1>10, <2>2
  <2>4. With(m, Step(y, moves[k + 1], taken), moves, k + 1)
    BY <1>7, <2>1, <2>2, <2>3, MoveMade
  <2> QED BY <2>2, <2>4
<1>11. Good(b)
  BY <1>7, <1>9, <1>10 DEF Good
<1> QED BY <1>4, <1>11

\* Phis have run before the run begins.
LEMMA PhisSkipped ==
  ASSUME NEW T, NEW s, NEW n \in Nat, NEW m \in Machines(T), NEW taken \in BOOLEAN, NEW M,
         NEW f \in 0 .. n, IsRun(M, s, m, taken, n), \A k \in 1 .. f : s[k].kind = "phi"
  PROVE  M[f] = m
<1> DEFINE Bad == {k \in 0 .. f : M[k] # m}
<1>1. Bad \subseteq Nat /\ Bad \subseteq 0 .. f /\ \A k \in 0 .. f : k \in Bad <=> M[k] # m
  OBVIOUS
<1> SUFFICES ASSUME Bad # {} PROVE FALSE
  <2> SUFFICES ASSUME Bad = {} PROVE M[f] = m
    OBVIOUS
  <2>1. f \in 0 .. f
    OBVIOUS
  <2> HIDE DEF Bad
  <2> QED BY <1>1, <2>1
<1> HIDE DEF Bad
<1>2. PICK b \in Bad : \A k \in Bad : b <= k
  BY <1>1, LeastMember
<1>3. b \in 0 .. f /\ b # 0
  BY <1>1, <1>2 DEF IsRun
<1>4. b \in 1 .. n /\ b \in 1 .. f /\ b - 1 \in 0 .. f /\ ~ (b <= b - 1)
  BY <1>3
<1>5. M[b - 1] = m
  BY <1>1, <1>2, <1>4
<1>6. M[b] = Step(m, s[b], taken)
  BY <1>4, <1>5 DEF IsRun
<1>7. s[b].kind = "phi"
  BY <1>4
<1>8. M[b] = m
  BY <1>6, <1>7, StepPhi
<1> QED BY <1>1, <1>2, <1>3, <1>8

Inside(m) == m.left = FALSE

\* Nothing in front of the branches and the return leaves a block.
LEMMA StaysInside ==
  ASSUME NEW T, NEW s, NEW n \in Nat, NEW taken \in BOOLEAN, NEW M, NEW m, IsRun(M, s, m, taken, n),
         Inside(m), NEW f \in 0 .. n, \A k \in 0 .. f : M[k] \in Machines(T),
         \A k \in 1 .. f : s[k].kind \in {"phi", "def", "use"}
  PROVE  Inside(M[f])
<1> DEFINE Bad == {k \in 0 .. f : ~ Inside(M[k])}
<1>9. Inside(M[0])
  BY DEF IsRun
<1>1. Bad \subseteq Nat /\ Bad \subseteq 0 .. f /\ \A k \in 0 .. f : k \in Bad <=> ~ Inside(M[k])
  OBVIOUS
<1> SUFFICES ASSUME Bad # {} PROVE FALSE
  <2> SUFFICES ASSUME Bad = {} PROVE Inside(M[f])
    OBVIOUS
  <2>1. f \in 0 .. f
    OBVIOUS
  <2> HIDE DEF Bad
  <2> QED BY <1>1, <2>1
<1> HIDE DEF Bad
<1>2. PICK b \in Bad : \A k \in Bad : b <= k
  BY <1>1, LeastMember
<1>3. b \in 0 .. f /\ b # 0
  BY <1>1, <1>2, <1>9
<1>4. b \in 1 .. n /\ b \in 1 .. f /\ b - 1 \in 0 .. f /\ ~ (b <= b - 1)
  BY <1>3
<1>5. M[b - 1].left = FALSE /\ M[b - 1] \in Machines(T)
  <2>1. Inside(M[b - 1])
    BY <1>1, <1>2, <1>4
  <2> QED BY <1>4, <2>1 DEF Inside
<1>6. M[b] = Step(M[b - 1], s[b], taken)
  BY <1>4 DEF IsRun
<1>7. M[b].left = FALSE
  <2>1. CASE s[b].kind = "phi"
    BY <1>5, <1>6, <2>1, StepPhi
  <2>2. CASE s[b].kind \in {"def", "use"}
    <3>1. Makes(M[b - 1], s[b], taken, M[b])
      BY <1>5, <1>6, StepFields
    <3> QED BY <2>2, <3>1 DEF Makes
  <2> QED BY <1>4, <2>1, <2>2
<1>8. Inside(M[b])
  BY <1>7 DEF Inside
<1> QED BY <1>1, <1>2, <1>3, <1>8

\* The instructions that a rewritten block is made of can run.
LEMMA RewrittenRuns ==
  ASSUME NEW T, NEW s \in Seq(Insns), \A k \in 1 .. Len(s) : Runs(s[k], T),
         NEW b \in Nat, NEW w \in b .. Len(s), NEW f \in 0 .. b, NEW moves \in Seq(Insns),
         NEW t, Rewritten(t, s, w, b, f, moves)
  PROVE  \A i \in 1 .. Len(t) : t[i].kind \in {x.kind : x \in Insns} /\ Runs(t[i], T)
<1>1. t \in Seq(Insns) /\ Len(t) = w - f + Len(moves) /\ Len(moves) \in Nat /\ Len(s) \in Nat
  BY DEF Rewritten
<1> SUFFICES ASSUME NEW i \in 1 .. Len(t) PROVE t[i].kind \in {x.kind : x \in Insns} /\ Runs(t[i], T)
  OBVIOUS
<1>2. t[i] \in Insns
  BY <1>1
<1>3. CASE i <= b - f
  <2> DEFINE k == i + f
  <2>1. k \in f + 1 .. b /\ k - f = i /\ k \in 1 .. Len(s)
    BY <1>3
  <2> HIDE DEF k
  <2>2. t[k - f] = s[k]
    BY <2>1 DEF Rewritten
  <2> QED BY <1>2, <2>1, <2>2
<1>4. CASE i > b - f /\ i <= b - f + Len(moves)
  <2> DEFINE k == i - (b - f)
  <2>1. k \in 1 .. Len(moves) /\ b - f + k = i
    BY <1>1, <1>4
  <2> HIDE DEF k
  <2>2. t[b - f + k] = moves[k] /\ IsMove(moves[k])
    BY <2>1 DEF Rewritten
  <2>3. Runs(moves[k], T)
    BY <2>2 DEF IsMove, Runs
  <2> QED BY <1>2, <2>1, <2>2, <2>3
<1>5. CASE i > b - f + Len(moves)
  <2> DEFINE k == i + f - Len(moves)
  <2>1. k \in b + 1 .. w /\ k - f + Len(moves) = i /\ k \in 1 .. Len(s)
    BY <1>1, <1>5
  <2> HIDE DEF k
  <2>2. t[k - f + Len(moves)] = s[k]
    BY <2>1 DEF Rewritten
  <2> QED BY <1>2, <2>1, <2>2
<1> QED BY <1>1, <1>3, <1>4, <1>5

\* Machine n is m after the last instruction of a block.
Leaves(m, r, n) ==
  /\ n.left = TRUE /\ n.env = m.env /\ n.reads = m.reads
  /\ m.left = TRUE => n.to = m.to
  /\ m.left = FALSE => n.to = r.to

\* This is what a jump or a return does.
LEMMA LastStep ==
  ASSUME NEW T, NEW m \in Machines(T), NEW r, NEW taken \in BOOLEAN, r.kind \in {"jump", "return"}
  PROVE  Leaves(m, r, Step(m, r, taken))
<1>1. m.left \in BOOLEAN
  BY DEF Machines
<1>2. CASE m.left = TRUE
  BY <1>2, StepLeft DEF Leaves
<1>3. CASE m.left = FALSE
  <2>1. Makes(m, r, taken, Step(m, r, taken))
    BY <1>3, StepFields
  <2> QED BY <1>3, <2>1 DEF Makes, Leaves
<1> QED BY <1>1, <1>2, <1>3

\* Both have been run, and leave for the same block.
Ended(m, n, T) == m \in Machines(T) /\ n \in Machines(T) /\ n.to = m.to

\* A block of the function and what became of it go the same way; if control cannot
\* go elsewhere behind moves, they read the same, and the moves are what differs.
LEMMA SideBySide ==
  ASSUME tick \in {0, 1}, NEW T, None \in T, NEW next \in T,
         NEW s \in Seq(Insns), NEW f \in Nat, NEW b \in Nat, Parts(s, f, b), \A k \in 1 .. Len(s) : Runs(s[k], T),
         NEW w \in b .. Len(s),
         w = Len(s) \/ (w + 1 = Len(s) /\ s[Len(s)].kind = "jump" /\ s[Len(s)].to = next),
         NEW moves \in Seq(Insns), NEW t, Rewritten(t, s, w, b, f, moves),
         NEW x \in [Vars -> Values], NEW y \in [Vars -> Values], NEW taken \in BOOLEAN, NEW calm,
         calm => /\ x = y /\ Apart(moves)
                 /\ Len(moves) > 0 => b < Len(s) /\ \A k \in b + 1 .. Len(s) : s[k].kind = "jump"
  PROVE  /\ Ended(RunBlock(s, x, None, taken), RunBlock(t, y, next, taken), T)
         /\ calm => With(RunBlock(s, x, None, taken), RunBlock(t, y, next, taken), moves, Len(moves))
<1>15. Len(s) \in Nat /\ Len(moves) \in Nat /\ Len(t) \in Nat /\ b - f \in Nat
  BY DEF Parts, Rewritten
<1>21. PICK n \in Nat : n = Len(s)
  BY <1>15
<1>22. PICK l \in Nat : l = Len(moves)
  BY <1>15
<1>23. PICK q \in Nat : q = b - f
  BY <1>15
<1>24. PICK o \in Nat : o = Len(t)
  BY <1>15
<1>1. /\ f <= b /\ b <= n /\ n > 0 /\ t \in Seq(Insns) /\ o = w - f + l /\ w \in Nat /\ w <= n /\ f \in 0 .. b
      /\ n \in Nat /\ l \in Nat /\ q \in Nat /\ o \in Nat
  BY <1>21, <1>22, <1>23, <1>24 DEF Parts, Rewritten
<1>2. PICK M : IsRun(M, s, First(x, None), taken, n) /\ RunBlock(s, x, None, taken) = M[n]
  BY <1>21, RunBlockIs
<1>3. PICK N : IsRun(N, t, First(y, next), taken, o) /\ RunBlock(t, y, next, taken) = N[o]
  BY <1>24, RunBlockIs
<1>25. PICK v : v = First(x, None)
  OBVIOUS
<1>26. PICK z : z = First(y, next)
  OBVIOUS
<1>27. /\ IsRun(M, s, v, taken, n) /\ v.left = FALSE /\ v.to = None /\ v.env = x /\ v.reads = <<>>
       /\ IsRun(N, t, z, taken, o) /\ z.left = FALSE /\ z.to = next /\ z.env = y /\ z.reads = <<>>
  BY <1>2, <1>3, <1>25, <1>26 DEF First
<1>4. v \in Machines(T) /\ z \in Machines(T)
  BY <1>25, <1>26 DEF First, Machines
<1>5. \A k \in 0 .. n : M[k] \in Machines(T)
  <2>1. \A k \in 1 .. n : s[k].kind \in {u.kind : u \in Insns} /\ Runs(s[k], T)
    BY <1>21
  <2> QED BY <1>4, <1>27, <2>1, RunTyped
<1>6. \A k \in 0 .. o : N[k] \in Machines(T)
  <2>1. \A k \in 1 .. o : t[k].kind \in {u.kind : u \in Insns} /\ Runs(t[k], T)
    BY <1>1, <1>24, RewrittenRuns
  <2> QED BY <1>4, <1>27, <2>1, RunTyped
<1>7. /\ \A k \in 1 .. n : s[k].kind \in {"phi", "def", "use", "branch", "jump", "return"}
      /\ \A k \in 1 .. n : s[k].kind = "phi" <=> k <= f
      /\ \A k \in 1 .. n : s[k].kind \in {"branch", "jump"} <=> k > b
      /\ \A k \in 1 .. n : s[k].kind \in {"jump", "return"} <=> k = n
  <2>1. \A k \in 1 .. n : s[k].kind \in {"phi", "def", "use", "mov", "branch", "jump", "return"} /\ s[k].kind # "mov"
    <3> TAKE k \in 1 .. n
    <3>1. s[k] \in Insns
      BY <1>15, <1>21
    <3>2. s[k].kind # "mov"
      BY <1>21 DEF Parts
    <3>3. \A r \in Insns : r.kind \in {"phi", "def", "use", "mov", "branch", "jump", "return"}
      BY DEF Insns
    <3> QED BY <3>1, <3>2, <3>3
  <2>2. \A k \in 1 .. n : s[k].kind = "phi" <=> k <= f
    BY <1>21 DEF Parts
  <2>3. \A k \in 1 .. n : s[k].kind \in {"branch", "jump"} <=> k > b
    BY <1>21 DEF Parts, Control
  <2>4. \A k \in 1 .. n : s[k].kind \in {"jump", "return"} <=> k = n
    BY <1>21 DEF Parts
  <2> QED BY <2>1, <2>2, <2>3, <2>4
<1>8. /\ \A k \in 1 .. q : t[k] = s[f + k]
      /\ \A k \in 1 .. l : t[q + k] = moves[k] /\ IsMove(moves[k])
      /\ \A k \in 1 .. w - b : t[q + l + k] = s[b + k]
  <2>1. \A k \in f + 1 .. b : t[k - f] = s[k]
    BY <1>22, <1>23 DEF Rewritten
  <2>2. \A k \in b + 1 .. w : t[k - f + l] = s[k]
    BY <1>22, <1>23 DEF Rewritten
  <2>3. \A k \in 1 .. q : f + k \in f + 1 .. b /\ (f + k) - f = k
    BY <1>1, <1>23
  <2>4. \A k \in 1 .. w - b : b + k \in b + 1 .. w /\ (b + k) - f + l = q + l + k
    BY <1>1, <1>23
  <2>5. \A k \in 1 .. l : t[q + k] = moves[k] /\ IsMove(moves[k])
    BY <1>22, <1>23 DEF Rewritten
  <2> QED BY <2>1, <2>2, <2>3, <2>4, <2>5
<1>9. M[f] = v
  <2>1. f \in 0 .. n
    BY <1>1
  <2>2. \A k \in 1 .. f : k \in 1 .. n /\ k <= f
    BY <1>1
  <2>3. \A k \in 1 .. f : s[k].kind = "phi"
    BY <1>7, <2>2
  <2> QED BY <1>4, <1>27, <2>1, <2>3, PhisSkipped
<1>10. N[0] = z
  BY <1>27 DEF IsRun
<1>16. w = n \/ (w + 1 = n /\ s[n].kind = "jump" /\ s[n].to = next)
  BY <1>21
<1>17. calm => /\ x = y /\ Apart(moves)
               /\ l > 0 => b < n /\ \A k \in b + 1 .. n : s[k].kind = "jump"
  BY <1>21, <1>22
<1>18. /\ \A i \in 1 .. n : M[i] = Step(M[i - 1], s[i], taken)
       /\ \A i \in 1 .. o : N[i] = Step(N[i - 1], t[i], taken)
  BY <1>27 DEF IsRun
<1>19. \A k \in 1 .. n : Runs(s[k], T)
  BY <1>21
<1>20. b = f + q /\ o = q + l + (w - b) /\ w - b \in Nat /\ w = b + (w - b) /\ f \in Nat /\ q + l \in Nat
  BY <1>1, <1>23
<1>11. Level(M[b], N[q], next) /\ (calm => With(M[b], N[q], moves, 0))
  <2>1. \A i \in 0 .. q : M[f + i] \in Machines(T) /\ N[0 + i] \in Machines(T)
    <3>1. \A i \in 0 .. q : f + i \in 0 .. n /\ 0 + i \in 0 .. o
      BY <1>1, <1>20
    <3> QED BY <1>5, <1>6, <3>1
  <2>2. ASSUME NEW i \in 1 .. q
        PROVE  /\ M[f + i] = Step(M[f + i - 1], s[f + i], taken)
               /\ N[0 + i] = Step(N[0 + i - 1], s[f + i], taken)
               /\ Runs(s[f + i], T)
               /\ s[f + i].kind \in {"def", "use", "branch", "jump", "return"}
    <3>1. f + i \in 1 .. n /\ ~ (f + i <= f) /\ i \in 1 .. o /\ 0 + i = i /\ 0 + i - 1 = i - 1
      BY <1>1, <1>20
    <3>2. t[i] = s[f + i]
      BY <1>8
    <3>3. s[f + i].kind \in {"phi", "def", "use", "branch", "jump", "return"} /\ s[f + i].kind # "phi"
      BY <1>7, <3>1
    <3>4. M[f + i] = Step(M[f + i - 1], s[f + i], taken)
      BY <1>18, <3>1
    <3>5. N[0 + i] = Step(N[0 + i - 1], s[f + i], taken)
      BY <1>18, <3>1, <3>2
    <3> QED BY <1>19, <3>1, <3>3, <3>4, <3>5
  <2>3. Level(M[f], N[0], next)
    BY <1>9, <1>10, <1>27 DEF Level
  <2>4. calm => With(M[f], N[0], moves, 0)
    BY <1>9, <1>10, <1>17, <1>27 DEF With, Moved
  <2>5. Level(M[b], N[q], next) /\ (calm => With(M[b], N[q], moves, 0))
    <3>2. Both(M, N, s, f, 0, q, T, taken)
      BY <2>1, <2>2 DEF Both
    <3>1. PICK e \in Nat : e = 0
      OBVIOUS
    <3>3. b = f + q /\ q = e + q
      BY <1>1, <1>20, <3>1
    <3>4. Both(M, N, s, f, e, q, T, taken) /\ Level(M[f], N[e], next)
      BY <2>3, <3>1, <3>2
    <3>5. /\ Level(M[b], N[q], next)
          /\ With(M[f], N[e], moves, e) /\ (e = 0 \/ OnlyJumps(s, f, q)) => With(M[b], N[q], moves, e)
      BY <3>3, <3>4, InStep
    <3> QED BY <2>4, <3>1, <3>5
  <2> QED BY <1>1, <1>20, <2>5
<1>12. Level(M[b], N[q + l], next) /\ (calm => With(M[b], N[q + l], moves, l))
  <2>1. \A i \in 0 .. l : N[q + i] \in Machines(T)
    <3>1. \A i \in 0 .. l : q + i \in 0 .. o
      BY <1>1, <1>20
    <3> QED BY <1>6, <3>1
  <2>2. \A i \in 1 .. l : N[q + i] = Step(N[q + i - 1], moves[i], taken) /\ IsMove(moves[i])
    <3> TAKE i \in 1 .. l
    <3>1. q + i \in 1 .. o
      BY <1>1, <1>20
    <3>2. t[q + i] = moves[i] /\ IsMove(moves[i])
      BY <1>8
    <3> QED BY <1>18, <3>1, <3>2
  <2>3. ASSUME calm, l > 0 PROVE M[b].left = FALSE
    <3>1. \A k \in 1 .. b : k \in 1 .. n /\ ~ (k > b) /\ k # n /\ b \in 0 .. n
      BY <1>1, <1>17, <2>3
    <3>2. \A k \in 1 .. b : s[k].kind \in {"phi", "def", "use"}
      BY <1>7, <3>1
    <3>3. b \in 0 .. n /\ \A k \in 0 .. b : k \in 0 .. n
      BY <1>1
    <3>4. \A k \in 0 .. b : M[k] \in Machines(T)
      BY <1>5, <3>3
    <3>5. Inside(v)
      BY <1>27 DEF Inside
    <3>6. Inside(M[b])
      BY <1>27, <3>2, <3>3, <3>4, <3>5, StaysInside
    <3> QED BY <3>6 DEF Inside
  <2>4. b \in 0 .. n
    BY <1>1
  <2>5. M[b] \in Machines(T)
    BY <1>5, <2>4
  <2>6. calm => Apart(moves) /\ (l > 0 => M[b].left = FALSE)
    BY <1>17, <2>3
  <2> QED BY <1>1, <1>11, <2>1, <2>2, <2>5, <2>6, MovesRun, <1>22
<1>13. Level(M[w], N[o], next) /\ (calm => With(M[w], N[o], moves, l))
  <2>6. PICK d \in Nat : d = w - b
    BY <1>20
  <2>7. PICK g \in Nat : g = q + l
    BY <1>20
  <2>0. d \in Nat /\ g \in Nat /\ w = b + d /\ o = g + d /\ b \in Nat /\ o \in Nat /\ w \in Nat
    BY <1>1, <1>20, <2>6, <2>7
  <2>1. \A i \in 0 .. d : M[b + i] \in Machines(T) /\ N[g + i] \in Machines(T)
    <3>1. \A i \in 0 .. d : b + i \in 0 .. n /\ g + i \in 0 .. o
      BY <1>1, <2>0
    <3> QED BY <1>5, <1>6, <3>1
  <2>2. ASSUME NEW i \in 1 .. d
        PROVE  /\ M[b + i] = Step(M[b + i - 1], s[b + i], taken)
               /\ N[g + i] = Step(N[g + i - 1], s[b + i], taken)
               /\ Runs(s[b + i], T)
               /\ s[b + i].kind \in {"def", "use", "branch", "jump", "return"}
    <3>9. b + i \in Nat /\ b + i > 0 /\ b + i <= b + d /\ b + i > b
      BY <2>0
    <3>10. g + i \in Nat /\ g + i > 0 /\ g + i <= g + d
      BY <2>0
    <3>11. w \in Nat /\ n \in Nat /\ w <= n
      BY <1>1
    <3>1. b + i \in 1 .. n /\ b + i > b /\ g + i \in 1 .. o
      BY <2>0, <3>9, <3>10, <3>11
    <3>2. t[g + i] = s[b + i]
      BY <1>8, <2>6, <2>7
    <3>3. s[b + i].kind \in {"branch", "jump"}
      BY <1>7, <3>1
    <3>4. M[b + i] = Step(M[b + i - 1], s[b + i], taken)
      BY <1>18, <3>1
    <3>5. N[g + i] = Step(N[g + i - 1], t[g + i], taken)
      BY <1>18, <3>1
    <3>6. N[g + i] = Step(N[g + i - 1], s[b + i], taken)
      BY <3>2, <3>5
    <3>7. Runs(s[b + i], T)
      BY <1>19, <3>1
    <3>8. s[b + i].kind \in {"def", "use", "branch", "jump", "return"}
      BY <3>3
    <3> QED BY <3>4, <3>6, <3>7, <3>8
  <2>3. calm => l = 0 \/ OnlyJumps(s, b, d)
    <3>1. \A i \in 1 .. d : b + i \in b + 1 .. n
      BY <1>1, <2>0
    <3> QED BY <1>1, <1>17, <2>6, <3>1 DEF OnlyJumps
  <2>4. Level(M[b], N[g], next) /\ (calm => With(M[b], N[g], moves, l))
    BY <1>12, <2>7
  <2>5. Level(M[w], N[o], next) /\ (calm => With(M[w], N[o], moves, l))
    <3>1. Both(M, N, s, b, g, d, T, taken)
      BY <2>1, <2>2 DEF Both
    <3>2. /\ Level(M[w], N[o], next)
          /\ With(M[b], N[g], moves, l) /\ (l = 0 \/ OnlyJumps(s, b, d)) => With(M[w], N[o], moves, l)
      BY <2>0, <2>4, <3>1, InStep
    <3> QED BY <2>3, <2>4, <3>2
  <2> QED BY <2>0, <2>5
<1>14. Ended(M[n], N[o], T) /\ (calm => With(M[n], N[o], moves, l))
  <2>1. M[n] \in Machines(T) /\ N[o] \in Machines(T) /\ n \in 1 .. n /\ n - 1 \in 0 .. n
    <3>1. n \in 0 .. n /\ o \in 0 .. o /\ n \in 1 .. n /\ n - 1 \in 0 .. n
      BY <1>1
    <3> QED BY <1>5, <1>6, <3>1
  <2>2. M[n] = Step(M[n - 1], s[n], taken) /\ s[n].kind \in {"jump", "return"} /\ M[n - 1] \in Machines(T)
    BY <1>5, <1>7, <1>18, <2>1
  <2>3. /\ M[n].left = TRUE /\ M[n].env = M[n - 1].env /\ M[n].reads = M[n - 1].reads
        /\ M[n - 1].left = TRUE => M[n].to = M[n - 1].to
        /\ M[n - 1].left = FALSE => M[n].to = s[n].to
    <3>1. M[n - 1] \in Machines(T) /\ s[n].kind \in {"jump", "return"} /\ M[n] = Step(M[n - 1], s[n], taken)
      BY <2>2
    <3>2. Leaves(M[n - 1], s[n], M[n])
      BY <3>1, LastStep
    <3> QED BY <3>2 DEF Leaves
  <2>4. CASE w = n
    BY <1>13, <2>1, <2>3, <2>4 DEF Level, Ended
  <2>5. CASE w # n
    <3>1. w = n - 1 /\ s[n].to = next
      BY <1>1, <1>16, <2>5
    <3>2. Level(M[n - 1], N[o], next) /\ (calm => With(M[n - 1], N[o], moves, l))
      BY <1>13, <3>1
    <3>3. M[n - 1].left \in BOOLEAN
      BY <2>2 DEF Machines
    <3>7. N[o].to = M[n].to
      <4>1. CASE M[n - 1].left = TRUE
        <5>1. N[o].to = M[n - 1].to
          BY <3>2, <4>1 DEF Level
        <5> QED BY <2>3, <4>1, <5>1
      <4>2. CASE M[n - 1].left = FALSE
        <5>1. N[o].to = next
          BY <3>2, <4>2 DEF Level
        <5> QED BY <2>3, <3>1, <4>2, <5>1
      <4> QED BY <3>3, <4>1, <4>2
    <3>6. calm => With(M[n], N[o], moves, l)
      BY <2>3, <3>2 DEF With
    <3> QED BY <2>1, <3>6, <3>7 DEF Ended
  <2> QED BY <2>4, <2>5
<1> QED BY <1>2, <1>3, <1>14, <1>21, <1>22
-----------------------------------------------------------------------------
\* What the phis q[1] to q[f] of a block make of values when it is entered from p.
Results(g, q, f, p, values) ==
  /\ g = [v \in Vars |-> g[v]]
  /\ p # None => \A k \in 1 .. f : g[q[k].dest] = values[q[k].bind[p]]
  /\ \A v \in Vars : p = None \/ (\A k \in 1 .. f : q[k].dest # v) => g[v] = values[v]

PhisMake(q, p, values) ==
  LET phis == {r \in Range(q) : r.kind = "phi"}
      of(v) == CHOOSE r \in phis : r.dest = v
  IN  [v \in Vars |-> IF (\E r \in phis : r.dest = v) /\ p # None THEN values[of(v).bind[p]] ELSE values[v]]

\* No two phis of a block have the same result, so each makes its own.
LEMMA PhisMakeResults ==
  ASSUME NEW q \in Seq(Insns), NEW f \in 0 .. Len(q), \A k \in 1 .. Len(q) : q[k].kind = "phi" <=> k <= f,
         \A k \in 1 .. f : q[k].dest \in Vars, \A j, k \in 1 .. f : q[j].dest = q[k].dest => j = k,
         NEW p, NEW values
  PROVE  Results(PhisMake(q, p, values), q, f, p, values)
<1> DEFINE phis == {r \in Range(q) : r.kind = "phi"}
           of(v) == CHOOSE r \in phis : r.dest = v
           g == [v \in Vars |-> IF (\E r \in phis : r.dest = v) /\ p # None THEN values[of(v).bind[p]] ELSE values[v]]
<1>1. g = PhisMake(q, p, values)
  BY DEF PhisMake
<1>2. phis = {q[k] : k \in 1 .. f}
  <2>1. Range(q) = {q[k] : k \in 1 .. Len(q)}
    BY DEF Range
  <2> QED BY <2>1
<1> HIDE DEF phis
<1>3. ASSUME NEW k \in 1 .. f PROVE of(q[k].dest) = q[k] /\ \E r \in phis : r.dest = q[k].dest
  <2>1. q[k] \in phis
    BY <1>2
  <2>2. \A r \in phis : r.dest = q[k].dest => r = q[k]
    BY <1>2
  <2> QED BY <2>1, <2>2
<1>4. ASSUME NEW k \in 1 .. f, p # None PROVE g[q[k].dest] = values[q[k].bind[p]]
  <2>1. q[k].dest \in Vars
    OBVIOUS
  <2> HIDE DEF of
  <2> QED BY <1>3, <1>4, <2>1
<1>5. ASSUME NEW v \in Vars, p = None \/ (\A k \in 1 .. f : q[k].dest # v) PROVE g[v] = values[v]
  BY <1>2, <1>5
<1>6. g = [v \in Vars |-> g[v]]
  OBVIOUS
<1> HIDE DEF g
<1>7. Results(g, q, f, p, values)
  BY <1>4, <1>5, <1>6 DEF Results
<1> QED BY <1>1, <1>7

\* For a block of the function.
LEMMA BlockResults ==
  ASSUME Built, NEW c \in Codes, NEW p, NEW values
  PROVE  Results(PhisMake(ssa[c], p, values), ssa[c], PhiCount(c), p, values)
<1> DEFINE q == ssa[c]
           f == PhiCount(c)
<1>1. q \in Seq(Insns) /\ f \in 0 .. Len(q) /\ PhisOf(c) = 1 .. f /\ \A k \in 1 .. Len(q) : q[k].kind = "phi" <=> k <= f
  BY BlockParts DEF Parts
<1>2. \A k \in 1 .. f : q[k].dest \in Vars
  BY <1>1, PhiFields
<1>3. \A j, k \in 1 .. f : q[j].dest = q[k].dest => j = k
  BY <1>1 DEF Built
<1> HIDE DEF q, f
<1>4. Results(PhisMake(q, p, values), q, f, p, values)
  BY <1>1, <1>2, <1>3, PhisMakeResults
<1> QED BY <1>4 DEF q, f

\* The values a block begins with are values.
LEMMA ResultsTyped ==
  ASSUME Built, NEW c \in Codes, NEW p, p = None \/ (p \in Codes /\ c \in Goes(p)), NEW values \in [Vars -> Values],
         NEW g, Results(g, ssa[c], PhiCount(c), p, values)
  PROVE  g \in [Vars -> Values]
<1> DEFINE f == PhiCount(c)
<1>1. g = [v \in Vars |-> g[v]] /\ PhisOf(c) = 1 .. f
  BY BlockParts DEF Results
<1>2. ASSUME NEW v \in Vars PROVE g[v] \in Values
  <2>1. CASE p = None \/ \A k \in 1 .. f : ssa[c][k].dest # v
    BY <2>1 DEF Results
  <2>2. CASE p # None /\ \E k \in 1 .. f : ssa[c][k].dest = v
    <3>1. PICK k \in 1 .. f : ssa[c][k].dest = v
      BY <2>2
    <3>2. k \in PhisOf(c) /\ p \in Codes /\ c \in Goes(p)
      BY <1>1, <2>2
    <3>3. ssa[c][k].bind[p] \in Vars
      <4>1. ssa[c][k].bind[p] # None
        BY <3>2 DEF Built
      <4>2. ssa[c][k].bind[p] \in Vars \union {None}
        BY <3>2, PhiFields
      <4> QED BY <4>1, <4>2
    <3>4. g[v] = values[ssa[c][k].bind[p]]
      BY <2>2, <3>1 DEF Results
    <3> QED BY <3>3, <3>4
  <2> QED BY <2>1, <2>2
<1> QED BY <1>1, <1>2
-----------------------------------------------------------------------------
\* The instructions of a block can run, and lead where it goes.
LEMMA BlockRuns ==
  ASSUME Built, NEW c \in Codes
  PROVE  \A k \in 1 .. Len(ssa[c]) : Runs(ssa[c][k], Goes(c) \union {None})
<1> TAKE k \in 1 .. Len(ssa[c])
<1> DEFINE r == ssa[c][k]
<1>1. r \in Insns /\ r \in Range(ssa[c])
  <2>1. ssa[c] \in Seq(Insns)
    BY DEF Built
  <2> QED BY <2>1 DEF Range
<1>2. HasFields(r)
  BY DEF Built
<1>3. r.to \in Goes(c) \union {None}
  BY <1>1 DEF Goes
<1> HIDE DEF r
<1>4. r.dest \in Vars \union {None} /\ r.src \in Vars \union {None}
  BY <1>1 DEF Insns
<1>5. Runs(r, Goes(c) \union {None})
  BY <1>2, <1>3, <1>4 DEF HasFields, Runs
<1> QED BY <1>5 DEF r

\* Wherever it goes is a block.
LEMMA GoesToCodes ==
  ASSUME Built, NEW c \in Codes
  PROVE  Goes(c) \subseteq Codes
<1>1. ssa[c] \in Seq(Insns)
  BY DEF Built
<1>2. \A r \in Range(ssa[c]) : r \in Insns
  BY <1>1 DEF Range
<1>3. \A r \in Insns : r.to \in Codes \union {None}
  BY DEF Insns
<1> QED BY <1>2, <1>3 DEF Goes

\* Where phis cannot disturb one another, the moves of a block keep apart and nothing
\* but the one jump is behind them.
LEMMA MovesKeepApart ==
  ASSUME Built, Conventional, NEW m, Copies([c \in Codes |-> PhiCount(c)], m), NEW p \in Codes
  PROVE  /\ Apart(m[p])
         /\ Len(m[p]) > 0 => /\ BeforeControl(ssa[p]) < Len(ssa[p])
                             /\ \A k \in BeforeControl(ssa[p]) + 1 .. Len(ssa[p]) : ssa[p][k].kind = "jump"
<1> DEFINE s == ssa[p]
           b == BeforeControl(ssa[p])
<1>1. CASE \A c \in Codes : c \in Goes(p) => PhisOf(c) = {}
  <2>1. m[p] = <<>>
    BY <1>1 DEF Copies
  <2> QED BY <2>1 DEF Apart
<1>2. CASE \E c \in Codes : c \in Goes(p) /\ PhisOf(c) # {}
  <2>1. PICK c \in Codes : c \in Goes(p) /\ PhisOf(c) # {}
    BY <1>2
  <2> DEFINE f == PhiCount(c)
  <2>2. /\ Len(m[p]) = f
        /\ \A k \in 1 .. f : m[p][k] = Mov(ssa[c][k].dest, ssa[c][k].bind[p])
    BY <2>1 DEF Copies
  <2>3. PhisOf(c) = 1 .. f /\ Goes(p) = {c}
    BY <2>1, BlockParts DEF Conventional
  <2>4. Apart(m[p])
    <3>1. \A k \in 1 .. f : m[p][k].dest = ssa[c][k].dest /\ m[p][k].src = ssa[c][k].bind[p]
      <4> TAKE k \in 1 .. f
      <4>1. \A d, v : Mov(d, v).dest = d /\ Mov(d, v).src = v
        BY DEF Mov, Op
      <4>2. m[p][k] = Mov(ssa[c][k].dest, ssa[c][k].bind[p])
        BY <2>2
      <4> QED BY <4>1, <4>2
    <3>2. \A i, j \in 1 .. f : i < j => ssa[c][j].bind[p] # ssa[c][i].dest
      BY <2>1, <2>3 DEF Conventional
    <3>3. \A i, j \in 1 .. f : ssa[c][i].dest = ssa[c][j].dest => i = j
      BY <2>3 DEF Built
    <3>4. \A i, j \in 1 .. f : i < j => i # j
      OBVIOUS
    <3> HIDE DEF f
    <3> QED BY <2>2, <3>1, <3>2, <3>3, <3>4 DEF Apart
  <2>5. /\ s \in Seq(Insns) /\ b \in Nat /\ Len(s) \in Nat /\ b <= Len(s)
        /\ \A k \in 1 .. Len(s) : s[k].kind \in Control <=> k > b
        /\ \A k \in 1 .. Len(s) : s[k].kind \in {"jump", "return"} <=> k = Len(s)
    BY BlockParts DEF Parts
  <2>6. Range(s) = {s[k] : k \in 1 .. Len(s)}
    BY <2>5 DEF Range
  <2>7. PICK h \in 1 .. Len(s) : s[h].to = c
    <3>1. c \in {r.to : r \in Range(s)}
      BY <2>1 DEF Goes
    <3> QED BY <2>6, <3>1
  <2>8. \A k \in 1 .. Len(s) : HasFields(s[k])
    BY DEF Built
  <2>9. c # None
    BY CodegenAssumption
  <2>10. \A k \in 1 .. Len(s) : k > b => k = h
    <3> SUFFICES ASSUME NEW k \in 1 .. Len(s), k > b PROVE k = h
      OBVIOUS
    <3>1. s[k].to # None
      BY <2>5, <2>8 DEF HasFields
    <3>2. s[k].to \in Goes(p)
      BY <2>6, <3>1 DEF Goes
    <3>3. s[k].to = s[h].to
      BY <2>3, <2>7, <3>2
    <3> QED BY <3>1, <3>3 DEF Built
  <2>11. h > b
    BY <2>5, <2>7, <2>8, <2>9 DEF HasFields
  <2> HIDE DEF s, b
  <2>12. h = Len(s)
    BY <2>5, <2>7, <2>10, <2>11
  <2>13. s[h].kind = "jump"
    <3>1. s[h].kind \in Control /\ s[h].kind \in {"jump", "return"}
      BY <2>5, <2>11, <2>12
    <3> QED BY <3>1 DEF Control
  <2>14. b < Len(s) /\ \A k \in b + 1 .. Len(s) : s[k].kind = "jump"
    <3>1. \A k \in b + 1 .. Len(s) : k \in 1 .. Len(s) /\ k > b
      BY <2>5
    <3> QED BY <2>10, <2>11, <2>12, <2>13, <3>1
  <2> QED BY <2>4, <2>14 DEF s, b
<1> QED BY <1>1, <1>2
-----------------------------------------------------------------------------
\* All phis are expanded, and their moves are where they belong.
AllLaid(m) == Laid([c \in Codes |-> PhiCount(c)], m)

\* Control is where a run has brought it.
Entered ==
  /\ here \in Codes
  /\ from = None \/ (from \in Codes /\ here \in Goes(from))

\* Both have run block c: S is the machine of the function, P that of the program.
LeftFor(S, P, c, m) ==
  /\ Ended(S, P, Codes \union {None}) /\ S.to \in Goes(c) \union {None}
  /\ Conventional => With(S, P, m[c], Len(m[c]))

\* What a step of the run makes of them.
LEMMA BlockEnds ==
  ASSUME Built, tick \in {0, 1}, NEW c \in Codes, NEW m, AllLaid(m), NEW x \in [Vars -> Values], NEW y \in [Vars -> Values],
         NEW taken \in BOOLEAN, Conventional => x = y
  PROVE  LeftFor(RunBlock(ssa[c], x, None, taken), RunBlock(code[c], y, Follows(c), taken), c, m)
<1>1. PICK s : s = ssa[c]
  OBVIOUS
<1>2. PICK t : t = code[c]
  OBVIOUS
<1>3. PICK next : next = Follows(c)
  OBVIOUS
<1>4. PICK moves : moves = m[c]
  OBVIOUS
<1>5. PICK f : f = PhiCount(c)
  OBVIOUS
<1>6. PICK b : b = BeforeControl(ssa[c])
  OBVIOUS
<1>7. PICK w : w = Kept(c)
  OBVIOUS
<1>8. PICK T : T = Codes \union {None}
  OBVIOUS
<1>9. PICK calm : calm = Conventional
  OBVIOUS
<1>10. /\ s \in Seq(Insns) /\ f \in Nat /\ b \in Nat /\ Parts(s, f, b) /\ w \in b .. Len(s)
  BY <1>1, <1>5, <1>6, <1>7, BlockParts
<1>11. moves \in Seq(Insns) /\ Rewritten(t, s, w, b, f, moves)
  <2>1. m \in [Codes -> Seq(Insns)]
    BY DEF AllLaid, Laid
  <2>2. Rewritten(code[c], ssa[c], Kept(c), BeforeControl(ssa[c]), PhiCount(c), m[c])
    BY DEF AllLaid, Laid
  <2> QED BY <1>1, <1>2, <1>4, <1>5, <1>6, <1>7, <2>1, <2>2
<1>12. next \in T /\ None \in T
  <2>1. Follows(c) # None => Follows(c) \in Codes
    <3>1. layout \in Seq(Codes) /\ \E k \in 1 .. Len(layout) : layout[k] = c
      BY DEF Built
    <3>2. IndexOf(c) \in 1 .. Len(layout)
      BY <3>1 DEF IndexOf
    <3>3. IndexOf(c) < Len(layout) => layout[IndexOf(c) + 1] \in Codes
      BY <3>1, <3>2
    <3> QED BY <3>3 DEF Follows
  <2> QED BY <1>3, <1>8, <2>1
<1>13. w = Len(s) \/ (w + 1 = Len(s) /\ s[Len(s)].kind = "jump" /\ s[Len(s)].to = next)
  <2>1. s \in Seq(Insns) /\ Len(s) \in Nat
    BY <1>10
  <2> QED BY <1>1, <1>3, <1>7, <2>1 DEF Kept, EndsInJumpTo, Last
<1>14. \A k \in 1 .. Len(s) : Runs(s[k], Goes(c) \union {None})
  BY <1>1, BlockRuns
<1>15. \A k \in 1 .. Len(s) : Runs(s[k], T)
  BY <1>8, <1>14, GoesToCodes DEF Runs
<1>16. calm => /\ x = y /\ Apart(moves)
               /\ Len(moves) > 0 => b < Len(s) /\ \A k \in b + 1 .. Len(s) : s[k].kind = "jump"
  <2> SUFFICES ASSUME calm
               PROVE  /\ x = y /\ Apart(moves)
                      /\ Len(moves) > 0 => b < Len(s) /\ \A k \in b + 1 .. Len(s) : s[k].kind = "jump"
    OBVIOUS
  <2>1. Conventional
    BY <1>9
  <2>2. Copies([d \in Codes |-> PhiCount(d)], m)
    BY <2>1 DEF AllLaid, Laid
  <2>3. /\ Apart(m[c])
        /\ Len(m[c]) > 0 => /\ BeforeControl(ssa[c]) < Len(ssa[c])
                            /\ \A k \in BeforeControl(ssa[c]) + 1 .. Len(ssa[c]) : ssa[c][k].kind = "jump"
    BY <2>1, <2>2, MovesKeepApart
  <2> QED BY <1>1, <1>4, <1>6, <2>1, <2>3
<1> DEFINE S == RunBlock(s, x, None, taken)
           P == RunBlock(t, y, next, taken)
<1>17. Ended(S, P, T) /\ (calm => With(S, P, moves, Len(moves)))
  BY <1>10, <1>11, <1>12, <1>13, <1>15, <1>16, SideBySide
<1>18. S.to \in Goes(c) \union {None}
  <2>1. PICK n \in Nat : n = Len(s)
    BY <1>10
  <2>2. PICK M : IsRun(M, s, First(x, None), taken, n) /\ RunBlock(s, x, None, taken) = M[n]
    BY <2>1, RunBlockIs
  <2>3. PICK v : v = First(x, None)
    OBVIOUS
  <2>4. PICK G : G = Goes(c) \union {None}
    OBVIOUS
  <2>5. v \in Machines(G)
    BY <2>3, <2>4 DEF First, Machines
  <2>6. \A k \in 1 .. n : s[k].kind \in {u.kind : u \in Insns} /\ Runs(s[k], G)
    <3> TAKE k \in 1 .. n
    <3>1. s[k] \in Insns
      BY <1>10, <2>1
    <3>2. Runs(s[k], G)
      BY <1>14, <2>1, <2>4
    <3> QED BY <3>1, <3>2
  <2>7. IsRun(M, s, v, taken, n)
    BY <2>2, <2>3
  <2>8. \A k \in 0 .. n : M[k] \in Machines(G)
    BY <2>5, <2>6, <2>7, RunTyped
  <2>9. n \in 0 .. n
    OBVIOUS
  <2>10. M[n].to \in G
    BY <2>8, <2>9 DEF Machines
  <2> QED BY <2>2, <2>4, <2>10
<1> HIDE DEF S, P
<1>19. LeftFor(S, P, c, m)
  BY <1>4, <1>8, <1>9, <1>17, <1>18 DEF LeftFor
<1> QED BY <1>1, <1>2, <1>3, <1>19 DEF S, P

\* The moves of a block have done what the phis of the next one do.
LEMMA NextBegins ==
  ASSUME Built, Conventional, NEW c \in Codes, NEW m, AllLaid(m), NEW d \in Codes, d \in Goes(c),
         NEW x \in [Vars -> Values], NEW y, Moved(y, x, m[c], Len(m[c]))
  PROVE  y = PhisMake(ssa[d], c, x)
<1>1. PICK g : g = PhisMake(ssa[d], c, x)
  OBVIOUS
<1>2. PICK f : f = PhiCount(d)
  OBVIOUS
<1>3. Results(g, ssa[d], f, c, x)
  BY <1>1, <1>2, BlockResults
<1>4. PICK moves : moves = m[c]
  OBVIOUS
<1>5. y \in [Vars -> Values] /\ c # None
  BY CodegenAssumption DEF Moved
<1>6. PhisOf(d) = 1 .. f /\ f \in Nat
  BY <1>2, BlockParts
<1>7. \A k \in 1 .. f : ssa[d][k].dest \in Vars
  BY <1>6, PhiFields
<1>8. Copies([e \in Codes |-> PhiCount(e)], m)
  BY DEF AllLaid, Laid
<1>9. Len(moves) = f /\ \A k \in 1 .. f : moves[k].dest = ssa[d][k].dest /\ moves[k].src = ssa[d][k].bind[c]
  <2>1. CASE PhisOf(d) = {}
    <3>1. \A e \in Codes : e \in Goes(c) => PhisOf(e) = {}
      <4> SUFFICES ASSUME NEW e \in Codes, e \in Goes(c), PhisOf(e) # {} PROVE FALSE
        OBVIOUS
      <4>1. Goes(c) = {e}
        BY DEF Conventional
      <4> QED BY <2>1, <4>1
    <3>2. moves = <<>>
      BY <1>4, <1>8, <3>1 DEF Copies
    <3>3. f = 0
      BY <1>6, <2>1
    <3> QED BY <3>2, <3>3
  <2>2. CASE PhisOf(d) # {}
    <3>1. \A v, u : Mov(v, u).dest = v /\ Mov(v, u).src = u
      BY DEF Mov, Op
    <3>2. Len(moves) = f /\ \A k \in 1 .. f : moves[k] = Mov(ssa[d][k].dest, ssa[d][k].bind[c])
      BY <1>2, <1>4, <1>8, <2>2 DEF Copies
    <3> QED BY <3>1, <3>2
  <2> QED BY <2>1, <2>2
<1>10. ASSUME NEW v \in Vars PROVE y[v] = g[v]
  <2>1. CASE \E k \in 1 .. f : ssa[d][k].dest = v
    <3>1. PICK k \in 1 .. f : ssa[d][k].dest = v
      BY <2>1
    <3>2. y[moves[k].dest] = x[moves[k].src]
      BY <1>4, <1>9 DEF Moved
    <3>3. g[v] = x[ssa[d][k].bind[c]]
      BY <1>3, <1>5, <3>1 DEF Results
    <3> QED BY <1>9, <3>1, <3>2, <3>3
  <2>2. CASE \A k \in 1 .. f : ssa[d][k].dest # v
    <3>1. \A k \in 1 .. Len(moves) : moves[k].dest # v
      BY <1>9, <2>2
    <3>2. y[v] = x[v]
      BY <1>4, <3>1 DEF Moved
    <3>3. g[v] = x[v]
      BY <1>3, <2>2 DEF Results
    <3> QED BY <3>2, <3>3
  <2> QED BY <2>1, <2>2
<1>11. g = [v \in Vars |-> g[v]]
  BY <1>3 DEF Results
<1> QED BY <1>1, <1>5, <1>10, <1>11

\* In the program no phi is left, and behind a jump there are only jumps.
LEMMA RewrittenKinds ==
  ASSUME NEW s \in Seq(Insns), NEW f \in Nat, NEW b \in Nat, Parts(s, f, b), NEW w \in b .. Len(s),
         NEW moves \in Seq(Insns), NEW t, Rewritten(t, s, w, b, f, moves)
  PROVE  \A i \in 1 .. Len(t) :
           /\ i <= b - f + Len(moves) => t[i].kind \notin Control \union {"phi"}
           /\ i > b - f + Len(moves) => t[i].kind \in Control /\ t[i].kind # "phi"
<1>1. t \in Seq(Insns) /\ Len(t) = w - f + Len(moves) /\ Len(moves) \in Nat /\ Len(s) \in Nat /\ f <= b
  BY DEF Rewritten, Parts
<1> TAKE i \in 1 .. Len(t)
<1>2. CASE i <= b - f
  <2>1. PICK k \in f + 1 .. b : k = i + f
    BY <1>1, <1>2
  <2>2. k - f = i /\ k \in 1 .. Len(s) /\ ~ (k <= f) /\ ~ (k > b)
    BY <1>1, <2>1
  <2>3. t[k - f] = s[k]
    BY <2>1 DEF Rewritten
  <2>4. s[k].kind # "phi" /\ s[k].kind \notin Control
    BY <2>2 DEF Parts
  <2> QED BY <1>1, <1>2, <2>2, <2>3, <2>4
<1>3. CASE i > b - f /\ i <= b - f + Len(moves)
  <2>1. PICK k \in 1 .. Len(moves) : b - f + k = i
    <3>1. i - (b - f) \in 1 .. Len(moves) /\ b - f + (i - (b - f)) = i
      BY <1>1, <1>3
    <3> QED BY <3>1
  <2>2. t[b - f + k] = moves[k] /\ IsMove(moves[k])
    BY <2>1 DEF Rewritten
  <2> QED BY <1>3, <2>1, <2>2 DEF IsMove, Control
<1>4. CASE i > b - f + Len(moves)
  <2>1. PICK k \in b + 1 .. w : k - f + Len(moves) = i
    <3>1. i + f - Len(moves) \in b + 1 .. w /\ (i + f - Len(moves)) - f + Len(moves) = i
      BY <1>1, <1>4
    <3> QED BY <3>1
  <2>2. k \in 1 .. Len(s) /\ k > b
    BY <1>1, <2>1
  <2>3. t[k - f + Len(moves)] = s[k]
    BY <2>1 DEF Rewritten
  <2>4. s[k].kind \in Control
    BY <2>2 DEF Parts
  <2> QED BY <1>1, <1>4, <2>1, <2>3, <2>4 DEF Control
<1> QED BY <1>1, <1>2, <1>3, <1>4
-----------------------------------------------------------------------------
(* The invariant.                                                           *)

\* Before a run both begin at the entry, and nothing has been read.
Ready == here = Entry /\ from = None /\ ssaEnv = env /\ reads = [ssa |-> <<>>, program |-> <<>>]

\* The passes leave blocks laid out; in a run the values the program has when it enters
\* a block are those the function has when the phis of the block have run.
CodegenInv ==
  /\ Built /\ tick \in {0, 1} /\ env \in [Vars -> Values] /\ ssaEnv \in [Vars -> Values]
  /\ stage \in {"remove_jumps", "expand", "run", "end"}
  /\ stage \in {"remove_jumps", "expand"} => Ready
  /\ stage = "remove_jumps" => code = ssa
  /\ stage = "expand" => \E e, m : Laid(e, m)
  /\ stage \in {"run", "end"} => \E m : AllLaid(m)
  /\ stage = "run" => Entered /\ (Conventional => env = AfterPhis(here))
  /\ SameWay /\ (Conventional => reads.ssa = reads.program)

\* What the optimizer built stays as it was.
LEMMA BuiltNext ==
  ASSUME Built, UNCHANGED <<layout, ssa>>
  PROVE  /\ Built' /\ (Conventional' <=> Conventional)
         /\ \A c \in Codes : PhiCount(c)' = PhiCount(c) /\ Goes(c)' = Goes(c)
<1>1. Built'
  BY DEF Built, Goes, PhisOf
<1>2. Conventional' <=> Conventional
  BY DEF Conventional, Goes, PhisOf
<1>3. \A c \in Codes : PhiCount(c)' = PhiCount(c) /\ Goes(c)' = Goes(c)
  BY DEF PhiCount, Goes
<1> QED BY <1>1, <1>2, <1>3

\* So do the blocks that are laid out, if code does.
LEMMA AllLaidNext ==
  ASSUME Built, UNCHANGED <<layout, ssa, code>>, NEW m, AllLaid(m)
  PROVE  AllLaid(m)'
<1>1. PICK e : e = [c \in Codes |-> PhiCount(c)]
  OBVIOUS
<1>2. Laid(e, m)
  BY <1>1 DEF AllLaid
<1>3. Laid(e, m)'
  <2>1. UNCHANGED <<layout, ssa>> /\ code' = code
    OBVIOUS
  <2>2. e \in [Codes -> Nat] /\ m \in [Codes -> Seq(Insns)] /\ (Conventional => Copies(e, m))
    BY <1>2 DEF Laid
  <2>3. \A c \in Codes : /\ e[c] <= PhiCount(c)
                        /\ Rewritten(code'[c], ssa[c], Kept(c), BeforeControl(ssa[c]), e[c], m[c])
    BY <1>2, <2>1 DEF Laid
  <2> QED BY <2>1, <2>2, <2>3, LaidNext
<1>4. e = [c \in Codes |-> PhiCount(c)']
  BY <1>1, BuiltNext
<1> QED BY <1>3, <1>4 DEF AllLaid

\* It holds at the start.
LEMMA CodegenInit == Init => CodegenInv
<1> SUFFICES ASSUME Init PROVE CodegenInv
  OBVIOUS
<1>1. Built /\ Start
  BY DEF Init
<1>2. code = ssa /\ stage = "remove_jumps" /\ tick = 0 /\ Ready
  BY <1>1 DEF Start, Ready
<1>3. env \in [Vars -> Values] /\ ssaEnv \in [Vars -> Values]
  BY <1>1 DEF Start, Values
<1>4. reads.ssa = <<>> /\ reads.program = <<>>
  BY <1>2 DEF Ready
<1>5. SameWay
  BY <1>4 DEF SameWay
<1> QED BY <1>1, <1>2, <1>3, <1>4, <1>5 DEF CodegenInv

\* The phis of a block, as a function of what they depend on.
LEMMA AfterPhisIs ==
  /\ \A c : AfterPhis(c) = PhisMake(ssa[c], from, ssaEnv)
  /\ \A c : AfterPhis(c)' = PhisMake(ssa'[c], from', ssaEnv')
BY DEF AfterPhis, PhisMake

\* The passes keep the invariant: nothing runs.
LEMMA PassKeeps ==
  ASSUME CodegenInv, cg_remove_jumps \/ (\E c \in Codes : cg_expand_comb(c))
  PROVE  CodegenInv'
<1>1. /\ UNCHANGED <<layout, ssa, here, from, ssaEnv, env, tick, reads>> /\ stage' = "expand"
      /\ stage \in {"remove_jumps", "expand"}
  BY DEF cg_remove_jumps, cg_expand_comb
<1>2. Built /\ Ready
  BY <1>1 DEF CodegenInv
<1>3. Built' /\ Ready' /\ (SameWay' <=> SameWay) /\ (Conventional' <=> Conventional)
  <2>1. Ready'
    BY <1>1, <1>2 DEF Ready
  <2>2. SameWay' <=> SameWay
    BY <1>1 DEF SameWay
  <2> QED BY <1>1, <1>2, <2>1, <2>2, BuiltNext
<1>4. \E e, m : Laid(e, m)'
  <2>1. CASE cg_remove_jumps
    <3>1. code = ssa
      BY <2>1 DEF CodegenInv, cg_remove_jumps
    <3> QED BY <1>2, <2>1, <3>1, RemoveJumpsLays
  <2>2. CASE \E c \in Codes : cg_expand_comb(c)
    <3>1. PICK c \in Codes : cg_expand_comb(c)
      BY <2>2
    <3>2. stage = "expand"
      BY <3>1 DEF cg_expand_comb
    <3>3. PICK e, m : Laid(e, m)
      BY <3>2 DEF CodegenInv
    <3> QED BY <1>2, <3>1, <3>3, ExpandLays
  <2> QED BY <2>1, <2>2
<1>5. /\ tick' \in {0, 1} /\ env' \in [Vars -> Values] /\ ssaEnv' \in [Vars -> Values]
      /\ SameWay /\ (Conventional => reads'.ssa = reads'.program)
  BY <1>1 DEF CodegenInv
<1> QED BY <1>1, <1>3, <1>4, <1>5 DEF CodegenInv

\* When no phi is left both begin with the same values.
LEMMA ExpandedKeeps ==
  ASSUME CodegenInv, Expanded
  PROVE  CodegenInv'
<1>1. /\ UNCHANGED <<layout, ssa, code, here, from, ssaEnv, env, tick, reads>> /\ stage' = "run"
      /\ stage = "expand" /\ \A c \in Codes : ~ NextComb(c)
  BY DEF Expanded
<1>2. Built /\ Ready
  BY <1>1 DEF CodegenInv
<1>3. Built' /\ (SameWay' <=> SameWay) /\ (Conventional' <=> Conventional)
  <2>1. SameWay' <=> SameWay
    BY <1>1 DEF SameWay
  <2> QED BY <1>1, <1>2, <2>1, BuiltNext
<1>4. \E m : AllLaid(m)'
  <2>1. PICK e, m : Laid(e, m)
    BY <1>1 DEF CodegenInv
  <2>2. AllLaid(m)
    BY <1>1, <1>2, <2>1, AllExpanded DEF AllLaid
  <2>3. AllLaid(m)'
    BY <1>1, <1>2, <2>2, AllLaidNext
  <2> QED BY <2>3
<1>5. /\ tick' \in {0, 1} /\ env' \in [Vars -> Values] /\ ssaEnv' \in [Vars -> Values]
      /\ SameWay /\ (Conventional => reads'.ssa = reads'.program)
  BY <1>1 DEF CodegenInv
<1>6. here' = Entry /\ from' = None /\ Entry \in Codes /\ ssaEnv' = env' /\ ssa' = ssa
  BY <1>1, <1>2, CodegenAssumption DEF Ready
<1>7. Entered'
  BY <1>6 DEF Entered
<1>8. (env = AfterPhis(here))'
  <2>1. PICK x : x = env
    OBVIOUS
  <2>2. AfterPhis(here)' = PhisMake(ssa[Entry], None, x)
    <3>1. AfterPhis(here)' = PhisMake(ssa'[here'], from', ssaEnv')
      BY AfterPhisIs
    <3> QED BY <1>1, <1>6, <2>1, <3>1
  <2>3. PICK g : g = PhisMake(ssa[Entry], None, x)
    OBVIOUS
  <2>4. Results(g, ssa[Entry], PhiCount(Entry), None, x)
    BY <1>2, <1>6, <2>3, BlockResults
  <2>5. g = [v \in Vars |-> g[v]] /\ \A v \in Vars : g[v] = x[v]
    BY <2>4 DEF Results
  <2>6. x = [v \in Vars |-> x[v]]
    BY <2>1 DEF CodegenInv
  <2>7. g = x
    BY <2>5, <2>6
  <2> QED BY <1>1, <2>1, <2>2, <2>3, <2>7
<1> QED BY <1>1, <1>3, <1>4, <1>5, <1>7, <1>8 DEF CodegenInv

\* What the run of one block does to the state.
LEMMA RunIs ==
  ASSUME NEW taken \in BOOLEAN, Run(taken),
         NEW S, S = RunBlock(ssa[here], AfterPhis(here), None, taken),
         NEW P, P = RunBlock(code[here], env, Follows(here), taken)
  PROVE  /\ stage = "run" /\ ssaEnv' = S.env /\ env' = P.env
         /\ reads' = [ssa |-> Append(S.reads, S.to), program |-> Append(P.reads, P.to)]
         /\ here' = S.to /\ from' = here /\ stage' = (IF S.to = None THEN "end" ELSE "run")
         /\ tick' = 1 - tick /\ UNCHANGED <<layout, ssa, code>>
BY DEF Run

\* A run keeps the invariant.
LEMMA RunKeeps ==
  ASSUME CodegenInv, NEW taken \in BOOLEAN, Run(taken)
  PROVE  CodegenInv'
<1>1. PICK c : c = here
  OBVIOUS
<1>2. PICK x : x = AfterPhis(here)
  OBVIOUS
<1>3. PICK y : y = env
  OBVIOUS
<1>4. PICK S : S = RunBlock(ssa[here], AfterPhis(here), None, taken)
  OBVIOUS
<1>5. PICK P : P = RunBlock(code[here], env, Follows(here), taken)
  OBVIOUS
<1>6. /\ stage = "run" /\ ssaEnv' = S.env /\ env' = P.env
      /\ reads' = [ssa |-> Append(S.reads, S.to), program |-> Append(P.reads, P.to)]
      /\ here' = S.to /\ from' = here /\ stage' = (IF S.to = None THEN "end" ELSE "run")
      /\ tick' = 1 - tick /\ UNCHANGED <<layout, ssa, code>>
  BY <1>4, <1>5, RunIs
<1>7. /\ Built /\ tick \in {0, 1} /\ Entered /\ (Conventional => x = y)
      /\ y \in [Vars -> Values] /\ ssaEnv \in [Vars -> Values]
  BY <1>2, <1>3, <1>6 DEF CodegenInv
<1>8. PICK m : AllLaid(m)
  BY <1>6 DEF CodegenInv
<1>9. c \in Codes /\ (from = None \/ (from \in Codes /\ c \in Goes(from)))
  BY <1>1, <1>7 DEF Entered
<1>10. x \in [Vars -> Values]
  <2>1. PICK p : p = from
    OBVIOUS
  <2>2. PICK values : values = ssaEnv
    OBVIOUS
  <2>3. x = PhisMake(ssa[c], p, values)
    BY <1>1, <1>2, <2>1, <2>2, AfterPhisIs
  <2>4. Results(x, ssa[c], PhiCount(c), p, values)
    BY <1>7, <1>9, <2>3, BlockResults
  <2>5. p = None \/ (p \in Codes /\ c \in Goes(p))
    BY <1>9, <2>1
  <2>6. values \in [Vars -> Values]
    BY <1>7, <2>2
  <2> QED BY <1>7, <1>9, <2>4, <2>5, <2>6, ResultsTyped
<1>11. LeftFor(S, P, c, m)
  <2>1. S = RunBlock(ssa[c], x, None, taken) /\ P = RunBlock(code[c], y, Follows(c), taken)
    BY <1>1, <1>2, <1>3, <1>4, <1>5
  <2> QED BY <1>7, <1>8, <1>9, <1>10, <2>1, BlockEnds
<1>12. PICK T : T = Codes \union {None}
  OBVIOUS
<1>13. /\ S \in Machines(T) /\ P \in Machines(T) /\ P.to = S.to /\ S.to \in Goes(c) \union {None}
       /\ Conventional => With(S, P, m[c], Len(m[c]))
  BY <1>11, <1>12 DEF LeftFor, Ended
<1>14. /\ S.env \in [Vars -> Values] /\ S.reads \in Seq(Values) /\ S.to \in T
       /\ P.env \in [Vars -> Values] /\ P.reads \in Seq(Values)
  BY <1>13 DEF Machines
<1>15. Built' /\ (Conventional' <=> Conventional) /\ Goes(c)' = Goes(c)
  BY <1>6, <1>7, <1>9, BuiltNext
<1>16. AllLaid(m)'
  BY <1>6, <1>7, <1>8, AllLaidNext
<1>17. SameWay'
  <2>1. Last(Append(S.reads, S.to)) = S.to /\ Last(Append(P.reads, P.to)) = P.to
    <3>1. \A v : \A r \in Seq(Values) : Last(Append(r, v)) = v
      BY DEF Last
    <3> QED BY <1>14, <3>1
  <2>2. reads'.ssa = Append(S.reads, S.to) /\ reads'.program = Append(P.reads, P.to)
    BY <1>6
  <2>3. Last(reads'.ssa) = Last(reads'.program)
    BY <1>13, <2>1, <2>2
  <2> QED BY <2>3 DEF SameWay
<1>18. Conventional => reads'.ssa = reads'.program
  BY <1>6, <1>13 DEF With
<1>19. ASSUME stage' = "run" PROVE Entered' /\ (Conventional => (env = AfterPhis(here))')
  <2>1. PICK d : d = S.to
    OBVIOUS
  <2>2. d \in Goes(c) /\ d # None /\ d \in Codes
    <3>1. S.to # None
      BY <1>6, <1>19
    <3> QED BY <1>12, <1>13, <1>14, <2>1, <3>1
  <2>3. here' = d /\ from' = c
    BY <1>1, <1>6, <2>1
  <2>4. Entered'
    BY <1>9, <1>15, <2>2, <2>3 DEF Entered
  <2>5. ASSUME Conventional PROVE (env = AfterPhis(here))'
    <3>1. PICK u : u = P.env
      OBVIOUS
    <3>2. PICK z : z = S.env
      OBVIOUS
    <3>3. z \in [Vars -> Values] /\ Moved(u, z, m[c], Len(m[c]))
      BY <1>13, <1>14, <2>5, <3>1, <3>2 DEF With
    <3>4. u = PhisMake(ssa[d], c, z)
      BY <1>7, <1>8, <1>9, <2>2, <2>5, <3>3, NextBegins
    <3>5. AfterPhis(here)' = PhisMake(ssa'[here'], from', ssaEnv')
      BY AfterPhisIs
    <3> QED BY <1>6, <2>3, <3>1, <3>2, <3>4, <3>5
  <2> QED BY <2>4, <2>5
<1>20. stage' \in {"run", "end"}
  BY <1>6
<1>21. tick' \in {0, 1} /\ env' \in [Vars -> Values] /\ ssaEnv' \in [Vars -> Values]
  BY <1>6, <1>7, <1>14
<1> QED BY <1>15, <1>16, <1>17, <1>18, <1>19, <1>20, <1>21 DEF CodegenInv

\* So does every step, and one that changes nothing.
LEMMA CodegenNext ==
  ASSUME CodegenInv, [Next]_vars
  PROVE  CodegenInv'
<1>1. CASE cg_remove_jumps \/ (\E c \in Codes : cg_expand_comb(c))
  BY <1>1, PassKeeps
<1>2. CASE Expanded
  BY <1>2, ExpandedKeeps
<1>3. CASE \E taken \in BOOLEAN : Run(taken)
  BY <1>3, RunKeeps
<1>4. CASE UNCHANGED vars
  <2>1. /\ layout' = layout /\ ssa' = ssa /\ code' = code /\ stage' = stage /\ here' = here
        /\ from' = from /\ ssaEnv' = ssaEnv /\ env' = env /\ tick' = tick /\ reads' = reads
    BY <1>4 DEF vars
  <2>2. Built /\ Built' /\ (Conventional' <=> Conventional)
        /\ \A c \in Codes : PhiCount(c)' = PhiCount(c) /\ Goes(c)' = Goes(c)
    BY <2>1, BuiltNext DEF CodegenInv
  <2>3. Ready' <=> Ready
    BY <2>1 DEF Ready
  <2>4. SameWay' <=> SameWay
    BY <2>1 DEF SameWay
  <2>5. Entered => Entered'
    BY <2>1 DEF Entered, Goes
  <2>6. AfterPhis(here)' = AfterPhis(here)
    BY <2>1 DEF AfterPhis
  <2>7. \A m : AllLaid(m) => AllLaid(m)'
    BY <2>1, <2>2, AllLaidNext
  <2>8. \A e, m : Laid(e, m) => Laid(e, m)'
    <3> SUFFICES ASSUME NEW e, NEW m, Laid(e, m) PROVE Laid(e, m)'
      OBVIOUS
    <3>1. e \in [Codes -> Nat] /\ m \in [Codes -> Seq(Insns)] /\ (Conventional => Copies(e, m))
      BY DEF Laid
    <3>2. \A c \in Codes : /\ e[c] <= PhiCount(c)
                          /\ Rewritten(code'[c], ssa[c], Kept(c), BeforeControl(ssa[c]), e[c], m[c])
      BY <2>1 DEF Laid
    <3> QED BY <2>1, <3>1, <3>2, LaidNext
  <2> QED BY <2>1, <2>2, <2>3, <2>4, <2>5, <2>6, <2>7, <2>8 DEF CodegenInv
<1> QED BY <1>1, <1>2, <1>3, <1>4 DEF Next
-----------------------------------------------------------------------------
\* The blocks that are laid out have no phi, and nothing but jumps behind a jump.
LEMMA CodeIsOK ==
  ASSUME CodegenInv
  PROVE  CodeOK
<1> SUFFICES ASSUME stage \in {"run", "end"}, NEW c \in Codes,
                    NEW j \in 1 .. Len(code[c]), NEW k \in 1 .. Len(code[c])
             PROVE  /\ code[c][k].kind # "phi"
                    /\ j < k /\ code[c][j].kind \in Control => code[c][k].kind \in Control \union {"return"}
  BY DEF CodeOK
<1>1. PICK m : AllLaid(m)
  BY DEF CodegenInv
<1>2. Rewritten(code[c], ssa[c], Kept(c), BeforeControl(ssa[c]), PhiCount(c), m[c]) /\ m[c] \in Seq(Insns)
  BY <1>1 DEF AllLaid, Laid
<1>3. Built
  BY DEF CodegenInv
<1> DEFINE n == BeforeControl(ssa[c]) - PhiCount(c) + Len(m[c])
<1>4. \A i \in 1 .. Len(code[c]) : /\ i <= n => code[c][i].kind \notin Control \union {"phi"}
                                   /\ i > n => code[c][i].kind \in Control /\ code[c][i].kind # "phi"
  BY <1>2, <1>3, BlockParts, RewrittenKinds
<1>5. n \in Int
  BY <1>2, <1>3, BlockParts
<1> HIDE DEF n
<1>6. j \in Nat /\ k \in Nat
  BY <1>2 DEF Rewritten
<1> QED BY <1>4, <1>5, <1>6

\* The invariant holds in every state that codegen and the run of its program reach.
THEOREM CodegenIsInductive == Spec => []CodegenInv
<1>1. Init => CodegenInv
  BY CodegenInit
<1>2. CodegenInv /\ [Next]_vars => CodegenInv'
  BY CodegenNext
<1> QED BY <1>1, <1>2, PTL DEF Spec

\* Every function is laid out soundly, whatever the order of its blocks: no phi is left,
\* no move is put behind a jump, and the program takes the same way (codegen.c:311, 331).
THEOREM LayoutIsSound == Spec => []LayoutOK
<1>1. CodegenInv => LayoutOK
  BY CodeIsOK DEF CodegenInv, LayoutOK
<1> QED BY <1>1, CodegenIsInductive, PTL

\* If no phi can disturb another, the moves of cg_expand_comb change nothing: whatever
\* the program reads is what the function reads (codegen.c:341).
THEOREM MovesKeepReads == Spec => []AgreeIfConventional
<1>1. CodegenInv => AgreeIfConventional
  BY DEF CodegenInv, AgreeIfConventional, Agree
<1> QED BY <1>1, CodegenIsInductive, PTL
=============================================================================
