--------------------------- MODULE HashSetProofs ----------------------------
(***************************************************************************)
(* Proofs about HashSet, for any values, hash function and bucket size:    *)
(* the table implements PlainSet, and no entry is ever lost in it.         *)
(*                                                                         *)
(* The invariant says of the table that every entry is in the bucket of    *)
(* its hash, that there are buckets if there are entries, and that len is  *)
(* not smaller than their number (it may be larger after set_intersect).   *)
(***************************************************************************)
EXTENDS HashSet, FiniteSetTheorems, WellFoundedInduction, TLAPS

\* The parts of set_t, as a table has them between any two of its functions.
Shape(t) ==
  /\ t = [place |-> t.place, buckets_len |-> t.buckets_len, len |-> t.len]
  /\ Entries(t) \subseteq Values
  /\ t.len \in Nat
  /\ Cardinality(Entries(t)) <= t.len

Sorted(t) == \A v \in Entries(t) : t.place[v].bucket = Hash[v] % t.buckets_len

Sound(t) ==
  /\ Shape(t)
  /\ Sorted(t)
  /\ t.buckets_len = 0 => Entries(t) = {}

IInv == Sound(table) /\ loop.todo \subseteq Values

-----------------------------------------------------------------------------
\* There is a last power of two up to any number but 0.
LEMMA LastPowerIsLast ==
  ASSUME NEW m \in Nat \ {0}
  PROVE  LastPower(m) \in PowersOfTwo(m) /\ \A q \in PowersOfTwo(m) : q <= LastPower(m)
<1> DEFINE T == {m - q : q \in PowersOfTwo(m)}
<1>1. 2 ^ 0 = 1
  OBVIOUS
<1>2. 1 \in PowersOfTwo(m)
  <2>1. 0 \in 0 .. m /\ 1 \in 1 .. m
    OBVIOUS
  <2>2. \E k \in 0 .. m : 1 = 2 ^ k
    BY <1>1, <2>1, Zenon
  <2> QED BY <2>1, <2>2, Zenon DEF PowersOfTwo
<1>3. T \subseteq Nat /\ T # {}
  BY <1>2 DEF PowersOfTwo
<1>4. PICK x \in T : \A y \in T : ~ (<<y, x>> \in OpToRel(<, Nat))
  BY <1>3, NatLessThanWellFounded, WFMin
<1>5. PICK p \in PowersOfTwo(m) : x = m - p
  BY <1>4
<1>6. \A q \in PowersOfTwo(m) : q <= p
  <2> TAKE q \in PowersOfTwo(m)
  <2>1. m - q \in Nat /\ m - p \in Nat /\ p \in Nat /\ q \in Nat
    BY DEF PowersOfTwo
  <2>2. ~ (m - q < m - p)
    BY <1>4, <1>5, <2>1 DEF OpToRel
  <2> QED BY <2>1, <2>2
<1> QED BY <1>6 DEF LastPower

\* It is not larger than the number.
LEMMA LastPowerType ==
  ASSUME NEW m \in Nat \ {0}
  PROVE  LastPower(m) \in 1 .. m
  BY LastPowerIsLast DEF PowersOfTwo

\* A set that is not empty gets at least one bucket.
LEMMA MinBucketsPositive ==
  ASSUME NEW n \in Nat \ {0}
  PROVE  MinBuckets(n) # 0
<1> DEFINE m == (n + MaxBucketSize - 1) \div MaxBucketSize
<1>1. m \in Nat \ {0}
  BY HashSetAssumption
<1>2. LastPower(m) \in 1 .. m
  BY <1>1, LastPowerType
<1>3. MinBuckets(n) = IF m = LastPower(m) THEN m ELSE 4 * LastPower(m)
  BY DEF MinBuckets
<1> HIDE DEF m
<1> QED BY <1>1, <1>2, <1>3

\* Resizing sorts the entries anew and leaves none out.
LEMMA ResizeSound ==
  ASSUME NEW t, Shape(t), NEW n, n # 0
  PROVE  Sound(set_resize(t, n)) /\ Entries(set_resize(t, n)) = Entries(t)
<1> DEFINE r == set_resize(t, n)
<1>1. r.buckets_len = n /\ r.len = t.len
      /\ r = [place |-> r.place, buckets_len |-> r.buckets_len, len |-> r.len]
  <2>1. PICK q : r = [t EXCEPT !.place = q, !.buckets_len = n]
    BY DEF set_resize
  <2> HIDE DEF r
  <2>2. r = [place |-> q, buckets_len |-> n, len |-> t.len]
    BY <2>1 DEF Shape
  <2> QED BY <2>2
<1>2. Entries(r) = Entries(t)
  BY DEF Shape, set_resize, Placed, Entries
<1>3. \A v \in Entries(t) : r.place[v].bucket = Hash[v] % n
  BY DEF Shape, set_resize, Placed, Entries
<1>4. Sound(r)
  <2> HIDE DEF r
  <2> QED BY <1>1, <1>2, <1>3 DEF Sound, Shape, Sorted
<1> QED BY <1>2, <1>4

\* The set with no entries is sound.
LEMMA EmptySetSound == Sound(EmptySet) /\ Entries(EmptySet) = {}
<1>1. Entries(EmptySet) = {} /\ EmptySet.len = 0
  BY DEF Entries, EmptySet
<1>2. EmptySet = [place |-> EmptySet.place, buckets_len |-> EmptySet.buckets_len,
                  len |-> EmptySet.len]
  BY DEF EmptySet
<1>3. Shape(EmptySet)
  BY <1>1, <1>2, FS_EmptySet DEF Shape
<1> QED BY <1>1, <1>3 DEF Sound, Sorted

\* An empty set has no buckets, any other is resized or is already sorted.
LEMMA AutoResizeSound ==
  ASSUME NEW t, Shape(t), Sorted(t)
  PROVE  Sound(set_auto_resize(t)) /\ Entries(set_auto_resize(t)) = Entries(t)
<1>1. CASE t.len = 0
  <2>1. Entries(t) = {}
    <3>1. IsFiniteSet(Entries(t))
      BY HashSetAssumption, FS_Subset DEF Shape
    <3>2. Cardinality(Entries(t)) \in Nat
      BY <3>1, FS_CardinalityType
    <3> QED BY <1>1, <3>1, <3>2, FS_EmptySet DEF Shape
  <2> QED BY <1>1, <2>1, EmptySetSound DEF set_auto_resize
<1>2. CASE t.len # 0
  <2>1. MinBuckets(t.len) # 0
    BY <1>2, MinBucketsPositive DEF Shape
  <2>2. CASE MinBuckets(t.len) = t.buckets_len
    BY <1>2, <2>1, <2>2 DEF set_auto_resize, Sound
  <2>3. CASE MinBuckets(t.len) # t.buckets_len
    BY <1>2, <2>1, <2>3, ResizeSound DEF set_auto_resize
  <2> QED BY <2>2, <2>3
<1> QED BY <1>1, <1>2

\* Taking entries out of their lists moves no other entry to another list.
LEMMA KeepSound ==
  ASSUME NEW t, Sound(t), NEW S \in SUBSET Entries(t)
  PROVE  /\ Entries(Keep(t, S)) = S /\ Sorted(Keep(t, S))
         /\ Keep(t, S).len = t.len /\ Keep(t, S).buckets_len = t.buckets_len
         /\ Keep(t, S) = [place |-> Keep(t, S).place, buckets_len |-> t.buckets_len, len |-> t.len]
<1> DEFINE k == Keep(t, S)
<1>1. k.buckets_len = t.buckets_len /\ k.len = t.len
      /\ k = [place |-> k.place, buckets_len |-> t.buckets_len, len |-> t.len]
  BY DEF Sound, Shape, Keep
<1>2. Entries(k) = S
  BY DEF Sound, Shape, Keep, Placed, Entries
<1>3. \A v \in S : k.place[v].bucket = t.place[v].bucket
  BY DEF Sound, Shape, Keep, Placed
<1>4. Sorted(k)
  BY <1>1, <1>2, <1>3 DEF Sound, Sorted
<1> QED BY <1>1, <1>2, <1>4

-----------------------------------------------------------------------------
\* dlist_append puts the value where it belongs.
LEMMA AppendedSound ==
  ASSUME NEW u, Sound(u), u.buckets_len # 0, NEW v \in Values, v \notin Entries(u)
  PROVE  /\ Shape(Appended(u, v)) /\ Sorted(Appended(u, v))
         /\ Entries(Appended(u, v)) = Entries(u) \union {v}
         /\ Appended(u, v).len = u.len + 1 /\ Appended(u, v).buckets_len = u.buckets_len
<1> DEFINE a == Appended(u, v)
<1>1. a.buckets_len = u.buckets_len /\ a.len = u.len + 1
      /\ a = [place |-> a.place, buckets_len |-> a.buckets_len, len |-> a.len]
  <2>1. PICK q : a = [u EXCEPT !.place = q, !.len = @ + 1]
    BY DEF Appended
  <2> HIDE DEF a
  <2>2. a = [place |-> q, buckets_len |-> u.buckets_len, len |-> u.len + 1]
    BY <2>1 DEF Sound, Shape
  <2> QED BY <2>2
<1>2. Entries(a) = Entries(u) \union {v}
  BY DEF Appended, Sound, Shape, Entries
<1>3. a.place[v].bucket = Hash[v] % u.buckets_len
  BY DEF Appended, Sound, Shape, Entries
<1>4. \A x \in Entries(u) : a.place[x] = u.place[x]
  BY DEF Appended, Sound, Shape, Entries
<1>5. Cardinality(Entries(a)) <= a.len
  <2>1. IsFiniteSet(Entries(u))
    BY HashSetAssumption, FS_Subset DEF Sound, Shape
  <2>2. Cardinality(Entries(a)) = Cardinality(Entries(u)) + 1 /\ Cardinality(Entries(u)) \in Nat
    BY <1>2, <2>1, FS_AddElement, FS_CardinalityType
  <2> QED BY <1>1, <2>2 DEF Sound, Shape
<1> HIDE DEF a
<1>6. Sorted(a)
  BY <1>1, <1>2, <1>3, <1>4 DEF Sorted, Sound
<1>7. Shape(a)
  BY <1>1, <1>2, <1>5 DEF Sound, Shape
<1> QED BY <1>1, <1>2, <1>6, <1>7 DEF a

\* set_add adds the value and nothing else.
LEMMA AddedSound ==
  ASSUME NEW t, Sound(t), NEW v \in Values
  PROVE  Sound(Added(t, v)) /\ Entries(Added(t, v)) = Entries(t) \union {v}
<1> DEFINE u == WithBuckets(t)
           a == Appended(u, v)
<1>1. Sound(u) /\ Entries(u) = Entries(t) /\ u.buckets_len # 0
  BY DEF WithBuckets, Sound, Shape, Sorted, Entries
<1>2. Added(t, v) = IF InItsBucket(u, v) THEN u ELSE set_auto_resize(a)
  BY DEF Added
<1> HIDE DEF u
<1>3. InItsBucket(u, v) <=> v \in Entries(u)
  BY <1>1 DEF InItsBucket, Sound, Sorted
<1>4. v \notin Entries(u) => Shape(a) /\ Sorted(a) /\ Entries(a) = Entries(u) \union {v}
  BY <1>1, AppendedSound
<1> HIDE DEF a
<1> QED BY <1>1, <1>2, <1>3, <1>4, AutoResizeSound

\* set_get finds exactly the entries.
LEMMA GetExact ==
  ASSUME NEW t, Sound(t), NEW v
  PROVE  set_get(t, v) <=> v \in Entries(t)
<1>1. InItsBucket(t, v) <=> v \in Entries(t)
  BY DEF InItsBucket, Sound, Sorted
<1>2. ASSUME v \in Entries(t) PROVE t.len # 0
  <2>1. IsFiniteSet(Entries(t))
    BY HashSetAssumption, FS_Subset DEF Sound, Shape
  <2>2. Cardinality(Entries(t)) \in Nat /\ Cardinality(Entries(t)) # 0
    BY <1>2, <2>1, FS_CardinalityType, FS_EmptySet
  <2> QED BY <2>2 DEF Sound, Shape
<1> QED BY <1>1, <1>2 DEF set_get

\* dlist_remove takes the value out, and the length is counted down.
TakenOut(t, v) == [Keep(t, Entries(t) \ {v}) EXCEPT !.len = @ - 1]

LEMMA TakenOutSound ==
  ASSUME NEW t, Sound(t), NEW v \in Entries(t)
  PROVE  /\ Removed(t, v) = set_auto_resize(TakenOut(t, v))
         /\ Shape(TakenOut(t, v)) /\ Sorted(TakenOut(t, v)) /\ Entries(TakenOut(t, v)) = Entries(t) \ {v}
         /\ TakenOut(t, v) = [place |-> Keep(t, Entries(t) \ {v}).place,
                              buckets_len |-> t.buckets_len, len |-> t.len - 1]
<1> DEFINE k == Keep(t, Entries(t) \ {v})
           r == TakenOut(t, v)
<1>1. /\ Entries(k) = Entries(t) \ {v} /\ Sorted(k)
      /\ k = [place |-> k.place, buckets_len |-> t.buckets_len, len |-> t.len]
  BY KeepSound
<1>2. Removed(t, v) = set_auto_resize(r)
  BY GetExact DEF Removed, TakenOut
<1>3. r = [k EXCEPT !.len = @ - 1]
  BY DEF TakenOut
<1> HIDE DEF k, r
<1>4. r = [place |-> k.place, buckets_len |-> t.buckets_len, len |-> t.len - 1]
  BY <1>1, <1>3
<1>5. IsFiniteSet(Entries(t))
  BY HashSetAssumption, FS_Subset DEF Sound, Shape
<1>6. Cardinality(Entries(t) \ {v}) = Cardinality(Entries(t)) - 1 /\ Cardinality(Entries(t)) \in Nat
      /\ Cardinality(Entries(t)) # 0
  BY <1>5, FS_RemoveElement, FS_CardinalityType, FS_EmptySet
<1>7. Entries(r) = Entries(t) \ {v} /\ r.place = k.place /\ r.buckets_len = k.buckets_len
  BY <1>1, <1>4 DEF Entries
<1>8. Sorted(r)
  BY <1>1, <1>7 DEF Sorted
<1>9. Shape(r)
  <2>1. t.len \in Nat /\ Cardinality(Entries(t)) <= t.len /\ Entries(t) \subseteq Values
    BY DEF Sound, Shape
  <2>2. r.len = t.len - 1 /\ r = [place |-> r.place, buckets_len |-> r.buckets_len, len |-> r.len]
    BY <1>4
  <2>3. r.len \in Nat /\ Cardinality(Entries(t)) - 1 <= r.len
    BY <1>6, <2>1, <2>2
  <2>4. Entries(r) \subseteq Values /\ Cardinality(Entries(r)) = Cardinality(Entries(t)) - 1
    BY <1>6, <1>7, <2>1
  <2> QED BY <2>2, <2>3, <2>4 DEF Shape
<1> QED BY <1>2, <1>4, <1>7, <1>8, <1>9 DEF k, r

\* set_remove removes the value and nothing else.
LEMMA RemovedSound ==
  ASSUME NEW t, Sound(t), NEW v \in Values
  PROVE  Sound(Removed(t, v)) /\ Entries(Removed(t, v)) = Entries(t) \ {v}
<1>1. CASE v \notin Entries(t)
  BY <1>1, GetExact DEF Removed
<1>2. CASE v \in Entries(t)
  <2> DEFINE r == TakenOut(t, v)
  <2>1. Removed(t, v) = set_auto_resize(r) /\ Shape(r) /\ Sorted(r) /\ Entries(r) = Entries(t) \ {v}
    BY <1>2, TakenOutSound
  <2> HIDE DEF r
  <2> QED BY <2>1, AutoResizeSound
<1> QED BY <1>1, <1>2

\* set_intersect retains the values of the other set and nothing else.
LEMMA IntersectedSound ==
  ASSUME NEW t, Sound(t), NEW other \in SUBSET Values
  PROVE  /\ Sound(Intersected(t, other))
         /\ Entries(Intersected(t, other)) = Entries(t) \intersect other
<1> DEFINE S == Entries(t) \intersect other
           k == Keep(t, S)
<1>1. /\ Entries(k) = S /\ Sorted(k) /\ k.len = t.len
      /\ k = [place |-> k.place, buckets_len |-> k.buckets_len, len |-> k.len]
  BY KeepSound
<1>2. IsFiniteSet(Entries(t))
  BY HashSetAssumption, FS_Subset DEF Sound, Shape
<1>3. Cardinality(S) <= Cardinality(Entries(t)) /\ Cardinality(S) \in Nat
      /\ Cardinality(Entries(t)) \in Nat
  BY <1>2, FS_Subset, FS_CardinalityType
<1>4. Intersected(t, other) = set_auto_resize(k)
  BY DEF Intersected
<1> HIDE DEF k
<1>5. Shape(k)
  BY <1>1, <1>3 DEF Sound, Shape
<1> QED BY <1>1, <1>4, <1>5, AutoResizeSound

-----------------------------------------------------------------------------
\* What a step does to the entries: one operation of PlainSet, or nothing.
SetStep(E, F) ==
  \/ F = E
  \/ \E v \in Values : F = E \union {v} \/ F = E \ {v}
  \/ \E other \in SUBSET Values : F = E \intersect other
  \/ F = {}

\* Every step keeps the table sound, and is one operation of PlainSet or none.
LEMMA StepSound ==
  ASSUME IInv, [Next]_hashVars
  PROVE  IInv' /\ SetStep(Entries(table), Entries(table'))
<1> USE DEF IInv
<1>1. ASSUME NEW v \in Values, set_add(v)
      PROVE  IInv' /\ SetStep(Entries(table), Entries(table'))
  <2>1. table' = Added(table, v) /\ loop' = loop
    BY <1>1 DEF set_add, Call
  <2> QED BY <2>1, AddedSound DEF SetStep
<1>2. ASSUME NEW v \in Values, set_remove(v)
      PROVE  IInv' /\ SetStep(Entries(table), Entries(table'))
  <2>1. table' = Removed(table, v) /\ loop' = loop
    BY <1>2 DEF set_remove, Call
  <2> QED BY <2>1, RemovedSound DEF SetStep
<1>3. ASSUME NEW other \in SUBSET Values, set_intersect(other)
      PROVE  IInv' /\ SetStep(Entries(table), Entries(table'))
  <2>1. table' = Intersected(table, other) /\ loop' = loop
    BY <1>3 DEF set_intersect, Call
  <2> QED BY <2>1, IntersectedSound DEF SetStep
<1>4. ASSUME NEW other \in SUBSET Values, NEW op, StartLoop(op, other)
      PROVE  IInv' /\ SetStep(Entries(table), Entries(table'))
  BY <1>4 DEF StartLoop, SetStep
<1>5. CASE set_clear
  <2>1. table' = EmptySet /\ loop' = loop
    BY <1>5 DEF set_clear, Call
  <2> QED BY <2>1, EmptySetSound DEF SetStep
<1>6. CASE Foreach
  BY <1>6 DEF Foreach, SetStep
<1>7. ASSUME NEW v \in Values, LoopStep(v)
      PROVE  IInv' /\ SetStep(Entries(table), Entries(table'))
  <2>1. table' = Added(table, v) \/ table' = Removed(table, v)
    BY <1>7 DEF LoopStep
  <2>2. loop'.todo \subseteq Values
    <3>1. CASE loop' = NoLoop
      BY <3>1 DEF NoLoop
    <3>2. CASE loop' = [loop EXCEPT !.todo = @ \ {v}]
      <4>1. v \in loop.todo
        BY <1>7 DEF LoopStep
      <4>2. loop'.todo = loop.todo \ {v} \/ loop'.todo = loop.todo
        BY <3>2, <4>1
      <4> QED BY <4>2
    <3> QED BY <1>7, <3>1, <3>2 DEF LoopStep
  <2> QED BY <2>1, <2>2, AddedSound, RemovedSound DEF SetStep
<1>8. ASSUME NEW other \in SUBSET Values, Check(other)
      PROVE  IInv' /\ SetStep(Entries(table), Entries(table'))
  BY <1>8 DEF Check, SetStep, NoLoop
<1>9. CASE ForeachNext
  BY <1>9 DEF ForeachNext, SetStep
<1>10. CASE UNCHANGED hashVars
  BY <1>10 DEF hashVars, SetStep
<1> QED BY <1>1, <1>2, <1>3, <1>4, <1>5, <1>6, <1>7, <1>8, <1>9, <1>10 DEF Next, Iterate

\* An empty table has no entry in the wrong bucket.
LEMMA InitSound == Init => IInv
BY EmptySetSound DEF Init, IInv, NoLoop

\* The table is always sound.
LEMMA Soundness == Spec => []IInv
<1>1. IInv /\ [Next]_hashVars => IInv'
  BY StepSound
<1> QED BY InitSound, <1>1, PTL DEF Spec

\* The elements that set_get finds are the entries that are there.
LEMMA ElemsAreEntries == IInv => Elems = Entries(table)
BY GetExact DEF IInv, Elems, Sound, Shape

\* No entry of the table is in a bucket where set_get does not look for it,
\* whatever has been added, removed and resized.
THEOREM NothingIsLost == Spec => []NothingLost
<1>1. IInv => NothingLost
  BY ElemsAreEntries DEF NothingLost
<1> QED BY Soundness, <1>1, PTL

\* Seen through set_get, the table of set.c is the set that PlainSet describes:
\* every step of it is one operation on the set, or leaves the set alone.
THEOREM TableImplementsSet == Spec => ImplementsSet
<1>1. Init => Abstract!Init
  <2>1. ASSUME Init PROVE Elems = {}
    BY <2>1, InitSound, ElemsAreEntries, EmptySetSound DEF Init
  <2> QED BY <2>1 DEF Abstract!Init
<1>2. IInv /\ [Next]_hashVars => [Abstract!Next]_Elems
  <2> SUFFICES ASSUME IInv, [Next]_hashVars PROVE [Abstract!Next]_Elems
    OBVIOUS
  <2>1. IInv' /\ SetStep(Entries(table), Entries(table'))
    BY StepSound
  <2>2. Elems = Entries(table)
    BY ElemsAreEntries
  <2>3. Elems' = Entries(table')
    BY <2>1, GetExact DEF IInv, Elems, Sound, Shape
  <2>4. SetStep(Elems, Elems')
    BY <2>1, <2>2, <2>3
  <2> QED BY <2>4 DEF SetStep, Abstract!Next, Abstract!Add, Abstract!Remove, Abstract!Retain,
                      Abstract!Clear
<1> QED BY Soundness, <1>1, <1>2, PTL DEF Spec, ImplementsSet, Abstract!Spec

-----------------------------------------------------------------------------
(* Powers of two, and the number of buckets that is wanted.                 *)

\* The next power of two is twice as large: it counts the subsets of a set with one
\* member more.
LEMMA PowerDoubles ==
  ASSUME NEW k \in Nat
  PROVE  2 ^ (k + 1) = 2 * 2 ^ k /\ 2 ^ k \in Nat
<1> DEFINE S == 1 .. k  x == k + 1  A == SUBSET S  B == {T \union {x} : T \in A}
           f == [T \in A |-> T \union {x}]
<1>1. IsFiniteSet(S) /\ Cardinality(S) = k
  BY FS_Interval
<1>2. IsFiniteSet(A) /\ Cardinality(A) = 2 ^ k /\ Cardinality(A) \in Nat
  <2>1. IsFiniteSet(A) /\ Cardinality(A) = 2 ^ Cardinality(S)
    BY <1>1, FS_SUBSET
  <2> QED BY <1>1, <2>1, FS_CardinalityType
<1>3. IsFiniteSet(1 .. k + 1) /\ Cardinality(1 .. k + 1) = k + 1
  BY FS_Interval
<1>4. Cardinality(SUBSET (1 .. k + 1)) = 2 ^ (k + 1)
  <2>1. Cardinality(SUBSET (1 .. k + 1)) = 2 ^ Cardinality(1 .. k + 1)
    BY <1>3, FS_SUBSET
  <2> QED BY <1>3, <2>1
<1>5. x \notin S /\ 1 .. k + 1 = S \union {x}
  OBVIOUS
<1> HIDE DEF S, x
<1>6. SUBSET (1 .. k + 1) = A \union B
  <2>1. ASSUME NEW T \in SUBSET (S \union {x}) PROVE T \in A \union B
    <3>1. CASE x \notin T
      BY <2>1, <3>1
    <3>2. CASE x \in T
      <4>1. T \ {x} \in A /\ T = (T \ {x}) \union {x}
        BY <2>1, <3>2
      <4> QED BY <4>1
    <3> QED BY <3>1, <3>2
  <2>2. ASSUME NEW T \in A \union B PROVE T \in SUBSET (S \union {x})
    OBVIOUS
  <2> QED BY <1>5, <2>1, <2>2
<1>7. A \intersect B = {}
  BY <1>5
<1>8. f \in Bijection(A, B)
  <2>1. f \in [A -> B]
    OBVIOUS
  <2>2. ASSUME NEW T \in A, NEW U \in A, f[T] = f[U] PROVE T = U
    <3>1. T \union {x} = U \union {x} /\ x \notin T /\ x \notin U
      BY <1>5, <2>2
    <3> QED BY <3>1
  <2>3. \A U \in B : \E T \in A : f[T] = U
    OBVIOUS
  <2> HIDE DEF f, A, B
  <2>4. f \in Injection(A, B) /\ f \in Surjection(A, B)
    BY <2>1, <2>2, <2>3 DEF Injection, IsInjective, Surjection
  <2> QED BY <2>4 DEF Bijection
<1> HIDE DEF A, B, f
<1>9. IsFiniteSet(B) /\ Cardinality(B) = Cardinality(A)
  BY <1>2, <1>8, FS_Bijection DEF ExistsBijection
<1>10. Cardinality(A \union B) = Cardinality(A) + Cardinality(B)
  <2>1. Cardinality(A \union B) = Cardinality(A) + Cardinality(B) - Cardinality(A \intersect B)
    BY <1>2, <1>9, FS_Union
  <2> QED BY <1>2, <1>7, <1>9, <2>1, FS_EmptySet
<1>11. Cardinality(A) + Cardinality(B) = 2 * Cardinality(A)
  BY <1>2, <1>9
<1> QED BY <1>2, <1>4, <1>6, <1>10, <1>11, Zenon

\* A set of naturals has a least member.
LEMMA LeastNumber ==
  ASSUME NEW T, T \subseteq Nat, T # {}
  PROVE  \E n \in T : \A k \in T : n <= k
<1>1. PICK n \in T : \A k \in T : ~ (<<k, n>> \in OpToRel(<, Nat))
  BY NatLessThanWellFounded, WFMin
<1>2. ASSUME NEW k \in T PROVE n <= k
  <2>1. ~ (k < n)
    BY <1>1 DEF OpToRel
  <2> QED BY <2>1
<1> QED BY <1>2

\* A power of two is larger than its exponent.
LEMMA PowerAbove ==
  ASSUME NEW k \in Nat
  PROVE  2 ^ k > k
<1> DEFINE Bad == {j \in Nat : ~ (2 ^ j > j)}
<1> SUFFICES ASSUME Bad # {} PROVE FALSE
  OBVIOUS
<1>1. Bad \subseteq Nat
  OBVIOUS
<1>2. \A j \in Nat : j \notin Bad <=> 2 ^ j > j
  OBVIOUS
<1> HIDE DEF Bad
<1>3. PICK m \in Bad : \A j \in Bad : m <= j
  BY <1>1, LeastNumber
<1>5. m # 0
  <2>1. 0 \notin Bad
    <3>1. 2 ^ 0 > 0
      OBVIOUS
    <3>2. 0 \in Nat
      OBVIOUS
    <3> QED BY <1>2, <3>1, <3>2, Zenon
  <2> QED BY <2>1
<1>6. m \in Nat /\ m - 1 \in Nat /\ m - 1 \notin Bad /\ (m - 1) + 1 = m
  BY <1>1, <1>3, <1>5
<1>7. 2 ^ (m - 1) > m - 1
  BY <1>2, <1>6
<1>8. 2 ^ ((m - 1) + 1) = 2 * 2 ^ (m - 1) /\ 2 ^ (m - 1) \in Nat
  BY <1>6, PowerDoubles
<1>9. 2 ^ m > m
  BY <1>6, <1>7, <1>8
<1> QED BY <1>2, <1>6, <1>9

\* The last power of two up to a number is more than half of it.
LEMMA LastPowerLarge ==
  ASSUME NEW m \in Nat \ {0}
  PROVE  LastPower(m) \in 1 .. m /\ 2 * LastPower(m) > m
<1> DEFINE p == LastPower(m)
<1>1. p \in 1 .. m
  BY LastPowerType
<1>2. p \in PowersOfTwo(m) /\ \A q \in PowersOfTwo(m) : q <= p
  BY LastPowerIsLast
<1> HIDE DEF p
<1>3. PICK k \in 0 .. m : p = 2 ^ k
  BY <1>2, Zenon DEF PowersOfTwo
<1>4. SUFFICES ASSUME ~ (2 * p > m) PROVE FALSE
  BY <1>1 DEF p
<1>5. k \in Nat /\ k + 1 \in Nat /\ 2 ^ (k + 1) = 2 * p
  <2>1. k \in Nat /\ k + 1 \in Nat
    OBVIOUS
  <2>2. 2 ^ (k + 1) = 2 * 2 ^ k
    BY <2>1, PowerDoubles
  <2> QED BY <1>3, <2>1, <2>2, Zenon
<1>6. 2 ^ (k + 1) > k + 1
  BY <1>5, PowerAbove
<1>7. k + 1 \in 0 .. m /\ 2 * p \in 1 .. m
  BY <1>1, <1>4, <1>5, <1>6
<1>8. 2 * p \in PowersOfTwo(m)
  <2>1. \E j \in 0 .. m : 2 * p = 2 ^ j
    BY <1>5, <1>7, Zenon
  <2> QED BY <1>7, <2>1, Zenon DEF PowersOfTwo
<1> QED BY <1>1, <1>2, <1>8

\* There is room for n entries in the buckets that are wanted for n, and one bucket is
\* enough as long as the entries fit in it.
LEMMA MinBucketsEnough ==
  ASSUME NEW n \in Nat \ {0}
  PROVE  /\ MinBuckets(n) \in Nat \ {0}
         /\ n <= MaxBucketSize * MinBuckets(n)
         /\ n <= MaxBucketSize => MinBuckets(n) = 1
<1> DEFINE m == (n + MaxBucketSize - 1) \div MaxBucketSize
<1>1. m \in Nat \ {0} /\ MaxBucketSize * m >= n /\ MaxBucketSize \in Nat \ {0}
  BY HashSetAssumption
<1>2. n <= MaxBucketSize => m = 1
  <2>1. SUFFICES ASSUME n <= MaxBucketSize PROVE m = 1
    OBVIOUS
  <2>2. MaxBucketSize * m < 2 * MaxBucketSize
    BY <2>1, HashSetAssumption
  <2> HIDE DEF m
  <2>3. SUFFICES ASSUME m >= 2 PROVE FALSE
    BY <1>1
  <2> QED BY <1>1, <2>2, <2>3
<1>3. MinBuckets(n) = IF m = LastPower(m) THEN m ELSE 4 * LastPower(m)
  BY DEF MinBuckets
<1> HIDE DEF m
<1>4. LastPower(m) \in 1 .. m /\ 2 * LastPower(m) > m
  BY <1>1, LastPowerLarge
<1>5. MinBuckets(n) \in Nat \ {0} /\ MinBuckets(n) >= m
  BY <1>1, <1>3, <1>4
<1>6. MaxBucketSize * MinBuckets(n) >= MaxBucketSize * m
  BY <1>1, <1>5
<1>7. MaxBucketSize * MinBuckets(n) \in Int /\ MaxBucketSize * m \in Int
  BY <1>1, <1>5
<1>8. m = 1 => MinBuckets(n) = 1
  BY <1>1, <1>3, <1>4
<1> QED BY <1>1, <1>2, <1>5, <1>6, <1>7, <1>8

-----------------------------------------------------------------------------
(* The lists of the table are whole.                                        *)

\* The parts of TypeOK that speak of the table.
Whole(t) ==
  /\ t.buckets_len \in Nat
  /\ t.place \in [Entries(t) -> [bucket : 0 .. t.buckets_len - 1, pos : Nat \ {0}]]
  /\ \A v \in Entries(t) : {t.place[u].pos : u \in SameBucket(t, v)} = 1 .. Cardinality(SameBucket(t, v))

\* R is a strict order on B, front gives what is in front of each member, rank counts it.
Ranking(B, R, front, rank) ==
  /\ \A x \in B : <<x, x>> \notin R
  /\ \A x, y, z \in B : <<x, y>> \in R /\ <<y, z>> \in R => <<x, z>> \in R
  /\ \A x, y \in B : x = y \/ <<x, y>> \in R \/ <<y, x>> \in R
  /\ front \in [B -> SUBSET B] /\ \A u, v \in B : u \in front[v] <=> <<u, v>> \in R
  /\ rank \in [B -> Nat] /\ \A v \in B : rank[v] = 1 + Cardinality(front[v])

\* The ranks of a finite set run without a gap.
LEMMA RanksWithoutGap ==
  ASSUME NEW B, IsFiniteSet(B), NEW R, NEW front, NEW rank, Ranking(B, R, front, rank)
  PROVE  /\ {rank[v] : v \in B} = 1 .. Cardinality(B)
         /\ \A x, y \in B : <<x, y>> \in R => rank[x] < rank[y]
<1> DEFINE n == Cardinality(B)
<1>1. \A v \in B : front[v] \subseteq B /\ v \notin front[v]
  BY DEF Ranking
<1>2. \A u, v \in B : u \in front[v] <=> <<u, v>> \in R
  BY DEF Ranking
<1>3. \A v \in B : rank[v] = 1 + Cardinality(front[v])
  BY DEF Ranking
<1>a. \A x, y, z \in B : <<x, y>> \in R /\ <<y, z>> \in R => <<x, z>> \in R
  BY DEF Ranking
<1>b. \A x, y \in B : x = y \/ <<x, y>> \in R \/ <<y, x>> \in R
  BY DEF Ranking
<1>c. rank \in [B -> Nat]
  BY DEF Ranking
<1>4. \A v \in B : IsFiniteSet(front[v]) /\ Cardinality(front[v]) \in Nat
  BY <1>1, FS_Subset, FS_CardinalityType
<1>5. n \in Nat
  BY FS_CardinalityType
<1>6. ASSUME NEW x \in B, NEW y \in B, <<x, y>> \in R PROVE rank[x] < rank[y]
  <2>1. front[x] \subseteq front[y]
    <3> SUFFICES ASSUME NEW z \in front[x] PROVE z \in front[y]
      OBVIOUS
    <3>1. z \in B
      BY <1>1
    <3> QED BY <1>2, <1>6, <1>a, <3>1
  <2>2. x \in front[y] /\ x \notin front[x]
    BY <1>1, <1>2, <1>6
  <2>3. Cardinality(front[x]) <= Cardinality(front[y]) /\ Cardinality(front[x]) # Cardinality(front[y])
    BY <1>4, <2>1, <2>2, FS_Subset
  <2>4. Cardinality(front[x]) \in Nat /\ Cardinality(front[y]) \in Nat
    BY <1>4
  <2> QED BY <1>3, <2>3, <2>4
<1>7. \A v \in B : rank[v] \in 1 .. n
  <2> TAKE v \in B
  <2>1. Cardinality(front[v]) <= n /\ Cardinality(front[v]) # n
    BY <1>1, FS_Subset
  <2>2. Cardinality(front[v]) \in Nat
    BY <1>4
  <2>3. rank[v] = 1 + Cardinality(front[v])
    BY <1>3
  <2> HIDE DEF n
  <2> QED BY <1>5, <2>1, <2>2, <2>3
<1>8. rank \in Injection(B, 1 .. n)
  <2>1. \A x, y \in B : rank[x] = rank[y] => x = y
    <3> SUFFICES ASSUME NEW x \in B, NEW y \in B, rank[x] = rank[y], x # y PROVE FALSE
      OBVIOUS
    <3>1. rank[x] < rank[y] \/ rank[y] < rank[x]
      BY <1>6, <1>b
    <3>2. rank[x] \in Nat /\ rank[y] \in Nat
      BY <1>c
    <3> QED BY <3>1, <3>2
  <2>2. rank \in [B -> 1 .. n]
    BY <1>7, <1>c
  <2> QED BY <2>1, <2>2 DEF Injection, IsInjective
<1>9. rank \in Surjection(B, 1 .. n)
  <2>1. IsFiniteSet(1 .. n) /\ Cardinality(1 .. n) = n
    BY <1>5, FS_Interval
  <2>2. Cardinality(B) = Cardinality(1 .. n) <=> rank \in Surjection(B, 1 .. n)
    BY <1>8, <2>1, FS_Injection
  <2> QED BY <2>1, <2>2
<1>10. {rank[v] : v \in B} = 1 .. n
  BY <1>7, <1>9 DEF Surjection
<1> QED BY <1>6, <1>10

\* The order of the entries of a whole table: two of one bucket differ in their places.
LEMMA BeforeOrder ==
  ASSUME NEW t, Whole(t), IsFiniteSet(Entries(t))
  PROVE  /\ \A x \in Entries(t) : ~ Before(t, x, x)
         /\ \A x, y, z \in Entries(t) : Before(t, x, y) /\ Before(t, y, z) => Before(t, x, z)
         /\ \A x, y \in Entries(t) : x = y \/ Before(t, x, y) \/ Before(t, y, x)
<1>1. \A x \in Entries(t) : t.place[x].bucket \in Int /\ t.place[x].pos \in Int
  BY DEF Whole
<1>2. ASSUME NEW x \in Entries(t), NEW y \in Entries(t), t.place[x].bucket = t.place[y].bucket,
             t.place[x].pos = t.place[y].pos
      PROVE  x = y
  <2> DEFINE B == SameBucket(t, x)  n == Cardinality(B)  pos == [u \in B |-> t.place[u].pos]
  <2>1. B \subseteq Entries(t) /\ x \in B /\ y \in B
    BY <1>2 DEF SameBucket
  <2>2. IsFiniteSet(B) /\ n \in Nat
    BY <2>1, FS_Subset, FS_CardinalityType
  <2>3. {t.place[u].pos : u \in B} = 1 .. n
    BY DEF Whole
  <2> HIDE DEF B, n
  <2>4. pos \in [B -> 1 .. n]
    BY <2>3
  <2>5. pos \in Surjection(B, 1 .. n)
    <3>1. \A k \in 1 .. n : \E u \in B : pos[u] = k
      <4> TAKE k \in 1 .. n
      <4>1. k \in {t.place[u].pos : u \in B}
        BY <2>3
      <4>2. PICK u \in B : t.place[u].pos = k
        BY <4>1
      <4> QED BY <4>2
    <3> QED BY <2>4, <3>1 DEF Surjection
  <2>6. Cardinality(1 .. n) = n
    BY <2>2, FS_Interval
  <2>7. pos \in Injection(B, 1 .. n)
    BY <2>2, <2>5, <2>6, FS_SurjSameCardinalityImpliesInj DEF n
  <2>8. pos[x] = pos[y]
    BY <1>2, <2>1
  <2> HIDE DEF pos
  <2> QED BY <2>1, <2>4, <2>7, <2>8 DEF Injection, IsInjective
<1> QED BY <1>1, <1>2 DEF Before

\* When entries of a whole table are put into buckets in the order in which they were,
\* the new lists are whole.
LEMMA PlacedWhole ==
  ASSUME NEW t, Whole(t), IsFiniteSet(Entries(t)), NEW S \in SUBSET Entries(t),
         NEW n \in Nat, NEW bucket \in [S -> 0 .. n - 1],
         NEW r, r.place = Placed(t, S, bucket), r.buckets_len = n
  PROVE  Whole(r) /\ Entries(r) = S
<1> DEFINE R == {e \in Entries(t) \X Entries(t) : Before(t, e[1], e[2])}
           List(v) == {u \in S : bucket[u] = bucket[v]}
<1>1. \A x, y \in Entries(t) : <<x, y>> \in R <=> Before(t, x, y)
  OBVIOUS
<1>2. Entries(r) = S
  BY DEF Entries, Placed
<1>3. \A v \in S : r.place[v] = [bucket |-> bucket[v],
                                 pos |-> 1 + Cardinality({u \in S : bucket[u] = bucket[v] /\ Before(t, u, v)})]
  BY DEF Placed
<1> HIDE DEF R
<1>4. ASSUME NEW v \in S
      PROVE  /\ r.place[v].bucket = bucket[v] /\ r.place[v].pos \in Nat \ {0}
             /\ r.place[v].pos = 1 + Cardinality({u \in List(v) : <<u, v>> \in R})
  <2>1. {u \in List(v) : <<u, v>> \in R} = {u \in S : bucket[u] = bucket[v] /\ Before(t, u, v)}
    BY <1>1
  <2>2. {u \in List(v) : <<u, v>> \in R} \subseteq Entries(t)
    OBVIOUS
  <2>3. Cardinality({u \in List(v) : <<u, v>> \in R}) \in Nat
    BY <2>2, FS_Subset, FS_CardinalityType
  <2> DEFINE c == Cardinality({u \in S : bucket[u] = bucket[v] /\ Before(t, u, v)})
  <2>4. r.place[v] = [bucket |-> bucket[v], pos |-> 1 + c]
    BY <1>3
  <2>5. c \in Nat /\ c = Cardinality({u \in List(v) : <<u, v>> \in R})
    BY <2>1, <2>3
  <2> HIDE DEF c, List
  <2> QED BY <2>4, <2>5
<1>5. r.place \in [S -> [bucket : 0 .. n - 1, pos : Nat \ {0}]]
  <2>1. r.place = [v \in S |-> r.place[v]]
    BY DEF Placed
  <2>2. \A v \in S : r.place[v] \in [bucket : 0 .. n - 1, pos : Nat \ {0}]
    <3> TAKE v \in S
    <3>1. r.place[v].pos \in Nat \ {0} /\ bucket[v] \in 0 .. n - 1
      BY <1>4
    <3> DEFINE p == 1 + Cardinality({u \in S : bucket[u] = bucket[v] /\ Before(t, u, v)})
    <3>2. r.place[v] = [bucket |-> bucket[v], pos |-> p]
      BY <1>3
    <3> HIDE DEF p
    <3> QED BY <3>1, <3>2
  <2> QED BY <2>1, <2>2
<1>6. ASSUME NEW v \in S
      PROVE  {r.place[u].pos : u \in SameBucket(r, v)} = 1 .. Cardinality(SameBucket(r, v))
  <2> DEFINE B == List(v)  rank == [u \in B |-> r.place[u].pos]
  <2>1. SameBucket(r, v) = B
    BY <1>2, <1>4 DEF SameBucket
  <2>2. B \subseteq Entries(t) /\ IsFiniteSet(B)
    BY FS_Subset
  <2>3. \A u \in B : u \in S /\ List(u) = B
    OBVIOUS
  <2>4. \A u \in B : r.place[u].pos \in Nat /\ r.place[u].pos = 1 + Cardinality({x \in B : <<x, u>> \in R})
    <3> TAKE u \in B
    <3>1. u \in S /\ List(u) = B
      BY <2>3
    <3> QED BY <1>4, <3>1
  <2> HIDE DEF B
  <2> DEFINE front == [u \in B |-> {x \in B : <<x, u>> \in R}]
  <2>5. rank \in [B -> Nat] /\ \A u \in B : rank[u] = 1 + Cardinality(front[u])
    BY <2>4
  <2>a. front \in [B -> SUBSET B] /\ \A x, u \in B : x \in front[u] <=> <<x, u>> \in R
    OBVIOUS
  <2>6. /\ \A x \in B : <<x, x>> \notin R
        /\ \A x, y, z \in B : <<x, y>> \in R /\ <<y, z>> \in R => <<x, z>> \in R
        /\ \A x, y \in B : x = y \/ <<x, y>> \in R \/ <<y, x>> \in R
    <3>1. \A x \in B : x \in Entries(t)
      BY <2>2
    <3> QED BY <1>1, <3>1, BeforeOrder
  <2> HIDE DEF rank, front
  <2>b. Ranking(B, R, front, rank)
    BY <2>5, <2>6, <2>a DEF Ranking
  <2>7. {rank[u] : u \in B} = 1 .. Cardinality(B)
    BY <2>2, <2>b, RanksWithoutGap
  <2>8. \A u \in B : rank[u] = r.place[u].pos
    BY DEF rank
  <2> QED BY <2>1, <2>7, <2>8
<1> QED BY <1>2, <1>5, <1>6 DEF Whole

-----------------------------------------------------------------------------
(* What each function of set.c does to a table that is whole.               *)

\* There are as many buckets as are wanted, and none if the set is empty.
Sized(t) == IF t.len = 0 THEN t = EmptySet ELSE t.buckets_len = MinBuckets(t.len)

Good(t) == Sound(t) /\ Whole(t) /\ Sized(t)

\* The entries are finitely many.
LEMMA EntriesFinite ==
  ASSUME NEW t, Shape(t)
  PROVE  IsFiniteSet(Entries(t)) /\ Cardinality(Entries(t)) \in Nat
  BY HashSetAssumption, FS_Subset, FS_CardinalityType DEF Shape

\* The set with no entries is good.
LEMMA EmptySetGood == Good(EmptySet)
<1>1. Entries(EmptySet) = {} /\ EmptySet.len = 0 /\ EmptySet.buckets_len = 0
      /\ EmptySet.place = [v \in {} |-> 0]
  BY DEF Entries, EmptySet
<1>2. Whole(EmptySet)
  BY <1>1 DEF Whole
<1> QED BY <1>1, <1>2, EmptySetSound DEF Good, Sized

\* A resized table is whole.
LEMMA ResizeWhole ==
  ASSUME NEW t, Shape(t), Whole(t), NEW n \in Nat \ {0}
  PROVE  Whole(set_resize(t, n)) /\ set_resize(t, n).len = t.len /\ set_resize(t, n).buckets_len = n
<1> DEFINE bucket == [v \in Entries(t) |-> Hash[v] % n]  r == set_resize(t, n)
<1>1. r = [t EXCEPT !.place = Placed(t, Entries(t), bucket), !.buckets_len = n]
  BY DEF set_resize
<1>2. \A v \in Entries(t) : Hash[v] % n \in 0 .. n - 1
  <2> TAKE v \in Entries(t)
  <2>1. Hash[v] \in Nat
    BY HashSetAssumption DEF Shape
  <2> QED BY <2>1
<1>3. bucket \in [Entries(t) -> 0 .. n - 1]
  BY <1>2
<1> HIDE DEF bucket, r
<1>4. r = [place |-> Placed(t, Entries(t), bucket), buckets_len |-> n, len |-> t.len]
  BY <1>1 DEF Shape
<1>5. r.place = Placed(t, Entries(t), bucket) /\ r.buckets_len = n /\ r.len = t.len
  BY <1>4
<1>6. Whole(r)
  BY <1>3, <1>5, EntriesFinite, PlacedWhole
<1> QED BY <1>5, <1>6 DEF r

\* An automatic resize leaves the table good, and alone if its size is right.
LEMMA AutoResizeGood ==
  ASSUME NEW t, Shape(t), Sorted(t), Whole(t)
  PROVE  /\ Good(set_auto_resize(t)) /\ set_auto_resize(t).len = t.len
         /\ t.len # 0 /\ t.buckets_len = MinBuckets(t.len) => set_auto_resize(t) = t
<1>1. Sound(set_auto_resize(t))
  BY AutoResizeSound
<1>2. CASE t.len = 0
  <2>1. set_auto_resize(t) = EmptySet /\ EmptySet.len = 0
    BY <1>2 DEF set_auto_resize, EmptySet
  <2> QED BY <1>2, <2>1, EmptySetGood
<1>3. CASE t.len # 0
  <2>1. MinBuckets(t.len) \in Nat \ {0}
    BY <1>3, MinBucketsEnough DEF Shape
  <2>2. CASE MinBuckets(t.len) = t.buckets_len
    BY <1>1, <1>3, <2>2 DEF set_auto_resize, Good, Sized
  <2>3. CASE MinBuckets(t.len) # t.buckets_len
    <3>1. set_auto_resize(t) = set_resize(t, MinBuckets(t.len))
      BY <1>3, <2>3 DEF set_auto_resize
    <3> QED BY <1>1, <1>3, <2>1, <2>3, <3>1, ResizeWhole DEF Good, Sized
  <2> QED BY <2>2, <2>3
<1> QED BY <1>2, <1>3

\* A value that is appended is the last of its bucket; the others stay.
LEMMA AppendedWhole ==
  ASSUME NEW u, Sound(u), Whole(u), u.buckets_len # 0, NEW v \in Values, v \notin Entries(u)
  PROVE  /\ Whole(Appended(u, v))
         /\ \A x \in Entries(u) : Appended(u, v).place[x] = u.place[x]
         /\ \A x \in Entries(u) : u.place[x].bucket = Appended(u, v).place[v].bucket
                                  => Before(Appended(u, v), x, v)
<1> DEFINE a == Appended(u, v)  b == Hash[v] % u.buckets_len
           B == {x \in Entries(u) : u.place[x].bucket = b}  c == Cardinality(B)
<1>1. /\ Entries(a) = Entries(u) \union {v} /\ a.buckets_len = u.buckets_len
      /\ IsFiniteSet(Entries(u))
  BY AppendedSound, EntriesFinite DEF Sound
<1>2. b \in 0 .. u.buckets_len - 1
  <2>1. Hash[v] \in Nat /\ u.buckets_len \in Nat \ {0}
    BY HashSetAssumption DEF Whole
  <2> QED BY <2>1
<1>3. /\ \A x \in Entries(u) : a.place[x] = u.place[x]
      /\ a.place[v] = [bucket |-> b, pos |-> 1 + c]
      /\ a.place = [x \in Entries(u) \union {v} |-> a.place[x]]
  BY DEF Appended, Sound, Shape
<1>4. B \subseteq Entries(u) /\ IsFiniteSet(B) /\ c \in Nat /\ v \notin B
  BY <1>1, FS_Subset, FS_CardinalityType
<1>5. {u.place[x].pos : x \in B} = 1 .. c
  <2>1. CASE B = {}
    <3>1. c = 0
      BY <2>1, FS_EmptySet
    <3> HIDE DEF B, c
    <3>2. {u.place[x].pos : x \in B} = {}
      BY <2>1
    <3>3. 1 .. c = {}
      BY <3>1
    <3> QED BY <3>2, <3>3
  <2>2. CASE B # {}
    <3>1. PICK y \in B : TRUE
      BY <2>2
    <3>2. y \in Entries(u) /\ SameBucket(u, y) = B
      BY <3>1 DEF SameBucket
    <3> HIDE DEF B
    <3> QED BY <3>2 DEF Whole
  <2> QED BY <2>1, <2>2
<1>6. IsFiniteSet(B \union {v}) /\ Cardinality(B \union {v}) = c + 1
  BY <1>4, FS_AddElement
<1>7. \A x \in Entries(u) : x \in B <=> u.place[x].bucket = b
  OBVIOUS
<1>8. \A x \in Entries(u) : u.place[x] \in [bucket : 0 .. u.buckets_len - 1, pos : Nat \ {0}]
  BY DEF Whole
<1> HIDE DEF a, b, B, c
<1>9. a.place[v].bucket = b /\ a.place[v].pos = 1 + c /\ a.place[v] \in [bucket : 0 .. u.buckets_len - 1, pos : Nat \ {0}]
  BY <1>2, <1>3, <1>4
<1>10. a.place \in [Entries(a) -> [bucket : 0 .. a.buckets_len - 1, pos : Nat \ {0}]]
  BY <1>1, <1>3, <1>8, <1>9
<1>11. {a.place[x].pos : x \in B \union {v}} = 1 .. c + 1
  <2>1. \A x \in B : a.place[x].pos = u.place[x].pos /\ x # v
    BY <1>3, <1>4
  <2>2. {a.place[x].pos : x \in B \union {v}} = {u.place[x].pos : x \in B} \union {c + 1}
    BY <1>4, <1>9, <2>1
  <2>3. (1 .. c) \union {c + 1} = 1 .. c + 1
    BY <1>4
  <2> QED BY <1>5, <2>2, <2>3
<1>12. ASSUME NEW y \in Entries(a)
       PROVE  {a.place[x].pos : x \in SameBucket(a, y)} = 1 .. Cardinality(SameBucket(a, y))
  <2>1. CASE a.place[y].bucket = b
    <3>1. SameBucket(a, y) = B \union {v}
      <4>1. \A x \in Entries(a) : a.place[x].bucket = b <=> x \in B \union {v}
        BY <1>1, <1>3, <1>4, <1>7, <1>9
      <4> QED BY <1>1, <1>4, <2>1, <4>1 DEF SameBucket
    <3> QED BY <1>6, <1>11, <3>1
  <2>2. CASE a.place[y].bucket # b
    <3>1. y \in Entries(u) /\ y # v
      BY <1>1, <1>9, <2>2
    <3>2. SameBucket(a, y) = SameBucket(u, y)
      BY <1>1, <1>3, <1>9, <2>2, <3>1 DEF SameBucket
    <3>3. \A x \in SameBucket(u, y) : a.place[x].pos = u.place[x].pos
      BY <1>3 DEF SameBucket
    <3>4. {u.place[x].pos : x \in SameBucket(u, y)} = 1 .. Cardinality(SameBucket(u, y))
      BY <3>1 DEF Whole
    <3> QED BY <3>2, <3>3, <3>4
  <2> QED BY <2>1, <2>2
<1>13. Whole(a)
  BY <1>1, <1>10, <1>12 DEF Whole
<1>14. ASSUME NEW x \in Entries(u), u.place[x].bucket = a.place[v].bucket PROVE Before(a, x, v)
  <2>1. u.place[x].pos \in 1 .. c
    BY <1>5, <1>7, <1>9, <1>14
  <2> QED BY <1>3, <1>4, <1>9, <1>14, <2>1 DEF Before
<1> QED BY <1>3, <1>13, <1>14 DEF a

\* The first buckets of an empty set.
LEMMA WithBucketsGood ==
  ASSUME NEW t, Good(t)
  PROVE  /\ Sound(WithBuckets(t)) /\ Whole(WithBuckets(t)) /\ WithBuckets(t).buckets_len # 0
         /\ WithBuckets(t).len = t.len /\ Entries(WithBuckets(t)) = Entries(t)
         /\ t.len # 0 => WithBuckets(t) = t
<1>1. CASE t.buckets_len = 0
  <2> DEFINE u == [t EXCEPT !.buckets_len = 2]
  <2>1. WithBuckets(t) = u
    BY <1>1 DEF WithBuckets
  <2>2. Entries(t) = {} /\ t.len = 0
    <3>1. t.len # 0 => t.buckets_len = MinBuckets(t.len) /\ MinBuckets(t.len) # 0
      BY MinBucketsPositive DEF Good, Sized, Sound, Shape
    <3> QED BY <1>1, <3>1 DEF Good, Sound
  <2>3. u = [place |-> t.place, buckets_len |-> 2, len |-> t.len]
    BY DEF Good, Sound, Shape
  <2>4. t.place \in [{} -> [bucket : 0 .. 2 - 1, pos : Nat \ {0}]]
    <3>1. t.place = [v \in {} |-> t.place[v]]
      BY <2>2 DEF Good, Whole
    <3> QED BY <3>1
  <2> HIDE DEF u
  <2>5. Entries(u) = {} /\ u.place = t.place /\ u.buckets_len = 2 /\ u.len = t.len
    BY <2>2, <2>3 DEF Entries
  <2>6. Whole(u)
    BY <2>4, <2>5 DEF Whole
  <2>7. Sound(u)
    BY <2>2, <2>3, <2>5 DEF Good, Sound, Shape, Sorted
  <2> QED BY <2>1, <2>2, <2>5, <2>6, <2>7
<1>2. CASE t.buckets_len # 0
  BY <1>2 DEF WithBuckets, Good
<1> QED BY <1>1, <1>2

\* set_add: nothing happens if the value is there; otherwise len grows by one.
LEMMA AddedGood ==
  ASSUME NEW t, Good(t), NEW v \in Values
  PROVE  /\ Good(Added(t, v)) /\ Added(t, v).len \in Nat /\ t.len \in Nat
         /\ v \in Entries(t) => Added(t, v) = t
         /\ v \notin Entries(t) => Added(t, v).len = t.len + 1
<1> DEFINE u == WithBuckets(t)  a == Appended(u, v)
<1>1. /\ Sound(u) /\ Whole(u) /\ u.buckets_len # 0 /\ u.len = t.len /\ Entries(u) = Entries(t)
      /\ (t.len # 0 => u = t)
  BY WithBucketsGood
<1>2. InItsBucket(u, v) <=> v \in Entries(t)
  BY <1>1 DEF InItsBucket, Sound, Sorted
<1>3. Added(t, v) = IF v \in Entries(t) THEN u ELSE set_auto_resize(a)
  BY <1>2 DEF Added
<1>4. t.len \in Nat
  BY DEF Good, Sound, Shape
<1> HIDE DEF u
<1>5. CASE v \in Entries(t)
  <2>1. t.len # 0
    BY <1>5, GetExact DEF Good, set_get
  <2> QED BY <1>1, <1>3, <1>4, <1>5, <2>1
<1>6. CASE v \notin Entries(t)
  <2>1. Shape(a) /\ Sorted(a) /\ a.len = t.len + 1
    BY <1>1, <1>6, AppendedSound
  <2>2. Whole(a)
    BY <1>1, <1>6, AppendedWhole
  <2> HIDE DEF a
  <2>3. Good(set_auto_resize(a)) /\ set_auto_resize(a).len = t.len + 1
    BY <2>1, <2>2, AutoResizeGood
  <2> QED BY <1>3, <1>4, <1>6, <2>3
<1> QED BY <1>5, <1>6

\* As long as everything fits in one bucket, set_add appends to it.
LEMMA AddedInOneBucket ==
  ASSUME NEW t, Good(t), NEW v \in Values, v \notin Entries(t), t.len # 0, t.len + 1 <= MaxBucketSize
  PROVE  /\ \A x, y \in Entries(t) : Before(Added(t, v), x, y) <=> Before(t, x, y)
         /\ \A x \in Entries(t) : Before(Added(t, v), x, v)
<1> DEFINE a == Appended(t, v)
<1>1. t.len \in Nat \ {0} /\ t.len + 1 \in Nat \ {0} /\ MaxBucketSize \in Nat \ {0}
  BY HashSetAssumption DEF Good, Sound, Shape
<1>2. t.buckets_len = 1 /\ MinBuckets(t.len + 1) = 1
  BY <1>1, MinBucketsEnough DEF Good, Sized
<1>3. Sound(t) /\ Whole(t) /\ WithBuckets(t) = t
  BY <1>2 DEF Good, WithBuckets
<1>4. /\ Shape(a) /\ Sorted(a) /\ a.len = t.len + 1 /\ a.buckets_len = 1
      /\ Entries(a) = Entries(t) \union {v}
  BY <1>2, <1>3, AppendedSound
<1>5. /\ Whole(a) /\ \A x \in Entries(t) : a.place[x] = t.place[x]
      /\ \A x \in Entries(t) : t.place[x].bucket = a.place[v].bucket => Before(a, x, v)
  BY <1>2, <1>3, AppendedWhole
<1>6. Added(t, v) = set_auto_resize(a)
  BY <1>3 DEF Added, InItsBucket
<1> HIDE DEF a
<1>7. set_auto_resize(a) = a
  BY <1>1, <1>2, <1>4, <1>5, AutoResizeGood
<1>8. \A x \in Entries(a) : a.place[x].bucket \in 0 .. 1 - 1
  BY <1>4, <1>5 DEF Whole
<1>9. \A x \in Entries(t) : t.place[x].bucket = a.place[v].bucket
  <2> TAKE x \in Entries(t)
  <2>1. a.place[x].bucket \in 0 .. 1 - 1 /\ a.place[v].bucket \in 0 .. 1 - 1
    BY <1>4, <1>8
  <2> QED BY <1>5, <2>1
<1> QED BY <1>5, <1>6, <1>7, <1>9 DEF Before

\* A table from which entries have been taken is still whole.
LEMMA KeepWhole ==
  ASSUME NEW t, Sound(t), Whole(t), NEW S \in SUBSET Entries(t), NEW r,
         r.place = Keep(t, S).place, r.buckets_len = t.buckets_len
  PROVE  Whole(r)
<1> DEFINE bucket == [v \in Entries(t) |-> t.place[v].bucket]  own == [v \in S |-> bucket[v]]
<1>1. Keep(t, S).place = Placed(t, S, bucket)
  BY DEF Keep, Sound, Shape
<1>2. Placed(t, S, bucket) = Placed(t, S, own)
  <2>1. \A v \in S : bucket[v] = own[v]
    OBVIOUS
  <2> HIDE DEF own, bucket
  <2> QED BY <2>1 DEF Placed
<1>3. own \in [S -> 0 .. t.buckets_len - 1]
  BY DEF Whole
<1>4. IsFiniteSet(Entries(t)) /\ t.buckets_len \in Nat
  BY EntriesFinite DEF Sound, Whole
<1> HIDE DEF own, bucket
<1> QED BY <1>1, <1>2, <1>3, <1>4, PlacedWhole

\* set_remove: len does not grow.
LEMMA RemovedGood ==
  ASSUME NEW t, Good(t), NEW v \in Values
  PROVE  Good(Removed(t, v)) /\ Removed(t, v).len \in Nat /\ Removed(t, v).len <= t.len
<1>0. t.len \in Nat /\ Sound(t) /\ Whole(t)
  BY DEF Good, Sound, Shape
<1>1. CASE v \notin Entries(t)
  <2>1. Removed(t, v) = t
    BY <1>0, <1>1, GetExact DEF Removed
  <2> QED BY <1>0, <2>1
<1>2. CASE v \in Entries(t)
  <2> DEFINE r == TakenOut(t, v)
  <2>1. /\ Removed(t, v) = set_auto_resize(r) /\ Shape(r) /\ Sorted(r)
        /\ r = [place |-> Keep(t, Entries(t) \ {v}).place, buckets_len |-> t.buckets_len, len |-> t.len - 1]
    BY <1>0, <1>2, TakenOutSound
  <2> HIDE DEF r
  <2>2. r.place = Keep(t, Entries(t) \ {v}).place /\ r.buckets_len = t.buckets_len /\ r.len = t.len - 1
    BY <2>1
  <2>3. Whole(r)
    BY <1>0, <2>2, KeepWhole
  <2>4. Good(set_auto_resize(r)) /\ set_auto_resize(r).len = r.len
    BY <2>1, <2>3, AutoResizeGood
  <2>5. r.len \in Nat
    BY <2>1 DEF Shape
  <2> QED BY <1>0, <2>1, <2>2, <2>4, <2>5
<1> QED BY <1>1, <1>2

\* set_intersect: len stays.
LEMMA IntersectedGood ==
  ASSUME NEW t, Good(t), NEW other \in SUBSET Values
  PROVE  Good(Intersected(t, other)) /\ Intersected(t, other).len = t.len
<1> DEFINE S == Entries(t) \intersect other  k == Keep(t, S)
<1>0. Sound(t) /\ Whole(t)
  BY DEF Good
<1>1. /\ Entries(k) = S /\ Sorted(k) /\ k.len = t.len /\ k.buckets_len = t.buckets_len
      /\ k = [place |-> k.place, buckets_len |-> k.buckets_len, len |-> k.len]
  BY <1>0, KeepSound
<1>2. IsFiniteSet(Entries(t)) /\ Cardinality(Entries(t)) \in Nat
  BY <1>0, EntriesFinite DEF Sound
<1>3. Cardinality(S) <= Cardinality(Entries(t)) /\ Cardinality(S) \in Nat
  BY <1>2, FS_Subset, FS_CardinalityType
<1>4. Intersected(t, other) = set_auto_resize(k)
  BY DEF Intersected
<1>5. Whole(k)
  BY <1>0, <1>1, KeepWhole
<1> HIDE DEF k
<1>6. Shape(k)
  BY <1>0, <1>1, <1>2, <1>3 DEF Sound, Shape
<1> QED BY <1>1, <1>4, <1>5, <1>6, AutoResizeGood

-----------------------------------------------------------------------------
(* The iteration.                                                           *)

\* There is a first one among any entries.
LEMMA FirstIsLeast ==
  ASSUME NEW t, Whole(t), IsFiniteSet(Entries(t)), NEW S \in SUBSET Entries(t), S # {}
  PROVE  First(t, S) \in S /\ \A x \in S \ {First(t, S)} : Before(t, First(t, S), x)
<1> DEFINE Buckets == {t.place[x].bucket : x \in S}
<1>1. \A x \in Entries(t) : t.place[x].bucket \in Nat /\ t.place[x].pos \in Nat
  BY DEF Whole
<1>2. Buckets \subseteq Nat /\ Buckets # {}
  BY <1>1
<1> HIDE DEF Buckets
<1>3. PICK b \in Buckets : \A k \in Buckets : b <= k
  BY <1>2, LeastNumber
<1> DEFINE B == {x \in S : t.place[x].bucket = b}  Places == {t.place[x].pos : x \in B}
<1>4. B # {}
  BY DEF Buckets
<1>5. Places \subseteq Nat /\ Places # {}
  BY <1>1, <1>4
<1> HIDE DEF Places
<1>6. PICK p \in Places : \A k \in Places : p <= k
  BY <1>5, LeastNumber
<1>7. PICK u \in B : t.place[u].pos = p
  BY DEF Places
<1>8. ASSUME NEW x \in S \ {u} PROVE Before(t, u, x)
  <2>1. u \in Entries(t) /\ x \in Entries(t) /\ t.place[u].bucket = b
    OBVIOUS
  <2>2. ~ Before(t, x, u)
    <3>1. b <= t.place[x].bucket
      BY <1>3 DEF Buckets
    <3>2. t.place[x].bucket = b => p <= t.place[x].pos
      BY <1>6 DEF Places
    <3> QED BY <1>1, <1>7, <2>1, <3>1, <3>2 DEF Before
  <2> QED BY <2>1, <2>2, BeforeOrder
<1>9. \E w \in S : \A x \in S \ {w} : Before(t, w, x)
  BY <1>8
<1> QED BY <1>9, Zenon DEF First

\* set_next returns the entry that follows in the order of the table, or says that there
\* is none.
LEMMA NextFollows ==
  ASSUME NEW t, Good(t), NEW v \in Entries(t)
  PROVE  \/ set_next(t, v) = Ended /\ \A x \in Entries(t) : x = v \/ Before(t, x, v)
         \/ /\ set_next(t, v) \in Entries(t) /\ set_next(t, v) # v /\ ~ Before(t, set_next(t, v), v)
            /\ \A x \in Entries(t) : Before(t, x, set_next(t, v)) <=> x = v \/ Before(t, x, v)
<1> DEFINE list == {u \in SameBucket(t, v) : Before(t, v, u)}
           rest == {u \in Entries(t) : t.place[u].bucket > Hash[v] % t.buckets_len}
           n == set_next(t, v)
<1>1. Sound(t) /\ Whole(t) /\ IsFiniteSet(Entries(t)) /\ t.place[v].bucket = Hash[v] % t.buckets_len
  BY EntriesFinite DEF Good, Sound, Sorted
<1>2. /\ \A x \in Entries(t) : ~ Before(t, x, x)
      /\ \A x, y, z \in Entries(t) : Before(t, x, y) /\ Before(t, y, z) => Before(t, x, z)
      /\ \A x, y \in Entries(t) : x = y \/ Before(t, x, y) \/ Before(t, y, x)
  BY <1>1, BeforeOrder
<1>3. n = IF list # {} THEN First(t, list) ELSE First(t, rest)
  BY DEF set_next
<1>4. \A x \in Entries(t) : t.place[x].bucket \in Int
  BY <1>1 DEF Whole
<1>5. list \in SUBSET Entries(t) /\ rest \in SUBSET Entries(t)
  BY DEF SameBucket
<1>6. \A x \in rest : Before(t, v, x)
  BY <1>1 DEF Before
<1>7. \A x \in Entries(t) : Before(t, v, x) => x \in list \/ x \in rest
  BY <1>1 DEF Before, SameBucket
<1>8. \A x \in list, y \in rest : Before(t, x, y)
  BY <1>1, <1>4 DEF Before, SameBucket
<1>9. \A x \in list : Before(t, v, x)
  OBVIOUS
<1> HIDE DEF list, rest, n
<1>10. CASE list = {} /\ rest = {}
  <2>1. n = Ended
    BY <1>3, <1>10 DEF First
  <2> QED BY <1>2, <1>7, <1>10, <2>1 DEF n
<1>11. CASE ~ (list = {} /\ rest = {})
  <2>1. n \in Entries(t) /\ Before(t, v, n) /\ \A x \in Entries(t) : Before(t, v, x) => x = n \/ Before(t, n, x)
    <3>1. CASE list # {}
      <4>1. n \in list /\ \A x \in list \ {n} : Before(t, n, x)
        BY <1>1, <1>3, <1>5, <3>1, FirstIsLeast
      <4> QED BY <1>5, <1>7, <1>8, <1>9, <4>1
    <3>2. CASE list = {}
      <4>1. n \in rest /\ \A x \in rest \ {n} : Before(t, n, x)
        BY <1>1, <1>3, <1>5, <1>11, <3>2, FirstIsLeast
      <4> QED BY <1>5, <1>6, <1>7, <3>2, <4>1
    <3> QED BY <3>1, <3>2
  <2>2. n # v /\ ~ Before(t, n, v)
    BY <1>2, <2>1
  <2>3. ASSUME NEW x \in Entries(t) PROVE Before(t, x, n) <=> x = v \/ Before(t, x, v)
    <3>1. ASSUME Before(t, x, n), x # v, ~ Before(t, x, v) PROVE FALSE
      BY <1>2, <2>1, <3>1
    <3>2. ASSUME x = v \/ Before(t, x, v) PROVE Before(t, x, n)
      BY <1>2, <2>1, <3>2
    <3> QED BY <3>1, <3>2
  <2> QED BY <2>1, <2>2, <2>3 DEF n
<1> QED BY <1>10, <1>11

\* The loop under way, and the room that it will need.
LoopOK ==
  /\ loop \in [op : {"none", "addall", "removeall"}, todo : SUBSET Values]
  /\ loop.op = "none" <=> loop.todo = {}
  /\ table.len + Cardinality(loop.todo) <= MaxLen

\* Whether an iteration is still complete.
Reliable == ~ grew \/ table.len <= MaxBucketSize

\* What set_foreach has handled is what is in front of its entry; nothing is taken out
\* of the set meanwhile.
CursorOK ==
  /\ cursor \in Entries(table) \union {Idle, Ended}
  /\ checked \in SUBSET Values /\ grew \in BOOLEAN
  /\ cursor \in Values => loop.op # "removeall"
  /\ cursor = Ended => loop.op = "none"
  /\ cursor \in Values /\ Reliable => {x \in Entries(table) : Before(table, x, cursor)} = checked \ {cursor}
  /\ cursor = Ended /\ Reliable => checked = Entries(table)

HInv == Good(table) /\ LoopOK /\ CursorOK

\* A call on a set that nobody iterates over.
LEMMA CallStep ==
  ASSUME HInv, NEW t, Good(t), t.len <= MaxLen, Call(t)
  PROVE  HInv'
<1>1. /\ table' = t /\ loop = NoLoop /\ loop' = NoLoop
      /\ cursor' = Idle /\ checked' = {} /\ grew' = FALSE
  BY DEF Call, Free
<1>2. t.len \in Nat /\ Cardinality({}) = 0
  BY FS_EmptySet DEF Good, Sound, Shape
<1>3. NoLoop.op = "none" /\ NoLoop.todo = {}
  BY DEF NoLoop
<1>4. LoopOK'
  BY <1>1, <1>2, <1>3 DEF LoopOK, NoLoop
<1>5. Idle \notin Values /\ Idle # Ended
  BY HashSetAssumption DEF Idle, Ended
<1>6. CursorOK'
  BY <1>1, <1>3, <1>5 DEF CursorOK
<1> QED BY <1>1, <1>4, <1>6 DEF HInv

\* A loop over another set begins.
LEMMA StartLoopStep ==
  ASSUME HInv, NEW op \in {"addall", "removeall"}, NEW other \in SUBSET Values, StartLoop(op, other)
  PROVE  HInv'
<1>1. /\ table' = table /\ loop' = [op |-> op, todo |-> other] /\ other # {}
      /\ table.len + Cardinality(other) <= MaxLen
      /\ cursor' = Idle /\ checked' = {} /\ grew' = FALSE
  BY DEF StartLoop
<1>2. LoopOK'
  BY <1>1 DEF LoopOK
<1>3. Idle \notin Values /\ Idle # Ended
  BY HashSetAssumption DEF Idle, Ended
<1>4. CursorOK'
  BY <1>1, <1>3 DEF CursorOK
<1> QED BY <1>1, <1>2, <1>4 DEF HInv

\* One value is added or taken out by a loop.
LEMMA LoopStepStep ==
  ASSUME HInv, NEW v \in Values, LoopStep(v)
  PROVE  HInv'
<1>1. /\ v \in loop.todo
      /\ table' = IF loop.op = "addall" THEN Added(table, v) ELSE Removed(table, v)
      /\ loop' = IF loop.todo = {v} THEN NoLoop ELSE [loop EXCEPT !.todo = @ \ {v}]
      /\ grew' = (grew \/ (cursor \in Values /\ table'.len > table.len))
      /\ cursor' = cursor /\ checked' = checked
  BY DEF LoopStep
<1>2. Good(table) /\ LoopOK /\ CursorOK
  BY DEF HInv
<1>3. /\ loop = [op |-> loop.op, todo |-> loop.todo] /\ loop.todo \in SUBSET Values
      /\ loop.op \in {"addall", "removeall"}
  BY <1>1, <1>2 DEF LoopOK
<1>4. /\ Good(table') /\ table'.len \in Nat /\ table.len \in Nat /\ table'.len <= table.len + 1
      /\ loop.op = "removeall" => table'.len <= table.len
  <2>1. CASE loop.op = "addall"
    BY <1>1, <1>2, <2>1, AddedGood
  <2>2. CASE loop.op # "addall"
    <3>1. table.len \in Nat
      BY <1>2 DEF Good, Sound, Shape
    <3> QED BY <1>1, <1>2, <2>2, <3>1, RemovedGood
  <2> QED BY <2>1, <2>2
<1>5. LoopOK'
  <2>1. IsFiniteSet(loop.todo)
    BY <1>3, HashSetAssumption, FS_Subset
  <2>2. Cardinality(loop.todo \ {v}) = Cardinality(loop.todo) - 1 /\ Cardinality(loop.todo) \in Nat
    BY <1>1, <2>1, FS_RemoveElement, FS_CardinalityType
  <2>3. loop' = IF loop.todo = {v} THEN [op |-> "none", todo |-> {}]
                ELSE [op |-> loop.op, todo |-> loop.todo \ {v}]
    BY <1>1, <1>3 DEF NoLoop
  <2>4. loop'.todo = loop.todo \ {v}
    BY <2>3
  <2>5. table.len + Cardinality(loop.todo) <= MaxLen
    BY <1>2 DEF LoopOK
  <2>6. table'.len + Cardinality(loop'.todo) <= MaxLen
    BY <1>4, <2>2, <2>4, <2>5, HashSetAssumption
  <2>7. loop' \in [op : {"none", "addall", "removeall"}, todo : SUBSET Values]
    BY <1>3, <2>3
  <2>8. loop'.op = "none" <=> loop'.todo = {}
    BY <1>1, <1>3, <2>3
  <2> QED BY <2>6, <2>7, <2>8 DEF LoopOK
<1>6. cursor # Ended
  BY <1>2, <1>3 DEF CursorOK
<1>7. CASE cursor \notin Values
  <2>1. cursor = Idle
    BY <1>2, <1>6, <1>7 DEF CursorOK, Good, Sound, Shape
  <2> QED BY <1>1, <1>2, <1>4, <1>5, <1>6, <1>7, <2>1 DEF HInv, CursorOK
<1>8. CASE cursor \in Values
  <2>1. loop.op = "addall" /\ table' = Added(table, v) /\ cursor \in Entries(table)
    <3>1. cursor # Idle
      BY <1>8, HashSetAssumption
    <3> QED BY <1>1, <1>2, <1>3, <1>6, <1>8, <3>1 DEF CursorOK
  <2>2. Entries(table') = Entries(table) \union {v}
    BY <1>2, <2>1, AddedSound DEF Good
  <2>3. loop'.op # "removeall"
    BY <1>1, <1>3, <2>1 DEF NoLoop
  <2>4. ASSUME Reliable'
        PROVE  {x \in Entries(table') : Before(table', x, cursor)} = checked \ {cursor}
    <3>1. CASE v \in Entries(table)
      <4>1. table' = table
        BY <1>2, <2>1, <3>1, AddedGood
      <4>2. Reliable
        BY <1>1, <1>4, <2>4, <4>1 DEF Reliable
      <4> QED BY <1>2, <1>8, <4>1, <4>2 DEF CursorOK
    <3>2. CASE v \notin Entries(table)
      <4>1. table'.len = table.len + 1
        BY <1>2, <2>1, <3>2, AddedGood
      <4>2. grew'
        <5>1. table'.len > table.len
          BY <1>4, <4>1
        <5> QED BY <1>1, <1>8, <5>1, Zenon
      <4>3. table.len + 1 <= MaxBucketSize /\ Reliable
        BY <1>4, <2>4, <4>1, <4>2, HashSetAssumption DEF Reliable
      <4>4. table.len # 0
        BY <1>2, <2>1, GetExact DEF Good, set_get
      <4>5. /\ \A x, y \in Entries(table) : Before(table', x, y) <=> Before(table, x, y)
            /\ \A x \in Entries(table) : Before(table', x, v)
        BY <1>2, <2>1, <3>2, <4>3, <4>4, AddedInOneBucket
      <4>6. /\ \A x \in Entries(table') : ~ Before(table', x, x)
            /\ \A x, y, z \in Entries(table') : Before(table', x, y) /\ Before(table', y, z) => Before(table', x, z)
        <5>1. Whole(table') /\ IsFiniteSet(Entries(table'))
          BY <1>4, EntriesFinite DEF Good, Sound
        <5> QED BY <5>1, BeforeOrder
      <4>7. ~ Before(table', v, cursor)
        BY <2>1, <2>2, <4>5, <4>6
      <4>8. {x \in Entries(table) : Before(table, x, cursor)} = checked \ {cursor}
        BY <1>2, <1>8, <4>3 DEF CursorOK
      <4> QED BY <2>1, <2>2, <4>5, <4>7, <4>8
    <3> QED BY <3>1, <3>2
  <2>5. CursorOK'
    BY <1>1, <1>2, <1>6, <2>1, <2>2, <2>3, <2>4 DEF CursorOK
  <2> QED BY <1>4, <1>5, <2>5 DEF HInv
<1> QED BY <1>7, <1>8

\* An iteration begins with what is first in the table.
LEMMA ForeachStep ==
  ASSUME HInv, Foreach
  PROVE  HInv'
<1>1. /\ loop = NoLoop /\ table' = table /\ loop' = loop
      /\ cursor' = First(table, Entries(table)) /\ checked' = {} /\ grew' = FALSE
  BY DEF Foreach, Free
<1>2. Good(table) /\ LoopOK /\ Whole(table) /\ IsFiniteSet(Entries(table)) /\ Entries(table) \subseteq Values
  BY EntriesFinite DEF HInv, Good, Sound, Shape
<1>3. LoopOK' /\ Good(table')
  BY <1>1, <1>2 DEF LoopOK
<1>4. loop'.op = "none" /\ Ended \notin Values
  BY <1>1, HashSetAssumption DEF NoLoop
<1>5. CASE Entries(table) = {}
  <2>1. cursor' = Ended
    BY <1>1, <1>5 DEF First
  <2>2. CursorOK'
    BY <1>1, <1>4, <1>5, <2>1 DEF CursorOK
  <2> QED BY <1>3, <2>2 DEF HInv
<1>6. CASE Entries(table) # {}
  <2>1. cursor' \in Entries(table) /\ \A x \in Entries(table) \ {cursor'} : Before(table, cursor', x)
    BY <1>1, <1>2, <1>6, FirstIsLeast
  <2>2. \A x \in Entries(table) : ~ Before(table, x, cursor')
    BY <1>2, <2>1, BeforeOrder
  <2>3. cursor' # Ended
    BY <1>2, <1>4, <2>1
  <2>4. CursorOK'
    BY <1>1, <1>4, <2>1, <2>2, <2>3 DEF CursorOK
  <2> QED BY <1>3, <2>4 DEF HInv
<1> QED BY <1>5, <1>6

\* The body of a loop handles its value, and may begin to add others.
LEMMA CheckStep ==
  ASSUME HInv, NEW other \in SUBSET Values, Check(other)
  PROVE  HInv'
<1>1. /\ cursor \in Values \ checked /\ loop = NoLoop
      /\ table.len + Cardinality(other) <= MaxLen
      /\ checked' = checked \union {cursor}
      /\ loop' = IF other = {} THEN NoLoop ELSE [op |-> "addall", todo |-> other]
      /\ table' = table /\ cursor' = cursor /\ grew' = grew
  BY DEF Check
<1>2. Good(table) /\ LoopOK /\ CursorOK
  BY DEF HInv
<1>3. LoopOK' /\ loop'.op # "removeall"
  <2>1. CASE other = {}
    BY <1>1, <1>2, <2>1 DEF LoopOK, NoLoop
  <2>2. CASE other # {}
    BY <1>1, <2>2 DEF LoopOK
  <2> QED BY <2>1, <2>2
<1>4. cursor # Ended
  BY <1>1, HashSetAssumption
<1>5. checked' \ {cursor} = checked \ {cursor} /\ checked' \in SUBSET Values
  BY <1>1, <1>2 DEF CursorOK
<1>6. CursorOK'
  BY <1>1, <1>2, <1>3, <1>4, <1>5 DEF CursorOK, Reliable
<1> QED BY <1>1, <1>2, <1>3, <1>6 DEF HInv

\* The next entry.
LEMMA ForeachNextStep ==
  ASSUME HInv, ForeachNext
  PROVE  HInv'
<1>1. /\ cursor \in checked /\ loop = NoLoop /\ cursor' = set_next(table, cursor)
      /\ table' = table /\ loop' = loop /\ checked' = checked /\ grew' = grew
  BY DEF ForeachNext
<1>2. Good(table) /\ LoopOK /\ CursorOK /\ Entries(table) \subseteq Values
  BY DEF HInv, Good, Sound, Shape
<1>3. LoopOK' /\ Good(table') /\ loop'.op = "none" /\ Reliable' = Reliable
  BY <1>1, <1>2 DEF LoopOK, NoLoop, Reliable
<1>4. cursor \in Values /\ cursor \in Entries(table) /\ Ended \notin Values
  <2>1. cursor \in Values /\ cursor # Idle /\ cursor # Ended
    BY <1>1, <1>2, HashSetAssumption DEF CursorOK
  <2> QED BY <1>2, <2>1, HashSetAssumption DEF CursorOK
<1>5. Reliable => {x \in Entries(table) : Before(table, x, cursor)} = checked \ {cursor}
  BY <1>2, <1>4 DEF CursorOK
<1>6. CASE /\ set_next(table, cursor) = Ended
           /\ \A x \in Entries(table) : x = cursor \/ Before(table, x, cursor)
  <2>1. Reliable => checked = Entries(table)
    BY <1>1, <1>4, <1>5, <1>6
  <2>2. CursorOK'
    BY <1>1, <1>2, <1>3, <1>4, <1>6, <2>1 DEF CursorOK
  <2> QED BY <1>3, <2>2 DEF HInv
<1>7. CASE LET n == set_next(table, cursor)
           IN  /\ n \in Entries(table) /\ n # cursor /\ ~ Before(table, n, cursor)
               /\ \A x \in Entries(table) : Before(table, x, n) <=> x = cursor \/ Before(table, x, cursor)
  <2> DEFINE n == cursor'
  <2>1. /\ n \in Entries(table) /\ n # cursor /\ ~ Before(table, n, cursor)
        /\ \A x \in Entries(table) : Before(table, x, n) <=> x = cursor \/ Before(table, x, cursor)
    BY <1>1, <1>7
  <2>2. n \in Values /\ n # Ended
    BY <1>2, <1>4, <2>1
  <2>3. ASSUME Reliable PROVE {x \in Entries(table) : Before(table, x, n)} = checked \ {n}
    <3>1. \A x \in Entries(table) : Before(table, x, cursor) <=> x \in checked \ {cursor}
      BY <1>5, <2>3
    <3>2. checked \subseteq Entries(table)
      BY <1>4, <1>5, <2>3
    <3>3. n \notin checked
      BY <2>1, <3>1
    <3> QED BY <1>1, <2>1, <3>1, <3>2, <3>3
  <2>4. CursorOK'
    BY <1>1, <1>2, <1>3, <2>1, <2>2, <2>3 DEF CursorOK
  <2> QED BY <1>3, <2>4 DEF HInv
<1> QED BY <1>2, <1>4, <1>6, <1>7, NextFollows

-----------------------------------------------------------------------------
\* No step breaks the invariant.
LEMMA HashStep == HInv /\ [Next]_hashVars => HInv'
<1> SUFFICES ASSUME HInv, [Next]_hashVars PROVE HInv'
  OBVIOUS
<1>0. Good(table) /\ table.len \in Nat /\ table.len <= MaxLen
  <2>1. Good(table) /\ LoopOK /\ table.len \in Nat
    BY DEF HInv, Good, Sound, Shape
  <2>2. Cardinality(loop.todo) \in Nat
    <3>1. loop.todo \in SUBSET Values
      BY <2>1 DEF LoopOK
    <3> QED BY <3>1, HashSetAssumption, FS_Subset, FS_CardinalityType
  <2> QED BY <2>1, <2>2, HashSetAssumption DEF LoopOK
<1>1. ASSUME NEW v \in Values, set_add(v) PROVE HInv'
  <2>1. table.len < MaxLen /\ Call(Added(table, v))
    BY <1>1 DEF set_add
  <2>2. Good(Added(table, v)) /\ Added(table, v).len <= MaxLen
    BY <1>0, <2>1, AddedGood, HashSetAssumption
  <2> QED BY <2>1, <2>2, CallStep
<1>2. ASSUME NEW v \in Values, set_remove(v) PROVE HInv'
  <2>1. Good(Removed(table, v)) /\ Removed(table, v).len <= MaxLen
    BY <1>0, RemovedGood, HashSetAssumption
  <2> QED BY <1>2, <2>1, CallStep DEF set_remove
<1>3. ASSUME NEW other \in SUBSET Values, set_intersect(other) PROVE HInv'
  <2>1. Good(Intersected(table, other)) /\ Intersected(table, other).len <= MaxLen
    BY <1>0, IntersectedGood
  <2> QED BY <1>3, <2>1, CallStep DEF set_intersect
<1>4. CASE set_clear
  <2>1. Good(EmptySet) /\ EmptySet.len <= MaxLen
    BY EmptySetGood, HashSetAssumption DEF EmptySet
  <2> QED BY <1>4, <2>1, CallStep DEF set_clear
<1>5. CASE UNCHANGED hashVars
  BY <1>5 DEF hashVars, HInv, LoopOK, CursorOK, Reliable
<1> QED BY <1>1, <1>2, <1>3, <1>4, <1>5, StartLoopStep, LoopStepStep, ForeachStep, CheckStep,
           ForeachNextStep DEF Next, Iterate

\* It holds of the empty set.
LEMMA HashInit == Init => HInv
<1> SUFFICES ASSUME Init PROVE HInv
  OBVIOUS
<1>1. /\ table = EmptySet /\ loop = NoLoop /\ cursor = Idle /\ checked = {} /\ grew = FALSE
      /\ Idle \notin Values /\ Idle # Ended
  BY HashSetAssumption DEF Init, Idle, Ended
<1>2. Good(table) /\ table.len = 0
  BY <1>1, EmptySetGood DEF EmptySet
<1>3. LoopOK
  BY <1>1, <1>2, FS_EmptySet, HashSetAssumption DEF LoopOK, NoLoop
<1>4. CursorOK
  BY <1>1, <1>3 DEF CursorOK, LoopOK, NoLoop
<1> QED BY <1>2, <1>3, <1>4 DEF HInv

\* The invariant holds throughout.
LEMMA HashAlways == Spec => []HInv
<1> QED BY HashInit, HashStep, PTL DEF Spec

\* What it says of the table.
LEMMA GoodIsOK == HInv => TableOK
<1> SUFFICES ASSUME HInv PROVE TableOK
  OBVIOUS
<1>1. Good(table) /\ LoopOK /\ CursorOK /\ table.len \in Nat /\ Sound(table) /\ Whole(table) /\ Shape(table)
  BY DEF HInv, Good, Sound, Shape
<1>2. IsFiniteSet(Entries(table)) /\ Cardinality(Entries(table)) \in Nat
      /\ Cardinality(Entries(table)) <= table.len /\ Entries(table) \subseteq Values
  BY <1>1, EntriesFinite DEF Shape
<1>3. table.len \in 0 .. MaxLen
  <2>1. loop.todo \in SUBSET Values
    BY <1>1 DEF LoopOK
  <2>2. Cardinality(loop.todo) \in Nat
    BY <2>1, HashSetAssumption, FS_Subset, FS_CardinalityType
  <2> QED BY <1>1, <2>2, HashSetAssumption DEF LoopOK
<1>4. TypeOK
  BY <1>1, <1>2, <1>3 DEF TypeOK, Whole, LoopOK, CursorOK
<1>5. NothingLost
  BY <1>1, GetExact DEF NothingLost, Elems, Shape
<1>6. LoadBounded
  <2>1. CASE table.len = 0
    <3>1. table.buckets_len = 0 /\ MaxBucketSize * table.buckets_len = 0
      BY <1>1, <2>1, HashSetAssumption DEF Good, Sized, EmptySet
    <3> QED BY <1>2, <2>1, <3>1 DEF LoadBounded
  <2>2. CASE table.len # 0
    <3>1. table.buckets_len = MinBuckets(table.len)
      BY <1>1, <2>2 DEF Good, Sized
    <3>2. table.len <= MaxBucketSize * table.buckets_len /\ MinBuckets(table.len) \in Nat
      BY <1>1, <2>2, <3>1, MinBucketsEnough
    <3>3. MaxBucketSize * table.buckets_len \in Int
      BY <3>1, <3>2, HashSetAssumption
    <3> QED BY <1>1, <1>2, <3>2, <3>3 DEF LoadBounded
  <2> QED BY <2>1, <2>2
<1> QED BY <1>4, <1>5, <1>6 DEF TableOK

\* Through every resize the lists are whole, every entry is in the bucket where set_get
\* looks for it, and there are buckets enough for all of them: rounding up by counting
\* leading zeros never asks for fewer than are needed.
THEOREM TableIsWhole == Spec => []TableOK
<1> QED BY GoodIsOK, HashAlways, PTL

\* A set_foreach handles every entry of a set that has not grown under it, or that still
\* fits in one bucket, in which additions come last.
THEOREM ForeachIsComplete == Spec => []ForeachComplete
<1>1. HInv => ForeachComplete
  BY DEF HInv, CursorOK, Reliable, ForeachComplete
<1> QED BY <1>1, HashAlways, PTL
=============================================================================
