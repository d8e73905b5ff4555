------------------------------ MODULE HashSet -------------------------------
(***************************************************************************)
(* The hash sets of util/set.c, in which the compiler keeps the readers    *)
(* and writers of a variable, the edges of the flow graph, the dominance   *)
(* frontiers and the live variables, with the loop of insert_combinators   *)
(* (compiler/common/ir/ir.c) that adds to the set it iterates over.        *)
(*                                                                         *)
(* A bucket is a linked list; what the model keeps of it is the position   *)
(* of each entry.  Of a value only its hash counts.  The bound MaxLen on   *)
(* the counter set_t.len is the model's.                                   *)
(***************************************************************************)
EXTENDS Integers, FiniteSets

CONSTANTS
  Values,          \* what can be in the set, NULL excluded
  Hash,            \* val_hash
  MaxBucketSize,   \* SET_MAX_BUCKET_SIZE
  MaxLen

\* Where a set_foreach is that has not begun, or is over.
Idle == "idle"
Ended == "ended"

ASSUME HashSetAssumption ==
  /\ IsFiniteSet(Values) /\ Hash \in [Values -> Nat]
  /\ Idle \notin Values /\ Ended \notin Values
  /\ MaxBucketSize \in Nat \ {0} /\ MaxLen \in Nat

VARIABLES
  table,    \* set_t: the place of each entry, buckets_len and len
  loop,     \* the set_addall or set_removeall under way, and what it has still to do
  cursor,   \* set_foreach: the entry it is at, Idle, or Ended after the last one
  checked,  \* the values this set_foreach has handled
  grew      \* whether the set has grown since it began

hashVars == <<table, loop, cursor, checked, grew>>

NoLoop == [op |-> "none", todo |-> {}]
EmptySet == [place |-> [v \in {} |-> 0], buckets_len |-> 0, len |-> 0]

Entries(t) == DOMAIN t.place
SameBucket(t, v) == {u \in Entries(t) : t.place[u].bucket = t.place[v].bucket}
Before(t, u, v) ==
  \/ t.place[u].bucket < t.place[v].bucket
  \/ t.place[u].bucket = t.place[v].bucket /\ t.place[u].pos < t.place[v].pos

-----------------------------------------------------------------------------
\* The entries in S when each is appended to its bucket, in the order of the table.
Placed(t, S, bucket) ==
  [v \in S |-> [bucket |-> bucket[v],
                pos |-> 1 + Cardinality({u \in S : bucket[u] = bucket[v] /\ Before(t, u, v)})]]

\* Mutant: the entries stay in the bucket of the same number.
ResizeInPlace(t, n) ==
  LET bucket == [v \in Entries(t) |-> t.place[v].bucket % n]
  IN  [t EXCEPT !.place = Placed(t, Entries(t), bucket), !.buckets_len = n]

\* The entries are taken out bucket by bucket and appended to the new ones.
set_resize(t, n) ==
  LET bucket == [v \in Entries(t) |-> Hash[v] % n]
  IN  [t EXCEPT !.place = Placed(t, Entries(t), bucket), !.buckets_len = n]

\* How many buckets are wanted.  What is not a power of two is rounded up, to four
\* times the last one before it: 1 << (1 + 64 - clz).
PowersOfTwo(m) == {p \in 1 .. m : \E k \in 0 .. m : p = 2 ^ k}
LastPower(m) == CHOOSE p \in PowersOfTwo(m) : \A q \in PowersOfTwo(m) : q <= p
MinBuckets(n) ==
  LET m == (n + MaxBucketSize - 1) \div MaxBucketSize
  IN  IF m = LastPower(m) THEN m ELSE 4 * LastPower(m)

set_auto_resize(t) ==
  IF t.len = 0 THEN EmptySet
  ELSE IF MinBuckets(t.len) = t.buckets_len THEN t ELSE set_resize(t, MinBuckets(t.len))

\* What set_get finds: an entry in the bucket where it belongs.
InItsBucket(t, v) == v \in Entries(t) /\ t.place[v].bucket = Hash[v] % t.buckets_len
set_get(t, v) == t.len # 0 /\ InItsBucket(t, v)

WithBuckets(t) == IF t.buckets_len = 0 THEN [t EXCEPT !.buckets_len = 2] ELSE t

\* dlist_append to the bucket of v.
Appended(t, v) ==
  LET b == Hash[v] % t.buckets_len
      new == [bucket |-> b, pos |-> 1 + Cardinality({u \in Entries(t) : t.place[u].bucket = b})]
  IN  [t EXCEPT !.place = [u \in Entries(t) \union {v} |-> IF u = v THEN new ELSE t.place[u]],
                !.len = @ + 1]

\* Mutant: the bucket is chosen before the set is resized.
AddAfterResize(t, v) ==
  LET u == WithBuckets(t)
      r == set_auto_resize([u EXCEPT !.len = @ + 1])
      b == Hash[v] % u.buckets_len
      new == [bucket |-> b, pos |-> 1 + Cardinality({x \in Entries(r) : r.place[x].bucket = b})]
  IN  IF InItsBucket(u, v) THEN u
      ELSE [r EXCEPT !.place = [x \in Entries(r) \union {v} |-> IF x = v THEN new ELSE r.place[x]],
                     !.buckets_len = IF @ = 0 THEN 1 ELSE @]

\* set_add.
Added(t, v) ==
  LET u == WithBuckets(t)
  IN  IF InItsBucket(u, v) THEN u ELSE set_auto_resize(Appended(u, v))

\* dlist_remove of every entry that is not in S.
Keep(t, S) ==
  LET bucket == [v \in Entries(t) |-> t.place[v].bucket]
  IN  [t EXCEPT !.place = Placed(t, S, bucket)]

\* set_remove.
Removed(t, v) ==
  IF ~ set_get(t, v) THEN t
  ELSE set_auto_resize([Keep(t, Entries(t) \ {v}) EXCEPT !.len = @ - 1])

\* set_intersect; len is left as it was.
Intersected(t, other) == set_auto_resize(Keep(t, Entries(t) \intersect other))

-----------------------------------------------------------------------------
First(t, S) == IF S = {} THEN Ended ELSE CHOOSE u \in S : \A x \in S \ {u} : Before(t, u, x)

\* Mutant: the bucket behind the one that is done is left out.
NextButOne(t, v) ==
  LET list == {u \in SameBucket(t, v) : Before(t, v, u)}
  IN  IF list # {} THEN First(t, list)
      ELSE First(t, {u \in Entries(t) : t.place[u].bucket > (Hash[v] % t.buckets_len) + 1})

\* Mutant: the bucket that is done is taken again.
NextAgain(t, v) ==
  LET list == {u \in SameBucket(t, v) : Before(t, v, u)}
  IN  IF list # {} THEN First(t, list)
      ELSE First(t, {u \in Entries(t) : t.place[u].bucket >= Hash[v] % t.buckets_len})

\* The entry behind that of v in its list, or the first of the buckets that follow.
set_next(t, v) ==
  LET list == {u \in SameBucket(t, v) : Before(t, v, u)}
  IN  IF list # {} THEN First(t, list)
      ELSE First(t, {u \in Entries(t) : t.place[u].bucket > Hash[v] % t.buckets_len})

-----------------------------------------------------------------------------
Free == loop = NoLoop /\ cursor \notin Values

\* One call on a set that nobody iterates over.
Call(t) ==
  /\ Free /\ table' = t
  /\ cursor' = Idle /\ checked' = {} /\ grew' = FALSE
  /\ UNCHANGED loop

set_add(v) == table.len < MaxLen /\ Call(Added(table, v))
set_remove(v) == Call(Removed(table, v))
set_intersect(other) == Call(Intersected(table, other))
set_clear == Call(EmptySet)

\* set_addall and set_removeall go through the other set in the order of its table.
StartLoop(op, other) ==
  /\ Free /\ other # {} /\ table.len + Cardinality(other) <= MaxLen
  /\ loop' = [op |-> op, todo |-> other]
  /\ cursor' = Idle /\ checked' = {} /\ grew' = FALSE
  /\ UNCHANGED table

LoopStep(v) ==
  /\ v \in loop.todo
  /\ table' = IF loop.op = "addall" THEN Added(table, v) ELSE Removed(table, v)
  /\ loop' = IF loop.todo = {v} THEN NoLoop ELSE [loop EXCEPT !.todo = @ \ {v}]
  /\ grew' = (grew \/ (cursor \in Values /\ table'.len > table.len))
  /\ UNCHANGED <<cursor, checked>>

\* set_foreach begins.
Foreach ==
  /\ Free /\ table.len # 0
  /\ cursor' = First(table, Entries(table)) /\ checked' = {} /\ grew' = FALSE
  /\ UNCHANGED <<table, loop>>

\* The body of the loop of insert_combinators for a block it has not been at: the
\* frontier of the block is added to the set.  Other bodies add nothing.
Check(other) ==
  /\ cursor \in Values \ checked /\ loop = NoLoop
  /\ table.len + Cardinality(other) <= MaxLen
  /\ checked' = checked \union {cursor}
  /\ loop' = IF other = {} THEN NoLoop ELSE [op |-> "addall", todo |-> other]
  /\ UNCHANGED <<table, cursor, grew>>

ForeachNext ==
  /\ cursor \in checked /\ loop = NoLoop
  /\ cursor' = set_next(table, cursor)
  /\ UNCHANGED <<table, loop, checked, grew>>

Init == table = EmptySet /\ loop = NoLoop /\ cursor = Idle /\ checked = {} /\ grew = FALSE

Iterate ==
  \/ \E v \in Values : LoopStep(v)
  \/ \E other \in SUBSET Values : Check(other)
  \/ ForeachNext

Next ==
  \/ \E v \in Values : set_add(v) \/ set_remove(v)
  \/ \E other \in SUBSET Values :
       set_intersect(other) \/ StartLoop("addall", other) \/ StartLoop("removeall", other)
  \/ set_clear \/ Foreach \/ Iterate

Spec == Init /\ [][Next]_hashVars

\* A loop that has begun goes on: nothing else runs meanwhile.
FairSpec == Spec /\ WF_hashVars(Iterate)

-----------------------------------------------------------------------------
\* The lists are whole: the entries of a bucket are numbered without a gap.
TypeOK ==
  /\ Entries(table) \subseteq Values
  /\ table.place \in [Entries(table) -> [bucket : 0 .. table.buckets_len - 1, pos : Nat \ {0}]]
  /\ table.buckets_len \in Nat /\ table.len \in 0 .. MaxLen
  /\ \A v \in Entries(table) :
       {table.place[u].pos : u \in SameBucket(table, v)} = 1 .. Cardinality(SameBucket(table, v))
  /\ loop.op \in {"none", "addall", "removeall"} /\ loop.todo \subseteq Values
  /\ cursor \in Entries(table) \union {Idle, Ended}
  /\ checked \subseteq Values /\ grew \in BOOLEAN

\* Seen through set_get, the table is a set, whatever is resized in between.
Elems == {v \in Values : set_get(table, v)}
Abstract == INSTANCE PlainSet WITH elems <- Elems
ImplementsSet == Abstract!Spec

\* Every entry is found again: none is lost in a bucket where nobody looks.
NothingLost == Entries(table) = Elems

\* There are enough buckets, even after an intersection has left len too large.
LoadBounded == Cardinality(Entries(table)) <= MaxBucketSize * table.buckets_len

\* The lists are whole, every entry is found where set_get looks for it, and there is
\* room for all of them, through every resize (set.c:42).
TableOK == TypeOK /\ NothingLost /\ LoadBounded

\* set_foreach handles every entry of a set that does not grow meanwhile, and of
\* one that has no more entries at the end than fit in one bucket.
ForeachComplete ==
  cursor = Ended /\ (~ grew \/ table.len <= MaxBucketSize) => checked = Entries(table)

\* A set_foreach comes to an end, even if the set grows and is resized under it.
ForeachEnds == cursor \in Values ~> cursor \notin Values
=============================================================================
