------------------------------ MODULE IntArith ------------------------------
(***************************************************************************)
(* Integer arithmetic in the compiler: what ir_interpreter.c computes for  *)
(* constants, what opt_strength_reduce and cg_normalize_op_order rewrite   *)
(* an expression to, and how codegen.c computes narrow variables in wide   *)
(* registers, each against what the instruction means.                     *)
(*                                                                         *)
(* A type is a signedness and a number of bits.  A constant is held in a   *)
(* host word of Host bits, of which the type uses the low ones; the rest   *)
(* is whatever the last computation left there.  Widths stand for 8 to 64  *)
(* bits and Host for the 64 bits of ir_const_t.constl; bool, 128-bit and   *)
(* floating-point types take paths of their own and are left out.          *)
(***************************************************************************)
EXTENDS Integers, FiniteSets, Bitwise

CONSTANTS
  Widths,   \* the widths of the types, powers of two
  Host,     \* the widest of them
  RegBits   \* backend_profile_t.arith_min_bits: the narrowest the machine computes

VARIABLES
  asked,    \* the expression: operator, type and operands
  way,      \* which of the algorithms answers
  answer    \* and its answers: more than one where the code leaves it open

vars == <<asked, way, answer>>

Prims == [signed : BOOLEAN, bits : Widths]
Raw == 0 .. 2^Host - 1

Compare == {"sgt", "sle", "slt", "sge", "seq", "sne"}
Op2 == Compare \union {"add", "sub", "mul", "div", "rem", "shl", "shr", "band", "bor", "bxor"}
Op1 == {"seqz", "snez", "neg", "bneg"}

-----------------------------------------------------------------------------
(* What the instructions mean, on the values of a type.                     *)

ir_prim_min(p) == IF p.signed THEN -(2^(p.bits - 1)) ELSE 0
ir_prim_max(p) == IF p.signed THEN 2^(p.bits - 1) - 1 ELSE 2^p.bits - 1

\* n modulo 2^bits, as a value of the type.
Wrap(p, n) == LET u == n % 2^p.bits IN IF u > ir_prim_max(p) THEN u - 2^p.bits ELSE u

Truth(b) == IF b THEN 1 ELSE 0
Abs(n) == IF n < 0 THEN -n ELSE n
Quot(a, b) == IF (a < 0) = (b < 0) THEN Abs(a) \div Abs(b) ELSE -(Abs(a) \div Abs(b))

\* The operator on integers; width is that of the machine word, which gives bitwise
\* operators their patterns.
Apply(op, a, b, width) ==
  CASE op = "sgt" -> Truth(a > b)   [] op = "sle" -> Truth(a <= b)
    [] op = "slt" -> Truth(a < b)   [] op = "sge" -> Truth(a >= b)
    [] op = "seq" -> Truth(a = b)   [] op = "sne" -> Truth(a # b)
    [] op = "add" -> a + b          [] op = "sub" -> a - b
    [] op = "mul" -> a * b
    [] op = "div" -> Quot(a, b)     [] op = "rem" -> a - b * Quot(a, b)
    [] op = "shl" -> a * 2^b        [] op = "shr" -> a \div 2^b
    [] op = "band" -> (a % 2^width) & (b % 2^width)
    [] op = "bor" -> (a % 2^width) | (b % 2^width)
    [] op = "bxor" -> (a % 2^width) ^^ (b % 2^width)

\* Whether the result is defined: a divisor is not zero, a shift is within the type.
Defined(op, p, a, b) ==
  /\ op \in {"div", "rem"} => b # 0
  /\ op \in {"shl", "shr"} => b \in 0 .. p.bits - 1

\* A comparison gives a bool, anything else a value of the type.
Means2(op, p, a, b) ==
  LET n == Apply(op, a, b, p.bits) IN IF op \in Compare THEN n ELSE Wrap(p, n)

Means1(op, p, a) ==
  CASE op = "seqz" -> Truth(a = 0) [] op = "snez" -> Truth(a # 0)
    [] op = "neg" -> Wrap(p, -a)   [] op = "bneg" -> Wrap(p, -a - 1)

-----------------------------------------------------------------------------
(* ir_interpreter.c                                                         *)

\* Mutant: bits above the type are left as they are.
Untrimmed(p, raw) == IF p.signed THEN Wrap([p EXCEPT !.bits = Host], raw) ELSE raw

\* ir_trim_const, read as a number.
ir_trim_const(p, raw) == Wrap(p, raw)

ir_const_is_negative(p, raw) == p.signed /\ (raw \div 2^(p.bits - 1)) % 2 = 1
ir_const_popcnt(p, raw) == Cardinality({k \in 0 .. p.bits - 1 : (raw \div 2^k) % 2 = 1})
ir_const_ctz(raw) == CHOOSE k \in 0 .. Host - 1 : (raw \div 2^k) % 2 = 1 /\ raw % 2^k = 0

\* The mask of a test for zero is 1 shifted by the width of the type, less one.
\* For the widest that shift is undefined: a compiler may take the amount modulo
\* the width of the word, or reason as if the mask were all ones.
ZeroMasks(p) == IF p.bits = Host THEN {0, 2^Host - 1} ELSE {2^p.bits - 1}

ir_calc1(op, p, raw) ==
  CASE op \in {"seqz", "snez"} -> {Truth((raw & m = 0) = (op = "seqz")) : m \in ZeroMasks(p)}
    [] op = "neg" -> {(-raw) % 2^Host}
    [] op = "bneg" -> {(-raw - 1) % 2^Host}

ir_calc2(op, p, l, r) ==
  Apply(op, ir_trim_const(p, l), ir_trim_const(p, r), Host) % 2^Host

-----------------------------------------------------------------------------
(* strength_reduce_expr: a product, quotient or remainder by a power of two.*)
(* x is the value of the variable, r the constant.  The result is what the  *)
(* machine computes for the instructions that take the place of the         *)
(* expression; it takes shift amounts modulo the width.                     *)

Shr(p, a, n) == Means2("shr", p, a, n % p.bits)

\* Mutant: the divisor itself is the mask.
RemByDivisor(p, x, bits) == Means2("band", p, x, 2^bits)

\* The instructions for a remainder: the mask is applied to x itself, and for a
\* signed type what should round towards zero is subtracted.
RemByMask(p, x, bits) ==
  LET sign == Shr(p, x, p.bits - 1)
      bias == Shr(p, sign, p.bits - bits)
      low == Means2("band", p, x, 2^bits - 1)
  IN  IF p.signed THEN Wrap(p, low - bias) ELSE low

PowerOfTwo(p, r) == ir_const_popcnt(p, r) = 1 /\ ~ ir_const_is_negative(p, r)

strength_reduce_expr(op, p, x, r) ==
  LET c == ir_trim_const(p, r) % 2^Host
      n == IF ir_const_is_negative(p, c) THEN (-c) % 2^Host ELSE c
  IN  CASE op = "div" /\ PowerOfTwo(p, c) -> Shr(p, x, ir_const_ctz(c))
        [] op = "rem" /\ ir_const_popcnt(p, n) = 1 -> RemByMask(p, x, ir_const_ctz(n))
        [] op = "mul" /\ PowerOfTwo(p, c) -> Means2("shl", p, x, ir_const_ctz(c))
        [] OTHER -> Means2(op, p, x, ir_trim_const(p, c))

\* cg_normalize_op_order: a constant goes to the right, and to subtract it is to
\* add its negative.
Commuted(op) ==
  CASE op = "sgt" -> "slt" [] op = "slt" -> "sgt" [] op = "sle" -> "sge" [] op = "sge" -> "sle"
    [] OTHER -> op

Commutes(op) == op \in Compare \union {"band", "bor", "bxor", "add", "mul"}

ConstRight(op, p, x, r) ==
  IF op = "sub"
    THEN LET neg == CHOOSE n \in ir_calc1("neg", p, r) : TRUE
         IN  Means2("add", p, x, ir_trim_const(p, neg))
    ELSE Means2(op, p, x, ir_trim_const(p, r))

ConstLeft(op, p, l, x) ==
  IF Commutes(op) THEN ConstRight(Commuted(op), p, x, l) ELSE Means2(op, p, ir_trim_const(p, l), x)

-----------------------------------------------------------------------------
(* codegen.c: variables narrower than a register become as wide as one      *)
(* (cg_promote_var_0), and are brought back into the range of their type    *)
(* where a use would see the difference (cg_promote_var_1), unless what is  *)
(* known of the range says that they are in it.                             *)

Range(lo, hi) == [lo |-> lo, hi |-> hi]
FullRange(p) == Range(ir_prim_min(p), ir_prim_max(p))
Least(a, b) == IF a < b THEN a ELSE b
Most(a, b) == IF a < b THEN b ELSE a

cg_promote_var_0(p) == IF p.bits < RegBits THEN [p EXCEPT !.bits = RegBits] ELSE p

\* ir_expand_range, of a variable that nothing else is known of.
ir_expand_range(p, lo, hi) ==
  Range(Most(ir_prim_min(p), Least(ir_prim_max(p), lo)), Least(ir_prim_max(p), Most(ir_prim_min(p), hi)))

\* ir_expr2_range: p is the type after promotion, known what is known of the left
\* operand.  Nothing is looked up for the right one once the left one has a range,
\* so it is taken for any number of the type.
ir_expr2_range(op, p, known) ==
  LET rhs == FullRange(p)
      less(a, b) == IF p.signed THEN a - b ELSE Most(0, a - b)
      most == Most(Abs(rhs.lo), Abs(rhs.hi)) - 1
  IN  CASE op = "add" -> ir_expand_range(p, known.lo + rhs.lo, known.hi + rhs.hi)
        [] op = "sub" -> ir_expand_range(p, less(known.lo, rhs.lo), less(known.hi, rhs.hi))
        [] op = "mul" -> ir_expand_range(p, known.lo * rhs.lo, known.hi * rhs.hi)
        [] op = "div" /\ p.signed -> ir_expand_range(p, Quot(known.lo, rhs.lo), Quot(known.hi, rhs.lo))
        [] op = "div" /\ ~ p.signed -> known
        [] op = "rem" -> ir_expand_range(p, IF p.signed THEN -most ELSE 0, most)
        [] op = "shl" -> rhs
        [] op = "shr" /\ p.signed -> ir_expand_range(p, known.lo \div 2^(p.bits - 1), known.hi \div 2^(p.bits - 1))
        [] op = "shr" /\ ~ p.signed -> known
        [] op = "band" -> Range(ir_prim_min(p), ir_prim_min(p))
        [] op \in {"bor", "bxor"} -> rhs

\* Mutant: a quotient is taken to be right modulo the width.
NotForDiv(use) == use \in Compare \union {"shr", "seqz", "snez"}

\* The uses that tell a value from another that is equal to it modulo the width.
NeedsClamp(use) == use \in Compare \union {"shr", "div", "rem", "seqz", "snez"}

InRange(p, g) == ir_prim_min(p) <= g.lo /\ g.hi <= ir_prim_max(p)

\* What a use of the variable reads, when dirty is what was computed for it in wide.
\* A signed variable is shifted up and down again, but the first shift reads the
\* variable itself, which has no value yet, in the place of the one computed.
cg_promote_var_1(p, wide, dirty, range, use) ==
  IF p = wide \/ ~ NeedsClamp(use) \/ InRange(p, range) THEN {dirty}
  ELSE IF p.signed THEN ir_prim_min(p) .. ir_prim_max(p)
  ELSE {dirty % 2^p.bits}

\* The machine takes the amount of a shift modulo the width of its registers.
OnMachine(op, p, a, b) == Means2(op, p, a, IF op \in {"shl", "shr"} THEN b % p.bits ELSE b)

-----------------------------------------------------------------------------
(* A question, and the answer of one of the algorithms.                     *)

Init == way = "none" /\ asked = [op |-> "none"] /\ answer = {}

Ask(op, p, l, r) == asked' = [op |-> op, p |-> p, l |-> l, r |-> r]

Calc1 == \E op \in Op1, p \in Prims, l \in Raw :
  /\ way' = "calc1" /\ Ask(op, p, l, l)
  /\ answer' = ir_calc1(op, p, l)

\* No constant is divided by zero, nor the least one by -1: the program stops there.
Calc2 == \E op \in Op2, p \in Prims, l, r \in Raw :
  /\ Defined(op, p, Wrap(p, l), Wrap(p, r))
  /\ op \in {"div", "rem"} => <<Wrap(p, l), Wrap(p, r)>> # <<-(2^(Host - 1)), -1>>
  /\ way' = "calc2" /\ Ask(op, p, l, r)
  /\ answer' = {ir_calc2(op, p, l, r)}

StrengthReduce == \E op \in {"mul", "div", "rem"}, p \in Prims, l, r \in Raw :
  /\ l = Wrap(p, l) % 2^Host /\ Defined(op, p, l, Wrap(p, r))
  /\ way' = "reduce" /\ Ask(op, p, l, r)
  /\ answer' = {strength_reduce_expr(op, p, Wrap(p, l), r)}

Normalize == \E op \in Op2, p \in Prims, l, r \in Raw :
  /\ Defined(op, p, Wrap(p, l), Wrap(p, r))
  /\ way' = "normalize" /\ Ask(op, p, l, r)
  /\ answer' = {ConstRight(op, p, Wrap(p, l), r), ConstLeft(op, p, l, Wrap(p, r))}

\* The operands are as their own promotion leaves them: in the range of the type if
\* this operator needs that, else only equal modulo its width.
Promote == \E op \in Op2 \ Compare, p \in Prims, l, r \in Raw, use \in Op2 \union {"seqz", "snez"} :
  LET wide == cg_promote_var_0(p)
      L == Wrap(IF NeedsClamp(op) THEN p ELSE wide, l)
      R == Wrap(IF NeedsClamp(op) THEN p ELSE wide, r)
      dirty == OnMachine(op, wide, L, R)
  IN  /\ p # wide /\ Defined(op, p, Wrap(p, l), Wrap(p, r))
      /\ way' = "promote" /\ asked' = [op |-> op, p |-> p, l |-> l, r |-> r, use |-> use]
      /\ answer' = cg_promote_var_1(p, wide, dirty, ir_expr2_range(op, wide, FullRange(p)), use)

Next == way = "none" /\ (Calc1 \/ Calc2 \/ StrengthReduce \/ Normalize \/ Promote)

Spec == Init /\ [][Next]_vars

-----------------------------------------------------------------------------
(* Each answer against what the expression means.                           *)

Meant == Means2(asked.op, asked.p, Wrap(asked.p, asked.l), Wrap(asked.p, asked.r))

\* Constant propagation: an operator on constants is computed right whatever their
\* unused bits are, and the result stands for the value of the instruction when the
\* type is read off it again.  Code generation moves a constant to the right, with
\* the operator that belongs to the order, and adds the negative of one that is to be
\* subtracted: no result changes.  The test of the widest type against zero is
\* excepted: its mask is a shift too far.
ConstantsSound ==
  /\ way = "calc1" /\ ~ (asked.op \in {"seqz", "snez"} /\ asked.p.bits = Host) =>
       \A n \in answer : Wrap(asked.p, n) = Means1(asked.op, asked.p, Wrap(asked.p, asked.l))
  /\ way = "calc2" => \A n \in answer : Wrap(asked.p, n) = Wrap(asked.p, Meant)
  /\ way = "normalize" => answer = {Meant}

\* Strength reduction: a product, and the quotient and remainder of a number that is
\* not negative, are what the shifts and masks in their place compute.
ReduceSoundIfPositive ==
  way = "reduce" /\ (asked.op = "mul" \/ Wrap(asked.p, asked.l) >= 0) => answer = {Meant}

\* Strength reduction replaces an expression with a cheaper one of the same value.
\* It does not for negative numbers: a shift rounds them down, and the remainder is
\* masked from the number itself, not from the one its sign was added to.
ReduceSound == way = "reduce" => answer = {Meant}

\* What the use of a promoted variable sees: with any operand y of the type, the value
\* it would have of the variable in its range, if it needs that, else one equal to it.
UseAgrees(n) ==
  LET p == asked.p
      wide == cg_promote_var_0(p)
      same(a, b) == IF asked.use \in {"div", "rem", "shr"} \union Compare THEN a = b ELSE (a - b) % 2^p.bits = 0
  IN  IF asked.use \in Op1 THEN Means1(asked.use, wide, n) = Means1(asked.use, p, Meant)
      ELSE \A y \in ir_prim_min(p) .. ir_prim_max(p) : Defined(asked.use, p, Meant, y) =>
             same(OnMachine(asked.use, wide, n, y), Means2(asked.use, wide, Meant, y))

\* Computing a narrow unsigned variable in a wide register changes nothing that its
\* uses see, unless it is a difference or a mask, whose ranges are taken to be zero.
PromoteSoundIfUnsigned ==
  way = "promote" /\ ~ asked.p.signed /\ asked.op \notin {"sub", "band"} => \A n \in answer : UseAgrees(n)

\* Computations are inserted to clamp every promoted variable back in range.
PromoteSound == way = "promote" => \A n \in answer : UseAgrees(n)
=============================================================================
