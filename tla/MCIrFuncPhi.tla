---------------------------- MODULE MCIrFuncPhi -----------------------------
(***************************************************************************)
(* IrFunc started in a function already built: c4 is the head of a loop,   *)
(* entered from c1 and c2, whose body c3 jumps back to it.  It holds two   *)
(* phis and a branch that reads the first.  The bindings are all those a   *)
(* function in SSA form can have: what is computed outside the loop comes  *)
(* in from c1 and c2, and anything from c3.  The operations that build it  *)
(* are the first steps of a behaviour of IrFunc that TLC would not reach   *)
(* by itself; here it takes the function apart in every way that MaxOps    *)
(* operations can.                                                         *)
(***************************************************************************)
EXTENDS IrFunc, TLC, Naturals

CONSTANTS c1, c2, c3, c4, v1, v2, v3, j1, j2, j3, p1, p2, use, s1, MaxOps

VARIABLE ops

Outside == {v3, Const}
Binding == {b \in [{c1, c2, c3} -> {v1, v2, v3, Const}] : {b[c1], b[c2]} \subseteq Outside}
JumpTo4(c) == MkInsn("jump", c, NoArgs, NoBinds, c4, None)
PhiIn4(b, d) ==
  MkInsn("phi", c4, NoArgs, [c \in Codes |-> IF c = c4 THEN None ELSE b[c]], None, d)

MCInit ==
  /\ codes = Codes /\ vars = Vars /\ args = {v3} /\ enforce_ssa = TRUE
  /\ \E b, d \in Binding :
       insn = (j1 :> JumpTo4(c1)) @@ (j2 :> JumpTo4(c2)) @@ (j3 :> JumpTo4(c3))
                @@ (p1 :> PhiIn4(b, v1)) @@ (p2 :> PhiIn4(d, v2))
                @@ (use :> MkInsn("branch", c4, [s \in Slots |-> v1], NoBinds, c3, None))
  /\ order = {<<p1, p2>>, <<p1, use>>, <<p2, use>>}
  /\ used_at = [v \in Vars |-> {i \in Insns : v \in VarsOf(insn[i])}]
  /\ assigned_at = [v \in Vars |-> {i \in Insns : insn[i].dest = v}]
  /\ succ = [c \in Codes |-> IF c = c4 THEN {c3} ELSE {c4}]
  /\ pred = [c \in Codes |-> IF c = c4 THEN {c1, c2, c3} ELSE IF c = c3 THEN {c4} ELSE {}]
  /\ deleting = NotDeleting /\ halted = FALSE
  /\ ops = 0

MCNext ==
  \/ /\ Idle /\ ops < MaxOps
     /\ Edit \/ DeleteCode
     /\ ops' = ops + 1
  \/ /\ ~ Idle
     /\ DeleteCode
     /\ UNCHANGED ops

MCSpec == MCInit /\ [][MCNext]_<<funcVars, ops>>

Symmetry == Permutations({c1, c2})
=============================================================================
