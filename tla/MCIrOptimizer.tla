--------------------------- MODULE MCIrOptimizer ---------------------------
(***************************************************************************)
(* IrOptimizer on every function of a bounded shape: three blocks, each    *)
(* with an effect and an exit, as the C front end makes them (nothing      *)
(* jumps to the entry; the two ways out of a branch differ).  The entry    *)
(* computes v1 and v2, the last block may have a phi; each branch reads a  *)
(* constant, v1, or an argument, by which it goes either way.              *)
(***************************************************************************)
EXTENDS IrOptimizer, TLC, Sequences

CONSTANTS c1, c2, c3, v1, v2, v3, a1, s1, s2

D1 == <<"def", v1>>
D2 == <<"def", v2>>
D3 == <<"def", v3>>

MCInsns == ({"fx", "br", "ex"} \X Codes) \union ({"def"} \X {v1, v2, v3})

\* A way out of a block: a return, a jump, or a branch and a jump elsewhere.
Ways == {[exit |-> <<c>>, cond |-> Const, truth |-> "false"] : c \in {c2, c3, None}}
          \union {w \in [exit : {<<c2, c3>>, <<c3, c2>>}, cond : {Const, v1, a1}, truth : Truths] :
                    w.cond = a1 <=> w.truth = "either"}

Jump(c, t) == IF t = None THEN MkInsn("return", c, NoArgs, NoBinds, None, None)
                          ELSE MkInsn("jump", c, NoArgs, NoBinds, t, None)
OneArg(o) == [s \in Slots |-> IF s = s1 THEN o ELSE None]

\* What v2 is (a copy, a cast, or a product with a constant), the phi, if there
\* is one, and what the effect in its block reads.
Product == [s \in Slots |-> IF s = s1 THEN Const ELSE a1]
Mixed == [c \in Codes |-> IF c = c1 THEN v1 ELSE a1]
Datas == {[op |-> "copy", arg |-> OneArg(v1), binds |-> None, used |-> v2],
          [op |-> "cast", arg |-> OneArg(a1), binds |-> [c \in Codes |-> v2], used |-> v3],
          [op |-> "expr", arg |-> Product, binds |-> Mixed, used |-> v3],
          [op |-> "expr", arg |-> Product, binds |-> Mixed, used |-> Const]}

\* The instructions, by ways out, the operands of v2, the phi and what c3 reads.
Function(way, a, binds, used) ==
  LET exit == [c \in Codes |-> way[c].exit]
      ps == {c \in Codes : c3 \in {exit[c][k] : k \in 1..Len(exit[c])}}
      hasPhi == binds # None /\ Cardinality(ps) > 1
  IN
  [i \in Insns |->
     CASE i[1] = "fx" -> MkInsn("plain", i[2], OneArg(IF i[2] = c3 /\ (hasPhi \/ used = v2) THEN used ELSE Const), NoBinds, None, None)
       [] i[1] = "ex" -> LET e == exit[i[2]] IN Jump(i[2], e[Len(e)])
       [] i[1] = "br" -> LET e == exit[i[2]]
                         IN  IF Len(e) = 1 THEN Blank
                             ELSE MkInsn("branch", i[2], OneArg(way[i[2]].cond), NoBinds, e[1], None)
       [] i = D1 -> MkInsn("plain", c1, OneArg(Const), NoBinds, None, v1)
       [] i = D2 -> MkInsn("plain", c1, a, NoBinds, None, v2)
       [] i = D3 -> IF ~ hasPhi THEN Blank
                    ELSE MkInsn("phi", c3, NoArgs, [c \in Codes |-> IF c \in ps THEN binds[c] ELSE None],
                                None, v3)]

\* The place of an instruction in its block.
Rank(i) == CASE i = D3 -> 0 [] i = D1 -> 1 [] i = D2 -> 2 [] i[1] = "fx" -> 3 [] i[1] = "br" -> 4 [] OTHER -> 5

MCInit ==
  /\ codes = Codes /\ args = {a1} /\ enforce_ssa = TRUE /\ entry = c1
  /\ \E way \in [Codes -> Ways], d \in Datas :
       /\ way[c2].cond # v1
       /\ Len(way[c3].exit) = 2 => way[c3].cond = a1 /\ Len(way[c2].exit) = 1
       /\ insn = Function(way, d.arg, d.binds, d.used)
       /\ truth = [i \in Insns |-> IF i[1] = "br" THEN way[i[2]].truth ELSE "false"]
       /\ \E how \in {"copy", "effect"} :
            op = [i \in Insns |-> IF i = D1 THEN how ELSE IF i = D2 THEN d.op ELSE "effect"]
  /\ vars = {a1, v1, v2} \union (IF insn[D3].kind = "free" THEN {} ELSE {v3})
  /\ order = {<<i, j>> \in Live \X Live : insn[i].code = insn[j].code /\ Rank(i) < Rank(j)}
  /\ used_at = [v \in Vars |-> {i \in Insns : v \in VarsOf(insn[i])}]
  /\ assigned_at = [v \in Vars |-> {i \in Insns : insn[i].dest = v}]
  /\ succ = [c \in Codes |-> Targets(c)]
  /\ pred = [c \in Codes |-> {b \in Codes : c \in Targets(b)}]
  /\ deleting = NotDeleting /\ halted = FALSE
  /\ OptStart

MCSpec == MCInit /\ [][ir_optimize]_vars_all /\ WF_vars_all(ir_optimize_passes)

\* ir_optimize ends: no pass goes on reporting a change.
OptimizeEnds == pass # "start" ~> (pass = "done" \/ halted)

\* A phi says which value it takes for exactly the predecessors of its block, as
\* the documentation of `comb' asks.  It fails: opt_dead_code deletes jumps with
\* ir_insn_delete, which leaves the phis of the target alone.
PhisBindPreds ==
  Running("branches") => \A i \in Live : insn[i].kind = "phi" =>
     \A c \in Codes : insn[i].bind[c] # None <=> c \in pred[insn[i].code]
=============================================================================
