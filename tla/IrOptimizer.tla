---------------------------- MODULE IrOptimizer ----------------------------
(***************************************************************************)
(* The passes of compiler/common/ir/ir_optimizer.c over a function in SSA  *)
(* form, on top of the operations of IrFunc: constant and copy propagation,*)
(* removal of unused variables, removal of dead code, merging of blocks,   *)
(* in a loop for as long as one of them reports a change.  Strength        *)
(* reduction, the pass that runs once at the end, rewrites arithmetic only *)
(* and is in IntArith.                                                     *)
(*                                                                         *)
(* Constants have no value here.  What the passes ask of one is the truth  *)
(* of the condition of a branch, once that is a constant: `truth' fixes it *)
(* for every branch from the start, and says "either" of a branch that     *)
(* goes both ways.  No constant makes a branch do that: were the condition *)
(* of such a branch to become one, the passes would leave it.  `op' says   *)
(* what a plain instruction is: a copy between variables of one type, a    *)
(* cast, any other expression, or an effect (store, call, load), which is  *)
(* never folded.                                                           *)
(***************************************************************************)
EXTENDS IrFunc, FiniteSets, Naturals

VARIABLES
  truth,    \* per branch: whether its condition is true, false, or either in turn
  op,       \* per plain instruction: copy, cast, expr or effect
  entry,    \* ir_func_t.entry, the first block of code_list
  pass,     \* the pass of ir_optimize that runs
  todo,     \* what the pass has yet to visit: variables or blocks
  loop,     \* the flag of the loop inside the pass
  again,    \* the flag of the loop of ir_optimize
  atFirst   \* what the function did before the passes ran; the code does not keep it

optVars == <<truth, op, entry, atFirst, pass, todo, loop, again>>
vars_all == <<funcVars, optVars>>

Passes == {"start", "const_prop", "unused_vars", "dead_code", "delete_code", "branches", "done"}
Ops == {"copy", "cast", "expr", "effect"}
Truths == {"true", "false", "either"}

ArgsOf(i) == {insn[i].arg[s] : s \in Slots} \ {None}
BindsOf(i) == {insn[i].bind[c] : c \in Codes} \ {None}

Go(p, work) == pass' = p /\ todo' = work /\ loop' = FALSE
Running(p) == Idle /\ pass = p

-----------------------------------------------------------------------------
(* opt_const_prop: every variable with one writer is looked at in turn,     *)
(* until a whole round finds nothing.                                       *)

\* The operands that const_prop_expr may put in the place of the result of i.
\* A copy gives its operand, any expression of constants a constant.  With one
\* constant operand it depends on its value: a product with zero is zero, one
\* with one, or a quotient by one, is the other operand.  A test for zero of a
\* cast of a bool is that bool.
Folded(i) ==
  CASE insn[i].kind = "phi" -> IF Cardinality(BindsOf(i)) = 1 THEN BindsOf(i) ELSE {}
    [] insn[i].kind = "plain" /\ op[i] = "copy" -> ArgsOf(i)
    [] insn[i].kind = "plain" /\ op[i] = "cast" -> ArgsOf(i) \ Vars
    [] insn[i].kind = "plain" /\ op[i] = "expr" ->
         (IF Const \in ArgsOf(i) THEN ArgsOf(i) ELSE {})
           \union UNION {ArgsOf(j) : j \in {k \in Live : /\ op[k] = "cast" /\ ArgsOf(i) = {insn[k].dest}
                                                         /\ assigned_at[insn[k].dest] = {k}}}
    [] OTHER -> {}

\* Whether it certainly does.  A phi is read as if it were an expression by the
\* check at the head of const_prop_expr (the two share a union), which lets it
\* through only if the low byte of the address of its first predecessor is the
\* code of a constant operand.
MustFold(i) ==
  insn[i].kind = "plain" /\ (op[i] = "copy" \/ (op[i] \in {"cast", "expr"} /\ ArgsOf(i) = {Const}))

\* ir_var_replace and ir_var_delete of the result of i.
ReplaceResult(i, o) ==
  LET x == insn[i].dest
      u == Remark(used_at, insn, x, o)
  IN  IF o = x
        THEN halted' = TRUE /\ UNCHANGED <<graph, vars, args>>
        ELSE /\ DeleteFrom(ReplaceIn(insn, used_at, x, o), u, assigned_at, u[x] \union assigned_at[x])
             /\ vars' = vars \ {x} /\ args' = args \ {x}
             /\ UNCHANGED halted

const_prop_expr(v) ==
  /\ Running("const_prop") /\ v \in todo
  /\ todo' = todo \ {v}
  /\ \/ \E i \in assigned_at[v] : \E o \in Folded(i) :
          /\ assigned_at[v] = {i}
          /\ ReplaceResult(i, o)
          /\ loop' = TRUE
     \/ /\ \A i \in assigned_at[v] : assigned_at[v] = {i} => ~ MustFold(i)
        /\ UNCHANGED <<graph, vars, args, halted, loop>>
  /\ UNCHANGED <<flow, codes, enforce_ssa, deleting, truth, op, entry, atFirst, pass, again>>

const_prop_round ==
  /\ Running("const_prop") /\ todo = {}
  /\ IF loop THEN Go("const_prop", vars) ELSE Go("unused_vars", {})
  /\ again' = (again \/ loop)
  /\ UNCHANGED <<funcVars, truth, op, entry, atFirst>>

-----------------------------------------------------------------------------
(* opt_unused_vars: a variable is used if an instruction that is not a phi  *)
(* reads it, or a phi whose result is used.                                 *)

ReadByMore == {v \in vars : \E i \in used_at[v] : insn[i].kind # "phi"}

ClosedUnderPhis(S) ==
  \A v \in S : \A i \in assigned_at[v] : insn[i].kind = "phi" => VarsOf(insn[i]) \subseteq S

UsedVars == {v \in vars : \A S \in SUBSET Vars : ReadByMore \subseteq S /\ ClosedUnderPhis(S) => v \in S}

\* Mutant: phis do not pass on that they are used.
UsedButThroughPhis == ReadByMore

opt_unused_vars ==
  LET unused == vars \ UsedVars
  IN  /\ Running("unused_vars")
      /\ DeleteFrom(insn, used_at, assigned_at, UNION {used_at[v] \union assigned_at[v] : v \in unused})
      /\ vars' = vars \ unused /\ args' = args \ unused
      /\ IF unused # {} THEN Go("unused_vars", {}) ELSE Go("dead_code", {})
      /\ again' = (again \/ unused # {})
      /\ UNCHANGED <<flow, codes, enforce_ssa, ctl, truth, op, entry, atFirst>>

-----------------------------------------------------------------------------
(* opt_dead_code: what follows a jump, a return or a branch that is always  *)
(* taken is deleted, then every block that was not reached.                 *)

ConstBranch(i) == insn[i].kind = "branch" /\ ArgsOf(i) = {Const}
NeverTaken(i) == ConstBranch(i) /\ truth[i] = "false"

\* Mutant: a branch on a constant ends the block whatever the constant is.
EndsOnAnyConst(i) == insn[i].kind \in {"jump", "return"} \/ ConstBranch(i)

EndsBlock(i) == insn[i].kind \in {"jump", "return"} \/ (ConstBranch(i) /\ truth[i] = "true")

Dead(i) == \E e \in order : e[2] = i /\ EndsBlock(e[1])
Leads(c) == {insn[i].target : i \in {j \in Body(c) : insn[j].kind \in Jumps /\ ~ Dead(j) /\ ~ NeverTaken(j)}}
Reached == {c \in codes : \A S \in SUBSET codes :
              entry \in S /\ (\A b \in S : Leads(b) \subseteq S) => c \in S}

dead_code_dfs ==
  LET body == UNION {Body(c) : c \in Reached}
      dead == {i \in body : Dead(i)}
  IN  /\ Running("dead_code")
      /\ DeleteFrom(insn, used_at, assigned_at, dead \union {i \in body : NeverTaken(i)})
      /\ pass' = "delete_code" /\ todo' = codes \ Reached /\ loop' = (dead # {})
      /\ UNCHANGED <<flow, decls, ctl, truth, op, entry, atFirst, again>>

\* The blocks that were not reached go one by one; ir_code_delete takes several
\* steps of its own.
DeleteUnreached(c) ==
  /\ Running("delete_code") /\ c \in todo
  /\ ir_code_delete(c)
  /\ todo' = todo \ {c}
  /\ UNCHANGED <<truth, op, entry, atFirst, pass, loop, again>>

DeleteSteps ==
  /\ pass = "delete_code"
  /\ \/ \E s \in Codes : CodeDeleteSucc(s)
     \/ \E i \in Insns : CodeDeletePhi(i)
     \/ CodeDeleteEnd
  /\ UNCHANGED optVars

dead_code_round ==
  /\ Running("delete_code") /\ todo = {}
  /\ ir_func_recalc_flow
  /\ again' = (again \/ loop)
  /\ IF loop THEN Go("dead_code", {}) ELSE Go("branches", {})
  /\ UNCHANGED <<truth, op, entry, atFirst>>

-----------------------------------------------------------------------------
(* opt_branches: a block with one successor that has no other predecessor   *)
(* is merged with it.  Merging changes neither the number of predecessors   *)
(* of a block nor what another can be merged with, so that the order of the *)
(* depth-first search does not matter.                                      *)

IsLast(i) == \A e \in order : e[1] # i

\* Mutant: other successors of the first block are not looked for.
MergeableAnySucc(a, b) == a # b /\ a \in codes /\ b \in succ[a] /\ pred[b] = {a}

Mergeable(a, b) == a # b /\ a \in codes /\ succ[a] = {b} /\ pred[b] = {a}

\* What merge_code asserts of the last instruction of the first block.
MayMerge(a, b) ==
  \E i \in Body(a) : /\ IsLast(i) /\ insn[i].target = b
                     /\ insn[i].kind = "jump" \/ (ConstBranch(i) /\ truth[i] = "true")

\* Mutant: the blocks that follow keep the second as their predecessor.
MergedPredStale(a, b) == [c \in Codes |-> IF c = b THEN {} ELSE pred[c]]

MergedPred(a, b) ==
  [c \in Codes |-> IF c = b THEN {} ELSE IF c \in succ[b] THEN (pred[c] \ {b}) \union {a} ELSE pred[c]]

merge_code(a, b) ==
  LET last == {i \in Body(a) : IsLast(i)}
      f == [i \in Insns |-> IF i \in Body(b) THEN [insn[i] EXCEPT !.code = a] ELSE insn[i]]
  IN  /\ Running("branches") /\ Mergeable(a, b) /\ MayMerge(a, b)
      /\ insn' = Erase(f, last)
      /\ used_at' = ir_unmark_used(used_at, insn, last)
      /\ assigned_at' = Unassign(assigned_at, insn, last)
      /\ order' = Unlink(order, last) \union ((Body(a) \ last) \X Body(b))
      /\ pred' = MergedPred(a, b)
      /\ succ' = [succ EXCEPT ![a] = succ[b], ![b] = {}]
      /\ codes' = codes \ {b}
      /\ loop' = TRUE
      /\ UNCHANGED <<vars, args, enforce_ssa, ctl, truth, op, entry, atFirst, pass, todo, again>>

\* Whether ir_optimize goes round once more.
OnceMore == again \/ loop

\* Mutant: what an earlier round changed counts again.
StaleFlag == again \/ loop

\* The flag as the next round starts.
FreshFlag == FALSE

opt_branches_end ==
  /\ Running("branches") /\ \A a, b \in codes : ~ Mergeable(a, b)
  /\ IF OnceMore THEN Go("const_prop", vars) ELSE Go("done", {})
  /\ again' = FreshFlag
  /\ UNCHANGED <<funcVars, truth, op, entry, atFirst>>

-----------------------------------------------------------------------------
(* What the function does: the order of its effects.                        *)

Effects == {i \in Live : insn[i].kind = "return" \/ (insn[i].kind = "plain" /\ op[i] = "effect" /\ insn[i].dest = None)}

\* Where control goes on with the next instruction, and where with another block.
GoesOn(i) == insn[i].kind \in {"plain", "phi"} \/ (insn[i].kind = "branch" /\ truth[i] # "true")
GoesAway(i) == insn[i].kind = "jump" \/ (insn[i].kind = "branch" /\ truth[i] # "false")

IsNext(i, j) == <<i, j>> \in order /\ \A k \in Live : ~ (<<i, k>> \in order /\ <<k, j>> \in order)
First(c) == {i \in Body(c) : \A e \in order : e[2] # i}

Flows(i, j) == (GoesOn(i) /\ IsNext(i, j)) \/ (GoesAway(i) /\ j \in First(insn[i].target))

\* The instructions that control reaches from those in S by way of edges.
Reaches(S, edges) ==
  LET steps[n \in 0..Cardinality(edges)] ==
        IF n = 0 THEN S
        ELSE LET known == steps[n - 1] IN known \union {e[2] : e \in {d \in edges : d[1] \in known}}
  IN  steps[Cardinality(edges)]

\* The first effects that control meets from start, and of each effect those that
\* can be next.
Course(start, edges, effects) ==
  LET quiet == {e \in edges : e[1] \notin effects}
  IN  [first |-> Reaches(start, quiet) \intersect effects,
       next |-> UNION {{e[1]} \X (Reaches({e[2]}, quiet) \intersect effects) :
                         e \in {d \in edges : d[1] \in Reaches(start, edges) \intersect effects}}]

\* The instructions that can come after one another.
Edges == {e \in Live \X Live : Flows(e[1], e[2])}
Behaviour ==
  LET start == First(entry)
      edges == Edges
      effects == Effects
  IN  Course(start, edges, effects)

-----------------------------------------------------------------------------
\* Before the first pass it is noted what the function does.
ir_optimize_start ==
  /\ Running("start")
  /\ Go("const_prop", vars)
  /\ atFirst' = Behaviour
  /\ UNCHANGED <<funcVars, truth, op, entry, again>>

ir_optimize_passes ==
  \/ \E v \in Vars : const_prop_expr(v)
  \/ const_prop_round
  \/ opt_unused_vars
  \/ dead_code_dfs
  \/ \E c \in Codes : DeleteUnreached(c)
  \/ DeleteSteps
  \/ dead_code_round
  \/ \E a, b \in Codes : merge_code(a, b)
  \/ opt_branches_end

ir_optimize == ir_optimize_start \/ ir_optimize_passes

OptStart == pass = "start" /\ todo = {} /\ loop = FALSE /\ again = FALSE /\ atFirst = None

\* Two ways out of a block that lead to the same place would be one edge: merge_code
\* would delete the last jump only, and leave the other to a block that is gone.
TargetsDiffer ==
  \A i, j \in Live : /\ i # j /\ insn[i].code = insn[j].code
                     /\ insn[i].kind \in Jumps /\ insn[j].kind \in Jumps
                    => insn[i].target # insn[j].target

\* How the C front end ends its blocks: one that branches jumps as well, no return
\* follows a jump, jumps and returns have no result, and nothing jumps to the entry.
FrontEndShape ==
  /\ \A i \in Live : insn[i].kind = "branch" =>
       \E j \in Live : insn[j].code = insn[i].code /\ insn[j].kind = "jump"
  /\ \A e \in order : insn[e[1]].kind \in Jumps => insn[e[2]].kind # "return"
  /\ \A i \in Live : ir_is_jbr(insn[i].kind) => insn[i].dest = None
  /\ entry \in codes /\ \A i \in Live : insn[i].target # entry

\* The next variable or block, which the loops of a pass read before they deal with
\* the current one, still exists when its turn comes.
OptTypeOK ==
  /\ truth \in [Insns -> Truths] /\ op \in [Insns -> Ops]
  /\ pass \in Passes
  /\ ~ halted => todo \subseteq (IF pass = "delete_code" THEN codes ELSE vars)
  /\ loop \in BOOLEAN /\ again \in BOOLEAN

\* Any function that the operations of IrFunc built in SSA form and that the front
\* end could have built, with no two ways out that are one edge; the passes run on it
\* with no edit of anyone else's in between.
OptInit ==
  /\ TypeOK /\ UsedAtSound /\ UsedAtComplete /\ AssignedAtExact
  /\ FlowConsistent /\ PhisHavePaths /\ JumpsLast /\ TargetsDiffer
  /\ FrontEndShape /\ OptTypeOK
  /\ Idle /\ OptStart

OptSpec == OptInit /\ [][ir_optimize]_vars_all

\* What merge_code asserts holds of every two blocks it is called for: the block
\* ends in the one jump to its successor.
MergeAsserts == \A a, b \in codes : Running("branches") /\ Mergeable(a, b) => MayMerge(a, b)

\* What the passes take for granted: the next variable or block, read before the
\* current one is dealt with, still exists when its turn comes (ir_optimizer.c:195,
\* 272), and merge_code finds the one and only jump that it asserts
\* (ir_optimizer.c:429).
OptimizerOK == OptTypeOK /\ MergeAsserts /\ TargetsDiffer

\* Optimising changes neither which effects come first nor what can follow what,
\* for every outcome of every branch: no pass drops, adds or reorders a call or a
\* store that control reaches.
EffectsKept == pass = "done" => Behaviour = atFirst
=============================================================================
