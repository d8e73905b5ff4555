------------------------------- MODULE IrFunc -------------------------------
(***************************************************************************)
(* One IR function held in memory, and the operations of                   *)
(* compiler/common/ir/ir.c that build it and take it apart.                *)
(*                                                                         *)
(* A function owns code blocks, variables and instructions that point at   *)
(* each other.  Every pointer has a cached inverse that the operations     *)
(* keep by hand: a variable has the sets `used_at' and `assigned_at' of    *)
(* the instructions that read and write it, a block has the sets `pred'    *)
(* and `succ' of the blocks that jump to it and that it jumps to.  Every   *)
(* pass of the compiler walks these sets and frees what it finds there, so *)
(* a stale or a missing entry is a use of freed memory.                    *)
(*                                                                         *)
(* Operands are abstracted to the variable they read (a plain variable or  *)
(* the base of a memory reference) or to Const, which stands for every     *)
(* operand that reads none.  The doubly linked instruction list of a block *)
(* is the relation `order'.  Machine instructions, the only ones exempt    *)
(* from the placement check, appear after this phase and are left out.     *)
(***************************************************************************)
CONSTANTS
  Vars,     \* addresses an ir_var_t can have
  Codes,    \* addresses an ir_code_t can have
  Insns,    \* addresses an ir_insn_t can have
  Slots,    \* operand positions of an instruction that is not a phi
  Const,    \* an operand that reads no variable
  None      \* no operand, no block, no destination

ASSUME IrFuncAssumption ==
  /\ Const \notin Vars
  /\ None \notin Vars \union {Const}
  /\ None \notin Codes

VARIABLES
  codes,        \* the blocks of code_list
  vars,         \* the variables of vars_list
  args,         \* the variables with arg_index >= 0
  insn,         \* the contents of every instruction, "free" if there is none
  order,        \* <<i, j>>: i comes before j in the instruction list of a block
  used_at,      \* ir_var_t.used_at
  assigned_at,  \* ir_var_t.assigned_at
  pred,         \* ir_code_t.pred
  succ,         \* ir_code_t.succ
  enforce_ssa,  \* ir_func_t.enforce_ssa
  deleting,     \* where ir_code_delete is, with the successors and phis to visit
  halted        \* TRUE once the library has called abort()

graph == <<insn, order, used_at, assigned_at>>
flow == <<pred, succ>>
decls == <<codes, vars, args, enforce_ssa>>
ctl == <<deleting, halted>>
funcVars == <<graph, flow, decls, ctl>>

Values == Vars \union {Const, None}
Kinds == {"plain", "phi", "jump", "branch", "return", "free"}
Jumps == {"jump", "branch"}

\* Is a jump, branch or return?
ir_is_jbr(kind) == kind \in {"jump", "branch", "return"}

InsnType ==
  {r \in [kind : Kinds, code : Codes \union {None}, arg : [Slots -> Values],
          bind : [Codes -> Values], target : Codes \union {None}, dest : Vars \union {None}] :
     (r.kind \in Jumps <=> r.target # None) /\ (r.kind = "phi" => r.dest # None)}

NoArgs == [s \in Slots |-> None]
NoBinds == [c \in Codes |-> None]
MkInsn(kind, code, arg, bind, target, dest) ==
  [kind |-> kind, code |-> code, arg |-> arg, bind |-> bind, target |-> target, dest |-> dest]
Blank == MkInsn("free", None, NoArgs, NoBinds, None, None)
NotDeleting == [code |-> None, succs |-> {}, phis |-> {}]

-----------------------------------------------------------------------------
\* The variables an instruction reads (IR_FOR_OPERAND_VARS over its operands).
VarsOf(r) == {v \in Vars : \/ \E s \in Slots : r.arg[s] = v
                           \/ \E c \in Codes : r.bind[c] = v}

Live == {i \in Insns : insn[i].kind # "free"}
Body(c) == {i \in Live : insn[i].code = c}
Phis(c) == {i \in Body(c) : insn[i].kind = "phi"}

\* The insertion points of a block: the instructions that stay in front.
Cuts(c) == {S \in SUBSET Body(c) :
              \A j \in S, k \in Body(c) : <<k, j>> \in order => k \in S}

\* Mutant: only appending behind a jump is refused, prepending one is not.
MayPlaceAppendOnly(kind, c, S) ==
  ir_is_jbr(kind) \/ \A p \in S : (\A k \in S \ {p} : <<k, p>> \in order) => ~ ir_is_jbr(insn[p].kind)

\* The placement check of ir_emplace_insn.  Only the neighbours are looked at.
MayPlace(kind, c, S) ==
  LET isPrev(p) == p \in S /\ \A k \in S \ {p} : <<k, p>> \in order
      isNext(n) == n \in Body(c) \ S /\ \A k \in (Body(c) \ S) \ {n} : <<n, k>> \in order
  IN  IF ir_is_jbr(kind)
        THEN \A n \in Body(c) : isNext(n) => ir_is_jbr(insn[n].kind)
        ELSE \A p \in Body(c) : isPrev(p) => ~ ir_is_jbr(insn[p].kind)

\* Mutant: the check forgets that an argument is assigned by the caller.
MayAssignToArg(d) == d # None /\ enforce_ssa => assigned_at[d] = {}

\* The SSA check of ir_create_insn and ir_add_combinator.
MayAssign(d) == d # None /\ enforce_ssa => assigned_at[d] = {} /\ d \notin args

\* Mutant: a deleted instruction stays in the sets of writers.
UnassignNothing(a, f, D) == a

\* Marking and unmarking an instruction as a reader of its operands, and as the
\* writer of its destination.
ir_mark_used(u, i, r) == [v \in Vars |-> IF v \in VarsOf(r) THEN u[v] \union {i} ELSE u[v]]
ir_unmark_used(u, f, D) == [v \in Vars |-> u[v] \ {i \in D : v \in VarsOf(f[i])}]
Unassign(a, f, D) == [v \in Vars |-> a[v] \ {i \in D : f[i].dest = v}]
Erase(f, D) == [i \in Insns |-> IF i \in D THEN Blank ELSE f[i]]
Unlink(o, D) == {e \in o : e[1] \notin D /\ e[2] \notin D}

\* ir_insn_delete of every instruction in D, for instruction contents f, readers
\* u and writers a.
DeleteFrom(f, u, a, D) ==
  /\ insn' = Erase(f, D)
  /\ used_at' = ir_unmark_used(u, f, D)
  /\ assigned_at' = Unassign(a, f, D)
  /\ order' = Unlink(order, D)

\* The loop of ir_var_replace: the instructions listed as readers of x get o
\* instead, and are recorded again for every variable they still read.
Subst(r, x, o) ==
  MkInsn(r.kind, r.code,
         [s \in Slots |-> IF r.arg[s] = x THEN o ELSE r.arg[s]],
         [c \in Codes |-> IF r.bind[c] = x THEN o ELSE r.bind[c]],
         r.target, r.dest)
ReplaceIn(f, u, x, o) == [i \in Insns |-> IF i \in u[x] THEN Subst(f[i], x, o) ELSE f[i]]
Remark(u, f, x, o) ==
  [v \in Vars |-> IF v = x THEN {}
                  ELSE u[v] \union {i \in u[x] : v \in VarsOf(Subst(f[i], x, o))}]

-----------------------------------------------------------------------------
Idle == deleting = NotDeleting /\ ~ halted

Operands == vars \union {Const}

\* ir_var_create; isArg says that a front end then makes it a function argument.
ir_var_create(v, isArg) ==
  /\ Idle /\ v \notin vars
  /\ vars' = vars \union {v}
  /\ args' = IF isArg THEN args \union {v} ELSE args
  /\ UNCHANGED <<graph, flow, codes, enforce_ssa, ctl>>

\* ir_var_delete also deletes every instruction that reads or writes the variable.
ir_var_delete(v) ==
  /\ Idle /\ v \in vars
  /\ DeleteFrom(insn, used_at, assigned_at, used_at[v] \union assigned_at[v])
  /\ vars' = vars \ {v}
  /\ args' = args \ {v}
  /\ UNCHANGED <<flow, codes, enforce_ssa, ctl>>

ir_var_replace(x, o) ==
  /\ Idle /\ x \in vars /\ o \in Operands /\ o # x
  /\ insn' = ReplaceIn(insn, used_at, x, o)
  /\ used_at' = Remark(used_at, insn, x, o)
  /\ UNCHANGED <<order, assigned_at, flow, decls, ctl>>

ir_code_create(c) ==
  /\ Idle /\ c \notin codes
  /\ codes' = codes \union {c}
  /\ UNCHANGED <<graph, flow, vars, args, enforce_ssa, ctl>>

ir_insn_delete(i) ==
  /\ Idle /\ i \in Live
  /\ DeleteFrom(insn, used_at, assigned_at, {i})
  /\ UNCHANGED <<flow, decls, ctl>>

\* Mutant: the old variable is unmarked last, whatever the other operands read.
UnmarkOldLast(i, r, old) ==
  /\ Idle /\ i \in Live
  /\ insn' = [insn EXCEPT ![i] = r]
  /\ used_at' = [v \in Vars |-> IF v = old THEN used_at[v] \ {i} ELSE ir_mark_used(used_at, i, r)[v]]
  /\ UNCHANGED <<order, assigned_at, flow, decls, ctl>>

\* ir_insn_set_operand for a position that holds an operand: the old variable is
\* unmarked and the instruction marked again for all it still reads.
ir_insn_set_operand(i, r, old) ==
  /\ Idle /\ i \in Live
  /\ insn' = [insn EXCEPT ![i] = r]
  /\ used_at' = ir_mark_used([v \in Vars |-> IF v = old THEN used_at[v] \ {i} ELSE used_at[v]], i, r)
  /\ UNCHANGED <<order, assigned_at, flow, decls, ctl>>

SetOperand(i, s, o) ==
  /\ insn[i].arg[s] # None /\ o \in Operands
  /\ ir_insn_set_operand(i, [insn[i] EXCEPT !.arg = [@ EXCEPT ![s] = o]], insn[i].arg[s])

SetBinding(i, c, o) ==
  /\ insn[i].bind[c] # None /\ o \in Operands
  /\ ir_insn_set_operand(i, [insn[i] EXCEPT !.bind = [@ EXCEPT ![c] = o]], insn[i].bind[c])

\* ir_insn_set_return; the callers pass a variable they have just created.
ir_insn_set_return(i, d) ==
  /\ Idle /\ i \in Live /\ insn[i].dest # None
  /\ d \in vars \ args /\ assigned_at[d] = {}
  /\ insn' = [insn EXCEPT ![i].dest = d]
  /\ assigned_at' = [v \in Vars |-> IF v = d THEN {i} ELSE assigned_at[v] \ {i}]
  /\ UNCHANGED <<order, used_at, flow, decls, ctl>>

\* ir_create_insn, ir_add_combinator and ir_emplace_insn: instruction i with
\* contents r goes behind the instructions in S.
ir_create_insn(i, r, S) ==
  /\ Idle /\ i \notin Live
  /\ r.code \in codes /\ S \in Cuts(r.code) /\ MayPlace(r.kind, r.code, S)
  /\ MayAssign(r.dest)
  /\ insn' = [insn EXCEPT ![i] = r]
  /\ order' = order \union (S \X {i}) \union ({i} \X (Body(r.code) \ S))
  /\ used_at' = ir_mark_used(used_at, i, r)
  /\ assigned_at' = [v \in Vars |-> IF v = r.dest THEN assigned_at[v] \union {i} ELSE assigned_at[v]]
  /\ UNCHANGED <<decls, ctl>>

\* Expressions, loads, stores, calls: any operands, and a destination or none.
ir_add_plain(i, c, S, a, d) ==
  /\ a \in [Slots -> Operands \union {None}]
  /\ ir_create_insn(i, MkInsn("plain", c, a, NoBinds, None, d), S)
  /\ UNCHANGED flow

\* A phi is placed with the other phis and binds every predecessor; the library
\* makes one only where there are two or more.
ir_add_combinator(i, c, S, b, d) ==
  /\ \E p, q \in pred[c] : p # q
  /\ \A p \in Codes : IF p \in pred[c] THEN b[p] \in Operands ELSE b[p] = None
  /\ S \subseteq Phis(c)
  /\ ir_create_insn(i, MkInsn("phi", c, NoArgs, b, None, d), S)
  /\ UNCHANGED flow

AddEdge(c, t) ==
  /\ succ' = [succ EXCEPT ![c] = @ \union {t}]
  /\ pred' = [pred EXCEPT ![t] = @ \union {c}]

ir_add_jump(i, c, S, t) ==
  /\ t \in codes
  /\ ir_create_insn(i, MkInsn("jump", c, NoArgs, NoBinds, t, None), S)
  /\ AddEdge(c, t)

ir_add_branch(i, c, S, s, cond, t) ==
  /\ t \in codes /\ cond \in Operands
  /\ ir_create_insn(i, MkInsn("branch", c, [NoArgs EXCEPT ![s] = cond], NoBinds, t, None), S)
  /\ AddEdge(c, t)

ir_add_return(i, c, S, a) ==
  /\ a \in [Slots -> Operands \union {None}]
  /\ ir_create_insn(i, MkInsn("return", c, a, NoBinds, None, None), S)
  /\ UNCHANGED flow

Targets(c) == {insn[i].target : i \in {j \in Body(c) : insn[j].kind \in Jumps}}

ir_func_recalc_flow ==
  /\ Idle
  /\ succ' = [c \in Codes |-> IF c \in codes THEN Targets(c) ELSE succ[c]]
  /\ pred' = [t \in Codes |-> IF t \in codes THEN {c \in codes : t \in Targets(c)} ELSE pred[t]]
  /\ UNCHANGED <<graph, decls, ctl>>

-----------------------------------------------------------------------------
(* ir_code_delete, in the order of its loops: the jumps to the block, then   *)
(* for each successor the phis one by one, then the block itself.  Nothing   *)
(* else of the library runs in between.                                      *)

ir_code_delete(c) ==
  /\ Idle /\ c \in codes
  /\ DeleteFrom(insn, used_at, assigned_at,
                {j \in Live : insn[j].kind \in Jumps /\ insn[j].target = c /\ insn[j].code \in pred[c]})
  /\ succ' = [p \in Codes |-> IF p \in pred[c] THEN succ[p] \ {c} ELSE succ[p]]
  /\ deleting' = [code |-> c, succs |-> succ'[c], phis |-> {}]
  /\ UNCHANGED <<pred, decls, halted>>

\* Mutant: every instruction of the successor is taken for a phi.
CodeDeleteSuccAnyInsn(s) ==
  /\ deleting.code # None /\ ~ halted
  /\ deleting.phis = {} /\ s \in deleting.succs
  /\ pred' = [pred EXCEPT ![s] = @ \ {deleting.code}]
  /\ deleting' = [deleting EXCEPT !.succs = @ \ {s}, !.phis = Body(s)]
  /\ UNCHANGED <<graph, succ, decls, halted>>

\* The next successor, in the arbitrary order of a hash set of pointers.
CodeDeleteSucc(s) ==
  /\ deleting.code # None /\ ~ halted
  /\ deleting.phis = {} /\ s \in deleting.succs
  /\ pred' = [pred EXCEPT ![s] = @ \ {deleting.code}]
  /\ deleting' = [deleting EXCEPT !.succs = @ \ {s}, !.phis = Phis(s)]
  /\ UNCHANGED <<graph, succ, decls, halted>>

\* What remove_combinator_path leaves of phi i: f1 and u1 after the binding is
\* gone, and the bindings that remain.
WithoutPath(i, c) == [insn EXCEPT ![i].bind[c] = None]
\* Mutant: the removed path stays marked.
UsedStaysMarked(i, c) == used_at

UsedWithoutPath(i, c) ==
  [v \in Vars |-> IF v = insn[i].bind[c] THEN used_at[v] \ {i} ELSE used_at[v]]
OtherPaths(i, c) == {p \in Codes \ {c} : insn[i].bind[p] # None}

\* A phi with one binding left becomes that binding, and is deleted.
CollapsePhi(i, f, u, p) ==
  LET x == f[i].dest  o == f[i].bind[p]
  IN  IF o = x
        THEN /\ halted' = TRUE     \* "asked to be replaced with itself", then abort()
             /\ insn' = f /\ used_at' = u
             /\ UNCHANGED <<order, assigned_at>>
        ELSE /\ DeleteFrom(ReplaceIn(f, u, x, o), Remark(u, f, x, o), assigned_at, {i})
             /\ UNCHANGED halted

\* Mutant: a phi is never turned into its last binding.
NeverCollapse(i, c) ==
  /\ insn' = WithoutPath(i, c) /\ used_at' = UsedWithoutPath(i, c)
  /\ UNCHANGED <<order, assigned_at, halted>>

remove_combinator_path(i, c) ==
  LET f1 == WithoutPath(i, c)
      u1 == UsedWithoutPath(i, c)
  IN  \/ \E p \in OtherPaths(i, c) :
           OtherPaths(i, c) = {p} /\ CollapsePhi(i, f1, u1, p)
      \/ /\ \A p \in OtherPaths(i, c) : OtherPaths(i, c) # {p}
         /\ insn' = f1 /\ used_at' = u1
         /\ UNCHANGED <<order, assigned_at, halted>>

\* The next phi of the current successor, in list order.
CodeDeletePhi(i) ==
  /\ ~ halted
  /\ i \in deleting.phis /\ \A k \in deleting.phis \ {i} : <<i, k>> \in order
  /\ remove_combinator_path(i, deleting.code)
  /\ deleting' = [deleting EXCEPT !.phis = @ \ {i}]
  /\ UNCHANGED <<flow, decls>>

CodeDeleteEnd ==
  LET c == deleting.code
  IN  /\ c # None /\ deleting.succs = {} /\ deleting.phis = {} /\ ~ halted
      /\ DeleteFrom(insn, used_at, assigned_at, Body(c))
      /\ codes' = codes \ {c}
      /\ pred' = [pred EXCEPT ![c] = {}]
      /\ succ' = [succ EXCEPT ![c] = {}]
      /\ deleting' = NotDeleting
      /\ UNCHANGED <<vars, args, enforce_ssa, halted>>

-----------------------------------------------------------------------------
Init ==
  /\ codes = {} /\ vars = {} /\ args = {}
  /\ insn = [i \in Insns |-> Blank]
  /\ order = {}
  /\ used_at = [v \in Vars |-> {}]
  /\ assigned_at = [v \in Vars |-> {}]
  /\ pred = [c \in Codes |-> {}]
  /\ succ = [c \in Codes |-> {}]
  /\ enforce_ssa \in BOOLEAN     \* "function" and "ssa_function" of the IR text
  /\ deleting = NotDeleting
  /\ halted = FALSE

Declare ==
  \/ \E v \in Vars, isArg \in BOOLEAN : ir_var_create(v, isArg)
  \/ \E c \in Codes : ir_code_create(c)

Build ==
  \E i \in Insns \ Live, c \in codes : \E S \in Cuts(c) :
    \/ \E a \in [Slots -> Operands \union {None}] :
         \/ \E d \in vars \union {None} : ir_add_plain(i, c, S, a, d)
         \/ ir_add_return(i, c, S, a)
    \/ \E b \in [Codes -> Operands \union {None}], d \in vars : ir_add_combinator(i, c, S, b, d)
    \/ \E t \in codes : ir_add_jump(i, c, S, t)
    \/ \E s \in Slots, t \in codes, cond \in Operands : ir_add_branch(i, c, S, s, cond, t)

Edit ==
  \/ \E v \in vars : ir_var_delete(v)
  \/ \E x \in vars, o \in Operands : ir_var_replace(x, o)
  \/ \E i \in Live :
       \/ ir_insn_delete(i)
       \/ \E s \in Slots, o \in Operands : SetOperand(i, s, o)
       \/ \E c \in Codes, o \in Operands : SetBinding(i, c, o)
       \/ \E d \in vars : ir_insn_set_return(i, d)
  \/ ir_func_recalc_flow

DeleteCode ==
  \/ \E c \in codes : ir_code_delete(c)
  \/ \E s \in Codes : CodeDeleteSucc(s)
  \/ \E i \in Insns : CodeDeletePhi(i)
  \/ CodeDeleteEnd

Next == Declare \/ Build \/ Edit \/ DeleteCode

Spec == Init /\ [][Next]_funcVars

-----------------------------------------------------------------------------
TypeOK ==
  /\ codes \subseteq Codes /\ vars \subseteq Vars /\ args \subseteq Vars
  /\ insn \in [Insns -> InsnType]
  /\ order \subseteq Insns \X Insns
  /\ used_at \in [Vars -> SUBSET Insns] /\ assigned_at \in [Vars -> SUBSET Insns]
  /\ pred \in [Codes -> SUBSET Codes] /\ succ \in [Codes -> SUBSET Codes]
  /\ enforce_ssa \in BOOLEAN /\ halted \in BOOLEAN
  /\ deleting \in [code : Codes \union {None}, succs : SUBSET Codes, phis : SUBSET Insns]
  /\ \A i \in deleting.phis : insn[i].kind = "phi"

\* No set of readers holds an instruction that was freed or that no longer reads
\* the variable.  ir_var_replace loops until the set is empty and follows its
\* pointers, so a stale entry is a use after free or a loop without end.
UsedAtSound ==
  \A v \in Vars : \A i \in used_at[v] : i \in Live /\ v \in VarsOf(insn[i])

\* Every instruction but a phi is recorded at each variable it reads: deleting or
\* replacing the variable finds all of them.  Of a phi it is not true:
\* remove_combinator_path unmarks the variable of the path it removes although
\* another path may bind it too, and does not mark again what is left, as
\* ir_insn_set_operand does.
UsedAtComplete ==
  \A i \in Live : insn[i].kind # "phi" => \A v \in VarsOf(insn[i]) : i \in used_at[v]

\* The writers of a variable are exactly the instructions with it as destination.
AssignedAtExact ==
  \A v \in Vars : assigned_at[v] = {i \in Live : insn[i].dest = v}

\* No instruction outlives the variable it writes.
DestsExist == \A i \in Live : insn[i].dest \in vars \union {None}

\* An instruction belongs to a block that exists, every jump has its edge in succ,
\* and succ and pred are inverses, so ir_code_delete finds all jumps to its block.
FlowConsistent ==
  /\ \A i \in Live : insn[i].code \in codes
  /\ \A i \in Live : insn[i].kind \in Jumps => insn[i].target \in succ[insn[i].code]
  /\ \A c \in Codes : succ[c] \subseteq codes \ {deleting.code}
  /\ \A a, b \in Codes \ {deleting.code} : b \in succ[a] <=> a \in pred[b]
  /\ deleting.code # None =>
       \A b \in Codes \ {deleting.code} : b \in deleting.succs <=> deleting.code \in pred[b]
  /\ \A c \in Codes \ codes : pred[c] = {} /\ succ[c] = {}

\* Static single assignment survives every operation on a function in that form.
SsaForm ==
  enforce_ssa => \A v \in Vars :
                   /\ \A i, j \in assigned_at[v] : i = j
                   /\ v \in args => assigned_at[v] = {}

\* The list of a block is a total order in which nothing but jumps, branches and
\* returns follows one of them, although placement looks at neighbours only.
JumpsLast ==
  /\ \A e \in order : /\ e[1] \in Live /\ e[2] \in Live /\ e[1] # e[2]
                      /\ insn[e[1]].code = insn[e[2]].code
                      /\ <<e[2], e[1]>> \notin order
  /\ \A i, j \in Live : i # j /\ insn[i].code = insn[j].code => <<i, j>> \in order \/ <<j, i>> \in order
  /\ \A d, e \in order : d[2] = e[1] => <<d[1], e[2]>> \in order
  /\ \A e \in order : ir_is_jbr(insn[e[1]].kind) => ir_is_jbr(insn[e[2]].kind)

\* Functions stay well formed through every order of edits: blocks are lists with
\* their jumps last (ir.c:838), and ir_var_delete leaves no result behind (ir.c:517).
WellFormed == DestsExist /\ JumpsLast

\* A phi never has fewer than two bindings, the state in which ir_insn_delete's
\* assertion on operands_len would fail.
PhisHavePaths ==
  ~ halted => \A i \in Live : insn[i].kind = "phi" =>
                \E p, q \in Codes : p # q /\ insn[i].bind[p] # None /\ insn[i].bind[q] # None

\* What the message before abort() in ir_var_replace calls a bug, a variable
\* replaced with itself, is never asked for.  It fails when ir_code_delete takes
\* away the last way into a loop whose phi keeps its own value.
NeverHalts == ~ halted
=============================================================================
