------------------------------ MODULE IrProofs ------------------------------
(***************************************************************************)
(* Proofs about IrFunc and IrOptimizer: the cached inverse pointers of an  *)
(* IR function stay right under every sequence of operations, for any      *)
(* number of blocks, variables, instructions and operands.                 *)
(*                                                                         *)
(* The second part is about its blocks: they stay lists with their jumps   *)
(* last, the edges between them stay those of the jumps, and no phi is     *)
(* left with fewer than two paths.  What most operations have in common is *)
(* said once: the instructions of a set go, and of all others the kind,    *)
(* the block and the target stay.                                          *)
(*                                                                         *)
(* The third part is about the passes of IrOptimizer: whatever they make   *)
(* of a function, its sets of readers and writers stay right, its edges    *)
(* stay those of its jumps and its phis keep their paths, for any function *)
(* and any number of rounds.  Most steps are operations of IrFunc and the  *)
(* proofs about it do for them; what is new are the passes that delete or  *)
(* replace many things in one step, and merge_code, which moves a list by  *)
(* hand.                                                                   *)
(*                                                                         *)
(* The fourth part is about what the function does: the course of its      *)
(* effects stays, because whatever goes is passed through by control, or   *)
(* never reached, or a jump to what then comes next.                       *)
(***************************************************************************)
EXTENDS IrOptimizer, FiniteSetTheorems, WellFoundedInduction, TLAPS

USE IrFuncAssumption

-----------------------------------------------------------------------------
(* The operators of IrFunc keep the types of what they are given.          *)

FuncsOK(f, u, a) ==
  f \in [Insns -> InsnType] /\ u \in [Vars -> SUBSET Insns] /\ a \in [Vars -> SUBSET Insns]

\* An instruction without operands is one of the contents an address can have.
LEMMA BlankType == Blank \in InsnType
  BY DEF Blank, MkInsn, InsnType, Kinds, Jumps, NoArgs, NoBinds, Values

\* Replacing a variable leaves well formed contents.
LEMMA SubstType ==
  ASSUME NEW r \in InsnType, NEW x, NEW o \in Values
  PROVE  Subst(r, x, o) \in InsnType
  BY DEF Subst, MkInsn, InsnType

\* Changing the operands keeps contents well formed.
LEMMA SetArgType ==
  ASSUME NEW r \in InsnType, NEW a \in [Slots -> Values]
  PROVE  [r EXCEPT !.arg = a] \in InsnType
  BY DEF InsnType

\* Changing the bindings keeps contents well formed.
LEMMA SetBindType ==
  ASSUME NEW r \in InsnType, NEW b \in [Codes -> Values]
  PROVE  [r EXCEPT !.bind = b] \in InsnType
  BY DEF InsnType

\* Changing the destination keeps contents well formed.
LEMMA SetDestType ==
  ASSUME NEW r \in InsnType, NEW d \in Vars
  PROVE  [r EXCEPT !.dest = d] \in InsnType
  BY DEF InsnType

\* ir_insn_delete keeps the types.
LEMMA DeleteFromType ==
  ASSUME TypeOK, NEW f, NEW u, NEW a, NEW D, FuncsOK(f, u, a), DeleteFrom(f, u, a, D)
  PROVE  FuncsOK(insn', used_at', assigned_at') /\ order' \subseteq Insns \X Insns
  <1>1. insn' \in [Insns -> InsnType]
    BY BlankType DEF DeleteFrom, Erase, FuncsOK
  <1>2. used_at' \in [Vars -> SUBSET Insns] /\ assigned_at' \in [Vars -> SUBSET Insns]
    BY DEF DeleteFrom, ir_unmark_used, Unassign, FuncsOK
  <1>3. order' \subseteq Insns \X Insns
    BY DEF DeleteFrom, Unlink, TypeOK
  <1> QED BY <1>1, <1>2, <1>3 DEF FuncsOK

\* ir_var_replace keeps the types.
LEMMA ReplaceType ==
  ASSUME NEW f, NEW u, NEW a, FuncsOK(f, u, a), NEW x \in Vars, NEW o \in Values
  PROVE  FuncsOK(ReplaceIn(f, u, x, o), Remark(u, f, x, o), a)
  BY SubstType DEF FuncsOK, ReplaceIn, Remark

\* Replacing a variable changes operands and bindings only.
LEMMA ReplaceKeeps ==
  ASSUME NEW f, NEW u, NEW x, NEW o, NEW k \in Insns, f[k] \in InsnType
  PROVE  LET r == ReplaceIn(f, u, x, o)[k]
         IN  /\ r.kind = f[k].kind /\ r.code = f[k].code
             /\ r.target = f[k].target /\ r.dest = f[k].dest
  BY DEF ReplaceIn, Subst, MkInsn, InsnType

\* Removing a path changes that binding only.
LEMMA WithoutPathKeeps ==
  ASSUME TypeOK, NEW i \in Insns, NEW c, NEW k \in Insns
  PROVE  LET r == WithoutPath(i, c)[k]
         IN  /\ r.kind = insn[k].kind /\ r.code = insn[k].code /\ r.arg = insn[k].arg
             /\ r.target = insn[k].target /\ r.dest = insn[k].dest
             /\ \A p \in Codes : r.bind[p] = IF k = i /\ p = c THEN None ELSE insn[k].bind[p]
  <1>1. insn \in [Insns -> InsnType] /\ insn[k] \in InsnType /\ insn[i].bind \in [Codes -> Values]
    BY DEF TypeOK, InsnType
  <1> QED BY <1>1 DEF WithoutPath, InsnType

\* Creating an instruction keeps the types.
LEMMA CreateType ==
  ASSUME TypeOK, NEW i \in Insns, NEW r \in InsnType, NEW S, ir_create_insn(i, r, S)
  PROVE  FuncsOK(insn', used_at', assigned_at') /\ order' \subseteq Insns \X Insns
  <1>1. insn' \in [Insns -> InsnType]
    BY DEF TypeOK, ir_create_insn
  <1>2. used_at' \in [Vars -> SUBSET Insns] /\ assigned_at' \in [Vars -> SUBSET Insns]
    BY DEF TypeOK, ir_create_insn, ir_mark_used
  <1>3. S \subseteq Insns /\ Body(r.code) \subseteq Insns
    BY DEF ir_create_insn, Cuts, Body, Live
  <1>4. order' \subseteq Insns \X Insns
    BY <1>3 DEF TypeOK, ir_create_insn
  <1> QED BY <1>1, <1>2, <1>4 DEF FuncsOK

-----------------------------------------------------------------------------
(* Type correctness.                                                       *)

\* The types of what an instruction's contents, readers and writers are, given
\* those of everything else.
LEMMA TypeFromFuncs ==
  ASSUME TypeOK, Idle, FuncsOK(insn', used_at', assigned_at'), order' \subseteq Insns \X Insns,
         UNCHANGED <<decls, ctl>>, pred' \in [Codes -> SUBSET Codes], succ' \in [Codes -> SUBSET Codes]
  PROVE  TypeOK'
  BY DEF TypeOK, Idle, NotDeleting, FuncsOK, decls, ctl

\* An empty function is well typed.
LEMMA InitType == Init => TypeOK
  <1> SUFFICES ASSUME Init PROVE TypeOK
    OBVIOUS
  <1>1. enforce_ssa \in BOOLEAN /\ halted \in BOOLEAN
    BY Zenon DEF Init
  <1>2. insn \in [Insns -> InsnType]
    BY BlankType DEF Init
  <1> QED BY <1>1, <1>2 DEF Init, TypeOK, NotDeleting

\* New variables and blocks keep the types.
LEMMA DeclareType == TypeOK /\ Declare => TypeOK'
  BY DEF Declare, ir_var_create, ir_code_create, TypeOK, graph, flow, decls, ctl

\* Every way of building creates one instruction, with well formed contents.
LEMMA BuildCreates ==
  ASSUME TypeOK, Build
  PROVE  \E i \in Insns, r \in InsnType : \E S \in SUBSET Insns :
           /\ r.kind # "free" /\ r.dest \in vars \union {None} /\ ir_create_insn(i, r, S)
           /\ pred' \in [Codes -> SUBSET Codes] /\ succ' \in [Codes -> SUBSET Codes]
  <1> DEFINE Goal(i, S) == \E r \in InsnType :
               /\ r.kind # "free" /\ r.dest \in vars \union {None} /\ ir_create_insn(i, r, S)
               /\ pred' \in [Codes -> SUBSET Codes] /\ succ' \in [Codes -> SUBSET Codes]
  <1> PICK i \in Insns \ Live, c \in codes, S \in SUBSET Insns :
        \/ \E a \in [Slots -> Operands \union {None}] :
             \/ \E d \in vars \union {None} : ir_add_plain(i, c, S, a, d)
             \/ ir_add_return(i, c, S, a)
        \/ \E b \in [Codes -> Operands \union {None}], d \in vars : ir_add_combinator(i, c, S, b, d)
        \/ \E t \in codes : ir_add_jump(i, c, S, t)
        \/ \E s \in Slots, t \in codes, cond \in Operands : ir_add_branch(i, c, S, s, cond, t)
    BY DEF Build, Cuts, Body, Live
  <1>0. /\ Operands \union {None} \subseteq Values /\ vars \subseteq Vars
        /\ codes \subseteq Codes
        /\ NoArgs \in [Slots -> Values] /\ NoBinds \in [Codes -> Values]
    BY DEF TypeOK, Operands, Values, NoArgs, NoBinds
  <1>a. UNCHANGED flow => pred' \in [Codes -> SUBSET Codes] /\ succ' \in [Codes -> SUBSET Codes]
    BY DEF TypeOK, flow
  <1>b. \A t \in codes : AddEdge(c, t) =>
          pred' \in [Codes -> SUBSET Codes] /\ succ' \in [Codes -> SUBSET Codes]
    BY <1>0 DEF TypeOK, AddEdge
  <1>1. ASSUME NEW a \in [Slots -> Operands \union {None}], NEW d \in vars \union {None}, ir_add_plain(i, c, S, a, d)
        PROVE  Goal(i, S)
    <2>1. MkInsn("plain", c, a, NoBinds, None, d) \in InsnType
      BY <1>0 DEF MkInsn, InsnType, Kinds, Jumps
    <2>2. MkInsn("plain", c, a, NoBinds, None, d).kind # "free"
          /\ MkInsn("plain", c, a, NoBinds, None, d).dest \in vars \union {None}
      BY DEF MkInsn
    <2> QED BY <1>a, <1>1, <2>1, <2>2 DEF ir_add_plain
  <1>2. ASSUME NEW a \in [Slots -> Operands \union {None}], ir_add_return(i, c, S, a)
        PROVE  Goal(i, S)
    <2>1. MkInsn("return", c, a, NoBinds, None, None) \in InsnType
      BY <1>0 DEF MkInsn, InsnType, Kinds, Jumps
    <2>2. MkInsn("return", c, a, NoBinds, None, None).kind # "free"
          /\ MkInsn("return", c, a, NoBinds, None, None).dest \in vars \union {None}
      BY DEF MkInsn
    <2> QED BY <1>a, <1>2, <2>1, <2>2 DEF ir_add_return
  <1>3. ASSUME NEW b \in [Codes -> Operands \union {None}], NEW d \in vars, ir_add_combinator(i, c, S, b, d)
        PROVE  Goal(i, S)
    <2>1. MkInsn("phi", c, NoArgs, b, None, d) \in InsnType
      BY <1>0 DEF MkInsn, InsnType, Kinds, Jumps
    <2>2. MkInsn("phi", c, NoArgs, b, None, d).kind # "free"
          /\ MkInsn("phi", c, NoArgs, b, None, d).dest \in vars \union {None}
      BY DEF MkInsn
    <2> QED BY <1>a, <1>3, <2>1, <2>2 DEF ir_add_combinator
  <1>4. ASSUME NEW t \in codes, ir_add_jump(i, c, S, t)
        PROVE  Goal(i, S)
    <2>1. MkInsn("jump", c, NoArgs, NoBinds, t, None) \in InsnType
      BY <1>0 DEF MkInsn, InsnType, Kinds, Jumps
    <2>2. MkInsn("jump", c, NoArgs, NoBinds, t, None).kind # "free"
          /\ MkInsn("jump", c, NoArgs, NoBinds, t, None).dest \in vars \union {None}
      BY DEF MkInsn
    <2> QED BY <1>b, <1>4, <2>1, <2>2 DEF ir_add_jump
  <1>5. ASSUME NEW s \in Slots, NEW t \in codes, NEW cond \in Operands, ir_add_branch(i, c, S, s, cond, t)
        PROVE  Goal(i, S)
    <2>1. MkInsn("branch", c, [NoArgs EXCEPT ![s] = cond], NoBinds, t, None) \in InsnType
      BY <1>0 DEF MkInsn, InsnType, Kinds, Jumps
    <2>2. MkInsn("branch", c, [NoArgs EXCEPT ![s] = cond], NoBinds, t, None).kind # "free"
          /\ MkInsn("branch", c, [NoArgs EXCEPT ![s] = cond], NoBinds, t, None).dest \in vars \union {None}
      BY DEF MkInsn
    <2> QED BY <1>b, <1>5, <2>1, <2>2 DEF ir_add_branch
  <1> QED BY <1>1, <1>2, <1>3, <1>4, <1>5

\* Building keeps the types.
LEMMA BuildType == TypeOK /\ Build => TypeOK'
  <1> SUFFICES ASSUME TypeOK, Build PROVE TypeOK'
    OBVIOUS
  <1> PICK i \in Insns, r \in InsnType, S \in SUBSET Insns :
        /\ ir_create_insn(i, r, S)
        /\ pred' \in [Codes -> SUBSET Codes] /\ succ' \in [Codes -> SUBSET Codes]
    BY BuildCreates
  <1> QED BY CreateType, TypeFromFuncs DEF ir_create_insn

\* Editing keeps the types.
LEMMA EditType == TypeOK /\ Edit => TypeOK'
  <1> SUFFICES ASSUME TypeOK, Edit PROVE TypeOK'
    OBVIOUS
  <1>0. vars \subseteq Vars /\ Operands \subseteq Values /\ FuncsOK(insn, used_at, assigned_at)
    BY DEF TypeOK, Operands, Values, FuncsOK
  <1>1. ASSUME NEW v \in vars, ir_var_delete(v) PROVE TypeOK'
    <2>1. FuncsOK(insn', used_at', assigned_at') /\ order' \subseteq Insns \X Insns
      BY <1>0, <1>1, DeleteFromType DEF ir_var_delete
    <2> QED BY <1>1, <2>1 DEF ir_var_delete, Idle, NotDeleting, TypeOK, FuncsOK, flow, ctl
  <1>2. ASSUME NEW x \in vars, NEW o \in Operands, ir_var_replace(x, o) PROVE TypeOK'
    <2>1. FuncsOK(insn', used_at', assigned_at')
      BY <1>0, <1>2, ReplaceType DEF ir_var_replace
    <2> QED BY <1>2, <2>1, TypeFromFuncs DEF ir_var_replace, TypeOK, flow
  <1>3. ASSUME NEW i \in Live, ir_insn_delete(i) PROVE TypeOK'
    <2>1. FuncsOK(insn', used_at', assigned_at') /\ order' \subseteq Insns \X Insns
      BY <1>0, <1>3, DeleteFromType DEF ir_insn_delete
    <2> QED BY <1>3, <2>1, TypeFromFuncs DEF ir_insn_delete, TypeOK, flow
  <1>4. ASSUME NEW i \in Live, NEW r \in InsnType, NEW old, ir_insn_set_operand(i, r, old)
        PROVE  TypeOK'
    <2>1. FuncsOK(insn', used_at', assigned_at')
      BY <1>4 DEF ir_insn_set_operand, ir_mark_used, TypeOK, FuncsOK, Live
    <2> QED BY <1>4, <2>1, TypeFromFuncs DEF ir_insn_set_operand, TypeOK, flow
  <1>5. ASSUME NEW i \in Live, NEW s \in Slots, NEW o \in Operands, SetOperand(i, s, o)
        PROVE  TypeOK'
    <2>a. insn[i] \in InsnType
      BY <1>0 DEF FuncsOK, Live
    <2>b. insn[i].arg \in [Slots -> Values]
      BY <2>a DEF InsnType
    <2>0. [insn[i].arg EXCEPT ![s] = o] \in [Slots -> Values]
      BY <1>0, <2>b
    <2>1. [insn[i] EXCEPT !.arg = [@ EXCEPT ![s] = o]] \in InsnType
      BY <2>a, <2>0, SetArgType
    <2> QED BY <1>4, <1>5, <2>1 DEF SetOperand
  <1>6. ASSUME NEW i \in Live, NEW c \in Codes, NEW o \in Operands, SetBinding(i, c, o)
        PROVE  TypeOK'
    <2>a. insn[i] \in InsnType
      BY <1>0 DEF FuncsOK, Live
    <2>b. insn[i].bind \in [Codes -> Values]
      BY <2>a DEF InsnType
    <2>0. [insn[i].bind EXCEPT ![c] = o] \in [Codes -> Values]
      BY <1>0, <2>b
    <2>1. [insn[i] EXCEPT !.bind = [@ EXCEPT ![c] = o]] \in InsnType
      BY <2>a, <2>0, SetBindType
    <2> QED BY <1>4, <1>6, <2>1 DEF SetBinding
  <1>7. ASSUME NEW i \in Live, NEW d \in vars, ir_insn_set_return(i, d) PROVE TypeOK'
    <2>1. [insn[i] EXCEPT !.dest = d] \in InsnType
      BY <1>0 DEF FuncsOK, InsnType, Live
    <2>2. FuncsOK(insn', used_at', assigned_at')
      BY <1>7, <2>1, <1>0 DEF ir_insn_set_return, FuncsOK, Live
    <2> QED BY <1>7, <2>2, TypeFromFuncs DEF ir_insn_set_return, TypeOK, flow
  <1>8. CASE ir_func_recalc_flow
    <2>2. \A c \in Codes : Targets(c) \subseteq Codes
      BY DEF Targets, Body, Live, TypeOK, InsnType
    <2> QED BY <1>8, <2>2 DEF ir_func_recalc_flow, TypeOK, graph, decls, ctl
  <1> QED BY <1>1, <1>2, <1>3, <1>5, <1>6, <1>7, <1>8 DEF Edit

\* Each step of ir_code_delete keeps the types.
LEMMA DeleteCodeType == TypeOK /\ DeleteCode => TypeOK'
  <1> SUFFICES ASSUME TypeOK, DeleteCode PROVE TypeOK'
    OBVIOUS
  <1>0. FuncsOK(insn, used_at, assigned_at)
    BY DEF TypeOK, FuncsOK
  <1>1. ASSUME NEW c \in codes, ir_code_delete(c) PROVE TypeOK'
    <2>1. FuncsOK(insn', used_at', assigned_at') /\ order' \subseteq Insns \X Insns
      BY <1>0, <1>1, DeleteFromType DEF ir_code_delete
    <2>2. c \in Codes /\ succ' \in [Codes -> SUBSET Codes]
      BY <1>1 DEF ir_code_delete, TypeOK
    <2>3. deleting' \in [code : Codes \union {None}, succs : SUBSET Codes, phis : SUBSET Insns]
      BY <1>1, <2>2 DEF ir_code_delete
    <2> QED BY <1>1, <2>1, <2>2, <2>3 DEF ir_code_delete, TypeOK, FuncsOK, decls
  <1>2. ASSUME NEW s \in Codes, CodeDeleteSucc(s) PROVE TypeOK'
    <2>1. Phis(s) \subseteq Insns
      BY DEF Phis, Body, Live
    <2>2. deleting' \in [code : Codes \union {None}, succs : SUBSET Codes, phis : SUBSET Insns]
      BY <1>2, <2>1 DEF CodeDeleteSucc, TypeOK
    <2>3. \A i \in deleting'.phis : insn'[i].kind = "phi"
      BY <1>2 DEF CodeDeleteSucc, TypeOK, graph, Phis
    <2> QED BY <1>2, <2>2, <2>3 DEF CodeDeleteSucc, TypeOK, graph, decls
  <1>3. ASSUME NEW i \in Insns, CodeDeletePhi(i) PROVE TypeOK'
    <2> DEFINE c == deleting.code  f == WithoutPath(i, c)  u == UsedWithoutPath(i, c)
    <2>0. FuncsOK(f, u, assigned_at)
      <3>1. insn[i] \in InsnType /\ insn[i].bind \in [Codes -> Values]
        BY DEF TypeOK, InsnType
      <3>2. [insn[i].bind EXCEPT ![c] = None] \in [Codes -> Values]
        BY <3>1 DEF Values
      <3>3. f \in [Insns -> InsnType]
        BY <3>1, <3>2, SetBindType, <1>0 DEF WithoutPath, FuncsOK
      <3>4. u \in [Vars -> SUBSET Insns]
        BY <1>0 DEF UsedWithoutPath, FuncsOK
      <3> QED BY <3>3, <3>4, <1>0 DEF FuncsOK
    <2>1. FuncsOK(insn', used_at', assigned_at') /\ order' \subseteq Insns \X Insns /\ halted' \in BOOLEAN
      <3>1. ASSUME NEW p \in OtherPaths(i, c), CollapsePhi(i, f, u, p)
            PROVE  FuncsOK(insn', used_at', assigned_at') /\ order' \subseteq Insns \X Insns /\ halted' \in BOOLEAN
        <4> DEFINE x == f[i].dest  o == f[i].bind[p]
        <4>1. CASE o = x
          BY <3>1, <4>1, <2>0 DEF CollapsePhi, TypeOK, FuncsOK
        <4>2. CASE o # x
          <5>1. f[i] \in InsnType /\ f[i].kind = "phi"
            BY <1>3, <2>0, WithoutPathKeeps DEF FuncsOK, CodeDeletePhi, TypeOK
          <5>2. x \in Vars /\ o \in Values
            BY <5>1 DEF InsnType, OtherPaths
          <5>3. FuncsOK(ReplaceIn(f, u, x, o), Remark(u, f, x, o), assigned_at)
            BY <5>2, <2>0, ReplaceType
          <5>4. /\ DeleteFrom(ReplaceIn(f, u, x, o), Remark(u, f, x, o), assigned_at, {i})
                /\ UNCHANGED halted
            BY <3>1, <4>2 DEF CollapsePhi
          <5> HIDE DEF x, o, f, u
          <5> QED BY <5>3, <5>4, DeleteFromType DEF TypeOK
        <4> QED BY <4>1, <4>2
      <3>2. CASE insn' = f /\ used_at' = u /\ UNCHANGED <<order, assigned_at, halted>>
        BY <3>2, <2>0 DEF TypeOK, FuncsOK
      <3> QED BY <1>3, <3>1, <3>2 DEF CodeDeletePhi, remove_combinator_path
    <2>2. deleting' \in [code : Codes \union {None}, succs : SUBSET Codes, phis : SUBSET Insns]
      BY <1>3 DEF CodeDeletePhi, TypeOK
    <2>3. ASSUME NEW k \in deleting'.phis PROVE insn'[k].kind = "phi"
      <3>1. k \in Insns /\ k # i /\ insn[k].kind = "phi"
        BY <1>3 DEF CodeDeletePhi, TypeOK
      <3>2. f[k].kind = "phi" /\ f[k] \in InsnType
        BY <3>1, <2>0, WithoutPathKeeps DEF FuncsOK
      <3>3. \A x, o : ReplaceIn(f, u, x, o)[k].kind = "phi"
        BY <3>1, <3>2, ReplaceKeeps
      <3>4. insn' = f \/ \E x, o : insn' = Erase(ReplaceIn(f, u, x, o), {i})
        BY <1>3 DEF CodeDeletePhi, remove_combinator_path, CollapsePhi, DeleteFrom
      <3> HIDE DEF f, u
      <3> QED BY <3>1, <3>2, <3>3, <3>4 DEF Erase
    <2> QED BY <1>3, <2>1, <2>2, <2>3 DEF CodeDeletePhi, TypeOK, FuncsOK, flow, decls
  <1>4. CASE CodeDeleteEnd
    <2>1. FuncsOK(insn', used_at', assigned_at') /\ order' \subseteq Insns \X Insns
      BY <1>0, <1>4, DeleteFromType DEF CodeDeleteEnd
    <2> QED BY <1>4, <2>1 DEF CodeDeleteEnd, TypeOK, FuncsOK, NotDeleting
  <1> QED BY <1>1, <1>2, <1>3, <1>4 DEF DeleteCode

\* Every reachable function is well typed: sets of pointers hold pointers to the
\* right kind of object, jumps have targets and phis destinations.
THEOREM TypeCorrect == Spec => []TypeOK
  <1>1. TypeOK /\ [Next]_funcVars => TypeOK'
    <2> SUFFICES ASSUME TypeOK, [Next]_funcVars PROVE TypeOK'
      OBVIOUS
    <2>1. CASE UNCHANGED funcVars
      BY <2>1 DEF funcVars, graph, flow, decls, ctl, TypeOK
    <2> QED BY <2>1, DeclareType, BuildType, EditType, DeleteCodeType DEF Next
  <1> QED BY InitType, <1>1, PTL DEF Spec

-----------------------------------------------------------------------------
(* The sets of readers are sound.                                          *)

\* u lists only readers, for contents f.
Sound(f, u) ==
  \A v \in Vars : \A i \in u[v] : i \in Insns /\ f[i].kind # "free" /\ v \in VarsOf(f[i])

\* Sound is the invariant UsedAtSound, for any contents and readers.
LEMMA SoundIsInv == UsedAtSound <=> Sound(insn, used_at)
  BY DEF UsedAtSound, Sound, Live

\* Deleting instructions unmarks what they read.
LEMMA DeleteSound ==
  ASSUME NEW f, NEW u, NEW a, NEW D, FuncsOK(f, u, a), Sound(f, u), DeleteFrom(f, u, a, D)
  PROVE  Sound(insn', used_at')
  <1> SUFFICES ASSUME NEW v \in Vars, NEW i \in used_at'[v]
               PROVE  i \in Insns /\ insn'[i].kind # "free" /\ v \in VarsOf(insn'[i])
    BY DEF Sound
  <1>1. i \in u[v] /\ ~ (i \in D /\ v \in VarsOf(f[i]))
    BY DEF DeleteFrom, ir_unmark_used
  <1>2. i \in Insns /\ f[i].kind # "free" /\ v \in VarsOf(f[i]) /\ i \notin D
    BY <1>1 DEF Sound
  <1> QED BY <1>2 DEF DeleteFrom, Erase

\* What an instruction reads after a replacement.
LEMMA SubstReads ==
  ASSUME NEW r \in InsnType, NEW x \in Vars, NEW o \in Values, o # x, NEW v \in Vars
  PROVE  /\ v \in VarsOf(Subst(r, x, o)) <=>
              (v # x /\ v \in VarsOf(r)) \/ (v = o /\ x \in VarsOf(r))
         /\ Subst(r, x, o).kind = r.kind
  BY DEF VarsOf, Subst, MkInsn, InsnType

\* Replacing a variable records the instructions at what they read now.
LEMMA ReplaceSound ==
  ASSUME NEW f, NEW u, NEW a, FuncsOK(f, u, a), Sound(f, u),
         NEW x \in Vars, NEW o \in Values, o # x
  PROVE  Sound(ReplaceIn(f, u, x, o), Remark(u, f, x, o))
  <1> DEFINE f2 == ReplaceIn(f, u, x, o)  u2 == Remark(u, f, x, o)
  <1> SUFFICES ASSUME NEW v \in Vars, NEW i \in u2[v]
               PROVE  i \in Insns /\ f2[i].kind # "free" /\ v \in VarsOf(f2[i])
    BY DEF Sound
  <1>1. v # x /\ (i \in u[v] \/ (i \in u[x] /\ v \in VarsOf(Subst(f[i], x, o))))
    BY DEF Remark
  <1>2. i \in Insns /\ f[i].kind # "free" /\ f[i] \in InsnType
    BY <1>1 DEF Sound, FuncsOK
  <1>3. CASE i \in u[x]
    <2>1. f2[i] = Subst(f[i], x, o)
      BY <1>2, <1>3 DEF ReplaceIn
    <2>2. v \in VarsOf(Subst(f[i], x, o))
      BY <1>1, <1>2, SubstReads DEF Sound
    <2> QED BY <1>2, <2>1, <2>2, SubstReads
  <1>4. CASE i \notin u[x]
    BY <1>1, <1>2, <1>4 DEF ReplaceIn, Sound
  <1> QED BY <1>3, <1>4

\* A new instruction is recorded at what it reads.
LEMMA CreateSound ==
  ASSUME TypeOK, Sound(insn, used_at), NEW i \in Insns, NEW r \in InsnType, r.kind # "free",
         NEW S, ir_create_insn(i, r, S)
  PROVE  Sound(insn', used_at')
  BY DEF TypeOK, Sound, ir_create_insn, ir_mark_used, Live

\* Changing one operand keeps the others recorded.
LEMMA SetOperandSound ==
  ASSUME TypeOK, Sound(insn, used_at), NEW i \in Live, NEW r \in InsnType, NEW old,
         r.kind = insn[i].kind, \A v \in VarsOf(insn[i]) : v = old \/ v \in VarsOf(r),
         ir_insn_set_operand(i, r, old)
  PROVE  Sound(insn', used_at')
  BY DEF TypeOK, Sound, ir_insn_set_operand, ir_mark_used, Live, VarsOf

\* A removed path is unmarked.
LEMMA WithoutPathSound ==
  ASSUME TypeOK, Sound(insn, used_at), NEW i \in Insns, NEW c
  PROVE  Sound(WithoutPath(i, c), UsedWithoutPath(i, c))
  <1> DEFINE f == WithoutPath(i, c)  u == UsedWithoutPath(i, c)
  <1> SUFFICES ASSUME NEW v \in Vars, NEW k \in u[v]
               PROVE  k \in Insns /\ f[k].kind # "free" /\ v \in VarsOf(f[k])
    BY DEF Sound
  <1>1. k \in used_at[v] /\ (k = i => v # insn[i].bind[c])
    BY DEF UsedWithoutPath
  <1>2. k \in Insns /\ insn[k].kind # "free" /\ v \in VarsOf(insn[k])
    BY <1>1 DEF Sound
  <1>3. f[k].kind # "free"
    BY <1>2, WithoutPathKeeps
  <1>4. v \in VarsOf(f[k])
    BY <1>1, <1>2, WithoutPathKeeps DEF VarsOf
  <1> QED BY <1>2, <1>3, <1>4

-----------------------------------------------------------------------------
(* The sets of readers are complete except at phis, those of writers exact. *)

Complete(f, u) ==
  \A i \in Insns : f[i].kind \notin {"phi", "free"} => \A v \in VarsOf(f[i]) : i \in u[v]

Exact(f, a) == \A v \in Vars : a[v] = {i \in Insns : f[i].kind # "free" /\ f[i].dest = v}

DefUse(f, u, a) == FuncsOK(f, u, a) /\ Sound(f, u) /\ Complete(f, u) /\ Exact(f, a)

\* Together they are the three invariants of the model.
LEMMA DefUseIsInv ==
  TypeOK => (DefUse(insn, used_at, assigned_at)
               <=> UsedAtSound /\ UsedAtComplete /\ AssignedAtExact)
  BY DEF TypeOK, DefUse, FuncsOK, Sound, Complete, Exact, UsedAtSound, UsedAtComplete,
         AssignedAtExact, Live

\* ir_insn_delete leaves the remaining instructions recorded.
LEMMA DeleteDefUse ==
  ASSUME TypeOK, NEW f, NEW u, NEW a, NEW D, DefUse(f, u, a), DeleteFrom(f, u, a, D)
  PROVE  DefUse(insn', used_at', assigned_at')
  <1>1. FuncsOK(insn', used_at', assigned_at')
    BY DeleteFromType DEF DefUse
  <1>2. Sound(insn', used_at')
    BY DeleteSound DEF DefUse
  <1>3. ASSUME NEW i \in Insns, insn'[i].kind # "free"
        PROVE  i \notin D /\ insn'[i] = f[i]
    BY <1>3 DEF DeleteFrom, Erase, Blank, MkInsn
  <1>4. Complete(insn', used_at')
    <2> SUFFICES ASSUME NEW i \in Insns, insn'[i].kind \notin {"phi", "free"},
                        NEW v \in VarsOf(insn'[i])
                 PROVE  i \in used_at'[v]
      BY DEF Complete
    <2>1. i \notin D /\ insn'[i] = f[i]
      BY <1>3
    <2>2. v \in Vars /\ i \in u[v]
      BY <2>1 DEF DefUse, Complete, VarsOf
    <2> QED BY <2>1, <2>2 DEF DeleteFrom, ir_unmark_used
  <1>5. Exact(insn', assigned_at')
    <2> SUFFICES ASSUME NEW v \in Vars
                 PROVE  assigned_at'[v] = {i \in Insns : insn'[i].kind # "free" /\ insn'[i].dest = v}
      BY DEF Exact
    <2>1. a[v] = {i \in Insns : f[i].kind # "free" /\ f[i].dest = v}
      BY DEF DefUse, Exact
    <2>2. assigned_at'[v] = a[v] \ {i \in D : f[i].dest = v}
      BY DEF DeleteFrom, Unassign
    <2>3. insn' = [i \in Insns |-> IF i \in D THEN Blank ELSE f[i]] /\ Blank.kind = "free"
      BY DEF DeleteFrom, Erase, Blank, MkInsn
    <2> QED BY <2>1, <2>2, <2>3
  <1> QED BY <1>1, <1>2, <1>4, <1>5 DEF DefUse

\* ir_var_replace records every instruction it rewrites.
LEMMA ReplaceDefUse ==
  ASSUME NEW f, NEW u, NEW a, DefUse(f, u, a), NEW x \in Vars, NEW o \in Values, o # x
  PROVE  DefUse(ReplaceIn(f, u, x, o), Remark(u, f, x, o), a)
  <1> DEFINE f2 == ReplaceIn(f, u, x, o)  u2 == Remark(u, f, x, o)
  <1>1. FuncsOK(f2, u2, a) /\ Sound(f2, u2)
    BY ReplaceType, ReplaceSound DEF DefUse
  <1>2. \A i \in Insns : f[i] \in InsnType /\ f2[i].kind = f[i].kind /\ f2[i].dest = f[i].dest
    BY ReplaceKeeps DEF DefUse, FuncsOK
  <1>3. ASSUME NEW i \in Insns, f2[i].kind \notin {"phi", "free"}, NEW v \in VarsOf(f2[i])
        PROVE  i \in u2[v]
    <2>0. v \in Vars
      BY DEF VarsOf
    <2>1. CASE i \in u[x]
      <3>1. f2[i] = Subst(f[i], x, o)
        BY <2>1 DEF ReplaceIn
      <3>2. v # x
        BY <3>1, <1>2, <2>0, SubstReads
      <3> QED BY <2>0, <2>1, <3>1, <3>2 DEF Remark
    <2>2. CASE i \notin u[x]
      <3>1. f2[i] = f[i]
        BY <2>2 DEF ReplaceIn
      <3>2. i \in u[v] /\ v # x
        BY <1>3, <2>0, <2>2, <3>1 DEF DefUse, Complete
      <3> QED BY <2>0, <3>2 DEF Remark
    <2> QED BY <2>1, <2>2
  <1>4. Complete(f2, u2)
    BY <1>3 DEF Complete
  <1>5. Exact(f2, a)
    <2>1. Exact(f, a)
      BY DEF DefUse
    <2> HIDE DEF f2
    <2> SUFFICES ASSUME NEW v \in Vars
                 PROVE  a[v] = {i \in Insns : f2[i].kind # "free" /\ f2[i].dest = v}
      BY DEF Exact
    <2> QED BY <1>2, <2>1 DEF Exact
  <1> QED BY <1>1, <1>4, <1>5 DEF DefUse

\* A new instruction is recorded at its operands and its destination.
LEMMA CreateDefUse ==
  ASSUME TypeOK, DefUse(insn, used_at, assigned_at), NEW i \in Insns, NEW r \in InsnType,
         r.kind # "free", NEW S, ir_create_insn(i, r, S)
  PROVE  DefUse(insn', used_at', assigned_at')
  <1>1. FuncsOK(insn', used_at', assigned_at') /\ Sound(insn', used_at')
    BY CreateType, CreateSound DEF DefUse
  <1>2. Complete(insn', used_at')
    BY DEF DefUse, TypeOK, Complete, ir_create_insn, ir_mark_used, VarsOf
  <1>3. Exact(insn', assigned_at')
    <2>1. insn[i].kind = "free"
      BY DEF ir_create_insn, Live
    <2>2. insn' = [insn EXCEPT ![i] = r]
      BY DEF ir_create_insn
    <2>3. \A v \in Vars : assigned_at'[v] = IF v = r.dest THEN assigned_at[v] \union {i}
                                                           ELSE assigned_at[v]
      BY DEF ir_create_insn
    <2>4. insn \in [Insns -> InsnType] /\ Exact(insn, assigned_at)
      BY DEF DefUse, TypeOK
    <2> SUFFICES ASSUME NEW v \in Vars
                 PROVE  assigned_at'[v] = {k \in Insns : insn'[k].kind # "free" /\ insn'[k].dest = v}
      BY DEF Exact
    <2>5. \A k \in Insns : insn'[k] = IF k = i THEN r ELSE insn[k]
      BY <2>2, <2>4
    <2>6. assigned_at[v] = {k \in Insns : insn[k].kind # "free" /\ insn[k].dest = v}
      BY <2>4 DEF Exact
    <2>7. CASE v = r.dest
      <3>1. assigned_at'[v] = assigned_at[v] \union {i}
        BY <2>3, <2>7
      <3>2. \A k \in Insns : insn'[k].kind # "free" /\ insn'[k].dest = v
                               <=> (insn[k].kind # "free" /\ insn[k].dest = v) \/ k = i
        BY <2>1, <2>5, <2>7
      <3> QED BY <2>6, <3>1, <3>2
    <2>8. CASE v # r.dest
      BY <2>1, <2>3, <2>5, <2>6, <2>8
    <2> QED BY <2>7, <2>8
  <1> QED BY <1>1, <1>2, <1>3 DEF DefUse

\* Changing an operand.
LEMMA SetOperandDefUse ==
  ASSUME TypeOK, DefUse(insn, used_at, assigned_at), NEW i \in Live, NEW r \in InsnType, NEW old,
         r.kind = insn[i].kind, r.dest = insn[i].dest,
         \A v \in VarsOf(insn[i]) : v = old \/ v \in VarsOf(r), ir_insn_set_operand(i, r, old)
  PROVE  DefUse(insn', used_at', assigned_at')
  <1>1. Sound(insn', used_at')
    BY SetOperandSound DEF DefUse
  <1>2. FuncsOK(insn', used_at', assigned_at')
    BY DEF ir_insn_set_operand, ir_mark_used, TypeOK, FuncsOK, Live
  <1>3. Complete(insn', used_at')
    BY DEF DefUse, TypeOK, Complete, ir_insn_set_operand, ir_mark_used, VarsOf, Live
  <1>4. Exact(insn', assigned_at')
    BY DEF DefUse, TypeOK, Exact, ir_insn_set_operand, Live
  <1> QED BY <1>1, <1>2, <1>3, <1>4 DEF DefUse

\* Changing the destination.
LEMMA SetReturnDefUse ==
  ASSUME TypeOK, DefUse(insn, used_at, assigned_at), NEW i \in Live, NEW d \in vars,
         ir_insn_set_return(i, d)
  PROVE  DefUse(insn', used_at', assigned_at')
  <1>1. insn[i] \in InsnType /\ d \in Vars /\ i \in Insns
    BY DEF TypeOK, Live
  <1>2. insn' = [insn EXCEPT ![i] = [insn[i] EXCEPT !.dest = d]] /\ used_at' = used_at
    BY DEF ir_insn_set_return
  <1>3. [insn[i] EXCEPT !.dest = d] \in InsnType
    BY <1>1, SetDestType
  <1>4. /\ VarsOf([insn[i] EXCEPT !.dest = d]) = VarsOf(insn[i])
        /\ [insn[i] EXCEPT !.dest = d].kind = insn[i].kind
        /\ [insn[i] EXCEPT !.dest = d].dest = d
    BY <1>1 DEF VarsOf, InsnType
  <1>5. FuncsOK(insn', used_at', assigned_at')
    BY <1>1, <1>2, <1>3 DEF ir_insn_set_return, DefUse, FuncsOK
  <1>6. Sound(insn', used_at') /\ Complete(insn', used_at')
    BY <1>1, <1>2, <1>4 DEF DefUse, FuncsOK, Sound, Complete
  <1>7. Exact(insn', assigned_at')
    BY <1>1, <1>2, <1>4 DEF ir_insn_set_return, DefUse, FuncsOK, Exact, Live
  <1> QED BY <1>5, <1>6, <1>7 DEF DefUse

\* Removing a path of a phi.
LEMMA WithoutPathDefUse ==
  ASSUME TypeOK, DefUse(insn, used_at, assigned_at), NEW i \in Insns, NEW c, insn[i].kind = "phi"
  PROVE  DefUse(WithoutPath(i, c), UsedWithoutPath(i, c), assigned_at)
  <1> DEFINE f == WithoutPath(i, c)  u == UsedWithoutPath(i, c)
  <1>1. FuncsOK(f, u, assigned_at)
    <2>1. insn[i] \in InsnType /\ insn[i].bind \in [Codes -> Values]
      BY DEF TypeOK, InsnType
    <2>2. [insn[i].bind EXCEPT ![c] = None] \in [Codes -> Values]
      BY <2>1 DEF Values
    <2>3. f \in [Insns -> InsnType]
      BY <2>1, <2>2, SetBindType DEF WithoutPath, TypeOK
    <2>4. u \in [Vars -> SUBSET Insns]
      BY DEF UsedWithoutPath, TypeOK
    <2> QED BY <2>3, <2>4 DEF FuncsOK, TypeOK
  <1>2. Sound(f, u)
    BY WithoutPathSound DEF DefUse
  <1>3. \A k \in Insns : /\ f[k].kind = insn[k].kind /\ f[k].dest = insn[k].dest
                         /\ k # i => f[k] = insn[k]
    BY WithoutPathKeeps DEF WithoutPath, TypeOK
  <1>4. Complete(f, u)
    <2> SUFFICES ASSUME NEW k \in Insns, f[k].kind \notin {"phi", "free"}, NEW v \in VarsOf(f[k])
                 PROVE  k \in u[v]
      BY DEF Complete
    <2>1. k # i /\ f[k] = insn[k] /\ v \in Vars
      BY <1>3 DEF VarsOf
    <2>2. k \in used_at[v]
      BY <2>1 DEF DefUse, Complete
    <2> QED BY <2>1, <2>2 DEF UsedWithoutPath
  <1>5. Exact(f, assigned_at)
    <2>1. Exact(insn, assigned_at)
      BY DEF DefUse
    <2> HIDE DEF f
    <2> SUFFICES ASSUME NEW v \in Vars
                 PROVE  assigned_at[v] = {k \in Insns : f[k].kind # "free" /\ f[k].dest = v}
      BY DEF Exact
    <2> QED BY <1>3, <2>1 DEF Exact
  <1> QED BY <1>1, <1>2, <1>4, <1>5 DEF DefUse

\* The three facts about readers and writers, as one state predicate.
DU == DefUse(insn, used_at, assigned_at)

\* An empty function has no readers and no writers.
LEMMA InitDefUse == Init => DU
  <1> SUFFICES ASSUME Init PROVE DU
    OBVIOUS
  <1>1. FuncsOK(insn, used_at, assigned_at)
    BY BlankType DEF Init, FuncsOK
  <1>2. \A i \in Insns : insn[i].kind = "free"
    BY DEF Init, Blank, MkInsn
  <1>3. Sound(insn, used_at)
    BY DEF Init, Sound
  <1>4. Complete(insn, used_at)
    BY <1>2 DEF Complete
  <1>5. Exact(insn, assigned_at)
    BY <1>2 DEF Init, Exact
  <1> QED BY <1>1, <1>3, <1>4, <1>5 DEF DU, DefUse

\* Operations that touch no instruction leave readers and writers right.
LEMMA GraphDefUse == DU /\ UNCHANGED graph => DU'
  BY DEF DU, graph

\* Building keeps readers and writers right.
LEMMA BuildDefUse == TypeOK /\ DU /\ Build => DU'
  <1> SUFFICES ASSUME TypeOK, DU, Build PROVE DU'
    OBVIOUS
  <1> PICK i \in Insns, r \in InsnType, S \in SUBSET Insns :
        r.kind # "free" /\ ir_create_insn(i, r, S)
    BY BuildCreates
  <1> QED BY CreateDefUse DEF DU

\* Editing keeps readers and writers right.
LEMMA EditDefUse == TypeOK /\ DU /\ Edit => DU'
  <1> SUFFICES ASSUME TypeOK, DU, Edit PROVE DU'
    OBVIOUS
  <1>0. vars \subseteq Vars /\ Operands \subseteq Values /\ Live \subseteq Insns
    BY DEF TypeOK, Operands, Values, Live
  <1>1. ASSUME NEW v \in vars, ir_var_delete(v) PROVE DU'
    BY <1>1, DeleteDefUse DEF ir_var_delete, DU
  <1>2. ASSUME NEW x \in vars, NEW o \in Operands, ir_var_replace(x, o) PROVE DU'
    BY <1>0, <1>2, ReplaceDefUse DEF ir_var_replace, DU
  <1>3. ASSUME NEW i \in Live, ir_insn_delete(i) PROVE DU'
    BY <1>3, DeleteDefUse DEF ir_insn_delete, DU
  <1>4. ASSUME NEW i \in Live, NEW s \in Slots, NEW o \in Operands, SetOperand(i, s, o)
        PROVE  DU'
    <2> DEFINE r == [insn[i] EXCEPT !.arg = [@ EXCEPT ![s] = o]]
    <2>a. insn[i] \in InsnType
      BY <1>0 DEF TypeOK
    <2>b. insn[i].arg \in [Slots -> Values]
      BY <2>a DEF InsnType
    <2>1. [insn[i].arg EXCEPT ![s] = o] \in [Slots -> Values]
      BY <1>0, <2>b
    <2>2. r \in InsnType
      BY <2>a, <2>1, SetArgType
    <2>3. r.kind = insn[i].kind /\ r.dest = insn[i].dest /\ r.bind = insn[i].bind
          /\ r.arg = [insn[i].arg EXCEPT ![s] = o]
      BY <2>a DEF InsnType
    <2>4. \A v \in VarsOf(insn[i]) : v = insn[i].arg[s] \/ v \in VarsOf(r)
      BY <2>3, <2>b DEF VarsOf
    <2>5. ir_insn_set_operand(i, r, insn[i].arg[s])
      BY <1>4 DEF SetOperand
    <2> HIDE DEF r
    <2> QED BY <2>2, <2>3, <2>4, <2>5, SetOperandDefUse DEF DU
  <1>5. ASSUME NEW i \in Live, NEW c \in Codes, NEW o \in Operands, SetBinding(i, c, o)
        PROVE  DU'
    <2> DEFINE r == [insn[i] EXCEPT !.bind = [@ EXCEPT ![c] = o]]
    <2>a. insn[i] \in InsnType
      BY <1>0 DEF TypeOK
    <2>b. insn[i].bind \in [Codes -> Values]
      BY <2>a DEF InsnType
    <2>1. [insn[i].bind EXCEPT ![c] = o] \in [Codes -> Values]
      BY <1>0, <2>b
    <2>2. r \in InsnType
      BY <2>a, <2>1, SetBindType
    <2>3. r.kind = insn[i].kind /\ r.dest = insn[i].dest /\ r.arg = insn[i].arg
          /\ r.bind = [insn[i].bind EXCEPT ![c] = o]
      BY <2>a DEF InsnType
    <2>4. \A v \in VarsOf(insn[i]) : v = insn[i].bind[c] \/ v \in VarsOf(r)
      BY <2>3, <2>b DEF VarsOf
    <2>5. ir_insn_set_operand(i, r, insn[i].bind[c])
      BY <1>5 DEF SetBinding
    <2> HIDE DEF r
    <2> QED BY <2>2, <2>3, <2>4, <2>5, SetOperandDefUse DEF DU
  <1>6. ASSUME NEW i \in Live, NEW d \in vars, ir_insn_set_return(i, d) PROVE DU'
    BY <1>6, SetReturnDefUse DEF DU
  <1>7. CASE ir_func_recalc_flow
    BY <1>7, GraphDefUse DEF ir_func_recalc_flow, graph
  <1> QED BY <1>1, <1>2, <1>3, <1>4, <1>5, <1>6, <1>7 DEF Edit

\* Each step of ir_code_delete leaves readers and writers right.
LEMMA DeleteCodeDefUse == TypeOK /\ DU /\ DeleteCode => DU'
  <1> SUFFICES ASSUME TypeOK, DU, DeleteCode PROVE DU'
    OBVIOUS
  <1>1. ASSUME NEW c \in codes, ir_code_delete(c) PROVE DU'
    BY <1>1, DeleteDefUse DEF ir_code_delete, DU
  <1>2. ASSUME NEW s \in Codes, CodeDeleteSucc(s) PROVE DU'
    BY <1>2, GraphDefUse DEF CodeDeleteSucc
  <1>3. ASSUME NEW i \in Insns, CodeDeletePhi(i) PROVE DU'
    <2> DEFINE c == deleting.code  f == WithoutPath(i, c)  u == UsedWithoutPath(i, c)
    <2>0. insn[i].kind = "phi"
      BY <1>3 DEF CodeDeletePhi, TypeOK
    <2>1. DefUse(f, u, assigned_at)
      BY <2>0, WithoutPathDefUse DEF DU
    <2>2. ASSUME NEW p \in OtherPaths(i, c), CollapsePhi(i, f, u, p) PROVE DU'
      <3> DEFINE x == f[i].dest  o == f[i].bind[p]
      <3>1. CASE o = x
        BY <2>1, <2>2, <3>1 DEF CollapsePhi, DU
      <3>2. CASE o # x
        <4>1. f[i] \in InsnType /\ f[i].kind = "phi"
          BY <2>0, <2>1, WithoutPathKeeps DEF DefUse, FuncsOK
        <4>2. x \in Vars /\ o \in Values
          BY <4>1 DEF InsnType, OtherPaths
        <4>3. DefUse(ReplaceIn(f, u, x, o), Remark(u, f, x, o), assigned_at)
          BY <2>1, <3>2, <4>2, ReplaceDefUse
        <4>4. DeleteFrom(ReplaceIn(f, u, x, o), Remark(u, f, x, o), assigned_at, {i})
          BY <2>2, <3>2 DEF CollapsePhi
        <4> HIDE DEF x, o, f, u
        <4> QED BY <4>3, <4>4, DeleteDefUse DEF DU
      <3> QED BY <3>1, <3>2
    <2>3. CASE insn' = f /\ used_at' = u /\ UNCHANGED <<order, assigned_at, halted>>
      BY <2>1, <2>3 DEF DU
    <2> QED BY <1>3, <2>2, <2>3 DEF CodeDeletePhi, remove_combinator_path
  <1>4. CASE CodeDeleteEnd
    BY <1>4, DeleteDefUse DEF CodeDeleteEnd, DU
  <1> QED BY <1>1, <1>2, <1>3, <1>4 DEF DeleteCode

\* Readers and writers stay right in every step.
LEMMA DefUseInductive == TypeOK /\ DU /\ [Next]_funcVars => DU'
  <1> SUFFICES ASSUME TypeOK, DU, [Next]_funcVars PROVE DU'
    OBVIOUS
  <1>1. CASE Declare
    BY <1>1, GraphDefUse DEF Declare, ir_var_create, ir_code_create
  <1>2. CASE UNCHANGED funcVars
    BY <1>2, GraphDefUse DEF funcVars
  <1> QED BY <1>1, <1>2, BuildDefUse, EditDefUse, DeleteCodeDefUse DEF Next

\* In every reachable function, readers and writers are recorded correctly.
THEOREM DefUseCorrect == Spec => [](TypeOK /\ DU)
  <1>1. TypeOK /\ DU /\ [Next]_funcVars => DU'
    BY DefUseInductive
  <1> QED BY InitDefUse, <1>1, TypeCorrect, PTL DEF Spec

\* Whatever the library is asked to do, a variable's set of readers holds no
\* freed instruction and none that has stopped reading it.
THEOREM UsedAtIsSound == Spec => []UsedAtSound
  <1>1. TypeOK /\ DU => UsedAtSound
    BY DefUseIsInv DEF DU
  <1> QED BY <1>1, DefUseCorrect, PTL

\* Every instruction but a phi is in the set of each variable it reads.
THEOREM UsedAtIsComplete == Spec => []UsedAtComplete
  <1>1. TypeOK /\ DU => UsedAtComplete
    BY DefUseIsInv DEF DU
  <1> QED BY <1>1, DefUseCorrect, PTL

\* A variable's set of writers is exactly the instructions that write it.
THEOREM AssignedAtIsExact == Spec => []AssignedAtExact
  <1>1. TypeOK /\ DU => AssignedAtExact
    BY DefUseIsInv DEF DU
  <1> QED BY <1>1, DefUseCorrect, PTL

-----------------------------------------------------------------------------
(* Single assignment.                                                      *)

SsaInv == DestsExist /\ SsaForm

\* Deleting instructions and renaming operands only takes writers away.
LEMMA ShrinkKeepsSsa ==
  ASSUME SsaInv, UNCHANGED enforce_ssa, args' \subseteq args,
         \A v \in Vars : assigned_at'[v] \subseteq assigned_at[v],
         \A i \in Insns : insn'[i].kind # "free" =>
           insn[i].kind # "free" /\ insn'[i].dest = insn[i].dest /\ insn[i].dest \in vars' \union {None}
  PROVE  SsaInv'
  <1>1. DestsExist'
    BY DEF DestsExist, Live
  <1>2. SsaForm'
    BY DEF SsaInv, SsaForm
  <1> QED BY <1>1, <1>2 DEF SsaInv

\* ir_insn_delete keeps the destinations of what remains.
LEMMA DeleteKeepsSsa ==
  ASSUME SsaInv, NEW f, NEW u, NEW D, UNCHANGED <<enforce_ssa, vars>>, args' \subseteq args,
         \A i \in Insns : f[i].kind = insn[i].kind /\ f[i].dest = insn[i].dest,
         DeleteFrom(f, u, assigned_at, D)
  PROVE  SsaInv'
  <1>1. ASSUME NEW i \in Insns, insn'[i].kind # "free" PROVE insn'[i] = f[i]
    BY <1>1 DEF DeleteFrom, Erase, Blank, MkInsn
  <1>2. \A v \in Vars : assigned_at'[v] \subseteq assigned_at[v]
    BY DEF DeleteFrom, Unassign
  <1>3. \A i \in Insns : insn[i].kind # "free" => insn[i].dest \in vars' \union {None}
    BY DEF SsaInv, DestsExist, Live
  <1> QED BY <1>1, <1>2, <1>3, ShrinkKeepsSsa

\* A function without instructions is in single assignment form.
LEMMA InitSsa == Init => SsaInv
  BY DEF Init, SsaInv, DestsExist, SsaForm, Live, Blank, MkInsn

\* A variable that is created has no writer yet, so it may become an argument.
LEMMA DeclareSsa == TypeOK /\ DU /\ SsaInv /\ Declare => SsaInv'
  <1> SUFFICES ASSUME TypeOK, DU, SsaInv, Declare PROVE SsaInv'
    OBVIOUS
  <1>1. ASSUME NEW v \in Vars, NEW isArg, ir_var_create(v, isArg) PROVE SsaInv'
    <2>1. assigned_at[v] = {}
      BY <1>1 DEF ir_var_create, SsaInv, DestsExist, DU, DefUse, Exact, Live
    <2>2. /\ vars' = vars \union {v} /\ args' \subseteq args \union {v}
          /\ insn' = insn /\ assigned_at' = assigned_at /\ enforce_ssa' = enforce_ssa
      BY <1>1 DEF ir_var_create, graph
    <2>3. DestsExist'
      BY <2>2 DEF SsaInv, DestsExist, Live
    <2>4. SsaForm'
      BY <2>1, <2>2 DEF SsaInv, SsaForm
    <2> QED BY <2>3, <2>4 DEF SsaInv
  <1>2. ASSUME NEW c \in Codes, ir_code_create(c) PROVE SsaInv'
    BY <1>2 DEF ir_code_create, graph, SsaInv, DestsExist, SsaForm, Live
  <1> QED BY <1>1, <1>2 DEF Declare

\* The check of ir_create_insn keeps a second writer out.
LEMMA BuildSsa == TypeOK /\ DU /\ SsaInv /\ Build => SsaInv'
  <1> SUFFICES ASSUME TypeOK, DU, SsaInv, Build PROVE SsaInv'
    OBVIOUS
  <1> PICK i \in Insns, r \in InsnType, S \in SUBSET Insns :
        r.dest \in vars \union {None} /\ ir_create_insn(i, r, S)
    BY BuildCreates
  <1>1. /\ insn' = [insn EXCEPT ![i] = r] /\ vars' = vars /\ args' = args
        /\ enforce_ssa' = enforce_ssa /\ MayAssign(r.dest)
        /\ \A v \in Vars : assigned_at'[v] = IF v = r.dest THEN assigned_at[v] \union {i}
                                                           ELSE assigned_at[v]
    BY DEF ir_create_insn, decls
  <1>2. DestsExist'
    BY <1>1 DEF SsaInv, DestsExist, Live, TypeOK
  <1>3. SsaForm'
    <2> SUFFICES ASSUME enforce_ssa, NEW v \in Vars
                 PROVE  /\ \A j, k \in assigned_at'[v] : j = k
                        /\ v \in args => assigned_at'[v] = {}
      BY <1>1 DEF SsaForm
    <2>1. CASE v = r.dest
      <3>1. assigned_at[v] = {} /\ v \notin args
        BY <1>1, <2>1 DEF MayAssign
      <3> QED BY <1>1, <2>1, <3>1
    <2>2. CASE v # r.dest
      BY <1>1, <2>2 DEF SsaInv, SsaForm
    <2> QED BY <2>1, <2>2
  <1> QED BY <1>2, <1>3 DEF SsaInv

\* Editing never adds a writer to a variable that has one.
LEMMA EditSsa == TypeOK /\ DU /\ SsaInv /\ Edit => SsaInv'
  <1> SUFFICES ASSUME TypeOK, DU, SsaInv, Edit PROVE SsaInv'
    OBVIOUS
  <1>0. \A i \in Insns : insn[i] \in InsnType
    BY DEF TypeOK
  <1>1. ASSUME NEW v \in vars, ir_var_delete(v) PROVE SsaInv'
    <2>1. ASSUME NEW i \in Insns, insn'[i].kind # "free"
          PROVE  insn'[i] = insn[i] /\ i \notin assigned_at[v]
      BY <1>1, <2>1 DEF ir_var_delete, DeleteFrom, Erase, Blank, MkInsn
    <2>2. v \in Vars /\ assigned_at[v] = {i \in Insns : insn[i].kind # "free" /\ insn[i].dest = v}
      BY DEF TypeOK, DU, DefUse, Exact
    <2>3. \A i \in Insns : insn[i].kind # "free" => insn[i].dest \in vars \union {None}
      BY DEF SsaInv, DestsExist, Live
    <2>4. \A w \in Vars : assigned_at'[w] \subseteq assigned_at[w]
      BY <1>1 DEF ir_var_delete, DeleteFrom, Unassign
    <2>5. vars' = vars \ {v} /\ args' \subseteq args /\ UNCHANGED enforce_ssa
      BY <1>1 DEF ir_var_delete
    <2> QED BY <2>1, <2>2, <2>3, <2>4, <2>5, ShrinkKeepsSsa
  <1>2. ASSUME NEW x \in vars, NEW o \in Operands, ir_var_replace(x, o) PROVE SsaInv'
    <2>1. \A i \in Insns : insn'[i].kind = insn[i].kind /\ insn'[i].dest = insn[i].dest
      BY <1>0, <1>2, ReplaceKeeps DEF ir_var_replace
    <2>2. UNCHANGED <<assigned_at, vars, args, enforce_ssa>>
      BY <1>2 DEF ir_var_replace, decls
    <2> QED BY <2>1, <2>2 DEF SsaInv, DestsExist, SsaForm, Live
  <1>3. ASSUME NEW i \in Live, ir_insn_delete(i) PROVE SsaInv'
    BY <1>3, DeleteKeepsSsa DEF ir_insn_delete, decls
  <1>4. ASSUME NEW i \in Live, NEW r, r.kind = insn[i].kind, r.dest = insn[i].dest, NEW old,
               ir_insn_set_operand(i, r, old)
        PROVE  SsaInv'
    BY <1>4 DEF ir_insn_set_operand, TypeOK, decls, SsaInv, DestsExist, SsaForm, Live
  <1>5. ASSUME NEW i \in Live, NEW s \in Slots, NEW o \in Operands, SetOperand(i, s, o)
        PROVE  SsaInv'
    <2>1. insn[i] \in InsnType
      BY <1>0 DEF Live
    <2>2. /\ [insn[i] EXCEPT !.arg = [@ EXCEPT ![s] = o]].kind = insn[i].kind
          /\ [insn[i] EXCEPT !.arg = [@ EXCEPT ![s] = o]].dest = insn[i].dest
      BY <2>1 DEF InsnType
    <2> QED BY <1>4, <1>5, <2>2 DEF SetOperand
  <1>6. ASSUME NEW i \in Live, NEW c \in Codes, NEW o \in Operands, SetBinding(i, c, o)
        PROVE  SsaInv'
    <2>1. insn[i] \in InsnType
      BY <1>0 DEF Live
    <2>2. /\ [insn[i] EXCEPT !.bind = [@ EXCEPT ![c] = o]].kind = insn[i].kind
          /\ [insn[i] EXCEPT !.bind = [@ EXCEPT ![c] = o]].dest = insn[i].dest
      BY <2>1 DEF InsnType
    <2> QED BY <1>4, <1>6, <2>2 DEF SetBinding
  <1>7. ASSUME NEW i \in Live, NEW d \in vars, ir_insn_set_return(i, d) PROVE SsaInv'
    <2>1. insn[i] \in InsnType /\ i \in Insns
      BY <1>0 DEF Live
    <2>2. insn' = [insn EXCEPT ![i] = [insn[i] EXCEPT !.dest = d]]
      BY <1>7 DEF ir_insn_set_return
    <2>3. /\ [insn[i] EXCEPT !.dest = d].dest = d
          /\ [insn[i] EXCEPT !.dest = d].kind = insn[i].kind
      BY <2>1 DEF InsnType
    <2>4. /\ UNCHANGED <<vars, args, enforce_ssa>> /\ d \notin args
          /\ \A v \in Vars : assigned_at'[v] = IF v = d THEN {i} ELSE assigned_at[v] \ {i}
      BY <1>7 DEF ir_insn_set_return, decls
    <2>5. DestsExist'
      BY <2>1, <2>2, <2>3, <2>4 DEF SsaInv, DestsExist, Live, TypeOK
    <2>6. SsaForm'
      BY <2>4 DEF SsaInv, SsaForm
    <2> QED BY <2>5, <2>6 DEF SsaInv
  <1>8. CASE ir_func_recalc_flow
    BY <1>8 DEF ir_func_recalc_flow, graph, decls, SsaInv, DestsExist, SsaForm, Live
  <1> QED BY <1>1, <1>2, <1>3, <1>5, <1>6, <1>7, <1>8 DEF Edit

\* Neither does the deletion of a block.
LEMMA DeleteCodeSsa == TypeOK /\ DU /\ SsaInv /\ DeleteCode => SsaInv'
  <1> SUFFICES ASSUME TypeOK, DU, SsaInv, DeleteCode PROVE SsaInv'
    OBVIOUS
  <1>1. ASSUME NEW c \in codes, ir_code_delete(c) PROVE SsaInv'
    BY <1>1, DeleteKeepsSsa DEF ir_code_delete, decls
  <1>2. ASSUME NEW s \in Codes, CodeDeleteSucc(s) PROVE SsaInv'
    BY <1>2 DEF CodeDeleteSucc, graph, decls, SsaInv, DestsExist, SsaForm, Live
  <1>3. ASSUME NEW i \in Insns, CodeDeletePhi(i) PROVE SsaInv'
    <2> DEFINE c == deleting.code  f == WithoutPath(i, c)  u == UsedWithoutPath(i, c)
    <2>0. DefUse(f, u, assigned_at)
      BY <1>3, WithoutPathDefUse DEF CodeDeletePhi, TypeOK, DU
    <2>1. \A k \in Insns : f[k].kind = insn[k].kind /\ f[k].dest = insn[k].dest /\ f[k] \in InsnType
      BY <2>0, WithoutPathKeeps DEF DefUse, FuncsOK
    <2>2. UNCHANGED <<vars, args, enforce_ssa>>
      BY <1>3 DEF CodeDeletePhi, decls
    <2> HIDE DEF f, u
    <2>3. CASE insn' = f /\ assigned_at' = assigned_at
      BY <2>1, <2>2, <2>3 DEF SsaInv, DestsExist, SsaForm, Live
    <2>4. ASSUME NEW x, NEW o, DeleteFrom(ReplaceIn(f, u, x, o), Remark(u, f, x, o), assigned_at, {i})
          PROVE  SsaInv'
      <3>1. \A k \in Insns : /\ ReplaceIn(f, u, x, o)[k].kind = insn[k].kind
                            /\ ReplaceIn(f, u, x, o)[k].dest = insn[k].dest
        BY <2>1, ReplaceKeeps
      <3> QED BY <2>2, <2>4, <3>1, DeleteKeepsSsa
    <2> QED BY <1>3, <2>3, <2>4 DEF f, u, CodeDeletePhi, remove_combinator_path, CollapsePhi
  <1>4. CASE CodeDeleteEnd
    BY <1>4, DeleteKeepsSsa DEF CodeDeleteEnd
  <1> QED BY <1>1, <1>2, <1>3, <1>4 DEF DeleteCode

\* A function in single assignment form stays in it whatever is done to it, and
\* no instruction outlives the variable it writes.
THEOREM SingleAssignment == Spec => [](SsaForm /\ DestsExist)
  <1>1. TypeOK /\ DU /\ SsaInv /\ [Next]_funcVars => SsaInv'
    <2> SUFFICES ASSUME TypeOK, DU, SsaInv, [Next]_funcVars PROVE SsaInv'
      OBVIOUS
    <2>1. CASE UNCHANGED funcVars
      BY <2>1 DEF funcVars, graph, decls, SsaInv, DestsExist, SsaForm, Live
    <2> QED BY <2>1, DeclareSsa, BuildSsa, EditSsa, DeleteCodeSsa DEF Next
  <1>2. SsaInv => SsaForm /\ DestsExist
    BY DEF SsaInv
  <1> QED BY InitSsa, <1>1, <1>2, DefUseCorrect, PTL DEF Spec
-----------------------------------------------------------------------------
\* A phi with that contents has two paths.
TwoPaths(r) == \E p, q \in Codes : p # q /\ r.bind[p] # None /\ r.bind[q] # None

SameInsn(r, s) == r.kind = s.kind /\ r.code = s.code /\ r.target = s.target

\* The instructions in D are deleted, the others keep their place.
Kept(D) ==
  /\ \A i \in Insns : IF i \in D THEN insn'[i].kind = "free" ELSE SameInsn(insn'[i], insn[i])
  /\ order' = Unlink(order, D)

-----------------------------------------------------------------------------
\* ir_insn_delete, after operands may have been replaced.
LEMMA DeleteKept ==
  ASSUME NEW f, NEW u, NEW a, NEW D, \A i \in Insns : SameInsn(f[i], insn[i]), DeleteFrom(f, u, a, D)
  PROVE  Kept(D)
  BY DEF DeleteFrom, Erase, Blank, MkInsn, Kept, SameInsn

\* Where nothing is deleted.
LEMMA NothingKept ==
  ASSUME TypeOK, UNCHANGED order, \A i \in Insns : SameInsn(insn'[i], insn[i])
  PROVE  Kept({})
  BY DEF Kept, Unlink

\* Editing deletes instructions or changes what they read and write.
LEMMA EditKept ==
  ASSUME TypeOK, Edit
  PROVE  /\ \E D : Kept(D)
         /\ UNCHANGED <<codes, ctl>> /\ (UNCHANGED flow \/ (UNCHANGED graph /\ ir_func_recalc_flow))
<1> DEFINE Goal == /\ \E D : Kept(D)
                   /\ UNCHANGED <<codes, ctl>>
                   /\ (UNCHANGED flow \/ (UNCHANGED graph /\ ir_func_recalc_flow))
<1>0. \A i \in Insns : insn[i] \in InsnType /\ SameInsn(insn[i], insn[i])
  BY DEF TypeOK, SameInsn
<1>1. ASSUME NEW v \in vars, ir_var_delete(v) PROVE Goal
  BY <1>0, <1>1, DeleteKept DEF ir_var_delete
<1>2. ASSUME NEW x \in vars, NEW o \in Operands, ir_var_replace(x, o) PROVE Goal
  <2>1. \A i \in Insns : SameInsn(insn'[i], insn[i])
    BY <1>0, <1>2, ReplaceKeeps DEF ir_var_replace, SameInsn
  <2> QED BY <1>2, <2>1, NothingKept DEF ir_var_replace, decls
<1>3. ASSUME NEW i \in Live, ir_insn_delete(i) PROVE Goal
  BY <1>0, <1>3, DeleteKept DEF ir_insn_delete, decls
<1>4. ASSUME NEW i \in Live, NEW r, SameInsn(r, insn[i]), NEW old, ir_insn_set_operand(i, r, old) PROVE Goal
  <2>1. \A k \in Insns : SameInsn(insn'[k], insn[k])
    BY <1>0, <1>4 DEF ir_insn_set_operand, TypeOK
  <2> QED BY <1>4, <2>1, NothingKept DEF ir_insn_set_operand, decls
<1>5. ASSUME NEW i \in Live, NEW s \in Slots, NEW o \in Operands, SetOperand(i, s, o) PROVE Goal
  <2>1. SameInsn([insn[i] EXCEPT !.arg = [@ EXCEPT ![s] = o]], insn[i])
    BY <1>0 DEF Live, InsnType, SameInsn
  <2> QED BY <1>4, <1>5, <2>1 DEF SetOperand
<1>6. ASSUME NEW i \in Live, NEW c \in Codes, NEW o \in Operands, SetBinding(i, c, o) PROVE Goal
  <2>1. SameInsn([insn[i] EXCEPT !.bind = [@ EXCEPT ![c] = o]], insn[i])
    BY <1>0 DEF Live, InsnType, SameInsn
  <2> QED BY <1>4, <1>6, <2>1 DEF SetBinding
<1>7. ASSUME NEW i \in Live, NEW d \in vars, ir_insn_set_return(i, d) PROVE Goal
  <2>1. SameInsn([insn[i] EXCEPT !.dest = d], insn[i])
    BY <1>0 DEF Live, InsnType, SameInsn
  <2>2. insn' = [insn EXCEPT ![i] = [insn[i] EXCEPT !.dest = d]]
    BY <1>7 DEF ir_insn_set_return
  <2>3. \A k \in Insns : SameInsn(insn'[k], insn[k])
    BY <1>0, <2>1, <2>2 DEF TypeOK
  <2> QED BY <1>7, <2>3, NothingKept DEF ir_insn_set_return, decls
<1>8. CASE ir_func_recalc_flow
  BY <1>0, <1>8, NothingKept DEF ir_func_recalc_flow, graph, decls
<1> QED BY <1>1, <1>2, <1>3, <1>5, <1>6, <1>7, <1>8 DEF Edit

\* A path removed from a phi may cost the phi, and changes nothing else of this.
LEMMA PhiKept ==
  ASSUME TypeOK, NEW i \in Insns, CodeDeletePhi(i)
  PROVE  /\ \E D : Kept(D)
         /\ UNCHANGED <<flow, codes>>
         /\ deleting'.code = deleting.code /\ deleting'.succs = deleting.succs
<1> DEFINE c == deleting.code  f == WithoutPath(i, c)  u == UsedWithoutPath(i, c)
<1>1. \A k \in Insns : f[k] \in InsnType /\ SameInsn(f[k], insn[k])
  <2>1. insn[i] \in InsnType /\ insn[i].bind \in [Codes -> Values]
    BY DEF TypeOK, InsnType
  <2>2. [insn[i].bind EXCEPT ![c] = None] \in [Codes -> Values]
    BY <2>1 DEF Values
  <2>3. f \in [Insns -> InsnType]
    BY <2>1, <2>2, SetBindType DEF WithoutPath, TypeOK
  <2> QED BY <2>3, WithoutPathKeeps DEF SameInsn
<1>2. UNCHANGED <<flow, codes>> /\ deleting'.code = deleting.code /\ deleting'.succs = deleting.succs
  BY DEF CodeDeletePhi, decls, TypeOK
<1> HIDE DEF f, u
<1>3. CASE insn' = f /\ order' = order
  BY <1>1, <1>2, <1>3, NothingKept
<1>4. ASSUME NEW x, NEW o, DeleteFrom(ReplaceIn(f, u, x, o), Remark(u, f, x, o), assigned_at, {i})
      PROVE  Kept({i})
  <2>1. \A k \in Insns : SameInsn(ReplaceIn(f, u, x, o)[k], insn[k])
    BY <1>1, ReplaceKeeps DEF SameInsn
  <2> QED BY <1>4, <2>1, DeleteKept
<1> QED BY <1>2, <1>3, <1>4 DEF f, u, CodeDeletePhi, remove_combinator_path, CollapsePhi

-----------------------------------------------------------------------------
(* The edges between the blocks are those of the jumps.                     *)

\* Whatever goes, what is left keeps its edges.
LEMMA KeptFlow ==
  ASSUME FlowConsistent, NEW D, Kept(D), UNCHANGED <<pred, succ, codes>>,
         deleting'.code = deleting.code, deleting'.succs = deleting.succs
  PROVE  FlowConsistent'
<1>1. \A i \in Insns : insn'[i].kind # "free" => insn[i].kind # "free" /\ SameInsn(insn'[i], insn[i])
  BY DEF Kept, SameInsn
<1> QED BY <1>1 DEF FlowConsistent, Live, SameInsn

\* An instruction is built in a block of the function; a jump or branch to a block
\* of the function, with its edge; a phi, with two paths.
LEMMA BuildFlow ==
  ASSUME TypeOK, Build
  PROVE  \E i \in Insns, r \in InsnType : \E S \in SUBSET Insns :
           /\ r.kind # "free" /\ ir_create_insn(i, r, S) /\ (r.kind = "phi" => TwoPaths(r))
           /\ \/ r.kind \notin Jumps /\ UNCHANGED flow
              \/ r.target \in codes /\ AddEdge(r.code, r.target)
<1> DEFINE Goal(i, S) == \E r \in InsnType :
             /\ r.kind # "free" /\ ir_create_insn(i, r, S) /\ (r.kind = "phi" => TwoPaths(r))
             /\ \/ r.kind \notin Jumps /\ UNCHANGED flow
                \/ r.target \in codes /\ AddEdge(r.code, r.target)
<1> PICK i \in Insns \ Live, c \in codes, S \in SUBSET Insns :
      \/ \E a \in [Slots -> Operands \union {None}] :
           \/ \E d \in vars \union {None} : ir_add_plain(i, c, S, a, d)
           \/ ir_add_return(i, c, S, a)
      \/ \E b \in [Codes -> Operands \union {None}], d \in vars : ir_add_combinator(i, c, S, b, d)
      \/ \E t \in codes : ir_add_jump(i, c, S, t)
      \/ \E s \in Slots, t \in codes, cond \in Operands : ir_add_branch(i, c, S, s, cond, t)
  BY DEF Build, Cuts, Body, Live
<1>0. /\ Operands \union {None} \subseteq Values /\ vars \subseteq Vars /\ codes \subseteq Codes
      /\ NoArgs \in [Slots -> Values] /\ NoBinds \in [Codes -> Values]
  BY DEF TypeOK, Operands, Values, NoArgs, NoBinds
<1>1. ASSUME NEW a \in [Slots -> Operands \union {None}], NEW d \in vars \union {None}, ir_add_plain(i, c, S, a, d)
      PROVE  Goal(i, S)
  <2>1. MkInsn("plain", c, a, NoBinds, None, d) \in InsnType
    BY <1>0 DEF MkInsn, InsnType, Kinds, Jumps
  <2>2. MkInsn("plain", c, a, NoBinds, None, d).kind = "plain"
    BY DEF MkInsn
  <2> QED BY <1>1, <2>1, <2>2 DEF ir_add_plain, Jumps
<1>2. ASSUME NEW a \in [Slots -> Operands \union {None}], ir_add_return(i, c, S, a)
      PROVE  Goal(i, S)
  <2>1. MkInsn("return", c, a, NoBinds, None, None) \in InsnType
    BY <1>0 DEF MkInsn, InsnType, Kinds, Jumps
  <2>2. MkInsn("return", c, a, NoBinds, None, None).kind = "return"
    BY DEF MkInsn
  <2> QED BY <1>2, <2>1, <2>2 DEF ir_add_return, Jumps
<1>3. ASSUME NEW b \in [Codes -> Operands \union {None}], NEW d \in vars, ir_add_combinator(i, c, S, b, d)
      PROVE  Goal(i, S)
  <2>1. MkInsn("phi", c, NoArgs, b, None, d) \in InsnType
    BY <1>0 DEF MkInsn, InsnType, Kinds, Jumps
  <2>2. MkInsn("phi", c, NoArgs, b, None, d).kind = "phi" /\ MkInsn("phi", c, NoArgs, b, None, d).bind = b
    BY DEF MkInsn
  <2>3. c \in Codes /\ pred[c] \subseteq Codes /\ None \notin Operands
    BY DEF TypeOK, Operands
  <2>4. TwoPaths(MkInsn("phi", c, NoArgs, b, None, d))
    BY <1>3, <2>2, <2>3 DEF ir_add_combinator, TwoPaths
  <2> QED BY <1>3, <2>1, <2>2, <2>4 DEF ir_add_combinator, Jumps
<1>4. ASSUME NEW t \in codes, ir_add_jump(i, c, S, t)
      PROVE  Goal(i, S)
  <2>1. MkInsn("jump", c, NoArgs, NoBinds, t, None) \in InsnType
    BY <1>0 DEF MkInsn, InsnType, Kinds, Jumps
  <2>2. LET r == MkInsn("jump", c, NoArgs, NoBinds, t, None) IN r.kind = "jump" /\ r.code = c /\ r.target = t
    BY DEF MkInsn
  <2> QED BY <1>4, <2>1, <2>2 DEF ir_add_jump
<1>5. ASSUME NEW s \in Slots, NEW t \in codes, NEW cond \in Operands, ir_add_branch(i, c, S, s, cond, t)
      PROVE  Goal(i, S)
  <2>1. MkInsn("branch", c, [NoArgs EXCEPT ![s] = cond], NoBinds, t, None) \in InsnType
    BY <1>0 DEF MkInsn, InsnType, Kinds, Jumps
  <2>2. LET r == MkInsn("branch", c, [NoArgs EXCEPT ![s] = cond], NoBinds, t, None)
        IN  r.kind = "branch" /\ r.code = c /\ r.target = t
    BY DEF MkInsn
  <2> QED BY <1>5, <2>1, <2>2 DEF ir_add_branch
<1> QED BY <1>1, <1>2, <1>3, <1>4, <1>5

\* Building adds the edge of what it builds.
LEMMA CreateFlow == TypeOK /\ FlowConsistent /\ Build => FlowConsistent'
<1> SUFFICES ASSUME TypeOK, FlowConsistent, Build PROVE FlowConsistent'
  OBVIOUS
<1> PICK i \in Insns, r \in InsnType, S \in SUBSET Insns :
      /\ r.kind # "free" /\ ir_create_insn(i, r, S)
      /\ \/ r.kind \notin Jumps /\ UNCHANGED flow
         \/ r.target \in codes /\ AddEdge(r.code, r.target)
  BY BuildFlow
<1>1. /\ r.code \in codes /\ codes' = codes /\ deleting' = deleting /\ deleting.code = None
      /\ insn' = [insn EXCEPT ![i] = r] /\ codes \subseteq Codes
  BY DEF ir_create_insn, decls, ctl, Idle, NotDeleting, TypeOK
<1>2. ASSUME NEW k \in Live' PROVE (k \in Live /\ insn'[k] = insn[k]) \/ insn'[k] = r
  BY <1>1 DEF Live, TypeOK
<1>3. \A a \in Codes : succ[a] \subseteq succ'[a]
  BY DEF flow, AddEdge, TypeOK
<1>4. \A k \in Live' : insn'[k].code \in codes'
  BY <1>1, <1>2 DEF FlowConsistent
<1>5. r.kind \in Jumps => r.target \in succ'[r.code]
  BY <1>1 DEF AddEdge, TypeOK
<1>6. \A k \in Live' : insn'[k].kind \in Jumps => insn'[k].target \in succ'[insn'[k].code]
  <2> SUFFICES ASSUME NEW k \in Live', insn'[k].kind \in Jumps PROVE insn'[k].target \in succ'[insn'[k].code]
    OBVIOUS
  <2>1. CASE insn'[k] = r
    BY <2>1, <1>5
  <2>2. CASE k \in Live /\ insn'[k] = insn[k]
    BY <2>2, <1>1, <1>3 DEF FlowConsistent
  <2> QED BY <1>2, <2>1, <2>2
<1>7. /\ \A a \in Codes : succ'[a] \subseteq codes
      /\ \A a, b \in Codes : b \in succ'[a] <=> a \in pred'[b]
      /\ \A a \in Codes \ codes : pred'[a] = {} /\ succ'[a] = {}
  <2>1. None \notin Codes
    OBVIOUS
  <2>2. CASE UNCHANGED flow
    BY <1>1, <2>1, <2>2 DEF FlowConsistent, flow
  <2>3. CASE r.target \in codes /\ AddEdge(r.code, r.target)
    BY <1>1, <2>1, <2>3 DEF FlowConsistent, AddEdge, TypeOK
  <2> QED BY <2>2, <2>3
<1> QED BY <1>1, <1>4, <1>6, <1>7 DEF FlowConsistent

\* ir_func_recalc_flow finds the edges that are there already, and no others.
LEMMA RecalcFlow ==
  ASSUME TypeOK, FlowConsistent, UNCHANGED graph, UNCHANGED codes, ir_func_recalc_flow
  PROVE  FlowConsistent'
<1>1. insn' = insn /\ codes' = codes /\ deleting' = deleting /\ deleting.code = None /\ codes \subseteq Codes
  BY DEF graph, ir_func_recalc_flow, Idle, NotDeleting, ctl, TypeOK
<1>2. \A c \in codes : Targets(c) \subseteq codes
  BY <1>1 DEF FlowConsistent, Targets, Body, Live
<1>3. /\ \A c \in Codes : succ'[c] = IF c \in codes THEN Targets(c) ELSE {}
      /\ \A t \in Codes : pred'[t] = IF t \in codes THEN {c \in codes : t \in Targets(c)} ELSE {}
  BY DEF ir_func_recalc_flow, FlowConsistent
<1>4. \A i \in Live : insn[i].code \in codes /\ (insn[i].kind \in Jumps => insn[i].target \in Targets(insn[i].code))
  BY DEF FlowConsistent, Targets, Body
<1>5. /\ \A a \in Codes : succ'[a] \subseteq codes
      /\ \A a, b \in Codes : b \in succ'[a] <=> a \in pred'[b]
      /\ \A a \in Codes \ codes : pred'[a] = {} /\ succ'[a] = {}
  <2>1. \A a \in Codes : succ'[a] \subseteq codes
    BY <1>2, <1>3
  <2>2. ASSUME NEW a \in Codes, NEW b \in Codes PROVE b \in succ'[a] <=> a \in codes /\ b \in Targets(a)
    BY <1>3
  <2>3. ASSUME NEW a \in Codes, NEW b \in Codes PROVE a \in pred'[b] <=> b \in codes /\ a \in codes /\ b \in Targets(a)
    BY <1>3
  <2>4. \A a \in Codes \ codes : pred'[a] = {} /\ succ'[a] = {}
    BY <1>3
  <2> QED BY <1>2, <2>1, <2>2, <2>3, <2>4
<1>6. \A i \in Live : insn[i].kind \in Jumps => insn[i].target \in succ'[insn[i].code]
  BY <1>1, <1>3, <1>4
<1>7. Live' = Live /\ None \notin Codes
  BY <1>1 DEF Live
<1> QED BY <1>1, <1>4, <1>5, <1>6, <1>7 DEF FlowConsistent

\* The edges of a block that is being deleted go step by step: those to it at once,
\* those from it with the successor whose phis are looked at.
LEMMA DeleteCodeFlow == TypeOK /\ FlowConsistent /\ DeleteCode => FlowConsistent'
<1> SUFFICES ASSUME TypeOK, FlowConsistent, DeleteCode PROVE FlowConsistent'
  OBVIOUS
<1>1. ASSUME NEW c \in codes, ir_code_delete(c) PROVE FlowConsistent'
  <2> DEFINE D == {j \in Live : insn[j].kind \in Jumps /\ insn[j].target = c /\ insn[j].code \in pred[c]}
  <2>1. /\ c \in Codes /\ codes' = codes /\ pred' = pred /\ codes \subseteq Codes
        /\ deleting.code = None /\ deleting'.code = c /\ deleting'.succs = succ'[c]
    BY <1>1 DEF ir_code_delete, Idle, NotDeleting, TypeOK, decls
  <2>2. \A p \in Codes : succ'[p] = succ[p] \ {c}
    BY <1>1, <2>1 DEF ir_code_delete, FlowConsistent, TypeOK
  <2>3. ASSUME NEW k \in Live' PROVE k \in Live \ D /\ insn'[k] = insn[k]
    BY <1>1 DEF ir_code_delete, DeleteFrom, Erase, Blank, MkInsn, Live
  <2>4. ASSUME NEW k \in Live \ D, insn[k].kind \in Jumps PROVE insn[k].target # c
    BY <2>1, <2>4 DEF FlowConsistent
  <2>5. /\ \A k \in Live' : insn'[k].code \in codes'
        /\ \A k \in Live' : insn'[k].kind \in Jumps => insn'[k].target \in succ'[insn'[k].code]
    BY <2>1, <2>2, <2>3, <2>4 DEF FlowConsistent
  <2>6. /\ \A a \in Codes : succ'[a] \subseteq codes \ {c}
        /\ \A a, b \in Codes \ {c} : b \in succ'[a] <=> a \in pred[b]
        /\ \A b \in Codes \ {c} : b \in succ'[c] <=> c \in pred[b]
        /\ \A a \in Codes \ codes : pred[a] = {} /\ succ'[a] = {}
    BY <2>1, <2>2 DEF FlowConsistent
  <2> QED BY <2>1, <2>5, <2>6 DEF FlowConsistent
<1>2. ASSUME NEW s \in Codes, CodeDeleteSucc(s) PROVE FlowConsistent'
  <2>1. /\ insn' = insn /\ succ' = succ /\ codes' = codes
        /\ deleting.code # None /\ deleting'.code = deleting.code /\ deleting.code \in Codes
        /\ deleting'.succs = deleting.succs \ {s}
        /\ \A b \in Codes : pred'[b] = IF b = s THEN pred[b] \ {deleting.code} ELSE pred[b]
    BY <1>2 DEF CodeDeleteSucc, graph, decls, TypeOK
  <2>2. Live' = Live
    BY <2>1 DEF Live
  <2>a. \A a, b \in Codes \ {deleting.code} : b \in succ[a] <=> a \in pred[b]
    BY DEF FlowConsistent
  <2>b. \A b \in Codes \ {deleting.code} : b \in deleting.succs <=> deleting.code \in pred[b]
    BY <2>1 DEF FlowConsistent
  <2>3. \A a, b \in Codes \ {deleting.code} : b \in succ'[a] <=> a \in pred'[b]
    BY <2>1, <2>a
  <2>4. \A b \in Codes \ {deleting.code} : b \in deleting'.succs <=> deleting.code \in pred'[b]
    BY <2>1, <2>b
  <2>5. \A a \in Codes \ codes : pred'[a] = {} /\ succ'[a] = {}
    BY <2>1 DEF FlowConsistent
  <2> QED BY <2>1, <2>2, <2>3, <2>4, <2>5 DEF FlowConsistent
<1>3. ASSUME NEW i \in Insns, CodeDeletePhi(i) PROVE FlowConsistent'
  BY <1>3, PhiKept, KeptFlow DEF flow
<1>4. CASE CodeDeleteEnd
  <2> DEFINE c == deleting.code
  <2>1. /\ c \in Codes /\ deleting'.code = None /\ codes' = codes \ {c} /\ deleting.succs = {}
        /\ \A b \in Codes : /\ pred'[b] = IF b = c THEN {} ELSE pred[b]
                            /\ succ'[b] = IF b = c THEN {} ELSE succ[b]
    BY <1>4 DEF CodeDeleteEnd, NotDeleting, TypeOK
  <2>2. ASSUME NEW k \in Live' PROVE k \in Live \ Body(c) /\ insn'[k] = insn[k]
    BY <1>4 DEF CodeDeleteEnd, DeleteFrom, Erase, Blank, MkInsn, Live
  <2>3. codes \subseteq Codes /\ \A k \in Live \ Body(c) : insn[k].code \in codes \ {c}
    BY DEF FlowConsistent, Body, TypeOK
  <2>4. /\ \A k \in Live' : insn'[k].code \in codes'
        /\ \A k \in Live' : insn'[k].kind \in Jumps => insn'[k].target \in succ'[insn'[k].code]
    BY <2>1, <2>2, <2>3 DEF FlowConsistent
  <2>5. /\ \A a \in Codes : succ'[a] \subseteq codes \ {c}
        /\ \A a \in Codes \ codes' : pred'[a] = {} /\ succ'[a] = {}
    BY <2>1 DEF FlowConsistent
  <2>6. c # None /\ \A b \in Codes \ {c} : c \notin pred[b]
    BY <2>1 DEF FlowConsistent
  <2>7. \A a, b \in Codes : b \in succ'[a] <=> a \in pred'[b]
    <3>1. \A a, b \in Codes \ {c} : b \in succ[a] <=> a \in pred[b]
      BY DEF FlowConsistent
    <3> QED BY <2>1, <2>5, <2>6, <3>1
  <2> QED BY <2>1, <2>3, <2>4, <2>5, <2>7 DEF FlowConsistent
<1> QED BY <1>1, <1>2, <1>3, <1>4 DEF DeleteCode

\* Every operation keeps the edges right.
LEMMA FlowInductive == TypeOK /\ FlowConsistent /\ [Next]_funcVars => FlowConsistent'
<1> SUFFICES ASSUME TypeOK, FlowConsistent, [Next]_funcVars PROVE FlowConsistent'
  OBVIOUS
<1>1. CASE UNCHANGED funcVars
  BY <1>1 DEF funcVars, graph, flow, decls, ctl, FlowConsistent, Live
<1>2. ASSUME NEW v \in Vars, NEW isArg, ir_var_create(v, isArg) PROVE FlowConsistent'
  BY <1>2 DEF ir_var_create, graph, flow, ctl, FlowConsistent, Live
<1>3. ASSUME NEW c \in Codes, ir_code_create(c) PROVE FlowConsistent'
  BY <1>3 DEF ir_code_create, graph, flow, ctl, FlowConsistent, Live, Idle, NotDeleting
<1>4. CASE Edit
  <2>1. PICK D : Kept(D)
    BY <1>4, EditKept
  <2>2. UNCHANGED <<codes, deleting>>
    BY <1>4, EditKept DEF ctl
  <2>3. CASE UNCHANGED flow
    BY <2>1, <2>2, <2>3, KeptFlow DEF flow
  <2>4. CASE UNCHANGED graph /\ ir_func_recalc_flow
    BY <2>2, <2>4, RecalcFlow
  <2> QED BY <1>4, <2>3, <2>4, EditKept
<1> QED BY <1>1, <1>2, <1>3, <1>4, CreateFlow, DeleteCodeFlow DEF Next, Declare

\* However blocks are built, edited and deleted, succ and pred are inverses and hold
\* the edge of every jump; while a block is deleted, only its own are missing.
THEOREM EdgesAreConsistent == Spec => []FlowConsistent
<1>1. Init => FlowConsistent
  BY DEF Init, FlowConsistent, Live, Blank, MkInsn, NotDeleting
<1> QED BY <1>1, FlowInductive, TypeCorrect, PTL DEF Spec

-----------------------------------------------------------------------------
(* The list of a block.                                                     *)

\* JumpsLast, said of pairs.
Listed ==
  /\ \A i, j \in Insns : <<i, j>> \in order =>
       /\ i \in Live /\ j \in Live /\ i # j
       /\ insn[i].code = insn[j].code /\ <<j, i>> \notin order
       /\ ir_is_jbr(insn[i].kind) => ir_is_jbr(insn[j].kind)
  /\ \A i, j \in Live : i # j /\ insn[i].code = insn[j].code => <<i, j>> \in order \/ <<j, i>> \in order
  /\ \A i, j, k \in Insns : <<i, j>> \in order /\ <<j, k>> \in order => <<i, k>> \in order

\* Listed says what JumpsLast says, of two instructions instead of one pair.
LEMMA ListedIsInv == TypeOK => (JumpsLast <=> Listed)
<1> SUFFICES ASSUME TypeOK PROVE JumpsLast <=> Listed
  OBVIOUS
<1>1. \A e \in order : e = <<e[1], e[2]>> /\ e[1] \in Insns /\ e[2] \in Insns
  BY DEF TypeOK
<1>2. \A i, j \in Insns : <<i, j>>[1] = i /\ <<i, j>>[2] = j
  OBVIOUS
<1>3. ASSUME JumpsLast PROVE Listed
  <2>1. ASSUME NEW i \in Insns, NEW j \in Insns, <<i, j>> \in order
        PROVE  /\ i \in Live /\ j \in Live /\ i # j
               /\ insn[i].code = insn[j].code /\ <<j, i>> \notin order
               /\ ir_is_jbr(insn[i].kind) => ir_is_jbr(insn[j].kind)
    BY <1>2, <1>3, <2>1 DEF JumpsLast
  <2>2. ASSUME NEW i \in Insns, NEW j \in Insns, NEW k \in Insns, <<i, j>> \in order, <<j, k>> \in order
        PROVE  <<i, k>> \in order
    BY <1>2, <1>3, <2>2 DEF JumpsLast
  <2> QED BY <1>3, <2>1, <2>2 DEF JumpsLast, Listed
<1>4. ASSUME Listed PROVE JumpsLast
  <2>1. ASSUME NEW e \in order
        PROVE  /\ e[1] \in Live /\ e[2] \in Live /\ e[1] # e[2]
               /\ insn[e[1]].code = insn[e[2]].code /\ <<e[2], e[1]>> \notin order
               /\ ir_is_jbr(insn[e[1]].kind) => ir_is_jbr(insn[e[2]].kind)
    <3>1. <<e[1], e[2]>> \in order /\ e[1] \in Insns /\ e[2] \in Insns
      BY <1>1
    <3> QED BY <1>4, <3>1 DEF Listed
  <2>2. ASSUME NEW d \in order, NEW e \in order, d[2] = e[1] PROVE <<d[1], e[2]>> \in order
    <3>1. <<d[1], d[2]>> \in order /\ <<d[2], e[2]>> \in order /\ d[1] \in Insns /\ d[2] \in Insns /\ e[2] \in Insns
      BY <1>1, <2>2
    <3> QED BY <1>4, <3>1 DEF Listed
  <2> QED BY <1>4, <2>1, <2>2 DEF JumpsLast, Listed
<1> QED BY <1>3, <1>4

\* What is left when some are deleted has its order.
LEMMA KeptListed ==
  ASSUME Listed, NEW D, Kept(D)
  PROVE  Listed'
<1>1. \A i, j \in Insns : <<i, j>> \in order' <=> <<i, j>> \in order /\ i \notin D /\ j \notin D
  BY DEF Kept, Unlink
<1>2. \A i \in Insns : i \in Live' => i \in Live /\ i \notin D /\ SameInsn(insn'[i], insn[i])
  BY DEF Kept, SameInsn, Live
<1>3. \A i \in Insns : i \in Live /\ i \notin D => i \in Live' /\ SameInsn(insn'[i], insn[i])
  BY DEF Kept, SameInsn, Live
<1>4. ASSUME NEW i \in Insns, NEW j \in Insns, <<i, j>> \in order'
      PROVE  /\ i \in Live' /\ j \in Live' /\ i # j
             /\ insn'[i].code = insn'[j].code /\ <<j, i>> \notin order'
             /\ ir_is_jbr(insn'[i].kind) => ir_is_jbr(insn'[j].kind)
  BY <1>1, <1>3, <1>4 DEF Listed, SameInsn
<1>5. ASSUME NEW i \in Live', NEW j \in Live', i # j, insn'[i].code = insn'[j].code
      PROVE  <<i, j>> \in order' \/ <<j, i>> \in order'
  <2>1. i \in Insns /\ j \in Insns
    BY DEF Live
  <2> QED BY <1>1, <1>2, <1>5, <2>1 DEF Listed, SameInsn
<1>6. ASSUME NEW i \in Insns, NEW j \in Insns, NEW k \in Insns, <<i, j>> \in order', <<j, k>> \in order'
      PROVE  <<i, k>> \in order'
  BY <1>1, <1>6 DEF Listed
<1> QED BY <1>4, <1>5, <1>6 DEF Listed

\* Where numbers are given to the members of a set, some member has the least.
LEMMA LeastExists ==
  ASSUME NEW B, B # {}, NEW g \in [B -> Nat]
  PROVE  \E m \in B : \A x \in B : ~ (g[x] < g[m])
<1> DEFINE T == {g[x] : x \in B}
<1>1. T \subseteq Nat /\ T # {}
  OBVIOUS
<1>2. PICK n \in T : \A k \in T : ~ (<<k, n>> \in OpToRel(<, Nat))
  BY <1>1, NatLessThanWellFounded, WFMin
<1>3. PICK m \in B : n = g[m]
  OBVIOUS
<1>4. ASSUME NEW x \in B, g[x] < g[m] PROVE FALSE
  <2>1. g[x] \in Nat /\ n \in Nat /\ g[x] < n /\ g[x] \in T
    BY <1>3, <1>4
  <2>2. <<g[x], n>> \in OpToRel(<, Nat)
    BY <2>1 DEF OpToRel
  <2> QED BY <1>2, <2>1, <2>2
<1> QED BY <1>4

\* A finite set that is ordered has a last member, if it has any.
LEMMA LastExists ==
  ASSUME NEW B, IsFiniteSet(B), B # {}, NEW R,
         \A x \in B : <<x, x>> \notin R,
         \A x, y, z \in B : <<x, y>> \in R /\ <<y, z>> \in R => <<x, z>> \in R
  PROVE  \E m \in B : \A x \in B : <<m, x>> \notin R
<1> DEFINE behind == [x \in B |-> {y \in B : <<x, y>> \in R}]
           g == [x \in B |-> Cardinality(behind[x])]
<1>1. \A x \in B : behind[x] \subseteq B
  OBVIOUS
<1>2. \A x, y \in B : y \in behind[x] <=> <<x, y>> \in R
  OBVIOUS
<1> HIDE DEF behind
<1>3. \A x \in B : IsFiniteSet(behind[x]) /\ Cardinality(behind[x]) \in Nat
  BY <1>1, FS_Subset, FS_CardinalityType
<1>4. g \in [B -> Nat]
  BY <1>3
<1>5. PICK m \in B : \A x \in B : ~ (g[x] < g[m])
  BY <1>4, LeastExists
<1>6. ASSUME NEW x \in B, <<m, x>> \in R PROVE FALSE
  <2>1. behind[x] \subseteq behind[m]
    <3> SUFFICES ASSUME NEW y \in behind[x] PROVE y \in behind[m]
      OBVIOUS
    <3>1. y \in B
      BY <1>1
    <3> QED BY <1>2, <1>6, <3>1
  <2>2. x \in behind[m] /\ x \notin behind[x]
    BY <1>2, <1>6
  <2>3. Cardinality(behind[x]) <= Cardinality(behind[m]) /\ Cardinality(behind[x]) # Cardinality(behind[m])
    BY <1>3, <2>1, <2>2, FS_Subset
  <2>4. g[x] = Cardinality(behind[x]) /\ g[m] = Cardinality(behind[m])
    OBVIOUS
  <2>5. Cardinality(behind[x]) \in Nat /\ Cardinality(behind[m]) \in Nat
    BY <1>3
  <2>6. g[x] < g[m]
    BY <2>3, <2>4, <2>5
  <2> QED BY <1>5, <2>6
<1> QED BY <1>6

-----------------------------------------------------------------------------
\* The neighbours say enough: where placement is allowed, no jump stays in front of
\* what is not one, and nothing else behind a jump.
LEMMA MayPlaceEnough ==
  ASSUME IsFiniteSet(Insns), Listed, NEW kind, NEW c, NEW S \in Cuts(c), MayPlace(kind, c, S)
  PROVE  /\ \A p \in S : ir_is_jbr(insn[p].kind) => ir_is_jbr(kind)
         /\ \A n \in Body(c) \ S : ir_is_jbr(kind) => ir_is_jbr(insn[n].kind)
<1>1. Body(c) \subseteq Live /\ Live \subseteq Insns /\ S \subseteq Body(c)
  BY DEF Body, Live, Cuts
<1>2. ASSUME NEW i \in Body(c), NEW j \in Body(c), i # j PROVE <<i, j>> \in order \/ <<j, i>> \in order
  BY <1>1, <1>2 DEF Listed, Body
<1>3. ASSUME NEW p \in S, ir_is_jbr(insn[p].kind), ~ ir_is_jbr(kind) PROVE FALSE
  <2>1. IsFiniteSet(S) /\ S # {}
    BY <1>1, <1>3, FS_Subset
  <2>2. /\ \A x \in S : <<x, x>> \notin order
        /\ \A x, y, z \in S : <<x, y>> \in order /\ <<y, z>> \in order => <<x, z>> \in order
    BY <1>1 DEF Listed
  <2>3. PICK m \in S : \A x \in S : <<m, x>> \notin order
    BY <2>1, <2>2, LastExists
  <2>4. \A k \in S \ {m} : <<k, m>> \in order
    BY <1>1, <1>2, <2>3
  <2>5. ~ ir_is_jbr(insn[m].kind)
    BY <1>1, <1>3, <2>4 DEF MayPlace
  <2>6. p # m /\ <<p, m>> \in order
    BY <1>3, <2>4, <2>5
  <2> QED BY <1>1, <1>3, <2>5, <2>6 DEF Listed
<1>4. ASSUME NEW n \in Body(c) \ S, ir_is_jbr(kind), ~ ir_is_jbr(insn[n].kind) PROVE FALSE
  <2> DEFINE B == Body(c) \ S  R == {e \in B \X B : <<e[2], e[1]>> \in order}
  <2>1. IsFiniteSet(B) /\ B # {}
    BY <1>1, <1>4, FS_Subset
  <2>2. /\ \A x \in B : <<x, x>> \notin R
        /\ \A x, y, z \in B : <<x, y>> \in R /\ <<y, z>> \in R => <<x, z>> \in R
    BY <1>1 DEF Listed
  <2>a. \A x, y \in B : <<y, x>> \in order => <<x, y>> \in R
    OBVIOUS
  <2>b. B \subseteq Body(c)
    OBVIOUS
  <2> HIDE DEF B, R
  <2>3. PICK m \in B : \A x \in B : <<m, x>> \notin R
    BY <2>1, <2>2, LastExists
  <2>4. \A k \in B \ {m} : <<m, k>> \in order
    BY <1>2, <2>3, <2>a, <2>b
  <2> USE DEF B
  <2>5. ir_is_jbr(insn[m].kind)
    BY <1>1, <1>4, <2>4 DEF MayPlace
  <2>6. n # m /\ <<m, n>> \in order
    BY <1>4, <2>4, <2>5
  <2> QED BY <1>1, <1>4, <2>5, <2>6 DEF Listed
<1> QED BY <1>3, <1>4

\* An instruction that may be placed keeps the list in order and its jumps last.
LEMMA CreateListed ==
  ASSUME IsFiniteSet(Insns), TypeOK, Listed,
         NEW i \in Insns, NEW r \in InsnType, r.kind # "free", NEW S \in SUBSET Insns, ir_create_insn(i, r, S)
  PROVE  Listed'
<1> DEFINE B == Body(r.code)
<1>1. /\ insn' = [insn EXCEPT ![i] = r] /\ i \notin Live
      /\ S \in Cuts(r.code) /\ MayPlace(r.kind, r.code, S)
      /\ order' = order \union (S \X {i}) \union ({i} \X (B \ S))
  BY DEF ir_create_insn
<1>2. /\ B \subseteq Live /\ S \subseteq B /\ Live \subseteq Insns
      /\ \A j \in Live : j \in B <=> insn[j].code = r.code
  BY <1>1 DEF Body, Live, Cuts
<1>3. \A j \in S, k \in B : <<k, j>> \in order => k \in S
  BY <1>1 DEF Cuts
<1>4. /\ Live' = Live \union {i} /\ insn'[i] = r
      /\ \A j \in Live : insn'[j] = insn[j] /\ j # i
  BY <1>1 DEF Live, TypeOK
<1>5. /\ \A p \in S : ir_is_jbr(insn[p].kind) => ir_is_jbr(r.kind)
      /\ \A n \in B \ S : ir_is_jbr(r.kind) => ir_is_jbr(insn[n].kind)
  BY <1>1, MayPlaceEnough
<1>6. \A j, k \in Insns : <<j, k>> \in order => j \in Live /\ k \in Live /\ insn[j].code = insn[k].code
  BY DEF Listed
<1>7. \A j, k \in Insns : <<j, k>> \in order' <=>
        <<j, k>> \in order \/ (j \in S /\ k = i) \/ (j = i /\ k \in B \ S)
  BY <1>1
<1> HIDE DEF B
<1>8. ASSUME NEW j \in Insns, NEW k \in Insns, <<j, k>> \in order'
      PROVE  /\ j \in Live' /\ k \in Live' /\ j # k
             /\ insn'[j].code = insn'[k].code /\ <<k, j>> \notin order'
             /\ ir_is_jbr(insn'[j].kind) => ir_is_jbr(insn'[k].kind)
  <2>1. CASE <<j, k>> \in order
    BY <1>4, <1>6, <1>7, <2>1 DEF Listed
  <2>2. CASE j \in S /\ k = i
    BY <1>2, <1>4, <1>5, <1>6, <1>7, <2>2
  <2>3. CASE j = i /\ k \in B \ S
    BY <1>2, <1>4, <1>5, <1>6, <1>7, <2>3
  <2> QED BY <1>7, <1>8, <2>1, <2>2, <2>3
<1>9. ASSUME NEW j \in Live', NEW k \in Live', j # k, insn'[j].code = insn'[k].code
      PROVE  <<j, k>> \in order' \/ <<k, j>> \in order'
  <2>1. CASE j \in Live /\ k \in Live
    BY <1>2, <1>4, <1>7, <1>9, <2>1 DEF Listed
  <2>2. CASE j = i \/ k = i
    BY <1>2, <1>4, <1>7, <1>9, <2>2
  <2> QED BY <1>4, <2>1, <2>2
<1>10. ASSUME NEW a \in Insns, NEW b \in Insns, NEW c \in Insns, <<a, b>> \in order', <<b, c>> \in order'
       PROVE  <<a, c>> \in order'
  <2>1. CASE <<a, b>> \in order /\ <<b, c>> \in order
    BY <1>7, <2>1 DEF Listed
  <2>2. CASE b = i
    <3>1. a \in S /\ c \in B \ S
      BY <1>4, <1>6, <1>7, <1>10, <2>2, <1>2
    <3>2. <<a, c>> \in order \/ <<c, a>> \in order
      BY <1>2, <3>1 DEF Listed
    <3> QED BY <1>2, <1>3, <1>7, <3>1, <3>2
  <2>3. CASE a = i /\ b # i
    <3>1. b \in B \ S /\ c # i
      BY <1>2, <1>4, <1>6, <1>7, <1>10, <2>3
    <3>2. <<b, c>> \in order /\ c \in B
      BY <1>2, <1>6, <1>7, <1>10, <2>3, <3>1
    <3> QED BY <1>3, <1>7, <2>3, <3>1, <3>2
  <2>4. CASE c = i /\ b # i
    <3>1. b \in S /\ a # i
      BY <1>2, <1>4, <1>6, <1>7, <1>10, <2>4
    <3>2. <<a, b>> \in order /\ a \in B
      BY <1>2, <1>6, <1>7, <1>10, <2>4, <3>1
    <3> QED BY <1>3, <1>7, <2>4, <3>1, <3>2
  <2> QED BY <1>7, <1>10, <2>1, <2>2, <2>3, <2>4
<1> QED BY <1>8, <1>9, <1>10 DEF Listed

\* Every operation keeps the lists.
LEMMA ListedInductive == IsFiniteSet(Insns) /\ TypeOK /\ Listed /\ [Next]_funcVars => Listed'
<1> SUFFICES ASSUME IsFiniteSet(Insns), TypeOK, Listed, [Next]_funcVars PROVE Listed'
  OBVIOUS
<1>1. UNCHANGED graph => Listed'
  BY DEF graph, Listed, Live
<1>2. CASE Declare \/ UNCHANGED funcVars
  BY <1>1, <1>2 DEF Declare, ir_var_create, ir_code_create, funcVars
<1>3. CASE Build
  <2>1. PICK i \in Insns, r \in InsnType, S \in SUBSET Insns : r.kind # "free" /\ ir_create_insn(i, r, S)
    BY <1>3, BuildCreates
  <2> QED BY <2>1, CreateListed
<1>4. CASE Edit
  BY <1>4, EditKept, KeptListed
<1>5. CASE DeleteCode
  <2>0. \A i \in Insns : SameInsn(insn[i], insn[i])
    BY DEF SameInsn
  <2>1. ASSUME NEW c \in codes, ir_code_delete(c) PROVE Listed'
    BY <2>0, <2>1, DeleteKept, KeptListed DEF ir_code_delete
  <2>2. ASSUME NEW s \in Codes, CodeDeleteSucc(s) PROVE Listed'
    BY <1>1, <2>2 DEF CodeDeleteSucc
  <2>3. ASSUME NEW i \in Insns, CodeDeletePhi(i) PROVE Listed'
    BY <2>3, PhiKept, KeptListed
  <2>4. CASE CodeDeleteEnd
    BY <2>0, <2>4, DeleteKept, KeptListed DEF CodeDeleteEnd
  <2> QED BY <1>5, <2>1, <2>2, <2>3, <2>4 DEF DeleteCode
<1> QED BY <1>2, <1>3, <1>4, <1>5 DEF Next

\* The list of every block is a total order with the jumps at its end, although
\* ir_emplace_insn looks at the neighbours of the place only, and no instruction
\* outlives the variable it writes.
THEOREM BlocksAreWellFormed ==
  ASSUME IsFiniteSet(Insns)
  PROVE  Spec => []WellFormed
<1>1. Init => Listed
  BY DEF Init, Listed, Live, Blank, MkInsn
<1>2. TypeOK /\ Listed => JumpsLast
  BY ListedIsInv
<1>3. DestsExist /\ JumpsLast => WellFormed
  BY DEF WellFormed
<1>4. TypeOK /\ Listed /\ [Next]_funcVars => Listed'
  BY ListedInductive
<1> QED BY <1>1, <1>2, <1>3, <1>4, TypeCorrect, SingleAssignment, PTL DEF Spec

-----------------------------------------------------------------------------
(* The paths of a phi.                                                      *)

\* No phi is new and none has lost a path.
Bound == \A k \in Insns : insn'[k].kind = "phi" =>
           insn[k].kind = "phi" /\ \A p \in Codes : insn[k].bind[p] # None => insn'[k].bind[p] # None

\* Phis that lose no path keep at least two.
LEMMA BoundKeeps == ~ halted /\ PhisHavePaths /\ Bound => PhisHavePaths'
  BY DEF Bound, PhisHavePaths, Live

\* Deleting instructions takes no path from those that stay.
LEMMA DeleteBound ==
  ASSUME NEW u, NEW a, NEW D, DeleteFrom(insn, u, a, D)
  PROVE  Bound
  BY DEF DeleteFrom, Erase, Blank, MkInsn, Bound

\* A path is bound to another operand by ir_var_replace, never to none.
LEMMA ReplaceBound ==
  ASSUME NEW f, NEW u, NEW x, NEW o, o # None, NEW k \in Insns, f[k] \in InsnType, NEW p \in Codes, f[k].bind[p] # None
  PROVE  ReplaceIn(f, u, x, o)[k].bind[p] # None
  BY DEF ReplaceIn, Subst, MkInsn, InsnType

\* Editing takes no path from a phi.
LEMMA EditBound == TypeOK /\ Edit => Bound /\ ~ halted
<1> SUFFICES ASSUME TypeOK, Edit PROVE Bound /\ ~ halted
  OBVIOUS
<1>0. (\A k \in Insns : insn[k] \in InsnType) /\ Live \subseteq Insns /\ None \notin Operands
  BY DEF TypeOK, Live, Operands
<1>1. ASSUME NEW v \in vars, ir_var_delete(v) PROVE Bound /\ ~ halted
  BY <1>1, DeleteBound DEF ir_var_delete, Idle
<1>2. ASSUME NEW x \in vars, NEW o \in Operands, ir_var_replace(x, o) PROVE Bound /\ ~ halted
  <2>1. \A k \in Insns : insn'[k].kind = insn[k].kind
    BY <1>0, <1>2, ReplaceKeeps DEF ir_var_replace
  <2>2. \A k \in Insns : \A p \in Codes : insn[k].bind[p] # None => insn'[k].bind[p] # None
    BY <1>0, <1>2, ReplaceBound DEF ir_var_replace
  <2> QED BY <1>2, <2>1, <2>2 DEF ir_var_replace, Idle, Bound
<1>3. ASSUME NEW i \in Live, ir_insn_delete(i) PROVE Bound /\ ~ halted
  BY <1>3, DeleteBound DEF ir_insn_delete, Idle
<1>4. ASSUME NEW i \in Live, NEW r, r.kind = insn[i].kind,
             \A p \in Codes : insn[i].bind[p] # None => r.bind[p] # None,
             insn' = [insn EXCEPT ![i] = r]
      PROVE  Bound
  BY <1>0, <1>4 DEF Bound, TypeOK
<1>5. ASSUME NEW i \in Live, NEW s \in Slots, NEW o \in Operands, SetOperand(i, s, o) PROVE Bound /\ ~ halted
  <2> DEFINE r == [insn[i] EXCEPT !.arg = [@ EXCEPT ![s] = o]]
  <2>1. r.kind = insn[i].kind /\ r.bind = insn[i].bind
    BY <1>0 DEF InsnType
  <2>2. insn' = [insn EXCEPT ![i] = r] /\ ~ halted
    BY <1>5 DEF SetOperand, ir_insn_set_operand, Idle
  <2> HIDE DEF r
  <2> QED BY <1>4, <2>1, <2>2
<1>6. ASSUME NEW i \in Live, NEW c \in Codes, NEW o \in Operands, SetBinding(i, c, o) PROVE Bound /\ ~ halted
  <2> DEFINE r == [insn[i] EXCEPT !.bind = [@ EXCEPT ![c] = o]]
  <2>0. insn[i] \in InsnType /\ insn[i].bind \in [Codes -> Values]
    BY <1>0 DEF InsnType
  <2>1. r.kind = insn[i].kind /\ r.bind = [insn[i].bind EXCEPT ![c] = o]
    BY <2>0 DEF InsnType
  <2>2. insn' = [insn EXCEPT ![i] = r] /\ ~ halted
    BY <1>6 DEF SetBinding, ir_insn_set_operand, Idle
  <2> HIDE DEF r
  <2>3. \A p \in Codes : insn[i].bind[p] # None => r.bind[p] # None
    BY <1>0, <2>0, <2>1
  <2> QED BY <1>4, <2>1, <2>2, <2>3
<1>7. ASSUME NEW i \in Live, NEW d \in vars, ir_insn_set_return(i, d) PROVE Bound /\ ~ halted
  <2> DEFINE r == [insn[i] EXCEPT !.dest = d]
  <2>1. r.kind = insn[i].kind /\ r.bind = insn[i].bind
    BY <1>0 DEF InsnType
  <2>2. insn' = [insn EXCEPT ![i] = r] /\ ~ halted
    BY <1>7 DEF ir_insn_set_return, Idle
  <2> HIDE DEF r
  <2> QED BY <1>4, <2>1, <2>2
<1>8. CASE ir_func_recalc_flow
  BY <1>8 DEF ir_func_recalc_flow, graph, Idle, Bound
<1> QED BY <1>1, <1>2, <1>3, <1>5, <1>6, <1>7, <1>8 DEF Edit

\* A phi from which a path is removed becomes its last operand if it has one other
\* path, so that what stays a phi has two.
LEMMA PhiPaths ==
  ASSUME TypeOK, PhisHavePaths, NEW i \in Insns, CodeDeletePhi(i)
  PROVE  PhisHavePaths'
<1> DEFINE c == deleting.code  f == WithoutPath(i, c)  u == UsedWithoutPath(i, c)
<1>0. ~ halted /\ insn[i].kind = "phi" /\ TwoPaths(insn[i])
  BY DEF CodeDeletePhi, TypeOK, PhisHavePaths, Live, TwoPaths
<1>1. \A k \in Insns : /\ f[k].kind = insn[k].kind
                       /\ \A p \in Codes : f[k].bind[p] = IF k = i /\ p = c THEN None ELSE insn[k].bind[p]
  BY WithoutPathKeeps
<1>2. \A k \in Insns : f[k] \in InsnType
  <2>1. insn[i] \in InsnType /\ insn[i].bind \in [Codes -> Values]
    BY DEF TypeOK, InsnType
  <2>2. [insn[i].bind EXCEPT ![c] = None] \in [Codes -> Values]
    BY <2>1 DEF Values
  <2>3. f \in [Insns -> InsnType]
    BY <2>1, <2>2, SetBindType DEF WithoutPath, TypeOK
  <2> QED BY <2>3
<1>3. \A p \in OtherPaths(i, c) : p \in Codes /\ p # c /\ f[i].bind[p] # None
  BY <1>1 DEF OtherPaths
<1>4. OtherPaths(i, c) # {}
  BY <1>0 DEF OtherPaths, TwoPaths
<1>5. \A k \in Insns \ {i} : insn[k].kind = "phi" => TwoPaths(insn[k])
  BY <1>0 DEF PhisHavePaths, Live, TwoPaths
<1>6. \A k \in Insns \ {i} : insn[k].kind = "phi" => TwoPaths(f[k])
  BY <1>1, <1>5 DEF TwoPaths
<1> HIDE DEF f, u
<1>7. ASSUME NEW p \in OtherPaths(i, c), CollapsePhi(i, f, u, p) PROVE PhisHavePaths'
  <2> DEFINE x == f[i].dest  o == f[i].bind[p]  g == ReplaceIn(f, u, x, o)
  <2>1. CASE o = x
    BY <1>7, <2>1 DEF CollapsePhi, PhisHavePaths
  <2>2. CASE o # x
    <3>1. insn' = Erase(g, {i}) /\ o # None
      BY <1>3, <1>7, <2>2 DEF CollapsePhi, DeleteFrom
    <3>2. \A k \in Insns : g[k].kind = f[k].kind
      BY <1>2, ReplaceKeeps
    <3>3. \A k \in Insns : \A q \in Codes : f[k].bind[q] # None => g[k].bind[q] # None
      BY <1>2, <3>1, ReplaceBound
    <3> HIDE DEF g, x, o
    <3>4. ASSUME NEW k \in Insns, insn'[k].kind = "phi" PROVE TwoPaths(insn'[k])
      <4>1. k # i /\ insn'[k] = g[k]
        BY <3>1, <3>4 DEF Erase, Blank, MkInsn
      <4>2. insn[k].kind = "phi"
        BY <1>1, <3>2, <3>4, <4>1
      <4> QED BY <1>6, <3>3, <4>1, <4>2 DEF TwoPaths
    <3> QED BY <3>4 DEF PhisHavePaths, Live, TwoPaths
  <2> QED BY <2>1, <2>2
<1>8. CASE insn' = f /\ \A p \in OtherPaths(i, c) : OtherPaths(i, c) # {p}
  <2>1. PICK p \in OtherPaths(i, c), q \in OtherPaths(i, c) : p # q
    BY <1>4, <1>8
  <2>2. TwoPaths(f[i])
    BY <1>3, <2>1 DEF TwoPaths
  <2>3. \A k \in Insns : insn'[k].kind = "phi" => TwoPaths(insn'[k])
    BY <1>1, <1>6, <1>8, <2>2
  <2> QED BY <2>3 DEF PhisHavePaths, Live, TwoPaths
<1> QED BY <1>7, <1>8 DEF f, u, CodeDeletePhi, remove_combinator_path

\* Every operation leaves each phi at least two paths.
LEMMA PathsInductive == TypeOK /\ PhisHavePaths /\ [Next]_funcVars => PhisHavePaths'
<1> SUFFICES ASSUME TypeOK, PhisHavePaths, [Next]_funcVars PROVE PhisHavePaths'
  OBVIOUS
<1>1. UNCHANGED <<graph, halted>> => PhisHavePaths'
  BY DEF graph, PhisHavePaths, Live
<1>2. CASE Declare \/ UNCHANGED funcVars
  BY <1>1, <1>2 DEF Declare, ir_var_create, ir_code_create, funcVars, ctl
<1>3. CASE Build
  <2>1. PICK i \in Insns, r \in InsnType, S \in SUBSET Insns :
          r.kind # "free" /\ ir_create_insn(i, r, S) /\ (r.kind = "phi" => TwoPaths(r))
    BY <1>3, BuildFlow
  <2>2. insn' = [insn EXCEPT ![i] = r] /\ ~ halted
    BY <2>1 DEF ir_create_insn, Idle
  <2>3. ASSUME NEW k \in Insns, insn'[k].kind = "phi" PROVE TwoPaths(insn'[k])
    <3>1. CASE k = i
      BY <2>1, <2>2, <2>3, <3>1 DEF TypeOK
    <3>2. CASE k # i
      BY <2>2, <2>3, <3>2 DEF TypeOK, PhisHavePaths, Live, TwoPaths
    <3> QED BY <3>1, <3>2
  <2> QED BY <2>3 DEF PhisHavePaths, Live, TwoPaths
<1>4. CASE Edit
  BY <1>4, EditBound, BoundKeeps
<1>5. CASE DeleteCode
  <2>1. ASSUME NEW c \in codes, ir_code_delete(c) PROVE PhisHavePaths'
    BY <2>1, DeleteBound, BoundKeeps DEF ir_code_delete, Idle
  <2>2. ASSUME NEW s \in Codes, CodeDeleteSucc(s) PROVE PhisHavePaths'
    BY <1>1, <2>2 DEF CodeDeleteSucc
  <2>3. ASSUME NEW i \in Insns, CodeDeletePhi(i) PROVE PhisHavePaths'
    BY <2>3, PhiPaths
  <2>4. CASE CodeDeleteEnd
    BY <2>4, DeleteBound, BoundKeeps DEF CodeDeleteEnd
  <2> QED BY <1>5, <2>1, <2>2, <2>3, <2>4 DEF DeleteCode
<1> QED BY <1>2, <1>3, <1>4, <1>5 DEF Next

\* However blocks are deleted, a phi that is left with one path becomes what that
\* path binds; no phi has fewer than two.
THEOREM PhisKeepPaths == Spec => []PhisHavePaths
<1>1. Init => PhisHavePaths
  BY DEF Init, PhisHavePaths, Live, Blank, MkInsn
<1> QED BY <1>1, PathsInductive, TypeCorrect, PTL DEF Spec

-----------------------------------------------------------------------------
(* The passes of the optimizer.                                            *)

OptInv == TypeOK /\ DU /\ FlowConsistent /\ PhisHavePaths /\ TargetsDiffer

-----------------------------------------------------------------------------
\* Jumps that are left, in the blocks they were in, still differ in their targets.
LEMMA KeptTargets ==
  ASSUME TargetsDiffer, NEW D, Kept(D)
  PROVE  TargetsDiffer'
<1>1. \A i \in Insns : insn'[i].kind # "free" => insn[i].kind # "free" /\ SameInsn(insn'[i], insn[i])
  BY DEF Kept, SameInsn
<1> QED BY <1>1 DEF TargetsDiffer, Live, SameInsn

\* Every step of ir_code_delete leaves the instructions it does not delete in place.
LEMMA DeleteCodeKept == ASSUME TypeOK, DeleteCode PROVE \E D : Kept(D)
<1>0. \A i \in Insns : SameInsn(insn[i], insn[i])
  BY DEF SameInsn
<1>1. ASSUME NEW c \in codes, ir_code_delete(c) PROVE \E D : Kept(D)
  BY <1>0, <1>1, DeleteKept DEF ir_code_delete
<1>2. ASSUME NEW s \in Codes, CodeDeleteSucc(s) PROVE \E D : Kept(D)
  BY <1>0, <1>2, NothingKept DEF CodeDeleteSucc, graph
<1>3. ASSUME NEW i \in Insns, CodeDeletePhi(i) PROVE \E D : Kept(D)
  BY <1>3, PhiKept
<1>4. CASE CodeDeleteEnd
  BY <1>0, <1>4, DeleteKept DEF CodeDeleteEnd
<1> QED BY <1>1, <1>2, <1>3, <1>4 DEF DeleteCode

\* What the passes leave to the operations of IrFunc.
LEMMA LibraryStep == OptInv /\ (DeleteCode \/ ir_func_recalc_flow \/ UNCHANGED funcVars) => OptInv'
<1> SUFFICES ASSUME OptInv, DeleteCode \/ ir_func_recalc_flow \/ UNCHANGED funcVars PROVE OptInv'
  OBVIOUS
<1>1. TypeOK /\ DU /\ FlowConsistent /\ PhisHavePaths /\ TargetsDiffer
  BY DEF OptInv
<1>2. CASE DeleteCode
  <2>1. [Next]_funcVars
    BY <1>2 DEF Next
  <2>2. TypeOK' /\ DU'
    BY <1>1, <1>2, DeleteCodeType, DeleteCodeDefUse
  <2>3. TargetsDiffer'
    BY <1>1, <1>2, DeleteCodeKept, KeptTargets
  <2> QED BY <1>1, <2>1, <2>2, <2>3, FlowInductive, PathsInductive DEF OptInv
<1>3. CASE ir_func_recalc_flow
  <2>1. Edit /\ [Next]_funcVars
    BY <1>3 DEF Edit, Next
  <2>2. TypeOK' /\ DU'
    BY <1>1, <2>1, EditType, EditDefUse
  <2>3. TargetsDiffer'
    BY <1>1, <2>1, EditKept, KeptTargets
  <2> QED BY <1>1, <2>1, <2>2, <2>3, FlowInductive, PathsInductive DEF OptInv
<1>4. CASE UNCHANGED funcVars
  BY <1>1, <1>4 DEF OptInv, funcVars, graph, flow, decls, ctl, TypeOK, DU, FlowConsistent, PhisHavePaths, TargetsDiffer, Live
<1> QED BY <1>2, <1>3, <1>4

-----------------------------------------------------------------------------
(* Deleting a set of instructions, after an operand may have been replaced  *)
(* in the others.                                                           *)

\* A pass that deletes a set of instructions keeps the invariant.
LEMMA DeleteManyStep ==
  ASSUME OptInv, Idle, NEW f, NEW u, NEW D, DefUse(f, u, assigned_at), DeleteFrom(f, u, assigned_at, D),
         \A i \in Insns : SameInsn(f[i], insn[i]),
         \A i \in Insns : \A p \in Codes : insn[i].bind[p] # None => f[i].bind[p] # None,
         vars' \subseteq vars, args' \subseteq args, UNCHANGED <<flow, codes, enforce_ssa, ctl>>
  PROVE  OptInv'
<1>1. TypeOK /\ FlowConsistent /\ PhisHavePaths /\ TargetsDiffer /\ ~ halted
  BY DEF OptInv, Idle
<1>2. DU'
  BY <1>1, DeleteDefUse DEF DU
<1>3. TypeOK'
  <2>1. FuncsOK(insn', used_at', assigned_at') /\ order' \subseteq Insns \X Insns
    BY <1>1, DeleteFromType DEF DefUse
  <2> QED BY <1>1, <2>1 DEF FuncsOK, TypeOK, Idle, NotDeleting, flow, ctl
<1>4. Kept(D)
  BY DeleteKept
<1>5. FlowConsistent' /\ TargetsDiffer'
  BY <1>1, <1>4, KeptFlow, KeptTargets DEF flow, ctl
<1>6. Bound
  BY DEF DeleteFrom, Erase, Blank, MkInsn, Bound, SameInsn
<1> QED BY <1>1, <1>2, <1>3, <1>5, <1>6, BoundKeeps DEF OptInv

\* The same where nothing was replaced.
LEMMA DeleteStep ==
  ASSUME OptInv, Idle, NEW D, DeleteFrom(insn, used_at, assigned_at, D),
         vars' \subseteq vars, args' \subseteq args, UNCHANGED <<flow, codes, enforce_ssa, ctl>>
  PROVE  OptInv'
<1>1. DefUse(insn, used_at, assigned_at)
  BY DEF OptInv, DU
<1>2. \A i \in Insns : SameInsn(insn[i], insn[i])
  BY DEF SameInsn
<1> QED BY <1>1, <1>2, DeleteManyStep

\* What a variable is replaced with is an operand of an instruction.
LEMMA FoldedIsOperand ==
  ASSUME TypeOK, NEW i \in Insns, NEW o \in Folded(i)
  PROVE  o \in Values \ {None}
<1>1. \A j \in Insns : ArgsOf(j) \subseteq Values \ {None} /\ BindsOf(j) \subseteq Values \ {None}
  BY DEF TypeOK, InsnType, ArgsOf, BindsOf
<1> QED BY <1>1 DEF Folded, Live

\* const_prop_expr replaces a variable and deletes all that still mentions it.
LEMMA ConstPropStep == ASSUME OptInv, NEW v \in Vars, const_prop_expr(v) PROVE OptInv'
<1>1. TypeOK /\ DU /\ Idle /\ UNCHANGED <<flow, codes, enforce_ssa, deleting>>
  BY DEF OptInv, const_prop_expr, Running
<1>2. ASSUME UNCHANGED <<graph, vars, args>>, halted' = TRUE \/ UNCHANGED halted PROVE OptInv'
  <2>1. TypeOK'
    BY <1>1, <1>2 DEF TypeOK, graph, flow
  <2> QED BY <1>1, <1>2, <2>1 DEF OptInv, graph, flow, DU, FlowConsistent, PhisHavePaths, TargetsDiffer, Live
<1>3. ASSUME NEW i \in assigned_at[v], NEW o \in Folded(i), ReplaceResult(i, o) PROVE OptInv'
  <2> DEFINE f == ReplaceIn(insn, used_at, v, o)  u == Remark(used_at, insn, v, o)
  <2>1. i \in Insns /\ insn[i].dest = v
    BY <1>1 DEF DU, DefUse, Exact
  <2>2. o \in Values /\ o # None
    BY <1>1, <2>1, FoldedIsOperand
  <2>3. CASE o = v
    BY <1>2, <1>3, <2>1, <2>3 DEF ReplaceResult
  <2>4. CASE o # v
    <3>1. DeleteFrom(f, u, assigned_at, u[v] \union assigned_at[v])
          /\ vars' = vars \ {v} /\ args' = args \ {v} /\ UNCHANGED halted
      BY <1>3, <2>1, <2>4 DEF ReplaceResult
    <3>2. DefUse(f, u, assigned_at)
      BY <1>1, <2>2, <2>4, ReplaceDefUse DEF DU
    <3>3. \A k \in Insns : insn[k] \in InsnType
      BY <1>1 DEF TypeOK
    <3>4. \A k \in Insns : SameInsn(f[k], insn[k])
      BY <3>3, ReplaceKeeps DEF SameInsn
    <3>5. \A k \in Insns : \A p \in Codes : insn[k].bind[p] # None => f[k].bind[p] # None
      BY <2>2, <3>3, ReplaceBound
    <3>6. vars' \subseteq vars /\ args' \subseteq args /\ UNCHANGED <<flow, codes, enforce_ssa, ctl>>
      BY <1>1, <3>1 DEF ctl
    <3> HIDE DEF f, u
    <3> QED BY <1>1, <3>1, <3>2, <3>4, <3>5, <3>6, DeleteManyStep
  <2> QED BY <2>3, <2>4
<1> QED BY <1>2, <1>3 DEF const_prop_expr

-----------------------------------------------------------------------------
(* merge_code: the instructions of the second block move to the first.      *)

\* What is left of an instruction that moves to block a or stays where it is.
Moved(i, a, b) == IF insn[i].code = b THEN [insn[i] EXCEPT !.code = a] ELSE insn[i]

\* merge_code keeps the invariant. The one hard case is a jump of the first block: the
\* last one goes, and there is no other, since all would lead to the second block.
LEMMA MergeStep == ASSUME OptInv, NEW a \in Codes, NEW b \in Codes, merge_code(a, b) PROVE OptInv'
<1> DEFINE last == {i \in Body(a) : IsLast(i)}
           f == [i \in Insns |-> IF i \in Body(b) THEN [insn[i] EXCEPT !.code = a] ELSE insn[i]]
<1>1. /\ TypeOK /\ DU /\ FlowConsistent /\ PhisHavePaths /\ TargetsDiffer
      /\ Idle /\ Mergeable(a, b) /\ MayMerge(a, b)
      /\ insn' = Erase(f, last)
      /\ used_at' = ir_unmark_used(used_at, insn, last)
      /\ assigned_at' = Unassign(assigned_at, insn, last)
      /\ order' = Unlink(order, last) \union ((Body(a) \ last) \X Body(b))
      /\ pred' = MergedPred(a, b)
      /\ succ' = [succ EXCEPT ![a] = succ[b], ![b] = {}]
      /\ codes' = codes \ {b}
      /\ UNCHANGED <<vars, args, enforce_ssa, ctl>>
  BY DEF OptInv, merge_code, Running
<1>2. a # b /\ a \in codes /\ succ[a] = {b} /\ pred[b] = {a} /\ deleting.code = None
  BY <1>1 DEF Mergeable, Idle, NotDeleting
<1>3. \A i \in Insns : /\ insn[i] \in InsnType /\ f[i] \in InsnType
                       /\ f[i].kind = insn[i].kind /\ f[i].arg = insn[i].arg /\ f[i].bind = insn[i].bind
                       /\ f[i].target = insn[i].target /\ f[i].dest = insn[i].dest
                       /\ f[i].code = IF i \in Body(b) THEN a ELSE insn[i].code
  BY <1>1 DEF TypeOK, InsnType
<1>4. f \in [Insns -> InsnType]
  BY <1>3
<1>5. \A i \in Insns : VarsOf(f[i]) = VarsOf(insn[i])
  BY <1>3 DEF VarsOf
<1>6. last \subseteq Insns /\ Body(a) \subseteq Insns /\ Body(b) \subseteq Insns
  BY DEF Body, Live
<1>7. \A i \in Insns : insn'[i] = IF i \in last THEN Blank ELSE f[i]
  BY <1>1 DEF Erase
<1>8. Blank.kind = "free" /\ Blank \in InsnType
  BY BlankType DEF Blank, MkInsn
<1> HIDE DEF f
<1>9. DU'
  <2>1. DefUse(insn, used_at, assigned_at)
    BY <1>1 DEF DU
  <2>2. FuncsOK(insn', used_at', assigned_at')
    BY <1>1, <1>4, <1>8, <2>1 DEF DefUse, FuncsOK, Erase, ir_unmark_used, Unassign
  <2>3. Sound(insn', used_at')
    <3> SUFFICES ASSUME NEW v \in Vars, NEW i \in used_at'[v]
                 PROVE  i \in Insns /\ insn'[i].kind # "free" /\ v \in VarsOf(insn'[i])
      BY DEF Sound
    <3>1. i \in used_at[v] /\ ~ (i \in last /\ v \in VarsOf(insn[i]))
      BY <1>1 DEF ir_unmark_used
    <3>2. i \in Insns /\ insn[i].kind # "free" /\ v \in VarsOf(insn[i])
      BY <2>1, <3>1 DEF DefUse, Sound
    <3> QED BY <1>3, <1>5, <1>7, <3>1, <3>2
  <2>4. Complete(insn', used_at')
    <3> SUFFICES ASSUME NEW i \in Insns, insn'[i].kind \notin {"phi", "free"}, NEW v \in VarsOf(insn'[i])
                 PROVE  i \in used_at'[v]
      BY DEF Complete
    <3>1. i \notin last /\ insn[i].kind \notin {"phi", "free"} /\ v \in VarsOf(insn[i])
      BY <1>3, <1>5, <1>7, <1>8
    <3>2. v \in Vars /\ i \in used_at[v]
      BY <2>1, <3>1 DEF DefUse, Complete, VarsOf
    <3> QED BY <1>1, <3>1, <3>2 DEF ir_unmark_used
  <2>5. Exact(insn', assigned_at')
    <3> SUFFICES ASSUME NEW v \in Vars
                 PROVE  assigned_at'[v] = {i \in Insns : insn'[i].kind # "free" /\ insn'[i].dest = v}
      BY DEF Exact
    <3>1. assigned_at[v] = {i \in Insns : insn[i].kind # "free" /\ insn[i].dest = v}
      BY <2>1 DEF DefUse, Exact
    <3>2. assigned_at'[v] = assigned_at[v] \ {i \in last : insn[i].dest = v}
      BY <1>1 DEF Unassign
    <3> HIDE DEF last
    <3> QED BY <1>3, <1>7, <1>8, <3>1, <3>2
  <2> QED BY <2>2, <2>3, <2>4, <2>5 DEF DU, DefUse
<1>10. PhisHavePaths'
  BY <1>1, <1>3, <1>7, <1>8 DEF PhisHavePaths, Live, Idle, ctl
<1>11. /\ codes \subseteq Codes
       /\ \A c \in Codes : succ[c] \subseteq codes
       /\ \A c, d \in Codes : d \in succ[c] <=> c \in pred[d]
       /\ \A c \in Codes \ codes : pred[c] = {} /\ succ[c] = {}
  BY <1>1, <1>2 DEF FlowConsistent, TypeOK
<1>12. /\ \A c \in Codes : succ'[c] = IF c = a THEN succ[b] ELSE IF c = b THEN {} ELSE succ[c]
       /\ \A c \in Codes : pred'[c] = IF c = b THEN {}
                                      ELSE IF c \in succ[b] THEN (pred[c] \ {b}) \union {a} ELSE pred[c]
       /\ b \in Codes /\ a \in Codes
  BY <1>1, <1>2 DEF MergedPred, TypeOK
<1>13. TypeOK'
  <2>1. order' \subseteq Insns \X Insns
    BY <1>1, <1>6 DEF TypeOK, Unlink
  <2>2. pred' \in [Codes -> SUBSET Codes] /\ succ' \in [Codes -> SUBSET Codes]
    BY <1>1, <1>11 DEF MergedPred, TypeOK
  <2> QED BY <1>1, <1>9, <2>1, <2>2 DEF TypeOK, DU, DefUse, FuncsOK, Idle, NotDeleting, ctl
<1>14. b \notin succ[b] /\ \A c \in Codes : b \in succ[c] => c = a
  BY <1>2, <1>11
<1>15. PICK j \in Body(a) : IsLast(j) /\ insn[j].kind \in Jumps /\ insn[j].target = b
  BY <1>1 DEF MayMerge, ConstBranch, Jumps
<1>16. ASSUME NEW i \in Live' PROVE /\ i \in Live /\ i \notin last /\ insn'[i] = f[i]
  BY <1>3, <1>7, <1>8 DEF Live
<1>17. ASSUME NEW i \in Live', insn[i].code = a PROVE insn[i].kind \notin Jumps
  <2>1. i \in Live /\ i # j /\ i \in Insns
    BY <1>15, <1>16, <1>17 DEF Body, Live
  <2>2. insn[i].kind \in Jumps => insn[i].target = b
    BY <1>1, <1>2, <1>17, <2>1 DEF FlowConsistent
  <2> QED BY <1>1, <1>15, <1>17, <2>1, <2>2 DEF TargetsDiffer, Body
<1>18. ASSUME NEW i \in Live'
       PROVE  /\ insn'[i].code = (IF insn[i].code = b THEN a ELSE insn[i].code)
              /\ insn'[i].kind = insn[i].kind /\ insn'[i].target = insn[i].target
              /\ i \in Live /\ i \in Insns
  BY <1>3, <1>16 DEF Body, Live
<1>19. FlowConsistent'
  <2>0. codes' = codes \ {b} /\ deleting' = deleting
    BY <1>1 DEF ctl
  <2>1. \A i \in Live' : insn'[i].code \in codes'
    BY <1>1, <1>2, <1>18 DEF FlowConsistent
  <2>2. \A i \in Live' : insn'[i].kind \in Jumps => insn'[i].target \in succ'[insn'[i].code]
    <3> SUFFICES ASSUME NEW i \in Live', insn'[i].kind \in Jumps
                 PROVE  insn'[i].target \in succ'[insn'[i].code]
      OBVIOUS
    <3>1. insn[i].code # a /\ insn[i].target \in succ[insn[i].code] /\ insn[i].code \in Codes
      BY <1>1, <1>11, <1>17, <1>18 DEF FlowConsistent
    <3> QED BY <1>2, <1>12, <1>18, <3>1
  <2>3. \A c \in Codes : succ'[c] \subseteq codes'
    BY <2>0, <1>2, <1>11, <1>12, <1>14
  <2>4. \A c, d \in Codes : d \in succ'[c] <=> c \in pred'[d]
    <3> SUFFICES ASSUME NEW c \in Codes, NEW d \in Codes PROVE d \in succ'[c] <=> c \in pred'[d]
      OBVIOUS
    <3>1. d \in succ'[c] <=> IF c = a THEN d \in succ[b] ELSE c # b /\ d \in succ[c]
      BY <1>12
    <3>2. c \in pred'[d] <=> d # b /\ IF d \in succ[b] THEN c = a \/ (c \in pred[d] /\ c # b) ELSE c \in pred[d]
      BY <1>12
    <3>3. d \in succ[c] <=> c \in pred[d]
      BY <1>11
    <3>4. d \in succ[b] <=> b \in pred[d]
      BY <1>11
    <3>5. d \in succ[a] <=> d = b
      BY <1>2
    <3> QED BY <1>2, <1>14, <3>1, <3>2, <3>3, <3>4, <3>5
  <2>5. \A c \in Codes \ codes' : pred'[c] = {} /\ succ'[c] = {}
    <3> SUFFICES ASSUME NEW c \in Codes \ codes' PROVE pred'[c] = {} /\ succ'[c] = {}
      OBVIOUS
    <3>1. CASE c = b
      BY <1>2, <1>12, <3>1
    <3>2. CASE c # b
      <4>1. c \notin codes /\ c \notin succ[b] /\ c # a
        BY <2>0, <1>2, <1>11, <1>12, <3>2
      <4> QED BY <1>11, <1>12, <3>2, <4>1
    <3> QED BY <3>1, <3>2
  <2>6. deleting'.code = None /\ None \notin Codes /\ codes' \subseteq Codes
    BY <1>2, <1>11, <2>0
  <2> HIDE DEF last
  <2> QED BY <2>1, <2>2, <2>3, <2>4, <2>5, <2>6 DEF FlowConsistent
<1>20. TargetsDiffer'
  <2> SUFFICES ASSUME NEW i \in Live', NEW k \in Live', i # k, insn'[i].code = insn'[k].code,
                      insn'[i].kind \in Jumps, insn'[k].kind \in Jumps
               PROVE  insn'[i].target # insn'[k].target
    BY DEF TargetsDiffer
  <2>1. insn[i].code # a /\ insn[k].code # a
    BY <1>17, <1>18
  <2>2. insn[i].code = insn[k].code
    BY <1>18, <2>1
  <2> QED BY <1>1, <1>18, <2>2 DEF TargetsDiffer
<1> QED BY <1>1, <1>9, <1>10, <1>13, <1>19, <1>20 DEF OptInv

-----------------------------------------------------------------------------
\* Every step of every pass keeps the invariant.
LEMMA OptStep == OptInv /\ [ir_optimize]_vars_all => OptInv'
<1> SUFFICES ASSUME OptInv, [ir_optimize]_vars_all PROVE OptInv'
  OBVIOUS
<1>1. CASE UNCHANGED funcVars \/ ir_optimize_start \/ const_prop_round \/ opt_branches_end
  BY <1>1, LibraryStep DEF ir_optimize_start, const_prop_round, opt_branches_end
<1>2. CASE opt_unused_vars
  <2>1. vars' \subseteq vars /\ args' \subseteq args /\ UNCHANGED <<flow, codes, enforce_ssa, ctl>> /\ Idle
    BY <1>2 DEF opt_unused_vars, Running
  <2>2. \E D : DeleteFrom(insn, used_at, assigned_at, D)
    BY <1>2 DEF opt_unused_vars
  <2> QED BY <2>1, <2>2, DeleteStep
<1>3. CASE dead_code_dfs
  <2>1. vars' \subseteq vars /\ args' \subseteq args /\ UNCHANGED <<flow, codes, enforce_ssa, ctl>> /\ Idle
    BY <1>3 DEF dead_code_dfs, Running, decls
  <2>2. \E D : DeleteFrom(insn, used_at, assigned_at, D)
    BY <1>3 DEF dead_code_dfs
  <2> QED BY <2>1, <2>2, DeleteStep
<1>4. CASE (\E c \in Codes : DeleteUnreached(c)) \/ DeleteSteps
  <2>1. DeleteCode
    BY <1>4 DEF DeleteUnreached, DeleteSteps, DeleteCode, ir_code_delete
  <2> QED BY <2>1, LibraryStep
<1>5. CASE dead_code_round
  BY <1>5, LibraryStep DEF dead_code_round
<1> QED BY <1>1, <1>2, <1>3, <1>4, <1>5, ConstPropStep, MergeStep DEF ir_optimize, ir_optimize_passes, vars_all

\* However often the passes run, and in whatever order they look at variables and
\* blocks, the invariant of the function they work on holds.
LEMMA OptInvariance == OptSpec => []OptInv
<1>1. OptInit => OptInv
  BY DefUseIsInv DEF OptInit, OptInv, DU
<1> QED BY <1>1, OptStep, PTL DEF OptSpec

\* No pass leaves a freed instruction, or one that has stopped reading it, among the
\* readers of a variable, where the next pass would follow the pointer.
THEOREM PassesKeepReaders == OptSpec => []UsedAtSound
<1>1. OptInv => UsedAtSound
  BY SoundIsInv DEF OptInv, DU, DefUse
<1> QED BY <1>1, OptInvariance, PTL

\* After dead code is gone and blocks are merged by hand, the edges are still those
\* of the jumps, and no jump leads to a block that was deleted.
THEOREM PassesKeepEdges == OptSpec => []FlowConsistent
<1>1. OptInv => FlowConsistent
  BY DEF OptInv
<1> QED BY <1>1, OptInvariance, PTL

\* No pass leaves a phi with fewer than two paths.
THEOREM PassesKeepPaths == OptSpec => []PhisHavePaths
<1>1. OptInv => PhisHavePaths
  BY DEF OptInv
<1> QED BY <1>1, OptInvariance, PTL
-----------------------------------------------------------------------------
(* How blocks end, and why merge_code finds what it asserts: a block that   *)
(* leads anywhere ends for certain somewhere; when dead code is gone, that  *)
(* is its last instruction.                                                 *)

OpArgs(r) == {r.arg[s] : s \in Slots} \ {None}

\* A block that leads anywhere ends for certain.
Ends(c) == Targets(c) = {} \/ \E i \in Body(c) : EndsBlock(i)

\* Nothing is left behind that end.
Ended(c) ==
  /\ \A i \in Body(c), k \in Insns : <<i, k>> \in order => insn[i].kind \notin {"jump", "return"}
  /\ Targets(c) = {} \/ \E i \in Body(c) : EndsBlock(i) /\ IsLast(i)

\* The blocks that opt_dead_code is going to delete or is deleting.
Gone == todo \union {deleting.code}

NoReturnBehind ==
  \A i, k \in Insns : <<i, k>> \in order /\ insn[i].kind \in Jumps => insn[k].kind # "return"

NoResult == \A i \in Live : ir_is_jbr(insn[i].kind) => insn[i].dest = None

Shape == Listed /\ NoReturnBehind /\ NoResult

EndInv ==
  /\ pass # "delete_code" => deleting.code = None
  /\ pass \in {"start", "const_prop", "unused_vars", "dead_code"} => \A c \in codes : Ends(c)
  /\ pass = "delete_code" => /\ todo \subseteq codes /\ deleting.code \notin todo
                             /\ \A c \in codes \ Gone : Ended(c) /\ Targets(c) \intersect Gone = {}
  /\ pass = "branches" => \A c \in codes : Ended(c) /\ succ[c] = Targets(c)

PassInv == OptInv /\ Shape /\ EndInv /\ OptTypeOK

-----------------------------------------------------------------------------
\* The instructions that are not in D keep their result, and a constant condition.
Steadfast(D) ==
  \A i \in Insns \ D : /\ insn'[i].dest = insn[i].dest
                       /\ OpArgs(insn[i]) = {Const} => OpArgs(insn'[i]) = {Const}

\* An operand that is replaced is not a constant.
LEMMA ReplacedConst ==
  ASSUME NEW f, NEW u, NEW x, NEW o, x \in Vars, NEW i \in Insns, f[i] \in InsnType
  PROVE  /\ ReplaceIn(f, u, x, o)[i].dest = f[i].dest
         /\ OpArgs(f[i]) = {Const} => OpArgs(ReplaceIn(f, u, x, o)[i]) = {Const}
<1>1. CASE i \notin u[x]
  BY <1>1 DEF ReplaceIn
<1>2. CASE i \in u[x]
  <2>1. ReplaceIn(f, u, x, o)[i] = Subst(f[i], x, o)
    BY <1>2 DEF ReplaceIn
  <2>2. /\ Subst(f[i], x, o).dest = f[i].dest
        /\ Subst(f[i], x, o).arg = [s \in Slots |-> IF f[i].arg[s] = x THEN o ELSE f[i].arg[s]]
    BY DEF Subst, MkInsn
  <2>3. ASSUME OpArgs(f[i]) = {Const} PROVE OpArgs(Subst(f[i], x, o)) = {Const}
    <3>1. \A s \in Slots : f[i].arg[s] \in {Const, None}
      BY <2>3 DEF OpArgs
    <3>2. \A s \in Slots : Subst(f[i], x, o).arg[s] = f[i].arg[s]
      BY <2>2, <3>1
    <3> QED BY <2>3, <3>2 DEF OpArgs
  <2> QED BY <2>1, <2>2, <2>3
<1> QED BY <1>1, <1>2

\* Deleting D, after operands may have been replaced.
LEMMA DeleteSteadfast ==
  ASSUME NEW f, NEW u, NEW a, NEW D, DeleteFrom(f, u, a, D),
         \A i \in Insns : f[i].dest = insn[i].dest /\ (OpArgs(insn[i]) = {Const} => OpArgs(f[i]) = {Const})
  PROVE  Steadfast(D)
<1>1. \A i \in Insns \ D : insn'[i] = f[i]
  BY DEF DeleteFrom, Erase
<1> QED BY <1>1 DEF Steadfast

\* What is left ends the blocks as before.
LEMMA KeptEnds ==
  ASSUME TypeOK, NEW D, Kept(D), Steadfast(D), UNCHANGED truth
  PROVE  /\ \A i \in Insns \ D : EndsBlock(i) => EndsBlock(i)'
         /\ \A i \in Insns : IsLast(i) => IsLast(i)'
         /\ \A c : Targets(c)' \subseteq Targets(c) /\ Body(c)' = Body(c) \ D
         /\ Shape => Shape'
<1>1. \A i \in Insns \ D : /\ insn'[i].kind = insn[i].kind /\ insn'[i].code = insn[i].code
                           /\ insn'[i].target = insn[i].target
  BY DEF Kept, SameInsn
<1>2. \A i \in Insns \intersect D : insn'[i].kind = "free"
  BY DEF Kept
<1>3. \A i \in Insns : ArgsOf(i) = OpArgs(insn[i]) /\ ArgsOf(i)' = OpArgs(insn'[i])
  BY DEF ArgsOf, OpArgs
<1>4. \A i \in Insns \ D : EndsBlock(i) => EndsBlock(i)'
  BY <1>1, <1>3 DEF EndsBlock, ConstBranch, Steadfast
<1>5. order' \subseteq order
  BY DEF Kept, Unlink
<1>6. \A i \in Insns : IsLast(i) => IsLast(i)'
  BY <1>5 DEF IsLast
<1>7. Live' = Live \ D
  BY <1>1, <1>2 DEF Live
<1>8. \A c : Body(c)' = Body(c) \ D
  BY <1>1, <1>7 DEF Body, Live
<1>9. \A c : Targets(c)' \subseteq Targets(c)
  BY <1>1, <1>8 DEF Targets, Body, Live
<1>10. ASSUME Shape PROVE Shape'
  <2>1. Listed'
    BY <1>10, KeptListed DEF Shape
  <2>2. \A i, k \in Insns : <<i, k>> \in order' => i \notin D /\ k \notin D
    BY DEF Kept, Unlink
  <2>3. NoReturnBehind'
    BY <1>1, <1>5, <1>10, <2>2 DEF Shape, NoReturnBehind
  <2>4. NoResult'
    <3>1. \A i \in Live' : i \in Live /\ i \in Insns \ D
      BY <1>7 DEF Live
    <3> QED BY <1>1, <1>10, <3>1 DEF Shape, NoResult, Steadfast
  <2> QED BY <2>1, <2>3, <2>4 DEF Shape
<1> QED BY <1>4, <1>6, <1>8, <1>9, <1>10

\* A block of which no end is deleted still ends.
LEMMA KeptStillEnds ==
  ASSUME TypeOK, NEW D, Kept(D), Steadfast(D), UNCHANGED truth, NEW c,
         \A i \in Body(c) \intersect D : ~ EndsBlock(i)
  PROVE  (Ends(c) => Ends(c)') /\ (Ended(c) => Ended(c)')
<1>1. /\ \A i \in Insns \ D : EndsBlock(i) => EndsBlock(i)'
      /\ \A i \in Insns : IsLast(i) => IsLast(i)'
      /\ Targets(c)' \subseteq Targets(c) /\ Body(c)' = Body(c) \ D
  BY KeptEnds
<1>2. Body(c) \subseteq Insns
  BY DEF Body, Live
<1>3. Ends(c) => Ends(c)'
  BY <1>1, <1>2 DEF Ends
<1>4. ASSUME Ended(c) PROVE Ended(c)'
  <2>1. ASSUME NEW i \in Body(c)', NEW k \in Insns, <<i, k>> \in order'
        PROVE  insn'[i].kind \notin {"jump", "return"}
    <3>1. i \in Body(c) /\ i \in Insns /\ i \notin D /\ <<i, k>> \in order
      BY <1>1, <1>2, <2>1 DEF Kept, Unlink
    <3> QED BY <1>4, <3>1 DEF Ended, Kept, SameInsn
  <2>2. Targets(c)' = {} \/ \E i \in Body(c)' : EndsBlock(i)' /\ IsLast(i)'
    BY <1>1, <1>2, <1>4 DEF Ended
  <2> QED BY <2>1, <2>2 DEF Ended
<1> QED BY <1>3, <1>4

\* Where no instruction changes, blocks end as before.
LEMMA SameEnds ==
  ASSUME UNCHANGED <<insn, order, truth>>
  PROVE  /\ Shape => Shape'
         /\ \A c : (Ends(c) <=> Ends(c)') /\ (Ended(c) <=> Ended(c)') /\ Targets(c)' = Targets(c)
<1>1. Live' = Live /\ \A c : Body(c)' = Body(c)
  BY DEF Live, Body
<1>2. \A i : EndsBlock(i)' <=> EndsBlock(i)
  BY DEF EndsBlock, ConstBranch, ArgsOf
<1>3. \A i : IsLast(i)' <=> IsLast(i)
  BY DEF IsLast
<1>4. \A c : Targets(c)' = Targets(c)
  BY <1>1 DEF Targets
<1>5. Shape => Shape'
  BY <1>1 DEF Shape, Listed, NoReturnBehind, NoResult
<1>6. ASSUME NEW c PROVE (Ends(c) <=> Ends(c)') /\ (Ended(c) <=> Ended(c)')
  BY <1>1, <1>2, <1>3, <1>4 DEF Ends, Ended
<1> QED BY <1>4, <1>5, <1>6

\* What is left behind no end is an end.
LEMMA EndedEnds == ASSUME NEW c, Ended(c) PROVE Ends(c)
  BY DEF Ended, Ends

\* As the C front end makes them, all blocks that lead anywhere end for certain.
LEMMA OptInitPasses == OptInit => PassInv
<1> SUFFICES ASSUME OptInit PROVE PassInv
  OBVIOUS
<1>1. /\ TypeOK /\ JumpsLast /\ FrontEndShape /\ OptTypeOK /\ Idle
      /\ pass = "start"
  BY DEF OptInit, OptStart
<1>2. OptInv
  BY DefUseIsInv DEF OptInit, OptInv, DU
<1>3. NoReturnBehind
  <2> SUFFICES ASSUME NEW i \in Insns, NEW k \in Insns, <<i, k>> \in order, insn[i].kind \in Jumps
               PROVE  insn[k].kind # "return"
    BY DEF NoReturnBehind
  <2>1. insn[<<i, k>>[1]].kind \in Jumps => insn[<<i, k>>[2]].kind # "return"
    BY <1>1 DEF FrontEndShape
  <2> QED BY <2>1
<1>4. Shape
  BY <1>1, <1>3, ListedIsInv DEF Shape, NoResult, FrontEndShape
<1>5. ASSUME NEW c \in codes PROVE Ends(c)
  <2> SUFFICES ASSUME NEW t \in Targets(c) PROVE \E i \in Body(c) : EndsBlock(i)
    BY DEF Ends
  <2>1. PICK j \in Body(c) : insn[j].kind \in Jumps
    BY DEF Targets
  <2>2. CASE insn[j].kind = "jump"
    BY <2>1, <2>2 DEF EndsBlock
  <2>3. CASE insn[j].kind = "branch"
    <3>1. PICK k \in Live : insn[k].code = insn[j].code /\ insn[k].kind = "jump"
      BY <1>1, <2>1, <2>3 DEF FrontEndShape, Body
    <3> QED BY <2>1, <3>1 DEF EndsBlock, Body
  <2> QED BY <2>1, <2>2, <2>3 DEF Jumps
<1>6. EndInv
  BY <1>1, <1>5 DEF EndInv, Idle, NotDeleting
<1> QED BY <1>1, <1>2, <1>4, <1>6 DEF PassInv

\* What a step may not do to the code it leaves alone.
PassRest == Shape' /\ EndInv' /\ OptTypeOK'

\* Between two passes, or two rounds of one, nothing is deleted.
LEMMA RoundEnds == ASSUME PassInv, ir_optimize_start \/ const_prop_round \/ opt_branches_end PROVE PassRest
<1>1. /\ UNCHANGED <<insn, order, truth, deleting, codes, vars, op, halted>>
      /\ pass \in {"start", "const_prop", "branches"} /\ pass' \in {"const_prop", "unused_vars", "done"}
      /\ todo' \subseteq vars /\ loop' = FALSE
  BY DEF ir_optimize_start, const_prop_round, opt_branches_end, Running, Go, funcVars, graph, ctl, decls
<1>2. again' \in BOOLEAN
  BY DEF ir_optimize_start, const_prop_round, opt_branches_end, PassInv, OptTypeOK, FreshFlag
<1>3. Shape /\ EndInv /\ OptTypeOK
  BY DEF PassInv
<1>4. Shape' /\ \A c : (Ends(c) => Ends(c)') /\ (Ended(c) => Ended(c)')
  BY <1>1, <1>3, SameEnds
<1>5. OptTypeOK'
  BY <1>1, <1>2, <1>3 DEF OptTypeOK, Passes
<1>6. pass # "delete_code" /\ pass' # "delete_code" /\ pass' # "branches"
  BY <1>1
<1>7. \A c \in codes : Ends(c)
  BY <1>1, <1>3, EndedEnds DEF EndInv
<1>8. EndInv'
  BY <1>1, <1>3, <1>4, <1>6, <1>7 DEF EndInv
<1> QED BY <1>4, <1>5, <1>8 DEF PassRest

\* When dead code is gone the edges are those of the jumps.
LEMMA DeadRoundEnds == ASSUME PassInv, dead_code_round PROVE PassRest
<1>1. /\ UNCHANGED <<insn, order, truth, deleting, codes, vars, op, halted>>
      /\ pass = "delete_code" /\ pass' \in {"dead_code", "branches"} /\ Idle
      /\ todo = {} /\ todo' = {} /\ loop' = FALSE
      /\ succ' = [c \in Codes |-> IF c \in codes THEN Targets(c) ELSE succ[c]]
  BY DEF dead_code_round, ir_func_recalc_flow, Running, Go, funcVars, graph, ctl, decls
<1>2. again' \in BOOLEAN
  BY DEF dead_code_round, PassInv, OptTypeOK
<1>3. Shape /\ EndInv /\ OptTypeOK /\ TypeOK
  BY DEF PassInv, OptInv
<1>4. Shape' /\ \A c : (Ends(c) => Ends(c)') /\ (Ended(c) => Ended(c)') /\ Targets(c)' = Targets(c)
  BY <1>1, <1>3, SameEnds
<1>5. OptTypeOK'
  BY <1>1, <1>2, <1>3 DEF OptTypeOK, Passes
<1>6. deleting.code = None /\ None \notin codes /\ codes \subseteq Codes
  BY <1>1, <1>3 DEF Idle, NotDeleting, TypeOK
<1>7. \A c \in codes : Ended(c) /\ Ends(c)
  BY <1>1, <1>3, <1>6, EndedEnds DEF EndInv, Gone
<1>8. EndInv'
  BY <1>1, <1>4, <1>6, <1>7 DEF EndInv
<1> QED BY <1>4, <1>5, <1>8 DEF PassRest

-----------------------------------------------------------------------------
\* A pass over the variables deletes no instruction that ends a block.
LEMMA NoEndGone ==
  ASSUME PassInv, NEW D, Kept(D), Steadfast(D), UNCHANGED <<truth, codes, deleting>>,
         pass \in {"const_prop", "unused_vars"}, pass' \in {"const_prop", "unused_vars", "dead_code"},
         \A i \in D : i \in Live => ~ EndsBlock(i)
  PROVE  Shape' /\ EndInv'
<1>1. TypeOK /\ Shape /\ EndInv /\ UNCHANGED truth
  BY DEF PassInv, OptInv
<1>2. Shape'
  BY <1>1, KeptEnds
<1>3. ASSUME NEW c \in codes PROVE Ends(c)'
  <2>1. Ends(c)
    BY <1>1 DEF EndInv
  <2>2. \A i \in Body(c) \intersect D : ~ EndsBlock(i)
    BY DEF Body
  <2> QED BY <1>1, <2>1, <2>2, KeptStillEnds
<1>4. EndInv'
  BY <1>1, <1>3 DEF EndInv
<1> QED BY <1>2, <1>4

\* An instruction with a result ends no block.
LEMMA ResultsEndNothing == ASSUME Shape, NEW i \in Live, insn[i].dest # None PROVE ~ EndsBlock(i)
  BY DEF Shape, NoResult, ir_is_jbr, EndsBlock, ConstBranch

\* const_prop_expr deletes the writer of the variable that it replaced.
LEMMA ConstPropRest == ASSUME PassInv, NEW v \in Vars, const_prop_expr(v) PROVE PassRest
<1>1. /\ Idle /\ pass = "const_prop" /\ pass' = pass /\ v \in todo /\ todo' = todo \ {v}
      /\ UNCHANGED <<flow, codes, enforce_ssa, deleting, truth, op, again>>
  BY DEF const_prop_expr, Running
<1>2. TypeOK /\ DU /\ Shape /\ EndInv /\ OptTypeOK
  BY DEF PassInv, OptInv
<1>3. ASSUME UNCHANGED <<graph, vars, args>>, halted' = TRUE \/ UNCHANGED halted, loop' \in BOOLEAN
      PROVE  PassRest
  <2>1. UNCHANGED <<insn, order, truth>>
    BY <1>1, <1>3 DEF graph
  <2>2. Shape' /\ \A c : Ends(c) => Ends(c)'
    BY <1>2, <2>1, SameEnds
  <2>3. EndInv'
    BY <1>1, <1>2, <2>2 DEF EndInv
  <2>4. OptTypeOK'
    BY <1>1, <1>2, <1>3 DEF OptTypeOK
  <2> QED BY <2>2, <2>3, <2>4 DEF PassRest
<1>4. ASSUME NEW i \in assigned_at[v], NEW o \in Folded(i), ReplaceResult(i, o), loop' = TRUE PROVE PassRest
  <2> DEFINE f == ReplaceIn(insn, used_at, v, o)  u == Remark(used_at, insn, v, o)
             D == u[v] \union assigned_at[v]
  <2>1. i \in Insns /\ insn[i].dest = v
    BY <1>2 DEF DU, DefUse, Exact
  <2>2. o \in Values /\ o # None
    BY <1>2, <2>1, FoldedIsOperand
  <2>3. CASE o = v
    BY <1>3, <1>4, <2>1, <2>3 DEF ReplaceResult
  <2>4. CASE o # v
    <3>1. DeleteFrom(f, u, assigned_at, D) /\ vars' = vars \ {v} /\ UNCHANGED halted
      BY <1>4, <2>1, <2>4 DEF ReplaceResult
    <3>2. \A k \in Insns : insn[k] \in InsnType
      BY <1>2 DEF TypeOK
    <3>3. \A k \in Insns : SameInsn(f[k], insn[k])
      BY <3>2, ReplaceKeeps DEF SameInsn
    <3>4. \A k \in Insns : f[k].dest = insn[k].dest /\ (OpArgs(insn[k]) = {Const} => OpArgs(f[k]) = {Const})
      <4> QED BY <3>2, ReplacedConst
    <3>5. u[v] = {}
      BY DEF Remark
    <3>6. \A k \in assigned_at[v] : k \in Live /\ insn[k].dest # None
      BY <1>2 DEF DU, DefUse, Exact, Live
    <3>7. \A k \in D : k \in Live => ~ EndsBlock(k)
      BY <1>2, <3>5, <3>6, ResultsEndNothing
    <3> HIDE DEF f, u, D
    <3>8. Kept(D) /\ Steadfast(D)
      BY <3>1, <3>3, <3>4, DeleteKept, DeleteSteadfast
    <3>9. Shape' /\ EndInv'
      BY <1>1, <3>7, <3>8, NoEndGone
    <3>10. OptTypeOK'
      BY <1>1, <1>2, <1>4, <3>1 DEF OptTypeOK
    <3> QED BY <3>9, <3>10 DEF PassRest
  <2> QED BY <2>3, <2>4
<1>5. loop' \in BOOLEAN
  BY <1>2 DEF const_prop_expr, OptTypeOK
<1> QED BY <1>3, <1>4, <1>5 DEF const_prop_expr

\* The readers of an unused variable are phis, which have a result.
LEMMA UnusedRest == ASSUME PassInv, opt_unused_vars PROVE PassRest
<1> DEFINE D == UNION {used_at[v] \union assigned_at[v] : v \in vars \ UsedVars}
<1>1. /\ Idle /\ pass = "unused_vars" /\ pass' \in {"unused_vars", "dead_code"} /\ todo' = {} /\ loop' = FALSE
      /\ DeleteFrom(insn, used_at, assigned_at, D)
      /\ UNCHANGED <<codes, deleting, halted, truth, op>> /\ again' = (again \/ vars \ UsedVars # {})
  BY DEF opt_unused_vars, Running, Go, ctl
<1>2. TypeOK /\ DU /\ Shape /\ EndInv /\ OptTypeOK
  BY DEF PassInv, OptInv
<1>3. \A v \in ReadByMore : v \in UsedVars
  BY DEF ReadByMore, UsedVars
<1>4. ASSUME NEW i \in D, i \in Live PROVE ~ EndsBlock(i)
  <2>1. PICK v \in vars \ UsedVars : i \in used_at[v] \union assigned_at[v]
    BY <1>4
  <2>2. v \in Vars
    BY <1>2 DEF TypeOK
  <2>3. CASE i \in assigned_at[v]
    BY <1>2, <1>4, <2>2, <2>3, ResultsEndNothing DEF DU, DefUse, Exact
  <2>4. CASE i \in used_at[v]
    <3>1. insn[i].kind = "phi"
      BY <1>3, <2>1, <2>4 DEF ReadByMore
    <3> QED BY <3>1 DEF EndsBlock, ConstBranch
  <2> QED BY <2>1, <2>3, <2>4
<1>5. \A i \in Insns : SameInsn(insn[i], insn[i])
  BY DEF SameInsn
<1> HIDE DEF D
<1>6. Kept(D) /\ Steadfast(D)
  BY <1>1, <1>5, DeleteKept, DeleteSteadfast
<1>7. Shape' /\ EndInv'
  BY <1>1, <1>4, <1>6, NoEndGone
<1>8. OptTypeOK'
  BY <1>1, <1>2 DEF OptTypeOK, Passes
<1> QED BY <1>7, <1>8 DEF PassRest

-----------------------------------------------------------------------------
(* opt_dead_code.                                                           *)

\* No jump leads to no block.
LEMMA TargetsExist == ASSUME TypeOK, NEW c PROVE None \notin Targets(c) /\ Targets(c) \subseteq Codes
<1>1. \A i \in Insns : insn[i] \in InsnType
  BY DEF TypeOK
<1> QED BY <1>1 DEF Targets, Body, Live, InsnType

\* The pairs of the order, by their members.
LEMMA Pairs ==
  ASSUME TypeOK, NEW i \in Insns
  PROVE  /\ Dead(i) <=> \E k \in Insns : <<k, i>> \in order /\ EndsBlock(k)
         /\ IsLast(i) <=> \A k \in Insns : <<i, k>> \notin order
<1>1. \A e \in order : e = <<e[1], e[2]>> /\ e[1] \in Insns /\ e[2] \in Insns
  BY DEF TypeOK
<1>2. \A j, k \in Insns : <<j, k>>[1] = j /\ <<j, k>>[2] = k
  OBVIOUS
<1>3. Dead(i) => \E k \in Insns : <<k, i>> \in order /\ EndsBlock(k)
  BY <1>1 DEF Dead
<1>4. ASSUME NEW k \in Insns, <<k, i>> \in order, EndsBlock(k) PROVE Dead(i)
  BY <1>2, <1>4 DEF Dead
<1>5. IsLast(i) => \A k \in Insns : <<i, k>> \notin order
  BY <1>2 DEF IsLast
<1>6. (\A k \in Insns : <<i, k>> \notin order) => IsLast(i)
  BY <1>1 DEF IsLast
<1> QED BY <1>3, <1>4, <1>5, <1>6

\* Of the ends of a block, the first is not dead.
LEMMA FirstEnd ==
  ASSUME IsFiniteSet(Insns), TypeOK, Listed, NEW c, NEW i \in Body(c), EndsBlock(i)
  PROVE  \E e \in Body(c) : EndsBlock(e) /\ ~ Dead(e)
<1> DEFINE B == {e \in Body(c) : EndsBlock(e)}
           R == {p \in B \X B : <<p[2], p[1]>> \in order}
<1>1. B \subseteq Insns /\ B # {}
  BY DEF Body, Live
<1>2. IsFiniteSet(B)
  BY <1>1, FS_Subset
<1>3. \A x, y \in B : <<x, y>> \in R <=> <<y, x>> \in order
  OBVIOUS
<1>4. \A x \in B : \A k \in Insns : <<k, x>> \in order /\ EndsBlock(k) => k \in B
  BY <1>1 DEF Listed, Body
<1> HIDE DEF R
<1>5. \A x \in B : <<x, x>> \notin R
  BY <1>1, <1>3 DEF Listed
<1>6. ASSUME NEW x \in B, NEW y \in B, NEW z \in B, <<x, y>> \in R, <<y, z>> \in R PROVE <<x, z>> \in R
  BY <1>1, <1>3, <1>6 DEF Listed
<1>7. PICK e \in B : \A x \in B : <<e, x>> \notin R
  <2> HIDE DEF B
  <2> QED BY <1>1, <1>2, <1>5, <1>6, LastExists
<1>8. e \in Insns /\ ~ Dead(e)
  BY <1>1, <1>3, <1>4, <1>7, Pairs
<1> QED BY <1>8

\* What is left of a block that control reaches ends with its first end, and leads
\* to blocks that control reaches.
LEMMA DfsRest == ASSUME IsFiniteSet(Insns), PassInv, dead_code_dfs PROVE PassRest
<1> DEFINE body == UNION {Body(c) : c \in Reached}
           dead == {i \in body : Dead(i)}
           D == dead \union {i \in body : NeverTaken(i)}
<1>1. /\ Idle /\ pass = "dead_code" /\ pass' = "delete_code" /\ todo' = codes \ Reached /\ loop' = (dead # {})
      /\ DeleteFrom(insn, used_at, assigned_at, D)
      /\ UNCHANGED <<pred, succ, codes, vars, deleting, halted, truth, op, again>>
  BY DEF dead_code_dfs, Running, ctl, flow, decls
<1>2. TypeOK /\ FlowConsistent /\ Shape /\ Listed /\ EndInv /\ OptTypeOK
  BY DEF PassInv, OptInv, Shape
<1>3. \A c \in Reached : \A i \in Body(c) : i \in D <=> Dead(i) \/ NeverTaken(i)
  OBVIOUS
<1>4. Reached \subseteq codes /\ deleting.code = None /\ None \notin codes /\ codes \subseteq Codes
  BY <1>1, <1>2 DEF Reached, TypeOK, Idle, NotDeleting
<1>5. loop' \in BOOLEAN
  BY <1>1
<1> HIDE DEF D
<1>6. \A i \in Insns : SameInsn(insn[i], insn[i])
  BY DEF SameInsn
<1>7. Kept(D) /\ Steadfast(D)
  BY <1>1, <1>6, DeleteKept, DeleteSteadfast
<1>8. /\ \A i \in Insns \ D : EndsBlock(i) => EndsBlock(i)'
      /\ \A c : Targets(c)' \subseteq Targets(c) /\ Body(c)' = Body(c) \ D
      /\ Shape'
  BY <1>1, <1>2, <1>7, KeptEnds
<1>9. \A i, k \in Insns : <<i, k>> \in order' <=> <<i, k>> \in order /\ i \notin D /\ k \notin D
  BY <1>7 DEF Kept, Unlink
<1>10. \A i, k \in Insns : <<i, k>> \in order => i \in Live /\ k \in Live /\ insn[i].code = insn[k].code
  BY <1>2 DEF Listed
<1>11. order' \subseteq order
  BY <1>7 DEF Kept, Unlink
<1>12. ASSUME NEW c \in Reached PROVE Ended(c)'
  <2>1. Body(c) \subseteq Insns /\ \A i \in Body(c) : insn[i].code = c
    BY DEF Body, Live
  <2>2. ASSUME NEW i \in Body(c), i \notin D, NEW k \in Insns, <<i, k>> \in order'
        PROVE  ~ EndsBlock(i)
    <3>1. k \in Body(c) /\ k \notin D /\ <<i, k>> \in order
      BY <1>9, <1>10, <2>1, <2>2 DEF Body
    <3> QED BY <1>2, <1>3, <2>1, <3>1, Pairs
  <2>3. ASSUME NEW i \in Body(c)', NEW k \in Insns, <<i, k>> \in order'
        PROVE  insn'[i].kind \notin {"jump", "return"}
    <3>1. i \in Body(c) /\ i \notin D /\ i \in Insns
      BY <1>8, <2>1
    <3>2. insn'[i].kind = insn[i].kind
      BY <1>7, <3>1 DEF Kept, SameInsn
    <3> QED BY <2>2, <2>3, <3>1, <3>2 DEF EndsBlock
  <2>4. ASSUME Targets(c)' # {} PROVE \E i \in Body(c)' : EndsBlock(i)' /\ IsLast(i)'
    <3>1. PICK i \in Body(c) : EndsBlock(i)
      BY <1>1, <1>2, <1>4, <1>8, <2>4 DEF EndInv, Ends
    <3>2. PICK e \in Body(c) : EndsBlock(e) /\ ~ Dead(e)
      BY <1>2, <3>1, FirstEnd
    <3>3. e \notin D /\ e \in Insns
      BY <1>3, <2>1, <3>2 DEF NeverTaken, EndsBlock, ConstBranch
    <3>4. ASSUME NEW d \in order', d[1] = e PROVE FALSE
      <4>1. d = <<e, d[2]>> /\ d[2] \in Insns
        BY <1>2, <1>11, <3>4 DEF TypeOK
      <4> QED BY <2>2, <3>2, <3>3, <3>4, <4>1
    <3>5. IsLast(e)'
      BY <3>4 DEF IsLast
    <3> QED BY <1>8, <3>2, <3>3, <3>5
  <2> QED BY <2>3, <2>4 DEF Ended
<1>13. ASSUME NEW c \in Reached, NEW t \in Targets(c)' PROVE t \in Reached
  <2>1. PICK j \in Body(c)' : insn'[j].kind \in Jumps /\ t = insn'[j].target
    BY DEF Targets
  <2>2. j \in Body(c) /\ j \notin D /\ j \in Live /\ j \in Insns /\ insn[j].code = c
    BY <1>8 DEF Body, Live
  <2>3. insn'[j].kind = insn[j].kind /\ insn'[j].target = insn[j].target
    BY <1>7, <2>2 DEF Kept, SameInsn
  <2>4. ~ Dead(j) /\ ~ NeverTaken(j)
    BY <1>3, <2>2
  <2>5. t \in Leads(c)
    BY <2>1, <2>2, <2>3, <2>4 DEF Leads
  <2>6. t \in codes
    BY <1>2, <1>4, <2>1, <2>2, <2>3 DEF FlowConsistent
  <2>7. \A S \in SUBSET codes : entry \in S /\ (\A b \in S : Leads(b) \subseteq S) => t \in S
    BY <2>5 DEF Reached
  <2> QED BY <2>6, <2>7 DEF Reached
<1>14. \A c : None \notin Targets(c)'
  BY <1>2, <1>8, TargetsExist
<1>15. \A c \in codes' \ Gone' : Ended(c)' /\ Targets(c)' \intersect Gone' = {}
  <2>1. codes' \ Gone' \subseteq Reached /\ Gone' = (codes \ Reached) \union {None}
    BY <1>1, <1>4 DEF Gone
  <2> QED BY <1>12, <1>13, <1>14, <2>1
<1>16. EndInv'
  BY <1>1, <1>4, <1>15 DEF EndInv
<1>17. OptTypeOK'
  BY <1>1, <1>2, <1>4, <1>5 DEF OptTypeOK, Passes
<1> QED BY <1>8, <1>16, <1>17 DEF PassRest

\* While blocks are deleted, none of those that stay loses its end or leads to one
\* that goes.
LEMMA BlocksGo ==
  ASSUME PassInv, NEW D, Kept(D), Steadfast(D), UNCHANGED truth,
         pass = "delete_code", pass' = pass, todo' \subseteq codes', deleting'.code \notin todo',
         codes' \ Gone' \subseteq codes \ Gone, Gone' \subseteq Gone \union {None},
         \A c \in codes \ Gone : \A i \in Body(c) \intersect D : ~ EndsBlock(i)
  PROVE  Shape' /\ EndInv'
<1>1. TypeOK /\ Shape /\ EndInv
  BY DEF PassInv, OptInv
<1>2. Shape' /\ \A c : Targets(c)' \subseteq Targets(c)
  BY <1>1, KeptEnds
<1>3. \A c \in codes \ Gone : Ended(c)'
  BY <1>1, KeptStillEnds DEF EndInv
<1>4. \A c \in codes' \ Gone' : Ended(c)' /\ Targets(c)' \intersect Gone' = {}
  <2> SUFFICES ASSUME NEW c \in codes' \ Gone' PROVE Ended(c)' /\ Targets(c)' \intersect Gone' = {}
    OBVIOUS
  <2>1. c \in codes \ Gone
    OBVIOUS
  <2>2. Targets(c) \intersect Gone = {} /\ None \notin Targets(c)
    BY <1>1, <2>1, TargetsExist DEF EndInv
  <2> QED BY <1>2, <1>3, <2>1, <2>2
<1>5. EndInv'
  BY <1>4 DEF EndInv
<1> QED BY <1>2, <1>5

\* ir_code_delete starts on a block: the jumps to it are in blocks that go as well.
LEMMA UnreachedRest == ASSUME PassInv, NEW c \in Codes, DeleteUnreached(c) PROVE PassRest
<1> DEFINE D == {j \in Live : insn[j].kind \in Jumps /\ insn[j].target = c /\ insn[j].code \in pred[c]}
<1>1. /\ Idle /\ pass = "delete_code" /\ pass' = pass /\ c \in todo /\ c \in codes /\ todo' = todo \ {c}
      /\ DeleteFrom(insn, used_at, assigned_at, D) /\ deleting'.code = c
      /\ UNCHANGED <<codes, vars, halted, truth, op, loop, again>>
  BY DEF DeleteUnreached, ir_code_delete, Running, decls
<1>2. TypeOK /\ EndInv /\ OptTypeOK
  BY DEF PassInv, OptInv
<1>3. deleting.code = None /\ None \notin codes /\ todo \subseteq codes
  BY <1>1, <1>2 DEF TypeOK, Idle, NotDeleting, EndInv
<1>4. ASSUME NEW d \in codes \ Gone, NEW i \in Body(d) \intersect D PROVE FALSE
  <2>1. c \in Targets(d)
    BY <1>4 DEF Targets
  <2> QED BY <1>1, <1>2, <2>1 DEF EndInv, Gone
<1>5. \A i \in Insns : SameInsn(insn[i], insn[i])
  BY DEF SameInsn
<1> HIDE DEF D
<1>6. Kept(D) /\ Steadfast(D)
  BY <1>1, <1>5, DeleteKept, DeleteSteadfast
<1>7. Gone' = todo /\ Gone = todo \union {None}
  BY <1>1, <1>3 DEF Gone
<1>8. Shape' /\ EndInv'
  <2>1. UNCHANGED truth /\ todo' \subseteq codes' /\ deleting'.code \notin todo'
    BY <1>1, <1>3
  <2>2. codes' \ Gone' \subseteq codes \ Gone /\ Gone' \subseteq Gone \union {None}
    BY <1>1, <1>3, <1>7
  <2> QED BY <1>1, <1>4, <1>6, <2>1, <2>2, BlocksGo
<1>9. OptTypeOK'
  BY <1>1, <1>2, <1>3 DEF OptTypeOK
<1> QED BY <1>8, <1>9 DEF PassRest

\* A path removed from a phi costs nothing but, perhaps, the phi.
LEMMA PhiSteadfast ==
  ASSUME TypeOK, NEW i \in Insns, CodeDeletePhi(i)
  PROVE  insn[i].kind = "phi" /\ \E D \in SUBSET {i} : Kept(D) /\ Steadfast(D)
<1> DEFINE c == deleting.code  f == WithoutPath(i, c)  u == UsedWithoutPath(i, c)
<1>1. insn[i].kind = "phi"
  BY DEF CodeDeletePhi, TypeOK
<1>2. insn[i] \in InsnType /\ insn[i].bind \in [Codes -> Values] /\ insn[i].dest \in Vars
  BY <1>1 DEF TypeOK, InsnType
<1>3. [insn[i].bind EXCEPT ![c] = None] \in [Codes -> Values]
  BY <1>2 DEF Values
<1>4. f \in [Insns -> InsnType]
  BY <1>2, <1>3, SetBindType DEF WithoutPath, TypeOK
<1>5. \A k \in Insns : SameInsn(f[k], insn[k])
  BY <1>4, WithoutPathKeeps DEF SameInsn
<1>6. \A k \in Insns : f[k].dest = insn[k].dest /\ f[k].arg = insn[k].arg
  <2>1. \A k \in Insns : insn[k] \in InsnType
    BY DEF TypeOK
  <2> QED BY <2>1 DEF WithoutPath, TypeOK, InsnType
<1>7. \A k \in Insns : OpArgs(f[k]) = OpArgs(insn[k])
  BY <1>6 DEF OpArgs
<1> HIDE DEF f, u
<1>8. CASE insn' = f /\ order' = order
  <2>1. Kept({})
    BY <1>5, <1>8, NothingKept
  <2>2. Steadfast({})
    BY <1>6, <1>7, <1>8 DEF Steadfast
  <2> QED BY <1>1, <2>1, <2>2
<1>9. ASSUME NEW x, NEW o, x = f[i].dest,
             DeleteFrom(ReplaceIn(f, u, x, o), Remark(u, f, x, o), assigned_at, {i})
      PROVE  Kept({i}) /\ Steadfast({i})
  <2> DEFINE g == ReplaceIn(f, u, x, o)
  <2>1. x \in Vars /\ \A k \in Insns : f[k] \in InsnType
    BY <1>2, <1>4, <1>6, <1>9
  <2>2. \A k \in Insns : SameInsn(g[k], insn[k])
    BY <1>5, <2>1, ReplaceKeeps DEF SameInsn
  <2>3. \A k \in Insns : g[k].dest = f[k].dest /\ (OpArgs(f[k]) = {Const} => OpArgs(g[k]) = {Const})
    BY <2>1, ReplacedConst
  <2>4. \A k \in Insns : g[k].dest = insn[k].dest /\ (OpArgs(insn[k]) = {Const} => OpArgs(g[k]) = {Const})
    BY <1>6, <1>7, <2>3
  <2> HIDE DEF g
  <2>5. DeleteFrom(g, Remark(u, f, x, o), assigned_at, {i})
    BY <1>9 DEF g
  <2> QED BY <2>2, <2>4, <2>5, DeleteKept, DeleteSteadfast
<1> QED BY <1>1, <1>8, <1>9 DEF f, u, CodeDeletePhi, remove_combinator_path, CollapsePhi

\* The rest of ir_code_delete: the successors, their phis, and the block itself.
LEMMA DeletingRest == ASSUME PassInv, DeleteSteps PROVE PassRest
<1>1. TypeOK /\ EndInv /\ OptTypeOK
  BY DEF PassInv, OptInv
<1>2. /\ pass = "delete_code" /\ pass' = pass /\ todo' = todo
      /\ UNCHANGED <<truth, op, loop, again>>
  BY DEF DeleteSteps, optVars
<1>3. todo \subseteq codes /\ deleting.code \notin todo
  BY <1>1, <1>2 DEF EndInv
<1>4. ASSUME todo' \subseteq codes' PROVE OptTypeOK'
  BY <1>1, <1>2, <1>4 DEF OptTypeOK
<1>5. ASSUME UNCHANGED codes, deleting'.code = deleting.code, NEW D, Kept(D), Steadfast(D),
             \A i \in D : ~ EndsBlock(i)
      PROVE  PassRest
  <2>1. Gone' = Gone
    BY <1>2, <1>5 DEF Gone
  <2>2. UNCHANGED truth /\ todo' \subseteq codes' /\ deleting'.code \notin todo'
    BY <1>2, <1>3, <1>5
  <2>3. Shape' /\ EndInv'
    BY <1>2, <1>5, <2>1, <2>2, BlocksGo
  <2> QED BY <1>4, <2>2, <2>3 DEF PassRest
<1>6. ASSUME NEW s \in Codes, CodeDeleteSucc(s) PROVE PassRest
  <2>1. UNCHANGED <<insn, order, codes>> /\ deleting'.code = deleting.code
    BY <1>1, <1>6 DEF CodeDeleteSucc, graph, decls, TypeOK
  <2>2. Kept({})
    BY <1>1, <2>1, NothingKept DEF SameInsn
  <2>3. Steadfast({})
    BY <2>1 DEF Steadfast
  <2> QED BY <1>5, <2>1, <2>2, <2>3
<1>7. ASSUME NEW i \in Insns, CodeDeletePhi(i) PROVE PassRest
  <2>1. UNCHANGED codes /\ deleting'.code = deleting.code
    BY <1>1, <1>7, PhiKept
  <2>2. insn[i].kind = "phi" /\ \E D \in SUBSET {i} : Kept(D) /\ Steadfast(D)
    BY <1>1, <1>7, PhiSteadfast
  <2>3. ~ EndsBlock(i)
    BY <2>2 DEF EndsBlock, ConstBranch
  <2> QED BY <1>5, <2>1, <2>2, <2>3
<1>8. CASE CodeDeleteEnd
  <2> DEFINE c == deleting.code  D == Body(c)
  <2>1. /\ c # None /\ DeleteFrom(insn, used_at, assigned_at, D) /\ codes' = codes \ {c}
        /\ deleting'.code = None
    BY <1>8 DEF CodeDeleteEnd, NotDeleting
  <2>2. \A i \in Insns : SameInsn(insn[i], insn[i])
    BY DEF SameInsn
  <2>3. \A d \in codes \ Gone : \A i \in Body(d) : i \notin D
    BY DEF Body, Gone
  <2>4. None \notin codes
    BY <1>1 DEF TypeOK
  <2> HIDE DEF D
  <2>5. Kept(D) /\ Steadfast(D)
    BY <2>1, <2>2, DeleteKept, DeleteSteadfast
  <2>6. UNCHANGED truth /\ todo' \subseteq codes' /\ deleting'.code \notin todo'
    BY <1>2, <1>3, <2>1, <2>4
  <2>7. codes' \ Gone' \subseteq codes \ Gone /\ Gone' \subseteq Gone \union {None}
    BY <1>2, <2>1 DEF Gone
  <2>8. Shape' /\ EndInv'
    BY <1>2, <2>3, <2>5, <2>6, <2>7, BlocksGo
  <2> QED BY <1>4, <2>6, <2>8 DEF PassRest
<1> QED BY <1>6, <1>7, <1>8 DEF DeleteSteps

-----------------------------------------------------------------------------
(* opt_branches.                                                            *)

\* The last instruction of a block that may be merged is alone in ending it: what is
\* in front of it is no jump, branch or return.
LEMMA AloneInFront ==
  ASSUME PassInv, NEW a \in Codes, NEW b \in Codes, Running("branches"), Mergeable(a, b), MayMerge(a, b)
  PROVE  \E j \in Body(a) :
           /\ {i \in Body(a) : IsLast(i)} = {j}
           /\ \A i \in Body(a) \ {j} : <<i, j>> \in order /\ ~ ir_is_jbr(insn[i].kind)
<1>1. /\ TypeOK /\ Listed /\ TargetsDiffer /\ EndInv /\ a \in codes /\ succ[a] = {b} /\ pass = "branches"
  BY DEF PassInv, OptInv, Shape, Running, Mergeable
<1>2. Ended(a) /\ Targets(a) = {b}
  BY <1>1 DEF EndInv
<1>3. PICK j \in Body(a) : IsLast(j) /\ insn[j].kind \in Jumps /\ insn[j].target = b
  BY DEF MayMerge, ConstBranch, Jumps
<1>4. \A i \in Body(a) : i \in Insns /\ i \in Live /\ insn[i].code = a
  BY DEF Body, Live
<1>5. \A k \in Insns : <<j, k>> \notin order
  BY <1>1, <1>3, <1>4, Pairs
<1>6. ASSUME NEW i \in Body(a) \ {j} PROVE <<i, j>> \in order
  BY <1>1, <1>3, <1>4, <1>5, <1>6 DEF Listed
<1>7. ASSUME NEW i \in Body(a) \ {j} PROVE ~ IsLast(i)
  BY <1>1, <1>4, <1>6, <1>7, Pairs
<1>8. ASSUME NEW i \in Body(a) \ {j} PROVE ~ ir_is_jbr(insn[i].kind)
  <2>1. insn[i].kind \notin {"jump", "return"}
    BY <1>2, <1>4, <1>6, <1>8 DEF Ended
  <2>2. insn[i].kind # "branch"
    <3> SUFFICES ASSUME insn[i].kind = "branch" PROVE FALSE
      OBVIOUS
    <3>1. insn[i].target \in Targets(a)
      BY DEF Targets, Jumps
    <3>2. insn[i].target # insn[j].target
      BY <1>1, <1>3, <1>4, <1>8 DEF TargetsDiffer, Jumps
    <3> QED BY <1>2, <1>3, <3>1, <3>2
  <2> QED BY <2>1, <2>2 DEF ir_is_jbr
<1> QED BY <1>3, <1>6, <1>7, <1>8

\* Two lists put one behind the other make a list.
LEMMA ListsJoin ==
  ASSUME PassInv, NEW a \in Codes, NEW b \in Codes, merge_code(a, b)
  PROVE  \E j \in Body(a) :
           /\ {i \in Body(a) : IsLast(i)} = {j}
           /\ \A i \in Body(a) \ {j} : ~ ir_is_jbr(insn[i].kind)
           /\ \A i \in Insns : i \in Live' <=> i \in Live /\ i # j
           /\ \A i \in Live' : /\ insn'[i].code = (IF insn[i].code = b THEN a ELSE insn[i].code)
                               /\ insn'[i].kind = insn[i].kind /\ insn'[i].target = insn[i].target
                               /\ insn'[i].dest = insn[i].dest /\ insn'[i].arg = insn[i].arg
           /\ \A i, k \in Insns : <<i, k>> \in order' <=>
                  \/ <<i, k>> \in order /\ i # j /\ k # j
                  \/ i \in Body(a) \ {j} /\ k \in Body(b)
           /\ order' \subseteq Insns \X Insns
<1> DEFINE last == {i \in Body(a) : IsLast(i)}
           f == [i \in Insns |-> IF i \in Body(b) THEN [insn[i] EXCEPT !.code = a] ELSE insn[i]]
<1>1. /\ Running("branches") /\ Mergeable(a, b) /\ MayMerge(a, b)
      /\ insn' = Erase(f, last)
      /\ order' = Unlink(order, last) \union ((Body(a) \ last) \X Body(b))
  BY DEF merge_code
<1>2. PICK j \in Body(a) : last = {j} /\ \A i \in Body(a) \ {j} : ~ ir_is_jbr(insn[i].kind)
  BY <1>1, AloneInFront
<1>3. TypeOK /\ a # b
  BY <1>1 DEF PassInv, OptInv, Mergeable
<1>4. \A i \in Insns : /\ f[i].kind = insn[i].kind /\ f[i].arg = insn[i].arg
                       /\ f[i].target = insn[i].target /\ f[i].dest = insn[i].dest
                       /\ f[i].code = IF i \in Body(b) THEN a ELSE insn[i].code
  <2>1. \A i \in Insns : insn[i] \in InsnType
    BY <1>3 DEF TypeOK
  <2> QED BY <2>1 DEF InsnType
<1> HIDE DEF f, last
<1>5. \A i \in Insns : insn'[i] = IF i = j THEN Blank ELSE f[i]
  BY <1>1, <1>2 DEF Erase
<1>6. Blank.kind = "free"
  BY DEF Blank, MkInsn
<1>7. \A i \in Insns : i \in Live' <=> i \in Live /\ i # j
  BY <1>4, <1>5, <1>6 DEF Live
<1>8. \A i \in Live' : i \in Insns /\ i # j /\ i \in Live
  BY <1>7 DEF Live
<1>9. \A i \in Live' : /\ insn'[i].code = (IF insn[i].code = b THEN a ELSE insn[i].code)
                       /\ insn'[i].kind = insn[i].kind /\ insn'[i].target = insn[i].target
                       /\ insn'[i].dest = insn[i].dest /\ insn'[i].arg = insn[i].arg
  BY <1>4, <1>5, <1>8 DEF Body
<1>10. \A i, k \in Insns : <<i, k>> \in order' <=>
                  \/ <<i, k>> \in order /\ i # j /\ k # j
                  \/ i \in Body(a) \ {j} /\ k \in Body(b)
  BY <1>1, <1>2 DEF Unlink
<1>11. order' \subseteq Insns \X Insns
  BY <1>1, <1>3 DEF Unlink, TypeOK, Body, Live
<1>12. {i \in Body(a) : IsLast(i)} = {j}
  BY <1>2 DEF last
<1> QED BY <1>2, <1>7, <1>9, <1>10, <1>11, <1>12

\* merge_code leaves a block that ends as the second block did.
LEMMA MergeRest == ASSUME PassInv, NEW a \in Codes, NEW b \in Codes, merge_code(a, b) PROVE PassRest
<1>1. PICK j \in Body(a) :
           /\ \A i \in Body(a) \ {j} : ~ ir_is_jbr(insn[i].kind)
           /\ \A i \in Insns : i \in Live' <=> i \in Live /\ i # j
           /\ \A i \in Live' : /\ insn'[i].code = (IF insn[i].code = b THEN a ELSE insn[i].code)
                               /\ insn'[i].kind = insn[i].kind /\ insn'[i].target = insn[i].target
                               /\ insn'[i].dest = insn[i].dest /\ insn'[i].arg = insn[i].arg
           /\ \A i, k \in Insns : <<i, k>> \in order' <=>
                  \/ <<i, k>> \in order /\ i # j /\ k # j
                  \/ i \in Body(a) \ {j} /\ k \in Body(b)
           /\ order' \subseteq Insns \X Insns
  BY ListsJoin
<1>2. /\ pass = "branches" /\ pass' = pass /\ todo' = todo /\ loop' = TRUE /\ Mergeable(a, b)
      /\ UNCHANGED <<vars, truth, op, again, deleting, halted>> /\ codes' = codes \ {b}
      /\ succ' = [succ EXCEPT ![a] = succ[b], ![b] = {}]
  BY DEF merge_code, Running, ctl
<1>3. /\ TypeOK /\ FlowConsistent /\ TargetsDiffer /\ Listed /\ NoReturnBehind /\ NoResult
      /\ EndInv /\ OptTypeOK
  BY DEF PassInv, OptInv, Shape
<1>4. a # b /\ a \in codes /\ b \in codes /\ succ[a] = {b} /\ codes \subseteq Codes
  BY <1>2, <1>3 DEF Mergeable, FlowConsistent, TypeOK
<1>5. \A c \in codes : Ended(c) /\ succ[c] = Targets(c)
  BY <1>2, <1>3 DEF EndInv
<1>6. \A c : \A i \in Body(c) : i \in Insns /\ i \in Live /\ insn[i].code = c
  BY DEF Body, Live
<1>7. \A i \in Live' : i \in Insns /\ i \in Live /\ i # j
  BY <1>1 DEF Live
<1>8. \A i \in Body(b) : i # j /\ i \notin Body(a)
  BY <1>1, <1>4, <1>6
<1>9. Body(a)' = (Body(a) \ {j}) \union Body(b)
  BY <1>1, <1>4, <1>6, <1>7 DEF Body
<1>10. \A c \in codes \ {a, b} : Body(c)' = Body(c) /\ j \notin Body(c)
  BY <1>1, <1>4, <1>6, <1>7 DEF Body
<1>11. NoReturnBehind'
  <2> SUFFICES ASSUME NEW i \in Insns, NEW k \in Insns, <<i, k>> \in order', insn'[i].kind \in Jumps
               PROVE  insn'[k].kind # "return"
    BY DEF NoReturnBehind
  <2>1. CASE <<i, k>> \in order /\ i # j /\ k # j
    <3>1. i \in Live' /\ k \in Live'
      BY <1>1, <1>3, <2>1 DEF Listed
    <3> QED BY <1>1, <1>3, <2>1, <3>1 DEF NoReturnBehind
  <2>2. CASE i \in Body(a) \ {j}
    <3>1. i \in Live'
      BY <1>1, <1>6, <2>2
    <3> QED BY <1>1, <2>2, <3>1 DEF ir_is_jbr, Jumps
  <2> QED BY <1>1, <2>1, <2>2
<1>12. NoResult'
  BY <1>1, <1>3, <1>7 DEF NoResult
<1>13. Listed'
  <2>1. ASSUME NEW i \in Insns, NEW k \in Insns, <<i, k>> \in order'
        PROVE  /\ i \in Live' /\ k \in Live' /\ i # k
               /\ insn'[i].code = insn'[k].code /\ <<k, i>> \notin order'
               /\ ir_is_jbr(insn'[i].kind) => ir_is_jbr(insn'[k].kind)
    <3>1. CASE <<i, k>> \in order /\ i # j /\ k # j
      <4>1. /\ i \in Live /\ k \in Live /\ i # k /\ insn[i].code = insn[k].code /\ <<k, i>> \notin order
            /\ ir_is_jbr(insn[i].kind) => ir_is_jbr(insn[k].kind)
        BY <1>3, <3>1 DEF Listed
      <4>2. i \in Live' /\ k \in Live'
        BY <1>1, <3>1, <4>1
      <4>3. ~ (k \in Body(a) /\ i \in Body(b))
        BY <1>4, <1>6, <4>1
      <4> QED BY <1>1, <4>1, <4>2, <4>3
    <3>2. CASE i \in Body(a) \ {j} /\ k \in Body(b)
      <4>1. /\ i \in Live /\ k \in Live /\ i # j /\ k # j /\ i # k
            /\ insn[i].code = a /\ insn[k].code = b
        BY <1>6, <1>8, <3>2
      <4>2. i \in Live' /\ k \in Live'
        BY <1>1, <4>1
      <4>3. <<k, i>> \notin order
        BY <1>3, <1>4, <4>1 DEF Listed
      <4>4. k \notin Body(a)
        BY <1>8, <3>2
      <4> QED BY <1>1, <1>4, <3>2, <4>1, <4>2, <4>3, <4>4
    <3> QED BY <1>1, <2>1, <3>1, <3>2
  <2>2. ASSUME NEW i \in Live', NEW k \in Live', i # k, insn'[i].code = insn'[k].code
        PROVE  <<i, k>> \in order' \/ <<k, i>> \in order'
    <3>1. i \in Insns /\ k \in Insns /\ i \in Live /\ k \in Live /\ i # j /\ k # j
      BY <1>7
    <3>2. CASE insn[i].code = insn[k].code
      BY <1>1, <1>3, <2>2, <3>1, <3>2 DEF Listed
    <3>3. CASE insn[i].code # insn[k].code
      <4>1. {insn[i].code, insn[k].code} = {a, b}
        BY <1>1, <1>4, <2>2, <3>3
      <4> QED BY <1>1, <3>1, <4>1 DEF Body
    <3> QED BY <3>2, <3>3
  <2>3. ASSUME NEW i \in Insns, NEW k \in Insns, NEW m \in Insns, <<i, k>> \in order', <<k, m>> \in order'
        PROVE  <<i, m>> \in order'
    <3>1. \A p, q \in Insns : <<p, q>> \in order => p \in Live /\ q \in Live /\ insn[p].code = insn[q].code
      BY <1>3 DEF Listed
    <3>2. \A p, q \in Insns : <<p, q>> \in order /\ q # j => (p \in Body(b) <=> q \in Body(b))
      BY <3>1 DEF Body
    <3>3. \A p, q \in Insns : <<p, q>> \in order /\ p # j /\ q # j => (p \in Body(a) \ {j} <=> q \in Body(a) \ {j})
      BY <3>1 DEF Body
    <3>4. CASE <<i, k>> \in order /\ i # j /\ k # j /\ <<k, m>> \in order /\ m # j
      BY <1>1, <1>3, <3>4 DEF Listed
    <3>5. CASE <<i, k>> \in order /\ i # j /\ k # j /\ k \in Body(a) \ {j} /\ m \in Body(b)
      BY <1>1, <3>3, <3>5
    <3>6. CASE i \in Body(a) \ {j} /\ k \in Body(b) /\ <<k, m>> \in order /\ m # j
      BY <1>1, <3>2, <3>6
    <3>7. CASE i \in Body(a) \ {j} /\ k \in Body(b) /\ k \in Body(a) \ {j} /\ m \in Body(b)
      BY <1>8, <3>7
    <3> QED BY <1>1, <2>3, <3>4, <3>5, <3>6, <3>7
  <2> QED BY <2>1, <2>2, <2>3 DEF Listed
<1>14. \A i \in Live' : EndsBlock(i)' <=> EndsBlock(i)
  <2>1. UNCHANGED truth
    BY <1>2
  <2>2. \A i \in Live' : ArgsOf(i)' = ArgsOf(i) /\ insn'[i].kind = insn[i].kind
    BY <1>1 DEF ArgsOf
  <2> QED BY <2>1, <2>2 DEF EndsBlock, ConstBranch
<1>15. Targets(a)' = Targets(b)
  <2>1. ASSUME NEW t \in Targets(a)' PROVE t \in Targets(b)
    <3>1. PICK i \in Body(a)' : insn'[i].kind \in Jumps /\ insn'[i].target = t
      BY <2>1 DEF Targets
    <3>2. i \in Live' /\ i \in Insns
      BY <1>7, <3>1 DEF Body
    <3>3. i \in Body(b)
      BY <1>1, <1>9, <3>1, <3>2 DEF ir_is_jbr, Jumps
    <3> QED BY <1>1, <3>1, <3>2, <3>3 DEF Targets
  <2>2. ASSUME NEW t \in Targets(b) PROVE t \in Targets(a)'
    <3>1. PICK i \in Body(b) : insn[i].kind \in Jumps /\ insn[i].target = t
      BY <2>2 DEF Targets
    <3>2. i \in Body(a)' /\ i \in Live'
      BY <1>1, <1>6, <1>8, <1>9, <3>1
    <3> QED BY <1>1, <3>1, <3>2 DEF Targets
  <2> QED BY <2>1, <2>2
<1>16. ASSUME NEW c \in codes \ {a, b} PROVE Targets(c)' = Targets(c)
  <2>1. \A i \in Body(c) : i \in Live' /\ insn'[i].kind = insn[i].kind /\ insn'[i].target = insn[i].target
    BY <1>1, <1>6, <1>10
  <2> QED BY <1>10, <2>1 DEF Targets
<1>17. ASSUME NEW i \in Live', i \notin Body(a), IsLast(i) PROVE IsLast(i)'
  <2>1. i \in Insns /\ \A k \in Insns : <<i, k>> \notin order
    BY <1>3, <1>7, <1>17, Pairs
  <2>2. ASSUME NEW e \in order', e[1] = i PROVE FALSE
    <3>1. e = <<i, e[2]>> /\ e[2] \in Insns
      BY <1>1, <2>2
    <3> QED BY <1>1, <1>17, <2>1, <2>2, <3>1
  <2> QED BY <2>2 DEF IsLast
<1>18. ASSUME NEW c \in codes \ {b}, NEW d \in codes,
              Targets(c)' = Targets(d), \A i \in Body(d) : i \in Body(c)' /\ i \notin Body(a),
              \A i \in Body(c)' : i \in Body(d) \/ i \in Body(a) \ {j}
       PROVE  Ended(c)'
  <2>1. ASSUME NEW i \in Body(c)', NEW k \in Insns, <<i, k>> \in order' PROVE insn'[i].kind \notin {"jump", "return"}
    <3>1. i \in Live' /\ i \in Insns /\ insn'[i].kind = insn[i].kind
      BY <1>1, <1>7 DEF Body
    <3>2. CASE i \in Body(a) \ {j}
      BY <1>1, <3>1, <3>2 DEF ir_is_jbr
    <3>3. CASE i \in Body(d)
      <4>1. <<i, k>> \in order
        BY <1>1, <1>18, <2>1, <3>1, <3>3
      <4> QED BY <1>5, <3>1, <3>3, <4>1 DEF Ended
    <3> QED BY <1>18, <3>2, <3>3
  <2>2. ASSUME Targets(c)' # {} PROVE \E i \in Body(c)' : EndsBlock(i)' /\ IsLast(i)'
    <3>1. PICK i \in Body(d) : EndsBlock(i) /\ IsLast(i)
      BY <1>5, <1>18, <2>2 DEF Ended
    <3>2. i \in Body(c)' /\ i \in Live' /\ i \notin Body(a)
      BY <1>18 DEF Body
    <3> QED BY <1>14, <1>17, <3>1, <3>2
  <2> QED BY <2>1, <2>2 DEF Ended
<1>19. Ended(a)'
  <2>1. \A i \in Body(b) : i \in Body(a)' /\ i \notin Body(a)
    BY <1>8, <1>9
  <2>2. \A i \in Body(a)' : i \in Body(b) \/ i \in Body(a) \ {j}
    BY <1>9
  <2> QED BY <1>4, <1>15, <1>18, <2>1, <2>2
<1>20. ASSUME NEW c \in codes \ {a, b} PROVE Ended(c)'
  <2>1. \A i \in Body(c) : i \in Body(c)' /\ i \notin Body(a)
    BY <1>6, <1>10
  <2>2. \A i \in Body(c)' : i \in Body(c) \/ i \in Body(a) \ {j}
    BY <1>10
  <2> QED BY <1>16, <1>18, <2>1, <2>2
<1>21. \A c \in codes' : succ'[c] = Targets(c)'
  <2>1. \A c \in Codes : succ'[c] = IF c = b THEN {} ELSE IF c = a THEN succ[b] ELSE succ[c]
    BY <1>2, <1>3, <1>4 DEF TypeOK
  <2> QED BY <1>2, <1>4, <1>5, <1>15, <1>16, <2>1
<1>22. EndInv'
  BY <1>2, <1>3, <1>19, <1>20, <1>21 DEF EndInv
<1>23. OptTypeOK'
  BY <1>2, <1>3 DEF OptTypeOK
<1> QED BY <1>11, <1>12, <1>13, <1>22, <1>23 DEF PassRest, Shape

-----------------------------------------------------------------------------
\* Every step of every pass leaves the blocks with the ends that the next needs.
LEMMA PassStep == IsFiniteSet(Insns) /\ PassInv /\ [ir_optimize]_vars_all => PassInv'
<1> SUFFICES ASSUME IsFiniteSet(Insns), PassInv, [ir_optimize]_vars_all PROVE PassInv'
  OBVIOUS
<1>1. OptInv'
  BY OptStep DEF PassInv
<1>2. CASE ir_optimize
  <2>1. PassRest
    BY <1>2, ConstPropRest, RoundEnds, UnusedRest, DfsRest, UnreachedRest, DeletingRest, DeadRoundEnds, MergeRest
       DEF ir_optimize, ir_optimize_passes
  <2> QED BY <1>1, <2>1 DEF PassRest, PassInv
<1>3. CASE UNCHANGED vars_all
  <2>1. /\ UNCHANGED <<insn, order, truth, deleting, codes, vars, op, halted, succ>>
        /\ UNCHANGED <<pass, todo, loop, again>>
    BY <1>3 DEF vars_all, funcVars, graph, flow, decls, ctl, optVars
  <2>2. Shape' /\ \A c : (Ends(c) <=> Ends(c)') /\ (Ended(c) <=> Ended(c)') /\ Targets(c)' = Targets(c)
    BY <2>1, SameEnds DEF PassInv
  <2>3. EndInv'
    BY <2>1, <2>2 DEF PassInv, EndInv, Gone
  <2>4. OptTypeOK'
    BY <2>1 DEF PassInv, OptTypeOK
  <2> QED BY <1>1, <2>2, <2>3, <2>4 DEF PassInv
<1> QED BY <1>2, <1>3

\* The one jump that merge_code asserts is there.
LEMMA AssertsHold == PassInv => MergeAsserts
<1> SUFFICES ASSUME PassInv, NEW a \in codes, NEW b \in codes, Running("branches"), Mergeable(a, b)
             PROVE  MayMerge(a, b)
  BY DEF MergeAsserts
<1>1. TypeOK /\ Listed /\ NoReturnBehind /\ EndInv /\ pass = "branches" /\ succ[a] = {b}
  BY DEF PassInv, OptInv, Shape, Running, Mergeable
<1>2. Ended(a) /\ Targets(a) = {b}
  BY <1>1 DEF EndInv
<1>3. PICK i \in Body(a) : EndsBlock(i) /\ IsLast(i)
  BY <1>2 DEF Ended
<1>4. PICK j \in Body(a) : insn[j].kind \in Jumps
  BY <1>2 DEF Targets
<1>5. \A k \in Body(a) : k \in Insns /\ k \in Live /\ insn[k].code = a
  BY DEF Body, Live
<1>6. insn[i].kind # "return"
  <2> SUFFICES ASSUME insn[i].kind = "return" PROVE FALSE
    OBVIOUS
  <2>1. i # j /\ <<i, j>> \notin order
    BY <1>1, <1>3, <1>4, <1>5, Pairs DEF Jumps
  <2>2. <<j, i>> \in order
    BY <1>1, <1>3, <1>4, <1>5, <2>1 DEF Listed
  <2> QED BY <1>1, <1>4, <1>5, <2>2 DEF NoReturnBehind
<1>7. insn[i].kind = "jump" \/ (ConstBranch(i) /\ truth[i] = "true")
  BY <1>3, <1>6 DEF EndsBlock
<1>8. insn[i].kind \in Jumps
  BY <1>7 DEF ConstBranch, Jumps
<1>9. insn[i].target = b
  BY <1>2, <1>8 DEF Targets
<1> QED BY <1>3, <1>7, <1>9 DEF MayMerge

\* What the passes take for granted of each other holds, for any function that the
\* front end can have built: the variable or block that a loop has read in advance is
\* still there, the block that merge_code takes apart ends in the one jump that it
\* asserts, and no two ways out of a block are one edge.
THEOREM PassesTrustEachOther == ASSUME IsFiniteSet(Insns) PROVE OptSpec => []OptimizerOK
<1>1. IsFiniteSet(Insns) /\ PassInv /\ [ir_optimize]_vars_all => PassInv'
  BY PassStep
<1>2. PassInv => OptimizerOK
  BY AssertsHold DEF PassInv, OptInv, OptimizerOK
<1> QED BY <1>1, <1>2, OptInitPasses, PTL DEF OptSpec

-----------------------------------------------------------------------------
(* The fourth part: no pass changes the course of the effects.  First what *)
(* Reaches computes: the least set that has S and, with the first end of an*)
(* edge, the second.                                                       *)

\* A set of numbers has a least.
LEMMA LeastNumber ==
  ASSUME NEW T, T \subseteq Nat, T # {}
  PROVE  \E n \in T : \A k \in T : n <= k
<1> DEFINE g == [k \in T |-> k]
<1>1. g \in [T -> Nat] /\ \A k \in T : g[k] = k /\ k \in Nat
  OBVIOUS
<1> HIDE DEF g
<1>2. PICK n \in T : \A k \in T : ~ (g[k] < g[n])
  BY <1>1, LeastExists
<1>3. ASSUME NEW k \in T PROVE n <= k
  <2>1. ~ (k < n) /\ k \in Nat /\ n \in Nat
    BY <1>1, <1>2
  <2> QED BY <2>1
<1> QED BY <1>3

\* Where the edges lead from the members of T.
Beyond(edges, T) == {e[2] : e \in {d \in edges : d[1] \in T}}

\* f lists what is reached from S in at most 0, 1, .. n steps.
IsSteps(f, S, edges, n) ==
  /\ f = [k \in 0 .. n |-> f[k]]
  /\ f[0] = S
  /\ \A k \in 1 .. n : f[k] = f[k - 1] \union Beyond(edges, f[k - 1])

\* There is such a list of every length.
LEMMA StepsExist ==
  ASSUME NEW S, NEW edges, NEW n \in Nat
  PROVE  \E f : IsSteps(f, S, edges, n)
<1> DEFINE Bad == {k \in Nat : ~ \E f : IsSteps(f, S, edges, k)}
<1> SUFFICES ASSUME Bad # {} PROVE FALSE
  OBVIOUS
<1>1. Bad \subseteq Nat
  OBVIOUS
<1>2. \A k \in Nat : k \notin Bad <=> \E f : IsSteps(f, S, edges, k)
  OBVIOUS
<1> HIDE DEF Bad
<1>3. PICK m \in Bad : \A k \in Bad : m <= k
  BY <1>1, LeastNumber
<1>4. m \in Nat
  BY <1>1
<1>5. m # 0
  <2> DEFINE h == [k \in 0 .. 0 |-> S]
  <2>1. IsSteps(h, S, edges, 0)
    BY DEF IsSteps
  <2> QED BY <1>2, <2>1
<1>6. m - 1 \in Nat /\ m - 1 \notin Bad
  BY <1>3, <1>4, <1>5
<1>7. PICK f : IsSteps(f, S, edges, m - 1)
  BY <1>2, <1>6
<1> DEFINE h == [k \in 0 .. m |-> IF k = m THEN f[m - 1] \union Beyond(edges, f[m - 1]) ELSE f[k]]
<1>8. h = [k \in 0 .. m |-> h[k]] /\ h[0] = S
  BY <1>4, <1>5, <1>7 DEF IsSteps
<1>9. ASSUME NEW k \in 1 .. m PROVE h[k] = h[k - 1] \union Beyond(edges, h[k - 1])
  <2>1. h[k - 1] = f[k - 1]
    BY <1>4, <1>5
  <2>2. CASE k = m
    BY <1>4, <2>1, <2>2
  <2>3. CASE k # m
    <3>1. h[k] = f[k] /\ k \in 1 .. m - 1
      BY <1>4, <2>3
    <3> HIDE DEF h
    <3> QED BY <1>7, <2>1, <3>1 DEF IsSteps
  <2> QED BY <2>2, <2>3
<1> HIDE DEF h
<1>10. IsSteps(h, S, edges, m)
  BY <1>8, <1>9 DEF IsSteps
<1> QED BY <1>2, <1>3, <1>4, <1>10

\* The last of the list is what Reaches returns.
LEMMA ReachesSteps ==
  ASSUME NEW S, NEW edges, IsFiniteSet(edges)
  PROVE  \E f : IsSteps(f, S, edges, Cardinality(edges)) /\ Reaches(S, edges) = f[Cardinality(edges)]
<1> DEFINE n == Cardinality(edges)
           Defines(f) == f = [k \in 0 .. n |->
                            IF k = 0 THEN S
                            ELSE f[k - 1] \union {e[2] : e \in {d \in edges : d[1] \in f[k - 1]}}]
           L == CHOOSE f : Defines(f)
<1>0. n \in Nat
  BY FS_CardinalityType
<1>1. PICK h : IsSteps(h, S, edges, n)
  BY <1>0, StepsExist
<1>2. Defines(h)
  <2>1. \A k \in 0 .. n : h[k] = IF k = 0 THEN S ELSE h[k - 1] \union Beyond(edges, h[k - 1])
    BY <1>0, <1>1 DEF IsSteps
  <2>2. h = [k \in 0 .. n |-> h[k]]
    BY <1>1 DEF IsSteps
  <2> QED BY <2>1, <2>2 DEF Beyond
<1>3. Defines(L)
  <2> HIDE DEF Defines
  <2> QED BY <1>2, Zenon
<1>4. Reaches(S, edges) = L[n]
  BY DEF Reaches
<1> HIDE DEF L
<1>5. L[0] = S
  BY <1>0, <1>3
<1>6. \A k \in 1 .. n : L[k] = L[k - 1] \union Beyond(edges, L[k - 1])
  <2>1. \A k \in 0 .. n :
          L[k] = IF k = 0 THEN S ELSE L[k - 1] \union {e[2] : e \in {d \in edges : d[1] \in L[k - 1]}}
    BY <1>3
  <2>2. \A k \in 1 .. n : k \in 0 .. n /\ k # 0
    BY <1>0
  <2> HIDE DEF Defines
  <2> QED BY <2>1, <2>2, Zenon DEF Beyond
<1>7. L = [k \in 0 .. n |-> L[k]]
  BY <1>3
<1>8. IsSteps(L, S, edges, n)
  BY <1>5, <1>6, <1>7 DEF IsSteps
<1> QED BY <1>4, <1>8

\* The list only grows.
LEMMA StepsGrow ==
  ASSUME NEW S, NEW edges, NEW n \in Nat, NEW f, IsSteps(f, S, edges, n)
  PROVE  \A k \in 0 .. n : S \subseteq f[k]
<1> DEFINE Bad == {k \in 0 .. n : ~ (S \subseteq f[k])}
<1> SUFFICES ASSUME Bad # {} PROVE FALSE
  OBVIOUS
<1>1. Bad \subseteq Nat
  OBVIOUS
<1>2. PICK m \in Bad : \A k \in Bad : m <= k
  <2> HIDE DEF Bad
  <2> QED BY <1>1, LeastNumber
<1>3. m \in 0 .. n /\ ~ (S \subseteq f[m])
  OBVIOUS
<1>4. m # 0
  BY <1>3 DEF IsSteps
<1>5. m - 1 \in 0 .. n /\ m \in 1 .. n /\ m - 1 \notin Bad
  <2>1. m - 1 \in 0 .. n /\ m \in 1 .. n /\ ~ (m <= m - 1)
    BY <1>3, <1>4
  <2> HIDE DEF Bad
  <2> QED BY <1>2, <2>1
<1>6. S \subseteq f[m - 1]
  BY <1>5
<1> QED BY <1>3, <1>5, <1>6 DEF IsSteps

\* A list as long as there are edges has all that is reached: a step that adds
\* nothing is the last to add something, and one that does adds one of the second
\* ends of the edges.
LEMMA StepsComplete ==
  ASSUME NEW S, NEW edges, IsFiniteSet(edges), NEW f, IsSteps(f, S, edges, Cardinality(edges))
  PROVE  Beyond(edges, f[Cardinality(edges)]) \subseteq f[Cardinality(edges)]
<1> DEFINE n == Cardinality(edges)
           T == {e[2] : e \in edges}
           h == [e \in edges |-> e[2]]
           new == [k \in 0 .. n |-> f[k] \intersect T]
<1>1. n \in Nat
  BY FS_CardinalityType
<1>2. IsFiniteSet(T) /\ Cardinality(T) <= n
  <2>1. h \in [edges -> T] /\ \A t \in T : \E e \in edges : h[e] = t
    OBVIOUS
  <2>2. h \in Surjection(edges, T)
    BY <2>1 DEF Surjection
  <2> HIDE DEF h, T
  <2> QED BY <2>2, FS_Surjection
<1>3. \A U : Beyond(edges, U) \subseteq T
  BY DEF Beyond
<1>4. \A k \in 1 .. n : f[k] = f[k - 1] \union Beyond(edges, f[k - 1])
  BY DEF IsSteps
<1>5. Cardinality(T) \in Nat
  BY <1>2, FS_CardinalityType
<1> HIDE DEF T, h
<1>6. \A k \in 0 .. n : /\ new[k] \in SUBSET T /\ new[k] = f[k] \intersect T
                        /\ IsFiniteSet(new[k]) /\ Cardinality(new[k]) \in Nat
  <2>1. \A k \in 0 .. n : new[k] = f[k] \intersect T /\ new[k] \in SUBSET T
    OBVIOUS
  <2> HIDE DEF new
  <2> QED BY <1>2, <2>1, FS_Subset, FS_CardinalityType
<1> HIDE DEF new
<1>7. ASSUME NEW k \in 0 .. n - 1, Beyond(edges, f[k]) \subseteq f[k]
      PROVE  Beyond(edges, f[n]) \subseteq f[n]
  <2> DEFINE Bad == {j \in k .. n : f[j] # f[k]}
  <2>1. Bad = {}
    <3> SUFFICES ASSUME Bad # {} PROVE FALSE
      OBVIOUS
    <3>1. Bad \subseteq Nat
      BY <1>1
    <3>2. PICK m \in Bad : \A j \in Bad : m <= j
      <4> HIDE DEF Bad
      <4> QED BY <3>1, LeastNumber
    <3>3. m \in k .. n /\ f[m] # f[k] /\ m # k
      OBVIOUS
    <3>4. m - 1 \in k .. n /\ m - 1 \notin Bad /\ m \in 1 .. n
      <4>1. m - 1 \in k .. n /\ m \in 1 .. n /\ ~ (m <= m - 1)
        BY <1>1, <3>3
      <4> HIDE DEF Bad
      <4> QED BY <3>2, <4>1
    <3>5. f[m - 1] = f[k]
      BY <3>4
    <3>6. f[m] = f[m - 1] \union Beyond(edges, f[m - 1])
      BY <1>4, <3>4
    <3> QED BY <1>7, <3>3, <3>5, <3>6
  <2>2. f[n] = f[k]
    BY <1>1, <2>1
  <2> QED BY <1>7, <2>2
<1>8. ASSUME \A k \in 0 .. n - 1 : ~ (Beyond(edges, f[k]) \subseteq f[k])
      PROVE  T \subseteq f[n]
  <2> DEFINE Bad == {k \in 0 .. n : Cardinality(new[k]) < k}
  <2>1. Bad = {}
    <3> SUFFICES ASSUME Bad # {} PROVE FALSE
      OBVIOUS
    <3>1. Bad \subseteq Nat
      BY <1>1
    <3>2. PICK m \in Bad : \A j \in Bad : m <= j
      <4> HIDE DEF Bad
      <4> QED BY <3>1, LeastNumber
    <3>3. m \in 0 .. n /\ Cardinality(new[m]) < m
      OBVIOUS
    <3>4. m # 0
      BY <1>6, <3>3
    <3>5. m - 1 \in 0 .. n - 1 /\ m - 1 \in 0 .. n /\ m \in 1 .. n
      BY <1>1, <3>3, <3>4
    <3>6. m - 1 \notin Bad
      <4>1. ~ (m <= m - 1)
        BY <3>5
      <4> HIDE DEF Bad
      <4> QED BY <3>2, <4>1
    <3>7. Cardinality(new[m - 1]) >= m - 1
      BY <1>6, <3>5, <3>6
    <3>8. new[m - 1] \subseteq new[m] /\ new[m] # new[m - 1]
      <4>1. f[m] = f[m - 1] \union Beyond(edges, f[m - 1])
        BY <1>4, <3>5
      <4>2. ~ (Beyond(edges, f[m - 1]) \subseteq f[m - 1])
        BY <1>8, <3>5
      <4>3. Beyond(edges, f[m - 1]) \subseteq T
        BY <1>3
      <4>4. new[m - 1] = f[m - 1] \intersect T /\ new[m] = f[m] \intersect T
        BY <1>6, <3>3, <3>5
      <4> QED BY <4>1, <4>2, <4>3, <4>4
    <3>9. Cardinality(new[m - 1]) <= Cardinality(new[m]) /\ Cardinality(new[m - 1]) # Cardinality(new[m])
      <4>1. IsFiniteSet(new[m])
        BY <1>6, <3>3
      <4> QED BY <3>8, <4>1, FS_Subset
    <3>10. Cardinality(new[m]) \in Nat /\ Cardinality(new[m - 1]) \in Nat
      BY <1>6, <3>5, <3>3
    <3> HIDE DEF Bad
    <3> QED BY <3>3, <3>5, <3>7, <3>9, <3>10
  <2>2. Cardinality(new[n]) >= n
    <3>1. n \in 0 .. n /\ n \notin Bad
      BY <1>1, <2>1
    <3> QED BY <1>1, <1>6, <3>1
  <2>3. n \in 0 .. n
    BY <1>1
  <2>4. new[n] \in SUBSET T /\ new[n] = f[n] \intersect T /\ Cardinality(new[n]) \in Nat
    BY <1>6, <2>3
  <2>5. Cardinality(new[n]) <= Cardinality(T)
    BY <1>2, <2>4, FS_Subset
  <2>6. Cardinality(new[n]) = Cardinality(T)
    BY <1>1, <1>2, <1>5, <2>2, <2>4, <2>5
  <2> QED BY <1>2, <2>4, <2>6, FS_Subset
<1>9. CASE \E k \in 0 .. n - 1 : Beyond(edges, f[k]) \subseteq f[k]
  BY <1>7, <1>9
<1>10. CASE \A k \in 0 .. n - 1 : ~ (Beyond(edges, f[k]) \subseteq f[k])
  <2>1. T \subseteq f[n]
    BY <1>8, <1>10
  <2> QED BY <1>3, <2>1
<1> QED BY <1>9, <1>10

\* With the first end of an edge, T has the second.
Closed(edges, T) == \A e \in edges : e[1] \in T => e[2] \in T

\* Reaches is the least closed set with all of S.
LEMMA ReachesLeast ==
  ASSUME NEW S, NEW edges, IsFiniteSet(edges)
  PROVE  /\ S \subseteq Reaches(S, edges)
         /\ Closed(edges, Reaches(S, edges))
         /\ \A T : S \subseteq T /\ Closed(edges, T) => Reaches(S, edges) \subseteq T
<1> DEFINE n == Cardinality(edges)
<1>0. n \in Nat /\ n \in 0 .. n
  BY FS_CardinalityType
<1>1. PICK f : IsSteps(f, S, edges, n) /\ Reaches(S, edges) = f[n]
  BY ReachesSteps
<1>2. S \subseteq f[n]
  BY <1>0, <1>1, StepsGrow
<1>3. Beyond(edges, f[n]) \subseteq f[n]
  BY <1>1, StepsComplete
<1>4. Closed(edges, f[n])
  BY <1>3 DEF Closed, Beyond
<1>5. ASSUME NEW T, S \subseteq T, Closed(edges, T)
      PROVE  f[n] \subseteq T
  <2> DEFINE Bad == {k \in 0 .. n : ~ (f[k] \subseteq T)}
  <2> SUFFICES ASSUME Bad # {} PROVE FALSE
    BY <1>0
  <2>1. Bad \subseteq Nat
    BY <1>0
  <2>2. PICK m \in Bad : \A k \in Bad : m <= k
    <3> HIDE DEF Bad
    <3> QED BY <2>1, LeastNumber
  <2>3. m \in 0 .. n /\ ~ (f[m] \subseteq T)
    OBVIOUS
  <2>4. m # 0
    BY <1>1, <1>5, <2>3 DEF IsSteps
  <2>5. m - 1 \in 0 .. n /\ m \in 1 .. n /\ m - 1 \notin Bad
    <3>1. m - 1 \in 0 .. n /\ m \in 1 .. n /\ ~ (m <= m - 1)
      BY <1>0, <2>3, <2>4
    <3> HIDE DEF Bad
    <3> QED BY <2>2, <3>1
  <2>6. f[m - 1] \subseteq T
    BY <2>5
  <2>7. f[m] = f[m - 1] \union Beyond(edges, f[m - 1])
    BY <1>1, <2>5 DEF IsSteps
  <2>8. Beyond(edges, f[m - 1]) \subseteq T
    BY <1>5, <2>6 DEF Beyond, Closed
  <2> QED BY <2>3, <2>6, <2>7, <2>8
<1> QED BY <1>1, <1>2, <1>4, <1>5

\* What is reached from a set is reached from one of its members.
LEMMA ReachesFromOne ==
  ASSUME NEW S, NEW edges, IsFiniteSet(edges), NEW y \in Reaches(S, edges)
  PROVE  \E s \in S : y \in Reaches({s}, edges)
<1> DEFINE T == UNION {Reaches({s}, edges) : s \in S}
<1>1. S \subseteq T
  BY ReachesLeast
<1>2. Closed(edges, T)
  <2> SUFFICES ASSUME NEW e \in edges, e[1] \in T PROVE e[2] \in T
    BY DEF Closed
  <2>1. PICK s \in S : e[1] \in Reaches({s}, edges)
    OBVIOUS
  <2>2. e[2] \in Reaches({s}, edges)
    BY <2>1, ReachesLeast DEF Closed
  <2> QED BY <2>2
<1> HIDE DEF T
<1>3. Reaches(S, edges) \subseteq T
  BY <1>1, <1>2, ReachesLeast
<1> QED BY <1>3 DEF T

\* More edges reach more.
LEMMA ReachesMore ==
  ASSUME NEW S, NEW edges, IsFiniteSet(edges), NEW some \in SUBSET edges
  PROVE  IsFiniteSet(some) /\ Reaches(S, some) \subseteq Reaches(S, edges)
<1>1. IsFiniteSet(some)
  BY FS_Subset
<1>2. S \subseteq Reaches(S, edges) /\ Closed(some, Reaches(S, edges))
  BY ReachesLeast DEF Closed
<1> QED BY <1>1, <1>2, ReachesLeast

\* Of the instructions in U, those in L stay.  r[j] is what takes the place of j: j
\* itself, if it stays, and otherwise what control goes on to from j.
StandsIn(old, new, U, L, r) ==
  /\ Closed(old, U)
  /\ \A j \in U : r[j] \subseteq L
  /\ \A j \in U \intersect L : r[j] = {j}
  /\ \A j \in U \ L : r[j] \subseteq Reaches({j}, old) /\ \A e \in old : e[1] = j => r[e[2]] \subseteq r[j]
  /\ \A j \in U \intersect L : \A m : <<j, m>> \in new <=> \E e \in old : e[1] = j /\ m \in r[e[2]]

Pairwise(edges) == IsFiniteSet(edges) /\ \A e \in edges : e = <<e[1], e[2]>>

\* Then what stays is reached as before.
LEMMA ReachesKept ==
  ASSUME NEW old, NEW new, Pairwise(old), Pairwise(new), NEW U, NEW L, NEW r, StandsIn(old, new, U, L, r),
         NEW T \in SUBSET U
  PROVE  /\ Reaches(T, old) \subseteq U
         /\ Reaches(T, old) \intersect L = Reaches(UNION {r[t] : t \in T}, new)
<1> DEFINE A == Reaches(T, old)  S == UNION {r[t] : t \in T}  B == Reaches(S, new)
<1>1. IsFiniteSet(old) /\ IsFiniteSet(new)
  BY DEF Pairwise
<1>2. T \subseteq A /\ Closed(old, A)
  BY <1>1, ReachesLeast
<1>3. A \subseteq U
  BY <1>1, ReachesLeast DEF StandsIn
<1>4. S \subseteq B /\ Closed(new, B)
  BY <1>1, ReachesLeast
<1>5. \A t \in T : r[t] \subseteq S
  OBVIOUS
<1>6. ASSUME NEW C, S \subseteq C, Closed(new, C) PROVE B \subseteq C
  BY <1>1, <1>6, ReachesLeast
<1>7. ASSUME NEW C, T \subseteq C, Closed(old, C) PROVE A \subseteq C
  BY <1>1, <1>7, ReachesLeast
<1>8. ASSUME NEW j \in A PROVE r[j] \subseteq A \intersect L
  <2>1. j \in U /\ r[j] \subseteq L
    BY <1>3 DEF StandsIn
  <2>2. CASE j \in L
    BY <2>1, <2>2 DEF StandsIn
  <2>3. CASE j \notin L
    <3>1. r[j] \subseteq Reaches({j}, old)
      BY <2>1, <2>3 DEF StandsIn
    <3>2. Reaches({j}, old) \subseteq A
      BY <1>1, <1>2, ReachesLeast
    <3> QED BY <2>1, <3>1, <3>2
  <2> QED BY <2>2, <2>3
<1>9. B \subseteq A \intersect L
  <2>1. S \subseteq A \intersect L
    BY <1>2, <1>8
  <2>2. Closed(new, A \intersect L)
    <3> SUFFICES ASSUME NEW d \in new, d[1] \in A \intersect L PROVE d[2] \in A \intersect L
      BY DEF Closed
    <3>1. d[1] \in U \intersect L /\ <<d[1], d[2]>> \in new
      BY <1>3 DEF Pairwise
    <3>2. PICK e \in old : e[1] = d[1] /\ d[2] \in r[e[2]]
      BY <3>1 DEF StandsIn
    <3>3. e[2] \in A
      BY <1>2, <3>2 DEF Closed
    <3> QED BY <1>8, <3>2, <3>3
  <2> HIDE DEF A, B, S
  <2> QED BY <1>6, <2>1, <2>2
<1>10. A \intersect L \subseteq B
  <2> DEFINE C == {k \in U : r[k] \subseteq B}
  <2>1. T \subseteq C
    BY <1>4, <1>5
  <2>2. Closed(old, C)
    <3> SUFFICES ASSUME NEW e \in old, e[1] \in C PROVE e[2] \in C
      BY DEF Closed
    <3>1. e[1] \in U /\ e[2] \in U /\ r[e[1]] \subseteq B
      BY DEF StandsIn, Closed
    <3>2. CASE e[1] \in L
      <4>1. e[1] \in B
        BY <3>1, <3>2 DEF StandsIn
      <4>2. ASSUME NEW m \in r[e[2]] PROVE m \in B
        <5>1. <<e[1], m>> \in new
          BY <3>1, <3>2, <4>2 DEF StandsIn
        <5>2. <<e[1], m>>[1] = e[1] /\ <<e[1], m>>[2] = m
          OBVIOUS
        <5> QED BY <1>4, <4>1, <5>1, <5>2 DEF Closed
      <4> QED BY <3>1, <4>2
    <3>3. CASE e[1] \notin L
      BY <3>1, <3>3 DEF StandsIn
    <3> QED BY <3>2, <3>3
  <2> HIDE DEF A, B, S, C
  <2>3. A \subseteq C
    BY <1>7, <2>1, <2>2
  <2>4. ASSUME NEW j \in A, j \in L PROVE j \in B
    <3>1. j \in U /\ r[j] \subseteq B
      BY <2>3 DEF C
    <3> QED BY <2>4, <3>1 DEF StandsIn
  <2> QED BY <2>4
<1> QED BY <1>3, <1>9, <1>10

Quiet(edges, effects) == {e \in edges : e[1] \notin effects}

\* What goes is no effect and passes control on without one, and control starts at T
\* instead of S.
Replaces(old, new, U, L, r, F, S, T) ==
  /\ Pairwise(old) /\ Pairwise(new) /\ StandsIn(old, new, U, L, r) /\ S \subseteq U
  /\ \A j \in U \ L : j \notin F /\ r[j] \subseteq Reaches({j}, Quiet(old, F))
  /\ \A m : m \in T <=> \E s \in S : m \in r[s]

\* And so the course of the effects is the same.
LEMMA CourseKept ==
  ASSUME NEW old, NEW new, NEW U, NEW L, NEW r, NEW F, NEW S, NEW T, Replaces(old, new, U, L, r, F, S, T)
  PROVE  Course(T, new, F \intersect L) = Course(S, old, F)
<1> USE DEF Replaces
<1> DEFINE G == F \intersect L
           oldQ == Quiet(old, F)  newQ == Quiet(new, G)
           A == Reaches(S, old)  B == Reaches(T, new)
<1>1. Pairwise(oldQ) /\ Pairwise(newQ) /\ oldQ \subseteq old /\ newQ \subseteq new
  <2>1. oldQ \subseteq old /\ newQ \subseteq new
    BY DEF Quiet
  <2>2. IsFiniteSet(oldQ) /\ IsFiniteSet(newQ)
    BY <2>1, FS_Subset DEF Pairwise
  <2> QED BY <2>1, <2>2 DEF Pairwise
<1>2. StandsIn(oldQ, newQ, U, L, r)
  <2>1. Closed(oldQ, U)
    BY <1>1 DEF StandsIn, Closed
  <2>2. \A j \in U \ L : \A e \in oldQ : e[1] = j => r[e[2]] \subseteq r[j]
    BY <1>1 DEF StandsIn
  <2>3. ASSUME NEW j \in U \intersect L, NEW m
        PROVE  <<j, m>> \in newQ <=> \E e \in oldQ : e[1] = j /\ m \in r[e[2]]
    <3>1. <<j, m>>[1] = j
      OBVIOUS
    <3>2. <<j, m>> \in newQ <=> <<j, m>> \in new /\ j \notin F
      BY <3>1 DEF Quiet
    <3>3. <<j, m>> \in new <=> \E e \in old : e[1] = j /\ m \in r[e[2]]
      BY DEF StandsIn
    <3> QED BY <3>2, <3>3 DEF Quiet
  <2> QED BY <2>1, <2>2, <2>3 DEF StandsIn
<1>0. T = UNION {r[s] : s \in S}
  OBVIOUS
<1>3. A \subseteq U /\ A \intersect L = B
  BY <1>0, ReachesKept
<1>4. \A k \in U : Reaches({k}, oldQ) \subseteq U /\ Reaches({k}, oldQ) \intersect L = Reaches(r[k], newQ)
  <2> SUFFICES ASSUME NEW k \in U
               PROVE  Reaches({k}, oldQ) \subseteq U /\ Reaches({k}, oldQ) \intersect L = Reaches(r[k], newQ)
    OBVIOUS
  <2>1. UNION {r[t] : t \in {k}} = r[k] /\ {k} \in SUBSET U
    OBVIOUS
  <2> HIDE DEF oldQ, newQ
  <2> QED BY <1>1, <1>2, <2>1, ReachesKept
<1>5. Reaches(S, oldQ) \subseteq U /\ Reaches(S, oldQ) \intersect L = Reaches(T, newQ)
  <2> HIDE DEF oldQ, newQ
  <2> QED BY <1>0, <1>1, <1>2, ReachesKept
<1>6. F \intersect U \subseteq L
  OBVIOUS
<1>7. Reaches(T, newQ) \intersect G = Reaches(S, oldQ) \intersect F
  BY <1>5, <1>6
<1>8. Closed(old, U) /\ \A e \in old : e = <<e[1], e[2]>>
  BY DEF StandsIn, Pairwise
<1>9. \A e \in new : e = <<e[1], e[2]>>
  BY DEF Pairwise
<1> DEFINE nextOld == UNION {{e[1]} \X (Reaches({e[2]}, oldQ) \intersect F) : e \in {d \in old : d[1] \in A \intersect F}}
           nextNew == UNION {{e[1]} \X (Reaches({e[2]}, newQ) \intersect G) : e \in {d \in new : d[1] \in B \intersect G}}
<1>10. ASSUME NEW p \in nextOld PROVE p \in nextNew
  <2>1. PICK e \in old : e[1] \in A \intersect F /\ p \in {e[1]} \X (Reaches({e[2]}, oldQ) \intersect F)
    OBVIOUS
  <2>2. PICK y \in Reaches({e[2]}, oldQ) \intersect F : p = <<e[1], y>>
    BY <2>1
  <2>3. e[1] \in U \intersect L /\ e[2] \in U /\ e[1] \in B \intersect G
    BY <1>3, <1>6, <1>8, <2>1 DEF Closed
  <2>4. y \in Reaches(r[e[2]], newQ) /\ y \in G
    BY <1>4, <1>6, <2>2, <2>3
  <2>5. PICK m \in r[e[2]] : y \in Reaches({m}, newQ)
    <3> HIDE DEF newQ
    <3> QED BY <1>1, <2>4, ReachesFromOne DEF Pairwise
  <2>6. <<e[1], m>> \in new
    BY <2>3 DEF StandsIn
  <2>7. <<e[1], m>>[1] = e[1] /\ <<e[1], m>>[2] = m
    OBVIOUS
  <2>8. p \in {<<e[1], m>>[1]} \X (Reaches({<<e[1], m>>[2]}, newQ) \intersect G)
    BY <2>2, <2>4, <2>5, <2>7
  <2> QED BY <2>3, <2>6, <2>7, <2>8
<1>11. ASSUME NEW p \in nextNew PROVE p \in nextOld
  <2>1. PICK d \in new : d[1] \in B \intersect G /\ p \in {d[1]} \X (Reaches({d[2]}, newQ) \intersect G)
    OBVIOUS
  <2>2. PICK y \in Reaches({d[2]}, newQ) \intersect G : p = <<d[1], y>>
    BY <2>1
  <2>3. d[1] \in U \intersect L /\ d[1] \in A \intersect F /\ <<d[1], d[2]>> \in new
    BY <1>3, <1>9, <2>1
  <2>4. PICK e \in old : e[1] = d[1] /\ d[2] \in r[e[2]]
    BY <2>3 DEF StandsIn
  <2>5. e[2] \in U
    BY <1>8, <2>3, <2>4 DEF Closed
  <2>6. Reaches({d[2]}, newQ) \subseteq Reaches(r[e[2]], newQ)
    <3> HIDE DEF newQ
    <3>1. IsFiniteSet(newQ)
      BY <1>1 DEF Pairwise
    <3>2. {d[2]} \subseteq Reaches(r[e[2]], newQ) /\ Closed(newQ, Reaches(r[e[2]], newQ))
      BY <2>4, <3>1, ReachesLeast
    <3> QED BY <3>1, <3>2, ReachesLeast
  <2>7. y \in Reaches({e[2]}, oldQ) \intersect F
    BY <1>4, <2>2, <2>5, <2>6
  <2>8. p = <<e[1], y>>
    BY <2>2, <2>4
  <2>9. e[1] \in A \intersect F
    BY <2>3, <2>4
  <2>10. p \in {e[1]} \X (Reaches({e[2]}, oldQ) \intersect F)
    BY <2>7, <2>8
  <2>11. e \in {q \in old : q[1] \in A \intersect F}
    BY <2>9
  <2> HIDE DEF A, oldQ
  <2> QED BY <2>10, <2>11
<1>12. nextNew = nextOld
  BY <1>10, <1>11
<1>13. Course(S, old, F) = [first |-> Reaches(S, oldQ) \intersect F, next |-> nextOld]
  BY DEF Course, Quiet
<1>14. Course(T, new, G) = [first |-> Reaches(T, newQ) \intersect G, next |-> nextNew]
  BY DEF Course, Quiet
<1> HIDE DEF nextOld, nextNew, oldQ, newQ, G
<1>15. Course(T, new, G) = Course(S, old, F)
  BY <1>7, <1>12, <1>13, <1>14
<1> QED BY <1>15 DEF G

-----------------------------------------------------------------------------
(* Instructions that control passes through without an effect, or never    *)
(* reaches, may go.                                                        *)

\* Of some instructions of a block one is the first, and one the last.
LEMMA FirstOfSome ==
  ASSUME IsFiniteSet(Insns), Listed, NEW c, NEW B \in SUBSET Body(c), B # {}
  PROVE  \E n \in B : \A x \in B : x = n \/ <<n, x>> \in order
<1> DEFINE R == {p \in B \X B : <<p[2], p[1]>> \in order}
<1>1. B \subseteq Insns /\ \A x \in B : x \in Live /\ insn[x].code = c
  BY DEF Body, Live
<1>2. \A x, y \in B : <<x, y>> \in R <=> <<y, x>> \in order
  OBVIOUS
<1> HIDE DEF R
<1>3. (\A x \in B : <<x, x>> \notin R) /\ \A x, y, z \in B : <<x, y>> \in R /\ <<y, z>> \in R => <<x, z>> \in R
  BY <1>1, <1>2 DEF Listed
<1>4. PICK n \in B : \A x \in B : <<n, x>> \notin R
  BY <1>1, <1>3, FS_Subset, LastExists
<1>5. \A x \in B : x = n \/ <<n, x>> \in order
  BY <1>1, <1>2, <1>4 DEF Listed
<1> QED BY <1>5

LEMMA LastOfSome ==
  ASSUME IsFiniteSet(Insns), Listed, NEW c, NEW B \in SUBSET Body(c), B # {}
  PROVE  \E n \in B : \A x \in B : x = n \/ <<x, n>> \in order
<1>1. B \subseteq Insns /\ \A x \in B : x \in Live /\ insn[x].code = c
  BY DEF Body, Live
<1>2. (\A x \in B : <<x, x>> \notin order) /\ \A x, y, z \in B : <<x, y>> \in order /\ <<y, z>> \in order => <<x, z>> \in order
  BY <1>1 DEF Listed
<1>3. PICK n \in B : \A x \in B : <<n, x>> \notin order
  BY <1>1, <1>2, FS_Subset, LastExists
<1>4. \A x \in B : x = n \/ <<x, n>> \in order
  BY <1>1, <1>3 DEF Listed
<1> QED BY <1>4

\* The first of a block and the next of an instruction, said of pairs.
LEMMA Places ==
  ASSUME Listed, order \subseteq Insns \X Insns
  PROVE  /\ \A c, i : i \in First(c) <=> i \in Body(c) /\ \A k \in Insns : <<k, i>> \notin order
         /\ \A i, j : IsNext(i, j) <=> <<i, j>> \in order /\ \A k \in Insns : ~ (<<i, k>> \in order /\ <<k, j>> \in order)
<1>1. \A e \in order : e = <<e[1], e[2]>> /\ e[1] \in Insns /\ e[2] \in Insns
  OBVIOUS
<1>2. \A j, k \in Insns : <<j, k>>[2] = k
  OBVIOUS
<1>3. \A i \in Insns : (\A e \in order : e[2] # i) <=> \A k \in Insns : <<k, i>> \notin order
  BY <1>1, <1>2
<1>4. \A c, i : i \in First(c) <=> i \in Body(c) /\ \A k \in Insns : <<k, i>> \notin order
  BY <1>3 DEF First, Body, Live
<1>5. \A i, k \in Insns : <<i, k>> \in order => i \in Live /\ k \in Live
  BY DEF Listed
<1>6. \A i, j : <<i, j>> \in order => i \in Insns /\ j \in Insns
  OBVIOUS
<1>7. ASSUME NEW i, NEW j
      PROVE  IsNext(i, j) <=> <<i, j>> \in order /\ \A k \in Insns : ~ (<<i, k>> \in order /\ <<k, j>> \in order)
  <2>1. \A k : <<i, k>> \in order => k \in Live /\ k \in Insns
    BY <1>5, <1>6
  <2> QED BY <2>1 DEF IsNext
<1> QED BY <1>4, <1>7

\* And so they are after a step.
LEMMA PlacesThen ==
  ASSUME Listed', order' \subseteq Insns \X Insns
  PROVE  /\ \A c, i : i \in First(c)' <=> i \in Body(c)' /\ \A k \in Insns : <<k, i>> \notin order'
         /\ \A i, j : IsNext(i, j)' <=> <<i, j>> \in order' /\ \A k \in Insns : ~ (<<i, k>> \in order' /\ <<k, j>> \in order')
<1>1. \A e \in order' : e = <<e[1], e[2]>> /\ e[1] \in Insns /\ e[2] \in Insns
  OBVIOUS
<1>2. \A j, k \in Insns : <<j, k>>[2] = k
  OBVIOUS
<1>3. \A i \in Insns : (\A e \in order' : e[2] # i) <=> \A k \in Insns : <<k, i>> \notin order'
  BY <1>1, <1>2
<1>4. \A c, i : i \in First(c)' <=> i \in Body(c)' /\ \A k \in Insns : <<k, i>> \notin order'
  <2> TAKE c, i
  <2>1. i \in Body(c)' => i \in Insns
    BY DEF Body, Live
  <2>2. i \in First(c)' <=> i \in Body(c)' /\ \A e \in order' : e[2] # i
    BY DEF First
  <2> QED BY <1>3, <2>1, <2>2
<1>5. \A i, k \in Insns : <<i, k>> \in order' => i \in Live' /\ k \in Live'
  BY DEF Listed
<1>6. \A i, j : <<i, j>> \in order' => i \in Insns /\ j \in Insns
  OBVIOUS
<1>7. ASSUME NEW i, NEW j
      PROVE  IsNext(i, j)' <=> <<i, j>> \in order' /\ \A k \in Insns : ~ (<<i, k>> \in order' /\ <<k, j>> \in order')
  <2>1. \A k : <<i, k>> \in order' => k \in Live' /\ k \in Insns
    BY <1>5, <1>6
  <2> QED BY <2>1 DEF IsNext
<1> QED BY <1>4, <1>7

\* Where control can go after a step.
LEMMA FlowsThen ==
  ASSUME NEW i, NEW j, NEW c, insn'[i].target = c
  PROVE  Flows(i, j)' <=> (GoesOn(i)' /\ IsNext(i, j)') \/ (GoesAway(i)' /\ j \in First(c)')
  BY DEF Flows, First, Body

\* The first of L from j on.
From(j, L) ==
  {m \in L : /\ m = j \/ <<j, m>> \in order
             /\ \A k \in L : k = j \/ <<j, k>> \in order => <<k, m>> \notin order}

\* It is j itself, if that is in L, and otherwise what comes from the next on.
LEMMA FromHere ==
  ASSUME Listed, order \subseteq Insns \X Insns, NEW L \in SUBSET Live, NEW j \in Live
  PROVE  /\ j \in L => From(j, L) = {j}
         /\ \A n : IsNext(j, n) /\ j \notin L => From(n, L) \subseteq From(j, L)
<1>0. \A i \in Live : i \in Insns
  BY DEF Live
<1>1. ASSUME j \in L, NEW m \in L PROVE m \in From(j, L) <=> m = j
  BY <1>0, <1>1 DEF From, Listed
<1>2. j \in L => From(j, L) = {j}
  <2>1. From(j, L) \subseteq L
    BY DEF From
  <2> QED BY <1>1, <2>1
<1>3. ASSUME NEW n, IsNext(j, n), j \notin L, NEW m \in From(n, L) PROVE m \in From(j, L)
  <2>0. <<j, n>> \in order /\ \A k \in Insns : ~ (<<j, k>> \in order /\ <<k, n>> \in order)
    BY <1>3, Places
  <2>1. n \in Insns /\ n \in Live /\ insn[n].code = insn[j].code
    BY <1>0, <2>0 DEF Listed
  <2>2. m \in L /\ (m = n \/ <<n, m>> \in order) /\ \A k \in L : k = n \/ <<n, k>> \in order => <<k, m>> \notin order
    BY <1>3 DEF From
  <2>3. <<j, m>> \in order
    BY <1>0, <2>0, <2>1, <2>2 DEF Listed
  <2>4. ASSUME NEW k \in L, <<j, k>> \in order PROVE k = n \/ <<n, k>> \in order
    BY <1>0, <2>0, <2>1, <2>4 DEF Listed
  <2> QED BY <1>3, <2>2, <2>3, <2>4 DEF From
<1> QED BY <1>2, <1>3

\* Control goes on from what stays to the first that stays.
LEMMA NextThatStays ==
  ASSUME IsFiniteSet(Insns), Listed, order \subseteq Insns \X Insns, NEW L \in SUBSET Live, NEW j \in L, NEW m \in L
  PROVE  (\E n : IsNext(j, n) /\ m \in From(n, L))
           <=> <<j, m>> \in order /\ \A k \in L : ~ (<<j, k>> \in order /\ <<k, m>> \in order)
<1>0. \A i \in Live : i \in Insns
  BY DEF Live
<1>1. ASSUME NEW n, IsNext(j, n), m \in From(n, L)
      PROVE  <<j, m>> \in order /\ \A k \in L : ~ (<<j, k>> \in order /\ <<k, m>> \in order)
  <2>0. <<j, n>> \in order /\ \A k \in Insns : ~ (<<j, k>> \in order /\ <<k, n>> \in order)
    BY <1>1, Places
  <2>1. n \in Insns /\ n \in Live /\ insn[n].code = insn[j].code
    BY <1>0, <2>0 DEF Listed
  <2>2. (m = n \/ <<n, m>> \in order) /\ \A k \in L : k = n \/ <<n, k>> \in order => <<k, m>> \notin order
    BY <1>1 DEF From
  <2>3. <<j, m>> \in order
    BY <1>0, <2>0, <2>1, <2>2 DEF Listed
  <2>4. ASSUME NEW k \in L, <<j, k>> \in order PROVE k = n \/ <<n, k>> \in order
    BY <1>0, <2>0, <2>1, <2>4 DEF Listed
  <2> QED BY <2>2, <2>3, <2>4
<1>2. ASSUME <<j, m>> \in order, \A k \in L : ~ (<<j, k>> \in order /\ <<k, m>> \in order)
      PROVE  \E n : IsNext(j, n) /\ m \in From(n, L)
  <2> DEFINE c == insn[j].code  B == {x \in Body(c) : <<j, x>> \in order}
  <2>1. \A x \in Insns : <<j, x>> \in order => x \in B
    BY <1>0 DEF Listed, Body
  <2>2. PICK n \in B : \A x \in B : x = n \/ <<n, x>> \in order
    <3>1. m \in B /\ B \in SUBSET Body(c)
      BY <1>0, <1>2, <2>1
    <3> HIDE DEF B
    <3> QED BY <3>1, FirstOfSome
  <2>3. <<j, n>> \in order /\ n \in Insns
    BY <1>0 DEF Body
  <2>4. IsNext(j, n)
    BY <2>1, <2>2, <2>3, Places DEF Listed
  <2>5. m = n \/ <<n, m>> \in order
    BY <1>0, <1>2, <2>1, <2>2
  <2>6. \A k \in L : k = n \/ <<n, k>> \in order => <<j, k>> \in order
    BY <1>0, <2>3 DEF Listed
  <2>7. m \in From(n, L)
    BY <1>2, <2>5, <2>6 DEF From
  <2> QED BY <2>4, <2>7
<1> QED BY <1>1, <1>2

\* And a block starts with the first that stays.
LEMMA FirstThatStays ==
  ASSUME IsFiniteSet(Insns), Listed, order \subseteq Insns \X Insns, NEW L \in SUBSET Live, NEW c, NEW m \in L
  PROVE  (\E n \in First(c) : m \in From(n, L)) <=> insn[m].code = c /\ \A k \in L : <<k, m>> \notin order
<1>0. \A i \in Live : i \in Insns
  BY DEF Live
<1>1. ASSUME NEW n \in First(c), m \in From(n, L)
      PROVE  insn[m].code = c /\ \A k \in L : <<k, m>> \notin order
  <2>1. n \in Body(c) /\ n \in Insns /\ n \in Live /\ insn[n].code = c /\ \A k \in Insns : <<k, n>> \notin order
    BY Places DEF Body, Live
  <2>2. (m = n \/ <<n, m>> \in order) /\ \A k \in L : k = n \/ <<n, k>> \in order => <<k, m>> \notin order
    BY <1>1 DEF From
  <2>3. insn[m].code = c
    BY <1>0, <2>1, <2>2 DEF Listed
  <2>4. ASSUME NEW k \in L, <<k, m>> \in order PROVE FALSE
    <3>1. insn[k].code = c /\ k \in Insns /\ k \in Live
      BY <1>0, <2>3, <2>4 DEF Listed
    <3>2. k = n \/ <<n, k>> \in order
      BY <2>1, <3>1 DEF Listed
    <3> QED BY <2>2, <2>4, <3>2
  <2> QED BY <2>3, <2>4
<1>2. ASSUME insn[m].code = c, \A k \in L : <<k, m>> \notin order
      PROVE  \E n \in First(c) : m \in From(n, L)
  <2>1. m \in Body(c)
    BY <1>2 DEF Body
  <2>2. PICK n \in Body(c) : \A x \in Body(c) : x = n \/ <<n, x>> \in order
    BY <2>1, FirstOfSome
  <2>3. n \in Insns /\ n \in Live /\ insn[n].code = c
    BY DEF Body, Live
  <2>4. ASSUME NEW k \in Insns, <<k, n>> \in order PROVE FALSE
    <3>1. k \in Body(c)
      BY <2>3, <2>4 DEF Listed, Body
    <3> QED BY <2>2, <2>3, <2>4, <3>1 DEF Listed
  <2>5. n \in First(c)
    BY <2>4, Places
  <2>6. m = n \/ <<n, m>> \in order
    BY <2>1, <2>2
  <2> QED BY <1>2, <2>5, <2>6 DEF From
<1> QED BY <1>1, <1>2

\* Control goes on from i without an effect.
Passed(i) == GoesOn(i) /\ ~ GoesAway(i) /\ i \notin Effects

LEMMA EdgesArePairs == ASSUME IsFiniteSet(Insns) PROVE Pairwise(Edges) /\ Edges \subseteq Live \X Live
<1>1. IsFiniteSet(Live)
  BY FS_Subset DEF Live
<1>2. IsFiniteSet(Live \X Live)
  BY <1>1, FS_Product
<1>3. Edges \subseteq Live \X Live
  BY DEF Edges
<1>4. IsFiniteSet(Edges)
  BY <1>2, <1>3, FS_Subset
<1>5. \A e \in Edges : e = <<e[1], e[2]>>
  BY <1>3
<1> QED BY <1>3, <1>4, <1>5 DEF Pairwise

LEMMA EdgeIsFlow == ASSUME NEW i, NEW j PROVE <<i, j>> \in Edges <=> i \in Live /\ j \in Live /\ Flows(i, j)
  BY DEF Edges

\* From what goes, control comes to the first that stays, where nothing but what
\* control passes lies between.
LEMMA PassedThrough ==
  ASSUME IsFiniteSet(Insns), Listed, order \subseteq Insns \X Insns, NEW L \in SUBSET Live,
         NEW U \in SUBSET Live, Closed(Edges, U), \A i \in U \ L : Passed(i),
         NEW j \in U \ L, NEW m \in From(j, L)
  PROVE  m \in Reaches({j}, Quiet(Edges, Effects))
<1> DEFINE quiet == Quiet(Edges, Effects)  Q == Reaches({j}, quiet)
           c == insn[j].code
           B == {x \in Body(c) : <<j, x>> \in order /\ (x = m \/ <<x, m>> \in order) /\ x \notin Q}
<1>0. \A i \in Live : i \in Insns
  BY DEF Live
<1>1. IsFiniteSet(quiet) /\ quiet \subseteq Edges
  <2>1. quiet \subseteq Edges
    BY DEF Quiet
  <2> QED BY <2>1, EdgesArePairs, FS_Subset DEF Pairwise
<1>2. j \in Q /\ Closed(quiet, Q) /\ Q \subseteq U
  <2> HIDE DEF quiet
  <2>1. {j} \subseteq Q /\ Closed(quiet, Q)
    BY <1>1, ReachesLeast
  <2>2. {j} \subseteq U /\ Closed(quiet, U)
    BY <1>1 DEF Closed
  <2> QED BY <1>1, <2>1, <2>2, ReachesLeast
<1>3. m \in L /\ m \in Live /\ <<j, m>> \in order /\ \A k \in L : k = j \/ <<j, k>> \in order => <<k, m>> \notin order
  BY DEF From
<1>4. \A x \in Insns : <<j, x>> \in order => x \in Body(c)
  BY <1>0 DEF Listed, Body
<1>5. Closed(quiet, Q) => \A x : \A p \in Q : <<p, x>> \in quiet => x \in Q
  <2>1. \A p, x : <<p, x>>[1] = p /\ <<p, x>>[2] = x
    OBVIOUS
  <2> HIDE DEF quiet, Q
  <2> QED BY <2>1 DEF Closed
<1> HIDE DEF Q, quiet
<1> SUFFICES ASSUME m \notin Q PROVE FALSE
  BY DEF Q, quiet
<1>6. m \in B /\ B \in SUBSET Body(c)
  BY <1>0, <1>3, <1>4
<1>7. PICK x \in B : \A y \in B : y = x \/ <<x, y>> \in order
  <2> HIDE DEF B
  <2> QED BY <1>6, FirstOfSome
<1>8. x \in Insns /\ x \in Live /\ insn[x].code = c /\ <<j, x>> \in order
  BY DEF Body, Live
<1> DEFINE P == {p \in Body(c) : (p = j \/ <<j, p>> \in order) /\ <<p, x>> \in order}
<1>9. PICK p \in P : \A y \in P : y = p \/ <<y, p>> \in order
  <2>1. j \in P /\ P \in SUBSET Body(c)
    BY <1>0, <1>8 DEF Body
  <2> HIDE DEF P
  <2> QED BY <2>1, LastOfSome
<1>10. p \in Insns /\ p \in Live /\ (p = j \/ <<j, p>> \in order) /\ <<p, x>> \in order
  BY DEF Body, Live
<1>11. <<p, m>> \in order
  BY <1>0, <1>3, <1>7, <1>8, <1>10 DEF Listed
<1>12. p \in Q
  <2>1. ASSUME p # j, p \notin Q PROVE FALSE
    <3>1. p \in B
      BY <1>4, <1>10, <1>11, <2>1
    <3>2. p = x \/ <<x, p>> \in order
      BY <1>7, <3>1
    <3> QED BY <1>8, <1>10, <3>2 DEF Listed
  <2> QED BY <1>2, <2>1
<1>13. p \notin L
  BY <1>3, <1>10, <1>11
<1>14. Passed(p)
  BY <1>2, <1>12, <1>13
<1>15. IsNext(p, x)
  <2> SUFFICES ASSUME NEW k \in Insns, <<p, k>> \in order, <<k, x>> \in order PROVE FALSE
    BY <1>10, Places
  <2>1. <<j, k>> \in order
    BY <1>0, <1>10 DEF Listed
  <2>2. k \in P
    BY <1>4, <2>1
  <2>3. k = p \/ <<k, p>> \in order
    BY <1>9, <2>2
  <2> QED BY <1>10, <2>3 DEF Listed
<1>16. <<p, x>> \in quiet
  <2>1. <<p, x>> \in Edges
    BY <1>8, <1>10, <1>14, <1>15, EdgeIsFlow DEF Flows, Passed
  <2>2. <<p, x>>[1] = p
    OBVIOUS
  <2> QED BY <1>14, <2>1, <2>2 DEF quiet, Quiet, Passed
<1> QED BY <1>2, <1>5, <1>7, <1>12, <1>16

\* A step leaves the instructions in L, and r[n] stands in for n where control goes on.
StandInStep(L, r) ==
  /\ UNCHANGED <<truth, op, entry>> /\ L \subseteq Live /\ Live' = L
  /\ \A i \in L : insn'[i].kind = insn[i].kind /\ insn'[i].target = insn[i].target /\ insn'[i].dest = insn[i].dest
  /\ \A n \in Live : r[n] \subseteq L
  /\ \A i, m \in L : IsNext(i, m)' <=> \E n \in Live : IsNext(i, n) /\ m \in r[n]
  /\ \A c : c = entry \/ (\E i \in L : insn[i].kind \in Jumps /\ insn[i].target = c) =>
       \A m : m \in First(c)' <=> \E n \in First(c) : m \in r[n]

\* Control stays in U, and what goes there has no effect.
NoEffectGoes(L, r, U) ==
  /\ U \subseteq Live /\ First(entry) \subseteq U /\ Closed(Edges, U)
  /\ \A j \in U \intersect L : r[j] = {j}
  /\ \A j \in U \ L : j \notin Effects /\ r[j] \subseteq Reaches({j}, Quiet(Edges, Effects))
  /\ \A j \in U \ L : \A e \in Edges : e[1] = j => r[e[2]] \subseteq r[j]

\* Then the course of the effects stays.
LEMMA CourseStays ==
  ASSUME IsFiniteSet(Insns), NEW L, NEW r, NEW U, StandInStep(L, r), NoEffectGoes(L, r, U)
  PROVE  Behaviour' = Behaviour
<1> USE DEF StandInStep, NoEffectGoes
<1>1. \A i \in L : (GoesOn(i)' <=> GoesOn(i)) /\ (GoesAway(i)' <=> GoesAway(i))
  BY DEF GoesOn, GoesAway
<1>2. Effects' = Effects \intersect L
  <2>1. \A i \in L : i \in Effects' <=> i \in Effects
    BY DEF Effects
  <2>2. Effects' \subseteq L
    BY DEF Effects
  <2> QED BY <2>1, <2>2
<1>3. \A c : First(c) \subseteq Live
  BY DEF First, Body
<1>4. \A i : GoesAway(i) => insn[i].kind \in Jumps
  BY DEF GoesAway, Jumps
<1>5. ASSUME NEW i \in L, NEW m
      PROVE  <<i, m>> \in Edges' <=> \E e \in Edges : e[1] = i /\ m \in r[e[2]]
  <2> PICK c : c = insn[i].target
    OBVIOUS
  <2>0. Flows(i, m)' <=> (GoesOn(i)' /\ IsNext(i, m)') \/ (GoesAway(i)' /\ m \in First(c)')
    BY FlowsThen
  <2>1. <<i, m>> \in Edges' <=> m \in L /\ Flows(i, m)'
    BY DEF Edges
  <2>2. GoesAway(i) => (m \in First(c)' <=> \E n \in First(c) : m \in r[n])
    BY <1>4
  <2>3. ASSUME <<i, m>> \in Edges' PROVE \E n \in Live : Flows(i, n) /\ m \in r[n]
    <3>1. CASE GoesOn(i)' /\ IsNext(i, m)'
      BY <1>1, <2>1, <2>3, <3>1 DEF Flows
    <3>2. CASE GoesAway(i)' /\ m \in First(c)'
      BY <1>1, <1>3, <2>2, <3>2 DEF Flows
    <3> QED BY <2>0, <2>1, <2>3, <3>1, <3>2
  <2>4. ASSUME NEW n \in Live, Flows(i, n), m \in r[n] PROVE <<i, m>> \in Edges'
    <3>1. m \in L
      BY <2>4
    <3>2. CASE GoesOn(i) /\ IsNext(i, n)
      BY <1>1, <2>0, <2>1, <2>4, <3>1, <3>2
    <3>3. CASE GoesAway(i) /\ n \in First(c)
      BY <1>1, <2>0, <2>1, <2>2, <2>4, <3>1, <3>3
    <3> QED BY <2>4, <3>2, <3>3 DEF Flows
  <2>5. ASSUME NEW e \in Edges, e[1] = i, m \in r[e[2]] PROVE <<i, m>> \in Edges'
    <3>1. e = <<i, e[2]>>
      BY <2>5, EdgesArePairs DEF Pairwise
    <3>2. e[2] \in Live /\ Flows(i, e[2])
      BY <2>5, <3>1, EdgeIsFlow
    <3> QED BY <2>4, <2>5, <3>2
  <2>6. ASSUME NEW n \in Live, Flows(i, n), m \in r[n] PROVE \E e \in Edges : e[1] = i /\ m \in r[e[2]]
    <3>1. <<i, n>> \in Edges
      BY <2>6, EdgeIsFlow
    <3>2. <<i, n>>[1] = i /\ <<i, n>>[2] = n
      OBVIOUS
    <3> QED BY <2>6, <3>1, <3>2
  <2> QED BY <2>3, <2>5, <2>6
<1>6. StandsIn(Edges, Edges', U, L, r)
  <2>1. \A j \in U \ L : r[j] \subseteq Reaches({j}, Edges)
    <3>1. Quiet(Edges, Effects) \in SUBSET Edges
      BY DEF Quiet
    <3> QED BY <3>1, EdgesArePairs, ReachesMore DEF Pairwise
  <2> QED BY <1>5, <2>1 DEF StandsIn
<1>7. \A m : m \in First(entry)' <=> \E n \in First(entry) : m \in r[n]
  <2> PICK c : c = entry
    OBVIOUS
  <2>1. First(entry)' = First(c)'
    BY DEF First, Body
  <2> QED BY <2>1
<1>8. Pairwise(Edges) /\ Pairwise(Edges')
  <2>1. Pairwise(Edges)
    BY EdgesArePairs
  <2>2. IsFiniteSet(Live')
    BY FS_Subset DEF Live
  <2>3. Edges' \subseteq Live' \X Live' /\ IsFiniteSet(Live' \X Live')
    BY <2>2, FS_Product DEF Edges
  <2>4. IsFiniteSet(Edges') /\ \A e \in Edges' : e = <<e[1], e[2]>>
    BY <2>3, FS_Subset
  <2> QED BY <2>1, <2>4 DEF Pairwise
<1>9. Course(First(entry)', Edges', Effects \intersect L) = Course(First(entry), Edges, Effects)
  <2>1. Replaces(Edges, Edges', U, L, r, Effects, First(entry), First(entry)')
    BY <1>6, <1>7, <1>8 DEF Replaces
  <2> QED BY <2>1, CourseKept
<1> QED BY <1>2, <1>9 DEF Behaviour

\* Instructions are deleted, none of which control reaches unless it passes through:
\* the course of the effects stays.
LEMMA DeletedKeepsCourse ==
  ASSUME IsFiniteSet(Insns), TypeOK, Listed, NEW D, Kept(D), Steadfast(D), UNCHANGED <<truth, op, entry>>,
         NEW U \in SUBSET Live, First(entry) \subseteq U, Closed(Edges, U),
         \A i \in U : i \in D => Passed(i)
  PROVE  Behaviour' = Behaviour
<1> DEFINE L == Live \ D  r == [j \in Live |-> From(j, L)]
<1>0. \A i \in Live : i \in Insns
  BY DEF Live
<1>1. order \subseteq Insns \X Insns /\ Listed' /\ order' \subseteq Insns \X Insns
  BY KeptListed DEF TypeOK, Kept, Unlink
<1>2. Live' = L /\ L \in SUBSET Live
  BY DEF Kept, SameInsn, Live
<1>3. \A i \in L : /\ i \in Insns /\ insn'[i].kind = insn[i].kind /\ insn'[i].code = insn[i].code
                   /\ insn'[i].target = insn[i].target /\ insn'[i].dest = insn[i].dest
  BY DEF Live, Kept, SameInsn, Steadfast
<1>4. \A i, k \in L : <<i, k>> \in order' <=> <<i, k>> \in order
  BY DEF Kept, Unlink
<1>5. \A i, k \in Insns : <<i, k>> \in order' => i \in L /\ k \in L
  BY <1>1, <1>2 DEF Listed
<1>6. \A j \in Live : r[j] = From(j, L)
  OBVIOUS
<1>7. \A j : From(j, L) \subseteq L
  BY DEF From
<1> HIDE DEF L, r
<1>8. ASSUME NEW i \in L, NEW m \in L
       PROVE  IsNext(i, m)' <=> \E n : IsNext(i, n) /\ m \in From(n, L)
  <2>1. IsNext(i, m)' <=> <<i, m>> \in order' /\ \A k \in Insns : ~ (<<i, k>> \in order' /\ <<k, m>> \in order')
    BY <1>1, PlacesThen
  <2>2. (\A k \in Insns : ~ (<<i, k>> \in order' /\ <<k, m>> \in order'))
          <=> \A k \in L : ~ (<<i, k>> \in order /\ <<k, m>> \in order)
    BY <1>3, <1>4, <1>5
  <2> QED BY <1>1, <1>2, <1>4, <2>1, <2>2, NextThatStays
<1>9. ASSUME NEW c, NEW m
       PROVE  m \in First(c)' <=> \E n \in First(c) : m \in From(n, L)
  <2>1. CASE m \notin L
    <3>1. m \notin First(c)'
      BY <1>2, <2>1 DEF First, Body
    <3> QED BY <1>7, <2>1, <3>1
  <2>2. CASE m \in L
    <3>1. m \in First(c)' <=> m \in Body(c)' /\ \A k \in Insns : <<k, m>> \notin order'
      BY <1>1, PlacesThen
    <3>2. m \in Body(c)' <=> insn[m].code = c
      BY <1>2, <1>3, <2>2 DEF Body
    <3>3. (\A k \in Insns : <<k, m>> \notin order') <=> \A k \in L : <<k, m>> \notin order
      BY <1>3, <1>4, <1>5, <2>2
    <3> QED BY <1>1, <1>2, <2>2, <3>1, <3>2, <3>3, FirstThatStays
  <2> QED BY <2>1, <2>2
<1>10. \A i, m \in L : IsNext(i, m)' <=> \E n \in Live : IsNext(i, n) /\ m \in r[n]
  <2>1. \A i, n : IsNext(i, n) => n \in Live
    <3> SUFFICES ASSUME NEW i, NEW n, <<i, n>> \in order PROVE n \in Live
      BY DEF IsNext
    <3> QED BY <1>1 DEF Listed
  <2> QED BY <1>6, <1>8, <2>1
<1>11. \A c : \A m : m \in First(c)' <=> \E n \in First(c) : m \in r[n]
  <2>1. \A c : First(c) \subseteq Live
    BY DEF First, Body
  <2> QED BY <1>6, <1>9, <2>1
<1>12. \A j \in U \ L : Passed(j)
  BY DEF L
<1>13. \A j \in U \intersect L : r[j] = {j}
  BY <1>1, <1>2, <1>6, FromHere
<1>14. \A j \in U \ L : j \notin Effects /\ r[j] \subseteq Reaches({j}, Quiet(Edges, Effects))
  BY <1>1, <1>2, <1>6, <1>12, PassedThrough DEF Passed
<1>15. ASSUME NEW j \in U \ L, NEW e \in Edges, e[1] = j PROVE r[e[2]] \subseteq r[j]
  <2>1. e = <<j, e[2]>>
    BY <1>15, EdgesArePairs DEF Pairwise
  <2>2. j \in Live /\ e[2] \in Live /\ Flows(j, e[2])
    BY <1>15, <2>1, EdgeIsFlow
  <2>3. IsNext(j, e[2])
    BY <1>12, <2>2 DEF Flows, Passed
  <2>4. From(e[2], L) \subseteq From(j, L)
    BY <1>1, <1>2, <2>2, <2>3, FromHere
  <2> QED BY <1>6, <2>2, <2>4
<1>16. StandInStep(L, r)
  BY <1>2, <1>3, <1>6, <1>7, <1>10, <1>11 DEF StandInStep
<1>17. NoEffectGoes(L, r, U)
  BY <1>13, <1>14, <1>15 DEF NoEffectGoes
<1> QED BY <1>16, <1>17, CourseStays

-----------------------------------------------------------------------------
(* What the passes delete: control passes through it or does not reach it.  *)

\* The function has an entry, which nothing jumps to and no pass deletes.
EntryInv ==
  /\ entry \in codes
  /\ \A i \in Live : insn[i].target # entry
  /\ pass = "delete_code" => entry \notin Gone

\* What a step does to neither.
CourseRest == Behaviour' = Behaviour /\ EntryInv'

\* An instruction with a result is no effect and no end of a block.
LEMMA ResultsPass == ASSUME TypeOK, Shape, NEW i \in Live, insn[i].dest # None PROVE Passed(i)
<1>1. i \in Insns /\ insn[i].kind \in Kinds /\ insn[i].kind # "free"
  BY DEF Live, TypeOK, InsnType
<1>2. ~ ir_is_jbr(insn[i].kind)
  BY DEF Shape, NoResult
<1>3. insn[i].kind \in {"plain", "phi"}
  BY <1>1, <1>2 DEF Kinds, ir_is_jbr
<1> QED BY <1>3 DEF Passed, GoesOn, GoesAway, Effects

\* A phi is no effect either.
LEMMA PhisPass == ASSUME NEW i, insn[i].kind = "phi" PROVE Passed(i)
  BY DEF Passed, GoesOn, GoesAway, Effects

LEMMA LiveIsClosed == First(entry) \subseteq Live /\ Closed(Edges, Live)
<1>1. \A e \in Edges : e \in Live \X Live
  BY DEF Edges
<1> QED BY <1>1 DEF First, Body, Closed

\* Nothing that is left jumps to the entry.
LEMMA KeptTargetsEntry ==
  ASSUME NEW D, Kept(D), UNCHANGED entry, EntryInv
  PROVE  \A i \in Live' : insn'[i].target # entry'
<1>1. \A i \in Live' : i \in Live /\ insn'[i].target = insn[i].target
  BY DEF Kept, SameInsn, Live
<1> QED BY <1>1 DEF EntryInv

\* A pass over the variables.
LEMMA VariablesGo ==
  ASSUME IsFiniteSet(Insns), PassInv, EntryInv, UNCHANGED <<truth, op, entry, codes>>, pass' # "delete_code",
         NEW D, Kept(D), Steadfast(D), \A i \in D : i \in Live => Passed(i)
  PROVE  CourseRest
<1>1. TypeOK /\ Listed
  BY DEF PassInv, OptInv, Shape
<1>2. Behaviour' = Behaviour
  BY <1>1, LiveIsClosed, DeletedKeepsCourse
<1>3. EntryInv'
  BY KeptTargetsEntry DEF EntryInv
<1> QED BY <1>2, <1>3 DEF CourseRest

\* A step that changes no instruction.
LEMMA NothingGoes ==
  ASSUME IsFiniteSet(Insns), PassInv, EntryInv, UNCHANGED <<insn, order, truth, op, entry, codes>>,
         pass' # "delete_code" \/ (pass = "delete_code" /\ Gone' \subseteq Gone)
  PROVE  CourseRest
<1>1. TypeOK /\ Listed
  BY DEF PassInv, OptInv, Shape
<1>2. Kept({}) /\ Steadfast({})
  BY <1>1, NothingKept DEF SameInsn, Steadfast
<1>3. \A i \in Live : i \in {} => Passed(i)
  OBVIOUS
<1>4. Behaviour' = Behaviour
  BY <1>1, <1>2, <1>3, LiveIsClosed, DeletedKeepsCourse
<1>5. EntryInv'
  BY <1>2, KeptTargetsEntry DEF EntryInv
<1> QED BY <1>4, <1>5 DEF CourseRest

LEMMA ConstPropCourse ==
  ASSUME IsFiniteSet(Insns), PassInv, EntryInv, NEW v \in Vars, const_prop_expr(v)
  PROVE  CourseRest
<1>1. pass = "const_prop" /\ pass' = pass /\ UNCHANGED <<codes, truth, op, entry>>
  BY DEF const_prop_expr, Running
<1>2. TypeOK /\ DU /\ Shape
  BY DEF PassInv, OptInv
<1>3. ASSUME UNCHANGED graph PROVE CourseRest
  BY <1>1, <1>3, NothingGoes DEF graph
<1>4. ASSUME NEW i \in assigned_at[v], NEW o \in Folded(i), ReplaceResult(i, o) PROVE CourseRest
  <2> DEFINE f == ReplaceIn(insn, used_at, v, o)  u == Remark(used_at, insn, v, o)
             D == u[v] \union assigned_at[v]
  <2>1. i \in Insns /\ insn[i].dest = v
    BY <1>2 DEF DU, DefUse, Exact
  <2>2. CASE o = v
    BY <1>3, <1>4, <2>1, <2>2 DEF ReplaceResult
  <2>3. CASE o # v
    <3>1. DeleteFrom(f, u, assigned_at, D)
      BY <1>4, <2>1, <2>3 DEF ReplaceResult
    <3>2. \A k \in Insns : insn[k] \in InsnType
      BY <1>2 DEF TypeOK
    <3>3. \A k \in Insns : SameInsn(f[k], insn[k])
      BY <3>2, ReplaceKeeps DEF SameInsn
    <3>4. \A k \in Insns : f[k].dest = insn[k].dest /\ (OpArgs(insn[k]) = {Const} => OpArgs(f[k]) = {Const})
      BY <3>2, ReplacedConst
    <3>5. u[v] = {}
      BY DEF Remark
    <3>6. \A k \in assigned_at[v] : k \in Live /\ insn[k].dest # None
      BY <1>2 DEF DU, DefUse, Exact, Live
    <3>7. \A k \in D : k \in Live => Passed(k)
      BY <1>2, <3>5, <3>6, ResultsPass
    <3> HIDE DEF f, u, D
    <3>8. Kept(D) /\ Steadfast(D)
      BY <3>1, <3>3, <3>4, DeleteKept, DeleteSteadfast
    <3> QED BY <1>1, <3>7, <3>8, VariablesGo
  <2> QED BY <2>2, <2>3
<1> QED BY <1>3, <1>4 DEF const_prop_expr

LEMMA UnusedCourse ==
  ASSUME IsFiniteSet(Insns), PassInv, EntryInv, opt_unused_vars
  PROVE  CourseRest
<1> DEFINE D == UNION {used_at[v] \union assigned_at[v] : v \in vars \ UsedVars}
<1>1. /\ pass' # "delete_code" /\ DeleteFrom(insn, used_at, assigned_at, D)
      /\ UNCHANGED <<codes, truth, op, entry>>
  BY DEF opt_unused_vars, Running, Go
<1>2. TypeOK /\ DU /\ Shape
  BY DEF PassInv, OptInv
<1>3. \A v \in ReadByMore : v \in UsedVars
  BY DEF ReadByMore, UsedVars
<1>4. ASSUME NEW i \in D, i \in Live PROVE Passed(i)
  <2>1. PICK v \in vars \ UsedVars : i \in used_at[v] \union assigned_at[v]
    BY <1>4
  <2>2. v \in Vars
    BY <1>2 DEF TypeOK
  <2>3. CASE i \in assigned_at[v]
    BY <1>2, <1>4, <2>2, <2>3, ResultsPass DEF DU, DefUse, Exact
  <2>4. CASE i \in used_at[v]
    <3>1. insn[i].kind = "phi"
      BY <1>3, <2>1, <2>4 DEF ReadByMore
    <3> QED BY <3>1, PhisPass
  <2> QED BY <2>1, <2>3, <2>4
<1> HIDE DEF D
<1>5. \A i \in Insns : SameInsn(insn[i], insn[i])
  BY DEF SameInsn
<1>6. Kept(D) /\ Steadfast(D)
  BY <1>1, <1>5, DeleteKept, DeleteSteadfast
<1> QED BY <1>1, <1>4, <1>6, VariablesGo

\* Control stays in the blocks that control reaches and comes to nothing behind an
\* end: what goes there is a branch never taken, and control goes on behind it.
LEMMA DfsCourse ==
  ASSUME IsFiniteSet(Insns), PassInv, EntryInv, dead_code_dfs
  PROVE  CourseRest
<1> DEFINE body == UNION {Body(c) : c \in Reached}
           D == {i \in body : Dead(i)} \union {i \in body : NeverTaken(i)}
           U == {i \in Live : insn[i].code \in Reached /\ ~ Dead(i)}
<1>1. /\ Idle /\ pass = "dead_code" /\ pass' = "delete_code" /\ todo' = codes \ Reached
      /\ DeleteFrom(insn, used_at, assigned_at, D)
      /\ UNCHANGED <<codes, deleting, truth, op, entry>>
  BY DEF dead_code_dfs, Running, ctl, decls
<1>2. TypeOK /\ FlowConsistent /\ Listed /\ order \subseteq Insns \X Insns
  BY DEF PassInv, OptInv, Shape, TypeOK
<1>3. deleting.code = None /\ None \notin codes
  BY <1>1, <1>2 DEF TypeOK, Idle, NotDeleting
<1>4. entry \in Reached /\ entry \in codes
  BY DEF EntryInv, Reached
<1>5. \A c \in Reached : \A t \in Leads(c) : t \in codes => t \in Reached
  BY DEF Reached
<1>6. \A i \in Live : i \in Insns /\ i \in Body(insn[i].code)
  BY DEF Live, Body
<1>7. \A i \in U : i \in D => Passed(i)
  <2> SUFFICES ASSUME NEW i \in U, i \in D PROVE Passed(i)
    OBVIOUS
  <2>1. NeverTaken(i)
    OBVIOUS
  <2> QED BY <2>1 DEF NeverTaken, ConstBranch, Passed, GoesOn, GoesAway, Effects
<1>8. ASSUME NEW c \in Reached, NEW j \in First(c) PROVE j \in U
  <2>1. j \in Live /\ j \in Insns /\ insn[j].code = c /\ \A k \in Insns : <<k, j>> \notin order
    BY <1>2, <1>6, Places DEF Body
  <2> QED BY <1>2, <2>1, Pairs
<1>9. ASSUME NEW i \in U, NEW j, Flows(i, j), j \in Live PROVE j \in U
  <2>1. i \in Live /\ i \in Insns /\ j \in Insns /\ insn[i].code \in Reached /\ ~ Dead(i)
    BY <1>6, <1>9
  <2>2. CASE GoesOn(i) /\ IsNext(i, j)
    <3>1. <<i, j>> \in order /\ \A k \in Insns : ~ (<<i, k>> \in order /\ <<k, j>> \in order)
      BY <1>2, <2>2, Places
    <3>2. insn[j].code = insn[i].code
      BY <1>2, <2>1, <3>1 DEF Listed
    <3>3. ~ EndsBlock(i)
      BY <2>2 DEF GoesOn, EndsBlock, ConstBranch
    <3>4. ASSUME NEW k \in Insns, <<k, j>> \in order, EndsBlock(k) PROVE FALSE
      <4>1. <<k, i>> \in order
        BY <1>2, <2>1, <3>1, <3>2, <3>3, <3>4 DEF Listed
      <4> QED BY <1>2, <2>1, <3>4, <4>1, Pairs
    <3>5. ~ Dead(j)
      BY <1>2, <2>1, <3>4, Pairs
    <3> QED BY <1>9, <2>1, <3>2, <3>5
  <2>3. CASE GoesAway(i) /\ j \in First(insn[i].target)
    <3>1. insn[i].kind \in Jumps /\ ~ NeverTaken(i)
      BY <2>3 DEF GoesAway, Jumps, NeverTaken, ConstBranch
    <3>2. insn[i].target \in Leads(insn[i].code)
      BY <1>6, <2>1, <3>1 DEF Leads
    <3>3. insn[i].target \in codes
      BY <1>2, <2>1, <3>1 DEF FlowConsistent, TypeOK, InsnType
    <3> QED BY <1>5, <1>8, <2>1, <2>3, <3>2, <3>3
  <2> QED BY <1>9, <2>2, <2>3 DEF Flows
<1>10. Closed(Edges, U)
  <2> SUFFICES ASSUME NEW e \in Edges, e[1] \in U PROVE e[2] \in U
    BY DEF Closed
  <2>1. e = <<e[1], e[2]>>
    BY EdgesArePairs DEF Pairwise
  <2>2. e[2] \in Live /\ Flows(e[1], e[2])
    BY <2>1, EdgeIsFlow
  <2> QED BY <1>9, <2>2
<1>11. First(entry) \subseteq U /\ U \in SUBSET Live
  BY <1>4, <1>8
<1> HIDE DEF D, U
<1>12. \A i \in Insns : SameInsn(insn[i], insn[i])
  BY DEF SameInsn
<1>13. Kept(D) /\ Steadfast(D)
  BY <1>1, <1>12, DeleteKept, DeleteSteadfast
<1>14. Behaviour' = Behaviour
  BY <1>1, <1>2, <1>7, <1>10, <1>11, <1>13, DeletedKeepsCourse
<1>15. EntryInv'
  BY <1>1, <1>3, <1>4, <1>13, KeptTargetsEntry DEF EntryInv, Gone
<1> QED BY <1>14, <1>15 DEF CourseRest

\* While blocks that control does not reach are deleted, control stays in the others.
LEMMA BlocksGoUnseen ==
  ASSUME IsFiniteSet(Insns), PassInv, EntryInv, UNCHANGED <<truth, op, entry>>, pass = "delete_code",
         NEW D, Kept(D), Steadfast(D), \A i \in D : i \in Live => insn[i].code \in Gone \/ Passed(i),
         codes \ Gone \subseteq codes', pass' = pass, Gone' \subseteq Gone \union {None}
  PROVE  CourseRest
<1> DEFINE U == {i \in Live : insn[i].code \notin Gone}
<1>1. TypeOK /\ FlowConsistent /\ Listed /\ order \subseteq Insns \X Insns /\ EndInv
  BY DEF PassInv, OptInv, Shape, TypeOK
<1>2. \A i \in Live : i \in Insns /\ i \in Body(insn[i].code) /\ insn[i].code \in codes
  BY <1>1 DEF Live, Body, FlowConsistent
<1>3. ASSUME NEW c, c \notin Gone, NEW j \in First(c) PROVE j \in U
  BY <1>3 DEF First, Body
<1>4. ASSUME NEW i \in U, NEW j, Flows(i, j), j \in Live PROVE j \in U
  <2>1. CASE GoesOn(i) /\ IsNext(i, j)
    <3>1. <<i, j>> \in order
      BY <2>1 DEF IsNext
    <3>2. insn[j].code = insn[i].code
      BY <1>1, <1>2, <1>4, <3>1 DEF Listed
    <3> QED BY <1>4, <3>2
  <2>2. CASE GoesAway(i) /\ j \in First(insn[i].target)
    <3>1. insn[i].kind \in Jumps
      BY <2>2 DEF GoesAway, Jumps
    <3>2. insn[i].target \in Targets(insn[i].code)
      BY <1>2, <3>1 DEF Targets
    <3>3. insn[i].code \in codes \ Gone
      BY <1>2
    <3>4. insn[i].target \notin Gone
      BY <1>1, <3>2, <3>3 DEF EndInv
    <3> QED BY <1>3, <2>2, <3>4
  <2> QED BY <1>4, <2>1, <2>2 DEF Flows
<1>5. Closed(Edges, U)
  <2> SUFFICES ASSUME NEW e \in Edges, e[1] \in U PROVE e[2] \in U
    BY DEF Closed
  <2>1. e = <<e[1], e[2]>>
    BY EdgesArePairs DEF Pairwise
  <2>2. e[2] \in Live /\ Flows(e[1], e[2])
    BY <2>1, EdgeIsFlow
  <2> QED BY <1>4, <2>2
<1>6. entry \in codes \ Gone /\ entry # None
  BY <1>1 DEF EntryInv, TypeOK
<1>7. First(entry) \subseteq U /\ U \in SUBSET Live
  BY <1>3, <1>6
<1>8. \A i \in U : i \in D => Passed(i)
  OBVIOUS
<1> HIDE DEF U
<1>9. Behaviour' = Behaviour
  BY <1>1, <1>5, <1>7, <1>8, DeletedKeepsCourse
<1>10. EntryInv'
  BY <1>6, KeptTargetsEntry DEF EntryInv
<1> QED BY <1>9, <1>10 DEF CourseRest

LEMMA UnreachedCourse ==
  ASSUME IsFiniteSet(Insns), PassInv, EntryInv, NEW c \in Codes, DeleteUnreached(c)
  PROVE  CourseRest
<1> DEFINE D == {j \in Live : insn[j].kind \in Jumps /\ insn[j].target = c /\ insn[j].code \in pred[c]}
<1>1. /\ Idle /\ pass = "delete_code" /\ pass' = pass /\ c \in todo /\ todo' = todo \ {c}
      /\ DeleteFrom(insn, used_at, assigned_at, D) /\ deleting'.code = c
      /\ UNCHANGED <<codes, truth, op, entry>>
  BY DEF DeleteUnreached, ir_code_delete, Running, decls
<1>2. TypeOK /\ FlowConsistent /\ EndInv
  BY DEF PassInv, OptInv
<1>3. Gone' \subseteq Gone
  BY <1>1 DEF Gone
<1>4. ASSUME NEW i \in D PROVE insn[i].code \in Gone
  <2>1. i \in Body(insn[i].code) /\ insn[i].code \in codes /\ c \in Gone
    BY <1>1, <1>2 DEF Body, FlowConsistent, Gone
  <2>2. c \in Targets(insn[i].code)
    BY <2>1 DEF Targets
  <2> QED BY <1>1, <1>2, <2>1, <2>2 DEF EndInv
<1>5. \A i \in Insns : SameInsn(insn[i], insn[i])
  BY DEF SameInsn
<1> HIDE DEF D
<1>6. Kept(D) /\ Steadfast(D)
  BY <1>1, <1>5, DeleteKept, DeleteSteadfast
<1> QED BY <1>1, <1>3, <1>4, <1>6, BlocksGoUnseen

LEMMA DeletingCourse ==
  ASSUME IsFiniteSet(Insns), PassInv, EntryInv, DeleteSteps
  PROVE  CourseRest
<1>1. TypeOK
  BY DEF PassInv, OptInv
<1>2. pass = "delete_code" /\ pass' = pass /\ todo' = todo /\ UNCHANGED <<truth, op, entry>>
  BY DEF DeleteSteps, optVars
<1>3. ASSUME NEW s \in Codes, CodeDeleteSucc(s) PROVE CourseRest
  <2>1. UNCHANGED <<insn, order, codes>> /\ deleting'.code = deleting.code
    BY <1>1, <1>3 DEF CodeDeleteSucc, graph, decls, TypeOK
  <2>2. Gone' \subseteq Gone
    BY <1>2, <2>1 DEF Gone
  <2> QED BY <1>2, <2>1, <2>2, NothingGoes
<1>4. ASSUME NEW i \in Insns, CodeDeletePhi(i) PROVE CourseRest
  <2>1. UNCHANGED codes /\ deleting'.code = deleting.code
    BY <1>1, <1>4, PhiKept
  <2>2. Gone' \subseteq Gone
    BY <1>2, <2>1 DEF Gone
  <2>3. insn[i].kind = "phi"
    BY <1>1, <1>4, PhiSteadfast
  <2>4. PICK D \in SUBSET {i} : Kept(D) /\ Steadfast(D)
    BY <1>1, <1>4, PhiSteadfast
  <2>5. \A k \in D : Passed(k)
    BY <2>3, PhisPass
  <2> QED BY <1>2, <2>1, <2>2, <2>4, <2>5, BlocksGoUnseen
<1>5. CASE CodeDeleteEnd
  <2> DEFINE c == deleting.code  D == Body(c)
  <2>1. DeleteFrom(insn, used_at, assigned_at, D) /\ codes' = codes \ {c} /\ deleting'.code = None
    BY <1>5 DEF CodeDeleteEnd, NotDeleting
  <2>2. \A i \in Insns : SameInsn(insn[i], insn[i])
    BY DEF SameInsn
  <2>3. \A i \in D : insn[i].code \in Gone
    BY DEF Body, Gone
  <2>4. codes \ Gone \subseteq codes' /\ Gone' \subseteq Gone \union {None}
    BY <1>2, <2>1 DEF Gone
  <2> HIDE DEF D
  <2>5. Kept(D) /\ Steadfast(D)
    BY <2>1, <2>2, DeleteKept, DeleteSteadfast
  <2> QED BY <1>2, <2>3, <2>4, <2>5, BlocksGoUnseen
<1> QED BY <1>3, <1>4, <1>5 DEF DeleteSteps

-----------------------------------------------------------------------------
(* Where merge_code joins two lists, control goes from the last instruction *)
(* in front of the jump to the first of the second block, as the jump did.  *)

LEMMA MergeCourse ==
  ASSUME IsFiniteSet(Insns), PassInv, EntryInv, NEW a \in Codes, NEW b \in Codes, merge_code(a, b)
  PROVE  CourseRest
<1>1. PICK j \in Body(a) :
           /\ {i \in Body(a) : IsLast(i)} = {j}
           /\ \A i \in Body(a) \ {j} : ~ ir_is_jbr(insn[i].kind)
           /\ \A i \in Insns : i \in Live' <=> i \in Live /\ i # j
           /\ \A i \in Live' : /\ insn'[i].code = (IF insn[i].code = b THEN a ELSE insn[i].code)
                               /\ insn'[i].kind = insn[i].kind /\ insn'[i].target = insn[i].target
                               /\ insn'[i].dest = insn[i].dest /\ insn'[i].arg = insn[i].arg
           /\ \A i, k \in Insns : <<i, k>> \in order' <=>
                  \/ <<i, k>> \in order /\ i # j /\ k # j
                  \/ i \in Body(a) \ {j} /\ k \in Body(b)
           /\ order' \subseteq Insns \X Insns
  BY ListsJoin
<1>2. /\ Running("branches") /\ pass = "branches" /\ pass' = pass /\ Mergeable(a, b) /\ MayMerge(a, b)
      /\ UNCHANGED <<truth, op, entry>> /\ codes' = codes \ {b}
  BY DEF merge_code, Running
<1>3. TypeOK /\ FlowConsistent /\ Listed /\ EndInv /\ order \subseteq Insns \X Insns
  BY DEF PassInv, OptInv, Shape, TypeOK
<1>4. a # b /\ a \in codes /\ succ[a] = {b} /\ pred[b] = {a} /\ deleting.code = None /\ b # None
  BY <1>2, <1>3 DEF Mergeable, Running, Idle, NotDeleting, TypeOK
<1>5. Listed'
  BY MergeRest DEF PassRest, Shape
<1>6. \A c : \A i \in Body(c) : i \in Insns /\ i \in Live /\ insn[i].code = c
  BY DEF Body, Live
<1>7. \A i \in Live : i \in Insns
  BY DEF Live
<1>8. /\ insn[j].target = b /\ ~ GoesOn(j) /\ GoesAway(j) /\ j \notin Effects
      /\ j \in Insns /\ j \in Live /\ insn[j].code = a
  BY <1>1, <1>2, <1>6 DEF MayMerge, ConstBranch, GoesOn, GoesAway, Effects
<1>9. \A k \in Insns : <<j, k>> \notin order
  <2>1. IsLast(j)
    BY <1>1
  <2> QED BY <1>3, <1>8, <2>1, Pairs
<1>10. \A i \in Body(a) \ {j} : <<i, j>> \in order
  BY <1>3, <1>6, <1>8, <1>9 DEF Listed
<1>11. b \in codes /\ b # entry
  <2>1. b \in Targets(a)
    BY <1>2, <1>3, <1>4 DEF EndInv
  <2>2. \A i \in Live : insn[i].target # entry
    BY DEF EntryInv
  <2> QED BY <1>3, <1>4, <1>8, <2>2 DEF FlowConsistent
<1> DEFINE L == Live \ {j}  r == [n \in Live |-> IF n = j THEN First(b) ELSE {n}]
<1>12. Live' = L /\ L \subseteq Live
  BY <1>1 DEF Live
<1>13. \A i \in L : /\ insn'[i].kind = insn[i].kind /\ insn'[i].target = insn[i].target /\ insn'[i].dest = insn[i].dest
                    /\ insn'[i].code = (IF insn[i].code = b THEN a ELSE insn[i].code)
  BY <1>1, <1>12
<1>14. First(b) \subseteq Body(b) /\ Body(b) \subseteq L /\ Body(a) \ {j} \subseteq L
  BY <1>4, <1>6, <1>8 DEF First
<1>15. r[j] = First(b) /\ \A n \in L : r[n] = {n}
  BY <1>8
<1>16. \A i \in L : i \in Live /\ i \in Insns /\ i # j
  BY <1>7
<1>17. \A i \in Live : i = j \/ i \in L
  OBVIOUS
<1> HIDE DEF L, r
<1>18. ASSUME NEW i \in L, NEW k \in L
       PROVE  <<i, k>> \in order' <=> <<i, k>> \in order \/ (i \in Body(a) /\ k \in Body(b))
  <2>1. i \in Insns /\ k \in Insns /\ i # j /\ k # j
    BY <1>16
  <2> QED BY <1>1, <2>1
<1>19. \A i, k \in Insns : <<i, k>> \in order' => i \in L /\ k \in L
  BY <1>5, <1>12 DEF Listed
<1>20. \A i, k \in Insns : <<i, k>> \in order => i \in Live /\ k \in Live /\ insn[i].code = insn[k].code
  BY <1>3 DEF Listed
<1>21. \A i, m : IsNext(i, m) => i \in Live /\ m \in Live /\ insn[i].code = insn[m].code
  <2> SUFFICES ASSUME NEW i, NEW m, <<i, m>> \in order PROVE i \in Live /\ m \in Live /\ insn[i].code = insn[m].code
    BY DEF IsNext
  <2> QED BY <1>3, <1>20
<1>22. ASSUME NEW i \in L, NEW m \in L
       PROVE  IsNext(i, m)' <=> \E n \in Live : IsNext(i, n) /\ m \in r[n]
  <2>1. IsNext(i, m)' <=> <<i, m>> \in order' /\ \A k \in L : ~ (<<i, k>> \in order' /\ <<k, m>> \in order')
    BY <1>1, <1>5, <1>16, <1>19, PlacesThen
  <2>2. \A n : IsNext(i, n) <=> <<i, n>> \in order /\ \A k \in Insns : ~ (<<i, k>> \in order /\ <<k, n>> \in order)
    BY <1>3, Places
  <2>3. (\E n \in Live : IsNext(i, n) /\ m \in r[n]) <=> IsNext(i, m) \/ (IsNext(i, j) /\ m \in First(b))
    BY <1>8, <1>15, <1>16, <1>17
  <2>4. m \in First(b) <=> m \in Body(b) /\ \A k \in Insns : <<k, m>> \notin order
    BY <1>3, Places
  <2>5. CASE i \in Body(a) /\ m \in Body(b)
    <3>1. ~ IsNext(i, m)
      BY <1>4, <1>6, <1>21, <2>5
    <3>2. <<i, m>> \in order' /\ <<i, j>> \in order
      BY <1>10, <1>16, <1>18, <2>5
    <3>3. ASSUME NEW k \in L, <<i, k>> \in order', <<k, m>> \in order', IsNext(i, j), m \in First(b) PROVE FALSE
      <4>1. k \in Body(a)
        BY <1>16, <1>18, <2>4, <3>3
      <4>2. <<i, k>> \in order
        BY <1>4, <1>6, <1>18, <3>3, <4>1
      <4>3. <<k, j>> \in order
        BY <1>10, <1>16, <4>1
      <4> QED BY <1>16, <2>2, <3>3, <4>2, <4>3
    <3>4. ASSUME NEW k \in Insns, <<i, k>> \in order, <<k, j>> \in order PROVE k \in L /\ <<i, k>> \in order' /\ <<k, m>> \in order'
      <4>1. k # j /\ k \in Live /\ insn[k].code = a
        BY <1>3, <1>6, <1>8, <1>20, <2>5, <3>4 DEF Listed
      <4>2. k \in L /\ k \in Body(a)
        BY <1>17, <4>1 DEF Body
      <4> QED BY <1>18, <2>5, <3>4, <4>2
    <3>5. ASSUME NEW k \in Insns, <<k, m>> \in order PROVE k \in L /\ <<i, k>> \in order' /\ <<k, m>> \in order'
      <4>1. k \in Live /\ insn[k].code = b
        BY <1>6, <1>16, <1>20, <2>5, <3>5
      <4>2. k \in Body(b) /\ k \in L
        BY <1>14, <4>1 DEF Body
      <4> QED BY <1>18, <2>5, <3>5, <4>2
    <3> QED BY <2>1, <2>2, <2>3, <2>4, <2>5, <3>1, <3>2, <3>3, <3>4, <3>5
  <2>6. CASE ~ (i \in Body(a) /\ m \in Body(b))
    <3>1. <<i, m>> \in order' <=> <<i, m>> \in order
      BY <1>18, <2>6
    <3>2. ASSUME NEW k \in L, <<i, m>> \in order
          PROVE  (<<i, k>> \in order' /\ <<k, m>> \in order') <=> (<<i, k>> \in order /\ <<k, m>> \in order)
      <4>1. insn[i].code = insn[m].code /\ i \in Insns /\ m \in Insns /\ k \in Insns
        BY <1>16, <1>20, <3>2
      <4>2. <<i, k>> \in order => insn[k].code = insn[i].code
        BY <1>20, <4>1
      <4>3. <<k, m>> \in order => insn[k].code = insn[m].code
        BY <1>20, <4>1
      <4> QED BY <1>4, <1>6, <1>18, <4>1, <4>2, <4>3
    <3>3. \A k \in Insns : <<i, k>> \in order /\ <<k, m>> \in order => k \in L
      BY <1>9, <1>16, <1>17, <1>20
    <3>4. ~ (IsNext(i, j) /\ m \in First(b))
      <4> SUFFICES ASSUME IsNext(i, j), m \in First(b) PROVE FALSE
        OBVIOUS
      <4>1. i \in Body(a)
        BY <1>8, <1>16, <1>21 DEF Body
      <4> QED BY <1>14, <2>6, <4>1
    <3> QED BY <1>16, <2>1, <2>2, <2>3, <3>1, <3>2, <3>3, <3>4
  <2> QED BY <2>5, <2>6
<1>23. \A i \in L : insn[i].kind \in Jumps => insn[i].target # b
  <2> SUFFICES ASSUME NEW i \in L, insn[i].kind \in Jumps, insn[i].target = b PROVE FALSE
    OBVIOUS
  <2>1. b \in succ[insn[i].code] /\ insn[i].code \in codes
    BY <1>3, <1>16 DEF FlowConsistent
  <2>2. insn[i].code = a
    <3>1. b \in Codes \ {deleting.code} /\ insn[i].code \in Codes \ {deleting.code}
      BY <1>3, <1>4, <2>1 DEF TypeOK
    <3>2. insn[i].code \in pred[b]
      BY <1>3, <2>1, <3>1 DEF FlowConsistent
    <3> QED BY <1>4, <3>2
  <2>3. i \in Body(a) \ {j}
    BY <1>16, <2>2 DEF Body
  <2> QED BY <1>1, <2>3 DEF ir_is_jbr, Jumps
<1>24. ASSUME NEW c, c # b, NEW m
       PROVE  m \in First(c)' <=> \E n \in First(c) : m \in r[n]
  <2>1. First(c) \subseteq Live
    BY DEF First, Body
  <2>2. (\E n \in First(c) : m \in r[n]) <=> (m \in First(c) /\ m \in L) \/ (j \in First(c) /\ m \in First(b))
    BY <1>15, <1>16, <1>17, <2>1
  <2>3. m \in First(c)' <=> m \in L /\ insn'[m].code = c /\ \A k \in L : <<k, m>> \notin order'
    <3>1. m \in First(c)' <=> m \in Body(c)' /\ \A k \in Insns : <<k, m>> \notin order'
      BY <1>1, <1>5, PlacesThen
    <3>2. m \in Body(c)' <=> m \in L /\ insn'[m].code = c
      BY <1>12 DEF Body
    <3> QED BY <1>16, <1>19, <3>1, <3>2
  <2>4. \A x : x \in First(c) <=> x \in Body(c) /\ \A k \in Insns : <<k, x>> \notin order
    BY <1>3, Places
  <2>5. m \in First(b) <=> m \in Body(b) /\ \A k \in Insns : <<k, m>> \notin order
    BY <1>3, Places
  <2>6. CASE m \in L /\ m \notin Body(b)
    <3>1. insn[m].code # b /\ insn'[m].code = insn[m].code
      BY <1>13, <1>16, <2>6 DEF Body
    <3>2. m \in Body(c) <=> insn[m].code = c
      BY <1>16, <2>6 DEF Body
    <3>3. \A k \in L : <<k, m>> \in order' <=> <<k, m>> \in order
      BY <1>18, <2>6
    <3>4. \A k \in Insns : <<k, m>> \in order => k \in L
      BY <1>9, <1>16, <1>17, <1>20, <2>6
    <3>5. m \notin First(b)
      BY <2>5, <2>6
    <3> QED BY <1>16, <2>2, <2>3, <2>4, <2>6, <3>1, <3>2, <3>3, <3>4, <3>5
  <2>7. CASE m \in Body(b)
    <3>1. m \in L /\ insn[m].code = b /\ insn'[m].code = a /\ m \notin First(c)
      BY <1>6, <1>13, <1>14, <1>24, <2>4, <2>7
    <3>2. j \in First(c) => c = a
      BY <1>8, <2>4, <1>6
    <3>3. j \in First(a) <=> Body(a) \ {j} = {}
      <4>1. j \in First(a) <=> \A k \in Insns : <<k, j>> \notin order
        BY <1>3, Places
      <4>2. \A k \in Insns : <<k, j>> \in order => k \in Body(a) \ {j}
        BY <1>3, <1>8, <1>20 DEF Body, Listed
      <4> QED BY <1>6, <1>10, <4>1, <4>2
    <3>4. (\A k \in L : <<k, m>> \notin order') <=> Body(a) \ {j} = {} /\ \A k \in Insns : <<k, m>> \notin order
      <4>1. \A k \in Insns : <<k, m>> \in order => k \in L
        BY <1>9, <1>16, <1>17, <1>20, <3>1
      <4>2. \A k \in L : <<k, m>> \in order' <=> <<k, m>> \in order \/ k \in Body(a) \ {j}
        BY <1>16, <1>18, <2>7, <3>1
      <4> QED BY <1>14, <1>16, <4>1, <4>2
    <3> QED BY <2>2, <2>3, <2>5, <2>7, <3>1, <3>2, <3>3, <3>4
  <2>8. CASE m \notin L
    <3>1. m \notin First(b)
      BY <1>14, <2>8
    <3> QED BY <2>2, <2>3, <2>8, <3>1
  <2> QED BY <2>6, <2>7, <2>8
<1>25. StandInStep(L, r)
  <2>1. \A n \in Live : r[n] \subseteq L
    BY <1>14, <1>15, <1>17
  <2>2. \A c : c = entry \/ (\E i \in L : insn[i].kind \in Jumps /\ insn[i].target = c) => c # b
    BY <1>11, <1>23
  <2> QED BY <1>2, <1>12, <1>13, <1>22, <1>24, <2>1, <2>2 DEF StandInStep
<1>26. First(b) \subseteq Reaches({j}, Quiet(Edges, Effects))
  <2> DEFINE quiet == Quiet(Edges, Effects)
  <2>1. IsFiniteSet(quiet)
    <3>1. quiet \subseteq Edges
      BY DEF Quiet
    <3> QED BY <3>1, EdgesArePairs, FS_Subset DEF Pairwise
  <2>2. ASSUME NEW m \in First(b) PROVE <<j, m>> \in quiet
    <3>1. m \in Live
      BY <1>14, <1>16
    <3>2. Flows(j, m)
      BY <1>8 DEF Flows
    <3>3. <<j, m>> \in Edges /\ <<j, m>>[1] = j
      BY <1>8, <3>1, <3>2, EdgeIsFlow
    <3> QED BY <1>8, <3>3 DEF Quiet
  <2>3. \A m : <<j, m>>[1] = j /\ <<j, m>>[2] = m
    OBVIOUS
  <2> HIDE DEF quiet
  <2>4. {j} \subseteq Reaches({j}, quiet) /\ Closed(quiet, Reaches({j}, quiet))
    BY <2>1, ReachesLeast
  <2>5. \A m \in First(b) : m \in Reaches({j}, quiet)
    BY <2>2, <2>3, <2>4 DEF Closed
  <2> QED BY <2>5 DEF quiet
<1>27. NoEffectGoes(L, r, Live)
  <2>1. ASSUME NEW e \in Edges, e[1] = j PROVE r[e[2]] \subseteq r[j]
    <3>1. e = <<j, e[2]>>
      BY <2>1, EdgesArePairs DEF Pairwise
    <3>2. Flows(j, e[2])
      BY <3>1, EdgeIsFlow
    <3>3. e[2] \in First(b)
      BY <1>8, <3>2 DEF Flows
    <3> QED BY <1>14, <1>15, <3>3
  <2> QED BY <1>8, <1>15, <1>17, <1>26, <2>1, LiveIsClosed DEF NoEffectGoes
<1>28. Behaviour' = Behaviour
  BY <1>25, <1>27, CourseStays
<1>29. EntryInv'
  <2>1. \A i \in Live' : insn'[i].target # entry'
    BY <1>2, <1>12, <1>13, <1>16 DEF EntryInv
  <2> QED BY <1>2, <1>11, <2>1 DEF EntryInv
<1> QED BY <1>28, <1>29 DEF CourseRest

-----------------------------------------------------------------------------
(* The passes keep the course of the effects.                               *)

\* What a function does stays what it did before the first pass.
CourseInv == EntryInv /\ (pass # "start" => Behaviour = atFirst)

LEMMA CourseStep == IsFiniteSet(Insns) /\ PassInv /\ CourseInv /\ [ir_optimize]_vars_all => CourseInv'
<1> SUFFICES ASSUME IsFiniteSet(Insns), PassInv, CourseInv, [ir_optimize]_vars_all PROVE CourseInv'
  OBVIOUS
<1>1. EntryInv
  BY DEF CourseInv
<1>2. CASE ir_optimize_start
  <2>1. /\ UNCHANGED <<insn, order, truth, op, entry, codes>> /\ pass' = "const_prop" /\ atFirst' = Behaviour
    BY <1>2 DEF ir_optimize_start, Go, funcVars, graph, decls
  <2>2. CourseRest
    BY <1>1, <2>1, NothingGoes
  <2> QED BY <2>1, <2>2 DEF CourseRest, CourseInv
<1>3. CASE ir_optimize_passes
  <2>1. pass # "start" /\ UNCHANGED atFirst
    BY <1>3 DEF ir_optimize_passes, const_prop_expr, const_prop_round, opt_unused_vars, dead_code_dfs, DeleteUnreached,
                DeleteSteps, dead_code_round, merge_code, opt_branches_end, Running, optVars
  <2>2. ASSUME const_prop_round \/ opt_branches_end PROVE CourseRest
    <3>1. UNCHANGED <<insn, order, truth, op, entry, codes>> /\ pass' # "delete_code"
      BY <2>2 DEF const_prop_round, opt_branches_end, Go, funcVars, graph, decls
    <3> QED BY <1>1, <3>1, NothingGoes
  <2>3. ASSUME dead_code_round PROVE CourseRest
    <3>1. UNCHANGED <<insn, order, truth, op, entry, codes>> /\ pass' # "delete_code"
      BY <2>3 DEF dead_code_round, ir_func_recalc_flow, Go, graph, decls
    <3> QED BY <1>1, <3>1, NothingGoes
  <2>4. CourseRest
    BY <1>1, <1>3, <2>2, <2>3, ConstPropCourse, UnusedCourse, DfsCourse, UnreachedCourse, DeletingCourse, MergeCourse
       DEF ir_optimize_passes
  <2>5. pass' # "start" => Behaviour' = atFirst'
    BY <2>1, <2>4 DEF CourseRest, CourseInv
  <2> QED BY <2>4, <2>5 DEF CourseRest, CourseInv
<1>4. CASE UNCHANGED vars_all
  <2>1. /\ UNCHANGED <<insn, order, truth, op, entry, codes, pass, todo, deleting, atFirst>>
    BY <1>4 DEF vars_all, funcVars, graph, decls, ctl, optVars
  <2>2. pass' # "delete_code" \/ (pass = "delete_code" /\ Gone' \subseteq Gone)
    BY <2>1 DEF Gone
  <2>3. CourseRest
    BY <1>1, <2>1, <2>2, NothingGoes
  <2> QED BY <2>1, <2>3 DEF CourseRest, CourseInv
<1> QED BY <1>2, <1>3, <1>4 DEF ir_optimize

\* Optimising changes neither which effects come first nor what can follow what, for
\* every outcome of every branch, in any function that the front end can have built
\* and after any number of rounds: const_prop_expr and opt_unused_vars delete nothing
\* but what control passes through without an effect, dead_code_dfs and
\* ir_code_delete nothing that control reaches but branches never taken, and
\* merge_code nothing but a jump to what then comes next.
THEOREM PassesKeepEffects == ASSUME IsFiniteSet(Insns) PROVE OptSpec => []EffectsKept
<1>1. OptInit => PassInv /\ CourseInv
  BY OptInitPasses DEF OptInit, OptStart, FrontEndShape, CourseInv, EntryInv
<1>2. PassInv /\ CourseInv /\ [ir_optimize]_vars_all => PassInv' /\ CourseInv'
  BY PassStep, CourseStep
<1>3. PassInv /\ CourseInv => EffectsKept
  BY DEF CourseInv, EffectsKept
<1> QED BY <1>1, <1>2, <1>3, PTL DEF OptSpec
=============================================================================
