----------------------------- MODULE CCompiler -----------------------------
(***************************************************************************)
(* How front/c/c_compiler.c turns the statements of a C function into      *)
(* blocks of IR: c_compile_func_def, c_compile_stmt, c_compile_decls and   *)
(* the part of c_compile_expr that makes blocks.  The function is compiled *)
(* once; then the C function and its IR are run side by side on the same   *)
(* answers of the functions it calls.                                      *)
(*                                                                         *)
(* An expression is a call (which answers TRUE or FALSE), a constant,      *)
(* a && b, a || b or a, b; a part that may be missing is a sequence of at  *)
(* most one.  Types, scopes and everything else an expression may do are   *)
(* left out, and so are do...while, switch, goto and expressions with      *)
(* errors: c_parser.c builds none of the former.                           *)
(***************************************************************************)
EXTENDS Naturals, Sequences, SequencesExt

CONSTANT Bodies    \* the function bodies: sequences of statements

VARIABLES
  body,     \* the function
  pc,       \* "compile", "run", "returned"
  func,     \* its IR: the blocks, how many were made, how many variables
  todo,     \* what is left to compile
  code,     \* the block being appended to
  res,      \* the operand that holds the expression compiled last
  work,     \* what is left to run of the C function
  value,    \* and the value of the expression it evaluated last
  at,       \* the block and the number of the instruction IR is at
  env       \* and the values of its variables

compiling == <<func, todo, code, res>>
running == <<work, value, at, env>>
vars == <<body, pc, compiling, running>>

Call(f) == [k |-> "call", f |-> f]
Const(b) == [k |-> "const", v |-> b]
And(l, r) == [k |-> "land", l |-> l, r |-> r]
Or(l, r) == [k |-> "lor", l |-> l, r |-> r]
Exprs(l, r) == [k |-> "exprs", l |-> l, r |-> r]

Stmts(list) == [k |-> "stmts", list |-> list]
Expr(e) == [k |-> "expr", e |-> e]
Decls(inits) == [k |-> "decls", inits |-> inits]
While(cond, do) == [k |-> "while", cond |-> cond, do |-> do]
IfElse(cond, then, else) == [k |-> "if", cond |-> cond, then |-> then, else |-> else]
For(init, cond, inc, do) == [k |-> "for", init |-> init, cond |-> cond, inc |-> inc, do |-> do]
Return(result) == [k |-> "return", result |-> result]

-----------------------------------------------------------------------------
(* Building IR.  An operand is a constant or a variable.                   *)

Blank == [code |-> << >>, codes |-> 0, vars |-> 0]

ir_code_create(f) == [f EXCEPT !.codes = @ + 1, !.code = @ @@ (f.codes + 1 :> << >>)]
ir_code_delete(f, cs) == [f EXCEPT !.code = [c \in DOMAIN @ \ cs |-> @[c]]]
ir_var_create(f) == [f EXCEPT !.vars = @ + 1]

Var(n) == [const |-> FALSE, var |-> n]
Imm(b) == [const |-> TRUE, v |-> b]

Jump(to) == <<[op |-> "jump", to |-> to]>>
Branch(src, to) == <<[op |-> "branch", src |-> src, to |-> to]>>
Set(dst, neg, src) == <<[op |-> "set", dst |-> dst, neg |-> neg, src |-> src]>>

\* The function with instructions appended to a block.
Put(f, c, insns) == [f EXCEPT !.code[c] = @ \o insns]

\* The blocks the code is about to make, in their order.
New(n) == func.codes + n
Two(f) == ir_code_create(ir_code_create(f))
Three(f) == ir_code_create(Two(f))

-----------------------------------------------------------------------------
(* Compiling.  c_compile_expr and c_compile_stmt call themselves for the   *)
(* parts; todo holds what is left of every call: the parts, and what a     *)
(* call does when they are compiled.                                       *)

At(c) == <<[k |-> "at", to |-> c]>>
Emit(insns) == <<[k |-> "emit", insns |-> insns]>>
CondJump(yes, no) == <<[k |-> "condjump", yes |-> yes, no |-> no]>>

Is(k) == pc = "compile" /\ todo # << >> /\ todo[1].k = k
It == todo[1]

\* The first of todo is replaced; the function, the block and the operand are these now.
Then(more, f, c, r) ==
  /\ todo' = more \o Tail(todo)
  /\ func' = f /\ code' = c /\ res' = r
  /\ UNCHANGED <<body, pc, running>>

expr_call ==
  /\ Is("call")
  /\ LET f == ir_var_create(func) IN
     Then(<< >>, Put(f, code, <<[op |-> "call", f |-> It.f, dst |-> f.vars]>>), code, Var(f.vars))

expr_const == Is("const") /\ Then(<< >>, func, code, Imm(It.v))

expr_exprs == Is("exprs") /\ Then(<<It.l, It.r>>, func, code, res)

\* && and ||: three blocks, the left operand here and the right one in the first.
expr_logical ==
  /\ Is("land") \/ Is("lor")
  /\ Then(<<It.l, [k |-> "lhs", isLand |-> It.k = "land", r |-> It.r, begun |-> code,
                   cont |-> New(1), break |-> New(2), exit |-> New(3)]>>,
          Three(func), code, res)

logical_lhs ==
  /\ Is("lhs")
  /\ Then(At(It.cont) \o <<It.r, [k |-> "rhs", lhs |-> It, branch_code |-> code, value |-> res]>>,
          func, code, res)

\* Two constants are folded and the blocks deleted.
logical_fold ==
  /\ Is("rhs") /\ It.value.const /\ res.const
  /\ LET l == It.lhs IN
     Then(<< >>, ir_code_delete(func, {l.cont, l.break, l.exit}), l.begun,
          Imm(IF l.isLand THEN It.value.v /\ res.v ELSE It.value.v \/ res.v))

\* Where the value of the right operand goes on: to the block it was begun in.
RhsEnd(begun, end) == begun

\* Where the block goes that skips the right operand.
SkipToItself(l) == l.break
SkipTo(l) == l.exit

logical_rhs ==
  /\ Is("rhs") /\ ~(It.value.const /\ res.const)
  /\ LET l == It.lhs
         resvar == func.vars + 1   resvar2 == func.vars + 2   condvar == func.vars + 3
         f == ir_var_create(ir_var_create(ir_var_create(func)))
         \* seqz or snez of the left operand tells when the right one is skipped
         g == Put(f, It.branch_code, Set(condvar, l.isLand, It.value) \o Branch(Var(condvar), l.break) \o Jump(l.cont))
         h == Put(g, l.break, Set(resvar, FALSE, Imm(~l.isLand)) \o Jump(SkipTo(l)))
         i == Put(h, RhsEnd(l.cont, code), Set(resvar, FALSE, res) \o Jump(l.exit))
     IN  Then(<< >>, Put(i, l.exit, Set(resvar2, FALSE, Var(resvar))), l.exit, Var(resvar2))

-----------------------------------------------------------------------------
place == Is("at") /\ Then(<< >>, func, It.to, res)
emit == Is("emit") /\ Then(<< >>, Put(func, code, It.insns), code, res)

\* A condition: a branch on its value, and a jump for when it is false.
JumpFirst(yes, no) == Jump(no) \o Branch(res, yes)
TwoWays(yes, no) == Branch(res, yes) \o Jump(no)
condjump == Is("condjump") /\ Then(<< >>, Put(func, code, TwoWays(It.yes, It.no)), code, res)

stmt_stmts == Is("stmts") /\ Then(It.list, func, code, res)
stmt_expr == Is("expr") /\ Then(<<It.e>>, func, code, res)

\* Every initializer compiled is the one of the first declarator.
Initializer(inits, i) == inits[1]
stmt_decls ==
  /\ Is("decls")
  /\ Then(FlattenSeq([i \in DOMAIN It.inits |-> IF It.inits[i] = << >> THEN << >> ELSE Initializer(It.inits, i)]),
          func, code, res)

\* A while loop begins with its condition.
BodyFirst(loop_body, cond_body) == loop_body
WhileEntry(loop_body, cond_body) == cond_body

stmt_while ==
  /\ Is("while")
  /\ LET loop_body == New(1)   cond_body == New(2)   after == New(3) IN
     Then(At(cond_body) \o <<It.cond>> \o CondJump(loop_body, after)
          \o At(loop_body) \o <<It.do>> \o Emit(Jump(cond_body))
          \o At(code) \o Emit(Jump(WhileEntry(loop_body, cond_body))) \o At(after),
          Three(func), code, res)

stmt_if == Is("if") /\ Then(<<It.cond, [k |-> "then", s |-> It]>>, func, code, res)

\* The block an if's body ended in is forgotten: the jump after it goes where it began.
IfBodyEnd(begun) == At(begun)

if_then ==
  /\ Is("then")
  /\ LET if_body == New(1)   after == New(2) IN
     Then(At(if_body) \o <<It.s.then>> \o IfBodyEnd(if_body) \o Emit(Jump(after))
          \o At(code) \o Emit(Branch(res, if_body))
          \o (IF It.s.else = << >> THEN Emit(Jump(after))
              ELSE <<[k |-> "else", else |-> It.s.else, after |-> after]>>)
          \o At(after),
          Two(func), code, res)

if_else ==
  /\ Is("else")
  /\ LET else_body == New(1) IN
     Then(At(else_body) \o It.else \o IfBodyEnd(else_body) \o Emit(Jump(It.after))
          \o At(code) \o Emit(Jump(else_body)),
          ir_code_create(func), code, res)

stmt_for == Is("for") /\ Then(It.init \o <<[k |-> "for2", s |-> It]>>, func, code, res)

\* Without a condition a loop goes back to its body.
ForCond(cond) == IF cond = << >> THEN New(1) ELSE New(3)

for_loop ==
  /\ Is("for2")
  /\ LET s == It.s
         for_body == New(1)   after == New(2)
         for_cond == ForCond(s.cond)
     IN  Then((IF s.cond = << >> THEN << >> ELSE At(for_cond) \o s.cond \o CondJump(for_body, after))
              \o At(code) \o Emit(Jump(for_cond))
              \o At(for_body) \o <<s.do>> \o s.inc \o Emit(Jump(for_cond)) \o At(after),
              IF s.cond = << >> THEN Two(func) ELSE Three(func), code, res)

stmt_return == Is("return") /\ Then(It.result \o <<[k |-> "ret", value |-> It.result # << >>]>>, func, code, res)
return_value ==
  /\ Is("ret")
  /\ Then(<< >>, Put(func, code, <<[op |-> "return", srcs |-> IF It.value THEN <<res>> ELSE << >>]>>), code, res)

c_compile_expr == expr_call \/ expr_const \/ expr_exprs \/ expr_logical \/ logical_lhs \/ logical_fold \/ logical_rhs
c_compile_stmt ==
  \/ stmt_stmts \/ stmt_expr \/ stmt_decls \/ stmt_while \/ stmt_if \/ if_then \/ if_else
  \/ stmt_for \/ for_loop \/ stmt_return \/ return_value
  \/ place \/ emit \/ condjump

\* The end of the function returns.
WithReturn(c) == Put(func, c, <<[op |-> "return", srcs |-> << >>]>>)

c_compile_func_def_end ==
  /\ pc = "compile" /\ todo = << >>
  /\ func' = WithReturn(code)
  /\ pc' = "run"
  /\ work' = body
  /\ at' = <<1, 1>>
  /\ env' = [v \in 1..func.vars |-> FALSE]
  /\ UNCHANGED <<body, todo, code, res, value>>

-----------------------------------------------------------------------------
(* C, one step at a time.  Calls and returns can be seen from outside; the *)
(* other steps replace what is first by what it stands for.                *)

Replacement(x) ==
  CASE x.k = "const" -> << >>
    [] x.k = "exprs" -> <<x.l, x.r>>
    [] x.k = "land" -> <<x.l, [k |-> "right", when |-> TRUE, r |-> x.r]>>
    [] x.k = "lor" -> <<x.l, [k |-> "right", when |-> FALSE, r |-> x.r]>>
    [] x.k = "right" -> IF value = x.when THEN <<x.r>> ELSE << >>
    [] x.k = "stmts" -> x.list
    [] x.k = "expr" -> <<x.e>>
    [] x.k = "decls" -> FlattenSeq(x.inits)
    [] x.k = "if" -> <<x.cond, [k |-> "pick", s |-> x]>>
    [] x.k = "pick" -> IF value THEN <<x.s.then>> ELSE x.s.else
    [] x.k = "while" -> <<x.cond, [k |-> "loop", s |-> x]>>
    [] x.k = "loop" -> IF value THEN <<x.s.do, x.s>> ELSE << >>
    [] x.k = "for" -> x.init \o <<[k |-> "test", s |-> x]>>
    [] x.k = "test" -> IF x.s.cond = << >> THEN <<Const(TRUE), [k |-> "turn", s |-> x.s]>>
                       ELSE x.s.cond \o <<[k |-> "turn", s |-> x.s]>>
    [] x.k = "turn" -> IF value THEN <<x.s.do>> \o x.s.inc \o <<[k |-> "test", s |-> x.s]>> ELSE << >>
    [] x.k = "return" -> x.result \o <<[k |-> "ret", value |-> x.result # << >>]>>

\* A call, a return with a value or none, and the end of a block with neither.
Calling(f) == [k |-> "call", f |-> f]
Returning(vs) == [k |-> "return", vs |-> vs]
Falling == [k |-> "falls"]

Waits == IF work = << >> THEN TRUE ELSE work[1].k \in {"call", "ret"}

Unfold ==
  /\ pc = "run" /\ ~Waits
  /\ work' = Replacement(work[1]) \o Tail(work)
  /\ value' = IF work[1].k = "const" THEN work[1].v ELSE value
  /\ UNCHANGED <<body, pc, compiling, at, env>>

\* What C does next that can be seen.
Awaited ==
  CASE work = << >> -> Returning(<< >>)
    [] work[1].k = "ret" -> Returning(IF work[1].value THEN <<value>> ELSE << >>)
    [] work[1].k = "call" -> Calling(work[1].f)

-----------------------------------------------------------------------------
(* IR, one instruction at a time.                                          *)

Value(src) == IF src.const THEN src.v ELSE env[src.var]

Falls == at[2] > Len(func.code[at[1]])
Insn == func.code[at[1]][at[2]]
Following == <<at[1], at[2] + 1>>

Offers == IF Falls THEN TRUE ELSE Insn.op \in {"call", "return"}
Offered ==
  CASE Falls -> Falling
    [] Insn.op = "return" -> Returning([i \in DOMAIN Insn.srcs |-> Value(Insn.srcs[i])])
    [] Insn.op = "call" -> Calling(Insn.f)

Execute ==
  /\ pc = "run" /\ Waits /\ ~Offers
  /\ at' = CASE Insn.op = "jump" -> <<Insn.to, 1>>
             [] Insn.op = "branch" -> IF Value(Insn.src) THEN <<Insn.to, 1>> ELSE Following
             [] Insn.op = "set" -> Following
  /\ env' = IF Insn.op = "set" THEN [env EXCEPT ![Insn.dst] = Value(Insn.src) # Insn.neg] ELSE env
  /\ UNCHANGED <<body, pc, compiling, work, value>>

\* Both call the same function, which answers.
Answer ==
  /\ pc = "run" /\ Waits /\ Offers /\ Awaited = Offered /\ Awaited.k = "call"
  /\ \E answer \in BOOLEAN :
       /\ value' = answer
       /\ env' = [env EXCEPT ![Insn.dst] = answer]
  /\ work' = Tail(work)
  /\ at' = Following
  /\ UNCHANGED <<body, pc, compiling>>

Finish ==
  /\ pc = "run" /\ Waits /\ Offers /\ Awaited = Offered /\ Awaited.k = "return"
  /\ pc' = "returned"
  /\ UNCHANGED <<body, compiling, running>>

Run == Unfold \/ Execute \/ Answer \/ Finish

-----------------------------------------------------------------------------
\* ir_func_create makes the entry, block 1.
Init ==
  /\ body \in Bodies
  /\ pc = "compile"
  /\ func = ir_code_create(Blank)
  /\ todo = body
  /\ code = 1
  /\ res = Imm(FALSE)
  /\ work = << >>
  /\ value = FALSE
  /\ at = <<1, 1>>
  /\ env = << >>

Next == c_compile_expr \/ c_compile_stmt \/ c_compile_func_def_end \/ Run

Spec == Init /\ [][Next]_vars /\ WF_vars(Next)

-----------------------------------------------------------------------------
(* Functions whose code is known to be put together.                       *)

\* An expression that stays in its block, and one whose right operands do.
RECURSIVE OneBlock(_)
OneBlock(e) ==
  CASE e.k = "exprs" -> OneBlock(e.l) /\ OneBlock(e.r)
    [] OTHER -> e.k \in {"call", "const"}

RECURSIVE IsConst(_)
IsConst(e) ==
  CASE e.k = "exprs" -> IsConst(e.r)
    [] e.k \in {"land", "lor"} -> IsConst(e.l) /\ IsConst(e.r)
    [] OTHER -> e.k = "const"

\* Two constants are folded, with what is computed on the way forgotten.
RECURSIVE PlainExpr(_)
PlainExpr(e) ==
  CASE e.k = "exprs" -> PlainExpr(e.l) /\ PlainExpr(e.r)
    [] e.k \in {"land", "lor"} -> /\ PlainExpr(e.l) /\ OneBlock(e.r)
                                  /\ IsConst(e) => OneBlock(e.l) /\ e.r.k = "const"
    [] OTHER -> TRUE

PlainOpt(es) == \A i \in DOMAIN es : PlainExpr(es[i])

\* A body of an if that stays in its block.
RECURSIVE StaysInBlock(_)
StaysInBlock(s) ==
  CASE s.k = "stmts" -> \A i \in DOMAIN s.list : StaysInBlock(s.list[i])
    [] s.k = "expr" -> OneBlock(s.e)
    [] s.k = "return" -> \A i \in DOMAIN s.result : OneBlock(s.result[i])
    [] s.k = "decls" -> \A i \in DOMAIN s.inits : \A j \in DOMAIN s.inits[i] : OneBlock(s.inits[i][j])
    [] OTHER -> FALSE

RECURSIVE Plain(_)
Plain(s) ==
  CASE s.k = "stmts" -> \A i \in DOMAIN s.list : Plain(s.list[i])
    [] s.k = "expr" -> PlainExpr(s.e)
    [] s.k = "decls" -> \A i \in DOMAIN s.inits : s.inits[i] = << >> \/ (i = 1 /\ PlainOpt(s.inits[i]))
    [] s.k = "while" -> PlainExpr(s.cond) /\ Plain(s.do)
    [] s.k = "if" -> /\ PlainExpr(s.cond) /\ Plain(s.then) /\ StaysInBlock(s.then)
                     /\ \A i \in DOMAIN s.else : Plain(s.else[i]) /\ StaysInBlock(s.else[i])
    [] s.k = "for" -> PlainOpt(s.init) /\ PlainOpt(s.cond) /\ PlainOpt(s.inc) /\ Plain(s.do)
    [] s.k = "return" -> PlainOpt(s.result)

PlainBody == Plain(Stmts(body))

\* No return stands inside another statement or before the end.
RECURSIVE NoReturn(_)
NoReturn(s) ==
  CASE s.k = "stmts" -> \A i \in DOMAIN s.list : NoReturn(s.list[i])
    [] s.k \in {"while", "for"} -> NoReturn(s.do)
    [] s.k = "if" -> NoReturn(s.then) /\ \A i \in DOMAIN s.else : NoReturn(s.else[i])
    [] OTHER -> s.k # "return"
=============================================================================
