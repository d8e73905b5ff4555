---------------------------- MODULE MCCCompiler ----------------------------
(***************************************************************************)
(* CCompiler on every small function: conditions with up to three calls,   *)
(* one statement inside another, something before and after it.            *)
(***************************************************************************)
EXTENDS CCompiler, FiniteSets

Calls == {Call("c"), Call("d")}
Leaves == Calls \cup {Const(TRUE)}

\* Conditions: one operand, two, and three in either grouping.
TwoOperands == {And(l, r) : l \in Leaves, r \in Leaves} \cup {Or(l, r) : l \in Leaves, r \in Leaves}
ThreeOperands ==
  UNION {{And(t, Call("e")), Or(t, Call("e")), And(Call("e"), t), Or(Call("e"), t)} :
         t \in {And(Call("c"), Call("d")), Or(Call("c"), Call("d"))}}
WithComma ==
  {Exprs(Call("c"), Call("d")), And(Exprs(Call("c"), Const(TRUE)), Const(TRUE)),
   And(Const(TRUE), Exprs(Call("c"), Const(FALSE))), Or(Exprs(And(Call("c"), Call("d")), Const(FALSE)), Const(FALSE))}
Conditions == Leaves \cup TwoOperands \cup ThreeOperands \cup WithComma

Opt(S) == {<< >>} \cup {<<s>> : s \in S}
F == Expr(Call("f"))
G == Expr(Call("g"))

\* Statements made of these bodies.
Composite(conds, bodies) ==
  {While(c, b) : c \in conds, b \in bodies}
  \cup {IfElse(c, b, e) : c \in conds, b \in bodies, e \in Opt(bodies)}
  \cup {For(<<Call("i")>>, c, n, b) : c \in Opt(conds), n \in Opt({Call("n")}), b \in bodies}

Simple ==
  {F, Expr(Or(Call("c"), Call("d"))), Return(<< >>), Return(<<Call("r")>>), Return(<<And(Call("r"), Call("s"))>>),
   Stmts(<< >>), Stmts(<<F, G>>), Stmts(<<Return(<< >>), F>>),
   Decls(<< <<Call("f")>>, << >> >>), Decls(<< << >>, << >> >>), Decls(<< <<Call("f")>>, <<Call("g")>> >>)}

Once == Composite(Conditions, {F}) \cup Composite({Call("c")}, Simple)
        \cup {For(<< >>, << >>, n, F) : n \in Opt({Or(Call("n"), Call("m"))})}
Twice == Composite({Call("c"), And(Call("c"), Call("d"))}, Composite({Call("d")}, {F}) \cup {Stmts(<<While(Call("d"), G), F>>), F})
         \cup {While(Or(Call("c"), Call("d")), s) : s \in Composite({And(Call("d"), Call("e"))}, {F, Return(<< >>)})}

AllBodies == {<<s>> : s \in Simple \cup {Expr(c) : c \in Conditions} \cup {Return(<<c>>) : c \in Conditions}}
             \cup {<<s, G>> : s \in Once \cup Twice}
             \cup {<<Decls(<< <<Call("f")>> >>), s>> : s \in Composite({Call("c")}, {F})}

-----------------------------------------------------------------------------
Targets(c) == {func.code[c][i].to : i \in {j \in DOMAIN func.code[c] : func.code[c][j].op \in {"jump", "branch"}}}

RECURSIVE Reach(_)
Reach(S) == LET T == S \cup UNION {Targets(c) : c \in S} IN IF T = S THEN S ELSE Reach(T)

Compiled == pc = "run" /\ work = body /\ at = <<1, 1>>

\* The IR of a function leads only to blocks the function still has, and computes
\* only variables of its own (c_compiler.c:1826, where blocks are deleted again).
TypeOK ==
  Compiled =>
    /\ \A c \in DOMAIN func.code : Targets(c) \subseteq DOMAIN func.code
    /\ \A c \in DOMAIN func.code : \A i \in DOMAIN func.code[c] :
         func.code[c][i].op \in {"call", "set"} => func.code[c][i].dst \in 1..func.vars

\* A function with one-block bodies of ifs, one-block right operands of && and ||
\* and no initializer but the first calls what C would call, in that order, and
\* returns when and what C would return, whatever the functions it calls answer.
AgreeIfPlain == (pc = "run" /\ PlainBody /\ Waits /\ Offers) => Awaited = Offered

\* Every block that can be reached ends with a jump or a return (docs/ir.md:169).
BlocksEnd ==
  \A c \in Reach({1}) : func.code[c] # << >> /\ Last(func.code[c]).op \in {"jump", "return"}
BlocksEndIfPlain == (Compiled /\ PlainBody) => BlocksEnd

\* Without a return before the end a block has one jump or return, at its end, and
\* a branch only right before it: what merge_code takes for granted
\* (ir_optimizer.c:431).
OneWayOut ==
  (Compiled /\ PlainBody /\ NoReturn(Stmts(body))) =>
    \A c \in DOMAIN func.code :
      LET insns == func.code[c] IN
      \A i \in DOMAIN insns :
        /\ insns[i].op \in {"jump", "return"} <=> i = Len(insns)
        /\ insns[i].op = "branch" => i + 1 = Len(insns)

\* The blocks of a compiled function are as the optimizer and code generation expect
\* them (ir_optimizer.c:431, docs/ir.md:169).
BlocksOK == TypeOK /\ BlocksEndIfPlain /\ OneWayOut

\* IR never runs on and on without a call C is waiting for.
KeepsUp == (pc = "run" /\ PlainBody /\ Waits) ~> (pc # "run" \/ ~Waits \/ Offers)

\* Whatever the function is, its reachable blocks end with a jump or a return.
EveryBlockEnds == Compiled => BlocksEnd
=============================================================================
