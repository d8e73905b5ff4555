------------------------------ MODULE Codegen ------------------------------
(***************************************************************************)
(* How compiler/common/back/codegen.c lays the blocks of a function out as *)
(* a program: jumps to the block that follows are removed, and every phi   *)
(* becomes a move in each predecessor of its block.  The two passes run    *)
(* once, in that order; then the function in SSA form and the program that *)
(* came out are run side by side, block by block, on the same branches.    *)
(*                                                                         *)
(* A block is a sequence of instructions: phis first, then definitions and *)
(* uses of variables, then the branch and the jump or return that end it.  *)
(* A definition makes a new value each time its block is entered.          *)
(***************************************************************************)
EXTENDS Naturals, Sequences, SequencesExt, FiniteSets

CONSTANTS
  Codes,    \* the blocks of the function
  Entry,    \* the first of them
  Vars,     \* the variables
  None      \* no block, no variable, a value not yet computed

VARIABLES
  layout,   \* code_list: the order of the blocks
  ssa,      \* the instructions of each block before codegen
  code,     \* and now
  stage,    \* "remove_jumps", "expand", "run" or "end"
  here,     \* the block about to run
  from,     \* the block that was left for it
  ssaEnv,   \* the values of the variables of the function in SSA form
  env,      \* and of those of the program
  tick,     \* tells the values of one run of a block from those of the next
  reads     \* what both read in the last block

vars == <<layout, ssa, code, stage, here, from, ssaEnv, env, tick, reads>>

ASSUME CodegenAssumption == Entry \in Codes /\ None \notin Codes \union Vars

Op(kind, dest, src, bind, to) == [kind |-> kind, dest |-> dest, src |-> src, bind |-> bind, to |-> to]
NoBind == [c \in Codes |-> None]
Mov(d, s) == Op("mov", d, s, NoBind, None)
Control == {"jump", "branch"}

Insns ==
  [kind : {"phi", "def", "use", "mov", "branch", "jump", "return"}, dest : Vars \union {None},
   src : Vars \union {None}, bind : [Codes -> Vars \union {None}], to : Codes \union {None}]

\* Where block c may lead, and its phis.
Goes(c) == {r.to : r \in Range(ssa[c])} \ {None}
PhisOf(c) == {k \in 1..Len(ssa[c]) : ssa[c][k].kind = "phi"}

\* An instruction has what its kind needs.
HasFields(r) ==
  /\ r.dest # None <=> r.kind \in {"phi", "def", "mov"}
  /\ r.src # None <=> r.kind \in {"use", "mov", "branch"}
  /\ r.to # None <=> r.kind \in Control

\* In s there are f phis in front, and behind the first b instructions branches and a
\* jump, or a return is the last of these.
Parts(s, f, b) ==
  /\ f <= b /\ b <= Len(s) /\ s # <<>>
  /\ \A k \in 1..Len(s) :
       /\ s[k].kind # "mov"
       /\ s[k].kind = "phi" <=> k <= f
       /\ s[k].kind \in Control <=> k > b
       /\ s[k].kind \in {"jump", "return"} <=> k = Len(s)

\* The function as ir_optimize leaves it: no two ways out of a block lead to the same
\* one, and a phi has a path for each predecessor.  It may have others.
Built ==
  /\ layout \in Seq(Codes) /\ \A c \in Codes : \E k \in 1..Len(layout) : layout[k] = c
  /\ \A j, k \in 1..Len(layout) : layout[j] = layout[k] => j = k
  /\ layout[1] = Entry
  /\ ssa \in [Codes -> Seq(Insns)]
  /\ \A c \in Codes :
       /\ \E f, b \in 0..Len(ssa[c]) : Parts(ssa[c], f, b)
       /\ \A k \in 1..Len(ssa[c]) : HasFields(ssa[c][k])
       /\ \A j, k \in 1..Len(ssa[c]) : ssa[c][j].to # None /\ ssa[c][j].to = ssa[c][k].to => j = k
       /\ \A j, k \in PhisOf(c) : ssa[c][j].dest = ssa[c][k].dest => j = k
       /\ \A k \in PhisOf(c), p \in Codes : c \in Goes(p) => ssa[c][k].bind[p] # None

-----------------------------------------------------------------------------
IndexOf(c) == CHOOSE k \in 1..Len(layout) : layout[k] = c
Follows(c) == IF IndexOf(c) < Len(layout) THEN layout[IndexOf(c) + 1] ELSE None

EndsInJumpTo(s, c) == s # <<>> /\ Last(s).kind = "jump" /\ Last(s).to = c

\* Mutant: a jump over the next block is taken for one to it.
RemovableAnywhere(c) == code[c] # <<>> /\ Last(code[c]).kind = "jump" /\ Follows(c) # None

\* Whether the last jump of c leads to the block that follows.
Removable(c) == Follows(c) # None /\ EndsInJumpTo(code[c], Follows(c))

cg_remove_jumps ==
  /\ stage = "remove_jumps"
  /\ code' = [c \in Codes |-> IF Removable(c) THEN Front(code[c]) ELSE code[c]]
  /\ stage' = "expand"
  /\ UNCHANGED <<layout, ssa, here, from, ssaEnv, env, tick, reads>>

\* Mutant: moves go to the start of the block, as if it made no value.
StartOf(s) == 0

\* The number of instructions of s in front of its jumps and branches.
BeforeControl(s) == Max({0} \union {k \in 1..Len(s) : s[k].kind \notin Control})

NextComb(c) == code[c] # <<>> /\ Head(code[c]).kind = "phi"

\* The move that phi r leaves behind in block p.
WithMove(p, r) ==
  IF r.bind[p] = None THEN code[p] ELSE InsertAt(code[p], BeforeControl(code[p]) + 1, Mov(r.dest, r.bind[p]))

\* The head of the first block that starts with a phi is expanded.
cg_expand_comb(c) ==
  /\ stage = "expand" /\ NextComb(c)
  /\ \A b \in Codes : IndexOf(b) < IndexOf(c) => ~ NextComb(b)
  /\ code' = [p \in Codes |-> IF p = c THEN Tail(WithMove(p, Head(code[c]))) ELSE WithMove(p, Head(code[c]))]
  /\ UNCHANGED <<layout, ssa, stage, here, from, ssaEnv, env, tick, reads>>

Expanded ==
  /\ stage = "expand" /\ \A c \in Codes : ~ NextComb(c)
  /\ stage' = "run"
  /\ UNCHANGED <<layout, ssa, code, here, from, ssaEnv, env, tick, reads>>

-----------------------------------------------------------------------------
(* Running a block: what a machine does with its instructions, one after    *)
(* the other, until one leaves it.                                          *)

Fresh(v) == <<v, tick>>

Step(m, r, taken) ==
  IF m.left THEN m
  ELSE CASE r.kind = "def" -> [m EXCEPT !.env = [@ EXCEPT ![r.dest] = Fresh(r.dest)]]
         [] r.kind = "mov" -> [m EXCEPT !.env = [@ EXCEPT ![r.dest] = m.env[r.src]]]
         [] r.kind = "use" -> [m EXCEPT !.reads = Append(@, m.env[r.src])]
         [] r.kind = "branch" -> [m EXCEPT !.reads = Append(@, m.env[r.src]), !.left = taken,
                                           !.to = IF taken THEN r.to ELSE m.to]
         [] r.kind \in {"jump", "return"} -> [m EXCEPT !.left = TRUE, !.to = r.to]
         [] OTHER -> m     \* the phis of the function in SSA form have run already

\* What s makes of values, if control falls through to next behind it.
RunBlock(s, values, next, taken) ==
  LET first == [env |-> values, reads |-> <<>>, left |-> FALSE, to |-> next]
      M[k \in 0..Len(s)] == IF k = 0 THEN first ELSE Step(M[k - 1], s[k], taken)
  IN  M[Len(s)]

\* All phis of a block read their operands before any has its result.
AfterPhis(c) ==
  LET phis == {r \in Range(ssa[c]) : r.kind = "phi"}
      of(v) == CHOOSE r \in phis : r.dest = v
  IN  [v \in Vars |-> IF (\E r \in phis : r.dest = v) /\ from # None THEN ssaEnv[of(v).bind[from]] ELSE ssaEnv[v]]

Run(taken) ==
  LET s == RunBlock(ssa[here], AfterPhis(here), None, taken)
      t == RunBlock(code[here], env, Follows(here), taken)
  IN  /\ stage = "run"
      /\ ssaEnv' = s.env /\ env' = t.env
      /\ reads' = [ssa |-> Append(s.reads, s.to), program |-> Append(t.reads, t.to)]
      /\ here' = s.to /\ from' = here
      /\ stage' = IF s.to = None THEN "end" ELSE "run"
      /\ tick' = 1 - tick
      /\ UNCHANGED <<layout, ssa, code>>

Next == cg_remove_jumps \/ (\E c \in Codes : cg_expand_comb(c)) \/ Expanded \/ \E taken \in BOOLEAN : Run(taken)

Start ==
  /\ code = ssa /\ stage = "remove_jumps"
  /\ here = Entry /\ from = None /\ tick = 0
  /\ ssaEnv = [v \in Vars |-> None] /\ env = [v \in Vars |-> None]
  /\ reads = [ssa |-> <<>>, program |-> <<>>]

Init == Built /\ Start

Spec == Init /\ [][Next]_vars

-----------------------------------------------------------------------------
\* What codegen leaves: no phi, and nothing but jumps behind a jump, so that every
\* move runs before the block is left.
CodeOK ==
  stage \in {"run", "end"} => \A c \in Codes : \A j, k \in 1..Len(code[c]) :
    /\ code[c][k].kind # "phi"
    /\ j < k /\ code[c][j].kind \in Control => code[c][k].kind \in Control \union {"return"}

\* Both leave every block for the same one: no jump was needed that was removed.
SameWay == reads.ssa # <<>> => Last(reads.ssa) = Last(reads.program)

\* The program leaves every block as the function does, and before that nothing of a
\* phi is lost behind a jump (codegen.c:331).
LayoutOK == CodeOK /\ SameWay

Agree == \A k \in 1..Len(reads.ssa) : reads.ssa[k] # None => reads.program[k] = reads.ssa[k]

\* No block with phis follows a block that can also go elsewhere, its phis have paths
\* for its predecessors only, and none takes the result of one before it.
Conventional ==
  \A c \in Codes : PhisOf(c) # {} =>
    /\ \A p \in Codes : c \in Goes(p) => Goes(p) = {c}
    /\ \A k \in PhisOf(c), p \in Codes : ssa[c][k].bind[p] # None => c \in Goes(p)
    /\ \A j, k \in PhisOf(c), p \in Codes : j < k => ssa[c][k].bind[p] # ssa[c][j].dest

\* On such a function the moves of cg_expand_comb do what the phis did: everything
\* read in the program is what was read in the function.
AgreeIfConventional == Conventional => Agree

\* "Convert from strict SSA to non-strict SSA by converting combinators into moves":
\* what the program reads is what the function reads.  It fails without the
\* condition: one move overwrites what the next one, or the other way out of the
\* block, still reads.
ReadsAgree == Agree
=============================================================================
