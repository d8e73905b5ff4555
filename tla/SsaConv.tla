------------------------------ MODULE SsaConv -------------------------------
(***************************************************************************)
(* ir_func_to_ssa of compiler/common/ir/ir.c for one variable x (the       *)
(* variables are converted one after the other and do not meet), and the   *)
(* execution of the function before and after, side by side.               *)
(*                                                                         *)
(* A block may read x and may then assign it; x is an argument, so it has  *)
(* a value from the start.  The dominance frontiers are the real ones,     *)
(* what compute_dominance is meant to deliver.  After the conversion the   *)
(* variable of a definition is named by the block and the kind of          *)
(* instruction it belongs to, `Orig' is x itself.                          *)
(***************************************************************************)
EXTENDS FlowGraph, Sequences

CONSTANTS
  MaxDefs,   \* how many blocks assign x
  MaxUses    \* how many blocks read x

ASSUME SsaConvAssumption == MaxDefs \in Nat /\ MaxUses \in Nat

VARIABLES
  succ,      \* ir_code_t.succ
  defs,      \* the blocks with an instruction in x.assigned_at
  uses,      \* the blocks with an instruction in x.used_at
  pc,        \* "usage", "insert", "rename" or "run"
  visited,   \* ir_code_t.visited
  uses_var,  \* dom_node_t.uses_var
  todo,      \* the definitions, then the blocks of the frontier, still to visit
  calls,     \* the calls of var_usage_dfs or rename_assignments not returned
  phis,      \* the blocks with a phi for x
  bind,      \* the bindings of these phis
  dest,      \* the variable a block's definition writes
  read,      \* the variable a block's use reads
  at,        \* the block that runs
  value,     \* what x holds in the function as it was
  env,       \* what the variables hold in the converted function
  lastRead   \* what the last use read, before and after conversion

code == <<succ, defs, uses>>
search == <<visited, uses_var, todo, calls>>
result == <<phis, bind, dest, read>>
execution == <<at, value, env, lastRead>>
ssaVars == <<code, search, result, execution, pc>>

Orig == [kind |-> "orig", block |-> Entry]
Def(c) == [kind |-> "def", block |-> c]
Phi(c) == [kind |-> "phi", block |-> c]
SsaVars == {Orig} \union {Def(c) : c \in Codes} \union {Phi(c) : c \in Codes}
Undef == [kind |-> "undef", block |-> Entry]

Top == calls[Len(calls)]
Pop == SubSeq(calls, 1, Len(calls) - 1)
Frontier(C) == UNION {DomFrontier(succ, c) : c \in C}

-----------------------------------------------------------------------------
\* The loop over assigned_at of insert_combinators: a definition counts as a use,
\* and the search for uses starts there unless it has been there before.
SearchFrom(c) ==
  /\ pc = "usage" /\ calls = <<>> /\ c \in todo
  /\ todo' = todo \ {c}
  /\ uses_var' = uses_var \union {c}
  /\ visited' = visited \union {c}
  /\ calls' = IF c \in visited THEN <<>> ELSE <<[block |-> c, left |-> succ[c], found |-> TRUE]>>
  /\ UNCHANGED <<code, result, execution, pc>>

\* var_usage_dfs takes the next successor s: one that was visited answers with
\* what is known of it so far, even if the search is still under way there.
SearchSucc(s) ==
  /\ pc = "usage" /\ calls # <<>> /\ s \in Top.left
  /\ LET here == [Top EXCEPT !.left = @ \ {s}, !.found = @ \/ (s \in visited /\ s \in uses_var)]
     IN  calls' = IF s \in visited THEN Append(Pop, here)
                  ELSE Append(Pop, here) \o <<[block |-> s, left |-> succ[s], found |-> s \in uses_var]>>
  /\ visited' = visited \union {s}
  /\ UNCHANGED <<code, result, execution, pc, todo, uses_var>>

\* Mutant: what a successor answers is not passed on to its predecessors.
SearchReturnAlone ==
  /\ pc = "usage" /\ calls # <<>> /\ Top.left = {}
  /\ uses_var' = IF Top.found THEN uses_var \union {Top.block} ELSE uses_var
  /\ calls' = Pop
  /\ UNCHANGED <<code, result, execution, pc, todo, visited>>

\* All successors have answered; the block answers its predecessor.
SearchReturn ==
  /\ pc = "usage" /\ calls # <<>> /\ Top.left = {}
  /\ uses_var' = IF Top.found THEN uses_var \union {Top.block} ELSE uses_var
  /\ calls' = [i \in 1 .. Len(Pop) |->
                 IF i = Len(Pop) THEN [Pop[i] EXCEPT !.found = @ \/ Top.found] ELSE Pop[i]]
  /\ UNCHANGED <<code, result, execution, pc, todo, visited>>

StartInsert ==
  /\ pc = "usage" /\ calls = <<>> /\ todo = {}
  /\ pc' = "insert"
  /\ todo' = Frontier(defs) /\ visited' = {}
  /\ UNCHANGED <<code, result, execution, uses_var, calls>>

\* create_combinator for a block of the frontier that uses x; the frontier grows
\* by that of the block.  The loop over the frontier meets what is added to it
\* meanwhile: true of the one bucket that holds up to four blocks.
create_combinator(c) ==
  /\ pc = "insert" /\ c \in todo \ visited /\ c \in uses_var
  /\ visited' = visited \union {c}
  /\ phis' = phis \union {c}
  /\ todo' = todo \union DomFrontier(succ, c)
  /\ UNCHANGED <<code, pc, uses_var, calls, bind, dest, read, execution>>

-----------------------------------------------------------------------------
\* Mutant: the definition is renamed before the use.
RenameDefFirst(c, v) ==
  LET v1 == IF c \in phis THEN Phi(c) ELSE v
      v2 == IF c \in defs THEN Def(c) ELSE v1
  IN  /\ read' = IF c \in uses THEN [read EXCEPT ![c] = v2] ELSE read
      /\ dest' = IF c \in defs THEN [dest EXCEPT ![c] = v2] ELSE dest
      /\ bind' = [s \in Codes |-> IF s \in succ[c] \intersect phis THEN [bind[s] EXCEPT ![c] = v2]
                                  ELSE bind[s]]
      /\ visited' = visited \union {c}

\* rename_assignments of block c, where x is known as v: the phi comes first, then
\* the use, then the definition, and the phis of the successors get what is left.
Rename(c, v) ==
  LET v1 == IF c \in phis THEN Phi(c) ELSE v
      v2 == IF c \in defs THEN Def(c) ELSE v1
  IN  /\ read' = IF c \in uses THEN [read EXCEPT ![c] = v1] ELSE read
      /\ dest' = IF c \in defs THEN [dest EXCEPT ![c] = v2] ELSE dest
      /\ bind' = [s \in Codes |-> IF s \in succ[c] \intersect phis THEN [bind[s] EXCEPT ![c] = v2]
                                  ELSE bind[s]]
      /\ visited' = visited \union {c}

StartRename ==
  /\ pc = "insert" /\ todo \intersect uses_var \subseteq visited
  /\ pc' = "rename"
  /\ visited' = {} /\ calls' = <<>> /\ todo' = {}
  /\ UNCHANGED <<code, uses_var, result, execution>>

RenameEntry ==
  /\ pc = "rename" /\ visited = {}
  /\ Rename(Entry, Orig)
  /\ calls' = <<[block |-> Entry, left |-> succ[Entry],
                 to |-> IF Entry \in defs THEN Def(Entry) ELSE Orig]>>
  /\ UNCHANGED <<code, pc, uses_var, todo, phis, execution>>

RenameSucc(s) ==
  /\ pc = "rename" /\ calls # <<>> /\ s \in Top.left
  /\ LET here == Append(Pop, [Top EXCEPT !.left = @ \ {s}])
         to == IF s \in defs THEN Def(s) ELSE IF s \in phis THEN Phi(s) ELSE Top.to
     IN  IF s \in visited
           THEN /\ calls' = here
                /\ UNCHANGED <<visited, bind, dest, read>>
           ELSE /\ Rename(s, Top.to)
                /\ calls' = Append(here, [block |-> s, left |-> succ[s], to |-> to])
  /\ UNCHANGED <<code, pc, uses_var, todo, phis, execution>>

RenameReturn ==
  /\ pc = "rename" /\ calls # <<>> /\ Top.left = {}
  /\ calls' = Pop
  /\ UNCHANGED <<code, pc, visited, uses_var, todo, result, execution>>

-----------------------------------------------------------------------------
\* Both functions run block c, entered from block p.  The value a definition
\* gives x changes every time, so that an old one is told from a new one.
Fresh(c, e) == IF e[Def(c)] = <<c, 0>> THEN <<c, 1>> ELSE <<c, 0>>

RunBlock(c, e) ==
  /\ at' = c
  /\ lastRead' = IF c \in uses THEN <<value, e[read[c]]>> ELSE lastRead
  /\ value' = IF c \in defs THEN Fresh(c, e) ELSE value
  /\ env' = IF c \in defs THEN [e EXCEPT ![Def(c)] = Fresh(c, e)] ELSE e

StartRun ==
  /\ pc = "rename" /\ visited # {} /\ calls = <<>>
  /\ pc' = "run"
  /\ RunBlock(Entry, env)
  /\ UNCHANGED <<code, search, result>>

Jump(c) ==
  /\ pc = "run" /\ c \in succ[at]
  /\ RunBlock(c, IF c \in phis THEN [env EXCEPT ![Phi(c)] = env[bind[c][at]]] ELSE env)
  /\ UNCHANGED <<code, search, result, pc>>

-----------------------------------------------------------------------------
Init ==
  /\ succ \in FlowGraphs
  /\ defs \in {D \in SUBSET Codes : Cardinality(D) \in 1 .. MaxDefs}
  /\ uses \in {U \in SUBSET Codes : Cardinality(U) \in 1 .. MaxUses}
  /\ pc = "usage" /\ visited = {} /\ uses_var = uses /\ todo = defs /\ calls = <<>>
  /\ phis = {}
  /\ bind = [c \in Codes |-> [p \in Codes |-> Undef]]
  /\ dest = [c \in Codes |-> Orig] /\ read = [c \in Codes |-> Orig]
  /\ at = Entry /\ value = <<Entry, -1>>
  /\ env = [v \in SsaVars \union {Undef} |-> IF v = Undef THEN <<Entry, -2>> ELSE <<Entry, -1>>]
  /\ lastRead = <<value, value>>

Next ==
  \/ \E c \in Codes : SearchFrom(c) \/ SearchSucc(c) \/ create_combinator(c) \/ RenameSucc(c) \/ Jump(c)
  \/ SearchReturn \/ StartInsert \/ StartRename \/ RenameEntry \/ RenameReturn \/ StartRun

Spec == Init /\ [][Next]_ssaVars

-----------------------------------------------------------------------------
IteratedFrontier == Reached([c \in Codes |-> DomFrontier(succ, c)], Frontier(defs))

\* The blocks where two values of x meet and x may still be read.
NeedsPhi == {c \in IteratedFrontier : Reached(succ, {c}) \intersect uses # {}}

TypeOK ==
  /\ pc \in {"usage", "insert", "rename", "run"}
  /\ visited \subseteq Codes /\ uses_var \subseteq Codes /\ todo \subseteq Codes
  /\ phis \subseteq Codes
  /\ bind \in [Codes -> [Codes -> SsaVars \union {Undef}]]
  /\ dest \in [Codes -> SsaVars] /\ read \in [Codes -> SsaVars]
  /\ at \in Codes
  /\ \A i, j \in 1 .. Len(calls) : calls[i].block = calls[j].block => i = j

\* Where every phi that is needed is there, every use reads in the converted
\* function what it read before, on every path, with any order of the search.
AgreeIfPlaced == lastRead[1] # lastRead[2] => ~ (NeedsPhi \subseteq phis)

\* Without a loop the search for uses finds all of them.
AcyclicPlaced ==
  pc = "rename" /\ visited = {} /\ (\A c \in Codes : ~ OnCycle(succ, c)) => NeedsPhi \subseteq phis

\* Renaming visits every way into a phi: no path is left undefined.
BindingsFilled ==
  pc = "run" => \A c \in phis : \A p \in Predecessors(succ, c) : bind[c][p] # Undef

\* The search is in no block twice; where there is no loop it finds every phi that is
\* needed (ir.c:264), and renaming fills all of its bindings (ir.c:346).
ConversionOK == TypeOK /\ AcyclicPlaced /\ BindingsFilled

\* The conversion keeps the meaning of the function.  It fails in a loop:
\* var_usage_dfs answers for a block where the search is under way that x is not
\* used, the blocks behind it are written off, and a phi is missing.
ReadsAgree == lastRead[1] = lastRead[2]
=============================================================================
