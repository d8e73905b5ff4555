------------------------------- MODULE Spill -------------------------------
(***************************************************************************)
(* The loop of regalloc (compiler/common/back/regalloc.c) around the       *)
(* colouring: if a variable is left without a register, ra_spill picks the *)
(* cheapest one, the back end writes it to the stack after each definition *)
(* and reads it back before each use, and everything starts again.         *)
(*                                                                         *)
(* The variable is not replaced: each load defines it once more, and it    *)
(* has one register for all the places where it is still needed.  The      *)
(* function is a list of instructions without jumps, which is what liveness *)
(* sees of it after instruction selection, and has no fixed registers.     *)
(***************************************************************************)
EXTENDS RegAlloc

Seqs == INSTANCE SequencesExt

CONSTANTS
  Functions,  \* the functions to allocate
  MaxSpills   \* how often the model lets regalloc start again

VARIABLES
  code,       \* the instructions
  frames      \* how many stack frames ra_spill has created

spillVars == <<raVars, code, frames>>

\* What a variable costs that should never be spilled (INT_MAX in the code).
Never == 2147483647

-----------------------------------------------------------------------------
\* An instruction of the original function, a load of v from a frame, a store.
Op(def, use, id) == [type |-> "op", def |-> def, use |-> use, id |-> id]
Load(v, f) == [type |-> "load", def |-> {v}, use |-> {}, id |-> f]
Store(v, f) == [type |-> "store", def |-> {}, use |-> {v}, id |-> f]

Defs(c, v) == {i \in DOMAIN c : v \in c[i].def}
UsesOf(c, v) == {i \in DOMAIN c : v \in c[i].use}

\* lt_node_t.in, as Liveness computes it: a use follows and no definition lies between.
LiveIn(c, i) ==
  {v \in Vars : \E u \in UsesOf(c, v) : i <= u /\ Defs(c, v) \intersect (i .. u - 1) = {}}

\* What the passes before leave: every result is read, as opt_unused_vars sees to, and
\* what is read has been computed.
ASSUME SpillAssumption ==
  /\ MaxSpills \in Nat
  /\ \A f \in Functions :
       /\ f \in Seq([type : {"op"}, def : SUBSET Vars, use : SUBSET Vars, id : Nat])
       /\ \A i \in DOMAIN f : f[i].id = i /\ f[i].def \subseteq LiveIn(f, i + 1)
       /\ \A i \in DOMAIN f : \A v \in f[i].use : \E j \in 1 .. i - 1 : v \in f[j].def

\* The links of the variables.
Interference(c) ==
  LET sets == {LiveIn(c, i) : i \in DOMAIN c}
  IN  [n \in Nodes |-> {v \in Vars \ {n} : \E live \in sets : {n, v} \subseteq live}]

\* Instructions from a definition to the next use: -1 where one does both.
time_to_use(c, v) ==
  LET between == {u - d : u \in UsesOf(c, v), d \in Defs(c, v)} \intersect Nat
  IN  (CHOOSE t \in between : \A s \in between : t <= s) - 1

ra_spill_cost(c, v) ==
  LET ttu == time_to_use(c, v)
      uses == Cardinality(UsesOf(c, v))
  IN  IF ttu < 1 /\ uses = 1 THEN Never ELSE (1024 * uses) \div (IF ttu < 1 THEN 1 ELSE ttu)

\* The variables that ra_spill may pick, the map it looks through having any order.
\* The cost Never is no obstacle: only INT64_MAX would be.
Cheapest(c) == {v \in Vars : \A u \in Vars : ra_spill_cost(c, v) <= ra_spill_cost(c, u)}

\* Mutant: the value is stored before it is there.
StoreFirst(x, v, f) ==
  (IF v \in x.use THEN <<Load(v, f)>> ELSE <<>>)
    \o (IF v \in x.def THEN <<Store(v, f), x>> ELSE <<x>>)

\* Mutant: the value is stored, and stays in its register as well.
StoreOnly(x, v, f) == IF v \in x.def THEN <<x, Store(v, f)>> ELSE <<x>>

\* An instruction with the load in front of it and the store behind it.
Around(x, v, f) ==
  (IF v \in x.use THEN <<Load(v, f)>> ELSE <<>>)
    \o (IF v \in x.def THEN <<x, Store(v, f)>> ELSE <<x>>)

Spilled(c, v, f) == Seqs!FlattenSeq([i \in DOMAIN c |-> Around(c[i], v, f)])

\* regalloc, from its label `again' on.
Start(c) ==
  /\ lives' = Interference(c) /\ links' = lives'
  /\ graph' = Vars /\ regno' = [n \in Nodes |-> REGNO_NONE]
  /\ stack' = <<>> /\ pc' = "unconstrained" /\ free' = {} /\ must_spill' = FALSE

\* ra_spill, after which everything is done again.
ra_spill(v) ==
  /\ pc = "done" /\ must_spill
  /\ frames < MaxSpills
  /\ v \in Cheapest(code)
  /\ code' = Spilled(code, v, frames + 1)
  /\ frames' = frames + 1
  /\ Start(code')

SpillInit ==
  /\ code \in Functions /\ frames = 0
  /\ lives = Interference(code) /\ links = lives
  /\ graph = Vars /\ regno = [n \in Nodes |-> REGNO_NONE]
  /\ stack = <<>> /\ pc = "unconstrained" /\ free = {} /\ must_spill = FALSE

SpillNext ==
  \/ Next /\ UNCHANGED <<code, frames>>
  \/ \E v \in Vars : ra_spill(v)

SpillSpec == SpillInit /\ [][SpillNext]_spillVars

\* regalloc runs until it has found a register for every variable.
FairSpillSpec == SpillSpec /\ WF_spillVars(SpillNext)

-----------------------------------------------------------------------------
Allocated == pc = "done" /\ ~ must_spill

\* The registers and frames before anything has run.
Empty == [reg |-> [r \in Regs |-> 0], mem |-> [f \in 1 .. frames |-> 0]]

\* Value y is written to the registers that the variables of def have.
Write(reg, def, y) == [r \in Regs |-> IF \E v \in def : regno[v] = r THEN y ELSE reg[r]]

\* What an instruction makes of registers and frames m.
Execute(m, x) ==
  CASE x.type = "op" -> [reg |-> Write(m.reg, x.def, x.id), mem |-> m.mem]
    [] x.type = "load" -> [reg |-> Write(m.reg, x.def, m.mem[x.id]), mem |-> m.mem]
    [] x.type = "store" ->
         [reg |-> m.reg, mem |-> [m.mem EXCEPT ![x.id] = m.reg[regno[CHOOSE v \in x.use : TRUE]]]]

\* What the registers and the frames hold after the first k instructions, when each
\* instruction of the original function yields a value of its own, its id.
Machine ==
  LET M[k \in 0 .. Len(code)] == IF k = 0 THEN Empty ELSE Execute(M[k - 1], code[k])
  IN  M

\* The value that instruction id of the original function reads of v.
Original(v, id) ==
  LET defs == {code[d].id : d \in {e \in Defs(code, v) : code[e].type = "op" /\ code[e].id < id}}
  IN  CHOOSE d \in defs : \A e \in defs : e <= d

\* The registers and frames hold, wherever an instruction of the function reads a
\* variable, what the function had computed for it: no register is shared too
\* early, no reload comes too late, nothing is read from a frame that is stale.
ReloadsAgree ==
  Allocated =>
    LET M == Machine
    IN  \A k \in DOMAIN code : code[k].type = "op" =>
          \A v \in code[k].use : M[k - 1].reg[regno[v]] = Original(v, code[k].id)

\* The instructions of a function that are not loads and stores.
Ops(c) == {k \in DOMAIN c : c[k].type = "op"}

Originals == {{f[k] : k \in Ops(f)} : f \in Functions}

\* Loads and stores name a frame that exists; the instructions of the original
\* function are all there, in order.
SpillTypeOK ==
  /\ TypeOK
  /\ frames \in 0 .. MaxSpills
  /\ \A k \in DOMAIN code : code[k].def \subseteq Vars /\ code[k].use \subseteq Vars
  /\ \A k \in DOMAIN code : code[k].type # "op" => code[k].id \in 1 .. frames
  /\ {code[k] : k \in Ops(code)} \in Originals
  /\ \A j, k \in Ops(code) : j < k => code[j].id < code[k].id

\* Through every spill the function stays the one it was (regalloc.c:383): what it
\* computed is there with loads and stores of frames in between, and every read agrees.
SpillOK == SpillTypeOK /\ ReloadsAgree

\* More variables than registers are read together, two by two: each has one register
\* for all the places where it is needed, so no amount of spilling helps.
Crowded ==
  \E S \in SUBSET Vars :
    /\ Cardinality(S) > NumRegs
    /\ \A u, v \in S : \E i \in DOMAIN code : code[i].type = "op" /\ {u, v} \subseteq code[i].use

\* Where it can, regalloc comes to an end: a variable may be spilled again and again,
\* but each time it is used more often and costs more, until others are cheaper.
SpillEnds == <>(Allocated \/ Crowded)
=============================================================================
