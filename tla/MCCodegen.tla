----------------------------- MODULE MCCodegen -----------------------------
(***************************************************************************)
(* Codegen on functions of three blocks: an entry e, a block l with two    *)
(* phis p and q, and a block x.  Every block makes a value and reads one.  *)
(***************************************************************************)
EXTENDS Codegen

CONSTANTS e, l, x, de, dl, dx, p, q

Def(d) == Op("def", d, None, NoBind, None)
Use(v) == Op("use", None, v, NoBind, None)
Phi(d, b) == Op("phi", d, None, b, None)
Return == Op("return", None, None, NoBind, None)
Jump(c) == Op("jump", None, None, NoBind, c)
Branch(v, c) == Op("branch", None, v, NoBind, c)

Exits(v) == {<<Return>>, <<Jump(l)>>, <<Jump(x)>>, <<Branch(v, l), Jump(x)>>, <<Branch(v, x), Jump(l)>>}
LeadsTo(c, s) == \E r \in Range(s) : r.to = c

Binds(exits) ==
  {b \in [Codes -> {de, dl, dx, p, q, None}] :
     /\ \A c \in Codes : b[c] = None => ~ LeadsTo(l, exits[c])
     /\ b[e] \in {None, de} /\ b[l] \notin {de, dx} /\ b[x] \notin {de, dl}}

MCInit ==
  /\ layout \in {<<e, l, x>>, <<e, x, l>>}
  /\ \E oe \in Exits(de) \ {<<Return>>}, ol \in Exits(p), ox \in Exits(dx) :
     \E b, d \in Binds([c \in Codes |-> CASE c = e -> oe [] c = l -> ol [] c = x -> ox]) :
       ssa = [c \in Codes |-> CASE c = e -> <<Def(de)>> \o oe
                                [] c = l -> <<Phi(p, b), Phi(q, d), Def(dl), Use(q)>> \o ol
                                [] c = x -> <<Def(dx), Use(p)>> \o ox]
  /\ Init

MCSpec == MCInit /\ [][Next]_vars
=============================================================================
