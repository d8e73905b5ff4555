----------------------------- MODULE MCPreproc -----------------------------
(***************************************************************************)
(* The preprocessor over three sets of programs: all short sequences of    *)
(* conditions, files that include each other, and macros in all ways of    *)
(* naming each other.  What comes out is compared with what C says.        *)
(***************************************************************************)
EXTENDS Preproc, FiniteSets, FiniteSetsExt

CONSTANTS
  Depth      \* bound: directives in a file of conditions

Text(tokens) == [dir |-> "text", tokens |-> tokens]
If(test) == [dir |-> "if", test |-> test, name |-> "G"]
Elif(test) == [dir |-> "elif", test |-> test, name |-> "G"]
Plain(dir) == [dir |-> dir]
IncludeOf(name) == [dir |-> "include", name |-> name]
Object(name, body) == [dir |-> "define", name |-> name, macro |-> [fn |-> FALSE, params |-> 0, body |-> body]]
Function(name, params, body) == [dir |-> "define", name |-> name, macro |-> [fn |-> TRUE, params |-> params, body |-> body]]

MainText == <<"m1", "m2", "m3", "m4", "m5", "m6">>

\* A text line that can be told from the others follows each directive.
WithText(ds) == FlattenSeq([k \in DOMAIN ds |-> <<ds[k], Text(<<MainText[k]>>)>>])

Branches == {If("true"), If("false"), Elif("true"), Elif("false"), Plain("else"), Plain("endif")}

Conditions == {[f \in {"main"} |-> WithText(ds)] : ds \in UNION {[1 .. n -> Branches] : n \in 1 .. Depth}}

\* An included file: not guarded, or in either of the two ways, and with conditions
\* that it leaves open or closes for its includer.
Headers == {
  <<Text(<<"h">>)>>,
  <<Text(<<"h">>), IncludeOf("h")>>,
  <<Plain("once"), Text(<<"h">>)>>,
  <<Plain("once"), Text(<<"h">>), IncludeOf("h")>>,
  <<If("ndef"), Object("G", <<>>), Text(<<"h">>), Plain("endif")>>,
  <<If("ndef"), Object("G", <<>>), IncludeOf("h"), Text(<<"h">>), Plain("endif")>>,
  <<If("false"), Text(<<"h">>)>>,
  <<Plain("endif"), Plain("else"), Text(<<"h">>)>>,
  <<If("noname"), Text(<<"h">>), Plain("endif")>>}

Parts == {If("false"), Plain("else"), Plain("endif"), IncludeOf("h"), [dir |-> "undef", name |-> "G"], If("def")}

Includes == {("main" :> WithText(ds)) @@ ("h" :> h) : ds \in UNION {[1 .. n -> Parts] : n \in 1 .. 3}, h \in Headers}

\* Macros: A and B are objects, F takes one argument, Z none.
ObjectBodies == {<<>>, <<"p">>, <<"A", "p">>, <<"B">>, <<"F">>, <<"F", "(", "A", ")">>, <<"F", "(">>, <<"p", "Z">>}
FunctionBodies == {<<"#">>, <<"#", "#">>, <<"F", "#">>, <<"A">>, <<"#", "(", "p", ")">>, <<"F", "(", "#", ")">>}
NullaryBodies == {<<"F">>, <<"Z", "(", ")">>}
Inputs == {
  <<Text(<<"A", "A">>)>>,
  <<Text(<<"B", "p", "B">>)>>,
  <<Text(<<"F", "(", "A", ")">>)>>,
  <<Text(<<"F", "(", "(", "p", ")", "A", ")", "A">>)>>,
  <<Text(<<"F", "(", "F", "(", "p", ")", ")">>)>>,
  <<Text(<<"A", "p", ")">>)>>,
  <<Text(<<"A", "A", "p", ")", ")">>)>>,
  <<Text(<<"A", "(", "B", ")">>)>>,
  <<Text(<<"F", "(", "F", ")", "(", "B", ")">>)>>,
  <<Text(<<"Z", "(", ")", "(", "p", ")">>)>>,
  <<Text(<<"F", "(", "p">>), Text(<<"A", ")">>)>>,
  <<Text(<<"F", "(", "p">>)>>,
  <<Text(<<"F", "(", "p", ",", "A", ")", "A">>)>>}

Macros ==
  {("main" :> <<Object("A", a), Object("B", b), Function("F", 1, f), Function("Z", 0, z)>> \o text) :
     a \in ObjectBodies, b \in {<<"A">>, <<"F">>, <<"p">>}, f \in FunctionBodies, z \in NullaryBodies, text \in Inputs}

AllPrograms == Conditions \union Includes \union Macros

-----------------------------------------------------------------------------
(* What C says of conditions: a line is in a group that opens at an #if     *)
(* before it and closes after it; the branch of the group it is in is the   *)
(* last one before it, and is taken if its condition is the first that is   *)
(* true.                                                                    *)

main == prog["main"]
IsDir(k, dirs) == main[k].dir \in dirs
Open(i, k) == Cardinality({m \in i .. k : IsDir(m, {"if"})}) - Cardinality({m \in i .. k : IsDir(m, {"endif"})})
Encloses(i, k) == i < k /\ IsDir(i, {"if"}) /\ \A m \in i .. k - 1 : Open(i, m) >= 1
BranchesOf(i, k) == {i} \union {m \in i .. k - 1 : IsDir(m, {"elif", "else"}) /\ Open(i, m) = 1}
True(m) == IsDir(m, {"else"}) \/ main[m].test = "true"
Taken(i, k) == LET b == Max(BranchesOf(i, k)) IN True(b) /\ \A m \in BranchesOf(i, k) \ {b} : ~ True(m)
Active(k) == \A i \in 1 .. k - 1 : Encloses(i, k) => Taken(i, k)

Balanced ==
  /\ \A k \in DOMAIN main : Open(1, k) >= 0
  /\ Open(1, Len(main)) = 0
  /\ \A k \in DOMAIN main : IsDir(k, {"elif", "else"}) =>
       \E i \in 1 .. k - 1 : /\ Encloses(i, k) /\ Open(i, k) = 1
                             /\ \A m \in BranchesOf(i, k) : ~ IsDir(m, {"else"})

Constant ==
  \A k \in DOMAIN main : ~ IsDir(k, {"define"}) /\ (IsDir(k, {"if", "elif"}) => main[k].test \in {"true", "false"})

\* The text of the first file that C keeps.
Kept == FlattenSeq([k \in DOMAIN main |-> IF IsDir(k, {"text"}) /\ Active(k) THEN main[k].tokens ELSE <<>>])

\* A group that is true is opened where text is skipped.
OpensInSkipped == \E k \in DOMAIN main : IsDir(k, {"if"}) /\ main[k].test = "true" /\ ~ Active(k)

-----------------------------------------------------------------------------
(* What C says of macros: a token that comes out of an expansion carries the*)
(* names of the macros it is part of, and is not expanded if its own is one *)
(* of them; what a call makes carries only the names that the macro and the *)
(* closing parenthesis have in common, and the macro's.                     *)

Defs == {k \in DOMAIN main : IsDir(k, {"define"})}
HasDef(name) == \E k \in Defs : main[k].name = name
Def(name) == main[CHOOSE k \in Defs : main[k].name = name].macro
Hidden(tokens, hs) == [k \in DOMAIN tokens |-> [t |-> tokens[k], hs |-> hs]]
Bare(ts) == [k \in DOMAIN ts |-> ts[k].t]

\* Where the call that ts begins with ends, or 0.
NetOpen(ts, k) == Cardinality({m \in 1 .. k : ts[m].t = "("}) - Cardinality({m \in 1 .. k : ts[m].t = ")"})
Closing(ts) == SelectInSeq([k \in DOMAIN ts |-> k >= 2 /\ NetOpen(ts, k) = 0], LAMBDA b : b)

ArgCount(ts, close) ==
  IF close = 3 THEN 0 ELSE 1 + Cardinality({k \in 3 .. close - 1 : ts[k].t = "," /\ NetOpen(ts, k) = 1})

Bad == <<[t |-> "error", hs |-> {}]>>

RECURSIVE Expansion(_)
Expansion(ts) ==
  IF ts = <<>> THEN <<>>
  ELSE LET x == Head(ts)
           asIs == <<x>> \o Expansion(Tail(ts))
           close == Closing(ts)
       IN  IF ~ HasDef(x.t) \/ x.t \in x.hs THEN asIs
           ELSE LET m == Def(x.t) IN
           IF ~ m.fn THEN Expansion(Hidden(m.body, x.hs \union {x.t}) \o Tail(ts))
           ELSE IF Len(ts) < 2 THEN asIs
           ELSE IF ts[2].t # "(" THEN asIs
           ELSE IF close = 0 \/ ArgCount(ts, close) # m.params THEN Bad
           ELSE LET arg == SubSeq(ts, 3, close - 1)
                    hs == (x.hs \intersect ts[close].hs) \union {x.t}
                    body == FlattenSeq([k \in DOMAIN m.body |->
                              IF m.body[k] = "#" THEN Expansion(arg) ELSE <<[t |-> m.body[k], hs |-> {}]>>])
                IN  Expansion([k \in DOMAIN body |-> [body[k] EXCEPT !.hs = @ \union hs]]
                                \o SubSeq(ts, close + 1, Len(ts)))

Source == FlattenSeq([k \in DOMAIN main |-> IF IsDir(k, {"text"}) THEN main[k].tokens ELSE <<>>])
Expanded == Bare(Expansion(Hidden(Source, {})))

OnlyMacros == \A k \in DOMAIN main : IsDir(k, {"text", "define"})

\* Macros that name each other, and those of them that name themselves in the end.
Names(S) == UNION {{Def(n).body[k] : k \in DOMAIN Def(n).body} : n \in {m \in S : HasDef(m)}}
Reached(n) == LET r1 == Names({n})  r2 == r1 \union Names(r1)  r3 == r2 \union Names(r2) IN r3 \union Names(r3)
Recursive == \E k \in Defs : main[k].name \in Reached(main[k].name)

\* No macro is named between parentheses, nor could come to be.
NamedInArg(tokens) ==
  \E k \in DOMAIN tokens : HasDef(tokens[k]) /\ (\E m \in 1 .. k - 1 : tokens[m] = "(")
ArgsPlain ==
  /\ ~ NamedInArg(Source)
  /\ \A k \in Defs : ~ NamedInArg(main[k].macro.body)
  /\ \A k \in Defs : LET b == main[k].macro.body IN Contains(b, "(") => Contains(b, ")")

Simple == ~ Recursive \/ ArgsPlain

-----------------------------------------------------------------------------
(* Properties                                                               *)

Done == stack = <<>>

OfMain(t) == \E k \in DOMAIN MainText : MainText[k] = t

\* The branches kept by the stacks of conditions are those that C keeps: whatever
\* an included file leaves open or closes, and after #elif and #else at any depth.
\* Not so if a group that is true is opened where text is skipped: a new #if looks
\* at the group around the one it is in, so what is in it comes out.
KeepsActive == Done /\ Balanced /\ Constant /\ ~ OpensInSkipped => SelectSeq(out, OfMain) = Kept

\* The stack of expansions, from which a name is not expanded that it has already,
\* gives what C says of the names that each token carries, for macros that do not
\* name themselves in the end, and for others if no argument names a macro.
MacrosAsInC == Done /\ OnlyMacros /\ Simple /\ ~ Contains(Expanded, "error") => out = Expanded

HasOnce(f) == prog[f][1] = Plain("once")
HasGuard(f) == prog[f][1] = If("ndef") /\ prog[f][2] = Object("G", <<>>)

\* The text of a file with #pragma once, or with a guard that nobody removes, comes
\* out once however often and from wherever it is included.
GuardedOnce ==
  "h" \in DOMAIN prog /\ (HasOnce("h") \/ (HasGuard("h") /\ \A k \in DOMAIN main : ~ IsDir(k, {"undef"}))) =>
    Cardinality({k \in DOMAIN out : out[k] = "h"}) <= 1

\* Files are read line by line to their ends, each as often as its guards allow
\* (c_preproc.c:435), and no expansion outlives its macro.
FilesOK == TypeOK /\ GuardedOnce

\* Whether nothing asks for what never ends: a file that includes itself without a
\* guard, a condition left open at the end of the first file (its loop over what it
\* skips looks for the end of a line only), a macro in an argument in its own
\* expansion.
Tame ==
  /\ Balanced
  /\ \A f \in DOMAIN prog \ {"main"} :
       (\E k \in DOMAIN prog[f] : prog[f][k] = IncludeOf(f)) => HasOnce(f) \/ HasGuard(f)
  /\ Simple

\* The preprocessor comes to the end of any other program.
Ends == Tame => <> Done

\* A macro that names itself, by way of others or not, is not expanded in its own
\* expansion.  In an argument it is: the nested preprocessor knows of no expansion.
DoesNotRecurse ==
  \A j, k \in DOMAIN outer : j < k =>
    {outer[j].reader.expand[x].macro : x \in DOMAIN outer[j].reader.expand}
      \intersect {outer[k].reader.expand[x].macro : x \in DOMAIN outer[k].reader.expand} = {}
=============================================================================
