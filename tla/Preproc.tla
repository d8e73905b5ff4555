------------------------------ MODULE Preproc ------------------------------
(***************************************************************************)
(* The C preprocessor, c_preproc.c: include files, conditions and macros.  *)
(*                                                                         *)
(* A file is a sequence of lines: a text line has tokens, any other is a   *)
(* directive.  Tokens are names; "#" stands for the parameter in the body  *)
(* of a macro that has one.  White space, comments, pasting, making strings*)
(* of arguments, variadic and built-in macros, and how a condition is      *)
(* computed from its operators are left out: a condition is true, false, or*)
(* whether a macro is defined.                                             *)
(*                                                                         *)
(* To expand the argument of a macro, another preprocessor is made that    *)
(* has nothing but the argument to read; outer holds those that wait.      *)
(***************************************************************************)
EXTENDS Integers, Sequences, SequencesExt

CONSTANTS
  Programs,  \* each from the names of its files to their lines; "main" is the first
  MaxNest,   \* bound: preprocessors that wait for an argument
  MaxFiles   \* bound: files that include each other

VARIABLES
  prog,        \* the files
  macros,      \* c_preproc_shared_t.macros: names to [fn, params, body]
  once_files,  \* c_preproc_shared_t.once_files
  stack,       \* c_preproc_t.stack: [name, line, col, ifdir] of the files being read
  expand,      \* c_preproc_t.expand: [macro, tokens] of the expansions being read
  src,         \* what is left of the argument that a nested preprocessor reads
  outer,       \* the preprocessors that wait, and for which call
  call,        \* the call whose arguments are being read
  out          \* the tokens returned so far

pvars == <<prog, macros, once_files>>
rvars == <<stack, expand, src, outer, call, out>>
vars == <<pvars, rvars>>

NoCall == [macro |-> "", depth |-> 0, args |-> <<>>, cur |-> <<>>]

top == Last(stack)
AtEof(f) == f.line > Len(prog[f.name])
Line(f) == prog[f.name][f.line]

NextLine(s) == [s EXCEPT ![Len(s)].line = @ + 1, ![Len(s)].col = 1]

\* Of a directive that is read as text, its # and what follows are one token.
Tokens(line) == IF line.dir = "text" THEN line.tokens ELSE <<"hash">>

-----------------------------------------------------------------------------
(* c_preproc_raw_peek and c_preproc_raw_next: from the expansions, then     *)
(* from the argument if nested, else from the files.                        *)

reader == [expand |-> expand, src |-> src, stack |-> stack]

\* The expansions up to the last one with something left.
Live(e) == SubSeq(e, 1, SelectLastInSeq(e, LAMBDA x : x.tokens # <<>>))

raw_peek(r) ==
  LET live == Live(r.expand)
      file == Last(r.stack)
  IN  CASE live # <<>> -> Head(Last(live).tokens)
        [] live = <<>> /\ outer # <<>> -> IF r.src = <<>> THEN "eof" ELSE Head(r.src)
        [] OTHER -> IF AtEof(file) THEN "eof"
                    ELSE IF file.col > Len(Tokens(Line(file))) THEN "eol"
                    ELSE Tokens(Line(file))[file.col]

raw_next(r) ==
  LET live == Live(r.expand)
      n == Len(live)
  IN  CASE live # <<>> -> [r EXCEPT !.expand = [live EXCEPT ![n].tokens = Tail(@)]]
        [] live = <<>> /\ outer # <<>> -> [r EXCEPT !.expand = <<>>, !.src = IF @ = <<>> THEN @ ELSE Tail(@)]
        [] OTHER -> [r EXCEPT !.expand = <<>>,
                              !.stack = IF raw_peek(r) = "eof" THEN @
                                        ELSE IF raw_peek(r) = "eol" THEN NextLine(@)
                                        ELSE [@ EXCEPT ![Len(@)].col = @ + 1]]

Read(r) == expand' = r.expand /\ src' = r.src /\ stack' = r.stack

-----------------------------------------------------------------------------
(* Conditions: a stack for each file of [emit, disabled, allow_else].       *)

do_emit == IF top.ifdir = <<>> THEN TRUE ELSE Last(top.ifdir).emit

\* Whether the group around the last #if of d is active.  A new #if asks before it
\* is on the stack, and so of the group around the one that it is in.
parent_emit(d) == Len(d) < 2 \/ d[Len(d) - 1].emit

eval(line) ==
  CASE line.test = "true" -> TRUE [] line.test = "false" -> FALSE
    [] line.test = "def" -> line.name \in DOMAIN macros
    [] line.test = "ndef" -> line.name \notin DOMAIN macros

\* c_directive_if: one that names nothing is an error, and opens nothing.
directive_if(d, line) ==
  IF line.test = "noname" THEN d
  ELSE Append(d, [emit |-> eval(line) /\ parent_emit(d), disabled |-> eval(line), allow_else |-> TRUE])

\* Mutant: the branches taken before are forgotten.
ElifAnyway(d, line) ==
  IF line.test = "noname" \/ d = <<>> \/ ~ Last(d).allow_else THEN d
  ELSE [d EXCEPT ![Len(d)].emit = eval(line) /\ parent_emit(d)]

directive_elif(d, line) ==
  IF line.test = "noname" \/ d = <<>> \/ ~ Last(d).allow_else THEN d
  ELSE LET emit == ~ Last(d).disabled /\ eval(line) /\ parent_emit(d)
       IN  [d EXCEPT ![Len(d)].emit = emit, ![Len(d)].disabled = @ \/ emit]

directive_else(d) ==
  IF d = <<>> \/ ~ Last(d).allow_else THEN d
  ELSE [d EXCEPT ![Len(d)].allow_else = FALSE, ![Len(d)].emit = parent_emit(d) /\ ~ Last(d).disabled]

\* Mutant: the last condition stays.
EndifInner(d) == IF Len(d) <= 1 THEN d ELSE Front(d)

directive_endif(d) == IF d = <<>> THEN d ELSE Front(d)

\* Where a line begins, outside of any expansion: c_preproc_next looks for a #.
AtLine == /\ stack # <<>> /\ outer = <<>> /\ call = NoCall /\ Live(expand) = <<>>
          /\ ~ AtEof(top) /\ top.col = 1

Condition ==
  /\ AtLine /\ Line(top).dir \in {"if", "elif", "else", "endif"}
  /\ stack' = NextLine([stack EXCEPT ![Len(stack)].ifdir =
       CASE Line(top).dir = "if" -> directive_if(@, Line(top))
         [] Line(top).dir = "elif" -> directive_elif(@, Line(top))
         [] Line(top).dir = "else" -> directive_else(@)
         [] Line(top).dir = "endif" -> directive_endif(@)])
  /\ UNCHANGED <<pvars, expand, src, outer, call, out>>

-----------------------------------------------------------------------------
(* The directives that are skipped with the text.                           *)

\* Mutant: a file is included as often as it is asked for.
NeverSeen(name) == FALSE

Seen(name) == name \in once_files

\* c_directive_include and c_incfile_push.
Include ==
  /\ AtLine /\ Line(top).dir = "include" /\ do_emit
  /\ Len(stack) < MaxFiles
  /\ LET name == Line(top).name IN
       stack' = IF name \notin DOMAIN prog \/ Seen(name) THEN NextLine(stack)
                ELSE Append(NextLine(stack), [name |-> name, line |-> 1, col |-> 1, ifdir |-> <<>>])
  /\ UNCHANGED <<pvars, expand, src, outer, call, out>>

Once ==
  /\ AtLine /\ Line(top).dir = "once" /\ do_emit
  /\ once_files' = once_files \union {top.name}
  /\ stack' = NextLine(stack)
  /\ UNCHANGED <<prog, macros, expand, src, outer, call, out>>

Define ==
  /\ AtLine /\ Line(top).dir = "define" /\ do_emit
  /\ macros' = [n \in DOMAIN macros \union {Line(top).name} |->
                  IF n = Line(top).name THEN Line(top).macro ELSE macros[n]]
  /\ stack' = NextLine(stack)
  /\ UNCHANGED <<prog, once_files, expand, src, outer, call, out>>

Undef ==
  /\ AtLine /\ Line(top).dir = "undef" /\ do_emit
  /\ macros' = [n \in DOMAIN macros \ {Line(top).name} |-> macros[n]]
  /\ stack' = NextLine(stack)
  /\ UNCHANGED <<prog, once_files, expand, src, outer, call, out>>

SkipLine ==
  /\ AtLine /\ ~ do_emit /\ Line(top).dir \notin {"if", "elif", "else", "endif"}
  /\ stack' = NextLine(stack)
  /\ UNCHANGED <<pvars, expand, src, outer, call, out>>

\* c_incfile_pop, with the conditions that are still open.
PopFile ==
  /\ outer = <<>> /\ Live(expand) = <<>> /\ Len(stack) >= 2 /\ AtEof(top)
  /\ stack' = Front(stack)
  /\ UNCHANGED <<pvars, expand, src, outer, call, out>>

\* The end of the first file is returned, and c_preproc_destroy pops it.  It is not
\* reached where text is skipped: the loop asks for tokens until a line ends.
Finish ==
  /\ outer = <<>> /\ call = NoCall /\ Live(expand) = <<>> /\ Len(stack) = 1 /\ AtEof(top) /\ do_emit
  /\ stack' = <<>> /\ expand' = <<>>
  /\ UNCHANGED <<pvars, src, outer, call, out>>

-----------------------------------------------------------------------------
(* c_preproc_get_tkn and c_macro_expand.                                    *)

Reading == /\ stack # <<>> /\ call = NoCall
           /\ ~ (AtLine /\ (Line(top).dir # "text" \/ ~ do_emit))

\* The identifier has been read: what is on the stack now is what it is part of.
Expands(t, r) ==
  /\ t \in DOMAIN macros
  /\ ~ \E k \in DOMAIN r.expand : r.expand[k].macro = t
  /\ macros[t].fn => raw_peek(r) = "("

Token ==
  LET t == raw_peek(reader)
      r == raw_next(reader)
  IN  /\ Reading /\ t # "eof" /\ (t # "eol" => ~ Expands(t, r))
      /\ Read(r)
      /\ out' = IF t = "eol" THEN out ELSE Append(out, t)
      /\ UNCHANGED <<pvars, outer, call>>

ExpandObject ==
  LET t == raw_peek(reader)
      r == raw_next(reader)
  IN  /\ Reading /\ t \notin {"eof", "eol"} /\ Expands(t, r) /\ ~ macros[t].fn
      /\ Read([r EXCEPT !.expand = Append(@, [macro |-> t, tokens |-> macros[t].body])])
      /\ UNCHANGED <<pvars, outer, call, out>>

StartCall ==
  LET t == raw_peek(reader)
      r == raw_next(reader)
  IN  /\ Reading /\ t \notin {"eof", "eol"} /\ Expands(t, r) /\ macros[t].fn
      /\ Read(raw_next(r))
      /\ call' = [NoCall EXCEPT !.macro = t]
      /\ UNCHANGED <<pvars, outer, out>>

\* Where an included file ends in the arguments, the next one is read on.
InArgs == call # NoCall /\ ~ (outer = <<>> /\ Live(expand) = <<>> /\ Len(stack) >= 2 /\ AtEof(top))

DepthAfter(t, depth) == IF t = "(" THEN depth + 1 ELSE IF t = ")" THEN depth - 1 ELSE depth

Argument ==
  LET t == raw_peek(reader) IN
  /\ InArgs /\ t # "eof" /\ ~ (t = ")" /\ call.depth = 0)
  /\ Read(raw_next(reader))
  /\ call' = IF t = "eol" THEN call
             ELSE IF t = "," /\ call.depth = 0
               THEN [call EXCEPT !.args = Append(@, call.cur), !.cur = <<>>]
             ELSE [call EXCEPT !.cur = Append(@, t), !.depth = DepthAfter(t, @)]
  /\ UNCHANGED <<pvars, outer, out>>

\* All that was read of the call is lost.
Unterminated ==
  /\ InArgs /\ raw_peek(reader) = "eof"
  /\ call' = NoCall
  /\ UNCHANGED <<pvars, stack, expand, src, outer, out>>

\* () has no arguments.
Args == IF call.args = <<>> /\ call.cur = <<>> THEN <<>> ELSE Append(call.args, call.cur)

Closes == InArgs /\ raw_peek(reader) = ")" /\ call.depth = 0

WrongCount ==
  LET r == raw_next(reader) IN
  /\ Closes /\ Len(Args) # macros[call.macro].params
  /\ Read(r) /\ call' = NoCall
  /\ UNCHANGED <<pvars, outer, out>>

Replace ==
  LET r == raw_next(reader)
      body == macros[call.macro].body
  IN  /\ Closes /\ Len(Args) = macros[call.macro].params /\ ~ Contains(body, "#")
      /\ Read([r EXCEPT !.expand = Append(@, [macro |-> call.macro, tokens |-> body])])
      /\ call' = NoCall
      /\ UNCHANGED <<pvars, outer, out>>

\* c_macro_arg_preexpand: the nested preprocessor starts without any expansions.
ExpandArgument ==
  LET r == raw_next(reader)
      m == macros[call.macro]
  IN  /\ Closes /\ Len(Args) = m.params /\ Contains(m.body, "#")
      /\ Len(outer) < MaxNest
      /\ outer' = Append(outer, [macro |-> call.macro, reader |-> r, out |-> out])
      /\ expand' = <<>> /\ src' = Args[1] /\ stack' = r.stack /\ out' = <<>>
      /\ call' = NoCall
      /\ UNCHANGED pvars

\* Mutant: only the first place of the parameter is filled.
SubstFirst(body, arg) ==
  LET n == SelectInSeq(body, LAMBDA t : t = "#")
  IN  FlattenSeq([k \in DOMAIN body |-> IF k = n THEN arg ELSE IF body[k] = "#" THEN <<>> ELSE <<body[k]>>])

Subst(body, arg) == FlattenSeq([k \in DOMAIN body |-> IF body[k] = "#" THEN arg ELSE <<body[k]>>])

ArgumentExpanded ==
  LET w == Last(outer)
      r == w.reader
  IN  /\ outer # <<>> /\ call = NoCall /\ raw_peek(reader) = "eof"
      /\ expand' = Append(r.expand, [macro |-> w.macro, tokens |-> Subst(macros[w.macro].body, out)])
      /\ src' = r.src /\ stack' = r.stack /\ out' = w.out
      /\ outer' = Front(outer)
      /\ UNCHANGED <<pvars, call>>

-----------------------------------------------------------------------------
Init ==
  /\ prog \in Programs
  /\ macros = [n \in {} |-> 0] /\ once_files = {}
  /\ stack = <<[name |-> "main", line |-> 1, col |-> 1, ifdir |-> <<>>]>>
  /\ expand = <<>> /\ src = <<>> /\ outer = <<>> /\ call = NoCall /\ out = <<>>

Next ==
  \/ Condition \/ Include \/ Once \/ Define \/ Undef \/ SkipLine \/ PopFile \/ Finish
  \/ Token \/ ExpandObject \/ StartCall \/ Argument \/ Unterminated \/ WrongCount
  \/ Replace \/ ExpandArgument \/ ArgumentExpanded

Spec == Init /\ [][Next]_vars /\ WF_vars(Next)

TypeOK ==
  /\ once_files \subseteq DOMAIN prog
  /\ \A n \in DOMAIN macros : macros[n].params \in Nat /\ (macros[n].params > 0 => macros[n].fn)
  /\ \A k \in DOMAIN stack : stack[k].name \in DOMAIN prog /\ stack[k].line \in 1 .. Len(prog[stack[k].name]) + 1
  /\ \A k \in DOMAIN expand : expand[k].macro \in DOMAIN macros
  /\ call # NoCall => call.macro \in DOMAIN macros
  /\ Len(outer) <= MaxNest /\ Len(stack) <= MaxFiles
=============================================================================
