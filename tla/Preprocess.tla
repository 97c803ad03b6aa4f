----------------------------- MODULE Preprocess -----------------------------
(***************************************************************************)
(* The line machine of src/C99/Preprocess.hs: ppBuffer, ppLines and        *)
(* directive.  A step is one logical line, or the end of a buffer.  The    *)
(* preprocessor reads a stack of buffers, keeps a macro table and a stack  *)
(* of conditionals, and emits chunks: expanded text, newlines that keep    *)
(* the line count, and line markers for the lexer.                         *)
(***************************************************************************)
EXTENDS CPreprocess

CONSTANTS Programs,        \* sets of programs: [files, dirs, opts, main]
          DirectiveLines,  \* lines a directive may absorb: 4096
          CallLines        \* lines a call may absorb: 512

VARIABLES
  prog,      \* the program being preprocessed
  stack,     \* buffers being read, the innermost first
  macros,    \* stMacros
  ifStack,   \* stIfStack, innermost first: 0 dead, 1 taking, 2 branch already taken
  disabled,  \* stDisabled
  msgs,      \* stMsgs, in order: <<what, path, line>>
  out        \* the chunks, in order
vars == <<prog, stack, macros, ifStack, disabled, msgs, out>>

(* ---- chunks and buffers ---- *)

nl == [k |-> "nl"]
lineMarker(line, path) == [k |-> "mark", at |-> <<path, line>>]
Text(s, at) == [k |-> "text", s |-> s, at |-> at]
nls(n) == [k \in 1 .. n |-> nl]

\* A buffer of ppLines.  merged: the lines its #include absorbed.  name and
\* ahead say which place #line gave it, for LinesAreTrue only.
Buffer(path, merged) ==
  [path |-> path, rest |-> Contents(prog.files, path), line |-> 1, inCmt |-> FALSE,
   merged |-> merged, name |-> Spelled(path), ahead |-> 0]

\* PPDefine and PPUndef, in command-line order, over the predefined macros:
\* one of each kind of those.
predefs == FoldLeft(LAMBDA tbl, text : macroDefine(tbl, [parseDefine(text) EXCEPT !.predef = TRUE]),
                    emptyTable,
                    << <<"__STDC__", " ", "1">>, <<"__inline">>, <<"__attribute__", "(", "x", ")">> >>)
cmdline(tbl, o) ==
  IF o.d = "U" THEN macroUndef(tbl, o.text[1]) ELSE macroDefine(tbl, parseDefine(o.text))

Init ==
  /\ \E k \in DOMAIN Programs : prog \in Programs[k]
  /\ stack = <<Buffer(prog.main, 0)>>
  /\ macros = FoldLeft(cmdline, predefs, prog.opts)
  /\ ifStack = << >> /\ disabled = FALSE
  /\ msgs = << >>
  /\ out = <<lineMarker(1, Spelled(prog.main))>>

(* ---- logical lines ---- *)

b     == stack[1]
raw   == b.rest[1]
here  == <<Spelled(b.path), b.line>>
given == <<b.name, b.line + b.ahead>>

startsHash(s) == Starts(s, "#")

\* A directive runs on to where its comment closes.
RECURSIVE mergeDirective(_, _, _)
mergeDirective(text, ls, n) ==
  IF endsInComment(text) /\ n < DirectiveLines /\ ls # << >>
  THEN mergeDirective(text \o ls[1], Tail(ls), n + 1)
  ELSE [text |-> text, merged |-> n, rest |-> ls]

\* A call runs on while a parenthesis is open, up to a directive.
RECURSIVE mergeLines(_, _, _, _, _)
mergeLines(depth, inC, logical, ls, n) ==
  IF depth > 0 /\ n < CallLines /\ ls # << >> /\ ~startsHash(ls[1])
  THEN LET p == lineParenDepth(ls[1], depth, inC)
           s == IF p.cut # 0 THEN SubSeq(ls[1], 1, p.cut - 1) ELSE ls[1]
       IN  mergeLines(p.d, p.inC, logical \o <<" ">> \o s, Tail(ls), n + 1)
  ELSE [text |-> logical, merged |-> n, inCmt |-> inC, rest |-> ls]

\* Reading b goes on at rest, n lines absorbed.
AdvancedBuffer(rest, n, inCmt) == [b EXCEPT !.rest = rest, !.line = @ + n + 1, !.inCmt = inCmt]

(* ---- text ---- *)

Reading  == stack # << >> /\ b.rest # << >>
TextLine == Reading /\ ~(~b.inCmt /\ startsHash(raw))

\* A line of a dead branch leaves a blank.
DeadLine ==
  /\ TextLine /\ disabled
  /\ stack' = [stack EXCEPT ![1] = AdvancedBuffer(Tail(b.rest), 0, b.inCmt)]
  /\ out' = Append(out, nl)
  /\ UNCHANGED <<prog, macros, ifStack, disabled, msgs>>

anyCandidate(tbl, s) == ToSet(s) \cap tbl.names # {}
Plain == /\ ~b.inCmt /\ lineParenDepth(raw, 0, FALSE).d <= 0
         /\ ~anyCandidate(macros, raw)

\* Nothing on the line can expand: it goes out as it is.
PlainLine ==
  /\ TextLine /\ ~disabled /\ Plain
  /\ stack' = [stack EXCEPT ![1] =
                 AdvancedBuffer(Tail(b.rest), 0, lineParenDepth(raw, 0, FALSE).inC)]
  /\ out' = out \o <<Text(raw, given), nl>>
  /\ UNCHANGED <<prog, macros, ifStack, disabled, msgs>>

ExpandedLine ==
  /\ TextLine /\ ~disabled /\ ~Plain
  /\ LET p    == lineParenDepth(raw, 0, b.inCmt)
         cut  == IF p.d > 0 /\ p.cut # 0 THEN SubSeq(raw, 1, p.cut - 1) ELSE raw
         l    == mergeLines(p.d, p.inC, cut, Tail(b.rest), 0)
     IN /\ stack' = [stack EXCEPT ![1] = AdvancedBuffer(l.rest, l.merged, l.inCmt)]
        /\ out' = out \o <<Text(expandLine(macros, here, l.text, b.inCmt), given)>>
                      \o nls(l.merged + 1)
  /\ UNCHANGED <<prog, macros, ifStack, disabled, msgs>>

(* ---- directives ---- *)

whole   == mergeDirective(raw, Tail(b.rest), 0)
hash    == dropBlanks(Tail(dropBlanks(whole.text)))
dir     == Ident(hash)
operand == dropBlanks(IF dir = "" THEN hash ELSE Tail(hash))
Directive == Reading /\ ~b.inCmt /\ startsHash(raw)
Live == Directive /\ ~disabled /\ dir \notin Opens \cup Arms \cup {"endif"}

\* The directive is done, having emitted chunk.
Past(chunk) ==
  /\ stack' = [stack EXCEPT ![1] = AdvancedBuffer(whole.rest, whole.merged, b.inCmt)]
  /\ out' = out \o <<chunk>> \o nls(whole.merged)
ppError(what) == msgs' = Append(msgs, <<what, here[1], here[2]>>)

\* recompute: suppressed unless every conditional is in its taken arm.
recompute(ifs) == /\ ifStack' = ifs
                  /\ disabled' = (\E k \in DOMAIN ifs : ifs[k] # 1)

holds == CASE dir = "if" -> ifCondition(macros, here, operand)
           [] dir = "ifdef" -> Known(macros, Ident(operand))
           [] dir = "ifndef" -> ~Known(macros, Ident(operand))

\* A conditional nested in dead code can never become live.
NewTop(dead, taken) == IF dead THEN 2 ELSE IF taken THEN 1 ELSE 0
If ==
  /\ Directive /\ dir \in Opens
  /\ recompute(<<NewTop(disabled, holds)>> \o ifStack)
  /\ Past(nl) /\ UNCHANGED <<prog, macros, msgs>>

flipTop(t) == CASE t = 1 -> 2 [] t = 0 -> 1 [] OTHER -> t
elifTop_again(t, taken) == IF taken THEN 1 ELSE t
elifTop(t, taken) == CASE t = 1 -> 2 [] t = 0 -> (IF taken THEN 1 ELSE 0) [] OTHER -> t

Else ==
  /\ Directive /\ dir = "else" /\ ifStack # << >>
  /\ recompute([ifStack EXCEPT ![1] = flipTop(@)])
  /\ Past(nl) /\ UNCHANGED <<prog, macros, msgs>>
Elif ==
  /\ Directive /\ dir = "elif" /\ ifStack # << >>
  /\ recompute([ifStack EXCEPT ![1] = elifTop(@, ifCondition(macros, here, operand))])
  /\ Past(nl) /\ UNCHANGED <<prog, macros, msgs>>
Endif_stale ==
  /\ Directive /\ dir = "endif" /\ ifStack # << >>
  /\ ifStack' = Tail(ifStack) /\ UNCHANGED disabled
  /\ Past(nl) /\ UNCHANGED <<prog, macros, msgs>>
Endif ==
  /\ Directive /\ dir = "endif" /\ ifStack # << >>
  /\ recompute(Tail(ifStack))
  /\ Past(nl) /\ UNCHANGED <<prog, macros, msgs>>

\* #else, #elif or #endif without #if.
Unmatched ==
  /\ Directive /\ dir \in Arms \cup {"endif"} /\ ifStack = << >>
  /\ ppError(dir)
  /\ Past(nl) /\ UNCHANGED <<prog, macros, ifStack, disabled>>

doDefine ==
  /\ Live /\ dir = "define" /\ Ident(dropBlanks(stripComments(operand))) # ""
  /\ macros' = macroDefine(macros, parseDefine(operand))
  /\ Past(nl) /\ UNCHANGED <<prog, ifStack, disabled, msgs>>
\* #define missing name.
MissingName ==
  /\ Live /\ dir = "define" /\ Ident(dropBlanks(stripComments(operand))) = ""
  /\ ppError("define")
  /\ Past(nl) /\ UNCHANGED <<prog, macros, ifStack, disabled>>
Undef ==
  /\ Live /\ dir = "undef"
  /\ macros' = macroUndef(macros, Ident(operand))
  /\ Past(nl) /\ UNCHANGED <<prog, ifStack, disabled, msgs>>
Error ==
  /\ Live /\ dir = "error"
  /\ ppError("error")
  /\ Past(nl) /\ UNCHANGED <<prog, macros, ifStack, disabled>>
\* Any other directive, and any that is dead but the conditionals.
Ignored ==
  /\ Directive /\ dir \notin Opens \cup Arms \cup {"endif"}
  /\ disabled \/ dir \notin {"define", "undef", "error", "include", "line"}
  /\ Past(nl) /\ UNCHANGED <<prog, macros, ifStack, disabled, msgs>>

\* A line number and perhaps a file name; without a number, a blank.
LineOf(e) == IF Numeral(Head1(e)) THEN Number(e[1]) ELSE 0
Renumber(line, t, next) ==
  IF line = 0 THEN Past(nl)
  ELSE /\ stack' = [stack EXCEPT ![1] =
                      [next EXCEPT !.name = IF Quoted(t) THEN Unquote(t) ELSE Spelled(b.path),
                                   !.ahead = line - next.line]]
       /\ out' = out \o <<lineMarker(line, IF Quoted(t) THEN Unquote(t) ELSE Spelled(b.path))>>
                     \o nls(whole.merged)
Named(e) == Renumber(LineOf(e), IF e = << >> THEN "" ELSE Head1(dropBlanks(Tail(e))),
                     AdvancedBuffer(whole.rest, whole.merged, b.inCmt))
doLine ==
  /\ Live /\ dir = "line"
  /\ Named(dropBlanks(expandLine(macros, here, operand, FALSE)))
  /\ UNCHANGED <<prog, macros, ifStack, disabled, msgs>>

(* ---- #include ---- *)

\* The files that "name" or <name> could be, the first being the one.
Search(name, angled) == SelectSeq(Candidates(prog.dirs, b.path, name, angled),
                                  LAMBDA p : Exists(prog.files, p))
Found(s) == CASE Head1(s) = "<" -> Search(s[2], TRUE)
              [] Quoted(Head1(s)) -> Search(Unquote(s[1]), FALSE)
              [] OTHER -> << >>
Target(s) == IF Head1(s) = "<" \/ Quoted(Head1(s)) THEN s
             ELSE dropBlanks(expandLine(macros, here, s, FALSE))
Including == Live /\ dir = "include"

\* ppBuffer of a file that is not open already, as the texts of the paths have
\* it: its lines come next.
Cyclic_self(p) == p = b.path
Cyclic(p) == p \in {stack[k].path : k \in DOMAIN stack}
Opened(ps) ==
  /\ ps # << >> /\ ~Cyclic(ps[1])
  /\ stack' = <<Buffer(ps[1], whole.merged),
                AdvancedBuffer(whole.rest, whole.merged, b.inCmt)>> \o Tail(stack)
  /\ out' = Append(out, lineMarker(1, Spelled(ps[1])))
  /\ UNCHANGED <<prog, macros, ifStack, disabled, msgs>>
Refused(ps) ==
  /\ ps # << >> /\ Cyclic(ps[1])
  /\ msgs' = Append(msgs, <<"cycle", Spelled(ps[1]), 1>>)
  /\ Past(lineMarker(b.line + 1, Spelled(b.path)))
  /\ UNCHANGED <<prog, macros, ifStack, disabled>>
Missing(ps) ==
  /\ ps = << >>
  /\ ppError("include")
  /\ Past(nl) /\ UNCHANGED <<prog, macros, ifStack, disabled>>
Include       == Including /\ Opened(Found(Target(operand)))
IncludeCycle  == Including /\ Refused(Found(Target(operand)))
CannotInclude == Including /\ Missing(Found(Target(operand)))

\* The lines of a buffer are read: its includer's line marker follows.
Resumed_at(line, n) == line
Resumed(line, n) == line - n
EndOfBuffer ==
  /\ stack # << >> /\ b.rest = << >>
  /\ stack' = Tail(stack)
  /\ out' = IF Len(stack) = 1 THEN out
            ELSE out \o <<lineMarker(Resumed(stack[2].line, b.merged), Spelled(stack[2].path))>>
                     \o nls(b.merged)
  /\ UNCHANGED <<prog, macros, ifStack, disabled, msgs>>

Conditional == If \/ Else \/ Elif \/ Endif \/ Unmatched
Next == \/ DeadLine \/ PlainLine \/ ExpandedLine
        \/ Conditional
        \/ doDefine \/ MissingName \/ Undef \/ Error \/ Ignored \/ doLine
        \/ Include \/ IncludeCycle \/ CannotInclude
        \/ EndOfBuffer
Spec == Init /\ [][Next]_vars

(* ---- properties ---- *)

Done == stack = << >>

TypeOK ==
  /\ \A k \in DOMAIN ifStack : ifStack[k] \in 0 .. 2
  /\ disabled = (\E k \in DOMAIN ifStack : ifStack[k] # 1)
  /\ \A k \in DOMAIN stack :
       /\ Exists(prog.files, stack[k].path)
       /\ Len(stack[k].rest) + stack[k].line = Len(Contents(prog.files, stack[k].path)) + 1

\* The tokens the lexer finds in the chunks: it drops the comments, which may
\* run over several chunks.
Lexed(chunks) ==
  LET Step(a, c) == IF c.k # "text" THEN a
                    ELSE [ts |-> a.ts \o Lex(Uncommented(c.s, a.inC)),
                          inC |-> lineParenDepth(c.s, 0, a.inC).inC]
  IN FoldLeft(Step, [ts |-> << >>, inC |-> FALSE], chunks).ts

\* The macros a C preprocessor begins with: the predefined ones, then what -D
\* and -U ask for.
CBegin ==
  LET Ts(s) == LET ts == LexSp(s) IN
               [k \in DOMAIN ts |-> [t |-> ts[k].t, sp |-> ts[k].sp, hs |-> {}, at |-> <<"", 0>>]]
      Define(d, m) == (m.name :> m) @@ d
      Step(d, o) == IF o.d = "U" THEN [n \in DOMAIN d \ {o.text[1]} |-> d[n]]
                    ELSE Define(d, CMacro(Ts(o.text)))
      texts == << <<"__STDC__", " ", "1">>, <<"__inline">>, <<"__attribute__", "(", "x", ")">> >>
      base  == FoldLeft(LAMBDA d, s : Define(d, CMacro(Ts(s))), << >>, texts)
  IN FoldLeft(Step, base, prog.opts)
C == CRun(prog.files, prog.dirs, prog.main, CBegin)

\* The unit the compiler goes on to parse has the tokens C99 gives it: the
\* shortcuts (lines that are not looked at, text in place of tokens, paint in
\* place of hide sets, a number for each open #if) never show.
OutputIsC == Done => Lexed(out) = C.out

\* The errors are those the standard asks for, each at its line and in order.
ErrorsAreC == Done => msgs = C.errs

\* Every line of text reaches the lexer under the file and line it was written
\* on, or the one #line gave it, whatever was merged, dropped or included.
LinesAreTrue ==
  LET Step(a, c) == CASE c.k = "mark" -> [a EXCEPT !.at = c.at]
                      [] c.k = "nl" -> [a EXCEPT !.at[2] = @ + 1]
                      [] c.k = "text" -> [a EXCEPT !.ok = @ /\ a.at = c.at]
  IN Done => FoldLeft(Step, [at |-> <<"", 0>>, ok |-> TRUE], out).ok

\* Including ends: a file is read twice at once only under two names, as it is
\* and as a file next to its includer; and the stacks are what the code takes
\* them for: three values per conditional, the cached stDisabled up to date,
\* each buffer inside its own file.  Not so where live #includes go
\* round and one of them spells its name with "./": each round's path is longer
\* than the last, none is open already, and including goes on (MCDots).
IncludingEnds ==
  /\ TypeOK
  /\ \A f \in DOMAIN prog.files : Cardinality({k \in DOMAIN stack : File(stack[k].path) = f}) <= 2
=============================================================================
