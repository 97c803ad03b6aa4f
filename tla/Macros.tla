------------------------------- MODULE Macros -------------------------------
(***************************************************************************)
(* The macro table, macro expansion and the value of an #if condition of   *)
(* src/C99/Preprocess.hs.                                                  *)
(*                                                                         *)
(* A text is a sequence of pieces: an identifier, a run of digits, a       *)
(* string literal, one character of punctuation (`##' and the comment      *)
(* marks are one piece), or a blank.  The code works on characters, so     *)
(* pieces that are not kept apart by a blank may become one token when the *)
(* text is lexed: the blanks are what expansion is careful about.          *)
(* Character constants in a condition, and a `defined' that an expansion   *)
(* spells, are left out.                                                   *)
(***************************************************************************)
EXTENDS Integers, Sequences, FiniteSets, SequencesExt
LOCAL INSTANCE Bitwise

CONSTANT Width   \* bits of an Int64
ASSUME WidthAssumption == Width \in Nat /\ Width >= 2

(* ---- characters ---- *)

Digit  == {"0", "1", "2", "3", "4", "5", "6", "7", "8", "9"}
punct  == {"+", "-", "*", "/", "%", "<", "=", ">", "&", "|", "!", "^", "#", "."}
isIdentCont(c)  == c \notin punct \cup {" ", "(", ")", ",", ";", "?", ":", "~", "\""}
isIdentStart(c) == isIdentCont(c) /\ c \notin Digit

First(t) == SubSeq(t, 1, 1)
Final(t) == SubSeq(t, Len(t), Len(t))
Word(t)  == isIdentStart(First(t))

\* Would these two characters lex as one token if they met?
fuses(a, b) == \/ isIdentCont(a) /\ isIdentCont(b)
               \/ a \in Digit /\ b = "."
               \/ a = "." /\ b \in Digit
               \/ a \in punct /\ b \in punct

dropBlanks(s) == LET k == SelectInSeq(s, LAMBDA t : t # " ")
                 IN  IF k = 0 THEN << >> ELSE SubSeq(s, k, Len(s))
trimEnd(s) == SubSeq(s, 1, SelectLastInSeq(s, LAMBDA t : t # " "))
Head1(s)   == IF s = << >> THEN "" ELSE s[1]
Starts(s, t) == Head1(dropBlanks(s)) = t
\* readIdent's identifier, or nothing.
Ident(s) == IF s # << >> /\ Word(s[1]) THEN s[1] ELSE ""

\* Two texts side by side; an identifier runs on into what continues it.
Beside(a, b) ==
  IF a # << >> /\ b # << >> /\ Word(Last(a)) /\ isIdentCont(First(b[1]))
  THEN Front(a) \o <<Last(a) \o b[1]>> \o Tail(b)
  ELSE a \o b

(* ---- comments and parentheses ---- *)

\* Walks a line: the depth of parentheses, whether it ends in a block comment,
\* and where a line comment starts, or 0.
lineParenDepth(s, d0, inC0) ==
  LET Step(a, k) ==
        IF a.cut # 0 THEN a
        ELSE IF a.inC THEN [a EXCEPT !.inC = s[k] # "*/"]
        ELSE [a EXCEPT !.cut = IF s[k] = "//" THEN k ELSE 0,
                       !.inC = s[k] = "/*",
                       !.d = @ + (CASE s[k] = "(" -> 1 [] s[k] = ")" -> -1 [] OTHER -> 0)]
  IN FoldLeft(Step, [d |-> d0, inC |-> inC0, cut |-> 0], [k \in DOMAIN s |-> k])
endsInComment(s) == lineParenDepth(s, 0, FALSE).inC

\* Each comment becomes one blank; the line may begin in a comment.
Uncommented(s, inC0) ==
  LET Step(a, t) ==
        IF a.cut THEN a
        ELSE IF a.inC THEN [a EXCEPT !.inC = t # "*/"]
        ELSE [cut |-> t = "//", inC |-> t = "/*",
              s |-> Append(a.s, IF t \in {"//", "/*"} THEN " " ELSE t)]
  IN FoldLeft(Step, [s |-> << >>, inC |-> inC0, cut |-> FALSE], s).s
stripComments(s) == Uncommented(s, FALSE)
PastComment(s) == LET k == SelectInSeq(s, LAMBDA t : t = "*/") IN IF k = 0 THEN Len(s) ELSE k

(* ---- the table ---- *)

\* tabNames holds every name that might expand, for the quick look at a line.
emptyTable == [user |-> << >>, pre |-> << >>, names |-> {"__LINE__", "__FILE__"}]

Known(tbl, n)     == n \in DOMAIN tbl.user \cup DOMAIN tbl.pre
macroFind(tbl, n) == IF n \in DOMAIN tbl.user THEN tbl.user[n] ELSE tbl.pre[n]

macroDefine_unnamed(tbl, m) ==
  IF m.predef THEN [tbl EXCEPT !.pre = (m.name :> m) @@ @]
              ELSE [tbl EXCEPT !.user = (m.name :> m) @@ @]
macroDefine(tbl, m) == [macroDefine_unnamed(tbl, m) EXCEPT !.names = @ \cup {m.name}]

\* A predefined macro survives, and a name stays in tabNames.
macroUndef(tbl, n) == [tbl EXCEPT !.user = [x \in DOMAIN @ \ {n} |-> @[x]]]

\* The macro that the text after #define defines.
parseDefine(text) ==
  LET s     == dropBlanks(stripComments(text))
      fn    == Len(s) > 1 /\ s[2] = "("
      close == SelectInSeq(s, LAMBDA t : t = ")")
      inner == IF fn THEN SubSeq(s, 3, close - 1) ELSE << >>
  IN [name |-> Ident(s), fn |-> fn, va |-> "..." \in ToSet(inner),
      params |-> SelectSeq(inner, Word), predef |-> FALSE,
      body |-> trimEnd(dropBlanks(SubSeq(s, (IF fn THEN close ELSE 1) + 1, Len(s))))]

(* ---- arguments ---- *)

\* The arguments of a call, from after its `(', and the text after its `)'.
\* A parenthesis in a comment counts.
Outermost(s) ==
  LET Depth(k) == Cardinality({j \in 1 .. k - 1 : s[j] = "("})
                - Cardinality({j \in 1 .. k - 1 : s[j] = ")"})
  IN SelectSeq([k \in DOMAIN s |-> k], LAMBDA k : Depth(k) = 0)
CutAt(s, cuts) == [n \in 1 .. Len(cuts) - 1 |-> dropBlanks(SubSeq(s, cuts[n] + 1, cuts[n + 1] - 1))]
scanArgs(s) ==
  LET Upto(outer, close) ==
        [args |-> IF close = 1 THEN << >>
                  ELSE CutAt(s, <<0>> \o SelectSeq(outer, LAMBDA k : k < close /\ s[k] = ",") \o <<close>>),
         rest |-> SubSeq(s, close + 1, Len(s))]
      Ended(outer, ends) == Upto(outer, IF ends = << >> THEN Len(s) + 1 ELSE ends[1])
      Scanned(outer) == Ended(outer, SelectSeq(outer, LAMBDA k : s[k] = ")"))
  IN Scanned(Outermost(s))

paramIndex(m, t) == SelectInSeq(m.params, LAMBDA x : x = t)
Joined(as) == FlattenSeq([n \in 1 .. 2 * Len(as) - 1 |->
                            IF n % 2 = 1 THEN as[(n + 1) \div 2] ELSE <<",">>])
stringifyArg(s) == "\"" \o FoldLeft(LAMBDA a, t : a \o t, "", s) \o "\""

(* ---- substitution ---- *)

\* Substitution takes no notice of quotes: it walks a string literal as it does
\* everything else, and what is between two quotes then is a literal again.
Quoted(t)  == First(t \o " ") = "\""
Unquote(t) == SubSeq(t, 2, Len(t) - 1)
Characters(s) ==
  LET pieces == FlattenSeq([k \in DOMAIN s |->
                  IF Quoted(s[k]) THEN <<"\"", Unquote(s[k]), "\"">> ELSE <<s[k]>>])
  IN SelectSeq(pieces, LAMBDA t : t # "")
Literals(s) ==
  LET Step(a, t) == IF a.in THEN [s |-> Front(a.s) \o <<Last(a.s) \o t>>, in |-> t # "\""]
                    ELSE [s |-> Append(a.s, t), in |-> t = "\""]
  IN FoldLeft(Step, [s |-> << >>, in |-> FALSE], s).s

\* Put an argument into the text: with a blank before it where the two would
\* fuse, unless ## (fu) asks for that.  sp says that an argument came last.
splice_bare(a, txt) == [acc |-> Beside(a.acc, txt), sp |-> TRUE, fu |-> FALSE, hash |-> FALSE, skip |-> FALSE]
splice(a, txt) ==
  LET gap == a.acc # << >> /\ txt # << >> /\ ~a.fu /\ fuses(Final(Last(a.acc)), First(txt[1]))
  IN splice_bare(IF gap THEN [a EXCEPT !.acc = Append(@, " ")] ELSE a, txt)

\* A piece of the body, as it was written.
Written(a, t) ==
  LET gap == ~Word(t) /\ a.sp /\ a.acc # << >> /\ fuses(Final(Last(a.acc)), First(t))
  IN [acc |-> Beside(a.acc, IF gap THEN <<" ", t>> ELSE <<t>>),
      sp |-> FALSE, fu |-> FALSE, hash |-> FALSE, skip |-> FALSE]

\* subst: the body with the arguments, as the caller wrote them, in place of
\* the parameters.
subst(m, args) ==
  LET Arg(t)  == paramIndex(m, t) \in DOMAIN args
      arg(t)  == Characters(args[paramIndex(m, t)])
      Step(a, t) ==
        CASE t = " " /\ a.skip -> a
          [] t = "##" -> [acc |-> trimEnd(a.acc), sp |-> FALSE, fu |-> TRUE, hash |-> FALSE, skip |-> TRUE]
          [] t = "#" -> [a EXCEPT !.hash = TRUE, !.skip = TRUE]
          [] t # "#" /\ t # "##" /\ a.hash ->
               IF Arg(t) THEN splice(a, Characters(<<stringifyArg(args[paramIndex(m, t)])>>))
               ELSE IF Word(t) THEN splice_bare(a, << >>)
               ELSE Written([a EXCEPT !.sp = TRUE], t)
          [] t \notin {"#", "##"} /\ ~(t = " " /\ a.skip) /\ ~a.hash ->
               IF Arg(t) THEN splice(a, arg(t))
               ELSE IF m.va /\ t = "__VA_ARGS__"
               THEN splice(a, Characters(Joined(SubSeq(args, Len(m.params) + 1, Len(args)))))
               ELSE Written(a, t)
  IN Literals(FoldLeft(Step, [acc |-> << >>, sp |-> FALSE, fu |-> FALSE, hash |-> FALSE, skip |-> FALSE],
                       Characters(m.body)).acc)

(* ---- expansion ---- *)

\* A replacement that is one function-like name, with its arguments waiting.
pendingCall(active, tbl, ex, rest) ==
  LET n == Ident(dropBlanks(ex)) IN
  /\ trimEnd(dropBlanks(ex)) = <<n>>
  /\ n \notin active
  /\ Known(tbl, n) /\ macroFind(tbl, n).fn
  /\ Starts(rest, "(")

\* (That a text naming no macro is returned at once changes nothing, and is
\* left out.)  Expand a text at a place <<path, line>>, but no name in active, the macros
\* whose replacement it is (blue paint).
RECURSIVE expand(_, _, _, _)
expand(active, tbl, at, s) ==
  LET go(t) == expand(active, tbl, at, t)
      substMacro(i, args) == expand(active \cup {i}, tbl, at, subst(macroFind(tbl, i), args))
      Rescanned(ex, rest) ==
        IF pendingCall(active, tbl, ex, rest)
        THEN go(<<Ident(dropBlanks(ex))>> \o rest) ELSE ex \o go(rest)
      Called(i, call) == Rescanned(substMacro(i, call.args), call.rest)
      Ordinary(i, r) ==
        IF i \in active \/ ~Known(tbl, i) THEN <<i>> \o go(r)
        ELSE IF ~macroFind(tbl, i).fn THEN substMacro(i, << >>) \o go(r)
        ELSE IF Starts(r, "(") THEN Called(i, scanArgs(Tail(dropBlanks(r))))
        ELSE <<i>> \o go(r)
      Comment(k) == SubSeq(s, 1, k) \o go(SubSeq(s, k + 1, Len(s)))
  IN CASE s = << >> -> s
       [] Head1(s) = "//" -> s
       [] Head1(s) = "/*" -> Comment(PastComment(s))
       [] Head1(s) = "__FILE__" -> <<"\"" \o at[1] \o "\"">> \o go(Tail(s))
       [] Head1(s) = "__LINE__" -> <<ToString(at[2])>> \o go(Tail(s))
       [] s # << >> /\ s[1] \notin {"//", "/*", "__FILE__", "__LINE__"} -> Ordinary(s[1], Tail(s))

\* A line; one that begins inside a comment keeps what is left of it.
expandLine(tbl, at, s, startInComment) ==
  LET k == IF startInComment THEN PastComment(s) ELSE 0
  IN  SubSeq(s, 1, k) \o expand({}, tbl, at, SubSeq(s, k + 1, Len(s)))

(* ---- defined, in an #if ---- *)

\* defined X and defined(X) are answered before expansion reaches them.
RECURSIVE resolveDefined(_, _)
resolveDefined(tbl, s) ==
  LET Answer(n, paren) ==
        <<IF Known(tbl, Ident(n)) THEN "1" ELSE "0">>
          \o resolveDefined(tbl, LET past == IF Ident(n) = "" THEN n ELSE Tail(n) IN
                                 IF paren /\ Starts(past, ")") THEN Tail(dropBlanks(past)) ELSE past)
      Operand(r) == IF Head1(r) = "(" THEN Answer(dropBlanks(Tail(r)), TRUE) ELSE Answer(r, FALSE)
  IN IF s = << >> THEN s
     ELSE IF s[1] = "defined" THEN Operand(dropBlanks(Tail(s)))
     ELSE <<s[1]>> \o resolveDefined(tbl, Tail(s))

(* ---- tokens ---- *)

TwoCharacters == {"++", "--", "->", "<<", ">>", "<=", ">=", "==", "!=", "&&", "||", "+=", "-="}

\* How C tokenizes a text: what stands together is one token if it can be.
\* sp: a blank came before; k: where in s the token begins.
LexSp(s) ==
  LET Joins(a, t) == /\ ~a.sp /\ a.ts # << >>
                     /\ LET p == Last(a.ts).t IN
                          \/ isIdentCont(Final(p)) /\ isIdentCont(First(t))
                          \/ p \o t \in TwoCharacters
      Step(a, t) ==
        IF t = " " THEN [a EXCEPT !.sp = TRUE, !.k = @ + 1]
        ELSE IF Joins(a, t) THEN [a EXCEPT !.ts[Len(a.ts)].t = @ \o t, !.k = @ + 1]
        ELSE [ts |-> Append(a.ts, [t |-> t, sp |-> a.sp, k |-> a.k]), sp |-> FALSE, k |-> a.k + 1]
  IN FoldLeft(Step, [ts |-> << >>, sp |-> FALSE, k |-> 1], s).ts
Lex(s) == LET ts == LexSp(s) IN [k \in DOMAIN ts |-> ts[k].t]

(* ---- arithmetic ---- *)

Wrap(v) == LET n == v % (2 ^ Width) IN IF n < 2 ^ (Width - 1) THEN n ELSE n - 2 ^ Width
Bits(v) == v % (2 ^ Width)
clamp(n) == IF n < 0 THEN 0 ELSE IF n > Width THEN Width ELSE n
Abs(n)  == IF n < 0 THEN -n ELSE n
quot(a, b) == (IF (a < 0) = (b < 0) THEN 1 ELSE -1) * (Abs(a) \div Abs(b))
bool(b) == IF b THEN 1 ELSE 0

\* A binary operator; nothing is short-circuited, and x / 0 is 0.  The least
\* Int64 divided by -1 has no value: Haskell's quot throws.
Apply(op, a, b) ==
  CASE op = "||" -> bool(a # 0 \/ b # 0)
    [] op = "&&" -> bool(a # 0 /\ b # 0)
    [] op = "|" -> Wrap(Bits(a) | Bits(b))
    [] op = "^" -> Wrap(Bits(a) ^^ Bits(b))
    [] op = "&" -> Wrap(Bits(a) & Bits(b))
    [] op = "==" -> bool(a = b)
    [] op = "!=" -> bool(a # b)
    [] op = "<=" -> bool(a <= b)
    [] op = ">=" -> bool(a >= b)
    [] op = "<" -> bool(a < b)
    [] op = ">" -> bool(a > b)
    [] op = "<<" -> Wrap(a * 2 ^ clamp(b))
    [] op = ">>" -> a \div 2 ^ clamp(b)
    [] op = "+" -> Wrap(a + b)
    [] op = "-" -> Wrap(a - b)
    [] op = "*" -> Wrap(a * b)
    [] op = "/" /\ ~(a = -(2 ^ (Width - 1)) /\ b = -1) -> IF b = 0 THEN 0 ELSE quot(a, b)
    [] op = "%" -> IF b = 0 THEN 0 ELSE a - b * quot(a, b)

Number(t) == CHOOSE n \in 0 .. 99 : ToString(n) = t
Numeral(t) == t # "" /\ First(t) \in Digit

(* ---- the value of a condition: eCond .. ePrimary ---- *)

\* eOr .. eMul, loosest first.
Levels == <<{"||"}, {"&&"}, {"|"}, {"^"}, {"&"}, {"==", "!="}, {"<=", ">=", "<", ">"},
            {"<<", ">>"}, {"+", "-"}, {"*", "/", "%"}>>

\* A name that expansion left, the name of a macro being one it was inside of.
macroValue(tbl, n) ==
  IF Known(tbl, n) /\ ~macroFind(tbl, n).fn /\ Numeral(Head1(macroFind(tbl, n).body))
  THEN Number(macroFind(tbl, n).body[1]) ELSE 0

dropTok(s, t) == IF Head1(s) = t THEN Tail(s) ELSE s
Rest(v, s)    == [v |-> v, s |-> s]

RECURSIVE eCond(_, _), eLevel(_, _, _), eLoop(_, _, _), ePrimary(_, _)

\* eOr, eAnd, .. eMul: level k, from the left.
eLoop(tbl, k, e) ==
  IF Head1(e.s) \in Levels[k]
  THEN LET r == eLevel(tbl, k + 1, Tail(e.s)) IN eLoop(tbl, k, Rest(Apply(e.s[1], e.v, r.v), r.s))
  ELSE e
eLevel(tbl, k, s) ==
  IF k > Len(Levels) THEN ePrimary(tbl, s) ELSE eLoop(tbl, k, eLevel(tbl, k + 1, s))

eCond(tbl, s) ==
  LET Chosen(c, t, f) == Rest(IF c # 0 THEN t ELSE f.v, f.s)
      Arms(c, t) == Chosen(c, t.v, eCond(tbl, dropTok(t.s, ":")))
      Asked(c) == IF Head1(c.s) = "?" THEN Arms(c.v, eCond(tbl, Tail(c.s))) ELSE c
  IN Asked(eLevel(tbl, 1, s))

ePrimary(tbl, s) ==
  LET Paren(e) == Rest(e.v, dropTok(e.s, ")"))
      Unary(op, p) == Rest(CASE op = "!" -> bool(p.v = 0)
                             [] op = "~" -> Wrap(-p.v - 1)
                             [] op = "+" -> p.v
                             [] op = "-" -> Wrap(-p.v), p.s)
  IN CASE Head1(s) = "(" -> Paren(eCond(tbl, Tail(s)))
       [] Head1(s) \in {"!", "~", "+", "-"} -> Unary(s[1], ePrimary(tbl, Tail(s)))
       [] Numeral(Head1(s)) -> Rest(Number(s[1]), Tail(s))
       [] s # << >> /\ Word(Head1(s)) -> Rest(macroValue(tbl, s[1]), Tail(s))
       [] OTHER -> Rest(0, s)

evalExpr(tbl, s) == eCond(tbl, Lex(s)).v

\* C99 6.10.1p4's order: comments, defined, expansion, evaluation.
ifCondition(tbl, at, s) ==
  evalExpr(tbl, expandLine(tbl, at, resolveDefined(tbl, stripComments(s)), FALSE)) # 0
=============================================================================
