------------------------------- MODULE MCText -------------------------------
(***************************************************************************)
(* Small instance: words of 8, 6, 4 and 3 bits, directives over every flag,*)
(* and texts of at most four characters to be read; memories of four       *)
(* cells for the string functions, and a few longer ones.                  *)
(***************************************************************************)
EXTENDS Text

Decimal(n) == Numeral(Digits(n, 10), FALSE)

\* A directive, written out: a width of 0 is none; star passes width and precision as arguments.
Written(d, star) ==
  <<"%">> \o SetToSeq(d.flags)
    \o (IF star THEN <<"*", ".", "*">>
        ELSE (IF d.width = 0 THEN << >> ELSE Decimal(d.width))
             \o (IF d.prec < 0 THEN << >> ELSE IF d.prec = 0 THEN <<".">> ELSE <<".">> \o Decimal(d.prec)))
    \o d.mods \o <<d.conv>>

DirectiveOf(flags, width, prec, mods, conv) ==
  [flags |-> flags, width |-> width, prec |-> prec, mods |-> mods, conv |-> conv]

\* What reads a directive's field: the value the directive leaves, in the widest type.
ReadBy(d) == IF d.conv = "X" THEN "x" ELSE IF d.conv = "p" THEN "x" ELSE d.conv
ReadBack(d, v) ==
  IF d.conv \in {"d", "i", "u", "x", "X", "o"}
  THEN [sfmt |-> <<"%", "l", "l", IF d.conv = "i" THEN "d" ELSE ReadBy(d)>>, back |-> <<WordArg(ToSigned(Value(d, v.word), LongLong))>>]
  ELSE IF d.conv = "s" /\ d.prec < 0 /\ v.text # << >>
  THEN [sfmt |-> <<"%", "s">>, back |-> <<v>>]
  ELSE [sfmt |-> << >>, back |-> << >>]

Case(f, as, d, v, s, b, ns) ==
  [fmt |-> f, args |-> as, printed |-> TRUE, input |-> << >>, d |-> d, value |-> v, sfmt |-> s, back |-> b,
   ns |-> ns, base |-> -1, unsigned |-> FALSE]

Prints(d, v) ==
  LET rb == ReadBack(d, v)
  IN  {Case(Written(d, FALSE), <<v>>, <<d>>, v, rb.sfmt, rb.back, 0)}

\* As arguments, a negative width is a - flag, a negative precision none.
Starred(d, v) ==
  Case(Written([d EXCEPT !.flags = @ \ {"-"}], TRUE),
       <<WordArg(IF "-" \in d.flags THEN -d.width ELSE d.width), WordArg(d.prec), v>>, <<d>>, v, << >>, << >>, 0)

Words == {-128, -33, -8, -1, 0, 5, 31, 127}
Mods == {<< >>, <<"h">>, <<"h", "h">>, <<"l">>, <<"l", "l">>, <<"z">>}

\* Excluded, where the code and C99 part: a zero with no digits asked for, and %#.5o.
Sensible(d, v) == ~(d.prec = 0 /\ Value(d, v) = 0) /\ ~(d.conv = "o" /\ "#" \in d.flags /\ d.prec >= 0)

IntegerCases ==
  UNION {Prints(DirectiveOf(f, w, pr, << >>, c), WordArg(v)) :
           <<f, w, pr, c, v>> \in {x \in (SUBSET {"-", "+", "0", "#"}) \X {0, 2, 5} \X {-1, 0, 3} \X {"d", "u", "x", "o"} \X {-8, 0, 5} :
               Sensible(DirectiveOf(x[1], x[2], x[3], << >>, x[4]), x[5])}}
  \cup UNION {Prints(DirectiveOf(f, 4, -1, m, c), WordArg(v)) :
           f \in {{}, {" ", "0"}}, m \in Mods, c \in {"i", "u", "X"}, v \in Words}
  \cup {Starred(DirectiveOf(f, w, pr, << >>, "d"), WordArg(v)) :
           f \in {{"0"}, {"-"}, {"-", "0"}}, w \in {1, 4}, pr \in {-1, 2}, v \in {-8, 5}}

TextCases ==
  UNION {Prints(DirectiveOf(f, w, pr, << >>, "s"), TextArg(t)) :
           f \in {{}, {"-"}}, w \in {0, 1, 4}, pr \in {-1, 0, 2}, t \in {<< >>, <<"a">>, <<"a", "b", "c">>}}
  \cup UNION {Prints(DirectiveOf(f, w, -1, << >>, "c"), TextArg(<<"x">>)) : f \in {{}, {"-"}}, w \in {0, 3}}
  \cup UNION {Prints(DirectiveOf({}, w, -1, << >>, "p"), WordArg(v)) : w \in {0, 4}, v \in {0, 127}}

Double(neg, exp, frac) == [neg |-> neg, exp |-> exp, frac |-> frac]
FloatCases ==
  UNION {Prints(DirectiveOf(f, w, pr, << >>, c), DoubleArg(Double(neg, x[1], x[2]))) :
           f \in {{}, {"0"}, {"-", "0"}, {"+", "#"}}, w \in {0, 7}, pr \in {-1, 0, 1}, c \in {"f", "F"}, neg \in BOOLEAN,
           x \in {<<3, 2>>, <<4, 0>>, <<7, 0>>, <<7, 1>>, <<0, 0>>}}

\* Several directives: text between them, %%, %n, a set, a suppressed field, and what C leaves undefined.
W(n) == WordArg(n)
T(t) == TextArg(t)
NoD == DirectiveOf({}, 0, -1, << >>, "d")
Line(f, as, s, b, ns) == Case(f, as, << >>, W(0), s, b, ns)
Lines == {
  Line(<<"a", "%", "d", ",", "%", "n", "%", "s">>, <<W(7), W(0), T(<<"x", "y">>)>>,
       <<"a", "%", "d", ",", "%", "n", "%", "s">>, <<W(7), W(3), T(<<"x", "y">>)>>, 1),
  Line(<<"%", "5", "d", "%", "%", "%", "c">>, <<W(-3), T(<<"q">>)>>,
       <<"%", "d", " ", "%", "%", "%", "c">>, <<W(-3), T(<<"q">>)>>, 0),
  Line(<<"%", "s", "=", "%", "x">>, <<T(<<"k", "e", "y">>), W(30)>>,
       <<"%", "[", "a", "-", "z", "]", "=", "%", "x">>, <<T(<<"k", "e", "y">>), W(30)>>, 0),
  Line(<<"%", "s", "]", "%", "s">>, <<T(<<"a", "b">>), T(<<"c">>)>>,
       <<"%", "[", "^", "]", "]", "%", "1", "[", "]", "]", "%", "s">>, <<T(<<"a", "b">>), T(<<"]">>), T(<<"c">>)>>, 0),
  Line(<<"%", "d", " ", "%", "d">>, <<W(1), W(2)>>, <<"%", "*", "d", "%", "d">>, <<W(2)>>, 0),
  Line(<<"%", "s">>, <<T(<<"a", "b", "c">>)>>, <<"%", "2", "s", "%", "2", "c">>, <<T(<<"a", "b">>)>>, 0),
  Line(<<"%", "s">>, <<T(<<"a", "b", "c">>)>>, <<"%", "2", "c", "%", "1", "s">>, <<T(<<"a", "b">>), T(<<"c">>)>>, 0),
  Line(<<"%", "h", "d">>, <<W(5)>>, <<"%", "h", "d", "%", "y">>, <<W(5)>>, 0),
  Line(<<"%", "y", "%">>, << >>, <<"%", "%", "y", "%", "%">>, << >>, 0),
  Line(<<"%", "s">>, <<T(Null)>>, <<"(", "%", "[", "a", "-", "z", "]">>, <<T(<<"n", "u", "l", "l">>)>>, 0),
  Line(<<"%", ".", "1", "f", " ", "%", "e">>, <<DoubleArg(Double(FALSE, 4, 2)), DoubleArg(Double(TRUE, 2, 1))>>,
       <<"%", "l", "f", "%", "l", "f">>, <<DoubleArg(Double(FALSE, 4, 2)), DoubleArg(Double(TRUE, 2, 1))>>, 0),
  Line(<<"%", "s", "%", "g">>, <<T(<<" ", "+">>), DoubleArg(Double(FALSE, 7, 0))>>,
       <<"%", "l", "g", "%", "f">>, <<DoubleArg(Double(FALSE, 7, 0))>>, 0)}

\* Texts to read an integer from.
Alphabet == {" ", "-", "0", "1", "9", "x", "a"}
Numerals == UNION {[1..n -> Alphabet] : n \in 0..3}
            \cup {<<a, b, c, d>> : a \in {" ", "-", "+"}, b \in {"0", "1"}, c \in {"x", "2", "7"}, d \in {"7", "8", "f", "g"}}
            \cup {<<a, "1", "2", b>> : a \in {"-", "+", "0"}, b \in {"7", "8", "9"}}
ReadCase(t, c) ==
  [fmt |-> << >>, args |-> << >>, printed |-> FALSE, input |-> t, d |-> << >>, value |-> W(0),
   sfmt |-> <<"%", c, "%", "n">>, back |-> << >>, ns |-> 0,
   base |-> CASE c = "d" -> 10 [] c = "i" -> 0 [] c = "u" -> 10 [] c = "x" -> 16 [] c = "o" -> 8,
   unsigned |-> c \in {"u", "x", "o"}]

Conversions == {"d", "i", "u", "x", "o"}

\* Excluded, where the code and C99 part: nothing but blanks, and 0x without a digit.
Blanks == {t \in Numerals : ToSet(t) \subseteq isspace}
IsBareHex(t) ==
  LET begin == Begin(t)
      i     == IF At(t, begin) \in {"+", "-"} THEN begin + 1 ELSE begin
  IN  At(t, i) = "0" /\ At(t, i + 1) = "x" /\ At(t, i + 2) \notin isxdigit
BareHex == {t \in Numerals : IsBareHex(t)}
MCBlank   == {ReadCase(t, c) : t \in Blanks, c \in Conversions}
MCBareHex == {ReadCase(t, c) : t \in BareHex, c \in {"i", "x"}}

ReadCases == {ReadCase(t, c) : t \in Numerals, c \in Conversions} \ (MCBlank \cup MCBareHex)
\* strtol and its kin alone, of those texts too.
StrtoCases == {[ReadCase(t, "d") EXCEPT !.sfmt = << >>] : t \in Blanks \cup BareHex}

MCCases == IntegerCases \cup TextCases \cup FloatCases \cup Lines \cup ReadCases \cup StrtoCases

MCCaps == {-1, 0, 1, 4, 30}

(* ---- the string functions ---- *)

\* Every memory of four cells, and longer ones to split, to search and to move by words.
MCMemories ==
  [1..4 -> {"nul", "a", "A"}] \cup {
    <<"a", "1", "2", "a", "a", "b", "nul", "b", "a", "nul">>, <<"b", "b", "nul", "a", "b", "a", "c", "b", "nul">>,
    <<"1", "2", "3", "4", "5", "6", "7">>, <<"b", "nul", "1", "b", "2", "nul">>, <<"a", "wide", "nul", "b", "A", "a">>, <<"c", "b", "nul", "c", "b", "c", "b", "nul">>}
=============================================================================
