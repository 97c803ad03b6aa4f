---------------------------- MODULE MCPreprocess ----------------------------
(***************************************************************************)
(* The programs Preprocess.tla is checked on.  A line is a sequence of     *)
(* pieces; B is a blank.                                                   *)
(***************************************************************************)
EXTENDS Preprocess

Def(s)   == <<"#", "define", " ">> \o s
Undefine(n) == <<"#", "undef", " ", n>>
Dir0(d)  == <<"#", d>>
Dir1(d, s) == <<"#", d, " ">> \o s
Call(f, args) == <<f, "(">> \o args \o <<")">>

M == <<"", "m">>
Unit(lines) == [files |-> <<".", "m">> :> lines, dirs |-> << >>, opts |-> << >>, main |-> M]

(* ---- conditionals: A is defined, or not, along the way ---- *)

T      == <<"A", " ", "x">>
Conds  == {Dir1("ifdef", <<"A">>), Dir1("ifndef", <<"A">>), Dir1("if", <<"A">>),
           Dir1("if", <<"!", "defined", "(", "A", ")">>)}
Elifs  == {Dir1("elif", <<"A", " ", "==", " ", "1">>), Dir1("elif", <<"!", "A">>)}
Leaves == {<<T>>, <<Def(<<"A", " ", "1">>), T>>, <<Undefine("A")>>, <<Dir0("error"), T>>}
Inner  == Leaves \cup {<<c, T, Dir0("else"), <<"A">>, Dir0("endif")>> : c \in Conds}
Arms1  == {<< >>} \cup {<<Dir0("else")>> \o i : i \in Inner}
            \cup {<<e>> \o i : e \in Elifs, i \in Inner}
            \cup {<<e>> \o i \o <<f, T>> : e \in Elifs, i \in Leaves, f \in Elifs \cup {Dir0("else")}}
Conditionals ==
  {Unit(p \o <<c>> \o i \o a \o <<Dir0("endif"), T>>) :
     p \in {<< >>, <<Def(<<"A", " ", "1">>)>>}, c \in Conds, i \in Inner, a \in Arms1}

\* An arm's directive with no #if is reported and passed over.
Strays == {Unit(<<T, Dir0(d), T, Dir1("if", <<"0">>), Dir0("pragma"), Dir0("endif"), Dir0(e), T>>) :
             d \in {"else", "endif", "define"}, e \in {"pragma", "endif", "else"}}

(* ---- replacement ---- *)

Objects == {<<"M">>, <<"M", " ", "x">>, <<"M", " ", "N", " ", "1">>, <<"M", " ", "(", "N", ")">>,
            <<"M", " ", "M", " ", "y">>, <<"N", " ", "M">>, <<"N", " ", "f">>}
F(body)   == Call("f", <<"a">>) \o <<" ">> \o body
Rest2     == <<"a", ",", " ", "b">>
RestV     == <<"a", ",", " ", "...">>
G(params, body) == Call("g", params) \o <<" ">> \o body
FPlain == {F(body) : body \in
             {<<"a">>, <<"(", "a", ")", "+", "a">>, <<"a", "+">>, <<"+", "a">>, <<"f", "(", "a", ")">>,
              <<"#", "a">>, <<"M", " ", "a">>, <<"#", "a", " ", "a", "\"s\"">>}}
FPaste == {F(body) : body \in {<<"a", " ", "##", " ", "1">>, <<"x", "##", "a">>, <<"a", "##", "a", "+">>}}
GPlain == {G(Rest2, body) : body \in
             {<<"a", "##", "b">>, <<"a", " ", "##", " ", "b", "+">>, <<"a", " ", "b">>, <<"b", " ", "a">>}}
GNested == {G(Rest2, <<"f", "(", "a", ")", " ", "b">>),
            G(RestV, <<"f", "(", "__VA_ARGS__", ")", " ", "a">>), G(RestV, <<"a", " ", "__VA_ARGS__">>)}
Words  == {<<"1">>, <<"x">>, <<"M">>}
Signs  == {<<"+">>, <<"-", "1">>, <<"(", "1", ",", " ", "2", ")">>}
Pairs  == {<<"1", ",", "2">>, <<"x", ",", " ", "y">>}
Empties == {<<"+", ",", "+">>, <<"+", ",">>, <<"f", ",">>}
FUses  == {Call("f", p) : p \in Words} \cup
          {<<"M", " ", "f", " ", "M">>, <<"f", " ", "(", "1", ")">>, <<"N">>, <<"M", " ", "/*">>}
Expand(Fs, Gs, Uses) ==
  {Unit(<<Def(o), Def(fn), Def(g), u \o <<";">>, Dir0("pragma"), <<"*/", "M">> >>) :
     o \in Objects, fn \in Fs, g \in Gs, u \in Uses}
Expansions ==
  Expand(FPlain \cup FPaste, GPlain \cup GNested, FUses \cup {Call("g", p) : p \in Pairs})
  \cup Expand(FPlain, GPlain, {Call("f", p) : p \in Signs} \cup {Call("g", p) : p \in Empties}
                               \cup {Call("g", <<"f", ",">>) \o <<"(", "1", ")">>})

\* A name that a paste spells, called, and one that another name stands for.
Cat  == <<Def(Call("c", Rest2) \o <<" ", "a", "##", "b">>),
          Def(Call("d", Rest2) \o <<" ">> \o Call("c", Rest2)),
          Def(Call("f", <<"a">>) \o <<" ", "a", "+", "a">>), Def(Call("fx", <<"a">>) \o <<" ", "-", "a">>),
          Def(<<"e", " ", "c">>)>>
CatUses(k) == {Unit(Cat \o <<Call(k, p \o <<",">> \o q) \o t, <<"f", " ", "x">> >>) :
                 p \in {<<"f">>, <<"x">>, << >>}, q \in {<<"x">>, << >>},
                 t \in {<< >>, <<"(", "1", ")">>, <<" ", "(", "x", ")", "(", "2", ")">>, <<"+">>}}
Cats    == CatUses("c") \cup CatUses("d")

(* ---- lines: calls, comments and directives that run on ---- *)

Heads == <<Def(Call("f", Rest2) \o <<" ", "b", " ", "a">>), Def(<<"A", " ", "1", " ", "/*">>),
           <<"x", " ", "*/", " ", "+", "2">>, <<"/*", "A">>, <<"*/">> >>
Commas == {<< <<",">> >>, << <<",", " ", "//", " ", "x">> >>, << <<",", " ", "/*">>, <<"*/">> >>,
           << <<"/*", " ", "A">>, <<"f", " ", "*/", " ", ",">>, <<"(", "1">>, <<")">> >>}
Calls == {Unit(Heads \o <<p \o <<"f", "(", "A">>>> \o g \o k \o <<e, <<"A", " ", "*/", "__LINE__">> >>) :
            p \in {<< >>, <<"A", " ">>, <<"(", ")", " ">>},
            g \in {<< >>, << << >> >>, << <<"//">> >>}, k \in Commas,
            e \in {<<"A", ")", " ", "A", "/*">>, <<"y", ")", "(", ")", "/*">>, <<"x", ")", ";", " ", "/*", " ", "A">>}}

Lines == {<<"A", " ", "__LINE__">>, <<"/*", " ", "A">>, <<"*/", " ", "A">>, <<"//", " ", "/*", " ", "(">>,
          Def(<<"A", " ", "(", "/*">>), Def(<<"A", " ", "//", "2">>), Undefine("A"), Dir0("line"),
          Dir1("line", <<"7", " ", "\"h\"">>)}
Runs == {Unit(p \o <<a, c, d, <<"A", " ", "*/", " ", "A">>, <<"A">> >>) :
           p \in {<<Def(<<"A", " ", "1">>)>>}, a \in Lines, c \in Lines, d \in Lines}

(* ---- the value of a condition ---- *)

Operators == UNION {Levels[k] : k \in DOMAIN Levels}
B(op)   == IF Len(op) = 1 THEN <<" ", op, " ">> ELSE <<" ", First(op), Final(op), " ">>
Values  == {<<"0", "1", "3">>, <<"3", "1", "2">>, <<"1", "0", "V">>, <<"2", "2", "u">>, <<"3", "2", "1">>}
Three(v, o, p) == {<<v[1]>> \o B(o) \o <<v[2]>> \o B(p) \o <<v[3]>>}
Exprs ==
  UNION {Three(v, o, p) : v \in Values, o \in Operators, p \in Operators}
  \cup {<<"(", v[1]>> \o B(o) \o <<v[2], ")">> \o B("*") \o <<v[3]>> : v \in Values, o \in Operators}
  \cup {<<u, v[1]>> \o B(o) \o <<u, "defined", "(", "V", ")">> :
          v \in Values, o \in Operators, u \in {"-", "!", "~", "+"}}
  \cup {<<v[1], "?", v[2], ":", v[3]>> \o B(o) \o <<"1", "?", "0", ":", "V">> : v \in Values, o \in Operators}
  \cup {<<v[1], "?", v[2]>> \o B(o) \o <<v[3], "?", "0", ":", "1", ":", "2">> : v \in Values, o \in Operators}
Conditions == {Unit(<<Def(<<"V", " ", "(", "1", " ", "+", "1", ")", " ", "//", "V">>), Dir1("if", x \o <<"/*", ")", "*/">>),
                   <<"V">>, Dir0("endif")>>) : x \in Exprs}

(* ---- files ---- *)

Inc(s)  == Dir1("include", s)
H(n)    == <<".", n>>
Guarded(lines) == <<Dir1("ifndef", <<"G">>), Def(<<"G">>)>> \o lines \o <<Dir0("endif")>>
Headers == {<< >>, <<T>>, Guarded(<<T, Def(<<"A", " ", "2">>)>>), <<Inc(<<"\"k\"">>), <<"__FILE__">>, Def(<<"A">>)>>,
            <<T, Inc(<<"\"h\"">>)>>, <<Inc(<<"\"m\"">>), T>>, <<Dir1("line", <<"5">>), T>>}
Keys == {<<Def(<<"A", " ", "3">>), T>>, <<Inc(<<"<", "h", ">">>)>>, <<Inc(<<"A">>)>>}
Includes ==
  {[files |-> H("m") :> <<i, T, Inc(<<"\"h\"", " ", "/*">>), <<"*/", " ", "x">>, j, T>>
              @@ (IF far THEN <<"d", "h">> ELSE H("h")) :> h @@ H("k") :> k,
    dirs |-> <<"d">>, opts |-> o, main |-> M] :
     i \in {Inc(<<"\"h\"">>), Inc(<<"<", "h", ">">>), Def(<<"A", " ", "\"k\"">>)},
     j \in {Inc(<<"A">>), Inc(<<"\"none\"">>), Inc(<<"\"k\"">>)},
     h \in Headers, k \in Keys, far \in BOOLEAN,
     o \in {<< >>, <<[d |-> "D", text |-> <<"A", " ", "\"h\"">>], [d |-> "U", text |-> <<"G">>]>>}}

\* Names that begin with "./".  m includes itself once, if at all.
Quotes(n) == {Inc(<<"\"" \o p \o n \o "\"">>) : p \in {"", "./"}}
Angles(n) == {Inc(<<"<", p \o n, ">">>) : p \in {"", "./"}}
Dotted ==
  {[files |-> H("m") :> Guarded(<<T, i, T>>) \o << <<"__FILE__">>, k, T>>
              @@ (IF far THEN <<"d", "h">> ELSE H("h")) :> <<T, j, <<"__FILE__">>, T>>
              @@ (IF far THEN <<"d", "k">> ELSE H("k")) :> <<l, <<"__FILE__", " ", "A">> >>,
    dirs |-> <<"d">>, opts |-> << >>, main |-> M] :
     i \in Quotes("h") \cup Angles("h") \cup Quotes("m"), k \in Quotes("k") \cup Angles("k"),
     j \in Quotes("k") \cup Angles("k") \cup Quotes("m") \cup {Inc(<<"\"h\"">>)},
     l \in {Def(<<"A", " ", "4">>), Inc(<<"\"k\"">>)}, far \in BOOLEAN}

\* The letter of a parameter in a literal.
LiteralUses ==
  {Unit(<<Def(F(body)), Call("f", p)>>) :
     p \in Words \cup {<<"1", " ", "+">>, <<"x", "-", "1">>, << >>},
     body \in {t \o u : t \in {<<"\"a\"">>, <<"a", " ", "\"a\"">>, <<"\"s\"", " ", "a">>, <<"#", "a", " ", "\"s\"">>},
                       u \in {<< >>, <<"+">>, <<" ", "a">>, <<"\"s\"">>, <<" ", "\"a\"">>}}}

(* ---- the runs ---- *)

MCPrograms == <<Conditionals, Strays, Expansions, Cats, Calls, Runs, Conditions, Includes, Dotted>>

\* e is another name for c: not a program of the passing run.
MCAlias == <<CatUses("e")>>

\* m includes itself as "./m": this refutes IncludingEnds.
MCDots == << {Unit(<<T, Inc(<<"\"./m\"">>), T>>)} >>

\* A string literal of a body holds a parameter's name: this refutes OutputIsC.
MCLiteral == <<LiteralUses>>
=============================================================================
