----------------------------- MODULE MCNames -----------------------------
(***************************************************************************)
(* The programs Names.tla is checked on: two units whose names are x, and  *)
(* a runtime.  Unit 1 declares x at file scope in some way, then defines a *)
(* function with two nested blocks that declare and use it.                *)
(***************************************************************************)
EXTENDS Names

Item(k, name, sc, init, params, body) ==
  [k |-> k, name |-> name, sc |-> sc, init |-> init, val |-> 0,
   params |-> params, body |-> body]
Func(name, sc, params, body) == Item("func", name, sc, TRUE, params, body)
Proto(name, sc)     == Item("proto", name, sc, FALSE, << >>, << >>)
Var(sc, init)       == Item("var", "x", sc, init, << >>, << >>)
Enum(v)             == [Item("enum", "x", "none", FALSE, << >>, << >>) EXCEPT !.val = v]

Tok(t, name, sc, init, val) == [t |-> t, name |-> name, sc |-> sc, init |-> init, val |-> val]
Open     == Tok("open", "", "", FALSE, 0)
Close    == Tok("close", "", "", FALSE, 0)
UseX     == Tok("use", "x", "", FALSE, 0)
Decl(sc, init) == Tok("decl", "x", sc, init, 0)
EnumTok(name, v) == Tok("enum", name, "", FALSE, v)

\* p = &x, at file scope.
Pointer == Item("var", "p", "static", TRUE, << >>, <<UseX>>)

Nothing == << >>
Locals  == {Nothing, <<Decl("auto", FALSE)>>, <<Decl("static", TRUE)>>}
Named   == {<<Tok("decl", "_", "auto", FALSE, 0)>>,
            <<EnumTok("e", 7), Tok("use", "e", "", FALSE, 0)>>}

\* A block with declarations a, a use or not, and an inner block with b.
Blocks(As, Bs, Uses) ==
  {<<Open>> \o a \o u \o <<Open>> \o b \o v \o <<Close>> \o w \o <<Close>> :
     a \in As, b \in Bs, u \in Uses, v \in Uses, w \in Uses}
Maybe == {Nothing, <<UseX>>}

Objects == {<<Var("none", FALSE)>>, <<Var("none", TRUE)>>, <<Var("extern", FALSE)>>,
            <<Var("static", TRUE)>>, <<Var("static", FALSE), Pointer>>,
            <<Var("extern", FALSE), Var("none", TRUE)>>,
            <<Var("none", FALSE), Var("none", TRUE), Var("none", FALSE)>>}
Functions == {<<Proto("x", "none")>>, <<Func("x", "none", << >>, << >>)>>,
              <<Func("x", "static", << >>, << >>)>>,
              <<Proto("x", "static"), Func("x", "none", << >>, << >>)>>}

Main(files, params, bodies) ==
  {f \o <<Func("f", "none", p, b)>> : f \in files, p \in params, b \in bodies}
Other(files, bodies) ==
  {f \o <<Func("g", "none", << >>, b)>> : f \in files, b \in bodies}

\* The runtime has a function x, which calls its own static h, and a caller.
NoRuntime == <<Func("h", "static", << >>, << >>)>>
Runtime == <<Func("h", "static", << >>, << >>),
             Func("x", "none", << >>, <<Open, Tok("use", "h", "", FALSE, 0), Close>>),
             Func("r", "none", << >>, <<Open, UseX, Close>>)>>

Whole(mains, others, rts) == {<<m, o, r>> : m \in mains, o \in others, r \in rts}
Uses1 == {<<Open, UseX, Close>>}

MCPrograms ==
  Whole(Main(Objects, {<< >>}, Blocks(Locals, Locals \cup Named, Maybe)),
        Other(Objects, Uses1), {NoRuntime})
  \cup Whole(Main(Objects, {<<"x">>}, Blocks({Nothing}, Locals, Maybe)),
             Other(Objects, Uses1), {NoRuntime})
  \cup Whole(Main(Functions, {<< >>, <<"x">>}, Blocks({Nothing}, Locals, Maybe)),
             Other(Functions, Uses1), {Runtime, NoRuntime})
  \cup Whole(Main({<<Enum(5)>>}, {<< >>}, Blocks(Locals, Locals, Maybe)),
             Other({Nothing}, {<<Open, Decl("auto", FALSE), UseX, Close>>}), {NoRuntime})

\* Programs C99 allows and the compiler gives another meaning: each set refutes
\* MeansWhatCSays in the place of MCPrograms.  The same enumerator in a function of each unit:
MCEnums == Whole(Main({Nothing}, {<< >>}, Blocks({<<EnumTok("x", 5)>>}, {Nothing}, Maybe)),
                 Other({Nothing}, {<<Open, EnumTok("x", 6), UseX, Close>>}), {NoRuntime})
\* an extern declaration in a block:
MCExtern == Whole(Main({<<Var("none", TRUE)>>}, {<< >>},
                       Blocks({<<Decl("extern", FALSE)>>}, {Nothing}, Maybe)),
                  Other({<<Var("extern", FALSE)>>}, Uses1), {NoRuntime})
\* a use of a file static before the declaration that shadows it:
MCLate == Whole(Main({<<Var("static", TRUE)>>}, {<< >>},
                     {<<Open, UseX, Decl("auto", FALSE), UseX, Close>>}),
                Other({<<Var("none", TRUE)>>}, Uses1), {NoRuntime})
=============================================================================
