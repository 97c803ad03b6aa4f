----------------------------- MODULE MCStatics -----------------------------
(* Small programs for Statics.tla: main, another function, two pointers. *)
EXTENDS Statics, TLC

\* A statement is what it is lowered to.
Str(l) == << <<"str", l>> >>
Set(a) == a \o << <<"assign", "q">> >>
CallF  == << <<"call", "f">> >>
\* One of two arms, with the labels i and j.
Choice(a, b, i, j) == << <<"branch", i>> >> \o a \o << <<"jump", j>>, <<"label", i>> >> \o b \o << <<"label", j>> >>

Literals == {Str(l) : l \in Literal}
Arms     == {Str("a"), << >>}
Uses     == {Str("b"), << <<"object", "t">> >>}
Choices(arms, i, j) == {Choice(a, b, i, j) : a, b \in arms}

\* main and f in either order, with or without initializers for p and q, and
\* storage for t.
Programs(mains, fs, inits) ==
  {[order |-> o, body |-> [f \in Function |-> IF f = Main THEN m ELSE x],
    aggs |-> <<"t">>, inits |-> << <<"place", "t">> >> \o i] :
     o \in {<<"main", "f">>, <<"f", "main">>}, m \in mains, x \in fs,
     i \in {<< >>} \cup {a \o << <<"init", "p">> >> \o b \o << <<"init", "q">> >> : a, b \in inits}}

\* main evaluates one expression, perhaps calls f on one branch, goes back to
\* the beginning or returns, and stores a pointer; f may return early.  The last
\* programs have no object, and no constructor.
MCProgram ==
  Programs({x \o y \o Set(z) :
              x \in Choices(Arms, 1, 2) \cup {Choice(CallF, a, 1, 2) : a \in Arms},
              y \in Literals \cup Choices(Uses, 3, 4), z \in Literals},
           Literals \cup {Choice(a, b \o << <<"return", Ctor>> >>, 1, 2) \o Str("b") : a, b \in Arms}, Uses)
  \cup Programs({<< <<"label", 1>> >> \o x \o Set(Str("a")) \o << <<"branch", 1>> >> \o y :
                   x \in Choices(Uses, 2, 3) \cup {CallF}, y \in Choices(Uses, 4, 5) \cup {CallF}},
                {<< <<"sizeof", "a">> >> \o Choice(Str("b"), Str("a"), 1, 2)}, {Str("b")})
  \cup {[p EXCEPT !.aggs = << >>, !.inits = << >>] :
          p \in Programs({Choice(CallF, a, 1, 2) \o Set(b) : a \in Arms, b \in Literals}, Literals, {})}

\* An initializer may be a conditional expression: this refutes PointersAreLive.
MCCondInit == Programs({Str("a")}, {Str("a")}, Literals \cup Choices(Arms, 1, 2))

\* A function may call main: this refutes InitializersRunFirst.
MCRecursive == Programs({Set(Str(l)) \o CallF : l \in Literal}, {<< <<"call", "main">> >>, << >>}, Literals)
=============================================================================
