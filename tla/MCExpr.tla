-------------------------------- MODULE MCExpr --------------------------------
(***************************************************************************)
(* Programs for Expr, with bytes of two bits: char counts to 4, short to   *)
(* 16, int and long to 256, long long to 65536.                            *)
(***************************************************************************)
EXTENDS Expr

Un(op, e)      == [k |-> "un", op |-> op, e |-> e]
Post(op, e)    == [k |-> "post", op |-> op, e |-> e]
Bin(op, l, r)  == [k |-> "bin", op |-> op, l |-> l, r |-> r]
Asg(op, l, r)  == [k |-> "asg", op |-> op, l |-> l, r |-> r]
Index(l, r)    == [k |-> "index", l |-> l, r |-> r]
Dot(e, f)      == [k |-> "member", e |-> e, f |-> f, arrow |-> FALSE]
Arrow(e, f)    == [k |-> "member", e |-> e, f |-> f, arrow |-> TRUE]
Cast(t, e)     == [k |-> "cast", t |-> t, e |-> e]
Cond(c0, l, r) == [k |-> "cond", c |-> c0, l |-> l, r |-> r]
Comma(l, r)    == [k |-> "comma", l |-> l, r |-> r]
Sizeof(e)      == [k |-> "sizeof", e |-> e]
N(n)           == Lit(n, T("int"))

Variable(x, t, home, n) == [x |-> x, t |-> t, home |-> home, n |-> n]
Program(tags, xs, stmts) == [tags |-> tags, vars |-> xs, stmts |-> stmts]

x == Var("x")
y == Var("y")
r == Var("r")

Types  == {T(k) : k \in IntegerKinds}
Narrow == {t \in Types : typeIntRank(t) < 4}

\* The values at the ends of a type and around zero, and fewer of them.
Edges(t) == IF CSigned(t) THEN {Lowest(t), -1, 0, 1, Highest(t)} ELSE {0, 1, Highest(t)}
Few(t)   == IF CSigned(t) THEN {Lowest(t), -1, 1} ELSE {1, Highest(t)}
FewValues  == UNION {{<<t, n>> : n \in Few(t)} : t \in Types}
EdgeValues == UNION {{<<t, n>> : n \in Edges(t)} : t \in Types}

X(v, home) == Variable("x", v[1], home, v[2])
Y(v, home) == Variable("y", v[1], home, v[2])
R == Variable("r", T("llong"), "local", 0)      \* wide enough to show a sign
Homes == {"local", "global", "memory"}

Arithmetics == {"+", "-", "*", "/", "%", "&", "|", "^", "<<", ">>"}

\* x op y, of any two types.
MCOperators ==
  {Program(<<>>, <<X(v, "local"), Y(w, "local")>>, <<Bin(op, x, y)>>) :
     op \in Arithmetics \cup Comparisons, v \in FewValues, w \in FewValues}

\* r = (x op= y), x in a handle or in memory.  A shift by an unsigned count is
\* left to MCShifts.
SoundShift(t, u) == typeIsUnsigned(typePromote(t)) \/ ~typeIsUnsigned(typePromote(u))
MCUpdates ==
  {Program(<<>>, <<X(v, home), Y(w, "local"), R>>, <<Asg("=", r, Asg(op, x, y))>>) :
     op \in Arithmetics \ Shifts, home \in {"memory"}, v \in FewValues, w \in FewValues}
  \cup
  {Program(<<>>, <<X(v, home), Y(w, "local"), R>>, <<Asg("=", r, Asg(op, x, y))>>) :
     op \in Shifts, home \in {"global"}, v \in FewValues, w \in {u \in FewValues : ~typeIsUnsigned(typePromote(u[1]))}}

\* The same, with the counts left out above.
MCShifts ==
  {Program(<<>>, <<X(v, "local"), Y(w, "local"), R>>, <<Asg(op, x, y)>>) :
     op \in Shifts, v \in {<<T("int"), -8>>, <<T("short"), -2>>, <<T("uint"), 8>>},
     w \in {<<T("int"), 1>>, <<T("uint"), 1>>, <<T("ullong"), 1>>}}

\* Conversions, by assignment from and to every home and by cast, the unary
\* operators, and ++ and --.
MCConversions ==
  {Program(<<>>, <<X(v, h), Y(<<t, 0>>, k), R>>, <<e>>) :
     e \in {Asg("=", r, Asg("=", y, x)), Asg("=", y, Un("-", x))}, v \in EdgeValues, t \in Types,
     h \in Homes, k \in Homes}
  \cup
  {Program(<<>>, <<X(v, "local")>>, <<e>>) :
     v \in EdgeValues, e \in {Un(op, x) : op \in {"-", "+", "~", "!"}} \cup {Cast(t, x) : t \in Types}
                             \cup {Sizeof(x), Sizeof(Un("-", x)), Cast(T("llong"), Cast(T("int"), Cast(T("uint"), x)))}}
Wraps(v) == typeIntRank(v[1]) < 4 /\ v[2] \in {Lowest(v[1]), Highest(v[1])}
MCSteps ==
  {Program(<<>>, <<X(v, h), R>>, <<Asg("=", r, Post(op, x)), Asg("=", r, x)>>) :
     v \in {w \in EdgeValues : w[1].k # "bool"}, op \in {"++", "--"}, h \in Homes}
  \cup
  {Program(<<>>, <<X(v, h), R>>, <<Asg("=", r, Un(op, x)), Un(op, x)>>) :
     v \in {w \in EdgeValues : typeIntRank(w[1]) >= 4}, op \in {"++", "--"}, h \in Homes}
  \cup
  {Program(<<>>, <<X(v, h), R>>, <<Asg("=", r, Un(op, x))>>) :
     v \in {w \in EdgeValues : w[1].k # "bool" /\ ~Wraps(w)}, op \in {"++", "--"}, h \in Homes}

\* Sequence points, and the two arms of a conditional.
Flowing ==
  {Asg("=", r, Bin(op, x, Asg("=", y, N(2)))) : op \in {"&&", "||"}} \cup
  {Bin(op, Un("!", x), Post("++", y)) : op \in {"&&", "||"}} \cup
  {Un("!", Bin(op, x, Bin("&&", y, Asg("=", x, N(1))))) : op \in {"&&", "||"}} \cup
  {Comma(Post("++", x), Bin("+", x, y)), Comma(Asg("=", x, y), x),
   Cond(x, Post("++", y), Post("--", y)), Cond(Bin("<", x, y), Asg("=", r, x), Asg("+", r, y)),
   Asg("=", r, Bin("+", Comma(Asg("=", x, N(1)), x), y)), Bin("&&", Post("--", x), Bin("==", x, y)),
   Asg("=", x, Asg("-", y, N(1))), Asg("=", x, Post("++", y))}
MCFlows ==
  {Program(<<>>, <<Variable("x", T("int"), h, n), Variable("y", T("int"), k, i), R>>, <<e, f>>) :
     e \in Flowing, f \in Flowing, h \in {"local", "memory"}, k \in {"global", "memory"}, n \in {0, 1}, i \in {0, 1}}
  \cup
  {Program(<<>>, <<X(v, "local"), Y(w, "local"), Variable("z", T("int"), "local", n), R>>,
           <<Cond(Var("z"), x, y), Sizeof(Cond(Var("z"), x, y))>>) :
     v \in FewValues, w \in FewValues, n \in {0, 1}}
-----------------------------------------------------------------------------
Plain(f, t)   == [name |-> f, t |-> t, width |-> -1]
Bit(f, t, w)  == [name |-> f, t |-> t, width |-> w]
Nameless(w)   == [name |-> "", t |-> T("int"), width |-> w]
Tag(tag, union, members) == [tag |-> tag, isUnion |-> union, members |-> members]

Inner == Tag("I", FALSE, <<Plain("p", T("short")), Plain("q", T("int"))>>)
Kinds == {Plain("", T("char")), Plain("", T("short")), Plain("", T("int")), Plain("", T("llong")),
          Plain("", Ptr(T("int"))), Plain("", Array(T("short"), 3)), Plain("", Struct("I")),
          Bit("", T("int"), 3), Bit("", T("uint"), 5), Bit("", T("int"), 8), Nameless(0)}
Flexible == Plain("flex", Array(T("int"), 0))
FieldName(i) == <<"f1", "f2", "f3", "f4">>[i]
Lettered(ms) == [i \in DOMAIN ms |-> [ms[i] EXCEPT !.name = IF ms[i].width = 0 THEN "" ELSE FieldName(i)]]

\* Structs and unions of up to four members, and of three and a flexible array.
MCLayouts ==
  {Program(<<Inner, Tag("S", union, Lettered(ms))>>, <<>>, <<>>) :
     union \in BOOLEAN, ms \in UNION {[1 .. n -> Kinds] : n \in 1 .. 3}}
  \cup
  {Program(<<Inner, Tag("S", FALSE, Append(Lettered(ms), Flexible))>>, <<>>, <<>>) : ms \in [1 .. 3 -> Kinds]}

\* Bit-fields written in any order beside each other and beside plain members.
Fields ==
  { <<Bit("a", T("int"), 3), Bit("b", T("uint"), 5), Plain("d", T("char"))>>,
    <<Plain("d", T("char")), Bit("a", T("int"), 5), Bit("b", T("uint"), 4)>>,
    <<Bit("a", T("int"), 2), Nameless(0), Bit("b", T("uint"), 3), Plain("d", T("short"))>>,
    <<Bit("b", T("uchar"), 2), Bit("d", T("bool"), 1), Bit("a", T("schar"), 2)>>,
    <<Plain("d", T("llong")), Bit("b", T("uint"), 8), Bit("a", T("enum"), 4)>> }
Member0(f) == Dot(Var("s"), f)
Writes ==
  {Asg("=", Member0(f), N(n)) : f \in {"a", "b"}, n \in {-1, 5, 18}} \cup
  {Asg("=", Member0("d"), N(n)) : n \in {0, 1}} \cup
  {Asg(op, Member0(f), N(3)) : f \in {"a", "b"}, op \in {"+", "-", "^"}}
Unused(e) == Comma(e, N(0))     \* the value of the assignment itself is not used
MCBitFields ==
  {Program(<<Tag("S", FALSE, ms)>>, <<Variable("s", Struct("S"), "memory", 0), Variable("t", Struct("S"), "memory", 0), R>>,
           <<Unused(e), Unused(f), g>>) :
     ms \in Fields, e \in Writes, f \in Writes,
     g \in {Asg("=", r, Member0("a")), Asg("=", r, Member0("b")), Asg("=", Var("t"), Var("s"))}}
-----------------------------------------------------------------------------
a == Var("a")
p == Var("p")
\* An array and a pointer into it.
Moves ==
  {Asg("=", p, Bin("+", p, N(1))), Asg("=", p, Bin("-", p, x)), Asg("+", p, x), Asg("-", p, N(1)),
   Post("++", p), Un("--", p), Asg("=", p, Un("&", Index(a, N(2)))), Asg("=", p, Bin("+", x, a)),
   Asg("=", r, Bin("-", p, a)), Bin(">", p, a), Bin("==", p, Bin("+", a, N(2))), Un("!", p)}
Touches ==
  {Asg("=", Un("*", p), N(2)), Asg("=", Un("*", Post("++", p)), N(3)), Asg("=", Un("*", Un("--", p)), N(-1)),
   Asg("+", Index(a, x), N(1)), Asg("=", Index(p, N(-1)), Index(a, N(1))), Asg("-", Un("*", p), N(2)),
   Asg("=", r, Un("*", Post("++", p))), Asg("=", r, Post("--", Un("*", p))), Asg("=", r, Sizeof(a)),
   Asg("=", Un("*", p), Un("*", Bin("+", a, x)))}
MCPointers ==
  {Program(<<>>, <<Variable("a", Array(t, 3), "memory", 0), Variable("p", Ptr(t), h, i), X(v, "local"), R>>, <<e, f, g>>) :
     t \in {T("uchar"), T("int"), T("ullong")}, h \in {"local", "memory"}, i \in {0},
     v \in {<<T("schar"), 1>>}, e \in Moves, f \in Touches, g \in Touches \cup {Asg("=", r, Bin("-", p, a))}}

\* An array of structs with an anonymous struct inside.
Records == <<Inner, Tag("S", FALSE, <<Plain("c", T("uchar")), Plain("", Struct("I")), Bit("b", T("int"), 3)>>)>>
Accesses ==
  {Asg("=", Arrow(p, "q"), N(-5)), Asg("=", Arrow(Post("++", p), "c"), N(6)), Asg("=", Dot(Un("*", p), "p"), N(3)),
   Asg("+", Dot(Index(a, x), "q"), N(2)), Asg("=", Un("*", p), Index(a, N(1))), Asg("=", Index(a, N(0)), Un("*", p)),
   Post("++", p), Asg("+", p, x), Unused(Asg("=", Arrow(p, "b"), N(2))), Unused(Asg("-", Dot(Index(a, N(1)), "b"), N(1))),
   Asg("=", r, Bin("-", p, a)), Asg("=", r, Post("++", Arrow(p, "p"))), Asg("=", r, Dot(Index(a, N(1)), "b"))}
MCRecords ==
  {Program(Records, <<Variable("a", Array(Struct("S"), 2), "memory", 0), Variable("p", Ptr(Struct("S")), h, 0), X(v, "local"), R>>, <<e, f, g>>) :
     h \in {"local", "global"}, v \in {<<T("uint"), 1>>}, e \in Accesses, f \in Accesses, g \in Accesses}

MCPrograms == <<MCOperators, MCUpdates, MCConversions, MCSteps, MCFlows, MCLayouts, MCBitFields, MCPointers, MCRecords>>
MCShiftPrograms == <<MCShifts>>

\* Programs that the run leaves out, on each of which the code and C99 part.
OneField(f, stmts) ==
  <<{Program(<<Tag("S", FALSE, <<Bit("a", T("int"), 3), f>>)>>,
             <<Variable("s", Struct("S"), "memory", 0), R>>, stmts)}>>
Scalars(v, stmts) == <<{Program(<<>>, <<X(v, "local"), R>>, stmts)}>>
MCNarrowStep  == Scalars(<<T("uchar"), 3>>, <<Asg("=", r, Un("++", x))>>)
MCNarrowSize  == Scalars(<<T("uchar"), 1>>, <<Asg("=", r, Sizeof(Un("++", x)))>>)
MCBitStep     == OneField(Bit("b", T("uint"), 3), <<Unused(Post("++", Member0("b")))>>)
MCBitValue    == OneField(Bit("b", T("uint"), 3), <<Asg("=", r, Asg("=", Member0("b"), N(9)))>>)
MCBitPromote  == OneField(Bit("b", T("uint"), 3), <<Asg("=", r, Bin("-", Member0("b"), N(1)))>>)
MCBitBool     == OneField(Bit("b", T("bool"), 1), <<Unused(Asg("=", Member0("b"), N(2)))>>)
MCBitWhole    == OneField(Bit("b", T("int"), 8), <<Unused(Asg("=", Member0("b"), N(-1))), Asg("=", r, Member0("b"))>>)
MCBitWide     == OneField(Bit("b", T("llong"), 10), <<>>)
MCBitDivide   == OneField(Bit("b", T("uint"), 3), <<Unused(Asg("=", Member0("b"), N(6))), Unused(Asg("/", Member0("b"), N(-2)))>>)
MCReversed    == <<{Program(<<>>, <<Variable("a", Array(T("int"), 3), "memory", 0), R>>, <<Asg("=", r, Index(N(1), a))>>)}>>
=============================================================================
