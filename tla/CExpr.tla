-------------------------------- MODULE CExpr --------------------------------
(***************************************************************************)
(* What C99 says an expression does (6.3, 6.5), on the choices that C99    *)
(* leaves to the implementation and C99Mettle makes: LLP64 widths, two's   *)
(* complement, plain char signed, an arithmetic right shift, conversion to *)
(* a signed type modulo its width.  Objects have values and no bytes; an   *)
(* object is <<variable, index, member>>, and a pointer is an index into   *)
(* the program's one array, "a".  The result tells the value, its type,    *)
(* the store left, and whether the behaviour was undefined.                *)
(***************************************************************************)
EXTENDS CType, Bitwise

BitField(t, w) == [k |-> "bits", of |-> t, w |-> w]

RECURSIVE CWidth(_), CSigned(_), CRank(_)
CWidth(t) ==
  CASE t.k = "bits" -> t.w
    [] t.k = "bool" -> 1
    [] t.k \in {"char", "schar", "uchar"}  -> ByteBits
    [] t.k \in {"short", "ushort"} -> 2 * ByteBits
    [] t.k \in {"int", "uint", "enum", "long", "ulong"} -> 4 * ByteBits
    [] t.k \in {"llong", "ullong"} -> 8 * ByteBits
CSigned(t) ==
  IF t.k = "bits" THEN CSigned(t.of)
  ELSE t.k \in {"char", "schar", "short", "int", "enum", "long", "llong"}
CRank(t) ==
  CASE t.k = "bits" -> CRank(t.of)
    [] t.k = "bool" -> 1
    [] t.k \in {"char", "schar", "uchar"} -> 2
    [] t.k \in {"short", "ushort"} -> 3
    [] t.k \in {"int", "uint", "enum"} -> 4
    [] t.k \in {"long", "ulong"} -> 5
    [] t.k \in {"llong", "ullong"} -> 6

Lowest(t)  == IF CSigned(t) THEN -(2 ^ (CWidth(t) - 1)) ELSE 0
Highest(t) == IF CSigned(t) THEN 2 ^ (CWidth(t) - 1) - 1 ELSE 2 ^ CWidth(t) - 1
Holds(t, n)       == Lowest(t) <= n /\ n <= Highest(t)
HoldsAllOf(t, u)  == Holds(t, Lowest(u)) /\ Holds(t, Highest(u))
IsArith(t)        == t.k \in {"bits"} \cup IntegerKinds

\* 6.3.1.2 and 6.3.1.3
Converted(n, t) ==
  IF ~IsArith(t) THEN n
  ELSE IF t = T("bool") \/ t = BitField(T("bool"), 1) THEN IF n = 0 THEN 0 ELSE 1
  ELSE IF Holds(t, n) THEN n
  ELSE LET u == n % 2 ^ CWidth(t) IN IF u > Highest(t) THEN u - 2 ^ CWidth(t) ELSE u

\* 6.3.1.1p2
Promoted(t) ==
  IF ~IsArith(t) \/ CRank(t) > CRank(T("int")) THEN t
  ELSE IF HoldsAllOf(T("int"), t) THEN T("int") ELSE T("uint")

\* 6.3.1.8
UnsignedOf(t) == CASE t.k = "int" -> T("uint") [] t.k = "long" -> T("ulong") [] t.k = "llong" -> T("ullong")
Balance(s, u) ==        \* a signed and an unsigned type
  IF CRank(u) >= CRank(s) THEN u ELSE IF HoldsAllOf(s, u) THEN s ELSE UnsignedOf(s)
Balanced(a, b) ==
  IF CSigned(a) = CSigned(b) THEN IF CRank(a) >= CRank(b) THEN a ELSE b
  ELSE IF CSigned(a) THEN Balance(a, b) ELSE Balance(b, a)
Common(a, b) == Balanced(Promoted(a), Promoted(b))
-----------------------------------------------------------------------------
Result(v, t, s, ub) == [v |-> v, t |-> t, s |-> s, ub |-> ub]

\* The result of an operation: wrapped if unsigned, undefined on overflow.
Fitting(n, t) ==
  [v |-> IF CSigned(t) THEN n ELSE n % 2 ^ CWidth(t), t |-> t, ub |-> CSigned(t) /\ ~Holds(t, n)]
Yes(b) == [v |-> IF b THEN 1 ELSE 0, t |-> T("int"), ub |-> FALSE]
Undefined(t) == [v |-> 0, t |-> t, ub |-> TRUE]

Size(n)       == IF n < 0 THEN -n ELSE n
Toward0(a, b) == IF (a < 0) = (b < 0) THEN Size(a) \div Size(b) ELSE -(Size(a) \div Size(b))
Pattern(n, t) == n % 2 ^ CWidth(t)
Smaller(n, t) == IF 2 * n >= 2 ^ CWidth(t) THEN n - 2 ^ CWidth(t) ELSE n   \* modulo the width

\* 6.5.5 to 6.5.12, of operands already converted to the common type t.
Arithmetic(op, a, b, t) ==
  CASE op = "+" -> Fitting(a + b, t)
    [] op = "-" -> Fitting(a - b, t)
    [] op = "*" -> Fitting(IF CSigned(t) THEN a * b ELSE Smaller(a, t) * Smaller(b, t), t)
    [] op \in {"/", "%"} /\ b = 0 -> Undefined(t)
    [] op = "/" -> Fitting(Toward0(a, b), t)
    [] op = "%" -> IF Fitting(Toward0(a, b), t).ub THEN Undefined(t)
                   ELSE Fitting(a - b * Toward0(a, b), t)
    [] op = "&" -> [v |-> Converted(Pattern(a, t) & Pattern(b, t), t), t |-> t, ub |-> FALSE]
    [] op = "|" -> [v |-> Converted(Pattern(a, t) | Pattern(b, t), t), t |-> t, ub |-> FALSE]
    [] op = "^" -> [v |-> Converted(Pattern(a, t) ^^ Pattern(b, t), t), t |-> t, ub |-> FALSE]
    [] op = "==" -> Yes(a = b)
    [] op = "!=" -> Yes(a # b)
    [] op = "<"  -> Yes(a < b)
    [] op = "<=" -> Yes(a <= b)
    [] op = ">"  -> Yes(a > b)
    [] op = ">=" -> Yes(a >= b)

\* 6.5.7: at the promoted type of the left operand, whatever the count's.
Shift(op, a, n, t) ==
  IF n \notin 0 .. CWidth(t) - 1 \/ (op = "<<" /\ a < 0) THEN Undefined(t)
  ELSE IF op = "<<" THEN Fitting(a * 2 ^ n, t) ELSE Fitting(a \div 2 ^ n, t)

\* 6.5.6 and 6.5.8, of pointers into an array of size elements.
PointerOp(size, op, l, r) ==
  CASE op = "-" /\ l.t.k = "ptr" /\ r.t.k = "ptr" -> [v |-> l.v - r.v, t |-> T("llong"), ub |-> FALSE]
    [] op \in {"+", "-"} ->
         LET n == IF l.t.k # "ptr" THEN l.v + r.v ELSE IF op = "+" THEN l.v + r.v ELSE l.v - r.v
         IN  [v |-> n, t |-> IF l.t.k = "ptr" THEN l.t ELSE r.t, ub |-> n \notin 0 .. size]
    [] OTHER -> Arithmetic(op, l.v, r.v, T("llong"))

BinaryOp(size, op, l, r) ==
  IF ~IsArith(l.t) \/ ~IsArith(r.t) THEN PointerOp(size, op, l, r)
  ELSE IF op \in {"<<", ">>"} THEN Shift(op, l.v, r.v, Promoted(l.t))
  ELSE LET t == Common(l.t, r.t) IN Arithmetic(op, Converted(l.v, t), Converted(r.v, t), t)
-----------------------------------------------------------------------------
\* A place is an object's key, with its type; members of anonymous structs are
\* members of the struct around them.
RECURSIVE FieldsOf(_, _)
FieldsOf(tags, members) ==
  UNION {IF m.name # "" THEN {m} ELSE IF m.t.k = "struct" THEN FieldsOf(tags, tags[m.t.tag].members) ELSE {} :
         m \in ToSet(members)}
Field(P, t, f) == CHOOSE m \in FieldsOf(P.tags, P.tags[t.tag].members) : m.name = f
FieldType(m)   == IF m.width > 0 THEN BitField(m.t, m.width) ELSE m.t

At0(x)   == <<x, 0, "">>
Elem(i)  == <<"a", i, "">>
CDecay(t) == IF t.k = "array" THEN Ptr(t.of) ELSE t

RECURSIVE Eval(_, _, _), CPlace(_, _, _)

\* Is there an object at key v, or a struct with members there?
Exists(s, v) == \E k \in DOMAIN s : k[1] = v[1] /\ k[2] = v[2]

\* The value of the object at a place; an array is a pointer to its start, a
\* struct's value is its key.
ValueAt(p) ==
  CASE p.t.k = "array"  -> Result(0, CDecay(p.t), p.s, p.ub)
    [] p.t.k = "struct" -> [p EXCEPT !.ub = @ \/ ~Exists(p.s, p.v)]
    [] OTHER -> Result(IF Exists(p.s, p.v) THEN p.s[p.v] ELSE 0, p.t, p.s, p.ub \/ ~Exists(p.s, p.v))

\* Store r's value in p, whose type converts it (6.5.16.1).
Stored(p, r, t) ==
  IF r.ub \/ ~Exists(r.s, p.v) THEN Result(r.v, t, r.s, TRUE)
  ELSE IF t.k = "struct"
  THEN Result(p.v, t, [k \in DOMAIN r.s |-> IF k[1] = p.v[1] /\ k[2] = p.v[2]
                                            THEN r.s[<<r.v[1], r.v[2], k[3]>>] ELSE r.s[k]], FALSE)
  ELSE Result(Converted(r.v, t), t,
              [k \in DOMAIN r.s |-> IF k = p.v THEN Converted(r.v, t) ELSE r.s[k]], FALSE)

Outcomes(l, r, o) == Result(o.v, o.t, r.s, l.ub \/ r.ub \/ o.ub)
Operated(P, op, l, r) == Outcomes(l, r, BinaryOp(P.size, op, l, r))     \* r after l

\* The member f of the struct at p, and the element at a pointer.
FieldAt(p, f, m) == Result(<<p.v[1], p.v[2], f>>, FieldType(m), p.s, p.ub)
Member(P, p, f) == FieldAt(p, f, Field(P, p.t, f))
Pointee(p) == Result(Elem(p.v), p.t.of, p.s, p.ub)
Applied2(P, e, op, l) == Operated(P, op, l, Eval(P, e.r, l.s))

CPlace(P, e, s) ==
  CASE e.k = "id"     -> Result(At0(e.x), P.types[e.x], s, FALSE)
    [] e.k = "un"     -> Pointee(Eval(P, e.e, s))
    [] e.k = "index"  -> Pointee(Applied2(P, e, "+", Eval(P, e.l, s)))
    [] e.k = "member" -> Member(P, IF e.arrow THEN Pointee(Eval(P, e.e, s)) ELSE CPlace(P, e.e, s), e.f)
    [] OTHER -> Eval(P, e, s)

One(s) == Result(1, T("int"), s, FALSE)

\* ++ and -- (6.5.2.4, 6.5.3.1): E + 1 stored in E; the value after or before.
Before(old, new, post) == IF post THEN [new EXCEPT !.v = old.v] ELSE new
Increased(P, e, p, old) ==
  Before(old, Stored(p, Operated(P, IF e.op = "++" THEN "+" ELSE "-", old, One(old.s)), p.t), e.k = "post")
Stepped(P, e, p) == Increased(P, e, p, ValueAt(p))

IsTrue(x) == x.t.k = "ptr" \/ x.v # 0      \* no pointer here is null

Signs(op, x, t) ==
  CASE op = "+" -> Fitting(x.v, t)
    [] op = "-" -> Fitting(-x.v, t)
    [] op = "~" -> Fitting(IF CSigned(t) THEN -x.v - 1 ELSE Highest(t) - x.v, t)
    [] op = "!" -> Yes(~IsTrue(x))
Unary(op, x) == Outcomes(x, x, Signs(op, x, Promoted(x.t)))

\* l && r and l || r: the value of l may settle it.
Truthy(b, x, l) == Result(IF b THEN 1 ELSE 0, T("int"), x.s, x.ub \/ l.ub)
AsBool(x, l)    == Truthy(IsTrue(x), x, l)
ShortCircuit(P, e, l) ==
  IF IsTrue(l) = (e.op = "||") THEN AsBool(l, l) ELSE AsBool(Eval(P, e.r, l.s), l)

\* c ? l : r has the common type of both arms, whichever is evaluated (6.5.15).
TypeOfC(P, e) == Eval(P, e, P.zero).t
As(x, t, c) == Result(Converted(x.v, t), t, x.s, c.ub \/ x.ub)
Chosen(P, e, c, x) ==
  As(x, IF IsArith(x.t) THEN Common(TypeOfC(P, e.l), TypeOfC(P, e.r)) ELSE x.t, c)
Branched(P, e, c) == Chosen(P, e, c, Eval(P, IF IsTrue(c) THEN e.l ELSE e.r, c.s))

Assigned(P, e, p, r) ==
  IF e.op = "=" THEN Stored(p, [r EXCEPT !.ub = @ \/ p.ub], p.t)
  ELSE Stored(p, Operated(P, e.op, ValueAt([p EXCEPT !.s = r.s]), r), p.t)
AssignedTo(P, e, p) == Assigned(P, e, p, Eval(P, e.r, p.s))

Pointing(p) == Result(p.v[2], Ptr(p.t), p.s, p.ub)
CCast(t, x) == Result(Converted(x.v, t), t, x.s, x.ub)
Second(l, x) == [x EXCEPT !.ub = @ \/ l.ub]
InSequence(P, e, l) == Second(l, Eval(P, e.r, l.s))

RECURSIVE CSizeof(_)
CSizeof(t) ==
  CASE t.k = "array" -> t.n * CSizeof(t.of)
    [] t.k = "ptr"   -> 8
    [] t.k = "bool"  -> 1
    [] OTHER -> CWidth(t) \div ByteBits

Eval(P, e, s) ==
  CASE e.k = "int" -> Result(e.n, e.t, s, FALSE)
    [] e.k \in {"id", "index", "member"} -> ValueAt(CPlace(P, e, s))
    [] e.k = "post" -> Stepped(P, e, CPlace(P, e.e, s))
    [] e.k = "un" ->
         IF e.op = "*" THEN ValueAt(CPlace(P, e, s))
         ELSE IF e.op = "&" THEN Pointing(CPlace(P, e.e, s))
         ELSE IF e.op \in {"++", "--"} THEN Stepped(P, e, CPlace(P, e.e, s))
         ELSE Unary(e.op, Eval(P, e.e, s))
    [] e.k = "bin" ->
         IF e.op \in {"&&", "||"} THEN ShortCircuit(P, e, Eval(P, e.l, s))
         ELSE Applied2(P, e, e.op, Eval(P, e.l, s))
    [] e.k = "asg"    -> AssignedTo(P, e, CPlace(P, e.l, s))
    [] e.k = "cast"   -> CCast(e.t, Eval(P, e.e, s))
    [] e.k = "cond"   -> Branched(P, e, Eval(P, e.c, s))
    [] e.k = "comma"  -> InSequence(P, e, Eval(P, e.l, s))
    [] e.k = "sizeof" -> Result(CSizeof(IF e.e.k = "id" THEN P.types[e.e.x] ELSE TypeOfC(P, e.e)),
                                T("ullong"), s, FALSE)
=============================================================================
