------------------------------- MODULE SemaExpr -------------------------------
(***************************************************************************)
(* The checker's walk over an expression (Sema.checkExpr): it writes on    *)
(* every node the type lowering will read, decayed where C decays it, and  *)
(* remembers whether it reported an error below.                           *)
(***************************************************************************)
EXTENDS CType

Comparisons == {"==", "!=", "<", "<=", ">", ">="}
Logical     == {"&&", "||"}

\* An expression with its type; ok is false once an error was reported in it.
Typed(e, t, ok) == [ty |-> t, ok |-> ok] @@ e

decayed(e) == [e EXCEPT !.ty = typeDecay(@)]

isLvalue(e) ==
  \/ e.k \in {"id", "index", "member"}
  \/ e.k = "un" /\ e.op = "*"

BinaryType_usual(op, lt, rt) ==      \* a shift as any other operation
  CASE op \in Comparisons \cup Logical -> T("int")
    [] op \in {"+", "-"} /\ lt.k = "ptr" /\ typeIsInteger(rt) -> lt
    [] op = "+" /\ rt.k = "ptr" /\ typeIsInteger(lt) -> rt
    [] op = "-" /\ lt.k = "ptr" /\ rt.k = "ptr" -> T("llong")
    [] OTHER -> typeUsualArith(lt, rt)

BinaryType(op, lt, rt) ==
  CASE op \in Comparisons \cup Logical -> T("int")
    [] op \in {"<<", ">>"} -> typePromote(lt)
    [] op \in {"+", "-"} /\ lt.k = "ptr" /\ typeIsInteger(rt) -> lt
    [] op = "+" /\ rt.k = "ptr" /\ typeIsInteger(lt) -> rt
    [] op = "-" /\ lt.k = "ptr" /\ rt.k = "ptr" -> T("llong")
    [] OTHER -> typeUsualArith(lt, rt)

checkBinary(e, l, r) ==
  Typed([e EXCEPT !.l = l, !.r = r], BinaryType(e.op, l.ty, r.ty), l.ok /\ r.ok)

\* x is the operand as checked, which & takes as it is, and d the operand decayed.
CheckOperand(e, x, d) ==
  CASE e.op = "!" -> Typed([e EXCEPT !.e = d], T("int"), d.ok)
    [] e.op \in {"++", "--", "-", "+", "~"} -> Typed([e EXCEPT !.e = d], typePromote(d.ty), d.ok)
    [] e.op = "&" -> Typed([e EXCEPT !.e = x], Ptr(x.ty), x.ok)
    [] e.op = "*" -> IF d.ty.k = "ptr" THEN Typed([e EXCEPT !.e = d], d.ty.of, d.ok)
                     ELSE Typed([e EXCEPT !.e = d], T("int"), FALSE)

checkUnary(e, x) == CheckOperand(e, x, decayed(x))

checkPostfix(e, x) == Typed([e EXCEPT !.e = x], typePromote(typeDecay(x.ty)), x.ok)

checkAssign(e, l, r) ==
  Typed([e EXCEPT !.l = l, !.r = r], l.ty, l.ok /\ r.ok /\ isLvalue(l))

checkIndex(e, l, r) ==
  IF l.ty.k = "ptr" THEN Typed([e EXCEPT !.l = l, !.r = r], l.ty.of, l.ok /\ r.ok)
  ELSE Typed([e EXCEPT !.l = l, !.r = r], T("int"), FALSE)

\* The struct that x.f or x->f names its member in.
memberStruct(x, arrow) ==
  IF arrow /\ typeDecay(x.ty).k = "ptr" THEN typeDecay(x.ty).of ELSE x.ty

CheckNamed(e, x, m) ==
  IF m # NoType /\ (e.arrow => typeDecay(x.ty).k = "ptr") THEN Typed([e EXCEPT !.e = x], m.t, x.ok)
  ELSE Typed([e EXCEPT !.e = x], T("int"), FALSE)

checkMember(tags, e, x) == CheckNamed(e, x, findMember(tags, memberStruct(x, e.arrow), e.f))

CondType(lt, rt) ==
  IF typeIsInteger(lt) /\ typeIsInteger(rt) THEN typeUsualArith(lt, rt)
  ELSE IF lt.k = "ptr" THEN lt ELSE rt

checkCast(e, x) == Typed([e EXCEPT !.e = x], e.t, x.ok)
checkCond(e, c, l, r) ==
  Typed([e EXCEPT !.c = c, !.l = l, !.r = r], CondType(l.ty, r.ty), c.ok /\ l.ok /\ r.ok)
checkComma(e, l, r) == Typed([e EXCEPT !.l = l, !.r = r], r.ty, l.ok /\ r.ok)
checkSizeof(env, x) == Typed([k |-> "int", n |-> typeSize(env.tags, x.ty)], T("ullong"), x.ok)

\* The walk, in an environment of the variables' types and the tags.
RECURSIVE checkExpr(_, _)
checkExpr(env, e) ==
  CASE e.k = "int"    -> Typed(e, e.t, TRUE)
    [] e.k = "id"     -> IF e.x \in DOMAIN env.types THEN Typed(e, env.types[e.x], TRUE)
                         ELSE Typed(e, T("int"), FALSE)
    [] e.k = "bin"    -> checkBinary(e, decayed(checkExpr(env, e.l)), decayed(checkExpr(env, e.r)))
    [] e.k = "un"     -> checkUnary(e, checkExpr(env, e.e))
    [] e.k = "post"   -> checkPostfix(e, checkExpr(env, e.e))
    [] e.k = "asg"    -> checkAssign(e, checkExpr(env, e.l), decayed(checkExpr(env, e.r)))
    [] e.k = "index"  -> checkIndex(e, decayed(checkExpr(env, e.l)), checkExpr(env, e.r))
    [] e.k = "member" -> checkMember(env.tags, e, checkExpr(env, e.e))
    [] e.k = "cast"   -> checkCast(e, decayed(checkExpr(env, e.e)))
    [] e.k = "cond"   -> checkCond(e, checkExpr(env, e.c), decayed(checkExpr(env, e.l)), decayed(checkExpr(env, e.r)))
    [] e.k = "comma"  -> checkComma(e, checkExpr(env, e.l), decayed(checkExpr(env, e.r)))
    [] e.k = "sizeof" -> checkSizeof(env, checkExpr(env, e.e))
=============================================================================
