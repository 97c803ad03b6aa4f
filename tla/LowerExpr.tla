------------------------------ MODULE LowerExpr ------------------------------
(***************************************************************************)
(* What a checked expression is lowered to (Lower.genExpr): here the       *)
(* instructions are carried out as they are emitted, on a machine.         *)
(* An operator for a piece of lowering returns the value it yields and     *)
(* the machine it leaves.  The environment says where each variable lives: *)
(* "local" and "global" are handles of their own (lsLocals, a plain scalar *)
(* global), "memory" is an address (lsPtrs, an aggregate, a volatile local *)
(* or a global whose address is taken).                                    *)
(*                                                                         *)
(* First the instructions of libmtlc that expressions lower to, as         *)
(* Lower.hs uses them; the library is not in the repository.  A scalar is  *)
(* kept canonical for its type: sign- or zero-extended from its width.  A  *)
(* value is either a temporary or the handle of a typed local or global,   *)
(* whose content is read when an instruction uses it.  A machine has the   *)
(* content of the handles and a memory of bytes, least significant first.  *)
(***************************************************************************)
EXTENDS SemaExpr, Bitwise

(* ---- libmtlc ---- *)

\* A scalar type: its width in bits, whether it is signed, whether it is Bool.
Scalar(bytes, signed) == [w |-> bytes * ByteBits, s |-> signed, b |-> FALSE]
I32  == Scalar(4, TRUE)
U32  == Scalar(4, FALSE)
I64  == Scalar(8, TRUE)
U64  == Scalar(8, FALSE)
Bool == [Scalar(1, FALSE) EXCEPT !.b = TRUE]

Bits(n, w) == n % (2 ^ w)
Truth(b)   == IF b THEN 1 ELSE 0

Signed(n, w) == IF Bits(n, w) >= 2 ^ (w - 1) THEN Bits(n, w) - 2 ^ w ELSE Bits(n, w)

Canonical(n, ty) ==
  IF ty.b THEN Truth(n # 0) ELSE IF ty.s THEN Signed(n, ty.w) ELSE Bits(n, ty.w)

Temp(n)     == [n |-> n, handle |-> ""]
Handle(x)   == [n |-> 0, handle |-> x]
Read(v, m)  == IF v.handle = "" THEN v.n ELSE m.h[v.handle]

\* Signed division truncates.
Sign(n)    == IF n < 0 THEN -1 ELSE 1
Abs(n)     == Sign(n) * n
Quot(a, b) == Sign(a) * Sign(b) * (Abs(a) \div Abs(b))

cast(n, ty) == Canonical(n, ty)

Compare(op, a, b) ==
  CASE op = "==" -> a = b
    [] op = "!=" -> a # b
    [] op = "<"  -> a < b
    [] op = "<=" -> a <= b
    [] op = ">"  -> a > b
    [] op = ">=" -> a >= b

\* The operation at its type: the type says whether a division, a right shift
\* or a comparison is signed.  A shift's count keeps its own value.
Operation(op, a, b, ty) ==
  CASE op = "+" -> a + b
    [] op = "-" -> a - b
    [] op = "*" -> Signed(a, ty.w) * Signed(b, ty.w)
    [] op = "/" -> Quot(a, b)
    [] op = "%" -> a - b * Quot(a, b)
    [] op = "&" -> Bits(a, ty.w) & Bits(b, ty.w)
    [] op = "|" -> Bits(a, ty.w) | Bits(b, ty.w)
    [] op = "^" -> Bits(a, ty.w) ^^ Bits(b, ty.w)
    [] op = "<<" -> a * 2 ^ b
    [] op = ">>" -> a \div 2 ^ b
    [] OTHER -> Truth(Compare(op, a, b))

Shifts == {"<<", ">>"}
binary(op, a, b, ty) ==
  LET x == Canonical(a, ty)
      y == IF op \in Shifts THEN b % ty.w ELSE Canonical(b, ty)
  IN  IF op \in {"/", "%"} /\ y = 0 THEN 0 ELSE Canonical(Operation(op, x, y, ty), ty)

unary(op, a, ty) ==
  CASE op = "-" -> Canonical(-a, ty)
    [] op = "~" -> Canonical(-a - 1, ty)
    [] op = "!" -> Truth(a = 0)

\* Memory: a store writes the low bytes, a load extends as its type says.
Bytes(ty)   == ty.w \div ByteBits
Digit(n, i) == (n \div 2 ^ (i * ByteBits)) % (2 ^ ByteBits)
At(m, i)    == IF i \in DOMAIN m.b THEN m.b[i] ELSE 0

store(m, addr, n, ty) ==
  [m EXCEPT !.b = [i \in DOMAIN m.b |->
     IF i \in addr .. addr + Bytes(ty) - 1 THEN Digit(n, i - addr) ELSE m.b[i]]]
load(m, addr, ty) ==
  Canonical(FoldLeft(LAMBDA n, i : n * 2 ^ ByteBits + At(m, addr + Bytes(ty) - i), 0,
                     [i \in 1 .. Bytes(ty) |-> i]), ty)

assign(m, x, n, ty) == [m EXCEPT !.h[x] = Canonical(n, ty)]

(* ---- lowering ---- *)

Yields(v, m) == [v |-> v, m |-> m]

mtlcOf(t) ==
  CASE t.k = "bool" -> Bool
    [] t.k \in {"ptr", "array", "struct"} -> U64
    [] OTHER -> Scalar(ScalarSize(t.k), ~typeIsUnsigned(t))

\* The stride of a pointer: never 0.
sizeOfV(env, t) == Larger(1, typeSize(env.tags, t))

castTo(v, m, from, to) ==
  IF from = to \/ from.k = "array" \/ typeIsAggregate(to) \/ typeIsAggregate(from) THEN v
  ELSE Temp(cast(Read(v, m), mtlcOf(to)))

\* p + i elements, in bytes.
ptrStep(env, p, i, el, op) ==
  binary(op, p, binary("*", cast(i, U64), sizeOfV(env, el), U64), U64)

\* The value of ++ and --: scaled for a pointer, else at the result's type.
stepOne(env, opTy, resTy, cur, op) ==
  IF typeDecay(opTy).k = "ptr" THEN ptrStep(env, cur, 1, typeDecay(opTy).of, op)
  ELSE binary(op, cur, 1, mtlcOf(resTy))
-----------------------------------------------------------------------------
InHandle(env, e) == e.k = "id" /\ env.home[e.x] \in {"local", "global"}

\* How to reach an lvalue: through its own handle, or through an address.
LvalHandle(x) == [own |-> TRUE,  v |-> Handle(x)]
LvalAddr(v)   == [own |-> FALSE, v |-> v]
readLval(ref, m, t)     == IF ref.own THEN ref.v ELSE Temp(load(m, Read(ref.v, m), mtlcOf(t)))
writeLval(ref, m, t, n) ==
  IF ref.own THEN assign(m, ref.v.handle, n, mtlcOf(t)) ELSE store(m, Read(ref.v, m), n, mtlcOf(t))

\* The value from before a write: a handle's content is copied out.
materialize_handle(v, m) == v      \* the storage itself
materialize(v, m) == Temp(Read(v, m))

memberOf(env, e) == findMember(env.tags, memberStruct(e.e, e.arrow), e.f)
IsBitField(env, e) == e.k = "member" /\ memberOf(env, e).width > 0

bfMask(w) == IF w >= UnitBits THEN 2 ^ UnitBits - 1 ELSE 2 ^ w - 1

bfLoad(m, addr, f) ==
  LET raw  == binary("&", binary(">>", load(m, addr, U32), f.bit, U32), bfMask(f.width), U32)
      sign == 2 ^ (f.width - 1)
  IN  IF f.width < UnitBits /\ ~typeIsUnsigned(f.t)
      THEN binary("-", binary("^", raw, sign, I32), sign, I32)
      ELSE raw

bfStore_over(m, addr, f, n) ==      \* over what the field held
  store(m, addr, binary("|", load(m, addr, U32),
                        binary("<<", binary("&", n, bfMask(f.width), U32), f.bit, U32), U32), U32)

bfStore(m, addr, f, n) ==
  LET field  == binary("<<", binary("&", n, bfMask(f.width), U32), f.bit, U32)
      clear  == unary("~", bfMask(f.width) * 2 ^ f.bit, U32)
      others == binary("&", load(m, addr, U32), clear, U32)
  IN  store(m, addr, binary("|", others, field, U32), U32)

memCopy(m, dst, src, n) ==
  [m EXCEPT !.b = [i \in DOMAIN m.b |-> IF i \in dst .. dst + n - 1 THEN At(m, src + (i - dst)) ELSE m.b[i]]]
-----------------------------------------------------------------------------
\* The type an operation is done at; a shift keeps its left operand's.
OperationType(e, lt, rt) ==
  IF e.op \in {"<<", ">>"} THEN typePromote(lt)
  ELSE IF typeIsInteger(lt) /\ typeIsInteger(rt) THEN typeUsualArith(lt, rt)
  ELSE IF e.op \in Comparisons THEN T("ullong")
  ELSE e.ty

\* genBinary, once both operands have been evaluated; lv and rv may be handles.
Operate(env, e, lv, rv, m) ==
  LET lt == typeDecay(e.l.ty)
      rt == typeDecay(e.r.ty)
      ct == OperationType(e, lt, rt)
      l  == Read(lv, m)
      r  == Read(rv, m)
  IN  CASE e.op \in {"+", "-"} /\ lt.k = "ptr" /\ typeIsInteger(rt) -> ptrStep(env, l, r, lt.of, e.op)
        [] e.op = "+" /\ rt.k = "ptr" /\ typeIsInteger(lt) -> ptrStep(env, r, l, rt.of, "+")
        [] e.op = "-" /\ lt.k = "ptr" /\ rt.k = "ptr" ->
             binary("/", binary("-", cast(l, I64), cast(r, I64), I64), sizeOfV(env, lt.of), I64)
        [] OTHER ->
             binary(e.op, Read(castTo(lv, m, lt, ct), m),
                    IF e.op \in {"<<", ">>"} THEN r ELSE Read(castTo(rv, m, rt, ct), m), mtlcOf(ct))

Compound_wide(env, e, cur, rv, m) ==      \* without the conversion back
  LET ct == IF typeIsInteger(e.l.ty) THEN typeUsualArith(e.l.ty, e.r.ty) ELSE e.ty
  IN  IF typeDecay(e.l.ty).k = "ptr" THEN Temp(ptrStep(env, Read(cur, m), Read(rv, m), typeDecay(e.l.ty).of, e.op))
      ELSE Temp(binary(e.op, Read(castTo(cur, m, e.l.ty, ct), m), Read(castTo(rv, m, e.r.ty, ct), m), mtlcOf(ct)))

\* E1 op= E2 at the usual arithmetic type, then back (the general case).
Compound(env, e, cur, rv, m) ==
  LET lt == e.l.ty
      rt == e.r.ty
      ct == IF typeIsInteger(lt) /\ typeIsInteger(rt) THEN typeUsualArith(lt, rt) ELSE e.ty
  IN  IF typeDecay(lt).k = "ptr" /\ e.op \in {"+", "-"}
      THEN Temp(ptrStep(env, Read(cur, m), Read(rv, m), typeDecay(lt).of, e.op))
      ELSE castTo(Temp(binary(e.op, Read(castTo(cur, m, lt, ct), m), Read(castTo(rv, m, rt, ct), m), mtlcOf(ct))),
                  m, ct, e.ty)
-----------------------------------------------------------------------------
RECURSIVE genExpr(_, _, _), genBool(_, _, _), genLvalueAddr(_, _, _)

AsRef(a) == Yields(LvalAddr(a.v), a.m)
lvalRef(env, e, m) ==
  IF InHandle(env, e) THEN Yields(LvalHandle(e.x), m) ELSE AsRef(genLvalueAddr(env, e, m))

\* The address of an element, i its index, after its base b; and of a member.
Element(env, e, b, i) ==
  Yields(Temp(ptrStep(env, Read(b.v, i.m), Read(i.v, i.m), typeDecay(e.l.ty).of, "+")), i.m)
ElementOf(env, e, b) == Element(env, e, b, genExpr(env, e.r, b.m))
MemberAt(env, e, b) == Yields(Temp(binary("+", Read(b.v, b.m), memberOf(env, e).off, U64)), b.m)

genLvalueAddr(env, e, m) ==
  CASE e.k = "id"     -> Yields(Temp(env.addr[e.x]), m)
    [] e.k = "index"  -> ElementOf(env, e, genExpr(env, e.l, m))
    [] e.k = "member" -> MemberAt(env, e, IF e.arrow THEN genExpr(env, e.e, m) ELSE genLvalueAddr(env, e.e, m))
    [] e.k = "un"     -> genExpr(env, e.e, m)
    [] OTHER          -> genExpr(env, e, m)      \* an aggregate is the address of its storage

genIdent(env, e, m) ==
  IF InHandle(env, e) THEN Handle(e.x)
  ELSE IF typeIsAggregate(env.types[e.x]) THEN Temp(env.addr[e.x])
  ELSE Temp(load(m, env.addr[e.x], mtlcOf(e.ty)))

\* A load from the object at a, or its address when it is an aggregate.
Fetch(a, objTy, ty) ==
  IF typeIsAggregate(objTy) \/ typeIsAggregate(ty) THEN a
  ELSE Yields(Temp(load(a.m, Read(a.v, a.m), mtlcOf(ty))), a.m)
FetchMember(env, e, a) ==
  IF IsBitField(env, e) THEN Yields(Temp(bfLoad(a.m, Read(a.v, a.m), memberOf(env, e))), a.m)
  ELSE Fetch(a, memberOf(env, e).t, e.ty)

\* && and || branch and never make a value; so does !.
AsTruth(x) == Yields(Read(x.v, x.m) # 0, x.m)
Negated(b) == Yields(~b.v, b.m)
OrElse(env, e, l)  == IF l.v = (e.op = "||") THEN l ELSE genBool(env, e.r, l.m)
genBool(env, e, m) ==
  IF e.k = "bin" /\ e.op \in Logical THEN OrElse(env, e, genBool(env, e.l, m))
  ELSE IF e.k = "un" /\ e.op = "!" THEN Negated(genBool(env, e.e, m))
  ELSE AsTruth(genExpr(env, e, m))

AsValue(b) == Yields(Temp(Truth(b.v)), b.m)
Applied(env, e, l, r) == Yields(Temp(Operate(env, e, l.v, r.v, r.m)), r.m)
AppliedAfter(env, e, l)  == Applied(env, e, l, genExpr(env, e.r, l.m))
genBinary(env, e, m) ==
  IF e.op \in Logical THEN AsValue(genBool(env, e, m)) ELSE AppliedAfter(env, e, genExpr(env, e.l, m))

\* ++ and --, before (the new value) and after (the old one, copied out).
Step(env, e, ref, cur) ==
  stepOne(env, e.e.ty, e.ty, Read(cur, ref.m), IF e.op = "++" THEN "+" ELSE "-")
Write(ref, t, n) == writeLval(ref.v, ref.m, t, n)
WriteStep(env, e, ref, cur) ==
  Yields(IF e.k = "post" THEN materialize(cur, ref.m) ELSE Temp(Step(env, e, ref, cur)),
         Write(ref, e.e.ty, Step(env, e, ref, cur)))
IncDec(env, e, ref) == WriteStep(env, e, ref, readLval(ref.v, ref.m, e.e.ty))

Arith(e, x) == Yields(Temp(unary(e.op, Read(x.v, x.m), IF e.op = "!" THEN I32 ELSE mtlcOf(e.ty))), x.m)
genUnary(env, e, m) ==
  CASE e.op = "&" -> genLvalueAddr(env, e.e, m)
    [] e.op = "*" -> Fetch(genExpr(env, e.e, m), typeDecay(e.e.ty).of, e.ty)
    [] e.op \in {"++", "--"} -> IncDec(env, e, lvalRef(env, e.e, m))
    [] e.op = "+" -> genExpr(env, e.e, m)
    [] OTHER      -> Arith(e, genExpr(env, e.e, m))

\* Assignment to the bit-field f of the unit at a, r the right operand.
Merged(e, f, a, r) ==
  IF e.op = "=" THEN Read(r.v, r.m)
  ELSE binary(e.op, bfLoad(r.m, Read(a, r.m), f), Read(r.v, r.m), mtlcOf(e.ty))
StoreBits(f, a, n, m) == Yields(Temp(n), bfStore(m, a, f, n))
AssignBits(f, e, a, r) == StoreBits(f, Read(a, r.m), Merged(e, f, a, r), r.m)
AssignBitField(env, e, a) == AssignBits(memberOf(env, e.l), e, a.v, genExpr(env, e.r, a.m))

CopyAggregate(env, e, d, s) ==
  Yields(d.v, memCopy(s.m, Read(d.v, s.m), Read(s.v, s.m), sizeOfV(env, e.l.ty)))
CopyTo(env, e, d) == CopyAggregate(env, e, d, genExpr(env, e.r, d.m))

\* Assignment to ref of the value of r.  A handle yields itself, an address the
\* value written.
WriteBack(e, ref, v) ==
  Yields(IF ref.v.own THEN ref.v.v ELSE v, Write(ref, e.l.ty, Read(v, ref.m)))
AssignOp(e, ref, new) == Yields(new, Write(ref, e.l.ty, Read(new, ref.m)))
AssignTo(env, e, r, ref) ==
  IF e.op = "=" THEN WriteBack(e, ref, castTo(r.v, ref.m, e.r.ty, e.l.ty))
  ELSE AssignOp(e, ref, Compound(env, e, readLval(ref.v, ref.m, e.l.ty), r.v, ref.m))
AssignValue(env, e, r) == AssignTo(env, e, r, lvalRef(env, e.l, r.m))

genAssign(env, e, m) ==
  IF IsBitField(env, e.l) THEN AssignBitField(env, e, genLvalueAddr(env, e.l, m))
  ELSE IF e.op = "=" /\ e.l.ty.k = "struct" THEN CopyTo(env, e, genLvalueAddr(env, e.l, m))
  ELSE AssignValue(env, e, genExpr(env, e.r, m))

\* The arm is copied into a temporary of the conditional's type.
CondArm(e, x) ==
  IF typeIsAggregate(e.ty) THEN x ELSE Yields(Temp(Canonical(Read(x.v, x.m), mtlcOf(e.ty))), x.m)
Branch(env, e, c) == CondArm(e, genExpr(env, IF c.v THEN e.l ELSE e.r, c.m))
Casted(e, x) == Yields(Temp(cast(Read(x.v, x.m), mtlcOf(e.t))), x.m)

genExpr(env, e, m) ==
  CASE e.k = "int"    -> Yields(Temp(Canonical(e.n, mtlcOf(e.ty))), m)
    [] e.k = "id"     -> Yields(genIdent(env, e, m), m)
    [] e.k = "bin"    -> genBinary(env, e, m)
    [] e.k = "un"     -> genUnary(env, e, m)
    [] e.k = "post"   -> IncDec(env, e, lvalRef(env, e.e, m))
    [] e.k = "asg"    -> genAssign(env, e, m)
    [] e.k = "index"  -> Fetch(genLvalueAddr(env, e, m), typeDecay(e.l.ty).of, e.ty)
    [] e.k = "member" -> FetchMember(env, e, genLvalueAddr(env, e, m))
    [] e.k = "cast"   -> Casted(e, genExpr(env, e.e, m))
    [] e.k = "cond"   -> Branch(env, e, genBool(env, e.c, m))
    [] e.k = "comma"  -> genExpr(env, e.r, genExpr(env, e.l, m).m)
=============================================================================
