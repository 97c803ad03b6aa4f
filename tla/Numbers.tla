------------------------------- MODULE Numbers -------------------------------
(***************************************************************************)
(* rt/rt_math.c: the functions whose results are exact or correctly        *)
(* rounded, from the bits of a double or by integer arithmetic.  The ones  *)
(* that sum a series are outside.  They are built on the processor's       *)
(* arithmetic on doubles, which comes first: each operation gives the      *)
(* double nearest to the exact result, half to even.  A finite double is a *)
(* whole number of the least one, so exact results are integers, or        *)
(* integers times a power of two.                                          *)
(*                                                                         *)
(* Then a program and its doubles: it prints one and reads it back, reads  *)
(* one from a text, or calls a function of <math.h> (rt/rt_format.c,       *)
(* rt/rt_scan.c, rt/rt_math.c).  What a call should give is said of the    *)
(* exact values.                                                           *)
(***************************************************************************)
EXTENDS Floats

CONSTANTS FrexpScale,   \* frexp brings a denormal up by 2^64
          SqrtScale,    \* sqrt by 2^108, an even power
          PowMax,       \* pow multiplies for whole exponents up to 1024
          Texts,        \* texts to read: what is written, and the number it denotes
          Places,       \* bound: the digits asked for after a point
          Scales,       \* bound: the powers of two for ldexp
          Partners      \* bound: the second doubles of a call

(* ---- the processor ---- *)

Least == 1 - Bias - FracBits      \* the exponent of the least positive double

Neg(x)    == [x EXCEPT !.neg = ~@]
IsNaN(x)  == x.exp = ExpMax /\ x.frac # 0
IsInf(x)  == x.exp = ExpMax /\ x.frac = 0
Finite(x) == x.exp < ExpMax
IsZero(x) == x.exp = 0 /\ x.frac = 0

Mant(x) == rt_unpack(x).m
Exp2(x) == rt_unpack(x).e2

\* How many least doubles x is; infinity is one binade past the largest.
Val(x) ==
  LET size == IF IsInf(x) THEN 2 ^ (ExpMax - 1 + FracBits) ELSE Mant(x) * 2 ^ (Exp2(x) - Least)
  IN  IF x.neg THEN -size ELSE size

Lt(x, y) == ~IsNaN(x) /\ ~IsNaN(y) /\ Val(x) < Val(y)
Eq(x, y) == ~IsNaN(x) /\ ~IsNaN(y) /\ Val(x) = Val(y)
Le(x, y) == Lt(x, y) \/ Eq(x, y)

BitLength(n) == Min({k \in 0..30 : n < 2 ^ k})

\* The double nearest to n * 2^e.
Nearest(neg, n, e) ==
  LET top  == Max({Least, e + BitLength(n) - (FracBits + 1)})
      gone == Max({top - e, 0})
      q    == (n * 2 ^ Max({e - top, 0})) \div 2 ^ gone
      lost == n % 2 ^ gone
      half == 2 ^ gone \div 2
      up   == gone > 0 /\ (lost > half \/ (lost = half /\ q % 2 = 1))
      bits == (top - Least) * 2 ^ FracBits + (IF up THEN q + 1 ELSE q)
  IN  IF n = 0 THEN Zero(neg)
      ELSE IF bits \div 2 ^ FracBits >= ExpMax THEN Inf(neg)
      ELSE [neg |-> neg, exp |-> bits \div 2 ^ FracBits, frac |-> bits % 2 ^ FracBits]

Int2Double(n) == Nearest(n < 0, IF n < 0 THEN -n ELSE n, 0)
Pow2(k) == Nearest(FALSE, 1, k)

Plus(x, y) ==
  LET sum == Val(x) + Val(y)
  IN  IF IsNaN(x) \/ IsNaN(y) \/ (IsInf(x) /\ IsInf(y) /\ x.neg # y.neg) THEN NaN
      ELSE IF IsInf(x) THEN x ELSE IF IsInf(y) THEN y
      ELSE IF sum = 0 THEN Zero(x.neg /\ y.neg)
      ELSE Nearest(sum < 0, IF sum < 0 THEN -sum ELSE sum, Least)
Minus(x, y) == Plus(x, Neg(y))

Times(x, y) ==
  LET neg == x.neg # y.neg
  IN  IF IsNaN(x) \/ IsNaN(y) \/ (IsInf(x) /\ IsZero(y)) \/ (IsZero(x) /\ IsInf(y)) THEN NaN
      ELSE IF IsInf(x) \/ IsInf(y) THEN Inf(neg)
      ELSE Nearest(neg, Mant(x) * Mant(y), Exp2(x) + Exp2(y))

\* 1 / y: enough bits of the quotient, and whether something is left.
Inverse1(y) ==
  LET wide == 2 * FracBits + 4
      n    == 2 ^ wide
      left == IF n % Mant(y) = 0 THEN 0 ELSE 1
  IN  IF IsNaN(y) THEN NaN ELSE IF IsInf(y) THEN Zero(y.neg) ELSE IF IsZero(y) THEN Inf(y.neg)
      ELSE Nearest(y.neg, 2 * (n \div Mant(y)) + left, -wide - 1 - Exp2(y))

(* ---- rt_math.c ---- *)

One == Int2Double(1)
Half == Pow2(-1)

_isnan(x)  == x.exp = ExpMax /\ x.frac # 0
_finite(x) == x.exp # ExpMax
fabs(x)    == [x EXCEPT !.neg = FALSE]

floor(x) ==
  LET exp == x.exp - Bias
      low == 2 ^ (FracBits - exp)                      \* the fraction's bits below the point
      cut == [x EXCEPT !.frac = @ - (@ % low)]
  IN  IF exp >= FracBits \/ _isnan(x) THEN x
      ELSE IF exp < 0
      THEN IF Eq(x, Zero(FALSE)) THEN x ELSE IF x.neg THEN Neg(One) ELSE Zero(FALSE)
      ELSE IF x.frac % low = 0 THEN x
      ELSE IF x.neg THEN Minus(cut, One) ELSE cut

ceil_floor(x) == Plus(floor(x), One)
ceil(x)  == Neg(floor(Neg(x)))
trunc(x) == IF Lt(x, Zero(FALSE)) THEN Neg(floor(Neg(x))) ELSE floor(x)

\* The largest doubling of d below ax; what is left of ax when it holds no more of ay.
RECURSIVE Doubled(_, _), Reduced(_, _)
Doubled(ax, d)  == IF Le(d, Minus(ax, d)) THEN Doubled(ax, Plus(d, d)) ELSE d
Reduced_strict(ax, ay) == IF Lt(ay, ax) THEN Reduced(Minus(ax, Doubled(ax, ay)), ay) ELSE ax
Reduced(ax, ay) == IF Le(ay, ax) THEN Reduced(Minus(ax, Doubled(ax, ay)), ay) ELSE ax

fmod(x, y) ==
  LET r == Reduced(fabs(x), fabs(y))
  IN  IF Eq(y, Zero(FALSE)) \/ ~_finite(x) \/ _isnan(y) THEN NaN
      ELSE IF ~_finite(y) \/ Lt(fabs(x), fabs(y)) THEN x
      ELSE IF Lt(x, Zero(FALSE)) THEN Neg(r) ELSE r

RECURSIVE frexp(_)
frexp_scaled(x) ==
  IF x.exp = ExpMax \/ Eq(x, Zero(FALSE)) THEN [f |-> x, e |-> 0]
  ELSE IF x.exp = 0 THEN frexp(Times(x, Pow2(FrexpScale)))
  ELSE [f |-> [x EXCEPT !.exp = Bias - 1], e |-> x.exp - (Bias - 1)]
frexp(x) ==
  IF x.exp = ExpMax \/ Eq(x, Zero(FALSE)) THEN [f |-> x, e |-> 0]
  ELSE IF x.exp = 0
  THEN LET r == frexp(Times(x, Pow2(FrexpScale))) IN [r EXCEPT !.e = @ - FrexpScale]
  ELSE [f |-> [x EXCEPT !.exp = Bias - 1], e |-> x.exp - (Bias - 1)]

RECURSIVE ldexp(_, _)
ldexp_once(x, n) == Times(x, Pow2(n))
ldexp(x, n) ==
  IF n > Bias THEN ldexp(Times(x, Pow2(Bias)), n - Bias)
  ELSE IF n < Least THEN ldexp(Times(x, Pow2(Least)), n - Least)
  ELSE IF n >= 1 - Bias THEN Times(x, Pow2(n))
  ELSE Times(Times(x, Pow2(1 - Bias)), Pow2(n - (1 - Bias)))

rt_make_from_mant_unmasked(m, e) ==
  LET biased == e + Bias + FracBits
  IN  IF biased <= 0 \/ biased >= ExpMax THEN ldexp(Int2Double(m), e)
      ELSE [neg |-> FALSE, exp |-> biased, frac |-> m]
rt_make_from_mant(m, e) ==
  LET biased == e + Bias + FracBits
  IN  IF biased <= 0 \/ biased >= ExpMax THEN ldexp(Int2Double(m), e)
      ELSE [neg |-> FALSE, exp |-> biased, frac |-> m % 2 ^ FracBits]

(* ---- sqrt, in two words of LongLong bits ---- *)

\* v^2 from the halves of v; the sum of the low words may carry.
rt_sq128_uncarried(v) ==
  LET a == v \div 2 ^ (LongLong \div 2)
      c == v % 2 ^ (LongLong \div 2)
  IN  [hi |-> a * a + (a * c) \div 2 ^ (LongLong \div 2 - 1),
       lo |-> ToUnsigned(c * c + (a * c) * 2 ^ (LongLong \div 2 + 1), LongLong)]
rt_sq128(v) ==
  LET a  == v \div 2 ^ (LongLong \div 2)
      c  == v % 2 ^ (LongLong \div 2)
      l  == ToUnsigned(c * c, LongLong)
      l2 == ToUnsigned(l + (a * c) * 2 ^ (LongLong \div 2 + 1), LongLong)
  IN  [hi |-> a * a + (IF l2 < l THEN 1 ELSE 0) + (a * c) \div 2 ^ (LongLong \div 2 - 1), lo |-> l2]

AtMost(s, t) == s.hi < t.hi \/ (s.hi = t.hi /\ s.lo <= t.lo)

\* The integer square root of target, a bit at a time from the top.
rt_sqrt_bits(target) ==
  FoldLeft(LAMBDA root, k : LET try == root + 2 ^ (FracBits + 2 - k) IN IF AtMost(rt_sq128(try), target) THEN try ELSE root,
           0, [k \in 1..(FracBits + 2) |-> k])

\* The root of target, up when what is left is more than the root.
Rounded(target) ==
  LET root == rt_sqrt_bits(target)
      r    == rt_sq128(root)
      hi   == target.hi - r.hi - (IF target.lo < r.lo THEN 1 ELSE 0)
  IN  IF hi > 0 \/ ToUnsigned(target.lo - r.lo, LongLong) > root THEN root + 1 ELSE root

RECURSIVE sqrt(_)
sqrt(x) ==
  LET e    == Exp2(x)
      odd  == e % 2
      m    == Mant(x) * 2 ^ odd
      near == Rounded([hi |-> m \div 2 ^ (LongLong - FracBits), lo |-> ToUnsigned(m * 2 ^ FracBits, LongLong)])
      rexp == (e - odd - FracBits) \div 2
  IN  IF Lt(x, Zero(FALSE)) THEN NaN
      ELSE IF Eq(x, Zero(FALSE)) \/ ~_finite(x) THEN x
      ELSE IF x.exp = 0 THEN Times(sqrt(Times(x, Pow2(SqrtScale))), Pow2(-(SqrtScale \div 2)))
      ELSE IF near >= 2 ^ (FracBits + 1) THEN rt_make_from_mant(near \div 2, rexp + 1)
      ELSE rt_make_from_mant(near, rexp)

\* acc * base^n by squaring.
RECURSIVE Squared(_, _, _)
Squared_acc(acc, base, n) ==
  IF n = 0 THEN acc
  ELSE Squared(IF n % 2 = 1 THEN Times(acc, base) ELSE acc, Times(acc, base), n \div 2)
Squared(acc, base, n) ==
  IF n = 0 THEN acc
  ELSE Squared(IF n % 2 = 1 THEN Times(acc, base) ELSE acc, Times(base, base), n \div 2)

\* For a whole y, or an x that is not positive; the rest is exp(y * log x).
Whole(y) == Eq(y, floor(y)) /\ Le(fabs(y), Int2Double(PowMax))
pow(x, y) ==
  LET n   == Val(trunc(y)) \div 2 ^ (-Least)
      acc == Squared(One, x, IF n < 0 THEN -n ELSE n)
  IN  IF Eq(y, Zero(FALSE)) THEN One
      ELSE IF _isnan(x) \/ _isnan(y) THEN NaN
      ELSE IF Eq(x, One) THEN One
      ELSE IF Whole(y) THEN (IF n < 0 THEN Inverse1(acc) ELSE acc)
      ELSE IF Eq(x, Zero(FALSE)) THEN (IF Lt(Zero(FALSE), y) THEN Zero(FALSE) ELSE Inf(FALSE))
      ELSE NaN

round(x) ==
  LET f == floor(x) IN IF Le(Half, Minus(x, f)) THEN Plus(f, One) ELSE f

modf(x) ==
  LET i == trunc(x)
  IN  [ip |-> i, f |-> IF ~_finite(x) THEN (IF _isnan(x) THEN x ELSE Zero(FALSE)) ELSE Minus(x, i)]

(* ---- a program and its doubles ---- *)

VARIABLES fn,         \* the function called, "" before the call
          arg, arg2,  \* its doubles
          num,        \* its integer: a precision or a power of two
          asked,      \* the text read, as a member of Texts
          shown,      \* the text printed
          got         \* what it returned: a double, and an integer

vars == <<fn, arg, arg2, num, asked, shown, got>>

NoText == [text |-> << >>, digits |-> 0, exp |-> 0, more |-> FALSE]

Init ==
  /\ arg \in Doubles
  /\ fn = "" /\ arg2 = arg /\ num = 0 /\ asked = NoText /\ shown = << >> /\ got = [x |-> arg, n |-> 0]

Result(f, r, k) == fn' = f /\ got' = [x |-> r, n |-> k]

Show ==
  /\ fn = "" /\ LimbsFit(arg)
  /\ \E conv \in {"f", "e", "g"}, k \in Places :
       \E body \in {FloatBody(arg, conv, [flags |-> {}, prec |-> k])} :
         shown' = (IF arg.neg THEN <<"-">> ELSE << >>) \o body /\ num' = k /\ fn' = conv
  /\ UNCHANGED <<arg, arg2, asked, got>>

\* The number is longer than the array of its limbs, and is written past it:
\* what becomes of the program is open, and it goes no further here.
Overrun ==
  /\ fn = "" /\ ~LimbsFit(arg)
  /\ fn' = "overrun"
  /\ UNCHANGED <<arg, arg2, num, asked, shown, got>>

ReadBack ==
  /\ fn \in {"f", "e", "g"}
  /\ \E r \in {strtod(shown)} : Result("read back", r.x, r.end)
  /\ UNCHANGED <<arg, arg2, num, asked, shown>>

Read ==
  /\ fn = "" /\ arg = Zero(FALSE)
  /\ \E t \in Texts : \E r \in {strtod(t.text)} : asked' = t /\ Result("strtod", r.x, r.end)
  /\ UNCHANGED <<arg, arg2, num, shown>>

OfOne ==
  /\ fn = ""
  /\ \/ Result("floor", floor(arg), 0)
     \/ Result("ceil", ceil(arg), 0)
     \/ Result("trunc", trunc(arg), 0)
     \/ Result("round", round(arg), 0)
     \/ Result("sqrt", sqrt(arg), 0)
     \/ \E r \in {frexp(arg)} : Result("frexp", r.f, r.e)
     \/ \E r \in {modf(arg)} : fn' = "modf" /\ got' = [x |-> r.f, n |-> Val(r.ip)]
  /\ UNCHANGED <<arg, arg2, num, asked, shown>>

OfTwo ==
  /\ fn = "" /\ arg2' \in Partners
  /\ \/ Result("fmod", fmod(arg, arg2'), 0)
     \/ (Whole(arg2') \/ Le(arg, Zero(FALSE))) /\ Result("pow", pow(arg, arg2'), 0)
  /\ UNCHANGED <<arg, num, asked, shown>>

Scale ==
  /\ fn = "" /\ num' \in Scales
  /\ Result("ldexp", ldexp(arg, num'), 0)
  /\ UNCHANGED <<arg, arg2, asked, shown>>

\* What frexp took apart.
Rebuild ==
  /\ fn = "frexp"
  /\ Result("rebuilt", ldexp(got.x, got.n), 0)
  /\ UNCHANGED <<arg, arg2, num, asked, shown>>

Next == Show \/ Overrun \/ ReadBack \/ Read \/ OfOne \/ OfTwo \/ Scale \/ Rebuild
Spec == Init /\ [][Next]_vars

TypeOK ==
  /\ arg \in Doubles /\ arg2 \in Doubles /\ got.x \in Doubles
  /\ shown \in Seq(Char) /\ (asked # NoText => fn = "strtod")

(* ---- exact values ---- *)

Normal == 2 ^ FracBits             \* the least normal double, in least doubles
Unit == 2 ^ (-Least)              \* 1, in least doubles
Abs(k) == IF k < 0 THEN -k ELSE k
Even(z) == z.frac % 2 = 0
IsWhole(v) == v % Unit = 0

\* a / scale is nearer to the double r than to any other, or half way and r is
\* even; with more, the number is a little more than a / scale.
IsNearest(r, a, scale, more) ==
  \A z \in Doubles :
    (~IsNaN(z) /\ ~z.neg /\ z # r /\ Val(z) <= (2 * 10 ^ 9) \div scale) =>
      LET near == Abs(Val(r) * scale - a)
          far  == Abs(Val(z) * scale - a)
      IN  near < far \/ (near = far /\ IF more THEN Val(r) > Val(z) ELSE Even(r))

(* ---- texts ---- *)

\* A printed number: its digits as one number, and the power of ten of the last.
Parsed(t) == LET p == SelectInSeq(t, LAMBDA c : c = ".")
                  e == SelectInSeq(t, LAMBDA c : c = "e")
                  mantissa == IF e = 0 THEN t ELSE SubSeq(t, 1, e - 1)
              IN  [digits |-> SelectSeq(mantissa, LAMBDA c : c \in isdigit),
                   exp    |-> (IF e = 0 THEN 0 ELSE Exponent(t, e).v) - (IF p = 0 THEN 0 ELSE Len(mantissa) - p)]
ValueOfDigits(ds) == FoldLeft(LAMBDA v, c : v * 10 + Code[c] - Code["0"], 0, ds)

\* The limbs are enough for every double, as the comment on BN_CAP and
\* docs/implementation.md have it.  They are not: a double whose exponent is
\* far below zero is multiplied by ten as many times as it has fraction bits.
LimbsSuffice == fn # "overrun"

\* The digits printed are the number rounded where the directive says, half to
\* even, in %e with one digit before the point, and in %g with none to spare.
\* This is of the doubles whose limbs the array holds, which the denormal ones
\* and the least of the normal ones are not among (LimbsSuffice).
PrintsNearest ==
  fn \in {"f", "e", "g"} /\ Finite(arg) =>
    LET t    == IF arg.neg THEN Tail(shown) ELSE shown
        p    == Parsed(t)
        D    == ValueOfDigits(p.digits)
        v    == Abs(Val(arg))
        up   == 10 ^ Max({p.exp, 0})
        down == 10 ^ Max({-p.exp, 0})
        off  == Abs(D * up * Unit - v * down)
        most == IF num = 0 THEN 1 ELSE num
        fixed  == ToSet(t) \cap {"e"} = {}
    IN  /\ arg.neg = (shown[1] = "-")
        /\ fn = "f" => p.exp = -num
        /\ fn = "e" => Len(p.digits) = num + 1 /\ (p.digits[1] # "0" \/ v = 0)
        /\ (fn = "g" /\ ~fixed) => Len(p.digits) <= most /\ (Len(p.digits) > 1 => Last(p.digits) # "0")
        /\ (fn = "g" /\ fixed /\ p.exp < 0) => Last(p.digits) # "0"
        /\ fn # "g" => off < up * Unit - off \/ (off = up * Unit - off /\ D % 2 = 0)
        /\ fn = "g" => v = 0 \/ off * 2 * 10 ^ (most - 1) <= v * down

ComesBack ==
  fn = "read back" /\ Finite(arg) =>
    LET ds == Parsed(shown).digits
    IN  (Len(ds) >= 3 /\ ds[1] # "0") => got.x = arg /\ got.n = Len(shown) + 1

ReadsRight ==
  fn = "strtod" =>
    LET a     == asked.digits * 10 ^ Max({asked.exp, 0}) * Unit
        scale == 10 ^ Max({-asked.exp, 0})
    IN  /\ got.n = Len(asked.text) + 1
        /\ IF Val(got.x) > Normal THEN IsNearest(got.x, a, scale, asked.more)
           ELSE Abs(Val(got.x) * scale - a) < scale

\* strtod gives the double nearest to the text, half to even, digits past the
\* ones it keeps included; below the normal doubles it is off by less than one.
\* So three significant digits (seventeen, for a double) that were printed are
\* read back as what they were printed from.
ReadsNearest == ReadsRight /\ ComesBack

(* ---- <math.h> ---- *)

\* floor, ceil and trunc give the whole number C says, the sign of a zero
\* included; modf splits at the same place, and round takes the half up.
RoundsAsC ==
  LET v == Val(arg)  r == got.x  w == Val(got.x)
  IN  /\ fn \in {"floor", "ceil", "trunc"} =>
           IF ~Finite(arg) THEN r = arg
           ELSE /\ IsWhole(w) /\ (w = 0 => r.neg = arg.neg \/ (fn = "floor" /\ v > 0))
                /\ fn = "floor" => w <= v /\ v - w < Unit
                /\ fn = "ceil"  => w >= v /\ w - v < Unit
                /\ fn = "trunc" => Abs(w) <= Abs(v) /\ Abs(v - w) < Unit
      /\ fn = "modf" /\ Finite(arg) => w + got.n = v /\ Abs(w) < Unit /\ IsWhole(got.n) /\ v * w >= 0
      /\ fn = "round" /\ Finite(arg) => IsWhole(w) /\ 2 * (v - w) < Unit /\ 2 * (w - v) <= Unit

\* fmod leaves the exact remainder, below the divisor and with the sign of the dividend.
RemainderIsExact ==
  fn = "fmod" /\ Finite(arg) /\ Finite(arg2) /\ ~IsZero(arg2) =>
    LET v == Abs(Val(arg))  d == Abs(Val(arg2))  w == Abs(Val(got.x))
    IN  got.x.neg = arg.neg /\ Finite(got.x) /\ w = v % d

\* frexp gives a fraction in [1/2, 1) and a power that ldexp puts together again.
PartsComeBack ==
  /\ fn = "frexp" /\ Finite(arg) /\ ~IsZero(arg) => 2 * Abs(Val(got.x)) >= Unit /\ Abs(Val(got.x)) < Unit
  /\ fn = "rebuilt" => got.x = arg \/ (IsNaN(arg) /\ IsNaN(got.x))

\* ldexp is exact where the result is a double, however far it goes in steps;
\* out of range it is infinite, and among the least doubles off by less than one.
ScalesByTwo ==
  fn = "ldexp" /\ Finite(arg) /\ ~IsZero(arg) =>
    LET v == Abs(Val(arg))  w == Abs(Val(got.x))
        k == BitLength(v) - 1 + Least + num            \* the exponent of the exact result
    IN  /\ got.x.neg = arg.neg
        /\ IF k > Bias THEN IsInf(got.x)
           ELSE IF num >= 0 THEN w = v * 2 ^ num
           ELSE IF v % 2 ^ Min({-num, 20}) = 0 THEN w * 2 ^ Min({-num, 20}) = v
           ELSE IF k < Least - 1 THEN w <= 1
           ELSE Abs(w * 2 ^ (-num) - v) < 2 ^ (-num)

\* sqrt gives the double nearest to the root: the middle between it and any
\* other lies on the other's side.
RootIsNearest ==
  fn = "sqrt" =>
    IF IsNaN(arg) \/ (arg.neg /\ ~IsZero(arg)) THEN IsNaN(got.x)
    ELSE IF IsZero(arg) \/ IsInf(arg) THEN got.x = arg
    ELSE LET r == Val(got.x)
         IN  /\ Finite(got.x) /\ ~got.x.neg
             /\ \A z \in Doubles :
                  (~z.neg /\ Finite(z) /\ 2 * Val(z) <= 3 * r /\ Val(z) # r) =>
                    LET mid2 == (r + Val(z)) * (r + Val(z))
                    IN  IF Val(z) > r THEN 4 * Val(arg) * Unit <= mid2 ELSE mid2 <= 4 * Val(arg) * Unit

\* A power that is a double is given exactly: no squaring on the way loses it,
\* or overflows what is not used.
PowersAreExact ==
  fn = "pow" /\ Finite(arg) /\ ~IsZero(arg) /\ Whole(arg2) =>
    LET e    == Val(arg2) \div Unit
        m    == Mant(arg)
        tz   == Max({k \in 0..FracBits : m % 2 ^ k = 0})
        odd  == m \div 2 ^ tz
        p    == odd ^ Abs(e)
        exp  == (Exp2(arg) + tz) * Abs(e)
        sign == arg.neg /\ e % 2 = 1
    IN  (odd = 1 \/ Abs(e) <= 4) =>
          IF p >= 2 ^ (FracBits + 1) \/ exp < Least \/ exp + BitLength(p) - 1 > Bias THEN TRUE
          ELSE /\ got.x.neg = sign
               /\ IF e >= 0 THEN Val(got.x) = (IF sign THEN -p ELSE p) * 2 ^ (exp - Least)
                  ELSE odd = 1 /\ -exp >= Least /\ -exp <= Bias => Abs(Val(got.x)) = 2 ^ (-exp - Least)

\* floor, ceil and trunc give the whole number C says, the sign of a zero
\* included; modf splits at the same place, and round takes the half up.  fmod
\* leaves the exact remainder with the sign of the dividend.  frexp gives a fraction
\* in [1/2, 1) and a power that ldexp puts together again, and ldexp is exact
\* where the result is a double, however far it goes in steps.  sqrt gives the
\* double nearest to the root, and pow a power that is a double exactly.
MathIsExact ==
  /\ TypeOK /\ RoundsAsC /\ RemainderIsExact /\ PartsComeBack /\ ScalesByTwo
  /\ RootIsNearest /\ PowersAreExact
=============================================================================
