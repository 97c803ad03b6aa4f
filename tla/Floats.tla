-------------------------------- MODULE Floats --------------------------------
(***************************************************************************)
(* A double in decimal, out and in.  A double is its three fields.         *)
(*                                                                         *)
(* rt/rt_format.c: its exact decimal digits come from a number of limbs in *)
(* base 10^9, multiplied by ten or two and divided by two, and are rounded *)
(* half to even where the directive says.  Digits are numbers here, not    *)
(* characters.                                                             *)
(*                                                                         *)
(* rt/rt_scan.c, strtod: the digits are collected into limbs, the quotient *)
(* by the power of ten is scaled into [2^52, 2^53), and its bits come from *)
(* a long division, rounded half to even.                                  *)
(***************************************************************************)
EXTENDS Chars

CONSTANTS FracBits,     \* the fraction's bits (52)
          ExpBits,      \* the exponent's (11)
          LimbDigits,   \* decimal digits in a limb (9)
          ShiftStep,    \* binary shifts are made so many bits at a time (29)
          BnCap,        \* the limbs printing has room for (100)
          SbnCap,       \* the limbs strtod has room for (100)
          DigitCap,     \* the digits it collects (780)
          ExpCap,       \* an exponent this large takes no more digits (100000)
          DecHigh,      \* the decimal exponents beyond which the value is
          DecLow        \* infinite, or zero, at once (350, 400)

Base == 10 ^ LimbDigits
Bias == 2 ^ (ExpBits - 1) - 1
ExpMax == 2 ^ ExpBits - 1

RECURSIVE Digits(_, _)
Digits(v, base) == IF v < base THEN <<v>> ELSE Append(Digits(v \div base, base), v % base)

(* ---- numbers of limbs, the least first ---- *)

RECURSIVE bn_from_u64(_)
bn_from_u64(v) == IF v = 0 THEN << >> ELSE <<v % Base>> \o bn_from_u64(v \div Base)

\* b * mul + add, limb by limb with the carry, which may add limbs.
MulAdd(b, mul, add) ==
  LET r == FoldLeft(LAMBDA a, x : [limbs |-> Append(a.limbs, (x * mul + a.carry) % Base),
                                   carry |-> (x * mul + a.carry) \div Base],
                    [limbs |-> << >>, carry |-> add], b)
  IN  r.limbs \o bn_from_u64(r.carry)

Stripped(b) == SubSeq(b, 1, SelectLastInSeq(b, LAMBDA x : x # 0))

\* b \div d, from the top limb down with the remainder.
DivSmall(b, d) ==
  LET r == FoldRight(LAMBDA x, a : [limbs |-> <<(a.rem * Base + x) \div d>> \o a.limbs,
                                    rem   |-> (a.rem * Base + x) % d],
                     b, [limbs |-> << >>, rem |-> 0])
  IN  Stripped(r.limbs)

RECURSIVE bn_shl(_, _), bn_shr(_, _), bn_mul_pow10(_, _)
bn_shl(b, k) ==
  LET step == Min({k, ShiftStep})
  IN  IF k = 0 THEN b ELSE bn_shl(MulAdd(b, 2 ^ step, 0), k - step)
bn_shr(b, k) ==
  LET step == Min({k, ShiftStep})
  IN  IF k = 0 THEN b ELSE bn_shr(DivSmall(b, 2 ^ step), k - step)
bn_mul_pow10(b, k) ==
  LET step == Min({k, LimbDigits})
  IN  IF k = 0 THEN b ELSE bn_mul_pow10(MulAdd(b, 10 ^ step, 0), k - step)

\* The top limb's digits, and LimbDigits for each of the others.
bn_digits(b) ==
  IF b = << >> THEN <<0>>
  ELSE FoldRight(LAMBDA x, ds : ds \o Repeat(0, LimbDigits - Len(Digits(x, 10))) \o Digits(x, 10),
                 Front(b), Digits(Last(b), 10))

(* ---- a double ---- *)

Doubles == [neg : BOOLEAN, exp : 0..ExpMax, frac : 0..(2 ^ FracBits - 1)]

\* An argument or a stored value: a word, a text or a double.
NoDouble == [neg |-> FALSE, exp |-> 0, frac |-> 0]
WordArg(n)   == [word |-> n, text |-> << >>, x |-> NoDouble]
TextArg(t)   == [word |-> 0, text |-> t, x |-> NoDouble]
DoubleArg(x) == [word |-> 0, text |-> << >>, x |-> x]

rt_unpack(x) ==
  IF x.exp = ExpMax THEN [class |-> IF x.frac = 0 THEN "inf" ELSE "nan", m |-> 0, e2 |-> 0]
  ELSE IF x.exp = 0 THEN [class |-> "finite", m |-> x.frac, e2 |-> 1 - Bias - FracBits]
  ELSE [class |-> "finite", m |-> x.frac + 2 ^ FracBits, e2 |-> x.exp - Bias - FracBits]

\* The limbs before they are halved: at no time are there more of them.
Widest(m, e2) ==
  IF e2 >= 0 THEN bn_shl(bn_from_u64(m), e2) ELSE bn_mul_pow10(bn_from_u64(m), -e2)

\* The code's array has BnCap limbs, and nothing looks whether one more fits.
LimbsFit(x) ==
  LET u == rt_unpack(x) IN u.class = "finite" => Len(Widest(u.m, u.e2)) <= BnCap

rt_exact_digits(m, e2) ==
  LET dig  == bn_digits(IF e2 >= 0 THEN Widest(m, e2) ELSE bn_shr(Widest(m, e2), -e2))
      last == SelectLastInSeq(dig, LAMBDA d : d # 0)
  IN  [dig |-> SubSeq(dig, 1, Max({last, 1})), decpt |-> Len(dig) - Max({-e2, 0})]

(* ---- rounding ---- *)

\* One more at the last digit; 99 becomes 100.
rt_round_up(dig) ==
  LET i == SelectLastInSeq(dig, LAMBDA d : d # 9)
  IN  IF i = 0 THEN <<1>> \o Repeat(0, Len(dig))
      ELSE [k \in DOMAIN dig |-> IF k < i THEN dig[k] ELSE IF k = i THEN dig[k] + 1 ELSE 0]

RoundsUp_half(dig, keep) == dig[keep + 1] >= 5
RoundsUp(dig, keep) ==
  LET first == dig[keep + 1]
      rest  == \E k \in (keep + 2)..Len(dig) : dig[k] # 0
  IN  first > 5 \/ (first = 5 /\ (rest \/ (keep > 0 /\ dig[keep] % 2 = 1)))

rt_round_digits(n, wanted) ==
  LET keep == Max({wanted, 0})
      kept == SubSeq(n.dig, 1, keep)
      up   == rt_round_up(kept)
  IN  IF keep >= Len(n.dig) THEN n
      ELSE IF ~RoundsUp(n.dig, keep) THEN [n EXCEPT !.dig = IF keep = 0 THEN <<0>> ELSE kept]
      ELSE IF keep = 0 THEN [dig |-> <<1>>, decpt |-> n.decpt + 1]
      ELSE [dig |-> SubSeq(up, 1, keep), decpt |-> n.decpt + (Len(up) - keep)]

(* ---- emit_float: the body of a field, as the directive says ---- *)

DigitAt(n, i) == IF i \in 0..(Len(n.dig) - 1) THEN n.dig[i + 1] ELSE 0
DigitsAt(n, i, k) == Numeral([j \in 1..k |-> DigitAt(n, i + j - 1)], FALSE)

Point(sp, after) == IF after # << >> \/ "#" \in sp.flags THEN <<".">> \o after ELSE << >>

Fixed(n, prec, sp) ==
  (IF n.decpt <= 0 THEN <<"0">> ELSE DigitsAt(n, 0, n.decpt)) \o Point(sp, DigitsAt(n, n.decpt, prec))

Scientific(n, zero, prec, sp, upper) ==
  LET ex   == IF zero THEN 0 ELSE n.decpt - 1
      size == IF ex < 0 THEN -ex ELSE ex
  IN  DigitsAt(n, 0, 1) \o Point(sp, DigitsAt(n, 1, prec))
        \o <<IF upper THEN "E" ELSE "e", IF ex < 0 THEN "-" ELSE "+">>
        \o (IF size < 10 THEN <<"0">> ELSE << >>) \o Numeral(Digits(size, 10), FALSE)

\* %g: which of the two, with how many digits after the point.
General(n, zero, prec, sp) ==
  LET P     == IF prec = 0 THEN 1 ELSE prec
      r     == rt_round_digits(n, P)
      X     == IF zero THEN 0 ELSE r.decpt - 1
      fixed == X >= -4 /\ X < P
      most  == IF fixed THEN P - 1 - X ELSE P - 1
      digit(k) == DigitAt(r, IF fixed THEN r.decpt + k - 1 ELSE k)
  IN  [n |-> r, conv |-> IF fixed THEN "f" ELSE "e",
       prec |-> IF "#" \in sp.flags THEN most ELSE Max({k \in 0..most : k = 0 \/ digit(k) # 0})]

SignOf(neg, sp) ==
  IF neg THEN <<"-">> ELSE IF "+" \in sp.flags THEN <<"+">> ELSE IF " " \in sp.flags THEN <<" ">> ELSE << >>

FloatBody(x, conv, sp) ==
  LET u     == rt_unpack(x)
      zero  == u.m = 0
      upper == conv \in isupper
      prec  == IF sp.prec >= 0 THEN sp.prec ELSE 6
      n     == IF zero THEN [dig |-> <<0>>, decpt |-> 1] ELSE rt_exact_digits(u.m, u.e2)
      g     == IF conv \in {"g", "G"} THEN General(n, zero, prec, sp)
               ELSE [n |-> IF zero THEN n
                           ELSE rt_round_digits(n, IF conv \in {"e", "E"} THEN prec + 1 ELSE n.decpt + prec),
                     conv |-> tolower[conv], prec |-> prec]
  IN  IF u.class = "inf" THEN (IF upper THEN <<"I", "N", "F">> ELSE <<"i", "n", "f">>)
      ELSE IF u.class = "nan" THEN (IF upper THEN <<"N", "A", "N">> ELSE <<"n", "a", "n">>)
      ELSE IF g.conv = "f" THEN Fixed(g.n, g.prec, sp)
      ELSE Scientific(g.n, zero, g.prec, sp, upper)

(* ---- strtod ---- *)

Fits(b) == SubSeq(b, 1, Min({SbnCap, Len(b)}))
sbn_push_digit(b, d) == Fits(MulAdd(b, 10, d))
sbn_mul_small(b, m)  == Fits(MulAdd(b, m, 0))
sbn_double(b)        == sbn_mul_small(b, 2)

sbn_cmp(a, b) ==
  IF Len(a) # Len(b) THEN Len(a) - Len(b)
  ELSE LET i == SelectLastInSeq([k \in DOMAIN a |-> a[k] # b[k]], LAMBDA x : x)
       IN  IF i = 0 THEN 0 ELSE a[i] - b[i]

sbn_sub(a, b) ==
  LET r == FoldLeft(LAMBDA acc, i :
                      LET d == a[i] - acc.borrow - (IF i \in DOMAIN b THEN b[i] ELSE 0)
                      IN  [limbs |-> Append(acc.limbs, IF d < 0 THEN d + Base ELSE d),
                           borrow |-> IF d < 0 THEN 1 ELSE 0],
                    [limbs |-> << >>, borrow |-> 0], [i \in DOMAIN a |-> i])
  IN  Stripped(r.limbs)

Inf(neg)  == [neg |-> neg, exp |-> ExpMax, frac |-> 0]
Zero(neg) == [neg |-> neg, exp |-> 0, frac |-> 0]
NaN       == [neg |-> FALSE, exp |-> ExpMax, frac |-> 2 ^ (FracBits - 1)]

rt_make_double(neg, mant, e2) ==
  LET biased == e2 + Bias + FracBits
      shift  == 1 - biased
      half   == 2 ^ (shift - 1)
      lost   == mant % 2 ^ shift
      kept   == mant \div 2 ^ shift
      bits   == IF lost > half \/ (lost = half /\ kept % 2 = 1) THEN kept + 1 ELSE kept
  IN  IF mant = 0 THEN Zero(neg)
      ELSE IF biased >= ExpMax THEN Inf(neg)
      ELSE IF biased > 0 THEN [neg |-> neg, exp |-> biased, frac |-> mant % 2 ^ FracBits]
      ELSE IF shift > FracBits + 2 THEN Zero(neg)
      ELSE [neg |-> neg, exp |-> bits \div 2 ^ FracBits, frac |-> bits % 2 ^ FracBits]

(* ---- the quotient big / denom, scaled into [2^FracBits, 2^(FracBits+1)) ---- *)

RECURSIVE TimesPower(_, _, _), Raised(_, _, _), Lowered(_, _, _)
TimesPower(b, m, k) == IF k <= 0 THEN b ELSE TimesPower(sbn_mul_small(b, m), m, k - 1)
Raised(big, lo, e2) ==
  IF sbn_cmp(big, lo) < 0 THEN Raised(sbn_double(big), lo, e2 - 1) ELSE [big |-> big, e2 |-> e2]
Lowered_never(big, lo, e2) == [lo |-> lo, e2 |-> e2]
Lowered(big, lo, e2) ==
  IF sbn_cmp(big, sbn_double(lo)) >= 0 THEN Lowered(big, sbn_double(lo), e2 + 1) ELSE [lo |-> lo, e2 |-> e2]

\* One bit of the long division a step, the rounding bit last.
DivisionStep_strict(a, bit, lo) ==
  LET fits == sbn_cmp(a.rem, lo) > 0
      rem  == IF fits THEN sbn_sub(a.rem, lo) ELSE a.rem
  IN  [q |-> 2 * a.q + (IF fits THEN 1 ELSE 0), rem |-> IF bit < FracBits + 2 THEN sbn_double(rem) ELSE rem]
DivisionStep(a, bit, lo) ==
  LET fits == sbn_cmp(a.rem, lo) >= 0
      rem  == IF fits THEN sbn_sub(a.rem, lo) ELSE a.rem
  IN  [q |-> 2 * a.q + (IF fits THEN 1 ELSE 0), rem |-> IF bit < FracBits + 2 THEN sbn_double(rem) ELSE rem]

Quotient(neg, big, dec_exp, sticky) ==
  LET r    == Raised(TimesPower(big, 10, dec_exp), TimesPower(TimesPower(<<1>>, 10, -dec_exp), 2, FracBits), 0)
      l    == Lowered(r.big, TimesPower(TimesPower(<<1>>, 10, -dec_exp), 2, FracBits), r.e2)
      d    == FoldLeft(LAMBDA a, bit : DivisionStep(a, bit, l.lo), [q |-> 0, rem |-> r.big],
                       [bit \in 1..(FracBits + 2) |-> bit])
      mant == d.q \div 2
      up   == d.q % 2 = 1 /\ (sticky \/ d.rem # << >> \/ mant % 2 = 1)
      m    == IF up THEN mant + 1 ELSE mant
  IN  IF m = 2 ^ (FracBits + 1) THEN rt_make_double(neg, m \div 2, l.e2 + 1) ELSE rt_make_double(neg, m, l.e2)

(* ---- strtod: the value, and where reading stopped ---- *)

Spells(s, i, word) == \A k \in DOMAIN word : At(s, i + k - 1) \in isalpha /\ tolower[At(s, i + k - 1)] = word[k]

\* An exponent, if digits follow the e: its value and its end.
Exponent(s, i) ==
  LET signed == At(s, i + 1) \in {"+", "-"}
      from   == IF signed THEN i + 2 ELSE i + 1
      past   == Past(s, from, isdigit)
      size   == FoldLeft(LAMBDA n, c : IF n < ExpCap THEN n * 10 + Code[c] - Code["0"] ELSE n,
                         0, SubSeq(s, from, past - 1))
  IN  IF At(s, i) \notin {"e", "E"} \/ past = from THEN [v |-> 0, end |-> i]
      ELSE [v |-> IF At(s, i + 1) = "-" THEN -size ELSE size, end |-> past]

strtod(s) ==
  LET i0    == Past(s, 1, isspace)
      neg   == At(s, i0) = "-"
      i1    == IF At(s, i0) \in {"+", "-"} THEN i0 + 1 ELSE i0
      point == Past(s, i1, isdigit)
      i2    == IF At(s, point) = "." THEN Past(s, point + 1, isdigit) ELSE point
      digits == SelectSeq(SubSeq(s, i1, i2 - 1), LAMBDA c : c # ".")
      whole  == point - i1
      taken  == Min({DigitCap, Len(digits)})
      sticky == \E k \in (taken + 1)..Len(digits) : digits[k] # "0"
      big    == FoldLeft(LAMBDA b, c : sbn_push_digit(b, Code[c] - Code["0"]), << >>, SubSeq(digits, 1, taken))
      exp    == Exponent(s, i2)
      dec_exp == exp.v + whole - taken
  IN  IF Spells(s, i1, <<"i", "n", "f">>) THEN [x |-> Inf(neg), end |-> i1 + 3]
      ELSE IF Spells(s, i1, <<"n", "a", "n">>) THEN [x |-> NaN, end |-> i1 + 3]
      ELSE IF digits = << >> THEN [x |-> Zero(FALSE), end |-> 1]
      ELSE [end |-> exp.end,
            x |-> IF big = << >> THEN Zero(neg)
                  ELSE IF dec_exp > DecHigh THEN Inf(neg)
                  ELSE IF dec_exp < -DecLow THEN Zero(neg)
                  ELSE Quotient(neg, big, dec_exp, sticky)]
===============================================================================
