-------------------------------- MODULE Scan --------------------------------
(***************************************************************************)
(* rt/rt_scan.c, sscanf: the format is matched against a text, one         *)
(* directive a step; what does not match ends it.  Each assignment appends *)
(* to the values stored: a word of its type, a text or a double.           *)
(***************************************************************************)
EXTENDS Floats

(* ---- the conversions of rt/rt_stdlib.c: one core reads the digits into a word
   of LongLong bits, and every function clamps what it left to its own type.  A
   result is the value, where reading stopped (an index of the text) and
   whether errno is set. ---- *)

Cap == 2 ^ LongLong - 1

\* A digit's value in bases to 36.
DigitValue ==
  [c \in isdigit \cup isalpha |->
     IF c \in isdigit THEN Code[c] - Code["0"] ELSE Code[tolower[c]] - Code["a"] + 10]
DigitsOf_base(base) == {c \in DOMAIN DigitValue : DigitValue[c] <= base}
DigitsOf(base) == {c \in DOMAIN DigitValue : DigitValue[c] < base}

\* One more digit; the word wraps, and says so.
Accumulate_late(base, w, d) ==
  [v |-> ToUnsigned(w.v * base + d, LongLong), over |-> w.over \/ w.v > Cap \div base]
Accumulate(base, w, d) ==
  [v |-> ToUnsigned(w.v * base + d, LongLong), over |-> w.over \/ w.v > (Cap - d) \div base]

rt_strtox(s, base) ==
  LET i0   == Past(s, 1, isspace)
      i1   == IF At(s, i0) \in {"+", "-"} THEN i0 + 1 ELSE i0
      hex  == base \in {0, 16} /\ At(s, i1) = "0" /\ At(s, i1 + 1) \in {"x", "X"} /\ At(s, i1 + 2) \in isxdigit
      b    == IF hex THEN 16 ELSE IF base # 0 THEN base ELSE IF At(s, i1) = "0" THEN 8 ELSE 10
      i2   == IF hex THEN i1 + 2 ELSE i1
      i3   == Past(s, i2, DigitsOf(b))
      word == FoldLeft(LAMBDA w, c : Accumulate(b, w, DigitValue[c]), [v |-> 0, over |-> FALSE],
                       SubSeq(s, i2, i3 - 1))
  IN  [v |-> word.v, over |-> word.over, neg |-> At(s, i0) = "-", end |-> IF i3 = i2 THEN 1 ELSE i3]

\* strtoll and strtol; strtoull and strtoul.
Signed(r, bits) ==
  LET top  == 2 ^ (bits - 1)
      over == r.over \/ (~r.neg /\ r.v > top - 1) \/ (r.neg /\ r.v > top)
  IN  [erange |-> over, end |-> r.end,
       v |-> IF over THEN (IF r.neg THEN -top ELSE top - 1) ELSE IF r.neg THEN -r.v ELSE r.v]

Unsigned(r, bits) ==
  LET over == r.over \/ r.v > 2 ^ bits - 1
  IN  [erange |-> over, end |-> r.end,
       v |-> IF over THEN 2 ^ bits - 1 ELSE IF r.neg THEN ToUnsigned(-r.v, bits) ELSE r.v]

\* What each makes of r, which rt_strtox read.
strtoll(r)  == Signed(r, LongLong)
strtol(r)   == Signed(r, Long)
strtoull(r) == Unsigned(r, LongLong)
strtoul(r)  == Unsigned(r, Long)

(* ---- sscanf ---- *)

VARIABLES input, ipos, \* the text, and where it is read
          sfmt, spos,  \* the format, and where it is read
          converted,   \* the assignments made, and returned
          stored,      \* what they stored, %n's included
          scan         \* "idle", "scanning" or "ended"

scanVars == <<input, ipos, sfmt, spos, converted, stored, scan>>

Stop == scan' = "ended" /\ UNCHANGED <<input, ipos, sfmt, spos, converted, stored>>

Advance(t, q) == ipos' = t /\ spos' = q /\ UNCHANGED <<input, sfmt, scan>>
Pass(t, q)    == Advance(t, q) /\ UNCHANGED <<converted, stored>>
Store(t, q, d, value) ==
  /\ Advance(t, q)
  /\ IF d.suppress THEN UNCHANGED <<converted, stored>>
     ELSE converted' = converted + 1 /\ stored' = Append(stored, value)

Scanning == scan = "scanning" /\ spos <= Len(sfmt)
FormatEnds == scan = "scanning" /\ spos > Len(sfmt) /\ Stop

White ==
  /\ Scanning /\ sfmt[spos] \in isspace
  /\ Pass(Past(input, ipos, isspace), spos + 1)

Literal ==
  /\ Scanning /\ sfmt[spos] \notin isspace \cup {"%"}
  /\ IF At(input, ipos) = sfmt[spos] THEN Pass(ipos + 1, spos + 1) ELSE Stop

\* The directive at spos: suppression, width, length, conversion, and what follows.
ScanDirective ==
  LET i1 == IF At(sfmt, spos + 1) = "*" THEN spos + 2 ELSE spos + 1
      i2 == Past(sfmt, i1, isdigit)
      i3 == Past(sfmt, i2, {"l", "h", "z", "j"})
      many(C) == Cardinality({k \in i2..(i3 - 1) : sfmt[k] \in C})
  IN  [suppress |-> i1 = spos + 2,
       width |-> IF i2 = i1 THEN -1
                 ELSE FoldLeft(LAMBDA n, c : n * 10 + DigitValue[c], 0, SubSeq(sfmt, i1, i2 - 1)),
       wide |-> many({"l"}) >= 2 \/ many({"z", "j"}) > 0, h |-> many({"h"}),
       conv |-> At(sfmt, i3), next |-> i3 + 1]

AtPercent == Scanning /\ sfmt[spos] = "%"

\* At most width characters from i on, all of C.
Run_unbounded(i, d, C) == Past(input, i, C)
Run(i, d, C) == LET e == Past(input, i, C) IN IF d.width >= 0 THEN Min({e, i + d.width}) ELSE e

ScanCount(d) ==
  /\ d.conv = "n"
  /\ Advance(ipos, d.next) /\ UNCHANGED converted
  /\ stored' = IF d.suppress THEN stored ELSE Append(stored, WordArg(ipos - 1))

ScanChars(d) ==
  /\ d.conv = "c"
  /\ \E n \in {IF d.width >= 0 THEN d.width ELSE 1} :
         IF ipos + n - 1 > Len(input) THEN Stop
         ELSE Store(ipos + n, d.next, d, TextArg(SubSeq(input, ipos, ipos + n - 1)))

ScanString(d) ==
  /\ d.conv = "s"
  /\ \E i \in {Past(input, ipos, isspace)} : \E e \in {Run(i, d, Char \ isspace)} :
         IF i > Len(input) THEN Stop ELSE Store(e, d.next, d, TextArg(SubSeq(input, i, e - 1)))

\* %[...]: the set, with ranges, and where the directive ends.
ScanSet(i0) ==
  LET negate == At(sfmt, i0) = "^"
      i1     == IF negate THEN i0 + 1 ELSE i0
      first  == IF At(sfmt, i1) = "]" THEN i1 + 1 ELSE i1
      close  == Past(sfmt, first, Char \ {"]"})
      items[i \in first..(close + 2)] ==
        IF i >= close THEN {}
        ELSE IF At(sfmt, i + 1) = "-" /\ At(sfmt, i + 2) \notin {"nul", "]"}
             THEN WithCodes(Code[sfmt[i]]..Code[sfmt[i + 2]]) \cup items[i + 3]
             ELSE {sfmt[i]} \cup items[i + 1]
      set    == items[first] \cup (IF first = i1 THEN {} ELSE {"]"})
  IN  [chars |-> IF negate THEN Char \ set ELSE set, next |-> Min({close + 1, Len(sfmt) + 1})]

ScanSetOf(d) ==
  /\ d.conv = "["
  /\ \E set \in {ScanSet(d.next)} : \E e \in {Run(ipos, d, set.chars)} :
         IF e = ipos THEN Stop ELSE Store(e, set.next, d, TextArg(SubSeq(input, ipos, e - 1)))

Narrow(v, d) ==
  IF d.wide THEN ToSigned(v, LongLong)
  ELSE ToSigned(v, IF d.h = 1 THEN Short ELSE IF d.h >= 2 THEN Byte ELSE Long)

IntegerBase == [d |-> 10, i |-> 0, u |-> 10, x |-> 16, o |-> 8]

ScanInteger(d) ==
  /\ d.conv \in DOMAIN IntegerBase
  /\ \E i \in {Past(input, ipos, isspace)} :
     \E r \in {rt_strtox(SubSeq(input, i, Len(input)), IntegerBase[d.conv])} :
     \E n \in {IF d.conv \in {"d", "i"} THEN strtoll(r) ELSE strtoull(r)} :
         IF n.end = 1 THEN Stop ELSE Store(i + n.end - 1, d.next, d, WordArg(Narrow(n.v, d)))

\* The double read; its narrowing to the float a plain %f stores is left out.
ScanFloat(d) ==
  /\ d.conv \in {"f", "e", "g", "a"}
  /\ \E i \in {Past(input, ipos, isspace)} : \E r \in {strtod(SubSeq(input, i, Len(input)))} :
         IF r.end = 1 THEN Stop ELSE Store(i + r.end - 1, d.next, d, DoubleArg(r.x))

ScanPercent(d) ==
  /\ d.conv = "%"
  /\ \E i \in {Past(input, ipos, isspace)} :
         IF At(input, i) = "%" THEN Pass(i + 1, d.next) ELSE Stop

ScanUnknown(d) ==
  /\ d.conv \notin {"n", "c", "s", "[", "d", "i", "u", "x", "o", "f", "e", "g", "a", "%"}
  /\ Stop

ScanDirectives(d) ==
  \/ ScanCount(d) \/ ScanChars(d) \/ ScanString(d) \/ ScanSetOf(d)
  \/ ScanInteger(d) \/ ScanFloat(d) \/ ScanPercent(d) \/ ScanUnknown(d)

ScanNext ==
  \/ FormatEnds \/ White \/ Literal
  \/ AtPercent /\ \E d \in {ScanDirective} : ScanDirectives(d)
=============================================================================
