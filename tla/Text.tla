-------------------------------- MODULE Text --------------------------------
(***************************************************************************)
(* The functions on texts together (rt/rt_format.c, rt/rt_scan.c,          *)
(* rt/rt_stdlib.c, rt/rt_string.c, rt/rt_wstring.c): a program prints into *)
(* memory or to a stream, and reads back what it printed; or it reads a    *)
(* text from elsewhere; or it calls the string functions.                  *)
(***************************************************************************)
EXTENDS Format, Scan, Strings

CONSTANTS Cases, Caps   \* what the program prints and reads; the sizes of its memory, -1 for a stream

\* No double is printed whose limbs the array does not hold: of those Numbers.tla.
ASSUME CasesAssumption == \A c \in Cases : \A k \in DOMAIN c.args : LimbsFit(c.args[k].x)

VARIABLE given          \* the case: what the format means and what should come back

vars == <<given, formatVars, scanVars, stringVars>>

NoCase == [printed |-> FALSE, back |-> << >>, base |-> -1]

PrintsOrScans ==
  /\ given \in Cases
  /\ fmt = given.fmt /\ args = given.args /\ sfmt = given.sfmt
  /\ IF given.printed THEN cap \in Caps /\ phase = "format" ELSE cap = 0 /\ phase = "done"
  /\ input = given.input /\ scan = (IF given.printed THEN "idle" ELSE "scanning")
  /\ NoStrings

CallsStrings ==
  /\ given = NoCase /\ fmt = << >> /\ args = << >> /\ sfmt = << >>
  /\ cap = 0 /\ phase = "done" /\ input = << >> /\ scan = "ended"
  /\ StringsInit

Init ==
  /\ PrintsOrScans \/ CallsStrings
  /\ FormatInit /\ ipos = 1 /\ spos = 1 /\ converted = 0 /\ stored = << >>

\* The program reads what it printed, if all of it was taken.
Rescan ==
  /\ phase = "done" /\ scan = "idle"
  /\ input' = (IF toStream THEN out ELSE SubSeq(out, 1, Max({Len(out) - 1, 0})))
  /\ scan' = "scanning"
  /\ UNCHANGED <<given, formatVars, ipos, sfmt, spos, converted, stored, stringVars>>

Next ==
  \/ FormatNext /\ UNCHANGED <<given, scanVars, stringVars>>
  \/ Rescan
  \/ ScanNext /\ UNCHANGED <<given, formatVars, stringVars>>
  \/ StringsNext /\ UNCHANGED <<given, formatVars, scanVars>>

Spec == Init /\ [][Next]_vars

TypeOK ==
  /\ FormatTypeOK
  /\ ipos \in 1..(Len(input) + 1) /\ spos \in 1..(Len(sfmt) + 2) /\ converted \in 0..Len(sfmt)
  /\ stored \in Seq([word : -(2 ^ LongLong)..(2 ^ LongLong), text : Seq(Char), x : Doubles])
  /\ scan \in {"idle", "scanning", "ended"}

(***************************************************************************)
(* What C99 says of the conversions: 7.20.1.4 of the strtol family and     *)
(* 7.19.6.1 of the fields that printf makes.  Both are stated of a text    *)
(* from outside, by what it denotes, without an order of reading.          *)
(***************************************************************************)

(* ---- numerals ---- *)

ValueOf == [c \in isdigit \cup isalpha |-> Max({k \in 0..35 : c \in ToSet(Numeral(<<k>>, TRUE) \o Numeral(<<k>>, FALSE))})]

IsNumeral(t, base) == t # << >> /\ \A i \in DOMAIN t : t[i] \in DOMAIN ValueOf /\ ValueOf[t[i]] < base

Denotes(t, base) == FoldFunction(+, 0, [i \in DOMAIN t |-> ValueOf[t[i]] * base ^ (Len(t) - i)])

(* ---- the strtol family ---- *)

Signs == {<< >>, <<"+">>, <<"-">>}

\* The ways to read t as a subject: a sign, a prefix that may go with the base, and digits in it.
Readings(t, base) ==
  {r \in [sign : Signs, prefix : {<< >>, <<"0", "x">>, <<"0", "X">>}, from : 1..(Len(t) + 1), base : {8, 10, 16, base}] :
     LET digits == SubSeq(t, r.from, Len(t))
     IN  /\ t = r.sign \o r.prefix \o digits
         /\ IsNumeral(digits, r.base)
         /\ r.prefix # << >> => r.base = 16
         /\ IF base # 0 THEN r.base = base
            ELSE r.base = IF r.prefix # << >> THEN 16 ELSE IF digits[1] = "0" THEN 8 ELSE 10}

\* The subjects s may begin with, after white space: a sign, a size and where the rest begins.
Begin(s) == Min({i \in 1..(Len(s) + 1) : At(s, i) \notin isspace})
Subjects(s, base) ==
  LET begin == Begin(s)
  IN  UNION {{[neg |-> r.sign = <<"-">>, size |-> Denotes(SubSeq(s, begin + r.from - 1, j), r.base), end |-> j + 1] :
                r \in Readings(SubSeq(s, begin, j), base)} : j \in begin..Len(s)}

\* The longest of them, or nothing.
CSubject(s, base) ==
  LET all == Subjects(s, base) \cup {[neg |-> FALSE, size |-> 0, end |-> 1]}
  IN  CHOOSE c \in all : \A other \in all : other.end <= c.end

\* What strtol gives of the subject c for a type of the values lo..hi; the unsigned ones wrap a minus.
CStrto(c, lo, hi) ==
  LET v    == IF c.neg THEN -c.size ELSE c.size
      over == IF lo < 0 THEN v \notin lo..hi ELSE c.size > hi
  IN  [erange |-> over, end |-> c.end,
       v |-> IF ~over THEN (IF lo = 0 THEN v % (hi + 1) ELSE v)
             ELSE IF c.neg /\ lo < 0 THEN lo ELSE hi]

(* ---- a field: t is pad, lead, body, pad ---- *)

Spaces(t) == \A i \in DOMAIN t : t[i] = " "

\* The body of t with l spaces before it and r after, if the width accounts for them.
IsPadded(t, l, r, d) ==
  /\ Spaces(SubSeq(t, 1, l)) /\ Spaces(SubSeq(t, Len(t) - r + 1, Len(t)))
  /\ IF "-" \in d.flags THEN l = 0 ELSE r = 0
  /\ Len(t) >= d.width
  /\ Len(t) > d.width => l = 0 /\ r = 0

\* t is v in the base, after the lead, with enough digits and none to spare.
IsIntegerField(t, d, lead, base, size) ==
  \E l, r \in 0..Len(t) :
    LET core   == SubSeq(t, l + 1, Len(t) - r)
        digits == SubSeq(core, Len(lead) + 1, Len(core))
        zeros  == "0" \in d.flags /\ "-" \notin d.flags /\ d.prec < 0
    IN  /\ IsPadded(t, l, r, d)
        /\ core = lead \o digits /\ IsNumeral(digits, base) /\ Denotes(digits, base) = size
        /\ \A i \in DOMAIN digits : digits[i] \notin (IF d.conv \in {"X", "p"} THEN islower ELSE isupper)
        /\ Len(digits) >= d.prec
        /\ zeros => l = 0
        /\ digits[1] = "0" /\ Len(digits) > Max({d.prec, 1}) => zeros /\ Len(t) = d.width

\* t is the argument, or as much of it as the precision allows.
IsStringField(t, d, s) ==
  \E l, r \in 0..Len(t) :
    LET core == SubSeq(t, l + 1, Len(t) - r)
    IN  /\ IsPadded(t, l, r, d)
        /\ Len(core) = IF d.prec >= 0 /\ d.prec < Len(s) THEN d.prec ELSE Len(s)
        /\ \A i \in DOMAIN core : core[i] = s[i]

\* t is a sign and a finite number with as many digits after its point as the precision says,
\* or the name of what is not finite, which zeros never fill.
IsFloatField(t, d, lead, finite) ==
  \E l, r \in 0..Len(t) :
    LET core  == SubSeq(t, l + 1, Len(t) - r)
        body  == SubSeq(core, Len(lead) + 1, Len(core))
        prec  == IF d.prec < 0 THEN 6 ELSE d.prec
        point == {i \in DOMAIN body : body[i] = "."}
        whole == Min(point \cup {Len(body) + 1}) - 1
        word  == {i \in DOMAIN body : body[i] \notin (IF d.conv \in isupper THEN isupper ELSE islower)} = {}
    IN  /\ IsPadded(t, l, r, d) /\ core = lead \o body
        /\ IF finite
           THEN /\ whole >= 1 /\ \A i \in DOMAIN body \ point : body[i] \in isdigit
                /\ IF point = {} THEN prec = 0 ELSE Cardinality(point) = 1 /\ Len(body) - whole - 1 = prec
                /\ (prec > 0 \/ "#" \in d.flags) => point # {}
                /\ ("0" \in d.flags /\ "-" \notin d.flags) => l = 0
                /\ (body[1] = "0" /\ whole > 1) => "0" \in d.flags /\ Len(t) = d.width
           ELSE Len(body) = 3 /\ word

(* ---- properties ---- *)

Printed == given.printed /\ phase = "done"

\* However a format is read, the sink behind it only ever sees pieces of text,
\* one directive's after the other's: a program that prints is a SinkSpec, of
\* which Sink.tla says that OutputFits.
PrintsToASink == SinkSpec

\* The value a directive's length modifiers leave of the word passed.
Bits(d) == CASE d.mods = <<"h", "h">> -> Byte [] d.mods = <<"h">> -> Short
             [] d.mods \in {<<"l", "l">>, <<"z">>, <<"j">>, <<"t">>} -> LongLong [] OTHER -> Long
Value(d, n) == IF d.conv \in {"d", "i"} THEN ToSigned(n, Bits(d)) ELSE ToUnsigned(n, Bits(d))

CSign(neg, d) ==
  IF neg THEN <<"-">> ELSE IF "+" \in d.flags THEN <<"+">> ELSE IF " " \in d.flags THEN <<" ">> ELSE << >>

FieldIsC ==
  Printed /\ given.d # << >> =>
    LET d == given.d[1]
        v == Value(d, given.value.word)
    IN  CASE d.conv \in {"d", "i"} ->
               IsIntegerField(text, d, CSign(v < 0, d), 10, IF v < 0 THEN -v ELSE v)
          [] d.conv = "u" -> IsIntegerField(text, d, << >>, 10, v)
          [] d.conv = "o" -> IsIntegerField(text, d, IF "#" \in d.flags /\ v # 0 THEN <<"0">> ELSE << >>, 8, v)
          [] d.conv \in {"x", "X"} ->
               IsIntegerField(text, d, IF "#" \in d.flags /\ v # 0 THEN <<"0", d.conv>> ELSE << >>, 16, v)
          [] d.conv = "p" -> IsIntegerField(text, [d EXCEPT !.prec = LongLong \div 4], << >>, 16,
                                            ToUnsigned(given.value.word, LongLong))
          [] d.conv = "c" -> IsStringField(text, [d EXCEPT !.prec = 1], given.value.text)
          [] d.conv = "s" -> IsStringField(text, d, given.value.text)
          [] OTHER -> IsFloatField(text, d, CSign(given.value.x.neg, d), given.value.x.exp # ExpMax)

\* Each directive prints the field C99 7.19.6.1 describes: the value its
\* modifiers leave, the sign and the prefix, no fewer digits than asked for and
\* none to spare, and a width made up on the side, and with the character, the
\* flags ask for.
PrintfIsC == TypeOK /\ FieldIsC

Whole == given.printed => IF toStream THEN ret >= 0 ELSE cap > Len(text)

\* What was printed is read back: sscanf with the same directives stores the
\* values printf was given, as far as their types hold them, and counts them.
RoundTrip ==
  scan = "ended" /\ given.back # << >> /\ Whole =>
    stored = given.back /\ converted = Len(given.back) - given.ns

ReadsOneNumeral == scan = "ended" /\ given.base # -1

\* The input item: what is, or begins, a subject, and as much of it as there is.
MayGoOn(t, base) == Readings(t, base) # {} \/ Readings(t \o <<"0">>, base) # {}
Item(s, base) ==
  LET begin == Begin(s)
  IN  SubSeq(s, begin, Max({j \in (begin - 1)..Len(s) : MayGoOn(SubSeq(s, begin, j), base)}))

EOF == -1
ScanIsC ==
  ReadsOneNumeral /\ given.sfmt # << >> =>
    LET top == 2 ^ LongLong
    IN  \A subject \in {CSubject(input, given.base)} :
        \A c \in {IF given.unsigned THEN CStrto(subject, 0, top - 1)
                   ELSE CStrto(subject, -(top \div 2), top \div 2 - 1)} :
          IF Begin(input) > Len(input) THEN stored = << >> /\ converted = EOF
          ELSE IF Readings(Item(input, given.base), given.base) = {} THEN stored = << >> /\ converted = 0
          ELSE stored = <<WordArg(ToSigned(c.v, Long)), WordArg(c.end - 1)>> /\ converted = 1

StrtoIsC ==
  ReadsOneNumeral =>
    \A base \in {0, 2, 10, 16, 36} :
    \A r \in {rt_strtox(input, base)}, subject \in {CSubject(input, base)} :
      /\ strtoll(r)  = CStrto(subject, -(2 ^ (LongLong - 1)), 2 ^ (LongLong - 1) - 1)
      /\ strtoull(r) = CStrto(subject, 0, 2 ^ LongLong - 1)
      /\ strtol(r)   = CStrto(subject, -(2 ^ (Long - 1)), 2 ^ (Long - 1) - 1)
      /\ strtoul(r)  = CStrto(subject, 0, 2 ^ Long - 1)

\* One integer conversion of sscanf (C99 7.19.6.2p9-10, 7.19.6.7p3) takes the
\* longest item that may be a subject of 7.20.1.4: if it is one its value is
\* stored and what follows is left, if it is not nothing is stored, and if there
\* is none for want of input EOF comes back.  The code has no EOF, and takes the
\* 0 of a 0x without digits: texts that end before the conversion, and those,
\* are not read by sscanf here (MCBlank and MCBareHex refute this).  strtol,
\* strtoul and their long long forms take the longest subject, clamp at the
\* edges of their own types, set errno exactly when they do, and leave the end
\* at what follows, in every base and of every text.
NumeralsAreC == ScanIsC /\ StrtoIsC

\* What the scanf and strtol families read: their own output, and any numeral.
ScansAsC == RoundTrip /\ NumeralsAreC
=============================================================================
