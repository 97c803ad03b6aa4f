------------------------------- MODULE Format -------------------------------
(***************************************************************************)
(* rt/rt_format.c: the printf family.  __c99m_vformat reads the format,    *)
(* one directive a step, and hands pieces of text to the sink, of Sink.tla.*)
(***************************************************************************)
EXTENDS Floats, Sink

CONSTANT  PadChunk    \* the bytes sink_ch pads with at a time (32)

VARIABLES fmt, args,  \* the format and the arguments, words of LongLong bits or texts
          p, ap       \* where it reads the format; the arguments taken

formatVars == <<fmt, args, p, ap, sinkVars>>

sink_ch(c, n) == [i \in 1..((n + PadChunk - 1) \div PadChunk) |->
                    Repeat(c, Min({PadChunk, n - (i - 1) * PadChunk}))]

(* ---- one field ---- *)

\* Its pieces; padTo is the least digits, or -1 if zeros may fill the width.
emit_padded(sign, prefix, body, sp, padTo) ==
  LET zeros == Max({padTo - Len(body), 0})
      fill  == Max({sp.width - (Len(sign) + Len(prefix) + Len(body) + zeros), 0})
      lead  == <<sign>> \o [i \in DOMAIN prefix |-> <<prefix[i]>>]
      rest  == sink_ch("0", zeros) \o <<body>>
  IN  SelectSeq(IF "-" \in sp.flags THEN lead \o rest \o sink_ch(" ", fill)
                ELSE IF "0" \in sp.flags /\ padTo < 0 THEN lead \o sink_ch("0", fill) \o rest
                ELSE sink_ch(" ", fill) \o lead \o rest,
                LAMBDA t : t # << >>)

rt_utoa(v, base, upper) == Numeral(Digits(v, base), upper)

(* ---- the directive at p: flags, width, precision, length, conversion ---- *)

Flags == {"-", "+", " ", "#", "0"}
Number(i, j) == FoldLeft(LAMBDA n, c : n * 10 + Code[c] - Code["0"], 0, SubSeq(fmt, i, j - 1))
IntArg(i) == ToSigned(args[i].word, Long)
Many(i, j, C) == Cardinality({k \in i..(j - 1) : fmt[k] \in C})

Directive ==
  LET i1    == Past(fmt, p + 1, Flags)
      star  == At(fmt, i1) = "*"
      i2    == IF star THEN i1 + 1 ELSE Past(fmt, i1, isdigit)
      width == IF star THEN IntArg(ap + 1) ELSE Number(i1, i2)
      ap2   == IF star THEN ap + 1 ELSE ap
      dot   == At(fmt, i2) = "."
      dstar == dot /\ At(fmt, i2 + 1) = "*"
      i3    == IF dstar THEN i2 + 2 ELSE IF dot THEN Past(fmt, i2 + 1, isdigit) ELSE i2
      prec  == IF dstar THEN IntArg(ap2 + 1) ELSE IF dot THEN Number(i2 + 1, i3) ELSE -1
      i4    == Past(fmt, i3, {"h", "l", "z", "t", "j", "L"})
  IN  [flags |-> {fmt[k] : k \in (p + 1)..(i1 - 1)} \cup (IF width < 0 THEN {"-"} ELSE {}),
       width |-> IF width < 0 THEN -width ELSE width,
       prec  |-> prec,
       h     |-> Many(i3, i4, {"h"}),
       wide  |-> Many(i3, i4, {"l"}) >= 2 \/ Many(i3, i4, {"z", "t", "j"}) > 0,
       conv  |-> At(fmt, i4),
       next  |-> Min({i4 + 1, Len(fmt) + 1}),
       ap    |-> IF dstar THEN ap2 + 1 ELSE ap2]

NoZeroFill_never(d) == d
NoZeroFill(d) == [d EXCEPT !.flags = d.flags \ {"0"}]

IntegerField(d, word) ==
  LET v1 == IF d.wide THEN word ELSE ToSigned(word, Long)
      v  == IF d.h = 1 THEN ToSigned(v1, Short) ELSE IF d.h >= 2 THEN ToSigned(v1, Byte) ELSE v1
  IN  emit_padded(SignOf(v < 0, d), << >>, rt_utoa(IF v < 0 THEN -v ELSE v, 10, FALSE),
                  IF d.prec >= 0 THEN NoZeroFill(d) ELSE d, d.prec)

UnsignedField(d, word) ==
  LET v1 == ToUnsigned(word, IF d.wide THEN LongLong ELSE Long)
      v  == IF d.h = 1 THEN ToUnsigned(v1, Short) ELSE IF d.h >= 2 THEN ToUnsigned(v1, Byte) ELSE v1
      prefix == IF "#" \notin d.flags \/ v = 0 THEN << >>
                ELSE CASE d.conv \in {"x", "X"} -> <<"0", d.conv>> [] d.conv = "o" -> <<"0">> [] OTHER -> << >>
      base   == CASE d.conv = "u" -> 10 [] d.conv = "o" -> 8 [] OTHER -> 16
  IN  emit_padded(<< >>, prefix, rt_utoa(v, base, d.conv = "X"), IF d.prec >= 0 THEN NoZeroFill(d) ELSE d, d.prec)

Null == <<"nul">>
StringField(d, s) ==
  LET t == IF s = Null THEN <<"(", "n", "u", "l", "l", ")">> ELSE s
  IN  emit_padded(<< >>, << >>, IF d.prec >= 0 THEN SubSeq(t, 1, Min({d.prec, Len(t)})) ELSE t, d, -1)

FloatField(d, x, body) ==
  emit_padded(SignOf(x.neg, d), << >>, body,
              IF rt_unpack(x).class = "finite" THEN d ELSE NoZeroFill(d), -1)

(* ---- __c99m_vformat, a directive or a run of text a step ---- *)

Take(ps, d, n) ==
  /\ HandOver(ps) /\ p' = d.next /\ ap' = d.ap + n
  /\ UNCHANGED <<fmt, args>>

Reading == Idle /\ p <= Len(fmt)
AtDirective == Reading /\ fmt[p] = "%" /\ At(fmt, p + 1) # "%"
Arg(d) == args[d.ap + 1]

Plain ==
  /\ Reading /\ fmt[p] # "%"
  /\ LET q == Past(fmt, p, Char \ {"%"}) IN Take(<<SubSeq(fmt, p, q - 1)>>, [next |-> q, ap |-> ap], 0)

Percent == Reading /\ fmt[p] = "%" /\ At(fmt, p + 1) = "%" /\ Take(<<<<"%">>>>, [next |-> p + 2, ap |-> ap], 0)

Emit(d) ==
  CASE d.conv \in {"d", "i"}           -> Take(IntegerField(d, Arg(d).word), d, 1)
    [] d.conv \in {"u", "o", "x", "X"} -> Take(UnsignedField(d, Arg(d).word), d, 1)
    [] d.conv = "c" -> Take(emit_padded(<< >>, << >>, SubSeq(Arg(d).text, 1, 1), d, -1), d, 1)
    [] d.conv = "s" -> Take(StringField(d, Arg(d).text), d, 1)
    [] d.conv = "p" -> Take(emit_padded(<< >>, << >>, rt_utoa(ToUnsigned(Arg(d).word, LongLong), 16, TRUE), d,
                                        LongLong \div 4), d, 1)
    [] d.conv \in {"f", "F", "e", "E", "g", "G"} ->
           \E body \in {FloatBody(Arg(d).x, d.conv, d)} : Take(FloatField(d, Arg(d).x, body), d, 1)
    [] OTHER -> Take(<<<<"%">>>> \o (IF d.conv = "nul" THEN << >> ELSE <<<<d.conv>>>>), d, 0)

Conversion == AtDirective /\ \E d \in {Directive} : d.conv # "n" /\ Emit(d)

Count_kept ==
  /\ AtDirective
  /\ \E d \in {Directive} : d.conv = "n" /\ p' = d.next /\ ap' = d.ap + 1
  /\ counts' = Append(counts, Len(out)) /\ UNCHANGED <<fmt, args, cap, pieces, text, out, failed, ret, phase>>
Count ==
  /\ AtDirective
  /\ \E d \in {Directive} : d.conv = "n" /\ p' = d.next /\ ap' = d.ap + 1
  /\ CountMade /\ UNCHANGED <<fmt, args>>

vsnprintf == p > Len(fmt) /\ Terminate /\ UNCHANGED <<fmt, args, p, ap>>

Write == sink_bytes /\ UNCHANGED <<fmt, args, p, ap>>

FormatInit == p = 1 /\ ap = 0 /\ Cleared

FormatNext == Write \/ Plain \/ Percent \/ Conversion \/ Count \/ vsnprintf

FormatTypeOK == p \in 1..(Len(fmt) + 1) /\ ap \in 0..Len(args) /\ SinkTypeOK
=============================================================================
