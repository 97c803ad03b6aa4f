---------------------------- MODULE StdioProofs ----------------------------
(***************************************************************************)
(* For every byte set, buffer size, device size and set of calls, a stream *)
(* keeps its type and its buffer means what its direction says; and it is  *)
(* the unbuffered file of ByteFile.tla: every call maps to one of its      *)
(* calls, and an event of the device to nothing at all.                    *)
(***************************************************************************)
EXTENDS Stdio, SequenceTheorems, WellFoundedInduction, TLAPS

\* The invariant of one stream, and of the program: its type alone is not
\* inductive, because only an honest buffer bounds the read position.
Good(t) == t \in Stream /\ Sized(t) /\ Honest(t)
Return  == [op : Calls, ok : BOOLEAN, bytes : Seq(Byte)]
IInv    == Good(s) /\ open \in BOOLEAN /\ ret \in Return

(* ---- natural numbers ---- *)

\* Every nonempty set of natural numbers has a least element.
THEOREM LeastNatural ==
  ASSUME NEW T, T \subseteq Nat, T # {}
  PROVE  \E x \in T : \A y \in T : x <= y
<1>. DEFINE R == {ss \in Nat \X Nat : ss[1] < ss[2]}
<1>1. IsWellFoundedOn(R, Nat)
  BY NatLessThanWellFounded DEF OpToRel
<1>2. PICK x \in T : \A y \in T : ~(<<y, x>> \in R)
  <2>. HIDE DEF R
  <2>. QED BY <1>1, WFMin
<1>3. ASSUME NEW y \in T PROVE x <= y
  <2>1. x \in Nat /\ y \in Nat /\ <<y, x>> \in Nat \X Nat
    OBVIOUS
  <2>2. <<y, x>>[1] = y /\ <<y, x>>[2] = x
    OBVIOUS
  <2>3. ~(y < x)
    BY <1>2, <2>1, <2>2, Zenon
  <2>. QED BY <2>1, <2>3
<1>. QED BY <1>3

\* A nonempty set of natural numbers with a bound has a greatest element.
THEOREM GreatestNatural ==
  ASSUME NEW T, NEW n \in Nat, T \subseteq 0 .. n, T # {}
  PROVE  \E x \in T : \A y \in T : y <= x
<1>. DEFINE M == {k \in 0 .. n : n - k \in T}
<1>1. ASSUME NEW y \in T PROVE n - y \in M
  <2>1. y \in 0 .. n /\ n - y \in 0 .. n /\ n - (n - y) = y
    OBVIOUS
  <2>. QED BY <2>1
<1>2. PICK m \in M : \A k \in M : m <= k
  <2>1. PICK y \in T : TRUE
    OBVIOUS
  <2>2. M \subseteq Nat /\ n - y \in M
    BY <1>1
  <2>. HIDE DEF M
  <2>. QED BY <2>2, LeastNatural
<1>3. ASSUME NEW y \in T PROVE y <= n - m
  <2>1. y \in 0 .. n /\ m \in 0 .. n /\ m <= n - y
    BY <1>1, <1>2
  <2>. QED BY <2>1
<1>. QED BY <1>2, <1>3

USE ByteAssumption, SizeAssumption

(* ---- sequences ---- *)

\* A function on an interval from 1 is a sequence.
LEMMA FunctionIsSeq ==
  ASSUME NEW S, NEW n \in Nat, NEW f \in [1 .. n -> S]
  PROVE  f \in Seq(S) /\ Len(f) = n
<1>1. f \in Seq(S)
  BY SeqDef
<1>2. Len(f) \in Nat /\ DOMAIN f = 1 .. Len(f)
  BY <1>1, LenProperties
<1>3. DOMAIN f = 1 .. n
  OBVIOUS
<1>. QED BY <1>1, <1>2, <1>3, SMT

\* A stretch of a sequence is a sequence.
LEMMA Stretch ==
  ASSUME NEW S, NEW q \in Seq(S), NEW m \in Int, NEW n \in Int,
         m >= 1, n <= Len(q)
  PROVE  /\ SubSeq(q, m, n) \in Seq(S)
         /\ Len(SubSeq(q, m, n)) = IF m <= n THEN n - m + 1 ELSE 0
         /\ \A i \in 1 .. n - m + 1 : SubSeq(q, m, n)[i] = q[m + i - 1]
<1>1. Len(q) \in Nat
  BY LenProperties
<1>2. \A i \in m .. n : q[i] \in S
  BY <1>1, ElementOfSeq
<1>. QED BY <1>2, SubSeqProperties

\* Writing bytes over a file gives a file as long as it has to be.
LEMMA OverlayType ==
  ASSUME NEW c \in Seq(Byte), NEW at \in Nat, NEW p \in Seq(Byte)
  PROVE  /\ Overlay(c, at, p) \in Seq(Byte)
         /\ p = << >> => Len(Overlay(c, at, p)) = Len(c)
         /\ p # << >> => Len(Overlay(c, at, p)) = Larger(Len(c), at + Len(p))
<1>1. CASE p = << >>
  BY <1>1 DEF Overlay
<1>2. CASE p # << >>
  <2>. DEFINE n == Larger(Len(c), at + Len(p))
  <2>1. Len(c) \in Nat /\ Len(p) \in Nat /\ n \in Nat
    BY LenProperties DEF Larger
  <2>2. ASSUME NEW i \in 1 .. n
        PROVE  (IF at < i /\ i <= at + Len(p) THEN p[i - at]
                ELSE IF i <= Len(c) THEN c[i] ELSE Zero) \in Byte
    <3>1. CASE at < i /\ i <= at + Len(p)
      <4>1. i - at \in 1 .. Len(p)
        BY <2>1, <3>1
      <4>. QED BY <3>1, <4>1, ElementOfSeq
    <3>2. CASE ~(at < i /\ i <= at + Len(p)) /\ i <= Len(c)
      <4>1. i \in 1 .. Len(c)
        BY <2>1, <3>2
      <4>. QED BY <3>2, <4>1, ElementOfSeq
    <3>3. CASE ~(at < i /\ i <= at + Len(p)) /\ ~(i <= Len(c))
      BY <3>3
    <3>. QED BY <3>1, <3>2, <3>3
  <2>3. Overlay(c, at, p) \in [1 .. n -> Byte]
    BY <1>2, <2>2 DEF Overlay
  <2>. QED BY <1>2, <2>1, <2>3, FunctionIsSeq
<1>. QED BY <1>1, <1>2

(* ---- the handle ---- *)

\* The device takes between none and all of the bytes, never past its end.
LEMMA TakenRange ==
  ASSUME NEW t \in Stream, NEW n \in Nat
  PROVE  /\ Taken(t, n) \in 0 .. n
         /\ Taken(t, n) # 0 => t.at + Taken(t, n) <= Quota
BY DEF Taken, Lesser, Larger, Stream

\* ReadFile delivers a stretch of the file from the handle on, of at most n
\* bytes.
LEMMA DeliveredType ==
  ASSUME NEW t \in Stream, NEW n \in Nat
  PROVE  /\ Delivered(t, n) \in Seq(Byte)
         /\ Len(Delivered(t, n)) \in 0 .. n
         /\ Delivered(t, n) = SubSeq(t.data, t.at + 1, t.at + Len(Delivered(t, n)))
<1>1. /\ t.data \in Seq(Byte) /\ t.at \in Nat /\ t.up \in BOOLEAN
      /\ Len(t.data) \in Nat
  BY LenProperties DEF Stream
<1>2. CASE ~t.up
  <2>1. SubSeq(t.data, t.at + 1, t.at + 0) = << >>
    BY <1>1, SubSeqEmpty
  <2>. QED BY <1>1, <1>2, <2>1, EmptySeq DEF Delivered
<1>3. CASE t.up
  <2>. DEFINE e == Lesser(t.at + n, Len(t.data))
  <2>1. e \in Nat /\ e <= Len(t.data) /\ e <= t.at + n
    BY <1>1 DEF Lesser
  <2>2. Delivered(t, n) = SubSeq(t.data, t.at + 1, e)
    BY <1>3 DEF Delivered
  <2>3. /\ SubSeq(t.data, t.at + 1, e) \in Seq(Byte)
        /\ Len(SubSeq(t.data, t.at + 1, e)) = IF t.at + 1 <= e THEN e - t.at ELSE 0
    BY <1>1, <2>1, Stretch
  <2>. HIDE DEF e
  <2>4. CASE t.at + 1 <= e
    <3>1. Len(Delivered(t, n)) = e - t.at /\ t.at + (e - t.at) = e
      BY <1>1, <2>1, <2>2, <2>3, <2>4
    <3>2. Len(Delivered(t, n)) \in 0 .. n
      BY <1>1, <2>1, <2>4, <3>1
    <3>. QED BY <2>2, <2>3, <3>1, <3>2
  <2>5. CASE ~(t.at + 1 <= e)
    <3>1. SubSeq(t.data, t.at + 1, e) = << >> /\ SubSeq(t.data, t.at + 1, t.at) = << >>
      BY <1>1, <2>1, <2>5, SubSeqEmpty
    <3>. QED BY <1>1, <2>2, <2>3, <2>5, <3>1
  <2>. QED BY <2>4, <2>5
<1>. QED BY <1>1, <1>2, <1>3

\* The fields of a stream, one by one.
LEMMA Fields ==
  ASSUME NEW t \in Stream
  PROVE  /\ t.data \in Seq(Byte) /\ t.at \in Nat /\ t.up \in BOOLEAN
         /\ t.cap \in Nat /\ t.buf \in Seq(Byte) /\ t.pos \in Nat
         /\ t.err \in BOOLEAN /\ t.eof \in BOOLEAN
         /\ t.ungot \in Byte \cup {None}
         /\ Len(t.data) \in Nat /\ Len(t.buf) \in Nat
BY LenProperties DEF Stream

(* ---- the write side ---- *)

\* A raw write changes the file, the offset and the error flag and nothing
\* else, and never overfills the device.
LEMMA RawWriteType ==
  ASSUME NEW t \in Stream, Len(t.data) <= Quota, NEW p \in Seq(Byte)
  PROVE  LET u == rt_raw_write(t, p) IN
         /\ u \in Stream /\ Len(u.data) <= Quota
         /\ u.up = t.up /\ u.mode = t.mode /\ u.cap = t.cap /\ u.dir = t.dir
         /\ u.buf = t.buf /\ u.pos = t.pos /\ u.ungot = t.ungot
<1>. DEFINE n == Taken(t, Len(p))
            q == SubSeq(p, 1, n)
            d == Overlay(t.data, t.at, q)
            a == t.at + n
            e == t.err \/ n < Len(p)
            u == [t EXCEPT !.data = d, !.at = a, !.err = e]
<1>1. Len(p) \in Nat /\ t.at \in Nat /\ t.data \in Seq(Byte) /\ Len(t.data) \in Nat
  BY LenProperties, Fields
<1>2. n \in 0 .. Len(p) /\ (n # 0 => t.at + n <= Quota)
  BY <1>1, TakenRange
<1>0. rt_raw_write(t, p) = u
  BY DEF rt_raw_write
<1>. HIDE DEF n
<1>3. q \in Seq(Byte) /\ Len(q) = n
  BY <1>1, <1>2, Stretch
<1>. HIDE DEF q
<1>4. /\ d \in Seq(Byte)
      /\ q = << >> => Len(d) = Len(t.data)
      /\ q # << >> => Len(d) = Larger(Len(t.data), t.at + n)
  BY ONLY <1>1, <1>3, OverlayType
<1>5. q # << >> => n # 0
  BY <1>3, EmptySeq
<1>. HIDE DEF d
<1>6. Len(d) <= Quota
  BY <1>1, <1>2, <1>4, <1>5 DEF Larger
<1>7. a \in Nat /\ e \in BOOLEAN
  BY <1>1, <1>2
<1>. HIDE DEF a, e
<1>8. u \in Stream
  BY <1>4, <1>7 DEF Stream
<1>9. u.data = d
  BY DEF Stream
<1>10. /\ u.up = t.up /\ u.mode = t.mode /\ u.cap = t.cap /\ u.dir = t.dir
       /\ u.buf = t.buf /\ u.pos = t.pos /\ u.ungot = t.ungot
  BY DEF Stream
<1>. QED BY <1>0, <1>6, <1>8, <1>9, <1>10

\* Pushing pending bytes out leaves a good stream, and a flush that reports
\* success one that holds nothing unless it reads ahead.
LEMMA FlushGood ==
  ASSUME NEW t, Good(t)
  PROVE  LET u == rt_flush_write(t) IN
         /\ Good(u)
         /\ flush_ok(t) => u.dir # "out"
         /\ u.cap = t.cap /\ u.mode = t.mode /\ u.ungot = t.ungot
         /\ t.dir # "out" => u = t
<1>1. CASE t.dir # "out"
  BY <1>1 DEF rt_flush_write, flush_ok
<1>2. CASE t.dir = "out"
  <2>. DEFINE r == rt_raw_write(t, t.buf)
              d == IF write_ok(t, t.buf) THEN "idle" ELSE "out"
              u == [r EXCEPT !.buf = << >>, !.dir = d]
  <2>1. t \in Stream /\ Len(t.data) <= Quota /\ t.buf \in Seq(Byte)
    BY Fields DEF Good, Sized
  <2>2. /\ r \in Stream /\ Len(r.data) <= Quota
        /\ r.mode = t.mode /\ r.cap = t.cap
        /\ r.pos = t.pos /\ r.ungot = t.ungot
    BY <2>1, RawWriteType
  <2>3. rt_flush_write(t) = u
    BY <1>2 DEF rt_flush_write
  <2>. HIDE DEF r
  <2>4. d \in {"idle", "out"} /\ (flush_ok(t) => d # "out")
    BY <1>2 DEF flush_ok
  <2>. HIDE DEF d
  <2>5. u \in Stream
    BY <2>2, <2>4, EmptySeq DEF Stream
  <2>6. /\ u.data = r.data /\ u.mode = r.mode /\ u.cap = r.cap /\ u.dir = d
        /\ u.buf = << >> /\ u.pos = r.pos /\ u.ungot = r.ungot
    BY <2>2 DEF Stream
  <2>. HIDE DEF u
  <2>7. Sized(u)
    BY <2>2, <2>5, <2>6, EmptySeq, Fields DEF Sized
  <2>8. Honest(u)
    BY <1>2, <2>2, <2>4, <2>6 DEF Honest, Good
  <2>. QED BY <1>2, <2>2, <2>3, <2>4, <2>5, <2>6, <2>7, <2>8 DEF Good
<1>. QED BY <1>1, <1>2

\* Leaving read mode keeps the stream good and the handle on the file.
LEMMA DropReadGood ==
  ASSUME NEW t, Good(t)
  PROVE  LET u == rt_drop_read(t) IN
         /\ Good(u) /\ u.dir # "in" /\ u.pos = 0
         /\ u.mode = t.mode /\ u.cap = t.cap /\ u.bufmode = t.bufmode
<1>1. t \in Stream /\ Sized(t) /\ Honest(t)
  BY DEF Good
<1>2. CASE t.dir # "in"
  BY <1>1, <1>2 DEF rt_drop_read, Honest, Good
<1>3. CASE t.dir = "in"
  <2>. DEFINE a == IF t.at >= Unread(t) THEN t.at - Unread(t) ELSE t.at
              u == [t EXCEPT !.at = a, !.buf = << >>, !.pos = 0,
                             !.ungot = None, !.dir = "idle"]
  <2>1. a \in Nat
    BY <1>1, Fields DEF Unread
  <2>2. rt_drop_read(t) = u
    BY <1>3 DEF rt_drop_read
  <2>. HIDE DEF a
  <2>3. u \in Stream
    BY <1>1, <2>1, EmptySeq DEF Stream
  <2>4. /\ u.data = t.data /\ u.mode = t.mode /\ u.cap = t.cap /\ u.dir = "idle"
        /\ u.buf = << >> /\ u.pos = 0 /\ u.bufmode = t.bufmode
    BY <1>1 DEF Stream
  <2>. HIDE DEF u
  <2>5. Sized(u)
    BY <1>1, <2>3, <2>4, EmptySeq, Fields DEF Sized
  <2>. QED BY <2>2, <2>3, <2>4, <2>5 DEF Good, Honest
<1>. QED BY <1>2, <1>3

\* A stream about to write is good when it may write.
LEMMA TurnedGood ==
  ASSUME NEW t, Good(t), F_WRITE \in t.mode
  PROVE  /\ Good(Turned(t)) /\ Turned(t).dir = "out" /\ Turned(t).mode = t.mode
<1>. DEFINE d == rt_drop_read(t)
            u == [d EXCEPT !.dir = "out"]
<1>1. /\ Good(d) /\ d.dir # "in" /\ d.pos = 0 /\ d.mode = t.mode
  BY DropReadGood
<1>2. Turned(t) = u
  BY DEF Turned
<1>. HIDE DEF d
<1>3. d \in Stream /\ Sized(d)
  BY <1>1 DEF Good
<1>4. u \in Stream
  BY <1>3 DEF Stream
<1>5. /\ u.data = d.data /\ u.mode = d.mode /\ u.cap = d.cap /\ u.dir = "out"
      /\ u.buf = d.buf /\ u.pos = d.pos
  BY <1>3 DEF Stream
<1>. HIDE DEF u
<1>6. Sized(u)
  BY <1>3, <1>5 DEF Sized
<1>. QED BY <1>1, <1>2, <1>4, <1>5, <1>6 DEF Good, Honest

\* The last newline of p is one of its bytes.
LEMMA ThroughNewlineRange ==
  ASSUME NEW p \in Seq(Byte)
  PROVE  ThroughNewline(p) \in 0 .. Len(p)
<1>. DEFINE nl == {i \in 1 .. Len(p) : p[i] = Newline}
<1>1. Len(p) \in Nat
  BY LenProperties
<1>2. CASE nl = {}
  BY <1>1, <1>2 DEF ThroughNewline
<1>3. CASE nl # {}
  <2>1. nl \subseteq 0 .. Len(p) /\ nl \subseteq 1 .. Len(p)
    BY <1>1
  <2>2. ThroughNewline(p) = CHOOSE i \in nl : \A j \in nl : j <= i
    BY <1>3 DEF ThroughNewline
  <2>. HIDE DEF nl
  <2>3. \E i \in nl : \A j \in nl : j <= i
    BY <1>1, <1>3, <2>1, GreatestNatural
  <2>. QED BY <1>1, <2>1, <2>2, <2>3
<1>. QED BY <1>2, <1>3

\* What a write sends is pending or new, and what it keeps fits the buffer.
LEMMA EmittedRange ==
  ASSUME NEW t \in Stream, Sized(t), t.cap # 0, NEW p \in Seq(Byte)
  PROVE  /\ Emitted(t, p) \in 0 .. Len(t.buf) + Len(p)
         /\ Len(t.buf) + Len(p) - Emitted(t, p) <= t.cap
<1>. DEFINE h == Len(t.buf)
            n == Len(p)
            c == t.cap
            k == ThroughNewline(p)
<1>1. h \in Nat /\ n \in Nat /\ c \in Nat \ {0} /\ h <= c /\ k \in 0 .. n
  BY Fields, LenProperties, ThroughNewlineRange DEF Sized
<1>2. Emitted(t, p) = EmittedLine(h, n, c, k) \/ Emitted(t, p) = EmittedFull(h, n, c)
  BY DEF Emitted
<1>. HIDE DEF h, n, c, k
<1>3. EmittedFull(h, n, c) \in 0 .. h + n /\ h + n - EmittedFull(h, n, c) <= c
  BY <1>1 DEF EmittedFull
<1>4. EmittedLine(h, n, c, k) \in 0 .. h + n /\ h + n - EmittedLine(h, n, c, k) <= c
  <2>. DEFINE sent == IF k = 0 THEN 0 ELSE h + k
              rest == h + n - sent
              m == (rest - 1) % c
  <2>1. sent \in 0 .. h + n /\ rest \in Nat
    BY <1>1
  <2>2. EmittedLine(h, n, c, k) = IF rest <= c THEN sent ELSE (h + n - 1) - m
    BY DEF EmittedLine
  <2>3. CASE rest <= c
    BY <1>1, <2>1, <2>2, <2>3
  <2>4. CASE ~(rest <= c)
    <3>1. rest \in Nat /\ rest - 1 \in Nat /\ rest <= h + n
      BY <1>1, <2>1, <2>4
    <3>. HIDE DEF sent, rest
    <3>2. m \in 0 .. c - 1 /\ m <= rest - 1
      BY <1>1, <2>1, <2>4, <3>1
    <3>3. EmittedLine(h, n, c, k) = (h + n - 1) - m
      BY <2>2, <2>4
    <3>. HIDE DEF m
    <3>. QED BY <1>1, <3>1, <3>2, <3>3
  <2>. QED BY <2>3, <2>4
<1>. QED BY <1>2, <1>3, <1>4 DEF h, n, c

\* A write leaves a good stream.
LEMMA PutGood ==
  ASSUME NEW t, Good(t), NEW p \in Seq(Byte)
  PROVE  Good(rt_putbytes(t, p))
<1>1. t \in Stream /\ Sized(t) /\ Honest(t)
  BY DEF Good
<1>2. CASE F_WRITE \notin t.mode
  <2>. DEFINE u == [t EXCEPT !.err = TRUE]
  <2>1. rt_putbytes(t, p) = u
    BY <1>2 DEF rt_putbytes
  <2>2. u \in Stream
    BY <1>1 DEF Stream
  <2>3. /\ u.data = t.data /\ u.at = t.at /\ u.mode = t.mode /\ u.cap = t.cap
        /\ u.dir = t.dir /\ u.buf = t.buf /\ u.pos = t.pos
    BY <1>1 DEF Stream
  <2>. HIDE DEF u
  <2>. QED BY <1>1, <2>1, <2>2, <2>3 DEF Good, Sized, Honest
<1>3. CASE F_WRITE \in t.mode
  <2>. DEFINE v == Turned(t)
  <2>1. v \in Stream /\ Sized(v) /\ Honest(v) /\ v.dir = "out" /\ F_WRITE \in v.mode
    BY <1>3, TurnedGood DEF Good
  <2>2. rt_putbytes(t, p) = put_turned(v, p)
    BY <1>3 DEF rt_putbytes
  <2>. HIDE DEF v
  <2>3. CASE v.bufmode = "none" \/ v.cap = 0
    <3>. DEFINE u == rt_raw_write(v, p)
    <3>1. put_turned(v, p) = u
      BY <2>3 DEF put_turned
    <3>2. /\ u \in Stream /\ Len(u.data) <= Quota
          /\ u.mode = v.mode /\ u.cap = v.cap /\ u.dir = v.dir
          /\ u.buf = v.buf /\ u.pos = v.pos
      BY <2>1, RawWriteType DEF Sized
    <3>. HIDE DEF u
    <3>. QED BY <2>1, <2>2, <3>1, <3>2 DEF Good, Sized, Honest
  <2>4. CASE ~(v.bufmode = "none" \/ v.cap = 0)
    <3>. DEFINE all == v.buf \o p
                e == Emitted(v, p)
                r == rt_raw_write(v, SubSeq(all, 1, e))
                b == IF put_ok(v, p) THEN SubSeq(all, e + 1, Len(all)) ELSE << >>
                u == [r EXCEPT !.buf = b]
    <3>1. put_turned(v, p) = u
      BY <2>4 DEF put_turned
    <3>2. /\ v.buf \in Seq(Byte) /\ Len(v.buf) \in Nat /\ Len(p) \in Nat /\ v.cap \in Nat
      BY <2>1, Fields, LenProperties
    <3>3. all \in Seq(Byte) /\ Len(all) = Len(v.buf) + Len(p)
      BY <3>2, ConcatProperties
    <3>4. e \in 0 .. Len(all) /\ Len(all) - e <= v.cap
      BY <2>1, <2>4, <3>3, EmittedRange
    <3>. HIDE DEF all, e
    <3>5. SubSeq(all, 1, e) \in Seq(Byte)
      BY <3>2, <3>3, <3>4, Stretch
    <3>6. /\ r \in Stream /\ Len(r.data) <= Quota
          /\ r.mode = v.mode /\ r.cap = v.cap /\ r.dir = v.dir /\ r.pos = v.pos
      BY <2>1, <3>5, RawWriteType DEF Sized
    <3>. HIDE DEF r
    <3>7. b \in Seq(Byte) /\ Len(b) <= v.cap
      <4>1. CASE put_ok(v, p)
        <5>1. b = SubSeq(all, e + 1, Len(all))
          BY <4>1
        <5>2. /\ SubSeq(all, e + 1, Len(all)) \in Seq(Byte)
              /\ Len(SubSeq(all, e + 1, Len(all))) =
                   IF e + 1 <= Len(all) THEN Len(all) - (e + 1) + 1 ELSE 0
          BY <3>2, <3>3, <3>4, Stretch
        <5>. HIDE DEF b
        <5>. QED BY <3>2, <3>3, <3>4, <5>1, <5>2
      <4>2. CASE ~put_ok(v, p)
        BY <3>2, <4>2, EmptySeq
      <4>. QED BY <4>1, <4>2
    <3>. HIDE DEF b
    <3>8. u \in Stream
      BY <3>6, <3>7 DEF Stream
    <3>9. /\ u.data = r.data /\ u.mode = r.mode /\ u.cap = r.cap /\ u.dir = r.dir
          /\ u.buf = b /\ u.pos = r.pos
      BY <3>6 DEF Stream
    <3>. HIDE DEF u
    <3>. QED BY <2>1, <2>2, <3>1, <3>6, <3>7, <3>8, <3>9 DEF Good, Sized, Honest
  <2>. QED BY <2>3, <2>4
<1>. QED BY <1>2, <1>3

(* ---- the read side ---- *)

\* Read-ahead delivered from the handle on is the stretch before the handle
\* once the handle has moved over it.
LEMMA AheadOfHandle ==
  ASSUME NEW t \in Stream, NEW n \in Nat
  PROVE  LET got == Delivered(t, n)
             at  == t.at + Len(got)
         IN  at \in Nat /\ Len(got) <= at /\ got = SubSeq(t.data, at - Len(got) + 1, at)
<1>. DEFINE got == Delivered(t, n)
<1>1. /\ got \in Seq(Byte) /\ Len(got) \in 0 .. n /\ t.at \in Nat
      /\ got = SubSeq(t.data, t.at + 1, t.at + Len(got))
  BY DeliveredType, Fields
<1>. HIDE DEF got
<1>2. (t.at + Len(got)) - Len(got) + 1 = t.at + 1
  BY <1>1
<1>3. got = SubSeq(t.data, (t.at + Len(got)) - Len(got) + 1, t.at + Len(got))
  BY <1>1, <1>2, Zenon
<1>4. t.at + Len(got) \in Nat /\ Len(got) <= t.at + Len(got)
  BY <1>1
<1>. QED BY <1>3, <1>4 DEF got

\* A refill leaves a good stream.
LEMMA FillGood ==
  ASSUME NEW t, Good(t)
  PROVE  Good(rt_fill(t))
<1>. DEFINE f == rt_flush_write(t)
<1>1. /\ Good(f) /\ f \in Stream /\ Sized(f) /\ Honest(f)
      /\ flush_ok(t) => f.dir # "out"
  BY FlushGood DEF Good
<1>2. CASE ~flush_ok(t)
  BY <1>1, <1>2 DEF rt_fill
<1>3. CASE flush_ok(t) /\ f.cap = 0
  <2>. DEFINE u == [f EXCEPT !.dir = "in", !.err = TRUE]
  <2>1. rt_fill(t) = u
    BY <1>3 DEF rt_fill
  <2>. HIDE DEF f
  <2>2. u \in Stream
    BY <1>1 DEF Stream
  <2>3. /\ u.data = f.data /\ u.at = f.at /\ u.cap = f.cap /\ u.dir = "in"
        /\ u.buf = f.buf /\ u.pos = f.pos
    BY <1>1 DEF Stream
  <2>. HIDE DEF u
  <2>4. f.buf \in Seq(Byte) /\ Len(f.buf) = 0 /\ f.buf = << >> /\ f.at \in Nat /\ f.pos = 0
    <3>1. /\ f.buf \in Seq(Byte) /\ Len(f.buf) \in Nat /\ Len(f.buf) <= 0
          /\ f.at \in Nat /\ f.pos \in Nat
      BY <1>1, <1>3, Fields DEF Sized
    <3>2. f.pos = 0
      BY <1>1, <3>1 DEF Honest
    <3>. QED BY <3>1, <3>2, EmptySeq
  <2>5. << >> = SubSeq(f.data, f.at - 0 + 1, f.at)
    BY <2>4, SubSeqEmpty
  <2>6. Honest(u)
    BY <2>3, <2>4, <2>5 DEF Honest
  <2>. QED BY <1>1, <2>1, <2>2, <2>3, <2>6 DEF Good, Sized
<1>4. CASE flush_ok(t) /\ f.cap # 0
  <2>. DEFINE got == Delivered(f, f.cap)
              at  == f.at + Len(got)
              eof == f.eof \/ got = << >>
              err == f.err \/ ~f.up
              u == [f EXCEPT !.dir = "in", !.buf = got, !.pos = 0, !.at = at,
                             !.eof = eof, !.err = err]
  <2>1. rt_fill(t) = u
    BY <1>4 DEF rt_fill
  <2>. HIDE DEF f
  <2>2. f.cap \in Nat
    BY <1>1, Fields
  <2>3. /\ got \in Seq(Byte) /\ Len(got) \in 0 .. f.cap
        /\ at \in Nat /\ Len(got) <= at /\ got = SubSeq(f.data, at - Len(got) + 1, at)
    BY <1>1, <2>2, DeliveredType, AheadOfHandle
  <2>4. eof \in BOOLEAN /\ err \in BOOLEAN
    OBVIOUS
  <2>. HIDE DEF got, at, eof, err
  <2>5. u \in Stream
    BY <1>1, <2>3, <2>4 DEF Stream
  <2>6. /\ u.data = f.data /\ u.at = at /\ u.cap = f.cap /\ u.dir = "in"
        /\ u.buf = got /\ u.pos = 0
    BY <1>1 DEF Stream
  <2>. HIDE DEF u
  <2>7. Sized(u)
    BY <1>1, <2>2, <2>3, <2>6 DEF Sized
  <2>8. Honest(u)
    BY <2>3, <2>6 DEF Honest
  <2>. QED BY <2>1, <2>5, <2>7, <2>8 DEF Good
<1>. QED BY <1>2, <1>3, <1>4

\* Making sure there is something to read leaves a good stream.
LEMMA FilledGood ==
  ASSUME NEW t, Good(t)
  PROVE  Good(filled(t))
BY FillGood DEF filled

\* Reading a byte leaves a good stream and delivers at most one byte.
LEMMA GetbyteGood ==
  ASSUME NEW t, Good(t)
  PROVE  Good(rt_getbyte(t)) /\ got_byte(t) \in Seq(Byte)
<1>1. t \in Stream /\ Sized(t) /\ Honest(t) /\ t.ungot \in Byte \cup {None}
  BY Fields DEF Good
<1>2. CASE F_READ \notin t.mode
  <2>. DEFINE u == [t EXCEPT !.err = TRUE]
  <2>1. rt_getbyte(t) = u /\ got_byte(t) = << >>
    BY <1>2 DEF rt_getbyte, got_byte
  <2>2. u \in Stream
    BY <1>1 DEF Stream
  <2>3. /\ u.data = t.data /\ u.at = t.at /\ u.mode = t.mode /\ u.cap = t.cap
        /\ u.dir = t.dir /\ u.buf = t.buf /\ u.pos = t.pos
    BY <1>1 DEF Stream
  <2>. HIDE DEF u
  <2>. QED BY <1>1, <2>1, <2>2, <2>3, EmptySeq DEF Good, Sized, Honest
<1>3. CASE F_READ \in t.mode /\ t.ungot # None
  <2>. DEFINE u == [t EXCEPT !.ungot = None]
  <2>1. rt_getbyte(t) = u /\ got_byte(t) = <<t.ungot>>
    BY <1>3 DEF rt_getbyte, got_byte
  <2>2. u \in Stream
    BY <1>1 DEF Stream
  <2>3. /\ u.data = t.data /\ u.at = t.at /\ u.mode = t.mode /\ u.cap = t.cap
        /\ u.dir = t.dir /\ u.buf = t.buf /\ u.pos = t.pos
    BY <1>1 DEF Stream
  <2>4. <<t.ungot>> \in Seq(Byte)
    BY <1>1, <1>3
  <2>. HIDE DEF u
  <2>. QED BY <1>1, <2>1, <2>2, <2>3, <2>4 DEF Good, Sized, Honest
<1>4. CASE F_READ \in t.mode /\ t.ungot = None
  <2>. DEFINE f == filled(t)
  <2>1. Good(f) /\ f \in Stream /\ Sized(f) /\ Honest(f)
    BY FilledGood DEF Good
  <2>2. CASE ~fill_ok(t)
    BY <1>4, <2>1, <2>2, EmptySeq DEF rt_getbyte, got_byte
  <2>3. CASE fill_ok(t)
    <3>. DEFINE u == [f EXCEPT !.pos = @ + 1]
    <3>1. rt_getbyte(t) = u /\ got_byte(t) = <<f.buf[f.pos + 1]>>
      BY <1>4, <2>3 DEF rt_getbyte, got_byte
    <3>2. f.dir = "in" /\ f.pos < Len(f.buf)
      BY <2>3 DEF fill_ok
    <3>. HIDE DEF f
    <3>3. f.buf \in Seq(Byte) /\ Len(f.buf) \in Nat /\ f.pos \in Nat
      BY <2>1, Fields
    <3>4. f.buf[f.pos + 1] \in Byte
      BY <3>2, <3>3, ElementOfSeq
    <3>5. <<f.buf[f.pos + 1]>> \in Seq(Byte)
      BY <3>4
    <3>6. f.pos + 1 \in Nat /\ f.pos + 1 <= Len(f.buf)
      BY <3>2, <3>3
    <3>7. u \in Stream
      BY <2>1, <3>6 DEF Stream
    <3>8. /\ u.data = f.data /\ u.at = f.at /\ u.mode = f.mode /\ u.cap = f.cap
          /\ u.dir = f.dir /\ u.buf = f.buf /\ u.pos = f.pos + 1
      BY <2>1 DEF Stream
    <3>. HIDE DEF u
    <3>9. Sized(u) /\ Honest(u)
      BY <2>1, <3>2, <3>6, <3>8 DEF Sized, Honest
    <3>. QED BY <3>1, <3>5, <3>7, <3>9 DEF Good
  <2>. QED BY <2>2, <2>3
<1>. QED BY <1>2, <1>3, <1>4

\* What fread works on once the pushed-back byte is taken and the pending
\* bytes are out: a good stream, of whose read-ahead it takes a part.
LEMMA DrainedGood ==
  ASSUME NEW t, Good(t), NEW want \in Nat, want >= 1
  PROVE  /\ Good(unpushed(t)) /\ Good(drained(t, want))
         /\ Ahead(unpushed(t)) \in Seq(Byte)
         /\ Drain(t, want) \in 0 .. Len(Ahead(unpushed(t)))
         /\ Left(t, want) \in Nat
         /\ Pushed(t) \in Seq(Byte)
<1>. DEFINE v == [t EXCEPT !.ungot = None]
            u == unpushed(t)
<1>1. t \in Stream /\ Sized(t) /\ Honest(t) /\ t.ungot \in Byte \cup {None}
  BY Fields DEF Good
<1>2. Good(v)
  <2>1. v \in Stream
    BY <1>1 DEF Stream
  <2>2. /\ v.data = t.data /\ v.at = t.at /\ v.mode = t.mode /\ v.cap = t.cap
        /\ v.dir = t.dir /\ v.buf = t.buf /\ v.pos = t.pos
    BY <1>1 DEF Stream
  <2>. HIDE DEF v
  <2>. QED BY <1>1, <2>1, <2>2 DEF Good, Sized, Honest
<1>3. Good(u) /\ u \in Stream /\ Sized(u) /\ Honest(u)
  <2>. HIDE DEF v
  <2>1. u = rt_flush_write(v)
    BY DEF unpushed, v
  <2>. QED BY <1>2, <2>1, FlushGood DEF Good
<1>4. Pushed(t) \in Seq(Byte) /\ Len(Pushed(t)) \in 0 .. 1
  <2>1. CASE t.ungot = None
    BY <2>1, EmptySeq DEF Pushed
  <2>2. CASE t.ungot # None
    BY <1>1, <2>2 DEF Pushed
  <2>. QED BY <2>1, <2>2
<1>. HIDE DEF u
<1>5. u.buf \in Seq(Byte) /\ Len(u.buf) \in Nat /\ u.pos \in Nat
  BY <1>3, Fields
<1>6. /\ Ahead(u) \in Seq(Byte) /\ Len(Ahead(u)) \in Nat
      /\ u.dir = "in" => Len(Ahead(u)) = Len(u.buf) - u.pos
      /\ u.dir # "in" => Len(Ahead(u)) = 0
  <2>1. CASE u.dir = "in"
    <3>1. u.pos <= Len(u.buf)
      BY <1>3, <2>1 DEF Honest
    <3>2. Ahead(u) = SubSeq(u.buf, u.pos + 1, Len(u.buf))
      BY <2>1 DEF Ahead
    <3>3. /\ SubSeq(u.buf, u.pos + 1, Len(u.buf)) \in Seq(Byte)
          /\ Len(SubSeq(u.buf, u.pos + 1, Len(u.buf))) =
               IF u.pos + 1 <= Len(u.buf) THEN Len(u.buf) - (u.pos + 1) + 1 ELSE 0
      BY <1>5, Stretch
    <3>. QED BY <1>5, <2>1, <3>1, <3>2, <3>3
  <2>2. CASE u.dir # "in"
    BY <2>2, EmptySeq DEF Ahead
  <2>. QED BY <2>1, <2>2
<1>7. /\ Drain(t, want) \in 0 .. Len(Ahead(u))
      /\ Drain(t, want) <= want - Len(Pushed(t))
      /\ Left(t, want) \in Nat
  <2>. DEFINE a == Len(Ahead(u))
              b == Len(Pushed(t))
  <2>1. Drain(t, want) = Lesser(a, want - b) /\ Left(t, want) = want - b - Drain(t, want)
    BY DEF Drain, Left, u
  <2>2. a \in Nat /\ b \in 0 .. 1
    BY <1>4, <1>6
  <2>. HIDE DEF a, b
  <2>3. Drain(t, want) \in 0 .. a /\ Drain(t, want) <= want - b
    BY <2>1, <2>2 DEF Lesser
  <2>4. Left(t, want) \in Nat
    BY <2>1, <2>2, <2>3
  <2>. QED BY <2>3, <2>4 DEF a, b
<1>8. Good(drained(t, want))
  <2>. DEFINE m == u.pos + Drain(t, want)
              w == [u EXCEPT !.pos = m]
  <2>1. drained(t, want) = w
    BY DEF drained, u
  <2>2. m \in Nat /\ (u.dir = "in" => m <= Len(u.buf)) /\ (u.dir # "in" => m = u.pos)
    <3>. DEFINE k == Drain(t, want)
                a == Len(Ahead(u))
    <3>1. k \in 0 .. a /\ a \in Nat /\ u.pos \in Nat /\ Len(u.buf) \in Nat
      BY <1>5, <1>6, <1>7
    <3>2. (u.dir = "in" => a = Len(u.buf) - u.pos) /\ (u.dir # "in" => a = 0)
      BY <1>6
    <3>. HIDE DEF k, a
    <3>3. m = u.pos + k
      BY DEF k
    <3>. QED BY ONLY <3>1, <3>2, <3>3
  <2>. HIDE DEF m
  <2>3. w \in Stream
    BY <1>3, <2>2 DEF Stream
  <2>4. /\ w.data = u.data /\ w.at = u.at /\ w.mode = u.mode /\ w.cap = u.cap
        /\ w.dir = u.dir /\ w.buf = u.buf /\ w.pos = m
    BY <1>3 DEF Stream
  <2>. HIDE DEF w
  <2>. QED BY <1>3, <2>1, <2>2, <2>3, <2>4 DEF Good, Sized, Honest
<1>. QED BY <1>3, <1>4, <1>6, <1>7, <1>8 DEF u

\* Reading on past the read-ahead leaves a good stream: what it keeps of a
\* refill is the stretch before the handle, read up to what was wanted.
LEMMA ReadOnGood ==
  ASSUME NEW t, Good(t), NEW left \in Nat
  PROVE  Good(read_on(t, left)) /\ Next_chunk(t, left) \in Seq(Byte)
<1>. DEFINE got    == Next_chunk(t, left)
            short  == Len(got) < left
            refill == ~Direct(left) \/ (got # << >> /\ left - Len(got) < BufSz)
            nobuf  == t.cap = 0 /\ refill
            keep   == ~Direct(left) /\ ~short
            at     == t.at + Len(got)
            buf    == IF keep THEN got ELSE << >>
            pos    == IF keep THEN left ELSE 0
            eof    == t.eof \/ (short /\ ~nobuf)
            err    == t.err \/ (short /\ (nobuf \/ ~t.up))
            u == [t EXCEPT !.dir = "in", !.at = at, !.buf = buf, !.pos = pos,
                           !.eof = eof, !.err = err]
<1>1. t \in Stream /\ Sized(t) /\ t.cap \in Nat
  BY Fields DEF Good
<1>2. /\ got \in Seq(Byte) /\ Len(got) \in Nat
      /\ at \in Nat /\ Len(got) <= at /\ got = SubSeq(t.data, at - Len(got) + 1, at)
      /\ ~Direct(left) => Len(got) <= t.cap
  <2>1. CASE Direct(left)
    <3>1. got = Delivered(t, left)
      BY <2>1 DEF Next_chunk
    <3>. QED BY <1>1, <2>1, <3>1, DeliveredType, AheadOfHandle
  <2>2. CASE ~Direct(left)
    <3>1. got = Delivered(t, t.cap)
      BY <2>2 DEF Next_chunk
    <3>. QED BY <1>1, <2>2, <3>1, DeliveredType, AheadOfHandle
  <2>. QED BY <2>1, <2>2
<1>3. read_on(t, left) = u
  BY DEF read_on
<1>4. eof \in BOOLEAN /\ err \in BOOLEAN
  OBVIOUS
<1>. HIDE DEF got, at, eof, err
<1>5. /\ buf \in Seq(Byte) /\ pos \in Nat /\ Len(buf) <= t.cap
      /\ pos <= Len(buf) /\ Len(buf) <= at /\ buf = SubSeq(t.data, at - Len(buf) + 1, at)
  <2>1. CASE keep
    BY <1>1, <1>2, <2>1
  <2>2. CASE ~keep
    <3>1. buf = << >> /\ pos = 0 /\ Len(buf) = 0 /\ << >> \in Seq(Byte)
      BY <2>2, EmptySeq
    <3>2. << >> = SubSeq(t.data, at - 0 + 1, at)
      BY <1>2, SubSeqEmpty
    <3>. HIDE DEF buf
    <3>3. buf = SubSeq(t.data, at - Len(buf) + 1, at)
      BY <3>1, <3>2, Zenon
    <3>4. Len(buf) <= t.cap /\ Len(buf) <= at /\ pos <= Len(buf) /\ pos \in Nat
      BY <1>1, <1>2, <3>1
    <3>. QED BY <3>1, <3>3, <3>4
  <2>. QED BY <2>1, <2>2
<1>. HIDE DEF buf, pos
<1>6. u \in Stream
  BY <1>1, <1>2, <1>4, <1>5 DEF Stream
<1>7. /\ u.data = t.data /\ u.at = at /\ u.cap = t.cap /\ u.dir = "in"
      /\ u.buf = buf /\ u.pos = pos
  BY <1>1 DEF Stream
<1>. HIDE DEF u
<1>. QED BY <1>1, <1>2, <1>3, <1>5, <1>6, <1>7 DEF Good, Sized, Honest, got

\* fread leaves a good stream and delivers bytes.
LEMMA FreadGood ==
  ASSUME NEW t, Good(t), NEW want \in Nat
  PROVE  Good(fread(t, want)) /\ fread_bytes(t, want) \in Seq(Byte)
<1>1. CASE want = 0
  BY <1>1, EmptySeq DEF fread, fread_bytes
<1>2. CASE want # 0 /\ F_READ \notin t.mode
  <2>. DEFINE u == [t EXCEPT !.err = TRUE]
  <2>1. fread(t, want) = u /\ fread_bytes(t, want) = << >>
    BY <1>2 DEF fread, fread_bytes
  <2>2. t \in Stream /\ Sized(t) /\ Honest(t)
    BY DEF Good
  <2>3. u \in Stream
    BY <2>2 DEF Stream
  <2>4. /\ u.data = t.data /\ u.at = t.at /\ u.mode = t.mode /\ u.cap = t.cap
        /\ u.dir = t.dir /\ u.buf = t.buf /\ u.pos = t.pos
    BY <2>2 DEF Stream
  <2>. HIDE DEF u
  <2>. QED BY <2>1, <2>2, <2>3, <2>4, EmptySeq DEF Good, Sized, Honest
<1>3. CASE want # 0 /\ F_READ \in t.mode
  <2>. DEFINE d    == drained(t, want)
              left == Left(t, want)
              head == SubSeq(Ahead(unpushed(t)), 1, Drain(t, want))
              rest == IF left = 0 THEN << >> ELSE Next_chunk(d, left)
              tail == SubSeq(rest, 1, Lesser(Len(rest), left))
  <2>1. want >= 1
    BY <1>3
  <2>2. /\ Good(d) /\ Ahead(unpushed(t)) \in Seq(Byte)
        /\ Drain(t, want) \in 0 .. Len(Ahead(unpushed(t)))
        /\ left \in Nat /\ Pushed(t) \in Seq(Byte)
    BY <2>1, DrainedGood
  <2>3. Good(read_on(d, left)) /\ Next_chunk(d, left) \in Seq(Byte)
    <3>. HIDE DEF d, left
    <3>. QED BY <2>2, ReadOnGood
  <2>4. Good(fread(t, want))
    BY <1>3, <2>2, <2>3 DEF fread
  <2>5. fread_bytes(t, want) = IF ~flush_ok(t) THEN Pushed(t) ELSE Pushed(t) \o head \o tail
    BY <1>3 DEF fread_bytes
  <2>6. head \in Seq(Byte)
    BY <2>2, LenProperties, Stretch
  <2>7. rest \in Seq(Byte)
    BY <2>3, EmptySeq
  <2>. HIDE DEF rest, left, head
  <2>8. tail \in Seq(Byte)
    <3>1. Len(rest) \in Nat /\ Lesser(Len(rest), left) \in Nat /\ Lesser(Len(rest), left) <= Len(rest)
      BY <2>2, <2>7, LenProperties DEF Lesser
    <3>. QED BY <2>7, <3>1, Stretch
  <2>. HIDE DEF tail
  <2>9. Pushed(t) \o head \o tail \in Seq(Byte)
    BY <2>2, <2>6, <2>8, ConcatProperties
  <2>. QED BY <2>2, <2>4, <2>5, <2>9
<1>. QED BY <1>1, <1>2, <1>3

(* ---- positioning ---- *)

\* A seek leaves a good stream with nothing in its buffer, or the failed flush.
LEMMA SeekGood ==
  ASSUME NEW t, Good(t), NEW off \in Int, NEW whence \in {"SET", "CUR", "END"}
  PROVE  Good(fseek(t, off, whence))
<1>. DEFINE f == rt_flush_write(t)
<1>1. Good(f) /\ f \in Stream /\ Sized(f) /\ Honest(f)
  BY FlushGood DEF Good
<1>2. CASE ~flush_ok(t)
  BY <1>1, <1>2 DEF fseek
<1>3. CASE flush_ok(t)
  <2>. DEFINE a == IF seek_ok(t, off, whence) THEN seek_target(t, off, whence) ELSE f.at
              u == [f EXCEPT !.buf = << >>, !.pos = 0, !.ungot = None, !.dir = "idle",
                             !.eof = FALSE, !.at = a]
  <2>1. fseek(t, off, whence) = u
    BY <1>3 DEF fseek
  <2>2. f.at \in Nat /\ Len(f.data) \in Nat /\ Len(f.buf) \in Nat /\ f.pos \in Nat /\ f.cap \in Nat
    BY <1>1, Fields
  <2>3. a \in Nat
    <3>. HIDE DEF f
    <3>1. seek_target(t, off, whence) = Origin(f, whence) + Adjusted(f, off, whence)
      BY DEF seek_target, f
    <3>2. Origin(f, whence) \in Int
      BY <2>2 DEF Origin
    <3>3. Adjusted(f, off, whence) \in Int
      BY <2>2 DEF Adjusted, Unread
    <3>4. seek_target(t, off, whence) \in Int
      BY <3>1, <3>2, <3>3
    <3>. QED BY <2>2, <3>4 DEF seek_ok
  <2>. HIDE DEF a, f
  <2>4. u \in Stream
    BY <1>1, <2>3, EmptySeq DEF Stream
  <2>5. /\ u.data = f.data /\ u.mode = f.mode /\ u.cap = f.cap /\ u.dir = "idle"
        /\ u.buf = << >> /\ u.pos = 0
    BY <1>1 DEF Stream
  <2>. HIDE DEF u
  <2>6. Sized(u)
    BY <1>1, <2>2, <2>5, EmptySeq DEF Sized
  <2>. QED BY <2>1, <2>4, <2>5, <2>6 DEF Good, Honest
<1>. QED BY <1>2, <1>3

(* ---- the specification ---- *)

\* A stream just opened is good.
LEMMA NewFileGood ==
  ASSUME NEW data \in Seq(Byte), Len(data) <= Quota, NEW at \in Nat, NEW up \in BOOLEAN,
         NEW mode \in SUBSET {F_READ, F_WRITE, F_APPEND}, NEW cap \in {0, BufSz}
  PROVE  Good(NewFile(data, at, up, mode, cap))
<1>. DEFINE u == NewFile(data, at, up, mode, cap)
<1>1. /\ u.data = data /\ u.cap = cap /\ u.dir = "idle" /\ u.buf = << >> /\ u.pos = 0
  BY DEF NewFile
<1>2. u \in Stream
  BY EmptySeq DEF NewFile, Stream
<1>3. cap \in Nat /\ Len(<< >>) = 0
  BY EmptySeq
<1>. HIDE DEF u
<1>4. Sized(u)
  BY <1>1, <1>3 DEF Sized
<1>5. Honest(u)
  BY <1>1 DEF Honest
<1>. QED BY <1>2, <1>4, <1>5 DEF Good, u

\* With no stream on it (before fopen, after the end of one) a file is good.
LEMMA NoStreamGood ==
  ASSUME NEW data \in Seq(Byte), Len(data) <= Quota, NEW up \in BOOLEAN
  PROVE  Good(NoStream(data, up))
BY NewFileGood DEF NoStream

\* Changing the push-back, an indicator, the buffering or the device leaves a
\* stream good.
LEMMA AsideGood ==
  ASSUME NEW t, Good(t), NEW u \in Stream,
         u.data = t.data, u.at = t.at, u.mode = t.mode, u.cap = t.cap,
         u.dir = t.dir, u.buf = t.buf, u.pos = t.pos
  PROVE  Good(u)
BY DEF Good, Sized, Honest

\* Init establishes the inductive invariant.
LEMMA InitIInv == Init => IInv
<1>. SUFFICES ASSUME Init PROVE IInv
  OBVIOUS
<1>1. PICK data \in Content0 : s = NoStream(data, TRUE)
  BY DEF Init
<1>2. data \in Seq(Byte) /\ Len(data) <= Quota
  BY FileAssumption
<1>3. ret \in Return
  BY EmptySeq DEF Init, Ok, Return, Calls
<1>. QED BY <1>1, <1>2, <1>3, NoStreamGood DEF Init, IInv

\* Every step keeps the invariant: one lemma on a stream for each call.
LEMMA NextIInv == IInv /\ [Next]_vars => IInv'
<1>. SUFFICES ASSUME IInv, [Next]_vars PROVE IInv'
  OBVIOUS
<1>1. /\ Good(s) /\ s \in Stream /\ Sized(s) /\ open \in BOOLEAN /\ ret \in Return
      /\ s.data \in Seq(Byte) /\ s.up \in BOOLEAN /\ Len(s.data) <= Quota
  BY Fields DEF IInv, Good, Sized
<1>2. \A op \in Calls, ok \in BOOLEAN, bytes \in Seq(Byte) :
        Result(op, ok, bytes) => ret' \in Return
  BY DEF Result, Return
<1>3. << >> \in Seq(Byte) /\ TRUE \in BOOLEAN /\ FALSE \in BOOLEAN
  BY EmptySeq
<1>. USE DEF Calls
<1>4. ASSUME NEW c \in {"r", "w", "a"}, NEW plus \in BOOLEAN, Fopen(c, plus) PROVE IInv'
  <2>. DEFINE data == IF c = "w" THEN << >> ELSE s.data
              at   == IF c = "a" THEN Len(data) ELSE 0
  <2>1. data \in Seq(Byte) /\ Len(data) <= Quota /\ at \in Nat
    BY <1>1, <1>3, EmptySeq, LenProperties
  <2>2. ModeBits(c, plus) \in SUBSET {F_READ, F_WRITE, F_APPEND}
    BY DEF ModeBits
  <2>3. \/ \E cap \in {0, BufSz} : s' = NewFile(data, at, s.up, ModeBits(c, plus), cap)
        \/ s' = NoStream(data, s.up)
    BY <1>4 DEF Fopen
  <2>. HIDE DEF data, at
  <2>4. Good(s')
    BY <1>1, <2>1, <2>2, <2>3, NewFileGood, NoStreamGood
  <2>5. open' \in BOOLEAN /\ ret' \in Return
    BY <1>2, <1>3, <1>4 DEF Fopen
  <2>. QED BY <2>4, <2>5 DEF IInv
<1>5. ASSUME NEW p \in Payload, Put(p) PROVE IInv'
  <2>1. p \in Seq(Byte)
    BY CallAssumption
  <2>2. Good(s')
    BY <1>1, <1>5, <2>1, PutGood DEF Put
  <2>3. putbytes_ok(s, p) \in BOOLEAN
    BY DEF putbytes_ok
  <2>. QED BY <1>1, <1>2, <1>3, <1>5, <2>2, <2>3 DEF Put, Call, IInv
<1>6. ASSUME Get PROVE IInv'
  <2>1. Good(s') /\ got_byte(s) \in Seq(Byte)
    BY <1>1, <1>6, GetbyteGood DEF Get
  <2>. QED BY <1>1, <1>2, <1>6, <2>1 DEF Get, Call, IInv
<1>7. ASSUME NEW want \in 0 .. BufSz + 1, Fread(want) PROVE IInv'
  <2>1. Good(s') /\ fread_bytes(s, want) \in Seq(Byte)
    BY <1>1, <1>7, FreadGood DEF Fread
  <2>2. (Len(fread_bytes(s, want)) = want) \in BOOLEAN
    OBVIOUS
  <2>. QED BY <1>1, <1>2, <1>7, <2>1, <2>2 DEF Fread, Call, IInv
<1>8. ASSUME NEW c \in Byte, Ungetc(c) PROVE IInv'
  <2>. DEFINE u == [s EXCEPT !.ungot = c, !.eof = FALSE]
  <2>1. u \in Stream
    BY <1>1 DEF Stream
  <2>2. /\ u.data = s.data /\ u.at = s.at /\ u.mode = s.mode /\ u.cap = s.cap
        /\ u.dir = s.dir /\ u.buf = s.buf /\ u.pos = s.pos
    BY <1>1 DEF Stream
  <2>3. s' = u
    BY <1>8 DEF Ungetc
  <2>. HIDE DEF u
  <2>4. Good(s')
    BY <1>1, <2>1, <2>2, <2>3, AsideGood
  <2>. QED BY <1>1, <1>2, <1>3, <1>8, <2>4 DEF Ungetc, Call, IInv
<1>9. ASSUME NEW off \in Offset, NEW w \in {"SET", "CUR", "END"}, Fseek(off, w) PROVE IInv'
  <2>1. off \in Int
    BY CallAssumption
  <2>2. Good(s')
    BY <1>1, <1>9, <2>1, SeekGood DEF Fseek
  <2>3. seek_ok(s, off, w) \in BOOLEAN
    BY DEF seek_ok
  <2>. QED BY <1>1, <1>2, <1>3, <1>9, <2>2, <2>3 DEF Fseek, Call, IInv
<1>10. ASSUME Rewind PROVE IInv'
  <2>. DEFINE k == fseek(s, 0, "SET")
              u == [k EXCEPT !.err = FALSE]
  <2>1. Good(k) /\ k \in Stream
    <3>1. 0 \in Int /\ "SET" \in {"SET", "CUR", "END"}
      OBVIOUS
    <3>2. Good(k)
      BY <1>1, <3>1, SeekGood
    <3>. QED BY <3>2 DEF Good
  <2>2. s' = u
    BY <1>10 DEF Rewind
  <2>. HIDE DEF k
  <2>3. u \in Stream
    BY <2>1 DEF Stream
  <2>4. /\ u.data = k.data /\ u.at = k.at /\ u.mode = k.mode /\ u.cap = k.cap
        /\ u.dir = k.dir /\ u.buf = k.buf /\ u.pos = k.pos
    BY <2>1 DEF Stream
  <2>. HIDE DEF u
  <2>5. Good(s')
    BY <2>1, <2>2, <2>3, <2>4, AsideGood
  <2>. QED BY <1>1, <1>2, <1>3, <1>10, <2>5 DEF Rewind, Call, IInv
<1>11. ASSUME Fflush PROVE IInv'
  <2>1. Good(s')
    BY <1>1, <1>11, FlushGood DEF Fflush
  <2>2. flush_ok(s) \in BOOLEAN
    BY DEF flush_ok
  <2>. QED BY <1>1, <1>2, <1>3, <1>11, <2>1, <2>2 DEF Fflush, Call, IInv
<1>12. ASSUME Clearerr PROVE IInv'
  <2>. DEFINE u == [s EXCEPT !.err = FALSE, !.eof = FALSE]
  <2>1. u \in Stream
    BY <1>1 DEF Stream
  <2>2. /\ u.data = s.data /\ u.at = s.at /\ u.mode = s.mode /\ u.cap = s.cap
        /\ u.dir = s.dir /\ u.buf = s.buf /\ u.pos = s.pos
    BY <1>1 DEF Stream
  <2>3. s' = u
    BY <1>12 DEF Clearerr
  <2>. HIDE DEF u
  <2>4. Good(s')
    BY <1>1, <2>1, <2>2, <2>3, AsideGood
  <2>. QED BY <1>1, <1>2, <1>3, <1>12, <2>4 DEF Clearerr, Call, IInv
<1>13. ASSUME NEW m \in {"full", "line", "none"}, Setvbuf(m) PROVE IInv'
  <2>. DEFINE u == [s EXCEPT !.bufmode = m]
  <2>1. u \in Stream
    BY <1>1 DEF Stream
  <2>2. /\ u.data = s.data /\ u.at = s.at /\ u.mode = s.mode /\ u.cap = s.cap
        /\ u.dir = s.dir /\ u.buf = s.buf /\ u.pos = s.pos
    BY <1>1 DEF Stream
  <2>3. s' = u
    BY <1>13 DEF Setvbuf
  <2>. HIDE DEF u
  <2>4. Good(s')
    BY <1>1, <2>1, <2>2, <2>3, AsideGood
  <2>. QED BY <1>1, <1>2, <1>3, <1>13, <2>4 DEF Setvbuf, Call, IInv
<1>14. ASSUME NEW op \in Calls, NEW t, Good(t), NEW ok \in BOOLEAN, End(op, t, ok) PROVE IInv'
  <2>1. t.data \in Seq(Byte) /\ t.up \in BOOLEAN /\ Len(t.data) <= Quota
    BY <1>14, Fields DEF Good, Sized
  <2>2. Good(s')
    BY <1>14, <2>1, NoStreamGood DEF End
  <2>. QED BY <1>2, <1>3, <1>14, <2>2 DEF End, IInv
<1>15. ASSUME Fclose \/ ExitProcess \/ Killed PROVE IInv'
  <2>1. Good(rt_flush_write(s)) /\ flush_ok(s) \in BOOLEAN
    BY <1>1, FlushGood DEF flush_ok
  <2>2. CASE Fclose
    BY <1>14, <2>1, <2>2 DEF Fclose
  <2>3. CASE ExitProcess
    BY <1>14, <2>1, <2>3 DEF ExitProcess
  <2>4. CASE Killed
    BY <1>1, <1>14, <2>4 DEF Killed
  <2>. QED BY <1>15, <2>2, <2>3, <2>4
<1>16. ASSUME Device PROVE IInv'
  <2>. DEFINE u == [s EXCEPT !.up = ~@]
  <2>1. u \in Stream
    BY <1>1 DEF Stream
  <2>2. /\ u.data = s.data /\ u.at = s.at /\ u.mode = s.mode /\ u.cap = s.cap
        /\ u.dir = s.dir /\ u.buf = s.buf /\ u.pos = s.pos
    BY <1>1 DEF Stream
  <2>3. s' = u
    BY <1>16 DEF Device
  <2>. HIDE DEF u
  <2>4. Good(s')
    BY <1>1, <2>1, <2>2, <2>3, AsideGood
  <2>. QED BY <1>1, <1>16, <2>4 DEF Device, IInv
<1>17. ASSUME UNCHANGED vars PROVE IInv'
  BY <1>17 DEF vars, IInv
<1>. QED BY <1>4, <1>5, <1>6, <1>7, <1>8, <1>9, <1>10, <1>11, <1>12, <1>13, <1>15,
            <1>16, <1>17 DEF Next

\* A stream keeps its type, its buffer its bound and the file the device's:
\* for every buffer size, line discipline, failed call and mode.
THEOREM TypeCorrect == Spec => []TypeOK
<1>1. IInv => TypeOK
  BY DEF IInv, Good, Return, TypeOK
<1>. QED BY <1>1, InitIInv, NextIInv, PTL DEF Spec

\* The buffer means what `dir' says after every call of every sequence.
THEOREM BufferIsHonest == Spec => []BufferHonest
<1>1. IInv => BufferHonest
  BY DEF IInv, Good, BufferHonest
<1>. QED BY <1>1, InitIInv, NextIInv, PTL DEF Spec

\* A stream that may not write has nothing to flush, so no call reaches the
\* file.
LEMMA NothingToFlush ==
  ASSUME NEW t, Good(t), F_WRITE \notin t.mode
  PROVE  rt_flush_write(t) = t
BY DEF Good, Honest, rt_flush_write

\* fgetc and rt_fill leave the file of a stream without write permission alone.
LEMMA ReadsKeepFile ==
  ASSUME NEW t, Good(t), F_WRITE \notin t.mode
  PROVE  /\ rt_fill(t).data = t.data /\ rt_getbyte(t).data = t.data
         /\ \A p \in Payload : rt_putbytes(t, p).data = t.data
         /\ \A off \in Int, w \in {"SET", "CUR", "END"} : fseek(t, off, w).data = t.data
<1>1. t \in Stream /\ rt_flush_write(t) = t
  BY NothingToFlush DEF Good
<1>2. rt_fill(t) \in Stream /\ rt_fill(t).data = t.data
  <2>1. rt_fill(t) \in Stream
    BY FillGood DEF Good
  <2>2. rt_fill(t).data = t.data
    BY <1>1 DEF rt_fill, Stream
  <2>. QED BY <2>1, <2>2
<1>3. filled(t) \in Stream /\ filled(t).data = t.data
  BY <1>1, <1>2 DEF filled
<1>4. rt_getbyte(t).data = t.data
  <2>. HIDE DEF filled
  <2>. QED BY <1>1, <1>3 DEF rt_getbyte, Stream
<1>5. \A p \in Payload : rt_putbytes(t, p).data = t.data
  BY <1>1 DEF rt_putbytes, Stream
<1>6. \A off \in Int, w \in {"SET", "CUR", "END"} : fseek(t, off, w).data = t.data
  BY <1>1 DEF fseek, Stream
<1>. QED BY <1>2, <1>4, <1>5, <1>6

\* So does fread, whichever of its branches it takes.
LEMMA FreadKeepsFile ==
  ASSUME NEW t, Good(t), F_WRITE \notin t.mode, NEW want \in Nat
  PROVE  fread(t, want).data = t.data
<1>. DEFINE v == [t EXCEPT !.ungot = None]
            d == drained(t, want)
<1>1. t \in Stream
  BY DEF Good
<1>2. CASE want = 0 \/ F_READ \notin t.mode
  BY <1>1, <1>2 DEF fread, Stream
<1>3. CASE want # 0 /\ F_READ \in t.mode
  <2>1. v \in Stream /\ v.data = t.data /\ v.dir = t.dir
    BY <1>1 DEF Stream
  <2>2. v.dir # "out"
    BY <2>1 DEF Good, Honest
  <2>3. unpushed(t) = v
    BY <2>2 DEF unpushed, rt_flush_write
  <2>. HIDE DEF v
  <2>4. d.data = t.data
    <3>1. d = [v EXCEPT !.pos = @ + Drain(t, want)]
      BY <2>3 DEF drained
    <3>. QED BY <2>1, <3>1 DEF Stream
  <2>5. d \in Stream
    BY <1>3, DrainedGood DEF Good
  <2>. HIDE DEF d
  <2>6. \A left : read_on(d, left).data = d.data
    BY <2>5 DEF read_on, Stream
  <2>7. fread(t, want) = d \/ fread(t, want) = read_on(d, Left(t, want))
    BY <1>3 DEF fread, d
  <2>. QED BY <2>4, <2>6, <2>7
<1>. QED BY <1>2, <1>3

\* No sequence of calls on a stream opened without write permission changes
\* the file.
THEOREM ReadOnlyStreamKeepsFile == Spec => ReadOnlyKeepsFile
<1>1. IInv /\ [Next]_vars => [open /\ F_WRITE \notin s.mode => s'.data = s.data]_vars
  <2>. SUFFICES ASSUME IInv, Next, open, F_WRITE \notin s.mode
                PROVE  s'.data = s.data
    BY DEF vars
  <2>1. Good(s) /\ s \in Stream
    BY DEF IInv, Good
  <2>2. rt_flush_write(s) = s
    BY <2>1, NothingToFlush
  <2>3. ASSUME NEW c, NEW plus, Fopen(c, plus) PROVE FALSE
    BY <2>3 DEF Fopen
  <2>4. ASSUME NEW p \in Payload, Put(p) PROVE s'.data = s.data
    BY <2>1, <2>4, ReadsKeepFile DEF Put
  <2>5. CASE Get
    BY <2>1, <2>5, ReadsKeepFile DEF Get
  <2>6. ASSUME NEW want \in 0 .. BufSz + 1, Fread(want) PROVE s'.data = s.data
    BY <2>1, <2>6, FreadKeepsFile DEF Fread
  <2>7. ASSUME NEW c \in Byte, Ungetc(c) PROVE s'.data = s.data
    BY <2>1, <2>7 DEF Ungetc, Stream
  <2>8. ASSUME NEW off \in Offset, NEW w \in {"SET", "CUR", "END"}, Fseek(off, w)
        PROVE  s'.data = s.data
    <3>1. off \in Int
      BY CallAssumption
    <3>. QED BY <2>1, <2>8, <3>1, ReadsKeepFile DEF Fseek
  <2>9. CASE Rewind
    <3>1. 0 \in Int /\ "SET" \in {"SET", "CUR", "END"}
      OBVIOUS
    <3>2. fseek(s, 0, "SET").data = s.data /\ fseek(s, 0, "SET") \in Stream
      BY <2>1, <3>1, ReadsKeepFile, SeekGood DEF Good
    <3>. QED BY <2>9, <3>2 DEF Rewind, Stream
  <2>10. CASE Fflush \/ Clearerr
    BY <2>1, <2>2, <2>10 DEF Fflush, Clearerr, Stream
  <2>11. ASSUME NEW m, Setvbuf(m) PROVE s'.data = s.data
    BY <2>1, <2>11 DEF Setvbuf, Stream
  <2>12. CASE Fclose \/ ExitProcess \/ Killed
    <3>1. s' = NoStream(s.data, s.up)
      BY <2>2, <2>12 DEF Fclose, ExitProcess, Killed, End
    <3>. QED BY <3>1 DEF NoStream, NewFile
  <2>13. CASE Device
    BY <2>1, <2>13 DEF Device, Stream
  <2>. QED BY <2>3, <2>4, <2>5, <2>6, <2>7, <2>8, <2>9, <2>10, <2>11, <2>12, <2>13 DEF Next
<1>. QED BY <1>1, InitIInv, NextIInv, PTL DEF Spec, ReadOnlyKeepsFile

(***************************************************************************)
(* The refinement.                                                         *)
(***************************************************************************)

\* The file as the caller of a stream sees it.
View(t) == IF t.dir = "out" THEN Overlay(t.data, t.at, t.buf) ELSE t.data

\* Beyond honesty: an unbuffered stream holds nothing, read-ahead has been read
\* from at least once, and it comes from the file.
Settled(t) ==
  /\ t.bufmode = "none" /\ t.dir = "out" => t.buf = << >>
  /\ t.dir = "in" /\ t.pos = 0 => t.buf = << >>
  /\ t.dir = "in" /\ t.buf # << >> => t.at <= Len(t.data)

Held(t) == Good(t) /\ Settled(t)
RInv == IInv /\ Settled(s) /\ (~open => s.dir = "idle")

(* ---- files written over ---- *)

\* The two modules mean the same by writing bytes over a file.
LEMMA SameOverlay ==
  ASSUME NEW c, NEW at, NEW p
  PROVE  File!Overlay(c, at, p) = Overlay(c, at, p)
BY DEF File!Overlay, File!Larger, Overlay, Larger

\* What a file holds after bytes are written over it, byte by byte.
LEMMA OverlayAt ==
  ASSUME NEW c \in Seq(Byte), NEW at \in Nat, NEW p \in Seq(Byte)
  PROVE  /\ Overlay(c, at, p) \in Seq(Byte)
         /\ Len(Overlay(c, at, p)) = IF p = << >> THEN Len(c) ELSE Larger(Len(c), at + Len(p))
         /\ \A i \in 1 .. Len(Overlay(c, at, p)) :
              Overlay(c, at, p)[i] = IF at < i /\ i <= at + Len(p) THEN p[i - at]
                                     ELSE IF i <= Len(c) THEN c[i] ELSE Zero
<1>1. Len(c) \in Nat /\ Len(p) \in Nat
  BY LenProperties
<1>2. CASE p = << >>
  <2>1. Overlay(c, at, p) = c /\ Len(p) = 0
    BY <1>2, EmptySeq DEF Overlay
  <2>. QED BY <1>1, <1>2, <2>1
<1>3. CASE p # << >>
  <2>. DEFINE n == Larger(Len(c), at + Len(p))
              b(i) == IF at < i /\ i <= at + Len(p) THEN p[i - at]
                      ELSE IF i <= Len(c) THEN c[i] ELSE Zero
  <2>1. Overlay(c, at, p) = [i \in 1 .. n |-> b(i)]
    BY <1>3 DEF Overlay
  <2>2. Overlay(c, at, p) \in Seq(Byte) /\ Len(Overlay(c, at, p)) = n
    BY <1>3, OverlayType
  <2>3. ASSUME NEW i \in 1 .. n PROVE Overlay(c, at, p)[i] = b(i)
    <3>. HIDE DEF n, b
    <3>. QED BY <2>1
  <2>. HIDE DEF b
  <2>4. Len(Overlay(c, at, p)) = IF p = << >> THEN Len(c) ELSE Larger(Len(c), at + Len(p))
    BY <1>3, <2>2
  <2>. HIDE DEF n
  <2>5. \A i \in 1 .. Len(Overlay(c, at, p)) : Overlay(c, at, p)[i] = b(i)
    BY <2>2, <2>3
  <2>. QED BY <2>2, <2>4, <2>5 DEF b
<1>. QED BY <1>2, <1>3

\* Two writes in a row are one write of both.
LEMMA OverlayTwice ==
  ASSUME NEW c \in Seq(Byte), NEW at \in Nat, NEW p \in Seq(Byte), NEW q \in Seq(Byte)
  PROVE  Overlay(Overlay(c, at, p), at + Len(p), q) = Overlay(c, at, p \o q)
<1>. DEFINE d == Overlay(c, at, p)
            e == Overlay(d, at + Len(p), q)
            r == p \o q
            f == Overlay(c, at, r)
<1>1. /\ Len(c) \in Nat /\ Len(p) \in Nat /\ Len(q) \in Nat
      /\ (p = << >> <=> Len(p) = 0) /\ (q = << >> <=> Len(q) = 0)
  BY LenProperties, EmptySeq
<1>2. /\ r \in Seq(Byte) /\ Len(r) = Len(p) + Len(q)
      /\ \A i \in 1 .. Len(p) + Len(q) : r[i] = IF i <= Len(p) THEN p[i] ELSE q[i - Len(p)]
  BY ConcatProperties
<1>3. r = << >> <=> Len(r) = 0
  BY <1>2, EmptySeq
<1>. HIDE DEF r
<1>4. /\ d \in Seq(Byte)
      /\ Len(d) = IF p = << >> THEN Len(c) ELSE Larger(Len(c), at + Len(p))
      /\ \A i \in 1 .. Len(d) :
            d[i] = IF at < i /\ i <= at + Len(p) THEN p[i - at]
                   ELSE IF i <= Len(c) THEN c[i] ELSE Zero
  BY OverlayAt
<1>. HIDE DEF d
<1>5. at + Len(p) \in Nat
  BY <1>1
<1>6. /\ e \in Seq(Byte)
      /\ Len(e) = IF q = << >> THEN Len(d) ELSE Larger(Len(d), at + Len(p) + Len(q))
      /\ \A i \in 1 .. Len(e) :
            e[i] = IF at + Len(p) < i /\ i <= at + Len(p) + Len(q) THEN q[i - (at + Len(p))]
                   ELSE IF i <= Len(d) THEN d[i] ELSE Zero
  BY <1>4, <1>5, OverlayAt
<1>. HIDE DEF e
<1>7. /\ f \in Seq(Byte)
      /\ Len(f) = IF r = << >> THEN Len(c) ELSE Larger(Len(c), at + Len(r))
      /\ \A i \in 1 .. Len(f) :
            f[i] = IF at < i /\ i <= at + Len(r) THEN r[i - at]
                   ELSE IF i <= Len(c) THEN c[i] ELSE Zero
  BY <1>2, OverlayAt
<1>. HIDE DEF f
<1>8. Len(e) = Len(f) /\ Len(d) \in Nat /\ Len(e) \in Nat /\ Len(d) <= Len(e)
  BY <1>1, <1>2, <1>3, <1>4, <1>6, <1>7 DEF Larger
<1>9. ASSUME NEW i \in 1 .. Len(e) PROVE e[i] = f[i]
  <2>0. i \in 1 .. Len(f) /\ i \in Nat /\ i >= 1
    BY <1>8
  <2>1. CASE at + Len(p) < i /\ i <= at + Len(p) + Len(q)
    <3>1. e[i] = q[i - (at + Len(p))]
      BY <1>6, <2>1
    <3>2. f[i] = r[i - at]
      BY <1>1, <1>2, <1>7, <2>0, <2>1
    <3>3. i - at \in 1 .. Len(p) + Len(q) /\ ~(i - at <= Len(p))
      BY <1>1, <2>0, <2>1
    <3>4. r[i - at] = q[(i - at) - Len(p)]
      BY <1>2, <3>3
    <3>5. (i - at) - Len(p) = i - (at + Len(p))
      BY <1>1, <2>0
    <3>. QED BY <3>1, <3>2, <3>4, <3>5
  <2>2. CASE at < i /\ i <= at + Len(p)
    <3>1. i \in 1 .. Len(d)
      BY <1>1, <1>4, <2>0, <2>2 DEF Larger
    <3>2. e[i] = d[i]
      <4>1. ~(at + Len(p) < i) /\ i <= Len(d)
        BY <1>1, <1>8, <2>2, <3>1
      <4>2. e[i] = IF at + Len(p) < i /\ i <= at + Len(p) + Len(q) THEN q[i - (at + Len(p))]
                   ELSE IF i <= Len(d) THEN d[i] ELSE Zero
        BY ONLY <1>6, i \in 1 .. Len(e)
      <4>. QED BY ONLY <4>1, <4>2
    <3>3. d[i] = p[i - at]
      BY <1>4, <2>2, <3>1
    <3>4. f[i] = r[i - at]
      BY <1>1, <1>2, <1>7, <2>0, <2>2
    <3>5. i - at \in 1 .. Len(p) + Len(q) /\ i - at <= Len(p)
      BY <1>1, <2>0, <2>2
    <3>6. r[i - at] = p[i - at]
      BY <1>2, <3>5
    <3>. QED BY <3>2, <3>3, <3>4, <3>6
  <2>3. CASE ~(at < i /\ i <= at + Len(p) + Len(q))
    <3>1. f[i] = IF i <= Len(c) THEN c[i] ELSE Zero
      BY <1>1, <1>2, <1>7, <2>0, <2>3
    <3>2. e[i] = IF i <= Len(d) THEN d[i] ELSE Zero
      BY <1>1, <1>6, <2>0, <2>3
    <3>3. i <= Len(d) => d[i] = IF i <= Len(c) THEN c[i] ELSE Zero
      BY <1>1, <1>4, <2>0, <2>3
    <3>4. Len(c) <= Len(d)
      BY <1>1, <1>4 DEF Larger
    <3>5. CASE i <= Len(d)
      BY <3>1, <3>2, <3>3, <3>5
    <3>6. CASE ~(i <= Len(d))
      <4>1. ~(i <= Len(c))
        BY <1>1, <1>8, <2>0, <3>4, <3>6
      <4>. QED BY <3>1, <3>2, <3>6, <4>1
    <3>. QED BY <3>5, <3>6
  <2>. QED BY <1>1, <2>0, <2>1, <2>2, <2>3
<1>10. e = f
  BY <1>6, <1>7, <1>8, <1>9, SeqEqual
<1>. QED BY <1>10 DEF d, e, f, r

\* Part of a write leaves the old file with some of the new one on it.
LEMMA PartlyWritten ==
  ASSUME NEW c \in Seq(Byte), NEW at \in Nat, NEW p \in Seq(Byte), NEW n \in 0 .. Len(p)
  PROVE  File!WrittenBack(c, Overlay(c, at, SubSeq(p, 1, n)), Overlay(c, at, p))
<1>. DEFINE q == SubSeq(p, 1, n)
            d == Overlay(c, at, q)
            e == Overlay(c, at, p)
<1>1. Len(c) \in Nat /\ Len(p) \in Nat /\ n \in Nat /\ n <= Len(p)
  BY LenProperties
<1>2. /\ q \in Seq(Byte) /\ Len(q) = n
      /\ \A i \in 1 .. n : q[i] = p[i]
  BY <1>1, Stretch
<1>3. (q = << >> <=> n = 0) /\ (p = << >> <=> Len(p) = 0)
  BY <1>2, EmptySeq
<1>. HIDE DEF q
<1>4. /\ d \in Seq(Byte)
      /\ Len(d) = IF q = << >> THEN Len(c) ELSE Larger(Len(c), at + Len(q))
      /\ \A i \in 1 .. Len(d) :
            d[i] = IF at < i /\ i <= at + Len(q) THEN q[i - at]
                   ELSE IF i <= Len(c) THEN c[i] ELSE Zero
  BY <1>2, OverlayAt
<1>. HIDE DEF d
<1>5. /\ e \in Seq(Byte)
      /\ Len(e) = IF p = << >> THEN Len(c) ELSE Larger(Len(c), at + Len(p))
      /\ \A i \in 1 .. Len(e) :
            e[i] = IF at < i /\ i <= at + Len(p) THEN p[i - at]
                   ELSE IF i <= Len(c) THEN c[i] ELSE Zero
  BY OverlayAt
<1>. HIDE DEF e
<1>6. Len(c) <= Len(d) /\ Len(d) <= File!Larger(Len(c), Len(e)) /\ Len(d) <= Len(e) /\ Len(e) \in Nat
  BY <1>1, <1>2, <1>3, <1>4, <1>5 DEF Larger, File!Larger
<1>7. ASSUME NEW i \in 1 .. Len(d)
      PROVE  \/ i <= Len(c) /\ d[i] = c[i]
             \/ i <= Len(e) /\ d[i] = e[i]
             \/ d[i] = Zero
  <2>0. i \in Nat /\ Len(d) \in Nat /\ i <= Len(d)
    BY <1>4, LenProperties
  <2>1. CASE at < i /\ i <= at + n
    <3>1. i \in 1 .. Len(e)
      BY <1>6, <2>0
    <3>2. d[i] = q[i - at] /\ e[i] = p[i - at]
      BY <1>1, <1>2, <1>4, <1>5, <2>0, <2>1, <3>1
    <3>3. i - at \in 1 .. n
      BY <1>1, <2>0, <2>1
    <3>. QED BY <1>2, <3>1, <3>2, <3>3
  <2>2. CASE ~(at < i /\ i <= at + n)
    BY <1>2, <1>4, <2>2
  <2>. QED BY <2>1, <2>2
<1>8. File!WrittenBack(c, d, e)
  BY <1>6, <1>7 DEF File!WrittenBack
<1>. QED BY <1>8 DEF d, e, q

\* A file is written back over itself, or over one it is shorter than.
LEMMA WrittenSame ==
  ASSUME NEW c \in Seq(Byte), NEW e \in Seq(Byte)
  PROVE  File!WrittenBack(c, c, e)
<1>1. Len(c) \in Nat /\ Len(e) \in Nat
  BY LenProperties
<1>. QED BY <1>1 DEF File!WrittenBack, File!Larger

LEMMA WrittenWhole ==
  ASSUME NEW c \in Seq(Byte), NEW e \in Seq(Byte), Len(c) <= Len(e)
  PROVE  File!WrittenBack(c, e, e)
<1>1. Len(c) \in Nat /\ Len(e) \in Nat
  BY LenProperties
<1>. QED BY <1>1 DEF File!WrittenBack, File!Larger

(* ---- the handle ---- *)

\* A raw write that takes every byte writes them over the file where the handle
\* stands; one that does not writes the first of them and raises the error flag.
LEMMA RawWriteShows ==
  ASSUME NEW t \in Stream, Len(t.data) <= Quota, NEW p \in Seq(Byte)
  PROVE  LET u == rt_raw_write(t, p) IN
         /\ u.eof = t.eof /\ u.bufmode = t.bufmode
         /\ u.at \in Nat
         /\ write_ok(t, p) => /\ u.data = Overlay(t.data, t.at, p)
                              /\ u.at = t.at + Len(p)
                              /\ u.err = t.err
         /\ ~write_ok(t, p) => /\ \E n \in 0 .. Len(p) : u.data = Overlay(t.data, t.at, SubSeq(p, 1, n))
                               /\ u.err = TRUE
<1>. DEFINE n == Taken(t, Len(p))
            d == Overlay(t.data, t.at, SubSeq(p, 1, n))
            a == t.at + n
            e == t.err \/ n < Len(p)
            u == [t EXCEPT !.data = d, !.at = a, !.err = e]
<1>1. Len(p) \in Nat /\ t.at \in Nat /\ t.err \in BOOLEAN
  BY LenProperties, Fields
<1>2. n \in 0 .. Len(p)
  BY <1>1, TakenRange
<1>3. write_ok(t, p) <=> n = Len(p)
  BY DEF write_ok
<1>4. rt_raw_write(t, p) = u
  BY DEF rt_raw_write
<1>. HIDE DEF n
<1>5. n = Len(p) => e = t.err
  <2>1. n = Len(p) => ~(n < Len(p))
    BY <1>1
  <2>. QED BY <1>1, <2>1, Zenon
<1>6. n # Len(p) => e = TRUE
  <2>1. n # Len(p) => n < Len(p)
    BY <1>1, <1>2
  <2>. QED BY <2>1
<1>7. n = Len(p) => d = Overlay(t.data, t.at, p)
  BY SubSeqFull
<1>8. a \in Nat
  BY <1>1, <1>2
<1>9. \E k \in 0 .. Len(p) : d = Overlay(t.data, t.at, SubSeq(p, 1, k))
  BY <1>2
<1>. HIDE DEF d, e
<1>10. u.data = d /\ u.at = a /\ u.err = e /\ u.eof = t.eof /\ u.bufmode = t.bufmode
  BY DEF Stream
<1>. HIDE DEF u
<1>. QED BY <1>3, <1>4, <1>5, <1>6, <1>7, <1>8, <1>9, <1>10

\* The file the caller sees is a file, and at least as long as what is durable.
LEMMA ViewType ==
  ASSUME NEW t \in Stream
  PROVE  /\ View(t) \in Seq(Byte) /\ Len(View(t)) \in Nat
         /\ Len(t.data) <= Len(View(t))
<1>1. /\ t.data \in Seq(Byte) /\ t.at \in Nat /\ t.buf \in Seq(Byte)
      /\ Len(t.data) \in Nat /\ Len(t.buf) \in Nat
  BY Fields
<1>2. /\ Overlay(t.data, t.at, t.buf) \in Seq(Byte)
      /\ Len(t.data) <= Len(Overlay(t.data, t.at, t.buf))
  BY <1>1, OverlayAt DEF Larger
<1>. QED BY <1>1, <1>2, LenProperties DEF View

\* With nothing pending the caller sees what is durable.
LEMMA NothingPending ==
  ASSUME NEW t, t.dir # "out" \/ t.buf = << >>
  PROVE  View(t) = t.data
BY DEF View, Overlay

\* A flush that succeeds makes durable what the caller saw and moves nothing.
LEMMA FlushShows ==
  ASSUME NEW t, Held(t), flush_ok(t)
  PROVE  LET u == rt_flush_write(t) IN
         /\ Held(u) /\ u.data = View(t) /\ View(u) = View(t) /\ ftell(u) = ftell(t)
         /\ u.dir = (IF t.dir = "out" THEN "idle" ELSE t.dir)
         /\ u.ungot = t.ungot /\ u.err = t.err /\ u.eof = t.eof
         /\ u.mode = t.mode /\ u.cap = t.cap /\ u.bufmode = t.bufmode
         /\ t.dir = "out" => u.at = t.at + Len(t.buf)
<1>. DEFINE u == rt_flush_write(t)
<1>1. CASE t.dir # "out"
  <2>1. u = t
    BY <1>1 DEF rt_flush_write
  <2>2. View(t) = t.data
    BY <1>1, NothingPending
  <2>. HIDE DEF u
  <2>. QED BY <1>1, <2>1, <2>2 DEF u
<1>2. CASE t.dir = "out"
  <2>1. /\ t \in Stream /\ Len(t.data) <= Quota /\ t.buf \in Seq(Byte) /\ Good(t)
        /\ t.at \in Nat /\ Len(t.buf) \in Nat
    BY Fields DEF Held, Good, Sized
  <2>2. write_ok(t, t.buf)
    BY <1>2 DEF flush_ok
  <2>. DEFINE r == rt_raw_write(t, t.buf)
              v == [r EXCEPT !.buf = << >>, !.dir = "idle"]
  <2>3. /\ r \in Stream /\ r.data = Overlay(t.data, t.at, t.buf)
        /\ r.at = t.at + Len(t.buf) /\ r.err = t.err /\ r.eof = t.eof
        /\ r.mode = t.mode /\ r.cap = t.cap /\ r.bufmode = t.bufmode /\ r.ungot = t.ungot
        /\ r.pos = t.pos
    BY <2>1, <2>2, RawWriteType, RawWriteShows
  <2>4. u = v
    BY <1>2, <2>2 DEF rt_flush_write
  <2>. HIDE DEF r
  <2>5. /\ v.data = r.data /\ v.at = r.at /\ v.err = r.err /\ v.eof = r.eof
        /\ v.mode = r.mode /\ v.cap = r.cap /\ v.bufmode = r.bufmode
        /\ v.ungot = r.ungot /\ v.dir = "idle" /\ v.buf = << >> /\ v.pos = r.pos
    BY <2>3 DEF Stream
  <2>6. Good(u)
    BY <2>1, FlushGood
  <2>. HIDE DEF u, v
  <2>7. Held(u)
    BY <2>4, <2>5, <2>6 DEF Held, Settled
  <2>8. u.data = View(t) /\ View(u) = View(t)
    BY <1>2, <2>3, <2>4, <2>5 DEF View
  <2>9. ftell(u) = ftell(t)
    BY <1>2, <2>3, <2>4, <2>5 DEF ftell
  <2>. QED BY <1>2, <2>3, <2>4, <2>5, <2>7, <2>8, <2>9 DEF u
<1>. QED BY <1>1, <1>2

\* One that fails leaves nothing pending, the error flag up, and on the device
\* the old file with some of the pending bytes on it.
LEMMA FlushFails ==
  ASSUME NEW t, Held(t), ~flush_ok(t)
  PROVE  LET u == rt_flush_write(t) IN
         /\ Held(u) /\ t.dir = "out" /\ u.dir = "out" /\ u.buf = << >> /\ u.pos = 0
         /\ View(u) = u.data /\ File!WrittenBack(t.data, u.data, View(t))
         /\ u.err = TRUE /\ u.ungot = t.ungot /\ u.eof = t.eof
         /\ u.mode = t.mode /\ u.at \in Nat
<1>. DEFINE u == rt_flush_write(t)
            r == rt_raw_write(t, t.buf)
            v == [r EXCEPT !.buf = << >>, !.dir = "out"]
<1>1. /\ t \in Stream /\ Len(t.data) <= Quota /\ t.buf \in Seq(Byte) /\ Good(t)
      /\ t.at \in Nat /\ t.data \in Seq(Byte)
  BY Fields DEF Held, Good, Sized
<1>2. t.dir = "out" /\ ~write_ok(t, t.buf) /\ t.pos = 0
  BY <1>1 DEF flush_ok, Good, Honest
<1>3. /\ r \in Stream /\ r.err = TRUE /\ r.eof = t.eof /\ r.ungot = t.ungot
      /\ r.mode = t.mode /\ r.at \in Nat /\ r.pos = t.pos
      /\ \E n \in 0 .. Len(t.buf) : r.data = Overlay(t.data, t.at, SubSeq(t.buf, 1, n))
  BY <1>1, <1>2, RawWriteType, RawWriteShows
<1>4. u = v
  BY <1>2 DEF rt_flush_write
<1>. HIDE DEF r
<1>5. /\ v.data = r.data /\ v.at = r.at /\ v.err = r.err /\ v.eof = r.eof
      /\ v.mode = r.mode /\ v.pos = r.pos
      /\ v.ungot = r.ungot /\ v.dir = "out" /\ v.buf = << >>
  BY <1>3 DEF Stream
<1>6. Good(u)
  BY <1>1, FlushGood
<1>. HIDE DEF u, v
<1>7. Held(u)
  BY <1>4, <1>5, <1>6 DEF Held, Settled
<1>8. View(u) = u.data
  BY <1>4, <1>5, NothingPending
<1>9. File!WrittenBack(t.data, u.data, View(t))
  <2>1. View(t) = Overlay(t.data, t.at, t.buf)
    BY <1>2 DEF View
  <2>. QED BY <1>1, <1>3, <1>4, <1>5, <2>1, PartlyWritten
<1>. QED BY <1>2, <1>3, <1>4, <1>5, <1>7, <1>8, <1>9 DEF u

(* ---- the write side ---- *)

\* Leaving read mode puts the handle where ftell stood, or at the start of the
\* file when a pushed-back byte had put ftell before it.
LEMMA DropReadShows ==
  ASSUME NEW t, Held(t)
  PROVE  LET u == rt_drop_read(t) IN
         /\ Held(u) /\ u.dir = (IF t.dir = "in" THEN "idle" ELSE t.dir)
         /\ u.data = t.data /\ View(u) = View(t)
         /\ ftell(u) = Larger(0, ftell(t))
         /\ u.ungot = (IF t.dir = "in" THEN None ELSE t.ungot)
         /\ u.err = t.err /\ u.eof = t.eof /\ u.mode = t.mode /\ u.bufmode = t.bufmode
<1>. DEFINE u == rt_drop_read(t)
<1>1. /\ t \in Stream /\ Honest(t) /\ Good(t) /\ Settled(t)
      /\ t.at \in Nat /\ Len(t.buf) \in Nat /\ t.pos \in Nat
      /\ t.dir \in {"in", "out", "idle"}
  BY Fields DEF Held, Good, Stream
<1>2. CASE t.dir # "in"
  <2>1. u = t
    BY <1>2 DEF rt_drop_read
  <2>2. ftell(t) \in Nat
    BY <1>1, <1>2 DEF ftell
  <2>. HIDE DEF u
  <2>. QED BY <1>2, <2>1, <2>2 DEF u, Larger
<1>3. CASE t.dir = "in"
  <2>. DEFINE a == IF t.at >= Unread(t) THEN t.at - Unread(t) ELSE t.at
              v == [t EXCEPT !.at = a, !.buf = << >>, !.pos = 0,
                             !.ungot = None, !.dir = "idle"]
  <2>1. u = v
    BY <1>3 DEF rt_drop_read
  <2>2. a = Larger(0, ftell(t))
    <3>1. ftell(t) = t.at - Unread(t)
      BY <1>3 DEF ftell
    <3>2. t.pos <= Len(t.buf) /\ Len(t.buf) <= t.at
      BY <1>1, <1>3 DEF Honest
    <3>3. CASE t.at >= Unread(t)
      <4>1. Unread(t) \in Int
        BY <1>1 DEF Unread
      <4>. QED BY <1>1, <3>1, <3>3, <4>1 DEF Larger
    <3>4. CASE ~(t.at >= Unread(t))
      <4>1. t.pos = 0 /\ Unread(t) = Len(t.buf) + 1 /\ t.at = Len(t.buf)
        BY <1>1, <3>2, <3>4 DEF Unread
      <4>2. t.at = 0
        BY <1>1, <1>3, <4>1, EmptySeq DEF Settled
      <4>. QED BY <3>1, <3>4, <4>1, <4>2 DEF Larger
    <3>. QED BY <3>3, <3>4
  <2>3. Good(u)
    BY <1>1, DropReadGood
  <2>. HIDE DEF a
  <2>4. /\ v.data = t.data /\ v.at = a /\ v.dir = "idle" /\ v.buf = << >> /\ v.ungot = None
        /\ v.err = t.err /\ v.eof = t.eof /\ v.mode = t.mode /\ v.bufmode = t.bufmode
    BY <1>1 DEF Stream
  <2>. HIDE DEF u, v
  <2>5. Held(u)
    BY <2>1, <2>3, <2>4 DEF Held, Settled
  <2>6. View(u) = View(t)
    BY <1>3, <2>1, <2>4 DEF View
  <2>7. ftell(u) = a
    BY <2>1, <2>4 DEF ftell
  <2>. QED BY <1>3, <2>1, <2>2, <2>4, <2>5, <2>6, <2>7 DEF u
<1>. QED BY <1>2, <1>3

\* A stream about to write shows the same file, and its next byte goes to where
\* ftell stood.
LEMMA TurnedShows ==
  ASSUME NEW t, Held(t), F_WRITE \in t.mode
  PROVE  LET v == Turned(t) IN
         /\ Held(v) /\ v.dir = "out" /\ v.data = t.data /\ View(v) = View(t)
         /\ v.at + Len(v.buf) = Larger(0, ftell(t))
         /\ v.ungot = (IF t.dir = "in" THEN None ELSE t.ungot)
         /\ v.err = t.err /\ v.eof = t.eof
<1>. DEFINE d == rt_drop_read(t)
            u == [d EXCEPT !.dir = "out"]
<1>1. /\ Held(d) /\ d.dir = (IF t.dir = "in" THEN "idle" ELSE t.dir)
      /\ d.data = t.data /\ View(d) = View(t)
      /\ ftell(d) = Larger(0, ftell(t))
      /\ d.ungot = (IF t.dir = "in" THEN None ELSE t.ungot)
      /\ d.err = t.err /\ d.eof = t.eof /\ d.mode = t.mode /\ d.bufmode = t.bufmode
  BY DropReadShows
<1>2. Turned(t) = u
  BY DEF Turned
<1>3. Good(u)
  BY <1>2, TurnedGood DEF Held
<1>. HIDE DEF d
<1>4. d \in Stream /\ Honest(d) /\ Settled(d) /\ d.at \in Nat /\ Len(d.buf) \in Nat
      /\ d.dir \in {"in", "out", "idle"}
  BY <1>1, Fields DEF Held, Good, Stream
<1>5. /\ u.data = d.data /\ u.at = d.at /\ u.dir = "out" /\ u.buf = d.buf
      /\ u.err = d.err /\ u.eof = d.eof /\ u.ungot = d.ungot /\ u.bufmode = d.bufmode
  BY <1>4 DEF Stream
<1>. HIDE DEF u
<1>6. d.dir # "in"
  BY <1>1
<1>7. d.dir = "idle" => d.buf = << >>
  BY <1>4 DEF Honest
<1>8. Held(u)
  BY <1>3, <1>4, <1>5, <1>6, <1>7 DEF Held, Settled
<1>9. View(u) = View(d)
  BY <1>4, <1>5, <1>6, <1>7 DEF View, Overlay
<1>10. u.at + Len(u.buf) = ftell(d)
  BY <1>4, <1>5, <1>6, <1>7, EmptySeq DEF ftell
<1>. QED BY <1>1, <1>2, <1>5, <1>8, <1>9, <1>10

\* What a write does to the file the caller sees.
WriteShows(t, p) == Overlay(View(t), Larger(0, ftell(t)), p)

\* A write that succeeds lands at the position, whatever part of it is sent.
LEMMA PutShows ==
  ASSUME NEW t, Held(t), NEW p \in Seq(Byte), putbytes_ok(t, p)
  PROVE  LET u == rt_putbytes(t, p) IN
         /\ Held(u) /\ u.dir = "out" /\ View(u) = WriteShows(t, p)
         /\ ftell(u) = Larger(0, ftell(t)) + Len(p)
         /\ File!WrittenBack(t.data, u.data, View(u))
         /\ u.ungot = (IF t.dir = "in" THEN None ELSE t.ungot)
         /\ u.err = t.err /\ u.eof = t.eof
<1>. DEFINE v == Turned(t)
            u == rt_putbytes(t, p)
<1>1. F_WRITE \in t.mode /\ put_ok(v, p)
  BY DEF putbytes_ok
<1>2. /\ Held(v) /\ v.dir = "out" /\ v.data = t.data /\ View(v) = View(t)
      /\ v.at + Len(v.buf) = Larger(0, ftell(t))
      /\ v.ungot = (IF t.dir = "in" THEN None ELSE t.ungot)
      /\ v.err = t.err /\ v.eof = t.eof
  BY <1>1, TurnedShows
<1>3. u = put_turned(v, p)
  BY <1>1 DEF rt_putbytes
<1>4. Good(u)
  BY PutGood DEF Held
<1>. HIDE DEF v, u
<1>5. /\ v \in Stream /\ Sized(v) /\ Settled(v) /\ Len(v.data) <= Quota
      /\ v.data \in Seq(Byte) /\ v.at \in Nat /\ v.buf \in Seq(Byte) /\ Len(v.buf) \in Nat
      /\ v.cap \in Nat /\ Len(p) \in Nat /\ Len(v.data) \in Nat
  BY <1>2, Fields, LenProperties DEF Held, Good, Sized
<1>6. View(v) = Overlay(v.data, v.at, v.buf)
  BY <1>2 DEF View
<1>7. WriteShows(t, p) = Overlay(v.data, v.at, v.buf \o p)
  <2>1. Overlay(Overlay(v.data, v.at, v.buf), v.at + Len(v.buf), p) = Overlay(v.data, v.at, v.buf \o p)
    <3>1. v.data \in Seq(Byte) /\ v.at \in Nat /\ v.buf \in Seq(Byte) /\ p \in Seq(Byte)
      BY <1>5
    <3>. QED BY ONLY <3>1, OverlayTwice, Zenon
  <2>. QED BY <1>2, <1>6, <2>1 DEF WriteShows
<1>8. CASE v.bufmode = "none" \/ v.cap = 0
  <2>1. v.buf = << >> /\ Len(v.buf) = 0
    BY <1>2, <1>5, <1>8, EmptySeq DEF Settled, Sized
  <2>2. u = rt_raw_write(v, p) /\ write_ok(v, p)
    BY <1>1, <1>3, <1>8 DEF put_turned, put_ok
  <2>3. /\ u.data = Overlay(v.data, v.at, p) /\ u.at = v.at + Len(p) /\ u.err = v.err
        /\ u.eof = v.eof /\ u.buf = v.buf /\ u.dir = v.dir /\ u.ungot = v.ungot
    BY <1>5, <2>2, RawWriteType, RawWriteShows
  <2>4. View(u) = u.data
    BY <2>1, <2>3, NothingPending
  <2>5. v.buf \o p = p
    BY <2>1, ConcatEmptySeq
  <2>6. Held(u)
    BY <1>2, <1>4, <2>1, <2>3 DEF Held, Settled
  <2>7. File!WrittenBack(v.data, u.data, u.data)
    <3>1. u.data \in Seq(Byte) /\ Len(v.data) <= Len(u.data)
      BY <1>5, <2>3, OverlayAt DEF Larger
    <3>. QED BY <1>5, <3>1, WrittenWhole
  <2>8. ftell(u) = v.at + Len(v.buf) + Len(p)
    BY <1>2, <1>5, <2>1, <2>3 DEF ftell
  <2>. QED BY <1>2, <1>7, <2>3, <2>4, <2>5, <2>6, <2>7, <2>8 DEF u
<1>9. CASE ~(v.bufmode = "none" \/ v.cap = 0)
  <2>. DEFINE all == v.buf \o p
              e   == Emitted(v, p)
              sent == SubSeq(all, 1, e)
              rest == SubSeq(all, e + 1, Len(all))
              r   == rt_raw_write(v, sent)
              w   == [r EXCEPT !.buf = rest]
  <2>1. all \in Seq(Byte) /\ Len(all) = Len(v.buf) + Len(p) /\ Len(all) \in Nat
    BY <1>5, ConcatProperties
  <2>2. e \in 0 .. Len(all)
    BY <1>5, <1>9, <2>1, EmittedRange
  <2>3. u = w /\ write_ok(v, sent)
    BY <1>1, <1>3, <1>9 DEF put_turned, put_ok
  <2>. HIDE DEF all, e
  <2>4. /\ sent \in Seq(Byte) /\ Len(sent) = e
        /\ rest \in Seq(Byte) /\ Len(rest) = Len(all) - e
    <3>1. e \in Int /\ e <= Len(all) /\ e + 1 \in Int /\ e + 1 >= 1 /\ Len(all) \in Int
      BY <2>1, <2>2
    <3>2. sent \in Seq(Byte) /\ Len(sent) = IF 1 <= e THEN e - 1 + 1 ELSE 0
      BY <2>1, <3>1, Stretch
    <3>3. rest \in Seq(Byte) /\ Len(rest) = IF e + 1 <= Len(all) THEN Len(all) - (e + 1) + 1 ELSE 0
      BY <2>1, <3>1, Stretch
    <3>. QED BY <2>1, <2>2, <3>2, <3>3
  <2>5. sent \o rest = all
    <3>1. 1 \in 1 .. Len(all) + 1 /\ e \in 1 - 1 .. Len(all) /\ Len(all) \in e .. Len(all)
      BY <2>1, <2>2
    <3>2. sent \o rest = SubSeq(all, 1, Len(all))
      BY <2>1, <3>1, ConcatAdjacentSubSeq
    <3>. QED BY <2>1, <3>2, SubSeqFull
  <2>10. File!WrittenBack(v.data, Overlay(v.data, v.at, sent), Overlay(v.data, v.at, all))
    BY <1>5, <2>1, <2>2, PartlyWritten
  <2>. HIDE DEF sent, rest
  <2>6. /\ r \in Stream /\ r.data = Overlay(v.data, v.at, sent) /\ r.at = v.at + e
        /\ r.err = v.err /\ r.eof = v.eof /\ r.dir = v.dir /\ r.ungot = v.ungot
        /\ r.bufmode = v.bufmode
    BY <1>5, <2>3, <2>4, RawWriteType, RawWriteShows
  <2>. HIDE DEF r
  <2>7. /\ w.data = r.data /\ w.at = r.at /\ w.err = r.err /\ w.eof = r.eof
        /\ w.dir = r.dir /\ w.ungot = r.ungot /\ w.buf = rest /\ w.bufmode = r.bufmode
    BY <2>6 DEF Stream
  <2>. HIDE DEF w
  <2>8. View(u) = Overlay(v.data, v.at, all)
    <3>1. View(u) = Overlay(Overlay(v.data, v.at, sent), v.at + e, rest)
      BY <1>2, <2>3, <2>6, <2>7 DEF View
    <3>2. Overlay(Overlay(v.data, v.at, sent), v.at + Len(sent), rest)
            = Overlay(v.data, v.at, sent \o rest)
      <4>1. PICK b \in Seq(Byte), at \in Nat, q \in Seq(Byte), z \in Seq(Byte) :
              b = v.data /\ at = v.at /\ q = sent /\ z = rest
        BY <1>5, <2>4
      <4>2. Overlay(Overlay(b, at, q), at + Len(q), z) = Overlay(b, at, q \o z)
        BY ONLY b \in Seq(Byte), at \in Nat, q \in Seq(Byte), z \in Seq(Byte), OverlayTwice
      <4>. QED BY ONLY <4>1, <4>2
    <3>. QED BY <2>4, <2>5, <3>1, <3>2
  <2>9. Held(u)
    BY <1>4, <1>2, <1>9, <2>3, <2>6, <2>7 DEF Held, Settled
  <2>11. ftell(u) = v.at + Len(v.buf) + Len(p)
    <3>1. ftell(u) = (v.at + e) + (Len(all) - e)
      BY <1>2, <2>3, <2>4, <2>6, <2>7 DEF ftell
    <3>. QED BY <1>5, <2>1, <2>2, <3>1
  <2>12. WriteShows(t, p) = Overlay(v.data, v.at, all)
    BY <1>7 DEF all
  <2>. QED BY <1>2, <2>3, <2>6, <2>7, <2>8, <2>9, <2>10, <2>11, <2>12 DEF u
<1>. QED BY <1>8, <1>9

\* One that fails loses what it accepted and could not send, and says so.
LEMMA PutFails ==
  ASSUME NEW t, Held(t), NEW p \in Seq(Byte), F_WRITE \in t.mode, ~putbytes_ok(t, p)
  PROVE  LET u == rt_putbytes(t, p) IN
         /\ Held(u) /\ View(u) = u.data /\ u.err = TRUE /\ ftell(u) \in Nat
         /\ File!WrittenBack(t.data, u.data, WriteShows(t, p))
<1>. DEFINE v == Turned(t)
            u == rt_putbytes(t, p)
<1>1. ~put_ok(v, p)
  BY DEF putbytes_ok
<1>2. /\ Held(v) /\ v.dir = "out" /\ v.data = t.data /\ View(v) = View(t)
      /\ v.at + Len(v.buf) = Larger(0, ftell(t))
  BY TurnedShows
<1>3. u = put_turned(v, p)
  BY DEF rt_putbytes
<1>4. Good(u)
  BY PutGood DEF Held
<1>. HIDE DEF v, u
<1>5. /\ v \in Stream /\ Sized(v) /\ Settled(v) /\ Len(v.data) <= Quota
      /\ v.data \in Seq(Byte) /\ v.at \in Nat /\ v.buf \in Seq(Byte) /\ Len(v.buf) \in Nat
      /\ v.cap \in Nat /\ Len(p) \in Nat
  BY <1>2, Fields, LenProperties DEF Held, Good, Sized
<1>6. View(v) = Overlay(v.data, v.at, v.buf)
  BY <1>2 DEF View
<1>7. WriteShows(t, p) = Overlay(v.data, v.at, v.buf \o p)
  <2>1. Overlay(Overlay(v.data, v.at, v.buf), v.at + Len(v.buf), p) = Overlay(v.data, v.at, v.buf \o p)
    <3>1. v.data \in Seq(Byte) /\ v.at \in Nat /\ v.buf \in Seq(Byte) /\ p \in Seq(Byte)
      BY <1>5
    <3>. QED BY ONLY <3>1, OverlayTwice, Zenon
  <2>. QED BY <1>2, <1>6, <2>1 DEF WriteShows
<1>8. v.buf \o p \in Seq(Byte) /\ Len(v.buf \o p) = Len(v.buf) + Len(p)
  BY <1>5, ConcatProperties
<1>9. /\ u.err = TRUE /\ u.dir = "out" /\ u.at \in Nat /\ u.buf = << >>
      /\ \E n \in 0 .. Len(v.buf \o p) :
            u.data = Overlay(v.data, v.at, SubSeq(v.buf \o p, 1, n))
  <2>1. CASE v.bufmode = "none" \/ v.cap = 0
    <3>1. v.buf = << >>
      BY <1>2, <1>5, <2>1, EmptySeq DEF Settled, Sized
    <3>2. u = rt_raw_write(v, p) /\ ~write_ok(v, p)
      BY <1>1, <1>3, <2>1 DEF put_turned, put_ok
    <3>3. v.buf \o p = p
      BY <3>1, ConcatEmptySeq
    <3>4. /\ u.err = TRUE /\ u.at \in Nat /\ u.buf = v.buf /\ u.dir = v.dir
          /\ \E n \in 0 .. Len(p) : u.data = Overlay(v.data, v.at, SubSeq(p, 1, n))
      BY <1>5, <3>2, RawWriteType, RawWriteShows
    <3>. QED BY <1>2, <3>1, <3>3, <3>4
  <2>2. CASE ~(v.bufmode = "none" \/ v.cap = 0)
    <3>. DEFINE all == v.buf \o p
                e   == Emitted(v, p)
                sent == SubSeq(all, 1, e)
                r   == rt_raw_write(v, sent)
                w   == [r EXCEPT !.buf = << >>]
    <3>1. e \in 0 .. Len(all) /\ Len(all) \in Nat
      BY <1>5, <1>8, <2>2, EmittedRange
    <3>2. u = w /\ ~write_ok(v, sent)
      BY <1>1, <1>3, <2>2 DEF put_turned, put_ok
    <3>. HIDE DEF e
    <3>3. sent \in Seq(Byte) /\ Len(sent) = e
      BY <1>8, <3>1, Stretch
    <3>6. ASSUME NEW n \in 0 .. e PROVE SubSeq(sent, 1, n) = SubSeq(all, 1, n)
      <4>1. CASE n = 0
        BY <4>1, SubSeqEmpty
      <4>2. CASE n # 0
        <5>1. 1 \in 1 .. Len(all) /\ e \in 1 .. Len(all) /\ 1 \in 1 .. e - 1 + 1 /\ n \in 1 .. e - 1 + 1
          BY <3>1, <4>2
        <5>0. all \in Seq(Byte)
          BY <1>8
        <5>. HIDE DEF all
        <5>2. SubSeq(SubSeq(all, 1, e), 1, n) = SubSeq(all, 1 + 1 - 1, 1 + n - 1)
          BY ONLY <5>0, <5>1, SubSeqOfSubSeq
        <5>. QED BY <5>1, <5>2
      <4>. QED BY <4>1, <4>2
    <3>. HIDE DEF sent
    <3>4. /\ r \in Stream /\ r.err = TRUE /\ r.at \in Nat /\ r.dir = v.dir
          /\ \E n \in 0 .. Len(sent) : r.data = Overlay(v.data, v.at, SubSeq(sent, 1, n))
      BY <1>5, <3>2, <3>3, RawWriteType, RawWriteShows
    <3>. HIDE DEF r
    <3>5. /\ w.data = r.data /\ w.at = r.at /\ w.err = r.err /\ w.dir = r.dir /\ w.buf = << >>
      BY <3>4 DEF Stream
    <3>7. PICK n \in 0 .. e : r.data = Overlay(v.data, v.at, SubSeq(all, 1, n))
      BY <3>3, <3>4, <3>6
    <3>8. n \in 0 .. Len(all)
      BY <3>1
    <3>. HIDE DEF w
    <3>. QED BY <1>2, <3>2, <3>4, <3>5, <3>7, <3>8
  <2>. QED BY <2>1, <2>2
<1>10. Held(u)
  BY <1>4, <1>9 DEF Held, Settled
<1>11. View(u) = u.data
  BY <1>9, NothingPending
<1>12. ftell(u) \in Nat
  BY <1>9, EmptySeq DEF ftell
<1>13. File!WrittenBack(v.data, u.data, WriteShows(t, p))
  BY <1>5, <1>7, <1>8, <1>9, PartlyWritten
<1>. QED BY <1>2, <1>9, <1>10, <1>11, <1>12, <1>13 DEF u

(* ---- the read side ---- *)

\* A reading stream with nothing pushed back stands where it has read up to.
LEMMA FtellReads ==
  ASSUME NEW t \in Stream, t.dir = "in", t.ungot = None
  PROVE  ftell(t) = t.at - (Len(t.buf) - t.pos)
<1>1. t.at \in Nat /\ Len(t.buf) \in Nat /\ t.pos \in Nat
  BY Fields
<1>2. Unread(t) = Len(t.buf) - t.pos
  BY <1>1 DEF Unread
<1>. QED BY <1>1, <1>2 DEF ftell

\* What ReadFile delivers lies within the file, and comes up short only at its
\* end or from a device that is gone.
LEMMA DeliveredReach ==
  ASSUME NEW t \in Stream, NEW n \in Nat
  PROVE  LET g == Delivered(t, n) IN
         /\ g # << >> => t.at + Len(g) <= Len(t.data)
         /\ t.up /\ Len(g) < n => t.at + Len(g) >= Len(t.data)
<1>. DEFINE g == Delivered(t, n)
            e == Lesser(t.at + n, Len(t.data))
<1>1. t.data \in Seq(Byte) /\ t.at \in Nat /\ Len(t.data) \in Nat
  BY Fields
<1>2. CASE ~t.up
  BY <1>2 DEF Delivered
<1>3. CASE t.up
  <2>1. e \in Nat /\ e <= Len(t.data) /\ e <= t.at + n /\ (e < t.at + n => e = Len(t.data))
    BY <1>1 DEF Lesser
  <2>2. g = SubSeq(t.data, t.at + 1, e)
    BY <1>3 DEF Delivered
  <2>. HIDE DEF e
  <2>3. Len(SubSeq(t.data, t.at + 1, e)) = IF t.at + 1 <= e THEN e - (t.at + 1) + 1 ELSE 0
    BY <1>1, <2>1, Stretch
  <2>4. g # << >> => t.at + 1 <= e
    BY <1>1, <2>1, <2>2, SubSeqEmpty
  <2>. HIDE DEF g
  <2>5. Len(g) = IF t.at + 1 <= e THEN e - t.at ELSE 0
    BY <1>1, <2>1, <2>2, <2>3
  <2>. QED BY <1>1, <2>1, <2>4, <2>5 DEF g
<1>. QED BY <1>2, <1>3

\* A refill shows the same file and makes pending bytes durable; its bytes are
\* those at the position, and it brings none only at the end of the file or
\* with the error flag up.
LEMMA FillShows ==
  ASSUME NEW t, Held(t), t.ungot = None, needs_fill(t), flush_ok(t)
  PROVE  LET u == rt_fill(t) IN
         /\ Good(u) /\ u.dir = "in" /\ u.pos = 0 /\ u.ungot = None
         /\ u.data = View(t) /\ ftell(t) \in Nat /\ u.at = ftell(t) + Len(u.buf)
         /\ u.buf # << >> => u.at <= Len(View(t)) /\ u.err = t.err /\ u.eof = t.eof
         /\ u.buf = << >> => \/ u.err = TRUE
                             \/ u.err = t.err /\ u.eof = TRUE /\ ftell(t) >= Len(View(t))
<1>. DEFINE f   == rt_flush_write(t)
            got == Delivered(f, f.cap)
            u   == rt_fill(t)
<1>1. /\ Held(f) /\ f.data = View(t) /\ View(f) = View(t) /\ ftell(f) = ftell(t)
      /\ f.dir = (IF t.dir = "out" THEN "idle" ELSE t.dir)
      /\ f.ungot = t.ungot /\ f.err = t.err /\ f.eof = t.eof
      /\ f.mode = t.mode /\ f.cap = t.cap /\ f.bufmode = t.bufmode
  BY FlushShows
<1>2. Good(u)
  BY FillGood DEF Held
<1>3. t.dir # "out" => f = t
  BY DEF rt_flush_write
<1>4. rt_fill(t) = IF f.cap = 0 THEN [f EXCEPT !.dir = "in", !.err = TRUE]
                   ELSE [f EXCEPT !.dir = "in", !.buf = got, !.pos = 0,
                                  !.at  = @ + Len(got),
                                  !.eof = @ \/ got = << >>,
                                  !.err = @ \/ ~f.up]
  BY DEF rt_fill
<1>5. needs_fill(t) <=> t.dir # "in" \/ t.pos >= Len(t.buf)
  BY DEF needs_fill
<1>. HIDE DEF f, u
<1>6. /\ f \in Stream /\ Honest(f) /\ Sized(f) /\ f.at \in Nat /\ f.buf \in Seq(Byte)
      /\ Len(f.buf) \in Nat /\ f.pos \in Nat /\ f.up \in BOOLEAN /\ f.eof \in BOOLEAN
      /\ f.err \in BOOLEAN /\ f.cap \in Nat
      /\ t.dir \in {"in", "out", "idle"}
  BY <1>1, Fields DEF Held, Good, Stream
<1>7. ftell(t) = f.at /\ (f.dir # "in" => f.pos = 0) /\ (f.dir = "in" => f.pos = Len(f.buf))
  <2>1. CASE f.dir = "in"
    <3>1. f = t /\ f.pos >= Len(f.buf) /\ f.pos <= Len(f.buf)
      BY <1>1, <1>3, <1>5, <1>6, <2>1 DEF Honest
    <3>2. Unread(f) = 0
      BY <1>1, <1>6, <3>1 DEF Unread
    <3>. QED BY <1>1, <1>6, <2>1, <3>1, <3>2 DEF ftell
  <2>2. CASE f.dir # "in"
    <3>1. f.dir = "idle"
      BY <1>1, <1>6, <2>2
    <3>. QED BY <1>1, <1>6, <3>1 DEF ftell, Honest
  <2>. QED BY <2>1, <2>2
<1>8. CASE f.cap = 0
  <2>. DEFINE w == [f EXCEPT !.dir = "in", !.err = TRUE]
  <2>1. f.buf = << >> /\ Len(f.buf) = 0
    BY <1>6, <1>8, EmptySeq DEF Sized
  <2>2. u = w
    BY <1>4, <1>8 DEF u
  <2>3. /\ w.data = f.data /\ w.at = f.at /\ w.dir = "in" /\ w.buf = f.buf /\ w.pos = f.pos
        /\ w.ungot = f.ungot /\ w.err = TRUE
    BY <1>6 DEF Stream
  <2>. HIDE DEF w
  <2>. QED BY <1>1, <1>2, <1>6, <1>7, <2>1, <2>2, <2>3 DEF u
<1>9. CASE f.cap # 0
  <2>. DEFINE at  == f.at + Len(got)
              eof == f.eof \/ got = << >>
              err == f.err \/ ~f.up
              w == [f EXCEPT !.dir = "in", !.buf = got, !.pos = 0, !.at = at,
                             !.eof = eof, !.err = err]
  <2>1. u = w
    BY <1>4, <1>9 DEF u
  <2>2. /\ got # << >> => f.at + Len(got) <= Len(f.data)
        /\ f.up /\ Len(got) < f.cap => f.at + Len(got) >= Len(f.data)
    BY <1>6, DeliveredReach
  <2>3. ~f.up => got = << >>
    BY DEF Delivered
  <2>4. got \in Seq(Byte) /\ Len(got) \in Nat /\ (got = << >> => Len(got) = 0)
    BY <1>6, DeliveredType, EmptySeq
  <2>. HIDE DEF got
  <2>5. got # << >> => eof = f.eof /\ err = f.err
    <3>1. got # << >> => f.up
      BY <1>6, <2>3
    <3>2. CASE got # << >>
      BY <1>6, <3>1, <3>2, Zenon
    <3>. QED BY <3>2
  <2>6. got = << >> => \/ err = TRUE
                       \/ err = f.err /\ eof = TRUE /\ f.at >= Len(f.data)
    <3>1. CASE f.up /\ got = << >>
      <4>1. err = f.err
        BY <1>6, <3>1, Zenon
      <4>2. eof = TRUE
        BY <3>1
      <4>3. f.at >= Len(f.data)
        <5>1. Len(got) < f.cap
          BY <1>6, <1>9, <2>4, <3>1
        <5>. QED BY <1>6, <2>2, <2>4, <3>1, <5>1
      <4>. QED BY <4>1, <4>2, <4>3
    <3>2. CASE ~f.up
      BY <3>2
    <3>. QED BY <3>1, <3>2
  <2>. HIDE DEF eof, err
  <2>7. /\ w.data = f.data /\ w.at = at /\ w.dir = "in" /\ w.buf = got /\ w.pos = 0
        /\ w.ungot = f.ungot /\ w.err = err /\ w.eof = eof
    BY <1>6 DEF Stream
  <2>. HIDE DEF w
  <2>8. u.buf # << >> => u.at <= Len(View(t)) /\ u.err = t.err /\ u.eof = t.eof
    BY <1>1, <2>1, <2>2, <2>5, <2>7
  <2>9. u.buf = << >> => \/ u.err = TRUE
                         \/ u.err = t.err /\ u.eof = TRUE /\ ftell(t) >= Len(View(t))
    BY <1>1, <1>7, <2>1, <2>6, <2>7
  <2>. QED BY <1>1, <1>2, <1>6, <1>7, <2>1, <2>7, <2>8, <2>9 DEF u
<1>. QED BY <1>8, <1>9

\* One byte is the pushed-back one or the one at the position, and an end of
\* file that is one, or an error that says so.
LEMMA GetShows ==
  ASSUME NEW t, Held(t), F_READ \in t.mode, t.ungot = None
  PROVE  LET u == rt_getbyte(t) IN
         /\ Held(u) /\ u.ungot = None
         /\ \/ /\ View(u) = View(t) /\ u.data = View(t) /\ u.dir = "in"
               /\ u.err = t.err /\ u.eof = t.eof
               /\ ftell(t) < Len(View(t)) /\ ftell(u) = ftell(t) + 1
               /\ got_byte(t) = <<View(t)[ftell(t) + 1]>>
            \/ /\ View(u) = View(t) /\ u.data = View(t) /\ u.dir = "in"
               /\ u.err = t.err /\ u.eof = TRUE
               /\ ftell(t) >= Len(View(t)) /\ ftell(u) = ftell(t)
               /\ got_byte(t) = << >>
            \/ /\ File!WrittenBack(t.data, u.data, View(t)) /\ View(u) = u.data
               /\ u.err = TRUE /\ ftell(u) \in Nat
               /\ got_byte(t) = << >>
<1>. DEFINE f == filled(t)
            u == rt_getbyte(t)
<1>0. u = (IF fill_ok(t) THEN [f EXCEPT !.pos = @ + 1] ELSE f)
  BY DEF rt_getbyte
<1>00. got_byte(t) = IF fill_ok(t) THEN <<f.buf[f.pos + 1]>> ELSE << >>
  BY DEF got_byte
<1>01. fill_ok(t) <=> f.dir = "in" /\ f.pos < Len(f.buf)
  BY DEF fill_ok
<1>02. needs_fill(t) <=> t.dir # "in" \/ t.pos >= Len(t.buf)
  BY DEF needs_fill
<1>03. f = IF needs_fill(t) THEN rt_fill(t) ELSE t
  BY DEF filled
<1>04. Good(u)
  BY GetbyteGood DEF Held
<1>05. t \in Stream /\ t.pos \in Nat /\ Len(t.buf) \in Nat /\ t.buf \in Seq(Byte) /\ Good(t) /\ Honest(t)
       /\ View(t) \in Seq(Byte) /\ t.data \in Seq(Byte)
  BY Fields, ViewType DEF Held, Good
<1>. HIDE DEF f, u
<1>1. CASE needs_fill(t) /\ ~flush_ok(t)
  <2>1. f = rt_flush_write(t)
    BY <1>1, <1>03 DEF rt_fill
  <2>2. /\ Held(f) /\ f.dir = "out" /\ f.buf = << >> /\ f.pos = 0
        /\ View(f) = f.data /\ File!WrittenBack(t.data, f.data, View(t))
        /\ f.err = TRUE /\ f.ungot = t.ungot /\ f.at \in Nat
    BY <1>1, <2>1, FlushFails
  <2>3. u = f /\ got_byte(t) = << >>
    BY <1>0, <1>00, <1>01, <2>2
  <2>4. ftell(f) \in Nat
    BY <2>2, EmptySeq DEF ftell
  <2>. QED BY <2>2, <2>3, <2>4 DEF u
<1>2. ASSUME f \in Stream, Good(f), f.dir = "in", f.ungot = None, f.data = View(t),
             f.pos < Len(f.buf), f.at <= Len(View(t)),
             f.at - (Len(f.buf) - f.pos) = ftell(t), f.err = t.err, f.eof = t.eof
      PROVE  /\ Held(u) /\ u.ungot = None
             /\ View(u) = View(t) /\ u.data = View(t) /\ u.dir = "in"
             /\ u.err = t.err /\ u.eof = t.eof
             /\ ftell(t) < Len(View(t)) /\ ftell(u) = ftell(t) + 1
             /\ got_byte(t) = <<View(t)[ftell(t) + 1]>>
  <2>. DEFINE m == f.pos + 1
              w == [f EXCEPT !.pos = m]
  <2>1. /\ f.at \in Nat /\ f.pos \in Nat /\ Len(f.buf) \in Nat /\ f.buf \in Seq(Byte) /\ m \in Nat
        /\ Len(f.buf) <= f.at /\ f.buf = SubSeq(f.data, f.at - Len(f.buf) + 1, f.at)
    BY <1>2, Fields DEF Good, Honest
  <2>2. u = w
    BY <1>0, <1>01, <1>2
  <2>3. /\ w.data = f.data /\ w.at = f.at /\ w.dir = f.dir /\ w.buf = f.buf /\ w.pos = m
        /\ w.ungot = f.ungot /\ w.err = f.err /\ w.eof = f.eof
    BY <1>2 DEF Stream
  <2>. HIDE DEF w
  <2>4. Held(u)
    BY <1>04, <1>2, <2>1, <2>2, <2>3 DEF Held, Settled
  <2>5. View(u) = View(t)
    BY <1>2, <2>2, <2>3 DEF View
  <2>02. f.at \in Nat /\ f.pos \in Nat /\ Len(f.buf) \in Nat /\ Len(f.buf) <= f.at
    BY <2>1
  <2>6. ftell(u) = ftell(t) + 1
    <3>1. u \in Stream /\ u.dir = "in" /\ u.ungot = None
      BY <1>2, <2>2, <2>3, <2>4 DEF Held, Good
    <3>2. ftell(u) = u.at - (Len(u.buf) - u.pos)
      BY <3>1, FtellReads
    <3>3. u.at = f.at /\ u.buf = f.buf /\ u.pos = f.pos + 1
      BY <2>2, <2>3
    <3>4. f.at - (Len(f.buf) - (f.pos + 1)) = (f.at - (Len(f.buf) - f.pos)) + 1
      BY ONLY <2>02
    <3>. QED BY <1>2, <3>2, <3>3, <3>4
  <2>7. ftell(t) \in Nat /\ ftell(t) + 1 = (f.at - Len(f.buf) + 1) + m - 1
    <3>1. f.at - (Len(f.buf) - f.pos) \in Nat
      BY ONLY <2>02
    <3>2. (f.at - (Len(f.buf) - f.pos)) + 1 = (f.at - Len(f.buf) + 1) + (f.pos + 1) - 1
      BY ONLY <2>02
    <3>3. f.at - (Len(f.buf) - f.pos) = ftell(t) /\ m = f.pos + 1
      BY <1>2
    <3>. QED BY ONLY <3>1, <3>2, <3>3
  <2>8. f.buf[m] = f.data[ftell(t) + 1]
    <3>1. /\ f.data \in Seq(Byte) /\ f.at - Len(f.buf) + 1 \in Int /\ f.at - Len(f.buf) + 1 >= 1
          /\ f.at \in Int /\ f.at <= Len(f.data)
          /\ m \in 1 .. f.at - (f.at - Len(f.buf) + 1) + 1
      <4>1. f.data \in Seq(Byte) /\ f.at <= Len(f.data)
        BY <1>05, <1>2
      <4>2. /\ f.at \in Nat /\ f.pos \in Nat /\ Len(f.buf) \in Nat /\ Len(f.buf) <= f.at
            /\ f.pos < Len(f.buf)
        BY <1>2, <2>1
      <4>3. f.at - Len(f.buf) + 1 >= 1 /\ f.at - (f.at - Len(f.buf) + 1) + 1 = Len(f.buf)
        BY ONLY <4>2
      <4>. QED BY ONLY <4>1, <4>2, <4>3
    <3>2. SubSeq(f.data, f.at - Len(f.buf) + 1, f.at)[m] = f.data[(f.at - Len(f.buf) + 1) + m - 1]
      <4>. DEFINE from == f.at - Len(f.buf) + 1
                  to   == f.at
      <4>1. f.data \in Seq(Byte) /\ from \in Int /\ to \in Int /\ from >= 1 /\ to <= Len(f.data)
            /\ m \in 1 .. to - from + 1
        BY ONLY <3>1
      <4>. HIDE DEF from, to, m
      <4>2. SubSeq(f.data, from, to)[m] = f.data[from + m - 1]
        BY ONLY <4>1, Stretch
      <4>. QED BY ONLY <4>2 DEF from, to
    <3>. QED BY <2>1, <2>7, <3>2
  <2>9. ftell(t) < Len(View(t))
    <3>1. Len(View(t)) \in Nat
      BY <1>05, LenProperties
    <3>. QED BY <1>2, <2>1, <3>1
  <2>10. got_byte(t) = <<View(t)[ftell(t) + 1]>>
    BY <1>00, <1>01, <1>2, <2>8
  <2>. QED BY <1>2, <2>2, <2>3, <2>4, <2>5, <2>6, <2>9, <2>10
<1>3. CASE ~needs_fill(t)
  <2>1. f = t /\ t.dir = "in" /\ t.pos < Len(t.buf)
    BY <1>02, <1>03, <1>05, <1>3
  <2>2. View(t) = t.data
    BY <2>1, NothingPending
  <2>3. t.at <= Len(t.data)
    BY <1>05, <2>1, EmptySeq DEF Held, Settled
  <2>4. ftell(t) = t.at - (Len(t.buf) - t.pos)
    <3>1. t.at \in Nat
      BY <1>05, Fields
    <3>. QED BY <1>05, <2>1, <3>1 DEF ftell, Unread
  <2>5. f \in Stream /\ Good(f) /\ f.dir = "in" /\ f.ungot = None /\ f.data = View(t)
        /\ f.pos < Len(f.buf) /\ f.at <= Len(View(t))
        /\ f.at - (Len(f.buf) - f.pos) = ftell(t) /\ f.err = t.err /\ f.eof = t.eof
    BY <1>05, <2>1, <2>2, <2>3, <2>4
  <2>. QED BY <1>2, <2>5 DEF u
<1>4. CASE needs_fill(t) /\ flush_ok(t)
  <2>1. /\ Good(f) /\ f.dir = "in" /\ f.pos = 0 /\ f.ungot = None
        /\ f.data = View(t) /\ ftell(t) \in Nat /\ f.at = ftell(t) + Len(f.buf)
        /\ f.buf # << >> => f.at <= Len(View(t)) /\ f.err = t.err /\ f.eof = t.eof
        /\ f.buf = << >> => \/ f.err = TRUE
                            \/ f.err = t.err /\ f.eof = TRUE /\ ftell(t) >= Len(View(t))
    BY <1>03, <1>4, FillShows
  <2>2. f \in Stream /\ f.buf \in Seq(Byte) /\ Len(f.buf) \in Nat /\ f.at \in Nat
        /\ (f.buf = << >> <=> Len(f.buf) = 0)
    BY <2>1, Fields, EmptySeq DEF Good
  <2>3. CASE f.buf # << >>
    <3>1. f.pos < Len(f.buf) /\ f.at - (Len(f.buf) - f.pos) = ftell(t)
      BY <2>1, <2>2, <2>3
    <3>. QED BY <1>2, <2>1, <2>2, <2>3, <3>1 DEF u
  <2>4. CASE f.buf = << >>
    <3>1. u = f /\ got_byte(t) = << >>
      BY <1>0, <1>00, <1>01, <2>1, <2>2, <2>4
    <3>2. Held(f)
      BY <2>1, <2>4 DEF Held, Settled
    <3>3. View(f) = f.data
      BY <2>4, NothingPending
    <3>4. ftell(f) = ftell(t)
      <4>1. ftell(f) = f.at - (Len(f.buf) - f.pos)
        BY <2>1, <2>2, FtellReads
      <4>2. f.at - (Len(f.buf) - f.pos) = f.at /\ f.at = ftell(t)
        BY <2>1, <2>2, <2>4
      <4>. QED BY <4>1, <4>2
    <3>5. File!WrittenBack(t.data, View(t), View(t))
      BY <1>05, ViewType, WrittenWhole
    <3>. QED BY <2>1, <2>4, <3>1, <3>2, <3>3, <3>4, <3>5 DEF u
  <2>. QED BY <2>3, <2>4
<1>. QED BY <1>1, <1>3, <1>4

\* Past the read-ahead, fread brings the bytes that follow the handle: all that
\* are wanted, or as many as there are, or it raises the error flag.
LEMMA ReadOnShows ==
  ASSUME NEW d, Held(d), d.ungot = None, d.dir # "out", NEW left \in Nat, left >= 1
  PROVE  LET u == read_on(d, left)
             g == Next_chunk(d, left)
             k == Lesser(Len(g), left)
         IN
         /\ Held(u) /\ u.data = d.data /\ u.dir = "in" /\ u.ungot = None
         /\ g \in Seq(Byte) /\ Len(g) \in Nat /\ k \in 0 .. left
         /\ SubSeq(g, 1, k) = SubSeq(d.data, d.at + 1, d.at + k)
         /\ k > 0 => d.at + k <= Len(d.data)
         /\ \/ u.err = TRUE /\ k < left /\ ftell(u) \in Nat
            \/ /\ u.err = d.err /\ ftell(u) = d.at + k
               /\ \/ k = left /\ u.eof = d.eof
                  \/ k < left /\ u.eof = TRUE /\ d.at + k >= Len(d.data)
<1>. DEFINE n      == IF Direct(left) THEN left ELSE d.cap
            got    == Delivered(d, n)
            k      == Lesser(Len(got), left)
            short  == Len(got) < left
            refill == ~Direct(left) \/ (got # << >> /\ left - Len(got) < BufSz)
            nobuf  == d.cap = 0 /\ refill
            keep   == ~Direct(left) /\ ~short
            at     == d.at + Len(got)
            buf    == IF keep THEN got ELSE << >>
            pos    == IF keep THEN left ELSE 0
            eof    == d.eof \/ (short /\ ~nobuf)
            err    == d.err \/ (short /\ (nobuf \/ ~d.up))
            w == [d EXCEPT !.dir = "in", !.at = at, !.buf = buf, !.pos = pos,
                           !.eof = eof, !.err = err]
            u == read_on(d, left)
<1>1. /\ d \in Stream /\ Good(d) /\ d.cap \in Nat /\ d.cap \in {0, BufSz} /\ d.at \in Nat /\ d.data \in Seq(Byte)
      /\ Len(d.data) \in Nat /\ d.eof \in BOOLEAN /\ d.err \in BOOLEAN /\ d.up \in BOOLEAN
  BY Fields DEF Held, Good, Stream
<1>2. n \in Nat /\ (Direct(left) => n = left) /\ (~Direct(left) => n = d.cap)
  BY <1>1
<1>3. Direct(left) <=> left >= BufSz
  BY DEF Direct
<1>4. Next_chunk(d, left) = got
  BY DEF Next_chunk
<1>5. u = w
  BY <1>4 DEF read_on
<1>6. Good(u)
  BY <1>1, ReadOnGood
<1>. HIDE DEF u, n
<1>7. /\ got \in Seq(Byte) /\ Len(got) \in 0 .. n
      /\ got = SubSeq(d.data, d.at + 1, d.at + Len(got))
      /\ got # << >> => d.at + Len(got) <= Len(d.data)
      /\ d.up /\ Len(got) < n => d.at + Len(got) >= Len(d.data)
  BY <1>1, <1>2, DeliveredType, DeliveredReach
<1>8. Len(got) \in Nat /\ Len(got) <= n /\ (got = << >> <=> Len(got) = 0)
  BY <1>2, <1>7, EmptySeq
<1>. HIDE DEF got
<1>9. k \in Nat /\ k <= left /\ k <= Len(got) /\ (short => k = Len(got) /\ k < left) /\ (~short => k = left)
  BY <1>8 DEF Lesser
<1>10. SubSeq(got, 1, k) = SubSeq(d.data, d.at + 1, d.at + k)
  <2>1. CASE k = 0
    <3>1. SubSeq(got, 1, k) = << >> /\ SubSeq(d.data, d.at + 1, d.at + k) = << >>
      BY <1>1, <2>1, SubSeqEmpty
    <3>. QED BY <3>1
  <2>2. CASE k # 0
    <3>. HIDE DEF k
    <3>1. /\ d.at + Len(got) <= Len(d.data) /\ Len(got) >= 1 /\ k >= 1
          /\ d.at + k <= Len(d.data) /\ d.at + k \in Int
          /\ d.at + 1 \in Int /\ d.at + 1 >= 1 /\ d.at + Len(got) \in Int
          /\ d.at + 1 <= d.at + k
      <4>1. /\ d.at \in Nat /\ Len(d.data) \in Nat /\ Len(got) \in Nat /\ k \in Nat
            /\ k <= Len(got) /\ k # 0
        BY <1>1, <1>8, <1>9, <2>2
      <4>2. got # << >>
        BY ONLY <1>8, <4>1
      <4>3. d.at + Len(got) <= Len(d.data)
        BY ONLY <1>7, <4>2
      <4>. QED BY ONLY <4>1, <4>3
    <3>2. /\ SubSeq(got, 1, k) \in Seq(Byte) /\ Len(SubSeq(got, 1, k)) = k
          /\ \A i \in 1 .. k - 1 + 1 : SubSeq(got, 1, k)[i] = got[1 + i - 1]
      BY <1>7, <1>9, <2>2, <3>1, Stretch
    <3>3. /\ SubSeq(d.data, d.at + 1, d.at + k) \in Seq(Byte)
          /\ Len(SubSeq(d.data, d.at + 1, d.at + k)) = (d.at + k) - (d.at + 1) + 1
          /\ \A i \in 1 .. (d.at + k) - (d.at + 1) + 1 :
               SubSeq(d.data, d.at + 1, d.at + k)[i] = d.data[(d.at + 1) + i - 1]
      <4>1. d.data \in Seq(Byte)
        BY <1>1
      <4>. QED BY ONLY <3>1, <4>1, Stretch
    <3>4. \A i \in 1 .. (d.at + Len(got)) - (d.at + 1) + 1 :
               SubSeq(d.data, d.at + 1, d.at + Len(got))[i] = d.data[(d.at + 1) + i - 1]
      <4>. DEFINE e == d.at + Len(got)
      <4>1. e \in Int /\ e <= Len(d.data) /\ d.at + 1 \in Int /\ d.at + 1 >= 1
        BY <3>1
      <4>. HIDE DEF e
      <4>2. \A i \in 1 .. e - (d.at + 1) + 1 :
               SubSeq(d.data, d.at + 1, e)[i] = d.data[(d.at + 1) + i - 1]
        <5>1. d.data \in Seq(Byte)
          BY <1>1
        <5>. QED BY ONLY <4>1, <5>1, Stretch
      <4>. QED BY ONLY <4>2 DEF e
    <3>5. (d.at + k) - (d.at + 1) + 1 = k /\ (d.at + Len(got)) - (d.at + 1) + 1 = Len(got)
      BY <1>1, <1>8, <1>9
    <3>6. ASSUME NEW i \in 1 .. k
          PROVE  SubSeq(got, 1, k)[i] = SubSeq(d.data, d.at + 1, d.at + k)[i]
      <4>1. i \in 1 .. Len(got) /\ 1 + i - 1 = i /\ i \in 1 .. k - 1 + 1
        BY <1>8, <1>9
      <4>2. SubSeq(got, 1, k)[i] = got[i]
        BY <3>2, <4>1
      <4>3. got[i] = d.data[(d.at + 1) + i - 1]
        BY <1>7, <3>4, <3>5, <4>1
      <4>. QED BY <3>3, <3>5, <4>2, <4>3
    <3>7. Len(SubSeq(d.data, d.at + 1, d.at + k)) = k
      BY <3>3, <3>5
    <3>. QED BY <3>2, <3>3, <3>6, <3>7, SeqEqual
  <2>. QED BY <2>1, <2>2
<1>11. k > 0 => d.at + k <= Len(d.data)
  BY <1>1, <1>7, <1>8, <1>9
<1>. DEFINE Shown ==
              /\ Held(u) /\ u.data = d.data /\ u.dir = "in" /\ u.ungot = None
              /\ \/ u.err = TRUE /\ k < left /\ ftell(u) \in Nat
                 \/ /\ u.err = d.err /\ ftell(u) = d.at + k
                    /\ \/ k = left /\ u.eof = d.eof
                       \/ k < left /\ u.eof = TRUE /\ d.at + k >= Len(d.data)
<1>12. ASSUME short PROVE Shown
  <2>1. ~keep /\ buf = << >> /\ pos = 0 /\ k = Len(got) /\ k < left
    BY <1>9, <1>12
  <2>2. CASE nobuf \/ ~d.up
    <3>1. err = TRUE
      BY <1>12, <2>2
    <3>. HIDE DEF err, eof, buf, pos, at
    <3>2. /\ w.data = d.data /\ w.at = at /\ w.dir = "in" /\ w.buf = buf /\ w.pos = pos
          /\ w.ungot = d.ungot /\ w.err = err
      BY <1>1 DEF Stream
    <3>. HIDE DEF w
    <3>3. Held(u)
      BY <1>5, <1>6, <2>1, <3>2 DEF Held, Settled
    <3>4. ftell(u) \in Nat
      <4>1. ftell(u) = u.at - (Len(u.buf) - u.pos)
        BY <1>5, <3>2, <3>3, FtellReads DEF Held, Good
      <4>2. u.at = d.at + Len(got) /\ u.buf = << >> /\ u.pos = 0
        BY <1>5, <2>1, <3>2 DEF at
      <4>3. Len(<< >>) = 0 /\ (d.at + Len(got)) - (0 - 0) \in Nat
        BY <1>1, <1>8, EmptySeq
      <4>. QED BY <4>1, <4>2, <4>3
    <3>. HIDE DEF k
    <3>. QED BY <1>5, <2>1, <3>1, <3>2, <3>3, <3>4
  <2>3. CASE ~(nobuf \/ ~d.up)
    <3>1. err = d.err
      BY <1>1, <1>12, <2>3, Zenon
    <3>2. eof = TRUE
      BY <1>12, <2>3
    <3>3. Len(got) < n
      <4>1. CASE Direct(left)
        BY <1>2, <1>12, <4>1
      <4>2. CASE ~Direct(left)
        <5>1. d.cap # 0
          BY <2>3, <4>2
        <5>. QED BY <1>1, <1>2, <1>3, <1>8, <1>12, <4>2, <5>1
      <4>. QED BY <4>1, <4>2
    <3>4. d.at + k >= Len(d.data)
      BY <1>7, <2>1, <2>3, <3>3
    <3>. HIDE DEF err, eof, buf, pos, at
    <3>5. /\ w.data = d.data /\ w.at = at /\ w.dir = "in" /\ w.buf = buf /\ w.pos = pos
          /\ w.ungot = d.ungot /\ w.err = err /\ w.eof = eof
      BY <1>1 DEF Stream
    <3>. HIDE DEF w
    <3>6. Held(u)
      BY <1>5, <1>6, <2>1, <3>5 DEF Held, Settled
    <3>7. ftell(u) = d.at + k
      <4>1. ftell(u) = u.at - (Len(u.buf) - u.pos)
        BY <1>5, <3>5, <3>6, FtellReads DEF Held, Good
      <4>2. u.at = d.at + Len(got) /\ u.buf = << >> /\ u.pos = 0
        BY <1>5, <2>1, <3>5 DEF at
      <4>3. Len(<< >>) = 0 /\ (d.at + Len(got)) - (0 - 0) = d.at + Len(got)
        BY <1>1, <1>8, EmptySeq
      <4>. QED BY <2>1, <4>1, <4>2, <4>3
    <3>. HIDE DEF k
    <3>. QED BY <1>5, <2>1, <3>1, <3>2, <3>4, <3>5, <3>6, <3>7
  <2>. QED BY <2>2, <2>3
<1>13. ASSUME ~short PROVE Shown
  <2>1. k = left /\ Len(got) >= left
    BY <1>8, <1>9, <1>13
  <2>2. err = d.err /\ eof = d.eof
    <3>1. err = d.err
      BY <1>1, <1>13, Zenon
    <3>2. eof = d.eof
      BY <1>1, <1>13, Zenon
    <3>. QED BY <3>1, <3>2
  <2>3. /\ buf = << >> => pos = 0 /\ Len(got) = left
        /\ buf # << >> => pos = left /\ buf = got
        /\ pos = 0 => buf = << >>
    <3>1. CASE Direct(left)
      <4>1. buf = << >> /\ pos = 0
        BY <3>1
      <4>. QED BY <1>2, <1>8, <2>1, <3>1, <4>1
    <3>2. CASE ~Direct(left)
      <4>1. buf = got /\ pos = left
        BY <1>13, <3>2
      <4>. QED BY <1>8, <2>1, <4>1
    <3>. QED BY <3>1, <3>2
  <2>. HIDE DEF err, eof, buf, pos, at
  <2>4. /\ w.data = d.data /\ w.at = at /\ w.dir = "in" /\ w.buf = buf /\ w.pos = pos
        /\ w.ungot = d.ungot /\ w.err = err /\ w.eof = eof
    BY <1>1 DEF Stream
  <2>. HIDE DEF w
  <2>5. Held(u)
    <3>1. got # << >> => at <= Len(d.data)
      BY <1>7 DEF at
    <3>. QED BY <1>5, <1>6, <2>3, <2>4, <3>1 DEF Held, Settled
  <2>6. ftell(u) = d.at + k
    <3>1. ftell(u) = u.at - (Len(u.buf) - u.pos)
      BY <1>5, <2>4, <2>5, FtellReads DEF Held, Good
    <3>2. u.at = d.at + Len(got) /\ u.buf = buf /\ u.pos = pos
      BY <1>5, <2>4 DEF at
    <3>3. CASE buf = << >>
      BY <1>1, <1>8, <2>1, <2>3, <3>1, <3>2, <3>3, EmptySeq
    <3>4. CASE buf # << >>
      <4>1. u.buf = got /\ u.pos = left
        BY <2>3, <3>2, <3>4
      <4>2. (d.at + Len(got)) - (Len(got) - left) = d.at + left
        BY <1>1, <1>8
      <4>3. ftell(u) = (d.at + Len(got)) - (Len(got) - left)
        BY <3>1, <3>2, <4>1
      <4>. QED BY <2>1, <4>2, <4>3
    <3>. QED BY <3>3, <3>4
  <2>. HIDE DEF k
  <2>. QED BY <1>5, <2>1, <2>2, <2>4, <2>5, <2>6
<1>14. Shown /\ got \in Seq(Byte) /\ Len(got) \in Nat /\ k \in 0 .. left
  <2>1. Shown
    <3>. HIDE DEF Shown, short
    <3>. QED BY <1>12, <1>13
  <2>. HIDE DEF Shown, k
  <2>. QED BY <1>7, <1>8, <1>9, <2>1
<1>. HIDE DEF Shown
<1>. QED BY <1>4, <1>10, <1>11, <1>14 DEF Shown, u

\* The start of a stretch is a stretch.
LEMMA StretchOfStretch ==
  ASSUME NEW q \in Seq(Byte), NEW a \in Nat, NEW b \in Nat, a <= b, b <= Len(q),
         NEW n \in Nat, n <= b - a
  PROVE  SubSeq(SubSeq(q, a + 1, b), 1, n) = SubSeq(q, a + 1, a + n)
<1>1. Len(q) \in Nat
  BY LenProperties
<1>2. CASE n = 0
  <2>1. SubSeq(SubSeq(q, a + 1, b), 1, n) = << >> /\ SubSeq(q, a + 1, a + n) = << >>
    BY <1>2, SubSeqEmpty
  <2>. QED BY <2>1
<1>3. CASE n # 0
  <2>1. /\ a + 1 \in 1 .. Len(q) /\ b \in 1 .. Len(q)
        /\ 1 \in 1 .. b - (a + 1) + 1 /\ n \in 1 .. b - (a + 1) + 1
    BY <1>1, <1>3
  <2>2. SubSeq(SubSeq(q, a + 1, b), 1, n) = SubSeq(q, (a + 1) + 1 - 1, (a + 1) + n - 1)
    BY <2>1, SubSeqOfSubSeq
  <2>3. (a + 1) + 1 - 1 = a + 1 /\ (a + 1) + n - 1 = a + n
    OBVIOUS
  <2>. QED BY <2>2, <2>3
<1>. QED BY <1>2, <1>3

\* Two stretches that follow each other are one.
LEMMA StretchesMeet ==
  ASSUME NEW q \in Seq(Byte), NEW a \in Nat, NEW n \in Nat, NEW k \in Nat,
         n > 0 => a + n <= Len(q), k > 0 => (a + n) + k <= Len(q)
  PROVE  SubSeq(q, a + 1, a + n) \o SubSeq(q, (a + n) + 1, (a + n) + k)
           = SubSeq(q, a + 1, a + (n + k))
<1>1. Len(q) \in Nat /\ (a + n) + k = a + (n + k)
  BY LenProperties
<1>2. CASE n = 0 /\ k = 0
  <2>1. /\ SubSeq(q, a + 1, a + n) = << >> /\ SubSeq(q, (a + n) + 1, (a + n) + k) = << >>
        /\ SubSeq(q, a + 1, a + (n + k)) = << >>
    BY <1>2, SubSeqEmpty
  <2>. QED BY <2>1, EmptySeq, ConcatEmptySeq
<1>3. CASE ~(n = 0 /\ k = 0)
  <2>1. CASE a + n <= Len(q)
    <3>1. a + (n + k) <= Len(q)
      BY <1>1, <2>1
    <3>2. /\ a + 1 \in 1 .. Len(q) + 1 /\ a + n \in (a + 1) - 1 .. Len(q)
          /\ a + (n + k) \in a + n .. Len(q)
      BY <1>1, <2>1, <3>1
    <3>. QED BY <1>1, <3>2, ConcatAdjacentSubSeq
  <2>2. CASE ~(a + n <= Len(q))
    <3>1. FALSE
      BY <1>1, <1>3, <2>2
    <3>. QED BY <3>1
  <2>. QED BY <2>1, <2>2
<1>. QED BY <1>2, <1>3

\* Where a block read takes its first byte from the file.
Start(t) == IF t.ungot # None /\ t.dir = "in" THEN ftell(t) + 1 ELSE ftell(t)

\* Taking the pushed-back byte shows the same file.
LEMMA TakePushed ==
  ASSUME NEW t, Held(t)
  PROVE  LET v == [t EXCEPT !.ungot = None] IN
         /\ Held(v) /\ View(v) = View(t) /\ v.data = t.data /\ v.dir = t.dir /\ v.ungot = None
         /\ v.err = t.err /\ v.eof = t.eof /\ v.mode = t.mode
         /\ flush_ok(v) <=> flush_ok(t)
         /\ ftell(v) = Start(t)
<1>. DEFINE v == [t EXCEPT !.ungot = None]
<1>1. t \in Stream /\ Good(t) /\ Settled(t) /\ t.at \in Nat /\ Len(t.buf) \in Nat /\ t.pos \in Nat
  BY Fields DEF Held, Good
<1>2. v \in Stream
  BY <1>1 DEF Stream
<1>3. /\ v.data = t.data /\ v.at = t.at /\ v.mode = t.mode /\ v.cap = t.cap /\ v.up = t.up
      /\ v.dir = t.dir /\ v.buf = t.buf /\ v.pos = t.pos /\ v.ungot = None
      /\ v.err = t.err /\ v.eof = t.eof /\ v.bufmode = t.bufmode
  BY <1>1 DEF Stream
<1>. HIDE DEF v
<1>4. Good(v)
  BY <1>1, <1>2, <1>3, AsideGood
<1>5. Held(v)
  BY <1>1, <1>3, <1>4 DEF Held, Settled
<1>6. View(v) = View(t)
  BY <1>3 DEF View
<1>7. flush_ok(v) <=> flush_ok(t)
  BY <1>3 DEF flush_ok, write_ok, Taken
<1>8. ftell(v) = Start(t)
  <2>1. CASE t.dir = "in"
    <3>1. Unread(v) = Len(t.buf) - t.pos
      BY <1>1, <1>3 DEF Unread
    <3>2. ftell(v) = t.at - (Len(t.buf) - t.pos)
      BY <1>3, <2>1, <3>1 DEF ftell
    <3>3. CASE t.ungot = None
      BY <1>1, <2>1, <3>2, <3>3, FtellReads DEF Start
    <3>4. CASE t.ungot # None
      <4>1. Unread(t) = (Len(t.buf) - t.pos) + 1
        BY <3>4 DEF Unread
      <4>2. ftell(t) = t.at - ((Len(t.buf) - t.pos) + 1)
        BY <2>1, <4>1 DEF ftell
      <4>3. (t.at - ((Len(t.buf) - t.pos) + 1)) + 1 = t.at - (Len(t.buf) - t.pos)
        BY <1>1
      <4>. QED BY <2>1, <3>2, <3>4, <4>2, <4>3 DEF Start
    <3>. QED BY <3>3, <3>4
  <2>2. CASE t.dir # "in"
    <3>1. Start(t) = ftell(t)
      BY <2>2 DEF Start
    <3>2. t.dir \in {"out", "idle"}
      BY <1>1, <2>2 DEF Stream
    <3>. QED BY <1>3, <3>1, <3>2 DEF ftell
  <2>. QED BY <2>1, <2>2
<1>. QED BY <1>3, <1>5, <1>6, <1>7, <1>8 DEF v

\* What fread takes from the read-ahead are the bytes at the start, and when
\* that does not do, all of them.
LEMMA DrainShows ==
  ASSUME NEW t, Held(t), NEW want \in Nat, want >= 1, flush_ok(t)
  PROVE  LET d == drained(t, want)
             n == Drain(t, want)
         IN
         /\ Held(d) /\ d.data = View(t) /\ d.ungot = None
         /\ d.dir = (IF t.dir = "in" THEN "in" ELSE "idle")
         /\ d.err = t.err /\ d.eof = t.eof
         /\ Start(t) \in Nat /\ n \in Nat /\ ftell(d) = Start(t) + n
         /\ n <= want - Len(Pushed(t))
         /\ SubSeq(Ahead(unpushed(t)), 1, n) = SubSeq(View(t), Start(t) + 1, Start(t) + n)
         /\ n > 0 => Start(t) + n <= Len(View(t))
         /\ Left(t, want) # 0 => d.at = Start(t) + n
<1>. DEFINE v == [t EXCEPT !.ungot = None]
            f == unpushed(t)
            n == Drain(t, want)
            m == f.pos + n
            w == [f EXCEPT !.pos = m]
            d == drained(t, want)
<1>1. /\ Held(v) /\ View(v) = View(t) /\ v.data = t.data /\ v.dir = t.dir /\ v.ungot = None
      /\ v.err = t.err /\ v.eof = t.eof /\ v.mode = t.mode
      /\ flush_ok(v) /\ ftell(v) = Start(t)
  BY TakePushed
<1>. HIDE DEF v
<1>2. f = rt_flush_write(v)
  BY DEF unpushed, v
<1>3. /\ Held(f) /\ f.data = View(t) /\ View(f) = View(t) /\ ftell(f) = Start(t)
      /\ f.dir = (IF t.dir = "out" THEN "idle" ELSE t.dir)
      /\ f.ungot = None /\ f.err = t.err /\ f.eof = t.eof
  BY <1>1, <1>2, FlushShows
<1>4. t.dir \in {"in", "out", "idle"} /\ t.ungot \in Byte \cup {None}
  BY DEF Held, Good, Stream
<1>5. Good(d) /\ d = w /\ n \in 0 .. Len(Ahead(f)) /\ Ahead(f) \in Seq(Byte)
  BY DrainedGood DEF Held, drained
<1>6. Len(Pushed(t)) \in 0 .. 1
  <2>1. CASE t.ungot = None
    BY <2>1, EmptySeq DEF Pushed
  <2>2. CASE t.ungot # None
    BY <2>2 DEF Pushed
  <2>. QED BY <2>1, <2>2
<1>7. n = Lesser(Len(Ahead(f)), want - Len(Pushed(t))) /\ Left(t, want) = want - Len(Pushed(t)) - n
  BY DEF Drain, Left
<1>8. Len(Ahead(f)) \in Nat
  BY <1>5, LenProperties
<1>. DEFINE a == Len(Ahead(f))
            b == Len(Pushed(t))
<1>9. n \in Nat /\ n <= a /\ n <= want - b /\ (Left(t, want) # 0 => n = a)
  <2>. HIDE DEF a, b, n
  <2>1. n = Lesser(a, want - b) /\ Left(t, want) = want - b - n /\ a \in Nat /\ b \in 0 .. 1
    BY <1>6, <1>7, <1>8 DEF a, b
  <2>2. n = a \/ n = want - b
    BY <2>1 DEF Lesser
  <2>3. n \in Nat /\ n <= a /\ n <= want - b
    BY <2>1 DEF Lesser
  <2>4. Left(t, want) # 0 => n = a
    BY <2>1, <2>2
  <2>. QED BY <2>3, <2>4
<1>. HIDE DEF f, n, m, d, a, b
<1>10. /\ f \in Stream /\ Honest(f) /\ Settled(f) /\ f.at \in Nat /\ f.pos \in Nat
       /\ f.buf \in Seq(Byte) /\ Len(f.buf) \in Nat /\ f.data \in Seq(Byte) /\ Len(f.data) \in Nat
  BY <1>3, Fields DEF Held, Good
<1>11. /\ w.data = f.data /\ w.at = f.at /\ w.dir = f.dir /\ w.buf = f.buf /\ w.pos = m
       /\ w.ungot = f.ungot /\ w.err = f.err /\ w.eof = f.eof /\ w.bufmode = f.bufmode
  BY <1>10 DEF Stream
<1>. HIDE DEF w
<1>12. f.dir = (IF t.dir = "in" THEN "in" ELSE "idle")
  BY <1>3, <1>4
<1>13. CASE t.dir # "in"
  <2>1. f.dir = "idle" /\ f.pos = 0 /\ f.buf = << >> /\ Ahead(f) = << >>
    BY <1>10, <1>12, <1>13 DEF Honest, Ahead
  <2>2. n = 0 /\ m = 0
    BY <1>9, <2>1, EmptySeq DEF a, m
  <2>3. ftell(f) = f.at
    BY <2>1 DEF ftell
  <2>4. ftell(d) = f.at
    BY <1>5, <1>11, <2>1 DEF ftell
  <2>5. Held(d)
    BY <1>5, <1>10, <1>11, <2>1 DEF Held, Settled
  <2>6. /\ SubSeq(Ahead(f), 1, n) = << >>
        /\ SubSeq(View(t), Start(t) + 1, Start(t) + n) = << >>
    BY <1>3, <1>10, <2>2, <2>3, SubSeqEmpty
  <2>7. f.at = Start(t) /\ f.at + 0 = f.at
    BY <1>3, <1>10, <2>3
  <2>. QED BY <1>3, <1>5, <1>9, <1>10, <1>11, <1>12, <2>2, <2>4, <2>5, <2>6, <2>7 DEF d, n, f, b
<1>14. CASE t.dir = "in"
  <2>1. f.dir = "in" /\ f.pos <= Len(f.buf) /\ Len(f.buf) <= f.at
        /\ f.buf = SubSeq(f.data, f.at - Len(f.buf) + 1, f.at)
        /\ (f.buf # << >> => f.at <= Len(f.data))
        /\ (f.pos = 0 => f.buf = << >>)
    BY <1>10, <1>12, <1>14 DEF Honest, Settled
  <2>2. Start(t) = f.at - (Len(f.buf) - f.pos)
    BY <1>3, <1>10, <2>1, FtellReads
  <2>. DEFINE x  == f.at
              y  == Len(f.buf)
              z  == f.pos
              q  == f.data
              L  == x - y
              st == L + z
  <2>3. Ahead(f) = SubSeq(f.buf, z + 1, y) /\ f.buf = SubSeq(q, x - y + 1, x) /\ Start(t) = x - (y - z)
    BY <2>1, <2>2 DEF Ahead
  <2>4. /\ x \in Nat /\ y \in Nat /\ z \in Nat /\ z <= y /\ y <= x /\ q \in Seq(Byte) /\ Len(q) \in Nat
        /\ y > 0 => x <= Len(q)
        /\ m = z + n
    BY <1>10, <2>1, EmptySeq DEF m
  <2>5. a = y - z
    <3>1. z + 1 >= 1 /\ z + 1 \in Int /\ y \in Int /\ y <= Len(f.buf)
      BY <2>4
    <3>2. Len(SubSeq(f.buf, z + 1, y)) = IF z + 1 <= y THEN y - (z + 1) + 1 ELSE 0
      BY <1>10, <3>1, Stretch
    <3>. HIDE DEF x, y, z, q
    <3>3. a = IF z + 1 <= y THEN y - (z + 1) + 1 ELSE 0
      BY <2>3, <3>2 DEF a
    <3>. QED BY <2>4, <3>3
  <2>14. f.buf # << >> <=> y > 0
    BY <1>10, EmptySeq
  <2>15. z = 0 => y = 0
    BY <1>10, <2>1, EmptySeq
  <2>. HIDE DEF x, y, z, q
  <2>16. L \in Nat /\ st \in Nat /\ st = Start(t) /\ st <= x /\ x - st = y - z
    BY <2>3, <2>4
  <2>6. Ahead(f) = SubSeq(q, st + 1, x)
    <3>1. CASE z = y
      <4>1. st = x
        BY <2>4, <3>1
      <4>2. SubSeq(q, st + 1, x) = << >> /\ SubSeq(f.buf, z + 1, y) = << >>
        BY <2>4, <3>1, <4>1, SubSeqEmpty
      <4>. QED BY <2>3, <4>2
    <3>2. CASE z # y
      <4>1. x <= Len(q)
        BY <2>4, <3>2
      <4>2. /\ L + 1 \in 1 .. Len(q) /\ x \in 1 .. Len(q)
            /\ z + 1 \in 1 .. x - (L + 1) + 1 /\ y \in 1 .. x - (L + 1) + 1
        BY <2>4, <3>2, <4>1
      <4>3. SubSeq(SubSeq(q, L + 1, x), z + 1, y)
              = SubSeq(q, (L + 1) + (z + 1) - 1, (L + 1) + y - 1)
        BY <2>4, <4>2, SubSeqOfSubSeq
      <4>4. (L + 1) + (z + 1) - 1 = st + 1 /\ (L + 1) + y - 1 = x
        BY <2>4
      <4>. QED BY <2>3, <4>3, <4>4
    <3>. QED BY <3>1, <3>2
  <2>7. n <= x - st /\ m \in Nat /\ m <= y /\ x - (y - m) = st + n
    BY <1>9, <2>4, <2>5
  <2>. HIDE DEF L, st
  <2>8. SubSeq(Ahead(f), 1, n) = SubSeq(q, st + 1, st + n)
    <3>1. CASE y = 0
      <4>1. n = 0
        BY <1>9, <2>4, <2>5, <3>1
      <4>2. SubSeq(Ahead(f), 1, n) = << >> /\ SubSeq(q, st + 1, st + n) = << >>
        BY <2>16, <4>1, SubSeqEmpty
      <4>. QED BY <4>2
    <3>2. CASE y # 0
      <4>1. x <= Len(q)
        BY <2>4, <3>2
      <4>2. n \in Nat /\ q \in Seq(Byte) /\ st \in Nat /\ x \in Nat /\ st <= x /\ n <= x - st
        BY <1>9, <2>4, <2>7, <2>16
      <4>3. SubSeq(SubSeq(q, st + 1, x), 1, n) = SubSeq(q, st + 1, st + n)
        BY <4>1, <4>2, StretchOfStretch
      <4>. QED BY <2>6, <4>3
    <3>. QED BY <3>1, <3>2
  <2>9. n > 0 => st + n <= Len(q)
    <3>1. CASE n > 0
      <4>1. x <= Len(q)
        BY <1>9, <2>4, <2>5, <3>1
      <4>. QED BY <1>9, <2>4, <2>7, <2>16, <4>1
    <3>. QED BY <3>1
  <2>10. d \in Stream /\ d.dir = "in" /\ d.ungot = None /\ d.at = x /\ Len(d.buf) = y /\ d.pos = m
    BY <1>3, <1>5, <1>11, <2>1 DEF Good, x, y
  <2>11. ftell(d) = st + n
    <3>1. ftell(d) = d.at - (Len(d.buf) - d.pos)
      BY <2>10, FtellReads
    <3>. QED BY <2>7, <2>10, <3>1
  <2>12. Held(d)
    <3>1. m = 0 => f.buf = << >>
      BY <1>9, <2>4, <2>14, <2>15
    <3>. QED BY <1>5, <1>11, <2>1, <3>1 DEF Held, Settled
  <2>13. Left(t, want) # 0 => d.at = st + n
    <3>1. CASE Left(t, want) # 0
      <4>1. n = y - z
        BY <1>9, <2>5, <3>1
      <4>. QED BY <2>4, <2>10, <2>16, <4>1
    <3>. QED BY <3>1
  <2>17. q = View(t)
    BY <1>3 DEF q
  <2>. QED BY <1>3, <1>5, <1>9, <1>11, <1>12, <2>16, <2>17, <2>8, <2>9, <2>11, <2>12, <2>13 DEF d, n, f, b
<1>. QED BY <1>13, <1>14

\* A block read that the device fails raises the error flag, and reports success
\* only for the pushed-back byte alone.
ReadFails(t, u, b, want) ==
  /\ u.err = TRUE /\ ftell(u) \in Nat /\ View(u) = u.data
  /\ File!WrittenBack(t.data, u.data, View(t))
  /\ Len(b) = want => t.ungot # None

\* Any other delivers the pushed-back byte and then the bytes at the start, as
\* many as are wanted or as there are.
ReadBrings(t, u, b, want) ==
  /\ View(u) = View(t) /\ u.data = View(t) /\ u.ungot = None /\ u.err = t.err
  /\ u.dir \in {"in", IF t.dir = "in" THEN "in" ELSE "idle"}
  /\ \E body \in Nat :
       /\ ftell(u) = Start(t) + body
       /\ Len(b) - Len(Pushed(t)) = body
       /\ b = Pushed(t) \o SubSeq(View(t), Start(t) + 1, Start(t) + body)
       /\ body > 0 => Start(t) + body <= Len(View(t))
       /\ Len(b) = want => u.eof = t.eof
       /\ Len(b) # want => u.eof = TRUE /\ Start(t) + body >= Len(View(t))

\* A block read does one or the other.
LEMMA FreadShows ==
  ASSUME NEW t, Held(t), F_READ \in t.mode, NEW want \in Nat, want >= 1
  PROVE  LET u == fread(t, want)
             b == fread_bytes(t, want)
         IN Held(u) /\ (ReadFails(t, u, b, want) \/ ReadBrings(t, u, b, want))
<1>. DEFINE u    == fread(t, want)
            b    == fread_bytes(t, want)
            d    == drained(t, want)
            left == Left(t, want)
            n    == Drain(t, want)
            head == Pushed(t)
            V    == View(t)
            st   == Start(t)
<1>1. u = IF ~flush_ok(t) \/ left = 0 THEN d ELSE read_on(d, left)
  BY DEF fread
<1>2. /\ Good(t) /\ t \in Stream /\ V \in Seq(Byte) /\ Len(V) \in Nat /\ t.data \in Seq(Byte)
      /\ Len(t.data) <= Len(V)
  BY Fields, ViewType DEF Held, Good
<1>3. head \in Seq(Byte) /\ Len(head) \in Nat /\ left \in Nat
  BY <1>2, DrainedGood, LenProperties
<1>4. CASE ~flush_ok(t)
  <2>. DEFINE v == [t EXCEPT !.ungot = None]
              f == unpushed(t)
              m == f.pos + n
              w == [f EXCEPT !.pos = m]
  <2>1. Held(v) /\ View(v) = View(t) /\ v.data = t.data /\ v.dir = t.dir /\ ~flush_ok(v)
    BY <1>4, TakePushed
  <2>. HIDE DEF v
  <2>2. f = rt_flush_write(v)
    BY DEF unpushed, v
  <2>3. /\ Held(f) /\ f.dir = "out" /\ f.buf = << >> /\ f.pos = 0
        /\ View(f) = f.data /\ File!WrittenBack(t.data, f.data, V)
        /\ f.err = TRUE /\ f.at \in Nat
    BY <2>1, <2>2, FlushFails
  <2>4. d = w
    BY DEF drained
  <2>5. n = 0
    <3>1. Ahead(f) = << >>
      BY <2>3 DEF Ahead
    <3>2. n \in 0 .. Len(Ahead(f))
      BY <1>2, DrainedGood
    <3>. QED BY <3>1, <3>2, EmptySeq
  <2>. HIDE DEF f, n
  <2>6. m = 0
    BY <2>3, <2>5
  <2>. HIDE DEF m
  <2>7. f \in Stream
    BY <2>3 DEF Held, Good
  <2>8. /\ w.data = f.data /\ w.at = f.at /\ w.dir = f.dir /\ w.buf = f.buf /\ w.pos = m
        /\ w.err = f.err
    BY <2>7 DEF Stream
  <2>9. Good(d)
    BY <1>2, DrainedGood
  <2>. HIDE DEF w, d
  <2>10. Held(d)
    BY <2>3, <2>4, <2>8, <2>9 DEF Held, Settled
  <2>11. View(d) = d.data
    BY <2>3, <2>4, <2>8, NothingPending
  <2>12. ftell(d) \in Nat
    BY <2>3, <2>4, <2>8, EmptySeq DEF ftell
  <2>13. b = head
    BY <1>4 DEF fread_bytes
  <2>14. Len(b) = want => t.ungot # None
    <3>1. t.ungot = None => Len(b) = 0
      BY <2>13, EmptySeq DEF Pushed
    <3>. QED BY <3>1
  <2>15. u = d
    BY <1>1, <1>4
  <2>. HIDE DEF u, b
  <2>. QED BY <2>3, <2>4, <2>8, <2>10, <2>11, <2>12, <2>14, <2>15 DEF u, b, ReadFails
<1>5. CASE flush_ok(t)
  <2>1. /\ Held(d) /\ d.data = V /\ d.ungot = None
        /\ d.dir = (IF t.dir = "in" THEN "in" ELSE "idle")
        /\ d.err = t.err /\ d.eof = t.eof
        /\ st \in Nat /\ n \in Nat /\ ftell(d) = st + n
        /\ n <= want - Len(head)
        /\ SubSeq(Ahead(unpushed(t)), 1, n) = SubSeq(V, st + 1, st + n)
        /\ n > 0 => st + n <= Len(V)
        /\ left # 0 => d.at = st + n
    BY <1>5, DrainShows
  <2>2. d.dir # "out"
    BY <2>1
  <2>. DEFINE rest == IF left = 0 THEN << >> ELSE Next_chunk(d, left)
              k    == Lesser(Len(rest), left)
  <2>3. b = (head \o SubSeq(Ahead(unpushed(t)), 1, n)) \o SubSeq(rest, 1, k)
    <3>1. ~(want = 0 \/ F_READ \notin t.mode)
      OBVIOUS
    <3>. QED BY <1>5, <3>1, Zenon DEF fread_bytes
  <2>4. left = want - Len(head) - n
    BY DEF Left
  <2>5. View(d) = V
    BY <2>1, <2>2, NothingPending
  <2>. HIDE DEF u, b, d, left, n, head, V, st
  \* With k bytes past the read-ahead that follow it, the answer is a stretch.
  <2>6. ASSUME NEW j \in Nat, j <= left, j > 0 => (st + n) + j <= Len(V),
               SubSeq(rest, 1, k) = SubSeq(V, (st + n) + 1, (st + n) + j)
        PROVE  /\ b = head \o SubSeq(V, st + 1, st + (n + j))
               /\ Len(b) - Len(head) = n + j
               /\ n + j > 0 => st + (n + j) <= Len(V)
               /\ Len(b) = want <=> j = left
    <3>1. SubSeq(V, st + 1, st + n) \o SubSeq(V, (st + n) + 1, (st + n) + j) = SubSeq(V, st + 1, st + (n + j))
      <4>1. /\ V \in Seq(Byte) /\ st \in Nat /\ n \in Nat /\ j \in Nat
            /\ n > 0 => st + n <= Len(V)
            /\ j > 0 => (st + n) + j <= Len(V)
        BY <1>2, <2>1, <2>6
      <4>. QED BY ONLY <4>1, StretchesMeet
    <3>2. n + j > 0 => st + (n + j) <= Len(V)
      BY <1>2, <2>1, <2>6
    <3>. DEFINE one == SubSeq(V, st + 1, st + n)
                two == SubSeq(V, (st + n) + 1, (st + n) + j)
                all == SubSeq(V, st + 1, st + (n + j))
    <3>3. one \in Seq(Byte) /\ two \in Seq(Byte) /\ all \in Seq(Byte) /\ Len(all) = n + j
      <4>1. ASSUME NEW a \in Nat, NEW c \in Nat, c > 0 => a + c <= Len(V)
            PROVE  SubSeq(V, a + 1, a + c) \in Seq(Byte) /\ Len(SubSeq(V, a + 1, a + c)) = c
        <5>1. CASE c = 0
          BY <5>1, SubSeqEmpty, EmptySeq
        <5>2. CASE c # 0
          <6>1. a + c <= Len(V) /\ a + 1 \in Int /\ a + c \in Int /\ a + 1 >= 1 /\ a + 1 <= a + c
            BY <4>1, <5>2
          <6>2. /\ SubSeq(V, a + 1, a + c) \in Seq(Byte)
                /\ Len(SubSeq(V, a + 1, a + c)) =
                     IF a + 1 <= a + c THEN (a + c) - (a + 1) + 1 ELSE 0
            BY <1>2, <6>1, Stretch
          <6>. QED BY <6>1, <6>2
        <5>. QED BY <5>1, <5>2
      <4>2. n + j \in Nat /\ st + n \in Nat /\ n \in Nat /\ st \in Nat /\ j \in Nat
        <5>1. n \in Nat /\ st \in Nat /\ j \in Nat
          BY <2>1, <2>6, Zenon
        <5>. QED BY <5>1
      <4>3. one \in Seq(Byte)
        BY <2>1, <4>1, <4>2
      <4>4. two \in Seq(Byte)
        BY <2>6, <4>1, <4>2
      <4>5. all \in Seq(Byte) /\ Len(all) = n + j
        BY <3>2, <4>1, <4>2
      <4>. QED BY <4>3, <4>4, <4>5
    <3>4. b = (head \o one) \o two /\ one \o two = all
      BY <2>1, <2>3, <2>6, <3>1
    <3>. HIDE DEF one, two
    <3>5. b = head \o all
      <4>1. head \in Seq(Byte) /\ one \in Seq(Byte) /\ two \in Seq(Byte)
        BY <1>3, <3>3
      <4>2. (head \o one) \o two = head \o (one \o two)
        BY <4>1, ConcatAssociative
      <4>. QED BY <3>4, <4>2
    <3>. HIDE DEF all
    <3>6. Len(b) = Len(head) + (n + j)
      BY <1>3, <3>3, <3>5, ConcatProperties
    <3>7. Len(b) - Len(head) = n + j /\ (Len(b) = want <=> j = left)
      BY <1>3, <2>1, <2>4, <2>6, <3>6
    <3>. QED BY <3>2, <3>5, <3>7 DEF all
  <2>7. CASE left = 0
    <3>1. u = d
      BY <1>1, <2>7
    <3>2. SubSeq(rest, 1, k) = << >> /\ SubSeq(V, (st + n) + 1, (st + n) + 0) = << >>
      <4>1. k = 0
        BY <2>7, EmptySeq DEF Lesser
      <4>2. SubSeq(rest, 1, k) = << >>
        BY <4>1, SubSeqEmpty
      <4>3. SubSeq(V, (st + n) + 1, (st + n) + 0) = << >>
        BY <2>1, SubSeqEmpty
      <4>. QED BY <4>2, <4>3
    <3>. HIDE DEF rest, k
    <3>3. /\ b = head \o SubSeq(V, st + 1, st + (n + 0))
          /\ Len(b) - Len(head) = n + 0
          /\ n + 0 > 0 => st + (n + 0) <= Len(V)
          /\ Len(b) = want <=> 0 = left
      <4>1. 0 \in Nat /\ 0 <= left /\ ~(0 > 0)
        BY <1>3
      <4>. QED BY <2>6, <3>2, <4>1
    <3>4. n + 0 = n
      BY <2>1
    <3>5. ReadBrings(t, u, b, want)
      <4>1. /\ ftell(u) = st + n /\ Len(b) - Len(head) = n
            /\ b = head \o SubSeq(V, st + 1, st + n)
            /\ n > 0 => st + n <= Len(V)
            /\ Len(b) = want /\ u.eof = t.eof
        BY <2>1, <2>7, <3>1, <3>3, <3>4
      <4>2. View(u) = V /\ u.data = V /\ u.ungot = None /\ u.err = t.err /\ n \in Nat
            /\ u.dir \in {"in", IF t.dir = "in" THEN "in" ELSE "idle"}
        BY <2>1, <2>5, <3>1
      <4>. QED BY <4>1, <4>2 DEF ReadBrings, head, V, st
    <3>. QED BY <2>1, <3>1, <3>5 DEF u, b
  <2>8. CASE left # 0
    <3>1. left >= 1
      BY <1>3, <2>8
    <3>2. u = read_on(d, left) /\ rest = Next_chunk(d, left)
      BY <1>1, <1>5, <2>8
    <3>3. /\ Held(u) /\ u.data = d.data /\ u.dir = "in" /\ u.ungot = None
          /\ k \in 0 .. left
          /\ SubSeq(rest, 1, k) = SubSeq(d.data, d.at + 1, d.at + k)
          /\ k > 0 => d.at + k <= Len(d.data)
          /\ \/ u.err = TRUE /\ k < left /\ ftell(u) \in Nat
             \/ /\ u.err = d.err /\ ftell(u) = d.at + k
                /\ \/ k = left /\ u.eof = d.eof
                   \/ k < left /\ u.eof = TRUE /\ d.at + k >= Len(d.data)
      <4>1. Held(d) /\ d.ungot = None /\ left \in Nat
        BY <1>3, <2>1
      <4>. DEFINE g == Next_chunk(d, left)
                  w == read_on(d, left)
                  h == Lesser(Len(g), left)
      <4>2. /\ Held(w) /\ w.data = d.data /\ w.dir = "in" /\ w.ungot = None
            /\ h \in 0 .. left
            /\ SubSeq(g, 1, h) = SubSeq(d.data, d.at + 1, d.at + h)
            /\ h > 0 => d.at + h <= Len(d.data)
            /\ \/ w.err = TRUE /\ h < left /\ ftell(w) \in Nat
               \/ /\ w.err = d.err /\ ftell(w) = d.at + h
                  /\ \/ h = left /\ w.eof = d.eof
                     \/ h < left /\ w.eof = TRUE /\ d.at + h >= Len(d.data)
        BY <2>2, <3>1, <4>1, ReadOnShows
      <4>. HIDE DEF g, w
      <4>3. u = w /\ rest = g /\ k = h
        BY <3>2 DEF g, w
      <4>. HIDE DEF h, rest, k
      <4>. QED BY <4>2, <4>3
    <3>. HIDE DEF rest, k
    <3>4. d.at = st + n /\ d.data = V /\ k \in Nat /\ k <= left
      BY <1>3, <2>1, <2>8, <3>3
    <3>5. /\ b = head \o SubSeq(V, st + 1, st + (n + k))
          /\ Len(b) - Len(head) = n + k
          /\ n + k > 0 => st + (n + k) <= Len(V)
          /\ Len(b) = want <=> k = left
      BY <2>6, <3>3, <3>4
    <3>6. View(u) = u.data
      BY <3>3, NothingPending
    <3>7. CASE u.err = TRUE /\ k < left /\ ftell(u) \in Nat
      <4>1. Len(b) # want
        <5>1. k \in Nat /\ left \in Nat /\ k < left
          BY <1>3, <3>4, <3>7
        <5>2. k # left
          BY <5>1
        <5>. QED BY <3>5, <5>2, Zenon
      <4>2. File!WrittenBack(t.data, V, V)
        BY <1>2, WrittenWhole
      <4>3. ReadFails(t, u, b, want)
        BY <2>1, <3>3, <3>6, <3>7, <4>1, <4>2 DEF ReadFails, V
      <4>. QED BY <3>3, <4>3 DEF u, b
    <3>8. CASE /\ u.err = d.err /\ ftell(u) = d.at + k
               /\ \/ k = left /\ u.eof = d.eof
                  \/ k < left /\ u.eof = TRUE /\ d.at + k >= Len(d.data)
      <4>. DEFINE body == n + k
      <4>1. body \in Nat /\ (st + n) + k = st + body
        BY <2>1, <3>4
      <4>2. Len(b) = want => u.eof = t.eof
        BY <1>3, <2>1, <3>4, <3>5, <3>8
      <4>3. Len(b) # want => u.eof = TRUE /\ st + body >= Len(V)
        BY <1>3, <2>1, <3>4, <3>5, <3>8, <4>1
      <4>4. ftell(u) = st + body
        BY <3>4, <3>8, <4>1
      <4>5. /\ b = head \o SubSeq(V, st + 1, st + body)
            /\ Len(b) - Len(head) = body
            /\ body > 0 => st + body <= Len(V)
        BY <3>5
      <4>. HIDE DEF body
      <4>6. View(u) = V /\ u.data = V /\ u.err = t.err
        BY <2>1, <3>3, <3>6, <3>8
      <4>7. ReadBrings(t, u, b, want)
        BY <3>3, <4>1, <4>2, <4>3, <4>4, <4>5, <4>6 DEF ReadBrings, head, V, st
      <4>. QED BY <3>3, <4>7 DEF u, b
    <3>. QED BY <3>3, <3>7, <3>8
  <2>. QED BY <2>7, <2>8
<1>. QED BY <1>4, <1>5

(* ---- positioning ---- *)

\* What a caller counts an offset from.
SeenOrigin(t, whence) == CASE whence = "SET" -> 0
                           [] whence = "CUR" -> ftell(t)
                           [] whence = "END" -> Len(View(t))

\* A seek makes pending bytes durable and lands where the caller's own count
\* says, even over read-ahead; one refused leaves the handle no further back.
LEMMA SeekShows ==
  ASSUME NEW t, Held(t), flush_ok(t), NEW off \in Int, NEW whence \in {"SET", "CUR", "END"}
  PROVE  LET u == fseek(t, off, whence)
             target == SeenOrigin(t, whence) + off
         IN
         /\ Held(u) /\ View(u) = View(t) /\ u.data = View(t) /\ u.dir = "idle" /\ u.ungot = None
         /\ u.eof = FALSE /\ u.err = t.err
         /\ seek_ok(t, off, whence) <=> target >= 0
         /\ target >= 0 => ftell(u) = target
         /\ ~(target >= 0) => ftell(u) >= ftell(t) /\ ftell(u) >= 0
<1>. DEFINE f == rt_flush_write(t)
            to == seek_target(t, off, whence)
            a == IF seek_ok(t, off, whence) THEN to ELSE f.at
            w == [f EXCEPT !.buf = << >>, !.pos = 0, !.ungot = None, !.dir = "idle",
                           !.eof = FALSE, !.at = a]
            u == fseek(t, off, whence)
<1>1. /\ Held(f) /\ f.data = View(t) /\ View(f) = View(t) /\ ftell(f) = ftell(t)
      /\ f.err = t.err /\ f.dir = (IF t.dir = "out" THEN "idle" ELSE t.dir)
  BY FlushShows
<1>2. u = w
  BY DEF fseek
<1>3. Good(u)
  BY SeekGood DEF Held
<1>4. to = Origin(f, whence) + Adjusted(f, off, whence)
  BY DEF seek_target
<1>5. seek_ok(t, off, whence) <=> to >= 0
  BY DEF seek_ok
<1>. HIDE DEF f, u
<1>6. /\ f \in Stream /\ Honest(f) /\ f.at \in Nat /\ f.pos \in Nat /\ Len(f.buf) \in Nat
      /\ Len(f.data) \in Nat /\ t.dir \in {"in", "out", "idle"}
  BY <1>1, Fields DEF Held, Good, Stream
<1>7. CASE f.dir = "in"
  <2>1. Unread(f) \in Nat
    BY <1>6, <1>7 DEF Honest, Unread
  <2>2. ftell(t) = f.at - Unread(f)
    BY <1>1, <1>7 DEF ftell
  <2>3. to = SeenOrigin(t, whence) + off /\ to \in Int
    <3>1. CASE whence = "CUR"
      <4>1. to = f.at + (off - Unread(f)) /\ SeenOrigin(t, whence) = f.at - Unread(f)
        BY <1>4, <1>7, <2>2, <3>1 DEF Origin, Adjusted, SeenOrigin
      <4>. QED BY <1>6, <2>1, <4>1
    <3>2. CASE whence = "SET"
      BY <1>4, <3>2 DEF Origin, Adjusted, SeenOrigin
    <3>3. CASE whence = "END"
      BY <1>1, <1>4, <1>6, <3>3 DEF Origin, Adjusted, SeenOrigin
    <3>. QED BY <3>1, <3>2, <3>3
  <2>4. f.at >= ftell(t)
    BY <1>6, <2>1, <2>2
  <2>. HIDE DEF to
  <2>5. a \in Nat /\ (to >= 0 => a = to) /\ (~(to >= 0) => a >= ftell(t))
    BY <1>5, <1>6, <2>3, <2>4
  <2>. HIDE DEF a
  <2>6. /\ w.data = f.data /\ w.at = a /\ w.dir = "idle" /\ w.buf = << >> /\ w.ungot = None
        /\ w.eof = FALSE /\ w.err = f.err
    BY <1>6 DEF Stream
  <2>. HIDE DEF w
  <2>7. Held(u)
    BY <1>2, <1>3, <2>6 DEF Held, Settled
  <2>8. View(u) = View(t) /\ ftell(u) = a
    BY <1>1, <1>2, <2>6 DEF View, ftell
  <2>. QED BY <1>1, <1>2, <1>5, <2>3, <2>5, <2>6, <2>7, <2>8 DEF u
<1>8. CASE f.dir # "in"
  <2>1. f.dir = "idle"
    BY <1>1, <1>6, <1>8
  <2>2. ftell(t) = f.at
    BY <1>1, <2>1 DEF ftell
  <2>3. to = SeenOrigin(t, whence) + off /\ to \in Int
    <3>1. to = Origin(f, whence) + off
      BY <1>4, <1>8 DEF Adjusted
    <3>2. Origin(f, whence) = SeenOrigin(t, whence) /\ Origin(f, whence) \in Int
      BY <1>1, <1>6, <2>2 DEF Origin, SeenOrigin
    <3>. QED BY <3>1, <3>2
  <2>. HIDE DEF to
  <2>5. a \in Nat /\ (to >= 0 => a = to) /\ (~(to >= 0) => a >= ftell(t))
    BY <1>5, <1>6, <2>2, <2>3
  <2>. HIDE DEF a
  <2>6. /\ w.data = f.data /\ w.at = a /\ w.dir = "idle" /\ w.buf = << >> /\ w.ungot = None
        /\ w.eof = FALSE /\ w.err = f.err
    BY <1>6 DEF Stream
  <2>. HIDE DEF w
  <2>7. Held(u)
    BY <1>2, <1>3, <2>6 DEF Held, Settled
  <2>8. View(u) = View(t) /\ ftell(u) = a
    BY <1>1, <1>2, <2>6 DEF View, ftell
  <2>. QED BY <1>1, <1>2, <1>5, <2>3, <2>5, <2>6, <2>7, <2>8 DEF u
<1>. QED BY <1>7, <1>8

(* ---- the calls, one by one ---- *)

\* A failed call that leaves nothing pending loses no more than pending bytes.
LEMMA LosesPending ==
  ASSUME View(s') = s'.data, File!WrittenBack(s.data, s'.data, View(s))
  PROVE  File!Lose
<1>1. Overlay(View(s), File!Larger(0, ftell(s)), << >>) = View(s)
  BY DEF Overlay
<1>2. File!WrittenBack(s.data, s'.data, File!Overlay(View(s), File!Larger(0, ftell(s)), << >>))
  BY <1>1, SameOverlay
<1>3. << >> \in Payload \cup {<< >>}
  OBVIOUS
<1>. QED BY <1>2, <1>3 DEF File!Lose, View

\* Changing the push-back, an indicator or the device shows the same file.
LEMMA AsideShows ==
  ASSUME NEW t, Settled(t), NEW u, u.data = t.data, u.at = t.at, u.dir = t.dir,
         u.buf = t.buf, u.pos = t.pos
  PROVE  /\ View(u) = View(t)
         /\ u.bufmode = t.bufmode => Settled(u)
         /\ u.ungot = t.ungot => ftell(u) = ftell(t)
BY DEF View, Settled, ftell, Unread

\* Put is a write at the position, a failure or a refusal.
LEMMA PutStep ==
  ASSUME RInv, NEW p \in Payload, Put(p)
  PROVE  Settled(s') /\ (File!Put(p) \/ File!Failure \/ File!Refuse)
<1>1. Held(s) /\ p \in Seq(Byte) /\ s \in Stream
  BY CallAssumption DEF RInv, IInv, Held, Good
<1>2. open /\ open' = open /\ s' = rt_putbytes(s, p)
      /\ ret' = [op |-> "put", ok |-> putbytes_ok(s, p), bytes |-> << >>]
  BY DEF Put, Call, Result
<1>3. CASE putbytes_ok(s, p)
  <2>1. /\ Held(s') /\ s'.dir = "out" /\ View(s') = Overlay(View(s), Larger(0, ftell(s)), p)
        /\ ftell(s') = Larger(0, ftell(s)) + Len(p)
        /\ File!WrittenBack(s.data, s'.data, View(s'))
        /\ s'.ungot = (IF s.dir = "in" THEN None ELSE s.ungot)
        /\ s'.err = s.err /\ s'.eof = s.eof
    BY <1>1, <1>2, <1>3, PutShows DEF WriteShows
  <2>2. ret' = File!Ok("put", << >>)
    BY <1>2, <1>3 DEF File!Ok, putbytes_ok
  <2>3. File!Larger(0, ftell(s)) = Larger(0, ftell(s)) /\ File!None = None
    BY DEF File!Larger, Larger, File!None, None
  <2>4. View(s') = File!Overlay(View(s), File!Larger(0, ftell(s)), p)
    BY <2>1, <2>3, SameOverlay
  <2>5. File!Put(p)
    BY <1>2, <2>1, <2>2, <2>3, <2>4, Zenon DEF File!Put, View
  <2>. QED BY <2>1, <2>5 DEF Held
<1>4. CASE F_WRITE \in s.mode /\ ~putbytes_ok(s, p)
  <2>1. /\ Held(s') /\ View(s') = s'.data /\ s'.err = TRUE /\ ftell(s') \in Nat
        /\ File!WrittenBack(s.data, s'.data, WriteShows(s, p))
    BY <1>1, <1>2, <1>4, PutFails
  <2>2. File!WrittenBack(s.data, s'.data, File!Overlay(View(s), File!Larger(0, ftell(s)), p))
    <3>1. File!Overlay(View(s), File!Larger(0, ftell(s)), p) = WriteShows(s, p)
      BY SameOverlay DEF WriteShows, File!Larger, Larger
    <3>. QED BY <2>1, <3>1
  <2>3. File!Lose
    BY <2>1, <2>2 DEF File!Lose, View
  <2>4. ~ret'.ok
    BY <1>2, <1>4
  <2>5. ftell(s') >= 0
    BY <2>1
  <2>6. open
    BY <1>2
  <2>7. File!Failure
    BY <1>2, <2>1, <2>3, <2>4, <2>5, <2>6 DEF File!Failure
  <2>. QED BY <2>1, <2>7 DEF Held
<1>5. CASE F_WRITE \notin s.mode
  <2>. DEFINE u == [s EXCEPT !.err = TRUE]
  <2>1. s' = u /\ ~ret'.ok
    BY <1>2, <1>5 DEF rt_putbytes, putbytes_ok
  <2>2. /\ u.data = s.data /\ u.at = s.at /\ u.dir = s.dir /\ u.buf = s.buf /\ u.pos = s.pos
        /\ u.ungot = s.ungot /\ u.eof = s.eof /\ u.err = TRUE /\ u.bufmode = s.bufmode
    BY <1>1 DEF Stream
  <2>. HIDE DEF u
  <2>3. View(s') = View(s) /\ ftell(s') = ftell(s)
    BY <2>1, <2>2 DEF View, ftell, Unread
  <2>4. Settled(s')
    BY <1>1, <2>1, <2>2 DEF Held, Settled
  <2>5. File!Refuse
    BY <1>2, <2>1, <2>2, <2>3 DEF File!Refuse, View
  <2>. QED BY <2>4, <2>5
<1>. QED BY <1>3, <1>4, <1>5

\* Get is one byte, the end of the file, a failure or a refusal.
LEMMA GetStep ==
  ASSUME RInv, Get
  PROVE  Settled(s') /\ (File!Get \/ File!Failure \/ File!Refuse)
<1>1. Held(s) /\ s \in Stream /\ Settled(s)
  BY DEF RInv, IInv, Held, Good
<1>2. open /\ open' = open /\ s' = rt_getbyte(s)
      /\ ret' = [op |-> "get", ok |-> got_byte(s) # << >>, bytes |-> got_byte(s)]
  BY DEF Get, Call, Result
<1>3. CASE F_READ \notin s.mode
  <2>. DEFINE u == [s EXCEPT !.err = TRUE]
  <2>1. s' = u /\ ~ret'.ok
    BY <1>2, <1>3 DEF rt_getbyte, got_byte
  <2>2. /\ u.data = s.data /\ u.at = s.at /\ u.dir = s.dir /\ u.buf = s.buf /\ u.pos = s.pos
        /\ u.ungot = s.ungot /\ u.eof = s.eof /\ u.err = TRUE /\ u.bufmode = s.bufmode
    BY <1>1 DEF Stream
  <2>. HIDE DEF u
  <2>3. View(s') = View(s) /\ ftell(s') = ftell(s) /\ Settled(s')
    BY <1>1, <2>1, <2>2, AsideShows
  <2>4. File!Refuse
    BY <1>2, <2>1, <2>2, <2>3 DEF File!Refuse, View
  <2>. QED BY <2>3, <2>4
<1>4. CASE F_READ \in s.mode /\ s.ungot # None
  <2>. DEFINE v == [s EXCEPT !.ungot = None]
  <2>1. s' = v
    BY <1>2, <1>4 DEF rt_getbyte
  <2>2. /\ Held(v) /\ View(v) = View(s) /\ v.data = s.data /\ v.dir = s.dir /\ v.ungot = None
        /\ v.err = s.err /\ v.eof = s.eof /\ ftell(v) = Start(s)
    BY <1>1, TakePushed
  <2>. HIDE DEF v
  <2>3. got_byte(s) = <<s.ungot>> /\ <<s.ungot>> # << >>
    BY <1>4 DEF got_byte
  <2>4. ret' = File!Ok("get", <<s.ungot>>)
    BY <1>2, <2>3 DEF File!Ok
  <2>5. ftell(s') = IF s.dir = "in" THEN ftell(s) + 1 ELSE ftell(s)
    BY <1>4, <2>1, <2>2 DEF Start
  <2>6. ret'.op = "get" /\ File!None = None
    BY <1>2 DEF File!None, None
  <2>7. File!Get
    BY <1>2, <1>4, <2>1, <2>2, <2>4, <2>5, <2>6 DEF File!Get, View
  <2>. QED BY <2>1, <2>2, <2>7 DEF Held
<1>5. CASE F_READ \in s.mode /\ s.ungot = None
  <2>0. ret'.op = "get" /\ File!None = None /\ ret'.ok = (got_byte(s) # << >>)
    BY <1>2 DEF File!None, None
  <2>1. Held(s') /\ s'.ungot = None
    BY <1>1, <1>2, <1>5, GetShows
  <2>2. CASE /\ View(s') = View(s) /\ s'.data = View(s) /\ s'.dir = "in"
             /\ s'.err = s.err /\ s'.eof = s.eof
             /\ ftell(s) < Len(View(s)) /\ ftell(s') = ftell(s) + 1
             /\ got_byte(s) = <<View(s)[ftell(s) + 1]>>
    <3>1. got_byte(s) # << >>
      BY <2>2
    <3>2. ret' = File!Ok("get", <<View(s)[ftell(s) + 1]>>)
      BY <1>2, <2>2, <3>1 DEF File!Ok
    <3>3. File!Get
      BY <1>2, <1>5, <2>0, <2>1, <2>2, <3>2 DEF File!Get, View
    <3>. QED BY <2>1, <3>3 DEF Held
  <2>3. CASE /\ View(s') = View(s) /\ s'.data = View(s) /\ s'.dir = "in"
             /\ s'.err = s.err /\ s'.eof = TRUE
             /\ ftell(s) >= Len(View(s)) /\ ftell(s') = ftell(s)
             /\ got_byte(s) = << >>
    <3>1. ret' = File!Fail("get", << >>)
      BY <1>2, <2>3 DEF File!Fail
    <3>2. File!Get
      BY <1>2, <1>5, <2>0, <2>1, <2>3, <3>1 DEF File!Get, View
    <3>. QED BY <2>1, <3>2 DEF Held
  <2>4. CASE /\ File!WrittenBack(s.data, s'.data, View(s)) /\ View(s') = s'.data
             /\ s'.err = TRUE /\ ftell(s') \in Nat
             /\ got_byte(s) = << >>
    <3>1. ~ret'.ok
      BY <2>0, <2>4
    <3>2. File!Lose
      BY <2>4, LosesPending
    <3>3. ftell(s') >= 0
      BY <2>4
    <3>4. File!Failure
      BY <1>2, <2>4, <3>1, <3>2, <3>3 DEF File!Failure
    <3>. QED BY <2>1, <3>4 DEF Held
  <2>. QED BY <1>1, <1>2, <1>5, <2>2, <2>3, <2>4, GetShows
<1>. QED BY <1>3, <1>4, <1>5

\* Fread is nothing at all, a block, a failure or a refusal.
LEMMA FreadStep ==
  ASSUME RInv, NEW want \in 0 .. BufSz + 1, Fread(want)
  PROVE  Settled(s') /\ (File!Fread \/ File!Invisible \/ File!Failure \/ File!Refuse)
<1>1. Held(s) /\ s \in Stream /\ Settled(s) /\ want \in Nat
  BY DEF RInv, IInv, Held, Good
<1>. DEFINE b == fread_bytes(s, want)
<1>2. open /\ open' = open /\ s' = fread(s, want)
      /\ ret' = [op |-> "read", ok |-> Len(b) = want, bytes |-> b]
  BY DEF Fread, Call, Result
<1>3. CASE want = 0
  <2>1. s' = s /\ b = << >> /\ Len(b) = want
    BY <1>2, <1>3, EmptySeq DEF fread, fread_bytes
  <2>2. ret' = File!Ok("read", << >>)
    BY <1>2, <2>1 DEF File!Ok
  <2>3. File!Invisible
    BY <1>2, <2>1, <2>2 DEF File!Invisible
  <2>. QED BY <1>1, <2>1, <2>3
<1>4. CASE want # 0 /\ F_READ \notin s.mode
  <2>. DEFINE u == [s EXCEPT !.err = TRUE]
  <2>1. s' = u /\ b = << >>
    BY <1>2, <1>4 DEF fread, fread_bytes
  <2>2. /\ u.data = s.data /\ u.at = s.at /\ u.dir = s.dir /\ u.buf = s.buf /\ u.pos = s.pos
        /\ u.ungot = s.ungot /\ u.eof = s.eof /\ u.err = TRUE /\ u.bufmode = s.bufmode
    BY <1>1 DEF Stream
  <2>. HIDE DEF u
  <2>3. View(s') = View(s) /\ ftell(s') = ftell(s) /\ Settled(s')
    BY <1>1, <2>1, <2>2, AsideShows
  <2>4. ~ret'.ok
    BY <1>2, <1>4, <2>1, EmptySeq
  <2>5. File!Refuse
    BY <1>2, <2>1, <2>2, <2>3, <2>4 DEF File!Refuse, View
  <2>. QED BY <2>3, <2>5
<1>5. CASE want # 0 /\ F_READ \in s.mode
  <2>0. want >= 1
    BY <1>1, <1>5
  <2>. HIDE DEF b
  <2>1. ret'.op = "read" /\ ret'.bytes = b /\ (ret'.ok <=> Len(b) = want) /\ File!None = None
    BY <1>2 DEF File!None, None
  <2>2. Held(s')
    BY <1>1, <1>2, <1>5, <2>0, FreadShows
  <2>3. CASE /\ s'.err = TRUE /\ ftell(s') \in Nat /\ View(s') = s'.data
             /\ File!WrittenBack(s.data, s'.data, View(s))
             /\ Len(b) = want => s.ungot # None
    <3>1. File!Lose
      BY <2>3, LosesPending
    <3>2. ftell(s') >= 0
      BY <2>3
    <3>3. File!Failure
      BY <1>2, <2>1, <2>3, <3>1, <3>2 DEF File!Failure
    <3>. QED BY <2>2, <3>3 DEF Held
  <2>4. ASSUME /\ View(s') = View(s) /\ s'.data = View(s) /\ s'.ungot = None /\ s'.err = s.err
               /\ s'.dir \in {"in", IF s.dir = "in" THEN "in" ELSE "idle"},
               NEW body \in Nat,
               /\ ftell(s') = Start(s) + body
               /\ Len(b) - Len(Pushed(s)) = body
               /\ b = Pushed(s) \o SubSeq(View(s), Start(s) + 1, Start(s) + body)
               /\ body > 0 => Start(s) + body <= Len(View(s))
               /\ Len(b) = want => s'.eof = s.eof
               /\ Len(b) # want => s'.eof = TRUE /\ Start(s) + body >= Len(View(s))
        PROVE  File!Fread
    <3>. DEFINE head  == IF s.ungot = File!None THEN << >> ELSE <<s.ungot>>
                start == IF s.ungot # File!None /\ s.dir = "in" THEN ftell(s) + 1 ELSE ftell(s)
    <3>1. head = Pushed(s) /\ start = Start(s)
      BY <2>1 DEF Pushed, Start
    <3>2. Len(ret'.bytes) - Len(head) = body
      BY <2>1, <2>4, <3>1
    <3>. HIDE DEF head, start
    <3>3. /\ body >= 0 /\ (body > 0 => start + body <= Len(View(s)))
          /\ ret'.bytes = head \o SubSeq(View(s), start + 1, start + body)
          /\ ~ret'.ok => (s'.eof /\ start + body >= Len(View(s)))
          /\ ret'.ok => s'.eof = s.eof
          /\ ftell(s') = start + body
      <4>1. ret'.ok \/ Len(b) # want
        BY <2>1
      <4>2. Len(b) # want => s'.eof /\ start + body >= Len(View(s))
        BY <2>4, <3>1, Zenon
      <4>3. ret'.ok => s'.eof = s.eof
        BY <2>1, <2>4, Zenon
      <4>4. body >= 0
        OBVIOUS
      <4>. QED BY <2>1, <2>4, <3>1, <4>1, <4>2, <4>3, <4>4, Zenon
    <3>. DEFINE bytes == ret'.bytes
                num   == Len(bytes) - Len(head)
    <3>4. /\ num >= 0 /\ (num > 0 => start + num <= Len(View(s)))
          /\ bytes = head \o SubSeq(View(s), start + 1, start + num)
          /\ ~ret'.ok => (s'.eof /\ start + num >= Len(View(s)))
          /\ ret'.ok => s'.eof = s.eof
          /\ ftell(s') = start + num
      BY <3>2, <3>3
    <3>. QED BY <1>2, <2>1, <2>4, <3>4 DEF File!Fread, View, head, start
  <2>5. Settled(s')
    BY <2>2 DEF Held
  <2>6. ReadFails(s, s', b, want) \/ ReadBrings(s, s', b, want)
    BY <1>1, <1>2, <1>5, <2>0, FreadShows DEF b
  <2>. QED BY <2>3, <2>4, <2>5, <2>6 DEF ReadFails, ReadBrings
<1>. QED BY <1>3, <1>4, <1>5

\* Ungetc, Clearerr and Setvbuf touch the stream beside its buffer.
LEMMA AsideStep ==
  ASSUME RInv
  PROVE  /\ \A c \in Byte : Ungetc(c) => Settled(s') /\ File!Ungetc
         /\ Clearerr => Settled(s') /\ File!ClearErr
         /\ \A m \in {"full", "line", "none"} : Setvbuf(m) => Settled(s') /\ File!Invisible
<1>1. Held(s) /\ s \in Stream /\ Settled(s) /\ Honest(s)
      /\ s.at \in Nat /\ Len(s.buf) \in Nat /\ s.pos \in Nat /\ s.dir \in {"in", "out", "idle"}
  BY Fields DEF RInv, IInv, Held, Good, Stream
<1>2. ASSUME NEW c \in Byte, Ungetc(c) PROVE Settled(s') /\ File!Ungetc
  <2>. DEFINE u == [s EXCEPT !.ungot = c, !.eof = FALSE]
  <2>1. open /\ open' = open /\ s.ungot = None /\ s' = u /\ ret' = File!Ok("unget", << >>)
    BY <1>2 DEF Ungetc, Call, Result, File!Ok
  <2>2. /\ u.data = s.data /\ u.at = s.at /\ u.dir = s.dir /\ u.buf = s.buf /\ u.pos = s.pos
        /\ u.ungot = c /\ u.eof = FALSE /\ u.err = s.err /\ u.bufmode = s.bufmode
    BY <1>1 DEF Stream
  <2>. HIDE DEF u
  <2>3. View(s') = View(s) /\ Settled(s')
    BY <1>1, <2>1, <2>2, AsideShows
  <2>4. c # None
    <3>1. c \in Nat
      BY ByteAssumption
    <3>. QED BY <3>1 DEF None
  <2>5. ftell(s') = IF s.dir = "in" THEN ftell(s) - 1 ELSE ftell(s)
    <3>1. CASE s.dir = "in"
      <4>1. Unread(s') = (Len(s.buf) - s.pos) + 1
        BY <2>1, <2>2, <2>4 DEF Unread
      <4>2. ftell(s') = s.at - ((Len(s.buf) - s.pos) + 1)
        BY <2>1, <2>2, <3>1, <4>1 DEF ftell
      <4>3. ftell(s) = s.at - (Len(s.buf) - s.pos)
        BY <1>1, <2>1, <3>1, FtellReads
      <4>4. s.at - ((Len(s.buf) - s.pos) + 1) = (s.at - (Len(s.buf) - s.pos)) - 1
        BY <1>1
      <4>. QED BY <3>1, <4>2, <4>3, <4>4
    <3>2. CASE s.dir = "out"
      <4>1. ftell(s') = s.at + Len(s.buf)
        BY <2>1, <2>2, <3>2 DEF ftell
      <4>2. ftell(s) = s.at + Len(s.buf)
        BY <3>2 DEF ftell
      <4>. QED BY <3>2, <4>1, <4>2
    <3>3. CASE s.dir = "idle"
      <4>1. ftell(s') = s.at
        BY <2>1, <2>2, <3>3 DEF ftell
      <4>2. ftell(s) = s.at
        BY <3>3 DEF ftell
      <4>. QED BY <3>3, <4>1, <4>2
    <3>. QED BY <1>1, <3>1, <3>2, <3>3
  <2>6. File!None = None
    BY DEF File!None, None
  <2>7. File!Ungetc
    BY <2>1, <2>2, <2>3, <2>5, <2>6 DEF File!Ungetc, View
  <2>. QED BY <2>3, <2>7
<1>3. ASSUME Clearerr PROVE Settled(s') /\ File!ClearErr
  <2>. DEFINE u == [s EXCEPT !.err = FALSE, !.eof = FALSE]
  <2>1. open /\ open' = open /\ s' = u /\ ret' = File!Ok("clearerr", << >>)
    BY <1>3 DEF Clearerr, Call, Result, File!Ok
  <2>2. /\ u.data = s.data /\ u.at = s.at /\ u.dir = s.dir /\ u.buf = s.buf /\ u.pos = s.pos
        /\ u.ungot = s.ungot /\ u.eof = FALSE /\ u.err = FALSE /\ u.bufmode = s.bufmode
    BY <1>1 DEF Stream
  <2>. HIDE DEF u
  <2>3. View(s') = View(s) /\ Settled(s') /\ ftell(s') = ftell(s)
    BY <1>1, <2>1, <2>2, AsideShows
  <2>4. File!ClearErr
    BY <2>1, <2>2, <2>3 DEF File!ClearErr, View
  <2>. QED BY <2>3, <2>4
<1>4. ASSUME NEW m \in {"full", "line", "none"}, Setvbuf(m) PROVE Settled(s') /\ File!Invisible
  <2>. DEFINE u == [s EXCEPT !.bufmode = m]
  <2>1. open /\ open' = open /\ s.dir = "idle" /\ s' = u /\ ret' = File!Ok("setvbuf", << >>)
    BY <1>4 DEF Setvbuf, Call, Result, File!Ok
  <2>2. /\ u.data = s.data /\ u.at = s.at /\ u.dir = s.dir /\ u.buf = s.buf /\ u.pos = s.pos
        /\ u.ungot = s.ungot /\ u.eof = s.eof /\ u.err = s.err
    BY <1>1 DEF Stream
  <2>. HIDE DEF u
  <2>3. View(s') = View(s) /\ ftell(s') = ftell(s)
    BY <1>1, <2>1, <2>2, AsideShows
  <2>4. Settled(s')
    BY <2>1, <2>2 DEF Settled
  <2>5. File!Invisible
    BY <2>1, <2>2, <2>3 DEF File!Invisible, View
  <2>. QED BY <2>4, <2>5
<1>. QED BY <1>2, <1>3, <1>4

\* Fseek is a seek or a failure.
LEMMA FseekStep ==
  ASSUME RInv, NEW off \in Offset, NEW w \in {"SET", "CUR", "END"}, Fseek(off, w)
  PROVE  Settled(s') /\ (File!Seek(off, w) \/ File!Failure)
<1>1. Held(s) /\ off \in Int
  BY CallAssumption DEF RInv, IInv, Held
<1>2. open /\ open' = open /\ s' = fseek(s, off, w)
      /\ ret' = [op |-> "seek", ok |-> seek_ok(s, off, w), bytes |-> << >>]
  BY DEF Fseek, Call, Result
<1>3. CASE ~flush_ok(s)
  <2>1. s' = rt_flush_write(s) /\ ~ret'.ok
    BY <1>2, <1>3 DEF fseek, seek_ok
  <2>2. /\ Held(s') /\ View(s') = s'.data /\ File!WrittenBack(s.data, s'.data, View(s))
        /\ s'.err = TRUE /\ s'.dir = "out" /\ s'.buf = << >> /\ s'.at \in Nat
    BY <1>1, <1>3, <2>1, FlushFails
  <2>3. File!Lose
    BY <2>2, LosesPending
  <2>4. ftell(s') >= 0
    BY <2>2, EmptySeq DEF ftell
  <2>5. File!Failure
    BY <1>2, <2>1, <2>2, <2>3, <2>4 DEF File!Failure
  <2>. QED BY <2>2, <2>5 DEF Held
<1>4. CASE flush_ok(s)
  <2>. DEFINE target == SeenOrigin(s, w) + off
  <2>1. /\ Held(s') /\ View(s') = View(s) /\ s'.data = View(s) /\ s'.dir = "idle" /\ s'.ungot = None
        /\ s'.eof = FALSE /\ s'.err = s.err
        /\ seek_ok(s, off, w) <=> target >= 0
        /\ target >= 0 => ftell(s') = target
        /\ ~(target >= 0) => ftell(s') >= ftell(s) /\ ftell(s') >= 0
    BY <1>1, <1>2, <1>4, SeekShows
  <2>2. File!Origin(w) = SeenOrigin(s, w)
    BY DEF File!Origin, SeenOrigin, View
  <2>3. File!None = None
    BY DEF File!None, None
  <2>4. IF target >= 0 THEN ret' = File!Ok("seek", << >>) ELSE ret' = File!Fail("seek", << >>)
    <3>1. seek_ok(s, off, w) \in BOOLEAN
      BY DEF seek_ok
    <3>2. CASE target >= 0
      <4>1. seek_ok(s, off, w) = TRUE
        BY <2>1, <3>1, <3>2
      <4>. QED BY <1>2, <3>2, <4>1 DEF File!Ok
    <3>3. CASE ~(target >= 0)
      <4>1. seek_ok(s, off, w) = FALSE
        BY <2>1, <3>1, <3>3
      <4>. QED BY <1>2, <3>3, <4>1 DEF File!Fail
    <3>. QED BY <3>2, <3>3
  <2>5. ret'.op = "seek"
    BY <1>2
  <2>. HIDE DEF target
  <2>6. File!Seek(off, w)
    BY <1>2, <2>1, <2>2, <2>3, <2>4, <2>5 DEF File!Seek, View, target
  <2>. QED BY <2>1, <2>6 DEF Held
<1>. QED BY <1>3, <1>4

\* Rewind is a rewind, over a failed flush too.
LEMMA RewindStep ==
  ASSUME RInv, Rewind
  PROVE  Settled(s') /\ File!Rewind
<1>. DEFINE k == fseek(s, 0, "SET")
            u == [k EXCEPT !.err = FALSE]
<1>1. Held(s)
  BY DEF RInv, IInv, Held
<1>2. open /\ open' = open /\ s' = u /\ ret' = File!Ok("rewind", << >>)
  BY DEF Rewind, Call, Result, File!Ok
<1>3. 0 \in Int /\ "SET" \in {"SET", "CUR", "END"}
  OBVIOUS
<1>4. CASE ~flush_ok(s)
  <2>1. k = rt_flush_write(s)
    BY <1>4 DEF fseek
  <2>2. /\ Held(k) /\ s.dir = "out" /\ View(k) = k.data /\ File!WrittenBack(s.data, k.data, View(s))
        /\ k.dir = "out" /\ k.buf = << >> /\ k.at \in Nat
    BY <1>1, <1>4, <2>1, FlushFails
  <2>. HIDE DEF k
  <2>3. /\ u.data = k.data /\ u.at = k.at /\ u.dir = k.dir /\ u.buf = k.buf /\ u.pos = k.pos
        /\ u.bufmode = k.bufmode /\ u.err = FALSE
    BY <2>2 DEF Held, Good, Stream
  <2>. HIDE DEF u
  <2>4. Settled(s') /\ View(s') = s'.data
    BY <1>2, <2>2, <2>3, AsideShows DEF Held
  <2>5. File!Lose
    BY <1>2, <2>2, <2>3, <2>4, LosesPending
  <2>6. File!Rewind
    BY <1>2, <2>2, <2>3, <2>5 DEF File!Rewind
  <2>. QED BY <2>4, <2>6
<1>5. CASE flush_ok(s)
  <2>1. SeenOrigin(s, "SET") + 0 = 0
    BY DEF SeenOrigin
  <2>2. /\ Held(k) /\ View(k) = View(s) /\ k.data = View(s) /\ k.dir = "idle" /\ k.ungot = None
        /\ k.eof = FALSE /\ ftell(k) = 0
    <3>1. 0 \in Int /\ "SET" \in {"SET", "CUR", "END"}
      OBVIOUS
    <3>2. /\ Held(k) /\ View(k) = View(s) /\ k.data = View(s) /\ k.dir = "idle" /\ k.ungot = None
          /\ k.eof = FALSE
          /\ SeenOrigin(s, "SET") + 0 >= 0 => ftell(k) = SeenOrigin(s, "SET") + 0
      BY <1>1, <1>5, <3>1, SeekShows
    <3>. HIDE DEF k
    <3>. QED BY <2>1, <3>2
  <2>. HIDE DEF k
  <2>3. /\ u.data = k.data /\ u.at = k.at /\ u.dir = k.dir /\ u.buf = k.buf /\ u.pos = k.pos
        /\ u.bufmode = k.bufmode /\ u.err = FALSE /\ u.ungot = k.ungot /\ u.eof = k.eof
    BY <2>2 DEF Held, Good, Stream
  <2>. HIDE DEF u
  <2>4. Settled(s') /\ View(s') = View(k) /\ ftell(s') = ftell(k)
    BY <1>2, <2>2, <2>3, AsideShows DEF Held
  <2>5. File!None = None
    BY DEF File!None, None
  <2>6. File!Rewind
    BY <1>2, <2>2, <2>3, <2>4, <2>5 DEF File!Rewind, View
  <2>. QED BY <2>4, <2>6
<1>. QED BY <1>4, <1>5

\* Fflush is a flush or a failure.
LEMMA FflushStep ==
  ASSUME RInv, Fflush
  PROVE  Settled(s') /\ (File!Flush \/ File!Failure)
<1>1. Held(s)
  BY DEF RInv, IInv, Held
<1>2. open /\ open' = open /\ s' = rt_flush_write(s)
      /\ ret' = [op |-> "flush", ok |-> flush_ok(s), bytes |-> << >>]
  BY DEF Fflush, Call, Result
<1>3. CASE ~flush_ok(s)
  <2>1. /\ Held(s') /\ View(s') = s'.data /\ File!WrittenBack(s.data, s'.data, View(s))
        /\ s'.err = TRUE /\ s'.dir = "out" /\ s'.buf = << >> /\ s'.at \in Nat
    BY <1>1, <1>2, <1>3, FlushFails
  <2>2. File!Lose
    BY <2>1, LosesPending
  <2>3. ftell(s') >= 0 /\ ~ret'.ok
    BY <1>2, <1>3, <2>1, EmptySeq DEF ftell
  <2>4. File!Failure
    BY <1>2, <2>1, <2>2, <2>3 DEF File!Failure
  <2>. QED BY <2>1, <2>4 DEF Held
<1>4. CASE flush_ok(s)
  <2>1. /\ Held(s') /\ s'.data = View(s) /\ View(s') = View(s) /\ ftell(s') = ftell(s)
        /\ s'.dir = (IF s.dir = "out" THEN "idle" ELSE s.dir)
        /\ s'.ungot = s.ungot /\ s'.err = s.err /\ s'.eof = s.eof
    BY <1>1, <1>2, <1>4, FlushShows
  <2>2. ret' = File!Ok("flush", << >>)
    <3>1. flush_ok(s) = TRUE
      BY <1>4 DEF flush_ok
    <3>. QED BY <1>2, <3>1 DEF File!Ok
  <2>3. File!Flush
    BY <1>2, <2>1, <2>2 DEF File!Flush, View
  <2>. QED BY <2>1, <2>3 DEF Held
<1>. QED BY <1>3, <1>4

\* What a file shows before a stream is opened on it and after one has ended.
LEMMA NewFileShows ==
  ASSUME NEW data, NEW at, NEW up, NEW mode, NEW cap
  PROVE  LET u == NewFile(data, at, up, mode, cap) IN
         /\ u.data = data /\ u.dir = "idle" /\ u.ungot = None /\ u.err = FALSE /\ u.eof = FALSE
         /\ View(u) = data /\ ftell(u) = at /\ Settled(u)
<1>. DEFINE u == NewFile(data, at, up, mode, cap)
<1>1. /\ u.data = data /\ u.at = at /\ u.dir = "idle" /\ u.ungot = None /\ u.err = FALSE
      /\ u.eof = FALSE /\ u.buf = << >>
  BY DEF NewFile
<1>. HIDE DEF u
<1>2. View(u) = data /\ ftell(u) = at /\ Settled(u)
  BY <1>1 DEF View, ftell, Settled
<1>. QED BY <1>1, <1>2 DEF u

\* Fopen is an open: it may cut the file, and starts at one of its ends.
LEMMA FopenStep ==
  ASSUME RInv, NEW c \in {"r", "w", "a"}, NEW plus \in BOOLEAN, Fopen(c, plus)
  PROVE  Settled(s') /\ s'.dir = "idle" /\ File!Open
<1>. DEFINE data == IF c = "w" THEN << >> ELSE s.data
            at   == IF c = "a" THEN Len(data) ELSE 0
<1>1. ~open
  BY DEF Fopen
<1>2. View(s) = s.data
  BY <1>1, NothingPending DEF RInv
<1>3. data \in {View(s), << >>} /\ at \in {0, Len(data)}
  BY <1>2
<1>4. /\ \/ /\ \E cap \in {0, BufSz} : s' = NewFile(data, at, s.up, ModeBits(c, plus), cap)
            /\ open' = TRUE /\ ret' = File!Ok("open", << >>)
         \/ /\ s' = NewFile(data, 0, s.up, {}, 0)
            /\ open' = FALSE /\ ret' = File!Fail("open", << >>)
  BY DEF Fopen, NoStream, Result, File!Ok, File!Fail
<1>. HIDE DEF data, at
<1>5. /\ s'.data = data /\ s'.dir = "idle" /\ s'.ungot = None /\ s'.err = FALSE /\ s'.eof = FALSE
      /\ View(s') = data /\ ftell(s') \in {0, Len(data)} /\ Settled(s')
  <2>1. ASSUME NEW start \in {0, Len(data)}, NEW mode, NEW cap,
               s' = NewFile(data, start, s.up, mode, cap)
        PROVE  /\ s'.data = data /\ s'.dir = "idle" /\ s'.ungot = None /\ s'.err = FALSE
               /\ s'.eof = FALSE
               /\ View(s') = data /\ ftell(s') \in {0, Len(data)} /\ Settled(s')
    <3>. DEFINE u == NewFile(data, start, s.up, mode, cap)
    <3>1. /\ u.data = data /\ u.dir = "idle" /\ u.ungot = None /\ u.err = FALSE /\ u.eof = FALSE
          /\ View(u) = data /\ ftell(u) = start /\ Settled(u)
      BY NewFileShows
    <3>2. s' = u
      BY <2>1
    <3>. HIDE DEF u
    <3>. QED BY <3>1, <3>2
  <2>2. CASE s' = NewFile(data, 0, s.up, {}, 0)
    BY <2>1, <2>2
  <2>3. CASE \E cap \in {0, BufSz} : s' = NewFile(data, at, s.up, ModeBits(c, plus), cap)
    BY <1>3, <2>1, <2>3
  <2>. QED BY <1>4, <2>2, <2>3
<1>6. File!None = None
  BY DEF File!None, None
<1>7. File!Open
  BY <1>1, <1>3, <1>4, <1>5, <1>6 DEF File!Open, View
<1>. QED BY <1>5, <1>7

\* Fclose and ExitProcess end a stream in order or fail; Killed just ends it.
LEMMA EndStep ==
  ASSUME RInv, Fclose \/ ExitProcess \/ Killed
  PROVE  Settled(s') /\ s'.dir = "idle" /\ (File!CloseOk \/ File!CloseFailed)
<1>1. Held(s) /\ s \in Stream /\ s.data \in Seq(Byte) /\ View(s) \in Seq(Byte)
  BY Fields, ViewType DEF RInv, IInv, Held, Good
<1>2. ASSUME NEW op, NEW t, NEW ok, End(op, t, ok)
      PROVE  /\ open /\ open' = FALSE /\ ret' = [op |-> op, ok |-> ok, bytes |-> << >>]
             /\ s'.data = t.data /\ View(s') = s'.data /\ s'.dir = "idle" /\ Settled(s')
  <2>1. s' = NewFile(t.data, 0, t.up, {}, 0)
    BY <1>2 DEF End, NoStream
  <2>. DEFINE u == NewFile(t.data, 0, t.up, {}, 0)
  <2>2. u.data = t.data /\ u.dir = "idle" /\ u.buf = << >>
    BY DEF NewFile
  <2>3. s' = u
    BY <2>1
  <2>4. open /\ open' = FALSE /\ ret' = [op |-> op, ok |-> ok, bytes |-> << >>]
    BY <1>2 DEF End, Result
  <2>. HIDE DEF u
  <2>. QED BY <2>2, <2>3, <2>4 DEF View, Settled
<1>3. CASE Killed
  <2>1. /\ open /\ open' = FALSE /\ ret' = [op |-> "kill", ok |-> FALSE, bytes |-> << >>]
        /\ s'.data = s.data /\ View(s') = s'.data /\ s'.dir = "idle" /\ Settled(s')
    BY <1>2, <1>3 DEF Killed
  <2>2. File!WrittenBack(s.data, s'.data, View(s))
    BY <1>1, <2>1, WrittenSame
  <2>3. File!Lose
    BY <2>1, <2>2, LosesPending
  <2>4. ret'.op \in {"close", "exit", "kill"} /\ ~ret'.ok
    BY <2>1
  <2>5. File!CloseFailed
    BY <2>1, <2>3, <2>4 DEF File!CloseFailed
  <2>. QED BY <2>1, <2>5
<1>4. CASE Fclose \/ ExitProcess
  <2>. DEFINE f == rt_flush_write(s)
  <2>1. PICK op \in {"close", "exit"} : End(op, f, flush_ok(s))
    BY <1>4 DEF Fclose, ExitProcess
  <2>2. /\ open /\ open' = FALSE /\ ret' = [op |-> op, ok |-> flush_ok(s), bytes |-> << >>]
        /\ s'.data = f.data /\ View(s') = s'.data /\ s'.dir = "idle" /\ Settled(s')
    BY <1>2, <2>1
  <2>3. CASE flush_ok(s)
    <3>1. f.data = View(s)
      BY <1>1, <2>3, FlushShows
    <3>2. flush_ok(s) = TRUE
      BY <2>3 DEF flush_ok
    <3>3. ret' \in {File!Ok("close", << >>), File!Ok("exit", << >>)}
      BY <2>2, <3>2 DEF File!Ok
    <3>4. File!CloseOk
      BY <2>2, <3>1, <3>3 DEF File!CloseOk, View
    <3>. QED BY <2>2, <3>4
  <2>4. CASE ~flush_ok(s)
    <3>1. File!WrittenBack(s.data, f.data, View(s))
      BY <1>1, <2>4, FlushFails
    <3>2. File!Lose
      BY <2>2, <3>1, LosesPending
    <3>3. ret'.op \in {"close", "exit", "kill"} /\ ~ret'.ok
      BY <2>2, <2>4
    <3>4. File!CloseFailed
      BY <2>2, <3>2, <3>3 DEF File!CloseFailed
    <3>. QED BY <2>2, <3>4
  <2>. QED BY <2>3, <2>4
<1>. QED BY <1>3, <1>4

\* The device's coming and going is no step of the file at all.
LEMMA DeviceStep ==
  ASSUME RInv, Device
  PROVE  Settled(s') /\ UNCHANGED File!vars
<1>. DEFINE u == [s EXCEPT !.up = ~@]
<1>1. s \in Stream /\ Settled(s)
  BY DEF RInv, IInv, Good
<1>2. s' = u /\ UNCHANGED <<open, ret>>
  BY DEF Device
<1>3. /\ u.data = s.data /\ u.at = s.at /\ u.dir = s.dir /\ u.buf = s.buf /\ u.pos = s.pos
      /\ u.ungot = s.ungot /\ u.eof = s.eof /\ u.err = s.err /\ u.bufmode = s.bufmode
  BY <1>1 DEF Stream
<1>. HIDE DEF u
<1>4. View(s') = View(s) /\ Settled(s') /\ ftell(s') = ftell(s)
  BY <1>1, <1>2, <1>3, AsideShows
<1>. QED BY <1>2, <1>3, <1>4 DEF File!vars, View

(* ---- the refinement ---- *)

\* The initial states of a stream are those of the file.
LEMMA RInit == Init => RInv /\ File!Init
<1>. SUFFICES ASSUME Init PROVE RInv /\ File!Init
  OBVIOUS
<1>1. IInv
  BY InitIInv
<1>2. PICK data \in Content0 : s = NewFile(data, 0, TRUE, {}, 0)
  BY DEF Init, NoStream
<1>3. open = FALSE /\ ret = File!Ok("none", << >>)
  BY DEF Init, Ok, File!Ok
<1>. DEFINE u == NewFile(data, 0, TRUE, {}, 0)
<1>4. /\ u.data = data /\ u.at = 0 /\ u.dir = "idle" /\ u.ungot = None /\ u.err = FALSE
      /\ u.eof = FALSE /\ u.buf = << >>
  BY DEF NewFile
<1>5. s = u
  BY <1>2
<1>. HIDE DEF u
<1>6. ftell(s) = 0 /\ Settled(s) /\ View(s) = data
  BY <1>4, <1>5 DEF ftell, Settled, View
<1>7. File!None = None
  BY DEF File!None, None
<1>8. File!Init
  BY <1>3, <1>4, <1>5, <1>6, <1>7 DEF File!Init, View
<1>. QED BY <1>1, <1>4, <1>5, <1>6, <1>8 DEF RInv

\* Every step of a stream is a step of the file, or none: one lemma for each
\* of its calls.
LEMMA RNext == RInv /\ [Next]_vars => RInv' /\ [File!Next]_(File!vars)
<1>. SUFFICES ASSUME RInv, [Next]_vars PROVE RInv' /\ [File!Next]_(File!vars)
  OBVIOUS
<1>1. IInv'
  BY NextIInv DEF RInv
<1>. DEFINE Maps == Settled(s') /\ (~open' => s'.dir = "idle") /\ [File!Next]_(File!vars)
<1>2. SUFFICES Maps
  BY <1>1 DEF RInv, Settled
<1>3. ASSUME NEW c \in {"r", "w", "a"}, NEW plus \in BOOLEAN, Fopen(c, plus) PROVE Maps
  BY <1>3, FopenStep DEF File!Next
<1>4. ASSUME NEW p \in Payload, Put(p) PROVE Maps
  <2>1. open'
    BY <1>4 DEF Put, Call
  <2>. QED BY <1>4, <2>1, PutStep DEF File!Next
<1>5. CASE Get
  <2>1. open'
    BY <1>5 DEF Get, Call
  <2>. QED BY <1>5, <2>1, GetStep DEF File!Next
<1>6. ASSUME NEW want \in 0 .. BufSz + 1, Fread(want) PROVE Maps
  <2>1. open'
    BY <1>6 DEF Fread, Call
  <2>. QED BY <1>6, <2>1, FreadStep DEF File!Next
<1>7. ASSUME NEW c \in Byte, Ungetc(c) PROVE Maps
  <2>1. open'
    BY <1>7 DEF Ungetc, Call
  <2>. QED BY <1>7, <2>1, AsideStep DEF File!Next
<1>8. ASSUME NEW off \in Offset, NEW w \in {"SET", "CUR", "END"}, Fseek(off, w) PROVE Maps
  <2>1. open'
    BY <1>8 DEF Fseek, Call
  <2>. QED BY <1>8, <2>1, FseekStep DEF File!Next
<1>9. CASE Rewind
  <2>1. open'
    BY <1>9 DEF Rewind, Call
  <2>. QED BY <1>9, <2>1, RewindStep DEF File!Next
<1>10. CASE Fflush
  <2>1. open'
    BY <1>10 DEF Fflush, Call
  <2>. QED BY <1>10, <2>1, FflushStep DEF File!Next
<1>11. CASE Clearerr
  <2>1. open'
    BY <1>11 DEF Clearerr, Call
  <2>. QED BY <1>11, <2>1, AsideStep DEF File!Next
<1>12. ASSUME NEW m \in {"full", "line", "none"}, Setvbuf(m) PROVE Maps
  <2>1. open'
    BY <1>12 DEF Setvbuf, Call
  <2>. QED BY <1>12, <2>1, AsideStep DEF File!Next
<1>13. CASE Fclose \/ ExitProcess \/ Killed
  BY <1>13, EndStep DEF File!Next
<1>14. CASE Device
  <2>1. s'.dir = s.dir /\ open' = open
    BY <1>14 DEF RInv, IInv, Good, Stream, Device
  <2>. QED BY <1>14, <2>1, DeviceStep DEF RInv
<1>15. CASE UNCHANGED vars
  <2>1. s' = s /\ open' = open /\ ret' = ret
    BY <1>15 DEF vars
  <2>2. Settled(s') /\ (~open' => s'.dir = "idle")
    BY <2>1 DEF RInv
  <2>3. UNCHANGED File!vars
    BY <2>1 DEF File!vars
  <2>. QED BY <2>2, <2>3
<1>. QED BY <1>3, <1>4, <1>5, <1>6, <1>7, <1>8, <1>9, <1>10, <1>11, <1>12, <1>13, <1>14, <1>15
     DEF Next

(* A buffered stream is a file without a buffer.  In every sequence of calls,
   over devices that fill up, go away and come back, and ends that are orderly
   or not, what the caller reads, where ftell says it stands, what it may lose
   and when the error flag tells it so are what ByteFile.tla allows: rt_fill,
   rt_drop_read, rt_flush_write, fseek and fread agree on what the buffer means. *)
THEOREM StreamImplementsFile == Spec => ImplementsFile
<1>1. Init => RInv /\ File!Init
  BY RInit
<1>2. RInv /\ [Next]_vars => RInv' /\ [File!Next]_(File!vars)
  BY RNext
<1>. QED BY <1>1, <1>2, PTL DEF Spec, ImplementsFile, File!Spec
=============================================================================
