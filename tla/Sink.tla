--------------------------------- MODULE Sink ---------------------------------
(***************************************************************************)
(* rt/rt_format.c: the sink behind the printf family.  It is handed pieces *)
(* of text and writes them into memory of a given size, or to a stream,    *)
(* which may take less of a piece than it is given.  The text is what C    *)
(* calls the output; the sink keeps what fits.  Here a directive may hand  *)
(* over any pieces; Format.tla says which.                                 *)
(***************************************************************************)
EXTENDS Chars, SequenceTheorems, TLAPS

VARIABLES cap,          \* the size of the memory written to, or -1 if it is a stream
          pieces,       \* what the directive in hand has still to hand over
          text,         \* all that was handed over: its length is want
          out,          \* what the stream took, or the memory from out on
          failed,       \* a stream took less
          counts,       \* what %n stored
          ret,          \* what the function returned
          phase         \* "format" or "done"

sinkVars == <<cap, pieces, text, out, failed, counts, ret, phase>>

toStream == cap = -1
Idle == phase = "format" /\ pieces = << >>

\* What memory keeps of a piece: it leaves room for the terminator.
Kept_over(piece) == SubSeq(piece, 1, Min({Len(piece), Max({cap + 1 - Len(text), 0})}))
Kept(piece) == SubSeq(piece, 1, Min({Len(piece), Max({cap - 1 - Len(text), 0})}))

sink_bytes ==
  /\ phase = "format" /\ pieces # << >>
  /\ LET piece == Head(pieces)
     IN  /\ \/ /\ toStream
               /\ \E n \in 0..Len(piece) :
                    out' = out \o SubSeq(piece, 1, n) /\ failed' = (failed \/ n < Len(piece))
            \/ ~toStream /\ out' = out \o Kept(piece) /\ UNCHANGED failed
         /\ text' = text \o piece
  /\ pieces' = Tail(pieces)
  /\ UNCHANGED <<cap, counts, ret, phase>>

HandOver(ps) == Idle /\ pieces' = ps /\ UNCHANGED <<cap, text, out, failed, counts, ret, phase>>

\* %n counts what was made, kept or not.
CountMade ==
  Idle /\ counts' = Append(counts, Len(text)) /\ UNCHANGED <<cap, pieces, text, out, failed, ret, phase>>

\* The end: memory, if there is any, gets its terminator.
Terminate ==
  /\ Idle
  /\ out' = IF cap > 0 THEN SubSeq(out, 1, Min({Len(text), cap - 1})) \o <<"nul">> ELSE out
  /\ ret' = (IF failed THEN -1 ELSE Len(text)) /\ phase' = "done"
  /\ UNCHANGED <<cap, pieces, text, failed, counts>>

Cleared == pieces = << >> /\ text = << >> /\ out = << >> /\ failed = FALSE /\ counts = << >> /\ ret = 0

\* A program that prints into memory of any size or to a stream, or not at all.
SinkInit ==
  /\ cap \in Nat \cup {-1} /\ Cleared
  /\ phase = "format" \/ (phase = "done" /\ cap = 0)

SinkNext ==
  \/ sink_bytes \/ CountMade \/ Terminate
  \/ pieces' \in Seq(Seq(Char)) /\ HandOver(pieces')

SinkSpec == SinkInit /\ [][SinkNext]_sinkVars

SinkTypeOK ==
  /\ text \in Seq(Char) /\ out \in Seq(Char)
  /\ failed \in BOOLEAN /\ ret \in -1..Len(text) /\ phase \in {"format", "done"}

\* snprintf returns the length of the whole output, whatever fits, and the
\* memory holds as much of it as there is room for before a terminator; a
\* stream's printf returns -1 exactly when the stream took less than it was given.
OutputFits ==
  /\ ~toStream => Len(out) <= Max({cap, 0})
  /\ phase = "done" =>
    IF toStream THEN ret = IF Len(out) < Len(text) THEN -1 ELSE Len(text)
    ELSE /\ ret = Len(text)
         /\ out = IF cap = 0 THEN << >> ELSE SubSeq(text, 1, Min({Len(text), cap - 1})) \o <<"nul">>

(***************************************************************************)
(* The sink keeps what fits, of every output, in every memory.             *)
(***************************************************************************)

(* ---- lesser and greater ---- *)

LEMMA MinIs ==
  ASSUME NEW x \in Int, NEW y \in Int
  PROVE  Min({x, y}) = IF x <= y THEN x ELSE y
<1>. DEFINE m == Min({x, y})
<1>1. \E z \in {x, y} : \A w \in {x, y} : z <= w
  <2>1. x <= y => \A w \in {x, y} : x <= w
    OBVIOUS
  <2>2. ~(x <= y) => \A w \in {x, y} : y <= w
    OBVIOUS
  <2>. QED BY <2>1, <2>2
<1>2. m \in {x, y} /\ \A w \in {x, y} : m <= w
  BY <1>1 DEF Min
<1>3. m \in Int /\ (m = x \/ m = y) /\ m <= x /\ m <= y
  BY <1>2
<1>. HIDE DEF m
<1>4. m = IF x <= y THEN x ELSE y
  BY ONLY <1>3, x \in Int, y \in Int
<1>. QED BY <1>4 DEF m

LEMMA MaxIs ==
  ASSUME NEW x \in Int, NEW y \in Int
  PROVE  Max({x, y}) = IF x >= y THEN x ELSE y
<1>. DEFINE m == Max({x, y})
<1>1. \E z \in {x, y} : \A w \in {x, y} : z >= w
  <2>1. x >= y => \A w \in {x, y} : x >= w
    OBVIOUS
  <2>2. ~(x >= y) => \A w \in {x, y} : y >= w
    OBVIOUS
  <2>. QED BY <2>1, <2>2
<1>2. m \in {x, y} /\ \A w \in {x, y} : m >= w
  BY <1>1 DEF Max
<1>3. m \in Int /\ (m = x \/ m = y) /\ m >= x /\ m >= y
  BY <1>2
<1>. HIDE DEF m
<1>4. m = IF x >= y THEN x ELSE y
  BY ONLY <1>3, x \in Int, y \in Int
<1>. QED BY <1>4 DEF m

(* ---- the front of a text ---- *)

\* The first n characters, or all of them.
Leading(t, n) == SubSeq(t, 1, Min({Len(t), n}))

\* How much of n is left after a text.
Left(t, n) == IF Len(t) <= n THEN n - Len(t) ELSE 0

LEMMA LeadingIs ==
  ASSUME NEW t \in Seq(Char), NEW n \in Nat
  PROVE  /\ Leading(t, n) \in Seq(Char)
         /\ Len(Leading(t, n)) = IF Len(t) <= n THEN Len(t) ELSE n
         /\ \A i \in 1..Len(Leading(t, n)) : Leading(t, n)[i] = t[i]
<1>. DEFINE k == IF Len(t) <= n THEN Len(t) ELSE n
<1>1. Len(t) \in Nat /\ k \in Nat /\ k <= Len(t)
  OBVIOUS
<1>2. Leading(t, n) = SubSeq(t, 1, k)
  BY <1>1, MinIs DEF Leading
<1>3. \A i \in 1..k : t[i] \in Char
  BY <1>1
<1>. HIDE DEF k
<1>4. /\ SubSeq(t, 1, k) \in Seq(Char)
      /\ Len(SubSeq(t, 1, k)) = IF 1 <= k THEN k - 1 + 1 ELSE 0
      /\ \A i \in 1..(k - 1 + 1) : SubSeq(t, 1, k)[i] = t[1 + i - 1]
  BY <1>1, <1>3, SubSeqProperties
<1>5. Len(SubSeq(t, 1, k)) = k /\ \A i \in 1..k : SubSeq(t, 1, k)[i] = t[i]
  BY <1>1, <1>4
<1>. QED BY <1>2, <1>4, <1>5 DEF k

\* The front of a text and what room is left for of the next piece are the front of both.
LEMMA LeadingGrows ==
  ASSUME NEW t \in Seq(Char), NEW q \in Seq(Char), NEW n \in Nat
  PROVE  Leading(t, n) \o Leading(q, Left(t, n)) = Leading(t \o q, n)
<1>. DEFINE r == Left(t, n)
            a == Leading(t, n)
            b == Leading(q, r)
            u == t \o q
            c == Leading(u, n)
<1>1. Len(t) \in Nat /\ Len(q) \in Nat
  OBVIOUS
<1>0. r \in Nat /\ r = IF Len(t) <= n THEN n - Len(t) ELSE 0
  BY <1>1 DEF Left
<1>. HIDE DEF r
<1>2. /\ a \in Seq(Char) /\ Len(a) = (IF Len(t) <= n THEN Len(t) ELSE n)
      /\ \A i \in 1..Len(a) : a[i] = t[i]
  BY LeadingIs
<1>3. /\ b \in Seq(Char) /\ Len(b) = (IF Len(q) <= r THEN Len(q) ELSE r)
      /\ \A i \in 1..Len(b) : b[i] = q[i]
  BY <1>0, LeadingIs
<1>4. /\ u \in Seq(Char) /\ Len(u) = Len(t) + Len(q)
      /\ \A i \in 1..(Len(t) + Len(q)) : u[i] = IF i <= Len(t) THEN t[i] ELSE q[i - Len(t)]
  BY ConcatProperties
<1>. HIDE DEF u
<1>5. /\ c \in Seq(Char) /\ Len(c) = (IF Len(u) <= n THEN Len(u) ELSE n)
      /\ \A i \in 1..Len(c) : c[i] = u[i]
  BY <1>4, LeadingIs
<1>. HIDE DEF a, b, c
<1>6. /\ a \o b \in Seq(Char) /\ Len(a \o b) = Len(a) + Len(b)
      /\ \A i \in 1..(Len(a) + Len(b)) : (a \o b)[i] = IF i <= Len(a) THEN a[i] ELSE b[i - Len(a)]
  BY <1>2, <1>3, ConcatProperties
<1>7. Len(a) + Len(b) = Len(c)
  <2>1. /\ Len(t) \in Nat /\ Len(q) \in Nat /\ Len(a) = (IF Len(t) <= n THEN Len(t) ELSE n)
        /\ Len(b) = (IF Len(q) <= r THEN Len(q) ELSE r)
        /\ Len(c) = (IF Len(t) + Len(q) <= n THEN Len(t) + Len(q) ELSE n)
    BY <1>1, <1>2, <1>3, <1>4, <1>5
  <2>2. CASE Len(t) <= n
    <3>1. Len(a) = Len(t) /\ r = n - Len(t)
      BY <1>0, <2>1, <2>2
    <3>. QED BY ONLY <2>1, <2>2, <3>1, n \in Nat, <1>0
  <2>3. CASE ~(Len(t) <= n)
    <3>1. Len(a) = n /\ r = 0
      BY <1>0, <2>1, <2>3
    <3>. QED BY ONLY <2>1, <2>3, <3>1, n \in Nat, <1>0
  <2>. QED BY <2>2, <2>3
<1>8. ASSUME NEW i \in 1..Len(c) PROVE (a \o b)[i] = c[i]
  <2>1. c[i] = u[i] /\ i \in 1..(Len(t) + Len(q)) /\ i \in 1..(Len(a) + Len(b))
    BY ONLY <1>1, <1>4, <1>5, <1>7, i \in 1..Len(c), n \in Nat
  <2>2. CASE i <= Len(a)
    <3>1. i \in 1..Len(a) /\ i <= Len(t)
      BY ONLY <1>1, <1>2, <2>1, <2>2, n \in Nat
    <3>. QED BY ONLY <1>2, <1>4, <1>6, <2>1, <2>2, <3>1
  <2>3. CASE ~(i <= Len(a))
    <3>1. Len(a) = Len(t) /\ i - Len(a) \in 1..Len(b) /\ ~(i <= Len(t))
      <4>1. /\ Len(a) = (IF Len(t) <= n THEN Len(t) ELSE n) /\ Len(c) <= n /\ Len(c) \in Nat
            /\ Len(b) \in Nat
        BY <1>1, <1>2, <1>3, <1>4, <1>5
      <4>2. Len(t) <= n /\ Len(a) = Len(t)
        BY ONLY <4>1, <1>1, <2>3, i \in 1..Len(c), n \in Nat
      <4>. QED BY ONLY <4>1, <4>2, <1>1, <1>7, <2>3, i \in 1..Len(c)
    <3>. QED BY ONLY <1>3, <1>4, <1>6, <2>1, <2>3, <3>1
  <2>. QED BY <2>2, <2>3
<1>9. a \o b = c
  BY ONLY <1>5, <1>6, <1>7, <1>8, SeqEqual
<1>. QED BY <1>9 DEF a, b, c, u, r

(* ---- the invariant ---- *)

\* The characters memory has room for, besides the terminator.
Usable == IF cap > 0 THEN cap - 1 ELSE 0

SinkInv ==
  /\ SinkTypeOK /\ cap \in Nat \cup {-1} /\ pieces \in Seq(Seq(Char))
  /\ toStream => Len(out) <= Len(text) /\ (failed <=> Len(out) < Len(text))
  /\ ~toStream => ~failed
  /\ ~toStream /\ phase = "format" => out = Leading(text, Usable)
  /\ phase = "format" => ret = 0
  /\ phase = "done" => OutputFits

LEMMA KeptIsLeading ==
  ASSUME SinkInv, ~toStream, NEW q \in Seq(Char)
  PROVE  Kept(q) = Leading(q, Left(text, Usable))
<1>. DEFINE z == IF cap - 1 - Len(text) >= 0 THEN cap - 1 - Len(text) ELSE 0
<1>1. cap \in Nat /\ Len(text) \in Nat
  BY DEF SinkInv, SinkTypeOK, toStream
<1>2. Max({cap - 1 - Len(text), 0}) = z /\ z \in Nat
  <2>1. cap - 1 - Len(text) \in Int /\ 0 \in Int
    BY <1>1
  <2>. QED BY <2>1, MaxIs
<1>3. z = Left(text, Usable)
  BY <1>1 DEF Usable, Left
<1>. QED BY <1>2, <1>3 DEF Kept, Leading

LEMMA WrittenFits ==
  ASSUME SinkInv, sink_bytes
  PROVE  SinkInv'
<1>. DEFINE q == Head(pieces)
<1>1. q \in Seq(Char) /\ Tail(pieces) \in Seq(Seq(Char))
  BY HeadTailProperties DEF SinkInv, sink_bytes
<1>2. /\ phase = "format" /\ phase' = phase /\ cap' = cap /\ ret' = ret /\ ret = 0
      /\ text' = text \o q /\ pieces' \in Seq(Seq(Char))
  BY <1>1 DEF SinkInv, sink_bytes
<1>. /\ text \in Seq(Char) /\ out \in Seq(Char) /\ failed \in BOOLEAN
     /\ Len(text) \in Nat /\ Len(out) \in Nat /\ Len(q) \in Nat
  BY <1>1 DEF SinkInv, SinkTypeOK
<1>3. text' \in Seq(Char) /\ Len(text') = Len(text) + Len(q)
  BY <1>1, <1>2, ConcatProperties
<1>4. CASE toStream
  <2>1. PICK n \in 0..Len(q) : out' = out \o SubSeq(q, 1, n) /\ failed' = (failed \/ n < Len(q))
    BY <1>4 DEF sink_bytes
  <2>2. SubSeq(q, 1, n) \in Seq(Char) /\ Len(SubSeq(q, 1, n)) = n
    <3>1. n \in Nat /\ \A i \in 1..n : q[i] \in Char
      BY <1>1
    <3>2. /\ SubSeq(q, 1, n) \in Seq(Char)
          /\ Len(SubSeq(q, 1, n)) = IF 1 <= n THEN n - 1 + 1 ELSE 0
      BY <3>1, SubSeqProperties
    <3>. QED BY <3>1, <3>2
  <2>3. out' \in Seq(Char) /\ Len(out') = Len(out) + n
    BY <2>1, <2>2, ConcatProperties
  <2>4. Len(out) <= Len(text) /\ (failed <=> Len(out) < Len(text))
    BY <1>4 DEF SinkInv
  <2>5. Len(out') <= Len(text') /\ (failed' <=> Len(out') < Len(text')) /\ failed' \in BOOLEAN
    <3>1. Len(out) + n <= Len(text) + Len(q)
      BY <2>4
    <3>2. (Len(out) < Len(text) \/ n < Len(q)) <=> Len(out) + n < Len(text) + Len(q)
      BY <2>4
    <3>3. failed' <=> (Len(out) < Len(text) \/ n < Len(q))
      BY <2>1, <2>4
    <3>. QED BY <1>3, <2>1, <2>3, <3>1, <3>2, <3>3
  <2>6. 0 \in -1..Len(text')
    BY <1>3
  <2>. QED BY <1>2, <1>3, <1>4, <2>3, <2>5, <2>6 DEF SinkInv, SinkTypeOK, toStream
<1>5. CASE ~toStream
  <2>1. out' = out \o Kept(q) /\ failed' = failed
    BY <1>5 DEF sink_bytes
  <2>2. Kept(q) = Leading(q, Left(text, Usable))
    BY <1>1, <1>5, KeptIsLeading
  <2>3. out = Leading(text, Usable) /\ Usable \in Nat /\ Usable' = Usable
    BY <1>2, <1>5 DEF SinkInv, Usable, toStream
  <2>4. out' = Leading(text', Usable')
    <3>1. Leading(text, Usable) \o Leading(q, Left(text, Usable)) = Leading(text \o q, Usable)
      <4>1. text \in Seq(Char) /\ q \in Seq(Char) /\ Usable \in Nat
        BY <1>1, <2>3
      <4>. HIDE DEF q
      <4>. QED BY ONLY <4>1, LeadingGrows
    <3>. QED BY ONLY <1>2, <2>1, <2>2, <2>3, <3>1
  <2>5. out' \in Seq(Char)
    BY <1>3, <2>3, <2>4, LeadingIs
  <2>6. 0 \in -1..Len(text')
    BY <1>3
  <2>. QED BY <1>2, <1>3, <1>5, <2>1, <2>4, <2>5, <2>6 DEF SinkInv, SinkTypeOK, toStream
<1>. QED BY <1>4, <1>5

LEMMA EndFits ==
  ASSUME SinkInv, Terminate
  PROVE  SinkInv'
<1>1. /\ phase = "format" /\ phase' = "done" /\ cap' = cap /\ pieces' = pieces
      /\ text' = text /\ failed' = failed
      /\ out' = (IF cap > 0 THEN SubSeq(out, 1, Min({Len(text), cap - 1})) \o <<"nul">> ELSE out)
      /\ ret' = (IF failed THEN -1 ELSE Len(text))
  BY DEF Terminate, Idle
<1>. /\ text \in Seq(Char) /\ out \in Seq(Char) /\ failed \in BOOLEAN
     /\ Len(text) \in Nat /\ Len(out) \in Nat /\ cap \in Nat \cup {-1}
  BY DEF SinkInv, SinkTypeOK
<1>2. ret' \in -1..Len(text')
  BY <1>1
<1>3. CASE toStream
  <2>1. cap = -1 /\ out' = out /\ (failed <=> Len(out) < Len(text)) /\ Len(out) <= Len(text)
    BY <1>1, <1>3 DEF SinkInv, toStream
  <2>2. OutputFits'
    BY <1>1, <2>1 DEF OutputFits, toStream
  <2>. QED BY <1>1, <1>2, <2>1, <2>2 DEF SinkInv, SinkTypeOK, toStream
<1>4. CASE ~toStream
  <2>1. ~failed /\ out = Leading(text, Usable) /\ cap \in Nat /\ ret' = Len(text)
    BY <1>1, <1>4 DEF SinkInv, toStream
  <2>2. CASE cap = 0
    <3>1. out' = << >>
      <4>1. Usable = 0 /\ out' = out
        BY <1>1, <2>2 DEF Usable
      <4>2. out \in Seq(Char) /\ Len(out) = 0
        BY <2>1, <4>1, LeadingIs
      <4>. QED BY <4>1, <4>2
    <3>2. Max({cap, 0}) = 0
      BY <2>2, MaxIs
    <3>3. OutputFits'
      BY <1>1, <1>4, <2>1, <2>2, <3>1, <3>2 DEF OutputFits, toStream
    <3>4. << >> \in Seq(Char)
      OBVIOUS
    <3>. QED BY <1>1, <1>2, <1>4, <2>1, <3>1, <3>3, <3>4 DEF SinkInv, SinkTypeOK, toStream
  <2>3. CASE cap # 0
    <3>. DEFINE n == cap - 1
                k == IF Len(text) <= n THEN Len(text) ELSE n
                a == SubSeq(text, 1, Min({Len(text), n}))
    <3>1. n \in Nat /\ Usable = n /\ cap > 0
      BY <2>1, <2>3 DEF Usable
    <3>2. a = out /\ a \in Seq(Char) /\ Len(a) = k /\ k <= n
      <4>1. out = Leading(text, n) /\ a = Leading(text, n)
        BY <2>1, <3>1 DEF Leading
      <4>2. Leading(text, n) \in Seq(Char) /\ Len(Leading(text, n)) = k
        BY <3>1, LeadingIs
      <4>. HIDE DEF a
      <4>. QED BY <3>1, <4>1, <4>2
    <3>3. Min({Len(text), n}) = k
      BY <3>1, MinIs
    <3>. HIDE DEF a
    <3>4. SubSeq(out, 1, k) = a
      <4>1. k \in Nat /\ Len(out) = k /\ \A i \in 1..k : out[i] \in Char
        BY <3>1, <3>2
      <4>. HIDE DEF k, n
      <4>2. /\ SubSeq(out, 1, k) \in Seq(Char)
            /\ Len(SubSeq(out, 1, k)) = IF 1 <= k THEN k - 1 + 1 ELSE 0
            /\ \A i \in 1..(k - 1 + 1) : SubSeq(out, 1, k)[i] = out[1 + i - 1]
        BY <4>1, SubSeqProperties
      <4>3. Len(SubSeq(out, 1, k)) = Len(out) /\ \A i \in 1..Len(SubSeq(out, 1, k)) : SubSeq(out, 1, k)[i] = out[i]
        BY <4>1, <4>2
      <4>4. SubSeq(out, 1, k) = out
        BY ONLY <4>2, <4>3, out \in Seq(Char), SeqEqual
      <4>. QED BY <3>2, <4>4
    <3>5. out' = a \o <<"nul">>
      BY <1>1, <3>1, <3>3, <3>4
    <3>6. <<"nul">> \in Seq(Char) /\ Len(<<"nul">>) = 1
      BY DEF Char, Code
    <3>7. out' \in Seq(Char) /\ Len(out') = k + 1
      BY <3>2, <3>5, <3>6, ConcatProperties
    <3>8. Max({cap, 0}) = cap /\ k + 1 <= cap
      BY <2>1, <3>1, <3>2, MaxIs
    <3>9. OutputFits'
      BY <1>1, <1>4, <2>1, <2>3, <3>5, <3>7, <3>8 DEF OutputFits, toStream, a
    <3>. QED BY <1>1, <1>2, <1>4, <2>1, <3>7, <3>9 DEF SinkInv, SinkTypeOK, toStream
  <2>. QED BY <2>2, <2>3
<1>. QED BY <1>3, <1>4

LEMMA SinkInvHolds == SinkSpec => []SinkInv
<1>1. SinkInit => SinkInv
  <2>. SUFFICES ASSUME SinkInit PROVE SinkInv
    BY DEF SinkInit
  <2>1. /\ cap \in Nat \cup {-1} /\ pieces = << >> /\ text = << >> /\ out = << >> /\ failed = FALSE /\ ret = 0
        /\ (phase = "format" \/ (phase = "done" /\ cap = 0))
    BY DEF SinkInit, Cleared
  <2>2. << >> \in Seq(Char) /\ Len(<< >>) = 0 /\ << >> \in Seq(Seq(Char)) /\ 0 \in -1..0
    OBVIOUS
  <2>3. out = Leading(text, Usable)
    <3>1. Usable \in Nat /\ text \in Seq(Char) /\ Len(text) = 0 /\ out = << >>
      BY <2>1, <2>2 DEF Usable
    <3>2. Leading(text, Usable) \in Seq(Char) /\ Len(Leading(text, Usable)) = 0
      <4>1. Leading(text, Usable) \in Seq(Char)
            /\ Len(Leading(text, Usable)) = IF Len(text) <= Usable THEN Len(text) ELSE Usable
        BY ONLY <3>1, LeadingIs
      <4>. QED BY ONLY <3>1, <4>1
    <3>3. Leading(text, Usable) = << >>
      BY ONLY <3>2
    <3>. QED BY ONLY <3>1, <3>3
  <2>4. phase = "done" => OutputFits
    <3>1. Max({0, 0}) = 0
      BY MaxIs
    <3>. QED BY <2>1, <2>2, <3>1 DEF OutputFits, toStream
  <2>5. SinkTypeOK
    BY <2>1, <2>2 DEF SinkTypeOK
  <2>6. toStream => Len(out) <= Len(text) /\ (failed <=> Len(out) < Len(text))
    BY <2>1, <2>2
  <2>. QED BY <2>1, <2>2, <2>3, <2>4, <2>5, <2>6 DEF SinkInv
<1>2. SinkInv /\ [SinkNext]_sinkVars => SinkInv'
  <2>. SUFFICES ASSUME SinkInv, [SinkNext]_sinkVars PROVE SinkInv'
    OBVIOUS
  <2>1. CASE sink_bytes
    BY <2>1, WrittenFits
  <2>2. CASE CountMade
    BY <2>2 DEF CountMade, Idle, SinkInv, SinkTypeOK, OutputFits, Leading, Usable, toStream
  <2>3. CASE Terminate
    BY <2>3, EndFits
  <2>4. CASE pieces' \in Seq(Seq(Char)) /\ HandOver(pieces')
    BY <2>4 DEF HandOver, Idle, SinkInv, SinkTypeOK, OutputFits, Leading, Usable, toStream
  <2>5. CASE UNCHANGED sinkVars
    BY <2>5 DEF sinkVars, SinkInv, SinkTypeOK, OutputFits, Leading, Usable, toStream
  <2>. QED BY <2>1, <2>2, <2>3, <2>4, <2>5 DEF SinkNext
<1>. QED BY <1>1, <1>2, PTL DEF SinkSpec

\* In every state of every call of the printf family, whatever pieces its format
\* hands over and whatever the stream takes of them: what is written fits, and what
\* the call returns and leaves is what C99 7.19.6.5 says.
THEOREM SinkKeepsWhatFits == SinkSpec => []OutputFits
<1>1. SinkInv => OutputFits
  <2>. SUFFICES ASSUME SinkInv PROVE OutputFits
    OBVIOUS
  <2>1. CASE phase = "done"
    BY <2>1 DEF SinkInv
  <2>2. CASE phase # "done"
    <3>1. ASSUME ~toStream PROVE Len(out) <= Max({cap, 0})
      <4>1. phase = "format" /\ cap \in Nat /\ text \in Seq(Char)
        BY <2>2, <3>1 DEF SinkInv, SinkTypeOK, toStream
      <4>2. out = Leading(text, Usable) /\ Usable \in Nat /\ Usable <= cap
        BY <3>1, <4>1 DEF SinkInv, Usable
      <4>3. Len(out) <= Usable
        BY <4>1, <4>2, LeadingIs
      <4>4. Max({cap, 0}) = cap
        BY <4>1, MaxIs
      <4>. QED BY <4>1, <4>2, <4>3, <4>4
    <3>. QED BY <2>2, <3>1 DEF OutputFits
  <2>. QED BY <2>1, <2>2
<1>. QED BY <1>1, SinkInvHolds, PTL
=============================================================================
