---------------------------- MODULE LayoutProofs ----------------------------
(***************************************************************************)
(* Every struct and every union is laid out soundly, whatever its members, *)
(* however many, and however many bits a byte has.                         *)
(***************************************************************************)
EXTENDS Layout, SequenceTheorems, TLAPS

\* The alignments of the target's scalars (CType.typeAlign), and so of every type.
Alignments == {1, 2, 4, 8}

\* A member as the walk asks its type, of which a bit-field has no more bits than
\* a unit (C99 6.7.2.1p3).  Names and types play no part.
Member ==
  {m \in [width : -1 .. UnitBits, complete : BOOLEAN, size : Nat, align : Alignments, off : {0}, bit : {0}] :
     m.width >= 0 => m.complete}

VARIABLES isUnion, st

\* The walk over the members, of which the struct's last alone may be a flexible
\* array (C99 6.7.2.1p2).
Flexible == st.laid # << >> /\ ~st.laid[Len(st.laid)].complete
WalkInit == isUnion \in BOOLEAN /\ st = Fresh
WalkNext ==
  /\ ~Flexible
  /\ \E m \in Member : st' = Place(isUnion, st, m)
  /\ UNCHANGED isUnion
WalkSpec == WalkInit /\ [][WalkNext]_<<isUnion, st>>

\* What tagSetMembers records once the members are placed.
Whole == [isUnion |-> isUnion, members |-> st.laid, align |-> st.align, size |-> TotalSize(isUnion, st)]
WholeIsSound == Sound(Whole)

(* ---- the invariant ---- *)

Laid ==
  [width : -1 .. UnitBits, complete : BOOLEAN, size : Nat, align : Alignments, off : Nat, bit : Nat]
WalkType ==
  [off : Nat, align : Alignments, size : Nat,
   unit : [open : BOOLEAN, off : Nat, bits : Nat], laid : Seq(Laid)]

\* The first bit that is free.
Frontier(s) == IF s.unit.open THEN s.unit.off * ByteBits + s.unit.bits ELSE s.off * ByteBits

UnitRight(s, u) ==
  s.unit.open => ~u /\ s.unit.off % UnitBytes = 0 /\ 0 < s.unit.bits /\ s.unit.bits <= UnitBits

\* A placed member is aligned, no stricter than its struct, and behind the frontier.
PlacedRight(f, s, u) ==
  /\ f.off % Granule(f) = 0 /\ Granule(f) \in Alignments /\ Granule(f) <= s.align
  /\ f.width > 0 => f.bit + f.width <= UnitBits
  /\ f.complete => PastBit(f) <= IF u THEN s.size * ByteBits ELSE Frontier(s)

\* All placed members are, each begins where those before it have ended, and
\* none but the last is a flexible array.
Right(s, u) ==
  /\ s \in WalkType /\ UnitRight(s, u)
  /\ \A k \in 1 .. Len(s.laid) : PlacedRight(s.laid[k], s, u)
  /\ \A k \in 1 .. Len(s.laid) : k < Len(s.laid) => s.laid[k].complete
  /\ \A j, k \in 1 .. Len(s.laid) : j < k /\ ~u => PastBit(s.laid[j]) <= FirstBit(s.laid[k])

WalkInv == isUnion \in BOOLEAN /\ Right(st, isUnion)

(* ---- numbers ---- *)

LEMMA Bits ==
  /\ ByteBits \in Nat /\ ByteBits >= 1 /\ UnitBytes = 4 /\ UnitBits = 4 * ByteBits
  /\ UnitBits \in Nat /\ UnitBits >= 4
  /\ \A a \in Nat : a * ByteBits \in Nat /\ (a + 4) * ByteBits = a * ByteBits + UnitBits
  /\ \A a, b \in Nat : a <= b => a * ByteBits <= b * ByteBits
BY ByteBitsAssumption DEF UnitBits, UnitBytes

LEMMA AlignedUp ==
  ASSUME NEW x \in Nat, NEW a \in Alignments
  PROVE  alignUp(x, a) \in Nat /\ x <= alignUp(x, a) /\ alignUp(x, a) % a = 0
<1>1. CASE a = 1
  BY <1>1 DEF alignUp
<1>2. CASE a = 2
  BY <1>2 DEF alignUp
<1>3. CASE a = 4
  BY <1>3 DEF alignUp
<1>4. CASE a = 8
  BY <1>4 DEF alignUp
<1>. QED BY <1>1, <1>2, <1>3, <1>4 DEF Alignments

LEMMA AlignmentsDivide ==
  \A a, b \in Alignments : a <= b => b % a = 0
BY DEF Alignments

LEMMA LargerIs ==
  \A a, b \in Int : Larger(a, b) \in {a, b} /\ a <= Larger(a, b) /\ b <= Larger(a, b)
BY DEF Larger

LEMMA PlaceOfBits ==
  ASSUME NEW f \in Laid
  PROVE  FirstBit(f) \in Nat /\ PastBit(f) \in Nat
<1>1. /\ f.off \in Nat /\ f.bit \in Nat /\ f.width \in Int /\ f.size \in Nat /\ f.align \in Nat
  BY Bits DEF Laid, Alignments
<1>. DEFINE size == IF f.complete THEN f.size ELSE f.align
<1>2. f.off + size \in Nat
  BY <1>1
<1>. HIDE DEF size
<1>3. f.off * ByteBits \in Nat /\ (f.off + size) * ByteBits \in Nat
  BY <1>1, <1>2, Bits
<1>. QED BY <1>1, <1>3 DEF FirstBit, PastBit, size

LEMMA FrontierIs ==
  ASSUME NEW s \in WalkType, NEW u, UnitRight(s, u)
  PROVE  /\ Frontier(s) \in Nat /\ PastUnit(s) \in Nat
         /\ Frontier(s) <= PastUnit(s) * ByteBits
         /\ ~s.unit.open => Frontier(s) = s.off * ByteBits /\ PastUnit(s) = s.off
<1>1. s.off \in Nat /\ s.unit.off \in Nat /\ s.unit.bits \in Nat /\ s.unit.open \in BOOLEAN
  BY DEF WalkType
<1>2. CASE s.unit.open
  <2>1. PastUnit(s) = s.unit.off + 4 /\ Frontier(s) = s.unit.off * ByteBits + s.unit.bits
        /\ s.unit.bits <= UnitBits
    BY <1>2 DEF PastUnit, Frontier, UnitRight, UnitBytes
  <2>2. /\ s.unit.off * ByteBits \in Nat /\ UnitBits \in Nat
        /\ (s.unit.off + 4) * ByteBits = s.unit.off * ByteBits + UnitBits
    BY <1>1, Bits
  <2>. QED BY <1>1, <1>2, <2>1, <2>2
<1>3. CASE ~s.unit.open
  BY <1>1, <1>3, Bits DEF PastUnit, Frontier
<1>. QED BY <1>2, <1>3

(* ---- the steps ---- *)

\* What was placed stays right while the frontier moves on.
LEMMA StaysRight ==
  ASSUME NEW s \in WalkType, NEW t \in WalkType, NEW u \in BOOLEAN, UnitRight(s, u), UnitRight(t, u),
         s.align <= t.align, s.size <= t.size, Frontier(s) <= Frontier(t),
         NEW f \in Laid, PlacedRight(f, s, u)
  PROVE  PlacedRight(f, t, u)
<1>1. /\ Granule(f) \in Nat /\ s.align \in Nat /\ t.align \in Nat /\ s.size \in Nat /\ t.size \in Nat
  <2>1. Granule(f) \in Alignments /\ s.align \in Alignments /\ t.align \in Alignments
    BY DEF WalkType, PlacedRight
  <2>2. s.size \in Nat /\ t.size \in Nat
    BY DEF WalkType
  <2>. QED BY <2>1, <2>2 DEF Alignments
<1>2. Granule(f) <= t.align
  BY <1>1 DEF PlacedRight
<1>3. Frontier(s) \in Nat /\ Frontier(t) \in Nat /\ PastBit(f) \in Nat
  BY FrontierIs, PlaceOfBits
<1>4. s.size * ByteBits <= t.size * ByteBits /\ s.size * ByteBits \in Nat /\ t.size * ByteBits \in Nat
  BY <1>1, Bits
<1>5. f.complete => PastBit(f) <= IF u THEN t.size * ByteBits ELSE Frontier(t)
  BY <1>3, <1>4 DEF PlacedRight
<1>. QED BY <1>2, <1>5 DEF PlacedRight

\* A member placed at or past the frontier.
LEMMA Grown ==
  ASSUME NEW s, NEW u \in BOOLEAN, Right(s, u),
         \A k \in 1 .. Len(s.laid) : s.laid[k].complete,
         NEW t \in WalkType, UnitRight(t, u), NEW g \in Laid, t.laid = Append(s.laid, g),
         s.align <= t.align, s.size <= t.size, Frontier(s) <= Frontier(t),
         PlacedRight(g, t, u), ~u => Frontier(s) <= FirstBit(g)
  PROVE  Right(t, u)
<1>. DEFINE n == Len(s.laid)
<1>1. s \in WalkType /\ UnitRight(s, u) /\ s.laid \in Seq(Laid) /\ n \in Nat
  BY DEF Right, WalkType
<1>2. /\ Len(t.laid) = n + 1 /\ t.laid[n + 1] = g
      /\ \A k \in 1 .. n : t.laid[k] = s.laid[k] /\ s.laid[k] \in Laid
  BY <1>1
<1>3. \A k \in 1 .. n + 1 : k = n + 1 \/ k \in 1 .. n
  BY <1>1
<1>4. ASSUME NEW k \in 1 .. n PROVE PlacedRight(s.laid[k], s, u) /\ s.laid[k].complete
  BY DEF Right
<1>. HIDE DEF n
<1>5. ASSUME NEW k \in 1 .. n + 1 PROVE PlacedRight(t.laid[k], t, u)
  <2>1. CASE k = n + 1
    BY <1>2, <2>1
  <2>2. CASE k \in 1 .. n
    BY <1>1, <1>2, <1>4, <2>2, StaysRight
  <2>. QED BY <1>3, <2>1, <2>2
<1>6. ASSUME NEW j \in 1 .. n + 1, NEW k \in 1 .. n + 1, j < k, ~u
      PROVE  PastBit(t.laid[j]) <= FirstBit(t.laid[k])
  <2>1. j \in 1 .. n
    BY <1>1, <1>6
  <2>2. CASE k = n + 1
    <3>1. PastBit(s.laid[j]) <= Frontier(s)
      BY <1>4, <1>6, <2>1 DEF PlacedRight
    <3>2. Frontier(s) \in Nat /\ PastBit(s.laid[j]) \in Nat /\ FirstBit(g) \in Nat
      BY <1>1, <1>2, <2>1, FrontierIs, PlaceOfBits
    <3>. QED BY <1>2, <1>6, <2>1, <2>2, <3>1, <3>2
  <2>3. CASE k \in 1 .. n
    BY <1>2, <1>6, <2>1, <2>3 DEF Right, n
  <2>. QED BY <1>3, <2>2, <2>3
<1>7. \A k \in 1 .. n + 1 : k < n + 1 => t.laid[k].complete
  BY <1>1, <1>2, <1>4
<1>. QED BY <1>2, <1>5, <1>6, <1>7 DEF Right

\* What a placed member is.
LEMMA PlacedIs ==
  ASSUME NEW m \in Member, m.width # 0, NEW o \in Nat, NEW b \in Nat
  PROVE  /\ Placed(m, o, b) \in Laid
         /\ Placed(m, o, b).off = o /\ Placed(m, o, b).bit = b
         /\ Placed(m, o, b).width = m.width /\ Placed(m, o, b).complete = m.complete
         /\ Placed(m, o, b).size = m.size /\ Placed(m, o, b).align = m.align
BY DEF Placed, Member, Laid

LEMMA MemberIs ==
  ASSUME NEW m \in Member
  PROVE  /\ m.width \in -1 .. UnitBits /\ m.size \in Nat /\ m.align \in Alignments /\ m.complete \in BOOLEAN
         /\ m.width >= 0 => m.complete
BY DEF Member

LEMMA CloseUnitRight ==
  ASSUME NEW s, NEW u \in BOOLEAN, Right(s, u)
  PROVE  Right(CloseUnit(s), u)
<1>. DEFINE t == CloseUnit(s)
<1>1. s \in WalkType /\ UnitRight(s, u)
  BY DEF Right
<1>2. PastUnit(s) \in Nat /\ Frontier(s) \in Nat
  BY <1>1, FrontierIs
<1>3. /\ t \in WalkType /\ ~t.unit.open /\ t.laid = s.laid /\ t.align = s.align /\ t.size = s.size
      /\ t.off = IF s.unit.bits > 0 THEN PastUnit(s) ELSE s.off
  BY <1>1, <1>2 DEF CloseUnit, WalkType, NoUnit
<1>. HIDE DEF t
<1>4. UnitRight(t, u)
  BY <1>3 DEF UnitRight
<1>5. Frontier(t) = t.off * ByteBits
  BY <1>3, <1>4, FrontierIs
<1>6. Frontier(s) <= Frontier(t)
  <2>1. CASE s.unit.bits > 0
    BY <1>1, <1>3, <1>5, <2>1, FrontierIs
  <2>2. CASE ~(s.unit.bits > 0) /\ s.unit.open
    BY <1>1, <2>2 DEF UnitRight
  <2>3. CASE ~(s.unit.bits > 0) /\ ~s.unit.open
    BY <1>1, <1>3, <1>5, <2>3, FrontierIs
  <2>. QED BY <2>1, <2>2, <2>3
<1>7. s.align \in Nat /\ s.size \in Nat
  BY <1>1 DEF WalkType, Alignments
<1>8. \A k \in 1 .. Len(s.laid) : s.laid[k] \in Laid
  BY <1>1 DEF WalkType
<1>9. \A k \in 1 .. Len(s.laid) : PlacedRight(s.laid[k], t, u)
  BY <1>1, <1>3, <1>4, <1>6, <1>7, <1>8, StaysRight DEF Right
<1>. QED BY <1>3, <1>4, <1>9 DEF Right, t

LEMMA UnitForIs ==
  ASSUME NEW s \in WalkType, NEW u, UnitRight(s, u), NEW m \in Member, m.width > 0
  PROVE  LET v == UnitFor(s, m) IN
         /\ v.off \in Nat /\ v.bits \in Nat /\ v.off % UnitBytes = 0 /\ v.bits + m.width <= UnitBits
         /\ Frontier(s) <= v.off * ByteBits + v.bits
<1>. DEFINE v == UnitFor(s, m)
<1>1. s.off \in Nat /\ s.unit.off \in Nat /\ s.unit.bits \in Nat /\ s.unit.open \in BOOLEAN
  BY DEF WalkType
<1>2. m.width \in Nat /\ m.width <= UnitBits
  BY Bits, MemberIs
<1>3. Frontier(s) \in Nat /\ PastUnit(s) \in Nat /\ Frontier(s) <= PastUnit(s) * ByteBits
  BY FrontierIs
<1>4. CASE ~s.unit.open \/ ~(s.unit.bits + m.width <= UnitBits)
  <2>1. v = Unit(alignUp(PastUnit(s), UnitBytes), 0)
    BY <1>4 DEF UnitFor, PastUnit
  <2>2. v.off = alignUp(PastUnit(s), UnitBytes) /\ v.bits = 0
    BY <2>1 DEF Unit
  <2>3. UnitBytes \in Alignments
    BY Bits DEF Alignments
  <2>4. v.off \in Nat /\ PastUnit(s) <= v.off /\ v.off % UnitBytes = 0
    BY <1>3, <2>2, <2>3, AlignedUp
  <2>. HIDE DEF v
  <2>5. PastUnit(s) * ByteBits <= v.off * ByteBits /\ v.off * ByteBits \in Nat /\ PastUnit(s) * ByteBits \in Nat
    BY <1>3, <2>4, Bits
  <2>. QED BY <1>2, <1>3, <2>2, <2>4, <2>5 DEF v
<1>5. CASE s.unit.open /\ s.unit.bits + m.width <= UnitBits
  <2>1. v = s.unit
    BY <1>5 DEF UnitFor
  <2>2. Frontier(s) = v.off * ByteBits + v.bits
    BY <1>5, <2>1 DEF Frontier
  <2>. QED BY <1>1, <1>3, <1>5, <2>1, <2>2 DEF UnitRight
<1>. QED BY <1>4, <1>5

\* No member of s is a flexible array.
AllComplete(s) == \A k \in 1 .. Len(s.laid) : s.laid[k].complete

LEMMA BitFieldRight ==
  ASSUME NEW s, NEW u \in BOOLEAN, Right(s, u), AllComplete(s), NEW m \in Member, m.width > 0
  PROVE  Right(PlaceBitField(u, s, m), u)
<1>. DEFINE t == PlaceBitField(u, s, m)
<1>1. s \in WalkType /\ UnitRight(s, u) /\ s.laid \in Seq(Laid)
  BY DEF Right, WalkType
<1>2. /\ m.width \in Nat /\ m.width <= UnitBits /\ m.complete /\ m.width # 0
      /\ m.align \in Alignments /\ m.align \in Nat /\ UnitBytes \in Alignments
  BY Bits, MemberIs DEF Alignments
<1>3. s.align \in Alignments /\ s.align \in Nat /\ s.size \in Nat
  BY <1>1 DEF WalkType, Alignments
<1>. DEFINE wide == Larger(UnitBytes, s.align)
<1>4. wide \in Alignments /\ wide \in Nat /\ s.align <= wide /\ UnitBytes <= wide
  BY <1>2, <1>3, Bits, LargerIs
<1>5. CASE u
  <2>. DEFINE g == Placed(m, 0, 0)
              size == Larger(UnitBytes, s.size)
  <2>1. /\ g \in Laid /\ g.off = 0 /\ g.bit = 0 /\ g.width = m.width /\ g.complete /\ g.align = m.align
    BY <1>2, PlacedIs
  <2>2. size \in Nat /\ s.size <= size /\ UnitBytes <= size
    BY <1>3, Bits, LargerIs
  <2>3. t = [s EXCEPT !.align = wide, !.size = size, !.laid = Append(@, g)]
    BY <1>5 DEF PlaceBitField
  <2>. HIDE DEF g, size, wide
  <2>4. /\ t \in WalkType /\ t.laid = Append(s.laid, g) /\ t.align = wide /\ t.size = size
        /\ t.unit = s.unit /\ t.off = s.off
    <3>1. Append(s.laid, g) \in Seq(Laid)
      BY <1>1, <2>1
    <3>. QED BY <1>1, <1>4, <2>2, <2>3, <3>1 DEF WalkType
  <2>. HIDE DEF t
  <2>5. UnitRight(t, u) /\ Frontier(t) = Frontier(s) /\ Frontier(s) \in Nat
    BY <1>1, <2>4, FrontierIs DEF UnitRight, Frontier
  <2>6. PlacedRight(g, t, u)
    <3>1. UnitBits <= size * ByteBits
      <4>1. 4 * ByteBits <= size * ByteBits
        BY <2>2, Bits
      <4>. QED BY <4>1, Bits
    <3>2. PastBit(g) = m.width
      <4>1. 0 * ByteBits = 0
        BY Bits
      <4>. QED BY <1>2, <2>1, <4>1 DEF PastBit
    <3>3. size * ByteBits \in Nat
      BY <2>2, Bits
    <3>. QED BY <1>2, <1>4, <1>5, <2>1, <2>4, <3>1, <3>2, <3>3, Bits DEF PlacedRight, Granule
  <2>7. s.align <= t.align /\ s.size <= t.size /\ Frontier(s) <= Frontier(t)
    BY <1>4, <2>2, <2>4, <2>5
  <2>8. Right(t, u)
    BY <1>5, <2>1, <2>4, <2>5, <2>6, <2>7, Grown DEF AllComplete
  <2>. QED BY <2>8 DEF t
<1>6. CASE ~u
  <2>. DEFINE v == UnitFor(s, m)
              g == Placed(m, v.off, v.bits)
  <2>1. /\ v.off \in Nat /\ v.bits \in Nat /\ v.off % UnitBytes = 0 /\ v.bits + m.width <= UnitBits
        /\ Frontier(s) <= v.off * ByteBits + v.bits
    BY <1>1, UnitForIs
  <2>2. t = [s EXCEPT !.align = wide, !.unit = Unit(v.off, v.bits + m.width), !.laid = Append(@, g)]
    BY <1>6 DEF PlaceBitField
  <2>. HIDE DEF v
  <2>3. /\ g \in Laid /\ g.off = v.off /\ g.bit = v.bits /\ g.width = m.width /\ g.complete /\ g.align = m.align
    BY <1>2, <2>1, PlacedIs
  <2>. HIDE DEF g, wide
  <2>4. /\ t \in WalkType /\ t.laid = Append(s.laid, g) /\ t.align = wide /\ t.size = s.size
        /\ t.unit.open /\ t.unit.off = v.off /\ t.unit.bits = v.bits + m.width
    <3>1. Append(s.laid, g) \in Seq(Laid)
      BY <1>1, <2>3
    <3>. DEFINE w == Unit(v.off, v.bits + m.width)
                l == Append(s.laid, g)
    <3>2. v.bits + m.width \in Nat
      BY <1>2, <2>1
    <3>3. /\ w \in [open : BOOLEAN, off : Nat, bits : Nat]
          /\ w.open /\ w.off = v.off /\ w.bits = v.bits + m.width
      BY <2>1, <3>2 DEF Unit
    <3>4. t = [s EXCEPT !.align = wide, !.unit = w, !.laid = l]
      BY <2>2
    <3>. HIDE DEF w, l, t
    <3>5. t \in WalkType /\ t.laid = l /\ t.align = wide /\ t.size = s.size /\ t.unit = w
      BY ONLY <1>1, <1>4, <3>1, <3>3, <3>4 DEF WalkType, l
    <3>. QED BY <3>3, <3>5 DEF l
  <2>. HIDE DEF t
  <2>5. UnitRight(t, u)
    BY <1>2, <1>6, <2>1, <2>4 DEF UnitRight
  <2>6. v.off * ByteBits \in Nat /\ Frontier(s) \in Nat
    BY <1>1, <2>1, Bits, FrontierIs
  <2>7. /\ Frontier(t) = v.off * ByteBits + (v.bits + m.width)
        /\ PastBit(g) = v.off * ByteBits + v.bits + m.width
        /\ FirstBit(g) = v.off * ByteBits + v.bits
    BY <1>2, <2>3, <2>4 DEF Frontier, PastBit, FirstBit
  <2>8. Frontier(s) <= Frontier(t) /\ PastBit(g) <= Frontier(t) /\ Frontier(s) <= FirstBit(g)
    BY <1>2, <2>1, <2>6, <2>7
  <2>9. PlacedRight(g, t, u)
    BY <1>2, <1>4, <1>6, <2>1, <2>3, <2>4, <2>8, Bits DEF PlacedRight, Granule
  <2>. QED BY <1>1, <1>3, <1>4, <2>3, <2>4, <2>5, <2>8, <2>9, Grown DEF AllComplete, t
<1>. QED BY <1>5, <1>6

\* A member that is no bit-field begins where its alignment allows, past the
\* open unit.
LEMMA ObjectAt ==
  ASSUME NEW s \in WalkType, NEW u \in BOOLEAN, UnitRight(s, u), NEW a \in Alignments
  PROVE  LET at == alignUp(PastUnit(s), a) IN
         /\ at \in Nat /\ at % a = 0 /\ PastUnit(s) \in Nat /\ PastUnit(s) <= at
         /\ Frontier(s) \in Nat /\ PastUnit(s) * ByteBits \in Nat /\ at * ByteBits \in Nat
         /\ Frontier(s) <= PastUnit(s) * ByteBits /\ PastUnit(s) * ByteBits <= at * ByteBits
<1>. DEFINE q == PastUnit(s)
            at == alignUp(q, a)
<1>1. q \in Nat /\ Frontier(s) \in Nat /\ Frontier(s) <= q * ByteBits
  BY FrontierIs
<1>. HIDE DEF q
<1>2. at \in Nat /\ q <= at /\ at % a = 0
  BY <1>1, AlignedUp
<1>. HIDE DEF at
<1>3. q * ByteBits \in Nat /\ at * ByteBits \in Nat /\ q * ByteBits <= at * ByteBits
  BY <1>1, <1>2, Bits
<1>. QED BY <1>1, <1>2, <1>3 DEF at, q

LEMMA IncompleteRight ==
  ASSUME NEW s, NEW u \in BOOLEAN, Right(s, u), AllComplete(s),
         NEW m \in Member, m.width = -1, ~m.complete
  PROVE  Right(PlaceIncomplete(s, m), u)
<1>. DEFINE t == PlaceIncomplete(s, m)
            q == PastUnit(s)
            at == alignUp(q, m.align)
            g == Placed(m, at, 0)
            wide == Larger(m.align, s.align)
            l == Append(s.laid, g)
<1>1. s \in WalkType /\ UnitRight(s, u) /\ s.laid \in Seq(Laid)
  BY DEF Right, WalkType
<1>2. m.align \in Alignments /\ m.align \in Int /\ s.align \in Alignments /\ s.align \in Int /\ s.size \in Nat
  BY <1>1, MemberIs DEF WalkType, Alignments
<1>3. /\ at \in Nat /\ at % m.align = 0 /\ q \in Nat /\ Frontier(s) \in Nat
      /\ q * ByteBits \in Nat /\ at * ByteBits \in Nat
      /\ Frontier(s) <= q * ByteBits /\ q * ByteBits <= at * ByteBits
  BY <1>1, <1>2, ObjectAt
<1>4. wide \in Alignments /\ s.align <= wide /\ m.align <= wide
  BY <1>2, LargerIs
<1>5. t = [s EXCEPT !.off = q, !.align = wide, !.unit = NoUnit, !.laid = l]
  BY DEF PlaceIncomplete
<1>. HIDE DEF q, at
<1>6. /\ g \in Laid /\ g.off = at /\ g.width = -1 /\ ~g.complete /\ g.align = m.align
  BY <1>3, PlacedIs
<1>. HIDE DEF g, wide
<1>7. l \in Seq(Laid)
  BY <1>1, <1>6
<1>. HIDE DEF l, t
<1>8. /\ t \in WalkType /\ t.laid = l /\ t.align = wide /\ t.size = s.size /\ ~t.unit.open /\ t.off = q
  BY ONLY <1>1, <1>3, <1>4, <1>5, <1>7 DEF WalkType, NoUnit
<1>9. UnitRight(t, u)
  BY <1>8 DEF UnitRight
<1>10. Frontier(t) = q * ByteBits /\ FirstBit(g) = at * ByteBits
  <2>1. FirstBit(g) = at * ByteBits + 0
    BY <1>6 DEF FirstBit
  <2>. QED BY <1>3, <1>8, <2>1 DEF Frontier
<1>11. PlacedRight(g, t, u)
  BY <1>2, <1>3, <1>4, <1>6, <1>8 DEF PlacedRight, Granule
<1>12. s.align <= t.align /\ s.size <= t.size /\ Frontier(s) <= Frontier(t) /\ Frontier(s) <= FirstBit(g)
  BY <1>2, <1>3, <1>4, <1>8, <1>10
<1>13. t.laid = Append(s.laid, g)
  BY <1>8 DEF l
<1>14. Right(t, u)
  BY <1>6, <1>8, <1>9, <1>11, <1>12, <1>13, Grown DEF AllComplete
<1>. QED BY <1>14 DEF t

LEMMA ObjectRight ==
  ASSUME NEW s, NEW u \in BOOLEAN, Right(s, u), AllComplete(s),
         NEW m \in Member, m.width = -1, m.complete
  PROVE  Right(PlaceMember(u, s, m), u)
<1>. DEFINE t == PlaceMember(u, s, m)
            q == PastUnit(s)
            up == alignUp(q, m.align)
            at == IF u THEN 0 ELSE up
            off == IF u THEN q ELSE at + m.size
            size == IF u THEN Larger(m.size, s.size) ELSE s.size
            g == Placed(m, at, 0)
            wide == Larger(m.align, s.align)
            l == Append(s.laid, g)
<1>1. s \in WalkType /\ UnitRight(s, u) /\ s.laid \in Seq(Laid)
  BY DEF Right, WalkType
<1>2. m.align \in Alignments /\ s.align \in Alignments /\ s.size \in Nat /\ m.size \in Nat
  BY <1>1, MemberIs DEF WalkType
<1>3. m.align \in Nat /\ m.align >= 1 /\ s.align \in Nat
  BY <1>2 DEF Alignments
<1>4. /\ up \in Nat /\ up % m.align = 0 /\ q \in Nat /\ Frontier(s) \in Nat
      /\ q * ByteBits \in Nat /\ up * ByteBits \in Nat
      /\ Frontier(s) <= q * ByteBits /\ q * ByteBits <= up * ByteBits
  BY <1>1, <1>2, ObjectAt
<1>5. wide \in Alignments /\ s.align <= wide /\ m.align <= wide
  BY <1>2, <1>3, LargerIs
<1>6. /\ t = [s EXCEPT !.off = off, !.align = wide, !.size = size, !.unit = NoUnit, !.laid = l]
  BY DEF PlaceMember
<1>. HIDE DEF q, up
<1>7. at \in Nat /\ at % m.align = 0
  <2>1. 0 % m.align = 0
    BY <1>2 DEF Alignments
  <2>. QED BY <1>4, <2>1
<1>8. off \in Nat /\ size \in Nat /\ s.size <= size /\ (u => m.size <= size)
  BY <1>2, <1>4, <1>7, LargerIs
<1>9. (u => at = 0 /\ off = q) /\ (~u => at = up /\ off = up + m.size)
  OBVIOUS
<1>. HIDE DEF at, off, size
<1>10. /\ g \in Laid /\ g.off = at /\ g.bit = 0 /\ g.width = -1 /\ g.complete /\ g.align = m.align /\ g.size = m.size
  BY <1>7, PlacedIs
<1>. HIDE DEF g, wide
<1>11. l \in Seq(Laid)
  BY <1>1, <1>10
<1>. HIDE DEF l, t
<1>12. /\ t \in WalkType /\ t.laid = l /\ t.align = wide /\ t.size = size /\ ~t.unit.open /\ t.off = off
  BY ONLY <1>1, <1>5, <1>6, <1>8, <1>11 DEF WalkType, NoUnit
<1>13. UnitRight(t, u)
  BY <1>12 DEF UnitRight
<1>14. /\ Frontier(t) = off * ByteBits /\ FirstBit(g) = at * ByteBits
       /\ PastBit(g) = (at + m.size) * ByteBits
  <2>1. FirstBit(g) = at * ByteBits + 0 /\ at * ByteBits \in Nat
    BY <1>7, <1>10, Bits DEF FirstBit
  <2>. QED BY <1>10, <1>12, <2>1 DEF Frontier, PastBit
<1>15. Frontier(s) <= Frontier(t)
  <2>1. CASE u
    BY <1>4, <1>9, <1>14, <2>1
  <2>2. CASE ~u
    <3>1. up * ByteBits <= off * ByteBits /\ off * ByteBits \in Nat
      BY <1>2, <1>4, <1>8, <1>9, <2>2, Bits
    <3>. QED BY <1>4, <1>14, <3>1
  <2>. QED BY <2>1, <2>2
<1>16. PastBit(g) <= IF u THEN t.size * ByteBits ELSE Frontier(t)
  <2>1. CASE u
    <3>1. at + m.size = m.size
      BY <1>2, <1>9, <2>1
    <3>2. m.size * ByteBits <= size * ByteBits
      BY <1>2, <1>8, <2>1, Bits
    <3>. QED BY <1>12, <1>14, <2>1, <3>1, <3>2
  <2>2. CASE ~u
    <3>1. off * ByteBits \in Nat /\ at + m.size = off
      BY <1>8, <1>9, <2>2, Bits
    <3>. QED BY <1>14, <2>2, <3>1
  <2>. QED BY <2>1, <2>2
<1>17. PlacedRight(g, t, u)
  BY <1>2, <1>5, <1>7, <1>10, <1>12, <1>16 DEF PlacedRight, Granule
<1>18. ~u => Frontier(s) <= FirstBit(g)
  BY <1>4, <1>9, <1>14
<1>19. s.align <= t.align /\ s.size <= t.size /\ t.laid = Append(s.laid, g)
  BY <1>5, <1>8, <1>12 DEF l
<1>20. Right(t, u)
  BY <1>10, <1>12, <1>13, <1>15, <1>17, <1>18, <1>19, Grown DEF AllComplete
<1>. QED BY <1>20 DEF t

\* One member more, whatever it is.
LEMMA PlaceRight ==
  ASSUME NEW s, NEW u \in BOOLEAN, Right(s, u), AllComplete(s), NEW m \in Member
  PROVE  Right(Place(u, s, m), u)
<1>1. CASE m.width = 0
  BY <1>1, CloseUnitRight DEF Place
<1>2. CASE m.width > 0
  BY <1>2, BitFieldRight DEF Place
<1>3. CASE m.width = -1 /\ m.complete
  BY <1>3, ObjectRight DEF Place
<1>4. CASE m.width = -1 /\ ~m.complete
  BY <1>4, IncompleteRight DEF Place
<1>5. m.width = 0 \/ m.width > 0 \/ m.width = -1
  BY MemberIs, Bits
<1>. QED BY <1>1, <1>2, <1>3, <1>4, <1>5

(* ---- the whole ---- *)

LEMMA RightIsSound ==
  ASSUME isUnion \in BOOLEAN, Right(st, isUnion)
  PROVE  WholeIsSound
<1>. DEFINE s == st
            u == isUnion
            size == TotalSize(u, s)
<1>1. s \in WalkType /\ UnitRight(s, u) /\ s.laid \in Seq(Laid) /\ s.align \in Alignments /\ s.size \in Nat
  BY DEF Right, WalkType
<1>2. PastUnit(s) \in Nat /\ Frontier(s) \in Nat /\ Frontier(s) <= PastUnit(s) * ByteBits
  BY <1>1, FrontierIs
<1>. DEFINE x == IF u THEN s.size ELSE PastUnit(s)
<1>3. size \in Nat /\ x \in Nat /\ x <= size /\ size % s.align = 0
  BY <1>1, <1>2, AlignedUp DEF TotalSize
<1>. HIDE DEF size
<1>4. x * ByteBits <= size * ByteBits /\ x * ByteBits \in Nat /\ size * ByteBits \in Nat
  <2>. HIDE DEF x
  <2>. QED BY <1>3, Bits
<1>5. ASSUME NEW k \in 1 .. Len(s.laid)
      PROVE  /\ PlacedRight(s.laid[k], s, u) /\ s.laid[k] \in Laid
             /\ FirstBit(s.laid[k]) \in Nat /\ PastBit(s.laid[k]) \in Nat
             /\ s.laid[k].complete => PastBit(s.laid[k]) <= size * ByteBits
  <2>1. PlacedRight(s.laid[k], s, u) /\ s.laid[k] \in Laid
    BY <1>1 DEF Right
  <2>2. FirstBit(s.laid[k]) \in Nat /\ PastBit(s.laid[k]) \in Nat
    BY <2>1, PlaceOfBits
  <2>3. s.laid[k].complete => PastBit(s.laid[k]) <= x * ByteBits
    <3>1. CASE u
      BY <2>1, <3>1 DEF PlacedRight
    <3>2. CASE ~u
      <4>1. s.laid[k].complete => PastBit(s.laid[k]) <= Frontier(s)
        BY <2>1, <3>2 DEF PlacedRight
      <4>2. x = PastUnit(s)
        BY <3>2
      <4>3. PastUnit(s) * ByteBits \in Nat
        BY <1>2, Bits
      <4>. HIDE DEF x
      <4>. QED BY <1>2, <2>2, <4>1, <4>2, <4>3
    <3>. QED BY <3>1, <3>2
  <2>. HIDE DEF x
  <2>. QED BY <1>4, <2>1, <2>2, <2>3
<1>6. ASSUME NEW k \in 1 .. Len(s.laid)
      PROVE  /\ s.laid[k].off % Granule(s.laid[k]) = 0 /\ s.align % Granule(s.laid[k]) = 0
             /\ s.laid[k].complete => BitsOf(s.laid[k]) \subseteq 0 .. size * ByteBits - 1
             /\ s.laid[k].width > 0 => s.laid[k].bit + s.laid[k].width <= UnitBits
             /\ \A j \in 1 .. k - 1 : ~u => BitsOf(s.laid[k]) \cap BitsOf(s.laid[j]) = {}
  <2>. DEFINE f == s.laid[k]
  <2>1. Granule(f) \in Alignments /\ Granule(f) <= s.align
    BY <1>5 DEF PlacedRight
  <2>2. s.align % Granule(f) = 0
    BY <1>1, <2>1, AlignmentsDivide
  <2>3. f.complete => BitsOf(f) \subseteq 0 .. size * ByteBits - 1
    <3>1. /\ FirstBit(f) \in Nat /\ PastBit(f) \in Nat
          /\ f.complete => PastBit(f) <= size * ByteBits
      BY <1>5
    <3>. HIDE DEF f
    <3>. QED BY <1>4, <3>1 DEF BitsOf
  <2>4. ASSUME NEW j \in 1 .. k - 1, ~u PROVE BitsOf(f) \cap BitsOf(s.laid[j]) = {}
    <3>. DEFINE g == s.laid[j]
    <3>1. j \in 1 .. Len(s.laid) /\ j < k
      BY <1>1
    <3>2. PastBit(g) <= FirstBit(f)
      BY <2>4, <3>1 DEF Right
    <3>3. PastBit(g) \in Nat /\ FirstBit(f) \in Nat /\ PastBit(f) \in Nat /\ FirstBit(g) \in Nat
      BY <1>5, <3>1
    <3>. HIDE DEF f, g
    <3>4. BitsOf(f) \cap BitsOf(g) = {}
      BY <3>2, <3>3 DEF BitsOf
    <3>. QED BY <3>4 DEF g
  <2>. QED BY <1>5, <2>2, <2>3, <2>4 DEF PlacedRight
<1>7. DOMAIN s.laid = 1 .. Len(s.laid)
  BY <1>1
<1>. QED BY <1>3, <1>6, <1>7 DEF WholeIsSound, Sound, Whole, size

(* Whatever the members, and however many, a struct's or a union's are aligned
   and inside it, no two of a struct share a bit, no bit-field crosses its unit,
   and its size is a multiple of its alignment, as an array of it needs. *)
THEOREM EveryLayoutIsSound == WalkSpec => []WholeIsSound
<1>1. WalkInit => WalkInv
  <2>. SUFFICES ASSUME WalkInit PROVE Right(Fresh, isUnion) /\ isUnion \in BOOLEAN /\ st = Fresh
    BY DEF WalkInv
  <2>1. Fresh \in WalkType /\ ~Fresh.unit.open /\ Fresh.laid = << >>
    BY DEF Fresh, NoUnit, WalkType, Alignments
  <2>. QED BY <2>1 DEF WalkInit, Right, UnitRight
<1>2. WalkInv /\ [WalkNext]_<<isUnion, st>> => WalkInv'
  <2>. SUFFICES ASSUME WalkInv, WalkNext PROVE WalkInv'
    BY DEF WalkInv
  <2>1. PICK m \in Member : st' = Place(isUnion, st, m)
    BY DEF WalkNext
  <2>2. AllComplete(st)
    <3>1. st.laid \in Seq(Laid)
      BY DEF WalkInv, Right, WalkType
    <3>. QED BY <3>1 DEF WalkInv, Right, AllComplete, WalkNext, Flexible
  <2>3. Right(st', isUnion) /\ isUnion' = isUnion
    BY <2>1, <2>2, PlaceRight DEF WalkInv, WalkNext
  <2>. QED BY <2>3 DEF WalkInv
<1>3. WalkInv => WholeIsSound
  BY RightIsSound DEF WalkInv
<1>. QED BY <1>1, <1>2, <1>3, PTL DEF WalkSpec
=============================================================================
