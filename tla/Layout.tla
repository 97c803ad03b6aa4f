-------------------------------- MODULE Layout --------------------------------
(***************************************************************************)
(* The layout of a struct or union (CType.layout), one member at a time.   *)
(* A member is a record that says whether its type is complete, with the   *)
(* size and the alignment the code asks the type for; its width is -1      *)
(* unless it is a bit-field.  A byte has ByteBits bits, eight in C99Mettle *)
(* and fewer where a model counts through the values of a type; four bytes *)
(* are a bit-field's storage unit.                                         *)
(***************************************************************************)
EXTENDS Integers, Sequences

CONSTANT ByteBits
ASSUME ByteBitsAssumption == ByteBits \in Nat \ {0}

UnitBytes == 4
UnitBits  == UnitBytes * ByteBits

Larger(x, y) == IF x >= y THEN x ELSE y

alignUp(x, a) == IF a <= 1 THEN x ELSE ((x + a - 1) \div a) * a

NoUnit == [open |-> FALSE, off |-> 0, bits |-> 0]
Unit(off, bits) == [open |-> TRUE, off |-> off, bits |-> bits]

\* Where the walk over the members stands: the next free byte, the running
\* maxima, the open storage unit, and the members already placed.
Fresh == [off |-> 0, align |-> 1, size |-> 0, unit |-> NoUnit, laid |-> <<>>]

Placed(m, off, bit) == [m EXCEPT !.off = off, !.bit = bit]

\* The next byte that no open unit covers.
PastUnit(st) == IF st.unit.open THEN st.unit.off + UnitBytes ELSE st.off

\* A bit-field of width 0: close the unit and emit nothing.
CloseUnit(st) ==
  [st EXCEPT !.off  = IF st.unit.bits > 0 THEN PastUnit(st) ELSE st.off,
             !.unit = NoUnit]

\* The unit a bit-field goes to: the open one if it has room, else the next.
UnitFor(st, m) ==
  IF ~st.unit.open THEN Unit(alignUp(st.off, UnitBytes), 0)
  ELSE IF st.unit.bits + m.width <= UnitBits THEN st.unit
  ELSE Unit(alignUp(st.unit.off + UnitBytes, UnitBytes), 0)

PlaceBitField(isUnion, st, m) ==
  IF isUnion
  THEN [st EXCEPT !.align = Larger(UnitBytes, @), !.size = Larger(UnitBytes, @),
                  !.laid  = Append(@, Placed(m, 0, 0))]
  ELSE LET u == UnitFor(st, m) IN
       [st EXCEPT !.align = Larger(UnitBytes, @),
                  !.unit  = Unit(u.off, u.bits + m.width),
                  !.laid  = Append(@, Placed(m, u.off, u.bits))]

PlaceIncomplete_first(st, m) ==      \* where the struct begins
  [st EXCEPT !.align = Larger(m.align, @), !.unit = NoUnit, !.laid = Append(@, Placed(m, 0, 0))]

\* A member of an incomplete type, a flexible array: it has a place and no size.
PlaceIncomplete(st, m) ==
  [st EXCEPT !.off   = PastUnit(st), !.align = Larger(m.align, @), !.unit = NoUnit,
             !.laid  = Append(@, Placed(m, alignUp(PastUnit(st), m.align), 0))]

PlaceMember(isUnion, st, m) ==
  LET at == IF isUnion THEN 0 ELSE alignUp(PastUnit(st), m.align) IN
  [st EXCEPT !.off   = IF isUnion THEN PastUnit(st) ELSE at + m.size,
             !.align = Larger(m.align, @),
             !.size  = IF isUnion THEN Larger(m.size, @) ELSE @,
             !.unit  = NoUnit,
             !.laid  = Append(@, Placed(m, at, 0))]

Place(isUnion, st, m) ==
  IF m.width = 0 THEN CloseUnit(st)
  ELSE IF m.width > 0 THEN PlaceBitField(isUnion, st, m)
  ELSE IF ~m.complete THEN PlaceIncomplete(st, m)
  ELSE PlaceMember(isUnion, st, m)

\* The size a whole struct or union gets once its members are placed.
TotalSize(isUnion, st) ==
  alignUp(IF isUnion THEN st.size ELSE PastUnit(st), st.align)

\* The bits a member takes: a flexible array at least those of one element.
FirstBit(f) == f.off * ByteBits + (IF f.width > 0 THEN f.bit ELSE 0)
PastBit(f)  == IF f.width > 0 THEN f.off * ByteBits + f.bit + f.width
               ELSE (f.off + (IF f.complete THEN f.size ELSE f.align)) * ByteBits
BitsOf(f)   == FirstBit(f) .. PastBit(f) - 1

\* What a member's place is a multiple of.
Granule(f) == IF f.width > 0 THEN UnitBytes ELSE f.align

\* Members are aligned, inside their struct and apart: no bit of one is a bit
\* of another, no bit-field crosses its unit, and a flexible array starts where
\* the others end.
Sound(s) ==
  /\ s.size % s.align = 0
  /\ \A i \in DOMAIN s.members :
       LET f == s.members[i] IN
       /\ f.off % Granule(f) = 0 /\ s.align % Granule(f) = 0
       /\ f.complete => BitsOf(f) \subseteq 0 .. s.size * ByteBits - 1
       /\ f.width > 0 => f.bit + f.width <= UnitBits
       /\ \A j \in 1 .. i - 1 : ~s.isUnion => BitsOf(f) \cap BitsOf(s.members[j]) = {}
=============================================================================
