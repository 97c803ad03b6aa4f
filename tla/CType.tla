-------------------------------- MODULE CType --------------------------------
(***************************************************************************)
(* Types as the compiler sees them (CType.hs): their sizes, the layout of  *)
(* tags, the integer promotions and the usual arithmetic conversions.      *)
(* Arithmetic types are the integers; a type is a record of its kind, its  *)
(* pointee or element, an array's length and a struct's tag.               *)
(***************************************************************************)
EXTENDS Layout, SequencesExt

NoType == [k |-> "none"]
T(kind)      == [k |-> kind]
Ptr(t)       == [k |-> "ptr", of |-> t]
Array(t, n)  == [k |-> "array", of |-> t, n |-> n]
Struct(tag)  == [k |-> "struct", tag |-> tag]

IntegerKinds == {"bool", "char", "schar", "uchar", "short", "ushort", "int", "uint",
                 "enum", "long", "ulong", "llong", "ullong"}
typeIsInteger(t)  == t.k \in IntegerKinds
typeIsUnsigned(t) == t.k \in {"bool", "uchar", "ushort", "uint", "ulong", "ullong"}
typeIsAggregate(t) == t.k \in {"struct", "array"}

\* LLP64: long has four bytes, a pointer eight.
ScalarSize(k) ==
  CASE k \in {"bool", "char", "schar", "uchar"} -> 1
    [] k \in {"short", "ushort"} -> 2
    [] k \in {"int", "uint", "long", "ulong", "enum"} -> 4
    [] k \in {"llong", "ullong", "ptr"} -> 8

RECURSIVE typeIsComplete(_, _), typeSize(_, _), typeAlign(_, _)
typeIsComplete(tags, t) ==
  CASE t.k = "array"  -> t.n > 0 /\ typeIsComplete(tags, t.of)
    [] t.k = "struct" -> t.tag \in DOMAIN tags
    [] OTHER -> TRUE

typeSize(tags, t) ==
  CASE t.k = "array"  -> IF typeIsComplete(tags, t) THEN typeSize(tags, t.of) * t.n ELSE 0
    [] t.k = "struct" -> IF t.tag \in DOMAIN tags THEN tags[t.tag].size ELSE 0
    [] OTHER -> ScalarSize(t.k)

typeAlign(tags, t) ==
  CASE t.k = "array"  -> typeAlign(tags, t.of)
    [] t.k = "struct" -> IF t.tag \in DOMAIN tags THEN tags[t.tag].align ELSE 1
    [] OTHER -> Larger(1, ScalarSize(t.k))

\* What the layout asks of a member's type; an incomplete one is an array.
Measured(tags, m) ==
  m @@ [size |-> typeSize(tags, m.t), align |-> typeAlign(tags, m.t),
        complete |-> typeIsComplete(tags, m.t), off |-> 0, bit |-> 0]

\* tagSetMembers: a declaration of a tag lays its members out and records the
\* result beside the tags declared before it.
tagSetMembers(tags, d) ==
  LET st == FoldLeft(LAMBDA acc, m : Place(d.isUnion, acc, Measured(tags, m)), Fresh, d.members)
  IN  (d.tag :> [isUnion |-> d.isUnion, members |-> st.laid, align |-> st.align,
                 size |-> TotalSize(d.isUnion, st)]) @@ tags

Tags(decls) == FoldLeft(tagSetMembers, <<>>, decls)

\* The member of a name, looked for in anonymous members too, whose offset is
\* added to its own.
RECURSIVE findMember(_, _, _)
findMember(tags, t, name) ==
  LET members == IF t.k = "struct" THEN tags[t.tag].members ELSE <<>>
      named   == SelectSeq(members, LAMBDA m : m.name = name)
      within  == SelectSeq(members, LAMBDA m : m.name = "" /\ findMember(tags, m.t, name) # NoType)
  IN  IF named # <<>> THEN Head(named)
      ELSE IF within = <<>> THEN NoType
      ELSE [findMember(tags, Head(within).t, name) EXCEPT !.off = @ + Head(within).off]
-----------------------------------------------------------------------------
typeDecay(t) == IF t.k = "array" THEN Ptr(t.of) ELSE t

typeIntRank(t) ==
  CASE t.k = "bool" -> 1
    [] t.k \in {"char", "schar", "uchar"} -> 2
    [] t.k \in {"short", "ushort"} -> 3
    [] t.k \in {"int", "uint", "enum"} -> 4
    [] t.k \in {"long", "ulong"} -> 5
    [] t.k \in {"llong", "ullong"} -> 6
    [] OTHER -> 0

typePromote(t) ==
  IF typeIsInteger(t) /\ typeIntRank(t) < typeIntRank(T("int")) THEN T("int") ELSE t

\* C99 6.3.1.8, of a signed and an unsigned type once both are promoted.
Mixed(s, u) ==
  IF typeIntRank(u) >= typeIntRank(s) THEN u
  ELSE IF ScalarSize(s.k) > ScalarSize(u.k) THEN s
  ELSE CASE s.k = "int"   -> T("uint")
         [] s.k = "long"  -> T("ulong")
         [] s.k = "llong" -> T("ullong")
         [] OTHER -> u

Usual(a, b) ==
  IF a = b THEN a
  ELSE IF typeIsUnsigned(a) = typeIsUnsigned(b)
       THEN IF typeIntRank(a) >= typeIntRank(b) THEN a ELSE b
  ELSE IF typeIsUnsigned(a) THEN Mixed(b, a) ELSE Mixed(a, b)

typeUsualArith(a, b) == Usual(typePromote(a), typePromote(b))
=============================================================================
