------------------------------ MODULE MCFlow ------------------------------
(***************************************************************************)
(* The bodies Flow.tla is checked on.  Each is a construct around a block  *)
(* of a nested statement and a jump, followed by one more statement, which *)
(* carries label 1 or not.  Every expression has a number of its own.      *)
(***************************************************************************)
EXTENDS Flow

\* A goto 1 with a number of its own.
Numbered(i) == [Goto(1) EXCEPT !.c = Atom(i)]
Jumps(i)  == {Expr(i), Return(i), Break(i), Continue(i), Numbered(i)}
Simple(i) == {Expr(i), Return(i), Break(i), Continue(i)}

\* A statement nested in the construct, made of leaves from J.
Nested(J(_)) ==
  J(10)
  \cup {If(Atom(11), a) : a \in J(12)}
  \cup {IfElse(Not(Atom(11)), a, b) : a \in J(12), b \in J(13)}
  \cup {While(k, a) : k \in {Atom(11), Forever}, a \in J(12)}
  \cup {Do(a, k) : k \in {Atom(11), Forever}, a \in J(12)}
  \cup {For(Absent, i, a) : i \in {0, 11}, a \in J(12)}
  \cup {Switch(11, Block(<<Case(1, a), Default(b)>>)) : a \in J(12), b \in J(13)}

Inner(J(_)) == {Block(<<a, b>>) : a \in Nested(J), b \in J(20)}
Cond == LAnd(Atom(30), LOr(Atom(31), Atom(32)))

Around(J(_)) ==
  LET In == Inner(J) IN
  In \cup {While(Cond, b) : b \in In} \cup {For(Forever, 30, b) : b \in In}
  \cup {Do(b, k) : b \in In, k \in {Atom(30), Forever}}
  \cup {Switch(30, Block(<<Case(1, a), Default(b)>>)) : a \in J(31), b \in In}
  \cup {Switch(30, Block(<<Default(a), Case(2, b)>>)) : a \in J(31), b \in In}

\* A switch whose cases are inside a loop or a nested block (Duff's device).
Duff(J(_)) ==
  {Switch(30, Block(<<a, While(Atom(31), Block(<<b, Case(2, x)>>)), y>>)) :
      a \in {Case(1, z) : z \in J(32)}, b \in J(33), x \in J(34), y \in J(35)}

Bodied(S)   == {Block(<<s, Expr(90)>>) : s \in S}
Landing(S)  == {Block(<<s, Label(1, Expr(90))>>) : s \in S}
Ending(S)   == {Block(<<Expr(1), s>>) : s \in S}

MCBodies == <<Landing(Around(Jumps)), Landing(Duff(Jumps)),
              Bodied(Around(Simple)), Ending(Around(Simple))>>

\* A jump out of a do: on these DeadUnlessDo says nothing, and the checker calls
\* reachable code unreachable (Sema.hs:136).
MCAround == <<Bodied({Do(b, k) : b \in Inner(Simple), k \in {Atom(30), Forever}})>>
=============================================================================
