---------------------------- MODULE StaticsProofs ----------------------------
(***************************************************************************)
(* Every literal and every object whose address is taken has one storage,  *)
(* that its pointer global holds before anything reads it, on every path   *)
(* of every program; and the initializers come first.                      *)
(***************************************************************************)
EXTENDS Statics, SequenceTheorems, FiniteSetTheorems, TLAPS

Units == Function \cup {Ctor}
Instr ==
  ({"ensure", "load"} \X Storage) \cup ({"assign", "init"} \X Object) \cup ({"branch", "jump", "label"} \X Label)
  \cup ({"call"} \X Units) \cup {<<"return", Ctor>>}
Job == Operation \cup Initial \cup ({"check"} \X Literal) \cup {<<"none", Nothing>>, <<"call", Ctor>>}
Jumps == {"branch", "jump"}

(* ---- what is emitted ---- *)

\* Whoever gets past place j of c went through it.
Straight(c, j) == \A i \in 1..(j - 1) : c[i][1] \notin Jumps

\* Place j fills in the pointer of x, on every path.
Ensures(c, j, x) == c[j][1] = "ensure" /\ c[j][2] = x /\ Straight(c, j)
Ensured(c, n, x) == \E j \in 1..n : Ensures(c, j, x)
Has(c, n, op)    == \E j \in 1..n : c[j][1] = op[1] /\ c[j][2] = op[2]

HasInits(p)     == p.inits # << >>
MainIsCalled(p) == \E f \in Function : Occurs(<<"call", Main>>, p.body[f])

\* What comes behind place j may read the pointer of x: the check is where everyone
\* comes through, or it is the instruction there.
Behind(c, j, x) == Ensured(c, j, x) \/ (j > 0 /\ c[j][1] = "ensure" /\ c[j][2] = x)
LoadRight(c, i) == c[i][1] = "load" => Behind(c, i - 1, c[i][2])

PlaceRight(p, u, c, i) ==
  /\ LoadRight(c, i)
  /\ u = Ctor => c[i][1] \in {"ensure", "load", "init"}
  /\ u # Ctor => c[i][1] # "init"
  /\ c[i][1] = "call" /\ c[i][2] = Ctor => u = Main /\ i = 1 /\ HasInits(p)
  /\ c[i][1] = "call" /\ c[i][2] = Main => MainIsCalled(p)

\* The code c of u, or the beginning of it.
CodeRight(p, u, c) ==
  /\ c \in Seq(Instr)
  /\ \A i \in 1..Len(c) : PlaceRight(p, u, c, i)
  /\ u = Main /\ HasInits(p) /\ c # << >> => c[1][1] = "call" /\ c[1][2] = Ctor
  /\ \A i, k \in 1..Len(c) : c[i][1] = "init" /\ c[k][1] = "init" /\ c[i][2] = c[k][2] => i = k

\* Of the whole of it, every jump has a label.
Complete(c) == \A i \in 1..Len(c) : c[i][1] \in Jumps => Has(c, Len(c), <<"label", c[i][2]>>)

\* What is to be emitted of u: checks before uses, and before all jumps.
TasksRight(p, u, t) ==
  /\ t \in Seq(Job)
  /\ u # Ctor =>
       /\ \A k \in 1..Len(t) : t[k][1] = "str" => Has(t, k - 1, <<"check", t[k][2]>>)
       /\ \A k, m \in 1..Len(t) : t[k][1] = "check" /\ t[m][1] \in Jumps => k < m
       /\ \A k \in 1..Len(t) : t[k][1] \notin {"init", "place"}
       /\ u = Main /\ HasInits(p) => t # << >> /\ t[1] = <<"call", Ctor>>
  /\ u = Ctor =>
       /\ \A k \in 1..Len(t) : t[k][1] \in {"str", "object", "place", "init"}
       /\ \A i, k \in 1..Len(t) : t[i][1] = "init" /\ t[k][1] = "init" /\ t[i][2] = t[k][2] => i = k
  /\ \A k \in 1..Len(t) :
       /\ t[k][1] \in Jumps => Has(t, Len(t), <<"label", t[k][2]>>)
       /\ t[k][1] = "call" /\ t[k][2] = Ctor => u = Main /\ k = 1 /\ HasInits(p)
       /\ t[k][1] = "call" /\ t[k][2] = Main => MainIsCalled(p)

\* How far that has got: the first n tasks of t are in c, the literals in e checked.
Done(t, n, c, e) ==
  /\ e \subseteq Literal /\ \A l \in e : Ensured(c, Len(c), l)
  /\ \A k \in 1..n :
       /\ t[k][1] = "check" => t[k][2] \in e
       /\ t[k][1] = "label" => Has(c, Len(c), t[k])
  /\ \A j \in 1..Len(c) : c[j][1] \in Jumps \cup {"init"} => Has(t, n, c[j])

LowerType ==
  /\ program \in Program /\ pending \in Seq(Units)
  /\ code \in [Units -> Seq(Instr)] /\ lsNeedGlobalInit \in BOOLEAN
  /\ next \in Nat \ {0} /\ next <= Len(tasks) + 1

LowerRight ==
  /\ \A u \in Units : CodeRight(program, u, code[u])
  /\ \A u \in Units : unit # Nothing /\ u # unit => Complete(code[u])
  /\ unit # Nothing =>
       /\ unit \in Units /\ TasksRight(program, unit, tasks) /\ Done(tasks, next - 1, code[unit], lsFnStrEnsured)
       /\ next = 1 => code[unit] = << >>
       /\ unit = Main /\ HasInits(program) /\ next # 1 => code[unit] # << >>
  /\ unit = Nothing => tasks = << >> /\ \A u \in Units : code[u] = << >>

\* The constructor is emitted before anything that may call it.
CtorFirst ==
  /\ \A i \in 1..Len(pending) : pending[i] = Ctor => HasInits(program)
  /\ HasInits(program) /\ ~lsNeedGlobalInit => pending # << >> /\ Head(pending) = Ctor /\ unit = Nothing
  /\ lsNeedGlobalInit => HasInits(program) /\ unit # Nothing

LowerInv == LowerType /\ LowerRight /\ CtorFirst

(* ---- what runs ---- *)

Frame == [f : Units, at : Nat \ {0}]

\* Every check a call got past has been made, and the one it reads behind.
PassedAll(c, n) ==
  \A j \in 1..Len(c) : j < n /\ c[j][1] = "ensure" /\ Straight(c, j) => ptr[c[j][2]] # Null
PassedLast(c, n) ==
  n \in 1..Len(c) /\ n > 1 /\ c[n][1] = "load" /\ c[n - 1][1] = "ensure" => ptr[c[n - 1][2]] # Null
Passed(fr) == PassedAll(code[fr.f], fr.at) /\ PassedLast(code[fr.f], fr.at)

StackRight == stack \in Seq(Frame) /\ \A i \in 1..Len(stack) : Passed(stack[i])

RunInv ==
  /\ running \in BOOLEAN
  /\ running => pending = << >> /\ Emitted
  /\ ~running => stack = << >>
  /\ StackRight

IInv == LowerInv /\ RunInv /\ PointersAreLive

AtMain == Len(stack) = 1 /\ stack[1] = [f |-> Main, at |-> 1]
AtCtor == Len(stack) = 2 /\ stack[1] = [f |-> Main, at |-> 2] /\ stack[2].f = Ctor

\* With main never called again: what the constructor has still to initialize
\* is unset, and then it never runs again.
Waiting == \A i \in 1..Len(code[Ctor]) : i >= stack[2].at /\ code[Ctor][i][1] = "init" => glob[code[Ctor][i][2]] = Unset
Beyond  == \A i \in 1..Len(stack) : stack[i].f # Ctor /\ (HasInits(program) /\ stack[i].f = Main => stack[i].at >= 2)
Blank   == \A g \in Object : glob[g] = Unset
Once ==
  /\ ~running => Blank
  /\ stack = << >> \/ (AtMain /\ Blank) \/ (AtCtor /\ Waiting) \/ Beyond

(* ---- instructions and what is added to them ---- *)

LEMMA InstrIs ==
  ASSUME NEW x \in Instr
  PROVE  /\ x = <<x[1], x[2]>>
         /\ x[1] \in {"ensure", "load"} => x[2] \in Storage
         /\ x[1] \in {"assign", "init"} => x[2] \in Object
         /\ x[1] \in {"branch", "jump", "label"} => x[2] \in Label
         /\ x[1] = "call" => x[2] \in Units
BY DEF Instr, Units

\* What was so of c stays so when x is added.
Grown(c, x, d) ==
  /\ d \in Seq(Instr) /\ Len(c) \in Nat /\ Len(d) = Len(c) + 1 /\ d[Len(c) + 1] = x /\ d # << >>
  /\ \A i \in 1..Len(c) : d[i] = c[i]
  /\ \A j \in 1..Len(c) : Straight(c, j) <=> Straight(d, j)
  /\ \A n \in 0..Len(c), m \in Nat : \A y : n <= m /\ Ensured(c, n, y) => Ensured(d, m, y)
  /\ \A n \in 0..Len(c), m \in Nat : \A y : n <= m /\ Has(c, n, y) => Has(d, m, y)

LEMMA Growing ==
  ASSUME NEW c \in Seq(Instr), NEW x \in Instr
  PROVE  Grown(c, x, Append(c, x))
<1>. DEFINE d == Append(c, x)
<1>1. /\ d \in Seq(Instr) /\ Len(c) \in Nat /\ Len(d) = Len(c) + 1 /\ d[Len(c) + 1] = x
      /\ \A i \in 1..Len(c) : d[i] = c[i]
  BY AppendProperties, LenProperties
<1>. HIDE DEF d
<1>2. ASSUME NEW j \in 1..Len(c) PROVE Straight(c, j) <=> Straight(d, j)
  <2>1. \A i \in 1..(j - 1) : i \in 1..Len(c)
    BY <1>1
  <2>. QED BY <1>1, <2>1 DEF Straight
<1>3. ASSUME NEW n \in 0..Len(c), NEW m \in Nat, NEW y, n <= m, Ensured(c, n, y) PROVE Ensured(d, m, y)
  <2>1. PICK j \in 1..n : Ensures(c, j, y)
    BY <1>3 DEF Ensured
  <2>2. j \in 1..Len(c) /\ j \in 1..m
    BY <1>1, <1>3
  <2>3. Ensures(d, j, y)
    BY <1>1, <1>2, <2>1, <2>2 DEF Ensures
  <2>. QED BY <2>2, <2>3 DEF Ensured
<1>4. ASSUME NEW n \in 0..Len(c), NEW m \in Nat, NEW y, n <= m, Has(c, n, y) PROVE Has(d, m, y)
  <2>1. PICK j \in 1..n : c[j][1] = y[1] /\ c[j][2] = y[2]
    BY <1>4 DEF Has
  <2>2. j \in 1..Len(c) /\ j \in 1..m
    BY <1>1, <1>4
  <2>. QED BY <1>1, <2>1, <2>2 DEF Has
<1>5. d # << >>
  BY <1>1, EmptySeq
<1>. QED BY <1>1, <1>2, <1>3, <1>4, <1>5 DEF Grown, d

(* ---- what there is to emit ---- *)

LEMMA JobIs ==
  ASSUME NEW x \in Job
  PROVE  /\ x = <<x[1], x[2]>>
         /\ x[1] \in {"str", "sizeof", "check"} => x[2] \in Literal
         /\ x[1] \in {"object", "place"} => x[2] \in Aggregate
         /\ x[1] \in {"assign", "init"} => x[2] \in Object
         /\ x[1] \in {"branch", "jump", "label"} => x[2] \in Label
         /\ x[1] = "call" => x[2] \in Units
         /\ x[1] = "return" => x[2] = Ctor
         /\ x[1] \in {"str", "sizeof", "check", "object", "place", "assign", "init", "branch", "jump", "label",
                      "call", "return", "none"}
BY DEF Job, Operation, Initial, Units

LEMMA ProgramIs ==
  ASSUME NEW p \in Program
  PROVE  /\ p.order \in Seq(Function) /\ p.body \in [Function -> Seq(Operation)]
         /\ p.aggs \in Seq(Aggregate) /\ p.inits \in Seq(Initial)
BY ProgramAssumption

\* The sequence t is made of x, y and z, that end at n, m and its own end.
Parts(S, x, y, z, t, n, m) ==
  /\ n \in Nat /\ m \in Nat /\ n <= m /\ Len(z) \in Nat /\ Len(y) = m - n
  /\ t \in Seq(S) /\ Len(t) = m + Len(z)
  /\ \A i \in 1..Len(t) :
       \/ i <= n /\ t[i] = x[i]
       \/ n < i /\ i <= m /\ i - n \in 1..Len(y) /\ t[i] = y[i - n]
       \/ m < i /\ i - m \in 1..Len(z) /\ t[i] = z[i - m]
  /\ \A i \in 1..Len(y) : n + i \in 1..m /\ t[n + i] = y[i]
  /\ \A i \in 1..Len(z) : m + i \in 1..Len(t) /\ t[m + i] = z[i]

LEMMA InThree ==
  ASSUME NEW S, NEW x \in Seq(S), NEW y \in Seq(S), NEW z \in Seq(S), NEW t, t = (x \o y) \o z,
         NEW n, n = Len(x), NEW m, m = Len(x) + Len(y)
  PROVE  Parts(S, x, y, z, t, n, m)
<1>1. Len(x) \in Nat /\ Len(y) \in Nat /\ Len(z) \in Nat
  BY LenProperties
<1>2. /\ x \o y \in Seq(S) /\ Len(x \o y) = m
      /\ \A i \in 1..m : (x \o y)[i] = IF i <= n THEN x[i] ELSE y[i - n]
  BY ConcatProperties
<1>3. /\ t \in Seq(S) /\ Len(t) = m + Len(z)
      /\ \A i \in 1..(m + Len(z)) : t[i] = IF i <= m THEN (x \o y)[i] ELSE z[i - m]
  BY <1>2, ConcatProperties
<1>. DEFINE w == x \o y
<1>. HIDE DEF w
<1>4. \A i \in 1..m : w[i] = IF i <= n THEN x[i] ELSE y[i - n]
  BY <1>2 DEF w
<1>5. \A i \in 1..(m + Len(z)) : t[i] = IF i <= m THEN w[i] ELSE z[i - m]
  BY <1>3 DEF w
<1>6. n \in Nat /\ m \in Nat /\ n <= m /\ Len(y) = m - n
  BY <1>1
<1>7. ASSUME NEW i \in 1..Len(t)
      PROVE \/ i <= n /\ t[i] = x[i]
            \/ n < i /\ i <= m /\ i - n \in 1..Len(y) /\ t[i] = y[i - n]
            \/ m < i /\ i - m \in 1..Len(z) /\ t[i] = z[i - m]
  BY <1>1, <1>3, <1>4, <1>5, <1>6
<1>8. ASSUME NEW i \in 1..Len(y) PROVE n + i \in 1..m /\ t[n + i] = y[i]
  <2>1. n + i \in 1..m /\ n + i \in 1..(m + Len(z)) /\ ~(n + i <= n) /\ n + i - n = i
    BY <1>1, <1>6
  <2>. QED BY <1>4, <1>5, <2>1
<1>9. ASSUME NEW i \in 1..Len(z) PROVE m + i \in 1..Len(t) /\ t[m + i] = z[i]
  <2>1. m + i \in 1..(m + Len(z)) /\ ~(m + i <= m) /\ m + i - m = i
    BY <1>1, <1>6
  <2>. QED BY <1>3, <1>5, <2>1
<1>. QED BY <1>1, <1>3, <1>6, <1>7, <1>8, <1>9 DEF Parts

LEMMA ChecksAre ==
  ASSUME NEW b \in Seq(Operation)
  PROVE  /\ b \in Seq(Job) /\ stringsIn(b) \in Seq(Job) /\ Len(stringsIn(b)) = Len(b)
         /\ DOMAIN b = 1..Len(b) /\ Len(b) \in Nat
         /\ \A i \in 1..Len(b) :
              /\ b[i] \in Operation /\ b[i] \in Job /\ b[i][1] \notin {"check", "init", "place", "none"}
              /\ stringsIn(b)[i][1] \in {"check", "none"}
              /\ b[i][1] = "str" => stringsIn(b)[i] = <<"check", b[i][2]>>
<1>. DEFINE chk == stringsIn(b)
<1>1. Len(b) \in Nat /\ DOMAIN b = 1..Len(b) /\ \A i \in 1..Len(b) : b[i] \in Operation
  BY LenProperties, ElementOfSeq
<1>2. Operation \subseteq Job /\ <<"none", Nothing>> \in Job
  BY DEF Job
<1>3. chk = [i \in 1..Len(b) |-> IF b[i][1] \in {"str", "sizeof"} THEN <<"check", b[i][2]>> ELSE <<"none", Nothing>>]
  BY <1>1 DEF stringsIn
<1>. HIDE DEF chk
<1>4. ASSUME NEW i \in 1..Len(b)
      PROVE  /\ b[i] \in Operation /\ b[i] \in Job /\ b[i][1] \notin {"check", "init", "place", "none"}
             /\ chk[i] \in Job /\ chk[i][1] \in {"check", "none"}
             /\ b[i][1] = "str" => chk[i] = <<"check", b[i][2]>>
  <2>1. b[i] \in Operation /\ b[i] \in Job
    BY <1>1, <1>2
  <2>2. b[i][1] \notin {"check", "init", "place", "none"}
    BY <2>1 DEF Operation
  <2>3. chk[i] = IF b[i][1] \in {"str", "sizeof"} THEN <<"check", b[i][2]>> ELSE <<"none", Nothing>>
    BY <1>3
  <2>4. CASE b[i][1] \in {"str", "sizeof"}
    <3>1. b[i][2] \in Literal /\ chk[i] = <<"check", b[i][2]>>
      BY <2>1, <2>3, <2>4, JobIs
    <3>2. chk[i] \in Job
      BY <3>1 DEF Job
    <3>3. chk[i][1] = "check"
      BY <3>1
    <3>. QED BY <2>1, <2>2, <3>1, <3>2, <3>3
  <2>5. CASE b[i][1] \notin {"str", "sizeof"}
    <3>1. chk[i] = <<"none", Nothing>>
      BY <2>3, <2>5
    <3>2. chk[i][1] = "none" /\ b[i][1] # "str"
      BY <2>5, <3>1
    <3>. QED BY <1>2, <2>1, <2>2, <3>1, <3>2
  <2>. QED BY <2>4, <2>5
<1>5. b \in Seq(Job)
  BY <1>1, <1>4
<1>6. chk \in Seq(Job) /\ Len(chk) = Len(b)
  <2>1. chk = [i \in 1..Len(b) |-> chk[i]]
    BY <1>3
  <2>2. [i \in 1..Len(b) |-> chk[i]] \in [1..Len(b) -> Job]
    BY <1>4
  <2>3. chk \in Seq(Job) /\ DOMAIN chk = 1..Len(b)
    BY <1>1, <2>1, <2>2
  <2>. QED BY <1>1, <2>3, LenProperties
<1>. QED BY <1>1, <1>4, <1>5, <1>6 DEF chk

LEMMA FunctionTasksRight ==
  ASSUME LowerType, NEW f \in Function, lsNeedGlobalInit <=> HasInits(program)
  PROVE  TasksRight(program, f, FunctionTasks(f))
<1>1. PICK b \in Seq(Operation) : b = program.body[f]
  BY ProgramIs DEF LowerType
<1>2. PICK pre \in Seq(Job) : pre = IF CallsCtor(f) THEN << <<"call", Ctor>> >> ELSE << >>
  <2>1. <<"call", Ctor>> \in Job
    BY DEF Job
  <2>2. << <<"call", Ctor>> >> \in Seq(Job) /\ << >> \in Seq(Job)
    BY <2>1
  <2>. QED BY <2>2
<1>3. PICK chk \in Seq(Job) : chk = stringsIn(b)
  BY ChecksAre
<1>4. PICK n : n = Len(pre)
  OBVIOUS
<1>5. PICK m : m = Len(pre) + Len(chk)
  OBVIOUS
<1>6. PICK t : t = (pre \o chk) \o b
  OBVIOUS
<1>7. b \in Seq(Job) /\ Len(chk) = Len(b)
  BY <1>3, ChecksAre
<1>8. /\ n \in Nat /\ m \in Nat /\ n <= m /\ Len(b) \in Nat
      /\ t \in Seq(Job) /\ Len(t) = m + Len(b)
      /\ \A i \in 1..Len(b) : n + i \in 1..m /\ t[n + i] = chk[i]
      /\ \A i \in 1..Len(b) : m + i \in 1..Len(t) /\ t[m + i] = b[i]
  <2>1. Parts(Job, pre, chk, b, t, n, m)
    BY <1>4, <1>5, <1>6, <1>7, InThree
  <2>. QED BY <1>7, <2>1 DEF Parts
<1>9. \/ n = 1 /\ CallsCtor(f) /\ pre[1] = <<"call", Ctor>>
      \/ n = 0 /\ ~CallsCtor(f)
  <2>1. CASE CallsCtor(f)
    <3>1. pre = << <<"call", Ctor>> >>
      BY <1>2, <2>1
    <3>. QED BY <1>4, <2>1, <3>1
  <2>2. CASE ~CallsCtor(f)
    <3>1. pre = << >>
      BY <1>2, <2>2
    <3>2. n = 0
      BY <1>4, <3>1, EmptySeq
    <3>. QED BY <2>2, <3>2
  <2>. QED BY <2>1, <2>2
<1>10. \A i \in 1..Len(t) :
         \/ i <= n /\ t[i] = pre[i]
         \/ n < i /\ i <= m /\ i - n \in 1..Len(b) /\ t[i] = chk[i - n]
         \/ m < i /\ i - m \in 1..Len(b) /\ t[i] = b[i - m]
  <2>1. Parts(Job, pre, chk, b, t, n, m)
    BY <1>4, <1>5, <1>6, <1>7, InThree
  <2>. QED BY <1>7, <2>1 DEF Parts
<1>11. ASSUME NEW i \in 1..Len(t)
       PROVE \/ i = 1 /\ n = 1 /\ CallsCtor(f) /\ t[i] = <<"call", Ctor>>
             \/ n < i /\ i <= m /\ i - n \in 1..Len(b) /\ t[i] = chk[i - n]
             \/ m < i /\ i - m \in 1..Len(b) /\ t[i] = b[i - m]
  <2>1. CASE i <= n /\ t[i] = pre[i]
    <3>1. i >= 1 /\ i \in Int
      BY <1>8
    <3>2. n # 0 /\ (n = 1 => i = 1)
      BY <1>8, <2>1, <3>1
    <3>. QED BY <1>9, <2>1, <3>2
  <2>. QED BY <1>10, <2>1
<1>12. \A i \in 1..Len(b) :
         /\ b[i] \in Operation /\ b[i] \in Job /\ b[i][1] \notin {"check", "init", "place", "none"}
         /\ chk[i][1] \in {"check", "none"}
         /\ b[i][1] = "str" => chk[i] = <<"check", b[i][2]>>
  BY <1>3, ChecksAre
<1>13. DOMAIN b = 1..Len(b)
  BY ChecksAre
<1>14. <<"call", Ctor>>[1] = "call" /\ <<"call", Ctor>>[2] = Ctor
  OBVIOUS
<1>15. ASSUME NEW k \in 1..Len(t), t[k][1] = "str" PROVE Has(t, k - 1, <<"check", t[k][2]>>)
  <2>1. m < k /\ k - m \in 1..Len(b) /\ t[k] = b[k - m]
    BY <1>11, <1>12, <1>14, <1>15
  <2>2. PICK j \in 1..Len(b) : j = k - m
    BY <2>1
  <2>3. t[n + j] = <<"check", t[k][2]>> /\ n + j \in 1..m
    BY <1>8, <1>12, <1>15, <2>1, <2>2
  <2>4. n + j \in 1..(k - 1)
    BY <1>8, <2>1, <2>3
  <2>. QED BY <2>3, <2>4 DEF Has
<1>16. ASSUME NEW k \in 1..Len(t), NEW i \in 1..Len(t), t[k][1] = "check", t[i][1] \in Jumps PROVE k < i
  <2>1. k <= m
    BY <1>8, <1>11, <1>12, <1>14, <1>16
  <2>2. m < i
    BY <1>11, <1>12, <1>14, <1>16 DEF Jumps
  <2>. QED BY <1>8, <2>1, <2>2
<1>17. \A k \in 1..Len(t) : t[k][1] \notin {"init", "place"}
  BY <1>11, <1>12, <1>14
<1>18. f = Main /\ HasInits(program) => t # << >> /\ t[1] = <<"call", Ctor>>
  <2>. SUFFICES ASSUME f = Main, HasInits(program) PROVE t # << >> /\ t[1] = <<"call", Ctor>>
    OBVIOUS
  <2>1. n = 1
    BY <1>9 DEF CallsCtor
  <2>2. 1 \in 1..Len(t)
    BY <1>8, <2>1
  <2>3. m >= 1
    BY <1>8, <2>1
  <2>4. t[1] = <<"call", Ctor>>
    BY <1>8, <1>10, <1>9, <2>1, <2>2, <2>3
  <2>. QED BY <2>2, <2>4, EmptySeq
<1>19. ASSUME NEW k \in 1..Len(t)
       PROVE /\ t[k][1] \in Jumps => Has(t, Len(t), <<"label", t[k][2]>>)
             /\ t[k][1] = "call" /\ t[k][2] = Ctor => f = Main /\ k = 1 /\ HasInits(program)
             /\ t[k][1] = "call" /\ t[k][2] = Main => MainIsCalled(program)
  <2>1. CASE k = 1 /\ CallsCtor(f) /\ t[k] = <<"call", Ctor>>
    BY <1>14, <2>1, NamesAssumption DEF CallsCtor, Jumps
  <2>2. CASE k - n \in 1..Len(b) /\ t[k] = chk[k - n]
    BY <1>12, <2>2 DEF Jumps
  <2>3. CASE k - m \in 1..Len(b) /\ t[k] = b[k - m]
    <3>1. PICK j \in 1..Len(b) : t[k] = b[j]
      BY <2>3
    <3>2. b[j] \in Operation /\ b[j] \in Job /\ b[j] = <<b[j][1], b[j][2]>> /\ j \in DOMAIN b
      BY <1>12, <1>13, JobIs
    <3>3. ASSUME b[j][1] \in Jumps PROVE Has(t, Len(t), <<"label", b[j][2]>>)
      <4>1. b[j][2] \in Label /\ (b[j] = <<"branch", b[j][2]>> \/ b[j] = <<"jump", b[j][2]>>)
        BY <3>2, <3>3, JobIs DEF Jumps
      <4>2. Occurs(<<"branch", b[j][2]>>, b) \/ Occurs(<<"jump", b[j][2]>>, b)
        BY <3>2, <4>1 DEF Occurs
      <4>3. Occurs(<<"label", b[j][2]>>, b)
        BY <1>1, <4>1, <4>2, ProgramAssumption DEF LowerType
      <4>4. PICK i \in DOMAIN b : b[i] = <<"label", b[j][2]>>
        BY <4>3 DEF Occurs
      <4>5. m + i \in 1..Len(t) /\ t[m + i] = <<"label", b[j][2]>>
        BY <1>8, <1>13, <4>4
      <4>. QED BY <4>5 DEF Has
    <3>4. b[j][1] = "call" => b[j][2] \in Function
      BY <3>2 DEF Operation
    <3>5. b[j][1] = "call" /\ b[j][2] = Main => MainIsCalled(program)
      <4>. SUFFICES ASSUME b[j][1] = "call", b[j][2] = Main PROVE MainIsCalled(program)
        OBVIOUS
      <4>1. b[j] = <<"call", Main>>
        BY <3>2
      <4>2. Occurs(<<"call", Main>>, program.body[f])
        BY <1>1, <3>2, <4>1 DEF Occurs
      <4>. QED BY <4>2 DEF MainIsCalled, LowerType
    <3>. QED BY <3>1, <3>3, <3>4, <3>5, NamesAssumption
  <2>. QED BY <1>11, <2>1, <2>2, <2>3
<1>20. f # Ctor
  BY NamesAssumption
<1>21. TasksRight(program, f, t)
  BY <1>8, <1>15, <1>16, <1>17, <1>18, <1>19, <1>20 DEF TasksRight
<1>. QED BY <1>1, <1>2, <1>3, <1>6, <1>21 DEF FunctionTasks, Entry

LEMMA CtorTasksRight ==
  ASSUME LowerType, StraightInits
  PROVE  TasksRight(program, Ctor, CtorTasks)
<1>1. PICK a \in Seq(Aggregate) : a = program.aggs
  BY ProgramIs DEF LowerType
<1>2. PICK q \in Seq(Initial) : q = program.inits
  BY ProgramIs DEF LowerType
<1>3. PICK x : x = [i \in DOMAIN a |-> <<"place", a[i]>>]
  OBVIOUS
<1>4. /\ Len(a) \in Nat /\ DOMAIN a = 1..Len(a) /\ \A i \in 1..Len(a) : a[i] \in Aggregate
      /\ Len(q) \in Nat /\ DOMAIN q = 1..Len(q) /\ \A i \in 1..Len(q) : q[i] \in Initial
  BY LenProperties, ElementOfSeq
<1>5. Initial \subseteq Job
  BY DEF Job
<1>6. \A i \in 1..Len(a) : x[i] = <<"place", a[i]>> /\ x[i] \in Job
  <2>. SUFFICES ASSUME NEW i \in 1..Len(a) PROVE x[i] = <<"place", a[i]>> /\ x[i] \in Job
    OBVIOUS
  <2>1. x[i] = <<"place", a[i]>> /\ a[i] \in Aggregate
    BY <1>3, <1>4
  <2>2. <<"place", a[i]>> \in Initial
    BY <2>1 DEF Initial
  <2>. QED BY <1>5, <2>1, <2>2
<1>7. x \in Seq(Job) /\ Len(x) = Len(a)
  <2>1. x \in [1..Len(a) -> Job]
    BY <1>3, <1>4, <1>6
  <2>2. x \in Seq(Job) /\ DOMAIN x = 1..Len(a)
    BY <1>4, <2>1
  <2>. QED BY <1>4, <2>2, LenProperties
<1>8. q \in Seq(Job)
  BY <1>4, <1>5
<1>9. PICK n \in Nat : n = Len(a)
  BY <1>4
<1>10. PICK t : t = x \o q
  OBVIOUS
<1>11. /\ t \in Seq(Job) /\ Len(t) = n + Len(q)
       /\ \A i \in 1..(n + Len(q)) : t[i] = IF i <= n THEN x[i] ELSE q[i - n]
  <2>1. /\ x \o q \in Seq(Job) /\ Len(x \o q) = Len(x) + Len(q)
        /\ \A i \in 1..(Len(x) + Len(q)) : (x \o q)[i] = IF i <= Len(x) THEN x[i] ELSE q[i - Len(x)]
    BY <1>7, <1>8, ConcatProperties
  <2>2. Len(x) = n
    BY <1>7, <1>9
  <2>. QED BY ONLY <1>10, <2>1, <2>2
<1>12. \A i \in 1..Len(t) : \/ i \in 1..n /\ t[i] = <<"place", a[i]>>
                            \/ n < i /\ i - n \in 1..Len(q) /\ t[i] = q[i - n]
  BY <1>4, <1>6, <1>9, <1>11
<1>13. \A i \in 1..Len(q) : q[i][1] \in {"str", "object", "place", "init"}
  <2>. SUFFICES ASSUME NEW i \in 1..Len(q) PROVE q[i][1] \in {"str", "object", "place", "init"}
    OBVIOUS
  <2>1. q[i][1] \in {"str", "object", "place", "init", "branch", "jump", "label"}
    BY <1>4 DEF Initial
  <2>2. q[i][1] \notin {"branch", "jump", "label"}
    BY <1>2, <1>4 DEF StraightInits, LowerType
  <2>. QED BY <2>1, <2>2
<1>14. \A i \in 1..Len(t) : t[i][1] \in {"str", "object", "place", "init"}
  BY <1>12, <1>13
<1>15. ASSUME NEW i \in 1..Len(t), NEW k \in 1..Len(t), t[i][1] = "init", t[k][1] = "init", t[i][2] = t[k][2]
       PROVE i = k
  <2>1. n < i /\ i - n \in 1..Len(q) /\ t[i] = q[i - n]
    BY <1>12, <1>15
  <2>2. n < k /\ k - n \in 1..Len(q) /\ t[k] = q[k - n]
    BY <1>12, <1>15
  <2>3. PICK j \in 1..Len(q), m \in 1..Len(q) : j = i - n /\ m = k - n
    BY <2>1, <2>2
  <2>4. q[j] = <<q[j][1], q[j][2]>> /\ q[m] = <<q[m][1], q[m][2]>>
    BY <1>4, <1>5, JobIs
  <2>5. q[j] = q[m] /\ q[j][1] = "init"
    BY <1>15, <2>1, <2>2, <2>3, <2>4
  <2>6. j = m
    BY <1>2, <1>4, <2>5, ProgramAssumption DEF LowerType
  <2>. QED BY <1>9, <2>3, <2>6
<1>16. TasksRight(program, Ctor, t)
  BY <1>11, <1>14, <1>15 DEF TasksRight, Jumps
<1>. QED BY <1>1, <1>2, <1>3, <1>10, <1>16 DEF CtorTasks

(* ---- one more instruction ---- *)

LEMMA CodeGrows ==
  ASSUME NEW p, NEW u \in Units, NEW c, CodeRight(p, u, c), NEW x \in Instr, NEW d, d = Append(c, x),
         PlaceRight(p, u, d, Len(c) + 1),
         u = Main /\ HasInits(p) /\ c = << >> => x[1] = "call" /\ x[2] = Ctor,
         x[1] = "init" => ~Has(c, Len(c), x)
  PROVE  CodeRight(p, u, d)
<1>1. c \in Seq(Instr) /\ Grown(c, x, d)
  BY Growing DEF CodeRight
<1>2. /\ d \in Seq(Instr) /\ Len(c) \in Nat /\ Len(d) = Len(c) + 1 /\ d[Len(c) + 1] = x
      /\ \A i \in 1..Len(c) : d[i] = c[i]
  BY <1>1 DEF Grown
<1>3. ASSUME NEW i \in 1..Len(c) PROVE PlaceRight(p, u, d, i)
  <2>1. PlaceRight(p, u, c, i) /\ d[i] = c[i]
    BY <1>2 DEF CodeRight
  <2>2. i - 1 \in 0..Len(c) /\ i - 1 \in Nat
    BY <1>2
  <2>3. \A y : Ensured(c, i - 1, y) => Ensured(d, i - 1, y)
    BY <1>1, <2>2 DEF Grown
  <2>4. i - 1 \in 1..Len(c) \/ ~(i - 1 > 0)
    BY <1>2
  <2>5. LoadRight(d, i)
    BY <1>2, <2>1, <2>3, <2>4 DEF PlaceRight, LoadRight, Behind
  <2>. QED BY <2>1, <2>5 DEF PlaceRight
<1>4. \A i \in 1..Len(d) : i \in 1..Len(c) \/ i = Len(c) + 1
  BY <1>2
<1>5. \A i \in 1..Len(d) : PlaceRight(p, u, d, i)
  BY <1>3, <1>4
<1>6. u = Main /\ HasInits(p) => d[1][1] = "call" /\ d[1][2] = Ctor
  <2>1. CASE c = << >>
    <3>1. Len(c) = 0
      BY <2>1
    <3>. QED BY <1>2, <2>1, <3>1
  <2>2. CASE c # << >>
    <3>1. 1 \in 1..Len(c)
      BY <1>1, <1>2, <2>2, EmptySeq
    <3>. QED BY <1>2, <2>2, <3>1 DEF CodeRight
  <2>. QED BY <2>1, <2>2
<1>7. ASSUME NEW i \in 1..Len(d), NEW k \in 1..Len(d), d[i][1] = "init", d[k][1] = "init", d[i][2] = d[k][2]
      PROVE i = k
  <2>1. CASE i \in 1..Len(c) /\ k \in 1..Len(c)
    BY <1>2, <1>7, <2>1 DEF CodeRight
  <2>2. CASE i \in 1..Len(c) /\ k = Len(c) + 1
    BY <1>2, <1>7, <2>2 DEF Has
  <2>3. CASE k \in 1..Len(c) /\ i = Len(c) + 1
    BY <1>2, <1>7, <2>3 DEF Has
  <2>. QED BY <1>4, <2>1, <2>2, <2>3
<1>. QED BY <1>2, <1>5, <1>6, <1>7 DEF CodeRight

\* The next task is in the code too.
TaskDone(t, n, c, e) ==
  /\ t[n][1] = "check" => t[n][2] \in e
  /\ t[n][1] = "label" => Has(c, Len(c), t[n])

\* With x behind c, and the checks g made, m tasks are done and not n.
Further(t, n, c, e, x, d, g, m) ==
  /\ n \in Nat /\ m \in {n, n + 1} /\ c \in Seq(Instr) /\ x \in Instr /\ d = Append(c, x)
  /\ Done(t, n, c, e) /\ (m = n + 1 => TaskDone(t, m, d, g))
  /\ g \subseteq Literal /\ e \subseteq g /\ \A l \in g : l \in e \/ Ensures(d, Len(c) + 1, l)
  /\ x[1] \in Jumps \cup {"init"} => Has(t, m, x)

LEMMA DoneGrows ==
  ASSUME NEW t, NEW n, NEW c, NEW e, NEW x, NEW d, NEW g, NEW m, Further(t, n, c, e, x, d, g, m)
  PROVE  Done(t, m, d, g)
<1>1. /\ n \in Nat /\ m \in {n, n + 1} /\ c \in Seq(Instr) /\ x \in Instr /\ d = Append(c, x)
      /\ Done(t, n, c, e) /\ (m = n + 1 => TaskDone(t, m, d, g))
      /\ g \subseteq Literal /\ e \subseteq g /\ \A l \in g : l \in e \/ Ensures(d, Len(c) + 1, l)
      /\ x[1] \in Jumps \cup {"init"} => Has(t, m, x)
  BY DEF Further
<1>2. Grown(c, x, d)
  BY <1>1, Growing
<1>3. /\ d \in Seq(Instr) /\ Len(c) \in Nat /\ Len(d) = Len(c) + 1 /\ d[Len(c) + 1] = x
      /\ \A i \in 1..Len(c) : d[i] = c[i]
  BY <1>2 DEF Grown
<1>4. Len(c) \in 0..Len(c) /\ Len(d) \in Nat /\ Len(c) <= Len(d) /\ Len(c) + 1 \in 1..Len(d)
  BY <1>3
<1>5. \A y : (Ensured(c, Len(c), y) => Ensured(d, Len(d), y)) /\ (Has(c, Len(c), y) => Has(d, Len(d), y))
  BY <1>2, <1>4 DEF Grown
<1>6. \A l \in g : Ensured(d, Len(d), l)
  BY <1>1, <1>4, <1>5 DEF Done, Ensured
<1>7. ASSUME NEW k \in 1..m PROVE TaskDone(t, k, d, g)
  <2>1. CASE k \in 1..n
    BY <1>1, <1>5, <2>1 DEF Done, TaskDone
  <2>2. CASE k \notin 1..n
    <3>1. m = n + 1 /\ k = m
      BY <1>1, <2>2
    <3>. QED BY <1>1, <3>1
  <2>. QED BY <2>1, <2>2
<1>8. ASSUME NEW y, Has(t, n, y) PROVE Has(t, m, y)
  <2>1. PICK j \in 1..n : t[j][1] = y[1] /\ t[j][2] = y[2]
    BY <1>8 DEF Has
  <2>2. j \in 1..m
    BY <1>1
  <2>. QED BY <2>1, <2>2 DEF Has
<1>9. ASSUME NEW j \in 1..Len(d), d[j][1] \in Jumps \cup {"init"} PROVE Has(t, m, d[j])
  <2>1. CASE j \in 1..Len(c)
    BY <1>1, <1>3, <1>8, <1>9, <2>1 DEF Done
  <2>2. CASE j = Len(c) + 1
    BY <1>1, <1>3, <1>9, <2>2
  <2>. QED BY <1>3, <2>1, <2>2
<1>. QED BY <1>1, <1>6, <1>7, <1>9 DEF Done, TaskDone

LEMMA DoneStays ==
  ASSUME NEW t, NEW n \in Nat, NEW c, NEW e, Done(t, n, c, e),
         NEW g, g \subseteq e, e \subseteq g, TaskDone(t, n + 1, c, g)
  PROVE  Done(t, n + 1, c, g)
<1>1. e = g
  OBVIOUS
<1>2. \A k \in 1..(n + 1) : TaskDone(t, k, c, g)
  <2>1. \A k \in 1..(n + 1) : k \in 1..n \/ k = n + 1
    OBVIOUS
  <2>2. \A k \in 1..n : TaskDone(t, k, c, g)
    BY <1>1 DEF Done, TaskDone
  <2>. QED BY <2>1, <2>2
<1>3. ASSUME NEW y, Has(t, n, y) PROVE Has(t, n + 1, y)
  <2>1. PICK j \in 1..n : t[j][1] = y[1] /\ t[j][2] = y[2]
    BY <1>3 DEF Has
  <2>2. j \in 1..(n + 1)
    OBVIOUS
  <2>. QED BY <2>1, <2>2 DEF Has
<1>. QED BY <1>1, <1>2, <1>3 DEF Done, TaskDone

(* ---- the compiler's steps ---- *)

LEMMA AtTask ==
  ASSUME LowerInv, ~Emitted
  PROVE  /\ unit \in Units /\ next \in 1..Len(tasks) /\ Len(tasks) \in Nat /\ next - 1 \in Nat
         /\ tasks[next] \in Job /\ tasks[next] = <<tasks[next][1], tasks[next][2]>>
         /\ TasksRight(program, unit, tasks) /\ Done(tasks, next - 1, code[unit], lsFnStrEnsured)
         /\ CodeRight(program, unit, code[unit]) /\ code[unit] \in Seq(Instr)
         /\ next = 1 => code[unit] = << >>
         /\ unit = Main /\ HasInits(program) /\ code[unit] = << >> => tasks[next] = <<"call", Ctor>>
         /\ unit \in {Main} => unit # Ctor
<1>1. tasks # << >>
  <2>1. tasks = << >> => Len(tasks) = 0
    OBVIOUS
  <2>. QED BY <2>1 DEF LowerInv, LowerType, Emitted
<1>2. unit # Nothing
  BY <1>1 DEF LowerInv, LowerRight
<1>3. /\ unit \in Units /\ TasksRight(program, unit, tasks) /\ Done(tasks, next - 1, code[unit], lsFnStrEnsured)
      /\ next = 1 => code[unit] = << >>
      /\ unit = Main /\ HasInits(program) /\ next # 1 => code[unit] # << >>
  BY <1>2 DEF LowerInv, LowerRight
<1>4. tasks \in Seq(Job)
  BY <1>3 DEF TasksRight
<1>5. Len(tasks) \in Nat
  BY <1>4, LenProperties
<1>6. next \in 1..Len(tasks) /\ next - 1 \in Nat
  BY <1>5 DEF LowerInv, LowerType, Emitted
<1>7. tasks[next] \in Job
  BY <1>4, <1>6, ElementOfSeq
<1>8. tasks[next] = <<tasks[next][1], tasks[next][2]>>
  BY <1>7, JobIs
<1>9. CodeRight(program, unit, code[unit]) /\ code[unit] \in Seq(Instr)
  BY <1>3 DEF LowerInv, LowerRight, CodeRight
<1>10. unit = Main => unit # Ctor
  BY NamesAssumption
<1>11. unit = Main /\ HasInits(program) /\ code[unit] = << >> => tasks[next] = <<"call", Ctor>>
  BY <1>3, <1>10 DEF TasksRight
<1>. QED BY <1>3, <1>5, <1>6, <1>7, <1>8, <1>9, <1>10, <1>11

LEMMA Emission ==
  ASSUME LowerInv, ~Emitted, NEW is, NEW d \in Seq(Instr), d = code[unit] \o is, Emit(is),
         CodeRight(program, unit, d), Done(tasks, next, d, lsFnStrEnsured'),
         unit = Main /\ HasInits(program) => d # << >>
  PROVE  LowerInv'
<1>1. /\ unit \in Units /\ next \in 1..Len(tasks) /\ Len(tasks) \in Nat
      /\ TasksRight(program, unit, tasks)
  BY AtTask
<1>2. /\ next' = next + 1 /\ code' = [code EXCEPT ![unit] = d]
      /\ program' = program /\ pending' = pending /\ unit' = unit /\ tasks' = tasks /\ lsNeedGlobalInit' = lsNeedGlobalInit
  BY DEF Emit
<1>3. code \in [Units -> Seq(Instr)]
  BY DEF LowerInv, LowerType
<1>4. code' \in [Units -> Seq(Instr)] /\ code'[unit] = d /\ \A u \in Units : u # unit => code'[u] = code[u]
  BY <1>1, <1>2, <1>3
<1>5. next' \in Nat \ {0} /\ next' <= Len(tasks') + 1 /\ next' - 1 = next /\ next' # 1
  BY <1>1, <1>2
<1>6. LowerType'
  <2>1. lsNeedGlobalInit' \in BOOLEAN
    BY <1>2 DEF LowerInv, LowerType
  <2>. QED BY <1>2, <1>4, <1>5, <2>1 DEF LowerInv, LowerType
<1>7. \A u \in Units : CodeRight(program', u, code'[u])
  BY <1>2, <1>4 DEF LowerInv, LowerRight
<1>8. \A u \in Units : unit' # Nothing /\ u # unit' => Complete(code'[u])
  BY <1>2, <1>4 DEF LowerInv, LowerRight
<1>9. unit' # Nothing
  BY <1>1, <1>2, NamesAssumption DEF Units, Ctor, Nothing
<1>10. Done(tasks', next' - 1, code'[unit'], lsFnStrEnsured')
  BY <1>2, <1>4, <1>5
<1>11. LowerRight'
  BY <1>1, <1>2, <1>4, <1>5, <1>7, <1>8, <1>9, <1>10 DEF LowerRight
<1>12. CtorFirst'
  BY <1>2, <1>9 DEF LowerInv, CtorFirst
<1>. QED BY <1>6, <1>11, <1>12 DEF LowerInv

LEMMA TheLast ==
  ASSUME NEW c \in Seq(Instr), NEW x \in Instr
  PROVE  c \o <<x>> = Append(c, x) /\ c \o << >> = c /\ Append(c, x) \in Seq(Instr) /\ Append(c, x) # << >>
<1>1. c \o <<x>> = Append(c, x) /\ c \o << >> = c
  OBVIOUS
<1>2. Grown(c, x, Append(c, x))
  BY Growing
<1>. QED BY <1>1, <1>2 DEF Grown

\* A check is emitted where nothing has jumped yet.
Checkable(p, u, c, x) ==
  /\ u \in Units /\ CodeRight(p, u, c) /\ x \in Storage
  /\ u = Main /\ HasInits(p) => c # << >>
  /\ \A j \in 1..Len(c) : c[j][1] \notin Jumps

LEMMA CheckGrows ==
  ASSUME NEW p, NEW u, NEW c, NEW x, NEW d, Checkable(p, u, c, x), d = Append(c, <<"ensure", x>>)
  PROVE  /\ <<"ensure", x>> \in Instr /\ CodeRight(p, u, d) /\ Ensures(d, Len(c) + 1, x) /\ Ensured(d, Len(d), x)
         /\ \A j \in 1..Len(d) : d[j][1] \notin Jumps
<1>. DEFINE y == <<"ensure", x>>
<1>1. /\ u \in Units /\ CodeRight(p, u, c) /\ x \in Storage
      /\ u = Main /\ HasInits(p) => c # << >>
      /\ \A j \in 1..Len(c) : c[j][1] \notin Jumps
  BY DEF Checkable
<1>2. y \in Instr /\ y[1] = "ensure" /\ y[2] = x
  BY <1>1 DEF Instr
<1>. HIDE DEF y
<1>3. c \in Seq(Instr) /\ Grown(c, y, d)
  BY <1>1, <1>2, Growing DEF CodeRight, y
<1>4. /\ Len(c) \in Nat /\ Len(d) = Len(c) + 1 /\ d[Len(c) + 1] = y
      /\ \A i \in 1..Len(c) : d[i] = c[i]
  BY <1>3 DEF Grown
<1>5. PlaceRight(p, u, d, Len(c) + 1)
  BY <1>2, <1>4 DEF PlaceRight, LoadRight
<1>6. CodeRight(p, u, d)
  BY <1>1, <1>2, <1>5, CodeGrows DEF y
<1>7. Straight(d, Len(c) + 1)
  BY <1>1, <1>4 DEF Straight
<1>8. Ensures(d, Len(c) + 1, x)
  BY <1>2, <1>4, <1>7 DEF Ensures
<1>9. Len(c) + 1 \in 1..Len(d)
  BY <1>4
<1>10. \A j \in 1..Len(d) : d[j][1] \notin Jumps
  <2>1. \A j \in 1..Len(d) : j \in 1..Len(c) \/ j = Len(c) + 1
    BY <1>4
  <2>. QED BY <1>1, <1>2, <1>4, <2>1 DEF Jumps
<1>. QED BY <1>2, <1>6, <1>8, <1>9, <1>10 DEF y, Ensured

LEMMA NoJumpsInCtor ==
  ASSUME NEW p, NEW c, CodeRight(p, Ctor, c)
  PROVE  \A j \in 1..Len(c) : c[j][1] \notin Jumps
BY DEF CodeRight, PlaceRight, Jumps

LEMMA FirstCheck ==
  ASSUME LowerInv, ~Emitted, NEW x \in Literal, NEW d, d = Append(code[unit], <<"ensure", x>>),
         NEW g, g = lsFnStrEnsured \cup {x},
         unit = Main /\ HasInits(program) => code[unit] # << >>,
         \A j \in 1..Len(code[unit]) : code[unit][j][1] \notin Jumps
  PROVE  /\ d \in Seq(Instr) /\ d # << >> /\ d = code[unit] \o << <<"ensure", x>> >>
         /\ CodeRight(program, unit, d) /\ Ensured(d, Len(d), x) /\ Done(tasks, next - 1, d, g)
<1>1. PICK c : c = code[unit]
  OBVIOUS
<1>2. PICK n \in Nat : n = next - 1
  BY AtTask
<1>3. c \in Seq(Instr) /\ CodeRight(program, unit, c) /\ unit \in Units /\ Done(tasks, n, c, lsFnStrEnsured)
  BY <1>1, <1>2, AtTask
<1>4. x \in Storage
  BY DEF Storage
<1>5. PICK y : y = <<"ensure", x>>
  OBVIOUS
<1>6. /\ y \in Instr /\ CodeRight(program, unit, d) /\ Ensures(d, Len(c) + 1, x) /\ Ensured(d, Len(d), x)
  <2>1. d = Append(c, <<"ensure", x>>) /\ (unit = Main /\ HasInits(program) => c # << >>)
    BY <1>1
  <2>2. \A j \in 1..Len(c) : c[j][1] \notin Jumps
    BY <1>1
  <2>3. /\ <<"ensure", x>> \in Instr /\ CodeRight(program, unit, d) /\ Ensures(d, Len(c) + 1, x)
        /\ Ensured(d, Len(d), x)
    <3>1. Checkable(program, unit, c, x)
      BY <1>3, <1>4, <2>1, <2>2 DEF Checkable
    <3>. QED BY <2>1, <3>1, CheckGrows
  <2>. QED BY <1>5, <2>3
<1>7. d = Append(c, y)
  BY <1>1, <1>5
<1>8. y[1] \notin Jumps \cup {"init"}
  BY <1>5 DEF Jumps
<1>9. g \subseteq Literal /\ lsFnStrEnsured \subseteq g /\ \A l \in g : l \in lsFnStrEnsured \/ Ensures(d, Len(c) + 1, l)
  BY <1>3, <1>6 DEF Done
<1>10. n \in {n, n + 1} /\ n # n + 1
  OBVIOUS
<1>11. Further(tasks, n, c, lsFnStrEnsured, y, d, g, n)
  BY ONLY <1>2, <1>3, <1>6, <1>7, <1>8, <1>9, <1>10 DEF Further
<1>12. Done(tasks, next - 1, d, g)
  BY <1>2, <1>11, DoneGrows
<1>13. d = c \o <<y>> /\ d \in Seq(Instr) /\ d # << >>
  BY <1>3, <1>6, <1>7, TheLast
<1>. QED BY <1>1, <1>5, <1>6, <1>12, <1>13

Loadable(p, u, c, x) ==
  /\ u \in Units /\ CodeRight(p, u, c) /\ x \in Storage
  /\ u = Main /\ HasInits(p) => c # << >>
  /\ Behind(c, Len(c), x)

LEMMA LoadGrows ==
  ASSUME NEW p, NEW u, NEW c, NEW x, NEW d, Loadable(p, u, c, x), d = Append(c, <<"load", x>>)
  PROVE  <<"load", x>> \in Instr /\ CodeRight(p, u, d)
<1>1. /\ u \in Units /\ CodeRight(p, u, c) /\ x \in Storage
      /\ u = Main /\ HasInits(p) => c # << >>
      /\ Behind(c, Len(c), x)
  BY DEF Loadable
<1>2. PICK y : y = <<"load", x>>
  OBVIOUS
<1>3. y \in Instr /\ y[1] = "load" /\ y[2] = x
  BY <1>1, <1>2 DEF Instr
<1>4. c \in Seq(Instr) /\ Grown(c, y, d)
  BY <1>1, <1>2, <1>3, Growing DEF CodeRight
<1>5. PICK n \in Nat : n = Len(c)
  BY <1>4 DEF Grown
<1>6. PICK k : k = n + 1
  OBVIOUS
<1>7. Behind(d, n, x)
  <2>1. CASE Ensured(c, n, x)
    <3>1. n \in 0..Len(c) /\ n <= n
      BY <1>5
    <3>2. Ensured(d, n, x)
      BY <1>4, <2>1, <3>1 DEF Grown
    <3>. QED BY <3>2 DEF Behind
  <2>2. CASE n > 0 /\ c[n][1] = "ensure" /\ c[n][2] = x
    <3>1. n \in 1..Len(c)
      BY <1>5, <2>2
    <3>2. d[n] = c[n]
      BY <1>4, <3>1 DEF Grown
    <3>. QED BY <2>2, <3>2 DEF Behind
  <2>. QED BY <1>1, <1>5, <2>1, <2>2 DEF Behind
<1>8. PlaceRight(p, u, d, Len(c) + 1)
  <2>1. d[k] = y /\ k - 1 = n
    BY <1>4, <1>5, <1>6 DEF Grown
  <2>2. LoadRight(d, k)
    BY <1>3, <1>7, <2>1 DEF LoadRight
  <2>3. PlaceRight(p, u, d, k)
    BY <1>1, <1>3, <2>1, <2>2 DEF PlaceRight
  <2>. QED BY <1>5, <1>6, <2>3
<1>9. d = Append(c, y) /\ y[1] # "init"
  BY <1>2, <1>3
<1>10. CodeRight(p, u, d)
  BY <1>1, <1>3, <1>8, <1>9, CodeGrows
<1>. QED BY <1>2, <1>3, <1>10

LEMMA PrepareStep ==
  ASSUME LowerInv, prepareString
  PROVE  LowerInv'
<1>. DEFINE c == code[unit]
            x == Subject
            t == tasks
            e == lsFnStrEnsured
            g == lsFnStrEnsured'
<1>1. /\ ~Emitted /\ t[next][1] = "check" /\ x = t[next][2]
      /\ Emit(Check(x)) /\ g = e \cup {x}
  BY DEF prepareString, Task, Subject
<1>2. /\ unit \in Units /\ next \in 1..Len(t) /\ next - 1 \in Nat
      /\ t[next] \in Job /\ TasksRight(program, unit, t) /\ Done(t, next - 1, c, e)
      /\ CodeRight(program, unit, c) /\ c \in Seq(Instr)
      /\ unit = Main /\ HasInits(program) => c # << >>
  BY <1>1, AtTask
<1>3. x \in Literal
  BY <1>1, <1>2, JobIs
<1>4. unit # Ctor
  BY <1>1, <1>2 DEF TasksRight
<1>5. x \in g /\ next = (next - 1) + 1
  BY <1>1, <1>2
<1>. HIDE DEF c, x, t, e, g
<1>6. \A j \in 1..Len(c) : c[j][1] \notin Jumps
  <2>. SUFFICES ASSUME NEW j \in 1..Len(c), c[j][1] \in Jumps PROVE FALSE
    OBVIOUS
  <2>1. Has(t, next - 1, c[j])
    BY <1>2 DEF Done
  <2>2. PICK k \in 1..(next - 1) : t[k][1] \in Jumps
    BY <2>1 DEF Has
  <2>3. k \in 1..Len(t) /\ ~(next < k)
    BY <1>2
  <2>. QED BY <1>1, <1>2, <1>4, <2>2, <2>3 DEF TasksRight
<1>7. \A d : TaskDone(t, next, d, g)
  BY <1>1, <1>5 DEF TaskDone
<1>8. CASE x \in e
  <2>1. Check(x) = << >> /\ g \subseteq e /\ e \subseteq g
    BY <1>1, <1>8 DEF Check, e
  <2>2. c = code[unit] \o Check(x)
    BY <1>2, <2>1 DEF c
  <2>3. Done(t, next, c, g)
    BY <1>2, <1>5, <1>7, <2>1, DoneStays
  <2>. QED BY <1>1, <1>2, <2>2, <2>3, Emission DEF g, t
<1>9. CASE x \notin e
  <2>1. Check(x) = << <<"ensure", x>> >>
    BY <1>9 DEF Check, e
  <2>2. PICK d : d = Append(c, <<"ensure", x>>)
    OBVIOUS
  <2>3. /\ d \in Seq(Instr) /\ d # << >> /\ d = c \o Check(x)
        /\ CodeRight(program, unit, d) /\ Done(t, next - 1, d, g)
    BY <1>1, <1>2, <1>3, <1>6, <2>1, <2>2, FirstCheck DEF c, t, e, g
  <2>4. Done(t, next, d, g)
    BY <1>2, <1>5, <1>7, <2>3, DoneStays
  <2>. QED BY <1>1, <2>3, <2>4, Emission DEF g, t, c
<1>. QED BY <1>8, <1>9

\* The pointer of x is read behind what was emitted just before.
LEMMA LoadAfter ==
  ASSUME LowerInv, ~Emitted, NEW is \in Seq(Instr), NEW b \in Seq(Instr), b = code[unit] \o is, NEW g, g = lsFnStrEnsured',
         NEW x, Loadable(program, unit, b, x), Done(tasks, next - 1, b, g), tasks[next][1] \in {"str", "object"},
         Emit(is \o << <<"load", x>> >>)
  PROVE  LowerInv'
<1>1. PICK c : c = code[unit]
  OBVIOUS
<1>2. PICK y : y = <<"load", x>>
  OBVIOUS
<1>3. PICK d : d = Append(b, y)
  OBVIOUS
<1>4. next \in 1..Len(tasks) /\ next - 1 \in Nat /\ c \in Seq(Instr)
  BY <1>1, AtTask
<1>5. PICK n \in Nat : n = next - 1
  BY <1>4
<1>6. next \in {n, n + 1}
  BY <1>4, <1>5
<1>7. y \in Instr /\ CodeRight(program, unit, d)
  BY <1>2, <1>3, LoadGrows
<1>8. y[1] \notin Jumps \cup {"init"}
  BY <1>2 DEF Jumps
<1>9. PICK t : t = tasks
  OBVIOUS
<1>10. Done(t, n, b, g) /\ g \subseteq Literal /\ g \subseteq g /\ \A l \in g : l \in g
  BY <1>5, <1>9 DEF Done
<1>11. TaskDone(t, next, d, g)
  BY <1>9 DEF TaskDone
<1>12. Further(t, n, b, g, y, d, g, next)
  BY ONLY b \in Seq(Instr), <1>3, <1>5, <1>6, <1>7, <1>8, <1>10, <1>11 DEF Further
<1>13. Done(t, next, d, g)
  BY <1>12, DoneGrows
<1>14. d = b \o <<y>> /\ d \in Seq(Instr) /\ d # << >>
  BY <1>3, <1>7, TheLast
<1>15. <<y>> \in Seq(Instr)
  BY <1>7
<1>16. d = c \o (is \o <<y>>)
  <2>1. (c \o is) \o <<y>> = c \o (is \o <<y>>)
    <3>1. c \in Seq(Instr) /\ is \in Seq(Instr)
      BY <1>4
    <3>. QED BY ONLY <1>15, <3>1, ConcatAssociative
  <2>. QED BY <1>1, <1>14, <2>1
<1>. QED BY <1>1, <1>2, <1>7, <1>9, <1>13, <1>14, <1>16, Emission

LEMMA StringStep ==
  ASSUME LowerInv, genString
  PROVE  LowerInv'
<1>. DEFINE x == Subject
            t == tasks
            e == lsFnStrEnsured
            g == lsFnStrEnsured'
<1>1. /\ ~Emitted /\ t[next][1] = "str" /\ x = t[next][2]
      /\ Emit(Check(x) \o << <<"load", x>> >>) /\ g = e \cup {x}
  BY DEF genString, Task, Subject
<1>2. PICK c : c = code[unit]
  OBVIOUS
<1>3. /\ unit \in Units /\ next \in 1..Len(t) /\ next - 1 \in Nat
      /\ t[next] \in Job /\ TasksRight(program, unit, t) /\ Done(t, next - 1, c, e)
      /\ CodeRight(program, unit, c) /\ c \in Seq(Instr)
      /\ unit = Main /\ HasInits(program) => c # << >>
  BY <1>1, <1>2, AtTask
<1>4. x \in Literal /\ x \in Storage /\ x \notin Aggregate
  BY <1>1, <1>3, JobIs, NamesAssumption DEF Storage
<1>5. x \in g /\ next = (next - 1) + 1 /\ g \subseteq Literal /\ e \subseteq g
  BY <1>1, <1>3, <1>4 DEF Done
<1>. HIDE DEF x, t, e, g
<1>6. Check(x) \in Seq(Instr)
  <2>1. <<"ensure", x>> \in Instr
    BY <1>4 DEF Instr
  <2>2. << <<"ensure", x>> >> \in Seq(Instr) /\ << >> \in Seq(Instr)
    BY <2>1
  <2>. QED BY <2>2 DEF Check
<1>7. ASSUME NEW b \in Seq(Instr), b = c \o Check(x), CodeRight(program, unit, b), Ensured(b, Len(b), x),
             Done(t, next - 1, b, g), unit = Main /\ HasInits(program) => b # << >>
      PROVE  LowerInv'
  <2>1. Loadable(program, unit, b, x)
    BY <1>3, <1>4, <1>7 DEF Loadable, Behind
  <2>. QED BY <1>1, <1>2, <1>6, <1>7, <2>1, LoadAfter DEF t, g
<1>8. CASE x \in e
  <2>1. Check(x) = << >> /\ g = e
    BY <1>1, <1>8 DEF Check, e
  <2>2. c = c \o Check(x)
    BY <1>3, <2>1
  <2>3. Ensured(c, Len(c), x)
    BY <1>3, <1>8 DEF Done
  <2>. QED BY <1>3, <1>7, <2>1, <2>2, <2>3
<1>9. CASE x \notin e
  <2>1. Check(x) = << <<"ensure", x>> >>
    BY <1>9 DEF Check, e
  <2>2. unit = Ctor
    <3>. SUFFICES ASSUME unit # Ctor PROVE FALSE
      OBVIOUS
    <3>1. Has(t, next - 1, <<"check", x>>)
      BY <1>1, <1>3 DEF TasksRight
    <3>2. PICK k \in 1..(next - 1) : t[k][1] = "check" /\ t[k][2] = x
      BY <3>1 DEF Has
    <3>. QED BY <1>3, <1>9, <3>2 DEF Done
  <2>3. \A j \in 1..Len(c) : c[j][1] \notin Jumps
    BY <1>3, <2>2, NoJumpsInCtor
  <2>4. PICK d : d = Append(c, <<"ensure", x>>)
    OBVIOUS
  <2>5. /\ d \in Seq(Instr) /\ d # << >> /\ d = c \o Check(x)
        /\ CodeRight(program, unit, d) /\ Ensured(d, Len(d), x) /\ Done(t, next - 1, d, g)
    BY <1>1, <1>2, <1>3, <1>4, <2>1, <2>3, <2>4, FirstCheck DEF t, e, g
  <2>. QED BY <1>7, <2>5
<1>. QED BY <1>8, <1>9

LEMMA OneMore ==
  ASSUME LowerInv, ~Emitted, NEW y \in Instr, NEW d, d = Append(code[unit], y), CodeRight(program, unit, d),
         TaskDone(tasks, next, d, lsFnStrEnsured), y[1] \in Jumps \cup {"init"} => Has(tasks, next, y),
         Emit(<<y>>), UNCHANGED lsFnStrEnsured
  PROVE  LowerInv'
<1>. DEFINE t == tasks
            e == lsFnStrEnsured
<1>1. PICK c : c = code[unit]
  OBVIOUS
<1>2. PICK n \in Nat : n = next - 1
  BY AtTask
<1>3. c \in Seq(Instr) /\ Done(t, n, c, e) /\ next \in 1..Len(t)
  BY <1>1, <1>2, AtTask
<1>4. e \subseteq Literal /\ next \in {n, n + 1}
  BY <1>2, <1>3 DEF Done
<1>5. /\ TaskDone(t, next, d, e) /\ (y[1] \in Jumps \cup {"init"} => Has(t, next, y)) /\ d = Append(c, y)
      /\ e \subseteq e /\ \A l \in e : l \in e
  BY <1>1
<1>. HIDE DEF t, e
<1>6. Further(t, n, c, e, y, d, e, next)
  BY ONLY <1>2, <1>3, <1>4, <1>5, y \in Instr DEF Further
<1>7. Done(t, next, d, e)
  BY <1>6, DoneGrows
<1>8. d = c \o <<y>> /\ d \in Seq(Instr) /\ d # << >>
  BY <1>3, <1>5, TheLast
<1>. QED BY <1>1, <1>7, <1>8, Emission DEF t, e

\* The storage of x is made sure of, wherever that is.
LEMMA EnsureGrows ==
  ASSUME LowerInv, ~Emitted, tasks[next][1] \in {"place", "object"}, NEW x \in Storage,
         NEW d, d = Append(code[unit], <<"ensure", x>>)
  PROVE  /\ <<"ensure", x>> \in Instr /\ CodeRight(program, unit, d) /\ d \in Seq(Instr) /\ d # << >>
         /\ d = code[unit] \o << <<"ensure", x>> >>
         /\ Len(d) \in Nat /\ Len(d) >= 1 /\ d[Len(d)] = <<"ensure", x>>
<1>1. PICK c : c = code[unit]
  OBVIOUS
<1>2. PICK y : y = <<"ensure", x>>
  OBVIOUS
<1>3. /\ unit \in Units /\ CodeRight(program, unit, c) /\ c \in Seq(Instr)
      /\ unit = Main /\ HasInits(program) => c # << >>
  BY <1>1, AtTask
<1>4. y \in Instr /\ y[1] = "ensure" /\ y[2] = x /\ d = Append(c, y)
  BY <1>1, <1>2 DEF Instr
<1>5. Grown(c, y, d)
  BY <1>3, <1>4, Growing
<1>6. Len(c) \in Nat /\ Len(d) = Len(c) + 1 /\ d[Len(c) + 1] = y
  BY <1>5 DEF Grown
<1>7. PlaceRight(program, unit, d, Len(c) + 1)
  BY <1>4, <1>6 DEF PlaceRight, LoadRight
<1>8. CodeRight(program, unit, d)
  BY <1>3, <1>4, <1>7, CodeGrows
<1>9. d = c \o <<y>> /\ d \in Seq(Instr) /\ d # << >>
  BY <1>3, <1>4, TheLast
<1>10. Len(d) \in Nat /\ Len(d) >= 1 /\ d[Len(d)] = y
  BY <1>6
<1>11. y \in Instr
  BY <1>4
<1>. QED BY <1>1, <1>2, <1>8, <1>9, <1>10, <1>11

LEMMA PlaceStep ==
  ASSUME LowerInv, ensureAggGlobal
  PROVE  LowerInv'
<1>. DEFINE x == Subject
<1>1. /\ ~Emitted /\ tasks[next][1] = "place" /\ x = tasks[next][2]
      /\ Emit(<< <<"ensure", x>> >>) /\ UNCHANGED lsFnStrEnsured
  BY DEF ensureAggGlobal, Task, Subject
<1>. HIDE DEF x
<1>2. x \in Storage
  BY <1>1, AtTask, JobIs DEF Storage
<1>3. PICK d : d = Append(code[unit], <<"ensure", x>>)
  OBVIOUS
<1>4. <<"ensure", x>> \in Instr /\ CodeRight(program, unit, d)
  BY <1>1, <1>2, <1>3, EnsureGrows
<1>5. PICK y \in Instr : y = <<"ensure", x>>
  BY <1>4
<1>6. y[1] \notin Jumps \cup {"init"} /\ Emit(<<y>>) /\ d = Append(code[unit], y)
  BY <1>1, <1>3, <1>5 DEF Jumps
<1>7. TaskDone(tasks, next, d, lsFnStrEnsured)
  BY <1>1 DEF TaskDone
<1>. QED BY <1>1, <1>4, <1>6, <1>7, OneMore

LEMMA TwoOf ==
  ASSUME NEW S, NEW x \in S, NEW y \in S
  PROVE  Append(<<x>>, y) = <<x, y>>
<1>1. PICK s : s = Append(<<x>>, y)
  OBVIOUS
<1>2. PICK t : t = <<x, y>>
  OBVIOUS
<1>3. s \in Seq(S) /\ Len(s) = 2 /\ s[1] = x /\ s[2] = y
  BY <1>1
<1>4. t \in Seq(S) /\ Len(t) = 2 /\ t[1] = x /\ t[2] = y
  BY <1>2
<1>5. \A i \in 1..2 : s[i] = t[i]
  BY <1>3, <1>4
<1>6. s = t
  BY <1>3, <1>4, <1>5, SeqEqual
<1>. QED BY <1>1, <1>2, <1>6

LEMMA IdentStep ==
  ASSUME LowerInv, genIdent
  PROVE  LowerInv'
<1>. DEFINE x == Subject
            g == lsFnStrEnsured'
<1>1. /\ ~Emitted /\ tasks[next][1] = "object" /\ x = tasks[next][2] /\ g = lsFnStrEnsured
      /\ Emit(<< <<"ensure", x>>, <<"load", x>> >>)
  BY DEF genIdent, Task, Subject
<1>. HIDE DEF x, g
<1>2. x \in Storage
  BY <1>1, AtTask, JobIs DEF Storage
<1>3. PICK c : c = code[unit]
  OBVIOUS
<1>4. PICK d : d = Append(c, <<"ensure", x>>)
  OBVIOUS
<1>5. /\ <<"ensure", x>> \in Instr /\ CodeRight(program, unit, d) /\ d \in Seq(Instr) /\ d # << >>
      /\ d = c \o << <<"ensure", x>> >>
      /\ Len(d) \in Nat /\ Len(d) >= 1 /\ d[Len(d)] = <<"ensure", x>>
  BY <1>1, <1>2, <1>3, <1>4, EnsureGrows
<1>6. PICK y \in Instr : y = <<"ensure", x>>
  BY <1>5
<1>7. PICK n \in Nat : n = next - 1
  BY <1>1, AtTask
<1>8. PICK t : t = tasks
  OBVIOUS
<1>9. c \in Seq(Instr) /\ Done(t, n, c, g) /\ unit \in Units
  BY <1>1, <1>3, <1>7, <1>8, AtTask
<1>10. y[1] \notin Jumps \cup {"init"} /\ n \in {n, n + 1} /\ n # n + 1
  BY <1>6 DEF Jumps
<1>11. d = Append(c, y) /\ g \subseteq Literal /\ g \subseteq g /\ \A l \in g : l \in g
  BY <1>4, <1>6, <1>9 DEF Done
<1>12. Further(t, n, c, g, y, d, g, n)
  BY ONLY <1>6, <1>7, <1>9, <1>10, <1>11 DEF Further
<1>13. Done(tasks, next - 1, d, g)
  BY <1>7, <1>12, <1>8, DoneGrows
<1>14. Loadable(program, unit, d, x)
  <2>1. Len(d) > 0 /\ d[Len(d)][1] = "ensure" /\ d[Len(d)][2] = x
    BY <1>5
  <2>2. Behind(d, Len(d), x)
    BY <2>1 DEF Behind
  <2>. QED BY <1>2, <1>5, <1>9, <2>2 DEF Loadable
<1>15. PICK is \in Seq(Instr) : is = << <<"ensure", x>> >>
  <2>1. <<y>> \in Seq(Instr)
    BY <1>6
  <2>. QED BY <1>6, <2>1
<1>16. Emit(is \o << <<"load", x>> >>)
  <2>1. PICK z : z = <<"load", x>>
    OBVIOUS
  <2>2. PICK q : q = Append(<<y>>, z)
    OBVIOUS
  <2>3. z \in Instr /\ <<y>> \in Seq(Instr)
    BY <1>2, <1>6, <2>1 DEF Instr
  <2>4. q = <<y, z>>
    BY <1>6, <2>2, <2>3, TwoOf
  <2>5. q = <<y>> \o <<z>>
    BY <2>2, <2>3, TheLast
  <2>. QED BY <1>1, <1>6, <1>15, <2>1, <2>4, <2>5
<1>17. d = code[unit] \o is
  BY <1>3, <1>5, <1>15
<1>. QED BY <1>1, <1>5, <1>13, <1>14, <1>16, <1>17, LoadAfter DEF g

LEMMA OtherStep ==
  ASSUME LowerInv, genOther
  PROVE  LowerInv'
<1>. DEFINE t == tasks
<1>1. /\ ~Emitted /\ t[next][1] \in {"assign", "init", "branch", "jump", "label", "call", "return"}
      /\ Emit(<<t[next]>>) /\ UNCHANGED lsFnStrEnsured
  BY DEF genOther, Task
<1>2. PICK c : c = code[unit]
  OBVIOUS
<1>3. PICK y : y = t[next]
  OBVIOUS
<1>4. /\ unit \in Units /\ next \in 1..Len(t) /\ y \in Job /\ TasksRight(program, unit, t)
      /\ CodeRight(program, unit, c) /\ c \in Seq(Instr) /\ Done(t, next - 1, c, lsFnStrEnsured) /\ next - 1 \in Nat
      /\ next = 1 => c = << >>
      /\ unit = Main /\ HasInits(program) /\ c = << >> => y = <<"call", Ctor>>
  BY <1>1, <1>2, <1>3, AtTask
<1>. HIDE DEF t
<1>5. y \in Instr
  <2>1. /\ y = <<y[1], y[2]>> /\ (y[1] \in {"assign", "init"} => y[2] \in Object)
        /\ y[1] \in {"branch", "jump", "label"} => y[2] \in Label
        /\ y[1] = "call" => y[2] \in Units
        /\ y[1] = "return" => y[2] = Ctor
    BY <1>4, JobIs
  <2>. QED BY <1>1, <1>3, <2>1 DEF Instr
<1>6. PICK d : d = Append(c, y)
  OBVIOUS
<1>7. Len(c) \in Nat /\ d[Len(c) + 1] = y /\ Len(d) = Len(c) + 1
  <2>1. Grown(c, y, d)
    BY <1>4, <1>5, <1>6, Growing
  <2>. QED BY <2>1 DEF Grown
<1>8. y[1] = "init" => unit = Ctor
  BY <1>3, <1>4 DEF TasksRight
<1>9. PlaceRight(program, unit, d, Len(c) + 1)
  <2>1. LoadRight(d, Len(c) + 1)
    BY <1>1, <1>3, <1>7 DEF LoadRight
  <2>2. unit = Ctor => y[1] \in {"ensure", "load", "init"}
    BY <1>1, <1>3, <1>4 DEF TasksRight
  <2>3. y[1] = "call" /\ y[2] = Ctor => unit = Main /\ Len(c) + 1 = 1 /\ HasInits(program)
    <3>. SUFFICES ASSUME y[1] = "call", y[2] = Ctor PROVE unit = Main /\ Len(c) + 1 = 1 /\ HasInits(program)
      OBVIOUS
    <3>1. unit = Main /\ next = 1 /\ HasInits(program)
      BY <1>3, <1>4 DEF TasksRight
    <3>2. c = << >>
      BY <1>4, <3>1
    <3>3. Len(c) = 0
      BY <3>2
    <3>. QED BY <3>1, <3>3
  <2>4. y[1] = "call" /\ y[2] = Main => MainIsCalled(program)
    BY <1>3, <1>4 DEF TasksRight
  <2>. QED BY <1>7, <1>8, <2>1, <2>2, <2>3, <2>4 DEF PlaceRight
<1>10. ASSUME y[1] = "init", Has(c, Len(c), y) PROVE FALSE
  <2>1. PICK j \in 1..Len(c) : c[j][1] = "init" /\ c[j][2] = y[2]
    BY <1>10 DEF Has
  <2>2. Has(t, next - 1, c[j])
    BY <1>4, <2>1 DEF Done
  <2>3. PICK k \in 1..(next - 1) : t[k][1] = "init" /\ t[k][2] = y[2]
    BY <2>1, <2>2 DEF Has
  <2>4. k \in 1..Len(t) /\ k # next
    BY <1>4
  <2>. QED BY <1>3, <1>4, <1>8, <1>10, <2>3, <2>4 DEF TasksRight
<1>11. unit = Main /\ HasInits(program) /\ c = << >> => y[1] = "call" /\ y[2] = Ctor
  BY <1>4
<1>12. CodeRight(program, unit, d)
  BY <1>4, <1>5, <1>6, <1>9, <1>10, <1>11, CodeGrows
<1>13. Has(t, next, y)
  BY <1>3, <1>4 DEF Has
<1>14. TaskDone(t, next, d, lsFnStrEnsured)
  <2>1. Len(c) + 1 \in 1..Len(d)
    BY <1>7
  <2>2. Has(d, Len(d), y)
    BY <1>7, <2>1 DEF Has
  <2>. QED BY <1>1, <1>3, <2>2 DEF TaskDone, t
<1>. QED BY <1>1, <1>2, <1>3, <1>5, <1>6, <1>12, <1>13, <1>14, OneMore DEF t

LEMMA NothingStep ==
  ASSUME LowerInv, genNothing
  PROVE  LowerInv'
<1>1. ~Emitted /\ tasks[next][1] \in {"sizeof", "none"} /\ Emit(<< >>) /\ UNCHANGED lsFnStrEnsured
  BY DEF genNothing, Task
<1>2. PICK c : c = code[unit]
  OBVIOUS
<1>3. PICK n \in Nat : n = next - 1
  BY <1>1, AtTask
<1>4. /\ CodeRight(program, unit, c) /\ c \in Seq(Instr) /\ Done(tasks, n, c, lsFnStrEnsured)
      /\ unit = Main /\ HasInits(program) => c # << >>
      /\ next = n + 1
  BY <1>1, <1>2, <1>3, AtTask
<1>5. TaskDone(tasks, n + 1, c, lsFnStrEnsured)
  BY <1>1, <1>4 DEF TaskDone
<1>6. Done(tasks, n + 1, c, lsFnStrEnsured)
  BY <1>4, <1>5, DoneStays
<1>7. c = c \o << >>
  BY <1>4
<1>. QED BY <1>1, <1>2, <1>4, <1>6, <1>7, Emission

LEMMA Completed ==
  ASSUME LowerInv, Emitted, unit # Nothing
  PROVE  Complete(code[unit])
<1>. DEFINE t == tasks
<1>1. PICK c : c = code[unit]
  OBVIOUS
<1>2. TasksRight(program, unit, t) /\ Done(t, next - 1, c, lsFnStrEnsured)
  BY <1>1 DEF LowerInv, LowerRight
<1>3. Len(t) \in Nat
  BY <1>2, LenProperties DEF TasksRight
<1>4. next - 1 = Len(t)
  BY <1>3 DEF LowerInv, LowerType, Emitted
<1>. HIDE DEF t
<1>5. Done(t, Len(t), c, lsFnStrEnsured)
  BY <1>2, <1>4
<1>6. ASSUME NEW i \in 1..Len(c), c[i][1] \in Jumps PROVE Has(c, Len(c), <<"label", c[i][2]>>)
  <2>1. Has(t, Len(t), c[i])
    BY <1>5, <1>6 DEF Done
  <2>2. PICK k \in 1..Len(t) : t[k][1] = c[i][1] /\ t[k][2] = c[i][2]
    BY <2>1 DEF Has
  <2>3. Has(t, Len(t), <<"label", c[i][2]>>)
    BY <1>2, <1>6, <2>2 DEF TasksRight
  <2>4. PICK m \in 1..Len(t) : t[m][1] = "label" /\ t[m][2] = c[i][2]
    BY <2>3 DEF Has
  <2>5. Has(c, Len(c), t[m])
    BY <1>5, <2>4 DEF Done
  <2>. QED BY <2>4, <2>5 DEF Has
<1>. QED BY <1>1, <1>6 DEF Complete

LEMMA NoCode ==
  ASSUME NEW p, NEW u
  PROVE  CodeRight(p, u, << >>) /\ Complete(<< >>)
<1>1. << >> \in Seq(Instr) /\ Len(<< >>) = 0
  OBVIOUS
<1>2. 1..0 = {}
  OBVIOUS
<1>. QED BY <1>1, <1>2 DEF CodeRight, Complete

LEMMA Beginning ==
  ASSUME LowerInv, Emitted, pending # << >>, NEW u, u = Head(pending), NEW ts, Begin(u, ts),
         TasksRight(program, u, ts)
  PROVE  LowerRight' /\ (lsNeedGlobalInit' \in BOOLEAN => LowerType')
<1>1. /\ unit' = u /\ tasks' = ts /\ next' = 1 /\ pending' = Tail(pending) /\ program' = program
      /\ lsFnStrEnsured' = {} /\ code' = [code EXCEPT ![u] = << >>]
  BY DEF Begin, AtEntry
<1>2. pending \in Seq(Units) /\ code \in [Units -> Seq(Instr)] /\ program \in Program
  BY DEF LowerInv, LowerType
<1>3. u \in Units /\ pending' \in Seq(Units)
  BY <1>1, <1>2, HeadTailProperties
<1>4. Len(ts) \in Nat
  BY LenProperties DEF TasksRight
<1>5. /\ code' \in [Units -> Seq(Instr)] /\ code'[u] = << >>
      /\ \A v \in Units : v # u => code'[v] = code[v]
  BY <1>1, <1>2, <1>3
<1>6. LowerType' \/ lsNeedGlobalInit' \notin BOOLEAN
  <2>1. next' \in Nat \ {0} /\ next' <= Len(tasks') + 1
    BY <1>1, <1>4
  <2>. QED BY <1>1, <1>2, <1>3, <1>5, <2>1 DEF LowerType
<1>7. \A v \in Units : CodeRight(program', v, code'[v])
  BY <1>1, <1>5, NoCode DEF LowerInv, LowerRight
<1>8. ASSUME NEW v \in Units, v # u PROVE Complete(code'[v])
  <2>1. CASE unit = Nothing
    <3>1. code[v] = << >>
      BY <2>1 DEF LowerInv, LowerRight
    <3>. QED BY <1>1, <1>5, <1>8, <3>1, NoCode
  <2>2. CASE unit # Nothing
    <3>1. Complete(code[v])
      BY <2>2, Completed DEF LowerInv, LowerRight
    <3>. QED BY <1>1, <1>5, <1>8, <3>1
  <2>. QED BY <2>1, <2>2
<1>9. u # Nothing
  BY <1>3, NamesAssumption DEF Units, Ctor, Nothing
<1>10. Done(ts, 0, << >>, {})
  <2>1. Len(<< >>) = 0 /\ 1..0 = {}
    OBVIOUS
  <2>. QED BY <2>1 DEF Done
<1>11. next' - 1 = 0
  BY <1>1
<1>12. LowerRight'
  BY <1>1, <1>3, <1>5, <1>7, <1>8, <1>9, <1>10, <1>11 DEF LowerRight
<1>. QED BY <1>6, <1>12

LEMMA CtorStep ==
  ASSUME LowerInv, StraightInits, emitGlobalCtor
  PROVE  LowerInv'
<1>1. Emitted /\ pending # << >> /\ Head(pending) = Ctor /\ lsNeedGlobalInit' = TRUE /\ Begin(Ctor, CtorTasks)
  BY DEF emitGlobalCtor
<1>2. pending' = Tail(pending) /\ program' = program /\ unit' = Ctor
  BY <1>1 DEF Begin
<1>3. TasksRight(program, Ctor, CtorTasks)
  BY CtorTasksRight DEF LowerInv
<1>4. LowerRight' /\ LowerType'
  BY <1>1, <1>3, Beginning
<1>5. pending \in Seq(Units)
  BY DEF LowerInv, LowerType
<1>6. HasInits(program)
  <2>1. 1 \in 1..Len(pending) /\ pending[1] = Ctor
    BY <1>1, <1>5, EmptySeq
  <2>. QED BY <2>1 DEF LowerInv, CtorFirst
<1>7. Ctor # Nothing
  BY DEF Ctor, Nothing
<1>8. CtorFirst'
  BY <1>1, <1>2, <1>6, <1>7 DEF CtorFirst
<1>. QED BY <1>4, <1>8 DEF LowerInv

LEMMA FunctionStep ==
  ASSUME LowerInv, genFunction
  PROVE  LowerInv'
<1>. DEFINE u == Head(pending)
<1>1. /\ Emitted /\ pending # << >> /\ u # Ctor /\ lsNeedGlobalInit' = lsNeedGlobalInit
      /\ Begin(u, FunctionTasks(u))
  BY DEF genFunction
<1>2. pending' = Tail(pending) /\ program' = program /\ unit' = u
  BY <1>1 DEF Begin
<1>3. pending \in Seq(Units) /\ lsNeedGlobalInit \in BOOLEAN
  BY DEF LowerInv, LowerType
<1>4. u \in Function /\ u # Nothing
  <2>1. u \in Units
    BY <1>1, <1>3, HeadTailProperties
  <2>. QED BY <1>1, <2>1, NamesAssumption DEF Units
<1>5. lsNeedGlobalInit <=> HasInits(program)
  BY <1>1 DEF LowerInv, CtorFirst
<1>6. TasksRight(program, u, FunctionTasks(u))
  BY <1>4, <1>5, FunctionTasksRight DEF LowerInv
<1>7. LowerRight' /\ LowerType'
  BY <1>1, <1>3, <1>6, Beginning
<1>8. \A i \in 1..Len(pending') : pending'[i] = Ctor => HasInits(program)
  <2>1. \A i \in 1..Len(Tail(pending)) : i + 1 \in 1..Len(pending) /\ Tail(pending)[i] = pending[i + 1]
    BY <1>1, <1>3
  <2>. QED BY <1>2, <2>1 DEF LowerInv, CtorFirst
<1>9. CtorFirst'
  BY <1>1, <1>2, <1>4, <1>5, <1>8 DEF CtorFirst
<1>. QED BY <1>7, <1>9 DEF LowerInv

LEMMA LowerSteps ==
  ASSUME LowerInv, StraightInits, Lower
  PROVE  LowerInv'
BY CtorStep, FunctionStep, PrepareStep, StringStep, PlaceStep, IdentStep, OtherStep, NothingStep DEF Lower

LEMMA LowerStart ==
  ASSUME Init
  PROVE  LowerInv
<1>. DEFINE p == program
            h == IF p.inits = << >> THEN << >> ELSE <<Ctor>>
<1>1. /\ p \in Program /\ pending = h \o p.order /\ unit = Nothing /\ tasks = << >> /\ next = 1
      /\ lsNeedGlobalInit = FALSE /\ code = [f \in Units |-> << >>]
  BY DEF Init, Units
<1>2. p.order \in Seq(Units)
  <2>1. p.order \in Seq(Function)
    BY <1>1, ProgramIs
  <2>2. Function \subseteq Units
    BY DEF Units
  <2>. QED BY <2>1, <2>2
<1>3. h \in Seq(Units)
  <2>1. Ctor \in Units
    BY DEF Units
  <2>. QED BY <2>1
<1>4. pending \in Seq(Units)
  BY <1>1, <1>2, <1>3
<1>5. LowerType
  <2>1. code \in [Units -> Seq(Instr)]
    BY <1>1
  <2>2. next \in Nat \ {0} /\ next <= Len(tasks) + 1
    BY <1>1
  <2>. QED BY <1>1, <1>4, <2>1, <2>2 DEF LowerType
<1>6. LowerRight
  BY <1>1, NoCode DEF LowerRight
<1>7. CtorFirst
  <2>1. CASE HasInits(p)
    <3>1. h = <<Ctor>>
      BY <2>1 DEF HasInits
    <3>2. PICK q \in Seq(Units) : q = p.order
      BY <1>2
    <3>3. <<Ctor>> \in Seq(Units) /\ Len(<<Ctor>>) = 1 /\ <<Ctor>>[1] = Ctor
      BY DEF Units
    <3>4. Len(<<Ctor>> \o q) = 1 + Len(q) /\ (<<Ctor>> \o q)[1] = Ctor /\ Len(q) \in Nat
      BY <3>3, ConcatProperties, LenProperties
    <3>5. pending = <<Ctor>> \o q
      BY <1>1, <3>1, <3>2
    <3>6. pending # << >>
      BY <3>4, <3>5
    <3>7. Head(pending) = Ctor
      BY <3>4, <3>5
    <3>. QED BY <1>1, <2>1, <3>6, <3>7 DEF CtorFirst
  <2>2. CASE ~HasInits(p)
    <3>1. h = << >>
      BY <2>2 DEF HasInits
    <3>2. p.order \in Seq(Function)
      BY <1>1, ProgramIs
    <3>3. pending = p.order
      <4>1. PICK q \in Seq(Function) : q = p.order
        BY <3>2
      <4>2. << >> \o q = q
        OBVIOUS
      <4>. QED BY <1>1, <3>1, <4>1, <4>2
    <3>4. \A i \in 1..Len(pending) : pending[i] \in Function
      BY <3>2, <3>3, ElementOfSeq
    <3>. QED BY <1>1, <2>2, <3>4, NamesAssumption DEF CtorFirst
  <2>. QED BY <2>1, <2>2
<1>. QED BY <1>5, <1>6, <1>7 DEF LowerInv

(* ---- the compiled program ---- *)

LEMMA LowerKept ==
  ASSUME LowerInv, UNCHANGED <<program, lowerVars>>
  PROVE  LowerInv'
<1>1. LowerType'
  BY DEF LowerInv, LowerType, lowerVars
<1>2. LowerRight'
  BY DEF LowerInv, LowerRight, lowerVars
<1>3. CtorFirst'
  BY DEF LowerInv, CtorFirst, lowerVars
<1>. QED BY <1>1, <1>2, <1>3 DEF LowerInv

LEMMA AllComplete ==
  ASSUME LowerInv, pending = << >>, Emitted, NEW u \in Units
  PROVE  CodeRight(program, u, code[u]) /\ Complete(code[u])
<1>1. CodeRight(program, u, code[u])
  BY DEF LowerInv, LowerRight
<1>2. CASE unit = Nothing
  <2>1. code[u] = << >>
    BY <1>2 DEF LowerInv, LowerRight
  <2>. QED BY <1>1, <2>1, NoCode
<1>3. CASE unit # Nothing
  BY <1>1, <1>3, Completed DEF LowerInv, LowerRight
<1>. QED BY <1>2, <1>3

\* The call on top of the stack, in its function's code c, at its place n.
Here(c, n) ==
  /\ stack \in Seq(Frame) /\ Depth \in Nat /\ Depth >= 1 /\ Top \in Frame /\ Top = [f |-> Top.f, at |-> Top.at]
  /\ Top.f \in Units /\ c = code[Top.f] /\ n = Top.at /\ n \in Nat \ {0}
  /\ c \in Seq(Instr) /\ Len(c) \in Nat /\ CodeRight(program, Top.f, c) /\ Complete(c) /\ Passed(Top)
  /\ running /\ program \in Program

LEMMA OnTop ==
  ASSUME IInv, stack # << >>, NEW c, c = code[Top.f], NEW n, n = Top.at
  PROVE  Here(c, n)
<1>1. stack \in Seq(Frame) /\ \A i \in 1..Len(stack) : Passed(stack[i])
  BY DEF IInv, RunInv, StackRight
<1>2. Depth \in Nat /\ Depth >= 1
  <2>1. Len(stack) \in Nat /\ Len(stack) # 0
    BY <1>1, EmptySeq, LenProperties
  <2>. QED BY <2>1 DEF Depth
<1>3. Depth \in 1..Len(stack)
  BY <1>2 DEF Depth
<1>4. Top \in Frame /\ Passed(Top)
  BY <1>1, <1>3, ElementOfSeq DEF Top
<1>5. Top.f \in Units /\ n \in Nat \ {0} /\ Top = [f |-> Top.f, at |-> Top.at]
  BY <1>4 DEF Frame
<1>6. running /\ pending = << >> /\ Emitted /\ program \in Program
  BY DEF IInv, RunInv, LowerInv, LowerType
<1>7. CodeRight(program, Top.f, c) /\ Complete(c)
  BY <1>5, <1>6, AllComplete DEF IInv
<1>8. c \in Seq(Instr) /\ Len(c) \in Nat
  BY <1>7, LenProperties DEF CodeRight
<1>. QED BY <1>1, <1>2, <1>4, <1>5, <1>6, <1>7, <1>8 DEF Here

\* And the instruction y there.
Instruction(c, n, y) ==
  /\ Here(c, n) /\ stack # << >> /\ n \in 1..Len(c) /\ y = c[n] /\ y \in Instr /\ y[2] = Arg
  /\ y[1] \in {"ensure", "load"} => Arg \in Storage
  /\ y[1] \in {"assign", "init"} => Arg \in Object
  /\ y[1] \in {"branch", "jump", "label"} => Arg \in Label
  /\ y[1] = "call" => Arg \in Units
  /\ PlaceRight(program, Top.f, c, n)

LEMMA AtInstruction ==
  ASSUME IInv, Inside, NEW c, c = code[Top.f], NEW n, n = Top.at, NEW y, y = c[n]
  PROVE  Instruction(c, n, y)
<1>1. Here(c, n) /\ stack # << >>
  BY OnTop DEF Inside
<1>2. c \in Seq(Instr) /\ Len(c) \in Nat /\ n \in Nat \ {0} /\ CodeRight(program, Top.f, c)
  BY <1>1 DEF Here
<1>3. n \in 1..Len(c)
  BY <1>2 DEF Inside
<1>4. y \in Instr /\ y[2] = Arg
  BY <1>2, <1>3, ElementOfSeq DEF Arg
<1>5. PlaceRight(program, Top.f, c, n)
  BY <1>2, <1>3 DEF CodeRight
<1>. QED BY <1>1, <1>3, <1>4, <1>5, InstrIs DEF Instruction

Put(s, d, a, r) ==
  s \in Seq(Frame) /\ d = Len(s) /\ d \in Nat /\ d >= 1 /\ a \in Nat \ {0} /\ r = [s EXCEPT ![d].at = a]

LEMMA SetTop ==
  ASSUME NEW s, NEW d, NEW a, NEW r, Put(s, d, a, r)
  PROVE  /\ r \in Seq(Frame) /\ Len(r) = d /\ r[d] = [f |-> s[d].f, at |-> a]
         /\ \A i \in 1..d : i # d => r[i] = s[i]
<1>1. s \in Seq(Frame) /\ d = Len(s) /\ d \in Nat /\ d >= 1 /\ a \in Nat \ {0} /\ r = [s EXCEPT ![d].at = a]
  BY DEF Put
<1>2. d \in 1..Len(s) /\ DOMAIN s = 1..d
  BY <1>1, LenProperties
<1>3. s[d] \in Frame
  BY <1>1, <1>2, ElementOfSeq
<1>4. PICK w : w = [s[d] EXCEPT !.at = a]
  OBVIOUS
<1>5. w = [f |-> s[d].f, at |-> a] /\ w \in Frame
  BY <1>1, <1>3, <1>4 DEF Frame
<1>6. r = [s EXCEPT ![d] = w]
  BY <1>1, <1>4
<1>7. r \in Seq(Frame) /\ Len(r) = d
  BY <1>1, <1>2, <1>5, <1>6, ExceptSeq
<1>8. r[d] = w /\ \A i \in 1..d : i # d => r[i] = s[i]
  BY <1>1, <1>2, <1>6
<1>. QED BY <1>5, <1>7, <1>8

\* Storage once made stays.
Keeps == program' = program /\ code' = code /\ \A l : ptr[l] # Null => ptr'[l] # Null

LEMMA PassedStays ==
  ASSUME Keeps, NEW fr, Passed(fr)
  PROVE  Passed(fr)'
BY DEF Keeps, Passed, PassedAll, PassedLast

LEMMA NewPlace ==
  ASSUME Keeps, NEW c, NEW n, NEW y, Instruction(c, n, y), NEW a \in Nat \ {0},
         a = n + 1 \/ (y[1] \in Jumps /\ a \in 1..Len(c) /\ c[a] = <<"label", Arg>>),
         y[1] = "ensure" => ptr'[y[2]] # Null,
         NEW fr, fr = [f |-> Top.f, at |-> a]
  PROVE  Passed(fr)'
<1>1. /\ Passed(Top) /\ c = code[Top.f] /\ n = Top.at /\ n \in 1..Len(c) /\ y = c[n] /\ Len(c) \in Nat /\ n \in Nat
  BY DEF Instruction, Here
<1>2. fr.f = Top.f /\ fr.at = a
  OBVIOUS
<1>3. ASSUME NEW j \in 1..Len(c), j < a, c[j][1] = "ensure", Straight(c, j) PROVE ptr'[c[j][2]] # Null
  <2>1. CASE j < n
    BY <1>1, <1>3, <2>1 DEF Passed, PassedAll, Keeps
  <2>2. CASE j = n
    BY <1>1, <1>3, <2>2
  <2>3. CASE n < j
    <3>1. n \in 1..(j - 1) /\ a # n + 1
      BY <1>1, <1>3, <2>3
    <3>. QED BY <1>1, <1>3, <3>1 DEF Straight
  <2>. QED BY <1>1, <2>1, <2>2, <2>3
<1>4. ASSUME a \in 1..Len(c), c[a][1] = "load", c[a - 1][1] = "ensure" PROVE ptr'[c[a - 1][2]] # Null
  <2>1. a = n + 1
    <3>1. c[a] = <<"label", Arg>> => c[a][1] = "label"
      OBVIOUS
    <3>. QED BY <1>4, <3>1
  <2>2. a - 1 = n
    BY <1>1, <2>1
  <2>. QED BY <1>1, <1>4, <2>2
<1>5. code'[fr.f] = c /\ fr.at = a
  BY <1>1, <1>2 DEF Keeps
<1>6. PassedAll(c, a)'
  BY <1>3 DEF PassedAll
<1>7. PassedLast(c, a)'
  BY <1>4 DEF PassedLast
<1>. QED BY <1>5, <1>6, <1>7 DEF Passed, PassedAll, PassedLast

LEMMA AtTheStart ==
  ASSUME AtMain, NEW c, NEW n, Here(c, n)
  PROVE  /\ Depth = 1 /\ Top.f = Main /\ n = 1
         /\ HasInits(program) /\ c # << >> => c[1][1] = "call" /\ c[1][2] = Ctor
<1>1. Depth = 1 /\ Top.f = Main /\ n = 1
  BY DEF AtMain, Depth, Top, Here
<1>2. program \in Program /\ CodeRight(program, Main, c) /\ Complete(c)
  BY <1>1 DEF Here
<1>. QED BY <1>1, <1>2 DEF CodeRight

LEMMA InCtor ==
  ASSUME AtCtor, NEW c, NEW n, Here(c, n)
  PROVE  Depth = 2 /\ Top.f = Ctor /\ c = code[Ctor] /\ n = stack[2].at
BY DEF AtCtor, Depth, Top, Here

\* The call on top goes on to a, and the stack is r.
Goes(c, n, y, a, r) ==
  /\ Keeps /\ Instruction(c, n, y) /\ a \in Nat \ {0}
  /\ a = n + 1 \/ (y[1] \in Jumps /\ a \in 1..Len(c) /\ c[a] = <<"label", Arg>>)
  /\ y[1] = "ensure" => ptr'[y[2]] # Null
  /\ r = [stack EXCEPT ![Depth].at = a]

LEMMA PutTop ==
  ASSUME IInv, NEW c, NEW n, NEW y, NEW a, NEW r, Goes(c, n, y, a, r)
  PROVE  /\ r \in Seq(Frame) /\ Len(r) = Depth /\ r[Depth] = [f |-> Top.f, at |-> a]
         /\ \A i \in 1..Depth : i # Depth => r[i] = stack[i]
         /\ \A i \in 1..Depth : Passed(r[i])'
<1>1. /\ Keeps /\ Instruction(c, n, y) /\ a \in Nat \ {0} /\ (a = n + 1 \/ (y[1] \in Jumps /\ a \in 1..Len(c) /\ c[a] = <<"label", Arg>>))
      /\ y[1] = "ensure" => ptr'[y[2]] # Null
      /\ r = [stack EXCEPT ![Depth].at = a]
  BY DEF Goes
<1>2. stack \in Seq(Frame) /\ Depth = Len(stack) /\ Depth \in Nat /\ Depth >= 1 /\ Top = stack[Depth]
  BY <1>1 DEF Instruction, Here, Depth, Top
<1>3. PICK d : d = Depth
  OBVIOUS
<1>4. /\ r \in Seq(Frame) /\ Len(r) = d /\ r[d] = [f |-> Top.f, at |-> a]
      /\ \A i \in 1..d : i # d => r[i] = stack[i]
  <2>1. Put(stack, d, a, r)
    BY <1>1, <1>2, <1>3 DEF Put
  <2>. QED BY <1>2, <1>3, <2>1, SetTop
<1>5. \A i \in 1..Len(stack) : Passed(stack[i])
  BY DEF IInv, RunInv, StackRight
<1>6. ASSUME NEW i \in 1..d PROVE Passed(r[i])'
  <2>1. CASE i = d
    BY <1>1, <1>4, <2>1, NewPlace
  <2>2. CASE i # d
    <3>1. Passed(stack[i]) /\ r[i] = stack[i]
      BY <1>2, <1>3, <1>4, <1>5, <2>2
    <3>. QED BY <1>1, <3>1, PassedStays
  <2>. QED BY <2>1, <2>2
<1>. QED BY <1>3, <1>4, <1>6

LEMMA Moved ==
  ASSUME IInv, Keeps, NEW c, NEW n, NEW y, Instruction(c, n, y), y[1] # "call", NEW a \in Nat \ {0},
         a = n + 1 \/ (y[1] \in Jumps /\ a \in 1..Len(c) /\ c[a] = <<"label", Arg>>), y[1] = "ensure" => ptr'[y[2]] # Null,
         stack' = [stack EXCEPT ![Depth].at = a]
  PROVE  StackRight'
<1>1. PICK d : d = Depth
  OBVIOUS
<1>2. PICK r : r = stack'
  OBVIOUS
<1>3. stack' = r /\ r = [stack EXCEPT ![Depth].at = a]
  BY <1>2
<1>4. /\ r \in Seq(Frame) /\ Len(r) = d /\ r[d] = [f |-> Top.f, at |-> a]
      /\ \A i \in 1..d : i # d => r[i] = stack[i]
      /\ \A i \in 1..d : Passed(r[i])'
  <2>1. Goes(c, n, y, a, r)
    BY <1>3 DEF Goes
  <2>2. /\ r \in Seq(Frame) /\ Len(r) = Depth /\ r[Depth] = [f |-> Top.f, at |-> a]
        /\ \A i \in 1..Depth : i # Depth => r[i] = stack[i]
        /\ \A i \in 1..Depth : Passed(r[i])'
    BY <2>1, PutTop
  <2>. QED BY <1>1, <2>2
<1>. QED BY <1>3, <1>4 DEF StackRight

LEMMA RunKept ==
  ASSUME IInv, UNCHANGED <<program, lowerVars>>, UNCHANGED running, stack # << >>,
         StackRight', PointersAreLive'
  PROVE  IInv'
<1>1. LowerInv'
  BY LowerKept DEF IInv
<1>2. running /\ pending = << >> /\ Emitted /\ running \in BOOLEAN
  BY DEF IInv, RunInv
<1>3. running' /\ pending' = << >> /\ Emitted' /\ running' \in BOOLEAN
  BY <1>2 DEF lowerVars, Emitted
<1>. QED BY <1>1, <1>3 DEF IInv, RunInv

\* Nothing but the instruction counter moves.
LEMMA SameStorage ==
  ASSUME PointersAreLive, UNCHANGED <<ptr, heap, val, glob>>, calls' \in 0..Calls
  PROVE  PointersAreLive'
<1>1. Allocated' = Allocated
  BY DEF Allocated
<1>. QED BY <1>1 DEF PointersAreLive, TypeOK, Pointer

LEMMA StorageMade ==
  ASSUME PointersAreLive, NEW x \in Storage, ptr[x] = Null, ptr' = [ptr EXCEPT ![x] = heap + 1], heap' = heap + 1,
         UNCHANGED <<val, glob, calls>>
  PROVE  PointersAreLive' /\ (\A l : ptr[l] # Null => ptr'[l] # Null) /\ ptr'[x] # Null
<1>1. /\ heap \in Nat /\ ptr \in [Storage -> 0..heap] /\ val \in Pointer /\ glob \in [Object -> Pointer]
      /\ calls \in 0..Calls
      /\ \A l, m \in Storage : ptr[l] = ptr[m] => l = m \/ ptr[l] = Null
      /\ IsFiniteSet(Allocated) /\ heap = Cardinality(Allocated)
  BY DEF PointersAreLive, TypeOK
<1>2. heap' \in Nat /\ ptr'[x] = heap' /\ heap' # 0 /\ heap' = heap + 1
  BY <1>1
<1>3. \A l : l # x => ptr'[l] = ptr[l]
  BY <1>1
<1>4. \A l \in Storage : l # x => ptr'[l] \in 0..heap /\ ptr'[l] # heap'
  <2>. SUFFICES ASSUME NEW l \in Storage, l # x PROVE ptr'[l] \in 0..heap /\ ptr'[l] # heap'
    OBVIOUS
  <2>1. ptr[l] \in 0..heap /\ ptr'[l] = ptr[l]
    BY <1>1, <1>3
  <2>. QED BY <1>1, <1>2, <2>1
<1>5. ptr' \in [Storage -> 0..heap']
  <2>1. \A l \in Storage : ptr'[l] \in 0..heap'
    BY <1>1, <1>2, <1>4
  <2>2. ptr' = [l \in Storage |-> ptr'[l]]
    BY <1>1
  <2>. QED BY <2>1, <2>2
<1>6. \A p \in Pointer : p \in Pointer'
  BY <1>1, <1>2 DEF Pointer
<1>7. TypeOK'
  <2>1. val' \in Pointer' /\ glob' \in [Object -> Pointer']
    BY <1>1, <1>6
  <2>. QED BY <1>1, <1>2, <1>5, <2>1 DEF TypeOK
<1>8. \A l, m \in Storage : ptr'[l] = ptr'[m] => l = m \/ ptr'[l] = Null
  BY <1>1, <1>2, <1>3, <1>4
<1>9. x \notin Allocated /\ Allocated' = Allocated \cup {x}
  BY <1>2, <1>3 DEF Allocated, Null
<1>10. IsFiniteSet(Allocated)' /\ heap' = Cardinality(Allocated)'
  <2>1. IsFiniteSet(Allocated \cup {x}) /\ Cardinality(Allocated \cup {x}) = Cardinality(Allocated) + 1
    BY <1>1, <1>9, FS_AddElement
  <2>. QED BY <1>1, <1>2, <1>9, <2>1
<1>11. ASSUME NEW p \in {val} \cup {glob[g] : g \in Object}, p.of # Nothing PROVE p.at # Null /\ p.at = ptr'[p.of]
  <2>1. p.at # Null /\ p.at = ptr[p.of]
    BY <1>11 DEF PointersAreLive
  <2>2. p.of # x
    BY <2>1
  <2>. QED BY <1>3, <2>1, <2>2
<1>12. \A l : ptr[l] # Null => ptr'[l] # Null
  BY <1>2, <1>3 DEF Null
<1>. QED BY <1>2, <1>7, <1>8, <1>10, <1>11, <1>12 DEF PointersAreLive, Null

LEMMA NewValue ==
  ASSUME PointersAreLive, UNCHANGED <<ptr, heap, glob, calls>>, NEW x \in Storage, ptr[x] # Null,
         val' = [of |-> x, at |-> ptr[x]]
  PROVE  PointersAreLive'
<1>1. Allocated' = Allocated
  BY DEF Allocated
<1>2. val' \in Pointer /\ val'.of = x /\ val'.at = ptr[x]
  BY DEF PointersAreLive, TypeOK, Pointer
<1>3. TypeOK'
  BY <1>2 DEF PointersAreLive, TypeOK, Pointer
<1>. QED BY <1>1, <1>2, <1>3 DEF PointersAreLive

LEMMA NewGlobal ==
  ASSUME PointersAreLive, UNCHANGED <<ptr, heap, val, calls>>, NEW g \in Object, glob' = [glob EXCEPT ![g] = val]
  PROVE  PointersAreLive'
<1>1. Allocated' = Allocated
  BY DEF Allocated
<1>2. \A o \in Object : glob'[o] = glob[o] \/ glob'[o] = val
  BY DEF PointersAreLive, TypeOK
<1>3. TypeOK'
  BY DEF PointersAreLive, TypeOK, Pointer
<1>4. \A p \in {val} \cup {glob'[o] : o \in Object} : p \in {val} \cup {glob[o] : o \in Object}
  BY <1>2
<1>. QED BY <1>1, <1>3, <1>4 DEF PointersAreLive

LEMMA GoesOnce ==
  ASSUME IInv, Once, NEW c, NEW n, NEW y, NEW a, Goes(c, n, y, a, stack'), y[1] # "call", running',
         glob' = glob \/ (y[1] \in {"assign", "init"} /\ glob' = [glob EXCEPT ![Arg] = val])
  PROVE  Once'
<1>1. PICK r : r = stack'
  OBVIOUS
<1>0. Keeps /\ Instruction(c, n, y) /\ a \in Nat \ {0} /\ Here(c, n)
  <2>1. Keeps /\ Instruction(c, n, y) /\ a \in Nat \ {0}
    BY ONLY Goes(c, n, y, a, stack') DEF Goes
  <2>. QED BY ONLY <2>1 DEF Instruction
<1>2. /\ Keeps /\ Instruction(c, n, y) /\ a \in Nat \ {0}
      /\ Here(c, n) /\ n \in 1..Len(c) /\ y = c[n] /\ y[2] = Arg /\ PlaceRight(program, Top.f, c, n) /\ stack # << >>
      /\ n \in Nat /\ n >= 1 /\ n = Top.at /\ Len(c) \in Nat /\ c = code[Top.f] /\ CodeRight(program, Top.f, c)
      /\ Depth \in Nat /\ Depth >= 1 /\ Depth = Len(stack) /\ Top = stack[Depth]
  <2>1. /\ stack # << >> /\ n \in 1..Len(c) /\ y = c[n] /\ y[2] = Arg /\ PlaceRight(program, Top.f, c, n)
    BY ONLY <1>0 DEF Instruction
  <2>2. /\ n = Top.at /\ n \in Nat \ {0} /\ Len(c) \in Nat /\ c = code[Top.f] /\ CodeRight(program, Top.f, c)
        /\ Depth \in Nat /\ Depth >= 1
    BY ONLY <1>0 DEF Here
  <2>3. Depth = Len(stack) /\ Top = stack[Depth] /\ n \in Nat /\ n >= 1
    BY ONLY <2>2 DEF Depth, Top
  <2>. QED BY ONLY <1>0, <2>1, <2>2, <2>3
<1>3. a = n + 1 \/ (y[1] \in Jumps /\ a \in 1..Len(c) /\ c[a] = <<"label", Arg>>)
  BY ONLY Goes(c, n, y, a, stack') DEF Goes
<1>4. Goes(c, n, y, a, r)
  BY ONLY <1>1, Goes(c, n, y, a, stack')
<1>5. c # << >>
  <2>1. c = << >> => Len(c) = 0
    OBVIOUS
  <2>2. n \in 1..Len(c)
    BY ONLY <1>2
  <2>. QED BY ONLY <2>1, <2>2
<1>6. /\ Len(r) = Depth /\ r[Depth] = [f |-> Top.f, at |-> a]
      /\ \A i \in 1..Depth : i # Depth => r[i] = stack[i]
  BY ONLY IInv, <1>4, PutTop
<1>7. program' = program /\ code' = code
  BY ONLY <1>0 DEF Keeps
<1>8. CASE AtMain
  <2>1. ~HasInits(program) /\ Depth = 1 /\ Top.f = Main
    <3>1. /\ Depth = 1 /\ Top.f = Main /\ n = 1
          /\ HasInits(program) /\ c # << >> => c[1][1] = "call"
      BY ONLY <1>0, <1>8, AtTheStart
    <3>2. y[1] # "call"
      OBVIOUS
    <3>. QED BY ONLY <1>2, <1>5, <3>1, <3>2
  <2>2. \A i \in 1..Len(r) : r[i].f # Ctor /\ (HasInits(program) /\ r[i].f = Main => r[i].at >= 2)
    <3>1. Len(r) = 1 /\ r[1].f = Main
      BY ONLY <1>6, <2>1
    <3>. QED BY ONLY <2>1, <3>1, NamesAssumption
  <2>3. Beyond'
    BY ONLY <1>1, <1>7, <2>2 DEF Beyond
  <2>. QED BY ONLY running', <2>3 DEF Once
<1>9. CASE AtCtor /\ Waiting
  <2>1. Depth = 2 /\ Top.f = Ctor /\ c = code[Ctor] /\ n = stack[2].at
    BY <1>2, <1>9, InCtor
  <2>2. y[1] \in {"ensure", "load", "init"}
    BY <1>2, <2>1 DEF PlaceRight
  <2>3. a = n + 1
    BY <1>3, <2>2 DEF Jumps
  <2>4. Len(r) = 2 /\ r[1] = [f |-> Main, at |-> 2] /\ r[2].f = Ctor /\ r[2].at = n + 1
    BY <1>6, <1>9, <2>1, <2>3 DEF AtCtor
  <2>5. ASSUME NEW i \in 1..Len(c), i >= n + 1, c[i][1] = "init" PROVE glob'[c[i][2]] = Unset
    <3>1. glob[c[i][2]] = Unset /\ i # n
      <4>1. i \in 1..Len(code[Ctor]) /\ i >= stack[2].at /\ code[Ctor][i] = c[i] /\ i # n
        BY ONLY <1>2, <2>1, <2>5
      <4>. QED BY ONLY <1>9, <2>5, <4>1 DEF Waiting
    <3>2. CASE glob' = glob
      BY <3>1, <3>2
    <3>3. CASE y[1] = "init" /\ glob' = [glob EXCEPT ![Arg] = val]
      <4>1. c[i][2] # Arg
        <5>1. c[n][1] = "init" /\ c[n][2] = Arg /\ i \in 1..Len(c) /\ n \in 1..Len(c)
          BY ONLY <1>2, <2>5, <3>3
        <5>. QED BY ONLY <1>2, <2>5, <3>1, <5>1 DEF CodeRight
      <4>2. c[i] \in Instr
        <5>1. c \in Seq(Instr)
          BY ONLY <1>2 DEF CodeRight
        <5>. QED BY ONLY <2>5, <5>1, ElementOfSeq
      <4>. QED BY <3>1, <3>3, <4>1
    <3>. QED BY <2>2, <3>2, <3>3
  <2>. QED BY <1>1, <1>7, <2>1, <2>4, <2>5 DEF Once, AtCtor, Waiting
<1>10. CASE Beyond
  <2>1. Top.f # Ctor /\ (HasInits(program) /\ Top.f = Main => n >= 2)
    <3>1. Depth \in 1..Len(stack) /\ stack[Depth] = Top
      BY ONLY <1>2
    <3>. QED BY ONLY <1>2, <1>10, <3>1 DEF Beyond
  <2>2. ASSUME HasInits(program), Top.f = Main PROVE a >= 2
    <3>1. CASE a = n + 1
      BY ONLY <1>2, <3>1
    <3>2. CASE a \in 1..Len(c) /\ c[a] = <<"label", Arg>>
      <4>1. c[1][1] = "call"
        BY ONLY <1>2, <1>5, <2>2 DEF CodeRight
      <4>2. c[a][1] = "label"
        BY <3>2
      <4>3. a # 1
        BY ONLY <4>1, <4>2
      <4>4. a \in 1..Len(c)
        BY <3>2
      <4>. QED BY ONLY <1>2, <4>3, <4>4
    <3>. QED BY <1>3, <3>1, <3>2
  <2>3. ASSUME NEW i \in 1..Len(r) PROVE r[i].f # Ctor /\ (HasInits(program) /\ r[i].f = Main => r[i].at >= 2)
    <3>1. CASE i = Depth
      BY ONLY <1>6, <2>1, <2>2, <3>1
    <3>2. CASE i # Depth
      <4>1. i \in 1..Depth /\ i \in 1..Len(stack) /\ r[i] = stack[i]
        BY ONLY <1>2, <1>6, <2>3, <3>2
      <4>. QED BY ONLY <1>10, <4>1 DEF Beyond
    <3>. QED BY <3>1, <3>2
  <2>4. HasInits(program') <=> HasInits(program)
    BY ONLY <1>7
  <2>5. Beyond'
    BY ONLY <1>1, <1>7, <2>3 DEF Beyond
  <2>. QED BY ONLY running', <2>5 DEF Once
<1>. QED BY <1>2, <1>8, <1>9, <1>10 DEF Once

LEMMA EnsureStep ==
  ASSUME IInv, EnsureString
  PROVE  IInv' /\ (Once => Once')
<1>. DEFINE c == code[Top.f]
            n == Top.at
            y == c[n]
<1>1. /\ Inside /\ y[1] = "ensure" /\ stack' = [stack EXCEPT ![Depth].at = @ + 1]
      /\ UNCHANGED <<program, lowerVars, running, val, glob, calls>>
      /\ \/ ptr[Arg] = Null /\ ptr' = [ptr EXCEPT ![Arg] = heap + 1] /\ heap' = heap + 1
         \/ ptr[Arg] # Null /\ UNCHANGED <<ptr, heap>>
  BY DEF EnsureString, Is, On, NeedsStorage
<1>2. Instruction(c, n, y)
  BY <1>1, AtInstruction
<1>3. n \in Nat /\ n + 1 \in Nat \ {0} /\ Arg \in Storage /\ y[2] = Arg /\ n = Top.at /\ y[1] # "call"
  BY <1>1, <1>2 DEF Instruction, Here
<1>4. stack' = [stack EXCEPT ![Depth].at = n + 1]
  BY <1>1, <1>3 DEF Top
<1>. HIDE DEF c, n, y
<1>5. PointersAreLive' /\ (\A l : ptr[l] # Null => ptr'[l] # Null) /\ ptr'[y[2]] # Null
  <2>1. CASE ptr[Arg] = Null
    BY <1>1, <1>3, <2>1, StorageMade DEF IInv
  <2>2. CASE ptr[Arg] # Null
    <3>1. UNCHANGED <<ptr, heap, val, glob>> /\ calls' \in 0..Calls
      BY <1>1, <2>2 DEF IInv, PointersAreLive, TypeOK
    <3>. QED BY <1>3, <2>2, <3>1, SameStorage DEF IInv
  <2>. QED BY <2>1, <2>2
<1>6. Keeps
  BY <1>1, <1>5 DEF Keeps, lowerVars
<1>7. StackRight'
  BY <1>2, <1>3, <1>4, <1>5, <1>6, Moved
<1>8. ASSUME Once PROVE Once'
  <2>1. Goes(c, n, y, n + 1, stack')
    BY <1>2, <1>3, <1>4, <1>5, <1>6 DEF Goes
  <2>2. running'
    BY <1>1, <1>2 DEF Instruction, Here
  <2>. QED BY <1>1, <1>3, <1>8, <2>1, <2>2, GoesOnce DEF Jumps
<1>. QED BY <1>1, <1>5, <1>7, <1>8, RunKept DEF Inside

LEMMA LoadStep ==
  ASSUME IInv, Load
  PROVE  IInv' /\ (Once => Once')
<1>. DEFINE c == code[Top.f]
            n == Top.at
            y == c[n]
<1>1. /\ Inside /\ y[1] = "load" /\ stack' = [stack EXCEPT ![Depth].at = @ + 1]
      /\ UNCHANGED <<program, lowerVars, running, ptr, heap, glob, calls>>
      /\ val' = [of |-> Arg, at |-> ptr[Arg]]
  BY DEF Load, Is, On
<1>2. Instruction(c, n, y)
  BY <1>1, AtInstruction
<1>3. n \in Nat /\ n + 1 \in Nat \ {0} /\ Arg \in Storage /\ y[2] = Arg /\ n = Top.at /\ Here(c, n) /\ y = c[n]
      /\ LoadRight(c, n) /\ n \in 1..Len(c) /\ Len(c) \in Nat
  BY <1>1, <1>2 DEF Instruction, Here, PlaceRight
<1>4. stack' = [stack EXCEPT ![Depth].at = n + 1]
  BY <1>1, <1>3 DEF Top
<1>5. c = code[Top.f] /\ Passed(Top)
  BY <1>3 DEF Here
<1>. HIDE DEF c, n, y
<1>6. ptr[Arg] # Null
  <2>1. CASE Ensured(c, n - 1, Arg)
    <3>1. PICK j \in 1..(n - 1) : Ensures(c, j, Arg)
      BY <2>1 DEF Ensured
    <3>2. j \in 1..Len(c) /\ j < Top.at
      BY <1>3
    <3>. QED BY <1>5, <3>1, <3>2 DEF Passed, PassedAll, Ensures
  <2>2. CASE n > 1 /\ c[n - 1][1] = "ensure" /\ c[n - 1][2] = Arg
    BY <1>1, <1>3, <1>5, <2>2 DEF Passed, PassedLast
  <2>. QED BY <1>1, <1>3, <2>1, <2>2 DEF LoadRight, Behind
<1>7. PointersAreLive'
  BY <1>1, <1>3, <1>6, NewValue DEF IInv
<1>8. Keeps
  BY <1>1 DEF Keeps, lowerVars
<1>9. StackRight'
  BY <1>1, <1>2, <1>3, <1>4, <1>8, Moved
<1>10. ASSUME Once PROVE Once'
  <2>1. Goes(c, n, y, n + 1, stack')
    BY <1>1, <1>2, <1>3, <1>4, <1>8 DEF Goes
  <2>2. running'
    BY <1>1, <1>2 DEF Instruction, Here
  <2>. QED BY <1>1, <1>10, <2>1, <2>2, GoesOnce DEF Jumps
<1>. QED BY <1>1, <1>7, <1>9, <1>10, RunKept DEF Inside

LEMMA StoreStep ==
  ASSUME IInv, Store
  PROVE  IInv' /\ (Once => Once')
<1>. DEFINE c == code[Top.f]
            n == Top.at
            y == c[n]
<1>1. /\ Inside /\ y[1] \in {"assign", "init"} /\ stack' = [stack EXCEPT ![Depth].at = @ + 1]
      /\ UNCHANGED <<program, lowerVars, running, ptr, heap, val, calls>>
      /\ glob' = [glob EXCEPT ![Arg] = val]
  BY DEF Store, Is, On
<1>2. Instruction(c, n, y)
  BY <1>1, AtInstruction
<1>3. n \in Nat /\ n + 1 \in Nat \ {0} /\ Arg \in Object /\ n = Top.at
  BY <1>1, <1>2 DEF Instruction, Here
<1>4. stack' = [stack EXCEPT ![Depth].at = n + 1]
  BY <1>1, <1>3 DEF Top
<1>. HIDE DEF c, n, y
<1>5. PointersAreLive'
  BY <1>1, <1>3, NewGlobal DEF IInv
<1>6. Keeps
  BY <1>1 DEF Keeps, lowerVars
<1>7. StackRight'
  BY <1>1, <1>2, <1>3, <1>4, <1>6, Moved
<1>8. ASSUME Once PROVE Once'
  <2>1. Goes(c, n, y, n + 1, stack')
    BY <1>1, <1>2, <1>3, <1>4, <1>6 DEF Goes
  <2>2. running'
    BY <1>1, <1>2 DEF Instruction, Here
  <2>. QED BY <1>1, <1>8, <2>1, <2>2, GoesOnce DEF Jumps
<1>. QED BY <1>1, <1>5, <1>7, <1>8, RunKept DEF Inside

LEMMA PlaceIs ==
  ASSUME NEW c, NEW n, NEW y, Instruction(c, n, y), y[1] \in Jumps
  PROVE  Place(Arg) \in 1..Len(c) /\ c[Place(Arg)] = <<"label", Arg>>
<1>1. /\ Complete(c) /\ c = code[Top.f] /\ n \in 1..Len(c) /\ y = c[n] /\ y[2] = Arg
      /\ c \in Seq(Instr) /\ Len(c) \in Nat
  BY DEF Instruction, Here
<1>2. Has(c, Len(c), <<"label", Arg>>)
  BY <1>1 DEF Complete
<1>3. PICK j \in 1..Len(c) : c[j][1] = "label" /\ c[j][2] = Arg
  BY <1>2 DEF Has
<1>4. DOMAIN c = 1..Len(c) /\ c[j] \in Instr
  BY <1>1, ElementOfSeq, LenProperties
<1>5. c[j] = <<"label", Arg>>
  BY <1>3, <1>4, InstrIs
<1>6. \E i \in DOMAIN code[Top.f] : code[Top.f][i] = <<"label", Arg>>
  BY <1>1, <1>4, <1>5
<1>7. Place(Arg) \in DOMAIN code[Top.f] /\ code[Top.f][Place(Arg)] = <<"label", Arg>>
  BY <1>6 DEF Place
<1>. QED BY <1>1, <1>4, <1>7

LEMMA MoveStep ==
  ASSUME IInv, Move
  PROVE  IInv' /\ (Once => Once')
<1>. DEFINE c == code[Top.f]
            n == Top.at
            y == c[n]
<1>1. /\ Inside /\ y[1] \in {"branch", "jump", "label"}
      /\ \/ stack' = [stack EXCEPT ![Depth].at = @ + 1]
         \/ y[1] \in Jumps /\ stack' = [stack EXCEPT ![Depth].at = Place(Arg)]
      /\ UNCHANGED <<program, lowerVars, running, ptr, heap, val, glob, calls>>
  BY DEF Move, Is, On, To, Jumps
<1>2. Instruction(c, n, y)
  BY <1>1, AtInstruction
<1>3. n \in Nat /\ n + 1 \in Nat \ {0} /\ n = Top.at
  BY <1>1, <1>2 DEF Instruction, Here
<1>4. PICK a \in Nat \ {0} : /\ a = n + 1 \/ (y[1] \in Jumps /\ a \in 1..Len(c) /\ c[a] = <<"label", Arg>>)
                             /\ stack' = [stack EXCEPT ![Depth].at = a]
  <2>1. CASE stack' = [stack EXCEPT ![Depth].at = @ + 1]
    BY <1>3, <2>1 DEF Top
  <2>2. CASE y[1] \in Jumps /\ stack' = [stack EXCEPT ![Depth].at = Place(Arg)]
    <3>1. Place(Arg) \in Nat \ {0} /\ Place(Arg) \in 1..Len(c) /\ c[Place(Arg)] = <<"label", Arg>>
      BY <1>2, <2>2, PlaceIs
    <3>. QED BY <2>2, <3>1
  <2>. QED BY <1>1, <2>1, <2>2
<1>. HIDE DEF c, n, y
<1>5. PointersAreLive'
  <2>1. calls' \in 0..Calls
    BY <1>1 DEF IInv, PointersAreLive, TypeOK
  <2>. QED BY <1>1, <2>1, SameStorage DEF IInv
<1>6. Keeps
  BY <1>1 DEF Keeps, lowerVars
<1>7. y[1] # "call" /\ y[1] # "ensure"
  BY <1>1
<1>8. StackRight'
  BY <1>2, <1>4, <1>6, <1>7, Moved
<1>9. ASSUME Once PROVE Once'
  <2>1. Goes(c, n, y, a, stack')
    BY <1>2, <1>4, <1>6, <1>7 DEF Goes
  <2>2. running'
    BY <1>1, <1>2 DEF Instruction, Here
  <2>. QED BY <1>1, <1>4, <1>7, <1>9, <2>1, <2>2, GoesOnce
<1>. QED BY <1>1, <1>5, <1>8, <1>9, RunKept DEF Inside

LEMMA CallStep ==
  ASSUME IInv, CallFunction
  PROVE  IInv' /\ (NobodyCallsMain /\ Once => Once')
<1>. DEFINE c == code[Top.f]
            n == Top.at
            y == c[n]
<1>1. PICK r, fr : r = [stack EXCEPT ![Depth].at = @ + 1] /\ fr = [f |-> Arg, at |-> 1]
  OBVIOUS
<1>2. /\ Inside /\ y[1] = "call" /\ stack' = Append(r, fr)
      /\ calls' \in {calls, calls + 1} /\ calls' <= Calls
      /\ UNCHANGED <<program, lowerVars, running, ptr, heap, val, glob>>
  BY <1>1 DEF CallFunction, Is, On
<1>3. Instruction(c, n, y)
  BY <1>2, AtInstruction
<1>4. /\ Here(c, n) /\ n \in Nat /\ n + 1 \in Nat \ {0} /\ n = Top.at /\ Arg \in Units /\ y[2] = Arg /\ y = c[n]
      /\ PlaceRight(program, Top.f, c, n) /\ n \in 1..Len(c) /\ Len(c) \in Nat
      /\ Depth \in Nat /\ Depth >= 1
  BY <1>2, <1>3 DEF Instruction, Here
<1>5. r = [stack EXCEPT ![Depth].at = n + 1]
  BY <1>1, <1>4 DEF Top
<1>. HIDE DEF c, n, y
<1>6. PointersAreLive'
  <2>1. calls' \in 0..Calls
    BY <1>2, NamesAssumption DEF IInv, PointersAreLive, TypeOK
  <2>. QED BY <1>2, <2>1, SameStorage DEF IInv
<1>7. Keeps
  BY <1>2 DEF Keeps, lowerVars
<1>8. /\ r \in Seq(Frame) /\ Len(r) = Depth /\ r[Depth] = [f |-> Top.f, at |-> n + 1]
      /\ \A i \in 1..Depth : i # Depth => r[i] = stack[i]
      /\ \A i \in 1..Depth : Passed(r[i])'
  <2>1. Goes(c, n, y, n + 1, r)
    BY <1>2, <1>3, <1>4, <1>5, <1>7 DEF Goes
  <2>. QED BY <2>1, PutTop
<1>9. fr \in Frame /\ Passed(fr)'
  <2>1. fr \in Frame
    BY <1>1, <1>4 DEF Frame
  <2>2. ~(fr.at > 1) /\ \A j \in 1..Len(code'[fr.f]) : ~(j < fr.at)
    BY <1>1
  <2>. QED BY <2>1, <2>2 DEF Passed, PassedAll, PassedLast
<1>10. PICK s : s = Append(r, fr)
  OBVIOUS
<1>11. /\ s \in Seq(Frame) /\ Len(s) = Depth + 1 /\ s[Depth + 1] = fr
       /\ \A i \in 1..Depth : s[i] = r[i]
  BY <1>8, <1>9, <1>10, AppendProperties
<1>12. StackRight'
  <2>1. ASSUME NEW i \in 1..Len(s) PROVE Passed(s[i])'
    <3>1. CASE i \in 1..Depth
      <4>1. s[i] = r[i] /\ Passed(r[i])'
        BY <1>8, <1>11, <3>1
      <4>. QED BY <4>1
    <3>2. CASE i = Depth + 1
      <4>1. s[i] = fr
        BY <1>11, <3>2
      <4>. QED BY <1>9, <4>1
    <3>. QED BY <1>4, <1>11, <3>1, <3>2
  <2>. QED BY <1>2, <1>10, <1>11, <2>1 DEF StackRight
<1>13. ASSUME NobodyCallsMain, Once PROVE Once'
  <2>1. program' = program /\ code' = code /\ glob' = glob /\ running' /\ s = stack' /\ c = code[Top.f]
    BY <1>2, <1>4, <1>10 DEF Here, lowerVars
  <2>2. Arg = Ctor => Top.f = Main /\ n = 1 /\ HasInits(program)
    BY <1>2, <1>4 DEF PlaceRight
  <2>3. Arg # Main
    <3>1. ~MainIsCalled(program)
      BY <1>4, <1>13 DEF NobodyCallsMain, MainIsCalled, Here
    <3>. QED BY <1>2, <1>4, <3>1 DEF PlaceRight
  <2>4. ASSUME Arg # Ctor, \A i \in 1..Depth : r[i].f # Ctor /\ (HasInits(program) /\ r[i].f = Main => r[i].at >= 2)
        PROVE  Once'
    <3>1. \A i \in 1..Len(s) : i \in 1..Depth \/ i = Depth + 1
      BY <1>4, <1>11
    <3>2. ASSUME NEW i \in 1..Len(s) PROVE s[i].f # Ctor /\ (HasInits(program) /\ s[i].f = Main => s[i].at >= 2)
      <4>1. CASE i \in 1..Depth
        BY <1>11, <2>4, <4>1
      <4>2. CASE i = Depth + 1
        BY <1>1, <1>11, <2>3, <2>4, <4>2
      <4>. QED BY <3>1, <4>1, <4>2
    <3>. QED BY <2>1, <3>2 DEF Once, Beyond
  <2>5. CASE AtMain /\ Blank
    <3>1. Depth = 1 /\ Top.f = Main /\ n = 1 /\ r[1] = [f |-> Main, at |-> 2]
      BY <1>4, <1>8, <2>5, AtTheStart
    <3>2. CASE Arg = Ctor
      <4>1. AtCtor'
        BY <1>1, <1>11, <2>1, <3>1, <3>2 DEF AtCtor
      <4>2. ASSUME NEW i \in 1..Len(code[Ctor]), code[Ctor][i][1] = "init" PROVE glob[code[Ctor][i][2]] = Unset
        <5>1. code[Ctor] \in Seq(Instr)
          BY DEF IInv, LowerInv, LowerType, Units
        <5>2. code[Ctor][i] \in Instr
          BY <5>1, ElementOfSeq
        <5>. QED BY <2>5, <4>2, <5>2, InstrIs DEF Blank
      <4>3. Waiting'
        BY <2>1, <4>2 DEF Waiting
      <4>. QED BY <2>1, <4>1, <4>3 DEF Once
    <3>3. CASE Arg # Ctor
      <4>1. ~HasInits(program)
        <5>1. c # << >>
          <6>1. c = << >> => Len(c) = 0
            OBVIOUS
          <6>. QED BY <1>4, <6>1
        <5>. QED BY <1>4, <2>5, <3>1, <3>3, <5>1, AtTheStart
      <4>. QED BY <2>4, <3>1, <3>3, <4>1, NamesAssumption
    <3>. QED BY <3>2, <3>3
  <2>6. CASE AtCtor
    <3>1. Top.f = Ctor
      BY <1>4, <2>6, InCtor
    <3>. QED BY <1>2, <1>4, <3>1 DEF PlaceRight
  <2>7. CASE Beyond
    <3>1. \A i \in 1..Depth : stack[i].f # Ctor /\ (HasInits(program) /\ stack[i].f = Main => stack[i].at >= 2)
      BY <2>7 DEF Beyond, Depth
    <3>2. Top = stack[Depth] /\ Depth \in 1..Depth
      BY <1>4 DEF Top
    <3>3. Top.f # Ctor /\ (HasInits(program) /\ Top.f = Main => n >= 2)
      BY <1>4, <3>1, <3>2
    <3>4. \A i \in 1..Depth : r[i].f # Ctor /\ (HasInits(program) /\ r[i].f = Main => r[i].at >= 2)
      BY <1>4, <1>8, <3>1, <3>3
    <3>. QED BY <2>2, <2>4, <3>3, <3>4
  <2>. QED BY <1>2, <1>13, <2>5, <2>6, <2>7 DEF Once, Inside
<1>. QED BY <1>2, <1>6, <1>12, <1>13, RunKept DEF Inside

LEMMA ReturnStep ==
  ASSUME IInv, Return
  PROVE  IInv' /\ (Once => Once')
<1>. DEFINE c == code[Top.f]
            n == Top.at
<1>1. /\ stack # << >> /\ stack' = SubSeq(stack, 1, Depth - 1)
      /\ Inside => c[n][1] = "return"
      /\ UNCHANGED <<program, lowerVars, running, ptr, heap, val, glob, calls>>
  BY DEF Return, Is, Inside
<1>2. Here(c, n)
  BY <1>1, OnTop
<1>3. /\ Depth = Len(stack) /\ Depth \in Nat /\ Depth >= 1 /\ stack \in Seq(Frame) /\ n = Top.at /\ c = code[Top.f]
      /\ Passed(Top) /\ Complete(c) /\ CodeRight(program, Top.f, c) /\ program \in Program
      /\ n \in Nat /\ n >= 1 /\ Len(c) \in Nat
  BY <1>2 DEF Here, Depth
<1>4. Keeps
  BY <1>1 DEF Keeps, lowerVars
<1>. HIDE DEF c, n
<1>5. PointersAreLive'
  <2>1. calls' \in 0..Calls
    BY <1>1 DEF IInv, PointersAreLive, TypeOK
  <2>. QED BY <1>1, <2>1, SameStorage DEF IInv
<1>6. PICK s : s = SubSeq(stack, 1, Depth - 1)
  OBVIOUS
<1>7. s \in Seq(Frame) /\ Len(s) = Depth - 1 /\ \A i \in 1..(Depth - 1) : s[i] = stack[i] /\ i \in 1..Len(stack)
  <2>1. \A i \in 1..(Depth - 1) : i \in 1..Len(stack)
    BY <1>3
  <2>2. \A i \in 1..(Depth - 1) : stack[i] \in Frame
    BY <1>3, <2>1, ElementOfSeq
  <2>. QED BY <1>3, <1>6, <2>1, <2>2
<1>8. StackRight'
  <2>1. \A i \in 1..Len(s) : Passed(s[i])'
    BY <1>3, <1>4, <1>7, PassedStays DEF IInv, RunInv, StackRight
  <2>. QED BY <1>1, <1>6, <1>7, <2>1 DEF StackRight
<1>9. ASSUME Once PROVE Once'
  <2>1. program' = program /\ running' /\ s = stack'
    BY <1>1, <1>2, <1>6 DEF Here
  <2>2. CASE AtMain
    <3>1. Len(s) = 0
      BY <1>2, <1>7, <2>2, AtTheStart
    <3>2. s = << >>
      BY <1>7, <3>1, EmptySeq
    <3>. QED BY <2>1, <3>2 DEF Once
  <2>3. CASE AtCtor
    <3>1. Len(s) = 1 /\ s[1] = [f |-> Main, at |-> 2]
      BY <1>2, <1>7, <2>3, InCtor DEF AtCtor
    <3>2. \A i \in 1..Len(s) : s[i].f # Ctor /\ (HasInits(program) /\ s[i].f = Main => s[i].at >= 2)
      BY <3>1, NamesAssumption
    <3>. QED BY <2>1, <3>2 DEF Once, Beyond
  <2>4. CASE Beyond
    <3>1. \A i \in 1..Len(s) : s[i].f # Ctor /\ (HasInits(program) /\ s[i].f = Main => s[i].at >= 2)
      BY <1>7, <2>4 DEF Beyond
    <3>. QED BY <2>1, <3>1 DEF Once, Beyond
  <2>. QED BY <1>1, <1>9, <2>2, <2>3, <2>4 DEF Once
<1>. QED BY <1>1, <1>5, <1>8, <1>9, RunKept

LEMMA StartStep ==
  ASSUME IInv, Start
  PROVE  IInv' /\ (Once => Once')
<1>1. /\ pending = << >> /\ Emitted /\ running' = TRUE /\ stack' = << [f |-> Main, at |-> 1] >>
      /\ UNCHANGED <<program, lowerVars, ptr, heap, val, glob, calls>>
  BY DEF Start
<1>2. LowerInv'
  BY <1>1, LowerKept DEF IInv
<1>3. pending' = << >> /\ Emitted' /\ running' \in BOOLEAN /\ running'
  BY <1>1 DEF lowerVars, Emitted
<1>4. PICK fr : fr = [f |-> Main, at |-> 1]
  OBVIOUS
<1>5. fr \in Frame /\ Passed(fr)' /\ fr.at = 1
  <2>1. fr \in Frame
    BY <1>4, NamesAssumption DEF Frame, Units
  <2>2. ~(fr.at > 1) /\ \A j \in 1..Len(code'[fr.f]) : ~(j < fr.at)
    BY <1>4
  <2>. QED BY <1>4, <2>1, <2>2 DEF Passed, PassedAll, PassedLast
<1>6. stack' = <<fr>>
  BY <1>1, <1>4
<1>7. StackRight'
  <2>1. <<fr>> \in Seq(Frame) /\ Len(<<fr>>) = 1 /\ <<fr>>[1] = fr
    BY <1>5
  <2>2. \A i \in 1..Len(<<fr>>) : Passed(<<fr>>[i])'
    BY <1>5, <2>1
  <2>. QED BY <1>6, <2>1, <2>2 DEF StackRight
<1>8. PointersAreLive'
  <2>1. calls' \in 0..Calls
    BY <1>1 DEF IInv, PointersAreLive, TypeOK
  <2>. QED BY <1>1, <2>1, SameStorage DEF IInv
<1>9. ASSUME Once PROVE Once'
  <2>1. ~running /\ glob' = glob
    BY DEF Start
  <2>2. AtMain'
    BY <1>1 DEF AtMain
  <2>. QED BY <1>3, <1>9, <2>1, <2>2 DEF Once, Blank
<1>. QED BY <1>2, <1>3, <1>7, <1>8, <1>9 DEF IInv, RunInv

(* ---- every step ---- *)

LEMMA NotYet ==
  ASSUME IInv, Lower
  PROVE  UNCHANGED <<program, runVars>> /\ ~running /\ stack = << >>
<1>1. UNCHANGED <<program, runVars>> /\ (~Emitted \/ pending # << >>)
  BY DEF Lower, emitGlobalCtor, genFunction, prepareString, genString, ensureAggGlobal, genIdent, genOther,
         genNothing, Begin, Emit, Task
<1>. QED BY <1>1 DEF IInv, RunInv

LEMMA LowerFirst ==
  ASSUME IInv, StraightInits, Lower
  PROVE  IInv'
<1>1. UNCHANGED <<program, runVars>> /\ ~running /\ stack = << >>
  BY NotYet
<1>2. LowerInv'
  BY LowerSteps DEF IInv
<1>3. stack' = << >> /\ running' = running /\ UNCHANGED <<ptr, heap, val, glob, calls>>
  BY <1>1 DEF runVars
<1>4. StackRight'
  <2>1. << >> \in Seq(Frame) /\ Len(<< >>) = 0
    OBVIOUS
  <2>. QED BY <1>3, <2>1 DEF StackRight
<1>5. PointersAreLive'
  <2>1. calls' \in 0..Calls
    BY <1>3 DEF IInv, PointersAreLive, TypeOK
  <2>. QED BY <1>3, <2>1, SameStorage DEF IInv
<1>6. running' \in BOOLEAN /\ ~running'
  BY <1>1, <1>3 DEF IInv, RunInv
<1>. QED BY <1>2, <1>3, <1>4, <1>5, <1>6 DEF IInv, RunInv

LEMMA Initially ==
  ASSUME Init
  PROVE  IInv /\ Once
<1>1. LowerInv
  BY LowerStart
<1>2. /\ stack = << >> /\ running = FALSE /\ ptr = [l \in Storage |-> Null] /\ heap = 0
      /\ val = Unset /\ glob = [g \in Object |-> Unset] /\ calls = 0
  BY DEF Init
<1>3. RunInv
  <2>1. << >> \in Seq(Frame) /\ Len(<< >>) = 0
    OBVIOUS
  <2>2. StackRight
    BY <1>2, <2>1 DEF StackRight
  <2>3. running \in BOOLEAN /\ ~running
    BY <1>2
  <2>. QED BY <1>2, <2>2, <2>3 DEF RunInv
<1>4. TypeOK
  BY <1>2, NamesAssumption DEF TypeOK, Pointer, Unset, Null
<1>5. Allocated = {}
  BY <1>2 DEF Allocated
<1>6. IsFiniteSet(Allocated) /\ heap = Cardinality(Allocated)
  BY <1>2, <1>5, FS_EmptySet
<1>7. \A l, m \in Storage : ptr[l] = ptr[m] => l = m \/ ptr[l] = Null
  BY <1>2
<1>8. \A p \in {val} \cup {glob[g] : g \in Object} : p.of = Nothing
  BY <1>2 DEF Unset
<1>9. PointersAreLive
  BY <1>4, <1>6, <1>7, <1>8 DEF PointersAreLive
<1>10. Once
  BY <1>2 DEF Once, Blank
<1>. QED BY <1>1, <1>3, <1>9, <1>10 DEF IInv

LEMMA Steps ==
  ASSUME IInv, StraightInits, [Next]_vars
  PROVE  IInv'
<1>1. CASE UNCHANGED vars
  <2>1. UNCHANGED <<program, lowerVars>> /\ UNCHANGED runVars
    BY <1>1 DEF vars
  <2>2. LowerInv'
    BY <2>1, LowerKept DEF IInv
  <2>3. UNCHANGED <<stack, running, ptr, heap, val, glob, calls>>
    BY <2>1 DEF runVars
  <2>4. PointersAreLive'
    <3>1. calls' \in 0..Calls
      BY <2>3 DEF IInv, PointersAreLive, TypeOK
    <3>. QED BY <2>3, <3>1, SameStorage DEF IInv
  <2>5. UNCHANGED <<program, pending, next, tasks, code>>
    BY <2>1 DEF lowerVars
  <2>6. StackRight'
    BY <2>3, <2>5 DEF IInv, RunInv, StackRight, Passed, PassedAll, PassedLast
  <2>7. RunInv'
    BY <2>3, <2>5, <2>6 DEF IInv, RunInv, Emitted
  <2>. QED BY <2>2, <2>4, <2>7 DEF IInv
<1>2. CASE Lower
  BY <1>2, LowerFirst
<1>3. CASE Run
  BY <1>3, StartStep, EnsureStep, LoadStep, MoveStep, CallStep, ReturnStep, StoreStep DEF Run
<1>. QED BY <1>1, <1>2, <1>3 DEF Next

LEMMA OnceStep ==
  ASSUME IInv, Once, NobodyCallsMain, [Next]_vars
  PROVE  Once'
<1>1. CASE UNCHANGED vars
  BY <1>1 DEF vars, runVars, lowerVars, Once, Blank, AtMain, AtCtor, Waiting, Beyond
<1>2. CASE Lower
  <2>1. UNCHANGED <<program, runVars>> /\ ~running /\ stack = << >>
    BY <1>2, NotYet
  <2>. QED BY <2>1 DEF runVars, Once, Blank
<1>3. CASE Run
  BY <1>3, StartStep, EnsureStep, LoadStep, MoveStep, CallStep, ReturnStep, StoreStep DEF Run
<1>. QED BY <1>1, <1>2, <1>3 DEF Next

LEMMA OnceMeansFirst ==
  ASSUME IInv, Once
  PROVE  InitializersRunFirst
<1>. SUFFICES ASSUME Is("init") PROVE glob[Arg] = Unset
  BY DEF InitializersRunFirst
<1>1. PICK c, n, y : c = code[Top.f] /\ n = Top.at /\ y = c[n]
  OBVIOUS
<1>2. Inside /\ y[1] = "init"
  BY <1>1 DEF Is
<1>3. Instruction(c, n, y)
  BY <1>1, <1>2, AtInstruction
<1>4. /\ Here(c, n) /\ stack # << >> /\ n \in 1..Len(c) /\ y = c[n] /\ y[2] = Arg /\ Top.f = Ctor
      /\ Top = stack[Depth] /\ Depth \in 1..Len(stack)
  <2>1. Depth \in Nat /\ Depth >= 1 /\ Depth = Len(stack)
    BY <1>3 DEF Instruction, Here, Depth
  <2>. QED BY <1>2, <1>3, <2>1 DEF Instruction, PlaceRight, Top
<1>5. CASE AtMain
  BY <1>4, <1>5, AtTheStart, NamesAssumption
<1>6. CASE AtCtor /\ Waiting
  <2>1. c = code[Ctor] /\ n = stack[2].at
    BY <1>4, <1>6, InCtor
  <2>2. n >= n
    BY <1>4 DEF Here
  <2>. QED BY <1>2, <1>4, <1>6, <2>1, <2>2 DEF Waiting
<1>7. CASE Beyond
  BY <1>4, <1>7 DEF Beyond
<1>. QED BY <1>4, <1>5, <1>6, <1>7 DEF Once

LEMMA Always == StraightInits /\ Spec => []IInv
<1>1. Init => IInv
  BY Initially
<1>2. StraightInits /\ IInv /\ [Next]_vars => IInv'
  BY Steps
<1>3. StraightInits => (StraightInits)'
  BY DEF StraightInits
<1>. QED BY <1>1, <1>2, <1>3, PTL DEF Spec

\* For every program whose file-scope initializers do not branch, whatever path
\* it takes: no pointer to a literal or an object is null or to other storage
\* than another one's.
THEOREM LiteralsAreLive == StraightInits /\ Spec => []PointersAreLive
<1>1. IInv => PointersAreLive
  BY DEF IInv
<1>. QED BY <1>1, Always, PTL

\* And for every program in which nothing calls main, too: an initializer never
\* takes away a value that the program stored.
THEOREM InitializersComeFirst == StraightInits /\ NobodyCallsMain /\ Spec => []InitializersRunFirst
<1>1. Init => Once
  BY Initially
<1>2. NobodyCallsMain /\ IInv /\ Once /\ [Next]_vars => Once'
  BY OnceStep
<1>3. NobodyCallsMain => (NobodyCallsMain)'
  BY DEF NobodyCallsMain
<1>4. IInv /\ Once => InitializersRunFirst
  BY OnceMeansFirst
<1>. QED BY <1>1, <1>2, <1>3, <1>4, Always, PTL DEF Spec
=============================================================================
