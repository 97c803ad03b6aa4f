----------------------------- MODULE LowerStmt -----------------------------
(***************************************************************************)
(* src/C99/Lower.hs: statements become a list of instructions with labels  *)
(* and jumps.  The state is the part of LowerState the statements use:     *)
(*   code  the instructions so far       n    the next fresh label         *)
(*   loop  lsLoop, the break and the continue target of each construct     *)
(*   sw    lsSwitch, the label of each case and of the default             *)
(*   ret   lsEmittedReturn, control cannot fall off the end here           *)
(* A fresh label (.L) is a positive number, the label of a goto (.G) a     *)
(* negative one, so that the two cannot meet.                              *)
(***************************************************************************)
EXTENDS CStmt

LOCAL INSTANCE FiniteSets
LOCAL INSTANCE SequencesExt

Instr(op, i, to) == [op |-> op, i |-> i, to |-> to]
Emit(L, instr)   == [L EXCEPT !.code = Append(@, instr)]
label(L, l)      == Emit(L, Instr("label", 0, l))
jump(L, l)       == Emit(L, Instr("jump", 0, l))
Eval(L, op, i)   == Emit(L, Instr(op, i, 0))
Fresh(L, k)      == [L EXCEPT !.n = @ + k]     \* the k labels from L.n on are taken
GotoLabel_plain(l) == l
GotoLabel(l)     == -l
NoLabel          == 0                          \* .Lswend_unreachable

\* The value of a condition is never materialized: each operand branches.
RECURSIVE genBool(_, _, _, _)
genBool(c, yes, no, L) ==
  CASE c.k \in {"and", "or"} ->
         LET mid   == L.n
             left  == IF c.k = "and" THEN genBool(c.kids[1], mid, no, Fresh(L, 1))
                      ELSE genBool(c.kids[1], yes, mid, Fresh(L, 1))
         IN  genBool(c.kids[2], yes, no, label(left, mid))
    [] c.k = "not" -> genBool(c.kids[1], no, yes, L)
    [] c.k = "none" -> jump(L, yes)
    [] OTHER -> jump(Emit(L, Instr(IF c.k = "true" THEN "true" ELSE "test", c.i, no)), yes)

\* Every case of this switch, in order, and whether it has a default; a nested
\* switch keeps its own.
RECURSIVE switchLabelsOf(_)
switchLabelsOf(s) ==
  IF s.k = "switch" THEN << >>
  ELSE (IF s.k \in {"case", "default"} THEN <<IF s.k = "case" THEN s.l ELSE 0>> ELSE << >>)
       \o FlattenSeq([i \in DOMAIN s.kids |-> switchLabelsOf(s.kids[i])])

withLoop(L, brk, cont) == [L EXCEPT !.loop = <<<<brk, cont>>>> \o @]
Enclosing(L)           == [L EXCEPT !.loop = Tail(@)]

\* The label of a case, from the innermost open switch; 0 asks for the default.
SwitchLabel(L, v) ==
  IF L.sw # << >> /\ v \in DOMAIN L.sw[1] THEN label(L, L.sw[1][v]) ELSE L

\* The comparisons that pick a case, each jumping to its label or past it.
RECURSIVE dispatch(_, _, _)
dispatch(values, table, L) ==
  IF values = << >> THEN L
  ELSE LET next == L.n
           cmp  == Emit(Fresh(L, 1), Instr("unless", values[1], next))
       IN  dispatch(Tail(values), table, label(jump(cmp, table[values[1]]), next))

RECURSIVE genStmt(_, _), genSeq(_, _)
genSeq(items, L) == IF items = << >> THEN L ELSE genSeq(Tail(items), genStmt(items[1], L))

genLoop(s, L) ==
  LET a == L.n    \* wtop, dbody, ftop
      b == L.n + 1
      c == L.n + 2
      d == L.n + 3
  IN
  CASE s.k = "while" ->
         LET test == label(genBool(s.c, b, c, label(Fresh(L, 3), a)), b)
             body == Enclosing(genStmt(s.kids[1], withLoop(test, c, a)))
         IN  label(jump(body, a), c)
    [] s.k = "do" ->
         LET body == Enclosing(genStmt(s.kids[1], withLoop(label(Fresh(L, 3), a), c, b)))
         IN  label(genBool(s.c, a, c, label(body, b)), c)
    [] s.k = "for" ->
         LET test == label(genBool(s.c, b, d, label(Fresh(L, 4), a)), b)
             body == Enclosing(genStmt(s.kids[1], withLoop(test, d, c)))
             inc  == IF s.l = 0 THEN label(body, c) ELSE Eval(label(body, c), "eval", s.l)
         IN  label(jump(inc, a), d)

\* A switch is a break target; a continue still belongs to the loop around it.
genSwitch(s, L) ==
  LET end     == L.n
      labels  == switchLabelsOf(s.kids[1])
      values  == SelectSeq(labels, LAMBDA v : v # 0)
      default == \E i \in DOMAIN labels : labels[i] = 0
      deflab  == L.n + 1 + Len(values)
      CaseLabel(v) == L.n + (CHOOSE i \in DOMAIN values : values[i] = v)
      table   == [v \in ToSet(values) \cup (IF default THEN {0} ELSE {}) |->
                    IF v = 0 THEN deflab ELSE CaseLabel(v)]
      first   == Fresh(Eval(L, "switch", s.l), 1 + Len(values) + (IF default THEN 1 ELSE 0))
      picked  == jump(dispatch(values, table, first), IF default THEN deflab ELSE end)
      cont    == IF L.loop = << >> THEN NoLabel ELSE L.loop[1][2]
      inside  == [withLoop(picked, end, cont) EXCEPT !.sw = <<table>> \o @]
      body    == [Enclosing(genStmt(s.kids[1], inside)) EXCEPT !.sw = Tail(@)]
  IN  label(body, end)

genIf(s, L) ==
  LET then == L.n   else == L.n + 1   end == L.n + 2
      test == label(genBool(s.c, then, else, Fresh(L, 3)), then)
      yes  == label(jump(genStmt(s.kids[1], test), end), else)
      no   == IF Len(s.kids) = 2 THEN genStmt(s.kids[2], yes) ELSE yes
  IN  label(no, end)

\* A return closes the way off the end; any other statement reopens it, and a
\* structured one reopens it again once its labels are out.
Falls(L)      == [L EXCEPT !.ret = FALSE]
Structured_branches == {"if", "switch"}
Structured    == Loops \cup {"if", "switch"}
KeepsReturn   == {"return", "block", "case", "default"}

genStmt(s, L0) ==
  LET L == IF s.k \in KeepsReturn THEN L0 ELSE Falls(L0)
      M == CASE s.k \in {"expr", "exit"} -> Eval(L, s.k, s.l)
             [] s.k = "return" -> [Eval(L, "return", s.l) EXCEPT !.ret = TRUE]
             [] s.k = "block" -> genSeq(s.kids, L)
             [] s.k = "if" -> genIf(s, L)
             [] s.k \in Loops -> genLoop(s, L)
             [] s.k = "switch" -> genSwitch(s, L)
             [] s.k = "break" -> IF L.loop = << >> THEN L ELSE jump(L, L.loop[1][1])
             [] s.k = "continue" -> IF L.loop = << >> THEN L ELSE jump(L, L.loop[1][2])
             [] s.k = "case" -> genStmt(s.kids[1], SwitchLabel(L, s.l))
             [] s.k = "default" -> genStmt(s.kids[1], SwitchLabel(L, 0))
             [] s.k = "goto" -> jump(L, GotoLabel(s.l))
             [] s.k = "label" -> genStmt(s.kids[1], label(L, GotoLabel(s.l)))
  IN  IF s.k \in Structured THEN Falls(M) ELSE M

\* A function: its body, and a return where control may fall off the end.
genFunction(body) ==
  LET L == genStmt(body, [code |-> << >>, n |-> 1, loop |-> << >>, sw |-> << >>, ret |-> FALSE])
  IN  IF L.ret THEN L.code ELSE Append(L.code, Instr("end", 0, 0))

(* ---- what the instructions do ---- *)

LabelsAt(code, l) == {i \in DOMAIN code : code[i].op = "label" /\ code[i].to = l}

\* Every label is defined once, and every jump goes to one that is.
Closed(code) ==
  /\ \A i \in DOMAIN code : code[i].op = "label" => LabelsAt(code, code[i].to) = {i}
  /\ \A i \in DOMAIN code :
       code[i].op \in {"jump", "test", "true", "unless"} => LabelsAt(code, code[i].to) # {}

At(code, l) == CHOOSE i \in LabelsAt(code, l) : TRUE

\* From pc, with v the value of the last switch expression, to the next thing
\* evaluated: past the end of the code there is another function.
RECURSIVE Executes(_, _, _, _)
Executes(code, pc, v, fuel) ==
  LET Go(to) == Executes(code, to, v, fuel - 1)
      i == code[pc]
  IN
  IF fuel = 0 THEN Stop("silence", 0, {})
  ELSE IF pc > Len(code) THEN Stop("beyond", 0, {})
  ELSE
    CASE i.op \in {"label", "true"} -> Go(pc + 1)
      [] i.op = "jump" -> Go(At(code, i.to))
      [] i.op = "unless" -> IF v = i.i THEN Go(pc + 1) ELSE Go(At(code, i.to))
      [] i.op \in {"eval", "expr"} -> Observe("eval", i.i, <<<<pc + 1, v>>>>, {})
      [] i.op = "test" -> Observe("test", i.i, <<<<pc + 1, v>>, <<At(code, i.to), v>>>>, {})
      [] i.op = "switch" -> Observe("switch", i.i, [w \in CaseValues |-> <<pc + 1, w>>], {})
      [] i.op \in {"return", "exit", "end"} -> Stop(i.op, i.i, {})
=============================================================================
