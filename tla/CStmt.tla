------------------------------- MODULE CStmt -------------------------------
(***************************************************************************)
(* Statements (src/C99/Ast.hs) and what C99 6.8 says they do: the meaning  *)
(* the compiler's passes are measured against.  A program is a function    *)
(* body; an execution is the sequence of expressions it evaluates, with    *)
(* the value of each left open.  A statement is a record                   *)
(*   k     its kind       c  the condition of an if or a loop              *)
(*   l     the identity of a leaf, the number of a goto's label, the value *)
(*         of a case, the identity of a switch or of a for's increment     *)
(*   kids  the statements it is made of                                    *)
(***************************************************************************)
EXTENDS Integers, Sequences

Stmt(k, c, l, kids) == [k |-> k, c |-> c, l |-> l, kids |-> kids]

(* ---- conditions ---- *)

Atom(i)   == [k |-> "atom", i |-> i, kids |-> << >>]     \* evaluates expression i
Forever   == [k |-> "true", i |-> 0, kids |-> << >>]     \* a nonzero constant
Absent    == [k |-> "none", i |-> 0, kids |-> << >>]     \* for (;;), or no condition
Not(x)    == [k |-> "not", i |-> 0, kids |-> <<x>>]
LAnd(x, y) == [k |-> "and", i |-> 0, kids |-> <<x, y>>]
LOr(x, y)  == [k |-> "or", i |-> 0, kids |-> <<x, y>>]

(* ---- statements ---- *)

Expr(i)      == Stmt("expr", Absent, i, << >>)
Exit(i)      == Stmt("exit", Absent, i, << >>)           \* a call that does not return
Return(i)    == Stmt("return", Absent, i, << >>)
Break(i)     == Stmt("break", Absent, i, << >>)
Continue(i)  == Stmt("continue", Absent, i, << >>)
Goto(l)      == Stmt("goto", Absent, l, << >>)
Label(l, b)  == Stmt("label", Absent, l, <<b>>)
Case(v, b)   == Stmt("case", Absent, v, <<b>>)
Default(b)   == Stmt("default", Absent, 0, <<b>>)
Block(items) == Stmt("block", Absent, 0, items)
If(c, a)     == Stmt("if", c, 0, <<a>>)
IfElse(c, a, b) == Stmt("if", c, 0, <<a, b>>)
While(c, b)  == Stmt("while", c, 0, <<b>>)
Do(b, c)     == Stmt("do", c, 0, <<b>>)
For(c, i, b) == Stmt("for", c, i, <<b>>)
Switch(i, b) == Stmt("switch", Absent, i, <<b>>)

Loops  == {"while", "do", "for"}
Leaves == {"expr", "exit", "return", "break", "continue", "goto"}

RECURSIVE Subtree(_)
Subtree(s) == {s} \cup UNION {Subtree(s.kids[i]) : i \in DOMAIN s.kids}

(* ---- execution ---- *)

(***************************************************************************)
(* What is left to do is a sequence of frames, the innermost first: a      *)
(* statement to run, a loop to test or to step again, the end of a switch; *)
(* or a condition under evaluation with what follows either outcome.       *)
(***************************************************************************)
Frame(f, s)       == [f |-> f, s |-> s]
Run(s, todo)      == <<Frame("run", s)>> \o todo
Left(todo)        == [t |-> "left", todo |-> todo]
Testing(c, yes, no) == [t |-> "test", c |-> c, yes |-> yes, no |-> no]

RunAll(items, todo) == [i \in 1 .. Len(items) |-> Frame("run", items[i])] \o todo

\* break leaves, and continue restarts, the innermost construct it belongs to.
RECURSIVE BreakFrom(_), ContinueFrom(_)
BreakFrom(todo) ==
  IF todo[1].f \in {"again", "step", "end"} THEN Tail(todo) ELSE BreakFrom(Tail(todo))
ContinueFrom(todo) ==
  IF todo[1].f \in {"again", "step"} THEN todo ELSE ContinueFrom(Tail(todo))

\* What follows the body of a loop: its test, or a for's increment.
Loop(s, todo) == <<Frame(IF s.k = "for" THEN "step" ELSE "again", s)>> \o todo

\* The frames from which the statements named by Here are run: a goto, or a
\* switch's dispatch, enters them with everything around them still to do.  A
\* nested switch keeps its cases to itself.
RECURSIVE Enter(_, _, _, _)
Enter(s, Here(_), todo, nested) ==
  LET In(i, rest) == Enter(s.kids[i], Here, rest, nested)
  IN  (IF Here(s) THEN {Run(s, todo)} ELSE {}) \cup
      CASE s.k = "block" ->
             UNION {In(i, RunAll(SubSeq(s.kids, i + 1, Len(s.kids)), todo)) : i \in DOMAIN s.kids}
        [] s.k \in Loops -> In(1, Loop(s, todo))
        [] s.k = "switch" -> IF nested THEN In(1, <<Frame("end", s)>> \o todo) ELSE {}
        [] OTHER -> UNION {In(i, todo) : i \in DOMAIN s.kids}

TheOne(S) == CHOOSE x \in S : TRUE

GotoTarget(body, l) ==
  LET Here(s) == s.k = "label" /\ s.l = l IN TheOne(Enter(body, Here, << >>, TRUE))

SwitchTarget(s, v, todo) ==
  LET after == <<Frame("end", s)>> \o todo
      Named(n)     == n.k = "case" /\ n.l = v
      Otherwise(n) == n.k = "default"
      cases    == Enter(s.kids[1], Named, after, FALSE)
      defaults == Enter(s.kids[1], Otherwise, after, FALSE)
  IN  IF cases # {} THEN TheOne(cases) ELSE IF defaults # {} THEN TheOne(defaults) ELSE todo

CaseValues == 1 .. 3

\* An observation: something evaluated, with what is left after each outcome;
\* and the statements that control arrived at on the way to it.
Observe(kind, i, next, via) == [ev |-> <<kind, i>>, next |-> next, via |-> via]
Stop(kind, i, via) == Observe(kind, i, << >>, via)
Then(todo) == <<Left(todo)>>

SilentSteps == 40   \* an execution that goes on longer in silence goes on for ever

RECURSIVE Observed(_, _, _, _)
Observed(body, st, via, fuel) ==
  LET Go(next) == Observed(body, next, via, fuel - 1)
  IN
  IF fuel = 0 THEN Stop("silence", 0, via)
  ELSE IF st.t = "test" THEN
    LET c == st.c IN
    CASE c.k = "atom" -> Observe("test", c.i, <<st.yes, st.no>>, via)
      [] c.k \in {"true", "none"} -> Go(st.yes)
      [] c.k = "not" -> Go(Testing(c.kids[1], st.no, st.yes))
      [] c.k = "and" -> Go(Testing(c.kids[1], Testing(c.kids[2], st.yes, st.no), st.no))
      [] c.k = "or"  -> Go(Testing(c.kids[1], st.yes, Testing(c.kids[2], st.yes, st.no)))
  ELSE IF st.todo = << >> THEN Stop("end", 0, via)
  ELSE
    LET s     == st.todo[1].s
        todo  == Tail(st.todo)
        seen  == via \cup {s}
        To(next) == Observed(body, next, seen, fuel - 1)
        Retest == Testing(s.c, Left(Run(s.kids[1], Loop(s, todo))), Left(todo))
    IN
    CASE st.todo[1].f = "end" -> Go(Left(todo))
      [] st.todo[1].f = "step" ->
           IF s.l = 0 THEN Go(Retest) ELSE Observe("eval", s.l, <<Retest>>, via)
      [] st.todo[1].f = "again" -> Go(Retest)
      [] OTHER ->
    CASE s.k = "expr" -> Observe("eval", s.l, Then(todo), seen)
      [] s.k = "exit" -> Stop("exit", s.l, seen)
      [] s.k = "return" -> Stop("return", s.l, seen)
      [] s.k = "break" -> To(Left(BreakFrom(todo)))
      [] s.k = "continue" -> To(Left(ContinueFrom(todo)))
      [] s.k = "goto" -> To(Left(GotoTarget(body, s.l)))
      [] s.k \in {"label", "case", "default"} -> To(Left(Run(s.kids[1], todo)))
      [] s.k = "block" -> To(Left(RunAll(s.kids, todo)))
      [] s.k = "if" ->
           To(Testing(s.c, Left(Run(s.kids[1], todo)),
                      Left(IF Len(s.kids) = 2 THEN Run(s.kids[2], todo) ELSE todo)))
      [] s.k \in {"while", "for"} -> To(Retest)
      [] s.k = "do" -> To(Left(Run(s.kids[1], Loop(s, todo))))
      [] s.k = "switch" ->
           Observe("switch", s.l, [v \in CaseValues |-> Left(SwitchTarget(s, v, todo))], seen)

\* What the function does first, and what it does next.
Beginning(body)     == Left(<<Frame("run", body)>>)
Sees(body, st)      == Observed(body, st, {}, SilentSteps)
=============================================================================
