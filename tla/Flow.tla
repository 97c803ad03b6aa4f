-------------------------------- MODULE Flow --------------------------------
(***************************************************************************)
(* A function body that the checker accepted, run twice in step: as C99    *)
(* says and as the lowered instructions do.  Whatever an execution cannot  *)
(* know, the value of a condition or of a switch, is chosen at each step   *)
(* and given to both.                                                      *)
(***************************************************************************)
EXTENDS CStmt, LowerStmt

(* ---- src/C99/Sema.hs: which bodies the checker accepts, whether it takes control
   to fall off a statement's end, and what it warns about ---- *)

SomeKid(s, P(_)) == \E i \in DOMAIN s.kids : P(s.kids[i])

\* foldConst gives a nonzero constant.
isAlwaysTrue(c) == c.k = "true"
forever(c)      == c.k = "none" \/ isAlwaysTrue(c)

\* A break that belongs to this statement, not to a loop or switch inside it.
RECURSIVE hasBreak(_)
hasBreak(s) == \/ s.k = "break"
               \/ s.k \notin Loops \cup {"switch"} /\ SomeKid(s, hasBreak)

\* A default that belongs to this switch, at any depth but a nested switch's.
RECURSIVE hasDefault(_)
hasDefault(s) == \/ s.k = "default"
                 \/ s.k # "switch" /\ SomeKid(s, hasDefault)

RECURSIVE fallsThrough(_)
lastGroupFallsThrough(s) ==
  IF s.k = "block" THEN s.kids = << >> \/ fallsThrough(s.kids[Len(s.kids)])
  ELSE fallsThrough(s)
switchFallsThrough_last(b) == lastGroupFallsThrough(b)
switchFallsThrough(b) ==
  ~hasDefault(b) \/ hasBreak(b) \/ lastGroupFallsThrough(b)
fallsThrough(s) ==
  CASE s.k \in {"return", "goto", "break", "continue", "exit"} -> FALSE
    [] s.k = "block" -> \A i \in DOMAIN s.kids : fallsThrough(s.kids[i])
    [] s.k = "if" -> Len(s.kids) = 1 \/ SomeKid(s, fallsThrough)
    [] s.k \in {"while", "for"} -> ~(forever(s.c) /\ ~hasBreak(s.kids[1]))
    [] s.k = "do" -> /\ fallsThrough(s.kids[1])
                     /\ ~(isAlwaysTrue(s.c) /\ ~hasBreak(s.kids[1]))
    [] s.k \in {"label", "case", "default"} -> fallsThrough(s.kids[1])
    [] s.k = "switch" -> switchFallsThrough(s.kids[1])
    [] OTHER -> TRUE

isLabelled_goto(s) == s.k = "label"
isLabelled(s) == s.k \in {"label", "case", "default"}

\* The first statement of a block that follows one control does not fall out
\* of, and that carries no label: one warning for each block.
warned(items) == {i \in 1 .. Len(items) - 1 :
                    ~fallsThrough(items[i]) /\ ~isLabelled(items[i + 1])}
warnUnreachable(items) ==
  {items[i + 1] : i \in {j \in warned(items) : \A n \in warned(items) : j <= n}}

\* The warnings of a whole body: every block of it is checked.
CalledUnreachable(body) ==
  UNION {warnUnreachable(s.kids) : s \in {x \in Subtree(body) : x.k = "block"}}
warnMissingReturn(body) == fallsThrough(body)

\* checkStmt: break in a loop or switch, continue in a loop, labels of a
\* switch in a switch.  It does not look where a goto goes.
RECURSIVE checkStmt(_, _, _)
checkStmt(s, loops, switches) ==
  LET l == loops + (IF s.k \in Loops THEN 1 ELSE 0)
      w == switches + (IF s.k = "switch" THEN 1 ELSE 0)
  IN /\ s.k = "break" => loops + switches > 0
     /\ s.k = "continue" => loops > 0
     /\ s.k \in {"case", "default"} => switches > 0
     /\ \A i \in DOMAIN s.kids : checkStmt(s.kids[i], l, w)

(* ---- the two executions ---- *)

CONSTANT Bodies     \* the function bodies, a sequence of sets

VARIABLES body,     \* the body
          code,     \* its instructions
          c,        \* what C99 still has to do
          ir,       \* where the instructions are: position, switch value
          dead      \* the statements the checker called unreachable

vars == <<body, code, c, ir, dead>>

Meaning == Sees(body, c)
Lowered == Executes(code, ir[1], ir[2], 2 * SilentSteps)

\* The compiler: check, warn, lower.
Init ==
  /\ \E n \in DOMAIN Bodies : body \in {b \in Bodies[n] : checkStmt(b, 0, 0)}
  /\ code = genFunction(body)
  /\ c = Beginning(body)
  /\ ir = <<1, 0>>
  /\ dead = CalledUnreachable(body)

\* One evaluation, with the i-th of its possible outcomes.
Evaluate(i) ==
  /\ i \in DOMAIN Meaning.next \cap DOMAIN Lowered.next
  /\ c' = Meaning.next[i]
  /\ ir' = Lowered.next[i]
  /\ UNCHANGED <<body, code, dead>>

Next == \E i \in CaseValues : Evaluate(i)

Spec == Init /\ [][Next]_vars
-----------------------------------------------------------------------------
\* Every jump has one target, and the instructions evaluate what C99 evaluates,
\* in the same order and with the same outcome, and end the same way: no break,
\* continue, goto or case goes astray, no case is missed by the walk that
\* collects them, and control never runs past the end of the function into the
\* next one (the comment on lsEmittedReturn in genStmt).
SameExecution == Closed(code) /\ Lowered.ev = Meaning.ev

\* Some statement inside s is of one of kinds.
Within(kinds, s) == \E x \in Subtree(s) \ {s} : x.k \in kinds

\* "unreachable-code: a statement control can never arrive at"
\* (docs/diagnostics.md:74): what warnUnreachable reports never runs, nor any
\* part of it.  Said of the bodies without a do, whose breaks and continues
\* fallsThrough forgets, and of statements with no label inside, which
\* isLabelled does not look for.
DeadUnlessDo ==
  ~Within({"do"}, body) =>
    \A s \in dead :
      ~Within({"case", "default", "label"}, s) => Subtree(s) \cap Meaning.via = {}

\* "missing-return: a value-returning function that can run off its end"
\* (docs/diagnostics.md:75): without do and goto, a body that does was reported.
FallOffIsWarned == ~Within({"do", "goto"}, body) /\ Meaning.ev = <<"end", 0>> => warnMissingReturn(body)

\* The two warnings about control are true of every execution: what is called
\* unreachable never runs, and no body runs off its end unreported.
WarningsAreTrue == DeadUnlessDo /\ FallOffIsWarned
=============================================================================
