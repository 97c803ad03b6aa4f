------------------------------- MODULE Start -------------------------------
(***************************************************************************)
(* rt/rt_start.c, __getmainargs: the arguments are split, the environment  *)
(* is read, and main runs, which asks for variables and sets them          *)
(* (rt_parse_env, getenv and _putenv).  The environment is the system's;   *)
(* the runtime keeps a block of it, taken when it is first needed and      *)
(* dropped by _putenv.  A text is a sequence of characters, and an entry   *)
(* of the block is the text NAME=value.  Then the rules that the comment   *)
(* of rt_parse_cmdline quotes for the arguments, stated of positions in    *)
(* the command line and not as a walk: which quotes are literal and which  *)
(* toggle, which blanks separate, and what each character leaves; and what *)
(* it says of the program name, beside what the code does.                 *)
(***************************************************************************)
EXTENDS Args, SequencesExt

CONSTANTS Variables,     \* the environment the program starts with
          Queries,       \* the names it asks for: none holds a "="
          Assignments,   \* what it passes to _putenv
          Fold,          \* a character without its case, as the system compares names
          NameCap        \* the bytes of _putenv's copy of the name (256)

EnvText == Seq(DOMAIN Fold)
SameName(m, n) == [i \in DOMAIN m |-> Fold[m[i]]] = [i \in DOMAIN n |-> Fold[n[i]]]
\* The names of a drive's directory, as in =C:, begin with a "=".
EqualsFrom(k, name) == \E i \in DOMAIN name : i >= k /\ name[i] = "="

ASSUME CapAssumption == NameCap \in Nat \ {0}
\* The system has one variable of a name.
ASSUME VariablesAssumption ==
  /\ Variables \in Seq([name : EnvText, value : EnvText])
  /\ \A i \in DOMAIN Variables : Variables[i].name # << >> /\ ~EqualsFrom(2, Variables[i].name)
  /\ \A i, j \in DOMAIN Variables : SameName(Variables[i].name, Variables[j].name) => i = j
ASSUME QueriesAssumption ==
  /\ \A q \in Queries : q \in EnvText /\ q # << >> /\ ~EqualsFrom(1, q)
  /\ Assignments \subseteq EnvText /\ "=" \in DOMAIN Fold

VARIABLES running,   \* main has been called
          osEnv,     \* the system's variables, in the order of its block
          envp,      \* rt_envp: << >> before it is taken, else <<the block>>
          answer,    \* what getenv last said, until _putenv
          put        \* the last assignment _putenv accepted

envVars == <<osEnv, envp, answer, put>>

None == [name |-> << >>, value |-> << >>]

EnvInit ==
  /\ osEnv = Variables /\ envp = << >> /\ put = None
  /\ answer = [name |-> << >>, got |-> << >>, memory |-> FALSE]

(* ---- the system (kernel32) ---- *)

Named(n) == {i \in DOMAIN osEnv : SameName(osEnv[i].name, n)}

\* SetEnvironmentVariable: a variable keeps the spelling it was made with.
Accepted(name, value) == name # << >> /\ (value = << >> => Named(name) # {})
SetVariable(name, value) ==
  IF value = << >> THEN RemoveAt(osEnv, CHOOSE i \in Named(name) : TRUE)
  ELSE IF Named(name) = {} THEN Append(osEnv, [name |-> name, value |-> value])
  ELSE [i \in DOMAIN osEnv |-> IF i \in Named(name) THEN [osEnv[i] EXCEPT !.value = value] ELSE osEnv[i]]

(* ---- the runtime ---- *)

Entry(v) == v.name \o <<"=">> \o v.value

\* The block as it was, or taken now; or the system or malloc has no memory.
ParseEnv(fails) ==
  IF envp # << >> THEN envp
  ELSE IF fails THEN << >> ELSE <<[i \in DOMAIN osEnv |-> Entry(osEnv[i])]>>

Matches_prefix(text, name) == IsPrefix(name, text)
Matches(text, name) ==
  IsPrefix(name, text) /\ Len(text) > Len(name) /\ text[Len(name) + 1] = "="
Find(block, name) ==
  LET i == SelectInSeq(block, LAMBDA t : Matches(t, name))
  IN  IF i = 0 THEN << >> ELSE <<SubSeq(block[i], Len(name) + 2, Len(block[i]))>>

Startup ==
  /\ \E fails \in BOOLEAN : envp' = ParseEnv(fails)
  /\ UNCHANGED <<osEnv, answer, put>>

Getenv(name) ==
  /\ \E fails \in BOOLEAN : envp' = ParseEnv(fails)
  /\ answer' = [name |-> name, memory |-> envp' # << >>,
                got |-> IF envp' = << >> THEN << >> ELSE Find(envp'[1], name)]
  /\ UNCHANGED <<osEnv, put>>

Equals(text) == SelectInSeq(text, LAMBDA c : c = "=")
NameOf(text)  == SubSeq(text, 1, IF Equals(text) <= NameCap THEN Equals(text) - 1 ELSE NameCap - 1)
ValueOf(text) == SubSeq(text, Equals(text) + 1, Len(text))

Putenv_stale(text) ==
  /\ IF Equals(text) # 0 /\ Accepted(NameOf(text), ValueOf(text))
     THEN /\ osEnv' = SetVariable(NameOf(text), ValueOf(text))
          /\ put' = [name |-> SubSeq(text, 1, Equals(text) - 1), value |-> ValueOf(text)]
     ELSE UNCHANGED <<osEnv, put>>
  /\ answer' = [answer EXCEPT !.memory = FALSE]
  /\ UNCHANGED envp
Putenv(text) ==
  /\ IF Equals(text) # 0 /\ Accepted(NameOf(text), ValueOf(text))
     THEN /\ osEnv' = SetVariable(NameOf(text), ValueOf(text))
          /\ envp' = << >>
          /\ put' = [name |-> SubSeq(text, 1, Equals(text) - 1), value |-> ValueOf(text)]
     ELSE UNCHANGED <<osEnv, envp, put>>
  /\ answer' = [answer EXCEPT !.memory = FALSE]

EnvNext ==
  \/ \E n \in Queries : Getenv(n)
  \/ \E t \in Assignments : Putenv(t)

(* ---- the composition ---- *)

SplitArguments ==
  /\ ~running /\ pc \notin {"done", "failed"} /\ Next
  /\ UNCHANGED <<envVars, running>>

GetMainArgs ==
  /\ ~running /\ pc \in {"done", "failed"}
  /\ Startup /\ running' = TRUE
  /\ UNCHANGED vars

Main ==
  /\ running /\ EnvNext
  /\ UNCHANGED <<vars, running>>

StartInit == Init /\ EnvInit /\ running = FALSE
StartNext == SplitArguments \/ GetMainArgs \/ Main
startVars == <<vars, envVars, running>>
StartSpec == StartInit /\ [][StartNext]_startVars

(* ---- what getenv promises ---- *)

(* The answer of getenv is the system's value under that very name. *)
SystemSays ==
  answer.memory =>
    answer.got = LET i == SelectInSeq(osEnv, LAMBDA v : v.name = answer.name)
                 IN  IF i = 0 THEN << >> ELSE <<osEnv[i].value>>

PutIsGot ==
  (answer.memory /\ answer.name = put.name /\ Len(put.name) < NameCap
     /\ \A i \in DOMAIN osEnv : SameName(osEnv[i].name, put.name) => osEnv[i].name = put.name)
  => answer.got = IF put.value = << >> THEN << >> ELSE <<put.value>>

(* What getenv says is what the system holds under that very name, whole: the
   block it looks in is never older than the last _putenv, and a longer name
   or another variable's value is not mistaken for it.  The last value put is
   what getenv then gives, and nothing once it was put away, if the name fits
   _putenv's copy and has no older spelling. *)
GetenvIsCurrent == SystemSays /\ PutIsGot

(* ---- the rules of the command line ---- *)

\* S's numbers, least first.
Rank(S, i) == Cardinality({j \in S : j < i})
InOrder(S) == [k \in 1..Cardinality(S) |-> CHOOSE i \in {j \in S : Rank(S, j) = k - 1} : TRUE]

\* The backslashes right before position i of c, and those from i on.
RunBefore(c, i) == Max({n \in 0..(i - 1) : \A k \in (i - n)..(i - 1) : c[k] = "backslash"})
RunFrom(c, i)   == Max({n \in 0..(Len(c) - i + 1) : \A k \in i..(i + n - 1) : c[k] = "backslash"})
CharAt(c, i)    == IF i \in 1..Len(c) THEN c[i] ELSE "nul"

\* The program name as the code has it: a quote that begins it is the one that
\* a second ends, and any other stands.  Where it ends, what it is, and where
\* the rest begins.
QuotedName(c) == CharAt(c, 1) = "quote"
EndsName(c, i) == IF QuotedName(c) THEN i > 1 /\ CharAt(c, i) \in {"quote", "nul"}
                  ELSE CharAt(c, i) \in Blank \cup {"nul"}
NameEnd(c)    == Min({i \in 1..(Len(c) + 1) : EndsName(c, i)})
NameText(c)   == SubSeq(c, IF QuotedName(c) THEN 2 ELSE 1, NameEnd(c) - 1)
RestBegin(c)  == IF CharAt(c, NameEnd(c)) = "quote" THEN NameEnd(c) + 1 ELSE NameEnd(c)
RestPart(c)   == RestBegin(c)..Len(c)

Toggles(c, i)   == c[i] = "quote" /\ RunBefore(c, i) % 2 = 0
Inside(c, i)    == Cardinality({k \in RestPart(c) : k < i /\ Toggles(c, k)}) % 2 = 1
Separates(c, i) == c[i] \in Blank /\ ~Inside(c, i)

\* 2n or 2n+1 backslashes before a quote leave n; all others stand.
Halved(c, i) == /\ c[i] = "backslash" /\ CharAt(c, i + RunFrom(c, i)) = "quote"
                /\ RunBefore(c, i) >= (RunBefore(c, i) + RunFrom(c, i)) \div 2
Stays(c, i)  == ~Toggles(c, i) /\ ~Halved(c, i)
Spelled(c, S) == LET kept == {i \in S : Stays(c, i)}
                 IN  [k \in 1..Cardinality(kept) |-> c[InOrder(kept)[k]]]

ArgStarts(c) == {i \in RestPart(c) : ~Separates(c, i) /\ (i - 1 \in RestPart(c) => Separates(c, i - 1))}
Span(c, b)   == {j \in RestPart(c) : b <= j /\ \A i \in b..j : ~Separates(c, i)}

\* The program name as the comment has it: quotes toggle, everything else is
\* literal.  Where it ends, and what it is.
QuotesTo(c, e) == {k \in 1..e : c[k] = "quote"}
SaidEnds(c, i) == \/ CharAt(c, i) = "nul"
                  \/ CharAt(c, i) \in Blank /\ Cardinality(QuotesTo(c, i - 1)) % 2 = 0
SaidEnd(c)  == Min({i \in 1..(Len(c) + 1) : SaidEnds(c, i)})
SaidName(c) == LET kept == (1..(SaidEnd(c) - 1)) \ QuotesTo(c, SaidEnd(c) - 1)
               IN  [k \in 1..Cardinality(kept) |-> c[InOrder(kept)[k]]]

\* The two agree: there is no quote, or one before the name and one after it.
TidyName(c) ==
  LET quotes == QuotesTo(c, SaidEnd(c) - 1)
  IN  quotes = {} \/ (CharAt(c, 1) = "quote" /\ quotes \subseteq {1, SaidEnd(c) - 1})

RuleArgs(c) ==
  <<NameText(c)>> \o
  [k \in 1..Cardinality(ArgStarts(c)) |-> Spelled(c, Span(c, InOrder(ArgStarts(c))[k]))]

\* The string that begins at offset o of the pool, without its terminator.
StringAt(o) ==
  LET end == Min({k \in (o + 1)..Len(pool) : pool[k] = "nul"}) IN SubSeq(pool, o + 1, end - 1)

(* The arguments a program finds in argv are those of the quoting rules: no
   character lost, none from a neighbour, no argument split or joined.  For the
   program name RuleArgs has the code's rule; where its quotes are around the
   whole of it, or it has none, it is the name the comment's rule gives, and
   the rest begins where that ends. *)
ArgvFollowsTheRules ==
  pc = "done" =>
    /\ [k \in 1..Len(argv) |-> StringAt(argv[k])] = RuleArgs(cmd)
    /\ TidyName(cmd) => StringAt(argv[1]) = SaidName(cmd) /\ RestBegin(cmd) = SaidEnd(cmd)

(* The program name is what the comment says, wherever its quotes are: they
   toggle and everything else is literal.  This is refuted: the code ends a
   name at the quote that matches a first one, and keeps all others. *)
NameFollowsTheComment == pc = "done" => StringAt(argv[1]) = SaidName(cmd)
=============================================================================
