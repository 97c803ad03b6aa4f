---------------------------- MODULE CPreprocess ----------------------------
(***************************************************************************)
(* What C99 5.1.1.2 and 6.10 make of a translation unit: its tokens after  *)
(* preprocessing and the errors it deserves.  Comments go first, then      *)
(* whole groups of lines are taken or left by matching each #if with its   *)
(* arms, and macros are replaced token by token, every token carrying the  *)
(* names it may no longer be replaced for (its hide set).                  *)
(*                                                                         *)
(* A path is a text, kept as what precedes its last slash and what follows *)
(* it.  Files is a function from a path without "." on its way to the      *)
(* lines of that file.  A stretch of text lines is expanded as a whole, up *)
(* to the next directive.                                                  *)
(***************************************************************************)
EXTENDS Macros

Spelled(path) == path[1] \o (IF path[1] = "" THEN "" ELSE "/") \o path[2]

(* ---- phase 3 ---- *)

\* The logical lines of a file: tokens [t, sp, hs, at], no comments.  A block
\* comment takes the ends of lines in it along.
CLines(path, lines) ==
  LET end == "end of line"
      stream == FlattenSeq([n \in DOMAIN lines |->
                  [k \in 1 .. Len(lines[n]) + 1 |->
                     [t |-> IF k > Len(lines[n]) THEN end ELSE lines[n][k], n |-> n]]])
      Step(a, p) ==
        CASE a.in = "block" -> [a EXCEPT !.in = IF p.t = "*/" THEN "code" ELSE "block"]
          [] a.in # "block" /\ p.t = end ->
               [in |-> "code", done |-> Append(a.done, a.cur), cur |-> << >>]
          [] a.in = "line" /\ p.t # end -> a
          [] a.in = "code" /\ p.t \in {"/*", "//"} ->
               [a EXCEPT !.in = IF p.t = "/*" THEN "block" ELSE "line",
                         !.cur = Append(@, [p EXCEPT !.t = " "])]
          [] a.in = "code" /\ p.t \notin {end, "/*", "//"} -> [a EXCEPT !.cur = Append(@, p)]
      Tokens(ps) == LET ts == LexSp([k \in DOMAIN ps |-> ps[k].t]) IN
        [k \in DOMAIN ts |-> [t |-> ts[k].t, sp |-> ts[k].sp, hs |-> {},
                              at |-> <<Spelled(path), ps[ts[k].k].n>>]]
      whole == FoldLeft(Step, [in |-> "code", done |-> << >>, cur |-> << >>], stream).done
  IN [k \in DOMAIN whole |-> Tokens(whole[k])]

Texts(ts) == [k \in DOMAIN ts |-> ts[k].t]

(* ---- macro replacement, 6.10.3 ---- *)

\* A definition, from the tokens after #define.
CMacro(ts) ==
  LET fn    == Len(ts) > 1 /\ ts[2].t = "(" /\ ~ts[2].sp
      close == SelectInSeq(ts, LAMBDA x : x.t = ")")
      inner == IF fn THEN SubSeq(Texts(ts), 3, close - 1) ELSE << >>
  IN [name |-> ts[1].t, fn |-> fn,
      params |-> [k \in DOMAIN SelectSeq(inner, LAMBDA t : t # ",") |->
                    LET t == SelectSeq(inner, LAMBDA x : x # ",")[k]
                    IN  IF t = "..." THEN "__VA_ARGS__" ELSE t],
      body |-> SubSeq(ts, (IF fn THEN close ELSE 1) + 1, Len(ts))]

\* Where a call whose `(' is behind ends, and the arguments of one that ends
\* with ts: a variable argument is all that is left, commas too.
CDepth(ts, k) == Cardinality({j \in 1 .. k - 1 : ts[j].t = "("})
               - Cardinality({j \in 1 .. k - 1 : ts[j].t = ")"})
CClose(ts) == CHOOSE k \in DOMAIN ts : /\ ts[k].t = ")" /\ CDepth(ts, k) = 0
                                       /\ \A j \in 1 .. k - 1 : ts[j].t = ")" => CDepth(ts, j) > 0
CArgs(m, ts) ==
  LET Between(ends) == [n \in 1 .. Len(ends) - 1 |-> SubSeq(ts, ends[n] + 1, ends[n + 1] - 1)]
      commas == SelectSeq([k \in 1 .. Len(ts) - 1 |-> k],
                          LAMBDA k : ts[k].t = "," /\ CDepth(ts, k) = 0)
  IN Between(<<0>> \o SubSeq(commas, 1, Len(m.params) - 1) \o <<Len(ts)>>)

\* # spells an argument, one blank for any white space.
Stringized(ts, at) ==
  LET Step(a, k) == a \o (IF k > 1 /\ ts[k].sp THEN " " ELSE "") \o ts[k].t
  IN [t |-> "\"" \o FoldLeft(Step, "", [k \in DOMAIN ts |-> k]) \o "\"",
      sp |-> FALSE, hs |-> {}, at |-> at]

\* ## makes one token of its neighbours; a placemarker stands for no token.
Placemarker == <<[t |-> "", sp |-> FALSE, hs |-> {}, at |-> <<"", 0>>]>>
CPaste(a, b) == Front(a) \o <<[Last(a) EXCEPT !.t = @ \o b[1].t, !.hs = @ \cap b[1].hs]>> \o Tail(b)

RECURSIVE CExpand(_, _)

\* The body of m for arguments as.  An argument is replaced on its own first,
\* unless # or ## takes it.
CSubst(defs, m, as, at) ==
  LET body     == m.body
      which(k) == SelectInSeq(m.params, LAMBDA x : x = body[k].t)
      Is(k, t) == k \in DOMAIN body /\ body[k].t = t
      Piece(k) ==
        CASE m.fn /\ Is(k - 1, "#") -> <<Stringized(as[which(k)], at)>>
          [] ~(m.fn /\ Is(k - 1, "#")) /\ which(k) # 0 ->
               IF Is(k - 1, "##") \/ Is(k + 1, "##")
               THEN IF as[which(k)] = << >> THEN Placemarker ELSE as[which(k)]
               ELSE CExpand(defs, as[which(k)])
          [] ~(m.fn /\ Is(k - 1, "#")) /\ which(k) = 0 -> <<[body[k] EXCEPT !.at = at]>>
      Step(a, k) ==
        CASE Is(k, "##") \/ (m.fn /\ Is(k, "#")) -> a
          [] ~(Is(k, "##") \/ (m.fn /\ Is(k, "#"))) ->
               IF Is(k - 1, "##") \/ (m.fn /\ Is(k - 1, "#") /\ Is(k - 2, "##"))
               THEN CPaste(a, Piece(k)) ELSE a \o Piece(k)
  IN SelectSeq(FoldLeft(Step, << >>, [k \in DOMAIN body |-> k]), LAMBDA x : x.t # "")

CExpand(defs, ts) ==
  LET Hide(xs, hs) == [k \in DOMAIN xs |-> [xs[k] EXCEPT !.hs = @ \cup hs]]
      Replace(i, args, hs, rest) ==
        CExpand(defs, Hide(CSubst(defs, defs[i.t], args, i.at), hs \cup {i.t}) \o rest)
      Call(i, inside, close) ==
        Replace(i, CArgs(defs[i.t], SubSeq(inside, 1, close)), i.hs \cap inside[close].hs,
                SubSeq(inside, close + 1, Len(inside)))
      Kept(i, r) == <<i>> \o CExpand(defs, r)
      Ordinary(i, r) ==
        IF i.t \in i.hs \/ i.t \notin DOMAIN defs THEN Kept(i, r)
        ELSE IF ~defs[i.t].fn THEN Replace(i, << >>, i.hs, r)
        ELSE IF r # << >> /\ r[1].t = "(" THEN Call(i, Tail(r), CClose(Tail(r)))
        ELSE Kept(i, r)
      Builtin(i) == CASE i.t = "__LINE__" -> ToString(i.at[2])
                      [] i.t = "__FILE__" -> "\"" \o i.at[1] \o "\""
                      [] OTHER -> i.t
  IN IF ts = << >> THEN << >>
     ELSE IF ts[1].t \in {"__LINE__", "__FILE__"}
     THEN Kept([ts[1] EXCEPT !.t = Builtin(ts[1])], Tail(ts))
     ELSE Ordinary(ts[1], Tail(ts))

(* ---- conditions, 6.10.1 ---- *)

\* The value 6.5 gives an expression, splitting it at the operator that binds least.

RECURSIVE CEval(_)
CEval(s) ==
  LET operand(t) == Numeral(t) \/ t = ")" \/ Word(t)
      Part(a, b) == CEval(SubSeq(s, a, b))
      \* `?' at top[q]: its `:' is where as many of one as of the other passed.
      Ternary(top, q) ==
        LET between(k, t) == Cardinality({j \in q + 1 .. k - 1 : s[top[j]] = t})
            Colon(k) == IF Part(1, top[q] - 1) # 0 THEN Part(top[q] + 1, k - 1) ELSE Part(k + 1, Len(s))
        IN Colon(top[SelectInSeq([k \in DOMAIN top |-> k],
                       LAMBDA k : k > q /\ s[top[k]] = ":" /\ between(k, "?") = between(k, ":"))])
      Split(k) == Apply(s[k], Part(1, k - 1), Part(k + 1, Len(s)))
      Level(t) == CHOOSE L \in DOMAIN Levels : t \in Levels[L]
      \* The last of the loosest operators.
      Loosest(infix) == Split(CHOOSE k \in infix : \A j \in infix :
                                Level(s[k]) < Level(s[j]) \/ (Level(s[k]) = Level(s[j]) /\ j <= k))
      Simple == CASE s[1] = "(" -> Part(2, Len(s) - 1)
                  [] s[1] = "!" -> bool(Part(2, Len(s)) = 0)
                  [] s[1] = "~" -> Wrap(-Part(2, Len(s)) - 1)
                  [] s[1] = "+" -> Part(2, Len(s))
                  [] s[1] = "-" -> Wrap(-Part(2, Len(s)))
                  [] Numeral(s[1]) -> Number(s[1])
                  [] OTHER -> 0
      Binary(infix) == IF infix = {} THEN Simple ELSE Loosest(infix)
      Valued(top, q) ==
        IF q # 0 THEN Ternary(top, q)
        ELSE Binary({k \in ToSet(top) \ {1} :
                       operand(s[k - 1]) /\ \E L \in DOMAIN Levels : s[k] \in Levels[L]})
      Outer(top) == Valued(top, SelectInSeq(top, LAMBDA k : s[k] = "?"))
  IN Outer(Outermost(s))

\* defined X and defined(X) with their answers.
RECURSIVE CDefined(_, _)
CDefined(defs, ts) ==
  LET paren == Len(ts) > 1 /\ ts[2].t = "("
      name  == ts[IF paren THEN 3 ELSE 2].t
  IN IF ts = << >> THEN ts
     ELSE IF ts[1].t # "defined" THEN <<ts[1]>> \o CDefined(defs, Tail(ts))
     ELSE <<[ts[1] EXCEPT !.t = IF name \in DOMAIN defs THEN "1" ELSE "0"]>>
            \o CDefined(defs, SubSeq(ts, IF paren THEN 5 ELSE 3, Len(ts)))

\* Is the group after this line taken, if no earlier one of its #if is?
CHolds(defs, l) ==
  LET rest == SubSeq(l, 3, Len(l)) IN
  CASE l[2].t = "if" \/ l[2].t = "elif" -> CEval(Texts(CExpand(defs, CDefined(defs, rest)))) # 0
    [] l[2].t = "ifdef" -> rest[1].t \in DOMAIN defs
    [] l[2].t = "ifndef" -> rest[1].t \notin DOMAIN defs
    [] l[2].t = "else" -> TRUE

(* ---- groups, 6.10 and 6.10.2 ---- *)

Opens == {"if", "ifdef", "ifndef"}
Arms  == {"elif", "else"}

\* The file the system opens for a path: d/. is d, however often.
RECURSIVE Folder(_)
Folder(d) == IF d = "" THEN "."
             ELSE IF Len(d) > 2 /\ SubSeq(d, Len(d) - 1, Len(d)) = "/." THEN Folder(SubSeq(d, 1, Len(d) - 2))
             ELSE d
File(p) == <<Folder(p[1]), p[2]>>
Exists(Files, p)   == File(p) \in DOMAIN Files
Contents(Files, p) == Files[File(p)]

\* The path that a name in #include spells: no directory, or "./".
PathOf(name) == IF Len(name) > 2 /\ SubSeq(name, 1, 2) = "./" THEN <<".", SubSeq(name, 3, Len(name))>>
                 ELSE <<"", name>>
joinPath(dir, p) == <<IF dir = "" THEN p[1] ELSE IF p[1] = "" THEN dir ELSE dir \o "/" \o p[1], p[2]>>
dirOf(p) == IF p[1] = "" THEN "." ELSE p[1]

\* Where a name is looked for: next to the file that includes it if quoted,
\* then in the directories given, then as it stands.  The texts are put side
\* by side, and no "./" is ever taken out of them.
Candidates(dirs, from, name, angled) ==
  (IF angled THEN << >> ELSE <<joinPath(dirOf(from), PathOf(name))>>)
    \o [k \in DOMAIN dirs |-> joinPath(dirs[k], PathOf(name))] \o <<PathOf(name)>>

\* st: definitions, output, errors, and the text not expanded yet.
Flush(st) == [st EXCEPT !.out = @ \o Texts(CExpand(st.defs, st.run)), !.run = << >>]

\* env: [files, dirs, ls, path, open], ls the lines of the file at path and open
\* the files it is included from.  Lines a .. b of it.
RECURSIVE CGroup(_, _, _, _)
CGroup(env, st, a, b) ==
  LET Dir(k) == IF Len(env.ls[k]) > 1 /\ env.ls[k][1].t = "#" THEN env.ls[k][2].t ELSE "text"
      On(s)  == CGroup(env, s, a + 1, b)
      Error(s, e, p, n) == On([s EXCEPT !.errs = Append(@, <<e, Spelled(p), n>>)])
      Here(s, e) == Error(s, e, env.path, env.ls[a][1].at[2])
      \* An #if: its #endif, its arms, the one that is taken.
      Level(k) == Cardinality({j \in a + 1 .. k - 1 : Dir(j) \in Opens})
                - Cardinality({j \in a + 1 .. k - 1 : Dir(j) = "endif"})
      Taken(s, ends, k) ==
        CGroup(env, IF k = Len(ends) THEN s ELSE CGroup(env, s, ends[k] + 1, ends[k + 1] - 1),
               Last(ends) + 1, b)
      Choice(s, ends) ==   \* ends: the arms and the #endif
        Taken(s, ends, SelectInSeq(ends, LAMBDA k : Dir(k) = "endif" \/ CHolds(s.defs, env.ls[k])))
      Conditional(s, endif) ==
        Choice(s, SelectSeq([k \in 1 .. endif - a + 1 |-> a + k - 1],
                            LAMBDA k : k \in {a, endif} \/ (Dir(k) \in Arms /\ Level(k) = 0)))
      If(s) == Conditional(s, CHOOSE k \in a + 1 .. b :
                 Dir(k) = "endif" /\ Level(k) = 0 /\ \A j \in a + 1 .. k - 1 : Dir(j) = "endif" => Level(j) > 0)
      \* An #include: the file, and its lines in place of this one.
      Lines(s, p, ls) ==
        On(CGroup([env EXCEPT !.ls = ls, !.path = p, !.open = @ \cup {env.path}], s, 1, Len(ls)))
      Open(s, ps) ==
        IF ps = << >> THEN Here(s, "include")
        ELSE IF ps[1] \in env.open \cup {env.path} THEN Error(s, "cycle", ps[1], 1)
        ELSE Lines(s, ps[1], CLines(ps[1], Contents(env.files, ps[1])))
      Search(name, angled) == SelectSeq(Candidates(env.dirs, env.path, name, angled),
                                        LAMBDA p : Exists(env.files, p))
      Name(ts) == CASE ts = << >> -> << >>
                    [] ts # << >> /\ ts[1].t = "<" -> Search(ts[2].t, TRUE)
                    [] ts # << >> /\ ts[1].t # "<" ->
                         Search(SubSeq(ts[1].t, 2, Len(ts[1].t) - 1), FALSE)
      Include(s, ts) == Open(s, Name(IF ts[1].t = "<" THEN ts ELSE CExpand(s.defs, ts)))
      Define(s, m) == On([s EXCEPT !.defs = (m.name :> m) @@ @])
      Directive(s, d, rest) ==
        CASE d \in Opens -> If(s)
          [] d \in Arms \cup {"endif", "error"} -> Here(s, d)
          [] d = "define" -> IF rest # << >> /\ Word(rest[1].t) THEN Define(s, CMacro(rest)) ELSE Here(s, d)
          [] d = "undef" -> On([s EXCEPT !.defs = [n \in DOMAIN @ \ {rest[1].t} |-> @[n]]])
          [] d = "include" -> Include(s, rest)
          [] OTHER -> On(s)
  IN IF a > b THEN Flush(st)
     ELSE IF env.ls[a] = << >> \/ env.ls[a][1].t # "#" THEN On([st EXCEPT !.run = @ \o env.ls[a]])
     ELSE Directive(Flush(st), Dir(a), SubSeq(env.ls[a], 3, Len(env.ls[a])))

\* The whole unit, for macros already defined.
CRun(Files, dirs, main, defs) ==
  LET ls == CLines(main, Contents(Files, main)) IN
  CGroup([files |-> Files, dirs |-> dirs, ls |-> ls, path |-> main, open |-> {}],
         [defs |-> defs, out |-> << >>, errs |-> << >>, run |-> << >>], 1, Len(ls))
=============================================================================
