------------------------------- MODULE Names -------------------------------
(***************************************************************************)
(* What a name means.  app/Main.hs parses the units one by one, renames    *)
(* the file statics of each (src/C99/StaticRename.hs), and merges them     *)
(* with the runtime into one program, which src/C99/Sema.hs resolves in    *)
(* two passes and src/C99/Lower.hs turns into globals.  The state walks    *)
(* the merged program as Sema does; beside it, c walks the units as C99    *)
(* 6.2 reads them, and `meant' remembers which symbol stood for what.      *)
(*                                                                         *)
(* A unit is a sequence of items, an item a record                         *)
(*   k     func, proto, var or enum       sc     none, static or extern    *)
(*   name  its name                       init   has an initializer        *)
(*   val   an enumerator's value          params the parameters' names     *)
(*   body  a function's tokens, or the uses in an initializer              *)
(* A token is an open or a close of a block, a use, an enum, or a decl,    *)
(* whose sc is auto, static, extern, or func for a prototype.              *)
(***************************************************************************)
EXTENDS Integers, Sequences, FiniteSets, SequencesExt

CONSTANTS Programs,    \* the programs: sequences of units
          Rt           \* how many of a program's last units are the runtime

ASSUME RtAssumption == Rt \in Nat

VARIABLES units,       \* the program
          merged,      \* the items of all units, renamed and in one sequence
          pos,         \* the pass, the item and the token Sema is at
          st,          \* SemaState: scopes, symbols, used ones, diagnostics
          c,           \* C99's scopes, what is used, what is wrong
          meant,       \* <<key, entity>> pairs: the symbol and C's meaning
          globals      \* the declarations Lower emits as globals

vars == <<units, merged, pos, st, c, meant, globals>>

(* ---- names ---- *)

\* A name as the merged program spells it: as written, renamed in unit n (the
\* prefixes of user units and of the runtime's differ), or a block-scope
\* static, keyed to its symbol n.
Plain(x)         == [of |-> "plain", n |-> 0, id |-> x]
Renamed(u, x)    == [of |-> "static", n |-> u, id |-> x]
BlockStatic(n, x) == [of |-> "block", n |-> n, id |-> x]

Statics(unit) ==
  {unit[i].name : i \in {j \in DOMAIN unit : unit[j].k # "enum" /\ unit[j].sc = "static"}}

rename(u, x) == IF x \in Statics(units[u]) THEN Renamed(u, x) ELSE Plain(x)

(* ---- blocks of a body ---- *)

Depth(b, j) == Cardinality({i \in 1 .. j - 1 : b[i].t = "open"})
             - Cardinality({i \in 1 .. j - 1 : b[i].t = "close"})
Inside(b, k, j) == /\ b[k].t = "open" /\ k < j
                   /\ \A i \in k + 1 .. j : Depth(b, i) > Depth(b, k)
Directly(b, k, j) == Inside(b, k, j) /\ Depth(b, j) = Depth(b, k) + 1

(* ---- StaticRename ---- *)

\* The names dropped from the renames at token j: the parameters, and all that
\* any enclosing block declares, before or after j.  Enumerators are not
\* declarations of the block any more.
ShadowedAt_params(f, j) == ToSet(f.params)
ShadowedAt(f, j) ==
  ToSet(f.params) \cup
  {f.body[i].name : i \in {m \in DOMAIN f.body :
      /\ f.body[m].t = "decl"
      /\ \E k \in DOMAIN f.body : Inside(f.body, k, j) /\ Directly(f.body, k, m)}}

expr(u, f, j) ==
  LET x == f.body[j].name IN
  IF x \in ShadowedAt(f, j) THEN Plain(x) ELSE rename(u, x)

(* ---- the parser's hoisting, and the merge ---- *)

Entry(u, i, d) == [u |-> u, i |-> i, d |-> d]

\* A block-scope enum's enumerators come out as items before the function.
Pending(f) == LET es == SelectSeq(f.body, LAMBDA t : t.t = "enum") IN
              [n \in DOMAIN es |-> [f EXCEPT !.k = "enum", !.name = es[n].name,
                                             !.val = es[n].val, !.body = << >>]]

program(u, unit) ==
  FlattenSeq([i \in DOMAIN unit |->
    LET all == Pending(unit[i]) \o <<unit[i]>>
    IN  [n \in DOMAIN all |-> Entry(u, i, all[n])]])

IsRt(p, u) == u > Len(p) - Rt

\* A function the program defines wins over the runtime's.
userDefined(p) ==
  {d.name : d \in UNION {{e \in ToSet(p[u]) : e.k = "func" /\ e.name \notin Statics(p[u])} :
                            u \in {v \in DOMAIN p : ~IsRt(p, v)}}}
keep(p, e) ==
  ~(IsRt(p, e.u) /\ e.d.k = "func" /\ e.d.name \in userDefined(p)
      /\ e.d.name \notin Statics(p[e.u]))

Merge(p) ==
  SelectSeq(FlattenSeq([u \in DOMAIN p |-> program(u, p[u])]), LAMBDA e : keep(p, e))

(* ---- Sema: scopes and symbols ---- *)

NoNames == [x \in {} |-> 0]
pushScope(s) == [s EXCEPT !.scopes = <<NoNames>> \o @]
popScope(s)  == [s EXCEPT !.scopes = Tail(@)]

NewSym(kind, name) == [kind |-> kind, name |-> name, link |-> name, ext |-> FALSE,
                       glob |-> FALSE, stat |-> FALSE, def |-> FALSE,
                       init |-> FALSE, val |-> 0]

\* A redeclaration that C tolerates.
Tolerated_extern(old, kind, ext, init) == old.kind = kind /\ (old.ext \/ ext)
Tolerated(old, kind, ext, init) ==
  /\ old.kind = kind
  /\ kind = "var" => old.ext \/ ext \/ ~(old.init /\ init)

insertSymInit(s, kind, name, ext, init) ==
  IF name \in DOMAIN s.scopes[1]
  THEN [s EXCEPT !.errs = IF Tolerated(s.syms[s.scopes[1][name]], kind, ext, init)
                          THEN @ ELSE @ \cup {<<"E0100", name>>}]
  ELSE [s EXCEPT !.syms = Append(@, NewSym(kind, name)),
                 !.scopes[1] = @ @@ (name :> Len(s.syms) + 1)]
insertSym(s, kind, name, ext) == insertSymInit(s, kind, name, ext, FALSE)

\* The symbol a declaration just made or found in the innermost scope.
Here(s, name) == s.scopes[1][name]

Seeing(scopes, name) == {i \in DOMAIN scopes : name \in DOMAIN scopes[i]}
Innermost(S) == CHOOSE i \in S : \A j \in S : i <= j
lookupSym(s, name) ==
  LET in == Seeing(s.scopes, name) IN
  IF in = {} THEN 0 ELSE s.scopes[Innermost(in)][name]

(* ---- Sema: the two passes ---- *)

declarePass(s0, e) ==
  LET d == e.d
      name == IF d.k = "enum" THEN Plain(d.name) ELSE rename(e.u, d.name)
      stat == d.sc = "static"
      ext  == d.k = "var" /\ d.sc = "extern"
      s    == insertSymInit(s0, IF d.k = "proto" THEN "func" ELSE d.k, name, ext, d.init)
      n    == Here(s, name)
      old  == s.syms[n]
  IN  [s EXCEPT !.syms[n] =
        CASE d.k = "enum"  -> [@ EXCEPT !.val = d.val]
          [] d.k = "func"  -> [@ EXCEPT !.glob = TRUE, !.stat = @ \/ stat,
                                        !.def = TRUE, !.ext = FALSE]
          [] d.k = "proto" -> [@ EXCEPT !.glob = TRUE, !.stat = @ \/ stat, !.link = name,
                                        !.ext = ~(old.stat \/ stat) /\ ~old.def]
          [] d.k = "var"   -> [@ EXCEPT !.glob = TRUE, !.stat = stat, !.link = name,
                                        !.def = @ \/ ~ext, !.init = @ \/ d.init,
                                        !.ext = ~(old.def \/ ~ext)]]

\* A declaration in a block.
checkDecl(s0, t) ==
  LET name == Plain(t.name)
      stat == t.sc = "static"
      s    == insertSym(s0, IF t.sc = "func" THEN "func" ELSE "var", name, t.sc = "extern")
      n    == Here(s, name)
      old  == s.syms[n]
  IN  [s EXCEPT !.syms[n] =
        IF t.sc = "func" THEN [@ EXCEPT !.glob = TRUE, !.ext = ~old.stat /\ ~old.def]
        ELSE [@ EXCEPT !.stat = stat, !.ext = (t.sc = "extern"), !.glob = stat,
                       !.link = IF stat THEN BlockStatic(n, t.name) ELSE name]]

checkIdent(s, name) ==
  LET n == lookupSym(s, name) IN
  IF n = 0 THEN [s EXCEPT !.errs = @ \cup {<<"E0102", name>>}]
  ELSE [s EXCEPT !.used = @ \cup {n}]

\* checkPass: a function's parameters have a scope of their own.
parameters(s, f) == FoldLeft(LAMBDA r, x : insertSym(r, "var", Plain(x), FALSE),
                             pushScope(s), f.params)

Reserved(x) == x = "_"       \* stands for every name that starts with _
Reported_global(sym) == sym.kind = "var" /\ ~sym.ext
Reported(sym) == sym.kind = "var" /\ ~sym.ext /\ ~sym.glob /\ ~sym.stat
unused(s) == {n \in Range(s.scopes[1]) :
                n \notin s.used /\ Reported(s.syms[n]) /\ ~Reserved(s.syms[n].name.id)}
popScopeChecked_keeps(s) == [s EXCEPT !.warned = @ \cup unused(s)]
popScopeChecked(s) == popScope([s EXCEPT !.warned = @ \cup unused(s)])

\* What Lower emits for the declarations of objects with static duration: each
\* symbol once, by the first declaration with an initializer if there is one.
Chosen_first(ds, n) == Innermost({i \in DOMAIN ds : ds[i].n = n})
Chosen(ds, n) ==
  LET all  == {i \in DOMAIN ds : ds[i].n = n}
      full == {i \in all : ds[i].init}
  IN  Innermost(IF full = {} THEN all ELSE full)
globalVarsOf(ds) == {ds[Chosen(ds, n)] : n \in {ds[i].n : i \in DOMAIN ds}}

\* The object or value a symbol stands for in the compiled program.
Key(s, n) ==
  LET y == s.syms[n] IN
  CASE y.kind = "enum" -> [is |-> "value", n |-> y.val, link |-> Plain("")]
    [] y.kind # "enum" /\ y.glob -> [is |-> "global", n |-> 0, link |-> y.link]
    [] OTHER -> [is |-> "local", n |-> n, link |-> Plain("")]

(* ---- what C99 says ---- *)

Value(v)          == <<"value", v, 0, 0, "">>
External(x)       == <<"external", 0, 0, 0, x>>
Internal(u, x)    == <<"internal", u, 0, 0, x>>
Local(u, i, j, x) == <<"local", u, i, j, x>>
Unknown           == <<"unknown", 0, 0, 0, "">>

\* What item i of unit u declares.
FileEntity(u, i) ==
  LET d == units[u][i] IN
  IF d.k = "enum" THEN Value(d.val)
  ELSE IF d.name \in Statics(units[u]) THEN Internal(u, d.name) ELSE External(d.name)

Visible(u, i, x) ==
  LET in   == Seeing(c.scopes, x)
      file == {k \in 1 .. i : units[u][k].name = x}
  IN  IF in # {} THEN c.scopes[Innermost(in)][x]
      ELSE IF file # {} THEN FileEntity(u, Innermost(file)) ELSE Unknown

\* 6.2.2p4: an extern declaration keeps the linkage of a visible one.
Declared(u, i, j, t) ==
  LET v == Visible(u, i, t.name) IN
  IF t.sc \in {"auto", "static"} THEN Local(u, i, j, t.name)
  ELSE IF v[1] \in {"internal", "external"} THEN v ELSE External(t.name)

\* 6.7p3: a name without linkage is declared once in a scope.
Twice(t) == /\ t.name \in DOMAIN c.scopes[1]
            /\ ~(t.sc \in {"extern", "func"} /\ c.scopes[1][t.name][1] # "local")

\* 6.9: one definition of an external name, and one kind of thing for each
\* name; the program may define a function that the runtime has.
Conforming(p) ==
  LET Items    == UNION {{<<u, i>> : i \in DOMAIN p[u]} : u \in DOMAIN p}
      D(x)     == p[x[1]][x[2]]
      InFile(x) == D(x).name \in Statics(p[x[1]]) \/ D(x).k = "enum"
      Func(x)  == D(x).k \in {"func", "proto"}
      Defines(x) == D(x).k = "func" \/ (D(x).k = "var" /\ D(x).init)
  IN \A x, y \in Items :
       x # y /\ D(x).name = D(y).name /\ (x[1] = y[1] \/ ~(InFile(x) \/ InFile(y)))
         => /\ Func(x) = Func(y) /\ D(x).k # "enum" /\ D(y).k # "enum"
            /\ Defines(x) /\ Defines(y) => IsRt(p, x[1]) # IsRt(p, y[1]) /\ Func(x)
            /\ x[1] # y[1] /\ D(x).k = "var" => "extern" \in {D(x).sc, D(y).sc}

(* ---- the walk ---- *)

Init ==
  /\ units \in {p \in Programs : Conforming(p)}
  /\ merged = Merge(units)
  /\ pos = [pass |-> 1, i |-> 1, j |-> 0]
  /\ st = [scopes |-> <<NoNames>>, syms |-> << >>, used |-> {}, warned |-> {},
           errs |-> {}, decls |-> << >>]
  /\ c = [scopes |-> << >>, used |-> {}, autos |-> {}, bad |-> {}]
  /\ meant = {} /\ globals = {}

More    == pos.i <= Len(merged)
E       == merged[pos.i]
InBody  == pos.pass = 2 /\ More /\ pos.j \in DOMAIN E.d.body
Token   == E.d.body[pos.j]
Is(t)   == InBody /\ Token.t = t
NextToken == pos' = [pos EXCEPT !.j = @ + 1]
NextItem  == pos' = [pos EXCEPT !.i = @ + 1, !.j = 0]
Outermost == Depth(E.d.body, pos.j) = (IF Token.t = "open" THEN 0 ELSE 1)

Declare ==
  /\ pos.pass = 1 /\ More
  /\ st' = declarePass(st, E) /\ NextItem
  /\ UNCHANGED <<units, merged, c, meant, globals>>

Resolve ==
  /\ pos.pass = 1 /\ ~More
  /\ pos' = [pass |-> 2, i |-> 1, j |-> 0]
  /\ UNCHANGED <<units, merged, st, c, meant, globals>>

EnterItem ==
  /\ pos.pass = 2 /\ More /\ pos.j = 0
  /\ LET d == E.d
         n == lookupSym(st, IF d.k = "enum" THEN Plain(d.name) ELSE rename(E.u, d.name))
         file == <<Key(st, n), IF d.k = "enum" THEN Value(d.val) ELSE FileEntity(E.u, E.i)>>
         Param(m) == Local(E.u, E.i, -m, d.params[m])
     IN
     /\ st' = CASE d.k = "func" -> parameters(st, d)
                [] d.k = "var"  -> [st EXCEPT !.decls = Append(@, [n |-> n, init |-> d.init])]
                [] OTHER -> st
     /\ c' = [c EXCEPT !.scopes =
                <<[x \in ToSet(d.params) |-> Param(CHOOSE m \in DOMAIN d.params : d.params[m] = x)]>>]
     /\ meant' = meant \cup {file} \cup
                 (IF d.k # "func" THEN {}
                  ELSE {<<Key(st', Here(st', Plain(d.params[m]))), Param(m)>> : m \in DOMAIN d.params})
  /\ NextToken
  /\ UNCHANGED <<units, merged, globals>>

OpenBlock ==
  /\ Is("open") /\ NextToken
  /\ st' = pushScope(st)
  /\ c' = IF Outermost THEN c ELSE [c EXCEPT !.scopes = <<NoNames>> \o @]
  /\ UNCHANGED <<units, merged, meant, globals>>

CloseBlock ==
  /\ Is("close") /\ NextToken
  /\ st' = popScopeChecked(st)
  /\ c' = IF Outermost THEN c ELSE [c EXCEPT !.scopes = Tail(@)]
  /\ UNCHANGED <<units, merged, meant, globals>>

DeclareLocal ==
  /\ Is("decl") /\ NextToken
  /\ LET t == Token
         e == Declared(E.u, E.i, pos.j, t)
         s == checkDecl(st, t)
         n == Here(s, Plain(t.name))
     IN
     /\ st' = IF t.sc = "static" THEN [s EXCEPT !.decls = Append(@, [n |-> n, init |-> t.init])]
              ELSE s
     /\ c' = [c EXCEPT !.scopes[1] = (t.name :> e) @@ @,
                       !.autos = @ \cup (IF t.sc = "auto" THEN {e} ELSE {}),
                       !.bad = @ \cup (IF Twice(t) THEN {"twice"} ELSE {})]
     /\ meant' = meant \cup {<<Key(s, n), e>>}
  /\ UNCHANGED <<units, merged, globals>>

\* Sema meets an empty statement: the enumerator went up to file scope.
DeclareEnum ==
  /\ Is("enum") /\ NextToken
  /\ c' = [c EXCEPT !.scopes[1] = (Token.name :> Value(Token.val)) @@ @,
                    !.bad = @ \cup (IF Twice(Token) THEN {"twice"} ELSE {})]
  /\ UNCHANGED <<units, merged, st, meant, globals>>

Use ==
  /\ Is("use") /\ NextToken
  /\ LET name == expr(E.u, E.d, pos.j)
         n == lookupSym(st, name)
         e == Visible(E.u, E.i, Token.name)
     IN
     /\ st' = checkIdent(st, name)
     /\ c' = [c EXCEPT !.used = @ \cup {e},
                       !.bad = @ \cup (IF e = Unknown THEN {"undeclared"} ELSE {})]
     /\ meant' = meant \cup (IF n = 0 THEN {} ELSE {<<Key(st, n), e>>})
  /\ UNCHANGED <<units, merged, globals>>

LeaveItem ==
  /\ pos.pass = 2 /\ More /\ pos.j = Len(E.d.body) + 1
  /\ st' = IF E.d.k = "func" THEN popScope(st) ELSE st
  /\ c' = [c EXCEPT !.scopes = << >>]
  /\ NextItem
  /\ UNCHANGED <<units, merged, meant, globals>>

Lower ==
  /\ pos.pass = 2 /\ ~More
  /\ pos' = [pos EXCEPT !.pass = 3]
  /\ globals' = {[n |-> g.n, init |-> g.init, ext |-> st.syms[g.n].ext] :
                   g \in globalVarsOf(st.decls)}
  /\ UNCHANGED <<units, merged, st, c, meant>>

Next == Declare \/ Resolve \/ EnterItem \/ OpenBlock \/ CloseBlock
        \/ DeclareLocal \/ DeclareEnum \/ Use \/ LeaveItem \/ Lower

Spec == Init /\ [][Next]_vars

(* ---- properties ---- *)

Kinds == {"func", "var", "enum"}

TypeOK ==
  /\ pos.pass \in 1 .. 3 /\ pos.i \in 1 .. Len(merged) + 1 /\ pos.j \in Nat
  /\ \A n \in DOMAIN st.syms : st.syms[n].kind \in Kinds
  /\ \A i \in DOMAIN st.scopes : Range(st.scopes[i]) \subseteq DOMAIN st.syms
  /\ st.used \cup st.warned \subseteq DOMAIN st.syms
  /\ Len(st.scopes) = 1 + (IF pos.pass = 2 /\ pos.j > 0 /\ E.d.k = "func"
                           THEN 1 + Depth(E.d.body, pos.j) ELSE 0)

\* "mangles file-scope statics so merged units never collide" (README.md:34),
\* and the header of StaticRename.hs: in a program C99 allows, two uses reach
\* one object exactly when C99 says they do, whatever the units, blocks and
\* parameters between them; an enumerator is its value.  The scopes of the checker
\* nest as the blocks of the program do, and every name in them has a symbol.
MeansWhatCSays ==
  TypeOK /\ (c.bad = {} =>
    \A p, q \in meant :
      /\ p[1] = q[1] <=> p[2] = q[2]
      /\ p[1].is = "value" <=> p[2][1] = "value"
      /\ p[1].is = "value" => p[1].n = p[2][2])

UnusedIsUnused ==
  {p[2] : p \in {q \in meant : \E n \in st.warned : q[1] = Key(st, n)}}
    = {e \in c.autos : e \notin c.used /\ ~Reserved(e[5])}

\* A program C99 allows gets no redefinition and no undeclared identifier, and
\* "unused: a block-scope variable nothing reads", with no false positives
\* (docs/diagnostics.md:73 and :84): exactly the automatic objects of a block
\* that no use in the program refers to are reported.
DiagnosticsAreTrue ==
  c.bad = {} => st.errs = {} /\ (pos.pass = 3 => UnusedIsUnused)

\* "Every object needing a module-level global, each listed once" (globalVarsOf):
\* what the program defines is emitted once, as a definition, with its
\* initializer if it has one; and no function is emitted twice.
Defining(e) == {x \in UNION {{<<u, i>> : i \in DOMAIN units[u]} : u \in DOMAIN units} :
                  FileEntity(x[1], x[2]) = e /\ units[x[1]][x[2]].k = "var"}
DefinedOnce ==
  pos.pass = 3 /\ c.bad = {} =>
    /\ \A e \in {p[2] : p \in {q \in meant : q[1].is = "global"}} :
         Defining(e) # {} =>
           \E g \in globals :
             /\ \A h \in globals : <<Key(st, h.n), e>> \in meant <=> h = g
             /\ g.init = \E x \in Defining(e) : units[x[1]][x[2]].init
             /\ g.ext = \A x \in Defining(e) : units[x[1]][x[2]].sc = "extern"
    /\ \A m, n \in DOMAIN merged :
         merged[m].d.k = "func" /\ merged[n].d.k = "func"
           /\ rename(merged[m].u, merged[m].d.name) = rename(merged[n].u, merged[n].d.name)
           => m = n
=============================================================================
