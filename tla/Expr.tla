--------------------------------- MODULE Expr ---------------------------------
(***************************************************************************)
(* A function's expression statements, checked, lowered and run one after  *)
(* the other (SemaExpr, LowerExpr), in step with what C99 says they do     *)
(* (CExpr).  The variables and tags are declared first: the compiler lays  *)
(* the tags out and gives every variable a home.                           *)
(***************************************************************************)
EXTENDS LowerExpr, CExpr

CONSTANT Programs   \* a sequence of sets of programs

VARIABLES prog,     \* the program: tags, variables, statements
          env,      \* its declarations as the compiler and as C99 see them
          pc,       \* the next statement
          m,        \* the machine
          c,        \* C99's objects
          got,      \* the last statement's value, as compiled
          want,     \* and as C99 says
          undefined \* a statement's behaviour was undefined: C99 says no more

vars == <<prog, env, pc, m, c, got, want, undefined>>

Names(p)   == {p.vars[i].x : i \in DOMAIN p.vars}
VarOf(p, x) == p.vars[CHOOSE i \in DOMAIN p.vars : p.vars[i].x = x]

\* Storage: what lives in memory stands in the order declared, aligned to 8.
Aligned(n) == alignUp(n, 8)
Addresses(p, tags) ==
  FoldLeft(LAMBDA a, v : IF v.home # "memory" THEN a
                         ELSE [at |-> (v.x :> a.top) @@ a.at, top |-> Aligned(a.top + typeSize(tags, v.t))],
           [at |-> <<>>, top |-> 8], p.vars)

\* The objects of a variable that hold a value: members, elements, itself.
Parts(tags, x, i, t) ==
  IF t.k = "struct" THEN {<<x, i, f.name>> : f \in FieldsOf(tags, tags[t.tag].members)}
  ELSE {<<x, i, "">>}
Objects(tags, v) ==
  IF v.t.k = "array" THEN UNION {Parts(tags, v.x, i, v.t.of) : i \in 0 .. v.t.n - 1}
  ELSE Parts(tags, v.x, 0, v.t)

Declared(p, tags) ==
  [types |-> [x \in Names(p) |-> VarOf(p, x).t],
   home  |-> [x \in Names(p) |-> VarOf(p, x).home],
   addr  |-> Addresses(p, tags).at,
   top   |-> Addresses(p, tags).top,
   tags  |-> tags,
   size  |-> IF "a" \in Names(p) THEN VarOf(p, "a").t.n ELSE 0,
   zero  |-> [k \in UNION {Objects(tags, p.vars[i]) : i \in DOMAIN p.vars} |-> 0]]

\* A C99 value as the machine holds it: a pointer is an address.
Image(d, n, t) == IF t.k = "ptr" THEN d.addr["a"] + n * typeSize(d.tags, t.of) ELSE n

StartOf(p, d) ==
  FoldLeft(LAMBDA s, v : IF v.home # "memory" \/ typeIsAggregate(v.t) THEN s
                         ELSE store(s, d.addr[v.x], Image(d, v.n, v.t), mtlcOf(v.t)),
           [h |-> [x \in {y \in Names(p) : d.home[y] # "memory"} |-> Image(d, VarOf(p, x).n, VarOf(p, x).t)],
            b |-> [i \in 8 .. d.top |-> 0]],
           p.vars)

Objects0(p, d) ==
  [k \in DOMAIN d.zero |-> IF k[3] = "" /\ d.types[k[1]].k # "array" THEN VarOf(p, k[1]).n ELSE 0]

Init ==
  /\ \E i \in DOMAIN Programs : prog \in Programs[i]
  /\ env = Declared(prog, Tags(prog.tags))
  /\ pc = 1
  /\ m = StartOf(prog, env)
  /\ c = Objects0(prog, env)
  /\ got = [n |-> 0, t |-> T("int"), ok |-> TRUE]
  /\ want = [n |-> 0, t |-> T("int")]
  /\ undefined = FALSE

Outcome(e, r) == [n |-> Read(r.v, r.m), t |-> e.ty, ok |-> e.ok]

\* The next statement, compiled and run, and as C99 means it.  A statement in
\* which the checker reported an error is not lowered.
Lowered(e)  == IF e.ok THEN genExpr(env, e, m) ELSE Yields(Temp(0), m)
Ran(e, r)   == m' = r.m /\ got' = Outcome(e, r)
Compiled(e) == Ran(e, Lowered(e))
Meant(r)    == c' = r.s /\ want' = [n |-> r.v, t |-> r.t] /\ undefined' = r.ub
Execute ==
  /\ pc <= Len(prog.stmts)
  /\ ~undefined
  /\ Compiled(checkExpr(env, prog.stmts[pc]))
  /\ Meant(Eval(env, prog.stmts[pc], c))
  /\ pc' = pc + 1
  /\ UNCHANGED <<prog, env>>

Next == Execute
Spec == Init /\ [][Next]_vars
-----------------------------------------------------------------------------
TypeOK ==
  /\ got.n = Canonical(got.n, mtlcOf(got.t))
  /\ \A x \in DOMAIN m.h : m.h[x] = Canonical(m.h[x], mtlcOf(env.types[x]))
  /\ \A i \in DOMAIN m.b : m.b[i] \in 0 .. 2 ^ ByteBits - 1

\* The expression that names an object.
Var(x)    == [k |-> "id", x |-> x]
Lit(n, t) == [k |-> "int", n |-> n, t |-> t]
Base(k)   == IF env.types[k[1]].k = "array"
             THEN [k |-> "index", l |-> Var(k[1]), r |-> Lit(k[2], T("int"))] ELSE Var(k[1])
Naming(k) == IF k[3] = "" THEN Base(k) ELSE [k |-> "member", e |-> Base(k), f |-> k[3], arrow |-> FALSE]
ReadBack(e) == Outcome(e, Lowered(e))
HoldsWhatCSays(k, o) == o.n = Image(env, c[k], o.t)

\* Whatever was assigned, stepped or copied, every object of the program reads
\* back as the value C99 gives it: an assignment converts to the type of its
\* left side, reaches all of its object and no bit of another (bfStore,
\* genAssign, stepOne, memCopy); and every handle and byte, and the value of a
\* statement, is one its type can hold: the casts around every operation and
\* write leave it canonical.
ObjectsHoldWhatCSays ==
  TypeOK /\ (~undefined => \A k \in DOMAIN c : HoldsWhatCSays(k, ReadBack(checkExpr(env, Naming(k)))))

\* An accepted expression yields the value C99 says, whatever the types, homes
\* and sequence points in it ("C99 6.3.1.8", CType.hs:451; the comments on
\* shifts and on materialize, Lower.hs:1353 and :472).
ValueIsC ==
  ~undefined => got.ok /\ (want.t.k # "struct" => got.n = Image(env, want.n, want.t))

\* and the checker gives it a type of the same size and signedness, which is
\* what sizeof, a comparison and every wider operation go by.
TypeIsC ==
  want.t.k \notin {"bits", "struct"} =>
    /\ typeSize(env.tags, got.t) = CSizeof(want.t)
    /\ typeIsUnsigned(got.t) <=> (IsArith(want.t) /\ ~CSigned(want.t))

\* Members are aligned, inside their struct and apart: no bit of one is a bit
\* of another, no bit-field crosses its unit, and a flexible array starts where
\* the others end (CType.layout, CType.hs:225-281).
LayoutIsSound == \A tag \in DOMAIN env.tags : Sound(env.tags[tag])
=============================================================================
