------------------------------ MODULE Statics ------------------------------
(***************************************************************************)
(* src/C99/Lower.hs: objects of static duration whose address exists only  *)
(* at run time.  A string literal is a pointer global, null until code     *)
(* that a check guards fills it in; so is an object whose address is       *)
(* taken; a file-scope pointer is assigned by a constructor that main      *)
(* calls.  The compiler decides where the checks go (the first actions);   *)
(* the program it compiled then runs, every branch open.                   *)
(*                                                                         *)
(* A function's body is what its statements and expressions are lowered to *)
(* in turn: <<"str", l>> and <<"object", a>> name a literal and an object, *)
(* <<"sizeof", l>> names one for its size only, <<"assign", g>> stores the *)
(* last value, a branch goes on or to its label.  A program has            *)
(*   order   the functions, in the order they are defined                  *)
(*   body    what each is lowered to                                       *)
(*   aggs    the objects whose address is taken, lsAggGlobals              *)
(*   inits   the file-scope initializers, each an object's storage or the  *)
(*           value that an <<"init", g>> ends                              *)
(***************************************************************************)
EXTENDS Integers, Sequences, FiniteSets

CONSTANTS Literal, Aggregate, Object, Function, Label, Main, Program,
          Calls      \* bound: calls one run of the program makes

Ctor == "__c99m_init_globals"

Nothing == "no storage"
Storage   == Literal \cup Aggregate
Operation == ({"str", "sizeof"} \X Literal) \cup ({"object"} \X Aggregate) \cup ({"assign"} \X Object)
             \cup ({"branch", "jump", "label"} \X Label) \cup ({"call"} \X Function)
             \cup {<<"return", Ctor>>}
Initial   == ({"str"} \X Literal) \cup ({"object", "place"} \X Aggregate) \cup ({"init"} \X Object)
             \cup ({"branch", "jump", "label"} \X Label)

Occurs(op, s) == \E i \in DOMAIN s : s[i] = op

\* Two things the code relies on and does not check: file-scope initializers do
\* not branch, and no function calls main.
StraightInits   == \A p \in Program : \A i \in DOMAIN p.inits : p.inits[i][1] \notin {"branch", "jump", "label"}
NobodyCallsMain == \A p \in Program, f \in Function : ~Occurs(<<"call", Main>>, p.body[f])

ASSUME NamesAssumption ==
  /\ Calls \in Nat /\ Main \in Function /\ Ctor \notin Function /\ Nothing \notin Function \cup Storage
  /\ Literal \cap Aggregate = {}
ASSUME ProgramAssumption ==
  \A p \in Program :
    /\ p \in [order : Seq(Function), body : [Function -> Seq(Operation)],
              aggs : Seq(Aggregate), inits : Seq(Initial)]
    /\ \A s \in {p.inits} \cup {p.body[f] : f \in Function}, k \in Label :
         Occurs(<<"branch", k>>, s) \/ Occurs(<<"jump", k>>, s) => Occurs(<<"label", k>>, s)
    /\ \A i, j \in DOMAIN p.inits : p.inits[i] = p.inits[j] /\ p.inits[i][1] = "init" => i = j

VARIABLES program,          \* the program compiled
          pending,          \* the functions to emit after this one
          unit,             \* the function being emitted
          tasks,            \* what there is to emit of it
          next,             \* and what comes next
          lsFnStrEnsured,   \* the literals checked in it
          lsNeedGlobalInit, \* there is a constructor
          code,             \* the instructions of each function
          stack,            \* the calls open when the program runs: function and place in it
          running,          \* the program has been started
          ptr,              \* the pointer global of each literal and object; 0 is null
          heap,             \* the last address handed out
          val,              \* the value of the expression evaluated last
          glob,             \* the file-scope pointers
          calls

lowerVars == <<pending, unit, tasks, next, lsFnStrEnsured, lsNeedGlobalInit, code>>
runVars   == <<stack, running, ptr, heap, val, glob, calls>>
vars == <<program, lowerVars, runVars>>

Null == 0
Unset == [of |-> Nothing, at |-> Null]

(* ---- the compiler ---- *)

\* stringsIn: the literals a body mentions, in order, to be checked.
stringsIn(body) ==
  [i \in DOMAIN body |->
     IF body[i][1] \in {"str", "sizeof"} THEN <<"check", body[i][2]>> ELSE <<"none", Nothing>>]

\* lsFnStrEnsured when a function is begun.
AtEntry_kept == lsFnStrEnsured
AtEntry      == {}

CallsCtor_always(f) == lsNeedGlobalInit
CallsCtor(f)        == lsNeedGlobalInit /\ f = Main

\* main calls the constructor first; a function checks its literals, and then
\* comes its body.
Entry(f) == (IF CallsCtor(f) THEN << <<"call", Ctor>> >> ELSE << >>) \o stringsIn(program.body[f])
FunctionTasks(f) == Entry(f) \o program.body[f]

\* Storage for the objects, then the initializers, with no checks at the entry.
CtorTasks == [i \in DOMAIN program.aggs |-> <<"place", program.aggs[i]>>] \o program.inits

Emitted == next > Len(tasks)

Begin(u, ts) ==
  /\ unit' = u /\ tasks' = ts /\ next' = 1
  /\ pending' = Tail(pending)
  /\ lsFnStrEnsured' = AtEntry /\ code' = [code EXCEPT ![u] = << >>]
  /\ UNCHANGED <<program, runVars>>

emitGlobalCtor ==
  /\ Emitted /\ pending # << >> /\ Head(pending) = Ctor
  /\ lsNeedGlobalInit' = TRUE
  /\ Begin(Ctor, CtorTasks)

genFunction ==
  /\ Emitted /\ pending # << >> /\ Head(pending) # Ctor
  /\ UNCHANGED lsNeedGlobalInit
  /\ Begin(Head(pending), FunctionTasks(Head(pending)))

Task(ops) == ~Emitted /\ tasks[next][1] \in ops
Subject   == tasks[next][2]

Emit(is) ==
  /\ code' = [code EXCEPT ![unit] = @ \o is]
  /\ next' = next + 1
  /\ UNCHANGED <<program, pending, unit, tasks, lsNeedGlobalInit, runVars>>

\* A check is emitted once in a function, and behind it what reads the pointer.
Check(l) == IF l \in lsFnStrEnsured THEN << >> ELSE << <<"ensure", l>> >>

prepareString ==
  /\ Task({"check"})
  /\ Emit(Check(Subject))
  /\ lsFnStrEnsured' = lsFnStrEnsured \cup {Subject}

genString ==
  /\ Task({"str"})
  /\ Emit(Check(Subject) \o << <<"load", Subject>> >>)
  /\ lsFnStrEnsured' = lsFnStrEnsured \cup {Subject}

ensureAggGlobal ==
  /\ Task({"place"}) /\ Emit(<< <<"ensure", Subject>> >>)
  /\ UNCHANGED lsFnStrEnsured

\* A name of an object makes sure of its storage once more.
genIdent ==
  /\ Task({"object"}) /\ Emit(<< <<"ensure", Subject>>, <<"load", Subject>> >>)
  /\ UNCHANGED lsFnStrEnsured

genOther ==
  /\ Task({"assign", "init", "branch", "jump", "label", "call", "return"})
  /\ Emit(<<tasks[next]>>)
  /\ UNCHANGED lsFnStrEnsured

\* A size is a constant, and what is no literal needs no check.
genNothing ==
  /\ Task({"sizeof", "none"}) /\ Emit(<< >>)
  /\ UNCHANGED lsFnStrEnsured

Lower ==
  \/ emitGlobalCtor \/ genFunction
  \/ prepareString \/ genString \/ ensureAggGlobal \/ genIdent \/ genOther \/ genNothing

(* ---- the program it compiled ---- *)

Start ==
  /\ pending = << >> /\ Emitted /\ ~running
  /\ running' = TRUE
  /\ stack' = << [f |-> Main, at |-> 1] >>
  /\ UNCHANGED <<program, lowerVars, ptr, heap, val, glob, calls>>

Depth == Len(stack)
Top   == stack[Depth]
Inside == stack # << >> /\ Top.at <= Len(code[Top.f])
Is(op) == Inside /\ code[Top.f][Top.at][1] = op
Arg    == code[Top.f][Top.at][2]
On     == [stack EXCEPT ![Depth].at = @ + 1]
Place(k) == CHOOSE i \in DOMAIN code[Top.f] : code[Top.f][i] = <<"label", k>>
To(k)  == [stack EXCEPT ![Depth].at = Place(k)]

\* The null check, and the copy to a fresh heap block behind it.
NeedsStorage_always(l) == TRUE
NeedsStorage(l)        == ptr[l] = Null

EnsureString ==
  /\ Is("ensure") /\ stack' = On
  /\ \/ /\ NeedsStorage(Arg)
        /\ ptr' = [ptr EXCEPT ![Arg] = heap + 1] /\ heap' = heap + 1
     \/ /\ ~NeedsStorage(Arg) /\ UNCHANGED <<ptr, heap>>
  /\ UNCHANGED <<program, lowerVars, running, val, glob, calls>>

Load ==
  /\ Is("load") /\ stack' = On
  /\ val' = [of |-> Arg, at |-> ptr[Arg]]
  /\ UNCHANGED <<program, lowerVars, running, ptr, heap, glob, calls>>

Move ==
  /\ \/ Is("branch") /\ stack' \in {On, To(Arg)}
     \/ Is("jump") /\ stack' = To(Arg)
     \/ Is("label") /\ stack' = On
  /\ UNCHANGED <<program, lowerVars, running, ptr, heap, val, glob, calls>>

CallFunction ==
  /\ Is("call")
  /\ stack' = Append(On, [f |-> Arg, at |-> 1])
  /\ calls' = IF Arg = Ctor THEN calls ELSE calls + 1
  /\ calls' <= Calls
  /\ UNCHANGED <<program, lowerVars, running, ptr, heap, val, glob>>

Return ==
  /\ Is("return") \/ (stack # << >> /\ ~Inside)
  /\ stack' = SubSeq(stack, 1, Depth - 1)
  /\ UNCHANGED <<program, lowerVars, running, ptr, heap, val, glob, calls>>

Store ==
  /\ Is("assign") \/ Is("init")
  /\ stack' = On /\ glob' = [glob EXCEPT ![Arg] = val]
  /\ UNCHANGED <<program, lowerVars, running, ptr, heap, val, calls>>

Run == Start \/ EnsureString \/ Load \/ Move \/ CallFunction \/ Return \/ Store

Init ==
  /\ program \in Program
  /\ pending = (IF program.inits = << >> THEN << >> ELSE <<Ctor>>) \o program.order
  /\ unit = Nothing /\ tasks = << >> /\ next = 1 /\ lsFnStrEnsured = {} /\ lsNeedGlobalInit = FALSE
  /\ code = [f \in Function \cup {Ctor} |-> << >>]
  /\ stack = << >> /\ running = FALSE
  /\ ptr = [l \in Storage |-> Null] /\ heap = 0
  /\ val = Unset /\ glob = [g \in Object |-> Unset]
  /\ calls = 0

Next == Lower \/ Run

Spec == Init /\ [][Next]_vars

(* ---- properties ---- *)

Pointer   == [of : Storage \cup {Nothing}, at : 0 .. heap]
Allocated == {l \in Storage : ptr[l] # Null}

TypeOK ==
  /\ heap \in Nat /\ calls \in 0 .. Calls
  /\ ptr \in [Storage -> 0 .. heap]
  /\ val \in Pointer /\ glob \in [Object -> Pointer]

\* A literal, or an object, has one storage for the whole run: whatever path the
\* program took, no pointer it has to one is null, or to other storage than the
\* next, no two share an address, and each was allocated once at most.
PointersAreLive ==
  /\ TypeOK
  /\ \A l, m \in Storage : ptr[l] = ptr[m] => l = m \/ ptr[l] = Null
  /\ IsFiniteSet(Allocated) /\ heap = Cardinality(Allocated)
  /\ \A p \in {val} \cup {glob[g] : g \in Object} :
       p.of # Nothing => p.at # Null /\ p.at = ptr[p.of]

\* "file-scope initializers run before user main": the constructor gives each
\* object its first value and never takes away one the program stored.
InitializersRunFirst == Is("init") => glob[Arg] = Unset
=============================================================================
