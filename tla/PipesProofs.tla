---------------------------- MODULE PipesProofs ----------------------------
(***************************************************************************)
(* For any children, buffer, pipe and amount of traffic: pipe ends stay    *)
(* with those they belong to, and no byte is lost between the two sides.   *)
(***************************************************************************)
EXTENDS Pipes, SequenceTheorems, TLAPS

USE ProcessAssumption, SizeAssumption

(* ---- the inductive invariant ---- *)

Listed  == ToSet(files)
Ends(c) == {<<c, "rd">>, <<c, "wr">>}
Mode(c) == child[c].mode
Life(c) == child[c].life
Made(c) == child[c].made
Used(c) == child[c].used
Starting == job.op = "popen"

\* A running child holds its end and no process holds more than its own, but
\* for the program between CreatePipe and the end of CreateProcess.
HoldsRight ==
  /\ \A c \in Child : hold[c] = IF Running(c) THEN {Theirs(c, Mode(c))} ELSE {}
  /\ hold[Self] = {Ours(c, Mode(c)) : c \in Listed} \cup (IF Starting THEN Ends(job.c) ELSE {})
  /\ inherit = IF Starting THEN {Theirs(job.c, Mode(job.c))} ELSE {}

\* A child that does not run yet has no stream and no traffic, and only the
\* one _popen is about to run has a mode; what is used, in the pipe or pending
\* was made; and bytes pend on listed streams only.
ChildrenRight ==
  \A c \in Child :
    /\ Life(c) = "unborn" => c \notin Listed /\ Made(c) = 0 /\ pipe[c] = 0
    /\ Life(c) # "unborn" => Mode(c) # "none"
    /\ Mode(c) # "none" /\ Life(c) = "unborn" => Starting /\ job.c = c
    /\ Used(c) + pipe[c] + pend[c] <= Made(c)
    /\ pend[c] > 0 => c \in Listed

\* As long as a side can still read, nothing that was made has been dropped.
Counted ==
  \A c \in Child :
    /\ (Mode(c) = "w" /\ Running(c)) \/ (Mode(c) = "r" /\ c \in Listed)
         => Used(c) + pipe[c] + pend[c] = Made(c)
    /\ Mode(c) = "w" /\ Life(c) = "finished" => c \notin Listed /\ Used(c) = Made(c)
    /\ c \in eof => Mode(c) = "r" /\ ~Running(c) /\ Life(c) # "unborn" /\ Used(c) = Made(c)

\* What a call has still to flush covers all that is pending.
Covered ==
  /\ out > 0 => Stdout \in ToSet(job.todo)
  /\ \A c \in Child : Mode(c) = "w" /\ pend[c] > 0 => c \in ToSet(job.todo)

JobRight ==
  /\ job.op \in {"popen", "fputc", "fgetc", "pclose", "wait"} => job.c \in Child
  /\ Starting => Life(job.c) = "unborn" /\ Mode(job.c) # "none"
  /\ job.op \in {"fputc", "fgetc", "pclose"} => job.c \in Listed
  /\ job.op = "fputc" => /\ Mode(job.c) = "w" /\ Made(job.c) < Traffic
                         /\ pend[job.c] = BufSz => job.c \in ToSet(job.todo)
  /\ job.op = "fgetc" => Mode(job.c) = "r"
  /\ job.op = "pclose" /\ Mode(job.c) = "w" /\ pend[job.c] > 0 => job.c \in ToSet(job.todo)
  /\ job.op \in {"popen", "fflush", "exit"} => Covered
  /\ job.op \in {"idle", "fgetc", "wait", "gone"} => job.todo = << >>

IInv == TypeOK /\ HoldsRight /\ ChildrenRight /\ Counted /\ JobRight

(* ---- lists and handles ---- *)

LEMMA ConsElements ==
  ASSUME NEW S, NEW e \in S, NEW q \in Seq(S)
  PROVE  <<e>> \o q \in Seq(S) /\ ToSet(<<e>> \o q) = {e} \cup ToSet(q)
<1>. DEFINE p == <<e>> \o q
<1>1. Len(q) \in Nat /\ <<e>> \in Seq(S) /\ Len(<<e>>) = 1
  OBVIOUS
<1>2. p \in Seq(S) /\ Len(p) = 1 + Len(q) /\ p[1] = e
      /\ \A i \in 1 .. Len(q) : p[i + 1] = q[i]
  BY <1>1
<1>. HIDE DEF p
<1>3. DOMAIN p = 1 .. Len(p) /\ DOMAIN q = 1 .. Len(q)
  BY <1>2
<1>4. \A i \in DOMAIN p : p[i] \in {e} \cup ToSet(q)
  <2>. SUFFICES ASSUME NEW i \in 1 .. 1 + Len(q) PROVE p[i] \in {e} \cup ToSet(q)
    BY <1>2, <1>3
  <2>1. CASE i = 1
    BY <1>2, <2>1
  <2>2. CASE i # 1
    <3>1. i - 1 \in 1 .. Len(q) /\ (i - 1) + 1 = i
      BY <1>1, <2>2
    <3>2. p[i] = q[i - 1] /\ i - 1 \in DOMAIN q
      BY <1>2, <1>3, <3>1
    <3>. QED BY <3>2 DEF ToSet
  <2>. QED BY <2>1, <2>2
<1>5. e \in ToSet(p)
  <2>1. 1 \in DOMAIN p
    BY <1>1, <1>2, <1>3
  <2>. QED BY <1>2, <2>1 DEF ToSet
<1>6. \A i \in DOMAIN q : q[i] \in ToSet(p)
  <2>. SUFFICES ASSUME NEW i \in 1 .. Len(q) PROVE q[i] \in ToSet(p)
    BY <1>3
  <2>1. i + 1 \in DOMAIN p /\ p[i + 1] = q[i]
    BY <1>1, <1>2, <1>3
  <2>. QED BY <2>1 DEF ToSet
<1>. QED BY <1>2, <1>4, <1>5, <1>6 DEF ToSet, p

LEMMA TailElements ==
  ASSUME NEW S, NEW q \in Seq(S), q # << >>
  PROVE  /\ Head(q) \in ToSet(q) /\ Head(q) \in S /\ Tail(q) \in Seq(S)
         /\ ToSet(q) \subseteq {Head(q)} \cup ToSet(Tail(q))
<1>1. /\ Len(q) \in Nat \ {0} /\ Head(q) = q[1] /\ Tail(q) \in Seq(S) /\ Len(Tail(q)) = Len(q) - 1
      /\ \A i \in 1 .. Len(q) - 1 : Tail(q)[i] = q[i + 1]
  BY EmptySeq, HeadTailProperties
<1>2. DOMAIN q = 1 .. Len(q) /\ DOMAIN Tail(q) = 1 .. Len(q) - 1
  BY <1>1
<1>3. 1 \in DOMAIN q /\ q[1] \in S
  BY <1>1, <1>2
<1>4. ASSUME NEW i \in DOMAIN q PROVE q[i] \in {Head(q)} \cup ToSet(Tail(q))
  <2>1. CASE i = 1
    BY <1>1, <2>1
  <2>2. CASE i # 1
    <3>1. i - 1 \in 1 .. Len(q) - 1 /\ (i - 1) + 1 = i
      BY <1>1, <1>2, <2>2
    <3>2. Tail(q)[i - 1] = q[i] /\ i - 1 \in DOMAIN Tail(q)
      BY <1>1, <1>2, <3>1
    <3>. QED BY <3>2 DEF ToSet
  <2>. QED BY <2>1, <2>2
<1>. QED BY <1>1, <1>3, <1>4 DEF ToSet

\* Linking a stream in front of the list, and unlinking it.
LEMMA Linked ==
  ASSUME NEW q \in Seq(Child), IsInjective(q), NEW c \in Child, c \notin ToSet(q)
  PROVE  IsInjective(<<c>> \o q)
<1>. DEFINE p == <<c>> \o q
<1>1. Len(q) \in Nat /\ Len(p) = 1 + Len(q) /\ p[1] = c /\ DOMAIN q = 1 .. Len(q)
      /\ DOMAIN p = 1 .. 1 + Len(q) /\ \A i \in 1 .. Len(q) : p[i + 1] = q[i]
  OBVIOUS
<1>. HIDE DEF p
<1>2. \A i \in DOMAIN p : i # 1 => i - 1 \in DOMAIN q /\ p[i] = q[i - 1]
  <2>. SUFFICES ASSUME NEW i \in DOMAIN p, i # 1 PROVE i - 1 \in DOMAIN q /\ p[i] = q[i - 1]
    OBVIOUS
  <2>1. i - 1 \in 1 .. Len(q) /\ (i - 1) + 1 = i
    BY <1>1
  <2>. QED BY <1>1, <2>1
<1>3. ASSUME NEW i \in DOMAIN p, NEW j \in DOMAIN p, p[i] = p[j] PROVE i = j
  <2>1. CASE i = 1 /\ j # 1
    BY <1>1, <1>2, <1>3, <2>1 DEF ToSet
  <2>2. CASE i # 1 /\ j = 1
    BY <1>1, <1>2, <1>3, <2>2 DEF ToSet
  <2>3. CASE i # 1 /\ j # 1
    <3>1. i - 1 = j - 1
      BY <1>2, <1>3, <2>3 DEF IsInjective
    <3>. QED BY <1>1, <3>1
  <2>. QED BY <2>1, <2>2, <2>3
<1>. QED BY <1>3 DEF IsInjective, p

LEMMA UnlinkedElements ==
  ASSUME files \in Seq(Child), IsInjective(files), NEW c \in Listed
  PROVE  /\ Unlinked(c) \in Seq(Child) /\ IsInjective(Unlinked(c))
         /\ ToSet(Unlinked(c)) = Listed \ {c}
<1>. DEFINE i == CHOOSE k \in DOMAIN files : files[k] = c /\ \A j \in 1 .. k - 1 : files[j] # c
            p == SubSeq(files, 1, i - 1)
            q == SubSeq(files, i + 1, Len(files))
            u == p \o q
<1>1. Len(files) \in Nat /\ DOMAIN files = 1 .. Len(files)
  OBVIOUS
<1>2. i \in 1 .. Len(files) /\ files[i] = c
  <2>1. PICK k \in DOMAIN files : files[k] = c
    BY DEF Listed, ToSet
  <2>2. \A j \in 1 .. k - 1 : files[j] # c
    <3>. SUFFICES ASSUME NEW j \in 1 .. k - 1, files[j] = c PROVE FALSE
      OBVIOUS
    <3>1. j \in DOMAIN files
      BY <1>1, <2>1
    <3>2. j = k
      BY <2>1, <3>1 DEF IsInjective
    <3>. QED BY <1>1, <2>1, <3>2
  <2>. QED BY <1>1, <2>1, <2>2
<1>3. u = Unlinked(c)
  BY DEF Unlinked, RemoveAt
<1>. HIDE DEF i
<1>4. /\ p \in Seq(Child) /\ Len(p) = i - 1 /\ \A k \in 1 .. i - 1 : p[k] = files[k]
  <2>1. i - 1 \in Int /\ i - 1 <= Len(files) /\ i - 1 >= 0
    BY <1>1, <1>2
  <2>2. \A k \in 1 .. i - 1 : files[k] \in Child
    BY <1>1, <2>1
  <2>3. /\ p \in Seq(Child) /\ Len(p) = (IF 1 <= i - 1 THEN (i - 1) - 1 + 1 ELSE 0)
        /\ \A k \in 1 .. (i - 1) - 1 + 1 : p[k] = files[1 + k - 1]
    BY <2>1, <2>2, SubSeqProperties
  <2>. HIDE DEF p
  <2>. QED BY <2>1, <2>3
<1>5. /\ q \in Seq(Child) /\ Len(q) = Len(files) - i
      /\ \A k \in 1 .. Len(files) - i : q[k] = files[i + k]
  <2>1. i + 1 \in Int /\ i + 1 >= 1 /\ Len(files) \in Int
    BY <1>1, <1>2
  <2>2. \A k \in i + 1 .. Len(files) : files[k] \in Child
    BY <1>1, <2>1
  <2>3. /\ q \in Seq(Child)
        /\ Len(q) = (IF i + 1 <= Len(files) THEN Len(files) - (i + 1) + 1 ELSE 0)
        /\ \A k \in 1 .. Len(files) - (i + 1) + 1 : q[k] = files[(i + 1) + k - 1]
    BY <2>1, <2>2, SubSeqProperties
  <2>. HIDE DEF q
  <2>4. Len(files) - (i + 1) + 1 = Len(files) - i
        /\ Len(files) - i = (IF i + 1 <= Len(files) THEN Len(files) - (i + 1) + 1 ELSE 0)
    <3>. DEFINE n == Len(files)
    <3>1. n \in Nat /\ i \in 1 .. n
      BY <1>1, <1>2
    <3>. HIDE DEF n
    <3>2. n - (i + 1) + 1 = n - i /\ n - i = (IF i + 1 <= n THEN n - (i + 1) + 1 ELSE 0)
      BY ONLY <3>1
    <3>. QED BY ONLY <3>2 DEF n
  <2>5. ASSUME NEW k \in 1 .. Len(files) - i PROVE q[k] = files[i + k]
    <3>1. q[k] = files[(i + 1) + k - 1]
      BY <2>3, <2>4
    <3>2. (i + 1) + k - 1 = i + k
      BY <1>1, <1>2
    <3>. QED BY <3>1, <3>2
  <2>. QED BY <2>3, <2>4, <2>5
<1>. HIDE DEF p, q
<1>6. /\ u \in Seq(Child) /\ Len(u) = Len(files) - 1 /\ DOMAIN u = 1 .. Len(files) - 1
      /\ \A k \in 1 .. i - 1 : u[k] = p[k]
      /\ \A k \in 1 .. Len(files) - i : u[(i - 1) + k] = q[k]
  <2>1. /\ u \in Seq(Child) /\ Len(u) = Len(p) + Len(q)
        /\ \A k \in 1 .. Len(p) + Len(q) : u[k] = IF k <= Len(p) THEN p[k] ELSE q[k - Len(p)]
    <3>1. p \in Seq(Child) /\ q \in Seq(Child)
      BY <1>4, <1>5
    <3>. QED BY ONLY <3>1, ConcatProperties
  <2>. HIDE DEF u
  <2>2. Len(p) = i - 1 /\ Len(q) = Len(files) - i /\ Len(p) + Len(q) = Len(files) - 1
    BY <1>1, <1>2, <1>4, <1>5
  <2>3. \A k \in 1 .. i - 1 : k \in 1 .. Len(files) - 1 /\ k <= i - 1
    BY <1>1, <1>2
  <2>4. \A k \in 1 .. Len(files) - i :
          (i - 1) + k \in 1 .. Len(files) - 1 /\ ~((i - 1) + k <= i - 1)
          /\ ((i - 1) + k) - (i - 1) = k
    BY <1>1, <1>2
  <2>. QED BY <2>1, <2>2, <2>3, <2>4
<1>. HIDE DEF u
\* Where the k-th stream that is left was in the list.
<1>. DEFINE at(k) == IF k < i THEN k ELSE k + 1
<1>7. ASSUME NEW k \in DOMAIN u PROVE at(k) \in DOMAIN files /\ at(k) # i /\ u[k] = files[at(k)]
  <2>1. CASE k < i
    BY <1>1, <1>2, <1>4, <1>6, <2>1
  <2>2. CASE ~(k < i)
    <3>1. k - (i - 1) \in 1 .. Len(files) - i /\ (i - 1) + (k - (i - 1)) = k
          /\ i + (k - (i - 1)) = k + 1 /\ at(k) = k + 1 /\ k + 1 \in 1 .. Len(files)
      BY <1>1, <1>2, <1>6, <2>2
    <3>2. u[(i - 1) + (k - (i - 1))] = q[k - (i - 1)]
      BY <1>6, <3>1
    <3>3. q[k - (i - 1)] = files[i + (k - (i - 1))]
      BY <1>5, <3>1
    <3>. QED BY <1>1, <1>2, <2>2, <3>1, <3>2, <3>3
  <2>. QED BY <2>1, <2>2
<1>8. ASSUME NEW j \in DOMAIN files, j # i PROVE \E k \in DOMAIN u : at(k) = j
  <2>1. CASE j < i
    BY <1>1, <1>2, <1>6, <2>1
  <2>2. CASE j > i
    <3>1. j - 1 \in DOMAIN u /\ at(j - 1) = j
      BY <1>1, <1>2, <1>6, <2>2
    <3>. QED BY <3>1
  <2>. QED BY <1>1, <1>2, <1>8, <2>1, <2>2
<1>9. \A k, m \in DOMAIN u : at(k) = at(m) => k = m
  BY <1>1, <1>2, <1>6
<1>. HIDE DEF at
<1>10. IsInjective(u)
  BY <1>7, <1>9 DEF IsInjective
<1>11. \A k \in DOMAIN u : u[k] \in Listed /\ u[k] # c
  BY <1>1, <1>2, <1>7 DEF IsInjective, Listed, ToSet
<1>12. \A d \in Listed : d # c => \E k \in DOMAIN u : u[k] = d
  BY <1>1, <1>2, <1>7, <1>8 DEF Listed, ToSet
<1>. QED BY <1>3, <1>6, <1>10, <1>11, <1>12 DEF ToSet

\* The ends of the pipes are told apart by their child and their mode.
LEMMA EndsDiffer ==
  ASSUME NEW c, NEW d, NEW m \in {"r", "w"}, NEW n \in {"r", "w"}
  PROVE  /\ Ours(c, m) = Ours(d, n) <=> c = d /\ m = n
         /\ Theirs(c, m) = Theirs(d, n) <=> c = d /\ m = n
         /\ Ours(c, m) = Theirs(d, n) <=> c = d /\ m # n
         /\ Theirs(c, m) = Ours(d, n) <=> c = d /\ m # n
         /\ Ends(c) = {Ours(c, m), Theirs(c, m)}
         /\ <<c, "rd">> = (IF m = "r" THEN Ours(c, m) ELSE Theirs(c, m))
         /\ <<c, "wr">> = (IF m = "w" THEN Ours(c, m) ELSE Theirs(c, m))
<1>1. CASE m = "r" /\ n = "r"
  BY <1>1 DEF Ours, Theirs, Ends
<1>2. CASE m = "r" /\ n = "w"
  BY <1>2 DEF Ours, Theirs, Ends
<1>3. CASE m = "w" /\ n = "r"
  BY <1>3 DEF Ours, Theirs, Ends
<1>4. CASE m = "w" /\ n = "w"
  BY <1>4 DEF Ours, Theirs, Ends
<1>. QED BY <1>1, <1>2, <1>3, <1>4

(* ---- what the fields hold, and what an update leaves ---- *)

USE DEF Mode, Life, Made, Used, Starting

ChildType == [Child -> [mode : {"none", "r", "w"},
                        life : {"unborn", "running", "finished", "quit"},
                        made : 0 .. Traffic, used : 0 .. Traffic]]
JobType == [op : {"idle", "popen", "fflush", "fputc", "fgetc", "pclose", "wait", "exit", "gone"},
            c : Child \cup {Nobody}, todo : Seq(Child \cup {Stdout})]

LEMMA ChildFields ==
  ASSUME TypeOK
  PROVE  /\ child \in ChildType /\ job \in JobType /\ Listed \subseteq Child
         /\ \A c \in Child :
              /\ Mode(c) \in {"none", "r", "w"}
              /\ Life(c) \in {"unborn", "running", "finished", "quit"}
              /\ Made(c) \in Nat /\ Made(c) <= Traffic
              /\ Used(c) \in Nat /\ Used(c) <= Traffic
              /\ pipe[c] \in Nat /\ pipe[c] <= PipeSz
              /\ pend[c] \in Nat /\ pend[c] <= BufSz
<1>1. child \in ChildType /\ job \in JobType
  BY DEF TypeOK, ChildType, JobType
<1>2. ASSUME NEW c \in Child
      PROVE  /\ Mode(c) \in {"none", "r", "w"}
             /\ Life(c) \in {"unborn", "running", "finished", "quit"}
             /\ Made(c) \in 0 .. Traffic /\ Used(c) \in 0 .. Traffic
             /\ pipe[c] \in 0 .. PipeSz /\ pend[c] \in 0 .. BufSz
  BY <1>1 DEF TypeOK, ChildType
<1>3. \A n \in Nat : \A k \in 0 .. n : k \in Nat /\ k <= n
  OBVIOUS
<1>4. Traffic \in Nat /\ PipeSz \in Nat /\ BufSz \in Nat
  OBVIOUS
<1>5. Listed \subseteq Child
  BY DEF TypeOK, Listed, ToSet
<1>. QED BY <1>1, <1>2, <1>3, <1>4, <1>5

(* ---- steps of the call alone ---- *)

\* As long as no process gains or loses an end and none comes or goes, every
\* process has what it should.
LEMMA HoldsStill ==
  ASSUME IInv, UNCHANGED <<hold, inherit, files>>,
         \A c \in Child : Mode(c)' = Mode(c) /\ Life(c)' = Life(c),
         Starting' <=> Starting, Starting => job'.c = job.c
  PROVE  HoldsRight'
<1>1. Listed' = Listed /\ Listed \subseteq Child
  BY ChildFields DEF IInv, Listed
<1>2. Starting => job.c \in Child
  BY DEF IInv, JobRight
<1>3. \A c \in Child : Running(c)' <=> Running(c)
  BY DEF Running
<1>4. {Ours(c, Mode(c)) : c \in Listed}' = {Ours(c, Mode(c)) : c \in Listed}
  BY <1>1 DEF Ours
<1>5. \A c \in Child : Theirs(c, Mode(c))' = Theirs(c, Mode(c))
  BY DEF Theirs
<1>6. Starting => Ends(job.c)' = Ends(job.c) /\ Theirs(job.c, Mode(job.c))' = Theirs(job.c, Mode(job.c))
  BY <1>2 DEF Ends, Theirs
<1>. QED BY <1>1, <1>2, <1>3, <1>4, <1>5, <1>6 DEF IInv, HoldsRight

LEMMA CallMoves ==
  ASSUME IInv, UNCHANGED <<child, hold, inherit, pipe, files, pend, eof>>,
         out' \in 0 .. BufSz, job' \in JobType, JobRight',
         Starting' <=> Starting, Starting => job'.c = job.c
  PROVE  IInv'
<1>1. HoldsRight'
  BY HoldsStill
<1>2. TypeOK'
  BY DEF IInv, TypeOK, JobType
<1>3. Listed' = Listed
  BY DEF Listed
<1>4. ChildrenRight'
  BY <1>3 DEF IInv, ChildrenRight
<1>5. Counted'
  BY <1>3 DEF IInv, Counted, Running
<1>. QED BY <1>1, <1>2, <1>4, <1>5 DEF IInv

\* The first byte of a stream's flush, or its end, shortens what is to flush.
LEMMA NextFileLeaves ==
  ASSUME job \in JobType, Flushing, NextFile
  PROVE  /\ job' \in JobType /\ job'.op = job.op /\ job'.c = job.c /\ job'.todo = Tail(job.todo)
         /\ \A d \in ToSet(job.todo) : d # Head(job.todo) => d \in ToSet(job'.todo)
         /\ Head(job.todo) \in Child \cup {Stdout}
<1>1. job.todo \in Seq(Child \cup {Stdout}) /\ job.todo # << >>
  BY DEF JobType, Flushing
<1>2. /\ Head(job.todo) \in Child \cup {Stdout} /\ Tail(job.todo) \in Seq(Child \cup {Stdout})
      /\ ToSet(job.todo) \subseteq {Head(job.todo)} \cup ToSet(Tail(job.todo))
  BY ONLY <1>1, TailElements
<1>3. job' = [job EXCEPT !.todo = Tail(job.todo)]
  BY DEF NextFile
<1>4. job'.op = job.op /\ job'.c = job.c /\ job'.todo = Tail(job.todo)
  BY <1>3 DEF JobType
<1>5. job' \in JobType
  BY <1>2, <1>3 DEF JobType
<1>. QED BY <1>2, <1>4, <1>5

\* FlushAll covers all that pends.
LEMMA FlushAllCovers ==
  ASSUME IInv
  PROVE  /\ FlushAll \in Seq(Child \cup {Stdout}) /\ Stdout \in ToSet(FlushAll)
         /\ \A c \in Child : pend[c] > 0 => c \in ToSet(FlushAll)
<1>1. files \in Seq(Child \cup {Stdout}) /\ Stdout \in Child \cup {Stdout}
  BY DEF IInv, TypeOK
<1>2. FlushAll \in Seq(Child \cup {Stdout}) /\ ToSet(FlushAll) = {Stdout} \cup Listed
  BY <1>1, ConsElements DEF FlushAll, Listed
<1>. QED BY <1>2 DEF IInv, ChildrenRight

\* A call begins, or goes on, with nothing moved but the call.
LEMMA CallBegins ==
  ASSUME IInv, ~Starting,
         NEW op \in {"idle", "fflush", "fputc", "fgetc", "pclose", "wait", "exit", "gone"},
         NEW c \in Child \cup {Nobody}, NEW todo \in Seq(Child \cup {Stdout}),
         Call(op, c, todo),
         UNCHANGED <<child, hold, inherit, pipe, files, pend, eof, out>>,
         op \in {"fputc", "fgetc", "pclose"} => c \in Listed,
         op = "wait" => c \in Child,
         op = "fputc" => Mode(c) = "w" /\ Made(c) < Traffic /\ (pend[c] = BufSz => c \in ToSet(todo)),
         op = "fgetc" => Mode(c) = "r",
         op = "pclose" => c \in ToSet(todo),
         op \in {"fflush", "exit"} => /\ Stdout \in ToSet(todo)
                                      /\ \A d \in Child : pend[d] > 0 => d \in ToSet(todo),
         op \in {"idle", "fgetc", "wait", "gone"} => todo = << >>
  PROVE  IInv'
<1>1. job'.op = op /\ job'.c = c /\ job'.todo = todo /\ job' \in JobType
  BY DEF Call, JobType
<1>2. Listed' = Listed /\ Listed \subseteq Child /\ out' \in 0 .. BufSz
  BY ChildFields DEF Listed, IInv, TypeOK
<1>3. JobRight'
  BY <1>1, <1>2 DEF JobRight, Covered
<1>. QED BY <1>1, <1>2, <1>3, CallMoves

LEMMA OneElement ==
  ASSUME NEW S, NEW c \in S PROVE <<c>> \in Seq(S) /\ c \in ToSet(<<c>>)
<1>1. <<c>> \in Seq(S) /\ DOMAIN <<c>> = 1 .. 1 /\ <<c>>[1] = c
  OBVIOUS
<1>. QED BY <1>1 DEF ToSet

LEMMA CallsKeep ==
  ASSUME IInv
  PROVE  /\ fflush_all => IInv'
         /\ fflush_done => IInv'
         /\ \A c \in Child : fputc(c) => IInv'
         /\ \A c \in Child : fgetc(c) => IInv'
         /\ \A c \in Child : _pclose(c) => IInv'
         /\ WaitForSingleObject => IInv'
         /\ ExitProcess => IInv'
<1>1. << >> \in Seq(Child \cup {Stdout}) /\ Nobody \in Child \cup {Nobody}
  BY EmptySeq
<1>2. FlushAll \in Seq(Child \cup {Stdout}) /\ Stdout \in ToSet(FlushAll)
      /\ \A c \in Child : pend[c] > 0 => c \in ToSet(FlushAll)
  BY FlushAllCovers
<1>3. ASSUME NEW c \in Child PROVE <<c>> \in Seq(Child \cup {Stdout}) /\ c \in ToSet(<<c>>)
  BY OneElement
<1>4. CASE fflush_all
  <2>1. ~Starting /\ Call("fflush", Nobody, FlushAll)
        /\ UNCHANGED <<child, hold, inherit, pipe, files, pend, eof, out>>
    BY <1>4 DEF fflush_all, Idling
  <2>. QED BY <1>1, <1>2, <2>1, CallBegins
<1>5. CASE ExitProcess
  <2>1. ~Starting /\ Call("exit", Nobody, FlushAll)
        /\ UNCHANGED <<child, hold, inherit, pipe, files, pend, eof, out>>
    BY <1>5 DEF ExitProcess, Idling
  <2>. QED BY <1>1, <1>2, <2>1, CallBegins
<1>6. CASE fflush_done \/ WaitForSingleObject
  <2>1. ~Starting /\ Call("idle", Nobody, << >>)
        /\ UNCHANGED <<child, hold, inherit, pipe, files, pend, eof, out>>
    BY <1>6 DEF fflush_done, WaitForSingleObject, Ready, Return, Idle, Call
  <2>. QED BY <1>1, <2>1, CallBegins
<1>7. ASSUME NEW c \in Child, fputc(c) PROVE IInv'
  <2>1. ~Starting /\ Call("fputc", c, FlushBeforePut(c)) /\ c \in Listed
        /\ Mode(c) = "w" /\ Made(c) < Traffic
        /\ UNCHANGED <<child, hold, inherit, pipe, files, pend, eof, out>>
    BY <1>7 DEF fputc, Idling, IsOpen, Listed
  <2>2. FlushBeforePut(c) \in Seq(Child \cup {Stdout})
        /\ (pend[c] = BufSz => c \in ToSet(FlushBeforePut(c)))
    BY <1>1, <1>3 DEF FlushBeforePut
  <2>. HIDE DEF FlushBeforePut
  <2>. QED BY <2>1, <2>2, CallBegins
<1>8. ASSUME NEW c \in Child, fgetc(c) PROVE IInv'
  <2>1. ~Starting /\ Call("fgetc", c, << >>) /\ c \in Listed /\ Mode(c) = "r"
        /\ UNCHANGED <<child, hold, inherit, pipe, files, pend, eof, out>>
    BY <1>8 DEF fgetc, Idling, IsOpen, Listed
  <2>. QED BY <1>1, <2>1, CallBegins
<1>9. ASSUME NEW c \in Child, _pclose(c) PROVE IInv'
  <2>1. ~Starting /\ Call("pclose", c, <<c>>) /\ c \in Listed
        /\ UNCHANGED <<child, hold, inherit, pipe, files, pend, eof, out>>
    BY <1>9 DEF _pclose, Idling, IsOpen, Listed, FlushBeforeClose
  <2>. QED BY <1>3, <2>1, CallBegins
<1>. QED BY <1>4, <1>5, <1>6, <1>7, <1>8, <1>9

LEMMA StdoutKeeps ==
  ASSUME IInv
  PROVE  (printf => IInv') /\ (FlushStdout => IInv')
<1>1. out \in 0 .. BufSz /\ job \in JobType /\ Listed' = ToSet(files')
  BY ChildFields DEF IInv, TypeOK, Listed
<1>2. CASE printf
  <2>1. out' \in 0 .. BufSz
    <3>1. \A n \in Nat : \A k \in 0 .. n : k < n => k + 1 \in 0 .. n
      OBVIOUS
    <3>. QED BY <1>1, <1>2, <3>1 DEF printf
  <2>2. JobRight'
    BY <1>1, <1>2 DEF printf, Idling, IInv, JobRight, Listed
  <2>. QED BY <1>1, <1>2, <2>1, <2>2, CallMoves DEF printf
<1>3. CASE FlushStdout
  <2>1. Flushing /\ Head(job.todo) = Stdout /\ out' = 0 /\ NextFile
        /\ UNCHANGED <<child, hold, inherit, pipe, files, pend, eof>>
    BY <1>3 DEF FlushStdout
  <2>2. /\ job' \in JobType /\ job'.op = job.op /\ job'.c = job.c
        /\ \A d \in ToSet(job.todo) : d # Stdout => d \in ToSet(job'.todo)
    BY <1>1, <2>1, NextFileLeaves
  <2>3. JobRight'
    <3>1. Listed' = Listed
      BY <2>1 DEF Listed
    <3>2. job.op \notin {"idle", "fgetc", "wait", "gone"}
      BY <2>1 DEF IInv, JobRight, Flushing
    <3>3. Covered => Covered'
      BY <2>1, <2>2 DEF Covered
    <3>. HIDE DEF Covered
    <3>. QED BY <2>1, <2>2, <3>1, <3>2, <3>3 DEF IInv, JobRight
  <2>4. out' \in 0 .. BufSz
    BY <2>1
  <2>. QED BY <2>1, <2>2, <2>3, <2>4, CallMoves
<1>. QED BY <1>2, <1>3

(* ---- steps that move a byte ---- *)

\* A byte moves along the pipe of child c: from its maker to pend, to pipe, to
\* its user, or it is dropped for want of a reader.  No other child's does.
LEMMA ByteMoves ==
  ASSUME IInv, NEW c \in Child, UNCHANGED <<hold, inherit, files, out>>,
         child' \in ChildType,
         pipe' \in [Child -> 0 .. PipeSz], pend' \in [Child -> 0 .. BufSz], eof' \subseteq Child,
         \A d \in Child : Mode(d)' = Mode(d) /\ Life(d)' = Life(d),
         \A d \in Child \ {c} :
           Made(d)' = Made(d) /\ Used(d)' = Used(d) /\ pipe'[d] = pipe[d] /\ pend'[d] = pend[d]
           /\ (d \in eof' <=> d \in eof),
         Life(c) # "unborn",
         Used(c)' + pipe'[c] + pend'[c] <= Made(c)',
         pend'[c] > 0 => c \in Listed,
         (Mode(c) = "w" /\ Running(c)) \/ (Mode(c) = "r" /\ c \in Listed)
           => Used(c)' + pipe'[c] + pend'[c] = Made(c)',
         Mode(c) = "w" /\ Life(c) = "finished" => Used(c)' = Made(c)',
         c \in eof' => Mode(c) = "r" /\ ~Running(c) /\ Used(c)' = Made(c)',
         job' \in JobType, JobRight', Starting' <=> Starting, Starting => job'.c = job.c
  PROVE  IInv'
<1>1. HoldsRight'
  BY HoldsStill
<1>2. Listed' = Listed
  BY DEF Listed
<1>3. TypeOK'
  BY DEF IInv, TypeOK, JobType, ChildType
<1>4. ChildrenRight'
  <2>. SUFFICES ASSUME NEW d \in Child
                PROVE  /\ Life(d)' = "unborn" => d \notin Listed' /\ Made(d)' = 0 /\ pipe'[d] = 0
                       /\ Life(d)' # "unborn" => Mode(d)' # "none"
                       /\ Mode(d)' # "none" /\ Life(d)' = "unborn" => Starting' /\ job'.c = d
                       /\ Used(d)' + pipe'[d] + pend'[d] <= Made(d)'
                       /\ pend'[d] > 0 => d \in Listed'
    BY DEF ChildrenRight
  <2>1. CASE d = c
    BY <1>2, <2>1 DEF IInv, ChildrenRight
  <2>2. CASE d # c
    BY <1>2, <2>2 DEF IInv, ChildrenRight
  <2>. QED BY <2>1, <2>2
<1>5. Counted'
  <2>. SUFFICES ASSUME NEW d \in Child
                PROVE  /\ (Mode(d)' = "w" /\ Running(d)') \/ (Mode(d)' = "r" /\ d \in Listed')
                            => Used(d)' + pipe'[d] + pend'[d] = Made(d)'
                       /\ Mode(d)' = "w" /\ Life(d)' = "finished"
                            => d \notin Listed' /\ Used(d)' = Made(d)'
                       /\ d \in eof' => /\ Mode(d)' = "r" /\ ~Running(d)' /\ Life(d)' # "unborn"
                                        /\ Used(d)' = Made(d)'
    BY DEF Counted
  <2>1. CASE d = c
    BY <1>2, <2>1 DEF IInv, Counted, Running
  <2>2. CASE d # c
    BY <1>2, <2>2 DEF IInv, Counted, Running
  <2>. QED BY <2>1, <2>2
<1>. QED BY <1>1, <1>3, <1>4, <1>5 DEF IInv

\* A number of one child changes.
LEMMA CountAt ==
  ASSUME NEW top \in Nat, NEW f \in [Child -> 0 .. top], NEW c \in Child, NEW n \in 0 .. top,
         NEW g, g = [f EXCEPT ![c] = n]
  PROVE  /\ g \in [Child -> 0 .. top] /\ \A d \in Child : g[d] = IF d = c THEN n ELSE f[d]
OBVIOUS

\* A child's life changes, and nothing else of any child does.
LEMMA LivesOn ==
  ASSUME child \in ChildType, NEW c \in Child, NEW as \in {"running", "finished", "quit"},
         child' = [child EXCEPT ![c].life = as]
  PROVE  /\ child' \in ChildType
         /\ \A d \in Child : /\ Mode(d)' = Mode(d) /\ Made(d)' = Made(d) /\ Used(d)' = Used(d)
                             /\ Life(d)' = IF d = c THEN as ELSE Life(d)
<1>1. \A d \in Child : child'[d] = IF d = c THEN [child[c] EXCEPT !.life = as] ELSE child[d]
  BY DEF ChildType
<1>2. DOMAIN child' = Child /\ child' = [d \in Child |-> child'[d]]
  BY DEF ChildType
<1>3. ASSUME NEW d \in Child
      PROVE  /\ child'[d] \in [mode : {"none", "r", "w"}, life : {"unborn", "running", "finished", "quit"},
                               made : 0 .. Traffic, used : 0 .. Traffic]
             /\ Mode(d)' = Mode(d) /\ Made(d)' = Made(d) /\ Used(d)' = Used(d)
             /\ Life(d)' = IF d = c THEN as ELSE Life(d)
  <2>. DEFINE R == [mode : {"none", "r", "w"}, life : {"unborn", "running", "finished", "quit"},
                    made : 0 .. Traffic, used : 0 .. Traffic]
              x == child[c]
              y == [x EXCEPT !.life = as]
  <2>1. child[d] \in R /\ x \in R
    BY DEF ChildType
  <2>. HIDE DEF x
  <2>2. y \in R /\ y.mode = x.mode /\ y.life = as /\ y.made = x.made /\ y.used = x.used
    BY ONLY <2>1, as \in {"running", "finished", "quit"}
  <2>. HIDE DEF y, R
  <2>3. child'[d] = IF d = c THEN y ELSE child[d]
    BY <1>1 DEF x, y
  <2>4. child'[d] \in R
    BY ONLY <2>1, <2>2, <2>3
  <2>. QED BY <2>2, <2>3, <2>4 DEF R, x
<1>. QED BY ONLY <1>2, <1>3 DEF ChildType

\* The program holds the reading end of a child's pipe, or the child does.
LEMMA Holders ==
  ASSUME IInv, NEW c \in Child, Mode(c) # "none", Life(c) # "unborn"
  PROVE  /\ Held(Theirs(c, Mode(c))) <=> Running(c)
         /\ Held(Ours(c, Mode(c))) <=> c \in Listed
<1>1. /\ DOMAIN hold = Child \cup {Self} /\ Self \notin Child /\ Listed \subseteq Child
      /\ \A d \in Child : Mode(d) \in {"none", "r", "w"}
      /\ \A d \in Child : Life(d) = "unborn" \/ Mode(d) \in {"r", "w"}
  BY ChildFields DEF IInv, TypeOK, ChildrenRight
<1>2. \A d \in Listed : Life(d) # "unborn" /\ Mode(d) \in {"r", "w"}
  BY <1>1 DEF IInv, ChildrenRight
<1>3. \A d \in Child : Running(d) => Mode(d) \in {"r", "w"}
  BY <1>1 DEF Running
<1>4. Starting => job.c \in Child /\ job.c # c
  BY DEF IInv, JobRight
<1>5. Mode(c) \in {"r", "w"}
  BY <1>1
<1>6. ASSUME NEW m \in {"r", "w"}, NEW d, NEW n \in {"r", "w"}
      PROVE  /\ Theirs(c, m) = Theirs(d, n) <=> c = d /\ m = n
             /\ Ours(c, m) = Ours(d, n) <=> c = d /\ m = n
             /\ Ours(c, m) = Theirs(d, n) <=> c = d /\ m # n
             /\ Theirs(c, m) = Ours(d, n) <=> c = d /\ m # n
             /\ c # d => Theirs(c, m) \notin Ends(d) /\ Ours(c, m) \notin Ends(d)
  <2>1. /\ Theirs(c, m) = Theirs(d, n) <=> c = d /\ m = n
        /\ Ours(c, m) = Ours(d, n) <=> c = d /\ m = n
        /\ Ours(c, m) = Theirs(d, n) <=> c = d /\ m # n
        /\ Theirs(c, m) = Ours(d, n) <=> c = d /\ m # n
    BY ONLY EndsDiffer
  <2>2. Ends(d) = {Ours(d, n), Theirs(d, n)}
    BY DEF Ends, Ours, Theirs
  <2>. QED BY ONLY <2>1, <2>2
<1>. DEFINE M == Mode(c)
<1>7. Held(Theirs(c, M)) <=> Running(c)
  <2>1. Theirs(c, M) \notin hold[Self]
    BY <1>2, <1>4, <1>5, <1>6 DEF IInv, HoldsRight
  <2>2. ASSUME NEW d \in Child PROVE Theirs(c, M) \in hold[d] <=> d = c /\ Running(c)
    <3>1. hold[d] = IF Running(d) THEN {Theirs(d, Mode(d))} ELSE {}
      BY DEF IInv, HoldsRight
    <3>2. Running(d) => Mode(d) \in {"r", "w"} /\ (d = c => Mode(d) = M)
      BY <1>3
    <3>3. Running(d) => (Theirs(c, M) = Theirs(d, Mode(d)) <=> d = c)
      BY <1>5, <1>6, <3>2
    <3>. QED BY <3>1, <3>3
  <2>. QED BY <1>1, <2>1, <2>2 DEF Held
<1>8. Held(Ours(c, M)) <=> c \in Listed
  <2>1. Ours(c, M) \in hold[Self] <=> c \in Listed
    BY <1>2, <1>4, <1>5, <1>6 DEF IInv, HoldsRight
  <2>2. ASSUME NEW d \in Child PROVE Ours(c, M) \notin hold[d]
    <3>1. hold[d] = IF Running(d) THEN {Theirs(d, Mode(d))} ELSE {}
      BY DEF IInv, HoldsRight
    <3>2. Running(d) => Mode(d) \in {"r", "w"} /\ (d = c => Mode(d) = M)
      BY <1>3
    <3>3. Running(d) => Ours(c, M) # Theirs(d, Mode(d))
      BY <1>5, <1>6, <3>2
    <3>. QED BY <3>1, <3>3
  <2>. QED BY <1>1, <2>1, <2>2 DEF Held
<1>. QED BY <1>7, <1>8

\* The call returns.
LEMMA Returns ==
  ASSUME Return
  PROVE  job' \in JobType /\ ~Starting' /\ JobRight'
<1>1. job'.op = "idle" /\ job'.c = Nobody /\ job'.todo = << >>
  BY DEF Return, Idle
<1>2. << >> \in Seq(Child \cup {Stdout})
  BY EmptySeq
<1>3. job' \in JobType
  BY <1>2 DEF Return, Idle, JobType
<1>4. JobRight'
  BY <1>1 DEF JobRight
<1>. QED BY <1>1, <1>3, <1>4

LEMMA FlushPipeKeeps == ASSUME IInv, FlushPipe PROVE IInv'
<1>. SUFFICES ASSUME NEW c, c = Head(job.todo) PROVE IInv'
  OBVIOUS
<1>1. /\ Flushing /\ c \in Child
      /\ UNCHANGED <<child, hold, inherit, files, eof, out>>
      /\ \/ (Mode(c) = "r" \/ pend[c] = 0) /\ NextFile /\ UNCHANGED <<pipe, pend>>
         \/ /\ Mode(c) = "w" /\ pend[c] > 0 /\ Held(<<c, "rd">>) /\ pipe[c] < PipeSz
            /\ pipe' = [pipe EXCEPT ![c] = pipe[c] + 1]
            /\ pend' = [pend EXCEPT ![c] = pend[c] - 1]
            /\ UNCHANGED job
         \/ /\ Mode(c) = "w" /\ pend[c] > 0 /\ ~Held(<<c, "rd">>)
            /\ pend' = [pend EXCEPT ![c] = 0]
            /\ UNCHANGED pipe
            /\ (job.op = "fputc" /\ Return) \/ (job.op # "fputc" /\ NextFile)
  BY DEF FlushPipe, AfterFailure
<1>2. /\ child \in ChildType /\ job \in JobType /\ Listed' = Listed /\ out' \in 0 .. BufSz
      /\ pipe \in [Child -> 0 .. PipeSz] /\ pend \in [Child -> 0 .. BufSz] /\ eof \subseteq Child
  BY <1>1, ChildFields DEF Listed, IInv, TypeOK
<1>3. /\ pend[c] \in Nat /\ pend[c] <= BufSz /\ pipe[c] \in Nat /\ pipe[c] <= PipeSz
      /\ Made(c) \in Nat /\ Used(c) \in Nat
      /\ \A d \in Child : pend[d] \in Nat /\ pend[d] <= BufSz
  BY <1>1, ChildFields DEF IInv
<1>4. job.op \notin {"idle", "fgetc", "wait", "gone"}
  BY <1>1 DEF IInv, JobRight, Flushing
<1>5. NextFile => /\ job' \in JobType /\ job'.op = job.op /\ job'.c = job.c
                  /\ \A d \in ToSet(job.todo) : d # c => d \in ToSet(job'.todo)
  BY <1>1, <1>2, NextFileLeaves
<1>6. pend[c] > 0 => c \in Listed /\ Life(c) # "unborn" /\ (Mode(c) = "w" => Life(c) # "finished")
  BY <1>1 DEF IInv, ChildrenRight, Counted
<1>7. Stdout # c
  BY <1>1
<1>8. CASE (Mode(c) = "r" \/ pend[c] = 0) /\ NextFile /\ UNCHANGED <<pipe, pend>>
  <2>1. \A d \in Child : Mode(d) = "w" /\ pend[d] > 0 => d # c
    BY <1>3, <1>8
  <2>2. Covered => Covered'
    BY <1>1, <1>5, <1>7, <1>8, <2>1 DEF Covered
  <2>3. BufSz > 0
    BY SizeAssumption
  <2>. HIDE DEF Covered
  <2>4. JobRight'
    BY <1>1, <1>2, <1>4, <1>5, <1>8, <2>1, <2>2, <2>3 DEF IInv, JobRight
  <2>. QED BY <1>1, <1>2, <1>5, <1>8, <2>4, CallMoves
<1>9. CASE /\ Mode(c) = "w" /\ pend[c] > 0 /\ Held(<<c, "rd">>) /\ pipe[c] < PipeSz
           /\ pipe' = [pipe EXCEPT ![c] = pipe[c] + 1]
           /\ pend' = [pend EXCEPT ![c] = pend[c] - 1]
           /\ UNCHANGED job
  <2>1. pipe[c] + 1 \in 0 .. PipeSz /\ pend[c] - 1 \in 0 .. BufSz /\ PipeSz \in Nat /\ BufSz \in Nat
    BY <1>3, <1>9
  <2>2. /\ pipe' \in [Child -> 0 .. PipeSz] /\ pipe'[c] = pipe[c] + 1
        /\ \A d \in Child : d # c => pipe'[d] = pipe[d]
    BY <1>1, <1>2, <1>9, <2>1, CountAt
  <2>3. /\ pend' \in [Child -> 0 .. BufSz] /\ pend'[c] = pend[c] - 1
        /\ \A d \in Child : d # c => pend'[d] = pend[d]
    BY <1>1, <1>2, <1>9, <2>1, CountAt
  <2>4. \A d \in Child : pend'[d] <= pend[d] /\ pend'[d] \in Nat
    BY <1>3, <1>9, <2>3
  <2>5. JobRight'
    <3>1. Covered => Covered'
      BY <1>1, <1>3, <1>9, <2>4 DEF Covered
    <3>. HIDE DEF Covered
    <3>2. \A d \in Child : (pend'[d] = BufSz => pend[d] = BufSz) /\ (pend'[d] > 0 => pend[d] > 0)
      BY <1>3, <2>1, <2>4
    <3>. QED BY <1>1, <1>2, <1>9, <3>1, <3>2 DEF IInv, JobRight
  <2>6. Used(c) + pipe[c] + pend[c] = Used(c) + (pipe[c] + 1) + (pend[c] - 1)
    BY <1>3
  <2>7. /\ Used(c)' + pipe'[c] + pend'[c] <= Made(c)'
        /\ Running(c) => Used(c)' + pipe'[c] + pend'[c] = Made(c)'
    <3>1. /\ Used(c) + pipe[c] + pend[c] <= Made(c)
          /\ Running(c) => Used(c) + pipe[c] + pend[c] = Made(c)
      BY <1>1, <1>9 DEF IInv, ChildrenRight, Counted
    <3>2. Used(c)' = Used(c) /\ Made(c)' = Made(c)
      BY <1>1
    <3>. QED BY ONLY <2>2, <2>3, <2>6, <3>1, <3>2
  <2>8. c \notin eof'
    BY <1>1, <1>9 DEF IInv, Counted
  <2>9. /\ UNCHANGED <<hold, inherit, files, out>> /\ child' \in ChildType /\ eof' \subseteq Child
        /\ job' \in JobType /\ (Starting' <=> Starting) /\ (Starting => job'.c = job.c)
        /\ \A d \in Child : Mode(d)' = Mode(d) /\ Life(d)' = Life(d)
    BY <1>1, <1>2, <1>9
  <2>10. \A d \in Child \ {c} :
           Made(d)' = Made(d) /\ Used(d)' = Used(d) /\ pipe'[d] = pipe[d] /\ pend'[d] = pend[d]
           /\ (d \in eof' <=> d \in eof)
    BY <1>1, <2>2, <2>3
  <2>11. /\ (Mode(c) = "w" /\ Running(c)) \/ (Mode(c) = "r" /\ c \in Listed)
              => Used(c)' + pipe'[c] + pend'[c] = Made(c)'
         /\ Life(c) # "unborn" /\ c \in Listed /\ Life(c) # "finished"
    BY <1>6, <1>9, <2>7
  <2>. QED BY <1>1, <2>2, <2>3, <2>5, <2>7, <2>8, <2>9, <2>10, <2>11, ByteMoves
<1>10. CASE /\ Mode(c) = "w" /\ pend[c] > 0 /\ ~Held(<<c, "rd">>)
            /\ pend' = [pend EXCEPT ![c] = 0]
            /\ UNCHANGED pipe
            /\ (job.op = "fputc" /\ Return) \/ (job.op # "fputc" /\ NextFile)
  <2>1. 0 \in 0 .. BufSz /\ BufSz \in Nat /\ BufSz > 0
    BY SizeAssumption
  <2>2. /\ pend' \in [Child -> 0 .. BufSz] /\ pend'[c] = 0
        /\ \A d \in Child : d # c => pend'[d] = pend[d]
    BY <1>1, <1>2, <1>10, <2>1, CountAt
  <2>3. ~Running(c)
    <3>1. <<c, "rd">> = Theirs(c, Mode(c))
      BY <1>10 DEF Theirs
    <3>. QED BY <1>1, <1>6, <1>10, <3>1, Holders
  <2>4. JobRight' /\ job' \in JobType /\ (Starting' <=> Starting) /\ (Starting => job'.c = job.c)
    <3>1. CASE job.op # "fputc" /\ NextFile
      <4>1. Covered => Covered'
        BY <1>1, <1>5, <1>7, <2>2, <3>1 DEF Covered
      <4>. HIDE DEF Covered
      <4>2. /\ job'.op = job.op /\ job'.c = job.c /\ child' = child /\ Listed' = Listed
            /\ \A d \in ToSet(job.todo) : d # c => d \in ToSet(job'.todo)
        BY <1>1, <1>2, <1>5, <3>1
      <4>3. JobRight
        BY DEF IInv
      <4>4. ASSUME job.op = "pclose", Mode(job.c) = "w", pend'[job.c] > 0
            PROVE  job.c \in ToSet(job'.todo)
        <5>1. job.c # c /\ pend[job.c] > 0
          BY <2>2, <4>3, <4>4 DEF JobRight
        <5>. QED BY <4>2, <4>3, <4>4, <5>1 DEF JobRight
      <4>5. JobRight'
        BY <1>4, <3>1, <4>1, <4>2, <4>3, <4>4 DEF JobRight, Starting
      <4>. QED BY <1>5, <3>1, <4>5 DEF Starting
    <3>2. CASE job.op = "fputc" /\ Return
      BY <3>2, Returns DEF Starting
    <3>. QED BY <1>10, <3>1, <3>2
  <2>5. Used(c)' + pipe'[c] + pend'[c] <= Made(c)'
    <3>1. Used(c) + pipe[c] + pend[c] <= Made(c)
      BY <1>1 DEF IInv, ChildrenRight
    <3>2. Used(c) + pipe[c] + 0 <= Made(c)
      BY ONLY <1>3, <3>1
    <3>3. Used(c)' = Used(c) /\ Made(c)' = Made(c) /\ pipe'[c] = pipe[c]
      BY <1>1, <1>10
    <3>. QED BY ONLY <2>2, <3>2, <3>3
  <2>6. c \notin eof'
    BY <1>1, <1>10 DEF IInv, Counted
  <2>7. /\ UNCHANGED <<hold, inherit, files, out>> /\ child' \in ChildType /\ eof' \subseteq Child
        /\ job' \in JobType /\ (Starting' <=> Starting) /\ (Starting => job'.c = job.c)
        /\ pipe' \in [Child -> 0 .. PipeSz]
        /\ \A d \in Child : Mode(d)' = Mode(d) /\ Life(d)' = Life(d)
    <3>1. \A d \in Child : Mode(d)' = Mode(d) /\ Life(d)' = Life(d)
      BY <1>1
    <3>2. pipe' \in [Child -> 0 .. PipeSz] /\ child' \in ChildType /\ eof' \subseteq Child
      BY <1>1, <1>2, <1>10
    <3>. QED BY ONLY <1>1, <2>4, <3>1, <3>2
  <2>8. \A d \in Child \ {c} :
          Made(d)' = Made(d) /\ Used(d)' = Used(d) /\ pipe'[d] = pipe[d] /\ pend'[d] = pend[d]
          /\ (d \in eof' <=> d \in eof)
    BY <1>1, <1>10, <2>2
  <2>9. /\ Mode(c) = "w" /\ Life(c) # "unborn" /\ c \in Listed /\ Life(c) # "finished"
    BY <1>6, <1>10
  <2>. QED BY <1>1, <2>2, <2>3, <2>4, <2>5, <2>6, <2>7, <2>8, <2>9, ByteMoves
<1>. QED BY <1>1, <1>8, <1>9, <1>10

LEMMA FputcKeeps == ASSUME IInv, fputc_done PROVE IInv'
<1>. SUFFICES ASSUME NEW c, c = job.c PROVE IInv'
  OBVIOUS
<1>1. /\ job.op = "fputc" /\ job.todo = << >> /\ Return
      /\ child' = [child EXCEPT ![c].made = Made(c) + 1]
      /\ pend' = [pend EXCEPT ![c] = pend[c] + 1]
      /\ UNCHANGED <<hold, inherit, pipe, files, eof, out>>
  BY DEF fputc_done, Ready, Flushing
<1>2. /\ c \in Child /\ c \in Listed /\ Mode(c) = "w" /\ Made(c) < Traffic /\ pend[c] # BufSz
  BY <1>1 DEF IInv, JobRight, ToSet
<1>3. /\ Made(c) \in Nat /\ Used(c) \in Nat /\ pipe[c] \in Nat /\ pend[c] \in Nat
      /\ pend[c] <= BufSz /\ Traffic \in Nat /\ BufSz \in Nat /\ child \in ChildType
  BY <1>2, ChildFields DEF IInv
<1>4. Made(c) + 1 \in 0 .. Traffic /\ pend[c] + 1 \in 0 .. BufSz
  BY <1>2, <1>3
<1>5. /\ child' \in ChildType
      /\ \A d \in Child : /\ Mode(d)' = Mode(d) /\ Life(d)' = Life(d) /\ Used(d)' = Used(d)
                          /\ Made(d)' = IF d = c THEN Made(c) + 1 ELSE Made(d)
  <2>. DEFINE n == Made(c) + 1
  <2>1. child' = [child EXCEPT ![c].made = n] /\ child \in ChildType /\ c \in Child /\ n \in 0 .. Traffic
    BY <1>1, <1>2, <1>3, <1>4
  <2>. HIDE DEF n
  <2>2. /\ child' \in ChildType
        /\ \A d \in Child : /\ Mode(d)' = Mode(d) /\ Life(d)' = Life(d) /\ Used(d)' = Used(d)
                            /\ Made(d)' = IF d = c THEN n ELSE Made(d)
    BY ONLY <2>1 DEF ChildType, Mode, Life, Used, Made
  <2>. QED BY <2>2 DEF n
<1>6. /\ pend' \in [Child -> 0 .. BufSz] /\ \A d \in Child : pend'[d] = IF d = c THEN pend[c] + 1 ELSE pend[d]
  BY <1>1, <1>2, <1>3, <1>4, CountAt DEF IInv, TypeOK
<1>7. pipe' \in [Child -> 0 .. PipeSz] /\ eof' \subseteq Child
  BY <1>1 DEF IInv, TypeOK
<1>8. /\ Used(c) + pipe[c] + pend[c] <= Made(c)
      /\ Running(c) => Used(c) + pipe[c] + pend[c] = Made(c)
      /\ Life(c) # "unborn" /\ Life(c) # "finished" /\ c \notin eof
  BY <1>2 DEF IInv, ChildrenRight, Counted
<1>9. /\ Used(c)' + pipe'[c] + pend'[c] <= Made(c)'
      /\ Running(c) => Used(c)' + pipe'[c] + pend'[c] = Made(c)'
  <2>1. /\ Used(c) + pipe[c] + (pend[c] + 1) <= Made(c) + 1
        /\ Running(c) => Used(c) + pipe[c] + (pend[c] + 1) = Made(c) + 1
    BY <1>3, <1>8
  <2>2. /\ Used(c)' = Used(c) /\ pipe'[c] = pipe[c] /\ pend'[c] = pend[c] + 1 /\ Made(c)' = Made(c) + 1
    BY <1>1, <1>2, <1>5, <1>6
  <2>. QED BY <2>1, <2>2
<1>10. job' \in JobType /\ ~Starting' /\ JobRight' /\ ~Starting
  BY <1>1, Returns
<1>11. \A d \in Child \ {c} :
         Made(d)' = Made(d) /\ Used(d)' = Used(d) /\ pipe'[d] = pipe[d] /\ pend'[d] = pend[d]
         /\ (d \in eof' <=> d \in eof)
  BY <1>1, <1>5, <1>6
<1>12. c \notin eof'
  BY <1>1, <1>8
<1>13. UNCHANGED <<hold, inherit, files, out>>
  BY <1>1
<1>. QED BY <1>2, <1>5, <1>6, <1>7, <1>8, <1>9, <1>10, <1>11, <1>12, <1>13, ByteMoves

LEMMA FgetcBufferedKeeps == ASSUME IInv, fgetc_buffered PROVE IInv'
<1>. SUFFICES ASSUME NEW c, c = job.c PROVE IInv'
  OBVIOUS
<1>1. /\ job.op = "fgetc" /\ Return /\ pend[c] > 0
      /\ child' = [child EXCEPT ![c].used = Used(c) + 1]
      /\ pend' = [pend EXCEPT ![c] = pend[c] - 1]
      /\ UNCHANGED <<hold, inherit, pipe, files, eof, out>>
  BY DEF fgetc_buffered, Ready
<1>2. c \in Child /\ c \in Listed /\ Mode(c) = "r"
  BY <1>1 DEF IInv, JobRight
<1>3. /\ Made(c) \in Nat /\ Used(c) \in Nat /\ pipe[c] \in Nat /\ pend[c] \in Nat /\ Made(c) <= Traffic
      /\ pend[c] <= BufSz /\ Traffic \in Nat /\ BufSz \in Nat /\ child \in ChildType
  BY <1>2, ChildFields DEF IInv
<1>4. /\ Used(c) + pipe[c] + pend[c] = Made(c) /\ Life(c) # "unborn"
      /\ c \in eof => Used(c) = Made(c)
  BY <1>2 DEF IInv, ChildrenRight, Counted
<1>5. /\ Used(c) + 1 \in 0 .. Traffic /\ pend[c] - 1 \in 0 .. BufSz /\ Used(c) # Made(c)
      /\ (Used(c) + 1) + pipe[c] + (pend[c] - 1) = Made(c)
  BY <1>1, <1>3, <1>4
<1>6. /\ child' \in ChildType
      /\ \A d \in Child : /\ Mode(d)' = Mode(d) /\ Life(d)' = Life(d) /\ Made(d)' = Made(d)
                          /\ Used(d)' = IF d = c THEN Used(c) + 1 ELSE Used(d)
  BY <1>1, <1>2, <1>3, <1>5 DEF ChildType
<1>7. /\ pend' \in [Child -> 0 .. BufSz] /\ \A d \in Child : pend'[d] = IF d = c THEN pend[c] - 1 ELSE pend[d]
  BY <1>1, <1>2, <1>3, <1>5, CountAt DEF IInv, TypeOK
<1>8. pipe' \in [Child -> 0 .. PipeSz] /\ eof' \subseteq Child
  BY <1>1 DEF IInv, TypeOK
<1>9. Used(c)' + pipe'[c] + pend'[c] = Made(c)' /\ Used(c)' + pipe'[c] + pend'[c] <= Made(c)'
  <2>1. /\ Used(c)' = Used(c) + 1 /\ pipe'[c] = pipe[c] /\ pend'[c] = pend[c] - 1 /\ Made(c)' = Made(c)
    BY <1>1, <1>2, <1>6, <1>7
  <2>. QED BY <1>3, <1>5, <2>1
<1>10. job' \in JobType /\ ~Starting' /\ JobRight' /\ ~Starting
  BY <1>1, Returns
<1>11. \A d \in Child \ {c} :
         Made(d)' = Made(d) /\ Used(d)' = Used(d) /\ pipe'[d] = pipe[d] /\ pend'[d] = pend[d]
         /\ (d \in eof' <=> d \in eof)
  BY <1>1, <1>6, <1>7
<1>12. c \notin eof'
  BY <1>1, <1>4, <1>5
<1>13. UNCHANGED <<hold, inherit, files, out>>
  BY <1>1
<1>. QED BY <1>2, <1>4, <1>6, <1>7, <1>8, <1>9, <1>10, <1>11, <1>12, <1>13, ByteMoves

\* A refill brings bytes that were in the pipe, or finds that none can come.
LEMMA FgetcFillKeeps == ASSUME IInv, fgetc_fill PROVE IInv'
<1>. SUFFICES ASSUME NEW c, c = job.c PROVE IInv'
  OBVIOUS
<1>. DEFINE n == IF pipe[c] < BufSz THEN pipe[c] ELSE BufSz
<1>1. /\ job.op = "fgetc" /\ Return /\ pend[c] = 0
      /\ UNCHANGED <<hold, inherit, files, out>>
      /\ \/ /\ pipe[c] > 0
            /\ pipe' = [pipe EXCEPT ![c] = pipe[c] - n]
            /\ pend' = [pend EXCEPT ![c] = n - 1]
            /\ child' = [child EXCEPT ![c].used = Used(c) + 1]
            /\ UNCHANGED eof
         \/ /\ pipe[c] = 0 /\ ~Held(<<c, "wr">>)
            /\ eof' = eof \cup {c}
            /\ UNCHANGED <<pipe, pend, child>>
  BY DEF fgetc_fill, Ready
<1>2. c \in Child /\ c \in Listed /\ Mode(c) = "r"
  BY <1>1 DEF IInv, JobRight
<1>3. /\ Made(c) \in Nat /\ Used(c) \in Nat /\ pipe[c] \in Nat /\ pend[c] \in Nat /\ Made(c) <= Traffic
      /\ pipe[c] <= PipeSz /\ Traffic \in Nat /\ BufSz \in Nat /\ BufSz > 0 /\ PipeSz \in Nat
      /\ child \in ChildType
  BY <1>2, ChildFields DEF IInv
<1>4. /\ Used(c) + pipe[c] + pend[c] = Made(c) /\ Life(c) # "unborn"
      /\ c \in eof => Used(c) = Made(c)
  BY <1>2 DEF IInv, ChildrenRight, Counted
<1>5. job' \in JobType /\ ~Starting' /\ JobRight' /\ ~Starting
  BY <1>1, Returns
<1>6. pipe \in [Child -> 0 .. PipeSz] /\ pend \in [Child -> 0 .. BufSz] /\ eof \subseteq Child
  BY DEF IInv, TypeOK
<1>7. CASE /\ pipe[c] > 0
           /\ pipe' = [pipe EXCEPT ![c] = pipe[c] - n]
           /\ pend' = [pend EXCEPT ![c] = n - 1]
           /\ child' = [child EXCEPT ![c].used = Used(c) + 1]
           /\ UNCHANGED eof
  <2>1. /\ n \in Nat /\ n >= 1 /\ n <= pipe[c] /\ n <= BufSz
    BY <1>3, <1>7
  <2>. HIDE DEF n
  <2>2. /\ Used(c) + 1 \in 0 .. Traffic /\ pipe[c] - n \in 0 .. PipeSz /\ n - 1 \in 0 .. BufSz
        /\ (Used(c) + 1) + (pipe[c] - n) + (n - 1) = Made(c) /\ Used(c) # Made(c)
    BY <1>1, <1>3, <1>4, <1>7, <2>1
  <2>3. /\ child' \in ChildType
        /\ \A d \in Child : /\ Mode(d)' = Mode(d) /\ Life(d)' = Life(d) /\ Made(d)' = Made(d)
                            /\ Used(d)' = IF d = c THEN Used(c) + 1 ELSE Used(d)
    BY <1>2, <1>3, <1>7, <2>2 DEF ChildType
  <2>4. /\ pend' \in [Child -> 0 .. BufSz] /\ \A d \in Child : pend'[d] = IF d = c THEN n - 1 ELSE pend[d]
    BY <1>2, <1>3, <1>6, <1>7, <2>2, CountAt
  <2>5. /\ pipe' \in [Child -> 0 .. PipeSz] /\ \A d \in Child : pipe'[d] = IF d = c THEN pipe[c] - n ELSE pipe[d]
    BY <1>2, <1>3, <1>6, <1>7, <2>2, CountAt
  <2>6. Used(c)' + pipe'[c] + pend'[c] = Made(c)' /\ Used(c)' + pipe'[c] + pend'[c] <= Made(c)'
    <3>1. Used(c)' = Used(c) + 1 /\ pipe'[c] = pipe[c] - n /\ pend'[c] = n - 1 /\ Made(c)' = Made(c)
      BY <1>2, <2>3, <2>4, <2>5
    <3>. QED BY <1>3, <2>2, <3>1
  <2>7. \A d \in Child \ {c} :
          Made(d)' = Made(d) /\ Used(d)' = Used(d) /\ pipe'[d] = pipe[d] /\ pend'[d] = pend[d]
          /\ (d \in eof' <=> d \in eof)
    BY <1>7, <2>3, <2>4, <2>5
  <2>8. c \notin eof' /\ eof' \subseteq Child
    BY <1>4, <1>6, <1>7, <2>2
  <2>. QED BY <1>1, <1>2, <1>4, <1>5, <2>3, <2>4, <2>5, <2>6, <2>7, <2>8, ByteMoves
<1>8. CASE /\ pipe[c] = 0 /\ ~Held(<<c, "wr">>)
           /\ eof' = eof \cup {c}
           /\ UNCHANGED <<pipe, pend, child>>
  <2>1. ~Running(c)
    <3>1. <<c, "wr">> = Theirs(c, Mode(c))
      BY <1>2 DEF Theirs
    <3>. QED BY <1>2, <1>4, <1>8, <3>1, Holders
  <2>2. Used(c)' = Made(c)' /\ Used(c)' + pipe'[c] + pend'[c] = Made(c)'
        /\ Used(c)' + pipe'[c] + pend'[c] <= Made(c)'
    <3>1. Used(c) = Made(c) /\ Used(c) + pipe[c] + pend[c] <= Made(c)
      BY <1>1, <1>3, <1>4, <1>8
    <3>. QED BY <1>4, <1>8, <3>1
  <2>3. \A d \in Child \ {c} :
          Made(d)' = Made(d) /\ Used(d)' = Used(d) /\ pipe'[d] = pipe[d] /\ pend'[d] = pend[d]
          /\ (d \in eof' <=> d \in eof)
    BY <1>8
  <2>4. /\ child' \in ChildType /\ pipe' \in [Child -> 0 .. PipeSz] /\ pend' \in [Child -> 0 .. BufSz]
        /\ eof' \subseteq Child /\ \A d \in Child : Mode(d)' = Mode(d) /\ Life(d)' = Life(d)
    BY <1>2, <1>3, <1>6, <1>8
  <2>. QED BY <1>1, <1>2, <1>4, <1>5, <2>1, <2>2, <2>3, <2>4, ByteMoves
<1>. QED BY <1>1, <1>7, <1>8

(* ---- steps of the children ---- *)

LEMMA JobStill ==
  ASSUME IInv, UNCHANGED <<job, out, pend, files>>,
         \A d \in Child : /\ Mode(d)' = Mode(d)
                          /\ Life(d) = "unborn" => Life(d)' = "unborn"
                          /\ Mode(d) = "w" => Made(d)' = Made(d)
  PROVE  JobRight' /\ job' \in JobType
<1>1. job \in JobType /\ Listed' = Listed /\ Listed \subseteq Child
  BY ChildFields DEF IInv, Listed
<1>2. Covered => Covered'
  BY DEF Covered
<1>. HIDE DEF Covered
<1>3. JobRight'
  BY <1>1, <1>2 DEF IInv, JobRight
<1>. QED BY <1>1, <1>3

LEMMA ChildReadsKeeps == ASSUME IInv, NEW c \in Child, ChildReads(c) PROVE IInv'
<1>1. /\ Running(c) /\ Mode(c) = "w" /\ pipe[c] > 0
      /\ pipe' = [pipe EXCEPT ![c] = pipe[c] - 1]
      /\ child' = [child EXCEPT ![c].used = Used(c) + 1]
      /\ UNCHANGED <<hold, inherit, files, pend, eof, out, job>>
  BY DEF ChildReads
<1>2. /\ Made(c) \in Nat /\ Used(c) \in Nat /\ pipe[c] \in Nat /\ pend[c] \in Nat /\ Made(c) <= Traffic
      /\ pipe[c] <= PipeSz /\ Traffic \in Nat /\ PipeSz \in Nat /\ child \in ChildType
  BY ChildFields DEF IInv
<1>3. /\ Used(c) + pipe[c] + pend[c] = Made(c) /\ Life(c) # "unborn" /\ Life(c) # "finished"
      /\ c \notin eof /\ (pend[c] > 0 => c \in Listed)
  BY <1>1 DEF IInv, ChildrenRight, Counted, Running
<1>4. /\ Used(c) + 1 \in 0 .. Traffic /\ pipe[c] - 1 \in 0 .. PipeSz
      /\ (Used(c) + 1) + (pipe[c] - 1) + pend[c] = Made(c)
  BY <1>1, <1>2, <1>3
<1>5. /\ child' \in ChildType
      /\ \A d \in Child : /\ Mode(d)' = Mode(d) /\ Life(d)' = Life(d) /\ Made(d)' = Made(d)
                          /\ Used(d)' = IF d = c THEN Used(c) + 1 ELSE Used(d)
  BY <1>1, <1>2, <1>4 DEF ChildType
<1>6. /\ pipe' \in [Child -> 0 .. PipeSz] /\ \A d \in Child : pipe'[d] = IF d = c THEN pipe[c] - 1 ELSE pipe[d]
  BY <1>1, <1>2, <1>4, CountAt DEF IInv, TypeOK
<1>7. /\ pend' \in [Child -> 0 .. BufSz] /\ eof' \subseteq Child /\ c \notin eof'
      /\ UNCHANGED <<hold, inherit, files, out>> /\ (Starting' <=> Starting)
      /\ (Starting => job'.c = job.c)
  BY <1>1, <1>3 DEF IInv, TypeOK
<1>8. Used(c)' + pipe'[c] + pend'[c] = Made(c)' /\ Used(c)' + pipe'[c] + pend'[c] <= Made(c)'
      /\ (pend'[c] > 0 => c \in Listed)
  <2>1. Used(c)' = Used(c) + 1 /\ pipe'[c] = pipe[c] - 1 /\ pend'[c] = pend[c] /\ Made(c)' = Made(c)
    BY <1>1, <1>5, <1>6
  <2>. QED BY <1>2, <1>3, <1>4, <2>1
<1>9. JobRight' /\ job' \in JobType
  BY <1>1, <1>5, JobStill
<1>10. \A d \in Child \ {c} :
         Made(d)' = Made(d) /\ Used(d)' = Used(d) /\ pipe'[d] = pipe[d] /\ pend'[d] = pend[d]
         /\ (d \in eof' <=> d \in eof)
  BY <1>1, <1>5, <1>6
<1>. QED BY <1>3, <1>5, <1>6, <1>7, <1>8, <1>9, <1>10, ByteMoves

LEMMA ChildWritesKeeps == ASSUME IInv, NEW c \in Child, ChildWrites(c) PROVE IInv'
<1>1. /\ Running(c) /\ Mode(c) = "r" /\ Made(c) < Traffic /\ pipe[c] < PipeSz
      /\ pipe' = [pipe EXCEPT ![c] = pipe[c] + 1]
      /\ child' = [child EXCEPT ![c].made = Made(c) + 1]
      /\ UNCHANGED <<hold, inherit, files, pend, eof, out, job>>
  BY DEF ChildWrites
<1>2. /\ Made(c) \in Nat /\ Used(c) \in Nat /\ pipe[c] \in Nat /\ pend[c] \in Nat
      /\ Traffic \in Nat /\ PipeSz \in Nat /\ child \in ChildType
  BY ChildFields DEF IInv
<1>3. /\ Used(c) + pipe[c] + pend[c] <= Made(c)
      /\ c \in Listed => Used(c) + pipe[c] + pend[c] = Made(c)
      /\ Life(c) # "unborn" /\ c \notin eof /\ (pend[c] > 0 => c \in Listed)
  BY <1>1 DEF IInv, ChildrenRight, Counted, Running
<1>4. /\ Made(c) + 1 \in 0 .. Traffic /\ pipe[c] + 1 \in 0 .. PipeSz
      /\ Used(c) + (pipe[c] + 1) + pend[c] <= Made(c) + 1
      /\ c \in Listed => Used(c) + (pipe[c] + 1) + pend[c] = Made(c) + 1
  BY <1>1, <1>2, <1>3
<1>5. /\ child' \in ChildType
      /\ \A d \in Child : /\ Mode(d)' = Mode(d) /\ Life(d)' = Life(d) /\ Used(d)' = Used(d)
                          /\ Made(d)' = IF d = c THEN Made(c) + 1 ELSE Made(d)
  BY <1>1, <1>2, <1>4 DEF ChildType
<1>6. /\ pipe' \in [Child -> 0 .. PipeSz] /\ \A d \in Child : pipe'[d] = IF d = c THEN pipe[c] + 1 ELSE pipe[d]
  BY <1>1, <1>2, <1>4, CountAt DEF IInv, TypeOK
<1>7. /\ pend' \in [Child -> 0 .. BufSz] /\ eof' \subseteq Child /\ c \notin eof'
      /\ UNCHANGED <<hold, inherit, files, out>> /\ (Starting' <=> Starting)
      /\ (Starting => job'.c = job.c)
  BY <1>1, <1>3 DEF IInv, TypeOK
<1>8. /\ Used(c)' + pipe'[c] + pend'[c] <= Made(c)'
      /\ c \in Listed => Used(c)' + pipe'[c] + pend'[c] = Made(c)'
      /\ pend'[c] > 0 => c \in Listed
  <2>1. Used(c)' = Used(c) /\ pipe'[c] = pipe[c] + 1 /\ pend'[c] = pend[c] /\ Made(c)' = Made(c) + 1
    BY <1>1, <1>5, <1>6
  <2>. QED BY <1>3, <1>4, <2>1
<1>9. JobRight' /\ job' \in JobType
  BY <1>1, <1>5, JobStill
<1>10. \A d \in Child \ {c} :
         Made(d)' = Made(d) /\ Used(d)' = Used(d) /\ pipe'[d] = pipe[d] /\ pend'[d] = pend[d]
         /\ (d \in eof' <=> d \in eof)
  BY <1>1, <1>5, <1>6
<1>11. Mode(c) = "r"
  BY <1>1
<1>. QED BY <1>3, <1>5, <1>6, <1>7, <1>8, <1>9, <1>10, <1>11, ByteMoves

\* A child that exits lets go of its end.
LEMMA ExitKeeps ==
  ASSUME IInv, NEW c \in Child, NEW as \in {"finished", "quit"}, Running(c), Exits(c, as),
         as = "finished" /\ Mode(c) = "w" => c \notin Listed /\ Used(c) = Made(c)
  PROVE  IInv'
<1>1. /\ child' = [child EXCEPT ![c].life = as] /\ hold' = [hold EXCEPT ![c] = {}]
      /\ UNCHANGED <<inherit, pipe, files, pend, eof, out, job>>
  BY DEF Exits
<1>2. /\ child \in ChildType /\ Listed' = Listed /\ Listed \subseteq Child /\ job \in JobType
      /\ hold \in [Child \cup {Self} -> SUBSET Handle] /\ c # Self
  BY <1>1, ChildFields DEF IInv, TypeOK, Listed
<1>3. /\ child' \in ChildType
      /\ \A d \in Child : /\ Mode(d)' = Mode(d) /\ Made(d)' = Made(d) /\ Used(d)' = Used(d)
                          /\ Life(d)' = IF d = c THEN as ELSE Life(d)
  <2>1. child \in ChildType /\ child' = [child EXCEPT ![c].life = as] /\ as \in {"running", "finished", "quit"}
    BY <1>1, <1>2
  <2>. QED BY ONLY <2>1, c \in Child, LivesOn
<1>4. /\ hold' \in [Child \cup {Self} -> SUBSET Handle] /\ hold'[Self] = hold[Self] /\ hold'[c] = {}
      /\ \A d \in Child : d # c => hold'[d] = hold[d]
  BY <1>1, <1>2
<1>5. Life(c) = "running" /\ as # "running" /\ as # "unborn"
  BY DEF Running
<1>6. TypeOK'
  BY <1>1, <1>3, <1>4 DEF IInv, TypeOK, ChildType
<1>7. HoldsRight'
  <2>1. \A d \in Child : hold'[d] = IF Running(d)' THEN {Theirs(d, Mode(d)')} ELSE {}
    <3>1. ~Running(c)' /\ \A d \in Child : d # c => (Running(d)' <=> Running(d)) /\ Mode(d)' = Mode(d)
      BY <1>3, <1>5 DEF Running
    <3>2. \A d \in Child : hold[d] = IF Running(d) THEN {Theirs(d, Mode(d))} ELSE {}
      BY DEF IInv, HoldsRight
    <3>. QED BY <1>4, <3>1, <3>2
  <2>2. Starting => job.c \in Child
    BY DEF IInv, JobRight
  <2>3. {Ours(d, Mode(d)) : d \in Listed}' = {Ours(d, Mode(d)) : d \in Listed}
    <3>1. Listed' = Listed /\ \A d \in Listed : child'[d].mode = child[d].mode
      BY <1>2, <1>3
    <3>. QED BY ONLY <3>1 DEF Ours, Mode
  <2>4. Starting' <=> Starting
    BY <1>1
  <2>5. Starting => Ends(job.c)' = Ends(job.c) /\ Theirs(job.c, Mode(job.c))' = Theirs(job.c, Mode(job.c))
    BY <1>1, <1>3, <2>2 DEF Ends, Theirs
  <2>6. \A d \in Child : Theirs(d, Mode(d))' = Theirs(d, Mode(d)')
    BY DEF Theirs
  <2>7. hold[Self] = {Ours(d, Mode(d)) : d \in Listed} \cup (IF Starting THEN Ends(job.c) ELSE {})
        /\ inherit = IF Starting THEN {Theirs(job.c, Mode(job.c))} ELSE {}
    BY DEF IInv, HoldsRight
  <2>. QED BY <1>1, <1>4, <2>1, <2>3, <2>4, <2>5, <2>6, <2>7 DEF HoldsRight
<1>8. ChildrenRight'
  <2>1. \A d \in Child : (Life(d)' = "unborn" <=> Life(d) = "unborn")
    BY <1>3, <1>5
  <2>2. Starting' <=> Starting
    BY <1>1
  <2>. SUFFICES ASSUME NEW d \in Child
                PROVE  /\ Life(d)' = "unborn" => d \notin Listed' /\ Made(d)' = 0 /\ pipe'[d] = 0
                       /\ Life(d)' # "unborn" => Mode(d)' # "none"
                       /\ Mode(d)' # "none" /\ Life(d)' = "unborn" => Starting' /\ job'.c = d
                       /\ Used(d)' + pipe'[d] + pend'[d] <= Made(d)'
                       /\ pend'[d] > 0 => d \in Listed'
    BY DEF ChildrenRight
  <2>3. /\ Life(d) = "unborn" => d \notin Listed /\ Made(d) = 0 /\ pipe[d] = 0
        /\ Life(d) # "unborn" => Mode(d) # "none"
        /\ Mode(d) # "none" /\ Life(d) = "unborn" => Starting /\ job.c = d
        /\ Used(d) + pipe[d] + pend[d] <= Made(d)
        /\ pend[d] > 0 => d \in Listed
    BY DEF IInv, ChildrenRight
  <2>4. /\ Mode(d)' = Mode(d) /\ Made(d)' = Made(d) /\ Used(d)' = Used(d) /\ pipe'[d] = pipe[d]
        /\ pend'[d] = pend[d] /\ (d \in Listed' <=> d \in Listed) /\ job'.c = job.c
    BY <1>1, <1>2, <1>3
  <2>. QED BY <2>1, <2>2, <2>3, <2>4
<1>9. Counted'
  <2>1. Running(c) /\ ~Running(c)' /\ Life(c)' # "unborn" /\ (Life(c)' = "finished" <=> as = "finished")
    BY <1>3, <1>5 DEF Running
  <2>2. \A d \in Child : d # c => (Running(d)' <=> Running(d)) /\ Life(d)' = Life(d)
    BY <1>3 DEF Running
  <2>. SUFFICES ASSUME NEW d \in Child
                PROVE  /\ (Mode(d)' = "w" /\ Running(d)') \/ (Mode(d)' = "r" /\ d \in Listed')
                            => Used(d)' + pipe'[d] + pend'[d] = Made(d)'
                       /\ Mode(d)' = "w" /\ Life(d)' = "finished"
                            => d \notin Listed' /\ Used(d)' = Made(d)'
                       /\ d \in eof' => /\ Mode(d)' = "r" /\ ~Running(d)' /\ Life(d)' # "unborn"
                                        /\ Used(d)' = Made(d)'
    BY DEF Counted
  <2>3. /\ (Mode(d) = "w" /\ Running(d)) \/ (Mode(d) = "r" /\ d \in Listed)
             => Used(d) + pipe[d] + pend[d] = Made(d)
        /\ Mode(d) = "w" /\ Life(d) = "finished" => d \notin Listed /\ Used(d) = Made(d)
        /\ d \in eof => Mode(d) = "r" /\ ~Running(d) /\ Life(d) # "unborn" /\ Used(d) = Made(d)
    BY DEF IInv, Counted
  <2>4. /\ Mode(d)' = Mode(d) /\ Made(d)' = Made(d) /\ Used(d)' = Used(d) /\ pipe'[d] = pipe[d]
        /\ pend'[d] = pend[d] /\ (d \in eof' <=> d \in eof) /\ (d \in Listed' <=> d \in Listed)
    BY <1>1, <1>2, <1>3
  <2>. HIDE DEF Running
  <2>5. CASE d = c
    BY <2>1, <2>3, <2>4, <2>5
  <2>6. CASE d # c
    BY <2>2, <2>3, <2>4, <2>6
  <2>. QED BY <2>5, <2>6
<1>10. JobRight'
  BY <1>1, <1>3, <1>5, JobStill
<1>. QED BY <1>6, <1>7, <1>8, <1>9, <1>10 DEF IInv

LEMMA ChildKeeps ==
  ASSUME IInv, NEW c \in Child, ChildStep(c) \/ ChildQuits(c)
  PROVE  IInv'
<1>1. CASE ChildReads(c)
  BY <1>1, ChildReadsKeeps
<1>2. CASE ChildWrites(c)
  BY <1>2, ChildWritesKeeps
<1>3. CASE ChildSeesEnd(c)
  <2>1. Running(c) /\ Mode(c) = "w" /\ pipe[c] = 0 /\ ~Held(<<c, "wr">>) /\ Exits(c, "finished")
    BY <1>3 DEF ChildSeesEnd
  <2>2. <<c, "wr">> = Ours(c, Mode(c))
    BY <2>1 DEF Ours
  <2>3. c \notin Listed
    BY <2>1, <2>2, Holders DEF Running
  <2>4. pend[c] = 0 /\ Used(c) \in Nat
    BY <2>3, ChildFields DEF IInv, ChildrenRight
  <2>5. Used(c) + pipe[c] + pend[c] = Made(c)
    BY <2>1 DEF IInv, Counted
  <2>6. Used(c) = Made(c)
    BY <2>1, <2>4, <2>5
  <2>. QED BY <2>1, <2>3, <2>6, ExitKeeps
<1>4. CASE ChildIsDone(c)
  <2>1. Running(c) /\ Mode(c) = "r" /\ Exits(c, "finished")
    BY <1>4 DEF ChildIsDone
  <2>. QED BY <2>1, ExitKeeps
<1>5. CASE ChildQuits(c)
  <2>1. Running(c) /\ Exits(c, "quit")
    BY <1>5 DEF ChildQuits
  <2>. QED BY <2>1, ExitKeeps
<1>. QED BY <1>1, <1>2, <1>3, <1>4, <1>5 DEF ChildStep

(* ---- steps that make or close ends ---- *)

LEMMA PopenKeeps ==
  ASSUME IInv, NEW c \in Child, NEW m \in {"r", "w"}, _popen(c, m)
  PROVE  IInv'
<1>1. /\ Idling /\ child[c] = Unborn
      /\ hold' = [hold EXCEPT ![Self] = hold[Self] \cup Ends(c)]
      /\ inherit' = inherit \cup {Theirs(c, m)}
      /\ child' = [child EXCEPT ![c].mode = m]
      /\ job' = [op |-> "popen", c |-> c, todo |-> FlushAll]
      /\ UNCHANGED <<pipe, files, pend, eof, out>>
  BY DEF _popen, Inheritable, Call, FlushBeforeSpawn, Ends
<1>2. /\ child \in ChildType /\ Listed' = Listed /\ Listed \subseteq Child
      /\ hold \in [Child \cup {Self} -> SUBSET Handle]
  BY <1>1, ChildFields DEF IInv, TypeOK, Listed
<1>3. /\ Life(c) = "unborn" /\ Mode(c) = "none" /\ c \notin Listed /\ c \notin eof /\ ~Starting
      /\ ~Running(c)
  BY <1>1 DEF Unborn, Idling, IInv, ChildrenRight, Counted, Running
<1>4. /\ child' \in ChildType
      /\ \A d \in Child : /\ Life(d)' = Life(d) /\ Made(d)' = Made(d) /\ Used(d)' = Used(d)
                          /\ Mode(d)' = IF d = c THEN m ELSE Mode(d)
  BY <1>1, <1>2 DEF ChildType
<1>5. /\ hold' \in [Child \cup {Self} -> SUBSET Handle] /\ hold'[Self] = hold[Self] \cup Ends(c)
      /\ \A d \in Child : hold'[d] = hold[d]
  BY <1>1, <1>2 DEF Ends, Handle
<1>6. /\ job' \in JobType /\ job'.op = "popen" /\ job'.c = c /\ job'.todo = FlushAll
      /\ Stdout \in ToSet(FlushAll) /\ \A d \in Child : pend[d] > 0 => d \in ToSet(FlushAll)
  <2>1. /\ FlushAll \in Seq(Child \cup {Stdout}) /\ Stdout \in ToSet(FlushAll)
        /\ \A d \in Child : pend[d] > 0 => d \in ToSet(FlushAll)
    BY FlushAllCovers
  <2>. HIDE DEF FlushAll
  <2>. QED BY <1>1, <2>1 DEF JobType
<1>7. TypeOK'
  <2>1. Theirs(c, m) \in Ends(c)
    BY DEF Theirs, Ends
  <2>. QED BY <1>1, <1>4, <1>5, <1>6, <2>1 DEF IInv, TypeOK, ChildType, JobType
<1>8. HoldsRight'
  <2>1. \A d \in Child : Running(d)' <=> Running(d)
    BY <1>4 DEF Running
  <2>2. \A d \in Child : d # c => Mode(d)' = Mode(d)
    BY <1>4
  <2>3. \A d \in Child : hold'[d] = IF Running(d)' THEN {Theirs(d, Mode(d)')} ELSE {}
    BY <1>3, <1>5, <2>1, <2>2 DEF IInv, HoldsRight
  <2>4. \A d \in Child : Theirs(d, Mode(d))' = Theirs(d, Mode(d)')
    BY DEF Theirs
  <2>5. {Ours(d, Mode(d)) : d \in Listed}' = {Ours(d, Mode(d)) : d \in Listed}
    <3>1. Listed' = Listed /\ \A d \in Listed : child'[d].mode = child[d].mode
      BY <1>2, <1>3, <1>4
    <3>. QED BY ONLY <3>1 DEF Ours, Mode
  <2>6. hold[Self] = {Ours(d, Mode(d)) : d \in Listed} /\ inherit = {}
    BY <1>3 DEF IInv, HoldsRight
  <2>7. Starting' /\ Ends(job.c)' = Ends(c) /\ Theirs(job.c, Mode(job.c))' = Theirs(c, m)
    BY <1>4, <1>6 DEF Ends, Theirs
  <2>. QED BY <1>1, <1>5, <2>3, <2>4, <2>5, <2>6, <2>7 DEF HoldsRight
<1>9. ChildrenRight' /\ Counted'
  <2>. SUFFICES ASSUME NEW d \in Child
                PROVE  /\ Life(d)' = "unborn" => d \notin Listed' /\ Made(d)' = 0 /\ pipe'[d] = 0
                       /\ Life(d)' # "unborn" => Mode(d)' # "none"
                       /\ Mode(d)' # "none" /\ Life(d)' = "unborn" => Starting' /\ job'.c = d
                       /\ Used(d)' + pipe'[d] + pend'[d] <= Made(d)'
                       /\ pend'[d] > 0 => d \in Listed'
                       /\ (Mode(d)' = "w" /\ Running(d)') \/ (Mode(d)' = "r" /\ d \in Listed')
                            => Used(d)' + pipe'[d] + pend'[d] = Made(d)'
                       /\ Mode(d)' = "w" /\ Life(d)' = "finished"
                            => d \notin Listed' /\ Used(d)' = Made(d)'
                       /\ d \in eof' => /\ Mode(d)' = "r" /\ ~Running(d)' /\ Life(d)' # "unborn"
                                        /\ Used(d)' = Made(d)'
    BY DEF ChildrenRight, Counted
  <2>1. /\ Life(d) = "unborn" => d \notin Listed /\ Made(d) = 0 /\ pipe[d] = 0
        /\ Life(d) # "unborn" => Mode(d) # "none"
        /\ Mode(d) # "none" => Life(d) # "unborn"
        /\ Used(d) + pipe[d] + pend[d] <= Made(d)
        /\ pend[d] > 0 => d \in Listed
    BY <1>3 DEF IInv, ChildrenRight
  <2>2. /\ (Mode(d) = "w" /\ Running(d)) \/ (Mode(d) = "r" /\ d \in Listed)
             => Used(d) + pipe[d] + pend[d] = Made(d)
        /\ Mode(d) = "w" /\ Life(d) = "finished" => d \notin Listed /\ Used(d) = Made(d)
        /\ d \in eof => Mode(d) = "r" /\ ~Running(d) /\ Life(d) # "unborn" /\ Used(d) = Made(d)
    BY DEF IInv, Counted
  <2>3. /\ Life(d)' = Life(d) /\ Made(d)' = Made(d) /\ Used(d)' = Used(d) /\ pipe'[d] = pipe[d]
        /\ pend'[d] = pend[d] /\ (d \in eof' <=> d \in eof) /\ (d \in Listed' <=> d \in Listed)
        /\ Mode(d)' = (IF d = c THEN m ELSE Mode(d)) /\ Starting' /\ job'.c = c
    BY <1>1, <1>2, <1>4, <1>6
  <2>4. Running(d)' <=> Running(d)
    BY <2>3 DEF Running
  <2>. HIDE DEF Running
  <2>5. CASE d = c
    BY <1>3, <2>1, <2>2, <2>3, <2>4, <2>5
  <2>6. CASE d # c
    BY <2>1, <2>2, <2>3, <2>4, <2>6
  <2>. QED BY <2>5, <2>6
<1>10. JobRight'
  <2>1. Mode(c)' # "none" /\ Life(c)' = "unborn"
    BY <1>3, <1>4
  <2>2. Covered'
    <3>1. job'.todo = FlushAll /\ out' = out /\ pend' = pend
      BY <1>1, <1>6
    <3>. QED BY <1>6, <3>1 DEF Covered
  <2>. HIDE DEF Covered
  <2>. QED BY <1>6, <2>1, <2>2 DEF JobRight
<1>. QED BY <1>7, <1>8, <1>9, <1>10 DEF IInv

\* The process is created: the child has its end, and the program keeps its
\* own if the stream is listed.
LEMMA CreateProcessKeeps ==
  ASSUME IInv, NEW c \in Child, NEW m \in {"r", "w"}, CreateProcess(c, m)
  PROVE  IInv'
<1>1. /\ Ready("popen") /\ job.c = c /\ Mode(c) = m
      /\ child' = [child EXCEPT ![c].life = "running"]
      /\ inherit' = inherit \cap hold'[Self]
      /\ UNCHANGED <<pipe, pend, eof, out>>
  BY DEF CreateProcess
<1>2. /\ child \in ChildType /\ Listed \subseteq Child /\ c # Self
      /\ hold \in [Child \cup {Self} -> SUBSET Handle]
      /\ files \in Seq(Child) /\ IsInjective(files)
  BY ChildFields DEF IInv, TypeOK
<1>3. /\ Starting /\ Life(c) = "unborn" /\ c \notin Listed /\ Made(c) = 0 /\ pipe[c] = 0 /\ c \notin eof
      /\ hold[Self] = {Ours(d, Mode(d)) : d \in Listed} \cup Ends(c) /\ inherit = {Theirs(c, m)}
  BY <1>1 DEF Ready, IInv, HoldsRight, ChildrenRight, Counted, JobRight
<1>4. /\ child' \in ChildType
      /\ \A d \in Child : /\ Mode(d)' = Mode(d) /\ Made(d)' = Made(d) /\ Used(d)' = Used(d)
                          /\ Life(d)' = IF d = c THEN "running" ELSE Life(d)
  <2>1. /\ child \in ChildType /\ child' = [child EXCEPT ![c].life = "running"]
        /\ "running" \in {"running", "finished", "quit"}
    BY <1>1, <1>2
  <2>. QED BY ONLY <2>1, c \in Child, LivesOn
<1>5. \A d \in Listed : Mode(d) \in {"r", "w"} /\ d # c /\ Theirs(c, m) # Ours(d, Mode(d))
                        /\ Ours(c, m) # Ours(d, Mode(d))
  <2>1. \A d \in Listed : Mode(d) \in {"r", "w"} /\ d # c
    BY <1>2, <1>3, ChildFields DEF IInv, ChildrenRight
  <2>2. ASSUME NEW d \in Listed PROVE Theirs(c, m) # Ours(d, Mode(d)) /\ Ours(c, m) # Ours(d, Mode(d))
    <3>. DEFINE n == Mode(d)
    <3>1. n \in {"r", "w"} /\ d # c
      BY <2>1
    <3>. HIDE DEF n
    <3>2. Theirs(c, m) # Ours(d, n) /\ Ours(c, m) # Ours(d, n)
      BY ONLY <3>1, m \in {"r", "w"}, EndsDiffer
    <3>. QED BY <3>2 DEF n
  <2>. QED BY <2>1, <2>2
<1>6. Ends(c) = {Ours(c, m), Theirs(c, m)} /\ Ours(c, m) # Theirs(c, m)
  BY EndsDiffer
<1>7. hold[Self] \cap inherit = {Theirs(c, m)}
  BY <1>3, <1>6
<1>8. /\ hold'[c] = {Theirs(c, m)}
      /\ \A d \in Child \ {c} : hold'[d] = hold[d]
      /\ hold' \in [Child \cup {Self} -> SUBSET Handle]
      /\ Listed' \subseteq Child /\ files' \in Seq(Child) /\ IsInjective(files')
      /\ job' \in JobType /\ JobRight' /\ ~Starting'
      /\ hold'[Self] = {Ours(d, Mode(d)) : d \in Listed'}
      /\ Listed' = Listed \cup {c} \/ Listed' = Listed
  <2>1. CASE /\ hold' = [hold EXCEPT ![c] = hold[Self] \cap inherit, ![Self] = KeptAfterSpawn(c, m)]
             /\ files' = <<c>> \o files
             /\ Return
    <3>1. files' \in Seq(Child) /\ Listed' = {c} \cup Listed /\ IsInjective(files')
      BY <1>2, <1>3, <2>1, ConsElements, Linked DEF Listed
    <3>2. /\ hold' = [hold EXCEPT ![c] = {Theirs(c, m)}, ![Self] = hold[Self] \ {Theirs(c, m)}]
          /\ Theirs(c, m) \in Handle
      BY <1>7, <2>1 DEF KeptAfterSpawn, Theirs, Handle
    <3>3. /\ hold'[c] = {Theirs(c, m)} /\ hold'[Self] = hold[Self] \ {Theirs(c, m)}
          /\ \A d \in Child \ {c} : hold'[d] = hold[d]
          /\ hold' \in [Child \cup {Self} -> SUBSET Handle]
      BY <1>2, <3>2
    <3>4. hold'[Self] = {Ours(d, Mode(d)) : d \in Listed} \cup {Ours(c, m)}
      BY <1>3, <1>5, <1>6, <3>3
    <3>5. {Ours(d, Mode(d)) : d \in Listed} \cup {Ours(c, m)} = {Ours(d, Mode(d)) : d \in Listed'}
      BY <1>1, <3>1
    <3>6. job' \in JobType /\ JobRight' /\ ~Starting'
      BY <2>1, Returns
    <3>. QED BY <1>2, <3>1, <3>3, <3>4, <3>5, <3>6
  <2>2. CASE /\ hold' = [hold EXCEPT ![c] = hold[Self] \cap inherit,
                                     ![Self] = KeptAfterSpawn(c, m) \ {Ours(c, m)}]
             /\ Call("wait", c, << >>)
             /\ UNCHANGED files
    <3>1. files' \in Seq(Child) /\ Listed' = Listed /\ IsInjective(files')
      BY <1>2, <2>2 DEF Listed
    <3>2. /\ hold' = [hold EXCEPT ![c] = {Theirs(c, m)},
                                  ![Self] = (hold[Self] \ {Theirs(c, m)}) \ {Ours(c, m)}]
          /\ Theirs(c, m) \in Handle
      BY <1>7, <2>2 DEF KeptAfterSpawn, Theirs, Handle
    <3>3. /\ hold'[c] = {Theirs(c, m)} /\ hold'[Self] = (hold[Self] \ {Theirs(c, m)}) \ {Ours(c, m)}
          /\ \A d \in Child \ {c} : hold'[d] = hold[d]
          /\ hold' \in [Child \cup {Self} -> SUBSET Handle]
      BY <1>2, <3>2
    <3>4. hold'[Self] = {Ours(d, Mode(d)) : d \in Listed}
      BY <1>3, <1>5, <1>6, <3>3
    <3>5. job'.op = "wait" /\ job'.c = c /\ job'.todo = << >> /\ job' \in JobType
      BY <2>2, EmptySeq DEF Call, JobType
    <3>6. JobRight' /\ ~Starting'
      BY <3>5 DEF JobRight
    <3>. QED BY <1>2, <3>1, <3>3, <3>4, <3>5, <3>6
  <2>. QED BY <1>1, <2>1, <2>2 DEF CreateProcess
<1>9. inherit' = {}
  <2>1. Theirs(c, m) \notin hold'[Self]
    <3>1. \A d \in Listed' : Theirs(c, m) # Ours(d, Mode(d))
      BY <1>1, <1>5, <1>6, <1>8
    <3>. QED BY <1>8, <3>1
  <2>. QED BY <1>1, <1>3, <2>1
<1>10. TypeOK'
  BY <1>1, <1>4, <1>8, <1>9 DEF IInv, TypeOK, ChildType, JobType
<1>11. HoldsRight'
  <2>1. \A d \in Child : hold'[d] = IF Running(d)' THEN {Theirs(d, Mode(d)')} ELSE {}
    <3>1. Running(c)' /\ Mode(c)' = m /\ \A d \in Child \ {c} : (Running(d)' <=> Running(d)) /\ Mode(d)' = Mode(d)
      BY <1>1, <1>4 DEF Running
    <3>2. \A d \in Child : hold[d] = IF Running(d) THEN {Theirs(d, Mode(d))} ELSE {}
      BY DEF IInv, HoldsRight
    <3>. QED BY <1>8, <3>1, <3>2
  <2>2. \A d \in Child : Theirs(d, Mode(d))' = Theirs(d, Mode(d)')
    BY DEF Theirs
  <2>3. {Ours(d, Mode(d)) : d \in Listed}' = {Ours(d, Mode(d)) : d \in Listed'}
    <3>1. \A d \in Listed' : child'[d].mode = child[d].mode
      BY <1>4, <1>8
    <3>. QED BY ONLY <3>1 DEF Ours, Mode
  <2>. QED BY <1>8, <1>9, <2>1, <2>2, <2>3 DEF HoldsRight
<1>12. ChildrenRight' /\ Counted'
  <2>. SUFFICES ASSUME NEW d \in Child
                PROVE  /\ Life(d)' = "unborn" => d \notin Listed' /\ Made(d)' = 0 /\ pipe'[d] = 0
                       /\ Life(d)' # "unborn" => Mode(d)' # "none"
                       /\ Mode(d)' # "none" /\ Life(d)' = "unborn" => Starting' /\ job'.c = d
                       /\ Used(d)' + pipe'[d] + pend'[d] <= Made(d)'
                       /\ pend'[d] > 0 => d \in Listed'
                       /\ (Mode(d)' = "w" /\ Running(d)') \/ (Mode(d)' = "r" /\ d \in Listed')
                            => Used(d)' + pipe'[d] + pend'[d] = Made(d)'
                       /\ Mode(d)' = "w" /\ Life(d)' = "finished"
                            => d \notin Listed' /\ Used(d)' = Made(d)'
                       /\ d \in eof' => /\ Mode(d)' = "r" /\ ~Running(d)' /\ Life(d)' # "unborn"
                                        /\ Used(d)' = Made(d)'
    BY DEF ChildrenRight, Counted
  <2>1. /\ Life(d) = "unborn" => d \notin Listed /\ Made(d) = 0 /\ pipe[d] = 0
        /\ Life(d) # "unborn" => Mode(d) # "none"
        /\ Mode(d) # "none" /\ Life(d) = "unborn" => d = c
        /\ Used(d) + pipe[d] + pend[d] <= Made(d)
        /\ pend[d] > 0 => d \in Listed
        /\ Used(d) \in Nat /\ pipe[d] \in Nat /\ pend[d] \in Nat /\ Made(d) \in Nat
    BY <1>1, ChildFields DEF IInv, ChildrenRight
  <2>2. /\ (Mode(d) = "w" /\ Running(d)) \/ (Mode(d) = "r" /\ d \in Listed)
             => Used(d) + pipe[d] + pend[d] = Made(d)
        /\ Mode(d) = "w" /\ Life(d) = "finished" => d \notin Listed /\ Used(d) = Made(d)
        /\ d \in eof => Mode(d) = "r" /\ ~Running(d) /\ Life(d) # "unborn" /\ Used(d) = Made(d)
    BY DEF IInv, Counted
  <2>3. /\ Life(d)' = (IF d = c THEN "running" ELSE Life(d)) /\ Made(d)' = Made(d) /\ Used(d)' = Used(d)
        /\ pipe'[d] = pipe[d] /\ pend'[d] = pend[d] /\ (d \in eof' <=> d \in eof)
        /\ (d \in Listed => d \in Listed') /\ (d # c => (d \in Listed' <=> d \in Listed))
        /\ Mode(d)' = Mode(d)
    BY <1>1, <1>4, <1>8
  <2>4. d # c => (Running(d)' <=> Running(d))
    BY <2>3 DEF Running
  <2>5. d = c => Used(d) + pipe[d] + pend[d] = Made(d) /\ Mode(d) # "none" /\ Life(d)' = "running"
                 /\ d \notin eof
    <3>1. \A u, p, q \in Nat : u + p + q <= 0 => u + p + q = 0
      OBVIOUS
    <3>. QED BY <1>1, <1>3, <2>1, <2>3, <3>1
  <2>. HIDE DEF Running
  <2>6. CASE d = c
    BY <2>1, <2>2, <2>3, <2>5, <2>6
  <2>7. CASE d # c
    BY <2>1, <2>2, <2>3, <2>4, <2>7
  <2>. QED BY <2>6, <2>7
<1>. QED BY <1>8, <1>10, <1>11, <1>12 DEF IInv

\* The process cannot be created: both ends are closed.
LEMMA CreateProcessFailsKeeps ==
  ASSUME IInv, NEW c \in Child, CreateProcess_fails(c)
  PROVE  IInv'
<1>1. /\ Ready("popen") /\ job.c = c
      /\ child' = [child EXCEPT ![c] = Unborn]
      /\ hold' = [hold EXCEPT ![Self] = hold[Self] \ ({c} \X {"rd", "wr"})]
      /\ inherit' = inherit \ ({c} \X {"rd", "wr"})
      /\ Return
      /\ UNCHANGED <<pipe, files, pend, eof, out>>
  BY DEF CreateProcess_fails
<1>2. /\ child \in ChildType /\ Listed \subseteq Child /\ Listed' = Listed /\ c # Self
      /\ hold \in [Child \cup {Self} -> SUBSET Handle]
  BY <1>1, ChildFields DEF IInv, TypeOK, Listed
<1>. DEFINE m == Mode(c)
<1>3. /\ Starting /\ Life(c) = "unborn" /\ c \notin Listed /\ Made(c) = 0 /\ pipe[c] = 0 /\ c \notin eof
      /\ hold[Self] = {Ours(d, Mode(d)) : d \in Listed} \cup Ends(c) /\ inherit = {Theirs(c, m)}
      /\ m \in {"r", "w"}
  BY <1>1, ChildFields DEF Ready, IInv, HoldsRight, ChildrenRight, Counted, JobRight
<1>4. Used(c) = 0 /\ pend[c] = 0
  <2>1. /\ Used(c) + pipe[c] + pend[c] <= Made(c)
        /\ Used(c) \in Nat /\ pipe[c] \in Nat /\ pend[c] \in Nat
    BY ChildFields DEF IInv, ChildrenRight
  <2>. HIDE DEF Used, Made
  <2>. QED BY <1>3, <2>1
<1>5. /\ child' \in ChildType
      /\ \A d \in Child : /\ Mode(d)' = IF d = c THEN "none" ELSE Mode(d)
                          /\ Made(d)' = Made(d) /\ Used(d)' = Used(d) /\ Life(d)' = Life(d)
  <2>1. Unborn \in [mode : {"none", "r", "w"}, life : {"unborn", "running", "finished", "quit"},
                    made : 0 .. Traffic, used : 0 .. Traffic]
    BY DEF Unborn
  <2>2. child' \in ChildType
    BY <1>1, <1>2, <2>1 DEF ChildType
  <2>3. \A d \in Child : child'[d] = IF d = c THEN Unborn ELSE child[d]
    BY <1>1, <1>2 DEF ChildType
  <2>4. Unborn.mode = "none" /\ Unborn.life = "unborn" /\ Unborn.made = 0 /\ Unborn.used = 0
    BY DEF Unborn
  <2>. HIDE DEF Unborn
  <2>. QED BY <1>3, <1>4, <2>2, <2>3, <2>4
<1>6. Ends(c) = {c} \X {"rd", "wr"} /\ Ends(c) = {Ours(c, m), Theirs(c, m)}
  <2>1. Ends(c) = {c} \X {"rd", "wr"}
    BY DEF Ends
  <2>2. m \in {"r", "w"}
    BY <1>3
  <2>. HIDE DEF m
  <2>3. Ends(c) = {Ours(c, m), Theirs(c, m)}
    BY ONLY <2>2, EndsDiffer
  <2>. QED BY <2>1, <2>3 DEF m
<1>7. \A d \in Listed : Ours(d, Mode(d)) \notin Ends(c)
  <2>1. \A d \in Listed : Mode(d) \in {"r", "w"} /\ d # c
    BY <1>2, <1>3, ChildFields DEF IInv, ChildrenRight
  <2>. HIDE DEF m
  <2>2. ASSUME NEW d \in Listed PROVE Ours(d, Mode(d)) # Ours(c, m) /\ Ours(d, Mode(d)) # Theirs(c, m)
    <3>. DEFINE n == Mode(d)
    <3>1. n \in {"r", "w"} /\ d # c
      BY <2>1
    <3>. HIDE DEF n
    <3>2. m \in {"r", "w"}
      BY <1>3
    <3>3. Ours(c, m) # Ours(d, n) /\ Ours(d, n) # Theirs(c, m)
      BY ONLY <3>1, <3>2, EndsDiffer
    <3>. QED BY <3>3 DEF n
  <2>. QED BY <1>6, <2>2
<1>8. /\ hold' \in [Child \cup {Self} -> SUBSET Handle] /\ hold'[Self] = hold[Self] \ Ends(c)
      /\ \A d \in Child : hold'[d] = hold[d]
  BY <1>1, <1>2, <1>6
<1>9. hold'[Self] = {Ours(d, Mode(d)) : d \in Listed} /\ inherit' = {}
  BY <1>1, <1>3, <1>6, <1>7, <1>8
<1>10. job' \in JobType /\ JobRight' /\ ~Starting'
  BY <1>1, Returns
<1>11. TypeOK'
  BY <1>1, <1>5, <1>8, <1>9, <1>10 DEF IInv, TypeOK, ChildType, JobType
<1>12. HoldsRight'
  <2>1. \A d \in Child : hold'[d] = IF Running(d)' THEN {Theirs(d, Mode(d)')} ELSE {}
    <3>1. ~Running(c) /\ ~Running(c)'
          /\ \A d \in Child \ {c} : (Running(d)' <=> Running(d)) /\ Mode(d)' = Mode(d)
      BY <1>3, <1>5 DEF Running
    <3>2. \A d \in Child : hold[d] = IF Running(d) THEN {Theirs(d, Mode(d))} ELSE {}
      BY DEF IInv, HoldsRight
    <3>. QED BY <1>8, <3>1, <3>2
  <2>2. \A d \in Child : Theirs(d, Mode(d))' = Theirs(d, Mode(d)')
    BY DEF Theirs
  <2>3. {Ours(d, Mode(d)) : d \in Listed}' = {Ours(d, Mode(d)) : d \in Listed}
    <3>1. Listed' = Listed /\ \A d \in Listed : child'[d].mode = child[d].mode
      BY <1>2, <1>3, <1>5
    <3>. QED BY ONLY <3>1 DEF Ours, Mode
  <2>. QED BY <1>9, <1>10, <2>1, <2>2, <2>3 DEF HoldsRight
<1>13. ChildrenRight' /\ Counted'
  <2>. SUFFICES ASSUME NEW d \in Child
                PROVE  /\ Life(d)' = "unborn" => d \notin Listed' /\ Made(d)' = 0 /\ pipe'[d] = 0
                       /\ Life(d)' # "unborn" => Mode(d)' # "none"
                       /\ Mode(d)' # "none" /\ Life(d)' = "unborn" => Starting' /\ job'.c = d
                       /\ Used(d)' + pipe'[d] + pend'[d] <= Made(d)'
                       /\ pend'[d] > 0 => d \in Listed'
                       /\ (Mode(d)' = "w" /\ Running(d)') \/ (Mode(d)' = "r" /\ d \in Listed')
                            => Used(d)' + pipe'[d] + pend'[d] = Made(d)'
                       /\ Mode(d)' = "w" /\ Life(d)' = "finished"
                            => d \notin Listed' /\ Used(d)' = Made(d)'
                       /\ d \in eof' => /\ Mode(d)' = "r" /\ ~Running(d)' /\ Life(d)' # "unborn"
                                        /\ Used(d)' = Made(d)'
    BY DEF ChildrenRight, Counted
  <2>1. /\ Life(d) = "unborn" => d \notin Listed /\ Made(d) = 0 /\ pipe[d] = 0
        /\ Life(d) # "unborn" => Mode(d) # "none"
        /\ Mode(d) # "none" /\ Life(d) = "unborn" => d = c
        /\ Used(d) + pipe[d] + pend[d] <= Made(d)
        /\ pend[d] > 0 => d \in Listed
    BY <1>1 DEF IInv, ChildrenRight
  <2>2. /\ (Mode(d) = "w" /\ Running(d)) \/ (Mode(d) = "r" /\ d \in Listed)
             => Used(d) + pipe[d] + pend[d] = Made(d)
        /\ Mode(d) = "w" /\ Life(d) = "finished" => d \notin Listed /\ Used(d) = Made(d)
        /\ d \in eof => Mode(d) = "r" /\ ~Running(d) /\ Life(d) # "unborn" /\ Used(d) = Made(d)
    BY DEF IInv, Counted
  <2>3. /\ Life(d)' = Life(d) /\ Made(d)' = Made(d) /\ Used(d)' = Used(d)
        /\ pipe'[d] = pipe[d] /\ pend'[d] = pend[d] /\ (d \in eof' <=> d \in eof)
        /\ (d \in Listed' <=> d \in Listed)
        /\ Mode(d)' = IF d = c THEN "none" ELSE Mode(d)
    BY <1>1, <1>2, <1>5
  <2>4. Running(d)' <=> Running(d)
    BY <2>3 DEF Running
  <2>5. d = c => Life(d) = "unborn" /\ d \notin Listed /\ d \notin eof /\ ~Running(d)
    BY <1>3 DEF Running
  <2>. HIDE DEF Running
  <2>6. CASE d = c
    BY <2>1, <2>2, <2>3, <2>4, <2>5, <2>6
  <2>7. CASE d # c
    BY <2>1, <2>2, <2>3, <2>4, <2>7
  <2>. QED BY <2>6, <2>7
<1>. QED BY <1>10, <1>11, <1>12, <1>13 DEF IInv

\* The flushed stream of c is closed.
LEMMA CloseHandleKeeps == ASSUME IInv, CloseHandle PROVE IInv'
<1>. SUFFICES ASSUME NEW c, c = job.c PROVE IInv'
  OBVIOUS
<1>. DEFINE m == Mode(c)
<1>1. /\ Ready("pclose")
      /\ hold' = [hold EXCEPT ![Self] = hold[Self] \ {Ours(c, m)}]
      /\ pend' = [pend EXCEPT ![c] = 0]
      /\ files' = Unlinked(c)
      /\ Call("wait", c, << >>)
      /\ UNCHANGED <<child, inherit, pipe, eof, out>>
  BY DEF CloseHandle
<1>2. /\ child \in ChildType /\ Listed \subseteq Child
      /\ hold \in [Child \cup {Self} -> SUBSET Handle]
      /\ files \in Seq(Child) /\ IsInjective(files) /\ pend \in [Child -> 0 .. BufSz]
  BY ChildFields DEF IInv, TypeOK
<1>3. /\ c \in Child /\ c \in Listed /\ job.todo = << >> /\ ~Starting
      /\ (Mode(c) = "w" /\ pend[c] > 0 => c \in ToSet(job.todo))
  BY <1>1 DEF Ready, Flushing, IInv, JobRight
<1>4. Mode(c) = "w" => pend[c] = 0
  <2>1. pend[c] \in Nat
    BY <1>3, ChildFields DEF IInv
  <2>2. c \notin ToSet(<< >>)
    BY DEF ToSet
  <2>. QED BY <1>3, <2>1, <2>2
<1>5. /\ files' \in Seq(Child) /\ IsInjective(files') /\ Listed' = Listed \ {c}
  BY <1>1, <1>2, <1>3, UnlinkedElements DEF Listed
<1>6. \A d \in Listed : Mode(d) \in {"r", "w"}
  BY <1>2, ChildFields DEF IInv, ChildrenRight
<1>7. /\ hold' \in [Child \cup {Self} -> SUBSET Handle] /\ hold'[Self] = hold[Self] \ {Ours(c, m)}
      /\ \A d \in Child : hold'[d] = hold[d]
  <2>1. Self \notin Child
    OBVIOUS
  <2>. QED BY <1>1, <1>2, <2>1
<1>8. hold[Self] = {Ours(d, Mode(d)) : d \in Listed} /\ inherit = {}
  BY <1>3 DEF IInv, HoldsRight
<1>9. hold'[Self] = {Ours(d, Mode(d)) : d \in Listed'}
  <2>1. ASSUME NEW d \in Listed PROVE Ours(d, Mode(d)) = Ours(c, m) <=> d = c
    <3>1. m \in {"r", "w"} /\ Mode(d) \in {"r", "w"}
      BY <1>3, <1>6
    <3>2. \A k \in {"r", "w"}, n \in {"r", "w"} : Ours(d, k) = Ours(c, n) => d = c
      BY ONLY EndsDiffer
    <3>. QED BY <3>1, <3>2
  <2>2. {Ours(d, Mode(d)) : d \in Listed} \ {Ours(c, m)} = {Ours(d, Mode(d)) : d \in Listed \ {c}}
    BY ONLY <1>3, <2>1
  <2>3. {Ours(d, Mode(d)) : d \in Listed'} = {Ours(d, Mode(d)) : d \in Listed \ {c}}
    BY <1>1, <1>5
  <2>. QED BY <1>7, <1>8, <2>2, <2>3
<1>10. job' \in JobType /\ JobRight' /\ ~Starting'
  <2>1. job'.op = "wait" /\ job'.c = c /\ job'.todo = << >> /\ job' \in JobType
    BY <1>1, <1>3, EmptySeq DEF Call, JobType
  <2>. QED BY <1>3, <2>1 DEF JobRight
<1>11. /\ pend' \in [Child -> 0 .. BufSz]
       /\ \A d \in Child : pend'[d] = IF d = c THEN 0 ELSE pend[d]
  BY <1>1, <1>2, <1>3, CountAt
<1>12. TypeOK'
  BY <1>1, <1>5, <1>7, <1>8, <1>10, <1>11 DEF IInv, TypeOK, JobType
<1>13. HoldsRight'
  <2>1. \A d \in Child : hold'[d] = IF Running(d)' THEN {Theirs(d, Mode(d))'} ELSE {}
    BY <1>1, <1>7 DEF IInv, HoldsRight, Running, Theirs
  <2>2. {Ours(d, Mode(d)) : d \in Listed}' = {Ours(d, Mode(d)) : d \in Listed'}
    BY <1>1 DEF Ours
  <2>. QED BY <1>1, <1>8, <1>9, <1>10, <2>1, <2>2 DEF HoldsRight
<1>14. ChildrenRight' /\ Counted'
  <2>. SUFFICES ASSUME NEW d \in Child
                PROVE  /\ Life(d)' = "unborn" => d \notin Listed' /\ Made(d)' = 0 /\ pipe'[d] = 0
                       /\ Life(d)' # "unborn" => Mode(d)' # "none"
                       /\ Mode(d)' # "none" /\ Life(d)' = "unborn" => Starting' /\ job'.c = d
                       /\ Used(d)' + pipe'[d] + pend'[d] <= Made(d)'
                       /\ pend'[d] > 0 => d \in Listed'
                       /\ (Mode(d)' = "w" /\ Running(d)') \/ (Mode(d)' = "r" /\ d \in Listed')
                            => Used(d)' + pipe'[d] + pend'[d] = Made(d)'
                       /\ Mode(d)' = "w" /\ Life(d)' = "finished"
                            => d \notin Listed' /\ Used(d)' = Made(d)'
                       /\ d \in eof' => /\ Mode(d)' = "r" /\ ~Running(d)' /\ Life(d)' # "unborn"
                                        /\ Used(d)' = Made(d)'
    BY DEF ChildrenRight, Counted
  <2>1. /\ Life(d) = "unborn" => d \notin Listed /\ Made(d) = 0 /\ pipe[d] = 0
        /\ Life(d) # "unborn" => Mode(d) # "none"
        /\ Mode(d) # "none" => Life(d) # "unborn"
        /\ Used(d) + pipe[d] + pend[d] <= Made(d)
        /\ pend[d] > 0 => d \in Listed
        /\ Used(d) \in Nat /\ pipe[d] \in Nat /\ pend[d] \in Nat /\ Made(d) \in Nat
    BY <1>3, ChildFields DEF IInv, ChildrenRight
  <2>2. /\ (Mode(d) = "w" /\ Running(d)) \/ (Mode(d) = "r" /\ d \in Listed)
             => Used(d) + pipe[d] + pend[d] = Made(d)
        /\ Mode(d) = "w" /\ Life(d) = "finished" => d \notin Listed /\ Used(d) = Made(d)
        /\ d \in eof => Mode(d) = "r" /\ ~Running(d) /\ Life(d) # "unborn" /\ Used(d) = Made(d)
    BY DEF IInv, Counted
  <2>3. /\ Mode(d)' = Mode(d) /\ Life(d)' = Life(d) /\ Made(d)' = Made(d) /\ Used(d)' = Used(d)
        /\ pipe'[d] = pipe[d] /\ (d \in eof' <=> d \in eof) /\ pend'[d] = (IF d = c THEN 0 ELSE pend[d])
        /\ (d \in Listed' <=> d \in Listed /\ d # c) /\ (Running(d)' <=> Running(d))
    BY <1>1, <1>5, <1>11 DEF Running
  <2>. HIDE DEF Running, Mode, Life, Made, Used
  <2>4. CASE d = c
    BY <1>4, <2>1, <2>2, <2>3, <2>4
  <2>5. CASE d # c
    BY <2>1, <2>2, <2>3, <2>5
  <2>. QED BY <2>4, <2>5
<1>. QED BY <1>10, <1>12, <1>13, <1>14 DEF IInv

\* When a call that flushes everything has flushed, nothing is pending.
LEMMA NothingPends ==
  ASSUME IInv, Ready("popen") \/ Ready("exit")
  PROVE  out = 0 /\ \A c \in Child : Mode(c) = "w" => pend[c] = 0
<1>1. Covered /\ ToSet(job.todo) = {}
  BY DEF Ready, Flushing, IInv, JobRight, ToSet
<1>2. out \in Nat /\ \A c \in Child : pend[c] \in Nat
  BY ChildFields DEF IInv, TypeOK
<1>. QED BY <1>1, <1>2 DEF Covered

\* The program ends: it lets go of everything.
LEMMA TerminateKeeps == ASSUME IInv, TerminateProcess PROVE IInv'
<1>1. /\ Ready("exit")
      /\ hold' = [hold EXCEPT ![Self] = {}] /\ inherit' = {}
      /\ files' = << >> /\ pend' = [c \in Child |-> 0] /\ out' = 0
      /\ Call("gone", Nobody, << >>)
      /\ UNCHANGED <<child, pipe, eof>>
  BY DEF TerminateProcess
<1>2. /\ child \in ChildType /\ Listed' = {} /\ files' \in Seq(Child) /\ IsInjective(files')
      /\ hold \in [Child \cup {Self} -> SUBSET Handle] /\ Self \notin Child
  BY <1>1, ChildFields DEF IInv, TypeOK, Listed, ToSet, IsInjective
<1>3. /\ hold' \in [Child \cup {Self} -> SUBSET Handle] /\ hold'[Self] = {}
      /\ \A d \in Child : hold'[d] = hold[d]
  BY <1>1, <1>2
<1>4. job' \in JobType /\ JobRight' /\ ~Starting' /\ ~Starting
  <2>1. job'.op = "gone" /\ job'.c = Nobody /\ job'.todo = << >> /\ job' \in JobType
    BY <1>1, EmptySeq DEF Call, JobType
  <2>. QED BY <1>1, <2>1 DEF JobRight, Ready
<1>5. TypeOK'
  <2>1. pend' \in [Child -> 0 .. BufSz] /\ out' \in 0 .. BufSz /\ inherit' \subseteq hold'[Self]
    BY <1>1
  <2>2. child' \in ChildType /\ eof' \subseteq Child /\ pipe' \in [Child -> 0 .. PipeSz]
    BY <1>1, <1>2 DEF IInv, TypeOK
  <2>. QED BY ONLY <1>2, <1>3, <1>4, <2>1, <2>2 DEF TypeOK, ChildType, JobType
<1>6. HoldsRight'
  <2>1. \A d \in Child : hold'[d] = IF Running(d)' THEN {Theirs(d, Mode(d))'} ELSE {}
    BY <1>1, <1>3 DEF IInv, HoldsRight, Running, Theirs
  <2>. QED BY <1>1, <1>2, <1>3, <1>4, <2>1 DEF HoldsRight
<1>7. ChildrenRight' /\ Counted'
  <2>. SUFFICES ASSUME NEW d \in Child
                PROVE  /\ Life(d)' = "unborn" => d \notin Listed' /\ Made(d)' = 0 /\ pipe'[d] = 0
                       /\ Life(d)' # "unborn" => Mode(d)' # "none"
                       /\ Mode(d)' # "none" /\ Life(d)' = "unborn" => Starting' /\ job'.c = d
                       /\ Used(d)' + pipe'[d] + pend'[d] <= Made(d)'
                       /\ pend'[d] > 0 => d \in Listed'
                       /\ (Mode(d)' = "w" /\ Running(d)') \/ (Mode(d)' = "r" /\ d \in Listed')
                            => Used(d)' + pipe'[d] + pend'[d] = Made(d)'
                       /\ Mode(d)' = "w" /\ Life(d)' = "finished"
                            => d \notin Listed' /\ Used(d)' = Made(d)'
                       /\ d \in eof' => /\ Mode(d)' = "r" /\ ~Running(d)' /\ Life(d)' # "unborn"
                                        /\ Used(d)' = Made(d)'
    BY DEF ChildrenRight, Counted
  <2>1. /\ Life(d) = "unborn" => Made(d) = 0 /\ pipe[d] = 0
        /\ Life(d) # "unborn" => Mode(d) # "none"
        /\ Mode(d) # "none" => Life(d) # "unborn"
        /\ Used(d) + pipe[d] + pend[d] <= Made(d)
        /\ Used(d) \in Nat /\ pipe[d] \in Nat /\ pend[d] \in Nat /\ Made(d) \in Nat
    BY <1>4, ChildFields DEF IInv, ChildrenRight
  <2>2. /\ Mode(d) = "w" /\ Running(d) => Used(d) + pipe[d] + pend[d] = Made(d)
        /\ Mode(d) = "w" /\ Life(d) = "finished" => Used(d) = Made(d)
        /\ d \in eof => Mode(d) = "r" /\ ~Running(d) /\ Life(d) # "unborn" /\ Used(d) = Made(d)
    BY DEF IInv, Counted
  <2>3. Mode(d) = "w" => pend[d] = 0
    BY <1>1, NothingPends
  <2>4. /\ Mode(d)' = Mode(d) /\ Life(d)' = Life(d) /\ Made(d)' = Made(d) /\ Used(d)' = Used(d)
        /\ pipe'[d] = pipe[d] /\ (d \in eof' <=> d \in eof) /\ pend'[d] = 0
        /\ d \notin Listed' /\ (Running(d)' <=> Running(d))
    BY <1>1, <1>2 DEF Running
  <2>. HIDE DEF Running, Mode, Life, Made, Used
  <2>. QED BY <2>1, <2>2, <2>3, <2>4
<1>. QED BY <1>4, <1>5, <1>6, <1>7 DEF IInv

(* ---- the theorems ---- *)

LEMMA InitIInv == Init => IInv
<1>. SUFFICES ASSUME Init PROVE IInv
  OBVIOUS
<1>1. /\ files = << >> /\ Listed = {} /\ job.op = "idle" /\ job.c = Nobody /\ job.todo = << >> /\ ~Starting
      /\ hold = [p \in Child \cup {Self} |-> {}] /\ inherit = {} /\ eof = {} /\ out = 0
  BY DEF Init, Listed, ToSet, Idle
<1>2. \A c \in Child : /\ Mode(c) = "none" /\ Life(c) = "unborn" /\ Made(c) = 0 /\ Used(c) = 0
                       /\ pipe[c] = 0 /\ pend[c] = 0 /\ ~Running(c)
  BY DEF Init, Unborn, Running
<1>3. TypeOK
  BY <1>1, EmptySeq DEF Init, TypeOK, Unborn, Idle, IsInjective
<1>4. HoldsRight
  BY <1>1, <1>2 DEF HoldsRight
<1>5. ChildrenRight
  BY <1>1, <1>2 DEF ChildrenRight
<1>6. Counted
  BY <1>1, <1>2 DEF Counted
<1>7. JobRight
  BY <1>1 DEF JobRight
<1>. QED BY <1>3, <1>4, <1>5, <1>6, <1>7 DEF IInv

LEMMA NextIInv == IInv /\ [Next]_vars => IInv'
<1>. SUFFICES ASSUME IInv, [Next]_vars PROVE IInv'
  OBVIOUS
<1>1. CASE ProgramCalls
  BY <1>1, StdoutKeeps, CallsKeep, PopenKeeps DEF ProgramCalls
<1>2. CASE CallStep
  BY <1>2, StdoutKeeps, FlushPipeKeeps, CallsKeep, FputcKeeps, FgetcBufferedKeeps, FgetcFillKeeps,
     CloseHandleKeeps, TerminateKeeps, CreateProcessKeeps, CreateProcessFailsKeeps DEF CallStep
<1>3. CASE \E c \in Child : ChildStep(c) \/ ChildQuits(c)
  BY <1>3, ChildKeeps
<1>4. CASE UNCHANGED vars
  BY <1>4 DEF vars, IInv, TypeOK, HoldsRight, ChildrenRight, Counted, JobRight, Covered, Listed,
              Ends, Ours, Theirs, Running
<1>. QED BY <1>1, <1>2, <1>3, <1>4 DEF Next

(* In every state the handles, the list of streams, the children and the job of
   the program agree, and every byte is counted. *)
THEOREM Invariance == Spec => []IInv
BY InitIInv, NextIInv, PTL DEF Spec

(* Each child has its own end of its own pipe and no other, and between calls
   the program has exactly the other ends of the streams _popen returned and
   _pclose has not closed: no end leaks, so every end of file can be seen. *)
THEOREM EndsStay == Spec => []EndsAreWhereTheyBelong
<1>1. IInv => EndsAreWhereTheyBelong
  <2>. SUFFICES ASSUME IInv PROVE EndsAreWhereTheyBelong
    OBVIOUS
  <2>1. Idling => ~Starting
    BY DEF Idling
  <2>2. Idling => hold[Self] = {Ours(c, child[c].mode) : c \in ToSet(files)}
    BY <2>1 DEF IInv, HoldsRight, Listed
  <2>3. \A c \in Child : Running(c) => hold[c] = {Theirs(c, child[c].mode)}
    BY DEF IInv, HoldsRight
  <2>. QED BY <2>2, <2>3 DEF IInv, EndsAreWhereTheyBelong
<1>. QED BY <1>1, Invariance, PTL

(* A stream is at end of file only when its child is gone and all it wrote was
   read, and a child that read to the end of its input read all of it. *)
THEOREM NoByteIsLost == Spec => []NothingLost
<1>1. IInv => NothingLost
  BY DEF IInv, Counted, NothingLost, Running
<1>. QED BY <1>1, Invariance, PTL

(* _popen starts a child only when nothing the program wrote before pends, on
   stdout or on another child's stream. *)
THEOREM NothingOvertakes == Spec => StartsBehind
<1>. DEFINE Behind == \A c \in Child : child[c].life = "unborn" /\ child'[c].life = "running"
                        => out = 0 /\ \A d \in Child : child[d].mode = "w" => pend[d] = 0
<1>1. IInv /\ [Next]_vars => [Behind]_vars
  <2>. SUFFICES ASSUME IInv, [Next]_vars, NEW c \in Child,
                       child[c].life = "unborn", child'[c].life = "running"
                PROVE  Ready("popen")
    BY NothingPends
  <2>1. child \in ChildType
    BY ChildFields DEF IInv
  <2>2. CASE \E d \in Child : ChildReads(d) \/ ChildWrites(d)
    BY <2>1, <2>2 DEF ChildReads, ChildWrites, ChildType
  <2>3. CASE \E d \in Child : ChildSeesEnd(d) \/ ChildIsDone(d) \/ ChildQuits(d)
    BY <2>1, <2>3 DEF ChildSeesEnd, ChildIsDone, ChildQuits, Exits, ChildType
  <2>4. CASE ProgramCalls
    <3>1. CASE \E d \in Child, m \in {"r", "w"} : _popen(d, m)
      BY <2>1, <3>1 DEF _popen, ChildType
    <3>2. CASE printf \/ fflush_all \/ ExitProcess \/ \E d \in Child : fputc(d) \/ fgetc(d) \/ _pclose(d)
      BY <3>2 DEF printf, fflush_all, ExitProcess, fputc, fgetc, _pclose
    <3>. QED BY <2>4, <3>1, <3>2 DEF ProgramCalls
  <2>5. CASE \E d \in Child : CreateProcess_fails(d) \/ \E m \in {"r", "w"} : CreateProcess(d, m)
    BY <2>5 DEF CreateProcess_fails, CreateProcess
  <2>6. CASE fputc_done \/ fgetc_buffered \/ fgetc_fill
    BY <2>1, <2>6 DEF fputc_done, fgetc_buffered, fgetc_fill, ChildType
  <2>7. CASE \/ FlushStdout \/ FlushPipe \/ fflush_done
             \/ CloseHandle \/ WaitForSingleObject \/ TerminateProcess
    BY <2>7 DEF FlushStdout, FlushPipe, fflush_done, CloseHandle, WaitForSingleObject, TerminateProcess
  <2>8. CASE UNCHANGED vars
    BY <2>8 DEF vars
  <2>. QED BY <2>2, <2>3, <2>4, <2>5, <2>6, <2>7, <2>8 DEF Next, CallStep, ChildStep
<1>. QED BY <1>1, Invariance, PTL DEF Spec, StartsBehind
=============================================================================
