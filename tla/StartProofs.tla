----------------------------- MODULE StartProofs -----------------------------
(***************************************************************************)
(* The two allocations of rt_parse_cmdline are enough for every command    *)
(* line, getenv is current for every environment and every sequence of     *)
(* calls, and the arguments a program finds in argv are those of the       *)
(* quoting rules, for every command line.                                  *)
(***************************************************************************)
EXTENDS Start, FiniteSetTheorems, SequenceTheorems, WellFoundedInduction, TLAPS

(* Every character written was paid for by one that was read, but for the
   terminator of the argument just ended; every argument but the first by two,
   the blank (or the quotes of the name) before it and its own first. *)
Paid ==
  /\ pc \in {"start", "failed"} => Len(pool) = 0 /\ Len(argv) = 0 /\ p = 0
  /\ pc = "name" => Len(pool) <= p /\ Len(argv) = 1
  /\ pc = "quotedName" => Len(pool) + 1 <= p /\ Len(argv) = 1
  /\ pc \in {"gap", "done"} => Len(pool) <= p + 1 /\ 2 * Len(argv) <= p + 2
  /\ pc = "gap" /\ Here \notin Blank \cup {"nul"} => Len(pool) <= p /\ 2 * Len(argv) <= p + 1
  /\ pc \in {"arg", "slashes"} => Len(pool) + slashes <= p /\ 2 * Len(argv) <= p + 3
  /\ pc = "slashes" \/ (pc = "arg" /\ ArgEnds) => 2 * Len(argv) <= p + 2
  /\ pc # "slashes" => slashes = 0

IInv == TypeOK /\ Paid

LEMMA HereIsChar == ASSUME TypeOK PROVE Here \in Char \cup {"nul"} /\ (Here # "nul" => p + 1 \in 0..Len(cmd))
  BY DEF TypeOK, Here

LEMMA RunOfBackslashes ==
  ASSUME NEW n \in Nat
  PROVE  Backslashes(n) \in Seq(Char \cup {"nul"}) /\ Len(Backslashes(n)) = n
  BY DEF Backslashes, Char, Special, Blank

LEMMA Writing ==
  ASSUME NEW s \in Seq(Char \cup {"nul"}), NEW c \in Char \cup {"nul"}
  PROVE  Append(s, c) \in Seq(Char \cup {"nul"}) /\ Len(Append(s, c)) = Len(s) + 1
  OBVIOUS

LEMMA Joining ==
  ASSUME NEW s \in Seq(Char \cup {"nul"}), NEW t \in Seq(Char \cup {"nul"})
  PROVE  s \o t \in Seq(Char \cup {"nul"}) /\ Len(s \o t) = Len(s) + Len(t)
  OBVIOUS

LEMMA InitIInv == Init => IInv
<1>. SUFFICES ASSUME Init PROVE IInv
  OBVIOUS
<1>1. cmd \in Seq(Char)
  BY CmdAssumption DEF Init
<1>2. Len(cmd) \in Nat /\ pool = << >> /\ argv = << >> /\ p = 0 /\ pc = "start" /\ slashes = 0
  BY <1>1 DEF Init
<1>3. pool \in Seq(Char \cup {"nul"}) /\ argv \in Seq(Nat)
  BY <1>2
<1>4. TypeOK
  BY <1>1, <1>2, <1>3 DEF Init, TypeOK
<1>5. Paid
  BY <1>2 DEF Paid
<1>. QED BY <1>4, <1>5 DEF IInv

(* Every step of the walk keeps the account. *)
LEMMA StepIInv == IInv /\ [Next]_vars => IInv'
<1>. SUFFICES ASSUME IInv, [Next]_vars PROVE IInv'
  OBVIOUS
<1>. USE DEF IInv, TypeOK, Paid
<1>h. Here \in Char \cup {"nul"} /\ (Here # "nul" => p + 1 \in 0..Len(cmd))
  BY HereIsChar
<1>1. CASE NoMemory
  BY <1>1 DEF NoMemory
<1>2. CASE BeginName
  BY <1>2, <1>h DEF BeginName
<1>3. CASE NameChar
  <2>1. Here # "nul" /\ pc \in {"quotedName", "name"} /\ pool' = Append(pool, Here)
    BY <1>3 DEF NameChar, NameEnds
  <2>2. pool' \in Seq(Char \cup {"nul"}) /\ Len(pool') = Len(pool) + 1
    BY <2>1, <1>h, Writing
  <2>3. TypeOK'
    BY <1>3, <2>1, <2>2, <1>h DEF NameChar
  <2>4. Paid'
    BY <1>3, <2>1, <2>2, <1>h DEF NameChar
  <2>. QED BY <2>3, <2>4
<1>4. CASE EndName
  <2>0. pool' \in Seq(Char \cup {"nul"})
    BY <1>4, Writing DEF EndName
  <2>1. cmd' = cmd /\ pool' = Append(pool, "nul") /\ Len(pool') = Len(pool) + 1
    BY <1>4 DEF EndName
  <2>2. CASE pc = "quotedName" /\ Here = "quote"
    <3>1. TypeOK'
      BY <1>4, <2>0, <2>1, <2>2, <1>h DEF EndName
    <3>2. p \in Nat /\ Len(pool) \in Nat /\ Len(pool) + 1 <= p /\ Len(argv) = 1
      BY <2>2
    <3>3. p' = p + 1 /\ pc' = "gap" /\ slashes' = 0 /\ argv' = argv
      BY <1>4, <2>2 DEF EndName
    <3>4. Paid'
      <4>1. Len(pool') = Len(pool) + 1
        BY <2>1
      <4>2. Len(argv') = 1 /\ Len(argv') \in Nat /\ Len(pool') <= p' /\ Len(pool') \in Nat
        BY <4>1, <3>2, <3>3
      <4>. HIDE DEF IInv, TypeOK, Paid
      <4>. QED BY <4>2, <3>2, <3>3 DEF Paid
    <3>. QED BY <3>1, <3>4
  <2>3. CASE ~(pc = "quotedName" /\ Here = "quote")
    <3>1. Here' = Here /\ Here \in Blank \cup {"nul"}
      BY <1>4, <2>3 DEF EndName, NameEnds, Here
    <3>2. TypeOK'
      BY <1>4, <2>0, <2>1, <2>3, <1>h DEF EndName
    <3>3. p \in Nat /\ Len(pool) \in Nat /\ Len(pool) <= p /\ Len(argv) = 1
      BY <1>4 DEF EndName, NameEnds
    <3>4. p' = p /\ pc' = "gap" /\ slashes' = 0 /\ argv' = argv
      BY <1>4, <2>3 DEF EndName, NameEnds
    <3>5. Paid'
      <4>1. Len(pool') = Len(pool) + 1
        BY <2>1
      <4>2. Len(argv') = 1 /\ Len(argv') \in Nat /\ Len(pool') <= p' + 1 /\ Len(pool') \in Nat
        BY <4>1, <3>3, <3>4
      <4>. HIDE DEF IInv, TypeOK, Paid
      <4>. QED BY <4>2, <3>1, <3>3, <3>4 DEF Paid
    <3>. QED BY <3>2, <3>5
  <2>. QED BY <2>2, <2>3
<1>5. CASE SkipBlank
  BY <1>5, <1>h DEF SkipBlank, Blank
<1>6. CASE BeginArg
  <2>1. Here' = Here /\ Len(argv') = Len(argv) + 1 /\ argv' \in Seq(Nat)
    BY <1>6 DEF BeginArg, Here
  <2>. QED BY <1>6, <2>1, <1>h DEF BeginArg, ArgEnds
<1>7. CASE EndOfLine
  BY <1>7 DEF EndOfLine
<1>8. CASE EndArg
  <2>1. Here' = Here /\ Here \in Blank \cup {"nul"}
    BY <1>8 DEF EndArg, Here, ArgEnds
  <2>2. pool' \in Seq(Char \cup {"nul"}) /\ Len(pool') = Len(pool) + 1
    BY <1>8, Writing DEF EndArg
  <2>3. TypeOK'
    BY <1>8, <2>2 DEF EndArg
  <2>4. Paid'
    BY <1>8, <2>1, <2>2 DEF EndArg
  <2>. QED BY <2>3, <2>4
<1>9. CASE CountSlash
  BY <1>9, <1>h DEF CountSlash
<1>10. CASE SlashesThenQuote
  <2>1. slashes \div 2 \in Nat /\ 2 * (slashes \div 2) <= slashes
        /\ (slashes % 2 = 1 => 2 * (slashes \div 2) + 1 = slashes)
    BY <1>10 DEF SlashesThenQuote
  <2>. DEFINE run == Backslashes(slashes \div 2)
  <2>2. run \in Seq(Char \cup {"nul"}) /\ Len(run) = slashes \div 2
    BY <2>1, RunOfBackslashes
  <2>. HIDE DEF run
  <2>3. CASE slashes % 2 = 1
    <3>1. pool' = Append(pool \o run, "quote") /\ "quote" \in Char
      BY <1>10, <2>3 DEF SlashesThenQuote, run, Char, Special
    <3>2. pool' \in Seq(Char \cup {"nul"}) /\ Len(pool') = Len(pool) + slashes \div 2 + 1
      <4>1. pool \o run \in Seq(Char \cup {"nul"}) /\ Len(pool \o run) = Len(pool) + slashes \div 2
        BY <2>2, Joining
      <4>. QED BY <3>1, <4>1, Writing
    <3>3. TypeOK'
      BY <1>10, <2>3, <3>2, <1>h DEF SlashesThenQuote
    <3>4. Paid'
      BY <1>10, <2>1, <2>3, <3>2, <1>h DEF SlashesThenQuote
    <3>. QED BY <3>3, <3>4
  <2>4. CASE slashes % 2 # 1
    <3>1. pool' = pool \o run
      BY <1>10, <2>4 DEF SlashesThenQuote, run
    <3>2. pool' \in Seq(Char \cup {"nul"}) /\ Len(pool') = Len(pool) + slashes \div 2
      BY <3>1, <2>2, Joining
    <3>. QED BY <1>10, <2>1, <2>4, <3>2, <1>h DEF SlashesThenQuote
  <2>. QED BY <2>3, <2>4
<1>11. CASE SlashesAlone
  <2>. DEFINE run == Backslashes(slashes)
  <2>1. run \in Seq(Char \cup {"nul"}) /\ Len(run) = slashes
    BY RunOfBackslashes
  <2>2. pool' = pool \o run
    BY <1>11 DEF SlashesAlone
  <2>. HIDE DEF run
  <2>3. pool' \in Seq(Char \cup {"nul"}) /\ Len(pool') = Len(pool) + slashes
    BY <2>1, <2>2, Joining
  <2>4. TypeOK'
    BY <1>11, <2>3 DEF SlashesAlone
  <2>5. Paid'
    BY <1>11, <2>3 DEF SlashesAlone
  <2>. QED BY <2>4, <2>5
<1>12. CASE Quote
  BY <1>12, <1>h DEF Quote
<1>13. CASE ArgChar
  <2>1. Here # "nul" /\ pool' = Append(pool, Here)
    BY <1>13 DEF ArgChar, ArgEnds
  <2>2. pool' \in Seq(Char \cup {"nul"}) /\ Len(pool') = Len(pool) + 1
    BY <2>1, <1>h, Writing
  <2>3. TypeOK'
    BY <1>13, <2>1, <2>2, <1>h DEF ArgChar
  <2>4. Paid'
    BY <1>13, <2>1, <2>2, <1>h DEF ArgChar
  <2>. QED BY <2>3, <2>4
<1>14. CASE UNCHANGED vars
  BY <1>14 DEF vars, Here, ArgEnds
<1>. QED
  BY <1>1, <1>2, <1>3, <1>4, <1>5, <1>6, <1>7, <1>8, <1>9, <1>10, <1>11, <1>12, <1>13, <1>14 DEF Next

\* What is paid for fits.
LEMMA FitsFromInv == IInv => FitsAllocation
<1>. SUFFICES ASSUME IInv PROVE FitsAllocation
  OBVIOUS
<1>1. p \in Nat /\ Len(pool) \in Nat /\ Len(argv) \in Nat /\ slashes \in Nat
      /\ Len(cmd) \in Nat /\ p <= Len(cmd)
  BY DEF IInv, TypeOK
<1>0. Paid /\ pc \in {"start", "failed", "quotedName", "name", "gap", "arg", "slashes", "done"}
  BY DEF IInv, TypeOK
<1>2. Len(pool) <= p + 1
  BY <1>0, <1>1 DEF Paid
<1>3. 2 * Len(argv) <= p + 3
  <2>1. CASE pc \in {"start", "failed"}
    BY <1>0, <1>1, <2>1 DEF Paid
  <2>2. CASE pc \in {"name", "quotedName"}
    <3>1. Len(argv) = 1
      BY <1>0, <2>2 DEF Paid
    <3>. QED BY <1>1, <3>1
  <2>3. CASE pc \in {"gap", "done", "arg", "slashes"}
    BY <1>0, <1>1, <2>3 DEF Paid
  <2>. QED BY <1>0, <2>1, <2>2, <2>3
<1>4. Len(cmd) \div 2 \in Nat /\ Len(cmd) <= 2 * (Len(cmd) \div 2) + 1
  BY <1>1
<1>5. Len(argv) < Len(cmd) \div 2 + 3
  BY <1>1, <1>3, <1>4
<1>. QED BY <1>1, <1>2, <1>5 DEF FitsAllocation, PoolSize, ArgvSize

(* rt_parse_cmdline writes neither past its pool of len + 2 characters nor past
   the last but one of its len / 2 + 3 slots, whatever the command line. *)
THEOREM WalkFitsAllocation == Spec => []FitsAllocation
BY InitIInv, StepIInv, FitsFromInv, PTL DEF Spec

(* ---- the environment ---- *)

Variable == [name : EnvText, value : EnvText]

\* The system has variables with names, one of each, as it compares names.
Right(env) ==
  /\ env \in Seq(Variable)
  /\ \A k \in DOMAIN env : env[k].name # << >> /\ ~EqualsFrom(2, env[k].name)
  /\ \A k, m \in DOMAIN env : SameName(env[k].name, env[m].name) => k = m
SystemRight == Right(osEnv)

\* The runtime's block is the environment as it is.
Block == [k \in DOMAIN osEnv |-> Entry(osEnv[k])]
BlockFresh == envp # << >> => envp = <<Block>>

\* What was put last is in the environment, or gone from it, if its name was
\* not cut.
Holds(env, name, value) ==
  IF value = << >> THEN \A k \in DOMAIN env : ~SameName(env[k].name, name)
  ELSE /\ \E k \in DOMAIN env : SameName(env[k].name, name)
       /\ \A k \in DOMAIN env : SameName(env[k].name, name) => env[k].value = value
PutStays ==
  put.name # << >> /\ Len(put.name) < NameCap => Holds(osEnv, put.name, put.value)

AnswerRight ==
  /\ answer \in [name : EnvText, got : Seq(EnvText), memory : BOOLEAN]
  /\ put \in Variable
  /\ answer.memory => answer.name # << >>

EnvInv == SystemRight /\ BlockFresh /\ PutStays /\ AnswerRight /\ SystemSays

LEMMA Least ==
  ASSUME NEW I, I \subseteq Nat, I # {}
  PROVE  Min(I) \in I /\ \A k \in I : Min(I) <= k
<1>. DEFINE R == {ss \in Nat \X Nat : ss[1] < ss[2]}
<1>1. IsWellFoundedOn(R, Nat)
  BY NatLessThanWellFounded DEF OpToRel
<1>2. PICK x \in I : \A y \in I : ~(<<y, x>> \in R)
  <2>. HIDE DEF R
  <2>. QED BY <1>1, WFMin
<1>3. ASSUME NEW y \in I PROVE x <= y
  <2>1. x \in Nat /\ y \in Nat /\ <<y, x>> \in Nat \X Nat /\ <<y, x>>[1] = y /\ <<y, x>>[2] = x
    OBVIOUS
  <2>2. ~(y < x)
    BY <1>2, <2>1
  <2>. QED BY <2>1, <2>2
<1>. QED BY <1>3 DEF Min

\* The text of a variable in the block.
LEMMA EntryParts ==
  ASSUME NEW v \in Variable
  PROVE  /\ Len(v.name) \in Nat /\ Len(v.value) \in Nat
         /\ Entry(v) \in EnvText /\ Len(Entry(v)) = Len(v.name) + 1 + Len(v.value)
         /\ \A k \in 1 .. Len(v.name) : Entry(v)[k] = v.name[k]
         /\ Entry(v)[Len(v.name) + 1] = "="
         /\ \A k \in 1 .. Len(v.value) : Entry(v)[Len(v.name) + 1 + k] = v.value[k]
<1>. DEFINE n == v.name
            w == v.value
            S == DOMAIN Fold
<1>1. n \in Seq(S) /\ w \in Seq(S) /\ "=" \in S
  BY QueriesAssumption DEF Variable, EnvText
<1>. DEFINE e == <<"=">>
<1>2. e \in Seq(S) /\ Len(e) = 1 /\ e[1] = "="
  BY <1>1
<1>. HIDE DEF n, w, S, e
<1>3. Len(n) \in Nat /\ Len(w) \in Nat
  BY <1>1
<1>. DEFINE h == n \o e
<1>4. /\ h \in Seq(S) /\ Len(h) = Len(n) + 1
      /\ \A k \in 1 .. Len(n) + 1 : h[k] = IF k <= Len(n) THEN n[k] ELSE e[k - Len(n)]
  <2>1. /\ h \in Seq(S) /\ Len(h) = Len(n) + Len(e)
        /\ \A k \in 1 .. Len(n) + Len(e) : h[k] = IF k <= Len(n) THEN n[k] ELSE e[k - Len(n)]
    BY <1>1, <1>2, ConcatProperties
  <2>. HIDE DEF h
  <2>. QED BY <1>2, <2>1
<1>. HIDE DEF h
<1>. DEFINE t == h \o w
<1>5. /\ t \in Seq(S) /\ Len(t) = Len(h) + Len(w)
      /\ \A k \in 1 .. Len(h) + Len(w) : t[k] = IF k <= Len(h) THEN h[k] ELSE w[k - Len(h)]
  <2>1. h \in Seq(S) /\ w \in Seq(S)
    BY <1>1, <1>4
  <2>. QED BY ONLY <2>1, ConcatProperties DEF t
<1>6. t = Entry(v)
  BY DEF t, h, e, n, w, Entry
<1>. HIDE DEF t
<1>7. \A k \in 1 .. Len(n) : t[k] = n[k]
  BY <1>3, <1>4, <1>5
<1>8. t[Len(n) + 1] = "="
  BY <1>2, <1>3, <1>4, <1>5
<1>9. ASSUME NEW k \in 1 .. Len(w) PROVE t[Len(n) + 1 + k] = w[k]
  <2>1. Len(n) + 1 + k \in 1 .. Len(h) + Len(w) /\ ~(Len(n) + 1 + k <= Len(h))
        /\ Len(n) + 1 + k - Len(h) = k
    BY <1>3, <1>4
  <2>. QED BY <1>5, <2>1
<1>10. Len(t) = Len(n) + 1 + Len(w)
  BY <1>3, <1>4, <1>5
<1>. QED BY <1>3, <1>5, <1>6, <1>7, <1>8, <1>9, <1>10 DEF n, w, S, EnvText

\* A prefix, character by character.
LEMMA PrefixIs ==
  ASSUME NEW s \in EnvText, NEW t \in EnvText
  PROVE  IsPrefix(s, t) <=> Len(s) <= Len(t) /\ \A k \in 1 .. Len(s) : s[k] = t[k]
<1>. DEFINE n == Len(s)
            a == SubSeq(s, 1, n)
            b == SubSeq(t, 1, n)
<1>1. n \in Nat /\ Len(t) \in Nat /\ s \in Seq(DOMAIN Fold) /\ t \in Seq(DOMAIN Fold)
  BY DEF EnvText
<1>2. CASE n <= Len(t)
  <2>1. n - 1 + 1 = n /\ (IF 1 <= n THEN n - 1 + 1 ELSE 0) = n /\ \A k \in 1 .. n : 1 + k - 1 = k
    BY <1>1
  <2>2. /\ \A k \in 1 .. n : s[k] \in DOMAIN Fold /\ t[k] \in DOMAIN Fold
    BY <1>1, <1>2
  <2>3. /\ a \in Seq(DOMAIN Fold) /\ Len(a) = n /\ \A k \in 1 .. n : a[k] = s[k]
    <3>1. /\ a \in Seq(DOMAIN Fold) /\ Len(a) = (IF 1 <= n THEN n - 1 + 1 ELSE 0)
          /\ \A k \in 1 .. n - 1 + 1 : a[k] = s[1 + k - 1]
      BY <1>1, <2>2, SubSeqProperties
    <3>. HIDE DEF a, n
    <3>. QED BY <2>1, <3>1
  <2>4. /\ b \in Seq(DOMAIN Fold) /\ Len(b) = n /\ \A k \in 1 .. n : b[k] = t[k]
    <3>1. /\ b \in Seq(DOMAIN Fold) /\ Len(b) = (IF 1 <= n THEN n - 1 + 1 ELSE 0)
          /\ \A k \in 1 .. n - 1 + 1 : b[k] = t[1 + k - 1]
      BY <1>1, <2>2, SubSeqProperties
    <3>. HIDE DEF b, n
    <3>. QED BY <2>1, <3>1
  <2>. HIDE DEF a, b
  <2>5. a = b <=> \A k \in 1 .. n : a[k] = b[k]
    BY <2>3, <2>4, SeqEqual
  <2>6. IsPrefix(s, t) <=> a = b
    BY <1>2 DEF IsPrefix, a, b
  <2>. QED BY <1>2, <2>3, <2>4, <2>5, <2>6
<1>3. CASE ~(n <= Len(t))
  BY <1>3 DEF IsPrefix
<1>. QED BY <1>2, <1>3

\* The text of a variable matches its own name and no other.
LEMMA EntryMatches ==
  ASSUME NEW v \in Variable, v.name # << >>, ~EqualsFrom(2, v.name),
         NEW q \in EnvText, q # << >>, ~EqualsFrom(1, q)
  PROVE  Matches(Entry(v), q) <=> v.name = q
<1>. DEFINE n == v.name
            e == Entry(v)
<1>1. /\ Len(n) \in Nat /\ Len(v.value) \in Nat /\ e \in EnvText /\ Len(e) = Len(n) + 1 + Len(v.value)
      /\ \A k \in 1 .. Len(n) : e[k] = n[k]
      /\ e[Len(n) + 1] = "="
  BY EntryParts
<1>2. /\ n \in Seq(DOMAIN Fold) /\ q \in Seq(DOMAIN Fold) /\ Len(q) \in Nat
      /\ DOMAIN n = 1 .. Len(n) /\ DOMAIN q = 1 .. Len(q)
  BY DEF Variable, EnvText
<1>3. Len(q) # 0
  BY <1>2, EmptySeq
<1>4. /\ \A k \in 1 .. Len(n) : k >= 2 => n[k] # "="
      /\ \A k \in 1 .. Len(q) : q[k] # "="
  <2>1. \A k \in 2 .. Len(n) : n[k] # "="
    BY DEF EqualsFrom
  <2>2. \A k \in 1 .. Len(q) : q[k] # "="
    BY DEF EqualsFrom
  <2>3. \A k \in 1 .. Len(n) : k >= 2 => k \in 2 .. Len(n)
    BY ONLY <1>2
  <2>. QED BY ONLY <2>1, <2>2, <2>3
<1>5. IsPrefix(q, e) <=> Len(q) <= Len(e) /\ \A k \in 1 .. Len(q) : q[k] = e[k]
  BY <1>1, PrefixIs
<1>. HIDE DEF n, e
<1>6. ASSUME Matches(e, q) PROVE n = q
  <2>1. Len(q) < Len(e) /\ e[Len(q) + 1] = "=" /\ \A k \in 1 .. Len(q) : q[k] = e[k]
    BY <1>1, <1>2, <1>5, <1>6 DEF Matches
  <2>2. ~(Len(q) < Len(n))
    <3>. SUFFICES ASSUME Len(q) < Len(n) PROVE FALSE
      OBVIOUS
    <3>1. Len(q) + 1 \in 1 .. Len(n) /\ Len(q) + 1 >= 2
      BY <1>1, <1>2, <1>3
    <3>2. e[Len(q) + 1] = n[Len(q) + 1] /\ n[Len(q) + 1] # "="
      BY <1>1, <1>4, <3>1
    <3>. QED BY <2>1, <3>2
  <2>3. ~(Len(q) > Len(n))
    <3>. SUFFICES ASSUME Len(q) > Len(n) PROVE FALSE
      OBVIOUS
    <3>1. Len(n) + 1 \in 1 .. Len(q)
      BY <1>1, <1>2
    <3>2. q[Len(n) + 1] = e[Len(n) + 1] /\ q[Len(n) + 1] # "="
      BY <1>4, <2>1, <3>1
    <3>. QED BY <1>1, <3>2
  <2>4. Len(n) = Len(q)
    <3>1. Len(n) \in Nat /\ Len(q) \in Nat
      BY <1>1, <1>2
    <3>. QED BY ONLY <2>2, <2>3, <3>1
  <2>. QED BY <1>1, <1>2, <2>1, <2>4, SeqEqual
<1>7. ASSUME n = q PROVE Matches(e, q)
  <2>1. Len(q) < Len(e) /\ Len(q) <= Len(e)
    <3>1. Len(q) \in Nat /\ Len(v.value) \in Nat /\ Len(e) = Len(q) + 1 + Len(v.value)
      BY <1>1, <1>7
    <3>2. \A a, b \in Nat : a < a + 1 + b /\ a <= a + 1 + b
      OBVIOUS
    <3>. QED BY ONLY <3>1, <3>2
  <2>. QED BY <1>1, <1>5, <1>7, <2>1 DEF Matches
<1>. QED BY <1>6, <1>7 DEF n, e

\* What follows a variable's name and "=" in the block is its value.
LEMMA EntryValue ==
  ASSUME NEW v \in Variable
  PROVE  SubSeq(Entry(v), Len(v.name) + 2, Len(Entry(v))) = v.value
<1>. DEFINE n == Len(v.name)
            w == v.value
            e == Entry(v)
            t == SubSeq(e, n + 2, Len(e))
<1>1. /\ n \in Nat /\ Len(w) \in Nat /\ e \in Seq(DOMAIN Fold) /\ Len(e) = n + 1 + Len(w)
      /\ \A k \in 1 .. Len(w) : e[n + 1 + k] = w[k]
  <2>1. /\ Len(v.name) \in Nat /\ Len(v.value) \in Nat
        /\ Entry(v) \in EnvText /\ Len(Entry(v)) = Len(v.name) + 1 + Len(v.value)
        /\ \A k \in 1 .. Len(v.value) : Entry(v)[Len(v.name) + 1 + k] = v.value[k]
    BY EntryParts
  <2>. QED BY ONLY <2>1 DEF EnvText, n, w, e
<1>2. w \in Seq(DOMAIN Fold)
  BY DEF Variable, EnvText
<1>. HIDE DEF e, w, n
<1>3. n + 2 \in Int /\ Len(e) \in Int /\ \A k \in n + 2 .. Len(e) : k \in 1 .. Len(e)
  <2>1. n \in Nat /\ Len(e) \in Nat
    BY <1>1
  <2>. QED BY ONLY <2>1
<1>4. \A k \in n + 2 .. Len(e) : e[k] \in DOMAIN Fold
  BY <1>1, <1>3
<1>5. /\ t \in Seq(DOMAIN Fold) /\ Len(t) = (IF n + 2 <= Len(e) THEN Len(e) - (n + 2) + 1 ELSE 0)
      /\ \A k \in 1 .. Len(e) - (n + 2) + 1 : t[k] = e[n + 2 + k - 1]
  BY <1>3, <1>4, SubSeqProperties
<1>. HIDE DEF t
<1>6. Len(t) = Len(w) /\ Len(e) - (n + 2) + 1 = Len(w)
  BY <1>1, <1>5
<1>7. ASSUME NEW k \in 1 .. Len(w) PROVE t[k] = w[k]
  <2>1. n + 2 + k - 1 = n + 1 + k
    BY <1>1
  <2>. QED BY <1>1, <1>5, <1>6, <2>1
<1>8. t = w
  BY <1>2, <1>5, <1>6, <1>7, SeqEqual
<1>. QED BY <1>8 DEF t, e, w, n

\* The first variable named q, or 0.
FirstNamed(env, q) == SelectInSeq(env, LAMBDA v : v.name = q)

LEMMA FindIs ==
  ASSUME SystemRight, NEW q \in Queries
  PROVE  Find(Block, q)
           = IF FirstNamed(osEnv, q) = 0 THEN << >> ELSE <<osEnv[FirstNamed(osEnv, q)].value>>
<1>. DEFINE B == Block
            I == {k \in 1 .. Len(osEnv) : osEnv[k].name = q}
            J == {k \in 1 .. Len(B) : Matches(B[k], q)}
<1>1. Len(osEnv) \in Nat /\ DOMAIN osEnv = 1 .. Len(osEnv) /\ \A k \in 1 .. Len(osEnv) : osEnv[k] \in Variable
  BY DEF SystemRight, Right
<1>2. Len(B) = Len(osEnv) /\ \A k \in 1 .. Len(osEnv) : B[k] = Entry(osEnv[k])
  BY <1>1 DEF Block
<1>3. q \in EnvText /\ q # << >> /\ ~EqualsFrom(1, q)
  BY QueriesAssumption
<1>4. \A k \in 1 .. Len(osEnv) : Matches(B[k], q) <=> osEnv[k].name = q
  BY <1>1, <1>2, <1>3, EntryMatches DEF SystemRight, Right
<1>. HIDE DEF B
<1>5. I = J
  BY <1>2, <1>4
<1>. DEFINE i == IF I # {} THEN Min(I) ELSE 0
<1>6. FirstNamed(osEnv, q) = i
  BY DEF FirstNamed, SelectInSeq
<1>7. Find(B, q) = IF i = 0 THEN << >> ELSE <<SubSeq(B[i], Len(q) + 2, Len(B[i]))>>
  <2>1. SelectInSeq(B, LAMBDA t : Matches(t, q)) = IF J # {} THEN Min(J) ELSE 0
    BY DEF SelectInSeq
  <2>2. SelectInSeq(B, LAMBDA t : Matches(t, q)) = i
    BY ONLY <1>5, <2>1 DEF i
  <2>. QED BY <2>2 DEF Find
<1>8. i # 0 => i \in I
  <2>1. I \subseteq Nat
    OBVIOUS
  <2>2. I # {} => Min(I) \in I
    <3>. HIDE DEF I
    <3>. QED BY <2>1, Least
  <2>. QED BY ONLY <2>2 DEF i
<1>. HIDE DEF i
<1>9. ASSUME i # 0 PROVE SubSeq(B[i], Len(q) + 2, Len(B[i])) = osEnv[i].value
  <2>1. i \in 1 .. Len(osEnv) /\ osEnv[i].name = q /\ B[i] = Entry(osEnv[i]) /\ osEnv[i] \in Variable
    BY <1>1, <1>2, <1>8, <1>9
  <2>2. SubSeq(Entry(osEnv[i]), Len(osEnv[i].name) + 2, Len(Entry(osEnv[i]))) = osEnv[i].value
    BY <2>1, EntryValue
  <2>. QED BY <2>1, <2>2
<1>. QED BY <1>6, <1>7, <1>9 DEF B

\* Of the variables named q there is the first, if there is one at all.
LEMMA FirstNamedIs ==
  ASSUME SystemRight, NEW q
  PROVE  /\ FirstNamed(osEnv, q) = 0 => \A k \in DOMAIN osEnv : osEnv[k].name # q
         /\ FirstNamed(osEnv, q) # 0 => FirstNamed(osEnv, q) \in DOMAIN osEnv /\ osEnv[FirstNamed(osEnv, q)].name = q
<1>. DEFINE I == {k \in 1 .. Len(osEnv) : osEnv[k].name = q}
<1>1. DOMAIN osEnv = 1 .. Len(osEnv)
  BY DEF SystemRight, Right
<1>2. FirstNamed(osEnv, q) = IF I # {} THEN Min(I) ELSE 0
  BY DEF FirstNamed, SelectInSeq
<1>3. I \subseteq Nat /\ ~(0 \in I)
  OBVIOUS
<1>4. I # {} => Min(I) \in I
  <2>. HIDE DEF I
  <2>. QED BY <1>3, Least
<1>5. FirstNamed(osEnv, q) = 0 => I = {}
  BY ONLY <1>2, <1>3, <1>4
<1>6. FirstNamed(osEnv, q) # 0 => FirstNamed(osEnv, q) \in I
  BY ONLY <1>2, <1>4
<1>. QED BY <1>1, <1>5, <1>6

LEMMA SystemSaysIs ==
  SystemSays <=> (answer.memory => answer.got = IF FirstNamed(osEnv, answer.name) = 0 THEN << >>
                                                ELSE <<osEnv[FirstNamed(osEnv, answer.name)].value>>)
BY DEF SystemSays, FirstNamed

LEMMA NamesCompare ==
  /\ \A m : SameName(m, m)
  /\ \A m, n : SameName(m, n) => SameName(n, m)
  /\ \A l, m, n : SameName(l, m) /\ SameName(m, n) => SameName(l, n)
BY DEF SameName

\* What the invariant says of getenv's answers.
LEMMA CurrentFromInv ==
  EnvInv => GetenvIsCurrent
<1>. SUFFICES ASSUME EnvInv, answer.memory, answer.name = put.name, Len(put.name) < NameCap,
                     \A k \in DOMAIN osEnv : SameName(osEnv[k].name, put.name) => osEnv[k].name = put.name
              PROVE  answer.got = IF put.value = << >> THEN << >> ELSE <<put.value>>
  BY DEF GetenvIsCurrent, PutIsGot, EnvInv
<1>1. Holds(osEnv, put.name, put.value)
  BY DEF EnvInv, PutStays, AnswerRight
<1>. DEFINE f == FirstNamed(osEnv, put.name)
<1>2. answer.got = IF f = 0 THEN << >> ELSE <<osEnv[f].value>>
  BY SystemSaysIs DEF EnvInv
<1>3. /\ f = 0 => \A k \in DOMAIN osEnv : osEnv[k].name # put.name
      /\ f # 0 => f \in DOMAIN osEnv /\ osEnv[f].name = put.name
  BY FirstNamedIs DEF EnvInv
<1>. HIDE DEF f
<1>4. CASE put.value = << >>
  <2>1. f = 0
    BY <1>1, <1>3, <1>4, NamesCompare DEF Holds
  <2>. QED BY <1>2, <1>4, <2>1
<1>5. CASE put.value # << >>
  <2>1. f # 0
    BY <1>1, <1>3, <1>5 DEF Holds
  <2>2. osEnv[f].value = put.value
    BY <1>1, <1>3, <1>5, <2>1, NamesCompare DEF Holds
  <2>. QED BY <1>2, <1>5, <2>1, <2>2
<1>. QED BY <1>4, <1>5

\* The block is taken fresh or kept.
LEMMA ParseEnvKeeps ==
  ASSUME BlockFresh, NEW fails \in BOOLEAN, envp' = ParseEnv(fails), osEnv' = osEnv
  PROVE  BlockFresh'
<1>1. Block' = Block
  BY DEF Block
<1>2. envp' # << >> => envp' = <<Block>>
  BY DEF BlockFresh, ParseEnv, Block
<1>. QED BY <1>1, <1>2 DEF BlockFresh

LEMMA StartupKeeps ==
  ASSUME EnvInv, Startup
  PROVE  EnvInv'
<1>1. BlockFresh'
  BY ParseEnvKeeps DEF Startup, EnvInv
<1>2. osEnv' = osEnv /\ answer' = answer /\ put' = put
  BY DEF Startup
<1>3. SystemRight' /\ PutStays' /\ AnswerRight'
  BY <1>2 DEF EnvInv, SystemRight, PutStays, AnswerRight
<1>4. SystemSays'
  <2>1. SystemSays' <=> (answer.memory => answer.got = IF FirstNamed(osEnv, answer.name) = 0 THEN << >>
                                                ELSE <<osEnv[FirstNamed(osEnv, answer.name)].value>>)'
    BY SystemSaysIs, PTL
  <2>. QED BY <1>2, <2>1, SystemSaysIs DEF EnvInv
<1>. QED BY <1>1, <1>3, <1>4 DEF EnvInv

LEMMA GetenvKeeps ==
  ASSUME EnvInv, NEW q \in Queries, Getenv(q)
  PROVE  EnvInv'
<1>1. BlockFresh'
  BY ParseEnvKeeps DEF Getenv, EnvInv
<1>2. osEnv' = osEnv /\ put' = put
  BY DEF Getenv
<1>3. SystemRight' /\ PutStays'
  BY <1>2 DEF EnvInv, SystemRight, PutStays
<1>. DEFINE g == IF envp' = << >> THEN << >> ELSE Find(envp'[1], q)
            f == FirstNamed(osEnv, q)
<1>4. answer' = [name |-> q, memory |-> envp' # << >>, got |-> g]
  BY DEF Getenv
<1>5. envp' # << >> => g = IF f = 0 THEN << >> ELSE <<osEnv[f].value>>
  <2>1. Find(Block, q) = IF f = 0 THEN << >> ELSE <<osEnv[f].value>>
    BY FindIs DEF EnvInv
  <2>2. Block' = Block
    BY <1>2 DEF Block
  <2>3. envp' # << >> => envp'[1] = Block
    BY <1>1, <2>2 DEF BlockFresh
  <2>. QED BY <2>1, <2>3
<1>6. q \in EnvText /\ q # << >>
  BY QueriesAssumption
<1>7. f # 0 => osEnv[f].value \in EnvText
  <2>1. f # 0 => f \in DOMAIN osEnv
    BY FirstNamedIs DEF EnvInv
  <2>. HIDE DEF f
  <2>2. f # 0 => osEnv[f] \in Variable
    BY <2>1 DEF EnvInv, SystemRight, Right
  <2>. QED BY <2>2 DEF Variable
<1>. HIDE DEF f
<1>9. g \in Seq(EnvText)
  <2>. HIDE DEF g
  <2>1. CASE envp' # << >>
    <3>. DEFINE x == osEnv[f].value
    <3>1. g = IF f = 0 THEN << >> ELSE <<x>>
      BY <1>5, <2>1
    <3>2. f # 0 => x \in EnvText
      BY <1>7
    <3>. HIDE DEF x
    <3>3. f # 0 => <<x>> \in Seq(EnvText)
      BY ONLY <3>2
    <3>4. << >> \in Seq(EnvText)
      OBVIOUS
    <3>. QED BY ONLY <3>1, <3>3, <3>4
  <2>2. CASE envp' = << >>
    <3>1. g = << >>
      BY <2>2 DEF g
    <3>. QED BY <3>1
  <2>. QED BY <2>1, <2>2
<1>. HIDE DEF g
<1>10. AnswerRight'
  BY <1>2, <1>4, <1>6, <1>9 DEF EnvInv, AnswerRight
<1>11. SystemSays'
  <2>1. answer'.name = q /\ answer'.got = g /\ (answer'.memory <=> envp' # << >>)
    BY <1>4
  <2>2. FirstNamed(osEnv, answer.name)' = f
    BY <1>2, <2>1 DEF f
  <2>3. SystemSays' <=> (answer.memory => answer.got = IF FirstNamed(osEnv, answer.name) = 0 THEN << >>
                                                ELSE <<osEnv[FirstNamed(osEnv, answer.name)].value>>)'
    BY SystemSaysIs, PTL
  <2>. QED BY <1>2, <1>5, <2>1, <2>2, <2>3
<1>. QED BY <1>1, <1>3, <1>10, <1>11 DEF EnvInv

(* ---- _putenv ---- *)

\* A sequence without its element at x.
LEMMA Removed ==
  ASSUME NEW S, NEW s \in Seq(S), NEW x \in 1 .. Len(s)
  PROVE  /\ RemoveAt(s, x) \in Seq(S) /\ Len(RemoveAt(s, x)) = Len(s) - 1
         /\ \A k \in 1 .. Len(s) - 1 : RemoveAt(s, x)[k] = IF k < x THEN s[k] ELSE s[k + 1]
<1>. DEFINE a == SubSeq(s, 1, x - 1)
            b == SubSeq(s, x + 1, Len(s))
            u == a \o b
<1>1. Len(s) \in Nat /\ DOMAIN s = 1 .. Len(s)
  OBVIOUS
<1>2. u = RemoveAt(s, x)
  BY DEF RemoveAt
<1>3. /\ a \in Seq(S) /\ Len(a) = x - 1 /\ \A k \in 1 .. x - 1 : a[k] = s[k]
  <2>1. x - 1 \in Int /\ x - 1 <= Len(s) /\ x - 1 >= 0
    BY <1>1
  <2>2. \A k \in 1 .. x - 1 : s[k] \in S
    BY <1>1, <2>1
  <2>3. /\ a \in Seq(S) /\ Len(a) = (IF 1 <= x - 1 THEN (x - 1) - 1 + 1 ELSE 0)
        /\ \A k \in 1 .. (x - 1) - 1 + 1 : a[k] = s[1 + k - 1]
    BY <2>1, <2>2, SubSeqProperties
  <2>. HIDE DEF a
  <2>. QED BY <2>1, <2>3
<1>4. /\ b \in Seq(S) /\ Len(b) = Len(s) - x
      /\ \A k \in 1 .. Len(s) - x : b[k] = s[x + k]
  <2>1. x + 1 \in Int /\ x + 1 >= 1 /\ Len(s) \in Int
    BY <1>1
  <2>2. \A k \in x + 1 .. Len(s) : s[k] \in S
    BY <1>1, <2>1
  <2>3. /\ b \in Seq(S)
        /\ Len(b) = (IF x + 1 <= Len(s) THEN Len(s) - (x + 1) + 1 ELSE 0)
        /\ \A k \in 1 .. Len(s) - (x + 1) + 1 : b[k] = s[(x + 1) + k - 1]
    BY <2>1, <2>2, SubSeqProperties
  <2>. HIDE DEF b
  <2>4. /\ (IF x + 1 <= Len(s) THEN Len(s) - (x + 1) + 1 ELSE 0) = Len(s) - x
        /\ Len(s) - (x + 1) + 1 = Len(s) - x
        /\ \A k \in 1 .. Len(s) - x : (x + 1) + k - 1 = x + k
    <3>1. \A l \in Nat : \A y \in 1 .. l :
            /\ (IF y + 1 <= l THEN l - (y + 1) + 1 ELSE 0) = l - y
            /\ l - (y + 1) + 1 = l - y
            /\ \A k \in 1 .. l - y : (y + 1) + k - 1 = y + k
      OBVIOUS
    <3>. QED BY <1>1, <3>1
  <2>. QED BY <2>3, <2>4
<1>5. /\ u \in Seq(S) /\ Len(u) = Len(a) + Len(b)
      /\ \A k \in 1 .. Len(a) + Len(b) : u[k] = IF k <= Len(a) THEN a[k] ELSE b[k - Len(a)]
  BY <1>3, <1>4, ConcatProperties
<1>. HIDE DEF a, b, u
<1>6. Len(a) + Len(b) = Len(s) - 1
  BY <1>1, <1>3, <1>4
<1>7. ASSUME NEW k \in 1 .. Len(s) - 1 PROVE u[k] = IF k < x THEN s[k] ELSE s[k + 1]
  <2>1. CASE k < x
    <3>1. k <= Len(a) /\ k \in 1 .. x - 1
      BY <1>1, <1>3, <2>1
    <3>. QED BY <1>3, <1>5, <1>6, <2>1, <3>1
  <2>2. CASE ~(k < x)
    <3>1. ~(k <= Len(a)) /\ k - Len(a) = k - x + 1 /\ k - x + 1 \in 1 .. Len(s) - x
          /\ x + (k - x + 1) = k + 1
      BY <1>1, <1>3, <2>2
    <3>. QED BY <1>4, <1>5, <1>6, <2>2, <3>1
  <2>. QED BY <2>1, <2>2
<1>. QED BY <1>2, <1>5, <1>6, <1>7

\* The system's variables after one is set, or taken away.
LEMMA SetVariableIs ==
  ASSUME SystemRight, NEW n \in EnvText, n # << >>, ~EqualsFrom(2, n), NEW w \in EnvText, Accepted(n, w)
  PROVE  Right(SetVariable(n, w)) /\ Holds(SetVariable(n, w), n, w)
<1>1. /\ osEnv \in Seq(Variable) /\ Len(osEnv) \in Nat /\ DOMAIN osEnv = 1 .. Len(osEnv)
      /\ \A k \in DOMAIN osEnv : osEnv[k] \in Variable
  BY DEF SystemRight, Right
<1>2. /\ \A k \in DOMAIN osEnv : osEnv[k].name # << >> /\ ~EqualsFrom(2, osEnv[k].name)
      /\ \A k, m \in DOMAIN osEnv : SameName(osEnv[k].name, osEnv[m].name) => k = m
  BY DEF SystemRight, Right
<1>. DEFINE V == [name |-> n, value |-> w]
<1>3. V \in Variable /\ V.name = n /\ V.value = w
  BY DEF Variable
<1>4. CASE w = << >>
  <2>. DEFINE x == CHOOSE k \in Named(n) : TRUE
              e == RemoveAt(osEnv, x)
  <2>1. x \in 1 .. Len(osEnv) /\ SameName(osEnv[x].name, n)
    <3>1. Named(n) # {}
      BY <1>4 DEF Accepted
    <3>2. x \in Named(n)
      BY <3>1
    <3>. QED BY <1>1, <3>2 DEF Named
  <2>2. SetVariable(n, w) = e
    BY <1>4 DEF SetVariable
  <2>. HIDE DEF x
  <2>3. /\ e \in Seq(Variable) /\ Len(e) = Len(osEnv) - 1
        /\ \A k \in 1 .. Len(osEnv) - 1 : e[k] = IF k < x THEN osEnv[k] ELSE osEnv[k + 1]
    BY <1>1, <2>1, Removed
  <2>. DEFINE At(k) == IF k < x THEN k ELSE k + 1
  <2>4. DOMAIN e = 1 .. Len(osEnv) - 1
    BY <2>3
  <2>. HIDE DEF e
  <2>5. \A k \in DOMAIN e : At(k) \in DOMAIN osEnv /\ At(k) # x /\ e[k] = osEnv[At(k)]
    BY <1>1, <2>1, <2>3, <2>4
  <2>6. \A k, m \in DOMAIN e : At(k) = At(m) => k = m
    BY <1>1, <2>1, <2>4
  <2>. HIDE DEF At
  <2>7. \A k \in DOMAIN e : e[k].name # << >> /\ ~EqualsFrom(2, e[k].name)
    BY <1>2, <2>5
  <2>8. \A k, m \in DOMAIN e : SameName(e[k].name, e[m].name) => k = m
    BY <1>2, <2>5, <2>6
  <2>9. \A k \in DOMAIN e : ~SameName(e[k].name, n)
    <3>. SUFFICES ASSUME NEW k \in DOMAIN e, SameName(e[k].name, n) PROVE FALSE
      OBVIOUS
    <3>1. SameName(osEnv[At(k)].name, osEnv[x].name)
      BY <2>1, <2>5, NamesCompare
    <3>. QED BY <1>1, <1>2, <2>1, <2>5, <3>1
  <2>. QED BY <1>4, <2>2, <2>3, <2>7, <2>8, <2>9 DEF Right, Holds
<1>5. CASE w # << >> /\ Named(n) = {}
  <2>. DEFINE e == Append(osEnv, V)
              l == Len(osEnv) + 1
  <2>1. SetVariable(n, w) = e
    BY <1>5 DEF SetVariable
  <2>2. \A k \in DOMAIN osEnv : ~SameName(osEnv[k].name, n)
    BY <1>5 DEF Named
  <2>. HIDE DEF V
  <2>3. /\ e \in Seq(Variable) /\ DOMAIN e = 1 .. l /\ e[l] = V
        /\ \A k \in 1 .. Len(osEnv) : e[k] = osEnv[k]
    BY <1>1, <1>3, AppendProperties
  <2>4. l \in DOMAIN e /\ \A k \in DOMAIN e : k = l \/ k \in DOMAIN osEnv
    BY <1>1, <2>3
  <2>. HIDE DEF e, l
  <2>5. \A k \in DOMAIN e : \/ k = l /\ e[k] = V
                            \/ k \in DOMAIN osEnv /\ e[k] = osEnv[k]
    BY <1>1, <2>3, <2>4
  <2>6. \A k \in DOMAIN e : e[k].name # << >> /\ ~EqualsFrom(2, e[k].name)
    BY <1>2, <1>3, <2>5
  <2>7. ASSUME NEW k \in DOMAIN e, NEW m \in DOMAIN e, SameName(e[k].name, e[m].name) PROVE k = m
    <3>1. CASE k = l
      <4>1. SameName(n, e[m].name)
        BY <1>3, <2>3, <2>7, <3>1
      <4>. QED BY <2>2, <2>5, <3>1, <4>1, NamesCompare
    <3>2. CASE m = l
      <4>1. SameName(e[k].name, n)
        BY <1>3, <2>3, <2>7, <3>2
      <4>. QED BY <2>2, <2>5, <3>2, <4>1
    <3>3. CASE k # l /\ m # l
      BY <1>2, <2>5, <2>7, <3>3
    <3>. QED BY <3>1, <3>2, <3>3
  <2>8. \A k \in DOMAIN e : SameName(e[k].name, n) => e[k].value = w
    BY <1>3, <2>2, <2>5
  <2>9. SameName(e[l].name, n)
    BY <1>3, <2>3, NamesCompare
  <2>. QED BY <1>5, <2>1, <2>3, <2>4, <2>6, <2>7, <2>8, <2>9 DEF Right, Holds
<1>6. CASE w # << >> /\ Named(n) # {}
  <2>. DEFINE e == [k \in DOMAIN osEnv |-> IF k \in Named(n) THEN [osEnv[k] EXCEPT !.value = w] ELSE osEnv[k]]
  <2>1. SetVariable(n, w) = e
    BY <1>6 DEF SetVariable
  <2>2. ASSUME NEW k \in DOMAIN osEnv
        PROVE  e[k] \in Variable /\ e[k].name = osEnv[k].name /\ (k \in Named(n) => e[k].value = w)
    BY <1>1 DEF Variable
  <2>3. DOMAIN e = DOMAIN osEnv /\ e \in [1 .. Len(osEnv) -> Variable]
    BY <1>1, <2>2
  <2>. HIDE DEF e
  <2>4. e \in Seq(Variable)
    BY <1>1, <2>3
  <2>5. \A k \in DOMAIN e : k \in Named(n) <=> SameName(e[k].name, n)
    BY <2>2, <2>3 DEF Named
  <2>6. \E k \in DOMAIN e : SameName(e[k].name, n)
    BY <1>6, <2>3, <2>5 DEF Named
  <2>7. /\ \A k \in DOMAIN e : e[k].name # << >> /\ ~EqualsFrom(2, e[k].name)
        /\ \A k, m \in DOMAIN e : SameName(e[k].name, e[m].name) => k = m
    BY <1>2, <2>2, <2>3
  <2>. QED BY <1>6, <2>1, <2>2, <2>3, <2>4, <2>5, <2>6, <2>7 DEF Right, Holds
<1>. QED BY <1>4, <1>5, <1>6

\* Where the "=" is in what _putenv is given, if it is there.
LEMMA EqualsIs ==
  ASSUME NEW t \in EnvText, Equals(t) # 0
  PROVE  /\ Equals(t) \in 1 .. Len(t)
         /\ \A k \in 1 .. Equals(t) - 1 : t[k] # "="
<1>. DEFINE I == {k \in 1 .. Len(t) : t[k] = "="}
<1>1. Equals(t) = IF I # {} THEN Min(I) ELSE 0
  BY DEF Equals, SelectInSeq
<1>2. I \subseteq Nat /\ Len(t) \in Nat
  BY DEF EnvText
<1>3. Equals(t) \in I /\ \A k \in I : Equals(t) <= k
  <2>. HIDE DEF I
  <2>. QED BY <1>1, <1>2, Least
<1>4. ASSUME NEW k \in 1 .. Equals(t) - 1 PROVE t[k] # "="
  <2>1. k \in 1 .. Len(t) /\ ~(Equals(t) <= k)
    BY <1>2, <1>3
  <2>. QED BY <1>3, <2>1
<1>. QED BY <1>3, <1>4

\* The name and the value in what _putenv is given.
LEMMA AssignmentParts ==
  ASSUME NEW t \in EnvText, Equals(t) # 0
  PROVE  /\ NameOf(t) \in EnvText /\ ~EqualsFrom(2, NameOf(t))
         /\ ValueOf(t) \in EnvText
         /\ SubSeq(t, 1, Equals(t) - 1) \in EnvText /\ Len(SubSeq(t, 1, Equals(t) - 1)) = Equals(t) - 1
         /\ Equals(t) - 1 < NameCap => NameOf(t) = SubSeq(t, 1, Equals(t) - 1)
<1>. DEFINE e == Equals(t)
            S == DOMAIN Fold
<1>1. /\ e \in 1 .. Len(t) /\ Len(t) \in Nat /\ t \in Seq(S) /\ \A k \in 1 .. e - 1 : t[k] # "="
  BY EqualsIs DEF EnvText
<1>2. \A k \in 1 .. Len(t) : t[k] \in S
  BY <1>1
<1>. HIDE DEF e, S
<1>3. ASSUME NEW h \in Nat, h <= e - 1
      PROVE  SubSeq(t, 1, h) \in Seq(S) /\ Len(SubSeq(t, 1, h)) = h /\ ~EqualsFrom(2, SubSeq(t, 1, h))
  <2>. DEFINE a == SubSeq(t, 1, h)
  <2>1. \A k \in 1 .. h : k \in 1 .. Len(t) /\ k \in 1 .. e - 1
    BY <1>1, <1>3
  <2>2. /\ a \in Seq(S) /\ Len(a) = (IF 1 <= h THEN h - 1 + 1 ELSE 0)
        /\ \A k \in 1 .. h - 1 + 1 : a[k] = t[1 + k - 1]
    BY <1>2, <2>1, SubSeqProperties
  <2>. HIDE DEF a
  <2>3. Len(a) = h /\ DOMAIN a = 1 .. h /\ \A k \in 1 .. h : a[k] = t[k]
    BY <1>3, <2>2
  <2>4. ~EqualsFrom(2, a)
    BY <1>1, <2>1, <2>3 DEF EqualsFrom
  <2>. QED BY <2>2, <2>3, <2>4 DEF a
<1>. DEFINE h == IF e <= NameCap THEN e - 1 ELSE NameCap - 1
<1>4. h \in Nat /\ h <= e - 1 /\ e - 1 \in Nat /\ (e - 1 < NameCap => h = e - 1)
  BY <1>1, CapAssumption
<1>5. NameOf(t) = SubSeq(t, 1, h)
  BY DEF NameOf, e
<1>. HIDE DEF h
<1>6. ValueOf(t) \in Seq(S)
  <2>1. e + 1 \in Int /\ Len(t) \in Int /\ \A k \in e + 1 .. Len(t) : k \in 1 .. Len(t)
    BY <1>1
  <2>2. SubSeq(t, e + 1, Len(t)) \in Seq(S)
    BY <1>2, <2>1, SubSeqProperties
  <2>. QED BY <2>2 DEF ValueOf, e
<1>. QED BY <1>3, <1>4, <1>5, <1>6 DEF EnvText, e, S

LEMMA PutenvKeeps ==
  ASSUME EnvInv, NEW t \in Assignments, Putenv(t)
  PROVE  EnvInv'
<1>1. answer' = [answer EXCEPT !.memory = FALSE]
  BY DEF Putenv
<1>2. /\ answer' \in [name : EnvText, got : Seq(EnvText), memory : BOOLEAN]
      /\ ~answer'.memory
  BY <1>1 DEF EnvInv, AnswerRight
<1>3. SystemSays' /\ (answer.memory => answer.name # << >>)'
  BY <1>2 DEF SystemSays
<1>4. CASE Equals(t) # 0 /\ Accepted(NameOf(t), ValueOf(t))
  <2>. DEFINE n == NameOf(t)
              w == ValueOf(t)
              l == SubSeq(t, 1, Equals(t) - 1)
  <2>1. osEnv' = SetVariable(n, w) /\ envp' = << >> /\ put' = [name |-> l, value |-> w]
    BY <1>4 DEF Putenv
  <2>2. /\ n \in EnvText /\ ~EqualsFrom(2, n) /\ w \in EnvText /\ l \in EnvText
        /\ Len(l) < NameCap => n = l
    BY <1>4, AssignmentParts, QueriesAssumption
  <2>3. n # << >> /\ Accepted(n, w)
    BY <1>4 DEF Accepted
  <2>. HIDE DEF n, w, l
  <2>4. Right(osEnv') /\ Holds(osEnv', n, w)
    BY <2>1, <2>2, <2>3, SetVariableIs DEF EnvInv
  <2>5. SystemRight' /\ BlockFresh'
    BY <2>1, <2>4 DEF SystemRight, BlockFresh
  <2>6. put'.name = l /\ put'.value = w /\ put' \in Variable
    BY <2>1, <2>2 DEF Variable
  <2>7. PutStays'
    BY <2>2, <2>4, <2>6 DEF PutStays
  <2>. QED BY <1>2, <1>3, <2>5, <2>6, <2>7 DEF EnvInv, AnswerRight
<1>5. CASE ~(Equals(t) # 0 /\ Accepted(NameOf(t), ValueOf(t)))
  <2>1. osEnv' = osEnv /\ envp' = envp /\ put' = put
    BY <1>5 DEF Putenv
  <2>2. SystemRight' /\ PutStays' /\ BlockFresh'
    BY <2>1 DEF EnvInv, SystemRight, PutStays, BlockFresh, Block
  <2>. QED BY <1>2, <1>3, <2>1, <2>2 DEF EnvInv, AnswerRight
<1>. QED BY <1>4, <1>5

LEMMA InitEnvInv ==
  StartInit => EnvInv
<1>. SUFFICES ASSUME EnvInit PROVE EnvInv
  BY DEF StartInit
<1>1. SystemRight
  BY VariablesAssumption DEF EnvInit, SystemRight, Right, Variable
<1>2. << >> \in EnvText
  BY DEF EnvText
<1>3. put \in Variable /\ put.name = << >>
  BY <1>2 DEF EnvInit, None, Variable
<1>4. answer \in [name : EnvText, got : Seq(EnvText), memory : BOOLEAN] /\ ~answer.memory
  BY <1>2 DEF EnvInit
<1>5. BlockFresh
  BY DEF EnvInit, BlockFresh
<1>. QED BY <1>1, <1>3, <1>4, <1>5 DEF EnvInv, PutStays, AnswerRight, SystemSays

LEMMA StepEnvInv ==
  EnvInv /\ [StartNext]_startVars => EnvInv'
<1>. SUFFICES ASSUME EnvInv, [StartNext]_startVars PROVE EnvInv'
  OBVIOUS
<1>1. CASE UNCHANGED envVars
  <2>1. osEnv' = osEnv /\ envp' = envp /\ answer' = answer /\ put' = put
    BY <1>1 DEF envVars
  <2>2. SystemRight' /\ PutStays' /\ BlockFresh' /\ AnswerRight'
    BY <2>1 DEF EnvInv, SystemRight, PutStays, BlockFresh, Block, AnswerRight
  <2>3. SystemSays'
    <3>1. SystemSays' <=> (answer.memory => answer.got = IF FirstNamed(osEnv, answer.name) = 0 THEN << >>
                                                ELSE <<osEnv[FirstNamed(osEnv, answer.name)].value>>)'
      BY SystemSaysIs, PTL
    <3>. QED BY <2>1, <3>1, SystemSaysIs DEF EnvInv
  <2>. QED BY <2>2, <2>3 DEF EnvInv
<1>2. CASE Startup
  BY <1>2, StartupKeeps
<1>3. CASE \E n \in Queries : Getenv(n)
  BY <1>3, GetenvKeeps
<1>4. CASE \E t \in Assignments : Putenv(t)
  BY <1>4, PutenvKeeps
<1>5. UNCHANGED envVars \/ Startup \/ EnvNext
  BY DEF StartNext, SplitArguments, GetMainArgs, Main, startVars
<1>. QED BY <1>1, <1>2, <1>3, <1>4, <1>5 DEF EnvNext

(* What a program is told of a variable is what the system holds under that
   very name, and after _putenv it is what was put: in every sequence of
   startup, getenv and _putenv, whatever the environment and the names. *)
THEOREM EnvironmentIsCurrent == StartSpec => []GetenvIsCurrent
<1>. QED BY InitEnvInv, StepEnvInv, CurrentFromInv, PTL DEF StartSpec

(* In the startup, too, where the arguments are split before the environment is
   read and main runs, they fit what was allocated for them. *)
THEOREM StartFitsAllocation == StartSpec => []FitsAllocation
<1>1. StartInit => Init
  BY DEF StartInit
<1>2. [StartNext]_startVars => [Next]_vars
  BY DEF StartNext, SplitArguments, GetMainArgs, Main, startVars
<1>. QED BY <1>1, <1>2, InitIInv, StepIInv, FitsFromInv, PTL DEF StartSpec

(* ---- the arguments: the invariant ---- *)

\* The text t stands at offset o of the pool w, with its terminator.
Stands(w, o, t) ==
  /\ o \in Nat /\ Len(t) \in Nat /\ o + Len(t) + 1 <= Len(w)
  /\ \A k \in 1..Len(t) : w[o + k] = t[k] /\ w[o + k] # "nul"
  /\ w[o + Len(t) + 1] = "nul"

\* What the rules make of the k-th argument, and the first n of argv a hold it.
ArgText(c, k) ==
  IF k = 1 THEN NameText(c) ELSE Spelled(c, Span(c, InOrder(ArgStarts(c))[k - 1]))
Written(c, w, a, n) == \A k \in 1..n : Stands(w, a[k], ArgText(c, k))

\* In the name, e characters read and w written: w is what was read, but for a
\* quote, and the name has not ended.
InName(c, w, e) ==
  LET d == IF QuotedName(c) THEN 1 ELSE 0 IN
  /\ d <= e /\ e <= Len(c) /\ Len(w) = e - d
  /\ \A k \in 1..(e - d) : w[k] = c[k + d]
  /\ \A i \in 1..e : ~EndsName(c, i)

\* The quotes up to e that toggle, and the arguments that begin up to e.
TogglesTo(c, e) == {k \in RestPart(c) : k <= e /\ Toggles(c, k)}
StartsTo(c, e)  == {i \in ArgStarts(c) : i <= e}

\* Between arguments, n of them begun and ended: what comes next, if it is no
\* blank, begins an argument, outside quotes and after no backslash.
InGap(c, e, n) ==
  /\ Cardinality(StartsTo(c, e)) = n - 1
  /\ CharAt(c, e + 1) # "nul" => Cardinality(TogglesTo(c, e)) % 2 = 0
  /\ CharAt(c, e + 1) \notin Blank \cup {"nul"} =>
       /\ e \in RestPart(c) => Separates(c, e)
       /\ e >= 1 /\ c[e] # "backslash"

\* In the n-th argument, which begins at b: no blank read separates, and q
\* tells whether it is between quotes.
InArg(c, e, n, b, q) ==
  /\ n >= 2 /\ b \in ArgStarts(c) /\ Rank(ArgStarts(c), b) = n - 2 /\ b <= e + 1
  /\ \A i \in b..e : ~Separates(c, i)
  /\ Cardinality(TogglesTo(c, e)) % 2 = q

\* The s backslashes counted are the last characters read, and all in a row.
Counted(c, e, b, s) ==
  /\ s <= e + 1 - b /\ \A i \in (e - s + 1)..e : c[i] = "backslash"
  /\ s > 0 \/ CharAt(c, e + 1) \in {"quote", "backslash"} => e - s >= 1 /\ c[e - s] # "backslash"

\* What stays of an argument that begins at b, up to e, is written at o.
Kept(c, b, e) == {i \in b..e : Stays(c, i)}
InPool(c, w, o, b, e) ==
  LET K == Kept(c, b, e) IN
  /\ o \in Nat /\ Len(w) = o + Cardinality(K)
  /\ \A k \in 1..Cardinality(K) : w[o + k] = c[InOrder(K)[k]] /\ w[o + k] # "nul"

\* Where the argument that is being written begins.
Began == InOrder(ArgStarts(cmd))[Len(argv) - 1]

NameRight ==
  pc \in {"name", "quotedName"} =>
    (pc = "quotedName" <=> QuotedName(cmd)) /\ argv = <<0>> /\ InName(cmd, pool, p)
GapRight ==
  pc \in {"gap", "done"} =>
    Written(cmd, pool, argv, Len(argv)) /\ InGap(cmd, p, Len(argv)) /\ (pc = "done" => p = Len(cmd))
ArgRight ==
  pc \in {"arg", "slashes"} =>
    /\ Written(cmd, pool, argv, Len(argv) - 1)
    /\ InArg(cmd, p, Len(argv), Began, quoted) /\ Counted(cmd, p, Began, slashes)
    /\ InPool(cmd, pool, argv[Len(argv)], Began, p - slashes)
    /\ pc = "slashes" <=> slashes > 0
RestRight == pc \in {"gap", "arg", "slashes", "done"} => RestBegin(cmd) \in 1..(p + 1) /\ Len(argv) >= 1

ArgvInv == NameRight /\ GapRight /\ ArgRight /\ RestRight

(* ---- numbers in their order ---- *)

LEMMA RankOf ==
  ASSUME NEW S, IsFiniteSet(S), \A j \in S : j \in Int, NEW b \in S
  PROVE  Rank(S, b) \in Nat /\ Cardinality(S) \in Nat /\ Rank(S, b) < Cardinality(S)
         /\ InOrder(S)[Rank(S, b) + 1] = b
<1>. DEFINE Below(i) == {j \in S : j < i}
<1>1. ASSUME NEW i \in S
      PROVE  /\ IsFiniteSet(Below(i)) /\ Cardinality(Below(i)) \in Nat
             /\ \A j \in S : i < j => Cardinality(Below(i)) + 1 <= Cardinality(Below(j))
             /\ Cardinality(Below(i)) + 1 <= Cardinality(S)
  <2>1. IsFiniteSet(Below(i)) /\ Cardinality(Below(i)) \in Nat
    BY FS_Subset, FS_CardinalityType
  <2>2. i \notin Below(i) /\ Below(i) \cup {i} \subseteq S
    OBVIOUS
  <2>3. Cardinality(Below(i) \cup {i}) = Cardinality(Below(i)) + 1
    BY <2>1, <2>2, FS_AddElement
  <2>4. Cardinality(Below(i)) + 1 <= Cardinality(S)
    BY <2>2, <2>3, FS_Subset
  <2>5. ASSUME NEW j \in S, i < j PROVE Cardinality(Below(i)) + 1 <= Cardinality(Below(j))
    <3>1. Below(i) \cup {i} \subseteq Below(j) /\ Below(j) \subseteq S
      <4>1. i \in Int /\ j \in Int /\ i \in Below(j)
        BY <2>5
      <4>2. ASSUME NEW y \in Below(i) PROVE y \in Below(j)
        BY <2>5, <4>1
      <4>. QED BY <4>1, <4>2
    <3>2. IsFiniteSet(Below(j))
      BY <3>1, FS_Subset
    <3>. QED BY <2>3, <3>1, <3>2, FS_Subset
  <2>. QED BY <2>1, <2>4, <2>5
<1>2. \A i \in S : Rank(S, i) = Cardinality(Below(i))
  BY DEF Rank
<1>. HIDE DEF Below
<1>3. Cardinality(S) \in Nat
  BY FS_CardinalityType
<1>4. Rank(S, b) \in Nat /\ Rank(S, b) < Cardinality(S)
  BY <1>1, <1>2, <1>3
<1>5. ASSUME NEW j \in S, Rank(S, j) = Rank(S, b) PROVE j = b
  <2>1. ~(j < b) /\ ~(b < j)
    BY <1>1, <1>2, <1>5
  <2>. QED BY <2>1
<1>6. {j \in S : Rank(S, j) = (Rank(S, b) + 1) - 1} = {b}
  <2>1. (Rank(S, b) + 1) - 1 = Rank(S, b)
    BY <1>4
  <2>. QED BY <1>5, <2>1
<1>7. (CHOOSE i \in {b} : TRUE) = b
  OBVIOUS
<1>8. Rank(S, b) + 1 \in 1..Cardinality(S)
  BY <1>3, <1>4
<1>. QED BY <1>3, <1>4, <1>6, <1>7, <1>8 DEF InOrder

\* A stretch past all others comes after them, in its order.
Lengthened(K, x, n, T) ==
  /\ IsFiniteSet(K) /\ (\A j \in K : j \in Int /\ j < x)
  /\ x \in Int /\ n \in Nat /\ T = K \cup (x..(x + n - 1))

LEMMA Extended ==
  ASSUME NEW K, NEW x, NEW n, NEW T, Lengthened(K, x, n, T)
  PROVE  /\ Cardinality(K) \in Nat /\ Cardinality(T) = Cardinality(K) + n
         /\ \A k \in 1..Cardinality(K) : InOrder(T)[k] = InOrder(K)[k]
         /\ \A m \in 1..n : InOrder(T)[Cardinality(K) + m] = x + m - 1
<1>. DEFINE I == x..(x + n - 1)
            S == K \cup I
<1>0. /\ T = S /\ IsFiniteSet(K) /\ (\A j \in K : j \in Int /\ j < x) /\ x \in Int /\ n \in Nat
  BY DEF Lengthened
<1>1. IsFiniteSet(I) /\ Cardinality(I) = n /\ (\A j \in I : j \in Int) /\ K \cap I = {}
  <2>1. x \in Int /\ x + n - 1 \in Int /\ (x > x + n - 1 => n = 0) /\ (~(x > x + n - 1) => (x + n - 1) - x + 1 = n)
    BY <1>0
  <2>2. IsFiniteSet(I) /\ Cardinality(I) = n
    BY <2>1, FS_Interval
  <2>3. (\A j \in I : j \in Int) /\ K \cap I = {}
    BY <1>0
  <2>. QED BY <2>2, <2>3
<1>2. Cardinality(K \cap I) = 0
  <2>1. K \cap I = {}
    BY <1>1
  <2>. QED BY ONLY <2>1, FS_EmptySet
<1>3. Cardinality(K) \in Nat
  BY ONLY <1>0, FS_CardinalityType
<1>4. IsFiniteSet(S) /\ (\A j \in S : j \in Int) /\ Cardinality(S) = Cardinality(K) + n
  <2>1. IsFiniteSet(S) /\ Cardinality(S) = Cardinality(K) + n - 0
    <3>. HIDE DEF I
    <3>1. IsFiniteSet(K) /\ IsFiniteSet(I)
      BY <1>0, <1>1
    <3>2. IsFiniteSet(K \cup I) /\ Cardinality(K \cup I) = Cardinality(K) + Cardinality(I) - Cardinality(K \cap I)
      BY ONLY <3>1, FS_Union
    <3>. QED BY <1>1, <1>2, <3>2
  <2>2. \A j \in S : j \in Int
    BY <1>0, <1>1
  <2>. HIDE DEF S
  <2>. QED BY ONLY <1>0, <1>3, <2>1, <2>2
<1>5. ASSUME NEW j \in K
      PROVE  Rank(S, j) = Rank(K, j) /\ Rank(K, j) \in Nat /\ Rank(K, j) < Cardinality(K)
  <2>1. {i \in S : i < j} = {i \in K : i < j}
    BY <1>0, <1>1
  <2>2. Rank(S, j) = Rank(K, j)
    BY <2>1 DEF Rank
  <2>. QED BY <1>0, <2>2, RankOf
<1>6. ASSUME NEW j \in I PROVE Rank(S, j) = Cardinality(K) + (j - x)
  <2>. DEFINE J == x..(j - 1)
  <2>1. j \in Int /\ j - 1 \in Int /\ (x > j - 1 => j - x = 0) /\ (~(x > j - 1) => (j - 1) - x + 1 = j - x) /\ x \in Int /\ j >= x
    BY <1>0
  <2>2. IsFiniteSet(J) /\ Cardinality(J) = j - x /\ K \cap J = {}
    <3>1. IsFiniteSet(J) /\ Cardinality(J) = j - x
      BY <2>1, FS_Interval
    <3>2. K \cap J = {}
      BY <1>0
    <3>. QED BY <3>1, <3>2
  <2>3. Cardinality(K \cap J) = 0
    BY <2>2, FS_EmptySet
  <2>4. {i \in S : i < j} = K \cup J
    <3>1. ASSUME NEW i \in S, i < j PROVE i \in K \cup J
      <4>1. CASE i \in K
        BY <4>1
      <4>2. CASE i \in I
        BY <1>0, <2>1, <3>1, <4>2
      <4>. QED BY <4>1, <4>2
    <3>2. ASSUME NEW i \in K \cup J PROVE i \in S /\ i < j
      BY <1>0, <2>1, <3>2
    <3>. QED BY <3>1, <3>2
  <2>5. Cardinality(K \cup J) = Cardinality(K) + (j - x)
    <3>. HIDE DEF J
    <3>1. Cardinality(K \cup J) = Cardinality(K) + Cardinality(J) - 0
      <4>1. IsFiniteSet(K) /\ IsFiniteSet(J)
        BY <1>0, <2>2
      <4>2. Cardinality(K \cup J) = Cardinality(K) + Cardinality(J) - Cardinality(K \cap J)
        BY ONLY <4>1, FS_Union
      <4>. QED BY ONLY <2>3, <4>2
    <3>. QED BY ONLY <1>0, <1>3, <2>1, <2>2, <3>1
  <2>. QED BY <2>4, <2>5 DEF Rank
<1>7. ASSUME NEW k \in 1..Cardinality(K) PROVE InOrder(S)[k] = InOrder(K)[k]
  <2>1. ASSUME NEW j \in I PROVE Rank(S, j) # k - 1
    <3>1. Rank(S, j) = Cardinality(K) + (j - x) /\ j \in Int /\ j >= x
      <4>1. j \in Int /\ j >= x
        BY <1>0
      <4>. HIDE DEF S, I
      <4>. QED BY ONLY j \in I, <1>6, <4>1
    <3>. HIDE DEF S, I
    <3>. QED BY ONLY <1>0, <1>3, <3>1, k \in 1..Cardinality(K)
  <2>2. {j \in S : Rank(S, j) = k - 1} = {j \in K : Rank(K, j) = k - 1}
    <3>1. \A j \in K : j \in S
      OBVIOUS
    <3>2. \A j \in S : j \in K \/ j \in I
      OBVIOUS
    <3>. HIDE DEF S, I
    <3>. QED BY ONLY <1>5, <2>1, <3>1, <3>2
  <2>3. k \in 1..Cardinality(S)
    <3>. HIDE DEF S
    <3>. QED BY ONLY <1>0, <1>3, <1>4, k \in 1..Cardinality(K)
  <2>. HIDE DEF S
  <2>. QED BY <2>2, <2>3 DEF InOrder
<1>8. ASSUME NEW m \in 1..n PROVE InOrder(S)[Cardinality(K) + m] = x + m - 1
  <2>0. PICK j \in Int : j = x + m - 1
    BY <1>0
  <2>1. j \in I /\ j \in S /\ j - x = m - 1
    BY <1>0, <2>0
  <2>. HIDE DEF S, I
  <2>3. Rank(S, j) = Cardinality(K) + (j - x)
    BY ONLY <1>6, <2>1
  <2>2. Rank(S, x + m - 1) + 1 = Cardinality(K) + m /\ x + m - 1 \in S
    <3>1. Rank(S, j) + 1 = Cardinality(K) + m
      BY ONLY <1>0, <1>3, <2>1, <2>3, m \in 1..n
    <3>. QED BY ONLY <2>0, <2>1, <3>1
  <2>. QED BY <1>4, <2>2, RankOf
<1>. HIDE DEF S
<1>. QED BY ONLY <1>0, <1>3, <1>4, <1>7, <1>8

(* ---- the command line ---- *)

LEMMA CharIs ==
  ASSUME NEW c \in Seq(Char)
  PROVE  /\ Len(c) \in Nat
         /\ \A i \in 1..Len(c) : CharAt(c, i) = c[i] /\ c[i] \in Char /\ c[i] # "nul"
         /\ CharAt(c, Len(c) + 1) = "nul"
         /\ \A i \in Int : CharAt(c, i) # "nul" => i \in 1..Len(c)
<1>1. "nul" \notin Char
  BY CharAssumption DEF Char, Special
<1>. QED BY <1>1 DEF CharAt

LEMMA LeastIs ==
  ASSUME NEW S, \A x \in S : x \in Int, NEW e \in S, \A x \in S : e <= x
  PROVE  Min(S) = e
<1>1. \E x \in S : \A y \in S : x <= y
  OBVIOUS
<1>2. Min(S) \in S /\ \A y \in S : Min(S) <= y
  BY <1>1 DEF Min
<1>3. Min(S) <= e /\ e <= Min(S) /\ Min(S) \in Int /\ e \in Int
  BY <1>2
<1>. QED BY <1>3

LEMMA GreatestIs ==
  ASSUME NEW S, \A x \in S : x \in Int, NEW e \in S, \A x \in S : x <= e
  PROVE  Max(S) = e
<1>1. \E x \in S : \A y \in S : x >= y
  OBVIOUS
<1>2. Max(S) \in S /\ \A y \in S : Max(S) >= y
  BY <1>1 DEF Max
<1>3. Max(S) >= e /\ e >= Max(S) /\ Max(S) \in Int /\ e \in Int
  BY <1>2
<1>. QED BY <1>3

LEMMA NameEndIs ==
  ASSUME NEW c \in Seq(Char), NEW e \in 0..Len(c),
         \A i \in 1..e : ~EndsName(c, i), EndsName(c, e + 1)
  PROVE  NameEnd(c) = e + 1
<1>. DEFINE S == {i \in 1..(Len(c) + 1) : EndsName(c, i)}
<1>1. Len(c) \in Nat
  BY CharIs
<1>2. e + 1 \in S /\ \A x \in S : x \in Int
  BY <1>1
<1>3. ASSUME NEW x \in S PROVE e + 1 <= x
  BY <1>1
<1>. HIDE DEF S
<1>4. Min(S) = e + 1
  BY <1>2, <1>3, LeastIs
<1>. QED BY <1>4 DEF NameEnd, S

LEMMA RunBeforeIs ==
  ASSUME NEW c \in Seq(Char), NEW i \in 1..(Len(c) + 1), NEW s \in 0..(i - 1),
         \A k \in (i - s)..(i - 1) : c[k] = "backslash",
         s < i - 1 => c[i - s - 1] # "backslash"
  PROVE  RunBefore(c, i) = s
<1>. DEFINE S == {n \in 0..(i - 1) : \A k \in (i - n)..(i - 1) : c[k] = "backslash"}
<1>1. Len(c) \in Nat /\ i \in Int /\ s \in Int
  BY CharIs
<1>2. s \in S /\ \A x \in S : x \in Int
  OBVIOUS
<1>3. ASSUME NEW x \in S, ~(x <= s) PROVE FALSE
  <2>1. x \in Int /\ x <= i - 1 /\ s < i - 1 /\ i - s - 1 \in (i - x)..(i - 1)
    BY <1>1, <1>3
  <2>2. \A k \in (i - x)..(i - 1) : c[k] = "backslash"
    OBVIOUS
  <2>. QED BY <2>1, <2>2
<1>. HIDE DEF S
<1>4. Max(S) = s
  BY <1>2, <1>3, GreatestIs
<1>. QED BY <1>4 DEF RunBefore, S

LEMMA RunFromIs ==
  ASSUME NEW c \in Seq(Char), NEW i \in 1..Len(c), NEW s \in 0..(Len(c) - i + 1),
         \A k \in i..(i + s - 1) : c[k] = "backslash", CharAt(c, i + s) # "backslash"
  PROVE  RunFrom(c, i) = s
<1>. DEFINE S == {n \in 0..(Len(c) - i + 1) : \A k \in i..(i + n - 1) : c[k] = "backslash"}
<1>1. Len(c) \in Nat /\ i \in Int /\ s \in Int
  BY CharIs
<1>2. s \in S /\ \A x \in S : x \in Int
  BY <1>1
<1>3. ASSUME NEW x \in S, ~(x <= s) PROVE FALSE
  <2>1. x \in Int /\ x <= Len(c) - i + 1 /\ i + s \in i..(i + x - 1) /\ i + s \in 1..Len(c)
    BY <1>1, <1>3
  <2>2. \A k \in i..(i + x - 1) : c[k] = "backslash"
    OBVIOUS
  <2>3. CharAt(c, i + s) = c[i + s]
    BY <2>1, CharIs
  <2>. QED BY <2>1, <2>2, <2>3
<1>. HIDE DEF S
<1>4. Max(S) = s
  BY <1>2, <1>3, GreatestIs
<1>. QED BY <1>4 DEF RunFrom, S

\* The character after the first e: what it adds to the quotes that toggle and
\* to the arguments begun.
LEMMA NextChar ==
  ASSUME NEW c \in Seq(Char), NEW e \in Nat, RestBegin(c) \in 1..(e + 1), e + 1 <= Len(c)
  PROVE  /\ e + 1 \in RestPart(c)
         /\ Cardinality(TogglesTo(c, e)) \in Nat
         /\ Cardinality(TogglesTo(c, e + 1)) = Cardinality(TogglesTo(c, e)) + (IF Toggles(c, e + 1) THEN 1 ELSE 0)
         /\ Inside(c, e + 1) <=> Cardinality(TogglesTo(c, e)) % 2 = 1
         /\ Cardinality(StartsTo(c, e)) \in Nat
         /\ Cardinality(StartsTo(c, e + 1)) = Cardinality(StartsTo(c, e)) + (IF e + 1 \in ArgStarts(c) THEN 1 ELSE 0)
         /\ Rank(ArgStarts(c), e + 1) = Cardinality(StartsTo(c, e))
<1>1. Len(c) \in Nat /\ RestBegin(c) \in Int
  BY CharIs
<1>2. e + 1 \in RestPart(c) /\ \A k \in RestPart(c) : k \in Int
  BY <1>1 DEF RestPart
<1>3. IsFiniteSet(RestPart(c))
  BY <1>1, FS_Interval DEF RestPart
<1>4. IsFiniteSet(TogglesTo(c, e)) /\ Cardinality(TogglesTo(c, e)) \in Nat
  <2>1. TogglesTo(c, e) \subseteq RestPart(c)
    BY DEF TogglesTo
  <2>. QED BY <1>3, <2>1, FS_Subset, FS_CardinalityType
<1>5. IsFiniteSet(StartsTo(c, e)) /\ Cardinality(StartsTo(c, e)) \in Nat
  <2>1. StartsTo(c, e) \subseteq RestPart(c)
    BY DEF StartsTo, ArgStarts
  <2>. QED BY <1>3, <2>1, FS_Subset, FS_CardinalityType
<1>6. \A k \in RestPart(c) : (k <= e + 1 <=> (k <= e \/ k = e + 1)) /\ (k < e + 1 <=> k <= e)
  BY <1>2
<1>7. TogglesTo(c, e + 1) = IF Toggles(c, e + 1) THEN TogglesTo(c, e) \cup {e + 1} ELSE TogglesTo(c, e)
  <2>1. \A k \in RestPart(c) : k \in TogglesTo(c, e + 1) <=> k \in TogglesTo(c, e) \/ (k = e + 1 /\ Toggles(c, e + 1))
    BY <1>6 DEF TogglesTo
  <2>2. \A k : k \in TogglesTo(c, e) \cup TogglesTo(c, e + 1) => k \in RestPart(c)
    BY DEF TogglesTo
  <2>. QED BY <1>2, <2>1, <2>2
<1>8. e + 1 \notin TogglesTo(c, e) /\ e + 1 \notin StartsTo(c, e)
  BY DEF TogglesTo, StartsTo
<1>9. Cardinality(TogglesTo(c, e + 1)) = Cardinality(TogglesTo(c, e)) + (IF Toggles(c, e + 1) THEN 1 ELSE 0)
  <2>1. Cardinality(TogglesTo(c, e) \cup {e + 1}) = Cardinality(TogglesTo(c, e)) + 1
    BY <1>4, <1>8, FS_AddElement
  <2>. QED BY <1>4, <1>7, <2>1
<1>10. {k \in RestPart(c) : k < e + 1 /\ Toggles(c, k)} = TogglesTo(c, e)
  BY <1>6 DEF TogglesTo
<1>11. \A k \in ArgStarts(c) : k \in RestPart(c)
  BY DEF ArgStarts
<1>12. StartsTo(c, e + 1) = IF e + 1 \in ArgStarts(c) THEN StartsTo(c, e) \cup {e + 1} ELSE StartsTo(c, e)
  <2>1. \A k \in ArgStarts(c) : k \in StartsTo(c, e + 1) <=> k \in StartsTo(c, e) \/ k = e + 1
    BY <1>6, <1>11 DEF StartsTo
  <2>2. \A k : k \in StartsTo(c, e) \cup StartsTo(c, e + 1) => k \in ArgStarts(c)
    BY DEF StartsTo
  <2>. QED BY <2>1, <2>2
<1>13. Cardinality(StartsTo(c, e + 1)) = Cardinality(StartsTo(c, e)) + (IF e + 1 \in ArgStarts(c) THEN 1 ELSE 0)
  <2>1. Cardinality(StartsTo(c, e) \cup {e + 1}) = Cardinality(StartsTo(c, e)) + 1
    BY <1>5, <1>8, FS_AddElement
  <2>. QED BY <1>5, <1>12, <2>1
<1>14. {j \in ArgStarts(c) : j < e + 1} = StartsTo(c, e)
  BY <1>6, <1>11 DEF StartsTo
<1>. QED BY <1>2, <1>4, <1>5, <1>9, <1>10, <1>13, <1>14 DEF Inside, Rank

LEMMA StartsFinite ==
  ASSUME NEW c \in Seq(Char), RestBegin(c) \in Nat
  PROVE  IsFiniteSet(ArgStarts(c)) /\ \A i \in ArgStarts(c) : i \in Int /\ i \in RestPart(c)
<1>1. Len(c) \in Nat /\ RestBegin(c) \in Int
  BY CharIs
<1>2. ArgStarts(c) \subseteq RestPart(c) /\ \A k \in RestPart(c) : k \in Int
  BY <1>1 DEF RestPart, ArgStarts
<1>3. IsFiniteSet(RestPart(c))
  BY <1>1, FS_Interval DEF RestPart
<1>. QED BY <1>2, <1>3, FS_Subset

(* ---- what is written ---- *)

LEMMA KeptFinite ==
  ASSUME NEW c, NEW b \in Int, NEW e \in Int
  PROVE  IsFiniteSet(Kept(c, b, e)) /\ \A i \in Kept(c, b, e) : i \in Int /\ i <= e
<1>1. Kept(c, b, e) \subseteq b..e
  BY DEF Kept
<1>2. IsFiniteSet(b..e)
  BY FS_Interval
<1>. QED BY <1>1, <1>2, FS_Subset

\* v is w with the characters x to y of c behind it.
Adds(c, w, v, x, y) ==
  /\ Len(v) = Len(w) + (y - x + 1) /\ \A k \in 1..Len(w) : v[k] = w[k]
  /\ \A i \in x..y : v[Len(w) + (i - x + 1)] = c[i] /\ v[Len(w) + (i - x + 1)] # "nul"

\* The characters of a stretch that stays, written after what was.
LEMMA Wrote ==
  ASSUME NEW c, NEW b \in Int, NEW e \in Int, NEW f \in Int, NEW x \in Int, NEW y \in Int, e < x, x <= y + 1,
         Kept(c, b, f) = Kept(c, b, e) \cup (x..y),
         NEW w, NEW v, NEW o, InPool(c, w, o, b, e), Adds(c, w, v, x, y)
  PROVE  InPool(c, v, o, b, f)
<1>. DEFINE K == Kept(c, b, e)
            S == Kept(c, b, f)
            N == Cardinality(K)
<1>a. /\ Len(v) = Len(w) + (y - x + 1) /\ \A k \in 1..Len(w) : v[k] = w[k]
      /\ \A i \in x..y : v[Len(w) + (i - x + 1)] = c[i] /\ v[Len(w) + (i - x + 1)] # "nul"
  BY DEF Adds
<1>n. PICK n \in Nat : n = y - x + 1
  OBVIOUS
<1>0. /\ n \in Nat /\ y = x + n - 1 /\ Len(v) = Len(w) + n
      /\ \A m \in 1..n : v[Len(w) + m] = c[x + m - 1] /\ v[Len(w) + m] # "nul"
  <2>1. \A m \in 1..n : x + m - 1 \in x..y /\ (x + m - 1) - x + 1 = m
    BY <1>n
  <2>2. ASSUME NEW m \in 1..n PROVE v[Len(w) + m] = c[x + m - 1] /\ v[Len(w) + m] # "nul"
    <3>. DEFINE i == x + m - 1
    <3>1. i \in x..y /\ i - x + 1 = m
      BY <2>1
    <3>. HIDE DEF i
    <3>2. v[Len(w) + (i - x + 1)] = c[i] /\ v[Len(w) + (i - x + 1)] # "nul"
      BY <1>a, <3>1
    <3>. QED BY <3>1, <3>2 DEF i
  <2>. QED BY <1>a, <1>n, <2>2
<1>1. IsFiniteSet(K) /\ \A i \in K : i \in Int /\ i < x
  BY KeptFinite
<1>. HIDE DEF K
<1>2. /\ N \in Nat /\ Cardinality(S) = N + n
      /\ \A k \in 1..N : InOrder(S)[k] = InOrder(K)[k]
      /\ \A m \in 1..n : InOrder(S)[N + m] = x + m - 1
  <2>1. S = K \cup (x..(x + n - 1))
    BY <1>0 DEF K
  <2>2. Lengthened(K, x, n, S)
    BY <1>1, <2>1 DEF Lengthened
  <2>. HIDE DEF S, N
  <2>3. /\ Cardinality(K) \in Nat /\ Cardinality(S) = Cardinality(K) + n
        /\ \A k \in 1..Cardinality(K) : InOrder(S)[k] = InOrder(K)[k]
        /\ \A m \in 1..n : InOrder(S)[Cardinality(K) + m] = x + m - 1
    BY ONLY <2>2, Extended
  <2>. QED BY ONLY <2>3 DEF N
<1>3. o \in Nat /\ Len(w) = o + N /\ \A k \in 1..N : w[o + k] = c[InOrder(K)[k]] /\ w[o + k] # "nul"
  BY DEF InPool, K
<1>. HIDE DEF N, S
<1>4. ASSUME NEW k \in 1..(N + n) PROVE v[o + k] = c[InOrder(S)[k]] /\ v[o + k] # "nul"
  <2>1. CASE k <= N
    <3>1. k \in 1..N /\ o + k \in 1..Len(w)
      BY <1>2, <1>3, <2>1
    <3>. QED BY <1>a, <1>2, <1>3, <3>1
  <2>2. CASE ~(k <= N)
    <3>1. k - N \in 1..n /\ N + (k - N) = k /\ Len(w) + (k - N) = o + k
      BY <1>0, <1>2, <1>3, <2>2
    <3>2. InOrder(S)[k] = x + (k - N) - 1
      BY <1>2, <3>1
    <3>. QED BY <1>0, <3>1, <3>2
  <2>. QED BY <2>1, <2>2
<1>5. Len(v) = o + Cardinality(S)
  BY <1>0, <1>2, <1>3
<1>. QED BY <1>2, <1>3, <1>4, <1>5 DEF InPool, S

\* What was written stands while more is written behind it.
LEMMA StillWritten ==
  ASSUME NEW c, NEW n \in Nat, NEW w, NEW v, NEW a, NEW d, Written(c, w, a, n),
         Len(w) \in Nat, Len(v) \in Nat, Len(w) <= Len(v), \A k \in 1..Len(w) : v[k] = w[k],
         \A k \in 1..n : d[k] = a[k]
  PROVE  Written(c, v, d, n)
<1>. SUFFICES ASSUME NEW k \in 1..n PROVE Stands(v, d[k], ArgText(c, k))
  BY DEF Written
<1>. DEFINE t == ArgText(c, k)
            o == a[k]
<1>1. Stands(w, o, t) /\ d[k] = o
  BY DEF Written
<1>. HIDE DEF t, o
<1>2. o \in Nat /\ Len(t) \in Nat /\ o + Len(t) + 1 <= Len(w) /\ w[o + Len(t) + 1] = "nul"
      /\ \A m \in 1..Len(t) : w[o + m] = t[m] /\ w[o + m] # "nul"
  BY <1>1 DEF Stands
<1>3. o + Len(t) + 1 \in 1..Len(w) /\ \A m \in 1..Len(t) : o + m \in 1..Len(w)
  BY <1>2
<1>4. Stands(v, o, t)
  <2>1. v[o + Len(t) + 1] = "nul" /\ o + Len(t) + 1 <= Len(v)
    BY <1>2, <1>3
  <2>2. \A m \in 1..Len(t) : v[o + m] = t[m] /\ v[o + m] # "nul"
    BY <1>2, <1>3
  <2>. QED BY <1>2, <2>1, <2>2 DEF Stands
<1>. QED BY <1>1, <1>4 DEF t

\* Each argument of the rules is a text.
LEMMA SpelledIs ==
  ASSUME NEW c \in Seq(Char), NEW S, IsFiniteSet(S)
  PROVE  LET kept == {i \in S : Stays(c, i)} IN
         /\ Cardinality(kept) \in Nat /\ Len(Spelled(c, S)) = Cardinality(kept)
         /\ DOMAIN Spelled(c, S) = 1..Cardinality(kept)
         /\ \A k \in 1..Cardinality(kept) : Spelled(c, S)[k] = c[InOrder(kept)[k]]
<1>. DEFINE kept == {i \in S : Stays(c, i)}
<1>1. Cardinality(kept) \in Nat
  BY FS_Subset, FS_CardinalityType
<1>. HIDE DEF kept
<1>2. Spelled(c, S) = [k \in 1..Cardinality(kept) |-> c[InOrder(kept)[k]]]
  BY DEF Spelled, kept
<1>3. Len(Spelled(c, S)) = Cardinality(kept)
  BY <1>1, <1>2
<1>. QED BY <1>1, <1>2, <1>3 DEF kept

(* ---- one character more ---- *)

LEMMA Plain ==
  ASSUME NEW c, NEW i, c[i] \notin {"quote", "backslash"}
  PROVE  ~Toggles(c, i) /\ Stays(c, i)
BY DEF Toggles, Stays, Halved

LEMMA NoSlash ==
  ASSUME NEW c \in Seq(Char), NEW e \in Nat, e >= 1, e + 1 <= Len(c), c[e] # "backslash"
  PROVE  RunBefore(c, e + 1) = 0
<1>1. Len(c) \in Nat /\ e + 1 \in 1..(Len(c) + 1) /\ 0 \in 0..((e + 1) - 1) /\ (e + 1) - 0 - 1 = e
      /\ \A k \in ((e + 1) - 0)..((e + 1) - 1) : c[k] = "backslash"
  BY CharIs
<1>. QED BY <1>1, RunBeforeIs

LEMMA Advances ==
  ASSUME NEW c \in Seq(Char), NEW e \in Nat, e + 1 <= Len(c), RestBegin(c) \in 1..(e + 1),
         NEW n \in Nat, NEW b, NEW q \in {0, 1}, InArg(c, e, n, b, q), ~Separates(c, e + 1)
  PROVE  b \in Int /\ InArg(c, e + 1, n, b, IF Toggles(c, e + 1) THEN 1 - q ELSE q)
<1>1. b \in Int
  BY StartsFinite DEF InArg
<1>2. \A i \in b..(e + 1) : i \in b..e \/ i = e + 1
  BY <1>1
<1>3. \A i \in b..(e + 1) : ~Separates(c, i)
  BY <1>2 DEF InArg
<1>4. Cardinality(TogglesTo(c, e + 1)) % 2 = IF Toggles(c, e + 1) THEN 1 - q ELSE q
  <2>. DEFINE T == Cardinality(TogglesTo(c, e))
  <2>1. T \in Nat /\ T % 2 = q
        /\ Cardinality(TogglesTo(c, e + 1)) = T + (IF Toggles(c, e + 1) THEN 1 ELSE 0)
    BY NextChar DEF InArg
  <2>. HIDE DEF T
  <2>. QED BY <2>1
<1>. QED BY <1>1, <1>3, <1>4 DEF InArg

LEMMA OneKept ==
  ASSUME NEW c, NEW b \in Int, NEW e \in Int, b <= e + 1
  PROVE  Kept(c, b, e + 1) = IF Stays(c, e + 1) THEN Kept(c, b, e) \cup ((e + 1)..(e + 1))
                             ELSE Kept(c, b, e)
<1>1. \A i : i \in b..(e + 1) <=> i \in b..e \/ i = e + 1
  OBVIOUS
<1>2. (e + 1)..(e + 1) = {e + 1}
  OBVIOUS
<1>3. \A i : i \in Kept(c, b, e + 1) <=> i \in Kept(c, b, e) \/ (i = e + 1 /\ Stays(c, e + 1))
  BY <1>1 DEF Kept
<1>. QED BY <1>2, <1>3

(* ---- between arguments ---- *)

LEMMA BlankKeepsGap ==
  ASSUME NEW c \in Seq(Char), NEW e \in Nat, e + 1 <= Len(c), RestBegin(c) \in 1..(e + 1),
         NEW n \in Nat, InGap(c, e, n), c[e + 1] \in Blank
  PROVE  InGap(c, e + 1, n)
<1>1. CharAt(c, e + 1) = c[e + 1] /\ c[e + 1] # "nul"
  BY CharIs
<1>. DEFINE T == Cardinality(TogglesTo(c, e))
<1>2. T \in Nat /\ T % 2 = 0 /\ ~(T % 2 = 1)
  BY <1>1, NextChar DEF InGap
<1>3. Separates(c, e + 1) /\ e + 1 \in RestPart(c)
  BY <1>2, NextChar DEF Separates
<1>4. ~Toggles(c, e + 1) /\ e + 1 \notin ArgStarts(c) /\ c[e + 1] # "backslash"
  BY <1>3 DEF Toggles, Blank, ArgStarts
<1>5. Cardinality(TogglesTo(c, e + 1)) = T + 0 /\ Cardinality(StartsTo(c, e + 1)) = Cardinality(StartsTo(c, e)) + 0
      /\ Cardinality(StartsTo(c, e)) \in Nat
  BY <1>4, NextChar
<1>. HIDE DEF T
<1>6. Cardinality(TogglesTo(c, e + 1)) % 2 = 0 /\ Cardinality(StartsTo(c, e + 1)) = Cardinality(StartsTo(c, e))
  BY <1>2, <1>5
<1>. QED BY <1>3, <1>4, <1>6 DEF InGap

LEMMA ArgBegins ==
  ASSUME NEW c \in Seq(Char), NEW e \in Nat, e + 1 <= Len(c), RestBegin(c) \in 1..(e + 1),
         NEW n \in Nat, n >= 1, InGap(c, e, n), c[e + 1] \notin Blank
  PROVE  /\ InOrder(ArgStarts(c))[n] = e + 1
         /\ InArg(c, e, n + 1, e + 1, 0) /\ Counted(c, e, e + 1, 0)
<1>1. CharAt(c, e + 1) = c[e + 1] /\ c[e + 1] # "nul" /\ e + 1 \in Int
  BY CharIs
<1>2. e >= 1 /\ c[e] # "backslash" /\ (e \in RestPart(c) => Separates(c, e))
      /\ Cardinality(TogglesTo(c, e)) % 2 = 0 /\ Cardinality(StartsTo(c, e)) = n - 1
  BY <1>1 DEF InGap
<1>3. e + 1 \in ArgStarts(c)
  <2>1. ~Separates(c, e + 1) /\ e + 1 \in RestPart(c) /\ (e + 1) - 1 = e
    BY NextChar DEF Separates
  <2>. QED BY <1>2, <2>1 DEF ArgStarts
<1>4. Rank(ArgStarts(c), e + 1) = n - 1
  BY <1>2, NextChar
<1>5. InOrder(ArgStarts(c))[n] = e + 1
  <2>1. RestBegin(c) \in Nat /\ (n - 1) + 1 = n
    OBVIOUS
  <2>. QED BY <1>3, <1>4, <2>1, RankOf, StartsFinite
<1>6. InArg(c, e, n + 1, e + 1, 0)
  BY <1>2, <1>3, <1>4 DEF InArg
<1>7. Counted(c, e, e + 1, 0)
  BY <1>2 DEF Counted
<1>. QED BY <1>5, <1>6, <1>7

LEMMA NothingKept ==
  ASSUME NEW c, NEW w, NEW e \in Int, Len(w) \in Nat
  PROVE  InPool(c, w, Len(w), e + 1, e)
<1>1. Kept(c, e + 1, e) = {}
  BY DEF Kept
<1>2. Cardinality(Kept(c, e + 1, e)) = 0
  BY <1>1, FS_EmptySet
<1>. QED BY <1>2 DEF InPool

\* A blank outside quotes, or the end of the line, ends the argument: it is the
\* rules' span, and its text is in the pool.
LEMMA ArgEnded ==
  ASSUME NEW c \in Seq(Char), NEW e \in Nat, e <= Len(c), RestBegin(c) \in 1..(e + 1),
         NEW n \in Nat, NEW b, NEW q \in {0, 1}, InArg(c, e, n, b, q),
         e < Len(c) => c[e + 1] \in Blank /\ q = 0
  PROVE  Span(c, b) = b..e /\ InGap(c, e, n)
<1>1. b \in Int /\ b \in RestPart(c) /\ Len(c) \in Nat /\ RestBegin(c) \in Int /\ ~Separates(c, b)
  <2>1. b \in ArgStarts(c) /\ RestBegin(c) \in Nat
    BY DEF InArg
  <2>2. ~Separates(c, b)
    BY <2>1 DEF ArgStarts
  <2>. QED BY <2>1, <2>2, StartsFinite, CharIs
<1>2. RestBegin(c) <= b /\ b <= Len(c) /\ b <= e + 1
  BY <1>1 DEF RestPart, InArg
<1>3. e < Len(c) => Separates(c, e + 1) /\ Cardinality(TogglesTo(c, e)) % 2 = 0
  <2>. SUFFICES ASSUME e < Len(c) PROVE Separates(c, e + 1) /\ Cardinality(TogglesTo(c, e)) % 2 = 0
    OBVIOUS
  <2>1. e + 1 <= Len(c) /\ Cardinality(TogglesTo(c, e)) % 2 = 0
    BY <1>1 DEF InArg
  <2>. QED BY <2>1, NextChar DEF Separates
<1>4. b <= e
  BY <1>1, <1>2, <1>3
<1>5. \A i \in b..e : ~Separates(c, i) /\ i \in RestPart(c)
  BY <1>1, <1>2 DEF InArg, RestPart
<1>6. Span(c, b) = b..e
  <2>1. ASSUME NEW j \in Span(c, b) PROVE j \in b..e
    <3>1. j \in RestPart(c) /\ b <= j /\ \A i \in b..j : ~Separates(c, i)
      BY DEF Span
    <3>2. j \in Int /\ j <= Len(c)
      BY <1>1, <3>1 DEF RestPart
    <3>3. CASE j <= e
      BY <1>1, <3>1, <3>2, <3>3
    <3>4. CASE ~(j <= e)
      <4>1. e < Len(c) /\ e + 1 \in b..j
        BY <1>1, <1>4, <3>2, <3>4
      <4>. QED BY <1>3, <3>1, <4>1
    <3>. QED BY <3>3, <3>4
  <2>2. ASSUME NEW j \in b..e PROVE j \in Span(c, b)
    <3>1. \A i \in b..j : i \in b..e
      BY <1>1
    <3>. QED BY <1>1, <1>5, <3>1 DEF Span
  <2>. QED BY <2>1, <2>2
<1>7. Cardinality(StartsTo(c, e)) = n - 1
  <2>. DEFINE A == ArgStarts(c)
              B == {j \in A : j < b}
  <2>1. IsFiniteSet(A) /\ \A i \in A : i \in Int /\ i \in RestPart(c)
    BY StartsFinite
  <2>2. ASSUME NEW i \in A, b < i, i <= e PROVE FALSE
    <3>1. i - 1 \in b..e
      BY <1>1, <2>1, <2>2
    <3>2. Separates(c, i - 1)
      BY <1>5, <3>1 DEF ArgStarts
    <3>. QED BY <1>5, <3>1, <3>2
  <2>3. \A i \in A : i <= e <=> i < b \/ i = b
    BY <1>1, <1>4, <2>1, <2>2
  <2>4. StartsTo(c, e) = B \cup {b} /\ b \notin B
    <3>1. b \in A /\ b \notin B
      BY <1>1 DEF InArg
    <3>2. \A i : i \in StartsTo(c, e) <=> i \in A /\ i <= e
      BY DEF StartsTo
    <3>3. \A i : i \in B <=> i \in A /\ i < b
      OBVIOUS
    <3>. HIDE DEF A, B
    <3>. QED BY <2>3, <3>1, <3>2, <3>3
  <2>5. IsFiniteSet(B) /\ Cardinality(B) = n - 2
    BY <2>1, FS_Subset DEF InArg, Rank
  <2>6. Cardinality(B \cup {b}) = (n - 2) + 1
    BY <2>4, <2>5, FS_AddElement
  <2>. QED BY <2>4, <2>6
<1>8. CharAt(c, e + 1) # "nul" => e < Len(c) /\ CharAt(c, e + 1) = c[e + 1]
  BY <1>1, CharIs
<1>9. CharAt(c, e + 1) \in Blank \cup {"nul"}
  BY <1>8
<1>10. InGap(c, e, n)
  BY <1>3, <1>7, <1>8, <1>9 DEF InGap
<1>. QED BY <1>6, <1>10

LEMMA ArgStands ==
  ASSUME NEW c \in Seq(Char), NEW b \in Int, NEW e \in Int, NEW n \in Nat, n >= 2,
         b = InOrder(ArgStarts(c))[n - 1], Span(c, b) = b..e,
         NEW w, NEW v, NEW o, InPool(c, w, o, b, e), Len(w) \in Nat,
         Len(v) = Len(w) + 1, \A k \in 1..Len(w) : v[k] = w[k], v[Len(w) + 1] = "nul"
  PROVE  Stands(v, o, ArgText(c, n))
<1>. DEFINE K == Kept(c, b, e)
            t == Spelled(c, b..e)
<1>1. ArgText(c, n) = t
  BY DEF ArgText
<1>2. /\ Cardinality(K) \in Nat /\ Len(t) = Cardinality(K)
      /\ \A k \in 1..Cardinality(K) : t[k] = c[InOrder(K)[k]]
  <2>1. IsFiniteSet(b..e)
    BY FS_Interval
  <2>. QED BY <2>1, SpelledIs DEF Kept
<1>3. o \in Nat /\ Len(w) = o + Cardinality(K)
      /\ \A k \in 1..Cardinality(K) : w[o + k] = c[InOrder(K)[k]] /\ w[o + k] # "nul"
  BY DEF InPool
<1>. HIDE DEF K, t
<1>4. \A k \in 1..Cardinality(K) : o + k \in 1..Len(w)
  BY <1>2, <1>3
<1>5. \A k \in 1..Len(t) : v[o + k] = t[k] /\ v[o + k] # "nul"
  BY <1>2, <1>3, <1>4
<1>6. o + Len(t) + 1 = Len(v) /\ v[o + Len(t) + 1] = "nul"
  BY <1>2, <1>3
<1>. QED BY <1>1, <1>2, <1>3, <1>5, <1>6 DEF Stands

LEMMA WroteOne ==
  ASSUME NEW c, NEW b \in Int, NEW e \in Int, b <= e + 1, Stays(c, e + 1),
         NEW w, NEW v, NEW o, InPool(c, w, o, b, e), Len(v) = Len(w) + 1, \A k \in 1..Len(w) : v[k] = w[k],
         v[Len(w) + 1] = c[e + 1], c[e + 1] # "nul"
  PROVE  InPool(c, v, o, b, e + 1)
<1>x. PICK x \in Int : x = e + 1
  OBVIOUS
<1>1. Kept(c, b, x) = Kept(c, b, e) \cup (x..x)
  <2>1. Kept(c, b, e + 1) = IF Stays(c, e + 1) THEN Kept(c, b, e) \cup ((e + 1)..(e + 1)) ELSE Kept(c, b, e)
    BY OneKept
  <2>. QED BY <1>x, <2>1
<1>2. \A i \in x..x : v[Len(w) + (i - x + 1)] = c[i] /\ v[Len(w) + (i - x + 1)] # "nul"
  <2>1. \A i \in x..x : i = x /\ i - x + 1 = 1
    OBVIOUS
  <2>. QED BY <1>x, <2>1
<1>3. e < x /\ x <= x + 1 /\ Len(v) = Len(w) + (x - x + 1)
  <2>1. x - x + 1 = 1
    OBVIOUS
  <2>. QED BY <1>x, <2>1
<1>4. Adds(c, w, v, x, x)
  BY <1>2, <1>3 DEF Adds
<1>5. InPool(c, v, o, b, x)
  BY <1>1, <1>3, <1>4, Wrote
<1>. QED BY <1>x, <1>5

(* ---- backslashes ---- *)

LEMMA SlashRun ==
  ASSUME NEW c \in Seq(Char), NEW e \in Nat, e <= Len(c), NEW s \in Nat, s >= 1, e - s >= 1,
         c[e - s] # "backslash", \A i \in (e - s + 1)..e : c[i] = "backslash",
         CharAt(c, e + 1) # "backslash"
  PROVE  /\ RunBefore(c, e + 1) = s
         /\ \A i \in (e - s + 1)..e :
              /\ ~Toggles(c, i)
              /\ Stays(c, i) <=> (CharAt(c, e + 1) = "quote" => i <= e - s + s \div 2)
<1>1. Len(c) \in Nat /\ e + 1 \in 1..(Len(c) + 1) /\ s \in 0..((e + 1) - 1) /\ (e + 1) - s - 1 = e - s
      /\ (e + 1) - s = e - s + 1 /\ (e + 1) - 1 = e
  BY CharIs
<1>2. RunBefore(c, e + 1) = s
  BY <1>1, RunBeforeIs
<1>3. ASSUME NEW i \in (e - s + 1)..e
      PROVE  RunBefore(c, i) = i - (e - s + 1) /\ RunFrom(c, i) = e + 1 - i
  <2>1. i \in 1..(Len(c) + 1) /\ i \in 1..Len(c)
    BY <1>1
  <2>. DEFINE m == i - (e - s + 1)
              r == e + 1 - i
  <2>2. m \in 0..(i - 1) /\ i - m = e - s + 1 /\ i - m - 1 = e - s
    OBVIOUS
  <2>3. \A k \in (i - m)..(i - 1) : k \in (e - s + 1)..e
    OBVIOUS
  <2>4. r \in 0..(Len(c) - i + 1) /\ i + r = e + 1 /\ \A k \in i..(i + r - 1) : k \in (e - s + 1)..e
    BY <1>1
  <2>. HIDE DEF m, r
  <2>5. RunBefore(c, i) = m
    BY <2>1, <2>2, <2>3, RunBeforeIs
  <2>6. RunFrom(c, i) = r
    BY <2>1, <2>4, RunFromIs
  <2>. QED BY <2>5, <2>6 DEF m, r
<1>4. ASSUME NEW i \in (e - s + 1)..e
      PROVE  /\ ~Toggles(c, i)
             /\ Stays(c, i) <=> (CharAt(c, e + 1) = "quote" => i <= e - s + s \div 2)
  <2>1. c[i] = "backslash" /\ ~Toggles(c, i)
    BY DEF Toggles
  <2>2. i + RunFrom(c, i) = e + 1 /\ RunBefore(c, i) + RunFrom(c, i) = s
    BY <1>3
  <2>3. RunBefore(c, i) >= s \div 2 <=> ~(i <= e - s + s \div 2)
    BY <1>3
  <2>4. Halved(c, i) <=> CharAt(c, e + 1) = "quote" /\ ~(i <= e - s + s \div 2)
    BY <2>1, <2>2, <2>3 DEF Halved
  <2>. QED BY <2>1, <2>4 DEF Stays
<1>. QED BY <1>2, <1>4

\* Half of them stay before a quote, and otherwise all.
Left(c, e, s) == IF CharAt(c, e + 1) = "quote" THEN s \div 2 ELSE s

LEMMA SlashesKept ==
  ASSUME NEW c \in Seq(Char), NEW e \in Nat, e <= Len(c), NEW b \in Int, b >= 1, NEW s \in Nat, s >= 1,
         Counted(c, e, b, s), CharAt(c, e + 1) # "backslash"
  PROVE  /\ Kept(c, b, e) = Kept(c, b, e - s) \cup ((e - s + 1)..(e - s + Left(c, e, s)))
         /\ \A i \in (e - s + 1)..(e - s + Left(c, e, s)) : c[i] = "backslash"
<1>c. /\ s <= e + 1 - b /\ (\A i \in (e - s + 1)..e : c[i] = "backslash")
      /\ e - s >= 1 /\ c[e - s] # "backslash"
  BY DEF Counted
<1>h. PICK h \in Nat : h = Left(c, e, s)
  BY DEF Left
<1>l. (h = s \div 2 /\ CharAt(c, e + 1) = "quote") \/ (h = s /\ CharAt(c, e + 1) # "quote")
  BY <1>h DEF Left
<1>1. h <= s
  <2>1. s \div 2 <= s /\ s <= s
    OBVIOUS
  <2>2. h = s \div 2 \/ h = s
    BY <1>l
  <2>. QED BY <2>1, <2>2
<1>2. ASSUME NEW i \in (e - s + 1)..e PROVE Stays(c, i) <=> i <= e - s + h
  <2>1. Stays(c, i) <=> (CharAt(c, e + 1) = "quote" => i <= e - s + s \div 2)
    BY <1>c, SlashRun
  <2>2. CASE CharAt(c, e + 1) = "quote"
    BY <1>l, <2>1, <2>2
  <2>3. CASE CharAt(c, e + 1) # "quote"
    BY <1>l, <2>1, <2>3
  <2>. QED BY <2>2, <2>3
<1>3. \A i : i \in (e - s + 1)..(e - s + h) <=> i \in (e - s + 1)..e /\ i <= e - s + h
  BY <1>1
<1>4. \A i : i \in b..e <=> i \in b..(e - s) \/ i \in (e - s + 1)..e
  BY <1>c
<1>5. \A i : i \in Kept(c, b, e) <=> i \in Kept(c, b, e - s) \/ i \in (e - s + 1)..(e - s + h)
  BY <1>2, <1>3, <1>4 DEF Kept
<1>6. \A i \in (e - s + 1)..(e - s + h) : i \in (e - s + 1)..e
  BY <1>1
<1>. QED BY <1>c, <1>h, <1>5, <1>6

(* ---- the name ---- *)

LEMMA NameGoesOn ==
  ASSUME NEW c \in Seq(Char), NEW e \in Nat, e + 1 <= Len(c), NEW w, InName(c, w, e), ~EndsName(c, e + 1),
         NEW v, Len(v) = Len(w) + 1, \A k \in 1..Len(w) : v[k] = w[k], v[Len(w) + 1] = c[e + 1]
  PROVE  InName(c, v, e + 1)
<1>. DEFINE d == IF QuotedName(c) THEN 1 ELSE 0
<1>1. d \in Nat /\ d <= e /\ Len(w) = e - d /\ (\A k \in 1..(e - d) : w[k] = c[k + d])
      /\ \A i \in 1..e : ~EndsName(c, i)
  BY DEF InName
<1>. HIDE DEF d
<1>2. \A i \in 1..(e + 1) : ~EndsName(c, i)
  <2>1. \A i \in 1..(e + 1) : i \in 1..e \/ i = e + 1
    OBVIOUS
  <2>. QED BY <1>1, <2>1
<1>3. ASSUME NEW k \in 1..((e + 1) - d) PROVE v[k] = c[k + d]
  <2>1. CASE k \in 1..(e - d)
    BY <1>1, <2>1
  <2>2. CASE k = (e + 1) - d
    BY <1>1, <2>2
  <2>. QED BY <1>1, <2>1, <2>2
<1>4. d <= e + 1 /\ Len(v) = (e + 1) - d
  BY <1>1
<1>. QED BY <1>2, <1>3, <1>4 DEF InName, d

LEMMA NameEnded ==
  ASSUME NEW c \in Seq(Char), NEW e \in Nat, e <= Len(c), NEW w, InName(c, w, e), EndsName(c, e + 1),
         NEW v, Len(v) = Len(w) + 1, \A k \in 1..Len(w) : v[k] = w[k], v[Len(w) + 1] = "nul"
  PROVE  /\ Stands(v, 0, ArgText(c, 1))
         /\ LET f == IF QuotedName(c) /\ CharAt(c, e + 1) = "quote" THEN e + 1 ELSE e IN
            f <= Len(c) /\ RestBegin(c) = f + 1 /\ InGap(c, f, 1)
<1>. DEFINE d == IF QuotedName(c) THEN 1 ELSE 0
            f == IF QuotedName(c) /\ CharAt(c, e + 1) = "quote" THEN e + 1 ELSE e
<1>1. d \in {0, 1} /\ d <= e /\ Len(w) = e - d /\ (\A k \in 1..(e - d) : w[k] = c[k + d])
      /\ \A i \in 1..e : ~EndsName(c, i)
  BY DEF InName
<1>2. Len(c) \in Nat /\ NameEnd(c) = e + 1
  BY <1>1, CharIs, NameEndIs
<1>3. NameText(c) = SubSeq(c, d + 1, e)
  BY <1>2 DEF NameText
<1>4. Stands(v, 0, ArgText(c, 1))
  <2>. DEFINE t == SubSeq(c, d + 1, e)
  <2>1. Len(t) = e - d /\ \A k \in 1..(e - d) : t[k] = c[k + d] /\ c[k + d] # "nul"
    <3>1. Len(t) = e - d /\ \A k \in 1..(e - d) : t[k] = c[k + d]
      BY <1>1, <1>2
    <3>2. \A k \in 1..(e - d) : k + d \in 1..Len(c)
      BY <1>1, <1>2
    <3>. QED BY <3>1, <3>2, CharIs
  <2>2. ArgText(c, 1) = t
    BY <1>3 DEF ArgText
  <2>. HIDE DEF t, d
  <2>. QED BY <1>1, <2>1, <2>2 DEF Stands
<1>5. RestBegin(c) = f + 1 /\ f <= Len(c) /\ f \in Nat
  <2>1. QuotedName(c) \/ CharAt(c, e + 1) # "quote"
    BY DEF EndsName, Blank
  <2>2. CharAt(c, e + 1) = "quote" => e + 1 <= Len(c)
    BY <1>2, CharIs
  <2>. QED BY <1>2, <2>1, <2>2 DEF RestBegin
<1>6. InGap(c, f, 1)
  <2>1. \A k \in RestPart(c) : k \in Int /\ ~(k <= f)
    BY <1>2, <1>5 DEF RestPart
  <2>2. TogglesTo(c, f) = {} /\ StartsTo(c, f) = {}
    BY <2>1 DEF TogglesTo, StartsTo, ArgStarts
  <2>3. Cardinality(TogglesTo(c, f)) = 0 /\ Cardinality(StartsTo(c, f)) = 0
    BY <2>2, FS_EmptySet
  <2>4. CharAt(c, f + 1) \notin Blank \cup {"nul"} => f \notin RestPart(c) /\ f >= 1 /\ c[f] # "backslash"
    <3>1. f \notin RestPart(c)
      BY <1>5, <2>1
    <3>2. CASE QuotedName(c) /\ CharAt(c, e + 1) = "quote"
      <4>1. f = e + 1 /\ e + 1 \in 1..Len(c)
        BY <1>2, <1>5, <3>2
      <4>2. c[e + 1] = "quote"
        BY <3>2, <4>1, CharIs
      <4>. QED BY <3>1, <4>1, <4>2
    <3>3. CASE ~(QuotedName(c) /\ CharAt(c, e + 1) = "quote")
      BY <3>3 DEF EndsName
    <3>. QED BY <3>2, <3>3
  <2>. HIDE DEF f
  <2>. QED BY <2>3, <2>4 DEF InGap
<1>. QED BY <1>4, <1>5, <1>6

(* ---- the steps ---- *)

LEMMA HereIs ==
  ASSUME TypeOK
  PROVE  /\ cmd \in Seq(Char) /\ Len(cmd) \in Nat /\ p \in Nat /\ p <= Len(cmd)
         /\ Here = CharAt(cmd, p + 1) /\ (Here # "nul" => p + 1 <= Len(cmd) /\ Here = cmd[p + 1])
         /\ (Here = "nul" => p = Len(cmd))
<1>1. cmd \in Seq(Char) /\ Len(cmd) \in Nat /\ p \in Nat /\ p <= Len(cmd)
  BY CharIs DEF TypeOK
<1>2. CASE p < Len(cmd)
  <2>1. p + 1 \in 1..Len(cmd)
    BY <1>1, <1>2
  <2>. QED BY <1>1, <1>2, <2>1, CharIs DEF Here
<1>3. CASE p = Len(cmd)
  BY <1>1, <1>3, CharIs DEF Here
<1>. QED BY <1>1, <1>2, <1>3

LEMMA Grows ==
  ASSUME TypeOK, NEW x
  PROVE  /\ Len(pool) \in Nat /\ Len(Append(pool, x)) = Len(pool) + 1
         /\ \A k \in 1..Len(pool) : Append(pool, x)[k] = pool[k]
         /\ Append(pool, x)[Len(pool) + 1] = x
<1>1. pool \in Seq(Char \cup {"nul", x}) /\ x \in Char \cup {"nul", x}
  BY DEF TypeOK
<1>. QED BY <1>1

LEMMA BeginNameKeeps ==
  ASSUME IInv, BeginName
  PROVE  ArgvInv'
<1>1. TypeOK /\ pc = "start" /\ p = 0 /\ Len(pool) = 0 /\ argv' = <<0>> /\ cmd' = cmd /\ pool' = pool
  BY DEF IInv, Paid, BeginName
<1>2. QuotedName(cmd) <=> Here = "quote"
  BY <1>1, HereIs DEF QuotedName
<1>3. CASE Here = "quote"
  <2>1. p' = 1 /\ pc' = "quotedName" /\ 1 <= Len(cmd)
    BY <1>1, <1>3, HereIs DEF BeginName
  <2>2. InName(cmd, pool, 1)
    BY <1>1, <1>2, <1>3, <2>1 DEF InName, EndsName
  <2>. QED BY <1>1, <1>2, <1>3, <2>1, <2>2 DEF ArgvInv, NameRight, GapRight, ArgRight, RestRight
<1>4. CASE Here # "quote"
  <2>1. p' = 0 /\ pc' = "name" /\ 0 <= Len(cmd) /\ ~QuotedName(cmd)
    BY <1>1, <1>2, <1>4, HereIs DEF BeginName
  <2>2. InName(cmd, pool, 0)
    <3>1. (IF QuotedName(cmd) THEN 1 ELSE 0) = 0 /\ 0 - 0 = 0 /\ \A k \in 1..0 : FALSE
      BY <2>1
    <3>2. (\A k \in 1..0 : pool[k] = cmd[k + 0]) /\ (\A i \in 1..0 : ~EndsName(cmd, i)) /\ 0 <= 0
      BY <3>1
    <3>. QED BY ONLY <1>1, <2>1, <3>1, <3>2 DEF InName
  <2>. QED BY <1>1, <1>2, <1>4, <2>1, <2>2 DEF ArgvInv, NameRight, GapRight, ArgRight, RestRight
<1>. QED BY <1>3, <1>4

\* What ends the name for the walk ends it for the rules.
LEMMA NameEndsIs ==
  ASSUME IInv, ArgvInv, pc \in {"name", "quotedName"}
  PROVE  /\ NameEnds <=> EndsName(cmd, p + 1)
         /\ (pc = "quotedName" <=> QuotedName(cmd)) /\ argv = <<0>> /\ InName(cmd, pool, p)
<1>1. (pc = "quotedName" <=> QuotedName(cmd)) /\ argv = <<0>> /\ InName(cmd, pool, p)
  BY DEF ArgvInv, NameRight
<1>2. TypeOK /\ p \in Nat /\ Here = CharAt(cmd, p + 1)
  BY HereIs DEF IInv
<1>3. QuotedName(cmd) => p + 1 > 1
  BY <1>1, <1>2 DEF InName
<1>. QED BY <1>1, <1>2, <1>3 DEF NameEnds, EndsName

LEMMA NameCharKeeps ==
  ASSUME IInv, ArgvInv, NameChar
  PROVE  ArgvInv'
<1>1. /\ TypeOK /\ pc \in {"name", "quotedName"} /\ ~NameEnds
      /\ pool' = Append(pool, Here) /\ p' = p + 1 /\ cmd' = cmd /\ argv' = argv /\ pc' = pc
  BY DEF IInv, NameChar
<1>2. ~EndsName(cmd, p + 1) /\ (pc = "quotedName" <=> QuotedName(cmd)) /\ argv = <<0>> /\ InName(cmd, pool, p)
  BY <1>1, NameEndsIs
<1>3. Here # "nul"
  BY <1>1 DEF NameEnds
<1>4. InName(cmd, pool', p + 1)
  <2>1. /\ Len(pool') = Len(pool) + 1 /\ (\A k \in 1..Len(pool) : pool'[k] = pool[k])
        /\ pool'[Len(pool) + 1] = Here
    BY ONLY <1>1, Grows
  <2>2. cmd \in Seq(Char) /\ p \in Nat /\ p + 1 <= Len(cmd) /\ Here = cmd[p + 1]
    BY ONLY <1>1, <1>3, HereIs
  <2>. QED BY ONLY <1>2, <2>1, <2>2, NameGoesOn
<1>. QED BY <1>1, <1>2, <1>4 DEF ArgvInv, NameRight, GapRight, ArgRight, RestRight

LEMMA EndNameKeeps ==
  ASSUME IInv, ArgvInv, EndName
  PROVE  ArgvInv'
<1>1. /\ TypeOK /\ NameEnds /\ pc \in {"name", "quotedName"}
      /\ pool' = Append(pool, "nul") /\ pc' = "gap" /\ cmd' = cmd /\ argv' = argv
  BY DEF IInv, EndName, NameEnds
<1>2. EndsName(cmd, p + 1) /\ (pc = "quotedName" <=> QuotedName(cmd)) /\ argv = <<0>> /\ InName(cmd, pool, p)
  BY <1>1, NameEndsIs
<1>3. p' = IF QuotedName(cmd) /\ CharAt(cmd, p + 1) = "quote" THEN p + 1 ELSE p
  BY <1>1, <1>2, HereIs DEF EndName
<1>4. Stands(pool', 0, ArgText(cmd, 1)) /\ p' <= Len(cmd) /\ RestBegin(cmd) = p' + 1 /\ InGap(cmd, p', 1)
  <2>. DEFINE f == IF QuotedName(cmd) /\ CharAt(cmd, p + 1) = "quote" THEN p + 1 ELSE p
  <2>1. cmd \in Seq(Char) /\ p \in Nat /\ p <= Len(cmd)
    BY <1>1, HereIs
  <2>2. Len(pool') = Len(pool) + 1 /\ (\A k \in 1..Len(pool) : pool'[k] = pool[k]) /\ pool'[Len(pool) + 1] = "nul"
    BY <1>1, Grows
  <2>3. Stands(pool', 0, ArgText(cmd, 1)) /\ f <= Len(cmd) /\ RestBegin(cmd) = f + 1 /\ InGap(cmd, f, 1)
    BY <1>2, <2>1, <2>2, NameEnded
  <2>. QED BY <1>3, <2>3
<1>5. Len(argv') = 1 /\ Written(cmd, pool', argv', 1)
  BY <1>1, <1>2, <1>4 DEF Written
<1>6. RestBegin(cmd) \in 1..(p' + 1)
  BY <1>3, <1>4, HereIs, <1>1
<1>. QED BY <1>1, <1>4, <1>5, <1>6 DEF ArgvInv, NameRight, GapRight, ArgRight, RestRight

LEMMA SkipBlankKeeps ==
  ASSUME IInv, ArgvInv, SkipBlank
  PROVE  ArgvInv'
<1>1. /\ TypeOK /\ pc = "gap" /\ Here \in Blank /\ p' = p + 1
      /\ cmd' = cmd /\ argv' = argv /\ pool' = pool /\ pc' = pc /\ Len(argv) \in Nat
  BY DEF IInv, TypeOK, SkipBlank
<1>2. Written(cmd, pool, argv, Len(argv)) /\ InGap(cmd, p, Len(argv)) /\ RestBegin(cmd) \in 1..(p + 1) /\ Len(argv) >= 1
  BY <1>1 DEF ArgvInv, GapRight, RestRight
<1>3. Here # "nul"
  BY <1>1 DEF Blank
<1>4. InGap(cmd, p + 1, Len(argv))
  BY <1>1, <1>2, <1>3, HereIs, BlankKeepsGap
<1>5. RestBegin(cmd) \in 1..((p + 1) + 1)
  BY <1>1, <1>2, HereIs
<1>. QED BY <1>1, <1>2, <1>4, <1>5 DEF ArgvInv, NameRight, GapRight, ArgRight, RestRight

LEMMA EndOfLineKeeps ==
  ASSUME IInv, ArgvInv, EndOfLine
  PROVE  ArgvInv'
<1>1. /\ TypeOK /\ pc = "gap" /\ Here = "nul" /\ pc' = "done"
      /\ p' = p /\ cmd' = cmd /\ argv' = argv /\ pool' = pool
  BY DEF IInv, EndOfLine
<1>2. p = Len(cmd)
  BY <1>1, HereIs
<1>. QED BY <1>1, <1>2 DEF ArgvInv, NameRight, GapRight, ArgRight, RestRight

LEMMA BeginArgKeeps ==
  ASSUME IInv, ArgvInv, BeginArg
  PROVE  ArgvInv'
<1>. DEFINE n == Len(argv)
<1>1. /\ TypeOK /\ pc = "gap" /\ Here \notin Blank \cup {"nul"} /\ argv \in Seq(Nat) /\ slashes = 0
      /\ argv' = Append(argv, Len(pool)) /\ quoted' = 0 /\ pc' = "arg"
      /\ cmd' = cmd /\ pool' = pool /\ p' = p /\ slashes' = slashes
  BY DEF IInv, TypeOK, Paid, BeginArg
<1>2. Written(cmd, pool, argv, n) /\ InGap(cmd, p, n) /\ RestBegin(cmd) \in 1..(p + 1) /\ n >= 1
  BY <1>1 DEF ArgvInv, GapRight, RestRight
<1>3. n \in Nat /\ Len(pool) \in Nat /\ pool \in Seq(Char \cup {"nul"})
  BY <1>1 DEF TypeOK
<1>4. Len(argv') = n + 1 /\ argv'[n + 1] = Len(pool) /\ \A k \in 1..n : argv'[k] = argv[k]
  BY <1>1, <1>3
<1>. HIDE DEF n
<1>5. InOrder(ArgStarts(cmd))[n] = p + 1 /\ InArg(cmd, p, n + 1, p + 1, 0) /\ Counted(cmd, p, p + 1, 0)
  BY <1>1, <1>2, <1>3, HereIs, ArgBegins
<1>6. InPool(cmd, pool, Len(pool), p + 1, p)
  BY <1>1, <1>3, HereIs, NothingKept
<1>7. Written(cmd, pool, argv', n)
  BY <1>2, <1>3, <1>4, StillWritten
<1>8. (n + 1) - 1 = n /\ p - 0 = p /\ n + 1 >= 1 /\ ~(0 > 0)
  BY <1>1, <1>3, HereIs
<1>9. ArgRight'
  BY <1>1, <1>4, <1>5, <1>6, <1>7, <1>8 DEF ArgRight, Began
<1>. QED BY <1>1, <1>2, <1>4, <1>8, <1>9 DEF ArgvInv, NameRight, GapRight, RestRight

\* What is known within an argument.
LEMMA Within ==
  ASSUME IInv, ArgvInv, pc \in {"arg", "slashes"}
  PROVE  /\ TypeOK /\ cmd \in Seq(Char) /\ Len(cmd) \in Nat /\ p \in Nat /\ p <= Len(cmd)
         /\ Len(argv) \in Nat /\ Len(argv) >= 2 /\ Len(pool) \in Nat /\ slashes \in Nat /\ quoted \in {0, 1}
         /\ Began \in Int /\ Began <= p + 1 /\ Began >= 1 /\ RestBegin(cmd) \in 1..(p + 1)
         /\ Written(cmd, pool, argv, Len(argv) - 1)
         /\ InArg(cmd, p, Len(argv), Began, quoted) /\ Counted(cmd, p, Began, slashes)
         /\ InPool(cmd, pool, argv[Len(argv)], Began, p - slashes)
         /\ (pc = "slashes" <=> slashes > 0) /\ (pc = "arg" => slashes = 0)
<1>1. /\ TypeOK /\ cmd \in Seq(Char) /\ Len(cmd) \in Nat /\ p \in Nat /\ p <= Len(cmd)
      /\ Len(argv) \in Nat /\ Len(pool) \in Nat /\ slashes \in Nat /\ quoted \in {0, 1}
  BY HereIs DEF IInv, TypeOK
<1>2. /\ Written(cmd, pool, argv, Len(argv) - 1)
      /\ InArg(cmd, p, Len(argv), Began, quoted) /\ Counted(cmd, p, Began, slashes)
      /\ InPool(cmd, pool, argv[Len(argv)], Began, p - slashes)
      /\ (pc = "slashes" <=> slashes > 0)
  BY DEF ArgvInv, ArgRight
<1>3. RestBegin(cmd) \in 1..(p + 1)
  BY DEF ArgvInv, RestRight
<1>4. Len(argv) >= 2 /\ Began \in ArgStarts(cmd) /\ Began <= p + 1
  BY <1>2 DEF InArg
<1>5. RestBegin(cmd) \in Nat /\ RestBegin(cmd) >= 1
  BY <1>1, <1>3
<1>6. Began \in Int /\ Began \in RestPart(cmd)
  BY <1>1, <1>4, <1>5, StartsFinite
<1>7. Began >= 1
  BY <1>1, <1>5, <1>6 DEF RestPart
<1>8. pc = "arg" => slashes = 0
  BY <1>1, <1>2
<1>. QED BY <1>1, <1>2, <1>3, <1>4, <1>6, <1>7, <1>8

\* A step that stays within the argument.
LEMMA StaysWithin ==
  ASSUME IInv, ArgvInv, pc \in {"arg", "slashes"}, pc' \in {"arg", "slashes"},
         cmd' = cmd, argv' = argv, p' \in Nat, p' >= p,
         Len(pool') \in Nat, Len(pool) <= Len(pool'), \A k \in 1..Len(pool) : pool'[k] = pool[k],
         InArg(cmd, p', Len(argv), Began, quoted'), Counted(cmd, p', Began, slashes'),
         InPool(cmd, pool', argv[Len(argv)], Began, p' - slashes'),
         pc' = "slashes" <=> slashes' > 0
  PROVE  ArgvInv'
<1>1. /\ cmd \in Seq(Char) /\ p \in Nat /\ Len(argv) \in Nat /\ Len(argv) >= 2 /\ Len(pool) \in Nat
      /\ RestBegin(cmd) \in 1..(p + 1) /\ Written(cmd, pool, argv, Len(argv) - 1)
  BY Within
<1>2. Began' = Began
  BY DEF Began
<1>3. Written(cmd, pool', argv, Len(argv) - 1)
  <2>1. Len(argv) - 1 \in Nat
    BY <1>1
  <2>. QED BY <1>1, <2>1, StillWritten
<1>4. RestBegin(cmd) \in 1..(p' + 1) /\ Len(argv) >= 1
  BY <1>1
<1>. QED BY <1>2, <1>3, <1>4 DEF ArgvInv, NameRight, GapRight, ArgRight, RestRight

LEMMA EndArgKeeps ==
  ASSUME IInv, ArgvInv, EndArg
  PROVE  ArgvInv'
<1>. DEFINE n == Len(argv)
<1>1. /\ TypeOK /\ pc = "arg" /\ ArgEnds /\ pool' = Append(pool, "nul") /\ pc' = "gap"
      /\ cmd' = cmd /\ p' = p /\ argv' = argv
  BY DEF IInv, EndArg
<1>2. /\ cmd \in Seq(Char) /\ Len(cmd) \in Nat /\ p \in Nat /\ p <= Len(cmd) /\ n \in Nat /\ n >= 2
      /\ Began \in Int /\ Len(pool) \in Nat /\ quoted \in {0, 1} /\ RestBegin(cmd) \in 1..(p + 1) /\ slashes = 0
      /\ Written(cmd, pool, argv, n - 1) /\ InArg(cmd, p, n, Began, quoted)
      /\ InPool(cmd, pool, argv[n], Began, p - slashes)
  BY <1>1, Within
<1>. HIDE DEF n
<1>3. p < Len(cmd) => cmd[p + 1] \in Blank /\ quoted = 0
  BY <1>1, <1>2, HereIs DEF ArgEnds, Here
<1>4. Span(cmd, Began) = Began..p /\ InGap(cmd, p, n)
  BY <1>2, <1>3, ArgEnded
<1>5. Len(pool') = Len(pool) + 1 /\ (\A k \in 1..Len(pool) : pool'[k] = pool[k]) /\ pool'[Len(pool) + 1] = "nul"
  BY <1>1, Grows
<1>6. Stands(pool', argv[n], ArgText(cmd, n))
  <2>1. Began = InOrder(ArgStarts(cmd))[n - 1] /\ p - slashes = p
    BY <1>2 DEF Began, n
  <2>2. p \in Int /\ n \in Nat /\ InPool(cmd, pool, argv[n], Began, p)
    BY ONLY <1>2, <2>1
  <2>. QED BY ONLY <1>2, <1>4, <1>5, <2>1, <2>2, ArgStands
<1>7. Written(cmd, pool', argv, n)
  <2>1. n - 1 \in Nat /\ \A k \in 1..n : k \in 1..(n - 1) \/ k = n
    BY <1>2
  <2>2. Written(cmd, pool', argv, n - 1)
    <3>1. Len(pool') \in Nat /\ Len(pool) <= Len(pool')
      BY <1>2, <1>5
    <3>. QED BY <1>2, <1>5, <2>1, <3>1, StillWritten
  <2>. QED BY <1>6, <2>1, <2>2 DEF Written
<1>. QED BY <1>1, <1>2, <1>4, <1>7 DEF ArgvInv, NameRight, GapRight, ArgRight, RestRight, n

LEMMA CountSlashKeeps ==
  ASSUME IInv, ArgvInv, CountSlash
  PROVE  ArgvInv'
<1>1. /\ TypeOK /\ pc \in {"arg", "slashes"} /\ Here = "backslash" /\ slashes' = slashes + 1 /\ p' = p + 1
      /\ pc' = "slashes" /\ cmd' = cmd /\ pool' = pool /\ argv' = argv /\ quoted' = quoted
  BY DEF IInv, CountSlash
<1>2. p + 1 <= Len(cmd) /\ cmd[p + 1] = "backslash" /\ CharAt(cmd, p + 1) = "backslash"
  BY <1>1, HereIs
<1>3. /\ cmd \in Seq(Char) /\ p \in Nat /\ Len(argv) \in Nat /\ Began \in Int /\ Began <= p + 1
      /\ Len(pool) \in Nat /\ slashes \in Nat /\ quoted \in {0, 1} /\ RestBegin(cmd) \in 1..(p + 1)
      /\ InArg(cmd, p, Len(argv), Began, quoted) /\ Counted(cmd, p, Began, slashes)
      /\ InPool(cmd, pool, argv[Len(argv)], Began, p - slashes)
  BY <1>1, Within
<1>4. InArg(cmd, p + 1, Len(argv), Began, quoted)
  <2>1. ~Separates(cmd, p + 1) /\ ~Toggles(cmd, p + 1)
    BY <1>2 DEF Separates, Toggles, Blank
  <2>. QED BY <1>2, <1>3, <2>1, Advances
<1>5. Counted(cmd, p + 1, Began, slashes + 1)
  <2>1. /\ slashes <= p + 1 - Began /\ (\A i \in (p - slashes + 1)..p : cmd[i] = "backslash")
        /\ p - slashes >= 1 /\ cmd[p - slashes] # "backslash"
    BY <1>2, <1>3 DEF Counted
  <2>2. (p + 1) - (slashes + 1) = p - slashes /\ slashes + 1 <= (p + 1) + 1 - Began
    BY <1>3, <2>1
  <2>3. \A i \in (p - slashes + 1)..(p + 1) : cmd[i] = "backslash"
    <3>1. \A i \in (p - slashes + 1)..(p + 1) : i \in (p - slashes + 1)..p \/ i = p + 1
      BY <1>3
    <3>. QED BY <1>2, <2>1, <3>1
  <2>. QED BY <2>1, <2>2, <2>3 DEF Counted
<1>6. InPool(cmd, pool, argv[Len(argv)], Began, (p + 1) - (slashes + 1)) /\ slashes + 1 > 0
      /\ p + 1 \in Nat /\ p + 1 >= p
  <2>1. (p + 1) - (slashes + 1) = p - slashes
    BY <1>3
  <2>. QED BY <1>3, <2>1
<1>. QED BY <1>1, <1>3, <1>4, <1>5, <1>6, StaysWithin

LEMMA QuoteKeeps ==
  ASSUME IInv, ArgvInv, Quote
  PROVE  ArgvInv'
<1>1. /\ TypeOK /\ pc = "arg" /\ Here = "quote" /\ quoted' = 1 - quoted /\ p' = p + 1
      /\ cmd' = cmd /\ pool' = pool /\ argv' = argv /\ slashes' = slashes /\ pc' = pc
  BY DEF IInv, Quote
<1>2. p + 1 <= Len(cmd) /\ cmd[p + 1] = "quote" /\ CharAt(cmd, p + 1) = "quote"
  BY <1>1, HereIs
<1>3. /\ cmd \in Seq(Char) /\ p \in Nat /\ Len(argv) \in Nat /\ Began \in Int /\ Began <= p + 1
      /\ Len(pool) \in Nat /\ slashes = 0 /\ quoted \in {0, 1} /\ RestBegin(cmd) \in 1..(p + 1)
      /\ InArg(cmd, p, Len(argv), Began, quoted) /\ Counted(cmd, p, Began, slashes)
      /\ InPool(cmd, pool, argv[Len(argv)], Began, p - slashes)
  BY <1>1, Within
<1>4. Toggles(cmd, p + 1)
  <2>1. p - 0 >= 1 /\ cmd[p - 0] # "backslash" /\ p - 0 = p
    BY <1>2, <1>3 DEF Counted
  <2>2. RunBefore(cmd, p + 1) = 0
    BY <1>2, <1>3, <2>1, NoSlash
  <2>. QED BY <1>2, <2>2 DEF Toggles
<1>5. InArg(cmd, p + 1, Len(argv), Began, 1 - quoted)
  <2>1. ~Separates(cmd, p + 1)
    BY <1>2 DEF Separates, Blank
  <2>. QED BY <1>2, <1>3, <1>4, <2>1, Advances
<1>6. Counted(cmd, p + 1, Began, 0)
  <2>1. (\A i \in ((p + 1) - 0 + 1)..(p + 1) : FALSE) /\ 0 <= (p + 1) + 1 - Began /\ (p + 1) - 0 = p + 1 /\ p + 1 >= 1
    BY <1>3
  <2>2. cmd[p + 1] # "backslash"
    BY <1>2
  <2>. QED BY ONLY <2>1, <2>2 DEF Counted
<1>7. InPool(cmd, pool, argv[Len(argv)], Began, (p + 1) - 0)
  <2>1. Kept(cmd, Began, p + 1) = Kept(cmd, Began, p)
    <3>1. p \in Int /\ ~Stays(cmd, p + 1)
      BY <1>3, <1>4 DEF Stays
    <3>2. Kept(cmd, Began, p + 1) = IF Stays(cmd, p + 1) THEN Kept(cmd, Began, p) \cup ((p + 1)..(p + 1))
                                    ELSE Kept(cmd, Began, p)
      BY ONLY <1>3, <3>1, OneKept
    <3>. QED BY <3>1, <3>2
  <2>2. p - slashes = p /\ (p + 1) - 0 = p + 1
    BY <1>3
  <2>. QED BY <1>3, <2>1, <2>2 DEF InPool
<1>8. p + 1 \in Nat /\ p + 1 >= p /\ ~(0 > 0)
  BY <1>3
<1>. QED BY <1>1, <1>3, <1>5, <1>6, <1>7, <1>8, StaysWithin

LEMMA ArgCharKeeps ==
  ASSUME IInv, ArgvInv, ArgChar
  PROVE  ArgvInv'
<1>1. /\ TypeOK /\ pc = "arg" /\ ~ArgEnds /\ Here \notin {"quote", "backslash"} /\ pool' = Append(pool, Here)
      /\ p' = p + 1 /\ cmd' = cmd /\ argv' = argv /\ quoted' = quoted /\ slashes' = slashes /\ pc' = pc
  BY DEF IInv, ArgChar
<1>2. /\ p + 1 <= Len(cmd) /\ cmd[p + 1] = Here /\ Here # "nul" /\ cmd[p + 1] \notin {"quote", "backslash"}
      /\ (cmd[p + 1] \in Blank => quoted # 0)
  BY <1>1, HereIs DEF ArgEnds
<1>3. /\ cmd \in Seq(Char) /\ p \in Nat /\ Len(argv) \in Nat /\ Began \in Int /\ Began <= p + 1
      /\ Len(pool) \in Nat /\ slashes = 0 /\ quoted \in {0, 1} /\ RestBegin(cmd) \in 1..(p + 1)
      /\ InArg(cmd, p, Len(argv), Began, quoted)
      /\ InPool(cmd, pool, argv[Len(argv)], Began, p - slashes)
  BY <1>1, Within
<1>4. ~Toggles(cmd, p + 1) /\ Stays(cmd, p + 1)
  BY <1>2, Plain
<1>5. InArg(cmd, p + 1, Len(argv), Began, quoted)
  <2>1. Inside(cmd, p + 1) <=> quoted = 1
    <3>1. Inside(cmd, p + 1) <=> Cardinality(TogglesTo(cmd, p)) % 2 = 1
      BY <1>2, <1>3, NextChar
    <3>2. Cardinality(TogglesTo(cmd, p)) % 2 = quoted
      BY <1>3 DEF InArg
    <3>. QED BY <3>1, <3>2
  <2>2. ~Separates(cmd, p + 1)
    BY <1>2, <1>3, <2>1 DEF Separates
  <2>. QED BY <1>2, <1>3, <1>4, <2>2, Advances
<1>6. Counted(cmd, p + 1, Began, 0)
  <2>1. (\A i \in ((p + 1) - 0 + 1)..(p + 1) : FALSE) /\ 0 <= (p + 1) + 1 - Began /\ (p + 1) - 0 = p + 1 /\ p + 1 >= 1
    BY <1>3
  <2>2. cmd[p + 1] # "backslash"
    BY <1>2
  <2>. QED BY ONLY <2>1, <2>2 DEF Counted
<1>7. Len(pool') = Len(pool) + 1 /\ (\A k \in 1..Len(pool) : pool'[k] = pool[k]) /\ pool'[Len(pool) + 1] = Here
  BY <1>1, Grows
<1>8. InPool(cmd, pool', argv[Len(argv)], Began, (p + 1) - 0)
  <2>1. p - slashes = p /\ (p + 1) - 0 = p + 1 /\ p \in Int
    BY <1>3
  <2>2. InPool(cmd, pool, argv[Len(argv)], Began, p) /\ pool'[Len(pool) + 1] = cmd[p + 1] /\ cmd[p + 1] # "nul"
    BY <1>2, <1>3, <1>7, <2>1
  <2>3. InPool(cmd, pool', argv[Len(argv)], Began, p + 1)
    BY <1>3, <1>4, <1>7, <2>1, <2>2, WroteOne
  <2>. QED BY <2>1, <2>3
<1>9. p + 1 \in Nat /\ p + 1 >= p /\ ~(0 > 0) /\ Len(pool') \in Nat /\ Len(pool) <= Len(pool')
  BY <1>3, <1>7
<1>. QED BY <1>1, <1>3, <1>5, <1>6, <1>7, <1>8, <1>9, StaysWithin

\* The backslashes that stay, once the walk is past them.
LEMMA SlashesWritten ==
  ASSUME IInv, ArgvInv, pc = "slashes", Here # "backslash",
         NEW h \in Nat, h = IF Here = "quote" THEN slashes \div 2 ELSE slashes
  PROVE  LET v == pool \o Backslashes(h) IN
         /\ v \in Seq(Char \cup {"nul"}) /\ Len(v) = Len(pool) + h /\ \A k \in 1..Len(pool) : v[k] = pool[k]
         /\ InPool(cmd, v, argv[Len(argv)], Began, p)
         /\ RunBefore(cmd, p + 1) = slashes
<1>1. /\ TypeOK /\ cmd \in Seq(Char) /\ Len(cmd) \in Nat /\ p \in Nat /\ p <= Len(cmd) /\ slashes \in Nat /\ slashes >= 1
      /\ Began \in Int /\ Began >= 1 /\ Len(pool) \in Nat /\ Counted(cmd, p, Began, slashes)
      /\ InPool(cmd, pool, argv[Len(argv)], Began, p - slashes) /\ Here = CharAt(cmd, p + 1)
  BY Within, HereIs
<1>2. /\ slashes <= p + 1 - Began /\ (\A i \in (p - slashes + 1)..p : cmd[i] = "backslash")
      /\ p - slashes >= 1 /\ cmd[p - slashes] # "backslash"
  <2>1. /\ slashes <= p + 1 - Began /\ (\A i \in (p - slashes + 1)..p : cmd[i] = "backslash")
        /\ p - slashes >= 1 /\ cmd[p - slashes] # "backslash"
    BY <1>1 DEF Counted
  <2>. QED BY <1>1, <2>1
<1>3. RunBefore(cmd, p + 1) = slashes
  BY <1>1, <1>2, SlashRun
<1>4. /\ Kept(cmd, Began, p) = Kept(cmd, Began, p - slashes) \cup ((p - slashes + 1)..(p - slashes + h))
      /\ \A i \in (p - slashes + 1)..(p - slashes + h) : cmd[i] = "backslash"
  <2>1. h = Left(cmd, p, slashes) /\ CharAt(cmd, p + 1) # "backslash"
    BY <1>1 DEF Left
  <2>2. /\ Kept(cmd, Began, p) = Kept(cmd, Began, p - slashes) \cup ((p - slashes + 1)..(p - slashes + Left(cmd, p, slashes)))
        /\ \A i \in (p - slashes + 1)..(p - slashes + Left(cmd, p, slashes)) : cmd[i] = "backslash"
    BY <1>1, <2>1, SlashesKept
  <2>. QED BY <2>1, <2>2
<1>. DEFINE run == Backslashes(h)
<1>5. run \in Seq(Char \cup {"nul"}) /\ Len(run) = h /\ \A k \in 1..h : run[k] = "backslash"
  BY RunOfBackslashes DEF Backslashes
<1>. HIDE DEF run
<1>. DEFINE v == pool \o run
<1>6. /\ v \in Seq(Char \cup {"nul"}) /\ Len(v) = Len(pool) + h
      /\ \A k \in 1..Len(pool) : v[k] = pool[k]
      /\ \A m \in 1..h : v[Len(pool) + m] = "backslash"
  <2>1. pool \in Seq(Char \cup {"nul"})
    BY <1>1 DEF TypeOK
  <2>2. /\ v \in Seq(Char \cup {"nul"}) /\ Len(v) = Len(pool) + Len(run)
        /\ \A k \in 1 .. Len(pool) + Len(run) : v[k] = IF k <= Len(pool) THEN pool[k] ELSE run[k - Len(pool)]
    BY <1>5, <2>1, ConcatProperties
  <2>. HIDE DEF v
  <2>3. \A k \in 1..Len(pool) : k \in 1..(Len(pool) + h) /\ k <= Len(pool)
    BY <1>1
  <2>4. \A m \in 1..h : Len(pool) + m \in 1..(Len(pool) + h) /\ ~(Len(pool) + m <= Len(pool)) /\ (Len(pool) + m) - Len(pool) = m
    BY <1>1
  <2>. QED BY <1>5, <2>2, <2>3, <2>4
<1>. HIDE DEF v
<1>x. PICK x \in Int : x = p - slashes + 1
  BY <1>1
<1>y. PICK y \in Int : y = p - slashes + h
  BY <1>1
<1>e. PICK e \in Int : e = p - slashes
  BY <1>1
<1>7. Adds(cmd, pool, v, x, y)
  <2>1. y - x + 1 = h /\ \A i \in x..y : i - x + 1 \in 1..h
    BY <1>1, <1>x, <1>y
  <2>2. \A i \in x..y : cmd[i] = "backslash"
    BY <1>4, <1>x, <1>y
  <2>. QED BY <1>6, <2>1, <2>2 DEF Adds
<1>8. InPool(cmd, v, argv[Len(argv)], Began, p)
  <2>1. e < x /\ x <= y + 1 /\ p \in Int
    BY <1>1, <1>x, <1>y, <1>e
  <2>2. Kept(cmd, Began, p) = Kept(cmd, Began, e) \cup (x..y) /\ InPool(cmd, pool, argv[Len(argv)], Began, e)
    BY <1>1, <1>4, <1>x, <1>y, <1>e
  <2>. QED BY <1>1, <1>7, <2>1, <2>2, Wrote
<1>. QED BY <1>3, <1>6, <1>8 DEF v, run

LEMMA SlashesAloneKeeps ==
  ASSUME IInv, ArgvInv, SlashesAlone
  PROVE  ArgvInv'
<1>1. /\ TypeOK /\ pc = "slashes" /\ Here \notin {"quote", "backslash"} /\ pool' = pool \o Backslashes(slashes)
      /\ slashes' = 0 /\ pc' = "arg" /\ cmd' = cmd /\ p' = p /\ argv' = argv /\ quoted' = quoted
  BY DEF IInv, SlashesAlone
<1>2. /\ p \in Nat /\ slashes \in Nat /\ Len(argv) \in Nat /\ Began \in Int /\ Began <= p + 1 /\ Len(pool) \in Nat
      /\ InArg(cmd, p, Len(argv), Began, quoted) /\ Here = CharAt(cmd, p + 1)
  BY <1>1, Within, HereIs
<1>3. /\ Len(pool') = Len(pool) + slashes /\ \A k \in 1..Len(pool) : pool'[k] = pool[k]
      /\ InPool(cmd, pool', argv[Len(argv)], Began, p)
  <2>1. slashes = IF Here = "quote" THEN slashes \div 2 ELSE slashes
    BY <1>1
  <2>2. LET v == pool \o Backslashes(slashes) IN
        /\ Len(v) = Len(pool) + slashes /\ \A k \in 1..Len(pool) : v[k] = pool[k]
        /\ InPool(cmd, v, argv[Len(argv)], Began, p)
    BY <1>1, <1>2, <2>1, SlashesWritten
  <2>. QED BY <1>1, <2>2
<1>4. Counted(cmd, p, Began, 0)
  <2>1. (\A i \in (p - 0 + 1)..p : FALSE) /\ 0 <= p + 1 - Began /\ ~(0 > 0)
    BY <1>2
  <2>. QED BY <1>1, <1>2, <2>1 DEF Counted
<1>5. InPool(cmd, pool', argv[Len(argv)], Began, p - 0) /\ p >= p /\ ~(0 > 0)
      /\ Len(pool') \in Nat /\ Len(pool) <= Len(pool')
  <2>1. p - 0 = p
    BY <1>2
  <2>. QED BY <1>2, <1>3, <2>1
<1>. QED BY <1>1, <1>2, <1>3, <1>4, <1>5, StaysWithin

LEMMA SlashesThenQuoteKeeps ==
  ASSUME IInv, ArgvInv, SlashesThenQuote
  PROVE  ArgvInv'
<1>. DEFINE v == pool \o Backslashes(slashes \div 2)
<1>1. /\ TypeOK /\ pc = "slashes" /\ Here = "quote" /\ p' = p + 1 /\ slashes' = 0 /\ pc' = "arg"
      /\ cmd' = cmd /\ argv' = argv
      /\ slashes % 2 = 1 => pool' = Append(v, "quote") /\ quoted' = quoted
      /\ slashes % 2 # 1 => pool' = v /\ quoted' = 1 - quoted
  BY DEF IInv, SlashesThenQuote
<1>2. /\ cmd \in Seq(Char) /\ p \in Nat /\ slashes \in Nat /\ slashes \div 2 \in Nat /\ Len(argv) \in Nat /\ Began \in Int /\ Began <= p + 1
      /\ Len(pool) \in Nat /\ quoted \in {0, 1} /\ RestBegin(cmd) \in 1..(p + 1)
      /\ InArg(cmd, p, Len(argv), Began, quoted)
  BY <1>1, Within
<1>3. p + 1 <= Len(cmd) /\ cmd[p + 1] = "quote" /\ CharAt(cmd, p + 1) = "quote"
  BY <1>1, HereIs
<1>4. /\ v \in Seq(Char \cup {"nul"}) /\ Len(v) = Len(pool) + slashes \div 2 /\ (\A k \in 1..Len(pool) : v[k] = pool[k])
      /\ InPool(cmd, v, argv[Len(argv)], Began, p) /\ RunBefore(cmd, p + 1) = slashes
  <2>1. slashes \div 2 = IF Here = "quote" THEN slashes \div 2 ELSE slashes
    BY <1>1
  <2>. QED BY <1>1, <1>2, <2>1, SlashesWritten
<1>. HIDE DEF v
<1>5. ~Separates(cmd, p + 1) /\ (Toggles(cmd, p + 1) <=> slashes % 2 = 0) /\ ~Halved(cmd, p + 1)
  BY <1>3, <1>4 DEF Separates, Toggles, Blank, Halved
<1>6. Counted(cmd, p + 1, Began, 0)
  <2>1. (\A i \in ((p + 1) - 0 + 1)..(p + 1) : FALSE) /\ 0 <= (p + 1) + 1 - Began /\ (p + 1) - 0 = p + 1 /\ p + 1 >= 1
    BY <1>2
  <2>2. cmd[p + 1] # "backslash"
    BY <1>3
  <2>. QED BY ONLY <2>1, <2>2 DEF Counted
<1>7. p + 1 \in Nat /\ p + 1 >= p /\ ~(0 > 0) /\ p \in Int /\ (p + 1) - 0 = p + 1
  BY <1>2
<1>8. CASE slashes % 2 = 1
  <2>1. pool' = Append(v, "quote") /\ quoted' = quoted /\ ~Toggles(cmd, p + 1) /\ Stays(cmd, p + 1)
    BY <1>1, <1>5, <1>8 DEF Stays
  <2>2. InArg(cmd, p + 1, Len(argv), Began, quoted)
    BY <1>2, <1>3, <1>5, <2>1, Advances
  <2>3. "quote" \in Char \cup {"nul"} /\ "quote" # "nul"
    BY DEF Char, Special
  <2>4. Len(pool') = Len(v) + 1 /\ (\A k \in 1..Len(v) : pool'[k] = v[k]) /\ pool'[Len(v) + 1] = "quote"
    BY <1>4, <2>1, <2>3
  <2>5. InPool(cmd, pool', argv[Len(argv)], Began, p + 1)
    <3>1. Began \in Int /\ p \in Int /\ Began <= p + 1 /\ Stays(cmd, p + 1) /\ cmd[p + 1] # "nul"
          /\ pool'[Len(v) + 1] = cmd[p + 1]
      BY ONLY <1>2, <1>3, <1>7, <2>1, <2>3, <2>4
    <3>. QED BY ONLY <1>4, <2>4, <3>1, WroteOne
  <2>6. Len(pool') \in Nat /\ Len(pool) <= Len(pool') /\ \A k \in 1..Len(pool) : pool'[k] = pool[k]
    <3>0. PICK h \in Nat, L \in Nat : h = slashes \div 2 /\ L = Len(pool)
      BY ONLY <1>2
    <3>1. L = Len(pool) /\ Len(v) = L + h /\ \A k \in 1..L : v[k] = pool[k]
      BY ONLY <1>4, <3>0
    <3>2. \A k \in 1..L : k \in 1..(L + h)
      BY ONLY <3>0, h \in Nat, L \in Nat
    <3>3. \A k \in 1..L : pool'[k] = pool[k]
      BY ONLY <2>4, <3>1, <3>2
    <3>. QED BY ONLY <2>4, <3>1, <3>3, h \in Nat, L \in Nat
  <2>. QED BY <1>1, <1>2, <1>6, <1>7, <2>1, <2>2, <2>5, <2>6, StaysWithin
<1>9. CASE slashes % 2 # 1
  <2>1. pool' = v /\ quoted' = 1 - quoted /\ Toggles(cmd, p + 1) /\ ~Stays(cmd, p + 1)
    <3>1. slashes % 2 = 0
      BY <1>2, <1>9
    <3>. QED BY <1>1, <1>5, <1>9, <3>1 DEF Stays
  <2>2. InArg(cmd, p + 1, Len(argv), Began, 1 - quoted)
    BY <1>2, <1>3, <1>5, <2>1, Advances
  <2>3. InPool(cmd, pool', argv[Len(argv)], Began, p + 1)
    <3>1. Kept(cmd, Began, p + 1) = IF Stays(cmd, p + 1) THEN Kept(cmd, Began, p) \cup ((p + 1)..(p + 1))
                                    ELSE Kept(cmd, Began, p)
      BY <1>2, <1>7, OneKept
    <3>2. Kept(cmd, Began, p + 1) = Kept(cmd, Began, p)
      BY <2>1, <3>1
    <3>. QED BY <1>4, <2>1, <3>2 DEF InPool
  <2>4. Len(pool') \in Nat /\ Len(pool) <= Len(pool') /\ \A k \in 1..Len(pool) : pool'[k] = pool[k]
    BY <1>2, <1>4, <2>1
  <2>. QED BY <1>1, <1>2, <1>6, <1>7, <2>1, <2>2, <2>3, <2>4, StaysWithin
<1>. QED BY <1>8, <1>9

(* Every step of the walk keeps what was written in accord with the rules. *)
LEMMA StepArgv == IInv /\ ArgvInv /\ [Next]_vars => ArgvInv'
<1>. SUFFICES ASSUME IInv, ArgvInv, [Next]_vars PROVE ArgvInv'
  OBVIOUS
<1>1. CASE NoMemory
  <2>1. pc' = "failed"
    BY <1>1 DEF NoMemory
  <2>. QED BY <2>1 DEF ArgvInv, NameRight, GapRight, ArgRight, RestRight
<1>2. CASE UNCHANGED vars
  <2>1. /\ cmd' = cmd /\ p' = p /\ pool' = pool /\ argv' = argv /\ quoted' = quoted
        /\ slashes' = slashes /\ pc' = pc
    BY <1>2 DEF vars
  <2>. QED BY <2>1 DEF ArgvInv, NameRight, GapRight, ArgRight, RestRight, Began
<1>. QED
  BY <1>1, <1>2, BeginNameKeeps, NameCharKeeps, EndNameKeeps, SkipBlankKeeps, EndOfLineKeeps, BeginArgKeeps,
     EndArgKeeps, CountSlashKeeps, SlashesThenQuoteKeeps, SlashesAloneKeeps, QuoteKeeps, ArgCharKeeps DEF Next

(* ---- the end of the walk ---- *)

\* The name of every line ends.
LEMMA NameIsText ==
  ASSUME NEW c \in Seq(Char)
  PROVE  NameText(c) \in Seq(Char)
<1>. DEFINE S == {i \in 1..(Len(c) + 1) : EndsName(c, i)}
<1>1. Len(c) \in Nat /\ CharAt(c, Len(c) + 1) = "nul" /\ \A i \in Int : CharAt(c, i) # "nul" => i \in 1..Len(c)
  BY CharIs
<1>2. Len(c) + 1 \in S
  <2>1. QuotedName(c) => Len(c) + 1 > 1
    <3>1. QuotedName(c) => 1 \in 1..Len(c)
      BY <1>1 DEF QuotedName
    <3>. QED BY <1>1, <3>1
  <2>. QED BY <1>1, <2>1 DEF EndsName
<1>3. S \subseteq Nat /\ S # {}
  BY <1>2
<1>4. \A i \in S : i \in Nat /\ i >= 1 /\ i <= Len(c) + 1
  BY <1>1
<1>. HIDE DEF S
<1>5. Min(S) \in S
  BY <1>3, Least
<1>6. NameEnd(c) \in Nat /\ NameEnd(c) >= 1 /\ NameEnd(c) - 1 <= Len(c)
  <2>1. NameEnd(c) = Min(S)
    BY DEF NameEnd, S
  <2>. QED BY <1>1, <1>4, <1>5, <2>1
<1>7. PICK d \in {1, 2} : NameText(c) = SubSeq(c, d, NameEnd(c) - 1)
  BY DEF NameText
<1>8. \A i \in d..(NameEnd(c) - 1) : i \in 1..Len(c)
  BY <1>1, <1>6
<1>9. SubSeq(c, d, NameEnd(c) - 1) \in Seq(Char)
  BY <1>1, <1>6, <1>8
<1>. QED BY <1>7, <1>9

\* The text that stands at an offset is the string read there.
LEMMA StandsRead ==
  ASSUME TypeOK, NEW o, NEW t, Stands(pool, o, t), t = [j \in 1..Len(t) |-> t[j]]
  PROVE  StringAt(o) = t
<1>. DEFINE X == Char \cup {"nul"}
            S == {k \in (o + 1)..Len(pool) : pool[k] = "nul"}
<1>1. /\ pool \in Seq(X) /\ Len(pool) \in Nat /\ o \in Nat /\ Len(t) \in Nat /\ o + Len(t) + 1 <= Len(pool)
      /\ (\A k \in 1..Len(t) : pool[o + k] = t[k] /\ pool[o + k] # "nul") /\ pool[o + Len(t) + 1] = "nul"
  BY DEF TypeOK, Stands
<1>n. PICK n \in Nat : n = Len(t)
  BY <1>1
<1>2. Min(S) = o + n + 1
  <2>1. o + n + 1 \in S /\ \A x \in S : x \in Int
    BY <1>1, <1>n
  <2>2. ASSUME NEW x \in S, ~(o + n + 1 <= x) PROVE FALSE
    <3>1. x - o \in 1..n /\ o + (x - o) = x
      BY <1>1, <2>2
    <3>2. pool[x] # "nul" /\ pool[x] = "nul"
      BY <1>1, <1>n, <3>1
    <3>. QED BY <3>2
  <2>. HIDE DEF S
  <2>. QED BY <2>1, <2>2, LeastIs
<1>3. StringAt(o) = SubSeq(pool, o + 1, o + n)
  <2>1. Min(S) - 1 = o + n
    BY <1>1, <1>2
  <2>. QED BY <2>1 DEF StringAt
<1>. DEFINE u == SubSeq(pool, o + 1, o + n)
<1>4. /\ u \in Seq(X) /\ Len(u) = n /\ \A j \in 1..n : u[j] = pool[o + j]
  <2>. HIDE DEF X
  <2>1. \A i \in (o + 1)..(o + n) : i \in 1..Len(pool)
    BY <1>1, <1>n
  <2>2. u \in Seq(X) /\ Len(u) = n
    <3>1. o + 1 \in 1..(Len(pool) + 1) /\ o + n \in 0..Len(pool)
      BY <1>1, <1>n
    <3>2. o + 1 \in Int /\ o + n \in Int /\ \A i \in (o + 1)..(o + n) : pool[i] \in X
      BY <1>1, <2>1
    <3>3. PICK k \in Int, m \in Int : k = o + 1 /\ m = o + n
      BY <3>2
    <3>4. SubSeq(pool, k, m) \in Seq(X) /\ Len(SubSeq(pool, k, m)) = IF k <= m THEN m - k + 1 ELSE 0
      BY ONLY <3>2, <3>3, SubSeqProperties
    <3>5. (IF o + 1 <= o + n THEN (o + n) - (o + 1) + 1 ELSE 0) = n
      BY <1>1
    <3>. QED BY ONLY <3>3, <3>4, <3>5
  <2>3. \A j \in 1..n : u[j] = pool[o + j]
    BY <1>1, <1>n, <2>1
  <2>. QED BY <2>2, <2>3
<1>. HIDE DEF u, X
<1>5. u = [j \in 1..n |-> u[j]]
  BY <1>4
<1>6. \A j \in 1..n : u[j] = t[j]
  BY <1>1, <1>4, <1>n
<1>7. [j \in 1..n |-> u[j]] = [j \in 1..n |-> t[j]]
  BY <1>6
<1>8. t = [j \in 1..n |-> t[j]]
  BY <1>n
<1>. QED BY <1>3, <1>5, <1>7, <1>8 DEF u

(* ---- the program name of the comment ---- *)

\* What follows each other without a gap is in its order as it stands.
LEMMA StretchIs ==
  ASSUME NEW a \in Int, NEW b \in Int, a <= b + 1, NEW S, S = a..b
  PROVE  Cardinality(S) = b + 1 - a /\ \A k \in 1..(b + 1 - a) : InOrder(S)[k] = a + k - 1
<1>1. IsFiniteSet(S) /\ Cardinality(S) = b + 1 - a
  <2>1. IsFiniteSet(a..b) /\ Cardinality(a..b) = IF a > b THEN 0 ELSE b - a + 1
    BY FS_Interval
  <2>. QED BY <2>1
<1>2. ASSUME NEW k \in 1..(b + 1 - a) PROVE InOrder(S)[k] = a + k - 1
  <2>. DEFINE i == a + k - 1
  <2>1. i \in Int /\ i \in S /\ i - 1 \in Int /\ {j \in S : j < i} = a..(i - 1)
    OBVIOUS
  <2>2. Cardinality(a..(i - 1)) = IF a > i - 1 THEN 0 ELSE (i - 1) - a + 1
    BY <2>1, FS_Interval
  <2>3. Rank(S, i) = Cardinality(a..(i - 1))
    BY <2>1 DEF Rank
  <2>4. Rank(S, i) = k - 1
    BY <2>2, <2>3
  <2>5. \A j \in S : j \in Int
    OBVIOUS
  <2>. HIDE DEF i
  <2>6. InOrder(S)[Rank(S, i) + 1] = i
    BY <1>1, <2>1, <2>5, RankOf
  <2>7. Rank(S, i) + 1 = k
    BY <2>4
  <2>. QED BY <2>6, <2>7 DEF i
<1>. QED BY <1>1, <1>2

LEMMA SaidEndIs ==
  ASSUME NEW c \in Seq(Char)
  PROVE  /\ SaidEnd(c) \in 1..(Len(c) + 1) /\ SaidEnds(c, SaidEnd(c))
         /\ \A i \in 1..(SaidEnd(c) - 1) : ~SaidEnds(c, i)
<1>. DEFINE S == {i \in 1..(Len(c) + 1) : SaidEnds(c, i)}
<1>1. Len(c) \in Nat /\ CharAt(c, Len(c) + 1) = "nul"
  BY CharIs
<1>2. Len(c) + 1 \in S
  BY <1>1 DEF SaidEnds
<1>3. S \subseteq Nat /\ S # {}
  BY <1>2
<1>4. \A i \in S : i \in 1..(Len(c) + 1) /\ SaidEnds(c, i)
  OBVIOUS
<1>5. \A i \in 1..(Len(c) + 1) : SaidEnds(c, i) => i \in S
  OBVIOUS
<1>6. SaidEnd(c) = Min(S)
  BY DEF SaidEnd
<1>. HIDE DEF S
<1>7. Min(S) \in S /\ \A i \in S : Min(S) <= i
  BY <1>3, Least
<1>8. SaidEnd(c) \in 1..(Len(c) + 1) /\ SaidEnds(c, SaidEnd(c))
  BY <1>4, <1>6, <1>7
<1>9. ASSUME NEW i \in 1..(SaidEnd(c) - 1), SaidEnds(c, i) PROVE FALSE
  <2>1. i \in Int /\ i \in 1..(Len(c) + 1) /\ i < SaidEnd(c)
    BY <1>1, <1>8
  <2>2. i \in S
    BY <1>5, <1>9, <2>1
  <2>3. SaidEnd(c) <= i
    BY <1>6, <1>7, <2>2
  <2>. QED BY <1>8, <2>1, <2>3
<1>. QED BY <1>8, <1>9

\* A name that ends at e for the code, and of which the comment leaves d + 1 .. e.
LEMMA NamesAgree ==
  ASSUME NEW c \in Seq(Char), NEW d \in {0, 1}, NEW e \in Nat, d <= e, e <= Len(c),
         QuotedName(c) <=> d = 1, NameEnd(c) = e + 1,
         (1..(SaidEnd(c) - 1)) \ QuotesTo(c, SaidEnd(c) - 1) = (d + 1)..e
  PROVE  NameText(c) = SaidName(c)
<1>. DEFINE kept == (d + 1)..e
            t    == SubSeq(c, d + 1, e)
<1>1. Len(c) \in Nat
  BY CharIs
<1>2. NameText(c) = t
  BY <1>1 DEF NameText
<1>3. t = [k \in 1..(e - d) |-> c[k + d]]
  <2>1. Len(t) = e - d /\ DOMAIN t = 1..(e - d) /\ \A k \in 1..(e - d) : t[k] = c[k + d]
    BY <1>1
  <2>2. t = [k \in 1..(e - d) |-> t[k]]
    BY <1>1
  <2>. HIDE DEF t
  <2>. QED BY <2>1, <2>2
<1>4. Cardinality(kept) = e - d /\ \A k \in 1..(e - d) : InOrder(kept)[k] = k + d
  <2>1. d + 1 \in Int /\ e \in Int /\ d + 1 <= e + 1 /\ e + 1 - (d + 1) = e - d
    OBVIOUS
  <2>2. PICK a \in Int : a = d + 1
    BY <2>1
  <2>3. kept = a..e /\ a <= e + 1
    BY <2>1, <2>2
  <2>. HIDE DEF kept
  <2>4. Cardinality(kept) = e + 1 - a /\ \A k \in 1..(e + 1 - a) : InOrder(kept)[k] = a + k - 1
    BY ONLY <2>1, <2>3, StretchIs
  <2>5. e + 1 - a = e - d /\ \A k \in 1..(e - d) : a + k - 1 = k + d
    BY <2>2
  <2>. QED BY <2>4, <2>5
<1>5. SaidName(c) = [k \in 1..Cardinality(kept) |-> c[InOrder(kept)[k]]]
  BY DEF SaidName
<1>. HIDE DEF kept, t
<1>6. SaidName(c) = [k \in 1..(e - d) |-> c[k + d]]
  BY <1>4, <1>5
<1>. QED BY <1>2, <1>3, <1>6

\* With quotes around the whole of a name, or none, the comment means what the
\* code does.
LEMMA TidyIsSaid ==
  ASSUME NEW c \in Seq(Char), TidyName(c)
  PROVE  NameText(c) = SaidName(c) /\ RestBegin(c) = SaidEnd(c)
<1>. DEFINE s == SaidEnd(c)
            Q == QuotesTo(c, s - 1)
<1>1. /\ Len(c) \in Nat /\ CharAt(c, Len(c) + 1) = "nul"
      /\ \A i \in 1..Len(c) : CharAt(c, i) = c[i] /\ CharAt(c, i) # "nul"
      /\ \A i \in Int : CharAt(c, i) # "nul" => i \in 1..Len(c)
  BY CharIs
<1>2. /\ s \in 1..(Len(c) + 1) /\ SaidEnds(c, s) /\ CharAt(c, s) # "quote"
      /\ \A i \in 1..(s - 1) : ~SaidEnds(c, i)
  <2>1. s \in 1..(Len(c) + 1) /\ SaidEnds(c, s) /\ \A i \in 1..(s - 1) : ~SaidEnds(c, i)
    BY SaidEndIs
  <2>. HIDE DEF s
  <2>. QED BY <2>1 DEF SaidEnds, Blank
<1>3. \A i \in 1..(s - 1) : i \in 1..Len(c)
  BY <1>1, <1>2
<1>4. Q = {} \/ (CharAt(c, 1) = "quote" /\ Q \subseteq {1, s - 1})
  BY DEF TidyName
<1>. HIDE DEF s
<1>5. \A i \in 1..(s - 1) : i \in Q <=> CharAt(c, i) = "quote"
  BY <1>1, <1>3 DEF QuotesTo
<1>6. QuotedName(c) => 1 \in Q /\ s > 1 /\ s - 1 \in 1..Len(c)
  <2>1. SUFFICES ASSUME CharAt(c, 1) = "quote" PROVE 1 \in Q /\ s > 1 /\ s - 1 \in 1..Len(c)
    BY DEF QuotedName
  <2>2. s # 1
    BY <1>2, <2>1
  <2>3. s > 1 /\ 1 \in 1..(s - 1) /\ s - 1 \in 1..(s - 1)
    BY <1>2, <2>2
  <2>. QED BY <1>3, <1>5, <2>1, <2>3
<1>7. CASE Q = {}
  <2>1. ~QuotedName(c)
    BY <1>6, <1>7
  <2>2. ASSUME NEW i \in 1..(s - 1), EndsName(c, i) PROVE FALSE
    <3>1. ~SaidEnds(c, i) /\ i \in 1..Len(c)
      BY <1>2, <1>3
    <3>2. CharAt(c, i) \in Blank
      BY <1>1, <2>1, <2>2, <3>1 DEF EndsName
    <3>3. QuotesTo(c, i - 1) = {}
      <4>1. \A k \in 1..(i - 1) : k \in 1..(s - 1)
        BY <1>2
      <4>. QED BY <1>7, <4>1 DEF QuotesTo
    <3>4. Cardinality(QuotesTo(c, i - 1)) = 0
      BY <3>3, FS_EmptySet
    <3>. QED BY <3>1, <3>2, <3>4 DEF SaidEnds
  <2>3. EndsName(c, s)
    BY <1>2, <2>1 DEF EndsName, SaidEnds
  <2>4. NameEnd(c) = s
    <3>1. s - 1 \in 0..Len(c) /\ (s - 1) + 1 = s
      BY <1>1, <1>2
    <3>2. EndsName(c, (s - 1) + 1)
      BY <2>3, <3>1
    <3>3. NameEnd(c) = (s - 1) + 1
      BY <2>2, <3>1, <3>2, NameEndIs
    <3>. QED BY <3>1, <3>3
  <2>5. RestBegin(c) = s
    BY <1>2, <2>4 DEF RestBegin
  <2>6. NameText(c) = SaidName(c)
    <3>1. s - 1 \in Nat /\ 0 <= s - 1 /\ s - 1 <= Len(c) /\ NameEnd(c) = (s - 1) + 1
      BY <1>1, <1>2, <2>4
    <3>2. (1..(SaidEnd(c) - 1)) \ QuotesTo(c, SaidEnd(c) - 1) = (0 + 1)..(s - 1)
      BY <1>7 DEF s
    <3>3. QuotedName(c) <=> 0 = 1
      BY <2>1
    <3>. QED BY <3>1, <3>2, <3>3, NamesAgree
  <2>. QED BY <2>5, <2>6 DEF s
<1>8. CASE QuotedName(c) /\ Q \subseteq {1, s - 1}
  <2>1. 1 \in Q /\ s > 1 /\ s - 1 \in 1..Len(c) /\ s \in Int
    BY <1>2, <1>6, <1>8
  \* The code's end: the second quote, or the end of the line.
  <2>2. PICK e \in {s - 2, s - 1} :
            e >= 1 /\ Q = {1, e + 1} \ {s} /\ EndsName(c, e + 1) /\ (CharAt(c, e + 1) = "quote" <=> e = s - 2)
    <3>1. CASE s - 1 \in Q /\ s - 1 # 1
      <4>1. s - 2 >= 1 /\ (s - 2) + 1 = s - 1 /\ s - 1 # s /\ 1 # s
        BY <2>1, <3>1
      <4>2. CharAt(c, s - 1) = "quote"
        BY <1>5, <2>1, <3>1
      <4>3. EndsName(c, s - 1)
        BY <1>8, <2>1, <3>1, <4>1, <4>2 DEF EndsName
      <4>4. Q = {1, s - 1} \ {s}
        BY <1>8, <2>1, <3>1, <4>1
      <4>. QED BY <4>1, <4>2, <4>3, <4>4
    <3>2. CASE ~(s - 1 \in Q /\ s - 1 # 1)
      <4>1. Q = {1} /\ 1 # s /\ (s - 1) + 1 = s /\ s - 1 >= 1
        BY <1>8, <2>1, <3>2
      <4>2. Cardinality(QuotesTo(c, s - 1)) = 1
        BY <4>1, FS_Singleton
      <4>3. CharAt(c, s) = "nul"
        BY <1>2, <4>2 DEF SaidEnds
      <4>4. EndsName(c, s)
        BY <1>8, <2>1, <4>3 DEF EndsName
      <4>5. CharAt(c, (s - 1) + 1) # "quote" /\ s - 1 # s - 2 /\ EndsName(c, (s - 1) + 1) /\ Q = {1, (s - 1) + 1} \ {s}
        BY <2>1, <4>1, <4>3, <4>4
      <4>. QED BY <4>1, <4>5
    <3>. QED BY <3>1, <3>2
  <2>3. e \in Nat /\ 1 <= e /\ e <= Len(c) /\ e \in 0..Len(c)
    BY <1>1, <2>1, <2>2
  <2>4. ASSUME NEW i \in 1..e, EndsName(c, i) PROVE FALSE
    <3>1. i > 1 /\ CharAt(c, i) \in {"quote", "nul"}
      BY <1>8, <2>4 DEF EndsName
    <3>2. i \in 1..(s - 1) /\ i # e + 1 /\ i # 1
      BY <2>1, <2>2, <2>3, <3>1
    <3>3. i \notin Q
      BY <2>2, <3>2
    <3>. QED BY <1>1, <1>3, <1>5, <3>1, <3>2, <3>3
  <2>5. NameEnd(c) = e + 1
    BY <2>2, <2>3, <2>4, NameEndIs
  <2>6. RestBegin(c) = s
    BY <2>1, <2>2, <2>5 DEF RestBegin
  <2>7. NameText(c) = SaidName(c)
    <3>1. (1..(s - 1)) \ Q = 2..e
      <4>1. ASSUME NEW i \in Int PROVE i \in (1..(s - 1)) \ Q <=> i \in 2..e
        BY <2>1, <2>2, <2>3
      <4>2. (1..(s - 1)) \ Q \subseteq Int /\ 2..e \subseteq Int
        OBVIOUS
      <4>. HIDE DEF Q
      <4>. QED BY <4>1, <4>2
    <3>2. (1..(SaidEnd(c) - 1)) \ QuotesTo(c, SaidEnd(c) - 1) = (1 + 1)..e
      BY <3>1 DEF s
    <3>3. QuotedName(c) <=> 1 = 1
      BY <1>8
    <3>. QED BY <2>3, <2>5, <3>2, <3>3, NamesAgree
  <2>. QED BY <2>6, <2>7 DEF s
<1>. QED BY <1>4, <1>7, <1>8 DEF QuotedName

LEMMA WalkIsRight == IInv /\ ArgvInv => ArgvFollowsTheRules
<1>. SUFFICES ASSUME IInv, ArgvInv, pc = "done"
              PROVE  /\ [k \in 1..Len(argv) |-> StringAt(argv[k])] = RuleArgs(cmd)
                     /\ TidyName(cmd) => StringAt(argv[1]) = SaidName(cmd) /\ RestBegin(cmd) = SaidEnd(cmd)
  BY DEF ArgvFollowsTheRules
<1>. DEFINE A == ArgStarts(cmd)
            T == {ArgText(cmd, k) : k \in 1..Len(argv)}
<1>1. /\ TypeOK /\ cmd \in Seq(Char) /\ Len(cmd) \in Nat /\ p = Len(cmd) /\ Len(argv) \in Nat /\ Len(argv) >= 1
      /\ Written(cmd, pool, argv, Len(argv)) /\ InGap(cmd, p, Len(argv)) /\ RestBegin(cmd) \in 1..(p + 1)
  BY DEF IInv, TypeOK, ArgvInv, GapRight, RestRight
<1>2. IsFiniteSet(A) /\ (\A i \in A : i \in Int /\ i \in RestPart(cmd)) /\ Cardinality(A) = Len(argv) - 1
  <2>1. RestBegin(cmd) \in Nat
    BY <1>1
  <2>2. IsFiniteSet(A) /\ \A i \in A : i \in Int /\ i \in RestPart(cmd)
    BY <1>1, <2>1, StartsFinite
  <2>3. \A i \in RestPart(cmd) : i <= p
    BY <1>1, <2>1 DEF RestPart
  <2>4. StartsTo(cmd, p) = A
    BY <2>2, <2>3 DEF StartsTo
  <2>5. Cardinality(StartsTo(cmd, p)) = Len(argv) - 1
    BY <1>1 DEF InGap
  <2>. QED BY <2>2, <2>4, <2>5
<1>3. ASSUME NEW k \in 1..Len(argv)
      PROVE  ArgText(cmd, k) = [j \in 1..Len(ArgText(cmd, k)) |-> ArgText(cmd, k)[j]]
  <2>1. CASE k = 1
    <3>1. ArgText(cmd, k) = NameText(cmd)
      BY <2>1 DEF ArgText
    <3>2. NameText(cmd) \in Seq(Char)
      BY <1>1, NameIsText
    <3>. QED BY <3>1, <3>2
  <2>2. CASE k # 1
    <3>. DEFINE S == Span(cmd, InOrder(A)[k - 1])
                N == Cardinality({i \in S : Stays(cmd, i)})
                t == Spelled(cmd, S)
    <3>1. ArgText(cmd, k) = t
      BY <2>2 DEF ArgText
    <3>2. IsFiniteSet(S)
      <4>1. S \subseteq RestPart(cmd)
        BY DEF Span
      <4>2. IsFiniteSet(RestPart(cmd))
        <5>1. RestBegin(cmd) \in Int /\ Len(cmd) \in Int
          BY <1>1
        <5>. QED BY <5>1, FS_Interval DEF RestPart
      <4>. HIDE DEF S
      <4>. QED BY <4>1, <4>2, FS_Subset
    <3>. HIDE DEF S
    <3>3. N \in Nat /\ Len(t) = N
      BY <1>1, <3>2, SpelledIs
    <3>4. t = [j \in 1..N |-> cmd[InOrder({i \in S : Stays(cmd, i)})[j]]]
      BY DEF Spelled
    <3>. HIDE DEF N, t
    <3>5. t = [j \in 1..N |-> t[j]]
      BY <3>4
    <3>. QED BY <3>1, <3>3, <3>5
  <2>. QED BY <2>1, <2>2
<1>4. ASSUME NEW k \in 1..Len(argv) PROVE StringAt(argv[k]) = ArgText(cmd, k)
  <2>1. Stands(pool, argv[k], ArgText(cmd, k))
    BY <1>1 DEF Written
  <2>. QED BY <1>1, <1>3, <2>1, StandsRead
<1>. DEFINE m == Len(argv) - 1
            a == <<NameText(cmd)>>
            b == [k \in 1..m |-> ArgText(cmd, k + 1)]
<1>5. RuleArgs(cmd) = a \o b
  <2>1. ASSUME NEW k \in 1..m PROVE ArgText(cmd, k + 1) = Spelled(cmd, Span(cmd, InOrder(A)[k]))
    <3>1. k + 1 # 1 /\ (k + 1) - 1 = k
      OBVIOUS
    <3>. QED BY <3>1 DEF ArgText
  <2>2. b = [k \in 1..Cardinality(A) |-> Spelled(cmd, Span(cmd, InOrder(A)[k]))]
    BY <1>2, <2>1
  <2>. HIDE DEF b
  <2>. QED BY <2>2 DEF RuleArgs
<1>6. a \in Seq(T) /\ Len(a) = 1 /\ a[1] = ArgText(cmd, 1)
  <2>1. NameText(cmd) = ArgText(cmd, 1) /\ ArgText(cmd, 1) \in T
    BY <1>1 DEF ArgText
  <2>. HIDE DEF T
  <2>. QED BY <2>1
<1>7. m \in Nat /\ b \in Seq(T) /\ Len(b) = m /\ \A k \in 1..m : b[k] = ArgText(cmd, k + 1)
  <2>1. m \in Nat /\ \A k \in 1..m : k + 1 \in 1..Len(argv)
    BY <1>1
  <2>2. \A k \in 1..m : ArgText(cmd, k + 1) \in T
    BY <2>1
  <2>. HIDE DEF T, m
  <2>. QED BY <2>1, <2>2
<1>. HIDE DEF a, b, T
<1>8. /\ a \o b \in Seq(T) /\ Len(a \o b) = Len(argv)
      /\ \A k \in 1..Len(argv) : (a \o b)[k] = ArgText(cmd, k)
  <2>1. /\ a \o b \in Seq(T) /\ Len(a \o b) = 1 + m
        /\ \A k \in 1 .. 1 + m : (a \o b)[k] = IF k <= 1 THEN a[k] ELSE b[k - 1]
    <3>1. /\ a \o b \in Seq(T) /\ Len(a \o b) = Len(a) + Len(b)
          /\ \A k \in 1 .. Len(a) + Len(b) : (a \o b)[k] = IF k <= Len(a) THEN a[k] ELSE b[k - Len(a)]
      BY <1>6, <1>7, ConcatProperties
    <3>. QED BY <1>6, <1>7, <3>1
  <2>2. 1 + m = Len(argv)
    BY <1>1
  <2>3. ASSUME NEW k \in 1..Len(argv) PROVE (a \o b)[k] = ArgText(cmd, k)
    <3>1. CASE k = 1
      BY <1>6, <2>1, <2>2, <3>1
    <3>2. CASE k # 1
      <4>1. ~(k <= 1) /\ k - 1 \in 1..m /\ (k - 1) + 1 = k
        BY <1>1, <3>2
      <4>. QED BY <1>7, <2>1, <2>2, <4>1
    <3>. QED BY <3>1, <3>2
  <2>. QED BY <2>1, <2>2, <2>3
<1>9. a \o b = [k \in 1..Len(argv) |-> ArgText(cmd, k)]
  <2>. DEFINE r == a \o b
  <2>1. r \in Seq(T) /\ Len(r) = Len(argv) /\ \A k \in 1..Len(argv) : r[k] = ArgText(cmd, k)
    BY <1>8
  <2>. HIDE DEF r
  <2>2. r = [k \in 1..Len(argv) |-> r[k]]
    BY <2>1
  <2>. QED BY <2>1, <2>2 DEF r
<1>10. TidyName(cmd) => StringAt(argv[1]) = SaidName(cmd) /\ RestBegin(cmd) = SaidEnd(cmd)
  <2>1. 1 \in 1..Len(argv)
    BY <1>1
  <2>2. StringAt(argv[1]) = NameText(cmd)
    BY <1>4, <2>1 DEF ArgText
  <2>. QED BY <1>1, <2>2, TidyIsSaid
<1>. QED BY <1>4, <1>5, <1>9, <1>10

(* In the startup, when the arguments are split, they are those of the quoting
   rules, and remain so while main runs: whatever the command line, no
   character is lost and no argument split, joined or mixed with a neighbour.
   The program name is the comment's where its quotes are around all of it. *)
THEOREM ArgvIsRight == StartSpec => []ArgvFollowsTheRules
<1>1. StartInit => IInv /\ ArgvInv
  <2>1. StartInit => IInv
    BY InitIInv DEF StartInit
  <2>2. StartInit => ArgvInv
    BY DEF StartInit, Init, ArgvInv, NameRight, GapRight, ArgRight, RestRight
  <2>. QED BY <2>1, <2>2
<1>2. IInv /\ ArgvInv /\ [StartNext]_startVars => (IInv /\ ArgvInv)'
  <2>1. [StartNext]_startVars => [Next]_vars
    BY DEF StartNext, SplitArguments, GetMainArgs, Main, startVars
  <2>. QED BY <2>1, StepIInv, StepArgv
<1>. QED BY <1>1, <1>2, WalkIsRight, PTL DEF StartSpec
=============================================================================
