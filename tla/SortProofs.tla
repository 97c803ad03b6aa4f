----------------------------- MODULE SortProofs -----------------------------
(* qsort sorts every array and keeps its elements; bsearch finds what is there. *)
EXTENDS Sort, SequenceTheorems, FiniteSetTheorems, TLAPS

(***************************************************************************)
(* The inductive invariant.  The intervals still to be sorted lie apart,   *)
(* two elements out of order lie in one of them (Settled), and each loop   *)
(* has its own invariant over the interval it works on.                    *)
(***************************************************************************)
Apart(f, g) == f.hi <= g.lo \/ g.hi <= f.lo

IntervalsApart ==
  /\ lo <= hi
  /\ \A k \in 1..Len(stack) : stack[k].lo <= stack[k].hi
  /\ \A k, m \in 1..Len(stack) : k # m => Apart(stack[k], stack[m])
  /\ Sorting => \A k \in 1..Len(stack) : Apart(Frame(lo, hi), stack[k])
  /\ ~Sorting => stack = << >>

SameElements == {base[x] : x \in Index} = {given[x] : x \in Index}

\* Sorted up to i, but for the element at j that is sinking.
InsertInv ==
  pc = "insert" =>
    /\ lo < i /\ i <= hi /\ lo <= j /\ j <= i /\ (i = hi => j = hi)
    /\ \A x, y \in Index : lo <= x /\ x < y /\ y <= i /\ y < hi /\ y # j
                             => base[x].key <= base[y].key

\* Below the pivot up to store, not below it from there to i.
PartitionInv ==
  pc = "partition" =>
    /\ lo + 1 < hi /\ lo <= store /\ store <= i /\ i <= Last
    /\ \A x \in Index : lo <= x /\ x < store => base[x].key < base[Last].key
    /\ \A x \in Index : store <= x /\ x < i => base[x].key >= base[Last].key

SearchInv ==
  /\ pc = "search" => \A x \in Index : /\ x < lo => base[x].key < key
                                       /\ x >= hi => key < base[x].key
  /\ pc = "done" => SearchFinds

IInv ==
  /\ TypeOK /\ IntervalsApart /\ SameElements /\ Settled
  /\ InsertInv /\ PartitionInv /\ SearchInv

(***************************************************************************)
(* Rearranging one interval.                                               *)
(***************************************************************************)
Within(x, l, h) == l <= x /\ x < h

Shuffles(a, b, l, h) ==
  /\ b \in [Index -> Elem]
  /\ \A x \in Index : ~Within(x, l, h) => b[x] = a[x]
  /\ \A x \in Index : Within(x, l, h) => \E z \in Index : Within(z, l, h) /\ b[x] = a[z]
  /\ \A z \in Index : Within(z, l, h) => \E x \in Index : Within(x, l, h) /\ b[x] = a[z]

LEMMA SwapShuffles ==
  ASSUME NEW a \in [Index -> Elem], NEW l, NEW h, NEW x \in Index, NEW y \in Index,
         Within(x, l, h), Within(y, l, h)
  PROVE  Shuffles(a, Swap(a, x, y), l, h)
  BY DEF Shuffles, Swap

LEMMA SwapIfShuffles ==
  ASSUME NEW a \in [Index -> Elem], NEW l, NEW h, NEW x \in Index, NEW y \in Index,
         Within(x, l, h), Within(y, l, h)
  PROVE  Shuffles(a, SwapIf(a, x, y), l, h)
<1>1. CASE Less(a, x, y)
  BY <1>1, SwapShuffles DEF SwapIf
<1>2. CASE ~Less(a, x, y)
  BY <1>2 DEF SwapIf, Shuffles
<1>. QED BY <1>1, <1>2

LEMMA ShufflesTwice ==
  ASSUME NEW l, NEW h, NEW a, NEW b, NEW c, Shuffles(a, b, l, h), Shuffles(b, c, l, h)
  PROVE  Shuffles(a, c, l, h)
<1>1. \A x \in Index : ~Within(x, l, h) => c[x] = a[x]
  BY DEF Shuffles
<1>2. ASSUME NEW x \in Index, Within(x, l, h)
      PROVE  \E z \in Index : Within(z, l, h) /\ c[x] = a[z]
  <2>1. PICK y \in Index : Within(y, l, h) /\ c[x] = b[y]
    BY <1>2 DEF Shuffles
  <2>2. PICK z \in Index : Within(z, l, h) /\ b[y] = a[z]
    BY <2>1 DEF Shuffles
  <2>. QED BY <2>1, <2>2
<1>3. ASSUME NEW z \in Index, Within(z, l, h)
      PROVE  \E x \in Index : Within(x, l, h) /\ c[x] = a[z]
  <2>1. PICK y \in Index : Within(y, l, h) /\ b[y] = a[z]
    BY <1>3 DEF Shuffles
  <2>2. PICK x \in Index : Within(x, l, h) /\ c[x] = b[y]
    BY <2>1 DEF Shuffles
  <2>. QED BY <2>1, <2>2
<1>. QED BY <1>1, <1>2, <1>3 DEF Shuffles

LEMMA Numbers ==
  ASSUME TypeOK
  PROVE  /\ count \in Nat /\ lo \in 0..count /\ hi \in 0..count
         /\ i \in 0..count /\ j \in 0..count /\ store \in 0..count
         /\ key \in Int /\ \A x \in Index : x \in Int /\ base[x].key \in Int
<1>1. count \in Nat /\ lo \in 0..count /\ hi \in 0..count
      /\ i \in 0..count /\ j \in 0..count /\ store \in 0..count
  BY SortAssumption DEF TypeOK
<1>2. \A x \in Index : x \in Int
  BY <1>1 DEF Index
<1>3. ASSUME NEW x \in Index PROVE base[x].key \in Int
  <2>1. base[x] \in Elem
    BY DEF TypeOK
  <2>. QED BY <2>1, SortAssumption DEF Elem
<1>4. key \in Int
  BY SortAssumption DEF TypeOK
<1>. QED BY <1>1, <1>2, <1>3, <1>4

LEMMA ElementOf == ASSUME NEW S, NEW s \in Seq(S), NEW k \in 1..Len(s) PROVE s[k] \in S
  OBVIOUS

LEMMA Pushed ==
  ASSUME NEW S, NEW s \in Seq(S), NEW e \in S
  PROVE  /\ Append(s, e) \in Seq(S) /\ Len(Append(s, e)) = Len(s) + 1 /\ Append(s, e)[Len(s) + 1] = e
         /\ \A k \in 1..Len(s) : Append(s, e)[k] = s[k]
  OBVIOUS

LEMMA Popped ==
  ASSUME NEW S, NEW s \in Seq(S), s # << >>
  PROVE  /\ Len(s) \in Nat \ {0} /\ SubSeq(s, 1, Len(s) - 1) \in Seq(S)
         /\ Len(SubSeq(s, 1, Len(s) - 1)) = Len(s) - 1
         /\ \A k \in 1..(Len(s) - 1) : SubSeq(s, 1, Len(s) - 1)[k] = s[k]
<1>. DEFINE n == Len(s) - 1
<1>1. Len(s) \in Nat \ {0} /\ n \in Nat
  OBVIOUS
<1>2. \A k \in 1..n : s[k] \in S
  BY <1>1, ElementOf
<1>3. Len(s) - 1 = n
  OBVIOUS
<1>. HIDE DEF n
<1>4. /\ SubSeq(s, 1, n) \in Seq(S) /\ Len(SubSeq(s, 1, n)) = IF 1 <= n THEN n - 1 + 1 ELSE 0
      /\ \A k \in 1..(n - 1 + 1) : SubSeq(s, 1, n)[k] = s[1 + k - 1]
  BY <1>1, <1>2, SubSeqProperties
<1>5. Len(SubSeq(s, 1, n)) = n /\ n - 1 + 1 = n
  BY <1>1, <1>4
<1>6. \A k \in 1..n : 1 + k - 1 = k
  BY <1>1
<1>. QED BY <1>1, <1>3, <1>4, <1>5, <1>6

LEMMA Frames ==
  ASSUME TypeOK, NEW k \in 1..Len(stack)
  PROVE  stack[k].lo \in 0..count /\ stack[k].hi \in 0..count
<1>1. stack \in Seq([lo : 0..count, hi : 0..count])
  BY DEF TypeOK
<1>2. stack[k] \in [lo : 0..count, hi : 0..count]
  BY <1>1, ElementOf
<1>. QED BY <1>2

(* What is rearranged inside the interval in hand stays in order with all that
   is outside it, and the array keeps its elements. *)
LEMMA ShuffleKeeps ==
  ASSUME TypeOK, IntervalsApart, Settled, SameElements, Sorting,
         NEW b, Shuffles(base, b, lo, hi)
  PROVE  /\ \A x, y \in Index : x < y => InOneInterval(x, y) \/ b[x].key <= b[y].key
         /\ {b[x] : x \in Index} = {given[x] : x \in Index}
<1>1. ASSUME NEW x \in Index, NEW y \in Index, x < y, ~InOneInterval(x, y)
      PROVE  b[x].key <= b[y].key
  <2>0. pc # "call" /\ lo \in Int /\ hi \in Int /\ x \in Int /\ y \in Int
    BY DEF TypeOK, Sorting, Index
  <2>1. PICK z \in Index : b[x] = base[z] /\ (z = x \/ (Within(x, lo, hi) /\ Within(z, lo, hi)))
    BY DEF Shuffles
  <2>2. PICK w \in Index : b[y] = base[w] /\ (w = y \/ (Within(y, lo, hi) /\ Within(w, lo, hi)))
    BY DEF Shuffles
  <2>3. z \in Int /\ w \in Int
    BY DEF Index, TypeOK
  <2>4. ~(Within(x, lo, hi) /\ Within(y, lo, hi))
    BY <1>1 DEF InOneInterval, Within
  <2>5. z < w
    <3>1. CASE Within(x, lo, hi)
      <4>1. w = y /\ hi <= y
        BY <1>1, <2>0, <2>2, <2>4, <3>1 DEF Within
      <4>2. z < hi
        BY <2>0, <2>1, <3>1 DEF Within
      <4>. QED BY <2>0, <2>3, <4>1, <4>2
    <3>2. CASE ~Within(x, lo, hi)
      <4>1. z = x
        BY <2>1, <3>2
      <4>2. CASE w = y
        BY <1>1, <4>1, <4>2
      <4>3. CASE Within(y, lo, hi) /\ Within(w, lo, hi)
        BY <1>1, <2>0, <2>3, <3>2, <4>1, <4>3 DEF Within
      <4>. QED BY <2>2, <4>2, <4>3
    <3>. QED BY <3>1, <3>2
  <2>6. ~InOneInterval(z, w)
    <3>1. ~(lo <= z /\ w < hi)
      BY <2>0, <2>1, <2>2, <2>3, <2>4, <2>5, <1>1 DEF Within
    <3>2. ASSUME NEW k \in 1..Len(stack), stack[k].lo <= z, w < stack[k].hi
          PROVE  FALSE
      <4>1. stack[k].lo \in Int /\ stack[k].hi \in Int
        BY Frames, Numbers
      <4>2. Apart(Frame(lo, hi), stack[k])
        BY DEF IntervalsApart
      <4>3. hi <= stack[k].lo \/ stack[k].hi <= lo
        BY <4>2 DEF Apart, Frame
      <4>4. z = x /\ w = y
        BY <2>0, <2>1, <2>2, <2>3, <2>5, <3>2, <4>1, <4>3 DEF Within
      <4>. QED BY <1>1, <3>2, <4>4 DEF InOneInterval
    <3>. QED BY <3>1, <3>2 DEF InOneInterval
  <2>. QED BY <2>0, <2>1, <2>2, <2>5, <2>6 DEF Settled
<1>2. {b[x] : x \in Index} = {base[x] : x \in Index}
  BY DEF Shuffles
<1>. QED BY <1>1, <1>2 DEF SameElements

(* A step inside the interval in hand keeps all but the loop's own invariant. *)
LEMMA Rearranged ==
  ASSUME IInv, Sorting, pc' \in {"insert", "partition"}, Shuffles(base, base', lo, hi),
         UNCHANGED <<count, given, lo, hi, stack, key, found>>,
         i' \in 0..count, j' \in 0..count, store' \in 0..count
  PROVE  TypeOK' /\ IntervalsApart' /\ SameElements' /\ Settled' /\ SearchInv'
<1>1. TypeOK'
  BY DEF IInv, TypeOK, Shuffles, Index
<1>2. IntervalsApart'
  BY DEF IInv, IntervalsApart, Sorting, Frame
<1>3. /\ \A x, y \in Index : x < y => InOneInterval(x, y) \/ base'[x].key <= base'[y].key
      /\ {base'[x] : x \in Index} = {given[x] : x \in Index}
  BY ShuffleKeeps DEF IInv
<1>4. SameElements'
  BY <1>3 DEF SameElements, Index
<1>5. Settled'
  <2>1. \A x, y \in Index : InOneInterval(x, y) => InOneInterval(x, y)'
    BY DEF InOneInterval, Sorting
  <2>. QED BY <1>3, <2>1 DEF Settled, Index
<1>6. SearchInv'
  BY DEF SearchInv
<1>. QED BY <1>1, <1>2, <1>4, <1>5, <1>6

LEMMA NoShuffle == ASSUME TypeOK PROVE Shuffles(base, base, lo, hi)
  BY DEF TypeOK, Shuffles

(***************************************************************************)
(* Returning to a caller: the interval in hand is in order.                *)
(***************************************************************************)
InHandOrdered ==
  \A x, y \in Index : lo <= x /\ x < y /\ y < hi => base[x].key <= base[y].key

LEMMA ReturnKeeps ==
  ASSUME IInv, Sorting, InHandOrdered, Return
  PROVE  IInv'
<1>1. CASE stack = << >>
  <2>1. UNCHANGED <<count, base, given, lo, hi, i, j, store, stack, key, found>> /\ pc' = "sorted"
    BY <1>1 DEF Return
  <2>2. TypeOK' /\ SameElements' /\ InsertInv' /\ PartitionInv' /\ SearchInv'
    BY <2>1 DEF IInv, TypeOK, SameElements, InsertInv, PartitionInv, SearchInv, Index
  <2>3. IntervalsApart'
    BY <1>1, <2>1 DEF IInv, IntervalsApart, Sorting
  <2>4. \A x, y \in Index : InOneInterval(x, y) => lo <= x /\ y < hi
    BY <1>1 DEF InOneInterval
  <2>5. \A x, y \in Index : x < y => base[x].key <= base[y].key
    BY <2>4 DEF IInv, Settled, Sorting, InHandOrdered
  <2>6. Settled'
    BY <2>1, <2>5 DEF Settled, Index
  <2>. QED BY <2>2, <2>3, <2>6 DEF IInv
<1>2. CASE stack # << >>
  <2>. DEFINE n == Len(stack)
  <2>1. /\ lo' = stack[n].lo /\ hi' = stack[n].hi /\ stack' = SubSeq(stack, 1, n - 1) /\ pc' = "loop"
        /\ UNCHANGED <<count, base, given, i, j, store, key, found>>
    BY <1>2 DEF Return
  <2>2. /\ n \in Nat \ {0} /\ stack' \in Seq([lo : 0..count, hi : 0..count]) /\ Len(stack') = n - 1
        /\ \A k \in 1..(n - 1) : stack'[k] = stack[k]
    BY <1>2, <2>1, Popped DEF IInv, TypeOK
  <2>. HIDE DEF n
  <2>3. n \in 1..Len(stack)
    BY <2>2 DEF n
  <2>4. lo' \in 0..count /\ hi' \in 0..count
    BY <2>1, <2>3, Frames DEF IInv
  <2>5. TypeOK' /\ SameElements' /\ InsertInv' /\ PartitionInv' /\ SearchInv'
    <3>1. TypeOK'
      BY <2>1, <2>2, <2>4 DEF IInv, TypeOK, Index
    <3>2. SameElements'
      BY <2>1 DEF IInv, SameElements, Index
    <3>. QED BY <2>1, <3>1, <3>2 DEF InsertInv, PartitionInv, SearchInv
  <2>6. IntervalsApart'
    <3>1. \A k \in 1..Len(stack') : k \in 1..Len(stack) /\ k # n /\ stack'[k] = stack[k]
      BY <2>2 DEF n
    <3>2. lo' <= hi' /\ \A k \in 1..Len(stack') : stack'[k].lo <= stack'[k].hi
      BY <2>1, <2>3, <3>1 DEF IInv, IntervalsApart
    <3>3. \A k, m \in 1..Len(stack') : k # m => Apart(stack'[k], stack'[m])
      BY <3>1 DEF IInv, IntervalsApart
    <3>4. \A k \in 1..Len(stack') : Apart(Frame(lo', hi'), stack'[k])
      <4>1. \A k \in 1..Len(stack') : Apart(stack[n], stack[k])
        BY <2>3, <3>1 DEF IInv, IntervalsApart
      <4>. QED BY <2>1, <3>1, <4>1 DEF Apart, Frame
    <3>. QED BY <2>1, <3>2, <3>3, <3>4 DEF IntervalsApart, Apart, Frame, Sorting
  <2>7. Settled'
    <3>1. ASSUME NEW x \in Index, NEW y \in Index, x < y, ~(base[x].key <= base[y].key)
          PROVE  InOneInterval(x, y)'
      <4>1. InOneInterval(x, y)
        BY <3>1 DEF IInv, Settled, Sorting
      <4>2. ~(lo <= x /\ y < hi)
        BY <3>1 DEF InHandOrdered
      <4>3. PICK k \in 1..Len(stack) : stack[k].lo <= x /\ y < stack[k].hi
        BY <4>1, <4>2 DEF InOneInterval
      <4>4. CASE k = n
        BY <2>1, <4>3, <4>4 DEF InOneInterval, Sorting
      <4>5. CASE k # n
        <5>1. k \in 1..(n - 1)
          BY <2>2, <4>5 DEF n
        <5>2. k \in 1..Len(stack') /\ stack'[k] = stack[k]
          BY <2>2, <5>1
        <5>. QED BY <4>3, <5>2 DEF InOneInterval
      <4>. QED BY <4>4, <4>5
    <3>. QED BY <2>1, <3>1 DEF Settled, Index
  <2>. QED BY <2>5, <2>6, <2>7 DEF IInv
<1>. QED BY <1>1, <1>2

LEMMA ShortKeeps == ASSUME IInv, Short PROVE IInv'
<1>1. InHandOrdered
  BY Numbers DEF IInv, Short, InHandOrdered, Index
<1>. QED BY <1>1, ReturnKeeps DEF Short, Sorting

LEMMA QsortKeeps == ASSUME IInv, Qsort PROVE IInv'
<1>1. UNCHANGED <<count, base, given, i, j, store, stack, key, found>> /\ count \in Nat
  BY Numbers DEF Qsort, IInv
<1>2. CASE count > 1
  <2>1. lo' = 0 /\ hi' = count /\ pc' = "loop"
    BY <1>2 DEF Qsort
  <2>2. TypeOK'
    BY <1>1, <2>1 DEF IInv, TypeOK, Index
  <2>3. IntervalsApart'
    BY <1>1, <2>1 DEF Qsort, IInv, IntervalsApart, Sorting
  <2>4. Settled'
    BY <1>1, <2>1 DEF Settled, InOneInterval, Sorting, Index
  <2>5. SameElements' /\ InsertInv' /\ PartitionInv' /\ SearchInv'
    BY <1>1, <2>1 DEF IInv, SameElements, InsertInv, PartitionInv, SearchInv, Index
  <2>. QED BY <2>2, <2>3, <2>4, <2>5 DEF IInv
<1>3. CASE ~(count > 1)
  <2>1. lo' = lo /\ hi' = hi /\ pc' = "sorted"
    BY <1>3 DEF Qsort
  <2>2. TypeOK'
    BY <1>1, <2>1 DEF IInv, TypeOK, Index
  <2>3. IntervalsApart'
    BY <1>1, <2>1 DEF Qsort, IInv, IntervalsApart, Sorting
  <2>4. Settled'
    BY <1>1, <1>3, <2>1 DEF Settled, Index
  <2>5. SameElements' /\ InsertInv' /\ PartitionInv' /\ SearchInv'
    BY <1>1, <2>1 DEF IInv, SameElements, InsertInv, PartitionInv, SearchInv, Index
  <2>. QED BY <2>2, <2>3, <2>4, <2>5 DEF IInv
<1>. QED BY <1>2, <1>3

(* ---- insertion ---- *)

LEMMA InsertionKeeps == ASSUME IInv, Insertion PROVE IInv'
<1>0. TypeOK /\ lo \in Int /\ hi \in Int /\ hi <= count /\ count \in Nat /\ lo >= 0
  BY Numbers DEF IInv
<1>1. TypeOK' /\ IntervalsApart' /\ SameElements' /\ Settled' /\ SearchInv'
  <2>1. lo + 1 \in 0..count /\ i' \in 0..count /\ j' \in 0..count /\ store' \in 0..count
    BY <1>0 DEF Insertion, TypeOK
  <2>. QED BY <1>0, <2>1, NoShuffle, Rearranged DEF Insertion, Sorting
<1>2. InsertInv'
  BY <1>0 DEF Insertion, InsertInv, Index
<1>3. PartitionInv'
  BY DEF Insertion, PartitionInv
<1>. QED BY <1>1, <1>2, <1>3 DEF IInv

LEMMA SiftKeeps == ASSUME IInv, Sift PROVE IInv'
<1>0. /\ TypeOK /\ lo \in Int /\ hi \in Int /\ i \in Int /\ j \in Int /\ count \in Nat
      /\ lo >= 0 /\ hi <= count /\ \A x \in Index : x \in Int /\ base[x].key \in Int
  BY Numbers DEF IInv
<1>1. lo < j /\ j <= i /\ i < hi /\ pc = "insert"
  BY DEF Sift, IInv, InsertInv
<1>2. j \in Index /\ j - 1 \in Index /\ Within(j, lo, hi) /\ Within(j - 1, lo, hi)
  BY <1>0, <1>1 DEF Index, Within
<1>3. base \in [Index -> Elem]
  BY <1>0 DEF TypeOK
<1>4. Shuffles(base, base', lo, hi)
  BY <1>2, <1>3, SwapShuffles DEF Sift
<1>5. TypeOK' /\ IntervalsApart' /\ SameElements' /\ Settled' /\ SearchInv'
  <2>1. i' \in 0..count /\ j' \in 0..count /\ store' \in 0..count
    BY <1>0, <1>1 DEF Sift, TypeOK
  <2>. QED BY <1>1, <1>4, <2>1, Rearranged DEF Sift, Sorting
<1>6. InsertInv'
  <2>1. /\ base'[j] = base[j - 1] /\ base'[j - 1] = base[j]
        /\ \A x \in Index : x # j /\ x # j - 1 => base'[x] = base[x]
    BY <1>0, <1>2, <1>3 DEF Sift, Swap
  <2>2. base[j].key < base[j - 1].key
    BY DEF Sift, Less
  <2>3. ASSUME NEW x \in Index, NEW y \in Index, lo <= x, x < y, y <= i, y < hi, y # j - 1
        PROVE  base'[x].key <= base'[y].key
    <3>1. \A u, v \in Index : lo <= u /\ u < v /\ v <= i /\ v # j => base[u].key <= base[v].key
      BY <1>0, <1>1 DEF IInv, InsertInv
    <3>2. CASE y = j
      <4>1. CASE x = j - 1
        BY <2>1, <2>2, <3>2, <4>1, <1>0, <1>2
      <4>2. CASE x # j - 1
        <5>0. x < j - 1
          BY <1>0, <2>3, <3>2, <4>2
        <5>1. x < j - 1 /\ base'[x] = base[x]
          BY <1>0, <2>1, <5>0, <4>2
        <5>2. base[x].key <= base[j - 1].key
          BY <1>0, <1>1, <1>2, <2>3, <3>1, <5>1
        <5>. QED BY <2>1, <3>2, <5>1, <5>2
      <4>. QED BY <4>1, <4>2
    <3>3. CASE y # j
      <4>1. base'[y] = base[y]
        BY <2>1, <2>3, <3>3
      <4>2. CASE x = j
        <5>1. j - 1 < y
          BY <1>0, <2>3, <4>2
        <5>2. base[j - 1].key <= base[y].key
          BY <1>0, <1>1, <1>2, <2>3, <3>1, <3>3, <5>1
        <5>. QED BY <2>1, <4>1, <4>2, <5>2
      <4>3. CASE x = j - 1
        <5>1. j < y
          BY <1>0, <2>3, <3>3, <4>3
        <5>2. base[j].key <= base[y].key
          BY <1>0, <1>1, <1>2, <2>3, <3>1, <3>3, <5>1
        <5>. QED BY <2>1, <4>1, <4>3, <5>2
      <4>4. CASE x # j /\ x # j - 1
        BY <2>1, <2>3, <3>1, <3>3, <4>1, <4>4
      <4>. QED BY <4>2, <4>3, <4>4
    <3>. QED BY <3>2, <3>3
  <2>4. lo < i /\ i <= hi /\ lo <= j - 1 /\ j - 1 <= i /\ i # hi
    BY <1>0, <1>1
  <2>. QED BY <2>3, <2>4 DEF InsertInv, Sift, Index
<1>7. PartitionInv'
  BY DEF Sift, PartitionInv
<1>. QED BY <1>5, <1>6, <1>7 DEF IInv

LEMMA InsertedKeeps == ASSUME IInv, Inserted PROVE IInv'
<1>0. /\ TypeOK /\ lo \in Int /\ hi \in Int /\ i \in Int /\ j \in Int /\ count \in Nat
      /\ lo >= 0 /\ hi <= count /\ \A x \in Index : x \in Int /\ base[x].key \in Int
  BY Numbers DEF IInv
<1>1. lo < i /\ lo <= j /\ j <= i /\ i < hi /\ pc = "insert"
  BY DEF Inserted, IInv, InsertInv
<1>2. TypeOK' /\ IntervalsApart' /\ SameElements' /\ Settled' /\ SearchInv'
  <2>1. i' \in 0..count /\ j' \in 0..count /\ store' \in 0..count
    BY <1>0, <1>1 DEF Inserted, TypeOK
  <2>. QED BY <1>0, <1>1, <2>1, NoShuffle, Rearranged DEF Inserted, Sorting
<1>3. InsertInv'
  <2>1. \A u, v \in Index : lo <= u /\ u < v /\ v <= i /\ v # j => base[u].key <= base[v].key
    BY <1>0, <1>1 DEF IInv, InsertInv
  <2>2. ASSUME NEW x \in Index, lo <= x, x < j PROVE base[x].key <= base[j].key
    <3>1. j - 1 \in Index /\ j \in Index /\ ~(base[j].key < base[j - 1].key)
      BY <1>0, <1>1, <2>2 DEF Inserted, Less, Index
    <3>2. x = j - 1 \/ base[x].key <= base[j - 1].key
      BY <1>0, <1>1, <2>1, <2>2, <3>1
    <3>. QED BY <1>0, <3>1, <3>2
  <2>3. \A x, y \in Index : lo <= x /\ x < y /\ y <= i => base[x].key <= base[y].key
    BY <2>1, <2>2
  <2>4. \A x, y \in Index : lo <= x /\ x < y /\ y <= i + 1 /\ y < hi /\ y # i + 1 => base[x].key <= base[y].key
    BY <1>0, <2>3
  <2>5. lo < i + 1 /\ i + 1 <= hi /\ lo <= i + 1 /\ i + 1 <= i + 1
    BY <1>0, <1>1
  <2>. QED BY <2>4, <2>5 DEF InsertInv, Inserted, Index
<1>4. PartitionInv'
  BY DEF Inserted, PartitionInv
<1>. QED BY <1>2, <1>3, <1>4 DEF IInv

LEMMA InsertionEndsKeeps == ASSUME IInv, InsertionEnds PROVE IInv'
<1>0. /\ TypeOK /\ lo \in Int /\ hi \in Int /\ i \in Int /\ j \in Int /\ count \in Nat
      /\ \A x \in Index : x \in Int /\ base[x].key \in Int
  BY Numbers DEF IInv
<1>1. pc = "insert" /\ i = hi /\ j = hi
  BY <1>0 DEF InsertionEnds, IInv, InsertInv
<1>2. InHandOrdered
  BY <1>0, <1>1 DEF IInv, InsertInv, InHandOrdered
<1>. QED BY <1>1, <1>2, ReturnKeeps DEF InsertionEnds, Sorting

(* ---- partition ---- *)

LEMMA MedianKeeps == ASSUME IInv, Median PROVE IInv'
<1>0. /\ TypeOK /\ lo \in Int /\ hi \in Int /\ count \in Nat /\ lo >= 0 /\ hi <= count
  BY Numbers DEF IInv
<1>1. lo + 1 < hi /\ pc = "loop"
  BY DEF Median
<1>2. Mid \in Int /\ lo <= Mid /\ Mid < hi /\ Last \in Int /\ lo < Last /\ Last < hi
  BY <1>0, <1>1 DEF Mid, Last
<1>3. /\ Mid \in Index /\ Within(Mid, lo, hi) /\ lo \in Index /\ Within(lo, lo, hi)
      /\ Last \in Index /\ Within(Last, lo, hi)
  BY <1>0, <1>1, <1>2 DEF Within, Index
<1>. DEFINE a == SwapIf(base, Mid, lo)
            b == SwapIf(a, Last, lo)
            c == SwapIf(b, Mid, Last)
<1>4. Shuffles(base, a, lo, hi)
  BY <1>0, <1>3, SwapIfShuffles DEF TypeOK
<1>. HIDE DEF a
<1>5. Shuffles(a, b, lo, hi)
  <2>1. a \in [Index -> Elem]
    BY <1>4 DEF Shuffles
  <2>. QED BY <1>3, <2>1, SwapIfShuffles DEF b
<1>. HIDE DEF b
<1>6. Shuffles(b, c, lo, hi)
  <2>1. b \in [Index -> Elem]
    BY <1>5 DEF Shuffles
  <2>. QED BY <1>3, <2>1, SwapIfShuffles DEF c
<1>7. base' = c
  BY DEF Median, a, b
<1>8. Shuffles(base, base', lo, hi)
  BY <1>4, <1>5, <1>6, <1>7, ShufflesTwice
<1>9. TypeOK' /\ IntervalsApart' /\ SameElements' /\ Settled' /\ SearchInv'
  <2>1. i' \in 0..count /\ j' \in 0..count /\ store' \in 0..count
    BY <1>0 DEF Median, TypeOK
  <2>. QED BY <1>1, <1>8, <2>1, Rearranged DEF Median, Sorting
<1>10. InsertInv'
  BY DEF Median, InsertInv
<1>11. PartitionInv'
  BY <1>0, <1>1 DEF Median, PartitionInv, Index, Last
<1>. QED BY <1>9, <1>10, <1>11 DEF IInv

LEMMA PartitionNumbers ==
  ASSUME IInv, pc = "partition"
  PROVE  /\ TypeOK /\ lo \in Int /\ hi \in Int /\ i \in Int /\ store \in Int /\ count \in Nat
         /\ lo >= 0 /\ hi <= count /\ Last = hi - 1 /\ Last \in Int
         /\ lo <= store /\ store <= i /\ i <= Last /\ lo + 1 < hi
         /\ store \in Index /\ i \in Index /\ Last \in Index /\ lo < Last
         /\ \A x \in Index : x \in Int /\ base[x].key \in Int
         /\ base \in [Index -> Elem]
<1>1. /\ TypeOK /\ lo \in Int /\ hi \in Int /\ i \in Int /\ store \in Int /\ count \in Nat
      /\ lo >= 0 /\ hi <= count /\ \A x \in Index : x \in Int /\ base[x].key \in Int
  BY Numbers DEF IInv
<1>2. lo + 1 < hi /\ lo <= store /\ store <= i /\ i <= Last
  BY DEF IInv, PartitionInv
<1>3. Last = hi - 1 /\ Last \in Int
  BY <1>1 DEF Last
<1>. QED BY <1>1, <1>2, <1>3 DEF Index, TypeOK

LEMMA BelowKeeps == ASSUME IInv, Below PROVE IInv'
<1>1. pc = "partition" /\ i < Last /\ base[i].key < base[Last].key
  BY DEF Below, Less
<1>2. Within(i, lo, hi) /\ Within(store, lo, hi)
  BY <1>1, PartitionNumbers DEF Within
<1>3. Shuffles(base, base', lo, hi)
  BY <1>1, <1>2, PartitionNumbers, SwapShuffles DEF Below
<1>4. TypeOK' /\ IntervalsApart' /\ SameElements' /\ Settled' /\ SearchInv'
  <2>1. i' \in 0..count /\ store' \in 0..count /\ j' \in 0..count
    <3>1. i' = i + 1 /\ store' = store + 1 /\ j' = j
      BY DEF Below
    <3>2. /\ i \in Int /\ store \in Int /\ count \in Nat /\ hi \in Int /\ 0 <= lo /\ lo \in Int
          /\ lo <= store /\ store <= i /\ i < hi - 1 /\ hi <= count
      BY <1>1, PartitionNumbers
    <3>3. j \in 0..count
      BY <1>1, PartitionNumbers DEF TypeOK
    <3>. QED BY ONLY <3>1, <3>2, <3>3
  <2>. QED BY <1>1, <1>3, <2>1, Rearranged DEF Below, Sorting
<1>5. InsertInv'
  BY DEF Below, InsertInv
<1>6. PartitionInv'
  <2>1. /\ base'[store] = base[i] /\ (i # store => base'[i] = base[store])
        /\ \A x \in Index : x # i /\ x # store => base'[x] = base[x]
    BY <1>1, PartitionNumbers DEF Below, Swap
  <2>2. Last' = Last /\ base'[Last] = base[Last] /\ Index' = Index
    BY <1>1, <2>1, PartitionNumbers DEF Below, Last, Index
  <2>3. /\ \A x \in Index : lo <= x /\ x < store => base[x].key < base[Last].key
        /\ \A x \in Index : store <= x /\ x < i => base[x].key >= base[Last].key
    BY <1>1 DEF IInv, PartitionInv
  <2>4. \A x \in Index : lo <= x /\ x < store + 1 => base'[x].key < base[Last].key
    <3>1. ASSUME NEW x \in Index, lo <= x, x < store + 1 PROVE base'[x].key < base[Last].key
      <4>1. CASE x = store
        BY <1>1, <2>1, <4>1
      <4>2. CASE x # store
        <5>1. x < store /\ x # i
          BY <1>1, <3>1, <4>2, PartitionNumbers
        <5>. QED BY <2>1, <2>3, <3>1, <4>2, <5>1
      <4>. QED BY <4>1, <4>2
    <3>. QED BY <3>1
  <2>5. \A x \in Index : store + 1 <= x /\ x < i + 1 => base'[x].key >= base[Last].key
    <3>1. ASSUME NEW x \in Index, store + 1 <= x, x < i + 1 PROVE base'[x].key >= base[Last].key
      <4>0. x # store /\ store <= x
        BY <1>1, <3>1, PartitionNumbers
      <4>1. CASE x = i
        <5>1. base'[x] = base[store] /\ store < i
          BY <1>1, <2>1, <3>1, <4>1, PartitionNumbers
        <5>. QED BY <1>1, <2>3, <5>1, PartitionNumbers
      <4>2. CASE x # i
        <5>1. x < i
          BY <1>1, <3>1, <4>2, PartitionNumbers
        <5>. QED BY <2>1, <2>3, <4>0, <4>2, <5>1
      <4>. QED BY <4>1, <4>2
    <3>. QED BY <3>1
  <2>6. lo + 1 < hi /\ lo <= store + 1 /\ store + 1 <= i + 1 /\ i + 1 <= Last
    BY <1>1, PartitionNumbers
  <2>7. lo' = lo /\ hi' = hi /\ store' = store + 1 /\ i' = i + 1
    BY DEF Below
  <2>. QED BY <2>2, <2>4, <2>5, <2>6, <2>7 DEF PartitionInv
<1>. QED BY <1>4, <1>5, <1>6 DEF IInv

LEMMA NotBelowKeeps == ASSUME IInv, NotBelow PROVE IInv'
<1>1. pc = "partition" /\ i < Last /\ base[i].key >= base[Last].key
  BY PartitionNumbers DEF NotBelow, Less
<1>2. TypeOK' /\ IntervalsApart' /\ SameElements' /\ Settled' /\ SearchInv'
  <2>1. i' \in 0..count /\ store' \in 0..count /\ j' \in 0..count
    BY <1>1, PartitionNumbers DEF NotBelow, TypeOK
  <2>. QED BY <1>1, <2>1, NoShuffle, PartitionNumbers, Rearranged DEF NotBelow, Sorting
<1>3. InsertInv'
  BY DEF NotBelow, InsertInv
<1>4. PartitionInv'
  <2>1. /\ \A x \in Index : lo <= x /\ x < store => base[x].key < base[Last].key
        /\ \A x \in Index : store <= x /\ x < i => base[x].key >= base[Last].key
    BY <1>1 DEF IInv, PartitionInv
  <2>2. \A x \in Index : store <= x /\ x < i + 1 => base[x].key >= base[Last].key
    BY <1>1, <2>1, PartitionNumbers
  <2>3. lo + 1 < hi /\ lo <= store /\ store <= i + 1 /\ i + 1 <= Last
    BY <1>1, PartitionNumbers
  <2>4. /\ lo' = lo /\ hi' = hi /\ store' = store /\ i' = i + 1 /\ base' = base
        /\ Last' = Last /\ Index' = Index
    BY DEF NotBelow, Last, Index
  <2>. QED BY <2>1, <2>2, <2>3, <2>4 DEF PartitionInv
<1>. QED BY <1>2, <1>3, <1>4 DEF IInv

\* What Split leaves on the stack and in hand are the two sides of store.
LEMMA Sides ==
  ASSUME IInv, Split
  PROVE  /\ pc = "partition" /\ pc' = "loop" /\ i = Last
         /\ stack' \in Seq([lo : 0..count, hi : 0..count]) /\ Len(stack') = Len(stack) + 1
         /\ \A k \in 1..Len(stack) : stack'[k] = stack[k]
         /\ \/ stack'[Len(stack) + 1] = Frame(store + 1, hi) /\ lo' = lo /\ hi' = store
            \/ stack'[Len(stack) + 1] = Frame(lo, store) /\ lo' = store + 1 /\ hi' = hi
<1>1. pc = "partition" /\ pc' = "loop" /\ i >= Last
  BY DEF Split
<1>2. Frame(store + 1, hi) \in [lo : 0..count, hi : 0..count] /\ Frame(lo, store) \in [lo : 0..count, hi : 0..count]
  BY <1>1, PartitionNumbers DEF Frame, TypeOK
<1>3. stack \in Seq([lo : 0..count, hi : 0..count])
  BY DEF IInv, TypeOK
<1>4. i = Last
  BY <1>1, PartitionNumbers
<1>5. CASE stack' = Append(stack, Frame(store + 1, hi)) /\ lo' = lo /\ hi' = store
  BY <1>1, <1>2, <1>3, <1>4, <1>5, Pushed
<1>6. CASE stack' = Append(stack, Frame(lo, store)) /\ lo' = store + 1 /\ hi' = hi
  BY <1>1, <1>2, <1>3, <1>4, <1>6, Pushed
<1>. QED BY <1>5, <1>6 DEF Split

LEMMA SplitKeeps == ASSUME IInv, Split PROVE IInv'
<1>. DEFINE n == Len(stack)
<1>0. n \in Nat
  BY DEF IInv, TypeOK
<1>1. UNCHANGED <<count, given, i, j, store, key, found>> /\ base' = Swap(base, store, Last)
  BY DEF Split
<1>2. Within(store, lo, hi) /\ Within(Last, lo, hi)
  BY Sides, PartitionNumbers DEF Within
<1>3. Shuffles(base, base', lo, hi)
  BY <1>1, <1>2, Sides, PartitionNumbers, SwapShuffles
<1>4. TypeOK'
  <2>0. lo \in 0..count /\ hi \in 0..count
    BY Sides, PartitionNumbers DEF TypeOK
  <2>1. lo' \in 0..count /\ hi' \in 0..count
    <3>1. /\ lo \in Int /\ hi \in Int /\ store \in Int /\ count \in Nat /\ lo <= store /\ store + 1 <= hi
      BY Sides, PartitionNumbers
    <3>2. (lo' = lo /\ hi' = store) \/ (lo' = store + 1 /\ hi' = hi)
      BY Sides
    <3>. QED BY ONLY <2>0, <3>1, <3>2
  <2>. QED BY <1>1, <1>3, <2>1, Sides DEF IInv, TypeOK, Shuffles, Index
<1>5. IntervalsApart'
  <2>. DEFINE new == stack'[n + 1]
  <2>1. /\ lo' <= hi' /\ new.lo <= new.hi /\ (hi' <= new.lo \/ new.hi <= lo')
        /\ lo <= lo' /\ hi' <= hi /\ lo <= new.lo /\ new.hi <= hi
    BY Sides, PartitionNumbers DEF Frame
  <2>2. \A k \in 1..n : /\ stack'[k] = stack[k] /\ stack[k].lo <= stack[k].hi
                         /\ (hi <= stack[k].lo \/ stack[k].hi <= lo)
                         /\ stack[k].lo \in Int /\ stack[k].hi \in Int
    <3>1. ASSUME NEW k \in 1..n
          PROVE  stack[k].lo \in Int /\ stack[k].hi \in Int
      BY Frames, Numbers DEF IInv
    <3>2. \A k \in 1..n : stack[k].lo <= stack[k].hi /\ Apart(Frame(lo, hi), stack[k])
      BY Sides DEF IInv, IntervalsApart, Sorting
    <3>. QED BY <3>1, <3>2, Sides DEF Apart, Frame
  <2>3. new.lo \in Int /\ new.hi \in Int /\ lo' \in Int /\ hi' \in Int
    BY Sides, PartitionNumbers DEF Frame
  <2>. HIDE DEF new
  <2>4. \A k \in 1..n : /\ (new.hi <= stack[k].lo \/ stack[k].hi <= new.lo)
                         /\ (hi' <= stack[k].lo \/ stack[k].hi <= lo')
    <3>1. lo \in Int /\ hi \in Int
      BY Sides, PartitionNumbers
    <3>. QED BY <2>1, <2>2, <2>3, <3>1
  <2>5. \A k \in 1..Len(stack') : k = n + 1 \/ k \in 1..n
    BY <1>0, Sides
  <2>6. \A k, m \in 1..Len(stack') : k # m => Apart(stack'[k], stack'[m])
    <3>1. ASSUME NEW k \in 1..Len(stack'), NEW m \in 1..Len(stack'), k # m
          PROVE  Apart(stack'[k], stack'[m])
      <4>1. CASE k = n + 1
        <5>1. m \in 1..n
          BY <2>5, <3>1, <4>1
        <5>. QED BY <2>2, <2>4, <4>1, <5>1 DEF new, Apart
      <4>2. CASE k \in 1..n /\ m = n + 1
        BY <2>2, <2>4, <4>2 DEF new, Apart
      <4>3. CASE k \in 1..n /\ m \in 1..n
        BY <2>2, <3>1, <4>3 DEF IInv, IntervalsApart
      <4>. QED BY <2>5, <4>1, <4>2, <4>3
    <3>. QED BY <3>1
  <2>7. \A k \in 1..Len(stack') : stack'[k].lo <= stack'[k].hi /\ (hi' <= stack'[k].lo \/ stack'[k].hi <= lo')
    <3>1. ASSUME NEW k \in 1..Len(stack')
          PROVE  stack'[k].lo <= stack'[k].hi /\ (hi' <= stack'[k].lo \/ stack'[k].hi <= lo')
      <4>1. CASE k = n + 1
        BY <2>1, <4>1 DEF new
      <4>2. CASE k \in 1..n
        BY <2>2, <2>4, <4>2
      <4>. QED BY <2>5, <4>1, <4>2
    <3>. QED BY <3>1
  <2>. QED BY <2>1, <2>6, <2>7, Sides DEF IntervalsApart, Apart, Frame, Sorting
<1>6. /\ \A x, y \in Index : x < y => InOneInterval(x, y) \/ base'[x].key <= base'[y].key
      /\ {base'[x] : x \in Index} = {given[x] : x \in Index}
  <2>1. Sorting
    BY Sides DEF Sorting
  <2>. QED BY <1>3, <2>1, ShuffleKeeps DEF IInv
<1>7. SameElements'
  BY <1>1, <1>6 DEF SameElements, Index
<1>8. Settled'
  <2>0. /\ base'[store] = base[Last] /\ base'[Last] = base[store]
        /\ \A x \in Index : x # store /\ x # Last => base'[x] = base[x]
    BY <1>1, Sides, PartitionNumbers DEF Swap
  <2>1. \A x \in Index : lo <= x /\ x < store => base'[x].key < base'[store].key
    <3>1. \A x \in Index : lo <= x /\ x < store => base[x].key < base[Last].key
      BY Sides DEF IInv, PartitionInv
    <3>2. \A x \in Index : x < store => x # store /\ x # Last
      BY Sides, PartitionNumbers
    <3>. QED BY <2>0, <3>1, <3>2
  <2>2. \A x \in Index : store < x /\ x < hi => base'[store].key <= base'[x].key
    <3>1. \A x \in Index : store <= x /\ x < Last => base[x].key >= base[Last].key
      BY Sides DEF IInv, PartitionInv
    <3>2. ASSUME NEW x \in Index, store < x, x < hi PROVE base'[store].key <= base'[x].key
      <4>1. CASE x = Last
        <5>1. store < Last /\ store <= store /\ store \in Index
          BY <3>2, <4>1, Sides, PartitionNumbers
        <5>2. base[store].key >= base[Last].key
          BY <3>1, <5>1
        <5>3. base[store].key \in Int /\ base[Last].key \in Int
          BY Sides, PartitionNumbers
        <5>. QED BY <2>0, <4>1, <5>2, <5>3
      <4>2. CASE x # Last
        <5>1. x < Last /\ x # store /\ store <= x
          BY <3>2, <4>2, Sides, PartitionNumbers
        <5>. QED BY <2>0, <3>1, <4>2, <5>1, Sides, PartitionNumbers
      <4>. QED BY <4>1, <4>2
    <3>. QED BY <3>2
  <2>3. ASSUME NEW x \in Index, NEW y \in Index, x < y, ~(base'[x].key <= base'[y].key)
        PROVE  InOneInterval(x, y)'
    <3>0. x \in Int /\ y \in Int /\ base'[x].key \in Int /\ base'[y].key \in Int /\ base'[store].key \in Int
      <4>1. \A z \in Index : z \in Int /\ base'[z].key \in Int
        BY <1>3, SortAssumption, Sides, PartitionNumbers DEF Shuffles, Elem
      <4>. QED BY <4>1, Sides, PartitionNumbers
    <3>1. InOneInterval(x, y)
      BY <1>6, <2>3
    <3>2. CASE lo <= x /\ y < hi
      <4>0. lo \in Int /\ hi \in Int /\ store \in Int
        BY Sides, PartitionNumbers
      <4>5. ~(x <= store /\ store <= y)
        <5>1. SUFFICES ASSUME x <= store, store <= y PROVE FALSE
          OBVIOUS
        <5>2. base'[x].key <= base'[store].key
          <6>1. CASE x = store
            BY <3>0, <6>1
          <6>2. CASE x # store
            BY <2>1, <3>0, <3>2, <4>0, <5>1, <6>2
          <6>. QED BY <6>1, <6>2
        <5>3. base'[store].key <= base'[y].key
          <6>1. CASE y = store
            BY <3>0, <6>1
          <6>2. CASE y # store
            BY <2>2, <3>0, <3>2, <4>0, <5>1, <6>2
          <6>. QED BY <6>1, <6>2
        <5>. QED BY <2>3, <3>0, <5>2, <5>3
      <4>1. ~(x < store /\ store < y) /\ x # store /\ y # store
        BY <2>3, <3>0, <4>0, <4>5
      <4>2. y < store \/ store + 1 <= x
        <5>1. store \in Int
          BY Sides, PartitionNumbers
        <5>. QED BY ONLY <3>0, <4>1, <5>1
      <4>3. \/ lo' <= x /\ y < hi'
            \/ stack'[n + 1].lo <= x /\ y < stack'[n + 1].hi
        <5>1. CASE y < store
          <6>1. \/ lo' = lo /\ hi' = store
                \/ stack'[n + 1].lo = lo /\ stack'[n + 1].hi = store
            BY Sides DEF Frame
          <6>. QED BY ONLY <3>2, <5>1, <6>1
        <5>2. CASE store + 1 <= x
          <6>1. \/ lo' = store + 1 /\ hi' = hi
                \/ stack'[n + 1].lo = store + 1 /\ stack'[n + 1].hi = hi
            BY Sides DEF Frame
          <6>. QED BY ONLY <3>2, <5>2, <6>1
        <5>. QED BY <4>2, <5>1, <5>2
      <4>4. n + 1 \in 1..Len(stack')
        BY <1>0, Sides
      <4>. QED BY <4>3, <4>4, Sides DEF InOneInterval, Sorting
    <3>3. CASE \E k \in 1..Len(stack) : stack[k].lo <= x /\ y < stack[k].hi
      <4>1. PICK k \in 1..Len(stack) : stack[k].lo <= x /\ y < stack[k].hi
        BY <3>3
      <4>2. k \in 1..Len(stack') /\ stack'[k] = stack[k]
        BY <1>0, Sides
      <4>. QED BY <4>1, <4>2 DEF InOneInterval
    <3>. QED BY <3>1, <3>2, <3>3 DEF InOneInterval
  <2>. QED BY <1>1, <2>3 DEF Settled, Index
<1>9. InsertInv' /\ PartitionInv' /\ SearchInv'
  BY Sides DEF InsertInv, PartitionInv, SearchInv
<1>. QED BY <1>4, <1>5, <1>7, <1>8, <1>9 DEF IInv

(* ---- bsearch ---- *)

LEMMA Ordered ==
  ASSUME IInv, pc \in {"sorted", "search", "done"}
  PROVE  ~Sorting /\ stack = << >> /\ \A x, y \in Index : x < y => base[x].key <= base[y].key
<1>1. ~Sorting /\ stack = << >>
  BY DEF IInv, IntervalsApart, Sorting
<1>2. \A x, y \in Index : ~InOneInterval(x, y)
  BY <1>1 DEF InOneInterval
<1>. QED BY <1>1, <1>2 DEF IInv, Settled

LEMMA BsearchKeeps == ASSUME IInv, Bsearch PROVE IInv'
<1>1. /\ UNCHANGED <<count, base, given, i, j, store, stack, key, found>>
      /\ pc = "sorted" /\ lo' = 0 /\ hi' = count /\ pc' = "search"
  BY DEF Bsearch
<1>2. count \in Nat /\ ~Sorting /\ stack = << >>
  BY <1>1, Numbers, Ordered DEF IInv
<1>3. TypeOK' /\ IntervalsApart' /\ SameElements'
  BY <1>1, <1>2 DEF IInv, TypeOK, IntervalsApart, SameElements, Sorting, Index
<1>4. Settled'
  BY <1>1, Ordered DEF Settled, Index
<1>5. InsertInv' /\ PartitionInv'
  BY <1>1 DEF InsertInv, PartitionInv
<1>6. SearchInv'
  BY <1>1, <1>2 DEF SearchInv, Index
<1>. QED BY <1>3, <1>4, <1>5, <1>6 DEF IInv

LEMMA ProbeKeeps == ASSUME IInv, Probe PROVE IInv'
<1>0. /\ lo \in 0..count /\ hi \in 0..count /\ count \in Nat /\ key \in Int
      /\ \A x \in Index : x \in Int /\ base[x].key \in Int
  BY Numbers DEF IInv
<1>1. pc = "search" /\ lo < hi /\ UNCHANGED <<count, base, given, i, j, store, stack, key>>
  BY DEF Probe
<1>2. Mid \in Int /\ lo <= Mid /\ Mid < hi /\ Mid \in Index
  BY <1>0, <1>1 DEF Mid, Index
<1>. HIDE DEF Mid
<1>3. \A x, y \in Index : x < y => base[x].key <= base[y].key
  BY <1>1, Ordered
<1>4. \A x \in Index : (x < lo => base[x].key < key) /\ (x >= hi => key < base[x].key)
  BY <1>1 DEF IInv, SearchInv
<1>5. lo' \in 0..count /\ hi' \in 0..count /\ lo' <= hi' /\ found' \in {-1} \cup Index /\ pc' \in {"search", "done"}
  BY <1>0, <1>1, <1>2 DEF Probe, IInv, TypeOK
<1>6. TypeOK' /\ SameElements' /\ InsertInv' /\ PartitionInv'
  BY <1>1, <1>5 DEF IInv, TypeOK, SameElements, InsertInv, PartitionInv, Index
<1>7. IntervalsApart'
  BY <1>1, <1>5, Ordered DEF IntervalsApart, Sorting
<1>8. Settled'
  BY <1>1, <1>3 DEF Settled, Index
<1>9. SearchInv'
  <2>1. CASE key = base[Mid].key /\ found' = Mid /\ pc' = "done" /\ UNCHANGED <<lo, hi>>
    <3>1. Mid # -1
      BY <1>0, <1>2
    <3>. QED BY <1>1, <2>1, <3>1 DEF SearchInv, SearchFinds
  <2>2. CASE key < base[Mid].key /\ hi' = Mid /\ UNCHANGED <<lo, found, pc>>
    <3>1. ASSUME NEW x \in Index, x >= Mid PROVE key < base[x].key
      <4>1. x = Mid \/ base[Mid].key <= base[x].key
        BY <1>0, <1>2, <1>3, <3>1
      <4>. QED BY <1>0, <1>2, <2>2, <4>1
    <3>. QED BY <1>1, <1>4, <2>2, <3>1 DEF SearchInv, Index
  <2>3. CASE key > base[Mid].key /\ lo' = Mid + 1 /\ UNCHANGED <<hi, found, pc>>
    <3>1. ASSUME NEW x \in Index, x < Mid + 1 PROVE base[x].key < key
      <4>1. x = Mid \/ base[x].key <= base[Mid].key
        BY <1>0, <1>2, <1>3, <3>1
      <4>. QED BY <1>0, <1>2, <2>3, <4>1
    <3>. QED BY <1>1, <1>4, <2>3, <3>1 DEF SearchInv, Index
  <2>. QED BY <2>1, <2>2, <2>3 DEF Probe
<1>. QED BY <1>6, <1>7, <1>8, <1>9 DEF IInv

LEMMA NotFoundKeeps == ASSUME IInv, NotFound PROVE IInv'
<1>1. /\ UNCHANGED <<count, base, given, lo, hi, i, j, store, stack, key>>
      /\ pc = "search" /\ lo >= hi /\ found' = -1 /\ pc' = "done"
  BY DEF NotFound
<1>2. TypeOK' /\ SameElements' /\ InsertInv' /\ PartitionInv'
  BY <1>1 DEF IInv, TypeOK, SameElements, InsertInv, PartitionInv, Index
<1>3. IntervalsApart'
  BY <1>1, Ordered DEF IInv, IntervalsApart, Sorting
<1>4. Settled'
  BY <1>1, Ordered DEF Settled, Index
<1>5. SearchInv'
  <2>1. \A x \in Index : (x < lo => base[x].key < key) /\ (x >= hi => key < base[x].key)
    BY <1>1 DEF IInv, SearchInv
  <2>2. \A x \in Index : base[x].key # key
    BY <1>1, <2>1, Numbers DEF IInv
  <2>. QED BY <1>1, <2>2 DEF SearchInv, SearchFinds, Index
<1>. QED BY <1>2, <1>3, <1>4, <1>5 DEF IInv

(* ---- the theorems ---- *)

LEMMA InitIInv == Init => IInv
<1>. SUFFICES ASSUME Init PROVE IInv
  OBVIOUS
<1>1. count \in Nat /\ count \in 0..Count
  BY SortAssumption DEF Init
<1>2. PICK k \in [Index -> Keys] : base = [x \in Index |-> [key |-> k[x], at |-> x]]
  BY DEF Init
<1>3. base \in [Index -> Elem]
  BY <1>1, <1>2 DEF Elem, Index
<1>4. TypeOK
  BY <1>1, <1>3 DEF Init, TypeOK
<1>5. IntervalsApart
  BY DEF Init, IntervalsApart, Sorting
<1>. QED BY <1>4, <1>5 DEF Init, IInv, SameElements, Settled, InsertInv, PartitionInv, SearchInv

LEMMA NextIInv == IInv /\ [Next]_vars => IInv'
<1>. SUFFICES ASSUME IInv, [Next]_vars PROVE IInv'
  OBVIOUS
<1>1. CASE UNCHANGED vars
  BY <1>1 DEF vars, IInv, TypeOK, IntervalsApart, SameElements, Settled, InsertInv, PartitionInv, SearchInv,
              SearchFinds, InOneInterval, Sorting, Index, Last
<1>2. CASE Next
  BY <1>2, QsortKeeps, ShortKeeps, InsertionKeeps, SiftKeeps, InsertedKeeps, InsertionEndsKeeps, MedianKeeps,
     BelowKeeps, NotBelowKeeps, SplitKeeps, BsearchKeeps, ProbeKeeps, NotFoundKeeps DEF Next
<1>. QED BY <1>1, <1>2

LEMMA IInvAlways == Spec => []IInv
  BY InitIInv, NextIInv, PTL DEF Spec

(* What qsort returns is in order and has the elements it was passed, for every
   array, cut-off and comparison by key. *)
THEOREM QsortSorts == Spec => []SortsWhatItWasGiven
<1>1. IInv => SortsWhatItWasGiven
  BY Ordered DEF IInv, SameElements, SortsWhatItWasGiven
<1>. QED BY <1>1, IInvAlways, PTL

(* While it sorts, what is out of order lies within one interval still to do. *)
THEOREM IntervalsSettled == Spec => []Settled
<1>1. IInv => Settled
  BY DEF IInv
<1>. QED BY <1>1, IInvAlways, PTL

(* bsearch on that array finds the key exactly when it is there. *)
THEOREM BsearchFinds == Spec => []SearchFinds
<1>1. IInv => SearchFinds
  BY DEF IInv, SearchInv, SearchFinds
<1>. QED BY <1>1, IInvAlways, PTL

(* ---- the stack ---- *)

\* Powers of two, counted as the subsets of a set with one more element.
LEMMA Doubles ==
  ASSUME NEW n \in Nat
  PROVE  2 ^ n \in Nat /\ 2 ^ (n + 1) = 2 ^ n + 2 ^ n
<1>. DEFINE S == 1 .. n
            T == 1 .. n + 1
            A == SUBSET S
            B == {s \cup {n + 1} : s \in A}
            f == [s \in A |-> s \cup {n + 1}]
<1>1. IsFiniteSet(S) /\ Cardinality(S) = n
  <2>1. Cardinality(S) = IF 1 <= n THEN n - 1 + 1 ELSE 0
    BY FS_Interval
  <2>2. IsFiniteSet(S)
    BY FS_Interval
  <2>. HIDE DEF S
  <2>. QED BY <2>1, <2>2
<1>2. IsFiniteSet(T) /\ Cardinality(T) = n + 1
  <2>1. Cardinality(T) = IF 1 <= n + 1 THEN n + 1 - 1 + 1 ELSE 0
    BY FS_Interval
  <2>2. IsFiniteSet(T)
    BY FS_Interval
  <2>. HIDE DEF T
  <2>. QED BY <2>1, <2>2
<1>3. IsFiniteSet(A) /\ Cardinality(A) = 2 ^ n
  BY <1>1, FS_SUBSET
<1>4. Cardinality(SUBSET T) = 2 ^ (n + 1)
  BY <1>2, FS_SUBSET
<1>5. SUBSET T = A \cup B
  <2>1. T = S \cup {n + 1} /\ ~(n + 1 \in S)
    OBVIOUS
  <2>. HIDE DEF T, S
  <2>2. ASSUME NEW t \in SUBSET T PROVE t \in A \cup B
    <3>1. CASE n + 1 \in t
      <4>1. t \ {n + 1} \in A /\ t = (t \ {n + 1}) \cup {n + 1}
        BY <2>1, <3>1
      <4>. QED BY <4>1
    <3>2. CASE n + 1 \notin t
      BY <2>1, <3>2
    <3>. QED BY <3>1, <3>2
  <2>3. ASSUME NEW t \in A \cup B PROVE t \in SUBSET T
    BY <2>1
  <2>. QED BY <2>2, <2>3
<1>6. A \cap B = {}
  <2>1. ~(n + 1 \in S)
    OBVIOUS
  <2>. HIDE DEF S
  <2>. QED BY <2>1
<1>7. f \in Bijection(A, B)
  <2>1. ~(n + 1 \in S)
    OBVIOUS
  <2>. HIDE DEF S
  <2>2. \A s, t \in A : s \cup {n + 1} = t \cup {n + 1} => s = t
    BY <2>1
  <2>. HIDE DEF A
  <2>3. f \in [A -> B] /\ DOMAIN f = A /\ \A s \in A : f[s] = s \cup {n + 1}
    OBVIOUS
  <2>4. \A t \in B : \E s \in A : f[s] = t
    OBVIOUS
  <2>. HIDE DEF B, f
  <2>5. IsInjective(f)
    BY <2>2, <2>3 DEF IsInjective
  <2>. QED BY <2>3, <2>4, <2>5 DEF Bijection, Injection, Surjection
<1>8. IsFiniteSet(B) /\ Cardinality(B) = Cardinality(A)
  <2>1. ExistsBijection(A, B)
    BY <1>7 DEF ExistsBijection
  <2>. QED BY <1>3, <2>1, FS_Bijection
<1>. HIDE DEF S, T, A, B, f
<1>9. Cardinality(A \cup B) = Cardinality(A) + Cardinality(B) - Cardinality(A \cap B)
  BY <1>3, <1>8, FS_Union
<1>10. Cardinality(A) \in Nat /\ Cardinality({}) = 0
  BY <1>3, FS_CardinalityType, FS_EmptySet
<1>11. Cardinality(SUBSET T) = Cardinality(A) + Cardinality(A)
  <2>1. Cardinality(SUBSET T) = Cardinality(A) + Cardinality(A) - Cardinality({})
    BY ONLY <1>5, <1>6, <1>8, <1>9
  <2>. QED BY ONLY <1>10, <2>1
<1>. QED BY <1>3, <1>4, <1>10, <1>11

LEMMA PowZero == 2 ^ 0 = 1
<1>1. IsFiniteSet({}) /\ Cardinality({}) = 0
  BY FS_EmptySet
<1>2. Cardinality(SUBSET {}) = 2 ^ 0
  <2>1. Cardinality(SUBSET {}) = 2 ^ Cardinality({})
    BY <1>1, FS_SUBSET
  <2>. QED BY ONLY <1>1, <2>1
<1>3. Cardinality(SUBSET {}) = 1
  <2>1. SUBSET {} = {{}}
    OBVIOUS
  <2>. QED BY <2>1, FS_Singleton
<1>. QED BY <1>2, <1>3

\* An interval of that size, so deep, is within what was halved so often.
Room(size, depth) == size * 2 ^ depth <= count

LEMMA RoomIs ==
  ASSUME count \in Nat
  PROVE  /\ \A s \in Nat : s <= count => Room(s, 0)
         /\ \A n \in Nat, a, s \in Nat : 2 * a <= s /\ Room(s, n) => Room(a, n + 1)
         /\ \A n \in Nat, a, s \in Nat : a <= s /\ Room(s, n) => Room(a, n)
         /\ \A n \in Nat, s \in Nat : 2 <= s /\ Room(s, n) => 2 ^ (n + 1) <= count
         /\ \A n \in Nat : 2 ^ (n + 1) <= count => 2 ^ n <= count
<1>1. \A s \in Nat : s <= count => Room(s, 0)
  BY PowZero DEF Room
<1>2. ASSUME NEW n \in Nat, NEW s \in Nat
      PROVE  /\ \A a \in Nat : 2 * a <= s /\ Room(s, n) => Room(a, n + 1)
             /\ \A a \in Nat : a <= s /\ Room(s, n) => Room(a, n)
             /\ 2 <= s /\ Room(s, n) => 2 ^ (n + 1) <= count
             /\ 2 ^ (n + 1) <= count => 2 ^ n <= count
  <2>. DEFINE q == 2 ^ n
              r == 2 ^ (n + 1)
  <2>1. q \in Nat /\ r = q + q
    BY Doubles
  <2>2. /\ Room(s, n) <=> s * q <= count
        /\ \A a \in Nat : /\ Room(a, n + 1) <=> a * r <= count
                          /\ Room(a, n) <=> a * q <= count
    BY DEF Room
  <2>. HIDE DEF q, r
  <2>3. \A a \in Nat : a <= s => a * q <= s * q
    BY <2>1
  <2>4. \A a \in Nat : a * r = (2 * a) * q
    BY <2>1
  <2>5. \A a \in Nat : a * q \in Nat /\ 2 * a \in Nat
    BY <2>1
  <2>6. 2 * q = r /\ q <= r
    BY <2>1
  <2>7. \A a \in Nat : 2 * a <= s /\ Room(s, n) => Room(a, n + 1)
    BY <2>2, <2>3, <2>4, <2>5
  <2>8. \A a \in Nat : a <= s /\ Room(s, n) => Room(a, n)
    BY <2>2, <2>3, <2>5
  <2>9. 2 <= s /\ Room(s, n) => r <= count
    BY <2>2, <2>3, <2>5, <2>6
  <2>10. r <= count => q <= count
    BY <2>1, <2>6
  <2>. QED BY <2>7, <2>8, <2>9, <2>10 DEF q, r
<1>. QED BY <1>1, <1>2

\* Where a call works at depth d its interval was halved d times, and so was
\* the interval of which a waiting call holds the larger side.
LogInv ==
  /\ Sorting => Room(hi - lo, Len(stack))
  /\ \A k \in 1..Len(stack) : Room(stack[k].hi - stack[k].lo, k - 1)
  /\ StackIsLogarithmic

LEMMA SizesAre ==
  ASSUME IInv
  PROVE  /\ count \in Nat /\ hi - lo \in Nat /\ hi - lo <= count /\ Len(stack) \in Nat
         /\ \A k \in 1..Len(stack) : stack[k].hi - stack[k].lo \in Nat
<1>1. count \in Nat /\ lo \in 0..count /\ hi \in 0..count /\ lo <= hi
  BY Numbers DEF IInv, IntervalsApart
<1>2. Len(stack) \in Nat
  BY DEF IInv, TypeOK
<1>3. ASSUME NEW k \in 1..Len(stack) PROVE stack[k].hi - stack[k].lo \in Nat
  <2>1. stack[k].lo \in 0..count /\ stack[k].hi \in 0..count /\ stack[k].lo <= stack[k].hi
    BY Frames DEF IInv, IntervalsApart
  <2>. QED BY <1>1, <2>1
<1>. QED BY <1>1, <1>2, <1>3

LEMMA ReturnIsLogarithmic ==
  ASSUME IInv, LogInv, Sorting, Return
  PROVE  LogInv'
<1>. DEFINE n == Len(stack)
<1>1. CASE stack = << >>
  <2>1. stack' = << >> /\ pc' = "sorted"
    BY <1>1 DEF Return
  <2>. QED BY <2>1 DEF LogInv, Sorting, StackIsLogarithmic
<1>2. CASE stack # << >>
  <2>1. /\ lo' = stack[n].lo /\ hi' = stack[n].hi /\ stack' = SubSeq(stack, 1, n - 1) /\ count' = count
    BY <1>2 DEF Return
  <2>2. /\ n \in Nat \ {0} /\ stack' \in Seq([lo : 0..count, hi : 0..count]) /\ Len(stack') = n - 1
        /\ \A k \in 1..(n - 1) : stack'[k] = stack[k]
    BY <1>2, <2>1, Popped DEF IInv, TypeOK
  <2>3. \A k \in 1..n : Room(stack[k].hi - stack[k].lo, k - 1)
    BY DEF LogInv
  <2>4. 2 ^ n <= count
    BY <1>2 DEF LogInv, StackIsLogarithmic
  <2>. HIDE DEF n
  <2>5. Room(hi' - lo', n - 1)
    BY <2>1, <2>2, <2>3
  <2>6. ASSUME NEW k \in 1..(n - 1) PROVE Room(stack'[k].hi - stack'[k].lo, k - 1)
    <3>1. k \in 1..n /\ stack'[k] = stack[k]
      BY <2>2
    <3>. QED BY <2>3, <3>1
  <2>7. 2 ^ (n - 1) <= count
    <3>1. n - 1 \in Nat /\ (n - 1) + 1 = n
      BY <2>2
    <3>2. count \in Nat
      BY SizesAre
    <3>. QED BY <2>4, <3>1, <3>2, RoomIs
  <2>. QED BY <2>1, <2>2, <2>5, <2>6, <2>7 DEF LogInv, Room, StackIsLogarithmic
<1>. QED BY <1>1, <1>2

LEMMA SplitIsLogarithmic ==
  ASSUME IInv, LogInv, Split
  PROVE  LogInv'
<1>. DEFINE n == Len(stack)
            s == hi - lo
            a == hi' - lo'
            b == stack'[n + 1].hi - stack'[n + 1].lo
<1>1. /\ pc = "partition" /\ count' = count
      /\ lo \in Int /\ hi \in Int /\ store \in Int /\ lo <= store /\ store < hi /\ lo + 1 < hi
  BY PartitionNumbers DEF Split
<1>2. /\ count \in Nat /\ s \in Nat /\ n \in Nat
  BY SizesAre
<1>3. /\ Len(stack') = n + 1 /\ \A k \in 1..n : stack'[k] = stack[k]
  BY Sides
<1>4. a \in Nat /\ b \in Nat /\ 2 * a <= s /\ b <= s /\ 2 <= s
  <2>. DEFINE e == stack'[n + 1]
  <2>1. CASE store - lo < hi - (store + 1)
    <3>1. lo' = lo /\ hi' = store /\ e = Frame(store + 1, hi)
      BY <1>1, <2>1, Sides DEF Split
    <3>2. e.lo = store + 1 /\ e.hi = hi
      BY <3>1 DEF Frame
    <3>. QED BY <1>1, <2>1, <3>1, <3>2
  <2>2. CASE ~(store - lo < hi - (store + 1))
    <3>1. lo' = store + 1 /\ hi' = hi /\ e = Frame(lo, store)
      BY <1>1, <2>2, Sides DEF Split
    <3>2. e.lo = lo /\ e.hi = store
      BY <3>1 DEF Frame
    <3>. QED BY <1>1, <2>2, <3>1, <3>2
  <2>. QED BY <2>1, <2>2
<1>5. Room(s, n) /\ \A k \in 1..n : Room(stack[k].hi - stack[k].lo, k - 1)
  BY <1>1 DEF LogInv, Sorting
<1>. HIDE DEF n, s, a, b
<1>6. Room(a, n + 1) /\ Room(b, n) /\ 2 ^ (n + 1) <= count
  BY <1>2, <1>4, <1>5, RoomIs
<1>7. ASSUME NEW k \in 1..(n + 1) PROVE Room(stack'[k].hi - stack'[k].lo, k - 1)
  <2>1. CASE k = n + 1
    <3>1. k - 1 = n
      BY <1>2, <2>1
    <3>. QED BY <1>6, <2>1, <3>1 DEF b
  <2>2. CASE k # n + 1
    <3>1. k \in 1..n
      BY <1>2, <2>2
    <3>. QED BY <1>3, <1>5, <3>1
  <2>. QED BY <2>1, <2>2
<1>. QED BY <1>1, <1>3, <1>6, <1>7 DEF LogInv, Room, StackIsLogarithmic, a

\* The steps that leave the intervals alone.
LEMMA Undisturbed ==
  ASSUME LogInv, UNCHANGED <<count, lo, hi, stack>>, Sorting' => Sorting
  PROVE  LogInv'
BY DEF LogInv, Room, StackIsLogarithmic

LEMMA NextLogInv == IInv /\ LogInv /\ [Next]_vars => LogInv'
<1>. SUFFICES ASSUME IInv, LogInv, [Next]_vars PROVE LogInv'
  OBVIOUS
<1>1. CASE Qsort
  <2>1. stack = << >> /\ stack' = << >> /\ count' = count /\ (Sorting' => lo' = 0 /\ hi' = count)
    BY <1>1 DEF Qsort, IInv, IntervalsApart, Sorting
  <2>2. Sorting' => Room(hi' - lo', 0)
    <3>1. count \in Nat /\ count - 0 = count
      BY SizesAre
    <3>. QED BY <2>1, <3>1, RoomIs
  <2>. QED BY <2>1, <2>2 DEF LogInv, Room, StackIsLogarithmic
<1>2. CASE Short \/ InsertionEnds
  BY <1>2, ReturnIsLogarithmic DEF Short, InsertionEnds, Sorting
<1>3. CASE Split
  BY <1>3, SplitIsLogarithmic
<1>4. CASE Insertion \/ Sift \/ Inserted \/ Median \/ Below \/ NotBelow
  <2>1. UNCHANGED <<count, lo, hi, stack>> /\ Sorting
    BY <1>4 DEF Insertion, Sift, Inserted, Median, Below, NotBelow, Sorting
  <2>. QED BY <2>1, Undisturbed
<1>5. CASE Bsearch \/ Probe \/ NotFound
  <2>1. stack = << >> /\ stack' = << >> /\ ~Sorting'
    BY <1>5 DEF Bsearch, Probe, NotFound, IInv, IntervalsApart, Sorting
  <2>. QED BY <2>1 DEF LogInv, StackIsLogarithmic
<1>6. CASE UNCHANGED vars
  <2>1. UNCHANGED <<count, lo, hi, stack>> /\ (Sorting' => Sorting)
    BY <1>6 DEF vars, Sorting
  <2>. QED BY <2>1, Undisturbed
<1>. QED BY <1>1, <1>2, <1>3, <1>4, <1>5, <1>6 DEF Next

(* The calls of qsort never wait deeper than the logarithm of the number of
   elements, whatever the array and the pivots, since each leaves the larger
   side waiting and goes on with the smaller. *)
THEOREM StackStaysShort == Spec => []StackIsLogarithmic
<1>1. Init => LogInv
  BY DEF Init, LogInv, Sorting, StackIsLogarithmic
<1>2. LogInv => StackIsLogarithmic
  BY DEF LogInv
<1>. QED BY <1>1, <1>2, NextLogInv, IInvAlways, PTL DEF Spec
=============================================================================
