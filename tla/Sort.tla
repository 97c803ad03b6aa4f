-------------------------------- MODULE Sort --------------------------------
(***************************************************************************)
(* rt/rt_stdlib.c: qsort and bsearch.  The array is sorted in place by a   *)
(* quicksort that recurses into the smaller side and loops on the larger,  *)
(* and by insertion below Small elements; the calls of rt_qsort that wait  *)
(* are a stack of intervals.  An element has a key, which is all the       *)
(* caller's comparison looks at, and the place it was passed in, which     *)
(* tells equal ones apart.  Indices are the code's, from 0, and hi is one  *)
(* past the end.                                                           *)
(***************************************************************************)
EXTENDS Integers, Sequences

CONSTANTS Count,    \* bound: the elements of an array
          Keys,     \* the keys, integers
          Small     \* below so many elements, insertion (8)

ASSUME SortAssumption ==
  /\ Count \in Nat /\ Keys \subseteq Int /\ Small \in Nat /\ Small >= 2

VARIABLES count,    \* the array's length
          base,     \* the array
          given,    \* the array as it was passed
          lo, hi,   \* the interval rt_qsort works on; or bsearch
          i, j,     \* its indices
          store,    \* where the next element below the pivot goes
          stack,    \* the intervals of the callers of this rt_qsort
          key,      \* what bsearch looks for
          found,    \* what bsearch returned: an index, or -1
          pc

vars == <<count, base, given, lo, hi, i, j, store, stack, key, found, pc>>

Elem  == [key : Keys, at : Nat]
Index == 0..(count - 1)

Swap(a, x, y) == [a EXCEPT ![x] = a[y], ![y] = a[x]]
Less(a, x, y) == a[x].key < a[y].key
SwapIf(a, x, y) == IF Less(a, x, y) THEN Swap(a, x, y) ELSE a
Mid  == lo + (hi - lo) \div 2
Last == hi - 1

Init ==
  /\ count \in 0..Count
  /\ \E k \in [Index -> Keys] : base = [x \in Index |-> [key |-> k[x], at |-> x]]
  /\ given = base
  /\ lo = 0 /\ hi = 0 /\ i = 0 /\ j = 0 /\ store = 0 /\ stack = << >>
  /\ key \in Keys /\ found = -1 /\ pc = "call"

Qsort ==
  /\ pc = "call"
  /\ IF count > 1 THEN lo' = 0 /\ hi' = count /\ pc' = "loop"
                  ELSE pc' = "sorted" /\ UNCHANGED <<lo, hi>>
  /\ UNCHANGED <<count, base, given, i, j, store, stack, key, found>>

\* The end of a call of rt_qsort: its caller goes on with the larger side.
Return ==
  /\ IF stack = << >>
     THEN pc' = "sorted" /\ UNCHANGED <<lo, hi, stack>>
     ELSE /\ lo' = stack[Len(stack)].lo /\ hi' = stack[Len(stack)].hi
          /\ stack' = SubSeq(stack, 1, Len(stack) - 1)
          /\ pc' = "loop"
  /\ UNCHANGED <<count, base, given, i, j, store, key, found>>

Short == pc = "loop" /\ lo + 1 >= hi /\ Return

(* ---- insertion ---- *)

Insertion_third ==
  /\ pc = "loop" /\ lo + 1 < hi /\ hi - lo < Small
  /\ i' = lo + 2 /\ j' = lo + 2 /\ pc' = "insert"
  /\ UNCHANGED <<count, base, given, lo, hi, store, stack, key, found>>
Insertion ==
  /\ pc = "loop" /\ lo + 1 < hi /\ hi - lo < Small
  /\ i' = lo + 1 /\ j' = lo + 1 /\ pc' = "insert"
  /\ UNCHANGED <<count, base, given, lo, hi, store, stack, key, found>>

Sift ==
  /\ pc = "insert" /\ i < hi
  /\ j > lo /\ Less(base, j, j - 1)
  /\ base' = Swap(base, j, j - 1) /\ j' = j - 1
  /\ UNCHANGED <<count, given, lo, hi, i, store, stack, key, found, pc>>

Inserted ==
  /\ pc = "insert" /\ i < hi
  /\ ~(j > lo /\ Less(base, j, j - 1))
  /\ i' = i + 1 /\ j' = i + 1
  /\ UNCHANGED <<count, base, given, lo, hi, store, stack, key, found, pc>>

InsertionEnds == pc = "insert" /\ i >= hi /\ Return

(* ---- partition ---- *)

\* The median of the first, the middle and the last becomes the last.
Median ==
  /\ pc = "loop" /\ lo + 1 < hi /\ hi - lo >= Small
  /\ base' = SwapIf(SwapIf(SwapIf(base, Mid, lo), Last, lo), Mid, Last)
  /\ i' = lo /\ store' = lo /\ pc' = "partition"
  /\ UNCHANGED <<count, given, lo, hi, j, stack, key, found>>

Below ==
  /\ pc = "partition" /\ i < Last /\ Less(base, i, Last)
  /\ base' = Swap(base, i, store) /\ store' = store + 1 /\ i' = i + 1
  /\ UNCHANGED <<count, given, lo, hi, j, stack, key, found, pc>>

NotBelow ==
  /\ pc = "partition" /\ i < Last /\ ~Less(base, i, Last)
  /\ i' = i + 1
  /\ UNCHANGED <<count, base, given, lo, hi, j, store, stack, key, found, pc>>

Frame(l, h) == [lo |-> l, hi |-> h]

Split_larger ==
  /\ pc = "partition" /\ i >= Last
  /\ base' = Swap(base, store, Last)
  /\ IF store - lo < hi - (store + 1)
     THEN stack' = Append(stack, Frame(lo, store)) /\ lo' = store + 1 /\ hi' = hi
     ELSE stack' = Append(stack, Frame(store + 1, hi)) /\ lo' = lo /\ hi' = store
  /\ pc' = "loop"
  /\ UNCHANGED <<count, given, i, j, store, key, found>>
Split ==
  /\ pc = "partition" /\ i >= Last
  /\ base' = Swap(base, store, Last)
  /\ IF store - lo < hi - (store + 1)
     THEN stack' = Append(stack, Frame(store + 1, hi)) /\ lo' = lo /\ hi' = store
     ELSE stack' = Append(stack, Frame(lo, store)) /\ lo' = store + 1 /\ hi' = hi
  /\ pc' = "loop"
  /\ UNCHANGED <<count, given, i, j, store, key, found>>

(* ---- bsearch, over what qsort left ---- *)

Bsearch_last ==
  /\ pc = "sorted"
  /\ lo' = 0 /\ hi' = (IF count = 0 THEN 0 ELSE count - 1) /\ pc' = "search"
  /\ UNCHANGED <<count, base, given, i, j, store, stack, key, found>>
Bsearch ==
  /\ pc = "sorted"
  /\ lo' = 0 /\ hi' = count /\ pc' = "search"
  /\ UNCHANGED <<count, base, given, i, j, store, stack, key, found>>

Probe_stays ==
  /\ pc = "search" /\ lo < hi
  /\ \/ key = base[Mid].key /\ found' = Mid /\ pc' = "done" /\ UNCHANGED <<lo, hi>>
     \/ key < base[Mid].key /\ hi' = Mid /\ UNCHANGED <<lo, found, pc>>
     \/ key > base[Mid].key /\ lo' = Mid /\ UNCHANGED <<hi, found, pc>>
  /\ UNCHANGED <<count, base, given, i, j, store, stack, key>>
Probe ==
  /\ pc = "search" /\ lo < hi
  /\ \/ key = base[Mid].key /\ found' = Mid /\ pc' = "done" /\ UNCHANGED <<lo, hi>>
     \/ key < base[Mid].key /\ hi' = Mid /\ UNCHANGED <<lo, found, pc>>
     \/ key > base[Mid].key /\ lo' = Mid + 1 /\ UNCHANGED <<hi, found, pc>>
  /\ UNCHANGED <<count, base, given, i, j, store, stack, key>>

NotFound ==
  /\ pc = "search" /\ lo >= hi
  /\ found' = -1 /\ pc' = "done"
  /\ UNCHANGED <<count, base, given, lo, hi, i, j, store, stack, key>>

Next ==
  \/ Qsort \/ Short \/ Insertion \/ Sift \/ Inserted \/ InsertionEnds
  \/ Median \/ Below \/ NotBelow \/ Split
  \/ Bsearch \/ Probe \/ NotFound

Spec == Init /\ [][Next]_vars /\ WF_vars(Next)

TypeOK ==
  /\ count \in 0..Count /\ base \in [Index -> Elem] /\ given \in [Index -> Elem]
  /\ lo \in 0..count /\ hi \in 0..count
  /\ i \in 0..count /\ j \in 0..count /\ store \in 0..count
  /\ stack \in Seq([lo : 0..count, hi : 0..count])
  /\ key \in Keys /\ found \in {-1} \cup Index
  /\ pc \in {"call", "loop", "insert", "partition", "sorted", "search", "done"}

Sorting == pc \in {"loop", "insert", "partition"}

(* When qsort returns the array is in order and holds the elements it held,
   each once: an element swapped with one of another interval, or a pivot left
   on the wrong side, would show, for any keys, equal ones included. *)
SortsWhatItWasGiven ==
  pc \in {"sorted", "search", "done"} =>
    /\ \A x, y \in Index : x < y => base[x].key <= base[y].key
    /\ {base[x] : x \in Index} = {given[x] : x \in Index}

\* x and y lie in one interval some call of rt_qsort still has to sort.
InOneInterval(x, y) ==
  \/ Sorting /\ lo <= x /\ y < hi
  \/ \E k \in 1..Len(stack) : stack[k].lo <= x /\ y < stack[k].hi

(* At every moment two elements out of order lie in one interval still to do:
   what one call of rt_qsort leaves no other call disturbs. *)
Settled ==
  pc # "call" => \A x, y \in Index : x < y => InOneInterval(x, y) \/ base[x].key <= base[y].key

(* Recursing into the smaller side keeps the calls within the logarithm of the
   array's length, whatever the pivots. *)
StackIsLogarithmic == stack # << >> => 2 ^ Len(stack) <= count

(* bsearch finds a key if and only if the sorted array holds it. *)
SearchFinds ==
  pc = "done" =>
    IF found = -1 THEN \A x \in Index : base[x].key # key ELSE base[found].key = key

(* Both return, whatever the array. *)
SortEnds == <>(pc = "done")
=============================================================================
