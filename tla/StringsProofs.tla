---------------------------- MODULE StringsProofs ----------------------------
(***************************************************************************)
(* For every memory, every length and every size of a word: the memory and *)
(* string functions do what C99 says of them.                              *)
(***************************************************************************)
EXTENDS Strings, SequenceTheorems, FiniteSetTheorems, WellFoundedInduction, TLAPS

(* ---- least and greatest ---- *)

LEMMA LeastExists ==
  ASSUME NEW I, I \subseteq Nat, I # {}
  PROVE  Min(I) \in I /\ Min(I) \in Nat /\ \A k \in I : Min(I) <= k
<1>. DEFINE R == {ss \in Nat \X Nat : ss[1] < ss[2]}
<1>1. IsWellFoundedOn(R, Nat)
  BY NatLessThanWellFounded DEF OpToRel
<1>2. PICK x \in I : \A y \in I : ~(<<y, x>> \in R)
  <2>. HIDE DEF R
  <2>. QED BY <1>1, WFMin
<1>3. ASSUME NEW y \in I PROVE x <= y
  <2>1. x \in Nat /\ y \in Nat /\ <<y, x>> \in Nat \X Nat /\ <<y, x>>[1] = y /\ <<y, x>>[2] = x
    OBVIOUS
  <2>2. ~(y < x)
    BY <1>2, <2>1
  <2>. QED BY <2>1, <2>2
<1>. QED BY <1>3 DEF Min

LEMMA LeastIs ==
  ASSUME NEW S, \A x \in S : x \in Int, NEW e \in S, \A x \in S : e <= x
  PROVE  Min(S) = e
<1>1. \E x \in S : \A y \in S : x <= y
  OBVIOUS
<1>2. Min(S) \in S /\ \A y \in S : Min(S) <= y
  BY <1>1 DEF Min
<1>3. Min(S) <= e /\ e <= Min(S) /\ Min(S) \in Int /\ e \in Int
  BY <1>2
<1>. QED BY <1>3

LEMMA LesserIs ==
  ASSUME NEW x \in Int, NEW y \in Int
  PROVE  (x <= y => Min({x, y}) = x) /\ (y <= x => Min({x, y}) = y)
<1>. DEFINE S == {x, y}
<1>1. x \in S /\ y \in S /\ \A z \in S : z \in Int
  OBVIOUS
<1>2. x <= y => \A z \in S : x <= z
  OBVIOUS
<1>3. y <= x => \A z \in S : y <= z
  OBVIOUS
<1>. HIDE DEF S
<1>4. (x <= y => Min(S) = x) /\ (y <= x => Min(S) = y)
  BY ONLY <1>1, <1>2, <1>3, LeastIs
<1>. QED BY <1>4 DEF S

LEMMA GreatestIs ==
  ASSUME NEW S, \A x \in S : x \in Int, NEW e \in S, \A x \in S : x <= e
  PROVE  Max(S) = e
<1>1. \E x \in S : \A y \in S : x >= y
  OBVIOUS
<1>2. Max(S) \in S /\ \A y \in S : Max(S) >= y
  BY <1>1 DEF Max
<1>3. Max(S) >= e /\ e >= Max(S) /\ Max(S) \in Int /\ e \in Int
  BY <1>2
<1>. QED BY <1>3

(* ---- what the walks over the chunks leave ---- *)

\* A list g of memories, each of them the one before with a chunk more of the n of w.
Copying(g, n, m, d, s, w) ==
  /\ n \in Nat /\ Len(w) = n /\ g = [k \in 0..n |-> g[k]] /\ g[0] = m
  /\ \A k \in 1..n : g[k] = Moved(g[k - 1], d + w[k].at, s + w[k].at, w[k].size)
Painting(g, n, m, d, c, w) ==
  /\ n \in Nat /\ Len(w) = n /\ g = [k \in 0..n |-> g[k]] /\ g[0] = m
  /\ \A k \in 1..n : g[k] = Filled(g[k - 1], d + w[k].at, c, w[k].size)

\* A walk leaves what such a list ends with.
LEMMA CopiedIs ==
  ASSUME NEW m, NEW d, NEW s, NEW w, NEW n, NEW g, Copying(g, n, m, d, s, w)
  PROVE  Copied(m, d, s, w) = g[n]
<1>. n \in Nat /\ Len(w) = n /\ g = [k \in 0..n |-> g[k]] /\ g[0] = m
     /\ \A k \in 1..n : g[k] = Moved(g[k - 1], d + w[k].at, s + w[k].at, w[k].size)
  BY DEF Copying
<1>. DEFINE step(x, k) == Moved(x, d + w[k].at, s + w[k].at, w[k].size)
            P(a) == a = [k \in 0..n |-> IF k = 0 THEN m ELSE step(a[k - 1], k)]
            a == CHOOSE a : P(a)
<1>1. P(g)
  <2>1. \A k \in 0..n : g[k] = IF k = 0 THEN m ELSE step(g[k - 1], k)
    <3>1. \A k \in 0..n : k = 0 \/ k \in 1..n
      OBVIOUS
    <3>. QED BY <3>1
  <2>. HIDE DEF step
  <2>. QED BY <2>1
<1>2. P(a)
  BY <1>1
<1>3. Copied(m, d, s, w) = a[n]
  BY DEF Copied
<1>. HIDE DEF a, step
<1>4. a[0] = m /\ \A k \in 1..n : a[k] = step(a[k - 1], k)
  <2>1. \A k \in 0..n : a[k] = IF k = 0 THEN m ELSE step(a[k - 1], k)
    BY <1>2
  <2>2. 0 \in 0..n /\ \A k \in 1..n : k \in 0..n /\ k # 0
    OBVIOUS
  <2>. QED BY ONLY <2>1, <2>2
<1>. HIDE DEF P
<1>. DEFINE bad == {k \in 0..n : a[k] # g[k]}
<1>5. bad = {}
  <2>. SUFFICES ASSUME bad # {} PROVE FALSE
    OBVIOUS
  <2>1. Min(bad) \in bad /\ \A k \in bad : Min(bad) <= k
    <3>1. bad \subseteq Nat
      OBVIOUS
    <3>. HIDE DEF bad
    <3>. QED BY <3>1, LeastExists
  <2>2. PICK k \in 0..n : a[k] # g[k] /\ \A j \in bad : k <= j
    BY <2>1
  <2>3. k \in 1..n /\ k - 1 \in 0..n /\ k - 1 \notin bad
    BY <1>4, <2>2
  <2>4. a[k - 1] = g[k - 1]
    BY <2>3
  <2>. QED BY <1>4, <2>2, <2>3, <2>4 DEF step
<1>6. n \in 0..n
  OBVIOUS
<1>. QED BY <1>3, <1>5, <1>6

LEMMA PaintedIs ==
  ASSUME NEW m, NEW d, NEW c, NEW w, NEW n, NEW g, Painting(g, n, m, d, c, w)
  PROVE  Painted(m, d, c, w) = g[n]
<1>. n \in Nat /\ Len(w) = n /\ g = [k \in 0..n |-> g[k]] /\ g[0] = m
     /\ \A k \in 1..n : g[k] = Filled(g[k - 1], d + w[k].at, c, w[k].size)
  BY DEF Painting
<1>. DEFINE step(x, k) == Filled(x, d + w[k].at, c, w[k].size)
            P(a) == a = [k \in 0..n |-> IF k = 0 THEN m ELSE step(a[k - 1], k)]
            a == CHOOSE a : P(a)
<1>1. P(g)
  <2>1. \A k \in 0..n : g[k] = IF k = 0 THEN m ELSE step(g[k - 1], k)
    <3>1. \A k \in 0..n : k = 0 \/ k \in 1..n
      OBVIOUS
    <3>. QED BY <3>1
  <2>. HIDE DEF step
  <2>. QED BY <2>1
<1>2. P(a)
  BY <1>1
<1>3. Painted(m, d, c, w) = a[n]
  BY DEF Painted
<1>. HIDE DEF a, step
<1>4. a[0] = m /\ \A k \in 1..n : a[k] = step(a[k - 1], k)
  <2>1. \A k \in 0..n : a[k] = IF k = 0 THEN m ELSE step(a[k - 1], k)
    BY <1>2
  <2>2. 0 \in 0..n /\ \A k \in 1..n : k \in 0..n /\ k # 0
    OBVIOUS
  <2>. QED BY ONLY <2>1, <2>2
<1>. HIDE DEF P
<1>. DEFINE bad == {k \in 0..n : a[k] # g[k]}
<1>5. bad = {}
  <2>. SUFFICES ASSUME bad # {} PROVE FALSE
    OBVIOUS
  <2>1. Min(bad) \in bad /\ \A k \in bad : Min(bad) <= k
    <3>1. bad \subseteq Nat
      OBVIOUS
    <3>. HIDE DEF bad
    <3>. QED BY <3>1, LeastExists
  <2>2. PICK k \in 0..n : a[k] # g[k] /\ \A j \in bad : k <= j
    BY <2>1
  <2>3. k \in 1..n /\ k - 1 \in 0..n /\ k - 1 \notin bad
    BY <1>4, <2>2
  <2>4. a[k - 1] = g[k - 1]
    BY <2>3
  <2>. QED BY <1>4, <2>2, <2>3, <2>4 DEF step
<1>6. n \in 0..n
  OBVIOUS
<1>. QED BY <1>3, <1>5, <1>6

LEMMA MovedOn ==
  ASSUME NEW C, NEW m \in Seq(C), NEW d \in Nat \ {0}, NEW s \in Nat \ {0}, NEW h \in Nat, NEW z \in Nat,
         s + h + z - 1 <= Len(m), d <= s \/ s + h + z <= d
  PROVE  Moved(Moved(m, d, s, h), d + h, s + h, z) = Moved(m, d, s, h + z)
<1>. DEFINE a == Moved(m, d, s, h)
            b == Moved(a, d + h, s + h, z)
<1>1. DOMAIN m = 1..Len(m) /\ Len(m) \in Nat
  OBVIOUS
<1>2. DOMAIN a = DOMAIN m /\ \A i \in DOMAIN m : a[i] = IF i \in d..(d + h - 1) THEN m[s + i - d] ELSE m[i]
  BY DEF Moved
<1>. HIDE DEF a
<1>3. b = [i \in DOMAIN m |-> IF i \in (d + h)..(d + h + z - 1) THEN a[s + h + i - (d + h)] ELSE a[i]]
  BY <1>2 DEF Moved
<1>. HIDE DEF b
<1>4. ASSUME NEW i \in 1..Len(m)
      PROVE  (IF i \in (d + h)..(d + h + z - 1) THEN a[s + h + i - (d + h)] ELSE a[i])
               = IF i \in d..(d + (h + z) - 1) THEN m[s + i - d] ELSE m[i]
  <2>1. CASE i \in (d + h)..(d + h + z - 1)
    <3>0. PICK j \in Int : j = s + i - d
      OBVIOUS
    <3>1. /\ s + h + i - (d + h) = j /\ j \in 1..Len(m) /\ ~(j \in d..(d + h - 1))
          /\ i \in d..(d + (h + z) - 1)
      BY <2>1, <3>0, <1>1
    <3>2. a[j] = m[j]
      BY <1>1, <1>2, <3>1
    <3>. QED BY <2>1, <3>0, <3>1, <3>2
  <2>2. CASE ~(i \in (d + h)..(d + h + z - 1))
    <3>1. a[i] = IF i \in d..(d + h - 1) THEN m[s + i - d] ELSE m[i]
      BY <1>1, <1>2
    <3>2. i \in d..(d + h - 1) <=> i \in d..(d + (h + z) - 1)
      BY <2>2
    <3>. QED BY <2>2, <3>1, <3>2
  <2>. QED BY <2>1, <2>2
<1>. QED BY <1>1, <1>3, <1>4 DEF Moved, a, b

LEMMA FilledOn ==
  ASSUME NEW C, NEW m \in Seq(C), NEW d \in Nat \ {0}, NEW c, NEW h \in Nat, NEW z \in Nat
  PROVE  Filled(Filled(m, d, c, h), d + h, c, z) = Filled(m, d, c, h + z)
<1>1. \A i \in Int : i \in d..(d + (h + z) - 1) <=> i \in d..(d + h - 1) \/ i \in (d + h)..(d + h + z - 1)
  OBVIOUS
<1>2. DOMAIN m = 1..Len(m) /\ \A i \in DOMAIN m : i \in Int
  OBVIOUS
<1>. QED BY <1>1, <1>2 DEF Filled

\* The chunks w lie end to end: k of them make h[k] cells, and all of them t.
EndToEnd(w, n, h, t) ==
  /\ n \in Nat /\ Len(w) = n /\ t \in Nat /\ h \in [0..n -> 0..t] /\ h[0] = 0 /\ h[n] = t
  /\ \A k \in 1..n : w[k].at = h[k - 1] /\ w[k].size \in Nat /\ h[k] = h[k - 1] + w[k].size

LEMMA CopiedUp ==
  ASSUME NEW C, NEW m \in Seq(C), NEW d \in Nat \ {0}, NEW s \in Nat \ {0}, NEW w, NEW n, NEW h, NEW t,
         EndToEnd(w, n, h, t), s + t - 1 <= Len(m), d <= s \/ s + t <= d
  PROVE  Copied(m, d, s, w) = Moved(m, d, s, t)
<1>1. /\ n \in Nat /\ Len(w) = n /\ t \in Nat /\ h[0] = 0 /\ h[n] = t /\ (\A k \in 0..n : h[k] \in 0..t)
      /\ \A k \in 1..n : w[k].at = h[k - 1] /\ w[k].size \in Nat /\ h[k] = h[k - 1] + w[k].size
  BY DEF EndToEnd
<1>. DEFINE g == [k \in 0..n |-> Moved(m, d, s, h[k])]
<1>2. g = [k \in 0..n |-> g[k]] /\ \A k \in 0..n : g[k] = Moved(m, d, s, h[k])
  OBVIOUS
<1>. HIDE DEF g
<1>3. g[0] = m
  <2>1. \A i \in DOMAIN m : ~(i \in d..(d + 0 - 1))
    OBVIOUS
  <2>2. m = [i \in DOMAIN m |-> m[i]]
    OBVIOUS
  <2>3. Moved(m, d, s, 0) = m
    BY ONLY <2>1, <2>2 DEF Moved
  <2>4. 0 \in 0..n
    BY ONLY <1>1
  <2>. QED BY ONLY <1>1, <1>2, <2>3, <2>4
<1>4. ASSUME NEW k \in 1..n PROVE g[k] = Moved(g[k - 1], d + w[k].at, s + w[k].at, w[k].size)
  <2>1. PICK a \in 0..t, z \in Nat : a = h[k - 1] /\ z = w[k].size
    BY <1>1
  <2>2. k \in 0..n /\ k - 1 \in 0..n /\ w[k].at = a /\ h[k] = a + z /\ a + z <= t /\ a \in Nat
    BY <1>1, <2>1
  <2>3. Moved(Moved(m, d, s, a), d + a, s + a, z) = Moved(m, d, s, a + z)
    <3>1. Len(m) \in Nat
      OBVIOUS
    <3>2. s + a + z - 1 <= Len(m) /\ (d <= s \/ s + a + z <= d)
      BY ONLY s + t - 1 <= Len(m), d <= s \/ s + t <= d, d \in Nat \ {0}, s \in Nat \ {0}, a \in 0..t, z \in Nat,
              <1>1, <2>2, <3>1
    <3>. QED BY ONLY m \in Seq(C), d \in Nat \ {0}, s \in Nat \ {0}, z \in Nat, <2>2, <3>2, MovedOn
  <2>4. g[k] = Moved(m, d, s, a + z) /\ g[k - 1] = Moved(m, d, s, a)
    BY ONLY <1>2, <2>1, <2>2
  <2>. QED BY ONLY <2>1, <2>2, <2>3, <2>4
<1>5. Copied(m, d, s, w) = g[n]
  <2>1. \A k \in 1..n : g[k] = Moved(g[k - 1], d + w[k].at, s + w[k].at, w[k].size)
    BY <1>4
  <2>2. Copying(g, n, m, d, s, w)
    BY ONLY <1>1, <1>2, <1>3, <2>1 DEF Copying
  <2>. QED BY ONLY <2>2, CopiedIs
<1>. QED BY <1>1, <1>2, <1>5

LEMMA PaintedUp ==
  ASSUME NEW C, NEW m \in Seq(C), NEW d \in Nat \ {0}, NEW c, NEW w, NEW n, NEW h, NEW t, EndToEnd(w, n, h, t)
  PROVE  Painted(m, d, c, w) = Filled(m, d, c, t)
<1>1. /\ n \in Nat /\ Len(w) = n /\ t \in Nat /\ h[0] = 0 /\ h[n] = t /\ (\A k \in 0..n : h[k] \in 0..t)
      /\ \A k \in 1..n : w[k].at = h[k - 1] /\ w[k].size \in Nat /\ h[k] = h[k - 1] + w[k].size
  BY DEF EndToEnd
<1>. DEFINE g == [k \in 0..n |-> Filled(m, d, c, h[k])]
<1>2. g = [k \in 0..n |-> g[k]] /\ \A k \in 0..n : g[k] = Filled(m, d, c, h[k])
  OBVIOUS
<1>. HIDE DEF g
<1>3. g[0] = m
  <2>1. \A i \in DOMAIN m : ~(i \in d..(d + 0 - 1))
    OBVIOUS
  <2>2. m = [i \in DOMAIN m |-> m[i]]
    OBVIOUS
  <2>. QED BY <1>1, <1>2, <2>1, <2>2 DEF Filled
<1>4. ASSUME NEW k \in 1..n PROVE g[k] = Filled(g[k - 1], d + w[k].at, c, w[k].size)
  <2>0. k \in 1..n /\ k - 1 \in 0..n
    BY ONLY k \in 1..n, <1>1
  <2>1. PICK a \in 0..t, z \in Nat : a = h[k - 1] /\ z = w[k].size
    BY ONLY <1>1, <2>0
  <2>2. k \in 0..n /\ k - 1 \in 0..n /\ w[k].at = a /\ h[k] = a + z /\ a \in Nat
    BY <1>1, <2>1
  <2>3. Filled(Filled(m, d, c, a), d + a, c, z) = Filled(m, d, c, a + z)
    BY ONLY m \in Seq(C), d \in Nat \ {0}, z \in Nat, <2>2, FilledOn
  <2>4. g[k] = Filled(m, d, c, a + z) /\ g[k - 1] = Filled(m, d, c, a)
    BY ONLY <1>2, <2>1, <2>2
  <2>. QED BY ONLY <2>1, <2>2, <2>3, <2>4
<1>5. Painted(m, d, c, w) = g[n]
  <2>1. \A k \in 1..n : g[k] = Filled(g[k - 1], d + w[k].at, c, w[k].size)
    BY <1>4
  <2>2. Painting(g, n, m, d, c, w)
    BY ONLY <1>1, <1>2, <1>3, <2>1 DEF Painting
  <2>. QED BY ONLY <2>2, PaintedIs
<1>. QED BY <1>1, <1>2, <1>5

LEMMA Multiples ==
  ASSUME NEW q \in Nat, NEW k \in 0..q, NEW W \in Nat
  PROVE  k * W \in Nat /\ q * W \in Nat /\ k * W <= q * W /\ (k > 0 => (k - 1) * W + W = k * W)
<1>1. k * W \in Int /\ q * W \in Int /\ (q - k) * W \in Int /\ q * W = k * W + (q - k) * W
  OBVIOUS
<1>2. \A x, y \in Nat : x * y >= 0
  OBVIOUS
<1>3. (q - k) * W >= 0 /\ k * W >= 0
  <2>1. q - k \in Nat /\ k \in Nat
    OBVIOUS
  <2>. QED BY ONLY W \in Nat, <1>2, <2>1
<1>4. (k - 1) * W + W = k * W
  OBVIOUS
<1>. QED BY ONLY <1>1, <1>3, <1>4

LEMMA ChunksAre ==
  ASSUME NEW n \in Nat
  PROVE  LET q == n \div Word  r == n % Word  w == Chunks(n)
         IN  /\ q \in Nat /\ r \in Nat /\ n = q * Word + r /\ Len(w) = q + r
             /\ \A k \in 1..q : w[k] = [at |-> (k - 1) * Word, size |-> Word]
             /\ \A k \in 1..r : w[q + k] = [at |-> q * Word + k - 1, size |-> 1]
<1>. DEFINE q == n \div Word
            r == n % Word
            T == [at : Int, size : Nat]
            a == [j \in 1..q |-> [at |-> (j - 1) * Word, size |-> Word]]
            b == [j \in 1..r |-> [at |-> q * Word + j - 1, size |-> 1]]
<1>1. Word \in Nat \ {0}
  BY WordAssumption
<1>2. q \in Nat /\ r \in Nat /\ n = q * Word + r
  BY <1>1
<1>3. Chunks(n) = a \o b
  BY DEF Chunks
<1>. HIDE DEF q, r
<1>4. /\ a \in Seq(T) /\ Len(a) = q /\ \A k \in 1..q : a[k] = [at |-> (k - 1) * Word, size |-> Word]
  <2>1. \A j \in 1..q : [at |-> (j - 1) * Word, size |-> Word] \in T
    BY <1>1, <1>2
  <2>. HIDE DEF T
  <2>. QED BY <1>2, <2>1
<1>5. /\ b \in Seq(T) /\ Len(b) = r /\ \A k \in 1..r : b[k] = [at |-> q * Word + k - 1, size |-> 1]
  <2>1. \A j \in 1..r : [at |-> q * Word + j - 1, size |-> 1] \in T
    BY <1>1, <1>2
  <2>. HIDE DEF T
  <2>. QED BY <1>2, <2>1
<1>. HIDE DEF a, b, T
<1>6. /\ Len(a \o b) = q + r /\ (\A k \in 1..q : (a \o b)[k] = a[k]) /\ \A k \in 1..r : (a \o b)[q + k] = b[k]
  <2>1. \A k \in 1..q : k \in 1..(q + r)
    BY ONLY <1>2
  <2>. DEFINE h == a \o b
  <2>3. Len(h) = q + r /\ \A i \in 1..(q + r) : h[i] = IF i <= q THEN a[i] ELSE b[i - q]
    <3>1. /\ Len(a \o b) = Len(a) + Len(b)
          /\ \A i \in 1..(Len(a) + Len(b)) : (a \o b)[i] = IF i <= Len(a) THEN a[i] ELSE b[i - Len(a)]
      BY ONLY <1>4, <1>5, ConcatProperties
    <3>. QED BY ONLY <1>4, <1>5, <3>1
  <2>. HIDE DEF h
  <2>4. \A k \in 1..q : k <= q
    BY ONLY <1>2
  <2>5. \A k \in 1..q : h[k] = a[k]
    BY ONLY <2>1, <2>3, <2>4
  <2>6. ASSUME NEW k \in 1..r PROVE h[q + k] = b[k]
    <3>1. PICK i \in 1..(q + r) : i = q + k /\ ~(i <= q) /\ i - q = k
      <4>1. q \in Nat /\ r \in Nat
        BY ONLY <1>2
      <4>2. q + k \in 1..(q + r) /\ ~(q + k <= q) /\ (q + k) - q = k
        BY ONLY <4>1, k \in 1..r
      <4>. QED BY ONLY <4>2
    <3>2. h[i] = b[i - q]
      BY ONLY <2>3, <3>1, i \in 1..(q + r)
    <3>. QED BY ONLY <3>1, <3>2
  <2>7. Len(h) = q + r /\ (\A k \in 1..q : h[k] = a[k]) /\ \A k \in 1..r : h[q + k] = b[k]
    BY ONLY <2>3, <2>5, <2>6
  <2>. QED BY ONLY <2>7 DEF h
<1>. QED BY <1>2, <1>3, <1>4, <1>5, <1>6 DEF q, r

\* Words and then bytes make up the length.
LEMMA ChunksEnd ==
  ASSUME NEW n \in Nat
  PROVE  \E z, h : EndToEnd(Chunks(n), z, h, n)
<1>. DEFINE q == n \div Word
            r == n % Word
            w == Chunks(n)
            o(k) == IF k <= q THEN k * Word ELSE q * Word + (k - q)
            h == [k \in 0..(q + r) |-> o(k)]
<1>1. /\ q \in Nat /\ r \in Nat /\ n = q * Word + r /\ Len(w) = q + r
      /\ (\A k \in 1..q : w[k] = [at |-> (k - 1) * Word, size |-> Word])
      /\ \A k \in 1..r : w[q + k] = [at |-> q * Word + k - 1, size |-> 1]
  BY ChunksAre
<1>. HIDE DEF q, r, w
<1>2. Word \in Nat /\ q * Word \in Nat /\ q * Word <= n
  <2>1. Word \in Nat /\ q \in 0..q
    BY <1>1, WordAssumption
  <2>2. q * Word \in Nat
    BY ONLY <1>1, <2>1, Multiples
  <2>. QED BY ONLY <1>1, <2>1, <2>2
<1>3. ASSUME NEW k \in 0..(q + r) PROVE o(k) \in 0..n
  <2>1. CASE k <= q
    <3>1. k \in 0..q
      BY <1>1, <2>1
    <3>2. k * Word \in Nat /\ k * Word <= q * Word
      BY ONLY <1>1, <1>2, <3>1, Multiples
    <3>. QED BY ONLY <1>1, <1>2, <2>1, <3>2, n \in Nat
  <2>2. CASE ~(k <= q)
    BY <1>1, <1>2, <2>2
  <2>. QED BY <2>1, <2>2
<1>4. o(0) = 0 /\ o(q + r) = n
  <2>1. o(0) = 0
    BY <1>1, <1>2
  <2>2. o(q + r) = n
    BY <1>1, <1>2
  <2>. QED BY <2>1, <2>2
<1>5. ASSUME NEW k \in 1..(q + r) PROVE w[k].at = o(k - 1) /\ w[k].size \in Nat /\ o(k) = o(k - 1) + w[k].size
  <2>1. CASE k <= q
    <3>1. k \in 0..q /\ k \in 1..q /\ k > 0 /\ k - 1 <= q
      BY <1>1, <2>1
    <3>2. (k - 1) * Word + Word = k * Word
      BY ONLY <1>1, <1>2, <3>1, Multiples
    <3>3. w[k].at = (k - 1) * Word /\ w[k].size = Word
      <4>1. w[k] = [at |-> (k - 1) * Word, size |-> Word]
        BY ONLY <1>1, <3>1
      <4>. QED BY ONLY <4>1
    <3>. QED BY <1>2, <2>1, <3>1, <3>2, <3>3
  <2>2. CASE ~(k <= q)
    <3>1. k - q \in 1..r /\ q + (k - q) = k
      BY <1>1, <2>2
    <3>2. w[k].at = q * Word + (k - q) - 1 /\ w[k].size = 1
      <4>1. w[q + (k - q)] = [at |-> q * Word + (k - q) - 1, size |-> 1]
        BY ONLY <1>1, <3>1
      <4>2. w[k] = [at |-> q * Word + (k - q) - 1, size |-> 1]
        BY ONLY <3>1, <4>1
      <4>. QED BY ONLY <4>2
    <3>3. o(k - 1) = q * Word + (k - q) - 1
      <4>1. CASE k - 1 = q
        BY <1>1, <1>2, <2>2, <4>1
      <4>2. CASE k - 1 # q
        BY <1>1, <1>2, <2>2, <4>2
      <4>. QED BY <4>1, <4>2
    <3>4. o(k) = q * Word + (k - q)
      BY <2>2
    <3>. QED BY <1>1, <1>2, <3>2, <3>3, <3>4
  <2>. QED BY <2>1, <2>2
<1>. HIDE DEF o
<1>6. h \in [0..(q + r) -> 0..n] /\ \A k \in 0..(q + r) : h[k] = o(k)
  BY <1>3
<1>7. \A k \in 1..(q + r) : w[k].at = o(k - 1) /\ w[k].size \in Nat /\ o(k) = o(k - 1) + w[k].size
  BY <1>5
<1>. HIDE DEF h
<1>8. EndToEnd(w, q + r, h, n)
  <2>1. q + r \in Nat /\ 0 \in 0..(q + r) /\ q + r \in 0..(q + r) /\ \A k \in 1..(q + r) : k \in 0..(q + r) /\ k - 1 \in 0..(q + r)
    BY ONLY <1>1
  <2>. QED BY ONLY n \in Nat, <1>1, <1>4, <1>6, <1>7, <2>1 DEF EndToEnd
<1>. QED BY <1>8 DEF w

LEMMA UpwardsEnd ==
  ASSUME NEW n \in Nat
  PROVE  \E z, h : EndToEnd(Upwards(n), z, h, n)
<1>. DEFINE w == Upwards(n)
            h == [k \in 0..n |-> k]
<1>1. Len(w) = n /\ \A k \in 1..n : w[k] = [at |-> k - 1, size |-> 1]
  BY DEF Upwards
<1>. HIDE DEF w
<1>2. h \in [0..n -> 0..n] /\ (\A k \in 0..n : h[k] = k)
  OBVIOUS
<1>. HIDE DEF h
<1>3. EndToEnd(w, n, h, n)
  <2>1. 0 \in 0..n /\ n \in 0..n /\ \A k \in 1..n : k \in 0..n /\ k - 1 \in 0..n /\ k = k - 1 + 1
    OBVIOUS
  <2>. QED BY <1>1, <1>2, <2>1 DEF EndToEnd
<1>. QED BY <1>3 DEF w

\* From the top down, a copy to a higher place is right as well.
LEMMA CopiedDown ==
  ASSUME NEW C, NEW m \in Seq(C), NEW d \in Nat \ {0}, NEW s \in Nat \ {0}, NEW n \in Nat,
         s + n - 1 <= Len(m), s <= d
  PROVE  Copied(m, d, s, Downwards(n)) = Moved(m, d, s, n)
<1>. DEFINE w == Downwards(n)
            g == [k \in 0..n |-> Moved(m, d + (n - k), s + (n - k), k)]
<1>1. Len(w) = n /\ \A k \in 1..n : w[k] = [at |-> n - k, size |-> 1]
  BY DEF Downwards
<1>. HIDE DEF w
<1>2. g = [k \in 0..n |-> g[k]] /\ \A k \in 0..n : g[k] = Moved(m, d + (n - k), s + (n - k), k)
  OBVIOUS
<1>. HIDE DEF g
<1>3. g[0] = m
  <2>1. \A i \in DOMAIN m : ~(i \in (d + (n - 0))..(d + (n - 0) + 0 - 1))
    OBVIOUS
  <2>2. m = [i \in DOMAIN m |-> m[i]]
    OBVIOUS
  <2>. QED BY <1>2, <2>1, <2>2 DEF Moved
<1>4. ASSUME NEW k \in 1..n PROVE g[k] = Moved(g[k - 1], d + w[k].at, s + w[k].at, w[k].size)
  <2>1. w[k].at = n - k /\ w[k].size = 1
    <3>1. w[k] = [at |-> n - k, size |-> 1]
      BY ONLY k \in 1..n, <1>1
    <3>. QED BY ONLY <3>1
  <2>2. g[k] = Moved(m, d + (n - k), s + (n - k), k) /\ g[k - 1] = Moved(m, d + (n - (k - 1)), s + (n - (k - 1)), k - 1)
    BY <1>2
  <2>3. PICK b \in Nat \ {0}, r \in Nat \ {0}, z \in Nat :
           b = d + (n - k) /\ r = s + (n - k) /\ z = k - 1 /\ r <= b /\ r + z <= Len(m)
    OBVIOUS
  <2>4. d + (n - (k - 1)) = b + 1 /\ s + (n - (k - 1)) = r + 1 /\ k = z + 1
    BY <2>3
  <2>5. Moved(Moved(m, b + 1, r + 1, z), b, r, 1) = Moved(m, b, r, z + 1)
    <3>. DEFINE a == Moved(m, b + 1, r + 1, z)
    <3>1. DOMAIN m = 1..Len(m) /\ Len(m) \in Nat
      OBVIOUS
    <3>2. DOMAIN a = DOMAIN m /\ \A i \in DOMAIN m : a[i] = IF i \in (b + 1)..(b + 1 + z - 1) THEN m[r + 1 + i - (b + 1)] ELSE m[i]
      BY DEF Moved
    <3>. HIDE DEF a
    <3>3. ASSUME NEW i \in 1..Len(m)
          PROVE  (IF i \in b..(b + 1 - 1) THEN a[r + i - b] ELSE a[i])
                   = IF i \in b..(b + (z + 1) - 1) THEN m[r + i - b] ELSE m[i]
      <4>1. CASE i = b
        <5>1. r + i - b = r /\ r \in 1..Len(m) /\ ~(r \in (b + 1)..(b + 1 + z - 1))
          BY ONLY <2>3, <3>1, <4>1, b \in Nat \ {0}, r \in Nat \ {0}, z \in Nat
        <5>2. a[r] = m[r]
          BY ONLY <3>1, <3>2, <5>1
        <5>. QED BY <4>1, <5>1, <5>2
      <4>2. CASE i # b
        <5>1. a[i] = IF i \in (b + 1)..(b + 1 + z - 1) THEN m[r + 1 + i - (b + 1)] ELSE m[i]
          BY <3>1, <3>2
        <5>2. /\ i \in (b + 1)..(b + 1 + z - 1) <=> i \in b..(b + (z + 1) - 1)
              /\ r + 1 + i - (b + 1) = r + i - b /\ ~(i \in b..(b + 1 - 1))
          BY <4>2
        <5>. QED BY ONLY <5>1, <5>2
      <4>. QED BY <4>1, <4>2
    <3>. QED BY <3>1, <3>2, <3>3 DEF Moved, a
  <2>. QED BY ONLY <2>1, <2>2, <2>3, <2>4, <2>5
<1>5. Copied(m, d, s, w) = g[n]
  <2>1. \A k \in 1..n : g[k] = Moved(g[k - 1], d + w[k].at, s + w[k].at, w[k].size)
    BY <1>4
  <2>2. Copying(g, n, m, d, s, w)
    BY ONLY n \in Nat, <1>1, <1>2, <1>3, <2>1 DEF Copying
  <2>. QED BY ONLY <2>2, CopiedIs
<1>6. d + (n - n) = d /\ s + (n - n) = s /\ n \in 0..n
  OBVIOUS
<1>. QED BY <1>2, <1>5, <1>6 DEF w

\* Two areas of n cells of m.
Areas(m, d, s, n) ==
  /\ d \in Nat \ {0} /\ s \in Nat \ {0} /\ n \in Nat
  /\ d + n - 1 <= Len(m) /\ s + n - 1 <= Len(m)

\* The memory functions leave what a copy through a third place would, words at a
\* time or not: rt_string.c's and rt_wstring.c's, where they may be called.
LEMMA MovesAre ==
  ASSUME NEW C, NEW m \in Seq(C), NEW d, NEW s, NEW n, Areas(m, d, s, n)
  PROVE  /\ memmove(m, d, s, n) = Moved(m, d, s, n)
         /\ wmemmove(m, d, s, n) = Moved(m, d, s, n)
         /\ (d <= s \/ s + n <= d) => memcpy(m, d, s, n) = Moved(m, d, s, n) /\ wmemcpy(m, d, s, n) = Moved(m, d, s, n)
<1>1. d \in Nat \ {0} /\ s \in Nat \ {0} /\ n \in Nat /\ d + n - 1 <= Len(m) /\ s + n - 1 <= Len(m)
  BY DEF Areas
<1>2. (d <= s \/ s + n <= d) => memcpy(m, d, s, n) = Moved(m, d, s, n) /\ wmemcpy(m, d, s, n) = Moved(m, d, s, n)
  <2>. SUFFICES ASSUME d <= s \/ s + n <= d
                PROVE  memcpy(m, d, s, n) = Moved(m, d, s, n) /\ wmemcpy(m, d, s, n) = Moved(m, d, s, n)
    OBVIOUS
  <2>1. PICK z, h : EndToEnd(Chunks(n), z, h, n)
    BY ONLY <1>1, ChunksEnd
  <2>2. memcpy(m, d, s, n) = Moved(m, d, s, n)
    BY ONLY <1>1, <2>1, m \in Seq(C), d <= s \/ s + n <= d, CopiedUp DEF memcpy
  <2>3. PICK y, f : EndToEnd(Upwards(n), y, f, n)
    BY ONLY <1>1, UpwardsEnd
  <2>4. wmemcpy(m, d, s, n) = Moved(m, d, s, n)
    BY ONLY <1>1, <2>3, m \in Seq(C), d <= s \/ s + n <= d, CopiedUp DEF wmemcpy
  <2>. QED BY <2>2, <2>4
<1>3. s <= d => Copied(m, d, s, Downwards(n)) = Moved(m, d, s, n)
  BY ONLY <1>1, m \in Seq(C), CopiedDown
<1>4. memmove(m, d, s, n) = Moved(m, d, s, n)
  <2>1. CASE d = s
    <3>1. \A i \in DOMAIN m : s + i - d = i
      BY <1>1, <2>1
    <3>2. m = [i \in DOMAIN m |-> m[i]]
      OBVIOUS
    <3>3. Moved(m, d, s, n) = m
      BY <3>1, <3>2 DEF Moved
    <3>. QED BY <2>1, <3>3 DEF memmove
  <2>2. CASE d < s
    <3>1. d # s /\ d <= s
      BY <1>1, <2>2
    <3>. QED BY ONLY <1>2, <2>2, <3>1 DEF memmove
  <2>3. CASE ~(d < s) /\ d # s
    <3>1. s <= d
      BY <1>1, <2>3
    <3>. QED BY ONLY <1>3, <2>3, <3>1 DEF memmove
  <2>. QED BY <2>1, <2>2, <2>3
<1>5. wmemmove(m, d, s, n) = Moved(m, d, s, n)
  <2>1. CASE d < s \/ d >= s + n
    <3>1. d <= s \/ s + n <= d
      BY <1>1, <2>1
    <3>. QED BY ONLY <1>2, <2>1, <3>1 DEF wmemmove
  <2>2. CASE ~(d < s \/ d >= s + n)
    <3>1. s <= d
      BY <1>1, <2>2
    <3>. QED BY ONLY <1>3, <2>2, <3>1 DEF wmemmove
  <2>. QED BY <2>1, <2>2
<1>. QED BY <1>2, <1>4, <1>5

LEMMA MemsetIs ==
  ASSUME NEW C, NEW m \in Seq(C), NEW d \in Nat \ {0}, NEW c, NEW n \in Nat
  PROVE  memset(m, d, c, n) = Filled(m, d, c, n)
<1>1. PICK z, h : EndToEnd(Chunks(n), z, h, n)
  BY ChunksEnd
<1>. QED BY ONLY <1>1, m \in Seq(C), d \in Nat \ {0}, PaintedUp DEF memset

(* ---- the memory as C99 describes it ---- *)

LEMMA CellsAre ==
  ASSUME NEW C, NEW m \in Seq(C), NEW a \in Nat \ {0}, NEW n \in Nat, a + n - 1 <= Len(m)
  PROVE  /\ Cells(m, a, n) \in Seq(C) /\ Len(Cells(m, a, n)) = n
         /\ \A j \in 1..n : Cells(m, a, n)[j] = m[a + j - 1]
<1>. DEFINE e == a + n - 1
<1>1. a \in Int /\ e \in Int /\ e - a + 1 = n /\ (IF a <= e THEN e - a + 1 ELSE 0) = n /\ \A k \in a..e : k \in 1..Len(m)
  OBVIOUS
<1>2. \A k \in a..e : m[k] \in C
  BY <1>1
<1>. HIDE DEF e
<1>3. /\ SubSeq(m, a, e) \in Seq(C) /\ Len(SubSeq(m, a, e)) = (IF a <= e THEN e - a + 1 ELSE 0)
      /\ \A i \in 1..(e - a + 1) : SubSeq(m, a, e)[i] = m[a + i - 1]
  BY ONLY m \in Seq(C), <1>1, <1>2, SubSeqProperties
<1>. QED BY <1>1, <1>3 DEF Cells, e

\* At a in m there is a text of k characters.
Text(m, a, k) ==
  /\ a \in Nat \ {0} /\ k \in Nat /\ a + k <= Len(m) /\ m[a + k] = "nul"
  /\ \A j \in 0..(k - 1) : m[a + j] # "nul"

LEMMA AtIs ==
  ASSUME NEW C, NEW m \in Seq(C), NEW i \in Int
  PROVE  /\ i \in 1..Len(m) => At(m, i) = m[i]
         /\ ~(i \in 1..Len(m)) => At(m, i) = "nul"
  BY DEF At

\* strlen finds the end, and the text that C99 speaks of is what stands before it.
LEMMA TextIs ==
  ASSUME NEW C, NEW m \in Seq(C), NEW a \in Nat \ {0}, HasText(m, a)
  PROVE  Text(m, a, strlen(m, a)) /\ TextAt(m, a) = Cells(m, a, strlen(m, a))
<1>. DEFINE L == Len(m)
            S == {k \in 0..L : At(m, a + k) = "nul"}
            k == strlen(m, a)
<1>0. L \in Nat
  OBVIOUS
<1>1. PICK i \in a..L : m[i] = "nul"
  BY DEF HasText
<1>2. k = Min(S)
  BY DEF strlen
<1>3. i - a \in S
  <2>1. i - a \in 0..L /\ a + (i - a) = i /\ i \in 1..L
    BY <1>0, <1>1
  <2>. QED BY <1>1, <2>1, AtIs
<1>4. Min(S) \in S /\ Min(S) \in Nat /\ \A j \in S : Min(S) <= j
  <2>0. S \subseteq Nat
    OBVIOUS
  <2>1. S \subseteq Nat /\ S # {}
    <3>. HIDE DEF S
    <3>. QED BY ONLY <1>3, <2>0
  <2>. HIDE DEF S
  <2>. QED BY ONLY <2>1, LeastExists
<1>5. k \in Nat /\ k \in S /\ (\A j \in S : k <= j) /\ k <= i - a
  <2>. HIDE DEF S, k
  <2>. QED BY ONLY <1>2, <1>3, <1>4
<1>. HIDE DEF k
<1>6. a + k <= L /\ a + k \in 1..L
  BY <1>0, <1>1, <1>5
<1>7. m[a + k] = "nul"
  BY <1>5, <1>6, AtIs
<1>8. ASSUME NEW j \in 0..(k - 1) PROVE m[a + j] # "nul" /\ a + j \in 1..L
  <2>1. j \in 0..L /\ a + j \in 1..L /\ ~(k <= j)
    BY <1>0, <1>5, <1>6
  <2>2. ~(j \in S)
    BY ONLY <1>5, <2>1
  <2>. QED BY <2>1, <2>2, AtIs
<1>9. Text(m, a, k)
  BY <1>5, <1>6, <1>7, <1>8 DEF Text
<1>10. /\ Len(Cells(m, a, k)) = k /\ \A j \in 1..k : Cells(m, a, k)[j] = m[a + j - 1]
       /\ Cells(m, a, k) \in Seq(C)
  <2>1. a + k - 1 <= Len(m) /\ k \in Nat
    BY <1>5, <1>6
  <2>. QED BY ONLY <2>1, m \in Seq(C), a \in Nat \ {0}, CellsAre
<1>. DEFINE is(t) == "nul" \notin ToSet(t) /\ m[a + Len(t)] = "nul"
            T == {Cells(m, a, n) : n \in 0..(L - a)}
<1>11. is(Cells(m, a, k)) /\ Cells(m, a, k) \in T
  <2>1. \A j \in 1..k : Cells(m, a, k)[j] # "nul"
    <3>. SUFFICES ASSUME NEW j \in 1..k PROVE m[a + j - 1] # "nul"
      BY <1>10
    <3>1. j - 1 \in 0..(k - 1) /\ a + (j - 1) = a + j - 1
      BY <1>5
    <3>. QED BY <1>8, <3>1
  <2>2. k \in 0..(L - a)
    BY <1>0, <1>5, <1>6
  <2>3. DOMAIN Cells(m, a, k) = 1..k
    BY <1>10
  <2>. QED BY <1>7, <1>10, <2>1, <2>2, <2>3 DEF ToSet
<1>12. ASSUME NEW t \in T, is(t) PROVE t = Cells(m, a, k)
  <2>1. PICK n \in 0..(L - a) : t = Cells(m, a, n)
    OBVIOUS
  <2>2. n \in Nat /\ a + n - 1 <= Len(m)
    BY <1>0
  <2>3. Len(t) = n /\ (\A j \in 1..n : t[j] = m[a + j - 1]) /\ t \in Seq(C)
    BY <2>1, <2>2, CellsAre
  <2>4. m[a + n] = "nul" /\ \A j \in 1..n : m[a + j - 1] # "nul"
    <3>0. is(t)
      BY <1>12
    <3>1. "nul" \notin ToSet(t) /\ m[a + Len(t)] = "nul" /\ DOMAIN t = 1..n
      BY ONLY <2>3, <3>0 DEF is
    <3>2. \A j \in 1..n : t[j] # "nul"
      BY ONLY <3>1 DEF ToSet
    <3>. QED BY ONLY <2>3, <3>1, <3>2
  <2>5. ~(n < k)
    <3>1. n < k => n \in 0..(k - 1)
      BY <1>5, <2>2
    <3>. QED BY ONLY <1>8, <2>4, <3>1
  <2>6. ~(k < n)
    <3>1. k < n => k + 1 \in 1..n /\ a + (k + 1) - 1 = a + k
      BY <1>5, <2>2
    <3>. QED BY ONLY <1>7, <2>4, <3>1
  <2>7. n = k
    BY ONLY <1>5, <2>2, <2>5, <2>6
  <2>. QED BY <2>1, <2>7
<1>13. TextAt(m, a) = CHOOSE t \in T : is(t)
  BY DEF TextAt
<1>. HIDE DEF T, is
<1>. QED BY <1>9, <1>11, <1>12, <1>13 DEF k

\* What the bounded functions stop at: the terminator or the bound.
LEMMA ShortenedIs ==
  ASSUME NEW C, NEW m \in Seq(C), NEW a \in Nat \ {0}, NEW n \in Nat, a <= Len(m),
         HasText(m, a) \/ a + n - 1 <= Len(m)
  PROVE  LET k == Converted(m, a, n)
         IN  /\ k \in Nat /\ k <= n /\ a + k - 1 <= Len(m) /\ Shortened(m, a, n) = Cells(m, a, k)
             /\ \A j \in 0..(k - 1) : m[a + j] # "nul"
             /\ k < n => a + k <= Len(m) /\ m[a + k] = "nul"
<1>. DEFINE L == Len(m)
            S == {j \in 0..n : j = n \/ At(m, a + j) = "nul"}
            k == Converted(m, a, n)
            z == Min({n, L - a + 1})
<1>0. L \in Nat
  OBVIOUS
<1>1. Min(S) \in S /\ Min(S) \in Nat /\ \A j \in S : Min(S) <= j
  <2>1. S \subseteq Nat /\ n \in S
    OBVIOUS
  <2>. HIDE DEF S
  <2>. QED BY ONLY <2>1, LeastExists
<1>2. k = Min(S)
  BY DEF Converted
<1>3. k \in Nat /\ k \in S /\ \A j \in S : k <= j
  <2>. HIDE DEF k, S
  <2>. QED BY ONLY <1>1, <1>2
<1>. HIDE DEF k
<1>4. z \in Nat /\ z <= n /\ a + z - 1 <= L /\ (z = n \/ a + z - 1 = L)
  <2>1. CASE n <= L - a + 1
    <3>1. z = n
      BY <1>0, <2>1, LesserIs
    <3>. QED BY <1>0, <2>1, <3>1
  <2>2. CASE ~(n <= L - a + 1)
    <3>1. z = L - a + 1
      BY <1>0, <2>2, LesserIs
    <3>. QED BY <1>0, <2>2, <3>1
  <2>. QED BY <2>1, <2>2
<1>5. Len(Within(m, a, n)) = z /\ \A j \in 1..z : Within(m, a, n)[j] = m[a + j - 1]
  <2>. HIDE DEF z
  <2>1. Within(m, a, n) = Cells(m, a, z)
    BY DEF Within, z
  <2>. QED BY ONLY <1>4, <2>1, CellsAre, m \in Seq(C), a \in Nat \ {0} DEF L
<1>6. DOMAIN Within(m, a, n) = 1..z
  BY <1>4, <1>5 DEF Within
<1>. HIDE DEF z
<1>7. "nul" \in ToSet(Within(m, a, n)) <=> \E j \in 1..z : m[a + j - 1] = "nul"
  BY ONLY <1>5, <1>6 DEF ToSet
<1>8. ASSUME NEW j \in 0..(k - 1) PROVE ~(At(m, a + j) = "nul") /\ a + j \in 1..L /\ m[a + j] # "nul"
  <2>1. j \in 0..n /\ ~(k <= j) /\ a + j \in Int
    BY <1>3
  <2>2. ~(At(m, a + j) = "nul")
    BY ONLY <1>3, <2>1
  <2>3. a + j \in 1..L
    BY ONLY <2>1, <2>2, AtIs, m \in Seq(C) DEF L
  <2>. QED BY ONLY <2>1, <2>2, <2>3, AtIs, m \in Seq(C) DEF L
<1>9. a + k - 1 <= L /\ k <= n
  <2>1. CASE k = 0
    BY <1>0, <2>1
  <2>2. CASE k # 0
    <3>1. k - 1 \in 0..(k - 1) /\ a + (k - 1) = a + k - 1
      BY <1>3, <2>2
    <3>. QED BY <1>0, <1>3, <1>8, <3>1
  <2>. QED BY <2>1, <2>2
<1>10. CASE \E j \in 1..z : m[a + j - 1] = "nul"
  <2>1. PICK j \in 1..z : m[a + j - 1] = "nul"
    BY <1>10
  <2>2. j - 1 \in 0..n /\ a + (j - 1) = a + j - 1 /\ a + (j - 1) \in 1..L /\ a + j - 1 \in a..L /\ j - 1 < n
    BY <1>0, <1>4
  <2>3. HasText(m, a)
    BY ONLY <2>1, <2>2 DEF HasText, L
  <2>4. At(m, a + (j - 1)) = "nul"
    BY ONLY <2>1, <2>2, AtIs, m \in Seq(C) DEF L
  <2>5. k <= j - 1 /\ k < n /\ a + k \in 1..L
    <3>1. k <= j - 1
      BY ONLY <1>3, <2>2, <2>4
    <3>. QED BY <1>0, <1>3, <2>2, <3>1
  <2>6. m[a + k] = "nul"
    <3>1. At(m, a + k) = "nul"
      BY ONLY <1>3, <2>5
    <3>. QED BY ONLY <2>5, <3>1, AtIs, m \in Seq(C) DEF L
  <2>7. strlen(m, a) = k
    <3>1. Text(m, a, strlen(m, a))
      BY ONLY <2>3, TextIs, m \in Seq(C), a \in Nat \ {0}
    <3>2. PICK e \in Nat : e = strlen(m, a)
      BY <3>1 DEF Text
    <3>3. m[a + e] = "nul" /\ \A i \in 0..(e - 1) : m[a + i] # "nul"
      BY <3>1, <3>2 DEF Text
    <3>4. ~(e < k) /\ ~(k < e)
      <4>1. (e < k => e \in 0..(k - 1)) /\ (k < e => k \in 0..(e - 1))
        BY ONLY <1>3, <3>2
      <4>. QED BY ONLY <1>8, <2>6, <3>3, <4>1
    <3>. QED BY ONLY <1>3, <3>2, <3>4
  <2>8. TextAt(m, a) = Cells(m, a, k)
    BY ONLY <2>3, <2>7, TextIs, m \in Seq(C), a \in Nat \ {0}
  <2>9. Min({n, k}) = k
    BY <1>3, <1>9, LesserIs
  <2>10. First(Cells(m, a, k), n) = Cells(m, a, k)
    <3>. DEFINE t == Cells(m, a, k)
    <3>1. t \in Seq(C) /\ Len(t) = k
      BY ONLY <1>3, <1>9, CellsAre, m \in Seq(C), a \in Nat \ {0} DEF L
    <3>. HIDE DEF t
    <3>2. SubSeq(t, 1, Len(t)) = t
      BY <3>1
    <3>. QED BY ONLY <2>9, <3>1, <3>2 DEF First, t
  <2>11. Shortened(m, a, n) = Cells(m, a, k)
    BY ONLY <1>7, <2>1, <2>8, <2>10 DEF Shortened
  <2>. QED BY <1>3, <1>8, <1>9, <2>5, <2>6, <2>11 DEF k
<1>11. CASE ~\E j \in 1..z : m[a + j - 1] = "nul"
  <2>1. z = n
    <3>. SUFFICES ASSUME z # n PROVE FALSE
      OBVIOUS
    <3>1. a + z - 1 = L /\ HasText(m, a)
      BY <1>0, <1>4
    <3>2. PICK i \in a..L : m[i] = "nul"
      BY <3>1 DEF HasText
    <3>3. i - a + 1 \in 1..z /\ a + (i - a + 1) - 1 = i
      BY <1>0, <1>4, <3>1
    <3>. QED BY <1>11, <3>2, <3>3
  <2>2. k = n
    <3>. SUFFICES ASSUME k # n PROVE FALSE
      OBVIOUS
    <3>1. k + 1 \in 1..z /\ a + (k + 1) - 1 = a + k /\ a + k \in 1..L /\ At(m, a + k) = "nul"
      BY <1>0, <1>3, <1>4, <1>9, <2>1
    <3>2. m[a + k] = "nul"
      BY ONLY <3>1, AtIs, m \in Seq(C) DEF L
    <3>. QED BY ONLY <1>11, <3>1, <3>2
  <2>3. Shortened(m, a, n) = Cells(m, a, n)
    BY ONLY <1>7, <1>11 DEF Shortened
  <2>4. Shortened(m, a, n) = Cells(m, a, k)
    BY ONLY <2>2, <2>3
  <2>5. k \in Nat /\ k <= n /\ a + k - 1 <= Len(m) /\ ~(k < n) /\ \A j \in 0..(k - 1) : m[a + j] # "nul"
    <3>. HIDE DEF k
    <3>. QED BY ONLY <1>3, <1>8, <1>9, <2>2, n \in Nat DEF L
  <2>. QED BY ONLY <2>4, <2>5 DEF k
<1>. QED BY <1>10, <1>11

(* ---- characters ---- *)

\* Every character has its own code, and tolower gives a character.
LEMMA CharsAre ==
  /\ "nul" \in Char /\ "?" \in Char
  /\ \A c \in Char : Code[c] \in Int /\ (Code[c] < 256 <=> c # "wide") /\ tolower[c] \in Char
  /\ \A c, d \in Char : Code[c] = Code[d] => c = d
  /\ Code["nul"] = 0
<1>. DEFINE Four == {"nul", "tab", "newline", "wide"}
            Place(c) == CHOOSE i \in DOMAIN Printable : Printable[i] = c
<1>1. DOMAIN Printable = 1..95 /\ Printable[32] = "?"
  BY DEF Printable
<1>2. /\ Char = Four \cup ToSet(Printable)
      /\ Code["nul"] = 0 /\ Code["tab"] = 9 /\ Code["newline"] = 10 /\ Code["wide"] = 256
      /\ \A c \in Char : c \notin Four => Code[c] = 31 + Place(c)
  <2>1. /\ Char = Four \cup ToSet(Printable)
        /\ \A c \in Char : Code[c] = CASE c = "nul" -> 0 [] c = "tab" -> 9 [] c = "newline" -> 10 [] c = "wide" -> 256
                                       [] OTHER -> 31 + Place(c)
    <3>. HIDE DEF Place
    <3>. QED BY DEF Code, Char, Place
  <2>2. "nul" \in Char /\ "tab" \in Char /\ "newline" \in Char /\ "wide" \in Char
    BY ONLY <2>1
  <2>. HIDE DEF Place
  <2>. QED BY ONLY <2>1, <2>2
<1>3. ASSUME NEW c \in Char, c \notin Four PROVE Place(c) \in 1..95 /\ Printable[Place(c)] = c
  <2>1. \E i \in DOMAIN Printable : Printable[i] = c
    BY <1>2, <1>3 DEF ToSet
  <2>2. Place(c) \in DOMAIN Printable /\ Printable[Place(c)] = c
    BY ONLY <2>1
  <2>. QED BY ONLY <1>1, <2>2
<1>. HIDE DEF Place
<1>4. "nul" \in Char /\ "?" \in Char
  BY <1>1, <1>2 DEF ToSet
<1>5. ASSUME NEW c \in Char PROVE Code[c] \in Int /\ (Code[c] < 256 <=> c # "wide")
  <2>1. CASE c \in Four
    BY <1>2, <2>1
  <2>2. CASE c \notin Four
    <3>1. Place(c) \in 1..95 /\ Code[c] = 31 + Place(c)
      BY <1>2, <1>3, <2>2
    <3>2. c # "wide"
      BY <2>2
    <3>. QED BY ONLY <3>1, <3>2
  <2>. QED BY <2>1, <2>2
<1>6. ASSUME NEW c \in Char, NEW d \in Char, Code[c] = Code[d] PROVE c = d
  <2>1. CASE c \in Four /\ d \in Four
    BY <1>2, <1>6, <2>1
  <2>2. CASE c \in Four /\ d \notin Four
    BY <1>2, <1>3, <1>6, <2>2
  <2>3. CASE c \notin Four /\ d \in Four
    BY <1>2, <1>3, <1>6, <2>3
  <2>4. CASE c \notin Four /\ d \notin Four
    <3>1. Place(c) = Place(d)
      BY <1>2, <1>3, <1>6, <2>4
    <3>. QED BY <1>3, <2>4, <3>1
  <2>. QED BY <2>1, <2>2, <2>3, <2>4
<1>7. ASSUME NEW c \in Char PROVE tolower[c] \in Char
  <2>1. CASE c \in isupper
    <3>1. Code[c] \in 65..90
      BY <2>1 DEF isupper, WithCodes
    <3>2. Code[c] + 32 - 31 \in 1..95
      BY ONLY <3>1
    <3>3. Shifted(c, 32) \in Char
      BY ONLY <1>1, <1>2, <3>2 DEF Shifted, ToSet
    <3>. QED BY ONLY <2>1, <3>3, c \in Char DEF tolower
  <2>2. CASE c \notin isupper
    BY <2>2 DEF tolower
  <2>. QED BY <2>1, <2>2
<1>. QED BY <1>2, <1>4, <1>5, <1>6, <1>7

(* ---- what the writing functions leave ---- *)

\* A memory w that holds t at d and m elsewhere.
Holds(w, m, d, t) ==
  /\ DOMAIN w = 1..Len(m) /\ w = [i \in DOMAIN w |-> w[i]]
  /\ \A i \in 1..Len(m) : i \in d..(d + Len(t) - 1) => w[i] = t[i - d + 1]
  /\ \A i \in 1..Len(m) : ~(i \in d..(d + Len(t) - 1)) => w[i] = m[i]

LEMMA LeavesIs ==
  ASSUME NEW C, NEW m \in Seq(C), NEW w, NEW d, NEW t
  PROVE  Leaves(w, m, d, t) <=> Holds(w, m, d, t)
<1>0. DOMAIN m = 1..Len(m)
  OBVIOUS
<1>1. ASSUME Leaves(w, m, d, t) PROVE Holds(w, m, d, t)
  BY <1>0, <1>1 DEF Leaves, Holds
<1>2. ASSUME Holds(w, m, d, t) PROVE Leaves(w, m, d, t)
  BY <1>0, <1>2 DEF Leaves, Holds
<1>. QED BY <1>1, <1>2

LEMMA LeavesMoved ==
  ASSUME NEW C, NEW m \in Seq(C), NEW d \in Int, NEW s \in Int, NEW k \in Nat,
         NEW t, Len(t) = k, \A j \in 1..k : t[j] = m[s + j - 1]
  PROVE  Leaves(Moved(m, d, s, k), m, d, t)
<1>. DEFINE w == Moved(m, d, s, k)
<1>1. /\ DOMAIN w = 1..Len(m) /\ w = [i \in DOMAIN w |-> w[i]] /\ Len(m) \in Nat
      /\ \A i \in 1..Len(m) : w[i] = IF i \in d..(d + k - 1) THEN m[s + i - d] ELSE m[i]
  BY DEF Moved
<1>. HIDE DEF w
<1>2. ASSUME NEW i \in 1..Len(m), i \in d..(d + Len(t) - 1) PROVE w[i] = t[i - d + 1]
  <2>1. i \in d..(d + k - 1) /\ i - d + 1 \in 1..k /\ s + (i - d + 1) - 1 = s + i - d
    BY <1>1, <1>2
  <2>2. t[i - d + 1] = m[s + (i - d + 1) - 1]
    BY ONLY <2>1, \A j \in 1..k : t[j] = m[s + j - 1]
  <2>. QED BY ONLY <1>1, <2>1, <2>2, i \in 1..Len(m)
<1>3. Holds(w, m, d, t)
  BY <1>1, <1>2 DEF Holds
<1>. QED BY ONLY <1>3, LeavesIs, m \in Seq(C) DEF w

LEMMA LeavesFilled ==
  ASSUME NEW C, NEW m \in Seq(C), NEW d \in Int, NEW c, NEW n \in Nat
  PROVE  Leaves(Filled(m, d, c, n), m, d, Repeat(c, n))
<1>. DEFINE w == Filled(m, d, c, n)
            t == Repeat(c, n)
<1>1. /\ DOMAIN w = 1..Len(m) /\ w = [i \in DOMAIN w |-> w[i]] /\ Len(m) \in Nat
      /\ \A i \in 1..Len(m) : w[i] = IF i \in d..(d + n - 1) THEN c ELSE m[i]
  BY DEF Filled
<1>2. Len(t) = n /\ \A j \in 1..n : t[j] = c
  BY DEF Repeat
<1>. HIDE DEF w, t
<1>3. ASSUME NEW i \in 1..Len(m), i \in d..(d + Len(t) - 1) PROVE w[i] = t[i - d + 1]
  <2>1. i \in d..(d + n - 1) /\ i - d + 1 \in 1..n
    BY <1>1, <1>2, <1>3
  <2>. QED BY ONLY <1>1, <1>2, <2>1, i \in 1..Len(m)
<1>4. Holds(w, m, d, t)
  BY <1>1, <1>2, <1>3 DEF Holds
<1>. QED BY ONLY <1>4, LeavesIs, m \in Seq(C) DEF w, t

\* What is left at d and what is then left right after it make one text.
LEMMA LeavesMore ==
  ASSUME NEW C, NEW m \in Seq(C), NEW d \in Int, NEW t \in Seq(C), NEW w \in Seq(C), Leaves(w, m, d, t),
         NEW u \in Seq(C), NEW v, NEW e, e = d + Len(t), Leaves(v, w, e, u)
  PROVE  Leaves(v, m, d, t \o u)
<1>1. /\ DOMAIN w = 1..Len(m) /\ Len(w) = Len(m) /\ Len(m) \in Nat
      /\ \A i \in 1..Len(m) : i \in d..(d + Len(t) - 1) => w[i] = t[i - d + 1]
      /\ \A i \in 1..Len(m) : ~(i \in d..(d + Len(t) - 1)) => w[i] = m[i]
  <2>1. Holds(w, m, d, t)
    BY LeavesIs
  <2>. QED BY <2>1 DEF Holds
<1>2. /\ DOMAIN v = 1..Len(m) /\ v = [i \in DOMAIN v |-> v[i]]
      /\ \A i \in 1..Len(m) : i \in e..(e + Len(u) - 1) => v[i] = u[i - e + 1]
      /\ \A i \in 1..Len(m) : ~(i \in e..(e + Len(u) - 1)) => v[i] = w[i]
  <2>1. Holds(v, w, e, u)
    BY LeavesIs
  <2>. QED BY <1>1, <2>1 DEF Holds
<1>3. /\ Len(t) \in Nat /\ Len(u) \in Nat /\ Len(t \o u) = Len(t) + Len(u)
      /\ \A i \in 1..(Len(t) + Len(u)) : (t \o u)[i] = IF i <= Len(t) THEN t[i] ELSE u[i - Len(t)]
  <2>1. Len(t) \in Nat /\ Len(u) \in Nat
    OBVIOUS
  <2>. QED BY ONLY <2>1, t \in Seq(C), u \in Seq(C), ConcatProperties
<1>4. PICK h \in Nat, z \in Nat : h = Len(t) /\ z = Len(u) /\ e = d + h
  BY <1>3
<1>5. ASSUME NEW i \in 1..Len(m), i \in d..(d + Len(t \o u) - 1) PROVE v[i] = (t \o u)[i - d + 1]
  <2>1. i \in d..(d + (h + z) - 1) /\ i - d + 1 \in 1..(h + z)
    BY <1>1, <1>3, <1>4, <1>5
  <2>2. (t \o u)[i - d + 1] = IF i - d + 1 <= h THEN t[i - d + 1] ELSE u[i - d + 1 - h]
    BY ONLY <1>3, <1>4, <2>1
  <2>3. CASE i - d + 1 <= h
    <3>1. i \in d..(d + h - 1) /\ ~(i \in (d + h)..(d + h + z - 1))
      BY <2>1, <2>3
    <3>. QED BY ONLY <1>1, <1>2, <1>4, <2>2, <2>3, <3>1, i \in 1..Len(m)
  <2>4. CASE ~(i - d + 1 <= h)
    <3>1. i \in (d + h)..(d + h + z - 1) /\ i - (d + h) + 1 = i - d + 1 - h
      BY <2>1, <2>4
    <3>. QED BY ONLY <1>2, <1>4, <2>2, <2>4, <3>1, i \in 1..Len(m)
  <2>. QED BY <2>3, <2>4
<1>6. ASSUME NEW i \in 1..Len(m), ~(i \in d..(d + Len(t \o u) - 1)) PROVE v[i] = m[i]
  <2>1. i \in Int /\ ~(i \in d..(d + (h + z) - 1))
    BY <1>1, <1>3, <1>4, <1>6
  <2>2. ~(i \in d..(d + h - 1)) /\ ~(i \in (d + h)..(d + h + z - 1))
    BY ONLY <2>1, d \in Int, h \in Nat, z \in Nat
  <2>. QED BY ONLY <1>1, <1>2, <1>4, <2>2, i \in 1..Len(m)
<1>7. Holds(v, m, d, t \o u)
  BY ONLY <1>2, <1>5, <1>6 DEF Holds
<1>. QED BY ONLY <1>7, LeavesIs, m \in Seq(C)

\* What stands there already is left there.
LEMMA LeavesSame ==
  ASSUME NEW C, NEW m \in Seq(C), NEW d \in Int, NEW t, Len(t) \in Nat, \A j \in 1..Len(t) : t[j] = m[d + j - 1]
  PROVE  Leaves(m, m, d, t)
<1>1. ASSUME NEW i \in 1..Len(m), i \in d..(d + Len(t) - 1) PROVE m[i] = t[i - d + 1]
  <2>1. i - d + 1 \in 1..Len(t) /\ d + (i - d + 1) - 1 = i
    BY <1>1
  <2>. QED BY ONLY <2>1, \A j \in 1..Len(t) : t[j] = m[d + j - 1]
<1>2. DOMAIN m = 1..Len(m) /\ m = [i \in DOMAIN m |-> m[i]]
  OBVIOUS
<1>3. Holds(m, m, d, t)
  BY <1>1, <1>2 DEF Holds
<1>. QED BY ONLY <1>3, LeavesIs, m \in Seq(C)

LEMMA WritesKeepType ==
  ASSUME NEW C, NEW m \in Seq(C), NEW d \in Int, NEW s \in Nat \ {0}, NEW k \in Nat, s + k - 1 <= Len(m), NEW c \in C
  PROVE  Moved(m, d, s, k) \in Seq(C) /\ Len(Moved(m, d, s, k)) = Len(m) /\ Filled(m, d, c, k) \in Seq(C)
<1>1. DOMAIN m = 1..Len(m) /\ Len(m) \in Nat /\ \A i \in 1..Len(m) : m[i] \in C
  OBVIOUS
<1>2. ASSUME NEW i \in 1..Len(m) PROVE (IF i \in d..(d + k - 1) THEN m[s + i - d] ELSE m[i]) \in C
  <2>1. i \in d..(d + k - 1) => s + i - d \in 1..Len(m)
    BY <1>1
  <2>. QED BY ONLY <1>1, <2>1, i \in 1..Len(m)
<1>3. /\ Moved(m, d, s, k) = [i \in 1..Len(m) |-> IF i \in d..(d + k - 1) THEN m[s + i - d] ELSE m[i]]
      /\ Filled(m, d, c, k) = [i \in 1..Len(m) |-> IF i \in d..(d + k - 1) THEN c ELSE m[i]]
  BY <1>1 DEF Moved, Filled
<1>4. Moved(m, d, s, k) \in Seq(C) /\ Len(Moved(m, d, s, k)) = Len(m)
  BY ONLY <1>1, <1>2, <1>3
<1>5. \A i \in 1..Len(m) : (IF i \in d..(d + k - 1) THEN c ELSE m[i]) \in C
  BY ONLY <1>1, c \in C
<1>6. Filled(m, d, c, k) \in Seq(C)
  BY ONLY <1>1, <1>3, <1>5
<1>. QED BY <1>4, <1>6

LEMMA Ends ==
  ASSUME NEW C, "nul" \in C, NEW t \in Seq(C), NEW u \in Seq(C)
  PROVE  /\ Ended(u) = u \o Repeat("nul", 1) /\ Repeat("nul", 1) \in Seq(C)
         /\ Ended(t \o u) = t \o Ended(u) /\ Ended(u) \in Seq(C)
<1>1. Repeat("nul", 1) = <<"nul">>
  BY DEF Repeat
<1>2. Append(u, "nul") = u \o <<"nul">> /\ Append(t \o u, "nul") = (t \o u) \o <<"nul">> /\ <<"nul">> \in Seq(C)
  BY "nul" \in C
<1>3. (t \o u) \o <<"nul">> = t \o (u \o <<"nul">>)
  BY ONLY <1>2, t \in Seq(C), u \in Seq(C), ConcatAssociative
<1>. DEFINE one == <<"nul">>
            r == Repeat("nul", 1)
<1>4. r = one
  BY <1>1
<1>5. Append(u, "nul") = u \o one /\ Append(t \o u, "nul") = t \o Append(u, "nul") /\ one \in Seq(C)
  BY <1>2, <1>3
<1>6. Append(u, "nul") \in Seq(C)
  BY "nul" \in C
<1>. HIDE DEF one, r
<1>. QED BY ONLY <1>4, <1>5, <1>6 DEF Ended, r

LEMMA TextParts ==
  ASSUME NEW m \in Seq(Char), NEW a \in Nat \ {0}, HasText(m, a)
  PROVE  LET k == strlen(m, a)  t == TextAt(m, a)
         IN  /\ k \in Nat /\ a + k <= Len(m) /\ m[a + k] = "nul" /\ t \in Seq(Char) /\ Len(t) = k
             /\ \A j \in 1..k : t[j] = m[a + j - 1]
             /\ \A j \in 1..k : t[j] # "nul"
<1>1. Text(m, a, strlen(m, a)) /\ TextAt(m, a) = Cells(m, a, strlen(m, a))
  BY TextIs
<1>2. PICK k \in Nat : k = strlen(m, a)
  BY <1>1 DEF Text
<1>3. a + k <= Len(m) /\ m[a + k] = "nul" /\ \A j \in 0..(k - 1) : m[a + j] # "nul"
  BY <1>1, <1>2 DEF Text
<1>4. a + k - 1 <= Len(m)
  BY <1>3
<1>5. /\ Cells(m, a, k) \in Seq(Char) /\ Len(Cells(m, a, k)) = k
      /\ \A j \in 1..k : Cells(m, a, k)[j] = m[a + j - 1]
  BY ONLY <1>4, m \in Seq(Char), a \in Nat \ {0}, k \in Nat, CellsAre
<1>6. ASSUME NEW j \in 1..k PROVE m[a + j - 1] # "nul"
  <2>1. j - 1 \in 0..(k - 1) /\ a + (j - 1) = a + j - 1
    OBVIOUS
  <2>. QED BY ONLY <1>3, <2>1
<1>. QED BY ONLY <1>1, <1>2, <1>3, <1>5, <1>6, k \in Nat

LEMMA TextEnds ==
  ASSUME NEW m \in Seq(Char), NEW a \in Nat \ {0}, HasText(m, a)
  PROVE  /\ TextAt(m, a) \in Seq(Char) /\ Len(TextAt(m, a)) \in Nat /\ a + strlen(m, a) = a + Len(TextAt(m, a))
         /\ a + strlen(m, a) \in Nat \ {0}
         /\ \A j \in 1..Len(TextAt(m, a)) : TextAt(m, a)[j] = m[a + j - 1]
<1>. DEFINE k == strlen(m, a)
            t == TextAt(m, a)
<1>1. k \in Nat /\ t \in Seq(Char) /\ Len(t) = k /\ \A j \in 1..k : t[j] = m[a + j - 1]
  BY TextParts
<1>. HIDE DEF k, t
<1>2. a + k \in Nat \ {0}
  BY <1>1
<1>. QED BY ONLY <1>1, <1>2 DEF k, t

LEMMA StrcpyIs ==
  ASSUME NEW m \in Seq(Char), NEW d \in Int, NEW s \in Nat \ {0}, HasText(m, s)
  PROVE  Leaves(strcpy(m, d, s), m, d, Ended(TextAt(m, s)))
<1>. DEFINE t == TextAt(m, s)
            k == strlen(m, s)
<1>1. /\ k \in Nat /\ s + k <= Len(m) /\ m[s + k] = "nul" /\ t \in Seq(Char) /\ Len(t) = k
      /\ \A j \in 1..k : t[j] = m[s + j - 1]
  BY TextParts
<1>. HIDE DEF t, k
<1>2. Len(Ended(t)) = k + 1 /\ (\A j \in 1..k : Ended(t)[j] = t[j]) /\ Ended(t)[k + 1] = "nul"
  BY <1>1, CharsAre DEF Ended
<1>3. ASSUME NEW j \in 1..(k + 1) PROVE Ended(t)[j] = m[s + j - 1]
  <2>1. CASE j \in 1..k
    BY <1>1, <1>2, <2>1
  <2>2. CASE j = k + 1
    <3>1. s + j - 1 = s + k
      BY <1>1, <2>2
    <3>. QED BY ONLY <1>1, <1>2, <2>2, <3>1
  <2>. QED BY <1>1, <2>1, <2>2
<1>4. k + 1 \in Nat
  BY <1>1
<1>5. Leaves(Moved(m, d, s, k + 1), m, d, Ended(t))
  BY ONLY <1>2, <1>3, <1>4, m \in Seq(Char), d \in Int, s \in Nat \ {0}, LeavesMoved
<1>. QED BY <1>5 DEF strcpy, t, k

LEMMA StrcatIs ==
  ASSUME NEW m \in Seq(Char), NEW d \in Nat \ {0}, NEW s \in Nat \ {0}, HasText(m, s), HasText(m, d)
  PROVE  Leaves(strcat(m, d, s), m, d, Ended(TextAt(m, d) \o TextAt(m, s)))
<1>. DEFINE e == d + strlen(m, d)
            t == TextAt(m, d)
            u == TextAt(m, s)
<1>1. t \in Seq(Char) /\ u \in Seq(Char) /\ Len(t) \in Nat /\ e = d + Len(t) /\ e \in Int
      /\ \A j \in 1..Len(t) : t[j] = m[d + j - 1]
  <2>1. \A x \in Nat \ {0} : x \in Int
    OBVIOUS
  <2>. QED BY ONLY <2>1, m \in Seq(Char), d \in Nat \ {0}, s \in Nat \ {0}, HasText(m, s), HasText(m, d), TextEnds
<1>. HIDE DEF e, t, u
<1>2. Leaves(strcpy(m, e, s), m, e, Ended(u))
  BY <1>1, StrcpyIs DEF u
<1>3. Ended(t \o u) = t \o Ended(u) /\ Ended(u) \in Seq(Char)
  <2>1. "nul" \in Char
    BY CharsAre
  <2>. QED BY ONLY <1>1, <2>1, Ends
<1>4. Leaves(m, m, d, t)
  BY ONLY <1>1, m \in Seq(Char), d \in Nat \ {0}, LeavesSame
<1>5. Leaves(strcpy(m, e, s), m, d, t \o Ended(u))
  BY ONLY <1>1, <1>2, <1>3, <1>4, m \in Seq(Char), d \in Nat \ {0}, LeavesMore
<1>. QED BY <1>3, <1>5 DEF strcat, e, t, u

\* What a bounded function may be given: n cells, or a text.
Bounded(m, a, n) ==
  a \in Nat \ {0} /\ n \in Nat /\ a <= Len(m) /\ (HasText(m, a) \/ a + n - 1 <= Len(m))

LEMMA ShortenedParts ==
  ASSUME NEW m \in Seq(Char), NEW a, NEW n, Bounded(m, a, n)
  PROVE  LET k == Converted(m, a, n)  t == Shortened(m, a, n)
         IN  /\ k \in Nat /\ k <= n /\ a + k - 1 <= Len(m) /\ t \in Seq(Char) /\ Len(t) = k
             /\ \A j \in 1..k : t[j] = m[a + j - 1]
<1>1. a \in Nat \ {0} /\ n \in Nat /\ a <= Len(m) /\ (HasText(m, a) \/ a + n - 1 <= Len(m))
  BY DEF Bounded
<1>2. PICK k \in Nat : k = Converted(m, a, n) /\ k <= n /\ a + k - 1 <= Len(m) /\ Shortened(m, a, n) = Cells(m, a, k)
  BY ONLY <1>1, m \in Seq(Char), ShortenedIs
<1>3. /\ Cells(m, a, k) \in Seq(Char) /\ Len(Cells(m, a, k)) = k
      /\ \A j \in 1..k : Cells(m, a, k)[j] = m[a + j - 1]
  <2>1. a \in Nat \ {0} /\ a + k - 1 <= Len(m)
    BY ONLY <1>1, <1>2
  <2>. QED BY ONLY <2>1, m \in Seq(Char), k \in Nat, CellsAre
<1>. QED BY ONLY <1>2, <1>3, k \in Nat

\* The characters read, then z times c.
LEMMA MovedFilled ==
  ASSUME NEW m \in Seq(Char), NEW d \in Int, NEW s, NEW n, Bounded(m, s, n), NEW c \in Char, NEW z \in Nat
  PROVE  LET k == Converted(m, s, n)
             v == Filled(Moved(m, d, s, k), d + k, c, z)
         IN  Leaves(v, m, d, Shortened(m, s, n) \o Repeat(c, z)) /\ Leaves(Moved(m, d, s, k), m, d, Shortened(m, s, n))
<1>. DEFINE t == Shortened(m, s, n)
            u == Repeat(c, z)
<1>0. /\ Converted(m, s, n) \in Nat /\ s + Converted(m, s, n) - 1 <= Len(m)
      /\ t \in Seq(Char) /\ Len(t) = Converted(m, s, n)
      /\ \A j \in 1..Converted(m, s, n) : t[j] = m[s + j - 1]
  BY ONLY m \in Seq(Char), Bounded(m, s, n), ShortenedParts
<1>1. PICK k \in Nat : k = Converted(m, s, n)
  BY <1>0
<1>2. u \in Seq(Char)
  BY DEF Repeat
<1>. HIDE DEF t, u
<1>3. s \in Nat \ {0}
  BY DEF Bounded
<1>. DEFINE w == Moved(m, d, s, k)
            v == Filled(w, d + k, c, z)
<1>4. Leaves(w, m, d, t)
  BY ONLY <1>0, <1>1, <1>3, m \in Seq(Char), d \in Int, k \in Nat, LeavesMoved
<1>5. w \in Seq(Char)
  BY ONLY <1>0, <1>1, <1>3, m \in Seq(Char), d \in Int, k \in Nat, c \in Char, WritesKeepType
<1>. HIDE DEF w
<1>6. Leaves(v, w, d + k, u)
  <2>1. d + k \in Int
    OBVIOUS
  <2>. QED BY ONLY <1>5, <2>1, z \in Nat, LeavesFilled DEF u
<1>. HIDE DEF v
<1>7. Leaves(v, m, d, t \o u)
  BY ONLY <1>0, <1>1, <1>2, <1>4, <1>5, <1>6, m \in Seq(Char), d \in Int, LeavesMore
<1>. QED BY ONLY <1>1, <1>4, <1>7 DEF w, v, t, u

LEMMA StrncpyIs ==
  ASSUME NEW m \in Seq(Char), NEW d \in Int, NEW s, NEW n, Bounded(m, s, n)
  PROVE  LET t == Shortened(m, s, n)
         IN  Leaves(strncpy(m, d, s, n), m, d, t \o Repeat("nul", n - Len(t)))
<1>. DEFINE k == Converted(m, s, n)
<1>1. k \in Nat /\ k <= n /\ Len(Shortened(m, s, n)) = k /\ n \in Nat
  <2>1. n \in Nat
    BY DEF Bounded
  <2>. QED BY <2>1, ShortenedParts
<1>2. strncpy(m, d, s, n) = Filled(Moved(m, d, s, k), d + k, "nul", n - k)
  BY DEF strncpy, Converted
<1>. HIDE DEF k
<1>3. n - k \in Nat /\ "nul" \in Char
  BY <1>1, CharsAre
<1>4. Leaves(Filled(Moved(m, d, s, k), d + k, "nul", n - k), m, d, Shortened(m, s, n) \o Repeat("nul", n - k))
  BY ONLY <1>3, m \in Seq(Char), d \in Int, Bounded(m, s, n), MovedFilled DEF k
<1>. QED BY <1>1, <1>2, <1>4

LEMMA StrncatIs ==
  ASSUME NEW m \in Seq(Char), NEW d \in Nat \ {0}, NEW s, NEW n, HasText(m, d), Bounded(m, s, n)
  PROVE  Leaves(strncat(m, d, s, n), m, d, Ended(TextAt(m, d) \o Shortened(m, s, n)))
<1>. DEFINE e == d + strlen(m, d)
            k == Converted(m, s, n)
            t == TextAt(m, d)
            u == Shortened(m, s, n)
            v == strncat(m, d, s, n)
<1>1. /\ t \in Seq(Char) /\ Len(t) \in Nat /\ e = d + Len(t) /\ e \in Int
      /\ \A j \in 1..Len(t) : t[j] = m[d + j - 1]
  <2>1. \A x \in Nat \ {0} : x \in Int
    OBVIOUS
  <2>. QED BY ONLY <2>1, m \in Seq(Char), d \in Nat \ {0}, HasText(m, d), TextEnds
<1>2. u \in Seq(Char)
  BY ShortenedParts
<1>3. v = Filled(Moved(m, e, s, k), e + k, "nul", 1)
  BY DEF strncat, Converted
<1>. HIDE DEF e, t
<1>4. "nul" \in Char
  BY CharsAre
<1>5. Leaves(v, m, e, u \o Repeat("nul", 1))
  BY ONLY <1>1, <1>3, <1>4, m \in Seq(Char), Bounded(m, s, n), 1 \in Nat, MovedFilled
<1>. HIDE DEF k, u, v
<1>6. Leaves(v, m, e, Ended(u)) /\ Ended(t \o u) = t \o Ended(u) /\ Ended(u) \in Seq(Char)
  BY ONLY <1>1, <1>2, <1>4, <1>5, Ends
<1>7. Leaves(m, m, d, t)
  BY ONLY <1>1, m \in Seq(Char), d \in Nat \ {0}, LeavesSame
<1>8. Leaves(v, m, d, t \o Ended(u))
  BY ONLY <1>1, <1>6, <1>7, m \in Seq(Char), d \in Nat \ {0}, LeavesMore
<1>. QED BY <1>6, <1>8 DEF t, u, v

\* A terminator, when there is room for one.
LEMMA EndedWhenShort ==
  ASSUME NEW m \in Seq(Char), NEW d \in Int, NEW w \in Seq(Char), NEW t \in Seq(Char), Leaves(w, m, d, t),
         NEW k, k = Len(t), NEW n \in Nat
  PROVE  Leaves(IF k < n THEN Filled(w, d + k, "nul", 1) ELSE w, m, d, t \o (IF k < n THEN <<"nul">> ELSE << >>))
<1>0. k \in Nat
  OBVIOUS
<1>1. CASE k < n
  <2>1. Leaves(Filled(w, d + k, "nul", 1), w, d + k, Repeat("nul", 1))
    <3>1. d + k \in Int /\ 1 \in Nat
      BY <1>0
    <3>. QED BY ONLY <3>1, w \in Seq(Char), LeavesFilled
  <2>2. Repeat("nul", 1) = <<"nul">> /\ <<"nul">> \in Seq(Char)
    BY CharsAre DEF Repeat
  <2>. DEFINE one == <<"nul">>
              v == Filled(w, d + k, "nul", 1)
  <2>3. one \in Seq(Char) /\ Leaves(v, w, d + k, one)
    BY <2>1, <2>2
  <2>. HIDE DEF one, v
  <2>4. Leaves(v, m, d, t \o one)
    BY ONLY <2>3, m \in Seq(Char), d \in Int, w \in Seq(Char), t \in Seq(Char), Leaves(w, m, d, t), k = Len(t), LeavesMore
  <2>. QED BY <1>1, <2>4 DEF one, v
<1>2. CASE ~(k < n)
  <2>1. t \o << >> = t
    BY ONLY t \in Seq(Char), ConcatEmptySeq
  <2>. QED BY <1>2, <2>1
<1>. QED BY <1>1, <1>2

LEMMA WcstombsIs ==
  ASSUME NEW m \in Seq(Char), NEW d \in Int, NEW s, NEW n, Bounded(m, s, n)
  PROVE  LET t == Shortened(m, s, n)
             k == Converted(m, s, n)
         IN  /\ k = Len(t)
             /\ Leaves(wcstombs(m, d, s, n), m, d,
                       [i \in DOMAIN t |-> IF t[i] = "wide" THEN "?" ELSE t[i]] \o (IF k < n THEN <<"nul">> ELSE << >>))
<1>. DEFINE t == Shortened(m, s, n)
            u == [i \in DOMAIN t |-> IF t[i] = "wide" THEN "?" ELSE t[i]]
<1>0. /\ Converted(m, s, n) \in Nat /\ s + Converted(m, s, n) - 1 <= Len(m)
      /\ t \in Seq(Char) /\ Len(t) = Converted(m, s, n)
      /\ \A j \in 1..Converted(m, s, n) : t[j] = m[s + j - 1]
  BY ONLY m \in Seq(Char), Bounded(m, s, n), ShortenedParts
<1>1. PICK k \in Nat : k = Converted(m, s, n)
  BY <1>0
<1>2. s \in Nat \ {0} /\ n \in Nat
  BY DEF Bounded
<1>. HIDE DEF t
<1>3. Len(u) = k /\ u \in Seq(Char) /\ \A j \in 1..k : u[j] = IF t[j] = "wide" THEN "?" ELSE t[j]
  <2>1. DOMAIN t = 1..k /\ \A j \in 1..k : t[j] \in Char
    BY <1>0, <1>1
  <2>2. "?" \in Char
    BY CharsAre
  <2>. QED BY ONLY <2>1, <2>2, k \in Nat
<1>. HIDE DEF u
<1>4. \A c \in Char : Narrowed(c) = IF c = "wide" THEN "?" ELSE c
  BY CharsAre DEF Narrowed
<1>. DEFINE w == [i \in DOMAIN m |-> IF i \in d..(d + k - 1) THEN Narrowed(m[s + i - d]) ELSE m[i]]
<1>5. DOMAIN m = 1..Len(m) /\ Len(m) \in Nat /\ \A i \in 1..Len(m) : m[i] \in Char
  OBVIOUS
<1>6. /\ DOMAIN w = 1..Len(m) /\ w = [i \in DOMAIN w |-> w[i]]
      /\ \A i \in 1..Len(m) : w[i] = IF i \in d..(d + k - 1) THEN Narrowed(m[s + i - d]) ELSE m[i]
  BY <1>5
<1>. HIDE DEF w
<1>7. ASSUME NEW i \in 1..Len(m), i \in d..(d + k - 1) PROVE w[i] = u[i - d + 1]
  <2>1. i - d + 1 \in 1..k /\ s + (i - d + 1) - 1 = s + i - d /\ s + i - d \in 1..Len(m)
    BY <1>0, <1>1, <1>2, <1>5, <1>7
  <2>2. t[i - d + 1] = m[s + i - d] /\ t[i - d + 1] \in Char
    BY ONLY <1>0, <1>1, <1>5, <2>1
  <2>. QED BY ONLY <1>3, <1>4, <1>6, <1>7, <2>1, <2>2, i \in 1..Len(m)
<1>8. Leaves(w, m, d, u)
  <2>1. Holds(w, m, d, u)
    BY <1>3, <1>6, <1>7 DEF Holds
  <2>. QED BY ONLY <2>1, LeavesIs, m \in Seq(Char)
<1>9. w \in Seq(Char)
  <2>1. ASSUME NEW i \in 1..Len(m) PROVE w[i] \in Char
    <3>1. CASE i \in d..(d + k - 1)
      <4>1. i - d + 1 \in 1..k
        BY <1>5, <3>1
      <4>. QED BY <1>3, <1>7, <3>1, <4>1
    <3>2. CASE ~(i \in d..(d + k - 1))
      BY <1>5, <1>6, <3>2
    <3>. QED BY <3>1, <3>2
  <2>. QED BY ONLY <1>5, <1>6, <2>1
<1>10. wcstombs(m, d, s, n) = IF k < n THEN Filled(w, d + k, "nul", 1) ELSE w
  BY <1>1 DEF wcstombs, w
<1>11. Leaves(wcstombs(m, d, s, n), m, d, u \o (IF k < n THEN <<"nul">> ELSE << >>))
  BY ONLY <1>2, <1>3, <1>8, <1>9, <1>10, m \in Seq(Char), d \in Int, EndedWhenShort
<1>. QED BY <1>0, <1>1, <1>11 DEF t, u

LEMMA MbstowcsIs ==
  ASSUME NEW m \in Seq(Char), NEW d \in Int, NEW s, NEW n, Bounded(m, s, n), "wide" \notin ToSet(m)
  PROVE  LET t == Shortened(m, s, n)
             k == Converted(m, s, n)
         IN  /\ k = Len(t)
             /\ Leaves(mbstowcs(m, d, s, n), m, d,
                       [i \in DOMAIN t |-> IF t[i] = "wide" THEN "?" ELSE t[i]] \o (IF k < n THEN <<"nul">> ELSE << >>))
<1>. DEFINE t == Shortened(m, s, n)
            u == [i \in DOMAIN t |-> IF t[i] = "wide" THEN "?" ELSE t[i]]
<1>0. /\ Converted(m, s, n) \in Nat /\ s + Converted(m, s, n) - 1 <= Len(m)
      /\ t \in Seq(Char) /\ Len(t) = Converted(m, s, n)
      /\ \A j \in 1..Converted(m, s, n) : t[j] = m[s + j - 1]
  BY ONLY m \in Seq(Char), Bounded(m, s, n), ShortenedParts
<1>1. PICK k \in Nat : k = Converted(m, s, n)
  BY <1>0
<1>2. s \in Nat \ {0} /\ n \in Nat
  BY DEF Bounded
<1>3. Leaves(Moved(m, d, s, k), m, d, t)
  <2>1. Len(t) = k /\ s \in Int /\ \A j \in 1..k : t[j] = m[s + j - 1]
    BY ONLY <1>0, <1>1, <1>2
  <2>. QED BY ONLY <2>1, m \in Seq(Char), d \in Int, k \in Nat, LeavesMoved
<1>. HIDE DEF t
<1>4. u = t
  <2>1. ASSUME NEW j \in 1..k PROVE t[j] # "wide"
    <3>1. s + j - 1 \in DOMAIN m /\ t[j] = m[s + j - 1]
      BY <1>0, <1>1, <1>2
    <3>. QED BY <3>1 DEF ToSet
  <2>2. t = [j \in 1..k |-> t[j]] /\ DOMAIN t = 1..k
    BY <1>0, <1>1
  <2>. QED BY ONLY <2>1, <2>2
<1>5. Moved(m, d, s, k) \in Seq(Char)
  <2>1. "nul" \in Char
    BY CharsAre
  <2>. QED BY ONLY <1>0, <1>1, <1>2, <2>1, m \in Seq(Char), d \in Int, k \in Nat, WritesKeepType
<1>6. mbstowcs(m, d, s, n) = IF k < n THEN Filled(Moved(m, d, s, k), d + k, "nul", 1) ELSE Moved(m, d, s, k)
  BY <1>1 DEF mbstowcs
<1>7. Leaves(mbstowcs(m, d, s, n), m, d, t \o (IF k < n THEN <<"nul">> ELSE << >>))
  BY ONLY <1>0, <1>1, <1>2, <1>3, <1>5, <1>6, m \in Seq(Char), d \in Int, EndedWhenShort
<1>. QED BY <1>0, <1>1, <1>4, <1>7 DEF t

(* ---- calls that write ---- *)

\* Before the call the memory is one of the given ones.
Fresh == mem \in Memories

LEMMA FreshIs ==
  ASSUME Fresh
  PROVE  /\ mem \in Seq(Char) /\ Addresses = 1..Size /\ Size \in Nat /\ Size = Len(mem)
         /\ \A a \in Addresses : a \in Nat \ {0} /\ a \in Int /\ a <= Len(mem)
<1>1. mem \in Seq(Char)
  BY TextsAssumption DEF Fresh
<1>. QED BY <1>1 DEF Addresses, Size

\* A call made, as the properties see it.
LEMMA Called ==
  ASSUME NEW f, NEW d, NEW s, NEW n, NEW c, NEW m, NEW r, Call(f, d, s, n, c, m, r)
  PROVE  /\ call'.f = f /\ call'.d = d /\ call'.s = s /\ call'.n = n /\ call'.c = c /\ call'.was = mem
         /\ mem' = m /\ got' = r /\ call' # << >>
<1>1. call' = [f |-> f, d |-> d, s |-> s, n |-> n, c |-> c, was |-> mem] /\ mem' = m /\ got' = r
  BY DEF Call
<1>2. call' # << >>
  <2>1. DOMAIN call' = {"f", "d", "s", "n", "c", "was"}
    BY <1>1
  <2>2. DOMAIN << >> = {}
    OBVIOUS
  <2>3. "f" \in DOMAIN call'
    BY ONLY <2>1
  <2>. QED BY ONLY <2>2, <2>3
<1>. QED BY <1>1, <1>2

MoveNames   == {"memmove", "wmemmove", "memcpy", "wmemcpy", "memset", "wmemset"}
TextNames   == {"strcpy", "wcscpy", "strcat", "wcscat", "strncpy", "wcsncpy", "wcstombs", "mbstowcs",
                "strncat", "wcsncat"}
AnswerNames == {"memcmp", "wmemcmp", "strcmp", "wcscmp", "_stricmp", "strncmp", "wcsncmp", "_strnicmp",
                "memchr", "wmemchr", "strchr", "wcschr", "strrchr", "wcsrchr", "strstr", "wcsstr",
                "strspn", "wcsspn", "strcspn", "wcscspn", "strpbrk", "wcspbrk"}

\* A call of another function after the step says nothing of these.
LEMMA NoMove == ASSUME call'.f \notin MoveNames PROVE MovesAreC'
  BY DEF MovesAreC, MoveNames
LEMMA NoText == ASSUME call'.f \notin TextNames PROVE TextsAreC'
  BY DEF TextsAreC, TextNames
LEMMA NoAnswer == ASSUME call'.f \notin AnswerNames PROVE AnswersAreC'
  BY DEF AnswersAreC, AnswerNames

LEMMA MovesDo ==
  ASSUME Fresh, Moves
  PROVE  MovesAreC' /\ call'.f \in MoveNames /\ call' # << >>
<1>1. PICK d \in Addresses, s \in Addresses, n \in 0..Size :
        /\ Room(d, n) /\ Room(s, n)
        /\ \/ Call("memmove", d, s, n, "nul", memmove(mem, d, s, n), d)
           \/ Call("wmemmove", d, s, n, "nul", wmemmove(mem, d, s, n), d)
           \/ Apart(d, n, s, n) /\ Call("memcpy", d, s, n, "nul", memcpy(mem, d, s, n), d)
           \/ Apart(d, n, s, n) /\ Call("wmemcpy", d, s, n, "nul", wmemcpy(mem, d, s, n), d)
  BY DEF Moves
<1>2. /\ d \in Nat \ {0} /\ s \in Nat \ {0} /\ d \in Int /\ s \in Int /\ n \in Nat /\ mem \in Seq(Char)
      /\ d + n - 1 <= Len(mem) /\ s + n - 1 <= Len(mem) /\ (Apart(d, n, s, n) => d <= s \/ s + n <= d)
  <2>1. /\ d \in Nat \ {0} /\ s \in Nat \ {0} /\ mem \in Seq(Char) /\ Size = Len(mem) /\ Size \in Nat
    BY FreshIs
  <2>2. n \in Nat
    BY <2>1
  <2>3. Apart(d, n, s, n) => d <= s \/ s + n <= d
    BY <2>1, <2>2 DEF Apart
  <2>. QED BY <1>1, <2>1, <2>2, <2>3 DEF Room
<1>3. PICK m, f : /\ Call(f, d, s, n, "nul", m, d) /\ f \in {"memmove", "wmemmove", "memcpy", "wmemcpy"}
                  /\ m = Moved(mem, d, s, n)
  <2>1. Areas(mem, d, s, n)
    BY ONLY <1>2 DEF Areas
  <2>2. /\ memmove(mem, d, s, n) = Moved(mem, d, s, n)
        /\ wmemmove(mem, d, s, n) = Moved(mem, d, s, n)
        /\ Apart(d, n, s, n) => memcpy(mem, d, s, n) = Moved(mem, d, s, n) /\ wmemcpy(mem, d, s, n) = Moved(mem, d, s, n)
    BY ONLY <1>2, <2>1, MovesAre
  <2>. QED BY ONLY <1>1, <2>2
<1>4. Leaves(m, mem, d, Cells(mem, s, n))
  <2>1. Len(Cells(mem, s, n)) = n /\ \A j \in 1..n : Cells(mem, s, n)[j] = mem[s + j - 1]
    BY ONLY <1>2, CellsAre
  <2>. QED BY ONLY <1>2, <1>3, <2>1, LeavesMoved
<1>5. /\ call'.f = f /\ call'.d = d /\ call'.s = s /\ call'.n = n /\ call'.was = mem
      /\ mem' = m /\ got' = d /\ call' # << >>
  BY ONLY <1>3, Called
<1>6. ~(f \in {"memset", "wmemset"}) /\ f \in MoveNames
  BY ONLY <1>3 DEF MoveNames
<1>. QED BY ONLY <1>4, <1>5, <1>6 DEF MovesAreC

LEMMA FillsDo ==
  ASSUME Fresh, Fills
  PROVE  MovesAreC' /\ call'.f \in MoveNames /\ call' # << >>
<1>1. PICK d \in Addresses, n \in 0..Size, c \in Fillers :
        \/ Call("memset", d, d, n, c, memset(mem, d, c, n), d)
        \/ Call("wmemset", d, d, n, c, wmemset(mem, d, c, n), d)
  BY DEF Fills
<1>2. d \in Nat \ {0} /\ d \in Int /\ n \in Nat /\ mem \in Seq(Char)
  <2>1. d \in Nat \ {0} /\ mem \in Seq(Char) /\ Size \in Nat
    BY FreshIs
  <2>. QED BY <2>1
<1>3. PICK m, f : Call(f, d, d, n, c, m, d) /\ f \in {"memset", "wmemset"} /\ m = Filled(mem, d, c, n)
  <2>1. memset(mem, d, c, n) = Filled(mem, d, c, n) /\ wmemset(mem, d, c, n) = Filled(mem, d, c, n)
    BY ONLY <1>2, MemsetIs DEF wmemset
  <2>. QED BY ONLY <1>1, <2>1
<1>4. Leaves(m, mem, d, Repeat(c, n))
  BY ONLY <1>2, <1>3, LeavesFilled
<1>5. /\ call'.f = f /\ call'.d = d /\ call'.n = n /\ call'.c = c /\ call'.was = mem
      /\ mem' = m /\ got' = d /\ call' # << >>
  BY ONLY <1>3, Called
<1>6. ~(f \in {"memmove", "wmemmove", "memcpy", "wmemcpy"}) /\ f \in MoveNames
  BY ONLY <1>3 DEF MoveNames
<1>. QED BY ONLY <1>4, <1>5, <1>6 DEF MovesAreC

LEMMA CopiesDo ==
  ASSUME Fresh, Copies
  PROVE  TextsAreC' /\ call'.f \in TextNames /\ call' # << >>
<1>1. PICK d \in Addresses, s \in Addresses :
        /\ IsText(s)
        /\ \/ Call("strcpy", d, s, 0, "nul", strcpy(mem, d, s), d)
           \/ Call("wcscpy", d, s, 0, "nul", wcscpy(mem, d, s), d)
           \/ IsText(d) /\ Call("strcat", d, s, 0, "nul", strcat(mem, d, s), d)
           \/ IsText(d) /\ Call("wcscat", d, s, 0, "nul", wcscat(mem, d, s), d)
  BY DEF Copies
<1>2. d \in Nat \ {0} /\ s \in Nat \ {0} /\ d \in Int /\ mem \in Seq(Char) /\ HasText(mem, s)
  BY <1>1, FreshIs DEF IsText
<1>3. wcscpy(mem, d, s) = strcpy(mem, d, s) /\ wcscat(mem, d, s) = strcat(mem, d, s)
  BY DEF wcscpy, wcscat, strcat, wcslen
<1>4. CASE \E f \in {"strcpy", "wcscpy"} : Call(f, d, s, 0, "nul", strcpy(mem, d, s), d)
  <2>1. PICK f \in {"strcpy", "wcscpy"} : Call(f, d, s, 0, "nul", strcpy(mem, d, s), d)
    BY <1>4
  <2>2. Leaves(strcpy(mem, d, s), mem, d, Ended(TextAt(mem, s)))
    BY ONLY <1>2, StrcpyIs
  <2>3. /\ call'.f = f /\ call'.d = d /\ call'.s = s /\ call'.was = mem
        /\ mem' = strcpy(mem, d, s) /\ call' # << >>
    BY ONLY <2>1, Called
  <2>4. f \in TextNames /\ f \notin TextNames \ {"strcpy", "wcscpy"}
    BY <2>1 DEF TextNames
  <2>. QED BY ONLY <2>2, <2>3, <2>4 DEF TextsAreC, TextNames
<1>5. CASE \E f \in {"strcat", "wcscat"} : IsText(d) /\ Call(f, d, s, 0, "nul", strcat(mem, d, s), d)
  <2>1. PICK f \in {"strcat", "wcscat"} : IsText(d) /\ Call(f, d, s, 0, "nul", strcat(mem, d, s), d)
    BY <1>5
  <2>2. Leaves(strcat(mem, d, s), mem, d, Ended(TextAt(mem, d) \o TextAt(mem, s)))
    BY ONLY <1>2, <2>1, StrcatIs DEF IsText
  <2>3. /\ call'.f = f /\ call'.d = d /\ call'.s = s /\ call'.was = mem
        /\ mem' = strcat(mem, d, s) /\ call' # << >>
    BY ONLY <2>1, Called
  <2>4. f \in TextNames /\ f \notin TextNames \ {"strcat", "wcscat"}
    BY <2>1 DEF TextNames
  <2>. QED BY ONLY <2>2, <2>3, <2>4 DEF TextsAreC, TextNames
<1>. QED BY ONLY <1>1, <1>3, <1>4, <1>5

LEMMA BoundedCopiesDo ==
  ASSUME Fresh, BoundedCopies
  PROVE  TextsAreC' /\ call'.f \in TextNames /\ call' # << >>
<1>1. PICK d \in Addresses, s \in Addresses, n \in Lengths :
        /\ TextOrRoom(s, n)
        /\ \/ Call("strncpy", d, s, n, "nul", strncpy(mem, d, s, n), d)
           \/ Call("wcsncpy", d, s, n, "nul", wcsncpy(mem, d, s, n), d)
           \/ Call("wcstombs", d, s, n, "nul", wcstombs(mem, d, s, n), Converted(mem, s, n))
           \/ "wide" \notin ToSet(mem) /\ Call("mbstowcs", d, s, n, "nul", mbstowcs(mem, d, s, n), Converted(mem, s, n))
           \/ IsText(d) /\ Call("strncat", d, s, n, "nul", strncat(mem, d, s, n), d)
           \/ IsText(d) /\ Call("wcsncat", d, s, n, "nul", wcsncat(mem, d, s, n), d)
  BY DEF BoundedCopies
<1>2. d \in Nat \ {0} /\ s \in Nat \ {0} /\ d \in Int /\ mem \in Seq(Char) /\ Bounded(mem, s, n)
  <2>1. d \in Nat \ {0} /\ s \in Nat \ {0} /\ d \in Int /\ mem \in Seq(Char) /\ s <= Len(mem) /\ Size = Len(mem)
    BY FreshIs
  <2>2. n \in Nat
    BY TextsAssumption
  <2>. QED BY <1>1, <2>1, <2>2 DEF Bounded, TextOrRoom, IsText, Room
<1>3. wcsncpy(mem, d, s, n) = strncpy(mem, d, s, n) /\ wcsncat(mem, d, s, n) = strncat(mem, d, s, n)
  BY DEF wcsncpy, wcsncat
<1>4. CASE \E f \in {"strncpy", "wcsncpy"} : Call(f, d, s, n, "nul", strncpy(mem, d, s, n), d)
  <2>1. PICK f \in {"strncpy", "wcsncpy"} : Call(f, d, s, n, "nul", strncpy(mem, d, s, n), d)
    BY <1>4
  <2>2. Leaves(strncpy(mem, d, s, n), mem, d,
               Shortened(mem, s, n) \o Repeat("nul", n - Len(Shortened(mem, s, n))))
    BY ONLY <1>2, StrncpyIs
  <2>3. /\ call'.f = f /\ call'.d = d /\ call'.s = s /\ call'.n = n /\ call'.was = mem
        /\ mem' = strncpy(mem, d, s, n) /\ call' # << >>
    BY ONLY <2>1, Called
  <2>4. f \in TextNames /\ f \notin TextNames \ {"strncpy", "wcsncpy"}
    BY <2>1 DEF TextNames
  <2>. QED BY ONLY <2>2, <2>3, <2>4 DEF TextsAreC, TextNames
<1>5. CASE \E f \in {"strncat", "wcsncat"} : IsText(d) /\ Call(f, d, s, n, "nul", strncat(mem, d, s, n), d)
  <2>1. PICK f \in {"strncat", "wcsncat"} : IsText(d) /\ Call(f, d, s, n, "nul", strncat(mem, d, s, n), d)
    BY <1>5
  <2>2. Leaves(strncat(mem, d, s, n), mem, d, Ended(TextAt(mem, d) \o Shortened(mem, s, n)))
    BY ONLY <1>2, <2>1, StrncatIs DEF IsText
  <2>3. /\ call'.f = f /\ call'.d = d /\ call'.s = s /\ call'.n = n /\ call'.was = mem
        /\ mem' = strncat(mem, d, s, n) /\ call' # << >>
    BY ONLY <2>1, Called
  <2>4. f \in TextNames /\ f \notin TextNames \ {"strncat", "wcsncat"}
    BY <2>1 DEF TextNames
  <2>. QED BY ONLY <2>2, <2>3, <2>4 DEF TextsAreC, TextNames
<1>6. CASE \E f \in {"wcstombs", "mbstowcs"} : \E m : Call(f, d, s, n, "nul", m, Converted(mem, s, n))
                                                  /\ (m = wcstombs(mem, d, s, n)
                                                      \/ ("wide" \notin ToSet(mem) /\ m = mbstowcs(mem, d, s, n)))
  <2>1. PICK f, m : /\ f \in {"wcstombs", "mbstowcs"} /\ Call(f, d, s, n, "nul", m, Converted(mem, s, n))
                    /\ (m = wcstombs(mem, d, s, n) \/ ("wide" \notin ToSet(mem) /\ m = mbstowcs(mem, d, s, n)))
    BY <1>6
  <2>. DEFINE t == Shortened(mem, s, n)
              k == Converted(mem, s, n)
  <2>2. k = Len(t) /\ Leaves(m, mem, d, [i \in DOMAIN t |-> IF t[i] = "wide" THEN "?" ELSE t[i]]
                                        \o (IF k < n THEN <<"nul">> ELSE << >>))
    BY ONLY <1>2, <2>1, WcstombsIs, MbstowcsIs
  <2>3. /\ call'.f = f /\ call'.d = d /\ call'.s = s /\ call'.n = n /\ call'.was = mem
        /\ mem' = m /\ got' = k /\ call' # << >>
    BY ONLY <2>1, Called
  <2>4. f \in TextNames /\ f \notin TextNames \ {"wcstombs", "mbstowcs"}
    BY <2>1 DEF TextNames
  <2>. QED BY ONLY <2>2, <2>3, <2>4 DEF TextsAreC, TextNames
<1>. QED BY ONLY <1>1, <1>3, <1>4, <1>5, <1>6

(* ---- comparisons ---- *)

LEMMA ComparedDiffer ==
  ASSUME NEW t \in Seq(Char), NEW u \in Seq(Char), NEW k \in Nat \ {0}, k <= Len(t), k <= Len(u),
         \A j \in 1..(k - 1) : t[j] = u[j], t[k] # u[k]
  PROVE  Compared(t, u) = Sign(Order(t[k], u[k]))
<1>1. Len(t) \in Nat /\ Len(u) \in Nat /\ k \in 1..Len(t) /\ k \in 1..Len(u)
  OBVIOUS
<1>2. PICK b \in Nat : b = Min({Len(t), Len(u)}) /\ b <= Len(t) /\ b <= Len(u) /\ k <= b
  BY <1>1, LesserIs
<1>3. \A i \in 1..b : Code[t[i]] \in Int /\ Code[u[i]] \in Int
  <2>1. \A i \in 1..b : i \in 1..Len(t) /\ i \in 1..Len(u)
    BY ONLY <1>1, <1>2
  <2>. QED BY <2>1, CharsAre
<1>4. Code[t[k]] \in Int /\ Code[u[k]] \in Int /\ Code[t[k]] # Code[u[k]]
  BY <1>1, CharsAre
<1>5. ASSUME NEW i \in 1..b, i # k, \A j \in 1..(i - 1) : t[j] = u[j] PROVE t[i] = u[i]
  <2>1. i < k => i \in 1..(k - 1)
    BY <1>2
  <2>2. ~(k < i)
    <3>1. k < i => k \in 1..(i - 1)
      BY <1>2
    <3>. QED BY ONLY <1>5, <3>1, t[k] # u[k]
  <2>3. i < k
    BY ONLY <1>2, <1>5, <2>2, i \in 1..b, k \in Nat \ {0}
  <2>. QED BY ONLY <2>1, <2>3, \A j \in 1..(k - 1) : t[j] = u[j]
<1>6. k \in 1..b
  BY <1>2
<1>7. Precedes(t, u) <=> Code[t[k]] < Code[u[k]]
  <2>1. ASSUME Precedes(t, u) PROVE Code[t[k]] < Code[u[k]]
    <3>1. PICK i \in 1..b : Code[t[i]] < Code[u[i]] /\ \A j \in 1..(i - 1) : t[j] = u[j]
      BY <1>2, <2>1 DEF Precedes
    <3>2. i = k
      <4>1. t[i] # u[i]
        BY ONLY <1>3, <3>1, i \in 1..b
      <4>. QED BY ONLY <1>5, <3>1, <4>1, i \in 1..b
    <3>. QED BY ONLY <3>1, <3>2
  <2>2. ASSUME Code[t[k]] < Code[u[k]] PROVE Precedes(t, u)
    BY ONLY <1>2, <1>6, <2>2, \A j \in 1..(k - 1) : t[j] = u[j] DEF Precedes
  <2>. QED BY <2>1, <2>2
<1>8. Precedes(u, t) <=> Code[u[k]] < Code[t[k]]
  <2>0. b = Min({Len(u), Len(t)})
    <3>1. {Len(u), Len(t)} = {Len(t), Len(u)}
      OBVIOUS
    <3>. QED BY ONLY <1>2, <3>1
  <2>1. ASSUME Precedes(u, t) PROVE Code[u[k]] < Code[t[k]]
    <3>1. PICK i \in 1..b : Code[u[i]] < Code[t[i]] /\ \A j \in 1..(i - 1) : u[j] = t[j]
      BY <2>0, <2>1 DEF Precedes
    <3>2. i = k
      <4>1. t[i] # u[i] /\ \A j \in 1..(i - 1) : t[j] = u[j]
        BY ONLY <1>3, <3>1, i \in 1..b
      <4>. QED BY ONLY <1>5, <4>1, i \in 1..b
    <3>. QED BY ONLY <3>1, <3>2
  <2>2. ASSUME Code[u[k]] < Code[t[k]] PROVE Precedes(u, t)
    BY ONLY <2>0, <1>6, <2>2, \A j \in 1..(k - 1) : t[j] = u[j] DEF Precedes
  <2>. QED BY <2>1, <2>2
<1>. QED BY ONLY <1>4, <1>7, <1>8 DEF Compared, Sign, Order

LEMMA ComparedSame ==
  ASSUME NEW t \in Seq(Char)
  PROVE  Compared(t, t) = 0
<1>1. ~Precedes(t, t)
  <2>1. Min({Len(t), Len(t)}) = Len(t)
    <3>1. Len(t) \in Int
      OBVIOUS
    <3>. QED BY ONLY <3>1, LesserIs
  <2>2. \A i \in 1..Len(t) : Code[t[i]] \in Int
    BY CharsAre
  <2>3. Precedes(t, t) => \E i \in 1..Len(t) : Code[t[i]] < Code[t[i]]
    <3>. DEFINE L == Min({Len(t), Len(t)})
    <3>1. Precedes(t, t) => \E i \in 1..L : Code[t[i]] < Code[t[i]]
      BY DEF Precedes
    <3>2. L = Len(t)
      BY <2>1
    <3>. HIDE DEF L
    <3>. QED BY ONLY <3>1, <3>2
  <2>. QED BY ONLY <2>2, <2>3
<1>. QED BY <1>1 DEF Compared

\* What a comparison compares by: the characters, or those tolower gives.
Same == [c \in Char |-> c]
Mapping(g) == g \in [Char -> Char] /\ \A c \in Char : g[c] = "nul" <=> c = "nul"
Under(g, t) == [i \in DOMAIN t |-> g[t[i]]]
Stops(m, a, b, g, j) == At(m, a + j) = "nul" \/ g[At(m, a + j)] # g[At(m, b + j)]

LEMMA Mappings == Mapping(Same) /\ Mapping(tolower)
<1>1. Mapping(Same)
  <2>1. \A c \in Char : Same[c] = c
    BY DEF Same
  <2>2. Same \in [Char -> Char]
    BY DEF Same
  <2>. QED BY ONLY <2>1, <2>2 DEF Mapping
<1>2. tolower \in [Char -> Char]
  BY CharsAre DEF tolower
<1>3. ASSUME NEW c \in Char PROVE tolower[c] = "nul" <=> c = "nul"
  <2>1. CASE c \in isupper
    <3>1. Code[c] \in 65..90
      BY <2>1 DEF isupper, WithCodes
    <3>2. c # "nul"
      BY <3>1, CharsAre
    <3>3. PICK i \in 66..91 : i = Code[c] + 32 - 31
      BY ONLY <3>1
    <3>4. Printable[i] # "nul"
      <4>1. \/ i = 66 \/ i = 67 \/ i = 68 \/ i = 69 \/ i = 70 \/ i = 71 \/ i = 72 \/ i = 73 \/ i = 74
            \/ i = 75 \/ i = 76 \/ i = 77 \/ i = 78 \/ i = 79 \/ i = 80 \/ i = 81 \/ i = 82 \/ i = 83
            \/ i = 84 \/ i = 85 \/ i = 86 \/ i = 87 \/ i = 88 \/ i = 89 \/ i = 90 \/ i = 91
        OBVIOUS
      <4>2. /\ Printable[66] # "nul" /\ Printable[67] # "nul" /\ Printable[68] # "nul" /\ Printable[69] # "nul"
            /\ Printable[70] # "nul" /\ Printable[71] # "nul" /\ Printable[72] # "nul" /\ Printable[73] # "nul"
            /\ Printable[74] # "nul" /\ Printable[75] # "nul" /\ Printable[76] # "nul" /\ Printable[77] # "nul"
            /\ Printable[78] # "nul" /\ Printable[79] # "nul" /\ Printable[80] # "nul" /\ Printable[81] # "nul"
            /\ Printable[82] # "nul" /\ Printable[83] # "nul" /\ Printable[84] # "nul" /\ Printable[85] # "nul"
            /\ Printable[86] # "nul" /\ Printable[87] # "nul" /\ Printable[88] # "nul" /\ Printable[89] # "nul"
            /\ Printable[90] # "nul" /\ Printable[91] # "nul"
        BY DEF Printable
      <4>. QED BY ONLY <4>1, <4>2
    <3>5. tolower[c] = Printable[i]
      BY ONLY <2>1, <3>3, c \in Char DEF tolower, Shifted
    <3>. QED BY <3>2, <3>4, <3>5
  <2>2. CASE c \notin isupper
    BY <2>2 DEF tolower
  <2>. QED BY <2>1, <2>2
<1>. QED BY <1>1, <1>2, <1>3 DEF Mapping

LEMMA AtType == ASSUME NEW m \in Seq(Char), NEW i \in Int PROVE At(m, i) \in Char
<1>1. "nul" \in Char
  BY CharsAre
<1>. QED BY <1>1 DEF At

\* t is what stands at a, to its terminator and no more than n of it.
Shown(m, a, t, n) ==
  /\ a \in Nat \ {0} /\ n \in Nat /\ t \in Seq(Char) /\ Len(t) \in Nat /\ Len(t) <= n
  /\ \A j \in 1..Len(t) : t[j] = At(m, a + j - 1)
  /\ Len(t) < n => Len(t) >= 1 /\ At(m, a + Len(t) - 1) = "nul"
  /\ \A j \in 0..(Len(t) - 2) : At(m, a + j) # "nul"

LEMMA Comparison ==
  ASSUME NEW m \in Seq(Char), NEW a, NEW b, NEW t, NEW u, NEW n, Shown(m, a, t, n), Shown(m, b, u, n),
         NEW g, Mapping(g), NEW k, k = Min({j \in 0..n : j = n \/ Stops(m, a, b, g, j)})
  PROVE  Sign(IF k = n THEN 0 ELSE Order(g[At(m, a + k)], g[At(m, b + k)])) = Compared(Under(g, t), Under(g, u))
<1>. DEFINE S == {j \in 0..n : j = n \/ Stops(m, a, b, g, j)}
            x(j) == At(m, a + j)
            y(j) == At(m, b + j)
<1>1. /\ a \in Nat \ {0} /\ n \in Nat /\ t \in Seq(Char) /\ Len(t) \in Nat /\ Len(t) <= n
      /\ \A j \in 1..Len(t) : t[j] = At(m, a + j - 1)
      /\ Len(t) < n => Len(t) >= 1 /\ At(m, a + Len(t) - 1) = "nul"
      /\ \A j \in 0..(Len(t) - 2) : x(j) # "nul"
  BY DEF Shown
<1>2. /\ b \in Nat \ {0} /\ u \in Seq(Char) /\ Len(u) \in Nat /\ Len(u) <= n
      /\ \A j \in 1..Len(u) : u[j] = At(m, b + j - 1)
      /\ Len(u) < n => Len(u) >= 1 /\ At(m, b + Len(u) - 1) = "nul"
      /\ \A j \in 0..(Len(u) - 2) : y(j) # "nul"
  BY DEF Shown
<1>3. \A j \in Nat : x(j) \in Char /\ y(j) \in Char
  BY <1>1, <1>2, AtType
<1>4. g \in [Char -> Char] /\ \A c \in Char : g[c] = "nul" <=> c = "nul"
  BY DEF Mapping
<1>5. k \in Nat /\ k \in S /\ \A j \in S : k <= j
  <2>1. S \subseteq Nat /\ n \in S
    BY <1>1
  <2>. HIDE DEF S
  <2>2. Min(S) \in S /\ Min(S) \in Nat /\ \A j \in S : Min(S) <= j
    BY ONLY <2>1, LeastExists
  <2>3. k = Min(S)
    BY DEF S
  <2>. QED BY ONLY <2>2, <2>3
<1>6. k <= n /\ (k = n \/ x(k) = "nul" \/ g[x(k)] # g[y(k)])
  BY <1>1, <1>5 DEF Stops
<1>7. ASSUME NEW j \in 0..(k - 1) PROVE x(j) # "nul" /\ y(j) # "nul" /\ g[x(j)] = g[y(j)] /\ j \in Nat
  <2>1. j \in 0..n /\ j # n /\ ~(k <= j) /\ j \in Nat
    BY <1>1, <1>5, <1>6
  <2>2. ~Stops(m, a, b, g, j)
    BY ONLY <1>5, <2>1
  <2>3. x(j) # "nul" /\ g[x(j)] = g[y(j)]
    BY ONLY <2>2 DEF Stops
  <2>. QED BY ONLY <1>3, <1>4, <2>1, <2>3
<1>. HIDE DEF S
<1>8. k <= Len(t) /\ (k < n => k + 1 <= Len(t))
  <2>1. ASSUME Len(t) <= k, Len(t) < n PROVE FALSE
    <3>1. Len(t) - 1 \in 0..(k - 1) /\ a + (Len(t) - 1) = a + Len(t) - 1
      BY <1>1, <1>5, <2>1
    <3>2. x(Len(t) - 1) = "nul"
      BY ONLY <1>1, <2>1, <3>1
    <3>. QED BY ONLY <1>7, <3>1, <3>2
  <2>. HIDE DEF x
  <2>. QED BY ONLY <1>1, <1>5, <1>6, <2>1
<1>9. k <= Len(u) /\ (k < n => k + 1 <= Len(u))
  <2>1. ASSUME Len(u) <= k, Len(u) < n PROVE FALSE
    <3>1. Len(u) - 1 \in 0..(k - 1) /\ b + (Len(u) - 1) = b + Len(u) - 1
      BY <1>2, <1>5, <2>1
    <3>2. y(Len(u) - 1) = "nul"
      BY ONLY <1>2, <2>1, <3>1
    <3>. QED BY ONLY <1>7, <3>1, <3>2
  <2>. HIDE DEF y
  <2>. QED BY ONLY <1>1, <1>2, <1>5, <1>6, <2>1
<1>. DEFINE p == Under(g, t)
            q == Under(g, u)
<1>10. /\ p \in Seq(Char) /\ Len(p) = Len(t) /\ q \in Seq(Char) /\ Len(q) = Len(u)
       /\ \A j \in 1..Len(t) : p[j] = g[x(j - 1)]
       /\ \A j \in 1..Len(u) : q[j] = g[y(j - 1)]
  <2>1. /\ p = [j \in 1..Len(t) |-> g[t[j]]] /\ q = [j \in 1..Len(u) |-> g[u[j]]]
        /\ (\A j \in 1..Len(t) : t[j] \in Char) /\ \A j \in 1..Len(u) : u[j] \in Char
    BY <1>1, <1>2 DEF Under
  <2>2. (\A j \in 1..Len(t) : g[t[j]] \in Char) /\ \A j \in 1..Len(u) : g[u[j]] \in Char
    BY ONLY <1>4, <2>1
  <2>3. (\A j \in 1..Len(t) : a + (j - 1) = a + j - 1) /\ \A j \in 1..Len(u) : b + (j - 1) = b + j - 1
    BY ONLY <1>1, <1>2
  <2>4. (\A j \in 1..Len(t) : t[j] = x(j - 1)) /\ \A j \in 1..Len(u) : u[j] = y(j - 1)
    BY ONLY <1>1, <1>2, <2>3
  <2>. HIDE DEF p, q, x, y
  <2>5. p \in Seq(Char) /\ Len(p) = Len(t) /\ q \in Seq(Char) /\ Len(q) = Len(u)
    BY ONLY <1>1, <1>2, <2>1, <2>2
  <2>6. (\A j \in 1..Len(t) : p[j] = g[t[j]]) /\ \A j \in 1..Len(u) : q[j] = g[u[j]]
    BY ONLY <2>1
  <2>. QED BY ONLY <2>4, <2>5, <2>6
<1>11. ASSUME NEW j \in 1..k PROVE p[j] = q[j]
  <2>1. j - 1 \in 0..(k - 1) /\ j \in 1..Len(t) /\ j \in 1..Len(u)
    <3>1. k \in Nat /\ Len(t) \in Nat /\ Len(u) \in Nat /\ k <= Len(t) /\ k <= Len(u)
      BY ONLY <1>1, <1>2, <1>5, <1>8, <1>9
    <3>. QED BY ONLY <3>1, j \in 1..k
  <2>. QED BY ONLY <1>7, <1>10, <2>1
<1>12. k < n => p[k + 1] = g[x(k)] /\ q[k + 1] = g[y(k)]
  <2>1. k < n => k + 1 \in 1..Len(t) /\ k + 1 \in 1..Len(u) /\ (k + 1) - 1 = k
    BY ONLY <1>1, <1>2, <1>5, <1>8, <1>9
  <2>. HIDE DEF p, q
  <2>. QED BY ONLY <1>10, <2>1
<1>13. g[x(k)] \in Char /\ Code[g[x(k)]] \in Int
  <2>1. g[x(k)] \in Char
    BY ONLY <1>3, <1>4, <1>5
  <2>. QED BY ONLY <2>1, CharsAre
<1>. HIDE DEF p, q
<1>14. CASE k = n
  <2>1. Len(t) = n /\ Len(u) = n /\ k = n
    BY ONLY <1>1, <1>2, <1>8, <1>9, <1>14
  <2>2. p = q
    <3>1. \A j \in 1..n : p[j] = q[j]
      BY ONLY <1>11, <2>1
    <3>2. p \in Seq(Char) /\ Len(p) = n /\ q \in Seq(Char) /\ Len(q) = n
      BY ONLY <1>10, <2>1
    <3>. QED BY ONLY <3>1, <3>2, SeqEqual
  <2>3. Compared(p, q) = 0
    BY ONLY <1>10, <2>2, ComparedSame
  <2>. QED BY <1>14, <2>3 DEF Sign, p, q
<1>15. CASE k < n /\ g[x(k)] # g[y(k)]
  <2>1. k + 1 \in Nat \ {0} /\ k + 1 <= Len(p) /\ k + 1 <= Len(q) /\ (k + 1) - 1 = k
    <3>1. k \in Nat /\ k + 1 <= Len(t) /\ k + 1 <= Len(u) /\ Len(p) = Len(t) /\ Len(q) = Len(u)
      BY ONLY <1>5, <1>8, <1>9, <1>10, <1>15
    <3>. QED BY ONLY <3>1
  <2>2. \A j \in 1..((k + 1) - 1) : p[j] = q[j]
    BY ONLY <1>11, <2>1
  <2>3. p[k + 1] # q[k + 1]
    BY ONLY <1>12, <1>15
  <2>4. Compared(p, q) = Sign(Order(p[k + 1], q[k + 1]))
    BY ONLY <1>10, <2>1, <2>2, <2>3, ComparedDiffer
  <2>5. k # n
    BY ONLY <1>5, <1>15
  <2>. QED BY <1>12, <1>15, <2>4, <2>5 DEF p, q
<1>16. CASE k < n /\ g[x(k)] = g[y(k)]
  <2>1. x(k) = "nul" /\ y(k) = "nul" /\ k # n
    BY ONLY <1>1, <1>3, <1>4, <1>5, <1>6, <1>16
  <2>2. Len(t) = k + 1 /\ Len(u) = k + 1
    <3>1. ~(k \in 0..(Len(t) - 2)) /\ ~(k \in 0..(Len(u) - 2))
      BY ONLY <1>1, <1>2, <2>1
    <3>. QED BY ONLY <1>1, <1>2, <1>5, <1>8, <1>9, <1>16, <3>1
  <2>3. p = q
    <3>1. \A j \in 1..(k + 1) : j \in 1..k \/ j = k + 1
      BY ONLY <1>5
    <3>2. \A j \in 1..(k + 1) : p[j] = q[j]
      BY ONLY <1>11, <1>12, <1>16, <3>1
    <3>. QED BY ONLY <1>10, <2>2, <3>2, SeqEqual
  <2>4. Compared(p, q) = 0
    BY ONLY <1>10, <2>3, ComparedSame
  <2>5. Order(g[x(k)], g[y(k)]) = 0
    BY ONLY <1>13, <1>16 DEF Order
  <2>. QED BY <2>1, <2>4, <2>5 DEF Sign, p, q
<1>17. k = n \/ k < n
  BY ONLY <1>1, <1>5, <1>6
<1>. QED BY ONLY <1>14, <1>15, <1>16, <1>17

LEMMA TextShown ==
  ASSUME NEW m \in Seq(Char), NEW a \in Nat \ {0}, HasText(m, a), NEW n \in Nat, strlen(m, a) < n
  PROVE  Shown(m, a, Ended(TextAt(m, a)), n)
<1>. DEFINE t == TextAt(m, a)
            k == strlen(m, a)
            w == Ended(t)
<1>1. /\ k \in Nat /\ a + k <= Len(m) /\ m[a + k] = "nul" /\ t \in Seq(Char) /\ Len(t) = k
      /\ (\A j \in 1..k : t[j] = m[a + j - 1]) /\ \A j \in 1..k : t[j] # "nul"
  BY TextParts
<1>. HIDE DEF t, k
<1>2. w \in Seq(Char) /\ Len(w) = k + 1 /\ (\A j \in 1..k : w[j] = t[j]) /\ w[k + 1] = "nul"
  BY <1>1, CharsAre DEF Ended
<1>. HIDE DEF w
<1>3. \A i \in a..(a + k) : At(m, i) = m[i]
  <2>1. \A i \in a..(a + k) : i \in Int /\ i \in 1..Len(m)
    BY <1>1
  <2>. QED BY ONLY <2>1, m \in Seq(Char), AtIs
<1>4. ASSUME NEW j \in 1..(k + 1) PROVE w[j] = At(m, a + j - 1)
  <2>1. a + j - 1 \in a..(a + k)
    BY <1>1
  <2>2. CASE j = k + 1
    <3>1. a + j - 1 = a + k
      BY <1>1, <2>2
    <3>. QED BY ONLY <1>1, <1>2, <1>3, <2>1, <2>2, <3>1
  <2>3. CASE j # k + 1
    <3>1. j \in 1..k
      BY <1>1, <2>3
    <3>. QED BY ONLY <1>1, <1>2, <1>3, <2>1, <3>1
  <2>. QED BY <2>2, <2>3
<1>5. ASSUME NEW j \in 0..((k + 1) - 2) PROVE At(m, a + j) # "nul"
  <2>1. j + 1 \in 1..k /\ a + (j + 1) - 1 = a + j /\ a + j \in a..(a + k)
    BY <1>1
  <2>2. t[j + 1] = m[a + (j + 1) - 1] /\ t[j + 1] # "nul"
    BY ONLY <1>1, <2>1
  <2>. QED BY ONLY <1>3, <2>1, <2>2
<1>6. Len(w) \in Nat /\ Len(w) <= n /\ Len(w) >= 1 /\ a + Len(w) - 1 = a + k /\ a + k \in a..(a + k)
  BY <1>1, <1>2 DEF k
<1>7. At(m, a + Len(w) - 1) = "nul"
  BY ONLY <1>1, <1>3, <1>6
<1>8. \A j \in 0..(Len(w) - 2) : At(m, a + j) # "nul"
  BY ONLY <1>2, <1>5
<1>9. \A j \in 1..Len(w) : w[j] = At(m, a + j - 1)
  BY ONLY <1>2, <1>4
<1>. QED BY ONLY <1>2, <1>6, <1>7, <1>8, <1>9, a \in Nat \ {0}, n \in Nat DEF Shown, w, t

LEMMA AtMostShown ==
  ASSUME NEW m \in Seq(Char), NEW a, NEW n, Bounded(m, a, n)
  PROVE  Shown(m, a, AtMost(m, a, n), n)
<1>1. a \in Nat \ {0} /\ n \in Nat /\ a <= Len(m) /\ Len(m) \in Nat /\ (HasText(m, a) \/ a + n - 1 <= Len(m))
  BY DEF Bounded
<1>2. PICK k \in Nat : /\ k = Converted(m, a, n) /\ k <= n /\ a + k - 1 <= Len(m)
                       /\ \A j \in 0..(k - 1) : m[a + j] # "nul"
                       /\ k < n => a + k <= Len(m) /\ m[a + k] = "nul"
  BY ONLY <1>1, m \in Seq(Char), ShortenedIs
<1>3. PICK z \in Nat : z = Min({n, Len(m) - a + 1}) /\ a + z - 1 <= Len(m) /\ z <= n /\ (k < n => k < z) /\ (k = n => z = n)
  <2>1. n \in Int /\ Len(m) - a + 1 \in Int
    BY <1>1
  <2>2. CASE n <= Len(m) - a + 1
    <3>1. Min({n, Len(m) - a + 1}) = n
      BY ONLY <2>1, <2>2, LesserIs
    <3>. QED BY ONLY <1>1, <1>2, <2>2, <3>1, k \in Nat
  <2>3. CASE Len(m) - a + 1 <= n
    <3>1. Min({n, Len(m) - a + 1}) = Len(m) - a + 1
      BY ONLY <2>1, <2>3, LesserIs
    <3>2. PICK x \in Nat : x = Len(m) - a + 1
      BY <1>1
    <3>3. a + x - 1 <= Len(m) /\ x <= n /\ (k < n => k < x) /\ (k = n => x = n)
      <4>1. (k < n => a + k <= Len(m)) /\ a + k - 1 <= Len(m) /\ a \in Nat /\ Len(m) \in Nat /\ n \in Nat
        BY ONLY <1>1, <1>2
      <4>. QED BY ONLY <2>3, <3>2, <4>1, k \in Nat, x \in Nat
    <3>. QED BY ONLY <3>1, <3>2, <3>3, x \in Nat
  <2>4. n <= Len(m) - a + 1 \/ Len(m) - a + 1 <= n
    BY ONLY <2>1
  <2>. QED BY ONLY <2>2, <2>3, <2>4
<1>. DEFINE w == Within(m, a, n)
            v == AtMost(m, a, n)
            L == IF k < n THEN k + 1 ELSE n
<1>4. w \in Seq(Char) /\ Len(w) = z /\ \A j \in 1..z : w[j] = m[a + j - 1]
  <2>1. w = Cells(m, a, z)
    BY ONLY <1>3 DEF Within
  <2>2. a \in Nat \ {0} /\ a + z - 1 <= Len(m)
    BY ONLY <1>1, <1>3
  <2>3. /\ Cells(m, a, z) \in Seq(Char) /\ Len(Cells(m, a, z)) = z
        /\ \A j \in 1..z : Cells(m, a, z)[j] = m[a + j - 1]
    BY ONLY <2>2, m \in Seq(Char), z \in Nat, CellsAre
  <2>. QED BY ONLY <2>1, <2>3
<1>5. v = IF "nul" \in ToSet(w) THEN First(w, Min({i \in DOMAIN w : w[i] = "nul"})) ELSE w
  BY DEF AtMost, UpToEnd
<1>. HIDE DEF w, v
<1>6. L \in Nat /\ L <= n /\ L <= z /\ (L < n => L >= 1) /\ a + L - 1 <= Len(m)
  BY ONLY <1>1, <1>2, <1>3, k \in Nat, z \in Nat
<1>7. ASSUME NEW j \in 1..z, j <= k PROVE w[j] # "nul"
  <2>1. j - 1 \in 0..(k - 1) /\ a + (j - 1) = a + j - 1
    BY ONLY <1>1, <1>7, j \in 1..z, k \in Nat, z \in Nat
  <2>. QED BY ONLY <1>2, <1>4, <2>1, j \in 1..z
<1>8. DOMAIN w = 1..z
  BY <1>4
<1>9. v \in Seq(Char) /\ Len(v) = L /\ \A j \in 1..L : v[j] = w[j]
  <2>1. CASE k < n
    <3>1. k + 1 \in 1..z /\ a + (k + 1) - 1 = a + k /\ k + 1 \in Int
      BY ONLY <1>1, <1>3, <2>1, k \in Nat, z \in Nat
    <3>2. w[k + 1] = "nul"
      BY ONLY <1>2, <1>4, <2>1, <3>1
    <3>3. "nul" \in ToSet(w)
      BY ONLY <1>8, <3>1, <3>2 DEF ToSet
    <3>4. Min({i \in DOMAIN w : w[i] = "nul"}) = k + 1
      <4>. DEFINE S == {i \in DOMAIN w : w[i] = "nul"}
      <4>1. k + 1 \in S /\ \A i \in S : i \in Int
        BY ONLY <1>8, <3>1, <3>2
      <4>2. \A i \in S : k + 1 <= i
        <5>1. \A i \in 1..z : i <= k \/ k + 1 <= i
          BY ONLY k \in Nat
        <5>. QED BY ONLY <1>7, <1>8, <5>1
      <4>. HIDE DEF S
      <4>3. Min(S) = k + 1
        BY ONLY <4>1, <4>2, LeastIs
      <4>. QED BY <4>3 DEF S
    <3>5. v = SubSeq(w, 1, k + 1)
      <4>1. Min({k + 1, Len(w)}) = k + 1
        <5>1. Len(w) \in Int /\ k + 1 <= Len(w)
          BY ONLY <1>4, <3>1, z \in Nat
        <5>. QED BY ONLY <3>1, <5>1, LesserIs
      <4>. QED BY ONLY <1>5, <3>3, <3>4, <4>1 DEF First
    <3>6. 1 \in Int /\ (k + 1) - 1 + 1 = k + 1 /\ (IF 1 <= k + 1 THEN (k + 1) - 1 + 1 ELSE 0) = k + 1
          /\ \A i \in 1..(k + 1) : 1 + i - 1 = i
      BY ONLY k \in Nat
    <3>7. \A i \in 1..(k + 1) : w[i] \in Char
      BY ONLY <1>4, <3>1, k \in Nat, z \in Nat
    <3>8. /\ SubSeq(w, 1, k + 1) \in Seq(Char)
          /\ Len(SubSeq(w, 1, k + 1)) = (IF 1 <= k + 1 THEN (k + 1) - 1 + 1 ELSE 0)
          /\ \A i \in 1..((k + 1) - 1 + 1) : SubSeq(w, 1, k + 1)[i] = w[1 + i - 1]
      BY ONLY <3>1, <3>6, <3>7, SubSeqProperties
    <3>9. L = k + 1
      BY <2>1
    <3>. HIDE DEF L
    <3>. QED BY ONLY <3>5, <3>6, <3>8, <3>9
  <2>2. CASE ~(k < n)
    <3>1. k = n /\ z = n /\ L = n
      BY ONLY <1>1, <1>2, <1>3, <2>2, k \in Nat
    <3>2. "nul" \notin ToSet(w)
      <4>1. \A j \in 1..z : j <= k
        BY ONLY <3>1
      <4>. QED BY ONLY <1>7, <1>8, <4>1 DEF ToSet
    <3>. QED BY ONLY <1>4, <1>5, <3>1, <3>2
  <2>. QED BY <2>1, <2>2
<1>10. \A j \in 1..L : j \in 1..z /\ a + j - 1 \in 1..Len(m) /\ a + j - 1 \in Int
  BY ONLY <1>1, <1>6, z \in Nat
<1>11. \A j \in 1..L : w[j] = At(m, a + j - 1)
  BY ONLY <1>4, <1>10, m \in Seq(Char), AtIs
<1>12. L < n => L >= 1 /\ At(m, a + L - 1) = "nul"
  <2>. SUFFICES ASSUME L < n PROVE L >= 1 /\ At(m, a + L - 1) = "nul"
    OBVIOUS
  <2>1. L = k + 1 /\ L \in 1..L /\ k < n /\ a + L - 1 = a + k
    BY ONLY <1>1, <1>2, k \in Nat, L < n
  <2>. HIDE DEF L
  <2>2. a + L - 1 \in 1..Len(m) /\ a + L - 1 \in Int
    BY ONLY <1>10, <2>1
  <2>3. At(m, a + L - 1) = m[a + k]
    BY ONLY <2>1, <2>2, m \in Seq(Char), AtIs
  <2>4. L >= 1
    BY ONLY <2>1, k \in Nat
  <2>. QED BY ONLY <1>2, <2>1, <2>3, <2>4
<1>13. \A j \in 0..(L - 2) : At(m, a + j) # "nul"
  <2>. SUFFICES ASSUME NEW j \in 0..(L - 2) PROVE At(m, a + j) # "nul"
    OBVIOUS
  <2>1. j + 1 \in 1..L /\ j + 1 \in 1..z /\ j + 1 <= k /\ a + (j + 1) - 1 = a + j
    BY ONLY <1>1, <1>2, <1>6, k \in Nat, z \in Nat, j \in 0..(L - 2)
  <2>. HIDE DEF L
  <2>. QED BY ONLY <1>7, <1>11, <2>1
<1>. HIDE DEF L
<1>14. \A j \in 1..L : v[j] = At(m, a + j - 1)
  BY ONLY <1>9, <1>11
<1>15. Shown(m, a, v, n)
  BY ONLY <1>1, <1>6, <1>9, <1>12, <1>13, <1>14 DEF Shown
<1>. QED BY <1>15 DEF v

\* t, of L characters, is the text at a.
Reads(m, a, t, L) ==
  /\ a \in Nat \ {0} /\ L \in Nat /\ t \in Seq(Char) /\ Len(t) = L /\ m \in Seq(Char) /\ a + L <= Len(m)
  /\ \A j \in 0..(L - 1) : At(m, a + j) = t[j + 1] /\ t[j + 1] # "nul"
  /\ At(m, a + L) = "nul"

LEMMA TextReads ==
  ASSUME NEW m \in Seq(Char), NEW a \in Nat \ {0}, HasText(m, a)
  PROVE  Reads(m, a, TextAt(m, a), strlen(m, a))
<1>. DEFINE t == TextAt(m, a)
            L == strlen(m, a)
<1>1. /\ L \in Nat /\ a + L <= Len(m) /\ m[a + L] = "nul" /\ t \in Seq(Char) /\ Len(t) = L
      /\ \A j \in 1..L : t[j] = m[a + j - 1] /\ t[j] # "nul"
  BY TextParts
<1>. HIDE DEF t, L
<1>2. \A j \in 0..L : a + j \in Int /\ a + j \in 1..Len(m)
  <2>1. Len(m) \in Nat
    OBVIOUS
  <2>. QED BY ONLY <1>1, <2>1, a \in Nat \ {0}
<1>3. \A j \in 0..L : At(m, a + j) = m[a + j]
  BY ONLY <1>2, m \in Seq(Char), AtIs
<1>4. ASSUME NEW j \in 0..(L - 1) PROVE At(m, a + j) = t[j + 1] /\ t[j + 1] # "nul"
  <2>1. j \in 0..L /\ j + 1 \in 1..L /\ a + (j + 1) - 1 = a + j
    BY ONLY <1>1, a \in Nat \ {0}, j \in 0..(L - 1)
  <2>2. t[j + 1] = m[a + (j + 1) - 1] /\ t[j + 1] # "nul"
    BY ONLY <1>1, <2>1
  <2>. QED BY ONLY <1>3, <2>1, <2>2
<1>5. L \in 0..L
  BY ONLY <1>1
<1>6. At(m, a + L) = "nul"
  BY ONLY <1>1, <1>3, <1>5
<1>7. Reads(m, a, t, L)
  BY ONLY <1>1, <1>4, <1>6, a \in Nat \ {0}, m \in Seq(Char) DEF Reads
<1>. QED BY <1>7 DEF t, L

\* A comparison that ends at a terminator.
LEMMA UntilEnd ==
  ASSUME NEW m \in Seq(Char), NEW a \in Nat \ {0}, NEW b \in Nat \ {0}, HasText(m, a), HasText(m, b),
         NEW g, Mapping(g), NEW k, k = Min({j \in 0..strlen(m, a) : Stops(m, a, b, g, j)})
  PROVE  Sign(Order(g[At(m, a + k)], g[At(m, b + k)]))
           = Compared(Under(g, Ended(TextAt(m, a))), Under(g, Ended(TextAt(m, b))))
<1>. DEFINE L == strlen(m, a)
            n == L + strlen(m, b) + 1
            S == {j \in 0..L : Stops(m, a, b, g, j)}
            T == {j \in 0..n : j = n \/ Stops(m, a, b, g, j)}
            t == Ended(TextAt(m, a))
            u == Ended(TextAt(m, b))
<1>1. L \in Nat /\ strlen(m, b) \in Nat /\ At(m, a + L) = "nul"
  BY TextReads DEF Reads
<1>2. n \in Nat /\ L < n /\ strlen(m, b) < n
  BY <1>1
<1>3. Shown(m, a, t, n) /\ Shown(m, b, u, n)
  <2>. HIDE DEF n
  <2>. QED BY <1>2, TextShown
<1>4. L \in S /\ S \subseteq Nat
  <2>1. Stops(m, a, b, g, L) /\ L \in 0..L
    BY <1>1 DEF Stops
  <2>2. S \subseteq Nat
    BY <1>1
  <2>. QED BY <2>1, <2>2
<1>5. k \in S /\ k \in Nat /\ \A j \in S : k <= j
  <2>1. k = Min(S)
    OBVIOUS
  <2>. HIDE DEF S
  <2>2. S # {}
    BY <1>4
  <2>. QED BY ONLY <1>4, <2>1, <2>2, LeastExists
<1>6. k <= L /\ Stops(m, a, b, g, k)
  BY <1>1, <1>5
<1>. HIDE DEF L, n
<1>7. k \in T /\ \A j \in T : k <= j /\ j \in Int
  <2>1. k \in T
    BY ONLY <1>1, <1>2, <1>5, <1>6 DEF T
  <2>2. ASSUME NEW j \in T PROVE k <= j /\ j \in Int
    <3>1. j \in 0..n /\ (j = n \/ Stops(m, a, b, g, j))
      BY ONLY <2>2 DEF T
    <3>2. CASE j <= L /\ Stops(m, a, b, g, j)
      <4>1. j \in 0..L /\ j \in Int
        BY ONLY <1>1, <1>2, <3>1, <3>2
      <4>. QED BY ONLY <1>5, <3>2, <4>1 DEF S
    <3>3. CASE j = n \/ ~(j <= L)
      BY ONLY <1>1, <1>2, <1>5, <1>6, <3>1, <3>3
    <3>. QED BY ONLY <3>1, <3>2, <3>3
  <2>. QED BY ONLY <2>1, <2>2
<1>8. k = Min(T)
  <2>. HIDE DEF T
  <2>. QED BY ONLY <1>7, LeastIs
<1>9. Sign(IF k = n THEN 0 ELSE Order(g[At(m, a + k)], g[At(m, b + k)])) = Compared(Under(g, t), Under(g, u))
  <2>. HIDE DEF t, u
  <2>. QED BY ONLY <1>3, <1>8, m \in Seq(Char), Mapping(g), Comparison DEF T
<1>10. k # n
  BY ONLY <1>1, <1>2, <1>5, <1>6
<1>. QED BY <1>9, <1>10

LEMMA SameIs ==
  /\ \A c \in Char : Same[c] = c
  /\ \A t \in Seq(Char) : Under(Same, t) = t
<1>1. \A c \in Char : Same[c] = c
  BY DEF Same
<1>2. ASSUME NEW t \in Seq(Char) PROVE Under(Same, t) = t
  <2>1. t = [i \in DOMAIN t |-> t[i]] /\ \A i \in DOMAIN t : t[i] \in Char
    OBVIOUS
  <2>. QED BY ONLY <1>1, <2>1 DEF Under
<1>. QED BY <1>1, <1>2

\* Where the comparisons stop.
LEMMA StopsAre ==
  ASSUME NEW m \in Seq(Char), NEW a \in Nat, NEW b \in Nat, NEW j \in Nat
  PROVE  /\ At(m, a + j) \in Char /\ At(m, b + j) \in Char
         /\ Stops(m, a, b, Same, j) <=> Differs(m, a, b, j)
         /\ Stops(m, a, b, tolower, j) <=> (LowerOrder(At(m, a + j), At(m, b + j)) # 0 \/ At(m, a + j) = "nul")
<1>. DEFINE x == At(m, a + j)
            y == At(m, b + j)
<1>1. x \in Char /\ y \in Char
  BY AtType
<1>2. Same[x] = x /\ Same[y] = y
  BY <1>1, SameIs
<1>3. LowerOrder(x, y) # 0 <=> tolower[x] # tolower[y]
  <2>1. tolower[x] \in Char /\ tolower[y] \in Char
    BY <1>1, CharsAre
  <2>2. /\ Code[tolower[x]] \in Int /\ Code[tolower[y]] \in Int
        /\ Code[tolower[x]] = Code[tolower[y]] <=> tolower[x] = tolower[y]
    BY <2>1, CharsAre
  <2>. HIDE DEF x, y
  <2>. QED BY ONLY <2>2 DEF LowerOrder, Order
<1>4. Stops(m, a, b, Same, j) <=> (x = "nul" \/ x # y)
  BY <1>2 DEF Stops
<1>5. Differs(m, a, b, j) <=> (x = "nul" \/ x # y)
  BY DEF Differs
<1>6. Stops(m, a, b, tolower, j) <=> (x = "nul" \/ tolower[x] # tolower[y])
  BY DEF Stops
<1>. QED BY <1>1, <1>3, <1>4, <1>5, <1>6

LEMMA TextsCompare ==
  ASSUME NEW m \in Seq(Char), NEW a \in Nat \ {0}, NEW b \in Nat \ {0}, HasText(m, a), HasText(m, b)
  PROVE  LET t == Ended(TextAt(m, a))  u == Ended(TextAt(m, b))
         IN  /\ Sign(strcmp(m, a, b)) = Compared(t, u)
             /\ Sign(_stricmp(m, a, b)) = Compared(InLower(t), InLower(u))
<1>. DEFINE L == strlen(m, a)
            t == Ended(TextAt(m, a))
            u == Ended(TextAt(m, b))
            k == Min({j \in 0..L : Differs(m, a, b, j)})
            l == Min({j \in 0..L : LowerOrder(At(m, a + j), At(m, b + j)) # 0 \/ At(m, a + j) = "nul"})
<1>1. L \in Nat /\ At(m, a + L) = "nul"
  BY TextReads DEF Reads
<1>2. t \in Seq(Char) /\ u \in Seq(Char)
  <2>1. TextAt(m, a) \in Seq(Char) /\ TextAt(m, b) \in Seq(Char) /\ "nul" \in Char
    BY TextParts, CharsAre
  <2>. QED BY ONLY <2>1 DEF Ended
<1>3. {j \in 0..L : Differs(m, a, b, j)} = {j \in 0..L : Stops(m, a, b, Same, j)}
  <2>1. \A j \in 0..L : j \in Nat
    BY ONLY <1>1
  <2>2. \A j \in 0..L : Stops(m, a, b, Same, j) <=> Differs(m, a, b, j)
    BY <2>1, StopsAre
  <2>. HIDE DEF L
  <2>. QED BY ONLY <2>2
<1>4. {j \in 0..L : LowerOrder(At(m, a + j), At(m, b + j)) # 0 \/ At(m, a + j) = "nul"}
        = {j \in 0..L : Stops(m, a, b, tolower, j)}
  <2>1. \A j \in 0..L : j \in Nat
    BY ONLY <1>1
  <2>2. \A j \in 0..L : Stops(m, a, b, tolower, j)
                          <=> (LowerOrder(At(m, a + j), At(m, b + j)) # 0 \/ At(m, a + j) = "nul")
    BY <2>1, StopsAre
  <2>. HIDE DEF L
  <2>. QED BY ONLY <2>2
<1>5. Sign(Order(Same[At(m, a + k)], Same[At(m, b + k)])) = Compared(Under(Same, t), Under(Same, u))
  <2>1. k = Min({j \in 0..strlen(m, a) : Stops(m, a, b, Same, j)})
    BY <1>3
  <2>. HIDE DEF k
  <2>. QED BY <2>1, Mappings, UntilEnd
<1>6. Sign(Order(tolower[At(m, a + l)], tolower[At(m, b + l)])) = Compared(Under(tolower, t), Under(tolower, u))
  <2>1. l = Min({j \in 0..strlen(m, a) : Stops(m, a, b, tolower, j)})
    BY <1>4
  <2>. HIDE DEF l
  <2>. QED BY <2>1, Mappings, UntilEnd
<1>7. k \in Nat
  <2>. DEFINE S == {j \in 0..L : Differs(m, a, b, j)}
  <2>1. S \subseteq Nat /\ L \in S
    BY <1>1 DEF Differs
  <2>. HIDE DEF S
  <2>2. Min(S) \in Nat
    BY ONLY <2>1, LeastExists
  <2>. QED BY <2>2 DEF S
<1>8. Same[At(m, a + k)] = At(m, a + k) /\ Same[At(m, b + k)] = At(m, b + k)
  <2>. HIDE DEF k
  <2>1. At(m, a + k) \in Char /\ At(m, b + k) \in Char
    BY <1>7, StopsAre
  <2>. QED BY ONLY <2>1, SameIs
<1>9. Under(Same, t) = t /\ Under(Same, u) = u
  BY ONLY <1>2, SameIs
<1>10. strcmp(m, a, b) = Order(At(m, a + k), At(m, b + k))
  BY DEF strcmp
<1>11. _stricmp(m, a, b) = Order(tolower[At(m, a + l)], tolower[At(m, b + l)])
  BY DEF _stricmp, LowerOrder
<1>12. InLower(t) = Under(tolower, t) /\ InLower(u) = Under(tolower, u)
  BY DEF InLower, Under
<1>. HIDE DEF k, l, t, u
<1>13. Sign(strcmp(m, a, b)) = Compared(t, u) /\ Sign(_stricmp(m, a, b)) = Compared(InLower(t), InLower(u))
  BY ONLY <1>5, <1>6, <1>8, <1>9, <1>10, <1>11, <1>12
<1>. QED BY <1>13 DEF t, u

LEMMA SomeCompare ==
  ASSUME NEW m \in Seq(Char), NEW a, NEW b, NEW n, Bounded(m, a, n), Bounded(m, b, n)
  PROVE  LET t == AtMost(m, a, n)  u == AtMost(m, b, n)
         IN  /\ Sign(strncmp(m, a, b, n)) = Compared(t, u) /\ Sign(wcsncmp(m, a, b, n)) = Compared(t, u)
             /\ Sign(_strnicmp(m, a, b, n)) = Compared(InLower(t), InLower(u))
<1>. DEFINE t == AtMost(m, a, n)
            u == AtMost(m, b, n)
            S(g) == {j \in 0..n : j = n \/ Stops(m, a, b, g, j)}
            k == Min(S(Same))
            l == Min(S(tolower))
<1>1. a \in Nat /\ b \in Nat /\ n \in Nat
  BY DEF Bounded
<1>2. Shown(m, a, t, n) /\ Shown(m, b, u, n) /\ t \in Seq(Char) /\ u \in Seq(Char)
  <2>1. Shown(m, a, t, n) /\ Shown(m, b, u, n)
    BY AtMostShown
  <2>. HIDE DEF t, u
  <2>. QED BY ONLY <2>1 DEF Shown
<1>. HIDE DEF t, u
<1>3. ASSUME NEW j \in 0..n
      PROVE  /\ Stops(m, a, b, Same, j) <=> Differs(m, a, b, j)
             /\ Stops(m, a, b, tolower, j) <=> (LowerOrder(At(m, a + j), At(m, b + j)) # 0 \/ At(m, a + j) = "nul")
  <2>1. j \in Nat
    BY ONLY <1>1, j \in 0..n
  <2>. QED BY ONLY <1>1, <2>1, m \in Seq(Char), StopsAre
<1>4. k \in Nat
  <2>. DEFINE T == S(Same)
  <2>1. T \subseteq Nat /\ n \in T
    BY ONLY <1>1
  <2>. HIDE DEF T
  <2>2. Min(T) \in Nat
    BY ONLY <2>1, LeastExists
  <2>. QED BY ONLY <2>2 DEF T
<1>5. Sign(IF k = n THEN 0 ELSE Order(Same[At(m, a + k)], Same[At(m, b + k)])) = Compared(Under(Same, t), Under(Same, u))
  <2>1. k = Min({j \in 0..n : j = n \/ Stops(m, a, b, Same, j)})
    OBVIOUS
  <2>. HIDE DEF k
  <2>. QED BY ONLY <1>2, <2>1, m \in Seq(Char), Mappings, Comparison
<1>6. Sign(IF l = n THEN 0 ELSE Order(tolower[At(m, a + l)], tolower[At(m, b + l)]))
        = Compared(Under(tolower, t), Under(tolower, u))
  <2>1. l = Min({j \in 0..n : j = n \/ Stops(m, a, b, tolower, j)})
    OBVIOUS
  <2>. HIDE DEF l
  <2>. QED BY ONLY <1>2, <2>1, m \in Seq(Char), Mappings, Comparison
<1>7. Same[At(m, a + k)] = At(m, a + k) /\ Same[At(m, b + k)] = At(m, b + k)
  <2>. HIDE DEF k
  <2>1. At(m, a + k) \in Char /\ At(m, b + k) \in Char
    BY ONLY <1>1, <1>4, m \in Seq(Char), StopsAre
  <2>. QED BY ONLY <2>1, SameIs
<1>8. Under(Same, t) = t /\ Under(Same, u) = u /\ InLower(t) = Under(tolower, t) /\ InLower(u) = Under(tolower, u)
  <2>1. Under(Same, t) = t /\ Under(Same, u) = u
    BY ONLY <1>2, SameIs
  <2>. QED BY ONLY <2>1 DEF InLower, Under
<1>9. strncmp(m, a, b, n) = IF k = n THEN 0 ELSE Order(At(m, a + k), At(m, b + k))
  <2>1. {j \in 0..n : j = n \/ Differs(m, a, b, j)} = S(Same)
    BY ONLY <1>3
  <2>. QED BY <2>1 DEF strncmp
<1>10. wcsncmp(m, a, b, n) = IF k = n THEN 0 ELSE Order(At(m, a + k), At(m, b + k))
  <2>1. \A j \in 0..n : Stops(m, a, b, Same, j) <=> (At(m, a + j) # At(m, b + j) \/ At(m, a + j) = "nul")
    BY ONLY <1>3 DEF Differs
  <2>2. {j \in 0..n : j = n \/ At(m, a + j) # At(m, b + j) \/ At(m, a + j) = "nul"} = S(Same)
    BY ONLY <2>1
  <2>. QED BY <2>2 DEF wcsncmp
<1>11. _strnicmp(m, a, b, n) = IF l = n THEN 0 ELSE Order(tolower[At(m, a + l)], tolower[At(m, b + l)])
  <2>1. {j \in 0..n : j = n \/ LowerOrder(At(m, a + j), At(m, b + j)) # 0 \/ At(m, a + j) = "nul"} = S(tolower)
    BY ONLY <1>3
  <2>2. _strnicmp(m, a, b, n) = IF l = n THEN 0 ELSE LowerOrder(At(m, a + l), At(m, b + l))
    BY <2>1 DEF _strnicmp
  <2>. HIDE DEF l
  <2>. QED BY ONLY <2>2 DEF LowerOrder
<1>. HIDE DEF k, l
<1>12. /\ Sign(strncmp(m, a, b, n)) = Compared(t, u) /\ Sign(wcsncmp(m, a, b, n)) = Compared(t, u)
       /\ Sign(_strnicmp(m, a, b, n)) = Compared(InLower(t), InLower(u))
  BY ONLY <1>5, <1>6, <1>7, <1>8, <1>9, <1>10, <1>11
<1>. QED BY <1>12 DEF t, u

LEMMA CellsCompare ==
  ASSUME NEW m \in Seq(Char), NEW a \in Nat \ {0}, NEW b \in Nat \ {0}, NEW n \in Nat,
         a + n - 1 <= Len(m), b + n - 1 <= Len(m)
  PROVE  Sign(memcmp(m, a, b, n)) = Compared(Cells(m, a, n), Cells(m, b, n))
<1>. DEFINE t == Cells(m, a, n)
            u == Cells(m, b, n)
            S == {j \in 0..n : j = n \/ At(m, a + j) # At(m, b + j)}
            k == Min(S)
<1>1. /\ t \in Seq(Char) /\ Len(t) = n /\ u \in Seq(Char) /\ Len(u) = n
      /\ \A j \in 1..n : t[j] = m[a + j - 1] /\ u[j] = m[b + j - 1]
  BY CellsAre
<1>. HIDE DEF t, u
<1>2. \A j \in 0..(n - 1) : At(m, a + j) = t[j + 1] /\ At(m, b + j) = u[j + 1]
  <2>1. ASSUME NEW j \in 0..(n - 1)
        PROVE  /\ j + 1 \in 1..n /\ a + (j + 1) - 1 = a + j /\ b + (j + 1) - 1 = b + j
               /\ a + j \in Int /\ a + j \in 1..Len(m) /\ b + j \in Int /\ b + j \in 1..Len(m)
    OBVIOUS
  <2>2. \A j \in 0..(n - 1) : At(m, a + j) = m[a + j] /\ At(m, b + j) = m[b + j]
    BY ONLY <2>1, m \in Seq(Char), AtIs
  <2>3. \A j \in 0..(n - 1) : t[j + 1] = m[a + (j + 1) - 1] /\ u[j + 1] = m[b + (j + 1) - 1]
    BY ONLY <1>1, <2>1
  <2>. QED BY ONLY <2>1, <2>2, <2>3
<1>3. k \in S /\ k \in Nat /\ \A j \in S : k <= j
  <2>1. S \subseteq Nat /\ n \in S
    OBVIOUS
  <2>. HIDE DEF S
  <2>. QED BY ONLY <2>1, LeastExists
<1>4. memcmp(m, a, b, n) = IF k = n THEN 0 ELSE Order(At(m, a + k), At(m, b + k))
  BY DEF memcmp
<1>. HIDE DEF k
<1>5. ASSUME NEW j \in 0..n, j < k PROVE t[j + 1] = u[j + 1]
  <2>1. j \notin S /\ j \in 0..(n - 1)
    BY ONLY <1>3, <1>5, n \in Nat
  <2>2. At(m, a + j) = At(m, b + j)
    BY ONLY <1>5, <2>1 DEF S
  <2>. QED BY ONLY <1>2, <2>1, <2>2
<1>6. ASSUME NEW j \in 1..k, k <= n PROVE t[j] = u[j]
  <2>1. j - 1 \in 0..n /\ j - 1 < k /\ (j - 1) + 1 = j
    BY ONLY <1>3, <1>6, n \in Nat
  <2>2. t[(j - 1) + 1] = u[(j - 1) + 1]
    BY ONLY <1>5, <2>1
  <2>. QED BY ONLY <2>1, <2>2
<1>7. CASE k = n
  <2>1. t = u
    <3>1. \A j \in 1..n : t[j] = u[j]
      BY ONLY <1>3, <1>6, <1>7, n \in Nat
    <3>. QED BY ONLY <1>1, <3>1, SeqEqual
  <2>2. Compared(t, u) = 0
    BY ONLY <1>1, <2>1, ComparedSame
  <2>. QED BY <1>4, <1>7, <2>2 DEF Sign, t, u
<1>8. CASE k # n
  <2>1. k \in 0..(n - 1) /\ k + 1 \in Nat \ {0} /\ k + 1 <= Len(t) /\ k + 1 <= Len(u) /\ (k + 1) - 1 = k /\ k <= n
    BY ONLY <1>1, <1>3, <1>8, n \in Nat DEF S
  <2>2. At(m, a + k) = t[k + 1] /\ At(m, b + k) = u[k + 1] /\ At(m, a + k) # At(m, b + k)
    <3>1. At(m, a + k) # At(m, b + k)
      BY ONLY <1>3, <1>8 DEF S
    <3>. QED BY ONLY <1>2, <2>1, <3>1
  <2>3. \A j \in 1..((k + 1) - 1) : t[j] = u[j]
    BY ONLY <1>6, <2>1
  <2>4. Compared(t, u) = Sign(Order(t[k + 1], u[k + 1]))
    BY ONLY <1>1, <2>1, <2>2, <2>3, ComparedDiffer
  <2>. QED BY <1>4, <1>8, <2>2, <2>4 DEF t, u
<1>. QED BY <1>7, <1>8

LEMMA ComparesDo ==
  ASSUME Fresh, Compares
  PROVE  AnswersAreC' /\ call'.f \in AnswerNames /\ call' # << >>
<1>1. PICK a \in Addresses, b \in Addresses :
       \/ /\ IsText(a) /\ IsText(b)
          /\ \/ Call("strcmp", a, b, 0, "nul", mem, strcmp(mem, a, b))
             \/ Call("wcscmp", a, b, 0, "nul", mem, wcscmp(mem, a, b))
             \/ Call("_stricmp", a, b, 0, "nul", mem, _stricmp(mem, a, b))
       \/ \E n \in Lengths :
            \/ /\ TextOrRoom(a, n) /\ TextOrRoom(b, n)
               /\ \/ Call("strncmp", a, b, n, "nul", mem, strncmp(mem, a, b, n))
                  \/ Call("wcsncmp", a, b, n, "nul", mem, wcsncmp(mem, a, b, n))
                  \/ Call("_strnicmp", a, b, n, "nul", mem, _strnicmp(mem, a, b, n))
            \/ /\ Room(a, n) /\ Room(b, n)
               /\ \/ Call("memcmp", a, b, n, "nul", mem, memcmp(mem, a, b, n))
                  \/ Call("wmemcmp", a, b, n, "nul", mem, wmemcmp(mem, a, b, n))
  BY DEF Compares
<1>2. /\ a \in Nat \ {0} /\ b \in Nat \ {0} /\ mem \in Seq(Char) /\ a <= Len(mem) /\ b <= Len(mem) /\ Size = Len(mem)
      /\ Lengths \subseteq Nat
  BY FreshIs, TextsAssumption
<1>3. CASE \E f, r : /\ IsText(a) /\ IsText(b) /\ Call(f, a, b, 0, "nul", mem, r)
                     /\ \/ f \in {"strcmp", "wcscmp"} /\ r = strcmp(mem, a, b)
                        \/ f = "_stricmp" /\ r = _stricmp(mem, a, b)
  <2>1. PICK f, r : /\ IsText(a) /\ IsText(b) /\ Call(f, a, b, 0, "nul", mem, r)
                    /\ \/ f \in {"strcmp", "wcscmp"} /\ r = strcmp(mem, a, b)
                       \/ f = "_stricmp" /\ r = _stricmp(mem, a, b)
    BY <1>3
  <2>2. /\ Sign(strcmp(mem, a, b)) = Compared(Ended(TextAt(mem, a)), Ended(TextAt(mem, b)))
        /\ Sign(_stricmp(mem, a, b)) = Compared(InLower(Ended(TextAt(mem, a))), InLower(Ended(TextAt(mem, b))))
    BY ONLY <1>2, <2>1, TextsCompare DEF IsText
  <2>3. /\ call'.f = f /\ call'.d = a /\ call'.s = b /\ call'.was = mem /\ got' = r /\ call' # << >>
    BY ONLY <2>1, Called
  <2>4. /\ f \in {"strcmp", "wcscmp"} => Sign(r) = Compared(Ended(TextAt(mem, a)), Ended(TextAt(mem, b)))
        /\ f = "_stricmp" => Sign(r) = Compared(InLower(Ended(TextAt(mem, a))), InLower(Ended(TextAt(mem, b))))
    BY ONLY <2>1, <2>2
  <2>5. f \in AnswerNames /\ f \notin AnswerNames \ {"strcmp", "wcscmp", "_stricmp"}
    BY <2>1 DEF AnswerNames
  <2>. QED BY ONLY <2>3, <2>4, <2>5 DEF AnswersAreC, AnswerNames
<1>4. CASE \E f, r, n : /\ n \in Lengths /\ TextOrRoom(a, n) /\ TextOrRoom(b, n) /\ Call(f, a, b, n, "nul", mem, r)
                        /\ \/ f = "strncmp" /\ r = strncmp(mem, a, b, n)
                           \/ f = "wcsncmp" /\ r = wcsncmp(mem, a, b, n)
                           \/ f = "_strnicmp" /\ r = _strnicmp(mem, a, b, n)
  <2>1. PICK f, r, n : /\ n \in Lengths /\ TextOrRoom(a, n) /\ TextOrRoom(b, n) /\ Call(f, a, b, n, "nul", mem, r)
                       /\ \/ f = "strncmp" /\ r = strncmp(mem, a, b, n)
                          \/ f = "wcsncmp" /\ r = wcsncmp(mem, a, b, n)
                          \/ f = "_strnicmp" /\ r = _strnicmp(mem, a, b, n)
    BY <1>4
  <2>. DEFINE t == AtMost(mem, a, n)
              u == AtMost(mem, b, n)
  <2>2. Bounded(mem, a, n) /\ Bounded(mem, b, n)
    BY ONLY <1>2, <2>1 DEF Bounded, TextOrRoom, IsText, Room
  <2>3. /\ Sign(strncmp(mem, a, b, n)) = Compared(t, u) /\ Sign(wcsncmp(mem, a, b, n)) = Compared(t, u)
        /\ Sign(_strnicmp(mem, a, b, n)) = Compared(InLower(t), InLower(u))
    BY ONLY <1>2, <2>2, SomeCompare
  <2>4. /\ call'.f = f /\ call'.d = a /\ call'.s = b /\ call'.n = n /\ call'.was = mem /\ got' = r /\ call' # << >>
    BY ONLY <2>1, Called
  <2>5. /\ f \in {"strncmp", "wcsncmp"} => Sign(r) = Compared(t, u)
        /\ f = "_strnicmp" => Sign(r) = Compared(InLower(t), InLower(u))
    BY ONLY <2>1, <2>3
  <2>6. f \in AnswerNames /\ f \notin AnswerNames \ {"strncmp", "wcsncmp", "_strnicmp"}
    BY <2>1 DEF AnswerNames
  <2>. QED BY ONLY <2>4, <2>5, <2>6 DEF AnswersAreC, AnswerNames
<1>5. CASE \E f, n : /\ n \in Lengths /\ Room(a, n) /\ Room(b, n) /\ f \in {"memcmp", "wmemcmp"}
                     /\ Call(f, a, b, n, "nul", mem, memcmp(mem, a, b, n))
  <2>1. PICK f, n : /\ n \in Lengths /\ Room(a, n) /\ Room(b, n) /\ f \in {"memcmp", "wmemcmp"}
                    /\ Call(f, a, b, n, "nul", mem, memcmp(mem, a, b, n))
    BY <1>5
  <2>2. n \in Nat /\ a + n - 1 <= Len(mem) /\ b + n - 1 <= Len(mem)
    BY ONLY <1>2, <2>1 DEF Room
  <2>3. Sign(memcmp(mem, a, b, n)) = Compared(Cells(mem, a, n), Cells(mem, b, n))
    BY ONLY <1>2, <2>2, CellsCompare
  <2>4. /\ call'.f = f /\ call'.d = a /\ call'.s = b /\ call'.n = n /\ call'.was = mem /\ got' = memcmp(mem, a, b, n)
        /\ call' # << >>
    BY ONLY <2>1, Called
  <2>5. f \in AnswerNames /\ f \notin AnswerNames \ {"memcmp", "wmemcmp"}
    BY <2>1 DEF AnswerNames
  <2>. QED BY ONLY <2>3, <2>4, <2>5 DEF AnswersAreC, AnswerNames
<1>6. wcscmp(mem, a, b) = strcmp(mem, a, b) /\ \A n : wmemcmp(mem, a, b, n) = memcmp(mem, a, b, n)
  BY DEF wcscmp, wmemcmp
<1>. QED BY ONLY <1>1, <1>3, <1>4, <1>5, <1>6

(* ---- searches ---- *)

LEMMA GreatestExists ==
  ASSUME NEW N \in Nat, NEW S, S \subseteq 0..N, S # {}
  PROVE  Max(S) \in S /\ Max(S) \in 0..N /\ \A k \in S : k <= Max(S)
<1>. DEFINE T == {j \in Nat : N - j \in S}
<1>1. PICK x \in S : TRUE
  OBVIOUS
<1>2. N - x \in T /\ T \subseteq Nat
  <2>1. x \in 0..N /\ N - x \in Nat /\ N - (N - x) = x
    BY <1>1
  <2>. QED BY <1>1, <2>1
<1>3. PICK y \in T : \A j \in T : y <= j
  <2>1. T # {} /\ T \subseteq Nat
    BY ONLY <1>2
  <2>. HIDE DEF T
  <2>2. Min(T) \in T /\ \A j \in T : Min(T) <= j
    BY ONLY <2>1, LeastExists
  <2>. QED BY ONLY <2>2
<1>4. N - y \in S /\ y \in Nat
  BY <1>3
<1>5. ASSUME NEW k \in S PROVE k <= N - y /\ k \in Int
  <2>1. k \in 0..N /\ N - k \in Nat /\ N - (N - k) = k
    OBVIOUS
  <2>2. N - k \in T
    BY ONLY <2>1, k \in S DEF T
  <2>3. y <= N - k
    BY ONLY <1>3, <2>2
  <2>. QED BY ONLY <1>4, <2>1, <2>3, N \in Nat
<1>6. Max(S) = N - y
  BY ONLY <1>4, <1>5, GreatestIs
<1>. QED BY ONLY <1>4, <1>5, <1>6, S \subseteq 0..N

\* The least of a set moved by s.
LEMMA MinMoved ==
  ASSUME NEW H, H \subseteq Nat, NEW s \in Int, NEW F, F \subseteq Int, \A i \in Int : i \in F <=> i - s \in H
  PROVE  (F = {} <=> H = {}) /\ (H # {} => Min(F) = s + Min(H))
<1>1. \A k \in H : s + k \in F
  <2>1. ASSUME NEW k \in H PROVE s + k \in F
    <3>1. s + k \in Int /\ (s + k) - s = k
      OBVIOUS
    <3>. QED BY ONLY <3>1, k \in H, \A i \in Int : i \in F <=> i - s \in H
  <2>. QED BY <2>1
<1>2. \A i \in F : i - s \in H /\ i \in Int
  BY ONLY F \subseteq Int, \A i \in Int : i \in F <=> i - s \in H
<1>3. F = {} <=> H = {}
  BY ONLY <1>1, <1>2
<1>4. ASSUME H # {} PROVE Min(F) = s + Min(H)
  <2>1. PICK k \in Nat : k = Min(H) /\ k \in H /\ \A j \in H : k <= j
    BY ONLY <1>4, H \subseteq Nat, LeastExists
  <2>2. s + k \in F
    BY ONLY <1>1, <2>1
  <2>3. ASSUME NEW i \in F PROVE s + k <= i
    <3>1. k <= i - s /\ i \in Int
      BY ONLY <1>2, <2>1, i \in F
    <3>. QED BY ONLY <3>1, s \in Int, k \in Nat
  <2>4. Min(F) = s + k
    BY ONLY <1>2, <2>2, <2>3, LeastIs
  <2>. QED BY ONLY <2>1, <2>4
<1>. QED BY <1>3, <1>4

LEMMA MemchrIs ==
  ASSUME NEW m \in Seq(Char), NEW s \in Nat \ {0}, NEW n \in Nat, NEW c, s + n - 1 <= Len(m)
  PROVE  memchr(m, s, c, n) = Least(Found(m, s, n, c))
<1>. DEFINE S == {j \in 0..n : j = n \/ At(m, s + j) = c}
            H == {j \in 0..(n - 1) : At(m, s + j) = c}
            F == Found(m, s, n, c)
            k == Min(S)
<1>1. k \in S /\ k \in Nat /\ \A j \in S : k <= j
  <2>1. S \subseteq Nat /\ n \in S
    OBVIOUS
  <2>. HIDE DEF S
  <2>. QED BY ONLY <2>1, LeastExists
<1>2. memchr(m, s, c, n) = IF k = n THEN 0 ELSE s + k
  BY DEF memchr
<1>. HIDE DEF k
<1>3. \A i \in s..(s + n - 1) : i \in Int /\ i \in 1..Len(m) /\ i - s \in 0..(n - 1) /\ s + (i - s) = i
  OBVIOUS
<1>4. \A i \in s..(s + n - 1) : At(m, i) = m[i]
  BY ONLY <1>3, m \in Seq(Char), AtIs
<1>5. ASSUME NEW i \in F PROVE i \in Int /\ i - s \in 0..(n - 1) /\ i - s \in S
  <2>1. i \in s..(s + n - 1) /\ m[i] = c
    BY DEF Found
  <2>2. At(m, s + (i - s)) = c /\ i - s \in 0..(n - 1) /\ i - s \in 0..n
    <3>1. i - s \in 0..n
      BY ONLY <2>1, s \in Nat \ {0}, n \in Nat
    <3>. QED BY ONLY <1>3, <1>4, <2>1, <3>1
  <2>. QED BY ONLY <1>3, <2>1, <2>2 DEF S
<1>6. CASE k = n
  <2>1. \A i \in F : FALSE
    <3>1. ASSUME NEW i \in F PROVE FALSE
      <4>1. i - s \in 0..(n - 1) /\ k <= i - s
        BY ONLY <1>1, <1>5
      <4>. QED BY ONLY <1>6, <4>1, n \in Nat
    <3>. QED BY <3>1
  <2>2. F = {}
    <3>. HIDE DEF F
    <3>. QED BY ONLY <2>1
  <2>. QED BY <1>2, <1>6, <2>2 DEF Least
<1>7. CASE k # n
  <2>1. k \in 0..(n - 1) /\ At(m, s + k) = c /\ s + k \in s..(s + n - 1) /\ s + k \in Int
    BY ONLY <1>1, <1>7, s \in Nat \ {0}, n \in Nat DEF S
  <2>2. s + k \in F
    BY ONLY <1>4, <2>1 DEF Found
  <2>3. ASSUME NEW i \in F PROVE s + k <= i /\ i \in Int
    <3>1. k <= i - s /\ i \in Int
      BY ONLY <1>1, <1>5
    <3>. QED BY ONLY <1>1, <3>1, s \in Nat \ {0}
  <2>. HIDE DEF F
  <2>4. Min(F) = s + k
    BY ONLY <2>2, <2>3, LeastIs
  <2>5. F # {}
    BY ONLY <2>2
  <2>. QED BY <1>2, <1>7, <2>4, <2>5 DEF Least, F
<1>. QED BY <1>6, <1>7

\* The places of c in a text and its terminator.
LEMMA FoundIs ==
  ASSUME NEW m, NEW a, NEW t, NEW L, Reads(m, a, t, L), NEW c
  PROVE  /\ Found(m, a, L + 1, c) \subseteq Int
         /\ \A i \in Int : i \in Found(m, a, L + 1, c) <=> i - a \in {k \in 0..L : At(m, a + k) = c}
<1>1. m \in Seq(Char) /\ a \in Nat \ {0} /\ L \in Nat /\ a + L <= Len(m)
  BY DEF Reads
<1>2. \A i \in a..(a + (L + 1) - 1) : i \in Int /\ i \in 1..Len(m)
  BY <1>1
<1>3. \A i \in a..(a + (L + 1) - 1) : At(m, i) = m[i]
  BY ONLY <1>1, <1>2, AtIs
<1>4. \A i \in Int : (i \in a..(a + (L + 1) - 1) <=> i - a \in 0..L) /\ a + (i - a) = i
  BY <1>1
<1>5. Found(m, a, L + 1, c) = {i \in a..(a + (L + 1) - 1) : m[i] = c}
  BY DEF Found
<1>. QED BY ONLY <1>2, <1>3, <1>4, <1>5

LEMMA StrchrIs ==
  ASSUME NEW m, NEW a, NEW t, NEW L, Reads(m, a, t, L), L = strlen(m, a), NEW c
  PROVE  /\ strchr(m, a, c) = Least(Found(m, a, L + 1, c))
         /\ strrchr(m, a, c) = Most(Found(m, a, L + 1, c))
<1>. DEFINE S == {j \in 0..L : At(m, a + j) \in {c, "nul"}}
            H == {j \in 0..L : At(m, a + j) = c}
            F == Found(m, a, L + 1, c)
            k == Min(S)
<1>1. /\ a \in Nat \ {0} /\ L \in Nat /\ At(m, a + L) = "nul"
      /\ F \subseteq Int /\ \A i \in Int : i \in F <=> i - a \in H
  <2>1. a \in Nat \ {0} /\ L \in Nat /\ At(m, a + L) = "nul"
    BY DEF Reads
  <2>2. F \subseteq Int /\ \A i \in Int : i \in F <=> i - a \in H
    BY FoundIs
  <2>. QED BY <2>1, <2>2
<1>2. \A j \in 0..(L - 1) : At(m, a + j) # "nul"
  BY DEF Reads
<1>3. k \in S /\ k \in Nat /\ \A j \in S : k <= j
  <2>1. S \subseteq Nat /\ L \in S
    BY <1>1
  <2>. HIDE DEF S
  <2>. QED BY ONLY <2>1, LeastExists
<1>4. strchr(m, a, c) = IF At(m, a + k) = c THEN a + k ELSE 0
  BY DEF strchr
<1>5. strrchr(m, a, c) = IF H = {} THEN 0 ELSE a + Max(H)
  BY DEF strrchr
<1>. HIDE DEF k, F
<1>6. strchr(m, a, c) = Least(F)
  <2>1. CASE At(m, a + k) = c
    <3>1. k \in H /\ \A j \in H : k <= j /\ j \in Int
      BY <1>1, <1>3, <2>1
    <3>2. H \subseteq Nat /\ H # {}
      BY <1>1, <3>1
    <3>. HIDE DEF H
    <3>3. Min(H) = k
      BY ONLY <3>1, LeastIs
    <3>4. Min(F) = a + k /\ F # {}
      <4>1. a \in Int
        BY ONLY <1>1
      <4>2. (F = {} <=> H = {}) /\ (H # {} => Min(F) = a + Min(H))
        BY ONLY <1>1, <3>2, <4>1, MinMoved
      <4>. QED BY ONLY <3>2, <3>3, <4>2
    <3>. QED BY <1>4, <2>1, <3>4 DEF Least
  <2>2. CASE At(m, a + k) # c
    <3>1. ASSUME NEW j \in H PROVE FALSE
      <4>1. j \in S /\ j \in 0..L /\ At(m, a + j) = c
        OBVIOUS
      <4>2. At(m, a + k) = "nul" /\ k \in 0..L
        BY ONLY <1>3, <2>2 DEF S
      <4>3. ~(k \in 0..(L - 1))
        BY ONLY <1>2, <4>2
      <4>4. k = L /\ k <= j
        BY ONLY <1>1, <1>3, <4>1, <4>2, <4>3
      <4>5. j = k
        BY ONLY <1>1, <4>1, <4>4
      <4>. QED BY ONLY <2>2, <4>1, <4>5
    <3>2. H = {} /\ H \subseteq Nat
      BY ONLY <3>1
    <3>3. F = {}
      BY ONLY <1>1, <3>2, MinMoved
    <3>. QED BY <1>4, <2>2, <3>3 DEF Least
  <2>. QED BY <2>1, <2>2
<1>7. strrchr(m, a, c) = Most(F)
  <2>1. H \subseteq Nat /\ H \subseteq 0..L
    BY ONLY <1>1
  <2>. HIDE DEF H
  <2>2. CASE H = {}
    <3>1. F = {}
      BY ONLY <1>1, <2>1, <2>2, MinMoved
    <3>. QED BY <1>5, <2>2, <3>1 DEF Most
  <2>3. CASE H # {}
    <3>1. PICK x \in Nat : x = Max(H) /\ x \in H /\ \A j \in H : j <= x
      BY ONLY <1>1, <2>1, <2>3, GreatestExists
    <3>2. a + x \in F /\ \A i \in F : i <= a + x /\ i \in Int
      <4>1. a + x \in Int /\ (a + x) - a = x
        BY ONLY <1>1, x \in Nat
      <4>2. a + x \in F
        BY ONLY <1>1, <3>1, <4>1
      <4>3. ASSUME NEW i \in F PROVE i <= a + x /\ i \in Int
        <5>1. i \in Int /\ i - a <= x
          BY ONLY <1>1, <3>1, i \in F
        <5>. QED BY ONLY <1>1, <5>1, x \in Nat
      <4>. QED BY <4>2, <4>3
    <3>3. Max(F) = a + x
      BY ONLY <3>2, GreatestIs
    <3>4. F # {}
      BY ONLY <3>2
    <3>. QED BY <1>5, <2>3, <3>1, <3>3, <3>4 DEF Most
  <2>. QED BY <2>2, <2>3
<1>. QED BY <1>6, <1>7 DEF F

LEMMA SearchesDo ==
  ASSUME Fresh, Searches
  PROVE  AnswersAreC' /\ call'.f \in AnswerNames /\ call' # << >>
<1>1. PICK s \in Addresses, c \in Fillers :
       \/ /\ IsText(s)
          /\ \/ Call("strchr", s, s, 0, c, mem, strchr(mem, s, c))
             \/ Call("wcschr", s, s, 0, c, mem, wcschr(mem, s, c))
             \/ Call("strrchr", s, s, 0, c, mem, strrchr(mem, s, c))
             \/ Call("wcsrchr", s, s, 0, c, mem, wcsrchr(mem, s, c))
       \/ \E n \in Lengths :
            /\ Room(s, n)
            /\ \/ Call("memchr", s, s, n, c, mem, memchr(mem, s, c, n))
               \/ Call("wmemchr", s, s, n, c, mem, wmemchr(mem, s, c, n))
  BY DEF Searches
<1>2. s \in Nat \ {0} /\ mem \in Seq(Char) /\ Size = Len(mem) /\ Lengths \subseteq Nat
  BY FreshIs, TextsAssumption
<1>3. CASE \E f, r : /\ IsText(s) /\ Call(f, s, s, 0, c, mem, r)
                     /\ \/ f \in {"strchr", "wcschr"} /\ r = strchr(mem, s, c)
                        \/ f \in {"strrchr", "wcsrchr"} /\ r = strrchr(mem, s, c)
  <2>1. PICK f, r : /\ IsText(s) /\ Call(f, s, s, 0, c, mem, r)
                    /\ \/ f \in {"strchr", "wcschr"} /\ r = strchr(mem, s, c)
                       \/ f \in {"strrchr", "wcsrchr"} /\ r = strrchr(mem, s, c)
    BY <1>3
  <2>2. /\ strchr(mem, s, c) = Least(Found(mem, s, Len(TextAt(mem, s)) + 1, c))
        /\ strrchr(mem, s, c) = Most(Found(mem, s, Len(TextAt(mem, s)) + 1, c))
    <3>1. HasText(mem, s)
      BY ONLY <2>1 DEF IsText
    <3>2. Reads(mem, s, TextAt(mem, s), strlen(mem, s))
      BY ONLY <1>2, <3>1, TextReads
    <3>3. strlen(mem, s) = Len(TextAt(mem, s))
      BY ONLY <3>2 DEF Reads
    <3>. QED BY ONLY <3>2, <3>3, StrchrIs
  <2>3. /\ call'.f = f /\ call'.d = s /\ call'.c = c /\ call'.was = mem /\ got' = r /\ call' # << >>
    BY ONLY <2>1, Called
  <2>4. /\ f \in {"strchr", "wcschr"} => r = Least(Found(mem, s, Len(TextAt(mem, s)) + 1, c))
        /\ f \in {"strrchr", "wcsrchr"} => r = Most(Found(mem, s, Len(TextAt(mem, s)) + 1, c))
    BY ONLY <2>1, <2>2
  <2>5. f \in AnswerNames /\ f \notin AnswerNames \ {"strchr", "wcschr", "strrchr", "wcsrchr"}
    BY <2>1 DEF AnswerNames
  <2>. QED BY ONLY <2>3, <2>4, <2>5 DEF AnswersAreC, AnswerNames
<1>4. CASE \E f, n : /\ n \in Lengths /\ Room(s, n) /\ f \in {"memchr", "wmemchr"}
                     /\ Call(f, s, s, n, c, mem, memchr(mem, s, c, n))
  <2>1. PICK f, n : /\ n \in Lengths /\ Room(s, n) /\ f \in {"memchr", "wmemchr"}
                    /\ Call(f, s, s, n, c, mem, memchr(mem, s, c, n))
    BY <1>4
  <2>2. n \in Nat /\ s + n - 1 <= Len(mem)
    BY ONLY <1>2, <2>1 DEF Room
  <2>3. memchr(mem, s, c, n) = Least(Found(mem, s, n, c))
    BY ONLY <1>2, <2>2, MemchrIs
  <2>4. /\ call'.f = f /\ call'.d = s /\ call'.n = n /\ call'.c = c /\ call'.was = mem /\ got' = memchr(mem, s, c, n)
        /\ call' # << >>
    BY ONLY <2>1, Called
  <2>5. f \in AnswerNames /\ f \notin AnswerNames \ {"memchr", "wmemchr"}
    BY <2>1 DEF AnswerNames
  <2>. QED BY ONLY <2>3, <2>4, <2>5 DEF AnswersAreC, AnswerNames
<1>5. /\ wcschr(mem, s, c) = strchr(mem, s, c) /\ wcsrchr(mem, s, c) = strrchr(mem, s, c)
      /\ \A n : wmemchr(mem, s, c, n) = memchr(mem, s, c, n)
  BY DEF wcschr, wcsrchr, wmemchr
<1>. QED BY ONLY <1>1, <1>3, <1>4, <1>5

\* A character of a text, by its place.
LEMMA ReadsHas ==
  ASSUME NEW m, NEW a, NEW t, NEW L, Reads(m, a, t, L)
  PROVE  \A c : (c \in ToSet(t) <=> \E k \in 0..(L - 1) : At(m, a + k) = c)
<1>1. /\ L \in Nat /\ DOMAIN t = 1..L /\ \A j \in 0..(L - 1) : At(m, a + j) = t[j + 1]
  BY DEF Reads
<1>2. ASSUME NEW c, c \in ToSet(t) PROVE \E k \in 0..(L - 1) : At(m, a + k) = c
  <2>1. PICK i \in 1..L : t[i] = c
    BY ONLY <1>1, <1>2 DEF ToSet
  <2>2. i - 1 \in 0..(L - 1) /\ (i - 1) + 1 = i
    BY ONLY <1>1, i \in 1..L
  <2>3. At(m, a + (i - 1)) = t[(i - 1) + 1]
    BY ONLY <1>1, <2>2
  <2>4. At(m, a + (i - 1)) = c
    BY ONLY <2>1, <2>2, <2>3
  <2>. QED BY ONLY <2>2, <2>4
<1>3. ASSUME NEW c, NEW k \in 0..(L - 1), At(m, a + k) = c PROVE c \in ToSet(t)
  <2>1. k + 1 \in 1..L
    BY ONLY <1>1, k \in 0..(L - 1)
  <2>2. t[k + 1] = c
    BY ONLY <1>1, <1>3, k \in 0..(L - 1)
  <2>. QED BY ONLY <1>1, <2>1, <2>2 DEF ToSet
<1>. QED BY <1>2, <1>3

\* Whether the set u at x has c, as the two libraries ask it.
LEMMA SetHas ==
  ASSUME NEW m, NEW x, NEW u, NEW M, Reads(m, x, u, M), M = strlen(m, x)
  PROVE  \A c : /\ c # "nul" => (strchr(m, x, c) # 0 <=> c \in ToSet(u))
                /\ wch_in(m, x, c) <=> c \in ToSet(u)
<1>. SUFFICES ASSUME NEW c
              PROVE  /\ c # "nul" => (strchr(m, x, c) # 0 <=> c \in ToSet(u))
                     /\ wch_in(m, x, c) <=> c \in ToSet(u)
  OBVIOUS
<1>. DEFINE F == Found(m, x, M + 1, c)
            H == {k \in 0..M : At(m, x + k) = c}
<1>1. x \in Nat \ {0} /\ M \in Nat /\ At(m, x + M) = "nul"
  BY DEF Reads
<1>2. c \in ToSet(u) <=> \E k \in 0..(M - 1) : At(m, x + k) = c
  BY ReadsHas
<1>3. wch_in(m, x, c) <=> c \in ToSet(u)
  BY <1>2 DEF wch_in, wcslen
<1>4. strchr(m, x, c) = Least(F) /\ F \subseteq Int /\ \A i \in Int : i \in F <=> i - x \in H
  BY StrchrIs, FoundIs
<1>5. c # "nul" => (H # {} <=> c \in ToSet(u))
  <2>1. \A k \in 0..M : k = M \/ k \in 0..(M - 1)
    BY ONLY <1>1
  <2>2. \A k \in 0..(M - 1) : k \in 0..M
    BY ONLY <1>1
  <2>. QED BY ONLY <1>1, <1>2, <2>1, <2>2
<1>6. H \subseteq Nat
  BY <1>1
<1>. HIDE DEF F
<1>7. Least(F) # 0 <=> H # {}
  <2>. HIDE DEF H
  <2>0. x \in Int
    BY ONLY <1>1
  <2>1. (F = {} <=> H = {}) /\ (H # {} => Min(F) = x + Min(H))
    BY ONLY <1>4, <1>6, <2>0, MinMoved
  <2>2. H # {} => Min(H) \in Nat
    BY ONLY <1>6, LeastExists
  <2>3. H # {} => x + Min(H) # 0
    BY ONLY <1>1, <2>2
  <2>. QED BY ONLY <2>1, <2>3 DEF Least
<1>. QED BY <1>3, <1>4, <1>5, <1>7

\* The places of a text, from 0 on, at which the spans over the characters of u stop, and those
\* that have one of them.
Leaving(m, a, L, u)  == {k \in 0..L : At(m, a + k) = "nul" \/ At(m, a + k) \notin ToSet(u)}
Entering(m, a, L, u) == {k \in 0..L : At(m, a + k) = "nul" \/ At(m, a + k) \in ToSet(u)}
Having(m, a, L, u)   == {k \in 0..(L - 1) : At(m, a + k) \in ToSet(u)}

\* What they say of the places where t has characters of u.
Spanned(m, a, t, L, u) ==
  LET in  == Among(t, u)
      out == Leaving(m, a, L, u)
      hit == Entering(m, a, L, u)
      all == Having(m, a, L, u)
  IN  /\ Min(out) = Min((1..(L + 1)) \ in) - 1
      /\ Min(hit) = Min(in \cup {L + 1}) - 1
      /\ Min(hit) \in 0..L /\ (At(m, a + Min(hit)) = "nul" <=> in = {})
      /\ in # {} => Min(in) = Min(hit) + 1
      /\ all = {} <=> in = {}
      /\ in # {} => Min(in) = Min(all) + 1

LEMMA SpanIs ==
  ASSUME NEW m, NEW a, NEW t, NEW L, Reads(m, a, t, L), NEW u
  PROVE  Spanned(m, a, t, L, u)
<1>. DEFINE in == Among(t, u)
            out == Leaving(m, a, L, u)
            hit == Entering(m, a, L, u)
            all == Having(m, a, L, u)
<1>1. /\ L \in Nat /\ DOMAIN t = 1..L /\ At(m, a + L) = "nul"
      /\ \A j \in 0..(L - 1) : At(m, a + j) = t[j + 1] /\ At(m, a + j) # "nul"
  <2>1. /\ L \in Nat /\ t \in Seq(Char) /\ Len(t) = L /\ At(m, a + L) = "nul"
        /\ \A j \in 0..(L - 1) : At(m, a + j) = t[j + 1] /\ t[j + 1] # "nul"
    BY DEF Reads
  <2>2. DOMAIN t = 1..L
    BY ONLY <2>1
  <2>. QED BY ONLY <2>1, <2>2
<1>2. in = {k \in 1..L : t[k] \in ToSet(u)}
  BY <1>1 DEF Among
<1>. HIDE DEF in
<1>3. \A i \in Int : i - 1 \in 0..(L - 1) <=> i \in 1..L
  BY ONLY <1>1
<1>4. \A i \in Int : (i - 1) + 1 = i
  OBVIOUS
<1>5. \A i \in Int : i \in in <=> i - 1 \in all
  <2>1. \A i \in 1..L : t[i] = At(m, a + (i - 1))
    <3>1. \A i \in 1..L : i \in Int
      OBVIOUS
    <3>. QED BY ONLY <1>1, <1>3, <1>4, <3>1
  <2>. QED BY ONLY <1>2, <1>3, <2>1 DEF all, Having
<1>6. in \subseteq Int /\ in \subseteq 1..L /\ all \subseteq Nat /\ all \subseteq 0..(L - 1)
  <2>1. all \subseteq 0..(L - 1)
    BY DEF all, Having
  <2>. HIDE DEF all
  <2>. QED BY ONLY <1>1, <1>2, <2>1
<1>7. \A k \in 0..L : (k = L <=> At(m, a + k) = "nul") /\ (k # L => k \in 0..(L - 1)) /\ k \in Nat
  <2>1. \A k \in 0..L : (k # L => k \in 0..(L - 1)) /\ k \in Nat
    BY ONLY <1>1
  <2>. QED BY ONLY <1>1, <2>1
<1>8. /\ out = {L} \cup {k \in 0..(L - 1) : k \notin all}
      /\ hit = {L} \cup all
  <2>1. L \in 0..L /\ \A k \in 0..(L - 1) : k \in 0..L /\ k # L
    BY ONLY <1>1
  <2>. QED BY ONLY <1>7, <2>1 DEF out, hit, all, Leaving, Entering, Having
<1>. HIDE DEF out, hit, all
<1>9. \A i \in Int : i \in (1..(L + 1)) \ in <=> i - 1 \in out
  <2>1. \A i \in Int : (i \in 1..(L + 1) <=> i = L + 1 \/ i \in 1..L) /\ (i = L + 1 <=> i - 1 = L)
    BY ONLY <1>1
  <2>2. \A i \in Int : ~(i = L + 1 /\ i \in 1..L)
    BY ONLY <1>1
  <2>. QED BY ONLY <1>3, <1>5, <1>6, <1>8, <2>1, <2>2
<1>10. \A i \in Int : i \in in \cup {L + 1} <=> i - 1 \in hit
  <2>1. \A i \in Int : i = L + 1 <=> i - 1 = L
    BY ONLY <1>1
  <2>. QED BY ONLY <1>5, <1>8, <2>1
<1>11. out \subseteq Nat /\ hit \subseteq Nat /\ L \in out /\ L \in hit
  <2>1. \A k \in 0..(L - 1) : k \in Nat
    BY ONLY <1>1
  <2>. QED BY ONLY <1>1, <1>6, <1>8, <2>1
<1>12. (1..(L + 1)) \ in \subseteq Int /\ in \cup {L + 1} \subseteq Int /\ 1 \in Int
  BY ONLY <1>1, <1>6
<1>13. Min((1..(L + 1)) \ in) = 1 + Min(out)
  <2>. DEFINE F == (1..(L + 1)) \ in
  <2>1. F \subseteq Int /\ \A i \in Int : i \in F <=> i - 1 \in out
    BY ONLY <1>9, <1>12
  <2>2. out # {}
    BY ONLY <1>11
  <2>. HIDE DEF F
  <2>3. Min(F) = 1 + Min(out)
    BY ONLY <1>11, <1>12, <2>1, <2>2, MinMoved
  <2>. QED BY ONLY <2>3 DEF F
<1>14. Min(in \cup {L + 1}) = 1 + Min(hit)
  <2>. DEFINE F == in \cup {L + 1}
  <2>1. F \subseteq Int /\ \A i \in Int : i \in F <=> i - 1 \in hit
    BY ONLY <1>10, <1>12
  <2>2. hit # {}
    BY ONLY <1>11
  <2>. HIDE DEF F
  <2>3. Min(F) = 1 + Min(hit)
    BY ONLY <1>11, <1>12, <2>1, <2>2, MinMoved
  <2>. QED BY ONLY <2>3 DEF F
<1>15. (in = {} <=> all = {}) /\ (all # {} => Min(in) = 1 + Min(all))
  BY ONLY <1>5, <1>6, <1>12, MinMoved
<1>16. /\ Min(out) \in Nat /\ Min(hit) \in Nat /\ Min(hit) \in hit /\ \A k \in hit : Min(hit) <= k
  <2>1. out # {} /\ hit # {}
    BY ONLY <1>11
  <2>. QED BY ONLY <1>11, <2>1, LeastExists
<1>17. Min(out) = Min((1..(L + 1)) \ in) - 1 /\ Min(hit) = Min(in \cup {L + 1}) - 1
  BY ONLY <1>13, <1>14, <1>16
<1>18. Min(hit) \in 0..L
  BY ONLY <1>1, <1>11, <1>16
<1>. DEFINE Goal == /\ Min(out) = Min((1..(L + 1)) \ in) - 1
                    /\ Min(hit) = Min(in \cup {L + 1}) - 1
                    /\ Min(hit) \in 0..L /\ (At(m, a + Min(hit)) = "nul" <=> in = {})
                    /\ in # {} => Min(in) = Min(hit) + 1
                    /\ all = {} <=> in = {}
                    /\ in # {} => Min(in) = Min(all) + 1
<1>19. ASSUME all = {} PROVE Goal
  <2>1. hit = {L}
    BY ONLY <1>8, <1>19
  <2>2. Min(hit) = L
    BY ONLY <1>16, <2>1
  <2>. QED BY ONLY <1>1, <1>15, <1>17, <1>18, <1>19, <2>2
<1>20. ASSUME all # {} PROVE Goal
  <2>1. PICK k \in Nat : k = Min(all) /\ k \in all /\ \A j \in all : k <= j
    BY ONLY <1>6, <1>20, LeastExists
  <2>2. k \in hit /\ \A j \in hit : k <= j /\ j \in Int
    <3>1. k <= L /\ \A j \in all : j \in Int
      BY ONLY <1>1, <1>6, <2>1
    <3>. QED BY ONLY <1>1, <1>8, <2>1, <3>1
  <2>3. Min(hit) = k
    BY ONLY <2>2, LeastIs
  <2>4. At(m, a + Min(hit)) # "nul"
    BY ONLY <1>1, <1>6, <2>1, <2>3
  <2>5. Min(in) = Min(hit) + 1 /\ Min(in) = Min(all) + 1
    BY ONLY <1>15, <1>20, <2>1, <2>3
  <2>. QED BY ONLY <1>15, <1>17, <1>18, <1>20, <2>4, <2>5
<1>21. Goal
  BY ONLY <1>19, <1>20
<1>. QED BY <1>21 DEF in, out, hit, all, Spanned

\* C99 of the spans over the text t at a of the characters of u, the text at x.
SpansAsC(m, a, x, t, u) ==
  LET in  == Among(t, u)
      one == IF in = {} THEN 0 ELSE a + Min(in) - 1
  IN  /\ strspn(m, a, x) = Min((1..(Len(t) + 1)) \ in) - 1 /\ wcsspn(m, a, x) = strspn(m, a, x)
      /\ strcspn(m, a, x) = Min(in \cup {Len(t) + 1}) - 1 /\ wcscspn(m, a, x) = strcspn(m, a, x)
      /\ strpbrk(m, a, x) = one /\ wcspbrk(m, a, x) = one

LEMMA SpansAre ==
  ASSUME NEW m, NEW a, NEW x, NEW t, NEW u, NEW L, NEW M,
         Reads(m, a, t, L), L = strlen(m, a), Reads(m, x, u, M), M = strlen(m, x)
  PROVE  SpansAsC(m, a, x, t, u)
<1>. DEFINE in == Among(t, u)
            place(S) == IF S = {} THEN 0 ELSE a + Min(S) - 1
            out == Leaving(m, a, L, u)
            hit == Entering(m, a, L, u)
            all == Having(m, a, L, u)
<1>1. L = Len(t) /\ L \in Nat /\ a \in Nat \ {0} /\ wcslen(m, a) = L
  BY DEF Reads, wcslen
<1>2. \A c : /\ c # "nul" => (strchr(m, x, c) # 0 <=> c \in ToSet(u))
             /\ wch_in(m, x, c) <=> c \in ToSet(u)
  BY SetHas
<1>3. {k \in 0..L : At(m, a + k) = "nul" \/ strchr(m, x, At(m, a + k)) = 0} = out
  BY ONLY <1>2 DEF Leaving, Entering, Having
<1>4. {k \in 0..L : At(m, a + k) = "nul" \/ strchr(m, x, At(m, a + k)) # 0} = hit
  BY ONLY <1>2 DEF Leaving, Entering, Having
<1>5. {k \in 0..L : At(m, a + k) = "nul" \/ ~wch_in(m, x, At(m, a + k))} = out
  BY ONLY <1>2 DEF Leaving, Entering, Having
<1>6. {k \in 0..L : At(m, a + k) = "nul" \/ wch_in(m, x, At(m, a + k))} = hit
  BY ONLY <1>2 DEF Leaving, Entering, Having
<1>7. {k \in 0..(L - 1) : wch_in(m, x, At(m, a + k))} = all
  BY ONLY <1>2 DEF Leaving, Entering, Having
<1>8. strspn(m, a, x) = Min(out) /\ wcsspn(m, a, x) = Min(out)
  BY <1>1, <1>3, <1>5 DEF strspn, wcsspn
<1>9. strcspn(m, a, x) = Min(hit) /\ wcscspn(m, a, x) = Min(hit)
  BY <1>1, <1>4, <1>6 DEF strcspn, wcscspn
<1>10. strpbrk(m, a, x) = IF At(m, a + Min(hit)) = "nul" THEN 0 ELSE a + Min(hit)
  BY <1>4 DEF strpbrk
<1>11. wcspbrk(m, a, x) = IF all = {} THEN 0 ELSE a + Min(all)
  BY <1>1, <1>7 DEF wcspbrk
<1>12. /\ Min(out) = Min((1..(L + 1)) \ in) - 1
       /\ Min(hit) = Min(in \cup {L + 1}) - 1
       /\ Min(hit) \in 0..L /\ (At(m, a + Min(hit)) = "nul" <=> in = {})
       /\ in # {} => Min(in) = Min(hit) + 1
       /\ all = {} <=> in = {}
       /\ in # {} => Min(in) = Min(all) + 1
  <2>1. Spanned(m, a, t, L, u)
    BY SpanIs
  <2>. QED BY ONLY <2>1 DEF Spanned
<1>13. all # {} => Min(all) \in Nat
  <2>1. all \subseteq Nat
    BY ONLY <1>1 DEF Having
  <2>. HIDE DEF all
  <2>. QED BY ONLY <2>1, LeastExists
<1>. HIDE DEF in, out, hit, all
<1>14. in # {} => a + Min(in) - 1 = a + Min(hit) /\ a + Min(in) - 1 = a + Min(all)
  BY ONLY <1>1, <1>12, <1>13
<1>15. strpbrk(m, a, x) = place(in) /\ wcspbrk(m, a, x) = place(in)
  BY ONLY <1>10, <1>11, <1>12, <1>14
<1>. QED BY <1>1, <1>8, <1>9, <1>12, <1>15 DEF in, SpansAsC

\* The text u stands k characters behind a.
Stands(m, a, k, x, n) == \A j \in 0..(n - 1) : At(m, a + k + j) = At(m, x + j)

LEMMA StandsIs ==
  ASSUME NEW m, NEW a, NEW x, NEW t, NEW u, NEW L, NEW n, Reads(m, a, t, L), Reads(m, x, u, n), n # 0, NEW k \in Nat
  PROVE  k + 1 \in Occurrences(t, u) <=> (k \in 0..(L - 1) /\ Stands(m, a, k, x, n))
<1>1. /\ L \in Nat /\ Len(t) = L /\ t \in Seq(Char) /\ a \in Nat \ {0} /\ At(m, a + L) = "nul"
      /\ \A j \in 0..(L - 1) : At(m, a + j) = t[j + 1]
  BY DEF Reads
<1>2. /\ n \in Nat /\ Len(u) = n /\ u \in Seq(Char)
      /\ \A j \in 0..(n - 1) : At(m, x + j) = u[j + 1] /\ u[j + 1] # "nul"
  BY DEF Reads
<1>3. k + 1 \in Occurrences(t, u) <=> (k + n <= L /\ SubSeq(t, k + 1, k + n) = u)
  <2>1. k + 1 + n - 1 = k + n /\ (k + 1 \in 1..(L + 1) /\ k + 1 + n <= L + 1 <=> k + n <= L)
    BY ONLY <1>1, <1>2, k \in Nat
  <2>. QED BY ONLY <1>1, <1>2, <2>1 DEF Occurrences
<1>4. ASSUME k + n <= L
      PROVE  /\ Len(SubSeq(t, k + 1, k + n)) = n /\ SubSeq(t, k + 1, k + n) \in Seq(Char)
             /\ \A j \in 1..n : SubSeq(t, k + 1, k + n)[j] = At(m, a + k + (j - 1))
  <2>1. /\ k + 1 \in Int /\ k + n \in Int /\ (k + n) - (k + 1) + 1 = n
        /\ (IF k + 1 <= k + n THEN (k + n) - (k + 1) + 1 ELSE 0) = n
        /\ \A i \in (k + 1)..(k + n) : i \in 1..Len(t)
    BY ONLY <1>1, <1>2, <1>4, k \in Nat
  <2>2. \A i \in (k + 1)..(k + n) : t[i] \in Char
    BY ONLY <1>1, <2>1
  <2>3. /\ SubSeq(t, k + 1, k + n) \in Seq(Char)
        /\ Len(SubSeq(t, k + 1, k + n)) = (IF k + 1 <= k + n THEN (k + n) - (k + 1) + 1 ELSE 0)
        /\ \A j \in 1..((k + n) - (k + 1) + 1) : SubSeq(t, k + 1, k + n)[j] = t[k + 1 + j - 1]
    <3>1. k + 1 \in Int /\ k + n \in Int
      BY ONLY <2>1
    <3>. QED BY ONLY <2>2, <3>1, SubSeqProperties
  <2>4. ASSUME NEW j \in 1..n PROVE t[k + 1 + j - 1] = At(m, a + k + (j - 1))
    <3>1. PICK i \in 0..(L - 1) : i = k + (j - 1)
      BY ONLY <1>1, <1>2, <1>4, k \in Nat, j \in 1..n
    <3>2. k + 1 + j - 1 = i + 1 /\ a + k + (j - 1) = a + i
      BY ONLY <1>1, <1>2, <3>1, k \in Nat, j \in 1..n
    <3>. QED BY ONLY <1>1, <3>2, i \in 0..(L - 1)
  <2>. QED BY ONLY <2>1, <2>3, <2>4
<1>5. Stands(m, a, k, x, n) <=> \A j \in 1..n : At(m, a + k + (j - 1)) = u[j]
  <2>1. ASSUME Stands(m, a, k, x, n), NEW j \in 1..n PROVE At(m, a + k + (j - 1)) = u[j]
    <3>1. j - 1 \in 0..(n - 1) /\ (j - 1) + 1 = j
      BY ONLY <1>2, j \in 1..n
    <3>2. At(m, a + k + (j - 1)) = At(m, x + (j - 1)) /\ At(m, x + (j - 1)) = u[(j - 1) + 1]
      BY ONLY <1>2, <2>1, <3>1 DEF Stands
    <3>. QED BY ONLY <3>1, <3>2
  <2>2. ASSUME \A j \in 1..n : At(m, a + k + (j - 1)) = u[j], NEW j \in 0..(n - 1)
        PROVE  At(m, a + k + j) = At(m, x + j)
    <3>1. j + 1 \in 1..n /\ (j + 1) - 1 = j
      BY ONLY <1>2, j \in 0..(n - 1)
    <3>2. At(m, a + k + ((j + 1) - 1)) = u[j + 1]
      BY ONLY <2>2, <3>1
    <3>. QED BY ONLY <1>2, <3>1, <3>2, j \in 0..(n - 1)
  <2>. QED BY <2>1, <2>2 DEF Stands
<1>6. ASSUME k + n <= L PROVE SubSeq(t, k + 1, k + n) = u <=> Stands(m, a, k, x, n)
  <2>. DEFINE v == SubSeq(t, k + 1, k + n)
  <2>1. v \in Seq(Char) /\ Len(v) = n /\ \A j \in 1..n : v[j] = At(m, a + k + (j - 1))
    BY <1>4, <1>6
  <2>. HIDE DEF v
  <2>2. v = u <=> \A j \in 1..n : v[j] = u[j]
    <3>1. (\A j \in 1..n : v[j] = u[j]) => v = u
      BY ONLY <1>2, <2>1, SeqEqual
    <3>. QED BY ONLY <3>1
  <2>3. v = u <=> Stands(m, a, k, x, n)
    BY ONLY <1>5, <2>1, <2>2
  <2>. QED BY ONLY <2>3 DEF v
<1>7. ASSUME k \in 0..(L - 1), Stands(m, a, k, x, n) PROVE k + n <= L
  <2>. SUFFICES ASSUME ~(k + n <= L) PROVE FALSE
    OBVIOUS
  <2>1. PICK j \in 0..(n - 1) : j = L - k
    BY ONLY <1>1, <1>2, <1>7, ~(k + n <= L), k \in Nat
  <2>2. a + k + j = a + L
    BY ONLY <1>1, <2>1, k \in Nat
  <2>3. At(m, a + k + j) = At(m, x + j) /\ At(m, x + j) # "nul"
    BY ONLY <1>2, <1>7, j \in 0..(n - 1) DEF Stands
  <2>. QED BY ONLY <1>1, <2>2, <2>3
<1>8. k + n <= L => k \in 0..(L - 1)
  BY ONLY <1>1, <1>2, n # 0, k \in Nat
<1>. QED BY ONLY <1>3, <1>6, <1>7, <1>8

\* strncmp says that the text at x stands at h.
LEMMA PrefixIs ==
  ASSUME NEW m, NEW x, NEW u, NEW n, Reads(m, x, u, n), NEW h \in Nat
  PROVE  strncmp(m, h, x, n) = 0 <=> \A j \in 0..(n - 1) : At(m, h + j) = At(m, x + j)
<1>. DEFINE S == {j \in 0..n : j = n \/ Differs(m, h, x, j)}
            k == Min(S)
<1>1. m \in Seq(Char) /\ x \in Nat /\ n \in Nat
  BY DEF Reads
<1>2. \A j \in 0..(n - 1) : At(m, x + j) # "nul"
  BY DEF Reads
<1>3. k \in S /\ k \in Nat /\ \A j \in S : k <= j
  <2>1. S \subseteq Nat /\ n \in S
    BY ONLY <1>1
  <2>. HIDE DEF S
  <2>. QED BY ONLY <2>1, LeastExists
<1>4. strncmp(m, h, x, n) = IF k = n THEN 0 ELSE Order(At(m, h + k), At(m, x + k))
  BY DEF strncmp
<1>. HIDE DEF k
<1>5. ASSUME k = n, NEW j \in 0..(n - 1) PROVE At(m, h + j) = At(m, x + j)
  <2>1. j \in 0..n /\ j # n /\ ~(k <= j)
    BY ONLY <1>1, <1>5, j \in 0..(n - 1)
  <2>2. ~Differs(m, h, x, j)
    BY ONLY <1>3, <2>1 DEF S
  <2>. QED BY ONLY <2>2 DEF Differs
<1>6. ASSUME k # n
      PROVE  /\ Order(At(m, h + k), At(m, x + k)) # 0
             /\ ~\A j \in 0..(n - 1) : At(m, h + j) = At(m, x + j)
  <2>1. k \in 0..(n - 1) /\ Differs(m, h, x, k) /\ k \in Nat
    BY ONLY <1>1, <1>3, <1>6 DEF S
  <2>2. At(m, h + k) # At(m, x + k)
    BY ONLY <1>2, <2>1 DEF Differs
  <2>3. At(m, h + k) \in Char /\ At(m, x + k) \in Char
    BY ONLY <1>1, <2>1, h \in Nat, StopsAre
  <2>4. /\ Code[At(m, h + k)] \in Int /\ Code[At(m, x + k)] \in Int
        /\ Code[At(m, h + k)] # Code[At(m, x + k)]
    BY ONLY <2>2, <2>3, CharsAre
  <2>5. Order(At(m, h + k), At(m, x + k)) # 0
    BY ONLY <2>4 DEF Order
  <2>. QED BY ONLY <2>1, <2>2, <2>5
<1>. QED BY ONLY <1>4, <1>5, <1>6

\* The places of a text, from 0 on, where the text at x stands, against those C99 speaks of.
Placed(m, a, L, x, n) == {k \in 0..(L - 1) : Stands(m, a, k, x, n)}
Occurring(m, a, t, L, x, u, n) ==
  LET H == Placed(m, a, L, x, n)
      O == Occurrences(t, u)
  IN  /\ n # 0 => (O = {} <=> H = {}) /\ (H # {} => Min(O) = 1 + Min(H))
      /\ n = 0 => O # {} /\ Min(O) = 1

LEMMA OccursIs ==
  ASSUME NEW m, NEW a, NEW x, NEW t, NEW u, NEW L, NEW n, Reads(m, a, t, L), Reads(m, x, u, n)
  PROVE  Occurring(m, a, t, L, x, u, n)
<1>. DEFINE H == Placed(m, a, L, x, n)
            O == Occurrences(t, u)
<1>1. L \in Nat /\ Len(t) = L /\ t \in Seq(Char) /\ n \in Nat /\ Len(u) = n /\ u \in Seq(Char)
  BY DEF Reads
<1>2. \A i \in O : i \in Int /\ 1 <= i
  <2>1. \A i \in 1..(L + 1) : i \in Int /\ 1 <= i
    BY ONLY <1>1
  <2>. QED BY ONLY <1>1, <2>1 DEF Occurrences
<1>3. H \subseteq Nat /\ H \subseteq 0..(L - 1)
  <2>1. H \subseteq 0..(L - 1)
    BY DEF Placed
  <2>. HIDE DEF H
  <2>. QED BY ONLY <1>1, <2>1
<1>4. ASSUME n # 0, NEW i \in Int PROVE i \in O <=> i - 1 \in H
  <2>1. CASE 1 <= i
    <3>1. i - 1 \in Nat /\ (i - 1) + 1 = i
      BY ONLY <2>1, i \in Int
    <3>2. (i - 1) + 1 \in Occurrences(t, u) <=> (i - 1 \in 0..(L - 1) /\ Stands(m, a, i - 1, x, n))
      BY <1>4, <3>1, StandsIs
    <3>. QED BY ONLY <3>1, <3>2 DEF H, Placed
  <2>2. CASE ~(1 <= i)
    <3>1. ~(i - 1 \in Nat)
      BY ONLY <2>2, i \in Int
    <3>. QED BY ONLY <1>2, <1>3, <2>2, <3>1
  <2>. QED BY <2>1, <2>2
<1>. HIDE DEF H, O
<1>5. n # 0 => (O = {} <=> H = {}) /\ (H # {} => Min(O) = 1 + Min(H))
  <2>1. O \subseteq Int /\ 1 \in Int
    BY ONLY <1>2
  <2>2. n # 0 => \A i \in Int : i \in O <=> i - 1 \in H
    BY ONLY <1>4
  <2>. QED BY ONLY <1>3, <2>1, <2>2, MinMoved
<1>6. ASSUME n = 0 PROVE O # {} /\ Min(O) = 1
  <2>1. /\ SubSeq(t, 1, 0) \in Seq(Char) /\ Len(SubSeq(t, 1, 0)) = 0
    BY ONLY <1>1
  <2>2. \A j \in 1..0 : SubSeq(t, 1, 0)[j] = u[j]
    OBVIOUS
  <2>3. SubSeq(t, 1, 0) = u
    BY ONLY <1>1, <1>6, <2>1, <2>2, SeqEqual
  <2>4. 1 \in 1..(L + 1) /\ 1 + n <= L + 1 /\ 1 + n - 1 = 0
    BY ONLY <1>1, <1>6
  <2>5. 1 \in O
    BY ONLY <1>1, <2>3, <2>4 DEF O, Occurrences
  <2>6. Min(O) = 1
    BY ONLY <1>2, <2>5, LeastIs
  <2>. QED BY ONLY <2>5, <2>6
<1>. QED BY ONLY <1>5, <1>6 DEF H, O, Occurring

LEMMA StrstrIs ==
  ASSUME NEW m, NEW a, NEW x, NEW t, NEW u, NEW L, NEW n,
         Reads(m, a, t, L), L = strlen(m, a), Reads(m, x, u, n), n = strlen(m, x)
  PROVE  LET place(S) == IF S = {} THEN 0 ELSE a + Min(S) - 1
         IN  strstr(m, a, x) = place(Occurrences(t, u)) /\ wcsstr(m, a, x) = place(Occurrences(t, u))
<1>. DEFINE H == Placed(m, a, L, x, n)
            O == Occurrences(t, u)
            hits == {k \in 0..(L - 1) : At(m, a + k) = At(m, x) /\ strncmp(m, a + k, x, n) = 0}
            matched(k) == Min({j \in 0..n : j = n \/ At(m, a + k + j) # At(m, x + j)})
            wide == {k \in 0..(L - 1) : matched(k) = n}
<1>1. L \in Nat /\ n \in Nat /\ a \in Nat /\ x \in Nat /\ m \in Seq(Char) /\ At(m, x + n) = "nul"
      /\ \A j \in 0..(n - 1) : At(m, x + j) # "nul"
  BY DEF Reads
<1>2. /\ n # 0 => (O = {} <=> H = {}) /\ (H # {} => Min(O) = 1 + Min(H))
      /\ n = 0 => O # {} /\ Min(O) = 1
  <2>1. Occurring(m, a, t, L, x, u, n)
    BY OccursIs
  <2>. QED BY ONLY <2>1 DEF Occurring
<1>3. At(m, x) = "nul" <=> n = 0
  <2>1. x + 0 = x /\ (n # 0 => 0 \in 0..(n - 1))
    BY ONLY <1>1
  <2>. QED BY ONLY <1>1, <2>1
<1>4. ASSUME NEW k \in 0..(L - 1), n # 0 PROVE k \in hits <=> k \in H
  <2>1. a + k \in Nat /\ k \in Nat /\ x + 0 = x /\ a + k + 0 = a + k /\ 0 \in 0..(n - 1)
    BY ONLY <1>1, <1>4, k \in 0..(L - 1)
  <2>2. strncmp(m, a + k, x, n) = 0 <=> \A j \in 0..(n - 1) : At(m, (a + k) + j) = At(m, x + j)
    BY <2>1, PrefixIs
  <2>3. strncmp(m, a + k, x, n) = 0 <=> Stands(m, a, k, x, n)
    BY ONLY <2>2 DEF Stands
  <2>4. Stands(m, a, k, x, n) => At(m, a + k) = At(m, x)
    <3>1. Stands(m, a, k, x, n) => At(m, a + k + 0) = At(m, x + 0)
      BY ONLY <2>1 DEF Stands
    <3>. QED BY ONLY <2>1, <3>1
  <2>. QED BY ONLY <2>3, <2>4, k \in 0..(L - 1) DEF Placed
<1>5. ASSUME NEW k \in 0..(L - 1) PROVE k \in wide <=> k \in H
  <2>. DEFINE S == {j \in 0..n : j = n \/ At(m, a + k + j) # At(m, x + j)}
  <2>1. matched(k) = Min(S)
    OBVIOUS
  <2>2. S \subseteq Nat /\ n \in S
    BY ONLY <1>1
  <2>3. PICK z \in Nat : z = Min(S) /\ z \in S /\ \A j \in S : z <= j
    <3>. HIDE DEF S
    <3>. QED BY ONLY <2>2, LeastExists
  <2>4. z = n <=> Stands(m, a, k, x, n)
    <3>1. ASSUME z = n, NEW j \in 0..(n - 1) PROVE At(m, a + k + j) = At(m, x + j)
      <4>1. j \in 0..n /\ ~(z <= j)
        BY ONLY <1>1, <3>1, j \in 0..(n - 1)
      <4>2. j \notin S
        BY ONLY <2>3, <4>1
      <4>. QED BY ONLY <4>1, <4>2 DEF S
    <3>2. ASSUME z # n PROVE z \in 0..(n - 1) /\ At(m, a + k + z) # At(m, x + z)
      BY ONLY <1>1, <2>3, <3>2 DEF S
    <3>. QED BY ONLY <3>1, <3>2 DEF Stands
  <2>5. k \in wide <=> z = n
    <3>1. k \in wide <=> matched(k) = n
      BY ONLY k \in 0..(L - 1) DEF wide
    <3>. HIDE DEF S, wide, matched
    <3>. QED BY ONLY <2>1, <2>3, <3>1
  <2>. QED BY ONLY <2>4, <2>5, k \in 0..(L - 1) DEF Placed
<1>6. wide = H /\ (n # 0 => hits = H)
  <2>1. wide \subseteq 0..(L - 1) /\ hits \subseteq 0..(L - 1) /\ H \subseteq 0..(L - 1)
    BY DEF Placed
  <2>. HIDE DEF wide, hits, H
  <2>. QED BY ONLY <1>4, <1>5, <2>1
<1>7. strstr(m, a, x) = IF At(m, x) = "nul" THEN a ELSE IF hits = {} THEN 0 ELSE a + Min(hits)
  BY DEF strstr
<1>8. wcsstr(m, a, x) = IF n = 0 THEN a ELSE IF wide = {} THEN 0 ELSE a + Min(wide)
  BY DEF wcsstr, wcslen
<1>9. H # {} => Min(H) \in Nat
  <2>1. H \subseteq Nat
    BY ONLY <1>1 DEF Placed
  <2>. HIDE DEF H
  <2>. QED BY ONLY <2>1, LeastExists
<1>. HIDE DEF H, O, hits, wide
<1>10. (n = 0 => a + Min(O) - 1 = a) /\ (n # 0 /\ H # {} => a + Min(O) - 1 = a + Min(H))
  BY ONLY <1>1, <1>2, <1>9
<1>11. strstr(m, a, x) = IF O = {} THEN 0 ELSE a + Min(O) - 1
  BY ONLY <1>2, <1>3, <1>6, <1>7, <1>10
<1>12. wcsstr(m, a, x) = IF O = {} THEN 0 ELSE a + Min(O) - 1
  BY ONLY <1>2, <1>3, <1>6, <1>8, <1>10
<1>. QED BY ONLY <1>11, <1>12 DEF O

LEMMA SpansDo ==
  ASSUME Fresh, Spans
  PROVE  AnswersAreC' /\ call'.f \in AnswerNames /\ call' # << >>
<1>1. PICK s \in Addresses, x \in Addresses :
       /\ IsText(s) /\ IsText(x)
       /\ \/ Call("strstr", s, x, 0, "nul", mem, strstr(mem, s, x))
          \/ Call("wcsstr", s, x, 0, "nul", mem, wcsstr(mem, s, x))
          \/ Call("strspn", s, x, 0, "nul", mem, strspn(mem, s, x))
          \/ Call("wcsspn", s, x, 0, "nul", mem, wcsspn(mem, s, x))
          \/ Call("strcspn", s, x, 0, "nul", mem, strcspn(mem, s, x))
          \/ Call("wcscspn", s, x, 0, "nul", mem, wcscspn(mem, s, x))
          \/ Call("strpbrk", s, x, 0, "nul", mem, strpbrk(mem, s, x))
          \/ Call("wcspbrk", s, x, 0, "nul", mem, wcspbrk(mem, s, x))
  BY DEF Spans
<1>. DEFINE t == TextAt(mem, s)
            u == TextAt(mem, x)
            in == Among(t, u)
            place(S) == IF S = {} THEN 0 ELSE s + Min(S) - 1
<1>2. /\ Reads(mem, s, t, strlen(mem, s)) /\ Reads(mem, x, u, strlen(mem, x))
  <2>1. s \in Nat \ {0} /\ x \in Nat \ {0} /\ mem \in Seq(Char) /\ HasText(mem, s) /\ HasText(mem, x)
    BY <1>1, FreshIs DEF IsText
  <2>. QED BY ONLY <2>1, TextReads
<1>3. /\ strspn(mem, s, x) = Min((1..(Len(t) + 1)) \ in) - 1 /\ wcsspn(mem, s, x) = strspn(mem, s, x)
      /\ strcspn(mem, s, x) = Min(in \cup {Len(t) + 1}) - 1 /\ wcscspn(mem, s, x) = strcspn(mem, s, x)
      /\ strpbrk(mem, s, x) = place(in) /\ wcspbrk(mem, s, x) = place(in)
  <2>1. SpansAsC(mem, s, x, t, u)
    BY ONLY <1>2, SpansAre
  <2>. QED BY ONLY <2>1 DEF SpansAsC
<1>4. strstr(mem, s, x) = place(Occurrences(t, u)) /\ wcsstr(mem, s, x) = place(Occurrences(t, u))
  BY ONLY <1>2, StrstrIs
<1>5. PICK f, r : /\ Call(f, s, x, 0, "nul", mem, r)
                  /\ \/ f \in {"strstr", "wcsstr"} /\ r = strstr(mem, s, x)
                     \/ f \in {"strspn", "wcsspn"} /\ r = strspn(mem, s, x)
                     \/ f \in {"strcspn", "wcscspn"} /\ r = strcspn(mem, s, x)
                     \/ f \in {"strpbrk", "wcspbrk"} /\ r = strpbrk(mem, s, x)
  <2>. HIDE DEF t, u, in, place
  <2>1. /\ wcsspn(mem, s, x) = strspn(mem, s, x) /\ wcscspn(mem, s, x) = strcspn(mem, s, x)
        /\ wcspbrk(mem, s, x) = strpbrk(mem, s, x) /\ wcsstr(mem, s, x) = strstr(mem, s, x)
    BY ONLY <1>3, <1>4
  <2>. QED BY ONLY <1>1, <2>1
<1>6. /\ call'.f = f /\ call'.d = s /\ call'.s = x /\ call'.was = mem /\ got' = r /\ call' # << >>
  BY ONLY <1>5, Called
<1>7. f \in AnswerNames /\ f \notin AnswerNames \ {"strstr", "wcsstr", "strspn", "wcsspn", "strcspn", "wcscspn", "strpbrk", "wcspbrk"}
  BY <1>5 DEF AnswerNames
<1>8. /\ f \in {"strstr", "wcsstr"} => r = place(Occurrences(t, u))
      /\ f \in {"strspn", "wcsspn"} => r = Min((1..(Len(t) + 1)) \ in) - 1
      /\ f \in {"strcspn", "wcscspn"} => r = Min(in \cup {Len(t) + 1}) - 1
      /\ f \in {"strpbrk", "wcspbrk"} => r = place(in)
  <2>. HIDE DEF t, u, in, place
  <2>. QED BY ONLY <1>3, <1>4, <1>5
<1>. QED BY ONLY <1>6, <1>7, <1>8 DEF AnswersAreC, AnswerNames

(* ---- tokens ---- *)

LEMMA TextFound ==
  ASSUME NEW m \in Seq(Char), NEW a \in Nat \ {0}, NEW L \in Nat, a + L <= Len(m), m[a + L] = "nul",
         \A j \in 0..(L - 1) : m[a + j] # "nul"
  PROVE  HasText(m, a) /\ strlen(m, a) = L /\ TextAt(m, a) = Cells(m, a, L)
<1>1. HasText(m, a)
  <2>1. a + L \in a..Len(m)
    <3>1. Len(m) \in Nat
      OBVIOUS
    <3>. QED BY ONLY <3>1, a \in Nat \ {0}, L \in Nat, a + L <= Len(m)
  <2>. QED BY ONLY <2>1, m[a + L] = "nul" DEF HasText
<1>2. PICK k \in Nat : /\ k = strlen(m, a) /\ m[a + k] = "nul" /\ TextAt(m, a) = Cells(m, a, k)
                       /\ \A j \in 0..(k - 1) : m[a + j] # "nul"
  <2>1. Text(m, a, strlen(m, a)) /\ TextAt(m, a) = Cells(m, a, strlen(m, a))
    BY ONLY <1>1, m \in Seq(Char), a \in Nat \ {0}, TextIs
  <2>. QED BY ONLY <2>1 DEF Text
<1>3. ~(k < L)
  <2>1. k < L => k \in 0..(L - 1)
    BY ONLY k \in Nat, L \in Nat
  <2>. QED BY ONLY <1>2, <2>1, \A j \in 0..(L - 1) : m[a + j] # "nul"
<1>4. ~(L < k)
  <2>1. L < k => L \in 0..(k - 1)
    BY ONLY k \in Nat, L \in Nat
  <2>. QED BY ONLY <1>2, <2>1, m[a + L] = "nul"
<1>5. k = L
  BY ONLY <1>3, <1>4, k \in Nat, L \in Nat
<1>. QED BY ONLY <1>1, <1>2, <1>5

\* The memory m still has the text t at s from its p-th character on.
Rest(m, s, t, L, p) ==
  /\ m \in Seq(Char) /\ s \in Nat \ {0} /\ L \in Nat /\ t \in Seq(Char) /\ Len(t) = L /\ s + L <= Len(m)
  /\ p \in 1..(L + 1) /\ m[s + L] = "nul"
  /\ \A i \in p..L : m[s + i - 1] = t[i] /\ t[i] # "nul"

LEMMA RestReads ==
  ASSUME NEW m, NEW s, NEW t, NEW L, NEW p, Rest(m, s, t, L, p)
  PROVE  LET a == s + p - 1
         IN  /\ Reads(m, a, TextAt(m, a), L - p + 1) /\ L - p + 1 = strlen(m, a)
             /\ \A i \in p..L : TextAt(m, a)[i - p + 1] = t[i]
<1>1. /\ m \in Seq(Char) /\ s \in Nat \ {0} /\ L \in Nat /\ Len(t) = L /\ s + L <= Len(m) /\ Len(m) \in Nat
      /\ p \in 1..(L + 1) /\ m[s + L] = "nul"
      /\ \A i \in p..L : m[s + i - 1] = t[i] /\ t[i] # "nul"
  BY DEF Rest
<1>2. PICK a \in Nat \ {0}, N \in Nat : a = s + p - 1 /\ N = L - p + 1
  BY ONLY <1>1
<1>3. a + N = s + L /\ a + N <= Len(m)
  BY ONLY <1>1, <1>2
<1>4. ASSUME NEW j \in 0..(N - 1) PROVE m[a + j] # "nul"
  <2>1. p + j \in p..L /\ s + (p + j) - 1 = a + j
    BY ONLY <1>1, <1>2, j \in 0..(N - 1)
  <2>2. m[s + (p + j) - 1] = t[p + j] /\ t[p + j] # "nul"
    BY ONLY <1>1, <2>1
  <2>. QED BY ONLY <2>1, <2>2
<1>5. HasText(m, a) /\ strlen(m, a) = N /\ TextAt(m, a) = Cells(m, a, N)
  <2>1. m[a + N] = "nul"
    BY ONLY <1>1, <1>3
  <2>. QED BY ONLY <1>1, <1>3, <1>4, <2>1, a \in Nat \ {0}, N \in Nat, TextFound
<1>6. Reads(m, a, TextAt(m, a), N)
  <2>1. Reads(m, a, TextAt(m, a), strlen(m, a))
    BY ONLY <1>1, <1>5, a \in Nat \ {0}, TextReads
  <2>. QED BY ONLY <1>5, <2>1
<1>7. ASSUME NEW i \in p..L PROVE TextAt(m, a)[i - p + 1] = t[i]
  <2>1. i - p + 1 \in 1..N /\ a + (i - p + 1) - 1 = s + i - 1
    BY ONLY <1>1, <1>2, i \in p..L
  <2>2. a + N - 1 <= Len(m)
    BY ONLY <1>1, <1>3, a \in Nat \ {0}, N \in Nat
  <2>3. Cells(m, a, N)[i - p + 1] = m[a + (i - p + 1) - 1]
    <3>1. \A j \in 1..N : Cells(m, a, N)[j] = m[a + j - 1]
      BY ONLY <1>1, <2>2, a \in Nat \ {0}, N \in Nat, CellsAre
    <3>. QED BY ONLY <2>1, <3>1
  <2>4. m[a + (i - p + 1) - 1] = m[s + i - 1]
    BY ONLY <2>1
  <2>. QED BY ONLY <1>1, <1>5, <2>3, <2>4, i \in p..L
<1>. QED BY ONLY <1>2, <1>5, <1>6, <1>7

\* The characters of t from p up to q are separators, and the next one is none; and the reverse.
Gap(t, u, L, p, q) == (\A i \in p..(q - 1) : t[i] \in ToSet(u)) /\ (q <= L => t[q] \notin ToSet(u))
Token(t, u, L, p, r) == (\A i \in p..(r - 1) : t[i] \notin ToSet(u)) /\ (r <= L => t[r] \in ToSet(u))

\* Where the two spans of the text at a, which is that of t from the p-th character on, end.
SpanEnds(m, s, t, L, p, a, x, u) ==
  /\ \E q \in p..(L + 1) : a + strspn(m, a, x) = s + q - 1 /\ Gap(t, u, L, p, q)
  /\ \E r \in p..(L + 1) : a + strcspn(m, a, x) = s + r - 1 /\ Token(t, u, L, p, r)

LEMMA SpansFrom ==
  ASSUME NEW m, NEW s, NEW t, NEW L, NEW p, Rest(m, s, t, L, p),
         NEW x, NEW u, NEW M, Reads(m, x, u, M), M = strlen(m, x), NEW b, b = s + p - 1
  PROVE  SpanEnds(m, s, t, L, p, b, x, u)
<1>1. s \in Nat \ {0} /\ L \in Nat /\ p \in 1..(L + 1)
  BY DEF Rest
<1>2. PICK a \in Nat \ {0}, N \in Nat : a = s + p - 1 /\ N = L - p + 1
  BY ONLY <1>1
<1>. DEFINE v == TextAt(m, a)
            in == Among(v, u)
            d == strspn(m, a, x)
            e == strcspn(m, a, x)
            A == (1..(N + 1)) \ in
            E == in \cup {N + 1}
<1>3. Reads(m, a, v, N) /\ N = strlen(m, a) /\ \A i \in p..L : v[i - p + 1] = t[i]
  BY <1>2, RestReads
<1>4. Len(v) = N /\ DOMAIN v = 1..N
  <2>1. v \in Seq(Char) /\ Len(v) = N
    BY <1>3 DEF Reads
  <2>. QED BY ONLY <2>1
<1>. HIDE DEF v
<1>5. d = Min(A) - 1 /\ e = Min(E) - 1
  <2>1. SpansAsC(m, a, x, v, u)
    BY <1>3, SpansAre
  <2>2. d = Min((1..(Len(v) + 1)) \ in) - 1 /\ e = Min(in \cup {Len(v) + 1}) - 1
    BY ONLY <2>1 DEF SpansAsC
  <2>. QED BY ONLY <1>4, <2>2
<1>. HIDE DEF d, e
<1>6. in = {k \in 1..N : v[k] \in ToSet(u)}
  BY ONLY <1>4 DEF Among
<1>. HIDE DEF in
<1>7. \A i \in p..L : i - p + 1 \in in <=> t[i] \in ToSet(u)
  <2>1. \A i \in p..L : i - p + 1 \in 1..N
    BY ONLY <1>1, <1>2
  <2>. QED BY ONLY <1>3, <1>6, <2>1
<1>8. PICK y \in Nat : y = Min(A) /\ y \in A /\ \A k \in A : y <= k
  <2>1. A \subseteq Nat /\ N + 1 \in A
    BY ONLY <1>2, <1>6
  <2>. HIDE DEF A
  <2>. QED BY ONLY <2>1, LeastExists
<1>9. PICK z \in Nat : z = Min(E) /\ z \in E /\ \A k \in E : z <= k
  <2>1. E \subseteq Nat /\ N + 1 \in E
    BY ONLY <1>2, <1>6
  <2>. HIDE DEF E
  <2>. QED BY ONLY <2>1, LeastExists
<1>10. \E q \in p..(L + 1) : a + d = s + q - 1 /\ Gap(t, u, L, p, q)
  <2>1. y \in 1..(N + 1) /\ y \notin in
    BY ONLY <1>8
  <2>2. PICK q \in p..(L + 1) : q = p + y - 1 /\ a + d = s + q - 1
    BY ONLY <1>1, <1>2, <1>5, <1>8, <2>1
  <2>3. ASSUME NEW i \in p..(q - 1) PROVE t[i] \in ToSet(u)
    <3>1. i \in p..L /\ i - p + 1 \in 1..(N + 1) /\ ~(y <= i - p + 1)
      BY ONLY <1>1, <1>2, <2>1, <2>2, i \in p..(q - 1), q \in p..(L + 1)
    <3>2. i - p + 1 \in in
      BY ONLY <1>8, <3>1
    <3>. QED BY ONLY <1>7, <3>1, <3>2
  <2>4. q <= L => t[q] \notin ToSet(u)
    <3>1. q <= L => q \in p..L /\ q - p + 1 = y
      BY ONLY <1>1, <2>1, <2>2, q \in p..(L + 1)
    <3>. QED BY ONLY <1>7, <2>1, <3>1
  <2>. QED BY ONLY <2>2, <2>3, <2>4 DEF Gap
<1>11. \E r \in p..(L + 1) : a + e = s + r - 1 /\ Token(t, u, L, p, r)
  <2>1. z \in 1..(N + 1) /\ (z # N + 1 => z \in in)
    <3>1. z \in in \/ z = N + 1
      BY ONLY <1>9
    <3>2. z \in in => z \in 1..N
      BY ONLY <1>6
    <3>. QED BY ONLY <1>2, <3>1, <3>2
  <2>2. PICK r \in p..(L + 1) : r = p + z - 1 /\ a + e = s + r - 1
    BY ONLY <1>1, <1>2, <1>5, <1>9, <2>1
  <2>3. ASSUME NEW i \in p..(r - 1) PROVE t[i] \notin ToSet(u)
    <3>1. i \in p..L /\ ~(z <= i - p + 1)
      BY ONLY <1>1, <1>2, <2>1, <2>2, i \in p..(r - 1), r \in p..(L + 1)
    <3>2. i - p + 1 \notin in
      BY ONLY <1>9, <3>1
    <3>. QED BY ONLY <1>7, <3>1, <3>2
  <2>4. r <= L => t[r] \in ToSet(u)
    <3>1. r <= L => r \in p..L /\ r - p + 1 = z /\ z # N + 1
      BY ONLY <1>1, <1>2, <2>1, <2>2, r \in p..(L + 1)
    <3>. QED BY ONLY <1>7, <2>1, <3>1
  <2>. QED BY ONLY <2>2, <2>3, <2>4 DEF Token
<1>12. SpanEnds(m, s, t, L, p, a, x, u)
  BY ONLY <1>10, <1>11 DEF SpanEnds, d, e
<1>. QED BY ONLY <1>2, <1>12, b = s + p - 1

\* How many runs of t begin before p: none more where there is none between, one more past one.
Counts(B, L) ==
  /\ Before(B, 1) = 0 /\ Before(B, L + 1) = Cardinality(B)
  /\ \A p \in 1..(L + 1), q \in 1..(L + 1) :
       p <= q /\ (\A i \in p..(q - 1) : i \notin B) => Before(B, q) = Before(B, p)
  /\ \A q \in 1..L, r \in 1..(L + 1) :
       q < r /\ q \in B /\ (\A i \in (q + 1)..(r - 1) : i \notin B) => Before(B, r) = Before(B, q) + 1

LEMMA BeginsAre == ASSUME NEW t \in Seq(Char), NEW u, NEW L, L = Len(t) PROVE Counts(Begins(t, u), L)
<1>. DEFINE B == Begins(t, u)
            to(p) == {j \in B : j < p}
<1>1. L \in Nat /\ B \subseteq 1..L
  <2>1. L \in Nat /\ DOMAIN t = 1..L
    OBVIOUS
  <2>. QED BY ONLY <2>1 DEF Begins
<1>. HIDE DEF B
<1>2. IsFiniteSet(B)
  <2>1. IsFiniteSet(1..L)
    BY ONLY <1>1, FS_Interval
  <2>. QED BY ONLY <1>1, <2>1, FS_Subset
<1>3. \A p : Before(B, p) = Cardinality(to(p)) /\ IsFiniteSet(to(p))
  <2>1. \A p : to(p) \subseteq B
    OBVIOUS
  <2>2. \A p : IsFiniteSet(to(p))
    BY ONLY <1>2, <2>1, FS_Subset
  <2>. QED BY ONLY <2>2 DEF Before
<1>4. \A j \in B : j \in Int /\ 1 <= j /\ j < L + 1
  BY ONLY <1>1
<1>5. Before(B, 1) = 0
  <2>1. to(1) = {}
    BY ONLY <1>4
  <2>. QED BY ONLY <1>3, <2>1, FS_EmptySet
<1>6. Before(B, L + 1) = Cardinality(B)
  <2>1. to(L + 1) = B
    BY ONLY <1>4
  <2>. QED BY ONLY <1>3, <2>1
<1>7. ASSUME NEW p \in 1..(L + 1), NEW q \in 1..(L + 1), p <= q, \A i \in p..(q - 1) : i \notin B
      PROVE  Before(B, q) = Before(B, p)
  <2>1. \A j \in B : j < q => j < p
    <3>1. \A j \in B : j < q /\ ~(j < p) => j \in p..(q - 1)
      BY ONLY <1>1, <1>4, p \in 1..(L + 1), q \in 1..(L + 1)
    <3>. QED BY ONLY <1>7, <3>1
  <2>2. \A j \in B : j < p => j < q
    BY ONLY <1>1, <1>4, <1>7, p \in 1..(L + 1), q \in 1..(L + 1)
  <2>3. to(q) = to(p)
    BY ONLY <2>1, <2>2
  <2>. QED BY ONLY <1>3, <2>3
<1>8. ASSUME NEW q \in 1..L, NEW r \in 1..(L + 1), q < r, q \in B, \A i \in (q + 1)..(r - 1) : i \notin B
      PROVE  Before(B, r) = Before(B, q) + 1
  <2>1. \A j \in B : j < r => j < q \/ j = q
    <3>1. \A j \in B : j < r /\ ~(j < q) /\ j # q => j \in (q + 1)..(r - 1)
      BY ONLY <1>1, <1>4, q \in 1..L, r \in 1..(L + 1)
    <3>. QED BY ONLY <1>8, <3>1
  <2>2. \A j \in B : j < q => j < r
    BY ONLY <1>1, <1>4, <1>8, q \in 1..L, r \in 1..(L + 1)
  <2>3. to(r) = to(q) \cup {q}
    BY ONLY <1>8, <2>1, <2>2
  <2>4. q \notin to(q)
    BY ONLY q \in 1..L, <1>1
  <2>. HIDE DEF to
  <2>5. Cardinality(to(q) \cup {q}) = Cardinality(to(q)) + 1
    BY ONLY <1>3, <2>4, FS_AddElement
  <2>. QED BY ONLY <1>3, <2>3, <2>5
<1>. QED BY ONLY <1>5, <1>6, <1>7, <1>8 DEF B, Counts

LEMMA ReadsKept ==
  ASSUME NEW m, NEW x, NEW u, NEW M, Reads(m, x, u, M), NEW w \in Seq(Char), Len(w) = Len(m),
         \A i \in x..(x + M) : w[i] = m[i]
  PROVE  Reads(w, x, u, M) /\ M = strlen(w, x)
<1>1. /\ x \in Nat \ {0} /\ M \in Nat /\ u \in Seq(Char) /\ Len(u) = M /\ m \in Seq(Char) /\ x + M <= Len(m)
      /\ \A j \in 0..(M - 1) : At(m, x + j) = u[j + 1] /\ u[j + 1] # "nul"
      /\ At(m, x + M) = "nul" /\ Len(m) \in Nat
  BY DEF Reads
<1>2. \A j \in 0..M : x + j \in x..(x + M) /\ x + j \in Int /\ x + j \in 1..Len(m) /\ x + j \in 1..Len(w)
  BY ONLY <1>1, Len(w) = Len(m)
<1>3. \A j \in 0..M : At(m, x + j) = m[x + j] /\ At(w, x + j) = w[x + j]
  BY ONLY <1>1, <1>2, w \in Seq(Char), AtIs
<1>4. \A j \in 0..M : At(w, x + j) = At(m, x + j)
  BY ONLY <1>2, <1>3, \A i \in x..(x + M) : w[i] = m[i]
<1>5. M \in 0..M /\ \A j \in 0..(M - 1) : j \in 0..M
  BY ONLY <1>1
<1>6. Reads(w, x, u, M)
  BY ONLY <1>1, <1>4, <1>5, w \in Seq(Char), Len(w) = Len(m) DEF Reads
<1>7. strlen(w, x) = M
  <2>1. w[x + M] = "nul"
    BY ONLY <1>1, <1>3, <1>4, <1>5
  <2>2. \A j \in 0..(M - 1) : w[x + j] # "nul"
    <3>1. \A j \in 0..(M - 1) : At(m, x + j) # "nul"
      BY ONLY <1>1
    <3>2. \A j \in 0..(M - 1) : At(w, x + j) = At(m, x + j) /\ At(w, x + j) = w[x + j]
      BY ONLY <1>3, <1>4, <1>5
    <3>. QED BY ONLY <3>1, <3>2
  <2>3. x \in Nat \ {0} /\ M \in Nat /\ x + M <= Len(w)
    BY ONLY <1>1, Len(w) = Len(m)
  <2>. QED BY ONLY <2>1, <2>2, <2>3, w \in Seq(Char), TextFound
<1>. QED BY ONLY <1>6, <1>7

\* The run of t from q up to the separator at r.
LEMMA RunIs ==
  ASSUME NEW t \in Seq(Char), NEW u, NEW L, L = Len(t), NEW q \in 1..L, NEW r \in 1..(L + 1), q < r,
         \A i \in q..(r - 1) : t[i] \notin ToSet(u), r <= L => t[r] \in ToSet(u)
  PROVE  TokenAt(t, u, q) = Cells(t, q, r - q)
<1>. DEFINE S == {k \in q..L : k = L \/ t[k + 1] \in ToSet(u)}
<1>1. L \in Nat
  OBVIOUS
<1>2. r - 1 \in S
  <2>1. r - 1 \in q..L /\ (r - 1 = L \/ r <= L) /\ (r - 1) + 1 = r
    BY ONLY <1>1, q \in 1..L, r \in 1..(L + 1), q < r
  <2>2. r - 1 = L \/ t[(r - 1) + 1] \in ToSet(u)
    BY ONLY <2>1, r <= L => t[r] \in ToSet(u)
  <2>. QED BY ONLY <2>1, <2>2
<1>3. ASSUME NEW k \in S PROVE r - 1 <= k /\ k \in Int
  <2>1. k \in q..L /\ (k = L \/ t[k + 1] \in ToSet(u))
    OBVIOUS
  <2>2. CASE k = L
    BY ONLY <1>1, <2>1, <2>2, r \in 1..(L + 1)
  <2>3. CASE t[k + 1] \in ToSet(u)
    <3>1. k + 1 \notin q..(r - 1)
      BY ONLY <2>3, \A i \in q..(r - 1) : t[i] \notin ToSet(u)
    <3>. QED BY ONLY <1>1, <2>1, <3>1, q \in 1..L, r \in 1..(L + 1)
  <2>. QED BY ONLY <2>1, <2>2, <2>3
<1>. HIDE DEF S
<1>4. Min(S) = r - 1
  BY ONLY <1>2, <1>3, LeastIs
<1>5. q + (r - q) - 1 = r - 1
  BY ONLY <1>1, q \in 1..L, r \in 1..(L + 1)
<1>. QED BY <1>4, <1>5 DEF TokenAt, Cells, S

\* The texts w of the first runs of t, as many as there are.
Runs(w, t, u) ==
  /\ w \in Seq(Seq(Char))
  /\ \A k \in DOMAIN w : \E i \in Begins(t, u) : Before(Begins(t, u), i) = k - 1 /\ w[k] = TokenAt(t, u, i)

\* strtok goes on from the p-th character of the text t at s, with the separators u at x, and the
\* runs before it are in w.
Splits(m, s, x, t, u, p, w) ==
  /\ Rest(m, s, t, Len(t), p) /\ Reads(m, x, u, Len(u)) /\ Len(u) = strlen(m, x)
  /\ x + Len(u) < s \/ s + Len(t) < x
  /\ p # 1 => t[p - 1] \in ToSet(u)
  /\ Runs(w, t, u) /\ Before(Begins(t, u), p) = Len(w)

\* One run more: w with y, the run from q to the separator at r.
OneMore(t, u, L, w, p, q, r, y) ==
  /\ t \in Seq(Char) /\ L = Len(t) /\ Runs(w, t, u)
  /\ p \in 1..(L + 1) /\ q \in 1..L /\ r \in 1..(L + 1) /\ p <= q /\ q < r
  /\ (p # 1 => t[p - 1] \in ToSet(u)) /\ Before(Begins(t, u), p) = Len(w)
  /\ Gap(t, u, L, p, q) /\ Token(t, u, L, q, r) /\ y = Cells(t, q, r - q)

LEMMA RunsMore ==
  ASSUME NEW t, NEW u, NEW L, NEW w, NEW p, NEW q, NEW r, NEW y, OneMore(t, u, L, w, p, q, r, y)
  PROVE  Runs(Append(w, y), t, u) /\ Before(Begins(t, u), r) = Len(Append(w, y))
<1>0. /\ \A i \in p..(q - 1) : t[i] \in ToSet(u)
      /\ \A i \in q..(r - 1) : t[i] \notin ToSet(u)
      /\ r <= L => t[r] \in ToSet(u)
  BY DEF OneMore, Gap, Token
<1>h. /\ t \in Seq(Char) /\ L = Len(t) /\ Runs(w, t, u)
      /\ p \in 1..(L + 1) /\ q \in 1..L /\ r \in 1..(L + 1) /\ p <= q /\ q < r
      /\ (p # 1 => t[p - 1] \in ToSet(u)) /\ Before(Begins(t, u), p) = Len(w)
      /\ y = Cells(t, q, r - q)
  BY DEF OneMore
<1>. DEFINE B == Begins(t, u)
<1>1. L \in Nat /\ DOMAIN t = 1..L
  BY ONLY <1>h
<1>2. \A i : i \in B <=> i \in 1..L /\ t[i] \notin ToSet(u) /\ (i = 1 \/ t[i - 1] \in ToSet(u))
  BY ONLY <1>1 DEF Begins
<1>3. q \in B
  <2>1. t[q] \notin ToSet(u)
    <3>1. q \in q..(r - 1)
      BY ONLY <1>h, <1>1
    <3>. QED BY ONLY <3>1, <1>0
  <2>2. q = 1 \/ t[q - 1] \in ToSet(u)
    <3>1. q = p \/ q - 1 \in p..(q - 1)
      BY ONLY <1>h, <1>1
    <3>. QED BY ONLY <1>h, <3>1, <1>0
  <2>. QED BY ONLY <1>h, <1>2, <2>1, <2>2
<1>4. \A i \in p..(q - 1) : i \notin B
  BY ONLY <1>2, <1>0
<1>5. \A i \in (q + 1)..(r - 1) : i \notin B
  <2>1. ASSUME NEW i \in (q + 1)..(r - 1) PROVE i # 1 /\ t[i - 1] \notin ToSet(u)
    <3>1. i # 1 /\ i - 1 \in q..(r - 1)
      BY ONLY <1>h, <1>1, i \in (q + 1)..(r - 1)
    <3>. QED BY ONLY <3>1, <1>0
  <2>. QED BY ONLY <1>2, <2>1
<1>6. Before(B, q) = Len(w) /\ Before(B, r) = Len(w) + 1
  <2>1. q \in 1..(L + 1)
    BY ONLY <1>h, <1>1
  <2>2. /\ \A i, j \in 1..(L + 1) : i <= j /\ (\A k \in i..(j - 1) : k \notin B) => Before(B, j) = Before(B, i)
        /\ \A i \in 1..L, j \in 1..(L + 1) :
             i < j /\ i \in B /\ (\A k \in (i + 1)..(j - 1) : k \notin B) => Before(B, j) = Before(B, i) + 1
    <3>1. Counts(B, L)
      BY ONLY <1>h, BeginsAre
    <3>. QED BY ONLY <3>1 DEF Counts
  <2>3. Before(B, q) = Before(B, p)
    BY ONLY <1>h, <1>4, <2>1, <2>2
  <2>4. Before(B, r) = Before(B, q) + 1
    BY ONLY <1>h, <1>3, <1>5, <2>2
  <2>. QED BY ONLY <1>h, <2>3, <2>4
<1>7. y = TokenAt(t, u, q)
  <2>1. /\ t \in Seq(Char) /\ L = Len(t) /\ q \in 1..L /\ r \in 1..(L + 1) /\ q < r
        /\ y = Cells(t, q, r - q)
    BY ONLY <1>h
  <2>. HIDE DEF B
  <2>. QED BY ONLY <1>0, <2>1, RunIs
<1>8. y \in Seq(Char)
  <2>1. /\ q \in Nat \ {0} /\ r - q \in Nat /\ q + (r - q) - 1 <= Len(t)
    BY ONLY <1>h, <1>1
  <2>2. Cells(t, q, r - q) \in Seq(Char)
    BY ONLY <1>h, <2>1, CellsAre
  <2>. QED BY ONLY <1>h, <2>2
<1>9. w \in Seq(Seq(Char)) /\ \A k \in DOMAIN w : \E i \in B : Before(B, i) = k - 1 /\ w[k] = TokenAt(t, u, i)
  BY ONLY <1>h DEF Runs, B
<1>. DEFINE v == Append(w, y)
            T == Seq(Char)
<1>10. /\ v \in Seq(T) /\ Len(v) = Len(w) + 1 /\ Len(w) \in Nat
       /\ v[Len(w) + 1] = y /\ \A k \in DOMAIN w : v[k] = w[k]
  <2>1. y \in T /\ w \in Seq(T)
    BY ONLY <1>8, <1>9
  <2>. HIDE DEF T
  <2>. QED BY ONLY <2>1
<1>11. DOMAIN v = 1..(Len(w) + 1) /\ \A k \in 1..(Len(w) + 1) : k \in DOMAIN w \/ k = Len(w) + 1
  <2>. HIDE DEF v, T
  <2>1. DOMAIN w = 1..Len(w) /\ DOMAIN v = 1..Len(v)
    BY ONLY <1>9, <1>10
  <2>2. \A k \in 1..(Len(w) + 1) : k \in 1..Len(w) \/ k = Len(w) + 1
    BY ONLY <1>10
  <2>. QED BY ONLY <1>10, <2>1, <2>2
<1>. HIDE DEF v, B
<1>12. ASSUME NEW k \in DOMAIN v PROVE \E i \in B : Before(B, i) = k - 1 /\ v[k] = TokenAt(t, u, i)
  <2>1. CASE k \in DOMAIN w
    BY ONLY <1>9, <1>10, <2>1
  <2>2. CASE k = Len(w) + 1
    <3>1. k - 1 = Len(w)
      BY ONLY <1>10, <2>2
    <3>. QED BY ONLY <1>3, <1>6, <1>7, <1>10, <2>2, <3>1
  <2>. QED BY ONLY <1>11, <2>1, <2>2, k \in DOMAIN v
<1>13. Runs(v, t, u)
  BY ONLY <1>10, <1>12 DEF Runs, B
<1>. QED BY ONLY <1>6, <1>10, <1>13 DEF v, B

\* The text found is the run, and it ends where the separator, or the text, is.
Cut(m, s, t, L, q, r, w, b, e) ==
  /\ t \in Seq(Char) /\ L = Len(t) /\ q \in 1..L /\ r \in 1..(L + 1) /\ q < r /\ Rest(m, s, t, L, q)
  /\ w \in Seq(Char) /\ Len(w) = Len(m) /\ b = s + q - 1 /\ e = s + r - 1 /\ w[e] = "nul"
  /\ \A i \in q..(r - 1) : w[s + i - 1] = m[s + i - 1]

LEMMA TokenIs ==
  ASSUME NEW m, NEW s, NEW t, NEW L, NEW q, NEW r, NEW w, NEW b, NEW e, Cut(m, s, t, L, q, r, w, b, e)
  PROVE  /\ SubSeq(m, b, e - 1) = Cells(t, q, r - q) /\ TextAt(w, b) = Cells(t, q, r - q)
         /\ Cells(t, q, r - q) \in Seq(Char)
<1>0. /\ t \in Seq(Char) /\ L = Len(t) /\ q \in 1..L /\ r \in 1..(L + 1) /\ q < r /\ Rest(m, s, t, L, q)
      /\ w \in Seq(Char) /\ Len(w) = Len(m) /\ b = s + q - 1 /\ e = s + r - 1 /\ w[e] = "nul"
      /\ \A i \in q..(r - 1) : w[s + i - 1] = m[s + i - 1]
  BY DEF Cut
<1>1. /\ m \in Seq(Char) /\ s \in Nat \ {0} /\ L \in Nat /\ s + L <= Len(m) /\ Len(m) \in Nat
      /\ \A i \in q..L : m[s + i - 1] = t[i] /\ t[i] # "nul"
  BY ONLY <1>0 DEF Rest
<1>2. PICK a \in Nat \ {0}, n \in Nat : a = b /\ a = s + q - 1 /\ n = r - q
  BY ONLY <1>0, <1>1
<1>3. /\ a + n - 1 = e - 1 /\ a + n = e /\ a + n - 1 <= Len(m) /\ a + n <= Len(m)
      /\ q \in Nat \ {0} /\ q + n - 1 <= Len(t)
  <2>1. /\ s \in Nat \ {0} /\ L \in Nat /\ s + L <= Len(m) /\ Len(m) \in Nat
        /\ L = Len(t) /\ q \in 1..L /\ r \in 1..(L + 1) /\ q < r /\ e = s + r - 1
    BY ONLY <1>0, <1>1
  <2>. QED BY ONLY <1>2, <2>1, a \in Nat \ {0}, n \in Nat
<1>4. \A j \in 1..n : q + j - 1 \in q..(r - 1) /\ q + j - 1 \in q..L /\ s + (q + j - 1) - 1 = a + j - 1
  BY ONLY <1>0, <1>1, <1>2
<1>. DEFINE y == Cells(t, q, n)
            z == Cells(m, a, n)
            v == Cells(w, a, n)
<1>5. y \in Seq(Char) /\ Len(y) = n /\ \A j \in 1..n : y[j] = t[q + j - 1]
  <2>1. t \in Seq(Char) /\ q \in Nat \ {0} /\ q + n - 1 <= Len(t)
    BY ONLY <1>0, <1>3
  <2>2. /\ Cells(t, q, n) \in Seq(Char) /\ Len(Cells(t, q, n)) = n
        /\ \A j \in 1..n : Cells(t, q, n)[j] = t[q + j - 1]
    BY ONLY <2>1, n \in Nat, CellsAre
  <2>. QED BY ONLY <2>2
<1>6. z \in Seq(Char) /\ Len(z) = n /\ \A j \in 1..n : z[j] = m[a + j - 1]
  <2>1. m \in Seq(Char) /\ a + n - 1 <= Len(m)
    BY ONLY <1>1, <1>3
  <2>2. /\ Cells(m, a, n) \in Seq(Char) /\ Len(Cells(m, a, n)) = n
        /\ \A j \in 1..n : Cells(m, a, n)[j] = m[a + j - 1]
    BY ONLY <2>1, a \in Nat \ {0}, n \in Nat, CellsAre
  <2>. QED BY ONLY <2>2
<1>7. v \in Seq(Char) /\ Len(v) = n /\ \A j \in 1..n : v[j] = w[a + j - 1]
  <2>1. w \in Seq(Char) /\ a + n - 1 <= Len(w)
    BY ONLY <1>0, <1>3
  <2>2. /\ Cells(w, a, n) \in Seq(Char) /\ Len(Cells(w, a, n)) = n
        /\ \A j \in 1..n : Cells(w, a, n)[j] = w[a + j - 1]
    BY ONLY <2>1, a \in Nat \ {0}, n \in Nat, CellsAre
  <2>. QED BY ONLY <2>2
<1>. HIDE DEF y, z, v
<1>8. \A j \in 1..n : m[a + j - 1] = t[q + j - 1] /\ w[a + j - 1] = t[q + j - 1] /\ t[q + j - 1] # "nul"
  BY ONLY <1>0, <1>1, <1>4
<1>9. z = y
  <2>1. \A j \in 1..n : z[j] = y[j]
    BY ONLY <1>5, <1>6, <1>8
  <2>. QED BY ONLY <1>5, <1>6, <2>1, SeqEqual
<1>10. v = y
  <2>1. \A j \in 1..n : v[j] = y[j]
    BY ONLY <1>5, <1>7, <1>8
  <2>. QED BY ONLY <1>5, <1>7, <2>1, SeqEqual
<1>11. TextAt(w, a) = v
  <2>1. ASSUME NEW j \in 0..(n - 1) PROVE w[a + j] # "nul"
    <3>1. j + 1 \in 1..n /\ a + (j + 1) - 1 = a + j
      BY ONLY j \in 0..(n - 1), a \in Nat \ {0}, n \in Nat
    <3>2. w[a + (j + 1) - 1] # "nul"
      BY ONLY <1>8, <3>1
    <3>. QED BY ONLY <3>1, <3>2
  <2>2. a + n <= Len(w) /\ w[a + n] = "nul"
    BY ONLY <1>0, <1>3
  <2>3. TextAt(w, a) = Cells(w, a, n)
    BY ONLY <1>0, <2>1, <2>2, a \in Nat \ {0}, n \in Nat, TextFound
  <2>. QED BY ONLY <2>3 DEF v
<1>12. SubSeq(m, b, e - 1) = z
  BY ONLY <1>2, <1>3 DEF z, Cells
<1>. QED BY ONLY <1>2, <1>5, <1>9, <1>10, <1>11, <1>12 DEF y

\* What a call of strtok leaves: all the runs returned, or one more and where to go on.
Splitting(m, s, x, t, u, w, state) ==
  \/ state = 0 /\ Runs(w, t, u) /\ Len(w) = Cardinality(Begins(t, u))
  \/ \E p \in 1..(Len(t) + 1) : state = s + p - 1 /\ Splits(m, s, x, t, u, p, w)
Returned(m, t, u, w, r) == IF r = 0 THEN Len(w) = Cardinality(Begins(t, u)) ELSE TextAt(m, r) = Last(w)

LEMMA StrtokDoes ==
  ASSUME NEW s, NEW x, NEW t, NEW u, NEW L, L = Len(t), NEW p \in 1..(L + 1), NEW a, a = s + p - 1,
         Splits(mem, s, x, t, u, p, tokens), strtok(a, x)
  PROVE  Splitting(mem', s, x, t, u, tokens', rt_strtok_state') /\ Returned(mem', t, u, tokens', got')
<1>. DEFINE B == Begins(t, u)
<1>1. /\ Rest(mem, s, t, L, p) /\ Reads(mem, x, u, Len(u)) /\ Len(u) = strlen(mem, x)
      /\ x + Len(u) < s \/ s + L < x
      /\ p # 1 => t[p - 1] \in ToSet(u)
      /\ Runs(tokens, t, u) /\ Before(B, p) = Len(tokens)
  BY DEF Splits
<1>2. /\ mem \in Seq(Char) /\ s \in Nat \ {0} /\ L \in Nat /\ t \in Seq(Char) /\ s + L <= Len(mem) /\ Len(mem) \in Nat
      /\ mem[s + L] = "nul" /\ \A i \in p..L : mem[s + i - 1] = t[i] /\ t[i] # "nul"
  BY ONLY <1>1 DEF Rest
<1>3. a \in Nat \ {0}
  BY <1>2
<1>4. PICK q \in p..(L + 1) : /\ a + strspn(mem, a, x) = s + q - 1 /\ Gap(t, u, L, p, q)
                              /\ \A i \in p..(q - 1) : t[i] \in ToSet(u)
                              /\ q <= L => t[q] \notin ToSet(u)
  <2>1. SpanEnds(mem, s, t, L, p, a, x, u)
    BY ONLY <1>1, a = s + p - 1, SpansFrom
  <2>2. PICK q \in p..(L + 1) : a + strspn(mem, a, x) = s + q - 1 /\ Gap(t, u, L, p, q)
    BY ONLY <2>1 DEF SpanEnds
  <2>. QED BY ONLY <2>2, q \in p..(L + 1) DEF Gap
<1>5. PICK b \in Nat \ {0} : b = s + q - 1 /\ a + strspn(mem, a, x) = b /\ a # 0
  BY <1>2, <1>3, <1>4
<1>6. CASE q = L + 1
  <2>1. mem[b] = "nul"
    <3>1. b = s + L
      BY ONLY <1>2, <1>5, <1>6
    <3>. QED BY ONLY <1>2, <3>1
  <2>2. rt_strtok_state' = 0 /\ got' = 0 /\ mem' = mem /\ tokens' = tokens
    BY <1>5, <2>1 DEF strtok
  <2>3. Len(tokens) = Cardinality(B)
    <3>1. \A i \in p..((L + 1) - 1) : i \notin B
      <4>1. \A i \in p..((L + 1) - 1) : t[i] \in ToSet(u)
        BY ONLY <1>4, <1>6
      <4>. QED BY ONLY <4>1 DEF Begins
    <3>2. Counts(B, L)
      BY ONLY <1>2, L = Len(t), BeginsAre
    <3>3. p <= L + 1 /\ L + 1 \in 1..(L + 1) /\ p \in 1..(L + 1)
      BY ONLY <1>2, p \in 1..(L + 1)
    <3>4. Before(B, L + 1) = Before(B, p) /\ Before(B, L + 1) = Cardinality(B)
      BY ONLY <3>1, <3>2, <3>3 DEF Counts
    <3>. QED BY ONLY <1>1, <3>4
  <2>. QED BY ONLY <1>1, <2>2, <2>3 DEF Splitting, Returned
<1>7. CASE q # L + 1
  <2>1. q \in 1..L /\ q \in p..L /\ p <= q /\ p \in 1..(L + 1) /\ q <= L /\ q \in q..L
    BY ONLY <1>2, <1>7, q \in p..(L + 1), p \in 1..(L + 1)
  <2>2. Rest(mem, s, t, L, q)
    <3>1. q \in 1..(L + 1) /\ \A i \in q..L : i \in p..L
      BY ONLY <1>2, <2>1
    <3>. QED BY ONLY <1>2, <3>1, L = Len(t) DEF Rest
  <2>3. PICK r \in q..(L + 1) : /\ b + strcspn(mem, b, x) = s + r - 1 /\ Token(t, u, L, q, r)
                                /\ \A i \in q..(r - 1) : t[i] \notin ToSet(u)
                                /\ r <= L => t[r] \in ToSet(u)
    <3>1. SpanEnds(mem, s, t, L, q, b, x, u)
      BY ONLY <1>1, <1>5, <2>2, SpansFrom
    <3>2. PICK r \in q..(L + 1) : b + strcspn(mem, b, x) = s + r - 1 /\ Token(t, u, L, q, r)
      BY ONLY <3>1 DEF SpanEnds
    <3>. QED BY ONLY <3>2, r \in q..(L + 1) DEF Token
  <2>4. q < r /\ r \in 1..(L + 1)
    <3>1. q # r
      BY ONLY <1>4, <2>1, <2>3
    <3>. QED BY ONLY <1>2, <2>1, <3>1, r \in q..(L + 1)
  <2>0. PICK e \in Nat : e = s + r - 1
    BY ONLY <1>2, <2>4
  <2>. DEFINE y == SubSeq(mem, b, e - 1)
  <2>5. mem[b] # "nul" /\ b # 0
    BY ONLY <1>2, <1>5, <2>1
  <2>6. /\ got' = b /\ tokens' = Append(tokens, y)
        /\ IF mem[e] = "nul" THEN rt_strtok_state' = 0 /\ mem' = mem
           ELSE rt_strtok_state' = e + 1 /\ mem' = [mem EXCEPT ![e] = "nul"]
    <3>1. b + strcspn(mem, b, x) = e
      BY ONLY <2>0, <2>3
    <3>. QED BY <1>5, <2>5, <3>1 DEF strtok
  <2>7. /\ e \in 1..Len(mem) /\ (mem[e] = "nul" <=> r = L + 1)
        /\ \A i \in q..(r - 1) : s + i - 1 # e /\ s + i - 1 \in 1..Len(mem)
    <3>1. r = L + 1 => e = s + L
      BY ONLY <1>2, <2>0, <2>4
    <3>2. r # L + 1 => r \in p..L
      BY ONLY <1>2, <2>1, r \in q..(L + 1)
    <3>3. e \in 1..Len(mem) /\ \A i \in q..(r - 1) : s + i - 1 # e /\ s + i - 1 \in 1..Len(mem)
      BY ONLY <1>2, <2>0, <2>1, r \in q..(L + 1)
    <3>. QED BY ONLY <1>2, <2>0, <3>1, <3>2, <3>3
  <2>8. /\ mem' \in Seq(Char) /\ Len(mem') = Len(mem) /\ mem'[e] = "nul"
        /\ \A i \in 1..Len(mem) : i # e => mem'[i] = mem[i]
    <3>1. CASE mem[e] = "nul"
      BY ONLY <1>2, <2>6, <3>1
    <3>2. CASE mem[e] # "nul"
      <4>1. mem' = [mem EXCEPT ![e] = "nul"] /\ "nul" \in Char
        BY ONLY <2>6, <3>2, CharsAre
      <4>. QED BY ONLY <1>2, <2>7, <4>1
    <3>. QED BY ONLY <3>1, <3>2
  <2>. HIDE DEF y
  <2>9. y = Cells(t, q, r - q) /\ TextAt(mem', b) = Cells(t, q, r - q) /\ y \in Seq(Char)
    <3>1. \A i \in q..(r - 1) : mem'[s + i - 1] = mem[s + i - 1]
      BY ONLY <2>7, <2>8
    <3>3. mem' \in Seq(Char) /\ Len(mem') = Len(mem) /\ mem'[e] = "nul" /\ t \in Seq(Char)
          /\ b = s + q - 1 /\ e = s + r - 1 /\ q \in 1..L
      BY ONLY <1>2, <1>5, <2>0, <2>1, <2>8
    <3>2. /\ SubSeq(mem, b, e - 1) = Cells(t, q, r - q) /\ TextAt(mem', b) = Cells(t, q, r - q)
          /\ Cells(t, q, r - q) \in Seq(Char)
      <4>1. Cut(mem, s, t, L, q, r, mem', b, e)
        BY ONLY <2>2, <2>4, <3>1, <3>3, L = Len(t) DEF Cut
      <4>. QED BY ONLY <4>1, TokenIs
    <3>. QED BY ONLY <3>2 DEF y
  <2>10. Runs(tokens', t, u) /\ Before(B, r) = Len(tokens')
    <3>1. Gap(t, u, L, p, q) /\ Token(t, u, L, q, r)
      BY ONLY <1>4, <2>3
    <3>2. Runs(tokens, t, u) /\ Before(Begins(t, u), p) = Len(tokens) /\ t \in Seq(Char) /\ y = Cells(t, q, r - q)
      BY ONLY <1>1, <1>2, <2>9 DEF B
    <3>3. p # 1 => t[p - 1] \in ToSet(u)
      BY ONLY <1>1
    <3>4. Runs(Append(tokens, y), t, u) /\ Before(Begins(t, u), r) = Len(Append(tokens, y))
      <4>1. OneMore(t, u, L, tokens, p, q, r, y)
        BY ONLY <2>1, <2>4, <3>1, <3>2, <3>3, L = Len(t) DEF OneMore
      <4>. QED BY ONLY <4>1, RunsMore
    <3>. QED BY ONLY <2>6, <3>4 DEF B
  <2>11. Returned(mem', t, u, tokens', got')
    <3>1. Last(tokens') = y
      <4>1. tokens \in Seq(Seq(Char))
        BY ONLY <1>1 DEF Runs
      <4>. QED BY ONLY <2>6, <2>9, <4>1 DEF Last
    <3>. QED BY ONLY <2>5, <2>6, <2>9, <3>1 DEF Returned
  <2>12. CASE r = L + 1
    <3>1. Counts(B, L)
      BY ONLY <1>2, L = Len(t), BeginsAre
    <3>2. Len(tokens') = Cardinality(B)
      BY ONLY <2>10, <2>12, <3>1 DEF Counts
    <3>3. rt_strtok_state' = 0
      BY ONLY <2>6, <2>7, <2>12
    <3>. QED BY ONLY <2>10, <2>11, <3>2, <3>3 DEF Splitting
  <2>13. CASE r # L + 1
    <3>1. r \in 1..L /\ r + 1 \in 1..(L + 1) /\ r + 1 # 1 /\ (r + 1) - 1 = r /\ s + (r + 1) - 1 = e + 1 /\ r <= L
      BY ONLY <1>2, <2>0, <2>4, <2>13
    <3>2. rt_strtok_state' = s + (r + 1) - 1
      BY ONLY <2>6, <2>7, <2>13, <3>1
    <3>3. Rest(mem', s, t, L, r + 1)
      <4>1. s + L \in 1..Len(mem) /\ s + L # e
        BY ONLY <1>2, <2>0, <3>1
      <4>2. \A i \in (r + 1)..L : i \in p..L /\ s + i - 1 \in 1..Len(mem) /\ s + i - 1 # e
        BY ONLY <1>2, <2>0, <2>1, <2>4, <3>1
      <4>3. \A i \in (r + 1)..L : mem'[s + i - 1] = t[i] /\ t[i] # "nul"
        BY ONLY <1>2, <2>8, <4>2
      <4>4. mem'[s + L] = "nul" /\ s + L <= Len(mem')
        BY ONLY <1>2, <2>8, <4>1
      <4>. QED BY ONLY <1>2, <2>8, <3>1, <4>3, <4>4, L = Len(t) DEF Rest
    <3>4. Reads(mem', x, u, Len(u)) /\ Len(u) = strlen(mem', x)
      <4>1. x \in Nat \ {0} /\ Len(u) \in Nat /\ x + Len(u) <= Len(mem)
        BY ONLY <1>1 DEF Reads
      <4>2. \A i \in x..(x + Len(u)) : i \in 1..Len(mem) /\ i # e
        BY ONLY <1>1, <1>2, <2>0, <3>1, <4>1
      <4>3. \A i \in x..(x + Len(u)) : mem'[i] = mem[i]
        BY ONLY <2>8, <4>2
      <4>. QED BY ONLY <1>1, <2>8, <4>3, ReadsKept
    <3>5. Before(B, r + 1) = Len(tokens')
      <4>1. Counts(B, L)
        BY ONLY <1>2, L = Len(t), BeginsAre
      <4>2. \A i \in r..((r + 1) - 1) : i \notin B
        <5>1. r \notin B
          BY ONLY <2>3, <3>1 DEF Begins
        <5>2. \A i \in r..((r + 1) - 1) : i = r
          BY ONLY <3>1
        <5>. QED BY ONLY <5>1, <5>2
      <4>3. Before(B, r + 1) = Before(B, r)
        <5>1. r <= r + 1
          BY ONLY <3>1
        <5>. QED BY ONLY <2>4, <3>1, <4>1, <4>2, <5>1 DEF Counts
      <4>. QED BY ONLY <2>10, <4>3
    <3>6. t[(r + 1) - 1] \in ToSet(u)
      BY ONLY <2>3, <3>1
    <3>7. Splits(mem', s, x, t, u, r + 1, tokens')
      BY ONLY <1>1, <2>10, <3>3, <3>4, <3>5, <3>6, L = Len(t) DEF Splits
    <3>. QED BY ONLY <2>11, <3>1, <3>2, <3>7, L = Len(t) DEF Splitting
  <2>. QED BY ONLY <2>12, <2>13
<1>. QED BY ONLY <1>6, <1>7

\* Either way there are runs of the text, and no others, in what was returned.
LEMMA SplittingRuns ==
  ASSUME NEW m, NEW s, NEW x, NEW t, NEW u, NEW w, NEW state, Splitting(m, s, x, t, u, w, state)
  PROVE  Runs(w, t, u)
  BY DEF Splitting, Splits

\* The first call goes on from the first character: nothing is written yet.
LEMMA FirstSplits ==
  ASSUME Fresh, tokens = << >>, NEW s \in Addresses, NEW x \in Addresses, IsText(s), IsText(x),
         Apart(s, strlen(mem, s) + 1, x, strlen(mem, x) + 1)
  PROVE  Splits(mem, s, x, TextAt(mem, s), TextAt(mem, x), 1, tokens)
<1>. DEFINE t == TextAt(mem, s)
            u == TextAt(mem, x)
<1>1. s \in Nat \ {0} /\ x \in Nat \ {0} /\ mem \in Seq(Char) /\ HasText(mem, s) /\ HasText(mem, x)
  BY FreshIs DEF IsText
<1>2. Reads(mem, s, t, strlen(mem, s)) /\ Reads(mem, x, u, strlen(mem, x))
  BY ONLY <1>1, TextReads
<1>3. PICK L \in Nat, M \in Nat : L = strlen(mem, s) /\ L = Len(t) /\ M = strlen(mem, x) /\ M = Len(u)
  BY ONLY <1>2 DEF Reads
<1>. HIDE DEF t, u
<1>4. Rest(mem, s, t, L, 1)
  <2>1. /\ t \in Seq(Char) /\ s + L <= Len(mem) /\ At(mem, s + L) = "nul" /\ Len(mem) \in Nat
        /\ \A j \in 0..(L - 1) : At(mem, s + j) = t[j + 1] /\ t[j + 1] # "nul"
    BY ONLY <1>1, <1>2, <1>3 DEF Reads
  <2>2. \A j \in 0..L : s + j \in Int /\ s + j \in 1..Len(mem)
    BY ONLY <1>1, <2>1, L \in Nat
  <2>3. \A j \in 0..L : At(mem, s + j) = mem[s + j]
    BY ONLY <1>1, <2>2, AtIs
  <2>4. L \in 0..L
    BY ONLY L \in Nat
  <2>5. ASSUME NEW i \in 1..L PROVE mem[s + i - 1] = t[i] /\ t[i] # "nul"
    <3>1. i - 1 \in 0..(L - 1) /\ i - 1 \in 0..L /\ (i - 1) + 1 = i /\ s + (i - 1) = s + i - 1
      BY ONLY <1>1, L \in Nat, i \in 1..L
    <3>. QED BY ONLY <2>1, <2>3, <3>1
  <2>6. 1 \in 1..(L + 1)
    BY ONLY L \in Nat
  <2>. QED BY ONLY <1>1, <1>3, <2>1, <2>3, <2>4, <2>5, <2>6, L \in Nat DEF Rest
<1>5. x + Len(u) < s \/ s + Len(t) < x
  <2>1. s + (L + 1) <= x \/ x + (M + 1) <= s
    BY ONLY <1>3, Apart(s, strlen(mem, s) + 1, x, strlen(mem, x) + 1) DEF Apart
  <2>. QED BY ONLY <1>1, <1>3, <2>1, L \in Nat, M \in Nat
<1>6. Runs(tokens, t, u) /\ Before(Begins(t, u), 1) = Len(tokens)
  <2>1. Counts(Begins(t, u), L)
    <3>1. t \in Seq(Char)
      BY ONLY <1>2 DEF Reads
    <3>. QED BY ONLY <1>3, <3>1, BeginsAre
  <2>2. tokens \in Seq(Seq(Char)) /\ DOMAIN tokens = {} /\ Len(tokens) = 0
    BY ONLY tokens = << >>
  <2>. QED BY ONLY <2>1, <2>2 DEF Runs, Counts
<1>7. Rest(mem, s, t, Len(t), 1) /\ Reads(mem, x, u, Len(u)) /\ Len(u) = strlen(mem, x)
  BY ONLY <1>2, <1>3, <1>4
<1>8. Splits(mem, s, x, t, u, 1, tokens)
  BY ONLY <1>5, <1>6, <1>7 DEF Splits
<1>. QED BY ONLY <1>8 DEF t, u

(* ---- the theorem ---- *)

StringsSpec == StringsInit /\ [][StringsNext]_stringVars

\* What strtok returned so far, and where it goes on.
SplittingAsC ==
  call # << >> /\ call.f = "strtok" =>
    /\ Splitting(mem, call.d, call.s, TextAt(call.was, call.d), TextAt(call.was, call.s), tokens, rt_strtok_state)
    /\ Returned(mem, TextAt(call.was, call.d), TextAt(call.was, call.s), tokens, got)

StringsInv ==
  /\ call = << >> => Fresh /\ tokens = << >>
  /\ MovesAreC /\ TextsAreC /\ AnswersAreC /\ SplittingAsC

LEMMA TokenizeDoes ==
  ASSUME StringsInv, Tokenize
  PROVE  call' # << >> /\ call'.f = "strtok" /\ SplittingAsC'
<1>1. CASE call = << >>
  <2>1. PICK s \in Addresses, x \in Addresses :
          /\ IsText(s) /\ IsText(x) /\ Apart(s, strlen(mem, s) + 1, x, strlen(mem, x) + 1)
          /\ call' = [f |-> "strtok", d |-> s, s |-> x, n |-> 0, c |-> "nul", was |-> mem]
          /\ strtok(s, x)
    BY <1>1 DEF Tokenize
  <2>. DEFINE t == TextAt(mem, s)
              u == TextAt(mem, x)
  <2>2. call' # << >> /\ call'.f = "strtok" /\ call'.d = s /\ call'.s = x /\ call'.was = mem
    <3>1. call'.f = "strtok" /\ call'.d = s /\ call'.s = x /\ call'.was = mem
      BY ONLY <2>1
    <3>2. DOMAIN call' = {"f", "d", "s", "n", "c", "was"}
      BY ONLY <2>1
    <3>3. DOMAIN << >> = {}
      OBVIOUS
    <3>4. "f" \in DOMAIN call'
      BY ONLY <3>2
    <3>. QED BY ONLY <3>1, <3>3, <3>4
  <2>3. Fresh /\ tokens = << >>
    BY ONLY <1>1, StringsInv DEF StringsInv
  <2>4. Splits(mem, s, x, t, u, 1, tokens)
    BY ONLY <2>1, <2>3, s \in Addresses, x \in Addresses, FirstSplits
  <2>. HIDE DEF t, u
  <2>5. PICK L : L = Len(t)
    OBVIOUS
  <2>6. 1 \in 1..(L + 1) /\ s = s + 1 - 1
    <3>1. s \in Nat
      BY ONLY <2>3, s \in Addresses, FreshIs
    <3>2. L \in Nat
      BY ONLY <2>4, <2>5 DEF Splits, Rest
    <3>. QED BY ONLY <3>1, <3>2
  <2>7. Splitting(mem', s, x, t, u, tokens', rt_strtok_state') /\ Returned(mem', t, u, tokens', got')
    BY ONLY <2>1, <2>4, <2>5, <2>6, StrtokDoes
  <2>. QED BY ONLY <2>2, <2>7 DEF SplittingAsC, t, u
<1>2. CASE call # << >>
  <2>1. call.f = "strtok" /\ strtok(rt_strtok_state, call.s) /\ call' = call
    BY <1>2 DEF Tokenize
  <2>2. PICK s, x, t, u : s = call.d /\ x = call.s /\ t = TextAt(call.was, call.d) /\ u = TextAt(call.was, call.s)
    OBVIOUS
  <2>3. Splitting(mem, s, x, t, u, tokens, rt_strtok_state)
    BY ONLY <1>2, <2>1, <2>2, StringsInv DEF StringsInv, SplittingAsC
  <2>4. Splitting(mem', s, x, t, u, tokens', rt_strtok_state') /\ Returned(mem', t, u, tokens', got')
    <3>1. CASE rt_strtok_state = 0 /\ Runs(tokens, t, u) /\ Len(tokens) = Cardinality(Begins(t, u))
      <4>1. rt_strtok_state' = 0 /\ got' = 0 /\ mem' = mem /\ tokens' = tokens
        BY ONLY <2>1, <3>1 DEF strtok
      <4>. QED BY ONLY <3>1, <4>1 DEF Splitting, Returned
    <3>2. CASE \E p \in 1..(Len(t) + 1) : rt_strtok_state = s + p - 1 /\ Splits(mem, s, x, t, u, p, tokens)
      <4>1. PICK p \in 1..(Len(t) + 1) : rt_strtok_state = s + p - 1 /\ Splits(mem, s, x, t, u, p, tokens)
        BY ONLY <3>2
      <4>2. PICK L : L = Len(t)
        OBVIOUS
      <4>3. p \in 1..(L + 1)
        BY ONLY <4>2, p \in 1..(Len(t) + 1)
      <4>4. PICK a : a = rt_strtok_state
        OBVIOUS
      <4>5. a = s + p - 1 /\ Splits(mem, s, x, t, u, p, tokens) /\ strtok(a, x)
        BY ONLY <2>1, <2>2, <4>1, <4>4
      <4>. QED BY ONLY <4>2, <4>3, <4>5, StrtokDoes
    <3>. QED BY ONLY <2>3, <3>1, <3>2 DEF Splitting
  <2>. QED BY ONLY <1>2, <2>1, <2>2, <2>4 DEF SplittingAsC
<1>. QED BY ONLY <1>1, <1>2

LEMMA StringsInvInit == ASSUME StringsInit PROVE StringsInv
<1>1. mem \in Memories /\ call = << >> /\ tokens = << >>
  BY DEF StringsInit
<1>2. MovesAreC /\ TextsAreC /\ AnswersAreC /\ SplittingAsC
  BY ONLY <1>1 DEF MovesAreC, TextsAreC, AnswersAreC, SplittingAsC
<1>. QED BY ONLY <1>1, <1>2 DEF StringsInv, Fresh

LEMMA StringsInvNext == ASSUME StringsInv, [StringsNext]_stringVars PROVE StringsInv'
<1>1. ASSUME call' # << >> /\ MovesAreC' /\ TextsAreC' /\ AnswersAreC' /\ SplittingAsC' PROVE StringsInv'
  BY ONLY <1>1 DEF StringsInv
<1>2. ASSUME UNCHANGED stringVars PROVE StringsInv'
  <2>1. mem' = mem /\ rt_strtok_state' = rt_strtok_state /\ call' = call /\ got' = got /\ tokens' = tokens
    BY ONLY <1>2 DEF stringVars
  <2>2. Fresh' <=> Fresh
    BY ONLY <2>1 DEF Fresh
  <2>3. (MovesAreC' <=> MovesAreC) /\ (TextsAreC' <=> TextsAreC)
    BY ONLY <2>1 DEF MovesAreC, TextsAreC
  <2>4. AnswersAreC' <=> AnswersAreC
    BY ONLY <2>1 DEF AnswersAreC
  <2>5. SplittingAsC' <=> SplittingAsC
    BY ONLY <2>1 DEF SplittingAsC
  <2>. QED BY ONLY <2>1, <2>2, <2>3, <2>4, <2>5, StringsInv DEF StringsInv
<1>3. call = << >> => Fresh
  BY DEF StringsInv
<1>4. ASSUME Moves \/ Fills PROVE call' # << >> /\ MovesAreC' /\ TextsAreC' /\ AnswersAreC' /\ SplittingAsC'
  <2>1. Fresh
    BY ONLY <1>3, <1>4 DEF Moves, Fills
  <2>2. MovesAreC' /\ call'.f \in MoveNames /\ call' # << >>
    BY ONLY <1>4, <2>1, MovesDo, FillsDo
  <2>3. call'.f \notin TextNames /\ call'.f \notin AnswerNames /\ call'.f # "strtok"
    BY ONLY <2>2 DEF MoveNames, TextNames, AnswerNames
  <2>4. SplittingAsC'
    BY ONLY <2>3 DEF SplittingAsC
  <2>. QED BY ONLY <2>2, <2>3, <2>4, NoText, NoAnswer
<1>5. ASSUME Copies \/ BoundedCopies
      PROVE  call' # << >> /\ MovesAreC' /\ TextsAreC' /\ AnswersAreC' /\ SplittingAsC'
  <2>1. Fresh
    BY ONLY <1>3, <1>5 DEF Copies, BoundedCopies
  <2>2. TextsAreC' /\ call'.f \in TextNames /\ call' # << >>
    BY ONLY <1>5, <2>1, CopiesDo, BoundedCopiesDo
  <2>3. call'.f \notin MoveNames /\ call'.f \notin AnswerNames /\ call'.f # "strtok"
    BY ONLY <2>2 DEF MoveNames, TextNames, AnswerNames
  <2>4. SplittingAsC'
    BY ONLY <2>3 DEF SplittingAsC
  <2>. QED BY ONLY <2>2, <2>3, <2>4, NoMove, NoAnswer
<1>6. ASSUME Compares \/ Searches \/ Spans
      PROVE  call' # << >> /\ MovesAreC' /\ TextsAreC' /\ AnswersAreC' /\ SplittingAsC'
  <2>1. Fresh
    BY ONLY <1>3, <1>6 DEF Compares, Searches, Spans
  <2>2. AnswersAreC' /\ call'.f \in AnswerNames /\ call' # << >>
    BY ONLY <1>6, <2>1, ComparesDo, SearchesDo, SpansDo
  <2>3. call'.f \notin MoveNames /\ call'.f \notin TextNames /\ call'.f # "strtok"
    BY ONLY <2>2 DEF MoveNames, TextNames, AnswerNames
  <2>4. SplittingAsC'
    BY ONLY <2>3 DEF SplittingAsC
  <2>. QED BY ONLY <2>2, <2>3, <2>4, NoMove, NoText
<1>7. ASSUME Tokenize PROVE call' # << >> /\ MovesAreC' /\ TextsAreC' /\ AnswersAreC' /\ SplittingAsC'
  <2>1. call' # << >> /\ call'.f = "strtok" /\ SplittingAsC'
    BY ONLY <1>7, StringsInv, TokenizeDoes
  <2>2. call'.f \notin MoveNames /\ call'.f \notin TextNames /\ call'.f \notin AnswerNames
    BY ONLY <2>1 DEF MoveNames, TextNames, AnswerNames
  <2>. QED BY ONLY <2>1, <2>2, NoMove, NoText, NoAnswer
<1>. QED BY ONLY <1>1, <1>4, <1>5, <1>6, <1>7, <1>2, [StringsNext]_stringVars DEF StringsNext

\* Every function of rt_string.c and rt_wstring.c that the model has does what C99 says of it, for
\* every memory, every length and every area the standard lets a caller pass: the copies write what
\* they should and nothing else, overlapping or not, and however many bytes a word has; the
\* comparisons have the right sign; the searches find the first place, or the last; and the texts
\* strtok returns, however often it is called, are the runs of the text it splits.
THEOREM StringsSpecAreC == StringsSpec => []StringsAreC
<1>1. StringsInit => StringsInv
  BY StringsInvInit
<1>2. StringsInv /\ [StringsNext]_stringVars => StringsInv'
  BY StringsInvNext
<1>3. StringsInv => StringsAreC
  <2>1. ASSUME SplittingAsC PROVE TokensAreC
    <3>1. SUFFICES ASSUME call # << >>, call.f = "strtok" PROVE TokensAreC
      BY DEF TokensAreC
    <3>2. PICK t, u : t = TextAt(call.was, call.d) /\ u = TextAt(call.was, call.s)
      OBVIOUS
    <3>3. Splitting(mem, call.d, call.s, t, u, tokens, rt_strtok_state) /\ Returned(mem, t, u, tokens, got)
      BY ONLY <2>1, <3>1, <3>2 DEF SplittingAsC
    <3>4. Runs(tokens, t, u)
      BY ONLY <3>3, SplittingRuns
    <3>. QED BY ONLY <3>2, <3>3, <3>4 DEF TokensAreC, Runs, Returned
  <2>. QED BY <2>1 DEF StringsInv, StringsAreC
<1>. QED BY <1>1, <1>2, <1>3, PTL DEF StringsSpec
=============================================================================
