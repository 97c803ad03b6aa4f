------------------------------ MODULE Strings ------------------------------
(***************************************************************************)
(* rt/rt_string.c and rt/rt_wstring.c over one memory: addresses from 1 on *)
(* of characters (units, for the wide functions), 0 for the null pointer.  *)
(* A function that writes gives the memory it leaves; the others give what *)
(* they return.  A program makes one call, or splits a text with strtok.   *)
(***************************************************************************)
EXTENDS Chars

CONSTANTS Memories,        \* what may be in the memory
          Fillers,         \* the characters passed
          Word,            \* the bytes mem* handle at a time (8)
          Lengths          \* the lengths passed

ASSUME WordAssumption == Word \in Nat \ {0}
ASSUME TextsAssumption == Memories \subseteq Seq(Char) /\ Fillers \subseteq Char /\ Lengths \subseteq Nat

VARIABLES mem,             \* the memory
          rt_strtok_state, \* where strtok goes on
          call,            \* the call made, << >> before it
          got,             \* what it returned
          tokens           \* the texts strtok returned so far

stringVars == <<mem, rt_strtok_state, call, got, tokens>>

Addresses == DOMAIN mem
Size == Len(mem)
Order(c, d) == Code[c] - Code[d]

(* ---- mem* ---- *)

\* k bytes loaded, then stored.
Moved(m, d, s, k)  == [i \in DOMAIN m |-> IF i \in d..(d + k - 1) THEN m[s + i - d] ELSE m[i]]
Filled(m, d, c, k) == [i \in DOMAIN m |-> IF i \in d..(d + k - 1) THEN c ELSE m[i]]

\* What n bytes are handled in: words, then a byte at a time.
Chunks(n) == [j \in 1..(n \div Word) |-> [at |-> (j - 1) * Word, size |-> Word]]
             \o [j \in 1..(n % Word) |-> [at |-> (n \div Word) * Word + j - 1, size |-> 1]]

\* The chunks w one after the other.
Copied(m, d, s, w) ==
  LET after[k \in 0..Len(w)] ==
        IF k = 0 THEN m ELSE Moved(after[k - 1], d + w[k].at, s + w[k].at, w[k].size)
  IN  after[Len(w)]
Painted(m, d, c, w) ==
  LET after[k \in 0..Len(w)] ==
        IF k = 0 THEN m ELSE Filled(after[k - 1], d + w[k].at, c, w[k].size)
  IN  after[Len(w)]

Upwards(n)   == [k \in 1..n |-> [at |-> k - 1, size |-> 1]]
Downwards(n) == [k \in 1..n |-> [at |-> n - k, size |-> 1]]

memcpy(m, d, s, n) == Copied(m, d, s, Chunks(n))
memset(m, d, c, n) == Painted(m, d, c, Chunks(n))

memmove_forward(m, d, s, n) == IF d = s THEN m ELSE memcpy(m, d, s, n)
memmove(m, d, s, n) ==
  IF d = s THEN m
  ELSE IF d < s THEN memcpy(m, d, s, n)
  ELSE Copied(m, d, s, Downwards(n))

memcmp(m, a, b, n) ==
  LET k == Min({j \in 0..n : j = n \/ At(m, a + j) # At(m, b + j)}) IN IF k = n THEN 0 ELSE Order(At(m, a + k), At(m, b + k))
memchr(m, s, c, n) ==
  LET k == Min({j \in 0..n : j = n \/ At(m, s + j) = c}) IN IF k = n THEN 0 ELSE s + k

(* ---- str* ---- *)

strlen(m, s) == Min({k \in 0..Len(m) : At(m, s + k) = "nul"})

Differs(m, a, b, k) == At(m, a + k) = "nul" \/ At(m, a + k) # At(m, b + k)
strcmp(m, a, b) ==
  LET k == Min({j \in 0..strlen(m, a) : Differs(m, a, b, j)}) IN Order(At(m, a + k), At(m, b + k))
strncmp(m, a, b, n) ==
  LET k == Min({j \in 0..n : j = n \/ Differs(m, a, b, j)}) IN IF k = n THEN 0 ELSE Order(At(m, a + k), At(m, b + k))

strcpy(m, d, s) == Moved(m, d, s, strlen(m, s) + 1)
strcat(m, d, s) == strcpy(m, d + strlen(m, d), s)

strncpy(m, d, s, n) ==
  LET k == Min({j \in 0..n : j = n \/ At(m, s + j) = "nul"}) IN Filled(Moved(m, d, s, k), d + k, "nul", n - k)
strncat_filled(m, d, s, n) == strncpy(m, d + strlen(m, d), s, n)
strncat(m, d, s, n) ==
  LET e == d + strlen(m, d)
      k == Min({j \in 0..n : j = n \/ At(m, s + j) = "nul"})
  IN  Filled(Moved(m, e, s, k), e + k, "nul", 1)

strchr(m, s, c) ==
  LET k == Min({j \in 0..strlen(m, s) : At(m, s + j) \in {c, "nul"}}) IN IF At(m, s + k) = c THEN s + k ELSE 0
strrchr(m, s, c) ==
  LET hits == {k \in 0..strlen(m, s) : At(m, s + k) = c} IN IF hits = {} THEN 0 ELSE s + Max(hits)

strstr(m, h, x) ==
  LET n    == strlen(m, x)
      hits == {k \in 0..(strlen(m, h) - 1) : At(m, h + k) = At(m, x) /\ strncmp(m, h + k, x, n) = 0}
  IN  IF At(m, x) = "nul" THEN h ELSE IF hits = {} THEN 0 ELSE h + Min(hits)

strspn(m, s, set)  == Min({k \in 0..strlen(m, s) : At(m, s + k) = "nul" \/ strchr(m, set, At(m, s + k)) = 0})
strcspn(m, s, set) == Min({k \in 0..strlen(m, s) : At(m, s + k) = "nul" \/ strchr(m, set, At(m, s + k)) # 0})
strpbrk(m, s, set) ==
  LET k == Min({j \in 0..strlen(m, s) : At(m, s + j) = "nul" \/ strchr(m, set, At(m, s + j)) # 0})
  IN  IF At(m, s + k) = "nul" THEN 0 ELSE s + k

LowerOrder(c, d) == Order(tolower[c], tolower[d])
_stricmp(m, a, b) ==
  LET k == Min({j \in 0..strlen(m, a) : LowerOrder(At(m, a + j), At(m, b + j)) # 0 \/ At(m, a + j) = "nul"})
  IN  LowerOrder(At(m, a + k), At(m, b + k))
_strnicmp(m, a, b, n) ==
  LET k == Min({j \in 0..n : j = n \/ LowerOrder(At(m, a + j), At(m, b + j)) # 0 \/ At(m, a + j) = "nul"})
  IN  IF k = n THEN 0 ELSE LowerOrder(At(m, a + k), At(m, b + k))

(* ---- rt_wstring.c: the same loops over 16-bit units, and some of its own ---- *)

wcslen(m, s)        == strlen(m, s)
wcscpy(m, d, s)     == strcpy(m, d, s)
wcsncpy(m, d, s, n) == strncpy(m, d, s, n)
wcscat(m, d, s)     == wcscpy(m, d + wcslen(m, d), s)
wcsncat(m, d, s, n) == strncat(m, d, s, n)
wcscmp(m, a, b)     == strcmp(m, a, b)
wcschr(m, s, c)     == strchr(m, s, c)
wcsrchr(m, s, c)    == strrchr(m, s, c)
wmemset(m, d, c, n) == Filled(m, d, c, n)
wmemcmp(m, a, b, n) == memcmp(m, a, b, n)
wmemchr(m, s, c, n) == memchr(m, s, c, n)

wcsncmp_past(m, a, b, n) == wmemcmp(m, a, b, n)
wcsncmp(m, a, b, n) ==
  LET k == Min({j \in 0..n : j = n \/ At(m, a + j) # At(m, b + j) \/ At(m, a + j) = "nul"})
  IN  IF k = n THEN 0 ELSE Order(At(m, a + k), At(m, b + k))

wcsstr(m, h, x) ==
  LET n == wcslen(m, x)
      matched(k) == Min({j \in 0..n : j = n \/ At(m, h + k + j) # At(m, x + j)})
      hits == {k \in 0..(wcslen(m, h) - 1) : matched(k) = n}
  IN  IF n = 0 THEN h ELSE IF hits = {} THEN 0 ELSE h + Min(hits)

wch_in(m, set, c)  == \E k \in 0..(wcslen(m, set) - 1) : At(m, set + k) = c
wcsspn(m, s, set)  == Min({k \in 0..wcslen(m, s) : At(m, s + k) = "nul" \/ ~wch_in(m, set, At(m, s + k))})
wcscspn(m, s, set) == Min({k \in 0..wcslen(m, s) : At(m, s + k) = "nul" \/ wch_in(m, set, At(m, s + k))})
wcspbrk(m, s, set) ==
  LET hits == {k \in 0..(wcslen(m, s) - 1) : wch_in(m, set, At(m, s + k))} IN IF hits = {} THEN 0 ELSE s + Min(hits)

wmemcpy(m, d, s, n) == Copied(m, d, s, Upwards(n))
wmemmove(m, d, s, n) ==
  IF d < s \/ d >= s + n THEN wmemcpy(m, d, s, n)
  ELSE Copied(m, d, s, Downwards(n))

Narrowed(c) == IF Code[c] < 256 THEN c ELSE "?"
Converted(m, s, n) == Min({j \in 0..n : j = n \/ At(m, s + j) = "nul"})
wcstombs(m, d, s, n) ==
  LET k == Converted(m, s, n)
      w == [i \in DOMAIN m |-> IF i \in d..(d + k - 1) THEN Narrowed(m[s + i - d]) ELSE m[i]]
  IN  IF k < n THEN Filled(w, d + k, "nul", 1) ELSE w
mbstowcs(m, d, s, n) ==
  LET k == Converted(m, s, n)
      w == Moved(m, d, s, k)
  IN  IF k < n THEN Filled(w, d + k, "nul", 1) ELSE w

(* ---- calls ---- *)

Call(f, d, s, n, c, m, r) ==
  /\ call' = [f |-> f, d |-> d, s |-> s, n |-> n, c |-> c, was |-> mem]
  /\ mem' = m /\ got' = r /\ UNCHANGED <<rt_strtok_state, tokens>>

\* What a caller may pass: room for n at a, a text at a, areas that do not meet.
Room(a, n)         == a + n - 1 <= Size
HasText(m, a)      == \E i \in a..Len(m) : m[i] = "nul"
IsText(a)          == HasText(mem, a)
TextOrRoom(a, n)   == IsText(a) \/ Room(a, n)
Apart(a, n, b, k)  == a + n <= b \/ b + k <= a

Moves ==
  /\ call = << >>
  /\ \E d, s \in Addresses, n \in 0..Size :
       /\ Room(d, n) /\ Room(s, n)
       /\ \/ Call("memmove", d, s, n, "nul", memmove(mem, d, s, n), d)
          \/ Call("wmemmove", d, s, n, "nul", wmemmove(mem, d, s, n), d)
          \/ Apart(d, n, s, n) /\ Call("memcpy", d, s, n, "nul", memcpy(mem, d, s, n), d)
          \/ Apart(d, n, s, n) /\ Call("wmemcpy", d, s, n, "nul", wmemcpy(mem, d, s, n), d)

Fills ==
  /\ call = << >>
  /\ \E d \in Addresses, n \in 0..Size, c \in Fillers :
       /\ Room(d, n)
       /\ \/ Call("memset", d, d, n, c, memset(mem, d, c, n), d)
          \/ Call("wmemset", d, d, n, c, wmemset(mem, d, c, n), d)

Copies ==
  /\ call = << >>
  /\ \E d, s \in Addresses :
       /\ IsText(s)
       /\ LET k == strlen(mem, s) + 1
          IN  \/ /\ Room(d, k) /\ Apart(d, k, s, k)
                /\ \/ Call("strcpy", d, s, 0, "nul", strcpy(mem, d, s), d)
                   \/ Call("wcscpy", d, s, 0, "nul", wcscpy(mem, d, s), d)
              \/ /\ IsText(d) /\ Room(d, strlen(mem, d) + k) /\ Apart(d, strlen(mem, d) + k, s, k)
                /\ \/ Call("strcat", d, s, 0, "nul", strcat(mem, d, s), d)
                   \/ Call("wcscat", d, s, 0, "nul", wcscat(mem, d, s), d)

BoundedCopies ==
  /\ call = << >>
  /\ \E d, s \in Addresses, n \in Lengths :
       /\ TextOrRoom(s, n)
       /\ \/ /\ Room(d, n) /\ Apart(d, n, s, n)
             /\ \/ Call("strncpy", d, s, n, "nul", strncpy(mem, d, s, n), d)
                \/ Call("wcsncpy", d, s, n, "nul", wcsncpy(mem, d, s, n), d)
                \/ Call("wcstombs", d, s, n, "nul", wcstombs(mem, d, s, n), Converted(mem, s, n))
                \/ "wide" \notin ToSet(mem) /\ Call("mbstowcs", d, s, n, "nul", mbstowcs(mem, d, s, n), Converted(mem, s, n))
          \/ /\ IsText(d)
             /\ LET k == strlen(mem, d) + n + 1
                IN  /\ Room(d, k) /\ Apart(d, k, s, n)
                    /\ \/ Call("strncat", d, s, n, "nul", strncat(mem, d, s, n), d)
                       \/ Call("wcsncat", d, s, n, "nul", wcsncat(mem, d, s, n), d)

Compares ==
  /\ call = << >>
  /\ \E a, b \in Addresses :
       \/ /\ IsText(a) /\ IsText(b)
          /\ \/ Call("strcmp", a, b, 0, "nul", mem, strcmp(mem, a, b))
             \/ Call("wcscmp", a, b, 0, "nul", mem, wcscmp(mem, a, b))
             \/ Call("_stricmp", a, b, 0, "nul", mem, _stricmp(mem, a, b))
       \/ \E n \in Lengths :
            \/ /\ TextOrRoom(a, n) /\ TextOrRoom(b, n)
               /\ \/ Call("strncmp", a, b, n, "nul", mem, strncmp(mem, a, b, n))
                  \/ Call("wcsncmp", a, b, n, "nul", mem, wcsncmp(mem, a, b, n))
                  \/ Call("_strnicmp", a, b, n, "nul", mem, _strnicmp(mem, a, b, n))
            \/ /\ Room(a, n) /\ Room(b, n)
               /\ \/ Call("memcmp", a, b, n, "nul", mem, memcmp(mem, a, b, n))
                  \/ Call("wmemcmp", a, b, n, "nul", mem, wmemcmp(mem, a, b, n))

Searches ==
  /\ call = << >>
  /\ \E s \in Addresses, c \in Fillers :
       \/ /\ IsText(s)
          /\ \/ Call("strchr", s, s, 0, c, mem, strchr(mem, s, c))
             \/ Call("wcschr", s, s, 0, c, mem, wcschr(mem, s, c))
             \/ Call("strrchr", s, s, 0, c, mem, strrchr(mem, s, c))
             \/ Call("wcsrchr", s, s, 0, c, mem, wcsrchr(mem, s, c))
       \/ \E n \in Lengths :
            /\ Room(s, n)
            /\ \/ Call("memchr", s, s, n, c, mem, memchr(mem, s, c, n))
               \/ Call("wmemchr", s, s, n, c, mem, wmemchr(mem, s, c, n))

Spans ==
  /\ call = << >>
  /\ \E s, x \in Addresses :
       /\ IsText(s) /\ IsText(x)
       /\ \/ Call("strstr", s, x, 0, "nul", mem, strstr(mem, s, x))
          \/ Call("wcsstr", s, x, 0, "nul", mem, wcsstr(mem, s, x))
          \/ Call("strspn", s, x, 0, "nul", mem, strspn(mem, s, x))
          \/ Call("wcsspn", s, x, 0, "nul", mem, wcsspn(mem, s, x))
          \/ Call("strcspn", s, x, 0, "nul", mem, strcspn(mem, s, x))
          \/ Call("wcscspn", s, x, 0, "nul", mem, wcscspn(mem, s, x))
          \/ Call("strpbrk", s, x, 0, "nul", mem, strpbrk(mem, s, x))
          \/ Call("wcspbrk", s, x, 0, "nul", mem, wcspbrk(mem, s, x))

\* strtok goes on from s, or says there is no more; the separator it finds becomes an end.
strtok_at(s, sep) ==
  LET t == s + strspn(mem, s, sep)
      e == t + strcspn(mem, t, sep)
  IN  IF s = 0 \/ mem[t] = "nul"
      THEN rt_strtok_state' = 0 /\ got' = 0 /\ UNCHANGED <<mem, tokens>>
      ELSE /\ got' = t
           /\ tokens' = Append(tokens, SubSeq(mem, t, e - 1))
           /\ IF mem[e] = "nul" THEN rt_strtok_state' = 0 /\ UNCHANGED mem
              ELSE rt_strtok_state' = e /\ mem' = [mem EXCEPT ![e] = "nul"]
strtok(s, sep) ==
  LET t == s + strspn(mem, s, sep)
      e == t + strcspn(mem, t, sep)
  IN  IF s = 0 \/ mem[t] = "nul"
      THEN rt_strtok_state' = 0 /\ got' = 0 /\ UNCHANGED <<mem, tokens>>
      ELSE /\ got' = t
           /\ tokens' = Append(tokens, SubSeq(mem, t, e - 1))
           /\ IF mem[e] = "nul" THEN rt_strtok_state' = 0 /\ UNCHANGED mem
              ELSE rt_strtok_state' = e + 1 /\ mem' = [mem EXCEPT ![e] = "nul"]

Tokenize ==
  \/ /\ call = << >>
     /\ \E s, sep \in Addresses :
          /\ IsText(s) /\ IsText(sep) /\ Apart(s, strlen(mem, s) + 1, sep, strlen(mem, sep) + 1)
          /\ call' = [f |-> "strtok", d |-> s, s |-> sep, n |-> 0, c |-> "nul", was |-> mem]
          /\ strtok(s, sep)
  \/ /\ call # << >> /\ call.f = "strtok"
     /\ strtok(rt_strtok_state, call.s) /\ UNCHANGED call

StringsInit ==
  /\ mem \in Memories
  /\ rt_strtok_state = 0 /\ call = << >> /\ got = 0 /\ tokens = << >>

\* The program calls none of them.
NoStrings == mem = << >> /\ rt_strtok_state = 0 /\ call = [f |-> "none"] /\ got = 0 /\ tokens = << >>

StringsNext ==
  Moves \/ Fills \/ Copies \/ BoundedCopies \/ Compares \/ Searches \/ Spans \/ Tokenize

(* ---- what C99 says of them: 7.21, and 7.24.4 of the wide ones, of the memory ---- *)
(* ---- before a call, the memory after it and the answer                       ---- *)

Cells(m, a, n) == SubSeq(m, a, a + n - 1)
TextAt(m, a)   == CHOOSE t \in {Cells(m, a, n) : n \in 0..(Len(m) - a)} :
                    "nul" \notin ToSet(t) /\ m[a + Len(t)] = "nul"
Ended(t)       == Append(t, "nul")
First(t, n)    == SubSeq(t, 1, Min({n, Len(t)}))

\* The first n cells, no more than there are; a text only up to its terminator.
Within(m, a, n)  == Cells(m, a, Min({n, Len(m) - a + 1}))
Shortened(m, a, n) ==
  IF "nul" \in ToSet(Within(m, a, n)) THEN First(TextAt(m, a), n) ELSE Cells(m, a, n)

\* w is m, with t at d.
Leaves(w, m, d, t) ==
  w = [i \in DOMAIN m |-> IF i \in d..(d + Len(t) - 1) THEN t[i - d + 1] ELSE m[i]]

MovesAreC ==
  call # << >> =>
    LET m == call.was  d == call.d  n == call.n
    IN  /\ call.f \in {"memmove", "wmemmove", "memcpy", "wmemcpy"} =>
             got = d /\ Leaves(mem, m, d, Cells(m, call.s, n))
        /\ call.f \in {"memset", "wmemset"} => got = d /\ Leaves(mem, m, d, Repeat(call.c, n))

TextsAreC ==
  call # << >> =>
    LET m == call.was  d == call.d  n == call.n
        src  == TextAt(m, call.s)
        some == Shortened(m, call.s, n)
    IN  /\ call.f \in {"strcpy", "wcscpy"} => Leaves(mem, m, d, Ended(src))
        /\ call.f \in {"strcat", "wcscat"} => Leaves(mem, m, d, Ended(TextAt(m, d) \o src))
        /\ call.f \in {"strncpy", "wcsncpy"} => Leaves(mem, m, d, some \o Repeat("nul", n - Len(some)))
        /\ call.f \in {"wcstombs", "mbstowcs"} =>
             /\ got = Len(some)
             /\ Leaves(mem, m, d, [i \in DOMAIN some |-> IF some[i] = "wide" THEN "?" ELSE some[i]]
                                  \o (IF got < n THEN <<"nul">> ELSE << >>))
        /\ call.f \in {"strncat", "wcsncat"} => Leaves(mem, m, d, Ended(TextAt(m, d) \o some))

(* ---- order ---- *)

\* Which of two sequences of cells comes first, as a sign; a text ends at its terminator.
Sign(k) == IF k < 0 THEN -1 ELSE IF k > 0 THEN 1 ELSE 0
Precedes(t, u) ==
  \E k \in 1..Min({Len(t), Len(u)}) : Code[t[k]] < Code[u[k]] /\ \A j \in 1..(k - 1) : t[j] = u[j]
Compared(t, u) == IF Precedes(t, u) THEN -1 ELSE IF Precedes(u, t) THEN 1 ELSE 0
UpToEnd(t) == IF "nul" \in ToSet(t) THEN First(t, Min({i \in DOMAIN t : t[i] = "nul"})) ELSE t
AtMost(m, a, n) == UpToEnd(Within(m, a, n))
InLower(t) == [i \in DOMAIN t |-> tolower[t[i]]]

(* ---- searches ---- *)

Least(S) == IF S = {} THEN 0 ELSE Min(S)
Most(S)  == IF S = {} THEN 0 ELSE Max(S)
Found(m, a, n, c) == {i \in a..(a + n - 1) : m[i] = c}

\* The places at which u stands in t, and those of t's characters that u has.
Occurrences(t, u) == {i \in 1..(Len(t) + 1) : i + Len(u) <= Len(t) + 1 /\ SubSeq(t, i, i + Len(u) - 1) = u}
Among(t, u)       == {k \in DOMAIN t : t[k] \in ToSet(u)}

AnswersAreC ==
  call # << >> =>
    LET m == call.was  a == call.d  b == call.s  n == call.n
        t  == TextAt(m, a)
        u  == TextAt(m, b)
        in == Among(t, u)
        place(S) == IF S = {} THEN 0 ELSE a + Min(S) - 1
    IN  /\ call.f \in {"memcmp", "wmemcmp"} => Sign(got) = Compared(Cells(m, a, n), Cells(m, b, n))
        /\ call.f \in {"strcmp", "wcscmp"} => Sign(got) = Compared(Ended(t), Ended(u))
        /\ call.f = "_stricmp" => Sign(got) = Compared(InLower(Ended(t)), InLower(Ended(u)))
        /\ call.f \in {"strncmp", "wcsncmp"} => Sign(got) = Compared(AtMost(m, a, n), AtMost(m, b, n))
        /\ call.f = "_strnicmp" => Sign(got) = Compared(InLower(AtMost(m, a, n)), InLower(AtMost(m, b, n)))
        /\ call.f \in {"memchr", "wmemchr"} => got = Least(Found(m, a, n, call.c))
        /\ call.f \in {"strchr", "wcschr"} => got = Least(Found(m, a, Len(t) + 1, call.c))
        /\ call.f \in {"strrchr", "wcsrchr"} => got = Most(Found(m, a, Len(t) + 1, call.c))
        /\ call.f \in {"strstr", "wcsstr"} => got = place(Occurrences(t, u))
        /\ call.f \in {"strspn", "wcsspn"} => got = Min((1..(Len(t) + 1)) \ in) - 1
        /\ call.f \in {"strcspn", "wcscspn"} => got = Min(in \cup {Len(t) + 1}) - 1
        /\ call.f \in {"strpbrk", "wcspbrk"} => got = place(in)

(* ---- tokens ---- *)

\* Where the runs without the characters of u begin in t, which of them one is, and the run.
Begins(t, u)  == {i \in DOMAIN t : t[i] \notin ToSet(u) /\ (i = 1 \/ t[i - 1] \in ToSet(u))}
Before(S, i)  == Cardinality({j \in S : j < i})
TokenAt(t, u, i)  == SubSeq(t, i, Min({k \in i..Len(t) : k = Len(t) \/ t[k + 1] \in ToSet(u)}))

TokensAreC ==
  call # << >> /\ call.f = "strtok" =>
    LET t == TextAt(call.was, call.d)
        u == TextAt(call.was, call.s)
    IN  /\ \A k \in DOMAIN tokens :
             \E i \in Begins(t, u) : Before(Begins(t, u), i) = k - 1 /\ tokens[k] = TokenAt(t, u, i)
        /\ IF got = 0 THEN Len(tokens) = Cardinality(Begins(t, u)) ELSE TextAt(mem, got) = Last(tokens)

\* The memory functions copy as if through a third place, also where the two
\* areas overlap, words at a time or not.  The functions that build a text leave
\* the text they should, its end where they promise one and no end where they do
\* not.  Neither writes anything else.  The comparisons give the sign of the order
\* of what C compares, and the searches the first, or the last, place of what
\* they look for, or none.  A program that calls strtok until it gets no more has
\* had the longest runs of the text without separators, in their order, each
\* ended where it was split.
StringsAreC == MovesAreC /\ TextsAreC /\ AnswersAreC /\ TokensAreC
=============================================================================
