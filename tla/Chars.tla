-------------------------------- MODULE Chars --------------------------------
(***************************************************************************)
(* Characters, texts and words, for the runtime's <string.h>, <stdlib.h>   *)
(* and <stdio.h>.  A character is a one-letter string with its ASCII code; *)
(* a text is a sequence of them, and past its end stands the terminator.   *)
(***************************************************************************)
EXTENDS Integers, SequencesExt, FiniteSetsExt

CONSTANTS LongLong, Long, Short, Byte   \* the bits of long long, of long and int, ... (64, 32, 16, 8)

ToUnsigned(n, bits) == n % 2 ^ bits
ToSigned(n, bits)   == ((n + 2 ^ (bits - 1)) % 2 ^ bits) - 2 ^ (bits - 1)

Printable ==
  <<" ", "!", "quote", "#", "$", "%", "&", "'", "(", ")", "*", "+", ",", "-", ".", "/",
    "0", "1", "2", "3", "4", "5", "6", "7", "8", "9", ":", ";", "<", "=", ">", "?",
    "@", "A", "B", "C", "D", "E", "F", "G", "H", "I", "J", "K", "L", "M", "N", "O",
    "P", "Q", "R", "S", "T", "U", "V", "W", "X", "Y", "Z", "[", "backslash", "]", "^", "_",
    "grave", "a", "b", "c", "d", "e", "f", "g", "h", "i", "j", "k", "l", "m", "n", "o",
    "p", "q", "r", "s", "t", "u", "v", "w", "x", "y", "z", "{", "|", "}", "~">>

\* "wide" stands for the units of a wide text that no char holds.
Code == [c \in {"nul", "tab", "newline", "wide"} \cup ToSet(Printable) |->
           CASE c = "nul" -> 0 [] c = "tab" -> 9 [] c = "newline" -> 10 [] c = "wide" -> 256
             [] OTHER -> 31 + CHOOSE i \in DOMAIN Printable : Printable[i] = c]
Char == DOMAIN Code
WithCodes(C) == {c \in Char : Code[c] \in C}

(* ---- rt/rt_ctype.c: each class as the set of its characters ---- *)

isdigit  == WithCodes(48..57)
isupper  == WithCodes(65..90)
islower  == WithCodes(97..122)
isalpha  == isupper \cup islower
isxdigit == isdigit \cup WithCodes((97..102) \cup (65..70))
isspace  == WithCodes({32} \cup (9..13))

Shifted(c, by) == Printable[Code[c] + by - 31]
tolower == [c \in Char |-> IF c \in isupper THEN Shifted(c, 32) ELSE c]
toupper == [c \in Char |-> IF c \in islower THEN Shifted(c, -32) ELSE c]

(* ---- texts ---- *)

At(s, i) == IF i \in DOMAIN s THEN s[i] ELSE "nul"

\* The first place from i on whose character is not in C.
Past(s, i, C) ==
  LET k == SelectInSubSeq(s, i, Len(s), LAMBDA c : c \notin C)
  IN  IF k = 0 THEN Max({i, Len(s) + 1}) ELSE k

\* Digits, most significant first, as characters.
Numeral(ds, upper) ==
  [i \in DOMAIN ds |-> Printable[IF ds[i] < 10 THEN 17 + ds[i] ELSE IF upper THEN 24 + ds[i] ELSE 56 + ds[i]]]

Repeat(c, n) == [i \in 1..n |-> c]
=============================================================================
