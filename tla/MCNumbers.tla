----------------------------- MODULE MCNumbers -----------------------------
(***************************************************************************)
(* Small instance: doubles of four fraction bits and exponents of four,    *)
(* all 512 of them, and texts around their middles and their ends.         *)
(***************************************************************************)
EXTENDS Numbers

Signed(k) == (IF k < 0 THEN <<"-">> ELSE << >>) \o Numeral(Digits(IF k < 0 THEN -k ELSE k, 10), FALSE)
Written(t, d, e, m) == [text |-> t, digits |-> d, exp |-> e, more |-> m]

WithExponent == {Written(Signed(d) \o <<"e">> \o Signed(e), d, e, FALSE) : d \in 1..64, e \in -8..2}
                \cup {Written(Signed(d) \o <<"e">> \o Signed(e), d, e, FALSE) : d \in {1, 3}, e \in 3..5}
WithPoint == {Written(Signed(d \div 100) \o <<".">> \o Numeral(<<(d \div 10) % 10, d % 10>>, FALSE), d, -2, FALSE) : d \in 1..450}
Whole3 == {Written(Signed(d), d, 0, FALSE) : d \in 1..300}
Ties == {Written(Signed(d) \o <<"5">> \o <<"e">> \o Signed(-5), d * 10 + 5, -5, FALSE) : d \in {10312, 10937, 10313, 13437, 20625}}
\* A tie, and a digit past those collected.
Longer == {Written(Signed(t[1]) \o Repeat("0", t[3]) \o <<"1", "e">> \o Signed(t[2] - t[3] - 1), t[1], t[2], TRUE) :
             t \in {<<103125, -5, 3>>, <<103125, -5, 9>>, <<109375, -5, 12>>, <<134375, -5, 6>>, <<33, 0, 12>>, <<35, 0, 12>>, <<252, 0, 12>>}}

MCScales == -40..40
MCPartners == {d \in Doubles : d.frac \in {0, 1, 8, 13} /\ (d.neg => d.frac # 13)}
MCTexts == WithExponent \cup WithPoint \cup Whole3 \cup Ties \cup Longer
=============================================================================
