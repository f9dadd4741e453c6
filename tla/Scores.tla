------------------------------- MODULE Scores -------------------------------
(***************************************************************************)
(* The score of an element as its row keeps it (zsettable.cc): a text,     *)
(* which the index compares byte by byte, and which is read back by atof.  *)
(* A fraction, or a score beyond six digits, is not modelled: the text of  *)
(* that is rounded.                                                        *)
(***************************************************************************)
EXTENDS Numerals

CONSTANTS Score,   \* the scores clients give
          Bound    \* the bounds clients ask ZCOUNT for

\* The largest number that operator<< writes with all its digits.
MaxScore == 999999

ASSUME ScoreAssumption == Score \cup Bound \subseteq -MaxScore .. MaxScore

Width == 16

\* operator<< of the number.
Written(s) == IF s < 0 THEN <<Minus>> \o Decimal[-s] ELSE Decimal[s]

\* Mutant of PadScore: no fill; the column fills the text with spaces behind.
PadNot(s) == [i \in 1 .. Width |-> IF i <= Len(Written(s)) THEN Written(s)[i] ELSE 32]

\* pad_score: zeros go before the text, the sign included.
PadScore(s) ==
    LET zeros == Width - Len(Written(s))
    IN  [i \in 1 .. Width |-> IF i <= zeros THEN 48 ELSE Written(s)[i - zeros]]

\* atof of a padded text: the digits it begins with.
Atof(text) ==
    ValueOf(text, CHOOSE n \in 1 .. Width :
                      /\ \A i \in 1 .. n : text[i] \in Digit
                      /\ n < Width => text[n + 1] \notin Digit)

\* The score that is read back, and the order of the texts.
Kept == [s \in Score |-> Atof(PadScore(s))]

Earlier ==
    [a \in Score \cup Bound |-> [b \in Score \cup Bound |->
        LET s == PadScore(a)
            t == PadScore(b)
        IN  \E i \in 1 .. Width : s[i] < t[i] /\ \A j \in 1 .. i - 1 : s[j] = t[j]]]
=============================================================================
