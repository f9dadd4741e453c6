------------------------------ MODULE Numerals ------------------------------
(***************************************************************************)
(* Numbers in decimal digits, a text being the sequence of the codes of    *)
(* its characters.                                                         *)
(***************************************************************************)
EXTENDS Integers, Sequences

Digit == 48 .. 57
Minus == 45

\* The digits of a number.
Decimal[n \in Nat] ==
    IF n < 10 THEN <<48 + n>> ELSE Append(Decimal[n \div 10], 48 + (n % 10))

\* The number that the first n characters of a text are the digits of.
ValueOf(text, n) ==
    LET value[i \in 0 .. n] == IF i = 0 THEN 0 ELSE value[i - 1] * 10 + (text[i] - 48)
    IN  value[n]
=============================================================================
