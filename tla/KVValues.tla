------------------------------- MODULE KVValues -------------------------------
(***************************************************************************)
(* The values of the `main' table and the arithmetic INCR does on them.    *)
(*                                                                         *)
(* A value is a byte string.  INCR tells apart the texts of an int,        *)
(* represented here by the int, and the others, from which `ss >> i' reads *)
(* the number they start with, if any, or 0.                               *)
(***************************************************************************)
EXTENDS Integers

CONSTANTS IntMax,   \* INT_MAX, scaled down
          Text,     \* byte strings that are not the text of an int
          TextNum   \* the number read from each of them

ASSUME IntMaxAssumption == IntMax \in Nat \ {0}
ASSUME TextAssumption == Text \cap Int = {}

IntRange == -(IntMax + 1) .. IntMax
ASSUME TextNumAssumption == TextNum \in [Text -> IntRange]

Value == IntRange \cup Text

\* The int a signed addition or negation leaves in the -O0 build.
Wrap(n) == ((n + IntMax + 1) % (2 * (IntMax + 1))) - (IntMax + 1)

\* ss >> i
Num(v) == IF v \in Text THEN TextNum[v] ELSE v
=============================================================================
