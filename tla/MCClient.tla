------------------------------ MODULE MCClient ------------------------------
(***************************************************************************)
(* Client for TLC: every outcome of a command, and the empty value that a  *)
(* client of Redis may send.                                               *)
(***************************************************************************)
EXTENDS Client

k == <<107>>
v == <<42, 13, 10>>                    \* "*", CR, LF
long == [i \in 1 .. 10 |-> 120]        \* a length of two digits

MCCommand == {
    <<<<71, 69, 84>>, k>>,                     \* GET k
    <<<<83, 69, 84>>, k, v>>,                  \* SET k "*\r\n"
    <<<<83, 69, 84>>, k>>,                     \* SET k
    <<<<83, 69, 84>>, k, <<>>>>,               \* SET k ""
    <<<<83, 69, 84, 78, 88>>, k, k>>,          \* SETNX k k
    <<<<90, 83, 67, 79, 82, 69>>, k, long>>,   \* ZSCORE k xxxxxxxxxx
    <<<<71, 69, 84>>>>,                        \* GET
    <<<<70, 79, 79>>>> }                       \* FOO
=============================================================================
