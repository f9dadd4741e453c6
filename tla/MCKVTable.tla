------------------------------ MODULE MCKVTable ------------------------------
(***************************************************************************)
(* Instances of KVTable for TLC.  Where INT_MAX is 1, INCR and DECR        *)
(* overflow, and clients SET the number 1 or a text that has no number;    *)
(* where it is 3 they only count, and nobody SETs.  They add or subtract 1.*)
(***************************************************************************)
EXTENDS KVTable

CONSTANT txt

MCSetValue == {1, txt}
MCText == {txt}
MCTextNum == [t \in Text |-> 0]
=============================================================================
