------------------------------ MODULE MCSetTable ------------------------------
(***************************************************************************)
(* Instances of SetTable for TLC.                                          *)
(***************************************************************************)
EXTENDS SetTable, TLC

\* The workers run the same program, and members are only compared.
Symmetry == Permutations(Worker) \cup Permutations(Member)
=============================================================================
