------------------------------ MODULE MCLycaDB ------------------------------
(***************************************************************************)
(* An instance of LycaDB for TLC.                                          *)
(***************************************************************************)
EXTENDS LycaDB

MCTables == <<"main", "sets">>
=============================================================================
