----------------------------- MODULE MCListTable -----------------------------
(***************************************************************************)
(* Instances of ListTable for TLC.                                         *)
(***************************************************************************)
EXTENDS ListTable, TLC

CONSTANTS w1, w2

MCPosition == {-1, 1}
MCNoPosition == {}

\* One writer per key; every worker writes every key.
MCOwnKeys == [k \in Key |-> IF k = 1 THEN {w1} ELSE {w2}]
MCSharedKeys == [k \in Key |-> Worker]

\* States that differ in the reply just written have the same futures.  A
\* reply never repeats the one before it unless it is a read at the same
\* state, so that no step passes for a stutter of the abstract specification.
NoReplies == <<engine, drawn, todo, answer>>

\* Where the properties do not look at replies, only who is to reply counts.
NoAnswers == <<engine, drawn, todo, {w \in Worker : Busy(w)}>>

\* Values are stored, replied and compared for equality.
Symmetry == Permutations(Val)
=============================================================================
