----------------------------- MODULE MCZSetTable -----------------------------
(***************************************************************************)
(* Instances of ZSetTable for TLC.                                         *)
(***************************************************************************)
EXTENDS ZSetTable

CONSTANTS w1, w2, w3   \* the names a .cfg takes its workers from

\* One writer per key; every worker writes every key.
MCOwnKeys == [k \in Key |-> IF k = 1 THEN {w1} ELSE {w2}]
MCSharedKeys == [k \in Key |-> Worker]

\* A .cfg file knows no negative numbers.
MCScores == {2, -3}

MCNoBound == {}
MCNoRestart == {}

\* Where the properties do not look at replies: nothing depends on them.
NoReplies == <<engine, drawn, pc, call>>
=============================================================================
