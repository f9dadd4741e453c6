---------------------------- MODULE RequestStream ----------------------------
(***************************************************************************)
(* What a connection promises its client: the commands it sends are run in *)
(* the order it sends them, each once and with the words it was sent with, *)
(* by the handler its verb stands for.                                     *)
(***************************************************************************)
EXTENDS Naturals, Sequences

CONSTANTS Command,       \* the commands a client may send
          Outcome(_)     \* what is to become of a command

VARIABLES asked,     \* the commands sent
          outcomes   \* what became of those that were run

vars == <<asked, outcomes>>

Init == asked = <<>> /\ outcomes = <<>>

Ask == \E c \in Command : asked' = Append(asked, c) /\ UNCHANGED outcomes

Run ==
    /\ Len(outcomes) < Len(asked)
    /\ Len(outcomes') = Len(outcomes) + 1
    /\ outcomes' = Append(outcomes, Outcome(asked[Len(outcomes) + 1]))
    /\ UNCHANGED asked

Next == Ask \/ Run

Spec == Init /\ [][Next]_vars
=============================================================================
