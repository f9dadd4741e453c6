------------------------------ MODULE AtomicList ------------------------------
(***************************************************************************)
(* What the list commands promise: each of them takes effect at one        *)
(* instant on a sequence of values.  A key holds no empty list: popping    *)
(* the last value removes the key, and a key without a list behaves as the *)
(* empty sequence.                                                         *)
(***************************************************************************)
EXTENDS Integers, Sequences

CONSTANTS Worker, Key, Val,
          Position, \* the positions clients ask LRANGE for
          NoVal,    \* the answer of a pop that finds no list
          NoReply   \* the reply of a step that writes none

VARIABLES list,     \* Key -> sequence of values
          reply     \* the reply the last step wrote, if any, with its command

vars == <<list, reply>>

Answer(w, request, v) == reply' = [to |-> w, request |-> request, val |-> v]

Init ==
    /\ list = [k \in Key |-> <<>>]
    /\ reply = NoReply

Push(w, k, end, v) ==
    /\ list' = [list EXCEPT ![k] = IF end = "head" THEN <<v>> \o @ ELSE Append(@, v)]
    /\ Answer(w, <<"push", k, end, v>>, Len(list[k]) + 1)

Pop(w, k, end) ==
    /\ list[k] # <<>>
    /\ LET n == Len(list[k])
       IN  \/ /\ end = "head"
              /\ list' = [list EXCEPT ![k] = Tail(@)]
              /\ Answer(w, <<"pop", k, end>>, list[k][1])
           \/ /\ end = "tail"
              /\ list' = [list EXCEPT ![k] = SubSeq(@, 1, n - 1)]
              /\ Answer(w, <<"pop", k, end>>, list[k][n])

PopNothing(w, k, end) ==
    /\ list[k] = <<>>
    /\ Answer(w, <<"pop", k, end>>, NoVal)
    /\ UNCHANGED list

LLen(w, k) ==
    /\ Answer(w, <<"llen", k>>, Len(list[k]))
    /\ UNCHANGED list

\* The values from position `start' to `stop', counted from 0; a negative
\* `stop' counts from the end, a negative `start' is refused.
LRange(w, k, start, stop) ==
    LET n == Len(list[k])
        last == IF stop < 0 THEN stop + n ELSE stop
    IN  /\ Answer(w, <<"lrange", k, start, stop>>,
                  IF start < 0 THEN <<NoVal>>
                  ELSE SubSeq(list[k], start + 1, IF last < n THEN last + 1 ELSE n))
        /\ UNCHANGED list

\* Nothing happens; a restart is no more than this, to the lists.
Wait ==
    /\ reply' = NoReply
    /\ UNCHANGED list

Next ==
    \/ \E w \in Worker, k \in Key :
          \/ \E end \in {"head", "tail"} :
                 \/ Pop(w, k, end) \/ PopNothing(w, k, end)
                 \/ \E v \in Val : Push(w, k, end, v)
          \/ LLen(w, k)
          \/ \E start, stop \in Position : LRange(w, k, start, stop)
    \/ Wait

Spec == Init /\ [][Next]_vars
=============================================================================
