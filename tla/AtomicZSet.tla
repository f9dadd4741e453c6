------------------------------ MODULE AtomicZSet ------------------------------
(***************************************************************************)
(* What the sorted set commands promise: each of them takes effect at one  *)
(* instant on a finite map from values to scores, between the step that    *)
(* takes it and the one that replies; a command that fails, or one that a  *)
(* restart leaves unanswered, has happened entirely or not at all.  ZADD   *)
(* keeps the score of a value that is already there.                       *)
(***************************************************************************)
EXTENDS Integers, FiniteSets, Functions

CONSTANTS Worker, Key, Val, Score,
          Bound,    \* the bounds clients ask ZCOUNT for
          NoReply   \* no reply is written

VARIABLES zset,     \* Key -> (values |-> scores)
          reply     \* the reply the last step wrote, if any

vars == <<zset, reply>>

Answer(w, request, v) == reply' = [to |-> w, request |-> request, val |-> v]

Init ==
    /\ zset = [k \in Key |-> <<>>]
    /\ reply = NoReply

\* Nothing is answered: commands are on their way, or the server restarts.
Wait ==
    /\ reply' = NoReply
    /\ UNCHANGED zset

ZAdd(w, k, v, s) ==
    /\ v \notin DOMAIN zset[k]
    /\ zset' = [zset EXCEPT ![k] =
           [u \in DOMAIN @ \cup {v} |-> IF u = v THEN s ELSE @[u]]]
    /\ Answer(w, <<"zadd", k, v, s>>, 1)

ZRem(w, k, v) ==
    /\ v \in DOMAIN zset[k]
    /\ zset' = [zset EXCEPT ![k] = Restrict(@, DOMAIN @ \ {v})]
    /\ Answer(w, <<"zrem", k, v>>, 1)

ZAddKnown(w, k, v, s) ==
    /\ v \in DOMAIN zset[k]
    /\ Answer(w, <<"zadd", k, v, s>>, 0)
    /\ UNCHANGED zset

ZRemUnknown(w, k, v) ==
    /\ v \notin DOMAIN zset[k]
    /\ Answer(w, <<"zrem", k, v>>, 0)
    /\ UNCHANGED zset

\* The error reply to a command that could not be carried out.
Fail(w, request) ==
    /\ Answer(w, request, -1)
    /\ UNCHANGED zset

ZCard(w, k) ==
    /\ Answer(w, <<"zcard", k>>, Cardinality(DOMAIN zset[k]))
    /\ UNCHANGED zset

ZScore(w, k, v) ==
    /\ Answer(w, <<"zscore", k, v>>, IF v \in DOMAIN zset[k] THEN zset[k][v] ELSE -1)
    /\ UNCHANGED zset

ZCount(w, k, min, max) ==
    /\ Answer(w, <<"zcount", k, min, max>>,
              Cardinality({v \in DOMAIN zset[k] : zset[k][v] \in min .. max}))
    /\ UNCHANGED zset

Next ==
    \/ \E w \in Worker, k \in Key :
          \/ \E v \in Val :
                \/ ZRem(w, k, v) \/ ZRemUnknown(w, k, v) \/ Fail(w, <<"zrem", k, v>>)
                \/ ZScore(w, k, v)
                \/ \E s \in Score : \/ ZAdd(w, k, v, s) \/ ZAddKnown(w, k, v, s)
                                    \/ Fail(w, <<"zadd", k, v, s>>)
          \/ ZCard(w, k)
          \/ \E min, max \in Bound : ZCount(w, k, min, max)
    \/ Wait

Spec == Init /\ [][Next]_vars
=============================================================================
