------------------------------- MODULE AtomicSet -------------------------------
(***************************************************************************)
(* What the set commands promise: SADD and SREM that reply 1 take effect   *)
(* at one instant, when the member was not there, or was; of two clients   *)
(* that add (or remove) a member at the same time one is told 1.  A reply  *)
(* of 0 is an absence of effect: it is also the reply to a failure.        *)
(***************************************************************************)
EXTENDS Integers

CONSTANTS Worker, Key, Member, NoReply

VARIABLES members,  \* Key -> set of members
          reply     \* the last reply, with the worker and its command

vars == <<members, reply>>

Answer(w, request, v) == reply' = [to |-> w, request |-> request, val |-> v]

Init ==
    /\ members = [k \in Key |-> {}]
    /\ reply = NoReply

SAdd(w, k, m) ==
    /\ m \notin members[k]
    /\ members' = [members EXCEPT ![k] = @ \cup {m}]
    /\ Answer(w, <<"sadd", k, m>>, 1)

SRem(w, k, m) ==
    /\ m \in members[k]
    /\ members' = [members EXCEPT ![k] = @ \ {m}]
    /\ Answer(w, <<"srem", k, m>>, 1)

NoEffect(w, k, m) ==
    /\ \E op \in {"sadd", "srem"} : Answer(w, <<op, k, m>>, 0)
    /\ UNCHANGED members

\* Members are told 1, others get an error, -1.
SIsMember(w, k, m) ==
    /\ Answer(w, <<"sismember", k, m>>, IF m \in members[k] THEN 1 ELSE -1)
    /\ UNCHANGED members

SMembers(w, k) ==
    /\ Answer(w, <<"smembers", k>>, members[k])
    /\ UNCHANGED members

\* A restart ends every command without an effect.
Restart ==
    /\ reply' = NoReply
    /\ UNCHANGED members

Next ==
    \/ \E w \in Worker, k \in Key :
          \/ \E m \in Member : \/ SAdd(w, k, m) \/ SRem(w, k, m)
                              \/ NoEffect(w, k, m) \/ SIsMember(w, k, m)
          \/ SMembers(w, k)
    \/ Restart

Spec == Init /\ [][Next]_vars
=============================================================================
