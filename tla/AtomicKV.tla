------------------------------- MODULE AtomicKV -------------------------------
(***************************************************************************)
(* What the `main' table promises its clients.                             *)
(*                                                                         *)
(* GET, SET and DEL take effect at one instant between the request and the *)
(* reply, and a command that reports a failure (an error, or 0 for DEL)    *)
(* has no effect.  INCR and DECR promise less: they read the key at one    *)
(* instant and publish the result at a later one, so that an update made   *)
(* in between is overwritten; but the number they reply is the number they *)
(* publish, and they never turn a key that exists into a new one or        *)
(* resurrect a key that was deleted meanwhile.                             *)
(***************************************************************************)
EXTENDS KVValues

CONSTANTS Worker, Key, NoRow, NoCall

VARIABLES store,    \* Key -> Value or NoRow
          pending,  \* the INCR each worker has read but not published
          reply     \* the last reply, with the worker and its command

vars == <<store, pending, reply>>

Answer(w, op, k, arg, kind, v) ==
    reply' = [to |-> w, call |-> [op |-> op, key |-> k, arg |-> arg],
              kind |-> kind, val |-> v]

IncrResult(seen, by) == IF seen = NoRow THEN 1 ELSE Wrap(Num(seen) + by)

Init ==
    /\ store = [k \in Key |-> NoRow]
    /\ pending = [w \in Worker |-> NoCall]
    /\ reply = [kind |-> "none"]

Get(w, k) ==
    /\ Answer(w, "get", k, 0, IF store[k] = NoRow THEN "nil" ELSE "str", store[k])
    /\ UNCHANGED <<store, pending>>

Set(w, k, v) ==
    /\ store' = [store EXCEPT ![k] = v]
    /\ Answer(w, "set", k, v, "ok", NoRow)
    /\ UNCHANGED pending

Del(w, k) ==
    /\ store[k] # NoRow
    /\ store' = [store EXCEPT ![k] = NoRow]
    /\ Answer(w, "del", k, 0, "int", 1)
    /\ UNCHANGED pending

\* SET fails with an error, DEL with 0.
FailSet(w, k, v) ==
    /\ Answer(w, "set", k, v, "err", NoRow)
    /\ UNCHANGED <<store, pending>>

FailDel(w, k) ==
    /\ Answer(w, "del", k, 0, "int", 0)
    /\ UNCHANGED <<store, pending>>

ReadIncr(w, k, by) ==
    /\ pending' = [pending EXCEPT ![w] =
                       [key |-> k, by |-> by, seen |-> store[k]]]
    /\ UNCHANGED <<store, reply>>

PublishIncr(w) ==
    LET p == pending[w]
        n == IncrResult(p.seen, p.by)
    IN  /\ \/ /\ (p.seen = NoRow) <=> (store[p.key] = NoRow)
              /\ store' = [store EXCEPT ![p.key] = n]
           \/ n = p.seen /\ UNCHANGED store      \* nothing to write
        /\ Answer(w, "incr", p.key, p.by, "int", n)
        /\ pending' = [pending EXCEPT ![w] = NoCall]

FailIncr(w) ==
    /\ Answer(w, "incr", pending[w].key, pending[w].by, "err", NoRow)
    /\ pending' = [pending EXCEPT ![w] = NoCall]
    /\ UNCHANGED store

\* A restart ends every command without an effect; what was published stays.
Restart ==
    /\ pending' = [w \in Worker |-> NoCall]
    /\ reply' = [kind |-> "none"]
    /\ UNCHANGED store

Next == Restart \/ \E w \in Worker :
    \/ /\ pending[w] = NoCall
       /\ \E k \in Key : \/ Get(w, k)
                         \/ Del(w, k) \/ FailDel(w, k)
                         \/ \E v \in Value : Set(w, k, v) \/ FailSet(w, k, v)
                         \/ \E by \in IntRange : ReadIncr(w, k, by)
    \/ pending[w] # NoCall /\ (PublishIncr(w) \/ FailIncr(w))

Spec == Init /\ [][Next]_vars
=============================================================================
