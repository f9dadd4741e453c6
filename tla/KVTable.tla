-------------------------------- MODULE KVTable --------------------------------
(***************************************************************************)
(* The `main' table: GET, SET, DEL, INCR and DECR as the worker threads    *)
(* run them (dispatcher.cc, store.cc, kvtable.cc, table.cc).               *)
(*                                                                         *)
(* A command is one HailDB transaction.  Table::get_cursor begins it and   *)
(* reads the row of the key in its snapshot; a command that needs no write *)
(* replies from that, in the same step.  Otherwise the worker goes through *)
(*     "write" -> "commit" or "rollback" -> "idle".                        *)
(***************************************************************************)
EXTENDS KVValues

CONSTANTS Worker, Key, NoRow, Free, NoTrx, NoCall,
          SetValue,   \* the values clients SET
          Delta       \* the increments clients pass to INCR and DECR

ASSUME SetValueAssumption == SetValue \subseteq Value
ASSUME DeltaAssumption == Delta \subseteq IntRange
ASSUME NoRowAssumption == NoRow \notin Value
ASSUME FreeAssumption == Free \notin Worker

VARIABLES committed, current, lock, view,   \* HailDB
          pc,      \* where each worker is in its command
          call,    \* the command each worker runs
          reply    \* the last reply written, with the worker and its command

INSTANCE HailDB WITH Row <- Key

engine == <<committed, current, lock, view>>
vars == <<committed, current, lock, view, pc, call, reply>>

Calls == [op : {"set"}, key : Key, arg : SetValue]
            \cup [op : {"del"}, key : Key, arg : {0}]
            \cup [op : {"incr"}, key : Key, arg : IntRange]

Table == [Key -> Value \cup {NoRow}]

ASSUME NoTrxAssumption == NoTrx \notin Table
ASSUME NoCallAssumption ==
    /\ NoCall \notin Calls
    /\ NoCall \notin [key : Key, by : IntRange, seen : Value \cup {NoRow}]

\* A reply, with the command it answers; DECR is the INCR it calls.
GetCall(k) == [op |-> "get", key |-> k, arg |-> 0]
SetCall(k, v) == [op |-> "set", key |-> k, arg |-> v]
DelCall(k) == [op |-> "del", key |-> k, arg |-> 0]
IncrCall(k, by) == [op |-> "incr", key |-> k, arg |-> by]

NoReply == [kind |-> "none"]

Replies == [to : Worker, call : Calls \cup {GetCall(k) : k \in Key},
            kind : {"ok", "err", "nil", "str", "int"}, val : Value \cup {NoRow}]
           \cup {NoReply}

Init ==
    /\ EngineInit
    /\ pc = [w \in Worker |-> "idle"]
    /\ call = [w \in Worker |-> NoCall]
    /\ reply = NoReply

Answer(w, c, kind, v) ==
    reply' = [to |-> w, call |-> c, kind |-> kind, val |-> v]

-----------------------------------------------------------------------------
\* Table::get_cursor for a command that goes on to write.
GetCursor(w, c) ==
    /\ BeginTrx(w)
    /\ pc' = [pc EXCEPT ![w] = "write"]
    /\ call' = [call EXCEPT ![w] = c]
    /\ UNCHANGED reply

\* A command that ends without a write, commit or rollback alike.
ReadOnly(w, c, kind, v) ==
    /\ Answer(w, c, kind, v)
    /\ UNCHANGED <<engine, pc, call>>

Get(w, k) ==
    /\ pc[w] = "idle"
    /\ ReadOnly(w, GetCall(k), IF committed[k] = NoRow THEN "nil" ELSE "str",
                committed[k])

\* SET rolls back at once when the row already holds the value.
Set(w, k, v) ==
    /\ pc[w] = "idle"
    /\ \/ committed[k] = v /\ ReadOnly(w, SetCall(k, v), "ok", NoRow)
       \/ committed[k] # v /\ GetCursor(w, SetCall(k, v))

Del(w, k) ==
    /\ pc[w] = "idle"
    /\ \/ committed[k] = NoRow /\ ReadOnly(w, DelCall(k), "int", 0)
       \/ committed[k] # NoRow /\ GetCursor(w, DelCall(k))

Incr(w, k, by) ==
    /\ pc[w] = "idle"
    /\ GetCursor(w, IncrCall(k, by))

\* KVTable::decr: incr(key, -by, out).
Decr(w, k, by) == Incr(w, k, Wrap(-by))

-----------------------------------------------------------------------------
\* The row get_cursor returned, NoRow for none.
RowRead(w) == view[w][call[w].key]

\* Mutant of IncrOut: the sum is computed in a wider type.
IncrOutUnwrapped(seen, by) == IF seen = NoRow THEN 1 ELSE Num(seen) + by

\* What KVTable::incr stores and replies: 1 in a new row, whatever `by' is.
IncrOut(seen, by) == IF seen = NoRow THEN 1 ELSE Wrap(Num(seen) + by)

\* What the command is to leave at its key.
NewRow(w) ==
    LET c == call[w]
    IN  CASE c.op = "set"  -> c.arg
          [] c.op = "del"  -> NoRow
          [] c.op = "incr" -> IncrOut(RowRead(w), c.arg)

\* Mutant of Write: the row is written without waiting for its owner.
WriteUnlocked(w) ==
    /\ pc[w] = "write"
    /\ LET k == call[w].key
       IN  /\ WriteRow(w, k, NewRow(w))
           /\ pc' = [pc EXCEPT ![w] = "commit"]
    /\ UNCHANGED <<call, reply>>

\* Mutant of Write: update and insert do not look at the row as it is now.
WriteBlindly(w) ==
    /\ pc[w] = "write"
    /\ LET k == call[w].key
       IN  /\ CanLock(w, k)
           /\ WriteRow(w, k, NewRow(w))
           /\ pc' = [pc EXCEPT ![w] = "commit"]
    /\ UNCHANGED <<call, reply>>

(***************************************************************************)
(* update_row, insert_row or ib_cursor_delete_row on the key's row.        *)
(* update_row does not write a value the row it read already holds.  The   *)
(* engine waits for the row's lock and acts on the row as it is now: an    *)
(* insert fails when there is a row (DB_DUPLICATE_KEY), an update or a     *)
(* delete when there is none any more (DB_RECORD_NOT_FOUND).               *)
(***************************************************************************)
Write(w) ==
    /\ pc[w] = "write"
    /\ LET k == call[w].key
           stillThere == (current[k] = NoRow) <=> (RowRead(w) = NoRow)
           goto(l) == pc' = [pc EXCEPT ![w] = l]
       IN  \/ /\ NewRow(w) = RowRead(w)
              /\ goto("commit") /\ UNCHANGED engine
           \/ /\ NewRow(w) # RowRead(w)
              /\ CanLock(w, k)
              /\ \/ stillThere /\ goto("commit") /\ WriteRow(w, k, NewRow(w))
                 \/ ~stillThere /\ goto("rollback") /\ UNCHANGED engine
    /\ UNCHANGED <<call, reply>>

\* The engine gives up waiting for the row lock (DB_LOCK_WAIT_TIMEOUT).
LockTimeout(w) ==
    /\ pc[w] = "write"
    /\ NewRow(w) # RowRead(w)
    /\ ~CanLock(w, call[w].key)
    /\ pc' = [pc EXCEPT ![w] = "rollback"]
    /\ UNCHANGED <<engine, call, reply>>

\* The command is over: its locals are gone and the worker takes the next.
Return(w) ==
    /\ pc' = [pc EXCEPT ![w] = "idle"]
    /\ call' = [call EXCEPT ![w] = NoCall]

\* Mutant of Commit: the worker replies and leaves the transaction open.
CommitForgotten(w) ==
    /\ pc[w] = "commit"
    /\ Answer(w, call[w], "ok", NoRow)
    /\ Return(w)
    /\ UNCHANGED engine

\* Table::commit and the reply of the dispatcher to a true result.
Commit(w) ==
    /\ pc[w] = "commit"
    /\ CommitTrx(w)
    /\ CASE call[w].op = "set"  -> Answer(w, call[w], "ok", NoRow)
         [] call[w].op = "del"  -> Answer(w, call[w], "int", 1)
         [] call[w].op = "incr" -> Answer(w, call[w], "int", NewRow(w))
    /\ Return(w)

\* Mutant of Rollback: the worker tries again in the same transaction.
RollbackRetries(w) ==
    /\ pc[w] = "rollback"
    /\ pc' = [pc EXCEPT ![w] = "write"]
    /\ UNCHANGED <<engine, call, reply>>

\* Table::rollback and the reply of the dispatcher to a false result.
Rollback(w) ==
    /\ pc[w] = "rollback"
    /\ RollbackTrx(w)
    /\ IF call[w].op = "del" THEN Answer(w, call[w], "int", 0)
                             ELSE Answer(w, call[w], "err", NoRow)
    /\ Return(w)

\* A worker in the middle of a command.
Step(w) == Write(w) \/ LockTimeout(w) \/ Commit(w) \/ Rollback(w)

\* A worker that takes a command a client sent.
Take(w) == \E k \in Key :
    \/ Get(w, k)
    \/ Del(w, k)
    \/ \E v \in SetValue : Set(w, k, v)
    \/ \E by \in Delta : Incr(w, k, by) \/ Decr(w, k, by)

\* The server is killed, and main starts it again.
Restart ==
    /\ RecoverTrx
    /\ pc' = [w \in Worker |-> "idle"]
    /\ call' = [w \in Worker |-> NoCall]
    /\ reply' = NoReply

Next == Restart \/ \E w \in Worker : Take(w) \/ Step(w)

Spec == Init /\ [][Next]_vars

\* A worker thread keeps running, and the engine ends every lock wait, by
\* granting the lock or by a timeout.
Fairness == \A w \in Worker : WF_vars(Step(w))
FairSpec == Spec /\ Fairness

-----------------------------------------------------------------------------
TypeOK ==
    /\ committed \in Table
    /\ current \in Table
    /\ lock \in [Key -> Worker \cup {Free}]
    /\ view \in [Worker -> Table \cup {NoTrx}]
    /\ pc \in [Worker -> {"idle", "write", "commit", "rollback"}]
    /\ call \in [Worker -> Calls \cup {NoCall}]
    /\ reply \in Replies

(***************************************************************************)
(* Between two commands a worker owns nothing: every exit of set, del and  *)
(* incr, the failing ones included, closes its transaction, so no row      *)
(* stays locked (or half written) after the reply.                         *)
(***************************************************************************)
NothingLeftBehind ==
    /\ \A w \in Worker : pc[w] = "idle" =>
           view[w] = NoTrx /\ \A k \in Key : lock[k] # w
    /\ \A k \in Key : lock[k] = Free => current[k] = committed[k]

(***************************************************************************)
(* Why the table is correct, as an invariant the steps preserve:           *)
(*   - a worker has a command exactly while it has a transaction;          *)
(*   - a SET or DEL goes on to write only if that changes the row it read; *)
(*   - a worker about to commit owns its row, or has nothing to write;     *)
(*   - the owner of a row is about to commit, has written there what its   *)
(*     command is to leave, and the row it read and the row it replaces    *)
(*     both exist or both do not.                                          *)
(***************************************************************************)
OneTrxPerCall(w) ==
    IF pc[w] = "idle"
    THEN call[w] = NoCall /\ view[w] = NoTrx
    ELSE /\ call[w] \in Calls /\ view[w] \in Table
         /\ call[w].op = "set" => RowRead(w) # call[w].arg
         /\ call[w].op = "del" => RowRead(w) # NoRow

CommitOwnsItsRow(w) ==
    pc[w] = "commit" => \/ lock[call[w].key] = w
                        \/ NewRow(w) = RowRead(w)

OwnerWrote(w, k) ==
    lock[k] = w =>
        /\ pc[w] = "commit" /\ call[w].key = k
        /\ current[k] = NewRow(w) /\ NewRow(w) # RowRead(w)
        /\ (committed[k] = NoRow) <=> (RowRead(w) = NoRow)

LockDiscipline ==
    /\ \A k \in Key : lock[k] = Free => current[k] = committed[k]
    /\ \A w \in Worker : /\ OneTrxPerCall(w)
                         /\ CommitOwnsItsRow(w)
                         /\ \A k \in Key : OwnerWrote(w, k)

(***************************************************************************)
(* The table implements AtomicKV: linearizable GET, SET and DEL, failures  *)
(* without effect, INCR/DECR that publish what they reply, and restarts    *)
(* that lose nothing acknowledged and keep nothing unfinished.             *)
(***************************************************************************)
PendingIncr ==
    [w \in Worker |->
        IF pc[w] # "idle" /\ call[w].op = "incr"
        THEN [key |-> call[w].key, by |-> call[w].arg, seen |-> RowRead(w)]
        ELSE NoCall]

Abstract == INSTANCE AtomicKV WITH store <- committed, pending <- PendingIncr

ImplementsAtomicKV == Abstract!Spec

(***************************************************************************)
(* An INCR or DECR that is acknowledged adds its increment to the value    *)
(* the key has when it takes effect ("convert to number and increment",    *)
(* KVTable::incr), whoever has changed it since the command began.         *)
(***************************************************************************)
IncrementIsAtomic ==
    [][\A w \in Worker :
          /\ pc[w] = "commit" /\ call[w].op = "incr" /\ reply'.kind = "int"
          /\ pc'[w] = "idle"
          /\ RowRead(w) # NoRow /\ committed[call[w].key] # NoRow
          => LET c == call[w]
             IN  committed'[c.key] = Num(committed[c.key]) + c.arg]_vars

\* Every command is answered: no worker waits for a row for ever.
EveryCommandReturns == \A w \in Worker : pc[w] # "idle" ~> pc[w] = "idle"
=============================================================================
