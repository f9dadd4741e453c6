------------------------------- MODULE SetTable -------------------------------
(***************************************************************************)
(* SADD, SREM, SISMEMBER and SMEMBERS as the worker threads run them       *)
(* (settable.cc): the `sets' table has one row per key and member, and no  *)
(* other column, so that a command writes at most one row.                 *)
(***************************************************************************)
EXTENDS Integers

CONSTANTS Worker,
          Key,        \* keys, as naturals in the order of the index
          Member,
          NoRow, Free, NoTrx, NoCall, NoReply

ASSUME KeyAssumption == Key \subseteq Nat
ASSUME FreeAssumption == Free \notin Worker

There == "row"   \* what the table holds at a row that is there
ASSUME NoRowAssumption == NoRow # There

Row == Key \X Member

VARIABLES committed, current, lock, view,   \* HailDB
          pc,      \* where each worker is in its command
          call,    \* the command it writes for
          reply    \* the last reply, with the worker and its command

INSTANCE HailDB

engine == <<committed, current, lock, view>>
vars == <<committed, current, lock, view, pc, call, reply>>

Calls == [op : {"sadd", "srem"}, row : Row]

ASSUME NoCallAssumption == NoCall \notin Calls

Table == [Row -> {There, NoRow}]

ASSUME NoTrxAssumption == NoTrx \notin Table

Init ==
    /\ EngineInit
    /\ pc = [w \in Worker |-> "idle"]
    /\ call = [w \in Worker |-> NoCall]
    /\ reply = NoReply

Answer(w, request, v) == reply' = [to |-> w, request |-> request, val |-> v]
Goto(w, l) == pc' = [pc EXCEPT ![w] = l]

-----------------------------------------------------------------------------
\* A command that goes on to write.
GetCursor(w, op, r) ==
    /\ pc[w] = "idle"
    /\ BeginTrx(w)
    /\ call' = [call EXCEPT ![w] = [op |-> op, row |-> r]]
    /\ Goto(w, "write")
    /\ UNCHANGED reply

\* A command that only reads its snapshot, and rolls back.
ReadOnly(w, request, v) ==
    /\ pc[w] = "idle"
    /\ Answer(w, request, v)
    /\ UNCHANGED <<engine, pc, call>>

SAdd(w, k, m) ==
    \/ committed[<<k, m>>] # NoRow /\ ReadOnly(w, <<"sadd", k, m>>, 0)
    \/ committed[<<k, m>>] = NoRow /\ GetCursor(w, "sadd", <<k, m>>)

SRem(w, k, m) ==
    \/ committed[<<k, m>>] = NoRow /\ ReadOnly(w, <<"srem", k, m>>, 0)
    \/ committed[<<k, m>>] # NoRow /\ GetCursor(w, "srem", <<k, m>>)

\* The dispatcher turns "no" into an error, written -1 here.
SIsMember(w, k, m) ==
    ReadOnly(w, <<"sismember", k, m>>, IF committed[<<k, m>>] # NoRow THEN 1 ELSE -1)

\* Mutant of MembersFrom: the scan goes on to the next keys.
MembersFromOn(k) ==
    LET scanned == {r \in Row : committed[r] # NoRow /\ r[1] >= k}
    IN  {r[2] : r \in scanned}

\* The scan of smembers: from the first row at or after the key, until a row
\* of another key.
MembersFrom(k) ==
    LET scanned == {r \in Row : committed[r] # NoRow /\ r[1] >= k}
        stop == {r \in scanned : r[1] # k}
    IN  {r[2] : r \in {q \in scanned : \A s \in stop : q[1] < s[1]}}

SMembers(w, k) == ReadOnly(w, <<"smembers", k>>, MembersFrom(k))

-----------------------------------------------------------------------------
\* Mutant of Write: the result of the insert or delete is not looked at.
WriteUnchecked(w) ==
    /\ pc[w] = "write"
    /\ CanLock(w, call[w].row)
    /\ WriteRow(w, call[w].row, IF call[w].op = "sadd" THEN There ELSE NoRow)
    /\ Goto(w, "commit")
    /\ UNCHANGED <<call, reply>>

\* insert_row or ib_cursor_delete_row, on the row as it is now: an insert
\* fails when it is there, a delete when it is not.
Write(w) ==
    LET r == call[w].row
        adds == call[w].op = "sadd"
    IN  /\ pc[w] = "write"
        /\ CanLock(w, r)
        /\ \/ /\ adds = (current[r] = NoRow)
              /\ WriteRow(w, r, IF adds THEN There ELSE NoRow)
              /\ Goto(w, "commit")
           \/ /\ adds # (current[r] = NoRow)
              /\ Goto(w, "rollback")
              /\ UNCHANGED engine
        /\ UNCHANGED <<call, reply>>

\* The engine gives up waiting for the row lock (DB_LOCK_WAIT_TIMEOUT).
LockTimeout(w) ==
    /\ pc[w] = "write"
    /\ ~CanLock(w, call[w].row)
    /\ Goto(w, "rollback")
    /\ UNCHANGED <<engine, call, reply>>

\* Mutant of Return: the locals of the command survive it.
ReturnKeepsCall(w) ==
    /\ Goto(w, "idle")
    /\ UNCHANGED call

Request(w) == <<call[w].op, call[w].row[1], call[w].row[2]>>

Return(w) ==
    /\ Goto(w, "idle")
    /\ call' = [call EXCEPT ![w] = NoCall]

\* Mutant of Commit: the transaction stays open.
CommitForgotten(w) ==
    /\ pc[w] = "commit"
    /\ Answer(w, Request(w), 1)
    /\ Return(w)
    /\ UNCHANGED engine

Commit(w) ==
    /\ pc[w] = "commit"
    /\ CommitTrx(w)
    /\ Answer(w, Request(w), 1)
    /\ Return(w)

Rollback(w) ==
    /\ pc[w] = "rollback"
    /\ RollbackTrx(w)
    /\ Answer(w, Request(w), 0)
    /\ Return(w)

Step(w) == Write(w) \/ LockTimeout(w) \/ Commit(w) \/ Rollback(w)

Take(w) == \E k \in Key :
    \/ \E m \in Member : SAdd(w, k, m) \/ SRem(w, k, m) \/ SIsMember(w, k, m)
    \/ SMembers(w, k)

\* The server is killed, and main starts it again.
Restart ==
    /\ RecoverTrx
    /\ pc' = [w \in Worker |-> "idle"]
    /\ call' = [w \in Worker |-> NoCall]
    /\ reply' = NoReply

Next == Restart \/ \E w \in Worker : Take(w) \/ Step(w)

Spec == Init /\ [][Next]_vars

-----------------------------------------------------------------------------
TypeOK ==
    /\ committed \in Table
    /\ current \in Table
    /\ lock \in [Row -> Worker \cup {Free}]
    /\ view \in [Worker -> Table \cup {NoTrx}]
    /\ pc \in [Worker -> {"idle", "write", "commit", "rollback"}]
    /\ call \in [Worker -> Calls \cup {NoCall}]
    /\ \A w \in Worker : (pc[w] = "idle") = (call[w] = NoCall)

\* Between two commands a worker owns nothing, and nothing is half written.
NothingLeftBehind ==
    /\ \A w \in Worker : pc[w] = "idle" =>
           view[w] = NoTrx /\ \A r \in Row : lock[r] # w
    /\ \A r \in Row : lock[r] = Free => current[r] = committed[r]

(***************************************************************************)
(* A worker that is to commit has changed its row: it owns it, and the row *)
(* is no longer what every snapshot taken before the commit shows.  So a   *)
(* 1 is never told to two clients for one change.                          *)
(***************************************************************************)
ChangeIsMine ==
    \A w \in Worker : pc[w] = "commit" =>
        LET r == call[w].row
        IN  /\ lock[r] = w
            /\ current[r] = (IF call[w].op = "sadd" THEN There ELSE NoRow)
            /\ committed[r] # current[r]

\* The set commands implement AtomicSet, whatever the conflicts.
Abstract == INSTANCE AtomicSet WITH
    members <- [k \in Key |-> {m \in Member : committed[<<k, m>>] # NoRow}]

ImplementsAtomicSet == Abstract!Spec
=============================================================================
