-------------------------------- MODULE HailDB --------------------------------
(***************************************************************************)
(* What LycaDB asks of the HailDB (embedded InnoDB) storage engine.        *)
(*                                                                         *)
(* The engine is a library outside the repository: this module models it   *)
(* from the way src/*.cc uses it.  A transaction is begun with             *)
(* ib_trx_begin(IB_TRX_REPEATABLE_READ) and no cursor ever asks for a row  *)
(* lock, so a read is a consistent read of the transaction's snapshot (and *)
(* of its own writes).  An insert, update or delete of a row takes the     *)
(* exclusive lock of that row, waits for the transaction that holds it,    *)
(* acts on the row as it is NOW, and keeps the lock until the transaction  *)
(* commits or rolls back.                                                  *)
(*                                                                         *)
(* A worker thread runs one transaction at a time, so a transaction is     *)
(* named by its worker.                                                    *)
(***************************************************************************)
CONSTANTS Worker,   \* the worker threads (net.h, class Worker)
          Row,      \* every primary key of every table
          NoRow,    \* what a table holds at a key that has no row
          Free,     \* the owner of a row nobody has locked
          NoTrx     \* the snapshot of a worker with no open transaction

VARIABLES committed,  \* the rows a new snapshot sees
          current,    \* the rows as last written, committed or not
          lock,       \* the worker that holds each row's exclusive lock
          view        \* each worker's snapshot

EngineInit ==
    /\ committed = [r \in Row |-> NoRow]
    /\ current = committed
    /\ lock = [r \in Row |-> Free]
    /\ view = [w \in Worker |-> NoTrx]

-----------------------------------------------------------------------------
\* ib_trx_begin and the first read: the snapshot is taken.
BeginTrx(w) ==
    /\ view' = [view EXCEPT ![w] = committed]
    /\ UNCHANGED <<committed, current, lock>>

\* What a cursor of w's transaction reads at r.
Sees(w, r) == IF lock[r] = w THEN current[r] ELSE view[w][r]

\* The transaction of w need not wait to write r.
CanLock(w, r) == lock[r] \in {Free, w}

\* ib_cursor_insert_row, _update_row and _delete_row when they succeed.
WriteRow(w, r, value) ==
    /\ lock' = [lock EXCEPT ![r] = w]
    /\ current' = [current EXCEPT ![r] = value]
    /\ UNCHANGED <<committed, view>>

\* ib_trx_begin, reads, and a first write that cannot conflict.
BeginTrxWriting(w, r, value) ==
    /\ view' = [view EXCEPT ![w] = committed]
    /\ lock' = [lock EXCEPT ![r] = w]
    /\ current' = [current EXCEPT ![r] = value]
    /\ UNCHANGED committed

\* ib_trx_commit.
CommitTrx(w) ==
    /\ committed' = [r \in Row |-> IF lock[r] = w THEN current[r]
                                                  ELSE committed[r]]
    /\ lock' = [r \in Row |-> IF lock[r] = w THEN Free ELSE lock[r]]
    /\ view' = [view EXCEPT ![w] = NoTrx]
    /\ UNCHANGED current

\* ib_trx_rollback: the undo log restores every row w wrote.
RollbackTrx(w) ==
    /\ current' = [r \in Row |-> IF lock[r] = w THEN committed[r]
                                                ELSE current[r]]
    /\ lock' = [r \in Row |-> IF lock[r] = w THEN Free ELSE lock[r]]
    /\ view' = [view EXCEPT ![w] = NoTrx]
    /\ UNCHANGED committed

\* The process is killed and started again: recovery rolls back what was
\* open and keeps what was committed (flush_log_at_trx_commit is 2, so a
\* commit has reached the operating system).
RecoverTrx ==
    /\ current' = committed
    /\ lock' = [r \in Row |-> Free]
    /\ view' = [w \in Worker |-> NoTrx]
    /\ UNCHANGED committed
=============================================================================
