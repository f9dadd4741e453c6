---------------------------- MODULE SetTable_proofs ----------------------------
(***************************************************************************)
(* What holds of the `sets' table for every set of workers, keys and       *)
(* members: its type, that a command leaves nothing behind, that a change  *)
(* is acknowledged to the worker that made it, and that the table          *)
(* implements AtomicSet.                                                   *)
(***************************************************************************)
EXTENDS SetTable, TLAPS

\* What a command is to leave in its row.
Outcome(w) == IF call[w].op = "sadd" THEN There ELSE NoRow

\* The owner of a row is about to commit a change of that row.
OwnerChanged(w, r) ==
    lock[r] = w => /\ pc[w] = "commit" /\ call[w].row = r
                   /\ current[r] = Outcome(w) /\ committed[r] # current[r]

WorkerInv(w) ==
    /\ pc[w] = "idle" => view[w] = NoTrx
    /\ pc[w] = "commit" => lock[call[w].row] = w
    /\ \A r \in Row : OwnerChanged(w, r)

\* The strengthening that makes the invariants inductive.
Inv ==
    /\ TypeOK
    /\ \A r \in Row : lock[r] = Free => current[r] = committed[r]
    /\ \A w \in Worker : WorkerInv(w)

-----------------------------------------------------------------------------
\* A worker in the middle of a command has a call, on a row of the table.
LEMMA BusyWorker ==
    ASSUME TypeOK, NEW w \in Worker, pc[w] # "idle"
    PROVE  /\ call[w] \in Calls /\ call[w] # NoCall
           /\ call[w].op \in {"sadd", "srem"} /\ call[w].row \in Row
           /\ Outcome(w) \in {There, NoRow}
<1>1. call[w] \in Calls /\ call[w] # NoCall
    BY DEF TypeOK
<1> QED BY <1>1 DEF Calls, Outcome

\* What a worker knows and owns does not depend on the steps of the others.
LEMMA OthersKeepTheirRows ==
    ASSUME Inv, NEW u \in Worker, UNCHANGED <<pc[u], call[u], view[u]>>,
           \A r \in Row : lock'[r] = u <=> lock[r] = u,
           \A r \in Row : lock[r] = u => /\ current'[r] = current[r]
                                         /\ committed'[r] = committed[r]
    PROVE  WorkerInv(u)'
<1>1. WorkerInv(u)
    BY DEF Inv
<1>2. Outcome(u)' = Outcome(u)
    BY DEF Outcome
<1>3. pc[u] = "commit" => call[u].row \in Row
    BY BusyWorker DEF Inv
<1> QED BY <1>1, <1>2, <1>3 DEF WorkerInv, OwnerChanged

LEMMA InitInv == Init => Inv
BY FreeAssumption DEF Init, EngineInit, Inv, TypeOK, Table, WorkerInv, OwnerChanged

\* A reply without a write disturbs nothing but the reply.
LEMMA ReadOnlyInv ==
    ASSUME Inv, NEW w \in Worker, NEW q, NEW v, ReadOnly(w, q, v)
    PROVE  Inv'
<1>1. UNCHANGED <<committed, current, lock, view, pc, call>>
    BY DEF ReadOnly, engine
<1>2. TypeOK'
    BY <1>1 DEF Inv, TypeOK
<1>3. \A u \in Worker : WorkerInv(u)'
    BY <1>1, OthersKeepTheirRows
<1> QED BY <1>1, <1>2, <1>3 DEF Inv

\* A command that goes on to write owns nothing yet.
LEMMA GetCursorInv ==
    ASSUME Inv, NEW w \in Worker, NEW op \in {"sadd", "srem"}, NEW r \in Row,
           GetCursor(w, op, r)
    PROVE  Inv'
<1> DEFINE c == [op |-> op, row |-> r]
<1>1. /\ pc[w] = "idle" /\ UNCHANGED <<committed, current, lock, reply>>
      /\ view' = [view EXCEPT ![w] = committed]
      /\ call' = [call EXCEPT ![w] = c]
      /\ pc' = [pc EXCEPT ![w] = "write"]
    BY DEF GetCursor, BeginTrx, Goto
<1>2. c \in Calls /\ c # NoCall
    BY NoCallAssumption DEF Calls
<1>3. TypeOK'
    BY <1>1, <1>2 DEF Inv, TypeOK
<1>4. /\ pc'[w] = "write"
      /\ \A u \in Worker \ {w} : UNCHANGED <<pc[u], call[u], view[u]>>
    BY <1>1 DEF Inv, TypeOK
<1>5. \A q \in Row : lock[q] # w
    BY <1>1 DEF Inv, WorkerInv, OwnerChanged
<1>6. WorkerInv(w)'
    BY <1>1, <1>4, <1>5 DEF WorkerInv, OwnerChanged
<1>7. \A u \in Worker \ {w} : WorkerInv(u)'
    BY <1>1, <1>4, OthersKeepTheirRows
<1>8. \A q \in Row : lock'[q] = Free => current'[q] = committed'[q]
    BY <1>1 DEF Inv
<1> QED BY <1>3, <1>6, <1>7, <1>8 DEF Inv

-----------------------------------------------------------------------------
\* The engine refuses the write, or gives up waiting for the row.
LEMMA NoWriteInv ==
    ASSUME Inv, NEW w \in Worker, pc[w] = "write", Goto(w, "rollback"),
           UNCHANGED <<engine, call, reply>>
    PROVE  Inv'
<1>1. UNCHANGED <<committed, current, lock, view, call>>
    BY DEF engine
<1>2. pc'[w] = "rollback" /\ \A u \in Worker \ {w} : pc'[u] = pc[u]
    BY DEF Goto, Inv, TypeOK
<1>3. TypeOK'
    BY <1>1, <1>2 DEF Goto, Inv, TypeOK
<1>4. WorkerInv(w)'
    BY <1>1, <1>2 DEF Inv, WorkerInv, OwnerChanged
<1>5. \A u \in Worker \ {w} : WorkerInv(u)'
    BY <1>1, <1>2, OthersKeepTheirRows
<1> QED BY <1>1, <1>3, <1>4, <1>5 DEF Inv

\* The row is as the snapshot did not show it, free, and now the worker's.
LEMMA WriteRowInv ==
    ASSUME Inv, NEW w \in Worker, pc[w] = "write", CanLock(w, call[w].row),
           (call[w].op = "sadd") = (current[call[w].row] = NoRow),
           WriteRow(w, call[w].row, Outcome(w)), Goto(w, "commit"),
           UNCHANGED <<call, reply>>
    PROVE  Inv'
<1> DEFINE r == call[w].row
<1>1. r \in Row /\ Outcome(w) \in {There, NoRow}
    BY BusyWorker DEF Inv
<1>2. \A q \in Row : lock[q] # w
    BY DEF Inv, WorkerInv, OwnerChanged
<1>3. lock[r] = Free /\ current[r] = committed[r]
    BY <1>1, <1>2 DEF CanLock, Inv
<1>4. current[r] # Outcome(w)
    BY <1>1, NoRowAssumption DEF Inv, TypeOK, Table, Outcome
<1>5. /\ lock' = [lock EXCEPT ![r] = w] /\ current' = [current EXCEPT ![r] = Outcome(w)]
      /\ pc' = [pc EXCEPT ![w] = "commit"]
      /\ UNCHANGED <<committed, view, call>>
    BY DEF WriteRow, Goto
<1>6. TypeOK'
    BY <1>1, <1>5 DEF Inv, TypeOK, Table
<1>7. /\ lock'[r] = w /\ current'[r] = Outcome(w) /\ Outcome(w)' = Outcome(w)
      /\ \A q \in Row \ {r} : lock'[q] = lock[q] /\ current'[q] = current[q]
      /\ pc'[w] = "commit" /\ \A u \in Worker \ {w} : pc'[u] = pc[u]
    BY <1>1, <1>5 DEF Inv, TypeOK, Table, Outcome
<1>8. WorkerInv(w)'
    BY <1>2, <1>3, <1>4, <1>5, <1>7 DEF WorkerInv, OwnerChanged
<1>9. ASSUME NEW u \in Worker \ {w} PROVE WorkerInv(u)'
    <2>1. \A q \in Row : lock[q] = u => q # r
        BY <1>3, FreeAssumption
    <2>2. \A q \in Row : lock'[q] = u <=> lock[q] = u
        BY <1>3, <1>7, <2>1
    <2> QED BY <1>5, <1>7, <2>1, <2>2, OthersKeepTheirRows
<1>10. \A q \in Row : lock'[q] = Free => current'[q] = committed'[q]
    BY <1>5, <1>7, FreeAssumption DEF Inv
<1> QED BY <1>6, <1>8, <1>9, <1>10 DEF Inv

LEMMA WriteInv ==
    ASSUME Inv, NEW w \in Worker, Write(w)
    PROVE  Inv'
BY NoWriteInv, WriteRowInv DEF Write, Outcome

\* A wait that times out changes nothing but where the worker is.
LEMMA LockTimeoutInv ==
    ASSUME Inv, NEW w \in Worker, LockTimeout(w)
    PROVE  Inv'
BY NoWriteInv DEF LockTimeout

\* The end of a transaction: the rows of the worker are free, and become
\* what `current' or `committed' says.
LEMMA EndOfTrxInv ==
    ASSUME Inv, NEW w \in Worker, CommitTrx(w) \/ RollbackTrx(w), Return(w)
    PROVE  Inv'
<1>1. /\ lock' = [r \in Row |-> IF lock[r] = w THEN Free ELSE lock[r]]
      /\ view' = [view EXCEPT ![w] = NoTrx]
    BY DEF CommitTrx, RollbackTrx
<1>2. /\ \A r \in Row : lock[r] # w => /\ committed'[r] = committed[r]
                                       /\ current'[r] = current[r]
      /\ \A r \in Row : lock[r] = w => committed'[r] = current'[r]
      /\ committed' \in Table /\ current' \in Table
    BY DEF CommitTrx, RollbackTrx, Inv, TypeOK, Table
<1>3. /\ pc' = [pc EXCEPT ![w] = "idle"] /\ call' = [call EXCEPT ![w] = NoCall]
    BY DEF Return, Goto
<1>4. /\ pc'[w] = "idle" /\ view'[w] = NoTrx
      /\ \A u \in Worker \ {w} : UNCHANGED <<pc[u], call[u], view[u]>>
    BY <1>1, <1>3 DEF Inv, TypeOK
<1>5. TypeOK'
    BY <1>1, <1>2, <1>3 DEF Inv, TypeOK
<1>6. WorkerInv(w)'
    BY <1>1, <1>4, FreeAssumption DEF WorkerInv, OwnerChanged
<1>7. \A u \in Worker \ {w} : WorkerInv(u)'
    BY <1>1, <1>2, <1>4, FreeAssumption, OthersKeepTheirRows
<1>8. \A r \in Row : lock'[r] = Free => current'[r] = committed'[r]
    BY <1>1, <1>2 DEF Inv
<1> QED BY <1>5, <1>6, <1>7, <1>8 DEF Inv

\* A restart leaves what is committed, and nobody in the middle of anything.
LEMMA RestartInv ==
    ASSUME Inv, Restart
    PROVE  Inv'
BY FreeAssumption DEF Restart, RecoverTrx, Inv, TypeOK, WorkerInv, OwnerChanged

LEMMA TakeInv ==
    ASSUME Inv, NEW w \in Worker, Take(w)
    PROVE  Inv'
<1>1. PICK k \in Key : \/ \E m \in Member : SAdd(w, k, m) \/ SRem(w, k, m)
                                            \/ SIsMember(w, k, m)
                       \/ SMembers(w, k)
    BY DEF Take
<1>2. ASSUME NEW m \in Member, SAdd(w, k, m) \/ SRem(w, k, m) PROVE Inv'
    <2>1. <<k, m>> \in Row
        BY DEF Row
    <2> QED BY <1>2, <2>1, ReadOnlyInv, GetCursorInv DEF SAdd, SRem
<1> QED BY <1>1, <1>2, ReadOnlyInv DEF SIsMember, SMembers

LEMMA NextInv == Inv /\ [Next]_vars => Inv'
<1> SUFFICES ASSUME Inv, [Next]_vars PROVE Inv'
    OBVIOUS
<1>1. CASE UNCHANGED vars
    <2>1. UNCHANGED <<committed, current, lock, view, pc, call>>
        BY <1>1 DEF vars
    <2>2. \A u \in Worker : WorkerInv(u)'
        BY <2>1, OthersKeepTheirRows
    <2> QED BY <2>1, <2>2 DEF Inv, TypeOK
<1>2. ASSUME NEW w \in Worker, Step(w) PROVE Inv'
    BY <1>2, WriteInv, LockTimeoutInv, EndOfTrxInv DEF Step, Commit, Rollback
<1> QED BY <1>1, <1>2, TakeInv, RestartInv DEF Next

-----------------------------------------------------------------------------
\* The rows, locks and locals of every behaviour have their types.
THEOREM TypeCorrect == Spec => []TypeOK
<1>1. Inv => TypeOK
    BY DEF Inv
<1> QED BY <1>1, InitInv, NextInv, PTL DEF Spec

\* Between two commands a worker owns no row, and nothing is half written.
THEOREM NothingIsLeftBehind == Spec => []NothingLeftBehind
<1>1. Inv => NothingLeftBehind
    BY DEF Inv, NothingLeftBehind, WorkerInv, OwnerChanged
<1> QED BY <1>1, InitInv, NextInv, PTL DEF Spec

\* A worker that is to reply 1 has changed its row, and owns it.
THEOREM EveryChangeIsOnesOwn == Spec => []ChangeIsMine
<1>1. Inv => ChangeIsMine
    <2> SUFFICES ASSUME Inv, NEW w \in Worker, pc[w] = "commit"
                 PROVE  /\ lock[call[w].row] = w
                        /\ current[call[w].row] = Outcome(w)
                        /\ committed[call[w].row] # current[call[w].row]
        BY DEF ChangeIsMine, Outcome
    <2>1. call[w].row \in Row
        BY BusyWorker DEF Inv
    <2> QED BY <2>1 DEF Inv, WorkerInv, OwnerChanged
<1> QED BY <1>1, InitInv, NextInv, PTL DEF Spec

-----------------------------------------------------------------------------
\* The members of a key, in the abstract state.
Members(k) == {m \in Member : committed[<<k, m>>] # NoRow}

\* The scan of the index stops where the rows of the key do.
LEMMA ScanFindsMembers ==
    ASSUME NEW k \in Key
    PROVE  MembersFrom(k) = Members(k)
<1> DEFINE scanned == {r \in Row : committed[r] # NoRow /\ r[1] >= k}
           stop == {r \in scanned : r[1] # k}
           kept == {q \in scanned : \A s \in stop : q[1] < s[1]}
<1>1. \A q \in Row : q \in kept <=> q[1] = k /\ committed[q] # NoRow
    <2>1. \A q \in Row : q[1] \in Nat /\ k \in Nat
        BY KeyAssumption DEF Row
    <2> QED BY <2>1
<1>2. MembersFrom(k) = {q[2] : q \in kept}
    BY DEF MembersFrom
<1>3. ASSUME NEW m \in Members(k) PROVE m \in {q[2] : q \in kept}
    <2>1. <<k, m>> \in Row /\ committed[<<k, m>>] # NoRow
        BY <1>3 DEF Members, Row
    <2>2. <<k, m>> \in kept
        BY <1>1, <2>1
    <2> HIDE DEF kept
    <2> QED BY <2>2
<1>4. ASSUME NEW q \in kept PROVE q[2] \in Members(k)
    <2>1. q \in Row /\ q[1] = k /\ committed[q] # NoRow
        BY <1>1, <1>4
    <2>2. q = <<k, q[2]>> /\ q[2] \in Member
        BY <2>1 DEF Row
    <2> QED BY <2>1, <2>2 DEF Members
<1> HIDE DEF kept
<1> QED BY <1>2, <1>3, <1>4

\* A command that reads is the abstract command, at its snapshot.
LEMMA ReadOnlyRefines ==
    ASSUME NEW w \in Worker, NEW q, NEW v, ReadOnly(w, q, v)
    PROVE  /\ UNCHANGED committed
           /\ reply' = [to |-> w, request |-> q, val |-> v]
BY DEF ReadOnly, Answer, engine

LEMMA TakeRefines ==
    ASSUME Inv, NEW w \in Worker, Take(w)
    PROVE  [Abstract!Next]_(Abstract!vars)
<1>1. PICK k \in Key : \/ \E m \in Member : SAdd(w, k, m) \/ SRem(w, k, m)
                                            \/ SIsMember(w, k, m)
                       \/ SMembers(w, k)
    BY DEF Take
<1>2. ASSUME NEW op \in {"sadd", "srem"}, NEW r \in Row, GetCursor(w, op, r)
      PROVE  UNCHANGED Abstract!vars
    BY <1>2 DEF GetCursor, BeginTrx, Abstract!vars
<1>3. ASSUME NEW m \in Member, NEW op \in {"sadd", "srem"},
             ReadOnly(w, <<op, k, m>>, 0)
      PROVE  Abstract!Next
    <2>1. Abstract!NoEffect(w, k, m)
        BY <1>3, ReadOnlyRefines DEF Abstract!NoEffect, Abstract!Answer
    <2> QED BY <2>1 DEF Abstract!Next
<1>4. ASSUME NEW m \in Member, SAdd(w, k, m) \/ SRem(w, k, m)
      PROVE  [Abstract!Next]_(Abstract!vars)
    <2>1. <<k, m>> \in Row
        BY DEF Row
    <2> QED BY <1>2, <1>3, <1>4, <2>1 DEF SAdd, SRem
<1>5. ASSUME NEW m \in Member, SIsMember(w, k, m) PROVE Abstract!Next
    <2>1. Abstract!SIsMember(w, k, m)
        BY <1>5, ReadOnlyRefines DEF SIsMember, Abstract!SIsMember, Abstract!Answer
    <2> QED BY <2>1 DEF Abstract!Next
<1>6. ASSUME SMembers(w, k) PROVE Abstract!Next
    <2>1. Abstract!SMembers(w, k)
        BY <1>6, ReadOnlyRefines, ScanFindsMembers
           DEF SMembers, Members, Abstract!SMembers, Abstract!Answer
    <2> QED BY <2>1 DEF Abstract!Next
<1> QED BY <1>1, <1>4, <1>5, <1>6

\* The commit of a worker publishes the row of its command and no other.
LEMMA CommitPublishes ==
    ASSUME Inv, NEW w \in Worker, Commit(w)
    PROVE  /\ call[w].row \in Row
           /\ committed[call[w].row] # Outcome(w)
           /\ committed' = [committed EXCEPT ![call[w].row] = Outcome(w)]
<1>1. /\ pc[w] = "commit"
      /\ committed' = [r \in Row |-> IF lock[r] = w THEN current[r] ELSE committed[r]]
    BY DEF Commit, CommitTrx
<1>2. call[w].row \in Row
    BY <1>1, BusyWorker DEF Inv
<1>3. lock[call[w].row] = w
    BY <1>1 DEF Inv, WorkerInv
<1>4. \A r \in Row : lock[r] = w => /\ r = call[w].row /\ current[r] = Outcome(w)
                                    /\ committed[r] # current[r]
    BY DEF Inv, WorkerInv, OwnerChanged
<1>5. committed \in Table
    BY DEF Inv, TypeOK
<1> QED BY <1>1, <1>2, <1>3, <1>4, <1>5 DEF Table

LEMMA CommitRefines ==
    ASSUME Inv, NEW w \in Worker, Commit(w)
    PROVE  Abstract!Next
<1>1. PICK k \in Key, m \in Member : call[w].row = <<k, m>>
    BY CommitPublishes DEF Row
<1>2. call[w].op \in {"sadd", "srem"}
    BY BusyWorker DEF Inv, Commit
<1>3. reply' = [to |-> w, request |-> <<call[w].op, k, m>>, val |-> 1]
    BY <1>1 DEF Commit, Answer, Request
<1>4. committed \in Table
    BY DEF Inv, TypeOK
<1>5. \A j \in Key, n \in Member :
          committed'[<<j, n>>] = IF j = k /\ n = m THEN Outcome(w) ELSE committed[<<j, n>>]
    BY <1>1, <1>4, CommitPublishes DEF Table, Row
<1>6. committed[<<k, m>>] # Outcome(w) /\ committed[<<k, m>>] \in {There, NoRow}
    BY <1>1, <1>4, CommitPublishes DEF Table, Row
<1> DEFINE before == [j \in Key |-> Members(j)]
           after == [j \in Key |-> {n \in Member : committed'[<<j, n>>] # NoRow}]
<1>7. CASE call[w].op = "sadd"
    <2>1. m \notin Members(k) /\ after = [before EXCEPT ![k] = @ \cup {m}]
        BY <1>5, <1>6, <1>7, NoRowAssumption DEF Members, Outcome
    <2>2. Abstract!SAdd(w, k, m)
        BY <1>3, <1>7, <2>1 DEF Members, Abstract!SAdd, Abstract!Answer
    <2> QED BY <2>2 DEF Abstract!Next
<1>8. CASE call[w].op = "srem"
    <2>1. m \in Members(k) /\ after = [before EXCEPT ![k] = @ \ {m}]
        BY <1>5, <1>6, <1>8, NoRowAssumption DEF Members, Outcome
    <2>2. Abstract!SRem(w, k, m)
        BY <1>3, <1>8, <2>1 DEF Members, Abstract!SRem, Abstract!Answer
    <2> QED BY <2>2 DEF Abstract!Next
<1> QED BY <1>2, <1>7, <1>8

LEMMA RollbackRefines ==
    ASSUME Inv, NEW w \in Worker, Rollback(w)
    PROVE  Abstract!Next
<1>1. call[w].op \in {"sadd", "srem"} /\ call[w].row \in Row
    BY BusyWorker DEF Inv, Rollback
<1>2. PICK k \in Key, m \in Member : call[w].row = <<k, m>>
    BY <1>1 DEF Row
<1>3. /\ UNCHANGED committed
      /\ reply' = [to |-> w, request |-> <<call[w].op, k, m>>, val |-> 0]
    BY <1>2 DEF Rollback, RollbackTrx, Answer, Request
<1>4. Abstract!NoEffect(w, k, m)
    BY <1>1, <1>3 DEF Abstract!NoEffect, Abstract!Answer
<1> QED BY <1>4 DEF Abstract!Next

\* Writes and timeouts are invisible to a client, and a restart is one.
LEMMA WriteRefines ==
    ASSUME NEW w \in Worker, Write(w) \/ LockTimeout(w)
    PROVE  UNCHANGED Abstract!vars
BY DEF Write, LockTimeout, WriteRow, engine, Abstract!vars

LEMMA RestartRefines == Restart => Abstract!Next
BY DEF Restart, RecoverTrx, Abstract!Next, Abstract!Restart

LEMMA NextRefines == Inv /\ [Next]_vars => [Abstract!Next]_(Abstract!vars)
<1> SUFFICES ASSUME Inv, [Next]_vars PROVE [Abstract!Next]_(Abstract!vars)
    OBVIOUS
<1>1. CASE UNCHANGED vars
    BY <1>1 DEF vars, Abstract!vars
<1>2. ASSUME NEW w \in Worker, Take(w) \/ Step(w) PROVE [Abstract!Next]_(Abstract!vars)
    BY <1>2, TakeRefines, WriteRefines, CommitRefines, RollbackRefines DEF Step
<1> QED BY <1>1, <1>2, RestartRefines DEF Next

\* The `sets' table implements AtomicSet.
THEOREM TableImplementsAtomicSet == Spec => ImplementsAtomicSet
<1>1. Init => Abstract!Init
    BY DEF Init, EngineInit, Row, Abstract!Init
<1>2. Spec => []Inv
    BY InitInv, NextInv, PTL DEF Spec
<1> QED BY <1>1, <1>2, NextRefines, PTL DEF Spec, ImplementsAtomicSet, Abstract!Spec
=============================================================================
