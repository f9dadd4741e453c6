---------------------------- MODULE KVTable_proofs ----------------------------
(***************************************************************************)
(* What holds of the `main' table for every set of workers, keys and       *)
(* values: its type, the lock discipline of its commands, that nothing is  *)
(* left behind by a command, and that it implements AtomicKV.              *)
(***************************************************************************)
EXTENDS KVTable, TLAPS

-----------------------------------------------------------------------------
\* A wrapped sum or negation is an int of the machine.
LEMMA WrapInRange == \A n \in Int : Wrap(n) \in IntRange
<1> SUFFICES ASSUME NEW n \in Int PROVE Wrap(n) \in IntRange
    OBVIOUS
<1> DEFINE m == 2 * (IntMax + 1)
           x == n + IntMax + 1
<1>1. m \in Nat \ {0} /\ x \in Int
    BY IntMaxAssumption
<1>2. x % m \in 0 .. m - 1
    <2> HIDE DEF m, x
    <2> QED BY <1>1
<1> QED BY <1>2, IntMaxAssumption DEF Wrap, IntRange

\* What INCR stores and replies is a value, and a number.
LEMMA IncrOutInRange ==
    \A v \in Value \cup {NoRow}, by \in IntRange : IncrOut(v, by) \in IntRange
<1> SUFFICES ASSUME NEW v \in Value \cup {NoRow}, NEW by \in IntRange
             PROVE  IncrOut(v, by) \in IntRange
    OBVIOUS
<1>1. CASE v = NoRow
    BY <1>1, IntMaxAssumption DEF IncrOut, IntRange
<1>2. CASE v # NoRow
    <2>1. Num(v) + by \in Int
        BY <1>2, IntMaxAssumption, TextNumAssumption DEF Num, Value, IntRange
    <2> QED BY <1>2, <2>1, WrapInRange DEF IncrOut
<1> QED BY <1>1, <1>2

-----------------------------------------------------------------------------
Inv == TypeOK /\ LockDiscipline

\* What a busy worker knows of its command, and what it is to write.
LEMMA BusyWorker ==
    ASSUME Inv, NEW w \in Worker, pc[w] # "idle"
    PROVE  /\ call[w] \in Calls /\ call[w].key \in Key
           /\ call[w].op \in {"set", "del", "incr"}
           /\ view[w] \in Table
           /\ RowRead(w) \in Value \cup {NoRow}
           /\ NewRow(w) \in Value \cup {NoRow}
           /\ call[w].op = "set" => NewRow(w) = call[w].arg /\ NewRow(w) # RowRead(w)
           /\ call[w].op = "set" => NewRow(w) \in SetValue
           /\ call[w].op = "del" => NewRow(w) = NoRow /\ NewRow(w) # RowRead(w)
           /\ call[w].op = "incr" => /\ call[w].arg \in IntRange
                                     /\ NewRow(w) = IncrOut(RowRead(w), call[w].arg)
                                     /\ NewRow(w) \in IntRange
<1>1. OneTrxPerCall(w)
    BY DEF Inv, LockDiscipline
<1>2. call[w] \in Calls /\ view[w] \in Table
    BY <1>1 DEF OneTrxPerCall
<1>3. call[w].key \in Key /\ call[w].op \in {"set", "del", "incr"}
    BY <1>2 DEF Calls
<1>4. RowRead(w) \in Value \cup {NoRow}
    BY <1>2, <1>3 DEF RowRead, Table
<1>5. CASE call[w].op = "set"
    <2>1. call[w].arg \in SetValue
        BY <1>2, <1>5 DEF Calls
    <2> QED BY <1>1, <1>2, <1>3, <1>4, <1>5, <2>1, SetValueAssumption
            DEF NewRow, OneTrxPerCall
<1>6. CASE call[w].op = "del"
    BY <1>1, <1>2, <1>3, <1>4, <1>6 DEF NewRow, OneTrxPerCall
<1>7. CASE call[w].op = "incr"
    <2>1. call[w].arg \in IntRange
        BY <1>2, <1>7 DEF Calls
    <2>2. NewRow(w) = IncrOut(RowRead(w), call[w].arg)
        BY <1>7 DEF NewRow
    <2> QED BY <1>2, <1>3, <1>4, <1>7, <2>1, <2>2, IncrOutInRange DEF Value
<1> QED BY <1>3, <1>5, <1>6, <1>7

-----------------------------------------------------------------------------
LEMMA InitInv == Init => Inv
<1> SUFFICES ASSUME Init PROVE Inv
    OBVIOUS
<1> USE DEF Init, EngineInit
<1>1. TypeOK
    BY DEF TypeOK, Table, Replies, NoReply
<1>2. LockDiscipline
    BY FreeAssumption DEF LockDiscipline, OneTrxPerCall, CommitOwnsItsRow, OwnerWrote
<1> QED BY <1>1, <1>2 DEF Inv

\* A reply without a write disturbs nothing but the reply.
LEMMA ReadOnlyInv ==
    ASSUME Inv, NEW w \in Worker, NEW c, NEW kind, NEW v,
           ReadOnly(w, c, kind, v),
           [to |-> w, call |-> c, kind |-> kind, val |-> v] \in Replies
    PROVE  Inv'
<1> USE DEF ReadOnly, Answer, engine
<1>1. TypeOK'
    BY DEF Inv, TypeOK
<1>2. LockDiscipline'
    BY DEF Inv, LockDiscipline, OneTrxPerCall, CommitOwnsItsRow, OwnerWrote,
           NewRow, RowRead, Calls
<1> QED BY <1>1, <1>2 DEF Inv

\* What a worker knows and owns does not depend on the steps of the others.
LEMMA OthersKeepTheirRows ==
    ASSUME Inv, NEW u \in Worker,
           UNCHANGED <<pc[u], call[u], view[u]>>,
           \A k \in Key : lock'[k] = u <=> lock[k] = u,
           \A k \in Key : lock[k] = u => /\ current'[k] = current[k]
                                         /\ committed'[k] = committed[k]
    PROVE  OneTrxPerCall(u)' /\ CommitOwnsItsRow(u)' /\ \A k \in Key : OwnerWrote(u, k)'
<1>1. RowRead(u)' = RowRead(u) /\ NewRow(u)' = NewRow(u)
    BY DEF RowRead, NewRow
<1>2. OneTrxPerCall(u) /\ CommitOwnsItsRow(u) /\ \A k \in Key : OwnerWrote(u, k)
    BY DEF Inv, LockDiscipline
<1>3. OneTrxPerCall(u)'
    BY <1>1, <1>2 DEF OneTrxPerCall
<1>4. CommitOwnsItsRow(u)'
    BY <1>1, <1>2, BusyWorker DEF CommitOwnsItsRow
<1>5. \A k \in Key : OwnerWrote(u, k)'
    BY <1>1, <1>2 DEF OwnerWrote
<1> QED BY <1>3, <1>4, <1>5

LEMMA GetCursorInv ==
    ASSUME Inv, NEW w \in Worker, NEW c \in Calls, pc[w] = "idle", GetCursor(w, c),
           c.op = "set" => committed[c.key] # c.arg,
           c.op = "del" => committed[c.key] # NoRow
    PROVE  Inv'
<1> USE DEF GetCursor, BeginTrx
<1>1. TypeOK'
    BY DEF Inv, TypeOK
<1>2. \A k \in Key : lock[k] # w
    BY DEF Inv, LockDiscipline, OwnerWrote
<1>3. /\ pc'[w] = "write" /\ call'[w] = c /\ view'[w] = committed
      /\ \A u \in Worker \ {w} : UNCHANGED <<pc[u], call[u], view[u]>>
    BY DEF Inv, TypeOK
<1>4. OneTrxPerCall(w)' /\ CommitOwnsItsRow(w)' /\ \A k \in Key : OwnerWrote(w, k)'
    BY <1>2, <1>3 DEF Inv, TypeOK, OneTrxPerCall, CommitOwnsItsRow, OwnerWrote, RowRead
<1>5. \A u \in Worker \ {w} : /\ OneTrxPerCall(u)' /\ CommitOwnsItsRow(u)'
                              /\ \A k \in Key : OwnerWrote(u, k)'
    BY <1>3, OthersKeepTheirRows
<1>6. \A k \in Key : lock'[k] = Free => current'[k] = committed'[k]
    BY DEF Inv, LockDiscipline
<1> QED BY <1>1, <1>4, <1>5, <1>6 DEF Inv, LockDiscipline

-----------------------------------------------------------------------------
\* A worker that goes on without a write: to "commit" when there is nothing
\* to write, to "rollback" when the engine refuses.
LEMMA NoWriteInv ==
    ASSUME Inv, NEW w \in Worker, pc[w] = "write",
           NEW l \in {"commit", "rollback"}, pc' = [pc EXCEPT ![w] = l],
           UNCHANGED <<engine, call, reply>>,
           l = "commit" => NewRow(w) = RowRead(w)
    PROVE  Inv'
<1>1. UNCHANGED <<committed, current, lock, view, call, reply>>
    BY DEF engine
<1>2. \A k \in Key : lock[k] # w
    BY DEF Inv, LockDiscipline, OwnerWrote
<1>3. TypeOK'
    BY <1>1 DEF Inv, TypeOK
<1>4. pc'[w] = l /\ \A u \in Worker \ {w} : pc'[u] = pc[u]
    BY DEF Inv, TypeOK
<1>5. RowRead(w)' = RowRead(w) /\ NewRow(w)' = NewRow(w)
    BY <1>1 DEF RowRead, NewRow
<1>6. OneTrxPerCall(w)
    BY DEF Inv, LockDiscipline
<1>7. OneTrxPerCall(w)' /\ CommitOwnsItsRow(w)' /\ \A k \in Key : OwnerWrote(w, k)'
    BY <1>1, <1>2, <1>4, <1>5, <1>6 DEF OneTrxPerCall, CommitOwnsItsRow, OwnerWrote
<1>8. \A u \in Worker \ {w} : /\ OneTrxPerCall(u)' /\ CommitOwnsItsRow(u)'
                              /\ \A k \in Key : OwnerWrote(u, k)'
    BY <1>1, <1>4, OthersKeepTheirRows
<1>9. \A k \in Key : lock'[k] = Free => current'[k] = committed'[k]
    BY <1>1 DEF Inv, LockDiscipline
<1> QED BY <1>3, <1>7, <1>8, <1>9 DEF Inv, LockDiscipline

\* A write that succeeds.
LEMMA WriteRowInv ==
    ASSUME Inv, NEW w \in Worker, pc[w] = "write",
           NewRow(w) # RowRead(w), CanLock(w, call[w].key),
           (current[call[w].key] = NoRow) <=> (RowRead(w) = NoRow),
           pc' = [pc EXCEPT ![w] = "commit"],
           WriteRow(w, call[w].key, NewRow(w)), UNCHANGED <<call, reply>>
    PROVE  Inv'
<1> DEFINE k == call[w].key
<1>1. /\ k \in Key /\ NewRow(w) \in Value \cup {NoRow} /\ OneTrxPerCall(w)
    BY BusyWorker DEF Inv, LockDiscipline
<1>2. \A j \in Key : lock[j] # w
    BY DEF Inv, LockDiscipline, OwnerWrote
<1>3. lock[k] = Free /\ current[k] = committed[k]
    BY <1>1, <1>2 DEF CanLock, Inv, LockDiscipline
<1>4. /\ lock' = [lock EXCEPT ![k] = w] /\ current' = [current EXCEPT ![k] = NewRow(w)]
      /\ UNCHANGED <<committed, view>>
    BY DEF WriteRow
<1>5. pc'[w] = "commit" /\ \A u \in Worker \ {w} : pc'[u] = pc[u]
    BY DEF Inv, TypeOK
<1>6. TypeOK'
    BY <1>1, <1>4 DEF Inv, TypeOK, Table
<1>7. /\ lock'[k] = w /\ current'[k] = NewRow(w)
      /\ \A j \in Key \ {k} : lock'[j] = lock[j] /\ current'[j] = current[j]
    BY <1>1, <1>4 DEF Inv, TypeOK, Table
<1>8. RowRead(w)' = RowRead(w) /\ NewRow(w)' = NewRow(w)
    BY <1>4 DEF RowRead, NewRow
<1>9. OneTrxPerCall(w)' /\ CommitOwnsItsRow(w)'
    BY <1>1, <1>4, <1>5, <1>7, <1>8 DEF OneTrxPerCall, CommitOwnsItsRow
<1>10. \A j \in Key : OwnerWrote(w, j)'
    BY <1>2, <1>3, <1>4, <1>5, <1>7, <1>8 DEF OwnerWrote
<1>11. \A u \in Worker \ {w} : /\ OneTrxPerCall(u)' /\ CommitOwnsItsRow(u)'
                               /\ \A j \in Key : OwnerWrote(u, j)'
    <2> SUFFICES ASSUME NEW u \in Worker \ {w}
                 PROVE  /\ OneTrxPerCall(u)' /\ CommitOwnsItsRow(u)'
                        /\ \A j \in Key : OwnerWrote(u, j)'
        OBVIOUS
    <2>1. \A j \in Key : lock[j] = u => j # k
        BY <1>3, FreeAssumption
    <2>2. \A j \in Key : lock'[j] = u <=> lock[j] = u
        BY <1>3, <1>7, <2>1
    <2>3. \A j \in Key : lock[j] = u => /\ current'[j] = current[j]
                                        /\ committed'[j] = committed[j]
        BY <1>4, <1>7, <2>1
    <2>4. UNCHANGED <<pc[u], call[u], view[u]>>
        BY <1>4, <1>5
    <2> QED BY <2>2, <2>3, <2>4, OthersKeepTheirRows
<1>12. \A j \in Key : lock'[j] = Free => current'[j] = committed'[j]
    BY <1>4, <1>7, FreeAssumption DEF Inv, LockDiscipline
<1> QED BY <1>6, <1>9, <1>10, <1>11, <1>12 DEF Inv, LockDiscipline

LEMMA WriteInv ==
    ASSUME Inv, NEW w \in Worker, Write(w)
    PROVE  Inv'
<1>1. CASE NewRow(w) = RowRead(w)
    BY <1>1, NoWriteInv DEF Write
<1>2. CASE NewRow(w) # RowRead(w)
    BY <1>2, NoWriteInv, WriteRowInv DEF Write
<1> QED BY <1>1, <1>2

\* A wait that times out changes nothing but where the worker is.
LEMMA LockTimeoutInv ==
    ASSUME Inv, NEW w \in Worker, LockTimeout(w)
    PROVE  Inv'
BY NoWriteInv DEF LockTimeout

-----------------------------------------------------------------------------
\* The end of a transaction, committed or rolled back: the rows of the
\* worker become what `current' or `committed' says, and are free.
LEMMA EndOfTrxInv ==
    ASSUME Inv, NEW w \in Worker, CommitTrx(w) \/ RollbackTrx(w), Return(w),
           reply' \in Replies
    PROVE  Inv'
<1>1. /\ lock' = [r \in Key |-> IF lock[r] = w THEN Free ELSE lock[r]]
      /\ view' = [view EXCEPT ![w] = NoTrx]
    BY DEF CommitTrx, RollbackTrx
<1>2. /\ \A k \in Key : lock[k] # w => /\ committed'[k] = committed[k]
                                       /\ current'[k] = current[k]
      /\ \A k \in Key : lock[k] = w => committed'[k] = current'[k]
      /\ committed' \in Table /\ current' \in Table
    BY DEF CommitTrx, RollbackTrx, Inv, TypeOK, Table
<1>3. /\ pc'[w] = "idle" /\ call'[w] = NoCall /\ view'[w] = NoTrx
      /\ \A u \in Worker \ {w} : UNCHANGED <<pc[u], call[u], view[u]>>
    BY <1>1 DEF Return, Inv, TypeOK
<1>4. TypeOK'
    BY <1>1, <1>2 DEF Return, Inv, TypeOK
<1>5. \A k \in Key : lock'[k] = IF lock[k] = w THEN Free ELSE lock[k]
    BY <1>1
<1>6. OneTrxPerCall(w)' /\ CommitOwnsItsRow(w)' /\ \A k \in Key : OwnerWrote(w, k)'
    BY <1>3, <1>5, FreeAssumption DEF OneTrxPerCall, CommitOwnsItsRow, OwnerWrote
<1>7. \A u \in Worker \ {w} : /\ OneTrxPerCall(u)' /\ CommitOwnsItsRow(u)'
                              /\ \A k \in Key : OwnerWrote(u, k)'
    BY <1>2, <1>3, <1>5, FreeAssumption, OthersKeepTheirRows
<1>8. \A k \in Key : lock'[k] = Free => current'[k] = committed'[k]
    BY <1>2, <1>5 DEF Inv, LockDiscipline
<1> QED BY <1>4, <1>6, <1>7, <1>8 DEF Inv, LockDiscipline

LEMMA CommitInv ==
    ASSUME Inv, NEW w \in Worker, Commit(w)
    PROVE  Inv'
<1>1. CommitTrx(w) /\ Return(w) /\ pc[w] # "idle"
    BY DEF Commit
<1>2. NewRow(w) \in Value \cup {NoRow} /\ call[w].op \in {"set", "del", "incr"}
    BY <1>1, BusyWorker
<1>3. 1 \in Value
    BY IntMaxAssumption DEF Value, IntRange
<1>4. \E kind \in {"ok", "int"}, v \in Value \cup {NoRow} : Answer(w, call[w], kind, v)
    BY <1>2, <1>3 DEF Commit
<1>5. reply' \in Replies
    BY <1>1, <1>4, BusyWorker DEF Answer, Replies
<1> QED BY <1>1, <1>5, EndOfTrxInv

LEMMA RollbackInv ==
    ASSUME Inv, NEW w \in Worker, Rollback(w)
    PROVE  Inv'
<1>1. RollbackTrx(w) /\ Return(w) /\ pc[w] # "idle"
    BY DEF Rollback
<1>2. reply' \in Replies
    BY <1>1, BusyWorker, IntMaxAssumption
       DEF Rollback, Answer, Replies, Value, IntRange
<1> QED BY <1>1, <1>2, EndOfTrxInv

-----------------------------------------------------------------------------
LEMMA TakeInv ==
    ASSUME Inv, NEW w \in Worker, Take(w)
    PROVE  Inv'
<1>1. PICK k \in Key : \/ Get(w, k)
                       \/ Del(w, k)
                       \/ \E v \in SetValue : Set(w, k, v)
                       \/ \E by \in Delta : Incr(w, k, by) \/ Decr(w, k, by)
    BY DEF Take
<1>2. committed[k] \in Value \cup {NoRow}
    BY DEF Inv, TypeOK, Table
<1>3. CASE Get(w, k)
    <2>1. \A kind \in {"nil", "str"} :
              [to |-> w, call |-> GetCall(k), kind |-> kind, val |-> committed[k]] \in Replies
        BY <1>2 DEF Replies
    <2> QED BY <1>3, <2>1, ReadOnlyInv DEF Get
<1>4. CASE Del(w, k)
    <2>1. DelCall(k) \in Calls
        BY DEF Calls, DelCall
    <2>2. [to |-> w, call |-> DelCall(k), kind |-> "int", val |-> 0] \in Replies
        BY <2>1, IntMaxAssumption DEF Replies, Value, IntRange
    <2>3. DelCall(k).op = "del" /\ DelCall(k).key = k
        BY DEF DelCall
    <2> QED BY <1>4, <2>1, <2>2, <2>3, ReadOnlyInv, GetCursorInv DEF Del
<1>5. ASSUME NEW v \in SetValue, Set(w, k, v) PROVE Inv'
    <2>1. SetCall(k, v) \in Calls
        BY DEF Calls, SetCall
    <2>2. [to |-> w, call |-> SetCall(k, v), kind |-> "ok", val |-> NoRow] \in Replies
        BY <2>1 DEF Replies
    <2>3. SetCall(k, v).op = "set" /\ SetCall(k, v).key = k /\ SetCall(k, v).arg = v
        BY DEF SetCall
    <2> QED BY <1>5, <2>1, <2>2, <2>3, ReadOnlyInv, GetCursorInv DEF Set
<1>6. ASSUME NEW by \in IntRange, Incr(w, k, by) PROVE Inv'
    <2>1. IncrCall(k, by) \in Calls
        BY DEF Calls, IncrCall
    <2>2. IncrCall(k, by).op = "incr"
        BY DEF IncrCall
    <2> QED BY <1>6, <2>1, <2>2, GetCursorInv DEF Incr
<1>7. \A by \in Delta : by \in IntRange /\ Wrap(-by) \in IntRange
    BY DeltaAssumption, WrapInRange DEF IntRange
<1> QED BY <1>1, <1>3, <1>4, <1>5, <1>6, <1>7 DEF Decr

\* A restart leaves what is committed, and nobody in the middle of anything.
LEMMA RestartInv ==
    ASSUME Inv, Restart
    PROVE  Inv'
<1> USE DEF Restart, RecoverTrx
<1>1. TypeOK'
    BY DEF Inv, TypeOK, Replies, NoReply
<1>2. LockDiscipline'
    BY FreeAssumption DEF LockDiscipline, OneTrxPerCall, CommitOwnsItsRow, OwnerWrote
<1> QED BY <1>1, <1>2 DEF Inv

LEMMA NextInv == Inv /\ [Next]_vars => Inv'
<1> SUFFICES ASSUME Inv, [Next]_vars PROVE Inv'
    OBVIOUS
<1>1. CASE UNCHANGED vars
    <2> USE <1>1 DEF vars
    <2>1. TypeOK'
        BY DEF Inv, TypeOK
    <2>2. \A w \in Worker : /\ OneTrxPerCall(w)' /\ CommitOwnsItsRow(w)'
                           /\ \A k \in Key : OwnerWrote(w, k)'
        BY OthersKeepTheirRows
    <2>3. \A k \in Key : lock'[k] = Free => current'[k] = committed'[k]
        BY DEF Inv, LockDiscipline
    <2> QED BY <2>1, <2>2, <2>3 DEF Inv, LockDiscipline
<1>2. ASSUME NEW w \in Worker, Take(w) \/ Step(w) PROVE Inv'
    BY <1>2, TakeInv, WriteInv, LockTimeoutInv, CommitInv, RollbackInv DEF Step
<1> QED BY <1>1, <1>2, RestartInv DEF Next

\* In every execution the variables have their types.
THEOREM TypeCorrect == Spec => []TypeOK
<1>1. Spec => []Inv
    BY InitInv, NextInv, PTL DEF Spec
<1>2. Inv => TypeOK
    BY DEF Inv
<1> QED BY <1>1, <1>2, PTL

\* Every command follows the lock discipline.
THEOREM LockDisciplineHolds == Spec => []LockDiscipline
<1>1. Spec => []Inv
    BY InitInv, NextInv, PTL DEF Spec
<1>2. Inv => LockDiscipline
    BY DEF Inv
<1> QED BY <1>1, <1>2, PTL

\* No command leaves a transaction, a lock or a half-written row behind.
THEOREM NothingIsLeftBehind == Spec => []NothingLeftBehind
<1>1. Spec => []Inv
    BY InitInv, NextInv, PTL DEF Spec
<1>2. Inv => NothingLeftBehind
    BY DEF Inv, LockDiscipline, OneTrxPerCall, OwnerWrote, NothingLeftBehind
<1> QED BY <1>1, <1>2, PTL

-----------------------------------------------------------------------------
\* The pending increment of a worker, and who may change it.
LEMMA PendingOfWorker ==
    ASSUME NEW w \in Worker
    PROVE  PendingIncr[w] = IF pc[w] # "idle" /\ call[w].op = "incr"
                            THEN [key |-> call[w].key, by |-> call[w].arg,
                                  seen |-> RowRead(w)]
                            ELSE NoCall
BY DEF PendingIncr

LEMMA PendingUnchanged ==
    ASSUME \A u \in Worker : UNCHANGED <<call[u], view[u]>>,
           \A u \in Worker : pc'[u] = "idle" <=> pc[u] = "idle"
    PROVE  UNCHANGED PendingIncr
BY DEF PendingIncr, RowRead

LEMMA PendingEnds ==
    ASSUME NEW w \in Worker, pc'[w] = "idle",
           \A u \in Worker \ {w} : UNCHANGED <<pc[u], call[u], view[u]>>
    PROVE  PendingIncr' = [PendingIncr EXCEPT ![w] = NoCall]
BY DEF PendingIncr, RowRead

LEMMA PendingBegins ==
    ASSUME NEW w \in Worker, pc'[w] # "idle",
           \A u \in Worker \ {w} : UNCHANGED <<pc[u], call[u], view[u]>>
    PROVE  PendingIncr' = [PendingIncr EXCEPT ![w] =
               IF call'[w].op = "incr"
               THEN [key |-> call'[w].key, by |-> call'[w].arg,
                     seen |-> view'[w][call'[w].key]]
               ELSE NoCall]
BY DEF PendingIncr, RowRead

\* A worker between two commands, or with a SET or DEL, has no increment.
LEMMA NoPending ==
    ASSUME NEW w \in Worker, pc[w] = "idle" \/ call[w].op # "incr"
    PROVE  PendingIncr[w] = NoCall /\ PendingIncr = [PendingIncr EXCEPT ![w] = NoCall]
BY DEF PendingIncr

-----------------------------------------------------------------------------
\* A command that only reads maps to one step of AtomicKV that replies.
LEMMA ReadOnlyKeepsPending ==
    ASSUME NEW w \in Worker, pc[w] = "idle", NEW c, NEW kind, NEW v,
           ReadOnly(w, c, kind, v)
    PROVE  /\ PendingIncr[w] = NoCall
           /\ UNCHANGED <<committed, PendingIncr>>
           /\ reply' = [to |-> w, call |-> c, kind |-> kind, val |-> v]
<1>1. UNCHANGED <<committed, view, pc, call>>
    BY DEF ReadOnly, engine
<1>2. UNCHANGED PendingIncr
    BY <1>1, PendingUnchanged
<1> QED BY <1>1, <1>2, NoPending DEF ReadOnly, Answer

LEMMA TakeRefines ==
    ASSUME Inv, NEW w \in Worker, Take(w)
    PROVE  [Abstract!Next]_(Abstract!vars)
<1>1. PICK k \in Key : \/ Get(w, k)
                       \/ Del(w, k)
                       \/ \E v \in SetValue : Set(w, k, v)
                       \/ \E by \in Delta : Incr(w, k, by) \/ Decr(w, k, by)
    BY DEF Take
<1>2. ASSUME NEW c \in Calls, c.op # "incr", pc[w] = "idle", GetCursor(w, c)
      PROVE  UNCHANGED Abstract!vars
    <2>1. /\ pc'[w] # "idle" /\ call'[w] = c /\ UNCHANGED <<committed, reply>>
          /\ \A u \in Worker \ {w} : UNCHANGED <<pc[u], call[u], view[u]>>
        BY <1>2 DEF GetCursor, BeginTrx, Inv, TypeOK
    <2>2. UNCHANGED PendingIncr
        BY <1>2, <2>1, PendingBegins, NoPending
    <2> QED BY <2>1, <2>2 DEF Abstract!vars
<1>3. CASE Get(w, k)
    <2>1. /\ pc[w] = "idle"
          /\ ReadOnly(w, GetCall(k), IF committed[k] = NoRow THEN "nil" ELSE "str",
                      committed[k])
        BY <1>3 DEF Get
    <2>2. PendingIncr[w] = NoCall /\ Abstract!Get(w, k)
        BY <2>1, ReadOnlyKeepsPending DEF Abstract!Get, Abstract!Answer, GetCall
    <2> QED BY <2>2 DEF Abstract!Next
<1>4. CASE Del(w, k)
    <2>1. CASE ReadOnly(w, DelCall(k), "int", 0)
        <3>1. PendingIncr[w] = NoCall /\ Abstract!FailDel(w, k)
            BY <1>4, <2>1, ReadOnlyKeepsPending
               DEF Del, Abstract!FailDel, Abstract!Answer, DelCall
        <3> QED BY <3>1 DEF Abstract!Next
    <2>2. CASE GetCursor(w, DelCall(k))
        BY <1>2, <1>4, <2>2 DEF Calls, Del, DelCall
    <2> QED BY <1>4, <2>1, <2>2 DEF Del
<1>5. ASSUME NEW v \in SetValue, Set(w, k, v) PROVE [Abstract!Next]_(Abstract!vars)
    <2>1. CASE committed[k] = v /\ ReadOnly(w, SetCall(k, v), "ok", NoRow)
        <3>1. committed = [committed EXCEPT ![k] = v]
            BY <2>1 DEF Inv, TypeOK, Table
        <3>2. PendingIncr[w] = NoCall /\ Abstract!Set(w, k, v)
            BY <1>5, <2>1, <3>1, ReadOnlyKeepsPending
               DEF Set, Abstract!Set, Abstract!Answer, SetCall
        <3> QED BY <3>2, SetValueAssumption DEF Abstract!Next, Abstract!Value, Value, Abstract!IntRange, IntRange
    <2>2. CASE GetCursor(w, SetCall(k, v))
        BY <1>2, <1>5, <2>2 DEF Calls, Set, SetCall
    <2> QED BY <1>5, <2>1, <2>2 DEF Set
<1>6. ASSUME NEW by \in IntRange, Incr(w, k, by) PROVE [Abstract!Next]_(Abstract!vars)
    <2> DEFINE c == [op |-> "incr", key |-> k, arg |-> by]
    <2>1. /\ pc[w] = "idle" /\ pc'[w] # "idle" /\ call'[w] = c /\ view'[w] = committed
          /\ UNCHANGED <<committed, reply>>
          /\ \A u \in Worker \ {w} : UNCHANGED <<pc[u], call[u], view[u]>>
        BY <1>6 DEF Incr, IncrCall, GetCursor, BeginTrx, Inv, TypeOK
    <2>2. PendingIncr[w] = NoCall
        BY <2>1, NoPending
    <2>3. PendingIncr' = [PendingIncr EXCEPT ![w] =
                             [key |-> k, by |-> by, seen |-> committed[k]]]
        BY <2>1, PendingBegins
    <2>4. Abstract!ReadIncr(w, k, by)
        BY <2>1, <2>3 DEF Abstract!ReadIncr
    <2> QED BY <2>2, <2>4 DEF Abstract!Next, Abstract!IntRange, IntRange
<1>7. \A by \in Delta : by \in IntRange /\ Wrap(-by) \in IntRange
    BY DeltaAssumption, WrapInRange DEF IntRange
<1> QED BY <1>1, <1>3, <1>4, <1>5, <1>6, <1>7 DEF Decr

-----------------------------------------------------------------------------
\* The commit of a worker publishes the row of its command and no other.
LEMMA CommitPublishes ==
    ASSUME Inv, NEW w \in Worker, Commit(w)
    PROVE  committed' = IF NewRow(w) = RowRead(w) THEN committed
                        ELSE [committed EXCEPT ![call[w].key] = NewRow(w)]
<1>1. CommitTrx(w) /\ pc[w] = "commit"
    BY DEF Commit
<1>2. committed' = [r \in Key |-> IF lock[r] = w THEN current[r] ELSE committed[r]]
    BY <1>1 DEF CommitTrx
<1>3. \A k \in Key : lock[k] = w => /\ k = call[w].key /\ current[k] = NewRow(w)
                                    /\ NewRow(w) # RowRead(w)
    BY DEF Inv, LockDiscipline, OwnerWrote
<1>4. lock[call[w].key] = w \/ NewRow(w) = RowRead(w)
    BY <1>1 DEF Inv, LockDiscipline, CommitOwnsItsRow
<1>5. committed \in Table
    BY DEF Inv, TypeOK
<1> QED BY <1>2, <1>3, <1>4, <1>5 DEF Table

\* What the end of a transaction does to the pending increments.
LEMMA ReturnEndsPending ==
    ASSUME Inv, NEW w \in Worker, Return(w), CommitTrx(w) \/ RollbackTrx(w)
    PROVE  PendingIncr' = [PendingIncr EXCEPT ![w] = NoCall]
<1>1. /\ pc'[w] = "idle"
      /\ \A u \in Worker \ {w} : UNCHANGED <<pc[u], call[u], view[u]>>
    BY DEF Return, CommitTrx, RollbackTrx, Inv, TypeOK
<1> QED BY <1>1, PendingEnds

\* A command is the record of its operation, key and argument.
LEMMA CallIsItsFields ==
    ASSUME NEW c \in Calls
    PROVE  c = [op |-> c.op, key |-> c.key, arg |-> c.arg]
BY DEF Calls

LEMMA CommitRefines ==
    ASSUME Inv, NEW w \in Worker, Commit(w)
    PROVE  Abstract!Next
<1> DEFINE k == call[w].key
<1>1. /\ pc[w] = "commit" /\ CommitTrx(w) /\ Return(w)
    BY DEF Commit
<1>2. PendingIncr' = [PendingIncr EXCEPT ![w] = NoCall]
    BY <1>1, ReturnEndsPending
<1>3. k \in Key /\ call[w].op \in {"set", "del", "incr"} /\ call[w] \in Calls
    BY <1>1, BusyWorker
<1> DEFINE answers(kind, v) ==
        reply' = [to |-> w, call |-> [op |-> call[w].op, key |-> k, arg |-> call[w].arg],
                  kind |-> kind, val |-> v]
<1>a. \A kind, v : Answer(w, call[w], kind, v) => answers(kind, v)
    BY <1>3, CallIsItsFields DEF Answer
<1>4. CASE call[w].op = "set"
    <2>1. answers("ok", NoRow) /\ call[w].arg = NewRow(w)
        BY <1>4, <1>a DEF Commit, NewRow
    <2>2. committed' = [committed EXCEPT ![k] = NewRow(w)] /\ NewRow(w) \in SetValue
        BY <1>1, <1>4, BusyWorker, CommitPublishes
    <2>3. PendingIncr[w] = NoCall /\ Abstract!Set(w, k, NewRow(w))
        BY <1>2, <1>4, <2>1, <2>2, NoPending DEF Abstract!Set, Abstract!Answer
    <2> QED BY <1>3, <2>2, <2>3, SetValueAssumption
            DEF Abstract!Next, Abstract!Value, Value, Abstract!IntRange, IntRange
<1>5. CASE call[w].op = "del"
    <2>1. answers("int", 1) /\ call[w].arg = 0
        BY <1>3, <1>5, <1>a DEF Commit, Calls
    <2>2. /\ committed' = [committed EXCEPT ![k] = NoRow]
          /\ NewRow(w) # RowRead(w) /\ RowRead(w) # NoRow
        BY <1>1, <1>5, BusyWorker, CommitPublishes
    <2>3. committed[k] # NoRow
        BY <1>1, <1>3, <2>2 DEF Inv, LockDiscipline, CommitOwnsItsRow, OwnerWrote
    <2>4. PendingIncr[w] = NoCall /\ Abstract!Del(w, k)
        BY <1>2, <1>5, <2>1, <2>2, <2>3, NoPending DEF Abstract!Del, Abstract!Answer
    <2> QED BY <1>3, <2>4 DEF Abstract!Next
<1>6. CASE call[w].op = "incr"
    <2>1. answers("int", NewRow(w))
        BY <1>6, <1>a DEF Commit
    <2>2. /\ PendingIncr[w] = [key |-> k, by |-> call[w].arg, seen |-> RowRead(w)]
          /\ PendingIncr[w] # NoCall
        <3>1. PendingIncr[w] = [key |-> k, by |-> call[w].arg, seen |-> RowRead(w)]
            BY <1>1, <1>6, PendingOfWorker
        <3>2. call[w].arg \in IntRange /\ RowRead(w) \in Value \cup {NoRow}
            BY <1>1, <1>6, BusyWorker
        <3> QED BY <1>3, <3>1, <3>2, NoCallAssumption
    <2>3. NewRow(w) = Abstract!IncrResult(RowRead(w), call[w].arg)
        <3>1. NewRow(w) = IncrOut(RowRead(w), call[w].arg)
            BY <1>1, <1>6, BusyWorker
        <3> QED BY <3>1 DEF IncrOut, Abstract!IncrResult, Wrap, Num, Abstract!Wrap, Abstract!Num
    <2>4. NewRow(w) # RowRead(w) =>
              /\ (RowRead(w) = NoRow) <=> (committed[k] = NoRow)
              /\ committed' = [committed EXCEPT ![k] = NewRow(w)]
        BY <1>1, <1>3, CommitPublishes DEF Inv, LockDiscipline, CommitOwnsItsRow, OwnerWrote
    <2>5. NewRow(w) = RowRead(w) => UNCHANGED committed
        BY CommitPublishes
    <2>6. Abstract!PublishIncr(w)
        BY <1>2, <1>6, <2>1, <2>2, <2>3, <2>4, <2>5
           DEF Abstract!PublishIncr, Abstract!Answer
    <2> QED BY <2>2, <2>6 DEF Abstract!Next
<1> QED BY <1>3, <1>4, <1>5, <1>6

LEMMA RollbackRefines ==
    ASSUME Inv, NEW w \in Worker, Rollback(w)
    PROVE  Abstract!Next
<1>1. /\ pc[w] = "rollback" /\ RollbackTrx(w) /\ Return(w) /\ UNCHANGED committed
      /\ IF call[w].op = "del" THEN Answer(w, call[w], "int", 0)
                               ELSE Answer(w, call[w], "err", NoRow)
    BY DEF Rollback, RollbackTrx
<1>a. /\ call[w].key \in Key /\ call[w] \in Calls
      /\ call[w] = [op |-> call[w].op, key |-> call[w].key, arg |-> call[w].arg]
    BY <1>1, BusyWorker, CallIsItsFields
<1>2. PendingIncr' = [PendingIncr EXCEPT ![w] = NoCall]
    BY <1>1, ReturnEndsPending
<1>3. CASE call[w].op = "set"
    <2>1. PendingIncr[w] = NoCall /\ Abstract!FailSet(w, call[w].key, call[w].arg)
        BY <1>1, <1>2, <1>3, <1>a, NoPending DEF Abstract!FailSet, Abstract!Answer, Answer
    <2>2. call[w].arg \in SetValue
        BY <1>3, <1>a DEF Calls
    <2> QED BY <1>a, <2>1, <2>2, SetValueAssumption
            DEF Abstract!Next, Abstract!Value, Value, Abstract!IntRange, IntRange
<1>5. CASE call[w].op = "del"
    <2>1. call[w].arg = 0
        BY <1>5, <1>a DEF Calls
    <2>2. PendingIncr[w] = NoCall /\ Abstract!FailDel(w, call[w].key)
        BY <1>1, <1>2, <1>5, <1>a, <2>1, NoPending
           DEF Abstract!FailDel, Abstract!Answer, Answer
    <2> QED BY <1>a, <2>2 DEF Abstract!Next
<1>4. CASE call[w].op = "incr"
    <2>1. PendingIncr[w] = [key |-> call[w].key, by |-> call[w].arg, seen |-> RowRead(w)]
        BY <1>1, <1>4, PendingOfWorker
    <2>2. /\ call[w].key \in Key /\ call[w].arg \in IntRange
          /\ RowRead(w) \in Value \cup {NoRow}
        BY <1>1, <1>4, BusyWorker
    <2>3. PendingIncr[w] # NoCall
        BY <2>1, <2>2, NoCallAssumption
    <2>4. Abstract!FailIncr(w)
        BY <1>1, <1>2, <1>4, <1>a, <2>1 DEF Abstract!FailIncr, Abstract!Answer, Answer
    <2> QED BY <2>3, <2>4 DEF Abstract!Next
<1> QED BY <1>3, <1>4, <1>5, <1>a DEF Calls

\* Writes and timeouts are invisible to a client.
LEMMA WriteRefines ==
    ASSUME Inv, NEW w \in Worker, Write(w) \/ LockTimeout(w)
    PROVE  UNCHANGED Abstract!vars
<1>1. /\ pc[w] # "idle" /\ UNCHANGED <<committed, view, call, reply>>
      /\ \E l \in {"commit", "rollback"} : pc' = [pc EXCEPT ![w] = l]
    BY DEF Write, LockTimeout, WriteRow, engine
<1>2. \A u \in Worker : pc'[u] = "idle" <=> pc[u] = "idle"
    BY <1>1 DEF Inv, TypeOK
<1> QED BY <1>1, <1>2, PendingUnchanged DEF Abstract!vars

\* A restart is a restart.
LEMMA RestartRefines == Restart => Abstract!Next
BY DEF Restart, RecoverTrx, NoReply, PendingIncr, Abstract!Next, Abstract!Restart

LEMMA NextRefines == Inv /\ [Next]_vars => [Abstract!Next]_(Abstract!vars)
<1> SUFFICES ASSUME Inv, [Next]_vars PROVE [Abstract!Next]_(Abstract!vars)
    OBVIOUS
<1>1. CASE UNCHANGED vars
    BY <1>1, PendingUnchanged DEF vars, Abstract!vars
<1>2. ASSUME NEW w \in Worker, Take(w) \/ Step(w) PROVE [Abstract!Next]_(Abstract!vars)
    BY <1>2, TakeRefines, WriteRefines, CommitRefines, RollbackRefines DEF Step
<1> QED BY <1>1, <1>2, RestartRefines DEF Next

\* The `main' table implements AtomicKV.
THEOREM TableImplementsAtomicKV == Spec => ImplementsAtomicKV
<1>1. Init => Abstract!Init
    BY NoPending DEF Init, EngineInit, NoReply, PendingIncr, Abstract!Init
<1>2. Spec => []Inv
    BY InitInv, NextInv, PTL DEF Spec
<1> QED BY <1>1, <1>2, NextRefines, PTL DEF Spec, ImplementsAtomicKV, Abstract!Spec
=============================================================================
