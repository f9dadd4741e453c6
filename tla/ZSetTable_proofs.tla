--------------------------- MODULE ZSetTable_proofs ---------------------------
(***************************************************************************)
(* What holds of the sorted sets for every set of workers, keys, ids,      *)
(* values and scores, whoever writes which key and whatever ids a restart  *)
(* repeats: a command leaves no lock and no half-written row behind, the   *)
(* score of an element never changes, the rows hold what they should, and  *)
(* commands that wait for each other's rows never wait in a circle.        *)
(***************************************************************************)
EXTENDS ZSetTable, TLAPS

Shape ==
    /\ DOMAIN committed = Row /\ DOMAIN current = Row
    /\ lock \in [Row -> Worker \cup {Free}]
    /\ DOMAIN view = Worker
    /\ pc \in [Worker -> {"idle", "newhead", "data", "head", "commit",
                          "rollback", "fail"}]
    /\ DOMAIN call = Worker

IdleOwnsNothing(w) ==
    pc[w] = "idle" => view[w] = NoTrx /\ \A r \in Row : lock[r] # w

\* The owner of a data row is past its one write there, and has inserted the
\* row or deleted it.
InsertsOrDeletes(w) ==
    \A r \in DataRows : lock[r] = w =>
        /\ pc[w] \in {"head", "commit"}
        /\ committed[r] = NoRow \/ current[r] = NoRow

\* The strengthening that makes the invariant inductive.
Inv ==
    /\ Shape
    /\ \A r \in Row : lock[r] = Free => current[r] = committed[r]
    /\ \A w \in Worker : IdleOwnsNothing(w) /\ InsertsOrDeletes(w)

-----------------------------------------------------------------------------
\* The two tables have no row in common.
LEMMA TablesAreDisjoint ==
    /\ DataRows \subseteq Row
    /\ \A k : HeadRow(k) \notin DataRows
<1>1. \A k, i, v : HeadRow(k) # DataRow(i, v)
    <2> SUFFICES ASSUME NEW k, NEW i, NEW v, HeadRow(k) = DataRow(i, v) PROVE FALSE
        OBVIOUS
    <2>1. HeadRow(k)[1] = "zsets" /\ DataRow(i, v)[1] = "zsets-data"
        BY DEF HeadRow, DataRow
    <2> QED BY <2>1
<1> QED BY <1>1 DEF DataRows, Row

\* What a worker owns does not depend on the steps of the others.
LEMMA OthersKeepTheirRows ==
    ASSUME Inv, NEW u \in Worker, UNCHANGED <<pc[u], view[u]>>,
           \A r \in Row : lock'[r] = u <=> lock[r] = u,
           \A r \in Row : lock[r] = u => /\ current'[r] = current[r]
                                         /\ committed'[r] = committed[r]
    PROVE  IdleOwnsNothing(u)' /\ InsertsOrDeletes(u)'
BY TablesAreDisjoint DEF Inv, IdleOwnsNothing, InsertsOrDeletes

LEMMA InitInv == Init => Inv
BY FreeAssumption, TablesAreDisjoint
   DEF Init, EngineInit, Inv, Shape, IdleOwnsNothing, InsertsOrDeletes

\* The labels a command goes through.
LEMMA OrderOfWrites ==
    /\ \A c : Order(c)[1] \in {"newhead", "data"}
    /\ \A w : Continue(w) =>
           \/ pc[w] = "newhead" /\ Goto(w, "data")
           \/ pc[w] = "data" /\ (Goto(w, "head") \/ Goto(w, "commit"))
           \/ pc[w] = "head" /\ Goto(w, "commit")
<1>1. \A c : \/ Order(c) = <<"newhead", "data", "commit">>
             \/ Order(c) = <<"data", "head", "commit">>
    BY DEF Order
<1>2. \A w : Continue(w) =>
          \/ pc[w] = Order(call[w])[1] /\ Goto(w, Order(call[w])[2])
          \/ pc[w] = Order(call[w])[2] /\ Goto(w, Order(call[w])[3])
    <2> SUFFICES ASSUME NEW w, Continue(w)
                 PROVE  \/ pc[w] = Order(call[w])[1] /\ Goto(w, Order(call[w])[2])
                        \/ pc[w] = Order(call[w])[2] /\ Goto(w, Order(call[w])[3])
        OBVIOUS
    <2>1. PICK n \in 1 .. 2 : Order(call[w])[n] = pc[w] /\ Goto(w, Order(call[w])[n + 1])
        BY DEF Continue
    <2>2. n = 1 \/ n = 2
        OBVIOUS
    <2> QED BY <2>1, <2>2
<1> QED BY <1>1, <1>2

-----------------------------------------------------------------------------
\* A worker that takes a command replies from a snapshot, or starts a
\* transaction.
LEMMA TakeReadsOrBegins ==
    ASSUME NEW w, Take(w)
    PROVE  /\ pc[w] = "idle"
           /\ (\E q, v : ReadOnly(w, q, v)) \/ (\E c : GetCursor(w, c))
<1>1. ASSUME NEW k, NEW v, NEW s, ZAdd(w, k, v, s)
      PROVE  pc[w] = "idle" /\ \E c : GetCursor(w, c)
    BY <1>1 DEF ZAdd
<1>2. ASSUME NEW k, NEW v, ZRem(w, k, v)
      PROVE  pc[w] = "idle" /\ \E c : GetCursor(w, c)
    BY <1>2 DEF ZRem
<1>3. ASSUME NEW q, NEW v, ReadOnly(w, q, v) PROVE pc[w] = "idle"
    BY <1>3 DEF ReadOnly
<1>4. ASSUME NEW k, NEW v, NEW s,
             \/ ZAddKnown(w, k, v, s) \/ ZRemUnknown(w, k, v)
             \/ ZScore(w, k, v) \/ ZCard(w, k) \/ ZCount(w, k, v, s)
      PROVE  \E q, x : ReadOnly(w, q, x)
    BY <1>4, Zenon DEF ZAddKnown, ZRemUnknown, ZScore, ZCard, ZCount
<1> QED BY <1>1, <1>2, <1>3, <1>4 DEF Take

\* A command that takes a snapshot, or replies from it, owns nothing.
LEMMA TakeInv ==
    ASSUME Inv, NEW w \in Worker, Take(w)
    PROVE  Inv'
<1>1. /\ pc[w] = "idle" /\ UNCHANGED <<committed, current, lock>>
      /\ UNCHANGED <<view, pc, call>> \/ \E c : GetCursor(w, c)
    BY TakeReadsOrBegins DEF GetCursor, BeginTrx, ReadOnly, engine
<1>2. CASE UNCHANGED <<view, pc, call>>
    <2>1. \A u \in Worker : IdleOwnsNothing(u)' /\ InsertsOrDeletes(u)'
        BY <1>1, <1>2, OthersKeepTheirRows
    <2> QED BY <1>1, <1>2, <2>1 DEF Inv, Shape
<1>3. ASSUME NEW c, GetCursor(w, c) PROVE Inv'
    <2>1. /\ view' = [view EXCEPT ![w] = committed]
          /\ call' = [call EXCEPT ![w] = c]
          /\ pc' = [pc EXCEPT ![w] = Order(c)[1]]
          /\ Order(c)[1] \in {"newhead", "data"}
        BY <1>3, OrderOfWrites DEF GetCursor, BeginTrx, Goto
    <2>2. Shape'
        BY <1>1, <2>1 DEF Inv, Shape
    <2>3. /\ pc'[w] # "idle"
          /\ \A u \in Worker \ {w} : UNCHANGED <<pc[u], view[u]>>
        BY <2>1 DEF Inv, Shape
    <2>4. \A r \in Row : lock[r] # w
        BY <1>1 DEF Inv, IdleOwnsNothing
    <2>5. IdleOwnsNothing(w)' /\ InsertsOrDeletes(w)'
        BY <1>1, <2>3, <2>4, TablesAreDisjoint DEF IdleOwnsNothing, InsertsOrDeletes
    <2>6. \A u \in Worker \ {w} : IdleOwnsNothing(u)' /\ InsertsOrDeletes(u)'
        BY <1>1, <2>3, OthersKeepTheirRows
    <2> QED BY <1>1, <2>2, <2>5, <2>6 DEF Inv
<1> QED BY <1>1, <1>2, <1>3

\* A statement that fails, or has nothing to do.
LEMMA NoWriteInv ==
    ASSUME Inv, NEW w \in Worker, UNCHANGED <<engine, call>>,
           NEW l \in {"head", "commit", "rollback", "fail"}, Goto(w, l),
           \/ pc[w] = "data"
           \/ pc[w] = "head" /\ l = "commit"
    PROVE  Inv'
<1>1. UNCHANGED <<committed, current, lock, view>>
    BY DEF engine
<1>2. pc'[w] = l /\ \A u \in Worker \ {w} : pc'[u] = pc[u]
    BY DEF Goto, Inv, Shape
<1>3. Shape'
    BY <1>1 DEF Goto, Inv, Shape
<1>4. IdleOwnsNothing(w)' /\ InsertsOrDeletes(w)'
    BY <1>1, <1>2 DEF Inv, IdleOwnsNothing, InsertsOrDeletes
<1>5. \A u \in Worker \ {w} : IdleOwnsNothing(u)' /\ InsertsOrDeletes(u)'
    BY <1>1, <1>2, OthersKeepTheirRows
<1> QED BY <1>1, <1>3, <1>4, <1>5 DEF Inv

\* A statement that writes a row: a head row, or a data row that it inserts
\* or deletes.
LEMMA WriteRowInv ==
    ASSUME Inv, NEW w \in Worker, NEW r, NEW v, CanLock(w, r), WriteRow(w, r, v),
           NEW l \in {"data", "head", "commit", "rollback"}, Goto(w, l),
           UNCHANGED call,
           \/ r \notin DataRows /\ pc[w] = "newhead"
           \/ r \notin DataRows /\ pc[w] = "head" /\ l = "commit"
           \/ /\ pc[w] = "data" /\ l \in {"head", "commit"}
              /\ current[r] = NoRow \/ v = NoRow
    PROVE  Inv'
<1>1. /\ lock' = [lock EXCEPT ![r] = w] /\ current' = [current EXCEPT ![r] = v]
      /\ UNCHANGED <<committed, view>>
    BY DEF WriteRow
<1>2. /\ \A q \in Row \ {r} : lock'[q] = lock[q] /\ current'[q] = current[q]
      /\ r \in Row => lock'[r] = w /\ current'[r] = v
    BY <1>1 DEF Inv, Shape
<1>3. pc'[w] = l /\ \A u \in Worker \ {w} : pc'[u] = pc[u]
    BY DEF Goto, Inv, Shape
<1>4. Shape'
    BY <1>1 DEF Goto, Inv, Shape
<1>5. IdleOwnsNothing(w)'
    BY <1>3 DEF IdleOwnsNothing
<1>6. InsertsOrDeletes(w)'
    <2> SUFFICES ASSUME NEW q \in DataRows, lock'[q] = w
                 PROVE  /\ l \in {"head", "commit"}
                        /\ committed[q] = NoRow \/ current'[q] = NoRow
        BY <1>1, <1>3 DEF InsertsOrDeletes
    <2>1. q \in Row
        BY TablesAreDisjoint
    <2>2. CASE q = r
        <3>1. pc[w] = "data" /\ l \in {"head", "commit"}
            BY <2>2
        <3>2. lock[q] = Free
            BY <2>1, <2>2, <3>1 DEF CanLock, Inv, InsertsOrDeletes
        <3>3. current[q] = committed[q]
            BY <2>1, <3>2 DEF Inv
        <3> QED BY <1>2, <2>1, <2>2, <3>1, <3>3
    <2>3. CASE q # r
        <3>1. lock[q] = w /\ current'[q] = current[q]
            BY <1>2, <2>1, <2>3
        <3> QED BY <3>1 DEF Inv, InsertsOrDeletes
    <2> QED BY <2>2, <2>3
<1>7. ASSUME NEW u \in Worker \ {w}
      PROVE  IdleOwnsNothing(u)' /\ InsertsOrDeletes(u)'
    <2>1. \A q \in Row : lock[q] = u => q # r
        BY FreeAssumption DEF CanLock
    <2>2. \A q \in Row : lock'[q] = u <=> lock[q] = u
        BY <1>2, <2>1
    <2> QED BY <1>1, <1>2, <1>3, <2>1, <2>2, OthersKeepTheirRows
<1>8. \A q \in Row : lock'[q] = Free => current'[q] = committed'[q]
    BY <1>1, <1>2, FreeAssumption DEF Inv
<1> QED BY <1>4, <1>5, <1>6, <1>7, <1>8 DEF Inv

LEMMA InsertHeadInv ==
    ASSUME Inv, NEW w \in Worker, InsertHead(w)
    PROVE  Inv'
<1> DEFINE r == HeadRow(call[w].key)
           row == [id |-> call[w].id, count |-> 1]
<1>1. /\ pc[w] = "newhead" /\ CanLock(w, r) /\ WriteRow(w, r, row)
      /\ UNCHANGED call
    BY DEF InsertHead
<1>2. Goto(w, "data") \/ Goto(w, "rollback")
    <2>1. Continue(w) \/ Goto(w, "rollback")
        BY DEF InsertHead
    <2> QED BY <1>1, <2>1, OrderOfWrites
<1>3. r \notin DataRows
    BY TablesAreDisjoint
<1> HIDE DEF r, row
<1> QED BY <1>1, <1>2, <1>3, WriteRowInv

LEMMA WriteDataInv ==
    ASSUME Inv, NEW w \in Worker, WriteData(w)
    PROVE  Inv'
<1> DEFINE r == NextRow(w)
<1>1. pc[w] = "data" /\ CanLock(w, r) /\ UNCHANGED call
    BY DEF WriteData
<1>2. Continue(w) => Goto(w, "head") \/ Goto(w, "commit")
    BY <1>1, OrderOfWrites
<1>3. \/ current[r] = NoRow /\ WriteRow(w, r, call[w].score) /\ Continue(w)
      \/ WriteRow(w, r, NoRow) /\ Continue(w)
      \/ Goto(w, "fail") /\ UNCHANGED engine
    BY DEF WriteData, Fail
<1> HIDE DEF r
<1> QED BY <1>1, <1>2, <1>3, WriteRowInv, NoWriteInv

LEMMA WriteHeadInv ==
    ASSUME Inv, NEW w \in Worker, WriteHead(w)
    PROVE  Inv'
<1> DEFINE r == NextRow(w)
<1>1. /\ pc[w] = "head" /\ CanLock(w, r) /\ UNCHANGED call
      /\ Continue(w)
    BY DEF WriteHead
<1>2. Goto(w, "commit")
    BY <1>1, OrderOfWrites
<1>3. UNCHANGED engine \/ \E v : WriteRow(w, r, v)
    BY DEF WriteHead
<1>4. r \notin DataRows
    BY <1>1, TablesAreDisjoint DEF NextRow
<1> HIDE DEF r
<1> QED BY <1>1, <1>2, <1>3, <1>4, WriteRowInv, NoWriteInv

LEMMA LockTimeoutInv ==
    ASSUME Inv, NEW w \in Worker, LockTimeout(w)
    PROVE  Inv'
<1>1. \/ pc[w] = "data" /\ Goto(w, "fail")
      \/ pc[w] = "head" /\ Goto(w, "commit")
    BY OrderOfWrites DEF LockTimeout, Fail
<1>2. UNCHANGED <<engine, call>>
    BY DEF LockTimeout, Fail
<1> QED BY <1>1, <1>2, NoWriteInv

\* The end of a transaction: the rows of the worker are free, and become
\* what `current' or `committed' says.
LEMMA EndOfTrxInv ==
    ASSUME Inv, NEW w \in Worker, NEW v, CommitTrx(w) \/ RollbackTrx(w), Return(w, v)
    PROVE  Inv'
<1>1. /\ lock' = [r \in Row |-> IF lock[r] = w THEN Free ELSE lock[r]]
      /\ view' = [view EXCEPT ![w] = NoTrx]
    BY DEF CommitTrx, RollbackTrx
<1>2. /\ \A r \in Row : lock[r] # w => /\ committed'[r] = committed[r]
                                       /\ current'[r] = current[r]
      /\ \A r \in Row : lock[r] = w => committed'[r] = current'[r]
      /\ DOMAIN committed' = Row /\ DOMAIN current' = Row
    BY DEF CommitTrx, RollbackTrx, Inv, Shape
<1>3. pc' = [pc EXCEPT ![w] = "idle"] /\ call' = [call EXCEPT ![w] = NoCall]
    BY DEF Return, Goto
<1>4. /\ pc'[w] = "idle" /\ view'[w] = NoTrx
      /\ \A u \in Worker \ {w} : UNCHANGED <<pc[u], view[u]>>
    BY <1>1, <1>3 DEF Inv, Shape
<1>5. Shape'
    BY <1>1, <1>2, <1>3 DEF Inv, Shape
<1>6. IdleOwnsNothing(w)' /\ InsertsOrDeletes(w)'
    BY <1>1, <1>4, FreeAssumption, TablesAreDisjoint
       DEF IdleOwnsNothing, InsertsOrDeletes
<1>7. \A u \in Worker \ {w} : IdleOwnsNothing(u)' /\ InsertsOrDeletes(u)'
    BY <1>1, <1>2, <1>4, FreeAssumption, OthersKeepTheirRows
<1>8. \A r \in Row : lock'[r] = Free => current'[r] = committed'[r]
    BY <1>1, <1>2 DEF Inv
<1> QED BY <1>5, <1>6, <1>7, <1>8 DEF Inv

\* A restart leaves what is committed, and nobody in the middle of anything.
LEMMA RestartInv ==
    ASSUME Inv, Restart
    PROVE  Inv'
BY FreeAssumption, TablesAreDisjoint
   DEF Restart, RecoverTrx, Inv, Shape, IdleOwnsNothing, InsertsOrDeletes

LEMMA NextInv == Inv /\ [Next]_vars => Inv'
<1> SUFFICES ASSUME Inv, [Next]_vars PROVE Inv'
    OBVIOUS
<1>1. CASE UNCHANGED vars
    BY <1>1 DEF vars, Inv, Shape, IdleOwnsNothing, InsertsOrDeletes
<1>2. ASSUME NEW w \in Worker, Step(w) PROVE Inv'
    <2>1. CASE Commit(w) \/ Rollback(w)
        BY <2>1, EndOfTrxInv DEF Commit, Rollback
    <2> QED BY <1>2, <2>1, InsertHeadInv, WriteDataInv, WriteHeadInv, LockTimeoutInv
            DEF Step
<1> QED BY <1>1, <1>2, TakeInv, RestartInv DEF Next

-----------------------------------------------------------------------------
\* A worker that has replied owns no row, and nothing is half written.
THEOREM NothingIsLeftBehind == Spec => []NothingLeftBehind
<1>1. Inv => NothingLeftBehind
    BY DEF Inv, NothingLeftBehind, IdleOwnsNothing
<1> QED BY <1>1, InitInv, NextInv, PTL DEF Spec

\* A commit publishes rows the worker inserted or deleted.
LEMMA NextKeepsScores ==
    ASSUME Inv, [Next]_vars, NEW r \in DataRows,
           committed[r] # NoRow, committed'[r] # NoRow
    PROVE  committed'[r] = committed[r]
<1>1. r \in Row
    BY TablesAreDisjoint
<1>2. ASSUME NEW w \in Worker, Commit(w) PROVE committed'[r] = committed[r]
    <2>1. committed'[r] = IF lock[r] = w THEN current[r] ELSE committed[r]
        BY <1>1, <1>2 DEF Commit, CommitTrx
    <2> QED BY <2>1 DEF Inv, InsertsOrDeletes
<1>3. ASSUME NEW w \in Worker, Take(w) PROVE UNCHANGED committed
    BY <1>3, TakeReadsOrBegins DEF GetCursor, ReadOnly, BeginTrx, engine
<1>4. ASSUME NEW w \in Worker,
             \/ InsertHead(w) \/ WriteData(w) \/ WriteHead(w)
             \/ LockTimeout(w) \/ Rollback(w)
      PROVE  UNCHANGED committed
    BY <1>4 DEF InsertHead, WriteData, WriteHead, LockTimeout, Rollback, Fail,
                WriteRow, RollbackTrx, engine
<1>5. CASE UNCHANGED vars
    BY <1>5 DEF vars
<1>6. CASE Restart
    BY <1>6 DEF Restart, RecoverTrx
<1> QED BY <1>2, <1>3, <1>4, <1>5, <1>6 DEF Next, Step

\* ZADD never changes the score of an element that is there.
THEOREM ScoresNeverChange == Spec => ScoresStay
<1>1. Inv /\ [Next]_vars => [\A r \in DataRows :
             committed[r] # NoRow /\ committed'[r] # NoRow
                 => committed'[r] = committed[r]]_vars
    BY NextKeepsScores
<1>2. Spec => []Inv
    BY InitInv, NextInv, PTL DEF Spec
<1> QED BY <1>1, <1>2, PTL DEF Spec, ScoresStay

-----------------------------------------------------------------------------
\* What the rows hold, what the commands are, and which rows a command owns.
\* What a table may hold.
TableTyped(t) ==
    /\ DOMAIN t = Row
    /\ \A k \in Key : t[HeadRow(k)] \in Heads \cup {NoRow}
    /\ \A r \in DataRows : t[r] \in Score \cup {NoRow}

\* A command that writes.
IsCall(c) ==
    /\ c \in Calls
    /\ c.op = "zadd" => c.score \in Score /\ c.count < MaxCount
    /\ c.op = "zrem" => c.count # 0

\* What a command is at each label.
CallFits(w) ==
    IF pc[w] = "idle" THEN call[w] = NoCall
    ELSE /\ IsCall(call[w])
         /\ pc[w] = "newhead" => call[w].count = 0
         /\ pc[w] = "head" => call[w].count # 0

\* The rows a worker owns are those of its command, and where it owns a head
\* row and goes on to write, it has made a new sorted set.
OwnsItsRows(w) ==
    /\ \A k \in Key : lock[HeadRow(k)] = w =>
           /\ call[w].key = k
           /\ \/ pc[w] = "data" /\ call[w].count = 0
              \/ pc[w] \in {"commit", "rollback", "fail"}
    /\ \A i \in Id, v \in Val : lock[DataRow(i, v)] = w =>
           /\ call[w].id = i /\ call[w].val = v
           /\ pc[w] \in {"head", "commit"}

CallInv ==
    /\ TableTyped(committed) /\ TableTyped(current)
    /\ drawn \subseteq Id
    /\ \A w \in Worker : CallFits(w) /\ OwnsItsRows(w)

-----------------------------------------------------------------------------
LEMMA RowsAreRows ==
    /\ \A k \in Key : HeadRow(k) \in Row /\ HeadRow(k) \notin DataRows
    /\ \A i \in Id, v \in Val : DataRow(i, v) \in DataRows /\ DataRow(i, v) \in Row
    /\ \A j, k \in Key : HeadRow(j) = HeadRow(k) => j = k
    /\ \A i, j \in Id, u, v \in Val : DataRow(i, u) = DataRow(j, v) => i = j /\ u = v
BY TablesAreDisjoint DEF Row, DataRows, HeadRow, DataRow

LEMMA CallInit == Init => CallInv
<1> SUFFICES ASSUME Init PROVE CallInv
    OBVIOUS
<1>1. /\ committed = [r \in Row |-> NoRow] /\ current = committed
      /\ lock = [r \in Row |-> Free] /\ drawn = {}
      /\ pc = [w \in Worker |-> "idle"] /\ call = [w \in Worker |-> NoCall]
    BY DEF Init, EngineInit
<1>2. TableTyped(committed)
    BY <1>1, RowsAreRows DEF TableTyped, DataRows
<1>3. \A w \in Worker : CallFits(w) /\ OwnsItsRows(w)
    BY <1>1, RowsAreRows, FreeAssumption DEF CallFits, OwnsItsRows
<1> QED BY <1>1, <1>2, <1>3 DEF CallInv

\* A command does not change while others take their steps.
LEMMA OthersGoOn ==
    ASSUME NEW u \in Worker, CallFits(u), OwnsItsRows(u),
           UNCHANGED <<pc[u], call[u]>>,
           \A r \in Row : lock'[r] = u => lock[r] = u
    PROVE  CallFits(u)' /\ OwnsItsRows(u)'
BY RowsAreRows DEF CallFits, OwnsItsRows

\* A worker that begins owns no row yet.
LEMMA BeginCalls ==
    ASSUME Inv, CallInv, NEW w \in Worker, pc[w] = "idle", NEW c, IsCall(c),
           GetCursor(w, c), drawn' \subseteq Id
    PROVE  CallInv'
<1>1. /\ UNCHANGED <<committed, current, lock>>
      /\ pc' = [pc EXCEPT ![w] = Order(c)[1]] /\ call' = [call EXCEPT ![w] = c]
    BY DEF GetCursor, BeginTrx, Goto
<1>2. /\ pc'[w] = Order(c)[1] /\ call'[w] = c
      /\ \A u \in Worker \ {w} : pc'[u] = pc[u] /\ call'[u] = call[u]
    BY <1>1 DEF Inv, Shape
<1>3. Order(c)[1] \in {"newhead", "data"} /\ (Order(c)[1] = "newhead" => c.count = 0)
    BY DEF Order
<1>4. CallFits(w)'
    BY <1>2, <1>3 DEF CallFits, IsCall
<1>5. OwnsItsRows(w)'
    BY <1>1, RowsAreRows DEF Inv, IdleOwnsNothing, OwnsItsRows
<1>6. \A u \in Worker \ {w} : CallFits(u)' /\ OwnsItsRows(u)'
    BY <1>1, <1>2, OthersGoOn DEF CallInv
<1> QED BY <1>1, <1>4, <1>5, <1>6 DEF CallInv, TableTyped

LEMMA TakeCalls ==
    ASSUME Inv, CallInv, NEW w \in Worker, Take(w)
    PROVE  CallInv'
<1>1. ASSUME NEW q, NEW x, ReadOnly(w, q, x) PROVE CallInv'
    <2>1. UNCHANGED <<committed, current, lock, drawn, pc, call>>
        BY <1>1 DEF ReadOnly, engine
    <2> QED BY <2>1 DEF CallInv, TableTyped, CallFits, OwnsItsRows
<1>2. ASSUME NEW k \in Key, Exists(k)
      PROVE  /\ committed[HeadRow(k)].id \in Id
             /\ committed[HeadRow(k)].count \in 1 .. MaxCount
    BY <1>2 DEF Exists, CallInv, TableTyped, Heads
<1>3. ASSUME NEW k \in Key, NEW v \in Val, NEW s \in Score, ZAdd(w, k, v, s) PROVE CallInv'
    <2>1. pc[w] = "idle" /\ drawn' \subseteq Id
        BY <1>3 DEF ZAdd, CallInv
    <2>2. CASE Exists(k) /\ committed[HeadRow(k)].count < MaxCount
               /\ GetCursor(w, Call("zadd", k, v, s))
        <3>1. IsCall(Call("zadd", k, v, s))
            BY <2>2, <1>2, MaxCountAssumption DEF Call, IsCall, Calls
        <3> QED BY <2>1, <2>2, <3>1, BeginCalls
    <2>3. ASSUME NEW i \in Id \ drawn,
                 GetCursor(w, [op |-> "zadd", key |-> k, val |-> v, score |-> s,
                               id |-> i, count |-> 0])
          PROVE  CallInv'
        <3>1. IsCall([op |-> "zadd", key |-> k, val |-> v, score |-> s,
                      id |-> i, count |-> 0])
            BY MaxCountAssumption DEF IsCall, Calls
        <3> QED BY <2>1, <2>3, <3>1, BeginCalls
    <2> QED BY <1>3, <2>2, <2>3 DEF ZAdd
<1>4. ASSUME NEW k \in Key, NEW v \in Val, ZRem(w, k, v) PROVE CallInv'
    <2>1. IsCall(Call("zrem", k, v, 0))
        BY <1>2, <1>4, MaxCountAssumption DEF ZRem, Found, Call, IsCall, Calls
    <2> QED BY <1>4, <2>1, BeginCalls DEF ZRem, CallInv
<1>5. ASSUME NEW k, NEW v, NEW s,
             \/ ZAddKnown(w, k, v, s) \/ ZRemUnknown(w, k, v)
             \/ ZScore(w, k, v) \/ ZCard(w, k) \/ ZCount(w, k, v, s)
      PROVE  \E q, x : ReadOnly(w, q, x)
    BY <1>5, Zenon DEF ZAddKnown, ZRemUnknown, ZScore, ZCard, ZCount
<1> QED BY <1>1, <1>3, <1>4, <1>5 DEF Take

\* A statement without effect, a write, and the end: what they have in common.
LEMMA MovesOn ==
    ASSUME Inv, CallInv, NEW w \in Worker, UNCHANGED <<drawn, call>>, pc[w] # "idle",
           NEW l \in {"data", "head", "commit", "rollback", "fail"}, Goto(w, l),
           l = "head" => call[w].count # 0,
           TableTyped(committed'), TableTyped(current'), OwnsItsRows(w)',
           \A u \in Worker \ {w}, r \in Row : lock'[r] = u => lock[r] = u
    PROVE  CallInv'
<1>1. pc'[w] = l /\ \A u \in Worker \ {w} : pc'[u] = pc[u] /\ call'[u] = call[u]
    BY DEF Goto, Inv, Shape
<1>2. CallFits(w)'
    BY <1>1 DEF CallInv, CallFits
<1>3. \A u \in Worker \ {w} : CallFits(u)' /\ OwnsItsRows(u)'
    BY <1>1, OthersGoOn DEF CallInv
<1>4. TableTyped(committed)' /\ TableTyped(current)'
    BY DEF TableTyped
<1> QED BY <1>2, <1>3, <1>4 DEF CallInv

\* A write changes one row, of the command that makes it.
LEMMA WriteIsOwn ==
    ASSUME Inv, NEW w \in Worker, NEW r \in Row, NEW x, CanLock(w, r), WriteRow(w, r, x)
    PROVE  /\ UNCHANGED committed
           /\ DOMAIN current' = Row /\ current'[r] = x
           /\ \A q \in Row \ {r} : current'[q] = current[q]
           /\ \A q \in Row : lock'[q] = w <=> q = r \/ lock[q] = w
           /\ \A u \in Worker \ {w}, q \in Row : lock'[q] = u => lock[q] = u
BY DEF CanLock, WriteRow, Inv, Shape

LEMMA StaysTyped ==
    ASSUME NEW t, NEW u, TableTyped(t), NEW r \in Row, NEW x, DOMAIN u = Row, u[r] = x,
           \A q \in Row \ {r} : u[q] = t[q],
           r \in DataRows => x \in Score \cup {NoRow},
           r \notin DataRows => x \in Heads \cup {NoRow}
    PROVE  TableTyped(u)
<1>1. \A k \in Key : u[HeadRow(k)] \in Heads \cup {NoRow}
    BY RowsAreRows DEF TableTyped
<1>2. \A q \in DataRows : u[q] \in Score \cup {NoRow}
    BY TablesAreDisjoint DEF TableTyped
<1> QED BY <1>1, <1>2 DEF TableTyped

LEMMA InsertHeadCalls ==
    ASSUME Inv, CallInv, NEW w \in Worker, InsertHead(w)
    PROVE  CallInv'
<1> DEFINE h == HeadRow(call[w].key)
           x == [id |-> call[w].id, count |-> 1]
<1>1. /\ pc[w] = "newhead" /\ UNCHANGED <<drawn, call>>
      /\ CanLock(w, h) /\ WriteRow(w, h, x)
    BY DEF InsertHead
<1>2. IsCall(call[w]) /\ call[w].count = 0
    BY <1>1 DEF CallInv, CallFits
<1>3. PICK l \in {"data", "rollback"} : Goto(w, l)
    <2>1. Continue(w) \/ Goto(w, "rollback")
        BY DEF InsertHead
    <2> QED BY <1>1, <2>1, OrderOfWrites
<1>4. call[w].key \in Key /\ h \in Row /\ h \notin DataRows
    BY <1>2, RowsAreRows DEF IsCall, Calls
<1>5. x \in Heads
    BY <1>2, MaxCountAssumption DEF IsCall, Calls, Heads
<1>6. /\ UNCHANGED committed /\ DOMAIN current' = Row /\ current'[h] = x
      /\ \A q \in Row \ {h} : current'[q] = current[q]
      /\ \A q \in Row : lock'[q] = w <=> q = h \/ lock[q] = w
      /\ \A u \in Worker \ {w}, q \in Row : lock'[q] = u => lock[q] = u
    <2> HIDE DEF h, x
    <2> QED BY <1>1, <1>4, WriteIsOwn
<1>7. pc'[w] = l
    BY <1>3 DEF Goto, Inv, Shape
<1> HIDE DEF x
<1>8. TableTyped(current') /\ TableTyped(committed')
    BY <1>4, <1>5, <1>6, StaysTyped DEF CallInv
<1>9. OwnsItsRows(w)'
    BY <1>1, <1>2, <1>4, <1>6, <1>7, RowsAreRows DEF CallInv, OwnsItsRows
<1> QED BY <1>1, <1>3, <1>6, <1>8, <1>9, MovesOn

LEMMA WriteDataCalls ==
    ASSUME Inv, CallInv, NEW w \in Worker, WriteData(w)
    PROVE  CallInv'
<1> DEFINE r == DataRow(call[w].id, call[w].val)
<1>1. /\ pc[w] = "data" /\ UNCHANGED <<drawn, call>>
      /\ CanLock(w, r) /\ NextRow(w) = r
    BY DEF WriteData, NextRow
<1>2. IsCall(call[w])
    BY <1>1 DEF CallInv, CallFits
<1>3. call[w].id \in Id /\ call[w].val \in Val /\ r \in Row /\ r \in DataRows
    BY <1>2, RowsAreRows DEF IsCall, Calls
<1>4. CASE Fail(w)
    <2>1. UNCHANGED <<committed, current, lock>> /\ Goto(w, "fail")
        BY <1>4 DEF Fail, engine
    <2>2. pc'[w] = "fail"
        BY <2>1 DEF Goto, Inv, Shape
    <2>3. \A i \in Id, v \in Val : lock[DataRow(i, v)] # w
        BY <1>1 DEF CallInv, OwnsItsRows
    <2>4. OwnsItsRows(w)'
        BY <1>1, <2>1, <2>2, <2>3 DEF CallInv, OwnsItsRows
    <2>5. TableTyped(current') /\ TableTyped(committed')
        BY <2>1 DEF CallInv, TableTyped
    <2> QED BY <1>1, <2>1, <2>4, <2>5, MovesOn
<1>5. ASSUME NEW x \in Score \cup {NoRow}, WriteRow(w, r, x), Continue(w)
      PROVE  CallInv'
    <2>1. /\ UNCHANGED committed /\ DOMAIN current' = Row /\ current'[r] = x
          /\ \A q \in Row \ {r} : current'[q] = current[q]
          /\ \A q \in Row : lock'[q] = w <=> q = r \/ lock[q] = w
          /\ \A u \in Worker \ {w}, q \in Row : lock'[q] = u => lock[q] = u
        <3> HIDE DEF r
        <3> QED BY <1>1, <1>3, <1>5, WriteIsOwn
    <2>2. PICK l \in {"head", "commit"} :
              Goto(w, l) /\ (l = "head" <=> call[w].count # 0)
        BY <1>1, <1>5 DEF Continue, Order
    <2>3. pc'[w] = l
        BY <2>2 DEF Goto, Inv, Shape
    <2>4. TableTyped(current') /\ TableTyped(committed')
        BY <1>3, <1>5, <2>1, StaysTyped DEF CallInv
    <2>5. OwnsItsRows(w)'
        <3>1. ASSUME NEW k \in Key, lock'[HeadRow(k)] = w
              PROVE  call[w].key = k /\ call[w].count = 0
            BY <1>1, <1>3, <2>1, <3>1, RowsAreRows DEF CallInv, OwnsItsRows
        <3>2. ASSUME NEW i \in Id, NEW v \in Val, lock'[DataRow(i, v)] = w
              PROVE  call[w].id = i /\ call[w].val = v
            BY <1>1, <1>3, <2>1, <3>2, RowsAreRows DEF CallInv, OwnsItsRows
        <3> QED BY <1>1, <2>2, <2>3, <3>1, <3>2 DEF OwnsItsRows
    <2> QED BY <1>1, <2>1, <2>2, <2>4, <2>5, MovesOn
<1>6. /\ call[w].op = "zadd" => call[w].score \in Score
      /\ call[w].op = "zadd" \/ call[w].op = "zrem"
    BY <1>2 DEF IsCall, Calls
<1>7. \/ Fail(w)
      \/ WriteRow(w, r, call[w].score) /\ call[w].op = "zadd" /\ Continue(w)
      \/ WriteRow(w, r, NoRow) /\ Continue(w)
    BY <1>1 DEF WriteData
<1> HIDE DEF r
<1> QED BY <1>4, <1>5, <1>6, <1>7

LEMMA WriteHeadCalls ==
    ASSUME Inv, CallInv, NEW w \in Worker, WriteHead(w)
    PROVE  CallInv'
<1> DEFINE r == HeadRow(call[w].key)
           n == NewCount(call[w])
<1>1. /\ pc[w] = "head" /\ UNCHANGED <<drawn, call>>
      /\ CanLock(w, r) /\ NextRow(w) = r /\ Continue(w)
    BY DEF WriteHead, NextRow
<1>2. IsCall(call[w]) /\ call[w].count # 0
    BY <1>1 DEF CallInv, CallFits
<1>3. call[w].key \in Key /\ r \in Row /\ r \notin DataRows
    BY <1>2, RowsAreRows DEF IsCall, Calls
<1>4. n \in 0 .. MaxCount
    BY <1>2, MaxCountAssumption DEF IsCall, Calls, NewCount
<1>5. Goto(w, "commit")
    BY <1>1, OrderOfWrites
<1>6. pc'[w] = "commit"
    BY <1>5 DEF Goto, Inv, Shape
<1>7. CASE UNCHANGED engine
    <2>1. UNCHANGED <<committed, current, lock>>
        BY <1>7 DEF engine
    <2>2. OwnsItsRows(w)'
        BY <1>1, <1>6, <2>1 DEF CallInv, OwnsItsRows
    <2>3. TableTyped(current') /\ TableTyped(committed')
        BY <2>1 DEF CallInv, TableTyped
    <2> QED BY <1>1, <1>5, <2>1, <2>2, <2>3, MovesOn
<1>8. ASSUME NEW x \in Heads \cup {NoRow}, WriteRow(w, r, x)
      PROVE  CallInv'
    <2>1. /\ UNCHANGED committed /\ DOMAIN current' = Row /\ current'[r] = x
          /\ \A q \in Row \ {r} : current'[q] = current[q]
          /\ \A q \in Row : lock'[q] = w <=> q = r \/ lock[q] = w
          /\ \A u \in Worker \ {w}, q \in Row : lock'[q] = u => lock[q] = u
        <3> HIDE DEF r
        <3> QED BY <1>1, <1>3, <1>8, WriteIsOwn
    <2>2. TableTyped(current') /\ TableTyped(committed')
        BY <1>3, <1>8, <2>1, StaysTyped DEF CallInv
    <2>3. OwnsItsRows(w)'
        BY <1>1, <1>3, <1>6, <2>1, RowsAreRows DEF CallInv, OwnsItsRows
    <2> QED BY <1>1, <1>5, <2>1, <2>2, <2>3, MovesOn
<1>9. ASSUME current[r] # NoRow, n # 0
      PROVE  [current[r] EXCEPT !.count = n] \in Heads
    <2>1. current[r] \in Heads
        BY <1>3, <1>9 DEF CallInv, TableTyped
    <2> HIDE DEF r, n
    <2> QED BY <1>4, <1>9, <2>1 DEF Heads
<1>10. \/ UNCHANGED engine
       \/ current[r] # NoRow /\ WriteRow(w, r, IF n = 0 THEN NoRow ELSE [current[r] EXCEPT !.count = n])
    BY <1>1 DEF WriteHead
<1> HIDE DEF r, n
<1> QED BY <1>7, <1>8, <1>9, <1>10

LEMMA LockTimeoutCalls ==
    ASSUME Inv, CallInv, NEW w \in Worker, LockTimeout(w)
    PROVE  CallInv'
<1>1. /\ UNCHANGED <<committed, current, lock, drawn, call>>
      /\ \/ pc[w] = "data" /\ Goto(w, "fail")
         \/ pc[w] = "head" /\ Goto(w, "commit")
    BY OrderOfWrites DEF LockTimeout, Fail, engine
<1>2. \/ pc[w] = "data" /\ pc'[w] = "fail"
      \/ pc[w] = "head" /\ pc'[w] = "commit"
    BY <1>1 DEF Goto, Inv, Shape
<1>3. OwnsItsRows(w)'
    BY <1>1, <1>2 DEF CallInv, OwnsItsRows
<1>4. TableTyped(current') /\ TableTyped(committed')
    BY <1>1 DEF CallInv, TableTyped
<1> QED BY <1>1, <1>3, <1>4, MovesOn

LEMMA EndOfTrxCalls ==
    ASSUME Inv, CallInv, NEW w \in Worker, NEW v, CommitTrx(w) \/ RollbackTrx(w), Return(w, v)
    PROVE  CallInv'
<1>1. /\ lock' = [r \in Row |-> IF lock[r] = w THEN Free ELSE lock[r]]
      /\ pc' = [pc EXCEPT ![w] = "idle"] /\ call' = [call EXCEPT ![w] = NoCall]
      /\ UNCHANGED drawn
    BY DEF CommitTrx, RollbackTrx, Return, Goto
<1>2. /\ DOMAIN committed' = Row /\ DOMAIN current' = Row
      /\ \A r \in Row : /\ committed'[r] \in {committed[r], current[r]}
                        /\ current'[r] \in {committed[r], current[r]}
    BY DEF CommitTrx, RollbackTrx, Inv, Shape
<1>3. TableTyped(current') /\ TableTyped(committed')
    BY <1>2, RowsAreRows, TablesAreDisjoint DEF CallInv, TableTyped
<1>4. /\ pc'[w] = "idle" /\ call'[w] = NoCall
      /\ \A u \in Worker \ {w} : pc'[u] = pc[u] /\ call'[u] = call[u]
    BY <1>1 DEF Inv, Shape
<1>5. \A r \in Row : lock'[r] # w
    BY <1>1, FreeAssumption
<1>6. CallFits(w)' /\ OwnsItsRows(w)'
    BY <1>4, <1>5, RowsAreRows DEF CallFits, OwnsItsRows
<1>7. \A u \in Worker \ {w} : CallFits(u)' /\ OwnsItsRows(u)'
    BY <1>1, <1>4, FreeAssumption, OthersGoOn DEF CallInv
<1>8. TableTyped(current)' /\ TableTyped(committed)'
    BY <1>3 DEF TableTyped
<1> QED BY <1>1, <1>6, <1>7, <1>8 DEF CallInv

LEMMA RestartCalls ==
    ASSUME CallInv, Restart
    PROVE  CallInv'
<1>1. /\ current' = committed /\ committed' = committed /\ lock' = [r \in Row |-> Free]
      /\ pc' = [w \in Worker |-> "idle"] /\ call' = [w \in Worker |-> NoCall]
      /\ drawn' \subseteq drawn
    BY DEF Restart, RecoverTrx
<1>2. \A w \in Worker : CallFits(w)' /\ OwnsItsRows(w)'
    BY <1>1, RowsAreRows, FreeAssumption DEF CallFits, OwnsItsRows
<1> QED BY <1>1, <1>2 DEF CallInv, TableTyped

LEMMA CallNext == Inv /\ CallInv /\ [Next]_vars => CallInv'
<1> SUFFICES ASSUME Inv, CallInv, [Next]_vars PROVE CallInv'
    OBVIOUS
<1>1. CASE UNCHANGED vars
    BY <1>1 DEF vars, CallInv, TableTyped, CallFits, OwnsItsRows
<1>2. ASSUME NEW w \in Worker, Step(w) PROVE CallInv'
    <2>1. CASE Commit(w) \/ Rollback(w)
        BY <2>1, EndOfTrxCalls DEF Commit, Rollback
    <2> QED BY <1>2, <2>1, InsertHeadCalls, WriteDataCalls, WriteHeadCalls,
               LockTimeoutCalls DEF Step
<1> QED BY <1>1, <1>2, TakeCalls, RestartCalls DEF Next

LEMMA CallInvHolds == Spec => [](Inv /\ CallInv)
<1>1. Init => Inv /\ CallInv
    BY InitInv, CallInit
<1>2. (Inv /\ CallInv) /\ [Next]_vars => (Inv /\ CallInv)'
    BY NextInv, CallNext
<1> QED BY <1>1, <1>2, PTL DEF Spec

\* Every variable stays in its type; a sorted set has at least one element
\* and, as the writes are bounded, at most MaxCount.
THEOREM TypeCorrect == Spec => []TypeOK
<1>1. ASSUME Inv, CallInv PROVE TypeOK
    <2>1. \A t \in {committed, current} :
             /\ DOMAIN t = Row
             /\ \A k \in Key : t[HeadRow(k)] \in Heads \cup {NoRow}
             /\ \A r \in DataRows : t[r] \in Score \cup {NoRow}
        BY <1>1 DEF CallInv, TableTyped
    <2>2. \A w \in Worker : pc[w] = "idle" <=> call[w] = NoCall
        BY <1>1, NoCallAssumption DEF CallInv, CallFits, IsCall
    <2>3. \A w \in Worker : (pc[w] = "idle") = (call[w] = NoCall)
        BY <2>2
    <2> QED BY <1>1, <2>1, <2>3 DEF TypeOK, Inv, Shape, CallInv
<1> QED BY <1>1, CallInvHolds, PTL

\* Of the workers in commands one can always go on, but where a key is being
\* made with the id of another command's: the rows are locked in an order.
THEOREM NoCommandsDeadlock == Spec => []NoDeadlock
<1>1. ASSUME Inv, CallInv PROVE NoDeadlock
    <2> SUFFICES ASSUME NEW W \in SUBSET {w \in Worker : pc[w] # "idle"}, W # {},
                        \A w \in W : \E u \in W \ {w} : WaitsFor(w, u),
                        \A u, w \in W : u # w /\ call[u].count = 0
                                           => call[w].id # call[u].id
                 PROVE  FALSE
        BY DEF NoDeadlock
    <2>1. \A w \in W : /\ w \in Worker /\ pc[w] \in {"newhead", "data", "head"}
                       /\ IsCall(call[w])
        BY <1>1 DEF WaitsFor, CallInv, CallFits
    <2>2. \A w \in W : /\ HeadRow(call[w].key) \in Row /\ call[w].key \in Key
                       /\ call[w].id \in Id /\ call[w].val \in Val
        BY <2>1, RowsAreRows DEF IsCall, Calls
    <2>3. ASSUME NEW w \in W, pc[w] = "data" PROVE call[w].count # 0
        <3>1. PICK u \in W \ {w} : WaitsFor(w, u)
            OBVIOUS
        <3>2. call[u].id = call[w].id
            BY <1>1, <2>1, <2>2, <2>3, <3>1 DEF WaitsFor, NextRow, CallInv, OwnsItsRows
        <3> QED BY <3>2
    <2>4. ASSUME NEW w \in W PROVE pc[w] = "data"
        <3>1. PICK u \in W \ {w} : WaitsFor(w, u)
            OBVIOUS
        <3>2. CASE pc[w] # "data"
            <4>1. lock[HeadRow(call[w].key)] = u
                BY <3>1, <3>2 DEF WaitsFor, NextRow
            <4>2. pc[u] = "data" /\ call[u].count = 0
                BY <1>1, <2>1, <2>2, <4>1 DEF CallInv, OwnsItsRows
            <4> QED BY <2>3, <4>2
        <3> QED BY <3>2
    <2>5. PICK w \in W : TRUE
        OBVIOUS
    <2>6. PICK u \in W \ {w} : WaitsFor(w, u)
        OBVIOUS
    <2>7. pc[u] \in {"head", "commit"}
        BY <1>1, <2>1, <2>2, <2>4, <2>6 DEF WaitsFor, NextRow, CallInv, OwnsItsRows
    <2> QED BY <2>4, <2>7
<1> QED BY <1>1, CallInvHolds, PTL

-----------------------------------------------------------------------------
(***************************************************************************)
(* No two sorted sets have one id, as long as a restart does not make      *)
(* rand() repeat itself.  Every command on an element rests on this:       *)
(* `zsets-data' knows a sorted set by its id alone.                        *)
(***************************************************************************)
HeadOfDrawn == [id : drawn, count : Int \ {0}]

HeadsAreHeads ==
    \A k \in Key : {committed[HeadRow(k)], current[HeadRow(k)]}
                       \subseteq HeadOfDrawn \cup {NoRow}

\* k has the id i, or will have when the transaction that has written its
\* head commits, or rolls back.
Claims(k, i) ==
    \/ committed[HeadRow(k)] # NoRow /\ committed[HeadRow(k)].id = i
    \/ current[HeadRow(k)] # NoRow /\ current[HeadRow(k)].id = i

OneClaimEach == \A j, k \in Key : \A i : Claims(j, i) /\ Claims(k, i) => j = k

\* The ids that are drawn and not yet written.
DrawnForOne ==
    \A w \in Worker : pc[w] = "newhead" =>
        /\ call[w].id \in drawn
        /\ \A k \in Key : ~Claims(k, call[w].id)
        /\ \A u \in Worker : pc[u] = "newhead" /\ call[u].id = call[w].id => u = w

CallsAreCalls ==
    \A w \in Worker : pc[w] # "idle" => call[w].key \in Key /\ call[w].count \in Int

\* The strengthening: a head row not yet committed has an id of its own too,
\* and so does a command that has drawn one and not yet written it.
IdInv == HeadsAreHeads /\ OneClaimEach /\ DrawnForOne /\ CallsAreCalls

-----------------------------------------------------------------------------
LEMMA HeadRowsDiffer ==
    /\ \A k \in Key : HeadRow(k) \in Row
    /\ \A j, k \in Key : HeadRow(j) = HeadRow(k) => j = k
BY DEF Row, HeadRow

LEMMA IdInit == Init => IdInv
BY HeadRowsDiffer
   DEF Init, EngineInit, IdInv, HeadsAreHeads, OneClaimEach, DrawnForOne,
       CallsAreCalls, Claims

\* A step that claims no id and draws none.
LEMMA NothingNew ==
    ASSUME IdInv, drawn' = drawn,
           \A k \in Key : \A i : Claims(k, i)' => Claims(k, i),
           \A w \in Worker : pc'[w] = "newhead" =>
               pc[w] = "newhead" /\ call'[w].id = call[w].id
    PROVE  OneClaimEach' /\ DrawnForOne'
BY DEF IdInv, OneClaimEach, DrawnForOne

\* Nor do the heads of the keys change.
LEMMA SameHeads ==
    ASSUME IdInv, UNCHANGED drawn, CallsAreCalls',
           \A k \in Key :
               {committed'[HeadRow(k)], current'[HeadRow(k)]}
                   \subseteq {committed[HeadRow(k)], current[HeadRow(k)]},
           \A w \in Worker : pc'[w] = "newhead" =>
               pc[w] = "newhead" /\ call'[w].id = call[w].id
    PROVE  IdInv'
<1>1. HeadsAreHeads'
    BY DEF IdInv, HeadsAreHeads, HeadOfDrawn
<1>2. \A k \in Key : \A i : Claims(k, i)' => Claims(k, i)
    BY DEF Claims
<1> QED BY <1>1, <1>2, NothingNew DEF IdInv

\* A command that adds to a key without a head draws an id nobody has.
LEMMA DrawInv ==
    ASSUME Inv, IdInv, NEW w \in Worker, NEW c, NEW i \in Id \ drawn,
           pc[w] = "idle", drawn' = drawn \cup {i}, GetCursor(w, c),
           c.id = i, c.count = 0, c.key \in Key
    PROVE  IdInv'
<1>1. /\ UNCHANGED <<committed, current>>
      /\ pc'[w] # "idle" /\ call'[w] = c
      /\ \A u \in Worker \ {w} : pc'[u] = pc[u] /\ call'[u] = call[u]
    BY OrderOfWrites DEF GetCursor, BeginTrx, Goto, Inv, Shape
<1>2. HeadsAreHeads'
    BY <1>1 DEF IdInv, HeadsAreHeads, HeadOfDrawn
<1>3. \A k \in Key : \A j : Claims(k, j)' <=> Claims(k, j)
    BY <1>1 DEF Claims
<1>4. \A k \in Key : ~Claims(k, i)
    BY DEF IdInv, HeadsAreHeads, HeadOfDrawn, Claims
<1>5. OneClaimEach'
    BY <1>3 DEF IdInv, OneClaimEach
<1>6. DrawnForOne'
    BY <1>1, <1>3, <1>4 DEF IdInv, DrawnForOne
<1>7. CallsAreCalls'
    BY <1>1 DEF IdInv, CallsAreCalls
<1> QED BY <1>2, <1>5, <1>6, <1>7 DEF IdInv

\* A command on a key that has a head starts with its data row.
LEMMA ExistingInv ==
    ASSUME Inv, IdInv, NEW w \in Worker, NEW op, NEW k \in Key, NEW v, NEW s,
           Exists(k), GetCursor(w, Call(op, k, v, s)), UNCHANGED drawn
    PROVE  IdInv'
<1> DEFINE c == Call(op, k, v, s)
<1>1. c.count \in Int \ {0}
    BY DEF Call, Exists, IdInv, HeadsAreHeads, HeadOfDrawn
<1>2. Order(c)[1] = "data" /\ c.key = k
    BY <1>1 DEF Order, Call
<1>3. /\ UNCHANGED <<committed, current>>
      /\ pc' = [pc EXCEPT ![w] = "data"] /\ call' = [call EXCEPT ![w] = c]
    BY <1>2 DEF GetCursor, BeginTrx, Goto
<1> HIDE DEF c
<1>4. \A u \in Worker : pc'[u] = "newhead" => pc[u] = "newhead" /\ call'[u] = call[u]
    BY <1>3 DEF Inv, Shape
<1>5. CallsAreCalls'
    BY <1>1, <1>2, <1>3 DEF IdInv, CallsAreCalls, Inv, Shape
<1> QED BY <1>3, <1>4, <1>5, SameHeads

LEMMA TakeIds ==
    ASSUME Inv, IdInv, NEW w \in Worker, Take(w)
    PROVE  IdInv'
<1>1. ASSUME NEW q, NEW x, ReadOnly(w, q, x) PROVE IdInv'
    <2>1. UNCHANGED <<committed, current, drawn, pc, call>>
        BY <1>1 DEF ReadOnly, engine
    <2> QED BY <2>1, SameHeads DEF IdInv, CallsAreCalls
<1>2. ASSUME NEW k \in Key, NEW v, NEW s, ZAdd(w, k, v, s) PROVE IdInv'
    <2>1. CASE Exists(k) /\ GetCursor(w, Call("zadd", k, v, s)) /\ UNCHANGED drawn
        BY <2>1, ExistingInv
    <2>2. ASSUME NEW i \in Id \ drawn, drawn' = drawn \cup {i},
                 GetCursor(w, [op |-> "zadd", key |-> k, val |-> v, score |-> s,
                               id |-> i, count |-> 0])
          PROVE  IdInv'
        BY <1>2, <2>2, DrawInv DEF ZAdd
    <2> QED BY <1>2, <2>1, <2>2 DEF ZAdd
<1>3. ASSUME NEW k \in Key, NEW v, ZRem(w, k, v) PROVE IdInv'
    BY <1>3, ExistingInv DEF ZRem, Found
<1>4. ASSUME NEW k, NEW v, NEW s,
             \/ ZAddKnown(w, k, v, s) \/ ZRemUnknown(w, k, v)
             \/ ZScore(w, k, v) \/ ZCard(w, k) \/ ZCount(w, k, v, s)
      PROVE  \E q, x : ReadOnly(w, q, x)
    BY <1>4, Zenon DEF ZAddKnown, ZRemUnknown, ZScore, ZCard, ZCount
<1> QED BY <1>1, <1>2, <1>3, <1>4 DEF Take

-----------------------------------------------------------------------------
\* A step of w to a label after "newhead", with the same command.
LEMMA GoesOn ==
    ASSUME Inv, IdInv, NEW w \in Worker,
           NEW l \in {"data", "head", "commit", "rollback", "fail"}, Goto(w, l), pc[w] # "idle", UNCHANGED call
    PROVE  /\ CallsAreCalls'
           /\ \A u \in Worker : pc'[u] = "newhead" => u # w /\ pc[u] = "newhead"
BY DEF Goto, Inv, Shape, IdInv, CallsAreCalls

\* The first write of a head claims the id that was drawn for it.
LEMMA InsertHeadIds ==
    ASSUME Inv, IdInv, NEW w \in Worker, InsertHead(w)
    PROVE  IdInv'
<1> DEFINE h == call[w].key
           x == [id |-> call[w].id, count |-> 1]
<1>1. /\ current' = [current EXCEPT ![HeadRow(h)] = x]
      /\ UNCHANGED <<committed, drawn, call>> /\ pc[w] = "newhead"
      /\ h \in Key
    BY DEF InsertHead, WriteRow, IdInv, CallsAreCalls
<1>2. Goto(w, "data") \/ Goto(w, "rollback")
    <2>1. Continue(w) \/ Goto(w, "rollback")
        BY DEF InsertHead
    <2> QED BY <1>1, <2>1, OrderOfWrites
<1>3. /\ CallsAreCalls'
      /\ \A u \in Worker : pc'[u] = "newhead" => u # w /\ pc[u] = "newhead"
    BY <1>1, <1>2, GoesOn
<1>4. /\ x.id = call[w].id /\ x.count = 1
      /\ current'[HeadRow(h)] = x
      /\ \A k \in Key \ {h} : current'[HeadRow(k)] = current[HeadRow(k)]
    BY <1>1, HeadRowsDiffer DEF Inv, Shape
<1>5. x \in HeadOfDrawn
    BY <1>1 DEF HeadOfDrawn, IdInv, DrawnForOne
<1> HIDE DEF x
<1>6. HeadsAreHeads'
    BY <1>1, <1>4, <1>5 DEF IdInv, HeadsAreHeads, HeadOfDrawn
<1>7. \A k \in Key : \A i : Claims(k, i)' => Claims(k, i) \/ (k = h /\ i = call[w].id)
    BY <1>1, <1>4 DEF Claims
<1>8. OneClaimEach'
    BY <1>1, <1>7 DEF IdInv, OneClaimEach, DrawnForOne
<1>9. DrawnForOne'
    BY <1>1, <1>3, <1>7 DEF IdInv, DrawnForOne
<1> QED BY <1>3, <1>6, <1>8, <1>9 DEF IdInv

LEMMA WriteDataIds ==
    ASSUME Inv, IdInv, NEW w \in Worker, WriteData(w)
    PROVE  IdInv'
<1>1. pc[w] = "data" /\ UNCHANGED <<committed, drawn, call>>
    BY DEF WriteData, WriteRow, Fail, engine
<1>2. \E l \in {"head", "commit", "fail"} : Goto(w, l)
    BY <1>1, OrderOfWrites DEF WriteData, Fail
<1>3. NextRow(w) = DataRow(call[w].id, call[w].val)
    BY <1>1 DEF NextRow
<1>4. \A k \in Key : HeadRow(k) # NextRow(w)
    <2> SUFFICES ASSUME NEW k \in Key, HeadRow(k) = NextRow(w) PROVE FALSE
        OBVIOUS
    <2>1. HeadRow(k)[1] = "zsets" /\ NextRow(w)[1] = "zsets-data"
        BY <1>3 DEF HeadRow, DataRow
    <2> QED BY <2>1
<1>5. current' = current \/ \E x : current' = [current EXCEPT ![NextRow(w)] = x]
    BY DEF WriteData, WriteRow, Fail, engine
<1>6. \A k \in Key : current'[HeadRow(k)] = current[HeadRow(k)]
    BY <1>4, <1>5, HeadRowsDiffer DEF Inv, Shape
<1> QED BY <1>1, <1>2, <1>6, GoesOn, SameHeads

\* A later write of a head keeps its id, or deletes it.
LEMMA WriteHeadIds ==
    ASSUME Inv, IdInv, NEW w \in Worker, WriteHead(w)
    PROVE  IdInv'
<1> DEFINE h == call[w].key
           n == NewCount(call[w])
           y == current[HeadRow(h)]
           x == IF n = 0 THEN NoRow ELSE [y EXCEPT !.count = n]
<1>1. /\ pc[w] = "head" /\ UNCHANGED <<committed, drawn, call>>
      /\ h \in Key
    BY DEF WriteHead, WriteRow, engine, IdInv, CallsAreCalls
<1>2. Goto(w, "commit")
    BY <1>1, OrderOfWrites DEF WriteHead
<1>3. /\ CallsAreCalls'
      /\ \A u \in Worker : pc'[u] = "newhead" => u # w /\ pc[u] = "newhead"
    BY <1>1, <1>2, GoesOn
<1>4. CASE UNCHANGED current
    BY <1>1, <1>3, <1>4, SameHeads
<1>5. CASE y # NoRow /\ current' = [current EXCEPT ![HeadRow(h)] = x]
    <2>1. n \in Int
        BY <1>1 DEF IdInv, CallsAreCalls, NewCount
    <2>2. y \in HeadOfDrawn
        BY <1>1, <1>5 DEF IdInv, HeadsAreHeads
    <2>3. x # NoRow => x.id = y.id /\ x \in HeadOfDrawn
        <3>1. ASSUME NEW z \in HeadOfDrawn, n # 0
              PROVE  /\ [z EXCEPT !.count = n] \in HeadOfDrawn
                     /\ [z EXCEPT !.count = n].id = z.id
            <4> HIDE DEF n
            <4> QED BY <2>1, <3>1 DEF HeadOfDrawn
        <3> HIDE DEF n, y
        <3> QED BY <2>2, <3>1
    <2> HIDE DEF x
    <2>4. /\ current'[HeadRow(h)] = x
          /\ \A k \in Key \ {h} : current'[HeadRow(k)] = current[HeadRow(k)]
        BY <1>1, <1>5, HeadRowsDiffer DEF Inv, Shape
    <2>5. HeadsAreHeads'
        BY <1>1, <2>3, <2>4 DEF IdInv, HeadsAreHeads, HeadOfDrawn
    <2>6. \A k \in Key : \A i : Claims(k, i)' => Claims(k, i)
        BY <1>1, <1>5, <2>3, <2>4 DEF Claims
    <2> QED BY <1>1, <1>3, <2>5, <2>6, NothingNew DEF IdInv
<1> QED BY <1>1, <1>4, <1>5 DEF WriteHead, WriteRow, NextRow, engine

LEMMA EndOfTrxIds ==
    ASSUME Inv, IdInv, NEW w \in Worker, NEW v,
           CommitTrx(w) \/ RollbackTrx(w), Return(w, v)
    PROVE  IdInv'
<1>1. /\ UNCHANGED drawn
      /\ pc' = [pc EXCEPT ![w] = "idle"] /\ call' = [call EXCEPT ![w] = NoCall]
    BY DEF Return, Goto
<1>2. \A u \in Worker : pc'[u] # "idle" =>
          u # w /\ pc'[u] = pc[u] /\ call'[u] = call[u]
    BY <1>1 DEF Inv, Shape
<1>3. CallsAreCalls'
    BY <1>2 DEF IdInv, CallsAreCalls
<1>4. \A r \in Row : /\ committed'[r] \in {committed[r], current[r]}
                     /\ current'[r] \in {committed[r], current[r]}
    BY DEF CommitTrx, RollbackTrx, Inv, Shape
<1> QED BY <1>1, <1>2, <1>3, <1>4, HeadRowsDiffer, SameHeads

LEMMA LockTimeoutIds ==
    ASSUME Inv, IdInv, NEW w \in Worker, LockTimeout(w)
    PROVE  IdInv'
<1>1. /\ UNCHANGED <<committed, current, drawn, call>> /\ pc[w] # "idle"
      /\ \E l \in {"commit", "fail"} : Goto(w, l)
    BY OrderOfWrites DEF LockTimeout, Fail, engine
<1> QED BY <1>1, GoesOn, SameHeads

\* The ids of before a restart are not drawn again, unless the seed is.
LEMMA RestartIds ==
    ASSUME "repeated" \notin Seeds, IdInv, Restart
    PROVE  IdInv'
<1>1. /\ current' = committed /\ UNCHANGED <<committed, drawn>>
      /\ \A w \in Worker : pc'[w] = "idle"
    BY DEF Restart, RecoverTrx
<1> QED BY <1>1, SameHeads DEF CallsAreCalls
LEMMA IdNext == "repeated" \notin Seeds /\ Inv /\ IdInv /\ [Next]_vars => IdInv'
<1> SUFFICES ASSUME "repeated" \notin Seeds, Inv, IdInv, [Next]_vars PROVE IdInv'
    OBVIOUS
<1>1. CASE UNCHANGED vars
    BY <1>1, SameHeads DEF vars, IdInv, CallsAreCalls
<1>2. ASSUME NEW w \in Worker, Step(w) PROVE IdInv'
    <2>1. CASE Commit(w) \/ Rollback(w)
        BY <2>1, EndOfTrxIds DEF Commit, Rollback
    <2> QED BY <1>2, <2>1, InsertHeadIds, WriteDataIds, WriteHeadIds, LockTimeoutIds
            DEF Step
<1> QED BY <1>1, <1>2, TakeIds, RestartIds DEF Next

\* Two sorted sets never share an id, if rand() does not repeat its ids
\* after a restart, even where commands on one key conflict.
THEOREM IdsStayUnique == "repeated" \notin Seeds => (Spec => []IdsAreUnique)
<1> SUFFICES ASSUME "repeated" \notin Seeds PROVE Spec => []IdsAreUnique
    OBVIOUS
<1>1. Init => Inv /\ IdInv
    BY InitInv, IdInit
<1>2. (Inv /\ IdInv) /\ [Next]_vars => (Inv /\ IdInv)'
    BY NextInv, IdNext
<1>3. IdInv => IdsAreUnique
    BY DEF IdInv, OneClaimEach, Claims, IdsAreUnique, Exists
<1> QED BY <1>1, <1>2, <1>3, PTL DEF Spec
=============================================================================
