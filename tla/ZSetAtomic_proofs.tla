--------------------------- MODULE ZSetAtomic_proofs ---------------------------
(***************************************************************************)
(* What ZADD, ZREM, ZCARD, ZSCORE and ZCOUNT do together.  The two tables  *)
(* of a sorted set are written row by row, from a snapshot that no lock    *)
(* protects, so what they promise needs one connection to write each key   *)
(* (OneWriter) and head ids that no other key claims (IdsDiffer).  Then    *)
(* the snapshot a command decided on is still committed when it writes     *)
(* (IsUpToDate), which makes the row counts true and the tables implement  *)
(* AtomicZSet.  Scores are read back from zero-padded digits: what that    *)
(* does to their order and value is proved from the texts of Numerals.     *)
(***************************************************************************)
EXTENDS ZSetTable_proofs, Numerals_proofs

OneWriter == \A k \in Key : \A u, w \in Writers[k] : u = w

\* Ids that restarts repeat matter to a second key only.
IdsDiffer == "repeated" \notin Seeds \/ \A j, k \in Key : j = k

\* The id that is drawn for a key is no other key's.
NewIdsAreNew ==
    \A w \in Worker : pc[w] = "newhead" =>
        /\ \A k \in Key : Claims(k, call[w].id) => k = call[w].key
        /\ \A u \in Worker : pc[u] = "newhead" /\ call[u].id = call[w].id
                                => call[u].key = call[w].key

IdsApart == OneClaimEach /\ NewIdsAreNew

\* The rows of a command.
OwnHead(c) == HeadRow(c.key)
OwnData(c) == DataRow(c.id, c.val)

\* What it leaves in them.
NewHead(c) == IF NewCount(c) = 0 THEN NoRow ELSE [id |-> c.id, count |-> NewCount(c)]
NewData(c) == IF c.op = "zadd" THEN c.score ELSE NoRow

\* The snapshot a command decided on is still what is committed.
IsUpToDate(w) ==
    LET c == call[w]
    IN  /\ w \in Writers[c.key]
        /\ committed[OwnHead(c)] = IF c.count = 0 THEN NoRow
                                   ELSE [id |-> c.id, count |-> c.count]
        /\ committed[OwnData(c)] = NoRow <=> c.op = "zadd"
        /\ pc[w] = "newhead" => view[w][OwnData(c)] = NoRow

\* Where it stands in its two writes, none of which has failed.
HasWritten(w) ==
    LET c == call[w]
    IN  /\ pc[w] \notin {"rollback", "fail"}
        /\ lock[OwnData(c)] = w <=> pc[w] \in {"head", "commit"}
        /\ lock[OwnHead(c)] = w <=> pc[w] = "commit" \/ (pc[w] = "data" /\ c.count = 0)
        /\ lock[OwnData(c)] = w => current[OwnData(c)] = NewData(c)
        /\ lock[OwnHead(c)] = w => current[OwnHead(c)] = NewHead(c)

InCommand(w) == pc[w] # "idle" => IsUpToDate(w) /\ HasWritten(w)

AtomicInv ==
    /\ \A w \in Worker : InCommand(w)
    /\ \A k \in Key : IsFiniteSet(Members(k))
    /\ CardinalityIsTrue
    /\ NoOrphans

\* All that is known of a state.
AllInv == Inv /\ CallInv /\ IdsApart /\ AtomicInv

-----------------------------------------------------------------------------
LEMMA IdsStayApart == IdsDiffer => (Spec => []IdsApart)
<1> SUFFICES ASSUME IdsDiffer PROVE Spec => []IdsApart
    OBVIOUS
<1>1. CASE "repeated" \notin Seeds
    <2>1. Init => Inv /\ IdInv
        BY InitInv, IdInit
    <2>2. (Inv /\ IdInv) /\ [Next]_vars => (Inv /\ IdInv)'
        BY <1>1, NextInv, IdNext
    <2>3. IdInv => IdsApart
        BY DEF IdInv, DrawnForOne, IdsApart, NewIdsAreNew
    <2> QED BY <2>1, <2>2, <2>3, PTL DEF Spec
<1>2. CASE \A j, k \in Key : j = k
    <2>1. Inv /\ CallInv => IdsApart
        <3>1. Inv /\ CallInv => \A w \in Worker : pc[w] = "newhead" => call[w].key \in Key
            BY DEF CallInv, CallFits, IsCall, Calls
        <3> QED BY <1>2, <3>1 DEF IdsApart, NewIdsAreNew, OneClaimEach
    <2> QED BY <2>1, CallInvHolds, PTL
<1> QED BY <1>1, <1>2 DEF IdsDiffer

-----------------------------------------------------------------------------
\* Two commands in progress are on different sorted sets, so they never want
\* the same row.
LEMMA CommandsDiffer ==
    ASSUME OneWriter, AllInv, NEW u \in Worker, NEW w \in Worker, u # w,
           pc[u] # "idle", pc[w] # "idle"
    PROVE  call[u].key # call[w].key /\ call[u].id # call[w].id
<1>1. /\ call[u].key \in Key /\ call[w].key \in Key
      /\ u \in Writers[call[u].key] /\ w \in Writers[call[w].key]
    BY DEF AllInv, AtomicInv, InCommand, IsUpToDate, CallInv, CallFits, IsCall, Calls
<1>2. call[u].key # call[w].key
    BY <1>1 DEF OneWriter
<1>3. ASSUME NEW x \in Worker, pc[x] # "idle"
      PROVE  pc[x] = "newhead" \/ Claims(call[x].key, call[x].id)
    <2>1. IsCall(call[x]) /\ IsUpToDate(x) /\ HasWritten(x)
        BY <1>3 DEF AllInv, CallInv, CallFits, AtomicInv, InCommand
    <2>2. CASE call[x].count # 0
        <3>1. committed[HeadRow(call[x].key)] = [id |-> call[x].id, count |-> call[x].count]
            BY <2>1, <2>2 DEF IsUpToDate, OwnHead
        <3>2. [id |-> call[x].id, count |-> call[x].count] \in Heads
            BY <2>1, <2>2 DEF IsCall, Calls, Heads
        <3> QED BY <3>1, <3>2, NoRowAssumption DEF Claims
    <2>3. CASE call[x].count = 0 /\ pc[x] # "newhead"
        <3>1. current[HeadRow(call[x].key)] = [id |-> call[x].id, count |-> 1]
            <4>1. pc[x] = "commit" \/ pc[x] = "data"
                BY <1>3, <2>1, <2>3 DEF AllInv, Inv, Shape, CallInv, CallFits, HasWritten
            <4>2. call[x].op = "zadd"
                BY <2>1, <2>3 DEF IsCall, Calls
            <4>3. NewHead(call[x]) = [id |-> call[x].id, count |-> 1]
                BY <2>3, <4>2 DEF NewHead, NewCount
            <4> QED BY <2>1, <2>3, <4>1, <4>3 DEF HasWritten, OwnHead
        <3>2. [id |-> call[x].id, count |-> 1] \in Heads
            BY <2>1, MaxCountAssumption DEF IsCall, Calls, Heads
        <3> QED BY <3>1, <3>2, NoRowAssumption DEF Claims
    <2> QED BY <2>2, <2>3
<1>4. call[u].id # call[w].id
    BY <1>1, <1>2, <1>3 DEF AllInv, IdsApart, OneClaimEach, NewIdsAreNew
<1> QED BY <1>2, <1>4

\* Nobody else has a row of a command, or a row with its id.
LEMMA RowsAreNotContended ==
    ASSUME OneWriter, AllInv, NEW w \in Worker, pc[w] # "idle"
    PROVE  /\ lock[OwnHead(call[w])] \in {Free, w}
           /\ lock[OwnData(call[w])] \in {Free, w}
           /\ OwnHead(call[w]) \in Row /\ OwnData(call[w]) \in Row
           /\ OwnHead(call[w]) \notin DataRows /\ OwnData(call[w]) \in DataRows
<1>1. IsCall(call[w])
    BY DEF AllInv, CallInv, CallFits
<1>2. /\ call[w].key \in Key /\ call[w].id \in Id /\ call[w].val \in Val
    BY <1>1 DEF IsCall, Calls
<1>3. /\ OwnHead(call[w]) \in Row /\ OwnData(call[w]) \in Row
      /\ OwnHead(call[w]) \notin DataRows /\ OwnData(call[w]) \in DataRows
    BY <1>2, RowsAreRows DEF OwnHead, OwnData
<1>4. ASSUME NEW u \in Worker, u # w, lock[OwnHead(call[w])] = u PROVE FALSE
    BY <1>2, <1>4, CommandsDiffer, RowsAreRows DEF OwnHead, AllInv, Inv, CallInv, OwnsItsRows
<1>5. ASSUME NEW u \in Worker, u # w, lock[OwnData(call[w])] = u PROVE FALSE
    BY <1>2, <1>5, CommandsDiffer, RowsAreRows DEF OwnData, AllInv, CallInv, OwnsItsRows
<1>6. \A r \in Row : lock[r] \in Worker \cup {Free}
    BY DEF AllInv, Inv, Shape
<1> QED BY <1>3, <1>4, <1>5, <1>6

-----------------------------------------------------------------------------
\* What the sorted sets are does not change with a transaction that is open.
WellFormed ==
    /\ \A k \in Key : IsFiniteSet(Members(k))
    /\ CardinalityIsTrue
    /\ NoOrphans

LEMMA SameRowsWellFormed ==
    ASSUME WellFormed, UNCHANGED committed
    PROVE  WellFormed'
BY DEF WellFormed, CardinalityIsTrue, NoOrphans, Members, Found, Exists

\* A command is not disturbed by a step of another.
LEMMA OthersStayInCommand ==
    ASSUME NEW u \in Worker, InCommand(u), UNCHANGED <<pc[u], call[u], view[u]>>,
           pc[u] # "idle" =>
               \A r \in {OwnHead(call[u]), OwnData(call[u])} :
                   /\ lock'[r] = u <=> lock[r] = u
                   /\ lock[r] = u => current'[r] = current[r]
                   /\ committed'[r] = committed[r]
    PROVE  InCommand(u)'
<1> SUFFICES ASSUME pc[u] # "idle" PROVE IsUpToDate(u)' /\ HasWritten(u)'
    BY DEF InCommand
<1> DEFINE h == OwnHead(call[u])
           d == OwnData(call[u])
<1>1. /\ OwnHead(call'[u]) = h /\ OwnData(call'[u]) = d
      /\ pc'[u] = pc[u] /\ call'[u] = call[u] /\ view'[u] = view[u]
    OBVIOUS
<1>2. \A r \in {h, d} : /\ lock'[r] = u <=> lock[r] = u
                        /\ lock[r] = u => current'[r] = current[r]
                        /\ committed'[r] = committed[r]
    OBVIOUS
<1>3. IsUpToDate(u)'
    BY <1>1, <1>2 DEF InCommand, IsUpToDate
<1>4. HasWritten(u)'
    BY <1>1, <1>2 DEF InCommand, HasWritten
<1> QED BY <1>3, <1>4

LEMMA BeginAtomic ==
    ASSUME OneWriter, AllInv, NEW w \in Worker, pc[w] = "idle", NEW c, IsCall(c),
           GetCursor(w, c), w \in Writers[c.key],
           committed[OwnHead(c)] = IF c.count = 0 THEN NoRow
                                   ELSE [id |-> c.id, count |-> c.count],
           committed[OwnData(c)] = NoRow <=> c.op = "zadd"
    PROVE  AtomicInv'
<1>1. /\ UNCHANGED <<committed, current, lock>>
      /\ view' = [view EXCEPT ![w] = committed]
      /\ pc' = [pc EXCEPT ![w] = Order(c)[1]] /\ call' = [call EXCEPT ![w] = c]
    BY DEF GetCursor, BeginTrx, Goto
<1>2. /\ pc'[w] = Order(c)[1] /\ call'[w] = c /\ view'[w] = committed
      /\ \A u \in Worker \ {w} : UNCHANGED <<pc[u], call[u], view[u]>>
    BY <1>1 DEF AllInv, Inv, Shape
<1>3. \/ Order(c)[1] = "newhead"
      \/ Order(c)[1] = "data" /\ c.count # 0
    BY DEF Order
<1>4. lock[OwnHead(c)] # w /\ lock[OwnData(c)] # w
    <2>1. OwnHead(c) \in Row /\ OwnData(c) \in Row
        BY RowsAreRows DEF IsCall, Calls, OwnHead, OwnData
    <2> QED BY <2>1 DEF AllInv, Inv, IdleOwnsNothing
<1>5. c.op = "zrem" => Order(c)[1] = "data"
    BY DEF IsCall, Order
<1>6. c.op \in {"zadd", "zrem"}
    BY DEF IsCall, Calls
<1>7. IsUpToDate(w)'
    BY <1>1, <1>2, <1>3, <1>5, <1>6 DEF IsUpToDate, OwnHead, OwnData
<1>8. HasWritten(w)'
    BY <1>1, <1>2, <1>3, <1>4 DEF HasWritten, OwnHead, OwnData
<1>9. \A u \in Worker \ {w} : InCommand(u)'
    BY <1>1, <1>2, OthersStayInCommand DEF AllInv, AtomicInv
<1>10. WellFormed'
    BY <1>1, SameRowsWellFormed DEF WellFormed, AllInv, AtomicInv
<1> QED BY <1>7, <1>8, <1>9, <1>10 DEF InCommand, AtomicInv, WellFormed

\* The snapshot of a command is up to date when it begins.
LEMMA TakeAtomic ==
    ASSUME OneWriter, IdsApart', AllInv, NEW w \in Worker, Take(w)
    PROVE  AtomicInv'
<1>1. ASSUME NEW q, NEW x, ReadOnly(w, q, x) PROVE AtomicInv'
    <2>1. UNCHANGED <<committed, current, lock, view, pc, call>>
        BY <1>1 DEF ReadOnly, engine
    <2>2. \A u \in Worker : InCommand(u)'
        BY <2>1, OthersStayInCommand DEF AllInv, AtomicInv
    <2>3. WellFormed'
        BY <2>1, SameRowsWellFormed DEF WellFormed, AllInv, AtomicInv
    <2> QED BY <2>2, <2>3 DEF AtomicInv, WellFormed
<1>2. ASSUME NEW k \in Key, Exists(k)
      PROVE  committed[HeadRow(k)] \in Heads
    BY <1>2 DEF Exists, AllInv, CallInv, TableTyped
<1>3. ASSUME NEW k \in Key, NEW v \in Val, NEW s \in Score, ZAdd(w, k, v, s),
             w \in Writers[k]
      PROVE  AtomicInv'
    <2>1. pc[w] = "idle"
        BY <1>3 DEF ZAdd
    <2>2. CASE /\ Exists(k) /\ ~Found(k, v) /\ committed[HeadRow(k)].count < MaxCount
               /\ GetCursor(w, Call("zadd", k, v, s))
        <3> DEFINE c == Call("zadd", k, v, s)
        <3>1. /\ c.key = k /\ c.val = v /\ c.op = "zadd"
              /\ c.id = committed[HeadRow(k)].id /\ c.count = committed[HeadRow(k)].count
            BY DEF Call
        <3>2. IsCall(c)
            BY <2>2, <1>2, MaxCountAssumption DEF Call, IsCall, Calls, Heads
        <3>3. committed[OwnHead(c)] = [id |-> c.id, count |-> c.count] /\ c.count # 0
            BY <2>2, <1>2, <3>1, MaxCountAssumption DEF OwnHead, Heads
        <3>4. committed[OwnData(c)] = NoRow
            BY <2>2, <3>1 DEF OwnData, Found
        <3> HIDE DEF c
        <3> QED BY <1>3, <2>1, <2>2, <3>1, <3>2, <3>3, <3>4, BeginAtomic DEF c
    <2>3. ASSUME NEW i \in Id \ drawn, ~Exists(k),
                 GetCursor(w, [op |-> "zadd", key |-> k, val |-> v, score |-> s,
                               id |-> i, count |-> 0])
          PROVE  AtomicInv'
        <3> DEFINE c == [op |-> "zadd", key |-> k, val |-> v, score |-> s,
                         id |-> i, count |-> 0]
        <3>1. IsCall(c)
            BY MaxCountAssumption DEF IsCall, Calls
        <3>2. committed[OwnHead(c)] = NoRow
            BY <2>3 DEF OwnHead, Exists
        <3>3. committed[OwnData(c)] = NoRow
            <4>1. pc'[w] = "newhead" /\ call'[w] = c /\ UNCHANGED <<committed, current>>
                BY <2>3 DEF GetCursor, BeginTrx, Goto, Order, AllInv, Inv, Shape
            <4>2. \A j \in Key : Claims(j, i) => j = k
                BY <4>1 DEF IdsApart, NewIdsAreNew, Claims
            <4>3. ASSUME NEW j \in Key, Exists(j), committed[HeadRow(j)].id = i PROVE FALSE
                BY <4>2, <4>3, <2>3 DEF Claims, Exists
            <4> QED BY <4>3 DEF AllInv, AtomicInv, NoOrphans, OwnData
        <3> QED BY <1>3, <2>1, <2>3, <3>1, <3>2, <3>3, BeginAtomic
    <2> QED BY <1>3, <2>2, <2>3 DEF ZAdd
<1>4. ASSUME NEW k \in Key, NEW v \in Val, ZRem(w, k, v), w \in Writers[k]
      PROVE  AtomicInv'
    <2> DEFINE c == Call("zrem", k, v, 0)
    <2>1. /\ c.key = k /\ c.val = v /\ c.op = "zrem"
          /\ c.id = committed[HeadRow(k)].id /\ c.count = committed[HeadRow(k)].count
        BY DEF Call
    <2>2. pc[w] = "idle" /\ Exists(k) /\ Found(k, v) /\ GetCursor(w, c)
        BY <1>4 DEF ZRem, Found
    <2>3. IsCall(c)
        BY <2>2, <1>2, MaxCountAssumption DEF Call, IsCall, Calls, Heads
    <2>4. committed[OwnHead(c)] = [id |-> c.id, count |-> c.count] /\ c.count # 0
        BY <2>2, <1>2, <2>1, MaxCountAssumption DEF OwnHead, Heads
    <2>5. committed[OwnData(c)] # NoRow
        BY <2>1, <2>2 DEF OwnData, Found
    <2> HIDE DEF c
    <2> QED BY <1>4, <2>1, <2>2, <2>3, <2>4, <2>5, BeginAtomic
<1>5. ASSUME NEW k, NEW v, NEW s,
             \/ ZAddKnown(w, k, v, s) \/ ZRemUnknown(w, k, v)
             \/ ZScore(w, k, v) \/ ZCard(w, k) \/ ZCount(w, k, v, s)
      PROVE  \E q, x : ReadOnly(w, q, x)
    BY <1>5, Zenon DEF ZAddKnown, ZRemUnknown, ZScore, ZCard, ZCount
<1> QED BY <1>1, <1>3, <1>4, <1>5 DEF Take

-----------------------------------------------------------------------------
\* A write of a command changes neither what is committed nor what another
\* command relies on.
LEMMA WriteAtomic ==
    ASSUME OneWriter, AllInv, NEW w \in Worker, pc[w] # "idle",
           NEW r \in {OwnHead(call[w]), OwnData(call[w])}, NEW x, WriteRow(w, r, x),
           NEW l, Goto(w, l), UNCHANGED call, InCommand(w)'
    PROVE  AtomicInv'
<1>1. r \in Row /\ lock[r] \in {Free, w}
    BY RowsAreNotContended
<1>2. /\ UNCHANGED <<committed, view, call>>
      /\ \A q \in Row \ {r} : current'[q] = current[q] /\ lock'[q] = lock[q]
      /\ lock'[r] = w
    BY <1>1 DEF WriteRow, AllInv, Inv, Shape
<1>3. \A u \in Worker \ {w} : pc'[u] = pc[u]
    BY DEF Goto, AllInv, Inv, Shape
<1>4. ASSUME NEW u \in Worker, u # w PROVE InCommand(u)'
    <2>1. CASE pc[u] = "idle"
        BY <1>3, <1>4, <2>1 DEF InCommand
    <2>2. CASE pc[u] # "idle"
        <3>1. \A q \in {OwnHead(call[u]), OwnData(call[u])} : q \in Row /\ q # r
            <4>1. call[u].key # call[w].key /\ call[u].id # call[w].id
                BY <1>4, <2>2, CommandsDiffer
            <4>2. \A y \in {u, w} : /\ call[y].key \in Key /\ call[y].id \in Id
                                    /\ call[y].val \in Val
                BY <2>2 DEF AllInv, CallInv, CallFits, IsCall, Calls
            <4> QED BY <4>1, <4>2, RowsAreRows DEF OwnHead, OwnData
        <3> QED BY <1>1, <1>2, <1>3, <1>4, <3>1, FreeAssumption, OthersStayInCommand
                DEF AllInv, AtomicInv
    <2> QED BY <2>1, <2>2
<1>5. WellFormed'
    BY <1>2, SameRowsWellFormed DEF WellFormed, AllInv, AtomicInv
<1> QED BY <1>4, <1>5 DEF AtomicInv, WellFormed

\* The rows of a command differ, and its rows are what it read, or wrote.
LEMMA OwnRows ==
    ASSUME OneWriter, AllInv, NEW w \in Worker, pc[w] # "idle"
    PROVE  /\ IsCall(call[w]) /\ IsUpToDate(w) /\ HasWritten(w)
           /\ OwnHead(call[w]) # OwnData(call[w])
           /\ \A r \in {OwnHead(call[w]), OwnData(call[w])} :
                  lock[r] # w => current[r] = committed[r]
<1>1. IsCall(call[w]) /\ IsUpToDate(w) /\ HasWritten(w)
    BY DEF AllInv, CallInv, CallFits, AtomicInv, InCommand
<1> QED BY <1>1, RowsAreNotContended DEF AllInv, Inv

LEMMA InsertHeadAtomic ==
    ASSUME OneWriter, AllInv, NEW w \in Worker, InsertHead(w)
    PROVE  AtomicInv'
<1> DEFINE c == call[w]
           h == OwnHead(c)
           d == OwnData(c)
           x == [id |-> c.id, count |-> 1]
<1>1. pc[w] = "newhead" /\ UNCHANGED call /\ WriteRow(w, h, x)
    BY DEF InsertHead, OwnHead
<1>2. /\ IsCall(c) /\ IsUpToDate(w) /\ HasWritten(w) /\ h # d /\ c.count = 0
      /\ h \in Row /\ d \in Row
    BY <1>1, OwnRows, RowsAreNotContended DEF AllInv, CallInv, CallFits
<1>3. Goto(w, "data")
    <2>1. view[w][DataRow(c.id, c.val)] = NoRow
        BY <1>1, <1>2 DEF IsUpToDate, OwnData
    <2>2. Continue(w)
        BY <2>1 DEF InsertHead
    <2> QED BY <1>1, <2>2, OrderOfWrites
<1>4. pc'[w] = "data" /\ call'[w] = c
    BY <1>1, <1>3 DEF Goto, AllInv, Inv, Shape
<1>5. x = NewHead(c)
    BY <1>2 DEF NewHead, NewCount, IsCall, Calls
<1> HIDE DEF x
<1>6. /\ UNCHANGED <<committed, view>> /\ lock'[h] = w /\ lock'[d] = lock[d]
      /\ current'[h] = x
    BY <1>1, <1>2 DEF WriteRow, AllInv, Inv, Shape
<1>7. InCommand(w)'
    <2>1. OwnHead(call'[w]) = h /\ OwnData(call'[w]) = d /\ lock[d] # w
        BY <1>1, <1>2, <1>4 DEF HasWritten
    <2>2. IsUpToDate(w)'
        BY <1>2, <1>4, <1>6, <2>1 DEF IsUpToDate
    <2>3. HasWritten(w)'
        BY <1>2, <1>4, <1>5, <1>6, <2>1 DEF HasWritten
    <2> QED BY <2>2, <2>3 DEF InCommand
<1> QED BY <1>1, <1>3, <1>7, WriteAtomic

LEMMA WriteDataAtomic ==
    ASSUME OneWriter, AllInv, NEW w \in Worker, WriteData(w)
    PROVE  AtomicInv' /\ ~Fail(w)
<1> DEFINE c == call[w]
           h == OwnHead(c)
           d == OwnData(c)
<1>1. pc[w] = "data" /\ UNCHANGED call /\ NextRow(w) = d
    BY DEF WriteData, NextRow, OwnData
<1>2. /\ IsCall(c) /\ IsUpToDate(w) /\ HasWritten(w) /\ h # d
      /\ h \in Row /\ d \in Row /\ lock[d] # w /\ current[d] = committed[d]
    BY <1>1, OwnRows, RowsAreNotContended DEF HasWritten
<1>3. c.op \in {"zadd", "zrem"} /\ (current[d] = NoRow <=> c.op = "zadd")
    BY <1>2 DEF IsCall, Calls, IsUpToDate
<1>4. WriteRow(w, d, NewData(c)) /\ Continue(w)
    BY <1>1, <1>3 DEF WriteData, NewData
<1>5. PICK l \in {"head", "commit"} : Goto(w, l) /\ (l = "head" <=> c.count # 0)
    BY <1>1, <1>4 DEF Continue, Order
<1>6. pc'[w] = l /\ call'[w] = c
    BY <1>1, <1>5 DEF Goto, AllInv, Inv, Shape
<1>7. /\ UNCHANGED <<committed, view>> /\ lock'[d] = w /\ lock'[h] = lock[h]
      /\ current'[d] = NewData(c) /\ current'[h] = current[h]
    BY <1>2, <1>4 DEF WriteRow, AllInv, Inv, Shape
<1>8. InCommand(w)'
    <2>1. OwnHead(call'[w]) = h /\ OwnData(call'[w]) = d
        BY <1>6
    <2>2. IsUpToDate(w)'
        BY <1>2, <1>6, <1>7, <2>1 DEF IsUpToDate
    <2>3. HasWritten(w)'
        BY <1>1, <1>2, <1>5, <1>6, <1>7, <2>1 DEF HasWritten
    <2> QED BY <2>2, <2>3 DEF InCommand
<1>9. AtomicInv'
    BY <1>1, <1>4, <1>5, <1>8, WriteAtomic
<1>10. l # "fail"
    OBVIOUS
<1> QED BY <1>1, <1>5, <1>6, <1>9, <1>10 DEF Fail, Goto, AllInv, Inv, Shape

LEMMA WriteHeadAtomic ==
    ASSUME OneWriter, AllInv, NEW w \in Worker, WriteHead(w)
    PROVE  AtomicInv'
<1> DEFINE c == call[w]
           h == OwnHead(c)
           d == OwnData(c)
           n == NewCount(c)
<1>1. /\ pc[w] = "head" /\ UNCHANGED call /\ NextRow(w) = h /\ Continue(w)
    BY DEF WriteHead, NextRow, OwnHead
<1>2. /\ IsCall(c) /\ IsUpToDate(w) /\ HasWritten(w) /\ h # d /\ c.count # 0
      /\ h \in Row /\ d \in Row /\ lock[h] # w /\ lock[d] = w /\ current[h] = committed[h]
    BY <1>1, OwnRows, RowsAreNotContended DEF HasWritten, AllInv, CallInv, CallFits
<1>3. current[h] = [id |-> c.id, count |-> c.count]
    BY <1>2 DEF IsUpToDate
<1>4. current[h] # NoRow
    <2>1. [id |-> c.id, count |-> c.count] \in Heads
        BY <1>2 DEF IsCall, Calls, Heads
    <2> QED BY <1>3, <2>1, NoRowAssumption
<1>5. WriteRow(w, h, NewHead(c))
    <2>1. WriteRow(w, h, IF n = 0 THEN NoRow ELSE [current[h] EXCEPT !.count = n])
        BY <1>1, <1>4 DEF WriteHead
    <2>2. [current[h] EXCEPT !.count = n] = [id |-> c.id, count |-> n]
        BY <1>3
    <2> QED BY <2>1, <2>2 DEF NewHead
<1>6. Goto(w, "commit")
    BY <1>1, OrderOfWrites
<1>7. pc'[w] = "commit" /\ call'[w] = c
    BY <1>1, <1>6 DEF Goto, AllInv, Inv, Shape
<1>8. /\ UNCHANGED <<committed, view>> /\ lock'[h] = w /\ lock'[d] = lock[d]
      /\ current'[h] = NewHead(c) /\ current'[d] = current[d]
    BY <1>2, <1>5 DEF WriteRow, AllInv, Inv, Shape
<1>9. InCommand(w)'
    <2>1. OwnHead(call'[w]) = h /\ OwnData(call'[w]) = d
        BY <1>7
    <2>2. IsUpToDate(w)'
        BY <1>2, <1>7, <1>8, <2>1 DEF IsUpToDate
    <2>3. HasWritten(w)'
        BY <1>2, <1>7, <1>8, <2>1 DEF HasWritten
    <2> QED BY <2>2, <2>3 DEF InCommand
<1> QED BY <1>1, <1>5, <1>6, <1>9, WriteAtomic

\* No command waits for a row, none is rolled back, and a command that is
\* about to commit has written what it should.
LEMMA NoFailure ==
    ASSUME OneWriter, AllInv, NEW w \in Worker
    PROVE  ~LockTimeout(w) /\ ~Rollback(w)
<1>1. ASSUME NEW u \in Worker \ {w}, WaitsFor(w, u) PROVE FALSE
    BY <1>1, RowsAreNotContended, FreeAssumption DEF WaitsFor, NextRow, OwnHead, OwnData
<1>2. ASSUME Rollback(w) PROVE FALSE
    BY <1>2 DEF Rollback, AllInv, AtomicInv, InCommand, HasWritten
<1> QED BY <1>1, <1>2 DEF LockTimeout

-----------------------------------------------------------------------------
\* A commit publishes the two rows of the command, and nothing else.
LEMMA CommitRows ==
    ASSUME OneWriter, AllInv, NEW w \in Worker, Commit(w)
    PROVE  LET c == call[w]
           IN  /\ pc[w] = "commit" /\ IsCall(c) /\ IsUpToDate(w)
               /\ current[OwnHead(c)] = NewHead(c)
               /\ committed'[OwnHead(c)] = NewHead(c)
               /\ committed'[OwnData(c)] = NewData(c)
               /\ \A k \in Key \ {c.key} :
                      committed'[HeadRow(k)] = committed[HeadRow(k)]
               /\ \A i \in Id, v \in Val : i # c.id \/ v # c.val =>
                      committed'[DataRow(i, v)] = committed[DataRow(i, v)]
<1> DEFINE c == call[w]
<1>1. /\ pc[w] = "commit"
      /\ committed' = [r \in Row |-> IF lock[r] = w THEN current[r] ELSE committed[r]]
    BY DEF Commit, CommitTrx
<1>2. /\ IsCall(c) /\ IsUpToDate(w) /\ HasWritten(w)
      /\ OwnHead(c) \in Row /\ OwnData(c) \in Row
    BY <1>1, OwnRows, RowsAreNotContended
<1>3. /\ lock[OwnHead(c)] = w /\ lock[OwnData(c)] = w
      /\ current[OwnHead(c)] = NewHead(c) /\ current[OwnData(c)] = NewData(c)
    BY <1>1, <1>2 DEF HasWritten
<1>4. /\ \A k \in Key : lock[HeadRow(k)] = w => k = c.key
      /\ \A i \in Id, v \in Val : lock[DataRow(i, v)] = w => i = c.id /\ v = c.val
    BY DEF AllInv, CallInv, OwnsItsRows
<1>5. /\ \A k \in Key \ {c.key} : committed'[HeadRow(k)] = committed[HeadRow(k)]
      /\ \A i \in Id, v \in Val : i # c.id \/ v # c.val =>
             committed'[DataRow(i, v)] = committed[DataRow(i, v)]
    BY <1>1, <1>4, RowsAreRows
<1>6. /\ committed'[OwnHead(c)] = NewHead(c)
      /\ committed'[OwnData(c)] = NewData(c)
    BY <1>1, <1>2, <1>3
<1> QED BY <1>1, <1>2, <1>3, <1>5, <1>6

\* The id of a command that commits is its key's.
LEMMA CommitId ==
    ASSUME OneWriter, AllInv, NEW w \in Worker, Commit(w)
    PROVE  /\ \A k \in Key : Exists(k) /\ committed[HeadRow(k)].id = call[w].id
                              <=> k = call[w].key /\ call[w].count # 0
           /\ call[w].count = 0 =>
                  \A v \in Val : committed[DataRow(call[w].id, v)] = NoRow
<1> DEFINE c == call[w]
<1>1. /\ IsCall(c) /\ IsUpToDate(w) /\ current[OwnHead(c)] = NewHead(c)
      /\ c.key \in Key /\ c.id \in Id /\ c.op \in {"zadd", "zrem"}
    BY CommitRows DEF IsCall, Calls
<1>2. c.count # 0 => /\ committed[OwnHead(c)] = [id |-> c.id, count |-> c.count]
                     /\ [id |-> c.id, count |-> c.count] \in Heads
    BY <1>1 DEF IsUpToDate, IsCall, Calls, Heads
<1>3. c.op = "zadd" => /\ NewHead(c) = [id |-> c.id, count |-> c.count + 1]
                       /\ [id |-> c.id, count |-> c.count + 1] \in Heads
    BY <1>1, MaxCountAssumption DEF IsCall, Calls, Heads, NewHead, NewCount
<1>4. Claims(c.key, c.id)
    <2>1. CASE c.count # 0
        BY <1>2, <2>1, NoRowAssumption DEF OwnHead, Claims
    <2>2. CASE c.count = 0
        <3>1. c.op = "zadd"
            BY <1>1, <2>2 DEF IsCall
        <3>2. current[HeadRow(c.key)] = [id |-> c.id, count |-> c.count + 1]
            BY <1>1, <1>3, <3>1 DEF OwnHead
        <3>3. current[HeadRow(c.key)] # NoRow
            BY <1>3, <3>1, <3>2, NoRowAssumption
        <3> QED BY <3>2, <3>3 DEF Claims
    <2> QED BY <2>1, <2>2
<1>5. \A k \in Key : Exists(k) /\ committed[HeadRow(k)].id = c.id => k = c.key
    BY <1>1, <1>4 DEF AllInv, IdsApart, OneClaimEach, Claims, Exists
<1>6. Exists(c.key) <=> c.count # 0
    BY <1>1, <1>2, NoRowAssumption DEF Exists, IsUpToDate, OwnHead
<1>7. c.count # 0 => committed[HeadRow(c.key)].id = c.id
    BY <1>2 DEF OwnHead
<1>8. \A k \in Key : Exists(k) /\ committed[HeadRow(k)].id = c.id
                         <=> k = c.key /\ c.count # 0
    BY <1>1, <1>5, <1>6, <1>7
<1>9. c.count = 0 => \A v \in Val : committed[DataRow(c.id, v)] = NoRow
    BY <1>1, <1>8 DEF AllInv, AtomicInv, NoOrphans
<1> QED BY <1>8, <1>9

\* The abstract effect of a command.
LEMMA CommitMembers ==
    ASSUME OneWriter, AllInv, NEW w \in Worker, Commit(w)
    PROVE  LET c == call[w]
               after == IF c.op = "zadd" THEN Members(c.key) \cup {c.val}
                                         ELSE Members(c.key) \ {c.val}
           IN  /\ \A k \in Key : Members(k)' = IF k = c.key THEN after ELSE Members(k)
               /\ c.val \in Members(c.key) <=> c.op = "zrem"
               /\ Cardinality(after) = NewCount(c) /\ IsFiniteSet(after)
               /\ after = {v \in Val : committed'[DataRow(c.id, v)] # NoRow}
<1> DEFINE c == call[w]
           after == IF c.op = "zadd" THEN Members(c.key) \cup {c.val}
                                     ELSE Members(c.key) \ {c.val}
<1>1. /\ IsCall(c) /\ IsUpToDate(w)
      /\ c.key \in Key /\ c.id \in Id /\ c.val \in Val /\ c.op \in {"zadd", "zrem"}
      /\ c.count \in 0 .. MaxCount /\ (c.op = "zrem" => c.count # 0)
      /\ c.op = "zadd" => c.score \in Score
    BY CommitRows DEF IsCall, Calls
<1>2. Members(c.key) = {v \in Val : committed[DataRow(c.id, v)] # NoRow}
    <2>1. CASE c.count = 0
        BY <1>1, <2>1, CommitId DEF Members, Found, Exists, IsUpToDate, OwnHead
    <2>2. CASE c.count # 0
        BY <1>1, <2>2, CommitId DEF Members, Found
    <2> QED BY <2>1, <2>2
<1>3. c.val \in Members(c.key) <=> c.op = "zrem"
    BY <1>1, <1>2 DEF IsUpToDate, OwnData
<1>4. IsFiniteSet(Members(c.key)) /\ Cardinality(Members(c.key)) = c.count
    <2>1. IsFiniteSet(Members(c.key))
        BY <1>1 DEF AllInv, AtomicInv
    <2>2. CASE c.count = 0
        <3>1. Members(c.key) = {}
            BY <1>2, <2>2, CommitId
        <3> QED BY <2>1, <2>2, <3>1, FS_EmptySet
    <2>3. CASE c.count # 0
        <3>1. Exists(c.key)
            BY <1>1, <2>3, CommitId
        <3>2. committed[HeadRow(c.key)].count = c.count
            BY <1>1, <2>3 DEF IsUpToDate, OwnHead
        <3> QED BY <1>1, <2>1, <3>1, <3>2 DEF AllInv, AtomicInv, CardinalityIsTrue
    <2> QED BY <2>2, <2>3
<1>5. IsFiniteSet(after) /\ Cardinality(after) = NewCount(c)
    <2>1. CASE c.op = "zadd"
        <3>1. /\ after = Members(c.key) \cup {c.val} /\ NewCount(c) = c.count + 1
              /\ c.val \notin Members(c.key)
            BY <1>3, <2>1 DEF NewCount
        <3> HIDE DEF after, c
        <3> QED BY <1>4, <3>1, FS_AddElement
    <2>2. CASE c.op = "zrem"
        <3>1. /\ after = Members(c.key) \ {c.val} /\ NewCount(c) = c.count - 1
              /\ c.val \in Members(c.key)
            BY <1>3, <2>2 DEF NewCount
        <3> HIDE DEF after, c
        <3> QED BY <1>4, <3>1, FS_RemoveElement
    <2> QED BY <1>1, <2>1, <2>2
<1>6. after = {v \in Val : committed'[DataRow(c.id, v)] # NoRow}
    <2>1. committed'[DataRow(c.id, c.val)] = NewData(c)
        BY CommitRows DEF OwnData
    <2>2. NewData(c) # NoRow <=> c.op = "zadd"
        BY <1>1, NoRowAssumption DEF NewData
    <2>3. \A v \in Val \ {c.val} :
              committed'[DataRow(c.id, v)] = committed[DataRow(c.id, v)]
        BY <1>1, CommitRows
    <2> QED BY <1>1, <1>2, <2>1, <2>2, <2>3
<1>7. ASSUME NEW k \in Key, k = c.key PROVE Members(k)' = after
    <2>1. committed'[HeadRow(k)] = NewHead(c)
        BY <1>7, CommitRows DEF OwnHead
    <2>2. CASE NewCount(c) = 0
        <3>1. after = {}
            BY <1>5, <2>2, FS_EmptySet
        <3> QED BY <2>1, <2>2, <3>1 DEF NewHead, Members, Found, Exists
    <2>3. CASE NewCount(c) # 0
        <3>1. NewHead(c) = [id |-> c.id, count |-> NewCount(c)]
            BY <2>3 DEF NewHead
        <3>2. NewHead(c) \in Heads
            BY <1>1, <2>3, <3>1, MaxCountAssumption DEF NewCount, Heads, IsCall
        <3> QED BY <1>6, <2>1, <3>1, <3>2, NoRowAssumption DEF Members, Found, Exists
    <2> QED BY <2>2, <2>3
<1>8. ASSUME NEW k \in Key, k # c.key PROVE Members(k)' = Members(k)
    <2>1. committed'[HeadRow(k)] = committed[HeadRow(k)]
        BY <1>8, CommitRows
    <2>2. Exists(k) => committed[HeadRow(k)].id \in Id \ {c.id}
        BY <1>8, CommitId DEF Exists, AllInv, CallInv, TableTyped, Heads
    <2>3. \A i \in Id \ {c.id}, v \in Val :
              committed'[DataRow(i, v)] = committed[DataRow(i, v)]
        BY CommitRows
    <2> QED BY <2>1, <2>2, <2>3 DEF Members, Found, Exists
<1> HIDE DEF after
<1> QED BY <1>3, <1>5, <1>6, <1>7, <1>8 DEF after

LEMMA CommitAtomic ==
    ASSUME OneWriter, AllInv, NEW w \in Worker, Commit(w)
    PROVE  AtomicInv'
<1> DEFINE c == call[w]
           after == IF c.op = "zadd" THEN Members(c.key) \cup {c.val}
                                     ELSE Members(c.key) \ {c.val}
<1>1. /\ pc[w] = "commit" /\ c.key \in Key /\ c.id \in Id /\ c.val \in Val
      /\ c.op \in {"zadd", "zrem"}
    BY CommitRows DEF IsCall, Calls
<1>2. /\ lock' = [r \in Row |-> IF lock[r] = w THEN Free ELSE lock[r]]
      /\ view' = [view EXCEPT ![w] = NoTrx] /\ UNCHANGED current
      /\ pc' = [pc EXCEPT ![w] = "idle"] /\ call' = [call EXCEPT ![w] = NoCall]
    BY DEF Commit, CommitTrx, Return, Goto
<1>3. /\ pc'[w] = "idle"
      /\ \A u \in Worker \ {w} : UNCHANGED <<pc[u], call[u], view[u]>>
    BY <1>2 DEF AllInv, Inv, Shape
<1>4. ASSUME NEW u \in Worker, u # w PROVE InCommand(u)'
    <2>1. CASE pc[u] = "idle"
        BY <1>3, <1>4, <2>1 DEF InCommand
    <2>2. CASE pc[u] # "idle"
        <3>1. call[u].key # c.key /\ call[u].id # c.id
            BY <1>1, <1>4, <2>2, CommandsDiffer
        <3>2. call[u].key \in Key /\ call[u].id \in Id /\ call[u].val \in Val
            BY <2>2 DEF AllInv, CallInv, CallFits, IsCall, Calls
        <3>3. \A r \in {OwnHead(call[u]), OwnData(call[u])} : committed'[r] = committed[r]
            BY <3>1, <3>2, CommitRows DEF OwnHead, OwnData
        <3>4. \A r \in {OwnHead(call[u]), OwnData(call[u])} : lock'[r] = u <=> lock[r] = u
            BY <1>2, <1>4, <2>2, RowsAreNotContended, FreeAssumption
        <3> QED BY <1>2, <1>3, <1>4, <3>3, <3>4, OthersStayInCommand DEF AllInv, AtomicInv
    <2> QED BY <2>1, <2>2
<1>5. InCommand(w)'
    BY <1>3 DEF InCommand
<1>6. /\ \A k \in Key : Members(k)' = IF k = c.key THEN after ELSE Members(k)
      /\ Cardinality(after) = NewCount(c) /\ IsFiniteSet(after)
      /\ after = {v \in Val : committed'[DataRow(c.id, v)] # NoRow}
    BY CommitMembers
<1> HIDE DEF after
<1>7. \A k \in Key : IsFiniteSet(Members(k)')
    BY <1>6 DEF AllInv, AtomicInv
<1>8. committed'[HeadRow(c.key)] = NewHead(c)
    BY CommitRows DEF OwnHead
<1>9. ASSUME NEW k \in Key, Exists(k)'
      PROVE  committed'[HeadRow(k)].count = Cardinality(Members(k)')
    <2>1. CASE k = c.key
        BY <1>6, <1>8, <1>9, <2>1 DEF Exists, NewHead
    <2>2. CASE k # c.key
        <3>1. committed'[HeadRow(k)] = committed[HeadRow(k)] /\ Members(k)' = Members(k)
            BY <1>6, <2>2, CommitRows
        <3> QED BY <1>9, <3>1 DEF Exists, AllInv, AtomicInv, CardinalityIsTrue
    <2> QED BY <2>1, <2>2
<1>10. ASSUME NEW i \in Id, NEW v \in Val, committed'[DataRow(i, v)] # NoRow
       PROVE  \E k \in Key : committed'[HeadRow(k)] # NoRow /\ committed'[HeadRow(k)].id = i
    <2>1. CASE i = c.id
        <3>1. v \in after
            BY <1>6, <1>10, <2>1
        <3>2. NewCount(c) # 0
            BY <1>6, <3>1, FS_EmptySet
        <3>3. NewHead(c) = [id |-> c.id, count |-> NewCount(c)]
            BY <3>2 DEF NewHead
        <3>4. NewHead(c) \in Heads
            BY <1>1, <3>2, <3>3, MaxCountAssumption, CommitRows DEF NewCount, Heads, IsCall, Calls
        <3> QED BY <1>1, <1>8, <2>1, <3>3, <3>4, NoRowAssumption
    <2>2. CASE i # c.id
        <3>1. committed[DataRow(i, v)] # NoRow
            BY <1>10, <2>2, CommitRows
        <3>2. PICK k \in Key : Exists(k) /\ committed[HeadRow(k)].id = i
            BY <3>1 DEF AllInv, AtomicInv, NoOrphans
        <3>3. k # c.key
            <4>1. SUFFICES ASSUME k = c.key PROVE FALSE
                OBVIOUS
            <4>2. c.count # 0
                BY <3>2, <4>1, CommitRows DEF IsUpToDate, OwnHead, Exists
            <4> QED BY <1>1, <2>2, <3>2, <4>1, <4>2, CommitId
        <3> QED BY <3>2, <3>3, CommitRows DEF Exists
    <2> QED BY <2>1, <2>2
<1>11. CardinalityIsTrue'
    BY <1>9 DEF CardinalityIsTrue
<1>12. NoOrphans'
    BY <1>10 DEF NoOrphans, Exists
<1> QED BY <1>4, <1>5, <1>7, <1>11, <1>12 DEF AtomicInv

LEMMA RestartAtomic ==
    ASSUME AllInv, Restart
    PROVE  AtomicInv'
<1>1. UNCHANGED committed /\ \A w \in Worker : pc'[w] = "idle"
    BY DEF Restart, RecoverTrx
<1>2. WellFormed'
    BY <1>1, SameRowsWellFormed DEF WellFormed, AllInv, AtomicInv
<1> QED BY <1>1, <1>2 DEF AtomicInv, WellFormed, InCommand

LEMMA AtomicInit == Init => AtomicInv
<1> SUFFICES ASSUME Init PROVE AtomicInv
    OBVIOUS
<1>1. /\ committed = [r \in Row |-> NoRow] /\ pc = [w \in Worker |-> "idle"]
    BY DEF Init, EngineInit
<1>2. \A k \in Key : ~Exists(k) /\ Members(k) = {}
    BY <1>1, RowsAreRows DEF Exists, Members, Found
<1>3. NoOrphans
    BY <1>1, RowsAreRows DEF NoOrphans
<1> QED BY <1>1, <1>2, <1>3, FS_EmptySet DEF AtomicInv, InCommand, CardinalityIsTrue

LEMMA AtomicNext == OneWriter /\ AllInv /\ IdsApart' /\ [Next]_vars => AtomicInv'
<1> SUFFICES ASSUME OneWriter, AllInv, IdsApart', [Next]_vars PROVE AtomicInv'
    OBVIOUS
<1>1. CASE UNCHANGED vars
    <2>1. UNCHANGED <<committed, current, lock, view, pc, call>>
        BY <1>1 DEF vars
    <2>2. \A u \in Worker : InCommand(u)'
        BY <2>1, OthersStayInCommand DEF AllInv, AtomicInv
    <2>3. WellFormed'
        BY <2>1, SameRowsWellFormed DEF WellFormed, AllInv, AtomicInv
    <2> QED BY <2>2, <2>3 DEF AtomicInv, WellFormed
<1>2. ASSUME NEW w \in Worker, Step(w) PROVE AtomicInv'
    BY <1>2, InsertHeadAtomic, WriteDataAtomic, WriteHeadAtomic, NoFailure, CommitAtomic
       DEF Step
<1> QED BY <1>1, <1>2, TakeAtomic, RestartAtomic DEF Next

LEMMA AllInvHolds == OneWriter /\ IdsDiffer => (Spec => []AllInv)
<1> SUFFICES ASSUME OneWriter, IdsDiffer PROVE Spec => []AllInv
    OBVIOUS
<1>1. Init => AtomicInv
    BY AtomicInit
<1>2. Inv /\ CallInv /\ IdsApart /\ AtomicInv /\ IdsApart' /\ [Next]_vars => AtomicInv'
    BY AtomicNext DEF AllInv
<1>3. Spec => [](Inv /\ CallInv) /\ []IdsApart
    BY CallInvHolds, IdsStayApart
<1>4. Spec => []AtomicInv
    BY <1>1, <1>2, <1>3, PTL DEF Spec
<1> QED BY <1>3, <1>4, PTL DEF AllInv

\* With one writer per key the cardinality of a sorted set is the number of
\* its elements and no element outlives its sorted set, across restarts.
THEOREM SetsAreWellFormed == OneWriter /\ IdsDiffer => (Spec => []ZSetsWellFormed)
<1> SUFFICES ASSUME OneWriter, IdsDiffer PROVE Spec => []ZSetsWellFormed
    OBVIOUS
<1>1. AllInv => ZSetsWellFormed
    BY DEF AllInv, AtomicInv, ZSetsWellFormed
<1> QED BY <1>1, AllInvHolds, PTL

-----------------------------------------------------------------------------
LEMMA SixDigitsFit == MaxScore \in Nat /\ FewDigits(MaxScore, 6)
BY SixDigits, SMT DEF MaxScore

\* The padded text of n is that of n \div 10 moved by one, and a digit.
LEMMA PadShift ==
    ASSUME NEW n \in Nat, n <= MaxScore
    PROVE  /\ PadScore(n)[16] = 48 + (n % 10)
           /\ \A i \in 1 .. 15 : PadScore(n)[i] = PadScore(n \div 10)[i + 1]
<1> DEFINE q == n \div 10
<1>0. MaxScore \in Nat
    BY SixDigitsFit
<1>1. q \in 0 .. MaxScore /\ n % 10 \in 0 .. 9 /\ n = 10 * q + (n % 10)
    BY <1>0, Quotient
<1> HIDE DEF q
<1>2. /\ Written(n) = Longer(Decimal, n) /\ Written(q) = Longer(Decimal, q)
      /\ Written(n) = Decimal[n] /\ Written(q) = Decimal[q]
    BY <1>1, DecimalIs DEF Written
<1>3. CASE n < 10
    <2>1. q = 0 /\ n % 10 = n
        BY <1>1, <1>3
    <2>2. Written(n) = <<48 + n>> /\ Written(q) = <<48>>
        BY <1>2, <1>3, <2>1 DEF Longer
    <2> QED BY <2>1, <2>2 DEF PadScore, Width, q
<1>4. CASE n >= 10
    <2>1. Written(n) = Append(Written(q), 48 + (n % 10))
        BY <1>2, <1>4 DEF Longer, q
    <2>2. Written(q) \in Seq(Digit) /\ Len(Written(q)) \in 1 .. 6
        BY <1>1, <1>2, SixDigitsFit DEF FewDigits
    <2>3. Len(Written(n)) = Len(Written(q)) + 1
        BY <2>1, <2>2
    <2>4. Written(n)[Len(Written(q)) + 1] = 48 + (n % 10)
        BY <2>1, <2>2
    <2>5. \A i \in 1 .. Len(Written(q)) : Written(n)[i] = Written(q)[i]
        BY <2>1, <2>2
    <2>6. PadScore(n)[16] = 48 + (n % 10)
        BY <2>2, <2>3, <2>4 DEF PadScore, Width
    <2>7. ASSUME NEW i \in 1 .. 15 PROVE PadScore(n)[i] = PadScore(q)[i + 1]
        <3> DEFINE l == Len(Written(q))
        <3>1. PadScore(n)[i] = IF i <= 15 - l THEN 48 ELSE Written(n)[i - (15 - l)]
            BY <2>2, <2>3 DEF PadScore, Width
        <3>2. PadScore(q)[i + 1] = IF i + 1 <= 16 - l THEN 48 ELSE Written(q)[i + 1 - (16 - l)]
            BY <2>2 DEF PadScore, Width
        <3>3. i > 15 - l => i - (15 - l) \in 1 .. l /\ i + 1 - (16 - l) = i - (15 - l)
            BY <2>2
        <3> HIDE DEF l
        <3> QED BY <2>2, <2>5, <3>1, <3>2, <3>3 DEF l
    <2> QED BY <2>6, <2>7 DEF q
<1> QED BY <1>3, <1>4

\* q[i] is the number that the first i characters of the text of n make.
IsSplit(n, q) ==
    /\ q \in [0 .. Width -> Nat] /\ q[0] = 0 /\ q[Width] = n
    /\ \A i \in 1 .. Width : /\ q[i] - 10 * q[i - 1] \in 0 .. 9
                            /\ PadScore(n)[i] = 48 + (q[i] - 10 * q[i - 1])

LEMMA PadDigits ==
    ASSUME NEW n \in Nat, n <= MaxScore
    PROVE  \E q : IsSplit(n, q)
<1> DEFINE q1 == n \div 10
           q2 == q1 \div 10
           q3 == q2 \div 10
           q4 == q3 \div 10
           q5 == q4 \div 10
           q6 == q5 \div 10
<1>1. ASSUME NEW x \in Nat, x <= MaxScore
      PROVE  /\ x \div 10 \in Nat /\ x \div 10 <= MaxScore /\ x - 10 * (x \div 10) \in 0 .. 9
             /\ PadScore(x)[16] = 48 + (x - 10 * (x \div 10))
             /\ \A i \in 1 .. 15 : PadScore(x)[i] = PadScore(x \div 10)[i + 1]
    <2>1. MaxScore \in Nat
        BY SixDigitsFit
    <2>2. x % 10 = x - 10 * (x \div 10)
        BY Quotient
    <2> QED BY <1>1, <2>1, <2>2, Quotient, PadShift
<1>2. q1 \in Nat /\ q1 <= MaxScore
    BY <1>1
<1>3. q2 \in Nat /\ q2 <= MaxScore
    BY <1>1, <1>2
<1>4. q3 \in Nat /\ q3 <= MaxScore
    BY <1>1, <1>3
<1>5. q4 \in Nat /\ q4 <= MaxScore
    BY <1>1, <1>4
<1>6. q5 \in Nat /\ q5 <= MaxScore
    BY <1>1, <1>5
<1>7. q6 \in Nat /\ q6 <= MaxScore
    BY <1>1, <1>6
<1> DEFINE Shifts(x, y) == /\ x - 10 * y \in 0 .. 9
                           /\ PadScore(x)[16] = 48 + (x - 10 * y)
                           /\ \A i \in 1 .. 15 : PadScore(x)[i] = PadScore(y)[i + 1]
<1>8. /\ Shifts(n, q1) /\ Shifts(q1, q2) /\ Shifts(q2, q3)
      /\ Shifts(q3, q4) /\ Shifts(q4, q5) /\ Shifts(q5, q6)
    BY <1>1, <1>2, <1>3, <1>4, <1>5, <1>6
<1> HIDE DEF q1, q2, q3, q4, q5, q6
<1>9. q6 = 0
    BY <1>2, <1>3, <1>4, <1>5, <1>6, <1>7, <1>8, SMT DEF MaxScore
<1>10. \A i \in 1 .. 16 : PadScore(0)[i] = 48
    <2>1. Written(0) = <<48>>
        <3>1. Decimal[0] = Longer(Decimal, 0)
            BY DecimalIs
        <3> QED BY <3>1 DEF Longer, Written
    <2> QED BY <2>1 DEF PadScore, Width
<1> DEFINE q == [i \in 0 .. 16 |-> IF i <= 10 THEN 0 ELSE IF i = 11 THEN q5
                                   ELSE IF i = 12 THEN q4 ELSE IF i = 13 THEN q3
                                   ELSE IF i = 14 THEN q2 ELSE IF i = 15 THEN q1 ELSE n]
<1>11. /\ q \in [0 .. 16 -> Nat] /\ q[16] = n /\ q[15] = q1 /\ q[14] = q2 /\ q[13] = q3
       /\ q[12] = q4 /\ q[11] = q5 /\ \A i \in 0 .. 10 : q[i] = 0
    BY <1>2, <1>3, <1>4, <1>5, <1>6
<1>12. /\ PadScore(n)[15] = PadScore(q1)[16] /\ PadScore(n)[14] = PadScore(q2)[16]
       /\ PadScore(n)[13] = PadScore(q3)[16] /\ PadScore(n)[12] = PadScore(q4)[16]
       /\ PadScore(n)[11] = PadScore(q5)[16]
       /\ \A i \in 1 .. 10 : PadScore(n)[i] = PadScore(q6)[i + 6]
    BY <1>8
<1>13. \A i \in 1 .. 10 : PadScore(n)[i] = 48
    BY <1>9, <1>10, <1>12
<1>14. ASSUME NEW i \in 1 .. 16
       PROVE  /\ q[i] - 10 * q[i - 1] \in 0 .. 9
              /\ PadScore(n)[i] = 48 + (q[i] - 10 * q[i - 1])
    <2> HIDE DEF q
    <2>0. CASE i <= 10
        BY <1>11, <1>13, <2>0
    <2>1. CASE i = 11
        <3>1. Shifts(q5, q6)
            BY <1>8
        <3> QED BY <1>11, <1>12, <2>1, <3>1, <1>9
    <2>2. CASE i = 12
        <3>1. Shifts(q4, q5)
            BY <1>8
        <3> QED BY <1>11, <1>12, <2>2, <3>1
    <2>3. CASE i = 13
        <3>1. Shifts(q3, q4)
            BY <1>8
        <3> QED BY <1>11, <1>12, <2>3, <3>1
    <2>4. CASE i = 14
        <3>1. Shifts(q2, q3)
            BY <1>8
        <3> QED BY <1>11, <1>12, <2>4, <3>1
    <2>5. CASE i = 15
        <3>1. Shifts(q1, q2)
            BY <1>8
        <3> QED BY <1>11, <1>12, <2>5, <3>1
    <2>6. CASE i = 16
        <3>1. Shifts(n, q1)
            BY <1>8
        <3> QED BY <1>11, <1>12, <2>6, <3>1
    <2> QED BY <2>0, <2>1, <2>2, <2>3, <2>4, <2>5, <2>6
<1> HIDE DEF q
<1>15. IsSplit(n, q)
    BY <1>11, <1>14 DEF IsSplit, Width
<1> QED BY <1>15

-----------------------------------------------------------------------------
\* A text that is all digits is read to its end, each digit once.
LEMMA AtofOfDigits ==
    ASSUME NEW t, \A i \in 1 .. 16 : t[i] \in Digit,
           NEW g \in [0 .. 16 -> Int], g[0] = 0,
           \A i \in 1 .. 16 : g[i] = g[i - 1] * 10 + (t[i] - 48)
    PROVE  Atof(t) = g[16]
<1> DEFINE P(n) == /\ \A i \in 1 .. n : t[i] \in Digit
                   /\ n < Width => t[n + 1] \notin Digit
           IsValue(v) == v = [i \in 0 .. 16 |-> IF i = 0 THEN 0
                                                ELSE v[i - 1] * 10 + (t[i] - 48)]
           v == CHOOSE x : IsValue(x)
<1>1. \A n \in 1 .. Width : P(n) <=> n = 16
    BY DEF Width
<1>2. (CHOOSE n \in 1 .. Width : P(n)) = 16
    <2>1. 16 \in 1 .. Width
        BY DEF Width
    <2> HIDE DEF P
    <2> QED BY <1>1, <2>1
<1>3. Atof(t) = v[16]
    BY <1>2 DEF Atof, ValueOf, Width
<1>4. IsValue(g)
    <2>1. \A i \in 0 .. 16 : g[i] = IF i = 0 THEN 0 ELSE g[i - 1] * 10 + (t[i] - 48)
        OBVIOUS
    <2>2. g = [i \in 0 .. 16 |-> g[i]]
        OBVIOUS
    <2> QED BY <2>1, <2>2
<1>5. IsValue(v)
    <2> HIDE DEF IsValue
    <2> QED BY <1>4
<1> HIDE DEF v
<1>6. /\ v[0] = 0
      /\ \A i \in 1 .. 16 : v[i] = v[i - 1] * 10 + (t[i] - 48)
    BY <1>5
<1>7. \A i \in 0 .. 16 : v[i] = g[i]
    <2> SUFFICES ASSUME {i \in 0 .. 16 : v[i] # g[i]} # {} PROVE FALSE
        OBVIOUS
    <2>1. PICK i \in 0 .. 16 : v[i] # g[i] /\ \A j \in 0 .. 16 : v[j] # g[j] => i <= j
        BY LeastNat
    <2>2. CASE i = 0
        BY <1>6, <2>1, <2>2
    <2>3. CASE i # 0
        BY <1>6, <2>1, <2>3
    <2> QED BY <2>2, <2>3
<1> QED BY <1>3, <1>7

\* A natural of up to six digits is read back as it was written.
LEMMA NaturalsAreKept ==
    ASSUME NEW n \in Nat, n <= MaxScore
    PROVE  Atof(PadScore(n)) = n
<1>1. PICK q : IsSplit(n, q)
    BY PadDigits
<1> DEFINE t == PadScore(n)
<1>2. ASSUME NEW i \in 1 .. 16
      PROVE  t[i] = 48 + (q[i] - 10 * q[i - 1]) /\ q[i] - 10 * q[i - 1] \in 0 .. 9
    BY <1>1 DEF IsSplit, Width
<1> HIDE DEF t
<1>a. \A i \in 1 .. 16 : t[i] \in Digit
    <2>1. \A d \in 0 .. 9 : 48 + d \in Digit
        BY DEF Digit
    <2> QED BY <1>2, <2>1
<1>3. ASSUME NEW i \in 1 .. 16 PROVE q[i] = q[i - 1] * 10 + (t[i] - 48)
    <2>1. q[i] \in Int /\ q[i - 1] \in Int
        <3>1. q \in [0 .. 16 -> Nat]
            BY <1>1 DEF IsSplit, Width
        <3> QED BY <3>1
    <2>2. \A x, y \in Int : \A z : z = 48 + (x - 10 * y) => x = y * 10 + (z - 48)
        OBVIOUS
    <2> QED BY <1>2, <2>1, <2>2
<1>4. q \in [0 .. 16 -> Int] /\ q[0] = 0 /\ q[16] = n
    BY <1>1 DEF IsSplit, Width
<1>5. Atof(t) = q[16]
    BY <1>a, <1>3, <1>4, AtofOfDigits
<1> QED BY <1>4, <1>5 DEF t

\* The order of the texts is the order of the numbers.
LEMMA NaturalsAreInOrder ==
    ASSUME NEW a \in Nat, NEW b \in Nat, a <= MaxScore, b <= MaxScore
    PROVE  (\E i \in 1 .. Width : /\ PadScore(a)[i] < PadScore(b)[i]
                                  /\ \A j \in 1 .. i - 1 : PadScore(a)[j] = PadScore(b)[j])
           <=> a < b
<1> DEFINE s == PadScore(a)
           t == PadScore(b)
<1>1. PICK q : IsSplit(a, q)
    BY PadDigits
<1>2. PICK r : IsSplit(b, r)
    BY PadDigits
<1>3. \A i \in 0 .. Width : q[i] \in Nat /\ r[i] \in Nat
    BY <1>1, <1>2 DEF IsSplit
<1>4. q[0] = 0 /\ r[0] = 0 /\ q[Width] = a /\ r[Width] = b
    BY <1>1, <1>2 DEF IsSplit
<1>5. ASSUME NEW i \in 1 .. Width
      PROVE  /\ q[i - 1] < r[i - 1] => q[i] < r[i]
             /\ r[i - 1] < q[i - 1] => r[i] < q[i]
             /\ q[i - 1] = r[i - 1] => /\ s[i] < t[i] <=> q[i] < r[i]
                                       /\ s[i] = t[i] <=> q[i] = r[i]
    <2> HIDE DEF s, t
    <2>1. /\ q[i] - 10 * q[i - 1] \in 0 .. 9 /\ s[i] = 48 + (q[i] - 10 * q[i - 1])
          /\ r[i] - 10 * r[i - 1] \in 0 .. 9 /\ t[i] = 48 + (r[i] - 10 * r[i - 1])
        BY <1>1, <1>2 DEF IsSplit, s, t
    <2>2. q[i] \in Nat /\ q[i - 1] \in Nat /\ r[i] \in Nat /\ r[i - 1] \in Nat
        BY <1>3 DEF Width
    <2>3. ASSUME NEW x \in Nat, NEW y \in Nat, NEW x1 \in Nat, NEW y1 \in Nat,
                 NEW u, NEW v, u = 48 + (x - 10 * x1), v = 48 + (y - 10 * y1),
                 x - 10 * x1 \in 0 .. 9, y - 10 * y1 \in 0 .. 9
          PROVE  /\ x1 < y1 => x < y
                 /\ y1 < x1 => y < x
                 /\ x1 = y1 => (u < v <=> x < y) /\ (u = v <=> x = y)
        BY <2>3
    <2> QED BY <2>1, <2>2, <2>3
<1> HIDE DEF s, t
\* Texts that are the same so far make the same number so far.
<1>6. ASSUME NEW i \in 0 .. Width, \A j \in 1 .. i : s[j] = t[j]
      PROVE  q[i] = r[i]
    <2> DEFINE D == {j \in 0 .. i : q[j] # r[j]}
    <2>1. SUFFICES ASSUME D # {} PROVE FALSE
        BY DEF Width
    <2>2. PICK j \in D : \A m \in D : j <= m
        BY <2>1, LeastNat DEF Width
    <2>3. j \in 1 .. i /\ q[j] # r[j]
        BY <1>4, <2>2 DEF Width
    <2>4. q[j - 1] = r[j - 1]
        BY <2>2, <2>3 DEF Width
    <2> QED BY <1>5, <1>6, <2>3, <2>4 DEF Width
\* And where one is less, it stays less.
<1>7. ASSUME NEW x, NEW y, NEW i \in 0 .. Width, x[i] < y[i],
             \A j \in 0 .. Width : x[j] \in Nat /\ y[j] \in Nat,
             \A j \in 1 .. Width : x[j - 1] < y[j - 1] => x[j] < y[j]
      PROVE  x[Width] < y[Width]
    <2> DEFINE D == {j \in i .. Width : ~(x[j] < y[j])}
    <2>1. SUFFICES ASSUME D # {} PROVE FALSE
        BY DEF Width
    <2>2. PICK j \in D : \A m \in D : j <= m
        BY <2>1, LeastNat DEF Width
    <2>3. j \in i + 1 .. Width /\ ~(x[j] < y[j])
        BY <1>7, <2>2 DEF Width
    <2>4. x[j - 1] < y[j - 1]
        BY <2>2, <2>3 DEF Width
    <2> QED BY <1>7, <2>3, <2>4 DEF Width
<1>8. ASSUME NEW i \in 1 .. Width, s[i] < t[i], \A j \in 1 .. i - 1 : s[j] = t[j]
      PROVE  a < b
    <2>1. q[i - 1] = r[i - 1]
        BY <1>6, <1>8 DEF Width
    <2>2. q[i] < r[i] /\ i \in 0 .. Width
        BY <1>5, <1>8, <2>1 DEF Width
    <2> QED BY <1>3, <1>4, <1>5, <1>7, <2>2
<1>9. ASSUME a < b
      PROVE  \E i \in 1 .. Width : s[i] < t[i] /\ \A j \in 1 .. i - 1 : s[j] = t[j]
    <2> DEFINE D == {i \in 1 .. Width : s[i] # t[i]}
    <2>1. D # {}
        <3>1. SUFFICES ASSUME \A i \in 1 .. Width : s[i] = t[i] PROVE FALSE
            OBVIOUS
        <3>2. q[Width] = r[Width]
            BY <1>6, <3>1 DEF Width
        <3> QED BY <1>4, <1>9, <3>2
    <2>2. PICK i \in D : \A m \in D : i <= m
        BY <2>1, LeastNat DEF Width
    <2>3. i \in 1 .. Width /\ s[i] # t[i] /\ \A j \in 1 .. i - 1 : s[j] = t[j]
        BY <2>2 DEF Width
    <2> HIDE DEF D
    <2>4. q[i - 1] = r[i - 1]
        BY <1>6, <2>3 DEF Width
    <2>5. q[i] # r[i]
        BY <1>5, <2>3, <2>4
    <2>6. ~(r[i] < q[i])
        <3>1. SUFFICES ASSUME r[i] < q[i] PROVE FALSE
            OBVIOUS
        <3>2. i \in 0 .. Width
            BY <2>3 DEF Width
        <3>3. r[Width] < q[Width]
            BY <1>3, <1>5, <1>7, <3>1, <3>2
        <3> QED BY <1>4, <1>9, <3>3
    <2>7. q[i] < r[i]
        BY <1>3, <2>3, <2>5, <2>6 DEF Width
    <2> QED BY <1>5, <2>3, <2>4, <2>7
<1> QED BY <1>8, <1>9 DEF s, t

\* Scores and bounds that are naturals, which is where padding is faithful.
ScoresAreNaturals == Score \cup Bound \subseteq Nat

LEMMA PaddingIsFaithful ==
    ASSUME ScoresAreNaturals
    PROVE  /\ \A s \in Score : Kept[s] = s
           /\ \A a, b \in Score \cup Bound : Earlier[a][b] <=> a < b
<1>1. \A s \in Score \cup Bound : s \in Nat /\ s <= MaxScore
    BY ScoreAssumption, SixDigitsFit DEF ScoresAreNaturals
<1>2. \A s \in Score : Kept[s] = s
    BY <1>1, NaturalsAreKept DEF Kept
<1>3. ASSUME NEW a \in Score \cup Bound, NEW b \in Score \cup Bound
      PROVE  Earlier[a][b] <=> a < b
    <2>1. Earlier[a][b] <=> \E i \in 1 .. Width :
              /\ PadScore(a)[i] < PadScore(b)[i]
              /\ \A j \in 1 .. i - 1 : PadScore(a)[j] = PadScore(b)[j]
        BY DEF Earlier
    <2> QED BY <1>1, <2>1, NaturalsAreInOrder
<1> QED BY <1>2, <1>3

-----------------------------------------------------------------------------
\* ZCOUNT counts on over the rows of other sorted sets.
CountIsOfTheKey == ScoresAreNaturals /\ \A j, k \in Key : j = k

LEMMA CountIsTrue == CountIsOfTheKey /\ AllInv => ZCountCountsTheKey
<1> SUFFICES ASSUME CountIsOfTheKey, AllInv, NEW k \in Key, Exists(k),
                    NEW min \in Bound, NEW max \in Bound
             PROVE  CountFrom(committed, committed[HeadRow(k)].id, min, max)
                      = Cardinality({v \in Members(k) :
                            Kept[committed[DataRow(committed[HeadRow(k)].id, v)]] \in min .. max})
    BY DEF ZCountCountsTheKey
<1> DEFINE i == committed[HeadRow(k)].id
           score(r) == committed[r]
           from == {r \in DataRows : committed[r] # NoRow
                        /\ (r[2] > i \/ (r[2] = i /\ ~Earlier[committed[r]][min]))}
           counted == {r \in from : \A s \in from : Precedes(committed, s, r)
                                        => Kept[committed[s]] \in min .. max}
           elements == {v \in Members(k) : Kept[committed[DataRow(i, v)]] \in min .. max}
<1>1. i \in Id /\ min \in Nat /\ max \in Nat
    BY DEF CountIsOfTheKey, ScoresAreNaturals, AllInv, CallInv, TableTyped, Exists, Heads
<1>2. ASSUME NEW r \in DataRows, committed[r] # NoRow
      PROVE  /\ \E v \in Members(k) : r = DataRow(i, v)
             /\ r[2] = i /\ r[3] \in Nat /\ r[3] \in Val /\ r = DataRow(i, r[3])
             /\ committed[r] \in Score /\ committed[r] \in Nat
             /\ Kept[committed[r]] = committed[r]
             /\ Earlier[committed[r]][min] <=> committed[r] < min
    <2>1. PICK j \in Id, v \in Val : r = DataRow(j, v)
        BY DEF DataRows
    <2>2. j = i
        BY <1>2, <2>1 DEF AllInv, AtomicInv, NoOrphans, CountIsOfTheKey
    <2>3. v \in Members(k)
        BY <1>2, <2>1, <2>2 DEF Members, Found, Exists
    <2>4. r[2] = i /\ r[3] = v
        BY <2>1, <2>2 DEF DataRow
    <2>5. committed[r] \in Score
        BY <1>2 DEF AllInv, CallInv, TableTyped
    <2>6. committed[r] \in Nat
        BY <2>5 DEF CountIsOfTheKey, ScoresAreNaturals
    <2> QED BY <2>1, <2>2, <2>3, <2>4, <2>5, <2>6, PaddingIsFaithful, ValAssumption DEF CountIsOfTheKey
<1>3. \A r : r \in from <=> /\ r \in DataRows /\ committed[r] # NoRow
                            /\ committed[r] >= min
    <2>1. i \in Nat
        BY <1>1, IdAssumption
    <2>2. ASSUME NEW r \in DataRows, committed[r] # NoRow
          PROVE  /\ ~(r[2] > i) /\ r[2] = i
                 /\ ~Earlier[committed[r]][min] <=> committed[r] >= min
        BY <1>1, <1>2, <2>1, <2>2
    <2> HIDE DEF i
    <2> QED BY <2>2
<1> HIDE DEF i, from
<1>4. \A r : r \in counted <=> r \in from /\ committed[r] <= max
    <2>1. ASSUME NEW r \in counted PROVE committed[r] <= max
        <3>1. r \in from /\ Precedes(committed, r, r)
            BY <1>2, <1>3 DEF Precedes
        <3>2. Kept[committed[r]] \in min .. max
            BY <3>1
        <3> QED BY <1>1, <1>2, <1>3, <3>1, <3>2
    <2>2. ASSUME NEW r \in from, committed[r] <= max,
                 NEW s \in from, Precedes(committed, s, r)
          PROVE  Kept[committed[s]] \in min .. max
        <3>1. /\ r[2] = i /\ s[2] = i /\ committed[r] \in Nat /\ committed[s] \in Nat
              /\ committed[r] \in Score /\ committed[s] \in Score /\ i \in Nat
              /\ Kept[committed[s]] = committed[s] /\ committed[s] >= min
            BY <1>1, <1>2, <1>3, IdAssumption
        <3>2. committed[s] <= committed[r]
            BY <2>2, <3>1, PaddingIsFaithful DEF Precedes, CountIsOfTheKey
        <3> QED BY <1>1, <2>2, <3>1, <3>2
    <2> QED BY <2>1, <2>2
<1> HIDE DEF counted
<1>5. \A v : v \in elements <=> v \in Members(k) /\ DataRow(i, v) \in counted
    <2>1. ASSUME NEW v \in Members(k)
          PROVE  DataRow(i, v) \in DataRows /\ committed[DataRow(i, v)] # NoRow
        BY <1>1, RowsAreRows DEF Members, Found, i
    <2> QED BY <1>1, <1>2, <1>3, <1>4, <2>1
<1>6. \A r \in counted : \E v \in elements : r = DataRow(i, v)
    BY <1>2, <1>3, <1>4, <1>5
<1>7. IsFiniteSet(elements)
    BY FS_Subset DEF AllInv, AtomicInv
<1>8. Cardinality(counted) = Cardinality(elements)
    <2> DEFINE f == [v \in elements |-> DataRow(i, v)]
    <2>1. f \in Bijection(elements, counted)
        <3>1. f \in [elements -> counted]
            BY <1>5
        <3>2. \A u, v \in elements : f[u] = f[v] => u = v
            <4>1. \A u, v : DataRow(i, u) = DataRow(i, v) => u = v
                BY DEF DataRow
            <4> HIDE DEF elements
            <4> QED BY <4>1
        <3>3. \A r \in counted : \E v \in elements : f[v] = r
            BY <1>6
        <3> HIDE DEF f, elements
        <3> QED BY <3>1, <3>2, <3>3, Zenon DEF Bijection, Injection, Surjection, IsInjective
    <2> HIDE DEF f, elements
    <2>2. ExistsBijection(elements, counted)
        BY <2>1 DEF ExistsBijection
    <2> QED BY <1>7, <2>2, FS_Bijection
<1>9. CountFrom(committed, i, min, max) = Cardinality(counted)
    BY DEF CountFrom, counted, from
<1> QED BY <1>8, <1>9 DEF i

-----------------------------------------------------------------------------
\* The refinement: the elements of a key, and what each step does to them.
ElementsOf(k) == [v \in Members(k) |-> Kept[committed[DataRow(committed[HeadRow(k)].id, v)]]]

Elements == [k \in Key |-> ElementsOf(k)]

LEMMA SameElements ==
    ASSUME UNCHANGED committed
    PROVE  UNCHANGED Elements
BY DEF Elements, ElementsOf, Members, Found, Exists

\* A command is where AtomicZSet says, when it commits.
LEMMA CommitElements ==
    ASSUME OneWriter, ScoresAreNaturals, AllInv, NEW w \in Worker, Commit(w)
    PROVE  LET c == call[w]
           IN  Elements' = [Elements EXCEPT ![c.key] =
                   IF c.op = "zadd"
                   THEN [v \in DOMAIN @ \cup {c.val} |-> IF v = c.val THEN c.score ELSE @[v]]
                   ELSE [v \in DOMAIN @ \ {c.val} |-> @[v]]]
<1> DEFINE c == call[w]
           after == IF c.op = "zadd" THEN Members(c.key) \cup {c.val}
                                     ELSE Members(c.key) \ {c.val}
           e == ElementsOf(c.key)
           x == IF c.op = "zadd"
                THEN [v \in DOMAIN e \cup {c.val} |-> IF v = c.val THEN c.score ELSE e[v]]
                ELSE [v \in DOMAIN e \ {c.val} |-> e[v]]
<1>1. /\ c.key \in Key /\ c.id \in Id /\ c.val \in Val /\ c.op \in {"zadd", "zrem"}
      /\ c.op = "zadd" => c.score \in Score
    BY CommitRows DEF IsCall, Calls
<1>2. /\ \A k \in Key : Members(k)' = IF k = c.key THEN after ELSE Members(k)
      /\ after = {v \in Val : committed'[DataRow(c.id, v)] # NoRow}
      /\ Cardinality(after) = NewCount(c) /\ IsFiniteSet(after)
    BY CommitMembers
<1>3. ASSUME NEW k \in Key, k # c.key PROVE ElementsOf(k)' = ElementsOf(k)
    <2>1. committed'[HeadRow(k)] = committed[HeadRow(k)]
        BY <1>3, CommitRows
    <2>2. ASSUME NEW v \in Members(k)
          PROVE  committed'[DataRow(committed[HeadRow(k)].id, v)]
                     = committed[DataRow(committed[HeadRow(k)].id, v)]
        <3>1. Exists(k) /\ v \in Val
            BY DEF Members, Found
        <3>2. committed[HeadRow(k)].id \in Id
            BY <3>1 DEF Exists, AllInv, CallInv, TableTyped, Heads
        <3>3. committed[HeadRow(k)].id # c.id
            BY <1>3, <3>1, CommitId
        <3> QED BY <3>1, <3>2, <3>3, CommitRows
    <2>3. Members(k)' = Members(k)
        BY <1>2, <1>3
    <2> QED BY <2>1, <2>2, <2>3 DEF ElementsOf
<1>4. ASSUME NEW k \in Key, k = c.key PROVE ElementsOf(k)' = x
    <2>1. Members(k)' = after
        BY <1>2, <1>4
    <2>2. ASSUME after # {} PROVE committed'[HeadRow(k)].id = c.id
        <3>1. NewCount(c) # 0
            BY <1>2, <2>2, FS_EmptySet
        <3>2. committed'[HeadRow(k)] = [id |-> c.id, count |-> NewCount(c)]
            BY <1>4, <3>1, CommitRows DEF OwnHead, NewHead
        <3> QED BY <3>2
    <2>3. ASSUME NEW v \in Members(k)
          PROVE  committed[HeadRow(k)].id = c.id
        <3>1. Exists(k) /\ v \in Val /\ committed[HeadRow(k)].id \in Id
            BY DEF Members, Found, Exists, AllInv, CallInv, TableTyped, Heads
        <3>2. c.count # 0
            BY <1>4, <3>1, CommitRows DEF IsUpToDate, OwnHead, Exists
        <3> QED BY <1>1, <1>4, <3>2, CommitId
    <2>4. ASSUME NEW v \in after, v # c.val
          PROVE  v \in Members(k) /\ committed'[DataRow(c.id, v)] = committed[DataRow(c.id, v)]
        <3>1. v \in Members(k)
            BY <1>4, <2>4
        <3> QED BY <1>1, <2>4, <3>1, CommitRows DEF Members
    <2>5. c.val \in after => c.op = "zadd" /\ Kept[committed'[DataRow(c.id, c.val)]] = c.score
        <3>1. committed'[DataRow(c.id, c.val)] = NewData(c)
            BY CommitRows DEF OwnData
        <3> QED BY <1>1, <3>1, PaddingIsFaithful DEF NewData
    <2>6. ElementsOf(k)' = [v \in after |-> Kept[committed'[DataRow(c.id, v)]]]
        BY <2>1, <2>2 DEF ElementsOf
    <2>7. \A v \in after : Kept[committed'[DataRow(c.id, v)]]
                              = IF v = c.val THEN c.score ELSE e[v]
        BY <1>4, <2>3, <2>4, <2>5 DEF ElementsOf
    <2>8. DOMAIN e = Members(c.key)
        BY DEF ElementsOf
    <2> HIDE DEF e
    <2> QED BY <1>1, <2>6, <2>7, <2>8
<1> HIDE DEF e, x
<1>5. Elements[c.key] = e
    BY <1>1 DEF Elements, e
<1>6. Elements' = [Elements EXCEPT ![c.key] = x]
    <2>1. \A k \in Key : ElementsOf(k)' = IF k = c.key THEN x ELSE ElementsOf(k)
        BY <1>3, <1>4
    <2>2. Elements' = [k \in Key |-> ElementsOf(k)']
        BY DEF Elements
    <2> QED BY <2>1, <2>2 DEF Elements
<1> QED BY <1>5, <1>6 DEF x

\* A commit is the command, at one instant.
LEMMA CommitRefines ==
    ASSUME OneWriter, ScoresAreNaturals, AllInv, NEW w \in Worker, Commit(w)
    PROVE  Abstract!Next
<1> DEFINE c == call[w]
<1>1. /\ c.key \in Key /\ c.val \in Val /\ c.op \in {"zadd", "zrem"}
      /\ c.op = "zadd" => c.score \in Score
    BY CommitRows DEF IsCall, Calls
<1>2. reply' = [to |-> w, request |-> Request(c), val |-> 1]
    BY DEF Commit, Return, Answer
<1>3. c.val \in Members(c.key) <=> c.op = "zrem"
    BY CommitMembers
<1>4. Elements' = [Elements EXCEPT ![c.key] =
          IF c.op = "zadd"
          THEN [v \in DOMAIN @ \cup {c.val} |-> IF v = c.val THEN c.score ELSE @[v]]
          ELSE [v \in DOMAIN @ \ {c.val} |-> @[v]]]
    BY CommitElements
<1>5. DOMAIN Elements[c.key] = Members(c.key)
    BY <1>1 DEF Elements, ElementsOf
<1> HIDE DEF c
<1>6. CASE c.op = "zadd"
    <2>1. Elements' = [Elements EXCEPT ![c.key] =
              [v \in DOMAIN @ \cup {c.val} |-> IF v = c.val THEN c.score ELSE @[v]]]
        BY <1>4, <1>6
    <2>2. Abstract!ZAdd(w, c.key, c.val, c.score)
        BY <1>2, <1>3, <1>5, <1>6, <2>1
           DEF Abstract!ZAdd, Abstract!Answer, Elements, ElementsOf, Request
    <2> QED BY <1>1, <1>6, <2>2 DEF Abstract!Next
<1>7. CASE c.op = "zrem"
    <2>1. Elements' = [Elements EXCEPT ![c.key] = [v \in DOMAIN @ \ {c.val} |-> @[v]]]
        BY <1>4, <1>7
    <2>2. Abstract!ZRem(w, c.key, c.val)
        BY <1>2, <1>3, <1>5, <1>7, <2>1
           DEF Abstract!ZRem, Abstract!Answer, Abstract!Restrict, Elements, ElementsOf, Request
    <2> QED BY <1>1, <2>2 DEF Abstract!Next
<1> QED BY <1>1, <1>6, <1>7

\* Both modules count with FiniteSets.
LEMMA CountsAlike == ASSUME NEW S PROVE Abstract!Cardinality(S) = Cardinality(S)
BY DEF Cardinality, Abstract!Cardinality

\* A command that writes nothing answers from what is committed.
LEMMA TakeRefines ==
    ASSUME ScoresAreNaturals, Bound = {} \/ CountIsOfTheKey, AllInv,
           NEW w \in Worker, Take(w)
    PROVE  Abstract!Next
<1>1. ASSUME NEW q, NEW x, ReadOnly(w, q, x)
      PROVE  /\ UNCHANGED Elements
             /\ reply' = [to |-> w, request |-> q, val |-> x]
    <2>1. UNCHANGED committed
        BY <1>1 DEF ReadOnly, engine
    <2> QED BY <1>1, <2>1, SameElements DEF ReadOnly, Answer
<1>2. ASSUME NEW c, GetCursor(w, c) PROVE Abstract!Next
    <2>1. UNCHANGED Elements /\ reply' = NoReply
        BY <1>2, SameElements DEF GetCursor, BeginTrx
    <2>2. Abstract!Wait
        BY <2>1 DEF Abstract!Wait, Elements, ElementsOf
    <2> QED BY <2>2 DEF Abstract!Next
<1>3. ASSUME NEW k \in Key
      PROVE  /\ DOMAIN Elements[k] = Members(k)
             /\ \A v \in Val : v \in Members(k) <=> Found(k, v)
             /\ \A v \in Members(k) :
                    Elements[k][v] = Kept[committed[DataRow(committed[HeadRow(k)].id, v)]]
    BY DEF Elements, ElementsOf, Members
<1>4. ASSUME NEW k \in Key, NEW v \in Val, NEW s \in Score, ZAddKnown(w, k, v, s)
      PROVE  Abstract!Next
    <2>1. Abstract!ZAddKnown(w, k, v, s)
        BY <1>1, <1>3, <1>4
           DEF ZAddKnown, Abstract!ZAddKnown, Abstract!Answer, Elements, ElementsOf
    <2> QED BY <2>1 DEF Abstract!Next
<1>5. ASSUME NEW k \in Key, NEW v \in Val, ZRemUnknown(w, k, v)
      PROVE  Abstract!Next
    <2>1. Abstract!ZRemUnknown(w, k, v)
        BY <1>1, <1>3, <1>5
           DEF ZRemUnknown, Abstract!ZRemUnknown, Abstract!Answer, Elements, ElementsOf
    <2> QED BY <2>1 DEF Abstract!Next
<1>6. ASSUME NEW k \in Key, NEW v \in Val, ZScore(w, k, v)
      PROVE  Abstract!Next
    <2>1. Abstract!ZScore(w, k, v)
        BY <1>1, <1>3, <1>6
           DEF ZScore, Err, Abstract!ZScore, Abstract!Answer, Elements, ElementsOf
    <2> QED BY <2>1 DEF Abstract!Next
<1>7. ASSUME NEW k \in Key, ZCard(w, k) PROVE Abstract!Next
    <2>1. (IF Exists(k) THEN committed[HeadRow(k)].count ELSE 0) = Cardinality(Members(k))
        <3>1. CASE Exists(k)
            BY <3>1 DEF AllInv, AtomicInv, CardinalityIsTrue
        <3>2. CASE ~Exists(k)
            BY <3>2, FS_EmptySet DEF Members, Found
        <3> QED BY <3>1, <3>2
    <2>2. reply' = [to |-> w, request |-> <<"zcard", k>>, val |-> Cardinality(Members(k))]
        BY <1>1, <1>7, <2>1 DEF ZCard
    <2>3. UNCHANGED Elements
        BY <1>1, <1>7 DEF ZCard
    <2>4. Cardinality(Members(k)) = Cardinality(DOMAIN Elements[k])
        BY <1>3
    <2>5. reply' = [to |-> w, request |-> <<"zcard", k>>, val |-> Cardinality(DOMAIN Elements[k])]
        BY <2>2, <2>4
    <2>6. Abstract!ZCard(w, k)
        BY <2>3, <2>5, CountsAlike DEF Abstract!ZCard, Abstract!Answer, Elements, ElementsOf
    <2> QED BY <2>6 DEF Abstract!Next
<1>8. ASSUME NEW k \in Key, NEW min \in Bound, NEW max \in Bound, ZCount(w, k, min, max)
      PROVE  Abstract!Next
    <2> DEFINE n == Cardinality({v \in Members(k) : Elements[k][v] \in min .. max})
    <2>1. n = IF Exists(k) THEN CountFrom(committed, committed[HeadRow(k)].id, min, max) ELSE 0
        <3>1. CASE Exists(k)
            <4>1. {v \in Members(k) : Elements[k][v] \in min .. max}
                  = {v \in Members(k) :
                        Kept[committed[DataRow(committed[HeadRow(k)].id, v)]] \in min .. max}
                BY <1>3
            <4> QED BY <3>1, <4>1, CountIsTrue DEF ZCountCountsTheKey
        <3>2. CASE ~Exists(k)
            <4>1. Members(k) = {}
                BY <3>2 DEF Members, Found
            <4>2. {v \in Members(k) : Elements[k][v] \in min .. max} = {}
                BY <4>1
            <4> QED BY <3>2, <4>2, FS_EmptySet
        <3> QED BY <3>1, <3>2
    <2>2. reply' = [to |-> w, request |-> <<"zcount", k, min, max>>, val |-> n]
        BY <1>1, <1>8, <2>1 DEF ZCount
    <2>3. UNCHANGED Elements
        BY <1>1, <1>8 DEF ZCount
    <2>4. n = Cardinality({v \in DOMAIN Elements[k] : Elements[k][v] \in min .. max})
        BY <1>3
    <2>5. reply' = [to |-> w, request |-> <<"zcount", k, min, max>>,
                    val |-> Cardinality({v \in DOMAIN Elements[k] : Elements[k][v] \in min .. max})]
        BY <2>2, <2>4
    <2>6. Abstract!ZCount(w, k, min, max)
        BY <2>3, <2>5, CountsAlike DEF Abstract!ZCount, Abstract!Answer, Elements, ElementsOf
    <2> QED BY <2>6 DEF Abstract!Next
<1>9. ASSUME NEW k, NEW v, NEW s, ZAdd(w, k, v, s) PROVE \E c : GetCursor(w, c)
    BY <1>9 DEF ZAdd
<1>10. ASSUME NEW k, NEW v, ZRem(w, k, v) PROVE \E c : GetCursor(w, c)
    BY <1>10 DEF ZRem
<1> QED BY <1>2, <1>4, <1>5, <1>6, <1>7, <1>8, <1>9, <1>10 DEF Take

\* Writes are invisible to a client.
LEMMA WriteRefines ==
    ASSUME NEW w \in Worker, InsertHead(w) \/ WriteData(w) \/ WriteHead(w)
    PROVE  Abstract!Next
<1>1. UNCHANGED committed /\ reply' = NoReply
    BY DEF InsertHead, WriteData, WriteHead, WriteRow, Fail, engine
<1>2. Abstract!Wait
    BY <1>1, SameElements DEF Abstract!Wait, Elements, ElementsOf
<1> QED BY <1>2 DEF Abstract!Next

LEMMA RestartRefines == Restart => Abstract!Next
<1> SUFFICES ASSUME Restart PROVE Abstract!Next
    OBVIOUS
<1>1. UNCHANGED committed /\ reply' = NoReply
    BY DEF Restart, RecoverTrx
<1>2. Abstract!Wait
    BY <1>1, SameElements DEF Abstract!Wait, Elements, ElementsOf
<1> QED BY <1>2 DEF Abstract!Next

\* With one writer per key, and scores that padding keeps, the two tables
\* implement AtomicZSet, across restarts.  ZCOUNT does so for one key.
THEOREM TablesImplementAtomicZSet ==
    OneWriter /\ IdsDiffer /\ ScoresAreNaturals /\ (Bound = {} \/ CountIsOfTheKey)
        => (Spec => ImplementsAtomicZSet)
<1> SUFFICES ASSUME OneWriter, IdsDiffer, ScoresAreNaturals, Bound = {} \/ CountIsOfTheKey
             PROVE  Spec => ImplementsAtomicZSet
    OBVIOUS
<1>1. Init => Abstract!Init
    <2> SUFFICES ASSUME Init PROVE Abstract!Init
        OBVIOUS
    <2>1. \A k \in Key : Members(k) = {}
        BY RowsAreRows DEF Init, EngineInit, Members, Found, Exists
    <2> QED BY <2>1 DEF Init, Abstract!Init
<1>2. AllInv /\ [Next]_vars => [Abstract!Next]_(Abstract!vars)
    <2> SUFFICES ASSUME AllInv, [Next]_vars PROVE [Abstract!Next]_(Abstract!vars)
        OBVIOUS
    <2>1. CASE UNCHANGED vars
        <3>1. UNCHANGED Elements /\ reply' = reply
            BY <2>1, SameElements DEF vars
        <3> QED BY <3>1 DEF Abstract!vars, Elements, ElementsOf
    <2>2. ASSUME NEW w \in Worker, Step(w) PROVE Abstract!Next
        BY <2>2, WriteRefines, CommitRefines, NoFailure DEF Step
    <2> QED BY <2>1, <2>2, TakeRefines, RestartRefines DEF Next
<1>3. Spec => []AllInv
    BY AllInvHolds
<1> QED BY <1>1, <1>2, <1>3, PTL DEF Spec, ImplementsAtomicZSet, Abstract!Spec

\* ZCOUNT counts the elements of its key, where there is no other.
THEOREM CountsTheKey ==
    CountIsOfTheKey /\ OneWriter => (Spec => []ZCountCountsTheKey)
<1> SUFFICES ASSUME CountIsOfTheKey, OneWriter PROVE Spec => []ZCountCountsTheKey
    OBVIOUS
<1>1. IdsDiffer
    BY DEF IdsDiffer, CountIsOfTheKey
<1> QED BY <1>1, CountIsTrue, AllInvHolds, PTL
=============================================================================
