---------------------------- MODULE ListTable_proofs ----------------------------
(***************************************************************************)
(* What holds of the lists for every set of workers, keys, ids and values. *)
(*                                                                         *)
(* Whoever writes which key and whatever statements fail, a command leaves *)
(* no lock and no half-written row behind (NothingIsLeftBehind).           *)
(*                                                                         *)
(* Where each key has one writer and nobody pops a key without a list, the *)
(* rows always form one doubly linked chain per key, and the tables        *)
(* implement AtomicList.  The invariant (AtomicInv) says what a command in *)
(* the middle of its statements has: the rows it is to change (Changes)    *)
(* are as its snapshot shows them or as it is to leave them (After), what  *)
(* is still to change is the row of a statement it has left (Left), and no *)
(* other worker has locked any of them.  After turns chains into chains    *)
(* (PushHead, PushTail, PopHead, PopTail), and a commit applies all of it. *)
(***************************************************************************)
EXTENDS ListTable, Numerals_proofs, SequenceTheorems

Shape ==
    /\ DOMAIN committed = Row /\ DOMAIN current = Row
    /\ lock \in [Row -> Worker \cup {Free}]
    /\ DOMAIN view = Worker /\ DOMAIN todo = Worker /\ DOMAIN answer = Worker

IdleOwnsNothing(w) ==
    ~Busy(w) => todo[w] = <<>> /\ \A r \in Row : lock[r] # w

\* The strengthening that makes the invariant inductive: an idle worker has
\* no statement left either.
Inv ==
    /\ Shape
    /\ \A r \in Row : lock[r] = Free => current[r] = committed[r]
    /\ \A w \in Worker : IdleOwnsNothing(w)

-----------------------------------------------------------------------------
\* A worker with an answer to give is busy.
LEMMA AnswersAreNotNoReply == \A w, request, v : Answer(w, request, v) # NoReply
<1> SUFFICES ASSUME NEW w, NEW request, NEW v, Answer(w, request, v) = NoReply
             PROVE  FALSE
    OBVIOUS
<1>1. "to" \in DOMAIN Answer(w, request, v) /\ "to" \notin DOMAIN NoReply
    BY DEF Answer, NoReply
<1> QED BY <1>1

\* Nobody is busy at first.
LEMMA InitInv == Init => Inv
BY FreeAssumption DEF Init, EngineInit, Inv, Shape, IdleOwnsNothing

\* What an idle worker leaves to the others does not depend on their steps.
LEMMA OthersStayIdle ==
    ASSUME Inv, NEW u \in Worker, UNCHANGED <<answer[u], todo[u]>>,
           \A r \in Row : lock'[r] = u => lock[r] = u
    PROVE  IdleOwnsNothing(u)'
BY DEF Inv, IdleOwnsNothing, Busy

\* A worker that takes a command: it reads, or it is busy from now on.
LEMMA TakeInv ==
    ASSUME Inv, NEW w \in Worker, Take(w)
    PROVE  Inv'
<1>1. ASSUME NEW q, NEW v, ReadOnly(w, q, v) PROVE Inv'
    BY <1>1 DEF ReadOnly, engine, Inv, Shape, IdleOwnsNothing, Busy
<1>2. ASSUME NEW q, NEW v, Begin(w, q, v),
             todo' = [todo EXCEPT ![w] = todo'[w]],
             UNCHANGED committed, view' = [view EXCEPT ![w] = committed],
             \/ UNCHANGED <<lock, current>>
             \/ \E r, x : /\ lock' = [lock EXCEPT ![r] = w]
                          /\ current' = [current EXCEPT ![r] = x]
      PROVE  Inv'
    <2>1. answer' = [answer EXCEPT ![w] = Answer(w, q, v)]
        BY <1>2 DEF Begin
    <2>2. /\ Busy(w)'
          /\ \A u \in Worker \ {w} : UNCHANGED <<answer[u], todo[u]>>
        BY <1>2, <2>1, AnswersAreNotNoReply DEF Busy, Inv, Shape
    <2>3. Shape'
        BY <1>2, <2>1 DEF Inv, Shape
    <2>4. \A r \in Row : \/ lock'[r] = lock[r] /\ current'[r] = current[r]
                         \/ lock'[r] = w
        BY <1>2 DEF Inv, Shape
    <2>5. \A u \in Worker \ {w} : IdleOwnsNothing(u)'
        BY <2>2, <2>4, OthersStayIdle
    <2>6. \A r \in Row : lock'[r] = Free => current'[r] = committed'[r]
        BY <1>2, <2>4, FreeAssumption DEF Inv
    <2> QED BY <2>2, <2>3, <2>5, <2>6 DEF Inv, IdleOwnsNothing
<1>3. ASSUME NEW k, NEW end, Pop(w, k, end) PROVE Inv'
    <2>1. /\ \E q, v : Begin(w, q, v)
          /\ \E s : todo' = [todo EXCEPT ![w] = s]
          /\ BeginTrx(w)
        BY <1>3, Zenon DEF Pop
    <2>2. todo' = [todo EXCEPT ![w] = todo'[w]]
        BY <2>1 DEF Inv, Shape
    <2> QED BY <1>2, <2>1, <2>2 DEF BeginTrx
<1>4. ASSUME NEW k, NEW end, NEW v, Push(w, k, end, v) PROVE Inv'
    <2>1. /\ \E q, x : Begin(w, q, x)
          /\ \E s : todo' = [todo EXCEPT ![w] = s]
          /\ \E r, x : BeginTrxWriting(w, r, x)
        BY <1>4, Zenon DEF Push
    <2>2. todo' = [todo EXCEPT ![w] = todo'[w]]
        BY <2>1 DEF Inv, Shape
    <2> QED BY <1>2, <2>1, <2>2 DEF BeginTrxWriting
<1> QED BY <1>1, <1>3, <1>4 DEF Take, LLen, LRange

-----------------------------------------------------------------------------
\* A worker that runs a statement, in vain or not.
LEMMA ExecuteInv ==
    ASSUME Inv, NEW w \in Worker, Execute(w) \/ LockTimeout(w)
    PROVE  Inv'
<1>1. /\ todo[w] # <<>> /\ todo' = [todo EXCEPT ![w] = Tail(@)]
      /\ UNCHANGED answer
    BY DEF Execute, LockTimeout, WaitsFor
<1>2. \/ UNCHANGED engine
      \/ \E r, v : CanLock(w, r) /\ WriteRow(w, r, v)
    BY DEF Execute, LockTimeout, Apply, Skip
<1>3. /\ UNCHANGED <<committed, view>>
      /\ \/ UNCHANGED <<lock, current>>
         \/ \E r, v : /\ lock' = [lock EXCEPT ![r] = w]
                      /\ current' = [current EXCEPT ![r] = v]
    BY <1>2 DEF engine, WriteRow
<1>4. \A r \in Row : \/ lock'[r] = lock[r] /\ current'[r] = current[r]
                     \/ lock'[r] = w
    BY <1>3 DEF Inv, Shape
<1>5. Busy(w)'
    BY <1>1 DEF Inv, IdleOwnsNothing, Busy
<1>6. \A u \in Worker \ {w} : IdleOwnsNothing(u)'
    BY <1>1, <1>3, <1>4, OthersStayIdle DEF Inv, Shape
<1>7. Shape'
    BY <1>1, <1>3 DEF Inv, Shape
<1>8. \A r \in Row : lock'[r] = Free => current'[r] = committed'[r]
    BY <1>3, <1>4, FreeAssumption DEF Inv
<1> QED BY <1>5, <1>6, <1>7, <1>8 DEF Inv, IdleOwnsNothing

\* A transaction that ends, by a commit or as the victim of a deadlock.
LEMMA EndOfTrxInv ==
    ASSUME Inv, NEW w \in Worker, Commit(w) \/ Deadlock(w)
    PROVE  Inv'
<1>1. CommitTrx(w) \/ RollbackTrx(w)
    BY DEF Commit, Deadlock
<1>2. /\ lock' = [r \in Row |-> IF lock[r] = w THEN Free ELSE lock[r]]
      /\ view' = [view EXCEPT ![w] = NoTrx]
    BY <1>1 DEF CommitTrx, RollbackTrx
<1>3. /\ \A r \in Row : lock[r] # w => /\ committed'[r] = committed[r]
                                       /\ current'[r] = current[r]
      /\ \A r \in Row : lock[r] = w => committed'[r] = current'[r]
      /\ DOMAIN committed' = Row /\ DOMAIN current' = Row
    BY <1>1 DEF CommitTrx, RollbackTrx, Inv, Shape
<1>4. /\ DOMAIN todo' = Worker /\ DOMAIN answer' = Worker /\ todo'[w] = <<>>
      /\ \A u \in Worker \ {w} : UNCHANGED <<answer[u], todo[u]>>
    BY DEF Commit, Deadlock, Inv, Shape
<1>5. Shape'
    BY <1>2, <1>3, <1>4 DEF Inv, Shape
<1>6. IdleOwnsNothing(w)'
    BY <1>2, <1>4, FreeAssumption DEF IdleOwnsNothing
<1>7. \A u \in Worker \ {w} : IdleOwnsNothing(u)'
    BY <1>2, <1>4, FreeAssumption, OthersStayIdle
<1>8. \A r \in Row : lock'[r] = Free => current'[r] = committed'[r]
    BY <1>2, <1>3 DEF Inv
<1> QED BY <1>5, <1>6, <1>7, <1>8 DEF Inv

\* A restart leaves what is committed, and nobody in the middle of anything.
LEMMA RestartInv ==
    ASSUME Inv, Restart
    PROVE  Inv'
BY FreeAssumption DEF Restart, RecoverTrx, Inv, Shape, IdleOwnsNothing

\* Every step keeps the invariant.
LEMMA NextInv == Inv /\ [Next]_vars => Inv'
<1> SUFFICES ASSUME Inv, [Next]_vars PROVE Inv'
    OBVIOUS
<1>1. CASE UNCHANGED vars
    BY <1>1 DEF vars, Inv, Shape, IdleOwnsNothing, Busy
<1> QED BY <1>1, TakeInv, ExecuteInv, EndOfTrxInv, RestartInv DEF Next, Step

\* A worker that has replied owns no row, and nothing is half written.
THEOREM NothingIsLeftBehind == Spec => []NothingLeftBehind
<1>1. Inv => NothingLeftBehind
    BY DEF Inv, NothingLeftBehind, IdleOwnsNothing
<1> QED BY <1>1, InitInv, NextInv, PTL DEF Spec

-----------------------------------------------------------------------------
\* The rows and the cursors.

\* The rows of two keys or two elements differ, and those of the two tables.
LEMMA RowsDiffer ==
    /\ \A k \in Key : Lists(k) \in Row /\ Lists(k)[1] = "lists" /\ Lists(k)[2] = k
    /\ \A i \in Id : Data(i) \in Row /\ Data(i)[1] = "lists-data" /\ Data(i)[2] = i
    /\ \A j, k : Lists(j) = Lists(k) => j = k
    /\ \A i, j : Data(i) = Data(j) => i = j
    /\ \A k, i : Lists(k) # Data(i)
    /\ \A r \in Row : \/ \E k \in Key : r = Lists(k)
                      \/ \E i \in Id : r = Data(i)
BY DEF Lists, Data, Row

\* The row that is asked for is found where it exists.
LEMMA PositionIsExact ==
    ASSUME NEW sees
    PROVE  /\ \A k \in Key : sees[Lists(k)] # NoRow
                                => PositionGE(sees, "lists", k) = Lists(k)
           /\ \A i \in Id : sees[Data(i)] # NoRow
                                => PositionGE(sees, "lists-data", i) = Data(i)
<1>1. ASSUME NEW k \in Key, sees[Lists(k)] # NoRow
      PROVE  PositionGE(sees, "lists", k) = Lists(k)
    <2> DEFINE after == {r \in Row : r[1] = "lists" /\ r[2] >= k /\ sees[r] # NoRow}
    <2>1. Lists(k) \in after
        BY <1>1, RowsDiffer, KeyAssumption
    <2>2. \A r \in after : r[2] \in Nat /\ k <= r[2] /\ (r[2] <= k => r = Lists(k))
        BY RowsDiffer, KeyAssumption DEF Data
    <2>3. k \in Nat /\ Lists(k)[2] = k
        BY RowsDiffer, KeyAssumption
    <2> DEFINE first == CHOOSE r \in after : \A s \in after : r[2] <= s[2]
    <2>4. first \in after /\ \A s \in after : first[2] <= s[2]
        <3> HIDE DEF after
        <3> QED BY <2>1, <2>2, <2>3
    <2>5. first = Lists(k)
        <3> HIDE DEF after, first
        <3> QED BY <2>1, <2>2, <2>3, <2>4
    <2>6. PositionGE(sees, "lists", k) = first
        BY <2>1 DEF PositionGE
    <2> QED BY <2>5, <2>6
<1>2. ASSUME NEW i \in Id, sees[Data(i)] # NoRow
      PROVE  PositionGE(sees, "lists-data", i) = Data(i)
    <2> DEFINE after == {r \in Row : r[1] = "lists-data" /\ r[2] >= i /\ sees[r] # NoRow}
    <2>1. Data(i) \in after
        BY <1>2, RowsDiffer, IdAssumption
    <2>2. \A r \in after : r[2] \in Nat /\ i <= r[2] /\ (r[2] <= i => r = Data(i))
        BY RowsDiffer, IdAssumption DEF Lists
    <2>3. i \in Nat /\ Data(i)[2] = i
        BY RowsDiffer, IdAssumption
    <2> DEFINE first == CHOOSE r \in after : \A s \in after : r[2] <= s[2]
    <2>4. first \in after /\ \A s \in after : first[2] <= s[2]
        <3> HIDE DEF after
        <3> QED BY <2>1, <2>2, <2>3
    <2>5. first = Data(i)
        <3> HIDE DEF after, first
        <3> QED BY <2>1, <2>2, <2>3, <2>4
    <2>6. PositionGE(sees, "lists-data", i) = first
        BY <2>1 DEF PositionGE
    <2> QED BY <2>5, <2>6
<1> QED BY <1>1, <1>2

\* What a read of `lists-data' returns.
LEMMA ReadIsTyped ==
    ASSUME NEW t, \A i \in Id : t[Data(i)] \in DataRows \cup {NoRow}, NEW i \in Id
    PROVE  /\ ReadGE(t, i).val \in Val \cup {NoVal} /\ ReadGE(t, i).next \in Ref
           /\ t[Data(i)] # NoRow => ReadGE(t, i) = t[Data(i)]
<1> DEFINE after == {r \in Row : r[1] = "lists-data" /\ r[2] >= i /\ t[r] # NoRow}
           first == CHOOSE r \in after : \A s \in after : r[2] <= s[2]
<1>1. \A r \in after : r[2] \in Nat /\ t[r] \in DataRows
    BY RowsDiffer, IdAssumption DEF Lists
<1>2. after # {} => first \in after
    <2> SUFFICES ASSUME after # {} PROVE first \in after
        OBVIOUS
    <2> HIDE DEF after
    <2> DEFINE N == {r[2] : r \in after}
    <2>1. N \in SUBSET Nat /\ N # {}
        BY <1>1
    <2>2. \E n \in N : \A m \in N : n <= m
        <3> HIDE DEF N
        <3> QED BY <2>1, LeastNat
    <2>3. \E r \in after : \A s \in after : r[2] <= s[2]
        BY <2>2
    <2> QED BY <2>3
<1>3. PositionGE(t, "lists-data", i) = IF after = {} THEN NoRow ELSE first
    BY DEF PositionGE
<1>4. \/ ReadGE(t, i) = [val |-> NoVal, prev |-> 0, next |-> 0]
      \/ \E r \in after : ReadGE(t, i) = t[r]
    <2> HIDE DEF after, first
    <2> QED BY <1>2, <1>3 DEF ReadGE
<1>5. /\ ReadGE(t, i).val \in Val \cup {NoVal} /\ ReadGE(t, i).next \in Ref
    <2> HIDE DEF after
    <2> QED BY <1>1, <1>4 DEF DataRows, Ref
<1>6. t[Data(i)] # NoRow => ReadGE(t, i) = t[Data(i)]
    <2>1. Data(i) # NoRow
        BY RowsDiffer, NoRowAssumption
    <2> QED BY <2>1, PositionIsExact DEF ReadGE
<1> QED BY <1>5, <1>6

-----------------------------------------------------------------------------
\* Chains of rows, and the loops that walk along them.

\* The rows of a chain are linked in its order.
Linked(t, c) ==
    \A j \in 1 .. Len(c) :
        /\ t[Data(c[j])] \in DataRows
        /\ t[Data(c[j])].prev = (IF j = 1 THEN 0 ELSE c[j - 1])
        /\ t[Data(c[j])].next = (IF j = Len(c) THEN 0 ELSE c[j + 1])

\* The ids from position p of a chain on begin with this one; none is 0.
At(c, p) == IF p \in 1 .. Len(c) THEN c[p] ELSE 0

DataTyped(t) == \A i \in Id : t[Data(i)] \in DataRows \cup {NoRow}

\* Where the rows are linked in the order of c, ChainFrom walks along c.
LEMMA ChainIs ==
    ASSUME NEW t, DataTyped(t), NEW c \in Seq(Id), Len(c) <= Cardinality(Id), Linked(t, c)
    PROVE  ChainFrom(t, At(c, 1)) = c
<1> DEFINE N == Cardinality(Id)
           L == Len(c)
<1>1. N \in Nat /\ L \in Nat /\ L <= N
    BY IdAssumption, FS_CardinalityType
<1>2. \A j \in 1 .. L : c[j] \in Id /\ c[j] # 0 /\ c[j] \in Ref
    BY IdAssumption DEF Ref
<1>3. \A j \in Id : t[Data(j)] # NoRow => t[Data(j)].next \in Ref
    BY DEF DataTyped, DataRows
<1> DEFINE IsChain(g) == g = [n \in 0 .. N |-> [j \in Ref |->
                                IF j = 0 \/ n = 0 \/ t[Data(j)] = NoRow THEN <<>>
                                ELSE <<j>> \o g[n - 1][t[Data(j)].next]]]
           chain == CHOOSE g : IsChain(g)
           V == [Ref -> Seq(Ref)]
           F == [n \in Nat |-> [g \in V |-> [j \in Ref |->
                    IF j = 0 \/ t[Data(j)] = NoRow THEN <<>>
                    ELSE <<j>> \o g[t[Data(j)].next]]]]
<1>4. ChainFrom(t, At(c, 1)) = chain[N][At(c, 1)]
    BY DEF ChainFrom
<1>5. \E g : IsChain(g)
    <2>1. F \in [Nat -> [V -> V]]
        <3>1. ASSUME NEW g \in V, NEW j \in Ref, j # 0, t[Data(j)] # NoRow
              PROVE  <<j>> \o g[t[Data(j)].next] \in Seq(Ref)
            <4>1. j \in Id /\ t[Data(j)].next \in Ref
                BY <1>3, <3>1 DEF Ref
            <4>2. <<j>> \in Seq(Ref) /\ g[t[Data(j)].next] \in Seq(Ref)
                BY <4>1
            <4> QED BY <4>2, ConcatProperties
        <3>2. <<>> \in Seq(Ref)
            OBVIOUS
        <3> QED BY <3>1, <3>2
    <2>2. [j \in Ref |-> <<>>] \in V
        OBVIOUS
    <2> DEFINE x == [j \in Ref |-> <<>>]
    <2>3. \E f : Goes(f, V, x, F)
        <3>1. x \in V
            BY <2>2
        <3> HIDE DEF F, V, x
        <3> QED BY <2>1, <3>1, Recursion
    <2>4. PICK f \in [Nat -> V] : f[0] = x /\ \A n \in Nat : f[n + 1] = F[n][f[n]]
        BY <2>3 DEF Goes
    <2> DEFINE h == [n \in 0 .. N |-> f[n]]
    <2>5. ASSUME NEW n \in 0 .. N
          PROVE  h[n] = [j \in Ref |-> IF j = 0 \/ n = 0 \/ t[Data(j)] = NoRow THEN <<>>
                                       ELSE <<j>> \o h[n - 1][t[Data(j)].next]]
        <3>1. CASE n = 0
            BY <1>1, <2>4, <3>1
        <3>2. CASE n # 0
            <4>1. n - 1 \in Nat /\ (n - 1) + 1 = n /\ n - 1 \in 0 .. N
                BY <1>1, <3>2
            <4>2. h[n] = F[n - 1][f[n - 1]]
                BY <2>4, <4>1
            <4>3. f[n - 1] \in V /\ h[n - 1] = f[n - 1]
                BY <4>1
            <4> HIDE DEF h
            <4> QED BY <3>2, <4>1, <4>2, <4>3
        <3> QED BY <3>1, <3>2
    <2>6. IsChain(h)
        BY <2>5
    <2> QED BY <2>6
<1>6. IsChain(chain)
    <2> HIDE DEF IsChain
    <2> QED BY <1>5
<1> HIDE DEF chain
<1>7. ASSUME NEW n \in 0 .. N, NEW j \in Ref
      PROVE  chain[n][j] = IF j = 0 \/ n = 0 \/ t[Data(j)] = NoRow THEN <<>>
                           ELSE <<j>> \o chain[n - 1][t[Data(j)].next]
    <2>1. chain[n] = [i \in Ref |-> IF i = 0 \/ n = 0 \/ t[Data(i)] = NoRow THEN <<>>
                                    ELSE <<i>> \o chain[n - 1][t[Data(i)].next]]
        BY <1>6, Zenon
    <2> QED BY <2>1, Zenon
<1> HIDE DEF IsChain
<1> DEFINE Done(m) == m <= L => \A n \in m .. N : chain[n][At(c, L + 1 - m)]
                                                      = SubSeq(c, L + 1 - m, L)
           M == {m \in Nat : Done(m)}
<1>8. 0 \in M
    <2>1. ASSUME NEW n \in 0 .. N PROVE chain[n][0] = <<>>
        BY <1>7 DEF Ref
    <2>2. At(c, L + 1) = 0 /\ SubSeq(c, L + 1, L) = <<>>
        BY <1>1, SubSeqEmpty DEF At
    <2>3. L + 1 - 0 = L + 1
        BY <1>1
    <2>4. Done(0)
        BY <2>1, <2>2, <2>3
    <2> QED BY <2>4
<1>9. ASSUME NEW m \in Nat, m \in M PROVE m + 1 \in M
    <2> SUFFICES ASSUME m + 1 <= L, NEW n \in (m + 1) .. N
                 PROVE  chain[n][At(c, L - m)] = SubSeq(c, L - m, L)
        BY <1>1
    <2> DEFINE p == L - m
    <2>1. p \in 1 .. L /\ p + 1 = L + 1 - m /\ n - 1 \in m .. N /\ n \in 0 .. N /\ n # 0
        BY <1>1
    <2>2. At(c, p) = c[p] /\ c[p] \in Id /\ c[p] # 0 /\ c[p] \in Ref
        BY <1>2, <2>1 DEF At
    <2>3. t[Data(c[p])] # NoRow /\ t[Data(c[p])].next = At(c, p + 1)
        BY <1>1, <2>1, NoRowAssumption DEF Linked, At
    <2>4. chain[n - 1][At(c, p + 1)] = SubSeq(c, p + 1, L)
        BY <1>1, <1>9, <2>1
    <2> HIDE DEF p
    <2>5. chain[n][c[p]] = <<c[p]>> \o SubSeq(c, p + 1, L)
        BY <1>7, <2>1, <2>2, <2>3, <2>4
    <2>6. SubSeq(c, p, L) = <<c[p]>> \o SubSeq(c, p + 1, L)
        BY <1>1, <2>1, SubSeqRecursiveFirst
    <2> QED BY <2>2, <2>5, <2>6 DEF p
<1> HIDE DEF M
<1>10. Nat \subseteq M
    BY <1>8, <1>9, Induct
<1>11. chain[N][At(c, 1)] = SubSeq(c, 1, L)
    <2>1. L \in M /\ N \in L .. N /\ L + 1 - L = 1 /\ L <= L
        BY <1>1, <1>10
    <2>2. Done(L)
        BY <2>1 DEF M
    <2> QED BY <2>1, <2>2
<1> QED BY <1>4, <1>11, SubSeqFull

\* The loop of lrange delivers the values of the elements from `start' to
\* `stop', as far as there are any.
LEMMA RangeIs ==
    ASSUME NEW t, DataTyped(t), NEW c \in Seq(Id), Linked(t, c),
           NEW start \in Nat, NEW stop \in Nat,
           NEW vals \in Seq(Val), Len(vals) = Len(c),
           \A j \in 1 .. Len(c) : vals[j] = t[Data(c[j])].val
    PROVE  RangeFrom(t, At(c, 1), start, stop)
               = SubSeq(vals, start + 1, IF stop < Len(c) THEN stop + 1 ELSE Len(c))
<1> DEFINE L == Len(c)
           E == IF stop < L THEN stop + 1 ELSE L
           From(p) == IF p >= start THEN p + 1 ELSE start + 1
<1>1. L \in Nat /\ E \in 0 .. L /\ E \in 0 .. stop + 1 /\ (E = L \/ E = stop + 1)
    OBVIOUS
<1>2. \A j \in 1 .. L : c[j] \in Id /\ c[j] # 0
    BY IdAssumption
<1>3. \A j \in Id : /\ ReadGE(t, j).val \in Val \cup {NoVal}
                    /\ ReadGE(t, j).next \in Ref
                    /\ t[Data(j)] # NoRow => ReadGE(t, j) = t[Data(j)]
    BY ReadIsTyped DEF DataTyped
<1> DEFINE Next1(i, pos, g) == (IF pos >= start THEN <<ReadGE(t, i).val>> ELSE <<>>)
                               \o g[ReadGE(t, i).next]
           IsWalk(g) == g = [pos \in Nat |-> [i \in Ref |->
                               IF i = 0 \/ pos > stop THEN <<>>
                               ELSE (IF pos >= start THEN <<ReadGE(t, i).val>> ELSE <<>>)
                                    \o g[pos + 1][ReadGE(t, i).next]]]
           walk == CHOOSE g : IsWalk(g)
           S == Val \cup {NoVal}
           V == [Ref -> Seq(S)]
           F == [n \in Nat |-> [g \in V |-> [i \in Ref |->
                    IF i = 0 THEN <<>> ELSE Next1(i, stop - n, g)]]]
           x == [i \in Ref |-> <<>>]
<1>4. RangeFrom(t, At(c, 1), start, stop) = walk[0][At(c, 1)]
    BY DEF RangeFrom
<1>5. \E g : IsWalk(g)
    <2>1. x \in V
        OBVIOUS
    <2>2. F \in [Nat -> [V -> V]]
        <3>1. ASSUME NEW g \in V, NEW i \in Ref, i # 0, NEW pos \in Int
              PROVE  Next1(i, pos, g) \in Seq(S)
            <4>1. i \in Id /\ ReadGE(t, i).next \in Ref /\ ReadGE(t, i).val \in S
                BY <1>3, <3>1 DEF Ref
            <4> DEFINE a == IF pos >= start THEN <<ReadGE(t, i).val>> ELSE <<>>
                       b == g[ReadGE(t, i).next]
            <4>2. a \in Seq(S)
                <5>1. <<ReadGE(t, i).val>> \in Seq(S)
                    BY <4>1
                <5>2. <<>> \in Seq(S)
                    OBVIOUS
                <5> HIDE DEF S
                <5> QED BY <5>1, <5>2
            <4>4. b \in Seq(S)
                <5> HIDE DEF S
                <5> QED BY <4>1
            <4>3. a \o b \in Seq(S)
                <5> HIDE DEF a, b, S
                <5> QED BY <4>2, <4>4, ConcatProperties
            <4> QED BY <4>3
        <3>2. <<>> \in Seq(S)
            OBVIOUS
        <3> HIDE DEF Next1, S
        <3> QED BY <3>1, <3>2
    <2>3. \E f : Goes(f, V, x, F)
        <3> HIDE DEF F, V, x
        <3> QED BY <2>1, <2>2, Recursion
    <2>4. PICK f \in [Nat -> V] : f[0] = x /\ \A n \in Nat : f[n + 1] = F[n][f[n]]
        BY <2>3 DEF Goes
    <2> DEFINE h == [pos \in Nat |-> IF pos > stop THEN x ELSE f[stop + 1 - pos]]
    <2>5. ASSUME NEW pos \in Nat
          PROVE  h[pos] = [i \in Ref |-> IF i = 0 \/ pos > stop THEN <<>>
                                         ELSE Next1(i, pos, h[pos + 1])]
        <3>1. CASE pos > stop
            BY <3>1
        <3>2. CASE pos <= stop
            <4> DEFINE n == stop - pos
            <4>1. n \in Nat /\ n + 1 = stop + 1 - pos /\ stop - n = pos
                BY <3>2
            <4>2. h[pos + 1] = f[n]
                <5>1. CASE pos = stop
                    BY <2>4, <5>1
                <5>2. CASE pos # stop
                    <6>1. pos + 1 <= stop /\ stop + 1 - (pos + 1) = n
                        BY <3>2, <5>2
                    <6> QED BY <6>1
                <5> QED BY <5>1, <5>2
            <4>3. h[pos] = f[stop + 1 - pos]
                BY <3>2
            <4>4. h[pos] = f[n + 1]
                BY <4>1, <4>3
            <4>5. f[n + 1] = F[n][f[n]] /\ f[n] \in V
                <5> HIDE DEF F, V, n
                <5> QED BY <2>4, <4>1
            <4> HIDE DEF n, h, Next1
            <4>6. F[n][f[n]] = [i \in Ref |-> IF i = 0 THEN <<>> ELSE Next1(i, stop - n, f[n])]
                <5> HIDE DEF V
                <5> QED BY <4>1, <4>5
            <4> HIDE DEF F, V
            <4>7. h[pos] = [i \in Ref |-> IF i = 0 THEN <<>> ELSE Next1(i, pos, h[pos + 1])]
                BY <4>1, <4>2, <4>4, <4>5, <4>6
            <4> QED BY <3>2, <4>7
        <3> QED BY <3>1, <3>2
    <2> HIDE DEF x
    <2>6. IsWalk(h)
        BY <2>5
    <2> QED BY <2>6
<1>6. IsWalk(walk)
    <2> HIDE DEF IsWalk
    <2> QED BY <1>5
<1> HIDE DEF walk
<1>7. ASSUME NEW pos \in Nat, NEW i \in Ref
      PROVE  walk[pos][i] = IF i = 0 \/ pos > stop THEN <<>>
                            ELSE Next1(i, pos, walk[pos + 1])
    <2>1. walk[pos] = [j \in Ref |-> IF j = 0 \/ pos > stop THEN <<>>
                               ELSE (IF pos >= start THEN <<ReadGE(t, j).val>> ELSE <<>>)
                                    \o walk[pos + 1][ReadGE(t, j).next]]
        BY <1>6, Zenon
    <2> QED BY <2>1, Zenon
<1> HIDE DEF IsWalk, Next1
<1> DEFINE Done(m) == m <= E => walk[E - m][At(c, E - m + 1)] = SubSeq(vals, From(E - m), E)
           M == {m \in Nat : Done(m)}
<1>8. 0 \in M
    <2>1. At(c, E + 1) = 0 \/ E > stop
        BY <1>1 DEF At
    <2>2. At(c, E + 1) \in Ref /\ E \in Nat
        BY <1>1, <1>2 DEF At, Ref
    <2>3. walk[E][At(c, E + 1)] = <<>>
        BY <1>7, <2>1, <2>2
    <2>4. From(E) \in Int /\ E < From(E) /\ E \in Int
        BY <1>1
    <2>5. SubSeq(vals, From(E), E) = <<>>
        <3> HIDE DEF From, E
        <3> QED BY <2>4, SubSeqEmpty
    <2>6. E - 0 = E /\ E - 0 + 1 = E + 1
        BY <2>4
    <2> HIDE DEF E, From
    <2>7. Done(0)
        BY <2>3, <2>5, <2>6
    <2> QED BY <2>7
<1>9. ASSUME NEW m \in Nat, m \in M PROVE m + 1 \in M
    <2> DEFINE p == E - (m + 1)
    <2> SUFFICES ASSUME m + 1 <= E
                 PROVE  walk[p][At(c, p + 1)] = SubSeq(vals, From(p), E)
        <3> HIDE DEF E, From
        <3> QED OBVIOUS
    <2>1. p \in Nat /\ p + 1 = E - m /\ p + 1 \in 1 .. E /\ p + 1 \in 1 .. L /\ p <= stop
        BY <1>1
    <2>2. walk[p + 1][At(c, p + 2)] = SubSeq(vals, From(p + 1), E)
        <3>1. E - m + 1 = p + 2 /\ m <= E
            BY <1>1, <2>1
        <3> HIDE DEF From, E, p
        <3> QED BY <1>9, <2>1, <3>1
    <2> DEFINE e == c[p + 1]
    <2>3. At(c, p + 1) = e /\ e \in Id /\ e # 0 /\ e \in Ref
        BY <1>2, <2>1 DEF At, Ref
    <2>4. /\ t[Data(e)] # NoRow
          /\ t[Data(e)].next = At(c, p + 2)
          /\ t[Data(e)].val = vals[p + 1]
        <3> DEFINE q == p + 1
        <3>1. q \in 1 .. Len(c) /\ p + 2 = q + 1
            BY <2>1
        <3>2. t[Data(c[q])].next = At(c, q + 1) /\ t[Data(c[q])] \in DataRows
            <4> HIDE DEF q, p, e
            <4> QED BY <3>1 DEF Linked, At
        <3> QED BY <3>1, <3>2, NoRowAssumption
    <2>5. walk[p][e] = (IF p >= start THEN <<vals[p + 1]>> ELSE <<>>)
                       \o SubSeq(vals, From(p + 1), E)
        <3> HIDE DEF p, e, From, E
        <3>1. ReadGE(t, e) = t[Data(e)]
            BY <1>3, <2>3, <2>4
        <3>2. walk[p][e] = Next1(e, p, walk[p + 1])
            BY <1>7, <2>1, <2>3
        <3> QED BY <2>2, <2>4, <3>1, <3>2 DEF Next1
    <2>6. CASE p >= start
        <3>1. /\ From(p) = p + 1 /\ From(p + 1) = (p + 1) + 1
              /\ p + 1 \in 1 .. Len(vals) /\ E \in (p + 1) .. Len(vals)
            BY <1>1, <2>1, <2>6
        <3>2. SubSeq(vals, p + 1, E) = <<vals[p + 1]>> \o SubSeq(vals, (p + 1) + 1, E)
            <4> HIDE DEF p, E
            <4> QED BY <3>1, SubSeqRecursiveFirst
        <3> HIDE DEF p, e, E, From
        <3> QED BY <2>3, <2>5, <2>6, <3>1, <3>2
    <2>7. CASE p < start
        <3>1. From(p) = start + 1 /\ From(p + 1) = start + 1 /\ ~(p >= start)
            BY <2>1, <2>7
        <3>2. SubSeq(vals, start + 1, E) \in Seq(Val)
            <4>1. \A i \in start + 1 .. E : vals[i] \in Val
                BY <1>1
            <4>2. start + 1 \in Int /\ E \in Int
                BY <1>1
            <4> HIDE DEF E
            <4> QED BY <4>1, <4>2, SubSeqProperties
        <3>3. <<>> \o SubSeq(vals, start + 1, E) = SubSeq(vals, start + 1, E)
            <4> HIDE DEF E
            <4> QED BY <3>2, ConcatEmptySeq
        <3> HIDE DEF p, e, E, From
        <3> QED BY <2>3, <2>5, <3>1, <3>3
    <2>8. p >= start \/ p < start
        BY <2>1
    <2> HIDE DEF p, E, From
    <2> QED BY <2>6, <2>7, <2>8
<1> HIDE DEF M
<1>10. Nat \subseteq M
    BY <1>8, <1>9, Induct
<1>11. walk[0][At(c, 1)] = SubSeq(vals, start + 1, E)
    <2>1. E \in M /\ E <= E /\ E - E = 0 /\ From(0) = start + 1
        BY <1>1, <1>10
    <2> HIDE DEF E, From
    <2>2. Done(E)
        BY <2>1 DEF M
    <2> QED BY <2>1, <2>2
<1> QED BY <1>4, <1>11

-----------------------------------------------------------------------------
\* The commands, and what each leaves of the rows it changes.

\* A command that writes, with the element that it pushes or pops.
Commands == [op : {"push", "pop"}, key : Key, end : Ends, val : Val, id : Id]

\* Whether it may run on the rows t.
Possible(t, c) ==
    IF c.op = "push" THEN t[Data(c.id)] = NoRow
    ELSE /\ t[Lists(c.key)] # NoRow
         /\ c.id = t[Lists(c.key)][c.end]
         /\ c.val = t[Data(c.id)].val

\* The element beside it, or 0.
Beside(t, c) == IF c.op = "push" THEN ReadHead(t, c.key)[c.end]
                ELSE t[Data(c.id)][Inward(c.end)]

NewElement(t, c) == IF c.op = "push" THEN Element(c.end, c.val, Beside(t, c)) ELSE NoRow

NewBeside(t, c) ==
    [t[Data(Beside(t, c))] EXCEPT ![Outward(c.end)] = IF c.op = "push" THEN c.id ELSE 0]

Shrunk(t, c) ==
    LET h == ReadHead(t, c.key)
    IN  [h EXCEPT ![c.end] = Beside(t, c), !.count = IF h.count = 0 THEN 0 ELSE h.count - 1,
                  ![Other(c.end)] = IF Beside(t, c) = 0 THEN 0 ELSE @]

NewLists(t, c) ==
    IF c.op = "pop" THEN IF Shrunk(t, c).count = 0 THEN NoRow ELSE Shrunk(t, c)
    ELSE IF t[Lists(c.key)] = NoRow THEN [head |-> c.id, tail |-> c.id, count |-> 1]
    ELSE [ReadHead(t, c.key) EXCEPT ![c.end] = c.id, !.count = @ + 1]

\* The rows it changes, and all rows as it is to leave them.
Changes(t, c) == {Lists(c.key), Data(c.id)}
                 \cup (IF Beside(t, c) = 0 THEN {} ELSE {Data(Beside(t, c))})

After(t, c) ==
    [r \in Row |-> IF r = Lists(c.key) THEN NewLists(t, c)
                   ELSE IF r = Data(c.id) THEN NewElement(t, c)
                   ELSE IF r \in Changes(t, c) THEN NewBeside(t, c)
                   ELSE t[r]]

\* The chain it leaves of l.
NewChain(l, c) ==
    IF c.op = "push" THEN IF c.end = "head" THEN <<c.id>> \o l ELSE Append(l, c.id)
    ELSE IF c.end = "head" THEN Tail(l) ELSE SubSeq(l, 1, Len(l) - 1)

HeadOf(l) ==
    IF l = <<>> THEN NoRow ELSE [head |-> l[1], tail |-> l[Len(l)], count |-> Len(l)]

Distinct(l) == \A a, b \in 1 .. Len(l) : l[a] = l[b] => a = b

\* The rows t have the chain l at the key k.
HasChain(t, k, l) ==
    l \in Seq(Id) /\ Distinct(l) /\ Linked(t, l) /\ t[Lists(k)] = HeadOf(l)

\* The ids of a chain.
Ids(l) == {l[a] : a \in 1 .. Len(l)}

\* What a command does to one chain.
ChainMoves(t, c, l) ==
    LET new == NewChain(l, c)
    IN  /\ HasChain(After(t, c), c.key, new)
        /\ Ids(new) = IF c.op = "push" THEN Ids(l) \cup {c.id} ELSE Ids(l) \ {c.id}
        /\ c.op = "pop" => c.id \in Ids(l)
        /\ Beside(t, c) = 0 \/ Beside(t, c) \in Ids(l) \ {c.id}
        /\ NewElement(t, c) \in DataRows \cup {NoRow}
        /\ Beside(t, c) # 0 => NewBeside(t, c) \in DataRows
        /\ \A i \in Ids(l) \cap Ids(new) : After(t, c)[Data(i)].val = t[Data(i)].val
        /\ c.op = "push" => After(t, c)[Data(c.id)].val = c.val

\* A row of lists-data, column by column.
LEMMA Columns ==
    ASSUME NEW x \in DataRows, NEW y
    PROVE  /\ [x EXCEPT !["prev"] = y] = [val |-> x.val, prev |-> y, next |-> x.next]
           /\ [x EXCEPT !["next"] = y] = [val |-> x.val, prev |-> x.prev, next |-> y]
           /\ x["prev"] = x.prev /\ x["next"] = x.next
           /\ x = [val |-> x.val, prev |-> x.prev, next |-> x.next]
<1>1. PICK a \in Val, b \in Ref, e \in Ref : x = [val |-> a, prev |-> b, next |-> e]
    BY DEF DataRows
<1>2. x.val = a /\ x.prev = b /\ x.next = e /\ x["prev"] = b /\ x["next"] = e
    BY <1>1
<1> DEFINE z == [val |-> a, prev |-> b, next |-> e]
<1>3. [z EXCEPT !["prev"] = y] = [val |-> a, prev |-> y, next |-> e]
    OBVIOUS
<1>5. [z EXCEPT !["next"] = y] = [val |-> a, prev |-> b, next |-> y]
    OBVIOUS
<1> HIDE DEF z
<1>4. x = z
    BY <1>1 DEF z
<1> QED BY <1>1, <1>2, <1>3, <1>4, <1>5

\* What a command leaves in each row.
LEMMA AfterRows ==
    ASSUME NEW t, NEW c \in Commands
    PROVE  /\ After(t, c)[Lists(c.key)] = NewLists(t, c)
           /\ After(t, c)[Data(c.id)] = NewElement(t, c)
           /\ \A i \in Id \ {c.id} : After(t, c)[Data(i)] = IF i = Beside(t, c) THEN NewBeside(t, c)
                                                            ELSE t[Data(i)]
           /\ \A k \in Key \ {c.key} : After(t, c)[Lists(k)] = t[Lists(k)]
<1>1. c.key \in Key /\ c.id \in Id
    BY DEF Commands
<1>2. \A i \in Id : Data(i) \in Changes(t, c) <=> i = c.id \/ i = Beside(t, c)
    BY <1>1, RowsDiffer, IdAssumption DEF Changes
<1>3. \A k \in Key : Lists(k) \in Changes(t, c) <=> k = c.key
    BY <1>1, RowsDiffer DEF Changes
<1> QED BY <1>1, <1>2, <1>3, RowsDiffer DEF After

\* Distinct ids are no more than there are.
LEMMA ChainsAreShort ==
    ASSUME NEW l \in Seq(Id), Distinct(l)
    PROVE  /\ Len(l) <= Cardinality(Id)
           /\ l # <<>> => HeadOf(l) \in HeadRows
<1>1. Len(l) \in Nat /\ l \in [1 .. Len(l) -> Id]
    OBVIOUS
<1>2. l \in Injection(1 .. Len(l), Id)
    BY <1>1 DEF Distinct, Injection, IsInjective
<1>3. Cardinality(1 .. Len(l)) = Len(l)
    BY <1>1, FS_Interval
<1>4. Len(l) <= Cardinality(Id)
    BY <1>2, <1>3, IdAssumption, FS_Injection
<1>5. ASSUME l # <<>> PROVE HeadOf(l) \in HeadRows
    <2>1. Len(l) \in 1 .. Cardinality(Id) /\ l[1] \in Id /\ l[Len(l)] \in Id
        BY <1>1, <1>4, <1>5, IdAssumption, FS_CardinalityType
    <2> QED BY <1>5, <2>1 DEF HeadOf, HeadRows
<1> QED BY <1>4, <1>5

\* What is read of a chain's head row.
LEMMA HeadIs ==
    ASSUME NEW t, NEW k \in Key, NEW l, HasChain(t, k, l)
    PROVE  /\ Len(l) \in Nat /\ \A a \in 1 .. Len(l) : l[a] \in Id /\ l[a] # 0
           /\ l = <<>> <=> Len(l) = 0
           /\ t[Lists(k)] = NoRow <=> l = <<>>
           /\ ReadHead(t, k) = [head |-> At(l, 1), tail |-> At(l, Len(l)), count |-> Len(l)]
<1>1. l \in Seq(Id)
    BY DEF HasChain
<1>2. Len(l) \in Nat /\ \A a \in 1 .. Len(l) : l[a] \in Id /\ l[a] # 0
    BY <1>1, IdAssumption
<1>3. l = <<>> <=> Len(l) = 0
    BY <1>1
<1>4. t[Lists(k)] = NoRow <=> l = <<>>
    <2>1. ASSUME l # <<>> PROVE t[Lists(k)] # NoRow
        <3>1. HeadOf(l) \in HeadRows
            BY <2>1, ChainsAreShort DEF HasChain
        <3> QED BY <3>1, NoRowAssumption DEF HasChain
    <2> QED BY <2>1 DEF HasChain, HeadOf
<1>5. ReadHead(t, k) = [head |-> At(l, 1), tail |-> At(l, Len(l)), count |-> Len(l)]
    <2>1. CASE l = <<>>
        BY <1>3, <1>4, <2>1 DEF ReadHead, At
    <2>2. CASE l # <<>>
        <3>1. At(l, 1) = l[1] /\ At(l, Len(l)) = l[Len(l)]
            BY <1>2, <1>3, <2>2 DEF At
        <3> QED BY <1>4, <2>2, <3>1 DEF ReadHead, HasChain, HeadOf
    <2> QED BY <2>1, <2>2
<1> QED BY <1>2, <1>3, <1>4, <1>5

\* lpush moves a chain as it is meant to.
LEMMA PushHead ==
    ASSUME NEW t, NEW c \in Commands, Possible(t, c),
           NEW l, HasChain(t, c.key, l), c.op = "push", c.end = "head"
    PROVE  ChainMoves(t, c, l)
<1> DEFINE n == Len(l)
           new == NewChain(l, c)
           A == After(t, c)
<1>1. /\ c.key \in Key /\ c.id \in Id /\ c.id # 0 /\ c.val \in Val
      /\ l \in Seq(Id) /\ n \in Nat /\ (l = <<>> <=> n = 0)
      /\ \A a \in 1 .. n : l[a] \in Id /\ l[a] # 0 /\ t[Data(l[a])] \in DataRows
    BY HeadIs, IdAssumption DEF Commands, HasChain, Linked
<1>2. /\ new \in Seq(Id) /\ Len(new) = n + 1 /\ new[1] = c.id
      /\ \A a \in 1 .. n : new[a + 1] = l[a]
    <2>1. new = <<c.id>> \o l /\ <<c.id>> \in Seq(Id) /\ Len(<<c.id>>) = 1
        BY <1>1 DEF NewChain
    <2>2. /\ new \in Seq(Id) /\ Len(new) = 1 + n
          /\ \A i \in 1 .. 1 + n : new[i] = IF i <= 1 THEN <<c.id>>[i] ELSE l[i - 1]
        <3> HIDE DEF new
        <3> QED BY <1>1, <2>1, ConcatProperties
    <2> HIDE DEF new
    <2> QED BY <1>1, <2>2
<1>3. \A a \in 2 .. n + 1 : a - 1 \in 1 .. n /\ new[a] = l[a - 1]
    <2> HIDE DEF new
    <2>1. ASSUME NEW a \in 2 .. n + 1 PROVE a - 1 \in 1 .. n /\ new[(a - 1) + 1] = l[a - 1]
        BY <1>1, <1>2
    <2> QED BY <1>1, <2>1
<1> HIDE DEF new
<1>4. \A a \in 1 .. n : l[a] # c.id
    BY <1>1, NoRowAssumption DEF Possible
<1>5. Distinct(l) /\ \A a \in 1 .. n :
          /\ t[Data(l[a])].prev = (IF a = 1 THEN 0 ELSE l[a - 1])
          /\ t[Data(l[a])].next = (IF a = n THEN 0 ELSE l[a + 1])
    BY DEF HasChain, Linked
<1>6. ReadHead(t, c.key) = [head |-> At(l, 1), tail |-> At(l, n), count |-> n]
    BY <1>1, HeadIs
<1>7. Beside(t, c) = At(l, 1)
    BY <1>6 DEF Beside
<1>8. NewElement(t, c) = [val |-> c.val, prev |-> 0, next |-> At(l, 1)]
    BY <1>7 DEF NewElement, Element
<1>9. ASSUME n > 0
      PROVE  NewBeside(t, c) = [val |-> t[Data(l[1])].val, prev |-> c.id,
                                next |-> t[Data(l[1])].next]
    <2>1. Beside(t, c) = l[1] /\ t[Data(l[1])] \in DataRows
        BY <1>1, <1>7, <1>9 DEF At
    <2>2. NewBeside(t, c) = [t[Data(l[1])] EXCEPT !["prev"] = c.id]
        BY <2>1 DEF NewBeside, Outward
    <2> DEFINE x == t[Data(l[1])]
    <2> HIDE DEF x
    <2>3. x \in DataRows /\ NewBeside(t, c) = [x EXCEPT !["prev"] = c.id]
        BY <2>1, <2>2 DEF x
    <2>4. NewBeside(t, c) = [val |-> x.val, prev |-> c.id, next |-> x.next]
        BY <2>3, Columns
    <2> QED BY <2>4 DEF x
<1>10. NewLists(t, c) = HeadOf(new)
    <2>1. HeadOf(new) = [head |-> c.id, tail |-> new[n + 1], count |-> n + 1]
        BY <1>1, <1>2 DEF HeadOf
    <2>2. CASE n = 0
        <3>1. t[Lists(c.key)] = NoRow /\ new[n + 1] = c.id /\ n + 1 = 1
            BY <1>1, <1>2, <2>2, HeadIs
        <3>2. NewLists(t, c) = [head |-> c.id, tail |-> c.id, count |-> 1]
            BY <3>1 DEF NewLists
        <3> QED BY <2>1, <3>1, <3>2
    <2>3. CASE n > 0
        <3>1. t[Lists(c.key)] # NoRow /\ new[n + 1] = l[n] /\ At(l, n) = l[n]
            BY <1>1, <1>2, <2>3, HeadIs DEF At
        <3>2. NewLists(t, c) = [[head |-> At(l, 1), tail |-> l[n], count |-> n]
                                   EXCEPT !["head"] = c.id, !.count = @ + 1]
            BY <1>6, <3>1 DEF NewLists
        <3> QED BY <2>1, <3>1, <3>2
    <2> QED BY <1>1, <2>2, <2>3
<1>11. Distinct(new)
    <2> SUFFICES ASSUME NEW a \in 1 .. n + 1, NEW b \in 1 .. n + 1, new[a] = new[b]
                 PROVE  a = b
        BY <1>2 DEF Distinct
    <2>1. \A x \in 1 .. n + 1 : x = 1 \/ (x - 1 \in 1 .. n /\ new[x] = l[x - 1])
        BY <1>1, <1>3
    <2>2. CASE a = 1
        BY <1>2, <1>4, <2>1, <2>2
    <2>3. CASE b = 1
        BY <1>2, <1>4, <2>1, <2>3
    <2>4. CASE a # 1 /\ b # 1
        BY <1>5, <2>1, <2>4 DEF Distinct
    <2> QED BY <2>2, <2>3, <2>4
<1>12. Ids(new) = Ids(l) \cup {c.id}
    <2>1. \A x \in 1 .. n + 1 : new[x] = c.id \/ \E y \in 1 .. n : new[x] = l[y]
        BY <1>1, <1>2, <1>3
    <2>2. \A y \in 1 .. n : y + 1 \in 1 .. n + 1 /\ l[y] = new[y + 1]
        BY <1>1, <1>2
    <2>3. 1 \in 1 .. n + 1 /\ new[1] = c.id
        BY <1>1, <1>2
    <2> QED BY <1>2, <2>1, <2>2, <2>3 DEF Ids
<1>13. /\ A[Lists(c.key)] = HeadOf(new)
       /\ A[Data(c.id)] = [val |-> c.val, prev |-> 0, next |-> At(l, 1)]
       /\ n > 0 => A[Data(l[1])] = [val |-> t[Data(l[1])].val, prev |-> c.id,
                                    next |-> t[Data(l[1])].next]
       /\ \A a \in 2 .. n : A[Data(l[a])] = t[Data(l[a])]
    <2>1. n > 0 => Beside(t, c) = l[1]
        BY <1>1, <1>7 DEF At
    <2>2. \A a \in 2 .. n : l[a] # l[1]
        BY <1>1, <1>5 DEF Distinct
    <2> QED BY <1>1, <1>4, <1>8, <1>9, <1>10, <2>1, <2>2, AfterRows
<1> HIDE DEF A
<1>14. Linked(A, new)
    <2> SUFFICES ASSUME NEW j \in 1 .. n + 1
                 PROVE  /\ A[Data(new[j])] \in DataRows
                        /\ A[Data(new[j])].prev = (IF j = 1 THEN 0 ELSE new[j - 1])
                        /\ A[Data(new[j])].next = (IF j = n + 1 THEN 0 ELSE new[j + 1])
        BY <1>2 DEF Linked
    <2>1. CASE j = 1
        <3>1. At(l, 1) = (IF n = 0 THEN 0 ELSE new[2]) /\ At(l, 1) \in Ref
            BY <1>1, <1>2 DEF At, Ref
        <3> QED BY <1>1, <1>2, <1>13, <2>1, <3>1 DEF DataRows, Ref
    <2>2. CASE j = 2
        <3>1. n > 0 /\ new[2] = l[1] /\ t[Data(l[1])] \in DataRows
            BY <1>1, <1>3, <2>2
        <3>2. t[Data(l[1])].next = (IF n = 1 THEN 0 ELSE new[3])
            <4>1. n # 1 => 3 \in 2 .. n + 1 /\ 3 - 1 = 2 /\ 1 + 1 = 2
                <5> HIDE DEF n
                <5>1. n \in Nat /\ n > 0
                    BY <1>1, <3>1
                <5> QED BY <5>1
            <4> QED BY <1>3, <1>5, <3>1, <4>1
        <3>3. A[Data(new[2])] = [val |-> t[Data(l[1])].val, prev |-> c.id,
                                 next |-> t[Data(l[1])].next]
            BY <1>13, <3>1
        <3>4. A[Data(new[2])] \in DataRows
            BY <1>1, <3>1, <3>3 DEF DataRows, Ref
        <3>5. 2 - 1 = 1 /\ 2 + 1 = 3 /\ (2 = n + 1 <=> n = 1) /\ 2 # 1
            <4> HIDE DEF n
            <4>1. n \in Nat
                BY <1>1
            <4> QED BY <4>1
        <3> QED BY <1>2, <2>2, <3>2, <3>3, <3>4, <3>5
    <2>3. CASE j > 2
        <3>1. j - 1 \in 2 .. n /\ j - 1 \in 1 .. n /\ j - 1 # 1 /\ new[j] = l[j - 1]
            BY <1>1, <1>3, <2>3
        <3>2. A[Data(new[j])] = t[Data(l[j - 1])]
            BY <1>13, <3>1
        <3>3. new[j - 1] = l[(j - 1) - 1]
            BY <1>1, <1>3, <2>3
        <3>4. j # n + 1 => new[j + 1] = l[(j - 1) + 1]
            BY <1>1, <1>3, <2>3
        <3>5. /\ t[Data(l[j - 1])].prev = l[(j - 1) - 1]
              /\ t[Data(l[j - 1])].next = (IF j - 1 = n THEN 0 ELSE l[(j - 1) + 1])
            BY <1>5, <3>1
        <3> QED BY <1>1, <2>3, <3>1, <3>2, <3>3, <3>4, <3>5
    <2> QED BY <1>1, <2>1, <2>2, <2>3
<1>15. \A i \in Ids(l) : A[Data(i)].val = t[Data(i)].val
    BY <1>1, <1>13 DEF Ids
<1>16. NewElement(t, c) \in DataRows /\ (Beside(t, c) # 0 => NewBeside(t, c) \in DataRows)
    <2>1. At(l, 1) \in Ref
        BY <1>1 DEF At, Ref
    <2>2. Beside(t, c) # 0 => n > 0 /\ t[Data(l[1])] \in DataRows
        BY <1>1, <1>7 DEF At
    <2> QED BY <1>1, <1>8, <1>9, <2>1, <2>2 DEF DataRows, Ref
<1>17. Beside(t, c) = 0 \/ Beside(t, c) \in Ids(l) \ {c.id}
    BY <1>1, <1>4, <1>7 DEF At, Ids
<1> QED BY <1>2, <1>11, <1>12, <1>13, <1>14, <1>15, <1>16, <1>17
       DEF ChainMoves, HasChain, new, A

\* rpush does.
LEMMA PushTail ==
    ASSUME NEW t, NEW c \in Commands, Possible(t, c),
           NEW l, HasChain(t, c.key, l), c.op = "push", c.end = "tail"
    PROVE  ChainMoves(t, c, l)
<1> DEFINE n == Len(l)
           new == NewChain(l, c)
           A == After(t, c)
<1>1. /\ c.key \in Key /\ c.id \in Id /\ c.id # 0 /\ c.val \in Val
      /\ l \in Seq(Id) /\ n \in Nat /\ (l = <<>> <=> n = 0)
      /\ \A a \in 1 .. n : l[a] \in Id /\ l[a] # 0 /\ t[Data(l[a])] \in DataRows
    BY HeadIs, IdAssumption DEF Commands, HasChain, Linked
<1>2. /\ new \in Seq(Id) /\ Len(new) = n + 1 /\ new[n + 1] = c.id
      /\ \A a \in 1 .. n : new[a] = l[a]
    <2>1. new = Append(l, c.id)
        BY DEF NewChain
    <2> HIDE DEF new
    <2> QED BY <1>1, <2>1, AppendProperties
<1>3. \A a \in 1 .. n + 1 : a = n + 1 \/ a \in 1 .. n
    BY <1>1
<1> HIDE DEF new
<1>4. \A a \in 1 .. n : l[a] # c.id
    BY <1>1, NoRowAssumption DEF Possible
<1>5. Distinct(l) /\ \A a \in 1 .. n :
          /\ t[Data(l[a])].prev = (IF a = 1 THEN 0 ELSE l[a - 1])
          /\ t[Data(l[a])].next = (IF a = n THEN 0 ELSE l[a + 1])
    BY DEF HasChain, Linked
<1>6. ReadHead(t, c.key) = [head |-> At(l, 1), tail |-> At(l, n), count |-> n]
    BY <1>1, HeadIs
<1>7. Beside(t, c) = At(l, n)
    BY <1>6 DEF Beside
<1>8. NewElement(t, c) = [val |-> c.val, prev |-> At(l, n), next |-> 0]
    BY <1>7 DEF NewElement, Element
<1>9. ASSUME n > 0
      PROVE  NewBeside(t, c) = [val |-> t[Data(l[n])].val, prev |-> t[Data(l[n])].prev,
                                next |-> c.id]
    <2>1. Beside(t, c) = l[n] /\ t[Data(l[n])] \in DataRows
        BY <1>1, <1>7, <1>9 DEF At
    <2>2. NewBeside(t, c) = [t[Data(l[n])] EXCEPT !["next"] = c.id]
        BY <2>1 DEF NewBeside, Outward
    <2> DEFINE x == t[Data(l[n])]
    <2> HIDE DEF x
    <2>3. x \in DataRows /\ NewBeside(t, c) = [x EXCEPT !["next"] = c.id]
        BY <2>1, <2>2 DEF x
    <2>4. NewBeside(t, c) = [val |-> x.val, prev |-> x.prev, next |-> c.id]
        BY <2>3, Columns
    <2> QED BY <2>4 DEF x
<1>10. NewLists(t, c) = HeadOf(new)
    <2>1. HeadOf(new) = [head |-> new[1], tail |-> c.id, count |-> n + 1]
        BY <1>1, <1>2 DEF HeadOf
    <2>2. CASE n = 0
        <3>1. t[Lists(c.key)] = NoRow /\ new[1] = c.id /\ n + 1 = 1
            BY <1>1, <1>2, <2>2, HeadIs
        <3>2. NewLists(t, c) = [head |-> c.id, tail |-> c.id, count |-> 1]
            BY <3>1 DEF NewLists
        <3> QED BY <2>1, <3>1, <3>2
    <2>3. CASE n > 0
        <3>1. t[Lists(c.key)] # NoRow /\ new[1] = l[1] /\ At(l, 1) = l[1]
            BY <1>1, <1>2, <2>3, HeadIs DEF At
        <3>2. NewLists(t, c) = [[head |-> l[1], tail |-> At(l, n), count |-> n]
                                   EXCEPT !["tail"] = c.id, !.count = @ + 1]
            BY <1>6, <3>1 DEF NewLists
        <3> QED BY <2>1, <3>1, <3>2
    <2> QED BY <1>1, <2>2, <2>3
<1>11. Distinct(new)
    <2> SUFFICES ASSUME NEW a \in 1 .. n + 1, NEW b \in 1 .. n + 1, new[a] = new[b]
                 PROVE  a = b
        BY <1>2 DEF Distinct
    <2>2. CASE a = n + 1
        BY <1>2, <1>3, <1>4, <2>2
    <2>3. CASE b = n + 1
        BY <1>2, <1>3, <1>4, <2>3
    <2>4. CASE a # n + 1 /\ b # n + 1
        BY <1>2, <1>3, <1>5, <2>4 DEF Distinct
    <2> QED BY <2>2, <2>3, <2>4
<1>12. Ids(new) = Ids(l) \cup {c.id}
    <2>1. \A y \in 1 .. n : y \in 1 .. n + 1 /\ l[y] = new[y]
        BY <1>1, <1>2
    <2>2. n + 1 \in 1 .. n + 1
        BY <1>1
    <2> HIDE DEF n
    <2> QED BY <1>2, <1>3, <2>1, <2>2 DEF Ids, n
<1>13. /\ A[Lists(c.key)] = HeadOf(new)
       /\ A[Data(c.id)] = [val |-> c.val, prev |-> At(l, n), next |-> 0]
       /\ n > 0 => A[Data(l[n])] = [val |-> t[Data(l[n])].val, prev |-> t[Data(l[n])].prev,
                                    next |-> c.id]
       /\ \A a \in 1 .. n - 1 : A[Data(l[a])] = t[Data(l[a])]
    <2>1. n > 0 => Beside(t, c) = l[n]
        BY <1>1, <1>7 DEF At
    <2>2. \A a \in 1 .. n - 1 : a \in 1 .. n /\ l[a] # l[n]
        BY <1>1, <1>5 DEF Distinct
    <2> QED BY <1>1, <1>4, <1>8, <1>9, <1>10, <2>1, <2>2, AfterRows
<1> HIDE DEF A
<1>14. Linked(A, new)
    <2> SUFFICES ASSUME NEW j \in 1 .. n + 1
                 PROVE  /\ A[Data(new[j])] \in DataRows
                        /\ A[Data(new[j])].prev = (IF j = 1 THEN 0 ELSE new[j - 1])
                        /\ A[Data(new[j])].next = (IF j = n + 1 THEN 0 ELSE new[j + 1])
        BY <1>2 DEF Linked
    <2>1. CASE j = n + 1
        <3>1. At(l, n) = (IF j = 1 THEN 0 ELSE new[j - 1])
            <4>1. CASE n = 0
                BY <2>1, <4>1 DEF At
            <4>2. CASE n # 0
                <5>1. n \in 1 .. n /\ j - 1 = n /\ j # 1
                    BY <1>1, <2>1, <4>2
                <5> QED BY <1>2, <5>1 DEF At
            <4> QED BY <4>1, <4>2
        <3>2. At(l, n) \in Ref /\ 0 \in Ref
            BY <1>1 DEF At, Ref
        <3>3. A[Data(new[j])] = [val |-> c.val, prev |-> At(l, n), next |-> 0]
            BY <1>2, <1>13, <2>1
        <3>4. A[Data(new[j])] \in DataRows
            BY <1>1, <3>2, <3>3 DEF DataRows
        <3> QED BY <2>1, <3>1, <3>3, <3>4
    <2>2. CASE j = n
        <3>1. n > 0 /\ n \in 1 .. n /\ new[n] = l[n] /\ t[Data(l[n])] \in DataRows
            BY <1>1, <1>2, <2>2
        <3>2. t[Data(l[n])].prev = (IF n = 1 THEN 0 ELSE new[n - 1])
            <4>1. n # 1 => n - 1 \in 1 .. n
                <5> HIDE DEF n
                <5>1. n \in Nat /\ n > 0
                    BY <1>1, <3>1
                <5> QED BY <5>1
            <4> QED BY <1>2, <1>5, <3>1, <4>1
        <3>3. A[Data(new[n])] = [val |-> t[Data(l[n])].val, prev |-> t[Data(l[n])].prev,
                                 next |-> c.id]
            BY <1>13, <3>1
        <3>4. A[Data(new[n])] \in DataRows
            BY <1>1, <3>1, <3>3 DEF DataRows, Ref
        <3>5. n # n + 1
            BY <1>1
        <3> QED BY <1>2, <2>2, <3>2, <3>3, <3>4, <3>5
    <2>3. CASE j < n
        <3>1. /\ j \in 1 .. n - 1 /\ j \in 1 .. n /\ j # n /\ j # n + 1
              /\ j + 1 \in 1 .. n /\ (j # 1 => j - 1 \in 1 .. n)
            BY <1>1, <2>3
        <3>2. new[j] = l[j] /\ new[j + 1] = l[j + 1] /\ (j # 1 => new[j - 1] = l[j - 1])
            BY <1>2, <3>1
        <3>3. A[Data(new[j])] = t[Data(l[j])]
            BY <1>13, <3>1, <3>2
        <3>4. /\ t[Data(l[j])].prev = (IF j = 1 THEN 0 ELSE l[j - 1])
              /\ t[Data(l[j])].next = l[j + 1]
            BY <1>5, <3>1
        <3> QED BY <1>1, <3>1, <3>2, <3>3, <3>4
    <2> QED BY <1>1, <2>1, <2>2, <2>3
<1>15. \A i \in Ids(l) : A[Data(i)].val = t[Data(i)].val
    <2>1. \A a \in 1 .. n : a = n \/ a \in 1 .. n - 1
        BY <1>1
    <2> QED BY <1>1, <1>13, <2>1 DEF Ids
<1>16. NewElement(t, c) \in DataRows /\ (Beside(t, c) # 0 => NewBeside(t, c) \in DataRows)
    <2>1. At(l, n) \in Ref
        BY <1>1 DEF At, Ref
    <2>2. Beside(t, c) # 0 => n > 0 /\ t[Data(l[n])] \in DataRows
        BY <1>1, <1>7 DEF At
    <2> QED BY <1>1, <1>8, <1>9, <2>1, <2>2 DEF DataRows, Ref
<1>17. Beside(t, c) = 0 \/ Beside(t, c) \in Ids(l) \ {c.id}
    BY <1>1, <1>4, <1>7 DEF At, Ids
<1> QED BY <1>2, <1>11, <1>12, <1>13, <1>14, <1>15, <1>16, <1>17
       DEF ChainMoves, HasChain, new, A

\* lpop does.
LEMMA PopHead ==
    ASSUME NEW t, NEW c \in Commands, Possible(t, c),
           NEW l, HasChain(t, c.key, l), c.op = "pop", c.end = "head"
    PROVE  ChainMoves(t, c, l)
<1> DEFINE n == Len(l)
           new == NewChain(l, c)
           A == After(t, c)
<1>1. /\ c.key \in Key /\ c.id \in Id /\ c.id # 0 /\ c.val \in Val
      /\ l \in Seq(Id) /\ n \in Nat /\ n > 0 /\ l # <<>>
      /\ \A a \in 1 .. n : l[a] \in Id /\ l[a] # 0 /\ t[Data(l[a])] \in DataRows
    <2>1. l # <<>> /\ l \in Seq(Id)
        BY HeadIs DEF Possible, Commands, HasChain
    <2> QED BY <2>1, HeadIs, IdAssumption DEF Commands, HasChain, Linked
<1>2. /\ new \in Seq(Id) /\ Len(new) = n - 1 /\ \A a \in 1 .. n - 1 : new[a] = l[a + 1]
    <2>1. new = Tail(l)
        BY DEF NewChain
    <2> HIDE DEF new
    <2> QED BY <1>1, <2>1, HeadTailProperties
<1> HIDE DEF new
<1>20. (n = 1 \/ (n > 1 /\ 2 \in 1 .. n)) /\ (n > 1 => n # 1)
    <2> HIDE DEF n
    <2>1. n \in Nat /\ n > 0
        BY <1>1
    <2> QED BY <2>1
<1>3. 1 \in 1 .. n /\ \A a \in 1 .. n - 1 : a + 1 \in 2 .. n /\ a + 1 \in 1 .. n
    <2> HIDE DEF n
    <2>1. n \in Nat /\ n > 0
        BY <1>1
    <2> QED BY <2>1
<1>4. \A a \in 1 .. n : a = 1 \/ a - 1 \in 1 .. n - 1
    BY <1>1
<1>5. Distinct(l) /\ \A a \in 1 .. n :
          /\ t[Data(l[a])].prev = (IF a = 1 THEN 0 ELSE l[a - 1])
          /\ t[Data(l[a])].next = (IF a = n THEN 0 ELSE l[a + 1])
    BY DEF HasChain, Linked
<1>6. ReadHead(t, c.key) = [head |-> l[1], tail |-> l[n], count |-> n]
    <2>1. At(l, 1) = l[1] /\ At(l, n) = l[n]
        BY <1>1 DEF At
    <2> QED BY <1>1, <2>1, HeadIs
<1>7. c.id = l[1]
    <2>1. ReadHead(t, c.key) = t[Lists(c.key)]
        BY DEF Possible, ReadHead
    <2>2. c.id = ReadHead(t, c.key)["head"]
        BY <2>1 DEF Possible
    <2> QED BY <1>6, <2>2
<1>8. Beside(t, c) = IF n = 1 THEN 0 ELSE l[2]
    <2> DEFINE x == t[Data(l[1])]
    <2>1. x \in DataRows /\ x.next = IF n = 1 THEN 0 ELSE l[2]
        <3>1. x \in DataRows
            BY <1>1, <1>3
        <3>2. x.next = (IF 1 = n THEN 0 ELSE l[1 + 1])
            BY <1>3, <1>5
        <3>3. 1 + 1 = 2
            OBVIOUS
        <3> HIDE DEF x, n
        <3> QED BY <3>1, <3>2, <3>3
    <2>2. Beside(t, c) = x["next"]
        BY <1>7 DEF Beside, Inward
    <2> HIDE DEF x
    <2> QED BY <2>1, <2>2, Columns
<1>9. ASSUME n > 1
      PROVE  /\ Beside(t, c) = l[2] /\ l[2] \in Id /\ l[2] # 0 /\ l[2] # l[1]
             /\ t[Data(l[2])] \in DataRows
             /\ NewBeside(t, c) = [val |-> t[Data(l[2])].val, prev |-> 0,
                                   next |-> t[Data(l[2])].next]
    <2>1. /\ Beside(t, c) = l[2] /\ l[2] \in Id /\ l[2] # 0 /\ t[Data(l[2])] \in DataRows
          /\ l[2] # l[1]
        <3>1. n # 1 /\ 2 \in 1 .. n
            BY <1>1, <1>9
        <3> QED BY <1>1, <1>3, <1>5, <1>8, <3>1 DEF Distinct
    <2>2. NewBeside(t, c) = [t[Data(l[2])] EXCEPT !["prev"] = 0]
        BY <2>1 DEF NewBeside, Outward
    <2> DEFINE x == t[Data(l[2])]
    <2> HIDE DEF x
    <2>3. x \in DataRows /\ NewBeside(t, c) = [x EXCEPT !["prev"] = 0]
        BY <2>1, <2>2 DEF x
    <2>4. NewBeside(t, c) = [val |-> x.val, prev |-> 0, next |-> x.next]
        BY <2>3, Columns
    <2> QED BY <2>1, <2>4 DEF x
<1>10. NewLists(t, c) = HeadOf(new)
    <2> DEFINE b == Beside(t, c)
    <2>1. n # 0 /\ b = (IF n = 1 THEN 0 ELSE l[2])
        BY <1>1, <1>8
    <2> HIDE DEF n, b
    <2>2. Shrunk(t, c) = [[head |-> l[1], tail |-> l[n], count |-> n]
                 EXCEPT !["head"] = b, !.count = n - 1, !["tail"] = IF b = 0 THEN 0 ELSE @]
        BY <1>6, <2>1 DEF Shrunk, Other, b
    <2>3. Shrunk(t, c) = [head |-> b, tail |-> IF b = 0 THEN 0 ELSE l[n], count |-> n - 1]
        BY <2>2
    <2>4. CASE n = 1
        <3>1. new = <<>>
            BY <1>2, <2>4
        <3>2. n - 1 = 0
            BY <2>4
        <3> QED BY <2>3, <3>1, <3>2 DEF NewLists, HeadOf
    <2>5. CASE n # 1
        <3>1. n \in Nat /\ n > 1
            BY <1>1, <1>20, <2>5
        <3>2. new # <<>> /\ 1 \in 1 .. n - 1 /\ n - 1 \in 1 .. n - 1 /\ 1 + 1 = 2 /\ (n - 1) + 1 = n
            BY <1>2, <3>1
        <3>3. new[1] = l[2] /\ new[Len(new)] = l[n]
            BY <1>2, <3>2
        <3>4. b = l[2] /\ b # 0
            BY <1>9, <2>1, <2>5, <3>1 DEF n
        <3>5. NewLists(t, c) = [head |-> b, tail |-> l[n], count |-> n - 1]
            BY <2>3, <3>1, <3>4 DEF NewLists
        <3>6. HeadOf(new) = [head |-> l[2], tail |-> l[n], count |-> n - 1]
            BY <1>2, <3>2, <3>3 DEF HeadOf
        <3> QED BY <3>4, <3>5, <3>6
    <2> QED BY <2>4, <2>5
<1>11. Distinct(new)
    BY <1>2, <1>3, <1>5 DEF Distinct
<1>12. Ids(new) = Ids(l) \ {c.id}
    <2>1. \A a \in 1 .. n - 1 : a + 1 \in 1 .. n /\ a + 1 # 1
        BY <1>1
    <2>2. \A a \in 1 .. n - 1 : new[a] = l[a + 1] /\ new[a] # c.id
        BY <1>2, <1>3, <1>5, <1>7, <2>1 DEF Distinct
    <2>3. \A a \in 1 .. n : l[a] # c.id => a - 1 \in 1 .. n - 1 /\ new[a - 1] = l[a]
        <3>1. ASSUME NEW a \in 1 .. n, l[a] # c.id
              PROVE  a - 1 \in 1 .. n - 1 /\ (a - 1) + 1 = a
            BY <1>4, <1>7, <3>1
        <3> QED BY <1>2, <3>1
    <2>4. Ids(new) = {new[a] : a \in 1 .. n - 1}
        BY <1>2 DEF Ids
    <2> HIDE DEF n
    <2>5. Ids(new) \subseteq {l[a] : a \in 1 .. n} \ {c.id}
        BY <2>1, <2>2, <2>4
    <2>6. {l[a] : a \in 1 .. n} \ {c.id} \subseteq Ids(new)
        BY <2>3, <2>4
    <2> QED BY <2>5, <2>6 DEF Ids, n
<1>13. /\ A[Lists(c.key)] = HeadOf(new)
       /\ A[Data(c.id)] = NoRow
       /\ n > 1 => A[Data(l[2])] = [val |-> t[Data(l[2])].val, prev |-> 0,
                                    next |-> t[Data(l[2])].next]
       /\ \A a \in 3 .. n : A[Data(l[a])] = t[Data(l[a])]
    <2>1. NewElement(t, c) = NoRow
        BY DEF NewElement
    <2>2. \A a \in 3 .. n : a \in 1 .. n /\ l[a] # l[1] /\ n # 1 /\ l[a] # l[2]
        <3>1. ASSUME NEW a \in 3 .. n PROVE a \in 1 .. n /\ n # 1 /\ 2 \in 1 .. n /\ a # 1 /\ a # 2
            BY <1>1
        <3> QED BY <1>3, <1>5, <3>1 DEF Distinct
    <2> QED BY <1>1, <1>7, <1>8, <1>9, <1>10, <2>1, <2>2, AfterRows
<1> HIDE DEF A
<1>14. Linked(A, new)
    <2> SUFFICES ASSUME NEW j \in 1 .. n - 1
                 PROVE  /\ A[Data(new[j])] \in DataRows
                        /\ A[Data(new[j])].prev = (IF j = 1 THEN 0 ELSE new[j - 1])
                        /\ A[Data(new[j])].next = (IF j = n - 1 THEN 0 ELSE new[j + 1])
        BY <1>2 DEF Linked
    <2>1. /\ new[j] = l[j + 1] /\ j + 1 \in 1 .. n /\ n > 1 /\ (j + 1 = n <=> j = n - 1)
          /\ (j # n - 1 => new[j + 1] = l[(j + 1) + 1])
        <3>1. j # n - 1 => j + 1 \in 1 .. n - 1
            BY <1>1
        <3>2. n > 1 /\ (j + 1 = n <=> j = n - 1)
            BY <1>1
        <3> QED BY <1>2, <1>3, <3>1, <3>2
    <2>2. t[Data(l[j + 1])].next = (IF j = n - 1 THEN 0 ELSE new[j + 1])
        BY <1>5, <2>1
    <2>3. CASE j = 1
        <3>1. new[j] = l[2]
            BY <2>1, <2>3
        <3>2. A[Data(new[j])] = [val |-> t[Data(l[2])].val, prev |-> 0,
                                 next |-> t[Data(l[2])].next]
            BY <1>13, <2>1, <3>1
        <3>3. A[Data(new[j])] \in DataRows
            BY <1>9, <2>1, <3>2 DEF DataRows, Ref
        <3> QED BY <2>2, <2>3, <3>2, <3>3
    <2>4. CASE j # 1
        <3>1. j + 1 \in 3 .. n /\ j + 1 # 1 /\ (j + 1) - 1 = j /\ j - 1 \in 1 .. n - 1
            BY <1>1, <2>4
        <3>2. A[Data(new[j])] = t[Data(l[j + 1])]
            BY <1>13, <2>1, <3>1
        <3>3. t[Data(l[j + 1])].prev = l[j]
            BY <1>5, <2>1, <3>1
        <3>4. new[j - 1] = l[j]
            <4>1. (j - 1) + 1 = j
                OBVIOUS
            <4> QED BY <1>2, <3>1, <4>1
        <3> QED BY <1>1, <2>1, <2>2, <2>4, <3>2, <3>3, <3>4
    <2> QED BY <2>3, <2>4
<1>15. \A i \in Ids(new) : A[Data(i)].val = t[Data(i)].val
    <2>1. \A a \in 1 .. n - 1 : /\ n > 1
                                /\ (a = 1 /\ new[a] = l[2]) \/ (a + 1 \in 3 .. n /\ new[a] = l[a + 1])
        <3>1. ASSUME NEW a \in 1 .. n - 1 PROVE n > 1 /\ (a = 1 \/ a + 1 \in 3 .. n)
            BY <1>1
        <3> QED BY <1>2, <3>1
    <2>2. ASSUME NEW a \in 1 .. n - 1 PROVE A[Data(new[a])].val = t[Data(new[a])].val
        <3>1. CASE a + 1 \in 3 .. n /\ new[a] = l[a + 1]
            BY <1>13, <3>1
        <3>2. CASE a = 1 /\ new[a] = l[2]
            BY <1>13, <2>1, <3>2
        <3> QED BY <2>1, <3>1, <3>2
    <2> QED BY <1>2, <2>2 DEF Ids
<1>16. Beside(t, c) # 0 => NewBeside(t, c) \in DataRows
    <2>1. Beside(t, c) # 0 => n > 1
        BY <1>8, <1>20
    <2> QED BY <1>9, <2>1 DEF DataRows, Ref
<1>17. Beside(t, c) = 0 \/ Beside(t, c) \in Ids(l) \ {c.id}
    <2>1. Beside(t, c) # 0 => n > 1 /\ 2 \in 1 .. n
        BY <1>8, <1>20
    <2> QED BY <1>7, <1>9, <2>1 DEF Ids
<1>18. c.id \in Ids(l)
    BY <1>3, <1>7 DEF Ids
<1>19. NewElement(t, c) = NoRow
    BY DEF NewElement
<1> QED BY <1>2, <1>11, <1>12, <1>13, <1>14, <1>15, <1>16, <1>17, <1>18, <1>19
       DEF ChainMoves, HasChain, new, A

\* rpop does.
LEMMA PopTail ==
    ASSUME NEW t, NEW c \in Commands, Possible(t, c),
           NEW l, HasChain(t, c.key, l), c.op = "pop", c.end = "tail"
    PROVE  ChainMoves(t, c, l)
<1> DEFINE n == Len(l)
           new == NewChain(l, c)
           A == After(t, c)
<1>1. /\ c.key \in Key /\ c.id \in Id /\ c.id # 0 /\ c.val \in Val
      /\ l \in Seq(Id) /\ n \in Nat /\ n > 0 /\ l # <<>>
      /\ \A a \in 1 .. n : l[a] \in Id /\ l[a] # 0 /\ t[Data(l[a])] \in DataRows
    <2>1. l # <<>> /\ l \in Seq(Id)
        BY HeadIs DEF Possible, Commands, HasChain
    <2> QED BY <2>1, HeadIs, IdAssumption DEF Commands, HasChain, Linked
<1>2. /\ new \in Seq(Id) /\ Len(new) = n - 1 /\ \A a \in 1 .. n - 1 : new[a] = l[a]
    <2>1. new = SubSeq(l, 1, n - 1)
        BY DEF NewChain
    <2>2. /\ Len(SubSeq(l, 1, n - 1)) = n - 1 /\ SubSeq(l, 1, n - 1) \in Seq(Id)
          /\ \A a \in 1 .. n - 1 : SubSeq(l, 1, n - 1)[a] = l[a]
        <3>1. n - 1 \in Nat /\ n - 1 \in 1 - 1 .. n /\ (n - 1) - 1 + 1 = n - 1
              /\ \A a \in 1 .. n : l[a] \in Id
            BY <1>1
        <3> HIDE DEF n
        <3>2. \A a \in 1 .. n - 1 : 1 + a - 1 = a
            BY <3>1
        <3> QED BY <1>1, <3>1, <3>2, SubSeqProperties DEF n
    <2> HIDE DEF new
    <2> QED BY <2>1, <2>2
<1> HIDE DEF new
<1>20. (n = 1 \/ (n > 1 /\ n - 1 \in 1 .. n)) /\ (n > 1 => n # 1) /\ n # n - 1
    <2> HIDE DEF n
    <2>1. n \in Nat /\ n > 0
        BY <1>1
    <2> QED BY <2>1
<1>3. 1 \in 1 .. n /\ n \in 1 .. n /\ \A a \in 1 .. n - 1 : a \in 1 .. n /\ a # n
    <2> HIDE DEF n
    <2>1. n \in Nat /\ n > 0
        BY <1>1
    <2> QED BY <2>1
<1>4. \A a \in 1 .. n : a = n \/ a \in 1 .. n - 1
    BY <1>1
<1>5. Distinct(l) /\ \A a \in 1 .. n :
          /\ t[Data(l[a])].prev = (IF a = 1 THEN 0 ELSE l[a - 1])
          /\ t[Data(l[a])].next = (IF a = n THEN 0 ELSE l[a + 1])
    BY DEF HasChain, Linked
<1>6. ReadHead(t, c.key) = [head |-> l[1], tail |-> l[n], count |-> n]
    <2>1. At(l, 1) = l[1] /\ At(l, n) = l[n]
        BY <1>3 DEF At
    <2> QED BY <1>1, <2>1, HeadIs
<1>7. c.id = l[n]
    <2>1. ReadHead(t, c.key) = t[Lists(c.key)]
        BY DEF Possible, ReadHead
    <2>2. c.id = ReadHead(t, c.key)["tail"]
        BY <2>1 DEF Possible
    <2> QED BY <1>6, <2>2
<1>8. Beside(t, c) = IF n = 1 THEN 0 ELSE l[n - 1]
    <2> DEFINE x == t[Data(l[n])]
    <2>1. x \in DataRows
        BY <1>1, <1>3
    <2>2. x.prev = (IF n = 1 THEN 0 ELSE l[n - 1])
        BY <1>3, <1>5
    <2>3. Beside(t, c) = x["prev"]
        BY <1>7 DEF Beside, Inward
    <2> HIDE DEF x, n
    <2> QED BY <2>1, <2>2, <2>3, Columns
<1>9. ASSUME n > 1
      PROVE  /\ Beside(t, c) = l[n - 1] /\ l[n - 1] \in Id /\ l[n - 1] # 0
             /\ l[n - 1] # l[n] /\ t[Data(l[n - 1])] \in DataRows
             /\ NewBeside(t, c) = [val |-> t[Data(l[n - 1])].val,
                                   prev |-> t[Data(l[n - 1])].prev, next |-> 0]
    <2>1. /\ Beside(t, c) = l[n - 1] /\ l[n - 1] \in Id /\ l[n - 1] # 0
          /\ t[Data(l[n - 1])] \in DataRows /\ l[n - 1] # l[n]
        <3>1. n # 1 /\ n - 1 \in 1 .. n
            BY <1>20, <1>9
        <3> QED BY <1>1, <1>3, <1>5, <1>8, <1>20, <3>1 DEF Distinct
    <2>2. NewBeside(t, c) = [t[Data(l[n - 1])] EXCEPT !["next"] = 0]
        BY <2>1 DEF NewBeside, Outward
    <2> DEFINE x == t[Data(l[n - 1])]
    <2> HIDE DEF x
    <2>3. x \in DataRows /\ NewBeside(t, c) = [x EXCEPT !["next"] = 0]
        BY <2>1, <2>2 DEF x
    <2>4. NewBeside(t, c) = [val |-> x.val, prev |-> x.prev, next |-> 0]
        BY <2>3, Columns
    <2> QED BY <2>1, <2>4 DEF x
<1>10. NewLists(t, c) = HeadOf(new)
    <2> DEFINE b == Beside(t, c)
    <2>1. n # 0 /\ b = (IF n = 1 THEN 0 ELSE l[n - 1])
        BY <1>1, <1>8
    <2> HIDE DEF n, b
    <2>2. Shrunk(t, c) = [[head |-> l[1], tail |-> l[n], count |-> n]
                 EXCEPT !["tail"] = b, !.count = n - 1, !["head"] = IF b = 0 THEN 0 ELSE @]
        BY <1>6, <2>1 DEF Shrunk, Other, b
    <2>3. Shrunk(t, c) = [head |-> IF b = 0 THEN 0 ELSE l[1], tail |-> b, count |-> n - 1]
        BY <2>2
    <2>4. CASE n = 1
        <3>1. new = <<>>
            BY <1>2, <2>4
        <3>2. n - 1 = 0
            BY <2>4
        <3> QED BY <2>3, <3>1, <3>2 DEF NewLists, HeadOf
    <2>5. CASE n # 1
        <3>1. n \in Nat /\ n > 1
            BY <1>1, <1>20, <2>5
        <3>2. new # <<>> /\ 1 \in 1 .. n - 1 /\ n - 1 \in 1 .. n - 1
            BY <1>2, <3>1
        <3>3. new[1] = l[1] /\ new[Len(new)] = l[n - 1]
            BY <1>2, <3>2
        <3>4. b = l[n - 1] /\ b # 0
            BY <1>9, <2>1, <2>5, <3>1 DEF n
        <3>5. NewLists(t, c) = [head |-> l[1], tail |-> b, count |-> n - 1]
            BY <2>3, <3>1, <3>4 DEF NewLists
        <3>6. HeadOf(new) = [head |-> l[1], tail |-> l[n - 1], count |-> n - 1]
            BY <1>2, <3>2, <3>3 DEF HeadOf
        <3> QED BY <3>4, <3>5, <3>6
    <2> QED BY <2>4, <2>5
<1>11. Distinct(new)
    <2> SUFFICES ASSUME NEW a \in 1 .. n - 1, NEW b \in 1 .. n - 1, new[a] = new[b]
                 PROVE  a = b
        BY <1>2 DEF Distinct
    <2>1. l[a] = l[b] /\ a \in 1 .. n /\ b \in 1 .. n
        BY <1>2, <1>3
    <2> QED BY <1>5, <2>1 DEF Distinct
<1>12. Ids(new) = Ids(l) \ {c.id}
    <2>2. \A a \in 1 .. n - 1 : a \in 1 .. n /\ new[a] = l[a] /\ new[a] # c.id
        BY <1>2, <1>3, <1>5, <1>7 DEF Distinct
    <2>3. \A a \in 1 .. n : l[a] # c.id => a \in 1 .. n - 1 /\ new[a] = l[a]
        BY <1>2, <1>4, <1>7
    <2>4. Ids(new) = {new[a] : a \in 1 .. n - 1}
        BY <1>2 DEF Ids
    <2> HIDE DEF n
    <2>5. Ids(new) \subseteq {l[a] : a \in 1 .. n} \ {c.id}
        BY <2>2, <2>4
    <2>6. {l[a] : a \in 1 .. n} \ {c.id} \subseteq Ids(new)
        BY <2>3, <2>4
    <2> QED BY <2>5, <2>6 DEF Ids, n
<1>13. /\ A[Lists(c.key)] = HeadOf(new)
       /\ A[Data(c.id)] = NoRow
       /\ n > 1 => A[Data(l[n - 1])] = [val |-> t[Data(l[n - 1])].val,
                                        prev |-> t[Data(l[n - 1])].prev, next |-> 0]
       /\ \A a \in 1 .. n - 2 : A[Data(l[a])] = t[Data(l[a])]
    <2>1. NewElement(t, c) = NoRow
        BY DEF NewElement
    <2>2. \A a \in 1 .. n - 2 : a \in 1 .. n /\ l[a] # l[n] /\ n # 1 /\ l[a] # l[n - 1]
        <3> SUFFICES ASSUME NEW a \in 1 .. n - 2
                     PROVE  a \in 1 .. n /\ l[a] # l[n] /\ n # 1 /\ l[a] # l[n - 1]
            OBVIOUS
        <3>1. a \in 1 .. n /\ n # 1 /\ n - 1 \in 1 .. n /\ a # n /\ a # n - 1
            BY <1>1
        <3>2. n \in 1 .. n
            BY <1>3
        <3>3. \A x, y \in 1 .. n : l[x] = l[y] => x = y
            BY <1>5 DEF Distinct
        <3> HIDE DEF n
        <3>4. l[a] # l[n]
            BY <3>1, <3>2, <3>3, Zenon
        <3>5. l[a] # l[n - 1]
            BY <3>1, <3>3, Zenon
        <3> QED BY <3>1, <3>4, <3>5
    <2>3. \A a \in 1 .. n - 2 : A[Data(l[a])] = t[Data(l[a])]
        <3> SUFFICES ASSUME NEW a \in 1 .. n - 2
                     PROVE  A[Data(l[a])] = t[Data(l[a])]
            OBVIOUS
        <3>1. a \in 1 .. n /\ l[a] # l[n] /\ n # 1 /\ l[a] # l[n - 1]
            BY <2>2
        <3>2. l[a] \in Id \ {c.id} /\ l[a] # Beside(t, c)
            BY <1>1, <1>7, <1>8, <3>1
        <3> QED BY <3>2, AfterRows
    <2> QED BY <1>1, <1>7, <1>9, <1>10, <2>1, <2>3, AfterRows
<1> HIDE DEF A
<1>14. Linked(A, new)
    <2> SUFFICES ASSUME NEW j \in 1 .. n - 1
                 PROVE  /\ A[Data(new[j])] \in DataRows
                        /\ A[Data(new[j])].prev = (IF j = 1 THEN 0 ELSE new[j - 1])
                        /\ A[Data(new[j])].next = (IF j = n - 1 THEN 0 ELSE new[j + 1])
        BY <1>2 DEF Linked
    <2>1. /\ new[j] = l[j] /\ j \in 1 .. n /\ j # n /\ n > 1
          /\ (j # n - 1 => new[j + 1] = l[j + 1] /\ j \in 1 .. n - 2)
          /\ (j # 1 => new[j - 1] = l[j - 1])
        <3>1. /\ j # n - 1 => j + 1 \in 1 .. n - 1 /\ j \in 1 .. n - 2
              /\ j # 1 => j - 1 \in 1 .. n - 1
            BY <1>1
        <3>2. n > 1
            BY <1>1
        <3> QED BY <1>2, <1>3, <3>1, <3>2
    <2>2. t[Data(l[j])].prev = (IF j = 1 THEN 0 ELSE new[j - 1])
        BY <1>5, <2>1
    <2>3. CASE j = n - 1
        <3>2. A[Data(new[j])] = [val |-> t[Data(l[n - 1])].val,
                                 prev |-> t[Data(l[n - 1])].prev, next |-> 0]
            BY <1>13, <2>1, <2>3
        <3>3. A[Data(new[j])] \in DataRows
            BY <1>9, <2>1, <3>2 DEF DataRows, Ref
        <3> QED BY <2>2, <2>3, <3>2, <3>3
    <2>4. CASE j # n - 1
        <3>2. A[Data(new[j])] = t[Data(l[j])]
            BY <1>13, <2>1, <2>4
        <3>3. t[Data(l[j])].next = l[j + 1]
            BY <1>5, <2>1
        <3> QED BY <1>1, <2>1, <2>2, <2>4, <3>2, <3>3
    <2> QED BY <2>3, <2>4
<1>15. \A i \in Ids(new) : A[Data(i)].val = t[Data(i)].val
    <2>1. \A a \in 1 .. n - 1 : n > 1 /\ (a = n - 1 \/ a \in 1 .. n - 2)
        BY <1>1
    <2>2. ASSUME NEW a \in 1 .. n - 1 PROVE A[Data(new[a])].val = t[Data(new[a])].val
        <3>1. CASE a \in 1 .. n - 2
            BY <1>2, <1>13, <3>1
        <3>2. CASE a = n - 1
            BY <1>2, <1>13, <2>1, <3>2
        <3> QED BY <2>1, <3>1, <3>2
    <2> QED BY <1>2, <2>2 DEF Ids
<1>16. Beside(t, c) # 0 => NewBeside(t, c) \in DataRows
    <2>1. Beside(t, c) # 0 => n > 1
        BY <1>8, <1>20
    <2> QED BY <1>9, <2>1 DEF DataRows, Ref
<1>17. Beside(t, c) = 0 \/ Beside(t, c) \in Ids(l) \ {c.id}
    <2>1. Beside(t, c) # 0 => n > 1 /\ n - 1 \in 1 .. n
        BY <1>8, <1>20
    <2> QED BY <1>7, <1>9, <2>1 DEF Ids
<1>18. c.id \in Ids(l)
    BY <1>3, <1>7 DEF Ids
<1>19. NewElement(t, c) = NoRow
    BY DEF NewElement
<1> QED BY <1>2, <1>11, <1>12, <1>13, <1>14, <1>15, <1>16, <1>17, <1>18, <1>19
       DEF ChainMoves, HasChain, new, A

-----------------------------------------------------------------------------
\* All chains together.

\* The rows t hold the chains L, one for each key.
Holds(t, L) ==
    /\ DataTyped(t)
    /\ \A k \in Key : HasChain(t, k, L[k])
    /\ \A j, k \in Key : j # k => Ids(L[j]) \cap Ids(L[k]) = {}
    /\ \A i \in Id : t[Data(i)] # NoRow => \E k \in Key : i \in Ids(L[k])

Chains(t) == [k \in Key |-> ChainFrom(t, ReadHead(t, k).head)]

WellFormed(t) == Holds(t, Chains(t))

\* The chains that the rows hold are those that ChainFrom finds.
LEMMA ChainsAre ==
    ASSUME NEW t, NEW L \in [Key -> Seq(Id)], Holds(t, L)
    PROVE  Chains(t) = L
<1> SUFFICES ASSUME NEW k \in Key PROVE ChainFrom(t, ReadHead(t, k).head) = L[k]
    BY DEF Chains
<1>1. L[k] \in Seq(Id) /\ Distinct(L[k]) /\ Linked(t, L[k]) /\ HasChain(t, k, L[k])
    BY DEF Holds, HasChain
<1>2. ReadHead(t, k).head = At(L[k], 1)
    BY <1>1, HeadIs
<1>3. Len(L[k]) <= Cardinality(Id)
    BY <1>1, ChainsAreShort
<1> QED BY <1>1, <1>2, <1>3, ChainIs DEF Holds

\* Every command moves the chain of its key as it is meant to.
LEMMA ChainMovesOn ==
    ASSUME NEW t, NEW c \in Commands, Possible(t, c), NEW l, HasChain(t, c.key, l)
    PROVE  ChainMoves(t, c, l)
<1>1. c.op \in {"push", "pop"} /\ c.end \in {"head", "tail"}
    BY DEF Commands, Ends
<1> QED BY <1>1, PushHead, PushTail, PopHead, PopTail

\* A chain that has none of the rows the command changes stays.
LEMMA OtherChainsStay ==
    ASSUME NEW t, NEW c \in Commands, NEW k \in Key \ {c.key}, NEW l, HasChain(t, k, l),
           c.id \notin Ids(l), Beside(t, c) \notin Ids(l)
    PROVE  /\ HasChain(After(t, c), k, l)
           /\ \A a \in 1 .. Len(l) : After(t, c)[Data(l[a])] = t[Data(l[a])]
<1>1. \A a \in 1 .. Len(l) : l[a] \in Id /\ l[a] # c.id /\ l[a] # Beside(t, c)
    BY DEF Ids, HasChain
<1>2. \A a \in 1 .. Len(l) : After(t, c)[Data(l[a])] = t[Data(l[a])]
    BY <1>1, AfterRows
<1>3. After(t, c)[Lists(k)] = t[Lists(k)]
    BY AfterRows
<1>4. Linked(After(t, c), l)
    BY <1>2 DEF Linked, HasChain
<1> QED BY <1>2, <1>3, <1>4 DEF HasChain

\* The rows that a command changes are on no other chain.
LEMMA OtherChainsHaveNone ==
    ASSUME NEW t, NEW L, Holds(t, L), NEW c \in Commands, Possible(t, c),
           NEW k \in Key \ {c.key}
    PROVE  c.id \notin Ids(L[k]) /\ Beside(t, c) \notin Ids(L[k])
<1>1. c.key \in Key /\ c.op \in {"push", "pop"}
    BY DEF Commands
<1>2. HasChain(t, c.key, L[c.key])
    BY <1>1 DEF Holds
<1>3. /\ c.op = "pop" => c.id \in Ids(L[c.key])
      /\ Beside(t, c) = 0 \/ Beside(t, c) \in Ids(L[c.key])
    BY <1>2, ChainMovesOn DEF ChainMoves
<1>4. \A i \in Ids(L[k]) : i # 0 /\ t[Data(i)] # NoRow
    BY IdAssumption, NoRowAssumption DEF Holds, HasChain, Linked, Ids
<1>5. Ids(L[c.key]) \cap Ids(L[k]) = {}
    BY <1>1 DEF Holds
<1>6. c.op = "push" => t[Data(c.id)] = NoRow
    BY DEF Possible
<1> QED BY <1>1, <1>3, <1>4, <1>5, <1>6

\* After a command the rows hold the chains it was to leave.
LEMMA NewChainsHold ==
    ASSUME NEW t, NEW L \in [Key -> Seq(Id)], Holds(t, L), NEW c \in Commands, Possible(t, c)
    PROVE  Holds(After(t, c), [L EXCEPT ![c.key] = NewChain(L[c.key], c)])
<1> DEFINE l == L[c.key]
           new == NewChain(l, c)
           M == [L EXCEPT ![c.key] = new]
           A == After(t, c)
<1>1. c.key \in Key /\ c.id \in Id /\ c.op \in {"push", "pop"}
    BY DEF Commands
<1>2. ChainMoves(t, c, l)
    BY <1>1, ChainMovesOn DEF Holds
<1>3. /\ HasChain(A, c.key, new)
      /\ Ids(new) = IF c.op = "push" THEN Ids(l) \cup {c.id} ELSE Ids(l) \ {c.id}
      /\ c.op = "pop" => c.id \in Ids(l)
      /\ Beside(t, c) = 0 \/ Beside(t, c) \in Ids(l) \ {c.id}
      /\ NewElement(t, c) \in DataRows \cup {NoRow}
      /\ Beside(t, c) # 0 => NewBeside(t, c) \in DataRows
    BY <1>2 DEF ChainMoves
<1>4. \A k \in Key : M[k] = IF k = c.key THEN new ELSE L[k]
    BY <1>1
<1>5. \A k \in Key : \A i \in Ids(L[k]) : i \in Id /\ i # 0 /\ t[Data(i)] # NoRow
    BY IdAssumption, NoRowAssumption DEF Holds, HasChain, Linked, Ids
<1> HIDE DEF M, new, A
<1>6. \A k \in Key \ {c.key} : c.id \notin Ids(L[k]) /\ Beside(t, c) \notin Ids(L[k])
    BY OtherChainsHaveNone
<1>7. DataTyped(A)
    <2> SUFFICES ASSUME NEW i \in Id PROVE A[Data(i)] \in DataRows \cup {NoRow}
        BY DEF DataTyped
    <2>1. t[Data(i)] \in DataRows \cup {NoRow}
        BY DEF Holds, DataTyped
    <2> QED BY <1>3, <2>1, AfterRows, IdAssumption DEF A
<1>8. \A k \in Key : HasChain(A, k, M[k])
    BY <1>3, <1>4, <1>6, OtherChainsStay DEF Holds, A
<1>9. \A j, k \in Key : j # k => Ids(M[j]) \cap Ids(M[k]) = {}
    <2>1. \A k \in Key \ {c.key} : Ids(new) \cap Ids(L[k]) = {}
        <3>1. \A k \in Key \ {c.key} : Ids(l) \cap Ids(L[k]) = {}
            BY <1>1 DEF Holds
        <3> HIDE DEF l
        <3> QED BY <1>3, <1>6, <3>1
    <2>2. \A j, k \in Key : j # k => Ids(L[j]) \cap Ids(L[k]) = {}
        BY DEF Holds
    <2> QED BY <1>4, <2>1, <2>2
<1>10. ASSUME NEW i \in Id, A[Data(i)] # NoRow PROVE \E k \in Key : i \in Ids(M[k])
    <2>1. CASE i = c.id
        <3>1. NewElement(t, c) # NoRow
            BY <1>10, <2>1, AfterRows DEF A
        <3>2. c.op = "push"
            BY <3>1 DEF NewElement
        <3> QED BY <1>1, <1>3, <1>4, <2>1, <3>2
    <2>2. CASE i # c.id /\ i = Beside(t, c)
        <3>1. i # 0
            BY IdAssumption
        <3> HIDE DEF l
        <3>2. i \in Ids(new)
            BY <1>3, <2>2, <3>1
        <3> QED BY <1>1, <1>4, <3>2
    <2>3. CASE i # c.id /\ i # Beside(t, c)
        <3>1. t[Data(i)] # NoRow
            BY <1>10, <2>3, AfterRows DEF A
        <3>2. PICK k \in Key : i \in Ids(L[k])
            BY <3>1 DEF Holds
        <3>3. i \in Ids(M[k])
            BY <1>1, <1>3, <1>4, <2>3, <3>2
        <3> QED BY <3>3
    <2> QED BY <2>1, <2>2, <2>3
<1>11. Holds(A, M)
    BY <1>7, <1>8, <1>9, <1>10 DEF Holds
<1> QED BY <1>11 DEF A, M, new

\* Rows that hold chains are typed.
LEMMA ChainsAreTyped ==
    ASSUME NEW t, WellFormed(t)
    PROVE  /\ Chains(t) \in [Key -> Seq(Id)]
           /\ \A k \in Key : Chains(t)[k] = ChainFrom(t, ReadHead(t, k).head)
           /\ \A k \in Key : t[Lists(k)] \in HeadRows \cup {NoRow}
           /\ \A i \in Id : t[Data(i)] \in DataRows \cup {NoRow}
<1>1. \A k \in Key : HasChain(t, k, Chains(t)[k]) /\ DataTyped(t)
    BY DEF WellFormed, Holds
<1>2. Chains(t) \in [Key -> Seq(Id)]
    BY <1>1 DEF HasChain, Chains
<1>3. ASSUME NEW k \in Key PROVE t[Lists(k)] \in HeadRows \cup {NoRow}
    <2> DEFINE l == Chains(t)[k]
    <2>1. l \in Seq(Id) /\ Distinct(l) /\ t[Lists(k)] = HeadOf(l)
        BY <1>1 DEF HasChain
    <2> HIDE DEF l
    <2>2. l = <<>> => HeadOf(l) = NoRow
        BY DEF HeadOf
    <2>3. l # <<>> => HeadOf(l) \in HeadRows
        BY <2>1, ChainsAreShort
    <2> QED BY <2>1, <2>2, <2>3
<1>4. \A k \in Key : Chains(t)[k] = ChainFrom(t, ReadHead(t, k).head)
    BY DEF Chains
<1>5. \A i \in Id : t[Data(i)] \in DataRows \cup {NoRow}
    BY DEF WellFormed, Holds, DataTyped
<1> QED BY <1>2, <1>3, <1>4, <1>5

\* Every command that is possible leaves one chain per key.
LEMMA StaysWellFormed ==
    ASSUME NEW t, WellFormed(t), NEW c \in Commands, Possible(t, c)
    PROVE  /\ WellFormed(After(t, c))
           /\ Chains(After(t, c)) = [Chains(t) EXCEPT ![c.key] = NewChain(Chains(t)[c.key], c)]
<1> DEFINE L == Chains(t)
           M == [L EXCEPT ![c.key] = NewChain(L[c.key], c)]
<1>1. L \in [Key -> Seq(Id)] /\ Holds(t, L)
    BY ChainsAreTyped DEF WellFormed
<1> HIDE DEF L
<1>2. Holds(After(t, c), M)
    BY <1>1, NewChainsHold
<1>3. M \in [Key -> Seq(Id)]
    <2>1. \A k \in Key : M[k] \in Seq(Id)
        BY <1>2 DEF Holds, HasChain
    <2> QED BY <1>1, <2>1
<1> HIDE DEF M
<1>4. Chains(After(t, c)) = M
    BY <1>2, <1>3, ChainsAre
<1> QED BY <1>2, <1>4 DEF WellFormed, L, M

\* The command's id has a row, or is new; the row beside it is another one.
LEMMA CommandMoves ==
    ASSUME NEW t, WellFormed(t), NEW c \in Commands, Possible(t, c)
    PROVE  ChainMoves(t, c, Chains(t)[c.key]) /\ HasChain(t, c.key, Chains(t)[c.key])
BY ChainMovesOn DEF WellFormed, Holds, Commands

\* Commands for two keys change different rows.
LEMMA CommandsAreApart ==
    ASSUME NEW t, WellFormed(t),
           NEW c \in Commands, Possible(t, c), NEW d \in Commands, Possible(t, d),
           c.key # d.key, c.op = "push" /\ d.op = "push" => c.id # d.id
    PROVE  Changes(t, c) \cap Changes(t, d) = {}
<1> DEFINE L == Chains(t)
           E(x) == {x.id} \cup (IF Beside(t, x) = 0 THEN {} ELSE {Beside(t, x)})
<1>1. /\ c.key \in Key /\ d.key \in Key /\ c.id \in Id /\ d.id \in Id
      /\ c.op \in {"push", "pop"} /\ d.op \in {"push", "pop"}
    BY DEF Commands
<1>2. Ids(L[c.key]) \cap Ids(L[d.key]) = {}
    BY <1>1 DEF WellFormed, Holds
<1>3. /\ c.op = "pop" => c.id \in Ids(L[c.key])
      /\ Beside(t, c) = 0 \/ Beside(t, c) \in Ids(L[c.key])
      /\ d.op = "pop" => d.id \in Ids(L[d.key])
      /\ Beside(t, d) = 0 \/ Beside(t, d) \in Ids(L[d.key])
    BY CommandMoves DEF ChainMoves
<1>4. \A k \in Key : \A i \in Ids(L[k]) : i \in Id /\ i # 0 /\ t[Data(i)] # NoRow
    BY IdAssumption, NoRowAssumption DEF WellFormed, Holds, HasChain, Linked, Ids
<1>5. /\ c.op = "push" => t[Data(c.id)] = NoRow
      /\ d.op = "push" => t[Data(d.id)] = NoRow
    BY DEF Possible
<1> HIDE DEF L
<1>6. E(c) \cap E(d) = {}
    BY <1>1, <1>2, <1>3, <1>4, <1>5
<1>7. Changes(t, c) = {Lists(c.key)} \cup {Data(i) : i \in E(c)}
    BY DEF Changes
<1>8. Changes(t, d) = {Lists(d.key)} \cup {Data(i) : i \in E(d)}
    BY DEF Changes
<1> HIDE DEF E
<1> QED BY <1>1, <1>6, <1>7, <1>8, RowsDiffer

\* What a command does depends on the rows it changes only.
LEMMA Undisturbed ==
    ASSUME NEW s, NEW t, NEW c \in Commands, Possible(t, c),
           \A r \in Changes(t, c) : s[r] = t[r]
    PROVE  /\ Possible(s, c) /\ Beside(s, c) = Beside(t, c) /\ Changes(s, c) = Changes(t, c)
           /\ s[Lists(c.key)] = t[Lists(c.key)] /\ ReadHead(s, c.key) = ReadHead(t, c.key)
           /\ Shrunk(s, c) = Shrunk(t, c) /\ NewLists(s, c) = NewLists(t, c)
           /\ \A r \in Row : After(s, c)[r] = IF r \in Changes(t, c) THEN After(t, c)[r]
                                              ELSE s[r]
<1>1. s[Lists(c.key)] = t[Lists(c.key)] /\ s[Data(c.id)] = t[Data(c.id)]
    BY DEF Changes
<1>2. Possible(s, c)
    BY <1>1 DEF Possible
<1>3. ReadHead(s, c.key) = ReadHead(t, c.key)
    BY <1>1 DEF ReadHead
<1>4. Beside(s, c) = Beside(t, c)
    BY <1>1, <1>3 DEF Beside
<1>5. Changes(s, c) = Changes(t, c)
    BY <1>4 DEF Changes
<1>6. Shrunk(s, c) = Shrunk(t, c)
    BY <1>3, <1>4 DEF Shrunk
<1>7. NewLists(s, c) = NewLists(t, c)
    BY <1>1, <1>3, <1>6 DEF NewLists
<1>8. NewElement(s, c) = NewElement(t, c)
    BY <1>4 DEF NewElement
<1>9. Beside(t, c) # 0 => NewBeside(s, c) = NewBeside(t, c)
    <2> SUFFICES ASSUME Beside(t, c) # 0 PROVE NewBeside(s, c) = NewBeside(t, c)
        OBVIOUS
    <2>1. s[Data(Beside(t, c))] = t[Data(Beside(t, c))]
        BY DEF Changes
    <2> QED BY <1>4, <2>1 DEF NewBeside
<1>10. ASSUME NEW r \in Row
       PROVE  After(s, c)[r] = IF r \in Changes(t, c) THEN After(t, c)[r] ELSE s[r]
    <2>1. CASE r = Lists(c.key) \/ r = Data(c.id) \/ r \notin Changes(t, c)
        BY <1>5, <1>7, <1>8, <2>1 DEF After, Changes
    <2>2. CASE r # Lists(c.key) /\ r # Data(c.id) /\ r \in Changes(t, c)
        <3>1. Beside(t, c) # 0
            BY <2>2 DEF Changes
        <3> QED BY <1>5, <1>9, <2>2, <3>1 DEF After
    <2> QED BY <2>1, <2>2
<1> QED BY <1>1, <1>2, <1>3, <1>4, <1>5, <1>6, <1>7, <1>10

-----------------------------------------------------------------------------
\* The statements do what the command is to do.

\* The statements of a command.
LinkOf(t, c) == Link(Beside(t, c), Outward(c.end), IF c.op = "push" THEN c.id ELSE 0)

HeadStatement(t, c) ==
    IF c.op = "pop" THEN SetHead(c.key, Shrunk(t, c))
    ELSE IF t[Lists(c.key)] = NoRow THEN NewHead(c.key, NewLists(t, c))
    ELSE SetHead(c.key, NewLists(t, c))

Fits(t, c, s) ==
    \/ s = LinkOf(t, c) /\ Beside(t, c) # 0
    \/ s = Unlink(c.id) /\ c.op = "pop"
    \/ s = HeadStatement(t, c)

RowOf(s) == IF s.op \in {"newhead", "sethead"} THEN Lists(s.at) ELSE Data(s.at)

\* The rows of w's command are as its snapshot has them, or written by w.
Owned(w, c) ==
    \A r \in Changes(committed, c) :
        /\ view[w][r] = committed[r] /\ lock[r] \in {Free, w}
        /\ lock[r] = w => current[r] = After(committed, c)[r]

\* An update that nobody disturbed writes what it is meant to.
LEMMA MergeIs ==
    ASSUME NEW x, NEW y, \/ x \in HeadRows /\ y \in HeadRows \cup {NoRow}
                         \/ x \in DataRows /\ y \in DataRows \cup {NoRow}
    PROVE  Merge(x, x, y) = y
<1>1. CASE y = NoRow
    BY <1>1 DEF Merge
<1>2. CASE x \in HeadRows /\ y \in HeadRows
    BY <1>2, NoRowAssumption DEF Merge, HeadRows
<1>3. CASE x \in DataRows /\ y \in DataRows
    BY <1>3, NoRowAssumption DEF Merge, DataRows
<1> QED BY <1>1, <1>2, <1>3

\* Where a statement finds its row there, what it leaves is Outcome.
LEMMA Writes ==
    ASSUME Shape, NEW w \in Worker, NEW r \in Row, NEW new, NEW s,
           Target(w, s) = r, s.op # "newhead", Outcome(w, s) = new,
           current[r] = Sees(w, r), Sees(w, r) # NoRow,
           \/ Sees(w, r) \in HeadRows /\ new \in HeadRows \cup {NoRow}
           \/ Sees(w, r) \in DataRows /\ new \in DataRows \cup {NoRow}
    PROVE  /\ NothingToDo(w, s) => new = Sees(w, r)
           /\ Apply(w, s) => WriteRow(w, r, new)
<1>1. r # NoRow
    BY NoRowAssumption
<1>2. Merge(current[r], Sees(w, r), new) = new
    BY MergeIs
<1> QED BY <1>1, <1>2 DEF NothingToDo, Apply

\* The insert or the update of the key's row in `lists'.
LEMMA HeadStatementDoes ==
    ASSUME Inv, WellFormed(committed), NEW w \in Worker,
           NEW c \in Commands, Possible(committed, c), Owned(w, c),
           NEW s, s = HeadStatement(committed, c), lock[Lists(c.key)] # w
    PROVE  LET r == Lists(c.key)
               new == After(committed, c)[r]
           IN  /\ RowOf(s) = r /\ Target(w, s) = r
               /\ NothingToDo(w, s) => new = committed[r]
               /\ Apply(w, s) => WriteRow(w, r, new)
<1> DEFINE r == Lists(c.key)
           new == After(committed, c)[r]
           sees == [q \in Row |-> Sees(w, q)]
<1>1. c.key \in Key /\ r \in Row /\ r \in Changes(committed, c) /\ r # NoRow
    BY RowsDiffer, NoRowAssumption DEF Commands, Changes
<1>2. new = NewLists(committed, c)
    BY AfterRows
<1>3. committed[r] \in HeadRows \cup {NoRow} /\ new \in HeadRows \cup {NoRow}
    BY <1>1, ChainsAreTyped, StaysWellFormed
<1>4. /\ lock[r] = Free /\ current[r] = committed[r]
      /\ Sees(w, r) = committed[r] /\ sees[r] = committed[r]
    BY <1>1 DEF Owned, Inv, Sees
<1>5. CASE c.op # "pop" /\ committed[r] = NoRow
    <2>1. s = [op |-> "newhead", at |-> c.key, row |-> new]
        BY <1>2, <1>5 DEF HeadStatement, NewHead
    <2>2. s.op = "newhead" /\ s.at = c.key /\ s.row = new
        BY <2>1
    <2>3. Target(w, s) = r /\ RowOf(s) = r
        BY <2>2 DEF Target, RowOf
    <2>4. ~NothingToDo(w, s)
        BY <1>1, <2>2, <2>3 DEF NothingToDo
    <2>5. Apply(w, s) => WriteRow(w, r, new)
        BY <1>4, <1>5, <2>2, <2>3 DEF Apply
    <2> QED BY <2>3, <2>4, <2>5
<1>6. CASE c.op = "pop" \/ committed[r] # NoRow
    <2> DEFINE row == IF c.op = "pop" THEN Shrunk(committed, c) ELSE new
    <2>1. s = [op |-> "sethead", at |-> c.key, row |-> row]
        BY <1>2, <1>6 DEF HeadStatement, SetHead
    <2>2. s.op = "sethead" /\ s.at = c.key /\ s.row = row
        BY <2>1
    <2>3. committed[r] # NoRow
        BY <1>6 DEF Possible, Commands
    <2>4. Target(w, s) = PositionGE(sees, "lists", c.key)
        BY <2>2 DEF Target
    <2> HIDE DEF sees
    <2>5. Target(w, s) = r /\ RowOf(s) = r
        BY <1>1, <1>4, <2>2, <2>3, <2>4, PositionIsExact DEF RowOf
    <2>6. Outcome(w, s) = new
        <3>1. Outcome(w, s) = IF row.count = 0 THEN NoRow ELSE row
            BY <2>2 DEF Outcome
        <3>2. CASE c.op = "pop"
            BY <1>2, <3>1, <3>2 DEF NewLists
        <3>3. CASE c.op # "pop"
            <4>1. new # NoRow
                <5>1. new = [ReadHead(committed, c.key) EXCEPT ![c.end] = c.id, !.count = @ + 1]
                    BY <1>2, <2>3, <3>3 DEF NewLists
                <5>2. ReadHead(committed, c.key) \in HeadRows
                    BY <1>3, <2>3 DEF ReadHead
                <5>3. c.end \in {"head", "tail"} /\ c.id \in Id
                    BY DEF Commands, Ends
                <5>4. PICK h \in Id, tl \in Id, n \in 1 .. Cardinality(Id) :
                         ReadHead(committed, c.key) = [head |-> h, tail |-> tl, count |-> n]
                    BY <5>2 DEF HeadRows
                <5>5. ChainMoves(committed, c, Chains(committed)[c.key])
                    BY CommandMoves
                <5>6. HasChain(After(committed, c), c.key, NewChain(Chains(committed)[c.key], c))
                    BY <5>5 DEF ChainMoves
                <5>7. NewChain(Chains(committed)[c.key], c) # <<>>
                    <6>1. c.id \in Ids(NewChain(Chains(committed)[c.key], c))
                        BY <3>3, <5>5 DEF ChainMoves, Commands
                    <6> QED BY <6>1 DEF Ids
                <5> QED BY <5>6, <5>7, <1>1, HeadIs
            <4>2. new.count # 0
                BY <1>3, <4>1 DEF HeadRows
            <4> QED BY <3>1, <3>3, <4>2
        <3> QED BY <3>2, <3>3
    <2>7. Shape /\ committed[r] \in HeadRows
        BY <1>3, <2>3 DEF Inv
    <2> HIDE DEF r, new
    <2>8. /\ NothingToDo(w, s) => new = Sees(w, r)
          /\ Apply(w, s) => WriteRow(w, r, new)
        BY <1>1, <1>3, <1>4, <2>2, <2>3, <2>5, <2>6, <2>7, Writes
    <2> QED BY <1>4, <2>5, <2>8 DEF r, new
<1> QED BY <1>5, <1>6

\* The delete of the element that is popped.
LEMMA UnlinkDoes ==
    ASSUME Inv, WellFormed(committed), NEW w \in Worker,
           NEW c \in Commands, Possible(committed, c), Owned(w, c),
           NEW s, s = Unlink(c.id), c.op = "pop", lock[Data(c.id)] # w
    PROVE  LET r == Data(c.id)
               new == After(committed, c)[r]
           IN  /\ RowOf(s) = r /\ Target(w, s) = r
               /\ NothingToDo(w, s) => new = committed[r]
               /\ Apply(w, s) => WriteRow(w, r, new)
<1> DEFINE r == Data(c.id)
           new == After(committed, c)[r]
           sees == [q \in Row |-> Sees(w, q)]
<1>1. c.id \in Id /\ r \in Row /\ r \in Changes(committed, c) /\ r # NoRow
    BY RowsDiffer, NoRowAssumption DEF Commands, Changes
<1>2. new = NoRow
    BY AfterRows DEF NewElement
<1>3. committed[r] \in DataRows /\ committed[r] # NoRow
    <2>1. c.id \in Ids(Chains(committed)[c.key])
        BY CommandMoves DEF ChainMoves
    <2>2. Linked(committed, Chains(committed)[c.key])
        BY CommandMoves DEF HasChain
    <2>3. committed[r] \in DataRows
        BY <2>1, <2>2 DEF Ids, Linked
    <2> QED BY <2>3, NoRowAssumption
<1>4. /\ lock[r] = Free /\ current[r] = committed[r]
      /\ Sees(w, r) = committed[r] /\ sees[r] = committed[r]
    BY <1>1 DEF Owned, Inv, Sees
<1>5. s = [op |-> "unlink", at |-> c.id]
    BY DEF Unlink
<1>6. s.op = "unlink" /\ s.at = c.id
    BY <1>5
<1>7. Target(w, s) = PositionGE(sees, "lists-data", c.id)
    BY <1>6 DEF Target
<1> HIDE DEF sees
<1>8. Target(w, s) = r /\ RowOf(s) = r
    BY <1>1, <1>3, <1>4, <1>6, <1>7, PositionIsExact DEF RowOf
<1>9. Outcome(w, s) = new
    BY <1>2, <1>6 DEF Outcome
<1>10. Shape
    BY DEF Inv
<1> HIDE DEF r, new
<1>11. /\ NothingToDo(w, s) => new = Sees(w, r)
       /\ Apply(w, s) => WriteRow(w, r, new)
    BY <1>1, <1>2, <1>3, <1>4, <1>6, <1>8, <1>9, <1>10, Writes
<1> QED BY <1>4, <1>8, <1>11 DEF r, new

\* The update of the element beside it, be it the first or the second one.
LEMMA LinkDoes ==
    ASSUME Inv, WellFormed(committed), NEW w \in Worker,
           NEW c \in Commands, Possible(committed, c), Owned(w, c),
           NEW s, s = LinkOf(committed, c), Beside(committed, c) # 0
    PROVE  LET r == Data(Beside(committed, c))
               new == After(committed, c)[r]
           IN  /\ RowOf(s) = r /\ Target(w, s) = r
               /\ NothingToDo(w, s) => lock[r] = w \/ new = committed[r]
               /\ Apply(w, s) => WriteRow(w, r, new)
<1> DEFINE b == Beside(committed, c)
           r == Data(b)
           new == After(committed, c)[r]
           col == Outward(c.end)
           to == IF c.op = "push" THEN c.id ELSE 0
           sees == [q \in Row |-> Sees(w, q)]
<1>0. ChainMoves(committed, c, Chains(committed)[c.key])
    BY CommandMoves
<1>1. /\ b \in Ids(Chains(committed)[c.key]) /\ b # c.id
      /\ NewBeside(committed, c) \in DataRows
    BY <1>0 DEF ChainMoves
<1>2. b \in Id /\ committed[r] \in DataRows
    <2>1. /\ Linked(committed, Chains(committed)[c.key])
          /\ Chains(committed)[c.key] \in Seq(Id)
        BY CommandMoves DEF HasChain
    <2> QED BY <1>1, <2>1 DEF Ids, Linked
<1>3. r \in Row /\ r \in Changes(committed, c) /\ r # NoRow
    BY <1>2, RowsDiffer, NoRowAssumption DEF Changes
<1>4. new = NewBeside(committed, c) /\ new = [committed[r] EXCEPT ![col] = to]
    BY <1>1, <1>2, AfterRows DEF NewBeside
<1>5. s = [op |-> "link", at |-> b, col |-> col, to |-> to]
    BY DEF LinkOf, Link
<1>6. s.op = "link" /\ s.at = b /\ s.col = col /\ s.to = to
    BY <1>5
<1>7. /\ current[r] = Sees(w, r) /\ sees[r] = Sees(w, r)
      /\ Sees(w, r) = new \/ Sees(w, r) = committed[r]
      /\ lock[r] = w \/ Sees(w, r) = committed[r]
    BY <1>3 DEF Owned, Inv, Sees
<1>8. Target(w, s) = PositionGE(sees, "lists-data", b)
    BY <1>6 DEF Target
<1>9. new \in DataRows /\ Sees(w, r) \in DataRows /\ Sees(w, r) # NoRow
    BY <1>1, <1>2, <1>4, <1>7, NoRowAssumption
<1>10. [Sees(w, r) EXCEPT ![col] = to] = new
    <2>1. col \in {"prev", "next"}
        BY DEF Outward
    <2> DEFINE x == committed[r]
    <2>2. x \in DataRows
        BY <1>2
    <2> HIDE DEF x, col, to, new
    <2>3. [new EXCEPT ![col] = to] = new
        <3>1. new = [x EXCEPT ![col] = to]
            BY <1>4 DEF x
        <3>2. CASE col = "prev"
            <4>1. new = [val |-> x.val, prev |-> to, next |-> x.next]
                BY <2>2, <3>1, <3>2, Columns
            <4> QED BY <3>2, <4>1
        <3>3. CASE col = "next"
            <4>1. new = [val |-> x.val, prev |-> x.prev, next |-> to]
                BY <2>2, <3>1, <3>3, Columns
            <4> QED BY <3>3, <4>1
        <3> QED BY <2>1, <3>2, <3>3
    <2> QED BY <1>4, <1>7, <2>3 DEF x
<1> HIDE DEF sees, col, to
<1>11. Target(w, s) = r /\ RowOf(s) = r
    <2> HIDE DEF b
    <2> QED BY <1>2, <1>6, <1>7, <1>8, <1>9, PositionIsExact DEF RowOf
<1>12. Outcome(w, s) = new
    BY <1>6, <1>10, <1>11 DEF Outcome
<1>13. Shape
    BY DEF Inv
<1> HIDE DEF r, new
<1>14. /\ NothingToDo(w, s) => new = Sees(w, r)
       /\ Apply(w, s) => WriteRow(w, r, new)
    BY <1>3, <1>6, <1>7, <1>9, <1>11, <1>12, <1>13, Writes
<1> QED BY <1>7, <1>11, <1>14 DEF r, new

\* What a command may have left to run.
Left(t, c) ==
    LET L == LinkOf(t, c)
        U == Unlink(c.id)
        H == HeadStatement(t, c)
    IN  {<<>>, <<H>>}
        \cup (IF c.op = "pop" THEN {<<U, H>>} ELSE {})
        \cup (IF Beside(t, c) = 0 THEN {}
              ELSE IF c.op = "pop" THEN {<<L, U, H>>} ELSE {<<L, H>>, <<L, L, H>>})

Statements(q) == {q[a] : a \in 1 .. Len(q)}

\* The statements in a list of at most three.
LEMMA StatementsOf ==
    /\ Statements(<<>>) = {}
    /\ \A x : Statements(<<x>>) = {x} /\ Head(<<x>>) = x /\ Tail(<<x>>) = <<>>
    /\ \A x, y : /\ Statements(<<x, y>>) = {x, y}
                 /\ Head(<<x, y>>) = x /\ Tail(<<x, y>>) = <<y>>
    /\ \A x, y, z : /\ Statements(<<x, y, z>>) = {x, y, z}
                    /\ Head(<<x, y, z>>) = x /\ Tail(<<x, y, z>>) = <<y, z>>
<1>1. Statements(<<>>) = {}
    BY DEF Statements
<1>2. ASSUME NEW x PROVE Statements(<<x>>) = {x} /\ Head(<<x>>) = x /\ Tail(<<x>>) = <<>>
    BY DEF Statements
<1>3. ASSUME NEW x, NEW y
      PROVE  /\ Statements(<<x, y>>) = {x, y}
             /\ Head(<<x, y>>) = x /\ Tail(<<x, y>>) = <<y>>
    <2>1. Len(<<x, y>>) = 2 /\ 1 .. 2 = {1, 2}
        OBVIOUS
    <2> QED BY <2>1 DEF Statements
<1>4. ASSUME NEW x, NEW y, NEW z
      PROVE  /\ Statements(<<x, y, z>>) = {x, y, z}
             /\ Head(<<x, y, z>>) = x /\ Tail(<<x, y, z>>) = <<y, z>>
    <2>1. Len(<<x, y, z>>) = 3 /\ 1 .. 3 = {1, 2, 3}
        OBVIOUS
    <2> QED BY <2>1 DEF Statements
<1> QED BY <1>1, <1>2, <1>3, <1>4

\* The row of each statement.
LEMMA StatementIs ==
    ASSUME NEW t, NEW c \in Commands
    PROVE  /\ LinkOf(t, c).op = "link" /\ RowOf(LinkOf(t, c)) = Data(Beside(t, c))
           /\ Unlink(c.id).op = "unlink" /\ RowOf(Unlink(c.id)) = Data(c.id)
           /\ HeadStatement(t, c).op \in {"newhead", "sethead"}
           /\ RowOf(HeadStatement(t, c)) = Lists(c.key)
<1>1. LinkOf(t, c).op = "link" /\ LinkOf(t, c).at = Beside(t, c)
    BY DEF LinkOf, Link
<1>2. Unlink(c.id).op = "unlink" /\ Unlink(c.id).at = c.id
    BY DEF Unlink
<1>3. HeadStatement(t, c).op \in {"newhead", "sethead"} /\ HeadStatement(t, c).at = c.key
    BY DEF HeadStatement, SetHead, NewHead
<1> QED BY <1>1, <1>2, <1>3 DEF RowOf

\* What is left begins with a statement of the command, and goes on with others.
LEMMA LeftIs ==
    ASSUME NEW t, WellFormed(t), NEW c \in Commands, Possible(t, c),
           NEW q \in Left(t, c)
    PROVE  /\ \A s \in Statements(q) : RowOf(s) \in Changes(t, c)
           /\ q # <<>> => /\ Fits(t, c, Head(q)) /\ Head(q) \in Statements(q)
                          /\ Tail(q) \in Left(t, c)
                          /\ Statements(q) = {Head(q)} \cup Statements(Tail(q))
                          /\ \A s \in Statements(Tail(q)) :
                                 s.op # "link" => RowOf(s) # RowOf(Head(q))
<1> DEFINE L == LinkOf(t, c)
           U == Unlink(c.id)
           H == HeadStatement(t, c)
           b == Beside(t, c)
<1>1. c.id \in Id /\ c.key \in Key /\ c.op \in {"push", "pop"} /\ (b # 0 => b # c.id)
    <2>1. ChainMoves(t, c, Chains(t)[c.key])
        BY CommandMoves
    <2> QED BY <2>1 DEF Commands, ChainMoves
<1>2. /\ L.op = "link" /\ RowOf(L) = Data(b)
      /\ U.op = "unlink" /\ RowOf(U) = Data(c.id)
      /\ H.op \in {"newhead", "sethead"} /\ RowOf(H) = Lists(c.key)
    BY StatementIs
<1>3. /\ RowOf(H) # RowOf(L) /\ RowOf(H) # RowOf(U)
      /\ b # 0 => RowOf(L) # RowOf(U) /\ RowOf(L) \in Changes(t, c)
      /\ RowOf(H) \in Changes(t, c) /\ RowOf(U) \in Changes(t, c)
    BY <1>1, <1>2, RowsDiffer DEF Changes
<1>4. Left(t, c) = {<<>>, <<H>>}
          \cup (IF c.op = "pop" THEN {<<U, H>>} ELSE {})
          \cup (IF b = 0 THEN {} ELSE IF c.op = "pop" THEN {<<L, U, H>>}
                                      ELSE {<<L, H>>, <<L, L, H>>})
    BY DEF Left
<1>5. /\ Fits(t, c, H) /\ (b # 0 => Fits(t, c, L)) /\ (c.op = "pop" => Fits(t, c, U))
    BY DEF Fits
<1> HIDE DEF L, U, H, b
<1>6. CASE q = <<>>
    BY <1>6, StatementsOf
<1>7. CASE q = <<H>>
    BY <1>3, <1>4, <1>5, <1>7, StatementsOf
<1>8. CASE q = <<U, H>> /\ c.op = "pop"
    <2>1. Statements(q) = {U, H} /\ Head(q) = U /\ Tail(q) = <<H>> /\ Statements(<<H>>) = {H}
        BY <1>8, StatementsOf
    <2> QED BY <1>3, <1>4, <1>5, <1>8, <2>1
<1>9. CASE q = <<L, U, H>> /\ c.op = "pop" /\ b # 0
    <2>1. Statements(q) = {L, U, H} /\ Head(q) = L /\ Tail(q) = <<U, H>>
          /\ Statements(<<U, H>>) = {U, H}
        BY <1>9, StatementsOf
    <2> QED BY <1>3, <1>4, <1>5, <1>9, <2>1
<1>10. CASE q = <<L, H>> /\ c.op # "pop" /\ b # 0
    <2>1. Statements(q) = {L, H} /\ Head(q) = L /\ Tail(q) = <<H>>
          /\ Statements(<<H>>) = {H}
        BY <1>10, StatementsOf
    <2> QED BY <1>3, <1>4, <1>5, <1>10, <2>1
<1>11. CASE q = <<L, L, H>> /\ c.op # "pop" /\ b # 0
    <2>1. Statements(q) = {L, H} /\ Head(q) = L /\ Tail(q) = <<L, H>>
          /\ Statements(<<L, H>>) = {L, H}
        BY <1>11, StatementsOf
    <2> QED BY <1>2, <1>3, <1>4, <1>5, <1>11, <2>1
<1> QED BY <1>4, <1>6, <1>7, <1>8, <1>9, <1>10, <1>11

-----------------------------------------------------------------------------
\* The invariant.

OneWriter == \A k \in Key : \A u, w \in Writers[k] : u = w

Request(c) == IF c.op = "push" THEN <<"push", c.key, c.end, c.val>>
              ELSE <<"pop", c.key, c.end>>

Result(t, c) == IF c.op = "push" THEN ReadHead(t, c.key).count + 1 ELSE c.val

\* w is running the command c.
Doing(w, c) ==
    /\ c \in Commands /\ Possible(committed, c) /\ w \in Writers[c.key]
    /\ answer[w] = Answer(w, Request(c), Result(committed, c))
    /\ c.op = "push" => c.id \in drawn /\ lock[Data(c.id)] = w
    /\ Owned(w, c)
    /\ \A r \in Row : lock[r] = w => r \in Changes(committed, c)
    /\ todo[w] \in Left(committed, c)
    /\ \A s \in Statements(todo[w]) : s.op # "link" => lock[RowOf(s)] # w
    /\ \A r \in Changes(committed, c) :
           \/ lock[r] = w
           \/ After(committed, c)[r] = committed[r]
           \/ \E s \in Statements(todo[w]) : RowOf(s) = r

AtomicInv ==
    /\ Inv
    /\ \A w \in Worker : view[w] # NoTrx => DOMAIN view[w] = Row
    /\ WellFormed(committed)
    /\ \A i \in Id : committed[Data(i)] # NoRow => i \in drawn
    /\ \A w \in Worker : Busy(w) => \E c : Doing(w, c)

\* A command changes rows that there are.
LEMMA ChangesAreRows ==
    ASSUME NEW t, WellFormed(t), NEW c \in Commands, Possible(t, c)
    PROVE  Changes(t, c) \subseteq Row
<1>1. ChainMoves(t, c, Chains(t)[c.key]) /\ HasChain(t, c.key, Chains(t)[c.key])
    BY CommandMoves
<1>2. Beside(t, c) = 0 \/ Beside(t, c) \in Id
    BY <1>1 DEF ChainMoves, HasChain, Ids
<1> QED BY <1>2, RowsDiffer DEF Changes, Commands

\* An element that a command changes is one that a push has drawn.
LEMMA ChangesAreDrawn ==
    ASSUME AtomicInv, NEW u, NEW d, Doing(u, d), NEW i \in Id, Data(i) \in Changes(committed, d)
    PROVE  i \in drawn
<1>1. d \in Commands /\ Possible(committed, d) /\ WellFormed(committed)
    BY DEF Doing, AtomicInv
<1>2. /\ ChainMoves(committed, d, Chains(committed)[d.key])
      /\ HasChain(committed, d.key, Chains(committed)[d.key])
    BY <1>1, CommandMoves
<1>3. \A j \in Ids(Chains(committed)[d.key]) : committed[Data(j)] # NoRow /\ j \in Id
    BY <1>2, NoRowAssumption DEF HasChain, Linked, Ids
<1>4. i = d.id \/ (i = Beside(committed, d) /\ i # 0)
    BY RowsDiffer, IdAssumption DEF Changes
<1>5. d.op \in {"push", "pop"}
    BY <1>1 DEF Commands
<1>6. \A j \in Ids(Chains(committed)[d.key]) : j \in drawn
    BY <1>3 DEF AtomicInv
<1> QED BY <1>2, <1>4, <1>5, <1>6 DEF Doing, ChainMoves

\* Two workers change different rows.
LEMMA WorkersAreApart ==
    ASSUME OneWriter, AtomicInv, NEW u, NEW d, Doing(u, d),
           NEW w, w # u, NEW c \in Commands, Possible(committed, c), w \in Writers[c.key],
           c.op = "push" => c.id \notin drawn \/ lock[Data(c.id)] = w
    PROVE  /\ c.key # d.key
           /\ Changes(committed, c) \cap Changes(committed, d) = {}
<1>1. /\ d \in Commands /\ Possible(committed, d) /\ u \in Writers[d.key]
      /\ WellFormed(committed)
      /\ d.op = "push" => d.id \in drawn /\ lock[Data(d.id)] = u
    BY DEF Doing, AtomicInv
<1>2. c.key # d.key
    BY <1>1 DEF OneWriter, Commands
<1>3. c.op = "push" /\ d.op = "push" => c.id # d.id
    BY <1>1
<1> QED BY <1>1, <1>2, <1>3, CommandsAreApart

\* Before a worker starts, nobody has locked a row that it is to change.
LEMMA RowsAreFree ==
    ASSUME OneWriter, AtomicInv, NEW w \in Worker, ~Busy(w),
           NEW c \in Commands, Possible(committed, c), w \in Writers[c.key],
           c.op = "push" => c.id \notin drawn
    PROVE  \A r \in Changes(committed, c) :
               r \in Row /\ lock[r] = Free /\ current[r] = committed[r]
<1>0. WellFormed(committed) /\ Inv
    BY DEF AtomicInv
<1> SUFFICES ASSUME NEW r \in Changes(committed, c)
             PROVE  r \in Row /\ lock[r] = Free /\ current[r] = committed[r]
    OBVIOUS
<1>1. r \in Row
    BY <1>0, ChangesAreRows
<1>2. lock[r] = Free
    <2> SUFFICES ASSUME lock[r] # Free PROVE FALSE
        OBVIOUS
    <2> DEFINE u == lock[r]
    <2>1. u \in Worker
        BY <1>0, <1>1 DEF Inv, Shape
    <2>2. Busy(u)
        BY <1>0, <1>1, <2>1 DEF Inv, IdleOwnsNothing
    <2>3. PICK d : Doing(u, d)
        BY <2>1, <2>2 DEF AtomicInv
    <2>4. r \in Changes(committed, d)
        BY <1>1, <2>3 DEF Doing
    <2>5. u # w
        BY <2>2
    <2> HIDE DEF u
    <2> QED BY <2>3, <2>4, <2>5, WorkersAreApart
<1> QED BY <1>0, <1>1, <1>2 DEF Inv

\* A worker goes on with its command whatever happens to other rows.
LEMMA OthersGoOn ==
    ASSUME AtomicInv, NEW u \in Worker, NEW d, Doing(u, d),
           committed' = committed, view'[u] = view[u], todo'[u] = todo[u],
           answer'[u] = answer[u], drawn \subseteq drawn',
           \A r \in Changes(committed, d) : lock'[r] = lock[r] /\ current'[r] = current[r],
           \A r \in Row : lock'[r] = u => lock[r] = u
    PROVE  Doing(u, d)'
<1>1. d \in Commands /\ Possible(committed, d) /\ WellFormed(committed)
    BY DEF Doing, AtomicInv
<1>2. \A s \in Statements(todo[u]) : RowOf(s) \in Changes(committed, d)
    BY <1>1, LeftIs DEF Doing
<1>3. Data(d.id) \in Changes(committed, d)
    BY DEF Changes
<1>4. Owned(u, d)'
    BY DEF Doing, Owned
<1>5. \A s \in Statements(todo[u]) : s.op # "link" => lock'[RowOf(s)] # u
    BY <1>2 DEF Doing
<1>6. \A r \in Changes(committed, d) :
           \/ lock'[r] = u
           \/ After(committed, d)[r] = committed[r]
           \/ \E s \in Statements(todo[u]) : RowOf(s) = r
    BY DEF Doing
<1>7. \A r \in Row : lock'[r] = u => r \in Changes(committed, d)
    BY DEF Doing
<1>8. d.op = "push" => d.id \in drawn' /\ lock'[Data(d.id)] = u
    BY <1>3 DEF Doing
<1> QED BY <1>4, <1>5, <1>6, <1>7, <1>8 DEF Doing

\* The next statement leaves its row as the command is to leave it.
LEMMA HeadDoes ==
    ASSUME AtomicInv, NEW w \in Worker, NEW c, Doing(w, c), todo[w] # <<>>
    PROVE  LET s == Head(todo[w])
               r == RowOf(s)
               new == After(committed, c)[r]
           IN  /\ r \in Changes(committed, c) /\ r \in Row /\ Target(w, s) = r
               /\ NothingToDo(w, s) => lock[r] = w \/ new = committed[r]
               /\ Apply(w, s) => WriteRow(w, r, new)
<1> DEFINE s == Head(todo[w])
<1>1. /\ c \in Commands /\ Possible(committed, c) /\ Owned(w, c) /\ Inv
      /\ WellFormed(committed) /\ todo[w] \in Left(committed, c)
      /\ \A x \in Statements(todo[w]) : x.op # "link" => lock[RowOf(x)] # w
    BY DEF Doing, AtomicInv
<1>2. /\ Fits(committed, c, s) /\ s \in Statements(todo[w])
      /\ RowOf(s) \in Changes(committed, c)
    BY <1>1, LeftIs
<1>3. RowOf(s) \in Row
    BY <1>1, <1>2, ChangesAreRows
<1>4. /\ Unlink(c.id).op = "unlink" /\ RowOf(Unlink(c.id)) = Data(c.id)
      /\ HeadStatement(committed, c).op \in {"newhead", "sethead"}
      /\ RowOf(HeadStatement(committed, c)) = Lists(c.key)
    BY <1>1, StatementIs
<1> HIDE DEF s
<1>5. CASE s = LinkOf(committed, c) /\ Beside(committed, c) # 0
    <2>1. RowOf(s) = Data(Beside(committed, c))
        BY <1>1, <1>5, StatementIs
    <2> QED BY <1>1, <1>2, <1>3, <1>5, <2>1, LinkDoes DEF s
<1>6. CASE s = Unlink(c.id) /\ c.op = "pop"
    <2>1. lock[Data(c.id)] # w
        BY <1>1, <1>2, <1>4, <1>6
    <2> QED BY <1>1, <1>2, <1>3, <1>4, <1>6, <2>1, UnlinkDoes DEF s
<1>7. CASE s = HeadStatement(committed, c)
    <2>1. lock[Lists(c.key)] # w
        BY <1>1, <1>2, <1>4, <1>7
    <2> QED BY <1>1, <1>2, <1>3, <1>4, <1>7, <2>1, HeadStatementDoes DEF s
<1> QED BY <1>2, <1>5, <1>6, <1>7 DEF Fits

\* No worker ever waits for another.
LEMMA NobodyWaits ==
    ASSUME AtomicInv, NEW w \in Worker, NEW u \in Worker \ {w}
    PROVE  ~WaitsFor(w, u)
<1> SUFFICES ASSUME WaitsFor(w, u) PROVE FALSE
    OBVIOUS
<1>1. todo[w] # <<>> /\ lock[Target(w, Head(todo[w]))] = u
    BY DEF WaitsFor
<1>2. PICK c : Doing(w, c)
    BY <1>1 DEF AtomicInv, Inv, IdleOwnsNothing
<1>3. lock[Target(w, Head(todo[w]))] \in {Free, w}
    BY <1>1, <1>2, HeadDoes DEF Doing, Owned
<1> QED BY <1>1, <1>3, FreeAssumption

\* A statement that is run; the other workers go on.
LEMMA ExecuteAtomic ==
    ASSUME OneWriter, AtomicInv, NEW w \in Worker, Execute(w)
    PROVE  AtomicInv'
<1> DEFINE s == Head(todo[w])
           r == RowOf(s)
<1>1. /\ todo[w] # <<>> /\ todo' = [todo EXCEPT ![w] = Tail(@)]
      /\ UNCHANGED <<drawn, answer>>
      /\ \/ NothingToDo(w, s) /\ UNCHANGED engine
         \/ Apply(w, s) /\ CanLock(w, Target(w, s))
    BY DEF Execute, Skip
<1>2. PICK c : Doing(w, c)
    BY <1>1 DEF AtomicInv, Inv, IdleOwnsNothing
<1> DEFINE new == After(committed, c)[r]
<1>3. /\ r \in Changes(committed, c) /\ r \in Row
      /\ NothingToDo(w, s) => lock[r] = w \/ new = committed[r]
      /\ Apply(w, s) => WriteRow(w, r, new)
    BY <1>1, <1>2, HeadDoes
<1>4. /\ UNCHANGED <<committed, view>>
      /\ \/ UNCHANGED <<lock, current>> /\ (lock[r] = w \/ new = committed[r])
         \/ lock' = [lock EXCEPT ![r] = w] /\ current' = [current EXCEPT ![r] = new]
    BY <1>1, <1>3 DEF engine, WriteRow
<1>5. /\ Inv /\ Shape /\ WellFormed(committed)
      /\ DOMAIN lock = Row /\ DOMAIN current = Row /\ DOMAIN todo = Worker
    BY DEF AtomicInv, Inv, Shape
<1>6. /\ c \in Commands /\ Possible(committed, c) /\ w \in Writers[c.key]
      /\ (c.op = "push" => c.id \in drawn /\ lock[Data(c.id)] = w)
      /\ todo[w] \in Left(committed, c)
      /\ \A x \in Statements(todo[w]) : x.op # "link" => lock[RowOf(x)] # w
      /\ Owned(w, c)
    BY <1>2 DEF Doing
<1>7. /\ Tail(todo[w]) \in Left(committed, c)
      /\ Statements(todo[w]) = {s} \cup Statements(Tail(todo[w]))
      /\ \A x \in Statements(todo[w]) : RowOf(x) \in Changes(committed, c)
      /\ \A x \in Statements(Tail(todo[w])) : x.op # "link" => RowOf(x) # r
    BY <1>1, <1>5, <1>6, LeftIs
<1>8. todo'[w] = Tail(todo[w])
    BY <1>1, <1>5
<1>9. Changes(committed, c) \subseteq Row
    BY <1>5, <1>6, ChangesAreRows
<1> HIDE DEF r, s, new
<1>10. Owned(w, c)'
    BY <1>4, <1>5, <1>6, <1>9 DEF Owned, new
<1>11. \A x \in Statements(todo'[w]) : x.op # "link" => lock'[RowOf(x)] # w
    BY <1>4, <1>5, <1>6, <1>7, <1>8, <1>9
<1>12. \A q \in Changes(committed, c) :
           \/ lock'[q] = w
           \/ After(committed, c)[q] = committed[q]
           \/ \E x \in Statements(todo'[w]) : RowOf(x) = q
    <2> SUFFICES ASSUME NEW q \in Changes(committed, c)
                 PROVE  \/ lock'[q] = w
                        \/ After(committed, c)[q] = committed[q]
                        \/ \E x \in Statements(todo'[w]) : RowOf(x) = q
        OBVIOUS
    <2>1. CASE q = r
        BY <1>3, <1>4, <1>5, <2>1 DEF new
    <2>2. CASE q # r
        <3>1. lock'[q] = lock[q]
            BY <1>4, <1>5, <1>9, <2>2
        <3>2. \/ lock[q] = w
              \/ After(committed, c)[q] = committed[q]
              \/ \E x \in Statements(todo[w]) : RowOf(x) = q
            BY <1>2 DEF Doing
        <3> QED BY <1>7, <1>8, <2>2, <3>1, <3>2 DEF r
    <2> QED BY <2>1, <2>2
<1>13. \A q \in Row : lock'[q] = w => q \in Changes(committed, c)
    BY <1>2, <1>3, <1>4, <1>5 DEF Doing
<1>14. c.op = "push" => lock'[Data(c.id)] = w
    <2>1. Data(c.id) \in Row
        BY <1>6, RowsDiffer DEF Commands
    <2> QED BY <1>4, <1>5, <1>6, <2>1
<1>15. Doing(w, c)'
    <2>1. answer'[w] = Answer(w, Request(c), Result(committed, c))
        BY <1>1, <1>2 DEF Doing
    <2> QED BY <1>1, <1>4, <1>6, <1>7, <1>8, <1>10, <1>11, <1>12, <1>13, <1>14, <2>1 DEF Doing
<1>16. ASSUME NEW u \in Worker \ {w}, Busy(u)' PROVE \E d : Doing(u, d)'
    <2>1. Busy(u)
        BY <1>1, <1>16 DEF Busy
    <2>2. PICK d : Doing(u, d)
        BY <2>1 DEF AtomicInv
    <2>3. Changes(committed, c) \cap Changes(committed, d) = {}
        BY <1>6, <2>2, WorkersAreApart
    <2>4. Changes(committed, d) \subseteq Row
        BY <1>5, <2>2, ChangesAreRows DEF Doing
    <2>5. \A q \in Changes(committed, d) : lock'[q] = lock[q] /\ current'[q] = current[q]
        BY <1>3, <1>4, <1>5, <2>3, <2>4
    <2>6. \A q \in Row : lock'[q] = u => lock[q] = u
        BY <1>4, <1>5
    <2>7. todo'[u] = todo[u]
        BY <1>1, <1>5
    <2> QED BY <1>1, <1>4, <2>2, <2>5, <2>6, <2>7, OthersGoOn
<1>17. Inv'
    BY <1>5, ExecuteInv
<1> QED BY <1>1, <1>4, <1>15, <1>16, <1>17 DEF AtomicInv

\* A command that only reads, a restart and a step of nobody.
LEMMA QuietAtomic ==
    ASSUME AtomicInv, \/ \E w, q, v : ReadOnly(w, q, v)
                      \/ UNCHANGED vars
    PROVE  AtomicInv'
<1>1. /\ UNCHANGED <<committed, current, lock, view, drawn, todo, answer>>
    BY DEF ReadOnly, engine, vars
<1> QED BY <1>1 DEF AtomicInv, Inv, Shape, IdleOwnsNothing, Busy, Doing, Owned

\* A restart leaves the chains that are committed.
LEMMA RestartAtomic ==
    ASSUME AtomicInv, Restart
    PROVE  AtomicInv'
<1>1. Inv'
    BY RestartInv DEF AtomicInv
<1>2. /\ UNCHANGED <<committed, drawn>> /\ \A w \in Worker : view'[w] = NoTrx /\ ~Busy(w)'
    BY DEF Restart, RecoverTrx, Busy
<1> QED BY <1>1, <1>2 DEF AtomicInv

\* Where there is no row, every chain is empty.
LEMMA InitAtomic == Init => AtomicInv
<1> SUFFICES ASSUME Init PROVE AtomicInv
    OBVIOUS
<1> DEFINE L == [k \in Key |-> <<>>]
<1>1. /\ \A r \in Row : committed[r] = NoRow
      /\ \A w \in Worker : view[w] = NoTrx /\ ~Busy(w)
    BY DEF Init, EngineInit, Busy
<1>2. \A k \in Key : committed[Lists(k)] = NoRow
    BY <1>1, RowsDiffer
<1>3. \A i \in Id : committed[Data(i)] = NoRow
    BY <1>1, RowsDiffer
<1>4. L \in [Key -> Seq(Id)]
    OBVIOUS
<1>5. Holds(committed, L)
    <2>1. \A k \in Key : HasChain(committed, k, L[k])
        BY <1>2, <1>4 DEF HasChain, Distinct, Linked, HeadOf
    <2>2. \A k \in Key : Ids(L[k]) = {}
        BY DEF Ids
    <2> QED BY <1>3, <2>1, <2>2 DEF Holds, DataTyped
<1>6. WellFormed(committed)
    <2> HIDE DEF L
    <2> QED BY <1>4, <1>5, ChainsAre DEF WellFormed
<1> QED BY <1>1, <1>3, <1>6, InitInv DEF AtomicInv

\* Statements are put together one after the other.
LEMMA TupleConcat ==
    ASSUME NEW x, NEW y, NEW z
    PROVE  <<>> \o <<y, z>> = <<y, z>> /\ <<x>> \o <<y, z>> = <<x, y, z>>
<1> DEFINE S == {x, y, z}
<1>1. <<x>> \in Seq(S) /\ <<y, z>> \in Seq(S) /\ <<x, y, z>> \in Seq(S) /\ <<>> \in Seq(S)
    OBVIOUS
<1>2. <<>> \o <<y, z>> = <<y, z>>
    BY <1>1, ConcatEmptySeq
<1>3. <<x>> \o <<y, z>> = <<x, y, z>>
    <2> DEFINE a == <<x>>
               b == <<y, z>>
               d == <<x, y, z>>
    <2>1. a \in Seq(S) /\ b \in Seq(S) /\ d \in Seq(S) /\ Len(a) = 1 /\ Len(b) = 2 /\ Len(d) = 3
        BY <1>1
    <2>2. a[1] = x /\ b[1] = y /\ b[2] = z /\ d[1] = x /\ d[2] = y /\ d[3] = z
        OBVIOUS
    <2> HIDE DEF a, b, d, S
    <2>6. /\ a \o b \in Seq(S) /\ Len(a \o b) = Len(a) + Len(b)
          /\ \A i \in 1 .. Len(a) + Len(b) :
                 (a \o b)[i] = IF i <= Len(a) THEN a[i] ELSE b[i - Len(a)]
        BY <2>1, ConcatProperties
    <2>3. /\ a \o b \in Seq(S) /\ Len(a \o b) = 3
          /\ \A i \in 1 .. 3 : (a \o b)[i] = IF i <= 1 THEN a[i] ELSE b[i - 1]
        BY <2>1, <2>6
    <2>4. \A i \in 1 .. 3 : (a \o b)[i] = d[i]
        BY <2>2, <2>3
    <2>5. a \o b = d
        BY <2>1, <2>3, <2>4, SeqEqual
    <2> QED BY <2>5 DEF a, b, d
<1> QED BY <1>2, <1>3

\* A command that begins, by a worker that is free.
LEMMA BeginAtomic ==
    ASSUME OneWriter, AtomicInv, Inv', NEW w \in Worker, ~Busy(w),
           NEW c \in Commands, Possible(committed, c), w \in Writers[c.key],
           c.op = "push" => c.id \notin drawn /\ c.id \in drawn',
           committed' = committed, view' = [view EXCEPT ![w] = committed],
           drawn \subseteq drawn',
           answer' = [answer EXCEPT ![w] = Answer(w, Request(c), Result(committed, c))],
           NEW q \in Left(committed, c), todo' = [todo EXCEPT ![w] = q],
           IF c.op = "push"
           THEN /\ lock' = [lock EXCEPT ![Data(c.id)] = w]
                /\ current' = [current EXCEPT ![Data(c.id)] = NewElement(committed, c)]
           ELSE UNCHANGED <<lock, current>>,
           \A s \in Statements(q) : s.op # "link" /\ c.op = "push" => RowOf(s) # Data(c.id),
           \A r \in Changes(committed, c) :
               \/ c.op = "push" /\ r = Data(c.id)
               \/ After(committed, c)[r] = committed[r]
               \/ \E s \in Statements(q) : RowOf(s) = r
    PROVE  AtomicInv'
<1>1. /\ Inv /\ Shape /\ WellFormed(committed) /\ DOMAIN committed = Row
      /\ DOMAIN lock = Row /\ DOMAIN current = Row
      /\ DOMAIN todo = Worker /\ DOMAIN answer = Worker /\ DOMAIN view = Worker
    BY DEF AtomicInv, Inv, Shape
<1>2. \A r \in Changes(committed, c) :
          r \in Row /\ lock[r] = Free /\ current[r] = committed[r]
    BY RowsAreFree
<1>3. Data(c.id) \in Changes(committed, c) /\ Data(c.id) \in Row
    BY <1>2 DEF Changes
<1>4. \A r \in Row : lock[r] # w
    BY <1>1 DEF Inv, IdleOwnsNothing
<1>5. /\ \A r \in Row : lock'[r] = w <=> c.op = "push" /\ r = Data(c.id)
      /\ \A r \in Row : r # Data(c.id) => lock'[r] = lock[r] /\ current'[r] = current[r]
      /\ c.op = "push" => /\ lock'[Data(c.id)] = w
                          /\ current'[Data(c.id)] = After(committed, c)[Data(c.id)]
    <2>1. After(committed, c)[Data(c.id)] = NewElement(committed, c)
        BY AfterRows
    <2>2. CASE c.op = "push"
        BY <1>1, <1>3, <1>4, <2>1, <2>2
    <2>3. CASE c.op # "push"
        BY <1>4, <2>3
    <2> QED BY <2>2, <2>3
<1>6. view'[w] = committed /\ todo'[w] = q
    BY <1>1
<1>7. Owned(w, c)'
    BY <1>2, <1>3, <1>5, <1>6 DEF Owned
<1>8. \A s \in Statements(q) : RowOf(s) \in Changes(committed, c)
    BY <1>1, LeftIs
<1>9. Doing(w, c)'
    <2>1. \A s \in Statements(todo'[w]) : s.op # "link" => lock'[RowOf(s)] # w
        BY <1>2, <1>5, <1>6, <1>8
    <2>2. \A r \in Changes(committed, c) :
              \/ lock'[r] = w
              \/ After(committed, c)[r] = committed[r]
              \/ \E s \in Statements(todo'[w]) : RowOf(s) = r
        BY <1>2, <1>5, <1>6
    <2>3. \A r \in Row : lock'[r] = w => r \in Changes(committed, c)
        BY <1>3, <1>5
    <2>4. answer'[w] = Answer(w, Request(c), Result(committed, c))
        BY <1>1
    <2> QED BY <1>5, <1>6, <1>7, <2>1, <2>2, <2>3, <2>4 DEF Doing
<1>10. ASSUME NEW u \in Worker \ {w}, Busy(u)' PROVE \E d : Doing(u, d)'
    <2>1. Busy(u) /\ view'[u] = view[u] /\ todo'[u] = todo[u] /\ answer'[u] = answer[u]
        BY <1>1, <1>10 DEF Busy
    <2>2. PICK d : Doing(u, d)
        BY <2>1 DEF AtomicInv
    <2>3. Changes(committed, c) \cap Changes(committed, d) = {}
        BY <2>2, WorkersAreApart
    <2>4. Changes(committed, d) \subseteq Row
        BY <1>1, <2>2, ChangesAreRows DEF Doing
    <2>5. \A r \in Changes(committed, d) : lock'[r] = lock[r] /\ current'[r] = current[r]
        BY <1>3, <1>5, <2>3, <2>4
    <2>6. \A r \in Row : lock'[r] = u => lock[r] = u
        BY <1>5
    <2> QED BY <2>1, <2>2, <2>5, <2>6, OthersGoOn
<1>11. \A u \in Worker : view'[u] # NoTrx => DOMAIN view'[u] = Row
    BY <1>1 DEF AtomicInv
<1> QED BY <1>9, <1>10, <1>11 DEF AtomicInv

\* lpop and rpop take the element at the end of a chain.
LEMMA PopAtomic ==
    ASSUME OneWriter, PopMissing = FALSE, AtomicInv, NEW w \in Worker,
           NEW k \in Key, w \in Writers[k], NEW end \in Ends, Pop(w, k, end)
    PROVE  AtomicInv'
<1> DEFINE h == ReadHead(committed, k)
           i == h[end]
           l == Chains(committed)[k]
           c == [op |-> "pop", key |-> k, end |-> end, val |-> committed[Data(i)].val, id |-> i]
<1>1. /\ Inv /\ WellFormed(committed) /\ DOMAIN todo = Worker
      /\ ~Busy(w) /\ UNCHANGED drawn /\ committed[Lists(k)] # NoRow
      /\ BeginTrx(w)
    BY DEF AtomicInv, Inv, Shape, Pop, Begin
<1>2. /\ h = committed[Lists(k)] /\ h \in HeadRows
    BY <1>1, ChainsAreTyped DEF ReadHead
<1>3. i \in Id /\ h.count # 0
    BY <1>2 DEF HeadRows, Ends
<1>4. committed[Data(i)] \in DataRows
    <2>1. HasChain(committed, k, l)
        BY <1>1 DEF WellFormed, Holds
    <2>2. /\ l # <<>> /\ h = [head |-> At(l, 1), tail |-> At(l, Len(l)), count |-> Len(l)]
        BY <1>1, <2>1, HeadIs
    <2> HIDE DEF h, l
    <2>3. i = At(l, 1) \/ i = At(l, Len(l))
        BY <2>2 DEF Ends
    <2>4. \E a \in 1 .. Len(l) : i = l[a]
        BY <1>3, <2>3, IdAssumption DEF At
    <2> QED BY <2>1, <2>4 DEF HasChain, Linked
<1>5. c \in Commands
    BY <1>3, <1>4 DEF Commands, DataRows
<1>6. /\ c.op = "pop" /\ c.key = k /\ c.end = end /\ c.id = i /\ c.val = committed[Data(i)].val
    OBVIOUS
<1> HIDE DEF c
<1>7. Possible(committed, c)
    BY <1>1, <1>2, <1>6 DEF Possible
<1>8. ReadGE(committed, i) = committed[Data(i)]
    BY <1>1, <1>3, <1>4, ChainsAreTyped, ReadIsTyped, NoRowAssumption
<1>9. Beside(committed, c) = committed[Data(i)][Inward(end)]
    BY <1>6 DEF Beside
<1> DEFINE b == Beside(committed, c)
           H == HeadStatement(committed, c)
           U == Unlink(i)
           L == LinkOf(committed, c)
           q == IF b = 0 THEN <<U, H>> ELSE <<L, U, H>>
<1>10. /\ Begin(w, <<"pop", k, end>>, c.val)
       /\ todo' = [todo EXCEPT ![w] = (IF b # 0 THEN <<Link(b, Outward(end), 0)>> ELSE <<>>)
                                      \o <<U, SetHead(k, Shrunk(committed, c))>>]
    <2>1. Shrunk(committed, c) = [h EXCEPT ![end] = b,
                                          !.count = IF h.count = 0 THEN 0 ELSE h.count - 1,
                                          ![Other(end)] = IF b = 0 THEN 0 ELSE @]
        BY <1>6 DEF Shrunk
    <2>2. /\ b = ReadGE(committed, h[end])[Inward(end)]
          /\ c.val = ReadGE(committed, h[end]).val
        BY <1>6, <1>8, <1>9
    <2> HIDE DEF h, b
    <2> QED BY <2>1, <2>2 DEF Pop, h
<1>11. todo' = [todo EXCEPT ![w] = q]
    <2>1. L = Link(b, Outward(end), 0) /\ H = SetHead(k, Shrunk(committed, c))
        BY <1>6 DEF LinkOf, HeadStatement
    <2> HIDE DEF L, H, U, b
    <2>2. q = (IF b # 0 THEN <<L>> ELSE <<>>) \o <<U, H>>
        BY TupleConcat
    <2> QED BY <1>10, <2>1, <2>2
<1>12. q \in Left(committed, c) /\ Statements(q) = IF b = 0 THEN {U, H} ELSE {L, U, H}
    <2>1. Statements(<<U, H>>) = {U, H} /\ Statements(<<L, U, H>>) = {L, U, H}
        BY StatementsOf
    <2>2. /\ <<U, H>> \in Left(committed, c)
          /\ b # 0 => <<L, U, H>> \in Left(committed, c)
        BY <1>6 DEF Left
    <2> HIDE DEF H, L, U, b
    <2> QED BY <2>1, <2>2
<1>13. /\ RowOf(H) = Lists(k) /\ RowOf(U) = Data(i) /\ RowOf(L) = Data(b)
    BY <1>5, <1>6, StatementIs
<1>14. \A r \in Changes(committed, c) : \E s \in Statements(q) : RowOf(s) = r
    <2>1. Changes(committed, c) = {Lists(k), Data(i)} \cup (IF b = 0 THEN {} ELSE {Data(b)})
        BY <1>6 DEF Changes
    <2> HIDE DEF b, H, U, L, q
    <2> QED BY <1>12, <1>13, <2>1
<1>15. answer' = [answer EXCEPT ![w] = Answer(w, Request(c), Result(committed, c))]
    BY <1>6, <1>10 DEF Begin, Request, Result
<1>16. Inv'
    <2>1. Take(w)
        BY DEF Take
    <2> QED BY <1>1, <2>1, TakeInv
<1> HIDE DEF q
<1> QED BY <1>1, <1>5, <1>6, <1>7, <1>11, <1>12, <1>14, <1>15, <1>16, BeginAtomic DEF BeginTrx

\* lpush and rpush draw an id that no row has.
LEMMA PushAtomic ==
    ASSUME OneWriter, AtomicInv, NEW w \in Worker,
           NEW k \in Key, w \in Writers[k], NEW end \in Ends, NEW v \in Val, Push(w, k, end, v)
    PROVE  AtomicInv'
<1> DEFINE h == ReadHead(committed, k)
           old == h[end]
<1>1. /\ Inv /\ WellFormed(committed) /\ DOMAIN todo = Worker
      /\ Begin(w, <<"push", k, end, v>>, h.count + 1) /\ ~Busy(w)
    BY DEF AtomicInv, Inv, Shape, Push, Begin
<1>2. PICK i \in Id \ drawn :
          /\ drawn' = drawn \cup {i}
          /\ BeginTrxWriting(w, Data(i), Element(end, v, old))
          /\ todo' = [todo EXCEPT ![w] =
                 IF committed[Lists(k)] = NoRow
                 THEN <<NewHead(k, [head |-> i, tail |-> i, count |-> 1])>>
                 ELSE (IF old # 0 THEN <<Link(old, Outward(end), i)>> ELSE <<>>)
                      \o <<Link(old, Outward(end), i),
                           SetHead(k, [h EXCEPT ![end] = i, !.count = @ + 1])>>]
    BY DEF Push
<1> DEFINE c == [op |-> "push", key |-> k, end |-> end, val |-> v, id |-> i]
<1>3. c \in Commands
    BY <1>2 DEF Commands
<1>4. /\ c.op = "push" /\ c.key = k /\ c.end = end /\ c.id = i /\ c.val = v
    OBVIOUS
<1> HIDE DEF c
<1>5. Possible(committed, c)
    <2>1. committed[Data(i)] = NoRow
        BY <1>2 DEF AtomicInv
    <2> QED BY <1>4, <2>1 DEF Possible
<1>6. Beside(committed, c) = old
    BY <1>4 DEF Beside
<1>7. committed[Lists(k)] = NoRow <=> old = 0
    <2> DEFINE l == Chains(committed)[k]
    <2>1. HasChain(committed, k, l)
        BY <1>1 DEF WellFormed, Holds
    <2>2. /\ Len(l) \in Nat /\ \A a \in 1 .. Len(l) : l[a] # 0
          /\ l = <<>> <=> Len(l) = 0
          /\ committed[Lists(k)] = NoRow <=> l = <<>>
          /\ h = [head |-> At(l, 1), tail |-> At(l, Len(l)), count |-> Len(l)]
        BY <2>1, HeadIs
    <2> HIDE DEF h, l
    <2>3. old = (IF end = "head" THEN At(l, 1) ELSE At(l, Len(l)))
        BY <2>2 DEF Ends
    <2> QED BY <2>2, <2>3 DEF At
<1> DEFINE H == HeadStatement(committed, c)
           L == LinkOf(committed, c)
           q == IF old = 0 THEN <<H>> ELSE <<L, L, H>>
<1>8. todo' = [todo EXCEPT ![w] = q]
    <2>1. L = Link(old, Outward(end), i)
        BY <1>4, <1>6 DEF LinkOf
    <2>2. old = 0 => H = NewHead(k, [head |-> i, tail |-> i, count |-> 1])
        BY <1>4, <1>7 DEF HeadStatement, NewLists
    <2>3. old # 0 => H = SetHead(k, [h EXCEPT ![end] = i, !.count = @ + 1])
        BY <1>4, <1>7 DEF HeadStatement, NewLists
    <2> HIDE DEF L, H, old, h
    <2>4. q = IF committed[Lists(k)] = NoRow THEN <<H>>
              ELSE (IF old # 0 THEN <<L>> ELSE <<>>) \o <<L, H>>
        BY <1>7, TupleConcat
    <2>5. CASE old = 0
        BY <1>2, <1>7, <2>2, <2>5
    <2>6. CASE old # 0
        BY <1>2, <1>7, <2>1, <2>3, <2>4, <2>6
    <2> QED BY <2>5, <2>6
<1>9. q \in Left(committed, c) /\ Statements(q) = IF old = 0 THEN {H} ELSE {L, H}
    <2>1. Statements(<<H>>) = {H} /\ Statements(<<L, L, H>>) = {L, H}
        BY StatementsOf
    <2>2. /\ <<H>> \in Left(committed, c)
          /\ old # 0 => <<L, L, H>> \in Left(committed, c)
        BY <1>4, <1>6 DEF Left
    <2> HIDE DEF H, L, old
    <2> QED BY <2>1, <2>2
<1>10. /\ RowOf(H) = Lists(k) /\ RowOf(L) = Data(old)
       /\ L.op = "link"
    BY <1>3, <1>4, <1>6, StatementIs
<1> HIDE DEF H, L, q
<1>11. \A s \in Statements(q) : s.op # "link" => RowOf(s) # Data(i)
    BY <1>9, <1>10, RowsDiffer
<1>12. \A r \in Changes(committed, c) :
           r = Data(i) \/ \E s \in Statements(q) : RowOf(s) = r
    <2>1. Changes(committed, c) = {Lists(k), Data(i)} \cup (IF old = 0 THEN {} ELSE {Data(old)})
        BY <1>4, <1>6 DEF Changes
    <2> HIDE DEF old
    <2> QED BY <1>9, <1>10, <2>1
<1>13. answer' = [answer EXCEPT ![w] = Answer(w, Request(c), Result(committed, c))]
    BY <1>1, <1>4 DEF Begin, Request, Result
<1>14. NewElement(committed, c) = Element(end, v, old)
    BY <1>4, <1>6 DEF NewElement
<1>15. Inv'
    <2>1. Take(w)
        BY DEF Take
    <2> QED BY <1>1, <2>1, TakeInv
<1> HIDE DEF old, h
<1>16. /\ committed' = committed /\ view' = [view EXCEPT ![w] = committed]
       /\ lock' = [lock EXCEPT ![Data(c.id)] = w]
       /\ current' = [current EXCEPT ![Data(c.id)] = NewElement(committed, c)]
    BY <1>2, <1>4, <1>14 DEF BeginTrxWriting
<1>17. c.id \notin drawn /\ c.id \in drawn' /\ drawn \subseteq drawn'
    BY <1>2, <1>4
<1>18. w \in Writers[c.key]
    BY <1>4
<1> QED BY <1>1, <1>3, <1>4, <1>5, <1>8, <1>9, <1>11, <1>12, <1>13, <1>15, <1>16, <1>17, <1>18,
           BeginAtomic

\* A commit is what makes the command happen, all of it.
LEMMA CommitWrites ==
    ASSUME AtomicInv, NEW w \in Worker, NEW c, Doing(w, c), Commit(w)
    PROVE  committed' = After(committed, c)
<1>1. /\ committed' = [r \in Row |-> IF lock[r] = w THEN current[r] ELSE committed[r]]
      /\ todo[w] = <<>>
    BY DEF Commit, CommitTrx
<1>2. Statements(todo[w]) = {}
    BY <1>1, StatementsOf
<1>3. ASSUME NEW r \in Row
      PROVE  After(committed, c)[r] = IF lock[r] = w THEN current[r] ELSE committed[r]
    <2>1. CASE r \in Changes(committed, c)
        BY <1>2, <2>1 DEF Doing, Owned
    <2>2. CASE r \notin Changes(committed, c)
        <3>1. lock[r] # w
            BY <2>2 DEF Doing
        <3>2. After(committed, c)[r] = committed[r]
            BY <2>2 DEF After, Changes
        <3> QED BY <3>1, <3>2
    <2> QED BY <2>1, <2>2
<1> QED BY <1>1, <1>3 DEF After

\* Another worker's command is as possible after the commit as before.
LEMMA CommitLeavesOthers ==
    ASSUME OneWriter, AtomicInv, NEW w \in Worker, NEW c, Doing(w, c), Commit(w),
           NEW u \in Worker \ {w}, NEW d, Doing(u, d)
    PROVE  Doing(u, d)'
<1>1. /\ d \in Commands /\ Possible(committed, d) /\ WellFormed(committed)
      /\ c \in Commands /\ Possible(committed, c) /\ w \in Writers[c.key] /\ Inv
      /\ c.op = "push" => lock[Data(c.id)] = w
      /\ DOMAIN view = Worker /\ DOMAIN answer = Worker /\ DOMAIN lock = Row
    BY DEF Doing, AtomicInv, Inv, Shape
<1>2. Changes(committed, d) \cap Changes(committed, c) = {}
    BY <1>1, WorkersAreApart
<1>3. Changes(committed, d) \subseteq Row
    BY <1>1, ChangesAreRows
<1>4. /\ lock' = [r \in Row |-> IF lock[r] = w THEN Free ELSE lock[r]]
      /\ view'[u] = view[u] /\ answer'[u] = answer[u]
      /\ UNCHANGED <<current, todo, drawn>>
    BY <1>1 DEF Commit, CommitTrx
<1>5. \A r \in Changes(committed, d) :
          committed'[r] = committed[r] /\ lock'[r] = lock[r] /\ current'[r] = current[r]
    <2> SUFFICES ASSUME NEW r \in Changes(committed, d)
                 PROVE  /\ committed'[r] = committed[r] /\ lock'[r] = lock[r]
                        /\ current'[r] = current[r]
        OBVIOUS
    <2>1. committed'[r] = committed[r]
        <3>1. committed' = After(committed, c)
            BY CommitWrites
        <3> QED BY <1>2, <1>3, <3>1 DEF After, Changes
    <2>2. lock[r] # w
        <3>1. lock[r] \in {Free, u}
            BY DEF Doing, Owned
        <3> QED BY <3>1, FreeAssumption
    <2> QED BY <1>3, <1>4, <2>1, <2>2
<1>6. /\ Possible(committed', d) /\ Changes(committed', d) = Changes(committed, d)
      /\ Beside(committed', d) = Beside(committed, d)
      /\ committed'[Lists(d.key)] = committed[Lists(d.key)]
      /\ ReadHead(committed', d.key) = ReadHead(committed, d.key)
      /\ Shrunk(committed', d) = Shrunk(committed, d)
      /\ NewLists(committed', d) = NewLists(committed, d)
      /\ \A r \in Row : After(committed', d)[r] = IF r \in Changes(committed, d)
                                                  THEN After(committed, d)[r] ELSE committed'[r]
    <2> DEFINE T == committed'
    <2>1. \A r \in Changes(committed, d) : T[r] = committed[r]
        BY <1>5
    <2> HIDE DEF T
    <2>2. /\ Possible(T, d) /\ Changes(T, d) = Changes(committed, d)
          /\ Beside(T, d) = Beside(committed, d)
          /\ T[Lists(d.key)] = committed[Lists(d.key)]
          /\ ReadHead(T, d.key) = ReadHead(committed, d.key)
          /\ Shrunk(T, d) = Shrunk(committed, d)
          /\ NewLists(T, d) = NewLists(committed, d)
          /\ \A r \in Row : After(T, d)[r] = IF r \in Changes(committed, d)
                                              THEN After(committed, d)[r] ELSE T[r]
        BY <1>1, <2>1, Undisturbed
    <2> QED BY <2>2 DEF T
<1>7. Left(committed', d) = Left(committed, d)
    <2>1. LinkOf(committed', d) = LinkOf(committed, d)
        BY <1>6 DEF LinkOf
    <2>2. HeadStatement(committed', d) = HeadStatement(committed, d)
        BY <1>6 DEF HeadStatement
    <2> QED BY <1>6, <2>1, <2>2 DEF Left
<1>8. Result(committed', d) = Result(committed, d)
    BY <1>6 DEF Result
<1>9. \A r \in Row : lock'[r] = u => lock[r] = u
    BY <1>4, FreeAssumption
<1>10. \A s \in Statements(todo[u]) : RowOf(s) \in Changes(committed, d)
    BY <1>1, LeftIs DEF Doing
<1>11. Owned(u, d)'
    <2>1. \A r \in Changes(committed', d) :
              /\ view'[u][r] = committed'[r] /\ lock'[r] \in {Free, u}
              /\ lock'[r] = u => current'[r] = After(committed', d)[r]
        BY <1>3, <1>4, <1>5, <1>6 DEF Doing, Owned
    <2> QED BY <2>1 DEF Owned
<1>12. d.op = "push" => d.id \in drawn' /\ lock'[Data(d.id)] = u
    <2>1. Data(d.id) \in Changes(committed, d)
        BY DEF Changes
    <2> QED BY <1>4, <1>5, <2>1 DEF Doing
<1>13. \A s \in Statements(todo'[u]) : s.op # "link" => lock'[RowOf(s)] # u
    BY <1>3, <1>4, <1>9, <1>10 DEF Doing
<1>14. \A r \in Changes(committed', d) :
           \/ lock'[r] = u
           \/ After(committed', d)[r] = committed'[r]
           \/ \E s \in Statements(todo'[u]) : RowOf(s) = r
    BY <1>3, <1>4, <1>5, <1>6 DEF Doing
<1>15. \A r \in Row : lock'[r] = u => r \in Changes(committed', d)
    BY <1>6, <1>9 DEF Doing
<1>16. answer'[u] = Answer(u, Request(d), Result(committed', d)) /\ todo'[u] \in Left(committed', d)
    BY <1>4, <1>7, <1>8 DEF Doing
<1>17. d \in Commands /\ Possible(committed', d) /\ u \in Writers[d.key]
    BY <1>6 DEF Doing
<1> QED BY <1>11, <1>12, <1>13, <1>14, <1>15, <1>16, <1>17 DEF Doing

\* A commit leaves one chain per key, and the others' commands possible.
LEMMA CommitAtomic ==
    ASSUME OneWriter, AtomicInv, NEW w \in Worker, Commit(w)
    PROVE  AtomicInv'
<1>1. Busy(w) /\ Inv /\ DOMAIN view = Worker /\ DOMAIN answer = Worker
    BY DEF Commit, AtomicInv, Inv, Shape
<1>2. PICK c : Doing(w, c)
    BY <1>1 DEF AtomicInv
<1>3. committed' = After(committed, c)
    BY <1>2, CommitWrites
<1>4. /\ c \in Commands /\ Possible(committed, c) /\ WellFormed(committed)
      /\ c.op = "push" => c.id \in drawn
    BY <1>2 DEF Doing, AtomicInv
<1>5. WellFormed(committed')
    BY <1>3, <1>4, StaysWellFormed
<1>6. \A i \in Id : committed'[Data(i)] # NoRow => i \in drawn'
    <2> SUFFICES ASSUME NEW i \in Id, After(committed, c)[Data(i)] # NoRow PROVE i \in drawn
        BY <1>3 DEF Commit
    <2>1. CASE Data(i) \in Changes(committed, c)
        BY <1>2, <2>1, ChangesAreDrawn
    <2>2. CASE Data(i) \notin Changes(committed, c)
        <3>1. After(committed, c)[Data(i)] = committed[Data(i)]
            BY <2>2, RowsDiffer DEF After, Changes
        <3> QED BY <3>1 DEF AtomicInv
    <2> QED BY <2>1, <2>2
<1>7. /\ \A u \in Worker \ {w} : view'[u] = view[u] /\ (Busy(u)' => Busy(u))
      /\ view'[w] = NoTrx /\ ~Busy(w)'
    BY <1>1 DEF Commit, CommitTrx, Busy
<1>8. \A u \in Worker : Busy(u)' => \E d : Doing(u, d)'
    <2> SUFFICES ASSUME NEW u \in Worker \ {w}, Busy(u) PROVE \E d : Doing(u, d)'
        BY <1>7
    <2>1. PICK d : Doing(u, d)
        BY DEF AtomicInv
    <2> QED BY <1>2, <2>1, CommitLeavesOthers
<1>9. Inv'
    BY <1>1, EndOfTrxInv
<1>10. \A u \in Worker : view'[u] # NoTrx => DOMAIN view'[u] = Row
    BY <1>7 DEF AtomicInv
<1> QED BY <1>5, <1>6, <1>8, <1>9, <1>10 DEF AtomicInv

\* Where each key has one writer, every step keeps the invariant.
LEMMA NextAtomic ==
    ASSUME OneWriter, PopMissing = FALSE, AtomicInv, [Next]_vars
    PROVE  AtomicInv'
<1>1. ASSUME NEW w \in Worker, Take(w) PROVE AtomicInv'
    <2>1. PICK k \in Key :
              \/ w \in Writers[k] /\ \E end \in Ends :
                     Pop(w, k, end) \/ \E v \in Val : Push(w, k, end, v)
              \/ LLen(w, k)
              \/ \E start, stop \in Position : LRange(w, k, start, stop)
        BY <1>1 DEF Take
    <2> QED BY <2>1, PopAtomic, PushAtomic, QuietAtomic DEF LLen, LRange
<1>2. ASSUME NEW w \in Worker, Step(w) PROVE AtomicInv'
    <2>1. ~LockTimeout(w) /\ ~Deadlock(w)
        BY NobodyWaits DEF LockTimeout, Deadlock
    <2> QED BY <1>2, <2>1, ExecuteAtomic, CommitAtomic DEF Step
<1>3. CASE Restart
    BY <1>3, RestartAtomic
<1>4. CASE UNCHANGED vars
    BY <1>4, QuietAtomic
<1> QED BY <1>1, <1>2, <1>3, <1>4 DEF Next

\* Chains are chains in every state.
LEMMA InvariantlyAtomic ==
    ASSUME OneWriter, PopMissing = FALSE
    PROVE  Spec => []AtomicInv
<1>1. AtomicInv /\ [Next]_vars => AtomicInv'
    BY NextAtomic
<1> QED BY <1>1, InitAtomic, PTL DEF Spec

(***************************************************************************)
(* Every column of both tables holds what it is declared for, committed or *)
(* not: a count from 1 to the number of ids, ids that exist, or 0 for none *)
(* (listtable.cc, the columns of create).                                  *)
(***************************************************************************)
THEOREM TypeCorrect ==
    ASSUME OneWriter, PopMissing = FALSE
    PROVE  Spec => []TypeOK
<1>1. AtomicInv => TypeOK
    <2> SUFFICES ASSUME AtomicInv PROVE TypeOK
        OBVIOUS
    <2>1. /\ Inv /\ Shape /\ WellFormed(committed)
        BY DEF AtomicInv, Inv
    <2>2. /\ \A k \in Key : committed[Lists(k)] \in HeadRows \cup {NoRow}
          /\ \A i \in Id : committed[Data(i)] \in DataRows \cup {NoRow}
        BY <2>1, ChainsAreTyped
    <2>3. ASSUME NEW r \in Row
          PROVE  \/ current[r] = committed[r]
                 \/ \E c \in Commands : /\ Possible(committed, c)
                                        /\ current[r] = After(committed, c)[r]
        <3>1. CASE lock[r] = Free
            BY <2>1, <3>1 DEF Inv
        <3>2. CASE lock[r] # Free
            <4> DEFINE w == lock[r]
            <4>1. w \in Worker
                BY <2>1, <3>2 DEF Shape
            <4>2. Busy(w)
                BY <2>1, <4>1 DEF Inv, IdleOwnsNothing
            <4>3. PICK c : Doing(w, c)
                BY <4>1, <4>2 DEF AtomicInv
            <4>4. r \in Changes(committed, c)
                BY <4>3 DEF Doing
            <4> QED BY <4>3, <4>4 DEF Doing, Owned
        <3> QED BY <3>1, <3>2
    <2>4. /\ \A k \in Key : current[Lists(k)] \in HeadRows \cup {NoRow}
          /\ \A i \in Id : current[Data(i)] \in DataRows \cup {NoRow}
        <3>1. \A c \in Commands : Possible(committed, c) =>
                  /\ \A k \in Key : After(committed, c)[Lists(k)] \in HeadRows \cup {NoRow}
                  /\ \A i \in Id : After(committed, c)[Data(i)] \in DataRows \cup {NoRow}
            BY <2>1, StaysWellFormed, ChainsAreTyped
        <3> QED BY <2>2, <2>3, <3>1, RowsDiffer
    <2>5. /\ \A w \in Worker : view[w] # NoTrx => DOMAIN view[w] = Row
          /\ \A w \in Worker : ~Busy(w) => todo[w] = <<>>
        BY <2>1 DEF AtomicInv, Inv, IdleOwnsNothing
    <2> QED BY <2>1, <2>2, <2>4, <2>5 DEF TypeOK, Shape
<1> QED BY <1>1, InvariantlyAtomic, PTL

(***************************************************************************)
(* The elements of a key always form one doubly linked chain from its head *)
(* to its tail, as long as its count, and every element is on exactly one  *)
(* chain (listtable.cc, the pushes and pops): across commands in progress, *)
(* commits of other workers and restarts.                                  *)
(***************************************************************************)
THEOREM ListsAreWellFormed ==
    ASSUME OneWriter, PopMissing = FALSE
    PROVE  Spec => []ListsWellFormed
<1>1. AtomicInv => ListsWellFormed
    <2> SUFFICES ASSUME AtomicInv PROVE ListsWellFormed
        OBVIOUS
    <2> DEFINE L == Chains(committed)
    <2>1. WellFormed(committed) /\ Holds(committed, L)
        BY DEF AtomicInv, WellFormed
    <2>2. L \in [Key -> Seq(Id)] /\ \A k \in Key : Chain(k) = L[k]
        BY <2>1, ChainsAreTyped DEF Chain
    <2>3. ASSUME NEW k \in Key, committed[Lists(k)] # NoRow
          PROVE  LET h == committed[Lists(k)]
                     c == Chain(k)
                     n == Len(c)
                 IN  /\ n > 0 /\ h.head = c[1] /\ h.tail = c[n] /\ h.count = n
                     /\ \A j \in 1 .. n :
                            /\ committed[Data(c[j])].prev = (IF j = 1 THEN 0 ELSE c[j - 1])
                            /\ committed[Data(c[j])].next = (IF j = n THEN 0 ELSE c[j + 1])
        <3> DEFINE c == Chain(k)
        <3>1. HasChain(committed, k, c)
            BY <2>1, <2>2 DEF Holds
        <3> HIDE DEF c, L
        <3>2. c # <<>> /\ Len(c) > 0
            BY <2>3, <3>1, HeadIs
        <3>3. committed[Lists(k)] = [head |-> c[1], tail |-> c[Len(c)], count |-> Len(c)]
            BY <3>1, <3>2 DEF HasChain, HeadOf
        <3> QED BY <3>1, <3>2, <3>3 DEF HasChain, Linked, c
    <2>4. ASSUME NEW i \in Id, committed[Data(i)] # NoRow
          PROVE  Cardinality({k \in Key : i \in ToSet(Chain(k))}) = 1
        <3>1. \A k \in Key : ToSet(Chain(k)) = Ids(L[k])
            BY <2>2 DEF ToSet, Ids
        <3>2. PICK k \in Key : i \in Ids(L[k])
            BY <2>1, <2>4 DEF Holds
        <3>3. \A j \in Key : j # k => Ids(L[j]) \cap Ids(L[k]) = {}
            BY <2>1 DEF Holds
        <3> HIDE DEF L
        <3>4. {j \in Key : i \in ToSet(Chain(j))} = {k}
            BY <3>1, <3>2, <3>3
        <3> QED BY <3>4, FS_Singleton
    <2> HIDE DEF L
    <2> QED BY <2>3, <2>4 DEF ListsWellFormed
<1> QED BY <1>1, InvariantlyAtomic, PTL

-----------------------------------------------------------------------------
\* The refinement: values instead of rows.

\* The values along a chain.
Values(t, l) == [j \in 1 .. Len(l) |-> t[Data(l[j])].val]

\* What a command does to the values of its key.
NewValues(x, c) ==
    IF c.op = "push" THEN IF c.end = "head" THEN <<c.val>> \o x ELSE Append(x, c.val)
    ELSE IF c.end = "head" THEN Tail(x) ELSE SubSeq(x, 1, Len(x) - 1)

\* The values along a chain are as many as its elements.
LEMMA ValuesAre ==
    ASSUME NEW t, NEW k, NEW l, HasChain(t, k, l)
    PROVE  /\ Values(t, l) \in Seq(Val) /\ Len(Values(t, l)) = Len(l)
           /\ \A a \in 1 .. Len(l) : Values(t, l)[a] = t[Data(l[a])].val
<1>1. \A a \in 1 .. Len(l) : t[Data(l[a])].val \in Val
    BY DEF HasChain, Linked, DataRows
<1>2. l \in Seq(Id) /\ Len(l) \in Nat
    BY DEF HasChain
<1>3. Values(t, l) \in [1 .. Len(l) -> Val]
    BY <1>1 DEF Values
<1>4. Values(t, l) \in Seq(Val) /\ Len(Values(t, l)) = Len(l)
    BY <1>2, <1>3, IsASeq, LenProperties
<1> QED BY <1>4 DEF Values

\* A command does to the values what it is meant to do to the list.
LEMMA CommandMovesValues ==
    ASSUME NEW t, NEW c \in Commands, Possible(t, c), NEW l, HasChain(t, c.key, l)
    PROVE  /\ Values(After(t, c), NewChain(l, c)) = NewValues(Values(t, l), c)
           /\ c.op = "pop" => /\ l # <<>>
                              /\ c.val = Values(t, l)[IF c.end = "head" THEN 1 ELSE Len(l)]
<1> DEFINE n == Len(l)
           new == NewChain(l, c)
           A == After(t, c)
           x == Values(t, l)
           y == Values(A, new)
           z == NewValues(x, c)
<1>1. ChainMoves(t, c, l)
    BY ChainMovesOn
<1>2. /\ HasChain(A, c.key, new)
      /\ \A i \in Ids(l) \cap Ids(new) : A[Data(i)].val = t[Data(i)].val
      /\ c.op = "push" => A[Data(c.id)].val = c.val
    BY <1>1 DEF ChainMoves
<1>3. /\ x \in Seq(Val) /\ Len(x) = n /\ \A a \in 1 .. n : x[a] = t[Data(l[a])].val
      /\ y \in Seq(Val) /\ Len(y) = Len(new)
      /\ \A a \in 1 .. Len(new) : y[a] = A[Data(new[a])].val
    BY <1>2, ValuesAre
<1>4. /\ l \in Seq(Id) /\ n \in Nat /\ c.id \in Id /\ c.val \in Val
      /\ c.op \in {"push", "pop"} /\ c.end \in {"head", "tail"}
    BY DEF HasChain, Commands, Ends
<1>5. \A a \in 1 .. n, b \in 1 .. Len(new) : l[a] = new[b] => y[b] = x[a]
    BY <1>2, <1>3 DEF Ids
<1>6. \A b \in 1 .. Len(new) : c.op = "push" /\ new[b] = c.id => y[b] = c.val
    BY <1>2, <1>3
<1>7. c.op = "pop" => l # <<>> /\ n > 0 /\ c.id = l[IF c.end = "head" THEN 1 ELSE n]
    <2> SUFFICES ASSUME c.op = "pop"
                 PROVE  l # <<>> /\ n > 0 /\ c.id = l[IF c.end = "head" THEN 1 ELSE n]
        OBVIOUS
    <2>1. c.key \in Key /\ t[Lists(c.key)] # NoRow /\ c.id = t[Lists(c.key)][c.end]
        BY DEF Possible, Commands
    <2>2. l # <<>> /\ n > 0
        BY <2>1, <1>4, HeadIs
    <2>3. t[Lists(c.key)] = [head |-> l[1], tail |-> l[n], count |-> n]
        BY <2>2 DEF HasChain, HeadOf
    <2> QED BY <1>4, <2>1, <2>2, <2>3
<1>8. c.op = "pop" => c.val = x[IF c.end = "head" THEN 1 ELSE n]
    <2>1. c.op = "pop" => c.val = t[Data(c.id)].val
        BY DEF Possible
    <2>2. c.op = "pop" => (IF c.end = "head" THEN 1 ELSE n) \in 1 .. n
        BY <1>4, <1>7
    <2> QED BY <1>3, <1>7, <2>1, <2>2
<1>9. new = IF c.op = "push" THEN IF c.end = "head" THEN <<c.id>> \o l ELSE Append(l, c.id)
            ELSE IF c.end = "head" THEN Tail(l) ELSE SubSeq(l, 1, n - 1)
    BY DEF NewChain
<1>10. z = IF c.op = "push" THEN IF c.end = "head" THEN <<c.val>> \o x ELSE Append(x, c.val)
           ELSE IF c.end = "head" THEN Tail(x) ELSE SubSeq(x, 1, n - 1)
    BY <1>3 DEF NewValues
<1> HIDE DEF new, A, x, y, z
<1>11. CASE c.op = "push" /\ c.end = "head"
    <2>1. /\ Len(new) = 1 + n /\ new[1] = c.id /\ \A a \in 2 .. 1 + n : new[a] = l[a - 1]
        <3>1. <<c.id>> \in Seq(Id) /\ Len(<<c.id>>) = 1 /\ <<c.id>>[1] = c.id
            BY <1>4
        <3>2. /\ Len(new) = 1 + n
              /\ \A a \in 1 .. 1 + n : new[a] = IF a <= 1 THEN <<c.id>>[a] ELSE l[a - 1]
            BY <1>4, <1>9, <1>11, <3>1, ConcatProperties
        <3> QED BY <1>4, <3>1, <3>2
    <2>2. /\ z \in Seq(Val) /\ Len(z) = 1 + n /\ z[1] = c.val
          /\ \A a \in 2 .. 1 + n : z[a] = x[a - 1]
        <3>1. <<c.val>> \in Seq(Val) /\ Len(<<c.val>>) = 1 /\ <<c.val>>[1] = c.val
            BY <1>4
        <3>2. /\ z \in Seq(Val) /\ Len(z) = 1 + n
              /\ \A a \in 1 .. 1 + n : z[a] = IF a <= 1 THEN <<c.val>>[a] ELSE x[a - 1]
            BY <1>3, <1>4, <1>10, <1>11, <3>1, ConcatProperties
        <3> QED BY <1>4, <3>1, <3>2
    <2>3. ASSUME NEW a \in 1 .. 1 + n PROVE y[a] = z[a]
        <3>1. a = 1 \/ (a \in 2 .. 1 + n /\ a - 1 \in 1 .. n)
            BY <1>4
        <3> QED BY <1>5, <1>6, <1>11, <2>1, <2>2, <3>1
    <2>4. y = z
        BY <1>3, <2>1, <2>2, <2>3, SeqEqual
    <2> QED BY <1>11, <2>4 DEF y, z, A, new, x
<1>12. CASE c.op = "push" /\ c.end = "tail"
    <2>1. Len(new) = n + 1 /\ new[n + 1] = c.id /\ \A a \in 1 .. n : new[a] = l[a]
        BY <1>4, <1>9, <1>12, AppendProperties
    <2>2. /\ z \in Seq(Val) /\ Len(z) = n + 1 /\ z[n + 1] = c.val
          /\ \A a \in 1 .. n : z[a] = x[a]
        BY <1>3, <1>4, <1>10, <1>12, AppendProperties
    <2>3. ASSUME NEW a \in 1 .. n + 1 PROVE y[a] = z[a]
        <3>1. a = n + 1 \/ a \in 1 .. n
            BY <1>4
        <3> QED BY <1>5, <1>6, <1>12, <2>1, <2>2, <3>1
    <2>4. y = z
        BY <1>3, <2>1, <2>2, <2>3, SeqEqual
    <2> QED BY <1>12, <2>4 DEF y, z, A, new, x
<1>13. CASE c.op = "pop" /\ c.end = "head"
    <2>1. Len(new) = n - 1 /\ \A a \in 1 .. n - 1 : new[a] = l[a + 1]
        BY <1>4, <1>7, <1>9, <1>13, HeadTailProperties
    <2>2. z \in Seq(Val) /\ Len(z) = n - 1 /\ \A a \in 1 .. n - 1 : z[a] = x[a + 1]
        <3>1. x # <<>>
            BY <1>3, <1>4, <1>7, <1>13
        <3> QED BY <1>3, <1>10, <1>13, <3>1, HeadTailProperties
    <2>3. \A a \in 1 .. n - 1 : y[a] = z[a]
        <3>1. \A a \in 1 .. n - 1 : a + 1 \in 1 .. n
            BY <1>4
        <3> QED BY <1>5, <2>1, <2>2, <3>1
    <2>4. y = z
        BY <1>3, <2>1, <2>2, <2>3, SeqEqual
    <2> QED BY <1>7, <1>8, <1>13, <2>4 DEF y, z, A, new, x
<1>14. CASE c.op = "pop" /\ c.end = "tail"
    <2>1. \A S : \A s \in Seq(S) : Len(s) = n =>
              /\ SubSeq(s, 1, n - 1) \in Seq(S) /\ Len(SubSeq(s, 1, n - 1)) = n - 1
              /\ \A a \in 1 .. n - 1 : SubSeq(s, 1, n - 1)[a] = s[a]
        <3> SUFFICES ASSUME NEW S, NEW s \in Seq(S), Len(s) = n
                     PROVE  /\ SubSeq(s, 1, n - 1) \in Seq(S) /\ Len(SubSeq(s, 1, n - 1)) = n - 1
                            /\ \A a \in 1 .. n - 1 : SubSeq(s, 1, n - 1)[a] = s[a]
            OBVIOUS
        <3> DEFINE m == n - 1
        <3>1. /\ m \in Nat /\ m - 1 + 1 = m /\ (1 <= m \/ m = 0)
              /\ \A a \in 1 .. m : s[a] \in S /\ 1 + a - 1 = a
            BY <1>4, <1>7, <1>14
        <3> HIDE DEF m
        <3>2. /\ SubSeq(s, 1, m) \in Seq(S)
              /\ Len(SubSeq(s, 1, m)) = (IF 1 <= m THEN m - 1 + 1 ELSE 0)
              /\ \A a \in 1 .. m - 1 + 1 : SubSeq(s, 1, m)[a] = s[1 + a - 1]
            BY <3>1, SubSeqProperties
        <3>3. /\ SubSeq(s, 1, m) \in Seq(S) /\ Len(SubSeq(s, 1, m)) = m
              /\ \A a \in 1 .. m : SubSeq(s, 1, m)[a] = s[a]
            BY <3>1, <3>2
        <3> QED BY <3>3 DEF m
    <2>2. Len(new) = n - 1 /\ \A a \in 1 .. n - 1 : new[a] = l[a]
        BY <1>4, <1>9, <1>14, <2>1
    <2>3. z \in Seq(Val) /\ Len(z) = n - 1 /\ \A a \in 1 .. n - 1 : z[a] = x[a]
        BY <1>3, <1>10, <1>14, <2>1
    <2>4. \A a \in 1 .. n - 1 : y[a] = z[a]
        <3>1. \A a \in 1 .. n - 1 : a \in 1 .. n
            BY <1>4
        <3> QED BY <1>5, <2>2, <2>3, <3>1
    <2>5. y = z
        BY <1>3, <2>2, <2>3, <2>4, SeqEqual
    <2> QED BY <1>7, <1>8, <1>14, <2>5 DEF y, z, A, new, x
<1> QED BY <1>4, <1>11, <1>12, <1>13, <1>14

\* The list of a key, as the rows hold it.
LEMMA ListIs ==
    ASSUME AtomicInv, NEW k \in Key
    PROVE  /\ HasChain(committed, k, Chain(k)) /\ Chain(k) = Chains(committed)[k]
           /\ ListOf(k) = Values(committed, Chain(k))
           /\ ListOf(k) \in Seq(Val) /\ Len(ListOf(k)) = Len(Chain(k))
           /\ \A a \in 1 .. Len(Chain(k)) : ListOf(k)[a] = committed[Data(Chain(k)[a])].val
           /\ ReadHead(committed, k).count = Len(ListOf(k))
           /\ ReadHead(committed, k).head = At(Chain(k), 1)
<1>1. WellFormed(committed)
    BY DEF AtomicInv
<1>2. Chain(k) = Chains(committed)[k]
    BY <1>1, ChainsAreTyped DEF Chain
<1>3. HasChain(committed, k, Chain(k))
    BY <1>1, <1>2 DEF WellFormed, Holds
<1>4. ListOf(k) = Values(committed, Chain(k))
    <2>1. DOMAIN Chain(k) = 1 .. Len(Chain(k))
        BY <1>3 DEF HasChain
    <2> QED BY <2>1 DEF ListOf, Values
<1> QED BY <1>2, <1>3, <1>4, ValuesAre, HeadIs

\* What a commit does to the values of every key.
LEMMA CommitMovesLists ==
    ASSUME OneWriter, AtomicInv, AtomicInv', NEW w \in Worker, NEW c, Doing(w, c), Commit(w)
    PROVE  \A k \in Key : ListOf(k)' = IF k = c.key THEN NewValues(ListOf(k), c) ELSE ListOf(k)
<1>1. /\ c \in Commands /\ Possible(committed, c) /\ WellFormed(committed)
      /\ committed' = After(committed, c)
    BY CommitWrites DEF Doing, AtomicInv
<1> SUFFICES ASSUME NEW k \in Key
             PROVE  ListOf(k)' = IF k = c.key THEN NewValues(ListOf(k), c) ELSE ListOf(k)
    OBVIOUS
<1> DEFINE A == After(committed, c)
           L == Chains(committed)
<1>2. ListOf(k)' = Values(A, Chains(A)[k])
    <2>1. ListOf(k)' = Values(committed', Chain(k)') /\ Chain(k)' = Chains(committed')[k]
        <3>1. WellFormed(committed')
            BY DEF AtomicInv
        <3>2. Chain(k)' = Chains(committed')[k]
            BY <3>1, ChainsAreTyped DEF Chain
        <3>3. Chain(k)' \in Seq(Id)
            BY <3>1, <3>2 DEF WellFormed, Holds, HasChain
        <3>4. DOMAIN Chain(k)' = 1 .. Len(Chain(k)')
            BY <3>3
        <3>5. ListOf(k)' = [j \in DOMAIN Chain(k)' |-> committed'[Data(Chain(k)'[j])].val]
            BY DEF ListOf
        <3> QED BY <3>2, <3>4, <3>5 DEF Values
    <2> QED BY <1>1, <2>1
<1>3. ListOf(k) = Values(committed, L[k]) /\ HasChain(committed, k, L[k])
    BY ListIs
<1>4. Chains(A) = [L EXCEPT ![c.key] = NewChain(L[c.key], c)] /\ L \in [Key -> Seq(Id)]
    BY <1>1, StaysWellFormed, ChainsAreTyped
<1> HIDE DEF A, L
<1>5. CASE k = c.key
    <2>1. Chains(A)[k] = NewChain(L[k], c)
        BY <1>4, <1>5
    <2> QED BY <1>1, <1>2, <1>3, <1>5, <2>1, CommandMovesValues DEF A
<1>6. CASE k # c.key
    <2>1. Chains(A)[k] = L[k]
        BY <1>4, <1>6
    <2>2. c.id \notin Ids(L[k]) /\ Beside(committed, c) \notin Ids(L[k])
        BY <1>1, <1>6, OtherChainsHaveNone DEF WellFormed, L
    <2>3. \A a \in 1 .. Len(L[k]) : A[Data(L[k][a])] = committed[Data(L[k][a])]
        BY <1>1, <1>3, <1>6, <2>2, OtherChainsStay DEF A
    <2>4. Values(A, L[k]) = Values(committed, L[k])
        BY <2>3 DEF Values
    <2> QED BY <1>2, <1>3, <1>6, <2>1, <2>4
<1> QED BY <1>5, <1>6

\* The list of each key, as the abstract specification sees them.
Shown == [k \in Key |-> ListOf(k)]

\* The commit of a push or a pop is the push or the pop.
LEMMA CommitIsAtomic ==
    ASSUME OneWriter, AtomicInv, AtomicInv', NEW w \in Worker, Commit(w)
    PROVE  Abstract!Next
<1>1. PICK c : Doing(w, c)
    BY DEF AtomicInv, Commit
<1>2. /\ c \in Commands /\ Possible(committed, c)
      /\ reply' = Answer(w, Request(c), Result(committed, c))
      /\ c.key \in Key /\ c.end \in {"head", "tail"} /\ c.val \in Val /\ c.op \in {"push", "pop"}
    BY <1>1 DEF Doing, Commit, Commands, Ends
<1> DEFINE k == c.key
<1>3. \A j \in Key : ListOf(j)' = IF j = k THEN NewValues(ListOf(j), c) ELSE ListOf(j)
    BY <1>1, CommitMovesLists
<1>4. Shown' = [Shown EXCEPT ![k] = NewValues(Shown[k], c)]
    BY <1>2, <1>3 DEF Shown
<1>5. /\ Shown[k] = ListOf(k) /\ ListOf(k) = Values(committed, Chain(k))
      /\ HasChain(committed, k, Chain(k))
      /\ ReadHead(committed, k).count = Len(ListOf(k)) /\ Len(ListOf(k)) = Len(Chain(k))
      /\ ListOf(k) \in Seq(Val)
    BY <1>2, ListIs DEF Shown
<1>6. CASE c.op = "push"
    <2>1. Shown' = [Shown EXCEPT ![k] = IF c.end = "head" THEN <<c.val>> \o @ ELSE Append(@, c.val)]
        BY <1>4, <1>6 DEF NewValues
    <2>2. reply' = [to |-> w, request |-> <<"push", k, c.end, c.val>>, val |-> Len(Shown[k]) + 1]
        BY <1>2, <1>5, <1>6 DEF Answer, Request, Result
    <2>3. Abstract!Push(w, k, c.end, c.val)
        BY <2>1, <2>2 DEF Abstract!Push, Abstract!Answer, Shown
    <2> QED BY <1>2, <2>3 DEF Abstract!Next
<1>7. CASE c.op = "pop"
    <2>1. /\ Chain(k) # <<>>
          /\ c.val = ListOf(k)[IF c.end = "head" THEN 1 ELSE Len(Chain(k))]
        BY <1>2, <1>5, <1>7, CommandMovesValues
    <2>2. Shown[k] # <<>>
        <3>1. Chain(k) \in Seq(Id)
            BY <1>5 DEF HasChain
        <3> QED BY <1>5, <2>1, <3>1
    <2>3. reply' = [to |-> w, request |-> <<"pop", k, c.end>>,
                    val |-> Shown[k][IF c.end = "head" THEN 1 ELSE Len(Shown[k])]]
        BY <1>2, <1>5, <1>7, <2>1 DEF Answer, Request, Result
    <2>4. ASSUME c.end = "head" PROVE Abstract!Pop(w, k, c.end)
        <3>1. Shown' = [Shown EXCEPT ![k] = Tail(@)]
            BY <1>4, <1>7, <2>4 DEF NewValues
        <3>2. reply' = [to |-> w, request |-> <<"pop", k, c.end>>, val |-> Shown[k][1]]
            BY <2>3, <2>4
        <3> QED BY <2>2, <2>4, <3>1, <3>2 DEF Abstract!Pop, Abstract!Answer, Shown
    <2>5. ASSUME c.end = "tail" PROVE Abstract!Pop(w, k, c.end)
        <3>1. Shown' = [Shown EXCEPT ![k] = SubSeq(@, 1, Len(Shown[k]) - 1)]
            BY <1>4, <1>7, <2>5 DEF NewValues
        <3>2. reply' = [to |-> w, request |-> <<"pop", k, c.end>>, val |-> Shown[k][Len(Shown[k])]]
            BY <2>3, <2>5
        <3> QED BY <2>2, <2>5, <3>1, <3>2 DEF Abstract!Pop, Abstract!Answer, Shown
    <2>6. Abstract!Pop(w, k, c.end)
        BY <1>2, <2>4, <2>5
    <2> QED BY <1>2, <2>6 DEF Abstract!Next
<1> QED BY <1>2, <1>6, <1>7

\* A step that leaves the rows leaves the lists.
LEMMA ListsStay == committed' = committed => Shown' = Shown
BY DEF Shown, ListOf, Chain, ReadHead

\* LLEN and LRANGE answer what the lists hold.
LEMMA ReadIsAtomic ==
    ASSUME AtomicInv, NEW w \in Worker, NEW k \in Key
    PROVE  /\ LLen(w, k) => Abstract!Next
           /\ \A start, stop \in Position : LRange(w, k, start, stop) => Abstract!Next
<1> DEFINE c == Chain(k)
           n == Len(c)
           h == ReadHead(committed, k)
<1>1. /\ HasChain(committed, k, c) /\ Shown[k] = ListOf(k) /\ ListOf(k) \in Seq(Val)
      /\ Len(ListOf(k)) = n /\ h.count = n /\ h.head = At(c, 1)
      /\ \A a \in 1 .. n : ListOf(k)[a] = committed[Data(c[a])].val
    BY ListIs DEF Shown
<1>2. c \in Seq(Id) /\ n \in Nat /\ Linked(committed, c) /\ DataTyped(committed)
    BY <1>1 DEF HasChain, AtomicInv, WellFormed, Holds
<1>3. ASSUME LLen(w, k) PROVE Abstract!Next
    <2>1. reply' = [to |-> w, request |-> <<"llen", k>>, val |-> Len(Shown[k])]
        BY <1>1, <1>3 DEF LLen, ReadOnly, Answer
    <2>2. Shown' = Shown
        BY <1>3, ListsStay DEF LLen, ReadOnly, engine
    <2>3. Abstract!LLen(w, k)
        BY <2>1, <2>2 DEF Abstract!LLen, Abstract!Answer, Shown
    <2> QED BY <2>3 DEF Abstract!Next
<1>4. ASSUME NEW start \in Position, NEW stop \in Position, LRange(w, k, start, stop)
      PROVE  Abstract!Next
    <2> DEFINE last == IF stop < 0 THEN stop + n ELSE stop
               e == IF last < n THEN last + 1 ELSE n
    <2>1. reply' = [to |-> w, request |-> <<"lrange", k, start, stop>>,
                    val |-> IF start < 0 THEN <<NoVal>>
                            ELSE IF last < start THEN <<>>
                            ELSE RangeFrom(committed, h.head, start, last)]
        <3>1. h.count = n
            BY <1>1
        <3> HIDE DEF n, h
        <3> QED BY <1>4, <3>1 DEF LRange, ReadOnly, Answer, h
    <2>2. start \in Int /\ stop \in Int /\ last \in Int /\ e \in Int
        BY <1>2, <1>4, PositionAssumption
    <2> HIDE DEF last
    <2>3. ASSUME start >= 0, last < start PROVE SubSeq(Shown[k], start + 1, e) = <<>>
        <3>1. e < start + 1
            BY <1>2, <2>2, <2>3
        <3> HIDE DEF e
        <3> QED BY <2>2, <3>1, SubSeqEmpty
    <2>4. ASSUME start >= 0, last >= start
          PROVE  RangeFrom(committed, h.head, start, last) = SubSeq(Shown[k], start + 1, e)
        <3>1. start \in Nat /\ last \in Nat
            BY <2>2, <2>4
        <3>2. RangeFrom(committed, At(c, 1), start, last)
                  = SubSeq(ListOf(k), start + 1, IF last < Len(c) THEN last + 1 ELSE Len(c))
            <4> DEFINE x == ListOf(k)
            <4>1. /\ x \in Seq(Val) /\ Len(x) = Len(c)
                  /\ \A a \in 1 .. Len(c) : x[a] = committed[Data(c[a])].val
                BY <1>1
            <4>2. DataTyped(committed) /\ c \in Seq(Id) /\ Linked(committed, c)
                BY <1>2
            <4> HIDE DEF x, c, last
            <4>3. RangeFrom(committed, At(c, 1), start, last)
                      = SubSeq(x, start + 1, IF last < Len(c) THEN last + 1 ELSE Len(c))
                BY <3>1, <4>1, <4>2, RangeIs
            <4> QED BY <4>3 DEF x
        <3> HIDE DEF c, h
        <3> QED BY <1>1, <3>2
    <2>5. reply' = [to |-> w, request |-> <<"lrange", k, start, stop>>,
                    val |-> IF start < 0 THEN <<NoVal>> ELSE SubSeq(Shown[k], start + 1, e)]
        <3> HIDE DEF h, e
        <3>1. start < 0 \/ (start >= 0 /\ last < start) \/ (start >= 0 /\ last >= start)
            BY <2>2
        <3>2. start >= 0 => ~(start < 0)
            BY <2>2
        <3>3. last >= start => ~(last < start)
            BY <2>2
        <3>4. CASE start < 0
            BY <2>1, <3>4
        <3>5. CASE start >= 0 /\ last < start
            BY <2>1, <2>3, <3>2, <3>5
        <3>6. CASE start >= 0 /\ last >= start
            BY <2>1, <2>4, <3>2, <3>3, <3>6
        <3> QED BY <3>1, <3>4, <3>5, <3>6
    <2>6. Shown' = Shown
        BY <1>4, ListsStay DEF LRange, ReadOnly, engine
    <2>7. Len(Shown[k]) = n
        BY <1>1
    <2>8. Abstract!LRange(w, k, start, stop)
        <3> HIDE DEF n
        <3> QED BY <2>5, <2>6, <2>7 DEF Abstract!LRange, Abstract!Answer, Shown, last
    <2> QED BY <1>4, <2>8 DEF Abstract!Next
<1> QED BY <1>3, <1>4

(***************************************************************************)
(* The two tables implement AtomicList: a push or a pop happens when it    *)
(* commits, entirely or not at all, and is answered with what it did then; *)
(* LLEN and LRANGE answer what the list holds (listtable.cc, all           *)
(* commands).                                                              *)
(***************************************************************************)
THEOREM TablesImplementAtomicList ==
    ASSUME OneWriter, PopMissing = FALSE
    PROVE  Spec => ImplementsAtomicList
<1>1. Init => Abstract!Init
    <2> SUFFICES ASSUME Init PROVE Abstract!Init
        OBVIOUS
    <2>1. AtomicInv /\ \A k \in Key : committed[Lists(k)] = NoRow
        BY InitAtomic, RowsDiffer DEF Init, EngineInit
    <2>2. \A k \in Key : Len(ListOf(k)) = 0 /\ ListOf(k) \in Seq(Val)
        BY <2>1, ListIs DEF ReadHead
    <2>3. \A k \in Key : ListOf(k) = <<>>
        BY <2>2
    <2>4. Shown = [k \in Key |-> <<>>]
        BY <2>3 DEF Shown
    <2> QED BY <2>4 DEF Abstract!Init, Shown, Init
<1>2. AtomicInv /\ AtomicInv' /\ [Next]_vars => [Abstract!Next]_(Abstract!vars)
    <2> SUFFICES ASSUME AtomicInv, AtomicInv', [Next]_vars
                 PROVE  [Abstract!Next]_(Abstract!vars)
        OBVIOUS
    <2>1. ASSUME committed' = committed, reply' = NoReply PROVE Abstract!Next
        <3>1. Shown' = Shown
            BY <2>1, ListsStay
        <3>2. Abstract!Wait
            BY <2>1, <3>1 DEF Abstract!Wait, Shown
        <3> QED BY <3>2 DEF Abstract!Next
    <2>2. ASSUME NEW w \in Worker, Take(w) PROVE Abstract!Next
        <3>1. PICK k \in Key :
                  \/ \E end \in Ends : Pop(w, k, end) \/ \E v \in Val : Push(w, k, end, v)
                  \/ LLen(w, k)
                  \/ \E start, stop \in Position : LRange(w, k, start, stop)
            BY <2>2 DEF Take
        <3>2. ASSUME NEW end, Pop(w, k, end) PROVE Abstract!Next
            BY <2>1, <3>2 DEF Pop, Begin, BeginTrx
        <3>3. ASSUME NEW end, NEW v, Push(w, k, end, v) PROVE Abstract!Next
            BY <2>1, <3>3 DEF Push, Begin, BeginTrxWriting
        <3> QED BY <3>1, <3>2, <3>3, ReadIsAtomic
    <2>3. ASSUME NEW w \in Worker, Step(w) PROVE Abstract!Next
        <3>1. ~LockTimeout(w) /\ ~Deadlock(w)
            BY NobodyWaits DEF LockTimeout, Deadlock
        <3>2. CASE Execute(w)
            BY <2>1, <3>2 DEF Execute, Skip, Apply, WriteRow, engine
        <3> QED BY <2>3, <3>1, <3>2, CommitIsAtomic DEF Step
    <2>4. CASE Restart
        BY <2>1, <2>4 DEF Restart, RecoverTrx
    <2>5. CASE UNCHANGED vars
        <3>1. Shown' = Shown /\ reply' = reply
            BY <2>5, ListsStay DEF vars
        <3> QED BY <3>1 DEF Abstract!vars, Shown
    <2> QED BY <2>2, <2>3, <2>4, <2>5 DEF Next
<1> QED BY <1>1, <1>2, InvariantlyAtomic, PTL DEF Spec, ImplementsAtomicList, Abstract!Spec
=============================================================================
