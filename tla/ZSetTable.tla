------------------------------- MODULE ZSetTable -------------------------------
(***************************************************************************)
(* ZADD, ZREM, ZCARD, ZSCORE and ZCOUNT as the worker threads run them     *)
(* (zsettable.cc), and the server being killed and started again.          *)
(*                                                                         *)
(* Two tables: `zsets' has a row per key with the id of its sorted set and *)
(* its cardinality; `zsets-data' has a row per id and value with the       *)
(* score, and an index of its rows by id and score.  A row here holds the  *)
(* score it was written with, which stands for the text of it.             *)
(*                                                                         *)
(* A command decides on what it reads in the snapshot of its transaction   *)
(* and then writes at most two rows:                                       *)
(*     "newhead" -> "data" -> "commit"          ZADD to a new key          *)
(*     "data" -> "head" -> "commit"             ZADD, ZREM                 *)
(* or leaves for "rollback" when the value turns out to be there, and for  *)
(* "fail" when the write of the data row fails.                            *)
(***************************************************************************)
EXTENDS Scores, FiniteSets

CONSTANTS Worker, Key,
          Id,         \* the ids rand() may draw: positive naturals
          Val,        \* values, as naturals in the order of the index
          MaxCount,   \* bound: ZADD is sent to keys whose count is smaller
          Writers,    \* the workers that add to and remove from each key
          Seeds,      \* what srand(time(0)) does at a restart: "fresh", or
                      \* "repeated" within the second of an earlier start;
                      \* {} for behaviours without restarts
          NoRow, Free, NoTrx, NoCall, NoReply

ASSUME IdAssumption == Id \subseteq Nat \ {0}
ASSUME ValAssumption == Val \subseteq Nat
ASSUME MaxCountAssumption == MaxCount \in Nat \ {0}
ASSUME WritersAssumption == Writers \in [Key -> SUBSET Worker]
ASSUME SeedsAssumption == Seeds \subseteq {"fresh", "repeated"}
ASSUME FreeAssumption == Free \notin Worker

\* The commands that write, as they are once they have read the head row.
Calls == [op : {"zadd", "zrem"}, key : Key, val : Val, score : Score \cup {0},
          id : Id, count : 0 .. MaxCount]

\* The rows of `zsets'.
Heads == [id : Id, count : 1 .. MaxCount]

ASSUME NoCallAssumption == NoCall \notin Calls
ASSUME NoRowAssumption == NoRow \notin Heads \cup Score

HeadRow(k) == <<"zsets", k>>
DataRow(i, v) == <<"zsets-data", i, v>>
DataRows == {DataRow(i, v) : i \in Id, v \in Val}
Row == {HeadRow(k) : k \in Key} \cup DataRows

VARIABLES committed, current, lock, view,   \* HailDB
          drawn,   \* the ids rand() will not draw again
          pc,      \* where each worker is in its command
          call,    \* the command it writes for
          reply    \* the reply the last step wrote, if any, with its command

INSTANCE HailDB

engine == <<committed, current, lock, view>>
vars == <<committed, current, lock, view, drawn, pc, call, reply>>

Init ==
    /\ EngineInit
    /\ drawn = {}
    /\ pc = [w \in Worker |-> "idle"]
    /\ call = [w \in Worker |-> NoCall]
    /\ reply = NoReply

Answer(w, request, v) == [to |-> w, request |-> request, val |-> v]
Goto(w, l) == pc' = [pc EXCEPT ![w] = l]

-----------------------------------------------------------------------------
\* Mutant of Order: zrem updates the cardinality first.
OrderHeadFirst(c) ==
    IF c.count = 0 THEN <<"newhead", "data", "commit">>
    ELSE IF c.op = "zrem" THEN <<"head", "data", "commit">>
    ELSE <<"data", "head", "commit">>

\* The writes of a command; one that adds to a new key read no head row.
Order(c) ==
    IF c.count = 0 THEN <<"newhead", "data", "commit">>
                   ELSE <<"data", "head", "commit">>

\* w goes on to what follows the present write.
Continue(w) ==
    \E n \in 1 .. 2 : /\ Order(call[w])[n] = pc[w]
                      /\ Goto(w, Order(call[w])[n + 1])

\* A command that goes on to write starts its transaction.
GetCursor(w, c) ==
    /\ BeginTrx(w)
    /\ call' = [call EXCEPT ![w] = c]
    /\ Goto(w, Order(c)[1])
    /\ reply' = NoReply

\* A command that writes nothing: one snapshot, rolled back.
ReadOnly(w, request, v) ==
    /\ pc[w] = "idle"
    /\ reply' = Answer(w, request, v)
    /\ UNCHANGED <<engine, drawn, pc, call>>

Exists(k) == committed[HeadRow(k)] # NoRow

\* find_row: the value is in the sorted set of k.
Found(k, v) == Exists(k) /\ committed[DataRow(committed[HeadRow(k)].id, v)] # NoRow

\* The command of w on a key that has a head row.
Call(op, k, v, s) ==
    [op |-> op, key |-> k, val |-> v, score |-> s,
     id |-> committed[HeadRow(k)].id, count |-> committed[HeadRow(k)].count]

\* What the client of w asked for.
Request(c) == IF c.op = "zadd" THEN <<"zadd", c.key, c.val, c.score>>
                               ELSE <<"zrem", c.key, c.val>>

\* The error reply, and the reply of ZSCORE when there is no score.
Err == -1

\* zadd up to its first write.  The id of a new sorted set is drawn here.
ZAdd(w, k, v, s) ==
    /\ pc[w] = "idle"
    /\ \/ /\ Exists(k) /\ ~Found(k, v)
          /\ committed[HeadRow(k)].count < MaxCount
          /\ GetCursor(w, Call("zadd", k, v, s))
          /\ UNCHANGED drawn
       \/ /\ ~Exists(k)
          /\ \E i \in Id \ drawn :
                 /\ drawn' = drawn \cup {i}
                 /\ GetCursor(w, [op |-> "zadd", key |-> k, val |-> v, score |-> s,
                                  id |-> i, count |-> 0])

ZAddKnown(w, k, v, s) == Found(k, v) /\ ReadOnly(w, <<"zadd", k, v, s>>, 0)

\* zrem up to its first write.
ZRem(w, k, v) ==
    /\ pc[w] = "idle"
    /\ Found(k, v)
    /\ GetCursor(w, Call("zrem", k, v, 0))
    /\ UNCHANGED drawn

ZRemUnknown(w, k, v) == ~Found(k, v) /\ ReadOnly(w, <<"zrem", k, v>>, 0)

ZCard(w, k) ==
    ReadOnly(w, <<"zcard", k>>, IF Exists(k) THEN committed[HeadRow(k)].count ELSE 0)

ZScore(w, k, v) ==
    ReadOnly(w, <<"zscore", k, v>>,
             IF Found(k, v) THEN Kept[committed[DataRow(committed[HeadRow(k)].id, v)]]
                            ELSE Err)

(***************************************************************************)
(* ZSetTable::zcount: from the first row of the score index at or after    *)
(* (id, min), the loop counts rows until one has a score outside the       *)
(* bounds.  It does not look at the rows' ids.                             *)
(***************************************************************************)
Precedes(sees, r, s) ==   \* in the order of the index: id, score, value
    \/ r[2] < s[2]
    \/ r[2] = s[2] /\ Earlier[sees[r]][sees[s]]
    \/ r[2] = s[2] /\ sees[r] = sees[s] /\ r[3] <= s[3]

\* Mutant of CountFrom: the cursor starts after `min'.
CountFromAfter(sees, i, min, max) ==
    LET from == {r \in DataRows : sees[r] # NoRow
                                  /\ (r[2] > i \/ (r[2] = i /\ Earlier[min][sees[r]]))}
        inside(r) == Kept[sees[r]] \in min .. max
    IN  Cardinality({r \in from : \A s \in from : Precedes(sees, s, r) => inside(s)})

CountFrom(sees, i, min, max) ==
    LET from == {r \in DataRows : sees[r] # NoRow
                                  /\ (r[2] > i \/ (r[2] = i /\ ~Earlier[sees[r]][min]))}
        inside(r) == Kept[sees[r]] \in min .. max
    IN  Cardinality({r \in from : \A s \in from : Precedes(sees, s, r) => inside(s)})

ZCount(w, k, min, max) ==
    ReadOnly(w, <<"zcount", k, min, max>>,
             IF Exists(k) THEN CountFrom(committed, committed[HeadRow(k)].id, min, max)
                          ELSE 0)

-----------------------------------------------------------------------------
\* The row a worker writes next.
NextRow(w) ==
    IF pc[w] = "data" THEN DataRow(call[w].id, call[w].val)
                      ELSE HeadRow(call[w].key)

(***************************************************************************)
(* The loop that inserts the head of a new key: it ends when the insert    *)
(* succeeds.  An insert that fails, because the row is there by now or the *)
(* wait for its lock timed out, is repeated: it changes nothing, so it is  *)
(* no step here.  (It draws another id, as new as the one it drops.)  Then *)
(* find_row looks for the value under the new id.                          *)
(***************************************************************************)
InsertHead(w) ==
    LET k == HeadRow(call[w].key)
    IN  /\ pc[w] = "newhead"
        /\ CanLock(w, k)
        /\ current[k] = NoRow
        /\ WriteRow(w, k, [id |-> call[w].id, count |-> 1])
        /\ \/ /\ view[w][DataRow(call[w].id, call[w].val)] = NoRow
              /\ Continue(w)
           \/ /\ view[w][DataRow(call[w].id, call[w].val)] # NoRow
              /\ Goto(w, "rollback")
        /\ reply' = NoReply
        /\ UNCHANGED <<drawn, call>>

\* The data row could not be written.
Fail(w) == Goto(w, "fail") /\ UNCHANGED engine

\* Mutant of WriteData: a second insert replaces the row.
WriteDataBlindly(w) ==
    /\ pc[w] = "data"
    /\ CanLock(w, NextRow(w))
    /\ WriteRow(w, NextRow(w), IF call[w].op = "zrem" THEN NoRow ELSE call[w].score)
    /\ Continue(w)
    /\ reply' = NoReply
    /\ UNCHANGED <<drawn, call>>

\* ZSetTable::insert_row and delete_row.  A new key has its cardinality.
WriteData(w) ==
    /\ pc[w] = "data"
    /\ CanLock(w, NextRow(w))
    /\ LET r == NextRow(w)
       IN  \/ /\ call[w].op = "zadd" /\ current[r] = NoRow
              /\ WriteRow(w, r, call[w].score)
              /\ Continue(w)
           \/ /\ call[w].op = "zrem" /\ current[r] # NoRow
              /\ WriteRow(w, r, NoRow)
              /\ Continue(w)
           \/ /\ (call[w].op = "zadd") = (current[r] # NoRow)
              /\ Fail(w)
    /\ reply' = NoReply
    /\ UNCHANGED <<drawn, call>>

\* Mutant of NewCount: zrem counts up.
NewCountUp(c) == c.count + 1

NewCount(c) == IF c.op = "zadd" THEN c.count + 1 ELSE c.count - 1

\* Mutant of WriteHead: the head of an emptied sorted set stays.
WriteHeadKeepsEmpty(w) ==
    /\ pc[w] = "head"
    /\ CanLock(w, NextRow(w))
    /\ IF current[NextRow(w)] = NoRow THEN UNCHANGED engine
       ELSE WriteRow(w, NextRow(w), [current[NextRow(w)] EXCEPT !.count = NewCount(call[w])])
    /\ Continue(w)
    /\ reply' = NoReply
    /\ UNCHANGED <<drawn, call>>

\* ZSetHeadTable::update_row: only the count is written, whatever the row
\* holds now; a count of 0 deletes it.  The result is not looked at.
WriteHead(w) ==
    /\ pc[w] = "head"
    /\ CanLock(w, NextRow(w))
    /\ LET r == NextRow(w)
           n == NewCount(call[w])
       IN  IF current[r] = NoRow THEN UNCHANGED engine
           ELSE WriteRow(w, r, IF n = 0 THEN NoRow ELSE [current[r] EXCEPT !.count = n])
    /\ Continue(w)
    /\ reply' = NoReply
    /\ UNCHANGED <<drawn, call>>

\* w waits for a row that u has locked.
WaitsFor(w, u) ==
    /\ pc[w] \in {"newhead", "data", "head"}
    /\ lock[NextRow(w)] = u

\* The engine ends a wait with DB_LOCK_WAIT_TIMEOUT: the data row fails the
\* command, the head row does not.
LockTimeout(w) ==
    /\ \E u \in Worker \ {w} : WaitsFor(w, u)
    /\ \/ pc[w] = "data" /\ Fail(w)
       \/ pc[w] = "head" /\ Continue(w) /\ UNCHANGED engine
    /\ reply' = NoReply
    /\ UNCHANGED <<drawn, call>>

Return(w, v) ==
    /\ Goto(w, "idle")
    /\ reply' = Answer(w, Request(call[w]), v)
    /\ call' = [call EXCEPT ![w] = NoCall]
    /\ UNCHANGED drawn

\* Mutant of Commit: the transaction stays open.
CommitForgotten(w) ==
    /\ pc[w] = "commit"
    /\ Return(w, 1)
    /\ UNCHANGED engine

Commit(w) ==
    /\ pc[w] = "commit"
    /\ CommitTrx(w)
    /\ Return(w, 1)

\* Mutant of Rollback: the command is tried again.
RollbackRetries(w) ==
    /\ pc[w] \in {"rollback", "fail"}
    /\ Goto(w, "data")
    /\ reply' = NoReply
    /\ UNCHANGED <<engine, drawn, call>>

Rollback(w) ==
    /\ pc[w] \in {"rollback", "fail"}
    /\ RollbackTrx(w)
    /\ Return(w, IF pc[w] = "rollback" THEN 0 ELSE Err)

Step(w) == \/ InsertHead(w) \/ WriteData(w) \/ WriteHead(w)
           \/ LockTimeout(w) \/ Commit(w) \/ Rollback(w)

Take(w) == \E k \in Key :
    \/ \E v \in Val :
          \/ /\ w \in Writers[k]
             /\ \/ \E s \in Score : ZAdd(w, k, v, s) \/ ZAddKnown(w, k, v, s)
                \/ ZRem(w, k, v)
                \/ ZRemUnknown(w, k, v)
          \/ ZScore(w, k, v)
    \/ ZCard(w, k)
    \/ \E min, max \in Bound : ZCount(w, k, min, max)

\* The server is killed, and main starts it again.
Restart ==
    /\ RecoverTrx
    /\ pc' = [w \in Worker |-> "idle"]
    /\ call' = [w \in Worker |-> NoCall]
    /\ reply' = NoReply
    /\ \/ "fresh" \in Seeds /\ UNCHANGED drawn
       \/ "repeated" \in Seeds /\ drawn' = {}

Next == Restart \/ \E w \in Worker : Take(w) \/ Step(w)

Spec == Init /\ [][Next]_vars

\* A worker thread keeps running, and the engine ends every lock wait.
Fairness == \A w \in Worker : WF_vars(Step(w))
FairSpec == Spec /\ Fairness

-----------------------------------------------------------------------------
TypeOK ==
    /\ \A t \in {committed, current} :
           /\ DOMAIN t = Row
           /\ \A k \in Key : t[HeadRow(k)] \in Heads \cup {NoRow}
           /\ \A r \in DataRows : t[r] \in Score \cup {NoRow}
    /\ lock \in [Row -> Worker \cup {Free}]
    /\ pc \in [Worker -> {"idle", "newhead", "data", "head", "commit",
                           "rollback", "fail"}]
    /\ drawn \subseteq Id
    /\ \A w \in Worker : (pc[w] = "idle") = (call[w] = NoCall)

Members(k) == {v \in Val : Found(k, v)}

(***************************************************************************)
(* "`zsets' contains zset unique IDs and cardinalities".                   *)
(***************************************************************************)
CardinalityIsTrue ==
    \A k \in Key : Exists(k) =>
        committed[HeadRow(k)].count = Cardinality(Members(k))

\* "zset unique IDs".  Not with repeated seeds; proved for all others.
IdsAreUnique ==
    \A j, k \in Key : Exists(j) /\ Exists(k) /\ j # k =>
        committed[HeadRow(j)].id # committed[HeadRow(k)].id

\* No element outlives its sorted set: an orphan would be counted by the
\* ZCOUNT of another key and found again by a key that draws its id.
NoOrphans ==
    \A i \in Id, v \in Val : committed[DataRow(i, v)] # NoRow =>
        \E k \in Key : Exists(k) /\ committed[HeadRow(k)].id = i

\* With one writer per key, across restarts.
ZSetsWellFormed == CardinalityIsTrue /\ NoOrphans

\* ZCOUNT counts elements of the key it is asked for ("ZCOUNT x 1 10,
\* expecting 10" after ten ZADD to x with these scores, test-zset.sh).
ZCountCountsTheKey ==
    \A k \in Key : Exists(k) => \A min, max \in Bound :
        CountFrom(committed, committed[HeadRow(k)].id, min, max)
            = Cardinality({v \in Members(k) :
                  Kept[committed[DataRow(committed[HeadRow(k)].id, v)]] \in min .. max})

(***************************************************************************)
(* With one writer per key the tables implement AtomicZSet: what a command *)
(* acknowledged is there for every later command and after every restart,  *)
(* and a command cut short by a restart has happened entirely or not.      *)
(***************************************************************************)
Abstract == INSTANCE AtomicZSet WITH
    zset <- [k \in Key |-> [v \in Members(k) |->
                Kept[committed[DataRow(committed[HeadRow(k)].id, v)]]]]

ImplementsAtomicZSet == Abstract!Spec

(***************************************************************************)
(* Whatever the conflicts, a worker that has replied owns no row, and a    *)
(* row nobody owns is not half written.                                    *)
(***************************************************************************)
NothingLeftBehind ==
    /\ \A w \in Worker : pc[w] = "idle" => view[w] = NoTrx /\ \A r \in Row : lock[r] # w
    /\ \A r \in Row : lock[r] = Free => current[r] = committed[r]

\* zadd and zrem lock their rows in an order that admits no deadlock: of the
\* workers in commands one can always go on, unless a new sorted set has the
\* id of another command's (which takes a repeated seed).
NoDeadlock ==
    \A W \in SUBSET {w \in Worker : pc[w] # "idle"} : W # {} =>
        \/ \E w \in W : \A u \in W \ {w} : ~WaitsFor(w, u)
        \/ \E u, w \in W : u # w /\ call[u].count = 0 /\ call[w].id = call[u].id

\* ZADD never changes the score of an element that is there, whatever races.
ScoresStay ==
    [][\A r \in DataRows : committed[r] # NoRow /\ committed'[r] # NoRow
           => committed'[r] = committed[r]]_vars

\* Every command is answered.
EveryCommandReturns == \A w \in Worker : pc[w] # "idle" ~> pc[w] = "idle"

\* Whatever the conflicts, a command that is past the creation of a head row
\* is answered: only that loop of zadd can hold a worker for ever.
OnlyNewKeysHang ==
    \A w \in Worker : pc[w] \notin {"idle", "newhead"} ~> pc[w] = "idle"
=============================================================================
