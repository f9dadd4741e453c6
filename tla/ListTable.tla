------------------------------ MODULE ListTable ------------------------------
(***************************************************************************)
(* LPUSH, RPUSH, LPOP, RPOP, LRANGE and LLEN as the worker threads run     *)
(* them (listtable.cc).                                                    *)
(*                                                                         *)
(* Two tables: `lists' has a row per key with the ids of the first and the *)
(* last element and their number; `lists-data' has a row per element with  *)
(* its value and the ids of its neighbours, 0 for none.                    *)
(*                                                                         *)
(* A command reads everything it decides on in the snapshot of its         *)
(* transaction; what is left is a list of statements (todo) whose outcomes *)
(* the code does not look at.  A statement names a key or an id; its       *)
(* cursor is positioned when it runs, on the first row at or after it      *)
(* (IB_CUR_GE), and find_row does not tell whether that is the row asked   *)
(* for.                                                                    *)
(***************************************************************************)
EXTENDS Integers, Sequences, FiniteSets, SequencesExt, Functions

CONSTANTS Worker,
          Key,        \* keys, as naturals in the order of the index
          Id,         \* the ids rand() may draw, each once: positive naturals,
                      \* as many as a behaviour has pushes
          Val, NoVal, \* values, and the empty one of a row that was not read
          Position,   \* the positions clients ask LRANGE for
          Writers,    \* the workers that push to and pop from each key
          PopMissing, \* whether clients pop keys that hold no list
          NoRow, Free, NoTrx

ASSUME KeyAssumption == Key \subseteq Nat
ASSUME IdAssumption == Id \subseteq Nat \ {0} /\ IsFiniteSet(Id)
ASSUME PositionAssumption == Position \subseteq Int
ASSUME WritersAssumption == Writers \in [Key -> SUBSET Worker]
ASSUME PopMissingAssumption == PopMissing \in BOOLEAN
ASSUME FreeAssumption == Free \notin Worker

Lists(k) == <<"lists", k>>
Data(i) == <<"lists-data", i>>
Row == {Lists(k) : k \in Key} \cup {Data(i) : i \in Id}

VARIABLES committed, current, lock, view,   \* HailDB
          drawn,   \* the ids rand() has drawn
          todo,    \* the statements each worker has still to run
          answer,  \* the command that writes it is in, and the reply to come
          reply    \* the reply the last step wrote, if any, with its command

INSTANCE HailDB

\* No command, or no reply: no record of an answer.
NoReply == [kind |-> "none"]

engine == <<committed, current, lock, view>>
vars == <<committed, current, lock, view, drawn, todo, answer, reply>>

Init ==
    /\ EngineInit
    /\ drawn = {}
    /\ todo = [w \in Worker |-> <<>>]
    /\ answer = [w \in Worker |-> NoReply]
    /\ reply = NoReply

Answer(w, request, v) == [to |-> w, request |-> request, val |-> v]

Busy(w) == answer[w] # NoReply

\* A worker takes a command to which it will reply v.
Begin(w, request, v) ==
    /\ ~Busy(w)
    /\ answer' = [answer EXCEPT ![w] = Answer(w, request, v)]
    /\ reply' = NoReply

-----------------------------------------------------------------------------
\* What the columns hold: an id, or 0 for none.
Ref == Id \cup {0}
HeadRows == [head : Id, tail : Id, count : 1 .. Cardinality(Id)]
DataRows == [val : Val, prev : Ref, next : Ref]

ASSUME NoRowAssumption == NoRow \notin HeadRows \cup DataRows \cup Row

\* The row a cursor with the contents `sees' finds at or after x.
PositionGE(sees, table, x) ==
    LET after == {r \in Row : r[1] = table /\ r[2] >= x /\ sees[r] # NoRow}
    IN  IF after = {} THEN NoRow
        ELSE CHOOSE r \in after : \A s \in after : r[2] <= s[2]

\* ListTable::read: a row that is not there reads as zeros.
ReadGE(sees, i) ==
    LET r == PositionGE(sees, "lists-data", i)
    IN  IF r = NoRow THEN [val |-> NoVal, prev |-> 0, next |-> 0] ELSE sees[r]

\* What get_cursor and read return for a key: zeros when it has no list.
ReadHead(sees, k) ==
    IF sees[Lists(k)] = NoRow THEN [head |-> 0, tail |-> 0, count |-> 0]
                              ELSE sees[Lists(k)]

-----------------------------------------------------------------------------
Ends == {"head", "tail"}
Other(end) == IF end = "head" THEN "tail" ELSE "head"

\* From the element at an end: the column that points to the next one
\* inside, and the column that points outside.
Inward(end) == IF end = "head" THEN "next" ELSE "prev"
Outward(end) == IF end = "head" THEN "prev" ELSE "next"

\* Mutant of Element: both pointers are 0.
ElementAlone(end, v, old) == [val |-> v, prev |-> 0, next |-> 0]

\* A new element beyond the old end.
Element(end, v, old) ==
    IF end = "head" THEN [val |-> v, prev |-> 0, next |-> old]
                    ELSE [val |-> v, prev |-> old, next |-> 0]

\* The statements: ListTable::update_row and delete_row,
\* ListHeadTable::insert_row and update_row.
Link(i, col, to) == [op |-> "link", at |-> i, col |-> col, to |-> to]
Unlink(i) == [op |-> "unlink", at |-> i]
NewHead(k, row) == [op |-> "newhead", at |-> k, row |-> row]
SetHead(k, row) == [op |-> "sethead", at |-> k, row |-> row]

(***************************************************************************)
(* lpush and rpush: get_cursor and the insert of the element.  The id is   *)
(* new, so the insert waits for nobody and is part of this step.    Both   *)
(* ListTable::insert_row and the caller link the old end to the new one.   *)
(***************************************************************************)
Push(w, k, end, v) ==
    /\ Begin(w, <<"push", k, end, v>>, ReadHead(committed, k).count + 1)
    /\ LET h == ReadHead(committed, k)
           old == h[end]
       IN  \E i \in Id \ drawn :
             LET link == Link(old, Outward(end), i)
             IN  /\ drawn' = drawn \cup {i}
                 /\ BeginTrxWriting(w, Data(i), Element(end, v, old))
                 /\ todo' = [todo EXCEPT ![w] =
                        IF committed[Lists(k)] = NoRow
                        THEN <<NewHead(k, [head |-> i, tail |-> i, count |-> 1])>>
                        ELSE (IF old # 0 THEN <<link>> ELSE <<>>)
                             \o <<link, SetHead(k, [h EXCEPT ![end] = i, !.count = @ + 1])>>]

\* lpop and rpop: get_cursor and the read of the element.  A key that has
\* no list is treated as a list whose element has id 0.
Pop(w, k, end) ==
    /\ UNCHANGED drawn
    /\ PopMissing \/ committed[Lists(k)] # NoRow
    /\ BeginTrx(w)
    /\ LET h == ReadHead(committed, k)
           item == ReadGE(committed, h[end])
           next == item[Inward(end)]
           left == IF h.count = 0 THEN 0 ELSE h.count - 1
           shrunk == [h EXCEPT ![end] = next, !.count = left,
                               ![Other(end)] = IF next = 0 THEN 0 ELSE @]
       IN  /\ Begin(w, <<"pop", k, end>>, item.val)
           /\ todo' = [todo EXCEPT ![w] =
                  (IF next # 0 THEN <<Link(next, Outward(end), 0)>> ELSE <<>>)
                  \o <<Unlink(h[end]), SetHead(k, shrunk)>>]

-----------------------------------------------------------------------------
\* A read-only command: one snapshot, no row changed, whether the code rolls
\* back or (llen of a key without a list) forgets to, which leaves open a
\* transaction that owns nothing and that no command uses again.
ReadOnly(w, request, v) ==
    /\ ~Busy(w)
    /\ reply' = Answer(w, request, v)
    /\ UNCHANGED <<engine, drawn, todo, answer>>

LLen(w, k) == ReadOnly(w, <<"llen", k>>, ReadHead(committed, k).count)

\* Mutant of RangeFrom: the value at `stop' is left out.
RangeFromExclusive(sees, head, start, stop) ==
    LET walk[pos \in Nat] == [i \in Ref |->
            IF i = 0 \/ pos >= stop THEN <<>>
            ELSE LET item == ReadGE(sees, i)
                 IN  (IF pos >= start THEN <<item.val>> ELSE <<>>)
                     \o walk[pos + 1][item.next]]
    IN  walk[0][head]

\* The loop of lrange, 0 <= start <= stop: the values from position start
\* to stop on the way from element `head'.
RangeFrom(sees, head, start, stop) ==
    LET walk[pos \in Nat] == [i \in Ref |->
            IF i = 0 \/ pos > stop THEN <<>>
            ELSE LET item == ReadGE(sees, i)
                 IN  (IF pos >= start THEN <<item.val>> ELSE <<>>)
                     \o walk[pos + 1][item.next]]
    IN  walk[0][head]

\* A negative start is an error, written <<NoVal>> here.
LRange(w, k, start, stop) ==
    LET h == ReadHead(committed, k)
        last == IF stop < 0 THEN stop + h.count ELSE stop
    IN  ReadOnly(w, <<"lrange", k, start, stop>>,
                 IF start < 0 THEN <<NoVal>>
                 ELSE IF last < start THEN <<>>
                 ELSE RangeFrom(committed, h.head, start, last))

-----------------------------------------------------------------------------
\* The row a statement acts on, as its worker finds it.
Target(w, s) ==
    LET sees == [r \in Row |-> Sees(w, r)]
    IN  IF s.op = "newhead" THEN Lists(s.at)
        ELSE PositionGE(sees, IF s.op = "sethead" THEN "lists" ELSE "lists-data", s.at)

\* Mutant of Outcome: the row of an emptied list stays.
OutcomeKeepsEmpty(w, s) ==
    CASE s.op = "link"    -> [Sees(w, Target(w, s)) EXCEPT ![s.col] = s.to]
      [] s.op = "unlink"  -> NoRow
      [] OTHER            -> s.row

\* What the statement is to leave there; a list without elements has no row.
Outcome(w, s) ==
    CASE s.op = "link"    -> [Sees(w, Target(w, s)) EXCEPT ![s.col] = s.to]
      [] s.op = "unlink"  -> NoRow
      [] s.op = "newhead" -> s.row
      [] s.op = "sethead" -> IF s.row.count = 0 THEN NoRow ELSE s.row

\* There is no row to change, or no change to make.
NothingToDo(w, s) ==
    \/ Target(w, s) = NoRow
    \/ /\ Target(w, s) # NoRow /\ s.op # "newhead"
       /\ Outcome(w, s) = Sees(w, Target(w, s))

\* An update writes the columns in which the two versions differ, to the
\* row as it is now.
Merge(now, seen, new) ==
    IF new = NoRow THEN NoRow
    ELSE [col \in DOMAIN now |-> IF new[col] = seen[col] THEN now[col] ELSE new[col]]

Skip(w) == UNCHANGED engine

Apply(w, s) ==
    LET r == Target(w, s)
    IN  IF s.op = "newhead"
        THEN IF current[r] = NoRow THEN WriteRow(w, r, s.row) ELSE Skip(w)
        ELSE IF current[r] = NoRow THEN Skip(w)
             ELSE WriteRow(w, r, Merge(current[r], Sees(w, r), Outcome(w, s)))

\* Mutant of Execute: a statement that fails is run again.
ExecuteUntilDone(w) ==
    /\ todo[w] # <<>>
    /\ LET s == Head(todo[w])
       IN  \/ NothingToDo(w, s) /\ Skip(w) /\ todo' = [todo EXCEPT ![w] = Tail(@)]
           \/ /\ ~NothingToDo(w, s)
              /\ CanLock(w, Target(w, s))
              /\ Apply(w, s)
              /\ todo' = IF UNCHANGED engine THEN todo
                         ELSE [todo EXCEPT ![w] = Tail(@)]
    /\ reply' = NoReply
    /\ UNCHANGED <<drawn, answer>>

\* The next statement of a command, when the engine lets it run.  Its
\* result is not looked at.
Execute(w) ==
    /\ todo[w] # <<>>
    /\ LET s == Head(todo[w])
       IN  \/ NothingToDo(w, s) /\ Skip(w)
           \/ /\ ~NothingToDo(w, s)
              /\ CanLock(w, Target(w, s))
              /\ Apply(w, s)
    /\ todo' = [todo EXCEPT ![w] = Tail(@)]
    /\ reply' = NoReply
    /\ UNCHANGED <<drawn, answer>>

\* w waits for a row that u has locked.
WaitsFor(w, u) ==
    /\ todo[w] # <<>>
    /\ ~NothingToDo(w, Head(todo[w]))
    /\ lock[Target(w, Head(todo[w]))] = u

\* The engine ends a wait with DB_LOCK_WAIT_TIMEOUT: the statement has no
\* effect and the command goes on.
LockTimeout(w) ==
    /\ \E u \in Worker \ {w} : WaitsFor(w, u)
    /\ todo' = [todo EXCEPT ![w] = Tail(@)]
    /\ reply' = NoReply
    /\ UNCHANGED <<engine, drawn, answer>>

\* The engine breaks a deadlock: it rolls the transaction back, and every
\* statement the command goes on to run in it fails.
Deadlock(w) ==
    /\ \E u \in Worker \ {w} : WaitsFor(w, u) /\ WaitsFor(u, w)
    /\ RollbackTrx(w)
    /\ todo' = [todo EXCEPT ![w] = <<>>]
    /\ reply' = NoReply
    /\ UNCHANGED <<drawn, answer>>

\* Mutant of Commit: the transaction stays open.
CommitForgotten(w) ==
    /\ Busy(w) /\ todo[w] = <<>>
    /\ reply' = answer[w]
    /\ answer' = [answer EXCEPT ![w] = NoReply]
    /\ UNCHANGED <<engine, drawn, todo>>

\* Table::commit and the reply.
Commit(w) ==
    /\ Busy(w) /\ todo[w] = <<>>
    /\ CommitTrx(w)
    /\ reply' = answer[w]
    /\ answer' = [answer EXCEPT ![w] = NoReply]
    /\ UNCHANGED <<drawn, todo>>

Step(w) == Execute(w) \/ LockTimeout(w) \/ Deadlock(w) \/ Commit(w)

Take(w) == \E k \in Key :
    \/ w \in Writers[k] /\ \E end \in Ends :
           Pop(w, k, end) \/ \E v \in Val : Push(w, k, end, v)
    \/ LLen(w, k)
    \/ \E start, stop \in Position : LRange(w, k, start, stop)

\* The server is killed, and main starts it again (at another second than
\* before: srand(time(0)) leads rand() to new ids).
Restart ==
    /\ RecoverTrx
    /\ todo' = [w \in Worker |-> <<>>]
    /\ answer' = [w \in Worker |-> NoReply]
    /\ reply' = NoReply
    /\ UNCHANGED drawn

Next == Restart \/ \E w \in Worker : Take(w) \/ Step(w)

Spec == Init /\ [][Next]_vars

\* A worker thread keeps running, and the engine ends every lock wait.
Fairness == \A w \in Worker : WF_vars(Step(w))
FairSpec == Spec /\ Fairness

-----------------------------------------------------------------------------
TypeOK ==
    /\ \A t \in {committed, current} :
           /\ DOMAIN t = Row
           /\ \A k \in Key : t[Lists(k)] \in HeadRows \cup {NoRow}
           /\ \A i \in Id : t[Data(i)] \in DataRows \cup {NoRow}
    /\ lock \in [Row -> Worker \cup {Free}]
    /\ \A w \in Worker : view[w] # NoTrx => DOMAIN view[w] = Row
    /\ \A w \in Worker : ~Busy(w) => todo[w] = <<>>

\* The ids of the elements from i on, along `next'.
ChainFrom(sees, i) ==
    LET chain[n \in 0 .. Cardinality(Id)] == [j \in Ref |->
            IF j = 0 \/ n = 0 \/ sees[Data(j)] = NoRow THEN <<>>
            ELSE <<j>> \o chain[n - 1][sees[Data(j)].next]]
    IN  chain[Cardinality(Id)][i]

Chain(k) == ChainFrom(committed, ReadHead(committed, k).head)

(***************************************************************************)
(* "`lists' contains head and tail pointers to list elements", "`lists-    *)
(* data' contains list elements, with prev/next pointers": the elements of *)
(* a key form one doubly linked chain from its head to its tail, as long   *)
(* as its count, and every element is on the chain of exactly one key.     *)
(***************************************************************************)
ListsWellFormed ==
    /\ \A k \in Key : committed[Lists(k)] # NoRow =>
           LET h == committed[Lists(k)]
               c == Chain(k)
               n == Len(c)
           IN  /\ n > 0 /\ h.head = c[1] /\ h.tail = c[n] /\ h.count = n
               /\ \A j \in 1 .. n :
                      /\ committed[Data(c[j])].prev = (IF j = 1 THEN 0 ELSE c[j - 1])
                      /\ committed[Data(c[j])].next = (IF j = n THEN 0 ELSE c[j + 1])
    /\ \A i \in Id : committed[Data(i)] # NoRow =>
           Cardinality({k \in Key : i \in ToSet(Chain(k))}) = 1

(***************************************************************************)
(* With one writer per key, the tables implement AtomicList: what a        *)
(* command acknowledged is there for every later command and after every   *)
(* restart, and a command cut short by a restart has happened entirely or  *)
(* not at all.                                                             *)
(***************************************************************************)
ListOf(k) == LET c == Chain(k) IN [j \in DOMAIN c |-> committed[Data(c[j])].val]

Abstract == INSTANCE AtomicList WITH list <- [k \in Key |-> ListOf(k)]

ImplementsAtomicList == Abstract!Spec

(***************************************************************************)
(* Whatever the conflicts, a worker that has replied owns no row, and a    *)
(* row nobody owns is not half written.  (A transaction that only read may *)
(* stay open: the one of llen, of a key that has no list.)                 *)
(***************************************************************************)
NothingLeftBehind ==
    /\ \A w \in Worker : ~Busy(w) => \A r \in Row : lock[r] # w
    /\ \A r \in Row : lock[r] = Free => current[r] = committed[r]

\* Every command is answered, in spite of locks, timeouts and deadlocks.
EveryCommandReturns == \A w \in Worker : Busy(w) ~> ~Busy(w)
=============================================================================
