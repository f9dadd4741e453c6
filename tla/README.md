# LycaDB in TLA+

LycaDB is a server that speaks the Redis protocol and stores its data in six
tables of HailDB, an embedded InnoDB. This directory holds a specification of
it, translated from `src/src/*.cc`, the TLC instances that check it and
machine-checked proofs about its tables, its dispatcher and the whole program. All
paths below are relative to the repository; its sources are under `src/src`.

## 1. The system

| Component | Source | State | Operations |
|---|---|---|---|
| main table | `kvtable.cc`, `table.cc` | rows key → value | GET, SET, DEL, INCR, DECR |
| sets | `settable.cc` | rows (key, member), no other column | SADD, SREM, SISMEMBER, SMEMBERS |
| lists | `listtable.cc` | `lists`: key → head id, tail id, count; `lists-data`: id → value, prev, next | LPUSH, RPUSH, LPOP, RPOP, LLEN, LRANGE |
| sorted sets | `zsettable.cc` | `zsets`: key → id, cardinality; `zsets-data`: (id, value) → score, with an index (id, score) | ZADD, ZREM, ZCARD, ZSCORE, ZCOUNT |
| engine (HailDB) | external | rows, row locks, transactions, undo and redo logs | begin, read, insert, update, delete, commit, rollback, recovery |
| Dispatcher | `dispatcher.cc`, `store.cc` | verb → handler | arity check, call of the table, choice of the reply |
| Server, Worker, Client | `net.cc` | listening socket, one event loop per worker thread, one parser per connection | accept, hand over by pipe, read, reply |
| Parser | `protocol.cc`, `cmd.cc` | two nested state machines, argument buffers | consume a byte |
| Store start-up | `store.cc`, `lycadb.cc` | the tables that exist | load, install |
| Reply, str, Config | `reply.cc`, `str.cc`, `config.cc` | none that others observe | format and write, compare, read |

**How they interact.** The main thread accepts connections and passes each
one, in turn, to a worker thread through a pipe. A worker runs an event loop;
when bytes arrive it feeds the connection's parser, which calls back with a
complete command. The command runs to its end in that callback (`Client::on_cmd`):
the dispatcher calls one method of one table, the table opens *one engine
transaction*, and the reply is written after the transaction is closed. So a
worker runs one command at a time, the workers share nothing but the engine,
and every interleaving that matters is one of engine calls of different
transactions.

**What is hard.** A transaction is `IB_TRX_REPEATABLE_READ` and no cursor asks
for locks: reads come from a snapshot, writes act on the current row. What a
command computes from its reads may be stale when it writes. A write waits for
the row's owner, and `lycadb.conf` does not set `rollback_on_timeout`, so a wait that times
out fails one statement and leaves the transaction open; many call sites ignore the result of a
statement. The process can be killed between any two engine calls.

Around the tables: the bytes of a connection come in pieces that have nothing to do with
the commands in them. The order of the dispatcher's map is no order (`str::operator<`
compares common prefixes only). A worker that is held, by a command that never ends or
by a reply that nobody reads, is given connections like the others, and once its pipe is
full it holds the main thread as well. Descriptors are reused as soon as they are closed.
`main()` looks at no result of the start-up. SIGINT sets a flag that the loop reads at one point
only, and SIGPIPE ends the process.

**What correctness means.**

- *main*: GET, SET and DEL are linearizable; a command that fails has no
  effect; what an INCR replies is what it stores; nobody writes a row without its lock.
- *sets*: of several clients that add (remove) one member, exactly one is told 1.
- *lists*: the elements of a key are one doubly linked chain from head to
  tail; every element is on one chain; commands are atomic on a sequence.
- *sorted sets*: the stored cardinality is true, ids are unique, no element
  outlives its set, scores do not change behind ZADD's back; commands are
  atomic on a map; every command returns.
- *all tables*: a worker that has replied owns no lock; what was acknowledged
  survives a restart, what was not finished leaves no trace.
- *connection*: however the bytes are cut into reads, the commands run are the commands sent,
  in their order, and only buffers that were allocated are freed, until a word is empty (§3). *Dispatcher*: which handler a verb
  gets does not depend on the shape of the tree. *Start-up*: the server runs on
  all the tables or on none. *Server*: each open descriptor has one owner, a
  worker serves the peer that asked; connections are accepted and requests answered unless
  the worker they need is held.

## 2. Modules

| Module | What it is |
|---|---|
| `HailDB` | the engine's operations: snapshot, lock, write, commit, rollback, recovery |
| `KVValues` | values of `main` and the `int` arithmetic of INCR |
| `KVTable`, `AtomicKV` | the main table; what it promises |
| `SetTable`, `AtomicSet` | the sets; what they promise |
| `ListTable`, `AtomicList` | the lists; what they promise |
| `ZSetTable`, `AtomicZSet` | the sorted sets; what they promise |
| `Scores`, `Numerals` | a score as the text its row keeps; decimal digits |
| `Protocol` | the parser of a connection, byte by byte |
| `Dispatcher`, `Handlers` | the map from verbs to handlers; the table it is built from |
| `Client`, `RequestStream` | a connection: peer, reads, parser, dispatcher; what it promises |
| `StoreBoot` | the start of the store: load, install |
| `Server` | main thread, pipes, workers, descriptors |
| `LycaDB` | the program: `StoreBoot` and `Server`, and how they end |
| `*_proofs` | theorems about the module they are named after (`ZSetAtomic_proofs`: about `ZSetTable` with one writer per key; `Client_proofs`: also about `Dispatcher`), checked by TLAPS |
| `MC*` | the values of constants TLC needs and a `.cfg` file cannot write |

Every table module instantiates `HailDB` with its own set of rows, and adds a
control state per worker. `Client` extends `Protocol`, `Dispatcher` and `Handlers`;
`LycaDB` extends `StoreBoot` and `Server`. The three parts meet in the worker: `Server`
says when a worker is in a command, `Client` which command that is, and a table module what it
does there. In `LycaDB` a request is named after the table its command uses, and a
request in `Spinning` may never end, as the ZADD of `zset_spin` does not.

**Engine.** `committed` is what a new snapshot sees, `current` what was last
written, `lock` who owns each row, `view` each transaction's snapshot. A
transaction is named by its worker. `Sees` is a cursor's read: the worker's
own write, or the snapshot. A statement waits (is not enabled) until `CanLock`;
`LockTimeout` actions end a wait without an effect, `Deadlock` (lists) rolls
the victim back. `RecoverTrx` is the restart of a killed server: with
`flush_log_at_trx_commit 2` (`lycadb.conf`) a commit has reached the operating
system, so it survives the death of the process (not that of the machine).

**KVTable.** A command that only reads is one step, because a snapshot is one
instant. A command that writes goes `idle` → `write` → `commit` or `rollback` → `idle`:
`GetCursor` is `Table::get_cursor`, `Write` is `insert_row`, `update_row` or
`ib_cursor_delete_row` with their three outcomes (written, nothing to write,
duplicate or vanished row), `Commit` and `Rollback` are the two exits with the
dispatcher's reply. `call` and the worker's `view` are the locals of the C++ method.

**SetTable** has the same shape with rows that are only there or not.

**ListTable.** A push or pop decides everything in its snapshot and then runs
up to three statements; `todo` is the list of those left, each positioned on
the first row at or after its id (`IB_CUR_GE`) when it runs, as `find_row`
does. `Execute` runs one, and like the code goes on whatever its result.
`Merge` is what an update does to a row that differs from the one it was
computed from: it writes the columns that change. New elements have fresh ids
(`drawn`), so their insert waits for nobody and belongs to the step that takes
the command.

**ZSetTable.** `newhead` is the loop of `zadd` that inserts the head row of a new key:
it leaves only when the insert succeeds. `WriteData` writes the row of the
element, `WriteHead` the cardinality, whose result the code ignores. `Call`
holds what the command read of the head. `drawn` are the ids `rand()` will not
draw again in this life of the process; `Order` is the order of a command's
writes, and the code leaves it early for `rollback` (the value turns out to be
there: 0) or `fail` (an error). A restart with a `"repeated"` seed
(`srand(time(0))` within the second of an earlier start) empties it.

**Scores.** A row keeps a score as 16 characters, and a row of the model the score that stands
for them. `PadScore` is `pad_score`, `Earlier` the order in which the index has
the texts, `Kept` what `atof` reads back. On naturals of up to six digits
the texts are in the order of the numbers and are read back as they were; the text of −3 is
`00000000000000-3`, which is read back as 0.

**Client.** The peer puts commands into the socket (`Send`), in chunks or in a line, up to
`MaxAsked` without waiting; `Read` takes any number of bytes up to `BufSize`; `ConsumeByte` is a turn of
`Parser::consume`. At the end of a command `OnCmd` starts the lookup, `Lookup` is one comparison
in the map, and `RunCommand` runs the command and resets the parser. `outcomes` is the history of
what became of the commands. A word may be empty, in chunks (`CommandAssumption`); the verb too, though
no run sends one. In `Protocol` a buffer is `Raw` between the allocation of the
array of pointers and its own. Where `reset` would free one that is `Raw` (`FreesWhatItAllocated`) the C++ has no
meaning any more, and the worker of the model ends there.

**Dispatcher.** A `std::map` is a search tree whose shape the library decides. A lookup
keeps the range of entries it may still compare; `Probe` compares the verb with *any* of them.
The constructor's insertions (`Register`, `Probe`, `Insert`) are lookups too. `reads` in `Handlers`
is how many arguments a handler reads; one that was let through with fewer "strays".

**StoreBoot.** `boot` and `at` are the position in `load` or `install`; `disk` are the
tables that exist, `open` those the process knows. Creating a table may fail before or after the
table is there. `half` is a history variable: an install has left some of the tables and not all.

**Server.** The main thread goes `enter` → `wait` → `add` → `enter`; between `enter` and
`wait` it has looked at the break flag and does not see it again. `Accept` takes the lowest free
descriptor, or −1, which travels the same way to a worker and hears nothing there. `Add`
blocks while the pipe is full. A worker serves one by one the events that one poll found
(`active`). `stage` is `run` in a command, `held` in one that never ends, `blocked` in the
write of a reply. Descriptors and everything else go with the process (`ServerDies`).

**Replies.** `reply` is what a worker writes to its client, with the worker and
the request it answers, so that the refinements tell which command got which
answer: one for another key, value or range is not taken for the right one.
In `ListTable` and `ZSetTable` it is an event: every
step that writes no reply resets it to `NoReply`. In `KVTable` and `SetTable` it stays
until the next reply. Values are the numbers of the protocol where it sends
numbers (0 and 1 of SADD, SREM, ZADD, ZREM); an error is −1 and has no text.

## 3. Runs

| Run | Instance | What it shows |
|---|---|---|
| `kv_safety` | 2 workers, 1 key, `IntMax` 1, values 1 and a text, restarts | lock discipline, nothing left behind, implements `AtomicKV`, every command returns |
| `kv_incr` | 2 workers that INCR and DECR 1 key by 1, `IntMax` 3, no SET | **violation**: a committed sum is lost |
| `list_atomic` | 2 workers, 2 keys, one writer each, both read; 3 ids, 2 values, positions −1 and 1 | well-formed lists, implements `AtomicList`, with restarts |
| `list_conflict` | 2 writers on 1 key, 2 ids | nothing left behind, every command returns, through timeouts and deadlocks |
| `list_pop` | 1 worker, 2 keys, pops of missing keys | **violation**: another key's list is damaged |
| `set_safety` | 2 workers, 2 keys, 2 members, everything shared | a change is acknowledged once; implements `AtomicSet` |
| `zset_atomic` | 2 workers, 1 key, one writer, both read; 2 ids, 3 values, scores and bounds 2 and 10 | cardinalities, no orphans, implements `AtomicZSet`, with restarts that repeat ids |
| `zset_conflict` | 3 writers on 1 key, 2 ids, 1 value, restarts that repeat ids | nothing left behind, no deadlock, scores stay; only the creation of a key can hang |
| `zset_spin` | 2 writers on 1 key, 2 ids | **violation**: a ZADD to a new key hangs |
| `zset_count` | 2 keys | **violation**: ZCOUNT counts elements of the next sorted set |
| `client` | the 20 handlers, 8 commands with SET k "" among them, 2 sent ahead, reads of 1 or 2 bytes, a stray byte between commands | the commands run are the commands sent, whatever the tree; each is answered, unless a word is empty: then the parser comes to free a pointer that was never set, and in no other case |
| `server` | 2 workers, 2 tables, 2 descriptors, pipes of 1, 1 connection waiting | tables all or none; owners of descriptors; accepting, answering, stopping |

**Bounds and why they are enough.** Conflicts are between two transactions on
one row (`main`, sets) or on a handful of rows of one key; a third worker adds
waiting but no new pair. `IntMax` 1 makes the least int, the greatest one and both
wrap-arounds a step or two away from every value. Three list ids are the empty list,
the lone element, two ends and a middle; two keys that share `lists-data` are enough for one list to
touch another. Ids are a bound on the pushes (key creations) of a behaviour, and after a restart the
server goes on with the ids that are left. `MaxCount` bounds the size of a
sorted set; it never bites where `Val` has no more values. Scores 2 and 10 have texts of
different lengths, which only the filling keeps in order.

In `client`, the commands are one of each outcome (called, wrong number of arguments, stray, unknown),
a verb that is listed under another name (SETNX, which finds SET), a value made of the
bytes the parser looks for, and a word whose length has two digits; two commands make what one leaves
behind meet the next; a read of two bytes ends at every place of a command and spans the end of one.
SET k "" comes first, second, or is sent ahead and not begun. The run does not check for deadlock: it really
ends where the parser frees what it has not allocated.
In `server`, two tables make one before and one after a crash; a pipe of one is full with the first
descriptor; two descriptors are used up by two connections, and with one connection per worker, or two
at one worker, every worker may be held, the other not. A peer acts only once a worker has a Client for
it, because nobody looks at its bytes before, and a poll is one step with the first callback
after it. With `Spinning` equal to `Request` every request may be one that never ends.

*Symmetry and views.* `list_atomic` uses symmetry of the two values, which the list code only
copies and compares; `set_safety` has symmetry of workers and of members (its properties name none).
The views leave out what is written and never read: `reply` (`NoReplies`), and
in `list_conflict` also the reply to come (`NoAnswers`, its properties are about locks
and about being busy). States that differ there alone have the same
futures. A refinement under `NoReplies` stays checked on every step, because TLC evaluates
an action property on each transition it generates, with the reply of that very transition; the
reply of the state before is not part of any step of the abstract specification,
which writes `reply'` and never reads `reply`.

**One writer per key.** `list_atomic` and `zset_atomic` let one
worker write a key while others read it. That is the widest setting in
which the code keeps these promises: with `Writers <- MCSharedKeys` TLC finds
within seconds two LPUSH that leave an element on no list, and two ZADD after which the cardinality
is wrong; with two keys and a repeated seed, two sorted sets with one id. The
runs with shared keys therefore check what does hold under conflicts.

**Fairness.** `WF_vars(Step(w))` for each worker: a thread that is in a
command keeps running, and the engine ends each lock wait, by the lock or by a
timeout (`lock_wait_timeout`, `config.list`). Nothing is assumed of clients
(`Take` is not fair) nor of `Restart`. In `list_conflict` and `kv_safety` restarts happen during liveness checking; they
end a command, which is the weaker claim; the behaviours without restarts are
among those checked, and so it is in `zset_conflict`. `zset_spin` has none.

`client`: `WF_vars(Worker)`: the worker's thread runs and its event loop sees bytes that have
arrived. The peer need not send anything. `server`: weak fairness of the main thread
(`MainSteps`: the rest of a start, and the loop once it runs) and of each worker
(`WorkerSteps`), because each is a thread of its own that only blocking calls stop, and those
are guards. There is none for the peers, the signals, a kill, the next start, or the shutdown. A worker's
command is answered, blocked or held as it likes. The liveness properties name what may stop them:
a held worker (`Held`), the main thread at its pipe (`Stuck`), no free descriptor, the end
of the server. Fairness of whole steps does not prefer one callback: that each event of a poll
is served before the next poll is what makes `RequestsAreAnswered` hold, and it fails for a
loop that serves new clients, or old ones, first.

**The violations.**

- `kv_incr`: `KVTable::incr` adds to its snapshot's value (`kvtable.cc:142`). In the trace an INCR
  makes the row with 1; a second one of the same worker has written 2 and is about to commit when the other
  worker begins an INCR (or a DECR, which calls `incr`; TLC finds the one or the other) and reads 1. 2 is
  committed; the other worker then writes and commits what it made of 1, and the second INCR is lost.
  Nobody SETs or DELs in it, and no sum comes near `IntMax`: the property asks for the sum
  without wrapping around.
- `list_pop`: `ListTable::find_row` returns true on whatever row follows
  (`listtable.cc:98-103`); a pop of a missing key looks for id 0.
- `zset_spin`: `do {} while(!insert_row(...))` (`zsettable.cc:491`) repeats an
  insert that fails because another ZADD has created the key.
- `zset_count`: the loop in `ZSetTable::zcount` (`zsettable.cc:209`) compares
  scores only and walks into the next id.

**The empty value.** One defect is pinned by a run that passes. The value of SET k "" comes from a client of
Redis as `$0`, and `src/README.markdown:32` and `:64` promise the protocol of Redis to such clients. `NumParser` takes
no number that begins with 0 (`protocol.cc:39`), so the command is refused in the middle (`:249-252`), and
`reset()` deletes one pointer per word (`:96-97`), those included that no word was read for and that
`new char*[m_argc]` (`:150`) left unset. In `client`, the second half of `EveryCommandIsAnswered` says that a peer
that has sent an empty word always brings the parser there, and `OnlyEmptyWordsFreeWild` that nothing
else does. `FreesWhatItAllocated` is what the code ought to keep, and does not. All that the other properties of
the run say is said of the connection up to that point.

## 4. Proofs

`KVTable_proofs` proves, for every set of workers, keys, texts and for every
`IntMax`, under the named assumptions of `KVValues` and `KVTable` (the special
values are no ordinary values, clients send ints in range):

- `TypeCorrect`: `Spec => []TypeOK`;
- `LockDisciplineHolds`: `Spec => []LockDiscipline`;
- `NothingIsLeftBehind`: `Spec => []NothingLeftBehind`;
- `TableImplementsAtomicKV`: `Spec => ImplementsAtomicKV`, the refinement.

*The argument.* `NothingLeftBehind` is not inductive: to know that a worker
gives back all its locks one has to know which rows it can own. `LockDiscipline` says it: the
owner of a row is a worker about to commit, on the key of its command, the
row holds what the command is to leave, and the row it read and the committed
one both exist or both do not. With `TypeOK` this is inductive (checked by TLC
in `kv_safety` first), and one lemma per action proves its preservation. The refinement uses the same invariant: a commit
publishes exactly the abstract operation's result because the owner's row is the only one with
`lock[k] = w`, and a SET or DEL that committed did change the row. Lemmas about `Wrap`, `Num`
and `IncrOut` keep the arithmetic in range.

`SetTable_proofs` proves `TypeCorrect`, `NothingIsLeftBehind`, `EveryChangeIsOnesOwn`
(`ChangeIsMine`) and `TableImplementsAtomicSet`. The invariant says of the owner of
a row that it is about to commit a change of that row. That gives both the
acknowledgement (the member was not there, or was, at the commit) and the refinement.
`ScanFindsMembers` is the lemma about SMEMBERS: stopping at the first row of
another key yields the rows of the key, because keys are ordered.

`ListTable_proofs` proves `NothingIsLeftBehind` for lists with any number of writers of a
key: the lists lose elements and links under conflicts, but an idle worker has no statement left
and owns nothing, by way of every failure, timeout and deadlock. The other three theorems,

- `TypeCorrect`: `Spec => []TypeOK`, the columns of both tables included;
- `ListsAreWellFormed`: `Spec => []ListsWellFormed`;
- `TablesImplementAtomicList`: `Spec => ImplementsAtomicList`,

assume `OneWriter` (no two workers write the same key) and `PopMissing = FALSE` (nobody pops a
key that has no list), as the run `list_atomic` does. Without the second, `list_pop` refutes
`ListsWellFormed`; without the first, two pushes that read one snapshot lose a link.

*The argument.* What a push or pop is to leave is fixed when it is taken: `Changes(w)` are its
rows, `After(w, r)` what each is to hold. `AtomicInv` says (`Doing`) that such a row holds either
what the snapshot shows or what `After` says, that one which is not done yet belongs to a
statement of `todo` (`Left`), and that whoever owns a row is changing it (`Owned`). Commands of
different keys change different rows (`CommandsAreApart`), because an element is on one chain
only. So nobody waits, no statement finds its row gone (`NobodyWaits`), and a commit writes
`After` as a whole (`CommitWrites`). What is left is about sequences: a list is a sequence of rows of
which each names its neighbours (`ChainIs`), and `PushHead`, `PushTail`, `PopHead` and
`PopTail` give the sequence that each command makes of it. `ChainFrom` and `RangeFrom`, the loop of
LRANGE, are functions defined by recursion; that they deliver the sequence, or its part from
`start` to `stop`, is `RangeIs`, by the lemmas of `Numerals_proofs`.

`ZSetTable_proofs` is about the sorted sets whoever shares a key:

- `TypeCorrect`: `Spec => []TypeOK`;
- `NothingIsLeftBehind` and `ScoresNeverChange` (`ScoresStay`), repeated ids included. The
  invariant: the owner of a row of `zsets-data` is past its only write there, and the row is absent
  before it or after it.
- `NoCommandsDeadlock`: `Spec => []NoDeadlock`. A command waits for a row only while it has no
  later one in its `Order`: elements come before the head, but for the command that makes a key, which has the
  head first. That one waits on nobody, because nobody else has its id yet.
- `IdsStayUnique`: `"repeated" \notin Seeds => (Spec => []IdsAreUnique)`. `IdInv` follows an id from the
  draw: each one in use is claimed by at most one key, in what is committed or in what a transaction has
  written so far, and a command that has yet to write its head holds an id that nobody claims. A later
  write of a head changes the count alone, so it cannot carry an id to another key; and a count that
  is written is not 0, so a key that has a head is never taken for a new one. The theorem takes
  from the environment that `rand()` draws no id twice in the life of the process (`drawn`). No run checks
  `IdsAreUnique` by itself: `zset_atomic` has one key, and its restarts repeat seeds, with which it is false.

`ZSetAtomic_proofs` is about the same module with `OneWriter` and `IdsDiffer` (restarts do not repeat
a seed, or there is one key):

- `SetsAreWellFormed`: `Spec => []ZSetsWellFormed`;
- `TablesImplementAtomicZSet`: `Spec => ImplementsAtomicZSet`, for scores that are naturals of up
  to six digits, and either without ZCOUNT (`Bound = {}`) or with one key. Both limits are the
  code's: `zset_count` shows ZCOUNT walking into a second key, and a longer score is
  rounded when it is written.
- `PaddingIsFaithful`: a score is kept as its decimal digits, padded to 16 characters. For these
  scores the order of the texts, which the index uses, is the order of the numbers, and `Atof` reads back what
  was written.

The invariant again says that with one writer nobody waits (`RowsAreNotContended`) and no write fails
(`NoFailure`), and what the head and the element hold at each `pc`. `CommitMembers` is the arithmetic: the count a
commit publishes is the cardinality of the elements, because the one that comes was not there and the one that goes was.

`Numerals_proofs` has what both need of recursion. The library's induction rules take an operator, which
no installed prover can instantiate, so `Induct` states induction about a set of naturals (proved from the
least element, `LeastNat`), and `Recursion` that a function defined by
recursion exists and obeys its equation. `DecimalIs` and `SixDigits` apply it to decimal numerals.

`LycaDB_proofs` proves all five safety properties of the program, for every number of workers,
descriptors, tables and every size of a pipe. `StoreInv` ties `disk`, `open` and `at` together (the tables
before `at` are loaded, or created by this install; nothing exists at the start of
an install unless `half`), which gives `ServesAllOrNone` and `HalfStaysHalf`.
`ServerInv` has the types, that the main thread holds something exactly while it adds, and that an
event of the pipe that is still to be served finds the pipe not empty; it gives `TypeCorrect`.
`OwnerInv`, which adds `OpenHasOneOwner` and `ServesTheAsker`, is inductive. Every step
moves at most one descriptor from one owner to the next: that is the proof of
`DescriptorsHaveOneOwner`, and `CommandsServeTheAsker` follows because only the worker itself, which is
busy, closes its client's descriptor.

`Client_proofs` is about the dispatcher, then about the connection.

- `LookupsAreDetermined`, for any table of handlers. `operator<` is irreflexive and transitive
  (`LessTransitive`), though "not less either way" is no equivalence. `Sorted` is about neighbours; the
  invariant is about any two entries (`Ordered`), which transitivity keeps, and says of a lookup that
  all entries before its range are less than the verb and none behind it is (`SearchIsOn`). An
  insertion leaves the words of the map alone when it finds an equivalent one, and puts a new one where
  the walk has ended. `DispatcherSpec` is the dispatcher on its own, with lookups of any word;
  `LookupsStayDetermined` is the same of `Client`, where no word is empty (`NoEmptyWords`).
- `NoOtherWildFree`: `Spec => []OnlyEmptyWordsFreeWild`, for any table, commands over any bytes,
  empty words included, any noise between them (bytes that begin no command) and reads of any size. An
  empty word is thus the only way these peers have to a bad free: a command ends when all its
  words are read, and no byte of a command without empty words is refused.
- `TypeCorrect` and `ConnectionImplementsRequestStream` (`ImplementsRequestStream`), where no verb is
  the beginning of another (`NoPrefix`). This is needed: a verb that begins another is "equivalent" to
  it, is not inserted, and the map is shorter than the table. `HandlersDiffer` shows it of the table of
  the source: two of its verbs always differ within their first three bytes.
- `OnlySetReadsTooFar`: with the table of the source, `Spec => []OnlySetStrays`.

The last three and `LookupsStayDetermined` assume `NoEmptyWords`: that no command has an empty word.
With empty words they are only checked (`client`), up to the free that ends the behaviour.

The invariant is `NoEmptyWordYet => ClientInv`, with `asked` and `outcomes` histories that only grow
(`HistoriesGrow`), so that an empty word, once reached, is reached for good. `ClientInv` says where in
the stream the connection is. `Pending`: the bytes in
the buffer and in the socket are what is left of the command being read, then an encoding of each command that
was sent and not run, with noise behind each. `Position` says what the parser holds
when the bytes `r` of a command are still to come: the digits of a number (`NumAt`), the words it
has stored, and of the current one the bytes that, with the first of `r`, make up the
word. There is one lemma for a byte in each of its states (`LetterStep`, `StarStep`,
`ArgcStep`, `DollarStep`, `DataStep`, `CrStep`). A number is the only one with its numeral (`DecimalDiffers`)
and does not begin with 0 unless it is 0 (`NoLeadingZero`), so the parser reads back
the length that was written, and a word may hold any bytes, CR and LF included. A command ends with
the last byte of its encoding and not before (`ReadingLeft`, `CutInTwo`): that is why reads may cut the bytes
anywhere. `Looking` ties a lookup to the command that has ended, `Kept` the map to the table; with both,
the entry found is the one `OutcomeOf` names (`OutcomeIs`).

*Only model-checked*: liveness (out of the prover's reach), so that every command returns,
`EveryCommandIsAnswered`, `OnlyNewKeysHang` and the liveness of the server are claims about the
instances of the runs. Of `Scores`, what `Atof` and the padding do to anything but naturals of up to six
digits. What the violation runs refute is of course not proved, nor is anything of lists or sorted
sets whose key has several writers, beyond what is named above: there the code does not keep it.

## 5. Not modelled

- Gap locks and the shared lock a failed insert takes on the duplicate row;
  deadlocks of more than two transactions; engine errors other than those
  named (out of space, corrupt pages).
- `rand()` returning 0 or the same id twice in one life of the process. The text of a score that is a
  fraction or has more than six digits (it is rounded), and what follows a `CHAR(16)` column
  in memory when `atof` reads it.
- LLEN of a missing key forgets its transaction (`listtable.cc:768`): it owns
  no row, so nothing modelled changes.
- Peers that do not speak the protocol: a bare LF inside chunks (`protocol.cc:54`, `:193`),
  an empty line, spaces in a row, lengths beyond `int`. The parser's steps are in `Protocol`; no
  run sends such bytes, since what ought to become of them is stated nowhere.
- Errors of `socket()`, `bind`, `pipe`, `pthread_create` and `ib_startup`, whose results the code drops;
  a SIGINT before `event_base_dispatch`; short writes; the Client object made for a failed accept, which is never
  deleted; that the listening socket stays blocking (`net.cc:132` sets `F_SETFD`).
- What the engine does at its shutdown to transactions of workers that still run: taken for a crash.
- `flushall`, `ldump` and the benchmark code of `lycadb.cc`, which the server never calls.
- Reply formats, configuration syntax (`config.cc`), memory management.

## 6. Plan

1. *(done)* `HailDB`, `KVTable`, `AtomicKV`, proofs of `KVTable`.
2. *(done)* `SetTable`, `ListTable`, `ZSetTable` with their abstract specifications.
3. *(done)* `Protocol`, `Dispatcher`, `Client` with the abstract `RequestStream`, and proofs of all four.
4. *(done)* `StoreBoot`, `Server`, composed in `LycaDB`; proofs of its safety properties.
5. *(done in part)* `Scores`: naturals of up to six digits, and their order as texts. Left are fractions and rounding.
6. *(done)* Theorems: every safety property of a passing run and every refinement; those of `ListTable` and
   `ZSetTable` with one writer per key. Left are the fractions and the rounding of `Scores`, once modelled.
