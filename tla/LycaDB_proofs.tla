---------------------------- MODULE LycaDB_proofs ----------------------------
(***************************************************************************)
(* Theorems about LycaDB, for any number of tables, workers and            *)
(* descriptors and any capacity of the pipes.                              *)
(***************************************************************************)
EXTENDS LycaDB, SequenceTheorems, TLAPS

-----------------------------------------------------------------------------
\* The two halves of the next-state relation: what the store does while the
\* server is as it was, and the other way round.
ServerNext ==
    \/ MainThread \/ Peers \/ OnSigint
    \/ \E w \in Workers : WorkerThread(w) \/ Reply(w)
    \/ main' = "enter" /\ main = "off" /\ UNCHANGED <<broken, backlog, hand, cur, sock,
                              asks, pipe, clients, active, stage, job>>

\* Every step is one of the store, one of the server, or the end of both.
LEMMA StepsOfNext ==
    [Next]_vars => \/ Boot /\ UNCHANGED server
                   \/ ServerNext /\ UNCHANGED store
                   \/ BootDies /\ ServerDies
                   \/ UNCHANGED vars
BY DEF Next, vars, StoreStarts, ServerStarts, WorkerSteps, RunsCommand, NullCursor,
       DiesOfSigPipe, Exit, Kill, Dies, ServerNext, store, server

-----------------------------------------------------------------------------
\* The tables before position n.
Before(n) == {Tables[i] : i \in 1 .. n - 1}

(***************************************************************************)
(* Between two installs the tables are all there, or none, or the database *)
(* is known to be half installed; main, the first one, is there if any is, *)
(* and so an install of what is half installed ends at its first table.    *)
(***************************************************************************)
StoreInv ==
    /\ StoreTypeOK
    /\ half => Some(disk)
    /\ Some(disk) => half \/ boot = "install"
    /\ disk # {} => Tables[1] \in disk
    /\ boot = "down" => open = {}
    /\ boot = "load" => open = Before(at)
    /\ boot \in {"createDb", "install"} /\ half => at = 1
    /\ boot = "createDb" /\ ~half => at = 1 /\ open = {} /\ disk = {}
    /\ boot = "install" /\ ~half => open = Before(at) /\ disk = Before(at)
    /\ boot = "done" /\ ~half => open = disk

\* The first position is one; nothing is before it.
LEMMA FirstPosition == 1 \in DOMAIN Tables /\ Before(1) = {}
BY TablesAssumption, LenProperties DEF Before

\* Before the next position is one table more, up to all of them.
LEMMA NextPosition ==
    ASSUME NEW n \in DOMAIN Tables
    PROVE  /\ Before(n) \cup {Tables[n]} =
                  IF n = Len(Tables) THEN Table ELSE Before(n + 1)
           /\ n # Len(Tables) => n + 1 \in DOMAIN Tables
           /\ n # 1 => Tables[1] \in Before(n)
<1>1. DOMAIN Tables = 1 .. Len(Tables) /\ Len(Tables) \in Nat
  BY TablesAssumption, LenProperties
<1>2. n \in 1 .. Len(Tables)
  BY <1>1
<1>3. 1 .. n = (1 .. n - 1) \cup {n}
  BY <1>2, <1>1
<1> QED
  BY <1>1, <1>2, <1>3 DEF Before, Table

LEMMA StoreInvInit == BootInit => StoreInv
BY FirstPosition DEF BootInit, StoreInv, StoreTypeOK, Some

\* The store's own steps keep StoreInv, and tables come to no half database.
LEMMA StoreInvBoot ==
    ASSUME StoreInv, Boot
    PROVE  StoreInv' /\ (half => half' /\ disk' = disk)
<1> USE DEF StoreInv, StoreTypeOK
<1>1. CASE Startup
  BY <1>1, FirstPosition DEF Startup, Some
<1>2. CASE Load
  <2>1. CASE Tables[at] \in disk /\ open' = open \cup {Tables[at]}
               /\ IF Last THEN boot' = "done" /\ UNCHANGED at
                  ELSE at' = at + 1 /\ UNCHANGED boot
    BY <1>2, <2>1, NextPosition DEF Load, Last, Some, Table
  <2>2. CASE Tables[at] \notin disk /\ boot' = "createDb" /\ at' = 1 /\ UNCHANGED open
    BY <1>2, <2>2, NextPosition, FirstPosition DEF Load, Some, Table
  <2> QED
    BY <1>2, <2>1, <2>2 DEF Load
<1>3. CASE CreateDb
  BY <1>3, FirstPosition DEF CreateDb, Some
<1>4. CASE Create
  <2>1. CASE Tables[at] \notin disk /\ Created
    BY <1>4, <2>1, NextPosition, FirstPosition DEF Create, Created, Last, Some, Table
  <2>2. CASE NotCreated
    BY <1>4, <2>2, NextPosition, FirstPosition DEF Create, NotCreated, Some, Table
  <2> QED
    BY <1>4, <2>1, <2>2 DEF Create
<1> QED
  BY <1>1, <1>2, <1>3, <1>4 DEF Boot

LEMMA StoreInvDies ==
    ASSUME StoreInv, BootDies
    PROVE  StoreInv' /\ (half => half' /\ disk' = disk)
BY FirstPosition DEF StoreInv, StoreTypeOK, BootDies, Some

\* StoreInv is an invariant, and no step changes a half installed database.
LEMMA StoreInvStep ==
    ASSUME StoreInv, [Next]_vars
    PROVE  StoreInv' /\ (half => half' /\ disk' = disk)
<1>1. CASE UNCHANGED store
  BY <1>1 DEF StoreInv, StoreTypeOK, Some, store
<1> QED
  BY <1>1, StepsOfNext, StoreInvBoot, StoreInvDies DEF vars

\* What the server serves is all the tables or none, unless an install was
\* cut short (main() looks at the result of no install).
THEOREM ServesAllOrNone == Spec => []AllOrNone
<1>1. Init => StoreInv
  BY StoreInvInit DEF Init
<1>2. StoreInv /\ [Next]_vars => StoreInv'
  BY StoreInvStep
<1>3. StoreInv => AllOrNone
  BY DEF StoreInv, AllOrNone
<1> QED
  BY <1>1, <1>2, <1>3, PTL DEF Spec

\* A database that is half installed stays so through every later start.
THEOREM HalfStaysHalf == Spec => HalfInstalledForGood
<1>1. Init => StoreInv
  BY StoreInvInit DEF Init
<1>2. StoreInv /\ [Next]_vars => StoreInv' /\ [half => half' /\ disk' = disk]_vars
  BY StoreInvStep
<1> QED
  BY <1>1, <1>2, PTL DEF Spec, HalfInstalledForGood

-----------------------------------------------------------------------------
\* Types.  A worker of the pool follows each worker.
LEMMA NextWorker == \A n \in Workers : (n + 1) % Worker \in Workers
BY WorkerAssumption DEF Workers

(***************************************************************************)
(* A descriptor in the main thread's hand is on its way to a pipe, and a   *)
(* worker that is to read its pipe finds something in it.                  *)
(***************************************************************************)
ServerInv ==
    /\ ServerTypeOK
    /\ main = "add" <=> hand # NoFd
    /\ \A w \in Workers : PipeEnd \in active[w] => pipe[w] # <<>>

LEMMA Marks == Failed \notin Fd /\ NoFd \notin Fd /\ PipeEnd \notin Fd /\ Failed # NoFd
BY FdAssumption DEF Failed, NoFd, PipeEnd

LEMMA ServerInvInit == ServerInit => ServerInv
BY WorkerAssumption, BacklogAssumption DEF ServerInit, ServerInv, ServerTypeOK, Workers

LEMMA ServerInvDies == ServerDies => ServerInv'
BY WorkerAssumption, BacklogAssumption DEF ServerDies, ServerInv, ServerTypeOK, Workers

\* What is left to serve was ready, and the pipe still is.
LEMMA ServesReady ==
    ASSUME ServerInv, NEW w \in Workers, NEW e, Serves(w, e)
    PROVE  /\ active' \in [Workers -> SUBSET (Fd \cup {PipeEnd})]
           /\ \A u \in Workers : PipeEnd \in active'[u] =>
                  pipe[u] # <<>> /\ (u = w => e # PipeEnd)
           /\ e = PipeEnd => pipe[w] # <<>>
<1>1. /\ Found(w) \in SUBSET (Fd \cup {PipeEnd})
      /\ PipeEnd \in Found(w) => pipe[w] # <<>>
  BY Marks DEF ServerInv, ServerTypeOK, Found, Ready, Hears
<1> QED
  BY <1>1 DEF ServerInv, ServerTypeOK, Serves

\* What add puts into a pipe.
LEMMA PipeGrows ==
    ASSUME NEW S, NEW s \in Seq(S), NEW e \in S
    PROVE  Append(s, e) \in Seq(S) /\ Append(s, e) # <<>>
BY AppendProperties

LEMMA ServerInvStep ==
    ASSUME ServerInv, ServerNext
    PROVE  ServerInv'
<1> USE Marks DEF ServerInv, ServerTypeOK
<1>1. CASE Enter
  BY <1>1 DEF Enter
<1>2. CASE Accept
  BY <1>2, BacklogAssumption DEF Accept
<1>3. CASE Add
  <2>1. cur \in Workers /\ hand \in Fd \cup {Failed} /\ pipe[cur] \in Seq(Fd \cup {Failed})
    BY <1>3 DEF Add
  <2>2. /\ Append(pipe[cur], hand) \in Seq(Fd \cup {Failed})
        /\ Append(pipe[cur], hand) # <<>>
    BY ONLY <2>1, PipeGrows
  <2> QED
    BY <1>3, <2>1, <2>2, NextWorker DEF Add, Look
<1>4. CASE Connect
  BY <1>4, BacklogAssumption DEF Connect
<1>5. ASSUME NEW f \in Fd, Ask(f) \/ Leave(f) PROVE ServerInv'
  <2>1. CASE Ask(f)
    BY <2>1 DEF Ask
  <2>2. CASE Leave(f)
    BY <2>2 DEF Leave
  <2> QED
    BY <1>5, <2>1, <2>2
<1>6. ASSUME NEW w \in Workers, Drain(w) PROVE ServerInv'
  BY <1>6 DEF Drain
<1>7. CASE OnSigint
  BY <1>7 DEF OnSigint, Look
<1>8. ASSUME NEW w \in Workers, ReadClient(w) PROVE ServerInv'
  <2>1. /\ active' \in [Workers -> SUBSET (Fd \cup {PipeEnd})] /\ pipe[w] # <<>>
        /\ \A u \in Workers : PipeEnd \in active'[u] => pipe[u] # <<>> /\ u # w
    BY <1>8, ServesReady DEF ReadClient
  <2>2. Head(pipe[w]) \in Fd \cup {Failed} /\ Tail(pipe[w]) \in Seq(Fd \cup {Failed})
    BY <2>1, HeadTailProperties
  <2> QED
    BY <1>8, <2>1, <2>2 DEF ReadClient
<1>9. ASSUME NEW w \in Workers, OnData(w) PROVE ServerInv'
  BY <1>9, ServesReady DEF OnData
<1>10. ASSUME NEW w \in Workers, Disconnect(w) PROVE ServerInv'
  BY <1>10, ServesReady DEF Disconnect
<1>11. ASSUME NEW w \in Workers, Reply(w) PROVE ServerInv'
  BY <1>11 DEF Reply
<1>12. CASE /\ main' = "enter" /\ main = "off"
            /\ UNCHANGED <<broken, backlog, hand, cur, sock, asks, pipe, clients,
                           active, stage, job>>
  BY <1>12
<1> QED
  BY <1>1, <1>2, <1>3, <1>4, <1>5, <1>6, <1>7, <1>8, <1>9, <1>10, <1>11, <1>12
  DEF ServerNext, MainThread, Peers, WorkerThread

LEMMA ServerInvNext ==
    ASSUME ServerInv, [Next]_vars
    PROVE  ServerInv'
<1>1. CASE UNCHANGED server
  BY <1>1 DEF ServerInv, ServerTypeOK, server
<1> QED
  BY <1>1, StepsOfNext, ServerInvStep, ServerInvDies DEF vars

\* Every variable of the program keeps its type.
THEOREM TypeCorrect == Spec => []TypeOK
<1>1. Init => StoreInv /\ ServerInv
  BY StoreInvInit, ServerInvInit DEF Init
<1>2. StoreInv /\ ServerInv /\ [Next]_vars => (StoreInv /\ ServerInv)'
  BY StoreInvStep, ServerInvNext
<1>3. StoreInv /\ ServerInv => TypeOK
  BY DEF StoreInv, ServerInv, TypeOK
<1> QED
  BY <1>1, <1>2, <1>3, PTL DEF Spec

-----------------------------------------------------------------------------
\* Who owns what: a pipe grows by one descriptor, or gives its first away.
LEMMA InGrown ==
    ASSUME NEW S, NEW s \in Seq(S), NEW e \in S, NEW f
    PROVE  /\ In(Append(s, e), f) <=> In(s, f) \/ e = f
           /\ Once(s, f) /\ (e = f => ~In(s, f)) => Once(Append(s, e), f)
<1> DEFINE t == Append(s, e)
<1>1. /\ DOMAIN s = 1 .. Len(s) /\ DOMAIN t = 1 .. Len(s) + 1 /\ Len(s) \in Nat
      /\ \A i \in 1 .. Len(s) : t[i] = s[i]
      /\ t[Len(s) + 1] = e
  BY AppendProperties, LenProperties
<1>2. DOMAIN t = DOMAIN s \cup {Len(s) + 1} /\ Len(s) + 1 \notin DOMAIN s
  BY <1>1
<1> HIDE DEF t
<1>3. In(t, f) <=> In(s, f) \/ e = f
  BY <1>1, <1>2 DEF In
<1>4. Once(s, f) /\ (e = f => ~In(s, f)) => Once(t, f)
  BY <1>1, <1>2 DEF In, Once
<1> QED
  BY <1>3, <1>4 DEF t

LEMMA InShrunk ==
    ASSUME NEW S, NEW s \in Seq(S), s # <<>>, NEW f
    PROVE  /\ In(s, f) <=> In(Tail(s), f) \/ Head(s) = f
           /\ Once(s, f) => Once(Tail(s), f) /\ (Head(s) = f => ~In(Tail(s), f))
<1> DEFINE t == Tail(s)
<1>1. /\ DOMAIN s = 1 .. Len(s) /\ DOMAIN t = 1 .. Len(s) - 1
      /\ Len(s) \in Nat \ {0}
      /\ \A i \in 1 .. Len(s) - 1 : t[i] = s[i + 1]
      /\ Head(s) = s[1]
  BY HeadTailProperties, LenProperties, EmptySeq
<1> HIDE DEF t
<1>2. \A i \in DOMAIN t : i + 1 \in DOMAIN s /\ t[i] = s[i + 1] /\ i + 1 # 1
  BY <1>1
<1>3. \A j \in DOMAIN s : j # 1 => j - 1 \in DOMAIN t /\ t[j - 1] = s[j]
  BY <1>1
<1>4. 1 \in DOMAIN s /\ Head(s) = s[1]
  BY <1>1
<1>5. In(s, f) <=> In(t, f) \/ Head(s) = f
  BY <1>2, <1>3, <1>4 DEF In
<1>6. ASSUME Once(s, f) PROVE Once(t, f) /\ (Head(s) = f => ~In(t, f))
  <2>1. \A i, j \in DOMAIN t : t[i] = f /\ t[j] = f => i + 1 = j + 1
    BY <1>2, <1>6 DEF Once
  <2>2. Once(t, f)
    BY <2>1, <1>1 DEF Once
  <2>3. Head(s) = f => ~In(t, f)
    BY <1>2, <1>4, <1>6 DEF Once, In
  <2> QED
    BY <2>2, <2>3
<1> QED
  BY <1>5, <1>6 DEF t

LEMMA InNothing == \A f : ~In(<<>>, f) /\ Once(<<>>, f)
BY DEF In, Once

LEMMA OwnersStay ==
    ASSUME ServerInv, OpenHasOneOwner, UNCHANGED <<hand, pipe, clients>>,
           \A f \in Fd : sock'[f] = "closed" <=> sock[f] = "closed"
    PROVE  OpenHasOneOwner'
BY DEF OpenHasOneOwner, Owns

\* Together they are inductive: a worker's command keeps its connection
\* because nobody else has it, and a step of another leaves what it owns.
OwnerInv == ServerInv /\ OpenHasOneOwner /\ ServesTheAsker

LEMMA OwnerInvInit == ServerInit => OwnerInv
BY ServerInvInit, InNothing, Marks
DEF ServerInit, OwnerInv, OpenHasOneOwner, ServesTheAsker, Owns, NoFd

LEMMA OwnerInvDies == ServerDies => OwnerInv'
<1> SUFFICES ASSUME ServerDies PROVE OpenHasOneOwner' /\ ServesTheAsker'
  BY ServerInvDies DEF OwnerInv
<1>1. OpenHasOneOwner'
  BY InNothing, Marks DEF ServerDies, OpenHasOneOwner, Owns
<1>2. ServesTheAsker'
  BY DEF ServerDies, ServesTheAsker
<1> QED
  BY <1>1, <1>2

\* The descriptor that accept returns was closed, so nobody had it.
LEMMA AcceptKeepsOwners ==
    ASSUME OwnerInv, Accept
    PROVE  OpenHasOneOwner' /\ ServesTheAsker'
<1>1. hand = NoFd /\ \A f \in Fd : hand # f
  BY Marks DEF OwnerInv, ServerInv, Accept
<1>2. UNCHANGED <<pipe, clients, stage, job, asks>>
  BY DEF Accept
<1>3. CASE hand' = Failed /\ UNCHANGED <<sock, backlog>>
  BY <1>1, <1>2, <1>3, Marks DEF OwnerInv, OpenHasOneOwner, Owns, ServesTheAsker, Asked
<1>4. ASSUME NEW f \in Fd, sock[f] = "closed", hand' = f, sock' = [sock EXCEPT ![f] = "open"]
      PROVE  OpenHasOneOwner'
  <2>1. \A w \in Workers : ~Owns(w, f)
    BY <1>4 DEF OwnerInv, OpenHasOneOwner
  <2>2. \A g \in Fd : sock'[g] # "closed" <=> sock[g] # "closed" \/ g = f
    BY <1>4 DEF OwnerInv, ServerInv, ServerTypeOK
  <2>3. \A w \in Workers, g \in Fd : Owns(w, g)' <=> Owns(w, g)
    BY <1>2 DEF Owns
  <2> QED
    BY <1>1, <1>2, <1>4, <2>1, <2>2, <2>3 DEF OwnerInv, OpenHasOneOwner
<1>5. ServesTheAsker'
  BY <1>2 DEF OwnerInv, ServesTheAsker, Asked
<1> QED
  BY <1>3, <1>4, <1>5 DEF Accept

\* A hand-over: out of the hand, into one pipe.
LEMMA AddKeepsOwners ==
    ASSUME OwnerInv, Add
    PROVE  OpenHasOneOwner' /\ ServesTheAsker'
<1>1. /\ cur \in Workers /\ hand \in Fd \cup {Failed}
      /\ pipe \in [Workers -> Seq(Fd \cup {Failed})]
  BY DEF OwnerInv, ServerInv, ServerTypeOK, Add
<1>2. /\ UNCHANGED <<sock, clients, stage, job, asks>> /\ hand' = NoFd
      /\ pipe' = [pipe EXCEPT ![cur] = Append(pipe[cur], hand)]
  BY DEF Add
<1>3. \A w \in Workers, f \in Fd :
          /\ In(pipe'[w], f) <=> In(pipe[w], f) \/ (w = cur /\ hand = f)
          /\ Once(pipe'[w], f)
  <2> TAKE w \in Workers, f \in Fd
  <2>1. CASE w # cur
    BY <1>1, <1>2, <2>1 DEF OwnerInv, OpenHasOneOwner
  <2>2. CASE w = cur
    <3> DEFINE S == Fd \cup {Failed}
    <3>1. pipe[cur] \in Seq(S) /\ hand \in S /\ pipe'[cur] = Append(pipe[cur], hand)
      BY <1>1, <1>2
    <3>2. Once(pipe[cur], f) /\ (hand = f => ~In(pipe[cur], f))
      BY <1>1 DEF OwnerInv, OpenHasOneOwner, Owns
    <3> HIDE DEF S
    <3>3. /\ In(Append(pipe[cur], hand), f) <=> In(pipe[cur], f) \/ hand = f
          /\ Once(pipe[cur], f) /\ (hand = f => ~In(pipe[cur], f))
                 => Once(Append(pipe[cur], hand), f)
      BY <3>1, InGrown
    <3> QED
      BY <2>2, <3>1, <3>2, <3>3
  <2> QED
    BY <2>1, <2>2
<1>4. \A w \in Workers, f \in Fd : Owns(w, f)' <=> Owns(w, f) \/ (w = cur /\ hand = f)
  BY <1>2, <1>3 DEF Owns
<1>5. OpenHasOneOwner'
  BY <1>1, <1>2, <1>3, <1>4, Marks DEF OwnerInv, OpenHasOneOwner, Owns
<1>6. ServesTheAsker'
  BY <1>2 DEF OwnerInv, ServesTheAsker, Asked
<1> QED
  BY <1>5, <1>6

\* A hand-over: out of the pipe, to the worker's clients.
LEMMA ReadClientKeepsOwners ==
    ASSUME OwnerInv, NEW w \in Workers, ReadClient(w)
    PROVE  OpenHasOneOwner' /\ ServesTheAsker'
<1> DEFINE S == Fd \cup {Failed}
<1>1. /\ pipe \in [Workers -> Seq(S)] /\ pipe[w] # <<>>
      /\ clients \in [Workers -> SUBSET Fd]
  BY ServesReady DEF OwnerInv, ServerInv, ServerTypeOK, ReadClient
<1>2. /\ UNCHANGED <<hand, sock, stage, job, asks>>
      /\ pipe' = [pipe EXCEPT ![w] = Tail(pipe[w])]
      /\ clients' = [clients EXCEPT ![w] = clients[w] \cup ({Head(pipe[w])} \ {Failed})]
  BY DEF ReadClient
<1> HIDE DEF S
<1>3. \A f \in Fd :
          /\ In(pipe[w], f) <=> In(Tail(pipe[w]), f) \/ Head(pipe[w]) = f
          /\ Once(pipe[w], f) => /\ Once(Tail(pipe[w]), f)
                                 /\ Head(pipe[w]) = f => ~In(Tail(pipe[w]), f)
  BY <1>1, InShrunk
<1>4. \A f \in Fd : f \in clients'[w] <=> f \in clients[w] \/ Head(pipe[w]) = f
  BY <1>1, <1>2, Marks
<1>5. \A u \in Workers \ {w} : pipe'[u] = pipe[u] /\ clients'[u] = clients[u]
  BY <1>1, <1>2
<1>6. pipe'[w] = Tail(pipe[w]) /\ clients[w] \subseteq clients'[w]
  BY <1>1, <1>2
<1>7. \A u \in Workers, f \in Fd : Owns(u, f)' <=> Owns(u, f)
  BY <1>3, <1>4, <1>5, <1>6 DEF Owns
<1>8. \A u \in Workers, f \in Fd :
          Once(pipe'[u], f) /\ (f \in clients'[u] => ~In(pipe'[u], f))
  BY <1>3, <1>4, <1>5, <1>6 DEF OwnerInv, OpenHasOneOwner
<1>9. OpenHasOneOwner'
  BY <1>2, <1>7, <1>8 DEF OwnerInv, OpenHasOneOwner
<1>10. ServesTheAsker'
  BY <1>2, <1>5, <1>6 DEF OwnerInv, ServesTheAsker, Asked
<1> QED
  BY <1>9, <1>10

\* A worker closes what it owns and is not serving; nobody else has it.
LEMMA DisconnectKeepsOwners ==
    ASSUME OwnerInv, NEW w \in Workers, Disconnect(w)
    PROVE  OpenHasOneOwner' /\ ServesTheAsker'
<1>1. PICK f \in clients[w] :
          /\ Serves(w, f)
          /\ sock' = [sock EXCEPT ![f] = "closed"]
          /\ clients' = [clients EXCEPT ![w] = clients[w] \ {f}]
          /\ asks' = [asks EXCEPT ![f] = "none"]
  BY DEF Disconnect
<1>2. /\ UNCHANGED <<hand, pipe, stage, job>> /\ stage[w] = "idle"
  BY <1>1 DEF Disconnect, Serves
<1>3. /\ clients \in [Workers -> SUBSET Fd] /\ f \in Fd
      /\ sock \in [Fd -> {"closed", "open", "gone"}]
      /\ asks \in [Fd -> Request \cup {"none"}]
  BY <1>1 DEF OwnerInv, ServerInv, ServerTypeOK
<1>4. /\ hand # f /\ ~In(pipe[w], f)
      /\ \A u \in Workers \ {w} : ~In(pipe[u], f) /\ f \notin clients[u]
  BY <1>1, <1>3 DEF OwnerInv, OpenHasOneOwner, Owns
<1>5. \A u \in Workers, g \in Fd :
          /\ g \in clients'[u] <=> g \in clients[u] /\ g # f
          /\ Owns(u, g)' <=> Owns(u, g) /\ g # f
  BY <1>1, <1>2, <1>3, <1>4 DEF Owns
<1>6. \A g \in Fd : sock'[g] # "closed" <=> sock[g] # "closed" /\ g # f
  BY <1>1, <1>3
<1>7. OpenHasOneOwner'
  BY <1>2, <1>4, <1>5, <1>6 DEF OwnerInv, OpenHasOneOwner
<1>8. \A u \in Workers : stage[u] # "idle" =>
          job[u] \in clients[u] /\ Asked(job[u]) /\ job[u] # f /\ job[u] \in Fd
  BY <1>2, <1>3, <1>4 DEF OwnerInv, ServesTheAsker
<1>9. ServesTheAsker'
  BY <1>1, <1>2, <1>3, <1>5, <1>8 DEF ServesTheAsker, Asked
<1> QED
  BY <1>7, <1>9

\* A command that ends answers its own connection only.
LEMMA ReplyKeepsOwners ==
    ASSUME OwnerInv, NEW w \in Workers, Reply(w)
    PROVE  OpenHasOneOwner' /\ ServesTheAsker'
<1>1. OpenHasOneOwner'
  BY OwnersStay DEF OwnerInv, Reply
<1>2. /\ stage \in [Workers -> {"idle", "run", "held", "blocked"}]
      /\ job \in [Workers -> Fd \cup {NoFd}]
      /\ asks \in [Fd -> Request \cup {"none"}]
      /\ clients \in [Workers -> SUBSET Fd]
  BY DEF OwnerInv, ServerInv, ServerTypeOK
<1>3. stage[w] # "idle" /\ UNCHANGED clients
  BY DEF Reply
<1>4. \A u \in Workers : stage[u] # "idle" =>
          /\ job[u] \in clients[u] /\ Asked(job[u]) /\ job[u] \in Fd
          /\ u # w => job[u] # job[w]
  BY <1>2, <1>3 DEF OwnerInv, ServesTheAsker, OpenHasOneOwner, Owns
<1>5. ServesTheAsker'
  BY <1>2, <1>3, <1>4 DEF Reply, ServesTheAsker, Asked
<1> QED
  BY <1>1, <1>5

LEMMA OwnerInvStep ==
    ASSUME OwnerInv, ServerNext
    PROVE  OwnerInv'
<1> SUFFICES OpenHasOneOwner' /\ ServesTheAsker'
  BY ServerInvStep DEF OwnerInv
<1> USE DEF OwnerInv
<1>1. ASSUME UNCHANGED <<hand, sock, asks, pipe, clients, stage, job>>
      PROVE  OpenHasOneOwner' /\ ServesTheAsker'
  BY <1>1, OwnersStay DEF ServesTheAsker, Asked
<1>2. CASE Enter \/ Connect \/ OnSigint
  BY <1>1, <1>2 DEF Enter, Connect, OnSigint
<1>3. CASE main' = "enter" /\ UNCHANGED <<broken, backlog, hand, cur, sock, asks, pipe,
                                        clients, active, stage, job>>
  BY <1>1, <1>3
<1>4. ASSUME NEW f \in Fd, Ask(f)
      PROVE  OpenHasOneOwner' /\ ServesTheAsker'
  <2>1. OpenHasOneOwner'
    BY <1>4, OwnersStay DEF Ask
  <2>2. \A g \in Fd : Asked(g) => Asked(g)'
    BY <1>4 DEF Ask, Asked, ServerInv, ServerTypeOK
  <2>3. clients \in [Workers -> SUBSET Fd] /\ UNCHANGED <<clients, stage, job>>
    BY <1>4 DEF Ask, ServerInv, ServerTypeOK
  <2>4. ServesTheAsker'
    BY <2>2, <2>3 DEF ServesTheAsker, Asked
  <2> QED
    BY <2>1, <2>4
<1>5. ASSUME NEW f \in Fd, Leave(f)
      PROVE  OpenHasOneOwner' /\ ServesTheAsker'
  <2>1. \A g \in Fd : sock'[g] = "closed" <=> sock[g] = "closed"
    BY <1>5 DEF Leave, ServerInv, ServerTypeOK
  <2> QED
    BY <1>5, <2>1, OwnersStay DEF Leave, ServesTheAsker, Asked
<1>6. ASSUME NEW w \in Workers, Drain(w)
      PROVE  OpenHasOneOwner' /\ ServesTheAsker'
  BY <1>6, OwnersStay DEF Drain, ServesTheAsker, Asked, ServerInv, ServerTypeOK
<1>7. ASSUME NEW w \in Workers, OnData(w)
      PROVE  OpenHasOneOwner' /\ ServesTheAsker'
  BY <1>7, OwnersStay DEF OnData, ServesTheAsker, Asked, ServerInv, ServerTypeOK
<1> QED
  BY <1>2, <1>3, <1>4, <1>5, <1>6, <1>7, AcceptKeepsOwners, AddKeepsOwners,
     ReadClientKeepsOwners, DisconnectKeepsOwners, ReplyKeepsOwners
  DEF ServerNext, MainThread, Peers, WorkerThread

LEMMA OwnerInvNext ==
    ASSUME OwnerInv, [Next]_vars
    PROVE  OwnerInv'
<1>1. CASE UNCHANGED server
  <2>1. ServerInv'
    BY ServerInvNext DEF OwnerInv
  <2>2. OpenHasOneOwner' /\ ServesTheAsker'
    BY <1>1 DEF OwnerInv, server, OpenHasOneOwner, Owns, ServesTheAsker, Asked
  <2> QED
    BY <2>1, <2>2 DEF OwnerInv
<1> QED
  BY <1>1, StepsOfNext, OwnerInvStep, OwnerInvDies DEF vars

\* No descriptor is lost between accept, the pipes and the workers, and none
\* has two owners, however descriptors are closed and given out again.
THEOREM DescriptorsHaveOneOwner == Spec => []OpenHasOneOwner
<1>1. Init => OwnerInv
  BY OwnerInvInit DEF Init
<1>2. OwnerInv /\ [Next]_vars => OwnerInv'
  BY OwnerInvNext
<1>3. OwnerInv => OpenHasOneOwner
  BY DEF OwnerInv
<1> QED
  BY <1>1, <1>2, <1>3, PTL DEF Spec

\* A command never loses the connection it has to answer.
THEOREM CommandsServeTheAsker == Spec => []ServesTheAsker
<1>1. Init => OwnerInv
  BY OwnerInvInit DEF Init
<1>2. OwnerInv /\ [Next]_vars => OwnerInv'
  BY OwnerInvNext
<1>3. OwnerInv => ServesTheAsker
  BY DEF OwnerInv
<1> QED
  BY <1>1, <1>2, <1>3, PTL DEF Spec
=============================================================================
