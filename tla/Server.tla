------------------------------- MODULE Server -------------------------------
(***************************************************************************)
(* The server (Server, Worker and Client in net.cc): the main thread       *)
(* accepts connections and hands them to the workers in turn, each by the  *)
(* worker's pipe; a worker serves the connections it was given, one        *)
(* callback at a time, and closes them when their peer has gone.           *)
(*                                                                         *)
(* A connection is a descriptor of the process; its peer has one request   *)
(* without an answer at a time (what becomes of requests sent ahead is the *)
(* matter of Client).  What a peer does before a worker has a Client for   *)
(* it nobody sees, so here it does that afterwards.                        *)
(***************************************************************************)
EXTENDS Integers, Sequences, FiniteSets

CONSTANTS Worker,     \* how many workers there are ("threads")
          Fd,         \* the descriptors left for connections
          PipeSize,   \* how many descriptors fit into a pipe
          Backlog,    \* bound on the connections that wait
          Request,    \* what a peer may ask
          Spinning    \* the requests whose command may never return

ASSUME WorkerAssumption == Worker \in Nat \ {0}
ASSUME FdAssumption == Fd \subseteq Nat
ASSUME PipeAssumption == PipeSize \in Nat \ {0}
ASSUME BacklogAssumption == Backlog \in Nat
ASSUME RequestAssumption == "none" \notin Request /\ Spinning \subseteq Request

Workers == 0 .. Worker - 1   \* m_workers
Failed == -1      \* what accept returns when it fails
NoFd == -2
PipeEnd == -3     \* a worker's end of its pipe, as a source of events

VARIABLES
    main,      \* the main thread: "off", "enter", "wait", "add", "over"
    broken,    \* event_base_loopbreak was called
    backlog,   \* how many connections were not accepted yet
    hand,      \* the descriptor accepted and not yet written to a pipe
    cur,       \* worker_cur
    sock,      \* a descriptor: "closed", "open", "gone" (its peer has closed)
    asks,      \* what the peer of a descriptor waits for, or "none"
    pipe,      \* the descriptors in each worker's pipe
    clients,   \* the descriptors each worker has a Client for
    active,    \* what the worker's last poll found and it has not served
    stage,     \* the worker: "idle", "run", "held", "blocked"
    job        \* the descriptor its command came from

server == <<main, broken, backlog, hand, cur, sock, asks, pipe, clients, active, stage, job>>

ServerInit ==
    /\ main = "off" /\ broken = FALSE
    /\ backlog = 0 /\ hand = NoFd /\ cur = 0
    /\ sock = [f \in Fd |-> "closed"]
    /\ asks = [f \in Fd |-> "none"]
    /\ pipe = [w \in Workers |-> <<>>]
    /\ clients = [w \in Workers |-> {}]
    /\ active = [w \in Workers |-> {}]
    /\ stage = [w \in Workers |-> "idle"]
    /\ job = [w \in Workers |-> NoFd]

-----------------------------------------------------------------------------
\* The peers.
Connect ==
    /\ main # "off" /\ backlog < Backlog
    /\ backlog' = backlog + 1
    /\ UNCHANGED <<main, broken, hand, cur, sock, asks, pipe, clients,
                   active, stage, job>>

Served(f) == \E w \in Workers : f \in clients[w]

Ask(f) ==
    /\ Served(f) /\ sock[f] = "open" /\ asks[f] = "none"
    /\ \E r \in Request : asks' = [asks EXCEPT ![f] = r]
    /\ UNCHANGED <<main, broken, backlog, hand, cur, sock, pipe, clients,
                   active, stage, job>>

Leave(f) ==
    /\ Served(f) /\ sock[f] = "open"
    /\ sock' = [sock EXCEPT ![f] = "gone"]
    /\ UNCHANGED <<main, broken, backlog, hand, cur, asks, pipe, clients,
                   active, stage, job>>

\* It reads again what a worker could not write.
Drain(w) ==
    /\ stage[w] = "blocked" /\ sock[job[w]] = "open"
    /\ stage' = [stage EXCEPT ![w] = "run"]
    /\ UNCHANGED <<main, broken, backlog, hand, cur, sock, asks, pipe,
                   clients, active, job>>

Peers == Connect \/ (\E f \in Fd : Ask(f) \/ Leave(f)) \/ (\E w \in Workers : Drain(w))

-----------------------------------------------------------------------------
\* The main thread.  Its loop looks at the break flag, and after that waits;
\* it looks when a callback has returned or a signal has ended the wait.
Look(b) == IF b THEN "over" ELSE "enter"

\* Mutant of Enter: the wait begins by clearing the flag.
EnterClears ==
    /\ main = "enter"
    /\ main' = "wait"
    /\ broken' = FALSE
    /\ UNCHANGED <<backlog, hand, cur, sock, asks, pipe, clients, active, stage, job>>

Enter ==
    /\ main = "enter"
    /\ main' = "wait"
    /\ UNCHANGED <<broken, backlog, hand, cur, sock, asks, pipe, clients,
                   active, stage, job>>

\* on_connect: accept gives the connection the lowest free descriptor.
\* Without one it returns -1, and the connection goes on waiting.
Accept ==
    /\ main = "wait" /\ backlog > 0
    /\ main' = "add"
    /\ LET free == {f \in Fd : sock[f] = "closed"}
       IN  \/ \E f \in free :
                 /\ \A g \in free : f <= g
                 /\ hand' = f
                 /\ sock' = [sock EXCEPT ![f] = "open"]
                 /\ backlog' = backlog - 1
           \/ free = {} /\ hand' = Failed /\ UNCHANGED <<sock, backlog>>
    /\ UNCHANGED <<broken, cur, asks, pipe, clients, active, stage, job>>

\* Mutant of Add: a write to a full pipe is lost.
AddLossy ==
    /\ main = "add"
    /\ pipe' = IF Len(pipe[cur]) < PipeSize THEN [pipe EXCEPT ![cur] = Append(@, hand)] ELSE pipe
    /\ cur' = (cur + 1) % Worker
    /\ hand' = NoFd
    /\ main' = Look(broken)
    /\ UNCHANGED <<broken, backlog, sock, asks, clients, active, stage, job>>

\* Mutant of Add: the turn does not begin anew.
AddNoWrap ==
    /\ main = "add" /\ Len(pipe[cur]) < PipeSize
    /\ pipe' = [pipe EXCEPT ![cur] = Append(@, hand)]
    /\ cur' = cur + 1
    /\ hand' = NoFd
    /\ main' = Look(broken)
    /\ UNCHANGED <<broken, backlog, sock, asks, clients, active, stage, job>>

\* Server::on_connect, Worker::add: the write blocks while the pipe is full.
Add ==
    /\ main = "add" /\ Len(pipe[cur]) < PipeSize
    /\ pipe' = [pipe EXCEPT ![cur] = Append(@, hand)]
    /\ cur' = (cur + 1) % Worker
    /\ hand' = NoFd
    /\ main' = Look(broken)
    /\ UNCHANGED <<broken, backlog, sock, asks, clients, active, stage, job>>

MainThread == Enter \/ Accept \/ Add

\* SIGINT.  It ends a wait; a write to a pipe is restarted.
OnSigint ==
    /\ main \in {"enter", "wait", "add"}
    /\ broken' = TRUE
    /\ main' = IF main = "wait" THEN Look(TRUE) ELSE main
    /\ UNCHANGED <<backlog, hand, cur, sock, asks, pipe, clients, active, stage, job>>

-----------------------------------------------------------------------------
\* A worker.
Asked(f) == asks[f] # "none"
Gone(f) == sock[f] = "gone"

Hears(w) == {f \in clients[w] : Asked(f) \/ Gone(f)}

\* Mutant of Ready: what clients sent goes before new clients.
ReadyClientsFirst(w) ==
    Hears(w) \cup (IF Hears(w) = {} /\ pipe[w] # <<>> THEN {PipeEnd} ELSE {})

\* Mutant of Ready: new clients go before what clients sent.
ReadyPipeFirst(w) == IF pipe[w] # <<>> THEN {PipeEnd} ELSE Hears(w)

\* What a poll finds: the pipe, and the clients that sent something or went.
Ready(w) == Hears(w) \cup (IF pipe[w] # <<>> THEN {PipeEnd} ELSE {})

\* The event loop serves all that one poll has found before it polls again.
Found(w) == IF active[w] = {} THEN Ready(w) ELSE active[w]

\* Mutant of Serves: a callback may begin while another one runs.
ServesBusy(w, e) ==
    /\ e \in Found(w)
    /\ active' = [active EXCEPT ![w] = Found(w) \ {e}]

Serves(w, e) ==
    /\ stage[w] = "idle" /\ e \in Found(w)
    /\ active' = [active EXCEPT ![w] = Found(w) \ {e}]

\* Worker::read_client.  A Client with the descriptor -1 never hears anything.
ReadClient(w) ==
    /\ Serves(w, PipeEnd)
    /\ clients' = [clients EXCEPT ![w] = @ \cup ({Head(pipe[w])} \ {Failed})]
    /\ pipe' = [pipe EXCEPT ![w] = Tail(@)]
    /\ UNCHANGED <<main, broken, backlog, hand, cur, sock, asks, stage, job>>

\* Client::on_data with something to read: the command runs.
OnData(w) ==
    /\ \E f \in clients[w] :
           /\ Serves(w, f) /\ Asked(f)
           /\ job' = [job EXCEPT ![w] = f]
    /\ stage' = [stage EXCEPT ![w] = "run"]
    /\ UNCHANGED <<main, broken, backlog, hand, cur, sock, asks, pipe, clients>>

\* Client::on_data at the end of the stream, or with an error (which a peer
\* may cause that goes away with a reply unread, whatever it has asked).
Disconnect(w) ==
    /\ \E f \in clients[w] :
           /\ Serves(w, f) /\ Gone(f)
           /\ sock' = [sock EXCEPT ![f] = "closed"]
           /\ clients' = [clients EXCEPT ![w] = @ \ {f}]
           /\ asks' = [asks EXCEPT ![f] = "none"]
    /\ UNCHANGED <<main, broken, backlog, hand, cur, pipe, stage, job>>

\* The command ends and its reply is written, or it is held for ever.  If the
\* peer does not read and the reply does not fit into the buffers, the write
\* blocks; that the peer goes away ends it.
Reply(w) ==
    /\ \/ /\ stage[w] = "run" \/ (stage[w] = "blocked" /\ Gone(job[w]))
          /\ stage' = [stage EXCEPT ![w] = "idle"]
          /\ asks' = [asks EXCEPT ![job[w]] = "none"]
          /\ job' = [job EXCEPT ![w] = NoFd]
       \/ /\ stage[w] = "run" /\ ~Gone(job[w])
          /\ stage' = [stage EXCEPT ![w] = "blocked"]
          /\ UNCHANGED <<asks, job>>
       \/ /\ stage[w] = "run" /\ asks[job[w]] \in Spinning
          /\ stage' = [stage EXCEPT ![w] = "held"]
          /\ UNCHANGED <<asks, job>>
    /\ UNCHANGED <<main, broken, backlog, hand, cur, sock, pipe, clients, active>>

\* No handler is installed for SIGPIPE: the reply may end the process.
SigPipe(w) == stage[w] \in {"run", "blocked"} /\ Gone(job[w])

WorkerThread(w) == ReadClient(w) \/ OnData(w) \/ Disconnect(w)

\* All descriptors are closed with the process, and with them the connections.
ServerDies ==
    /\ main' = "off" /\ broken' = FALSE /\ backlog' = 0
    /\ hand' = NoFd /\ cur' = 0
    /\ sock' = [f \in Fd |-> "closed"]
    /\ asks' = [f \in Fd |-> "none"]
    /\ pipe' = [w \in Workers |-> <<>>]
    /\ clients' = [w \in Workers |-> {}]
    /\ active' = [w \in Workers |-> {}]
    /\ stage' = [w \in Workers |-> "idle"]
    /\ job' = [w \in Workers |-> NoFd]

-----------------------------------------------------------------------------
ServerTypeOK ==
    /\ main \in {"off", "enter", "wait", "add", "over"} /\ broken \in BOOLEAN
    /\ backlog \in 0 .. Backlog
    /\ hand \in Fd \cup {Failed, NoFd}
    /\ cur \in Workers
    /\ sock \in [Fd -> {"closed", "open", "gone"}]
    /\ asks \in [Fd -> Request \cup {"none"}]
    /\ pipe \in [Workers -> Seq(Fd \cup {Failed})]
    /\ clients \in [Workers -> SUBSET Fd]
    /\ active \in [Workers -> SUBSET (Fd \cup {PipeEnd})]
    /\ stage \in [Workers -> {"idle", "run", "held", "blocked"}]
    /\ job \in [Workers -> Fd \cup {NoFd}]
=============================================================================
