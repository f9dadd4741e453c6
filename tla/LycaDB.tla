------------------------------- MODULE LycaDB -------------------------------
(***************************************************************************)
(* The program (main in lycadb.cc): the store starts, whatever comes of    *)
(* it the server starts, and the commands use the tables that are there.   *)
(* The process may be killed at any moment, and started again.             *)
(*                                                                         *)
(* A request is named after the table its command uses.                    *)
(***************************************************************************)
EXTENDS StoreBoot, Server

ASSUME RequestsUseTables == Request \subseteq Table

vars == <<store, server>>

Init == BootInit /\ ServerInit

StoreStarts == Boot /\ UNCHANGED server

\* Server::start.
ServerStarts ==
    /\ boot = "done" /\ main = "off"
    /\ main' = "enter"
    /\ UNCHANGED <<store, broken, backlog, hand, cur, sock, asks, pipe, clients, active,
                   stage, job>>

\* A command on a table that is there.
RunsCommand(w) ==
    /\ stage[w] # "idle" /\ asks[job[w]] \in open
    /\ Reply(w)
    /\ UNCHANGED store

Dies == BootDies /\ ServerDies

\* get_cursor goes on with a null cursor when the table is not there.
NullCursor(w) == stage[w] = "run" /\ asks[job[w]] \notin open /\ Dies

DiesOfSigPipe(w) == SigPipe(w) /\ Dies

\* Store::shutdown, and the return from main: the workers go with it.
Exit == main = "over" /\ Dies

Kill == boot # "down" /\ Dies

MainSteps ==
    \/ StoreStarts /\ boot # "down"
    \/ ServerStarts
    \/ MainThread /\ UNCHANGED store

WorkerSteps(w) ==
    \/ WorkerThread(w) /\ UNCHANGED store
    \/ RunsCommand(w)
    \/ NullCursor(w)

Next ==
    \/ StoreStarts \/ ServerStarts
    \/ MainThread /\ UNCHANGED store
    \/ Peers /\ UNCHANGED store
    \/ OnSigint /\ UNCHANGED store
    \/ \E w \in Workers : WorkerSteps(w) \/ DiesOfSigPipe(w)
    \/ Exit
    \/ Kill

Spec == Init /\ [][Next]_vars

\* The threads run.  Nobody owes the program a start, a peer, a signal or
\* the end of a shutdown.
FairSpec == Spec /\ WF_vars(MainSteps) /\ \A w \in Workers : WF_vars(WorkerSteps(w))

-----------------------------------------------------------------------------
TypeOK == StoreTypeOK /\ ServerTypeOK

\* What the server serves is all the tables or, where the engine let none be
\* created, none; unless an install has left some.
AllOrNone == boot = "done" /\ ~half => open = disk /\ ~Some(disk)

\* A database that was left half installed stays so, through every restart.
HalfInstalledForGood == [][half => half' /\ disk' = disk]_vars

In(s, f) == \E i \in DOMAIN s : s[i] = f
Once(s, f) == \A i, j \in DOMAIN s : s[i] = f /\ s[j] = f => i = j

Owns(w, f) == In(pipe[w], f) \/ f \in clients[w]

\* A descriptor that is open is in one place: in the main thread's hand, once
\* in the pipe of one worker, or with the clients of one.
OpenHasOneOwner ==
    \A f \in Fd :
        /\ sock[f] # "closed" <=> hand = f \/ \E w \in Workers : Owns(w, f)
        /\ hand = f => \A w \in Workers : ~Owns(w, f)
        /\ \A w \in Workers :
               /\ Owns(w, f) => \A u \in Workers \ {w} : ~Owns(u, f)
               /\ f \in clients[w] => ~In(pipe[w], f)
               /\ Once(pipe[w], f)

\* A worker in a command serves a client of its own, whose descriptor is
\* still the connection of the peer that asked and waits.
ServesTheAsker ==
    \A w \in Workers : stage[w] # "idle" =>
        job[w] \in clients[w] /\ Asked(job[w])

-----------------------------------------------------------------------------
\* The worker cannot go on: a command that never ends, or a reply that
\* nobody reads.
Held(w) == stage[w] = "held" \/ (stage[w] = "blocked" /\ ~Gone(job[w]))

\* The main thread cannot go on: it writes to the full pipe of such a worker.
Stuck == main = "add" /\ Held(cur)

NoDescriptor == \A f \in Fd : sock[f] # "closed"

\* Where connections wait one is accepted, unless a worker that is held
\* stops the main thread, the descriptors are used up, or the server ends.
ConnectionsAreAccepted ==
    backlog > 0 ~> hand \in Fd \/ Stuck \/ NoDescriptor \/ main \in {"off", "over"}

\* Every request is answered, unless the worker of its connection is held.
RequestsAreAnswered ==
    \A f \in Fd : Asked(f) ~> ~Asked(f) \/ \E w \in Workers : f \in clients[w] /\ Held(w)

\* SIGINT ends the main loop, unless it comes between the look at the flag
\* and the wait (then the next connection has to end it), or the loop hangs.
InterruptEndsTheLoop ==
    broken ~> main \in {"off", "over"} \/ (main = "wait" /\ backlog = 0) \/ Stuck
=============================================================================
