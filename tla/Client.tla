------------------------------- MODULE Client -------------------------------
(***************************************************************************)
(* One connection (Client in net.cc): the bytes its peer sends, the reads  *)
(* of the worker, the parser, and the dispatcher that runs each complete   *)
(* command before the next byte is consumed.                               *)
(*                                                                         *)
(* The peer may send its next command before the last one is answered, and *)
(* the socket hands the bytes over in pieces of any size.                  *)
(***************************************************************************)
EXTENDS Protocol, Dispatcher, Handlers

CONSTANTS Command,    \* the commands the peer may send
          Style,      \* the forms it sends them in: "chunks", "line"
          Noise,      \* bytes it may send between two commands
          MaxAsked,   \* bound on the commands of a behaviour
          BufSize     \* the size of the read buffer

\* The peer speaks the protocol of Redis, where a word in chunks may be empty;
\* a line holds words of letters and digits, and no stray byte begins a
\* command.
LineByte == Alpha \cup Digit
ASSUME CommandAssumption == Command \subseteq Seq(Word) \ {<<>>}
ASSUME NoiseAssumption == Noise \subseteq (0 .. 255) \ (Alpha \cup {Star})
ASSUME StyleAssumption == Style \subseteq {"chunks", "line"}
ASSUME BoundAssumption == MaxAsked \in Nat /\ BufSize \in Nat \ {0}

VARIABLES asked,      \* the commands sent
          inbox,      \* the bytes in the socket
          buffer,     \* those read and not consumed
          outcomes    \* what became of the commands that were run

vars == <<parser, dispatcher, asked, inbox, buffer, outcomes>>

Init ==
    /\ ParserInit /\ DispatcherInit
    /\ asked = <<>> /\ inbox = <<>> /\ buffer = <<>> /\ outcomes = <<>>

-----------------------------------------------------------------------------
\* All the elements of a sequence of sequences, f[1] up to f[n].
Concat(f) == LET upto[n \in 0 .. Len(f)] == IF n = 0 THEN <<>> ELSE upto[n - 1] \o f[n]
             IN  upto[Len(f)]

Counted(mark, n) == <<mark>> \o Decimal[n] \o <<CR, LF>>

Chunks(c) ==
    Counted(Star, Len(c))
    \o Concat([i \in DOMAIN c |-> Counted(Dollar, Len(c[i])) \o c[i] \o <<CR, LF>>])

Line(c) == Concat([i \in DOMAIN c |-> IF i = 1 THEN c[i] ELSE <<32>> \o c[i]])

NoEmptyWord(c) == \A i \in DOMAIN c : c[i] # <<>>

Encodings(c) ==
    (IF "chunks" \in Style THEN {Chunks(c)} ELSE {})
    \cup (IF "line" \in Style /\ NoEmptyWord(c) /\ c[1][1] \in Alpha
             /\ \A i \in DOMAIN c : \A j \in DOMAIN c[i] : c[i][j] \in LineByte
          THEN {Line(c) \o <<LF>>, Line(c) \o <<CR, LF>>} ELSE {})

Send ==
    /\ Built /\ Len(asked) < MaxAsked
    /\ \E c \in Command : \E bytes \in Encodings(c) :
           /\ asked' = Append(asked, c)
           /\ inbox' = inbox \o bytes
    /\ UNCHANGED <<parser, dispatcher, buffer, outcomes>>

SendNoise ==
    /\ Built /\ inbox = <<>>
    /\ \E b \in Noise : inbox' = <<b>>
    /\ UNCHANGED <<parser, dispatcher, asked, buffer, outcomes>>

-----------------------------------------------------------------------------
\* Client::on_data: a read returns what there is, up to the buffer's size.
Read ==
    /\ buffer = <<>> /\ inbox # <<>> /\ verdict = "ok"
    /\ \E n \in 1 .. BufSize :
           /\ n <= Len(inbox)
           /\ buffer' = SubSeq(inbox, 1, n)
           /\ inbox' = SubSeq(inbox, n + 1, Len(inbox))
    /\ UNCHANGED <<parser, dispatcher, asked, outcomes>>

\* Parser::consume, one turn of its loop.
ConsumeByte ==
    /\ buffer # <<>> /\ verdict = "ok"
    /\ Consume(Head(buffer))
    /\ buffer' = Tail(buffer)
    /\ UNCHANGED <<dispatcher, asked, inbox, outcomes>>

\* When the parser is reset, every buffer it frees is one it has allocated:
\* CommandParser::reset frees m_argc of them, read or not.
FreesWhatItAllocated == verdict # "ok" => \A i \in DOMAIN argv : argv[i] # Raw

\* CONSUME_ERROR: there is no failure callback, and the loop goes on.  Where
\* Reset would free a pointer that is Raw, the behaviour of the program is
\* undefined from there on, and the worker of the model ends.
DropByte ==
    /\ verdict = "error" /\ FreesWhatItAllocated
    /\ Reset
    /\ UNCHANGED <<dispatcher, asked, inbox, buffer, outcomes>>

\* CONSUME_END: Client::on_cmd has the dispatcher look for the verb.
OnCmd ==
    /\ verdict = "end" /\ search = NoSearch
    /\ StartSearch(args[1])
    /\ UNCHANGED <<parser, functions, added, asked, inbox, buffer, outcomes>>

Lookup ==
    /\ Built /\ Probe
    /\ UNCHANGED <<parser, asked, inbox, buffer, outcomes>>

\* The lookup has ended: the command is run and answered.
RunCommand ==
    /\ Built /\ AtLeaf
    /\ outcomes' = Append(outcomes, [verb |-> Verdict(Len(args)).verb,
                                     what |-> Verdict(Len(args)).what,
                                     args |-> Tail(args)])
    /\ search' = NoSearch
    /\ Reset
    /\ UNCHANGED <<functions, added, asked, inbox, buffer>>

Setup == Build /\ UNCHANGED <<parser, asked, inbox, buffer, outcomes>>

Worker == Setup \/ Read \/ ConsumeByte \/ DropByte \/ OnCmd \/ Lookup \/ RunCommand

Next == Send \/ SendNoise \/ Worker

Spec == Init /\ [][Next]_vars

\* The worker thread runs, and its event loop sees the bytes that arrive.
FairSpec == Spec /\ WF_vars(Worker)

-----------------------------------------------------------------------------
States == {"start", "letter", "star", "argc", "dollar", "data", "cr", "lf"}

TypeOK ==
    /\ state \in States
    /\ num.state \in {"start", "num", "cr"} /\ num.val \in Nat
    /\ \A i \in DOMAIN argv : argv[i] = Raw \/ Len(argv[i].data) <= argv[i].len
    /\ state \in {"data", "cr"} => curarg \in DOMAIN argv
    /\ verdict \in {"ok", "end", "error"}
    /\ added \in 0 .. Len(Listed) /\ Len(functions) = added
    /\ search # NoSearch => search.lo \in 1 .. search.hi
    /\ inbox \in Seq(0 .. 255) /\ Len(buffer) <= BufSize

\* The entry a verb stands for: the first, in the order of the words, that
\* agrees with it on the bytes both have.  Where the verb is listed it is
\* that verb; "SETNX" stands for SET, and "S" for SADD.
StandsFor(v) ==
    LET alike == {i \in DOMAIN Listed : ~Less(v, Listed[i].verb) /\ ~Less(Listed[i].verb, v)}
    IN  IF \E i \in alike : Listed[i].verb = v
        THEN {i \in alike : Listed[i].verb = v}
        ELSE {i \in alike : \A j \in alike \ {i} : Less(Listed[i].verb, Listed[j].verb)}

OutcomeOf(c) ==
    IF StandsFor(c[1]) = {} THEN [verb |-> <<>>, what |-> "unknown", args |-> Tail(c)]
    ELSE LET h == Listed[CHOOSE i \in StandsFor(c[1]) : TRUE]
         IN  [verb |-> h.verb, args |-> Tail(c),
              what |-> IF Len(c) - 1 \notin h.min .. h.max THEN "arity"
                       ELSE IF Len(c) - 1 < h.reads THEN "stray" ELSE "called"]

(***************************************************************************)
(* However the bytes are cut into reads, whatever bytes the words hold and *)
(* however many commands are sent ahead, the commands run are the commands *)
(* sent, in their order, each with its own words.                          *)
(***************************************************************************)
Stream == INSTANCE RequestStream WITH Outcome <- OutcomeOf

ImplementsRequestStream == Stream!Spec

(***************************************************************************)
(* An empty word is the only way to the free of a pointer that was never   *)
(* set: until the parser has come to a command with one, it frees only     *)
(* what it has allocated.  A command that is sent ahead and not yet begun  *)
(* is no excuse.                                                           *)
(***************************************************************************)
NoEmptyWordYet == \A j \in DOMAIN asked : j <= Len(outcomes) + 1 => NoEmptyWord(asked[j])

OnlyEmptyWordsFreeWild == NoEmptyWordYet => FreesWhatItAllocated

\* A handler reads arguments that are not there in one case only: SET with
\* a key and no value.
OnlySetStrays ==
    \A i \in DOMAIN outcomes : outcomes[i].what = "stray" =>
        outcomes[i].verb = <<83, 69, 84>> /\ Len(outcomes[i].args) = 1

(***************************************************************************)
(* Every command sent is answered, unless the parser comes to free what it *)
(* has not allocated; and where the peer has sent an empty word, which a   *)
(* client of Redis may, the parser does come to that: the length 0 is      *)
(* refused (NumParser::consume) before the word has a buffer.              *)
(***************************************************************************)
EmptyWordSent == \E j \in DOMAIN asked : ~NoEmptyWord(asked[j])

EveryCommandIsAnswered ==
    /\ Len(asked) > Len(outcomes) ~> Len(outcomes) = Len(asked) \/ ~FreesWhatItAllocated
    /\ EmptyWordSent ~> ~FreesWhatItAllocated
=============================================================================
