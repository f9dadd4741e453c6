------------------------------ MODULE Protocol ------------------------------
(***************************************************************************)
(* The parser of a connection (protocol.cc): CommandParser, a state        *)
(* machine over the bytes of a command, and NumParser, the one inside it   *)
(* that reads the lengths.                                                 *)
(*                                                                         *)
(* A command comes as a line of words, or in chunks:                       *)
(*     *<number of words> CR LF  { $<length> CR LF <bytes> CR LF }         *)
(*                                                                         *)
(* Consuming a byte is one step.  Its verdict tells Parser::consume        *)
(* whether the command goes on, has ended, or is refused; after the last   *)
(* two the parser is reset.                                                *)
(***************************************************************************)
EXTENDS Numerals

\* The bytes that the parsers tell apart.
LF == 10
CR == 13
Blank == {9, 11, 12, 32}
Dollar == 36
Star == 42
Alpha == (65 .. 90) \cup (97 .. 122)

VARIABLES state,    \* CommandParser::state, without the prefix ss_
          num,      \* m_num: state and value of the NumParser
          argv,     \* m_argv, m_argvlen: a buffer per word in chunks, Raw
                    \* while its pointer is uninitialised
          curarg,   \* m_curarg, counted from 1: the buffer being filled
          word,     \* m_word: the word of a line
          args,     \* m_cmd: the words handed over to the command
          verdict   \* of the last byte: "ok", "end", "error"

parser == <<state, num, argv, curarg, word, args, verdict>>

Raw == [len |-> -1, data |-> <<>>]

NumReset == [state |-> "start", val |-> 0]

ParserInit ==
    /\ state = "start"
    /\ num = NumReset
    /\ argv = <<>>
    /\ curarg = 1
    /\ word = <<>>
    /\ args = <<>>
    /\ verdict = "ok"

-----------------------------------------------------------------------------
\* Mutant of Digits: the digits before the last are forgotten.
DigitsLast(n, c) == [state |-> "num", val |-> c - 48]

Digits(n, c) == [state |-> "num", val |-> n.val * 10 + (c - 48)]

\* NumParser::consume, on a byte it accepts.  A bare LF goes back to the
\* start without ending the number and without clearing it.
NumAfter(n, c) ==
    CASE c \in Digit -> Digits(n, c)
      [] c = CR      -> [n EXCEPT !.state = "cr"]
      [] c = LF      -> [n EXCEPT !.state = "start"]

NumVerdict(n, c) ==
    CASE n.state = "start" /\ c \in Digit \ {48} -> "ok"
      [] n.state = "num" /\ c \in Digit \cup {CR, LF} -> "ok"
      [] n.state = "cr" /\ c = LF -> "end"
      [] OTHER -> "error"

-----------------------------------------------------------------------------
Ok == verdict' = "ok"
End == verdict' = "end"

\* ss_start: the command begins.
Start(c) ==
    /\ state = "start"
    /\ \/ c = Star /\ state' = "star" /\ num' = NumReset /\ UNCHANGED <<word, args>>
       \/ c \in Alpha /\ state' = "letter" /\ word' = Append(word, c)
                      /\ args' = <<>> /\ UNCHANGED num
    /\ Ok
    /\ UNCHANGED <<argv, curarg>>

\* ss_letter: a line.  Every space ends a word, an empty one included.
Letter(c) ==
    /\ state = "letter"
    /\ \/ c = CR /\ Ok /\ UNCHANGED <<state, word, args>>
       \/ /\ c = LF
          /\ End
          /\ state' = "lf"
          /\ args' = IF word = <<>> THEN args ELSE Append(args, word)
          /\ word' = <<>>
       \/ /\ c \in Blank
          /\ Ok
          /\ args' = Append(args, word)
          /\ word' = <<>>
          /\ UNCHANGED state
       \/ /\ c \notin {CR, LF} \cup Blank
          /\ Ok
          /\ word' = Append(word, c)
          /\ UNCHANGED <<state, args>>
    /\ UNCHANGED <<num, argv, curarg>>

\* ss_star: the number of words, then as many buffers.
Argc(c) ==
    /\ state = "star" /\ NumVerdict(num, c) # "error"
    /\ num' = NumAfter(num, c)
    /\ \/ NumVerdict(num, c) = "ok" /\ UNCHANGED <<state, argv, curarg, args>>
       \/ /\ NumVerdict(num, c) = "end"
          /\ state' = "argc"
          /\ argv' = [i \in 1 .. num.val |-> Raw]
          /\ curarg' = 1
          /\ args' = <<>>
    /\ Ok
    /\ UNCHANGED word

\* ss_argc: a chunk begins.
Chunk(c) ==
    /\ state = "argc" /\ c = Dollar
    /\ state' = "dollar"
    /\ num' = NumReset
    /\ Ok
    /\ UNCHANGED <<argv, curarg, word, args>>

\* ss_dollar: the length of a word, then its buffer.
ArgLen(c) ==
    /\ state = "dollar"
    /\ \/ /\ NumVerdict(num, c) = "ok"
          /\ num' = NumAfter(num, c)
          /\ UNCHANGED <<state, argv>>
       \/ /\ NumVerdict(num, c) = "end"
          /\ state' = "data"
          /\ argv' = [argv EXCEPT ![curarg] = [len |-> num.val, data |-> <<>>]]
          /\ num' = NumReset
    /\ Ok
    /\ UNCHANGED <<curarg, word, args>>

\* Mutant of Full: the buffer takes one byte more than its length.
FullLate == Len(argv[curarg].data) > argv[curarg].len

Full == Len(argv[curarg].data) = argv[curarg].len

\* ss_data: the bytes of a word, whatever they are, and the one after them.
\* A bare LF there ends the command without this word.
Data(c) ==
    /\ state = "data"
    /\ \/ /\ ~Full
          /\ argv' = [argv EXCEPT ![curarg].data = Append(@, c)]
          /\ Ok
          /\ UNCHANGED state
       \/ Full /\ c = CR /\ state' = "cr" /\ Ok /\ UNCHANGED argv
       \/ Full /\ c = LF /\ state' = "lf" /\ End /\ UNCHANGED argv
    /\ UNCHANGED <<num, curarg, word, args>>

\* Mutant of WordRead: the command ends one word early.
WordReadEarly(c) ==
    /\ state = "cr" /\ c = LF
    /\ args' = Append(args, argv[curarg].data)
    /\ curarg' = curarg + 1
    /\ \/ curarg + 1 >= Len(argv) /\ state' = "lf" /\ End
       \/ curarg + 1 < Len(argv) /\ state' = "argc" /\ Ok
    /\ UNCHANGED <<num, argv, word>>

\* ss_cr: a word is complete; so is the command, if it was the last one.
WordRead(c) ==
    /\ state = "cr" /\ c = LF
    /\ args' = Append(args, argv[curarg].data)
    /\ curarg' = curarg + 1
    /\ \/ curarg = Len(argv) /\ state' = "lf" /\ End
       \/ curarg # Len(argv) /\ state' = "argc" /\ Ok
    /\ UNCHANGED <<num, argv, word>>

Accepts(c) ==
    \/ state = "start" /\ c \in Alpha \cup {Star}
    \/ state = "letter"
    \/ state \in {"star", "dollar"} /\ NumVerdict(num, c) # "error"
    \/ state = "argc" /\ c = Dollar
    \/ state = "data" /\ (Full => c \in {CR, LF})
    \/ state = "cr" /\ c = LF

Refuse(c) ==
    /\ ~Accepts(c)
    /\ verdict' = "error"
    /\ UNCHANGED <<state, num, argv, curarg, word, args>>

\* CommandParser::consume, while the verdict on the byte before is "ok".
Consume(c) ==
    \/ Start(c) \/ Letter(c) \/ Argc(c) \/ Chunk(c)
    \/ ArgLen(c) \/ Data(c) \/ WordRead(c) \/ Refuse(c)

\* Mutant of Reset: the parser stays where the command ended.
ResetNotState ==
    /\ argv' = <<>>
    /\ verdict' = "ok"
    /\ UNCHANGED <<state, num, curarg, word, args>>

\* CommandParser::reset: frees the buffer of every word.
Reset ==
    /\ state' = "start"
    /\ argv' = <<>>
    /\ verdict' = "ok"
    /\ UNCHANGED <<num, curarg, word, args>>
=============================================================================
