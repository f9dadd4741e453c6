----------------------------- MODULE Dispatcher -----------------------------
(***************************************************************************)
(* The map from verbs to handlers: its construction and its lookup         *)
(* (dispatcher.cc), under the order str::operator< gives its keys (str.cc).*)
(*                                                                         *)
(* A std::map is a balanced search tree.  Its keys are kept in order, and  *)
(* both operator[] and find walk down from the root and compare the verb   *)
(* with one key at a time.  Which keys these are depends on the shape of   *)
(* the tree: here every key between the two ends of what is left may be    *)
(* the next one, which covers the trees of every shape.                    *)
(*                                                                         *)
(* A word is a sequence of bytes, a byte is its code.                      *)
(***************************************************************************)
EXTENDS Integers, Sequences

CONSTANT Listed   \* the handlers in the order the constructor adds them

Word == Seq(0 .. 255)
Handler == [verb : Word, min : Nat, max : Nat, reads : Nat]

ASSUME ListedAssumption == Listed \in Seq(Handler)
VARIABLES functions,  \* m_functions: its entries in the order of the tree
          added,      \* how many of Listed the constructor has added
          search      \* the verb looked for, and the entries lo .. hi - 1
                      \* that may still be compared with it

dispatcher == <<functions, added, search>>

NoSearch == [verb |-> <<>>, lo |-> 0, hi |-> 0]

Shorter(a, b) == IF Len(a) < Len(b) THEN Len(a) ELSE Len(b)

\* str::operator<: memcmp over the bytes both words have.  A word and its
\* prefixes are equivalent.
Less(a, b) ==
    \E i \in 1 .. Shorter(a, b) : a[i] < b[i] /\ \A j \in 1 .. i - 1 : a[j] = b[j]

DispatcherInit ==
    /\ functions = <<>>
    /\ added = 0
    /\ search = NoSearch

StartSearch(v) == search' = [verb |-> v, lo |-> 1, hi |-> Len(functions) + 1]

\* The map's lower_bound: one comparison on the way down.
Probe ==
    /\ search # NoSearch
    /\ \E m \in search.lo .. search.hi - 1 :
           search' = IF Less(functions[m].verb, search.verb)
                     THEN [search EXCEPT !.lo = m + 1]
                     ELSE [search EXCEPT !.hi = m]
    /\ UNCHANGED <<functions, added>>

AtLeaf == search # NoSearch /\ search.lo = search.hi

\* The entry at the end of the walk is equivalent to the verb.
Hit == /\ search.lo <= Len(functions)
       /\ ~Less(search.verb, functions[search.lo].verb)

-----------------------------------------------------------------------------
Built == added = Len(Listed)

\* The constructor's next m_functions[verb] = handler.
Register ==
    /\ ~Built /\ search = NoSearch
    /\ StartSearch(Listed[added + 1].verb)
    /\ UNCHANGED <<functions, added>>

\* Mutant of Insert: the entry goes behind the one it was to precede.
InsertBehind ==
    /\ ~Built /\ AtLeaf
    /\ LET at == IF search.lo <= Len(functions) THEN search.lo ELSE Len(functions)
       IN  functions' = SubSeq(functions, 1, at) \o <<Listed[added + 1]>>
                        \o SubSeq(functions, at + 1, Len(functions))
    /\ added' = added + 1
    /\ search' = NoSearch

\* operator[] adds an entry, or finds an equivalent one, whose handler the
\* assignment replaces.
Insert ==
    /\ ~Built /\ AtLeaf
    /\ functions' =
           IF Hit THEN [functions EXCEPT ![search.lo] =
                            [Listed[added + 1] EXCEPT !.verb = functions[search.lo].verb]]
           ELSE SubSeq(functions, 1, search.lo - 1) \o <<Listed[added + 1]>>
                \o SubSeq(functions, search.lo, Len(functions))
    /\ added' = added + 1
    /\ search' = NoSearch

Build == Register \/ Insert \/ (~Built /\ Probe)

-----------------------------------------------------------------------------
\* Mutant of Arity: the verb is counted as an argument.
ArityWithVerb(f, n) == n \in f.min .. f.max

\* CommandHandler::operator(): the check of a command of n words.
Arity(f, n) == n - 1 \in f.min .. f.max

\* What Dispatcher::run does with a command of n words at the end of its
\* lookup.  A handler let through with fewer arguments than it reads
\* "strays" behind them.
Verdict(n) ==
    IF ~Hit THEN [verb |-> <<>>, what |-> "unknown"]
    ELSE LET f == functions[search.lo]
         IN  [verb |-> f.verb,
              what |-> IF ~Arity(f, n) THEN "arity"
                       ELSE IF n - 1 < f.reads THEN "stray" ELSE "called"]

\* The dispatcher on its own: any word may be looked for.
Find == Built /\ search = NoSearch /\ (\E v \in Word : StartSearch(v)) /\ UNCHANGED <<functions, added>>

Answer == Built /\ AtLeaf /\ search' = NoSearch /\ UNCHANGED <<functions, added>>

DispatcherNext == Build \/ Find \/ (Built /\ Probe) \/ Answer

DispatcherSpec == DispatcherInit /\ [][DispatcherNext]_dispatcher

-----------------------------------------------------------------------------
\* The order a map needs of its keys, and the handlers in it.
Sorted ==
    \A i \in 1 .. Len(functions) - 1 : Less(functions[i].verb, functions[i + 1].verb)

\* Nothing the walk has passed can be the entry looked for.
SearchIsOn ==
    search # NoSearch =>
        /\ \A i \in 1 .. search.lo - 1 : Less(functions[i].verb, search.verb)
        /\ \A i \in search.hi .. Len(functions) : ~Less(functions[i].verb, search.verb)

(***************************************************************************)
(* Although operator< is no order on words, the map stays sorted, and a    *)
(* lookup ends, whatever the shape of the tree, at the first entry that is *)
(* not less than the verb: at the listed verb itself if it is one.         *)
(***************************************************************************)
LookupIsDetermined ==
    /\ Sorted
    /\ AtLeaf => \A i \in DOMAIN functions :
           /\ (i < search.lo) <=> Less(functions[i].verb, search.verb)
           /\ functions[i].verb = search.verb => i = search.lo
=============================================================================
