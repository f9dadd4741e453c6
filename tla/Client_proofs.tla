--------------------------- MODULE Client_proofs ---------------------------
(***************************************************************************)
(* Theorems about Dispatcher, for any table of handlers, any words and     *)
(* search trees of every shape; and about Client, for any commands and any *)
(* way their bytes are cut into reads.                                     *)
(***************************************************************************)
EXTENDS Client, Numerals_proofs, SequenceTheorems

-----------------------------------------------------------------------------
(***************************************************************************)
(* What operator< is.  It is a strict partial order: "not less either way" *)
(* is no equivalence ("S" is so with SADD and with SET, SADD is less than  *)
(* SET), and a map needs one.                                              *)
(***************************************************************************)
LEMMA Bytes == \A a \in Word : Len(a) \in Nat /\ \A i \in 1 .. Len(a) : a[i] \in Int
<1> DEFINE Byte == 0 .. 255
<1>1. \A b \in Byte : b \in Int
  OBVIOUS
<1> HIDE DEF Byte
<1> SUFFICES ASSUME NEW a \in Seq(Byte) PROVE Len(a) \in Nat /\ \A i \in 1 .. Len(a) : a[i] \in Int
  BY DEF Word, Byte
<1>2. Len(a) \in Nat
  BY LenProperties
<1>3. \A i \in 1 .. Len(a) : a[i] \in Byte
  BY ElementOfSeq
<1> QED
  BY <1>1, <1>2, <1>3

LEMMA ShorterBounds ==
    ASSUME NEW a \in Word, NEW b \in Word, NEW i \in Int
    PROVE  i \in 1 .. Shorter(a, b) <=> i \in 1 .. Len(a) /\ i \in 1 .. Len(b)
BY Bytes DEF Shorter

LEMMA LessIrreflexive == \A a \in Word : ~Less(a, a)
BY Bytes DEF Less, Shorter

LEMMA LessTransitive ==
    ASSUME NEW a \in Word, NEW b \in Word, NEW c \in Word, Less(a, b), Less(b, c)
    PROVE  Less(a, c)
<1>1. PICK i \in 1 .. Shorter(a, b) : a[i] < b[i] /\ \A n \in 1 .. i - 1 : a[n] = b[n]
  BY DEF Less
<1>2. PICK j \in 1 .. Shorter(b, c) : b[j] < c[j] /\ \A n \in 1 .. j - 1 : b[n] = c[n]
  BY DEF Less
<1>3. /\ i \in 1 .. Len(a) /\ i \in 1 .. Len(b)
      /\ j \in 1 .. Len(b) /\ j \in 1 .. Len(c)
  BY ShorterBounds, <1>1, <1>2
<1>4. CASE i <= j
  <2>1. i \in 1 .. Len(c) /\ i \in 1 .. Shorter(a, c)
    BY <1>3, <1>4, Bytes, ShorterBounds
  <2>2. a[i] < c[i]
    BY <1>1, <1>2, <1>3, <1>4, <2>1, Bytes
  <2>3. \A n \in 1 .. i - 1 : a[n] = c[n]
    BY <1>1, <1>2, <1>4
  <2> QED
    BY <2>1, <2>2, <2>3 DEF Less
<1>5. CASE j < i
  <2>1. j \in 1 .. Len(a) /\ j \in 1 .. Shorter(a, c)
    BY <1>3, <1>5, Bytes, ShorterBounds
  <2>2. a[j] < c[j]
    BY <1>1, <1>2, <1>3, <1>5, <2>1, Bytes
  <2>3. \A n \in 1 .. j - 1 : a[n] = c[n]
    BY <1>1, <1>2, <1>5
  <2> QED
    BY <2>1, <2>2, <2>3 DEF Less
<1> QED
  BY <1>3, <1>4, <1>5

-----------------------------------------------------------------------------
(***************************************************************************)
(* What operator[] does to the sequence of entries when it adds one.       *)
(***************************************************************************)
Inserted(f, k, h) == SubSeq(f, 1, k - 1) \o <<h>> \o SubSeq(f, k, Len(f))

LEMMA InsertedProperties ==
    ASSUME NEW f \in Seq(Handler), NEW h \in Handler, NEW k \in 1 .. Len(f) + 1
    PROVE  /\ Inserted(f, k, h) \in Seq(Handler)
           /\ Len(Inserted(f, k, h)) = Len(f) + 1
           /\ \A i \in 1 .. Len(f) + 1 :
                  Inserted(f, k, h)[i] = IF i < k THEN f[i]
                                         ELSE IF i = k THEN h ELSE f[i - 1]
<1> DEFINE a == SubSeq(f, 1, k - 1)
           c == SubSeq(f, k, Len(f))
           ab == a \o <<h>>
<1>1. Len(f) \in Nat /\ \A i \in 1 .. Len(f) : f[i] \in Handler
  BY LenProperties, ElementOfSeq
<1>2. /\ a \in Seq(Handler) /\ Len(a) = k - 1
      /\ \A i \in 1 .. k - 1 : a[i] = f[i]
  <2>1. \A i \in 1 .. k - 1 : f[i] \in Handler
    BY <1>1
  <2>2. k - 1 \in Int
    BY <1>1
  <2>3. /\ a \in Seq(Handler)
        /\ Len(a) = IF 1 <= k - 1 THEN (k - 1) - 1 + 1 ELSE 0
        /\ \A i \in 1 .. (k - 1) - 1 + 1 : a[i] = f[1 + i - 1]
    BY <2>1, <2>2, SubSeqProperties
  <2> QED
    BY <2>3, <1>1
<1>3. /\ c \in Seq(Handler) /\ Len(c) = Len(f) - k + 1
      /\ \A i \in 1 .. Len(f) - k + 1 : c[i] = f[k + i - 1]
  <2>1. \A i \in k .. Len(f) : f[i] \in Handler
    BY <1>1
  <2>2. /\ c \in Seq(Handler)
        /\ Len(c) = IF k <= Len(f) THEN Len(f) - k + 1 ELSE 0
        /\ \A i \in 1 .. Len(f) - k + 1 : c[i] = f[k + i - 1]
    BY <1>1, <2>1, SubSeqProperties
  <2> QED
    BY <2>2, <1>1
<1>4. <<h>> \in Seq(Handler) /\ Len(<<h>>) = 1 /\ <<h>>[1] = h
  OBVIOUS
<1> HIDE DEF a, c
<1>5. /\ ab \in Seq(Handler) /\ Len(ab) = k
      /\ \A i \in 1 .. k : ab[i] = IF i < k THEN f[i] ELSE h
  <2>1. /\ ab \in Seq(Handler)
        /\ Len(ab) = Len(a) + Len(<<h>>)
        /\ \A i \in 1 .. Len(a) + Len(<<h>>) :
               ab[i] = IF i <= Len(a) THEN a[i] ELSE <<h>>[i - Len(a)]
    BY <1>2, <1>4, ConcatProperties
  <2> QED
    BY <2>1, <1>1, <1>2, <1>4
<1> HIDE DEF ab
<1>6. /\ ab \o c \in Seq(Handler)
      /\ Len(ab \o c) = Len(ab) + Len(c)
      /\ \A i \in 1 .. Len(ab) + Len(c) :
             (ab \o c)[i] = IF i <= Len(ab) THEN ab[i] ELSE c[i - Len(ab)]
  BY <1>3, <1>5, ConcatProperties
<1>7. Inserted(f, k, h) = ab \o c
  BY DEF Inserted, ab, a, c
<1> QED
  BY <1>1, <1>3, <1>5, <1>6, <1>7

-----------------------------------------------------------------------------
(***************************************************************************)
(* The inductive invariant.  Sorted speaks of neighbours; the walk needs   *)
(* the order of any two entries, and that the constructor still looks for  *)
(* the verb it is about to insert.                                         *)
(***************************************************************************)
Ordered ==
    \A i, j \in 1 .. Len(functions) : i < j => Less(functions[i].verb, functions[j].verb)

Walking ==
    search # NoSearch =>
        /\ search \in [verb : Word, lo : Nat, hi : Nat]
        /\ 1 <= search.lo /\ search.lo <= search.hi /\ search.hi <= Len(functions) + 1
        /\ ~Built => search.verb = Listed[added + 1].verb

DispatcherInv ==
    /\ functions \in Seq(Handler)
    /\ added \in 0 .. Len(Listed)
    /\ Ordered
    /\ Walking
    /\ SearchIsOn

LEMMA Entries ==
    ASSUME functions \in Seq(Handler)
    PROVE  /\ Len(functions) \in Nat
           /\ DOMAIN functions = 1 .. Len(functions)
           /\ \A i \in 1 .. Len(functions) :
                  functions[i] \in Handler /\ functions[i].verb \in Word
<1>1. \A h \in Handler : h.verb \in Word
  BY DEF Handler
<1>2. /\ Len(functions) \in Nat /\ DOMAIN functions = 1 .. Len(functions)
      /\ \A i \in 1 .. Len(functions) : functions[i] \in Handler
  BY LenProperties, ElementOfSeq
<1> QED
  BY <1>1, <1>2

LEMMA ListedEntries ==
    ASSUME added \in 0 .. Len(Listed), ~Built
    PROVE  /\ Len(Listed) \in Nat
           /\ Listed[added + 1] \in Handler
           /\ Listed[added + 1].verb \in Word
<1>1. Len(Listed) \in Nat
  BY ListedAssumption, LenProperties
<1>2. added + 1 \in 1 .. Len(Listed)
  BY <1>1 DEF Built
<1>3. Listed[added + 1] \in Handler
  BY <1>2, ListedAssumption, ElementOfSeq
<1> QED
  BY <1>1, <1>3 DEF Handler

LEMMA InvHoldsFirst == DispatcherInit => DispatcherInv
<1> SUFFICES ASSUME DispatcherInit PROVE DispatcherInv
  OBVIOUS
<1>1. functions \in Seq(Handler) /\ Len(functions) = 0
  BY EmptySeq DEF DispatcherInit
<1>2. Len(Listed) \in Nat
  BY ListedAssumption, LenProperties
<1>3. Walking /\ SearchIsOn
  BY DEF DispatcherInit, Walking, SearchIsOn
<1>4. added \in 0 .. Len(Listed)
  BY <1>2 DEF DispatcherInit
<1>5. Ordered
  BY <1>1 DEF Ordered
<1> QED
  BY <1>1, <1>3, <1>4, <1>5 DEF DispatcherInv

LEMMA StartKeepsInv ==
    ASSUME DispatcherInv, NEW v \in Word, StartSearch(v),
           UNCHANGED <<functions, added>>, Built \/ v = Listed[added + 1].verb
    PROVE  DispatcherInv'
<1>1. Len(functions) \in Nat
  BY Entries DEF DispatcherInv
<1>2. search' = [verb |-> v, lo |-> 1, hi |-> Len(functions) + 1]
  BY DEF StartSearch
<1>3. Walking'
  BY <1>1, <1>2 DEF Walking, Built
<1>4. SearchIsOn'
  BY <1>1, <1>2 DEF SearchIsOn
<1> QED
  BY <1>3, <1>4 DEF DispatcherInv, Ordered

(***************************************************************************)
(* One comparison decides about all the entries on one side of the key,    *)
(* because the entries are in order and the order is transitive.           *)
(***************************************************************************)
LEMMA ProbeKeepsInv == DispatcherInv /\ Probe => DispatcherInv'
<1> SUFFICES ASSUME DispatcherInv, Probe PROVE DispatcherInv'
  OBVIOUS
<1>1. /\ Len(functions) \in Nat
      /\ \A i \in 1 .. Len(functions) : functions[i].verb \in Word
  BY Entries DEF DispatcherInv
<1>2. /\ search # NoSearch
      /\ search \in [verb : Word, lo : Nat, hi : Nat]
      /\ 1 <= search.lo /\ search.hi <= Len(functions) + 1
      /\ search.verb \in Word
  BY DEF DispatcherInv, Walking, Probe
<1>3. PICK m \in search.lo .. search.hi - 1 :
          search' = IF Less(functions[m].verb, search.verb)
                    THEN [search EXCEPT !.lo = m + 1]
                    ELSE [search EXCEPT !.hi = m]
  BY DEF Probe
<1>4. m \in 1 .. Len(functions) /\ m < search.hi /\ search.lo <= m
  BY <1>1, <1>2, <1>3
<1>5. UNCHANGED <<functions, added>>
  BY DEF Probe
<1>6. CASE Less(functions[m].verb, search.verb)
  <2>1. search' = [search EXCEPT !.lo = m + 1]
    BY <1>3, <1>6
  <2>2. /\ search' \in [verb : Word, lo : Nat, hi : Nat]
        /\ search'.verb = search.verb /\ search'.lo = m + 1 /\ search'.hi = search.hi
    BY <1>1, <1>2, <1>4, <2>1
  <2>3. ASSUME NEW i \in 1 .. search'.lo - 1
        PROVE  Less(functions[i].verb, search.verb)
    <3>1. i \in 1 .. Len(functions) /\ i <= m
      BY <1>1, <1>4, <2>2
    <3>2. CASE i = m
      BY <3>2, <1>6
    <3>3. CASE i < m
      <4>1. Less(functions[i].verb, functions[m].verb)
        BY <1>4, <3>1, <3>3 DEF DispatcherInv, Ordered
      <4> QED
        BY <1>1, <1>2, <1>4, <1>6, <3>1, <4>1, LessTransitive
    <3> QED
      BY <1>4, <3>1, <3>2, <3>3
  <2>4. SearchIsOn'
    BY <1>2, <1>5, <2>2, <2>3 DEF SearchIsOn, DispatcherInv
  <2>5. Walking'
    BY <1>2, <1>4, <1>5, <2>2 DEF Walking, DispatcherInv, Built
  <2> QED
    BY <1>5, <2>4, <2>5 DEF DispatcherInv, Ordered
<1>7. CASE ~Less(functions[m].verb, search.verb)
  <2>1. search' = [search EXCEPT !.hi = m]
    BY <1>3, <1>7
  <2>2. /\ search' \in [verb : Word, lo : Nat, hi : Nat]
        /\ search'.verb = search.verb /\ search'.lo = search.lo /\ search'.hi = m
    BY <1>1, <1>2, <1>4, <2>1
  <2>3. ASSUME NEW i \in m .. Len(functions)
        PROVE  ~Less(functions[i].verb, search.verb)
    <3>1. i \in 1 .. Len(functions)
      BY <1>1, <1>4
    <3>2. CASE i = m
      BY <3>2, <1>7
    <3>3. CASE m < i
      <4>1. Less(functions[m].verb, functions[i].verb)
        BY <1>4, <3>1, <3>3 DEF DispatcherInv, Ordered
      <4> QED
        BY <1>1, <1>2, <1>4, <1>7, <3>1, <4>1, LessTransitive
    <3> QED
      BY <1>4, <3>1, <3>2, <3>3
  <2>4. SearchIsOn'
    BY <1>2, <1>5, <2>2, <2>3 DEF SearchIsOn, DispatcherInv
  <2>5. Walking'
    BY <1>2, <1>4, <1>5, <2>2 DEF Walking, DispatcherInv, Built
  <2> QED
    BY <1>5, <2>4, <2>5 DEF DispatcherInv, Ordered
<1> QED
  BY <1>6, <1>7

(***************************************************************************)
(* The walk has ended between the entries less than the verb and those not *)
(* less.  An entry equivalent to the verb keeps its own, so the words of   *)
(* the map do not change; a new one goes where the order wants it.         *)
(***************************************************************************)
LEMMA InsertKeepsInv == DispatcherInv /\ Insert => DispatcherInv'
<1> SUFFICES ASSUME DispatcherInv, Insert PROVE DispatcherInv'
  OBVIOUS
<1> DEFINE v == search.verb
           h == Listed[added + 1]
           k == search.lo
<1>1. /\ functions \in Seq(Handler)
      /\ Len(functions) \in Nat
      /\ \A i \in 1 .. Len(functions) :
             functions[i] \in Handler /\ functions[i].verb \in Word
  BY Entries DEF DispatcherInv
<1>2. /\ h \in Handler /\ h.verb \in Word /\ Len(Listed) \in Nat
      /\ added' = added + 1 /\ added' \in 0 .. Len(Listed)
  BY ListedEntries DEF DispatcherInv, Insert, Built
<1>3. /\ search # NoSearch /\ k = search.hi /\ k \in 1 .. Len(functions) + 1
      /\ v \in Word /\ v = h.verb
  BY <1>1 DEF DispatcherInv, Walking, Insert, AtLeaf
<1>4. /\ \A i \in 1 .. k - 1 : Less(functions[i].verb, v)
      /\ \A i \in k .. Len(functions) : ~Less(functions[i].verb, v)
  BY <1>3 DEF DispatcherInv, SearchIsOn
<1>5. Walking' /\ SearchIsOn'
  BY DEF Insert, Walking, SearchIsOn
<1>6. CASE Hit
  <2>1. k \in 1 .. Len(functions)
    BY <1>1, <1>3, <1>6 DEF Hit
  <2> DEFINE e == [h EXCEPT !.verb = functions[k].verb]
  <2>2. e \in Handler /\ e.verb = functions[k].verb
    BY <1>1, <1>2, <2>1 DEF Handler
  <2>3. functions' = [functions EXCEPT ![k] = e]
    BY <1>6 DEF Insert
  <2> HIDE DEF e, h
  <2>4. /\ functions' \in Seq(Handler)
        /\ Len(functions') = Len(functions)
        /\ \A j \in 1 .. Len(functions) : functions'[j] = IF j = k THEN e ELSE functions[j]
    BY <1>1, <2>1, <2>2, <2>3, ExceptSeq
  <2>5. \A j \in 1 .. Len(functions) : functions'[j].verb = functions[j].verb
    BY <2>2, <2>4
  <2>6. Ordered'
    BY <2>4, <2>5 DEF DispatcherInv, Ordered
  <2> QED
    BY <1>2, <1>5, <2>4, <2>6 DEF DispatcherInv
<1>7. CASE ~Hit
  <2> DEFINE g == Inserted(functions, k, h)
  <2>1. functions' = g
    BY <1>7 DEF Insert, Inserted
  <2>2. /\ g \in Seq(Handler)
        /\ Len(g) = Len(functions) + 1
        /\ \A i \in 1 .. Len(functions) + 1 :
               g[i] = IF i < k THEN functions[i] ELSE IF i = k THEN h ELSE functions[i - 1]
    <3>1. functions \in Seq(Handler) /\ h \in Handler /\ k \in 1 .. Len(functions) + 1
      BY <1>1, <1>2, <1>3
    <3> HIDE DEF h, k
    <3> QED
      BY ONLY <3>1, InsertedProperties
  <2> HIDE DEF g, h
  <2>3. \A i \in k .. Len(functions) : Less(v, functions[i].verb)
    <3> SUFFICES ASSUME NEW i \in k .. Len(functions) PROVE Less(v, functions[i].verb)
      OBVIOUS
    <3>1. k \in 1 .. Len(functions) /\ i \in 1 .. Len(functions)
      BY <1>1, <1>3
    <3>2. Less(v, functions[k].verb)
      BY <1>1, <1>7, <3>1 DEF Hit
    <3>3. CASE i = k
      BY <3>2, <3>3
    <3>4. CASE k < i
      <4>1. Less(functions[k].verb, functions[i].verb)
        BY <3>1, <3>4 DEF DispatcherInv, Ordered
      <4> QED
        BY <1>1, <1>3, <3>1, <3>2, <4>1, LessTransitive
    <3> QED
      BY <1>1, <1>3, <3>3, <3>4
  <2>4. ASSUME NEW i \in 1 .. Len(functions) + 1, NEW j \in 1 .. Len(functions) + 1, i < j
        PROVE  Less(g[i].verb, g[j].verb)
    <3>1. CASE j < k
      <4>1. g[i] = functions[i] /\ g[j] = functions[j]
        BY <2>2, <2>4, <3>1, <1>1, <1>3
      <4>2. i \in 1 .. Len(functions) /\ j \in 1 .. Len(functions)
        BY <2>4, <3>1, <1>1, <1>3
      <4> QED
        BY <4>1, <4>2, <2>4 DEF DispatcherInv, Ordered
    <3>2. CASE j = k
      <4>1. g[i] = functions[i] /\ g[j] = h /\ i \in 1 .. k - 1
        BY <2>2, <2>4, <3>2, <1>1, <1>3
      <4> QED
        BY <4>1, <1>3, <1>4
    <3>3. CASE i = k
      <4>1. g[i] = h /\ g[j] = functions[j - 1] /\ j - 1 \in k .. Len(functions)
        BY <2>2, <2>4, <3>3, <1>1, <1>3
      <4> QED
        BY <4>1, <1>3, <2>3
    <3>4. CASE i < k /\ k < j
      <4>1. /\ g[i] = functions[i] /\ g[j] = functions[j - 1]
            /\ i \in 1 .. Len(functions) /\ j - 1 \in 1 .. Len(functions) /\ i < j - 1
        BY <2>2, <2>4, <3>4, <1>1, <1>3
      <4> QED
        BY <4>1 DEF DispatcherInv, Ordered
    <3>5. CASE k < i
      <4>1. /\ g[i] = functions[i - 1] /\ g[j] = functions[j - 1]
            /\ i - 1 \in 1 .. Len(functions) /\ j - 1 \in 1 .. Len(functions)
            /\ i - 1 < j - 1
        BY <2>2, <2>4, <3>5, <1>1, <1>3
      <4> QED
        BY <4>1 DEF DispatcherInv, Ordered
    <3> QED
      BY <2>4, <3>1, <3>2, <3>3, <3>4, <3>5, <1>1, <1>3
  <2>5. Ordered'
    BY <2>1, <2>2, <2>4 DEF Ordered
  <2> QED
    BY <1>2, <1>5, <2>1, <2>2, <2>5 DEF DispatcherInv
<1> QED
  BY <1>6, <1>7

-----------------------------------------------------------------------------
LEMMA StepKeepsInv == DispatcherInv /\ [DispatcherNext]_dispatcher => DispatcherInv'
<1> SUFFICES ASSUME DispatcherInv, [DispatcherNext]_dispatcher PROVE DispatcherInv'
  OBVIOUS
<1>1. CASE Register
  <2>1. Listed[added + 1].verb \in Word
    BY <1>1, ListedEntries DEF Register, DispatcherInv
  <2> QED
    BY <1>1, <2>1, StartKeepsInv DEF Register
<1>2. CASE Insert
  BY <1>2, InsertKeepsInv
<1>3. CASE Probe
  BY <1>3, ProbeKeepsInv
<1>4. CASE Find
  BY <1>4, StartKeepsInv DEF Find
<1>5. CASE Answer
  BY <1>5 DEF Answer, DispatcherInv, Ordered, Walking, SearchIsOn
<1>6. CASE UNCHANGED dispatcher
  BY <1>6 DEF dispatcher, DispatcherInv, Ordered, Walking, SearchIsOn, Built
<1> QED
  BY <1>1, <1>2, <1>3, <1>4, <1>5, <1>6 DEF DispatcherNext, Build

(***************************************************************************)
(* The end of a walk is the only entry that can be the verb: one before it *)
(* is less, and one behind it that is the verb would have the entry at the *)
(* end before it, which is not less than the verb.                         *)
(***************************************************************************)
LEMMA InvDetermines == DispatcherInv => LookupIsDetermined
<1> SUFFICES ASSUME DispatcherInv PROVE LookupIsDetermined
  OBVIOUS
<1>1. /\ Len(functions) \in Nat
      /\ DOMAIN functions = 1 .. Len(functions)
      /\ \A i \in 1 .. Len(functions) : functions[i].verb \in Word
  BY Entries DEF DispatcherInv
<1>2. Sorted
  BY <1>1 DEF Sorted, DispatcherInv, Ordered
<1>3. ASSUME AtLeaf, NEW i \in 1 .. Len(functions)
      PROVE  /\ (i < search.lo) <=> Less(functions[i].verb, search.verb)
             /\ functions[i].verb = search.verb => i = search.lo
  <2>1. /\ search # NoSearch /\ search.lo = search.hi
        /\ search.lo \in 1 .. Len(functions) + 1 /\ search.verb \in Word
    BY <1>1, <1>3 DEF AtLeaf, DispatcherInv, Walking
  <2>2. (i < search.lo) <=> Less(functions[i].verb, search.verb)
    BY <1>1, <2>1 DEF DispatcherInv, SearchIsOn
  <2>3. ASSUME functions[i].verb = search.verb PROVE i = search.lo
    <3>1. ~(i < search.lo)
      BY <2>1, <2>2, <2>3, LessIrreflexive
    <3>2. ASSUME search.lo < i PROVE FALSE
      <4>1. search.lo \in 1 .. Len(functions)
        BY <1>1, <2>1, <3>2
      <4>2. Less(functions[search.lo].verb, functions[i].verb)
        BY <3>2, <4>1 DEF DispatcherInv, Ordered
      <4>3. ~Less(functions[search.lo].verb, search.verb)
        BY <2>1, <4>1 DEF DispatcherInv, SearchIsOn
      <4> QED
        BY <2>3, <4>2, <4>3
    <3> QED
      BY <1>1, <2>1, <3>1, <3>2
  <2> QED
    BY <2>2, <2>3
<1> QED
  BY <1>1, <1>2, <1>3 DEF LookupIsDetermined

(***************************************************************************)
(* For any table of handlers the map is sorted, and every lookup of every  *)
(* word ends at an entry that does not depend on the shape of the tree: at *)
(* the verb itself if it is there (Dispatcher::Dispatcher and run).        *)
(***************************************************************************)
THEOREM LookupsAreDetermined == DispatcherSpec => []LookupIsDetermined
<1>1. DispatcherInit => DispatcherInv
  BY InvHoldsFirst
<1>2. DispatcherInv /\ [DispatcherNext]_dispatcher => DispatcherInv'
  BY StepKeepsInv
<1>3. DispatcherInv => LookupIsDetermined
  BY InvDetermines
<1> QED
  BY <1>1, <1>2, <1>3, PTL DEF DispatcherSpec

-----------------------------------------------------------------------------
(***************************************************************************)
(* Sequences that begin with an element, and Concat from either end.       *)
(***************************************************************************)
LEMMA Cons ==
    ASSUME NEW S, NEW x \in S, NEW s \in Seq(S)
    PROVE  /\ <<x>> \in Seq(S) /\ <<x>> \o s \in Seq(S) /\ <<x>> \o s # <<>>
           /\ Head(<<x>> \o s) = x /\ Tail(<<x>> \o s) = s
<1>1. <<x>> \in Seq(S) /\ Len(<<x>>) = 1
    OBVIOUS
<1>2. /\ <<x>> \o s \in Seq(S) /\ Len(<<x>> \o s) = 1 + Len(s)
      /\ \A i \in 1 .. 1 + Len(s) :
             (<<x>> \o s)[i] = IF i <= 1 THEN x ELSE s[i - 1]
    BY <1>1, ConcatProperties
<1> DEFINE t == <<x>> \o s
<1>3. Len(s) \in Nat
    BY LenProperties
<1>4. t # <<>>
    BY <1>2, <1>3, EmptySeq
<1>5. Head(t) = x
    BY <1>2, <1>3
<1>6. /\ Tail(t) \in Seq(S) /\ Len(Tail(t)) = Len(t) - 1
      /\ \A i \in 1 .. Len(Tail(t)) : Tail(t)[i] = t[i + 1]
    BY <1>2, <1>4, HeadTailProperties
<1>7. Tail(t) = s
    <2>1. Len(Tail(t)) = Len(s)
        BY <1>2, <1>3, <1>6
    <2>2. ASSUME NEW i \in 1 .. Len(s) PROVE Tail(t)[i] = s[i]
        BY <1>2, <1>3, <1>6, <2>1
    <2> HIDE DEF t
    <2> QED BY <1>6, <2>1, <2>2, SeqEqual
<1> QED BY <1>1, <1>2, <1>4, <1>5, <1>7

LEMMA HeadAndTail ==
    ASSUME NEW S, NEW s \in Seq(S), s # <<>>
    PROVE  Head(s) \in S /\ Tail(s) \in Seq(S) /\ s = <<Head(s)>> \o Tail(s)
<1>1. /\ Head(s) \in S /\ Tail(s) \in Seq(S) /\ Len(Tail(s)) = Len(s) - 1
      /\ \A i \in 1 .. Len(Tail(s)) : Tail(s)[i] = s[i + 1]
    BY HeadTailProperties
<1>2. Len(s) \in Nat \ {0}
    BY EmptySeq
<1>3. <<Head(s)>> \in Seq(S) /\ Len(<<Head(s)>>) = 1 /\ <<Head(s)>>[1] = Head(s)
    BY <1>1
<1> DEFINE h == <<Head(s)>>
           t == Tail(s)
<1>5. /\ h \o t \in Seq(S) /\ Len(h \o t) = Len(h) + Len(t)
      /\ \A i \in 1 .. Len(h) + Len(t) :
             (h \o t)[i] = IF i <= Len(h) THEN h[i] ELSE t[i - Len(h)]
    <2> HIDE DEF h, t
    <2> QED BY <1>1, <1>3, ConcatProperties DEF h, t
<1>6. ASSUME NEW i \in 1 .. Len(s) PROVE (h \o t)[i] = s[i]
    <2>1. CASE i = 1
        <3>1. (h \o t)[1] = Head(s)
            BY <1>1, <1>2, <1>3, <1>5
        <3> QED BY <2>1, <3>1
    <2>2. CASE i # 1
        <3>1. i - 1 \in 1 .. Len(t) /\ i \in 1 .. Len(h) + Len(t) /\ ~(i <= Len(h))
            BY <1>1, <1>2, <1>3, <2>2
        <3>2. (h \o t)[i] = t[i - 1]
            BY <1>3, <1>5, <3>1
        <3>3. t[i - 1] = s[(i - 1) + 1]
            BY <1>1, <3>1
        <3> QED BY <1>2, <3>2, <3>3
    <2> QED BY <2>1, <2>2
<1>7. Len(h \o t) = Len(s)
    BY <1>1, <1>2, <1>3, <1>5
<1> HIDE DEF h, t
<1>8. h \o t = s
    BY <1>5, <1>6, <1>7, SeqEqual
<1> QED BY <1>1, <1>8 DEF h, t

\* What Concat has put together after n sequences.
Joins(u, f, S) ==
    /\ u \in [0 .. Len(f) -> Seq(S)] /\ u[0] = <<>>
    /\ \A n \in 1 .. Len(f) : u[n] = u[n - 1] \o f[n]

LEMMA ConcatJoins ==
    ASSUME NEW S, NEW f \in Seq(Seq(S))
    PROVE  \E u : Joins(u, f, S) /\ Concat(f) = u[Len(f)]
<1> DEFINE L == Len(f)
           IsUpto(u) == u = [n \in 0 .. L |-> IF n = 0 THEN <<>> ELSE u[n - 1] \o f[n]]
           upto == CHOOSE u : IsUpto(u)
           V == Seq(S)
           F == [n \in Nat |-> [s \in V |-> IF n + 1 \in 1 .. L THEN s \o f[n + 1] ELSE s]]
<1>1. L \in Nat /\ \A n \in 1 .. L : f[n] \in V
    BY LenProperties, ElementOfSeq
<1>2. Concat(f) = upto[L]
    BY DEF Concat
<1>3. PICK g : Goes(g, V, <<>>, F)
    <2>1. \A s \in V, n \in 1 .. L : s \o f[n] \in V
        BY <1>1, ConcatProperties
    <2>2. F \in [Nat -> [V -> V]]
        BY <2>1
    <2>3. <<>> \in V
        BY EmptySeq
    <2> HIDE DEF F, V
    <2> QED BY <2>2, <2>3, Recursion
<1> DEFINE h == [n \in 0 .. L |-> g[n]]
<1>4. /\ h \in [0 .. L -> V] /\ h[0] = <<>>
      /\ \A n \in 1 .. L : h[n] = h[n - 1] \o f[n]
    <2>1. g \in [Nat -> V] /\ g[0] = <<>> /\ \A n \in Nat : g[n + 1] = F[n][g[n]]
        BY <1>3 DEF Goes
    <2>2. ASSUME NEW n \in 1 .. L PROVE h[n] = h[n - 1] \o f[n]
        <3>1. n - 1 \in Nat /\ (n - 1) + 1 = n /\ n - 1 \in 0 .. L /\ n \in 0 .. L
            BY <1>1
        <3>2. g[n] = F[n - 1][g[n - 1]] /\ g[n - 1] \in V
            BY <2>1, <3>1
        <3>3. F[n - 1][g[n - 1]] = g[n - 1] \o f[n]
            BY <3>1, <3>2
        <3> QED BY <3>1, <3>2, <3>3
    <2>3. \A n \in 0 .. L : n \in Nat /\ g[n] \in V
        BY <1>1, <2>1
    <2>4. h \in [0 .. L -> V]
        BY <2>3
    <2>5. h[0] = <<>>
        BY <1>1, <2>1
    <2> HIDE DEF h, V
    <2> QED BY <2>2, <2>4, <2>5
<1>5. IsUpto(h)
    <2>1. ASSUME NEW n \in 0 .. L PROVE h[n] = IF n = 0 THEN <<>> ELSE h[n - 1] \o f[n]
        <3>1. n = 0 \/ n \in 1 .. L
            BY <1>1
        <3> HIDE DEF h, V
        <3> QED BY <1>4, <3>1
    <2> HIDE DEF V
    <2> QED BY <2>1
<1>6. IsUpto(upto)
    <2> HIDE DEF IsUpto, h
    <2> QED BY <1>5
<1> HIDE DEF upto
<1>7. ASSUME NEW n \in 0 .. L PROVE upto[n] = IF n = 0 THEN <<>> ELSE upto[n - 1] \o f[n]
    BY <1>6, Zenon
<1>8. DOMAIN upto = 0 .. L
    BY <1>6, Zenon
<1>10. upto = h
    <2> DEFINE M == {n \in Nat : n <= L => upto[n] = h[n]}
    <2>1. 0 \in M
        BY <1>1, <1>4, <1>7
    <2>2. ASSUME NEW n \in Nat, n \in M PROVE n + 1 \in M
        <3> SUFFICES ASSUME n + 1 <= L PROVE upto[n + 1] = h[n + 1]
            OBVIOUS
        <3> HIDE DEF h, V
        <3>0. n + 1 \in 1 .. L /\ n + 1 \in 0 .. L /\ n + 1 # 0 /\ (n + 1) - 1 = n
            BY <1>1
        <3>1. upto[n + 1] = upto[n] \o f[n + 1]
            BY <1>7, <3>0
        <3>2. h[n + 1] = h[n] \o f[n + 1]
            BY <1>4, <3>0
        <3>3. upto[n] = h[n]
            BY <1>1, <2>2
        <3> QED BY <3>1, <3>2, <3>3
    <2> HIDE DEF M, h
    <2>3. Nat \subseteq M
        BY <2>1, <2>2, Induct
    <2>4. \A n \in 0 .. L : upto[n] = h[n]
        <3> SUFFICES ASSUME NEW n \in 0 .. L PROVE upto[n] = h[n]
            OBVIOUS
        <3>1. n \in Nat /\ n <= L
            BY <1>1
        <3> QED BY <2>3, <3>1 DEF M
    <2>5. upto = [n \in 0 .. L |-> upto[n]]
        BY <1>6, <1>8, Zenon
    <2>6. h = [n \in 0 .. L |-> h[n]]
        BY DEF h
    <2> QED BY <2>4, <2>5, <2>6
<1>11. Joins(h, f, S)
    BY <1>4 DEF Joins
<1> QED BY <1>2, <1>10, <1>11

LEMMA ConcatOfNone == Concat(<<>>) = <<>>
<1>1. <<>> \in Seq(Seq({})) /\ Len(<<>>) = 0
    BY EmptySeq
<1>2. PICK u : Joins(u, <<>>, {}) /\ Concat(<<>>) = u[0]
    BY <1>1, ConcatJoins
<1> QED BY <1>2 DEF Joins

LEMMA ConcatIsSeq ==
    ASSUME NEW S, NEW f \in Seq(Seq(S))
    PROVE  Concat(f) \in Seq(S)
<1>1. PICK u : Joins(u, f, S) /\ Concat(f) = u[Len(f)]
    BY ConcatJoins
<1>2. Len(f) \in 0 .. Len(f)
    BY LenProperties
<1> QED BY <1>1, <1>2 DEF Joins

LEMMA ConcatOfAppend ==
    ASSUME NEW S, NEW f \in Seq(Seq(S)), NEW a \in Seq(S)
    PROVE  Concat(Append(f, a)) = Concat(f) \o a
<1> DEFINE g == Append(f, a)
           L == Len(f)
<1>1. /\ g \in Seq(Seq(S)) /\ Len(g) = L + 1 /\ L \in Nat
      /\ (\A n \in 1 .. L : g[n] = f[n]) /\ g[L + 1] = a
    BY AppendProperties, LenProperties
<1>2. PICK u : Joins(u, f, S) /\ Concat(f) = u[L]
    BY ConcatJoins
<1> HIDE DEF g
<1>3. PICK w : Joins(w, g, S) /\ Concat(g) = w[L + 1]
    BY <1>1, ConcatJoins
<1> DEFINE M == {n \in Nat : n <= L => u[n] = w[n]}
<1>4. 0 \in M
    BY <1>2, <1>3 DEF Joins
<1>5. ASSUME NEW n \in Nat, n \in M PROVE n + 1 \in M
    <2> SUFFICES ASSUME n + 1 <= L PROVE u[n + 1] = w[n + 1]
        OBVIOUS
    <2>1. n + 1 \in 1 .. L /\ n + 1 \in 1 .. L + 1 /\ (n + 1) - 1 = n /\ u[n] = w[n]
        BY <1>1, <1>5
    <2>2. u[n + 1] = u[(n + 1) - 1] \o f[n + 1]
        BY <1>2, <2>1 DEF Joins
    <2>3. w[n + 1] = w[(n + 1) - 1] \o g[n + 1]
        BY <1>1, <1>3, <2>1 DEF Joins
    <2> QED BY <1>1, <2>1, <2>2, <2>3
<1> HIDE DEF M
<1>6. L \in M
    BY <1>1, <1>4, <1>5, Induct
<1>7. u[L] = w[L]
    BY <1>1, <1>6 DEF M
<1>8. w[L + 1] = w[L] \o g[L + 1]
    <2>1. L + 1 \in 1 .. Len(g) /\ (L + 1) - 1 = L
        BY <1>1
    <2>2. w[L + 1] = w[(L + 1) - 1] \o g[L + 1]
        BY <1>3, <2>1 DEF Joins
    <2> QED BY <2>1, <2>2
<1> QED BY <1>1, <1>2, <1>3, <1>7, <1>8 DEF g

LEMMA ConcatOfCons ==
    ASSUME NEW S, NEW f \in Seq(Seq(S)), NEW a \in Seq(S)
    PROVE  Concat(<<a>> \o f) = a \o Concat(f)
<1> DEFINE g == <<a>> \o f
           L == Len(f)
<1>1. /\ g \in Seq(Seq(S)) /\ Len(g) = L + 1 /\ L \in Nat
      /\ (\A n \in 1 .. L : g[n + 1] = f[n] /\ f[n] \in Seq(S)) /\ g[1] = a
    <2>1. <<a>> \in Seq(Seq(S)) /\ Len(<<a>>) = 1 /\ <<a>>[1] = a
        OBVIOUS
    <2>2. /\ g \in Seq(Seq(S)) /\ Len(g) = 1 + L
          /\ \A i \in 1 .. 1 + L : g[i] = IF i <= 1 THEN <<a>>[i] ELSE f[i - 1]
        BY <2>1, ConcatProperties
    <2>3. L \in Nat /\ \A n \in 1 .. L : f[n] \in Seq(S)
        BY LenProperties, ElementOfSeq
    <2> HIDE DEF g
    <2>4. ASSUME NEW n \in 1 .. L PROVE g[n + 1] = f[n]
        <3>1. n + 1 \in 1 .. 1 + L /\ ~(n + 1 <= 1) /\ (n + 1) - 1 = n
            BY <2>3
        <3> QED BY <2>2, <3>1
    <2> QED BY <2>1, <2>2, <2>3, <2>4
<1>2. PICK u : Joins(u, f, S) /\ Concat(f) = u[L]
    BY ConcatJoins
<1> HIDE DEF g
<1>3. PICK w : Joins(w, g, S) /\ Concat(g) = w[L + 1]
    BY <1>1, ConcatJoins
<1> DEFINE M == {n \in Nat : n <= L => w[n + 1] = a \o u[n]}
<1>4. 0 \in M
    <2>1. w[1] = w[1 - 1] \o g[1] /\ 1 - 1 = 0
        BY <1>1, <1>3 DEF Joins
    <2>2. w[1] = <<>> \o a
        BY <1>1, <1>3, <2>1 DEF Joins
    <2>3. w[1] = a /\ a \o <<>> = a
        BY <2>2, ConcatEmptySeq
    <2> QED BY <1>2, <2>3 DEF Joins
<1>5. ASSUME NEW n \in Nat, n \in M PROVE n + 1 \in M
    <2> SUFFICES ASSUME n + 1 <= L PROVE w[(n + 1) + 1] = a \o u[n + 1]
        OBVIOUS
    <2>1. /\ n + 1 \in 1 .. L /\ (n + 1) + 1 \in 1 .. L + 1 /\ (n + 1) - 1 = n
          /\ ((n + 1) + 1) - 1 = n + 1 /\ n \in 0 .. L
        BY <1>1
    <2>0. w[n + 1] = a \o u[n]
        BY <1>5, <2>1
    <2>2. u[n + 1] = u[n] \o f[n + 1]
        BY <1>2, <2>1 DEF Joins
    <2>3. w[(n + 1) + 1] = w[n + 1] \o f[n + 1]
        BY <1>1, <1>3, <2>1 DEF Joins
    <2>4. u[n] \in Seq(S) /\ f[n + 1] \in Seq(S)
        BY <1>1, <1>2, <2>1 DEF Joins
    <2>7. (a \o u[n]) \o f[n + 1] = a \o (u[n] \o f[n + 1])
        <3> DEFINE x == u[n]
                   y == f[n + 1]
        <3>1. a \in Seq(S) /\ x \in Seq(S) /\ y \in Seq(S)
            BY <2>4
        <3> HIDE DEF x, y
        <3>2. (a \o x) \o y = a \o (x \o y)
            BY ONLY <3>1, ConcatAssociative
        <3> QED BY <3>2 DEF x, y
    <2>6. f[n + 1] = g[(n + 1) + 1]
        BY <1>1, <2>1
    <2> QED BY <2>0, <2>2, <2>3, <2>6, <2>7
<1>6. L \in M
    <2> HIDE DEF M
    <2> QED BY <1>1, <1>4, <1>5, Induct
<1>7. w[L + 1] = a \o u[L]
    BY <1>1, <1>6
<1> QED BY <1>2, <1>3, <1>7 DEF g

-----------------------------------------------------------------------------
(***************************************************************************)
(* Numerals as NumParser reads them: not empty, without a leading zero,    *)
(* and one number's alone.                                                 *)
(***************************************************************************)
LEMMA DecimalIsText ==
    \A n \in Nat : Decimal[n] \in Seq(Digit) /\ Decimal[n] # <<>>
<1> DEFINE D == {n \in Nat : ~(Decimal[n] \in Seq(Digit) /\ Decimal[n] # <<>>)}
<1> SUFFICES ASSUME D # {} PROVE FALSE
    OBVIOUS
<1>1. PICK n \in D : \A k \in D : n <= k
    BY LeastNat
<1>2. Decimal[n] = Longer(Decimal, n)
    BY DecimalIs
<1>3. CASE n < 10
    <2>1. Decimal[n] = <<48 + n>> /\ 48 + n \in Digit
        BY <1>2, <1>3 DEF Longer, Digit
    <2>2. <<48 + n>> \in Seq(Digit) /\ <<48 + n>> # <<>>
        BY <2>1
    <2>3. Decimal[n] \in Seq(Digit) /\ Decimal[n] # <<>>
        BY <2>1, <2>2
    <2> QED BY <2>3
<1>4. CASE n >= 10
    <2>1. n \div 10 \in Nat /\ n \div 10 < n /\ 48 + (n % 10) \in Digit
        BY <1>4, Quotient DEF Digit
    <2>2. Decimal[n] = Append(Decimal[n \div 10], 48 + (n % 10))
        BY <1>2, <1>4 DEF Longer
    <2>3. Decimal[n \div 10] \in Seq(Digit)
        BY <1>1, <2>1
    <2>4. Decimal[n] \in Seq(Digit) /\ Decimal[n] # <<>>
        BY <2>1, <2>2, <2>3, AppendProperties
    <2> QED BY <2>4
<1> QED BY <1>3, <1>4

LEMMA DecimalOfDigit ==
    ASSUME NEW x \in Digit
    PROVE  x - 48 \in 0 .. 9 /\ Decimal[x - 48] = <<x>>
<1>1. x - 48 \in Nat /\ x - 48 < 10 /\ 48 + (x - 48) = x
    BY DEF Digit
<1>2. Decimal[x - 48] = Longer(Decimal, x - 48)
    BY <1>1, DecimalIs
<1> QED BY <1>1, <1>2 DEF Longer

\* One more digit: the step of NumParser.
LEMMA DecimalGrows ==
    ASSUME NEW m \in Nat \ {0}, NEW x \in Digit
    PROVE  /\ m * 10 + (x - 48) \in Nat \ {0}
           /\ Decimal[m * 10 + (x - 48)] = Append(Decimal[m], x)
<1> DEFINE k == x - 48
           n == m * 10 + k
<1>1. k \in 0 .. 9 /\ 48 + k = x
    BY DEF Digit
<1> HIDE DEF k
<1>2. n \in Nat /\ n >= 10
    BY <1>1
<1>3. n = 10 * (n \div 10) + (n % 10) /\ n \div 10 \in Nat /\ n % 10 \in 0 .. 9
    BY <1>2, Quotient
<1>4. n \div 10 = m /\ n % 10 = k
    BY <1>1, <1>2, <1>3
<1>5. Decimal[n] = Longer(Decimal, n)
    BY <1>2, DecimalIs
<1>6. ~(n < 10)
    BY <1>2
<1> HIDE DEF n
<1>7. Decimal[n] = Append(Decimal[n \div 10], 48 + (n % 10))
    BY <1>5, <1>6 DEF Longer
<1> QED BY <1>1, <1>2, <1>4, <1>7 DEF n, k

LEMMA DecimalDiffers ==
    ASSUME NEW a \in Nat, NEW b \in Nat, Decimal[a] = Decimal[b]
    PROVE  a = b
<1> DEFINE D == {n \in Nat : \E k \in Nat : k # n /\ Decimal[k] = Decimal[n]}
<1> SUFFICES ASSUME D # {} PROVE FALSE
    OBVIOUS
<1>1. PICK n \in D : \A k \in D : n <= k
    BY LeastNat
<1>2. PICK k \in Nat : k # n /\ Decimal[k] = Decimal[n]
    BY <1>1
<1>3. n \in Nat /\ n < k
    BY <1>1, <1>2
<1>4. Decimal[n] = Longer(Decimal, n) /\ Decimal[k] = Longer(Decimal, k)
    BY <1>3, DecimalIs
<1>5. /\ n \div 10 \in Nat /\ n % 10 \in 0 .. 9 /\ n = 10 * (n \div 10) + (n % 10)
      /\ n >= 10 => n \div 10 < n
      /\ k \div 10 \in Nat /\ k % 10 \in 0 .. 9 /\ k = 10 * (k \div 10) + (k % 10)
    BY <1>3, Quotient
<1>6. CASE k < 10
    <2>1. <<48 + n>> = <<48 + k>>
        BY <1>2, <1>3, <1>4, <1>6 DEF Longer
    <2>2. 48 + n = 48 + k
        BY <2>1
    <2> QED BY <1>3, <2>2
<1>7. CASE k >= 10
    <2> DEFINE q == k \div 10
               e == 48 + (k % 10)
    <2>1. /\ Decimal[q] \in Seq(Digit) /\ Decimal[q] # <<>> /\ e \in Digit
          /\ Len(Decimal[q]) \in Nat \ {0}
        BY <1>5, DecimalIsText, EmptySeq DEF Digit
    <2>2. Decimal[k] = Append(Decimal[q], e)
        <3>1. ~(k < 10)
            BY <1>1, <1>7
        <3> QED BY <1>4, <3>1 DEF Longer
    <2>3. Len(Decimal[k]) = Len(Decimal[q]) + 1
        BY <2>1, <2>2, AppendProperties
    <2>4. CASE n < 10
        <3>1. Decimal[n] = <<48 + n>>
            BY <1>4, <2>4 DEF Longer
        <3>2. Len(Decimal[n]) = 1
            BY <3>1
        <3>3. Len(Decimal[k]) = 1
            BY <1>2, <3>2
        <3> HIDE DEF q, e
        <3>4. Len(Decimal[q]) + 1 = 1
            BY <2>3, <3>3
        <3>5. Len(Decimal[q]) \in Nat \ {0}
            BY <2>1
        <3>6. \A i \in Nat \ {0} : i + 1 # 1
            OBVIOUS
        <3> QED BY <3>4, <3>5, <3>6
    <2>5. CASE n >= 10
        <3> DEFINE p == n \div 10
                   d == 48 + (n % 10)
        <3>0. p \in Nat /\ d \in Digit
            BY <1>5 DEF Digit
        <3>1. Decimal[p] \in Seq(Digit) /\ d \in Digit
            BY <3>0, DecimalIsText
        <3>2. Decimal[n] = Append(Decimal[p], d)
            <4>1. ~(n < 10)
                BY <1>3, <2>5
            <4> QED BY <1>4, <4>1 DEF Longer
        <3>3. Append(Decimal[p], d) = Append(Decimal[q], e)
            BY <1>2, <2>2, <3>2
        <3>4. Decimal[p] = Decimal[q] /\ d = e
            <4> DEFINE s == Decimal[p]
                       t == Decimal[q]
            <4>1. s \in Seq(Digit) /\ t \in Seq(Digit) /\ d \in Digit /\ e \in Digit
                  /\ Append(s, d) = Append(t, e)
                BY <2>1, <3>1, <3>3
            <4> HIDE DEF s, t, d, e
            <4>2. s = t /\ d = e
                BY <4>1, AppendInjective
            <4> QED BY <4>2 DEF s, t
        <3>5. p \in Nat /\ p < n /\ q \in Nat
            BY <1>5, <2>5
        <3>6. p \notin D
            BY <1>1, <1>3, <3>5
        <3>7. p = q
            BY <3>4, <3>5, <3>6
        <3> QED BY <1>2, <1>5, <3>4, <3>7
    <2> QED BY <1>3, <2>4, <2>5
<1> QED BY <1>2, <1>6, <1>7

\* A positive number does not begin with 0.
LEMMA NoLeadingZero ==
    ASSUME NEW n \in Nat \ {0}
    PROVE  Head(Decimal[n]) \in Digit \ {48}
<1> DEFINE D == {k \in Nat \ {0} : Head(Decimal[k]) \notin Digit \ {48}}
<1> SUFFICES ASSUME D # {} PROVE FALSE
    OBVIOUS
<1>1. PICK k \in D : \A j \in D : k <= j
    BY LeastNat
<1>2. Decimal[k] = Longer(Decimal, k)
    BY DecimalIs
<1>3. CASE k < 10
    <2>1. Decimal[k] = <<48 + k>>
        BY <1>2, <1>3 DEF Longer
    <2> QED BY <1>1, <1>3, <2>1 DEF Digit
<1>4. CASE k >= 10
    <2>1. k \div 10 \in Nat /\ k \div 10 < k /\ k = 10 * (k \div 10) + (k % 10) /\ k % 10 \in 0 .. 9
        BY <1>4, Quotient
    <2>2. k \div 10 # 0
        BY <1>4, <2>1
    <2>3. Decimal[k] = Append(Decimal[k \div 10], 48 + (k % 10))
        BY <1>2, <1>4 DEF Longer
    <2>4. Head(Decimal[k \div 10]) \in Digit \ {48}
        BY <1>1, <2>1, <2>2
    <2>5. Decimal[k \div 10] \in Seq(Digit) /\ Decimal[k \div 10] # <<>>
        BY <2>1, DecimalIsText
    <2>6. Head(Decimal[k]) = Head(Decimal[k \div 10])
        BY <2>3, <2>5, HeadTailAppend
    <2> QED BY <1>1, <2>4, <2>6
<1> QED BY <1>1, <1>3, <1>4

-----------------------------------------------------------------------------
(***************************************************************************)
(* The two forms of a command, word by word.                               *)
(***************************************************************************)
Byte == 0 .. 255
Text == Seq(Byte) \ {<<>>}
LineText == Seq(LineByte) \ {<<>>}
CrLf == <<CR, LF>>

Part(d) == Counted(Dollar, Len(d)) \o d \o <<CR, LF>>
Parts(cs) == Concat([i \in DOMAIN cs |-> Part(cs[i])])
Spaced(cs) == Concat([i \in DOMAIN cs |-> <<32>> \o cs[i]])

LEMMA LineBytes == LineByte \subseteq Byte /\ LineText \subseteq Text
<1>1. LineByte \subseteq Byte
    BY DEF LineByte, Byte, Alpha, Digit
<1>2. \A w \in Seq(LineByte) : w \in Seq(Byte)
    BY <1>1, SeqMonotonic
<1> QED BY <1>1, <1>2 DEF LineText, Text

\* The commands without an empty word.
TextCommand == {c \in Command : NoEmptyWord(c)}

LEMMA CommandsAreTexts == \A c \in TextCommand : c \in Seq(Text) /\ c # <<>>
<1> SUFFICES ASSUME NEW c \in TextCommand PROVE c \in Seq(Text) /\ c # <<>>
    OBVIOUS
<1>1. c \in Seq(Word) /\ c # <<>> /\ NoEmptyWord(c)
    BY CommandAssumption DEF TextCommand
<1> DEFINE L == Len(c)
           g == [i \in 1 .. L |-> c[i]]
<1>2. L \in Nat /\ DOMAIN c = 1 .. L /\ c = g
    BY <1>1, LenProperties
<1>3. \A i \in 1 .. L : c[i] \in Text
    <2>1. \A i \in 1 .. L : c[i] \in Word
        BY <1>1, <1>2, ElementOfSeq
    <2> QED BY <1>1, <1>2, <2>1 DEF NoEmptyWord, Word, Text, Byte
<1>4. g \in Seq(Text)
    <2> HIDE DEF L
    <2> QED BY <1>2, <1>3
<1> QED BY <1>1, <1>2, <1>4

LEMMA CrLfIs == CrLf \in Seq(Byte) /\ CrLf = <<CR>> \o <<LF>> /\ <<LF>> \in Seq(Byte) /\ CR \in Byte /\ LF \in Byte
<1>1. CR \in Byte /\ LF \in Byte
    BY DEF CR, LF, Byte
<1>2. <<CR, LF>> = <<CR>> \o <<LF>>
    OBVIOUS
<1>3. <<CR, LF>> \in Seq(Byte) /\ <<LF>> \in Seq(Byte)
    BY <1>1
<1> QED BY <1>1, <1>2, <1>3 DEF CrLf

\* What M makes of the words of a sequence.
Mapped(M, s) == [i \in DOMAIN s |-> M[s[i]]]

LEMMA MappedSeq ==
    ASSUME NEW M \in [Text -> Seq(Byte)], NEW s \in Seq(Text)
    PROVE  Mapped(M, s) \in Seq(Seq(Byte)) /\ Len(Mapped(M, s)) = Len(s)
<1>1. DOMAIN s = 1 .. Len(s) /\ Len(s) \in Nat /\ \A i \in 1 .. Len(s) : s[i] \in Text
    BY LenProperties, ElementOfSeq
<1>2. Mapped(M, s) = [i \in 1 .. Len(s) |-> M[s[i]]]
    BY <1>1 DEF Mapped
<1>3. \A i \in 1 .. Len(s) : M[s[i]] \in Seq(Byte)
    BY <1>1
<1> QED BY <1>1, <1>2, <1>3

\* A sequence that begins with x, position by position.
LEMMA ConsIs ==
    ASSUME NEW S, NEW x \in S, NEW s \in Seq(S), NEW t, t = <<x>> \o s
    PROVE  /\ t \in Seq(S) /\ Len(t) = 1 + Len(s) /\ Len(s) \in Nat
           /\ DOMAIN t = 1 .. 1 + Len(s)
           /\ t[1] = x /\ \A i \in 2 .. 1 + Len(s) : t[i] = s[i - 1]
<1> DEFINE p == <<x>>
           L == Len(s)
<1>1. p \in Seq(S) /\ Len(p) = 1 /\ p[1] = x /\ L \in Nat
    BY LenProperties
<1> HIDE DEF p
<1>2. /\ p \o s \in Seq(S) /\ Len(p \o s) = Len(p) + Len(s)
      /\ \A i \in 1 .. Len(p) + Len(s) :
             (p \o s)[i] = IF i <= Len(p) THEN p[i] ELSE s[i - Len(p)]
    BY <1>1, ConcatProperties
<1>3. t = p \o s
    BY DEF p
<1>4. t \in Seq(S) /\ Len(t) = 1 + L /\ \A i \in 1 .. 1 + L : t[i] = IF i <= 1 THEN p[i] ELSE s[i - 1]
    BY <1>1, <1>2, <1>3
<1>5. DOMAIN t = 1 .. 1 + L
    BY <1>4, LenProperties
<1>6. t[1] = x
    BY <1>1, <1>4
<1>7. ASSUME NEW i \in 2 .. 1 + L PROVE t[i] = s[i - 1]
    <2>1. i \in 1 .. 1 + L /\ ~(i <= 1)
        BY <1>1
    <2> QED BY <1>4, <2>1
<1> QED BY <1>1, <1>4, <1>5, <1>6, <1>7

LEMMA MappedCons ==
    ASSUME NEW M \in [Text -> Seq(Byte)], NEW x \in Text, NEW s \in Seq(Text)
    PROVE  Mapped(M, <<x>> \o s) = <<M[x]>> \o Mapped(M, s)
<1> DEFINE t == <<x>> \o s
           y == M[x]
           b == Mapped(M, s)
           u == <<y>> \o b
           v == Mapped(M, t)
           L == Len(s)
           B == Seq(Byte)
<1>0. y \in B
    OBVIOUS
<1>3. b \in Seq(B) /\ Len(b) = L /\ DOMAIN s = 1 .. L /\ \A i \in 1 .. L : b[i] = M[s[i]]
    BY MappedSeq, LenProperties DEF Mapped
<1>4. /\ t \in Seq(Text) /\ Len(t) = 1 + L /\ L \in Nat /\ DOMAIN t = 1 .. 1 + L
      /\ t[1] = x /\ \A i \in 2 .. 1 + L : t[i] = s[i - 1]
    <2>1. t = <<x>> \o s
        OBVIOUS
    <2> HIDE DEF t
    <2> QED BY <2>1, ConsIs
<1>5. v \in Seq(B) /\ Len(v) = 1 + L /\ \A i \in 1 .. 1 + L : v[i] = M[t[i]]
    BY <1>4, MappedSeq DEF Mapped
<1> HIDE DEF t, b, y, B, v
<1>6. /\ u \in Seq(B) /\ Len(u) = 1 + L
      /\ u[1] = y /\ \A i \in 2 .. 1 + L : u[i] = b[i - 1]
    <2>1. u = <<y>> \o b
        OBVIOUS
    <2> HIDE DEF u
    <2> QED BY <1>0, <1>3, <2>1, ConsIs
<1>8. ASSUME NEW i \in 1 .. 1 + L PROVE v[i] = u[i]
    <2>1. CASE i = 1
        BY <1>4, <1>5, <1>6, <2>1 DEF y
    <2>2. CASE i # 1
        <3>1. i - 1 \in 1 .. L /\ i \in 2 .. 1 + L
            BY <1>4, <2>2
        <3> HIDE DEF u
        <3>2. v[i] = M[t[i]] /\ t[i] = s[i - 1]
            BY <1>4, <1>5, <3>1
        <3>3. b[i - 1] = M[s[i - 1]] /\ u[i] = b[i - 1]
            BY <1>3, <1>6, <3>1
        <3> QED BY <3>2, <3>3
    <2> QED BY <2>1, <2>2
<1> HIDE DEF u
<1>9. v = u
    BY <1>4, <1>5, <1>6, <1>8, SeqEqual
<1> QED BY <1>9 DEF t, u, y, b, v

LEMMA BytesJoin ==
    /\ \A s, t \in Seq(Byte) : s \o t \in Seq(Byte)
    /\ \A s, t, u \in Seq(Byte) : (s \o t) \o u = s \o (t \o u)
    /\ \A s \in Seq(Byte) : <<>> \o s = s /\ s \o <<>> = s
    /\ <<>> \in Seq(Byte)
<1>1. \A s, t \in Seq(Byte) : s \o t \in Seq(Byte)
    BY ONLY ConcatProperties
<1>2. \A s, t, u \in Seq(Byte) : (s \o t) \o u = s \o (t \o u)
    BY ONLY ConcatAssociative
<1>3. \A s \in Seq(Byte) : <<>> \o s = s /\ s \o <<>> = s
    BY ONLY ConcatEmptySeq
<1>4. <<>> \in Seq(Byte)
    BY EmptySeq
<1> QED BY <1>1, <1>2, <1>3, <1>4

\* s and t, one after the other.
Joined(s, t) == s \o t

LEMMA JoinedAssociate ==
    ASSUME NEW s \in Seq(Byte), NEW t \in Seq(Byte), NEW u \in Seq(Byte)
    PROVE  Joined(Joined(s, t), u) = Joined(s, Joined(t, u))
BY ONLY s \in Seq(Byte), t \in Seq(Byte), u \in Seq(Byte), ConcatAssociative DEF Joined

LEMMA PartIs ==
    ASSUME NEW d \in Text
    PROVE  /\ Part(d) \in Seq(Byte)
           /\ Part(d) = <<Dollar>> \o ((Decimal[Len(d)] \o CrLf) \o (d \o CrLf))
           /\ Decimal[Len(d)] \o CrLf \in Seq(Byte) /\ d \o CrLf \in Seq(Byte)
           /\ Len(d) \in Nat \ {0}
<1> DEFINE n == Decimal[Len(d)]
           B == Seq(Byte)
           D == <<Dollar>>
<1>1. Len(d) \in Nat \ {0} /\ d \in B
    BY EmptySeq DEF Text
<1>2. n \in B
    <2>1. n \in Seq(Digit) /\ Digit \subseteq Byte
        BY <1>1, DecimalIsText DEF Digit, Byte
    <2> QED BY <2>1, SeqMonotonic
<1>3. D \in B
    BY DEF Dollar, Byte
<1>4. CrLf \in B
    BY CrLfIs
<1>5. \A s, t \in B : s \o t \in B
    BY BytesJoin
<1>6. \A s, t, u \in B : Joined(Joined(s, t), u) = Joined(s, Joined(t, u))
    BY JoinedAssociate
<1>7. Part(d) = ((D \o n) \o CrLf) \o d \o CrLf
    BY DEF Part, Counted, CrLf
<1> HIDE DEF n, B, D
<1> DEFINE e == Joined(n, CrLf)
           g == Joined(d, CrLf)
<1>8. Part(d) = D \o (e \o g)
    <2>1. Joined(Joined(D, n), CrLf) = Joined(D, e)
        BY <1>2, <1>3, <1>4, <1>6
    <2>2. e \in B /\ g \in B /\ Joined(D, e) \in B
        BY <1>1, <1>2, <1>3, <1>4, <1>5 DEF Joined
    <2>3. Joined(Joined(Joined(D, e), d), CrLf) = Joined(Joined(D, e), g)
        BY <1>1, <1>4, <1>6, <2>2
    <2> HIDE DEF e, g
    <2>4. Joined(Joined(D, e), g) = Joined(D, Joined(e, g))
        BY <1>3, <1>6, <2>2
    <2>5. Part(d) = Joined(Joined(Joined(Joined(D, n), CrLf), d), CrLf)
        BY <1>7 DEF Joined
    <2>6. Part(d) = Joined(D, Joined(e, g))
        BY <2>1, <2>3, <2>4, <2>5
    <2> QED BY <2>6 DEF Joined
<1>9. Part(d) \in B /\ n \o CrLf \in B /\ d \o CrLf \in B
    BY <1>1, <1>2, <1>3, <1>4, <1>5, <1>8 DEF Joined
<1> QED BY <1>1, <1>8, <1>9 DEF n, B, D, Joined

LEMMA PartsAre ==
    /\ Parts(<<>>) = <<>>
    /\ \A cs \in Seq(Text) : Parts(cs) \in Seq(Byte)
    /\ \A cs \in Seq(Text), d \in Text : Parts(<<d>> \o cs) = Part(d) \o Parts(cs)
<1> DEFINE M == [d \in Text |-> Part(d)]
<1>1. M \in [Text -> Seq(Byte)]
    BY PartIs
<1>2. ASSUME NEW cs \in Seq(Text) PROVE Parts(cs) = Concat(Mapped(M, cs))
    <2>1. \A i \in DOMAIN cs : cs[i] \in Text
        BY LenProperties, ElementOfSeq
    <2>2. [i \in DOMAIN cs |-> Part(cs[i])] = Mapped(M, cs)
        BY <2>1 DEF Mapped
    <2> QED BY <2>2 DEF Parts
<1>3. \A d \in Text : M[d] = Part(d)
    OBVIOUS
<1> HIDE DEF M
<1>4. Parts(<<>>) = <<>>
    <2>1. <<>> \in Seq(Text) /\ Mapped(M, <<>>) = <<>>
        BY EmptySeq DEF Mapped
    <2> QED BY <1>2, <2>1, ConcatOfNone
<1>5. ASSUME NEW cs \in Seq(Text) PROVE Parts(cs) \in Seq(Byte)
    BY <1>1, <1>2, MappedSeq, ConcatIsSeq
<1>6. ASSUME NEW cs \in Seq(Text), NEW d \in Text PROVE Parts(<<d>> \o cs) = Part(d) \o Parts(cs)
    <2>1. <<d>> \o cs \in Seq(Text)
        BY Cons
    <2>2. Mapped(M, <<d>> \o cs) = <<M[d]>> \o Mapped(M, cs)
        BY <1>1, MappedCons
    <2>3. Mapped(M, cs) \in Seq(Seq(Byte)) /\ M[d] \in Seq(Byte)
        BY <1>1, MappedSeq
    <2>4. Concat(<<M[d]>> \o Mapped(M, cs)) = M[d] \o Concat(Mapped(M, cs))
        BY <2>3, ConcatOfCons
    <2> QED BY <1>2, <1>3, <2>1, <2>2, <2>4
<1> QED BY <1>4, <1>5, <1>6

\* The words of a command in chunks may be empty.
LEMMA PartsAreBytes ==
    ASSUME NEW cs \in Seq(Seq(Byte))
    PROVE  Parts(cs) \in Seq(Byte)
<1> DEFINE L == Len(cs)
           g == [i \in 1 .. L |-> Part(cs[i])]
<1>1. L \in Nat /\ DOMAIN cs = 1 .. L /\ \A i \in 1 .. L : cs[i] \in Seq(Byte)
    BY LenProperties, ElementOfSeq
<1>2. ASSUME NEW i \in 1 .. L PROVE Part(cs[i]) \in Seq(Byte)
    <2> DEFINE B == Seq(Byte)
               d == cs[i]
               n == Decimal[Len(d)]
               D == <<Dollar>>
    <2>1. d \in B /\ Len(d) \in Nat
        BY <1>1, LenProperties
    <2>2. n \in B
        <3>1. n \in Seq(Digit) /\ Digit \subseteq Byte
            BY <2>1, DecimalIsText DEF Digit, Byte
        <3> QED BY <3>1, SeqMonotonic
    <2>3. D \in B /\ CrLf \in B
        BY CrLfIs DEF Dollar, Byte
    <2>4. Part(d) = ((D \o n) \o CrLf) \o d \o CrLf
        BY DEF Part, Counted, CrLf
    <2>5. \A s, t \in B : s \o t \in B
        BY BytesJoin
    <2> HIDE DEF B, d, n, D
    <2> QED BY <2>1, <2>2, <2>3, <2>4, <2>5 DEF d, B
<1>3. g \in Seq(Seq(Byte))
    <2> HIDE DEF L
    <2> QED BY <1>1, <1>2
<1>4. Parts(cs) = Concat(g)
    BY <1>1 DEF Parts
<1> HIDE DEF g
<1> QED BY <1>3, <1>4, ConcatIsSeq

LEMMA SpacedAre ==
    /\ Spaced(<<>>) = <<>>
    /\ \A cs \in Seq(Text) : Spaced(cs) \in Seq(Byte)
    /\ \A cs \in Seq(Text), d \in Text : Spaced(<<d>> \o cs) = (<<32>> \o d) \o Spaced(cs)
<1> DEFINE M == [d \in Text |-> <<32>> \o d]
<1>1. M \in [Text -> Seq(Byte)]
    <2>1. 32 \in Byte /\ \A d \in Text : d \in Seq(Byte)
        BY DEF Byte, Text
    <2>2. \A d \in Text : <<32>> \o d \in Seq(Byte)
        BY <2>1, Cons
    <2> QED BY <2>2
<1>2. ASSUME NEW cs \in Seq(Text) PROVE Spaced(cs) = Concat(Mapped(M, cs))
    <2>1. \A i \in DOMAIN cs : cs[i] \in Text
        BY LenProperties, ElementOfSeq
    <2>2. [i \in DOMAIN cs |-> <<32>> \o cs[i]] = Mapped(M, cs)
        BY <2>1 DEF Mapped
    <2> QED BY <2>2 DEF Spaced
<1>3. \A d \in Text : M[d] = <<32>> \o d
    OBVIOUS
<1> HIDE DEF M
<1>4. Spaced(<<>>) = <<>>
    <2>1. <<>> \in Seq(Text) /\ Mapped(M, <<>>) = <<>>
        BY EmptySeq DEF Mapped
    <2> QED BY <1>2, <2>1, ConcatOfNone
<1>5. ASSUME NEW cs \in Seq(Text) PROVE Spaced(cs) \in Seq(Byte)
    BY <1>1, <1>2, MappedSeq, ConcatIsSeq
<1>6. ASSUME NEW cs \in Seq(Text), NEW d \in Text
      PROVE  Spaced(<<d>> \o cs) = (<<32>> \o d) \o Spaced(cs)
    <2>1. <<d>> \o cs \in Seq(Text)
        BY Cons
    <2>2. Mapped(M, <<d>> \o cs) = <<M[d]>> \o Mapped(M, cs)
        BY <1>1, MappedCons
    <2>3. Mapped(M, cs) \in Seq(Seq(Byte)) /\ M[d] \in Seq(Byte)
        BY <1>1, MappedSeq
    <2>4. Concat(<<M[d]>> \o Mapped(M, cs)) = M[d] \o Concat(Mapped(M, cs))
        BY <2>3, ConcatOfCons
    <2> QED BY <1>2, <1>3, <2>1, <2>2, <2>4
<1> QED BY <1>4, <1>5, <1>6

LEMMA ChunksAre ==
    ASSUME NEW c \in Seq(Text), c # <<>>
    PROVE  /\ Chunks(c) = <<Star>> \o ((Decimal[Len(c)] \o CrLf) \o Parts(c))
           /\ Decimal[Len(c)] \o CrLf \in Seq(Byte)
           /\ Star \in Byte /\ Len(c) \in Nat \ {0}
<1> DEFINE n == Decimal[Len(c)]
           B == Seq(Byte)
           D == <<Star>>
           P == Parts(c)
<1>1. Len(c) \in Nat \ {0}
    BY EmptySeq
<1>2. n \in B
    <2>1. n \in Seq(Digit) /\ Digit \subseteq Byte
        BY <1>1, DecimalIsText DEF Digit, Byte
    <2> QED BY <2>1, SeqMonotonic
<1>3. Star \in Byte
    BY DEF Star, Byte
<1>4. CrLf \in B /\ P \in B /\ D \in B
    BY <1>3, CrLfIs, PartsAre
<1>5. \A s, t \in B : s \o t \in B
    BY BytesJoin
<1>6. \A s, t, u \in B : Joined(Joined(s, t), u) = Joined(s, Joined(t, u))
    BY JoinedAssociate
<1>7. Chunks(c) = ((D \o n) \o CrLf) \o P
    BY DEF Chunks, Counted, CrLf, Parts, Part
<1> HIDE DEF n, B, D, P
<1>8. Chunks(c) = D \o ((n \o CrLf) \o P)
    <2> DEFINE e == Joined(n, CrLf)
    <2>1. Joined(Joined(D, n), CrLf) = Joined(D, e) /\ e \in B
        <3>1. n \o CrLf \in B
            BY <1>2, <1>4, <1>5
        <3>2. Joined(Joined(D, n), CrLf) = Joined(D, e)
            BY <1>2, <1>4, <1>6
        <3> QED BY <3>1, <3>2 DEF Joined
    <2> HIDE DEF e
    <2>2. Joined(Joined(D, e), P) = Joined(D, Joined(e, P))
        BY <1>4, <1>6, <2>1
    <2>3. Chunks(c) = Joined(Joined(Joined(D, n), CrLf), P)
        BY <1>7 DEF Joined
    <2>4. Chunks(c) = Joined(D, Joined(e, P))
        BY <2>1, <2>2, <2>3
    <2> QED BY <2>4 DEF e, Joined
<1>9. n \o CrLf \in B
    BY <1>2, <1>4, <1>5
<1> QED BY <1>1, <1>3, <1>8, <1>9 DEF n, B, D, P

LEMMA LineIs ==
    ASSUME NEW cs \in Seq(Text), NEW d \in Text
    PROVE  Line(<<d>> \o cs) = d \o Spaced(cs)
<1> DEFINE c == <<d>> \o cs
           M == [e \in Text |-> <<32>> \o e]
           m == Mapped(M, cs)
           L == Len(cs)
           B == Seq(Byte)
           s == [i \in DOMAIN c |-> IF i = 1 THEN c[i] ELSE <<32>> \o c[i]]
           u == <<d>> \o m
<1>1. M \in [Text -> B]
    <2>1. 32 \in Byte /\ \A e \in Text : e \in B
        BY DEF Byte, Text
    <2>2. \A e \in Text : <<32>> \o e \in B
        BY <2>1, Cons
    <2> QED BY <2>2
<1>2. L \in Nat /\ DOMAIN cs = 1 .. L /\ \A i \in 1 .. L : cs[i] \in Text
    BY LenProperties, ElementOfSeq
<1>3. m \in Seq(B) /\ Len(m) = L /\ \A i \in 1 .. L : m[i] = <<32>> \o cs[i]
    <2>1. m \in Seq(B) /\ Len(m) = L
        <3> HIDE DEF M
        <3> QED BY <1>1, MappedSeq
    <2>2. ASSUME NEW i \in 1 .. L PROVE m[i] = <<32>> \o cs[i]
        BY <1>2 DEF Mapped
    <2> QED BY <2>1, <2>2
<1>4. Spaced(cs) = Concat(m)
    <2>1. [i \in DOMAIN cs |-> <<32>> \o cs[i]] = m
        BY <1>2 DEF Mapped
    <2> QED BY <2>1 DEF Spaced
<1> HIDE DEF m, M
<1>5. d \in B
    BY DEF Text
<1>6. /\ c \in Seq(Text) /\ Len(c) = 1 + L /\ DOMAIN c = 1 .. 1 + L
      /\ c[1] = d /\ \A i \in 2 .. 1 + L : c[i] = cs[i - 1]
    <2>1. c = <<d>> \o cs
        OBVIOUS
    <2> HIDE DEF c
    <2> QED BY <2>1, ConsIs
<1> HIDE DEF c, B
<1>9. /\ u \in Seq(B) /\ Len(u) = 1 + L /\ DOMAIN u = 1 .. 1 + L
      /\ u[1] = d /\ \A i \in 2 .. 1 + L : u[i] = m[i - 1]
    <2>1. u = <<d>> \o m
        OBVIOUS
    <2> HIDE DEF u
    <2> QED BY <1>3, <1>5, <2>1, ConsIs
<1> HIDE DEF u
<1>10. ASSUME NEW i \in 1 .. 1 + L PROVE s[i] = u[i]
    <2>1. CASE i = 1
        BY <1>2, <1>6, <1>9, <2>1
    <2>2. CASE i # 1
        <3>1. i - 1 \in 1 .. L /\ i \in 2 .. 1 + L /\ i \in DOMAIN c
            BY <1>2, <1>6, <2>2
        <3>2. s[i] = <<32>> \o c[i]
            BY <2>2, <3>1
        <3> HIDE DEF s
        <3> QED BY <1>3, <1>6, <1>9, <3>1, <3>2
    <2> QED BY <2>1, <2>2
<1>11. s = u
    <2>1. DOMAIN s = 1 .. 1 + L /\ s = [i \in 1 .. 1 + L |-> s[i]]
        BY <1>6
    <2>2. u = [i \in 1 .. 1 + L |-> u[i]]
        BY <1>2, <1>9
    <2> HIDE DEF s
    <2> QED BY <1>10, <2>1, <2>2
<1>12. Line(c) = Concat(s)
    BY DEF Line
<1>13. Concat(u) = d \o Concat(m)
    BY <1>3, <1>5, ConcatOfCons DEF u, B
<1> QED BY <1>4, <1>11, <1>12, <1>13 DEF c

-----------------------------------------------------------------------------
(***************************************************************************)
(* Sequences of bytes that grow by one at either end, and the number of    *)
(* which NumParser has read a part.                                        *)
(***************************************************************************)
LEMMA TextsJoin ==
    /\ \A s, t \in Seq(Text) : s \o t \in Seq(Text)
    /\ \A s, t, u \in Seq(Text) : (s \o t) \o u = s \o (t \o u)
    /\ \A s \in Seq(Text) : <<>> \o s = s /\ s \o <<>> = s
    /\ <<>> \in Seq(Text)
<1>1. \A s, t \in Seq(Text) : s \o t \in Seq(Text)
    BY ONLY ConcatProperties
<1>2. \A s, t, u \in Seq(Text) : (s \o t) \o u = s \o (t \o u)
    BY ONLY ConcatAssociative
<1>3. \A s \in Seq(Text) : <<>> \o s = s /\ s \o <<>> = s
    BY ONLY ConcatEmptySeq
<1>4. <<>> \in Seq(Text)
    BY EmptySeq
<1> QED BY <1>1, <1>2, <1>3, <1>4

\* s with x before it.
Before(x, s) == <<x>> \o s

LEMMA BytesBefore ==
    ASSUME NEW x \in Byte, NEW s \in Seq(Byte)
    PROVE  /\ Before(x, s) \in Seq(Byte) /\ Before(x, s) # <<>>
           /\ Head(Before(x, s)) = x /\ Tail(Before(x, s)) = s
BY Cons DEF Before

LEMMA BeforeJoins ==
    ASSUME NEW x \in Byte, NEW s \in Seq(Byte), NEW t \in Seq(Byte)
    PROVE  Before(x, s) \o t = Before(x, s \o t)
<1>1. <<x>> \in Seq(Byte)
    OBVIOUS
<1> QED BY <1>1, BytesJoin DEF Before

\* A sequence has one first element.
LEMMA Peel ==
    ASSUME NEW x \in Byte, NEW y \in Byte, NEW s \in Seq(Byte), NEW t \in Seq(Byte),
           Before(x, s) = Before(y, t)
    PROVE  x = y /\ s = t
<1>1. Head(Before(x, s)) = x /\ Tail(Before(x, s)) = s
    BY BytesBefore
<1>2. Head(Before(y, t)) = y /\ Tail(Before(y, t)) = t
    BY BytesBefore
<1> QED BY <1>1, <1>2

LEMMA PeelLast ==
    ASSUME NEW x \in Byte, NEW y \in Byte, NEW s \in Seq(Byte), Before(x, s) = Before(y, <<>>)
    PROVE  x = y /\ s = <<>>
<1> DEFINE t == <<>>
<1>1. t \in Seq(Byte)
    BY EmptySeq
<1>2. Before(x, s) = Before(y, t)
    OBVIOUS
<1> HIDE DEF t
<1>3. x = y /\ s = t
    BY <1>1, <1>2, Peel
<1> QED BY <1>3 DEF t

LEMMA Splits ==
    ASSUME NEW s \in Seq(Byte), s # <<>>
    PROVE  Head(s) \in Byte /\ Tail(s) \in Seq(Byte) /\ s = Before(Head(s), Tail(s))
BY HeadAndTail DEF Before

-----------------------------------------------------------------------------
(***************************************************************************)
(* NumParser in the middle of the numeral of N, with the bytes r to come:  *)
(* the number it holds is the one its digits so far stand for.             *)
(***************************************************************************)
NumType == [state : {"start", "num", "cr"}, val : Nat]

NumAt(n, r, N) ==
    \/ n = NumReset /\ r = Decimal[N] \o CrLf
    \/ /\ n.state = "num" /\ n.val # 0
       /\ \E e \in Seq(Digit) : Decimal[N] = Decimal[n.val] \o e /\ r = e \o CrLf
    \/ n.state = "cr" /\ n.val = N /\ r = <<LF>>

LEMMA NumKeepsType ==
    ASSUME NEW n \in NumType, NEW x \in Byte, NumVerdict(n, x) # "error"
    PROVE  NumAfter(n, x) \in NumType
<1>1. x \in Digit \/ x = CR \/ x = LF
    BY DEF NumVerdict
<1>2. CASE x \in Digit
    <2>1. x - 48 \in Nat /\ n.val \in Nat
        BY <1>2 DEF Digit, NumType
    <2>2. n.val * 10 + (x - 48) \in Nat
        BY <2>1
    <2>3. NumAfter(n, x) = [state |-> "num", val |-> n.val * 10 + (x - 48)]
        BY <1>2 DEF NumAfter, Digits, Digit, CR, LF
    <2> QED BY <2>2, <2>3 DEF NumType
<1>3. CASE x = CR
    <2>1. NumAfter(n, x) = [n EXCEPT !.state = "cr"]
        BY <1>3 DEF NumAfter, Digit, CR, LF
    <2> QED BY <2>1 DEF NumType
<1>4. CASE x = LF
    <2>1. NumAfter(n, x) = [n EXCEPT !.state = "start"]
        BY <1>4 DEF NumAfter, Digit, CR, LF
    <2> QED BY <2>1 DEF NumType
<1> QED BY <1>1, <1>2, <1>3, <1>4

LEMMA DigitsAreBytes == Digit \subseteq Byte /\ \A e \in Seq(Digit) : e \in Seq(Byte)
<1>1. Digit \subseteq Byte
    BY DEF Digit, Byte
<1> QED BY <1>1, SeqMonotonic

LEMMA NumStep ==
    ASSUME NEW N \in Nat \ {0}, NEW n \in NumType, NEW x \in Byte, NEW s \in Seq(Byte),
           NumAt(n, Before(x, s), N)
    PROVE  \/ NumVerdict(n, x) = "ok" /\ NumAt(NumAfter(n, x), s, N)
           \/ NumVerdict(n, x) = "end" /\ s = <<>> /\ n.val = N
<1>1. CASE n = NumReset /\ Before(x, s) = Decimal[N] \o CrLf
    <2> DEFINE D == Decimal[N]
               y == Head(D)
               e == Tail(D)
    <2>1. D \in Seq(Digit) /\ D # <<>>
        BY DecimalIsText
    <2>2. y \in Digit \ {48}
        BY NoLeadingZero
    <2>3. e \in Seq(Digit) /\ e \in Seq(Byte) /\ D = Before(y, e) /\ y \in Byte
        <3> HIDE DEF D
        <3> QED BY <2>1, HeadAndTail, DigitsAreBytes DEF Before
    <2> HIDE DEF D, y, e
    <2> DEFINE ec == e \o CrLf
    <2>4. ec \in Seq(Byte) /\ D \o CrLf = Before(y, ec)
        <3>1. CrLf \in Seq(Byte)
            BY CrLfIs
        <3>2. e \o CrLf \in Seq(Byte)
            BY <2>3, <3>1, BytesJoin
        <3>3. Before(y, e) \o CrLf = Before(y, e \o CrLf)
            BY <2>3, <3>1, BeforeJoins
        <3> QED BY <2>3, <3>2, <3>3
    <2> HIDE DEF ec
    <2>5. Before(x, s) = Before(y, ec)
        BY <1>1, <2>4 DEF D
    <2>6. x = y /\ s = ec
        BY <2>3, <2>4, <2>5, Peel
    <2>7. NumVerdict(n, x) = "ok"
        BY <1>1, <2>2, <2>6 DEF NumVerdict, NumReset
    <2>8. NumAfter(n, x) = [state |-> "num", val |-> x - 48]
        <3>1. x \in Digit /\ x - 48 \in Int /\ x # CR /\ x # LF
            BY <2>2, <2>6 DEF Digit, CR, LF
        <3>2. NumAfter(n, x) = Digits(n, x)
            BY <3>1 DEF NumAfter
        <3>3. Digits(n, x) = [state |-> "num", val |-> 0 * 10 + (x - 48)]
            BY <1>1 DEF Digits, NumReset
        <3>4. 0 * 10 + (x - 48) = x - 48
            BY <3>1
        <3> QED BY <3>2, <3>3, <3>4
    <2>9. x - 48 # 0 /\ Decimal[x - 48] = <<x>>
        <3>1. x \in Digit /\ x # 48
            BY <2>2, <2>6
        <3>2. x - 48 # 0
            BY <3>1 DEF Digit
        <3> QED BY <3>1, <3>2, DecimalOfDigit
    <2>10. NumAt(NumAfter(n, x), s, N)
        <3>1. Decimal[N] = Decimal[x - 48] \o e
            BY <2>3, <2>6, <2>9 DEF D, Before
        <3> DEFINE k == NumAfter(n, x)
        <3>2. k.state = "num" /\ k.val = x - 48
            BY <2>8
        <3>3. Decimal[N] = Decimal[k.val] \o e /\ s = e \o CrLf
            BY <2>6, <3>1, <3>2 DEF ec
        <3> HIDE DEF k
        <3>4. NumAt(k, s, N)
            BY <2>3, <2>9, <3>2, <3>3 DEF NumAt
        <3> QED BY <3>4 DEF k
    <2> QED BY <2>7, <2>10
<1>2. CASE /\ n.state = "num" /\ n.val # 0
           /\ \E e \in Seq(Digit) : Decimal[N] = Decimal[n.val] \o e /\ Before(x, s) = e \o CrLf
    <2>1. PICK e \in Seq(Digit) : Decimal[N] = Decimal[n.val] \o e /\ Before(x, s) = e \o CrLf
        BY <1>2
    <2>2. n.val \in Nat \ {0}
        BY <1>2 DEF NumType
    <2> DEFINE m == n.val
               D == Decimal[m]
    <2>3. D \in Seq(Digit)
        BY <2>2, DecimalIsText
    <2>4. CASE e = <<>>
        <3>1. Before(x, s) = Before(CR, <<LF>>)
            BY <2>1, <2>4, BytesJoin, CrLfIs DEF Before
        <3>2. x = CR /\ s = <<LF>>
            BY <3>1, Peel, CrLfIs
        <3>3. Decimal[N] = D
            BY <2>1, <2>3, <2>4, ConcatEmptySeq
        <3>4. n.val = N
            BY <2>2, <3>3, DecimalDiffers
        <3>5. NumVerdict(n, x) = "ok"
            BY <1>2, <3>2 DEF NumVerdict
        <3>6. NumAfter(n, x) = [n EXCEPT !.state = "cr"]
            BY <3>2 DEF NumAfter, Digit, CR, LF
        <3>7. NumAfter(n, x).state = "cr" /\ NumAfter(n, x).val = n.val
            BY <3>6 DEF NumType
        <3> QED BY <3>2, <3>4, <3>5, <3>7 DEF NumAt
    <2>5. CASE e # <<>>
        <3> DEFINE y == Head(e)
                   f == Tail(e)
        <3>1. y \in Digit /\ y \in Byte /\ f \in Seq(Digit) /\ f \in Seq(Byte) /\ e = Before(y, f)
            BY <2>5, HeadAndTail, DigitsAreBytes DEF Before
        <3> HIDE DEF y, f
        <3> DEFINE fc == f \o CrLf
        <3>2. fc \in Seq(Byte) /\ e \o CrLf = Before(y, fc)
            <4>1. CrLf \in Seq(Byte)
                BY CrLfIs
            <4>2. f \o CrLf \in Seq(Byte)
                BY <3>1, <4>1, BytesJoin
            <4>3. Before(y, f) \o CrLf = Before(y, f \o CrLf)
                BY <3>1, <4>1, BeforeJoins
            <4> QED BY <3>1, <4>2, <4>3
        <3> HIDE DEF fc
        <3>3. Before(x, s) = Before(y, fc)
            BY <2>1, <3>2
        <3>4. x = y /\ s = fc
            BY <3>1, <3>2, <3>3, Peel
        <3>5. NumVerdict(n, x) = "ok"
            BY <1>2, <3>1, <3>4 DEF NumVerdict
        <3> DEFINE k == m * 10 + (x - 48)
                   q == NumAfter(n, x)
        <3>6. q.state = "num" /\ q.val = k
            <4>1. x \in Digit /\ x # CR /\ x # LF
                BY <3>1, <3>4 DEF Digit, CR, LF
            <4>2. q = Digits(n, x)
                BY <4>1 DEF NumAfter
            <4> QED BY <4>2 DEF Digits
        <3>7. k \in Nat \ {0} /\ Decimal[k] = Append(D, x)
            BY <2>2, <3>1, <3>4, DecimalGrows
        <3> HIDE DEF k, m, D, q
        <3>8. Decimal[N] = Decimal[k] \o f
            <4>1. x \in Digit /\ D \in Seq(Digit) /\ f \in Seq(Digit) /\ <<x>> \in Seq(Digit)
                BY <2>3, <3>1, <3>4
            <4>2. Append(D, x) = D \o <<x>>
                BY <4>1, AppendIsConcat
            <4>3. (D \o <<x>>) \o f = D \o (<<x>> \o f)
                BY <4>1, ConcatAssociative
            <4> QED BY <2>1, <3>1, <3>4, <3>7, <4>2, <4>3 DEF D, m, Before
        <3>9. Decimal[N] = Decimal[q.val] \o f /\ s = f \o CrLf /\ q.val # 0
            BY <3>4, <3>6, <3>7, <3>8 DEF fc
        <3>10. NumAt(q, s, N)
            BY <3>1, <3>6, <3>9 DEF NumAt
        <3> QED BY <3>5, <3>10 DEF q
    <2> QED BY <2>4, <2>5
<1>3. CASE n.state = "cr" /\ n.val = N /\ Before(x, s) = <<LF>>
    <2>1. <<LF>> = Before(LF, <<>>) /\ <<>> \in Seq(Byte) /\ LF \in Byte
        BY CrLfIs, EmptySeq DEF Before
    <2>2. x = LF /\ s = <<>>
        BY <1>3, <2>1, PeelLast, CrLfIs
    <2>3. NumVerdict(n, x) = "end"
        BY <1>3, <2>2 DEF NumVerdict
    <2> QED BY <1>3, <2>2, <2>3
<1> QED BY <1>1, <1>2, <1>3 DEF NumAt

LEMMA NumLeft ==
    ASSUME NEW N \in Nat \ {0}, NEW n, NEW r, NumAt(n, r, N)
    PROVE  r \in Seq(Byte) /\ r # <<>>
<1>1. CrLf \in Seq(Byte) /\ CrLf # <<>> /\ <<LF>> \in Seq(Byte) /\ <<LF>> # <<>>
    BY CrLfIs DEF CrLf
<1>2. ASSUME NEW e \in Seq(Digit) PROVE e \o CrLf \in Seq(Byte) /\ e \o CrLf # <<>>
    <2>1. e \in Seq(Byte)
        BY DigitsAreBytes
    <2> QED
        <3>1. e \o CrLf \in Seq(Byte)
            BY <1>1, <2>1, BytesJoin
        <3>2. e \o CrLf = <<>> => CrLf = <<>>
            BY <1>1, <2>1, ConcatEqualIffEmpty
        <3> QED BY <1>1, <3>1, <3>2
<1>3. Decimal[N] \in Seq(Digit)
    BY DecimalIsText
<1> QED BY <1>1, <1>2, <1>3 DEF NumAt

-----------------------------------------------------------------------------
(***************************************************************************)
(* Texts split at a byte.                                                  *)
(***************************************************************************)
LEMMA BytesGrow ==
    ASSUME NEW p \in Seq(Byte), NEW x \in Byte, NEW s \in Seq(Byte)
    PROVE  Append(p, x) \in Seq(Byte) /\ Append(p, x) \o s = p \o Before(x, s)
           /\ Append(p, x) # <<>> /\ Len(Append(p, x)) = Len(p) + 1
<1>1. <<x>> \in Seq(Byte) /\ Append(p, x) = p \o <<x>>
    BY AppendIsConcat
<1>2. (p \o <<x>>) \o s = p \o (<<x>> \o s)
    BY <1>1, BytesJoin
<1> QED BY <1>1, <1>2, AppendProperties DEF Before

LEMMA TextsGrow ==
    ASSUME NEW a \in Seq(Text), NEW d \in Text, NEW cs \in Seq(Text)
    PROVE  Append(a, d) \in Seq(Text) /\ Append(a, d) \o cs = a \o Before(d, cs)
           /\ Len(Append(a, d)) = Len(a) + 1
<1>1. <<d>> \in Seq(Text) /\ Append(a, d) = a \o <<d>>
    BY AppendIsConcat
<1>2. (a \o <<d>>) \o cs = a \o (<<d>> \o cs)
    BY <1>1, TextsJoin
<1> QED BY <1>1, <1>2, AppendProperties DEF Before

LEMMA TextsBefore ==
    ASSUME NEW d \in Text, NEW cs \in Seq(Text)
    PROVE  Before(d, cs) \in Seq(Text) /\ Before(d, cs) # <<>>
           /\ Len(Before(d, cs)) = 1 + Len(cs)
<1>1. <<d>> \in Seq(Text) /\ Len(<<d>>) = 1
    OBVIOUS
<1>2. Len(<<d>> \o cs) = Len(<<d>>) + Len(cs)
    BY <1>1, ConcatProperties
<1> QED BY <1>1, <1>2, Cons DEF Before

LEMMA TextsSplit ==
    ASSUME NEW cs \in Seq(Text), cs # <<>>
    PROVE  Head(cs) \in Text /\ Tail(cs) \in Seq(Text) /\ cs = Before(Head(cs), Tail(cs))
BY HeadAndTail DEF Before

LEMMA SpacedBefore ==
    ASSUME NEW d \in Text, NEW cs \in Seq(Text), NEW t \in Seq(Byte)
    PROVE  /\ Spaced(cs) \o t \in Seq(Byte) /\ d \o (Spaced(cs) \o t) \in Seq(Byte)
           /\ Spaced(Before(d, cs)) \o t = Before(32, d \o (Spaced(cs) \o t))
<1> DEFINE P == Spaced(cs)
<1>1. d \in Seq(Byte) /\ P \in Seq(Byte) /\ 32 \in Byte
    BY SpacedAre DEF Text, Byte
<1>2. Spaced(Before(d, cs)) = Before(32, d) \o P
    BY SpacedAre DEF Before
<1> HIDE DEF P
<1>3. Before(32, d) \o P = Before(32, d \o P)
    BY <1>1, BeforeJoins
<1>4. d \o P \in Seq(Byte) /\ (d \o P) \o t = d \o (P \o t) /\ P \o t \in Seq(Byte)
    <2>1. Joined(Joined(d, P), t) = Joined(d, Joined(P, t))
        BY <1>1, JoinedAssociate
    <2>2. d \o P \in Seq(Byte) /\ P \o t \in Seq(Byte)
        BY <1>1, BytesJoin
    <2> QED BY <2>1, <2>2 DEF Joined
<1>5. Before(32, d \o P) \o t = Before(32, (d \o P) \o t)
    BY <1>1, <1>4, BeforeJoins
<1>6. d \o (P \o t) \in Seq(Byte)
    BY <1>1, <1>4, BytesJoin
<1> QED BY <1>2, <1>3, <1>4, <1>5, <1>6 DEF P

\* The bytes of a word and of those behind it, from its length on.
LEMMA PartsBefore ==
    ASSUME NEW d \in Text, NEW cs \in Seq(Text)
    PROVE  LET n == Decimal[Len(d)] \o CrLf
               r == d \o (CrLf \o Parts(cs))
           IN  /\ n \in Seq(Byte) /\ r \in Seq(Byte) /\ CrLf \o Parts(cs) \in Seq(Byte)
               /\ n \o r \in Seq(Byte) /\ Parts(Before(d, cs)) = Before(Dollar, n \o r)
<1> DEFINE n == Decimal[Len(d)] \o CrLf
           P == Parts(cs)
           e == d \o CrLf
           r == d \o (CrLf \o P)
<1>1. n \in Seq(Byte) /\ e \in Seq(Byte) /\ Part(d) = Before(Dollar, n \o e)
    BY PartIs DEF Before
<1>2. d \in Seq(Byte) /\ P \in Seq(Byte) /\ Dollar \in Byte /\ CrLf \in Seq(Byte)
    BY PartsAre, CrLfIs DEF Text, Byte, Dollar
<1>3. Parts(Before(d, cs)) = Part(d) \o P
    BY PartsAre DEF Before
<1> HIDE DEF n, P
<1>4. n \o e \in Seq(Byte)
    BY <1>1, BytesJoin
<1>5. e \o P = r /\ r \in Seq(Byte) /\ CrLf \o P \in Seq(Byte)
    BY <1>2, BytesJoin
<1> HIDE DEF e, r
<1>6. (n \o e) \o P = n \o (e \o P)
    <2>1. Joined(Joined(n, e), P) = Joined(n, Joined(e, P))
        BY <1>1, <1>2, JoinedAssociate
    <2> QED BY <2>1 DEF Joined
<1>8. n \o r \in Seq(Byte)
    BY <1>1, <1>5, BytesJoin
<1>7. Before(Dollar, n \o e) \o P = Before(Dollar, (n \o e) \o P)
    BY <1>2, <1>4, BeforeJoins
<1> QED BY <1>1, <1>3, <1>5, <1>6, <1>7, <1>8 DEF n, r, P

LEMMA LineEnds ==
    /\ CrLf = Before(CR, <<LF>>) /\ <<LF>> = Before(LF, <<>>)
    /\ \A s \in Seq(Byte) : CrLf \o s = Before(CR, Before(LF, s))
<1>1. CrLf = Before(CR, <<LF>>) /\ <<LF>> = Before(LF, <<>>)
    BY CrLfIs DEF Before
<1>2. ASSUME NEW s \in Seq(Byte) PROVE CrLf \o s = Before(CR, Before(LF, s))
    <2>1. Before(CR, <<LF>>) \o s = Before(CR, <<LF>> \o s)
        BY CrLfIs, BeforeJoins
    <2> QED BY <1>1, <2>1 DEF Before
<1> QED BY <1>1, <1>2

-----------------------------------------------------------------------------
(***************************************************************************)
(* The parser in the middle of the encoding of c, with the bytes r of it   *)
(* to come.  What it has consumed is in args, word, argv and num: with r   *)
(* they make up c.                                                         *)
(***************************************************************************)
AtLetter(c, r) ==
    /\ state = "letter" /\ verdict = "ok" /\ argv = <<>>
    /\ args \in Seq(Text) /\ word \in Seq(Byte)
    /\ \E w \in Seq(LineByte), cs \in Seq(LineText), t \in {<<LF>>, CrLf} :
           /\ word \o w # <<>> /\ c = args \o Before(word \o w, cs)
           /\ r = w \o (Spaced(cs) \o t)

AtStar(c, r) ==
    /\ state = "star" /\ verdict = "ok" /\ argv = <<>> /\ word = <<>>
    /\ \E n \in Seq(Byte) : NumAt(num, n, Len(c)) /\ r = n \o Parts(c)

\* The buffers of the words that have been read are filled.
Buffer == [len : Int, data : Seq(Byte)]

Buffers(c) ==
    /\ verdict = "ok" /\ word = <<>>
    /\ args \in Seq(Text) /\ curarg = Len(args) + 1
    /\ argv \in Seq(Buffer) /\ Len(argv) = Len(c)
    /\ \A i \in 1 .. Len(argv) : /\ i <= Len(args) => argv[i] # Raw
                                 /\ argv[i] = Raw \/ Len(argv[i].data) <= argv[i].len

AtArgc(c, r) ==
    /\ state = "argc" /\ Buffers(c)
    /\ \E cs \in Seq(Text) : cs # <<>> /\ c = args \o cs /\ r = Parts(cs)

AtDollar(c, r) ==
    /\ state = "dollar" /\ Buffers(c)
    /\ \E d \in Text, cs \in Seq(Text), n \in Seq(Byte) :
           /\ c = args \o Before(d, cs)
           /\ NumAt(num, n, Len(d)) /\ r = n \o (d \o (CrLf \o Parts(cs)))

AtData(c, r) ==
    /\ state = "data" /\ Buffers(c)
    /\ \E d \in Text, cs \in Seq(Text), w \in Seq(Byte) :
           /\ c = args \o Before(d, cs)
           /\ argv[curarg].len = Len(d) /\ argv[curarg].data \o w = d
           /\ r = w \o (CrLf \o Parts(cs))

AtCr(c, r) ==
    /\ state = "cr" /\ Buffers(c)
    /\ \E d \in Text, cs \in Seq(Text) :
           /\ c = args \o Before(d, cs)
           /\ argv[curarg].data = d /\ r = Before(LF, Parts(cs))

AtEnd(c, r) ==
    /\ state = "lf" /\ verdict = "end" /\ word = <<>> /\ args = c /\ r = <<>>
    /\ \A i \in DOMAIN argv : argv[i] # Raw /\ Len(argv[i].data) <= argv[i].len

Reading(c, r) ==
    \/ AtLetter(c, r) \/ AtStar(c, r) \/ AtArgc(c, r)
    \/ AtDollar(c, r) \/ AtData(c, r) \/ AtCr(c, r)

Position(c, r) == Reading(c, r) \/ AtEnd(c, r)

-----------------------------------------------------------------------------
(***************************************************************************)
(* One byte further, by the state of the parser.                           *)
(***************************************************************************)
LEMMA LetterStep ==
    ASSUME NEW c \in Seq(Text), NEW x \in Byte, NEW s \in Seq(Byte),
           AtLetter(c, Before(x, s)), Consume(x)
    PROVE  Position(c, s)'
<1>1. PICK w \in Seq(LineByte), cs \in Seq(LineText), t \in {<<LF>>, CrLf} :
           /\ word \o w # <<>> /\ c = args \o Before(word \o w, cs)
           /\ Before(x, s) = w \o (Spaced(cs) \o t)
    BY DEF AtLetter
<1>2. /\ state = "letter" /\ argv = <<>> /\ args \in Seq(Text) /\ word \in Seq(Byte)
    BY DEF AtLetter
<1>3. Letter(x)
    BY <1>2 DEF Consume, Start, Argc, Chunk, ArgLen, Data, WordRead, Refuse, Accepts
<1>4. UNCHANGED <<num, argv, curarg>>
    BY <1>3 DEF Letter
<1>5. /\ w \in Seq(Byte) /\ cs \in Seq(Text) /\ t \in Seq(Byte)
      /\ LineByte \subseteq Byte /\ LineText \subseteq Text
    BY LineBytes, SeqMonotonic, CrLfIs
<1>6. Spaced(cs) \o t \in Seq(Byte)
    BY <1>5, SpacedAre, BytesJoin
<1>7. CASE w # <<>>
    <2> DEFINE y == Head(w)
               v == Tail(w)
               q == Spaced(cs) \o t
    <2>1. y \in LineByte /\ v \in Seq(LineByte) /\ w = Before(y, v)
        BY <1>7, HeadAndTail DEF Before
    <2>2. y \in Byte /\ v \in Seq(Byte)
        BY <1>5, <2>1, LineBytes, SeqMonotonic
    <2> HIDE DEF y, v, q
    <2>3. w \o q = Before(y, v \o q) /\ v \o q \in Seq(Byte)
        <3>1. q \in Seq(Byte)
            BY <1>6 DEF q
        <3>2. Before(y, v) \o q = Before(y, v \o q)
            BY <2>2, <3>1, BeforeJoins
        <3>3. v \o q \in Seq(Byte)
            BY <2>2, <3>1, BytesJoin
        <3> QED BY <2>1, <3>2, <3>3
    <2>4. x = y /\ s = v \o q
        <3> DEFINE u == v \o q
        <3>1. Before(x, s) = Before(y, u) /\ u \in Seq(Byte)
            BY <1>1, <2>3 DEF q
        <3> HIDE DEF u
        <3>2. x = y /\ s = u
            BY <2>2, <3>1, Peel
        <3> QED BY <3>2 DEF u
    <2>5. x \notin {CR, LF} \cup Blank
        BY <2>1, <2>4 DEF LineByte, Alpha, Digit, CR, LF, Blank
    <2>6. verdict' = "ok" /\ word' = Append(word, x) /\ UNCHANGED <<state, args>>
        BY <1>3, <2>5 DEF Letter, Ok
    <2>7. word' \in Seq(Byte) /\ word' \o v = word \o w
        BY <1>2, <2>1, <2>2, <2>4, <2>6, BytesGrow
    <2>8. AtLetter(c, s)'
        <3>1. word' \o v # <<>> /\ c = args' \o Before(word' \o v, cs)
            BY <1>1, <2>6, <2>7
        <3>2. s = v \o (Spaced(cs) \o t)
            BY <2>4 DEF q
        <3> QED BY <1>2, <1>4, <2>1, <2>6, <2>7, <3>1, <3>2 DEF AtLetter
    <2> QED BY <2>8 DEF Position, Reading
<1>8. CASE w = <<>> /\ cs # <<>>
    <2> DEFINE d == Head(cs)
               es == Tail(cs)
               q == Spaced(es) \o t
    <2>1. d \in LineText /\ es \in Seq(LineText) /\ cs = Before(d, es)
        BY <1>8, HeadAndTail DEF Before
    <2>2. d \in Text /\ d \in Seq(LineByte) /\ es \in Seq(Text)
        <3>1. d \in Text
            BY <1>5, <2>1
        <3>2. es \in Seq(Text)
            BY <1>5, <2>1, SeqMonotonic
        <3> QED BY <2>1, <3>1, <3>2 DEF LineText
    <2> HIDE DEF d, es
    <2>3. Spaced(cs) \o t = Before(32, d \o q) /\ d \o q \in Seq(Byte)
        <3>1. Spaced(Before(d, es)) \o t = Before(32, d \o q) /\ d \o q \in Seq(Byte)
            <4>1. d \in Text /\ es \in Seq(Text) /\ t \in Seq(Byte)
                BY <1>5, <2>2
            <4> QED BY ONLY <4>1, SpacedBefore DEF q
        <3> QED BY <2>1, <3>1
    <2> HIDE DEF q
    <2>4. word \o w = word /\ word \in Text
        BY <1>1, <1>2, <1>8, BytesJoin DEF Text
    <2>5. x = 32 /\ s = d \o q
        <3> DEFINE u == d \o q
                   b == 32
        <3>1. Before(x, s) = Before(b, u) /\ b \in Byte /\ u \in Seq(Byte)
            BY <1>1, <1>6, <1>8, <2>3, BytesJoin DEF Byte
        <3> HIDE DEF u, b
        <3>2. x = b /\ s = u
            BY <3>1, Peel
        <3> QED BY <3>2 DEF u, b
    <2>6. x \in Blank /\ x # CR /\ x # LF
        BY <2>5 DEF Blank, CR, LF
    <2>7. verdict' = "ok" /\ args' = Append(args, word) /\ word' = <<>> /\ UNCHANGED state
        BY <1>3, <2>6 DEF Letter, Ok
    <2>8. AtLetter(c, s)'
        <3>1. args' \in Seq(Text) /\ args' \o cs = args \o Before(word, cs)
            BY <1>2, <1>5, <2>4, <2>7, TextsGrow
        <3>2. d # <<>> /\ d \in Seq(Byte) /\ <<>> \o d = d
            BY <2>2, BytesJoin DEF Text
        <3>3. word' \o d = d
            BY <2>7, <3>2
        <3>4. word' \o d # <<>> /\ c = args' \o Before(word' \o d, es)
            BY <1>1, <2>1, <2>4, <3>1, <3>2, <3>3
        <3>5. s = d \o (Spaced(es) \o t)
            BY <2>5 DEF q
        <3>6. word' \in Seq(Byte)
            BY <2>7, BytesJoin
        <3> QED BY <1>2, <1>4, <2>1, <2>2, <2>7, <3>1, <3>4, <3>5, <3>6 DEF AtLetter
    <2> QED BY <2>8 DEF Position, Reading
<1>9. CASE w = <<>> /\ cs = <<>>
    <2>1. Before(x, s) = t
        BY <1>1, <1>5, <1>9, SpacedAre, BytesJoin
    <2>2. word \o w = word /\ word \in Text /\ word # <<>>
        BY <1>1, <1>2, <1>9, BytesJoin DEF Text
    <2>3. CASE t = <<LF>>
        <3>1. x = LF /\ s = <<>>
            <4>1. Before(x, s) = Before(LF, <<>>)
                BY <2>1, <2>3, LineEnds
            <4> QED BY <4>1, PeelLast, CrLfIs
        <3>2. x # CR /\ x \notin Blank
            BY <3>1 DEF LF, CR, Blank
        <3>3. verdict' = "end" /\ state' = "lf" /\ args' = Append(args, word) /\ word' = <<>>
            BY <1>3, <2>2, <3>1, <3>2 DEF Letter, End
        <3>4. args' = c
            <4>3. <<>> \in Seq(Text)
                BY EmptySeq
            <4>1. Append(args, word) \o <<>> = args \o Before(word, <<>>) /\ Append(args, word) \in Seq(Text)
                BY <1>2, <2>2, <4>3, TextsGrow
            <4>2. Append(args, word) \o <<>> = Append(args, word)
                BY <4>1, TextsJoin
            <4> QED BY <1>1, <1>9, <2>2, <3>3, <4>1, <4>2
        <3>5. DOMAIN argv' = {}
            BY <1>2, <1>4
        <3>6. AtEnd(c, s)'
            BY <3>1, <3>3, <3>4, <3>5 DEF AtEnd
        <3> QED BY <3>6 DEF Position
    <2>4. CASE t = CrLf
        <3>1. x = CR /\ s = <<LF>>
            <4>1. Before(x, s) = Before(CR, <<LF>>)
                BY <2>1, <2>4, LineEnds
            <4> QED BY <4>1, Peel, CrLfIs
        <3>2. x # LF /\ x \notin Blank
            BY <3>1 DEF LF, CR, Blank
        <3>3. verdict' = "ok" /\ UNCHANGED <<state, word, args>>
            BY <1>3, <3>1, <3>2 DEF Letter, Ok
        <3>4. s = w \o (Spaced(cs) \o <<LF>>)
            BY <1>9, <3>1, SpacedAre, BytesJoin, CrLfIs
        <3>5. AtLetter(c, s)'
            <4>1. word' \o w # <<>> /\ c = args' \o Before(word' \o w, cs)
                BY <1>1, <3>3
            <4>2. \E tt \in {<<LF>>, CrLf} : s = w \o (Spaced(cs) \o tt)
                BY <3>4
            <4> QED BY <1>2, <1>4, <3>3, <4>1, <4>2 DEF AtLetter
        <3> QED BY <3>5 DEF Position, Reading
    <2> QED BY <2>3, <2>4
<1> QED BY <1>7, <1>8, <1>9

-----------------------------------------------------------------------------
(***************************************************************************)
(* One byte further, where a number, the data of a word or its end is      *)
(* read.                                                                   *)
(***************************************************************************)
LEMMA PeelFrom ==
    ASSUME NEW x \in Byte, NEW s \in Seq(Byte), NEW u \in Seq(Byte), u # <<>>,
           NEW t \in Seq(Byte), Before(x, s) = Joined(u, t)
    PROVE  \E v \in Seq(Byte) : u = Before(x, v) /\ s = Joined(v, t)
<1> DEFINE y == Head(u)
           v == Tail(u)
           q == Joined(v, t)
<1>1. y \in Byte /\ v \in Seq(Byte) /\ u = Before(y, v)
    BY Splits
<1> HIDE DEF y, v
<1>2. q \in Seq(Byte)
    BY <1>1, BytesJoin DEF Joined
<1>3. Before(y, v) \o t = Before(y, v \o t)
    BY <1>1, BeforeJoins
<1>4. Before(x, s) = Before(y, q)
    BY <1>1, <1>3 DEF Joined
<1>5. q = Joined(v, t)
    OBVIOUS
<1> HIDE DEF q
<1>6. x = y /\ s = q
    BY <1>1, <1>2, <1>4, Peel
<1> QED BY <1>1, <1>5, <1>6

LEMMA StarStep ==
    ASSUME NEW c \in Seq(Text), c # <<>>, NEW x \in Byte, NEW s \in Seq(Byte),
           num \in NumType, AtStar(c, Before(x, s)), Consume(x)
    PROVE  Position(c, s)'
<1> DEFINE P == Parts(c)
           N == Len(c)
<1>1. PICK n \in Seq(Byte) : NumAt(num, n, N) /\ Before(x, s) = n \o P
    BY DEF AtStar
<1>2. state = "star" /\ argv = <<>> /\ word = <<>>
    BY DEF AtStar
<1>3. N \in Nat \ {0} /\ P \in Seq(Byte)
    BY EmptySeq, PartsAre
<1> HIDE DEF P, N
<1>4. n # <<>>
    BY <1>1, <1>3, NumLeft
<1>5. PICK v \in Seq(Byte) : n = Before(x, v) /\ s = v \o P
    <2>1. n \in Seq(Byte) /\ Before(x, s) = Joined(n, P)
        BY <1>1 DEF Joined
    <2>2. \E v \in Seq(Byte) : n = Before(x, v) /\ s = Joined(v, P)
        BY <1>3, <1>4, <2>1, PeelFrom
    <2> QED BY <2>2 DEF Joined
<1>6. \/ NumVerdict(num, x) = "ok" /\ NumAt(NumAfter(num, x), v, N)
      \/ NumVerdict(num, x) = "end" /\ v = <<>> /\ num.val = N
    BY <1>1, <1>3, <1>5, NumStep
<1>7. Argc(x)
    BY <1>2, <1>6 DEF Consume, Start, Letter, Chunk, ArgLen, Data, WordRead, Refuse, Accepts
<1>8. num' = NumAfter(num, x) /\ verdict' = "ok" /\ word' = word
    BY <1>7 DEF Argc, Ok
<1>9. CASE NumVerdict(num, x) = "ok" /\ NumAt(NumAfter(num, x), v, N)
    <2>1. UNCHANGED <<state, argv>>
        BY <1>7, <1>9 DEF Argc
    <2>2. NumAt(num', v, N)
        BY <1>8, <1>9
    <2>3. AtStar(c, s)'
        BY <1>2, <1>5, <1>8, <2>1, <2>2 DEF AtStar, N, P
    <2> QED BY <2>3 DEF Position, Reading
<1>10. CASE NumVerdict(num, x) = "end" /\ v = <<>> /\ num.val = N
    <2>1. /\ state' = "argc" /\ argv' = [i \in 1 .. N |-> Raw]
          /\ curarg' = 1 /\ args' = <<>>
        BY <1>7, <1>10 DEF Argc
    <2>2. Raw \in Buffer
        BY EmptySeq DEF Raw, Buffer
    <2>3. argv' \in Seq(Buffer) /\ Len(argv') = N /\ \A i \in 1 .. N : argv'[i] = Raw
        BY <1>3, <2>1, <2>2
    <2>4. args' \in Seq(Text) /\ Len(args') = 0
        BY <2>1, EmptySeq
    <2>5. Buffers(c)'
        BY <1>2, <1>3, <1>8, <2>1, <2>3, <2>4 DEF Buffers, N
    <2>6. c = args' \o c
        BY <2>1, TextsJoin
    <2>7. s = Parts(c)
        BY <1>3, <1>5, <1>10, BytesJoin DEF P
    <2>8. AtArgc(c, s)'
        BY <2>1, <2>5, <2>6, <2>7 DEF AtArgc
    <2> QED BY <2>8 DEF Position, Reading
<1> QED BY <1>6, <1>9, <1>10

LEMMA ArgcStep ==
    ASSUME NEW c \in Seq(Text), NEW x \in Byte, NEW s \in Seq(Byte),
           AtArgc(c, Before(x, s)), Consume(x)
    PROVE  Position(c, s)'
<1>1. PICK cs \in Seq(Text) : cs # <<>> /\ c = args \o cs /\ Before(x, s) = Parts(cs)
    BY DEF AtArgc
<1>2. state = "argc" /\ Buffers(c)
    BY DEF AtArgc
<1> DEFINE d == Head(cs)
           es == Tail(cs)
           n == Decimal[Len(d)] \o CrLf
           r == d \o (CrLf \o Parts(es))
           u == n \o r
<1>3. d \in Text /\ es \in Seq(Text) /\ cs = Before(d, es)
    BY <1>1, TextsSplit
<1> HIDE DEF d, es
<1>4. n \in Seq(Byte) /\ u \in Seq(Byte) /\ Parts(cs) = Before(Dollar, u)
    BY <1>3, PartsBefore
<1>5. u = n \o r
    OBVIOUS
<1> HIDE DEF u
<1>6. x = Dollar /\ s = u
    <2>1. Dollar \in Byte
        BY DEF Dollar, Byte
    <2>2. Before(x, s) = Before(Dollar, u)
        BY <1>1, <1>4
    <2> QED BY <1>4, <2>1, <2>2, Peel
<1>7. Chunk(x)
    BY <1>2, <1>6 DEF Consume, Start, Letter, Argc, ArgLen, Data, WordRead, Refuse, Accepts
<1>8. /\ state' = "dollar" /\ num' = NumReset /\ verdict' = "ok"
      /\ UNCHANGED <<argv, curarg, word, args>>
    BY <1>7 DEF Chunk, Ok
<1>9. Buffers(c)'
    BY <1>2, <1>8 DEF Buffers
<1>10. NumAt(num', n, Len(d))
    BY <1>8 DEF NumAt
<1>11. c = args' \o Before(d, es)
    BY <1>1, <1>3, <1>8
<1> HIDE DEF n
<1>12. AtDollar(c, s)'
    BY <1>3, <1>4, <1>5, <1>6, <1>8, <1>9, <1>10, <1>11 DEF AtDollar
<1> QED BY <1>12 DEF Position, Reading

\* The buffer that is being filled is one of the command's.
LEMMA CurargIs ==
    ASSUME NEW c \in Seq(Text), Buffers(c), NEW d \in Text, NEW cs \in Seq(Text),
           c = args \o Before(d, cs)
    PROVE  /\ curarg \in 1 .. Len(argv) /\ Len(argv) \in Nat /\ Len(args) \in Nat
           /\ curarg = Len(args) + 1
           /\ Len(argv) = curarg + Len(cs) /\ Len(cs) \in Nat
           /\ argv[curarg] \in Buffer
<1>1. /\ args \in Seq(Text) /\ curarg = Len(args) + 1 /\ Len(argv) = Len(c)
      /\ argv \in Seq(Buffer)
    BY DEF Buffers
<1>2. Before(d, cs) \in Seq(Text) /\ Len(Before(d, cs)) = 1 + Len(cs)
    BY TextsBefore
<1>3. Len(c) = Len(args) + Len(Before(d, cs))
    BY <1>1, <1>2, ConcatProperties
<1>4. Len(args) \in Nat /\ Len(cs) \in Nat
    BY <1>1, LenProperties
<1>5. curarg \in 1 .. Len(argv) /\ Len(argv) \in Nat /\ Len(argv) = curarg + Len(cs)
    BY <1>1, <1>2, <1>3, <1>4
<1>6. argv[curarg] \in Buffer
    BY <1>1, <1>5, ElementOfSeq
<1> QED BY <1>1, <1>4, <1>5, <1>6

LEMMA DollarStep ==
    ASSUME NEW c \in Seq(Text), NEW x \in Byte, NEW s \in Seq(Byte),
           num \in NumType, AtDollar(c, Before(x, s)), Consume(x)
    PROVE  Position(c, s)'
<1>1. PICK d \in Text, cs \in Seq(Text), n \in Seq(Byte) :
           /\ c = args \o Before(d, cs)
           /\ NumAt(num, n, Len(d)) /\ Before(x, s) = n \o (d \o (CrLf \o Parts(cs)))
    BY DEF AtDollar
<1>2. state = "dollar" /\ Buffers(c)
    BY DEF AtDollar
<1> DEFINE r == d \o (CrLf \o Parts(cs))
           N == Len(d)
<1>3. N \in Nat \ {0} /\ r \in Seq(Byte) /\ d \in Seq(Byte)
    BY PartsBefore, EmptySeq DEF Text
<1>4. Before(x, s) = n \o r /\ NumAt(num, n, N)
    BY <1>1
<1> HIDE DEF r, N
<1>5. n # <<>>
    BY <1>3, <1>4, NumLeft
<1>6. PICK v \in Seq(Byte) : n = Before(x, v) /\ s = v \o r
    <2>1. n \in Seq(Byte) /\ Before(x, s) = Joined(n, r)
        BY <1>4 DEF Joined
    <2>2. \E v \in Seq(Byte) : n = Before(x, v) /\ s = Joined(v, r)
        BY <1>3, <1>5, <2>1, PeelFrom
    <2> QED BY <2>2 DEF Joined
<1>7. \/ NumVerdict(num, x) = "ok" /\ NumAt(NumAfter(num, x), v, N)
      \/ NumVerdict(num, x) = "end" /\ v = <<>> /\ num.val = N
    BY <1>3, <1>4, <1>6, NumStep
<1>8. ArgLen(x)
    BY <1>2, <1>7 DEF Consume, Start, Letter, Argc, Chunk, Data, WordRead, Refuse, Accepts
<1>9. verdict' = "ok" /\ UNCHANGED <<curarg, word, args>>
    BY <1>8 DEF ArgLen, Ok
<1>10. CASE NumVerdict(num, x) = "ok" /\ NumAt(NumAfter(num, x), v, N)
    <2>1. num' = NumAfter(num, x) /\ UNCHANGED <<state, argv>>
        BY <1>8, <1>10 DEF ArgLen
    <2>2. Buffers(c)'
        BY <1>2, <1>9, <2>1 DEF Buffers
    <2>3. NumAt(num', v, Len(d))
        BY <1>10, <2>1 DEF N
    <2>4. c = args' \o Before(d, cs)
        BY <1>1, <1>9
    <2>5. AtDollar(c, s)'
        BY <1>2, <1>6, <2>1, <2>2, <2>3, <2>4 DEF AtDollar, r
    <2> QED BY <2>5 DEF Position, Reading
<1>11. CASE NumVerdict(num, x) = "end" /\ v = <<>> /\ num.val = N
    <2> DEFINE b == [len |-> num.val, data |-> <<>>]
    <2>1. state' = "data" /\ argv' = [argv EXCEPT ![curarg] = b]
        BY <1>8, <1>11 DEF ArgLen
    <2>2. /\ curarg \in 1 .. Len(argv) /\ Len(argv) \in Nat /\ argv \in Seq(Buffer)
          /\ curarg = Len(args) + 1 /\ Len(args) \in Nat
        BY <1>1, <1>2, CurargIs DEF Buffers
    <2>3. b \in Buffer /\ Len(b.data) = 0 /\ b.len = Len(d) /\ b.data = <<>>
        BY <1>3, <1>11, EmptySeq DEF Buffer, N
    <2> HIDE DEF b
    <2>4. /\ argv' \in Seq(Buffer) /\ Len(argv') = Len(argv)
          /\ \A i \in 1 .. Len(argv) : argv'[i] = IF i = curarg THEN b ELSE argv[i]
        BY <2>1, <2>2, <2>3, ExceptSeq
    <2>5. Buffers(c)'
        <3>1. ASSUME NEW i \in 1 .. Len(argv)
              PROVE  /\ i <= Len(args) => argv'[i] # Raw
                     /\ argv'[i] = Raw \/ Len(argv'[i].data) <= argv'[i].len
            <4>1. CASE i = curarg
                <5>1. argv'[i] = b
                    BY <2>4, <4>1
                <5>3. ~(i <= Len(args))
                    BY <2>2, <4>1
                <5>2. Len(b.data) <= b.len
                    BY <1>3, <2>3 DEF N
                <5> QED BY <5>1, <5>2, <5>3
            <4>2. CASE i # curarg
                BY <1>2, <2>4, <4>2 DEF Buffers
            <4> QED BY <4>1, <4>2
        <3> QED BY <1>2, <1>9, <2>4, <3>1 DEF Buffers
    <2>6. argv'[curarg'] = b
        BY <1>9, <2>2, <2>4
    <2>7. s = d \o (CrLf \o Parts(cs))
        BY <1>3, <1>6, <1>11, BytesJoin DEF r
    <2>8. argv'[curarg'].len = Len(d) /\ argv'[curarg'].data \o d = d
        BY <1>3, <2>3, <2>6, BytesJoin
    <2>9. c = args' \o Before(d, cs)
        BY <1>1, <1>9
    <2>10. AtData(c, s)'
        BY <1>3, <2>1, <2>5, <2>7, <2>8, <2>9 DEF AtData
    <2> QED BY <2>10 DEF Position, Reading
<1> QED BY <1>7, <1>10, <1>11

LEMMA DataStep ==
    ASSUME NEW c \in Seq(Text), NEW x \in Byte, NEW s \in Seq(Byte),
           AtData(c, Before(x, s)), Consume(x)
    PROVE  Position(c, s)'
<1> DEFINE b == argv[curarg]
           p == b.data
<1>1. PICK d \in Text, cs \in Seq(Text), w \in Seq(Byte) :
           /\ c = args \o Before(d, cs)
           /\ b.len = Len(d) /\ p \o w = d
           /\ Before(x, s) = w \o (CrLf \o Parts(cs))
    BY DEF AtData
<1>2. state = "data" /\ Buffers(c)
    BY DEF AtData
<1>3. /\ curarg \in 1 .. Len(argv) /\ Len(argv) \in Nat /\ argv \in Seq(Buffer)
      /\ curarg = Len(args) + 1 /\ Len(args) \in Nat /\ b \in Buffer
    BY <1>1, <1>2, CurargIs DEF Buffers
<1> DEFINE r == CrLf \o Parts(cs)
           P == Parts(cs)
<1>4. r \in Seq(Byte) /\ P \in Seq(Byte) /\ p \in Seq(Byte) /\ d \in Seq(Byte)
    BY <1>3, PartsBefore, PartsAre DEF Text, Buffer
<1>5. Before(x, s) = w \o r
    BY <1>1
<1>6. r = Before(CR, Before(LF, P))
    BY <1>4, LineEnds
<1> HIDE DEF r, P
<1>7. Len(d) = Len(p) + Len(w) /\ Len(p) \in Nat /\ Len(w) \in Nat
    BY <1>1, <1>4, ConcatProperties, LenProperties
<1>8. CASE w # <<>>
    <2>1. PICK v \in Seq(Byte) : w = Before(x, v) /\ s = v \o r
        <3>1. w \in Seq(Byte) /\ Before(x, s) = Joined(w, r)
            BY <1>5 DEF Joined
        <3>2. \E v \in Seq(Byte) : w = Before(x, v) /\ s = Joined(v, r)
            BY <1>4, <1>8, <3>1, PeelFrom
        <3> QED BY <3>2 DEF Joined
    <2>2. Len(w) # 0
        BY <1>8, EmptySeq
    <2>3. ~Full
        <3>1. Len(p) # Len(d)
            BY <1>7, <2>2
        <3> QED BY <1>1, <3>1 DEF Full
    <2>4. Data(x)
        BY <1>2, <2>3 DEF Consume, Start, Letter, Argc, Chunk, ArgLen, WordRead, Refuse, Accepts
    <2>5. /\ argv' = [argv EXCEPT ![curarg].data = Append(@, x)]
          /\ verdict' = "ok" /\ UNCHANGED <<state, curarg, word, args>>
        BY <2>3, <2>4 DEF Data, Ok
    <2> DEFINE e == [b EXCEPT !.data = Append(p, x)]
    <2>6. argv' = [argv EXCEPT ![curarg] = e]
        BY <2>5
    <2>7. Append(p, x) \in Seq(Byte) /\ Append(p, x) \o v = d /\ Len(Append(p, x)) = Len(p) + 1
          /\ Append(p, x) # <<>>
        <3>1. p \in Seq(Byte) /\ p \o Before(x, v) = d
            BY <1>1, <1>4, <2>1
        <3> HIDE DEF p, b
        <3>2. /\ Append(p, x) \in Seq(Byte) /\ Append(p, x) \o v = p \o Before(x, v)
              /\ Append(p, x) # <<>> /\ Len(Append(p, x)) = Len(p) + 1
            BY <2>1, <3>1, BytesGrow
        <3> QED BY <3>1, <3>2
    <2>8. e \in Buffer /\ e.data = Append(p, x) /\ e.len = Len(d)
        BY <1>1, <1>3, <2>7 DEF Buffer
    <2> HIDE DEF e
    <2>9. /\ argv' \in Seq(Buffer) /\ Len(argv') = Len(argv)
          /\ \A i \in 1 .. Len(argv) : argv'[i] = IF i = curarg THEN e ELSE argv[i]
        BY <1>3, <2>6, <2>8, ExceptSeq
    <2>10. Buffers(c)'
        <3>1. ASSUME NEW i \in 1 .. Len(argv)
              PROVE  /\ i <= Len(args) => argv'[i] # Raw
                     /\ argv'[i] = Raw \/ Len(argv'[i].data) <= argv'[i].len
            <4>1. CASE i = curarg
                <5>0. argv'[i] = e
                    BY <2>9, <4>1
                <5>3. ~(i <= Len(args))
                    BY <1>3, <4>1
                <5>1. argv'[i] = e /\ ~(i <= Len(args))
                    BY <5>0, <5>3
                <5>2. Len(e.data) <= e.len
                    BY <1>7, <2>2, <2>7, <2>8
                <5> QED BY <5>1, <5>2
            <4>2. CASE i # curarg
                BY <1>2, <2>9, <4>2 DEF Buffers
            <4> QED BY <4>1, <4>2
        <3> QED BY <1>2, <2>5, <2>9, <3>1 DEF Buffers
    <2>11. argv'[curarg'] = e
        BY <1>3, <2>5, <2>9
    <2>12. argv'[curarg'].len = Len(d) /\ argv'[curarg'].data \o v = d
        BY <2>7, <2>8, <2>11
    <2>13. c = args' \o Before(d, cs)
        BY <1>1, <2>5
    <2>14. AtData(c, s)'
        BY <1>2, <2>1, <2>5, <2>10, <2>12, <2>13 DEF AtData, r
    <2> QED BY <2>14 DEF Position, Reading
<1>9. CASE w = <<>>
    <2>1. x = CR /\ s = Before(LF, P)
        <3>1. Before(x, s) = Before(CR, Before(LF, P))
            BY <1>4, <1>5, <1>6, <1>9, BytesJoin
        <3>2. Before(LF, P) \in Seq(Byte)
            BY <1>4, BytesBefore, CrLfIs
        <3> QED BY <3>1, <3>2, Peel, CrLfIs
    <2>2. p = d
        BY <1>1, <1>4, <1>9, BytesJoin
    <2>3. Full
        BY <1>1, <2>2 DEF Full
    <2>4. x # LF
        BY <2>1 DEF CR, LF
    <2>5. Data(x)
        BY <1>2, <2>1, <2>3 DEF Consume, Start, Letter, Argc, Chunk, ArgLen, WordRead, Refuse, Accepts
    <2>6. state' = "cr" /\ verdict' = "ok" /\ UNCHANGED <<argv, curarg, word, args>>
        BY <2>3, <2>4, <2>5 DEF Data, Ok
    <2>7. Buffers(c)'
        BY <1>2, <2>6 DEF Buffers
    <2>8. c = args' \o Before(d, cs) /\ argv'[curarg'].data = d
        BY <1>1, <2>2, <2>6
    <2>9. AtCr(c, s)'
        BY <2>1, <2>6, <2>7, <2>8 DEF AtCr, P
    <2> QED BY <2>9 DEF Position, Reading
<1> QED BY <1>8, <1>9

LEMMA CrStep ==
    ASSUME NEW c \in Seq(Text), NEW x \in Byte, NEW s \in Seq(Byte),
           AtCr(c, Before(x, s)), Consume(x)
    PROVE  Position(c, s)'
<1>1. PICK d \in Text, cs \in Seq(Text) :
           /\ c = args \o Before(d, cs)
           /\ argv[curarg].data = d /\ Before(x, s) = Before(LF, Parts(cs))
    BY DEF AtCr
<1>2. state = "cr" /\ Buffers(c)
    BY DEF AtCr
<1>3. /\ curarg \in 1 .. Len(argv) /\ Len(argv) \in Nat /\ argv \in Seq(Buffer)
      /\ curarg = Len(args) + 1 /\ Len(args) \in Nat /\ argv[curarg] \in Buffer
      /\ Len(argv) = curarg + Len(cs) /\ Len(cs) \in Nat
    BY <1>1, <1>2, CurargIs DEF Buffers
<1>4. x = LF /\ s = Parts(cs)
    BY <1>1, PartsAre, Peel, CrLfIs
<1>5. WordRead(x)
    BY <1>2, <1>4 DEF Consume, Start, Letter, Argc, Chunk, ArgLen, Data, Refuse, Accepts
<1>6. /\ args' = Append(args, d) /\ curarg' = curarg + 1
      /\ \/ curarg = Len(argv) /\ state' = "lf" /\ verdict' = "end"
         \/ curarg # Len(argv) /\ state' = "argc" /\ verdict' = "ok"
      /\ UNCHANGED <<num, argv, word>>
    BY <1>1, <1>5 DEF WordRead, Ok, End
<1>7. args \in Seq(Text)
    BY <1>2 DEF Buffers
<1>8. args' \in Seq(Text) /\ args' \o cs = c /\ Len(args') = Len(args) + 1
    BY <1>1, <1>6, <1>7, TextsGrow
<1>9. argv[curarg] # Raw
    <2>1. d # <<>> /\ Raw.data = <<>>
        BY DEF Text, Raw
    <2> QED BY <1>1, <2>1
<1>10. ASSUME NEW i \in 1 .. Len(argv), i <= Len(args') PROVE argv[i] # Raw
    <2>1. i <= Len(args) \/ i = curarg
        BY <1>3, <1>8, <1>10
    <2> QED BY <1>2, <1>9, <2>1 DEF Buffers
<1>11. CASE cs = <<>>
    <2>1. Len(cs) = 0
        BY <1>11, EmptySeq
    <2>2. curarg = Len(argv)
        BY <1>3, <2>1
    <2>3. args' = c
        BY <1>8, <1>11, TextsJoin
    <2>4. s = <<>>
        BY <1>4, <1>11, PartsAre
    <2>5. word' = <<>>
        BY <1>2, <1>6 DEF Buffers
    <2>6. \A i \in DOMAIN argv' : argv'[i] # Raw /\ Len(argv'[i].data) <= argv'[i].len
        <3>1. DOMAIN argv = 1 .. Len(argv)
            BY <1>3, LenProperties
        <3> SUFFICES ASSUME NEW i \in 1 .. Len(argv)
                     PROVE  argv[i] # Raw /\ Len(argv[i].data) <= argv[i].len
            BY <1>6, <3>1
        <3>2. i <= Len(args')
            BY <1>3, <1>8, <2>2
        <3> QED BY <1>2, <1>10, <3>2 DEF Buffers
    <2>7. AtEnd(c, s)'
        BY <1>6, <2>2, <2>3, <2>4, <2>5, <2>6 DEF AtEnd
    <2> QED BY <2>7 DEF Position
<1>12. CASE cs # <<>>
    <2>1. Len(cs) # 0
        BY <1>12, EmptySeq
    <2>2. curarg # Len(argv)
        BY <1>3, <2>1
    <2>3. Buffers(c)'
        BY <1>2, <1>3, <1>6, <1>8, <1>10, <2>2 DEF Buffers
    <2>4. AtArgc(c, s)'
        BY <1>4, <1>6, <1>8, <1>12, <2>2, <2>3 DEF AtArgc
    <2> QED BY <2>4 DEF Position, Reading
<1> QED BY <1>11, <1>12

LEMMA ReadingStep ==
    ASSUME NEW c \in Seq(Text), c # <<>>, NEW x \in Byte, NEW s \in Seq(Byte),
           num \in NumType, Reading(c, Before(x, s)), Consume(x)
    PROVE  Position(c, s)'
BY LetterStep, StarStep, ArgcStep, DollarStep, DataStep, CrStep DEF Reading

-----------------------------------------------------------------------------
(***************************************************************************)
(* Where an encoding begins, and the bytes between two commands.           *)
(***************************************************************************)
LEMMA ConsumeKeepsNum ==
    ASSUME num \in NumType, NEW x \in Byte, Consume(x)
    PROVE  num' \in NumType
<1>1. NumReset \in NumType
    BY DEF NumReset, NumType
<1>2. CASE Start(x)
    BY <1>1, <1>2 DEF Start
<1>3. CASE Argc(x)
    BY <1>3, NumKeepsType DEF Argc
<1>4. CASE ArgLen(x)
    <2>1. CASE NumVerdict(num, x) = "ok" /\ num' = NumAfter(num, x)
        BY <2>1, NumKeepsType
    <2> QED BY <1>1, <1>4, <2>1 DEF ArgLen
<1>5. CASE Letter(x) \/ Chunk(x) \/ Data(x) \/ WordRead(x) \/ Refuse(x)
    BY <1>1, <1>5 DEF Letter, Chunk, Data, WordRead, Refuse
<1> QED BY <1>2, <1>3, <1>4, <1>5 DEF Consume

\* A command in the form of a line, its words known by their bytes.
LEMMA LinesAre ==
    ASSUME NEW c \in TextCommand, \A i \in DOMAIN c : \A j \in DOMAIN c[i] : c[i][j] \in LineByte
    PROVE  \E d \in LineText, cs \in Seq(LineText) :
               c = Before(d, cs) /\ c[1] = d /\ Line(c) = d \o Spaced(cs)
<1>1. c \in Seq(Text) /\ c # <<>> /\ DOMAIN c = 1 .. Len(c) /\ Len(c) \in Nat
    BY CommandsAreTexts, LenProperties
<1>2. \A i \in 1 .. Len(c) : c[i] \in LineText
    <2> SUFFICES ASSUME NEW i \in 1 .. Len(c) PROVE c[i] \in LineText
        OBVIOUS
    <2> DEFINE d == c[i]
    <2>1. d \in Seq(Byte) /\ d # <<>>
        BY <1>1, ElementOfSeq DEF Text
    <2>2. \A j \in DOMAIN d : d[j] \in LineByte
        BY <1>1
    <2> HIDE DEF d
    <2>3. d = [j \in 1 .. Len(d) |-> d[j]] /\ DOMAIN d = 1 .. Len(d) /\ Len(d) \in Nat
        BY <2>1, LenProperties
    <2>4. d \in Seq(LineByte)
        <3> DEFINE L == Len(d)
                   g == [j \in 1 .. L |-> d[j]]
        <3>1. L \in Nat /\ \A j \in 1 .. L : d[j] \in LineByte
            BY <2>2, <2>3
        <3>2. g \in Seq(LineByte)
            <4> HIDE DEF L
            <4> QED BY <3>1
        <3> QED BY <2>3, <3>2
    <2> QED BY <2>1, <2>4 DEF d, LineText
<1>3. c \in Seq(LineText)
    <2> DEFINE L == Len(c)
               g == [j \in 1 .. L |-> c[j]]
    <2>1. g \in Seq(LineText)
        <3> HIDE DEF L
        <3> QED BY <1>1, <1>2 DEF L
    <2>2. c = g
        BY <1>1
    <2> QED BY <2>1, <2>2
<1> DEFINE d == Head(c)
           cs == Tail(c)
<1>4. d \in LineText /\ cs \in Seq(LineText) /\ c = Before(d, cs)
    BY <1>1, <1>3, HeadAndTail DEF Before
<1>5. d = c[1]
    BY <1>1
<1> HIDE DEF d, cs
<1>6. d \in Text /\ cs \in Seq(Text)
    BY <1>4, LineBytes, SeqMonotonic
<1>7. Line(c) = d \o Spaced(cs)
    BY <1>4, <1>6, LineIs DEF Before
<1> QED BY <1>4, <1>5, <1>7

\* What an encoding is: a star and two parts, or the words of a line.
InChunks(c, e) ==
    \E n \in Seq(Byte) : NumAt(NumReset, n, Len(c)) /\ e = Before(Star, n \o Parts(c))

InLine(c, e) ==
    \E d \in LineText, cs \in Seq(LineText), t \in {<<LF>>, CrLf} :
        c = Before(d, cs) /\ d[1] \in Alpha /\ e = d \o (Spaced(cs) \o t)

LEMMA EncodingsAre ==
    ASSUME NEW c \in TextCommand, NEW e \in Encodings(c)
    PROVE  InChunks(c, e) \/ InLine(c, e)
<1>1. c \in Seq(Text) /\ c # <<>>
    BY CommandsAreTexts
<1>2. CASE e = Chunks(c)
    <2> DEFINE n == Decimal[Len(c)] \o CrLf
    <2>1. e = Before(Star, n \o Parts(c)) /\ n \in Seq(Byte)
        BY <1>1, <1>2, ChunksAre DEF Before
    <2>2. NumAt(NumReset, n, Len(c))
        BY DEF NumAt
    <2> HIDE DEF n
    <2> QED BY <2>1, <2>2 DEF InChunks
<1>3. CASE e # Chunks(c)
    <2>1. PICK t \in {<<LF>>, CrLf} : e = Line(c) \o t
        BY <1>3 DEF Encodings, CrLf
    <2>2. /\ c[1][1] \in Alpha
          /\ \A i \in DOMAIN c : \A j \in DOMAIN c[i] : c[i][j] \in LineByte
        BY <1>3 DEF Encodings
    <2>3. PICK d \in LineText, cs \in Seq(LineText) :
              c = Before(d, cs) /\ c[1] = d /\ Line(c) = d \o Spaced(cs)
        BY <2>2, LinesAre
    <2>4. d \in Seq(Byte) /\ cs \in Seq(Text) /\ t \in Seq(Byte)
        BY LineBytes, SeqMonotonic, CrLfIs DEF Text
    <2>5. Spaced(cs) \in Seq(Byte)
        BY <2>4, SpacedAre
    <2> DEFINE P == Spaced(cs)
    <2>6. (d \o P) \o t = d \o (P \o t)
        <3> HIDE DEF P
        <3>1. Joined(Joined(d, P), t) = Joined(d, Joined(P, t))
            BY <2>4, <2>5, JoinedAssociate DEF P
        <3> QED BY <3>1 DEF Joined
    <2>7. e = d \o (Spaced(cs) \o t) /\ d[1] \in Alpha
        BY <2>1, <2>2, <2>3, <2>6
    <2> QED BY <2>3, <2>7 DEF InLine
<1> QED BY <1>2, <1>3

LEMMA TextsAreBytes ==
    ASSUME NEW c \in TextCommand, NEW e \in Encodings(c)
    PROVE  e \in Seq(Byte) /\ e # <<>>
<1>1. c \in Seq(Text) /\ c # <<>>
    BY CommandsAreTexts
<1>2. CASE InChunks(c, e)
    <2>1. PICK n \in Seq(Byte) : e = Before(Star, n \o Parts(c))
        BY <1>2 DEF InChunks
    <2> DEFINE q == n \o Parts(c)
    <2>2. q \in Seq(Byte)
        BY <1>1, PartsAre, BytesJoin
    <2>3. e = Before(Star, q) /\ Star \in Byte
        BY <2>1 DEF Star, Byte
    <2> HIDE DEF q
    <2> QED BY <2>2, <2>3, BytesBefore
<1>3. CASE InLine(c, e)
    <2>1. PICK d \in LineText, cs \in Seq(LineText), t \in {<<LF>>, CrLf} :
              e = d \o (Spaced(cs) \o t)
        BY <1>3 DEF InLine
    <2>2. d \in Seq(Byte) /\ d # <<>> /\ cs \in Seq(Text) /\ t \in Seq(Byte)
        BY LineBytes, SeqMonotonic, CrLfIs DEF Text
    <2> DEFINE q == Spaced(cs) \o t
    <2>3. q \in Seq(Byte)
        BY <2>2, SpacedAre, BytesJoin
    <2> HIDE DEF q
    <2>4. d \o q \in Seq(Byte)
        BY <2>2, <2>3, BytesJoin
    <2>5. d \o q = <<>> => d = <<>>
        BY <2>2, <2>3, ConcatEqualIffEmpty
    <2> QED BY <2>1, <2>2, <2>4, <2>5 DEF q
<1> QED BY <1>2, <1>3, EncodingsAre

\* The same of any command, words without a byte included.
LEMMA EncodingsAreBytes ==
    ASSUME NEW c \in Command, NEW e \in Encodings(c)
    PROVE  e \in Seq(Byte) /\ e # <<>>
<1>1. CASE NoEmptyWord(c)
    BY <1>1, TextsAreBytes DEF TextCommand
<1>2. CASE ~NoEmptyWord(c)
    <2> DEFINE B == Seq(Byte)
               n == Decimal[Len(c)]
               m == <<Star>> \o n
               q == m \o CrLf
               P == Parts(c)
    <2>1. c \in Seq(B) /\ Len(c) \in Nat
        BY CommandAssumption, LenProperties DEF Word, Byte
    <2>2. e = q \o P
        BY <1>2 DEF Encodings, Chunks, Counted, CrLf, Parts, Part
    <2>3. P \in B
        BY <2>1, PartsAreBytes
    <2>4. n \in B
        BY <2>1, DecimalIsText, DigitsAreBytes
    <2>5. Star \in Byte /\ CrLf \in B
        BY CrLfIs DEF Star, Byte
    <2> HIDE DEF n, P
    <2>6. m \in B /\ m # <<>>
        BY <2>4, <2>5, Cons
    <2> HIDE DEF m
    <2>7. q \in B /\ q # <<>>
        BY <2>5, <2>6, BytesJoin, ConcatEqualIffEmpty
    <2> HIDE DEF q
    <2> QED BY <2>2, <2>3, <2>7, BytesJoin, ConcatEqualIffEmpty
<1> QED BY <1>1, <1>2

LEMMA BeginStep ==
    ASSUME NEW c \in TextCommand, NEW x \in Byte, NEW s \in Seq(Byte),
           Before(x, s) \in Encodings(c),
           state = "start", word = <<>>, argv = <<>>, Consume(x)
    PROVE  Position(c, s)'
<1>1. c \in Seq(Text) /\ c # <<>>
    BY CommandsAreTexts
<1> DEFINE e == Before(x, s)
<1>2. CASE InChunks(c, e)
    <2>1. PICK n \in Seq(Byte) : NumAt(NumReset, n, Len(c)) /\ e = Before(Star, n \o Parts(c))
        BY <1>2 DEF InChunks
    <2> DEFINE q == n \o Parts(c)
    <2>2. q \in Seq(Byte) /\ Star \in Byte
        BY <1>1, PartsAre, BytesJoin DEF Star, Byte
    <2>3. Before(x, s) = Before(Star, q)
        BY <2>1
    <2> HIDE DEF q
    <2>4. x = Star /\ s = q
        BY <2>2, <2>3, Peel
    <2>5. Start(x)
        BY <2>4 DEF Consume, Letter, Argc, Chunk, ArgLen, Data, WordRead, Refuse, Accepts
    <2>6. state' = "star" /\ num' = NumReset /\ verdict' = "ok" /\ UNCHANGED <<argv, word>>
        BY <2>4, <2>5 DEF Start, Ok, Star, Alpha
    <2>7. NumAt(num', n, Len(c)) /\ s = n \o Parts(c)
        BY <2>1, <2>4, <2>6 DEF q
    <2>8. AtStar(c, s)'
        BY <2>6, <2>7 DEF AtStar
    <2> QED BY <2>8 DEF Position, Reading
<1>3. CASE InLine(c, e)
    <2>1. PICK d \in LineText, cs \in Seq(LineText), t \in {<<LF>>, CrLf} :
              c = Before(d, cs) /\ d[1] \in Alpha /\ e = d \o (Spaced(cs) \o t)
        BY <1>3 DEF InLine
    <2>2. d \in Seq(LineByte) /\ d # <<>> /\ cs \in Seq(Text) /\ t \in Seq(Byte)
        BY LineBytes, SeqMonotonic, CrLfIs DEF LineText
    <2> DEFINE q == Spaced(cs) \o t
               y == Head(d)
               v == Tail(d)
    <2>3. q \in Seq(Byte)
        BY <2>2, SpacedAre, BytesJoin
    <2>4. y \in LineByte /\ v \in Seq(LineByte) /\ d = Before(y, v)
        BY <2>2, HeadAndTail DEF Before
    <2>5. y \in Alpha
        BY <2>1, <2>2
    <2>6. y \in Byte /\ v \in Seq(Byte)
        BY <2>4, LineBytes, SeqMonotonic
    <2> HIDE DEF q, y, v
    <2>7. d \o q = Before(y, v \o q) /\ v \o q \in Seq(Byte)
        <3>1. Before(y, v) \o q = Before(y, v \o q)
            BY <2>3, <2>6, BeforeJoins
        <3>2. v \o q \in Seq(Byte)
            BY <2>3, <2>6, BytesJoin
        <3> QED BY <2>4, <3>1, <3>2
    <2>8. x = y /\ s = v \o q
        <3> DEFINE u == v \o q
        <3>1. Before(x, s) = Before(y, u) /\ u \in Seq(Byte)
            BY <2>1, <2>7 DEF q
        <3> HIDE DEF u
        <3>2. x = y /\ s = u
            BY <2>6, <3>1, Peel
        <3> QED BY <3>2 DEF u
    <2>9. Start(x)
        BY <2>5, <2>8 DEF Consume, Letter, Argc, Chunk, ArgLen, Data, WordRead, Refuse, Accepts
    <2>10. state' = "letter" /\ word' = Append(<<>>, x) /\ args' = <<>> /\ verdict' = "ok" /\ argv' = <<>>
        BY <2>5, <2>8, <2>9 DEF Start, Ok, Star, Alpha
    <2>11. word' = <<x>>
        BY <2>10
    <2>12. word' \o v = d /\ word' \in Seq(Byte)
        BY <2>4, <2>8, <2>11 DEF Before
    <2>13. args' \in Seq(Text) /\ c = args' \o Before(d, cs)
        <3>1. Before(d, cs) = c
            BY <2>1
        <3> QED BY <1>1, <2>10, <3>1, TextsJoin
    <2>14. AtLetter(c, s)'
        <3>1. s = v \o (Spaced(cs) \o t)
            BY <2>8 DEF q
        <3>2. word' \o v # <<>> /\ c = args' \o Before(word' \o v, cs)
            BY <2>2, <2>12, <2>13
        <3> QED BY <2>4, <2>10, <2>12, <2>13, <3>1, <3>2 DEF AtLetter
    <2> QED BY <2>14 DEF Position, Reading
<1> QED BY <1>2, <1>3, EncodingsAre

\* A byte between two commands is refused.
LEMMA NoiseStep ==
    ASSUME NEW x \in Noise, state = "start", Consume(x)
    PROVE  verdict' = "error" /\ UNCHANGED <<state, num, argv, curarg, word, args>>
<1>1. x \notin Alpha /\ x # Star
    BY NoiseAssumption
<1>2. Refuse(x)
    BY <1>1 DEF Consume, Start, Letter, Argc, Chunk, ArgLen, Data, WordRead
<1> QED BY <1>2 DEF Refuse

-----------------------------------------------------------------------------
(***************************************************************************)
(* A command ends with the last byte of its encoding, and not before.      *)
(***************************************************************************)
LEMMA JoinedNotEmpty ==
    ASSUME NEW s \in Seq(Byte), NEW t \in Seq(Byte), s # <<>> \/ t # <<>>
    PROVE  Joined(s, t) # <<>> /\ Joined(s, t) \in Seq(Byte)
<1>1. s \o t = <<>> => s = <<>> /\ t = <<>>
    BY ConcatEqualIffEmpty
<1> QED BY <1>1, BytesJoin DEF Joined

LEMMA ReadingLeft ==
    ASSUME NEW c \in Seq(Text), c # <<>>, NEW r, Reading(c, r)
    PROVE  r # <<>>
<1>1. CASE AtLetter(c, r)
    <2>1. PICK w \in Seq(LineByte), cs \in Seq(LineText), t \in {<<LF>>, CrLf} :
              r = w \o (Spaced(cs) \o t)
        BY <1>1 DEF AtLetter
    <2>2. w \in Seq(Byte) /\ cs \in Seq(Text) /\ t \in Seq(Byte) /\ t # <<>>
        <3>1. CrLf # <<>> /\ <<LF>> # <<>>
            BY DEF CrLf
        <3>2. t \in Seq(Byte) /\ t # <<>>
            BY <3>1, CrLfIs
        <3> QED BY <3>2, LineBytes, SeqMonotonic
    <2>3. Spaced(cs) \in Seq(Byte)
        BY <2>2, SpacedAre
    <2> DEFINE P == Spaced(cs)
               q == Joined(P, t)
    <2>4. q # <<>> /\ q \in Seq(Byte)
        <3> HIDE DEF P
        <3> QED BY <2>2, <2>3, JoinedNotEmpty DEF P
    <2>5. r = Joined(w, q)
        BY <2>1 DEF Joined
    <2> HIDE DEF q
    <2> QED BY <2>2, <2>4, <2>5, JoinedNotEmpty
<1>2. CASE AtStar(c, r)
    <2>1. PICK n \in Seq(Byte) : NumAt(num, n, Len(c)) /\ r = n \o Parts(c)
        BY <1>2 DEF AtStar
    <2>2. n # <<>> /\ Parts(c) \in Seq(Byte)
        BY <2>1, NumLeft, EmptySeq, PartsAre
    <2> DEFINE P == Parts(c)
    <2>3. r = Joined(n, P) /\ P \in Seq(Byte)
        BY <2>1, <2>2 DEF Joined
    <2> HIDE DEF P
    <2> QED BY <2>2, <2>3, JoinedNotEmpty
<1>3. CASE AtArgc(c, r)
    <2>1. PICK cs \in Seq(Text) : cs # <<>> /\ r = Parts(cs)
        BY <1>3 DEF AtArgc
    <2> DEFINE d == Head(cs)
               es == Tail(cs)
               q == (Decimal[Len(d)] \o CrLf) \o (d \o (CrLf \o Parts(es)))
    <2>2. d \in Text /\ es \in Seq(Text) /\ cs = Before(d, es)
        BY <2>1, TextsSplit
    <2> HIDE DEF d, es
    <2>3. Parts(cs) = Before(Dollar, q) /\ q \in Seq(Byte)
        BY <2>2, PartsBefore
    <2> HIDE DEF q
    <2>4. Dollar \in Byte
        BY DEF Dollar, Byte
    <2> QED BY <2>1, <2>3, <2>4, BytesBefore
<1>4. CASE AtDollar(c, r)
    <2>1. PICK d \in Text, cs \in Seq(Text), n \in Seq(Byte) :
              NumAt(num, n, Len(d)) /\ r = n \o (d \o (CrLf \o Parts(cs)))
        BY <1>4 DEF AtDollar
    <2> DEFINE q == d \o (CrLf \o Parts(cs))
    <2>2. q \in Seq(Byte)
        BY PartsBefore
    <2>3. n # <<>>
        <3>1. Len(d) \in Nat \ {0}
            BY EmptySeq DEF Text
        <3> QED BY <2>1, <3>1, NumLeft
    <2>4. r = Joined(n, q)
        BY <2>1 DEF Joined
    <2> HIDE DEF q
    <2> QED BY <2>2, <2>3, <2>4, JoinedNotEmpty
<1>5. CASE AtData(c, r)
    <2>1. PICK cs \in Seq(Text), w \in Seq(Byte) : r = w \o (CrLf \o Parts(cs))
        BY <1>5 DEF AtData
    <2> DEFINE P == Parts(cs)
               u == Before(LF, P)
               q == Before(CR, u)
    <2>2. P \in Seq(Byte) /\ CrLf \o P = q
        BY PartsAre, LineEnds
    <2>3. u \in Seq(Byte)
        <3> HIDE DEF P
        <3> QED BY <2>2, BytesBefore, CrLfIs
    <2>4. q \in Seq(Byte) /\ q # <<>>
        <3> HIDE DEF u
        <3> QED BY <2>3, BytesBefore, CrLfIs
    <2>5. r = Joined(w, q)
        BY <2>1, <2>2 DEF Joined
    <2> HIDE DEF q
    <2> QED BY <2>4, <2>5, JoinedNotEmpty
<1>6. CASE AtCr(c, r)
    <2>1. PICK cs \in Seq(Text) : r = Before(LF, Parts(cs))
        BY <1>6 DEF AtCr
    <2> DEFINE P == Parts(cs)
    <2>2. P \in Seq(Byte) /\ r = Before(LF, P)
        BY <2>1, PartsAre
    <2> HIDE DEF P
    <2> QED BY <2>2, BytesBefore, CrLfIs
<1> QED BY <1>1, <1>2, <1>3, <1>4, <1>5, <1>6 DEF Reading

\* What a read takes and what it leaves are the bytes that were there.
LEMMA CutInTwo ==
    ASSUME NEW s \in Seq(Byte), NEW n \in 1 .. Len(s)
    PROVE  /\ SubSeq(s, 1, n) \in Seq(Byte) /\ Len(SubSeq(s, 1, n)) = n
           /\ SubSeq(s, n + 1, Len(s)) \in Seq(Byte)
           /\ SubSeq(s, 1, n) \o SubSeq(s, n + 1, Len(s)) = s
<1> DEFINE L == Len(s)
           a == SubSeq(s, 1, n)
           b == SubSeq(s, n + 1, L)
<1>1. L \in Nat /\ \A i \in 1 .. L : s[i] \in Byte
    BY LenProperties, ElementOfSeq
<1>2. a \in Seq(Byte) /\ Len(a) = n /\ \A i \in 1 .. n : a[i] = s[i]
    <2>1. \A i \in 1 .. n : s[i] \in Byte
        BY <1>1
    <2>2. /\ a \in Seq(Byte) /\ Len(a) = IF 1 <= n THEN n - 1 + 1 ELSE 0
          /\ \A i \in 1 .. n - 1 + 1 : a[i] = s[1 + i - 1]
        BY <1>1, <2>1, SubSeqProperties
    <2> QED BY <1>1, <2>2
<1>3. b \in Seq(Byte) /\ Len(b) = L - n /\ \A i \in 1 .. L - n : b[i] = s[n + i]
    <2>1. \A i \in n + 1 .. L : s[i] \in Byte
        BY <1>1
    <2>2. /\ b \in Seq(Byte) /\ Len(b) = IF n + 1 <= L THEN L - (n + 1) + 1 ELSE 0
          /\ \A i \in 1 .. L - (n + 1) + 1 : b[i] = s[(n + 1) + i - 1]
        BY <1>1, <2>1, SubSeqProperties
    <2>3. Len(b) = L - n
        BY <1>1, <2>2
    <2>4. ASSUME NEW i \in 1 .. L - n PROVE b[i] = s[n + i]
        <3>1. i \in 1 .. L - (n + 1) + 1 /\ (n + 1) + i - 1 = n + i
            BY <1>1
        <3> QED BY <2>2, <3>1
    <2> QED BY <2>2, <2>3, <2>4
<1> HIDE DEF a, b
<1>4. /\ a \o b \in Seq(Byte) /\ Len(a \o b) = L
      /\ \A i \in 1 .. L : (a \o b)[i] = s[i]
    <2>1. /\ a \o b \in Seq(Byte) /\ Len(a \o b) = Len(a) + Len(b)
          /\ \A i \in 1 .. Len(a) + Len(b) :
                 (a \o b)[i] = IF i <= Len(a) THEN a[i] ELSE b[i - Len(a)]
        BY <1>2, <1>3, ConcatProperties
    <2>2. Len(a) + Len(b) = L
        BY <1>1, <1>2, <1>3
    <2>3. ASSUME NEW i \in 1 .. L PROVE (a \o b)[i] = s[i]
        <3>1. CASE i <= n
            <4>1. (a \o b)[i] = a[i]
                BY <1>2, <2>1, <2>2, <3>1
            <4>2. i \in 1 .. n
                BY <1>1, <3>1
            <4> QED BY <1>2, <4>1, <4>2
        <3>2. CASE ~(i <= n)
            <4>1. (a \o b)[i] = b[i - n]
                BY <1>2, <2>1, <2>2, <3>2
            <4>2. i - n \in 1 .. L - n /\ n + (i - n) = i
                BY <1>1, <3>2
            <4> QED BY <1>3, <4>1, <4>2
        <3> QED BY <3>1, <3>2
    <2> QED BY <2>1, <2>2, <2>3
<1>5. a \o b = s
    <2> DEFINE u == a \o b
    <2>1. u \in Seq(Byte) /\ Len(u) = Len(s) /\ \A i \in 1 .. Len(u) : u[i] = s[i]
        BY <1>4
    <2> HIDE DEF u
    <2> QED BY <2>1, SeqEqual DEF u
<1> QED BY <1>2, <1>3, <1>5 DEF a, b

\* More bytes behind the last of several sequences.
LEMMA LastGrows ==
    ASSUME NEW f \in Seq(Seq(Byte)), f # <<>>, NEW a \in Seq(Byte)
    PROVE  \E g \in Seq(Seq(Byte)) :
               /\ Len(g) = Len(f) /\ Concat(g) = Concat(f) \o a
               /\ \A i \in 1 .. Len(f) : g[i] = IF i = Len(f) THEN f[i] \o a ELSE f[i]
<1> DEFINE B == Seq(Byte)
           L == Len(f)
           h == SubSeq(f, 1, L - 1)
           l == f[L]
<1>1. L \in Nat \ {0} /\ \A i \in 1 .. L : f[i] \in B
    BY LenProperties, ElementOfSeq, EmptySeq
<1>2. h \in Seq(B) /\ Len(h) = L - 1 /\ \A i \in 1 .. L - 1 : h[i] = f[i]
    <2>1. \A i \in 1 .. L - 1 : f[i] \in B
        BY <1>1
    <2>2. L - 1 \in Int /\ (L - 1) - 1 + 1 = L - 1
        BY <1>1
    <2> HIDE DEF B
    <2>3. /\ h \in Seq(B) /\ Len(h) = IF 1 <= L - 1 THEN (L - 1) - 1 + 1 ELSE 0
          /\ \A i \in 1 .. (L - 1) - 1 + 1 : h[i] = f[1 + i - 1]
        BY <2>1, <2>2, SubSeqProperties
    <2> QED BY <1>1, <2>2, <2>3
<1>3. l \in B
    BY <1>1
<1> HIDE DEF h, l, B
<1>4. Append(h, l) = f
    <2>1. /\ Append(h, l) \in Seq(B) /\ Len(Append(h, l)) = (L - 1) + 1
          /\ \A i \in 1 .. L - 1 : Append(h, l)[i] = h[i]
          /\ Append(h, l)[(L - 1) + 1] = l
        BY <1>2, <1>3, AppendProperties
    <2> DEFINE u == Append(h, l)
    <2>2. ASSUME NEW i \in 1 .. L PROVE u[i] = f[i]
        <3>1. CASE i = L
            BY <1>1, <2>1, <3>1 DEF l
        <3>2. CASE i # L
            <4>1. i \in 1 .. L - 1
                BY <1>1, <3>2
            <4> QED BY <1>2, <2>1, <4>1
        <3> QED BY <3>1, <3>2
    <2>3. u \in Seq(B) /\ Len(u) = L /\ f \in Seq(B)
        BY <1>1, <2>1 DEF B
    <2> HIDE DEF u
    <2>4. u = f
        BY <2>2, <2>3, SeqEqual
    <2> QED BY <2>4 DEF u
<1> DEFINE m == l \o a
           g == Append(h, m)
<1>5. m \in B
    BY <1>3, BytesJoin DEF B
<1> HIDE DEF m
<1>6. /\ g \in Seq(B) /\ Len(g) = (L - 1) + 1
      /\ \A i \in 1 .. L - 1 : g[i] = h[i]
      /\ g[(L - 1) + 1] = m
    BY <1>2, <1>5, AppendProperties
<1>7. Concat(g) = Concat(f) \o a
    <2>1. Concat(g) = Concat(h) \o m /\ Concat(f) = Concat(h) \o l /\ Concat(h) \in B
        BY <1>2, <1>3, <1>4, <1>5, ConcatOfAppend, ConcatIsSeq DEF B
    <2> DEFINE H == Concat(h)
    <2>2. H \in B
        BY <2>1
    <2> HIDE DEF H
    <2>3. (H \o l) \o a = H \o (l \o a)
        <3>1. Joined(Joined(H, l), a) = Joined(H, Joined(l, a))
            BY <1>3, <2>2, JoinedAssociate DEF B
        <3> QED BY <3>1 DEF Joined
    <2> QED BY <2>1, <2>3 DEF H, m
<1> HIDE DEF g
<1>8. ASSUME NEW i \in 1 .. L PROVE g[i] = IF i = L THEN f[i] \o a ELSE f[i]
    <2>1. CASE i = L
        BY <1>1, <1>6, <2>1 DEF m, l
    <2>2. CASE i # L
        <3>1. i \in 1 .. L - 1
            BY <1>1, <2>2
        <3> QED BY <1>2, <1>6, <2>2, <3>1
    <2> QED BY <2>1, <2>2
<1>9. Len(g) = L
    BY <1>1, <1>6
<1> QED BY <1>6, <1>7, <1>8, <1>9 DEF B

LEMMA NoiseBytes == Noise \subseteq Byte /\ \A n \in Seq(Noise) : n \in Seq(Byte)
<1>1. Noise \subseteq Byte
    BY NoiseAssumption DEF Byte
<1> QED BY <1>1, SeqMonotonic

-----------------------------------------------------------------------------
(***************************************************************************)
(* The bytes of the connection: what is left of the command being read, if *)
(* there is one, and the commands ahead of it, each with the noise behind. *)
(***************************************************************************)
\* The bytes b are those of the command c, and noise.
Sent(c, b) == \E e \in Encodings(c), n \in Seq(Noise) : b = e \o n

Busy == IF state = "start" THEN 0 ELSE 1

\* now is what is left of the command being read, or else noise.
Here(now) ==
    \/ /\ state = "start" /\ verdict \in {"ok", "error"} /\ word = <<>> /\ argv = <<>>
       /\ now \in Seq(Noise)
    \/ \E c \in TextCommand, r \in Seq(Byte), n \in Seq(Noise) :
           /\ Len(outcomes) + 1 \in 1 .. Len(asked) /\ c = asked[Len(outcomes) + 1]
           /\ now = r \o n /\ Position(c, r)

\* The commands after the first k are still to be read: ps are their bytes.
Ahead(ps, k) ==
    Len(asked) = k + Len(ps) /\ \A i \in 1 .. Len(ps) : Sent(asked[k + i], ps[i])

Pending ==
    \E now \in Seq(Byte), ps \in Seq(Seq(Byte)) :
        /\ buffer \o inbox = now \o Concat(ps)
        /\ Here(now) /\ Ahead(ps, Len(outcomes) + Busy)

Ran == [verb : Word, what : {"unknown", "arity", "stray", "called"}, args : Seq(Text)]

StreamType ==
    /\ num \in NumType /\ asked \in Seq(Command) /\ outcomes \in Seq(Ran)
    /\ buffer \in Seq(Byte) /\ inbox \in Seq(Byte) /\ Len(buffer) <= BufSize

LEMMA Counts ==
    ASSUME StreamType
    PROVE  Len(outcomes) \in Nat /\ Len(asked) \in Nat /\ Busy \in {0, 1}
BY LenProperties DEF StreamType, Busy

LEMMA PositionIsBusy ==
    ASSUME NEW c, NEW r, Position(c, r)
    PROVE  state # "start" /\ verdict \in {"ok", "end"} /\ Busy = 1
BY DEF Position, Reading, AtLetter, AtStar, AtArgc, AtDollar, AtData, AtCr, AtEnd, Buffers, Busy

LEMMA HereIsBytes ==
    ASSUME NEW now, Here(now)
    PROVE  now \in Seq(Byte)
BY NoiseBytes, BytesJoin DEF Here

LEMMA SentIsBytes ==
    ASSUME NEW c \in Command, NEW b, Sent(c, b)
    PROVE  b \in Seq(Byte)
BY NoiseBytes, BytesJoin, EncodingsAreBytes DEF Sent

LEMMA PositionStays ==
    ASSUME NEW c, NEW r, Position(c, r), UNCHANGED parser
    PROVE  Position(c, r)'
<1>1. UNCHANGED <<state, num, argv, curarg, word, args, verdict>>
    BY DEF parser
<1>2. Buffers(c) => Buffers(c)'
    BY <1>1 DEF Buffers
<1>3. AtLetter(c, r) => AtLetter(c, r)'
    BY <1>1 DEF AtLetter
<1>4. AtStar(c, r) => AtStar(c, r)'
    BY <1>1 DEF AtStar
<1>5. AtArgc(c, r) => AtArgc(c, r)'
    BY <1>1, <1>2 DEF AtArgc
<1>6. AtDollar(c, r) => AtDollar(c, r)'
    BY <1>1, <1>2 DEF AtDollar
<1>7. AtData(c, r) => AtData(c, r)'
    BY <1>1, <1>2 DEF AtData
<1>8. AtCr(c, r) => AtCr(c, r)'
    BY <1>1, <1>2 DEF AtCr
<1>9. AtEnd(c, r) => AtEnd(c, r)'
    BY <1>1 DEF AtEnd
<1> QED BY <1>3, <1>4, <1>5, <1>6, <1>7, <1>8, <1>9 DEF Position, Reading

\* While the parser and the commands stay, so does the place in the stream.
LEMMA HereStays ==
    ASSUME NEW now, Here(now), UNCHANGED <<parser, asked, outcomes>>
    PROVE  Here(now)'
<1>1. CASE /\ state = "start" /\ verdict \in {"ok", "error"} /\ word = <<>> /\ argv = <<>>
           /\ now \in Seq(Noise)
    BY <1>1 DEF Here, parser
<1>2. CASE \E d \in TextCommand, r \in Seq(Byte), n \in Seq(Noise) :
               /\ Len(outcomes) + 1 \in 1 .. Len(asked) /\ d = asked[Len(outcomes) + 1]
               /\ now = r \o n /\ Position(d, r)
    <2>1. PICK d \in TextCommand, r \in Seq(Byte), n \in Seq(Noise) :
               /\ Len(outcomes) + 1 \in 1 .. Len(asked) /\ d = asked[Len(outcomes) + 1]
               /\ now = r \o n /\ Position(d, r)
        BY <1>2
    <2>2. Position(d, r)'
        BY <2>1, PositionStays
    <2>3. Len(outcomes') + 1 \in 1 .. Len(asked') /\ d = asked'[Len(outcomes') + 1]
        BY <2>1
    <2> QED BY <2>1, <2>2, <2>3 DEF Here
<1> QED BY <1>1, <1>2 DEF Here

LEMMA PendingStays ==
    ASSUME Pending, UNCHANGED <<parser, asked, outcomes, buffer, inbox>>
    PROVE  Pending'
<1>1. PICK now \in Seq(Byte), ps \in Seq(Seq(Byte)) :
           /\ buffer \o inbox = now \o Concat(ps)
           /\ Here(now) /\ Ahead(ps, Len(outcomes) + Busy)
    BY DEF Pending
<1>2. Here(now)'
    BY <1>1, HereStays
<1>3. Ahead(ps, Len(outcomes) + Busy)'
    BY <1>1 DEF Ahead, Busy, parser
<1> QED BY <1>1, <1>2, <1>3 DEF Pending

LEMMA InitPending == Init => Pending /\ StreamType
<1> SUFFICES ASSUME Init PROVE Pending /\ StreamType
    OBVIOUS
<1>1. /\ asked = <<>> /\ outcomes = <<>> /\ buffer = <<>> /\ inbox = <<>>
      /\ state = "start" /\ verdict = "ok" /\ word = <<>> /\ argv = <<>> /\ num = NumReset
    BY DEF Init, ParserInit
<1>2. StreamType
    <2>1. asked \in Seq(Command) /\ outcomes \in Seq(Ran) /\ buffer \in Seq(Byte)
          /\ inbox \in Seq(Byte) /\ Len(buffer) = 0
        BY <1>1, EmptySeq
    <2>2. num \in NumType
        BY <1>1 DEF NumReset, NumType
    <2>3. 0 <= BufSize
        BY BoundAssumption
    <2> QED BY <2>1, <2>2, <2>3 DEF StreamType
<1>3. <<>> \in Seq(Noise) /\ <<>> \in Seq(Byte) /\ <<>> \in Seq(Seq(Byte)) /\ Len(<<>>) = 0
    BY EmptySeq
<1>4. Here(<<>>)
    BY <1>1, <1>3 DEF Here
<1>5. Len(outcomes) + Busy = 0
    BY <1>1, <1>3 DEF Busy
<1>6. Ahead(<<>>, 0)
    BY <1>1, <1>3 DEF Ahead
<1>7. buffer \o inbox = <<>> \o Concat(<<>>)
    BY <1>1, ConcatOfNone
<1> QED BY <1>2, <1>3, <1>4, <1>5, <1>6, <1>7 DEF Pending

-----------------------------------------------------------------------------
(***************************************************************************)
(* The actions, one by one.                                                *)
(***************************************************************************)
LEMMA SendKeeps ==
    ASSUME StreamType, Pending, Send
    PROVE  StreamType' /\ Pending'
<1>1. PICK c \in Command : \E bytes \in Encodings(c) :
           asked' = Append(asked, c) /\ inbox' = inbox \o bytes
    BY DEF Send
<1>2. PICK e \in Encodings(c) : asked' = Append(asked, c) /\ inbox' = inbox \o e
    BY <1>1
<1>3. UNCHANGED <<parser, buffer, outcomes>>
    BY DEF Send
<1>4. PICK now \in Seq(Byte), ps \in Seq(Seq(Byte)) :
           /\ buffer \o inbox = now \o Concat(ps)
           /\ Here(now) /\ Ahead(ps, Len(outcomes) + Busy)
    BY DEF Pending
<1>5. e \in Seq(Byte)
    BY EncodingsAreBytes
<1> DEFINE k == Len(outcomes) + Busy
           L == Len(ps)
           qs == Append(ps, e)
<1>6. /\ Len(outcomes) \in Nat /\ Len(asked) \in Nat /\ Busy \in {0, 1} /\ L \in Nat
      /\ k \in Nat /\ Len(asked) = k + L
    BY <1>4, Counts, LenProperties DEF Ahead
<1>7. /\ asked' \in Seq(Command) /\ Len(asked') = Len(asked) + 1
      /\ (\A i \in 1 .. Len(asked) : asked'[i] = asked[i]) /\ asked'[Len(asked) + 1] = c
    BY <1>2, AppendProperties DEF StreamType
<1>8. /\ qs \in Seq(Seq(Byte)) /\ Len(qs) = L + 1
      /\ (\A i \in 1 .. L : qs[i] = ps[i]) /\ qs[L + 1] = e
    BY <1>5, AppendProperties
<1>9. StreamType'
    BY <1>2, <1>3, <1>5, <1>7, BytesJoin DEF StreamType, parser
<1>10. buffer' \o inbox' = now \o Concat(qs)
    <2>1. Concat(qs) = Concat(ps) \o e /\ Concat(ps) \in Seq(Byte)
        BY <1>5, ConcatOfAppend, ConcatIsSeq
    <2> DEFINE C == Concat(ps)
    <2>2. C \in Seq(Byte) /\ Concat(qs) = C \o e /\ buffer \o inbox = now \o C
        BY <1>4, <2>1
    <2> HIDE DEF C, qs
    <2>3. (buffer \o inbox) \o e = buffer \o (inbox \o e)
        <3>1. Joined(Joined(buffer, inbox), e) = Joined(buffer, Joined(inbox, e))
            BY <1>5, JoinedAssociate DEF StreamType
        <3> QED BY <3>1 DEF Joined
    <2>4. (now \o C) \o e = now \o (C \o e)
        <3>1. Joined(Joined(now, C), e) = Joined(now, Joined(C, e))
            BY <1>5, <2>2, JoinedAssociate
        <3> QED BY <3>1 DEF Joined
    <2> QED BY <1>2, <1>3, <2>2, <2>3, <2>4
<1> HIDE DEF qs
<1>11. Here(now)'
    <2>1. CASE /\ state = "start" /\ verdict \in {"ok", "error"} /\ word = <<>> /\ argv = <<>>
               /\ now \in Seq(Noise)
        BY <1>3, <2>1 DEF Here, parser
    <2>2. CASE \E d \in TextCommand, r \in Seq(Byte), n \in Seq(Noise) :
                   /\ Len(outcomes) + 1 \in 1 .. Len(asked) /\ d = asked[Len(outcomes) + 1]
                   /\ now = r \o n /\ Position(d, r)
        <3>1. PICK d \in TextCommand, r \in Seq(Byte), n \in Seq(Noise) :
                   /\ Len(outcomes) + 1 \in 1 .. Len(asked) /\ d = asked[Len(outcomes) + 1]
                   /\ now = r \o n /\ Position(d, r)
            BY <2>2
        <3>2. Position(d, r)'
            BY <1>3, <3>1, PositionStays
        <3>3. Len(outcomes') + 1 \in 1 .. Len(asked') /\ d = asked'[Len(outcomes') + 1]
            <4> DEFINE j == Len(outcomes) + 1
            <4>1. j \in 1 .. Len(asked) /\ d = asked[j]
                BY <3>1
            <4>2. j \in 1 .. Len(asked')
                BY <1>6, <1>7, <4>1
            <4>3. outcomes' = outcomes
                BY <1>3
            <4>4. asked'[j] = asked[j]
                <5> HIDE DEF j
                <5> QED BY <1>7, <4>1
            <4> QED BY <4>1, <4>2, <4>3, <4>4
        <3> QED BY <3>1, <3>2, <3>3 DEF Here
    <2> QED BY <1>4, <2>1, <2>2 DEF Here
<1>12. Ahead(qs, k)'
    <2>1. k' = k
        BY <1>3 DEF Busy, parser
    <2>2. Len(asked') = k + Len(qs)
        BY <1>6, <1>7, <1>8
    <2>3. ASSUME NEW i \in 1 .. Len(qs) PROVE Sent(asked'[k + i], qs[i])
        <3>1. CASE i = L + 1
            <4>1. qs[i] = e /\ asked'[k + i] = c
                BY <1>6, <1>7, <1>8, <3>1
            <4>2. Sent(c, e)
                <5>1. e = e \o <<>> /\ <<>> \in Seq(Noise)
                    BY <1>5, BytesJoin, EmptySeq
                <5> QED BY <5>1 DEF Sent
            <4> QED BY <4>1, <4>2
        <3>2. CASE i # L + 1
            <4>1. i \in 1 .. L /\ k + i \in 1 .. Len(asked)
                BY <1>6, <1>8, <3>2
            <4>2. Sent(asked[k + i], ps[i])
                BY <1>4, <4>1 DEF Ahead
            <4> QED BY <1>7, <1>8, <4>1, <4>2
        <3> QED BY <3>1, <3>2
    <2> HIDE DEF k
    <2> QED BY <2>1, <2>2, <2>3 DEF Ahead
<1> QED BY <1>8, <1>9, <1>10, <1>11, <1>12 DEF Pending

-----------------------------------------------------------------------------
(***************************************************************************)
(* The steps of the peer, the reads, the noise and the end of a command.   *)
(***************************************************************************)
LEMMA NoiseJoins ==
    ASSUME NEW e \in Seq(Byte), NEW n \in Seq(Noise), NEW a \in Seq(Noise)
    PROVE  n \o a \in Seq(Noise) /\ (e \o n) \o a = e \o (n \o a)
<1>1. n \o a \in Seq(Noise)
    BY ConcatProperties
<1>2. n \in Seq(Byte) /\ a \in Seq(Byte)
    BY NoiseBytes
<1> HIDE DEF Byte
<1>3. (e \o n) \o a = e \o (n \o a)
    <2>1. Joined(Joined(e, n), a) = Joined(e, Joined(n, a))
        BY <1>2, JoinedAssociate
    <2> QED BY <2>1 DEF Joined
<1> QED BY <1>1, <1>3

LEMMA SentGrows ==
    ASSUME NEW c \in Command, NEW b, Sent(c, b), NEW a \in Seq(Noise)
    PROVE  Sent(c, Joined(b, a))
<1>1. PICK e \in Encodings(c), n \in Seq(Noise) : b = e \o n
    BY DEF Sent
<1>2. e \in Seq(Byte)
    BY EncodingsAreBytes
<1> DEFINE m == n \o a
<1>3. m \in Seq(Noise) /\ (e \o n) \o a = e \o m
    BY <1>2, NoiseJoins
<1> HIDE DEF m
<1>4. Joined(b, a) = e \o m
    BY <1>1, <1>3 DEF Joined
<1> QED BY <1>3, <1>4 DEF Sent

LEMMA NoiseKeeps ==
    ASSUME StreamType, Pending, SendNoise
    PROVE  StreamType' /\ Pending'
<1>1. PICK a \in Seq(Noise) : inbox' = a
    <2>1. PICK b \in Noise : inbox' = <<b>>
        BY DEF SendNoise
    <2>2. <<b>> \in Seq(Noise)
        OBVIOUS
    <2> QED BY <2>1, <2>2
<1>2. UNCHANGED <<parser, asked, buffer, outcomes>> /\ inbox = <<>>
    BY DEF SendNoise
<1>3. PICK now \in Seq(Byte), ps \in Seq(Seq(Byte)) :
           /\ buffer \o inbox = now \o Concat(ps)
           /\ Here(now) /\ Ahead(ps, Len(outcomes) + Busy)
    BY DEF Pending
<1> DEFINE k == Len(outcomes) + Busy
           L == Len(ps)
<1>4. a \in Seq(Noise) /\ a \in Seq(Byte) /\ inbox' = a
    BY <1>1, NoiseBytes
<1>5. StreamType'
    BY <1>2, <1>4 DEF StreamType, parser
<1>6. k' = k /\ L \in Nat /\ k \in Nat /\ Len(asked) = k + L
    BY <1>2, <1>3, Counts, LenProperties DEF Busy, parser, Ahead
<1>7. buffer' \o inbox' = (buffer \o inbox) \o a
    <2>1. buffer \o inbox = buffer
        BY <1>2, BytesJoin DEF StreamType
    <2> QED BY <1>2, <1>4, <2>1
<1>8. CASE ps = <<>>
    <2>1. Concat(ps) = <<>>
        BY <1>8, ConcatOfNone
    <2>2. buffer \o inbox = now
        BY <1>3, <2>1, BytesJoin
    <2> DEFINE m == now \o a
    <2>3. m \in Seq(Byte)
        BY <1>4, BytesJoin
    <2>4. buffer' \o inbox' = m \o Concat(ps)
        <3>1. buffer' \o inbox' = m
            BY <1>7, <2>2
        <3> HIDE DEF m
        <3> QED BY <2>1, <2>3, <3>1, BytesJoin
    <2>5. Here(m)'
        <3>1. CASE /\ state = "start" /\ verdict \in {"ok", "error"} /\ word = <<>> /\ argv = <<>>
                   /\ now \in Seq(Noise)
            <4>1. m \in Seq(Noise)
                BY <1>4, <3>1, ConcatProperties
            <4> HIDE DEF m
            <4> QED BY <1>2, <3>1, <4>1 DEF Here, parser
        <3>2. CASE \E c \in TextCommand, r \in Seq(Byte), n \in Seq(Noise) :
                       /\ Len(outcomes) + 1 \in 1 .. Len(asked) /\ c = asked[Len(outcomes) + 1]
                       /\ now = r \o n /\ Position(c, r)
            <4>1. PICK c \in TextCommand, r \in Seq(Byte), n \in Seq(Noise) :
                       /\ Len(outcomes) + 1 \in 1 .. Len(asked) /\ c = asked[Len(outcomes) + 1]
                       /\ now = r \o n /\ Position(c, r)
                BY <3>2
            <4>2. Position(c, r)'
                BY <1>2, <4>1, PositionStays
            <4>3. n \o a \in Seq(Noise) /\ m = r \o (n \o a)
                <5>1. now \o a = r \o (n \o a) /\ n \o a \in Seq(Noise)
                    BY <4>1, NoiseJoins
                <5> QED BY <5>1
            <4>4. Len(outcomes') + 1 \in 1 .. Len(asked') /\ c = asked'[Len(outcomes') + 1]
                BY <1>2, <4>1
            <4> HIDE DEF m
            <4> QED BY <4>2, <4>3, <4>4 DEF Here
        <3> QED BY <1>3, <3>1, <3>2 DEF Here
    <2>6. Ahead(ps, k)'
        BY <1>2, <1>3, <1>6 DEF Ahead
    <2> HIDE DEF m
    <2> QED BY <1>5, <2>3, <2>4, <2>5, <2>6 DEF Pending
<1>9. CASE ps # <<>>
    <2>1. PICK qs \in Seq(Seq(Byte)) :
              /\ Len(qs) = L /\ Concat(qs) = Concat(ps) \o a
              /\ \A i \in 1 .. L : qs[i] = IF i = L THEN ps[i] \o a ELSE ps[i]
        BY <1>4, <1>9, LastGrows
    <2>2. buffer' \o inbox' = now \o Concat(qs)
        <3> DEFINE C == Concat(ps)
        <3>1. C \in Seq(Byte)
            BY ConcatIsSeq
        <3>2. buffer \o inbox = now \o C /\ Concat(qs) = C \o a
            BY <1>3, <2>1
        <3> HIDE DEF C
        <3>3. (now \o C) \o a = now \o (C \o a)
            <4>1. Joined(Joined(now, C), a) = Joined(now, Joined(C, a))
                BY <1>4, <3>1, JoinedAssociate
            <4> QED BY <4>1 DEF Joined
        <3> QED BY <1>7, <3>2, <3>3
    <2>3. Here(now)'
        BY <1>2, <1>3, HereStays
    <2>4. ASSUME NEW i \in 1 .. L PROVE Sent(asked[k + i], qs[i])
        <3>1. Sent(asked[k + i], ps[i])
            BY <1>3 DEF Ahead
        <3>2. CASE i # L
            BY <2>1, <3>1, <3>2
        <3>3. CASE i = L
            <4>0. k + i \in 1 .. Len(asked) /\ asked \in Seq(Command)
                <5>1. k + i \in 1 .. Len(asked)
                    BY <1>6
                <5> QED BY <5>1 DEF StreamType
            <4>1. PICK c \in Command : c = asked[k + i]
                <5>1. asked[k + i] \in Command
                    BY <4>0, ElementOfSeq
                <5> QED BY <5>1
            <4>2. Sent(c, Joined(ps[i], a))
                BY <3>1, <4>1, SentGrows
            <4> QED BY <2>1, <3>3, <4>1, <4>2 DEF Joined
        <3> QED BY <3>2, <3>3
    <2>5. Ahead(qs, k)'
        <3> HIDE DEF k
        <3> QED BY <1>2, <1>6, <2>1, <2>4 DEF Ahead
    <2> QED BY <1>5, <2>2, <2>3, <2>5 DEF Pending
<1> QED BY <1>8, <1>9

LEMMA ReadKeeps ==
    ASSUME StreamType, Pending, Read
    PROVE  StreamType' /\ Pending'
<1>1. PICK n \in 1 .. BufSize : /\ n <= Len(inbox)
                                /\ buffer' = SubSeq(inbox, 1, n)
                                /\ inbox' = SubSeq(inbox, n + 1, Len(inbox))
    BY DEF Read
<1>2. UNCHANGED <<parser, asked, outcomes>> /\ buffer = <<>>
    BY DEF Read
<1>3. inbox \in Seq(Byte) /\ Len(inbox) \in Nat /\ n \in 1 .. Len(inbox)
    BY <1>1, LenProperties, BoundAssumption DEF StreamType
<1>4. /\ buffer' \in Seq(Byte) /\ Len(buffer') = n /\ inbox' \in Seq(Byte)
      /\ buffer' \o inbox' = inbox
    BY <1>1, <1>3, CutInTwo
<1>5. Len(buffer') <= BufSize
    BY <1>1, <1>4, BoundAssumption
<1>6. StreamType'
    BY <1>2, <1>4, <1>5 DEF StreamType, parser
<1>7. buffer' \o inbox' = buffer \o inbox
    BY <1>2, <1>3, <1>4, BytesJoin
<1>8. PICK now \in Seq(Byte), ps \in Seq(Seq(Byte)) :
           /\ buffer \o inbox = now \o Concat(ps)
           /\ Here(now) /\ Ahead(ps, Len(outcomes) + Busy)
    BY DEF Pending
<1>9. Here(now)'
    BY <1>2, <1>8, HereStays
<1>10. Ahead(ps, Len(outcomes) + Busy)'
    BY <1>2, <1>8 DEF Ahead, Busy, parser
<1> QED BY <1>6, <1>7, <1>8, <1>9, <1>10 DEF Pending

LEMMA DropKeeps ==
    ASSUME StreamType, Pending, DropByte
    PROVE  StreamType' /\ Pending'
<1>1. /\ verdict = "error" /\ state' = "start" /\ argv' = <<>> /\ verdict' = "ok"
      /\ UNCHANGED <<num, word, asked, inbox, buffer, outcomes>>
    BY DEF DropByte, Reset
<1>2. PICK now \in Seq(Byte), ps \in Seq(Seq(Byte)) :
           /\ buffer \o inbox = now \o Concat(ps)
           /\ Here(now) /\ Ahead(ps, Len(outcomes) + Busy)
    BY DEF Pending
<1>3. /\ state = "start" /\ word = <<>> /\ now \in Seq(Noise)
    BY <1>1, <1>2, PositionIsBusy DEF Here
<1>4. Here(now)'
    BY <1>1, <1>3 DEF Here
<1>5. Ahead(ps, Len(outcomes) + Busy)'
    BY <1>1, <1>2, <1>3 DEF Ahead, Busy
<1>6. StreamType'
    BY <1>1 DEF StreamType
<1> QED BY <1>1, <1>2, <1>4, <1>5, <1>6 DEF Pending

\* When a command has ended, it is the next one to be answered.
LEMMA EndOfCommand ==
    ASSUME StreamType, Pending, verdict = "end"
    PROVE  /\ state # "start" /\ Len(outcomes) + 1 \in 1 .. Len(asked)
           /\ args = asked[Len(outcomes) + 1] /\ args \in TextCommand
           /\ word = <<>> /\ Busy = 1
           /\ \A i \in DOMAIN argv : argv[i] # Raw /\ Len(argv[i].data) <= argv[i].len
           /\ \E now \in Seq(Noise), ps \in Seq(Seq(Byte)) :
                  buffer \o inbox = now \o Concat(ps) /\ Ahead(ps, Len(outcomes) + 1)
<1>1. PICK now \in Seq(Byte), ps \in Seq(Seq(Byte)) :
           /\ buffer \o inbox = now \o Concat(ps)
           /\ Here(now) /\ Ahead(ps, Len(outcomes) + Busy)
    BY DEF Pending
<1>2. PICK c \in TextCommand, r \in Seq(Byte), n \in Seq(Noise) :
           /\ Len(outcomes) + 1 \in 1 .. Len(asked) /\ c = asked[Len(outcomes) + 1]
           /\ now = r \o n /\ Position(c, r)
    BY <1>1 DEF Here
<1>3. AtEnd(c, r)
    BY <1>2 DEF Position, Reading, AtLetter, AtStar, AtArgc, AtDollar, AtData, AtCr, Buffers
<1>4. now = n
    <2>1. r = <<>> /\ n \in Seq(Byte)
        BY <1>3, NoiseBytes DEF AtEnd
    <2> QED BY <1>2, <2>1, BytesJoin
<1>5. Busy = 1
    BY <1>3 DEF AtEnd, Busy
<1> QED BY <1>1, <1>2, <1>3, <1>4, <1>5 DEF AtEnd

LEMMA RunKeepsPending ==
    ASSUME StreamType, Pending, RunCommand, verdict = "end", outcomes' \in Seq(Ran)
    PROVE  StreamType' /\ Pending'
<1>1. /\ state' = "start" /\ argv' = <<>> /\ verdict' = "ok"
      /\ UNCHANGED <<num, word, asked, inbox, buffer>>
    BY DEF RunCommand, Reset
<1>2. /\ word = <<>>
      /\ \E now \in Seq(Noise), ps \in Seq(Seq(Byte)) :
             buffer \o inbox = now \o Concat(ps) /\ Ahead(ps, Len(outcomes) + 1)
    BY EndOfCommand
<1>3. PICK now \in Seq(Noise), ps \in Seq(Seq(Byte)) :
           buffer \o inbox = now \o Concat(ps) /\ Ahead(ps, Len(outcomes) + 1)
    BY <1>2
<1>4. Len(outcomes') = Len(outcomes) + 1 /\ Len(outcomes) \in Nat
    <2> DEFINE o == [verb |-> Verdict(Len(args)).verb, what |-> Verdict(Len(args)).what,
                     args |-> Tail(args)]
    <2>1. outcomes' = Append(outcomes, o)
        BY DEF RunCommand
    <2> HIDE DEF o
    <2> QED BY <2>1, LenProperties, AppendProperties DEF StreamType
<1>5. Here(now)'
    BY <1>1, <1>2 DEF Here
<1>6. Ahead(ps, Len(outcomes) + Busy)'
    <2>1. (Len(outcomes) + Busy)' = Len(outcomes) + 1
        BY <1>1, <1>4 DEF Busy
    <2> DEFINE k == Len(outcomes) + Busy
               j == Len(outcomes) + 1
    <2>2. Ahead(ps, j) /\ k' = j
        BY <1>3, <2>1
    <2>3. Ahead(ps, k)'
        <3> HIDE DEF k, j
        <3> QED BY <1>1, <2>2 DEF Ahead
    <2> QED BY <2>3
<1>7. StreamType'
    BY <1>1 DEF StreamType
<1>8. now \in Seq(Byte)
    BY NoiseBytes
<1> QED BY <1>1, <1>3, <1>5, <1>6, <1>7, <1>8 DEF Pending

-----------------------------------------------------------------------------
(***************************************************************************)
(* The step of the parser.                                                 *)
(***************************************************************************)
LEMMA ConsumeKeeps ==
    ASSUME StreamType, Pending, NoEmptyWordYet, ConsumeByte
    PROVE  StreamType' /\ Pending'
<1> DEFINE x == Head(buffer)
           b == Tail(buffer)
           s == b \o inbox
<1>1. buffer # <<>> /\ verdict = "ok" /\ Consume(x) /\ buffer' = b
    BY DEF ConsumeByte
<1>2. UNCHANGED <<asked, inbox, outcomes>>
    BY DEF ConsumeByte
<1>3. /\ x \in Byte /\ b \in Seq(Byte) /\ buffer = Before(x, b)
      /\ Len(b) = Len(buffer) - 1 /\ Len(buffer) \in Nat
    BY <1>1, Splits, HeadTailProperties, LenProperties DEF StreamType
<1> HIDE DEF x, b
<1>4. s \in Seq(Byte) /\ buffer \o inbox = Before(x, s) /\ buffer' \o inbox' = s
    <2>1. inbox \in Seq(Byte)
        BY DEF StreamType
    <2>2. s \in Seq(Byte)
        BY <1>3, <2>1, BytesJoin
    <2>3. Before(x, b) \o inbox = Before(x, s)
        BY <1>3, <2>1, BeforeJoins
    <2> QED BY <1>1, <1>2, <1>3, <2>2, <2>3
<1> HIDE DEF s
<1>5. StreamType'
    <2>1. num' \in NumType
        BY <1>1, <1>3, ConsumeKeepsNum DEF StreamType
    <2>2. Len(buffer') <= BufSize
        BY <1>1, <1>3, BoundAssumption DEF StreamType
    <2> QED BY <1>1, <1>2, <1>3, <2>1, <2>2 DEF StreamType
<1>6. PICK now \in Seq(Byte), ps \in Seq(Seq(Byte)) :
           /\ buffer \o inbox = now \o Concat(ps)
           /\ Here(now) /\ Ahead(ps, Len(outcomes) + Busy)
    BY DEF Pending
<1> DEFINE C == Concat(ps)
<1>7. C \in Seq(Byte) /\ Before(x, s) = Joined(now, C)
    BY <1>4, <1>6, ConcatIsSeq DEF Joined
<1>8. Len(outcomes) \in Nat /\ Len(asked) \in Nat /\ Len(ps) \in Nat
    BY Counts, LenProperties
\* The first byte behind a command is noise.
<1>9. CASE /\ state = "start" /\ verdict \in {"ok", "error"} /\ word = <<>> /\ argv = <<>>
           /\ now \in Seq(Noise) /\ now # <<>>
    <2>1. PICK v \in Seq(Byte) : now = Before(x, v) /\ s = Joined(v, C)
        <3> HIDE DEF C
        <3> QED BY <1>3, <1>4, <1>7, <1>9, PeelFrom
    <2>2. x \in Noise /\ v \in Seq(Noise)
        <3>1. Head(now) = x /\ Tail(now) = v
            BY <1>3, <2>1, BytesBefore
        <3> QED BY <1>9, <3>1, HeadAndTail
    <2>3. verdict' = "error" /\ UNCHANGED <<state, num, argv, curarg, word, args>>
        BY <1>1, <1>9, <2>2, NoiseStep
    <2>4. Here(v)'
        BY <1>9, <2>2, <2>3 DEF Here
    <2>5. Ahead(ps, Len(outcomes) + Busy)'
        BY <1>2, <1>6, <2>3 DEF Ahead, Busy
    <2>6. buffer' \o inbox' = v \o Concat(ps)
        BY <1>4, <2>1 DEF Joined
    <2> QED BY <1>5, <2>1, <2>4, <2>5, <2>6 DEF Pending
\* A command begins.
<1>10. CASE /\ state = "start" /\ verdict \in {"ok", "error"} /\ word = <<>> /\ argv = <<>>
            /\ now = <<>>
    <2>1. Before(x, s) = C
        BY <1>7, <1>10, BytesJoin DEF Joined
    <2>2. ps # <<>>
        <3>1. Before(x, s) # <<>>
            BY <1>3, <1>4, BytesBefore
        <3> QED BY <2>1, <3>1, ConcatOfNone
    <2> DEFINE B == Seq(Byte)
               p == Head(ps)
               qs == Tail(ps)
               D == Concat(qs)
               k == Len(outcomes) + 1
    <2>3. /\ p \in B /\ qs \in Seq(B) /\ ps = <<p>> \o qs /\ p = ps[1]
          /\ Len(qs) = Len(ps) - 1 /\ \A i \in 1 .. Len(qs) : qs[i] = ps[i + 1]
        <3>1. p \in B /\ qs \in Seq(B) /\ ps = <<p>> \o qs
            <4> HIDE DEF B
            <4> QED BY <2>2, HeadAndTail DEF B
        <3>2. p = ps[1]
            BY <2>2
        <3> HIDE DEF B
        <3> QED BY <2>2, <3>1, <3>2, HeadTailProperties DEF B
    <2>4. Len(ps) > 0 /\ Len(asked) = Len(outcomes) + Len(ps) /\ k \in 1 .. Len(asked)
        <3>1. Len(ps) # 0
            BY <2>2, EmptySeq
        <3>2. Len(asked) = Len(outcomes) + 0 + Len(ps)
            BY <1>6, <1>10 DEF Ahead, Busy
        <3> QED BY <1>8, <3>1, <3>2
    <2>5. PICK c \in TextCommand : c = asked[k] /\ c \in Command
        <3>1. asked[k] \in Command
            BY <2>4, ElementOfSeq DEF StreamType
        <3>2. NoEmptyWord(asked[k])
            <4>1. DOMAIN asked = 1 .. Len(asked) /\ k <= Len(outcomes) + 1
                BY <1>8, LenProperties DEF StreamType
            <4> QED BY <2>4, <4>1 DEF NoEmptyWordYet
        <3> QED BY <3>1, <3>2 DEF TextCommand
    <2>6. \A i \in 1 .. Len(ps) : Sent(asked[Len(outcomes) + i], ps[i])
        <3>1. Busy = 0 /\ Len(outcomes) + 0 = Len(outcomes)
            BY <1>8, <1>10 DEF Busy
        <3> QED BY <1>6, <3>1 DEF Ahead
    <2>7. Sent(c, p)
        <3>1. 1 \in 1 .. Len(ps)
            BY <1>8, <2>4
        <3> QED BY <2>3, <2>5, <2>6, <3>1
    <2> HIDE DEF p, qs, D
    <2>8. PICK e \in Encodings(c), n \in Seq(Noise) : p = e \o n
        BY <2>7 DEF Sent
    <2>9. e \in Seq(Byte) /\ e # <<>> /\ n \in Seq(Byte) /\ D \in Seq(Byte)
        BY <2>3, <2>5, EncodingsAreBytes, NoiseBytes, ConcatIsSeq DEF D
    <2> DEFINE m == Joined(n, D)
    <2>10. C = Joined(e, m) /\ m \in Seq(Byte)
        <3>1. C = p \o D
            BY <2>3, ConcatOfCons DEF D
        <3>2. (e \o n) \o D = e \o (n \o D) /\ n \o D \in Seq(Byte)
            <4>1. Joined(Joined(e, n), D) = Joined(e, Joined(n, D))
                BY <2>9, JoinedAssociate
            <4>2. n \o D \in Seq(Byte)
                BY <2>9, BytesJoin
            <4> QED BY <4>1, <4>2 DEF Joined
        <3> QED BY <2>8, <3>1, <3>2 DEF Joined
    <2> HIDE DEF m, C
    <2>11. PICK v \in Seq(Byte) : e = Before(x, v) /\ s = Joined(v, m)
        <3>1. Before(x, s) = Joined(e, m)
            BY <2>1, <2>10
        <3> QED BY <1>3, <1>4, <2>9, <2>10, <3>1, PeelFrom
    <2>12. Position(c, v)'
        <3>1. Before(x, v) \in Encodings(c)
            BY <2>8, <2>11
        <3> QED BY <1>1, <1>3, <1>10, <2>5, <3>1, BeginStep
    <2> DEFINE t == v \o n
    <2>13. t \in Seq(Byte) /\ buffer' \o inbox' = t \o Concat(qs)
        <3>1. s = v \o (n \o D)
            BY <2>11 DEF m, Joined
        <3>2. (v \o n) \o D = v \o (n \o D) /\ v \o n \in Seq(Byte)
            <4>1. Joined(Joined(v, n), D) = Joined(v, Joined(n, D))
                BY <2>9, JoinedAssociate
            <4>2. v \o n \in Seq(Byte)
                BY <2>9, BytesJoin
            <4> QED BY <4>1, <4>2 DEF Joined
        <3> QED BY <1>4, <3>1, <3>2 DEF D
    <2>14. Here(t)'
        <3>1. Len(outcomes') + 1 \in 1 .. Len(asked') /\ c = asked'[Len(outcomes') + 1]
            BY <1>2, <2>4, <2>5
        <3> HIDE DEF k
        <3>2. t = v \o n
            OBVIOUS
        <3> HIDE DEF t
        <3> QED BY <2>5, <2>8, <2>12, <3>1, <3>2 DEF Here
    <2>15. Ahead(qs, k)'
        <3>1. Len(asked) = k + Len(qs)
            BY <1>8, <2>3, <2>4
        <3>2. ASSUME NEW i \in 1 .. Len(qs) PROVE Sent(asked[k + i], qs[i])
            <4>1. i + 1 \in 1 .. Len(ps) /\ Len(outcomes) + (i + 1) = k + i
                BY <1>8, <2>3
            <4> QED BY <2>3, <2>6, <4>1
        <3>3. k' = k
            BY <1>2
        <3> HIDE DEF k
        <3> QED BY <1>2, <3>1, <3>2, <3>3 DEF Ahead
    <2>16. (Len(outcomes) + Busy)' = k
        <3>1. state' # "start"
            BY <2>12 DEF Position, Reading, AtLetter, AtStar, AtArgc, AtDollar, AtData, AtCr, AtEnd
        <3> QED BY <1>2, <3>1 DEF Busy
    <2>17. Ahead(qs, Len(outcomes) + Busy)'
        <3>1. k' = k
            BY <1>2
        <3> DEFINE j == Len(outcomes) + Busy
        <3>2. j' = k'
            BY <2>16, <3>1
        <3> HIDE DEF j, k
        <3>3. Ahead(qs, j)'
            BY <2>15, <3>2 DEF Ahead
        <3> QED BY <3>3 DEF j
    <2> HIDE DEF t
    <2> QED BY <1>5, <2>3, <2>13, <2>14, <2>17 DEF Pending
\* A command goes on.
<1>11. CASE \E c \in TextCommand, r \in Seq(Byte), n \in Seq(Noise) :
               /\ Len(outcomes) + 1 \in 1 .. Len(asked) /\ c = asked[Len(outcomes) + 1]
               /\ now = r \o n /\ Position(c, r)
    <2>1. PICK c \in TextCommand, r \in Seq(Byte), n \in Seq(Noise) :
               /\ Len(outcomes) + 1 \in 1 .. Len(asked) /\ c = asked[Len(outcomes) + 1]
               /\ now = r \o n /\ Position(c, r)
        BY <1>11
    <2>2. c \in Seq(Text) /\ c # <<>> /\ n \in Seq(Byte)
        BY CommandsAreTexts, NoiseBytes
    <2>3. Reading(c, r)
        BY <1>1, <2>1 DEF Position, AtEnd
    <2>4. r # <<>>
        BY <2>2, <2>3, ReadingLeft
    <2> DEFINE m == Joined(n, C)
    <2>5. Before(x, s) = Joined(r, m) /\ m \in Seq(Byte)
        <3> HIDE DEF C
        <3>1. (r \o n) \o C = r \o (n \o C) /\ n \o C \in Seq(Byte)
            <4>1. Joined(Joined(r, n), C) = Joined(r, Joined(n, C))
                BY <1>7, <2>2, JoinedAssociate
            <4>2. n \o C \in Seq(Byte)
                BY <1>7, <2>2, BytesJoin
            <4> QED BY <4>1, <4>2 DEF Joined
        <3> QED BY <1>7, <2>1, <3>1 DEF Joined
    <2> HIDE DEF m
    <2>6. PICK v \in Seq(Byte) : r = Before(x, v) /\ s = Joined(v, m)
        BY <1>3, <1>4, <2>4, <2>5, PeelFrom
    <2>7. Position(c, v)'
        BY <1>1, <1>3, <2>2, <2>3, <2>6, ReadingStep DEF StreamType
    <2> DEFINE t == v \o n
    <2>8. t \in Seq(Byte) /\ buffer' \o inbox' = t \o Concat(ps)
        <3> HIDE DEF C
        <3>1. s = v \o (n \o C)
            BY <2>6 DEF m, Joined
        <3>2. (v \o n) \o C = v \o (n \o C) /\ v \o n \in Seq(Byte)
            <4>1. v \in Seq(Byte) /\ n \in Seq(Byte) /\ C \in Seq(Byte)
                BY <1>7, <2>2
            <4>2. Joined(Joined(v, n), C) = Joined(v, Joined(n, C))
                BY <4>1, JoinedAssociate
            <4>3. v \o n \in Seq(Byte)
                BY <4>1, BytesJoin
            <4> QED BY <4>2, <4>3 DEF Joined
        <3> QED BY <1>4, <3>1, <3>2 DEF C
    <2>9. Here(t)'
        <3>1. Len(outcomes') + 1 \in 1 .. Len(asked') /\ c = asked'[Len(outcomes') + 1]
            BY <1>2, <2>1
        <3>2. t = v \o n
            OBVIOUS
        <3> HIDE DEF t
        <3> QED BY <2>7, <3>1, <3>2 DEF Here
    <2>10. Busy = 1 /\ Busy' = 1
        <3>1. state # "start"
            BY <2>1, PositionIsBusy
        <3>2. state' # "start"
            BY <2>7 DEF Position, Reading, AtLetter, AtStar, AtArgc, AtDollar, AtData, AtCr, AtEnd
        <3> QED BY <3>1, <3>2 DEF Busy
    <2>11. Ahead(ps, Len(outcomes) + Busy)'
        BY <1>2, <1>6, <2>10 DEF Ahead
    <2> HIDE DEF t
    <2> QED BY <1>5, <2>8, <2>9, <2>11 DEF Pending
<1> QED BY <1>6, <1>9, <1>10, <1>11 DEF Here

-----------------------------------------------------------------------------
(***************************************************************************)
(* The inductive invariant: the dispatcher's, the place in the stream, and *)
(* that the worker and the constructor take turns on the map.              *)
(***************************************************************************)
\* Nothing is sent while the map is built.
Quiet == ~Built => asked = <<>> /\ inbox = <<>> /\ buffer = <<>> /\ verdict = "ok"

\* The worker looks up the command that has just ended.
Looking == Built /\ search # NoSearch => verdict = "end" /\ search.verb = args[1]

ClientInv == DispatcherInv /\ StreamType /\ Pending /\ Quiet /\ Looking

LEMMA InitInv == Init => ClientInv
<1> SUFFICES ASSUME Init PROVE ClientInv
    OBVIOUS
<1>1. DispatcherInv
    BY InvHoldsFirst DEF Init
<1>2. StreamType /\ Pending
    BY InitPending
<1>3. Quiet /\ Looking
    BY DEF Init, Quiet, Looking, ParserInit, DispatcherInit
<1> QED BY <1>1, <1>2, <1>3 DEF ClientInv

\* What becomes of a command at the end of its lookup.
LEMMA VerdictType ==
    ASSUME DispatcherInv, AtLeaf, NEW n \in Int
    PROVE  /\ Verdict(n).verb \in Word
           /\ Verdict(n).what \in {"unknown", "arity", "stray", "called"}
<1>1. CASE ~Hit
    <2>1. <<>> \in Word
        BY EmptySeq DEF Word
    <2> QED BY <1>1, <2>1 DEF Verdict
<1>2. CASE Hit
    <2>1. search.lo \in 1 .. Len(functions)
        BY <1>2, Entries DEF Hit, DispatcherInv, Walking, AtLeaf
    <2>2. functions[search.lo].verb \in Word
        BY <2>1, Entries DEF DispatcherInv
    <2> QED BY <1>2, <2>2 DEF Verdict
<1> QED BY <1>1, <1>2

LEMMA RunKeeps ==
    ASSUME ClientInv, RunCommand
    PROVE  /\ verdict = "end" /\ search.verb = args[1]
           /\ outcomes' \in Seq(Ran) /\ StreamType' /\ Pending'
<1>1. verdict = "end" /\ search.verb = args[1]
    BY DEF ClientInv, Looking, RunCommand, AtLeaf
<1>2. args \in Seq(Text) /\ args # <<>>
    BY <1>1, EndOfCommand, CommandsAreTexts DEF ClientInv
<1> DEFINE v == Verdict(Len(args))
           o == [verb |-> v.verb, what |-> v.what, args |-> Tail(args)]
<1>3. v.verb \in Word /\ v.what \in {"unknown", "arity", "stray", "called"}
    BY <1>2, VerdictType, LenProperties DEF ClientInv, RunCommand
<1>4. Tail(args) \in Seq(Text)
    BY <1>2, HeadTailProperties
<1> HIDE DEF v
<1>5. o \in Ran
    BY <1>3, <1>4 DEF Ran
<1>6. outcomes' = Append(outcomes, o)
    BY DEF RunCommand, v
<1> HIDE DEF o
<1>7. outcomes' \in Seq(Ran)
    BY <1>5, <1>6, AppendProperties DEF ClientInv, StreamType
<1> QED BY <1>1, <1>7, RunKeepsPending DEF ClientInv

LEMMA OthersKeepStream ==
    ASSUME StreamType, Pending, UNCHANGED <<parser, asked, outcomes, buffer, inbox>>
    PROVE  StreamType' /\ Pending'
BY PendingStays DEF StreamType, parser

LEMMA WordsOfCommands ==
    ASSUME NEW c \in TextCommand
    PROVE  c[1] \in Word /\ Len(c) \in Nat \ {0}
<1>1. c \in Seq(Text) /\ c # <<>>
    BY CommandsAreTexts
<1>2. Len(c) \in Nat \ {0}
    BY <1>1, EmptySeq
<1>3. c[1] \in Text
    BY <1>1, <1>2, ElementOfSeq
<1> QED BY <1>2, <1>3 DEF Text, Word, Byte

LEMMA StepKeepsClientInv == ClientInv /\ NoEmptyWordYet /\ [Next]_vars => ClientInv'
<1> SUFFICES ASSUME ClientInv, NoEmptyWordYet, [Next]_vars PROVE ClientInv'
    OBVIOUS
<1>0. DispatcherInv /\ StreamType /\ Pending /\ Quiet /\ Looking
    BY DEF ClientInv
<1> DEFINE Rest == asked = <<>> /\ inbox = <<>> /\ buffer = <<>>
<1>1. CASE Send
    <2>1. StreamType' /\ Pending'
        BY <1>0, <1>1, SendKeeps
    <2>2. DispatcherInv'
        BY <1>0, <1>1, StepKeepsInv DEF Send, dispatcher
    <2>3. Quiet' /\ Looking'
        BY <1>0, <1>1 DEF Send, Quiet, Looking, dispatcher, parser, Built
    <2> QED BY <2>1, <2>2, <2>3 DEF ClientInv
<1>2. CASE SendNoise
    <2>1. StreamType' /\ Pending'
        BY <1>0, <1>2, NoiseKeeps
    <2>2. DispatcherInv'
        BY <1>0, <1>2, StepKeepsInv DEF SendNoise, dispatcher
    <2>3. Quiet' /\ Looking'
        BY <1>0, <1>2 DEF SendNoise, Quiet, Looking, dispatcher, parser, Built
    <2> QED BY <2>1, <2>2, <2>3 DEF ClientInv
<1>3. CASE Setup
    <2>0. Build /\ UNCHANGED <<parser, asked, inbox, buffer, outcomes>>
        BY <1>3 DEF Setup
    <2>1. StreamType' /\ Pending'
        BY <1>0, <2>0, OthersKeepStream
    <2>2. DispatcherInv'
        BY <1>0, <2>0, StepKeepsInv DEF DispatcherNext
    <2>3. ~Built
        BY <2>0 DEF Build, Register, Insert
    <2>4. Quiet'
        BY <1>0, <2>0, <2>3 DEF Quiet, parser
    <2>5. Looking'
        <3>1. CASE Register \/ Probe
            <4>1. added' = added
                BY <3>1 DEF Register, Probe
            <4> QED BY <2>3, <4>1 DEF Looking, Built
        <3>2. CASE Insert
            BY <3>2 DEF Insert, Looking, NoSearch
        <3> QED BY <2>0, <3>1, <3>2 DEF Build
    <2> QED BY <2>1, <2>2, <2>4, <2>5 DEF ClientInv
<1>4. CASE Read
    <2>1. StreamType' /\ Pending'
        BY <1>0, <1>4, ReadKeeps
    <2>2. DispatcherInv'
        BY <1>0, <1>4, StepKeepsInv DEF Read, dispatcher
    <2>3. Quiet' /\ Looking'
        BY <1>0, <1>4 DEF Read, Quiet, Looking, dispatcher, parser, Built
    <2> QED BY <2>1, <2>2, <2>3 DEF ClientInv
<1>5. CASE ConsumeByte
    <2>1. StreamType' /\ Pending'
        BY <1>0, <1>5, ConsumeKeeps
    <2>2. UNCHANGED dispatcher /\ buffer # <<>> /\ verdict = "ok"
        BY <1>5 DEF ConsumeByte
    <2>3. DispatcherInv'
        BY <1>0, <2>2, StepKeepsInv
    <2>4. Quiet'
        BY <1>0, <2>2 DEF Quiet, dispatcher, Built
    <2>5. Looking'
        BY <1>0, <2>2 DEF Looking, dispatcher, Built
    <2> QED BY <2>1, <2>3, <2>4, <2>5 DEF ClientInv
<1>6. CASE DropByte
    <2>1. StreamType' /\ Pending'
        BY <1>0, <1>6, DropKeeps
    <2>2. UNCHANGED dispatcher /\ verdict = "error"
        BY <1>6 DEF DropByte
    <2>3. DispatcherInv'
        BY <1>0, <2>2, StepKeepsInv
    <2>4. Quiet' /\ Looking'
        BY <1>0, <2>2 DEF Quiet, Looking, dispatcher, Built
    <2> QED BY <2>1, <2>3, <2>4 DEF ClientInv
<1>7. CASE OnCmd
    <2>0. /\ verdict = "end" /\ search = NoSearch /\ StartSearch(args[1])
          /\ UNCHANGED <<parser, functions, added, asked, inbox, buffer, outcomes>>
        BY <1>7 DEF OnCmd
    <2>1. StreamType' /\ Pending'
        BY <1>0, <2>0, OthersKeepStream
    <2>2. args[1] \in Word
        BY <1>0, <2>0, EndOfCommand, WordsOfCommands
    <2>3. Built
        BY <1>0, <2>0 DEF Quiet
    <2>4. DispatcherInv'
        BY <1>0, <2>0, <2>2, <2>3, StartKeepsInv
    <2>5. Quiet' /\ Looking'
        BY <1>0, <2>0, <2>3 DEF Quiet, Looking, Built, parser, StartSearch
    <2> QED BY <2>1, <2>4, <2>5 DEF ClientInv
<1>8. CASE Lookup
    <2>0. Built /\ Probe /\ UNCHANGED <<parser, asked, inbox, buffer, outcomes>>
        BY <1>8 DEF Lookup
    <2>1. StreamType' /\ Pending'
        BY <1>0, <2>0, OthersKeepStream
    <2>2. DispatcherInv'
        BY <1>0, <2>0, StepKeepsInv DEF DispatcherNext
    <2>3. search # NoSearch /\ UNCHANGED <<functions, added>> /\ search \in [verb : Word, lo : Nat, hi : Nat]
        BY <1>0, <2>0 DEF Probe, DispatcherInv, Walking
    <2>4. search'.verb = search.verb
        BY <2>0, <2>3 DEF Probe
    <2>5. Quiet' /\ Looking'
        BY <1>0, <2>0, <2>3, <2>4 DEF Quiet, Looking, Built, parser
    <2> QED BY <2>1, <2>2, <2>5 DEF ClientInv
<1>9. CASE RunCommand
    <2>1. StreamType' /\ Pending'
        BY <1>9, RunKeeps
    <2>2. Built /\ AtLeaf /\ search' = NoSearch /\ UNCHANGED <<functions, added>>
        BY <1>9 DEF RunCommand
    <2>3. DispatcherInv'
        BY <1>0, <2>2, StepKeepsInv DEF DispatcherNext, Answer
    <2>4. Quiet' /\ Looking'
        BY <2>2 DEF Quiet, Looking, Built
    <2> QED BY <2>1, <2>3, <2>4 DEF ClientInv
<1>10. CASE UNCHANGED vars
    <2>0. UNCHANGED <<parser, dispatcher, asked, inbox, buffer, outcomes>>
        BY <1>10 DEF vars
    <2>1. StreamType' /\ Pending'
        BY <1>0, <2>0, OthersKeepStream
    <2>2. DispatcherInv'
        BY <1>0, <2>0, StepKeepsInv
    <2>3. Quiet' /\ Looking'
        BY <1>0, <2>0 DEF Quiet, Looking, Built, parser, dispatcher
    <2> QED BY <2>1, <2>2, <2>3 DEF ClientInv
<1> QED BY <1>1, <1>2, <1>3, <1>4, <1>5, <1>6, <1>7, <1>8, <1>9, <1>10 DEF Next, Worker

-----------------------------------------------------------------------------
(***************************************************************************)
(* Where no verb is the beginning of another, every entry of the table is  *)
(* an entry of the map, with its own handler.                              *)
(***************************************************************************)
NoPrefix ==
    \A i, j \in DOMAIN Listed :
        i # j => Less(Listed[i].verb, Listed[j].verb) \/ Less(Listed[j].verb, Listed[i].verb)

\* The entries of the map are those added so far, each once.
Kept ==
    /\ Len(functions) = added
    /\ \A i \in 1 .. added : \E j \in 1 .. added : functions[i] = Listed[j]
    /\ \A j \in 1 .. added : \E i \in 1 .. added : functions[i] = Listed[j]

LEMMA ListedTypes ==
    /\ Len(Listed) \in Nat /\ DOMAIN Listed = 1 .. Len(Listed)
    /\ \A i \in 1 .. Len(Listed) : Listed[i] \in Handler /\ Listed[i].verb \in Word
<1>1. /\ Len(Listed) \in Nat /\ DOMAIN Listed = 1 .. Len(Listed)
      /\ \A i \in 1 .. Len(Listed) : Listed[i] \in Handler
    BY ListedAssumption, LenProperties, ElementOfSeq
<1>2. \A h \in Handler : h.verb \in Word
    BY DEF Handler
<1> QED BY <1>1, <1>2

LEMMA InsertKeeps ==
    ASSUME NoPrefix, DispatcherInv, Kept, Insert
    PROVE  Kept'
<1> DEFINE h == Listed[added + 1]
           k == search.lo
           g == Inserted(functions, k, h)
<1>1. /\ functions \in Seq(Handler) /\ Len(functions) \in Nat /\ added \in Nat
      /\ Len(functions) = added /\ added + 1 \in 1 .. Len(Listed) /\ Len(Listed) \in Nat
    BY Entries, ListedTypes DEF DispatcherInv, Insert, Built, Kept
<1>2. /\ search # NoSearch /\ k = search.hi /\ k \in 1 .. added + 1
      /\ search.verb = h.verb /\ h \in Handler /\ h.verb \in Word
    BY <1>1, ListedTypes DEF DispatcherInv, Walking, Insert, AtLeaf
<1>3. ~Hit
    <2> SUFFICES ASSUME Hit PROVE FALSE
        OBVIOUS
    <2>1. k \in 1 .. added /\ ~Less(h.verb, functions[k].verb)
        BY <1>1, <1>2 DEF Hit
    <2>2. ~Less(functions[k].verb, h.verb)
        BY <1>1, <1>2, <2>1 DEF DispatcherInv, SearchIsOn
    <2>3. PICK j \in 1 .. added : functions[k] = Listed[j]
        BY <2>1 DEF Kept
    <2>4. j \in 1 .. Len(Listed) /\ j # added + 1
        BY <1>1
    <2> QED BY <1>1, <2>1, <2>2, <2>3, <2>4, ListedTypes DEF NoPrefix
<1>4. functions' = g /\ added' = added + 1
    BY <1>3 DEF Insert, Inserted
<1>5. /\ Len(g) = added + 1
      /\ \A i \in 1 .. added + 1 :
             g[i] = IF i < k THEN functions[i] ELSE IF i = k THEN h ELSE functions[i - 1]
    <2> HIDE DEF h, k
    <2>1. functions \in Seq(Handler) /\ h \in Handler /\ k \in 1 .. Len(functions) + 1
        BY <1>1, <1>2
    <2>2. /\ Len(g) = Len(functions) + 1
          /\ \A i \in 1 .. Len(functions) + 1 :
                 g[i] = IF i < k THEN functions[i] ELSE IF i = k THEN h ELSE functions[i - 1]
        BY ONLY <2>1, InsertedProperties
    <2> HIDE DEF g
    <2> QED BY <1>1, <2>2
<1> HIDE DEF g
<1>6. ASSUME NEW i \in 1 .. added + 1 PROVE \E j \in 1 .. added + 1 : g[i] = Listed[j]
    <2>1. CASE i = k
        BY <1>1, <1>2, <1>5, <2>1
    <2>2. CASE i # k
        <3>1. \E m \in 1 .. added : g[i] = functions[m]
            <4>1. CASE i < k
                <5>1. i \in 1 .. added /\ g[i] = functions[i]
                    BY <1>1, <1>2, <1>5, <4>1
                <5> QED BY <5>1
            <4>2. CASE ~(i < k)
                <5>1. i - 1 \in 1 .. added /\ g[i] = functions[i - 1]
                    BY <1>1, <1>2, <1>5, <2>2, <4>2
                <5> QED BY <5>1
            <4> QED BY <4>1, <4>2
        <3>2. PICK m \in 1 .. added : g[i] = functions[m]
            BY <3>1
        <3>3. PICK j \in 1 .. added : functions[m] = Listed[j]
            BY DEF Kept
        <3>4. j \in 1 .. added + 1
            BY <1>1
        <3> QED BY <3>2, <3>3, <3>4
    <2> QED BY <2>1, <2>2
<1>7. ASSUME NEW j \in 1 .. added + 1 PROVE \E i \in 1 .. added + 1 : g[i] = Listed[j]
    <2>1. CASE j = added + 1
        <3>1. k \in 1 .. added + 1 /\ g[k] = h
            BY <1>1, <1>2, <1>5
        <3> QED BY <2>1, <3>1
    <2>2. CASE j # added + 1
        <3>1. j \in 1 .. added
            BY <1>1, <2>2
        <3>2. PICK m \in 1 .. added : functions[m] = Listed[j]
            BY <3>1 DEF Kept
        <3>3. CASE m < k
            <4>1. m \in 1 .. added + 1 /\ g[m] = functions[m]
                BY <1>1, <1>5, <3>3
            <4> QED BY <3>2, <4>1
        <3>4. CASE ~(m < k)
            <4>1. m + 1 \in 1 .. added + 1 /\ ~(m + 1 < k) /\ m + 1 # k /\ (m + 1) - 1 = m
                BY <1>1, <1>2, <3>4
            <4>2. g[m + 1] = functions[m]
                BY <1>5, <4>1
            <4> QED BY <3>2, <4>1, <4>2
        <3> QED BY <3>3, <3>4
    <2> QED BY <2>1, <2>2
<1>8. \A i \in 1 .. added' : \E j \in 1 .. added' : functions'[i] = Listed[j]
    BY <1>4, <1>6
<1>9. \A j \in 1 .. added' : \E i \in 1 .. added' : functions'[i] = Listed[j]
    BY <1>4, <1>7
<1> QED BY <1>4, <1>5, <1>8, <1>9 DEF Kept

(***************************************************************************)
(* The entry a lookup ends at is the one its verb stands for.              *)
(***************************************************************************)
LEMMA EndOfLookup ==
    ASSUME NoPrefix, DispatcherInv, Kept, Built, AtLeaf
    PROVE  /\ Hit => \E j \in DOMAIN Listed :
                         functions[search.lo] = Listed[j] /\ StandsFor(search.verb) = {j}
           /\ ~Hit => StandsFor(search.verb) = {}
<1> DEFINE v == search.verb
           k == search.lo
           L == Len(Listed)
           alike == {i \in DOMAIN Listed : ~Less(v, Listed[i].verb) /\ ~Less(Listed[i].verb, v)}
<1>1. /\ L \in Nat /\ Len(functions) = L /\ DOMAIN Listed = 1 .. L
      /\ added = L
    BY ListedTypes DEF Built, Kept
<1>2. \A i \in 1 .. L : functions[i].verb \in Word /\ Listed[i].verb \in Word
    BY <1>1, Entries, ListedTypes DEF DispatcherInv
<1>3. k \in 1 .. L + 1 /\ v \in Word
    BY <1>1 DEF AtLeaf, DispatcherInv, Walking
<1>4. \A i \in 1 .. L : (i < k) <=> Less(functions[i].verb, v)
    <2>1. LookupIsDetermined /\ DOMAIN functions = 1 .. L
        BY <1>1, InvDetermines, Entries DEF DispatcherInv
    <2> QED BY <2>1 DEF LookupIsDetermined
<1>5. \A i, j \in 1 .. L : i < j => Less(functions[i].verb, functions[j].verb)
    BY <1>1 DEF DispatcherInv, Ordered
<1>6. \A j \in 1 .. L : \E i \in 1 .. L : functions[i] = Listed[j]
    BY <1>1 DEF Kept
<1>7. CASE Hit
    <2>1. k \in 1 .. L /\ ~Less(v, functions[k].verb)
        BY <1>1, <1>3, <1>7 DEF Hit
    <2>2. PICK j \in 1 .. L : functions[k] = Listed[j]
        BY <1>1, <2>1 DEF Kept
    <2>3. j \in alike
        <3>1. ~Less(functions[k].verb, v)
            BY <1>3, <1>4, <2>1
        <3> QED BY <1>1, <2>1, <2>2, <3>1
    \* The entries behind it come later in the order.
    <2>4. ASSUME NEW i \in alike, i # j PROVE Less(Listed[j].verb, Listed[i].verb)
        <3>1. PICK m \in 1 .. L : functions[m] = Listed[i]
            BY <1>1, <1>6
        <3>2. ~(m < k)
            BY <1>4, <3>1
        <3>3. m # k
            <4>1. ~Less(Listed[i].verb, Listed[i].verb)
                BY <1>1, <1>2, LessIrreflexive
            <4>2. Less(Listed[i].verb, Listed[j].verb) \/ Less(Listed[j].verb, Listed[i].verb)
                BY <1>1, <2>2, <2>4 DEF NoPrefix
            <4> QED BY <2>2, <3>1, <4>1, <4>2
        <3>4. k < m
            BY <1>3, <3>2, <3>3
        <3> QED BY <1>5, <2>1, <2>2, <3>1, <3>4
    <2>5. StandsFor(v) = {j}
        <3>1. CASE \E i \in alike : Listed[i].verb = v
            <4>1. StandsFor(v) = {i \in alike : Listed[i].verb = v}
                BY <3>1 DEF StandsFor
            <4>2. ASSUME NEW i \in alike, Listed[i].verb = v PROVE i = j
                <5>1. i = j \/ Less(Listed[j].verb, v)
                    BY <2>4, <4>2
                <5> QED BY <2>3, <5>1
            <4> QED BY <2>3, <3>1, <4>1, <4>2
        <3>2. CASE ~\E i \in alike : Listed[i].verb = v
            <4>1. StandsFor(v) = {i \in alike : \A m \in alike \ {i} : Less(Listed[i].verb, Listed[m].verb)}
                BY <3>2 DEF StandsFor
            <4>2. \A m \in alike \ {j} : Less(Listed[j].verb, Listed[m].verb)
                BY <2>4
            <4>3. ASSUME NEW i \in alike, \A m \in alike \ {i} : Less(Listed[i].verb, Listed[m].verb),
                         i # j
                  PROVE  FALSE
                <5>1. Less(Listed[i].verb, Listed[j].verb) /\ Less(Listed[j].verb, Listed[i].verb)
                    BY <2>3, <2>4, <4>3
                <5>2. Listed[i].verb \in Word /\ Listed[j].verb \in Word
                    BY <1>1, <1>2, <2>3
                <5>3. Less(Listed[i].verb, Listed[i].verb)
                    BY <5>1, <5>2, LessTransitive
                <5> QED BY <5>2, <5>3, LessIrreflexive
            <4> QED BY <2>3, <4>1, <4>2, <4>3
        <3> QED BY <3>1, <3>2
    <2> QED BY <1>1, <1>7, <2>2, <2>5
<1>8. CASE ~Hit
    <2>1. ASSUME NEW i \in alike PROVE FALSE
        <3>1. PICK m \in 1 .. L : functions[m] = Listed[i]
            BY <1>1, <1>6
        <3>2. ~(m < k)
            BY <1>4, <3>1
        <3>3. k \in 1 .. L /\ Less(v, functions[k].verb)
            BY <1>1, <1>3, <1>8, <3>2 DEF Hit
        <3>4. m # k
            BY <3>1, <3>3
        <3>5. Less(functions[k].verb, functions[m].verb)
            BY <1>3, <1>5, <3>2, <3>3, <3>4
        <3>6. Less(v, functions[m].verb)
            BY <1>2, <1>3, <3>3, <3>5, LessTransitive
        <3> QED BY <3>1, <3>6
    <2>2. StandsFor(v) \subseteq alike
        BY DEF StandsFor
    <2> QED BY <1>8, <2>1, <2>2
<1> QED BY <1>7, <1>8

LEMMA OutcomeIs ==
    ASSUME NoPrefix, ClientInv, Kept, RunCommand
    PROVE  outcomes' = Append(outcomes, OutcomeOf(asked[Len(outcomes) + 1]))
<1>1. verdict = "end" /\ search.verb = args[1]
    BY RunKeeps
<1>2. args = asked[Len(outcomes) + 1] /\ args \in TextCommand
    BY <1>1, EndOfCommand DEF ClientInv
<1>3. DispatcherInv /\ Built /\ AtLeaf
    BY DEF ClientInv, RunCommand
<1> DEFINE f == functions[search.lo]
           n == Len(args)
<1>4. CASE Hit
    <2>1. PICK j \in DOMAIN Listed : f = Listed[j] /\ StandsFor(args[1]) = {j}
        BY <1>1, <1>3, <1>4, EndOfLookup
    <2>2. (CHOOSE i \in StandsFor(args[1]) : TRUE) = j /\ StandsFor(args[1]) # {}
        BY <2>1
    <2>3. Verdict(n) = [verb |-> f.verb,
                        what |-> IF ~Arity(f, n) THEN "arity"
                                 ELSE IF n - 1 < f.reads THEN "stray" ELSE "called"]
        BY <1>4 DEF Verdict
    <2> HIDE DEF f, n
    <2>4. OutcomeOf(args) = [verb |-> f.verb, args |-> Tail(args),
                             what |-> IF n - 1 \notin f.min .. f.max THEN "arity"
                                      ELSE IF n - 1 < f.reads THEN "stray" ELSE "called"]
        BY <2>1, <2>2 DEF OutcomeOf, n
    <2>5. [verb |-> Verdict(n).verb, what |-> Verdict(n).what, args |-> Tail(args)] = OutcomeOf(args)
        BY <2>3, <2>4 DEF Arity
    <2> QED BY <1>2, <2>5 DEF RunCommand, n
<1>5. CASE ~Hit
    <2>1. StandsFor(args[1]) = {}
        BY <1>1, <1>3, <1>5, EndOfLookup
    <2>2. Verdict(n) = [verb |-> <<>>, what |-> "unknown"]
        BY <1>5 DEF Verdict
    <2> HIDE DEF n
    <2>3. [verb |-> Verdict(n).verb, what |-> Verdict(n).what, args |-> Tail(args)] = OutcomeOf(args)
        BY <2>1, <2>2 DEF OutcomeOf
    <2> QED BY <1>2, <2>3 DEF RunCommand, n
<1> QED BY <1>4, <1>5

-----------------------------------------------------------------------------
(***************************************************************************)
(* Along the behaviours of Client.                                         *)
(***************************************************************************)
LEMMA KeptHoldsFirst == Init => Kept
BY EmptySeq DEF Init, DispatcherInit, Kept

LEMMA StepKeepsKept ==
    ASSUME NoPrefix, ClientInv, Kept, [Next]_vars
    PROVE  Kept'
<1>1. CASE Setup
    <2>1. CASE Insert
        BY <2>1, InsertKeeps DEF ClientInv
    <2>2. CASE Register \/ Probe
        <3>1. UNCHANGED <<functions, added>>
            BY <2>2 DEF Register, Probe
        <3> QED BY <3>1 DEF Kept
    <2> QED BY <1>1, <2>1, <2>2 DEF Setup, Build
<1>2. CASE UNCHANGED <<functions, added>>
    BY <1>2 DEF Kept
<1> QED BY <1>1, <1>2 DEF Next, Worker, Send, SendNoise, Read, ConsumeByte, DropByte, OnCmd,
           Lookup, Probe, RunCommand, vars, dispatcher

\* Whatever is sent, the histories only grow.
Histories == asked \in Seq(Command) /\ \E S : outcomes \in Seq(S)

\* So an empty word that was reached stays reached.
LEMMA HistoriesGrow ==
    ASSUME Histories, [Next]_vars
    PROVE  Histories' /\ (NoEmptyWordYet' => NoEmptyWordYet)
<1> DEFINE n == Len(outcomes)
           m == Len(asked)
<1>1. PICK S : outcomes \in Seq(S)
    BY DEF Histories
<1>2. /\ asked \in Seq(Command) /\ DOMAIN asked = 1 .. m
      /\ n \in Nat /\ m \in Nat
    BY <1>1, LenProperties DEF Histories
<1>3. /\ asked' \in Seq(Command) /\ DOMAIN asked \subseteq DOMAIN asked'
      /\ \A j \in DOMAIN asked : asked'[j] = asked[j]
    <2>1. CASE Send
        <3>1. PICK c \in Command : asked' = Append(asked, c)
            BY <2>1 DEF Send
        <3>2. asked' \in Seq(Command) /\ Len(asked') = m + 1 /\ \A j \in 1 .. m : asked'[j] = asked[j]
            BY <1>2, <3>1, AppendProperties
        <3>3. DOMAIN asked' = 1 .. m + 1
            BY <3>2, LenProperties
        <3> QED BY <1>2, <3>2, <3>3
    <2>2. CASE UNCHANGED asked
        BY <1>2, <2>2
    <2> QED BY <2>1, <2>2 DEF Next, Worker, SendNoise, Setup, Read, ConsumeByte, DropByte,
               OnCmd, Lookup, RunCommand, vars
<1>4. (\E T : outcomes' \in Seq(T)) /\ Len(outcomes') \in Nat /\ n <= Len(outcomes')
    <2>1. CASE RunCommand
        <3>1. PICK o : outcomes' = Append(outcomes, o)
            BY <2>1 DEF RunCommand
        <3> DEFINE T == S \cup {o}
        <3>2. outcomes \in Seq(T) /\ o \in T
            BY <1>1, SeqMonotonic
        <3> HIDE DEF T
        <3>3. outcomes' \in Seq(T) /\ Len(outcomes') = n + 1
            BY <3>1, <3>2, AppendProperties
        <3> QED BY <1>2, <3>3
    <2>2. CASE UNCHANGED outcomes
        BY <1>1, <1>2, <2>2
    <2> QED BY <2>1, <2>2 DEF Next, Worker, Send, SendNoise, Setup, Read, ConsumeByte, DropByte,
               OnCmd, Lookup, vars
<1>5. ASSUME NoEmptyWordYet', NEW j \in DOMAIN asked, j <= n + 1
      PROVE  NoEmptyWord(asked[j])
    <2>1. j \in DOMAIN asked' /\ asked'[j] = asked[j] /\ j <= Len(outcomes') + 1
        BY <1>2, <1>3, <1>4, <1>5
    <2> QED BY <1>5, <2>1 DEF NoEmptyWordYet
<1> QED BY <1>3, <1>4, <1>5 DEF Histories, NoEmptyWordYet

LEMMA InvHolds == Spec => [](NoEmptyWordYet => ClientInv)
<1> DEFINE Inv == Histories /\ (NoEmptyWordYet => ClientInv)
<1>1. Init => Inv
    <2>1. Init => Histories
        BY EmptySeq DEF Init, Histories
    <2> QED BY <2>1, InitInv
<1>2. Inv /\ [Next]_vars => Inv'
    BY StepKeepsClientInv, HistoriesGrow
<1>3. Inv => (NoEmptyWordYet => ClientInv)
    OBVIOUS
<1> HIDE DEF Inv
<1> QED BY <1>1, <1>2, <1>3, PTL DEF Spec

\* What the theorems assume that a refused command would refute.
NoEmptyWords == \A c \in Command : NoEmptyWord(c)

LEMMA NoneYet ==
    ASSUME NoEmptyWords, ClientInv
    PROVE  NoEmptyWordYet
<1>1. \A j \in DOMAIN asked : asked[j] \in Command
    BY LenProperties, ElementOfSeq DEF ClientInv, StreamType
<1> QED BY <1>1 DEF NoEmptyWords, NoEmptyWordYet

LEMMA FullWordsKeepInv ==
    ASSUME NoEmptyWords, ClientInv, [Next]_vars
    PROVE  ClientInv'
BY NoneYet, StepKeepsClientInv

LEMMA KeptHolds ==
    ASSUME NoPrefix, NoEmptyWords
    PROVE  Spec => [](ClientInv /\ Kept)
<1>1. Init => ClientInv /\ Kept
    BY InitInv, KeptHoldsFirst
<1>2. ClientInv /\ Kept /\ [Next]_vars => (ClientInv /\ Kept)'
    BY FullWordsKeepInv, StepKeepsKept
<1> QED BY <1>1, <1>2, PTL DEF Spec

-----------------------------------------------------------------------------
(***************************************************************************)
(* For any table of handlers, any commands without empty words and reads   *)
(* of any sizes, the map is sorted while connections use it, and every     *)
(* lookup ends at the entry that the table alone determines                *)
(* (Dispatcher::run).                                                      *)
(***************************************************************************)
THEOREM LookupsStayDetermined ==
    ASSUME NoEmptyWords
    PROVE  Spec => []LookupIsDetermined
<1>1. ClientInv /\ [Next]_vars => ClientInv'
    BY FullWordsKeepInv
<1>2. ClientInv => LookupIsDetermined
    BY InvDetermines DEF ClientInv
<1> QED BY <1>1, <1>2, InitInv, PTL DEF Spec

(***************************************************************************)
(* For any commands, empty words included: until the parser has come to a  *)
(* command that has one, it frees no buffer that it has not allocated      *)
(* (CommandParser::reset).  It ends a command only when all its words are  *)
(* read, and refuses no byte of one; between two commands there are no     *)
(* buffers.  The command with the empty word may be on its way already.    *)
(***************************************************************************)
THEOREM NoOtherWildFree == Spec => []OnlyEmptyWordsFreeWild
<1>1. (NoEmptyWordYet => ClientInv) => OnlyEmptyWordsFreeWild
    <2> SUFFICES ASSUME ClientInv, verdict # "ok", NEW i \in DOMAIN argv PROVE argv[i] # Raw
        BY DEF OnlyEmptyWordsFreeWild, FreesWhatItAllocated
    <2>1. CASE verdict = "end"
        BY <2>1, EndOfCommand DEF ClientInv
    <2>2. CASE verdict # "end"
        <3>1. PICK now \in Seq(Byte) : Here(now)
            BY DEF ClientInv, Pending
        <3>2. argv = <<>>
            BY <2>2, <3>1, PositionIsBusy DEF Here
        <3> QED BY <3>2
    <2> QED BY <2>1, <2>2
<1> QED BY <1>1, InvHolds, PTL

LEMMA PositionType ==
    ASSUME NEW c \in Seq(Text), NEW r, Position(c, r)
    PROVE  /\ state \in States \ {"start"}
           /\ \A i \in DOMAIN argv : argv[i] = Raw \/ Len(argv[i].data) <= argv[i].len
           /\ state \in {"data", "cr"} => curarg \in DOMAIN argv
<1>1. state \in States \ {"start"}
    BY DEF Position, Reading, AtLetter, AtStar, AtArgc, AtDollar, AtData, AtCr, AtEnd, States
<1>2. CASE Buffers(c)
    <2>1. DOMAIN argv = 1 .. Len(argv)
        BY <1>2, LenProperties DEF Buffers
    <2>2. \A i \in DOMAIN argv : argv[i] = Raw \/ Len(argv[i].data) <= argv[i].len
        BY <1>2, <2>1 DEF Buffers
    <2>3. ASSUME state \in {"data", "cr"} PROVE curarg \in DOMAIN argv
        <3>1. AtData(c, r) \/ AtCr(c, r)
            BY <2>3 DEF Position, Reading, AtLetter, AtStar, AtArgc, AtDollar, AtEnd
        <3>2. PICK d \in Text, cs \in Seq(Text) : c = args \o Before(d, cs)
            BY <3>1 DEF AtData, AtCr
        <3> QED BY <1>2, <2>1, <3>2, CurargIs
    <2> QED BY <1>1, <2>2, <2>3
<1>3. CASE ~Buffers(c)
    <2>1. AtLetter(c, r) \/ AtStar(c, r) \/ AtEnd(c, r)
        BY <1>3 DEF Position, Reading, AtArgc, AtDollar, AtData, AtCr
    <2>2. state \notin {"data", "cr"}
        BY <2>1 DEF AtLetter, AtStar, AtEnd
    <2>3. \A i \in DOMAIN argv : argv[i] = Raw \/ Len(argv[i].data) <= argv[i].len
        BY <2>1 DEF AtLetter, AtStar, AtEnd
    <2> QED BY <1>1, <2>2, <2>3
<1> QED BY <1>2, <1>3

(***************************************************************************)
(* Where no verb is the beginning of another, as in the table of the       *)
(* source, the parser, the dispatcher and the buffer keep their types,     *)
(* whatever commands without empty words are sent: while a word is read    *)
(* its buffer is there and never holds more than its length                *)
(* (CommandParser::consume).                                               *)
(***************************************************************************)
THEOREM TypeCorrect ==
    ASSUME NoPrefix, NoEmptyWords
    PROVE  Spec => []TypeOK
<1>1. ClientInv /\ Kept => TypeOK
    <2> SUFFICES ASSUME ClientInv, Kept PROVE TypeOK
        OBVIOUS
    <2>1. PICK now \in Seq(Byte) : Here(now)
        BY DEF ClientInv, Pending
    <2>2. /\ state \in States /\ verdict \in {"ok", "end", "error"}
          /\ \A i \in DOMAIN argv : argv[i] = Raw \/ Len(argv[i].data) <= argv[i].len
          /\ state \in {"data", "cr"} => curarg \in DOMAIN argv
        <3>1. CASE state = "start" /\ verdict \in {"ok", "error"} /\ argv = <<>>
            BY <3>1 DEF States
        <3>2. CASE \E c \in TextCommand : \E r : Position(c, r)
            BY <3>2, CommandsAreTexts, PositionType, PositionIsBusy
        <3> QED BY <2>1, <3>1, <3>2 DEF Here
    <2>3. num.state \in {"start", "num", "cr"} /\ num.val \in Nat
        BY DEF ClientInv, StreamType, NumType
    <2>4. added \in 0 .. Len(Listed) /\ Len(functions) = added
        BY DEF ClientInv, DispatcherInv, Kept
    <2>5. search # NoSearch => search.lo \in 1 .. search.hi
        BY DEF ClientInv, DispatcherInv, Walking
    <2>6. inbox \in Seq(0 .. 255) /\ Len(buffer) <= BufSize
        BY DEF ClientInv, StreamType, Byte
    <2> QED BY <2>2, <2>3, <2>4, <2>5, <2>6 DEF TypeOK
<1> QED BY <1>1, KeptHolds, PTL

(***************************************************************************)
(* Under the same hypotheses, whatever the commands and their bytes, in    *)
(* either form, with noise between them and cut into reads anyhow: the     *)
(* commands run are the commands sent, in their order, each with its own   *)
(* words and by the handler its verb stands for (Client::on_data,          *)
(* CommandParser::consume, Dispatcher::run).                               *)
(***************************************************************************)
THEOREM ConnectionImplementsRequestStream ==
    ASSUME NoPrefix, NoEmptyWords
    PROVE  Spec => ImplementsRequestStream
<1>1. Init => Stream!Init
    BY DEF Init, Stream!Init
<1>2. ClientInv /\ Kept /\ [Next]_vars => [Stream!Next]_(Stream!vars)
    <2> SUFFICES ASSUME ClientInv, Kept, [Next]_vars PROVE Stream!Next \/ UNCHANGED <<asked, outcomes>>
        BY DEF Stream!vars
    <2>1. CASE Send
        <3>1. Stream!Ask
            BY <2>1 DEF Send, Stream!Ask
        <3> QED BY <3>1 DEF Stream!Next
    <2>2. CASE RunCommand
        <3>1. Len(outcomes) + 1 \in 1 .. Len(asked)
            BY <2>2, RunKeeps, EndOfCommand DEF ClientInv
        <3>2. outcomes' = Append(outcomes, OutcomeOf(asked[Len(outcomes) + 1]))
            BY <2>2, OutcomeIs
        <3>3. Len(outcomes') = Len(outcomes) + 1 /\ Len(outcomes) < Len(asked)
            <4> DEFINE o == OutcomeOf(asked[Len(outcomes) + 1])
            <4>1. outcomes' = Append(outcomes, o)
                BY <3>2
            <4> HIDE DEF o
            <4>2. Len(outcomes') = Len(outcomes) + 1
                BY <4>1, AppendProperties DEF ClientInv, StreamType
            <4> QED BY <3>1, <4>2, Counts DEF ClientInv
        <3>4. asked' = asked
            BY <2>2 DEF RunCommand
        <3>5. Stream!Run
            BY <3>2, <3>3, <3>4 DEF Stream!Run
        <3> QED BY <3>5 DEF Stream!Next
    <2>3. CASE UNCHANGED <<asked, outcomes>>
        BY <2>3
    <2> QED BY <2>1, <2>2, <2>3 DEF Next, Worker, SendNoise, Setup, Read, ConsumeByte, DropByte,
               OnCmd, Lookup, vars
<1> QED BY <1>1, <1>2, KeptHolds, PTL DEF Spec, ImplementsRequestStream, Stream!Spec

-----------------------------------------------------------------------------
(***************************************************************************)
(* The table of the source.  Its verbs differ in their first three bytes.  *)
(***************************************************************************)
Key(w) == (w[1] * 256 + w[2]) * 256 + w[3]

LEMMA KeysDecide ==
    ASSUME NEW a \in Word, NEW b \in Word, Len(a) >= 3, Len(b) >= 3, Key(a) # Key(b)
    PROVE  Less(a, b) \/ Less(b, a)
<1>1. /\ \A i \in 1 .. 3 : a[i] \in Int /\ b[i] \in Int
      /\ 1 \in 1 .. Shorter(a, b) /\ 2 \in 1 .. Shorter(a, b) /\ 3 \in 1 .. Shorter(a, b)
      /\ 1 \in 1 .. Shorter(b, a) /\ 2 \in 1 .. Shorter(b, a) /\ 3 \in 1 .. Shorter(b, a)
    BY Bytes DEF Shorter
<1>2. CASE a[1] # b[1]
    <2>1. \A j \in 1 .. 1 - 1 : a[j] = b[j] /\ b[j] = a[j]
        OBVIOUS
    <2>2. a[1] < b[1] \/ b[1] < a[1]
        BY <1>1, <1>2
    <2> QED BY <1>1, <2>1, <2>2 DEF Less
<1>3. CASE a[1] = b[1] /\ a[2] # b[2]
    <2>1. \A j \in 1 .. 2 - 1 : a[j] = b[j] /\ b[j] = a[j]
        BY <1>3
    <2>2. a[2] < b[2] \/ b[2] < a[2]
        BY <1>1, <1>3
    <2> QED BY <1>1, <2>1, <2>2 DEF Less
<1>4. CASE a[1] = b[1] /\ a[2] = b[2]
    <2>1. \A j \in 1 .. 3 - 1 : a[j] = b[j] /\ b[j] = a[j]
        BY <1>4
    <2>2. a[3] # b[3]
        BY <1>4 DEF Key
    <2>3. a[3] < b[3] \/ b[3] < a[3]
        BY <1>1, <2>2
    <2> QED BY <1>1, <2>1, <2>3 DEF Less
<1> QED BY <1>2, <1>3, <1>4

Keys == <<4670804, 5457236, 4474188, 4804163, 4474179, 5456196, 5459269, 5458259, 5460549,
          5001301, 5394517, 5000261, 5001793, 5001295, 5394511, 5914948, 5915457, 5919301,
          5919555, 5915471>>

LEMMA HandlerKeys ==
    ASSUME NEW k \in 1 .. 20
    PROVE  3 \in DOMAIN Handlers[k].verb /\ Key(Handlers[k].verb) = Keys[k]
<1>1. 3 \in DOMAIN Handlers[k].verb
    BY SMT DEF Handlers, Entry
<1>2. Key(Handlers[k].verb) = Keys[k]
    BY SMT DEF Handlers, Entry, Key, Keys
<1> QED BY <1>1, <1>2

LEMMA HandlersDiffer == Listed = Handlers => NoPrefix
<1> SUFFICES ASSUME Listed = Handlers, NEW i \in DOMAIN Listed, NEW j \in DOMAIN Listed, i # j
             PROVE  Less(Listed[i].verb, Listed[j].verb) \/ Less(Listed[j].verb, Listed[i].verb)
    BY DEF NoPrefix
<1>1. i \in 1 .. 20 /\ j \in 1 .. 20
    BY SMT DEF Handlers
<1> DEFINE a == Listed[i].verb
           b == Listed[j].verb
<1>2. a \in Word /\ b \in Word
    BY ListedTypes
<1>3. 3 \in DOMAIN a /\ 3 \in DOMAIN b /\ Key(a) = Keys[i] /\ Key(b) = Keys[j]
    BY <1>1, HandlerKeys
<1>4. Keys[i] # Keys[j]
    BY <1>1, SMT DEF Keys
<1> HIDE DEF a, b
<1>5. Len(a) >= 3 /\ Len(b) >= 3
    BY <1>2, <1>3, LenProperties DEF Word
<1>6. Less(a, b) \/ Less(b, a)
    BY <1>2, <1>3, <1>4, <1>5, KeysDecide
<1> QED BY <1>6 DEF a, b

\* SET alone is let through with fewer arguments than its handler reads.
LEMMA FewArguments ==
    ASSUME NEW k \in 1 .. 20, NEW n \in Int, n \in Handlers[k].min .. Handlers[k].max,
           n < Handlers[k].reads
    PROVE  Handlers[k].verb = <<83, 69, 84>> /\ n = 1
<1>1. k = 2 /\ n = 1
    BY SMT DEF Handlers, Entry
<1>2. Handlers[2].verb = <<83, 69, 84>>
    BY SMT DEF Handlers, Entry
<1> QED BY <1>1, <1>2

Strays(o) == o.what = "stray" => o.verb = <<83, 69, 84>> /\ Len(o.args) = 1

LEMMA OutcomesStray ==
    ASSUME Listed = Handlers, NEW c \in TextCommand
    PROVE  Strays(OutcomeOf(c))
<1> SUFFICES ASSUME OutcomeOf(c).what = "stray" PROVE OutcomeOf(c).verb = <<83, 69, 84>> /\ Len(OutcomeOf(c).args) = 1
    BY DEF Strays
<1> DEFINE k == CHOOSE i \in StandsFor(c[1]) : TRUE
           h == Listed[k]
           n == Len(c) - 1
<1>1. c \in Seq(Text) /\ c # <<>> /\ Len(c) \in Nat
    BY CommandsAreTexts, LenProperties
<1>2. StandsFor(c[1]) # {}
    BY DEF OutcomeOf
<1>3. k \in 1 .. 20
    <2>1. k \in StandsFor(c[1])
        BY <1>2
    <2>2. StandsFor(c[1]) \subseteq DOMAIN Listed
        BY DEF StandsFor
    <2>3. DOMAIN Listed = 1 .. 20
        BY SMT DEF Handlers
    <2> QED BY <2>1, <2>2, <2>3
<1>4. OutcomeOf(c) = [verb |-> h.verb, args |-> Tail(c),
                      what |-> IF n \notin h.min .. h.max THEN "arity"
                               ELSE IF n < h.reads THEN "stray" ELSE "called"]
    BY <1>2 DEF OutcomeOf
<1> HIDE DEF k, h
<1>5. n \in h.min .. h.max /\ n < h.reads /\ n \in Int
    BY <1>1, <1>4
<1>6. h.verb = <<83, 69, 84>> /\ n = 1
    <2> HIDE DEF n
    <2>1. h = Handlers[k]
        BY DEF h
    <2> QED BY <1>3, <1>5, <2>1, FewArguments
<1>7. Len(Tail(c)) = n
    BY <1>1, HeadTailProperties
<1> QED BY <1>4, <1>6, <1>7

(***************************************************************************)
(* With the table of the source and commands without empty words, the one  *)
(* whose handler reads an argument that is not there is SET with a key and *)
(* no value.                                                               *)
(***************************************************************************)
THEOREM OnlySetReadsTooFar ==
    ASSUME Listed = Handlers, NoEmptyWords
    PROVE  Spec => []OnlySetStrays
<1> DEFINE Inv == ClientInv /\ Kept /\ OnlySetStrays
<1>1. NoPrefix
    BY HandlersDiffer
<1>2. Init => Inv
    <2>1. Init => OnlySetStrays
        BY EmptySeq DEF Init, OnlySetStrays
    <2> QED BY <2>1, InitInv, KeptHoldsFirst
<1>3. Inv /\ [Next]_vars => Inv'
    <2> SUFFICES ASSUME Inv, [Next]_vars PROVE Inv'
        OBVIOUS
    <2>1. ClientInv' /\ Kept'
        BY <1>1, FullWordsKeepInv, StepKeepsKept
    <2>2. CASE RunCommand
        <3> DEFINE o == OutcomeOf(asked[Len(outcomes) + 1])
        <3>1. outcomes' = Append(outcomes, o)
            BY <1>1, <2>2, OutcomeIs
        <3>2. asked[Len(outcomes) + 1] \in TextCommand
            BY <2>2, RunKeeps, EndOfCommand DEF ClientInv
        <3>3. Strays(o)
            BY <3>2, OutcomesStray
        <3> HIDE DEF o
        <3>4. outcomes \in Seq(Ran) /\ Len(outcomes) \in Nat
            BY Counts DEF ClientInv, StreamType
        <3>5. /\ DOMAIN outcomes' = 1 .. Len(outcomes) + 1 /\ outcomes'[Len(outcomes) + 1] = o
              /\ \A i \in 1 .. Len(outcomes) : outcomes'[i] = outcomes[i]
            BY <3>1, <3>4
        <3>6. \A i \in 1 .. Len(outcomes) : Strays(outcomes[i])
            BY <3>4, LenProperties DEF OnlySetStrays, Strays
        <3>7. ASSUME NEW i \in DOMAIN outcomes' PROVE Strays(outcomes'[i])
            <4>1. CASE i = Len(outcomes) + 1
                BY <3>3, <3>5, <4>1
            <4>2. CASE i # Len(outcomes) + 1
                <5>1. i \in 1 .. Len(outcomes)
                    BY <3>4, <3>5, <4>2
                <5> QED BY <3>5, <3>6, <5>1
            <4> QED BY <4>1, <4>2
        <3>8. OnlySetStrays'
            BY <3>7 DEF OnlySetStrays, Strays
        <3> QED BY <2>1, <3>8
    <2>3. CASE UNCHANGED outcomes
        BY <2>1, <2>3 DEF OnlySetStrays
    <2> QED BY <2>2, <2>3 DEF Next, Worker, Send, SendNoise, Setup, Read, ConsumeByte, DropByte,
               OnCmd, Lookup, vars
<1> QED BY <1>2, <1>3, PTL DEF Spec

=============================================================================
