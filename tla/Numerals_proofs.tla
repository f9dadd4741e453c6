---------------------------- MODULE Numerals_proofs ----------------------------
(***************************************************************************)
(* Induction over the naturals, as a fact about sets of them, and what it  *)
(* shows of the recursive function that writes a number: Decimal is        *)
(* defined for every number, digit by digit.                               *)
(***************************************************************************)
EXTENDS Numerals, FiniteSetTheorems, TLAPS

\* The sets of the numbers up to n are finite, and strict inclusion between
\* finite sets is well-founded.
LEMMA LeastNat ==
    ASSUME NEW S \in SUBSET Nat, S # {}
    PROVE  \E m \in S : \A n \in S : m <= n
<1> DEFINE F == {1 .. n : n \in S}
           R == StrictSubsetOrdering(Nat)
<1>1. F \subseteq FiniteSubsetsOf(Nat) /\ F # {}
    <2>1. \A n \in S : IsFiniteSet(1 .. n) /\ 1 .. n \subseteq Nat
        BY FS_Interval
    <2> QED BY <2>1 DEF FiniteSubsetsOf
<1>2. IsWellFoundedOn(R, FiniteSubsetsOf(Nat))
    BY FS_StrictSubsetOrderingWellFounded
<1> HIDE DEF F, R
<1>3. PICK x \in F : \A y \in F : <<y, x>> \notin R
    BY <1>1, <1>2, WFMin
<1> USE DEF F, R
<1>4. PICK m \in S : x = 1 .. m
    BY <1>3
<1>5. ASSUME NEW n \in S PROVE m <= n
    <2>1. <<1 .. n, 1 .. m>> \notin StrictSubsetOrdering(Nat)
        BY <1>3, <1>4
    <2>2. 1 .. n \subseteq Nat /\ 1 .. m \subseteq Nat
        OBVIOUS
    <2>3. ~(1 .. n \subseteq 1 .. m /\ 1 .. n # 1 .. m)
        BY <2>1, <2>2 DEF StrictSubsetOrdering
    <2>4. SUFFICES ASSUME n < m PROVE FALSE
        OBVIOUS
    <2>5. 1 .. n \subseteq 1 .. m /\ m \in 1 .. m /\ m \notin 1 .. n
        BY <2>4
    <2> QED BY <2>3, <2>5
<1> QED BY <1>5

\* Induction: a set that has 0, and n + 1 with n, has every number.
LEMMA Induct ==
    ASSUME NEW S, 0 \in S, \A n \in Nat : n \in S => n + 1 \in S
    PROVE  Nat \subseteq S
<1> SUFFICES ASSUME Nat \ S # {} PROVE FALSE
    OBVIOUS
<1>1. PICK m \in Nat \ S : \A n \in Nat \ S : m <= n
    BY LeastNat
<1>2. m - 1 \in Nat /\ m - 1 \notin Nat \ S
    BY <1>1
<1> QED BY <1>1, <1>2

-----------------------------------------------------------------------------
\* The text of n from the texts of smaller numbers.
Longer(f, n) == IF n < 10 THEN <<48 + n>> ELSE Append(f[n \div 10], 48 + (n % 10))

\* f has the texts of the numbers up to m.
Texts(f, m) == DOMAIN f = 0 .. m /\ \A n \in 0 .. m : f[n] = Longer(f, n)

LEMMA Quotient ==
    ASSUME NEW n \in Nat
    PROVE  /\ n \div 10 \in Nat /\ n % 10 \in 0 .. 9
           /\ n = 10 * (n \div 10) + (n % 10)
           /\ n >= 10 => n \div 10 < n
<1>1. \A m \in Nat : m \div 10 \in Nat /\ m % 10 \in 0 .. 9
    OBVIOUS
<1>2. \A m \in Nat : m = 10 * (m \div 10) + (m % 10)
    OBVIOUS
<1>3. \A m \in Nat : m >= 10 => m \div 10 < m
    OBVIOUS
<1> QED BY <1>1, <1>2, <1>3

\* There are such functions, they agree, and so the recursion is well-founded.
LEMMA TextsExist == \A m \in Nat : \E f : Texts(f, m)
<1> DEFINE S == {m \in Nat : \E f : Texts(f, m)}
<1>1. 0 \in S
    <2> DEFINE f == [n \in 0 .. 0 |-> <<48 + n>>]
    <2>1. Texts(f, 0)
        BY DEF Texts, Longer
    <2> QED BY <2>1
<1>2. ASSUME NEW m \in Nat, m \in S PROVE m + 1 \in S
    <2>1. PICK f : Texts(f, m)
        BY <1>2
    <2> DEFINE g == [n \in 0 .. m + 1 |-> IF n = m + 1 THEN Longer(f, n) ELSE f[n]]
    <2>2. ASSUME NEW n \in 0 .. m + 1 PROVE Longer(g, n) = Longer(f, n)
        BY <2>2, Quotient DEF Longer
    <2>3. Texts(g, m + 1)
        BY <2>1, <2>2 DEF Texts
    <2> QED BY <2>3
<1> HIDE DEF S
<1>3. Nat \subseteq S
    BY <1>1, <1>2, Induct
<1> QED BY <1>3 DEF S

LEMMA TextsAgree ==
    ASSUME NEW f, NEW g, NEW m \in Nat, NEW n \in Nat, Texts(f, m), Texts(g, n)
    PROVE  \A i \in Nat : i <= m /\ i <= n => f[i] = g[i]
<1> DEFINE D == {i \in Nat : i <= m /\ i <= n /\ f[i] # g[i]}
<1> SUFFICES ASSUME D # {} PROVE FALSE
    OBVIOUS
<1>1. PICK i \in D : \A j \in D : i <= j
    BY LeastNat
<1>2. i >= 10 => i \div 10 \in Nat /\ i \div 10 < i
    BY Quotient
<1>3. i >= 10 => f[i \div 10] = g[i \div 10]
    BY <1>1, <1>2
<1>4. Longer(f, i) = Longer(g, i)
    BY <1>3 DEF Longer
<1> QED BY <1>4 DEF Texts

LEMMA DecimalIs == \A n \in Nat : Decimal[n] = Longer(Decimal, n)
<1> DEFINE T(m) == CHOOSE f : Texts(f, m)
           g == [n \in Nat |-> T(n)[n]]
<1>1. \A m \in Nat : Texts(T(m), m)
    BY TextsExist
<1> HIDE DEF T
<1>2. ASSUME NEW n \in Nat PROVE g[n] = Longer(g, n)
    <2>1. T(n)[n] = Longer(T(n), n)
        BY <1>1 DEF Texts
    <2>2. n >= 10 => T(n)[n \div 10] = g[n \div 10]
        BY <1>1, Quotient, TextsAgree
    <2> QED BY <2>1, <2>2 DEF Longer
<1> HIDE DEF g
<1>3. g = [n \in Nat |-> IF n < 10 THEN <<48 + n>> ELSE Append(g[n \div 10], 48 + (n % 10))]
    BY <1>2 DEF Longer, g
<1>4. Decimal = [n \in Nat |-> IF n < 10 THEN <<48 + n>>
                                ELSE Append(Decimal[n \div 10], 48 + (n % 10))]
    BY <1>3 DEF Decimal
<1> QED BY <1>4 DEF Longer

-----------------------------------------------------------------------------
\* Up to m, a number has at most l digits.
FewDigits(m, l) ==
    \A n \in 0 .. m : Decimal[n] \in Seq(Digit) /\ Len(Decimal[n]) \in 1 .. l

LEMMA LongerTexts ==
    ASSUME NEW m \in Nat, NEW l \in Nat \ {0}, FewDigits(m, l)
    PROVE  FewDigits(10 * m + 9, l + 1)
<1> SUFFICES ASSUME NEW n \in 0 .. (10 * m + 9)
             PROVE  Decimal[n] \in Seq(Digit) /\ Len(Decimal[n]) \in 1 .. (l + 1)
    BY DEF FewDigits
<1>1. Decimal[n] = Longer(Decimal, n)
    BY DecimalIs
<1>2. CASE n < 10
    <2>1. Decimal[n] = <<48 + n>> /\ 48 + n \in Digit
        BY <1>1, <1>2 DEF Longer, Digit
    <2> QED BY <2>1
<1>3. CASE n >= 10
    <2>1. n \div 10 \in 0 .. m
        BY Quotient
    <2>2. 48 + (n % 10) \in Digit
        BY Quotient DEF Digit
    <2>3. Decimal[n] = Append(Decimal[n \div 10], 48 + (n % 10))
        BY <1>1, <1>3 DEF Longer
    <2> QED BY <2>1, <2>2, <2>3 DEF FewDigits
<1> QED BY <1>2, <1>3

\* A number up to 999999 has at most six digits.
LEMMA SixDigits == FewDigits(999999, 6)
<1>1. FewDigits(9, 1)
    <2> SUFFICES ASSUME NEW n \in 0 .. 9
                 PROVE  Decimal[n] \in Seq(Digit) /\ Len(Decimal[n]) \in 1 .. 1
        BY DEF FewDigits
    <2>1. Decimal[n] = Longer(Decimal, n)
        BY DecimalIs
    <2>2. Decimal[n] = <<48 + n>> /\ 48 + n \in Digit
        BY <2>1 DEF Longer, Digit
    <2> QED BY <2>2
<1>2. FewDigits(99, 2)
    BY <1>1, LongerTexts
<1>3. FewDigits(999, 3)
    BY <1>2, LongerTexts
<1>4. FewDigits(9999, 4)
    BY <1>3, LongerTexts
<1>5. FewDigits(99999, 5)
    BY <1>4, LongerTexts
<1> QED BY <1>5, LongerTexts

-----------------------------------------------------------------------------
\* The functions that take F's steps from x, as far as m.
Steps(V, x, F, m) ==
    {g \in [0 .. m -> V] : g[0] = x /\ \A n \in 0 .. m - 1 : g[n + 1] = F[n][g[n]]}

\* f takes F's steps from x for ever.
Goes(f, V, x, F) ==
    f \in [Nat -> V] /\ f[0] = x /\ \A n \in Nat : f[n + 1] = F[n][f[n]]

\* Definition by recursion: a value for 0, and one for n + 1 from that for n.
LEMMA Recursion ==
    ASSUME NEW V, NEW x \in V, NEW F \in [Nat -> [V -> V]]
    PROVE  \E f : Goes(f, V, x, F)
<1> DEFINE S(m) == Steps(V, x, F, m)
<1>1. \A m \in Nat : S(m) # {}
    <2> DEFINE M == {m \in Nat : S(m) # {}}
    <2>1. 0 \in M
        <3>1. [n \in 0 .. 0 |-> x] \in S(0)
            BY DEF Steps
        <3> QED BY <3>1
    <2>2. ASSUME NEW m \in Nat, m \in M PROVE m + 1 \in M
        <3>1. PICK g \in S(m) : TRUE
            BY <2>2
        <3> DEFINE h == [n \in 0 .. m + 1 |-> IF n <= m THEN g[n] ELSE F[m][g[m]]]
        <3>2. g \in [0 .. m -> V] /\ g[m] \in V /\ F[m][g[m]] \in V
            BY <3>1 DEF Steps
        <3>3. h \in [0 .. m + 1 -> V] /\ h[0] = x
            BY <3>1, <3>2 DEF Steps
        <3>4. ASSUME NEW n \in 0 .. m PROVE h[n + 1] = F[n][h[n]]
            BY <3>1 DEF Steps
        <3> HIDE DEF h
        <3>5. h \in S(m + 1)
            BY <3>3, <3>4 DEF Steps
        <3> QED BY <3>5
    <2> HIDE DEF M
    <2>3. Nat \subseteq M
        BY <2>1, <2>2, Induct
    <2> QED BY <2>3 DEF M
<1>2. ASSUME NEW m \in Nat, NEW g \in S(m), NEW h \in S(m + 1), NEW k \in 0 .. m
      PROVE  g[k] = h[k]
    <2> DEFINE M == {n \in Nat : n <= m => g[n] = h[n]}
    <2>1. 0 \in M
        BY DEF Steps
    <2>2. ASSUME NEW n \in Nat, n \in M PROVE n + 1 \in M
        BY <2>2 DEF Steps
    <2> HIDE DEF M
    <2>3. Nat \subseteq M
        BY <2>1, <2>2, Induct
    <2> QED BY <2>3 DEF M
<1> DEFINE G(m) == CHOOSE g \in S(m) : TRUE
           f == [m \in Nat |-> G(m)[m]]
<1>3. \A m \in Nat : G(m) \in S(m)
    BY <1>1
<1> HIDE DEF G
<1>4. \A m \in Nat : G(m) \in [0 .. m -> V] /\ G(m)[0] = x
    BY <1>3 DEF Steps
<1>5. f \in [Nat -> V] /\ f[0] = x
    BY <1>4
<1>6. ASSUME NEW n \in Nat PROVE f[n + 1] = F[n][f[n]]
    <2>1. G(n + 1)[n + 1] = F[n][G(n + 1)[n]]
        BY <1>3 DEF Steps
    <2>2. G(n)[n] = G(n + 1)[n]
        BY <1>2, <1>3
    <2> QED BY <2>1, <2>2
<1> HIDE DEF f
<1>7. Goes(f, V, x, F)
    BY <1>5, <1>6 DEF Goes
<1> QED BY <1>7
=============================================================================
