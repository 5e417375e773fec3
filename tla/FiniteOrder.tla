----------------------------- MODULE FiniteOrder -----------------------------
(***************************************************************************)
(* Facts about greatest elements that the proofs of the components share:  *)
(* the latest of some rows, the last occurrence of a schedule before a     *)
(* time, the next one after it.                                            *)
(***************************************************************************)
EXTENDS Integers, FiniteSets, FiniteSetTheorems, TLAPS

Total(R, S) == \A x, y \in S : <<x, y>> \in R \/ <<y, x>> \in R
Transitive(R, S) ==
    \A x, y, z \in S : <<x, y>> \in R /\ <<y, z>> \in R => <<x, z>> \in R

Greatest(m, R, S) == m \in S /\ \A x \in S : <<x, m>> \in R

\* A finite set that is not empty has a greatest element: a smallest subset
\* without one would be left with one by any of its elements.
LEMMA FiniteGreatest ==
    ASSUME NEW S, IsFiniteSet(S), S # {},
           NEW R, Total(R, S), Transitive(R, S)
    PROVE  \E m : Greatest(m, R, S)
<1> DEFINE Without == {T \in SUBSET S : T # {} /\ ~\E m : Greatest(m, R, T)}
<1>1. SUFFICES ASSUME Without # {} PROVE FALSE
    <2>1. S \in SUBSET S
        OBVIOUS
    <2> QED
        BY <2>1
<1>2. Without \subseteq FiniteSubsetsOf(S)
    BY FS_FiniteSubsetsOfFinite
<1>3. IsWellFoundedOn(StrictSubsetOrdering(S), FiniteSubsetsOf(S))
    BY FS_StrictSubsetOrderingWellFounded
<1>4. PICK T \in Without :
        \A U \in Without : ~(<<U, T>> \in StrictSubsetOrdering(S))
    BY <1>1, <1>2, <1>3, WFMin
<1>5. PICK x \in S : x \in T
    OBVIOUS
<1> DEFINE U == T \ {x}
<1>6. U \notin Without
    <2>1. <<U, T>> \in StrictSubsetOrdering(S)
        BY <1>5 DEF StrictSubsetOrdering
    <2> QED
        BY <1>4, <2>1
<1>7. <<x, x>> \in R
    BY DEF Total
<1>8. CASE U = {}
    <2>1. Greatest(x, R, T)
        BY <1>5, <1>7, <1>8 DEF Greatest
    <2> QED
        BY <2>1
<1>9. CASE U # {}
    <2>1. PICK m : Greatest(m, R, U)
        BY <1>6, <1>9
    <2>2. m \in S /\ m \in T /\ T \subseteq S
        BY <2>1 DEF Greatest
    <2>3. CASE <<x, m>> \in R
        <3>1. Greatest(m, R, T)
            BY <2>1, <2>2, <2>3 DEF Greatest
        <3> QED
            BY <3>1
    <2>4. CASE <<m, x>> \in R
        <3>1. \A y \in U : <<y, x>> \in R
            BY <2>1, <2>2, <2>4 DEF Greatest, Transitive
        <3>2. Greatest(x, R, T)
            BY <1>5, <1>7, <3>1 DEF Greatest
        <3> QED
            BY <3>2
    <2> QED
        BY <2>2, <2>3, <2>4 DEF Total
<1> QED
    BY <1>8, <1>9

-----------------------------------------------------------------------------
(* Numbers. *)

LEMMA FiniteMaximum ==
    ASSUME NEW S \in SUBSET Int, IsFiniteSet(S), S # {}
    PROVE  \E m \in S : \A x \in S : x =< m
<1> DEFINE AtMost == {p \in S \X S : p[1] =< p[2]}
<1>1. \A x, y \in S : <<x, y>> \in AtMost <=> x =< y
    OBVIOUS
<1> HIDE DEF AtMost
<1>2. Total(AtMost, S) /\ Transitive(AtMost, S)
    BY <1>1 DEF Total, Transitive
<1>3. PICK m : Greatest(m, AtMost, S)
    BY <1>2, FiniteGreatest
<1> QED
    BY <1>1, <1>3 DEF Greatest

\* The last of the numbers up to a bound.
LEMMA MaximumUpTo ==
    ASSUME NEW S \in SUBSET Int, NEW b \in Int, \E x \in S : x =< b
    PROVE  \E m \in S : m =< b /\ \A x \in S : x =< b => x =< m
<1>1. PICK a \in S : a \in Int /\ a =< b
    OBVIOUS
<1> DEFINE Between == {x \in S : a =< x /\ x =< b}
<1>2. IsFiniteSet(Between)
    <2>1. IsFiniteSet(a..b)
        BY FS_Interval
    <2>2. Between \subseteq a..b
        <3> SUFFICES ASSUME NEW x \in Between PROVE x \in a..b
            OBVIOUS
        <3>1. x \in Int /\ a =< x /\ x =< b
            OBVIOUS
        <3> HIDE DEF Between
        <3> QED
            BY <1>1, <3>1
    <2> QED
        BY <2>1, <2>2, FS_Subset
<1>3. Between \in SUBSET Int /\ Between # {}
    <2>1. a \in Between
        BY <1>1
    <2>2. Between \subseteq Int
        OBVIOUS
    <2> QED
        BY <2>1, <2>2
<1>4. PICK m \in Between : \A x \in Between : x =< m
    BY <1>2, <1>3, FiniteMaximum
<1> QED
    BY <1>1, <1>4

\* The first of the numbers beyond a bound.
LEMMA MinimumAbove ==
    ASSUME NEW S \in SUBSET Int, NEW b \in Int, \E x \in S : x > b
    PROVE  \E m \in S : m > b /\ \A x \in S : x > b => m =< x
<1> DEFINE Mirrored == {y \in Int : -y \in S}
<1>1. PICK a \in S : a > b
    OBVIOUS
<1>2. Mirrored \subseteq Int /\ -b - 1 \in Int
    OBVIOUS
<1>3. -a \in Mirrored /\ -a =< -b - 1
    BY <1>1
<1>4. PICK m \in Mirrored :
        m =< -b - 1 /\ \A x \in Mirrored : x =< -b - 1 => x =< m
    <2>1. Mirrored \in SUBSET Int
        BY <1>2
    <2>2. \E x \in Mirrored : x =< -b - 1
        BY <1>3
    <2> HIDE DEF Mirrored
    <2> QED
        BY <1>2, <2>1, <2>2, MaximumUpTo, Zenon
<1>5. -m \in S /\ -m > b
    BY <1>4
<1>6. ASSUME NEW x \in S, x > b PROVE -m =< x
    <2>1. -x \in Mirrored /\ -x =< -b - 1
        BY <1>6
    <2> QED
        BY <1>4, <2>1
<1> QED
    BY <1>5, <1>6
=============================================================================
