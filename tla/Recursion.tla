----------------------------- MODULE Recursion -----------------------------
(***************************************************************************)
(* Induction, for sets instead of predicates, and what follows from it:    *)
(* least and greatest members, and that functions defined by recursion     *)
(* over 0..N exist. A theorem that takes a set as its parameter can be     *)
(* cited where one that takes a predicate cannot.                          *)
(***************************************************************************)
EXTENDS Integers, Sequences, FiniteSets, TLAPS, WellFoundedInduction

\* A set of numbers that is not empty has a least member.
LEMMA LeastElement ==
    ASSUME NEW T \in SUBSET Nat, T # {}
    PROVE  \E x \in T : \A y \in T : x <= y
<1>1. \E x \in T : \A y \in T : <<y, x>> \notin OpToRel(<, Nat)
    BY WFMin, NatLessThanWellFounded
<1>2. \A x, y \in T : <<y, x>> \notin OpToRel(<, Nat) => x <= y
    BY DEF OpToRel
<1> QED
    BY <1>1, <1>2

\* A bounded one has a greatest member.
LEMMA GreatestElement ==
    ASSUME NEW n \in Nat, NEW T \in SUBSET (0..n), T # {}
    PROVE  \E x \in T : \A y \in T : y <= x
<1> DEFINE U == {n - x : x \in T}
<1>1. U \in SUBSET Nat /\ U # {}
    <2>1. \A x \in T : n - x \in Nat
        OBVIOUS
    <2>2. PICK x \in T : TRUE
        OBVIOUS
    <2>3. n - x \in U
        BY <2>2
    <2> QED BY <2>1, <2>3
<1>2. PICK u \in U : \A v \in U : u <= v
    <2> HIDE DEF U
    <2> QED BY <1>1, LeastElement
<1>3. PICK x \in T : u = n - x
    OBVIOUS
<1>4. ASSUME NEW y \in T PROVE y <= x
    <2>1. n - y \in U
        OBVIOUS
    <2>2. n - x <= n - y /\ x \in 0..n /\ y \in 0..n
        BY <1>2, <1>3, <2>1
    <2> QED BY <2>2
<1> QED
    BY <1>4

\* A set that holds 0 and with each number the next holds all of them.
LEMMA Induction ==
    ASSUME NEW P, 0 \in P, \A n \in Nat : n \in P => n + 1 \in P
    PROVE  Nat \subseteq P
<1> DEFINE T == Nat \ P
<1> SUFFICES ASSUME T # {} PROVE FALSE
    OBVIOUS
<1>1. PICK x \in T : \A y \in T : x <= y
    <2>1. T \in SUBSET Nat
        OBVIOUS
    <2> HIDE DEF T
    <2> QED BY <2>1, LeastElement
<1>2. x - 1 \in Nat /\ x - 1 \notin T
    BY <1>1
<1> QED
    BY <1>1, <1>2

\* A sequence of steps can be run from a base: the function that recursive
\* definitions over 0..N choose exists, and stays in S.
LEMMA RecursionIsDefined ==
    ASSUME NEW S, NEW base \in S, NEW N \in Nat, NEW step \in [1..N -> [S -> S]]
    PROVE  \E g \in [0..N -> S] :
               g[0] = base /\ \A p \in 1..N : g[p] = step[p][g[p - 1]]
<1> DEFINE Good(n, g) == g[0] = base /\ \A p \in 1..n : g[p] = step[p][g[p - 1]]
<1> DEFINE P == {n \in Nat : n <= N => \E g \in [0..n -> S] : Good(n, g)}
<1>1. 0 \in P
    <2>1. [p \in 0..0 |-> base] \in [0..0 -> S]
        OBVIOUS
    <2>2. Good(0, [p \in 0..0 |-> base])
        OBVIOUS
    <2> QED BY <2>1, <2>2
<1>2. ASSUME NEW n \in Nat, n \in P PROVE n + 1 \in P
    <2> SUFFICES ASSUME n + 1 <= N PROVE \E g \in [0..(n + 1) -> S] : Good(n + 1, g)
        OBVIOUS
    <2>1. PICK g \in [0..n -> S] : Good(n, g)
        BY <1>2
    <2> DEFINE h == [p \in 0..(n + 1) |-> IF p = n + 1 THEN step[n + 1][g[n]] ELSE g[p]]
    <2>2. h \in [0..(n + 1) -> S]
        <3>1. step[n + 1][g[n]] \in S
            OBVIOUS
        <3> QED BY <3>1
    <2>3. ASSUME NEW p \in 1..(n + 1) PROVE h[p] = step[p][h[p - 1]]
        <3>1. CASE p = n + 1
            BY <3>1
        <3>2. CASE p # n + 1
            <4>1. p \in 1..n /\ p - 1 \in 0..n /\ p - 1 # n + 1
                BY <3>2
            <4>2. h[p] = g[p] /\ h[p - 1] = g[p - 1]
                BY <4>1
            <4> QED BY <2>1, <4>1, <4>2
        <3> QED BY <3>1, <3>2
    <2>4. h[0] = base
        BY <2>1
    <2> QED BY <2>2, <2>3, <2>4
<1>3. N \in P
    <2> HIDE DEF P
    <2> QED BY <1>1, <1>2, Induction
<1> QED
    BY <1>3

\* A running sum of a function's values exists.
LEMMA SumIsDefined ==
    ASSUME NEW N \in Nat, NEW a, \A p \in 1..N : a[p] \in Nat
    PROVE  \E g \in [0..N -> Nat] :
               g[0] = 0 /\ \A p \in 1..N : g[p] = g[p - 1] + a[p]
<1> DEFINE base == 0
<1> DEFINE S == Nat
<1> DEFINE step == [p \in 1..N |-> [s \in S |-> s + a[p]]]
<1>1. base \in S
    OBVIOUS
<1>2. step \in [1..N -> [S -> S]]
    OBVIOUS
<1>3. \A p \in 1..N : \A s \in Nat : step[p][s] = s + a[p]
    OBVIOUS
<1>4. \A p \in 1..N : p - 1 \in 0..N
    OBVIOUS
<1>5. \E g \in [0..N -> S] :
          g[0] = base /\ \A p \in 1..N : g[p] = step[p][g[p - 1]]
    <2> HIDE DEF base, S, step
    <2> QED BY <1>1, <1>2, RecursionIsDefined
<1>6. PICK g \in [0..N -> Nat] :
          g[0] = 0 /\ \A p \in 1..N : g[p] = step[p][g[p - 1]]
    <2> HIDE DEF step
    <2> QED BY <1>5 DEF base, S
<1>7. \A p \in 1..N : g[p] = g[p - 1] + a[p]
    <2> HIDE DEF step
    <2>1. \A p \in 1..N : g[p - 1] \in Nat
        BY <1>4, <1>6
    <2> QED BY <1>3, <1>6, <2>1
<1> QED
    BY <1>6, <1>7
=============================================================================
