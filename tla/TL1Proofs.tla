----------------------------- MODULE TL1Proofs -----------------------------
(***************************************************************************)
(* Proofs about TL1: that requests are parsed as they were meant, that     *)
(* commands are read whole, and what may be answered to them.              *)
(*                                                                         *)
(* The argument has three parts. A request is a row of fields with colons  *)
(* between them, so what parseTL1 finds by counting colons follows field   *)
(* by field from Then. readTL1 knows whether it is inside a quoted string  *)
(* from the bytes in its buffer alone, also after some were erased, so it  *)
(* ends a command exactly at the byte that ends the request. With both, a  *)
(* dispatcher sees the verb, TID, tag, name and password that were meant,  *)
(* and each of its returns can be compared with the request.               *)
(***************************************************************************)
EXTENDS TL1, Recursion, SequenceTheorems, FiniteSetTheorems

\* Fields without a colon.
Plain == {f \in Seq(Printable) : \A i \in DOMAIN f : f[i] # ":"}

\* As many positions, moved to the right.
LEMMA ShiftKeepsCardinality ==
    ASSUME NEW S \in SUBSET Nat, IsFiniteSet(S), NEW k \in Nat
    PROVE  /\ IsFiniteSet({i + k : i \in S})
           /\ Cardinality({i + k : i \in S}) = Cardinality(S)
<1> DEFINE T == {i + k : i \in S}
           f == [i \in S |-> i + k]
<1>1. f \in Bijection(S, T)
    BY DEF Bijection, Injection, Surjection, IsInjective
<1>2. ExistsBijection(S, T)
    BY <1>1 DEF ExistsBijection
<1> HIDE DEF T
<1>3. IsFiniteSet(T) /\ Cardinality(T) = Cardinality(S)
    BY <1>2, FS_Bijection
<1> QED
    BY <1>3 DEF T

-----------------------------------------------------------------------------
(* Colons.                                                                 *)

\* The members of S up to i.
UpTo(S, i) == {j \in S : j <= i}

\* How many colons of raw there are up to i.
Rank(raw, i) == Cardinality(UpTo(Colons(raw), i))

\* The colons of a command are finitely many positions in it.
LEMMA ColonsAreFinite ==
    ASSUME NEW raw \in Seq(Printable)
    PROVE  /\ Colons(raw) \subseteq 1..Len(raw)
           /\ IsFiniteSet(Colons(raw)) /\ Cardinality(Colons(raw)) \in Nat
           /\ \A i : IsFiniteSet(UpTo(Colons(raw), i)) /\ Rank(raw, i) \in Nat
<1>1. Colons(raw) \subseteq 1..Len(raw)
    BY DEF Colons
<1>2. IsFiniteSet(1..Len(raw))
    BY FS_Interval
<1>3. IsFiniteSet(Colons(raw))
    BY <1>1, <1>2, FS_Subset
<1>4. \A i : UpTo(Colons(raw), i) \subseteq Colons(raw)
    BY DEF UpTo
<1>5. \A i : IsFiniteSet(UpTo(Colons(raw), i))
    BY <1>3, <1>4, FS_Subset
<1> QED
    BY <1>1, <1>3, <1>5, FS_CardinalityType DEF Rank

\* The rank of a colon is one more than that of any position since the one before.
LEMMA NextColon ==
    ASSUME NEW raw \in Seq(Printable), NEW i \in Nat, NEW k \in Colons(raw), i < k,
           \A j \in Colons(raw) : j <= i \/ k <= j
    PROVE  Rank(raw, k) = Rank(raw, i) + 1
<1>1. UpTo(Colons(raw), k) = UpTo(Colons(raw), i) \union {k}
    BY ColonsAreFinite DEF UpTo
<1>2. k \notin UpTo(Colons(raw), i)
    BY ColonsAreFinite DEF UpTo
<1> QED
    BY <1>1, <1>2, ColonsAreFinite, FS_AddElement DEF Rank

\* From 0 to the number of colons, no rank is skipped.
LEMMA EveryRankIsTaken ==
    ASSUME NEW raw \in Seq(Printable), NEW n \in Nat, n <= Cardinality(Colons(raw))
    PROVE  \E i \in Colons(raw) \union {0} : Rank(raw, i) = n
<1> DEFINE C == Colons(raw)
           P == {m \in Nat : m <= Cardinality(C) => \E i \in C \union {0} : Rank(raw, i) = m}
<1>1. 0 \in P
    <2>1. UpTo(C, 0) = {}
        BY ColonsAreFinite DEF UpTo
    <2> QED BY <2>1, FS_EmptySet DEF Rank
<1>2. ASSUME NEW m \in Nat, m \in P PROVE m + 1 \in P
    <2> SUFFICES ASSUME m + 1 <= Cardinality(C) PROVE \E i \in C \union {0} : Rank(raw, i) = m + 1
        OBVIOUS
    <2>1. PICK i \in C \union {0} : Rank(raw, i) = m
        BY <1>2, ColonsAreFinite
    <2> DEFINE later == {j \in C : i < j}
    <2>2. later # {}
        <3> SUFFICES ASSUME later = {} PROVE FALSE
            OBVIOUS
        <3>1. UpTo(C, i) = C
            BY ColonsAreFinite DEF UpTo
        <3> QED BY <2>1, <3>1, ColonsAreFinite DEF Rank
    <2>3. later \in SUBSET Nat /\ i \in Nat
        BY ColonsAreFinite
    <2>4. PICK k \in later : \A j \in later : k <= j
        <3> HIDE DEF later
        <3> QED BY <2>2, <2>3, LeastElement
    <2>5. \A j \in C : j <= i \/ k <= j
        BY <2>3, <2>4, ColonsAreFinite
    <2> QED BY <2>1, <2>3, <2>5, NextColon
<1>3. n \in P
    <2> HIDE DEF P
    <2> QED BY <1>1, <1>2, Induction
<1> QED
    BY <1>3

\* A later colon has a greater rank.
LEMMA RanksGrow ==
    ASSUME NEW raw \in Seq(Printable), NEW i \in Nat, NEW k \in Colons(raw), i < k
    PROVE  Rank(raw, i) < Rank(raw, k)
<1>1. UpTo(Colons(raw), i) \union {k} \subseteq UpTo(Colons(raw), k)
    BY ColonsAreFinite DEF UpTo
<1>2. k \notin UpTo(Colons(raw), i)
    BY ColonsAreFinite DEF UpTo
<1>3. Cardinality(UpTo(Colons(raw), i) \union {k}) = Rank(raw, i) + 1
    BY <1>2, ColonsAreFinite, FS_AddElement DEF Rank
<1>4. Cardinality(UpTo(Colons(raw), i) \union {k}) <= Rank(raw, k)
    BY <1>1, ColonsAreFinite, FS_Subset DEF Rank
<1> QED
    BY <1>3, <1>4, ColonsAreFinite

\* ColonAt finds the colon of rank n, and there is only one.
LEMMA NthColon ==
    ASSUME NEW raw \in Seq(Printable), NEW n \in Nat \ {0}, n <= Cardinality(Colons(raw))
    PROVE  /\ ColonAt(raw, n) \in Colons(raw)
           /\ Rank(raw, ColonAt(raw, n)) = n
           /\ \A i \in Colons(raw) : Rank(raw, i) = n => i = ColonAt(raw, n)
<1>1. ColonAt(raw, n) = CHOOSE i \in Colons(raw) : Cardinality({j \in Colons(raw) : j <= i}) = n
    <2>1. n # 0 /\ ~(n > Cardinality(Colons(raw)))
        BY ColonsAreFinite
    <2> QED BY <2>1 DEF ColonAt
<1>5. \A i : Rank(raw, i) = Cardinality({j \in Colons(raw) : j <= i})
    BY DEF Rank, UpTo
<1>2. Rank(raw, 0) = 0
    <2>1. UpTo(Colons(raw), 0) = {}
        BY ColonsAreFinite DEF UpTo
    <2> QED BY <2>1, FS_EmptySet DEF Rank
<1>3. \E i \in Colons(raw) : Rank(raw, i) = n
    BY <1>2, EveryRankIsTaken
<1>4. \A i, k \in Colons(raw) : Rank(raw, i) = Rank(raw, k) => i = k
    <2>1. \A i, k \in Colons(raw) : i < k => Rank(raw, i) < Rank(raw, k)
        BY RanksGrow, ColonsAreFinite
    <2> QED BY <2>1, ColonsAreFinite
<1>6. /\ ColonAt(raw, n) \in Colons(raw)
      /\ Cardinality({j \in Colons(raw) : j <= ColonAt(raw, n)}) = n
    BY <1>1, <1>3, <1>5
<1> QED
    BY <1>4, <1>5, <1>6

\* A plain field before rest adds one colon and moves those of rest.
LEMMA ColonsOfThen ==
    ASSUME NEW f \in Seq(Printable), \A i \in DOMAIN f : f[i] # ":",
           NEW rest \in Seq(Printable)
    PROVE  /\ Then(f, rest) \in Seq(Printable)
           /\ Len(Then(f, rest)) = Len(f) + 1 + Len(rest)
           /\ \A i \in 1..Len(f) : Then(f, rest)[i] = f[i]
           /\ \A i \in 1..Len(rest) : Then(f, rest)[Len(f) + 1 + i] = rest[i]
           /\ Colons(Then(f, rest)) =
                  {Len(f) + 1} \union {i + (Len(f) + 1) : i \in Colons(rest)}
<1> DEFINE raw == Then(f, rest)
           L == Len(f) + 1
<1>1. <<":">> \in Seq(Printable) /\ Len(<<":">>) = 1 /\ <<":">>[1] = ":"
    <2>1. ":" \in Printable
        BY DEF Printable
    <2> QED BY <2>1
<1>2. f \o <<":">> \in Seq(Printable) /\ Len(f \o <<":">>) = L
    BY <1>1
<1>3. raw \in Seq(Printable) /\ Len(raw) = L + Len(rest)
    BY <1>2 DEF Then
<1>4. \A i \in 1..Len(f) : raw[i] = f[i]
    BY <1>1, <1>2 DEF Then
<1>5. raw[L] = ":"
    BY <1>1, <1>2 DEF Then
<1>6. \A i \in 1..Len(rest) : raw[L + i] = rest[i]
    BY <1>2 DEF Then
<1>7. \A i \in Colons(raw) : i = L \/ \E j \in Colons(rest) : i = j + L
    <2> SUFFICES ASSUME NEW i \in Colons(raw), i # L PROVE \E j \in Colons(rest) : i = j + L
        OBVIOUS
    <2>1. i \in 1..(L + Len(rest)) /\ raw[i] = ":"
        BY <1>3 DEF Colons
    <2>2. i > L
        BY <1>4, <2>1
    <2>3. i - L \in 1..Len(rest) /\ i = L + (i - L) /\ i = (i - L) + L
        BY <2>1, <2>2
    <2>4. rest[i - L] = ":"
        BY <1>6, <2>1, <2>3
    <2>5. i - L \in Colons(rest)
        BY <2>3, <2>4 DEF Colons
    <2> QED BY <2>3, <2>5
<1>8. L \in Colons(raw)
    BY <1>3, <1>5 DEF Colons
<1>9. \A j \in Colons(rest) : j + L \in Colons(raw)
    <2> SUFFICES ASSUME NEW j \in 1..Len(rest), rest[j] = ":" PROVE j + L \in Colons(raw)
        BY DEF Colons
    <2>1. j + L \in 1..Len(raw) /\ j + L = L + j
        BY <1>3
    <2> QED BY <1>3, <1>6, <2>1 DEF Colons
<1> HIDE DEF raw
<1>10. Colons(raw) = {L} \union {i + L : i \in Colons(rest)}
    BY <1>7, <1>8, <1>9
<1> QED
    BY <1>3, <1>4, <1>6, <1>10 DEF raw

\* The colon n of rest is the colon n + 1 of field:rest.
LEMMA ColonAtOfThen ==
    ASSUME NEW f \in Seq(Printable), \A i \in DOMAIN f : f[i] # ":",
           NEW rest \in Seq(Printable), NEW n \in Nat
    PROVE  /\ Cardinality(Colons(Then(f, rest))) = Cardinality(Colons(rest)) + 1
           /\ ColonAt(Then(f, rest), n + 1) = Len(f) + 1 + ColonAt(rest, n)
           /\ ColonAt(rest, n) \in 0..(Len(rest) + 1)
<1> DEFINE raw == Then(f, rest)
           L == Len(f) + 1
           C == Colons(raw)
           D == Colons(rest)
           Moved(S) == {i + L : i \in S}
<1>1. raw \in Seq(Printable) /\ Len(raw) = L + Len(rest)
    BY ColonsOfThen
<1>2. C = {L} \union Moved(D)
    BY ColonsOfThen
<1>3. D \subseteq 1..Len(rest) /\ IsFiniteSet(D) /\ Cardinality(D) \in Nat
    BY ColonsAreFinite
<1>4. \A S \in SUBSET D : /\ IsFiniteSet(Moved(S) \union {L})
                         /\ Cardinality(Moved(S) \union {L}) = Cardinality(S) + 1
    <2> SUFFICES ASSUME NEW S \in SUBSET D
                 PROVE  /\ IsFiniteSet(Moved(S) \union {L})
                        /\ Cardinality(Moved(S) \union {L}) = Cardinality(S) + 1
        OBVIOUS
    <2>1. IsFiniteSet(S) /\ S \in SUBSET Nat /\ L \in Nat
        BY <1>3, FS_Subset
    <2>2. IsFiniteSet(Moved(S)) /\ Cardinality(Moved(S)) = Cardinality(S)
        BY <2>1, ShiftKeepsCardinality
    <2>3. L \notin Moved(S)
        BY <1>3
    <2> HIDE DEF Moved
    <2> QED BY <2>2, <2>3, FS_AddElement
<1>5. Cardinality(C) = Cardinality(D) + 1
    <2>1. C = Moved(D) \union {L}
        BY <1>2
    <2> HIDE DEF C, D, Moved
    <2> QED BY <1>4, <2>1
<1>6. \A i \in Nat : Rank(raw, L + i) = Rank(rest, i) + 1
    <2> SUFFICES ASSUME NEW i \in Nat PROVE Rank(raw, L + i) = Rank(rest, i) + 1
        OBVIOUS
    <2>1. UpTo(C, L + i) = Moved(UpTo(D, i)) \union {L}
        BY <1>2, <1>3 DEF UpTo
    <2>2. UpTo(D, i) \in SUBSET D
        BY DEF UpTo
    <2> QED BY <1>4, <2>1, <2>2 DEF Rank
<1>7. CASE n = 0
    <2>1. ColonAt(rest, 0) = 0
        BY DEF ColonAt
    <2>2. Rank(rest, 0) = 0
        <3>1. UpTo(D, 0) = {}
            BY <1>3 DEF UpTo
        <3> QED BY <3>1, FS_EmptySet DEF Rank
    <2>3. Rank(raw, L + 0) = 1
        BY <1>6, <2>2
    <2>4. L \in C /\ Rank(raw, L) = 1
        BY <1>2, <2>3
    <2>5. L = ColonAt(raw, 1)
        BY <1>1, <1>3, <1>5, <2>4, NthColon
    <2> QED BY <1>5, <1>7, <2>1, <2>5
<1>8. CASE n # 0 /\ n > Cardinality(D)
    <2>1. ColonAt(rest, n) = Len(rest) + 1
        BY <1>8 DEF ColonAt
    <2>2. n + 1 # 0 /\ n + 1 > Cardinality(C)
        BY <1>3, <1>5, <1>8
    <2>3. ColonAt(raw, n + 1) = Len(raw) + 1
        BY <2>2 DEF ColonAt
    <2> QED BY <1>1, <1>5, <2>1, <2>3
<1>9. CASE n # 0 /\ n <= Cardinality(D)
    <2>1. ColonAt(rest, n) \in D /\ Rank(rest, ColonAt(rest, n)) = n
        BY <1>9, NthColon
    <2>2. L + ColonAt(rest, n) \in C
        BY <1>2, <1>3, <2>1
    <2>3. Rank(raw, L + ColonAt(rest, n)) = n + 1
        <3>1. ColonAt(rest, n) \in Nat
            BY <1>3, <2>1
        <3> HIDE DEF L, raw
        <3> QED BY <1>6, <2>1, <3>1
    <2>4. L + ColonAt(rest, n) = ColonAt(raw, n + 1)
        BY <1>1, <1>3, <1>5, <1>9, <2>2, <2>3, NthColon
    <2> QED BY <1>3, <1>5, <2>1, <2>4
<1> QED
    BY <1>3, <1>7, <1>8, <1>9

\* Field 0 of field:rest is the field, and the others are those of rest.
LEMMA FieldsOfThen ==
    ASSUME NEW f \in Seq(Printable), \A i \in DOMAIN f : f[i] # ":",
           NEW rest \in Seq(Printable)
    PROVE  /\ Field(Then(f, rest), 0) = f
           /\ \A n \in Nat \ {0} : /\ Field(Then(f, rest), n) = Field(rest, n - 1)
                                   /\ Fields(Then(f, rest), n) = Fields(rest, n - 1)
<1> DEFINE raw == Then(f, rest)
           L == Len(f) + 1
<1>1. /\ raw \in Seq(Printable) /\ Len(raw) = L + Len(rest)
      /\ \A i \in 1..Len(f) : raw[i] = f[i]
      /\ \A i \in 1..Len(rest) : raw[L + i] = rest[i]
    BY ColonsOfThen
<1>2. Field(raw, 0) = f
    <2>1. ColonAt(raw, 0) = 0 /\ ColonAt(rest, 0) = 0
        BY DEF ColonAt
    <2>2. ColonAt(raw, 0 + 1) = L
        BY <2>1, ColonAtOfThen
    <2>3. Field(raw, 0) = SubSeq(raw, 1, Len(f))
        BY <2>1, <2>2 DEF Field
    <2> HIDE DEF raw
    <2> QED BY <1>1, <2>3
<1>3. ASSUME NEW a \in 1..(Len(rest) + 2), NEW b \in 0..Len(rest)
      PROVE  SubSeq(raw, L + a, L + b) = SubSeq(rest, a, b)
    <2> HIDE DEF raw
    <2> DEFINE x == SubSeq(raw, L + a, L + b)
               y == SubSeq(rest, a, b)
    <2>1. CASE a > b
        BY <1>1, <2>1
    <2>2. CASE a <= b
        <3>1. x \in Seq(Printable) /\ Len(x) = b - a + 1
            BY <1>1, <2>2
        <3>2. y \in Seq(Printable) /\ Len(y) = b - a + 1
            BY <1>1, <2>2
        <3>3. ASSUME NEW i \in 1..(b - a + 1) PROVE x[i] = y[i]
            <4>1. a + i - 1 \in 1..Len(rest) /\ L + a + i - 1 = L + (a + i - 1)
                BY <2>2
            <4>2. x[i] = raw[L + a + i - 1]
                BY <1>1, <2>2
            <4>3. y[i] = rest[a + i - 1]
                BY <2>2
            <4> QED BY <1>1, <4>1, <4>2, <4>3
        <3> HIDE DEF x, y
        <3>4. Len(x) = Len(y) /\ \A i \in 1..Len(x) : x[i] = y[i]
            BY <3>1, <3>2, <3>3
        <3>5. x = y
            BY <3>1, <3>2, <3>4, SeqEqual
        <3> QED BY <3>5 DEF x, y
    <2> QED BY <2>1, <2>2
<1>4. ASSUME NEW n \in Nat
      PROVE  /\ Field(raw, n + 1) = Field(rest, n)
             /\ Fields(raw, n + 1) = Fields(rest, n)
    <2>1. ColonAt(raw, n + 1) = L + ColonAt(rest, n) /\ ColonAt(rest, n) \in 0..(Len(rest) + 1)
        BY ColonAtOfThen
    <2>7. /\ ColonAt(raw, n + 1 + 1) = L + ColonAt(rest, n + 1)
          /\ ColonAt(rest, n + 1) \in 0..(Len(rest) + 1)
        <3>1. n + 1 \in Nat
            OBVIOUS
        <3> QED BY <3>1, ColonAtOfThen
    <2>2. ColonAt(rest, n + 1) > 0
        <3>1. CASE n + 1 > Cardinality(Colons(rest))
            BY <3>1 DEF ColonAt
        <3>2. CASE n + 1 <= Cardinality(Colons(rest))
            BY <3>2, NthColon, ColonsAreFinite
        <3> QED BY <3>1, <3>2, ColonsAreFinite
    <2>3. /\ ColonAt(rest, n) + 1 \in 1..(Len(rest) + 2)
          /\ ColonAt(rest, n + 1) - 1 \in 0..Len(rest)
          /\ Len(rest) \in 0..Len(rest)
        <3>1. Len(rest) \in Nat
            OBVIOUS
        <3>2. ColonAt(rest, n) \in 0..(Len(rest) + 1)
            BY <2>1
        <3>3. ColonAt(rest, n + 1) \in 1..(Len(rest) + 1)
            BY <2>2, <2>7, <3>1
        <3> QED BY <3>1, <3>2, <3>3
    <2>4. /\ ColonAt(raw, n + 1) + 1 = L + (ColonAt(rest, n) + 1)
          /\ ColonAt(raw, n + 1 + 1) - 1 = L + (ColonAt(rest, n + 1) - 1)
        <3>1. L \in Nat
            OBVIOUS
        <3> HIDE DEF raw, L
        <3>2. \A c \in Nat : /\ (L + c) + 1 = L + (c + 1)
                             /\ (L + c) - 1 = L + (c - 1)
            BY <3>1
        <3>3. ColonAt(rest, n) \in Nat /\ ColonAt(rest, n + 1) \in Nat
            BY <2>1, <2>7
        <3>4. ColonAt(raw, n + 1) + 1 = L + (ColonAt(rest, n) + 1)
            BY <2>1, <3>2, <3>3
        <3>5. ColonAt(raw, n + 1 + 1) - 1 = L + (ColonAt(rest, n + 1) - 1)
            BY <2>7, <3>2, <3>3
        <3> QED BY <3>4, <3>5
    <2> HIDE DEF raw, L
    <2>5. Field(raw, n + 1) =
              SubSeq(raw, L + (ColonAt(rest, n) + 1), L + (ColonAt(rest, n + 1) - 1))
        BY <2>4 DEF Field
    <2>6. Fields(raw, n + 1) = SubSeq(raw, L + (ColonAt(rest, n) + 1), L + Len(rest))
        BY <1>1, <2>4 DEF Fields
    <2>8. Field(raw, n + 1) = SubSeq(rest, ColonAt(rest, n) + 1, ColonAt(rest, n + 1) - 1)
        BY <1>3, <2>3, <2>5
    <2>9. Fields(raw, n + 1) = SubSeq(rest, ColonAt(rest, n) + 1, Len(rest))
        BY <1>3, <2>3, <2>6
    <2> QED BY <2>8, <2>9 DEF Field, Fields
<1> HIDE DEF raw
<1>5. ASSUME NEW n \in Nat \ {0}
      PROVE  Field(raw, n) = Field(rest, n - 1) /\ Fields(raw, n) = Fields(rest, n - 1)
    <2>1. n - 1 \in Nat /\ (n - 1) + 1 = n
        OBVIOUS
    <2>2. /\ Field(raw, (n - 1) + 1) = Field(rest, n - 1)
          /\ Fields(raw, (n - 1) + 1) = Fields(rest, n - 1)
        BY <1>4, <2>1
    <2> QED BY <2>1, <2>2
<1> QED
    BY <1>2, <1>5 DEF raw

\* The same for the fields that parseTL1 and the login look at.
LEMMA FirstFields ==
    ASSUME NEW f \in Plain, NEW rest \in Seq(Printable)
    PROVE  /\ Then(f, rest) \in Seq(Printable)
           /\ Field(Then(f, rest), 0) = f
           /\ Field(Then(f, rest), 1) = Field(rest, 0)
           /\ Field(Then(f, rest), 2) = Field(rest, 1)
           /\ Field(Then(f, rest), 3) = Field(rest, 2)
           /\ Fields(Then(f, rest), 1) = Fields(rest, 0)
           /\ Fields(Then(f, rest), 2) = Fields(rest, 1)
           /\ Fields(Then(f, rest), 3) = Fields(rest, 2)
           /\ Fields(Then(f, rest), 4) = Fields(rest, 3)
           /\ Fields(Then(f, rest), 5) = Fields(rest, 4)
<1> DEFINE raw == Then(f, rest)
<1>0. f \in Seq(Printable) /\ \A i \in DOMAIN f : f[i] # ":"
    BY DEF Plain
<1>1. raw \in Seq(Printable)
    BY <1>0, ColonsOfThen
<1>3. \A n \in Nat \ {0} : /\ Field(raw, n) = Field(rest, n - 1)
                          /\ Fields(raw, n) = Fields(rest, n - 1)
    BY <1>0, FieldsOfThen
<1>4. Field(raw, 0) = f
    BY <1>0, FieldsOfThen
<1> HIDE DEF raw
<1>5. \A n \in 1..5 : Field(raw, n) = Field(rest, n - 1) /\ Fields(raw, n) = Fields(rest, n - 1)
    BY <1>3
<1>6. Field(raw, 1) = Field(rest, 1 - 1) /\ Fields(raw, 1) = Fields(rest, 1 - 1)
    BY <1>5
<1>7. Field(raw, 2) = Field(rest, 2 - 1) /\ Fields(raw, 2) = Fields(rest, 2 - 1)
    BY <1>5
<1>8. Field(raw, 3) = Field(rest, 3 - 1) /\ Fields(raw, 3) = Fields(rest, 3 - 1)
    BY <1>5
<1>9. Fields(raw, 4) = Fields(rest, 4 - 1) /\ Fields(raw, 5) = Fields(rest, 5 - 1)
    BY <1>5
<1> QED
    BY <1>1, <1>4, <1>6, <1>7, <1>8, <1>9 DEF raw

\* The number of colons of field:rest.
LEMMA OneMoreColon ==
    ASSUME NEW f \in Plain, NEW rest \in Seq(Printable)
    PROVE  /\ Cardinality(Colons(rest)) \in Nat
           /\ Cardinality(Colons(Then(f, rest))) = Cardinality(Colons(rest)) + 1
<1>1. f \in Seq(Printable) /\ \A i \in DOMAIN f : f[i] # ":"
    BY DEF Plain
<1>2. 0 \in Nat
    OBVIOUS
<1> QED
    BY <1>1, <1>2, ColonAtOfThen, ColonsAreFinite

\* What has no colon is its own first field, and has no second one.
LEMMA LastField ==
    ASSUME NEW f \in Seq(Printable)
    PROVE  /\ Fields(f, 0) = f
           /\ f \in Plain => Cardinality(Colons(f)) = 0 /\ Field(f, 0) = f
<1>1. ColonAt(f, 0) = 0
    BY DEF ColonAt
<1>2. Fields(f, 0) = f
    BY <1>1 DEF Fields
<1>3. ASSUME f \in Plain
      PROVE  Cardinality(Colons(f)) = 0 /\ Field(f, 0) = f
    <2>1. Colons(f) = {}
        BY <1>3 DEF Colons, Plain
    <2>2. Cardinality(Colons(f)) = 0
        BY <2>1, FS_EmptySet
    <2>3. ColonAt(f, 1) = Len(f) + 1
        BY <2>2 DEF ColonAt
    <2>4. Field(f, 0) = SubSeq(f, 0 + 1, Len(f) + 1 - 1)
        BY <1>1, <2>3 DEF Field
    <2> QED BY <2>2, <2>4
<1> QED
    BY <1>2, <1>3

-----------------------------------------------------------------------------
(* Requests.                                                               *)

\* What TL1Assumption says of a request, part by part.
LEMMA RequestTypes ==
    ASSUME NEW r \in Requests
    PROVE  /\ r.form \in {"login", "strict", "short", "empty"}
           /\ r.verb \in Words /\ Upper[r.verb] \in Words
           /\ (Upper[r.verb] = "ACT-USER") <=> (r.form = "login")
           /\ r.tid \in Seq(Words) /\ r.aid \in Seq(Words) /\ r.ctag \in Seq(Words)
           /\ r.pass \in Seq(Printable)
           /\ "pass" \in r.quoted \/ r.pass = <<>> \/ r.pass[1] # Quote
           /\ r # NoRequest
<1>1. r \in Request
    BY TL1Assumption DEF TL1Assumption
<1>2. r.form # "none"
    BY <1>1 DEF Request
<1>3. r # NoRequest
    BY <1>2 DEF NoRequest
<1> QED
    BY <1>1, <1>3, TL1Assumption DEF TL1Assumption, Request

\* Words hold no colon.
LEMMA PlainFields ==
    ASSUME NEW f \in Seq(Words)
    PROVE  f \in Plain /\ \A i \in DOMAIN f : f[i] # Quote
<1>1. Words \subseteq Printable
    BY DEF Printable
<1>2. \A i \in DOMAIN f : f[i] \in Words
    OBVIOUS
<1>3. ":" \notin Words /\ Quote \notin Words
    BY TL1Assumption DEF TL1Assumption
<1> QED
    BY <1>1, <1>2, <1>3 DEF Plain

\* A name or a password in quotes or without them is what trimming leaves of it.
LEMMA WrappedFields ==
    ASSUME NEW r, NEW part \in {"aid", "pass"}, r[part] \in Seq(Printable)
    PROVE  /\ Wrapped(r, part) \in Seq(Printable)
           /\ r[part] \in Plain => Wrapped(r, part) \in Plain
           /\ part \in r.quoted \/ r[part] = <<>> \/ r[part][1] # Quote =>
                  unquoteTL1(Wrapped(r, part)) = r[part]
<1> DEFINE f == r[part]
           w == <<Quote>> \o f \o <<Quote>>
<1>1. <<Quote>> \in Seq(Printable) /\ Len(<<Quote>>) = 1 /\ <<Quote>>[1] = Quote
    <2>1. Quote \in Printable
        BY DEF Printable
    <2> QED BY <2>1
<1>2. /\ w \in Seq(Printable) /\ Len(w) = Len(f) + 2
      /\ w[1] = Quote /\ w[Len(f) + 2] = Quote
      /\ \A i \in 1..Len(f) : w[i + 1] = f[i]
    <2> DEFINE h == <<Quote>> \o f
    <2>1. /\ h \in Seq(Printable) /\ Len(h) = Len(f) + 1
          /\ h[1] = Quote
          /\ \A i \in 1..Len(f) : h[i + 1] = f[i]
        BY <1>1
    <2>2. w = h \o <<Quote>>
        OBVIOUS
    <2>3. Len(f) \in Nat
        OBVIOUS
    <2> HIDE DEF h, w, f
    <2>4. /\ w \in Seq(Printable) /\ Len(w) = Len(h) + 1
          /\ \A i \in 1..Len(h) : w[i] = h[i]
          /\ w[Len(h) + 1] = Quote
        BY <1>1, <2>1, <2>2
    <2>5. 1 \in 1..Len(h) /\ \A i \in 1..Len(f) : i + 1 \in 1..Len(h)
        BY <2>1, <2>3
    <2>6. Len(w) = Len(f) + 2 /\ Len(h) + 1 = Len(f) + 2
        BY <2>1, <2>3, <2>4
    <2> QED BY <2>1, <2>4, <2>5, <2>6
<1>3. CASE part \in r.quoted
    <2>1. Wrapped(r, part) = w
        BY <1>3 DEF Wrapped
    <2> HIDE DEF w, f
    <2>2. SubSeq(w, 2, Len(w) - 1) = f
        <3>1. SubSeq(w, 2, Len(w) - 1) \in Seq(Printable) /\ Len(SubSeq(w, 2, Len(w) - 1)) = Len(f)
            BY <1>2 DEF f
        <3>2. ASSUME NEW i \in 1..Len(f) PROVE SubSeq(w, 2, Len(w) - 1)[i] = f[i]
            BY <1>2 DEF f
        <3>3. f \in Seq(Printable)
            BY DEF f
        <3> QED BY <3>1, <3>2, <3>3, SeqEqual
    <2>3. unquoteTL1(w) = f
        <3>1. Len(w) >= 2 /\ w[1] = Quote /\ w[Len(w)] = Quote
            BY <1>2 DEF f
        <3> QED BY <2>2, <3>1 DEF unquoteTL1
    <2>4. ASSUME \A i \in DOMAIN f : f[i] # ":", NEW i \in DOMAIN w PROVE w[i] # ":"
        <3>1. Quote # ":"
            BY DEF Quote
        <3>2. i \in 1..(Len(f) + 2) /\ f \in Seq(Printable)
            BY <1>2 DEF f
        <3>3. CASE i \in {1, Len(f) + 2}
            BY <1>2, <3>1, <3>3
        <3>4. CASE i \notin {1, Len(f) + 2}
            <4>1. i - 1 \in 1..Len(f) /\ i = (i - 1) + 1
                BY <3>2, <3>4
            <4>2. w[i] = f[i - 1]
                BY <1>2, <4>1
            <4> QED BY <2>4, <3>2, <4>1, <4>2
        <3> QED BY <3>3, <3>4
    <2>5. f \in Plain => w \in Plain
        BY <1>2, <2>4 DEF Plain
    <2> QED BY <1>2, <2>1, <2>3, <2>5 DEF f
<1>4. CASE part \notin r.quoted
    <2>1. Wrapped(r, part) = f
        BY <1>4 DEF Wrapped
    <2>2. ASSUME f = <<>> \/ f[1] # Quote PROVE unquoteTL1(f) = f
        BY <2>2 DEF unquoteTL1
    <2> QED BY <1>4, <2>1, <2>2
<1> QED
    BY <1>3, <1>4

-----------------------------------------------------------------------------
\* The program's parse of raw is the request r, its verb in upper case.
ParsedAsMeant(r, raw) ==
    /\ r.form = "empty" => Verb(raw) = <<>>
    /\ r.form # "empty" =>
          Verb(raw) = <<Upper[r.verb]>> /\ Tid(raw) = r.tid /\ Ctag(raw) = r.ctag
    /\ r.form = "login" => ActUserName(raw) = r.aid /\ ActUserPassword(raw) = r.pass

\* What parseTL1 and validTL1Login take from the text of a request is what the client
\* meant: the verb, the TID and the tag in the strict form of a command and in the short
\* one, and the name and the password of a login, in quotes or not, also when the
\* password holds colons, for every request there is.
THEOREM RequestsParseAsMeant ==
    ASSUME NEW r \in Requests
    PROVE  Body(r) \in Seq(Printable) /\ ParsedAsMeant(r, Body(r))
<1> DEFINE v == <<r.verb>>
           aid == Wrapped(r, "aid")
           pass == Wrapped(r, "pass")
<1>1. v \in Plain /\ r.tid \in Plain /\ r.ctag \in Plain /\ r.ctag \in Seq(Printable)
    <2>1. v \in Seq(Words)
        BY RequestTypes
    <2> QED BY <2>1, RequestTypes, PlainFields DEF Plain
<1>2. aid \in Plain /\ unquoteTL1(aid) = r.aid
    <2>1. r.aid \in Plain /\ \A i \in DOMAIN r.aid : r.aid[i] # Quote
        BY RequestTypes, PlainFields
    <2>2. r.aid \in Seq(Printable)
        BY <2>1 DEF Plain
    <2>3. r.aid = <<>> \/ r.aid[1] # Quote
        BY <2>1, <2>2
    <2> QED BY <2>1, <2>2, <2>3, WrappedFields
<1>3. pass \in Seq(Printable) /\ unquoteTL1(pass) = r.pass
    BY RequestTypes, WrappedFields
<1>4. ToUpper(v) = <<Upper[r.verb]>>
    BY RequestTypes DEF ToUpper
<1> HIDE DEF v, aid, pass
<1>5. CASE r.form = "empty"
    <2>1. Body(r) = <<>>
        BY <1>5 DEF Body
    <2>2. Field(<<>>, 0) = <<>>
        <3>1. <<>> \in Plain /\ <<>> \in Seq(Printable)
            BY DEF Plain
        <3> QED BY <3>1, LastField
    <2>3. ToUpper(<<>>) = <<>>
        BY DEF ToUpper
    <2> QED BY <1>5, <2>1, <2>2, <2>3 DEF ParsedAsMeant, Verb
<1>6. CASE r.form = "short"
    <2> DEFINE raw1 == Then(r.tid, r.ctag)
               raw == Then(v, raw1)
    <2>1. Body(r) = raw
        BY <1>6 DEF Body, v
    <2>2. Cardinality(Colons(r.ctag)) = 0 /\ Field(r.ctag, 0) = r.ctag
        BY <1>1, LastField
    <2>3. /\ raw1 \in Seq(Printable)
          /\ Field(raw1, 0) = r.tid /\ Field(raw1, 1) = Field(r.ctag, 0)
        BY <1>1, FirstFields
    <2>4. Cardinality(Colons(raw1)) = 1
        BY <1>1, <2>2, OneMoreColon
    <2> HIDE DEF raw1
    <2>5. /\ raw \in Seq(Printable)
          /\ Field(raw, 0) = v /\ Field(raw, 1) = Field(raw1, 0) /\ Field(raw, 2) = Field(raw1, 1)
        BY <1>1, <2>3, FirstFields
    <2>6. Cardinality(Colons(raw)) = 2
        BY <1>1, <2>3, <2>4, OneMoreColon
    <2> HIDE DEF raw
    <2>7. Verb(raw) = <<Upper[r.verb]>> /\ Tid(raw) = r.tid
        BY <1>4, <2>3, <2>5 DEF Verb, Tid
    <2>8. Ctag(raw) = r.ctag
        BY <2>2, <2>3, <2>5, <2>6 DEF Ctag
    <2> QED BY <1>6, <2>1, <2>5, <2>7, <2>8 DEF ParsedAsMeant
<1>7. CASE r.form = "strict"
    <2> DEFINE raw2 == Then(aid, r.ctag)
               raw1 == Then(r.tid, raw2)
               raw == Then(v, raw1)
    <2>1. Body(r) = raw
        BY <1>7 DEF Body, v, aid
    <2>2. Cardinality(Colons(r.ctag)) = 0 /\ Field(r.ctag, 0) = r.ctag
        BY <1>1, LastField
    <2>3. raw2 \in Seq(Printable) /\ Field(raw2, 1) = r.ctag
        BY <1>1, <1>2, <2>2, FirstFields
    <2>8. Cardinality(Colons(raw2)) = 1
        BY <1>1, <1>2, <2>2, OneMoreColon
    <2> HIDE DEF raw2
    <2>4. raw1 \in Seq(Printable) /\ Field(raw1, 0) = r.tid /\ Field(raw1, 2) = Field(raw2, 1)
        BY <1>1, <2>3, FirstFields
    <2>9. Cardinality(Colons(raw1)) = 2
        BY <1>1, <2>3, <2>8, OneMoreColon
    <2> HIDE DEF raw1
    <2>5. /\ raw \in Seq(Printable)
          /\ Field(raw, 0) = v /\ Field(raw, 1) = Field(raw1, 0) /\ Field(raw, 3) = Field(raw1, 2)
        BY <1>1, <2>4, FirstFields
    <2>10. Cardinality(Colons(raw)) = 3
        BY <1>1, <2>4, <2>9, OneMoreColon
    <2> HIDE DEF raw
    <2>6. Verb(raw) = <<Upper[r.verb]>> /\ Tid(raw) = r.tid
        BY <1>4, <2>4, <2>5 DEF Verb, Tid
    <2>7. Ctag(raw) = r.ctag
        BY <2>3, <2>4, <2>5, <2>10 DEF Ctag
    <2> QED BY <1>7, <2>1, <2>5, <2>6, <2>7 DEF ParsedAsMeant
<1>8. CASE r.form = "login"
    <2> DEFINE raw4 == Then(<<>>, pass)
               raw3 == Then(r.ctag, raw4)
               raw2 == Then(aid, raw3)
               raw1 == Then(r.tid, raw2)
               raw == Then(v, raw1)
    <2>1. Body(r) = raw
        BY <1>8 DEF Body, v, aid, pass
    <2>2. Fields(pass, 0) = pass
        BY <1>3, LastField
    <2>3. raw4 \in Seq(Printable) /\ Fields(raw4, 1) = pass
        <3>1. <<>> \in Plain
            BY DEF Plain
        <3> QED BY <1>3, <2>2, <3>1, FirstFields
    <2> HIDE DEF raw4
    <2>4. raw3 \in Seq(Printable) /\ Field(raw3, 0) = r.ctag /\ Fields(raw3, 2) = pass
        BY <1>1, <2>3, FirstFields
    <2>12. Cardinality(Colons(raw3)) \in Nat \ {0}
        BY <1>1, <2>3, OneMoreColon
    <2> HIDE DEF raw3
    <2>5. /\ raw2 \in Seq(Printable)
          /\ Field(raw2, 0) = aid /\ Field(raw2, 1) = r.ctag /\ Fields(raw2, 3) = pass
        BY <1>2, <2>4, FirstFields
    <2>13. Cardinality(Colons(raw2)) \in Nat \ 0..1
        BY <1>2, <2>4, <2>12, OneMoreColon
    <2> HIDE DEF raw2
    <2>6. /\ raw1 \in Seq(Printable) /\ Field(raw1, 0) = r.tid /\ Field(raw1, 1) = aid
          /\ Field(raw1, 2) = r.ctag /\ Fields(raw1, 4) = pass
        BY <1>1, <2>5, FirstFields
    <2>14. Cardinality(Colons(raw1)) \in Nat \ 0..2
        BY <1>1, <2>5, <2>13, OneMoreColon
    <2> HIDE DEF raw1
    <2>7. /\ raw \in Seq(Printable)
          /\ Field(raw, 0) = v /\ Field(raw, 1) = r.tid /\ Field(raw, 2) = aid
          /\ Field(raw, 3) = r.ctag /\ Fields(raw, 5) = pass
        BY <1>1, <2>6, FirstFields
    <2>15. Cardinality(Colons(raw)) \in Nat \ 0..3
        BY <1>1, <2>6, <2>14, OneMoreColon
    <2> HIDE DEF raw
    <2>8. Verb(raw) = <<Upper[r.verb]>> /\ Tid(raw) = r.tid
        BY <1>4, <2>7 DEF Verb, Tid
    <2>9. Ctag(raw) = r.ctag
        BY <2>7, <2>15 DEF Ctag
    <2>10. ActUserName(raw) = r.aid /\ ActUserPassword(raw) = r.pass
        BY <1>2, <1>3, <2>7 DEF ActUserName, ActUserPassword
    <2> QED BY <1>8, <2>1, <2>7, <2>8, <2>9, <2>10 DEF ParsedAsMeant
<1> QED
    BY <1>5, <1>6, <1>7, <1>8, RequestTypes

\* The text of a request is its body and a semicolon.
LEMMA Texts ==
    ASSUME NEW r \in Requests
    PROVE  /\ Body(r) \in Seq(Printable) /\ Text(r) \in Seq(Printable)
           /\ Len(Body(r)) \in Nat /\ Len(Text(r)) \in Nat \ {0}
           /\ Len(Text(r)) = Len(Body(r)) + 1
           /\ SubSeq(Text(r), 1, Len(Body(r))) = Body(r)
<1>1. Body(r) \in Seq(Printable)
    BY RequestsParseAsMeant
<1>2. ";" \in Printable
    BY DEF Printable
<1>3. /\ Text(r) \in Seq(Printable) /\ Len(Text(r)) = Len(Body(r)) + 1
      /\ \A i \in 1..Len(Body(r)) : Text(r)[i] = Body(r)[i]
    <2>1. ASSUME NEW x \in Seq(Printable), NEW b \in Printable
          PROVE  /\ Append(x, b) \in Seq(Printable) /\ Len(Append(x, b)) = Len(x) + 1
                 /\ \A i \in 1..Len(x) : Append(x, b)[i] = x[i]
        OBVIOUS
    <2> QED BY <1>1, <1>2, <2>1 DEF Text
<1>4. SubSeq(Text(r), 1, Len(Body(r))) = Body(r)
    <2> DEFINE x == SubSeq(Text(r), 1, Len(Body(r)))
    <2>1. x \in Seq(Printable) /\ Len(x) = Len(Body(r))
        BY <1>1, <1>3
    <2>2. \A i \in 1..Len(x) : x[i] = Body(r)[i]
        BY <1>1, <1>3
    <2> HIDE DEF x
    <2>3. x = Body(r)
        BY <1>1, <2>1, <2>2, SeqEqual
    <2> QED BY <2>3 DEF x
<1>5. Len(Body(r)) \in Nat
    BY <1>1
<1>6. Len(Body(r)) + 1 \in Nat \ {0}
    BY <1>5
<1> QED
    BY <1>1, <1>3, <1>4, <1>5, <1>6

\* The only semicolon outside of a quoted string is the last byte.
LEMMA TextsEnd ==
    ASSUME NEW r \in Requests, NEW n \in DOMAIN Text(r)
    PROVE  (Text(r)[n] = ";" /\ ~InString(Text(r), n - 1)) <=> (n = Len(Text(r)))
BY TL1Assumption DEF TL1Assumption

-----------------------------------------------------------------------------
(* Quoted strings.                                                         *)

\* Nothing is inside of a string before the first byte.
LEMMA InNoString ==
    ASSUME NEW s
    PROVE  ~InString(s, 0)
<1>1. {i \in 1..0 : s[i] = Quote} = {}
    OBVIOUS
<1> QED
    BY <1>1, FS_EmptySet DEF InString

\* What has been read so far decides whether it ends inside of a string.
LEMMA SameStrings ==
    ASSUME NEW s, NEW t, NEW n \in Nat, \A i \in 1..n : s[i] = t[i]
    PROVE  InString(s, n) = InString(t, n)
<1>1. {i \in 1..n : s[i] = Quote} = {i \in 1..n : t[i] = Quote}
    OBVIOUS
<1> QED
    BY <1>1 DEF InString

\* A quote opens or closes a string and no other byte does.
LEMMA NextByteInString ==
    ASSUME NEW s, NEW n \in Nat
    PROVE  InString(s, n + 1) = (InString(s, n) # (s[n + 1] = Quote))
<1> DEFINE Q(m) == {i \in 1..m : s[i] = Quote}
<1>1. IsFiniteSet(Q(n)) /\ Cardinality(Q(n)) \in Nat
    <2>1. Q(n) \subseteq 1..n /\ IsFiniteSet(1..n)
        BY FS_Interval
    <2> HIDE DEF Q
    <2> QED BY <2>1, FS_Subset, FS_CardinalityType
<1>2. CASE s[n + 1] = Quote
    <2>1. Q(n + 1) = Q(n) \union {n + 1} /\ n + 1 \notin Q(n)
        BY <1>2
    <2>2. Cardinality(Q(n + 1)) = Cardinality(Q(n)) + 1
        <3> HIDE DEF Q
        <3> QED BY <1>1, <2>1, FS_AddElement
    <2>3. \A c \in Nat : ((c + 1) % 2 = 1) <=> ~(c % 2 = 1)
        OBVIOUS
    <2>4. InString(s, n + 1) <=> ~InString(s, n)
        <3> HIDE DEF Q
        <3>1. (Cardinality(Q(n + 1)) % 2 = 1) <=> ~(Cardinality(Q(n)) % 2 = 1)
            BY <1>1, <2>2, <2>3
        <3> QED BY <3>1 DEF InString, Q
    <2>5. InString(s, n) \in BOOLEAN /\ InString(s, n + 1) \in BOOLEAN
        BY DEF InString
    <2> QED BY <1>2, <2>4, <2>5
<1>3. CASE s[n + 1] # Quote
    <2>1. Q(n + 1) = Q(n)
        BY <1>3
    <2>2. InString(s, n + 1) = InString(s, n)
        BY <2>1 DEF InString
    <2>3. InString(s, n) \in BOOLEAN
        BY DEF InString
    <2> QED BY <1>3, <2>2, <2>3
<1> QED
    BY <1>2, <1>3

-----------------------------------------------------------------------------
(* The reader.                                                             *)

\* The type of readTL1's state.
Reader == [buf : Seq(Printable), inQuote : BOOLEAN, result : {"reading", "command", "error"}]

\* What readTL1 keeps while it is reading.
Quoting(e) ==
    /\ e \in Reader /\ e.result = "reading"
    /\ e.inQuote = InString(e.buf, Len(e.buf))

\* The bytes that edit the line are not printable.
LEMMA ControlBytes ==
    ASSUME NEW b \in Printable
    PROVE  b \notin {"BS", "ETX", "EOT"} \union LineBreaks
<1>1. {Quote, ":", ";"} \intersect ({"BS", "ETX", "EOT"} \union LineBreaks) = {}
    BY DEF Quote, LineBreaks
<1>2. Words \intersect ({"BS", "ETX", "EOT"} \union LineBreaks) = {}
    BY TL1Assumption DEF TL1Assumption
<1> QED
    BY <1>1, <1>2 DEF Printable

\* inQuote stays right when a byte is added ...
LEMMA TakeKeepsQuoting ==
    ASSUME NEW e, Quoting(e), NEW b \in Printable
    PROVE  /\ Take(e, b).buf = Append(e.buf, b)
           /\ Quoting(Take(e, b))
<1> DEFINE t == Append(e.buf, b)
<1>1. e.buf \in Seq(Printable) /\ e.inQuote \in BOOLEAN /\ e \in Reader
    BY DEF Quoting, Reader
<1>2. t \in Seq(Printable) /\ Len(t) = Len(e.buf) + 1 /\ t[Len(e.buf) + 1] = b
      /\ \A i \in 1..Len(e.buf) : t[i] = e.buf[i]
    BY <1>1
<1>9. Len(e.buf) \in Nat
    BY <1>1
<1> HIDE DEF t
<1>3. InString(t, Len(e.buf)) = InString(e.buf, Len(e.buf))
    BY <1>2, <1>9, SameStrings
<1>4. InString(t, Len(e.buf) + 1) = (InString(t, Len(e.buf)) # (t[Len(e.buf) + 1] = Quote))
    BY <1>9, NextByteInString
<1> DEFINE q == e.inQuote # (b = Quote)
<1>5. Take(e, b) = [e EXCEPT !.buf = t, !.inQuote = q]
    BY DEF Take, t
<1>6. q \in BOOLEAN
    OBVIOUS
<1>7. q = InString(t, Len(t))
    BY <1>2, <1>3, <1>4 DEF Quoting
<1> HIDE DEF q
<1>8. /\ Take(e, b) \in Reader /\ Take(e, b).buf = t /\ Take(e, b).inQuote = q
      /\ Take(e, b).result = e.result
    BY <1>1, <1>2, <1>5, <1>6 DEF Reader
<1>10. Quoting(Take(e, b))
    BY <1>7, <1>8 DEF Quoting
<1> QED
    BY <1>8, <1>10 DEF t

\* ... and when one is erased.
LEMMA EraseKeepsQuoting ==
    ASSUME NEW e, Quoting(e), e.buf # <<>>
    PROVE  /\ Erase(e).buf = SubSeq(e.buf, 1, Len(e.buf) - 1)
           /\ Quoting(Erase(e))
<1> DEFINE t == SubSeq(e.buf, 1, Len(e.buf) - 1)
           n == Len(e.buf) - 1
<1>1. e.buf \in Seq(Printable) /\ e.inQuote \in BOOLEAN /\ e \in Reader
    BY DEF Quoting, Reader
<1>2. n \in Nat /\ n + 1 = Len(e.buf)
    BY <1>1
<1>3. t \in Seq(Printable) /\ Len(t) = n /\ \A i \in 1..n : t[i] = e.buf[i]
    BY <1>1, <1>2
<1>4. InString(t, n) = InString(e.buf, n)
    BY <1>2, <1>3, SameStrings
<1>5. InString(e.buf, Len(e.buf)) = (InString(e.buf, n) # (e.buf[Len(e.buf)] = Quote))
    BY <1>2, NextByteInString
<1> DEFINE q == e.inQuote # (e.buf[Len(e.buf)] = Quote)
<1>6. Erase(e) = [e EXCEPT !.buf = t, !.inQuote = q]
    BY DEF Erase
<1> HIDE DEF t, n
<1>7. InString(e.buf, n) \in BOOLEAN /\ InString(e.buf, Len(e.buf)) \in BOOLEAN
    BY DEF InString
<1>8. q \in BOOLEAN
    OBVIOUS
<1>9. q = InString(t, Len(t))
    BY <1>3, <1>4, <1>5, <1>7 DEF Quoting
<1> HIDE DEF q
<1>10. /\ Erase(e) \in Reader /\ Erase(e).buf = t /\ Erase(e).inQuote = q
       /\ Erase(e).result = e.result
    BY <1>1, <1>3, <1>6, <1>8 DEF Reader
<1>11. Quoting(Erase(e))
    BY <1>9, <1>10 DEF Quoting
<1> QED
    BY <1>10, <1>11 DEF t

\* readTL1 takes a printable byte unless it ends the command.
LEMMA ReadingPrintable ==
    ASSUME NEW e, Quoting(e), NEW b \in Printable
    PROVE  /\ b = ";" /\ ~e.inQuote => readTL1(e, b) = [e EXCEPT !.result = "command"]
           /\ ~(b = ";" /\ ~e.inQuote) => readTL1(e, b) = Take(e, b)
<1>1. b \notin {"BS", "ETX", "EOT"}
    BY ControlBytes
<1> QED
    BY <1>1 DEF readTL1

\* A backspace erases the last byte.
LEMMA ReadingErase ==
    ASSUME NEW e, Quoting(e), e.buf # <<>>
    PROVE  readTL1(e, "BS") = Erase(e)
<1>1. "BS" \notin Printable /\ "BS" # ";"
    BY ControlBytes
<1> QED
    BY <1>1 DEF readTL1

\* Any other byte is ignored or ends the session, and adds nothing.
LEMMA ReadingOther ==
    ASSUME NEW e, Quoting(e), NEW b, b \notin Printable
    PROVE  /\ b # "BS" => \/ readTL1(e, b) = e
                          \/ readTL1(e, b) = [e EXCEPT !.result = "error"]
           /\ readTL1(e, b) \in Reader
           /\ Len(readTL1(e, b).buf) <= Len(e.buf)
<1>1. b # ";"
    BY DEF Printable
<1> DEFINE failed == [e EXCEPT !.result = "error"]
<1>2. /\ e.buf \in Seq(Printable) /\ e \in Reader
      /\ failed \in Reader /\ failed.buf = e.buf
    BY DEF Quoting, Reader
<1>3. CASE b = "BS" /\ e.buf # <<>>
    <2>1. readTL1(e, b) = Erase(e)
        BY <1>3, ReadingErase
    <2>2. Erase(e) \in Reader /\ Len(Erase(e).buf) = Len(e.buf) - 1
        BY <1>2, <1>3, EraseKeepsQuoting DEF Quoting
    <2> QED BY <1>2, <1>3, <2>1, <2>2
<1>4. CASE ~(b = "BS" /\ e.buf # <<>>)
    <2>1. readTL1(e, b) = e \/ readTL1(e, b) = [e EXCEPT !.result = "error"]
        <3>1. CASE b = "ETX" \/ (b = "EOT" /\ e.buf = <<>>)
            BY <1>1, <3>1 DEF readTL1
        <3>2. CASE ~(b = "ETX" \/ (b = "EOT" /\ e.buf = <<>>))
            BY <1>1, <1>4, <3>2 DEF readTL1
        <3> QED BY <3>1, <3>2
    <2>2. Len(e.buf) \in Nat
        BY <1>2
    <2>3. readTL1(e, b) = e \/ readTL1(e, b) = failed
        BY <2>1
    <2> HIDE DEF failed
    <2>4. readTL1(e, b) \in Reader /\ Len(readTL1(e, b).buf) <= Len(e.buf)
        BY <1>2, <2>2, <2>3
    <2> QED BY <2>3, <2>4 DEF failed
<1> QED
    BY <1>3, <1>4

-----------------------------------------------------------------------------
(* Types, and commands that arrive whole.                                  *)

\* While the session is served the buffer holds what has been typed of the request,
\* and a slip if there is one, and it is not complete; what was handled last is the
\* body of the request that was meant.
ReadingInv ==
    /\ sent < Len(Text(request))
    /\ open => Quoting(reader)
    /\ open /\ ~slip => reader.buf = SubSeq(Text(request), 1, sent)
    /\ open /\ slip =>
          \E b \in Printable : reader.buf = Append(SubSeq(Text(request), 1, sent), b)
    /\ meant # NoRequest => meant \in Requests /\ handled = Body(meant)

\* The inductive invariant of the reading.
Inv == TypeOK /\ ReadingInv

\* A new buffer is empty and outside of a string.
LEMMA EmptyReader == Quoting(NoBytes) /\ NoBytes \in Reader /\ NoBytes.buf = <<>>
<1>1. NoBytes.buf = <<>> /\ NoBytes.inQuote = FALSE /\ NoBytes.result = "reading"
    BY DEF NoBytes
<1>2. NoBytes \in Reader
    BY DEF NoBytes, Reader
<1>3. Len(<<>>) = 0
    OBVIOUS
<1>4. InString(<<>>, 0) = FALSE
    BY InNoString DEF InString
<1> QED
    BY <1>1, <1>2, <1>3, <1>4 DEF Quoting

LEMMA InitInv == Init => Inv
<1> SUFFICES ASSUME Init PROVE Inv
    OBVIOUS
<1>1. request \in Requests
    BY DEF Init
<1>2. 0 < Len(Text(request)) /\ 0 \in 0..Len(Text(request))
    BY <1>1, Texts
<1>3. Quoting(NoBytes) /\ NoBytes \in Reader /\ NoBytes.buf = <<>>
    BY EmptyReader
<1>4. SubSeq(Text(request), 1, 0) = <<>>
    <2>1. \A x \in Seq(Printable) : SubSeq(x, 1, 0) = <<>>
        OBVIOUS
    <2> QED BY <1>1, <2>1, Texts
<1>5. TypeOK
    <2>1. reply.cmd \in Commands[vendor]
        <3>1. vendor \in {"ciena_tl1", "infinera_tl1", "cisco_ons_tl1"}
            BY TL1Assumption DEF TL1Assumption, Init
        <3>2. "CmdTL1Unknown" \in Commands[vendor]
            BY <3>1 DEF Commands
        <3> QED BY <3>2 DEF Init, Silence
    <2>2. reply.serial \in BOOLEAN
        BY DEF Init, Silence
    <2> QED BY <1>2, <1>3, <2>1, <2>2 DEF TypeOK, Init, Reader
<1>6. ReadingInv
    BY <1>2, <1>3, <1>4 DEF ReadingInv, Init
<1> QED
    BY <1>5, <1>6 DEF Inv

\* The next byte of the request, and what comes of it.
LEMMA TypedByte ==
    ASSUME Inv, open, ~slip
    PROVE  /\ Text(request)[sent + 1] \in Printable
           /\ sent + 1 \in DOMAIN Text(request)
           /\ reader.inQuote = InString(Text(request), sent)
           /\ Quoting(reader)
           /\ reader.buf = SubSeq(Text(request), 1, sent)
           /\ (Text(request)[sent + 1] = ";" /\ ~reader.inQuote) <=> (sent + 1 = Len(Text(request)))
<1> DEFINE s == Text(request)
<1>1. s \in Seq(Printable) /\ sent \in Nat /\ sent < Len(s) /\ request \in Requests
    BY Texts DEF Inv, TypeOK, ReadingInv
<1>2. Quoting(reader) /\ reader.buf = SubSeq(s, 1, sent)
    BY DEF Inv, ReadingInv
<1>3. sent + 1 \in DOMAIN s /\ s[sent + 1] \in Printable
    BY <1>1
<1>4. Len(reader.buf) = sent /\ \A i \in 1..sent : reader.buf[i] = s[i]
    BY <1>1, <1>2
<1>5. InString(reader.buf, sent) = InString(s, sent)
    BY <1>1, <1>4, SameStrings
<1>6. reader.inQuote = InString(s, sent)
    BY <1>2, <1>4, <1>5 DEF Quoting
<1>7. (s[sent + 1] = ";" /\ ~InString(s, (sent + 1) - 1)) <=> (sent + 1 = Len(s))
    BY <1>1, <1>3, TextsEnd
<1>8. (sent + 1) - 1 = sent
    BY <1>1
<1>9. (s[sent + 1] = ";" /\ ~InString(s, sent)) <=> (sent + 1 = Len(s))
    BY <1>7, <1>8
<1> QED
    BY <1>2, <1>3, <1>6, <1>9

\* A command that is read is the one that was meant, whole.
LEMMA SubmittedWhole ==
    ASSUME Inv, Submit
    PROVE  request \in Requests /\ reader.buf = Body(request) /\ ParsedAsMeant(request, reader.buf)
<1> DEFINE s == Text(request)
           b == s[sent + 1]
<1>1. /\ open /\ ~slip /\ readTL1(reader, b).result = "command"
    BY DEF Submit
<1>2. /\ b \in Printable /\ Quoting(reader) /\ reader.buf = SubSeq(s, 1, sent)
      /\ (b = ";" /\ ~reader.inQuote) <=> (sent + 1 = Len(s))
    BY <1>1, TypedByte
<1>3. request \in Requests /\ sent \in Nat
    BY DEF Inv, TypeOK
<1> HIDE DEF b
<1>4. b = ";" /\ ~reader.inQuote
    <2> SUFFICES ASSUME ~(b = ";" /\ ~reader.inQuote) PROVE FALSE
        OBVIOUS
    <2>1. readTL1(reader, b) = Take(reader, b)
        BY <1>2, ReadingPrintable
    <2>2. Take(reader, b).result = "reading"
        BY <1>2, TakeKeepsQuoting DEF Quoting
    <2> QED BY <1>1, <2>1, <2>2
<1>5. sent = Len(Body(request))
    <2>1. sent + 1 = Len(s)
        BY <1>2, <1>4
    <2>2. Len(s) = Len(Body(request)) + 1 /\ Len(Body(request)) \in Nat
        BY <1>3, Texts
    <2> QED BY <1>3, <2>1, <2>2
<1> QED
    BY <1>2, <1>3, <1>5, Texts, RequestsParseAsMeant

\* A report is one block with the tag of the command, under its verb, and streams
\* the inventory or nothing.
LEMMA ReportFields ==
    ASSUME NEW raw, NEW sid, NEW inventory
    PROVE  LET answer == Report(raw, sid, inventory)
           IN  /\ answer.cmd = Verb(raw)[1] /\ answer.ctag = Ctag(raw)
               /\ answer.blocks = Compld /\ answer.body \in {inventory, <<>>}
               /\ answer.serial \in BOOLEAN
<1> DEFINE serial == \/ Verb(raw) = <<"RTRV-EQPT">> /\ inventory = <<>>
                     \/ Verb(raw) = <<"RTRV-SYS">>
<1>1. Report(raw, sid, inventory).serial = serial
    BY DEF Report
<1>2. serial \in BOOLEAN
    OBVIOUS
<1>3. Report(raw, sid, inventory).body \in {inventory, <<>>}
    BY DEF Report
<1>4. /\ Report(raw, sid, inventory).cmd = Verb(raw)[1]
      /\ Report(raw, sid, inventory).ctag = Ctag(raw)
      /\ Report(raw, sid, inventory).blocks = Compld
    BY DEF Report
<1> HIDE DEF serial
<1> QED
    BY <1>1, <1>2, <1>3, <1>4

\* Every answer is observed under a label the driver registers (Driver.Commands).
LEMMA LabelsAreRegistered ==
    ASSUME TypeOK, NEW raw, Dispatch(raw)
    PROVE  reply'.cmd \in Commands[vendor] /\ reply'.serial \in BOOLEAN
<1>1. vendor \in {"ciena_tl1", "infinera_tl1", "cisco_ons_tl1"}
    BY TL1Assumption DEF TL1Assumption, TypeOK
<1>2. {"CmdTL1Unknown", "CmdTL1Deny", "ACT-USER", NeighbourLabel[vendor]} \subseteq Commands[vendor]
    BY <1>1 DEF Commands, NeighbourLabel
<1>3. Reports[vendor] \subseteq Commands[vendor]
    BY <1>1 DEF Commands, Reports, SharedReports
<1>4. CASE EmptyCommand(raw)
    BY <1>2, <1>4 DEF EmptyCommand, Silence
<1>5. CASE ActUser(raw)
    <2>1. CASE reply' = Answer(raw, "ACT-USER", OwnSid, Compld, <<>>)
        BY <1>2, <2>1 DEF Answer
    <2>2. CASE reply' = Deny(raw, "CmdTL1Deny", OwnSid)
        BY <1>2, <2>2 DEF Answer, Deny
    <2> QED BY <1>5, <2>1, <2>2 DEF ActUser
<1>6. CASE NotLoggedIn(raw)
    BY <1>2, <1>6 DEF NotLoggedIn, Answer, Deny
<1>7. CASE Neighbours(raw)
    BY <1>2, <1>7 DEF Neighbours, Answer
<1>8. CASE UnknownNode(raw)
    BY <1>2, <1>8 DEF UnknownNode, Answer, Deny
<1>9. CASE LocalReport(raw)
    <2>1. reply'.cmd = Verb(raw)[1] /\ reply'.serial \in BOOLEAN
        BY <1>9, ReportFields DEF LocalReport
    <2>2. PICK v \in Reports[vendor] : Verb(raw) = <<v>>
        BY <1>9 DEF LocalReport, Asks
    <2> QED BY <1>3, <2>1, <2>2
<1>10. CASE RemoteReport(raw)
    <2>1. reply'.cmd = Verb(raw)[1] /\ reply'.serial \in BOOLEAN
        <3>1. reply' = Report(raw, AnswersAs(Tid(raw)), InventoryOf(ToUpper(Tid(raw))))
            BY <1>10 DEF RemoteReport
        <3> QED BY <3>1, ReportFields
    <2>2. PICK v \in Reports[vendor] : Verb(raw) = <<v>>
        BY <1>10 DEF RemoteReport, Asks
    <2> QED BY <1>3, <2>1, <2>2
<1>11. CASE UnknownVerb(raw)
    BY <1>2, <1>11 DEF UnknownVerb, Answer, Deny
<1> QED
    BY <1>4, <1>5, <1>6, <1>7, <1>8, <1>9, <1>10, <1>11 DEF Dispatch

\* The actions, one by one.
LEMMA TypeOnKeepsInv == Inv /\ TypeOn => Inv'
<1> SUFFICES ASSUME Inv, TypeOn PROVE Inv'
    OBVIOUS
<1> DEFINE s == Text(request)
           b == s[sent + 1]
<1>1. /\ open /\ ~slip /\ reader' = readTL1(reader, b) /\ reader'.result = "reading"
      /\ sent' = sent + 1
      /\ UNCHANGED <<vendor, data, loggedIn, reply, meant, handled, proven, open, request, slip>>
    BY DEF TypeOn, Byte, deviceVars, sessionVars
<1>2. /\ b \in Printable /\ Quoting(reader) /\ reader.buf = SubSeq(s, 1, sent)
      /\ (b = ";" /\ ~reader.inQuote) <=> (sent + 1 = Len(s))
      /\ sent + 1 \in DOMAIN s
    BY <1>1, TypedByte
<1>3. request \in Requests /\ sent \in Nat /\ s \in Seq(Printable) /\ sent < Len(s)
    BY Texts DEF Inv, TypeOK, ReadingInv
<1>4. ~(b = ";" /\ ~reader.inQuote)
    <2> SUFFICES ASSUME b = ";", ~reader.inQuote PROVE FALSE
        OBVIOUS
    <2> HIDE DEF b
    <2>1. reader' = [reader EXCEPT !.result = "command"]
        BY <1>1, <1>2, ReadingPrintable
    <2> QED BY <1>1, <1>2, <2>1 DEF Quoting, Reader
<1>5. sent + 1 < Len(s)
    <2>1. sent + 1 # Len(s)
        BY <1>2, <1>4
    <2> QED BY <1>3, <2>1
<1>6. reader' = Take(reader, b)
    <2> HIDE DEF b
    <2> QED BY <1>1, <1>2, <1>4, ReadingPrintable
<1>7. Quoting(reader') /\ reader'.buf = Append(SubSeq(s, 1, sent), b)
    <2> HIDE DEF b
    <2> QED BY <1>2, <1>6, TakeKeepsQuoting
<1>8. Append(SubSeq(s, 1, sent), s[sent + 1]) = SubSeq(s, 1, sent + 1)
    <2>1. \A x \in Seq(Printable) : \A n \in 0..(Len(x) - 1) :
              Append(SubSeq(x, 1, n), x[n + 1]) = SubSeq(x, 1, n + 1)
        OBVIOUS
    <2> QED BY <1>3, <2>1
<1>9. ReadingInv'
    BY <1>1, <1>5, <1>7, <1>8 DEF ReadingInv, Inv
<1>10. TypeOK'
    <2>1. reader' \in Reader
        BY <1>7 DEF Quoting
    <2>2. sent' \in 0..Len(Text(request'))
        BY <1>1, <1>3, <1>5
    <2> QED BY <1>1, <2>1, <2>2 DEF TypeOK, Inv, Reader
<1> QED
    BY <1>9, <1>10 DEF Inv

LEMMA SubmitKeepsInv == Inv /\ Submit => Inv'
<1> SUFFICES ASSUME Inv, Submit PROVE Inv'
    OBVIOUS
<1>1. request \in Requests /\ reader.buf = Body(request)
    BY SubmittedWhole
<1>2. /\ Dispatch(reader.buf)
      /\ handled' = reader.buf /\ meant' = request /\ reader' = NoBytes /\ sent' = 0
      /\ request' \in Requests /\ open /\ ~slip
      /\ proven' \in BOOLEAN
      /\ UNCHANGED <<vendor, data, open, slip>>
    BY DEF Submit, Inv, TypeOK, deviceVars, IsGoodLogin
<1>3. 0 < Len(Text(request')) /\ SubSeq(Text(request'), 1, 0) = <<>>
    <2>1. \A x \in Seq(Printable) : SubSeq(x, 1, 0) = <<>>
        OBVIOUS
    <2> QED BY <1>2, <2>1, Texts
<1>4. ReadingInv'
    BY <1>1, <1>2, <1>3, EmptyReader DEF ReadingInv
<1>5. TypeOK'
    <2>1. reply'.cmd \in Commands[vendor] /\ reply'.serial \in BOOLEAN
        BY <1>2, LabelsAreRegistered DEF Inv
    <2>2. loggedIn' \in BOOLEAN
        BY <1>2 DEF Dispatch, EmptyCommand, ActUser, NotLoggedIn, Neighbours, UnknownNode,
                    LocalReport, RemoteReport, UnknownVerb, Inv, TypeOK
    <2>3. reader' \in Reader /\ handled' \in Seq(Printable)
        BY <1>1, <1>2, EmptyReader, Texts
    <2>4. sent' \in 0..Len(Text(request'))
        BY <1>2, <1>3, Texts
    <2> QED BY <1>1, <1>2, <2>1, <2>2, <2>3, <2>4 DEF TypeOK, Inv, Reader
<1> QED
    BY <1>4, <1>5 DEF Inv

LEMMA SlipKeepsInv == ASSUME NEW b, Inv, Slip(b) PROVE Inv'
<1>1. /\ open /\ ~slip /\ reader' = readTL1(reader, b) /\ reader'.buf = Append(reader.buf, b)
      /\ slip' = TRUE
      /\ UNCHANGED <<vendor, data, loggedIn, reply, meant, handled, proven, open, request, sent>>
    BY DEF Slip, Byte, deviceVars, sessionVars
<1>2. Quoting(reader) /\ reader.buf = SubSeq(Text(request), 1, sent) /\ reader.buf \in Seq(Printable)
    BY <1>1 DEF Inv, ReadingInv, Quoting, Reader
<1>3. b \in Printable
    <2> SUFFICES ASSUME b \notin Printable PROVE FALSE
        OBVIOUS
    <2>1. reader' \in Reader /\ Len(reader'.buf) <= Len(reader.buf)
        BY <1>1, <1>2, ReadingOther
    <2>2. Len(Append(reader.buf, b)) = Len(reader.buf) + 1 /\ Len(reader.buf) \in Nat
        BY <1>2
    <2> QED BY <1>1, <2>1, <2>2
<1>8. \A x \in Seq(Printable) : Append(x, b) # x
    <2>1. \A x \in Seq(Printable) : Len(Append(x, b)) = Len(x) + 1 /\ Len(x) \in Nat
        BY <1>3, AppendProperties
    <2>2. \A n \in Nat : n + 1 # n
        OBVIOUS
    <2> QED BY <2>1, <2>2
<1>4. reader' = Take(reader, b)
    <2> SUFFICES ASSUME b = ";" /\ ~reader.inQuote PROVE FALSE
        BY <1>1, <1>2, <1>3, ReadingPrintable
    <2>1. reader' = [reader EXCEPT !.result = "command"]
        BY <1>1, <1>2, <1>3, ReadingPrintable
    <2>2. reader'.buf = reader.buf
        BY <1>2, <2>1 DEF Quoting, Reader
    <2> QED BY <1>1, <1>2, <1>8, <2>2
<1>5. Quoting(reader')
    BY <1>2, <1>3, <1>4, TakeKeepsQuoting
<1>6. ReadingInv'
    BY <1>1, <1>2, <1>3, <1>5 DEF ReadingInv, Inv
<1>7. TypeOK'
    <2>1. reader' \in Reader
        BY <1>5 DEF Quoting
    <2> QED BY <1>1, <2>1 DEF TypeOK, Inv, Reader
<1> QED
    BY <1>6, <1>7 DEF Inv

LEMMA CorrectKeepsInv == Inv /\ Correct => Inv'
<1> SUFFICES ASSUME Inv, Correct PROVE Inv'
    OBVIOUS
<1>1. /\ open /\ slip /\ reader' = readTL1(reader, "BS") /\ slip' = FALSE
      /\ UNCHANGED <<vendor, data, loggedIn, reply, meant, handled, proven, open, request, sent>>
    BY DEF Correct, Byte, deviceVars, sessionVars
<1> DEFINE x == SubSeq(Text(request), 1, sent)
<1>2. PICK b \in Printable : reader.buf = Append(x, b)
    BY <1>1 DEF Inv, ReadingInv
<1>3. x \in Seq(Printable) /\ Quoting(reader)
    <2>1. request \in Requests /\ sent \in Nat /\ sent < Len(Text(request)) /\ Quoting(reader)
        BY <1>1 DEF Inv, TypeOK, ReadingInv
    <2> QED BY <2>1, Texts
<1> HIDE DEF x
<1>4. reader.buf # <<>> /\ SubSeq(reader.buf, 1, Len(reader.buf) - 1) = x
    BY <1>2, <1>3, AppendProperties
<1>5. reader' = Erase(reader)
    BY <1>1, <1>3, <1>4, ReadingErase
<1>6. Quoting(reader') /\ reader'.buf = x
    BY <1>3, <1>4, <1>5, EraseKeepsQuoting
<1>7. ReadingInv'
    BY <1>1, <1>6 DEF ReadingInv, Inv, x
<1>8. TypeOK'
    <2>1. reader' \in Reader
        BY <1>6 DEF Quoting
    <2> QED BY <1>1, <2>1 DEF TypeOK, Inv, Reader
<1> QED
    BY <1>7, <1>8 DEF Inv

LEMMA IgnoredKeepsInv == ASSUME NEW b \in LineBreaks \union {"EOT"}, Inv, Ignored(b) PROVE Inv'
<1>1. /\ open /\ reader' = readTL1(reader, b) /\ reader'.result = "reading"
      /\ UNCHANGED <<vendor, data, loggedIn, reply, meant, handled, proven, open, request, sent, slip>>
    BY DEF Ignored, Byte, deviceVars, sessionVars
<1>2. b \notin Printable /\ b # "BS"
    BY ControlBytes DEF LineBreaks
<1>3. Quoting(reader)
    BY <1>1 DEF Inv, ReadingInv
<1>4. reader' = reader
    <2>1. [reader EXCEPT !.result = "error"].result = "error"
        BY <1>3 DEF Quoting, Reader
    <2> QED BY <1>1, <1>2, <1>3, <2>1, ReadingOther
<1> QED
    BY <1>1, <1>4 DEF Inv, TypeOK, ReadingInv

LEMMA ReadFailsKeepsInv == ASSUME NEW b \in {"ETX", "EOT"}, Inv, ReadFails(b) PROVE Inv'
<1>1. /\ open /\ reader' = readTL1(reader, b) /\ open' = FALSE
      /\ UNCHANGED <<vendor, data, loggedIn, reply, meant, handled, proven, request, sent, slip>>
    BY DEF ReadFails, Byte, deviceVars, sessionVars
<1>2. b \notin Printable
    BY ControlBytes
<1>3. reader' \in Reader
    BY <1>1, <1>2, ReadingOther DEF Inv, ReadingInv
<1> QED
    BY <1>1, <1>3 DEF Inv, TypeOK, ReadingInv, Reader

LEMMA NextInv == Inv /\ [Next]_vars => Inv'
<1> SUFFICES ASSUME Inv, [Next]_vars PROVE Inv'
    OBVIOUS
<1>1. CASE UNCHANGED vars
    BY <1>1 DEF vars, deviceVars, sessionVars, Inv, TypeOK, ReadingInv
<1> QED
    BY <1>1, TypeOnKeepsInv, SubmitKeepsInv, SlipKeepsInv, CorrectKeepsInv, IgnoredKeepsInv,
       ReadFailsKeepsInv DEF Next

LEMMA InvHolds == Spec => []Inv
BY InitInv, NextInv, PTL DEF Spec

\* The session's state has its type, and a command is observed under a label that was
\* registered for its driver.
THEOREM SessionTypesCorrect == Spec => []TypeOK
<1>1. Inv => TypeOK
    BY DEF Inv
<1> QED
    BY <1>1, InvHolds, PTL

\* Whatever is mistyped and erased and wherever lines are broken, readTL1 returns the
\* commands the client sent, none cut short at a quoted semicolon and none joined.
THEOREM CommandsAreReadWhole == Spec => []CommandsArriveWhole
<1>1. Inv => CommandsArriveWhole
    BY DEF Inv, ReadingInv, CommandsArriveWhole, Text
<1> QED
    BY <1>1, InvHolds, PTL

-----------------------------------------------------------------------------
(* What is answered. Only a command that is submitted is.                  *)

\* The other actions leave the answer and the login alone.
LEMMA OnlySubmitAnswers ==
    ASSUME Next
    PROVE  Submit \/ UNCHANGED <<vendor, data, loggedIn, reply, meant, handled, proven>>
BY DEF Next, TypeOn, Slip, Correct, Ignored, ReadFails, deviceVars, sessionVars

\* A command is a login if it was meant as one, and validTL1Login accepts it if the
\* name and the password that were meant are the configured ones.
LEMMA Login ==
    ASSUME NEW r \in Requests, NEW raw, ParsedAsMeant(r, raw)
    PROVE  /\ Verb(raw) = <<"ACT-USER">> <=> r.form = "login"
           /\ r.form = "login" =>
                 (validTL1Login(ActUserName(raw), ActUserPassword(raw)) <=> IsGoodLogin(r))
<1>1. CASE r.form = "empty"
    BY <1>1 DEF ParsedAsMeant
<1>2. CASE r.form # "empty"
    <2>1. Verb(raw) = <<Upper[r.verb]>>
        BY <1>2 DEF ParsedAsMeant
    <2>2. Verb(raw) = <<"ACT-USER">> <=> Upper[r.verb] = "ACT-USER"
        BY <2>1
    <2>3. Verb(raw) = <<"ACT-USER">> <=> r.form = "login"
        BY <2>2, RequestTypes
    <2>4. ASSUME r.form = "login"
          PROVE  validTL1Login(ActUserName(raw), ActUserPassword(raw)) <=> IsGoodLogin(r)
        BY <2>4 DEF ParsedAsMeant, validTL1Login, IsGoodLogin
    <2> QED BY <2>3, <2>4
<1> QED
    BY <1>1, <1>2

\* Each return of the dispatchers keeps the gate.
LEMMA SubmitKeepsGate == Inv /\ LoginGate /\ Submit => LoginGate'
<1> SUFFICES ASSUME Inv, LoginGate, Submit PROVE LoginGate'
    OBVIOUS
<1> DEFINE raw == reader.buf
<1>1. request \in Requests /\ ParsedAsMeant(request, raw)
    BY SubmittedWhole
<1>2. Dispatch(raw) /\ proven' = (proven \/ IsGoodLogin(request))
    BY DEF Submit
<1>3. (loggedIn <=> proven) /\ loggedIn \in BOOLEAN /\ proven \in BOOLEAN
    BY DEF LoginGate, Inv, TypeOK
<1>4. IsGoodLogin(request) => request.form = "login"
    BY DEF IsGoodLogin
<1>5. IsGoodLogin(request) => Verb(raw) = <<"ACT-USER">>
    BY <1>1, <1>4, Login
<1> DEFINE served == \E i \in DOMAIN reply'.blocks : reply'.blocks[i].code # "DENY"
<1>6. ASSUME NEW label, NEW sid, reply' = Deny(raw, label, sid) PROVE ~served
    BY <1>6 DEF Deny, Answer
<1> SUFFICES (loggedIn' <=> proven') /\ (served => proven')
    BY DEF LoginGate
<1> HIDE DEF raw, served
<1>7. ASSUME Verb(raw) # <<"ACT-USER">>, UNCHANGED loggedIn, loggedIn \/ ~served
      PROVE  (loggedIn' <=> proven') /\ (served => proven')
    BY <1>2, <1>3, <1>5, <1>7
<1>8. CASE EmptyCommand(raw)
    <2>1. ~served
        BY <1>8 DEF EmptyCommand, Silence, served
    <2> QED BY <1>7, <1>8, <2>1 DEF EmptyCommand
<1>9. CASE ActUser(raw)
    <2>1. Verb(raw) = <<"ACT-USER">> /\ request.form = "login"
        BY <1>1, <1>9, Login DEF ActUser
    <2>2. validTL1Login(ActUserName(raw), ActUserPassword(raw)) <=> IsGoodLogin(request)
        BY <1>1, <2>1, Login
    <2>3. CASE IsGoodLogin(request)
        BY <1>2, <1>9, <2>2, <2>3 DEF ActUser
    <2>4. CASE ~IsGoodLogin(request)
        <3>1. ~served /\ loggedIn' = loggedIn
            BY <1>6, <1>9, <2>2, <2>4 DEF ActUser
        <3> QED BY <1>2, <1>3, <2>4, <3>1
    <2> QED BY <2>3, <2>4
<1>10. CASE NotLoggedIn(raw)
    BY <1>6, <1>7, <1>10 DEF NotLoggedIn
<1>11. CASE Neighbours(raw)
    <2>1. Verb(raw) # <<"ACT-USER">>
        <3>1. vendor \in {"ciena_tl1", "infinera_tl1", "cisco_ons_tl1"}
            BY TL1Assumption DEF TL1Assumption, Inv, TypeOK
        <3>2. "ACT-USER" \notin NeighbourVerbs[vendor]
            BY <3>1 DEF NeighbourVerbs
        <3> QED BY <1>11, <3>2 DEF Neighbours, Asks
    <2> QED BY <1>7, <1>11, <2>1 DEF Neighbours, Asks
<1>12. CASE UnknownNode(raw)
    BY <1>6, <1>7, <1>12 DEF UnknownNode, AsksOtherThan
<1>13. ASSUME Asks(raw, Reports[vendor]) PROVE Verb(raw) # <<"ACT-USER">> /\ loggedIn
    <2>1. vendor \in {"ciena_tl1", "infinera_tl1", "cisco_ons_tl1"}
        BY TL1Assumption DEF TL1Assumption, Inv, TypeOK
    <2>2. "ACT-USER" \notin Reports[vendor]
        BY <2>1 DEF Reports, SharedReports
    <2> QED BY <1>13, <2>2 DEF Asks
<1>14. CASE LocalReport(raw)
    BY <1>7, <1>13, <1>14 DEF LocalReport
<1>15. CASE RemoteReport(raw)
    BY <1>7, <1>13, <1>15 DEF RemoteReport
<1>16. CASE UnknownVerb(raw)
    BY <1>6, <1>7, <1>16 DEF UnknownVerb, AsksOtherThan
<1> QED
    BY <1>2, <1>8, <1>9, <1>10, <1>11, <1>12, <1>14, <1>15, <1>16 DEF Dispatch

\* No TL1 session answers anything but a denial before a login with the configured
\* name and password, and it is logged in from the first such login on.
THEOREM GateHolds == Spec => []LoginGate
<1>1. Init => LoginGate
    BY DEF Init, LoginGate, Silence
<1>2. Inv /\ LoginGate /\ [Next]_vars => LoginGate'
    <2> SUFFICES ASSUME Inv, LoginGate, [Next]_vars PROVE LoginGate'
        OBVIOUS
    <2>1. CASE UNCHANGED <<vendor, data, loggedIn, reply, meant, handled, proven>>
        BY <2>1 DEF LoginGate
    <2> QED BY <2>1, OnlySubmitAnswers, SubmitKeepsGate DEF vars, deviceVars, sessionVars
<1> QED
    BY <1>1, <1>2, InvHolds, PTL DEF Spec

-----------------------------------------------------------------------------
\* Each return of the dispatchers echoes the tag or sends nothing.
LEMMA SubmitCorrelates == Inv /\ Submit => RepliesAreCorrelated'
<1> SUFFICES ASSUME Inv, Submit PROVE RepliesAreCorrelated'
    OBVIOUS
<1> DEFINE raw == reader.buf
<1>1. request \in Requests /\ ParsedAsMeant(request, raw)
    BY SubmittedWhole
<1>2. Dispatch(raw) /\ meant' = request
    BY DEF Submit
<1> HIDE DEF raw
<1>3. Verb(raw) # <<>> => Ctag(raw) = request.ctag
    BY <1>1 DEF ParsedAsMeant
<1>4. CASE EmptyCommand(raw)
    BY <1>4 DEF EmptyCommand, Silence, RepliesAreCorrelated
<1>5. CASE Verb(raw) # <<>> /\ reply'.ctag = Ctag(raw)
    BY <1>2, <1>3, <1>5 DEF RepliesAreCorrelated
<1>6. CASE ActUser(raw)
    BY <1>5, <1>6 DEF ActUser, Answer, Deny
<1>7. CASE NotLoggedIn(raw)
    BY <1>5, <1>7 DEF NotLoggedIn, Answer, Deny
<1>8. CASE Neighbours(raw)
    BY <1>5, <1>8 DEF Neighbours, Asks, Answer
<1>9. CASE UnknownNode(raw)
    BY <1>5, <1>9 DEF UnknownNode, AsksOtherThan, Answer, Deny
<1>10. CASE LocalReport(raw)
    BY <1>5, <1>10, ReportFields DEF LocalReport, Asks
<1>11. CASE RemoteReport(raw)
    BY <1>5, <1>11, ReportFields DEF RemoteReport, Asks
<1>12. CASE UnknownVerb(raw)
    BY <1>5, <1>12 DEF UnknownVerb, AsksOtherThan, Answer, Deny
<1> QED
    BY <1>2, <1>4, <1>6, <1>7, <1>8, <1>9, <1>10, <1>11, <1>12 DEF Dispatch

\* A response carries the tag of the request it answers.
THEOREM TagsAreEchoed == Spec => []RepliesAreCorrelated
<1>1. Init => RepliesAreCorrelated
    BY DEF Init, RepliesAreCorrelated, Silence
<1>2. Inv /\ RepliesAreCorrelated /\ [Next]_vars => RepliesAreCorrelated'
    <2> SUFFICES ASSUME Inv, RepliesAreCorrelated, [Next]_vars PROVE RepliesAreCorrelated'
        OBVIOUS
    <2>1. CASE UNCHANGED <<vendor, data, loggedIn, reply, meant, handled, proven>>
        BY <2>1 DEF RepliesAreCorrelated
    <2> QED BY <2>1, OnlySubmitAnswers, SubmitCorrelates DEF vars, deviceVars, sessionVars
<1> QED
    BY <1>1, <1>2, InvHolds, PTL DEF Spec

-----------------------------------------------------------------------------
(* Sections.                                                               *)

\* The lines of a config file.
LEMMA DataTypes ==
    ASSUME Inv
    PROVE  /\ data \in Seq([marker : BOOLEAN, text : Seq(Words)])
           /\ Len(data) \in Nat /\ MarkerLines \subseteq 1..Len(data)
           /\ DOMAIN data = 1..Len(data)
<1>1. data \in Seq([marker : BOOLEAN, text : Seq(Words)])
    BY TL1Assumption DEF TL1Assumption, Inv, TypeOK
<1> QED
    BY <1>1 DEF MarkerLines

\* A section ends at the first marker behind its own, or with the file.
LEMMA NextMarkerIsNext ==
    ASSUME Inv, NEW m \in 0..Len(data)
    PROVE  /\ NextMarker(m) \in (m + 1)..(Len(data) + 1)
           /\ \A k \in MarkerLines : k <= m \/ NextMarker(m) <= k
<1> DEFINE after == {j \in MarkerLines : j > m}
<1>1. MarkerLines \subseteq 1..Len(data) /\ Len(data) \in Nat
    BY DataTypes
<1>4. after \in SUBSET Nat /\ \A j \in after : j \in (m + 1)..(Len(data) + 1)
    <2>1. \A j \in after : j \in 1..Len(data) /\ j > m
        BY <1>1
    <2> HIDE DEF after
    <2>2. \A j \in after : j \in (m + 1)..(Len(data) + 1)
        BY <1>1, <2>1
    <2>3. \A j \in after : j \in Nat
        BY <1>1, <2>1
    <2> QED BY <2>2, <2>3
<1>5. \A k \in MarkerLines : k <= m \/ k \in after
    BY <1>1
<1>2. CASE after = {}
    <2>1. NextMarker(m) = Len(data) + 1
        BY <1>2 DEF NextMarker
    <2> HIDE DEF after
    <2> QED BY <1>1, <1>2, <1>5, <2>1
<1>3. CASE after # {}
    <2>1. NextMarker(m) = CHOOSE j \in after : \A j2 \in after : j <= j2
        BY <1>3 DEF NextMarker
    <2>3. \E j \in after : \A j2 \in after : j <= j2
        <3> HIDE DEF after
        <3> QED BY <1>3, <1>4, LeastElement
    <2>4. NextMarker(m) \in after /\ \A j2 \in after : NextMarker(m) <= j2
        <3> HIDE DEF after
        <3> QED BY <2>1, <2>3
    <2> HIDE DEF after
    <2> QED BY <1>4, <1>5, <2>4
<1> QED
    BY <1>2, <1>3

\* A section holds the lines between two neighbouring markers.
LEMMA LinesOfSection ==
    ASSUME Inv, NEW m \in 0..Len(data), NEW i \in DOMAIN Section(m)
    PROVE  /\ m + i \in DOMAIN data \ MarkerLines /\ m < m + i
           /\ Section(m)[i] = data[m + i]
           /\ \A k \in MarkerLines : k <= m \/ k > m + i
<1> DEFINE n == NextMarker(m)
           T == [marker : BOOLEAN, text : Seq(Words)]
<1>1. /\ data \in Seq(T) /\ DOMAIN data = 1..Len(data) /\ Len(data) \in Nat
      /\ MarkerLines \subseteq 1..Len(data)
    BY DataTypes
<1>2. n \in (m + 1)..(Len(data) + 1) /\ \A k \in MarkerLines : k <= m \/ n <= k
    BY NextMarkerIsNext
<1>3. Section(m) = SubSeq(data, m + 1, n - 1)
    BY DEF Section
<1> HIDE DEF n, T
<1>4. m + 1 \in Int /\ n - 1 \in Int /\ \A p \in (m + 1)..(n - 1) : p \in 1..Len(data)
    BY <1>1, <1>2
<1>5. Len(Section(m)) = n - 1 - m /\ Section(m) \in Seq(T)
    BY <1>1, <1>2, <1>3
<1>6. i \in 1..(n - 1 - m)
    BY <1>5
<1>7. Section(m)[i] = data[m + 1 + i - 1] /\ m + 1 + i - 1 = m + i
    BY <1>1, <1>2, <1>3, <1>6
<1>8. m + i \in 1..Len(data) /\ m < m + i /\ m + i < n
    BY <1>2, <1>6
<1>9. \A k \in MarkerLines : k <= m \/ k > m + i
    BY <1>1, <1>2, <1>8
<1>10. m + i \notin MarkerLines
    BY <1>8, <1>9
<1> QED
    BY <1>1, <1>7, <1>8, <1>9, <1>10

\* Section 0 holds lines above every marker.
LEMMA TopSection ==
    ASSUME Inv, NEW i \in DOMAIN Section(0)
    PROVE  Section(0)[i] \in LinesOnTop
<1>1. 0 \in 0..Len(data) /\ MarkerLines \subseteq 1..Len(data) /\ Len(data) \in Nat
    BY DataTypes
<1>2. /\ 0 + i \in DOMAIN data \ MarkerLines /\ Section(0)[i] = data[0 + i]
      /\ \A k \in MarkerLines : k <= 0 \/ k > 0 + i
    BY <1>1, LinesOfSection
<1>3. \A k \in MarkerLines : 0 + i < k
    BY <1>1, <1>2, DataTypes
<1> QED
    BY <1>2, <1>3 DEF LinesOnTop

\* The inventory of a known node stands under a marker of that node.
LEMMA NodeSection ==
    ASSUME Inv, NEW node, Known(node), NEW i \in DOMAIN InventoryOf(node)
    PROVE  InventoryOf(node)[i] \in LinesUnder(node)
<1> DEFINE M == MarkersOf(node)
           m == CHOOSE x \in M : \A y \in M : y <= x
<1>1. M # {} /\ M \subseteq MarkerLines /\ M \in SUBSET (0..Len(data)) /\ Len(data) \in Nat
    BY DataTypes DEF Known, MarkersOf
<1>2. m \in M
    <2>1. \E x \in M : \A y \in M : y <= x
        <3> HIDE DEF M
        <3> QED BY <1>1, GreatestElement
    <2> QED BY <2>1
<1>3. InventoryOf(node) = Section(m)
    BY DEF InventoryOf
<1> HIDE DEF M, m
<1>4. m \in 0..Len(data)
    BY <1>1, <1>2
<1>5. /\ m + i \in DOMAIN data \ MarkerLines /\ Section(m)[i] = data[m + i]
      /\ \A k \in MarkerLines : k <= m \/ k > m + i
    BY <1>3, <1>4, LinesOfSection
<1>6. m < m + i
    BY <1>3, <1>4, LinesOfSection
<1> QED
    BY <1>2, <1>3, <1>5, <1>6 DEF LinesUnder, M

\* Each return of the dispatchers streams lines of the node asked for or none.
LEMMA SubmitKeepsApart == Inv /\ Submit => NoStrangersInventory'
<1> SUFFICES ASSUME Inv, Submit PROVE NoStrangersInventory'
    OBVIOUS
<1> DEFINE raw == reader.buf
<1>1. request \in Requests /\ ParsedAsMeant(request, raw)
    BY SubmittedWhole
<1>2. Dispatch(raw) /\ meant' = request /\ data' = data
    BY DEF Submit, deviceVars
<1> HIDE DEF raw
<1>3. Verb(raw) # <<>> => Tid(raw) = request.tid
    BY <1>1 DEF ParsedAsMeant
<1>4. LinesOnTop' = LinesOnTop /\ \A node : LinesUnder(node)' = LinesUnder(node)
    BY <1>2 DEF LinesOnTop, LinesUnder, MarkersOf, MarkerLines, NodeAt
<1>5. CASE reply'.body = <<>>
    BY <1>5 DEF NoStrangersInventory
<1>6. CASE LocalReport(raw)
    <2>1. tidIsLocal(request.tid) /\ (reply'.body = Section(0) \/ reply'.body = <<>>)
        BY <1>3, <1>6, ReportFields DEF LocalReport, Asks
    <2> QED BY <1>2, <1>4, <1>5, <2>1, TopSection DEF NoStrangersInventory
<1>7. CASE RemoteReport(raw)
    <2> DEFINE node == ToUpper(request.tid)
    <2>1. /\ ~tidIsLocal(request.tid) /\ Known(node)
          /\ reply'.body = InventoryOf(node) \/ reply'.body = <<>>
        BY <1>3, <1>7, ReportFields DEF RemoteReport, Asks
    <2> HIDE DEF node
    <2>2. \A i \in DOMAIN InventoryOf(node) : InventoryOf(node)[i] \in LinesUnder(node)
        BY <2>1, NodeSection
    <2> QED BY <1>2, <1>4, <1>5, <2>1, <2>2 DEF NoStrangersInventory, node
<1>8. CASE EmptyCommand(raw)
    BY <1>5, <1>8 DEF EmptyCommand, Silence
<1>9. CASE ActUser(raw)
    BY <1>5, <1>9 DEF ActUser, Answer, Deny
<1>10. CASE NotLoggedIn(raw)
    BY <1>5, <1>10 DEF NotLoggedIn, Answer, Deny
<1>11. CASE Neighbours(raw)
    BY <1>5, <1>11 DEF Neighbours, Answer
<1>12. CASE UnknownNode(raw)
    BY <1>5, <1>12 DEF UnknownNode, Answer, Deny
<1>13. CASE UnknownVerb(raw)
    BY <1>5, <1>13 DEF UnknownVerb, Answer, Deny
<1> QED
    BY <1>2, <1>6, <1>7, <1>8, <1>9, <1>10, <1>11, <1>12, <1>13 DEF Dispatch

\* Whatever the config file, no response holds a marker or a line that stands under
\* the marker of another node than the one the command was addressed to.
THEOREM InventoriesAreTheirOwn == Spec => []NoStrangersInventory
<1>1. Init => NoStrangersInventory
    BY DEF Init, NoStrangersInventory, Silence
<1>2. Inv /\ NoStrangersInventory /\ [Next]_vars => NoStrangersInventory'
    <2> SUFFICES ASSUME Inv, NoStrangersInventory, [Next]_vars PROVE NoStrangersInventory'
        OBVIOUS
    <2>1. CASE UNCHANGED <<vendor, data, loggedIn, reply, meant, handled, proven>>
        <3>1. LinesOnTop' = LinesOnTop /\ \A node : LinesUnder(node)' = LinesUnder(node)
            BY <2>1 DEF LinesOnTop, LinesUnder, MarkersOf, MarkerLines, NodeAt
        <3> QED BY <2>1, <3>1 DEF NoStrangersInventory
    <2> QED BY <2>1, OnlySubmitAnswers, SubmitKeepsApart DEF vars, deviceVars, sessionVars
<1> QED
    BY <1>1, <1>2, InvHolds, PTL DEF Spec

-----------------------------------------------------------------------------
(* Paging.                                                                 *)

LEMMA UpperCaseWords == \A f \in Seq(Words) : ToUpper(f) \in Seq(Words)
<1> SUFFICES ASSUME NEW f \in Seq(Words) PROVE ToUpper(f) \in Seq(Words)
    OBVIOUS
<1>1. Upper \in [Words -> Words]
    BY TL1Assumption DEF TL1Assumption
<1>2. ToUpper(f) = [i \in 1..Len(f) |-> Upper[f[i]]]
    BY DEF ToUpper
<1>3. \A i \in 1..Len(f) : Upper[f[i]] \in Words
    BY <1>1
<1> QED
    BY <1>2, <1>3

\* The TIDs of the file, a recursive function of it, are a sequence.
LEMMA OrderIsSequence ==
    ASSUME Inv
    PROVE  Order \in Seq(Seq(Words)) /\ Len(Order) \in Nat
<1> DEFINE N == Len(data)
           S == Seq(Seq(Words))
           E(g, i) == IF i = 0 THEN <<>>
                      ELSE IF data[i].marker /\ data[i].text # <<>>
                           THEN Append(g[i - 1], ToUpper(data[i].text))
                      ELSE g[i - 1]
           upTo == CHOOSE g : g = [i \in 0..N |-> E(g, i)]
           step == [i \in 1..N |-> [s \in S |->
                       IF data[i].marker /\ data[i].text # <<>>
                       THEN Append(s, ToUpper(data[i].text)) ELSE s]]
<1>1. N \in Nat /\ \A i \in 1..N : ToUpper(data[i].text) \in Seq(Words)
    <2>1. data \in Seq([marker : BOOLEAN, text : Seq(Words)]) /\ Len(data) \in Nat
        BY DataTypes
    <2>2. \A i \in 1..N : data[i] \in [marker : BOOLEAN, text : Seq(Words)]
        BY <2>1, ElementOfSeq
    <2>3. \A i \in 1..N : data[i].text \in Seq(Words)
        BY <2>2
    <2> QED BY <2>1, <2>3, UpperCaseWords
<1>2. OrderOf(data) = upTo[N]
    BY DEF OrderOf
<1>3. <<>> \in S /\ \A i \in 1..N : \A s \in S : Append(s, ToUpper(data[i].text)) \in S
    BY <1>1
<1>4. step \in [1..N -> [S -> S]]
    <2> HIDE DEF S, N
    <2> QED BY <1>3
<1>5. \A i \in 1..N : \A s \in S :
          step[i][s] = IF data[i].marker /\ data[i].text # <<>>
                       THEN Append(s, ToUpper(data[i].text)) ELSE s
    <2> HIDE DEF S, N
    <2> QED OBVIOUS
<1> HIDE DEF step, S, N
<1>6. PICK g \in [0..N -> S] : g[0] = <<>> /\ \A i \in 1..N : g[i] = step[i][g[i - 1]]
    <2> DEFINE start == <<>>
    <2>1. N \in Nat /\ start \in S
        BY <1>1, <1>3
    <2> HIDE DEF start
    <2>2. PICK g \in [0..N -> S] : g[0] = start /\ \A i \in 1..N : g[i] = step[i][g[i - 1]]
        BY <1>4, <2>1, RecursionIsDefined
    <2> QED BY <2>2 DEF start
<1>7. \A i \in 1..N : i - 1 \in 0..N /\ g[i - 1] \in S
    BY <1>1, <1>6
<1>8. \A i \in 1..N : i # 0 /\ g[i] = E(g, i)
    <2>1. \A i \in 1..N : i # 0
        BY <1>1
    <2>2. ASSUME NEW i \in 1..N
          PROVE  g[i] = IF data[i].marker /\ data[i].text # <<>>
                        THEN Append(g[i - 1], ToUpper(data[i].text)) ELSE g[i - 1]
        BY <1>5, <1>6, <1>7
    <2> QED BY <2>1, <2>2
<1>9. \A i \in 0..N : g[i] = E(g, i)
    <2>1. \A i \in 0..N : i = 0 \/ i \in 1..N
        BY <1>1
    <2>2. g[0] = E(g, 0)
        BY <1>6
    <2> HIDE DEF E
    <2> QED BY <1>8, <2>1, <2>2
<1>10. g = [i \in 0..N |-> E(g, i)]
    <2> HIDE DEF E
    <2> QED BY <1>6, <1>9
<1>11. upTo = [i \in 0..N |-> E(upTo, i)]
    <2> HIDE DEF E
    <2> QED BY <1>10
<1> HIDE DEF upTo
<1>12. upTo[0] = <<>> /\ \A i \in 1..N : upTo[i] = E(upTo, i)
    <2>1. 0 \in 0..N /\ \A i \in 1..N : i \in 0..N
        BY <1>1
    <2>2. upTo[0] = E(upTo, 0) /\ \A i \in 1..N : upTo[i] = E(upTo, i)
        <3> HIDE DEF E
        <3> QED BY <1>11, <2>1
    <2> QED BY <2>2
<1>13. upTo[N] \in S
    <2> DEFINE T == {i \in Nat : i <= N => upTo[i] \in S}
    <2>1. 0 \in T
        BY <1>3, <1>12
    <2>2. ASSUME NEW i \in Nat, i \in T PROVE i + 1 \in T
        <3> SUFFICES ASSUME i + 1 <= N PROVE upTo[i + 1] \in S
            OBVIOUS
        <3>1. upTo[i] \in S /\ i + 1 \in 1..N /\ (i + 1) - 1 = i /\ i + 1 # 0
            BY <1>1, <2>2
        <3>2. upTo[i + 1] = E(upTo, i + 1)
            <4> HIDE DEF E
            <4> QED BY <1>12, <3>1
        <3> QED BY <1>3, <3>1, <3>2
    <2>3. N \in T
        <3> HIDE DEF T
        <3> QED BY <1>1, <2>1, <2>2, Induction
    <2> QED BY <2>3
<1>14. Order \in Seq(Seq(Words))
    BY <1>2, <1>13 DEF Order, S
<1> QED
    BY <1>14

\* What blocks list is known from a function that adds one block at a time.
LEMMA ListedBySteps ==
    ASSUME NEW b, Len(b) \in Nat, NEW f,
           f = [p \in 0..Len(b) |-> IF p = 0 THEN <<>> ELSE f[p - 1] \o b[p].tids]
    PROVE  Listed(b) = f[Len(b)]
<1> DEFINE N == Len(b)
           E(g, p) == IF p = 0 THEN <<>> ELSE g[p - 1] \o b[p].tids
           from == CHOOSE g : g = [p \in 0..N |-> E(g, p)]
<1>1. Listed(b) = from[N]
    BY DEF Listed
<1>2. from = [p \in 0..N |-> E(from, p)]
    <2>1. f = [p \in 0..N |-> E(f, p)]
        OBVIOUS
    <2> HIDE DEF E, N
    <2> QED BY <2>1
<1> HIDE DEF from
<1> DEFINE T == {p \in Nat : p <= N => from[p] = f[p]}
<1>3. 0 \in T
    BY <1>2
<1>4. ASSUME NEW p \in Nat, p \in T PROVE p + 1 \in T
    <2> SUFFICES ASSUME p + 1 <= N PROVE from[p + 1] = f[p + 1]
        OBVIOUS
    <2>1. from[p] = f[p] /\ p + 1 \in 0..N /\ (p + 1) - 1 = p /\ p + 1 # 0
        BY <1>4
    <2> QED BY <1>2, <2>1
<1>5. N \in T
    <2> HIDE DEF T
    <2> QED BY <1>3, <1>4, Induction
<1> QED
    BY <1>1, <1>5

\* A single block lists its own TIDs.
LEMMA OneBlock ==
    ASSUME NEW X, NEW t \in Seq(X), NEW c
    PROVE  Listed(<<[code |-> c, tids |-> t]>>) = t
<1> DEFINE b == <<[code |-> c, tids |-> t]>>
           f == [p \in 0..1 |-> IF p = 0 THEN <<>> ELSE t]
<1>1. Len(b) = 1 /\ b[1].tids = t
    OBVIOUS
<1>2. <<>> \o t = t
    OBVIOUS
<1>3. f = [p \in 0..1 |-> IF p = 0 THEN <<>> ELSE f[p - 1] \o b[p].tids]
    BY <1>1, <1>2
<1>4. Len(b) \in Nat /\ 0..Len(b) = 0..1
    BY <1>1
<1> HIDE DEF b, f
<1>5. Listed(b) = f[Len(b)]
    BY <1>3, <1>4, ListedBySteps
<1> QED
    BY <1>1, <1>5 DEF b, f

LEMMA Division ==
    ASSUME NEW a \in Nat, NEW k \in Nat \ {0}
    PROVE  a \div k \in Nat /\ k * (a \div k) <= a /\ a < k * (a \div k) + k
OBVIOUS

\* There are as many pages as it takes, and the last one is not empty.
LEMMA PageNumbers ==
    ASSUME NEW n \in Nat, NEW k \in Nat \ {0}, NEW pages, pages = (n + k - 1) \div k
    PROVE  /\ pages \in Nat /\ (pages = 0 => n = 0) /\ n <= pages * k
           /\ (n > 0 => pages > 0 /\ (pages - 1) * k < n)
<1>1. n + k - 1 \in Nat
    OBVIOUS
<1>2. pages \in Nat /\ k * pages <= n + k - 1 /\ n + k - 1 < k * pages + k
    BY <1>1, Division
<1>3. (pages - 1) * k = pages * k - k /\ k * pages = pages * k /\ k * pages \in Nat
    BY <1>2
<1>4. pages = 0 => k * pages = 0
    BY <1>2
<1> QED
    BY <1>2, <1>3, <1>4

LEMMA PagesDoNotGoBack ==
    ASSUME NEW p \in Nat, NEW q \in Nat, p <= q, NEW k \in Nat
    PROVE  p * k \in Nat /\ q * k \in Nat /\ p * k <= q * k
<1>1. q - p \in Nat /\ (q - p) * k \in Nat /\ q * k = p * k + (q - p) * k
    OBVIOUS
<1> QED
    BY <1>1

LEMMA Prefixes ==
    ASSUME NEW X, NEW x \in Seq(X), NEW i \in 0..Len(x), NEW j \in i..Len(x)
    PROVE  SubSeq(x, 1, i) \o SubSeq(x, i + 1, j) = SubSeq(x, 1, j)
OBVIOUS

\* Where the pages of a list of n end, k to a page.
EndOf(n, k, pages, p) == IF p = pages THEN n ELSE p * k

\* Each page begins where the last one ended, holds at most k, and only the last one
\* ends where the list does.
LEMMA PageEnds ==
    ASSUME NEW n \in Nat, NEW k \in Nat \ {0}, NEW pages \in Nat \ {0},
           pages = (n + k - 1) \div k
    PROVE  /\ n > 0 /\ EndOf(n, k, pages, 0) = 0 /\ EndOf(n, k, pages, pages) = n
           /\ \A p \in 1..pages :
                 /\ EndOf(n, k, pages, p - 1) = (p - 1) * k
                 /\ EndOf(n, k, pages, p) \in EndOf(n, k, pages, p - 1)..n
                 /\ EndOf(n, k, pages, p - 1) \in 0..n
                 /\ EndOf(n, k, pages, p) - EndOf(n, k, pages, p - 1) <= k
                 /\ EndOf(n, k, pages, p) = n <=> p = pages
<1>1. n > 0
    <2> SUFFICES ASSUME n = 0 PROVE FALSE
        OBVIOUS
    <2>1. k * pages <= k - 1
        BY Division
    <2>2. k * pages = k + k * (pages - 1) /\ k * (pages - 1) \in Nat
        OBVIOUS
    <2> QED BY <2>1, <2>2
<1>2. n <= pages * k /\ (pages - 1) * k < n /\ pages * k \in Nat
    BY <1>1, PageNumbers
<1>3. ASSUME NEW p \in 1..pages
      PROVE  /\ (p - 1) * k \in Nat /\ p * k \in Nat /\ p * k = (p - 1) * k + k
             /\ (p - 1) * k < n
             /\ p < pages => p * k < n
    <2>1. (p - 1) * k \in Nat /\ p * k \in Nat /\ p * k = (p - 1) * k + k
        OBVIOUS
    <2>2. (p - 1) * k <= (pages - 1) * k
        BY PagesDoNotGoBack
    <2>3. p < pages => p * k <= (pages - 1) * k
        BY PagesDoNotGoBack
    <2>4. (pages - 1) * k \in Int
        OBVIOUS
    <2> QED BY <1>2, <2>1, <2>2, <2>3, <2>4
<1>4. ASSUME NEW p \in 1..pages
      PROVE  /\ EndOf(n, k, pages, p - 1) = (p - 1) * k
             /\ p = pages => EndOf(n, k, pages, p) = n
             /\ p # pages => EndOf(n, k, pages, p) = p * k /\ p < pages
    BY DEF EndOf
<1>5. n <= (pages - 1) * k + k
    BY <1>2, <1>3
<1>6. 0 * k = 0
    OBVIOUS
<1>7. \A p \in 1..pages :
          /\ EndOf(n, k, pages, p - 1) = (p - 1) * k
          /\ EndOf(n, k, pages, p) \in EndOf(n, k, pages, p - 1)..n
          /\ EndOf(n, k, pages, p - 1) \in 0..n
          /\ EndOf(n, k, pages, p) - EndOf(n, k, pages, p - 1) <= k
          /\ EndOf(n, k, pages, p) = n <=> p = pages
    <2> SUFFICES ASSUME NEW p \in 1..pages
                 PROVE  /\ EndOf(n, k, pages, p - 1) = (p - 1) * k
                        /\ EndOf(n, k, pages, p) \in EndOf(n, k, pages, p - 1)..n
                        /\ EndOf(n, k, pages, p - 1) \in 0..n
                        /\ EndOf(n, k, pages, p) - EndOf(n, k, pages, p - 1) <= k
                        /\ EndOf(n, k, pages, p) = n <=> p = pages
        OBVIOUS
    <2> DEFINE a == EndOf(n, k, pages, p - 1)
               e == EndOf(n, k, pages, p)
               q == (p - 1) * k
    <2>1. CASE p = pages
        <3>1. a = q /\ e = n /\ q \in Nat /\ q < n /\ q = (pages - 1) * k
            BY <1>3, <1>4, <2>1
        <3>2. n <= q + k
            BY <1>5, <3>1
        <3> HIDE DEF a, e, q
        <3>3. e \in a..n /\ a \in 0..n /\ e - a <= k /\ e = n
            BY <3>1, <3>2
        <3> QED BY <2>1, <3>1, <3>3 DEF a, e, q
    <2>2. CASE p # pages
        BY <1>3, <1>4, <2>2
    <2> QED BY <2>1, <2>2
<1> QED
    BY <1>1, <1>6, <1>7 DEF EndOf

\* The pages of RTRV-TIDMAP: their codes, their lengths and what they list together.
LEMMA PagesOfTids ==
    ASSUME Inv
    PROVE  /\ \A p \in DOMAIN tidmapPages : (tidmapPages[p].code = "RTRV") <=> p < Len(tidmapPages)
           /\ \A p \in DOMAIN tidmapPages : Len(tidmapPages[p].tids) <= PageSize
           /\ Listed(tidmapPages) = Order
<1> DEFINE n == Len(Order)
           k == PageSize
           pages == (n + k - 1) \div k
           end(p) == EndOf(n, k, pages, p)
           b == tidmapPages
           X == Seq(Words)
<1>1. Order \in Seq(X) /\ n \in Nat /\ k \in Nat \ {0}
    BY OrderIsSequence, TL1Assumption DEF TL1Assumption
<1>2. pages \in Nat /\ (pages = 0 => n = 0)
    <2> HIDE DEF n, k
    <2> QED BY <1>1, PageNumbers
<1>3. CASE pages = 0
    <2>1. tidmapPages = <<[code |-> "COMPLD", tids |-> <<>>]>>
        BY <1>3 DEF tidmapPages, Compld
    <2>2. Listed(tidmapPages) = <<>>
        <3>1. <<>> \in Seq(X)
            OBVIOUS
        <3> HIDE DEF X
        <3> QED BY <2>1, <3>1, OneBlock
    <2>3. Order = <<>>
        BY <1>1, <1>2, <1>3
    <2> QED BY <1>1, <2>1, <2>2, <2>3
<1>4. CASE pages # 0
    <2>1. b = [p \in 1..pages |->
                  [code |-> IF end(p) = n THEN "COMPLD" ELSE "RTRV",
                   tids |-> SubSeq(Order, (p - 1) * k + 1, end(p))]]
        BY <1>4 DEF tidmapPages, EndOf
    <2> HIDE DEF b
    <2>2. Len(b) = pages /\ DOMAIN b = 1..pages
        <3> HIDE DEF pages, n, end
        <3> QED BY <1>2, <2>1
    <2>3. /\ end(0) = 0 /\ end(pages) = n
          /\ \A p \in 1..pages :
                /\ end(p - 1) = (p - 1) * k /\ end(p) \in end(p - 1)..n /\ end(p - 1) \in 0..n
                /\ end(p) - end(p - 1) <= k /\ (end(p) = n <=> p = pages)
        <3>1. pages = (n + k - 1) \div k /\ pages \in Nat \ {0}
            BY <1>2, <1>4
        <3>2. n \in Nat /\ k \in Nat \ {0}
            BY <1>1
        <3> HIDE DEF n, k, pages
        <3>3. /\ EndOf(n, k, pages, 0) = 0 /\ EndOf(n, k, pages, pages) = n
              /\ \A p \in 1..pages :
                    /\ EndOf(n, k, pages, p - 1) = (p - 1) * k
                    /\ EndOf(n, k, pages, p) \in EndOf(n, k, pages, p - 1)..n
                    /\ EndOf(n, k, pages, p - 1) \in 0..n
                    /\ EndOf(n, k, pages, p) - EndOf(n, k, pages, p - 1) <= k
                    /\ EndOf(n, k, pages, p) = n <=> p = pages
            BY <3>1, <3>2, PageEnds
        <3> QED BY <3>3
    <2> HIDE DEF end, pages
    <2>4. \A p \in 1..pages :
              /\ b[p].code = IF p = pages THEN "COMPLD" ELSE "RTRV"
              /\ b[p].tids = SubSeq(Order, end(p - 1) + 1, end(p))
        <3> HIDE DEF n, k
        <3> QED BY <2>1, <2>3
    <2>5. \A p \in DOMAIN b : (b[p].code = "RTRV") <=> p < Len(b)
        <3>1. \A p \in 1..pages : p # pages <=> p < pages
            BY <1>2
        <3> QED BY <2>2, <2>4, <3>1
    <2>6. \A p \in DOMAIN b : Len(b[p].tids) <= k
        <3> SUFFICES ASSUME NEW p \in 1..pages PROVE Len(b[p].tids) <= k
            BY <2>2
        <3>1. end(p) \in end(p - 1)..n /\ end(p - 1) \in 0..n /\ end(p) - end(p - 1) <= k
            BY <2>3
        <3>2. Len(SubSeq(Order, end(p - 1) + 1, end(p))) = end(p) - end(p - 1)
            <4>1. \A x \in Seq(X) : \A i \in 0..Len(x) : \A j \in i..Len(x) :
                      Len(SubSeq(x, i + 1, j)) = j - i
                OBVIOUS
            <4> QED BY <1>1, <3>1, <4>1
        <3> QED BY <2>4, <3>1, <3>2
    <2>7. Listed(b) = Order
        <3> DEFINE f == [p \in 0..pages |-> SubSeq(Order, 1, end(p))]
        <3>1. f[0] = <<>> /\ f[pages] = Order
            BY <1>1, <1>2, <2>3
        <3>2. ASSUME NEW p \in 1..pages PROVE f[p] = f[p - 1] \o b[p].tids
            <4>1. end(p) \in end(p - 1)..n /\ end(p - 1) \in 0..n
                BY <2>3
            <4>2. SubSeq(Order, 1, end(p - 1)) \o SubSeq(Order, end(p - 1) + 1, end(p))
                      = SubSeq(Order, 1, end(p))
                <5> HIDE DEF X
                <5> QED BY <1>1, <4>1, Prefixes
            <4>3. p \in 0..pages /\ p - 1 \in 0..pages
                BY <1>2
            <4> QED BY <2>4, <4>2, <4>3
        <3>3. DOMAIN f = 0..pages /\ f = [p \in 0..pages |-> f[p]]
            OBVIOUS
        <3> HIDE DEF f
        <3>4. \A p \in 0..pages : f[p] = IF p = 0 THEN <<>> ELSE f[p - 1] \o b[p].tids
            <4>1. \A p \in 0..pages : p = 0 \/ (p # 0 /\ p \in 1..pages)
                BY <1>2
            <4> QED BY <3>1, <3>2, <4>1
        <3>5. f = [p \in 0..Len(b) |-> IF p = 0 THEN <<>> ELSE f[p - 1] \o b[p].tids]
            BY <2>2, <3>3, <3>4
        <3>6. Listed(b) = f[Len(b)]
            BY <1>2, <2>2, <3>5, ListedBySteps
        <3> QED BY <2>2, <3>1, <3>6
    <2> QED BY <2>5, <2>6, <2>7 DEF b
<1> QED
    BY <1>3, <1>4

\* Any response but the neighbours' is a single block, and under another label.
LEMMA OneBlockAnswers ==
    ASSUME Inv, NEW c, reply'.blocks = <<>> \/ reply'.blocks = <<[code |-> c, tids |-> <<>>]>>,
           c # "RTRV", reply'.cmd # NeighbourLabel[vendor],
           vendor' = vendor
    PROVE  PagesAreWhole'
<1>1. PageSize \in Nat \ {0}
    BY TL1Assumption DEF TL1Assumption
<1>2. reply'.cmd # NeighbourLabel[vendor']
    OBVIOUS
<1>3. \A p \in DOMAIN reply'.blocks :
          /\ p = 1 /\ Len(reply'.blocks) = 1 /\ reply'.blocks[p].code = c
          /\ Len(reply'.blocks[p].tids) = 0
    <2>1. CASE reply'.blocks = <<>>
        BY <2>1
    <2>2. CASE reply'.blocks = <<[code |-> c, tids |-> <<>>]>>
        BY <2>2
    <2> QED BY <2>1, <2>2
<1>4. \A p \in DOMAIN reply'.blocks :
          ((reply'.blocks[p].code = "RTRV") <=> p < Len(reply'.blocks))
    <2>1. ~(1 < 1)
        OBVIOUS
    <2>2. \A p \in DOMAIN reply'.blocks : reply'.blocks[p].code # "RTRV"
        BY <1>3
    <2>3. \A p \in DOMAIN reply'.blocks : ~(p < Len(reply'.blocks))
        BY <1>3, <2>1
    <2> QED BY <2>2, <2>3
<1>5. \A p \in DOMAIN reply'.blocks : Len(reply'.blocks[p].tids) <= PageSize
    BY <1>1, <1>3
<1> QED
    BY <1>2, <1>4, <1>5 DEF PagesAreWhole

LEMMA SubmitKeepsPages == Inv /\ Submit => PagesAreWhole'
<1> SUFFICES ASSUME Inv, Submit PROVE PagesAreWhole'
    OBVIOUS
<1> DEFINE raw == reader.buf
<1>1. Dispatch(raw) /\ vendor' = vendor /\ data' = data
    BY DEF Submit, deviceVars
<1> HIDE DEF raw
<1>2. vendor \in {"ciena_tl1", "infinera_tl1", "cisco_ons_tl1"}
    BY TL1Assumption DEF TL1Assumption, Inv, TypeOK
<1>3. NeighbourLabel[vendor] \notin {"CmdTL1Unknown", "CmdTL1Deny", "ACT-USER"} \union Reports[vendor]
    BY <1>2 DEF NeighbourLabel, Reports, SharedReports
<1>4. CASE EmptyCommand(raw)
    BY <1>1, <1>3, <1>4, OneBlockAnswers DEF EmptyCommand, Silence
<1>5. ASSUME NEW label \in {"CmdTL1Unknown", "CmdTL1Deny"}, NEW sid, reply' = Deny(raw, label, sid)
      PROVE  PagesAreWhole'
    BY <1>1, <1>3, <1>5, OneBlockAnswers DEF Deny, Answer
<1>6. ASSUME reply'.cmd \in {"ACT-USER"} \union Reports[vendor], reply'.blocks = Compld
      PROVE  PagesAreWhole'
    BY <1>1, <1>3, <1>6, OneBlockAnswers DEF Compld
<1>7. CASE ActUser(raw)
    BY <1>5, <1>6, <1>7 DEF ActUser, Answer
<1>8. CASE NotLoggedIn(raw)
    BY <1>5, <1>8 DEF NotLoggedIn
<1>9. CASE UnknownNode(raw)
    BY <1>5, <1>9 DEF UnknownNode
<1>10. CASE LocalReport(raw)
    <2>1. PICK v \in Reports[vendor] : Verb(raw) = <<v>>
        BY <1>10 DEF LocalReport, Asks
    <2>2. Verb(raw)[1] = v
        BY <2>1
    <2> QED BY <1>6, <1>10, <2>2, ReportFields DEF LocalReport
<1>11. CASE RemoteReport(raw)
    <2>1. PICK v \in Reports[vendor] : Verb(raw) = <<v>>
        BY <1>11 DEF RemoteReport, Asks
    <2>2. Verb(raw)[1] = v
        BY <2>1
    <2> QED BY <1>6, <1>11, <2>2, ReportFields DEF RemoteReport
<1>12. CASE UnknownVerb(raw)
    BY <1>5, <1>12 DEF UnknownVerb
<1>13. CASE Neighbours(raw)
    <2>1. reply'.blocks = NeighbourBlocks
        BY <1>13 DEF Neighbours, Answer
    <2>2. Order' = Order
        BY <1>1 DEF Order
    <2>3. CASE vendor = "infinera_tl1"
        <3>1. NeighbourBlocks = tidmapPages
            BY <2>3 DEF NeighbourBlocks
        <3> QED BY <1>1, <2>1, <2>2, <2>3, <3>1, PagesOfTids DEF PagesAreWhole
    <2>4. CASE vendor # "infinera_tl1"
        <3> DEFINE t == IF vendor = "cisco_ons_tl1" THEN <<OwnSid>> \o Order ELSE Order
        <3>1. NeighbourBlocks = <<[code |-> "COMPLD", tids |-> t]>>
            BY <1>2, <2>4 DEF NeighbourBlocks
        <3>2. t \in Seq(Seq(Words))
            <4>1. Sid \in Words
                BY TL1Assumption DEF TL1Assumption
            <4>2. OwnSid \in Seq(Words)
                BY <4>1 DEF OwnSid
            <4>3. Order \in Seq(Seq(Words))
                BY OrderIsSequence
            <4> QED BY <4>2, <4>3
        <3> HIDE DEF t
        <3>3. Listed(NeighbourBlocks) = t
            BY <3>1, <3>2, OneBlock
        <3>4. \A p \in DOMAIN NeighbourBlocks :
                  (NeighbourBlocks[p].code = "RTRV") <=> p < Len(NeighbourBlocks)
            BY <3>1
        <3> QED BY <1>1, <2>1, <2>2, <2>4, <3>3, <3>4 DEF PagesAreWhole, t
    <2> QED BY <2>3, <2>4
<1> QED
    BY <1>1, <1>4, <1>7, <1>8, <1>9, <1>10, <1>11, <1>12, <1>13 DEF Dispatch

\* Whatever the page size and the number of nodes, the blocks of a response end with the
\* first that is not coded RTRV, no page is too long, and together they list the nodes
\* of the file in order, none lost or repeated between two pages.
THEOREM PagingIsWhole == Spec => []PagesAreWhole
<1>1. Init => PagesAreWhole
    <2> SUFFICES ASSUME Init PROVE PagesAreWhole
        OBVIOUS
    <2>1. vendor \in {"ciena_tl1", "infinera_tl1", "cisco_ons_tl1"}
        BY TL1Assumption DEF TL1Assumption, Init
    <2>2. NeighbourLabel[vendor] # "CmdTL1Unknown"
        BY <2>1 DEF NeighbourLabel
    <2> QED BY <2>2 DEF Init, PagesAreWhole, Silence
<1>2. Inv /\ PagesAreWhole /\ [Next]_vars => PagesAreWhole'
    <2> SUFFICES ASSUME Inv, PagesAreWhole, [Next]_vars PROVE PagesAreWhole'
        OBVIOUS
    <2>1. CASE UNCHANGED <<vendor, data, loggedIn, reply, meant, handled, proven>>
        <3>1. Order' = Order
            BY <2>1 DEF Order
        <3> QED BY <2>1, <3>1 DEF PagesAreWhole
    <2> QED BY <2>1, OnlySubmitAnswers, SubmitKeepsPages DEF vars, deviceVars, sessionVars
<1> QED
    BY <1>1, <1>2, InvHolds, PTL DEF Spec
=============================================================================
