----------------------------- MODULE OrderProofs -----------------------------
(***************************************************************************)
(* What filtering and sorting (Orders) return, for sets and sequences of   *)
(* any size, and how a fold over a sequence is followed: induction over    *)
(* data without an operator as a parameter, by the least counterexample.   *)
(***************************************************************************)
EXTENDS Orders, FunctionTheorems, FiniteSetTheorems, SequenceTheorems,
        NaturalsInduction, WellFoundedInduction, TLAPS

-----------------------------------------------------------------------------
(* Sets of numbers. *)

\* The least number principle, for a set.
LEMMA LeastNumber ==
  ASSUME NEW T, T \subseteq Nat, T # {}
  PROVE  \E i \in T : \A k \in T : i <= k
<1> DEFINE R == {ss \in Nat \X Nat : ss[1] < ss[2]}
<1>1. IsWellFoundedOn(R, Nat)
  BY NatLessThanWellFounded DEF OpToRel
<1> HIDE DEF R
<1>2. \E i \in T : \A k \in T : ~ (<<k, i>> \in R)
  BY <1>1, WFMin
<1>3. \A i, k \in Nat : ~ (<<k, i>> \in R) => i <= k
  BY DEF R
<1> QED
  BY <1>2, <1>3

\* Induction over the numbers up to n, for a set of them.
LEMMA UpTo ==
  ASSUME NEW n \in Nat, NEW T, 0 \in T, \A k \in 0..(n - 1) : k \in T => k + 1 \in T
  PROVE  n \in T
<1>1. SUFFICES ASSUME n \notin T PROVE FALSE
  OBVIOUS
<1> DEFINE U == {k \in 0..n : k \notin T}
<1>2. U \subseteq Nat /\ U # {}
  BY <1>1
<1>3. PICK i \in U : \A k \in U : i <= k
  BY <1>2, LeastNumber
<1>4. i \in 1..n /\ i - 1 \notin U
  BY <1>3
<1>5. i - 1 \in T /\ i - 1 \in 0..(n - 1)
  BY <1>4
<1> QED
  BY <1>3, <1>5

-----------------------------------------------------------------------------
(* Sorting. *)

\* The elements by their keys: each of them once, the smaller keys first.
LEMMA ByKeySorts ==
  ASSUME NEW S, IsFiniteSet(S), NEW key \in [S -> Int],
         \A x, y \in S : key[x] = key[y] => x = y
  PROVE  /\ ByKey(S, key) \in [1..Cardinality(S) -> S]
         /\ \A x \in S : \E k \in 1..Cardinality(S) : ByKey(S, key)[k] = x
         /\ \A j, k \in 1..Cardinality(S) : j < k => key[ByKey(S, key)[j]] < key[ByKey(S, key)[k]]
         /\ \A k \in 1..Cardinality(S) :
              Cardinality({y \in S : key[y] <= key[ByKey(S, key)[k]]}) = k
<1> DEFINE n == Cardinality(S)
           upTo(x) == {y \in S : key[y] <= key[x]}
           rank == [x \in S |-> Cardinality(upTo(x))]
<1>1. n \in Nat
  BY FS_CardinalityType
<1>2. ASSUME NEW x \in S PROVE IsFiniteSet(upTo(x)) /\ Cardinality(upTo(x)) \in 1..n
  <2>1. upTo(x) \subseteq S /\ x \in upTo(x)
    OBVIOUS
  <2>2. IsFiniteSet(upTo(x)) /\ Cardinality(upTo(x)) <= n
    BY <2>1, FS_Subset
  <2>3. Cardinality(upTo(x)) \in Nat /\ Cardinality(upTo(x)) # 0
    BY <2>1, <2>2, FS_CardinalityType, FS_EmptySet
  <2> QED
    BY <1>1, <2>2, <2>3
<1>3. rank \in [S -> 1..n]
  BY <1>2
<1>4. ASSUME NEW x \in S, NEW y \in S, key[x] < key[y] PROVE rank[x] < rank[y]
  <2>1. upTo(x) \subseteq upTo(y) /\ y \in upTo(y) /\ y \notin upTo(x)
    BY <1>4
  <2>2. Cardinality(upTo(x)) <= Cardinality(upTo(y)) /\ Cardinality(upTo(x)) # Cardinality(upTo(y))
    BY <1>2, <2>1, FS_Subset
  <2>3. Cardinality(upTo(x)) < Cardinality(upTo(y))
    BY <1>2, <2>2
  <2> QED
    BY <2>3
<1>5. \A x, y \in S : rank[x] = rank[y] => x = y
  <2> SUFFICES ASSUME NEW x \in S, NEW y \in S, rank[x] = rank[y] PROVE x = y
    OBVIOUS
  <2>1. ~ (key[x] < key[y]) /\ ~ (key[y] < key[x])
    <3>1. rank[x] \in 1..n /\ rank[y] \in 1..n
      BY <1>3
    <3> QED
      BY <1>4, <3>1
  <2> QED
    BY <2>1
<1>6. IsFiniteSet(1..n) /\ Cardinality(1..n) = n
  BY <1>1, FS_Interval
<1>7. rank \in Injection(S, 1..n)
  BY <1>3, <1>5 DEF Injection, IsInjective
<1>8. rank \in Surjection(S, 1..n)
  BY <1>6, <1>7, FS_Injection
<1>9. ASSUME NEW k \in 1..n
      PROVE  /\ ByKey(S, key)[k] \in S
             /\ rank[ByKey(S, key)[k]] = k
  <2>1. ByKey(S, key)[k] = CHOOSE x \in S : Cardinality(upTo(x)) = k
    BY DEF ByKey
  <2>2. \E x \in S : rank[x] = k
    BY <1>8 DEF Surjection
  <2>3. \E x \in S : Cardinality(upTo(x)) = k
    BY <2>2
  <2> QED
    BY <2>1, <2>3
<1>10. ByKey(S, key) \in [1..n -> S]
  <2> DEFINE at(k) == CHOOSE x \in S : Cardinality(upTo(x)) = k
  <2>1. ByKey(S, key) = [k \in 1..n |-> at(k)]
    BY DEF ByKey
  <2> HIDE DEF at
  <2>2. \A k \in 1..n : at(k) = ByKey(S, key)[k]
    BY ONLY <2>1
  <2>3. \A k \in 1..n : at(k) \in S
    BY ONLY <1>9, <2>2
  <2> QED
    BY ONLY <2>1, <2>3
<1>11. ASSUME NEW x \in S PROVE \E k \in 1..n : ByKey(S, key)[k] = x
  <2>1. rank[x] \in 1..n
    BY <1>3
  <2>2. ByKey(S, key)[rank[x]] \in S /\ rank[ByKey(S, key)[rank[x]]] = rank[x]
    BY <1>9, <2>1
  <2> HIDE DEF rank, n
  <2> QED
    BY <1>5, <2>1, <2>2
<1>12. ASSUME NEW j \in 1..n, NEW k \in 1..n, j < k
       PROVE  key[ByKey(S, key)[j]] < key[ByKey(S, key)[k]]
  <2> DEFINE x == ByKey(S, key)[j]
             y == ByKey(S, key)[k]
  <2>1. x \in S /\ y \in S /\ rank[x] = j /\ rank[y] = k
    BY <1>9
  <2> HIDE DEF x, y
  <2>2. key[x] \in Int /\ key[y] \in Int /\ x # y
    BY <1>12, <2>1
  <2>3. key[x] # key[y]
    BY <2>1, <2>2
  <2>4. key[y] < key[x] => FALSE
    <3> SUFFICES ASSUME key[y] < key[x] PROVE FALSE
      OBVIOUS
    <3>1. rank[y] < rank[x]
      BY <1>4, <2>1
    <3> QED
      BY <1>12, <2>1, <3>1
  <2>5. key[x] < key[y]
    BY <2>2, <2>3, <2>4
  <2> QED
    BY <2>5 DEF x, y
<1> QED
  BY <1>9, <1>10, <1>11, <1>12

\* A finite set of numbers in order.
LEMMA InOrderSorts ==
  ASSUME NEW S, IsFiniteSet(S), S \subseteq Int
  PROVE  /\ InOrder(S) \in [1..Cardinality(S) -> S]
         /\ \A x \in S : \E k \in 1..Cardinality(S) : InOrder(S)[k] = x
         /\ \A j, k \in 1..Cardinality(S) : j < k => InOrder(S)[j] < InOrder(S)[k]
         /\ \A k \in 1..Cardinality(S) : Cardinality({y \in S : y <= InOrder(S)[k]}) = k
<1> DEFINE key == [x \in S |-> x]
<1>1. key \in [S -> Int] /\ \A x, y \in S : key[x] = key[y] => x = y
  OBVIOUS
<1>2. InOrder(S) = ByKey(S, key)
  <2>1. \A x \in S : {y \in S : key[y] <= key[x]} = {y \in S : y <= x}
    OBVIOUS
  <2> DEFINE keyed(k) == CHOOSE x \in S : Cardinality({y \in S : key[y] <= key[x]}) = k
             at(k) == CHOOSE x \in S : Cardinality({y \in S : y <= x}) = k
  <2>2. \A k : keyed(k) = at(k)
    BY <2>1
  <2>3. ByKey(S, key) = [k \in 1..Cardinality(S) |-> keyed(k)]
    BY DEF ByKey
  <2>4. InOrder(S) = [k \in 1..Cardinality(S) |-> at(k)]
    BY DEF InOrder
  <2> HIDE DEF keyed, at
  <2> QED
    BY <2>2, <2>3, <2>4
<1> HIDE DEF key
<1> DEFINE b == ByKey(S, key)
<1>3. /\ b \in [1..Cardinality(S) -> S]
      /\ \A x \in S : \E k \in 1..Cardinality(S) : b[k] = x
      /\ \A j, k \in 1..Cardinality(S) : j < k => key[b[j]] < key[b[k]]
      /\ \A k \in 1..Cardinality(S) : Cardinality({y \in S : key[y] <= key[b[k]]}) = k
  BY <1>1, ByKeySorts
<1> HIDE DEF b
<1>4. \A x \in S : key[x] = x
  BY DEF key
<1>5. \A k \in 1..Cardinality(S) : {y \in S : key[y] <= key[b[k]]} = {y \in S : y <= b[k]}
  BY <1>3, <1>4
<1>6. InOrder(S) = b
  BY <1>2 DEF b
<1> QED
  BY <1>3, <1>4, <1>5, <1>6

\* Places by their keys: a key counts for more than a place.
LEMMA KeyOverPlace ==
  ASSUME NEW n \in Nat, NEW a \in Nat, NEW b \in Nat, NEW i \in 1..n, NEW j \in 1..n,
         a * n + i <= b * n + j
  PROVE  a <= b
<1>1. SUFFICES ASSUME b + 1 <= a PROVE FALSE
  OBVIOUS
<1>2. PICK c \in Nat : a = b + 1 + c
  <2>1. a - (b + 1) \in Nat /\ a = b + 1 + (a - (b + 1))
    BY <1>1
  <2> QED
    BY <2>1
<1>3. a * n = b * n + n + c * n
  BY <1>2
<1>4. c * n \in Nat /\ b * n \in Nat
  OBVIOUS
<1> QED
  BY <1>3, <1>4

LEMMA PlacesSorted ==
  ASSUME NEW n \in Nat, NEW key \in [1..n -> Nat]
  PROVE  /\ SortedPlaces(n, key) \in [1..n -> 1..n]
         /\ \A j, k \in 1..n : j < k => key[SortedPlaces(n, key)[j]] <= key[SortedPlaces(n, key)[k]]
<1> DEFINE lex == [i \in 1..n |-> key[i] * n + i]
           b == ByKey(1..n, lex)
<1>1. IsFiniteSet(1..n) /\ Cardinality(1..n) = n
  BY FS_Interval
<1>2. lex \in [1..n -> Int] /\ \A i \in 1..n : lex[i] = key[i] * n + i
  <2>1. \A i \in 1..n : key[i] * n + i \in Int
    OBVIOUS
  <2> QED
    BY <2>1
<1> HIDE DEF lex
<1>3. \A i, j \in 1..n : lex[i] <= lex[j] => key[i] <= key[j]
  <2> SUFFICES ASSUME NEW i \in 1..n, NEW j \in 1..n, lex[i] <= lex[j] PROVE key[i] <= key[j]
    OBVIOUS
  <2>1. key[i] \in Nat /\ key[j] \in Nat /\ key[i] * n + i <= key[j] * n + j
    BY <1>2
  <2> QED
    BY <2>1, KeyOverPlace
<1>4. \A i, j \in 1..n : lex[i] = lex[j] => i = j
  <2> SUFFICES ASSUME NEW i \in 1..n, NEW j \in 1..n, lex[i] = lex[j] PROVE i = j
    OBVIOUS
  <2>1. lex[i] \in Int /\ lex[i] <= lex[j] /\ lex[j] <= lex[i]
    BY <1>2
  <2>2. key[i] <= key[j] /\ key[j] <= key[i] /\ key[i] \in Nat /\ key[j] \in Nat
    BY <1>3, <2>1
  <2>3. key[i] = key[j]
    BY <2>2
  <2>4. lex[i] = key[i] * n + i /\ lex[j] = key[i] * n + j
    BY <1>2, <2>3
  <2> DEFINE m == key[i] * n
  <2>5. m \in Nat
    BY ONLY <2>2, n \in Nat
  <2>6. m + i = m + j
    BY <2>4
  <2> HIDE DEF m
  <2> QED
    BY <2>5, <2>6
<1>5. /\ b \in [1..n -> 1..n]
      /\ \A j, k \in 1..n : j < k => lex[b[j]] < lex[b[k]]
  BY <1>1, <1>2, <1>4, ByKeySorts
<1>6. SortedPlaces(n, key) = b
  BY DEF SortedPlaces, lex
<1> HIDE DEF b
<1>7. ASSUME NEW j \in 1..n, NEW k \in 1..n, j < k PROVE key[b[j]] <= key[b[k]]
  <2>1. b[j] \in 1..n /\ b[k] \in 1..n /\ lex[b[j]] < lex[b[k]]
    BY <1>5, <1>7
  <2>2. lex[b[j]] \in Int /\ lex[b[k]] \in Int
    BY <1>2, <2>1
  <2>3. lex[b[j]] <= lex[b[k]]
    BY <2>1, <2>2
  <2> QED
    BY <1>3, <2>1, <2>3
<1> QED
  BY <1>5, <1>6, <1>7

\* The greatest of numbers up to n.
LEMMA GreatestNumber ==
  ASSUME NEW n \in Nat, NEW T, T \subseteq 1..n, T # {}
  PROVE  \E j \in T : \A i \in T : j >= i
<1> DEFINE U == {n - i : i \in T}
<1>0. \A i \in T : i \in 1..n /\ n - i \in Nat
  OBVIOUS
<1>1. U \subseteq Nat /\ U # {}
  BY <1>0
<1>2. PICK u \in U : \A v \in U : u <= v
  BY <1>1, LeastNumber
<1>3. PICK j \in T : u = n - j
  OBVIOUS
<1>4. ASSUME NEW i \in T PROVE j >= i
  <2>1. n - j <= n - i
    BY <1>2, <1>3
  <2> QED
    BY <1>0, <2>1
<1> QED
  BY <1>4

-----------------------------------------------------------------------------
(* Filtering. *)

\* All places in order are the places themselves.
LEMMA AllInOrder ==
  ASSUME NEW n \in Nat
  PROVE  \A k \in 1..n : InOrder(1..n)[k] = k
<1> DEFINE at == InOrder(1..n)
<1>1. IsFiniteSet(1..n) /\ Cardinality(1..n) = n
  BY FS_Interval
<1>2. /\ at \in [1..n -> 1..n]
      /\ \A k \in 1..n : Cardinality({y \in 1..n : y <= at[k]}) = k
  <2>1. 1..n \subseteq Int
    BY <1>1
  <2> QED
    BY <1>1, <2>1, InOrderSorts
<1> HIDE DEF at
<1>3. ASSUME NEW k \in 1..n PROVE at[k] = k
  <2>1. at[k] \in 1..n /\ {y \in 1..n : y <= at[k]} = 1..at[k]
    BY <1>1, <1>2
  <2>2. Cardinality(1..at[k]) = at[k]
    BY <2>1, FS_Interval
  <2> QED
    BY <1>2, <2>1, <2>2
<1> QED
  BY <1>3 DEF at

\* Filtering by all places is filtering like any other.
LEMMA OnlyIs ==
  ASSUME NEW T, NEW s \in Seq(T), NEW I, I \subseteq DOMAIN s
  PROVE  Only(s, I) = [k \in 1..Cardinality(I) |-> s[InOrder(I)[k]]]
<1>1. CASE I = DOMAIN s
  <2> DEFINE n == Len(s)
  <2>1. n \in Nat /\ I = 1..n /\ s = [k \in 1..n |-> s[k]]
    BY <1>1
  <2> HIDE DEF n
  <2>2. Cardinality(I) = n /\ \A k \in 1..n : InOrder(I)[k] = k
    <3>1. n \in Nat
      BY <2>1
    <3>2. Cardinality(1..n) = n
      BY ONLY <3>1, FS_Interval
    <3> QED
      BY <2>1, <3>2, AllInOrder
  <2>3. [k \in 1..n |-> s[InOrder(I)[k]]] = [k \in 1..n |-> s[k]]
    BY <2>2
  <2> QED
    BY <1>1, <2>1, <2>2, <2>3 DEF Only
<1>2. CASE I # DOMAIN s
  BY <1>2 DEF Only
<1> QED
  BY <1>1, <1>2


\* A filtered sequence has what it had at the places kept, and nothing else.
LEMMA OnlyKeeps ==
  ASSUME NEW T, NEW s \in Seq(T), NEW I, I \subseteq DOMAIN s
  PROVE  /\ IsFiniteSet(I) /\ Cardinality(I) \in Nat
         /\ Only(s, I) \in Seq(T) /\ Len(Only(s, I)) = Cardinality(I)
         /\ DOMAIN Only(s, I) = 1..Cardinality(I)
         /\ \A k \in DOMAIN Only(s, I) : \E i \in I : Only(s, I)[k] = s[i]
         /\ \A i \in I : \E k \in DOMAIN Only(s, I) : Only(s, I)[k] = s[i]
<1> DEFINE n == Cardinality(I)
           at == InOrder(I)
<1>1. IsFiniteSet(I) /\ n \in Nat /\ I \subseteq Int
  <2>1. DOMAIN s = 1..Len(s) /\ Len(s) \in Nat
    OBVIOUS
  <2>2. IsFiniteSet(DOMAIN s)
    BY <2>1, FS_Interval
  <2> QED
    BY <2>1, <2>2, FS_Subset, FS_CardinalityType
<1>2. at \in [1..n -> I] /\ \A i \in I : \E k \in 1..n : at[k] = i
  BY <1>1, InOrderSorts
<1>3. Only(s, I) = [k \in 1..n |-> s[at[k]]]
  BY OnlyIs
<1> HIDE DEF n, at
<1>4. \A k \in 1..n : s[at[k]] \in T
  BY <1>2
<1>5. /\ [k \in 1..n |-> s[at[k]]] \in Seq(T)
      /\ Len([k \in 1..n |-> s[at[k]]]) = n
  BY <1>1, <1>4
<1>6. DOMAIN Only(s, I) = 1..n /\ Only(s, I) \in Seq(T) /\ Len(Only(s, I)) = n
  BY <1>3, <1>5
<1>7. \A k \in 1..n : Only(s, I)[k] = s[at[k]]
  BY <1>3
<1> DEFINE r == Only(s, I)
<1>8. \A k \in 1..n : r[k] = s[at[k]]
  BY <1>7
<1>9. DOMAIN r = 1..n /\ r \in Seq(T) /\ Len(r) = n
  BY <1>6
<1> HIDE DEF r
<1>10. \A k \in DOMAIN r : \E i \in I : r[k] = s[i]
  BY ONLY <1>2, <1>8, <1>9
<1>11. \A i \in I : \E k \in DOMAIN r : r[k] = s[i]
  BY ONLY <1>2, <1>8, <1>9
<1> QED
  BY ONLY <1>1, <1>9, <1>10, <1>11 DEF n, r

\* The place in the sequence of what is at place k after filtering.
LEMMA OnlyPlaces ==
  ASSUME NEW T, NEW s \in Seq(T), NEW I, I \subseteq DOMAIN s
  PROVE  /\ InOrder(I) \in [DOMAIN Only(s, I) -> I]
         /\ \A k \in DOMAIN Only(s, I) : Only(s, I)[k] = s[InOrder(I)[k]]
         /\ \A j, k \in DOMAIN Only(s, I) : j < k => InOrder(I)[j] < InOrder(I)[k]
<1>1. IsFiniteSet(I) /\ DOMAIN Only(s, I) = 1..Cardinality(I)
  BY OnlyKeeps
<1>2. I \subseteq Int
  OBVIOUS
<1> QED
  BY <1>1, <1>2, InOrderSorts, OnlyIs

\* Filtering keeps entries apart.
LEMMA OnlyApart ==
  ASSUME NEW T, NEW s \in Seq(T), NEW I, I \subseteq DOMAIN s,
         NEW j \in DOMAIN Only(s, I), NEW k \in DOMAIN Only(s, I), j # k
  PROVE  \E a, b \in I : a # b /\ Only(s, I)[j] = s[a] /\ Only(s, I)[k] = s[b]
<1> DEFINE at == InOrder(I)
<1>1. /\ at \in [DOMAIN Only(s, I) -> I]
      /\ Only(s, I)[j] = s[at[j]] /\ Only(s, I)[k] = s[at[k]]
      /\ j < k => at[j] < at[k]
      /\ k < j => at[k] < at[j]
  BY OnlyPlaces
<1>2. j \in Nat /\ k \in Nat /\ I \subseteq Int
  BY OnlyKeeps
<1> HIDE DEF at
<1>3. at[j] # at[k]
  BY <1>1, <1>2
<1> QED
  BY <1>1, <1>3

\* All of it for a filtered sequence that has a name.
LEMMA OnlyOf ==
  ASSUME NEW T, NEW s \in Seq(T), NEW I, I \subseteq DOMAIN s, NEW r, r = Only(s, I)
  PROVE  /\ r \in Seq(T) /\ DOMAIN r = 1..Len(r) /\ Len(r) \in Nat
         /\ \A k \in DOMAIN r : \E i \in I : r[k] = s[i]
         /\ \A i \in I : \E k \in DOMAIN r : r[k] = s[i]
         /\ \A j, k \in DOMAIN r : j # k => \E a, b \in I : a # b /\ r[j] = s[a] /\ r[k] = s[b]
<1>1. /\ r \in Seq(T)
      /\ \A k \in DOMAIN r : \E i \in I : r[k] = s[i]
      /\ \A i \in I : \E k \in DOMAIN r : r[k] = s[i]
  BY OnlyKeeps
<1>2. \A j, k \in DOMAIN r : j # k => \E a, b \in I : a # b /\ r[j] = s[a] /\ r[k] = s[b]
  BY OnlyApart
<1>3. DOMAIN r = 1..Len(r) /\ Len(r) \in Nat
  BY <1>1
<1> QED
  BY <1>1, <1>2, <1>3

\* Filtering by all places changes nothing.
LEMMA OnlyAll ==
  ASSUME NEW T, NEW s \in Seq(T)
  PROVE  Only(s, DOMAIN s) = s
BY DEF Only

LEMMA PlacesCount ==
  ASSUME NEW T, NEW s \in Seq(T)
  PROVE  IsFiniteSet(DOMAIN s) /\ Cardinality(DOMAIN s) = Len(s) /\ Len(s) \in Nat
<1> DEFINE n == Len(s)
<1>1. n \in Nat /\ DOMAIN s = 1..n
  OBVIOUS
<1> HIDE DEF n
<1>2. IsFiniteSet(1..n) /\ Cardinality(1..n) = n
  BY <1>1, FS_Interval
<1> QED
  BY <1>1, <1>2 DEF n

\* The places of I where s has an element of Q.
Hits(s, I, Q) == {i \in I : s[i] \in Q}

\* Filtering keeps the number of the entries of a kind.
LEMMA OnlyCounts ==
  ASSUME NEW T, NEW s \in Seq(T), NEW I, I \subseteq DOMAIN s, NEW Q
  PROVE  Cardinality(Hits(Only(s, I), DOMAIN Only(s, I), Q)) = Cardinality(Hits(s, I, Q))
<1> DEFINE A == {k \in DOMAIN Only(s, I) : Only(s, I)[k] \in Q}
           B == {i \in I : s[i] \in Q}
           f == [k \in A |-> InOrder(I)[k]]
<1>1. IsFiniteSet(I) /\ DOMAIN Only(s, I) = 1..Cardinality(I) /\ I \subseteq Int
  BY OnlyKeeps
<1>2. /\ InOrder(I) \in [DOMAIN Only(s, I) -> I]
      /\ \A k \in DOMAIN Only(s, I) : Only(s, I)[k] = s[InOrder(I)[k]]
  BY OnlyPlaces
<1>3. \A j, k \in DOMAIN Only(s, I) : j < k => InOrder(I)[j] < InOrder(I)[k]
  BY OnlyPlaces
<1>4. \A i \in I : \E k \in DOMAIN Only(s, I) : InOrder(I)[k] = i
  BY <1>1, InOrderSorts
<1>5. f \in [A -> B]
  BY <1>2
<1>6. \A j, k \in A : f[j] = f[k] => j = k
  <2> SUFFICES ASSUME NEW j \in A, NEW k \in A, f[j] = f[k] PROVE j = k
    OBVIOUS
  <2>1. j \in Nat /\ k \in Nat /\ InOrder(I)[j] = InOrder(I)[k] /\ InOrder(I)[j] \in Int
    BY <1>1, <1>2
  <2>2. ~ (j < k) /\ ~ (k < j)
    BY <1>3, <2>1
  <2> QED
    BY <2>1, <2>2
<1>7. \A i \in B : \E k \in A : f[k] = i
  BY <1>2, <1>4
<1>8. f \in Bijection(A, B)
  BY <1>5, <1>6, <1>7 DEF Bijection, Injection, Surjection, IsInjective
<1>9. IsFiniteSet(A)
  <2>1. Cardinality(I) \in Nat /\ A \subseteq 1..Cardinality(I)
    BY <1>1, FS_CardinalityType
  <2>2. IsFiniteSet(1..Cardinality(I))
    BY <2>1, FS_Interval
  <2> QED
    BY <2>1, <2>2, FS_Subset
<1> QED
  BY <1>8, <1>9, FS_Bijection DEF ExistsBijection, Hits

-----------------------------------------------------------------------------
(* Folding a sequence of length n: the function that FoldLeft runs over the *)
(* sets of places, the greatest place last.                                *)

Greatest(T) == CHOOSE j \in T : \A i \in T : j >= i

LEMMA GreatestIsLast ==
  ASSUME NEW k \in Nat, NEW T, T \subseteq 1..(k + 1), T # {}
  PROVE  Greatest(T) \in T /\ T \ {Greatest(T)} \subseteq 1..k
<1>1. k + 1 \in Nat
  OBVIOUS
<1>2. \E j \in T : \A i \in T : j >= i
  BY <1>1, GreatestNumber
<1>3. Greatest(T) \in T /\ \A i \in T : Greatest(T) >= i
  BY <1>2 DEF Greatest
<1>4. ASSUME NEW i \in T, i # Greatest(T) PROVE i \in 1..k
  <2>1. i \in 1..(k + 1) /\ Greatest(T) \in 1..(k + 1) /\ Greatest(T) >= i
    BY <1>3
  <2> QED
    BY <1>4, <2>1
<1> QED
  BY <1>3, <1>4

LEMMA GreatestOfAll ==
  ASSUME NEW k \in Nat
  PROVE  /\ 1..(k + 1) # {} /\ Greatest(1..(k + 1)) = k + 1
         /\ 1..(k + 1) \ {Greatest(1..(k + 1))} = 1..k
<1>1. k + 1 \in 1..(k + 1) /\ \A i \in 1..(k + 1) : k + 1 >= i
  OBVIOUS
<1>2. Greatest(1..(k + 1)) \in 1..(k + 1) /\ \A i \in 1..(k + 1) : Greatest(1..(k + 1)) >= i
  BY <1>1 DEF Greatest
<1>3. Greatest(1..(k + 1)) = k + 1
  BY <1>1, <1>2
<1> QED
  BY <1>3

Folds(n, base, g, h) ==
  h = [T \in SUBSET (1..n) |->
         IF T = {} THEN base ELSE g[<<Greatest(T), h[T \ {Greatest(T)}]>>]]

\* There is such a function if the step stays within C.
LEMMA FoldExists ==
  ASSUME NEW n \in Nat, NEW C, NEW base \in C, NEW g \in [(1..n) \X C -> C]
  PROVE  \E h \in [SUBSET (1..n) -> C] : Folds(n, base, g, h)
<1> DEFINE Runs(k, h) ==
             h = [T \in SUBSET (1..k) |->
                    IF T = {} THEN base ELSE g[<<Greatest(T), h[T \ {Greatest(T)}]>>]]
           Up == {k \in 0..n : \E h \in [SUBSET (1..k) -> C] : Runs(k, h)}
<1>1. 0 \in Up
  <2> DEFINE h == [T \in SUBSET (1..0) |-> base]
  <2>1. h \in [SUBSET (1..0) -> C]
    OBVIOUS
  <2>2. \A T \in SUBSET (1..0) : T = {}
    OBVIOUS
  <2>3. Runs(0, h)
    BY <2>2
  <2> QED
    BY <2>1, <2>3
<1>2. ASSUME NEW k \in 0..(n - 1), k \in Up PROVE k + 1 \in Up
  <2>1. PICK h \in [SUBSET (1..k) -> C] : Runs(k, h)
    BY <1>2
  <2> DEFINE more == [T \in SUBSET (1..(k + 1)) |->
                        IF T = {} THEN base ELSE g[<<Greatest(T), h[T \ {Greatest(T)}]>>]]
  <2>2. ASSUME NEW T \in SUBSET (1..(k + 1)), T # {}
        PROVE  /\ Greatest(T) \in 1..n
               /\ T \ {Greatest(T)} \in SUBSET (1..k)
    <3>1. k \in Nat /\ T \subseteq 1..(k + 1) /\ 1..(k + 1) \subseteq 1..n
      OBVIOUS
    <3> HIDE DEF more, Runs, Up
    <3>2. Greatest(T) \in T /\ T \ {Greatest(T)} \subseteq 1..k
      BY <2>2, <3>1, GreatestIsLast
    <3> QED
      BY <3>1, <3>2
  <2>3. more \in [SUBSET (1..(k + 1)) -> C]
    <3>1. ASSUME NEW T \in SUBSET (1..(k + 1)), T # {}
          PROVE  g[<<Greatest(T), h[T \ {Greatest(T)}]>>] \in C
      BY <2>2, <3>1
    <3> QED
      BY <3>1
  <2>4. ASSUME NEW U \in SUBSET (1..k) PROVE more[U] = h[U]
    <3>1. U \in SUBSET (1..(k + 1))
      OBVIOUS
    <3>2. h[U] = IF U = {} THEN base ELSE g[<<Greatest(U), h[U \ {Greatest(U)}]>>]
      BY <2>1
    <3> QED
      BY <3>1, <3>2
  <2> HIDE DEF more
  <2>5. Runs(k + 1, more)
    <3>1. more = [T \in SUBSET (1..(k + 1)) |->
                    IF T = {} THEN base ELSE g[<<Greatest(T), h[T \ {Greatest(T)}]>>]]
      BY DEF more
    <3>2. \A T \in SUBSET (1..(k + 1)) : T # {} =>
            h[T \ {Greatest(T)}] = more[T \ {Greatest(T)}]
      BY <2>2, <2>4
    <3> QED
      BY <3>1, <3>2
  <2> HIDE DEF Runs
  <2>6. \E m \in [SUBSET (1..(k + 1)) -> C] : Runs(k + 1, m)
    BY <2>3, <2>5
  <2> QED
    BY <2>6
<1> HIDE DEF Up
<1>3. n \in Up
  BY <1>1, <1>2, UpTo
<1> QED
  BY <1>3 DEF Up, Folds

\* Along the sequence its values stay within C.
LEMMA FoldStays ==
  ASSUME NEW n \in Nat, NEW C, NEW h, h[1..0] \in C,
         \A k \in 0..(n - 1) : h[1..k] \in C => h[1..(k + 1)] \in C
  PROVE  h[1..n] \in C
<1> DEFINE Up == {k \in 0..n : h[1..k] \in C}
<1>1. 0 \in Up
  OBVIOUS
<1>2. \A k \in 0..(n - 1) : k \in Up => k + 1 \in Up
  OBVIOUS
<1> HIDE DEF Up
<1>3. n \in Up
  BY <1>1, <1>2, UpTo
<1> QED
  BY <1>3 DEF Up
=============================================================================
