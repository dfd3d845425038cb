---------------------------- MODULE ArraysProofs ----------------------------
(***************************************************************************)
(* What the operators of Arrays return, for every sequence: the lemmas the *)
(* proofs about the in-memory store and the subscriptions rest on.         *)
(***************************************************************************)
EXTENDS Arrays, FiniteSetTheorems, SequenceTheorems, TLAPS

\* A smaller bound leaves strictly fewer elements below it.
LEMMA AtMostIncreasing ==
  ASSUME NEW I \in SUBSET Int, IsFiniteSet(I), NEW i \in I, NEW k \in I, i < k
  PROVE  Cardinality({j \in I : j <= i}) < Cardinality({j \in I : j <= k})
<1> DEFINE Low == {j \in I : j <= i}
           High == {j \in I : j <= k}
<1>1. Low \subseteq High
  <2> SUFFICES ASSUME NEW j \in I, j <= i
               PROVE  j <= k
    OBVIOUS
  <2>1. j \in Int /\ i \in Int /\ k \in Int
    OBVIOUS
  <2> QED
    BY <2>1
<1>2. ~ (k <= i)
  <2>1. i \in Int /\ k \in Int
    OBVIOUS
  <2> QED
    BY <2>1
<1>3. k \in High /\ k \notin Low
  <2>1. k \in Int
    OBVIOUS
  <2> QED
    BY <1>2, <2>1
<1>4. IsFiniteSet(High) /\ IsFiniteSet(Low)
  <2>1. High \in SUBSET I /\ Low \in SUBSET I
    OBVIOUS
  <2> QED
    BY <2>1, FS_Subset
<1> HIDE DEF Low, High
<1>5. Cardinality(Low) <= Cardinality(High) /\ Cardinality(Low) # Cardinality(High)
  BY <1>1, <1>3, <1>4, FS_Subset
<1>6. Cardinality(Low) \in Nat /\ Cardinality(High) \in Nat
  BY <1>4, FS_CardinalityType
<1>7. Cardinality(Low) < Cardinality(High)
  BY <1>5, <1>6
<1> QED
  BY <1>7 DEF Low, High

\* A set of n integers has an n-th smallest element: the rank of an element
\* (how many are not larger) is injective into 1..n, hence onto.
LEMMA NthExists ==
  ASSUME NEW I \in SUBSET Int, IsFiniteSet(I), NEW n \in 1..Cardinality(I)
  PROVE  /\ Nth(I, n) \in I
         /\ Cardinality({j \in I : j <= Nth(I, n)}) = n
<1> DEFINE Below(i) == {j \in I : j <= i}
           rank == [i \in I |-> Cardinality(Below(i))]
           N == Cardinality(I)
<1>1. N \in Nat
  BY FS_CardinalityType
<1>2. \A i \in I : IsFiniteSet(Below(i)) /\ Below(i) # {} /\ Cardinality(Below(i)) <= N
  <2> SUFFICES ASSUME NEW i \in I
               PROVE  IsFiniteSet(Below(i)) /\ Below(i) # {} /\ Cardinality(Below(i)) <= N
    OBVIOUS
  <2>1. Below(i) \in SUBSET I
    OBVIOUS
  <2>2. i \in Below(i)
    OBVIOUS
  <2> QED
    BY <2>1, <2>2, FS_Subset
<1>3. \A i \in I : rank[i] \in 1..N
  <2> SUFFICES ASSUME NEW i \in I
               PROVE  Cardinality(Below(i)) \in 1..N
    OBVIOUS
  <2>1. Cardinality(Below(i)) \in Nat
    BY <1>2, FS_CardinalityType
  <2>2. Cardinality(Below(i)) # 0
    BY <1>2, FS_EmptySet
  <2> HIDE DEF Below
  <2> QED
    BY <1>1, <1>2, <2>1, <2>2
<1>4. \A i, k \in I : i < k => rank[i] < rank[k]
  BY AtMostIncreasing
<1>5. rank \in Injection(I, 1..N)
  <2>1. rank \in [I -> 1..N]
    BY <1>3
  <2>2. \A i, k \in I : rank[i] = rank[k] => i = k
    <3> SUFFICES ASSUME NEW i \in I, NEW k \in I, rank[i] = rank[k], i # k
                 PROVE  FALSE
      OBVIOUS
    <3>1. i < k \/ k < i
      OBVIOUS
    <3>2. rank[i] < rank[k] \/ rank[k] < rank[i]
      BY <1>4, <3>1
    <3>3. rank[i] \in Nat /\ rank[k] \in Nat
      BY <1>1, <1>3
    <3> HIDE DEF rank
    <3> QED
      BY <3>2, <3>3
  <2> QED
    BY <2>1, <2>2 DEF Injection, IsInjective
<1>6. IsFiniteSet(1..N) /\ Cardinality(1..N) = N
  BY <1>1, FS_Interval
<1>7. rank \in Surjection(I, 1..N)
  BY <1>5, <1>6, FS_Injection
<1>8. PICK i \in I : rank[i] = n
  BY <1>7 DEF Surjection
<1>9. Cardinality({j \in I : j <= i}) = n
  BY <1>8
<1> QED
  BY <1>9 DEF Nth

\* Nth enumerates its set in increasing order.
LEMMA NthIncreasing ==
  ASSUME NEW I \in SUBSET Int, IsFiniteSet(I),
         NEW m \in 1..Cardinality(I), NEW n \in 1..Cardinality(I), m < n
  PROVE  Nth(I, m) < Nth(I, n)
<1>1. /\ Nth(I, m) \in I /\ Cardinality({j \in I : j <= Nth(I, m)}) = m
      /\ Nth(I, n) \in I /\ Cardinality({j \in I : j <= Nth(I, n)}) = n
  BY NthExists
<1>2. Nth(I, m) # Nth(I, n)
  <2>1. Cardinality(I) \in Nat
    BY FS_CardinalityType
  <2> QED
    BY <1>1, <2>1
<1>3. ~ (Nth(I, n) < Nth(I, m))
  <2> SUFFICES ASSUME Nth(I, n) < Nth(I, m)
               PROVE  FALSE
    OBVIOUS
  <2>1. n < m
    BY <1>1, AtMostIncreasing
  <2>2. Cardinality(I) \in Nat
    BY FS_CardinalityType
  <2> QED
    BY <2>1, <2>2
<1>4. Nth(I, m) \in Int /\ Nth(I, n) \in Int
  BY <1>1
<1> QED
  BY <1>2, <1>3, <1>4

\* Nth leaves no element of its set out.
LEMMA NthOnto ==
  ASSUME NEW I \in SUBSET Int, IsFiniteSet(I), NEW i \in I
  PROVE  \E n \in 1..Cardinality(I) : Nth(I, n) = i
<1> DEFINE n == Cardinality({j \in I : j <= i})
<1>1. {j \in I : j <= i} \in SUBSET I /\ i \in {j \in I : j <= i}
  OBVIOUS
<1>2. IsFiniteSet({j \in I : j <= i}) /\ n <= Cardinality(I) /\ n # 0
  BY <1>1, FS_Subset, FS_EmptySet
<1>3. n \in Nat /\ Cardinality(I) \in Nat
  BY <1>2, FS_CardinalityType
<1>4. n \in 1..Cardinality(I)
  <2> HIDE DEF n
  <2> QED
    BY <1>2, <1>3
<1>5. /\ Nth(I, n) \in I
      /\ Cardinality({j \in I : j <= Nth(I, n)}) = n
  BY <1>4, NthExists
<1>6. ~ (Nth(I, n) < i) /\ ~ (i < Nth(I, n))
  <2>1. ASSUME NEW k \in I, Cardinality({j \in I : j <= k}) = n
        PROVE  ~ (k < i) /\ ~ (i < k)
    <3>1. k < i => Cardinality({j \in I : j <= k}) < Cardinality({j \in I : j <= i})
      BY AtMostIncreasing
    <3>2. i < k => Cardinality({j \in I : j <= i}) < Cardinality({j \in I : j <= k})
      BY AtMostIncreasing
    <3> HIDE DEF n
    <3> QED
      BY <1>3, <2>1, <3>1, <3>2 DEF n
  <2> QED
    BY <1>5, <2>1
<1>7. Nth(I, n) \in Int /\ i \in Int
  BY <1>5
<1>8. Nth(I, n) = i
  BY <1>6, <1>7
<1> QED
  BY <1>4, <1>8

\* Splicing elements out of an array leaves an array of the same type that
\* holds exactly the other elements, each at an index that keeps their order.
LEMMA WithoutProperties ==
  ASSUME NEW S, NEW seq \in Seq(S), NEW gone
  PROVE  /\ Without(seq, gone) \in Seq(S)
         /\ Elements(Without(seq, gone)) = Elements(seq) \ gone
         /\ \E h \in [DOMAIN Without(seq, gone) -> DOMAIN seq] :
              /\ \A m, n \in DOMAIN Without(seq, gone) : m < n => h[m] < h[n]
              /\ \A n \in DOMAIN Without(seq, gone) : Without(seq, gone)[n] = seq[h[n]]
<1> DEFINE I == {i \in DOMAIN seq : seq[i] \notin gone}
           N == Cardinality(I)
           rest == [n \in 1..N |-> seq[Nth(I, n)]]
           h == [n \in 1..N |-> Nth(I, n)]
<1>1. /\ DOMAIN seq = 1..Len(seq) /\ Len(seq) \in Nat
      /\ \A i \in DOMAIN seq : seq[i] \in S
  BY LenProperties, ElementOfSeq
<1>2. I \in SUBSET (1..Len(seq)) /\ IsFiniteSet(1..Len(seq))
  BY <1>1, FS_Interval
<1>3. IsFiniteSet(I) /\ N \in Nat /\ I \in SUBSET Int
  <2>1. IsFiniteSet(I)
    BY <1>2, FS_Subset
  <2> QED
    BY <1>2, <2>1, FS_CardinalityType
<1>4. Without(seq, gone) = rest
  BY DEF Without, ElementsAt
<1> HIDE DEF I, N
<1>5. \A n \in 1..N : Nth(I, n) \in I
  BY <1>3, NthExists DEF N
<1>6. \A m, n \in 1..N : m < n => Nth(I, m) < Nth(I, n)
  BY <1>3, NthIncreasing DEF N
<1>7. \A i \in I : \E n \in 1..N : Nth(I, n) = i
  BY <1>3, NthOnto DEF N
<1>8. \A i : i \in I <=> i \in DOMAIN seq /\ seq[i] \notin gone
  BY DEF I
<1>9. rest \in Seq(S)
  <2>1. rest \in [1..N -> S]
    BY <1>1, <1>5, <1>8
  <2> QED
    BY <1>3, <2>1, SeqDef
<1>10. Elements(rest) = Elements(seq) \ gone
  <2>1. ASSUME NEW e \in Elements(rest)
        PROVE  e \in Elements(seq) \ gone
    <3>1. PICK n \in 1..N : e = seq[Nth(I, n)]
      BY <2>1 DEF Elements
    <3> QED
      BY <1>5, <1>8, <3>1 DEF Elements
  <2>2. ASSUME NEW e \in Elements(seq) \ gone
        PROVE  e \in Elements(rest)
    <3>1. PICK i \in DOMAIN seq : e = seq[i]
      BY <2>2 DEF Elements
    <3>2. i \in I
      BY <1>8, <2>2, <3>1
    <3>3. PICK n \in 1..N : Nth(I, n) = i
      BY <1>7, <3>2
    <3>4. n \in DOMAIN rest /\ rest[n] = e
      BY <3>1, <3>3
    <3> QED
      BY <3>4 DEF Elements
  <2> QED
    BY <2>1, <2>2
<1>11. /\ h \in [DOMAIN rest -> DOMAIN seq]
       /\ \A m, n \in DOMAIN rest : m < n => h[m] < h[n]
       /\ \A n \in DOMAIN rest : rest[n] = seq[h[n]]
  BY <1>5, <1>6, <1>8
<1> HIDE DEF rest, h
<1> QED
  BY <1>4, <1>9, <1>10, <1>11

\* Integers that increase have room on both sides: those before the n-th go below it,
\* those after it above it.
LEMMA IncreasingLeavesRoom ==
  ASSUME NEW L \in Nat, NEW M \in Nat, NEW h \in [1..M -> 1..L],
         \A m, n \in 1..M : m < n => h[m] < h[n],
         NEW n \in 1..M
  PROVE  n <= h[n] /\ M - n <= L - h[n]
<1>1. n \in Int /\ h[n] \in Int /\ n + 1 \in Int /\ h[n] + 1 \in Int /\ h[n] <= L
  OBVIOUS
<1>2. \A k, m \in 1..M : h[k] = h[m] => k = m
  <2> SUFFICES ASSUME NEW k \in 1..M, NEW m \in 1..M, h[k] = h[m], k # m
               PROVE  FALSE
    OBVIOUS
  <2>1. k < m \/ m < k
    OBVIOUS
  <2>2. h[k] < h[m] \/ h[m] < h[k]
    BY <2>1
  <2>3. h[k] \in Int /\ h[m] \in Int
    OBVIOUS
  <2> QED
    BY <2>2, <2>3
<1>3. n <= h[n]
  <2> DEFINE f == [k \in 1..n |-> h[k]]
  <2>1. f \in [1..n -> 1..h[n]]
    <3> SUFFICES ASSUME NEW k \in 1..n PROVE h[k] \in 1..h[n]
      OBVIOUS
    <3>1. k \in 1..M /\ (k = n \/ k < n)
      BY <1>1
    <3>2. h[k] \in 1..L /\ h[k] <= h[n]
      BY <1>1, <3>1
    <3> QED
      BY <1>1, <3>2
  <2>2. f \in Injection(1..n, 1..h[n])
    <3>1. 1..n \subseteq 1..M
      BY <1>1
    <3> QED
      BY <1>2, <2>1, <3>1 DEF Injection, IsInjective
  <2>3. /\ IsFiniteSet(1..h[n]) /\ Cardinality(1..h[n]) = h[n] /\ Cardinality(1..n) = n
    BY <1>1, FS_Interval
  <2> QED
    BY <2>2, <2>3, FS_Injection
<1>4. M - n <= L - h[n]
  <2> DEFINE f == [k \in n + 1 .. M |-> h[k]]
  <2>1. f \in [n + 1 .. M -> h[n] + 1 .. L]
    <3> SUFFICES ASSUME NEW k \in n + 1 .. M PROVE h[k] \in h[n] + 1 .. L
      OBVIOUS
    <3>1. k \in 1..M /\ n < k
      BY <1>1
    <3>2. h[k] \in 1..L /\ h[n] < h[k]
      BY <3>1
    <3> QED
      BY <1>1, <3>2
  <2>2. f \in Injection(n + 1 .. M, h[n] + 1 .. L)
    <3>1. n + 1 .. M \subseteq 1..M
      BY <1>1
    <3> QED
      BY <1>2, <2>1, <3>1 DEF Injection, IsInjective
  <2>3. /\ IsFiniteSet(h[n] + 1 .. L)
        /\ Cardinality(h[n] + 1 .. L) = L - h[n] /\ Cardinality(n + 1 .. M) = M - n
    <3>1. \A i, k \in Int : i <= k => IsFiniteSet(i + 1 .. k) /\ Cardinality(i + 1 .. k) = k - i
      <4> SUFFICES ASSUME NEW i \in Int, NEW k \in Int, i <= k
                   PROVE  IsFiniteSet(i + 1 .. k) /\ Cardinality(i + 1 .. k) = k - i
        OBVIOUS
      <4>1. i + 1 \in Int
        OBVIOUS
      <4>2. IsFiniteSet(i + 1 .. k)
            /\ Cardinality(i + 1 .. k) = IF i + 1 > k THEN 0 ELSE k - (i + 1) + 1
        BY <4>1, FS_Interval
      <4> QED
        BY <4>2
    <3>2. n <= M /\ M \in Int /\ L \in Int
      OBVIOUS
    <3> DEFINE c == h[n]
    <3> HIDE DEF c
    <3>3. c \in Int /\ c <= L
      BY <1>1 DEF c
    <3>4. IsFiniteSet(c + 1 .. L) /\ Cardinality(c + 1 .. L) = L - c
      BY <3>1, <3>2, <3>3
    <3>5. Cardinality(n + 1 .. M) = M - n
      BY <1>1, <3>1, <3>2
    <3> QED
      BY <3>4, <3>5 DEF c
  <2> QED
    BY <2>2, <2>3, FS_Injection
<1> QED
  BY <1>3, <1>4

\* Splicing out what is not there changes nothing.
LEMMA WithoutNothing ==
  ASSUME NEW S, NEW seq \in Seq(S), NEW gone, Elements(seq) \cap gone = {}
  PROVE  Without(seq, gone) = seq
<1> DEFINE L == Len(seq)
<1>1. L \in Nat /\ DOMAIN seq = 1..L
  BY LenProperties
<1>2. {i \in DOMAIN seq : seq[i] \notin gone} = 1..L
  BY <1>1 DEF Elements
<1>3. IsFiniteSet(1..L) /\ Cardinality(1..L) = L
  BY <1>1, FS_Interval
<1> DEFINE h == [n \in 1..L |-> Nth(1..L, n)]
<1>4. /\ h \in [1..L -> 1..L]
      /\ \A m, n \in 1..L : m < n => h[m] < h[n]
  <2>1. 1..L \in SUBSET Int
    BY <1>1
  <2> HIDE DEF L
  <2>2. h \in [1..L -> 1..L]
    BY <1>3, <2>1, NthExists
  <2>3. \A m, n \in 1..L : m < n => Nth(1..L, m) < Nth(1..L, n)
    BY <1>3, <2>1, NthIncreasing
  <2> QED
    BY <2>2, <2>3
<1>5. \A n \in 1..L : h[n] = n
  <2> SUFFICES ASSUME NEW n \in 1..L PROVE h[n] = n
    OBVIOUS
  <2> HIDE DEF h, L
  <2>1. n <= h[n] /\ L - n <= L - h[n]
    BY <1>1, <1>4, IncreasingLeavesRoom
  <2>2. h[n] \in Int /\ n \in Int
    BY <1>1, <1>4
  <2> QED
    BY <1>1, <2>1, <2>2
<1>6. Without(seq, gone) = [n \in 1..L |-> seq[h[n]]]
  BY <1>2, <1>3 DEF Without, ElementsAt
<1>7. seq = [n \in 1..L |-> seq[n]]
  BY <1>1, SeqDef
<1> HIDE DEF h, L
<1> QED
  BY <1>5, <1>6, <1>7

\* The elements of a concatenation.
LEMMA ConcatElements ==
  ASSUME NEW S, NEW s \in Seq(S), NEW t \in Seq(S)
  PROVE  Elements(s \o t) = Elements(s) \cup Elements(t)
<1>1. /\ Len(s) \in Nat /\ Len(t) \in Nat
      /\ DOMAIN s = 1..Len(s) /\ DOMAIN t = 1..Len(t)
  BY LenProperties
<1>2. /\ s \o t \in Seq(S) /\ Len(s \o t) = Len(s) + Len(t)
      /\ \A i \in 1..Len(s) + Len(t) :
           (s \o t)[i] = IF i <= Len(s) THEN s[i] ELSE t[i - Len(s)]
  BY ConcatProperties
<1>3. DOMAIN (s \o t) = 1..Len(s) + Len(t)
  BY <1>2, LenProperties
<1>4. Elements(s \o t) \subseteq Elements(s) \cup Elements(t)
  <2> SUFFICES ASSUME NEW i \in 1..Len(s) + Len(t)
               PROVE  (s \o t)[i] \in Elements(s) \cup Elements(t)
    BY <1>3 DEF Elements
  <2>1. CASE i <= Len(s)
    BY <1>1, <1>2, <2>1 DEF Elements
  <2>2. CASE ~ (i <= Len(s))
    <3>1. i - Len(s) \in 1..Len(t)
      BY <1>1, <2>2
    <3> QED
      BY <1>1, <1>2, <2>2, <3>1 DEF Elements
  <2> QED
    BY <2>1, <2>2
<1>5. \A i \in DOMAIN s : i \in 1..Len(s) + Len(t) /\ (s \o t)[i] = s[i]
  BY <1>1, <1>2
<1>6. \A i \in DOMAIN t : Len(s) + i \in 1..Len(s) + Len(t) /\ (s \o t)[Len(s) + i] = t[i]
  BY <1>1, <1>2
<1>7. Elements(s) \subseteq Elements(s \o t)
  BY <1>3, <1>5 DEF Elements
<1>8. Elements(t) \subseteq Elements(s \o t)
  BY <1>3, <1>6 DEF Elements
<1> QED
  BY <1>4, <1>7, <1>8

\* The greatest of a set of integers is one of them.
LEMMA GreatestExists ==
  ASSUME NEW I \in SUBSET Int, IsFiniteSet(I), I # {}
  PROVE  Greatest(I) \in I
<1>1. Cardinality(I) \in Nat /\ Cardinality(I) # 0
  BY FS_CardinalityType, FS_EmptySet
<1>2. Cardinality(I) \in 1 .. Cardinality(I)
  BY <1>1
<1> QED
  BY <1>2, NthExists DEF Greatest

\* No element of a set of integers is greater than the greatest.
LEMMA GreatestIsLargest ==
  ASSUME NEW I \in SUBSET Int, IsFiniteSet(I), NEW i \in I
  PROVE  i <= Greatest(I)
<1>1. Cardinality(I) \in Nat
  BY FS_CardinalityType
<1>2. PICK n \in 1..Cardinality(I) : Nth(I, n) = i
  BY NthOnto
<1>3. CASE n = Cardinality(I)
  BY <1>2, <1>3 DEF Greatest
<1>4. CASE n # Cardinality(I)
  <2>1. n < Cardinality(I) /\ Cardinality(I) \in 1..Cardinality(I)
    BY <1>1, <1>4
  <2>2. Nth(I, n) < Nth(I, Cardinality(I))
    BY <2>1, NthIncreasing
  <2>3. Nth(I, Cardinality(I)) \in Int
    BY <2>1, NthExists
  <2> QED
    BY <1>2, <2>2, <2>3 DEF Greatest
<1> QED
  BY <1>3, <1>4

-----------------------------------------------------------------------------
(***************************************************************************)
(* Increasing sequences of numbers                                         *)
(***************************************************************************)
Increasing(seq) == \A i, j \in DOMAIN seq : i < j => seq[i] < seq[j]

\* The elements of a set of numbers one after the other.
LEMMA EnumerationProperties ==
  ASSUME NEW I \in SUBSET Nat, IsFiniteSet(I)
  PROVE  LET seq == [n \in 1..Cardinality(I) |-> Nth(I, n)]
         IN  /\ seq \in Seq(Nat) /\ Len(seq) = Cardinality(I)
             /\ Increasing(seq)
             /\ Elements(seq) = I
<1> DEFINE N == Cardinality(I)
           seq == [n \in 1..N |-> Nth(I, n)]
<1>1. N \in Nat /\ I \in SUBSET Int
  BY FS_CardinalityType
<1>2. \A n \in 1..N : Nth(I, n) \in I
  BY <1>1, NthExists
<1>3. \A m, n \in 1..N : m < n => Nth(I, m) < Nth(I, n)
  BY <1>1, NthIncreasing
<1>4. \A i \in I : \E n \in 1..N : Nth(I, n) = i
  BY <1>1, NthOnto
<1> HIDE DEF N
<1>5. seq \in Seq(Nat)
  <2>1. seq \in [1..N -> Nat]
    BY <1>2
  <2> QED
    BY <1>1, <2>1, SeqDef
<1>6. DOMAIN seq = 1..N /\ Len(seq) = N
  <2>1. DOMAIN seq = 1..N
    OBVIOUS
  <2> QED
    BY <1>1, <1>5, <2>1, LenProperties
<1>7. Increasing(seq)
  BY <1>3, <1>6 DEF Increasing
<1>8. Elements(seq) = I
  BY <1>2, <1>4, <1>6 DEF Elements
<1> HIDE DEF seq
<1> QED
  BY <1>5, <1>6, <1>7, <1>8 DEF seq, N

\* What is appended is one element more.
LEMMA AppendElements ==
  ASSUME NEW S, NEW seq \in Seq(S), NEW e \in S
  PROVE  /\ Append(seq, e) \in Seq(S)
         /\ Elements(Append(seq, e)) = Elements(seq) \cup {e}
<1>1. /\ Append(seq, e) \in Seq(S)
      /\ DOMAIN seq = 1..Len(seq) /\ Len(seq) \in Nat
      /\ Len(Append(seq, e)) = Len(seq) + 1
      /\ \A i \in 1..Len(seq) : Append(seq, e)[i] = seq[i]
      /\ Append(seq, e)[Len(seq) + 1] = e
  BY AppendProperties, LenProperties
<1>2. DOMAIN Append(seq, e) = 1..Len(seq) + 1
  BY <1>1, LenProperties
<1>3. 1..Len(seq) + 1 = 1..Len(seq) \cup {Len(seq) + 1}
  BY <1>1
<1> QED
  BY <1>1, <1>2, <1>3 DEF Elements

\* A sequence stays increasing when something greater is appended.
LEMMA AppendIncreasing ==
  ASSUME NEW seq \in Seq(Nat), NEW e \in Nat,
         Increasing(seq), \A m \in Elements(seq) : m < e
  PROVE  Increasing(Append(seq, e))
<1>1. /\ DOMAIN seq = 1..Len(seq) /\ Len(seq) \in Nat
      /\ Append(seq, e) \in Seq(Nat)
      /\ Len(Append(seq, e)) = Len(seq) + 1
      /\ \A i \in 1..Len(seq) : Append(seq, e)[i] = seq[i]
      /\ Append(seq, e)[Len(seq) + 1] = e
  BY AppendProperties, LenProperties
<1>2. DOMAIN Append(seq, e) = 1..Len(seq) + 1
  BY <1>1, LenProperties
<1>3. \A i \in 1..Len(seq) : seq[i] < e
  BY <1>1 DEF Elements
<1>4. ASSUME NEW i \in 1..Len(seq) + 1, NEW j \in 1..Len(seq) + 1, i < j
      PROVE  Append(seq, e)[i] < Append(seq, e)[j]
  <2>1. i \in 1..Len(seq)
    BY <1>1, <1>4
  <2>2. CASE j = Len(seq) + 1
    BY <1>1, <1>3, <2>1, <2>2
  <2>3. CASE j # Len(seq) + 1
    <3>1. j \in 1..Len(seq)
      BY <1>1, <2>3
    <3> QED
      BY <1>1, <1>4, <2>1, <3>1 DEF Increasing
  <2> QED
    BY <2>2, <2>3
<1> QED
  BY <1>2, <1>4 DEF Increasing

\* The rest of an increasing sequence is increasing, and greater than its head.
LEMMA TailIncreasing ==
  ASSUME NEW seq \in Seq(Nat), seq # << >>, Increasing(seq)
  PROVE  /\ seq[1] \in Elements(seq) /\ seq[1] \in Nat
         /\ Tail(seq) \in Seq(Nat) /\ Increasing(Tail(seq))
         /\ Elements(seq) = Elements(Tail(seq)) \cup {seq[1]}
         /\ \A m \in Elements(Tail(seq)) : seq[1] < m
<1>1. /\ DOMAIN seq = 1..Len(seq) /\ Len(seq) \in Nat \ {0}
      /\ Tail(seq) \in Seq(Nat)
      /\ Len(Tail(seq)) = Len(seq) - 1
      /\ \A i \in 1..Len(Tail(seq)) : Tail(seq)[i] = seq[i + 1]
  BY HeadTailProperties, LenProperties, EmptySeq
<1>2. DOMAIN Tail(seq) = 1..Len(seq) - 1
  BY <1>1, LenProperties
<1>3. seq[1] \in Elements(seq) /\ seq[1] \in Nat
  <2>1. 1 \in 1..Len(seq)
    BY <1>1
  <2> QED
    BY <1>1, <2>1, ElementOfSeq DEF Elements
<1>4. \A i \in 1..Len(seq) - 1 : i + 1 \in 1..Len(seq) /\ 1 < i + 1 /\ Tail(seq)[i] = seq[i + 1]
  BY <1>1
<1>5. Increasing(Tail(seq))
  BY <1>1, <1>2, <1>4 DEF Increasing
<1>6. \A i \in 1..Len(seq) : i = 1 \/ (i - 1 \in 1..Len(seq) - 1 /\ seq[i] = Tail(seq)[i - 1])
  BY <1>1, <1>4
<1>7. Elements(seq) = Elements(Tail(seq)) \cup {seq[1]}
  <2>1. ASSUME NEW i \in 1..Len(seq)
        PROVE  seq[i] \in Elements(Tail(seq)) \cup {seq[1]}
    <3>1. CASE i = 1
      BY <3>1
    <3>2. CASE i - 1 \in 1..Len(seq) - 1 /\ seq[i] = Tail(seq)[i - 1]
      BY <1>2, <3>2 DEF Elements
    <3> QED
      BY <1>6, <3>1, <3>2
  <2>2. Elements(Tail(seq)) \subseteq Elements(seq)
    BY <1>1, <1>2, <1>4 DEF Elements
  <2>3. Elements(seq) \subseteq Elements(Tail(seq)) \cup {seq[1]}
    BY <1>1, <2>1 DEF Elements
  <2> QED
    BY <1>3, <2>2, <2>3
<1>8. \A m \in Elements(Tail(seq)) : seq[1] < m
  <2>1. 1 \in 1..Len(seq)
    BY <1>1
  <2> QED
    BY <1>1, <1>2, <1>4, <2>1 DEF Increasing, Elements
<1> QED
  BY <1>1, <1>3, <1>5, <1>7, <1>8

=============================================================================
