---------------------------- MODULE BlockPoolProofs ----------------------------
(***************************************************************************)
(* Facts about the operators of BlockPool, for every pool size and block   *)
(* size: what Keep returns, and what each method of the pool preserves.    *)
(***************************************************************************)
EXTENDS BlockPool, FiniteSetTheorems, TLAPS

(* Arithmetic of blocks *)

\* Position p of a request lies in block p \div BlockSize of its table, at
\* offset p % BlockSize, as compute_slot_mapping computes it.
LEMMA DivMod ==
    ASSUME NEW p \in Nat, NEW B \in Nat \ {0}
    PROVE  /\ p \div B \in Nat
           /\ p % B \in 0 .. B - 1
           /\ p = (p \div B) * B + (p % B)
  OBVIOUS

\* p \div B is the only quotient.
LEMMA DivUnique ==
    ASSUME NEW p \in Nat, NEW B \in Nat \ {0}, NEW k \in Nat, NEW o \in 0 .. B - 1,
           p = k * B + o
    PROVE  p \div B = k /\ p % B = o
  OBVIOUS

\* Multiplication keeps the order.
LEMMA MulMonotone ==
    ASSUME NEW a \in Nat, NEW b \in Nat, NEW B \in Nat, a <= b
    PROVE  a * B <= b * B
  OBVIOUS

\* So does integer division.
LEMMA DivMonotone ==
    ASSUME NEW a \in Nat, NEW b \in Nat, NEW B \in Nat \ {0}, a <= b
    PROVE  a \div B <= b \div B
  OBVIOUS

\* The number of full blocks in a tokens: k blocks fit iff k <= a \div B.
LEMMA DivOfMultiple ==
    ASSUME NEW a \in Nat, NEW k \in Nat, NEW B \in Nat \ {0}
    PROVE  /\ k * B <= a <=> k <= a \div B
           /\ a < k * B <=> a \div B < k
  OBVIOUS

--------------------------------------------------------------------------------
(* Keep *)

\* The rank numbers a finite set of indices 1, 2, ... in increasing order.
LEMMA RankNumbers ==
    ASSUME NEW K \in SUBSET Nat, IsFiniteSet(K)
    PROVE  /\ \A i \in K : RankOf(K, i) \in 1 .. Cardinality(K)
           /\ \A i, j \in K : i < j => RankOf(K, i) < RankOf(K, j)
           /\ \A m \in 1 .. Cardinality(K) : \E i \in K : RankOf(K, i) = m
<1> DEFINE Below(i) == {k \in K : k <= i}
<1>1. \A i \in K : /\ IsFiniteSet(Below(i))
                   /\ Cardinality(Below(i)) \in Nat
                   /\ Cardinality(Below(i)) <= Cardinality(K)
  <2>1. SUFFICES ASSUME NEW i \in K
                 PROVE  /\ IsFiniteSet(Below(i))
                        /\ Cardinality(Below(i)) \in Nat
                        /\ Cardinality(Below(i)) <= Cardinality(K)
    OBVIOUS
  <2>2. Below(i) \in SUBSET K
    OBVIOUS
  <2>3. IsFiniteSet(Below(i)) /\ Cardinality(Below(i)) <= Cardinality(K)
    BY <2>2, FS_Subset, Zenon
  <2> QED  BY <2>3, FS_CardinalityType
<1>2. \A i \in K : RankOf(K, i) \in 1 .. Cardinality(K)
  <2>1. SUFFICES ASSUME NEW i \in K PROVE RankOf(K, i) \in 1 .. Cardinality(K)
    OBVIOUS
  <2>2. i \in Below(i)
    OBVIOUS
  <2>3. Cardinality(Below(i)) # 0
    BY <1>1, <2>2, FS_EmptySet
  <2>4. Cardinality(K) \in Nat
    BY FS_CardinalityType
  <2> QED  BY <1>1, <2>3, <2>4 DEF RankOf
<1>3. \A i, j \in K : i < j => RankOf(K, i) < RankOf(K, j)
  <2>1. SUFFICES ASSUME NEW i \in K, NEW j \in K, i < j
                 PROVE  RankOf(K, i) < RankOf(K, j)
    OBVIOUS
  <2>2. Below(i) \in SUBSET Below(j) /\ j \in Below(j) /\ j \notin Below(i)
    <3>1. i \in Nat /\ j \in Nat /\ \A k \in K : k \in Nat
      OBVIOUS
    <3>2. j \in Below(j) /\ j \notin Below(i)
      BY <2>1, <3>1
    <3>3. \A k \in K : k <= i => k <= j
      BY <2>1, <3>1
    <3>4. Below(i) \subseteq Below(j)
      BY <3>3, Zenon
    <3> QED  BY <3>2, <3>4
  <2>3. /\ Cardinality(Below(i)) <= Cardinality(Below(j))
        /\ Cardinality(Below(j)) = Cardinality(Below(i)) => Below(j) = Below(i)
    BY <1>1, <2>2, FS_Subset, Zenon
  <2> QED  BY <1>1, <2>2, <2>3 DEF RankOf
<1>4. \A m \in 1 .. Cardinality(K) : \E i \in K : RankOf(K, i) = m
  <2> DEFINE N == 1 .. Cardinality(K)
             f == [i \in K |-> RankOf(K, i)]
  <2>1. Cardinality(K) \in Nat
    BY FS_CardinalityType
  <2>2. IsFiniteSet(N) /\ Cardinality(N) = Cardinality(K)
    BY <2>1, FS_Interval
  <2>3. f \in [K -> N]
    BY <1>2
  <2>4. \A i, j \in K : f[i] = f[j] => i = j
    BY <1>2, <1>3, <2>1
  <2>5. f \in Injection(K, N)
    BY <2>3, <2>4 DEF Injection, IsInjective
  <2>6. f \in Surjection(K, N)
    <3> HIDE DEF N, f
    <3> QED  BY <2>2, <2>5, FS_Injection
  <2>7. \A m \in N : \E i \in K : f[i] = m
    <3> HIDE DEF N, f
    <3> QED  BY <2>6 DEF Surjection
  <2> QED  BY <2>7
<1> QED  BY <1>2, <1>3, <1>4

\* Keep(q, S) is q seen through an increasing enumeration of the indices whose
\* element is in S.
LEMMA KeepEnumerates ==
    ASSUME NEW X, NEW q \in Seq(X), NEW S
    PROVE  /\ Keep(q, S) \in Seq(X)
           /\ IsFiniteSet(IndicesOf(q, S))
           /\ Len(Keep(q, S)) = Cardinality(IndicesOf(q, S))
           /\ \E f \in [1 .. Len(Keep(q, S)) -> IndicesOf(q, S)] :
                /\ \A m \in 1 .. Len(Keep(q, S)) : Keep(q, S)[m] = q[f[m]]
                /\ \A i \in IndicesOf(q, S) :
                      \E m \in 1 .. Len(Keep(q, S)) : f[m] = i
                /\ \A m, n \in 1 .. Len(Keep(q, S)) : m < n <=> f[m] < f[n]
<1> DEFINE K == IndicesOf(q, S)
           N == 1 .. Cardinality(K)
           f == [n \in N |-> CHOOSE i \in K : RankOf(K, i) = n]
<1>1. K \in SUBSET (1 .. Len(q))
  BY DEF IndicesOf
<1>2. IsFiniteSet(K) /\ Cardinality(K) \in Nat
  <2>1. IsFiniteSet(1 .. Len(q))
    BY FS_Interval
  <2> HIDE DEF K
  <2>2. IsFiniteSet(K)
    BY <1>1, <2>1, FS_Subset, Zenon
  <2> QED  BY <2>2, FS_CardinalityType
<1>3. K \in SUBSET Nat
  BY <1>1
<1>4. /\ \A i \in K : RankOf(K, i) \in N
      /\ \A i, j \in K : i < j => RankOf(K, i) < RankOf(K, j)
      /\ \A m \in N : \E i \in K : RankOf(K, i) = m
  <2> HIDE DEF K
  <2> QED  BY <1>2, <1>3, RankNumbers
<1>5. f \in [N -> K] /\ \A m \in N : RankOf(K, f[m]) = m
  <2> HIDE DEF K
  <2> QED  BY <1>4
<1>6. Keep(q, S) = [n \in N |-> q[f[n]]]
  BY DEF Keep
<1>7. Keep(q, S) \in Seq(X) /\ Len(Keep(q, S)) = Cardinality(K)
  <2>1. \A n \in N : q[f[n]] \in X
    <3> HIDE DEF f, N
    <3> QED  BY <1>1, <1>5
  <2> HIDE DEF K, f
  <2> QED  BY <1>2, <1>6, <2>1
<1>8. \A i \in K : \E m \in N : f[m] = i
  <2>1. SUFFICES ASSUME NEW i \in K PROVE f[RankOf(K, i)] = i
    BY <1>4
  <2> DEFINE j == f[RankOf(K, i)]
  <2>2. RankOf(K, i) \in N
    BY <1>4
  <2>3. j \in K /\ RankOf(K, j) = RankOf(K, i)
    <3> HIDE DEF K, f
    <3> QED  BY <1>5, <2>2
  <2> HIDE DEF K, f, j
  <2>4. j = i
    BY <1>1, <1>2, <1>4, <2>3
  <2> QED  BY <2>4 DEF j
<1>9. \A m, n \in N : m < n <=> f[m] < f[n]
  <2>1. SUFFICES ASSUME NEW m \in N, NEW n \in N PROVE m < n <=> f[m] < f[n]
    OBVIOUS
  <2> HIDE DEF K, f
  <2>2. f[m] \in K /\ f[n] \in K /\ RankOf(K, f[m]) = m /\ RankOf(K, f[n]) = n
    BY <1>5
  <2>3. f[m] \in Nat /\ f[n] \in Nat /\ m \in Nat /\ n \in Nat
    <3>1. f[m] \in Nat /\ f[n] \in Nat
      BY <1>3, <2>2, Zenon
    <3>2. m \in Nat /\ n \in Nat
      BY <1>2
    <3> QED  BY <3>1, <3>2
  <2>4. f[m] < f[n] => m < n
    BY <1>4, <2>2, Zenon
  <2>5. f[n] < f[m] => n < m
    BY <1>4, <2>2, Zenon
  <2>6. f[n] = f[m] => n = m
    BY <2>2, Zenon
  <2> HIDE DEF N
  <2> QED  BY <2>3, <2>4, <2>5, <2>6
<1>10. \A m \in N : Keep(q, S)[m] = q[f[m]]
  <2> HIDE DEF f, K
  <2> QED  BY <1>6
<1> HIDE DEF f
<1> QED  BY <1>2, <1>5, <1>7, <1>8, <1>9, <1>10

\* Keep returns the elements of q that lie in S, each as often as q does, in
\* the order of q.
LEMMA KeepRange ==
    ASSUME NEW X, NEW q \in Seq(X), NEW S
    PROVE  Range(Keep(q, S)) = Range(q) \cap S
<1> DEFINE s == Keep(q, S)
<1>1. PICK f \in [1 .. Len(s) -> IndicesOf(q, S)] :
             /\ \A m \in 1 .. Len(s) : s[m] = q[f[m]]
             /\ \A i \in IndicesOf(q, S) : \E m \in 1 .. Len(s) : f[m] = i
  BY KeepEnumerates
<1>2. s \in Seq(X) /\ DOMAIN s = 1 .. Len(s)
  BY KeepEnumerates
<1> HIDE DEF s
<1> QED  BY <1>1, <1>2, SMTT(60) DEF IndicesOf, Range, s

\* Removing blocks from the free queue makes no duplicates.
LEMMA KeepInjective ==
    ASSUME NEW X, NEW q \in Seq(X), NEW S, IsInjective(q)
    PROVE  IsInjective(Keep(q, S))
<1> DEFINE s == Keep(q, S)
<1>1. PICK f \in [1 .. Len(s) -> IndicesOf(q, S)] :
             /\ \A m \in 1 .. Len(s) : s[m] = q[f[m]]
             /\ \A m, n \in 1 .. Len(s) : m < n <=> f[m] < f[n]
  BY KeepEnumerates
<1>2. s \in Seq(X) /\ DOMAIN s = 1 .. Len(s) /\ Len(s) \in Nat
  BY KeepEnumerates
<1>3. IndicesOf(q, S) \subseteq DOMAIN q
  BY DEF IndicesOf
<1> HIDE DEF s
<1>4. SUFFICES ASSUME NEW m \in 1 .. Len(s), NEW n \in 1 .. Len(s), s[m] = s[n]
               PROVE  m = n
  BY <1>2 DEF IsInjective, s
<1>5. f[m] = f[n]
  BY <1>1, <1>3, <1>4 DEF IsInjective
<1>6. f[m] \in Nat /\ f[n] \in Nat
  BY <1>1, <1>3
<1> QED  BY <1>1, <1>2, <1>5, <1>6

\* Elements that Keep keeps stay in the order they have in q.
LEMMA KeepOrder ==
    ASSUME NEW X, NEW q \in Seq(X), NEW S,
           NEW i \in DOMAIN q, NEW j \in DOMAIN q, i < j, q[i] \in S, q[j] \in S
    PROVE  \E m, n \in DOMAIN Keep(q, S) :
              m < n /\ Keep(q, S)[m] = q[i] /\ Keep(q, S)[n] = q[j]
<1> DEFINE s == Keep(q, S)
<1>1. PICK f \in [1 .. Len(s) -> IndicesOf(q, S)] :
             /\ \A m \in 1 .. Len(s) : s[m] = q[f[m]]
             /\ \A k \in IndicesOf(q, S) : \E m \in 1 .. Len(s) : f[m] = k
             /\ \A m, n \in 1 .. Len(s) : m < n <=> f[m] < f[n]
  BY KeepEnumerates, Zenon
<1>2. s \in Seq(X) /\ DOMAIN s = 1 .. Len(s)
  BY KeepEnumerates
<1>3. i \in IndicesOf(q, S) /\ j \in IndicesOf(q, S)
  BY DEF IndicesOf
<1> HIDE DEF s
<1>4. PICK m \in 1 .. Len(s), n \in 1 .. Len(s) : f[m] = i /\ f[n] = j
  BY <1>1, <1>3
<1> QED  BY <1>1, <1>2, <1>4, Zenon DEF s

\* A duplicate-free sequence has as many elements as its range, and every
\* element occurs once.
LEMMA InjectiveLen ==
    ASSUME NEW X, NEW q \in Seq(X), IsInjective(q)
    PROVE  IsFiniteSet(Range(q)) /\ Cardinality(Range(q)) = Len(q)
<1>1. IsFiniteSet(1 .. Len(q)) /\ Cardinality(1 .. Len(q)) = Len(q)
  <2>1. Len(q) \in Nat
    OBVIOUS
  <2>2. /\ IsFiniteSet(1 .. Len(q))
        /\ Cardinality(1 .. Len(q)) = IF 1 > Len(q) THEN 0 ELSE Len(q) - 1 + 1
    BY <2>1, FS_Interval, SMTT(60)
  <2> QED  BY <2>1, <2>2
<1>2. q \in Bijection(1 .. Len(q), Range(q))
  BY DEF Bijection, Injection, Surjection, IsInjective, Range
<1> QED  BY <1>1, <1>2, FS_Bijection DEF ExistsBijection

\* In a table without duplicates a block occurs at most once.
LEMMA InjectiveOccurrences ==
    ASSUME NEW X, NEW q \in Seq(X), IsInjective(q), NEW b
    PROVE  Occurrences(q, b) = IF b \in Range(q) THEN 1 ELSE 0
<1>1. CASE b \in Range(q)
  <2>1. PICK i \in DOMAIN q : q[i] = b
    BY <1>1 DEF Range
  <2>2. {j \in DOMAIN q : q[j] = b} = {i}
    BY <2>1 DEF IsInjective
  <2> QED  BY <1>1, <2>2, FS_Singleton, Zenon DEF Occurrences
<1>2. CASE b \notin Range(q)
  <2>1. {j \in DOMAIN q : q[j] = b} = {}
    BY <1>2 DEF Range
  <2> QED  BY <1>2, <2>1, FS_EmptySet, Zenon DEF Occurrences
<1> QED  BY <1>1, <1>2

\* The number of elements of a duplicate-free sequence that lie in S.
LEMMA InjectiveCount ==
    ASSUME NEW X, NEW q \in Seq(X), IsInjective(q), NEW S
    PROVE  /\ IsFiniteSet(Range(q) \cap S)
           /\ Cardinality(IndicesOf(q, S)) = Cardinality(Range(q) \cap S)
<1>1. IsInjective(Keep(q, S)) /\ Keep(q, S) \in Seq(X)
  BY KeepInjective, KeepEnumerates
<1>2. Len(Keep(q, S)) = Cardinality(IndicesOf(q, S))
  BY KeepEnumerates
<1> QED  BY <1>1, <1>2, KeepRange, InjectiveLen, Zenon

\* free() reverses a table: the same blocks, tail first.
LEMMA ReversedFacts ==
    ASSUME NEW X, NEW q \in Seq(X)
    PROVE  /\ Reversed(q) \in Seq(X)
           /\ Len(Reversed(q)) = Len(q)
           /\ \A i \in 1 .. Len(q) : Reversed(q)[i] = q[Len(q) + 1 - i]
           /\ Range(Reversed(q)) = Range(q)
           /\ IsInjective(q) => IsInjective(Reversed(q))
<1>1. \A i \in 1 .. Len(q) : Len(q) + 1 - i \in 1 .. Len(q)
  OBVIOUS
<1>2. /\ Reversed(q) \in Seq(X)
      /\ Len(Reversed(q)) = Len(q)
      /\ \A i \in 1 .. Len(q) : Reversed(q)[i] = q[Len(q) + 1 - i]
  BY <1>1 DEF Reversed
<1>3. Range(Reversed(q)) = Range(q)
  <2>1. \A i \in 1 .. Len(q) : Reversed(q)[Len(q) + 1 - i] = q[i]
    BY <1>1, <1>2
  <2>2. DOMAIN Reversed(q) = 1 .. Len(q) /\ DOMAIN q = 1 .. Len(q)
    BY <1>2
  <2>3. \A i \in DOMAIN Reversed(q) : Reversed(q)[i] \in Range(q)
    <3>1. \A j \in 1 .. Len(q) : q[j] \in Range(q)
      BY <2>2 DEF Range
    <3> QED  BY <1>1, <1>2, <2>2, <3>1
  <2>4. \A i \in DOMAIN q : q[i] \in Range(Reversed(q))
    <3>1. \A j \in 1 .. Len(q) : Reversed(q)[j] \in Range(Reversed(q))
      BY <2>2 DEF Range
    <3> QED  BY <1>1, <2>1, <2>2, <3>1
  <2> QED  BY <2>3, <2>4 DEF Range
<1>4. ASSUME IsInjective(q) PROVE IsInjective(Reversed(q))
  <2>1. SUFFICES ASSUME NEW a \in 1 .. Len(q), NEW b \in 1 .. Len(q),
                        q[Len(q) + 1 - a] = q[Len(q) + 1 - b]
                 PROVE  a = b
    BY <1>2 DEF IsInjective
  <2>2. Len(q) + 1 - a = Len(q) + 1 - b
    BY <1>1, <1>4, <2>1 DEF IsInjective
  <2> QED  BY <2>2
<1> QED  BY <1>2, <1>3, <1>4

\* popleft_n splits a queue into what it returns and what stays.
LEMMA SplitFacts ==
    ASSUME NEW X, NEW q \in Seq(X), NEW n \in 0 .. Len(q)
    PROVE  LET head == SubSeq(q, 1, n)
               tail == SubSeq(q, n + 1, Len(q))
           IN  /\ head \in Seq(X) /\ Len(head) = n
               /\ \A i \in 1 .. n : head[i] = q[i]
               /\ tail \in Seq(X) /\ Len(tail) = Len(q) - n
               /\ \A i \in 1 .. Len(q) - n : tail[i] = q[i + n]
               /\ Range(q) = Range(head) \cup Range(tail)
               /\ IsInjective(q) => /\ IsInjective(head)
                                    /\ IsInjective(tail)
                                    /\ Range(head) \cap Range(tail) = {}
<1> DEFINE head == SubSeq(q, 1, n)
           tail == SubSeq(q, n + 1, Len(q))
<1>1. /\ head \in Seq(X) /\ Len(head) = n /\ DOMAIN head = 1 .. n
      /\ \A i \in 1 .. n : head[i] = q[i]
  OBVIOUS
<1>2. /\ tail \in Seq(X) /\ Len(tail) = Len(q) - n
      /\ DOMAIN tail = 1 .. Len(q) - n
      /\ \A i \in 1 .. Len(q) - n : tail[i] = q[i + n]
  OBVIOUS
<1>3. Len(q) \in Nat /\ DOMAIN q = 1 .. Len(q) /\ n \in Nat /\ n <= Len(q)
  OBVIOUS
<1> HIDE DEF head, tail
<1>4. Range(q) = Range(head) \cup Range(tail)
  <2>1. ASSUME NEW i \in 1 .. Len(q)
        PROVE  q[i] \in Range(head) \cup Range(tail)
    <3>1. CASE i <= n
      <4>1. i \in DOMAIN head /\ head[i] = q[i]
        BY <1>1, <1>3, <3>1
      <4> QED  BY <4>1 DEF Range
    <3>2. CASE i > n
      <4>1. i - n \in DOMAIN tail /\ tail[i - n] = q[i]
        BY <1>2, <1>3, <3>2
      <4> QED  BY <4>1 DEF Range
    <3> QED  BY <1>3, <3>1, <3>2
  <2>2. ASSUME NEW i \in DOMAIN head PROVE head[i] \in Range(q)
    BY <1>1, <1>3 DEF Range
  <2>3. ASSUME NEW i \in DOMAIN tail PROVE tail[i] \in Range(q)
    <3>1. i + n \in DOMAIN q /\ tail[i] = q[i + n]
      BY <1>2, <1>3
    <3> QED  BY <3>1 DEF Range
  <2> QED  BY <1>3, <2>1, <2>2, <2>3 DEF Range
<1>5. ASSUME IsInjective(q)
      PROVE  IsInjective(head) /\ IsInjective(tail) /\ Range(head) \cap Range(tail) = {}
  <2>1. IsInjective(head)
    BY <1>1, <1>3, <1>5 DEF IsInjective
  <2>2. IsInjective(tail)
    <3>1. SUFFICES ASSUME NEW i \in 1 .. Len(q) - n, NEW j \in 1 .. Len(q) - n,
                          q[i + n] = q[j + n]
                   PROVE  i = j
      BY <1>2 DEF IsInjective
    <3>2. i + n \in DOMAIN q /\ j + n \in DOMAIN q
      BY <1>3
    <3>3. i + n = j + n
      BY <1>5, <3>1, <3>2 DEF IsInjective
    <3> QED  BY <1>3, <3>3
  <2>3. ASSUME NEW i \in DOMAIN head, NEW j \in DOMAIN tail PROVE head[i] # tail[j]
    <3>1. /\ i \in DOMAIN q /\ j + n \in DOMAIN q /\ i # j + n
          /\ head[i] = q[i] /\ tail[j] = q[j + n]
      BY <1>1, <1>2, <1>3
    <3> QED  BY <1>5, <3>1 DEF IsInjective
  <2> QED  BY <2>1, <2>2, <2>3 DEF Range
<1> QED  BY <1>1, <1>2, <1>4, <1>5 DEF head, tail

\* A table that is extended keeps its blocks where they were.
LEMMA ConcatFacts ==
    ASSUME NEW X, NEW q \in Seq(X), NEW s \in Seq(X)
    PROVE  /\ q \o s \in Seq(X) /\ Len(q \o s) = Len(q) + Len(s)
           /\ \A i \in 1 .. Len(q) : (q \o s)[i] = q[i]
           /\ \A i \in 1 .. Len(s) : (q \o s)[Len(q) + i] = s[i]
           /\ Range(q \o s) = Range(q) \cup Range(s)
           /\ (IsInjective(q) /\ IsInjective(s) /\ Range(q) \cap Range(s) = {})
                  => IsInjective(q \o s)
<1> DEFINE c == q \o s
<1>1. /\ c \in Seq(X) /\ Len(c) = Len(q) + Len(s)
      /\ DOMAIN c = 1 .. Len(q) + Len(s)
      /\ \A i \in 1 .. Len(q) : c[i] = q[i]
      /\ \A i \in 1 .. Len(s) : c[Len(q) + i] = s[i]
      /\ \A i \in 1 .. Len(q) + Len(s) : i > Len(q) => c[i] = s[i - Len(q)]
  OBVIOUS
<1>2. /\ Len(q) \in Nat /\ Len(s) \in Nat
      /\ DOMAIN q = 1 .. Len(q) /\ DOMAIN s = 1 .. Len(s)
  OBVIOUS
<1> HIDE DEF c
<1>3. \A i \in DOMAIN c :
         \/ i \in DOMAIN q /\ c[i] = q[i]
         \/ i > Len(q) /\ i - Len(q) \in DOMAIN s /\ c[i] = s[i - Len(q)]
  BY <1>1, <1>2
<1>4. Range(c) = Range(q) \cup Range(s)
  <2>1. ASSUME NEW i \in DOMAIN q PROVE q[i] \in Range(c)
    <3>1. i \in DOMAIN c /\ c[i] = q[i]
      BY <1>1, <1>2
    <3> QED  BY <3>1 DEF Range
  <2>2. ASSUME NEW i \in DOMAIN s PROVE s[i] \in Range(c)
    <3>1. Len(q) + i \in DOMAIN c /\ c[Len(q) + i] = s[i]
      BY <1>1, <1>2
    <3> QED  BY <3>1 DEF Range
  <2>3. ASSUME NEW i \in DOMAIN c PROVE c[i] \in Range(q) \cup Range(s)
    BY <1>3 DEF Range
  <2> QED  BY <2>1, <2>2, <2>3 DEF Range
<1>5. ASSUME IsInjective(q), IsInjective(s), Range(q) \cap Range(s) = {}
      PROVE  IsInjective(c)
  <2>1. SUFFICES ASSUME NEW i \in DOMAIN c, NEW j \in DOMAIN c, c[i] = c[j]
                 PROVE  i = j
    BY DEF IsInjective
  <2>2. \A a \in DOMAIN q, b \in DOMAIN s : q[a] # s[b]
    BY <1>5, Zenon DEF Range
  <2>3. i \in Nat /\ j \in Nat
    BY <1>1, <1>2
  <2>4. CASE i \in DOMAIN q /\ c[i] = q[i]
    BY <1>2, <1>3, <1>5, <2>1, <2>2, <2>3, <2>4, Zenon DEF IsInjective
  <2>5. CASE i > Len(q) /\ i - Len(q) \in DOMAIN s /\ c[i] = s[i - Len(q)]
    <3>1. ~ (j \in DOMAIN q /\ c[j] = q[j])
      BY <2>1, <2>2, <2>5
    <3>2. j > Len(q) /\ j - Len(q) \in DOMAIN s /\ c[j] = s[j - Len(q)]
      BY <1>3, <3>1
    <3>3. i - Len(q) = j - Len(q)
      BY <1>5, <2>1, <2>5, <3>2, Zenon DEF IsInjective
    <3> QED  BY <1>2, <2>3, <3>3
  <2> QED  BY <1>3, <2>4, <2>5
<1> QED  BY <1>1, <1>4, <1>5 DEF c

--------------------------------------------------------------------------------
(* The methods of the pool *)

\* The types of the fields of a pool.
LEMMA PoolFields ==
    ASSUME NEW p \in Pool
    PROVE  /\ p.free_block_queue \in Seq(Block)
           /\ p.ref_cnt \in [Block -> Nat]
           /\ p.block_hash \in [Block -> Seq(Token)]
           /\ p.cached_block_hash_to_block \in SUBSET (Seq(Token) \X Block)
           /\ p.failed \in BOOLEAN
  BY DEF Pool

\* A record of fields with these types is a pool.
LEMMA PoolRecord ==
    ASSUME NEW q \in Seq(Block), NEW r \in [Block -> Nat],
           NEW h \in [Block -> Seq(Token)],
           NEW c \in SUBSET (Seq(Token) \X Block), NEW f \in BOOLEAN
    PROVE  [free_block_queue |-> q, ref_cnt |-> r, block_hash |-> h,
            cached_block_hash_to_block |-> c, failed |-> f] \in Pool
  BY DEF Pool

\* Touching distinct real blocks keeps the pool consistent, adds one reference
\* to each of them and takes the unreferenced ones from the free queue.
LEMMA TouchOK ==
    ASSUME NEW p, PoolOK(p),
           NEW blocks \in Seq(Block), IsInjective(blocks),
           null_block \notin Range(blocks)
    PROVE  LET t == touch(p, blocks)
               free == {b \in Range(blocks) : p.ref_cnt[b] = 0}
           IN  /\ PoolOK(t)
               /\ t.failed = p.failed
               /\ t.block_hash = p.block_hash
               /\ t.ref_cnt = [b \in Block |-> IF b \in Range(blocks)
                                               THEN p.ref_cnt[b] + 1
                                               ELSE p.ref_cnt[b]]
               /\ t.free_block_queue = Keep(p.free_block_queue, Block \ free)
               /\ IsFiniteSet(free)
               /\ Len(t.free_block_queue) =
                     Len(p.free_block_queue) - Cardinality(free)
<1> DEFINE q == p.free_block_queue
           free == {b \in Range(blocks) : p.ref_cnt[b] = 0}
           t == touch(p, blocks)
           k == Keep(q, Block \ free)
<1>1. /\ p \in Pool /\ q \in Seq(Block) /\ p.ref_cnt \in [Block -> Nat]
      /\ Range(blocks) \subseteq Block
      /\ free \subseteq Block
  BY DEF PoolOK, Pool, Range
<1>2. free = {b \in Range(blocks) : p.ref_cnt[b] = 0 /\ b # null_block}
  OBVIOUS
<1>3. free \subseteq Range(q)
  BY <1>1, <1>2 DEF PoolOK, FreeQueueExact
<1>4. \A b \in Block : Occurrences(blocks, b) = IF b \in Range(blocks) THEN 1 ELSE 0
  BY InjectiveOccurrences
<1>5. /\ t.free_block_queue = k
      /\ t.block_hash = p.block_hash
      /\ t.cached_block_hash_to_block = p.cached_block_hash_to_block
      /\ t.failed = p.failed
      /\ t.ref_cnt = [b \in Block |-> IF b \in Range(blocks)
                                      THEN p.ref_cnt[b] + 1
                                      ELSE p.ref_cnt[b]]
  <2>1. [b \in Block |-> p.ref_cnt[b] + Occurrences(blocks, b)] =
        [b \in Block |-> IF b \in Range(blocks) THEN p.ref_cnt[b] + 1
                                                ELSE p.ref_cnt[b]]
    BY <1>1, <1>4
  <2>2. p.failed \in BOOLEAN
    BY <1>1 DEF Pool
  <2>3. t.failed = (p.failed \/ ~ (free \subseteq Range(q)))
    BY <1>2, Zenon DEF touch
  <2>4. t.failed = p.failed
    <3> HIDE DEF free, q, t
    <3> QED  BY <1>3, <2>2, <2>3
  <2> QED  BY <1>2, <2>1, <2>4, Zenon DEF touch
<1>6. k \in Seq(Block) /\ IsInjective(k) /\ Range(k) = Range(q) \ free
  <2>1. IsInjective(q)
    BY DEF PoolOK, FreeQueueExact
  <2>2. Range(q) \subseteq Block
    BY <1>1 DEF Range
  <2> HIDE DEF q, free
  <2> QED  BY <1>1, <2>1, <2>2, KeepRange, KeepInjective, KeepEnumerates
<1>8. IsFiniteSet(free) /\ Len(k) = Len(q) - Cardinality(free)
  <2>1. IsInjective(q)
    BY DEF PoolOK, FreeQueueExact
  <2> HIDE DEF q, free, k
  <2>2. IsFiniteSet(Range(q)) /\ Cardinality(Range(q)) = Len(q)
    BY <1>1, <2>1, InjectiveLen
  <2>3. Cardinality(Range(k)) = Len(k)
    BY <1>6, InjectiveLen, Zenon
  <2>4. Range(q) \cap free = free
    BY <1>3
  <2>5. Cardinality(Range(q) \ free) = Cardinality(Range(q)) - Cardinality(free)
    <3>1. Cardinality(Range(q) \ free)
             = Cardinality(Range(q)) - Cardinality(Range(q) \cap free)
      <4>1. IsFiniteSet(Range(q))
        BY <2>2
      <4> QED  BY <4>1, FS_Difference, Zenon
    <3> QED  BY <2>4, <3>1, Zenon
  <2>6. IsFiniteSet(free)
    BY <1>3, <2>2, FS_Subset
  <2> QED  BY <1>6, <2>2, <2>3, <2>5, <2>6
<1>9. PoolOK(t)
  <2>1. t \in Pool
    <3>1. t = [free_block_queue |-> t.free_block_queue,
               ref_cnt |-> t.ref_cnt,
               block_hash |-> t.block_hash,
               cached_block_hash_to_block |-> t.cached_block_hash_to_block,
               failed |-> t.failed]
      BY DEF touch
    <3>2. t.ref_cnt \in [Block -> Nat]
      <4> HIDE DEF t
      <4> QED  BY <1>1, <1>5
    <3> HIDE DEF q, free, k, t
    <3>3. /\ t.free_block_queue \in Seq(Block)
          /\ t.block_hash \in [Block -> Seq(Token)]
          /\ t.cached_block_hash_to_block \in SUBSET (Seq(Token) \X Block)
          /\ t.failed \in BOOLEAN
      BY <1>1, <1>5, <1>6, PoolFields, Zenon
    <3>4. [free_block_queue |-> t.free_block_queue,
           ref_cnt |-> t.ref_cnt,
           block_hash |-> t.block_hash,
           cached_block_hash_to_block |-> t.cached_block_hash_to_block,
           failed |-> t.failed] \in Pool
      BY <3>2, <3>3, PoolRecord, Zenon
    <3> QED  BY <3>1, <3>4, Zenon
  <2>2. Range(k) = {b \in Block : t.ref_cnt[b] = 0 /\ b # null_block}
    <3>1. Range(q) = {b \in Block : p.ref_cnt[b] = 0 /\ b # null_block}
      BY DEF PoolOK, FreeQueueExact
    <3>2. \A b \in Block : b \in free <=> b \in Range(blocks) /\ p.ref_cnt[b] = 0
      OBVIOUS
    <3> HIDE DEF q, k, t, free
    <3> QED  BY <1>1, <1>5, <1>6, <3>1, <3>2
  <2>3. FreeQueueExact(t)
    BY <1>5, <1>6, <2>2, Zenon DEF FreeQueueExact
  <2>4. HashMapExact(t)
    BY <1>5 DEF HashMapExact, PoolOK
  <2> QED  BY <2>1, <2>3, <2>4 DEF PoolOK
<1> HIDE DEF q, free, k, t
<1> QED  BY <1>5, <1>8, <1>9 DEF t, q, free, k

\* get_new_blocks takes the head of the free queue: distinct blocks that nobody
\* references, which it evicts and hands out with one reference.
LEMMA GetNewBlocksOK ==
    ASSUME NEW p, PoolOK(p), NEW n \in 0 .. Len(p.free_block_queue)
    PROVE  LET q == p.free_block_queue
               ret == popleft_n(q, n)
               g == get_new_blocks(p, n)
           IN  /\ PoolOK(g)
               /\ g.failed = p.failed
               /\ ret \in Seq(Block) /\ Len(ret) = n /\ IsInjective(ret)
               /\ \A b \in Range(ret) : /\ b \in Block /\ b # null_block
                                        /\ p.ref_cnt[b] = 0
               /\ g.ref_cnt = [b \in Block |-> IF b \in Range(ret)
                                               THEN p.ref_cnt[b] + 1
                                               ELSE p.ref_cnt[b]]
               /\ g.block_hash = [b \in Block |-> IF b \in Range(ret)
                                                  THEN NoHash
                                                  ELSE p.block_hash[b]]
               /\ g.free_block_queue = SubSeq(q, n + 1, Len(q))
<1> DEFINE q == p.free_block_queue
           ret == SubSeq(q, 1, n)
           rest == SubSeq(q, n + 1, Len(q))
           g == get_new_blocks(p, n)
           evicted == Evicted(p, ret)
<1>1. /\ q \in Seq(Block) /\ p.ref_cnt \in [Block -> Nat]
      /\ p.block_hash \in [Block -> Seq(Token)]
      /\ p.cached_block_hash_to_block \in SUBSET (Seq(Token) \X Block)
      /\ p.failed \in BOOLEAN
  BY PoolFields DEF PoolOK
<1>2. /\ IsInjective(q)
      /\ Range(q) = {b \in Block : p.ref_cnt[b] = 0 /\ b # null_block}
  BY DEF PoolOK, FreeQueueExact
<1>3. /\ p.cached_block_hash_to_block =
            {<<p.block_hash[b], b>> : b \in {c \in Block : p.block_hash[c] # NoHash}}
      /\ p.block_hash[null_block] = NoHash
      /\ ~ EnableCaching => \A b \in Block : p.block_hash[b] = NoHash
  BY DEF PoolOK, HashMapExact
<1>4. /\ ret \in Seq(Block) /\ Len(ret) = n /\ IsInjective(ret)
      /\ rest \in Seq(Block) /\ IsInjective(rest)
      /\ Range(q) = Range(ret) \cup Range(rest)
      /\ Range(ret) \cap Range(rest) = {}
  BY <1>1, <1>2, SplitFacts, SMTT(60)
<1>5. \A b \in Range(ret) : b \in Block /\ b # null_block /\ p.ref_cnt[b] = 0
  <2> HIDE DEF q, ret, rest
  <2> QED  BY <1>2, <1>4
<1>6. evicted = {b \in Range(ret) : p.block_hash[b] # NoHash}
  <2>1. \A b \in Block : <<p.block_hash[b], b>> \in p.cached_block_hash_to_block
                             <=> p.block_hash[b] # NoHash
    BY <1>3
  <2> HIDE DEF q, ret, rest
  <2> QED  BY <1>3, <1>5, <2>1 DEF Evicted
<1>7. g = [free_block_queue |-> rest,
           ref_cnt |-> [b \in Block |-> IF b \in Range(ret) THEN p.ref_cnt[b] + 1
                                                            ELSE p.ref_cnt[b]],
           block_hash |-> [b \in Block |-> IF b \in evicted THEN NoHash
                                                            ELSE p.block_hash[b]],
           cached_block_hash_to_block |->
              {e \in p.cached_block_hash_to_block : e[2] \notin evicted},
           failed |-> \/ p.failed
                      \/ n > Len(q)
                      \/ \E b \in Range(ret) : p.ref_cnt[b] # 0]
  BY DEF get_new_blocks, popleft_n, get_num_free_blocks
<1>8. (p.failed \/ n > Len(q) \/ \E b \in Range(ret) : p.ref_cnt[b] # 0) = p.failed
  <2>1. ~ (n > Len(q))
    OBVIOUS
  <2> HIDE DEF q, ret, rest
  <2> QED  BY <1>1, <1>5, <2>1
<1>9. [b \in Block |-> IF b \in evicted THEN NoHash ELSE p.block_hash[b]] =
      [b \in Block |-> IF b \in Range(ret) THEN NoHash ELSE p.block_hash[b]]
  <2> HIDE DEF evicted, ret
  <2> QED  BY <1>6
<1> HIDE DEF g
<1>10. /\ g.free_block_queue = rest
       /\ g.ref_cnt = [b \in Block |-> IF b \in Range(ret) THEN p.ref_cnt[b] + 1
                                                            ELSE p.ref_cnt[b]]
       /\ g.block_hash = [b \in Block |-> IF b \in Range(ret) THEN NoHash
                                                            ELSE p.block_hash[b]]
       /\ g.cached_block_hash_to_block =
              {e \in p.cached_block_hash_to_block : e[2] \notin evicted}
       /\ g.failed = p.failed
  <2> HIDE DEF evicted, ret, rest, q
  <2> QED  BY <1>7, <1>8, <1>9, Zenon
<1>11. PoolOK(g)
  <2>1. g \in Pool
    <3>1. /\ g.ref_cnt \in [Block -> Nat]
          /\ g.block_hash \in [Block -> Seq(Token)]
      <4>1. NoHash \in Seq(Token)
        BY DEF NoHash
      <4> HIDE DEF evicted, ret, rest, q
      <4> QED  BY <1>1, <1>10, <4>1, SMTT(60)
    <3>2. g.cached_block_hash_to_block \in SUBSET (Seq(Token) \X Block)
      <4> HIDE DEF evicted, ret, rest, q
      <4> QED  BY <1>1, <1>10
    <3>3. g.free_block_queue \in Seq(Block) /\ g.failed \in BOOLEAN
      <4> HIDE DEF evicted, ret, rest, q
      <4> QED  BY <1>1, <1>4, <1>10
    <3>4. [free_block_queue |-> g.free_block_queue,
           ref_cnt |-> g.ref_cnt,
           block_hash |-> g.block_hash,
           cached_block_hash_to_block |-> g.cached_block_hash_to_block,
           failed |-> g.failed] \in Pool
      BY <3>1, <3>2, <3>3, PoolRecord, Zenon
    <3>5. g = [free_block_queue |-> g.free_block_queue,
               ref_cnt |-> g.ref_cnt,
               block_hash |-> g.block_hash,
               cached_block_hash_to_block |-> g.cached_block_hash_to_block,
               failed |-> g.failed]
      BY Zenon DEF g, get_new_blocks
    <3> QED  BY <3>4, <3>5, Zenon
  <2>2. FreeQueueExact(g)
    <3>1. Range(rest) = {b \in Block : g.ref_cnt[b] = 0 /\ b # null_block}
      <4> HIDE DEF evicted, ret, rest, q
      <4> QED  BY <1>1, <1>2, <1>4, <1>5, <1>10
    <3> HIDE DEF evicted, ret, rest, q
    <3> QED  BY <1>4, <1>10, <3>1 DEF FreeQueueExact
  <2>3. HashMapExact(g)
    <3>1. \A b \in Block : g.block_hash[b] = IF b \in Range(ret) THEN NoHash
                                                                 ELSE p.block_hash[b]
      BY <1>10
    <3> HIDE DEF ret, q, rest
    <3>2. \A e \in g.cached_block_hash_to_block :
             \E b \in Block : g.block_hash[b] # NoHash /\ e = <<g.block_hash[b], b>>
      <4> HIDE DEF evicted
      <4> QED  BY <1>3, <1>6, <1>10, <3>1
    <3>3. \A b \in Block : g.block_hash[b] # NoHash =>
             <<g.block_hash[b], b>> \in g.cached_block_hash_to_block
      <4> HIDE DEF evicted
      <4> QED  BY <1>3, <1>6, <1>10, <3>1
    <3>4. ~ EnableCaching => \A b \in Block : g.block_hash[b] = NoHash
      BY <1>3, <3>1
    <3>5. null_block \in Block
      BY PoolAssumption DEF null_block, Block
    <3>6. g.block_hash[null_block] = NoHash
      BY <1>3, <3>1, <3>5
    <3> QED  BY <3>2, <3>3, <3>4, <3>6 DEF HashMapExact
  <2> QED  BY <2>1, <2>2, <2>3 DEF PoolOK
<1> QED  BY <1>4, <1>5, <1>10, <1>11 DEF g, popleft_n

\* The hash of a full block is a non-empty token sequence.
LEMMA BlockHashFacts ==
    ASSUME NEW toks \in Seq(Token), NEW k \in Nat, k * BlockSize <= Len(toks)
    PROVE  /\ BlockHash(toks, k) \in Seq(Token)
           /\ Len(BlockHash(toks, k)) = k * BlockSize
           /\ k > 0 => BlockHash(toks, k) # NoHash
           /\ \A i \in 1 .. k * BlockSize : BlockHash(toks, k)[i] = toks[i]
<1>1. k * BlockSize \in Nat /\ (k > 0 => k * BlockSize > 0)
  BY PoolAssumption
<1>2. \A m \in Nat : m <= Len(toks) => /\ SubSeq(toks, 1, m) \in Seq(Token)
                                       /\ Len(SubSeq(toks, 1, m)) = m
                                       /\ \A i \in 1 .. m : SubSeq(toks, 1, m)[i] = toks[i]
  OBVIOUS
<1>3. Len(NoHash) = 0
  BY DEF NoHash
<1> QED  BY <1>1, <1>2, <1>3 DEF BlockHash

\* cache_full_blocks gives the blocks that become full the hashes of their
\* prefixes and touches nothing else.
LEMMA CacheFullBlocksOK ==
    ASSUME NEW p, PoolOK(p), EnableCaching,
           NEW toks \in Seq(Token),
           NEW table \in Seq(Block), IsInjective(table), null_block \notin Range(table),
           NEW nc \in Nat, NEW nf \in Nat, nc <= nf, nf <= Len(table),
           nf * BlockSize <= Len(toks),
           \A i \in nc + 1 .. nf : p.block_hash[table[i]] = NoHash
    PROVE  LET c == cache_full_blocks(p, toks, table, nc, nf)
           IN  /\ PoolOK(c)
               /\ c.failed = p.failed
               /\ c.free_block_queue = p.free_block_queue
               /\ c.ref_cnt = p.ref_cnt
               /\ \A i \in nc + 1 .. nf :
                     c.block_hash[table[i]] = BlockHash(toks, i)
               /\ \A b \in Block : (\A i \in nc + 1 .. nf : table[i] # b)
                                       => c.block_hash[b] = p.block_hash[b]
<1> DEFINE new == {i \in DOMAIN table : nc < i /\ i <= nf}
           IndexOf(b) == CHOOSE i \in new : table[i] = b
           c == cache_full_blocks(p, toks, table, nc, nf)
<1>1. /\ p.free_block_queue \in Seq(Block) /\ p.ref_cnt \in [Block -> Nat]
      /\ p.block_hash \in [Block -> Seq(Token)]
      /\ p.cached_block_hash_to_block \in SUBSET (Seq(Token) \X Block)
      /\ p.failed \in BOOLEAN
  BY PoolFields DEF PoolOK
<1>2. new = nc + 1 .. nf /\ \A i \in new : i \in Nat /\ i > 0 /\ table[i] \in Block
  OBVIOUS
<1>3. \A i \in new : /\ BlockHash(toks, i) \in Seq(Token)
                     /\ BlockHash(toks, i) # NoHash
  <2>1. SUFFICES ASSUME NEW i \in new
                 PROVE  /\ BlockHash(toks, i) \in Seq(Token)
                        /\ BlockHash(toks, i) # NoHash
    OBVIOUS
  <2>2. i \in Nat /\ i > 0 /\ i <= nf
    OBVIOUS
  <2>3. i * BlockSize <= nf * BlockSize
    BY <2>2, MulMonotone, PoolAssumption
  <2>4. i * BlockSize \in Nat /\ nf * BlockSize \in Nat /\ Len(toks) \in Nat
    BY <2>2, PoolAssumption
  <2>5. i * BlockSize <= Len(toks)
    BY <2>3, <2>4
  <2> QED  BY <2>2, <2>5, BlockHashFacts
<1>4. \A i \in new : IndexOf(table[i]) = i
  BY DEF IsInjective
<1>5. /\ c.free_block_queue = p.free_block_queue
      /\ c.ref_cnt = p.ref_cnt
      /\ c.block_hash = [b \in Block |-> IF \E i \in new : table[i] = b
                                         THEN BlockHash(toks, IndexOf(b))
                                         ELSE p.block_hash[b]]
      /\ c.cached_block_hash_to_block =
            p.cached_block_hash_to_block
              \cup {<<BlockHash(toks, i), table[i]>> : i \in new}
  BY Zenon DEF cache_full_blocks
<1>6. c.failed = p.failed
  <2>1. ~ (Len(toks) \div BlockSize < nf)
    <3>1. Len(toks) \in Nat /\ BlockSize \in Nat \ {0}
      BY PoolAssumption
    <3>2. nf <= Len(toks) \div BlockSize /\ Len(toks) \div BlockSize \in Nat
      BY <3>1, DivOfMultiple, DivMod, Zenon
    <3> QED  BY <3>2
  <2>2. ~ \E i \in new : p.block_hash[table[i]] # NoHash
    BY <1>2
  <2> DEFINE raised == \/ nc # nf /\ Len(toks) \div BlockSize < nf
                       \/ \E i \in new : p.block_hash[table[i]] # NoHash
  <2>3. c.failed = (p.failed \/ raised)
    BY Zenon DEF cache_full_blocks
  <2>4. ~ raised
    BY <2>1, <2>2
  <2> HIDE DEF c, raised
  <2> QED  BY <1>1, <2>3, <2>4
<1>7. \A i \in new : c.block_hash[table[i]] = BlockHash(toks, i)
  <2> HIDE DEF c, new, IndexOf
  <2> QED  BY <1>2, <1>4, <1>5
<1>8. \A b \in Block : (\A i \in new : table[i] # b) => c.block_hash[b] = p.block_hash[b]
  <2> HIDE DEF c, new, IndexOf
  <2> QED  BY <1>5
<1>9. c = [free_block_queue |-> c.free_block_queue,
           ref_cnt |-> c.ref_cnt,
           block_hash |-> c.block_hash,
           cached_block_hash_to_block |-> c.cached_block_hash_to_block,
           failed |-> c.failed]
  BY Zenon DEF cache_full_blocks
<1> HIDE DEF c, IndexOf
<1>10. c \in Pool
  <2>1. c.block_hash \in [Block -> Seq(Token)]
    <3>1. \A b \in Block : c.block_hash[b] \in Seq(Token)
      <4> HIDE DEF new
      <4>1. SUFFICES ASSUME NEW b \in Block PROVE c.block_hash[b] \in Seq(Token)
        OBVIOUS
      <4>2. CASE \E i \in new : table[i] = b
        BY <1>3, <1>7, <4>2, Zenon
      <4>3. CASE ~ \E i \in new : table[i] = b
        <5>1. p.block_hash[b] \in Seq(Token)
          BY <1>1
        <5> QED  BY <1>8, <4>3, <5>1, Zenon
      <4> QED  BY <4>2, <4>3
    <3> HIDE DEF new
    <3> QED  BY <1>5, <3>1, Zenon
  <2>2. c.cached_block_hash_to_block \in SUBSET (Seq(Token) \X Block)
    <3> HIDE DEF new
    <3>1. \A i \in new : <<BlockHash(toks, i), table[i]>> \in Seq(Token) \X Block
      BY <1>2, <1>3
    <3> QED  BY <1>1, <1>5, <3>1
  <2>3. [free_block_queue |-> c.free_block_queue,
         ref_cnt |-> c.ref_cnt,
         block_hash |-> c.block_hash,
         cached_block_hash_to_block |-> c.cached_block_hash_to_block,
         failed |-> c.failed] \in Pool
    <3>1. /\ c.free_block_queue \in Seq(Block) /\ c.ref_cnt \in [Block -> Nat]
          /\ c.failed \in BOOLEAN
      BY <1>1, <1>5, <1>6
    <3> QED  BY <2>1, <2>2, <3>1, PoolRecord, Zenon
  <2> QED  BY <1>9, <2>3, Zenon
<1>11. FreeQueueExact(c)
  BY <1>5 DEF FreeQueueExact, PoolOK
<1>12. HashMapExact(c)
  <2>1. p.cached_block_hash_to_block =
          {<<p.block_hash[b], b>> : b \in {d \in Block : p.block_hash[d] # NoHash}}
    BY DEF PoolOK, HashMapExact
  <2>2. \A i \in new : p.block_hash[table[i]] = NoHash
    BY <1>2
  <2> HIDE DEF new
  <2>3. \A e \in c.cached_block_hash_to_block :
           \E b \in Block : c.block_hash[b] # NoHash /\ e = <<c.block_hash[b], b>>
    <3>1. SUFFICES ASSUME NEW e \in c.cached_block_hash_to_block
                   PROVE  \E b \in Block : /\ c.block_hash[b] # NoHash
                                           /\ e = <<c.block_hash[b], b>>
      OBVIOUS
    <3>2. CASE e \in p.cached_block_hash_to_block
      <4>1. PICK b \in Block : p.block_hash[b] # NoHash /\ e = <<p.block_hash[b], b>>
        BY <2>1, <3>2
      <4>2. \A i \in new : table[i] # b
        BY <2>2, <4>1
      <4> QED  BY <1>8, <4>1, <4>2
    <3>3. CASE e \in {<<BlockHash(toks, i), table[i]>> : i \in new}
      <4>1. PICK i \in new : e = <<BlockHash(toks, i), table[i]>>
        BY <3>3
      <4> QED  BY <1>2, <1>3, <1>7, <4>1
    <3> QED  BY <1>5, <3>2, <3>3
  <2>4. \A b \in Block : c.block_hash[b] # NoHash =>
           <<c.block_hash[b], b>> \in c.cached_block_hash_to_block
    <3>1. SUFFICES ASSUME NEW b \in Block, c.block_hash[b] # NoHash
                   PROVE  <<c.block_hash[b], b>> \in c.cached_block_hash_to_block
      OBVIOUS
    <3>2. CASE \E i \in new : table[i] = b
      BY <1>5, <1>7, <3>2, SMTT(60)
    <3>3. CASE ~ \E i \in new : table[i] = b
      BY <1>5, <1>8, <2>1, <3>1, <3>3
    <3> QED  BY <3>2, <3>3
  <2>5. c.block_hash[null_block] = NoHash
    <3>1. null_block \in Block
      BY PoolAssumption DEF null_block, Block
    <3>2. \A i \in new : table[i] # null_block
      BY DEF new, Range
    <3>3. p.block_hash[null_block] = NoHash
      BY DEF PoolOK, HashMapExact
    <3> QED  BY <1>8, <3>1, <3>2, <3>3
  <2> QED  BY <2>3, <2>4, <2>5 DEF HashMapExact
<1> QED  BY <1>2, <1>5, <1>6, <1>7, <1>8, <1>10, <1>11, <1>12, Zenon DEF PoolOK, c

\* Freeing distinct referenced blocks drops one reference to each; the blocks
\* left without one join the tail of the free queue in the list's order.
LEMMA FreeBlocksOK ==
    ASSUME NEW p, PoolOK(p),
           NEW blocks \in Seq(Block), IsInjective(blocks),
           null_block \notin Range(blocks),
           \A b \in Range(blocks) : p.ref_cnt[b] > 0
    PROVE  LET f == free_blocks(p, blocks)
           IN  /\ PoolOK(f)
               /\ f.failed = p.failed
               /\ f.block_hash = p.block_hash
               /\ f.ref_cnt = [b \in Block |-> IF b \in Range(blocks)
                                               THEN p.ref_cnt[b] - 1
                                               ELSE p.ref_cnt[b]]
               /\ f.free_block_queue = p.free_block_queue \o
                     Keep(blocks, {b \in Block : f.ref_cnt[b] = 0 /\ b # null_block})
<1> DEFINE f == free_blocks(p, blocks)
           q == p.free_block_queue
           unused == {b \in Block : f.ref_cnt[b] = 0 /\ b # null_block}
           k == Keep(blocks, unused)
<1>1. /\ q \in Seq(Block) /\ p.ref_cnt \in [Block -> Nat]
      /\ p.block_hash \in [Block -> Seq(Token)]
      /\ p.cached_block_hash_to_block \in SUBSET (Seq(Token) \X Block)
      /\ p.failed \in BOOLEAN
      /\ Range(blocks) \subseteq Block
  BY PoolFields DEF PoolOK, Range
<1>2. \A b \in Block : Occurrences(blocks, b) = IF b \in Range(blocks) THEN 1 ELSE 0
  BY InjectiveOccurrences
<1>3. f = [free_block_queue |-> q \o k,
           ref_cnt |-> f.ref_cnt,
           block_hash |-> p.block_hash,
           cached_block_hash_to_block |-> p.cached_block_hash_to_block,
           failed |-> p.failed]
  BY DEF free_blocks
<1>4. f.ref_cnt = [b \in Block |-> IF b \in Range(blocks) THEN p.ref_cnt[b] - 1
                                                          ELSE p.ref_cnt[b]]
  <2>1. f.ref_cnt = [b \in Block |-> p.ref_cnt[b] - Occurrences(blocks, b)]
    BY DEF free_blocks
  <2> HIDE DEF f
  <2> QED  BY <1>1, <1>2, <2>1
<1> HIDE DEF f
<1>5. /\ f.free_block_queue = q \o k
      /\ f.block_hash = p.block_hash
      /\ f.cached_block_hash_to_block = p.cached_block_hash_to_block
      /\ f.failed = p.failed
  <2> HIDE DEF q, k, unused
  <2> QED  BY <1>3
<1>6. f.ref_cnt \in [Block -> Nat]
  BY <1>1, <1>4
<1>7. k \in Seq(Block) /\ IsInjective(k) /\ Range(k) = Range(blocks) \cap unused
  <2> HIDE DEF unused
  <2> QED  BY KeepRange, KeepInjective, KeepEnumerates
<1>8. IsInjective(q) /\ Range(q) = {b \in Block : p.ref_cnt[b] = 0 /\ b # null_block}
  BY DEF PoolOK, FreeQueueExact
<1> HIDE DEF k
<1>9. Range(q) \cap Range(k) = {}
  <2> HIDE DEF q, unused
  <2> QED  BY <1>1, <1>7, <1>8
<1>10. Range(q) \cup Range(k) = unused
  <2> HIDE DEF q
  <2> QED  BY <1>1, <1>4, <1>7, <1>8
<1>11. /\ q \o k \in Seq(Block) /\ IsInjective(q \o k)
       /\ Range(q \o k) = Range(q) \cup Range(k)
  <2> HIDE DEF q
  <2> QED  BY <1>1, <1>7, <1>8, <1>9, ConcatFacts
<1>12. f \in Pool
  <2>1. q \o k \in Seq(Block)
    BY <1>11
  <2> HIDE DEF q
  <2>2. [free_block_queue |-> q \o k,
         ref_cnt |-> f.ref_cnt,
         block_hash |-> p.block_hash,
         cached_block_hash_to_block |-> p.cached_block_hash_to_block,
         failed |-> p.failed] \in Pool
    BY <1>1, <1>6, <2>1, PoolRecord, Zenon
  <2> QED  BY <1>3, <2>2, Zenon
<1>13. FreeQueueExact(f)
  <2> HIDE DEF q
  <2> QED  BY <1>5, <1>10, <1>11 DEF FreeQueueExact
<1>14. HashMapExact(f)
  BY <1>5 DEF HashMapExact, PoolOK
<1> QED  BY <1>4, <1>5, <1>12, <1>13, <1>14 DEF PoolOK, f, k

\* reset_prefix_cache clears every hash or does nothing, and keeps the
\* references and the free queue.
LEMMA ResetPrefixCacheOK ==
    ASSUME NEW p, PoolOK(p)
    PROVE  LET t == reset_prefix_cache(p)
           IN  /\ PoolOK(t)
               /\ t.failed = p.failed
               /\ t.ref_cnt = p.ref_cnt
               /\ t.free_block_queue = p.free_block_queue
               /\ \/ t = p
                  \/ /\ t.block_hash = [b \in Block |-> NoHash]
                     /\ NumGpuBlocks - Len(p.free_block_queue) = 1
<1> DEFINE t == reset_prefix_cache(p)
<1>1. CASE NumGpuBlocks - get_num_free_blocks(p) # 1
  BY <1>1 DEF reset_prefix_cache
<1>2. CASE NumGpuBlocks - get_num_free_blocks(p) = 1
  <2>1. t = [free_block_queue |-> p.free_block_queue,
             ref_cnt |-> p.ref_cnt,
             block_hash |-> [b \in Block |-> NoHash],
             cached_block_hash_to_block |-> {},
             failed |-> p.failed]
    BY <1>2 DEF reset_prefix_cache
  <2>2. [b \in Block |-> NoHash] \in [Block -> Seq(Token)]
    BY DEF NoHash
  <2>3. t \in Pool
    <3>1. {} \in SUBSET (Seq(Token) \X Block)
      OBVIOUS
    <3> HIDE DEF t
    <3> QED  BY <2>1, <2>2, <3>1, PoolRecord, PoolFields, Zenon DEF PoolOK
  <2> HIDE DEF t
  <2>4. FreeQueueExact(t)
    BY <2>1 DEF FreeQueueExact, PoolOK
  <2>5. HashMapExact(t)
    <3>1. \A b \in Block : t.block_hash[b] = NoHash
      BY <2>1
    <3>2. t.cached_block_hash_to_block = {}
      BY <2>1
    <3>3. null_block \in Block
      BY PoolAssumption DEF null_block, Block
    <3> QED  BY <3>1, <3>2, <3>3 DEF HashMapExact
  <2>6. /\ t.failed = p.failed
        /\ t.ref_cnt = p.ref_cnt
        /\ t.free_block_queue = p.free_block_queue
        /\ t.block_hash = [b \in Block |-> NoHash]
    BY <2>1
  <2> QED  BY <1>2, <2>3, <2>4, <2>5, <2>6 DEF PoolOK, t, get_num_free_blocks
<1> QED  BY <1>1, <1>2

\* The pool that BlockPool.__init__ builds.
LEMMA InitPoolOK == PoolOK(InitPool)
<1> DEFINE q == [i \in 1 .. NumGpuBlocks - 1 |-> i]
<1>1. NumGpuBlocks \in Nat /\ NumGpuBlocks > 0
  BY PoolAssumption
<1>2. q \in Seq(Block) /\ DOMAIN q = 1 .. NumGpuBlocks - 1
  <2>1. NumGpuBlocks - 1 \in Nat /\ \A i \in 1 .. NumGpuBlocks - 1 : i \in Block
    BY <1>1 DEF Block
  <2> QED  BY <2>1
<1>3. IsInjective(q)
  BY DEF IsInjective
<1>4. Range(q) = {b \in Block : b # null_block}
  BY <1>1, <1>2 DEF Range, Block, null_block
<1>5. /\ [b \in Block |-> 0] \in [Block -> Nat]
      /\ [b \in Block |-> NoHash] \in [Block -> Seq(Token)]
      /\ {} \in SUBSET (Seq(Token) \X Block)
      /\ FALSE \in BOOLEAN
  BY DEF NoHash
<1> HIDE DEF q
<1>6. InitPool \in Pool
  BY <1>2, <1>5, PoolRecord, Zenon DEF InitPool, q
<1>7. /\ InitPool.free_block_queue = q
      /\ \A b \in Block : InitPool.ref_cnt[b] = 0 /\ InitPool.block_hash[b] = NoHash
      /\ InitPool.cached_block_hash_to_block = {}
  BY DEF InitPool, q
<1>8. FreeQueueExact(InitPool)
  BY <1>3, <1>4, <1>7 DEF FreeQueueExact
<1>9. HashMapExact(InitPool)
  <2>1. null_block \in Block
    BY PoolAssumption DEF null_block, Block
  <2> QED  BY <1>7, <2>1 DEF HashMapExact
<1> QED  BY <1>6, <1>8, <1>9 DEF PoolOK

--------------------------------------------------------------------------------
(* The eviction order: a parent never leaves the cache before its children *)

\* A block that is not the first of its chain has a parent.
LEMMA ParentFacts ==
    ASSUME NEW h \in Seq(Token), Len(h) > BlockSize
    PROVE  Parent(h) # NoHash
<1>1. Len(h) - BlockSize \in Nat /\ Len(h) - BlockSize > 0 /\ Len(h) - BlockSize <= Len(h)
  BY PoolAssumption
<1>2. Len(Parent(h)) = Len(h) - BlockSize
  BY <1>1 DEF Parent
<1> QED  BY <1>1, <1>2 DEF NoHash

\* touch keeps parents behind their children: it only takes blocks out of the
\* free queue.
LEMMA ParentTouch ==
    ASSUME NEW p, PoolOK(p), ParentBehind(p),
           NEW blocks \in Seq(Block), IsInjective(blocks),
           null_block \notin Range(blocks)
    PROVE  ParentBehind(touch(p, blocks))
<1> DEFINE t == touch(p, blocks)
           q == p.free_block_queue
           free == {b \in Range(blocks) : p.ref_cnt[b] = 0}
<1>1. /\ t.block_hash = p.block_hash
      /\ t.ref_cnt = [b \in Block |-> IF b \in Range(blocks) THEN p.ref_cnt[b] + 1
                                                             ELSE p.ref_cnt[b]]
      /\ t.free_block_queue = Keep(q, Block \ free)
  BY TouchOK, ZenonT(60)
<1>2. q \in Seq(Block) /\ p.ref_cnt \in [Block -> Nat]
  BY PoolFields DEF PoolOK
<1> HIDE DEF t
<1>3. SUFFICES ASSUME NEW b \in Block, t.ref_cnt[b] = 0, Len(t.block_hash[b]) > BlockSize
               PROVE  \E c \in Block : /\ t.block_hash[c] = Parent(t.block_hash[b])
                                       /\ t.ref_cnt[c] > 0 \/ Behind(t, b, c)
  BY DEF ParentBehind, t
<1>4. p.ref_cnt[b] = 0 /\ b \notin Range(blocks)
  BY <1>1, <1>2, <1>3
<1>5. PICK c \in Block : /\ p.block_hash[c] = Parent(p.block_hash[b])
                         /\ p.ref_cnt[c] > 0 \/ Behind(p, b, c)
  BY <1>1, <1>3, <1>4 DEF ParentBehind
<1>6. CASE p.ref_cnt[c] > 0 \/ c \in Range(blocks)
  <2>1. t.ref_cnt[c] > 0
    BY <1>1, <1>2, <1>6
  <2>2. t.block_hash[c] = Parent(t.block_hash[b])
    BY <1>1, <1>5, Zenon
  <2> QED  BY <2>1, <2>2, Zenon
<1>7. CASE Behind(p, b, c) /\ c \notin Range(blocks)
  <2>1. PICK i \in DOMAIN q, j \in DOMAIN q : i < j /\ q[i] = b /\ q[j] = c
    BY <1>7 DEF Behind
  <2>2. b \in Block \ free /\ c \in Block \ free
    BY <1>4, <1>7
  <2> HIDE DEF q, free
  <2>3. \E m, n \in DOMAIN Keep(q, Block \ free) :
           m < n /\ Keep(q, Block \ free)[m] = b /\ Keep(q, Block \ free)[n] = c
    <3> DEFINE S == Block \ free
    <3>1. q[i] \in S /\ q[j] \in S /\ i < j
      BY <2>1, <2>2
    <3> HIDE DEF S
    <3>2. \E m, n \in DOMAIN Keep(q, S) :
             m < n /\ Keep(q, S)[m] = q[i] /\ Keep(q, S)[n] = q[j]
      BY <1>2, <3>1, KeepOrder
    <3> QED  BY <2>1, <3>2, Zenon DEF S
  <2>4. Behind(t, b, c)
    BY <1>1, <2>3, Zenon DEF Behind
  <2>5. t.block_hash[c] = Parent(t.block_hash[b])
    BY <1>1, <1>5, Zenon
  <2> QED  BY <2>4, <2>5, Zenon
<1> QED  BY <1>5, <1>6, <1>7

\* get_new_blocks takes the head of the free queue, so a child is evicted before
\* its parent.
LEMMA ParentGetNewBlocks ==
    ASSUME NEW p, PoolOK(p), ParentBehind(p), NEW n \in 0 .. Len(p.free_block_queue)
    PROVE  ParentBehind(get_new_blocks(p, n))
<1> DEFINE g == get_new_blocks(p, n)
           q == p.free_block_queue
           ret == SubSeq(q, 1, n)
           rest == SubSeq(q, n + 1, Len(q))
<1>1. /\ g.ref_cnt = [b \in Block |-> IF b \in Range(ret) THEN p.ref_cnt[b] + 1
                                                          ELSE p.ref_cnt[b]]
      /\ g.block_hash = [b \in Block |-> IF b \in Range(ret) THEN NoHash
                                                             ELSE p.block_hash[b]]
      /\ g.free_block_queue = rest
      /\ \A b \in Range(ret) : p.ref_cnt[b] = 0
  BY GetNewBlocksOK DEF popleft_n
<1>2. q \in Seq(Block) /\ p.ref_cnt \in [Block -> Nat] /\ IsInjective(q)
  BY PoolFields DEF PoolOK, FreeQueueExact
<1>3. /\ Len(ret) = n /\ ret \in Seq(Block) /\ \A i \in 1 .. n : ret[i] = q[i]
      /\ Len(rest) = Len(q) - n /\ rest \in Seq(Block)
      /\ \A i \in 1 .. Len(q) - n : rest[i] = q[i + n]
      /\ Range(ret) \cap Range(rest) = {}
  BY <1>2, SplitFacts
<1>3a. Len(q) \in Nat /\ n \in Nat /\ n <= Len(q) /\ DOMAIN q = 1 .. Len(q)
  BY <1>2
<1> HIDE DEF g
<1>4. SUFFICES ASSUME NEW b \in Block, g.ref_cnt[b] = 0, Len(g.block_hash[b]) > BlockSize
               PROVE  \E c \in Block : /\ g.block_hash[c] = Parent(g.block_hash[b])
                                       /\ g.ref_cnt[c] > 0 \/ Behind(g, b, c)
  BY DEF ParentBehind, g
<1> HIDE DEF q, ret, rest
<1>5. b \notin Range(ret) /\ p.ref_cnt[b] = 0 /\ g.block_hash[b] = p.block_hash[b]
  BY <1>1, <1>2, <1>4
<1>6. PICK c \in Block : /\ p.block_hash[c] = Parent(p.block_hash[b])
                         /\ p.ref_cnt[c] > 0 \/ Behind(p, b, c)
  BY <1>4, <1>5 DEF ParentBehind
<1>7. CASE p.ref_cnt[c] > 0
  <2>1. c \notin Range(ret)
    BY <1>1, <1>7
  <2>2. g.block_hash[c] = p.block_hash[c] /\ g.ref_cnt[c] > 0
    BY <1>1, <1>2, <1>7, <2>1
  <2>3. g.block_hash[c] = Parent(g.block_hash[b])
    BY <1>5, <1>6, <2>2, Zenon
  <2> QED  BY <2>2, <2>3, Zenon
<1>8. CASE Behind(p, b, c)
  <2>1. PICK i \in DOMAIN q, j \in DOMAIN q : i < j /\ q[i] = b /\ q[j] = c
    BY <1>8 DEF Behind, q
  <2>2. i > n
    <3>1. SUFFICES ASSUME i <= n PROVE FALSE
      BY <1>3a, <2>1
    <3>2. i \in DOMAIN ret /\ ret[i] = b
      BY <1>3, <1>3a, <2>1, <3>1
    <3> QED  BY <1>5, <3>2 DEF Range
  <2>3. /\ i - n \in DOMAIN rest /\ rest[i - n] = b
        /\ j - n \in DOMAIN rest /\ rest[j - n] = c
        /\ i - n < j - n
    BY <1>3, <1>3a, <2>1, <2>2
  <2>4. c \notin Range(ret)
    BY <1>3, <2>3, Zenon DEF Range
  <2>5. Behind(g, b, c)
    BY <1>1, <2>3 DEF Behind
  <2>6. g.block_hash[c] = p.block_hash[c]
    BY <1>1, <2>4
  <2>7. g.block_hash[c] = Parent(g.block_hash[b])
    BY <1>5, <1>6, <2>6, Zenon
  <2> QED  BY <2>5, <2>7, Zenon
<1> QED  BY <1>6, <1>7, <1>8

\* cache_full_blocks gives hashes only to blocks that are in use.
LEMMA ParentCacheFullBlocks ==
    ASSUME NEW p, PoolOK(p), ParentBehind(p),
           NEW c, c.ref_cnt = p.ref_cnt, c.free_block_queue = p.free_block_queue,
           NEW changed \in SUBSET Block,
           \A b \in changed : p.block_hash[b] = NoHash /\ p.ref_cnt[b] > 0,
           \A b \in Block \ changed : c.block_hash[b] = p.block_hash[b]
    PROVE  ParentBehind(c)
<1>1. p.block_hash \in [Block -> Seq(Token)] /\ p.ref_cnt \in [Block -> Nat]
  BY PoolFields DEF PoolOK
<1>2. SUFFICES ASSUME NEW b \in Block, c.ref_cnt[b] = 0, Len(c.block_hash[b]) > BlockSize
               PROVE  \E d \in Block : /\ c.block_hash[d] = Parent(c.block_hash[b])
                                       /\ c.ref_cnt[d] > 0 \/ Behind(c, b, d)
  BY DEF ParentBehind
<1>3. b \notin changed /\ p.ref_cnt[b] = 0 /\ c.block_hash[b] = p.block_hash[b]
  BY <1>1, <1>2
<1>4. PICK d \in Block : /\ p.block_hash[d] = Parent(p.block_hash[b])
                         /\ p.ref_cnt[d] > 0 \/ Behind(p, b, d)
  BY <1>2, <1>3 DEF ParentBehind
<1>5. Parent(p.block_hash[b]) # NoHash
  BY <1>1, <1>2, <1>3, ParentFacts
<1>6. c.block_hash[d] = p.block_hash[d]
  BY <1>4, <1>5
<1>7. c.block_hash[d] = Parent(c.block_hash[b])
  BY <1>3, <1>4, <1>6, Zenon
<1>8. Behind(p, b, d) => Behind(c, b, d)
  BY DEF Behind
<1>9. p.ref_cnt[d] > 0 => c.ref_cnt[d] > 0
  OBVIOUS
<1> QED  BY <1>4, <1>7, <1>8, <1>9, Zenon

\* Freeing a list in which every block precedes a block that carries its
\* parent's hash: what free does with a table in reverse order.
LEMMA ParentFreeBlocks ==
    ASSUME NEW p, PoolOK(p), ParentBehind(p),
           NEW blocks \in Seq(Block), IsInjective(blocks),
           null_block \notin Range(blocks),
           \A b \in Range(blocks) : p.ref_cnt[b] > 0,
           \A i \in DOMAIN blocks : Len(p.block_hash[blocks[i]]) > BlockSize =>
              \E j \in DOMAIN blocks :
                 i < j /\ p.block_hash[blocks[j]] = Parent(p.block_hash[blocks[i]])
    PROVE  ParentBehind(free_blocks(p, blocks))
<1> DEFINE f == free_blocks(p, blocks)
           q == p.free_block_queue
           unused == {b \in Block : f.ref_cnt[b] = 0 /\ b # null_block}
           k == Keep(blocks, unused)
<1>1. /\ f.block_hash = p.block_hash
      /\ f.ref_cnt = [b \in Block |-> IF b \in Range(blocks) THEN p.ref_cnt[b] - 1
                                                             ELSE p.ref_cnt[b]]
      /\ f.free_block_queue = q \o k
      /\ PoolOK(f)
  BY FreeBlocksOK, ZenonT(60)
<1>2. /\ q \in Seq(Block) /\ p.ref_cnt \in [Block -> Nat] /\ f.ref_cnt \in [Block -> Nat]
      /\ Range(f.free_block_queue) = unused
      /\ Range(q) = {b \in Block : p.ref_cnt[b] = 0 /\ b # null_block}
      /\ Range(blocks) \subseteq Block
  <2>1. /\ q \in Seq(Block) /\ p.ref_cnt \in [Block -> Nat]
        /\ Range(q) = {b \in Block : p.ref_cnt[b] = 0 /\ b # null_block}
    BY PoolFields DEF PoolOK, FreeQueueExact
  <2>2. f.ref_cnt \in [Block -> Nat]
    BY <1>1, PoolFields, Zenon DEF PoolOK
  <2>3. Range(f.free_block_queue) = unused
    BY <1>1, Zenon DEF PoolOK, FreeQueueExact
  <2>4. Range(blocks) \subseteq Block
    BY DEF Range
  <2> QED  BY <2>1, <2>2, <2>3, <2>4
<1> HIDE DEF f
<1>3. k \in Seq(Block) /\ Range(k) = Range(blocks) \cap unused
  <2> HIDE DEF unused
  <2> QED  BY KeepRange, KeepEnumerates
<1>4. /\ \A i \in 1 .. Len(q) : (q \o k)[i] = q[i]
      /\ \A i \in 1 .. Len(k) : (q \o k)[Len(q) + i] = k[i]
      /\ DOMAIN (q \o k) = 1 .. Len(q) + Len(k)
      /\ Len(q) \in Nat /\ Len(k) \in Nat
      /\ DOMAIN q = 1 .. Len(q) /\ DOMAIN k = 1 .. Len(k)
  <2> HIDE DEF k, q
  <2> QED  BY <1>2, <1>3
<1>5. SUFFICES ASSUME NEW b \in Block, f.ref_cnt[b] = 0, Len(f.block_hash[b]) > BlockSize
               PROVE  \E c \in Block : /\ f.block_hash[c] = Parent(f.block_hash[b])
                                       /\ f.ref_cnt[c] > 0 \/ Behind(f, b, c)
  BY DEF ParentBehind, f
<1>6. CASE b \in Range(blocks)
  <2>1. PICK i \in DOMAIN blocks : blocks[i] = b
    BY <1>6 DEF Range
  <2>2. PICK j \in DOMAIN blocks :
             i < j /\ p.block_hash[blocks[j]] = Parent(p.block_hash[blocks[i]])
    BY <1>1, <1>5, <2>1
  <2> DEFINE c == blocks[j]
  <2>3. c \in Range(blocks) /\ c \in Block
    BY <1>2 DEF Range
  <2>4. f.block_hash[c] = Parent(f.block_hash[b])
    BY <1>1, <2>1, <2>2, Zenon
  <2>5. CASE f.ref_cnt[c] > 0
    BY <2>3, <2>4, <2>5, Zenon
  <2>6. CASE ~ (f.ref_cnt[c] > 0)
    <3>1. b \in unused /\ c \in unused
      <4>1. b # null_block /\ c # null_block
        BY <1>6, <2>3
      <4>2. f.ref_cnt[c] = 0
        BY <1>2, <2>3, <2>6
      <4> QED  BY <1>5, <2>3, <4>1, <4>2
    <3> HIDE DEF unused, c
    <3>2. blocks[i] \in unused /\ blocks[j] \in unused
      BY <2>1, <3>1 DEF c
    <3>3. \E m, n \in DOMAIN k : m < n /\ k[m] = blocks[i] /\ k[n] = blocks[j]
      BY <2>2, <3>2, KeepOrder
    <3>4. PICK m \in DOMAIN k, n \in DOMAIN k : m < n /\ k[m] = b /\ k[n] = c
      BY <2>1, <3>3, Zenon DEF c
    <3> DEFINE x == Len(q) + m
               y == Len(q) + n
    <3>5. /\ x \in DOMAIN (q \o k) /\ y \in DOMAIN (q \o k) /\ x < y
          /\ (q \o k)[x] = b /\ (q \o k)[y] = c
      <4> HIDE DEF k, q
      <4> QED  BY <1>4, <3>4, SMTT(60)
    <3> HIDE DEF x, y, k, q
    <3>6. Behind(f, b, c)
      BY <1>1, <3>5 DEF Behind
    <3> QED  BY <2>3, <2>4, <3>6, Zenon
  <2> QED  BY <2>5, <2>6
<1>7. CASE b \notin Range(blocks)
  <2>1. p.ref_cnt[b] = 0
    BY <1>1, <1>5, <1>7
  <2>2. PICK c \in Block : /\ p.block_hash[c] = Parent(p.block_hash[b])
                           /\ p.ref_cnt[c] > 0 \/ Behind(p, b, c)
    BY <1>1, <1>5, <2>1 DEF ParentBehind
  <2>3. f.block_hash[c] = Parent(f.block_hash[b])
    BY <1>1, <2>2, Zenon
  <2>4. CASE f.ref_cnt[c] > 0
    BY <2>3, <2>4, Zenon
  <2>5. CASE Behind(p, b, c)
    <3>1. PICK i \in DOMAIN q, j \in DOMAIN q : i < j /\ q[i] = b /\ q[j] = c
      BY <2>5 DEF Behind
    <3>2. /\ i \in DOMAIN (q \o k) /\ j \in DOMAIN (q \o k)
          /\ (q \o k)[i] = b /\ (q \o k)[j] = c
      <4> HIDE DEF k, q
      <4> QED  BY <1>4, <3>1
    <3> HIDE DEF k, q
    <3>3. Behind(f, b, c)
      BY <1>1, <3>1, <3>2 DEF Behind
    <3> QED  BY <2>3, <3>3, Zenon
  <2>6. CASE p.ref_cnt[c] > 0 /\ ~ (f.ref_cnt[c] > 0)
    <3>1. c \in Range(blocks) /\ f.ref_cnt[c] = 0
      BY <1>1, <1>2, <2>6
    <3>2. c \in Range(k)
      BY <1>3, <3>1
    <3>3. PICK n \in DOMAIN k : k[n] = c
      BY <3>2, Zenon DEF Range
    <3>4. b \in Range(q)
      <4>1. b \in unused
        <5>1. b # null_block
          <6>1. p.block_hash[null_block] = NoHash
            BY DEF PoolOK, HashMapExact
          <6>2. Len(NoHash) = 0 /\ BlockSize \in Nat
            BY PoolAssumption DEF NoHash
          <6>3. Len(p.block_hash[b]) > BlockSize
            BY <1>1, <1>5
          <6> QED  BY <6>1, <6>2, <6>3
        <5> QED  BY <1>5, <5>1
      <4> QED  BY <1>2, <2>1, <4>1
    <3>5. PICK i \in DOMAIN q : q[i] = b
      BY <3>4 DEF Range
    <3> DEFINE y == Len(q) + n
    <3>6. /\ i \in DOMAIN (q \o k) /\ y \in DOMAIN (q \o k) /\ i < y
          /\ (q \o k)[i] = b /\ (q \o k)[y] = c
      <4> HIDE DEF k, q
      <4> QED  BY <1>4, <3>3, <3>5
    <3> HIDE DEF y, k, q
    <3>7. Behind(f, b, c)
      BY <1>1, <3>6 DEF Behind
    <3> QED  BY <2>3, <3>7, Zenon
  <2> QED  BY <2>2, <2>4, <2>5, <2>6
<1> QED  BY <1>6, <1>7

--------------------------------------------------------------------------------
(* touch followed by get_new_blocks: how allocate_slots extends a table *)

\* The pool g and the table after touch and get_new_blocks: the new blocks were
\* free, the table has no block twice, and each block gained one reference.
TableExtended(p, old, hit, n) ==
    LET t == touch(p, hit)
        g == get_new_blocks(t, n)
        new == popleft_n(t.free_block_queue, n)
        table == old \o hit \o new
    IN  /\ PoolOK(g) /\ ParentBehind(g) /\ g.failed = p.failed
        /\ new \in Seq(Block) /\ Len(new) = n
        /\ table \in Seq(Block) /\ Len(table) = Len(old) + Len(hit) + n
        /\ IsInjective(table) /\ null_block \notin Range(table)
        /\ Range(table) = Range(old) \cup Range(hit) \cup Range(new)
        /\ \A i \in 1 .. Len(old) : table[i] = old[i]
        /\ \A i \in 1 .. Len(hit) : table[Len(old) + i] = hit[i]
        /\ \A i \in Len(old) + Len(hit) + 1 .. Len(table) : table[i] \in Range(new)
        /\ \A b \in Range(new) : /\ p.ref_cnt[b] = 0 /\ b \notin Range(old)
                                 /\ b \notin Range(hit)
        /\ g.ref_cnt = [b \in Block |-> IF b \in Range(hit) \cup Range(new)
                                        THEN p.ref_cnt[b] + 1
                                        ELSE p.ref_cnt[b]]
        /\ g.block_hash = [b \in Block |-> IF b \in Range(new)
                                           THEN NoHash
                                           ELSE p.block_hash[b]]

\* allocate_slots on the pool: the hit is touched, then n new blocks are taken;
\* the longer table has no duplicates and its blocks are in use.
LEMMA ExtendTableOK ==
    ASSUME NEW p, PoolOK(p), ParentBehind(p),
           NEW old \in Seq(Block), IsInjective(old), null_block \notin Range(old),
           \A b \in Range(old) : p.ref_cnt[b] > 0,
           NEW hit \in Seq(Block), IsInjective(hit), null_block \notin Range(hit),
           Range(old) \cap Range(hit) = {},
           NEW n \in 0 .. Len(touch(p, hit).free_block_queue)
    PROVE  TableExtended(p, old, hit, n)
<1> DEFINE t == touch(p, hit)
           g == get_new_blocks(t, n)
           new == popleft_n(t.free_block_queue, n)
           saved == old \o hit
           table == saved \o new
<1>1. /\ PoolOK(t) /\ t.failed = p.failed /\ t.block_hash = p.block_hash
      /\ t.ref_cnt = [b \in Block |-> IF b \in Range(hit) THEN p.ref_cnt[b] + 1
                                                          ELSE p.ref_cnt[b]]
  BY TouchOK, Zenon
<1>2. ParentBehind(t)
  BY ParentTouch
<1> HIDE DEF t
<1>3. n \in 0 .. Len(t.free_block_queue)
  BY DEF t
<1>4. /\ PoolOK(g) /\ g.failed = t.failed
      /\ new \in Seq(Block) /\ Len(new) = n /\ IsInjective(new)
      /\ \A b \in Range(new) : /\ b \in Block /\ b # null_block
                               /\ t.ref_cnt[b] = 0
      /\ g.ref_cnt = [b \in Block |-> IF b \in Range(new) THEN t.ref_cnt[b] + 1
                                                          ELSE t.ref_cnt[b]]
      /\ g.block_hash = [b \in Block |-> IF b \in Range(new) THEN NoHash
                                                             ELSE t.block_hash[b]]
  BY <1>1, <1>3, GetNewBlocksOK, ZenonT(60)
<1>5. ParentBehind(g)
  BY <1>1, <1>2, <1>3, ParentGetNewBlocks
<1> HIDE DEF g, new
<1>6. p.ref_cnt \in [Block -> Nat]
  BY PoolFields DEF PoolOK
<1>7. \A b \in Range(new) : p.ref_cnt[b] = 0 /\ b \notin Range(old) /\ b \notin Range(hit)
  <2>1. SUFFICES ASSUME NEW b \in Range(new)
                 PROVE  p.ref_cnt[b] = 0 /\ b \notin Range(old) /\ b \notin Range(hit)
    OBVIOUS
  <2>2. b \in Block /\ t.ref_cnt[b] = 0 /\ p.ref_cnt[b] \in Nat
    BY <1>4, <1>6
  <2>3. b \notin Range(hit)
    BY <1>1, <2>2
  <2>4. p.ref_cnt[b] = 0
    BY <1>1, <2>2, <2>3
  <2> QED  BY <2>3, <2>4
<1>8. /\ saved \in Seq(Block) /\ Len(saved) = Len(old) + Len(hit)
      /\ \A i \in 1 .. Len(old) : saved[i] = old[i]
      /\ \A i \in 1 .. Len(hit) : saved[Len(old) + i] = hit[i]
      /\ Range(saved) = Range(old) \cup Range(hit)
      /\ IsInjective(saved)
  BY ConcatFacts
<1> HIDE DEF saved
<1>9. Range(saved) \cap Range(new) = {}
  BY <1>7, <1>8
<1>10. /\ table \in Seq(Block) /\ Len(table) = Len(saved) + Len(new)
       /\ \A i \in 1 .. Len(saved) : table[i] = saved[i]
       /\ \A i \in 1 .. Len(new) : table[Len(saved) + i] = new[i]
       /\ Range(table) = Range(saved) \cup Range(new)
       /\ IsInjective(table)
  <2>1. /\ saved \in Seq(Block) /\ new \in Seq(Block)
        /\ IsInjective(saved) /\ IsInjective(new)
    BY <1>4, <1>8
  <2> QED  BY <2>1, <1>9, ConcatFacts
<1> HIDE DEF table
<1>11. /\ Len(old) \in Nat /\ Len(hit) \in Nat /\ n \in Nat /\ Len(saved) \in Nat
  BY <1>4, <1>8
<1>12. /\ \A i \in 1 .. Len(old) : table[i] = old[i]
       /\ \A i \in 1 .. Len(hit) : table[Len(old) + i] = hit[i]
  BY <1>8, <1>10, <1>11, SMTT(60)
<1>13. \A i \in Len(old) + Len(hit) + 1 .. Len(table) : table[i] \in Range(new)
  <2>1. SUFFICES ASSUME NEW i \in Len(old) + Len(hit) + 1 .. Len(table)
                 PROVE  table[i] \in Range(new)
    OBVIOUS
  <2> DEFINE j == i - Len(saved)
  <2>2. j \in 1 .. Len(new) /\ i = Len(saved) + j
    BY <1>4, <1>8, <1>10, <1>11, SMTT(60)
  <2>3. table[i] = new[j]
    <3> HIDE DEF j
    <3> QED  BY <1>10, <2>2, Zenon
  <2>4. j \in DOMAIN new
    BY <1>4, <2>2
  <2> HIDE DEF j
  <2> QED  BY <2>3, <2>4 DEF Range
<1>14. null_block \notin Range(table)
  BY <1>4, <1>8, <1>10, Zenon
<1>15. /\ g.ref_cnt = [b \in Block |-> IF b \in Range(hit) \cup Range(new)
                                       THEN p.ref_cnt[b] + 1
                                       ELSE p.ref_cnt[b]]
       /\ g.block_hash = [b \in Block |-> IF b \in Range(new)
                                          THEN NoHash
                                          ELSE p.block_hash[b]]
  BY <1>1, <1>4, <1>7, SMTT(60)
<1>16. Range(table) = Range(old) \cup Range(hit) \cup Range(new)
  BY <1>8, <1>10, Zenon
<1>17. Len(table) = Len(old) + Len(hit) + n
  BY <1>4, <1>8, <1>10, Zenon
<1> QED  BY <1>1, <1>4, <1>5, <1>7, <1>10, <1>12, <1>13, <1>14, <1>15, <1>16, <1>17, Zenon
         DEF TableExtended, t, g, new, table, saved
================================================================================
