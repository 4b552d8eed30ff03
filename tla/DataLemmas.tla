------------------------------ MODULE DataLemmas ------------------------------
(***************************************************************************)
(* Induction, and facts about the sequence operators of the models that    *)
(* need it.  The induction is over a set instead of a predicate: a proof   *)
(* that something holds of all numbers shows that the set of those it      *)
(* holds of has 0 and, with each number, the next.                         *)
(***************************************************************************)
EXTENDS Vectors, FiniteSetTheorems, WellFoundedInduction, TLAPS

\* A set with 0 and the successor of each of its numbers has all of them.
LEMMA SetInduction ==
    ASSUME NEW S, 0 \in S, \A n \in Nat : n \in S => n + 1 \in S
    PROVE  Nat \subseteq S
<1> SUFFICES ASSUME Nat \ S # {} PROVE FALSE
  OBVIOUS
<1> DEFINE R == OpToRel(<, Nat)
           T == Nat \ S
<1>1. IsWellFoundedOn(R, Nat)
  BY NatLessThanWellFounded, Zenon
<1>2. \A x, y \in Nat : x < y <=> <<x, y>> \in R
  BY DEF OpToRel
<1>3. T \subseteq Nat /\ T # {}
  OBVIOUS
<1> HIDE DEF R, T
<1>4. PICK m \in T : \A y \in T : ~ (<<y, m>> \in R)
  BY <1>1, <1>3, WFMin, Zenon
<1>5. m \in Nat /\ m # 0 /\ m - 1 \in Nat /\ m - 1 < m /\ (m - 1) + 1 = m
  BY <1>4 DEF T
<1>6. m - 1 \in S
  BY <1>2, <1>4, <1>5, Zenon DEF T
<1> QED
  BY <1>4, <1>5, <1>6 DEF T

\* The same up to a bound.
LEMMA BoundedInduction ==
    ASSUME NEW N \in Nat, NEW S, 0 \in S, \A n \in 0..(N - 1) : n \in S => n + 1 \in S
    PROVE  N \in S
<1> DEFINE T == { n \in Nat : n <= N => n \in S }
<1>1. 0 \in T
  OBVIOUS
<1>2. ASSUME NEW n \in Nat, n \in T PROVE n + 1 \in T
  BY <1>2
<1> HIDE DEF T
<1>3. Nat \subseteq T
  BY <1>1, <1>2, SetInduction
<1> QED
  BY <1>3 DEF T

\* What appending a sequence does.
LEMMA Concat ==
    ASSUME NEW A, NEW s \in Seq(A), NEW t \in Seq(A)
    PROVE  /\ s \o t \in Seq(A) /\ Len(s) \in Nat /\ Len(t) \in Nat
           /\ Len(s \o t) = Len(s) + Len(t)
OBVIOUS

\* u has the elements of s, which are n, and then those of t.
Appended(u, s, t, n) == /\ \A p \in 1..n : u[p] = s[p]
                        /\ \A k \in 1..Len(t) : u[n + k] = t[k]

\* Where the elements of the two are.
LEMMA ConcatElements ==
    ASSUME NEW A, NEW s \in Seq(A), NEW t \in Seq(A)
    PROVE  Appended(s \o t, s, t, Len(s))
BY DEF Appended
-----------------------------------------------------------------------------
(* Flatten *)

\* off says where each of the sequences begins when they are put end to end.
Starts(off, seqs) ==
    /\ off \in [0..Len(seqs) -> Nat] /\ off[0] = 0
    /\ \A i \in 1..Len(seqs) : off[i] = off[i - 1] + Len(seqs[i])

\* The first n sequences have their places in s, where off says, and s has nothing
\* else up to there.
Placed(s, off, seqs, n)  == \A i \in 1..n : \A k \in 1..Len(seqs[i]) :
                               off[i - 1] + k \in 1..off[n] /\ s[off[i - 1] + k] = seqs[i][k]
Covered(off, seqs, n) == \A p \in 1..off[n] : \E i \in 1..n :
                               \E k \in 1..Len(seqs[i]) : p = off[i - 1] + k

\* h[n] is what the first n sequences are, end to end.
Grows(h, seqs, N) == h[0] = <<>> /\ \A i \in 1..N : h[i] = h[i - 1] \o seqs[i]

\* Sequences can be put end to end.
LEMMA GrowthExists ==
    ASSUME NEW A, NEW N \in Nat, NEW seqs \in [1..N -> Seq(A)]
    PROVE  \E h \in [0..N -> Seq(A)] : Grows(h, seqs, N)
<1> DEFINE S == { n \in 0..N : \E h \in [0..n -> Seq(A)] : Grows(h, seqs, n) }
<1> HIDE DEF S
<1>1. 0 \in S
  <2>1. PICK h : h = [i \in 0..0 |-> <<>>]
    BY Zenon
  <2>2. h \in [0..0 -> Seq(A)] /\ Grows(h, seqs, 0)
    BY <2>1 DEF Grows
  <2> QED
    BY <2>2 DEF S
<1>2. ASSUME NEW n \in 0..(N - 1), n \in S PROVE n + 1 \in S
  <2>1. PICK h \in [0..n -> Seq(A)] : Grows(h, seqs, n)
    BY <1>2 DEF S
  <2>2. PICK e \in Seq(A) : e = h[n] \o seqs[n + 1]
    <3>1. h[n] \in Seq(A) /\ seqs[n + 1] \in Seq(A)
      BY <2>1
    <3> QED
      BY <3>1, Concat, Zenon
  <2>3. PICK k : k = [i \in 0..(n + 1) |-> IF i = n + 1 THEN e ELSE h[i]]
    BY Zenon
  <2>4. k[n + 1] = e /\ \A i \in 0..n : k[i] = h[i]
    BY <2>3
  <2>8. k \in [0..(n + 1) -> Seq(A)]
    <3>1. ASSUME NEW i \in 0..(n + 1)
          PROVE  (IF i = n + 1 THEN e ELSE h[i]) \in Seq(A)
      BY <2>1
    <3> QED
      BY <2>3, <3>1, Zenon
  <2>5. k[0] = <<>>
    <3>1. h[0] = <<>>
      BY <2>1, Zenon DEF Grows
    <3>2. 0 \in 0..n
      OBVIOUS
    <3> QED
      BY <2>4, <3>1, <3>2, Zenon
  <2>6. ASSUME NEW i \in 1..(n + 1) PROVE k[i] = k[i - 1] \o seqs[i]
    <3>1. CASE i = n + 1
      <4>1. i - 1 = n /\ n \in 0..n
        BY <3>1
      <4> QED
        BY <2>2, <2>4, <3>1, <4>1, Zenon
    <3>2. CASE i # n + 1
      <4>1. i \in 1..n /\ i \in 0..n /\ i - 1 \in 0..n
        BY <3>2
      <4>2. h[i] = h[i - 1] \o seqs[i]
        BY <2>1, <4>1, Zenon DEF Grows
      <4> QED
        BY <2>4, <4>1, <4>2, Zenon
    <3> QED
      BY <3>1, <3>2, Zenon
  <2>7. Grows(k, seqs, n + 1)
    BY <2>5, <2>6, Zenon DEF Grows
  <2> QED
    BY <2>7, <2>8 DEF S
<1>3. N \in S
  BY <1>1, <1>2, BoundedInduction, Zenon
<1> QED
  BY <1>3 DEF S

\* Flatten is the last of them.
LEMMA FlattenGrows ==
    ASSUME NEW A, NEW seqs \in Seq(Seq(A)), NEW h \in [0..Len(seqs) -> Seq(A)],
           Grows(h, seqs, Len(seqs))
    PROVE  Flatten(seqs) = h[Len(seqs)]
<1>0. PICK N \in Nat : N = Len(seqs) /\ seqs \in [1..N -> Seq(A)] /\ h \in [0..N -> Seq(A)]
  <2>1. Len(seqs) \in Nat /\ seqs \in [1..Len(seqs) -> Seq(A)]
    OBVIOUS
  <2> QED
    BY <2>1, Zenon
<1> DEFINE Eq(f) == f = [i \in 0..N |-> IF i = 0 THEN <<>> ELSE f[i - 1] \o seqs[i]]
<1> HIDE DEF Eq
<1>1. ASSUME NEW i \in 0..N PROVE h[i] = IF i = 0 THEN <<>> ELSE h[i - 1] \o seqs[i]
  <2>1. CASE i = 0
    BY <2>1, Zenon DEF Grows
  <2>2. CASE i # 0
    <3>1. i \in 1..N
      BY <2>2
    <3> QED
      BY <1>0, <2>2, <3>1, Zenon DEF Grows
  <2> QED
    BY <2>1, <2>2, Zenon
<1>2. Eq(h)
  BY <1>0, <1>1 DEF Eq
<1>3. PICK f : Eq(f) /\ Flatten(seqs) = f[N]
  <2>1. Flatten(seqs) = (CHOOSE f : Eq(f))[N]
    BY <1>0 DEF Flatten, Eq
  <2>2. Eq(CHOOSE f : Eq(f))
    BY <1>2
  <2> QED
    BY <2>1, <2>2, Zenon
<1>4. ASSUME NEW i \in 0..N PROVE f[i] = IF i = 0 THEN <<>> ELSE f[i - 1] \o seqs[i]
  BY <1>3, Zenon DEF Eq
<1> DEFINE S == { n \in 0..N : f[n] = h[n] }
<1> HIDE DEF S
<1>5. 0 \in S
  <2>1. 0 \in 0..N
    BY <1>0
  <2>2. f[0] = <<>> /\ h[0] = <<>>
    BY <1>1, <1>4, <2>1, Zenon
  <2> QED
    BY <2>1, <2>2, Zenon DEF S
<1>6. ASSUME NEW n \in 0..(N - 1), n \in S PROVE n + 1 \in S
  <2>1. n + 1 \in 0..N /\ (n + 1) - 1 = n /\ n + 1 # 0
    BY <1>0
  <2>2. f[n] = h[n]
    BY <1>6 DEF S
  <2>3. f[n + 1] = h[n + 1]
    BY <1>1, <1>4, <2>1, <2>2, Zenon
  <2> QED
    BY <2>1, <2>3 DEF S
<1>7. N \in S
  BY <1>0, <1>5, <1>6, BoundedInduction, Zenon
<1> QED
  BY <1>0, <1>3, <1>7 DEF S

\* One more sequence at the end.
LEMMA PlaceOneMore ==
    ASSUME NEW N \in Nat, NEW seqs, \A i \in 1..N : Len(seqs[i]) \in Nat,
           NEW off \in [0..N -> Nat],
           NEW n \in 0..(N - 1), off[n + 1] = off[n] + Len(seqs[n + 1]),
           NEW s, NEW t, Placed(s, off, seqs, n), Covered(off, seqs, n),
           Appended(t, s, seqs[n + 1], off[n])
    PROVE  /\ Placed(t, off, seqs, n + 1)
           /\ Covered(off, seqs, n + 1)
<1>0. n + 1 \in 1..N /\ Len(seqs[n + 1]) \in Nat /\ off[n] \in Nat
  OBVIOUS
<1>2. Placed(t, off, seqs, n + 1)
  <2> SUFFICES ASSUME NEW i \in 1..(n + 1), NEW k \in 1..Len(seqs[i])
               PROVE  off[i - 1] + k \in 1..off[n + 1] /\ t[off[i - 1] + k] = seqs[i][k]
    BY Zenon DEF Placed
  <2>1. CASE i = n + 1
    <3>1. i - 1 = n
      BY <2>1
    <3>2. off[n] + k \in 1..off[n + 1]
      BY <1>0, <2>1
    <3> QED
      BY <2>1, <3>1, <3>2, Zenon DEF Appended
  <2>2. CASE i # n + 1
    <3>1. i \in 1..n
      BY <2>2
    <3>2. off[i - 1] + k \in 1..off[n] /\ s[off[i - 1] + k] = seqs[i][k]
      BY <3>1, Zenon DEF Placed
    <3>3. off[n + 1] \in Nat /\ off[n] <= off[n + 1]
      BY <1>0
    <3>4. off[i - 1] + k \in 1..off[n + 1]
      BY <1>0, <3>2, <3>3
    <3> QED
      BY <3>2, <3>4, Zenon DEF Appended
  <2> QED
    BY <2>1, <2>2
<1>3. Covered(off, seqs, n + 1)
  <2> SUFFICES ASSUME NEW p \in 1..off[n + 1]
               PROVE  \E i \in 1..(n + 1) : \E k \in 1..Len(seqs[i]) : p = off[i - 1] + k
    BY Zenon DEF Covered
  <2>1. CASE p <= off[n]
    <3>0. p \in 1..off[n]
      BY <1>0, <2>1
    <3>1. PICK i \in 1..n : \E k \in 1..Len(seqs[i]) : p = off[i - 1] + k
      BY <3>0, Zenon DEF Covered
    <3>2. i \in 1..(n + 1)
      OBVIOUS
    <3> QED
      BY <3>1, <3>2, Zenon
  <2>2. CASE p > off[n]
    <3>1. p - off[n] \in 1..Len(seqs[n + 1]) /\ (n + 1) - 1 = n /\ p = off[n] + (p - off[n])
      BY <1>0, <2>2
    <3> QED
      BY <1>0, <3>1
  <2> QED
    BY <1>0, <2>1, <2>2
<1> QED
  BY <1>2, <1>3

\* Where the sequences are after they were put end to end.
LEMMA EndToEnd ==
    ASSUME NEW A, NEW N \in Nat, NEW seqs \in [1..N -> Seq(A)],
           NEW h \in [0..N -> Seq(A)], Grows(h, seqs, N)
    PROVE  \E off \in [0..N -> Nat] :
              /\ off[0] = 0 /\ \A i \in 1..N : off[i] = off[i - 1] + Len(seqs[i])
              /\ off[N] = Len(h[N]) /\ Placed(h[N], off, seqs, N) /\ Covered(off, seqs, N)
<1>1. ASSUME NEW n \in 0..(N - 1) PROVE h[n + 1] = h[n] \o seqs[n + 1]
  <2>1. n + 1 \in 1..N /\ (n + 1) - 1 = n
    OBVIOUS
  <2> QED
    BY <2>1, Zenon DEF Grows
<1>2. PICK off \in [0..N -> Nat] : off[0] = 0 /\ \A i \in 0..N : off[i] = Len(h[i])
  <2>1. PICK off : off = [i \in 0..N |-> Len(h[i])]
    BY Zenon
  <2>2. \A i \in 0..N : Len(h[i]) \in Nat
    OBVIOUS
  <2>3. off \in [0..N -> Nat] /\ \A i \in 0..N : off[i] = Len(h[i])
    BY <2>1, <2>2, Zenon
  <2>4. h[0] = <<>> /\ Len(<<>>) = 0 /\ 0 \in 0..N
    BY DEF Grows
  <2> QED
    BY <2>3, <2>4, Zenon
<1>3. ASSUME NEW n \in 0..(N - 1) PROVE off[n + 1] = off[n] + Len(seqs[n + 1])
  <2>1. h[n] \in Seq(A) /\ seqs[n + 1] \in Seq(A) /\ n + 1 \in 0..N /\ n \in 0..N
    OBVIOUS
  <2>2. Len(h[n] \o seqs[n + 1]) = Len(h[n]) + Len(seqs[n + 1])
    BY <2>1
  <2> QED
    BY <1>1, <1>2, <2>1, <2>2, Zenon
<1>4. ASSUME NEW i \in 1..N PROVE off[i] = off[i - 1] + Len(seqs[i])
  <2>1. i - 1 \in 0..(N - 1) /\ (i - 1) + 1 = i
    OBVIOUS
  <2> QED
    BY <1>3, <2>1
<1> DEFINE S == { m \in 0..N : Placed(h[m], off, seqs, m) /\ Covered(off, seqs, m) }
<1> HIDE DEF S
<1>6. 0 \in S
  <2>1. Placed(h[0], off, seqs, 0)
    BY DEF Placed
  <2>2. Covered(off, seqs, 0)
    BY <1>2 DEF Covered
  <2> QED
    BY <2>1, <2>2 DEF S
<1>7. ASSUME NEW n \in 0..(N - 1), n \in S PROVE n + 1 \in S
  <2>0. n \in 0..N
    OBVIOUS
  <2>1. h[n] \in Seq(A) /\ Len(h[n]) = off[n]
    BY <1>2, <2>0, Zenon
  <2>2. Placed(h[n], off, seqs, n) /\ Covered(off, seqs, n)
    BY <1>7 DEF S
  <2>3. Placed(h[n] \o seqs[n + 1], off, seqs, n + 1) /\ Covered(off, seqs, n + 1)
    <3>1. \A i \in 1..N : Len(seqs[i]) \in Nat
      OBVIOUS
    <3>2. seqs[n + 1] \in Seq(A)
      OBVIOUS
    <3>3. Appended(h[n] \o seqs[n + 1], h[n], seqs[n + 1], off[n])
      BY <2>1, <3>2, ConcatElements, Zenon
    <3>4. off[n + 1] = off[n] + Len(seqs[n + 1])
      BY <1>3, Zenon
    <3> QED
      BY <2>2, <3>1, <3>3, <3>4, PlaceOneMore, Zenon
  <2>4. h[n + 1] = h[n] \o seqs[n + 1]
    BY <1>1, Zenon
  <2> QED
    <3>1. n + 1 \in 0..N
      OBVIOUS
    <3> QED
      BY <2>3, <2>4, <3>1, Zenon DEF S
<1>8. N \in S
  BY <1>6, <1>7, BoundedInduction, Zenon
<1> QED
  BY <1>2, <1>4, <1>8, Zenon DEF S

\* Flatten puts sequences end to end: each of their elements has its place in
\* the result, and the result has nothing else.
LEMMA Flattened ==
    ASSUME NEW A, NEW seqs \in Seq(Seq(A))
    PROVE  /\ Flatten(seqs) \in Seq(A)
           /\ \E off : /\ Starts(off, seqs) /\ off[Len(seqs)] = Len(Flatten(seqs))
                       /\ Placed(Flatten(seqs), off, seqs, Len(seqs))
                       /\ Covered(off, seqs, Len(seqs))
<1>1. PICK N \in Nat : N = Len(seqs) /\ seqs \in [1..N -> Seq(A)]
  OBVIOUS
<1>2. PICK h \in [0..N -> Seq(A)] : Grows(h, seqs, N)
  BY <1>1, GrowthExists
<1>3. Flatten(seqs) = h[N]
  BY <1>1, <1>2, FlattenGrows
<1>4. h[N] \in Seq(A)
  BY <1>1, <1>2
<1>5. PICK off \in [0..N -> Nat] :
              /\ off[0] = 0 /\ \A i \in 1..N : off[i] = off[i - 1] + Len(seqs[i])
              /\ off[N] = Len(h[N]) /\ Placed(h[N], off, seqs, N) /\ Covered(off, seqs, N)
  BY <1>1, <1>2, EndToEnd, Zenon
<1>6. Starts(off, seqs)
  BY <1>1, <1>5 DEF Starts
<1> QED
  BY <1>1, <1>3, <1>4, <1>5, <1>6

-----------------------------------------------------------------------------
(* Sorting *)

\* The elements that rank no later than s[i].
UpTo(s, i) == { j \in DOMAIN s : s[j] < s[i] \/ (s[j] = s[i] /\ j <= i) }

\* Ranks are places, and no two elements have the same.
LEMMA Ranks ==
    ASSUME NEW s \in Seq(Nat)
    PROVE  /\ \A i \in 1..Len(s) : Rank(s, i) \in 1..Len(s)
           /\ \A i, j \in 1..Len(s) : s[i] < s[j] \/ (s[i] = s[j] /\ i < j) => Rank(s, i) < Rank(s, j)
<1>0. PICK n \in Nat : n = Len(s) /\ DOMAIN s = 1..n /\ s \in [1..n -> Nat]
  OBVIOUS
<1>1. IsFiniteSet(1..n) /\ Cardinality(1..n) = n
  <2>1. IsFiniteSet(1..n) /\ Cardinality(1..n) = IF 1 > n THEN 0 ELSE n - 1 + 1
    BY FS_Interval
  <2> QED
    BY <2>1
<1>2. ASSUME NEW i \in 1..n
      PROVE  /\ UpTo(s, i) \in SUBSET (1..n) /\ i \in UpTo(s, i) /\ Rank(s, i) = Cardinality(UpTo(s, i))
  BY <1>0 DEF UpTo, Rank
<1>3. ASSUME NEW i \in 1..n
      PROVE  IsFiniteSet(UpTo(s, i)) /\ Rank(s, i) \in 1..n
  <2>1. IsFiniteSet(UpTo(s, i)) /\ Cardinality(UpTo(s, i)) <= n
    BY <1>1, <1>2, FS_Subset, Zenon
  <2>2. Cardinality(UpTo(s, i)) \in Nat
    BY <2>1, FS_CardinalityType
  <2>3. Cardinality(UpTo(s, i)) # 0
    BY <1>2, <2>1, FS_EmptySet
  <2> QED
    BY <1>2, <2>1, <2>2, <2>3
<1>4. ASSUME NEW i \in 1..n, NEW j \in 1..n, s[i] < s[j] \/ (s[i] = s[j] /\ i < j)
      PROVE  Rank(s, i) < Rank(s, j)
  <2>1. UpTo(s, i) \subseteq UpTo(s, j)
    BY <1>0, <1>4 DEF UpTo
  <2>2. j \notin UpTo(s, i)
    BY <1>0, <1>4 DEF UpTo
  <2>3. /\ Cardinality(UpTo(s, i)) <= Cardinality(UpTo(s, j))
        /\ Cardinality(UpTo(s, j)) = Cardinality(UpTo(s, i)) => UpTo(s, j) = UpTo(s, i)
    BY <1>3, <2>1, FS_Subset
  <2>4. Rank(s, i) \in Nat /\ Rank(s, j) \in Nat
    BY <1>3
  <2> QED
    BY <1>2, <2>2, <2>3, <2>4
<1> QED
  BY <1>0, <1>3, <1>4

\* An element is known by its rank.
LEMMA SameRank ==
    ASSUME NEW s \in Seq(Nat), NEW i \in 1..Len(s), NEW j \in 1..Len(s), Rank(s, i) = Rank(s, j)
    PROVE  i = j
<1>1. s[i] \in Nat /\ s[j] \in Nat /\ i \in Nat /\ j \in Nat /\ Rank(s, i) \in Nat
  <2>1. Rank(s, i) \in 1..Len(s)
    BY Ranks, Zenon
  <2> QED
    BY <2>1
<1>2. ~(s[i] < s[j] \/ (s[i] = s[j] /\ i < j))
  <2>1. s[i] < s[j] \/ (s[i] = s[j] /\ i < j) => Rank(s, i) < Rank(s, j)
    BY Ranks, Zenon
  <2> QED
    BY <1>1, <2>1
<1>3. ~(s[j] < s[i] \/ (s[j] = s[i] /\ j < i))
  <2>1. s[j] < s[i] \/ (s[j] = s[i] /\ j < i) => Rank(s, j) < Rank(s, i)
    BY Ranks, Zenon
  <2> QED
    BY <1>1, <2>1
<1> QED
  BY <1>1, <1>2, <1>3

\* Every place is some element's.
LEMMA EveryPlace ==
    ASSUME NEW s \in Seq(Nat), NEW k \in 1..Len(s)
    PROVE  \E i \in 1..Len(s) : Rank(s, i) = k
<1>0. PICK n \in Nat : n = Len(s) /\ s \in [1..n -> Nat]
  OBVIOUS
<1>1. PICK f : f = [i \in 1..n |-> Rank(s, i)]
  BY Zenon
<1>2. f \in [1..n -> 1..n]
  BY <1>0, <1>1, Ranks
<1>3. ASSUME NEW i \in 1..n, NEW j \in 1..n, f[i] = f[j] PROVE i = j
  <2>1. Rank(s, i) = Rank(s, j)
    BY <1>1, <1>3
  <2> QED
    BY <1>0, <2>1, SameRank
<1>4. f \in Injection(1..n, 1..n)
  BY <1>2, <1>3, Zenon DEF Injection, IsInjective
<1>5. IsFiniteSet(1..n)
  BY FS_Interval
<1>6. f \in Surjection(1..n, 1..n)
  BY <1>4, <1>5, FS_Injection
<1>7. \E i \in 1..n : f[i] = k
  BY <1>0, <1>6 DEF Surjection
<1> QED
  BY <1>0, <1>1, <1>7

\* p takes the n elements of s to their places in t.
Permutes(p, s, t, n) == /\ p \in [1..n -> 1..n]
                        /\ \A k \in 1..n : t[k] = s[p[k]]
                        /\ \A i \in 1..n : \E k \in 1..n : p[k] = i
                        /\ \A k, l \in 1..n : p[k] = p[l] => k = l

\* t is s in some order, and t is in ascending order.
Shuffled(t, s) == \E p : Permutes(p, s, t, Len(s))
Ascending(t) == \A k, l \in 1..Len(t) : k < l => t[k] <= t[l]

\* Sorting a vector puts its elements in order.
LEMMA Sorts ==
    ASSUME NEW s \in Seq(Nat)
    PROVE  /\ Sorted(s) \in Seq(Nat) /\ Len(Sorted(s)) = Len(s)
           /\ Ascending(Sorted(s)) /\ Shuffled(Sorted(s), s)
<1>0. PICK n \in Nat : n = Len(s) /\ DOMAIN s = 1..n /\ s \in [1..n -> Nat]
  OBVIOUS
<1>1. PICK p : p = [k \in 1..n |-> CHOOSE i \in 1..n : Rank(s, i) = k]
  BY Zenon
<1>2. ASSUME NEW k \in 1..n PROVE p[k] \in 1..n /\ Rank(s, p[k]) = k
  BY <1>0, <1>1, EveryPlace
<1>3. PICK t : t = Sorted(s)
  OBVIOUS
<1>4. t = [k \in 1..n |-> s[p[k]]]
  BY <1>0, <1>1, <1>3 DEF Sorted
<1>5. t \in Seq(Nat) /\ Len(t) = n
  BY <1>0, <1>2, <1>4
<1>6. p \in [1..n -> 1..n]
  BY <1>1, <1>2
<1>7. ASSUME NEW i \in 1..n PROVE \E k \in 1..n : p[k] = i
  <2>1. PICK k \in 1..n : k = Rank(s, i)
    BY <1>0, Ranks
  <2>2. p[k] \in 1..n /\ Rank(s, p[k]) = Rank(s, i)
    BY <1>2, <2>1
  <2>3. p[k] = i
    BY <1>0, <2>2, SameRank
  <2> QED
    BY <2>1, <2>3
<1>8. ASSUME NEW k \in 1..n, NEW l \in 1..n, k < l PROVE t[k] <= t[l]
  <2>1. p[k] \in 1..n /\ p[l] \in 1..n /\ Rank(s, p[k]) = k /\ Rank(s, p[l]) = l
    BY <1>2
  <2>2. ~(s[p[l]] < s[p[k]])
    <3>1. s[p[l]] < s[p[k]] => l < k
      BY <1>0, <2>1, Ranks, Zenon
    <3> QED
      BY <1>8, <3>1
  <2> QED
    BY <1>0, <1>4, <2>1, <2>2
<1>9. Ascending(t)
  BY <1>5, <1>8 DEF Ascending
<1>10. Shuffled(t, s)
  <2>1. \A k, l \in 1..n : p[k] = p[l] => k = l
    BY <1>2
  <2> QED
    BY <1>0, <1>4, <1>6, <1>7, <2>1, Zenon DEF Permutes, Shuffled
<1> QED
  BY <1>0, <1>3, <1>5, <1>9, <1>10

Distinct(s) == \A i, j \in 1..Len(s) : s[i] = s[j] => i = j
Strict(t)   == \A k, l \in 1..Len(t) : k < l => t[k] < t[l]

\* Its elements are the same, each as often.
LEMMA ShuffledSet ==
    ASSUME NEW s \in Seq(Nat), NEW t \in Seq(Nat), Len(t) = Len(s), Shuffled(t, s)
    PROVE  Range(t) = Range(s) /\ (Distinct(t) <=> Distinct(s))
<1>1. PICK n \in Nat : n = Len(s) /\ n = Len(t) /\ DOMAIN s = 1..n /\ DOMAIN t = 1..n
  OBVIOUS
<1>2. PICK p : Permutes(p, s, t, n)
  BY <1>1, Zenon DEF Shuffled
<1> USE DEF Permutes
<1>3. Range(t) = Range(s)
  <2>1. Range(s) = { s[i] : i \in 1..n } /\ Range(t) = { t[i] : i \in 1..n }
    BY <1>1, Zenon DEF Range
  <2>2. ASSUME NEW k \in 1..n PROVE t[k] \in { s[i] : i \in 1..n }
    <3>1. p[k] \in 1..n /\ t[k] = s[p[k]]
      BY <1>2, Zenon
    <3> QED
      BY <3>1, Zenon
  <2>3. ASSUME NEW i \in 1..n PROVE s[i] \in { t[k] : k \in 1..n }
    <3>1. PICK k \in 1..n : p[k] = i
      BY <1>2
    <3>2. t[k] = s[i]
      BY <1>2, <3>1, Zenon
    <3> QED
      BY <3>2, Zenon
  <2> QED
    BY <2>1, <2>2, <2>3, Zenon
<1>4. ASSUME Distinct(t) PROVE Distinct(s)
  <2> SUFFICES ASSUME NEW i \in 1..n, NEW j \in 1..n, s[i] = s[j] PROVE i = j
    BY <1>1 DEF Distinct
  <2>1. PICK k \in 1..n : p[k] = i
    BY <1>2
  <2>2. PICK l \in 1..n : p[l] = j
    BY <1>2
  <2>3. t[k] = t[l]
    BY <1>2, <2>1, <2>2, Zenon
  <2> QED
    BY <1>1, <1>4, <2>1, <2>2, <2>3 DEF Distinct
<1>5. ASSUME Distinct(s) PROVE Distinct(t)
  <2> SUFFICES ASSUME NEW k \in 1..n, NEW l \in 1..n, t[k] = t[l] PROVE k = l
    BY <1>1 DEF Distinct
  <2>1. p[k] \in 1..n /\ p[l] \in 1..n /\ s[p[k]] = s[p[l]]
    BY <1>2, Zenon
  <2> QED
    BY <1>1, <1>2, <1>5, <2>1, Zenon DEF Distinct
<1> QED
  BY <1>3, <1>4, <1>5

\* In ascending order, equal elements are neighbours and the least is the first.
LEMMA Neighbours ==
    ASSUME NEW t \in Seq(Nat), Ascending(t)
    PROVE  /\ (\A i \in 1..(Len(t) - 1) : t[i] # t[i + 1]) <=> Distinct(t)
           /\ Distinct(t) => Strict(t)
           /\ (t # <<>> => t[1] # 0) <=> 0 \notin Range(t)
<1>1. PICK n \in Nat : n = Len(t) /\ t \in [1..n -> Nat] /\ DOMAIN t = 1..n
  OBVIOUS
<1>2. ASSUME NEW i \in 1..n PROVE t[i] \in Nat
  BY <1>1
<1>3. ASSUME \A i \in 1..(n - 1) : t[i] # t[i + 1], NEW k \in 1..n, NEW l \in 1..n, k < l
      PROVE  t[k] < t[l]
  <2>1. k \in 1..(n - 1) /\ k + 1 \in 1..n /\ (k + 1 < l \/ k + 1 = l)
    BY <1>3
  <2>2. t[k] <= t[k + 1] /\ t[k] # t[k + 1]
    BY <1>1, <1>3, <2>1 DEF Ascending
  <2>3. t[k + 1] <= t[l]
    BY <1>1, <1>2, <2>1 DEF Ascending
  <2>4. t[k] \in Nat /\ t[k + 1] \in Nat /\ t[l] \in Nat
    BY <1>2, <2>1
  <2> QED
    BY <2>2, <2>3, <2>4
<1>4. ASSUME Strict(t) PROVE Distinct(t)
  <2> SUFFICES ASSUME NEW i \in 1..n, NEW j \in 1..n, t[i] = t[j] PROVE i = j
    BY <1>1 DEF Distinct
  <2>1. ~(i < j) /\ ~(j < i)
    BY <1>1, <1>2, <1>4 DEF Strict
  <2> QED
    BY <2>1
<1>5. ASSUME Distinct(t), NEW i \in 1..(n - 1) PROVE t[i] # t[i + 1]
  <2>1. i \in 1..n /\ i + 1 \in 1..n /\ i # i + 1
    OBVIOUS
  <2> QED
    BY <1>1, <1>5, <2>1 DEF Distinct
<1>6. (t # <<>> => t[1] # 0) <=> 0 \notin Range(t)
  <2>1. CASE n = 0
    BY <1>1, <2>1 DEF Range
  <2>2. CASE n # 0
    <3>1. 1 \in 1..n /\ t # <<>>
      BY <1>1, <2>2
    <3>2. ASSUME NEW i \in 1..n, t[i] = 0 PROVE t[1] = 0
      <4>1. i = 1 \/ 1 < i
        OBVIOUS
      <4>2. t[1] <= t[i] /\ t[1] \in Nat /\ t[i] \in Nat
        BY <1>1, <1>2, <3>1, <4>1 DEF Ascending
      <4> QED
        BY <3>2, <4>2
    <3> QED
      BY <1>1, <3>1, <3>2 DEF Range
  <2> QED
    BY <2>1, <2>2
<1>7. (\A i \in 1..(n - 1) : t[i] # t[i + 1]) => Strict(t)
  BY <1>1, <1>3 DEF Strict
<1> QED
  BY <1>1, <1>4, <1>5, <1>6, <1>7

\* A set has one strictly ascending order: two vectors that agree up to n agree on
\* the next, if both have one.
LEMMA SameNext ==
    ASSUME NEW u \in Seq(Nat), NEW v \in Seq(Nat), Strict(u), Strict(v), Range(u) \subseteq Range(v),
           NEW n \in Nat, n + 1 \in 1..Len(u), \A i \in 1..n : u[i] = v[i]
    PROVE  n + 1 \in 1..Len(v) /\ v[n + 1] <= u[n + 1]
<1>1. PICK l \in 1..Len(v) : v[l] = u[n + 1]
  <2>1. DOMAIN u = 1..Len(u) /\ DOMAIN v = 1..Len(v)
    OBVIOUS
  <2>2. u[n + 1] \in Range(v)
    BY <2>1, Zenon DEF Range
  <2> QED
    BY <2>1, <2>2, Zenon DEF Range
<1>2. u[n + 1] \in Nat /\ v[l] \in Nat /\ Len(u) \in Nat /\ Len(v) \in Nat
  OBVIOUS
<1>3. l > n
  <2> SUFFICES ASSUME l \in 1..n PROVE FALSE
    BY <1>2
  <2>1. l \in 1..Len(u) /\ l < n + 1
    BY <1>2
  <2>2. u[l] < u[n + 1]
    BY <2>1 DEF Strict
  <2> QED
    BY <1>1, <1>2, <2>2
<1>4. n + 1 \in 1..Len(v) /\ (n + 1 = l \/ n + 1 < l)
  BY <1>2, <1>3
<1>5. v[n + 1] \in Nat
  BY <1>4
<1>6. n + 1 = l \/ v[n + 1] < v[l]
  BY <1>4 DEF Strict
<1> QED
  BY <1>1, <1>2, <1>4, <1>5, <1>6

\* So they are the same vector.
LEMMA StrictUnique ==
    ASSUME NEW u \in Seq(Nat), NEW v \in Seq(Nat), Strict(u), Strict(v), Range(u) = Range(v)
    PROVE  u = v
<1>1. Len(u) \in Nat /\ Len(v) \in Nat
  OBVIOUS
<1> DEFINE S == { n \in 0..Len(u) : n <= Len(v) /\ \A i \in 1..n : u[i] = v[i] }
<1> HIDE DEF S
<1>2. 0 \in S
  BY <1>1 DEF S
<1>3. ASSUME NEW n \in 0..(Len(u) - 1), n \in S PROVE n + 1 \in S
  <2>1. n \in Nat /\ n + 1 \in 1..Len(u) /\ \A i \in 1..n : u[i] = v[i] /\ v[i] = u[i]
    BY <1>1, <1>3 DEF S
  <2>2. n + 1 \in 1..Len(v) /\ v[n + 1] <= u[n + 1]
    BY <2>1, SameNext, Zenon
  <2>3. u[n + 1] <= v[n + 1]
    BY <2>1, <2>2, SameNext
  <2>4. u[n + 1] = v[n + 1]
    <3>1. u[n + 1] \in Nat /\ v[n + 1] \in Nat
      BY <2>1, <2>2
    <3> QED
      BY <2>2, <2>3, <3>1
  <2>5. \A i \in 1..(n + 1) : i \in 1..n \/ i = n + 1
    BY <2>1
  <2>6. \A i \in 1..(n + 1) : u[i] = v[i]
    BY <2>1, <2>4, <2>5
  <2> QED
    BY <1>1, <2>1, <2>2, <2>6 DEF S
<1>4. Len(u) \in S
  BY <1>1, <1>2, <1>3, BoundedInduction, Zenon
<1>5. Len(u) <= Len(v) /\ \A i \in 1..Len(u) : u[i] = v[i]
  BY <1>4 DEF S
<1>6. ~(Len(u) < Len(v))
  <2> SUFFICES ASSUME Len(u) < Len(v) PROVE FALSE
    OBVIOUS
  <2>1. Len(u) + 1 \in 1..Len(v) /\ \A i \in 1..Len(u) : v[i] = u[i]
    BY <1>1, <1>5
  <2>2. Len(u) + 1 \in 1..Len(u)
    BY <1>1, <2>1, SameNext
  <2> QED
    BY <1>1, <2>2
<1> QED
  BY <1>1, <1>5, <1>6

-----------------------------------------------------------------------------
(* What is in a sequence *)

\* A sequence's elements by number.
LEMMA ElementOf ==
    ASSUME NEW A, NEW s \in Seq(A)
    PROVE  /\ \A i \in 1..Len(s) : s[i] \in Range(s)
           /\ \A x \in Range(s) : \E i \in 1..Len(s) : x = s[i]
<1>1. DOMAIN s = 1..Len(s)
  OBVIOUS
<1> QED
  BY <1>1, Zenon DEF Range

\* Flattening keeps what is in the sequences, and adds nothing.
LEMMA FlattenedSet ==
    ASSUME NEW A, NEW seqs \in Seq(Seq(A))
    PROVE  /\ \A i \in 1..Len(seqs) : Range(seqs[i]) \subseteq Range(Flatten(seqs))
           /\ \A x \in Range(Flatten(seqs)) : \E i \in 1..Len(seqs) : x \in Range(seqs[i])
<1>1. PICK flat \in Seq(A) : flat = Flatten(seqs)
  BY Flattened
<1>2. PICK off : /\ Starts(off, seqs) /\ off[Len(seqs)] = Len(flat)
                 /\ Placed(flat, off, seqs, Len(seqs)) /\ Covered(off, seqs, Len(seqs))
  BY <1>1, Flattened
<1>3. ASSUME NEW i \in 1..Len(seqs) PROVE seqs[i] \in Seq(A)
  OBVIOUS
<1>4. ASSUME NEW i \in 1..Len(seqs), NEW x \in Range(seqs[i]) PROVE x \in Range(flat)
  <2>1. PICK k \in 1..Len(seqs[i]) : x = seqs[i][k]
    BY <1>3, <1>4, ElementOf, Zenon
  <2>2. PICK p \in 1..Len(flat) : flat[p] = seqs[i][k]
    BY <1>2, Zenon DEF Placed
  <2> QED
    BY <1>1, <2>1, <2>2, ElementOf, Zenon
<1>5. ASSUME NEW x \in Range(flat) PROVE \E i \in 1..Len(seqs) : x \in Range(seqs[i])
  <2>1. PICK p \in 1..Len(flat) : x = flat[p]
    BY <1>1, <1>5, ElementOf, Zenon
  <2>2. PICK i \in 1..Len(seqs) : \E k \in 1..Len(seqs[i]) : p = off[i - 1] + k
    BY <1>2, Zenon DEF Covered
  <2>3. PICK k \in 1..Len(seqs[i]) : p = off[i - 1] + k
    BY <2>2
  <2>4. x = seqs[i][k]
    BY <1>2, <2>1, <2>3, Zenon DEF Placed
  <2>5. x \in Range(seqs[i])
    BY <1>3, <2>3, <2>4, ElementOf, Zenon
  <2> QED
    BY <2>5, Zenon
<1> QED
  BY <1>1, <1>4, <1>5, Zenon

\* The places of sequences end to end are in order.
LEMMA StartsOrdered ==
    ASSUME NEW A, NEW seqs \in Seq(Seq(A)), NEW off, Starts(off, seqs),
           NEW i \in 0..Len(seqs), NEW j \in 0..Len(seqs), i <= j
    PROVE  off[i] <= off[j]
<1>1. PICK N \in Nat : N = Len(seqs) /\ off \in [0..N -> Nat]
  <2>1. Len(seqs) \in Nat
    OBVIOUS
  <2> QED
    BY <2>1, Zenon DEF Starts
<1>2. ASSUME NEW m \in 0..(N - 1) PROVE off[m] <= off[m + 1]
  <2>1. m + 1 \in 1..N /\ (m + 1) - 1 = m /\ m \in 0..N
    BY <1>1
  <2>2. seqs[m + 1] \in Seq(A)
    BY <1>1, <2>1
  <2>3. Len(seqs[m + 1]) \in Nat
    BY <2>2
  <2>4. off[m + 1] = off[m] + Len(seqs[m + 1])
    BY <1>1, <2>1, Zenon DEF Starts
  <2>5. off[m] \in Nat
    BY <1>1, <2>1, Zenon
  <2> QED
    BY <2>3, <2>4, <2>5
<1> DEFINE S == { m \in 0..(N - i) : off[i] <= off[i + m] }
<1> HIDE DEF S
<1>3. 0 \in S
  BY <1>1 DEF S
<1>4. ASSUME NEW m \in 0..((j - i) - 1), m \in S PROVE m + 1 \in S
  <2>1. i + m \in 0..(N - 1) /\ (i + m) + 1 = i + (m + 1) /\ m + 1 \in 0..(N - i) /\ i + (m + 1) \in 0..N
    BY <1>1
  <2>2. off[i] \in Nat /\ off[i + m] \in Nat /\ off[i + (m + 1)] \in Nat
    <3>1. i \in 0..N /\ i + m \in 0..N
      BY <1>1, <2>1
    <3> QED
      BY <1>1, <2>1, <3>1, Zenon
  <2>3. off[i + m] <= off[i + (m + 1)]
    BY <1>2, <2>1
  <2>4. off[i] <= off[i + m]
    BY <1>4 DEF S
  <2>5. off[i] <= off[i + (m + 1)]
    BY <2>2, <2>3, <2>4
  <2> QED
    BY <2>1, <2>5 DEF S
<1>5. j - i \in Nat /\ i + (j - i) = j
  BY <1>1
<1>6. j - i \in S
  BY <1>3, <1>4, <1>5, BoundedInduction, Zenon
<1> QED
  BY <1>5, <1>6 DEF S

\* From at most to less.
LEMMA BelowNext == ASSUME NEW a \in Nat, NEW b \in Nat, NEW c \in Nat, a <= b, b <= c, c # b PROVE a < c
OBVIOUS

\* Deduplicating a vector in ascending order leaves each of its elements once.
LEMMA Dedups ==
    ASSUME NEW t \in Seq(Nat), Ascending(t)
    PROVE  Dedup(t) \in Seq(Nat) /\ Strict(Dedup(t)) /\ Range(Dedup(t)) = Range(t)
<1>1. PICK n \in Nat : n = Len(t) /\ DOMAIN t = 1..n /\ t \in [1..n -> Nat]
  OBVIOUS
<1> DEFINE New(i) == ~(i > 1 /\ t[i] = t[i - 1])
<1> HIDE DEF New
<1>2. PICK seqs : seqs = [i \in 1..n |-> IF New(i) THEN <<t[i]>> ELSE <<>>]
  BY Zenon
<1>3. seqs \in Seq(Seq(Nat)) /\ Len(seqs) = n
  BY <1>1, <1>2
<1>4. Dedup(t) = Flatten(seqs)
  <2>1. [i \in DOMAIN t |-> IF i > 1 /\ t[i] = t[i - 1] THEN <<>> ELSE <<t[i]>>] = seqs
    BY <1>1, <1>2 DEF New
  <2> QED
    BY <2>1, Zenon DEF Dedup
<1>5. ASSUME NEW i \in 1..n
      PROVE  IF New(i) THEN seqs[i] = <<t[i]>> /\ Len(seqs[i]) = 1 /\ seqs[i][1] = t[i]
             ELSE seqs[i] = <<>> /\ Len(seqs[i]) = 0
  BY <1>2
<1>6. PICK u \in Seq(Nat) : u = Flatten(seqs)
  BY <1>3, Flattened
<1>7. PICK off : /\ Starts(off, seqs) /\ off[n] = Len(u) /\ Placed(u, off, seqs, n) /\ Covered(off, seqs, n)
  BY <1>3, <1>6, Flattened
<1>8. ASSUME NEW p \in 1..Len(u)
      PROVE  \E i \in 1..n : New(i) /\ p = off[i - 1] + 1 /\ u[p] = t[i]
  <2>1. PICK i \in 1..n : \E k \in 1..Len(seqs[i]) : p = off[i - 1] + k
    BY <1>7, Zenon DEF Covered
  <2>2. PICK k \in 1..Len(seqs[i]) : p = off[i - 1] + k
    BY <2>1
  <2>3. New(i) /\ k = 1
    <3>1. CASE New(i)
      <4>1. k \in 1..1
        BY <1>5, <2>2, <3>1, Zenon
      <4> QED
        BY <3>1, <4>1
    <3>2. CASE ~New(i)
      <4>1. k \in 1..0
        BY <1>5, <2>2, <3>2, Zenon
      <4> QED
        BY <4>1
    <3> QED
      BY <3>1, <3>2
  <2>4. u[p] = seqs[i][k]
    BY <1>7, <2>2, Zenon DEF Placed
  <2> QED
    BY <1>5, <2>2, <2>3, <2>4, Zenon
<1>9. ASSUME NEW p \in 1..Len(u), NEW q \in 1..Len(u), p < q PROVE u[p] < u[q]
  <2>1. PICK i \in 1..n : p = off[i - 1] + 1 /\ u[p] = t[i]
    BY <1>8
  <2>2. PICK j \in 1..n : New(j) /\ q = off[j - 1] + 1 /\ u[q] = t[j]
    BY <1>8
  <2>3. i < j
    <3> SUFFICES ASSUME j <= i PROVE FALSE
      OBVIOUS
    <3>1. i - 1 \in 0..n /\ j - 1 \in 0..n /\ j - 1 <= i - 1
      OBVIOUS
    <3>2. off[j - 1] <= off[i - 1]
      BY <1>3, <1>7, <3>1, StartsOrdered, Zenon
    <3>3. off[i - 1] \in Nat /\ off[j - 1] \in Nat
      BY <1>3, <1>7, <3>1 DEF Starts
    <3>4. PICK a \in Nat : a = off[i - 1]
      BY <3>3, Zenon
    <3>5. PICK b \in Nat : b = off[j - 1]
      BY <3>3, Zenon
    <3>6. p = a + 1 /\ q = b + 1 /\ b <= a /\ p < q
      BY <1>9, <2>1, <2>2, <3>2, <3>4, <3>5, Zenon
    <3> QED
      BY <3>6
  <2>4. j > 1 /\ j - 1 \in 1..n /\ (i = j - 1 \/ i < j - 1) /\ j - 1 < j
    BY <2>3
  <2>5. t[j] # t[j - 1]
    BY <2>2, <2>4 DEF New
  <2>6. t[i] \in Nat /\ t[j] \in Nat /\ t[j - 1] \in Nat
    BY <1>1, <2>4, Zenon
  <2>7. t[j - 1] <= t[j]
    BY <1>1, <2>4, Zenon DEF Ascending
  <2>8. t[i] <= t[j - 1]
    <3>1. CASE i = j - 1
      BY <2>6, <3>1
    <3>2. CASE i < j - 1
      BY <1>1, <2>4, <3>2, Zenon DEF Ascending
    <3> QED
      BY <2>4, <3>1, <3>2
  <2>9. t[i] < t[j]
    BY <2>5, <2>6, <2>7, <2>8, BelowNext, Zenon
  <2> QED
    BY <2>1, <2>2, <2>9, Zenon
<1>10. ASSUME NEW x \in Range(u) PROVE x \in Range(t)
  <2>1. PICK p \in 1..Len(u) : x = u[p]
    BY <1>6, <1>10, ElementOf, Zenon
  <2>2. PICK i \in 1..n : x = t[i]
    BY <1>8, <2>1
  <2> QED
    BY <1>1, <2>2, ElementOf, Zenon
<1>11. ASSUME NEW i \in 1..n, New(i) PROVE t[i] \in Range(u)
  <2>1. seqs[i] = <<t[i]>> /\ t[i] \in Range(<<t[i]>>)
    BY <1>5, <1>11 DEF Range
  <2>2. Range(seqs[i]) \subseteq Range(u)
    BY <1>3, <1>6, FlattenedSet, Zenon
  <2> QED
    BY <2>1, <2>2
<1> DEFINE S == { m \in 0..n : \A i \in 1..m : t[i] \in Range(u) }
<1> HIDE DEF S
<1>12. 0 \in S
  BY DEF S
<1>13. ASSUME NEW m \in 0..(n - 1), m \in S PROVE m + 1 \in S
  <2>1. m + 1 \in 1..n /\ (m + 1) - 1 = m /\ \A i \in 1..(m + 1) : i = m + 1 \/ i \in 1..m
    OBVIOUS
  <2>2. CASE New(m + 1)
    BY <1>11, <1>13, <2>1, <2>2 DEF S
  <2>3. CASE ~New(m + 1)
    <3>1. m \in 1..m /\ t[m + 1] = t[m]
      BY <2>1, <2>3 DEF New
    <3> QED
      BY <1>13, <2>1, <3>1 DEF S
  <2> QED
    BY <2>2, <2>3
<1>14. n \in S
  BY <1>12, <1>13, BoundedInduction, Zenon
<1>15. ASSUME NEW x \in Range(t) PROVE x \in Range(u)
  <2>1. PICK i \in 1..n : x = t[i]
    BY <1>1, <1>15, ElementOf, Zenon
  <2> QED
    BY <1>14, <2>1 DEF S
<1>16. Strict(u)
  BY <1>9 DEF Strict
<1> QED
  BY <1>4, <1>6, <1>10, <1>15, <1>16, Zenon

-----------------------------------------------------------------------------
(* Sums *)

\* at[i] is the sum of the first i numbers of w.
AddUp(at, w, n) == /\ at \in [0..n -> Nat] /\ at[0] = 0
                   /\ \A i \in 1..n : at[i] = at[i - 1] + w[i]

\* Numbers can be added up.
LEMMA SumsExist == ASSUME NEW N \in Nat, NEW w \in [1..N -> Nat] PROVE \E at : AddUp(at, w, N)
<1> DEFINE S == { n \in 0..N : \E at : AddUp(at, w, n) }
<1> HIDE DEF S
<1>1. 0 \in S
  <2>1. AddUp([i \in 0..0 |-> 0], w, 0)
    BY DEF AddUp
  <2> QED
    BY <2>1 DEF S
<1>2. ASSUME NEW n \in 0..(N - 1), n \in S PROVE n + 1 \in S
  <2>1. PICK h : AddUp(h, w, n)
    BY <1>2 DEF S
  <2>2. h \in [0..n -> Nat] /\ h[0] = 0 /\ w[n + 1] \in Nat
    BY <2>1 DEF AddUp
  <2>3. PICK e \in Nat : e = h[n] + w[n + 1]
    BY <2>2
  <2>4. PICK k : k = [i \in 0..(n + 1) |-> IF i = n + 1 THEN e ELSE h[i]]
    BY Zenon
  <2>5. k[n + 1] = e /\ \A i \in 0..n : k[i] = h[i]
    BY <2>4
  <2>6. k \in [0..(n + 1) -> Nat] /\ k[0] = 0
    BY <2>2, <2>3, <2>4
  <2>7. ASSUME NEW i \in 1..(n + 1) PROVE k[i] = k[i - 1] + w[i]
    <3>1. CASE i = n + 1
      <4>1. i - 1 = n /\ n \in 0..n
        BY <3>1
      <4> QED
        BY <2>3, <2>5, <3>1, <4>1, Zenon
    <3>2. CASE i # n + 1
      <4>1. i \in 1..n /\ i \in 0..n /\ i - 1 \in 0..n
        BY <3>2
      <4>2. h[i] = h[i - 1] + w[i]
        BY <2>1, <4>1, Zenon DEF AddUp
      <4> QED
        BY <2>5, <4>1, <4>2, Zenon
    <3> QED
      BY <3>1, <3>2
  <2>8. AddUp(k, w, n + 1)
    BY <2>6, <2>7, Zenon DEF AddUp
  <2>9. n + 1 \in 0..N
    OBVIOUS
  <2> QED
    BY <2>8, <2>9, Zenon DEF S
<1>3. N \in S
  BY <1>1, <1>2, BoundedInduction, Zenon
<1> QED
  BY <1>3 DEF S

\* PartialSums adds up.
LEMMA PartialSumsAdd == ASSUME NEW w \in Seq(Nat) PROVE AddUp(PartialSums(w), w, Len(w))
<1>1. PICK N \in Nat : N = Len(w) /\ w \in [1..N -> Nat]
  OBVIOUS
<1> DEFINE Eq(f) == f = [n \in 0..N |-> IF n = 0 THEN 0 ELSE f[n - 1] + w[n]]
<1> HIDE DEF Eq
<1>2. PICK h : AddUp(h, w, N)
  BY <1>1, SumsExist
<1>3. Eq(h)
  <2>1. h = [n \in 0..N |-> h[n]] /\ h[0] = 0
    BY <1>2 DEF AddUp
  <2>2. ASSUME NEW n \in 0..N PROVE h[n] = IF n = 0 THEN 0 ELSE h[n - 1] + w[n]
    <3>1. n # 0 => n \in 1..N
      OBVIOUS
    <3> QED
      BY <1>2, <2>1, <3>1, Zenon DEF AddUp
  <2>3. [n \in 0..N |-> h[n]] = [n \in 0..N |-> IF n = 0 THEN 0 ELSE h[n - 1] + w[n]]
    BY <2>2, Zenon
  <2> QED
    BY <2>1, <2>3, Zenon DEF Eq
<1>4. PartialSums(w) = CHOOSE f : Eq(f)
  BY <1>1 DEF PartialSums, Eq
<1>5. PICK f : f = PartialSums(w) /\ Eq(f)
  BY <1>3, <1>4
<1>6. DOMAIN f = 0..N /\ f = [n \in 0..N |-> f[n]]
  BY <1>5 DEF Eq
<1>7. ASSUME NEW n \in 0..N PROVE f[n] = IF n = 0 THEN 0 ELSE f[n - 1] + w[n]
  BY <1>5 DEF Eq
<1> DEFINE S == { n \in 0..N : f[n] = h[n] }
<1> HIDE DEF S
<1>8. 0 \in S
  BY <1>2, <1>7 DEF S, AddUp
<1>9. ASSUME NEW n \in 0..(N - 1), n \in S PROVE n + 1 \in S
  <2>1. n + 1 \in 1..N /\ n + 1 \in 0..N /\ (n + 1) - 1 = n /\ n + 1 # 0
    OBVIOUS
  <2>2. f[n + 1] = f[n] + w[n + 1]
    BY <1>7, <2>1, Zenon
  <2>3. h[n + 1] = h[n] + w[n + 1]
    BY <1>2, <2>1, Zenon DEF AddUp
  <2>4. f[n] = h[n]
    BY <1>9 DEF S
  <2> QED
    BY <2>1, <2>2, <2>3, <2>4, Zenon DEF S
<1>10. ASSUME NEW m \in 0..N PROVE m \in S
  <2>1. \A n \in 0..(m - 1) : n \in 0..(N - 1)
    OBVIOUS
  <2> QED
    BY <1>8, <1>9, <2>1, BoundedInduction
<1>11. f = h
  <2>1. h = [n \in 0..N |-> h[n]]
    BY <1>2 DEF AddUp
  <2>2. [n \in 0..N |-> f[n]] = [n \in 0..N |-> h[n]]
    BY <1>10 DEF S
  <2> QED
    BY <1>6, <2>1, <2>2, Zenon
<1> QED
  BY <1>1, <1>2, <1>5, <1>11, Zenon

\* There is one way to add up.
LEMMA SumIs ==
    ASSUME NEW w \in Seq(Nat), NEW at, AddUp(at, w, Len(w))
    PROVE  Sum(w) \in Nat /\ Sum(w) = at[Len(w)]
<1>1. PICK N \in Nat : N = Len(w)
  OBVIOUS
<1>2. PICK f : f = PartialSums(w) /\ AddUp(f, w, N)
  BY <1>1, PartialSumsAdd, Zenon
<1>3. AddUp(at, w, N)
  BY <1>1
<1> DEFINE S == { n \in 0..N : f[n] = at[n] }
<1> HIDE DEF S
<1>8. 0 \in S
  BY <1>2, <1>3 DEF S, AddUp
<1>9. ASSUME NEW n \in 0..(N - 1), n \in S PROVE n + 1 \in S
  <2>1. n + 1 \in 1..N /\ n + 1 \in 0..N /\ (n + 1) - 1 = n
    OBVIOUS
  <2>2. f[n + 1] = f[n] + w[n + 1] /\ at[n + 1] = at[n] + w[n + 1]
    BY <1>2, <1>3, <2>1, Zenon DEF AddUp
  <2>4. f[n] = at[n]
    BY <1>9 DEF S
  <2> QED
    BY <2>1, <2>2, <2>4, Zenon DEF S
<1>10. N \in S
  BY <1>8, <1>9, BoundedInduction, Zenon
<1>11. Sum(w) = f[N] /\ f[N] = at[N]
  BY <1>1, <1>2, <1>10 DEF Sum, S
<1>12. f[N] \in Nat
  BY <1>2 DEF AddUp
<1> QED
  BY <1>1, <1>11, <1>12

\* The sum of two sequences one after the other.
LEMMA SumConcat ==
    ASSUME NEW u \in Seq(Nat), NEW v \in Seq(Nat) PROVE Sum(u \o v) = Sum(u) + Sum(v)
<1>1. PICK m \in Nat : m = Len(u) /\ u \in [1..m -> Nat]
  OBVIOUS
<1>2. PICK n \in Nat : n = Len(v) /\ v \in [1..n -> Nat]
  OBVIOUS
<1>3. PICK f : AddUp(f, u, m) /\ Sum(u) = f[m]
  BY <1>1, SumsExist, SumIs
<1>4. PICK g : AddUp(g, v, n) /\ Sum(v) = g[n]
  BY <1>2, SumsExist, SumIs
<1>5. PICK w \in Seq(Nat) : w = u \o v
  BY Concat, Zenon
<1>6. Len(w) = m + n /\ (\A i \in 1..m : w[i] = u[i]) /\ \A k \in 1..n : w[m + k] = v[k]
  BY <1>1, <1>2, <1>5
<1>7. f \in [0..m -> Nat] /\ g \in [0..n -> Nat] /\ f[0] = 0 /\ g[0] = 0
  BY <1>3, <1>4 DEF AddUp
<1>8. PICK at : at = [i \in 0..(m + n) |-> IF i <= m THEN f[i] ELSE f[m] + g[i - m]]
  BY Zenon
<1>9. at \in [0..(m + n) -> Nat] /\ at[0] = 0
  <2>1. ASSUME NEW i \in 0..(m + n) PROVE (IF i <= m THEN f[i] ELSE f[m] + g[i - m]) \in Nat
    BY <1>7
  <2> QED
    BY <1>7, <1>8, <2>1
<1>10. /\ \A i \in 0..m : at[i] = f[i]
       /\ \A k \in 0..n : at[m + k] = f[m] + g[k]
  <2>1. ASSUME NEW i \in 0..m PROVE at[i] = f[i]
    BY <1>8
  <2>2. ASSUME NEW k \in 0..n PROVE at[m + k] = f[m] + g[k]
    <3>1. CASE k = 0
      BY <1>7, <1>8, <3>1
    <3>2. CASE k # 0
      <4>1. m + k \in 0..(m + n) /\ ~(m + k <= m) /\ (m + k) - m = k
        BY <3>2
      <4> QED
        BY <1>8, <4>1
    <3> QED
      BY <3>1, <3>2
  <2> QED
    BY <2>1, <2>2
<1>11. ASSUME NEW i \in 1..(m + n) PROVE at[i] = at[i - 1] + w[i]
  <2>1. CASE i <= m
    <3>1. i \in 1..m /\ i \in 0..m /\ i - 1 \in 0..m
      BY <2>1
    <3>2. f[i] = f[i - 1] + u[i]
      BY <1>3, <3>1, Zenon DEF AddUp
    <3> QED
      BY <1>6, <1>10, <3>1, <3>2, Zenon
  <2>2. CASE ~(i <= m)
    <3>1. PICK k \in 1..n : i = m + k /\ k \in 0..n /\ k - 1 \in 0..n /\ i - 1 = m + (k - 1)
      <4>1. i - m \in 1..n /\ i = m + (i - m) /\ i - m \in 0..n /\ (i - m) - 1 \in 0..n /\ i - 1 = m + ((i - m) - 1)
        BY <2>2
      <4> QED
        BY <4>1
    <3>2. g[k] = g[k - 1] + v[k]
      BY <1>4, Zenon DEF AddUp
    <3>3. at[i] = f[m] + g[k] /\ at[i - 1] = f[m] + g[k - 1] /\ w[i] = v[k]
      BY <1>6, <1>10, <3>1, Zenon
    <3>4. f[m] \in Nat /\ g[k - 1] \in Nat /\ v[k] \in Nat
      <4>1. m \in 0..m
        OBVIOUS
      <4> QED
        BY <1>2, <1>7, <3>1, <4>1, Zenon
    <3>5. f[m] + (g[k - 1] + v[k]) = (f[m] + g[k - 1]) + v[k]
      BY <3>4
    <3> QED
      BY <3>2, <3>3, <3>5, Zenon
  <2> QED
    BY <2>1, <2>2
<1>12. AddUp(at, w, Len(w))
  BY <1>6, <1>9, <1>11, Zenon DEF AddUp
<1>13. Sum(w) = at[m + n]
  BY <1>6, <1>12, SumIs, Zenon
<1>14. at[m + n] = f[m] + g[n]
  BY <1>10
<1> QED
  BY <1>3, <1>4, <1>5, <1>13, <1>14, Zenon
=============================================================================
