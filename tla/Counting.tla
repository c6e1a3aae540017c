------------------------------ MODULE Counting ------------------------------
(***************************************************************************)
(* Facts about least elements, best values, numbers of elements and        *)
(* division that the proofs about single components cite.                  *)
(***************************************************************************)
EXTENDS Integers, FiniteSets, FiniteSetTheorems, WellFoundedInduction, NaturalsInduction, TLAPS

(***************************************************************************)
(* Least and greatest.  Where a proof would go by induction it takes the   *)
(* least counterexample.                                                   *)
(***************************************************************************)
LEMMA LeastOf ==
  ASSUME NEW T, T \subseteq Nat, T # {}
  PROVE  \E x \in T : \A y \in T : x <= y
<1>1. \A x, y \in Nat : (<<y, x>> \in OpToRel(<, Nat)) <=> y < x
  BY DEF OpToRel
<1>2. \E x \in T : \A y \in T : ~ (y < x)
  <2>1. PICK x \in T : \A y \in T : ~ (<<y, x>> \in OpToRel(<, Nat))
    BY NatLessThanWellFounded, WFMin
  <2>2. \A y \in T : ~ (y < x)
    BY <1>1, <2>1, Zenon
  <2> QED BY <2>2, Zenon
<1> QED BY <1>2

LEMMA Induction ==
  ASSUME NEW n \in Nat, NEW T, 0 \in T, \A i \in 0..(n - 1) : i \in T => i + 1 \in T
  PROVE  \A i \in 0..n : i \in T
<1> DEFINE R == {i \in 0..n : i \notin T}
<1>1. R = {}
  <2> SUFFICES ASSUME R # {} PROVE FALSE
    OBVIOUS
  <2>1. R \subseteq Nat
    OBVIOUS
  <2> HIDE DEF R
  <2>2. PICK i \in R : \A j \in R : i <= j
    BY <2>1, LeastOf
  <2>3. i \in 0..n /\ i \notin T /\ i # 0
    BY <2>2 DEF R
  <2> DEFINE h == i - 1
  <2>4. h \in 0..(n - 1) /\ h \in 0..n /\ h + 1 = i /\ ~ (i <= h)
    BY <2>3
  <2> HIDE DEF h
  <2>5. h \in T
    BY <2>2, <2>4 DEF R
  <2> QED BY <2>3, <2>4, <2>5
<1> QED BY <1>1

(* The first of the best values of a nonempty interval. *)
LEMMA FirstBest ==
  ASSUME NEW a \in Int, NEW b \in Int, a <= b, NEW f \in [a..b -> Int]
  PROVE  \E x \in a..b : \A y \in a..b : f[y] <= f[x] /\ (y < x => f[y] < f[x])
<1> DEFINE Leads(x, k) == \A y \in a..(a + k) : f[y] <= f[x] /\ (y < x => f[y] < f[x])
           T == {k \in 0..(b - a) : ~ \E x \in a..(a + k) : Leads(x, k)}
<1>1. T = {}
  <2> SUFFICES ASSUME T # {} PROVE FALSE
    OBVIOUS
  <2>1. T \subseteq Nat
    OBVIOUS
  <2>2. PICK m \in T : \A k \in T : m <= k
    BY <2>1, LeastOf
  <2>3. m # 0
    <3>1. a \in a..(a + 0) /\ Leads(a, 0)
      OBVIOUS
    <3> QED BY <3>1
  <2>4. m \in Nat /\ m - 1 \in 0..(b - a) /\ m - 1 \notin T /\ a + m \in a..b
    <3>1. m \in 0..(b - a)
      BY <2>2
    <3>2. m \in Nat /\ m - 1 \in 0..(b - a) /\ a + m \in a..b /\ ~ (m <= m - 1)
      BY <2>3, <3>1
    <3>3. m - 1 \notin T
      <4> HIDE DEF T
      <4> QED BY <2>2, <3>2
    <3> QED BY <3>2, <3>3
  <2>5. PICK x \in a..(a + (m - 1)) : Leads(x, m - 1)
    BY <2>4
  <2>6. \A y \in a..(a + m) : y = a + m \/ y \in a..(a + (m - 1))
    BY <2>4
  <2>7. x \in a..(a + m) /\ x < a + m /\ x \in a..b /\ f[x] \in Int /\ f[a + m] \in Int
    BY <2>4
  <2>8. CASE f[a + m] <= f[x]
    <3>1. Leads(x, m)
      BY <2>5, <2>6, <2>7, <2>8
    <3> QED BY <2>2, <2>7, <3>1
  <2>9. CASE f[x] < f[a + m]
    <3>1. ASSUME NEW y \in a..(a + m), y # a + m PROVE f[y] < f[a + m]
      <4>1. y \in a..(a + (m - 1)) /\ f[y] \in Int
        BY <2>4, <2>6, <3>1
      <4>2. f[y] <= f[x]
        BY <2>5, <4>1
      <4> QED BY <2>7, <2>9, <4>1, <4>2
    <3>2. Leads(a + m, m)
      <4>1. SUFFICES ASSUME NEW y \in a..(a + m)
                     PROVE  f[y] <= f[a + m] /\ (y < a + m => f[y] < f[a + m])
        OBVIOUS
      <4>2. CASE y = a + m
        BY <2>4, <2>7, <4>2
      <4>3. CASE y # a + m
        <5>1. f[y] \in Int
          BY <2>4
        <5> QED BY <2>7, <3>1, <4>3, <5>1
      <4> QED BY <4>2, <4>3
    <3> QED BY <2>2, <2>4, <3>2
  <2> QED BY <2>7, <2>8, <2>9
<1>2. b - a \in 0..(b - a) /\ a + (b - a) = b
  OBVIOUS
<1>3. \E x \in a..(a + (b - a)) : Leads(x, b - a)
  BY <1>1, <1>2
<1> QED BY <1>2, <1>3

LEMMA BestDimension ==
  ASSUME NEW m \in Int, 1 <= m, NEW f \in [1..m -> Int]
  PROVE  \E x \in 1..m : \A y \in 1..m : f[y] <= f[x]
<1> DEFINE one == 1
<1>1. one \in Int /\ one <= m /\ f \in [one..m -> Int]
  OBVIOUS
<1> HIDE DEF one
<1>2. \E x \in one..m : \A y \in one..m : f[y] <= f[x] /\ (y < x => f[y] < f[x])
  BY <1>1, FirstBest
<1> QED BY <1>2 DEF one

(***************************************************************************)
(* The number of elements of a set of places up to a place.                *)
(***************************************************************************)
Count(S, k) == Cardinality({j \in S : j <= k})

LEMMA CountType ==
  ASSUME NEW S, IsFiniteSet(S), NEW k
  PROVE  /\ IsFiniteSet({j \in S : j <= k})
         /\ Count(S, k) \in Nat /\ Cardinality(S) \in Nat
         /\ Count(S, k) <= Cardinality(S)
<1>1. {j \in S : j <= k} \in SUBSET S
  OBVIOUS
<1> QED BY <1>1, FS_Subset, FS_CardinalityType DEF Count

LEMMA PlaceFacts ==
  ASSUME NEW N \in Nat, NEW S \in SUBSET (1..N)
  PROVE  /\ IsFiniteSet(S)
         /\ \A k \in S : k \in Nat /\ k \in Int /\ 0 < k /\ k <= N
<1>1. IsFiniteSet(1..N)
  BY FS_Interval
<1>2. IsFiniteSet(S)
  BY <1>1, FS_Subset
<1>3. ASSUME NEW k \in S PROVE k \in Nat /\ k \in Int /\ 0 < k /\ k <= N
  <2>1. k \in 1..N
    OBVIOUS
  <2> QED BY <2>1
<1> QED BY <1>2, <1>3

LEMMA CountEnds ==
  ASSUME NEW N \in Nat, NEW S \in SUBSET (1..N)
  PROVE  /\ Count(S, 0) = 0
         /\ \A k \in Int : k >= N => Count(S, k) = Cardinality(S)
<1>0. \A j \in S : j \in Int /\ 0 < j /\ j <= N
  BY PlaceFacts
<1>1. {j \in S : j <= 0} = {}
  <2>1. \A j \in S : ~ (j <= 0)
    BY <1>0
  <2> QED BY <2>1
<1>2. ASSUME NEW k \in Int, k >= N PROVE {j \in S : j <= k} = S
  <2>1. \A j \in S : j <= k
    BY <1>0, <1>2
  <2> QED BY <2>1
<1> QED BY <1>1, <1>2, FS_EmptySet DEF Count

(* PlaceFacts that belong to the set count, *)
LEMMA CountRun ==
  ASSUME NEW N \in Nat, NEW S \in SUBSET (1..N), NEW a \in Nat, NEW b \in Nat, a <= b,
         \A k \in (a + 1)..b : k \in S
  PROVE  Count(S, b) = Count(S, a) + (b - a)
<1> DEFINE A == {j \in S : j <= a}
           R == (a + 1)..b
<1>0. \A j \in S : j \in Int
  BY PlaceFacts
<1>1. {j \in S : j <= b} = A \cup R /\ A \cap R = {}
  <2>1. \A j \in S : j <= b => j <= a \/ j \in R
    BY <1>0
  <2>2. \A j \in S : j <= a => j <= b /\ j \notin R
    BY <1>0
  <2>3. \A j \in R : j \in S /\ j <= b
    OBVIOUS
  <2> HIDE DEF R
  <2> QED BY <2>1, <2>2, <2>3
<1>2. IsFiniteSet(A) /\ Cardinality(A) \in Nat
  BY PlaceFacts, CountType DEF Count
<1>3. IsFiniteSet(R) /\ Cardinality(R) = b - a
  <2>1. a + 1 \in Int /\ b \in Int
    OBVIOUS
  <2>2. IsFiniteSet(R) /\ Cardinality(R) = IF a + 1 > b THEN 0 ELSE b - (a + 1) + 1
    BY <2>1, FS_Interval
  <2> QED BY <2>2
<1>4. Cardinality(A \cup R) = Cardinality(A) + Cardinality(R) - Cardinality(A \cap R)
  BY <1>2, <1>3, FS_Union
<1>5. Cardinality(A \cap R) = 0
  BY <1>1, FS_EmptySet
<1> HIDE DEF R
<1>6. Cardinality(A \cup R) = Cardinality(A) + (b - a)
  BY <1>2, <1>3, <1>4, <1>5
<1> QED BY <1>1, <1>6 DEF Count

(* others do not. *)
LEMMA CountGap ==
  ASSUME NEW N \in Nat, NEW S \in SUBSET (1..N), NEW a \in Nat, NEW b \in Nat, a <= b,
         \A k \in (a + 1)..b : k \notin S
  PROVE  Count(S, b) = Count(S, a)
<1>1. \A j \in S : j \in Int
  BY PlaceFacts
<1>2. \A j \in S : j <= b <=> j <= a
  <2>1. ASSUME NEW j \in S, j <= b, ~ (j <= a) PROVE FALSE
    <3>1. j \in (a + 1)..b
      BY <1>1, <2>1
    <3> QED BY <3>1
  <2> QED BY <1>1, <2>1
<1>3. {j \in S : j <= b} = {j \in S : j <= a}
  BY <1>2
<1> QED BY <1>3 DEF Count

LEMMA CountNext ==
  ASSUME NEW N \in Nat, NEW S \in SUBSET (1..N), NEW k \in Nat \ {0}
  PROVE  Count(S, k) = IF k \in S THEN Count(S, k - 1) + 1 ELSE Count(S, k - 1)
<1> DEFINE A == {j \in S : j <= k - 1}
           B == {j \in S : j <= k}
<1>1. \A j \in S : j \in Int
  BY PlaceFacts
<1>2. IsFiniteSet(A) /\ k \notin A
  BY PlaceFacts, CountType
<1>3. CASE k \in S
  <2>1. \A j \in S : j <= k <=> j <= k - 1 \/ j = k
    BY <1>1
  <2>2. B = A \cup {k}
    BY <1>3, <2>1
  <2>3. Cardinality(A \cup {k}) = Cardinality(A) + 1
    BY <1>2, FS_AddElement
  <2> QED BY <1>3, <2>2, <2>3 DEF Count
<1>4. CASE k \notin S
  <2>1. \A j \in S : j <= k <=> j <= k - 1
    BY <1>1, <1>4
  <2>2. B = A
    BY <2>1
  <2> QED BY <1>4, <2>2 DEF Count
<1> QED BY <1>3, <1>4

LEMMA CountGrows ==
  ASSUME NEW N \in Nat, NEW S \in SUBSET (1..N), NEW a \in Int, NEW b \in Int, a <= b
  PROVE  /\ Count(S, a) <= Count(S, b)
         /\ b \in S /\ a < b => Count(S, a) < Count(S, b)
<1> DEFINE A == {j \in S : j <= a}
           B == {j \in S : j <= b}
<1>0. \A j \in S : j \in Int
  BY PlaceFacts
<1>1. IsFiniteSet(B) /\ A \in SUBSET B
  <2>1. IsFiniteSet(B)
    BY PlaceFacts, CountType
  <2>2. \A j \in S : j <= a => j <= b
    BY <1>0
  <2> QED BY <2>1, <2>2
<1>2. Cardinality(A) <= Cardinality(B) /\ (Cardinality(B) = Cardinality(A) => B = A)
  BY <1>1, FS_Subset
<1>3. Cardinality(A) \in Nat /\ Cardinality(B) \in Nat
  BY PlaceFacts, CountType DEF Count
<1>4. b \in S /\ a < b => B # A
  OBVIOUS
<1> HIDE DEF A, B
<1>5. Cardinality(A) <= Cardinality(B) /\ (b \in S /\ a < b => Cardinality(A) < Cardinality(B))
  BY <1>2, <1>3, <1>4
<1> QED BY <1>5 DEF Count, A, B

(* The elements are numbered 1, 2 and so on, in their order. *)
LEMMA CountNumbers ==
  ASSUME NEW N \in Nat, NEW S \in SUBSET (1..N)
  PROVE  /\ \A k \in S : Count(S, k) \in 1..Cardinality(S)
         /\ \A k, l \in S : Count(S, k) = Count(S, l) => k = l
         /\ \A m \in 1..Cardinality(S) : \E k \in S : Count(S, k) = m
<1>1. \A k \in S : k \in Nat /\ k \in Int /\ 0 < k /\ 0 \in Int
  BY PlaceFacts
<1>0. IsFiniteSet(S)
  BY PlaceFacts
<1>2. ASSUME NEW k \in S PROVE Count(S, k) \in 1..Cardinality(S)
  <2>1. Count(S, 0) = 0 /\ Count(S, 0) < Count(S, k)
    <3> DEFINE zero == 0
    <3>1. zero \in Int /\ zero < k /\ k \in Int /\ zero <= k
      BY <1>1
    <3> HIDE DEF zero
    <3>2. Count(S, zero) < Count(S, k)
      BY <3>1, CountGrows
    <3> QED BY <3>2, CountEnds DEF zero
  <2>2. Count(S, k) \in Nat /\ Cardinality(S) \in Nat /\ Count(S, k) <= Cardinality(S)
    BY <1>0, <1>1, CountType
  <2> QED BY <2>1, <2>2
<1>3. ASSUME NEW k \in S, NEW l \in S, Count(S, k) = Count(S, l) PROVE k = l
  <2>1. Count(S, k) \in Nat
    BY <1>0, <1>1, CountType
  <2>2. ~ (k < l)
    <3>1. k < l => Count(S, k) < Count(S, l)
      BY <1>1, CountGrows
    <3> QED BY <1>3, <2>1, <3>1
  <2>3. ~ (l < k)
    <3>1. l < k => Count(S, l) < Count(S, k)
      BY <1>1, CountGrows
    <3> QED BY <1>3, <2>1, <3>1
  <2> QED BY <1>1, <2>2, <2>3
<1>4. ASSUME NEW m \in 1..Cardinality(S) PROVE \E k \in S : Count(S, k) = m
  <2> DEFINE T == {k \in 0..N : m <= Count(S, k)}
  <2>1. N \in Int /\ Count(S, N) = Cardinality(S) /\ Cardinality(S) \in Nat
    <3>1. N \in Int /\ N >= N
      OBVIOUS
    <3> QED BY <1>0, <3>1, CountEnds, CountType
  <2>2. PICK k \in T : \A j \in T : k <= j
    <3>1. N \in T /\ T \subseteq Nat
      BY <2>1
    <3>2. T # {}
      BY <3>1
    <3> HIDE DEF T
    <3> QED BY <3>1, <3>2, LeastOf
  <2>3. k # 0
    <3>1. k = 0 => m <= 0
      BY <2>2, CountEnds
    <3> QED BY <2>1, <3>1
  <2>4. k - 1 \in 0..N /\ k \in Nat \ {0} /\ ~ (k <= k - 1)
    <3>1. k \in 0..N
      BY <2>2
    <3> QED BY <2>3, <3>1
  <2>5. ~ (m <= Count(S, k - 1))
    <3>1. k - 1 \notin T
      <4> HIDE DEF T
      <4> QED BY <2>2, <2>4
    <3> QED BY <2>4, <3>1
  <2>6. Count(S, k) = IF k \in S THEN Count(S, k - 1) + 1 ELSE Count(S, k - 1)
    BY <2>4, CountNext
  <2>7. Count(S, k - 1) \in Nat /\ m \in Nat /\ m <= Count(S, k)
    <3>1. m \in Nat /\ m <= Count(S, k)
      BY <2>1, <2>2
    <3>2. Count(S, k - 1) \in Nat
      BY <1>0, CountType
    <3> QED BY <3>1, <3>2
  <2>8. k \in S /\ Count(S, k) = m
    BY <2>5, <2>6, <2>7
  <2> QED BY <2>8
<1> QED BY <1>2, <1>3, <1>4

(***************************************************************************)
(* Division.                                                               *)
(***************************************************************************)
LEMMA Division ==
  ASSUME NEW a \in Int, NEW n \in Nat \ {0}
  PROVE  /\ a \div n \in Int /\ a % n \in 0..(n - 1)
         /\ a = n * (a \div n) + (a % n)
  OBVIOUS

(* A number has one quotient and one remainder.                            *)
LEMMA OneQuotient ==
  ASSUME NEW n \in Nat \ {0}, NEW p \in Int, NEW q \in Int, NEW x \in 0..(n - 1), NEW y \in 0..(n - 1),
         n * p + x = n * q + y
  PROVE  p = q /\ x = y
<1>1. n * (p - q) = n * p - n * q /\ n * p \in Int /\ n * q \in Int
  OBVIOUS
<1>2. n * (p - q) = y - x
  BY <1>1
<1>3. p - q >= 1 => n * (p - q) >= n
  OBVIOUS
<1>4. p - q <= -1 => n * (p - q) <= -n
  OBVIOUS
<1>5. p = q
  BY <1>2, <1>3, <1>4
<1>6. QED
  BY <1>5, <1>1

LEMMA MultipleDivides ==
  ASSUME NEW n \in Nat \ {0}, NEW k \in Int
  PROVE  (n * k) \div n = k /\ (n * k) % n = 0
<1> DEFINE a == n * k
           q == a \div n
           x == a % n
<1>1. a \in Int /\ a = n * k + 0
  OBVIOUS
<1>2. q \in Int /\ x \in 0..(n - 1) /\ a = n * q + x
  BY <1>1, Division
<1>3. 0 \in 0..(n - 1)
  OBVIOUS
<1> HIDE DEF a, q, x
<1>4. n * q + x = n * k + 0
  BY <1>1, <1>2
<1>5. q = k /\ x = 0
  BY <1>2, <1>3, <1>4, OneQuotient
<1>6. QED
  BY <1>5 DEF q, x, a

(* A number next to those below n has the remainder that is one step away. *)
LEMMA Remainders ==
  ASSUME NEW a \in Int, NEW n \in Nat \ {0}
  PROVE  /\ a \in 0..(n - 1) => a % n = a
         /\ a \in n..(2 * n - 1) => a % n = a - n
         /\ a \in (-n)..(-1) => a % n = a + n
<1> DEFINE q == a \div n
           x == a % n
<1>1. q \in Int /\ x \in 0..(n - 1) /\ a = n * q + x
  BY Division
<1> HIDE DEF q, x
<1>2. ASSUME NEW k \in Int, NEW y \in 0..(n - 1), a = n * k + y PROVE x = y
  BY <1>1, <1>2, OneQuotient
<1>3. ASSUME a \in 0..(n - 1) PROVE x = a
  <2>1. a = n * 0 + a
    OBVIOUS
  <2> QED BY <1>2, <1>3, <2>1
<1>4. ASSUME a \in n..(2 * n - 1) PROVE x = a - n
  <2> DEFINE k == 1
             y == a - n
  <2>1. k \in Int /\ a = n * k + y /\ y \in 0..(n - 1) /\ y = a - n
    BY <1>4
  <2> HIDE DEF k, y
  <2>2. x = y
    BY <1>2, <2>1
  <2> QED BY <2>1, <2>2
<1>5. ASSUME a \in (-n)..(-1) PROVE x = a + n
  <2> DEFINE k == -1
             y == a + n
  <2>1. k \in Int /\ a = n * k + y /\ y \in 0..(n - 1) /\ y = a + n
    BY <1>5
  <2> HIDE DEF k, y
  <2>2. x = y
    BY <1>2, <2>1
  <2> QED BY <2>1, <2>2
<1> QED BY <1>3, <1>4, <1>5 DEF x

(* The greatest multiple of b that is not above a. *)
LEMMA Quotients ==
  ASSUME NEW a \in Int, NEW b \in Nat \ {0}, NEW v \in Int
  PROVE  v <= a \div b <=> v * b <= a
<1> DEFINE q == a \div b
           x == a % b
<1>1. q \in Int /\ x \in 0..(b - 1) /\ a = b * q + x
  BY Division
<1> HIDE DEF q, x
<1>2. ASSUME v <= q PROVE v * b <= a
  <2>1. (q - v) * b >= 0 /\ (q - v) * b = q * b - v * b
    BY <1>1, <1>2
  <2>2. q * b = b * q /\ v * b \in Int /\ q * b \in Int
    BY <1>1
  <2> QED BY <1>1, <2>1, <2>2
<1>3. ASSUME v >= q + 1 PROVE v * b > a
  <2>1. (v - (q + 1)) * b >= 0 /\ (v - (q + 1)) * b = v * b - (q * b + b)
    BY <1>1, <1>3
  <2>2. q * b = b * q /\ v * b \in Int /\ q * b \in Int
    BY <1>1
  <2> QED BY <1>1, <2>1, <2>2
<1>4. v <= q \/ v >= q + 1
  BY <1>1
<1>5. v * b \in Int
  OBVIOUS
<1> QED BY <1>2, <1>3, <1>4, <1>5 DEF q

(***************************************************************************)
(* Recursive functions: where a call is linear in the result of one of a   *)
(* smaller argument, the definition has a solution.                        *)
(***************************************************************************)
Solves(g, n, B, a, c, b, next) ==
  g = [m \in 0..n |-> IF m \in B THEN a[m] ELSE c * g[next[m]] + b[m]]

LEMMA RecursionExists ==
  ASSUME NEW n \in Nat, NEW B, NEW a, NEW c \in Int, NEW b, NEW next,
         \A m \in 0..n : m \in B => a[m] \in Int,
         \A m \in 0..n : m \notin B => next[m] \in 0..(m - 1) /\ b[m] \in Int
  PROVE  \E g \in [0..n -> Int] : Solves(g, n, B, a, c, b, next)
<1> DEFINE Body(g, m) == IF m \in B THEN a[m] ELSE c * g[next[m]] + b[m]
           Upto(k) == \E g \in [0..k -> Int] : \A m \in 0..k : g[m] = Body(g, m)
           T == {k \in 0..n : ~Upto(k)}
<1>1. T = {}
  <2> SUFFICES ASSUME T # {} PROVE FALSE
    OBVIOUS
  <2>1. T \subseteq Nat
    OBVIOUS
  <2>2. PICK k \in T : \A j \in T : k <= j
    <3> HIDE DEF T
    <3> QED BY <2>1, LeastOf
  <2>3. k \in 0..n /\ ~Upto(k) /\ k \in Nat
    <3> HIDE DEF Upto
    <3> QED BY <2>2
  <2>4. PICK h : \A m \in 0..(k - 1) : h[m] \in Int /\ h[m] = Body(h, m)
    <3>1. CASE k = 0
      BY <3>1
    <3>2. CASE k # 0
      <4>1. k - 1 \in 0..n /\ ~ (k <= k - 1)
        BY <2>3, <3>2
      <4>2. k - 1 \notin T
        <5> HIDE DEF T
        <5> QED BY <2>2, <4>1
      <4>3. Upto(k - 1)
        <5> HIDE DEF Upto
        <5> QED BY <4>1, <4>2
      <4>4. PICK h \in [0..(k - 1) -> Int] : \A m \in 0..(k - 1) : h[m] = Body(h, m)
        BY <4>3
      <4>5. \A m \in 0..(k - 1) : h[m] \in Int
        BY <4>4
      <4> QED BY <4>4, <4>5
    <3> QED BY <3>1, <3>2
  <2> DEFINE g == [m \in 0..k |-> IF m \in 0..(k - 1) THEN h[m] ELSE Body(h, m)]
  <2>5. ASSUME NEW m \in 0..k PROVE g[m] = Body(h, m)
    <3> HIDE DEF Body
    <3> QED BY <2>4
  <2>6. \A m \in 0..(k - 1) : g[m] = h[m]
    <3> HIDE DEF Body
    <3> QED BY <2>3
  <2> HIDE DEF g
  <2>7. ASSUME NEW m \in 0..k PROVE Body(h, m) = Body(g, m) /\ Body(h, m) \in Int
    <3>1. m \in 0..n
      BY <2>3
    <3>2. CASE m \in B
      BY <3>1, <3>2
    <3>3. CASE m \notin B
      <4>1. next[m] \in 0..(m - 1)
        BY <3>1, <3>3
      <4>2. next[m] \in 0..(k - 1)
        BY <2>3, <4>1
      <4>3. g[next[m]] = h[next[m]] /\ h[next[m]] \in Int
        BY <2>4, <2>6, <4>2
      <4> QED BY <3>3, <4>3
    <3> QED BY <3>2, <3>3
  <2>8. g \in [0..k -> Int]
    <3>1. \A m \in 0..k : Body(h, m) \in Int
      BY <2>7
    <3> HIDE DEF Body
    <3>2. \A m \in 0..k : g[m] \in Int
      BY <2>5, <3>1
    <3> QED BY <3>2 DEF g
  <2>9. \A m \in 0..k : g[m] = Body(g, m)
    <3>1. \A m \in 0..k : Body(h, m) = Body(g, m)
      BY <2>7
    <3> HIDE DEF Body
    <3> QED BY <2>5, <3>1
  <2>10. Upto(k)
    <3> HIDE DEF Body
    <3> QED BY <2>8, <2>9
  <2> QED BY <2>3, <2>10
<1>2. Upto(n)
  <2>1. n \in 0..n /\ n \notin T
    BY <1>1
  <2> HIDE DEF Upto
  <2> QED BY <2>1
<1>3. PICK g \in [0..n -> Int] : \A m \in 0..n : g[m] = Body(g, m)
  BY <1>2
<1>4. g = [m \in 0..n |-> Body(g, m)]
  <2> HIDE DEF Body
  <2> QED BY <1>3
<1> QED BY <1>4 DEF Solves

(***************************************************************************)
(* Loops: f[k] is what the steps g[1], ..., g[k] make of a.                *)
(***************************************************************************)
Iterates(f, n, V, a, g) ==
  f \in [0..n -> V] /\ f[0] = a /\ \A k \in 1..n : f[k] = g[k][f[k - 1]]

LEMMA IterationExists ==
  ASSUME NEW n \in Nat, NEW V, NEW a \in V, NEW g \in [1..n -> [V -> V]]
  PROVE  \E f : Iterates(f, n, V, a, g)
<1> DEFINE Good(j, f) == f[0] = a /\ \A k \in 1..j : f[k] = g[k][f[k - 1]]
           T == {j \in 0..n : \E f \in [0..j -> V] : Good(j, f)}
<1>1. 0 \in T
  <2> DEFINE h == [k \in 0..0 |-> a]
  <2>1. h \in [0..0 -> V] /\ Good(0, h) /\ 0 \in 0..n
    OBVIOUS
  <2> HIDE DEF Good, h
  <2> QED BY <2>1
<1>2. \A j \in 0..(n - 1) : j \in T => j + 1 \in T
  <2> SUFFICES ASSUME NEW j \in 0..(n - 1), j \in T PROVE j + 1 \in T
    OBVIOUS
  <2>1. PICK f \in [0..j -> V] : Good(j, f)
    OBVIOUS
  <2> DEFINE h == [k \in 0..(j + 1) |-> IF k = j + 1 THEN g[j + 1][f[j]] ELSE f[k]]
  <2>2. f[j] \in V /\ j + 1 \in 1..n
    OBVIOUS
  <2>3. g[j + 1][f[j]] \in V
    BY <2>2
  <2>4. h \in [0..(j + 1) -> V]
    BY <2>3
  <2>5. \A k \in 0..j : h[k] = f[k]
    OBVIOUS
  <2>6. h[j + 1] = g[j + 1][f[j]]
    OBVIOUS
  <2> HIDE DEF h
  <2>7. \A k \in 1..(j + 1) : h[k] = g[k][h[k - 1]]
    <3> SUFFICES ASSUME NEW k \in 1..(j + 1) PROVE h[k] = g[k][h[k - 1]]
      OBVIOUS
    <3>1. CASE k = j + 1
      <4>1. k - 1 = j /\ h[k - 1] = f[j]
        BY <3>1, <2>5
      <4> QED BY <3>1, <4>1, <2>6
    <3>2. CASE k \in 1..j
      BY <3>2, <2>1, <2>5
    <3> QED BY <3>1, <3>2
  <2>8. h[0] = a
    BY <2>1, <2>5
  <2>9. Good(j + 1, h) /\ j + 1 \in 0..n
    BY <2>7, <2>8
  <2> HIDE DEF Good
  <2> QED BY <2>4, <2>9
<1>3. \A j \in 0..n : j \in T
  <2> HIDE DEF T
  <2> QED BY <1>1, <1>2, Induction
<1> QED BY <1>3 DEF Iterates

(* Two loops that agree at first and whose steps agree, agree.             *)
LEMMA Agree ==
  ASSUME NEW n \in Nat, NEW f, NEW h, f[0] = h[0],
         \A k \in 0..(n - 1) : f[k] = h[k] => f[k + 1] = h[k + 1]
  PROVE  f[n] = h[n]
<1> DEFINE T == {k \in 0..n : f[k] = h[k]}
<1>1. 0 \in T /\ n \in 0..n
  OBVIOUS
<1>2. \A k \in 0..(n - 1) : k \in T => k + 1 \in T
  OBVIOUS
<1>3. n \in T
  <2> HIDE DEF T
  <2> QED BY <1>1, <1>2, Induction
<1> QED BY <1>3
=============================================================================
