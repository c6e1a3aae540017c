--------------------------- MODULE Arithmetic_proofs ---------------------------
(***************************************************************************)
(* divide and mean are exact, at every width of the numbers; CRC-64 is the *)
(* remainder, for streams of every length in pieces of every size.         *)
(***************************************************************************)
EXTENDS Arithmetic, Crc, Counting, TLAPS

LEMMA Products ==
  ASSUME NEW x \in Int, NEW y \in Int, NEW z \in Int
  PROVE  /\ x * y \in Int /\ x * y = y * x
         /\ (x * y) * z = x * (y * z) /\ x * (y + z) = x * y + x * z
         /\ x * (y - z) = x * y - x * z
  OBVIOUS

LEMMA Grows ==
  ASSUME NEW x \in Int, NEW y \in Int, NEW z \in Nat
  PROVE  /\ x <= y => x * z <= y * z
         /\ x * z < y * z => x < y
         /\ x < y /\ z # 0 => x * z < y * z
<1>1. (y - x) * z = y * z - x * z /\ x * z \in Int /\ y * z \in Int
  OBVIOUS
<1>2. x <= y => (y - x) * z >= 0
  OBVIOUS
<1>3. x < y /\ z # 0 => (y - x) * z >= 1
  OBVIOUS
<1>4. ~ (x < y) => (y - x) * z <= 0
  OBVIOUS
<1> QED BY <1>1, <1>2, <1>3, <1>4

(***************************************************************************)
(* Powers.                                                                 *)
(***************************************************************************)
(* g is the function that TwoTo(n) defines.                                *)
Doubles(g, n) == g = [k \in 0..n |-> IF k = 0 THEN 1 ELSE 2 * g[k - 1]]

LEMMA DoublesExists ==
  ASSUME NEW n \in Nat
  PROVE  \E g : Doubles(g, n)
<1> DEFINE B == {0}
           a == [k \in 0..n |-> 1]
           c == 2
           b == [k \in 0..n |-> 0]
           next == [k \in 0..n |-> k - 1]
<1>1. \A k \in 0..n : k \in B => a[k] \in Int
  OBVIOUS
<1>2. \A k \in 0..n : k \notin B => next[k] \in 0..(k - 1) /\ b[k] \in Int
  OBVIOUS
<1>3. c \in Int
  OBVIOUS
<1>4. ASSUME NEW g \in [0..n -> Int], Solves(g, n, B, a, c, b, next) PROVE Doubles(g, n)
  <2>1. g = [k \in 0..n |-> IF k \in B THEN a[k] ELSE c * g[next[k]] + b[k]]
    BY <1>4 DEF Solves
  <2>2. \A k \in 0..n : (IF k \in B THEN a[k] ELSE c * g[next[k]] + b[k])
                        = IF k = 0 THEN 1 ELSE 2 * g[k - 1]
    <3>1. ASSUME NEW k \in 0..n, k # 0 PROVE g[k - 1] \in Int
      BY <3>1
    <3> QED BY <3>1
  <2> QED BY <2>1, <2>2 DEF Doubles
<1> HIDE DEF B, a, c, b, next
<1>5. \E g \in [0..n -> Int] : Solves(g, n, B, a, c, b, next)
  BY <1>1, <1>2, <1>3, RecursionExists
<1> QED BY <1>4, <1>5

LEMMA DoublesAgree ==
  ASSUME NEW n \in Nat, NEW k \in Nat, NEW g, NEW h, Doubles(g, n), Doubles(h, k),
         NEW x \in Nat, x <= n, x <= k
  PROVE  g[x] = h[x] /\ g[x] \in Nat \ {0}
<1> DEFINE T == {j \in Nat : j <= n /\ j <= k /\ ~ (g[j] = h[j] /\ g[j] \in Nat \ {0})}
<1>1. T = {}
  <2> SUFFICES ASSUME T # {} PROVE FALSE
    OBVIOUS
  <2>1. T \subseteq Nat
    OBVIOUS
  <2> HIDE DEF T
  <2>2. PICK j \in T : \A i \in T : j <= i
    BY <2>1, LeastOf
  <2>3. j \in Nat /\ j <= n /\ j <= k /\ ~ (g[j] = h[j] /\ g[j] \in Nat \ {0})
    BY <2>2 DEF T
  <2>4. /\ g[j] = IF j = 0 THEN 1 ELSE 2 * g[j - 1]
        /\ h[j] = IF j = 0 THEN 1 ELSE 2 * h[j - 1]
    <3>1. j \in 0..n /\ j \in 0..k
      BY <2>3
    <3> QED BY <3>1 DEF Doubles
  <2>5. CASE j = 0
    BY <2>3, <2>4, <2>5
  <2>6. CASE j # 0
    <3> DEFINE i == j - 1
    <3>1. i \in Nat /\ i <= n /\ i <= k /\ ~ (j <= i)
      BY <2>3, <2>6
    <3>2. i \notin T
      <4> HIDE DEF i
      <4> QED BY <2>2, <3>1
    <3>3. g[i] = h[i] /\ g[i] \in Nat \ {0}
      <4> HIDE DEF i
      <4> QED BY <3>1, <3>2 DEF T
    <3> QED BY <2>3, <2>4, <2>6, <3>3
  <2> QED BY <2>5, <2>6
<1> QED BY <1>1

LEMMA TwoToIs ==
  ASSUME NEW n \in Nat
  PROVE  \E g : Doubles(g, n) /\ g[n] = TwoTo(n)
<1> DEFINE G == CHOOSE g : Doubles(g, n)
<1>1. Doubles(G, n)
  BY DoublesExists
<1>2. TwoTo(n) = G[n]
  BY DEF TwoTo, Doubles
<1> QED BY <1>1, <1>2

LEMMA TwoToFacts ==
  /\ TwoTo(0) = 1
  /\ \A n \in Nat : TwoTo(n) \in Nat \ {0}
  /\ \A n \in Nat : TwoTo(n + 1) = 2 * TwoTo(n)
<1>1. ASSUME NEW n \in Nat PROVE TwoTo(n) \in Nat \ {0}
  <2>1. PICK g : Doubles(g, n) /\ g[n] = TwoTo(n)
    BY TwoToIs
  <2>2. n <= n
    OBVIOUS
  <2> QED BY <2>1, <2>2, DoublesAgree
<1>2. TwoTo(0) = 1
  <2>1. PICK g : Doubles(g, 0) /\ g[0] = TwoTo(0)
    BY TwoToIs
  <2> QED BY <2>1 DEF Doubles
<1>3. ASSUME NEW n \in Nat PROVE TwoTo(n + 1) = 2 * TwoTo(n)
  <2> DEFINE k == n + 1
  <2>0. k \in Nat /\ n <= k /\ n <= n /\ k - 1 = n /\ k # 0
    OBVIOUS
  <2> HIDE DEF k
  <2>1. PICK g : Doubles(g, n) /\ g[n] = TwoTo(n)
    BY TwoToIs
  <2>2. PICK h : Doubles(h, k) /\ h[k] = TwoTo(k)
    BY <2>0, TwoToIs
  <2>3. g[n] = h[n]
    BY <2>0, <2>1, <2>2, DoublesAgree
  <2>4. h[k] = 2 * h[n]
    <3>1. k \in 0..k
      BY <2>0
    <3> QED BY <2>0, <2>2, <3>1 DEF Doubles
  <2> QED BY <2>1, <2>2, <2>3, <2>4 DEF k
<1> QED BY <1>1, <1>2, <1>3

LEMMA TwoToSum ==
  ASSUME NEW x \in Nat, NEW y \in Nat
  PROVE  TwoTo(x + y) = TwoTo(x) * TwoTo(y)
<1> DEFINE T == {j \in Nat : TwoTo(x + j) # TwoTo(x) * TwoTo(j)}
<1>1. T = {}
  <2> SUFFICES ASSUME T # {} PROVE FALSE
    OBVIOUS
  <2>1. T \subseteq Nat
    OBVIOUS
  <2> HIDE DEF T
  <2>2. PICK j \in T : \A i \in T : j <= i
    BY <2>1, LeastOf
  <2>3. j \in Nat /\ TwoTo(x + j) # TwoTo(x) * TwoTo(j)
    BY <2>2 DEF T
  <2>4. TwoTo(x) \in Nat
    BY TwoToFacts
  <2>5. CASE j = 0
    <3>1. x + j = x /\ TwoTo(j) = 1
      BY <2>5, TwoToFacts
    <3> QED BY <2>3, <2>4, <3>1
  <2>6. CASE j # 0
    <3> DEFINE i == j - 1
    <3>1. i \in Nat /\ ~ (j <= i) /\ i + 1 = j /\ x + i \in Nat /\ (x + i) + 1 = x + j
      BY <2>3, <2>6
    <3> HIDE DEF i
    <3>2. i \notin T
      BY <2>2, <3>1
    <3>3. TwoTo(x + i) = TwoTo(x) * TwoTo(i)
      BY <3>1, <3>2 DEF T
    <3>4. TwoTo(j) = 2 * TwoTo(i) /\ TwoTo(x + j) = 2 * TwoTo(x + i) /\ TwoTo(i) \in Nat
      BY <3>1, TwoToFacts
    <3>5. TwoTo(x) * (2 * TwoTo(i)) = 2 * (TwoTo(x) * TwoTo(i))
      BY <2>4, <3>4
    <3> QED BY <2>3, <3>3, <3>4, <3>5
  <2> QED BY <2>5, <2>6
<1> QED BY <1>1

(***************************************************************************)
(* log2Ceil.                                                               *)
(***************************************************************************)
U == UnsignedBits

LEMMA WidthFacts ==
  /\ U \in Nat /\ U >= 2 /\ U - 1 \in Nat
  /\ TwoTo(U) \in Nat \ {0} /\ TwoTo(U - 1) \in Nat \ {0}
  /\ TwoTo(U) = 2 * TwoTo(U - 1)
  /\ TwoTo(N) = 2 * TwoTo(U) /\ TwoTo(N) \in Nat \ {0}
  /\ TwoTo(2 * U) = TwoTo(U) * TwoTo(U)
<1>1. U \in Nat /\ U >= 2 /\ U - 1 \in Nat /\ (U - 1) + 1 = U /\ N = U + 1 /\ N \in Nat /\ 2 * U = U + U
  BY ArithmeticAssumption DEF U, N
<1>2. /\ TwoTo(U) \in Nat \ {0} /\ TwoTo(U - 1) \in Nat \ {0} /\ TwoTo(N) \in Nat \ {0}
      /\ TwoTo((U - 1) + 1) = 2 * TwoTo(U - 1) /\ TwoTo(U + 1) = 2 * TwoTo(U)
  BY <1>1, TwoToFacts
<1>3. TwoTo(U + U) = TwoTo(U) * TwoTo(U)
  BY <1>1, TwoToSum
<1> QED BY <1>1, <1>2, <1>3

(* g is the function that leadZeroCount defines. *)
Leads(g) ==
  g = [v \in Unsigned |-> IF v = 0 THEN UnsignedBits
                          ELSE IF v >= TwoTo(UnsignedBits - 1) THEN 0
                          ELSE g[v \div 2] - 1]

LEMMA LeadsExists == \E g : Leads(g)
<1> DEFINE n == TwoTo(U) - 1
           B == {v \in 0..n : v = 0 \/ v >= TwoTo(U - 1)}
           a == [v \in 0..n |-> IF v = 0 THEN U ELSE 0]
           c == 1
           b == [v \in 0..n |-> -1]
           next == [v \in 0..n |-> v \div 2]
<1>0. n \in Nat /\ U \in Nat /\ U = UnsignedBits
  BY WidthFacts DEF U
<1> HIDE DEF n
<1>1. \A v \in 0..n : v \in B => a[v] \in Int
  BY <1>0
<1>2. \A v \in 0..n : v \notin B => next[v] \in 0..(v - 1) /\ b[v] \in Int
  <2>1. ASSUME NEW v \in 0..n, v # 0 PROVE next[v] \in 0..(v - 1)
    BY <1>0, <2>1
  <2> QED BY <2>1
<1>3. c \in Int
  OBVIOUS
<1>4. ASSUME NEW g \in [0..n -> Int], Solves(g, n, B, a, c, b, next) PROVE Leads(g)
  <2>1. g = [v \in 0..n |-> IF v \in B THEN a[v] ELSE c * g[next[v]] + b[v]]
    BY <1>4 DEF Solves
  <2>2. \A v \in 0..n : (IF v \in B THEN a[v] ELSE c * g[next[v]] + b[v])
                        = IF v = 0 THEN UnsignedBits
                          ELSE IF v >= TwoTo(UnsignedBits - 1) THEN 0
                          ELSE g[v \div 2] - 1
    <3>1. ASSUME NEW v \in 0..n, v # 0 PROVE g[v \div 2] \in Int /\ c * g[v \div 2] + b[v] = g[v \div 2] - 1
      <4>1. v \div 2 \in 0..n
        BY <1>0, <3>1
      <4>2. g[v \div 2] \in Int
        BY <4>1
      <4> QED BY <4>2
    <3>2. ASSUME NEW v \in 0..n, v \notin B PROVE v # 0 /\ ~ (v >= TwoTo(UnsignedBits - 1))
      BY <3>2 DEF U
    <3>3. ASSUME NEW v \in 0..n, v \in B PROVE v = 0 \/ v >= TwoTo(UnsignedBits - 1)
      BY <3>3 DEF U
    <3>4. \A v \in 0..n : a[v] = (IF v = 0 THEN U ELSE 0) /\ next[v] = v \div 2
      OBVIOUS
    <3> HIDE DEF B, a, c, b, next
    <3> QED BY <1>0, <3>1, <3>2, <3>3, <3>4
  <2>3. Unsigned = 0..n
    BY DEF Unsigned, U, n
  <2> HIDE DEF B, a, c, b, next
  <2> QED BY <2>1, <2>2, <2>3 DEF Leads
<1> HIDE DEF B, a, c, b, next
<1>5. \E g \in [0..n -> Int] : Solves(g, n, B, a, c, b, next)
  BY <1>0, <1>1, <1>2, <1>3, RecursionExists
<1> QED BY <1>4, <1>5

LEMMA LeadZeros ==
  ASSUME NEW v \in Unsigned
  PROVE  /\ leadZeroCount(v) \in 0..U
         /\ v < TwoTo(U - leadZeroCount(v))
<1> DEFINE g == CHOOSE g : Leads(g)
           Right(w) == /\ g[w] \in 0..U /\ w < TwoTo(U - g[w])
                       /\ w # 0 => TwoTo(U - g[w]) <= 2 * w
           T == {w \in Unsigned : ~ Right(w)}
<1>1. Leads(g)
  BY LeadsExists
<1>2. leadZeroCount(v) = g[v]
  BY DEF leadZeroCount, Leads
<1> HIDE DEF g
<1>3. T = {}
  <2> SUFFICES ASSUME T # {} PROVE FALSE
    OBVIOUS
  <2>0. \A w \in Unsigned : w \in Nat /\ w < TwoTo(U)
    BY WidthFacts DEF Unsigned, U
  <2>1. T \subseteq Nat
    BY <2>0
  <2> HIDE DEF T
  <2>2. PICK w \in T : \A i \in T : w <= i
    BY <2>1, LeastOf
  <2>3. w \in Unsigned /\ ~ Right(w) /\ w \in Nat /\ w < TwoTo(U)
    BY <2>0, <2>2 DEF T
  <2>4. g[w] = IF w = 0 THEN U ELSE IF w >= TwoTo(U - 1) THEN 0 ELSE g[w \div 2] - 1
    BY <1>1, <2>3 DEF Leads, U
  <2>5. CASE w = 0
    <3>1. U - U = 0 /\ U \in 0..U
      BY WidthFacts
    <3> QED BY <2>3, <2>4, <2>5, <3>1, TwoToFacts
  <2>6. CASE w # 0 /\ w >= TwoTo(U - 1)
    <3>1. U - 0 = U /\ 0 \in 0..U /\ TwoTo(U) <= 2 * w
      BY <2>3, <2>6, WidthFacts
    <3> QED BY <2>3, <2>4, <2>6, <3>1
  <2>7. CASE w # 0 /\ w < TwoTo(U - 1)
    <3> DEFINE h == w \div 2
               k == g[h]
    <3>1. h \in Nat /\ h < w /\ 2 * h <= w /\ w < 2 * h + 2
      BY <2>3, <2>7
    <3>2. h \in Unsigned /\ ~ (w <= h)
      <4> HIDE DEF h
      <4> QED BY <2>3, <3>1, WidthFacts DEF Unsigned, U
    <3>3. Right(h)
      <4> HIDE DEF Right, h
      <4> QED BY <2>2, <3>2 DEF T
    <3>4. k \in 0..U /\ h < TwoTo(U - k) /\ (h # 0 => TwoTo(U - k) <= 2 * h)
      BY <3>3
    <3>5. g[w] = k - 1
      <4>1. ~ (w >= TwoTo(U - 1))
        BY <2>3, <2>7, WidthFacts
      <4> QED BY <2>4, <2>7, <4>1
    <3>6. h = 0 => k = U
      <4>1. 0 \in Unsigned
        BY WidthFacts DEF Unsigned, U
      <4>2. g[0] = U
        BY <1>1, <4>1 DEF Leads, U
      <4> QED BY <4>2
    <3> HIDE DEF h, k
    <3>7. k # 0
      <4>1. CASE h = 0
        BY <3>6, <4>1, WidthFacts
      <4>2. CASE h # 0
        <5>1. k = 0 => U - k = U
          BY <3>4, WidthFacts
        <5> QED BY <2>3, <2>7, <3>1, <3>4, <4>2, <5>1, WidthFacts
      <4> QED BY <4>1, <4>2
    <3>8. k - 1 \in 0..U /\ U - k \in Nat /\ U - (k - 1) = (U - k) + 1
      BY <3>4, <3>7, WidthFacts
    <3>9. TwoTo(U - (k - 1)) = 2 * TwoTo(U - k) /\ TwoTo(U - k) \in Nat
      BY <3>8, TwoToFacts
    <3>10. w < 2 * TwoTo(U - k)
      BY <2>3, <3>1, <3>4, <3>9
    <3>11. 2 * TwoTo(U - k) <= 2 * w
      <4>1. CASE h = 0
        <5>1. U - k = 0 /\ w >= 1
          BY <2>3, <2>7, <3>6, <4>1, WidthFacts
        <5>2. TwoTo(U - k) = 1
          BY <5>1, TwoToFacts
        <5> QED BY <2>3, <5>1, <5>2
      <4>2. CASE h # 0
        BY <2>3, <3>1, <3>4, <3>9, <4>2
      <4> QED BY <4>1, <4>2
    <3> QED BY <2>3, <3>5, <3>8, <3>9, <3>10, <3>11
  <2> QED BY <2>3, <2>5, <2>6, <2>7, WidthFacts
<1>4. Right(v)
  BY <1>3
<1> QED BY <1>2, <1>4

LEMMA CeilFacts ==
  ASSUME NEW d \in Divisors
  PROVE  /\ d \in Nat \ {0}
         /\ l(d) \in 0..U /\ d <= TwoTo(l(d))
<1>1. UnsignedBits - 2 \in Nat /\ U = UnsignedBits
  BY ArithmeticAssumption DEF U
<1>2. d \in 1..TwoTo(UnsignedBits - 2)
  BY ArithmeticAssumption
<1>3. TwoTo(UnsignedBits - 2) \in Nat /\ TwoTo(UnsignedBits - 2) <= TwoTo(U)
  <2> DEFINE x == UnsignedBits - 2
  <2>1. x \in Nat /\ x + 1 = U - 1
    BY <1>1, WidthFacts
  <2> HIDE DEF x
  <2>2. TwoTo(x) \in Nat /\ TwoTo(x + 1) = 2 * TwoTo(x)
    BY <2>1, TwoToFacts
  <2>3. TwoTo(U - 1) = 2 * TwoTo(x)
    BY <2>1, <2>2
  <2> QED BY <2>2, <2>3, WidthFacts DEF x
<1>4. d \in Nat \ {0} /\ d - 1 \in Unsigned
  BY <1>1, <1>2, <1>3, WidthFacts DEF Unsigned
<1>5. leadZeroCount(d - 1) \in 0..U /\ d - 1 < TwoTo(U - leadZeroCount(d - 1))
  BY <1>4, LeadZeros
<1>6. l(d) = U - leadZeroCount(d - 1)
  BY DEF l, log2Ceil, U
<1>7. l(d) \in 0..U
  BY <1>5, <1>6, WidthFacts
<1>8. TwoTo(l(d)) \in Nat
  BY <1>7, WidthFacts, TwoToFacts
<1> QED BY <1>4, <1>5, <1>6, <1>7, <1>8

(***************************************************************************)
(* The factor is (TwoTo(N) * S + a part of S) / d, where S is              *)
(* TwoTo(sh_post): all divide needs of it.                                 *)
(***************************************************************************)
LEMMA FactorFacts ==
  ASSUME NEW d \in Divisors
  PROVE  /\ sh_post(d) \in Nat /\ m(d) \in Nat
         /\ TwoTo(N) * TwoTo(sh_post(d)) <= m(d) * d
         /\ m(d) * d <= TwoTo(N) * TwoTo(sh_post(d)) + TwoTo(sh_post(d))
<1> DEFINE L == l(d)
           P == TwoTo(N + L)
           T == TwoTo(L)
           low == m_low(d)
           high == m_high(d)
           k == UIntDivReductor(d)
           Q == TwoTo(k)
           M == m(d)
           s == sh_post(d)
           S == TwoTo(s)
<1>1. d \in Nat \ {0} /\ L \in 0..U /\ L \in Nat /\ d <= T /\ T \in Nat \ {0}
  BY CeilFacts, WidthFacts, TwoToFacts
<1>2. P = TwoTo(N) * T /\ P \in Nat /\ TwoTo(N) \in Nat
  <2>1. N \in Nat /\ TwoTo(N) \in Nat
    BY WidthFacts DEF N, U
  <2> HIDE DEF L
  <2>2. P = TwoTo(N) * T
    BY <1>1, <2>1, TwoToSum
  <2> QED BY <1>1, <2>1, <2>2
<1>3. low = P \div d /\ high = (P + T) \div d
  BY DEF m_low, m_high
<1>4. low \in Int /\ low * d <= P /\ P < (low + 1) * d
  <2> HIDE DEF P, low
  <2>1. low \in Int
    BY <1>1, <1>2, <1>3
  <2>2. low <= P \div d /\ ~ (low + 1 <= P \div d) /\ low + 1 \in Int /\ P \in Int
    BY <1>2, <1>3, <2>1
  <2>3. (low + 1) * d \in Int
    BY <1>1, <2>1
  <2> DEFINE up == low + 1
  <2> HIDE DEF up
  <2>4. ~ (up * d <= P)
    BY <1>1, <2>2, Quotients DEF up
  <2>5. low * d <= P
    BY <1>1, <2>1, <2>2, Quotients
  <2> QED BY <2>1, <2>2, <2>3, <2>4, <2>5 DEF up
<1>5. high \in Int /\ high * d <= P + T /\ P + T < (high + 1) * d
  <2> DEFINE X == P + T
  <2>0. X \in Int
    BY <1>1, <1>2
  <2> HIDE DEF P, high, X, T
  <2>1. high \in Int /\ high = X \div d
    BY <1>1, <1>3, <2>0 DEF X
  <2> DEFINE up == high + 1
  <2>2. high <= X \div d /\ ~ (up <= X \div d) /\ up \in Int
    BY <2>1
  <2>3. up * d \in Int
    BY <1>1, <2>2
  <2> HIDE DEF up
  <2>4. ~ (up * d <= X)
    BY <1>1, <2>0, <2>2, Quotients
  <2>5. high * d <= X
    BY <1>1, <2>0, <2>1, <2>2, Quotients
  <2> QED BY <2>0, <2>1, <2>3, <2>4, <2>5 DEF up, X
<1>6. /\ k \in 0..L
      /\ k # 0 => low \div Q < high \div Q
  <2> DEFINE Differ(j) == low \div TwoTo(j) < high \div TwoTo(j)
             End(j) == (\A i \in 1..j : Differ(i)) /\ (j < L => ~ Differ(j + 1))
  <2>1. k = CHOOSE j \in 0..L : End(j)
    BY DEF UIntDivReductor
  <2>2. \E j \in 0..L : End(j)
    <3> DEFINE R == {j \in 0..L : j = L \/ ~ Differ(j + 1)}
    <3>1. R \subseteq Nat /\ L \in R
      BY <1>1
    <3> HIDE DEF R
    <3>2. PICK j \in R : \A i \in R : j <= i
      BY <3>1, LeastOf
    <3>3. j \in 0..L /\ (j = L \/ ~ Differ(j + 1)) /\ j \in Nat
      BY <3>1, <3>2 DEF R
    <3> HIDE DEF Differ, L
    <3>4. ASSUME NEW i \in 1..j PROVE Differ(i)
      <4> DEFINE h == i - 1
      <4>1. h \in 0..L /\ ~ (j <= h) /\ h # L /\ h + 1 = i
        BY <1>1, <3>3, <3>4
      <4> HIDE DEF h
      <4>2. h \notin R
        BY <3>2, <4>1
      <4>3. Differ(h + 1)
        BY <4>1, <4>2 DEF R
      <4> QED BY <4>1, <4>3
    <3>5. j < L => ~ Differ(j + 1)
      BY <1>1, <3>3
    <3> QED BY <3>3, <3>4, <3>5
  <2> HIDE DEF Differ, End, L, k
  <2>3. k \in 0..L /\ End(k)
    BY <2>1, <2>2
  <2>4. k # 0 => Differ(k)
    <3>1. k # 0 => k \in 1..k
      BY <1>1, <2>3
    <3> QED BY <2>3, <3>1 DEF End
  <2> QED BY <2>3, <2>4 DEF Differ
<1>7. Q \in Nat \ {0} /\ s \in Nat /\ S \in Nat \ {0} /\ T = Q * S /\ k \in Nat
  <2>1. s = L - k
    BY DEF sh_post
  <2> HIDE DEF L, k, s
  <2>2. k \in Nat /\ s \in Nat /\ k + s = L
    BY <1>1, <1>6, <2>1
  <2>3. TwoTo(k + s) = TwoTo(k) * TwoTo(s)
    BY <2>2, TwoToSum
  <2> QED BY <2>2, <2>3, TwoToFacts
<1>8. M \in Nat /\ M * Q <= high /\ M = high \div Q
  <2>1. M = high \div Q
    BY DEF m
  <2> HIDE DEF M, Q, high, k, T, P
  <2>2. high >= 0
    <3>1. 0 < (high + 1) * d
      BY <1>1, <1>2, <1>5
    <3>2. high + 1 <= 0 => (high + 1) * d <= 0
      BY <1>1, <1>5
    <3>3. (high + 1) * d \in Int
      BY <1>1, <1>5
    <3> QED BY <1>5, <3>1, <3>2, <3>3
  <2>3. M \in Nat /\ M <= high \div Q
    BY <1>5, <1>7, <2>1, <2>2
  <2> QED BY <1>5, <1>7, <2>1, <2>3, Quotients
<1>9. TwoTo(N) \in Nat
  BY <1>2
<1> HIDE DEF L, P, T, low, high, k, Q, M, s, S
<1>10. P <= (M * Q) * d
  <2>1. CASE k = 0
    <3>1. Q = 1
      BY <2>1, TwoToFacts DEF Q
    <3>2. M * Q = high
      BY <1>5, <1>8, <3>1
    <3>3. (high + 1) * d = high * d + d /\ high * d \in Int
      BY <1>1, <1>5
    <3> QED BY <1>1, <1>2, <1>5, <3>2, <3>3
  <2>2. CASE k # 0
    <3>1. low \div Q + 1 <= M /\ low \div Q \in Int
      BY <1>4, <1>6, <1>7, <1>8, <2>2
    <3>2. ~ (M <= low \div Q) /\ M \in Int
      BY <1>8, <3>1
    <3>3. ~ (M * Q <= low)
      BY <1>4, <1>7, <3>2, Quotients
    <3> DEFINE X == M * Q
               up == low + 1
    <3>4. X \in Int /\ up \in Int /\ up <= X
      BY <1>4, <1>7, <1>8, <3>3
    <3> HIDE DEF X, up
    <3>5. up * d <= X * d /\ up * d \in Int /\ X * d \in Int
      BY <1>1, <3>4, Grows
    <3> QED BY <1>2, <1>4, <3>5 DEF X, up
  <2> QED BY <2>1, <2>2
<1>11. (M * Q) * d <= P + T
  <2> DEFINE X == M * Q
  <2>1. X \in Int /\ X <= high
    BY <1>7, <1>8
  <2> HIDE DEF X
  <2>2. X * d <= high * d /\ X * d \in Int /\ high * d \in Int
    BY <1>1, <1>5, <2>1, Grows
  <2> QED BY <1>1, <1>2, <1>5, <2>2 DEF X
<1> DEFINE E == TwoTo(N)
           W == E * S
           Y == M * d
           V == W + S
<1>12. E \in Int /\ W \in Int /\ Y \in Int /\ V \in Int
  BY <1>1, <1>7, <1>8, <1>9
<1>13. P = W * Q /\ P + T = V * Q /\ (M * Q) * d = Y * Q
  <2>1. P = E * (Q * S)
    BY <1>2, <1>7
  <2> HIDE DEF E
  <2>2. E * (Q * S) = (E * S) * Q
    BY <1>7, <1>12
  <2>3. (W + S) * Q = W * Q + S * Q /\ S * Q = Q * S
    <3> HIDE DEF W
    <3> QED BY <1>7, <1>12
  <2>4. (M * Q) * d = (M * d) * Q
    BY <1>1, <1>7, <1>8
  <2> QED BY <1>7, <2>1, <2>2, <2>3, <2>4
<1> HIDE DEF E, W, Y, V
<1>14. W * Q <= Y * Q /\ Y * Q <= V * Q
  BY <1>10, <1>11, <1>13
<1>15. W <= Y
  <2>1. ~ (Y < W)
    <3>1. Y < W => Y * Q < W * Q
      BY <1>7, <1>12, Grows
    <3>2. Y * Q \in Int /\ W * Q \in Int
      BY <1>7, <1>12
    <3> QED BY <1>14, <3>1, <3>2
  <2> QED BY <1>12, <2>1
<1>16. Y <= V
  <2>1. ~ (V < Y)
    <3>1. V < Y => V * Q < Y * Q
      BY <1>7, <1>12, Grows
    <3>2. Y * Q \in Int /\ V * Q \in Int
      BY <1>7, <1>12
    <3> QED BY <1>14, <3>1, <3>2
  <2> QED BY <1>12, <2>1
<1> QED BY <1>7, <1>8, <1>15, <1>16 DEF W, Y, V, E, S, s, M

(***************************************************************************)
(* divide.                                                                 *)
(***************************************************************************)
(* The product of the factor and n, over TwoTo(N) * S, is n / d. *)
LEMMA ProductFacts ==
  ASSUME NEW d \in Nat \ {0}, NEW M \in Nat, NEW E \in Nat \ {0}, NEW S \in Nat \ {0},
         E * S <= M * d, M * d <= E * S + S, NEW n \in Nat, n < E
  PROVE  /\ (E * S) * (n \div d) <= M * n
         /\ M * n < (E * S) * (n \div d + 1)
<1> DEFINE W == E * S
           q == n \div d
           x == n % d
           Y == M * d
<1>1. q \in Nat /\ x \in 0..(d - 1) /\ n = d * q + x
  OBVIOUS
<1>2. W \in Nat \ {0} /\ Y \in Nat /\ W <= Y /\ Y <= W + S
  OBVIOUS
<1> HIDE DEF q, x
<1>3. W * q <= M * n
  <2>1. M * n = M * (d * q) + M * x /\ M * x >= 0 /\ M * (d * q) \in Int
    BY <1>1
  <2>2. M * (d * q) = Y * q
    BY <1>1
  <2> HIDE DEF W, Y
  <2>3. W * q <= Y * q /\ W * q \in Int /\ Y * q \in Int
    BY <1>1, <1>2, Grows
  <2> QED BY <1>1, <2>1, <2>2, <2>3
<1>4. M * n < W * (q + 1)
  <2> DEFINE Z == W * (q + 1)
             X == M * n
  <2>1. Z \in Int /\ X \in Int
    BY <1>1, <1>2
  <2>2. X * d = Y * n
    OBVIOUS
  <2>3. Y * n <= (W + S) * n /\ Y * n \in Int
    <3> DEFINE V == W + S
    <3>1. V \in Int /\ Y <= V
      BY <1>2
    <3> HIDE DEF Y, V
    <3> QED BY <1>2, <3>1, Grows DEF V
  <2>4. (W + S) * n = W * n + S * n /\ W * n \in Int /\ S * n \in Int
    BY <1>2
  <2>5. S * n < W
    <3>1. n * S < E * S
      BY Grows
    <3> QED BY <3>1
  <2>6. Z * d = W * (d * q + d)
    BY <1>1, <1>2
  <2>7. W * (d * q + d) >= W * (n + 1) /\ W * (n + 1) = W * n + W
    <3> DEFINE u == d * q + d
    <3>1. u \in Int /\ n + 1 <= u
      BY <1>1
    <3> HIDE DEF W, u
    <3>2. (n + 1) * W <= u * W
      BY <1>2, <3>1, Grows
    <3> QED BY <1>2, <3>1, <3>2 DEF u
  <2> HIDE DEF W, Y, Z, X
  <2>8. X * d < Z * d
    BY <1>1, <1>2, <2>1, <2>2, <2>3, <2>4, <2>5, <2>6, <2>7
  <2> QED BY <2>1, <2>8, Grows DEF X, Z
<1> QED BY <1>3, <1>4 DEF q

LEMMA ShiftsTwice ==
  ASSUME NEW p \in Int, NEW E \in Nat \ {0}, NEW S \in Nat \ {0}, NEW q \in Int,
         (E * S) * q <= p, p < (E * S) * (q + 1)
  PROVE  (p \div E) \div S = q
<1> DEFINE x == p \div E
           y == x \div S
           up == q + 1
<1>1. x \in Int /\ y \in Int /\ up \in Int
  OBVIOUS
<1>2. (E * S) * q = (q * S) * E /\ (E * S) * up = (up * S) * E
  OBVIOUS
<1>3. q * S \in Int /\ up * S \in Int /\ (up * S) * E \in Int
  OBVIOUS
<1>4. (q * S) * E <= p /\ ~ ((up * S) * E <= p)
  BY <1>2, <1>3
<1> HIDE DEF up, y
<1>5. q * S <= x /\ ~ (up * S <= x)
  <2> DEFINE v == q * S
             w == up * S
  <2> HIDE DEF v, w, x
  <2>1. v \in Int /\ w \in Int /\ v * E <= p /\ ~ (w * E <= p)
    BY <1>3, <1>4 DEF v, w
  <2>2. v <= p \div E /\ ~ (w <= p \div E)
    BY <2>1, Quotients
  <2> QED BY <2>2 DEF v, w, x
<1> HIDE DEF x
<1>6. q <= x \div S /\ ~ (up <= x \div S)
  BY <1>1, <1>5, Quotients
<1>7. q <= y /\ ~ (up <= y)
  BY <1>6 DEF y
<1>8. y = q
  BY <1>1, <1>7 DEF up
<1> QED BY <1>8 DEF y, x

LEMMA DivideIsExact ==
  ASSUME NEW d \in Divisors, dividesWell(d), NEW n \in Unsigned
  PROVE  divide(d, n) = n \div d
<1> DEFINE E == TwoTo(N)
           B == TwoTo(U)
           M == m(d)
           s == sh_post(d)
           S == TwoTo(s)
           q == n \div d
           f == factor(d)
           t == (f * n) \div E
<1>1. /\ E \in Nat \ {0} /\ B \in Nat \ {0} /\ E = 2 * B
      /\ M \in Nat /\ s \in Nat /\ S \in Nat \ {0} /\ d \in Nat \ {0}
      /\ n \in Nat /\ n < B
  BY WidthFacts, FactorFacts, CeilFacts, TwoToFacts DEF Unsigned, U
<1>2. E * S <= M * d /\ M * d <= E * S + S
  BY FactorFacts
<1>3. n < E
  BY <1>1
<1>4. f = IF M > E THEN M - E ELSE M
  BY DEF factor
<1>5. f * (B - 1) < B * B /\ (M > E => s > 0)
  BY WidthFacts DEF dividesWell, U
<1>6. f \in Nat
  BY <1>1, <1>4
<1>7. \A x \in 0..(B - 1) : Narrow(x) = x
  BY <1>1, Remainders DEF Narrow, U
<1>8. \A x \in 0..(B * B - 1) : Wide(x) = x
  <2> DEFINE C == B * B
  <2>1. C \in Nat \ {0} /\ C = TwoTo(2 * UnsignedBits)
    BY <1>1, WidthFacts DEF U
  <2> HIDE DEF C
  <2>2. \A x \in 0..(C - 1) : Wide(x) = x
    BY <2>1, Remainders DEF Wide
  <2> QED BY <2>2 DEF C
<1> HIDE DEF E, B, M, s, S, q, f, t
<1>9. f <= E
  <2>1. ASSUME f >= E + 1 PROVE FALSE
    <3>1. (B - 1) * (E + 1) <= f * (B - 1)
      <4> DEFINE b == B - 1
                 e == E + 1
      <4>1. b \in Nat /\ e \in Int /\ f \in Int /\ e <= f
        BY <1>1, <1>6, <2>1
      <4> HIDE DEF b, e
      <4>2. e * b <= f * b
        BY <4>1, Grows
      <4> QED BY <4>1, <4>2 DEF b, e
    <3>2. B >= 2 /\ (B - 1) * (E + 1) = B * E + B - E - 1 /\ B * E = 2 * (B * B)
      BY <1>1, WidthFacts DEF B
    <3>3. B * B >= B + 0 /\ B * B \in Int
      BY <1>1
    <3>4. f * (B - 1) \in Int /\ B * E \in Int
      BY <1>1, <1>6
    <3>5. B * B >= 2 * B
      BY <1>1, <3>2
    <3> QED BY <1>1, <1>5, <3>1, <3>2, <3>3, <3>4, <3>5
  <2> QED BY <1>1, <1>6, <2>1
<1>10. f * n \in 0..(B * B - 1)
  <2>1. n * f <= (B - 1) * f
    <3> DEFINE b == B - 1
    <3>1. b \in Int /\ n <= b
      BY <1>1
    <3> HIDE DEF b
    <3> QED BY <1>1, <1>6, <3>1, Grows DEF b
  <2>2. n * f = f * n /\ (B - 1) * f = f * (B - 1) /\ n * f \in Nat /\ (B - 1) * f \in Int
        /\ B * B \in Int
    BY <1>1, <1>6
  <2> HIDE DEF B
  <2> QED BY <1>5, <2>1, <2>2
<1>11. t \in 0..n
  <2>1. t \in Nat
    BY <1>1, <1>6 DEF t
  <2>2. ~ (n + 1 <= t)
    <3> DEFINE p == f * n
               up == n + 1
    <3>1. p \in Int /\ up \in Int
      BY <1>1, <1>6
    <3>2. p <= E * n
      BY <1>1, <1>6, <1>9, Grows
    <3>3. up * E = E * n + E /\ E * n \in Int
      BY <1>1
    <3> HIDE DEF p, up
    <3>4. ~ (up * E <= p)
      BY <1>1, <3>1, <3>2, <3>3
    <3>5. ~ (up <= p \div E)
      BY <1>1, <3>1, <3>4, Quotients
    <3> QED BY <3>5 DEF t, p, up
  <2> QED BY <1>1, <2>1, <2>2
<1>12. Narrow(Wide(f * n) \div E) = t
  <2>1. Wide(f * n) = f * n
    BY <1>8, <1>10
  <2>2. t \in 0..(B - 1)
    BY <1>1, <1>11
  <2> QED BY <1>7, <2>1, <2>2 DEF t
<1>13. q \in Int /\ (E * S) * q <= M * n /\ M * n < (E * S) * (q + 1)
  <2>1. (E * S) * (n \div d) <= M * n /\ M * n < (E * S) * (n \div d + 1)
    BY <1>1, <1>2, <1>3, ProductFacts
  <2> QED BY <1>1, <2>1 DEF q
<1>14. CASE ~ (M > E)
  <2>1. f = M
    BY <1>4, <1>14
  <2>2. t \div S = q
    <3> DEFINE p == M * n
    <3>1. p \in Int
      BY <1>1
    <3> HIDE DEF p
    <3>2. (p \div E) \div S = q
      BY <1>1, <1>13, <3>1, ShiftsTwice DEF p
    <3> QED BY <2>1, <3>2 DEF t, p
  <2>3. divide(d, n) = t \div S
    BY <1>12, <1>14 DEF divide, f, E, M, s, S
  <2> QED BY <2>2, <2>3 DEF q
<1>15. CASE M > E
  <2> DEFINE y == t + (n - t) \div 2
             H == TwoTo(s - 1)
             x == (M * n) \div E
  <2>1. s - 1 \in Nat /\ H \in Nat \ {0} /\ S = 2 * H
    <3> DEFINE r == s - 1
    <3>1. r \in Nat /\ r + 1 = s
      BY <1>1, <1>5, <1>15
    <3> HIDE DEF r
    <3>2. TwoTo(r) \in Nat \ {0} /\ TwoTo(r + 1) = 2 * TwoTo(r)
      BY <3>1, TwoToFacts
    <3> QED BY <3>1, <3>2 DEF r, S
  <2>2. Narrow(n - t) = n - t /\ Narrow(y) = y
    <3>1. n - t \in 0..(B - 1) /\ y \in 0..(B - 1)
      BY <1>1, <1>11
    <3> QED BY <1>7, <3>1
  <2>3. x = t + n
    <3>1. M = f + E
      BY <1>1, <1>4, <1>15
    <3>2. M * n = f * n + E * n
      BY <1>1, <1>6, <3>1
    <3> DEFINE p == f * n
               w == p % E
    <3>3. p \in Int /\ t = p \div E
      BY <1>1, <1>6 DEF t
    <3> HIDE DEF p
    <3>4. t \in Int /\ w \in 0..(E - 1) /\ p = E * t + w
      BY <1>1, <3>3, Division
    <3> HIDE DEF w
    <3>5. p + E * n = E * (t + n) + w
      BY <1>1, <3>4
    <3> DEFINE a == p + E * n
               z == a % E
               tn == t + n
    <3>6. a \in Int /\ tn \in Int
      BY <1>1, <3>3, <3>4
    <3>7. x = a \div E
      BY <3>2 DEF p
    <3> HIDE DEF a, x
    <3>8. x \in Int /\ z \in 0..(E - 1) /\ a = E * x + z
      BY <1>1, <3>6, <3>7, Division
    <3> HIDE DEF z, tn
    <3>9. E * x + z = E * tn + w
      BY <3>5, <3>8 DEF a, tn
    <3>10. x = tn
      BY <1>1, <3>4, <3>6, <3>8, <3>9, OneQuotient
    <3> QED BY <3>10 DEF tn
  <2>4. y = x \div 2
    <3> HIDE DEF x
    <3> QED BY <1>1, <1>11, <2>3
  <2>5. x \div S = q
    <3> DEFINE p == M * n
    <3>1. p \in Int
      BY <1>1
    <3> HIDE DEF p
    <3>2. (p \div E) \div S = q
      BY <1>1, <1>13, <3>1, ShiftsTwice DEF p
    <3> QED BY <3>2 DEF p
  <2>6. (x \div 2) \div H = q
    <3>1. x \in Int
      BY <1>1, <1>11, <2>3
    <3> HIDE DEF x, H
    <3> DEFINE two == 2
    <3>2. two \in Nat \ {0} /\ S = two * H
      BY <2>1
    <3> HIDE DEF two
    <3> DEFINE w == x % S
    <3>3. w \in 0..(S - 1) /\ x = S * q + w
      BY <1>1, <2>5, <3>1, Division
    <3>4. S * (q + 1) = S * q + S /\ S * q \in Int
      BY <1>1, <1>13
    <3>5. (two * H) * q <= x /\ x < (two * H) * (q + 1)
      BY <1>1, <3>1, <3>2, <3>3, <3>4
    <3>6. (x \div two) \div H = q
      BY <1>13, <2>1, <3>1, <3>2, <3>5, ShiftsTwice
    <3> QED BY <3>6 DEF two
  <2>7. divide(d, n) = y \div H
    <3>1. divide(d, n) = Narrow(t + Narrow(n - t) \div 2) \div H
      BY <1>12, <1>15 DEF divide, f, E, M, s
    <3> QED BY <2>2, <3>1
  <2> QED BY <2>4, <2>6, <2>7 DEF q
<1> QED BY <1>14, <1>15

(***************************************************************************)
(* mean.                                                                   *)
(***************************************************************************)
LEMMA MeanIsExact ==
  ASSUME NEW x \in Int, NEW y \in Int
  PROVE  /\ meanUnsigned(x, y) = (x + y) \div 2
         /\ meanSigned(x, y) = (x + y) \div 2
<1>1. meanUnsigned(x, y) = (x + y) \div 2
  <2>1. x % 2 \in {0, 1} /\ y % 2 \in {0, 1}
    OBVIOUS
  <2>2. (x % 2) * (y % 2) = IF x % 2 = 1 /\ y % 2 = 1 THEN 1 ELSE 0
    BY <2>1
  <2> QED BY <2>1, <2>2 DEF meanUnsigned
<1>2. meanSigned(x, y) = (x + y) \div 2
  BY DEF meanSigned, Half
<1> QED BY <1>1, <1>2

(***************************************************************************)
(* AnswersAreExact.                                                        *)
(***************************************************************************)
(* divide<d>(n) is n / d (fast_division.h:79-102), for every width of      *)
(* unsigned, every divisor and every n, where the product does not wrap    *)
(* and no shift is by -1; mean (math_utils.h:67-75) of any two numbers     *)
(* whose difference does not overflow is their mean.                       *)
THEOREM AnswersAreExactAlways ==
  ASSUME ~ DivideDefects, ~ MeanDefects
  PROVE  (\E in \in ArithmeticInputs : ArithmeticStart(in)) /\ [][ArithmeticNext]_arithmeticVars
           => []AnswersAreExact
<1> DEFINE Start == \E in \in ArithmeticInputs : ArithmeticStart(in)
           IInv == operation \in ArithmeticInputs /\ AnswersAreExact
<1>1. Start => IInv
  BY DEF ArithmeticStart, AnswersAreExact
<1>2. IInv /\ [ArithmeticNext]_arithmeticVars => IInv'
  <2> SUFFICES ASSUME IInv, [ArithmeticNext]_arithmeticVars PROVE IInv'
    OBVIOUS
  <2>1. CASE UNCHANGED arithmeticVars
    BY <2>1 DEF arithmeticVars, AnswersAreExact
  <2>2. CASE callDivide
    <3>1. /\ operation.function = "divide" /\ operation' = operation
          /\ answer' = <<divide(operation.args[1], operation.args[2])>>
          /\ dividesWell(operation.args[1])
      BY <2>2 DEF callDivide, Answer
    <3>2. operation.args[1] \in Divisors /\ operation.args[2] \in Unsigned
      BY <3>1 DEF ArithmeticInputs
    <3>3. divide(operation.args[1], operation.args[2]) = operation.args[2] \div operation.args[1]
      BY <3>1, <3>2, DivideIsExact
    <3> QED BY <3>1, <3>3 DEF AnswersAreExact
  <2>3. CASE callMean
    <3>1. /\ operation.function \in {"meanUnsigned", "meanSigned"} /\ operation' = operation
          /\ \/ answer' = <<meanUnsigned(operation.args[1], operation.args[2])>>
             \/ answer' = <<meanSigned(operation.args[1], operation.args[2])>>
      BY <2>3 DEF callMean, Answer
    <3>2. operation.args[1] \in Int /\ operation.args[2] \in Int
      <4>1. TwoTo(UnsignedBits) \in Int /\ TwoTo(UnsignedBits - 1) \in Int
        BY WidthFacts DEF U
      <4>2. \A x \in Unsigned \cup Signed : x \in Int
        BY <4>1 DEF Unsigned, Signed
      <4>3. /\ operation.args[1] \in Unsigned \cup Signed
            /\ operation.args[2] \in Unsigned \cup Signed
        BY <3>1 DEF ArithmeticInputs
      <4> QED BY <4>2, <4>3
    <3>3. answer' = <<(operation.args[1] + operation.args[2]) \div 2>>
      BY <3>1, <3>2, MeanIsExact
    <3> QED BY <3>1, <3>3 DEF AnswersAreExact
  <2> QED BY <2>1, <2>2, <2>3 DEF ArithmeticNext
<1>3. IInv => AnswersAreExact
  OBVIOUS
<1> HIDE DEF IInv, Start
<1>4. Start /\ [][ArithmeticNext]_arithmeticVars => []AnswersAreExact
  BY <1>1, <1>2, <1>3, PTL
<1> QED BY <1>4 DEF Start

(***************************************************************************)
(* Bits.                                                                   *)
(***************************************************************************)
CRCs == SUBSET (0..63)

LEMMA XorIs ==
  ASSUME NEW a, NEW b, NEW p
  PROVE  p \in Xor(a, b) <=> (p \in a /\ p \notin b) \/ (p \notin a /\ p \in b)
  BY DEF Xor

LEMMA XorLaws ==
  ASSUME NEW a, NEW b, NEW c
  PROVE  /\ Xor(a, b) = Xor(b, a) /\ Xor({}, a) = a /\ Xor(a, {}) = a
         /\ Xor(Xor(a, b), c) = Xor(a, Xor(b, c))
<1>1. Xor(a, b) = Xor(b, a) /\ Xor({}, a) = a /\ Xor(a, {}) = a
  BY DEF Xor
<1>2. ASSUME NEW p PROVE p \in Xor(Xor(a, b), c) <=> p \in Xor(a, Xor(b, c))
  BY XorIs
<1> QED BY <1>1, <1>2

LEMMA ShrIs ==
  ASSUME NEW c \in SUBSET Nat, NEW n \in Nat, NEW p
  PROVE  p \in Shr(c, n) <=> p \in Nat /\ p + n \in c
<1>1. ASSUME p \in Shr(c, n) PROVE p \in Nat /\ p + n \in c
  <2>1. PICK q \in c : q >= n /\ p = q - n
    BY <1>1 DEF Shr
  <2> QED BY <2>1
<1>2. ASSUME p \in Nat, p + n \in c PROVE p \in Shr(c, n)
  <2>1. p + n >= n /\ p = (p + n) - n
    BY <1>2
  <2> QED BY <1>2, <2>1 DEF Shr
<1> QED BY <1>1, <1>2

LEMMA BitTypes ==
  /\ \A a, b \in CRCs : Xor(a, b) \in CRCs
  /\ \A c \in CRCs, n \in Nat : Shr(c, n) \in CRCs /\ c \in SUBSET Nat
  /\ polynome \in CRCs /\ {} \in CRCs
  /\ \A x \in Octets : x \in CRCs
  /\ \A c \in CRCs : Low(c) \in Octets
<1>1. ASSUME NEW c \in CRCs, NEW n \in Nat PROVE Shr(c, n) \in CRCs /\ c \in SUBSET Nat
  <2>1. c \in SUBSET Nat
    BY DEF CRCs
  <2>2. ASSUME NEW p \in Shr(c, n) PROVE p \in 0..63
    <3>1. p \in Nat /\ p + n \in 0..63
      BY <2>1, ShrIs DEF CRCs
    <3> QED BY <3>1
  <2> QED BY <2>1, <2>2 DEF CRCs
<1>2. polynome \in CRCs
  BY DEF polynome, CRCs
<1>3. \A a, b \in CRCs : Xor(a, b) \in CRCs
  BY DEF Xor, CRCs
<1> QED BY <1>1, <1>2, <1>3 DEF CRCs, Octets, Low

LEMMA ShrXor ==
  ASSUME NEW a \in SUBSET Nat, NEW b \in SUBSET Nat, NEW n \in Nat
  PROVE  Shr(Xor(a, b), n) = Xor(Shr(a, n), Shr(b, n))
<1>1. Xor(a, b) \in SUBSET Nat
  BY DEF Xor
<1>2. ASSUME NEW p PROVE p \in Shr(Xor(a, b), n) <=> p \in Xor(Shr(a, n), Shr(b, n))
  BY <1>1, ShrIs, XorIs
<1> QED BY <1>2

LEMMA ShrShr ==
  ASSUME NEW c \in SUBSET Nat, NEW k \in Nat, NEW n \in Nat
  PROVE  Shr(Shr(c, k), n) = Shr(c, k + n)
<1>1. Shr(c, k) \in SUBSET Nat
  BY ShrIs
<1>2. ASSUME NEW p PROVE p \in Shr(Shr(c, k), n) <=> p \in Shr(c, k + n)
  <2>1. p \in Shr(Shr(c, k), n) <=> p \in Nat /\ p + n \in Shr(c, k)
    BY <1>1, ShrIs
  <2>2. p + n \in Shr(c, k) <=> p + n \in Nat /\ (p + n) + k \in c
    BY ShrIs
  <2>3. p \in Nat => p + n \in Nat /\ (p + n) + k = p + (k + n)
    OBVIOUS
  <2>4. p \in Shr(c, k + n) <=> p \in Nat /\ p + (k + n) \in c
    BY ShrIs
  <2> QED BY <2>1, <2>2, <2>3, <2>4
<1> QED BY <1>2

LEMMA ShrZero == ASSUME NEW c \in SUBSET Nat PROVE Shr(c, 0) = c
<1>1. ASSUME NEW p PROVE p \in Shr(c, 0) <=> p \in c
  <2>1. p \in Shr(c, 0) <=> p \in Nat /\ p + 0 \in c
    BY ShrIs
  <2>2. p \in Nat => p + 0 = p
    OBVIOUS
  <2>3. p \in c => p \in Nat
    OBVIOUS
  <2> QED BY <2>1, <2>2, <2>3
<1> QED BY <1>1

(* The bits of an octet and the others. *)
LEMMA LowAndRest ==
  ASSUME NEW c \in CRCs
  PROVE  /\ c \ 0..7 \in CRCs /\ c = Xor(c \ 0..7, Low(c))
         /\ Shr(c, 8) = Shr(c \ 0..7, 8)
<1>1. c \ 0..7 \in CRCs /\ c = Xor(c \ 0..7, Low(c))
  BY DEF Xor, Low, CRCs
<1>2. ASSUME NEW p PROVE p \in Shr(c, 8) <=> p \in Shr(c \ 0..7, 8)
  <2>1. p \in Nat => p + 8 \notin 0..7
    OBVIOUS
  <2>2. c \in SUBSET Nat /\ c \ 0..7 \in SUBSET Nat
    BY DEF CRCs
  <2>3. p \in Shr(c, 8) <=> p \in Nat /\ p + 8 \in c
    BY <2>2, ShrIs
  <2>4. p \in Shr(c \ 0..7, 8) <=> p \in Nat /\ p + 8 \in c \ 0..7
    BY <2>2, ShrIs
  <2> QED BY <2>1, <2>3, <2>4
<1> QED BY <1>1, <1>2

(***************************************************************************)
(* One bit, one octet, several octets.  Each is linear.                    *)
(***************************************************************************)
LEMMA StepLinear ==
  ASSUME NEW a \in CRCs, NEW b \in CRCs
  PROVE  /\ tableValLoop(a) \in CRCs
         /\ tableValLoop(Xor(a, b)) = Xor(tableValLoop(a), tableValLoop(b))
<1> DEFINE Top(c) == IF 0 \in c THEN polynome ELSE {}
<1>1. \A c \in CRCs : tableValLoop(c) = Xor(Shr(c, 1), Top(c))
  BY XorLaws DEF tableValLoop
<1>2. Xor(a, b) \in CRCs /\ Shr(Xor(a, b), 1) = Xor(Shr(a, 1), Shr(b, 1))
  BY ShrXor, BitTypes
<1>3. Top(Xor(a, b)) = Xor(Top(a), Top(b))
  <2>1. 0 \in Xor(a, b) <=> (0 \in a /\ 0 \notin b) \/ (0 \notin a /\ 0 \in b)
    BY XorIs
  <2>2. Xor(polynome, polynome) = {} /\ Xor({}, {}) = {}
    BY DEF Xor
  <2> QED BY <2>1, <2>2, XorLaws
<1> HIDE DEF Top
<1>4. ASSUME NEW x, NEW y, NEW z, NEW w PROVE Xor(Xor(x, y), Xor(z, w)) = Xor(Xor(x, z), Xor(y, w))
  BY XorIs
<1>5. tableValLoop(a) \in CRCs
  BY BitTypes DEF tableValLoop
<1> QED BY <1>1, <1>2, <1>3, <1>4, <1>5

ByOctet(c) ==
  tableValLoop(tableValLoop(tableValLoop(tableValLoop(
    tableValLoop(tableValLoop(tableValLoop(tableValLoop(c))))))))

LEMMA OctetLinear ==
  ASSUME NEW a \in CRCs, NEW b \in CRCs
  PROVE  /\ ByOctet(a) \in CRCs
         /\ ByOctet(Xor(a, b)) = Xor(ByOctet(a), ByOctet(b))
<1> DEFINE L(c) == tableValLoop(c)
<1>1. \A x, y \in CRCs : L(x) \in CRCs /\ L(Xor(x, y)) = Xor(L(x), L(y))
  BY StepLinear
<1>2. ByOctet(a) = L(L(L(L(L(L(L(L(a))))))))
      /\ ByOctet(b) = L(L(L(L(L(L(L(L(b))))))))
      /\ ByOctet(Xor(a, b)) = L(L(L(L(L(L(L(L(Xor(a, b)))))))))
  BY DEF ByOctet
<1> HIDE DEF L
<1> QED BY <1>1, <1>2

(* Nothing but a shift happens while the lowest bits are zeros. *)
LEMMA ByOctetShifts ==
  ASSUME NEW c \in CRCs, c \cap 0..7 = {}
  PROVE  ByOctet(c) = Shr(c, 8)
<1> DEFINE L(x) == tableValLoop(x)
<1>1. c \in SUBSET Nat
  BY BitTypes
<1>2. ASSUME NEW k \in 0..7 PROVE L(Shr(c, k)) = Shr(c, k + 1)
  <2>1. 0 \in Shr(c, k) <=> 0 + k \in c
    BY <1>1, ShrIs
  <2>2. 0 + k \notin c
    OBVIOUS
  <2>3. Shr(Shr(c, k), 1) = Shr(c, k + 1)
    BY <1>1, ShrShr
  <2> QED BY <2>1, <2>2, <2>3 DEF tableValLoop
<1>3. Shr(c, 0) = c
  BY <1>1, ShrZero
<1>4. ByOctet(c) = L(L(L(L(L(L(L(L(c))))))))
  BY DEF ByOctet
<1> HIDE DEF L
<1>5. /\ L(Shr(c, 0)) = Shr(c, 1) /\ L(Shr(c, 1)) = Shr(c, 2) /\ L(Shr(c, 2)) = Shr(c, 3)
      /\ L(Shr(c, 3)) = Shr(c, 4) /\ L(Shr(c, 4)) = Shr(c, 5) /\ L(Shr(c, 5)) = Shr(c, 6)
      /\ L(Shr(c, 6)) = Shr(c, 7) /\ L(Shr(c, 7)) = Shr(c, 8)
  BY <1>2
<1> QED BY <1>3, <1>4, <1>5

LEMMA ByOctetSplits ==
  ASSUME NEW c \in CRCs
  PROVE  ByOctet(c) = Xor(Shr(c, 8), ByOctet(Low(c)))
<1>1. c \ 0..7 \in CRCs /\ Low(c) \in CRCs
  BY LowAndRest, BitTypes
<1>2. ByOctet(c) = Xor(ByOctet(c \ 0..7), ByOctet(Low(c)))
  BY <1>1, LowAndRest, OctetLinear
<1>3. ByOctet(c \ 0..7) = Shr(c \ 0..7, 8)
  BY <1>1, ByOctetShifts
<1> QED BY <1>2, <1>3, LowAndRest

(* The loop of tableVal. *)
LEMMA tableValIs == ASSUME NEW x \in Octets PROVE tableVal(x) = ByOctet(x)
<1> DEFINE g == [k \in 1..8 |-> [c \in CRCs |-> tableValLoop(c)]]
           after == CHOOSE f : f = [n \in 0..8 |-> IF n = 0 THEN x ELSE tableValLoop(f[n - 1])]
<1>1. x \in CRCs /\ g \in [1..8 -> [CRCs -> CRCs]]
  BY BitTypes, StepLinear
<1>2. PICK f : Iterates(f, 8, CRCs, x, g)
  <2>1. 8 \in Nat
    OBVIOUS
  <2> HIDE DEF g
  <2> QED BY <1>1, <2>1, IterationExists
<1>3. f \in [0..8 -> CRCs] /\ f[0] = x
      /\ \A k \in 1..8 : f[k - 1] \in CRCs /\ f[k] = tableValLoop(f[k - 1])
  BY <1>2 DEF Iterates
<1>4. f = [n \in 0..8 |-> IF n = 0 THEN x ELSE tableValLoop(f[n - 1])]
  BY <1>3
<1>5. after = [n \in 0..8 |-> IF n = 0 THEN x ELSE tableValLoop(after[n - 1])]
  BY <1>4
<1>6. tableVal(x) = after[8]
  BY DEF tableVal
<1> HIDE DEF after
<1>7. after[0] = x /\ \A k \in 1..8 : after[k] = tableValLoop(after[k - 1])
  BY <1>5
<1> QED BY <1>6, <1>7 DEF ByOctet

LEMMA StepIs ==
  ASSUME NEW c \in CRCs, NEW x \in Octets
  PROVE  crc64ReverseStep(c, x) = ByOctet(Xor(c, x))
<1> DEFINE z == Xor(c, x)
<1>1. z \in CRCs /\ Low(z) \in Octets /\ Xor(x, c) = z
  BY BitTypes, XorLaws
<1>2. Shr(z, 8) = Shr(c, 8)
  <2>1. Shr(z, 8) = Xor(Shr(c, 8), Shr(x, 8))
    BY ShrXor, BitTypes
  <2>2. Shr(x, 8) = {}
    <3>1. {q \in x : q >= 8} = {}
      <4>1. ASSUME NEW q \in x PROVE q \in 0..7
        BY DEF Octets
      <4>2. ASSUME NEW q \in x PROVE ~(q >= 8)
        BY <4>1
      <4> QED BY <4>2
    <3> QED BY <3>1 DEF Shr
  <2> QED BY <2>1, <2>2, XorLaws
<1>3. lookupTable[Low(z)] = ByOctet(Low(z))
  BY <1>1, tableValIs DEF lookupTable
<1>4. ByOctet(z) = Xor(Shr(z, 8), ByOctet(Low(z)))
  BY <1>1, ByOctetSplits
<1> QED BY <1>1, <1>2, <1>3, <1>4 DEF crc64ReverseStep

(* F[k] is k octets of zeros. *)
Zeros(F) ==
  F \in [0..8 -> [CRCs -> CRCs]]
  /\ \A c \in CRCs : F[0][c] = c /\ \A k \in 1..8 : F[k][c] = ByOctet(F[k - 1][c])

LEMMA ZerosExist == \E F : Zeros(F)
<1> DEFINE V == [CRCs -> CRCs]
           g == [k \in 1..8 |-> [h \in V |-> [c \in CRCs |-> ByOctet(h[c])]]]
           id == [c \in CRCs |-> c]
<1>1. id \in V /\ 8 \in Nat
  OBVIOUS
<1>2. g \in [1..8 -> [V -> V]]
  <2>1. \A h \in V : [c \in CRCs |-> ByOctet(h[c])] \in V
    BY OctetLinear
  <2> HIDE DEF V
  <2> QED BY <2>1
<1>3. PICK F : Iterates(F, 8, V, id, g)
  <2> HIDE DEF V, id, g
  <2> QED BY <1>1, <1>2, IterationExists
<1>4. F \in [0..8 -> V] /\ F[0] = id /\ \A k \in 1..8 : F[k] = g[k][F[k - 1]] /\ F[k - 1] \in V
  BY <1>3 DEF Iterates
<1>5. \A k \in 1..8 : F[k] = [c \in CRCs |-> ByOctet(F[k - 1][c])]
  <2> HIDE DEF V
  <2> QED BY <1>4
<1> QED BY <1>4, <1>5 DEF Zeros

LEMMA ZerosLinear ==
  ASSUME NEW F, Zeros(F), NEW k \in 0..8, NEW a \in CRCs, NEW b \in CRCs
  PROVE  F[k][a] \in CRCs /\ F[k][Xor(a, b)] = Xor(F[k][a], F[k][b])
<1> DEFINE T == {j \in 0..8 : F[j][a] \in CRCs /\ F[j][b] \in CRCs
                              /\ F[j][Xor(a, b)] = Xor(F[j][a], F[j][b])}
<1>1. 0 \in T
  BY BitTypes DEF Zeros
<1>2. ASSUME NEW j \in 0..(8 - 1), j \in T PROVE j + 1 \in T
  <2>1. Xor(a, b) \in CRCs /\ F[j][a] \in CRCs /\ F[j][b] \in CRCs
        /\ F[j][Xor(a, b)] = Xor(F[j][a], F[j][b])
    BY <1>2, BitTypes
  <2>2. j + 1 \in 1..8 /\ j + 1 \in 0..8 /\ (j + 1) - 1 = j
    OBVIOUS
  <2>3. \A c \in CRCs : F[j + 1][c] = ByOctet(F[j][c])
    BY <2>2 DEF Zeros
  <2> QED BY <2>1, <2>2, <2>3, OctetLinear
<1>3. \A j \in 0..8 : j \in T
  <2>1. 8 \in Nat
    OBVIOUS
  <2> HIDE DEF T
  <2> QED BY <1>1, <1>2, <2>1, Induction
<1> QED BY <1>3

LEMMA ZerosCommute ==
  ASSUME NEW F, Zeros(F), NEW k \in 0..7, NEW a \in CRCs
  PROVE  F[k + 1][a] = F[k][ByOctet(a)]
<1> DEFINE T == {j \in 0..7 : F[j + 1][a] = F[j][ByOctet(a)]}
<1>0. ByOctet(a) \in CRCs
  BY OctetLinear
<1>1. 0 \in T
  BY <1>0 DEF Zeros
<1>2. ASSUME NEW j \in 0..(7 - 1), j \in T PROVE j + 1 \in T
  <2>2. j + 1 \in 1..8 /\ j + 2 \in 1..8 /\ (j + 2) - 1 = j + 1 /\ (j + 1) - 1 = j
        /\ j + 1 \in 0..7 /\ (j + 1) + 1 = j + 2
    OBVIOUS
  <2>3. \A c \in CRCs : F[j + 1][c] = ByOctet(F[j][c]) /\ F[j + 2][c] = ByOctet(F[j + 1][c])
    BY <2>2 DEF Zeros
  <2> QED BY <1>0, <1>2, <2>2, <2>3
<1>3. \A j \in 0..7 : j \in T
  <2>1. 7 \in Nat
    OBVIOUS
  <2> HIDE DEF T
  <2> QED BY <1>1, <1>2, <2>1, Induction
<1> QED BY <1>3

(* Each table is one octet longer than the one before. *)
LEMMA TablesAre ==
  ASSUME NEW F, Zeros(F), NEW k \in 1..8, NEW x \in Octets
  PROVE  Tables[k][x] = F[k][x]
<1>1. \A v \in CRCs : Longer0(v) = ByOctet(v)
  BY ByOctetSplits, tableValIs, BitTypes DEF Longer0
<1>2. x \in CRCs /\ F[0][x] = x /\ \A j \in 0..8 : F[j][x] \in CRCs
  BY BitTypes, ZerosLinear DEF Zeros
<1>3. /\ F[1][x] = ByOctet(F[0][x]) /\ F[2][x] = ByOctet(F[1][x]) /\ F[3][x] = ByOctet(F[2][x])
      /\ F[4][x] = ByOctet(F[3][x]) /\ F[5][x] = ByOctet(F[4][x]) /\ F[6][x] = ByOctet(F[5][x])
      /\ F[7][x] = ByOctet(F[6][x]) /\ F[8][x] = ByOctet(F[7][x])
  BY <1>2 DEF Zeros
<1>4. tableVal(x) = F[1][x]
  BY <1>2, <1>3, tableValIs
<1>5. tableVal2(x) = F[2][x]
  BY <1>1, <1>2, <1>3, <1>4 DEF tableVal2
<1>6. tableVal3(x) = F[3][x]
  BY <1>1, <1>2, <1>3, <1>5 DEF tableVal3
<1>7. tableVal4(x) = F[4][x]
  BY <1>1, <1>2, <1>3, <1>6 DEF tableVal4
<1>8. tableVal5(x) = F[5][x]
  BY <1>1, <1>2, <1>3, <1>7 DEF tableVal5
<1>9. tableVal6(x) = F[6][x]
  BY <1>1, <1>2, <1>3, <1>8 DEF tableVal6
<1>10. tableVal7(x) = F[7][x]
  BY <1>1, <1>2, <1>3, <1>9 DEF tableVal7
<1>11. tableVal8(x) = F[8][x]
  BY <1>1, <1>2, <1>3, <1>10 DEF tableVal8
<1>12. /\ Tables[1][x] = tableVal(x) /\ Tables[2][x] = tableVal2(x)
       /\ Tables[3][x] = tableVal3(x) /\ Tables[4][x] = tableVal4(x)
       /\ Tables[5][x] = tableVal5(x) /\ Tables[6][x] = tableVal6(x)
       /\ Tables[7][x] = tableVal7(x) /\ Tables[8][x] = tableVal8(x)
  BY DEF Tables, lookupTable, lookupTable2, lookupTable3, lookupTable4, lookupTable5,
         lookupTable6, lookupTable7, lookupTable8
<1> QED BY <1>4, <1>5, <1>6, <1>7, <1>8, <1>9, <1>10, <1>11, <1>12

(* What the tables give for the first octets of z, and what is left of z.  *)
Indexes(z, n) == [j \in 1..n |-> Low(Shr(z, 8 * (j - 1)))]

LEMMA LookupUnfolds ==
  ASSUME NEW n \in 1..8, NEW x \in [1..n -> Octets]
  PROVE  \E f \in [0..n -> CRCs] :
           /\ f[0] = {} /\ \A k \in 1..n : f[k] = Xor(f[k - 1], Tables[n + 1 - k][x[k]])
           /\ Lookup(x) = f[n]
<1> DEFINE g == [k \in 1..n |-> [c \in CRCs |-> Xor(c, Tables[n + 1 - k][x[k]])]]
           found == CHOOSE f : f = [j \in 0..n |->
                      IF j = 0 THEN {} ELSE Xor(f[j - 1], Tables[n + 1 - j][x[j]])]
<1>1. PICK F : Zeros(F)
  BY ZerosExist
<1>2. ASSUME NEW k \in 1..n PROVE Tables[n + 1 - k][x[k]] \in CRCs
  <2>1. n + 1 - k \in 1..8 /\ n + 1 - k \in 0..8 /\ x[k] \in Octets
    OBVIOUS
  <2>2. x[k] \in CRCs
    BY <2>1, BitTypes
  <2>3. F[n + 1 - k][x[k]] \in CRCs
    BY <1>1, <2>1, <2>2, ZerosLinear
  <2> QED BY <1>1, <2>1, <2>3, TablesAre
<1>3. g \in [1..n -> [CRCs -> CRCs]]
  BY <1>2, BitTypes
<1>4. PICK f : Iterates(f, n, CRCs, {}, g)
  <2>1. {} \in CRCs /\ n \in Nat
    BY BitTypes
  <2> HIDE DEF g
  <2> QED BY <1>3, <2>1, IterationExists
<1>5. f \in [0..n -> CRCs] /\ f[0] = {}
      /\ \A k \in 1..n : f[k - 1] \in CRCs /\ f[k] = g[k][f[k - 1]]
  <2> HIDE DEF g
  <2> QED BY <1>4 DEF Iterates
<1>6. \A k \in 1..n : f[k] = Xor(f[k - 1], Tables[n + 1 - k][x[k]])
  BY <1>5
<1>7. f = [j \in 0..n |-> IF j = 0 THEN {} ELSE Xor(f[j - 1], Tables[n + 1 - j][x[j]])]
  BY <1>5, <1>6
<1>8. found = [j \in 0..n |-> IF j = 0 THEN {} ELSE Xor(found[j - 1], Tables[n + 1 - j][x[j]])]
  BY <1>7
<1>9. Len(x) = n
  BY DEF Octets
<1>10. Lookup(x) = found[n]
  BY <1>9 DEF Lookup
<1> HIDE DEF found
<1>11. \A k \in 0..n : found[k] \in CRCs
  <2> DEFINE T == {k \in 0..n : found[k] \in CRCs}
  <2>1. 0 \in T
    BY <1>8, BitTypes
  <2>2. ASSUME NEW k \in 0..(n - 1), k \in T PROVE k + 1 \in T
    <3>1. k + 1 \in 1..n /\ k + 1 # 0 /\ (k + 1) - 1 = k /\ k + 1 \in 0..n
      OBVIOUS
    <3>2. found[k + 1] = Xor(found[k], Tables[n + 1 - (k + 1)][x[k + 1]])
      BY <1>8, <3>1
    <3> QED BY <1>2, <2>2, <3>1, <3>2, BitTypes
  <2>3. n \in Nat
    OBVIOUS
  <2> HIDE DEF T
  <2>4. \A k \in 0..n : k \in T
    BY <2>1, <2>2, <2>3, Induction
  <2> QED BY <2>4 DEF T
<1>12. found \in [0..n -> CRCs] /\ found[0] = {}
       /\ \A k \in 1..n : found[k] = Xor(found[k - 1], Tables[n + 1 - k][x[k]])
  <2>1. DOMAIN found = 0..n /\ found[0] = {}
    BY <1>8
  <2>2. found = [k \in 0..n |-> found[k]]
    BY <1>8
  <2>3. ASSUME NEW k \in 1..n PROVE found[k] = Xor(found[k - 1], Tables[n + 1 - k][x[k]])
    <3>1. k \in 0..n /\ k # 0
      OBVIOUS
    <3> QED BY <1>8, <3>1
  <2> QED BY <1>11, <2>1, <2>2, <2>3
<1> QED BY <1>10, <1>12

LEMMA LookupIs ==
  ASSUME NEW F, Zeros(F), NEW n \in 1..8, NEW z \in CRCs
  PROVE  F[n][z] = Xor(Lookup(Indexes(z, n)), Shr(z, 8 * n))
<1> DEFINE x == Indexes(z, n)
           Z(k) == Shr(z, 8 * k)
<1>1. ASSUME NEW k \in Nat PROVE Z(k) \in CRCs /\ Z(k) \in SUBSET Nat /\ Low(Z(k)) \in Octets
  BY BitTypes
<1>2. x \in [1..n -> Octets] /\ \A k \in 1..n : x[k] = Low(Z(k - 1))
  <2>1. ASSUME NEW k \in 1..n PROVE k - 1 \in Nat
    OBVIOUS
  <2> HIDE DEF Z
  <2>2. \A k \in 1..n : Low(Z(k - 1)) \in Octets
    BY <1>1, <2>1
  <2>3. x = [k \in 1..n |-> Low(Z(k - 1))]
    BY DEF Indexes, Z
  <2> QED BY <2>2, <2>3
<1>3. ASSUME NEW k \in Nat PROVE Shr(Z(k), 8) = Z(k + 1)
  <2>1. 8 * k \in Nat /\ (8 * k) + 8 = 8 * (k + 1) /\ 8 \in Nat /\ z \in SUBSET Nat
    BY DEF CRCs
  <2> QED BY <2>1, ShrShr
<1>4. Z(0) = z
  <2>1. 8 * 0 = 0 /\ z \in SUBSET Nat
    BY DEF CRCs
  <2> QED BY <2>1, ShrZero
<1> HIDE DEF x, Z
<1>5. PICK f \in [0..n -> CRCs] :
        /\ f[0] = {} /\ \A k \in 1..n : f[k] = Xor(f[k - 1], Tables[n + 1 - k][x[k]])
        /\ Lookup(x) = f[n]
  BY <1>2, LookupUnfolds
<1> DEFINE T == {k \in 0..n : F[n][z] = Xor(f[k], F[n - k][Z(k)])}
<1>6. 0 \in T
  <2>1. n - 0 = n /\ 0 \in 0..n
    OBVIOUS
  <2> QED BY <1>4, <1>5, <2>1, XorLaws
<1>7. ASSUME NEW k \in 0..(n - 1), k \in T PROVE k + 1 \in T
  <2> DEFINE r == n - (k + 1)
  <2>1. k \in Nat /\ k + 1 \in 1..n /\ (k + 1) - 1 = k /\ r \in 0..7 /\ n - k = r + 1
        /\ n + 1 - (k + 1) = r + 1 /\ r + 1 \in 1..8 /\ r + 1 \in 0..8 /\ r \in 0..8
        /\ k + 1 \in 0..n
    OBVIOUS
  <2> HIDE DEF r
  <2>2. Z(k) \in CRCs /\ Low(Z(k)) \in CRCs /\ Low(Z(k)) \in Octets /\ Z(k + 1) \in CRCs
    BY <1>1, <2>1, BitTypes
  <2>3. ByOctet(Z(k)) = Xor(Z(k + 1), ByOctet(Low(Z(k))))
    BY <1>3, <2>1, <2>2, ByOctetSplits
  <2>4. F[r + 1][Z(k)] = F[r][ByOctet(Z(k))]
    BY <2>1, <2>2, ZerosCommute
  <2>5. ByOctet(Low(Z(k))) \in CRCs
    BY <2>2, OctetLinear
  <2>6. F[r][ByOctet(Z(k))] = Xor(F[r][Z(k + 1)], F[r][ByOctet(Low(Z(k)))])
    BY <2>1, <2>2, <2>3, <2>5, ZerosLinear
  <2>7. F[r][ByOctet(Low(Z(k)))] = F[r + 1][Low(Z(k))]
    BY <2>1, <2>2, ZerosCommute
  <2>8. Tables[r + 1][x[k + 1]] = F[r + 1][Low(Z(k))]
    <3>1. x[k + 1] = Low(Z(k))
      BY <1>2, <2>1
    <3> QED BY <3>1, <2>1, <2>2, TablesAre
  <2>9. f[k + 1] = Xor(f[k], F[r + 1][Low(Z(k))])
    BY <1>5, <2>1, <2>8
  <2>10. F[n][z] = Xor(f[k], F[r + 1][Z(k)])
    BY <1>7, <2>1
  <2>11. F[n][z] = Xor(f[k + 1], F[r][Z(k + 1)])
    BY <2>4, <2>6, <2>7, <2>9, <2>10, XorLaws
  <2> QED BY <2>1, <2>11 DEF r
<1>8. F[n][z] = Xor(f[n], F[n - n][Z(n)])
  <2>1. n \in Nat /\ n \in 0..n
    OBVIOUS
  <2> HIDE DEF T
  <2>2. n \in T
    BY <1>6, <1>7, <2>1, Induction
  <2> QED BY <2>2 DEF T
<1>9. F[n - n][Z(n)] = Z(n)
  <2>1. n - n = 0 /\ n \in Nat
    OBVIOUS
  <2> QED BY <1>1, <2>1 DEF Zeros
<1> QED BY <1>5, <1>8, <1>9 DEF x, Z

(***************************************************************************)
(* Octets one after another.                                               *)
(***************************************************************************)
(* f[k] is the CRC c after the first k octets of s. *)
Runs(f, c, s) ==
  /\ f \in [0..Len(s) -> CRCs] /\ f[0] = c
  /\ \A k \in 1..Len(s) : f[k] = ByOctet(Xor(f[k - 1], s[k]))

LEMMA RunExists ==
  ASSUME NEW c \in CRCs, NEW s \in Seq(Octets) PROVE \E f : Runs(f, c, s)
<1> DEFINE n == Len(s)
           g == [k \in 1..n |-> [x \in CRCs |-> ByOctet(Xor(x, s[k]))]]
<1>1. \A k \in 1..n : s[k] \in CRCs
  BY BitTypes
<1>2. g \in [1..n -> [CRCs -> CRCs]] /\ n \in Nat
  BY <1>1, BitTypes, OctetLinear
<1>3. PICK f : Iterates(f, n, CRCs, c, g)
  <2> HIDE DEF g, n
  <2> QED BY <1>2, IterationExists
<1>4. f \in [0..n -> CRCs] /\ f[0] = c
      /\ \A k \in 1..n : f[k - 1] \in CRCs /\ f[k] = g[k][f[k - 1]]
  <2> HIDE DEF g
  <2> QED BY <1>2, <1>3 DEF Iterates
<1>5. \A k \in 1..n : f[k] = ByOctet(Xor(f[k - 1], s[k]))
  BY <1>4
<1> QED BY <1>4, <1>5 DEF Runs

LEMMA RunPiece ==
  ASSUME NEW c, NEW s \in Seq(Octets), NEW f, Runs(f, c, s),
         NEW a \in Nat, NEW n \in Nat, a + n <= Len(s)
  PROVE  /\ SubSeq(s, a + 1, a + n) \in Seq(Octets) /\ Len(SubSeq(s, a + 1, a + n)) = n
         /\ f[a] \in CRCs
         /\ Runs([k \in 0..n |-> f[a + k]], f[a], SubSeq(s, a + 1, a + n))
<1> DEFINE d == SubSeq(s, a + 1, a + n)
           h == [k \in 0..n |-> f[a + k]]
<1>1. d \in Seq(Octets) /\ Len(d) = n /\ \A k \in 1..n : d[k] = s[a + k]
  <2>1. d = [k \in 1..n |-> s[a + k]]
    BY DEF d
  <2> QED BY <2>1
<1>2. h \in [0..n -> CRCs] /\ h[0] = f[a] /\ f[a] \in CRCs
  <2>1. f \in [0..Len(s) -> CRCs] /\ a \in 0..Len(s) /\ a + 0 = a
    BY DEF Runs
  <2>2. ASSUME NEW k \in 0..n PROVE f[a + k] \in CRCs
    <3>1. a + k \in 0..Len(s)
      OBVIOUS
    <3> QED BY <2>1, <3>1
  <2> QED BY <2>1, <2>2
<1> HIDE DEF d
<1>3. ASSUME NEW k \in 1..n PROVE h[k] = ByOctet(Xor(h[k - 1], d[k]))
  <2>1. a + k \in 1..Len(s) /\ (a + k) - 1 = a + (k - 1) /\ k - 1 \in 0..n /\ k \in 0..n
    OBVIOUS
  <2> QED BY <1>1, <2>1 DEF Runs
<1> HIDE DEF h
<1> QED BY <1>1, <1>2, <1>3 DEF Runs, d, h

LEMMA SlowlyIs ==
  ASSUME NEW c \in CRCs, NEW s \in Seq(Octets), NEW f, Runs(f, c, s)
  PROVE  Slowly(c, s) = f[Len(s)]
<1> DEFINE n == Len(s)
           after == CHOOSE h : h = [j \in 0..n |->
                      IF j = 0 THEN c ELSE crc64ReverseStep(h[j - 1], s[j])]
<1>1. ASSUME NEW k \in 1..n PROVE f[k] = crc64ReverseStep(f[k - 1], s[k])
  <2>1. f[k - 1] \in CRCs /\ s[k] \in Octets
    BY DEF Runs
  <2> QED BY <2>1, StepIs DEF Runs
<1>2. f = [j \in 0..n |-> IF j = 0 THEN c ELSE crc64ReverseStep(f[j - 1], s[j])]
  BY <1>1 DEF Runs
<1>3. after = [j \in 0..n |-> IF j = 0 THEN c ELSE crc64ReverseStep(after[j - 1], s[j])]
  BY <1>2
<1>4. Slowly(c, s) = after[n]
  BY DEF Slowly
<1> HIDE DEF after
<1>5. after[0] = f[0]
  BY <1>3 DEF Runs
<1>6. ASSUME NEW k \in 0..(n - 1), after[k] = f[k] PROVE after[k + 1] = f[k + 1]
  <2>1. k + 1 \in 1..n /\ k + 1 \in 0..n /\ k + 1 # 0 /\ (k + 1) - 1 = k
    OBVIOUS
  <2>2. after[k + 1] = crc64ReverseStep(after[k], s[k + 1])
    BY <1>3, <2>1
  <2>3. f[k + 1] = crc64ReverseStep(f[k], s[k + 1])
    BY <1>1, <2>1
  <2> QED BY <1>6, <2>2, <2>3
<1>7. n \in Nat
  OBVIOUS
<1> HIDE DEF n
<1>8. after[n] = f[n]
  BY <1>5, <1>6, <1>7, Agree
<1> QED BY <1>4, <1>8 DEF n

(***************************************************************************)
(* Four and eight octets at once.                                          *)
(***************************************************************************)
LEMMA TogetherIs ==
  ASSUME NEW d \in Seq(Octets), Len(d) \in 1..8
  PROVE  /\ Together(d) \in CRCs
         /\ \A k \in 0..(Len(d) - 1) : Low(Shr(Together(d), 8 * k)) = d[k + 1]
         /\ Shr(Together(d), 8 * Len(d)) = {}
<1> DEFINE n == Len(d)
           W == Together(d)
<1>1. ASSUME NEW q
      PROVE  q \in W <=> \E j \in 1..n : \E p \in d[j] : q = 8 * (j - 1) + p
  BY DEF Together
<1>2. \A j \in 1..n : d[j] \in SUBSET (0..7)
  BY DEF Octets
<1>3. n \in 1..8
  OBVIOUS
<1> HIDE DEF W, n
<1>4. ASSUME NEW q \in W PROVE q \in 0..(8 * n - 1)
  <2>1. PICK j \in 1..n : \E p \in d[j] : q = 8 * (j - 1) + p
    BY <1>1
  <2>2. PICK p \in d[j] : q = 8 * (j - 1) + p
    BY <2>1
  <2>3. p \in 0..7
    BY <1>2
  <2> QED BY <1>3, <2>2, <2>3
<1>5. W \in CRCs /\ W \in SUBSET Nat
  <2>1. ASSUME NEW q \in W PROVE q \in 0..63 /\ q \in Nat
    <3>1. q \in 0..(8 * n - 1)
      BY <1>4
    <3> QED BY <1>3, <3>1
  <2> QED BY <2>1 DEF CRCs
<1>6. ASSUME NEW k \in 0..(n - 1), NEW p PROVE p \in Low(Shr(W, 8 * k)) <=> p \in d[k + 1]
  <2>1. 8 * k \in Nat /\ k + 1 \in 1..n /\ 8 * ((k + 1) - 1) = 8 * k /\ (k + 1) - 1 = k
    BY <1>3
  <2>2. p \in Low(Shr(W, 8 * k)) <=> p \in 0..7 /\ p + 8 * k \in W
    <3>1. p \in Shr(W, 8 * k) <=> p \in Nat /\ p + 8 * k \in W
      BY <1>5, <2>1, ShrIs
    <3> QED BY <3>1 DEF Low
  <2>3. ASSUME p \in d[k + 1] PROVE p \in 0..7 /\ p + 8 * k \in W
    <3>1. p \in 0..7
      BY <1>2, <2>1, <2>3
    <3>2. p + 8 * k = 8 * ((k + 1) - 1) + p
      BY <2>1, <3>1
    <3> QED BY <1>1, <2>1, <2>3, <3>1, <3>2
  <2>4. ASSUME p \in 0..7, p + 8 * k \in W PROVE p \in d[k + 1]
    <3>1. PICK j \in 1..n : \E q \in d[j] : p + 8 * k = 8 * (j - 1) + q
      BY <1>1, <2>4
    <3>2. PICK q \in d[j] : p + 8 * k = 8 * (j - 1) + q
      BY <3>1
    <3>3. q \in 0..7
      BY <1>2
    <3>4. k = j - 1 /\ p = q
      BY <1>3, <2>1, <2>4, <3>2, <3>3
    <3>5. j = k + 1
      BY <1>3, <2>1, <3>4
    <3> QED BY <3>2, <3>4, <3>5
  <2> QED BY <2>2, <2>3, <2>4
<1>7. ASSUME NEW p PROVE p \notin Shr(W, 8 * n)
  <2>1. 8 * n \in Nat
    BY <1>3
  <2>2. p \in Shr(W, 8 * n) <=> p \in Nat /\ p + 8 * n \in W
    BY <1>5, <2>1, ShrIs
  <2>3. p \in Nat => p + 8 * n \notin 0..(8 * n - 1)
    BY <1>3
  <2> QED BY <1>4, <2>2, <2>3
<1>8. /\ W \in CRCs
      /\ \A k \in 0..(n - 1) : Low(Shr(W, 8 * k)) = d[k + 1]
      /\ Shr(W, 8 * n) = {}
  BY <1>5, <1>6, <1>7
<1> QED BY <1>8 DEF W, n

(* A run over a few octets is that many octets of zeros after all of them. *)
LEMMA RunTogether ==
  ASSUME NEW F, Zeros(F), NEW c \in CRCs, NEW d \in Seq(Octets), Len(d) \in 1..8,
         NEW f, Runs(f, c, d)
  PROVE  f[Len(d)] = F[Len(d)][Xor(c, Together(d))]
<1> DEFINE n == Len(d)
           W == Together(d)
           Z(k) == Shr(W, 8 * k)
           z == Xor(c, W)
<1>1. W \in CRCs /\ W \in SUBSET Nat /\ n \in 1..8 /\ z \in CRCs
  BY TogetherIs, BitTypes
<1>2. \A k \in 0..(n - 1) : Low(Z(k)) = d[k + 1]
  BY TogetherIs
<1>3. Z(n) = {}
  BY TogetherIs
<1>4. ASSUME NEW k \in Nat PROVE Z(k) \in CRCs /\ Shr(Z(k), 8) = Z(k + 1)
  <2>1. 8 * k \in Nat /\ (8 * k) + 8 = 8 * (k + 1) /\ 8 \in Nat
    OBVIOUS
  <2> HIDE DEF W
  <2> QED BY <1>1, <2>1, ShrShr, BitTypes
<1>5. Z(0) = W
  <2>1. 8 * 0 = 0
    OBVIOUS
  <2> QED BY <1>1, <2>1, ShrZero
<1>6. f \in [0..n -> CRCs] /\ f[0] = c /\ \A k \in 1..n : f[k] = ByOctet(Xor(f[k - 1], d[k]))
  BY DEF Runs
<1> DEFINE T == {k \in 0..n : F[k][z] = Xor(f[k], Z(k))}
<1> HIDE DEF n, W, Z
<1>7. 0 \in T
  BY <1>1, <1>5, <1>6 DEF Zeros
<1>8. ASSUME NEW k \in 0..(n - 1), k \in T PROVE k + 1 \in T
  <2>1. k \in Nat /\ k + 1 \in 1..n /\ k + 1 \in 0..n /\ (k + 1) - 1 = k /\ k + 1 \in 1..8 /\ k \in 0..n
    BY <1>1
  <2> DEFINE low == Low(Z(k))
             rest == Z(k) \ 0..7
  <2>2. Z(k) \in CRCs /\ f[k] \in CRCs /\ low \in CRCs /\ rest \in CRCs
        /\ Z(k) = Xor(rest, low) /\ ByOctet(rest) = Z(k + 1) /\ Z(k + 1) \in CRCs
    <3>1. Z(k) \in CRCs /\ f[k] \in CRCs /\ Z(k + 1) \in CRCs
      <4>1. k + 1 \in Nat
        BY <2>1
      <4> QED BY <1>4, <1>6, <2>1, <4>1
    <3>2. low \in CRCs /\ rest \in CRCs /\ Z(k) = Xor(rest, low) /\ Shr(Z(k), 8) = Shr(rest, 8)
      BY <3>1, LowAndRest, BitTypes
    <3>3. ByOctet(rest) = Shr(rest, 8)
      BY <3>2, ByOctetShifts
    <3> QED BY <1>4, <2>1, <3>1, <3>2, <3>3
  <2>3. low = d[k + 1]
    BY <1>2
  <2> HIDE DEF low, rest
  <2>4. Xor(f[k], low) \in CRCs
    BY <2>2, BitTypes
  <2>5. Xor(f[k], Z(k)) = Xor(rest, Xor(f[k], low))
    <3>1. ASSUME NEW p PROVE p \in Xor(f[k], Xor(rest, low)) <=> p \in Xor(rest, Xor(f[k], low))
      BY XorIs
    <3> QED BY <2>2, <3>1
  <2>6. ByOctet(Xor(f[k], Z(k))) = Xor(Z(k + 1), f[k + 1])
    <3>1. f[k + 1] = ByOctet(Xor(f[k], low))
      BY <1>6, <2>1, <2>3
    <3> QED BY <2>2, <2>4, <2>5, <3>1, OctetLinear
  <2>7. F[k + 1][z] = ByOctet(F[k][z])
    BY <1>1, <2>1 DEF Zeros
  <2> QED BY <1>8, <2>1, <2>6, <2>7, XorLaws
<1>9. n \in T
  <2>1. n \in Nat /\ n \in 0..n
    BY <1>1
  <2> HIDE DEF T
  <2> QED BY <1>7, <1>8, <2>1, Induction
<1> QED BY <1>3, <1>9, XorLaws DEF n, W

LEMMA IndexesAre ==
  ASSUME NEW c \in CRCs, NEW d \in Seq(Octets), Len(d) \in 1..8
  PROVE  [j \in 1..Len(d) |-> Low(Xor(d[j], Shr(c, 8 * (j - 1))))]
         = Indexes(Xor(c, Together(d)), Len(d))
<1> DEFINE W == Together(d)
<1>1. ASSUME NEW j \in 1..Len(d)
      PROVE  Low(Xor(d[j], Shr(c, 8 * (j - 1)))) = Low(Shr(Xor(c, W), 8 * (j - 1)))
  <2> DEFINE k == j - 1
             s == Shr(c, 8 * k)
             t == Shr(W, 8 * k)
  <2>1. k \in 0..(Len(d) - 1) /\ 8 * k \in Nat /\ k + 1 = j
    OBVIOUS
  <2>2. W \in SUBSET Nat /\ c \in SUBSET Nat
    BY TogetherIs, BitTypes
  <2> HIDE DEF W
  <2>3. Shr(Xor(c, W), 8 * k) = Xor(s, t)
    <3> HIDE DEF k
    <3> QED BY <2>1, <2>2, ShrXor
  <2>4. Low(t) = d[j] /\ d[j] \in SUBSET (0..7)
    <3> HIDE DEF k
    <3>1. Low(Shr(W, 8 * k)) = d[k + 1]
      BY <2>1, TogetherIs DEF W
    <3>2. d[j] \in SUBSET (0..7)
      BY DEF Octets
    <3> QED BY <2>1, <3>1, <3>2
  <2> HIDE DEF k, s, t
  <2>5. ASSUME NEW p PROVE p \in Low(Xor(d[j], s)) <=> p \in Low(Xor(s, t))
    <3>1. p \in Low(Xor(d[j], s)) <=> p \in 0..7 /\ p \in Xor(d[j], s)
      BY DEF Low
    <3>2. p \in Low(Xor(s, t)) <=> p \in 0..7 /\ p \in Xor(s, t)
      BY DEF Low
    <3>3. p \in 0..7 => (p \in t <=> p \in d[j])
      BY <2>4 DEF Low
    <3> QED BY <3>1, <3>2, <3>3, XorIs
  <2> QED BY <2>3, <2>5 DEF s, k
<1> HIDE DEF W
<1>2. [j \in 1..Len(d) |-> Low(Xor(d[j], Shr(c, 8 * (j - 1))))]
      = [j \in 1..Len(d) |-> Low(Shr(Xor(c, W), 8 * (j - 1)))]
  BY <1>1
<1> QED BY <1>2 DEF Indexes, W

LEMMA Takes ==
  ASSUME NEW c \in CRCs, NEW d \in Seq(Octets), NEW f, Runs(f, c, d)
  PROVE  /\ Len(d) = 8 => TakeEight(c, d) = f[8] /\ TakeEightAligned(c, d) = f[8]
         /\ Len(d) = 4 => TakeFour(c, d) = f[4]
<1> DEFINE W == Together(d)
           z == Xor(c, W)
<1>1. PICK F : Zeros(F)
  BY ZerosExist
<1>2. ASSUME NEW n \in 1..8, Len(d) = n
      PROVE  /\ f[n] = Xor(Lookup(Indexes(z, n)), Shr(c, 8 * n))
             /\ [j \in 1..n |-> Low(Xor(d[j], Shr(c, 8 * (j - 1))))] = Indexes(z, n)
  <2>1. W \in CRCs /\ Shr(W, 8 * n) = {} /\ z \in CRCs
    BY <1>2, TogetherIs, BitTypes
  <2>2. f[n] = F[n][z]
    BY <1>1, <1>2, RunTogether
  <2>3. [j \in 1..n |-> Low(Xor(d[j], Shr(c, 8 * (j - 1))))] = Indexes(z, n)
    BY <1>2, IndexesAre
  <2>4. Shr(z, 8 * n) = Shr(c, 8 * n)
    <3>1. 8 * n \in Nat /\ c \in SUBSET Nat /\ W \in SUBSET Nat
      BY <2>1, BitTypes
    <3> HIDE DEF W
    <3>2. Shr(z, 8 * n) = Xor(Shr(c, 8 * n), Shr(W, 8 * n))
      BY <3>1, ShrXor
    <3> QED BY <2>1, <3>2, XorLaws
  <2>5. F[n][z] = Xor(Lookup(Indexes(z, n)), Shr(z, 8 * n))
    <3> HIDE DEF z
    <3> QED BY <1>1, <2>1, LookupIs
  <2> QED BY <2>2, <2>3, <2>4, <2>5
<1>3. ASSUME Len(d) = 8 PROVE TakeEight(c, d) = f[8] /\ TakeEightAligned(c, d) = f[8]
  <2>1. Shr(c, 64) = {}
    <3>1. {q \in c : q >= 64} = {}
      <4>1. ASSUME NEW q \in c PROVE q \in 0..63
        BY DEF CRCs
      <4>2. ASSUME NEW q \in 0..63 PROVE ~(q >= 64)
        OBVIOUS
      <4> QED BY <4>1, <4>2
    <3> QED BY <3>1 DEF Shr
  <2>2. 8 * 8 = 64 /\ 8 \in 1..8
    OBVIOUS
  <2>3. /\ f[8] = Lookup(Indexes(z, 8))
        /\ [j \in 1..8 |-> Low(Xor(d[j], Shr(c, 8 * (j - 1))))] = Indexes(z, 8)
    <3>1. /\ f[8] = Xor(Lookup(Indexes(z, 8)), Shr(c, 8 * 8))
          /\ [j \in 1..8 |-> Low(Xor(d[j], Shr(c, 8 * (j - 1))))] = Indexes(z, 8)
      BY <1>2, <1>3, <2>2
    <3> HIDE DEF z
    <3>2. f[8] = Xor(Lookup(Indexes(z, 8)), {})
      BY <2>1, <2>2, <3>1
    <3> QED BY <3>1, <3>2, XorLaws
  <2>4. TakeEight(c, d) = f[8]
    BY <2>3 DEF TakeEight
  <2>5. TakeEightAligned(c, d) = f[8]
    BY <2>3 DEF TakeEightAligned, Indexes
  <2> QED BY <2>4, <2>5
<1>4. ASSUME Len(d) = 4 PROVE TakeFour(c, d) = f[4]
  <2>1. 8 * 4 = 32 /\ 4 \in 1..8
    OBVIOUS
  <2>2. /\ f[4] = Xor(Lookup(Indexes(z, 4)), Shr(c, 32))
        /\ [j \in 1..4 |-> Low(Xor(d[j], Shr(c, 8 * (j - 1))))] = Indexes(z, 4)
    BY <1>2, <1>4, <2>1
  <2>3. TakeFour(c, d)
        = Xor(Shr(c, 32), Lookup([j \in 1..4 |-> Low(Xor(d[j], Shr(c, 8 * (j - 1))))]))
    BY DEF TakeFour
  <2>4. TakeFour(c, d) = Xor(Shr(c, 32), Lookup(Indexes(z, 4)))
    BY <2>2, <2>3
  <2> HIDE DEF z
  <2> QED BY <2>2, <2>4, XorLaws
<1> QED BY <1>3, <1>4

(* The chunks of a run. *)
ChunkTaken(n, f, s, k) ==
  LET d == SubSeq(s, n * (k - 1) + 1, n * k)
      x == f[n * (k - 1)]
  IN  /\ n = 8 => TakeEight(x, d) = f[n * k] /\ TakeEightAligned(x, d) = f[n * k]
      /\ n = 4 => TakeFour(x, d) = f[n * k]

LEMMA ChunkStep ==
  ASSUME NEW c, NEW s \in Seq(Octets), NEW f, Runs(f, c, s),
         NEW n \in {4, 8}, NEW q \in Nat, Len(s) = n * q, NEW k \in 1..q
  PROVE  ChunkTaken(n, f, s, k)
<1> DEFINE a == n * (k - 1)
           d == SubSeq(s, a + 1, a + n)
           h == [j \in 0..n |-> f[a + j]]
<1>1. a \in Nat /\ a + n = n * k /\ a + n <= Len(s) /\ n \in Nat
  <2>1. CASE n = 4
    BY <2>1
  <2>2. CASE n = 8
    BY <2>2
  <2> QED BY <2>1, <2>2
<1> HIDE DEF a
<1>2. d \in Seq(Octets) /\ Len(d) = n /\ f[a] \in CRCs /\ Runs(h, f[a], d)
  BY <1>1, RunPiece
<1>3. h[n] = f[n * k]
  BY <1>1
<1> HIDE DEF d, h
<1>4. /\ n = 8 => TakeEight(f[a], d) = h[8] /\ TakeEightAligned(f[a], d) = h[8]
      /\ n = 4 => TakeFour(f[a], d) = h[4]
  BY <1>2, Takes
<1> QED BY <1>1, <1>3, <1>4 DEF a, d, ChunkTaken

LEMMA EightsRun ==
  ASSUME NEW c, NEW s \in Seq(Octets), NEW f, Runs(f, c, s),
         NEW q \in Nat, Len(s) = 8 * q, Len(s) \div 8 = q
  PROVE  InChunks(8, c, s, TakeEight) = f[Len(s)]
<1> DEFINE after == CHOOSE g : g = [k \in 0..q |->
             IF k = 0 THEN c ELSE TakeEight(g[k - 1], SubSeq(s, 8 * (k - 1) + 1, 8 * k))]
           h == [k \in 0..q |-> f[8 * k]]
<1>1. ASSUME NEW k \in 1..q
      PROVE  TakeEight(h[k - 1], SubSeq(s, 8 * (k - 1) + 1, 8 * k)) = h[k]
  <2>1. k - 1 \in 0..q /\ k \in 0..q
    OBVIOUS
  <2>2. TakeEight(f[8 * (k - 1)], SubSeq(s, 8 * (k - 1) + 1, 8 * k)) = f[8 * k]
    <3>1. 8 \in {4, 8}
      OBVIOUS
    <3>2. ChunkTaken(8, f, s, k)
      BY <3>1, ChunkStep
    <3> QED BY <3>2 DEF ChunkTaken
  <2> QED BY <2>1, <2>2
<1>2. h[0] = c
  <2>1. 8 * 0 = 0 /\ 0 \in 0..q
    OBVIOUS
  <2> QED BY <2>1 DEF Runs
<1>3. h[q] = f[Len(s)]
  OBVIOUS
<1>4. h = [k \in 0..q |->
             IF k = 0 THEN c ELSE TakeEight(h[k - 1], SubSeq(s, 8 * (k - 1) + 1, 8 * k))]
  <2>1. h = [k \in 0..q |-> f[8 * k]]
    OBVIOUS
  <2>3. \A k \in 0..q : h[k] = f[8 * k]
    OBVIOUS
  <2> HIDE DEF h
  <2>2. \A k \in 0..q : k # 0 => k \in 1..q
    OBVIOUS
  <2> QED BY <1>1, <1>2, <2>1, <2>2, <2>3
<1> HIDE DEF h
<1>5. after = [k \in 0..q |->
             IF k = 0 THEN c ELSE TakeEight(after[k - 1], SubSeq(s, 8 * (k - 1) + 1, 8 * k))]
  BY <1>4
<1>6. InChunks(8, c, s, TakeEight) = after[q]
  BY DEF InChunks
<1> HIDE DEF after
<1>7. after[0] = h[0]
  BY <1>2, <1>5
<1>8. ASSUME NEW k \in 0..(q - 1), after[k] = h[k] PROVE after[k + 1] = h[k + 1]
  <2>1. k + 1 \in 1..q /\ k + 1 \in 0..q /\ k + 1 # 0 /\ (k + 1) - 1 = k
    OBVIOUS
  <2>2. after[k + 1] = TakeEight(after[k], SubSeq(s, 8 * k + 1, 8 * (k + 1)))
    BY <1>5, <2>1
  <2>3. TakeEight(h[k], SubSeq(s, 8 * k + 1, 8 * (k + 1))) = h[k + 1]
    BY <1>1, <2>1
  <2> QED BY <1>8, <2>2, <2>3
<1>9. after[q] = h[q]
  BY <1>7, <1>8, Agree
<1> QED BY <1>3, <1>6, <1>9

LEMMA AlignedEightsRun ==
  ASSUME NEW c, NEW s \in Seq(Octets), NEW f, Runs(f, c, s),
         NEW q \in Nat, Len(s) = 8 * q, Len(s) \div 8 = q
  PROVE  InChunks(8, c, s, TakeEightAligned) = f[Len(s)]
<1> DEFINE after == CHOOSE g : g = [k \in 0..q |->
             IF k = 0 THEN c ELSE TakeEightAligned(g[k - 1], SubSeq(s, 8 * (k - 1) + 1, 8 * k))]
           h == [k \in 0..q |-> f[8 * k]]
<1>1. ASSUME NEW k \in 1..q
      PROVE  TakeEightAligned(h[k - 1], SubSeq(s, 8 * (k - 1) + 1, 8 * k)) = h[k]
  <2>1. k - 1 \in 0..q /\ k \in 0..q
    OBVIOUS
  <2>2. TakeEightAligned(f[8 * (k - 1)], SubSeq(s, 8 * (k - 1) + 1, 8 * k)) = f[8 * k]
    <3>1. 8 \in {4, 8}
      OBVIOUS
    <3>2. ChunkTaken(8, f, s, k)
      BY <3>1, ChunkStep
    <3> QED BY <3>2 DEF ChunkTaken
  <2> QED BY <2>1, <2>2
<1>2. h[0] = c
  <2>1. 8 * 0 = 0 /\ 0 \in 0..q
    OBVIOUS
  <2> QED BY <2>1 DEF Runs
<1>3. h[q] = f[Len(s)]
  OBVIOUS
<1>4. h = [k \in 0..q |->
             IF k = 0 THEN c ELSE TakeEightAligned(h[k - 1], SubSeq(s, 8 * (k - 1) + 1, 8 * k))]
  <2>1. h = [k \in 0..q |-> f[8 * k]]
    OBVIOUS
  <2>3. \A k \in 0..q : h[k] = f[8 * k]
    OBVIOUS
  <2> HIDE DEF h
  <2>2. \A k \in 0..q : k # 0 => k \in 1..q
    OBVIOUS
  <2> QED BY <1>1, <1>2, <2>1, <2>2, <2>3
<1> HIDE DEF h
<1>5. after = [k \in 0..q |->
             IF k = 0 THEN c ELSE TakeEightAligned(after[k - 1], SubSeq(s, 8 * (k - 1) + 1, 8 * k))]
  BY <1>4
<1>6. InChunks(8, c, s, TakeEightAligned) = after[q]
  BY DEF InChunks
<1> HIDE DEF after
<1>7. after[0] = h[0]
  BY <1>2, <1>5
<1>8. ASSUME NEW k \in 0..(q - 1), after[k] = h[k] PROVE after[k + 1] = h[k + 1]
  <2>1. k + 1 \in 1..q /\ k + 1 \in 0..q /\ k + 1 # 0 /\ (k + 1) - 1 = k
    OBVIOUS
  <2>2. after[k + 1] = TakeEightAligned(after[k], SubSeq(s, 8 * k + 1, 8 * (k + 1)))
    BY <1>5, <2>1
  <2>3. TakeEightAligned(h[k], SubSeq(s, 8 * k + 1, 8 * (k + 1))) = h[k + 1]
    BY <1>1, <2>1
  <2> QED BY <1>8, <2>2, <2>3
<1>9. after[q] = h[q]
  BY <1>7, <1>8, Agree
<1> QED BY <1>3, <1>6, <1>9

LEMMA FoursRun ==
  ASSUME NEW c, NEW s \in Seq(Octets), NEW f, Runs(f, c, s),
         NEW q \in Nat, Len(s) = 4 * q, Len(s) \div 4 = q
  PROVE  InChunks(4, c, s, TakeFour) = f[Len(s)]
<1> DEFINE after == CHOOSE g : g = [k \in 0..q |->
             IF k = 0 THEN c ELSE TakeFour(g[k - 1], SubSeq(s, 4 * (k - 1) + 1, 4 * k))]
           h == [k \in 0..q |-> f[4 * k]]
<1>1. ASSUME NEW k \in 1..q
      PROVE  TakeFour(h[k - 1], SubSeq(s, 4 * (k - 1) + 1, 4 * k)) = h[k]
  <2>1. k - 1 \in 0..q /\ k \in 0..q
    OBVIOUS
  <2>2. TakeFour(f[4 * (k - 1)], SubSeq(s, 4 * (k - 1) + 1, 4 * k)) = f[4 * k]
    <3>1. 4 \in {4, 8}
      OBVIOUS
    <3>2. ChunkTaken(4, f, s, k)
      BY <3>1, ChunkStep
    <3> QED BY <3>2 DEF ChunkTaken
  <2> QED BY <2>1, <2>2
<1>2. h[0] = c
  <2>1. 4 * 0 = 0 /\ 0 \in 0..q
    OBVIOUS
  <2> QED BY <2>1 DEF Runs
<1>3. h[q] = f[Len(s)]
  OBVIOUS
<1>4. h = [k \in 0..q |->
             IF k = 0 THEN c ELSE TakeFour(h[k - 1], SubSeq(s, 4 * (k - 1) + 1, 4 * k))]
  <2>1. h = [k \in 0..q |-> f[4 * k]]
    OBVIOUS
  <2>3. \A k \in 0..q : h[k] = f[4 * k]
    OBVIOUS
  <2> HIDE DEF h
  <2>2. \A k \in 0..q : k # 0 => k \in 1..q
    OBVIOUS
  <2> QED BY <1>1, <1>2, <2>1, <2>2, <2>3
<1> HIDE DEF h
<1>5. after = [k \in 0..q |->
             IF k = 0 THEN c ELSE TakeFour(after[k - 1], SubSeq(s, 4 * (k - 1) + 1, 4 * k))]
  BY <1>4
<1>6. InChunks(4, c, s, TakeFour) = after[q]
  BY DEF InChunks
<1> HIDE DEF after
<1>7. after[0] = h[0]
  BY <1>2, <1>5
<1>8. ASSUME NEW k \in 0..(q - 1), after[k] = h[k] PROVE after[k + 1] = h[k + 1]
  <2>1. k + 1 \in 1..q /\ k + 1 \in 0..q /\ k + 1 # 0 /\ (k + 1) - 1 = k
    OBVIOUS
  <2>2. after[k + 1] = TakeFour(after[k], SubSeq(s, 4 * k + 1, 4 * (k + 1)))
    BY <1>5, <2>1
  <2>3. TakeFour(h[k], SubSeq(s, 4 * k + 1, 4 * (k + 1))) = h[k + 1]
    BY <1>1, <2>1
  <2> QED BY <1>8, <2>2, <2>3
<1>9. after[q] = h[q]
  BY <1>7, <1>8, Agree
<1> QED BY <1>3, <1>6, <1>9

(***************************************************************************)
(* The functions.                                                          *)
(***************************************************************************)
(* r is the CRC c after the octets d. *)
Yields(c, d, r) == c \in CRCs /\ d \in Seq(Octets) /\ \E f : Runs(f, c, d) /\ r = f[Len(d)]

LEMMA YieldsSplit ==
  ASSUME NEW c, NEW d, NEW r, Yields(c, d, r), NEW n \in 0..Len(d)
  PROVE  /\ Len(First(d, n)) = n /\ Len(From(d, n)) = Len(d) - n
         /\ \E y : Yields(c, First(d, n), y) /\ Yields(y, From(d, n), r)
<1>1. PICK f : Runs(f, c, d) /\ r = f[Len(d)]
  BY DEF Yields
<1>2. c \in CRCs /\ d \in Seq(Octets) /\ f[0] = c
  BY <1>1 DEF Yields, Runs
<1> DEFINE rest == Len(d) - n
           g == [k \in 0..n |-> f[0 + k]]
           h == [k \in 0..rest |-> f[n + k]]
<1>3. 0 \in Nat /\ n \in Nat /\ 0 + n <= Len(d) /\ 0 + 1 = 1 /\ 0 + n = n
  BY <1>2
<1>4. rest \in Nat /\ n + rest = Len(d) /\ n + rest <= Len(d)
  BY <1>2
<1>5. First(d, n) \in Seq(Octets) /\ Len(First(d, n)) = n /\ Runs(g, c, First(d, n))
  <2> HIDE DEF rest
  <2>1. /\ SubSeq(d, 0 + 1, 0 + n) \in Seq(Octets) /\ Len(SubSeq(d, 0 + 1, 0 + n)) = n
        /\ Runs([k \in 0..n |-> f[0 + k]], f[0], SubSeq(d, 0 + 1, 0 + n))
    BY <1>1, <1>2, <1>3, RunPiece
  <2> HIDE DEF g
  <2> QED BY <1>2, <1>3, <2>1 DEF First, g
<1>6. From(d, n) \in Seq(Octets) /\ Len(From(d, n)) = rest /\ f[n] \in CRCs
      /\ Runs(h, f[n], From(d, n))
  <2> HIDE DEF rest
  <2>1. /\ SubSeq(d, n + 1, n + rest) \in Seq(Octets) /\ Len(SubSeq(d, n + 1, n + rest)) = rest
        /\ f[n] \in CRCs
        /\ Runs([k \in 0..rest |-> f[n + k]], f[n], SubSeq(d, n + 1, n + rest))
    BY <1>1, <1>2, <1>3, <1>4, RunPiece
  <2> HIDE DEF h
  <2> QED BY <1>4, <2>1 DEF From, h
<1>7. g[n] = f[n] /\ h[rest] = r
  BY <1>1, <1>3, <1>4
<1> HIDE DEF rest, g, h
<1>8. Yields(c, First(d, n), f[n]) /\ Yields(f[n], From(d, n), r)
  BY <1>2, <1>5, <1>6, <1>7 DEF Yields
<1> QED BY <1>5, <1>6, <1>8 DEF rest

LEMMA SlowlyYields ==
  ASSUME NEW c, NEW d, NEW r, Yields(c, d, r) PROVE Slowly(c, d) = r
  BY SlowlyIs DEF Yields

LEMMA EightsYield ==
  ASSUME NEW c, NEW d, NEW r, Yields(c, d, r), Len(d) % 8 = 0,
         crcPlatform.sizeBits \in Nat, crcPlatform.sizeBits >= 64
  PROVE  crc64Fast64Impl(c, d) = r /\ crc64Fast64Aligned8Impl(c, d) = r
<1>1. PICK f : Runs(f, c, d) /\ r = f[Len(d)] /\ d \in Seq(Octets) /\ c \in CRCs
  BY DEF Yields
<1>2. InSize(c) = c
  <2>1. \A p \in 0..63 : p \in 0..(crcPlatform.sizeBits - 1)
    OBVIOUS
  <2> QED BY <1>1, <2>1 DEF InSize, CRCs
<1>3. PICK q \in Nat : Len(d) = 8 * q /\ Len(d) \div 8 = q
  BY <1>1
<1>4. InChunks(8, c, d, TakeEight) = r
  BY <1>1, <1>3, EightsRun
<1>5. InChunks(8, c, d, TakeEightAligned) = r
  BY <1>1, <1>3, AlignedEightsRun
<1> QED BY <1>2, <1>4, <1>5 DEF crc64Fast64Impl, crc64Fast64Aligned8Impl

LEMMA FoursYield ==
  ASSUME NEW c, NEW d, NEW r, Yields(c, d, r), Len(d) % 4 = 0
  PROVE  crc64ReversedUpdate_Fast32(c, d) = r
<1>1. PICK f : Runs(f, c, d) /\ r = f[Len(d)] /\ d \in Seq(Octets)
  BY DEF Yields
<1>2. PICK q \in Nat : Len(d) = 4 * q /\ Len(d) \div 4 = q
  BY <1>1
<1>3. InChunks(4, c, d, TakeFour) = r
  BY <1>1, <1>2, FoursRun
<1> QED BY <1>3 DEF crc64ReversedUpdate_Fast32

LEMMA Aligned8Yields ==
  ASSUME NEW c, NEW d, NEW r, Yields(c, d, r),
         crcPlatform.sizeBits \in Nat, crcPlatform.sizeBits >= 64
  PROVE  crc64ReversedUpdate_Aligned8Impl(c, d) = r
<1> DEFINE n == Len(d) - (Len(d) % 8)
<1>1. n \in 0..Len(d) /\ n % 8 = 0
  <2>1. Len(d) \in Nat
    BY DEF Yields
  <2> QED BY <2>1
<1> HIDE DEF n
<1>2. PICK y : Yields(c, First(d, n), y) /\ Yields(y, From(d, n), r)
  BY <1>1, YieldsSplit
<1>3. Len(First(d, n)) = n
  BY <1>1, YieldsSplit
<1>4. crc64Fast64Aligned8Impl(c, First(d, n)) = y
  BY <1>1, <1>2, <1>3, EightsYield
<1>5. Slowly(y, From(d, n)) = r
  BY <1>2, SlowlyYields
<1> QED BY <1>4, <1>5 DEF crc64ReversedUpdate_Aligned8Impl, ThenSlowly, n

LEMMA UpdateYields ==
  ASSUME NEW c, NEW d, NEW r, Yields(c, d, r), NEW address \in Nat,
         crcPlatform.sizeBits \in Nat, crcPlatform.sizeBits >= 64, suitableForAutoFastAligned8
  PROVE  crc64ReversedUpdate(c, d, address) = r
<1> DEFINE n == (8 - (address % 8)) % 8
<1>1. n \in Nat /\ Len(d) \in Nat
  BY DEF Yields
<1> HIDE DEF n
<1>2. CASE n < Len(d)
  <2>1. PICK y : Yields(c, First(d, n), y) /\ Yields(y, From(d, n), r)
    <3>1. n \in 0..Len(d)
      BY <1>1, <1>2
    <3> QED BY <3>1, YieldsSplit
  <2>2. Slowly(c, First(d, n)) = y
    BY <2>1, SlowlyYields
  <2>3. crc64ReversedUpdate_Aligned8Impl(y, From(d, n)) = r
    BY <2>1, Aligned8Yields
  <2> QED BY <1>2, <2>2, <2>3 DEF crc64ReversedUpdate, n
<1>3. CASE ~(n < Len(d))
  BY <1>3, SlowlyYields DEF crc64ReversedUpdate, n
<1> QED BY <1>2, <1>3

(***************************************************************************)
(* The remainder.                                                          *)
(***************************************************************************)
(* The constant of the code and the exponents of its comment.              *)
LEMMA polynomeIs == polynome = Generator
<1> DEFINE digits == <<12, 9, 6, 12, 5, 7, 9, 5, 13, 7, 8, 7, 0, 15, 4, 2>>
           weights == <<1, 2, 4, 8>>
           Odd(d, w) == (d \div w) % 2 = 1
<1>1. polynome = {p \in 0..63 : Odd(digits[16 - p \div 4], weights[(p % 4) + 1])}
  BY DEF polynome
<1>2. ASSUME NEW p \in 0..63
      PROVE  /\ p \div 4 \in 0..15 /\ p % 4 \in 0..3 /\ p = 4 * (p \div 4) + (p % 4)
  OBVIOUS
<1>3. /\ weights[1] = 1 /\ weights[2] = 2 /\ weights[3] = 4 /\ weights[4] = 8
  OBVIOUS
<1>4. /\ digits[1] = 12 /\ digits[2] = 9 /\ digits[3] = 6 /\ digits[4] = 12
      /\ digits[5] = 5 /\ digits[6] = 7 /\ digits[7] = 9 /\ digits[8] = 5
      /\ digits[9] = 13 /\ digits[10] = 7 /\ digits[11] = 8 /\ digits[12] = 7
      /\ digits[13] = 0 /\ digits[14] = 15 /\ digits[15] = 4 /\ digits[16] = 2
  OBVIOUS
<1>5. Generator = {1, 6, 8, 9, 10, 11, 16, 17, 18, 23, 24, 25, 26, 28, 30, 31, 32, 34, 36, 39, 40, 41, 42, 44, 46, 50, 51, 53, 54, 56, 59, 62, 63}
  BY DEF Generator
<1> HIDE DEF digits, weights
<1>6. ASSUME NEW p \in 0..63, p \div 4 = 0
      PROVE  Odd(digits[16 - p \div 4], weights[(p % 4) + 1]) <=> p \in Generator
  <2>1. p \in {0, 1, 2, 3} /\ digits[16 - p \div 4] = 2
    BY <1>2, <1>4, <1>6
  <2>2. p % 4 = p - 0
    BY <1>2, <1>6
  <2>3. /\ ~Odd(2, 1) /\ Odd(2, 2) /\ ~Odd(2, 4) /\ ~Odd(2, 8)
    OBVIOUS
  <2> HIDE DEF Odd
  <2>4. Odd(2, weights[(p % 4) + 1]) <=> p \in {1}
    BY <1>3, <2>1, <2>2, <2>3
  <2> QED BY <1>5, <2>1, <2>4
<1>7. ASSUME NEW p \in 0..63, p \div 4 = 1
      PROVE  Odd(digits[16 - p \div 4], weights[(p % 4) + 1]) <=> p \in Generator
  <2>1. p \in {4, 5, 6, 7} /\ digits[16 - p \div 4] = 4
    BY <1>2, <1>4, <1>7
  <2>2. p % 4 = p - 4
    BY <1>2, <1>7
  <2>3. /\ ~Odd(4, 1) /\ ~Odd(4, 2) /\ Odd(4, 4) /\ ~Odd(4, 8)
    OBVIOUS
  <2> HIDE DEF Odd
  <2>4. Odd(4, weights[(p % 4) + 1]) <=> p \in {6}
    BY <1>3, <2>1, <2>2, <2>3
  <2> QED BY <1>5, <2>1, <2>4
<1>8. ASSUME NEW p \in 0..63, p \div 4 = 2
      PROVE  Odd(digits[16 - p \div 4], weights[(p % 4) + 1]) <=> p \in Generator
  <2>1. p \in {8, 9, 10, 11} /\ digits[16 - p \div 4] = 15
    BY <1>2, <1>4, <1>8
  <2>2. p % 4 = p - 8
    BY <1>2, <1>8
  <2>3. /\ Odd(15, 1) /\ Odd(15, 2) /\ Odd(15, 4) /\ Odd(15, 8)
    OBVIOUS
  <2> HIDE DEF Odd
  <2>4. Odd(15, weights[(p % 4) + 1]) <=> p \in {8, 9, 10, 11}
    BY <1>3, <2>1, <2>2, <2>3
  <2> QED BY <1>5, <2>1, <2>4
<1>9. ASSUME NEW p \in 0..63, p \div 4 = 3
      PROVE  Odd(digits[16 - p \div 4], weights[(p % 4) + 1]) <=> p \in Generator
  <2>1. p \in {12, 13, 14, 15} /\ digits[16 - p \div 4] = 0
    BY <1>2, <1>4, <1>9
  <2>2. p % 4 = p - 12
    BY <1>2, <1>9
  <2>3. /\ ~Odd(0, 1) /\ ~Odd(0, 2) /\ ~Odd(0, 4) /\ ~Odd(0, 8)
    OBVIOUS
  <2> HIDE DEF Odd
  <2>4. Odd(0, weights[(p % 4) + 1]) <=> p \in {}
    BY <1>3, <2>1, <2>2, <2>3
  <2> QED BY <1>5, <2>1, <2>4
<1>10. ASSUME NEW p \in 0..63, p \div 4 = 4
      PROVE  Odd(digits[16 - p \div 4], weights[(p % 4) + 1]) <=> p \in Generator
  <2>1. p \in {16, 17, 18, 19} /\ digits[16 - p \div 4] = 7
    BY <1>2, <1>4, <1>10
  <2>2. p % 4 = p - 16
    BY <1>2, <1>10
  <2>3. /\ Odd(7, 1) /\ Odd(7, 2) /\ Odd(7, 4) /\ ~Odd(7, 8)
    OBVIOUS
  <2> HIDE DEF Odd
  <2>4. Odd(7, weights[(p % 4) + 1]) <=> p \in {16, 17, 18}
    BY <1>3, <2>1, <2>2, <2>3
  <2> QED BY <1>5, <2>1, <2>4
<1>11. ASSUME NEW p \in 0..63, p \div 4 = 5
      PROVE  Odd(digits[16 - p \div 4], weights[(p % 4) + 1]) <=> p \in Generator
  <2>1. p \in {20, 21, 22, 23} /\ digits[16 - p \div 4] = 8
    BY <1>2, <1>4, <1>11
  <2>2. p % 4 = p - 20
    BY <1>2, <1>11
  <2>3. /\ ~Odd(8, 1) /\ ~Odd(8, 2) /\ ~Odd(8, 4) /\ Odd(8, 8)
    OBVIOUS
  <2> HIDE DEF Odd
  <2>4. Odd(8, weights[(p % 4) + 1]) <=> p \in {23}
    BY <1>3, <2>1, <2>2, <2>3
  <2> QED BY <1>5, <2>1, <2>4
<1>12. ASSUME NEW p \in 0..63, p \div 4 = 6
      PROVE  Odd(digits[16 - p \div 4], weights[(p % 4) + 1]) <=> p \in Generator
  <2>1. p \in {24, 25, 26, 27} /\ digits[16 - p \div 4] = 7
    BY <1>2, <1>4, <1>12
  <2>2. p % 4 = p - 24
    BY <1>2, <1>12
  <2>3. /\ Odd(7, 1) /\ Odd(7, 2) /\ Odd(7, 4) /\ ~Odd(7, 8)
    OBVIOUS
  <2> HIDE DEF Odd
  <2>4. Odd(7, weights[(p % 4) + 1]) <=> p \in {24, 25, 26}
    BY <1>3, <2>1, <2>2, <2>3
  <2> QED BY <1>5, <2>1, <2>4
<1>13. ASSUME NEW p \in 0..63, p \div 4 = 7
      PROVE  Odd(digits[16 - p \div 4], weights[(p % 4) + 1]) <=> p \in Generator
  <2>1. p \in {28, 29, 30, 31} /\ digits[16 - p \div 4] = 13
    BY <1>2, <1>4, <1>13
  <2>2. p % 4 = p - 28
    BY <1>2, <1>13
  <2>3. /\ Odd(13, 1) /\ ~Odd(13, 2) /\ Odd(13, 4) /\ Odd(13, 8)
    OBVIOUS
  <2> HIDE DEF Odd
  <2>4. Odd(13, weights[(p % 4) + 1]) <=> p \in {28, 30, 31}
    BY <1>3, <2>1, <2>2, <2>3
  <2> QED BY <1>5, <2>1, <2>4
<1>14. ASSUME NEW p \in 0..63, p \div 4 = 8
      PROVE  Odd(digits[16 - p \div 4], weights[(p % 4) + 1]) <=> p \in Generator
  <2>1. p \in {32, 33, 34, 35} /\ digits[16 - p \div 4] = 5
    BY <1>2, <1>4, <1>14
  <2>2. p % 4 = p - 32
    BY <1>2, <1>14
  <2>3. /\ Odd(5, 1) /\ ~Odd(5, 2) /\ Odd(5, 4) /\ ~Odd(5, 8)
    OBVIOUS
  <2> HIDE DEF Odd
  <2>4. Odd(5, weights[(p % 4) + 1]) <=> p \in {32, 34}
    BY <1>3, <2>1, <2>2, <2>3
  <2> QED BY <1>5, <2>1, <2>4
<1>15. ASSUME NEW p \in 0..63, p \div 4 = 9
      PROVE  Odd(digits[16 - p \div 4], weights[(p % 4) + 1]) <=> p \in Generator
  <2>1. p \in {36, 37, 38, 39} /\ digits[16 - p \div 4] = 9
    BY <1>2, <1>4, <1>15
  <2>2. p % 4 = p - 36
    BY <1>2, <1>15
  <2>3. /\ Odd(9, 1) /\ ~Odd(9, 2) /\ ~Odd(9, 4) /\ Odd(9, 8)
    OBVIOUS
  <2> HIDE DEF Odd
  <2>4. Odd(9, weights[(p % 4) + 1]) <=> p \in {36, 39}
    BY <1>3, <2>1, <2>2, <2>3
  <2> QED BY <1>5, <2>1, <2>4
<1>16. ASSUME NEW p \in 0..63, p \div 4 = 10
      PROVE  Odd(digits[16 - p \div 4], weights[(p % 4) + 1]) <=> p \in Generator
  <2>1. p \in {40, 41, 42, 43} /\ digits[16 - p \div 4] = 7
    BY <1>2, <1>4, <1>16
  <2>2. p % 4 = p - 40
    BY <1>2, <1>16
  <2>3. /\ Odd(7, 1) /\ Odd(7, 2) /\ Odd(7, 4) /\ ~Odd(7, 8)
    OBVIOUS
  <2> HIDE DEF Odd
  <2>4. Odd(7, weights[(p % 4) + 1]) <=> p \in {40, 41, 42}
    BY <1>3, <2>1, <2>2, <2>3
  <2> QED BY <1>5, <2>1, <2>4
<1>17. ASSUME NEW p \in 0..63, p \div 4 = 11
      PROVE  Odd(digits[16 - p \div 4], weights[(p % 4) + 1]) <=> p \in Generator
  <2>1. p \in {44, 45, 46, 47} /\ digits[16 - p \div 4] = 5
    BY <1>2, <1>4, <1>17
  <2>2. p % 4 = p - 44
    BY <1>2, <1>17
  <2>3. /\ Odd(5, 1) /\ ~Odd(5, 2) /\ Odd(5, 4) /\ ~Odd(5, 8)
    OBVIOUS
  <2> HIDE DEF Odd
  <2>4. Odd(5, weights[(p % 4) + 1]) <=> p \in {44, 46}
    BY <1>3, <2>1, <2>2, <2>3
  <2> QED BY <1>5, <2>1, <2>4
<1>18. ASSUME NEW p \in 0..63, p \div 4 = 12
      PROVE  Odd(digits[16 - p \div 4], weights[(p % 4) + 1]) <=> p \in Generator
  <2>1. p \in {48, 49, 50, 51} /\ digits[16 - p \div 4] = 12
    BY <1>2, <1>4, <1>18
  <2>2. p % 4 = p - 48
    BY <1>2, <1>18
  <2>3. /\ ~Odd(12, 1) /\ ~Odd(12, 2) /\ Odd(12, 4) /\ Odd(12, 8)
    OBVIOUS
  <2> HIDE DEF Odd
  <2>4. Odd(12, weights[(p % 4) + 1]) <=> p \in {50, 51}
    BY <1>3, <2>1, <2>2, <2>3
  <2> QED BY <1>5, <2>1, <2>4
<1>19. ASSUME NEW p \in 0..63, p \div 4 = 13
      PROVE  Odd(digits[16 - p \div 4], weights[(p % 4) + 1]) <=> p \in Generator
  <2>1. p \in {52, 53, 54, 55} /\ digits[16 - p \div 4] = 6
    BY <1>2, <1>4, <1>19
  <2>2. p % 4 = p - 52
    BY <1>2, <1>19
  <2>3. /\ ~Odd(6, 1) /\ Odd(6, 2) /\ Odd(6, 4) /\ ~Odd(6, 8)
    OBVIOUS
  <2> HIDE DEF Odd
  <2>4. Odd(6, weights[(p % 4) + 1]) <=> p \in {53, 54}
    BY <1>3, <2>1, <2>2, <2>3
  <2> QED BY <1>5, <2>1, <2>4
<1>20. ASSUME NEW p \in 0..63, p \div 4 = 14
      PROVE  Odd(digits[16 - p \div 4], weights[(p % 4) + 1]) <=> p \in Generator
  <2>1. p \in {56, 57, 58, 59} /\ digits[16 - p \div 4] = 9
    BY <1>2, <1>4, <1>20
  <2>2. p % 4 = p - 56
    BY <1>2, <1>20
  <2>3. /\ Odd(9, 1) /\ ~Odd(9, 2) /\ ~Odd(9, 4) /\ Odd(9, 8)
    OBVIOUS
  <2> HIDE DEF Odd
  <2>4. Odd(9, weights[(p % 4) + 1]) <=> p \in {56, 59}
    BY <1>3, <2>1, <2>2, <2>3
  <2> QED BY <1>5, <2>1, <2>4
<1>21. ASSUME NEW p \in 0..63, p \div 4 = 15
      PROVE  Odd(digits[16 - p \div 4], weights[(p % 4) + 1]) <=> p \in Generator
  <2>1. p \in {60, 61, 62, 63} /\ digits[16 - p \div 4] = 12
    BY <1>2, <1>4, <1>21
  <2>2. p % 4 = p - 60
    BY <1>2, <1>21
  <2>3. /\ ~Odd(12, 1) /\ ~Odd(12, 2) /\ Odd(12, 4) /\ Odd(12, 8)
    OBVIOUS
  <2> HIDE DEF Odd
  <2>4. Odd(12, weights[(p % 4) + 1]) <=> p \in {62, 63}
    BY <1>3, <2>1, <2>2, <2>3
  <2> QED BY <1>5, <2>1, <2>4
<1> HIDE DEF Odd
<1>22. ASSUME NEW p \in 0..63
      PROVE  Odd(digits[16 - p \div 4], weights[(p % 4) + 1]) <=> p \in Generator
  <2> DEFINE q == p \div 4
  <2>1. q \in 0..15
    BY <1>2
  <2> QED BY <2>1, <1>6, <1>7, <1>8, <1>9, <1>10, <1>11, <1>12, <1>13, <1>14, <1>15, <1>16, <1>17, <1>18, <1>19, <1>20, <1>21
<1>23. Generator \subseteq 0..63
  BY <1>5
<1> QED BY <1>1, <1>22, <1>23

LEMMA DividedStep ==
  ASSUME NEW r \in CRCs, NEW y \in CRCs
  PROVE  /\ DividedBit(r, 0 \in y) \in CRCs
         /\ Xor(DividedBit(r, 0 \in y), Shr(y, 1)) = tableValLoop(Xor(r, y))
<1> DEFINE t == (0 \in r) # (0 \in y)
           top == IF t THEN polynome ELSE {}
<1>1. DividedBit(r, 0 \in y) = Xor(Shr(r, 1), top)
  BY polynomeIs, XorLaws DEF DividedBit
<1>2. 0 \in Xor(r, y) <=> t
  BY XorIs
<1>3. tableValLoop(Xor(r, y)) = Xor(Shr(Xor(r, y), 1), top)
  BY <1>2, XorLaws DEF tableValLoop
<1>4. Shr(Xor(r, y), 1) = Xor(Shr(r, 1), Shr(y, 1))
  BY ShrXor, BitTypes
<1>5. ASSUME NEW a, NEW b, NEW c PROVE Xor(Xor(a, c), b) = Xor(Xor(a, b), c)
  BY XorLaws
<1>6. Shr(r, 1) \in CRCs /\ top \in CRCs
  BY BitTypes
<1> HIDE DEF top
<1> QED BY <1>1, <1>3, <1>4, <1>5, <1>6, BitTypes

(* Eight bits of an octet. *)
LEMMA DividedOctet ==
  ASSUME NEW x \in Octets, NEW r, r[0] \in CRCs,
         \A k \in 0..7 : r[k + 1] = DividedBit(r[k], k \in x)
  PROVE  r[8] = ByOctet(Xor(r[0], x))
<1> DEFINE L(c) == tableValLoop(c)
           Z(k) == Xor(r[k], Shr(x, k))
<1>1. x \in CRCs /\ x \in SUBSET Nat
  BY BitTypes
<1>2. ASSUME NEW k \in 0..7, r[k] \in CRCs PROVE r[k + 1] \in CRCs /\ Z(k + 1) = L(Z(k))
  <2>1. Shr(x, k) \in CRCs /\ Shr(Shr(x, k), 1) = Shr(x, k + 1)
    <3>1. k \in Nat /\ 1 \in Nat
      OBVIOUS
    <3> QED BY <1>1, <3>1, BitTypes, ShrShr
  <2>2. 0 \in Shr(x, k) <=> k \in x
    <3>1. 0 \in Shr(x, k) <=> 0 \in Nat /\ 0 + k \in x
      BY <1>1, ShrIs
    <3>2. 0 + k = k
      OBVIOUS
    <3> QED BY <3>1, <3>2
  <2>3. r[k + 1] = DividedBit(r[k], 0 \in Shr(x, k))
    BY <2>2
  <2> QED BY <1>2, <2>1, <2>3, DividedStep
<1>3. Z(0) = Xor(r[0], x)
  BY <1>1, ShrZero
<1>4. Z(8) = r[8]
  <2>1. Shr(x, 8) = {}
    <3>1. ASSUME NEW p PROVE p \notin Shr(x, 8)
      <4>1. p \in Shr(x, 8) <=> p \in Nat /\ p + 8 \in x
        BY <1>1, ShrIs
      <4>2. p \in Nat => p + 8 \notin 0..7
        OBVIOUS
      <4> QED BY <4>1, <4>2 DEF Octets
    <3> QED BY <3>1
  <2> QED BY <2>1, XorLaws
<1>5. ByOctet(Xor(r[0], x)) = L(L(L(L(L(L(L(L(Xor(r[0], x)))))))))
  BY DEF ByOctet
<1> HIDE DEF L, Z
<1>6. r[1] \in CRCs /\ Z(1) = L(Z(0))
  BY <1>2
<1>7. r[2] \in CRCs /\ Z(2) = L(Z(1))
  BY <1>2, <1>6
<1>8. r[3] \in CRCs /\ Z(3) = L(Z(2))
  BY <1>2, <1>7
<1>9. r[4] \in CRCs /\ Z(4) = L(Z(3))
  BY <1>2, <1>8
<1>10. r[5] \in CRCs /\ Z(5) = L(Z(4))
  BY <1>2, <1>9
<1>11. r[6] \in CRCs /\ Z(6) = L(Z(5))
  BY <1>2, <1>10
<1>12. r[7] \in CRCs /\ Z(7) = L(Z(6))
  BY <1>2, <1>11
<1>13. Z(8) = L(Z(7))
  BY <1>2, <1>12
<1> QED BY <1>3, <1>4, <1>5, <1>6, <1>7, <1>8, <1>9, <1>10, <1>11, <1>12, <1>13

LEMMA DividedIs ==
  ASSUME NEW r \in CRCs, NEW x \in Octets PROVE Divided(x)[r] = ByOctet(Xor(r, x))
<1> DEFINE g == [k \in 1..8 |-> [c \in CRCs |-> DividedBit(c, k - 1 \in x)]]
           after == CHOOSE f : f = [n \in 0..8 |->
                      IF n = 0 THEN r ELSE DividedBit(f[n - 1], n - 1 \in x)]
<1>1. ASSUME NEW c \in CRCs, NEW w PROVE DividedBit(c, w) \in CRCs
  BY polynomeIs, BitTypes DEF DividedBit
<1>2. g \in [1..8 -> [CRCs -> CRCs]] /\ 8 \in Nat
  BY <1>1
<1>3. PICK f : Iterates(f, 8, CRCs, r, g)
  <2> HIDE DEF g
  <2> QED BY <1>2, IterationExists
<1>4. f \in [0..8 -> CRCs] /\ f[0] = r
      /\ \A k \in 1..8 : f[k - 1] \in CRCs /\ f[k] = g[k][f[k - 1]]
  <2> HIDE DEF g
  <2> QED BY <1>3 DEF Iterates
<1>5. \A k \in 1..8 : f[k] = DividedBit(f[k - 1], k - 1 \in x)
  BY <1>4
<1>6. f = [n \in 0..8 |-> IF n = 0 THEN r ELSE DividedBit(f[n - 1], n - 1 \in x)]
  BY <1>4, <1>5
<1>7. after = [n \in 0..8 |-> IF n = 0 THEN r ELSE DividedBit(after[n - 1], n - 1 \in x)]
  BY <1>6
<1>8. Divided(x)[r] = after[8]
  BY DEF Divided, CRCs
<1> HIDE DEF after
<1>9. after[0] = r
  BY <1>7
<1>10. ASSUME NEW k \in 0..7 PROVE after[k + 1] = DividedBit(after[k], k \in x)
  <2>1. k + 1 \in 0..8 /\ k + 1 # 0 /\ (k + 1) - 1 = k
    OBVIOUS
  <2> QED BY <1>7, <2>1
<1> QED BY <1>8, <1>9, <1>10, DividedOctet

LEMMA RemainderIs ==
  ASSUME NEW s \in Seq(Octets), NEW f, Runs(f, {}, s)
  PROVE  Remainder(s) = f[Len(s)]
<1> DEFINE n == Len(s)
           after == CHOOSE h : h = [j \in 0..n |->
                      IF j = 0 THEN {} ELSE Divided(s[j])[h[j - 1]]]
<1>1. ASSUME NEW k \in 1..n PROVE f[k] = Divided(s[k])[f[k - 1]]
  <2>1. f[k - 1] \in CRCs /\ s[k] \in Octets
    BY DEF Runs
  <2> QED BY <2>1, DividedIs DEF Runs
<1>2. f = [j \in 0..n |-> IF j = 0 THEN {} ELSE Divided(s[j])[f[j - 1]]]
  BY <1>1 DEF Runs
<1>3. after = [j \in 0..n |-> IF j = 0 THEN {} ELSE Divided(s[j])[after[j - 1]]]
  BY <1>2
<1>4. Remainder(s) = after[n]
  BY DEF Remainder
<1> HIDE DEF after
<1>5. after[0] = f[0]
  BY <1>3 DEF Runs
<1>6. ASSUME NEW k \in 0..(n - 1), after[k] = f[k] PROVE after[k + 1] = f[k + 1]
  <2>1. k + 1 \in 1..n /\ k + 1 \in 0..n /\ k + 1 # 0 /\ (k + 1) - 1 = k
    OBVIOUS
  <2>2. after[k + 1] = Divided(s[k + 1])[after[k]]
    BY <1>3, <2>1
  <2>3. f[k + 1] = Divided(s[k + 1])[f[k]]
    BY <1>1, <2>1
  <2> QED BY <1>6, <2>2, <2>3
<1>7. n \in Nat
  OBVIOUS
<1> HIDE DEF n
<1>8. after[n] = f[n]
  BY <1>5, <1>6, <1>7, Agree
<1> QED BY <1>4, <1>8 DEF n

(***************************************************************************)
(* What is fed.  CrcInv says of the running CRC that it is the one after   *)
(* the octets so far, which the next piece takes on from.                  *)
(***************************************************************************)
CrcInv ==
  /\ crcStream \in Seq(Octets) /\ crcBase \in Nat
  /\ crcPlatform.sizeBits \in Nat
  /\ crcFed \in 0..Len(crcStream)
  /\ \E f : Runs(f, {}, crcStream) /\ crcValue = f[crcFed]

LEMMA CrcStarts == CrcInit => CrcInv
<1> SUFFICES ASSUME CrcInit PROVE CrcInv
  OBVIOUS
<1>1. PICK in \in CrcInputs : CrcStart(in)
  BY DEF CrcInit
<1>2. crcStream \in Seq(Octets) /\ crcBase \in Nat /\ crcPlatform.sizeBits \in Nat
  <2>1. crcStream \in CrcStreams /\ crcBase \in CrcBases /\ crcPlatform \in CrcPlatforms
    BY <1>1 DEF CrcInputs, CrcStart
  <2>2. crcPlatform \in [order : {"LE", "BE"}, sizeBits : Nat, maxAlign : Nat]
    BY <2>1, CrcAssumption
  <2> QED BY <2>1, <2>2, CrcAssumption DEF Octets
<1>3. PICK f : Runs(f, {}, crcStream)
  BY <1>2, RunExists, BitTypes
<1>4. crcFed = 0 /\ crcValue = {} /\ f[0] = {}
  BY <1>1, <1>3 DEF CrcStart, Runs
<1>5. crcFed \in 0..Len(crcStream)
  BY <1>2, <1>4
<1> QED BY <1>2, <1>3, <1>4, <1>5 DEF CrcInv

(* A piece yields what a step stores, so the run goes on. *)
LEMMA PieceYields ==
  ASSUME CrcInv, NEW f, Runs(f, {}, crcStream), crcValue = f[crcFed],
         NEW n \in 0..(Len(crcStream) - crcFed)
  PROVE  Yields(crcValue, Piece(n), f[crcFed + n]) /\ Len(Piece(n)) = n
<1> DEFINE h == [k \in 0..n |-> f[crcFed + k]]
<1>1. crcFed \in Nat /\ n \in Nat /\ crcFed + n <= Len(crcStream) /\ crcStream \in Seq(Octets)
  BY DEF CrcInv
<1>2. /\ SubSeq(crcStream, crcFed + 1, crcFed + n) \in Seq(Octets)
      /\ Len(SubSeq(crcStream, crcFed + 1, crcFed + n)) = n
      /\ f[crcFed] \in CRCs
      /\ Runs([k \in 0..n |-> f[crcFed + k]], f[crcFed], SubSeq(crcStream, crcFed + 1, crcFed + n))
  BY <1>1, RunPiece
<1>3. h[n] = f[crcFed + n]
  BY <1>1
<1>4. Piece(n) \in Seq(Octets) /\ Len(Piece(n)) = n /\ Runs(h, crcValue, Piece(n)) /\ crcValue \in CRCs
  <2> HIDE DEF h
  <2> QED BY <1>2 DEF Piece, h
<1> HIDE DEF h
<1> QED BY <1>3, <1>4 DEF Yields

LEMMA FeedKeeps ==
  ASSUME CrcInv, NEW f, Runs(f, {}, crcStream),
         NEW n \in 0..(Len(crcStream) - crcFed), Feed(n, f[crcFed + n])
  PROVE  CrcInv'
<1>1. crcFed' = crcFed + n /\ crcValue' = f[crcFed']
      /\ crcStream' = crcStream /\ crcBase' = crcBase /\ crcPlatform' = crcPlatform
  BY DEF Feed
<1>2. crcFed' \in 0..Len(crcStream')
  BY <1>1 DEF CrcInv
<1>3. Runs(f, {}, crcStream')
  BY <1>1 DEF Runs
<1>4. crcStream' \in Seq(Octets) /\ crcBase' \in Nat /\ crcPlatform'.sizeBits \in Nat
  BY <1>1 DEF CrcInv
<1> QED BY <1>1, <1>2, <1>3, <1>4 DEF CrcInv

LEMMA CrcStep == ASSUME ~CrcDefects, CrcInv, CrcNext PROVE CrcInv'
<1>1. PICK f : Runs(f, {}, crcStream) /\ crcValue = f[crcFed]
  BY DEF CrcInv
<1>2. PICK n \in 0..(Len(crcStream) - crcFed) :
        feedIterators(n) \/ feedUpdate(n) \/ feedAligned8(n) \/ feedFast32(n) \/ feedFast64(n)
  BY DEF CrcNext
<1> DEFINE r == f[crcFed + n]
<1>3. Yields(crcValue, Piece(n), r) /\ Len(Piece(n)) = n
  BY <1>1, PieceYields
<1>4. crcPlatform.sizeBits \in Nat /\ Address \in Nat /\ n \in Nat
  BY DEF CrcInv, Address
<1>5. SUFFICES Feed(n, r)
  BY <1>1, FeedKeeps
<1> HIDE DEF r
<1>6. CASE feedIterators(n)
  BY <1>3, <1>6, SlowlyYields DEF feedIterators
<1>7. CASE feedUpdate(n)
  <2>1. crc64ReversedUpdate(crcValue, Piece(n), Address) = r
    BY <1>3, <1>4, <1>7, UpdateYields DEF feedUpdate
  <2> QED BY <1>7, <2>1 DEF feedUpdate
<1>8. CASE feedAligned8(n)
  <2>1. suitableForFastAligned8 /\ crcPlatform.sizeBits >= 64
    BY <1>8 DEF feedAligned8
  <2>2. crc64ReversedUpdate_Aligned8Impl(crcValue, Piece(n)) = r
    BY <1>3, <1>4, <2>1, Aligned8Yields
  <2> QED BY <1>8, <2>1, <2>2 DEF feedAligned8
<1>9. CASE feedFast32(n)
  <2>1. crc64ReversedUpdate_Fast32(crcValue, Piece(n)) = r
    BY <1>3, <1>9, FoursYield DEF feedFast32
  <2> QED BY <1>9, <2>1 DEF feedFast32
<1>10. CASE feedFast64(n)
  <2>1. n % 8 = 0 /\ crcPlatform.sizeBits >= 64
        /\ Feed(n, IF n > 0 THEN crc64Fast64Impl(crcValue, Piece(n)) ELSE crcValue)
    BY <1>10 DEF feedFast64
  <2>2. crc64Fast64Impl(crcValue, Piece(n)) = r
    BY <1>3, <1>4, <2>1, EightsYield
  <2>3. n = 0 => crcValue = r
    <3>1. n = 0 => crcFed + n = crcFed
      BY DEF CrcInv
    <3> QED BY <1>1, <3>1 DEF r
  <2>4. (IF n > 0 THEN crc64Fast64Impl(crcValue, Piece(n)) ELSE crcValue) = r
    BY <1>4, <2>2, <2>3
  <2> QED BY <2>1, <2>4
<1> QED BY <1>2, <1>6, <1>7, <1>8, <1>9, <1>10

LEMMA CrcInvIsRemainder == CrcInv => CrcIsRemainder
<1> SUFFICES ASSUME CrcInv PROVE CrcIsRemainder
  OBVIOUS
<1>1. PICK f : Runs(f, {}, crcStream) /\ crcValue = f[crcFed]
  BY DEF CrcInv
<1> DEFINE d == SubSeq(crcStream, 0 + 1, 0 + crcFed)
           h == [k \in 0..crcFed |-> f[0 + k]]
<1>2. crcFed \in Nat /\ 0 \in Nat /\ 0 + crcFed <= Len(crcStream) /\ crcStream \in Seq(Octets)
  BY DEF CrcInv
<1>3. d \in Seq(Octets) /\ Len(d) = crcFed /\ Runs(h, f[0], d)
  BY <1>1, <1>2, RunPiece
<1>4. f[0] = {} /\ h[crcFed] = crcValue /\ 0 + 1 = 1 /\ 0 + crcFed = crcFed
  BY <1>1, <1>2 DEF Runs
<1>5. Remainder(d) = h[Len(d)]
  <2> HIDE DEF d, h
  <2> QED BY <1>3, <1>4, RemainderIs
<1>6. d = SubSeq(crcStream, 1, crcFed)
  BY <1>4
<1> HIDE DEF d, h
<1> QED BY <1>3, <1>4, <1>5, <1>6 DEF CrcIsRemainder

(* The CRC of a stream of any length, fed in pieces of any size, each to   *)
(* another function, from any address: the remainder of all octets.  The   *)
(* tables hold what the division gives, the functions that look up four or *)
(* eight octets at once give what eight divisions give, and the octets     *)
(* before an aligned one and behind the last chunk are not lost.           *)
THEOREM CrcIsRemainderAlways ==
  ASSUME ~CrcDefects PROVE CrcSpec => []CrcIsRemainder
<1>1. ASSUME CrcInv, [CrcNext]_crcVars PROVE CrcInv'
  <2>1. CASE CrcNext
    BY <1>1, <2>1, CrcStep
  <2>2. CASE UNCHANGED crcVars
    BY <1>1, <2>2 DEF CrcInv, crcVars, Runs
  <2> QED BY <1>1, <2>1, <2>2
<1>2. QED
  BY <1>1, CrcStarts, CrcInvIsRemainder, PTL DEF CrcSpec
=============================================================================
