--------------------------- MODULE UrlTokens_proofs ---------------------------
(***************************************************************************)
(* Texts that UrlBuilder makes have room, hold what was given, and are     *)
(* read back by a Tokeniser, for any texts, any parts and any number of    *)
(* builders.                                                               *)
(***************************************************************************)
EXTENDS UrlTokens, Counting, SequenceTheorems, FunctionTheorems, TLAPS

(***************************************************************************)
(* The elements of a set of places, in order.                              *)
(***************************************************************************)
LEMMA OrderedFacts ==
  ASSUME NEW n \in Nat, NEW S \in SUBSET (1..n)
  PROVE  /\ Cardinality(S) \in Nat
         /\ Len(Ordered(S)) = Cardinality(S)
         /\ \A k \in 1..Cardinality(S) : Ordered(S)[k] \in S /\ Count(S, Ordered(S)[k]) = k
         /\ \A i \in S : Count(S, i) \in 1..Cardinality(S) /\ Ordered(S)[Count(S, i)] = i
<1>1. Cardinality(S) \in Nat
  BY PlaceFacts, CountType
<1>2. Ordered(S) = [k \in 1..Cardinality(S) |-> CHOOSE i \in S : Count(S, i) = k]
  BY DEF Ordered, Count
<1>3. Len(Ordered(S)) = Cardinality(S)
  BY <1>1, <1>2
<1>4. ASSUME NEW k \in 1..Cardinality(S)
      PROVE  Ordered(S)[k] \in S /\ Count(S, Ordered(S)[k]) = k
  <2>1. \E i \in S : Count(S, i) = k
    BY CountNumbers
  <2> QED BY <1>2, <2>1
<1>5. ASSUME NEW i \in S
      PROVE  Count(S, i) \in 1..Cardinality(S) /\ Ordered(S)[Count(S, i)] = i
  <2>1. Count(S, i) \in 1..Cardinality(S)
    BY CountNumbers
  <2>2. Ordered(S)[Count(S, i)] \in S /\ Count(S, Ordered(S)[Count(S, i)]) = Count(S, i)
    BY <1>4, <2>1
  <2> QED BY <2>1, <2>2, CountNumbers
<1> QED BY <1>1, <1>3, <1>4, <1>5

(* An element behind the others comes last. *)
LEMMA OrderedAppend ==
  ASSUME NEW n \in Nat, NEW S \in SUBSET (1..n), NEW m \in Nat, n < m
  PROVE  /\ Cardinality(S \cup {m}) = Cardinality(S) + 1
         /\ \A k \in 1..Cardinality(S) : Ordered(S \cup {m})[k] = Ordered(S)[k]
         /\ Ordered(S \cup {m})[Cardinality(S) + 1] = m
<1> DEFINE M == S \cup {m}
<1>0. \A i \in S : i \in Int /\ i <= n
  BY PlaceFacts
<1>1. M \in SUBSET (1..m)
  BY <1>0
<1>2. Cardinality(M) = Cardinality(S) + 1
  <2>1. m \notin S
    BY <1>0
  <2>2. IsFiniteSet(S)
    BY PlaceFacts
  <2> QED BY <2>1, <2>2, FS_AddElement
<1>3. ASSUME NEW i \in S PROVE Count(M, i) = Count(S, i)
  <2>1. i < m
    BY <1>0
  <2>2. {j \in M : j <= i} = {j \in S : j <= i}
    BY <1>0, <2>1
  <2> QED BY <2>2 DEF Count
<1>4. Count(M, m) = Cardinality(M)
  <2>1. m \in Int /\ m >= m
    OBVIOUS
  <2> QED BY <1>1, <2>1, CountEnds
<1> HIDE DEF M
<1>5. \A k \in 1..Cardinality(S) : Ordered(M)[k] = Ordered(S)[k]
  <2>1. SUFFICES ASSUME NEW k \in 1..Cardinality(S) PROVE Ordered(M)[k] = Ordered(S)[k]
    OBVIOUS
  <2> DEFINE i == Ordered(S)[k]
  <2>2. i \in S /\ Count(S, i) = k
    BY OrderedFacts
  <2> HIDE DEF i
  <2>3. i \in M /\ Count(M, i) = k
    BY <1>3, <2>2 DEF M
  <2>4. Ordered(M)[Count(M, i)] = i
    BY <1>1, <2>3, OrderedFacts
  <2> QED BY <2>3, <2>4 DEF i
<1>6. Ordered(M)[Cardinality(S) + 1] = m
  <2>1. m \in M
    BY DEF M
  <2>2. Ordered(M)[Count(M, m)] = m
    BY <1>1, <2>1, OrderedFacts
  <2> QED BY <1>2, <1>4, <2>2
<1> QED BY <1>2, <1>5, <1>6 DEF M

(* Without the first element, and counted from it. *)
Shifted(S, p) == {i - p : i \in S \ {p}}

LEMMA OrderedRest ==
  ASSUME NEW n \in Nat, NEW S \in SUBSET (1..n), S # {},
         NEW p \in S, \A i \in S : p <= i
  PROVE  /\ Cardinality(Shifted(S, p)) = Cardinality(S) - 1
         /\ Ordered(S)[1] = p
         /\ \A k \in 1..Cardinality(Shifted(S, p)) :
              Ordered(S)[k + 1] = Ordered(Shifted(S, p))[k] + p
<1> DEFINE R == {i - p : i \in S \ {p}}
<1>0. /\ \A i \in S : i \in Int /\ i \in Nat /\ 0 < i /\ i <= n
      /\ IsFiniteSet(S)
  BY PlaceFacts
<1>1. R \in SUBSET (1..n)
  <2>1. ASSUME NEW i \in S \ {p} PROVE i - p \in 1..n
    <3>1. i \in S /\ i # p
      OBVIOUS
    <3>2. p <= i /\ i \in Int /\ p \in Int /\ 0 < p /\ i <= n
      BY <1>0, <3>1
    <3> QED BY <3>1, <3>2
  <2> QED BY <2>1
<1>2. ASSUME NEW i \in S, i # p
      PROVE  i - p \in R /\ Count(S, i) = Count(R, i - p) + 1
  <2>1. i - p \in R
    BY <1>2
  <2> DEFINE A == {j \in S : j <= i}
             B == {j \in R : j <= i - p}
             f == [j \in B |-> j + p]
  <2>2. p \in Int /\ i \in Int
    BY <1>0, <1>2
  <2>3. IsFiniteSet(B) /\ IsFiniteSet(A)
    BY <1>0, <1>1, PlaceFacts, CountType
  <2>4. f \in Bijection(B, A \ {p})
    <3>1. ASSUME NEW j \in B PROVE j + p \in A \ {p} /\ j \in Int
      <4>1. PICK x \in S \ {p} : j = x - p
        OBVIOUS
      <4>2. x \in Int /\ j \in Int
        BY <1>0, <2>2, <4>1
      <4>3. j + p = x /\ x <= i
        BY <2>2, <4>1, <4>2
      <4> QED BY <4>1, <4>2, <4>3
    <3>2. f \in [B -> A \ {p}]
      BY <3>1
    <3>3. \A j, k \in B : f[j] = f[k] => j = k
      <4>1. \A j, k \in B : j + p = k + p => j = k
        BY <2>2, <3>1
      <4> QED BY <4>1
    <3>4. \A x \in A \ {p} : \E j \in B : f[j] = x
      <4>1. ASSUME NEW x \in A \ {p} PROVE x - p \in B /\ (x - p) + p = x
        <5>1. x \in Int /\ x \in S \ {p} /\ x <= i
          BY <1>0
        <5>2. x - p \in R
          BY <5>1
        <5> QED BY <2>2, <5>1, <5>2
      <4> QED BY <4>1
    <3> HIDE DEF f, A, B
    <3> QED BY <3>2, <3>3, <3>4, Fun_IsBij DEF ExistsBijection
  <2>5. Cardinality(B) = Cardinality(A \ {p})
    <3>1. ExistsBijection(B, A \ {p})
      BY <2>4 DEF ExistsBijection
    <3> HIDE DEF A, B
    <3> QED BY <2>3, <3>1, FS_Bijection
  <2>6. Cardinality(A \ {p}) = Cardinality(A) - 1
    <3>1. p \in A
      BY <1>2
    <3> QED BY <2>3, <3>1, FS_RemoveElement
  <2>7. Cardinality(A) \in Nat
    BY <2>3, FS_CardinalityType
  <2> QED BY <2>1, <2>5, <2>6, <2>7 DEF Count
<1>3. Count(S, p) = 1
  <2>1. {i \in S : i <= p} = {p}
    <3>1. ASSUME NEW i \in S, i <= p PROVE i = p
      <4>1. p <= i /\ i \in Int /\ p \in Int
        BY <1>0
      <4> QED BY <3>1, <4>1
    <3>2. p <= p
      BY <1>0
    <3> QED BY <3>1, <3>2
  <2>2. Cardinality({p}) = 1
    BY FS_Singleton
  <2> QED BY <2>1, <2>2 DEF Count
<1>4. Ordered(S)[1] = p
  <2>1. Ordered(S)[Count(S, p)] = p
    BY OrderedFacts
  <2> QED BY <1>3, <2>1
<1>5. Cardinality(R) = Cardinality(S) - 1
  <2> DEFINE g == [i \in S \ {p} |-> i - p]
  <2>1. g \in Bijection(S \ {p}, R)
    <3>1. g \in [S \ {p} -> R]
      OBVIOUS
    <3>2. \A i, j \in S \ {p} : g[i] = g[j] => i = j
      <4>1. \A i, j \in S \ {p} : i - p = j - p => i = j
        BY <1>0
      <4> QED BY <4>1
    <3>3. \A x \in R : \E i \in S \ {p} : g[i] = x
      OBVIOUS
    <3> HIDE DEF g
    <3> QED BY <3>1, <3>2, <3>3, Fun_IsBij
  <2>2. IsFiniteSet(S \ {p}) /\ Cardinality(S \ {p}) = Cardinality(S) - 1
    BY <1>0, FS_RemoveElement
  <2>3. ExistsBijection(S \ {p}, R)
    BY <2>1 DEF ExistsBijection
  <2>4. IsFiniteSet(R)
    BY <1>1, PlaceFacts
  <2>5. Cardinality(S \ {p}) = Cardinality(R)
    BY <2>2, <2>3, <2>4, FS_Bijection
  <2> QED BY <2>2, <2>5
<1>6. ASSUME NEW k \in 1..Cardinality(R) PROVE Ordered(S)[k + 1] = Ordered(R)[k] + p
  <2> DEFINE x == Ordered(R)[k]
  <2>1. x \in R /\ Count(R, x) = k
    BY <1>1, OrderedFacts
  <2> HIDE DEF x
  <2>2. PICK i \in S \ {p} : x = i - p
    BY <2>1
  <2> HIDE DEF R
  <2>3. Count(S, i) = k + 1
    BY <1>2, <2>1, <2>2
  <2>4. Ordered(S)[k + 1] = i
    BY <2>2, <2>3, OrderedFacts
  <2> QED BY <1>0, <2>2, <2>4 DEF x
<1> HIDE DEF R
<1>7. R = Shifted(S, p)
  BY DEF R, Shifted
<1> QED BY <1>4, <1>5, <1>6, <1>7

(***************************************************************************)
(* Tokens.                                                                 *)
(***************************************************************************)
LEMMA SubSeqOfFirst ==
  ASSUME NEW C, NEW s \in Seq(C), NEW t \in Seq(C), NEW a \in Int, NEW b \in Int, 1 <= a, b <= Len(s)
  PROVE  SubSeq(s \o t, a, b) = SubSeq(s, a, b)
<1>0. Len(s) \in Nat
  OBVIOUS
<1>1. CASE b < a
  BY <1>1, SubSeqEmpty
<1>2. CASE a <= b
  <2>1. a \in 1..Len(s) /\ b \in 1..Len(s)
    BY <1>0, <1>2
  <2> QED BY <2>1, SubSeqOfConcat1
<1> QED BY <1>1, <1>2

LEMMA SubSeqOfSecond ==
  ASSUME NEW C, NEW s \in Seq(C), NEW t \in Seq(C), NEW a \in Int, NEW b \in Int,
         1 <= a, b <= Len(t)
  PROVE  SubSeq(s \o t, Len(s) + a, Len(s) + b) = SubSeq(t, a, b)
<1>0. Len(s) \in Nat /\ Len(t) \in Nat
  OBVIOUS
<1> DEFINE x == Len(s) + a
           y == Len(s) + b
<1>1. CASE b < a
  <2>1. y < x /\ x \in Int /\ y \in Int
    BY <1>0, <1>1
  <2> HIDE DEF x, y
  <2>2. SubSeq(s \o t, x, y) = <<>> /\ SubSeq(t, a, b) = <<>>
    BY <1>1, <2>1, SubSeqEmpty
  <2> QED BY <2>2 DEF x, y
<1>2. CASE a <= b
  <2>1. x \in (Len(s) + 1)..(Len(s) + Len(t)) /\ y \in (Len(s) + 1)..(Len(s) + Len(t))
        /\ x - Len(s) = a /\ y - Len(s) = b
    BY <1>0, <1>2
  <2> HIDE DEF x, y
  <2>2. SubSeq(s \o t, x, y) = SubSeq(t, x - Len(s), y - Len(s))
    BY <2>1, SubSeqOfConcat2
  <2> QED BY <2>1, <2>2 DEF x, y
<1> QED BY <1>1, <1>2

Ends(s, d) == Positions(s, d) \cup {Len(s) + 1}
Token(s, d, k) ==
  SubSeq(s, IF k = 1 THEN 1 ELSE Ordered(Ends(s, d))[k - 1] + 1, Ordered(Ends(s, d))[k] - 1)

LEMMA EndsFacts ==
  ASSUME NEW C, NEW s \in Seq(C), NEW d
  PROVE  /\ Len(s) + 1 \in Nat /\ Ends(s, d) \in SUBSET (1..(Len(s) + 1))
         /\ Cardinality(Ends(s, d)) \in Nat \ {0}
         /\ \A k \in 1..Cardinality(Ends(s, d)) : Ordered(Ends(s, d))[k] \in 1..(Len(s) + 1)
<1> DEFINE E == Ends(s, d)
           n == Len(s) + 1
<1>1. Len(s) \in Nat /\ n \in Nat /\ n \in E
  BY DEF Ends
<1>2. E \in SUBSET (1..n)
  BY <1>1 DEF Ends, Positions
<1> HIDE DEF E, n
<1>3. Cardinality(E) \in Nat /\ Count(E, n) \in 1..Cardinality(E)
  BY <1>1, <1>2, OrderedFacts
<1>4. \A k \in 1..Cardinality(E) : Ordered(E)[k] \in 1..n
  BY <1>1, <1>2, OrderedFacts
<1>5. Cardinality(E) # 0
  BY <1>3
<1> QED BY <1>1, <1>2, <1>3, <1>4, <1>5 DEF E, n

LEMMA TokensFacts ==
  ASSUME NEW C, NEW s \in Seq(C), NEW d
  PROVE  /\ Len(Tokens(s, d)) = Cardinality(Ends(s, d))
         /\ Tokens(s, d) \in Seq(Seq(C))
         /\ \A k \in 1..Cardinality(Ends(s, d)) : Tokens(s, d)[k] = Token(s, d, k)
<1> DEFINE E == Ends(s, d)
<1>1. Len(s) + 1 \in Nat /\ E \in SUBSET (1..(Len(s) + 1)) /\ Cardinality(E) \in Nat
      /\ \A k \in 1..Cardinality(E) : Ordered(E)[k] \in 1..(Len(s) + 1)
  BY EndsFacts
<1>2. Len(Ordered(E)) = Cardinality(E)
  <2> HIDE DEF E
  <2> QED BY <1>1, OrderedFacts
<1>3. Tokens(s, d) = [k \in 1..Cardinality(E) |-> Token(s, d, k)]
  BY <1>2 DEF Tokens, Token, Ends
<1>4. ASSUME NEW k \in 1..Cardinality(E) PROVE Token(s, d, k) \in Seq(C)
  <2> DEFINE a == IF k = 1 THEN 1 ELSE Ordered(E)[k - 1] + 1
             b == Ordered(E)[k] - 1
  <2>1. a \in Int /\ 1 <= a /\ b \in Int /\ b <= Len(s) /\ Len(s) \in Nat
    <3>1. b \in Int /\ b <= Len(s) /\ Len(s) \in Nat
      <4>1. Ordered(E)[k] \in 1..(Len(s) + 1) /\ Len(s) \in Nat
        BY <1>1
      <4> QED BY <4>1
    <3>2. CASE k = 1
      BY <3>1, <3>2
    <3>3. CASE k # 1
      <4>1. k - 1 \in 1..Cardinality(E)
        BY <1>1, <3>3
      <4>2. Ordered(E)[k - 1] \in 1..(Len(s) + 1)
        BY <1>1, <4>1
      <4> QED BY <3>1, <3>3, <4>2
    <3> QED BY <3>2, <3>3
  <2>2. Token(s, d, k) = SubSeq(s, a, b)
    BY DEF Token
  <2> HIDE DEF a, b, E
  <2>3. \A i \in a..b : s[i] \in C
    BY <2>1
  <2> QED BY <2>1, <2>2, <2>3, SubSeqProperties
<1> HIDE DEF E
<1>5. Len(Tokens(s, d)) = Cardinality(E) /\ Tokens(s, d) \in Seq(Seq(C))
  BY <1>1, <1>3, <1>4
<1> QED BY <1>3, <1>5 DEF E

LEMMA TokensOfOne ==
  ASSUME NEW C, NEW s \in Seq(C), NEW d, Positions(s, d) = {}
  PROVE  Tokens(s, d) = <<s>>
<1> DEFINE n == Len(s) + 1
<1>1. n \in Nat /\ Ends(s, d) = {n} /\ n - 1 = Len(s)
  BY DEF Ends
<1> HIDE DEF n
<1>2. Cardinality({n}) = 1
  BY FS_Singleton
<1>3. Ordered(Ends(s, d))[1] = n
  <2>1. Ends(s, d) \in SUBSET (1..n)
    BY EndsFacts DEF n
  <2>2. \A k \in 1..Cardinality(Ends(s, d)) : Ordered(Ends(s, d))[k] \in Ends(s, d)
    <3> DEFINE E == Ends(s, d)
    <3> HIDE DEF E
    <3>1. E \in SUBSET (1..n)
      BY <2>1 DEF E
    <3>2. \A k \in 1..Cardinality(E) : Ordered(E)[k] \in E
      BY <1>1, <3>1, OrderedFacts
    <3> QED BY <3>2 DEF E
  <2>3. 1 \in 1..Cardinality(Ends(s, d))
    BY <1>1, <1>2
  <2> QED BY <1>1, <2>2, <2>3
<1>4. Len(Tokens(s, d)) = 1 /\ Tokens(s, d)[1] = Token(s, d, 1) /\ Tokens(s, d) \in Seq(Seq(C))
  <2>1. Cardinality(Ends(s, d)) = 1 /\ 1 \in 1..1
    BY <1>1, <1>2
  <2>2. /\ Len(Tokens(s, d)) = Cardinality(Ends(s, d)) /\ Tokens(s, d) \in Seq(Seq(C))
        /\ \A k \in 1..Cardinality(Ends(s, d)) : Tokens(s, d)[k] = Token(s, d, k)
    BY TokensFacts
  <2> QED BY <2>1, <2>2
<1>5. Token(s, d, 1) = s
  BY <1>1, <1>3, SubSeqFull DEF Token
<1> QED BY <1>4, <1>5

LEMMA TokensAppend ==
  ASSUME NEW C, NEW q \in Seq(C), NEW r \in Seq(C), NEW d \in C, Positions(r, d) = {}
  PROVE  Tokens((q \o <<d>>) \o r, d) = Append(Tokens(q, d), r)
<1> DEFINE s == (q \o <<d>>) \o r
           n == Len(q) + 1
           m == Len(s) + 1
           E == Ends(q, d)
           F == Ends(s, d)
<1>1. q \o <<d>> \in Seq(C) /\ Len(q \o <<d>>) = n /\ s \in Seq(C) /\ Len(s) = n + Len(r)
      /\ n \in Nat /\ m \in Nat /\ n < m /\ Len(q) \in Nat /\ Len(r) \in Nat
  OBVIOUS
<1>2. F = E \cup {m}
  <2>1. ASSUME NEW i \in 1..Len(s)
        PROVE  s[i] = IF i <= Len(q) THEN q[i] ELSE IF i = n THEN d ELSE r[i - n]
    BY <1>1
  <2>2. ASSUME NEW i \in 1..Len(s), i > n PROVE s[i] # d
    <3>1. i - n \in 1..Len(r)
      BY <1>1, <2>2
    <3>2. r[i - n] # d
      BY <3>1 DEF Positions
    <3> QED BY <1>1, <2>1, <2>2, <3>2
  <2> HIDE DEF s
  <2>3. Positions(s, d) = Positions(q, d) \cup {n}
    <3>1. ASSUME NEW i \in Positions(s, d) PROVE i \in Positions(q, d) \cup {n}
      <4>1. i \in 1..Len(s) /\ s[i] = d /\ ~ (i > n)
        BY <2>2 DEF Positions
      <4>2. CASE i <= Len(q)
        <5>1. i \in 1..Len(q) /\ s[i] = q[i]
          BY <1>1, <2>1, <4>1, <4>2
        <5> QED BY <4>1, <5>1 DEF Positions
      <4> QED BY <1>1, <4>1, <4>2
    <3>2. ASSUME NEW i \in Positions(q, d) PROVE i \in Positions(s, d)
      BY <1>1, <2>1 DEF Positions
    <3>3. n \in Positions(s, d)
      BY <1>1, <2>1 DEF Positions
    <3> QED BY <3>1, <3>2, <3>3
  <2> QED BY <2>3 DEF Ends
<1>3. E \in SUBSET (1..n) /\ Cardinality(E) \in Nat \ {0}
      /\ \A k \in 1..Cardinality(E) : Ordered(E)[k] \in 1..n
  BY EndsFacts
<1> DEFINE c == Cardinality(E)
<1>4. Cardinality(F) = c + 1
      /\ (\A k \in 1..c : Ordered(F)[k] = Ordered(E)[k]) /\ Ordered(F)[c + 1] = m
  <2>1. n \in Nat /\ m \in Nat /\ n < m /\ E \in SUBSET (1..n)
    BY <1>1, <1>3
  <2> HIDE DEF E, F, n, m
  <2>2. /\ Cardinality(E \cup {m}) = Cardinality(E) + 1
        /\ \A k \in 1..Cardinality(E) : Ordered(E \cup {m})[k] = Ordered(E)[k]
        /\ Ordered(E \cup {m})[Cardinality(E) + 1] = m
    BY <2>1, OrderedAppend
  <2> QED BY <1>2, <2>2
<1>5. Ordered(E)[c] = n
  <2>1. Count(E, n) = c
    <3>1. n \in Int /\ n >= n
      BY <1>1
    <3> HIDE DEF E, n
    <3> QED BY <1>1, <1>3, <3>1, CountEnds
  <2>2. n \in E
    BY DEF Ends
  <2> HIDE DEF E, n
  <2>3. Ordered(E)[Count(E, n)] = n
    BY <1>1, <1>3, <2>2, OrderedFacts
  <2> QED BY <2>1, <2>3
<1>6. Len(Tokens(s, d)) = c + 1 /\ Tokens(s, d) \in Seq(Seq(C))
      /\ \A k \in 1..(c + 1) : Tokens(s, d)[k] = Token(s, d, k)
  <2> HIDE DEF s, E
  <2>1. Len(Tokens(s, d)) = Cardinality(F) /\ Tokens(s, d) \in Seq(Seq(C))
      /\ \A k \in 1..Cardinality(F) : Tokens(s, d)[k] = Token(s, d, k)
    BY <1>1, TokensFacts
  <2> QED BY <1>4, <2>1
<1>7. Len(Tokens(q, d)) = c /\ Tokens(q, d) \in Seq(Seq(C))
      /\ \A k \in 1..c : Tokens(q, d)[k] = Token(q, d, k)
  BY TokensFacts
<1>8. ASSUME NEW k \in 1..c PROVE Token(s, d, k) = Token(q, d, k)
  <2> DEFINE a == IF k = 1 THEN 1 ELSE Ordered(E)[k - 1] + 1
             b == Ordered(E)[k] - 1
  <2>1. k = 1 \/ k - 1 \in 1..c
    BY <1>3
  <2>2. Token(q, d, k) = SubSeq(q, a, b)
    BY DEF Token
  <2>3. Token(s, d, k) = SubSeq(s, a, b)
    BY <1>4, <2>1 DEF Token
  <2>4. a \in Int /\ b \in Int /\ 1 <= a /\ b <= Len(q)
    <3>1. b \in Int /\ b <= Len(q)
      BY <1>1, <1>3
    <3>2. k - 1 \in 1..c => Ordered(E)[k - 1] \in 1..n
      BY <1>3
    <3> QED BY <2>1, <3>1, <3>2
  <2> DEFINE t == <<d>> \o r
  <2>5. t \in Seq(C) /\ s = q \o t
    <3>1. <<d>> \in Seq(C)
      OBVIOUS
    <3> QED BY <3>1, ConcatAssociative
  <2> HIDE DEF a, b, t, s
  <2> QED BY <2>2, <2>3, <2>4, <2>5, SubSeqOfFirst
<1>9. Token(s, d, c + 1) = r
  <2>1. c + 1 # 1 /\ (c + 1) - 1 = c /\ c \in 1..c
    BY <1>3
  <2>2. Token(s, d, c + 1) = SubSeq(s, n + 1, n + Len(r))
    <3>1. Ordered(F)[c] = n
      BY <1>4, <1>5, <2>1
    <3>2. m - 1 = n + Len(r)
      BY <1>1
    <3> HIDE DEF c, F, n, m, s
    <3> QED BY <1>4, <2>1, <3>1, <3>2 DEF Token, F
  <2> DEFINE p == q \o <<d>>
             one == 1
             z == Len(r)
  <2>3. p \in Seq(C) /\ Len(p) = n /\ one \in Int /\ z \in Int /\ 1 <= one /\ z <= Len(r)
    BY <1>1
  <2> HIDE DEF p, one, z
  <2>4. SubSeq(p \o r, Len(p) + one, Len(p) + z) = SubSeq(r, one, z)
    BY <2>3, SubSeqOfSecond
  <2>5. SubSeq(r, one, z) = r
    BY SubSeqFull DEF one, z
  <2> QED BY <2>2, <2>3, <2>4, <2>5 DEF p, one, z
<1> HIDE DEF s, c
<1>10. Append(Tokens(q, d), r) \in Seq(Seq(C)) /\ Len(Append(Tokens(q, d), r)) = c + 1
       /\ Append(Tokens(q, d), r)[c + 1] = r
       /\ \A k \in 1..c : Append(Tokens(q, d), r)[k] = Tokens(q, d)[k]
  BY <1>7, AppendProperties
<1>11. \A k \in 1..(c + 1) : Tokens(s, d)[k] = Append(Tokens(q, d), r)[k]
  <2>1. c \in Nat
    BY <1>7
  <2>2. \A k \in 1..(c + 1) : k \in 1..c \/ k = c + 1
    BY <2>1
  <2> QED BY <1>6, <1>7, <1>8, <1>9, <1>10, <2>2
<1>12. Tokens(s, d) = Append(Tokens(q, d), r)
  BY <1>6, <1>10, <1>11, SeqEqual
<1> QED BY <1>12 DEF s

(* A text is cut in two anywhere. *)
LEMMA Cut ==
  ASSUME NEW C, NEW s \in Seq(C), NEW p \in 0..Len(s)
  PROVE  /\ Without(s, p) \in Seq(C) /\ Len(Without(s, p)) = Len(s) - p
         /\ \A i \in 1..(Len(s) - p) : Without(s, p)[i] = s[p + i]
         /\ SubSeq(s, 1, p) \in Seq(C) /\ Len(SubSeq(s, 1, p)) = p
         /\ SubSeq(s, 1, p) \o Without(s, p) = s
<1> DEFINE u == SubSeq(s, 1, p)
           t == Without(s, p)
<1>0. Len(s) \in Nat /\ p \in Nat /\ p <= Len(s)
  OBVIOUS
<1>1. u \in Seq(C) /\ Len(u) = p /\ \A i \in 1..p : u[i] = s[i]
  <2>1. \A i \in 1..p : s[i] \in C
    BY <1>0
  <2>2. 1 <= p + 1 /\ p \in Int
    BY <1>0
  <2> QED BY <1>0, <2>1
<1>2. t \in Seq(C) /\ Len(t) = Len(s) - p /\ \A i \in 1..(Len(s) - p) : t[i] = s[p + i]
  <2>1. \A i \in (p + 1)..Len(s) : s[i] \in C
    BY <1>0
  <2>2. Without(s, p) = SubSeq(s, p + 1, Len(s))
    BY DEF Without
  <2> QED BY <1>0, <2>1, <2>2
<1> HIDE DEF u, t
<1>3. u \o t \in Seq(C) /\ Len(u \o t) = Len(s)
      /\ \A i \in 1..Len(s) : (u \o t)[i] = s[i]
  <2>0. u \o t \in Seq(C) /\ Len(u \o t) = Len(u) + Len(t)
        /\ \A i \in 1..(Len(u) + Len(t)) :
             (u \o t)[i] = IF i <= Len(u) THEN u[i] ELSE t[i - Len(u)]
    <3>1. u \in Seq(C) /\ t \in Seq(C)
      BY <1>1, <1>2
    <3> QED BY <3>1, ConcatProperties
  <2>1. u \o t \in Seq(C) /\ Len(u \o t) = Len(s)
    BY <1>0, <1>1, <1>2, <2>0
  <2>2. ASSUME NEW i \in 1..Len(s) PROVE (u \o t)[i] = s[i]
    <3>1. CASE i <= p
      BY <1>0, <1>1, <1>2, <2>0, <3>1
    <3>2. CASE i > p
      <4>1. i - p \in 1..(Len(s) - p) /\ p + (i - p) = i
        BY <1>0, <3>2
      <4>2. t[i - p] = s[i]
        BY <1>2, <4>1
      <4> QED BY <1>0, <1>1, <1>2, <2>0, <3>2, <4>2
    <3>3. i <= p \/ i > p
      BY <1>0
    <3> QED BY <3>1, <3>2, <3>3, Zenon
  <2> QED BY <2>1, <2>2
<1>4. u \o t = s
  BY <1>3, SeqEqual
<1> QED BY <1>1, <1>2, <1>4 DEF u, t

(* The first token ends at the first end; the others are those of what is  *)
(* behind it.                                                              *)
LEMMA TokensFirst ==
  ASSUME NEW C, NEW s \in Seq(C), NEW d, NEW p \in Ends(s, d), \A i \in Ends(s, d) : p <= i
  PROVE  /\ Tokens(s, d) # <<>>
         /\ Head(Tokens(s, d)) = SubSeq(s, 1, p - 1)
         /\ p = Len(s) + 1 => Tail(Tokens(s, d)) = <<>>
         /\ p # Len(s) + 1 => p \in 1..Len(s) /\ Tail(Tokens(s, d)) = Tokens(Without(s, p), d)
<1> DEFINE E == Ends(s, d)
           n == Len(s) + 1
           c == Cardinality(E)
           R == Shifted(E, p)
           toks == Tokens(s, d)
<1>1. n \in Nat /\ E \in SUBSET (1..n) /\ c \in Nat \ {0} /\ n \in E /\ p \in 1..n
      /\ \A k \in 1..c : Ordered(E)[k] \in 1..n
  <2>1. n \in E
    BY DEF Ends
  <2> QED BY <2>1, EndsFacts
<1>2. Len(toks) = c /\ toks \in Seq(Seq(C)) /\ \A k \in 1..c : toks[k] = Token(s, d, k)
  BY TokensFacts
<1>3. /\ Cardinality(R) = c - 1
      /\ Ordered(E)[1] = p
      /\ \A k \in 1..Cardinality(R) : Ordered(E)[k + 1] = Ordered(R)[k] + p
  <2>1. n \in Nat /\ E \in SUBSET (1..n) /\ E # {} /\ p \in E /\ \A i \in E : p <= i
    BY <1>1
  <2> HIDE DEF E, n
  <2> QED BY <2>1, OrderedRest
<1>4. toks # <<>> /\ Head(toks) = SubSeq(s, 1, p - 1)
  <2>1. 1 \in 1..c
    BY <1>1
  <2>2. toks[1] = Token(s, d, 1)
    BY <1>2, <2>1
  <2>3. Token(s, d, 1) = SubSeq(s, 1, p - 1)
    BY <1>3 DEF Token
  <2> HIDE DEF toks, c
  <2>4. toks # <<>> /\ Head(toks) = toks[1]
    BY <1>1, <1>2
  <2> QED BY <2>2, <2>3, <2>4
<1>5. Tail(toks) \in Seq(Seq(C)) /\ Len(Tail(toks)) = c - 1
      /\ \A k \in 1..(c - 1) : Tail(toks)[k] = toks[k + 1]
  <2> HIDE DEF toks, c
  <2> QED BY <1>1, <1>2, <1>4
<1>6. ASSUME p = n PROVE Tail(toks) = <<>>
  <2>1. E = {n}
    <3>1. ASSUME NEW i \in E PROVE i = n
      <4>1. p <= i /\ i \in 1..n
        BY <1>1
      <4> QED BY <1>6, <4>1
    <3> QED BY <1>1, <3>1
  <2>2. c = 1
    <3> HIDE DEF E, n
    <3> QED BY <2>1, FS_Singleton
  <2> HIDE DEF toks, c
  <2>3. Len(Tail(toks)) = 0
    BY <1>5, <2>2
  <2> QED BY <1>5, <2>3, EmptySeq
<1>7. ASSUME p # n PROVE p \in 1..Len(s) /\ Tail(toks) = Tokens(Without(s, p), d)
  <2> DEFINE t == Without(s, p)
             u == SubSeq(s, 1, p)
  <2>1. p \in 1..Len(s) /\ p \in 0..Len(s) /\ p \in Nat /\ Len(s) \in Nat
    BY <1>1, <1>7
  <2>2. t \in Seq(C) /\ Len(t) = Len(s) - p /\ (\A i \in 1..(Len(s) - p) : t[i] = s[p + i])
        /\ u \in Seq(C) /\ Len(u) = p /\ u \o t = s
    BY <2>1, Cut
  <2> HIDE DEF t, u
  <2>3. Ends(t, d) = R
    <3>1. ASSUME NEW i \in Ends(t, d) PROVE i \in R
      <4>1. CASE i = Len(t) + 1
        <5>1. i = n - p
          BY <2>1, <2>2, <4>1
        <5> QED BY <1>1, <1>7, <5>1 DEF Shifted
      <4>2. CASE i \in Positions(t, d)
        <5>1. i \in 1..(Len(s) - p) /\ s[p + i] = d
          BY <2>2, <4>2 DEF Positions
        <5>2. p + i \in 1..Len(s) /\ p + i # p /\ (p + i) - p = i
          BY <2>1, <5>1
        <5>3. p + i \in E
          BY <5>1, <5>2 DEF Ends, Positions
        <5> HIDE DEF E
        <5> QED BY <5>2, <5>3 DEF Shifted
      <4> QED BY <4>1, <4>2 DEF Ends
    <3>2. ASSUME NEW j \in E \ {p} PROVE j - p \in Ends(t, d)
      <4>1. p < j /\ j \in 1..n
        <5>1. p <= j /\ j \in 1..n /\ j # p
          BY <1>1
        <5> QED BY <2>1, <5>1
      <4>2. CASE j = n
        <5>1. j - p = Len(t) + 1
          BY <2>1, <2>2, <4>2
        <5> QED BY <5>1 DEF Ends
      <4>3. CASE j # n
        <5>1. j \in 1..Len(s) /\ s[j] = d
          BY <4>3 DEF Ends, Positions
        <5>2. j - p \in 1..(Len(s) - p) /\ p + (j - p) = j
          BY <2>1, <4>1, <5>1
        <5>3. t[j - p] = d
          BY <2>2, <5>1, <5>2
        <5> QED BY <2>2, <5>2, <5>3 DEF Ends, Positions
      <4> QED BY <4>2, <4>3
    <3> HIDE DEF E
    <3> QED BY <3>1, <3>2 DEF Shifted
  <2>4. Len(Tokens(t, d)) = c - 1 /\ Tokens(t, d) \in Seq(Seq(C))
        /\ \A k \in 1..(c - 1) : Tokens(t, d)[k] = Token(t, d, k)
    <3> HIDE DEF c, R
    <3> QED BY <1>3, <2>2, <2>3, TokensFacts
  <2>5. \A k \in 1..(c - 1) : Ordered(R)[k] \in 1..(Len(t) + 1)
    <3> HIDE DEF c, R
    <3> QED BY <1>3, <2>2, <2>3, EndsFacts
  <2>6. ASSUME NEW k \in 1..(c - 1) PROVE Token(s, d, k + 1) = Token(t, d, k)
    <3> DEFINE a == IF k = 1 THEN 1 ELSE Ordered(R)[k - 1] + 1
               b == Ordered(R)[k] - 1
               z == Ordered(E)[k] + 1
    <3>1. k \in Nat /\ k + 1 # 1 /\ (k + 1) - 1 = k /\ (k # 1 => k - 1 \in 1..(c - 1)) /\ (k - 1) + 1 = k
      BY <1>1
    <3>2. Ordered(R)[k] \in 1..(Len(t) + 1)
          /\ (k # 1 => Ordered(R)[k - 1] \in 1..(Len(t) + 1))
      <4> HIDE DEF R, c
      <4> QED BY <2>5, <3>1
    <3>3. Token(t, d, k) = SubSeq(t, a, b)
      <4> HIDE DEF R
      <4> QED BY <2>3 DEF Token
    <3>4. Token(s, d, k + 1) = SubSeq(s, z, Ordered(E)[k + 1] - 1)
      <4> HIDE DEF E
      <4> QED BY <3>1 DEF Token, E
    <3>5. z = p + a
      <4>1. CASE k = 1
        <5> HIDE DEF E, R
        <5> QED BY <1>3, <2>1, <4>1
      <4>2. CASE k # 1
        <5>1. Ordered(E)[(k - 1) + 1] = Ordered(R)[k - 1] + p
          <6> HIDE DEF E, R, c
          <6> QED BY <1>3, <3>1, <4>2
        <5> HIDE DEF E, R, c
        <5> QED BY <2>1, <3>1, <3>2, <4>2, <5>1
      <4> QED BY <4>1, <4>2
    <3>6. Ordered(E)[k + 1] - 1 = p + b
      <4> HIDE DEF E, R, c
      <4>1. Ordered(E)[k + 1] = Ordered(R)[k] + p
        BY <1>3
      <4> QED BY <2>1, <3>2, <4>1
    <3>7. a \in Int /\ b \in Int /\ 1 <= a /\ b <= Len(t)
      <4> HIDE DEF R
      <4> QED BY <2>1, <2>2, <3>1, <3>2
    <3> HIDE DEF a, b, z, E
    <3>8. SubSeq(u \o t, Len(u) + a, Len(u) + b) = SubSeq(t, a, b)
      BY <2>2, <3>7, SubSeqOfSecond
    <3> QED BY <2>2, <3>3, <3>4, <3>5, <3>6, <3>8
  <2>7. \A k \in 1..(c - 1) : Tail(toks)[k] = Tokens(t, d)[k]
    <3> SUFFICES ASSUME NEW k \in 1..(c - 1) PROVE Tail(toks)[k] = Tokens(t, d)[k]
      OBVIOUS
    <3>1. k + 1 \in 1..c
      BY <1>1
    <3> HIDE DEF toks, c
    <3> QED BY <1>2, <1>5, <2>4, <2>6, <3>1
  <2> HIDE DEF toks, c
  <2>8. Tail(toks) = Tokens(t, d)
    BY <1>5, <2>4, <2>7, SeqEqual
  <2> QED BY <2>1, <2>8 DEF t
<1> QED BY <1>4, <1>6, <1>7 DEF toks, n

(***************************************************************************)
(* Joined texts.                                                           *)
(***************************************************************************)
(* F[i] joins the first i of the texts. *)
Joins(F, seqs, C) ==
  /\ F \in [0..Len(seqs) -> Seq(C)]
  /\ F[0] = <<>>
  /\ \A i \in 1..Len(seqs) : F[i] = F[i - 1] \o seqs[i]

LEMMA Flatten ==
  ASSUME NEW C, NEW seqs \in Seq(Seq(C))
  PROVE  \E F : Joins(F, seqs, C) /\ FlattenSeq(seqs) = F[Len(seqs)]
<1> DEFINE n == Len(seqs)
           Good(k, F) == /\ F \in [0..k -> Seq(C)] /\ F[0] = <<>>
                         /\ \A i \in 1..k : F[i] = F[i - 1] \o seqs[i]
           S == {k \in 0..n : \E F : Good(k, F)}
<1>1. n \in Nat /\ \A i \in 1..n : seqs[i] \in Seq(C)
  OBVIOUS
<1>2. 0 \in S
  <2> DEFINE F == [i \in 0..0 |-> <<>>]
  <2>1. Good(0, F)
    OBVIOUS
  <2> HIDE DEF F, Good
  <2> QED BY <1>1, <2>1
<1>3. ASSUME NEW k \in 0..(n - 1), k \in S PROVE k + 1 \in S
  <2>1. PICK F : Good(k, F)
    <3> HIDE DEF Good
    <3> QED BY <1>3
  <2> DEFINE m == k + 1
             G == [i \in 0..m |-> IF i = m THEN F[k] \o seqs[m] ELSE F[i]]
  <2>2. k \in Nat /\ m \in 1..n /\ m \in 0..n /\ k \in 0..k /\ m - 1 = k
        /\ \A i \in 0..m : i # m => i \in 0..k
    BY <1>1
  <2>3. F[k] \o seqs[m] \in Seq(C)
    BY <1>1, <2>1, <2>2
  <2>4. G \in [0..m -> Seq(C)] /\ G[m] = F[k] \o seqs[m] /\ \A i \in 0..k : G[i] = F[i]
    BY <2>1, <2>2, <2>3
  <2> HIDE DEF G
  <2>5. G[0] = <<>>
    BY <2>1, <2>2, <2>4
  <2>6. ASSUME NEW i \in 1..m PROVE G[i] = G[i - 1] \o seqs[i]
    <3>1. CASE i = m
      BY <2>2, <2>4, <3>1
    <3>2. CASE i # m
      <4>1. i \in 1..k /\ i \in 0..k /\ i - 1 \in 0..k
        BY <2>2, <3>2
      <4>2. F[i] = F[i - 1] \o seqs[i]
        BY <2>1, <4>1
      <4> QED BY <2>4, <4>1, <4>2
    <3> QED BY <3>1, <3>2
  <2>7. Good(m, G)
    BY <2>4, <2>5, <2>6
  <2> HIDE DEF Good, m
  <2>8. m \in S
    BY <2>2, <2>7
  <2> QED BY <2>8 DEF m
<1>4. n \in 0..n
  BY <1>1
<1>5. PICK F : Good(n, F)
  <2> HIDE DEF n, Good
  <2>1. \A i \in 0..n : i \in S
    <3> HIDE DEF S
    <3> QED BY <1>1, <1>2, <1>3, Induction
  <2> QED BY <1>4, <2>1
<1>6. CASE n = 0
  <2>1. F = [i \in 0..n |-> F[i]] /\ FlattenSeq(seqs) = <<>>
    BY <1>5, <1>6, EmptySeq DEF FlattenSeq
  <2> QED BY <1>5, <1>6, <2>1 DEF Joins
<1>7. CASE n # 0
  <2> DEFINE Body(f) == [i \in 1..n |-> IF i = 1 THEN seqs[i] ELSE f[i - 1] \o seqs[i]]
             flatten == CHOOSE f : f = Body(f)
             g == [i \in 1..n |-> F[i]]
  <2>1. FlattenSeq(seqs) = flatten[n]
    BY <1>7 DEF FlattenSeq
  <2>2. g = Body(g)
    <3>1. ASSUME NEW i \in 1..n PROVE F[i] = IF i = 1 THEN seqs[i] ELSE g[i - 1] \o seqs[i]
      <4>1. CASE i = 1
        <5>1. F[i] = <<>> \o seqs[i] /\ seqs[i] \in Seq(C)
          <6>1. i - 1 = 0
            BY <4>1
          <6>2. F[i] = F[i - 1] \o seqs[i] /\ F[0] = <<>> /\ seqs[i] \in Seq(C)
            BY <1>1, <1>5
          <6> QED BY <6>1, <6>2
        <5> QED BY <4>1, <5>1, ConcatEmptySeq
      <4>2. CASE i # 1
        <5>1. i - 1 \in 1..n
          BY <1>1, <4>2
        <5> QED BY <1>5, <4>2, <5>1
      <4> QED BY <4>1, <4>2
    <3> QED BY <3>1
  <2>3. flatten = Body(flatten)
    <3> HIDE DEF Body, g
    <3> QED BY <2>2
  <2> DEFINE S2 == {i \in 0..n : i = 0 \/ flatten[i] = F[i]}
  <2> HIDE DEF flatten
  <2>4. ASSUME NEW i \in 1..n PROVE flatten[i] = IF i = 1 THEN seqs[i] ELSE flatten[i - 1] \o seqs[i]
    BY <2>3
  <2> HIDE DEF Body
  <2>5. ASSUME NEW k \in 0..(n - 1), k \in S2 PROVE k + 1 \in S2
    <3> DEFINE m == k + 1
    <3>1. m \in 1..n /\ m \in 0..n /\ m - 1 = k /\ k \in Nat
      BY <1>1
    <3>2. F[m] = F[k] \o seqs[m] /\ flatten[m] = IF m = 1 THEN seqs[m] ELSE flatten[k] \o seqs[m]
      BY <1>5, <2>4, <3>1
    <3>3. CASE k = 0
      <4>1. F[m] = <<>> \o seqs[m] /\ seqs[m] \in Seq(C) /\ flatten[m] = seqs[m]
        BY <1>1, <1>5, <3>1, <3>2, <3>3
      <4>2. flatten[m] = F[m]
        BY <4>1, ConcatEmptySeq
      <4> HIDE DEF m
      <4>3. m \in S2
        BY <3>1, <4>2
      <4> QED BY <4>3 DEF m
    <3>4. CASE k # 0
      <4>1. flatten[k] = F[k] /\ m # 1
        BY <2>5, <3>1, <3>4
      <4> HIDE DEF m
      <4>2. m \in S2
        BY <3>1, <3>2, <4>1
      <4> QED BY <4>2 DEF m
    <3> QED BY <3>3, <3>4
  <2>6. 0 \in S2
    BY <1>1
  <2>7. \A i \in 0..n : i \in S2
    <3> HIDE DEF S2, n
    <3> QED BY <1>1, <2>5, <2>6, Induction
  <2>8. flatten[n] = F[n]
    BY <1>4, <1>7, <2>7
  <2> QED BY <1>5, <2>1, <2>8 DEF Joins
<1> QED BY <1>6, <1>7

(***************************************************************************)
(* Parts.                                                                  *)
(***************************************************************************)
Safe == Unreserved \cup {"%"}
Escape(c) == IF c \in Unreserved THEN <<c>> ELSE <<"%">> \o octetToHex[c]
Escapes(value) == [i \in 1..Len(value) |-> Escape(value[i])]

LEMMA Triple ==
  ASSUME NEW a, NEW x, NEW y
  PROVE  <<a>> \o <<x, y>> = <<a, x, y>>
<1> DEFINE D == {a, x, y}
           s == <<a>>
           t == <<x, y>>
           u == <<a, x, y>>
<1>1. s \in Seq(D) /\ t \in Seq(D) /\ u \in Seq(D) /\ Len(s) = 1 /\ Len(t) = 2 /\ Len(u) = 3
      /\ s[1] = a /\ t[1] = x /\ t[2] = y /\ u[1] = a /\ u[2] = x /\ u[3] = y
  OBVIOUS
<1> HIDE DEF D, s, t, u
<1>2. s \o t \in Seq(D) /\ Len(s \o t) = 3
      /\ \A i \in 1..3 : (s \o t)[i] = IF i <= 1 THEN s[i] ELSE t[i - 1]
  <2>1. s \o t \in Seq(D) /\ Len(s \o t) = Len(s) + Len(t)
        /\ \A i \in 1..(Len(s) + Len(t)) :
             (s \o t)[i] = IF i <= Len(s) THEN s[i] ELSE t[i - Len(s)]
    BY <1>1, ConcatProperties
  <2>2. Len(s) + Len(t) = 3
    BY <1>1
  <2> QED BY <1>1, <2>1, <2>2
<1>3. \A i \in 1..3 : (s \o t)[i] = u[i]
  BY <1>1, <1>2
<1>4. s \o t = u
  BY <1>1, <1>2, <1>3, SeqEqual
<1> QED BY <1>4 DEF s, t, u

LEMMA EscapeFacts ==
  ASSUME NEW c \in Characters
  PROVE  /\ Escape(c) \in Seq(Safe) /\ Len(Escape(c)) \in Nat /\ Len(Escape(c)) <= 3
         /\ c \in Unreserved => Escape(c) = <<c>> /\ c # "%"
         /\ c \notin Unreserved =>
              /\ c \in DOMAIN octetToHex
              /\ \E x, y \in Unreserved : octetToHex[c] = <<x, y>> /\ Escape(c) = <<"%", x, y>>
<1>1. CASE c \in Unreserved
  <2>1. Escape(c) = <<c>> /\ c \in Safe
    BY <1>1 DEF Escape, Safe
  <2>2. c # "%"
    BY <1>1, UrlAssumption
  <2> QED BY <1>1, <2>1, <2>2
<1>2. CASE c \notin Unreserved
  <2>1. c \in DOMAIN octetToHex
    BY <1>2 DEF Characters
  <2>2. PICK x \in Unreserved, y \in Unreserved : octetToHex[c] = <<x, y>>
    BY <2>1, UrlAssumption
  <2>3. Escape(c) = <<"%", x, y>>
    <3>1. Escape(c) = <<"%">> \o <<x, y>>
      BY <1>2, <2>2 DEF Escape
    <3> QED BY <3>1, Triple
  <2>4. <<"%", x, y>> \in Seq(Safe) /\ Len(<<"%", x, y>>) = 3
    BY DEF Safe
  <2> QED BY <1>2, <2>1, <2>2, <2>3, <2>4
<1> QED BY <1>1, <1>2

LEMMA EncodedFacts ==
  ASSUME NEW value \in Seq(Characters)
  PROVE  /\ appendUrlEncoded(value) = FlattenSeq(Escapes(value))
         /\ Escapes(value) \in Seq(Seq(Safe)) /\ Len(Escapes(value)) = Len(value)
         /\ appendUrlEncoded(value) \in Seq(Safe)
         /\ Len(appendUrlEncoded(value)) <= 3 * Len(value)
<1> DEFINE n == Len(value)
           e == Escapes(value)
<1>1. n \in Nat /\ \A i \in 1..n : value[i] \in Characters
  OBVIOUS
<1>2. appendUrlEncoded(value) = FlattenSeq(e)
  BY DEF appendUrlEncoded, Escapes, Escape
<1>3. \A i \in 1..n : e[i] = Escape(value[i])
  BY DEF Escapes
<1>4. \A i \in 1..n : e[i] \in Seq(Safe) /\ Len(e[i]) \in Nat /\ Len(e[i]) <= 3
  BY <1>1, <1>3, EscapeFacts
<1>5. e = [i \in 1..n |-> e[i]]
  BY DEF Escapes
<1> HIDE DEF e
<1>6. e \in Seq(Seq(Safe)) /\ Len(e) = n
  BY <1>1, <1>4, <1>5
<1>7. PICK F : Joins(F, e, Safe) /\ FlattenSeq(e) = F[Len(e)]
  BY <1>6, Flatten
<1> HIDE DEF n
<1>8. F \in [0..n -> Seq(Safe)] /\ F[0] = <<>> /\ \A i \in 1..n : F[i] = F[i - 1] \o e[i]
  BY <1>6, <1>7 DEF Joins
<1> DEFINE S == {i \in 0..n : Len(F[i]) <= 3 * i}
<1>9. 0 \in S
  BY <1>1, <1>8, EmptySeq
<1>10. ASSUME NEW k \in 0..(n - 1), k \in S PROVE k + 1 \in S
  <2> DEFINE m == k + 1
  <2>1. m \in 1..n /\ m \in 0..n /\ k \in 0..n /\ m - 1 = k /\ k \in Nat /\ m = k + 1
    BY <1>1
  <2> HIDE DEF m
  <2>2. F[m] = F[k] \o e[m] /\ F[k] \in Seq(Safe) /\ e[m] \in Seq(Safe) /\ Len(e[m]) <= 3
    <3>1. F[m] = F[m - 1] \o e[m] /\ F[k] \in Seq(Safe)
      BY <1>8, <2>1
    <3>2. e[m] \in Seq(Safe) /\ Len(e[m]) \in Nat /\ Len(e[m]) <= 3
      BY <1>4, <2>1
    <3>3. F[m] = F[k] \o e[m]
      BY <2>1, <3>1
    <3> QED BY <3>1, <3>2, <3>3
  <2>3. Len(F[m]) = Len(F[k]) + Len(e[m]) /\ Len(F[k]) \in Nat /\ Len(e[m]) \in Nat
    BY <2>2
  <2>4. Len(F[k]) <= 3 * k
    BY <1>10
  <2> DEFINE x == Len(F[m])
             y == Len(F[k])
             z == Len(e[m])
  <2>5. x <= 3 * m
    <3>1. x = y + z /\ y \in Nat /\ z \in Nat /\ y <= 3 * k /\ z <= 3
      BY <2>2, <2>3, <2>4
    <3> HIDE DEF x, y, z
    <3> QED BY <2>1, <3>1
  <2>6. m \in S
    BY <2>1, <2>5
  <2> QED BY <2>1, <2>6
<1>11. \A i \in 0..n : i \in S
  <2> HIDE DEF S
  <2> QED BY <1>1, <1>9, <1>10, Induction
<1>12. Len(F[n]) <= 3 * n /\ F[n] \in Seq(Safe)
  BY <1>1, <1>8, <1>11
<1> QED BY <1>2, <1>6, <1>7, <1>12 DEF n, e

(* Whatever a part is made of. *)
LEMMA PartFacts ==
  ASSUME NEW part \in Part
  PROVE  /\ appendTo(part) \in Seq(Characters)
         /\ partSize(part) \in Nat /\ Len(appendTo(part)) <= partSize(part)
<1>1. part.value \in Seq(Characters) /\ Len(part.value) \in Nat
  BY DEF Part
<1>2. CASE part.type = "raw"
  BY <1>1, <1>2 DEF appendTo, partSize
<1>3. CASE part.type # "raw"
  <2>1. appendUrlEncoded(part.value) \in Seq(Safe)
        /\ Len(appendUrlEncoded(part.value)) <= 3 * Len(part.value)
    BY <1>1, EncodedFacts
  <2>2. Safe \subseteq Characters
    BY UrlAssumption DEF Safe, Characters
  <2>3. appendTo(part) = appendUrlEncoded(part.value) /\ partSize(part) = 3 * Len(part.value)
    BY <1>3 DEF appendTo, partSize
  <2> QED BY <1>1, <2>1, <2>2, <2>3
<1> QED BY <1>2, <1>3

(***************************************************************************)
(* The estimate.                                                           *)
(***************************************************************************)
Pieces(parts) ==
  [i \in 1..Len(parts) |->
    (IF i = 1 THEN <<>> ELSE IF i % 2 = 0 THEN <<"=">> ELSE <<"&">>) \o appendTo(parts[i])]

LEMMA PiecesFacts ==
  ASSUME NEW parts \in Seq(Part)
  PROVE  /\ appendParams(parts) = FlattenSeq(Pieces(parts))
         /\ Pieces(parts) \in Seq(Seq(Characters)) /\ Len(Pieces(parts)) = Len(parts)
         /\ \A i \in 1..Len(parts) :
              /\ Pieces(parts)[i] =
                   (IF i = 1 THEN <<>> ELSE IF i % 2 = 0 THEN <<"=">> ELSE <<"&">>) \o appendTo(parts[i])
              /\ Len(Pieces(parts)[i]) <= partSize(parts[i]) + (IF i = 1 THEN 0 ELSE 1)
<1> DEFINE n == Len(parts)
           Mark(i) == IF i = 1 THEN <<>> ELSE IF i % 2 = 0 THEN <<"=">> ELSE <<"&">>
           p == Pieces(parts)
<1>1. n \in Nat /\ \A i \in 1..n : parts[i] \in Part
  OBVIOUS
<1>2. appendParams(parts) = FlattenSeq(p)
  BY DEF appendParams, Pieces
<1>3. p = [i \in 1..n |-> Mark(i) \o appendTo(parts[i])]
  BY DEF Pieces
<1>4. ASSUME NEW i \in 1..n
      PROVE  Mark(i) \in Seq(Characters) /\ Len(Mark(i)) = IF i = 1 THEN 0 ELSE 1
  <2>1. "=" \in Characters /\ "&" \in Characters
    BY UrlAssumption DEF Characters
  <2> QED BY <2>1
<1> HIDE DEF Mark, p
<1>5. ASSUME NEW i \in 1..n
      PROVE  /\ p[i] = Mark(i) \o appendTo(parts[i]) /\ p[i] \in Seq(Characters)
             /\ Len(p[i]) <= partSize(parts[i]) + (IF i = 1 THEN 0 ELSE 1)
  <2>1. appendTo(parts[i]) \in Seq(Characters) /\ partSize(parts[i]) \in Nat
        /\ Len(appendTo(parts[i])) <= partSize(parts[i])
    BY <1>1, PartFacts
  <2>2. p[i] = Mark(i) \o appendTo(parts[i])
    BY <1>3
  <2>3. Mark(i) \o appendTo(parts[i]) \in Seq(Characters)
        /\ Len(Mark(i) \o appendTo(parts[i])) = Len(Mark(i)) + Len(appendTo(parts[i]))
    BY <1>4, <2>1, ConcatProperties
  <2>4. Len(appendTo(parts[i])) \in Nat
    BY <2>1
  <2>5. Len(p[i]) = Len(Mark(i)) + Len(appendTo(parts[i])) /\ p[i] \in Seq(Characters)
    BY <2>2, <2>3
  <2>6. Len(p[i]) <= partSize(parts[i]) + (IF i = 1 THEN 0 ELSE 1)
    <3>1. Len(Mark(i)) = IF i = 1 THEN 0 ELSE 1
      BY <1>4
    <3> DEFINE x == Len(p[i])
               y == Len(appendTo(parts[i]))
               z == partSize(parts[i])
               w == Len(Mark(i))
    <3>2. x = w + y /\ y \in Nat /\ z \in Nat /\ y <= z /\ w = IF i = 1 THEN 0 ELSE 1
      BY <2>1, <2>4, <2>5, <3>1
    <3> HIDE DEF x, y, z, w
    <3>3. x <= z + (IF i = 1 THEN 0 ELSE 1)
      BY <3>2
    <3> QED BY <3>3 DEF x, z
  <2> QED BY <2>2, <2>5, <2>6
<1>6. p \in Seq(Seq(Characters)) /\ Len(p) = n
  BY <1>1, <1>3, <1>5
<1> QED BY <1>2, <1>5, <1>6 DEF p, Mark

(* What the parts and their separators take, the one in front included. *)
LEMMA Estimate ==
  ASSUME NEW parts \in Seq(Part), parts # <<>>, NEW mode
  PROVE  /\ appendParams(parts) \in Seq(Characters)
         /\ maxEncodedSize(mode, parts) \in Int
         /\ Len(appendParams(parts)) + (IF mode = "queryString" THEN 0 ELSE 1) <= maxEncodedSize(mode, parts)
<1> DEFINE n == Len(parts)
           base == IF mode = "queryString" THEN -1 ELSE 0
           w == [i \in 1..n |-> partSize(parts[i])]
           Body(f) == [i \in 0..n |-> IF i = 0 THEN base ELSE f[i - 1] + partSize(parts[i]) + 1]
           size == CHOOSE f : f = Body(f)
           p == Pieces(parts)
<1>1. n \in Nat /\ n # 0 /\ \A i \in 1..n : parts[i] \in Part
  BY EmptySeq
<1>2. \A i \in 1..n : partSize(parts[i]) \in Nat
  BY <1>1, PartFacts
<1>3. maxEncodedSize(mode, parts) = size[n]
  BY DEF maxEncodedSize
<1>4. size = Body(size)
  <2> DEFINE B == {0}
             a == [i \in 0..n |-> base]
             c == 1
             b == [i \in 0..n |-> partSize(parts[i]) + 1]
             before == [i \in 0..n |-> i - 1]
  <2>1. \A i \in 0..n : i \in B => a[i] \in Int
    OBVIOUS
  <2>2. \A i \in 0..n : i \notin B => before[i] \in 0..(i - 1) /\ b[i] \in Int
    <3>1. \A i \in 0..n : i # 0 => i \in 1..n
      BY <1>1
    <3> QED BY <1>2, <3>1
  <2>3. c \in Int
    OBVIOUS
  <2> HIDE DEF B, a, b, c, before
  <2>4. PICK g \in [0..n -> Int] : Solves(g, n, B, a, c, b, before)
    <3> HIDE DEF n
    <3> QED BY <1>1, <2>1, <2>2, <2>3, RecursionExists
  <2>5. g = Body(g)
    <3>1. g = [i \in 0..n |-> IF i \in B THEN a[i] ELSE c * g[before[i]] + b[i]]
      BY <2>4 DEF Solves
    <3>2. ASSUME NEW i \in 0..n
          PROVE  (IF i \in B THEN a[i] ELSE c * g[before[i]] + b[i])
                 = IF i = 0 THEN base ELSE g[i - 1] + partSize(parts[i]) + 1
      <4>1. CASE i = 0
        BY <4>1 DEF B, a
      <4>2. CASE i # 0
        <5>1. i \in 1..n /\ i - 1 \in 0..n
          BY <1>1, <4>2
        <5>2. g[i - 1] \in Int /\ partSize(parts[i]) \in Nat
          BY <1>2, <5>1
        <5>3. before[i] = i - 1 /\ b[i] = partSize(parts[i]) + 1 /\ c = 1 /\ i \notin B
          BY <4>2 DEF before, b, c, B
        <5> QED BY <4>2, <5>2, <5>3
      <4> QED BY <4>1, <4>2
    <3> HIDE DEF base
    <3> QED BY <3>1, <3>2
  <2> HIDE DEF Body
  <2> QED BY <2>5
<1> HIDE DEF size
<1>5. size[0] = base /\ \A i \in 1..n : size[i] = size[i - 1] + partSize(parts[i]) + 1
  <2>1. \A i \in 0..n : size[i] = IF i = 0 THEN base ELSE size[i - 1] + partSize(parts[i]) + 1
    <3> HIDE DEF base
    <3> QED BY <1>4
  <2>2. 0 \in 0..n /\ \A i \in 1..n : i \in 0..n /\ i # 0
    BY <1>1
  <2> HIDE DEF base
  <2> QED BY <2>1, <2>2
<1>6. appendParams(parts) = FlattenSeq(p) /\ p \in Seq(Seq(Characters)) /\ Len(p) = n
      /\ \A i \in 1..n : Len(p[i]) <= partSize(parts[i]) + (IF i = 1 THEN 0 ELSE 1)
  BY PiecesFacts
<1> HIDE DEF p
<1>7. PICK G : Joins(G, p, Characters) /\ FlattenSeq(p) = G[Len(p)]
  BY <1>6, Flatten
<1>8. G \in [0..n -> Seq(Characters)] /\ G[0] = <<>> /\ \A i \in 1..n : G[i] = G[i - 1] \o p[i]
  BY <1>6, <1>7 DEF Joins
<1> DEFINE front == IF mode = "queryString" THEN 0 ELSE 1
           S == {i \in 0..n : size[i] \in Int /\ (i # 0 => Len(G[i]) + front <= size[i])}
<1>9. base \in Int /\ front \in Int /\ base + 1 = front
  OBVIOUS
<1> HIDE DEF base, front
<1>10. 0 \in S
  BY <1>1, <1>5, <1>9
<1>11. ASSUME NEW k \in 0..(n - 1), k \in S PROVE k + 1 \in S
  <2> DEFINE m == k + 1
  <2>1. m \in 1..n /\ m \in 0..n /\ k \in 0..n /\ m - 1 = k /\ k \in Nat /\ m = k + 1 /\ m # 0
        /\ (m = 1 <=> k = 0)
    BY <1>1
  <2> HIDE DEF m, n
  <2>2. G[m] = G[k] \o p[m] /\ G[k] \in Seq(Characters) /\ p[m] \in Seq(Characters)
    <3>1. G[m] = G[m - 1] \o p[m] /\ G[k] \in Seq(Characters)
      BY <1>8, <2>1
    <3>2. p[m] \in Seq(Characters)
      BY <1>6, <2>1
    <3> QED BY <2>1, <3>1, <3>2
  <2>3. Len(G[m]) = Len(G[k]) + Len(p[m]) /\ Len(G[k]) \in Nat /\ Len(p[m]) \in Nat
    BY <2>2
  <2>4. Len(p[m]) <= partSize(parts[m]) + (IF m = 1 THEN 0 ELSE 1) /\ partSize(parts[m]) \in Nat
    BY <1>2, <1>6, <2>1
  <2>5. size[m] = size[k] + partSize(parts[m]) + 1 /\ size[k] \in Int
        /\ (k # 0 => Len(G[k]) + front <= size[k])
    <3>1. size[m] = size[m - 1] + partSize(parts[m]) + 1
      BY <1>5, <2>1
    <3> QED BY <1>11, <2>1, <3>1
  <2>6. k = 0 => Len(G[k]) = 0 /\ size[k] = base
    BY <1>5, <1>8, EmptySeq
  <2> DEFINE x == Len(G[m])
             y == Len(G[k])
             z == Len(p[m])
             v == partSize(parts[m])
             t == size[m]
             u == size[k]
  <2>7. t \in Int /\ x + front <= t
    <3>1. x = y + z /\ y \in Nat /\ z \in Nat /\ v \in Nat /\ u \in Int
          /\ z <= v + (IF m = 1 THEN 0 ELSE 1) /\ t = u + v + 1
          /\ (k # 0 => y + front <= u) /\ (k = 0 => y = 0 /\ u = base)
      BY <2>3, <2>4, <2>5, <2>6
    <3> HIDE DEF x, y, z, v, t, u
    <3> QED BY <1>9, <2>1, <3>1
  <2>8. m \in S
    BY <2>1, <2>7
  <2> QED BY <2>1, <2>8
<1>12. \A i \in 0..n : i \in S
  <2> HIDE DEF S, n
  <2> QED BY <1>1, <1>10, <1>11, Induction
<1>13. n \in S /\ n \in 0..n
  BY <1>1, <1>12
<1>14. G[n] \in Seq(Characters) /\ size[n] \in Int /\ Len(G[n]) + front <= size[n]
  BY <1>1, <1>8, <1>13
<1>15. appendParams(parts) = G[n]
  BY <1>6, <1>7
<1> QED BY <1>3, <1>14, <1>15 DEF front

(***************************************************************************)
(* Room for the text.                                                      *)
(***************************************************************************)
LEMMA MaxOfTwo ==
  ASSUME NEW x \in Int, NEW y \in Int
  PROVE  Max({x, y}) = IF x >= y THEN x ELSE y
<1> DEFINE m == IF x >= y THEN x ELSE y
           S == {x, y}
<1>1. m \in S /\ \A z \in S : m >= z
  OBVIOUS
<1>2. \A z \in S : (\A u \in S : z >= u) => z = m
  OBVIOUS
<1> HIDE DEF m, S
<1>3. Max(S) = m
  BY <1>1, <1>2 DEF Max
<1> QED BY <1>3 DEF m, S

Buffer == [text : Seq(Characters), capacity : Nat]
QueryStates == {"queryEmptyUrl", "queryEmptyQueryString", "queryNonEmpty"}

TypeOK ==
  /\ status \in [Builders -> {"none", "live", "moved"}]
  /\ m_buf \in [Builders -> Buffer]
  /\ m_queryState \in [Builders -> QueryStates]

(* EncodedFits is inductive with the types of the fields. *)
FitsInv == TypeOK /\ EncodedFits

LEMMA HoldsFits ==
  ASSUME FitsInv, NEW b \in Builders, NEW text \in Seq(Characters), NEW size \in Int,
         Len(text) <= size, NEW state \in QueryStates,
         Holds(b, text, size, state)
  PROVE  FitsInv'
<1> DEFINE buf == [text |-> text, capacity |-> Max({m_buf[b].capacity, size})]
<1>1. m_buf[b].capacity \in Nat
  BY DEF FitsInv, TypeOK, Buffer
<1>2. buf \in Buffer /\ Len(buf.text) <= buf.capacity
  <2>1. Max({m_buf[b].capacity, size}) =
          IF m_buf[b].capacity >= size THEN m_buf[b].capacity ELSE size
    BY <1>1, MaxOfTwo
  <2>2. Len(text) \in Nat
    OBVIOUS
  <2> QED BY <1>1, <2>1, <2>2 DEF Buffer
<1>3. m_buf' = [m_buf EXCEPT ![b] = buf]
  BY DEF Holds
<1> HIDE DEF buf
<1>4. TypeOK'
  <2>1. m_buf' \in [Builders -> Buffer]
    BY <1>2, <1>3 DEF FitsInv, TypeOK
  <2> QED BY <2>1 DEF Holds, FitsInv, TypeOK
<1>5. EncodedFits'
  <2>1. ASSUME NEW x \in Builders PROVE Len(m_buf'[x].text) <= m_buf'[x].capacity
    <3>1. m_buf'[x] = IF x = b THEN buf ELSE m_buf[x]
      BY <1>3 DEF FitsInv, TypeOK
    <3>2. Len(m_buf[x].text) <= m_buf[x].capacity
      BY DEF FitsInv, EncodedFits
    <3> QED BY <1>2, <3>1, <3>2
  <2> QED BY <2>1 DEF EncodedFits
<1> QED BY <1>4, <1>5 DEF FitsInv

LEMMA BaseFacts ==
  ASSUME NEW base \in Bases \cup {NoBase}
  PROVE  BaseText(base) \in Seq(Characters) /\ Len(BaseText(base)) \in Nat
<1>1. CASE base = NoBase
  BY <1>1 DEF BaseText
<1>2. CASE base # NoBase
  <2>1. base \in Seq(Characters)
    BY <1>2, UrlAssumption
  <2> QED BY <1>2, <2>1 DEF BaseText
<1> QED BY <1>1, <1>2

LEMMA SeparatorFacts ==
  ASSUME NEW mode, NEW state
  PROVE  /\ separator(mode, state) \in Seq(Characters)
         /\ Len(separator(mode, state)) <= IF mode = "queryString" THEN 0 ELSE 1
         /\ Len(separator(mode, state)) \in Nat
<1>1. "?" \in Characters /\ "&" \in Characters
  BY UrlAssumption DEF Characters
<1>2. CASE separator(mode, state) = <<>>
  BY <1>2
<1>3. CASE separator(mode, state) = <<"?">> /\ mode # "queryString"
  BY <1>1, <1>3
<1>4. CASE separator(mode, state) = <<"&">> /\ mode # "queryString"
  BY <1>1, <1>4
<1> QED BY <1>2, <1>3, <1>4 DEF separator

(* The text with the parts behind it fits the estimate. *)
LEMMA AppendedFits ==
  ASSUME NEW text \in Seq(Characters), NEW parts \in Seq(Part), parts # <<>>, NEW mode, NEW state,
         NEW all, all = text \o separator(mode, state) \o appendParams(parts)
  PROVE  /\ all \in Seq(Characters) /\ maxEncodedSize(mode, parts) \in Int
         /\ Len(all) <= Len(text) + maxEncodedSize(mode, parts)
<1> DEFINE s == separator(mode, state)
           a == appendParams(parts)
           e == maxEncodedSize(mode, parts)
           c == IF mode = "queryString" THEN 0 ELSE 1
<1>1. s \in Seq(Characters) /\ Len(s) \in Nat /\ Len(s) <= c
  BY SeparatorFacts
<1>2. a \in Seq(Characters) /\ e \in Int /\ Len(a) + c <= e
  BY Estimate
<1>3. all = (text \o s) \o a
  OBVIOUS
<1>4. c \in Int
  OBVIOUS
<1> HIDE DEF s, a, e, c
<1>5. text \o s \in Seq(Characters) /\ Len(text \o s) = Len(text) + Len(s)
  BY <1>1, ConcatProperties
<1>6. all \in Seq(Characters) /\ Len(all) = Len(text \o s) + Len(a)
  BY <1>2, <1>3, <1>5, ConcatProperties
<1>7. Len(all) <= Len(text) + e
  <2>1. Len(text) \in Nat /\ Len(a) \in Nat
    BY <1>2
  <2> QED BY <1>1, <1>2, <1>4, <1>5, <1>6, <2>1
<1> QED BY <1>2, <1>6, <1>7 DEF e

(* A b that swaps with, takes over from or becomes an empty object. *)
LEMMA CopiesFit ==
  ASSUME FitsInv, NEW b \in Builders, NEW o \in Builders,
         NEW p \in Buffer, NEW q \in Buffer, Len(p.text) <= p.capacity, Len(q.text) <= q.capacity,
         NEW s \in QueryStates,
         m_buf' = [m_buf EXCEPT ![b] = p, ![o] = q],
         m_queryState' = [m_queryState EXCEPT ![b] = s],
         status' \in [Builders -> {"none", "live", "moved"}]
  PROVE  FitsInv'
<1>1. TypeOK'
  BY DEF FitsInv, TypeOK
<1>2. \A x \in Builders : m_buf'[x] \in {p, q, m_buf[x]}
  BY DEF FitsInv, TypeOK
<1>3. EncodedFits'
  BY <1>2 DEF FitsInv, EncodedFits
<1> QED BY <1>1, <1>3 DEF FitsInv

LEMMA EmptyFits == Empty \in Buffer /\ Len(Empty.text) <= Empty.capacity
<1>1. <<>> \in Seq(Characters) /\ Len(<<>>) = 0
  OBVIOUS
<1> QED BY <1>1 DEF Empty, Buffer

LEMMA BufferFits ==
  ASSUME FitsInv, NEW b \in Builders
  PROVE  m_buf[b] \in Buffer /\ Len(m_buf[b].text) <= m_buf[b].capacity
         /\ m_queryState[b] \in QueryStates
  BY DEF FitsInv, TypeOK, EncodedFits

LEMMA NothingFits ==
  ASSUME FitsInv, UNCHANGED fields
  PROVE  FitsInv'
<1>1. status' = status /\ m_buf' = m_buf /\ m_queryState' = m_queryState
  BY DEF fields
<1> QED BY <1>1 DEF FitsInv, TypeOK, EncodedFits

LEMMA StatesOf ==
  /\ "queryEmptyUrl" \in QueryStates /\ "queryEmptyQueryString" \in QueryStates
  /\ "queryNonEmpty" \in QueryStates
  BY DEF QueryStates

LEMMA constructFits ==
  ASSUME FitsInv, NEW b \in Builders, NEW base \in Bases \cup {NoBase}, construct(b, base)
  PROVE  FitsInv'
<1>1. CASE Throws
  BY <1>1, NothingFits DEF Throws
<1>2. CASE Holds(b, BaseText(base), Max({minBufCapacity, Len(BaseText(base))}),
                 IF base = NoBase THEN "queryEmptyQueryString" ELSE "queryEmptyUrl")
  <2> DEFINE text == BaseText(base)
             size == Max({minBufCapacity, Len(text)})
             state == IF base = NoBase THEN "queryEmptyQueryString" ELSE "queryEmptyUrl"
  <2>1. text \in Seq(Characters) /\ Len(text) \in Int
    BY BaseFacts
  <2>2. size \in Int /\ Len(text) <= size
    <3>1. minBufCapacity \in Int
      BY UrlAssumption
    <3> HIDE DEF text
    <3>2. size = IF minBufCapacity >= Len(text) THEN minBufCapacity ELSE Len(text)
      BY <2>1, <3>1, MaxOfTwo
    <3> QED BY <2>1, <3>1, <3>2
  <2>3. state \in QueryStates
    BY StatesOf
  <2>4. Holds(b, text, size, state)
    BY <1>2
  <2> HIDE DEF text, size, state
  <2> QED BY <2>1, <2>2, <2>3, <2>4, HoldsFits
<1> QED BY <1>1, <1>2 DEF construct

LEMMA PartsFacts ==
  ASSUME NEW b \in Builders, NEW parts \in Parts(b)
  PROVE  /\ parts \in Seq(Part) /\ parts # <<>>
         /\ Format[b] = "plain" => \E part \in PlainParts : parts = <<part>>
         /\ Format[b] # "plain" => parts \in ParamLists
<1>1. CASE Format[b] = "plain"
  <2>1. PICK part \in PlainParts : parts = <<part>>
    BY <1>1 DEF Parts
  <2>2. part \in Part
    BY UrlAssumption
  <2> QED BY <1>1, <2>1, <2>2
<1>2. CASE Format[b] # "plain"
  <2>1. parts \in ParamLists
    BY <1>2 DEF Parts
  <2> QED BY <1>2, <2>1, UrlAssumption
<1> QED BY <1>1, <1>2

LEMMA constructWithFits ==
  ASSUME FitsInv, NEW b \in Builders, NEW base \in Bases \cup {NoBase}, NEW parts \in Parts(b),
         constructWith(b, base, parts)
  PROVE  FitsInv'
<1> DEFINE mode == FirstMode(base)
           text == BaseText(base)
           all == text \o separator(mode, "queryEmptyUrl") \o appendParams(parts)
           x == Len(text) + maxEncodedSize(mode, parts)
           size == Max({minBufCapacity, x})
<1>1. CASE Throws
  BY <1>1, NothingFits DEF Throws
<1>2. CASE Holds(b, all, size, "queryNonEmpty")
  <2>1. text \in Seq(Characters) /\ Len(text) \in Nat /\ minBufCapacity \in Int
    BY BaseFacts, UrlAssumption
  <2>2. parts \in Seq(Part) /\ parts # <<>>
    BY PartsFacts
  <2>3. all = text \o separator(mode, "queryEmptyUrl") \o appendParams(parts)
    OBVIOUS
  <2> HIDE DEF mode, text, all
  <2>4. all \in Seq(Characters) /\ maxEncodedSize(mode, parts) \in Int
         /\ Len(all) <= Len(text) + maxEncodedSize(mode, parts)
    BY <2>1, <2>2, <2>3, AppendedFits
  <2>5. x \in Int /\ Len(all) <= x /\ Len(all) \in Nat
    BY <2>1, <2>4
  <2> HIDE DEF x
  <2>6. size \in Int /\ x <= size
    <3>1. size = IF minBufCapacity >= x THEN minBufCapacity ELSE x
      BY <2>1, <2>5, MaxOfTwo
    <3> QED BY <2>1, <2>5, <3>1
  <2>7. Len(all) <= size
    BY <2>5, <2>6
  <2> HIDE DEF size
  <2> QED BY <1>2, <2>4, <2>6, <2>7, StatesOf, HoldsFits
<1> QED BY <1>1, <1>2 DEF constructWith

LEMMA extendFits ==
  ASSUME FitsInv, NEW b \in Builders, NEW parts \in Seq(Part), parts # <<>>, extend(b, parts)
  PROVE  FitsInv'
<1> DEFINE text == m_buf[b].text
           all == text \o separator("unknown", m_queryState[b]) \o appendParams(parts)
           size == Len(text) + maxEncodedSize("unknown", parts)
<1>1. CASE Throws
  BY <1>1, NothingFits DEF Throws
<1>2. CASE Holds(b, all, size, "queryNonEmpty")
  <2>1. text \in Seq(Characters) /\ Len(text) \in Nat
    BY BufferFits DEF Buffer
  <2>2. all = text \o separator("unknown", m_queryState[b]) \o appendParams(parts)
    OBVIOUS
  <2> HIDE DEF text, all
  <2>3. all \in Seq(Characters) /\ maxEncodedSize("unknown", parts) \in Int
         /\ Len(all) <= Len(text) + maxEncodedSize("unknown", parts)
    BY <2>1, <2>2, AppendedFits
  <2>4. size \in Int /\ Len(all) <= size
    BY <2>1, <2>3
  <2> HIDE DEF size
  <2> QED BY <1>2, <2>3, <2>4, StatesOf, HoldsFits
<1> QED BY <1>1, <1>2 DEF extend

LEMMA BuilderNextFits ==
  ASSUME FitsInv, NEW b \in Builders, NEW Others \in SUBSET Builders, BuilderNext(b, Others)
  PROVE  FitsInv'
<1>1. ASSUME NEW base \in Bases \cup {NoBase}, construct(b, base) PROVE FitsInv'
  BY <1>1, constructFits
<1>2. ASSUME NEW base \in Bases \cup {NoBase}, NEW parts \in Parts(b), constructWith(b, base, parts)
      PROVE  FitsInv'
  BY <1>2, constructWithFits
<1>3. ASSUME NEW o \in Others, moveConstruct(b, o) PROVE FitsInv'
  <2> DEFINE p == m_buf[o]
  <2>1. p \in Buffer /\ Len(p.text) <= p.capacity /\ m_queryState[o] \in QueryStates
    BY BufferFits
  <2>2. status' \in [Builders -> {"none", "live", "moved"}]
    BY <1>3 DEF moveConstruct, FitsInv, TypeOK
  <2>3. m_buf' = [m_buf EXCEPT ![b] = p, ![o] = Empty]
        /\ m_queryState' = [m_queryState EXCEPT ![b] = m_queryState[o]]
    BY <1>3 DEF moveConstruct
  <2> QED BY <2>1, <2>2, <2>3, EmptyFits, CopiesFit
<1>4. ASSUME NEW o \in Others, moveAssign(b, o) PROVE FitsInv'
  <2>1. m_buf[o] \in Buffer /\ Len(m_buf[o].text) <= m_buf[o].capacity
        /\ m_queryState[o] \in QueryStates
        /\ m_buf[b] \in Buffer /\ Len(m_buf[b].text) <= m_buf[b].capacity
    BY BufferFits
  <2>2. status' \in [Builders -> {"none", "live", "moved"}]
    BY <1>4 DEF moveAssign, FitsInv, TypeOK
  <2>3. m_buf' = [m_buf EXCEPT ![b] = m_buf[o], ![o] = m_buf[b]]
        /\ m_queryState' = [m_queryState EXCEPT ![b] = m_queryState[o]]
    BY <1>4 DEF moveAssign
  <2> QED BY <2>1, <2>2, <2>3, CopiesFit
<1>5. ASSUME destroyBuilder(b) PROVE FitsInv'
  <2>1. status' \in [Builders -> {"none", "live", "moved"}]
    BY <1>5 DEF destroyBuilder, FitsInv, TypeOK
  <2>2. m_buf' = [m_buf EXCEPT ![b] = Empty, ![b] = Empty]
        /\ m_queryState' = [m_queryState EXCEPT ![b] = "queryEmptyUrl"]
    BY <1>5 DEF destroyBuilder, FitsInv, TypeOK
  <2> QED BY <2>1, <2>2, EmptyFits, StatesOf, CopiesFit
<1>6. ASSUME NEW part \in PlainParts, query(b, part) PROVE FitsInv'
  <2>1. CASE UNCHANGED fields
    BY <2>1, NothingFits
  <2>2. CASE extend(b, <<part>>)
    <3>1. <<part>> \in Seq(Part) /\ <<part>> # <<>>
      BY UrlAssumption
    <3> QED BY <2>2, <3>1, extendFits
  <2> QED BY <1>6, <2>1, <2>2 DEF query
<1>7. ASSUME NEW parts \in ParamLists, params(b, parts) PROVE FitsInv'
  <2>1. parts \in Seq(Part) /\ parts # <<>>
    BY UrlAssumption
  <2> QED BY <1>7, <2>1, extendFits DEF params
<1> QED BY <1>1, <1>2, <1>3, <1>4, <1>5, <1>6, <1>7 DEF BuilderNext

LEMMA InitFits ==
  ASSUME Init
  PROVE  FitsInv
<1>1. TypeOK
  BY EmptyFits, StatesOf DEF Init, BuilderInit, TypeOK
<1>2. EncodedFits
  BY EmptyFits DEF Init, BuilderInit, EncodedFits
<1> QED BY <1>1, <1>2 DEF FitsInv

LEMMA NextFits ==
  ASSUME FitsInv, [Next]_vars
  PROVE  FitsInv'
<1>1. ASSUME NEW b \in Builders \ {readFrom}, BuilderNext(b, Builders \ {readFrom}) PROVE FitsInv'
  <2>1. b \in Builders /\ Builders \ {readFrom} \in SUBSET Builders
    OBVIOUS
  <2> QED BY <1>1, <2>1, BuilderNextFits
<1>2. CASE UNCHANGED builders
  BY <1>2, NothingFits DEF builders
<1>3. CASE UNCHANGED vars
  BY <1>3, <1>2 DEF vars
<1> QED BY <1>1, <1>2, <1>3 DEF Next, read, readLine

(* "It is guaranteed that there is enough capacity for all the             *)
(* parameters": nothing is ever appended without room, whatever the texts, *)
(* the parts and the number of builders.                                   *)
THEOREM EncodedFitsAlways == Spec => []EncodedFits
<1>1. Init => FitsInv
  BY InitFits
<1>2. FitsInv /\ [Next]_vars => FitsInv'
  BY NextFits
<1>3. FitsInv => EncodedFits
  BY DEF FitsInv
<1> QED BY <1>1, <1>2, <1>3, PTL DEF Spec

(***************************************************************************)
(* The Tokeniser.                                                          *)
(***************************************************************************)
LEMMA MinFacts ==
  ASSUME NEW S, S \subseteq Nat, S # {}
  PROVE  Min(S) \in S /\ \A i \in S : Min(S) <= i
<1>1. \E x \in S : \A y \in S : x <= y
  BY LeastOf
<1> QED BY <1>1 DEF Min

(* The next delimiter in t, from place c on. *)
Find(t, c, d) == Min({i \in c..Len(t) : t[i] = d} \cup {Len(t) + 1})

LEMMA Finds ==
  ASSUME NEW C, NEW t \in Seq(C), NEW d, NEW c \in 1..(Len(t) + 1)
  PROVE  LET r == Find(t, c, d)
             toks == Tokens(Without(t, c - 1), d)
         IN  /\ r \in c..(Len(t) + 1)
             /\ toks # <<>> /\ Head(toks) = SubSeq(t, c, r - 1)
             /\ r = Len(t) + 1 => Tail(toks) = <<>>
             /\ r # Len(t) + 1 => Tail(toks) = Tokens(Without(t, r), d)
<1> DEFINE r == Find(t, c, d)
           o == c - 1
           s == Without(t, o)
           R == {i \in c..Len(t) : t[i] = d} \cup {Len(t) + 1}
           p == r - o
           u == SubSeq(t, 1, o)
<1>1. Len(t) \in Nat /\ o \in 0..Len(t) /\ c = o + 1 /\ o \in Nat
  OBVIOUS
<1>2. s \in Seq(C) /\ Len(s) = Len(t) - o /\ (\A i \in 1..(Len(t) - o) : s[i] = t[o + i])
      /\ u \in Seq(C) /\ Len(u) = o /\ u \o s = t
  <2> HIDE DEF o
  <2> QED BY <1>1, Cut
<1>3. r \in R /\ \A i \in R : r <= i
  <2>1. R \subseteq Nat /\ R # {}
    BY <1>1
  <2> HIDE DEF R
  <2>2. Min(R) \in R /\ \A i \in R : Min(R) <= i
    BY <2>1, MinFacts
  <2> QED BY <2>2 DEF R, Find
<1>4. r \in c..(Len(t) + 1) /\ p \in 1..(Len(s) + 1) /\ r = o + p
  <2>1. r \in c..(Len(t) + 1)
    <3> HIDE DEF r
    <3> QED BY <1>1, <1>3
  <2> HIDE DEF r, s, o
  <2> QED BY <1>1, <1>2, <2>1
<1> HIDE DEF r, o, s, u
<1>5. p \in Ends(s, d) /\ \A i \in Ends(s, d) : p <= i
  <2>1. ASSUME NEW i \in 1..(Len(s) + 1)
        PROVE  i \in Ends(s, d) <=> o + i \in R
    <3>1. CASE i = Len(s) + 1
      <4>1. o + i = Len(t) + 1
        BY <1>1, <1>2, <3>1
      <4> QED BY <3>1, <4>1 DEF Ends
    <3>2. CASE i # Len(s) + 1
      <4>1. i \in 1..Len(s) /\ o + i \in c..Len(t) /\ s[i] = t[o + i] /\ o + i # Len(t) + 1
        BY <1>1, <1>2, <3>2
      <4> QED BY <3>2, <4>1 DEF Ends, Positions
    <3> QED BY <3>1, <3>2
  <2>2. Ends(s, d) \in SUBSET (1..(Len(s) + 1))
    BY <1>2, EndsFacts
  <2>3. p \in Ends(s, d)
    BY <1>3, <1>4, <2>1
  <2>4. ASSUME NEW i \in Ends(s, d) PROVE p <= i
    <3>1. i \in 1..(Len(s) + 1)
      BY <2>2
    <3>2. r <= o + i
      BY <1>3, <2>1, <3>1
    <3> QED BY <1>1, <1>4, <3>1, <3>2
  <2> QED BY <2>3, <2>4
<1> DEFINE toks == Tokens(s, d)
<1>6. /\ toks # <<>>
      /\ Head(toks) = SubSeq(s, 1, p - 1)
      /\ p = Len(s) + 1 => Tail(toks) = <<>>
      /\ p # Len(s) + 1 => p \in 1..Len(s) /\ Tail(toks) = Tokens(Without(s, p), d)
  <2> HIDE DEF p
  <2> QED BY <1>2, <1>5, TokensFirst
<1>7. SubSeq(s, 1, p - 1) = SubSeq(t, c, r - 1)
  <2> DEFINE one == 1
             q == p - 1
  <2>1. one \in Int /\ q \in Int /\ 1 <= one /\ q <= Len(s) /\ o + one = c /\ o + q = r - 1
    BY <1>1, <1>2, <1>4
  <2> HIDE DEF one, q
  <2>2. SubSeq(u \o s, Len(u) + one, Len(u) + q) = SubSeq(s, one, q)
    BY <1>2, <2>1, SubSeqOfSecond
  <2> QED BY <1>2, <2>1, <2>2 DEF one, q
<1>8. p = Len(s) + 1 <=> r = Len(t) + 1
  BY <1>1, <1>2, <1>4
<1>9. ASSUME p \in 1..Len(s) PROVE Without(s, p) = Without(t, r)
  <2> DEFINE a == p + 1
             b == Len(s)
  <2>1. a \in Int /\ b \in Int /\ 1 <= a /\ b <= Len(s) /\ o + a = r + 1 /\ o + b = Len(t)
    BY <1>1, <1>2, <1>4, <1>9
  <2> HIDE DEF a, b
  <2>2. SubSeq(u \o s, Len(u) + a, Len(u) + b) = SubSeq(s, a, b)
    BY <1>2, <2>1, SubSeqOfSecond
  <2> QED BY <1>2, <2>1, <2>2 DEF a, b, Without
<1> HIDE DEF toks, p
<1>10. /\ r \in c..(Len(t) + 1)
       /\ toks # <<>> /\ Head(toks) = SubSeq(t, c, r - 1)
       /\ r = Len(t) + 1 => Tail(toks) = <<>>
       /\ r # Len(t) + 1 => Tail(toks) = Tokens(Without(t, r), d)
  BY <1>4, <1>6, <1>7, <1>8, <1>9
<1> QED BY <1>10 DEF r, toks, s, o

LEMMA BehindFacts ==
  ASSUME NEW C, NEW s \in Seq(C), NEW c
  PROVE  /\ First(s, c) \in 1..(Len(s) + 1)
         /\ First(s, c) # Len(s) + 1 <=> Positions(s, c) # {}
         /\ First(s, c) \in Ends(s, c) /\ \A i \in Ends(s, c) : First(s, c) <= i
         /\ Behind(s, c) \in Seq(C)
<1> DEFINE n == Len(s) + 1
           E == Ends(s, c)
           f == First(s, c)
<1>1. Len(s) \in Nat /\ n \in Nat /\ E \in SUBSET (1..n) /\ n \in E
  <2>1. n \in E
    BY DEF Ends
  <2> QED BY <2>1, EndsFacts
<1>2. f \in E /\ \A i \in E : f <= i
  <2>1. E \subseteq Nat /\ E # {}
    BY <1>1
  <2> HIDE DEF E
  <2>2. Min(E) \in E /\ \A i \in E : Min(E) <= i
    BY <2>1, MinFacts
  <2> QED BY <2>2 DEF E, Ends, First
<1> HIDE DEF f
<1>3. f # n <=> Positions(s, c) # {}
  <2>1. \A i \in Positions(s, c) : i \in E /\ i \in 1..Len(s)
    BY DEF Ends, Positions
  <2>2. f \in Positions(s, c) \/ f = n
    BY <1>2 DEF Ends
  <2>3. ASSUME NEW i \in Positions(s, c) PROVE f # n
    <3>1. f <= i /\ i \in 1..Len(s) /\ f \in 1..n
      BY <1>1, <1>2, <2>1
    <3> QED BY <1>1, <3>1
  <2> QED BY <2>2, <2>3
<1>4. f \in 1..n
  BY <1>1, <1>2
<1>5. Without(s, f) \in Seq(C)
  <2>1. CASE f = n
    <3>1. f + 1 > Len(s) /\ f + 1 \in Int /\ Len(s) \in Int
      BY <1>1, <2>1
    <3>2. Without(s, f) = <<>>
      BY <3>1, SubSeqEmpty DEF Without
    <3> QED BY <3>2
  <2>2. CASE f # n
    <3>1. f \in 0..Len(s)
      BY <1>1, <1>4, <2>2
    <3> QED BY <3>1, Cut
  <2> QED BY <2>1, <2>2
<1> QED BY <1>2, <1>3, <1>4, <1>5 DEF f, Behind

LEMMA SameTexts ==
  /\ \A t, d : T!Tokens(t, d) = Tokens(t, d) /\ T!List!Tokens(t, d) = Tokens(t, d)
  /\ \A t, k : T!Without(t, k) = Without(t, k)
  /\ \A c : T!find(c) = Find(input, c, Delimiter)
<1>1. \A S : T!Ordered(S) = Ordered(S) /\ T!List!Ordered(S) = Ordered(S)
  BY DEF T!Ordered, T!List!Ordered, Ordered, T!Cardinality, T!List!Cardinality, Cardinality
<1>2. \A t, d : T!Positions(t, d) = Positions(t, d) /\ T!List!Positions(t, d) = Positions(t, d)
  BY DEF T!Positions, T!List!Positions, Positions
<1>3. \A t, d : T!Tokens(t, d) = Tokens(t, d) /\ T!List!Tokens(t, d) = Tokens(t, d)
  BY <1>1, <1>2 DEF T!Tokens, T!List!Tokens, Tokens
<1>4. \A t, k : T!Without(t, k) = Without(t, k)
  BY DEF T!Without, Without
<1>5. \A c : T!find(c) = Find(input, c, Delimiter)
  BY DEF T!find, Find, T!m_end, T!Min, Min
<1> QED BY <1>3, <1>4, <1>5

(* Where a reader is. *)
ReaderInv ==
  /\ m_hasNext \in BOOLEAN
  /\ input # NoInput => input \in Seq(Characters) /\ m_curr \in 1..(Len(input) + 1)
  /\ input = NoInput => ~m_hasNext

LEMMA QueryTextType ==
  ASSUME FitsInv, NEW b \in Builders
  PROVE  QueryText(b) \in Seq(Characters)
<1>1. m_buf[b].text \in Seq(Characters)
  BY BufferFits DEF Buffer
<1>2. Behind(m_buf[b].text, "?") \in Seq(Characters)
  BY <1>1, BehindFacts
<1> QED BY <1>1, <1>2 DEF QueryText

LEMMA ReaderStep ==
  ASSUME ~SkipsLast, FitsInv, ReaderInv, [Next]_vars
  PROVE  ReaderInv' /\ (T!List!Next \/ UNCHANGED <<input, m_hasNext, m_curr, last>>)
<1> DEFINE r == Find(input, m_curr, Delimiter)
           toks == Tokens(Without(input, m_curr - 1), Delimiter)
<1>1. CASE UNCHANGED tokeniser
  <2>1. UNCHANGED <<input, m_hasNext, m_curr, last>>
    BY <1>1 DEF tokeniser
  <2> QED BY <2>1 DEF ReaderInv
<1>2. ASSUME NEW q \in Seq(Characters), T!construct(q)
      PROVE  ReaderInv' /\ T!List!Next
  <2>1. q \in Seq(Characters) /\ q # NoInput
    BY ReaderAssumption
  <2>2. input = NoInput /\ input' = q /\ m_curr' = 1 /\ m_hasNext' = TRUE /\ last' = <<>>
    BY <1>2 DEF T!construct, T!Reading
  <2>3. Len(q) \in Nat /\ 1 \in 1..(Len(q) + 1)
    BY <2>1
  <2>4. ReaderInv'
    BY <2>1, <2>2, <2>3 DEF ReaderInv
  <2>5. Without(q, 0) = q
    <3> DEFINE zero == 0
    <3>1. zero + 1 = 1 /\ SubSeq(q, 1, Len(q)) = q
      BY <2>1, SubSeqFull
    <3> QED BY <3>1 DEF Without
  <2>6. (IF m_hasNext THEN T!Tokens(T!Without(input, m_curr - 1), Delimiter) ELSE <<>>)'
          = T!List!Tokens(input', Delimiter)
    <3>1. 1 - 1 = 0
      OBVIOUS
    <3> QED BY <2>2, <2>5, <3>1, SameTexts
  <2>7. T!List!Open
    BY <2>1, <2>2, <2>6 DEF T!List!Open
  <2> QED BY <2>4, <2>7 DEF T!List!Next
<1>3. ASSUME T!destroy
      PROVE  ReaderInv' /\ T!List!Next
  <2>1. input # NoInput /\ input' = NoInput /\ m_hasNext' = FALSE /\ last' = <<>>
    BY <1>3 DEF T!destroy, T!Reading
  <2>2. T!List!Close
    BY <2>1 DEF T!List!Close
  <2> QED BY <2>1, <2>2 DEF ReaderInv, T!List!Next
<1>4. ASSUME input # NoInput, m_hasNext
      PROVE  /\ r \in m_curr..(Len(input) + 1) /\ m_curr \in 1..(Len(input) + 1)
             /\ input \in Seq(Characters) /\ Len(input) \in Nat
             /\ toks # <<>> /\ Head(toks) = SubSeq(input, m_curr, r - 1)
             /\ r = Len(input) + 1 => Tail(toks) = <<>>
             /\ r # Len(input) + 1 => Tail(toks) = Tokens(Without(input, r), Delimiter)
  <2>1. input \in Seq(Characters) /\ m_curr \in 1..(Len(input) + 1) /\ Len(input) \in Nat
    BY <1>4 DEF ReaderInv
  <2> QED BY <2>1, Finds
<1>5. T!find(m_curr) = r /\ T!m_end = Len(input) + 1
  BY SameTexts DEF T!m_end
<1>6. toks = T!Tokens(T!Without(input, m_curr - 1), Delimiter)
  BY SameTexts
<1>7. ASSUME m_hasNext, input' = input, m_hasNext', m_curr' = r + 1, r # Len(input) + 1, input # NoInput
      PROVE  ReaderInv' /\ T!Tokens(T!Without(input', m_curr' - 1), Delimiter) = Tail(toks)
  <2>1. r \in 1..Len(input) /\ (r + 1) - 1 = r
    BY <1>4, <1>7
  <2>2. m_curr' \in 1..(Len(input) + 1)
    BY <1>4, <1>7, <2>1
  <2>3. ReaderInv'
    BY <1>4, <1>7, <2>2 DEF ReaderInv
  <2> HIDE DEF r, toks
  <2>4. T!Tokens(T!Without(input', m_curr' - 1), Delimiter) = Tokens(Without(input, r), Delimiter)
    BY <1>7, <2>1, SameTexts
  <2> QED BY <1>4, <1>7, <2>3, <2>4
<1>8. ASSUME T!next
      PROVE  ReaderInv' /\ T!List!Next
  <2>1. /\ input # NoInput /\ m_hasNext /\ input' = input
        /\ last' = <<SubSeq(input, m_curr, r - 1)>>
        /\ \/ r # Len(input) + 1 /\ m_curr' = r + 1 /\ m_hasNext' = m_hasNext
           \/ r = Len(input) + 1 /\ m_hasNext' = FALSE /\ m_curr' = m_curr
    <3> HIDE DEF r
    <3> QED BY <1>5, <1>8 DEF T!next, T!Reading
  <2> HIDE DEF r, toks
  <2>2. last' = <<Head(toks)>> /\ toks # <<>>
    BY <1>4, <2>1
  <2>3. ReaderInv' /\ (IF m_hasNext' THEN T!Tokens(T!Without(input', m_curr' - 1), Delimiter) ELSE <<>>)
          = Tail(toks)
    <3>1. CASE r # Len(input) + 1 /\ m_curr' = r + 1 /\ m_hasNext' = m_hasNext
      BY <1>7, <2>1, <3>1
    <3>2. CASE r = Len(input) + 1 /\ m_hasNext' = FALSE /\ m_curr' = m_curr
      BY <1>4, <2>1, <3>2 DEF ReaderInv
    <3> QED BY <2>1, <3>1, <3>2
  <2>4. T!List!Take
    BY <1>6, <2>1, <2>2, <2>3 DEF T!List!Take
  <2> QED BY <2>3, <2>4 DEF T!List!Next
<1>9. ASSUME T!skip
      PROVE  ReaderInv' /\ T!List!Next
  <2>1. /\ input # NoInput /\ m_hasNext /\ input' = input /\ last' = <<>>
        /\ r # Len(input) + 1 /\ m_curr' = r + 1 /\ m_hasNext' = m_hasNext
    <3> HIDE DEF r
    <3> QED BY <1>5, <1>9 DEF T!skip, T!Reading
  <2> HIDE DEF r, toks
  <2>2. toks # <<>>
    BY <1>4, <2>1
  <2>3. ReaderInv' /\ (IF m_hasNext' THEN T!Tokens(T!Without(input', m_curr' - 1), Delimiter) ELSE <<>>)
          = Tail(toks)
    BY <1>7, <2>1
  <2>4. T!List!Skip
    BY <1>6, <2>1, <2>2, <2>3 DEF T!List!Skip
  <2> QED BY <2>3, <2>4 DEF T!List!Next
<1>10. ASSUME T!refused
       PROVE  ReaderInv' /\ T!List!Next
  <2>1. input # NoInput /\ ~m_hasNext /\ last' = <<>> /\ input' = input /\ m_curr' = m_curr
        /\ m_hasNext' = m_hasNext
    BY <1>10 DEF T!refused, T!Reading
  <2>2. (IF m_hasNext' THEN T!Tokens(T!Without(input', m_curr' - 1), Delimiter) ELSE <<>>) = <<>>
    BY <2>1
  <2>3. T!List!Refuse
    BY <2>1, <2>2 DEF T!List!Refuse
  <2> QED BY <2>1, <2>3 DEF ReaderInv, T!List!Next
<1>11. CASE UNCHANGED vars
  BY <1>1, <1>11 DEF vars
<1>12. ASSUME NEW b \in Builders, read(b)
       PROVE  ReaderInv' /\ T!List!Next
  BY <1>2, <1>12, QueryTextType DEF read
<1>13. ASSUME NEW text \in Lines, readLine(text)
       PROVE  ReaderInv' /\ T!List!Next
  BY <1>2, <1>13, ReaderAssumption DEF readLine
<1>14. CASE Next
  BY <1>1, <1>3, <1>8, <1>9, <1>10, <1>12, <1>13, <1>14 DEF Next
<1> QED BY <1>11, <1>14

(* Each token is handed out once, in order, empty ones and the last one    *)
(* included, and then next() and skip() refuse, whatever the text: unless  *)
(* callers skip the last token.                                            *)
THEOREM ImplementsTokenListAlways == ASSUME ~SkipsLast PROVE Spec => ImplementsTokenList
<1>1. Init => FitsInv /\ ReaderInv /\ T!List!Init
  <2> SUFFICES ASSUME Init PROVE FitsInv /\ ReaderInv /\ T!List!Init
    OBVIOUS
  <2>1. FitsInv
    BY InitFits
  <2>2. ReaderInv
    BY DEF Init, T!TokeniserInit, ReaderInv
  <2>3. T!List!Init
    BY DEF Init, T!TokeniserInit, T!List!Init
  <2> QED BY <2>1, <2>2, <2>3
<1>2. FitsInv /\ [Next]_vars => FitsInv'
  BY NextFits
<1>3. FitsInv /\ ReaderInv /\ [Next]_vars => ReaderInv'
  BY ReaderStep
<1>4. FitsInv /\ ReaderInv /\ [Next]_vars =>
        [T!List!Next]_<<input, IF m_hasNext THEN T!Tokens(T!Without(input, m_curr - 1), Delimiter) ELSE <<>>, last>>
  <2>1. UNCHANGED <<input, m_hasNext, m_curr, last>> =>
          UNCHANGED <<input, IF m_hasNext THEN T!Tokens(T!Without(input, m_curr - 1), Delimiter) ELSE <<>>, last>>
    BY SameTexts
  <2> QED BY <2>1, ReaderStep
<1> QED BY <1>1, <1>2, <1>3, <1>4, PTL DEF Spec, ImplementsTokenList, T!ImplementsTokenList, T!List!Spec

(***************************************************************************)
(* Escaped texts are read back.                                            *)
(***************************************************************************)
(* The last escape is complete. *)
Closed(s) == \A j \in Positions(s, "%") : j + 2 <= Len(s)

(* Starts of a text that one more character, escaped or not, was added to. *)
Added(s, c) == s \o Escape(c)

LEMMA StartsAppend ==
  ASSUME NEW s \in Seq(Characters), Closed(s), NEW c \in Characters
  PROVE  LET t == Added(s, c) IN
         /\ t \in Seq(Characters) /\ Len(t) = Len(s) + Len(Escape(c))
         /\ \A i \in 1..Len(s) : t[i] = s[i]
         /\ c \in Unreserved => t[Len(s) + 1] = c
         /\ c \notin Unreserved => t[Len(s) + 1] = "%"
         /\ Closed(t)
         /\ Starts(t) = Starts(s) \cup {Len(s) + 1}
<1> DEFINE e == Escape(c)
           n == Len(s)
           t == Added(s, c)
<1>1. e \in Seq(Characters) /\ n \in Nat
  <2>1. e \in Seq(Safe)
    BY EscapeFacts
  <2>2. Safe \subseteq Characters
    BY UrlAssumption DEF Safe, Characters
  <2> HIDE DEF e
  <2> QED BY <2>1, <2>2
<1>2. \/ c \in Unreserved /\ Len(e) = 1 /\ e[1] = c /\ c # "%"
      \/ c \notin Unreserved /\ Len(e) = 3 /\ e[1] = "%" /\ e[2] # "%" /\ e[3] # "%"
  <2>1. CASE c \in Unreserved
    <3>1. e = <<c>> /\ c # "%"
      BY <2>1, EscapeFacts
    <3> HIDE DEF e
    <3> QED BY <2>1, <3>1
  <2>2. CASE c \notin Unreserved
    <3>1. PICK x \in Unreserved, y \in Unreserved : e = <<"%", x, y>>
      BY <2>2, EscapeFacts
    <3>2. x # "%" /\ y # "%"
      BY UrlAssumption
    <3> HIDE DEF e
    <3> QED BY <2>2, <3>1, <3>2
  <2> QED BY <2>1, <2>2
<1>3. t = s \o e
  BY DEF Added
<1> HIDE DEF e, n, t
<1>4. t \in Seq(Characters) /\ Len(t) = n + Len(e)
      /\ \A i \in 1..(n + Len(e)) : t[i] = IF i <= n THEN s[i] ELSE e[i - n]
  <2>1. s \in Seq(Characters) /\ e \in Seq(Characters)
    BY <1>1
  <2>2. s \o e \in Seq(Characters) /\ Len(s \o e) = Len(s) + Len(e)
      /\ \A i \in 1..(Len(s) + Len(e)) : (s \o e)[i] = IF i <= Len(s) THEN s[i] ELSE e[i - Len(s)]
    BY <2>1, ConcatProperties
  <2> QED BY <1>3, <2>2 DEF n
<1>5. Len(e) \in {1, 3} /\ t[n + 1] = e[1] /\ \A i \in 1..n : t[i] = s[i]
  <2>1. Len(e) \in {1, 3}
    BY <1>2
  <2>2. n + 1 \in 1..(n + Len(e)) /\ ~ (n + 1 <= n) /\ (n + 1) - n = 1
    <3> DEFINE l == Len(e)
    <3>1. l = 1 \/ l = 3
      BY <2>1
    <3> HIDE DEF l
    <3>2. n + 1 \in 1..(n + l) /\ ~ (n + 1 <= n) /\ (n + 1) - n = 1
      BY <1>1, <3>1
    <3> QED BY <3>2 DEF l
  <2>3. \A i \in 1..n : i \in 1..(n + Len(e)) /\ i <= n
    BY <1>1, <2>1
  <2> QED BY <1>4, <2>1, <2>2, <2>3
<1>6. ASSUME NEW i \in 1..Len(t)
      PROVE  t[i] = "%" <=> i \in Positions(s, "%") \/ (i = n + 1 /\ c \notin Unreserved)
  <2>1. CASE i <= n
    <3>1. i \in 1..n /\ i # n + 1 /\ t[i] = s[i]
      BY <1>1, <1>5, <2>1
    <3> QED BY <3>1 DEF Positions, n
  <2>2. CASE i = n + 1
    <3>1. i \notin Positions(s, "%")
      BY <1>1, <2>2 DEF Positions, n
    <3> QED BY <1>2, <1>5, <2>2, <3>1
  <2>3. CASE i > n + 1
    <3>1. i \notin Positions(s, "%")
      BY <1>1, <2>3 DEF Positions, n
    <3>2. i - n \in {2, 3} /\ c \notin Unreserved /\ i \in 1..(n + Len(e)) /\ ~ (i <= n)
      <4> DEFINE l == Len(e)
      <4>1. i \in 1..(n + l) /\ ((c \in Unreserved /\ l = 1) \/ (c \notin Unreserved /\ l = 3))
        <5>1. i \in 1..(n + l)
          BY <1>4
        <5>2. (c \in Unreserved /\ l = 1) \/ (c \notin Unreserved /\ l = 3)
          BY <1>2, Zenon
        <5> QED BY <5>1, <5>2, Zenon
      <4> HIDE DEF l
      <4>2. i - n \in {2, 3} /\ c \notin Unreserved /\ ~ (i <= n)
        BY <1>1, <2>3, <4>1
      <4> QED BY <4>1, <4>2 DEF l
    <3>3. t[i] = e[i - n]
      BY <1>4, <3>2
    <3> QED BY <1>2, <2>3, <3>1, <3>2, <3>3
  <2> QED BY <1>1, <2>1, <2>2, <2>3
<1>7. ASSUME NEW j \in Positions(s, "%") PROVE j \in 1..n /\ j + 2 <= n
  BY <1>1 DEF Positions, n, Closed
<1>8. Positions(t, "%") = IF c \in Unreserved THEN Positions(s, "%") ELSE Positions(s, "%") \cup {n + 1}
  <2>1. n + 1 \in 1..Len(t) /\ \A j \in 1..n : j \in 1..Len(t)
    BY <1>1, <1>4, <1>5
  <2>2. Positions(t, "%") = {i \in 1..Len(t) : t[i] = "%"}
    BY DEF Positions
  <2>3. \A i \in Positions(t, "%") : i \in Positions(s, "%") \/ (i = n + 1 /\ c \notin Unreserved)
    BY <1>6, <2>2
  <2>4. \A i \in Positions(s, "%") : i \in Positions(t, "%")
    BY <1>6, <1>7, <2>1, <2>2
  <2>5. c \notin Unreserved => n + 1 \in Positions(t, "%")
    BY <1>6, <2>1, <2>2
  <2> QED BY <2>3, <2>4, <2>5
<1>9. Closed(t)
  <2>1. ASSUME NEW j \in Positions(t, "%") PROVE j + 2 <= Len(t)
    <3>1. CASE j \in Positions(s, "%")
      BY <1>1, <1>4, <1>5, <1>7, <3>1
    <3>2. CASE j = n + 1 /\ c \notin Unreserved
      BY <1>1, <1>2, <1>4, <3>2
    <3> QED BY <1>8, <3>1, <3>2
  <2> QED BY <2>1 DEF Closed
<1>10. Starts(t) = Starts(s) \cup {n + 1}
  <2>1. ASSUME NEW i \in 1..n
        PROVE  i \in Starts(t) <=> i \in Starts(s)
    <3>1. i \in 1..Len(t) /\ i \in 1..Len(s) /\ i - (n + 1) \notin 1..2
      BY <1>1, <1>4, <1>5 DEF n
    <3>2. (\A j \in Positions(t, "%") : i - j \notin 1..2) <=> (\A j \in Positions(s, "%") : i - j \notin 1..2)
      BY <1>8, <3>1
    <3> QED BY <3>1, <3>2 DEF Starts
  <2>2. n + 1 \in Starts(t)
    <3>1. n + 1 \in 1..Len(t)
      BY <1>1, <1>4, <1>5
    <3>2. ASSUME NEW j \in Positions(t, "%") PROVE (n + 1) - j \notin 1..2
      <4>1. CASE j \in Positions(s, "%")
        BY <1>1, <1>7, <4>1
      <4>2. CASE j = n + 1
        BY <1>1, <4>2
      <4> QED BY <1>8, <4>1, <4>2
    <3> QED BY <3>1, <3>2 DEF Starts
  <2>3. ASSUME NEW i \in 1..Len(t), i > n + 1 PROVE i \notin Starts(t)
    <3>1. c \notin Unreserved /\ i - (n + 1) \in 1..2
      <4> DEFINE l == Len(e)
      <4>1. i \in 1..(n + l) /\ ((c \in Unreserved /\ l = 1) \/ (c \notin Unreserved /\ l = 3))
        <5>1. i \in 1..(n + l)
          BY <1>4
        <5>2. (c \in Unreserved /\ l = 1) \/ (c \notin Unreserved /\ l = 3)
          BY <1>2, Zenon
        <5> QED BY <5>1, <5>2, Zenon
      <4> HIDE DEF l
      <4> QED BY <1>1, <2>3, <4>1
    <3>2. n + 1 \in Positions(t, "%")
      BY <1>8, <3>1
    <3> QED BY <3>1, <3>2 DEF Starts
  <2>4. Starts(t) \subseteq 1..Len(t) /\ Starts(s) \subseteq 1..n
    BY DEF Starts, n
  <2>5. \A i \in 1..Len(t) : i \in 1..n \/ i = n + 1 \/ i > n + 1
    BY <1>1, <1>4, <1>5
  <2> QED BY <2>1, <2>2, <2>3, <2>4, <2>5
<1>11. /\ t \in Seq(Characters) /\ Len(t) = n + Len(e)
       /\ \A i \in 1..n : t[i] = s[i]
       /\ c \in Unreserved => t[n + 1] = c
       /\ c \notin Unreserved => t[n + 1] = "%"
       /\ Closed(t)
       /\ Starts(t) = Starts(s) \cup {n + 1}
  BY <1>2, <1>4, <1>5, <1>9, <1>10
<1> QED BY <1>11 DEF e, n, t

(* The character that starts at place i. *)
Decoded(digits) == CHOOSE c \in DOMAIN octetToHex : octetToHex[c] = digits
ReadAt(s, i) == IF s[i] # "%" THEN s[i] ELSE Decoded(SubSeq(s, i + 1, i + 2))

LEMMA MeaningFacts ==
  ASSUME NEW s \in Seq(Characters)
  PROVE  /\ Starts(s) \in SUBSET (1..Len(s)) /\ Len(s) \in Nat /\ Cardinality(Starts(s)) \in Nat
         /\ \A k \in 1..Cardinality(Starts(s)) : Ordered(Starts(s))[k] \in Starts(s)
         /\ Meaning(s) = [k \in 1..Cardinality(Starts(s)) |-> ReadAt(s, Ordered(Starts(s))[k])]
<1>1. Starts(s) \in SUBSET (1..Len(s)) /\ Len(s) \in Nat
  BY DEF Starts
<1> DEFINE S == Starts(s)
<1> HIDE DEF S
<1>2. Cardinality(S) \in Nat /\ Len(Ordered(S)) = Cardinality(S)
      /\ \A k \in 1..Cardinality(S) : Ordered(S)[k] \in S
  BY <1>1, OrderedFacts DEF S
<1>3. Meaning(s) = [k \in 1..Len(Ordered(S)) |-> ReadAt(s, Ordered(S)[k])]
  BY DEF Meaning, Unescaped, ReadAt, Decoded, S
<1> QED BY <1>1, <1>2, <1>3 DEF S

LEMMA MeaningAppend ==
  ASSUME NEW s \in Seq(Characters), Closed(s), Meaning(s) \in Seq(Characters),
         NEW c \in Characters
  PROVE  Meaning(Added(s, c)) = Append(Meaning(s), c)
<1> DEFINE n == Len(s)
           m == n + 1
           S == Starts(s)
           d == Cardinality(S)
           e == Escape(c)
           t == Added(s, c)
<1>1. /\ t \in Seq(Characters) /\ Len(t) = n + Len(e)
      /\ \A i \in 1..n : t[i] = s[i]
      /\ c \in Unreserved => t[m] = c
      /\ c \notin Unreserved => t[m] = "%"
      /\ Starts(t) = S \cup {m}
  BY StartsAppend
<1>0. t = s \o e
  BY DEF Added
<1> HIDE DEF t
<1>2. S \in SUBSET (1..n) /\ n \in Nat /\ d \in Nat /\ (\A k \in 1..d : Ordered(S)[k] \in S)
      /\ Meaning(s) = [k \in 1..d |-> ReadAt(s, Ordered(S)[k])]
  BY MeaningFacts
<1>3. Cardinality(S \cup {m}) = d + 1
      /\ (\A k \in 1..d : Ordered(S \cup {m})[k] = Ordered(S)[k])
      /\ Ordered(S \cup {m})[d + 1] = m
  <2>1. m \in Nat /\ n < m
    BY <1>2
  <2> HIDE DEF S, m, n
  <2> QED BY <1>2, <2>1, OrderedAppend
<1>4. Meaning(t) = [k \in 1..(d + 1) |-> ReadAt(t, Ordered(S \cup {m})[k])]
  <2>1. Meaning(t) = [k \in 1..Cardinality(Starts(t)) |-> ReadAt(t, Ordered(Starts(t))[k])]
    BY <1>1, MeaningFacts
  <2> HIDE DEF S, m
  <2>2. Cardinality(Starts(t)) = d + 1
    BY <1>1, <1>3
  <2>3. Starts(t) = S \cup {m}
    BY <1>1
  <2> HIDE DEF d
  <2> QED BY <2>1, <2>2, <2>3
<1>5. ASSUME NEW i \in S PROVE ReadAt(t, i) = ReadAt(s, i)
  <2>1. i \in 1..n /\ t[i] = s[i]
    BY <1>1, <1>2
  <2>2. CASE s[i] # "%"
    BY <2>1, <2>2 DEF ReadAt
  <2>3. CASE s[i] = "%"
    <3> DEFINE a == i + 1
               b == i + 2
    <3>1. a \in Int /\ b \in Int /\ 1 <= a /\ b <= Len(s)
      BY <2>1, <2>3, <1>2 DEF Closed, Positions
    <3> HIDE DEF a, b
    <3>2. e \in Seq(Characters)
      <4>1. e \in Seq(Safe) /\ Safe \subseteq Characters
        BY EscapeFacts, UrlAssumption DEF Safe, Characters
      <4> HIDE DEF e
      <4> QED BY <4>1
    <3>3. t = s \o e
      BY <1>0
    <3> HIDE DEF e
    <3>4. SubSeq(t, a, b) = SubSeq(s, a, b)
      BY <3>1, <3>2, <3>3, SubSeqOfFirst
    <3> QED BY <2>1, <3>4 DEF ReadAt, a, b
  <2> QED BY <2>2, <2>3
<1>6. ReadAt(t, m) = c
  <2>1. CASE c \in Unreserved
    <3>1. t[m] = c /\ c # "%"
      BY <1>1, <2>1, EscapeFacts
    <3> HIDE DEF m
    <3> QED BY <3>1 DEF ReadAt
  <2>2. CASE c \notin Unreserved
    <3>1. t[m] = "%" /\ c \in DOMAIN octetToHex
      BY <1>1, <2>2, EscapeFacts
    <3>2. PICK x \in Unreserved, y \in Unreserved : octetToHex[c] = <<x, y>> /\ e = <<"%", x, y>>
      BY <2>2, EscapeFacts
    <3>3. SubSeq(t, m + 1, m + 2) = <<x, y>>
      <4> DEFINE p == s \o <<"%">>
                 q == <<x, y>>
                 D == Characters
                 one == 1
                 two == 2
      <4>1. q \in Seq(D) /\ <<"%">> \in Seq(D) /\ Len(q) = two
        BY UrlAssumption DEF Characters
      <4>2. e = <<"%">> \o q
        BY <3>2, Triple
      <4>3. p \in Seq(D) /\ Len(p) = m
        BY <4>1, <1>2
      <4>4. t = p \o q
        <5>1. t = s \o (<<"%">> \o q)
          BY <1>0, <4>2
        <5> DEFINE w == <<"%">>
        <5>2. s \in Seq(D) /\ w \in Seq(D) /\ q \in Seq(D)
          BY <4>1
        <5> HIDE DEF D, q, w
        <5>3. s \o (w \o q) = (s \o w) \o q
          BY <5>2, ConcatAssociative
        <5> QED BY <5>1, <5>3 DEF w
      <4>5. one \in Int /\ two \in Int /\ 1 <= one /\ two <= Len(q)
        BY <4>1
      <4> HIDE DEF p, q, D, one, two, m
      <4>6. SubSeq(p \o q, Len(p) + one, Len(p) + two) = SubSeq(q, one, two)
        BY <4>1, <4>3, <4>5, SubSeqOfSecond
      <4>7. SubSeq(q, 1, Len(q)) = q
        BY <4>1, SubSeqFull
      <4> QED BY <4>1, <4>3, <4>4, <4>6, <4>7 DEF one, two, q
    <3> HIDE DEF m
    <3>4. \A b \in DOMAIN octetToHex : octetToHex[b] = <<x, y>> <=> b = c
      BY <3>1, <3>2, UrlAssumption
    <3>5. Decoded(<<x, y>>) = c
      BY <3>1, <3>4 DEF Decoded
    <3> QED BY <3>1, <3>3, <3>5 DEF ReadAt
  <2> QED BY <2>1, <2>2
<1> DEFINE p == Meaning(s)
           q == Append(p, c)
<1>7. p \in Seq(Characters) /\ Len(p) = d /\ \A k \in 1..d : p[k] = ReadAt(s, Ordered(S)[k])
  <2>1. Len(p) = d
    <3> HIDE DEF S, d, p
    <3>1. d \in Nat
      BY <1>2
    <3>2. p = [k \in 1..d |-> ReadAt(s, Ordered(S)[k])]
      BY <1>2 DEF p
    <3> QED BY <3>1, <3>2
  <2> HIDE DEF S, d
  <2> QED BY <1>2, <2>1
<1> HIDE DEF S, d, m, p
<1>8. q \in Seq(Characters) /\ Len(q) = d + 1 /\ q[d + 1] = c /\ \A k \in 1..d : q[k] = p[k]
  BY <1>7, AppendProperties
<1> HIDE DEF q
<1>9. ASSUME NEW k \in 1..(d + 1) PROVE q[k] = ReadAt(t, Ordered(S \cup {m})[k])
  <2>1. CASE k = d + 1
    BY <1>3, <1>6, <1>8, <2>1
  <2>2. CASE k # d + 1
    <3>1. k \in 1..d
      BY <1>2, <2>2
    <3>2. q[k] = ReadAt(s, Ordered(S)[k]) /\ Ordered(S)[k] \in S
          /\ Ordered(S \cup {m})[k] = Ordered(S)[k]
      BY <1>2, <1>3, <1>7, <1>8, <3>1
    <3> QED BY <1>5, <3>2
  <2> QED BY <2>1, <2>2
<1>10. q = [k \in 1..(d + 1) |-> q[k]]
  BY <1>8
<1>11. Meaning(t) = q
  BY <1>4, <1>9, <1>10
<1> QED BY <1>11 DEF p, q, t

LEMMA MeaningOfEncoded ==
  ASSUME NEW value \in Seq(Characters)
  PROVE  Meaning(appendUrlEncoded(value)) = value
<1> DEFINE n == Len(value)
           e == Escapes(value)
<1>1. n \in Nat /\ \A i \in 1..n : value[i] \in Characters /\ e[i] = Escape(value[i])
  BY DEF Escapes
<1>2. appendUrlEncoded(value) = FlattenSeq(e) /\ e \in Seq(Seq(Safe)) /\ Len(e) = n
  BY EncodedFacts
<1> HIDE DEF e
<1>3. PICK F : Joins(F, e, Safe) /\ FlattenSeq(e) = F[Len(e)]
  BY <1>2, Flatten
<1>4. F \in [0..n -> Seq(Safe)] /\ F[0] = <<>> /\ \A i \in 1..n : F[i] = F[i - 1] \o e[i]
  BY <1>2, <1>3 DEF Joins
<1>5. Safe \subseteq Characters
  BY UrlAssumption DEF Safe, Characters
<1> DEFINE S == {i \in 0..n : Closed(F[i]) /\ Meaning(F[i]) = SubSeq(value, 1, i)}
<1>6. 0 \in S
  <2> DEFINE s == <<>>
  <2>1. s \in Seq(Characters) /\ Len(s) = 0
    OBVIOUS
  <2>2. Positions(s, "%") = {} /\ Starts(s) = {}
    BY <2>1 DEF Positions, Starts
  <2>3. Closed(s)
    BY <2>2 DEF Closed
  <2> HIDE DEF s
  <2>4. Meaning(s) = [k \in 1..Cardinality(Starts(s)) |-> ReadAt(s, Ordered(Starts(s))[k])]
    BY <2>1, MeaningFacts
  <2>5. Cardinality(Starts(s)) = 0
    BY <2>2, FS_EmptySet
  <2>6. Meaning(s) = <<>>
    <3>1. Meaning(s) = [k \in 1..0 |-> ReadAt(s, Ordered(Starts(s))[k])]
      BY <2>4, <2>5
    <3> QED BY <3>1
  <2> DEFINE zero == 0
  <2>7. SubSeq(value, 1, zero) = <<>>
    <3>1. 1 > zero /\ zero \in Int
      OBVIOUS
    <3> HIDE DEF zero
    <3> QED BY <3>1, SubSeqEmpty
  <2> QED BY <1>1, <1>4, <2>3, <2>6, <2>7 DEF s
<1>7. ASSUME NEW k \in 0..(n - 1), k \in S PROVE k + 1 \in S
  <2> DEFINE m == k + 1
             c == value[m]
             p == SubSeq(value, 1, k)
  <2>1. m \in 1..n /\ m \in 0..n /\ k \in 0..n /\ m - 1 = k /\ k \in Nat /\ m = k + 1
    BY <1>1
  <2> HIDE DEF m, n
  <2>2. F[m] = F[k] \o e[m] /\ F[k] \in Seq(Characters) /\ e[m] = Escape(c) /\ c \in Characters
    <3>1. F[m] = F[m - 1] \o e[m] /\ F[k] \in Seq(Safe)
      BY <1>4, <2>1
    <3>2. F[k] \in Seq(Characters)
      BY <1>5, <3>1
    <3>3. e[m] = Escape(c) /\ c \in Characters
      BY <1>1, <2>1
    <3> QED BY <2>1, <3>1, <3>2, <3>3
  <2>3. F[m] = Added(F[k], c)
    BY <2>2 DEF Added
  <2>4. p \in Seq(Characters)
    BY <2>1, Cut DEF n
  <2>5. Closed(F[k]) /\ Meaning(F[k]) = p
    BY <1>7
  <2> HIDE DEF c, p
  <2>6. Closed(Added(F[k], c))
    BY <2>2, <2>5, StartsAppend
  <2>7. Meaning(Added(F[k], c)) = Append(p, c)
    BY <2>2, <2>4, <2>5, MeaningAppend
  <2>8. SubSeq(value, 1, m) = Append(p, c)
    <3> DEFINE one == 1
    <3>1. one \in 1..m /\ one \in 1..Len(value) /\ m \in one..Len(value) /\ one \in 1..(m + 1)
      BY <2>1 DEF n
    <3> HIDE DEF one
    <3>2. SubSeq(value, one, m) = SubSeq(value, one, m - 1) \o <<value[m]>>
      BY <3>1, SubSeqRecursiveSecond
    <3>3. SubSeq(value, one, m) = p \o <<c>>
      BY <2>1, <3>2 DEF p, c, one
    <3> QED BY <2>2, <2>4, <3>3, AppendIsConcat DEF one
  <2>9. m \in S
    BY <2>1, <2>3, <2>6, <2>7, <2>8
  <2> QED BY <2>1, <2>9
<1>8. \A i \in 0..n : i \in S
  <2> HIDE DEF S, n
  <2> QED BY <1>1, <1>6, <1>7, Induction
<1>9. Meaning(F[n]) = SubSeq(value, 1, n)
  BY <1>1, <1>8
<1>10. SubSeq(value, 1, n) = value
  BY SubSeqFull
<1> QED BY <1>2, <1>3, <1>9, <1>10

(***************************************************************************)
(* What is written for a part.                                             *)
(***************************************************************************)
Separators == {"?", "&", "="}

LEMMA PartMeaning ==
  ASSUME NEW part \in Part
  PROVE  Meaning(appendTo(part)) = Meant(part)
<1>1. part.value \in Seq(Characters)
  BY DEF Part
<1>2. Meaning(appendUrlEncoded(part.value)) = part.value
  BY <1>1, MeaningOfEncoded
<1> QED BY <1>2 DEF appendTo, Meant

LEMMA PartPlain ==
  ASSUME NEW part \in Part, NEW K \in SUBSET Separators, part.type = "raw" => Plain(part.value, K)
  PROVE  Plain(appendTo(part), K)
<1>1. CASE part.type = "raw"
  BY <1>1 DEF appendTo
<1>2. CASE part.type # "raw"
  <2> DEFINE t == appendUrlEncoded(part.value)
  <2>1. t \in Seq(Safe)
    BY EncodedFacts DEF Part
  <2> HIDE DEF t
  <2>2. \A c \in K : c \notin Safe
    BY UrlAssumption DEF Separators, Safe
  <2>3. Plain(t, K)
    BY <2>1, <2>2 DEF Plain, Positions
  <2> QED BY <1>2, <2>3 DEF appendTo, t
<1> QED BY <1>1, <1>2

(***************************************************************************)
(* Two texts with a separator between them.                                *)
(***************************************************************************)
Joined(x, d, y) == (x \o <<d>>) \o y

LEMMA JoinedFacts ==
  ASSUME NEW x \in Seq(Characters), NEW y \in Seq(Characters), NEW d \in Characters
  PROVE  /\ Joined(x, d, y) \in Seq(Characters)
         /\ Len(Joined(x, d, y)) = Len(x) + 1 + Len(y)
         /\ \A i \in 1..Len(x) : Joined(x, d, y)[i] = x[i]
         /\ Joined(x, d, y)[Len(x) + 1] = d
         /\ \A i \in 1..Len(y) : Joined(x, d, y)[Len(x) + 1 + i] = y[i]
<1> DEFINE w == <<d>>
           u == x \o w
           t == u \o y
<1>1. w \in Seq(Characters) /\ Len(w) = 1 /\ w[1] = d
  OBVIOUS
<1> HIDE DEF w
<1>2. u \in Seq(Characters) /\ Len(u) = Len(x) + 1
      /\ \A i \in 1..(Len(x) + 1) : u[i] = IF i <= Len(x) THEN x[i] ELSE w[i - Len(x)]
  <2>1. u \in Seq(Characters) /\ Len(u) = Len(x) + Len(w)
      /\ \A i \in 1..(Len(x) + Len(w)) : u[i] = IF i <= Len(x) THEN x[i] ELSE w[i - Len(x)]
    BY <1>1, ConcatProperties
  <2> QED BY <1>1, <2>1
<1> HIDE DEF u
<1>3. t \in Seq(Characters) /\ Len(t) = Len(u) + Len(y)
      /\ \A i \in 1..(Len(u) + Len(y)) : t[i] = IF i <= Len(u) THEN u[i] ELSE y[i - Len(u)]
  BY <1>2, ConcatProperties
<1> HIDE DEF t
<1>4. Len(x) \in Nat /\ Len(y) \in Nat
  OBVIOUS
<1> DEFINE a == Len(x)
           b == Len(y)
<1>5. Len(t) = a + 1 + b
  BY <1>2, <1>3, <1>4
<1>6. ASSUME NEW i \in 1..a PROVE t[i] = x[i]
  <2>1. i \in 1..(Len(x) + 1) /\ i <= Len(x) /\ i <= Len(u) /\ i \in 1..(Len(u) + Len(y))
    BY <1>2, <1>4
  <2> QED BY <1>2, <1>3, <2>1
<1>7. t[a + 1] = d
  <2> DEFINE i == a + 1
  <2>1. i \in 1..(Len(x) + 1) /\ ~ (i <= Len(x)) /\ i <= Len(u) /\ i \in 1..(Len(u) + Len(y))
        /\ i - Len(x) = 1
    BY <1>2, <1>4
  <2> HIDE DEF i
  <2>2. t[i] = w[1]
    BY <1>2, <1>3, <2>1
  <2> QED BY <1>1, <2>2 DEF i
<1>8. ASSUME NEW i \in 1..b PROVE t[a + 1 + i] = y[i]
  <2> DEFINE j == a + 1 + i
  <2>1. ~ (j <= Len(u)) /\ j \in 1..(Len(u) + Len(y)) /\ j - Len(u) = i
    BY <1>2, <1>4
  <2> HIDE DEF j
  <2>2. t[j] = y[i]
    BY <1>3, <2>1
  <2> QED BY <2>2 DEF j
<1>9. Joined(x, d, y) = t
  BY DEF Joined, t, u, w
<1> QED BY <1>3, <1>5, <1>6, <1>7, <1>8, <1>9

(* A reader finds the two texts. *)
LEMMA JoinedSplits ==
  ASSUME NEW x \in Seq(Characters), NEW y \in Seq(Characters), NEW d \in Characters,
         Positions(x, d) = {}
  PROVE  /\ Positions(Joined(x, d, y), d) # {}
         /\ Before(Joined(x, d, y), d) = x
         /\ Behind(Joined(x, d, y), d) = y
<1> DEFINE t == Joined(x, d, y)
           a == Len(x)
           m == a + 1
<1>1. /\ t \in Seq(Characters)
      /\ Len(t) = a + 1 + Len(y)
      /\ \A i \in 1..a : t[i] = x[i]
      /\ t[m] = d
      /\ \A i \in 1..Len(y) : t[a + 1 + i] = y[i]
  <2> HIDE DEF t
  <2> QED BY JoinedFacts DEF t
<1> HIDE DEF t
<1>2. a \in Nat /\ Len(y) \in Nat /\ Len(t) \in Nat /\ m \in 1..Len(t) /\ m \in Nat
  BY <1>1
<1>3. m \in Positions(t, d)
  BY <1>1, <1>2 DEF Positions
<1>4. First(t, d) = m
  <2>1. First(t, d) \in Ends(t, d) /\ \A i \in Ends(t, d) : First(t, d) <= i
    BY <1>1, BehindFacts
  <2>2. Ends(t, d) \in SUBSET (1..(Len(t) + 1))
    BY <1>1, EndsFacts
  <2>3. First(t, d) <= m /\ First(t, d) \in 1..(Len(t) + 1)
    BY <1>3, <2>1, <2>2 DEF Ends
  <2>4. ASSUME NEW i \in Ends(t, d), i < m PROVE FALSE
    <3>1. i \in 1..a /\ i # Len(t) + 1
      BY <1>2, <2>2, <2>4
    <3>2. i \in Positions(t, d)
      BY <3>1 DEF Ends
    <3>3. x[i] = d
      BY <1>1, <3>1, <3>2 DEF Positions
    <3> QED BY <3>1, <3>3 DEF Positions
  <2> QED BY <1>2, <2>1, <2>3, <2>4
<1>5. x \o <<d>> \in Seq(Characters) /\ t = (x \o <<d>>) \o y /\ Len(x \o <<d>>) = m
  BY DEF t, Joined
<1>6. Before(t, d) = x
  <2>1. Before(t, d) = SubSeq(t, 1, m - 1) /\ m - 1 = a
    BY <1>2, <1>4 DEF Before
  <2> DEFINE one == 1
             q == <<d>> \o y
             l == Len(x)
  <2>2. t = x \o q /\ q \in Seq(Characters)
    <3>1. <<d>> \in Seq(Characters)
      OBVIOUS
    <3> QED BY <1>5, <3>1, ConcatAssociative
  <2>3. one \in Int /\ l \in Int /\ 1 <= one /\ l <= Len(x)
    BY <1>2
  <2> HIDE DEF one, q, l
  <2>4. SubSeq(x \o q, one, l) = SubSeq(x, one, l)
    BY <2>2, <2>3, SubSeqOfFirst
  <2>5. SubSeq(x, 1, Len(x)) = x
    BY SubSeqFull
  <2> QED BY <2>1, <2>2, <2>4, <2>5 DEF one, l
<1>7. Behind(t, d) = y
  <2>1. Behind(t, d) = SubSeq(t, m + 1, Len(t)) /\ Len(t) = m + Len(y)
    BY <1>1, <1>2, <1>4 DEF Behind, Without
  <2> DEFINE one == 1
             p == x \o <<d>>
             l == Len(y)
  <2>2. one \in Int /\ l \in Int /\ 1 <= one /\ l <= Len(y) /\ p \in Seq(Characters) /\ Len(p) = m /\ t = p \o y
    BY <1>2, <1>5
  <2> HIDE DEF one, p, l, m
  <2>3. SubSeq(p \o y, Len(p) + one, Len(p) + l) = SubSeq(y, one, l)
    BY <2>2, SubSeqOfSecond
  <2>4. SubSeq(y, 1, Len(y)) = y
    BY SubSeqFull
  <2> QED BY <2>1, <2>2, <2>3, <2>4 DEF one, l
<1> QED BY <1>3, <1>6, <1>7 DEF t

LEMMA JoinedPlain ==
  ASSUME NEW x \in Seq(Characters), NEW y \in Seq(Characters), NEW d \in Characters,
         NEW c, c # d, Positions(x, c) = {}, Positions(y, c) = {}
  PROVE  Positions(Joined(x, d, y), c) = {}
<1> DEFINE t == Joined(x, d, y)
           a == Len(x)
<1>1. /\ t \in Seq(Characters)
      /\ Len(t) = a + 1 + Len(y)
      /\ \A i \in 1..a : t[i] = x[i]
      /\ t[a + 1] = d
      /\ \A i \in 1..Len(y) : t[a + 1 + i] = y[i]
  <2> HIDE DEF t
  <2> QED BY JoinedFacts DEF t
<1> HIDE DEF t
<1>2. a \in Nat /\ Len(y) \in Nat
  OBVIOUS
<1>3. ASSUME NEW i \in 1..Len(t) PROVE t[i] # c
  <2>1. CASE i \in 1..a
    BY <1>1, <2>1 DEF Positions
  <2>2. CASE i = a + 1
    BY <1>1, <2>2
  <2>3. CASE i > a + 1
    <3> DEFINE j == i - (a + 1)
    <3>1. j \in 1..Len(y) /\ a + 1 + j = i
      BY <1>1, <1>2, <2>3
    <3> HIDE DEF j, a
    <3>2. t[i] = y[j]
      BY <1>1, <3>1
    <3> QED BY <3>1, <3>2 DEF Positions
  <2> QED BY <1>2, <2>1, <2>2, <2>3
<1> QED BY <1>3 DEF t, Positions

(***************************************************************************)
(* Parameters.                                                             *)
(***************************************************************************)
Half(parts) == Len(parts) \div 2
Pair(parts, k) == Joined(appendTo(parts[2 * k - 1]), "=", appendTo(parts[2 * k]))
Pairs(parts, k) == [i \in 1..k |-> Pair(parts, i)]

LEMMA HalfFacts ==
  ASSUME NEW parts \in ParamLists
  PROVE  /\ parts \in Seq(Part) /\ Len(parts) \in Nat
         /\ Half(parts) \in Nat \ {0} /\ Len(parts) = 2 * Half(parts)
         /\ \A k \in 1..Half(parts) : /\ 2 * k - 1 \in 1..Len(parts) /\ 2 * k \in 1..Len(parts)
                                      /\ parts[2 * k - 1] \in Part /\ parts[2 * k] \in Part
<1>1. parts \in Seq(Part) /\ parts # <<>> /\ Len(parts) % 2 = 0 /\ Len(parts) \in Nat
  BY UrlAssumption
<1>2. Len(parts) # 0
  BY <1>1, EmptySeq
<1> DEFINE l == Len(parts)
           h == Half(parts)
           two == 2
<1>3. two \in Nat \ {0} /\ l \in Int
  BY <1>1
<1>4. h = l \div two /\ l % two = 0
  BY <1>1 DEF Half
<1> HIDE DEF l, h, two
<1>5. h \in Int /\ l = two * h + (l % two)
  BY <1>3, <1>4, Division
<1>6. h \in Nat \ {0} /\ l = 2 * h
  BY <1>1, <1>2, <1>4, <1>5 DEF l, two
<1>7. \A k \in 1..h : 2 * k - 1 \in 1..l /\ 2 * k \in 1..l
  BY <1>6
<1>8. \A i \in 1..l : parts[i] \in Part
  BY <1>1 DEF l
<1> QED BY <1>1, <1>6, <1>7, <1>8 DEF l, h

LEMMA SeparatorsAre ==
  /\ "?" \in Characters /\ "&" \in Characters /\ "=" \in Characters
  /\ "?" # "&" /\ "?" # "=" /\ "&" # "="
<1>1. "?" \in Characters /\ "&" \in Characters /\ "=" \in Characters
  BY UrlAssumption DEF Characters
<1> QED BY <1>1

LEMMA PairFacts ==
  ASSUME Readable, NEW parts \in ParamLists, NEW k \in 1..Half(parts)
  PROVE  /\ Pair(parts, k) \in Seq(Characters)
         /\ Positions(Pair(parts, k), "&") = {} /\ Positions(Pair(parts, k), "?") = {}
         /\ Parameter(Pair(parts, k)) = <<Meant(parts[2 * k - 1]), Meant(parts[2 * k])>>
<1> DEFINE x == parts[2 * k - 1]
           y == parts[2 * k]
<1>1. x \in Part /\ y \in Part /\ 2 * k - 1 \in 1..Len(parts) /\ 2 * k \in 1..Len(parts)
  BY HalfFacts
<1>2. (x.type = "raw" => Plain(x.value, Separators)) /\ (y.type = "raw" => Plain(y.value, Separators))
  BY <1>1 DEF Readable, Separators
<1>3. Pair(parts, k) = Joined(appendTo(x), "=", appendTo(y))
  BY DEF Pair
<1> HIDE DEF x, y
<1> DEFINE a == appendTo(x)
           b == appendTo(y)
<1>4. a \in Seq(Characters) /\ b \in Seq(Characters)
  BY <1>1, PartFacts
<1>5. Plain(a, Separators) /\ Plain(b, Separators)
  <2>1. Separators \in SUBSET Separators
    OBVIOUS
  <2> QED BY <1>1, <1>2, <2>1, PartPlain
<1>6. Meaning(a) = Meant(x) /\ Meaning(b) = Meant(y)
  BY <1>1, PartMeaning
<1> HIDE DEF a, b
<1>7. /\ Positions(a, "?") = {} /\ Positions(a, "&") = {} /\ Positions(a, "=") = {}
      /\ Positions(b, "?") = {} /\ Positions(b, "&") = {}
  BY <1>5 DEF Plain, Separators
<1> DEFINE eq == "="
           t == Joined(a, eq, b)
<1>8. eq \in Characters /\ "?" # eq /\ "&" # eq /\ Positions(a, eq) = {}
  BY <1>7, SeparatorsAre
<1> HIDE DEF eq
<1>9. t \in Seq(Characters) /\ Positions(t, "&") = {} /\ Positions(t, "?") = {}
  BY <1>4, <1>7, <1>8, JoinedFacts, JoinedPlain
<1>10. Before(t, eq) = a /\ Behind(t, eq) = b
  BY <1>4, <1>8, JoinedSplits
<1>11. Parameter(t) = <<Meant(x), Meant(y)>>
  BY <1>6, <1>10 DEF Parameter, eq
<1> QED BY <1>3, <1>9, <1>11 DEF a, b, x, y, eq

(* What is written for the parameters, one after the other. *)
LEMMA ParamsJoined ==
  ASSUME NEW parts \in ParamLists
  PROVE  \E P : /\ P \in [1..Half(parts) -> Seq(Characters)]
                /\ P[1] = Pair(parts, 1)
                /\ \A k \in 1..(Half(parts) - 1) : P[k + 1] = Joined(P[k], "&", Pair(parts, k + 1))
                /\ P[Half(parts)] = appendParams(parts)
<1> DEFINE h == Half(parts)
           n == Len(parts)
           p == Pieces(parts)
           a == [i \in 1..n |-> appendTo(parts[i])]
<1>1. parts \in Seq(Part) /\ n \in Nat /\ h \in Nat \ {0} /\ n = 2 * h
  BY HalfFacts
<1>2. /\ appendParams(parts) = FlattenSeq(p) /\ p \in Seq(Seq(Characters)) /\ Len(p) = n
      /\ \A i \in 1..n :
            p[i] = (IF i = 1 THEN <<>> ELSE IF i % 2 = 0 THEN <<"=">> ELSE <<"&">>) \o a[i]
  <2> HIDE DEF p
  <2>1. /\ appendParams(parts) = FlattenSeq(p) /\ p \in Seq(Seq(Characters)) /\ Len(p) = n
        /\ \A i \in 1..n :
              p[i] = (IF i = 1 THEN <<>> ELSE IF i % 2 = 0 THEN <<"=">> ELSE <<"&">>) \o appendTo(parts[i])
    BY <1>1, PiecesFacts DEF p
  <2> QED BY <2>1
<1>3. \A i \in 1..n : a[i] \in Seq(Characters)
  BY <1>1, PartFacts
<1>4. \A k \in 1..h : Pair(parts, k) = Joined(a[2 * k - 1], "=", a[2 * k])
  <2>1. \A k \in 1..h : 2 * k - 1 \in 1..n /\ 2 * k \in 1..n
    BY <1>1
  <2> QED BY <2>1 DEF Pair
<1> HIDE DEF p, a, h, n
<1>5. PICK F : Joins(F, p, Characters) /\ FlattenSeq(p) = F[Len(p)]
  BY <1>2, Flatten
<1>6. F \in [0..n -> Seq(Characters)] /\ F[0] = <<>> /\ \A i \in 1..n : F[i] = F[i - 1] \o p[i]
  BY <1>2, <1>5 DEF Joins
<1> DEFINE amp == <<"&">>
           eq == <<"=">>
<1>7. amp \in Seq(Characters) /\ eq \in Seq(Characters)
  BY SeparatorsAre
<1>0. \A x, y, z \in Seq(Characters) :
        x \o (y \o z) = (x \o y) \o z /\ x \o y \in Seq(Characters)
  BY ConcatAssociative, ConcatProperties
<1> DEFINE P == [k \in 1..h |-> F[2 * k]]
<1>8. P \in [1..h -> Seq(Characters)]
  <2>1. \A k \in 1..h : 2 * k \in 0..n
    BY <1>1
  <2> QED BY <1>6, <2>1
<1>9. P[1] = Pair(parts, 1)
  <2>1. 1 \in 1..n /\ 2 \in 1..n /\ 1 \in 1..h /\ 2 % 2 = 0 /\ 2 - 1 = 1 /\ 1 - 1 = 0
    BY <1>1
  <2>2. F[1] = F[0] \o p[1] /\ F[2] = F[1] \o p[2]
    BY <1>6, <2>1
  <2>3. p[1] = <<>> \o a[1] /\ p[2] = eq \o a[2]
    <3> DEFINE one == 1
               two == 2
    <3>1. one \in 1..n /\ two \in 1..n /\ one = 1 /\ two # 1 /\ two % 2 = 0
      BY <2>1
    <3> HIDE DEF one, two
    <3>2. p[one] = <<>> \o a[one] /\ p[two] = eq \o a[two]
      BY <1>2, <3>1
    <3> QED BY <3>2 DEF one, two
  <2>4. a[1] \in Seq(Characters) /\ a[2] \in Seq(Characters)
    BY <1>3, <2>1
  <2> HIDE DEF eq
  <2>5. F[1] = a[1]
    BY <1>6, <2>2, <2>3, <2>4, ConcatEmptySeq
  <2>6. F[2] = (a[1] \o eq) \o a[2]
    <3> DEFINE x == a[1]
               y == a[2]
    <3>1. F[2] = x \o (eq \o y) /\ x \in Seq(Characters) /\ y \in Seq(Characters)
      BY <2>2, <2>3, <2>4, <2>5
    <3> HIDE DEF x, y
    <3>2. x \o (eq \o y) = (x \o eq) \o y
      BY <1>0, <1>7, <3>1
    <3> QED BY <3>1, <3>2 DEF x, y
  <2>7. P[1] = F[2] /\ Pair(parts, 1) = Joined(a[1], "=", a[2])
    BY <1>4, <2>1
  <2> QED BY <2>6, <2>7 DEF Joined, eq
<1>10. ASSUME NEW k \in 1..(h - 1) PROVE P[k + 1] = Joined(P[k], "&", Pair(parts, k + 1))
  <2> DEFINE i == 2 * k
             j == 2 * k + 1
             m == 2 * k + 2
  <2>1. /\ i \in 0..n /\ j \in 1..n /\ m \in 1..n /\ j - 1 = i /\ m - 1 = j /\ j # 1 /\ m # 1
        /\ k \in 1..h /\ k + 1 \in 1..h /\ 2 * (k + 1) = m /\ 2 * (k + 1) - 1 = j
    BY <1>1
  <2>2. j % 2 # 0 /\ m % 2 = 0
    BY <1>1
  <2>3. P[k] = F[i] /\ P[k + 1] = F[m]
    BY <2>1
  <2> HIDE DEF i, j, m, P
  <2>4. F[j] = F[i] \o p[j] /\ F[m] = F[j] \o p[m] /\ F[i] \in Seq(Characters)
    BY <1>6, <2>1
  <2>5. p[j] = amp \o a[j] /\ p[m] = eq \o a[m]
    BY <1>2, <2>1, <2>2
  <2>6. a[j] \in Seq(Characters) /\ a[m] \in Seq(Characters)
    BY <1>3, <2>1
  <2>7. Pair(parts, k + 1) = (a[j] \o eq) \o a[m]
    BY <1>4, <2>1 DEF Joined
  <2> DEFINE f == F[i]
             x == a[j]
             y == a[m]
             u == f \o amp
  <2>8. F[m] = (f \o (amp \o x)) \o (eq \o y)
    BY <2>4, <2>5
  <2>9. f \in Seq(Characters) /\ x \in Seq(Characters) /\ y \in Seq(Characters)
    BY <2>4, <2>6
  <2> HIDE DEF f, x, y, amp, eq, u
  <2>10. u \in Seq(Characters) /\ f \o (amp \o x) = u \o x
    BY <1>0, <1>7, <2>9 DEF u
  <2>11. (u \o x) \o (eq \o y) = ((u \o x) \o eq) \o y
    <3> DEFINE w == u \o x
    <3>1. w \in Seq(Characters)
      BY <1>0, <2>9, <2>10
    <3> HIDE DEF w
    <3>2. w \o (eq \o y) = (w \o eq) \o y
      BY <1>0, <1>7, <2>9, <3>1
    <3> QED BY <3>2 DEF w
  <2>12. (u \o x) \o eq = u \o (x \o eq) /\ x \o eq \in Seq(Characters)
    <3>1. u \o (x \o eq) = (u \o x) \o eq /\ x \o eq \in Seq(Characters)
      BY <1>0, <1>7, <2>9, <2>10, Zenon
    <3> QED BY <3>1, Zenon
  <2>13. (u \o (x \o eq)) \o y = u \o ((x \o eq) \o y)
    BY <1>0, <2>9, <2>10, <2>12
  <2>14. F[m] = u \o ((x \o eq) \o y)
    BY <2>8, <2>10, <2>11, <2>12, <2>13
  <2> QED BY <2>3, <2>7, <2>14 DEF Joined, u, f, x, y, amp
<1>11. P[h] = appendParams(parts)
  BY <1>1, <1>2, <1>5
<1> HIDE DEF P
<1> QED BY <1>8, <1>9, <1>10, <1>11 DEF h

(* What is added to Q, without a separator, is the next token. *)
Opens(Q, toks) ==
  \A r \in Seq(Characters) : Positions(r, "&") = {} => Tokens(Q \o r, "&") = Append(toks, r)

LEMMA OpensEmpty == Opens(<<>>, <<>>)
<1> SUFFICES ASSUME NEW r \in Seq(Characters), Positions(r, "&") = {}
             PROVE  Tokens(<<>> \o r, "&") = Append(<<>>, r)
  BY DEF Opens
<1>1. <<>> \o r = r
  BY ConcatEmptySeq
<1>2. Tokens(r, "&") = <<r>>
  BY TokensOfOne
<1>3. Append(<<>>, r) = <<r>>
  OBVIOUS
<1> QED BY <1>1, <1>2, <1>3

LEMMA OpensMore ==
  ASSUME NEW q \in Seq(Characters)
  PROVE  Opens(q \o <<"&">>, Tokens(q, "&"))
<1> DEFINE d == "&"
<1>1. d \in Characters
  BY SeparatorsAre
<1> HIDE DEF d
<1>2. ASSUME NEW r \in Seq(Characters), Positions(r, d) = {}
      PROVE  Tokens((q \o <<d>>) \o r, d) = Append(Tokens(q, d), r)
  BY <1>1, <1>2, TokensAppend
<1> QED BY <1>2 DEF Opens, d

LEMMA PairsAppend ==
  ASSUME Readable, NEW parts \in ParamLists, NEW toks \in Seq(Seq(Characters)),
         NEW k \in Nat, k + 1 <= Half(parts)
  PROVE  /\ Pairs(parts, k) \in Seq(Seq(Characters)) /\ toks \o Pairs(parts, k) \in Seq(Seq(Characters))
         /\ Append(toks \o Pairs(parts, k), Pair(parts, k + 1)) = toks \o Pairs(parts, k + 1)
<1> DEFINE D == Seq(Characters)
           m == k + 1
           x == Pairs(parts, k)
           y == Pairs(parts, m)
           e == Pair(parts, m)
<1>1. \A i \in 1..m : Pair(parts, i) \in D
  <2>1. \A i \in 1..m : i \in 1..Half(parts)
    BY HalfFacts
  <2> HIDE DEF D, m
  <2> QED BY <2>1, PairFacts DEF D
<1>2. m \in Nat /\ m \in 1..m /\ \A i \in 1..k : i \in 1..m
  OBVIOUS
<1> HIDE DEF D
<1>3. x = [i \in 1..k |-> Pair(parts, i)] /\ y = [i \in 1..m |-> Pair(parts, i)] /\ e \in D
  BY <1>1, <1>2 DEF Pairs
<1>4. x \in Seq(D) /\ Len(x) = k /\ y \in Seq(D) /\ Len(y) = m
  <2> HIDE DEF m, x, y, e
  <2>1. x \in Seq(D) /\ Len(x) = k
    <3>1. \A i \in 1..k : Pair(parts, i) \in D
      BY <1>1, <1>2
    <3>2. x = [i \in 1..k |-> Pair(parts, i)]
      BY <1>3
    <3> QED BY <3>1, <3>2
  <2>2. y \in Seq(D) /\ Len(y) = m
    <3>1. m \in Nat
      BY <1>2
    <3>2. y = [i \in 1..m |-> Pair(parts, i)]
      BY <1>3
    <3> QED BY <1>1, <3>1, <3>2
  <2> QED BY <2>1, <2>2
<1>5. Append(x, e) = y
  <2>1. \A i \in 1..k : x[i] = y[i]
    <3> HIDE DEF m, x, y, e
    <3> QED BY <1>2, <1>3
  <2>2. y[m] = e
    BY <1>2, <1>3
  <2> HIDE DEF x, y, e
  <2>3. Append(x, e) \in Seq(D) /\ Len(Append(x, e)) = k + 1
        /\ (\A i \in 1..k : Append(x, e)[i] = x[i]) /\ Append(x, e)[k + 1] = e
    BY <1>3, <1>4, AppendProperties
  <2>4. \A i \in 1..m : Append(x, e)[i] = y[i]
    <3>1. \A i \in 1..m : i \in 1..k \/ i = k + 1
      OBVIOUS
    <3> QED BY <2>1, <2>2, <2>3, <3>1
  <2> QED BY <1>4, <2>3, <2>4, SeqEqual
<1>6. toks \in Seq(D)
  BY DEF D
<1> HIDE DEF x, y, e, m
<1>7. toks \o x \in Seq(D)
  BY <1>4, <1>6, ConcatProperties
<1>8. Append(toks \o x, e) = toks \o y
  <2> DEFINE w == <<e>>
  <2>1. w \in Seq(D)
    BY <1>3
  <2>2. Append(toks \o x, e) = (toks \o x) \o w /\ Append(x, e) = x \o w
    BY <1>3, <1>4, <1>7, AppendIsConcat
  <2> HIDE DEF w
  <2>3. toks \o (x \o w) = (toks \o x) \o w
    <3>1. \A r, s, t \in Seq(D) : r \o (s \o t) = (r \o s) \o t
      BY ConcatAssociative
    <3> QED BY <1>4, <1>6, <2>1, <3>1
  <2> QED BY <1>5, <2>2, <2>3
<1> QED BY <1>4, <1>7, <1>8 DEF x, y, e, m, D

(* The tokens of parameters are the pairs, and there is no "?" in them. *)
LEMMA ParamsTokens ==
  ASSUME Readable, NEW parts \in ParamLists, NEW Q \in Seq(Characters),
         NEW toks \in Seq(Seq(Characters)), Opens(Q, toks)
  PROVE  /\ Tokens(Q \o appendParams(parts), "&") = toks \o Pairs(parts, Half(parts))
         /\ Positions(appendParams(parts), "?") = {}
         /\ appendParams(parts) \in Seq(Characters)
<1> DEFINE h == Half(parts)
           d == "&"
<1>1. h \in Nat \ {0}
  BY HalfFacts
<1>2. PICK P : /\ P \in [1..h -> Seq(Characters)]
               /\ P[1] = Pair(parts, 1)
               /\ \A k \in 1..(h - 1) : P[k + 1] = Joined(P[k], d, Pair(parts, k + 1))
               /\ P[h] = appendParams(parts)
  BY ParamsJoined
<1>3. d \in Characters /\ "?" # d
  BY SeparatorsAre
<1> DEFINE S == {k \in 0..h : k # 0 =>
                   /\ Tokens(Q \o P[k], d) = toks \o Pairs(parts, k)
                   /\ Positions(P[k], "?") = {}}
<1>4. \A k \in 1..h : /\ Pair(parts, k) \in Seq(Characters)
                      /\ Positions(Pair(parts, k), d) = {} /\ Positions(Pair(parts, k), "?") = {}
  BY PairFacts
<1>5. 0 \in S
  BY <1>1
<1>6. ASSUME NEW k \in 0..(h - 1), k \in S PROVE k + 1 \in S
  <2> DEFINE m == k + 1
             e == Pair(parts, m)
  <2>1. k \in Nat /\ m \in 1..h /\ m \in 0..h /\ m <= Half(parts)
    BY <1>1
  <2>2. e \in Seq(Characters) /\ Positions(e, d) = {} /\ Positions(e, "?") = {}
    <3> HIDE DEF m, h, d
    <3> QED BY <1>4, <2>1
  <2>3. Append(toks \o Pairs(parts, k), e) = toks \o Pairs(parts, m)
        /\ Pairs(parts, k) \in Seq(Seq(Characters))
    BY <2>1, PairsAppend
  <2>4. CASE k = 0
    <3>1. P[m] = e /\ m = 1
      BY <1>2, <2>4
    <3>2. Tokens(Q \o e, d) = Append(toks, e)
      <4> HIDE DEF e
      <4> QED BY <2>2 DEF Opens
    <3>3. toks \o Pairs(parts, k) = toks
      <4>1. Pairs(parts, k) = <<>>
        BY <2>4 DEF Pairs
      <4> QED BY <4>1, ConcatEmptySeq
    <3> HIDE DEF e, m, d
    <3>4. m \in S
      BY <2>1, <2>2, <2>3, <3>1, <3>2, <3>3
    <3> QED BY <3>4 DEF m
  <2>5. CASE k # 0
    <3>1. k \in 1..(h - 1) /\ k \in 1..h
      BY <1>1, <2>5
    <3>2. P[m] = Joined(P[k], d, e) /\ P[k] \in Seq(Characters)
      BY <1>2, <3>1
    <3>3. Tokens(Q \o P[k], d) = toks \o Pairs(parts, k) /\ Positions(P[k], "?") = {}
      BY <1>6, <2>5
    <3> DEFINE x == P[k]
               q == Q \o x
               w == <<d>>
    <3>4. q \in Seq(Characters) /\ w \in Seq(Characters)
      BY <1>3, <3>2
    <3> HIDE DEF e, d
    <3>5. Tokens((q \o <<d>>) \o e, d) = Append(Tokens(q, d), e)
      <4> HIDE DEF q
      <4> QED BY <1>3, <2>2, <3>4, TokensAppend
    <3>6. Q \o P[m] = (q \o w) \o e
      <4>1. P[m] = (x \o w) \o e
        BY <3>2 DEF Joined
      <4> HIDE DEF x, w
      <4>0. x \in Seq(Characters)
        BY <3>2 DEF x
      <4>2. x \o w \in Seq(Characters)
        BY <3>4, <4>0, ConcatProperties
      <4>3. Q \o ((x \o w) \o e) = (Q \o (x \o w)) \o e
        <5> DEFINE z == x \o w
        <5>1. z \in Seq(Characters)
          BY <4>2
        <5> HIDE DEF z
        <5>2. Q \o (z \o e) = (Q \o z) \o e
          BY <2>2, <5>1, ConcatAssociative
        <5> QED BY <5>2 DEF z
      <4>4. Q \o (x \o w) = (Q \o x) \o w
        BY <3>4, <4>0, ConcatAssociative
      <4> QED BY <4>1, <4>3, <4>4
    <3>7. Tokens(Q \o P[m], d) = toks \o Pairs(parts, m)
      BY <2>3, <3>3, <3>5, <3>6
    <3>8. Positions(P[m], "?") = {}
      BY <1>3, <2>2, <3>2, <3>3, JoinedPlain
    <3> HIDE DEF m
    <3>9. m \in S
      BY <2>1, <3>7, <3>8
    <3> QED BY <3>9 DEF m
  <2> QED BY <2>4, <2>5
<1>7. \A k \in 0..h : k \in S
  <2> HIDE DEF S, h
  <2> QED BY <1>1, <1>5, <1>6, Induction
<1>8. h \in 0..h /\ h # 0 /\ h \in 1..h
  BY <1>1
<1>9. Tokens(Q \o P[h], d) = toks \o Pairs(parts, h) /\ Positions(P[h], "?") = {}
  BY <1>7, <1>8
<1>10. P[h] \in Seq(Characters)
  BY <1>2, <1>8
<1> QED BY <1>2, <1>9, <1>10

(***************************************************************************)
(* What was given and what is read.                                        *)
(***************************************************************************)
ParametersOf(toks) == [i \in 1..Len(toks) |-> Parameter(toks[i])]
Readings == {Parameter(t) : t \in Seq(Characters)}

LEMMA ParametersFacts ==
  ASSUME NEW x \in Seq(Seq(Characters))
  PROVE  /\ ParametersOf(x) \in Seq(Readings) /\ Len(ParametersOf(x)) = Len(x)
         /\ \A i \in 1..Len(x) : ParametersOf(x)[i] = Parameter(x[i])
<1>1. Len(x) \in Nat /\ \A i \in 1..Len(x) : x[i] \in Seq(Characters)
  OBVIOUS
<1>2. \A i \in 1..Len(x) : Parameter(x[i]) \in Readings
  BY <1>1 DEF Readings
<1> DEFINE n == Len(x)
           p == ParametersOf(x)
<1>3. p = [i \in 1..n |-> Parameter(x[i])] /\ n \in Nat
  BY <1>1 DEF ParametersOf
<1> HIDE DEF p, n
<1>4. p \in Seq(Readings) /\ Len(p) = n
  BY <1>2, <1>3 DEF n
<1>5. \A i \in 1..n : p[i] = Parameter(x[i])
  BY <1>3
<1> QED BY <1>4, <1>5 DEF p, n

LEMMA ParametersConcat ==
  ASSUME NEW x \in Seq(Seq(Characters)), NEW y \in Seq(Seq(Characters))
  PROVE  ParametersOf(x \o y) = ParametersOf(x) \o ParametersOf(y)
<1> DEFINE z == x \o y
           a == Len(x)
           b == Len(y)
           p == ParametersOf(x)
           q == ParametersOf(y)
           r == ParametersOf(z)
           D == Seq(Characters)
<1>1. z \in Seq(D) /\ Len(z) = a + b
      /\ \A i \in 1..(a + b) : z[i] = IF i <= a THEN x[i] ELSE y[i - a]
  <2> HIDE DEF D
  <2>1. x \in Seq(D) /\ y \in Seq(D)
    BY DEF D
  <2> QED BY <2>1, ConcatProperties
<1>2. a \in Nat /\ b \in Nat
  OBVIOUS
<1>3. /\ p \in Seq(Readings) /\ Len(p) = a /\ \A i \in 1..a : p[i] = Parameter(x[i])
      /\ q \in Seq(Readings) /\ Len(q) = b /\ \A i \in 1..b : q[i] = Parameter(y[i])
      /\ r \in Seq(Readings) /\ Len(r) = a + b /\ \A i \in 1..(a + b) : r[i] = Parameter(z[i])
  <2>1. p \in Seq(Readings) /\ Len(p) = a /\ \A i \in 1..a : p[i] = Parameter(x[i])
    BY ParametersFacts
  <2>2. q \in Seq(Readings) /\ Len(q) = b /\ \A i \in 1..b : q[i] = Parameter(y[i])
    BY ParametersFacts
  <2>3. r \in Seq(Readings) /\ Len(r) = Len(z) /\ \A i \in 1..Len(z) : r[i] = Parameter(z[i])
    <3>1. z \in Seq(Seq(Characters))
      BY <1>1
    <3> HIDE DEF z
    <3> QED BY <3>1, ParametersFacts
  <2> QED BY <1>1, <2>1, <2>2, <2>3
<1> HIDE DEF p, q, r, z, a, b
<1> DEFINE s == p \o q
<1>4. s \in Seq(Readings) /\ Len(s) = a + b
      /\ \A i \in 1..(a + b) : s[i] = IF i <= a THEN p[i] ELSE q[i - a]
  <2>1. s \in Seq(Readings) /\ Len(s) = Len(p) + Len(q)
        /\ \A i \in 1..(Len(p) + Len(q)) : s[i] = IF i <= Len(p) THEN p[i] ELSE q[i - Len(p)]
    BY <1>3, ConcatProperties
  <2> QED BY <1>3, <2>1
<1> HIDE DEF s
<1>5. ASSUME NEW i \in 1..(a + b) PROVE s[i] = r[i]
  <2>1. CASE i <= a
    <3>1. i \in 1..a
      BY <1>2, <2>1
    <3> QED BY <1>1, <1>3, <1>4, <2>1, <3>1
  <2>2. CASE ~ (i <= a)
    <3>1. i - a \in 1..b
      BY <1>2, <2>2
    <3>2. z[i] = y[i - a] /\ s[i] = q[i - a]
      BY <1>1, <1>4, <2>2
    <3> QED BY <1>3, <3>1, <3>2
  <2> QED BY <2>1, <2>2
<1>6. s = r
  BY <1>3, <1>4, <1>5, SeqEqual
<1> QED BY <1>6 DEF p, q, r, s, z

LEMMA PairsType ==
  ASSUME Readable, NEW parts \in ParamLists
  PROVE  Pairs(parts, Half(parts)) \in Seq(Seq(Characters)) /\ Len(Pairs(parts, Half(parts))) = Half(parts)
<1> DEFINE h == Half(parts)
           p == Pairs(parts, h)
           D == Seq(Characters)
<1>1. h \in Nat /\ \A i \in 1..h : Pair(parts, i) \in D
  BY HalfFacts, PairFacts
<1>2. p = [i \in 1..h |-> Pair(parts, i)]
  BY DEF Pairs
<1> HIDE DEF p, h, D
<1>3. p \in Seq(D) /\ Len(p) = h
  BY <1>1, <1>2
<1> QED BY <1>3 DEF p, h, D

LEMMA MeantParams ==
  ASSUME Readable, NEW b, Format[b] # "plain", NEW parts \in ParamLists
  PROVE  MeantBy(b, parts) = ParametersOf(Pairs(parts, Half(parts)))
<1> DEFINE h == Half(parts)
           p == Pairs(parts, h)
<1>1. Len(p) = h
  BY PairsType
<1>2. MeantBy(b, parts) = [i \in 1..h |-> <<Meant(parts[2 * i - 1]), Meant(parts[2 * i])>>]
  BY DEF MeantBy, Half
<1>3. ParametersOf(p) = [i \in 1..h |-> Parameter(p[i])]
  BY <1>1 DEF ParametersOf
<1>4. \A i \in 1..h : p[i] = Pair(parts, i)
  BY DEF Pairs
<1>5. \A i \in 1..h : Parameter(p[i]) = <<Meant(parts[2 * i - 1]), Meant(parts[2 * i])>>
  <2> HIDE DEF p
  <2> QED BY <1>4, PairFacts
<1> HIDE DEF p, h
<1>6. MeantBy(b, parts) = ParametersOf(p)
  BY <1>2, <1>3, <1>5
<1> QED BY <1>6 DEF p, h

LEMMA OnePart ==
  ASSUME NEW part \in Part
  PROVE  appendParams(<<part>>) = appendTo(part)
<1> DEFINE parts == <<part>>
           p == Pieces(parts)
           a == appendTo(part)
           one == 1
<1>1. parts \in Seq(Part) /\ Len(parts) = one /\ parts[1] = part
  OBVIOUS
<1>2. a \in Seq(Characters)
  BY PartFacts
<1> HIDE DEF parts, a
<1>3. /\ appendParams(parts) = FlattenSeq(p) /\ p \in Seq(Seq(Characters)) /\ Len(p) = one
      /\ p[1] = <<>> \o a
  <2>1. /\ appendParams(parts) = FlattenSeq(Pieces(parts))
        /\ Pieces(parts) \in Seq(Seq(Characters)) /\ Len(Pieces(parts)) = Len(parts)
    BY <1>1, PiecesFacts
  <2>2. one \in 1..Len(parts) /\ one = 1
    BY <1>1
  <2>3. Pieces(parts)[one] = <<>> \o appendTo(parts[one])
    BY <2>2 DEF Pieces
  <2> QED BY <1>1, <2>1, <2>3 DEF a
<1> HIDE DEF p
<1>4. PICK F : Joins(F, p, Characters) /\ FlattenSeq(p) = F[Len(p)]
  BY <1>3, Flatten
<1>5. F[0] = <<>> /\ F[one] = F[one - 1] \o p[one]
  <2>1. one \in 1..Len(p)
    BY <1>3
  <2> HIDE DEF one
  <2> QED BY <1>4, <2>1 DEF Joins
<1>6. one - 1 = 0
  OBVIOUS
<1>7. F[one] = a
  BY <1>2, <1>3, <1>5, <1>6, ConcatEmptySeq
<1> QED BY <1>3, <1>4, <1>7 DEF parts, a

(* What q means to a reader of that format. *)
Queried(f, q) == IF f = "plain" THEN <<Meaning(q)>> ELSE ParametersOf(Tokens(q, "&"))
TextOf(base, q) == IF base = NoBase THEN q ELSE Joined(base, "?", q)
QueryOf(text, g, f, q) ==
  /\ q \in Seq(Characters) /\ Positions(q, "?") = {}
  /\ text = TextOf(g.base, q)
  /\ g.params = Queried(f, q)

(* The text of a live object in state, which was given g. *)
Shape(text, state, g, f) ==
  /\ g = Url(g.base, g.params) /\ g.base \in Bases \cup {NoBase}
  /\ state \in QueryStates
  /\ state = "queryEmptyUrl" => g.base # NoBase /\ text = g.base /\ g.params = <<>>
  /\ state = "queryEmptyQueryString" => g.base = NoBase /\ text = <<>> /\ g.params = <<>>
  /\ state = "queryNonEmpty" => \E q : QueryOf(text, g, f, q)

LEMMA BasePlain ==
  ASSUME Readable, NEW base \in Bases \cup {NoBase}, base # NoBase
  PROVE  base \in Seq(Characters) /\ Positions(base, "?") = {}
  BY UrlAssumption DEF Readable, Plain

LEMMA ShapeReads ==
  ASSUME Readable, NEW b,
         Shape(m_buf[b].text, m_queryState[b], given[b], Format[b])
  PROVE  /\ Url(BaseOf(b), Parameters(b)) = given[b]
         /\ m_queryState[b] = "queryNonEmpty" =>
              QueryText(b) \in Seq(Characters) /\ given[b].params = Queried(Format[b], QueryText(b))
<1> DEFINE text == m_buf[b].text
           g == given[b]
           base == g.base
<1>1. g = Url(base, g.params) /\ base \in Bases \cup {NoBase}
  BY DEF Shape
<1>2. CASE m_queryState[b] = "queryEmptyUrl"
  <2>1. text = base /\ g.params = <<>>
    BY <1>2 DEF Shape
  <2>2. BaseOf(b) = text /\ Parameters(b) = <<>>
    BY <1>2 DEF BaseOf, Parameters, IsUrl
  <2> HIDE DEF text, base
  <2> QED BY <1>1, <1>2, <2>1, <2>2
<1>3. CASE m_queryState[b] = "queryEmptyQueryString"
  <2>1. base = NoBase /\ g.params = <<>>
    BY <1>3 DEF Shape
  <2>2. BaseOf(b) = NoBase /\ Parameters(b) = <<>>
    BY <1>3 DEF BaseOf, Parameters, IsUrl
  <2> HIDE DEF text, base
  <2> QED BY <1>1, <1>3, <2>1, <2>2
<1>4. CASE m_queryState[b] = "queryNonEmpty"
  <2>1. PICK q : QueryOf(text, g, Format[b], q)
    BY <1>4 DEF Shape
  <2>2. q \in Seq(Characters) /\ Positions(q, "?") = {} /\ text = TextOf(base, q)
        /\ g.params = Queried(Format[b], q)
    BY <2>1 DEF QueryOf
  <2> HIDE DEF text
  <2>3. BaseOf(b) = base /\ QueryText(b) = q
    <3>1. CASE base = NoBase
      <4>1. text = q /\ ~ IsUrl(b)
        BY <1>4, <2>2, <3>1 DEF TextOf, IsUrl, text
      <4> QED BY <3>1, <4>1 DEF BaseOf, QueryText, text
    <3>2. CASE base # NoBase
      <4> DEFINE d == "?"
                 t == Joined(base, d, q)
      <4>1. d \in Characters /\ base \in Seq(Characters) /\ Positions(base, d) = {}
        BY <1>1, <3>2, BasePlain, SeparatorsAre
      <4> HIDE DEF d, base, t
      <4>2. Positions(t, d) # {} /\ Before(t, d) = base /\ Behind(t, d) = q
        BY <2>2, <4>1, JoinedSplits DEF t
      <4>3. m_buf[b].text = t
        BY <2>2, <3>2 DEF TextOf, text, t, d
      <4>4. IsUrl(b)
        BY <1>4, <4>2, <4>3 DEF IsUrl, d
      <4>5. BaseOf(b) = Before(t, d) /\ QueryText(b) = Behind(t, d)
        BY <1>4, <4>3, <4>4 DEF BaseOf, QueryText, d
      <4> QED BY <4>2, <4>5
    <3> QED BY <3>1, <3>2
  <2>4. Parameters(b) = Queried(Format[b], q)
    BY <1>4, <2>3 DEF Parameters, Queried, ParametersOf
  <2> QED BY <1>1, <1>4, <2>2, <2>3, <2>4
<1> QED BY <1>1, <1>2, <1>3, <1>4 DEF Shape, QueryStates

(* Parts behind a text of any shape. *)
LEMMA ShapeExtends ==
  ASSUME Readable, NEW b \in Builders, NEW parts \in Parts(b),
         NEW text, NEW state, NEW g, Shape(text, state, g, Format[b]),
         Format[b] = "plain" => state # "queryNonEmpty",
         NEW all, all = text \o separator("unknown", state) \o appendParams(parts)
  PROVE  Shape(all, "queryNonEmpty", Url(g.base, g.params \o MeantBy(b, parts)), Format[b])
<1> DEFINE f == Format[b]
           a == appendParams(parts)
           base == g.base
           meant == MeantBy(b, parts)
           new == Url(base, g.params \o meant)
<1>1. a \in Seq(Characters) /\ Positions(a, "?") = {}
  <2>1. CASE f = "plain"
    <3>1. PICK part \in PlainParts : parts = <<part>>
      BY <2>1, PartsFacts
    <3>2. part \in Part /\ (part.type = "raw" => Plain(part.value, {"?"}))
      BY UrlAssumption DEF Readable
    <3>3. appendTo(part) \in Seq(Characters) /\ Plain(appendTo(part), {"?"})
      <4>1. {"?"} \in SUBSET Separators
        BY DEF Separators
      <4> QED BY <3>2, <4>1, PartFacts, PartPlain
    <3> QED BY <3>1, <3>2, <3>3, OnePart DEF Plain
  <2>2. CASE f # "plain"
    <3>1. parts \in ParamLists
      BY <2>2, PartsFacts
    <3> DEFINE Q == <<>>
               toks == <<>>
    <3>2. Q \in Seq(Characters) /\ toks \in Seq(Seq(Characters)) /\ Opens(Q, toks)
      BY OpensEmpty
    <3> HIDE DEF Q, toks
    <3> QED BY <3>1, <3>2, ParamsTokens
  <2> QED BY <2>1, <2>2
<1>2. f = "plain" => meant = <<Meaning(a)>>
  <2> SUFFICES ASSUME f = "plain" PROVE meant = <<Meaning(a)>>
    OBVIOUS
  <2>1. PICK part \in PlainParts : parts = <<part>>
    BY PartsFacts
  <2>2. part \in Part
    BY UrlAssumption
  <2>3. a = appendTo(part) /\ Meaning(appendTo(part)) = Meant(part)
    BY <2>1, <2>2, OnePart, PartMeaning
  <2>4. meant = <<Meant(part)>>
    BY <2>1 DEF MeantBy
  <2> QED BY <2>3, <2>4
<1>3. ASSUME f # "plain"
      PROVE  /\ parts \in ParamLists /\ Pairs(parts, Half(parts)) \in Seq(Seq(Characters))
             /\ meant = ParametersOf(Pairs(parts, Half(parts))) /\ meant \in Seq(Readings)
  <2>1. parts \in ParamLists
    BY <1>3, PartsFacts
  <2>2. meant = ParametersOf(Pairs(parts, Half(parts)))
    BY <1>3, <2>1, MeantParams
  <2>3. Pairs(parts, Half(parts)) \in Seq(Seq(Characters))
    BY <2>1, PairsType
  <2> QED BY <2>1, <2>2, <2>3, ParametersFacts
<1>4. g = Url(base, g.params) /\ base \in Bases \cup {NoBase} /\ state \in QueryStates
  BY DEF Shape
<1>5. ASSUME NEW q, QueryOf(all, new, f, q)
      PROVE  Shape(all, "queryNonEmpty", new, f)
  <2>1. new = Url(new.base, new.params) /\ new.base = base
    BY DEF Url
  <2> HIDE DEF new, f
  <2> QED BY <1>4, <1>5, <2>1, StatesOf DEF Shape
<1>6. new.base = base /\ new.params = g.params \o meant
  BY DEF Url
<1>7. CASE state # "queryNonEmpty"
  <2>1. g.params = <<>>
    BY <1>4, <1>7 DEF Shape, QueryStates
  <2>2. <<>> \o meant = meant
    <3>1. CASE f = "plain"
      <4>1. meant \in Seq({Meaning(a)})
        <5> DEFINE e == Meaning(a)
        <5>1. meant = <<e>>
          BY <1>2, <3>1
        <5> HIDE DEF meant, e
        <5>2. meant \in Seq({e})
          BY <5>1
        <5> QED BY <5>2 DEF e
      <4> HIDE DEF meant
      <4> QED BY <4>1, ConcatEmptySeq
    <3>2. CASE f # "plain"
      <4> HIDE DEF meant
      <4> QED BY <1>3, <3>2, ConcatEmptySeq
    <3> QED BY <3>1, <3>2
  <2>3. meant = Queried(f, a)
    <3>1. CASE f = "plain"
      BY <1>2, <3>1 DEF Queried
    <3>2. CASE f # "plain"
      <4> DEFINE Q == <<>>
                 toks == <<>>
                 p == Pairs(parts, Half(parts))
      <4>1. Q \in Seq(Characters) /\ toks \in Seq(Seq(Characters)) /\ Opens(Q, toks)
        BY OpensEmpty
      <4> HIDE DEF Q, toks
      <4>2. Tokens(Q \o a, "&") = toks \o p
        BY <1>3, <3>2, <4>1, ParamsTokens
      <4>3. Q \o a = a /\ toks \o p = p
        BY <1>1, <1>3, <3>2, ConcatEmptySeq DEF Q, toks
      <4> QED BY <1>3, <3>2, <4>2, <4>3 DEF Queried
    <3> QED BY <3>1, <3>2
  <2>4. all = TextOf(base, a)
    <3>1. CASE state = "queryEmptyUrl"
      <4>1. base # NoBase /\ text = base
        BY <3>1 DEF Shape
      <4>2. separator("unknown", state) = <<"?">>
        BY <3>1 DEF separator
      <4> QED BY <4>1, <4>2 DEF TextOf, Joined
    <3>2. CASE state = "queryEmptyQueryString"
      <4>1. base = NoBase /\ text = <<>>
        BY <3>2 DEF Shape
      <4>2. separator("unknown", state) = <<>>
        BY <3>2 DEF separator
      <4>3. <<>> \o <<>> = <<>> /\ <<>> \o a = a
        <5> DEFINE e == <<>>
        <5>1. e \in Seq(Characters)
          OBVIOUS
        <5> HIDE DEF a
        <5> QED BY <1>1, <5>1, ConcatEmptySeq
      <4> QED BY <4>1, <4>2, <4>3 DEF TextOf
    <3> QED BY <1>4, <1>7, <3>1, <3>2 DEF QueryStates
  <2>5. QueryOf(all, new, f, a)
    <3> HIDE DEF new, f, a, meant, base
    <3> QED BY <1>1, <1>6, <2>1, <2>2, <2>3, <2>4 DEF QueryOf
  <2> QED BY <1>5, <2>5
<1>8. CASE state = "queryNonEmpty"
  <2>1. f # "plain"
    BY <1>8
  <2>2. PICK q : QueryOf(text, g, f, q)
    BY <1>8 DEF Shape
  <2>3. q \in Seq(Characters) /\ Positions(q, "?") = {} /\ text = TextOf(base, q) /\ g.params = Queried(f, q)
    BY <2>2 DEF QueryOf
  <2> DEFINE d == "&"
             w == <<d>>
             r == Joined(q, d, a)
             Q == q \o w
             p == Pairs(parts, Half(parts))
  <2>4. d \in Characters /\ w \in Seq(Characters) /\ "?" # d
    BY SeparatorsAre
  <2>5. Q \in Seq(Characters) /\ Opens(Q, Tokens(q, d)) /\ Tokens(q, d) \in Seq(Seq(Characters))
    BY <2>3, <2>4, OpensMore, TokensFacts
  <2>6. Tokens(r, d) = Tokens(q, d) \o p
    <3>1. r = Q \o a
      BY DEF Joined
    <3> DEFINE toks == Tokens(q, d)
    <3>a. Q \in Seq(Characters) /\ toks \in Seq(Seq(Characters)) /\ Opens(Q, toks)
      BY <2>5
    <3> HIDE DEF Q, toks
    <3>b. Tokens(Q \o appendParams(parts), "&") = toks \o Pairs(parts, Half(parts))
      BY <1>3, <2>1, <3>a, ParamsTokens
    <3>2. Tokens(Q \o a, "&") = toks \o p
      BY <3>b
    <3> QED BY <3>1, <3>2 DEF toks
  <2>7. r \in Seq(Characters) /\ Positions(r, "?") = {}
    <3> HIDE DEF d, a
    <3> QED BY <1>1, <2>3, <2>4, JoinedFacts, JoinedPlain
  <2>8. new.params = Queried(f, r)
    <3> DEFINE toks == Tokens(q, d)
    <3>1. toks \in Seq(Seq(Characters)) /\ p \in Seq(Seq(Characters))
      BY <1>3, <2>1, <2>5
    <3>2. g.params = ParametersOf(toks) /\ Queried(f, r) = ParametersOf(Tokens(r, d))
      BY <2>1, <2>3 DEF Queried
    <3>3. meant = ParametersOf(p)
      BY <1>3, <2>1
    <3> HIDE DEF toks, p, f, r, d, new, meant
    <3>4. ParametersOf(toks \o p) = ParametersOf(toks) \o ParametersOf(p)
      BY <3>1, ParametersConcat
    <3> QED BY <1>6, <2>6, <3>2, <3>3, <3>4 DEF toks
  <2>9. all = TextOf(base, r)
    <3>1. all = (text \o w) \o a
      BY <1>8 DEF separator
    <3>2. CASE base = NoBase
      BY <2>3, <3>1, <3>2 DEF TextOf, Joined
    <3>3. CASE base # NoBase
      <4> DEFINE u == base \o <<"?">>
      <4>1. u \in Seq(Characters)
        <5>1. base \in Seq(Characters) /\ <<"?">> \in Seq(Characters)
          BY <1>4, <3>3, BasePlain, SeparatorsAre
        <5> HIDE DEF base
        <5> QED BY <5>1, ConcatProperties
      <4>2. text = u \o q
        BY <2>3, <3>3 DEF TextOf, Joined
      <4>3. \A x, y, z \in Seq(Characters) : x \o (y \o z) = (x \o y) \o z
        BY ConcatAssociative
      <4> HIDE DEF u, w, a
      <4>4. u \o (q \o w) = (u \o q) \o w
        BY <2>3, <2>4, <4>1, <4>3
      <4>5. u \o (Q \o a) = (u \o Q) \o a
        <5> HIDE DEF Q
        <5> QED BY <1>1, <2>5, <4>1, <4>3
      <4>6. all = u \o (Q \o a)
        BY <3>1, <4>2, <4>4, <4>5
      <4>7. TextOf(base, r) = u \o r /\ r = Q \o a
        BY <3>3 DEF TextOf, Joined, u, w
      <4> QED BY <4>6, <4>7
    <3> QED BY <3>2, <3>3
  <2>10. QueryOf(all, new, f, r)
    <3> HIDE DEF new, f, r, base
    <3> QED BY <1>6, <2>7, <2>8, <2>9 DEF QueryOf
  <2> QED BY <1>5, <2>10
<1> QED BY <1>7, <1>8

(* What the text and the state of every live object say together. *)
ShapeInv ==
  /\ given = [b \in Builders |-> given[b]]
  /\ \A b \in Builders : status[b] = "live" =>
       Shape(m_buf[b].text, m_queryState[b], given[b], Format[b])

LEMMA NothingShapes ==
  ASSUME ShapeInv, UNCHANGED <<fields, given>>
  PROVE  ShapeInv'
<1>1. UNCHANGED <<status, m_buf, m_queryState, given>>
  BY DEF fields
<1> QED BY <1>1 DEF ShapeInv

LEMMA HoldsShapes ==
  ASSUME FitsInv, ShapeInv, NEW b \in Builders, NEW text, NEW size, NEW state,
         Holds(b, text, size, state),
         NEW g, Shape(text, state, g, Format[b]), given' = [given EXCEPT ![b] = g]
  PROVE  ShapeInv'
<1>1. given' = [x \in Builders |-> IF x = b THEN g ELSE given[x]]
  BY DEF ShapeInv
<1>2. /\ m_buf'[b].text = text /\ m_queryState'[b] = state
      /\ \A x \in Builders \ {b} : status'[x] = status[x] /\ m_buf'[x] = m_buf[x]
                                   /\ m_queryState'[x] = m_queryState[x]
  BY DEF FitsInv, TypeOK, Holds
<1>3. ASSUME NEW x \in Builders, status'[x] = "live"
      PROVE  Shape(m_buf'[x].text, m_queryState'[x], given'[x], Format[x])
  BY <1>1, <1>2, <1>3 DEF ShapeInv
<1>4. given' = [x \in Builders |-> given'[x]]
  BY <1>1
<1> QED BY <1>3, <1>4 DEF ShapeInv

(* A base that nothing follows yet. *)
EmptyState(base) == IF base = NoBase THEN "queryEmptyQueryString" ELSE "queryEmptyUrl"

LEMMA BaseShape ==
  ASSUME NEW base \in Bases \cup {NoBase}, NEW f
  PROVE  Shape(BaseText(base), EmptyState(base), Url(base, <<>>), f)
<1> DEFINE g == Url(base, <<>>)
<1>1. g.base = base /\ g.params = <<>>
  BY DEF Url
<1>2. g = Url(g.base, g.params)
  BY <1>1
<1> HIDE DEF g
<1> QED BY <1>1, <1>2, StatesOf DEF Shape, BaseText, EmptyState

LEMMA constructShapes ==
  ASSUME FitsInv, ShapeInv, NEW b \in Builders, NEW base \in Bases \cup {NoBase},
         construct(b, base)
  PROVE  ShapeInv'
<1>1. CASE Throws
  BY <1>1, NothingShapes DEF Throws
<1>2. CASE /\ Holds(b, BaseText(base), Max({minBufCapacity, Len(BaseText(base))}),
                    IF base = NoBase THEN "queryEmptyQueryString" ELSE "queryEmptyUrl")
           /\ given' = [given EXCEPT ![b] = Url(base, <<>>)]
  <2> DEFINE size == Max({minBufCapacity, Len(BaseText(base))})
             g == Url(base, <<>>)
  <2>1. Holds(b, BaseText(base), size, EmptyState(base))
    BY <1>2 DEF EmptyState
  <2>2. Shape(BaseText(base), EmptyState(base), g, Format[b])
    BY BaseShape
  <2>3. given' = [given EXCEPT ![b] = g]
    BY <1>2
  <2> HIDE DEF size, g
  <2> QED BY <2>1, <2>2, <2>3, HoldsShapes
<1> QED BY <1>1, <1>2 DEF construct

LEMMA MeantByType ==
  ASSUME Readable, NEW b \in Builders, NEW parts \in Parts(b)
  PROVE  \E C : MeantBy(b, parts) \in Seq(C)
<1>1. CASE Format[b] = "plain"
  <2> DEFINE e == Meant(parts[1])
  <2>1. MeantBy(b, parts) = <<e>>
    BY <1>1 DEF MeantBy
  <2> HIDE DEF e
  <2>2. <<e>> \in Seq({e})
    OBVIOUS
  <2> QED BY <2>1, <2>2
<1>2. CASE Format[b] # "plain"
  <2>1. parts \in ParamLists
    BY <1>2, PartsFacts
  <2>2. MeantBy(b, parts) = ParametersOf(Pairs(parts, Half(parts)))
    BY <1>2, <2>1, MeantParams
  <2>3. Pairs(parts, Half(parts)) \in Seq(Seq(Characters))
    BY <2>1, PairsType
  <2>4. MeantBy(b, parts) \in Seq(Readings)
    BY <2>2, <2>3, ParametersFacts
  <2> QED BY <2>4
<1> QED BY <1>1, <1>2

LEMMA constructWithShapes ==
  ASSUME Readable, FitsInv, ShapeInv, NEW b \in Builders, NEW base \in Bases \cup {NoBase},
         NEW parts \in Parts(b), constructWith(b, base, parts)
  PROVE  ShapeInv'
<1> DEFINE mode == FirstMode(base)
           text == BaseText(base)
           all == text \o separator(mode, "queryEmptyUrl") \o appendParams(parts)
           size == Max({minBufCapacity, Len(text) + maxEncodedSize(mode, parts)})
           g == Url(base, MeantBy(b, parts))
           e == Url(base, <<>>)
           state == EmptyState(base)
<1>1. CASE Throws
  BY <1>1, NothingShapes DEF Throws
<1>2. CASE Holds(b, all, size, "queryNonEmpty") /\ given' = [given EXCEPT ![b] = g]
  <2>1. separator(mode, "queryEmptyUrl") = separator("unknown", state)
    BY DEF separator, FirstMode, EmptyState
  <2>2. all = text \o separator("unknown", state) \o appendParams(parts)
    BY <2>1
  <2>3. Shape(text, state, e, Format[b]) /\ state # "queryNonEmpty"
    BY BaseShape DEF EmptyState
  <2>4. g = Url(e.base, e.params \o MeantBy(b, parts))
    <3> DEFINE m == MeantBy(b, parts)
    <3>1. <<>> \o m = m
      <4>1. PICK C : m \in Seq(C)
        BY MeantByType
      <4> HIDE DEF m
      <4> QED BY <4>1, ConcatEmptySeq
    <3>2. e.base = base /\ e.params = <<>>
      BY DEF Url
    <3> QED BY <3>1, <3>2
  <2> HIDE DEF text, all, e, state, size
  <2>5. Shape(all, "queryNonEmpty", g, Format[b])
    BY <2>2, <2>3, <2>4, ShapeExtends
  <2> HIDE DEF g
  <2> QED BY <1>2, <2>5, HoldsShapes
<1> QED BY <1>1, <1>2 DEF constructWith

LEMMA extendShapes ==
  ASSUME Readable, FitsInv, ShapeInv, NEW b \in Builders, NEW parts \in Parts(b),
         status[b] = "live", Format[b] = "plain" => m_queryState[b] # "queryNonEmpty",
         extend(b, parts)
  PROVE  ShapeInv'
<1> DEFINE text == m_buf[b].text
           state == m_queryState[b]
           all == text \o separator("unknown", state) \o appendParams(parts)
           size == Len(text) + maxEncodedSize("unknown", parts)
           g == given[b]
           new == Url(g.base, g.params \o MeantBy(b, parts))
<1>1. CASE Throws
  BY <1>1, NothingShapes DEF Throws
<1>2. CASE /\ Holds(b, all, size, "queryNonEmpty")
           /\ given' = [given EXCEPT ![b].params = @ \o MeantBy(b, parts)]
  <2>1. Shape(text, state, g, Format[b]) /\ g = Url(g.base, g.params)
    BY DEF ShapeInv, Shape
  <2>2. given' = [given EXCEPT ![b] = new]
    <3>1. [g EXCEPT !.params = @ \o MeantBy(b, parts)] = new
      <4> DEFINE m == MeantBy(b, parts)
                 base == g.base
                 p == g.params
      <4>1. g = [base |-> base, params |-> p]
        BY <2>1 DEF Url
      <4>2. [g EXCEPT !.params = @ \o m] = [g EXCEPT !.params = p \o m]
        OBVIOUS
      <4> DEFINE n == p \o m
      <4> HIDE DEF m, base, p, g, n
      <4>3. [g EXCEPT !.params = n] = [base |-> base, params |-> n]
        BY <4>1
      <4>4. [g EXCEPT !.params = @ \o m] = [base |-> base, params |-> p \o m]
        BY <4>2, <4>3 DEF n
      <4> QED BY <4>4 DEF Url, m, base, p
    <3> QED BY <1>2, <3>1
  <2> HIDE DEF text, state, g
  <2>3. Shape(all, "queryNonEmpty", new, Format[b])
    BY <2>1, ShapeExtends DEF state
  <2> HIDE DEF new, all, size
  <2> QED BY <1>2, <2>2, <2>3, HoldsShapes
<1> QED BY <1>1, <1>2 DEF extend

LEMMA CopiesShape ==
  ASSUME FitsInv, ShapeInv, NEW b \in Builders, NEW o \in Builders, b # o, status[o] = "live",
         Format[b] = Format[o], NEW p,
         status' = [status EXCEPT ![b] = "live", ![o] = "moved"],
         m_buf' = [m_buf EXCEPT ![b] = m_buf[o], ![o] = p],
         m_queryState' = [m_queryState EXCEPT ![b] = m_queryState[o]],
         given' = [given EXCEPT ![b] = given[o], ![o] = Url(NoBase, <<>>)]
  PROVE  ShapeInv'
<1> DEFINE e == Url(NoBase, <<>>)
<1>1. given' = [x \in Builders |-> IF x = o THEN e ELSE IF x = b THEN given[o] ELSE given[x]]
  <2> HIDE DEF e
  <2> QED BY DEF ShapeInv, e
<1>2. /\ m_buf'[b] = m_buf[o] /\ m_queryState'[b] = m_queryState[o] /\ status'[o] = "moved"
      /\ \A x \in Builders \ {b, o} : status'[x] = status[x] /\ m_buf'[x] = m_buf[x]
                                      /\ m_queryState'[x] = m_queryState[x]
  BY DEF FitsInv, TypeOK
<1> HIDE DEF e
<1>3. ASSUME NEW x \in Builders, status'[x] = "live"
      PROVE  Shape(m_buf'[x].text, m_queryState'[x], given'[x], Format[x])
  <2>1. x # o
    BY <1>2, <1>3
  <2>2. CASE x = b
    BY <1>1, <1>2, <2>1, <2>2 DEF ShapeInv
  <2>3. CASE x # b
    BY <1>1, <1>2, <1>3, <2>1, <2>3 DEF ShapeInv
  <2> QED BY <2>2, <2>3
<1>4. given' = [x \in Builders |-> given'[x]]
  BY <1>1
<1> QED BY <1>3, <1>4 DEF ShapeInv

LEMMA BuilderNextShapes ==
  ASSUME Readable, FitsInv, ShapeInv, NEW b \in Builders, NEW Others \in SUBSET Builders,
         BuilderNext(b, Others)
  PROVE  ShapeInv'
<1>1. ASSUME NEW base \in Bases \cup {NoBase}, construct(b, base) PROVE ShapeInv'
  BY <1>1, constructShapes
<1>2. ASSUME NEW base \in Bases \cup {NoBase}, NEW parts \in Parts(b), constructWith(b, base, parts)
      PROVE  ShapeInv'
  BY <1>2, constructWithShapes
<1>3. ASSUME NEW o \in Others, moveConstruct(b, o) PROVE ShapeInv'
  <2>1. o \in Builders /\ b # o /\ status[o] = "live" /\ Format[b] = Format[o]
    BY <1>3 DEF moveConstruct
  <2>2. /\ status' = [status EXCEPT ![b] = "live", ![o] = "moved"]
        /\ m_buf' = [m_buf EXCEPT ![b] = m_buf[o], ![o] = Empty]
        /\ m_queryState' = [m_queryState EXCEPT ![b] = m_queryState[o]]
        /\ given' = [given EXCEPT ![b] = given[o], ![o] = Url(NoBase, <<>>)]
    BY <1>3 DEF moveConstruct
  <2> QED BY <2>1, <2>2, CopiesShape
<1>4. ASSUME NEW o \in Others, moveAssign(b, o) PROVE ShapeInv'
  <2>1. o \in Builders /\ b # o /\ status[o] = "live" /\ Format[b] = Format[o]
    BY <1>4 DEF moveAssign
  <2>2. /\ status' = [status EXCEPT ![b] = "live", ![o] = "moved"]
        /\ m_buf' = [m_buf EXCEPT ![b] = m_buf[o], ![o] = m_buf[b]]
        /\ m_queryState' = [m_queryState EXCEPT ![b] = m_queryState[o]]
        /\ given' = [given EXCEPT ![b] = given[o], ![o] = Url(NoBase, <<>>)]
    BY <1>4 DEF moveAssign
  <2> QED BY <2>1, <2>2, CopiesShape
<1>5. ASSUME destroyBuilder(b) PROVE ShapeInv'
  <2> DEFINE e == Url(NoBase, <<>>)
  <2>1. given' = [x \in Builders |-> IF x = b THEN e ELSE given[x]]
    <3> HIDE DEF e
    <3> QED BY <1>5 DEF destroyBuilder, ShapeInv, e
  <2>2. /\ status'[b] = "none"
        /\ \A x \in Builders \ {b} : status'[x] = status[x] /\ m_buf'[x] = m_buf[x]
                                     /\ m_queryState'[x] = m_queryState[x]
    BY <1>5 DEF destroyBuilder, FitsInv, TypeOK
  <2> HIDE DEF e
  <2>3. ASSUME NEW x \in Builders, status'[x] = "live"
        PROVE  Shape(m_buf'[x].text, m_queryState'[x], given'[x], Format[x])
    BY <2>1, <2>2, <2>3 DEF ShapeInv
  <2>4. given' = [x \in Builders |-> given'[x]]
    BY <2>1
  <2> QED BY <2>3, <2>4 DEF ShapeInv
<1>6. ASSUME NEW part \in PlainParts, query(b, part) PROVE ShapeInv'
  <2>1. CASE UNCHANGED <<fields, given>>
    BY <2>1, NothingShapes
  <2>2. CASE m_queryState[b] # "queryNonEmpty" /\ extend(b, <<part>>)
    <3>1. status[b] = "live" /\ <<part>> \in Parts(b)
      BY <1>6 DEF query, Parts
    <3> QED BY <2>2, <3>1, extendShapes
  <2> QED BY <1>6, <2>1, <2>2 DEF query
<1>7. ASSUME NEW parts \in ParamLists, params(b, parts) PROVE ShapeInv'
  <2>1. status[b] = "live" /\ Format[b] # "plain" /\ parts \in Parts(b) /\ extend(b, parts)
    BY <1>7 DEF params, Parts
  <2> QED BY <2>1, extendShapes
<1> QED BY <1>1, <1>2, <1>3, <1>4, <1>5, <1>6, <1>7 DEF BuilderNext

LEMMA InitShapes ==
  ASSUME Init
  PROVE  ShapeInv
  BY DEF Init, BuilderInit, ShapeInv

LEMMA NextShapes ==
  ASSUME Readable, FitsInv, ShapeInv, [Next]_vars
  PROVE  ShapeInv'
<1>1. ASSUME NEW b \in Builders \ {readFrom}, BuilderNext(b, Builders \ {readFrom}) PROVE ShapeInv'
  <2>1. b \in Builders /\ Builders \ {readFrom} \in SUBSET Builders
    OBVIOUS
  <2> QED BY <1>1, <2>1, BuilderNextShapes
<1>2. CASE UNCHANGED builders
  BY <1>2, NothingShapes DEF builders
<1>3. CASE UNCHANGED vars
  BY <1>3, <1>2 DEF vars
<1> QED BY <1>1, <1>2, <1>3 DEF Next, read, readLine

LEMMA ShapesHold ==
  ASSUME Readable, ShapeInv
  PROVE  HoldsWhatWasGiven
<1>1. ASSUME NEW b \in Builders, status[b] = "live"
      PROVE  Url(BaseOf(b), Parameters(b)) = given[b]
  BY <1>1, ShapeReads DEF ShapeInv
<1> QED BY <1>1 DEF HoldsWhatWasGiven

(* A text holds the base and the parameters that were given, in order and  *)
(* with their values, whatever characters they are made of and through     *)
(* failed calls, moves and assignments: as long as no text that a caller   *)
(* gives as it is holds a separator.                                       *)
THEOREM HoldsWhatWasGivenAlways == ASSUME Readable PROVE Spec => []HoldsWhatWasGiven
<1>1. Init => FitsInv /\ ShapeInv
  BY InitFits, InitShapes
<1>2. FitsInv /\ [Next]_vars => FitsInv'
  BY NextFits
<1>3. FitsInv /\ ShapeInv /\ [Next]_vars => ShapeInv'
  BY NextShapes
<1>4. ShapeInv => HoldsWhatWasGiven
  BY ShapesHold
<1> QED BY <1>1, <1>2, <1>3, <1>4, PTL DEF Spec

(***************************************************************************)
(* The reader and the builder it reads.                                    *)
(***************************************************************************)
LEMMA Rest ==
  ASSUME NEW C, NEW s \in Seq(C), NEW k \in Nat, k <= Len(s),
         NEW r, r = SubSeq(s, k + 1, Len(s)), r # <<>>
  PROVE  /\ k + 1 \in 1..Len(s) /\ Head(r) = s[k + 1]
         /\ Tail(r) = SubSeq(s, k + 2, Len(s))
         /\ Tail(r) # <<>> => k + 1 < Len(s)
<1> DEFINE n == Len(s)
           a == k + 1
           c == k + 2
<1>1. n \in Nat /\ a \in Nat /\ c = a + 1 /\ c \in Nat /\ a >= 1
  OBVIOUS
<1> HIDE DEF n
<1>2. a <= n
  <2>1. CASE a > n
    <3>1. r = <<>>
      BY <1>1, <2>1, SubSeqEmpty DEF n
    <3> QED BY <3>1
  <2> QED BY <1>1, <2>1
<1> HIDE DEF a, c
<1>3. r = SubSeq(s, a, n)
  BY DEF a, n
<1>4. a \in 1..Len(s) /\ n \in a..Len(s)
  BY <1>1, <1>2 DEF n
<1>5. Head(r) = s[a] /\ Tail(r) = SubSeq(s, a + 1, n)
  BY <1>3, <1>4, HeadTailOfSubSeq
<1>6. Tail(r) = SubSeq(s, c, n)
  BY <1>1, <1>5
<1>7. Tail(r) # <<>> => a < n
  <2>1. ASSUME ~ a < n PROVE Tail(r) = <<>>
    <3>1. c > n
      BY <1>1, <2>1
    <3> QED BY <1>1, <1>6, <3>1, SubSeqEmpty
  <2> QED BY <2>1
<1> QED BY <1>1, <1>2, <1>5, <1>6, <1>7 DEF a, c, n

(* While a builder is read its text does not change.                       *)
Refers ==
  readFrom # NoBuilder =>
    /\ readFrom \in Builders /\ status[readFrom] = "live" /\ Format[readFrom] # "plain"
    /\ m_queryState[readFrom] = "queryNonEmpty" /\ input = QueryText(readFrom)

(* The reader has taken the first tokens of its text.                      *)
ReadsInv ==
  /\ taken \in Nat
  /\ input = NoInput => last = <<>> /\ readFrom = NoBuilder
  /\ input # NoInput =>
       /\ Refers
       /\ taken <= Len(Tokens(input, Delimiter))
       /\ m_hasNext => Tokens(Without(input, m_curr - 1), Delimiter)
                       = SubSeq(Tokens(input, Delimiter), taken + 1, Len(Tokens(input, Delimiter)))
       /\ last # <<>> => /\ taken \in 1..Len(Tokens(input, Delimiter))
                         /\ last = <<Tokens(input, Delimiter)[taken]>>

LEMMA OthersUntouched ==
  ASSUME FitsInv, NEW b \in Builders, NEW Others \in SUBSET Builders, BuilderNext(b, Others),
         NEW x \in Builders, x # b, x \notin Others
  PROVE  status'[x] = status[x] /\ m_buf'[x] = m_buf[x] /\ m_queryState'[x] = m_queryState[x]
<1> DEFINE Same == status'[x] = status[x] /\ m_buf'[x] = m_buf[x] /\ m_queryState'[x] = m_queryState[x]
<1>1. UNCHANGED fields => Same
  BY DEF fields
<1>2. Throws => Same
  BY <1>1 DEF Throws
<1>3. ASSUME NEW text, NEW size, NEW state, Holds(b, text, size, state) PROVE Same
  BY <1>3 DEF FitsInv, TypeOK, Holds
<1> HIDE DEF Same
<1>4. ASSUME NEW base \in Bases \cup {NoBase}, construct(b, base) PROVE Same
  BY <1>2, <1>3, <1>4 DEF construct
<1>5. ASSUME NEW base \in Bases \cup {NoBase}, NEW parts \in Parts(b), constructWith(b, base, parts)
      PROVE  Same
  BY <1>2, <1>3, <1>5 DEF constructWith
<1>6. ASSUME NEW o \in Others, moveConstruct(b, o) \/ moveAssign(b, o) PROVE Same
  BY <1>6 DEF moveConstruct, moveAssign, FitsInv, TypeOK, Same
<1>7. ASSUME destroyBuilder(b) PROVE Same
  BY <1>7 DEF destroyBuilder, FitsInv, TypeOK, Same
<1>8. ASSUME NEW parts, extend(b, parts) PROVE Same
  BY <1>2, <1>3, <1>8 DEF extend
<1>9. ASSUME NEW part \in PlainParts, query(b, part) PROVE Same
  BY <1>1, <1>8, <1>9 DEF query
<1>10. ASSUME NEW parts \in ParamLists, params(b, parts) PROVE Same
  BY <1>8, <1>10 DEF params
<1>11. Same
  BY <1>4, <1>5, <1>6, <1>7, <1>9, <1>10 DEF BuilderNext
<1> QED BY <1>11 DEF Same

LEMMA RefersOn ==
  ASSUME Refers, UNCHANGED <<input, readFrom>>,
         readFrom \in Builders => /\ status'[readFrom] = status[readFrom]
                                  /\ m_buf'[readFrom] = m_buf[readFrom]
                                  /\ m_queryState'[readFrom] = m_queryState[readFrom]
  PROVE  Refers'
<1>1. readFrom \in Builders => QueryText(readFrom)' = QueryText(readFrom)
  BY DEF QueryText, IsUrl
<1> QED BY <1>1 DEF Refers

LEMMA ReadsOn ==
  ASSUME ReadsInv, UNCHANGED <<tokeniser, readFrom>>,
         readFrom \in Builders => /\ status'[readFrom] = status[readFrom]
                                  /\ m_buf'[readFrom] = m_buf[readFrom]
                                  /\ m_queryState'[readFrom] = m_queryState[readFrom]
  PROVE  ReadsInv'
<1>1. UNCHANGED <<input, m_curr, m_hasNext, last, taken, readFrom>>
  BY DEF tokeniser
<1>2. Refers => Refers'
  BY <1>1, RefersOn
<1> QED BY <1>1, <1>2 DEF ReadsInv

LEMMA ReadsStep ==
  ASSUME ~SkipsLast, FitsInv, ReaderInv, ReadsInv, [Next]_vars
  PROVE  ReadsInv'
<1> DEFINE r == Find(input, m_curr, Delimiter)
           rest == Tokens(Without(input, m_curr - 1), Delimiter)
           all == Tokens(input, Delimiter)
           n == Len(all)
<1>1. ASSUME NEW b \in Builders \ {readFrom}, BuilderNext(b, Builders \ {readFrom}),
             UNCHANGED <<tokeniser, readFrom>>
      PROVE  ReadsInv'
  <2>1. Builders \ {readFrom} \in SUBSET Builders /\ b \in Builders
    OBVIOUS
  <2>2. ASSUME readFrom \in Builders
        PROVE  /\ status'[readFrom] = status[readFrom] /\ m_buf'[readFrom] = m_buf[readFrom]
               /\ m_queryState'[readFrom] = m_queryState[readFrom]
    <3> DEFINE x == readFrom
               Others == Builders \ {x}
    <3>1. x \in Builders /\ x # b /\ x \notin Others /\ Others \in SUBSET Builders /\ b \in Builders
      BY <2>2
    <3>2. BuilderNext(b, Others)
      BY <1>1
    <3> HIDE DEF x, Others
    <3>3. status'[x] = status[x] /\ m_buf'[x] = m_buf[x] /\ m_queryState'[x] = m_queryState[x]
      BY <3>1, <3>2, OthersUntouched
    <3>4. x = readFrom
      BY DEF x
    <3> QED BY <3>3, <3>4
  <2> QED BY <1>1, <2>2, ReadsOn
<1>2. CASE UNCHANGED vars
  <2>1. UNCHANGED <<tokeniser, readFrom>> /\ UNCHANGED <<status, m_buf, m_queryState>>
    BY <1>2 DEF vars, builders, fields
  <2> QED BY <2>1, ReadsOn
<1>3. ASSUME NEW q \in Seq(Characters), T!construct(q), Refers'
      PROVE  ReadsInv'
  <2> DEFINE toks == Tokens(q, Delimiter)
  <2>1. q # NoInput
    BY ReaderAssumption
  <2>2. input' = q /\ m_curr' = 1 /\ last' = <<>> /\ taken' = 0
    BY <1>3 DEF T!construct
  <2>4. toks \in Seq(Seq(Characters)) /\ Len(toks) \in Nat
    BY TokensFacts
  <2>5. Without(q, 0) = q
    BY SubSeqFull DEF Without
  <2>6. Tokens(Without(q, 1 - 1), Delimiter) = SubSeq(toks, 0 + 1, Len(toks))
    <3>1. SubSeq(toks, 1, Len(toks)) = toks
      BY <2>4, SubSeqFull
    <3>2. 1 - 1 = 0 /\ 0 + 1 = 1
      OBVIOUS
    <3> QED BY <2>5, <3>1, <3>2
  <2> QED BY <1>3, <2>1, <2>2, <2>4, <2>6 DEF ReadsInv
<1>4. ASSUME T!destroy, readFrom' = NoBuilder PROVE ReadsInv'
  BY <1>4 DEF T!destroy, ReadsInv
<1>5. ASSUME input # NoInput, m_hasNext
      PROVE  /\ input \in Seq(Characters) /\ all \in Seq(Seq(Characters)) /\ n \in Nat
             /\ taken \in Nat /\ taken + 1 \in 1..n
             /\ SubSeq(input, m_curr, r - 1) = all[taken + 1]
             /\ r # Len(input) + 1 =>
                  Tokens(Without(input, r), Delimiter) = SubSeq(all, taken + 2, n)
  <2>1. input \in Seq(Characters) /\ m_curr \in 1..(Len(input) + 1)
    BY <1>5 DEF ReaderInv
  <2>2. /\ rest # <<>> /\ Head(rest) = SubSeq(input, m_curr, r - 1)
        /\ r # Len(input) + 1 => Tail(rest) = Tokens(Without(input, r), Delimiter)
    BY <2>1, Finds
  <2>3. all \in Seq(Seq(Characters)) /\ n \in Nat
    BY <2>1, TokensFacts
  <2>4. taken \in Nat /\ taken <= n /\ rest = SubSeq(all, taken + 1, n)
    BY <1>5 DEF ReadsInv
  <2> HIDE DEF rest, all, r
  <2>5. taken + 1 \in 1..n /\ Head(rest) = all[taken + 1] /\ Tail(rest) = SubSeq(all, taken + 2, n)
    <3> DEFINE D == Seq(Characters)
    <3>1. all \in Seq(D)
      BY <2>3
    <3> HIDE DEF D
    <3> QED BY <2>2, <2>4, <3>1, Rest
  <2> QED BY <2>1, <2>2, <2>3, <2>4, <2>5
<1>6. T!find(m_curr) = r /\ T!m_end = Len(input) + 1
  BY SameTexts DEF T!m_end
<1>7. ASSUME UNCHANGED builders, UNCHANGED readFrom, input' = input, input # NoInput, m_hasNext,
             taken' = taken + 1, last' = <<>> \/ last' = <<SubSeq(input, m_curr, r - 1)>>,
             \/ r # Len(input) + 1 /\ m_curr' = r + 1
             \/ m_hasNext' = FALSE
      PROVE  ReadsInv'
  <2>1. UNCHANGED <<status, m_buf, m_queryState>>
    BY <1>7 DEF builders, fields
  <2>2. Refers'
    <3>1. Refers
      BY <1>7 DEF ReadsInv
    <3>2. UNCHANGED <<input, readFrom>>
      BY <1>7
    <3> QED BY <2>1, <3>1, <3>2, RefersOn
  <2>3. m_hasNext' => Tokens(Without(input', m_curr' - 1), Delimiter) = SubSeq(all, taken' + 1, n)
    <3> SUFFICES ASSUME m_hasNext'
                 PROVE  Tokens(Without(input', m_curr' - 1), Delimiter) = SubSeq(all, taken' + 1, n)
      OBVIOUS
    <3>1. input \in Seq(Characters) /\ m_curr \in 1..(Len(input) + 1)
      BY <1>7 DEF ReaderInv
    <3>2. r \in m_curr..(Len(input) + 1)
      BY <3>1, Finds
    <3>3. (r + 1) - 1 = r
      BY <3>1, <3>2
    <3>4. (taken + 1) + 1 = taken + 2
      BY <1>5, <1>7
    <3> HIDE DEF r, all, n
    <3> QED BY <1>5, <1>7, <3>3, <3>4
  <2> HIDE DEF all, n, r
  <2>4. taken' \in Nat /\ taken' <= n /\ taken' \in 1..n
        /\ (last' # <<>> => last' = <<all[taken']>>)
    <3> DEFINE a == taken + 1
               t == SubSeq(input, m_curr, r - 1)
    <3>1. a \in 1..n /\ n \in Nat /\ t = all[a]
      BY <1>5, <1>7
    <3>2. taken' = a /\ (last' = <<>> \/ last' = <<t>>)
      BY <1>7
    <3> HIDE DEF a, t
    <3> QED BY <3>1, <3>2
  <2>5. Tokens(input', Delimiter) = all /\ Len(all) = n
    BY <1>7 DEF all, n
  <2> QED BY <1>7, <2>2, <2>3, <2>4, <2>5 DEF ReadsInv
<1>8. ASSUME T!next, UNCHANGED <<builders, readFrom>> PROVE ReadsInv'
  <2>1. /\ input # NoInput /\ m_hasNext /\ input' = input /\ taken' = taken + 1
        /\ last' = <<SubSeq(input, m_curr, r - 1)>>
        /\ \/ r # Len(input) + 1 /\ m_curr' = r + 1
           \/ m_hasNext' = FALSE
    <3> HIDE DEF r
    <3> QED BY <1>6, <1>8 DEF T!next, T!Reading
  <2> HIDE DEF r
  <2> QED BY <1>7, <1>8, <2>1
<1>9. ASSUME T!skip, UNCHANGED <<builders, readFrom>> PROVE ReadsInv'
  <2>1. /\ input # NoInput /\ m_hasNext /\ input' = input /\ taken' = taken + 1 /\ last' = <<>>
        /\ r # Len(input) + 1 /\ m_curr' = r + 1
    <3> HIDE DEF r
    <3> QED BY <1>6, <1>9 DEF T!skip, T!Reading
  <2> HIDE DEF r
  <2> QED BY <1>7, <1>9, <2>1
<1>10. ASSUME T!refused, UNCHANGED <<builders, readFrom>> PROVE ReadsInv'
  <2>1. input' = input /\ m_curr' = m_curr /\ m_hasNext' = m_hasNext /\ taken' = taken /\ last' = <<>>
        /\ input # NoInput /\ UNCHANGED <<status, m_buf, m_queryState, readFrom>>
    BY <1>10 DEF T!refused, T!Reading, builders, fields
  <2>2. Refers'
    <3>1. Refers
      BY <2>1 DEF ReadsInv
    <3> QED BY <2>1, <3>1, RefersOn
  <2> QED BY <2>1, <2>2 DEF ReadsInv
<1>11. ASSUME NEW b \in Builders, read(b) PROVE ReadsInv'
  <2>1. QueryText(b) \in Seq(Characters)
    BY QueryTextType
  <2>2. Refers'
    <3>1. /\ input' = QueryText(b) /\ readFrom' = b
          /\ UNCHANGED <<status, m_buf, m_queryState>>
          /\ Format[b] = "webForm" /\ status[b] = "live" /\ m_queryState[b] = "queryNonEmpty"
      BY <1>11 DEF read, T!construct, builders, fields
    <3>2. QueryText(readFrom)' = QueryText(b)
      BY <3>1 DEF QueryText, IsUrl
    <3> QED BY <3>1, <3>2 DEF Refers
  <2> QED BY <1>3, <1>11, <2>1, <2>2 DEF read
<1>12. ASSUME NEW text \in Lines, readLine(text) PROVE ReadsInv'
  <2>1. text \in Seq(Characters) /\ input = NoInput
    BY <1>12, ReaderAssumption DEF readLine, T!construct, T!Reading
  <2>2. Refers'
    BY <1>12, <2>1 DEF readLine, ReadsInv, Refers
  <2> QED BY <1>3, <1>12, <2>1, <2>2 DEF readLine
<1>13. CASE Next
  BY <1>1, <1>4, <1>8, <1>9, <1>10, <1>11, <1>12, <1>13 DEF Next
<1> QED BY <1>2, <1>13

LEMMA InitReads ==
  ASSUME Init
  PROVE  ReaderInv /\ ReadsInv
<1>1. ReaderInv
  BY DEF Init, T!TokeniserInit, ReaderInv
<1>2. ReadsInv
  BY DEF Init, T!TokeniserInit, ReadsInv
<1> QED BY <1>1, <1>2

LEMMA ReadsParameters ==
  ASSUME Readable, Delimiter = "&", ShapeInv, ReadsInv
  PROVE  TokensAreParameters
<1> SUFFICES ASSUME readFrom # NoBuilder, last # <<>>
             PROVE  Parameter(last[1]) = given[readFrom].params[taken]
  BY DEF TokensAreParameters
<1> DEFINE toks == Tokens(input, "&")
<1>1. /\ readFrom \in Builders /\ status[readFrom] = "live" /\ Format[readFrom] # "plain"
      /\ m_queryState[readFrom] = "queryNonEmpty" /\ input = QueryText(readFrom)
      /\ taken \in 1..Len(toks) /\ last = <<toks[taken]>>
  BY DEF ReadsInv, Refers
<1>2. given[readFrom].params = Queried(Format[readFrom], QueryText(readFrom))
  BY <1>1, ShapeReads DEF ShapeInv
<1>3. given[readFrom].params = ParametersOf(toks)
  BY <1>1, <1>2 DEF Queried
<1> HIDE DEF toks
<1>4. last[1] = toks[taken]
  BY <1>1
<1> QED BY <1>1, <1>3, <1>4 DEF ParametersOf

(* The token next() returns is the parameter the builder was given at that *)
(* place, whatever other builders do meanwhile: unless a caller skips the  *)
(* last token.                                                             *)
THEOREM TokensAreParametersAlways ==
  ASSUME Readable, ~SkipsLast, Delimiter = "&"
  PROVE  Spec => []TokensAreParameters
<1>1. Init => FitsInv /\ ShapeInv /\ ReaderInv /\ ReadsInv
  BY InitFits, InitShapes, InitReads
<1>2. FitsInv /\ [Next]_vars => FitsInv'
  BY NextFits
<1>3. FitsInv /\ ShapeInv /\ [Next]_vars => ShapeInv'
  BY NextShapes
<1>4. FitsInv /\ ReaderInv /\ [Next]_vars => ReaderInv'
  BY ReaderStep
<1>5. FitsInv /\ ReaderInv /\ ReadsInv /\ [Next]_vars => ReadsInv'
  BY ReadsStep
<1>6. ShapeInv /\ ReadsInv => TokensAreParameters
  BY ReadsParameters
<1> QED BY <1>1, <1>2, <1>3, <1>4, <1>5, <1>6, PTL DEF Spec

(* A tokeniser hands out and skips no more tokens than there are, unless a *)
(* caller skips the last one: that is the only way past the end.           *)
THEOREM RefusesAtTheEndUnlessSkipped == ASSUME ~SkipsLast PROVE Spec => []RefusesAtTheEnd
<1>1. Init => FitsInv /\ ReaderInv /\ ReadsInv
  BY InitFits, InitReads
<1>2. FitsInv /\ [Next]_vars => FitsInv'
  BY NextFits
<1>3. FitsInv /\ ReaderInv /\ [Next]_vars => ReaderInv'
  BY ReaderStep
<1>4. FitsInv /\ ReaderInv /\ ReadsInv /\ [Next]_vars => ReadsInv'
  BY ReadsStep
<1>5. ReadsInv => RefusesAtTheEnd
  BY SameTexts DEF ReadsInv, RefusesAtTheEnd, T!RefusesAtTheEnd, T!Reading
<1> QED BY <1>1, <1>2, <1>3, <1>4, <1>5, PTL DEF Spec
=============================================================================
