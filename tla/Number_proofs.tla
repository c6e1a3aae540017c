---------------------------- MODULE Number_proofs ----------------------------
(***************************************************************************)
(* What parseNumber accepts, and that it reads back what printNumber       *)
(* wrote, for every type, base and text.                                   *)
(***************************************************************************)
EXTENDS Number, Counting, SequenceTheorems, TLAPS

(* No type is signed, narrower than int and of a range that its base       *)
(* divides: for these the check against addLimit, made in int, lets every  *)
(* digit pass.                                                             *)
ChecksFit ==
  \A k \in Kinds :
    k.signed /\ k.values < IntValues => (k.values \div 2) % k.base # 0

(***************************************************************************)
(* The type T.                                                             *)
(***************************************************************************)
LEMMA KindFacts ==
  ASSUME kind \in Kinds
  PROVE  /\ base \in Nat /\ base >= 2 /\ base <= 36
         /\ kind.signed \in BOOLEAN /\ kind.values \in Nat \ {0}
         /\ minT \in Int /\ maxT \in Int /\ minT <= 0 /\ 127 <= maxT
         /\ maxT - minT = kind.values - 1
         /\ kind.signed => -minT = maxT + 1 /\ -minT = kind.values \div 2
         /\ ~kind.signed => minT = 0
<1> DEFINE V == kind.values
           h == V \div 2
<1>1. /\ base \in 2..36 /\ kind.signed \in BOOLEAN /\ V \in Nat /\ V % 2 = 0
      /\ V >= 256
  BY NumberAssumption DEF base
<1>2. h \in Int /\ V = 2 * h
  <2> HIDE DEF V
  <2> QED BY <1>1, Division
<1> HIDE DEF V, h
<1>3. CASE kind.signed
  <2>1. minT = -h /\ maxT = h - 1
    BY <1>3 DEF minT, maxT, V, h
  <2> QED BY <1>1, <1>2, <1>3, <2>1 DEF V, h
<1>4. CASE ~kind.signed
  <2>1. minT = 0 /\ maxT = V - 1
    BY <1>4 DEF minT, maxT, V
  <2> QED BY <1>1, <1>4, <2>1 DEF V
<1> QED BY <1>1, <1>3, <1>4

LEMMA WrapFacts ==
  ASSUME kind \in Kinds, NEW x \in Int
  PROVE  /\ x \in minT..maxT => Wrap(x) = x
         /\ x \in (maxT + 1)..(maxT + kind.values) => Wrap(x) = x - kind.values
         /\ x \in (minT - kind.values)..(minT - 1) => Wrap(x) = x + kind.values
         /\ Wrap(x) \in minT..maxT
<1> DEFINE V == kind.values
           a == x - minT
<1>1. V \in Nat \ {0} /\ minT \in Int /\ maxT \in Int /\ maxT - minT = V - 1 /\ a \in Int
  BY KindFacts
<1>2. Wrap(x) = (a % V) + minT
  BY DEF Wrap
<1>3. /\ x \in minT..maxT => a \in 0..(V - 1)
      /\ x \in (maxT + 1)..(maxT + V) => a \in V..(2 * V - 1)
      /\ x \in (minT - V)..(minT - 1) => a \in (-V)..(-1)
  BY <1>1
<1>4. a = x - minT
  OBVIOUS
<1> HIDE DEF V, a
<1>5. /\ a \in 0..(V - 1) => a % V = a
      /\ a \in V..(2 * V - 1) => a % V = a - V
      /\ a \in (-V)..(-1) => a % V = a + V
      /\ a % V \in 0..(V - 1)
  BY <1>1, Remainders, Division
<1>6. /\ x \in minT..maxT => Wrap(x) = x
      /\ x \in (maxT + 1)..(maxT + V) => Wrap(x) = x - V
      /\ x \in (minT - V)..(minT - 1) => Wrap(x) = x + V
      /\ Wrap(x) \in minT..maxT
  BY <1>1, <1>2, <1>3, <1>4, <1>5
<1> QED BY <1>6 DEF V

LEMMA ExpressionFacts ==
  ASSUME kind \in Kinds, NEW x \in minT..maxT
  PROVE  Expression(x) = x
BY KindFacts, WrapFacts DEF Expression

(* A number without its last digit.                                        *)
LEMMA Shorter ==
  ASSUME kind \in Kinds, NEW m \in Nat, m >= base
  PROVE  m \div base \in 0..(m - 1) /\ m \div base \in Nat
<1> DEFINE v == m \div base
           d == m % base
           b == base
<1>1. b \in Nat \ {0} /\ b >= 2
  BY KindFacts
<1>2. v \in Int /\ d \in 0..(b - 1) /\ m = b * v + d
  BY <1>1, Division
<1> HIDE DEF v, d, b
<1>3. v >= 0
  <2> DEFINE w == b * v
  <2>1. w \in Int /\ m = w + d
    BY <1>1, <1>2
  <2>2. v <= -1 => b * (v + 1) <= 0 /\ b * (v + 1) = w + b
    BY <1>1, <1>2
  <2> HIDE DEF w
  <2>3. w > -b
    BY <1>1, <1>2, <2>1
  <2> QED BY <1>1, <1>2, <2>1, <2>2, <2>3
<1>4. b * v >= 2 * v /\ b * v \in Int
  <2>1. (b - 2) * v >= 0 /\ (b - 2) * v = b * v - 2 * v
    BY <1>1, <1>2, <1>3
  <2> QED BY <1>1, <1>2, <2>1
<1>5. v < m
  BY <1>1, <1>2, <1>3, <1>4 DEF b
<1> QED BY <1>2, <1>3, <1>5 DEF v

(* A digit is its own number in every type.                                *)
LEMMA DigitFacts ==
  ASSUME kind \in Kinds, NEW x \in 0..(base - 1)
  PROVE  /\ digitOf(x) = x /\ digitOf(x) \in Nat /\ digitOf(x) < base
         /\ x # NoNumber
<1>1. /\ base \in Nat /\ base <= 36 /\ minT \in Int /\ maxT \in Int
      /\ minT <= 0 /\ 127 <= maxT
  BY KindFacts
<1>2. x \in Int /\ x \in minT..maxT /\ x # Minus
  BY <1>1 DEF Minus
<1>3. digitOf(x) = x
  BY <1>2, WrapFacts DEF digitOf
<1> QED BY <1>1, <1>3 DEF NoNumber

LEMMA DigitType ==
  ASSUME kind \in Kinds, NEW x \in 0..(base - 1) \cup {Minus, Other}
  PROVE  digitOf(x) \in Int
<1>1. /\ base \in Nat /\ minT \in Int /\ maxT \in Int
  BY KindFacts
<1> DEFINE o == IF x = Minus THEN Other ELSE x
<1>2. o \in Int
  BY <1>1 DEF Minus, Other
<1>3. digitOf(x) = Wrap(o)
  BY DEF digitOf
<1> HIDE DEF o
<1> QED BY <1>1, <1>2, <1>3, WrapFacts

LEMMA FollowedByDigit ==
  ASSUME NEW v \in Nat, NEW x \in 0..(base - 1) PROVE Followed(v, x) = v * base + x
  BY DEF Followed, NoNumber

(***************************************************************************)
(* A digit is appended exactly when the number stays in the range of T.    *)
(***************************************************************************)
(* The denoted number so far, v, is in result; the digit that follows is d.*)
Denotes(v) ==
  /\ kind \in Kinds /\ ChecksFit
  /\ sign \in {1, -1} /\ (sign = -1 => kind.signed)
  /\ v \in Nat /\ sign * v \in minT..maxT /\ result = Wrap(v)
  /\ sign * v # minT \/ ~kind.signed

Exact(v, d) ==
  /\ Fits(d) <=> sign * (v * base + d) \in minT..maxT
  /\ Fits(d) => Appended(d) = Wrap(v * base + d)

LEMMA FitsExactlyPositive ==
  ASSUME NEW v, Denotes(v), sign = 1, NEW d \in 0..(base - 1)
  PROVE  Exact(v, d)
<1> DEFINE b == base
           M == maxT
           w == v * b
           lim == M - b + 1
<1>1. /\ kind \in Kinds /\ v \in Nat /\ v \in minT..M /\ result = Wrap(v)
  BY DEF Denotes
<1>2. /\ b \in Nat \ {0} /\ b >= 2 /\ b <= 36 /\ minT \in Int /\ minT <= 0 /\ M \in Int /\ 127 <= M
      /\ kind.signed => -minT = M + 1
      /\ ~kind.signed => minT = 0
      /\ kind.signed \in BOOLEAN
  BY <1>1, KindFacts
<1>3. w \in Int /\ w >= 0 /\ lim \in Int /\ lim = M - b + 1 /\ d \in Nat /\ d <= b - 1 /\ w + d \in Nat
  BY <1>1, <1>2
<1>4. /\ safeLimit = lim \div b /\ mulLimit = M \div b
      /\ addLimit = IF kind.signed THEN -M ELSE M
  BY <1>2 DEF safeLimit, mulLimit, addLimit
<1>5. result = v /\ v \in Int
  BY <1>1, WrapFacts
<1>6. sign * (v * base + d) \in minT..maxT <=> w + d <= M
  <2> DEFINE z == w + d
  <2>1. v * base + d = z /\ z \in Nat
    BY <1>3
  <2> HIDE DEF z, w, M
  <2>2. sign * z = z
    BY <2>1
  <2>3. z \in minT..M <=> z <= M
    BY <2>1, <1>2
  <2> QED BY <2>1, <2>2, <2>3 DEF z, M
<1>7. result * base = w
  BY <1>5
<1>8. d \in minT..M
  BY <1>2, <1>3
<1> HIDE DEF w, lim, b, M
<1>9. (result <= safeLimit <=> w <= lim) /\ (result <= mulLimit <=> w <= M)
  <2>1. v <= lim \div b <=> v * b <= lim
    BY <1>2, <1>3, <1>5, Quotients
  <2>2. v <= M \div b <=> v * b <= M
    BY <1>2, <1>5, Quotients
  <2> QED BY <2>1, <2>2, <1>4, <1>5 DEF w
<1>10. w <= M => Wrap(w) = w
  <2>1. w <= M => w \in minT..maxT
    BY <1>2, <1>3 DEF M
  <2> QED BY <1>1, <1>3, <2>1, WrapFacts
<1>11. CASE w > M
  <2>1. ~Fits(d)
    BY <1>2, <1>3, <1>9, <1>11 DEF Fits
  <2> QED BY <1>2, <1>3, <1>6, <1>11, <2>1 DEF Exact
<1>12. CASE w <= M
  <2>1. Appended(d) = Wrap(v * base + d)
    <3>1. v * base = w
      BY <1>5, <1>7
    <3> QED BY <1>7, <1>10, <1>12, <3>1 DEF Appended
  <2>2. Fits(d) <=> w + d <= M
    <3>1. CASE kind.signed
      <4> DEFINE e == -M + w
                 g == e + d
      <4>1. e \in minT..maxT /\ g \in minT..maxT
        BY <1>2, <1>3, <1>12, <3>1 DEF M
      <4>2. e = -M + w /\ g = e + d /\ addLimit + Wrap(result * base) = e
        BY <1>4, <1>7, <1>10, <1>12, <3>1
      <4> HIDE DEF e, g
      <4>3. Expression(e) = e /\ Expression(g) = g
        BY <4>1, <1>1, ExpressionFacts
      <4>4. Expression(Expression(addLimit + Wrap(result * base)) + d) = g
        BY <4>2, <4>3
      <4>5. Fits(d) <=> w <= lim \/ (w <= M /\ g <= 0)
        BY <1>9, <3>1, <4>4 DEF Fits
      <4>6. g = -M + w + d
        BY <4>2
      <4> QED BY <1>2, <1>3, <1>12, <4>5, <4>6
    <3>2. CASE ~kind.signed
      <4> DEFINE e == M - d
      <4>1. e \in minT..maxT /\ e = M - d
        BY <1>2, <1>3, <3>2 DEF M
      <4>2. addLimit - d = e
        BY <1>4, <3>2
      <4> HIDE DEF e
      <4>3. Expression(e) = e
        BY <4>1, <1>1, ExpressionFacts
      <4>4. Fits(d) <=> w <= lim \/ (w <= M /\ w <= e)
        BY <1>7, <1>9, <1>10, <1>12, <3>2, <4>2, <4>3 DEF Fits
      <4> QED BY <1>2, <1>3, <1>12, <4>1, <4>4
    <3> QED BY <3>1, <3>2
  <2> QED BY <1>6, <2>1, <2>2 DEF Exact
<1> QED BY <1>2, <1>3, <1>11, <1>12
LEMMA FitsExactlyNegative ==
  ASSUME NEW v, Denotes(v), sign = -1, NEW d \in 0..(base - 1)
  PROVE  Exact(v, d)
<1> DEFINE b == base
           M == maxT
           L == M + 1
           w == v * b
           lim == L - b + 1
<1>1. /\ kind \in Kinds /\ kind.signed /\ v \in Nat /\ -v \in minT..M /\ -v # minT
      /\ result = Wrap(v)
  BY DEF Denotes
<1>2. /\ b \in Nat \ {0} /\ b >= 2 /\ b <= 36 /\ minT \in Int /\ M \in Int /\ 127 <= M
      /\ minT = -L /\ L \in Nat /\ L = M + 1 /\ kind.values = 2 * L
      /\ L = kind.values \div 2
  BY <1>1, KindFacts
<1>3. w \in Int /\ w >= 0 /\ lim \in Int /\ lim = L - b + 1 /\ d \in Nat /\ d <= b - 1 /\ w + d \in Nat
  BY <1>1, <1>2
<1>4. safeLimit = lim \div b /\ mulLimit = Wrap(L \div b) /\ addLimit = -L
  <2>1. -(minT + b - 1) = lim /\ -minT = L /\ ~(sign > 0) /\ sign < 0
    BY <1>2
  <2> HIDE DEF lim, L
  <2> QED BY <1>1, <1>2, <2>1 DEF safeLimit, mulLimit, addLimit
<1>5. result = v /\ v \in Int
  <2>1. v \in minT..maxT
    BY <1>1, <1>2
  <2> QED BY <1>1, <2>1, WrapFacts
<1>6. sign * (v * base + d) \in minT..maxT <=> w + d <= L
  <2> DEFINE z == w + d
  <2>1. v * base + d = z /\ z \in Nat
    BY <1>3
  <2> HIDE DEF z, w, M, L
  <2>2. sign * z = -z
    BY <2>1
  <2>3. -z \in minT..M <=> z <= L
    BY <2>1, <1>2
  <2> QED BY <2>1, <2>2, <2>3 DEF z, M
<1>7. result * base = w
  BY <1>5
<1> HIDE DEF w, lim, b, M, L
<1>8. mulLimit = L \div b
  <2> DEFINE q == L \div b
  <2>1. q \in Int /\ L = b * q + (L % b) /\ L % b \in 0..(b - 1)
    BY <1>2, Division
  <2> HIDE DEF q
  <2>2. 2 * q <= L
    <3>1. CASE q >= 0
      <4>1. (b - 2) * q >= 0 /\ (b - 2) * q = b * q - 2 * q /\ b * q \in Int
        BY <1>2, <2>1, <3>1
      <4> QED BY <1>2, <2>1, <4>1
    <3> QED BY <1>2, <2>1, <3>1
  <2>3. q > -2
    <3>1. CASE q <= -1
      <4>1. b * q <= -b
        BY <1>2, <2>1, <3>1
      <4> QED BY <1>2, <2>1, <4>1
    <3> QED BY <2>1, <3>1
  <2>4. q \in minT..maxT
    BY <1>2, <2>1, <2>2, <2>3 DEF M
  <2>5. Wrap(q) = q
    BY <1>1, <2>1, <2>4, WrapFacts
  <2> QED BY <1>4, <2>5 DEF q
<1>9. (result <= safeLimit <=> w <= lim) /\ (result <= mulLimit <=> w <= L)
  <2>1. v <= lim \div b <=> v * b <= lim
    BY <1>2, <1>3, <1>5, Quotients
  <2>2. v <= L \div b <=> v * b <= L
    BY <1>2, <1>5, Quotients
  <2> QED BY <2>1, <2>2, <1>4, <1>5, <1>8 DEF w
<1>10. v * base = w
  BY <1>5, <1>7
<1>11. CASE w > L
  <2>1. ~Fits(d)
    BY <1>2, <1>3, <1>9, <1>11 DEF Fits
  <2> QED BY <1>2, <1>3, <1>6, <1>11, <2>1 DEF Exact
<1>12. CASE w <= M
  <2>1. Wrap(w) = w
    <3>1. w \in minT..maxT
      BY <1>2, <1>3, <1>12 DEF M
    <3> QED BY <1>1, <1>3, <3>1, WrapFacts
  <2>2. Appended(d) = Wrap(v * base + d)
    BY <1>7, <1>10, <2>1 DEF Appended
  <2> DEFINE e == -L + w
             g == e + d
  <2>3. e \in minT..maxT /\ g \in minT..maxT
    BY <1>2, <1>3, <1>12 DEF M
  <2>4. e = -L + w /\ g = e + d /\ addLimit + Wrap(result * base) = e
    BY <1>4, <1>7, <2>1
  <2> HIDE DEF e, g
  <2>5. Expression(e) = e /\ Expression(g) = g
    BY <2>3, <1>1, ExpressionFacts
  <2>6. Expression(Expression(addLimit + Wrap(result * base)) + d) = g
    BY <2>4, <2>5
  <2>7. Fits(d) <=> w <= lim \/ (w <= L /\ g <= 0)
    BY <1>1, <1>9, <2>6 DEF Fits
  <2>8. g = -L + w + d
    BY <2>4
  <2>9. Fits(d) <=> w + d <= L
    BY <1>2, <1>3, <1>12, <2>7, <2>8
  <2> QED BY <1>6, <2>2, <2>9 DEF Exact
<1>13. CASE w = L
  (* The product is the magnitude of the least value: in a wide type it    *)
  (* wraps to the least value, and twice the least value wraps to 0.       *)
  <2> DEFINE V == kind.values
             e == -2 * L
  <2>1. V \in Int /\ V = 2 * L /\ e \in Int /\ maxT = M /\ e = -2 * L
    BY <1>2 DEF M
  <2> HIDE DEF V, e
  <2>2. L \in (maxT + 1)..(maxT + V) /\ e \in (minT - V)..(minT - 1)
    BY <1>2, <2>1
  <2>3. Wrap(L) = -L /\ Wrap(e) = 0
    <3>1. Wrap(L) = L - kind.values
      BY <1>1, <1>2, <2>2, WrapFacts DEF V
    <3>2. Wrap(e) = e + kind.values
      BY <1>1, <2>1, <2>2, WrapFacts DEF V
    <3> QED BY <1>2, <2>1, <3>1, <3>2 DEF V
  <2>4. kind.values >= IntValues
    <3>1. kind.values < IntValues => L % b # 0
      BY <1>1, <1>2 DEF Denotes, ChecksFit, b, base
    <3>2. w = b * v
      BY <1>2, <1>5 DEF w
    <3>3. L % b = 0
      BY <1>2, <1>5, <1>13, <3>2, MultipleDivides
    <3>4. kind.values \in Int /\ IntValues \in Int
      BY <1>2, NumberAssumption
    <3> QED BY <3>1, <3>3, <3>4
  <2>5. \A x : Expression(x) = Wrap(x)
    BY <1>2, <2>4, NumberAssumption DEF Expression
  <2>6. addLimit + Wrap(result * base) = e
    BY <1>2, <1>4, <1>7, <1>13, <2>1, <2>3
  <2>7. Expression(Expression(addLimit + Wrap(result * base)) + d) = Wrap(d)
    BY <2>3, <2>5, <2>6, <1>3
  <2>8. Wrap(d) = d
    <3>1. d \in Int /\ d \in minT..maxT
      BY <1>2, <1>3, <2>1
    <3> QED BY <1>1, <3>1, WrapFacts
  <2>9. Fits(d) <=> d <= 0
    BY <1>1, <1>2, <1>3, <1>9, <1>13, <2>7, <2>8 DEF Fits
  <2>10. d <= 0 => Appended(d) = Wrap(v * base + d)
    <3>1. d <= 0 => v * base + d = L
      BY <1>3, <1>10, <1>13
    <3>2. d <= 0 => Wrap(result * base) + d = minT
      BY <1>2, <1>3, <1>7, <1>13, <2>3
    <3>3. Wrap(minT) = minT
      <4>1. minT \in minT..maxT
        BY <1>2, <2>1
      <4> QED BY <1>1, <1>2, <4>1, WrapFacts
    <3> QED BY <1>2, <2>3, <3>1, <3>2, <3>3 DEF Appended
  <2>11. d <= 0 <=> w + d <= L
    BY <1>2, <1>3, <1>13
  <2> QED BY <1>6, <2>9, <2>10, <2>11 DEF Exact
<1> QED BY <1>2, <1>3, <1>11, <1>12, <1>13

LEMMA FitsExactly ==
  ASSUME NEW v, Denotes(v), NEW d \in 0..(base - 1)
  PROVE  Exact(v, d)
BY FitsExactlyPositive, FitsExactlyNegative DEF Denotes
(***************************************************************************)
(* What parseNumber accepts.                                               *)
(***************************************************************************)
(* The parameters of a call, and the sign, which only a signed type has.   *)
CallOK ==
  /\ kind \in Kinds
  /\ sign \in {1, -1} /\ (sign = -1 => kind.signed)

(* Between two digits result holds the number the digits so far denote,    *)
(* in the arithmetic of T: the magnitude of the least value has wrapped.   *)
HoldsNumber ==
  /\ value \in Nat /\ InRange /\ result = Wrap(value)
  /\ c \in 0..(base - 1)

LEMMA SignChoice ==
  ASSUME CallOK, NEW v \in Int
  PROVE  /\ sign = 1 => sign * v = v
         /\ sign = -1 => sign * v = -v
         /\ sign * v \in Int
BY DEF CallOK

(* Negating brings the least value back.                                   *)
LEMMA AcceptedIsDenoted ==
  ASSUME CallOK, HoldsNumber, Accept
  PROVE  stage' = "accepted" /\ result' = sign * value
<1>1. /\ kind \in Kinds /\ value \in Nat /\ value \in Int /\ sign * value \in minT..maxT
      /\ result = Wrap(value) /\ minT \in Int /\ maxT \in Int /\ minT <= 0 /\ 127 <= maxT
  BY KindFacts DEF CallOK, HoldsNumber, InRange
<1>2. stage' = "accepted" /\ result' = Wrap(result * sign)
  BY DEF Accept
<1>3. CASE value \in minT..maxT
  <2>1. result = value
    BY <1>1, <1>3, WrapFacts
  <2>2. result * sign = sign * value /\ sign * value \in Int
    BY <1>1, <2>1 DEF CallOK
  <2>3. Wrap(sign * value) = sign * value
    BY <1>1, <2>2, WrapFacts
  <2> QED BY <1>2, <2>2, <2>3
<1>4. CASE value \notin minT..maxT
  <2> DEFINE V == kind.values
             L == value
  <2>1. sign = -1
    BY <1>1, <1>4, SignChoice DEF CallOK
  <2>2. sign * value = -L /\ kind.signed /\ V \in Nat /\ -minT = maxT + 1 /\ maxT - minT = V - 1
    BY <1>1, <2>1, SignChoice, KindFacts DEF CallOK
  <2>3. L = -minT /\ L \in Int /\ L \in (maxT + 1)..(maxT + V) /\ V = 2 * L
    BY <1>1, <1>4, <2>2
  <2>4. Wrap(L) = L - V
    BY <1>1, <2>3, WrapFacts
  <2>5. result = -L /\ result * sign = L
    BY <1>1, <2>1, <2>3, <2>4
  <2> QED BY <1>2, <2>2, <2>3, <2>4, <2>5
<1> QED BY <1>3, <1>4

LEMMA FirstDigit ==
  ASSUME CallOK, NEW x \in 0..(base - 1), parseFirst(x)
  PROVE  /\ stage' = "rest" /\ value' = x /\ c' = x /\ read' = read + 1
         /\ sign' = sign /\ kind' = kind /\ source' = source /\ printed' = printed
         /\ HoldsNumber'
<1>1. /\ kind \in Kinds /\ base \in Nat /\ base <= 36 /\ base >= 2
      /\ minT \in Int /\ maxT \in Int /\ minT <= 0 /\ 127 <= maxT
      /\ kind.signed => -minT = maxT + 1
      /\ digitOf(x) \in Nat /\ digitOf(x) < base
  BY KindFacts, DigitFacts DEF CallOK
<1>2. /\ x \in 0..(base - 1) /\ digitOf(x) = x /\ x \in Nat /\ x <= 35 /\ x \in Int
      /\ Followed(0, x) = x
  <2>1. x \in 0..(base - 1) /\ digitOf(x) = x /\ x \in Nat /\ x <= 35 /\ x \in Int
    BY <1>1, DigitFacts
  <2>2. Followed(0, x) = 0 * base + x
    BY FollowedByDigit
  <2> QED BY <1>1, <2>1, <2>2
<1>3. ~ (digitOf(x) >= base)
  BY <1>1
<1>4. /\ stage' = "rest" /\ value' = x /\ result' = x /\ c' = x /\ read' = read + 1
      /\ sign' = sign /\ kind' = kind /\ source' = source /\ printed' = printed
  BY <1>2, <1>3 DEF parseFirst, chosen, printing
<1>5. Wrap(x) = x
  <2>1. x \in minT..maxT
    BY <1>1, <1>2
  <2> QED BY <1>1, <1>2, <2>1, WrapFacts
<1>6. sign * x \in minT..maxT
  <2>1. (sign = 1 => sign * x = x) /\ (sign = -1 => sign * x = -x)
    BY <1>2, SignChoice
  <2> QED BY <1>1, <1>2, <2>1 DEF CallOK
<1>7. Wrap(x)' = Wrap(x) /\ minT' = minT /\ maxT' = maxT /\ base' = base
  BY <1>4 DEF Wrap, minT, maxT, base
<1>8. value' \in Nat /\ InRange' /\ result' = Wrap(value)' /\ c' \in 0..(base' - 1)
  <2>1. Wrap(value)' = Wrap(x)
    BY <1>4 DEF Wrap, minT
  <2>2. InRange'
    BY <1>4, <1>6, <1>7 DEF InRange
  <2> QED BY <1>2, <1>4, <1>5, <1>7, <2>1, <2>2
<1> QED BY <1>2, <1>4, <1>8 DEF HoldsNumber

LEMMA NextDigit ==
  ASSUME CallOK, ChecksFit, HoldsNumber, stage = "rest",
         NEW x \in 0..(base - 1), parseDigit(x),
         sign * value # minT \/ ~kind.signed
  PROVE  /\ value' = value * base + x /\ c' = x /\ read' = read + 1
         /\ sign' = sign /\ kind' = kind /\ source' = source /\ printed' = printed
         /\ \/ stage' = "rest" /\ HoldsNumber'
            \/ stage' = "rejected" /\ ~ InRange'
         /\ sign * (value * base + x) \in minT..maxT => stage' = "rest"
<1>1. kind \in Kinds /\ base \in Nat /\ base >= 2
  BY KindFacts DEF CallOK
<1>2. x \in 0..(base - 1) /\ digitOf(x) = x /\ Followed(value, x) = value * base + x
  BY <1>1, DigitFacts, FollowedByDigit DEF HoldsNumber
<1>3. Denotes(value)
  BY DEF Denotes, CallOK, HoldsNumber, InRange
<1>4. Exact(value, x)
  BY <1>2, <1>3, FitsExactly
<1> DEFINE w == value * base + x
<1>5. /\ value' = w /\ c' = x /\ read' = read + 1
      /\ sign' = sign /\ kind' = kind /\ source' = source /\ printed' = printed
      /\ IF Fits(x) THEN result' = Appended(x) /\ stage' = stage
                    ELSE stage' = "rejected"
  BY <1>2 DEF parseDigit, Reject, chosen, printing
<1>6. w \in Nat
  BY <1>1, <1>2 DEF HoldsNumber
<1>7. /\ Fits(x) <=> sign * w \in minT..maxT
      /\ Fits(x) => Appended(x) = Wrap(w)
  BY <1>4 DEF Exact
<1> HIDE DEF w
<1>8. InRange' <=> sign * w \in minT..maxT
  BY <1>5 DEF InRange, minT, maxT
<1>9. CASE Fits(x)
  <2>1. Wrap(value)' = Wrap(w) /\ base' = base
    BY <1>5 DEF Wrap, minT, base
  <2>2. HoldsNumber'
    BY <1>2, <1>5, <1>6, <1>7, <1>8, <1>9, <2>1 DEF HoldsNumber
  <2> QED BY <1>2, <1>5, <1>9, <2>2 DEF w
<1>10. CASE ~Fits(x)
  BY <1>2, <1>5, <1>7, <1>8, <1>10 DEF w
<1> QED BY <1>9, <1>10

ParsingInv ==
  /\ CallOK
  /\ parseMode \in {"all", "scan"}
  /\ stage \in {"idle", "print", "sign", "first"} => value = NoNumber
  /\ stage = "rest" => HoldsNumber
  /\ ParsesWhatIsWritten
LEMMA CallStep ==
  ASSUME CallOK, [Next]_vars
  PROVE  CallOK' /\ kind' = kind /\ parseMode' = parseMode
<1>1. sign' = sign \/ (sign' = -1 /\ kind.signed)
  BY DEF Next, vars, chosen, printing, print, printDigit, printRest, parseText, parseEnd,
         parseSign, parseFirst, parseNonDigit, parseDigit
<1>2. kind' = kind /\ parseMode' = parseMode
  BY DEF Next, vars, chosen, printing, print, printDigit, printRest, parseText, parseEnd,
         parseSign, parseFirst, parseNonDigit, parseDigit
<1> QED BY <1>1, <1>2 DEF CallOK

LEMMA ParsingInvInit == Init => ParsingInv
BY DEF Init, ParsingInv, CallOK, ParsesWhatIsWritten

LEMMA ParsingInvStep ==
  ASSUME ParsingInv, ChecksFit, ~DigitsAfterMin, ~OtherAsDigits, [Next]_vars
  PROVE  ParsingInv'
<1>1. CallOK /\ CallOK' /\ kind' = kind /\ parseMode' = parseMode /\ parseMode \in {"all", "scan"}
      /\ base' = base /\ minT' = minT /\ maxT' = maxT
  BY CallStep DEF ParsingInv, base, minT, maxT
<1>2. base \in Nat /\ minT \in Int /\ maxT \in Int
  BY <1>1, KindFacts DEF CallOK
<1>3. CASE UNCHANGED vars
  BY <1>1, <1>3 DEF ParsingInv, HoldsNumber, ParsesWhatIsWritten, InRange, Wrap, vars, chosen
<1>4. CASE (\E n \in minT..maxT : print(n)) \/ printDigit \/ printRest \/ parseText \/ parseSign
  <2>1. /\ stage \in {"idle", "print", "sign"}
        /\ stage' \in {"print", "sign", "first"} /\ value' = value
    BY <1>4 DEF print, printDigit, printRest, parseText, parseSign
  <2> QED BY <1>1, <2>1 DEF ParsingInv, ParsesWhatIsWritten
<1>5. CASE parseEnd
  <2>1. CASE stage = "rest"
    <3>1. HoldsNumber /\ Accept /\ value' = value /\ c' = c /\ sign' = sign
      BY <1>5, <2>1 DEF ParsingInv, parseEnd
    <3>2. stage' = "accepted" /\ result' = sign * value
      BY <1>1, <3>1, AcceptedIsDenoted
    <3>3. ParsesWhatIsWritten'
      BY <1>1, <1>2, <3>1, <3>2 DEF HoldsNumber, ParsesWhatIsWritten, InRange, NoNumber
    <3> QED BY <1>1, <3>2, <3>3 DEF ParsingInv
  <2>2. CASE stage # "rest"
    <3>1. stage' = "rejected" /\ value' = value /\ value = NoNumber
      BY <1>5, <2>2 DEF ParsingInv, parseEnd, Reject
    <3> QED BY <1>1, <3>1 DEF ParsingInv, ParsesWhatIsWritten
  <2> QED BY <2>1, <2>2
<1>6. ASSUME NEW x \in 0..(base - 1) \cup {Minus, Other}, parseFirst(x)
      PROVE  ParsingInv'
  <2>1. CASE x \in 0..(base - 1)
    <3>1. stage' = "rest" /\ HoldsNumber'
      BY <1>1, <1>6, <2>1, FirstDigit
    <3> QED BY <1>1, <3>1 DEF ParsingInv, ParsesWhatIsWritten
  <2>2. CASE x \notin 0..(base - 1)
    <3>1. digitOf(x) >= base
      BY <1>6, <2>2 DEF parseFirst, Admitted
    <3>2. stage' = "rejected" /\ value' = value /\ value = NoNumber
      BY <1>6, <3>1 DEF ParsingInv, parseFirst, Reject
    <3> QED BY <1>1, <3>2 DEF ParsingInv, ParsesWhatIsWritten
  <2> QED BY <2>1, <2>2
<1>7. ASSUME NEW x \in 0..(base - 1) \cup {Minus, Other}, parseNonDigit(x)
      PROVE  ParsingInv'
  <2>1. x \notin 0..(base - 1)
    <3>1. x \in 0..(base - 1) => digitOf(x) \in Nat /\ digitOf(x) < base
      BY <1>1, <1>7, DigitFacts DEF CallOK
    <3> QED BY <1>2, <1>7, <3>1 DEF parseNonDigit
  <2>2. HoldsNumber /\ value' = value /\ c' = x /\ sign' = sign
        /\ IF parseMode = "all" THEN Reject ELSE Accept
    BY <1>7 DEF parseNonDigit, ParsingInv
  <2>3. CASE parseMode = "all"
    <3>1. stage' = "rejected"
      BY <2>2, <2>3 DEF Reject
    <3>2. ParsesWhatIsWritten'
      BY <1>1, <2>1, <2>2, <2>3, <3>1 DEF ParsesWhatIsWritten
    <3> QED BY <1>1, <3>1, <3>2 DEF ParsingInv
  <2>4. CASE parseMode # "all"
    <3>1. stage' = "accepted" /\ result' = sign * value
      BY <1>1, <2>2, <2>4, AcceptedIsDenoted
    <3>2. ParsesWhatIsWritten'
      BY <1>1, <1>2, <2>2, <2>4, <3>1 DEF HoldsNumber, ParsesWhatIsWritten, InRange, NoNumber
    <3> QED BY <1>1, <3>1, <3>2 DEF ParsingInv
  <2> QED BY <2>3, <2>4
<1>8. ASSUME NEW x \in 0..(base - 1) \cup {Minus, Other}, parseDigit(x)
      PROVE  ParsingInv'
  <2>1. stage = "rest" /\ HoldsNumber /\ (sign * value # minT \/ ~kind.signed)
    BY <1>8 DEF ParsingInv, parseDigit
  <2>3. x \in 0..(base - 1)
    <3>1. digitOf(x) < base /\ (digitOf(x) >= base \/ x \in 0..(base - 1))
      BY <1>8 DEF parseDigit, Admitted
    <3>2. digitOf(x) \in Int
      BY <1>1, <1>8, DigitType DEF CallOK
    <3> QED BY <1>2, <3>1, <3>2
  <2>2. \/ stage' = "rest" /\ HoldsNumber'
        \/ stage' = "rejected" /\ ~ InRange'
    BY <1>1, <1>8, <2>1, <2>3, NextDigit
  <2> QED BY <1>1, <2>2 DEF ParsingInv, ParsesWhatIsWritten
<1> QED BY <1>3, <1>4, <1>5, <1>6, <1>7, <1>8 DEF Next

(* ParsesWhatIsWritten holds of every type and base whose checks work, of  *)
(* every text that does not go on behind the digits of the least value and *)
(* for eight bits with a sign, which 255 does not fit in, has digits only: *)
(* a number that is accepted is the one the text denotes, and a text is    *)
(* rejected only for a reason.                                             *)
THEOREM ParsesWhatIsWrittenAlways ==
  ASSUME ChecksFit, ~DigitsAfterMin, ~OtherAsDigits
  PROVE  Spec => []ParsesWhatIsWritten
<1>1. Init => ParsingInv
  BY ParsingInvInit
<1>2. ParsingInv /\ [Next]_vars => ParsingInv'
  BY ParsingInvStep
<1>3. ParsingInv => ParsesWhatIsWritten
  BY DEF ParsingInv
<1> QED BY <1>1, <1>2, <1>3, PTL DEF Spec
(***************************************************************************)
(* What printNumber wrote is read back.                                    *)
(***************************************************************************)
Magnitude == IF printed < 0 THEN -printed ELSE printed
PrintedSign == IF printed < 0 THEN -1 ELSE 1
SignSize == IF printed < 0 THEN 1 ELSE 0
Size == Len(source) - SignSize

(* q holds what was left of the magnitude after each digit.                *)
BeingPrinted(q) ==
  /\ digits \in Seq(0..(base - 1))
  /\ q \in [0..Len(digits) -> Nat]
  /\ q[0] = Magnitude /\ q[Len(digits)] = val
  /\ \A i \in 1..Len(digits) : q[i - 1] = q[i] * base + digits[i] /\ q[i] < Magnitude

(* The same backwards: f holds what the digits up to each place denote.    *)
Readable(f) ==
  /\ Len(source) \in Nat /\ Size \in Nat \ {0}
  /\ f \in [1..Size -> Nat]
  /\ \A j \in 1..Size : source[SignSize + j] \in 0..(base - 1)
  /\ printed < 0 => source[1] = Minus
  /\ f[1] = source[SignSize + 1] /\ f[Size] = Magnitude
  /\ \A j \in 1..(Size - 1) : /\ f[j + 1] = f[j] * base + source[SignSize + (j + 1)]
                              /\ f[j] < Magnitude

(* Where parseNumber is in the printed text.                               *)
Reads(f) ==
  /\ stage = "sign" => read = 0 /\ sign = 1
  /\ stage = "first" => read = 1 /\ printed < 0 /\ sign = -1
  /\ stage = "rest" => /\ read - SignSize \in 1..Size /\ value = f[read - SignSize]
                       /\ sign = PrintedSign /\ HoldsNumber
  /\ stage = "accepted" => result = printed /\ p = Len(source)

RoundTripInv ==
  /\ CallOK /\ printed \in minT..maxT /\ read \in Nat
  /\ stage \in {"idle", "print"} => source = <<>> /\ sign = 1 /\ read = 0
  /\ stage = "idle" => digits = <<>>
  /\ stage = "print" => \E q : BeingPrinted(q)
  /\ source # <<>> => /\ stage \in {"sign", "first", "rest", "accepted"}
                      /\ \E f : Readable(f) /\ Reads(f)

LEMMA PrintedFacts ==
  ASSUME CallOK, printed \in minT..maxT
  PROVE  /\ printed \in Int /\ Magnitude \in Nat /\ SignSize \in {0, 1}
         /\ printed < 0 => kind.signed /\ Magnitude = -printed /\ SignSize = 1
         /\ ~ (printed < 0) => Magnitude = printed /\ SignSize = 0
         /\ PrintedSign \in {1, -1} /\ PrintedSign * Magnitude = printed
         /\ kind.signed => Magnitude <= -minT
         /\ Magnitude < kind.values
<1>1. minT \in Int /\ maxT \in Int /\ minT <= 0 /\ 127 <= maxT /\ maxT - minT = kind.values - 1
      /\ (kind.signed => -minT = maxT + 1) /\ (~kind.signed => minT = 0) /\ kind.values \in Nat
      /\ kind.signed \in BOOLEAN
  BY KindFacts DEF CallOK
<1>2. printed \in Int
  BY <1>1
<1>3. CASE printed < 0
  <2>1. Magnitude = -printed /\ SignSize = 1 /\ PrintedSign = -1
    BY <1>3 DEF Magnitude, SignSize, PrintedSign
  <2> DEFINE m == Magnitude
  <2>2. PrintedSign * Magnitude = printed
    BY <1>2, <2>1
  <2> QED BY <1>1, <1>2, <1>3, <2>1, <2>2
<1>4. CASE ~ (printed < 0)
  <2>1. Magnitude = printed /\ SignSize = 0 /\ PrintedSign = 1
    BY <1>4 DEF Magnitude, SignSize, PrintedSign
  <2> QED BY <1>1, <1>2, <1>4, <2>1
<1> QED BY <1>3, <1>4

LEMMA PrintedMagnitude ==
  ASSUME CallOK, NEW n \in minT..maxT, print(n)
  PROVE  val' = Magnitude' /\ val' \in Nat
<1>1. printed' = n /\ val' = (IF n >= 0 THEN n ELSE (-n) % kind.values)
  BY DEF print
<1> DEFINE V == kind.values
           m == -n
<1>2. minT \in Int /\ maxT \in Int /\ maxT - minT = V - 1 /\ V \in Nat \ {0} /\ n \in Int
      /\ 127 <= maxT
  BY <1>1, KindFacts DEF CallOK
<1>3. n < 0 => m \in 0..(V - 1) /\ m \in Int /\ m = -n
  BY <1>2
<1> HIDE DEF m, V
<1>4. n < 0 => m % V = m
  BY <1>2, <1>3, Remainders
<1>5. CASE n < 0
  BY <1>1, <1>2, <1>3, <1>4, <1>5 DEF Magnitude, m, V
<1>6. CASE ~ (n < 0)
  BY <1>1, <1>2, <1>6 DEF Magnitude
<1> QED BY <1>5, <1>6

LEMMA PrintBegins ==
  ASSUME RoundTripInv, NEW n \in minT..maxT, print(n)
  PROVE  printed' \in minT..maxT /\ \E q : BeingPrinted(q)'
<1>1. CallOK /\ digits = <<>> /\ kind' = kind /\ printed' = n /\ digits' = digits
  BY DEF RoundTripInv, print, chosen
<1>2. minT' = minT /\ maxT' = maxT
  BY <1>1 DEF minT, maxT
<1>3. val' = Magnitude' /\ val' \in Nat
  BY <1>1, PrintedMagnitude
<1>4. PICK q : q = [i \in 0..0 |-> val']
  OBVIOUS
<1>5. Len(digits') = 0 /\ digits' \in Seq(0..(base' - 1))
  BY <1>1
<1>6. q \in [0..Len(digits') -> Nat] /\ q[0] = Magnitude' /\ q[Len(digits')] = val'
  BY <1>3, <1>4, <1>5
<1>7. BeingPrinted(q)'
  BY <1>5, <1>6 DEF BeingPrinted
<1> QED BY <1>1, <1>7

LEMMA PrintGoesOn ==
  ASSUME RoundTripInv, printDigit
  PROVE  \E q : BeingPrinted(q)'
<1>1. CallOK /\ printed \in minT..maxT /\ stage = "print" /\ val >= base
      /\ digits' = Append(digits, val % base) /\ val' = val \div base
      /\ kind' = kind /\ printed' = printed /\ base' = base
  BY DEF RoundTripInv, printDigit, chosen, base
<1>2. PICK q : BeingPrinted(q)
  BY <1>1 DEF RoundTripInv
<1> DEFINE L == Len(digits)
           d == val % base
           v == val \div base
<1>3. /\ digits \in Seq(0..(base - 1)) /\ L \in Nat
      /\ q \in [0..L -> Nat] /\ q[0] = Magnitude /\ q[L] = val /\ val \in Nat
      /\ \A i \in 1..L : q[i - 1] = q[i] * base + digits[i] /\ q[i] < Magnitude
  BY <1>2 DEF BeingPrinted
<1>4. base \in Nat \ {0} /\ base >= 2 /\ Magnitude \in Nat
  BY <1>1, KindFacts, PrintedFacts DEF CallOK
<1>5. v \in Int /\ d \in 0..(base - 1) /\ val = base * v + d
  BY <1>3, <1>4, Division
<1>6. v \in Nat /\ v < val /\ val = v * base + d
  <2>1. v \in 0..(val - 1) /\ v \in Nat
    BY <1>1, <1>3, Shorter DEF CallOK
  <2> HIDE DEF v, d
  <2>2. base * v = v * base
    BY <1>4, <1>5
  <2> QED BY <1>3, <1>5, <2>1, <2>2
<1> HIDE DEF v, d
<1>7. val <= Magnitude
  <2>1. CASE L = 0
    BY <1>3, <2>1, <1>4
  <2>2. CASE L # 0
    <3>1. L \in 1..L
      BY <1>3, <2>2
    <3>2. q[L] < Magnitude
      BY <1>3, <3>1
    <3> QED BY <1>3, <1>4, <3>2
  <2> QED BY <2>1, <2>2
<1>8. digits' = Append(digits, d) /\ val' = v /\ Magnitude' = Magnitude
  BY <1>1 DEF d, v, Magnitude
<1>9. /\ digits' \in Seq(0..(base - 1)) /\ Len(digits') = L + 1
      /\ \A i \in 1..L : digits'[i] = digits[i]
      /\ digits'[L + 1] = d
  BY <1>3, <1>5, <1>8
<1>r. PICK r : r = [i \in 0..(L + 1) |-> IF i = L + 1 THEN v ELSE q[i]]
  OBVIOUS
<1>10. r \in [0..(L + 1) -> Nat] /\ r[0] = Magnitude /\ r[L + 1] = v
  BY <1>3, <1>6, <1>r
<1>11. ASSUME NEW i \in 1..(L + 1)
       PROVE  r[i - 1] = r[i] * base + digits'[i] /\ r[i] < Magnitude
  <2>1. CASE i = L + 1
    <3>1. r[i] = v /\ r[i - 1] = val
      BY <1>3, <1>r, <2>1
    <3> QED BY <1>3, <1>4, <1>6, <1>7, <1>9, <2>1, <3>1
  <2>2. CASE i # L + 1
    <3>1. i \in 1..L /\ r[i] = q[i] /\ r[i - 1] = q[i - 1]
      BY <1>3, <1>r, <2>2
    <3> QED BY <1>3, <1>9, <3>1
  <2> QED BY <2>1, <2>2
<1> HIDE DEF L
<1>12. BeingPrinted(r)'
  BY <1>1, <1>8, <1>9, <1>10, <1>11 DEF BeingPrinted
<1> QED BY <1>12
LEMMA PrintEnds ==
  ASSUME RoundTripInv, printRest
  PROVE  source' # <<>> /\ \E f : Readable(f)'
<1>1. CallOK /\ printed \in minT..maxT /\ stage = "print" /\ val < base
      /\ source' = (IF printed < 0 THEN <<Minus>> ELSE <<>>) \o <<val>> \o Reverse(digits)
      /\ kind' = kind /\ printed' = printed /\ base' = base
  BY DEF RoundTripInv, printRest, chosen, printing, base
<1>2. PICK q : BeingPrinted(q)
  BY <1>1 DEF RoundTripInv
<1> DEFINE L == Len(digits)
           R == Reverse(digits)
           D == 0..(base - 1)
           S == SignSize
<1>3. /\ digits \in Seq(D) /\ L \in Nat
      /\ q \in [0..L -> Nat] /\ q[0] = Magnitude /\ q[L] = val /\ val \in Nat
      /\ \A i \in 1..L : q[i - 1] = q[i] * base + digits[i] /\ q[i] < Magnitude
  BY <1>2 DEF BeingPrinted
<1>4. base \in Nat \ {0} /\ base >= 2 /\ Magnitude \in Nat /\ val \in D
  BY <1>1, <1>3, KindFacts, PrintedFacts DEF CallOK
<1>5. S \in {0, 1} /\ (printed < 0 => S = 1) /\ (~ (printed < 0) => S = 0)
      /\ S' = S /\ Magnitude' = Magnitude
  BY <1>1 DEF SignSize, Magnitude
<1>6. /\ R \in Seq(Int) /\ Len(R) = L
      /\ \A i \in 1..L : R[i] = digits[L - i + 1] /\ R[i] \in D
  <2>1. R = [i \in 1..L |-> digits[(L - i) + 1]]
    BY DEF Reverse
  <2>2. D \subseteq Int
    BY <1>4
  <2> HIDE DEF D, R
  <2>3. ASSUME NEW i \in 1..L PROVE digits[(L - i) + 1] \in D
    <3>1. (L - i) + 1 \in 1..Len(digits)
      BY <1>3
    <3> QED BY <1>3, <3>1
  <2> HIDE DEF L
  <2>4. R \in Seq(Int) /\ Len(R) = L
    <3>1. \A i \in 1..L : digits[(L - i) + 1] \in Int
      BY <2>2, <2>3
    <3>2. R \in [1..L -> Int]
      BY <2>1, <3>1
    <3> QED BY <1>3, <3>2
  <2>5. \A i \in 1..L : R[i] = digits[L - i + 1]
    BY <2>1
  <2> QED BY <2>3, <2>4, <2>5
<1> HIDE DEF R, L, D, S
<1>7. /\ Len(source') = S + L + 1
      /\ printed < 0 => source'[1] = Minus
      /\ source'[S + 1] = val
      /\ \A i \in 1..L : source'[S + 1 + i] = R[i]
  <2> DEFINE t == <<val>> \o R
  <2>1. t \in Seq(Int) /\ Len(t) = L + 1 /\ t[1] = val /\ \A i \in 1..L : t[1 + i] = R[i]
    <3>1. val \in Int
      BY <1>3
    <3> QED BY <1>3, <1>6, <3>1
  <2> HIDE DEF t
  <2>2. CASE printed < 0
    <3>1. source' = <<Minus>> \o t
      <4>1. source' = (<<Minus>> \o <<val>>) \o R
        BY <1>1, <2>2 DEF R
      <4>2. val \in Int /\ Minus \in Int
        BY <1>3 DEF Minus
      <4>3. R \in Seq(Int) /\ <<Minus>> \in Seq(Int) /\ <<val>> \in Seq(Int)
        BY <1>6, <4>2
      <4>4. (<<Minus>> \o <<val>>) \o R = <<Minus>> \o (<<val>> \o R)
        BY <4>3
      <4> QED BY <4>1, <4>4 DEF t
    <3> DEFINE u == <<Minus>>
    <3>2. u \in Seq(Int) /\ Len(u) = 1 /\ u[1] = Minus
      BY DEF Minus
    <3> HIDE DEF u
    <3>4. Len(u \o t) = 1 + (L + 1) /\ (u \o t)[1] = Minus
          /\ \A i \in 1..(L + 1) : (u \o t)[1 + i] = t[i]
      <4>1. u \in Seq(Int) /\ t \in Seq(Int)
        BY <2>1, <3>2
      <4>2. /\ Len(u \o t) = Len(u) + Len(t)
            /\ \A i \in 1..(Len(u) + Len(t)) :
                 (u \o t)[i] = IF i <= Len(u) THEN u[i] ELSE t[i - Len(u)]
        BY <4>1, ConcatProperties
      <4>3. 1 \in 1..(1 + (L + 1)) /\ \A i \in 1..(L + 1) :
              1 + i \in 1..(1 + (L + 1)) /\ ~ (1 + i <= 1) /\ 1 + i - 1 = i
        BY <1>3
      <4> DEFINE ut == u \o t
      <4> HIDE DEF ut
      <4>4. Len(u) = 1 /\ Len(t) = L + 1 /\ u[1] = Minus
        BY <2>1, <3>2
      <4>5. Len(ut) = 1 + (L + 1)
            /\ \A i \in 1..(1 + (L + 1)) : ut[i] = IF i <= 1 THEN u[i] ELSE t[i - 1]
        BY <4>2, <4>4 DEF ut
      <4>6. ut[1] = Minus
        BY <4>3, <4>4, <4>5
      <4>7. \A i \in 1..(L + 1) : ut[1 + i] = t[i]
        BY <4>3, <4>5
      <4> QED BY <4>5, <4>6, <4>7 DEF ut
    <3>5. source' = u \o t
      BY <3>1 DEF u
    <3>6. S = 1
      BY <1>5, <2>2
    <3>7. source'[1 + 1] = t[1]
      <4>1. 1 \in 1..(L + 1)
        BY <1>3
      <4> QED BY <3>4, <3>5, <4>1
    <3>8. ASSUME NEW i \in 1..L PROVE source'[1 + 1 + i] = R[i]
      <4>1. 1 + i \in 1..(L + 1) /\ 1 + (1 + i) = 1 + 1 + i
        BY <1>3
      <4>2. (u \o t)[1 + (1 + i)] = t[1 + i]
        BY <3>4, <4>1
      <4> QED BY <2>1, <3>5, <4>1, <4>2
    <3>9. Len(source') = S + L + 1 /\ source'[1] = Minus /\ source'[S + 1] = val
      BY <1>3, <2>1, <3>4, <3>5, <3>6, <3>7
    <3>10. \A i \in 1..L : source'[S + 1 + i] = R[i]
      BY <3>6, <3>8
    <3> QED BY <3>9, <3>10
  <2>3. CASE ~ (printed < 0)
    <3>1. source' = t
      <4>1. source' = (<<>> \o <<val>>) \o R
        BY <1>1, <2>3 DEF R
      <4>2. <<>> \o <<val>> = <<val>>
        OBVIOUS
      <4> QED BY <4>1, <4>2 DEF t
    <3>2. S = 0
      BY <1>5, <2>3
    <3> QED BY <1>3, <2>1, <2>3, <3>1, <3>2
  <2> QED BY <2>2, <2>3
<1>f. PICK f : f = [j \in 1..(L + 1) |-> q[L + 1 - j]]
  OBVIOUS
<1>8. /\ f \in [1..(L + 1) -> Nat] /\ f[1] = val /\ f[L + 1] = Magnitude
  BY <1>3, <1>f
<1>9. Size' = L + 1
  BY <1>3, <1>5, <1>7 DEF Size, S
<1>10. ASSUME NEW j \in 1..(L + 1) PROVE source'[S + j] \in D
  <2>1. CASE j = 1
    BY <1>4, <1>7, <2>1
  <2>2. CASE j # 1
    <3>1. j - 1 \in 1..L /\ S + 1 + (j - 1) = S + j
      BY <1>3, <1>5, <2>2
    <3>2. source'[S + 1 + (j - 1)] = R[j - 1] /\ R[j - 1] \in D
      BY <1>6, <1>7, <3>1
    <3> QED BY <3>1, <3>2
  <2> QED BY <2>1, <2>2
<1>11. ASSUME NEW j \in 1..L
       PROVE  f[j + 1] = f[j] * base + source'[S + (j + 1)] /\ f[j] < Magnitude
  <2>1. L - j + 1 \in 1..L /\ S + 1 + j = S + (j + 1) /\ j \in 1..(L + 1) /\ j + 1 \in 1..(L + 1)
        /\ L + 1 - j = L - j + 1 /\ L + 1 - (j + 1) = L - j + 1 - 1
    BY <1>3, <1>5
  <2>2. source'[S + (j + 1)] = digits[L - j + 1]
    BY <1>6, <1>7, <2>1
  <2>3. f[j] = q[L - j + 1] /\ f[j + 1] = q[L - j + 1 - 1]
    BY <1>f, <2>1
  <2> QED BY <1>3, <2>1, <2>2, <2>3
<1>12. Readable(f)'
  <2>1. Len(source') \in Nat /\ Size' \in Nat \ {0} /\ Size' - 1 = L
    BY <1>3, <1>5, <1>7, <1>9
  <2> QED BY <1>1, <1>5, <1>7, <1>8, <1>9, <1>10, <1>11, <2>1 DEF Readable, S, D
<1>13. source' # <<>>
  BY <1>3, <1>5, <1>7
<1> QED BY <1>12, <1>13
(* The next character of a printed text, past the sign, is a digit.        *)
LEMMA NextPrinted ==
  ASSUME CallOK, printed \in minT..maxT, source # <<>>, NEW f, Readable(f),
         NEW x, IsNext(x), read \in Nat, SignSize <= read
  PROVE  /\ read + 1 - SignSize \in 1..Size
         /\ x = source[read + 1] /\ x \in 0..(base - 1) /\ digitOf(x) < base
<1>1. read < Len(source) /\ source[read + 1] = x
  BY DEF IsNext
<1>2. SignSize \in {0, 1} /\ base \in Nat
  BY KindFacts, PrintedFacts DEF CallOK
<1> DEFINE j == read + 1 - SignSize
<1>3. j \in 1..Size /\ SignSize + j = read + 1
  BY <1>1, <1>2 DEF Readable, Size
<1>4. x \in 0..(base - 1)
  BY <1>1, <1>3 DEF Readable
<1>5. digitOf(x) < base
  BY <1>4, DigitFacts DEF CallOK
<1> QED BY <1>1, <1>3, <1>4, <1>5

LEMMA ReadFrame ==
  ASSUME CallOK, kind' = kind, source' = source, printed' = printed
  PROVE  /\ base' = base /\ minT' = minT /\ maxT' = maxT
         /\ SignSize' = SignSize /\ Size' = Size /\ Magnitude' = Magnitude
         /\ PrintedSign' = PrintedSign
         /\ \A f : Readable(f)' <=> Readable(f)
<1>1. /\ base' = base /\ minT' = minT /\ maxT' = maxT
      /\ SignSize' = SignSize /\ Size' = Size /\ Magnitude' = Magnitude
      /\ PrintedSign' = PrintedSign
  BY DEF base, minT, maxT, SignSize, Size, Magnitude, PrintedSign
<1>2. ASSUME NEW f PROVE Readable(f)' <=> Readable(f)
  BY <1>1 DEF Readable
<1> QED BY <1>1, <1>2

LEMMA ReadSign ==
  ASSUME RoundTripInv, source # <<>>, NEW f, Readable(f), Reads(f), parseSign
  PROVE  stage' = "first" /\ Reads(f)'
<1>1. CallOK /\ printed \in minT..maxT /\ stage = "sign" /\ read = 0 /\ sign = 1
  BY DEF RoundTripInv, parseSign, Reads
<1>2. stage' = "first" /\ sign' = -1 /\ read' = 1 /\ printed' = printed /\ IsNext(Minus)
  BY <1>1 DEF parseSign, printing
<1>3. printed < 0
  <2>1. SUFFICES ASSUME ~ (printed < 0) PROVE FALSE
    OBVIOUS
  <2>2. SignSize = 0
    BY <2>1 DEF SignSize
  <2>3. read \in Nat /\ SignSize <= read
    BY <1>1, <2>2
  <2>4. Minus \in 0..(base - 1)
    BY <1>1, <1>2, <2>3, NextPrinted
  <2> QED BY <2>4, <1>1, KindFacts DEF Minus, CallOK
<1> QED BY <1>2, <1>3 DEF Reads

LEMMA ReadFirst ==
  ASSUME RoundTripInv, source # <<>>, NEW f, Readable(f), Reads(f),
         NEW x \in 0..(base - 1) \cup {Minus, Other}, parseFirst(x)
  PROVE  stage' = "rest" /\ Reads(f)'
<1>1. CallOK /\ printed \in minT..maxT /\ stage \in {"sign", "first"} /\ IsNext(x)
      /\ ~ (stage = "sign" /\ kind.signed /\ x = Minus)
  BY DEF RoundTripInv, parseFirst
<1>2. read = SignSize /\ sign = PrintedSign
  <2>1. CASE stage = "sign"
    <3>1. read = 0 /\ sign = 1
      BY <2>1 DEF Reads
    <3>2. ~ (printed < 0)
      <4>1. SUFFICES ASSUME printed < 0 PROVE FALSE
        OBVIOUS
      <4>2. kind.signed
        BY <1>1, <4>1, PrintedFacts
      <4>3. source[1] = Minus
        BY <4>1 DEF Readable
      <4>4. x = Minus
        BY <1>1, <3>1, <4>3 DEF IsNext
      <4> QED BY <1>1, <2>1, <4>2, <4>4
    <3> QED BY <3>1, <3>2 DEF SignSize, PrintedSign
  <2>2. CASE stage = "first"
    BY <2>2 DEF Reads, SignSize, PrintedSign
  <2> QED BY <1>1, <2>1, <2>2
<1>3. SignSize \in {0, 1} /\ read \in Nat /\ SignSize <= read
  BY <1>1, <1>2, PrintedFacts
<1>4. x = source[read + 1] /\ x \in 0..(base - 1) /\ read + 1 - SignSize \in 1..Size
  BY <1>1, <1>3, NextPrinted
<1>5. /\ stage' = "rest" /\ value' = x /\ read' = read + 1 /\ sign' = sign
      /\ kind' = kind /\ source' = source /\ printed' = printed /\ HoldsNumber'
  BY <1>1, <1>4, FirstDigit
<1>6. SignSize' = SignSize /\ Size' = Size /\ PrintedSign' = PrintedSign
  BY <1>1, <1>5, ReadFrame
<1>7. read' - SignSize = 1 /\ 1 \in 1..Size /\ source[SignSize + 1] = x
  BY <1>2, <1>3, <1>4, <1>5
<1>8. value' = f[read' - SignSize]
  BY <1>5, <1>7 DEF Readable
<1> QED BY <1>2, <1>5, <1>6, <1>7, <1>8 DEF Reads

LEMMA ReadDigit ==
  ASSUME RoundTripInv, ChecksFit, source # <<>>, NEW f, Readable(f), Reads(f),
         NEW x \in 0..(base - 1) \cup {Minus, Other}, parseDigit(x)
  PROVE  stage' = "rest" /\ Reads(f)'
<1> DEFINE j == read - SignSize
           S == SignSize
<1>1. CallOK /\ printed \in minT..maxT /\ stage = "rest" /\ IsNext(x)
      /\ j \in 1..Size /\ value = f[j] /\ sign = PrintedSign /\ HoldsNumber
  BY DEF RoundTripInv, parseDigit, Reads
<1>2. /\ S \in {0, 1} /\ Magnitude \in Nat /\ printed \in Int
      /\ PrintedSign \in {1, -1} /\ PrintedSign * Magnitude = printed
      /\ kind.signed => Magnitude <= -minT
      /\ base \in Nat /\ base >= 2 /\ minT \in Int /\ maxT \in Int /\ minT <= 0 /\ 127 <= maxT
      /\ (kind.signed => -minT = maxT + 1)
      /\ (printed < 0 => PrintedSign = -1 /\ kind.signed /\ Magnitude = -printed)
      /\ (~ (printed < 0) => PrintedSign = 1 /\ Magnitude = printed)
  BY <1>1, PrintedFacts, KindFacts DEF CallOK, PrintedSign
<1>3. Size \in Nat /\ Len(source) \in Nat /\ Size = Len(source) - S
  BY DEF Readable, Size
<1>4. read < Len(source) /\ read \in Int
  BY <1>1 DEF IsNext, RoundTripInv
<1>5. read \in Nat /\ S <= read /\ j \in 1..(Size - 1) /\ S + (j + 1) = read + 1
      /\ j + 1 = read + 1 - S
  BY <1>1, <1>2, <1>3, <1>4
<1>6. x = source[read + 1] /\ x \in 0..(base - 1)
  BY <1>1, <1>5, NextPrinted
<1>7. f[j + 1] = value * base + x /\ value < Magnitude
  BY <1>1, <1>5, <1>6 DEF Readable
<1>8. f[j + 1] \in Nat /\ f[j + 1] <= Magnitude
  <2>1. j + 1 \in 1..Size
    BY <1>3, <1>5
  <2>2. f[j + 1] \in Nat
    BY <2>1 DEF Readable
  <2>3. CASE j + 1 = Size
    BY <1>2, <2>3 DEF Readable
  <2>4. CASE j + 1 # Size
    <3>1. j + 1 \in 1..(Size - 1)
      BY <1>3, <1>5, <2>4
    <3>2. f[j + 1] < Magnitude
      BY <3>1 DEF Readable
    <3> QED BY <1>2, <2>2, <3>2
  <2> QED BY <2>2, <2>3, <2>4
<1> DEFINE w == value * base + x
<1>9. w = f[j + 1]
  BY <1>7
<1> HIDE DEF w, j, S
<1>10. sign * w \in minT..maxT
  <2>1. w \in Nat /\ w <= Magnitude
    BY <1>8, <1>9
  <2>2. (sign = 1 => sign * w = w) /\ (sign = -1 => sign * w = -w)
    BY <1>1, <2>1, SignChoice
  <2>3. Magnitude \in minT..maxT \/ printed < 0
    BY <1>1, <1>2
  <2> QED BY <1>1, <1>2, <2>1, <2>2, <2>3
<1>11. sign * value # minT \/ ~kind.signed
  <2>1. value \in Nat /\ value \in Int
    BY <1>1 DEF HoldsNumber
  <2>2. (sign = 1 => sign * value = value) /\ (sign = -1 => sign * value = -value)
    BY <1>1, <2>1, SignChoice
  <2> DEFINE sv == sign * value
  <2>3. (sign = 1 => sv = value) /\ (sign = -1 => sv = -value) /\ sign \in {1, -1}
    BY <1>1, <1>2, <2>2
  <2> HIDE DEF sv
  <2>4. CASE kind.signed
    <3>1. sv # minT
      BY <1>2, <1>7, <2>1, <2>3, <2>4
    <3> QED BY <3>1 DEF sv
  <2> QED BY <2>4
<1>12. /\ value' = value * base + x /\ read' = read + 1
       /\ sign' = sign /\ kind' = kind /\ source' = source /\ printed' = printed
       /\ \/ stage' = "rest" /\ HoldsNumber'
          \/ stage' = "rejected" /\ ~ InRange'
       /\ sign * (value * base + x) \in minT..maxT => stage' = "rest"
  BY <1>1, <1>6, <1>11, NextDigit
<1>13. stage' = "rest" /\ HoldsNumber'
  BY <1>10, <1>12 DEF w
<1>14. SignSize' = SignSize /\ Size' = Size /\ PrintedSign' = PrintedSign
  BY <1>1, <1>12, ReadFrame
<1>15. read' - SignSize = j + 1 /\ j + 1 \in 1..Size /\ value' = f[j + 1]
  <2>1. value' = f[j + 1]
    BY <1>9, <1>12 DEF w
  <2>2. read' - SignSize = j + 1
    BY <1>2, <1>5, <1>12 DEF S
  <2>3. j + 1 \in 1..Size
    BY <1>3, <1>5
  <2> QED BY <2>1, <2>2, <2>3
<1> QED BY <1>1, <1>12, <1>13, <1>14, <1>15 DEF Reads

LEMMA ReadEnd ==
  ASSUME RoundTripInv, source # <<>>, NEW f, Readable(f), Reads(f), parseEnd
  PROVE  stage' = "accepted" /\ Reads(f)'
<1>1. CallOK /\ printed \in minT..maxT /\ stage \in {"sign", "first", "rest"}
      /\ read = Len(source) /\ p' = read /\ source' = source /\ printed' = printed
      /\ kind' = kind
  BY DEF RoundTripInv, parseEnd, AtEnd, chosen, printing
<1>2. SignSize \in {0, 1} /\ (printed < 0 => SignSize = 1)
      /\ Size \in Nat \ {0} /\ Size = Len(source) - SignSize /\ Len(source) \in Nat
  BY <1>1, PrintedFacts DEF Readable, Size
<1>3. stage = "rest"
  <2>1. stage # "sign"
    BY <1>1, <1>2 DEF Reads
  <2>2. stage # "first"
    BY <1>1, <1>2 DEF Reads
  <2> QED BY <1>1, <2>1, <2>2
<1>4. read - SignSize = Size /\ value = f[read - SignSize] /\ sign = PrintedSign /\ HoldsNumber
  BY <1>1, <1>2, <1>3 DEF Reads
<1>5. value = Magnitude
  BY <1>4 DEF Readable
<1>6. Accept
  BY <1>3 DEF parseEnd
<1>7. stage' = "accepted" /\ result' = sign * value
  BY <1>1, <1>4, <1>6, AcceptedIsDenoted
<1>8. result' = printed
  BY <1>1, <1>4, <1>5, <1>7, PrintedFacts
<1> QED BY <1>1, <1>7, <1>8 DEF Reads
LEMMA RoundTripInvInit == Init => RoundTripInv
<1> SUFFICES ASSUME Init PROVE RoundTripInv
  OBVIOUS
<1>1. CallOK
  BY DEF Init, CallOK
<1>2. printed \in minT..maxT
  <2>1. minT \in Int /\ maxT \in Int /\ minT <= 0 /\ 127 <= maxT
    BY <1>1, KindFacts DEF CallOK
  <2> QED BY <2>1 DEF Init
<1> QED BY <1>1, <1>2 DEF Init, RoundTripInv

LEMMA RoundTripInvStep ==
  ASSUME RoundTripInv, ChecksFit, [Next]_vars
  PROVE  RoundTripInv'
<1>1. CallOK /\ CallOK' /\ kind' = kind /\ base' = base /\ minT' = minT /\ maxT' = maxT
      /\ printed \in minT..maxT /\ read \in Nat
  BY CallStep DEF RoundTripInv, base, minT, maxT
<1>2. CASE UNCHANGED vars
  BY <1>1, <1>2 DEF RoundTripInv, BeingPrinted, Readable, Reads, HoldsNumber, InRange, Wrap,
     Magnitude, SignSize, Size, PrintedSign, vars, chosen, printing
<1>3. ASSUME NEW n \in minT..maxT, print(n) PROVE RoundTripInv'
  <2>1. printed' \in minT..maxT /\ \E q : BeingPrinted(q)'
    BY <1>3, PrintBegins
  <2>2. stage' = "print" /\ source' = <<>> /\ sign' = 1 /\ read' = 0
    BY <1>3 DEF print, RoundTripInv
  <2> QED BY <1>1, <2>1, <2>2 DEF RoundTripInv
<1>4. CASE printDigit
  <2>1. \E q : BeingPrinted(q)'
    BY <1>4, PrintGoesOn
  <2>2. stage' = "print" /\ source' = <<>> /\ sign' = 1 /\ read' = 0 /\ printed' = printed
    BY <1>4 DEF printDigit, RoundTripInv
  <2> QED BY <1>1, <2>1, <2>2 DEF RoundTripInv
<1>5. CASE printRest
  <2>1. source' # <<>> /\ \E f : Readable(f)'
    BY <1>5, PrintEnds
  <2>2. stage' = "sign" /\ sign' = 1 /\ read' = 0 /\ printed' = printed
    BY <1>5 DEF printRest, RoundTripInv, printing
  <2>3. \A f : Reads(f)'
    BY <2>2 DEF Reads
  <2> QED BY <1>1, <2>1, <2>2, <2>3 DEF RoundTripInv
<1>6. CASE parseText
  <2>1. stage' = "sign" /\ source' = <<>> /\ printed' = printed /\ read' = read
    BY <1>6 DEF parseText, RoundTripInv, printing
  <2> QED BY <1>1, <2>1 DEF RoundTripInv
<1>7. ASSUME \/ parseEnd \/ parseSign
             \/ \E x \in 0..(base - 1) \cup {Minus, Other} :
                  parseFirst(x) \/ parseNonDigit(x) \/ parseDigit(x)
      PROVE  RoundTripInv'
  <2>1. /\ stage \in {"sign", "first", "rest"}
        /\ stage' \in {"first", "rest", "accepted", "rejected"}
        /\ source' = source /\ printed' = printed /\ (read' = read \/ read' = read + 1)
    BY <1>7 DEF parseEnd, parseSign, parseFirst, parseNonDigit, parseDigit, Accept, Reject, printing
  <2>2. CASE source = <<>>
    BY <1>1, <2>1, <2>2 DEF RoundTripInv
  <2>3. CASE source # <<>>
    <3>1. PICK f : Readable(f) /\ Reads(f)
      BY <2>3 DEF RoundTripInv
    <3>2. stage' \in {"first", "rest", "accepted"} /\ Reads(f)'
      <4>1. CASE parseEnd
        BY <2>3, <3>1, <4>1, ReadEnd
      <4>2. CASE parseSign
        BY <2>3, <3>1, <4>2, ReadSign
      <4>3. ASSUME NEW x \in 0..(base - 1) \cup {Minus, Other}, parseFirst(x)
            PROVE  stage' \in {"first", "rest", "accepted"} /\ Reads(f)'
        BY <2>3, <3>1, <4>3, ReadFirst
      <4>4. ASSUME NEW x \in 0..(base - 1) \cup {Minus, Other}, parseNonDigit(x)
            PROVE  FALSE
        <5>1. stage = "rest" /\ IsNext(x) /\ digitOf(x) >= base
          BY <4>4 DEF parseNonDigit
        <5>2. read - SignSize \in 1..Size
          BY <3>1, <5>1 DEF Reads
        <5>3. SignSize \in {0, 1} /\ Size \in Nat /\ base \in Nat
          BY <1>1, <3>1, PrintedFacts, KindFacts DEF CallOK, Readable
        <5>4. SignSize <= read
          BY <1>1, <5>2, <5>3
        <5>5. digitOf(x) < base
          BY <1>1, <2>3, <3>1, <5>1, <5>4, NextPrinted
        <5>6. digitOf(x) \in Int
          BY <1>1, <4>4, DigitType DEF CallOK
        <5> QED BY <5>1, <5>3, <5>5, <5>6
      <4>5. ASSUME NEW x \in 0..(base - 1) \cup {Minus, Other}, parseDigit(x)
            PROVE  stage' \in {"first", "rest", "accepted"} /\ Reads(f)'
        BY <2>3, <3>1, <4>5, ReadDigit
      <4> QED BY <1>7, <4>1, <4>2, <4>3, <4>4, <4>5
    <3>3. Readable(f)'
      BY <1>1, <2>1, <3>1, ReadFrame
    <3> QED BY <1>1, <2>1, <3>2, <3>3 DEF RoundTripInv
  <2> QED BY <2>2, <2>3
<1> QED BY <1>2, <1>3, <1>4, <1>5, <1>6, <1>7 DEF Next

(* RoundTrip holds of every type and base whose checks work: what          *)
(* printNumber writes for a number, both overloads of parseNumber read     *)
(* back whole, as the same number.                                         *)
THEOREM RoundTripAlways ==
  ASSUME ChecksFit
  PROVE  Spec => []RoundTrip
<1>1. Init => RoundTripInv
  BY RoundTripInvInit
<1>2. RoundTripInv /\ [Next]_vars => RoundTripInv'
  BY RoundTripInvStep
<1>3. RoundTripInv => RoundTrip
  BY DEF RoundTripInv, RoundTrip, Reads
<1> QED BY <1>1, <1>2, <1>3, PTL DEF Spec
(***************************************************************************)
(* The buffers.                                                            *)
(***************************************************************************)
(* g is the function that countDigits(n) defines.                          *)
Counts(g, n) == g = [m \in 0..n |-> IF m < base THEN 1 ELSE 1 + g[m \div base]]

LEMMA CountsExists ==
  ASSUME kind \in Kinds, NEW n \in Nat
  PROVE  \E g : Counts(g, n)
<1> DEFINE B == {m \in 0..n : m < base}
           a == [m \in 0..n |-> 1]
           one == 1
           b == [m \in 0..n |-> 1]
           next == [m \in 0..n |-> m \div base]
<1>1. \A m \in 0..n : m \in B => a[m] \in Int
  OBVIOUS
<1>2. ASSUME NEW m \in 0..n, m \notin B PROVE next[m] \in 0..(m - 1) /\ b[m] \in Int
  <2>1. base \in Nat /\ base >= 2
    BY KindFacts
  <2>2. m \in Nat /\ m >= base
    BY <1>2, <2>1
  <2>3. m \div base \in 0..(m - 1)
    BY <2>2, Shorter
  <2> QED BY <2>3
<1>3. one \in Int
  OBVIOUS
<1>4. ASSUME NEW g \in [0..n -> Int], Solves(g, n, B, a, one, b, next) PROVE Counts(g, n)
  <2>1. g = [m \in 0..n |-> IF m \in B THEN a[m] ELSE one * g[next[m]] + b[m]]
    BY <1>4 DEF Solves
  <2>2. ASSUME NEW m \in 0..n
        PROVE  (IF m \in B THEN a[m] ELSE one * g[next[m]] + b[m]) = IF m < base THEN 1 ELSE 1 + g[m \div base]
    <3>1. CASE m \in B
      BY <3>1
    <3>2. CASE m \notin B
      <4>1. next[m] \in 0..n /\ next[m] = m \div base /\ ~ (m < base)
        BY <1>2, <3>2
      <4>2. g[next[m]] \in Int
        BY <4>1
      <4> HIDE DEF next
      <4> QED BY <3>2, <4>1, <4>2
    <3> QED BY <3>1, <3>2
  <2> HIDE DEF B, a, one, b, next
  <2> QED BY <2>1, <2>2 DEF Counts
<1> HIDE DEF B, a, one, b, next
<1>5. \E g \in [0..n -> Int] : Solves(g, n, B, a, one, b, next)
  BY <1>1, <1>2, <1>3, RecursionExists
<1> QED BY <1>4, <1>5

LEMMA CountsAgree ==
  ASSUME kind \in Kinds, NEW n \in Nat, NEW k \in Nat, NEW g, NEW h,
         Counts(g, n), Counts(h, k), NEW m \in Nat, m <= n, m <= k
  PROVE  g[m] = h[m]
<1> DEFINE T == {j \in Nat : j <= n /\ j <= k /\ g[j] # h[j]}
<1>1. T = {}
  <2> SUFFICES ASSUME T # {} PROVE FALSE
    OBVIOUS
  <2>1. T \subseteq Nat
    OBVIOUS
  <2> HIDE DEF T
  <2>2. PICK j \in T : \A i \in T : j <= i
    BY <2>1, LeastOf
  <2>3. j \in Nat /\ j <= n /\ j <= k /\ g[j] # h[j]
    BY <2>2 DEF T
  <2>4. /\ g[j] = IF j < base THEN 1 ELSE 1 + g[j \div base]
        /\ h[j] = IF j < base THEN 1 ELSE 1 + h[j \div base]
    <3>1. j \in 0..n /\ j \in 0..k
      BY <2>3
    <3> QED BY <3>1 DEF Counts
  <2>5. base \in Nat
    BY KindFacts
  <2>6. CASE j < base
    BY <2>3, <2>4, <2>6
  <2>7. CASE j >= base
    <3> DEFINE i == j \div base
    <3>1. i \in 0..(j - 1) /\ i \in Nat
      BY <2>3, <2>7, Shorter
    <3> HIDE DEF i
    <3>2. i <= n /\ i <= k /\ ~ (j <= i)
      BY <2>3, <3>1
    <3>3. i \notin T
      BY <2>2, <3>2
    <3>4. g[i] = h[i]
      BY <3>1, <3>2, <3>3 DEF T
    <3> QED BY <2>3, <2>4, <2>5, <2>7, <3>4 DEF i
  <2> QED BY <2>3, <2>5, <2>6, <2>7
<1> QED BY <1>1

LEMMA CountDigitsIs ==
  ASSUME kind \in Kinds, NEW n \in Nat, NEW m \in 0..n
  PROVE  \E g : Counts(g, n) /\ g[m] = countDigits(m) /\ g[n] = countDigits(n)
<1>1. ASSUME NEW k \in Nat PROVE \E g : Counts(g, k) /\ g[k] = countDigits(k)
  <2> DEFINE G == CHOOSE g : Counts(g, k)
  <2>1. Counts(G, k)
    BY CountsExists
  <2>2. countDigits(k) = G[k]
    BY DEF countDigits, Counts
  <2> QED BY <2>1, <2>2
<1>2. PICK g : Counts(g, n) /\ g[n] = countDigits(n)
  BY <1>1
<1>3. m \in Nat /\ m <= n /\ m <= m
  OBVIOUS
<1>4. PICK h : Counts(h, m) /\ h[m] = countDigits(m)
  BY <1>1, <1>3
<1>5. g[m] = h[m]
  BY <1>2, <1>3, <1>4, CountsAgree
<1> QED BY <1>2, <1>4, <1>5

LEMMA CountDigitsStep ==
  ASSUME kind \in Kinds, NEW n \in Nat
  PROVE  /\ n < base => countDigits(n) = 1
         /\ n >= base => countDigits(n) = 1 + countDigits(n \div base)
<1>1. base \in Nat /\ base >= 2 /\ n \in 0..n
  BY KindFacts
<1>2. CASE n < base
  <2>1. PICK g : Counts(g, n) /\ g[n] = countDigits(n)
    BY <1>1, CountDigitsIs
  <2> QED BY <1>1, <1>2, <2>1 DEF Counts
<1>3. CASE n >= base
  <2> DEFINE v == n \div base
  <2>1. v \in 0..(n - 1)
    BY <1>3, Shorter
  <2> HIDE DEF v
  <2>2. v \in 0..n
    BY <2>1
  <2>3. PICK g : Counts(g, n) /\ g[v] = countDigits(v) /\ g[n] = countDigits(n)
    BY <2>2, CountDigitsIs
  <2>4. g[n] = 1 + g[v]
    BY <1>1, <1>3, <2>3 DEF Counts, v
  <2> QED BY <1>1, <1>3, <2>3, <2>4 DEF v
<1> QED BY <1>1, <1>2, <1>3

LEMMA CountDigitsGrows ==
  ASSUME kind \in Kinds, NEW n \in Nat, NEW m \in 0..n
  PROVE  /\ countDigits(m) \in Nat /\ countDigits(n) \in Nat
         /\ 1 <= countDigits(m) /\ countDigits(m) <= countDigits(n)
<1>1. base \in Nat /\ base >= 2
  BY KindFacts
<1>2. ASSUME NEW k \in Nat PROVE countDigits(k) \in Nat /\ 1 <= countDigits(k)
  <2> DEFINE T == {j \in Nat : ~ (countDigits(j) \in Nat /\ 1 <= countDigits(j))}
  <2>1. T = {}
    <3> SUFFICES ASSUME T # {} PROVE FALSE
      OBVIOUS
    <3>1. T \subseteq Nat
      OBVIOUS
    <3> HIDE DEF T
    <3>2. PICK j \in T : \A i \in T : j <= i
      BY <3>1, LeastOf
    <3>3. j \in Nat /\ ~ (countDigits(j) \in Nat /\ 1 <= countDigits(j))
      BY <3>2 DEF T
    <3>4. j >= base
      BY <1>1, <3>3, CountDigitsStep
    <3> DEFINE i == j \div base
    <3>5. countDigits(j) = 1 + countDigits(i)
      BY <3>3, <3>4, CountDigitsStep
    <3>6. i \in Nat /\ i \in 0..(j - 1)
      BY <3>3, <3>4, Shorter
    <3> HIDE DEF i
    <3>7. i \notin T
      BY <3>2, <3>3, <3>6
    <3>8. countDigits(i) \in Nat /\ 1 <= countDigits(i)
      BY <3>6, <3>7 DEF T
    <3> QED BY <3>3, <3>5, <3>8
  <2> QED BY <2>1
<1>3. ASSUME NEW k \in Nat PROVE \A j \in 0..k : countDigits(j) <= countDigits(k)
  <2> DEFINE T == {i \in Nat : ~ \A j \in 0..i : countDigits(j) <= countDigits(i)}
  <2>1. T = {}
    <3> SUFFICES ASSUME T # {} PROVE FALSE
      OBVIOUS
    <3>1. T \subseteq Nat
      OBVIOUS
    <3> HIDE DEF T
    <3>2. PICK i \in T : \A l \in T : i <= l
      BY <3>1, LeastOf
    <3>3. i \in Nat
      BY <3>1, <3>2
    <3>4. PICK j \in 0..i : ~ (countDigits(j) <= countDigits(i))
      BY <3>2 DEF T
    <3>5. j \in Nat /\ j <= i /\ countDigits(j) \in Nat /\ countDigits(i) \in Nat
          /\ 1 <= countDigits(i)
      BY <1>2, <3>3, <3>4
    <3>6. j >= base
      BY <1>1, <3>4, <3>5, CountDigitsStep
    <3>7. i >= base
      BY <1>1, <3>3, <3>5, <3>6
    <3> DEFINE u == i \div base
               v == j \div base
    <3>8. countDigits(i) = 1 + countDigits(u) /\ countDigits(j) = 1 + countDigits(v)
      BY <3>3, <3>5, <3>6, <3>7, CountDigitsStep
    <3>9. u \in Nat /\ u \in 0..(i - 1) /\ v \in Nat
      BY <3>3, <3>5, <3>6, <3>7, Shorter
    <3>10. v <= u
      <4>1. v <= v
        BY <3>9
      <4>2. v * base <= j
        BY <1>1, <3>5, <3>9, <4>1, Quotients
      <4>3. v * base <= i
        BY <1>1, <3>3, <3>5, <3>9, <4>2
      <4> QED BY <1>1, <3>3, <3>9, <4>3, Quotients
    <3> HIDE DEF u, v
    <3>11. u \notin T
      BY <3>2, <3>3, <3>9
    <3>12. countDigits(v) <= countDigits(u)
      BY <3>9, <3>10, <3>11 DEF T
    <3>13. countDigits(u) \in Nat /\ countDigits(v) \in Nat
      BY <1>2, <3>9
    <3> QED BY <3>4, <3>8, <3>12, <3>13
  <2> QED BY <2>1
<1> QED BY <1>2, <1>3

LEMMA GreaterOfTwo ==
  ASSUME NEW a \in Int, NEW b \in Int
  PROVE  Max({a, b}) \in Int /\ a <= Max({a, b}) /\ b <= Max({a, b})
<1>1. \E x \in {a, b} : \A y \in {a, b} : x >= y
  OBVIOUS
<1>2. Max({a, b}) \in {a, b} /\ \A y \in {a, b} : Max({a, b}) >= y
  BY <1>1 DEF Max
<1> QED BY <1>2

(* A digit is in the buffer or still in val.                               *)
BufferInv ==
  /\ CallOK /\ printed \in minT..maxT /\ digits \in Seq(Int)
  /\ stage \in {"idle", "print"} => source = <<>>
  /\ stage = "idle" => digits = <<>>
  /\ stage = "print" => /\ val \in Nat
                        /\ Len(digits) + countDigits(val) = countDigits(Magnitude)
  /\ PrintedFits

LEMMA MagnitudeFits ==
  ASSUME CallOK, printed \in minT..maxT
  PROVE  /\ countDigits(Magnitude) \in Nat
         /\ maxDigitCount \in Int /\ countDigits(Magnitude) <= maxDigitCount
         /\ maxPrintedSize \in Int /\ SignSize + countDigits(Magnitude) <= maxPrintedSize
         /\ 1 <= maxDigitCount /\ 0 <= maxPrintedSize
<1> DEFINE M == Magnitude
           a == -minT
           b == maxT
           V == kind.values - 1
<1>1. /\ M \in Nat /\ SignSize \in {0, 1} /\ (SignSize = 1 => kind.signed) /\ M <= V
      /\ kind.signed \in BOOLEAN /\ V \in Nat /\ a \in Nat /\ b \in Nat /\ (M <= a \/ M <= b)
  BY KindFacts, PrintedFacts DEF CallOK
<1>2. kind \in Kinds
  BY DEF CallOK
<1>3. maxDigitCount = Max({countDigits(a), countDigits(b)})
      /\ maxPrintedSize = countDigits(V) + (IF kind.signed THEN 1 ELSE 0)
  BY DEF maxDigitCount, maxPrintedSize
<1> HIDE DEF M, a, b, V
<1>4. countDigits(M) \in Nat /\ 1 <= countDigits(M)
  <2>1. M \in 0..M
    BY <1>1
  <2> QED BY <1>1, <1>2, <2>1, CountDigitsGrows
<1>5. countDigits(V) \in Nat /\ countDigits(M) <= countDigits(V)
  <2>1. M \in 0..V
    BY <1>1
  <2> QED BY <1>1, <1>2, <2>1, CountDigitsGrows
<1>6. /\ countDigits(a) \in Nat /\ countDigits(b) \in Nat
      /\ M <= a => countDigits(M) <= countDigits(a)
      /\ M <= b => countDigits(M) <= countDigits(b)
  <2>1. a \in 0..a /\ b \in 0..b /\ (M <= a => M \in 0..a) /\ (M <= b => M \in 0..b)
    BY <1>1
  <2> QED BY <1>1, <1>2, <2>1, CountDigitsGrows
<1>7. /\ maxDigitCount \in Int
      /\ countDigits(a) <= maxDigitCount /\ countDigits(b) <= maxDigitCount
  <2>1. countDigits(a) \in Int /\ countDigits(b) \in Int
    BY <1>6
  <2> QED BY <1>3, <2>1, GreaterOfTwo
<1>8. countDigits(M) <= maxDigitCount
  BY <1>1, <1>4, <1>6, <1>7
<1>9. maxPrintedSize \in Int /\ SignSize + countDigits(M) <= maxPrintedSize
  BY <1>1, <1>3, <1>4, <1>5
<1> QED BY <1>1, <1>4, <1>7, <1>8, <1>9 DEF M

LEMMA BufferInvInit == Init => BufferInv
<1> SUFFICES ASSUME Init PROVE BufferInv
  OBVIOUS
<1>1. CallOK
  BY DEF Init, CallOK
<1>2. printed \in minT..maxT
  <2>1. minT \in Int /\ maxT \in Int /\ minT <= 0 /\ 127 <= maxT
    BY <1>1, KindFacts DEF CallOK
  <2> QED BY <2>1 DEF Init
<1>3. digits = <<>> /\ source = <<>> /\ stage = "idle"
  BY DEF Init
<1>4. Len(digits) = 0 /\ Len(source) = 0 /\ digits \in Seq(Int)
  BY <1>3
<1>5. PrintedFits
  BY <1>1, <1>2, <1>4, MagnitudeFits DEF PrintedFits
<1> QED BY <1>1, <1>2, <1>3, <1>4, <1>5 DEF BufferInv

LEMMA BufferFrame ==
  ASSUME kind' = kind
  PROVE  /\ base' = base /\ minT' = minT /\ maxT' = maxT
         /\ \A n : countDigits(n)' = countDigits(n)
         /\ maxDigitCount' = maxDigitCount /\ maxPrintedSize' = maxPrintedSize
<1>1. base' = base /\ minT' = minT /\ maxT' = maxT
  BY DEF base, minT, maxT
<1>2. ASSUME NEW n PROVE countDigits(n)' = countDigits(n)
  BY <1>1 DEF countDigits
<1>3. maxDigitCount' = maxDigitCount
  BY <1>1 DEF maxDigitCount, countDigits
<1>4. maxPrintedSize' = maxPrintedSize
  BY <1>1 DEF maxPrintedSize, countDigits
<1> QED BY <1>1, <1>2, <1>3, <1>4

LEMMA BufferInvStep ==
  ASSUME BufferInv, [Next]_vars
  PROVE  BufferInv'
<1>1. CallOK /\ CallOK' /\ kind' = kind /\ base' = base /\ minT' = minT /\ maxT' = maxT
      /\ maxDigitCount' = maxDigitCount /\ maxPrintedSize' = maxPrintedSize
      /\ printed \in minT..maxT /\ digits \in Seq(Int) /\ PrintedFits
  BY CallStep, BufferFrame DEF BufferInv
<1>2. /\ countDigits(Magnitude) \in Nat
      /\ maxDigitCount \in Int /\ countDigits(Magnitude) <= maxDigitCount
      /\ maxPrintedSize \in Int /\ SignSize + countDigits(Magnitude) <= maxPrintedSize
      /\ SignSize \in {0, 1} /\ Len(digits) \in Nat
  BY <1>1, MagnitudeFits, PrintedFacts
<1>3. CASE UNCHANGED vars
  <2>1. digits' = digits /\ source' = source /\ stage' = stage /\ val' = val /\ printed' = printed
    BY <1>3 DEF vars, printing
  <2>2. countDigits(Magnitude)' = countDigits(Magnitude) /\ countDigits(val)' = countDigits(val)
    BY <1>1, <2>1 DEF countDigits, Magnitude
  <2> QED BY <1>1, <2>1, <2>2 DEF BufferInv, PrintedFits
<1>4. ASSUME NEW n \in minT..maxT, print(n) PROVE BufferInv'
  <2>1. digits' = digits /\ digits = <<>> /\ source' = source /\ source = <<>>
        /\ stage' = "print" /\ printed' = n
    BY <1>4 DEF print, BufferInv
  <2>2. val' = Magnitude' /\ val' \in Nat
    BY <1>1, <1>4, PrintedMagnitude
  <2>3. countDigits(val)' = countDigits(Magnitude)'
    BY <2>2 DEF countDigits
  <2>4. printed' \in minT'..maxT'
    BY <1>1, <1>4, <2>1
  <2>5. countDigits(Magnitude)' \in Nat
    <3>1. PICK m \in Nat : m = val'
      BY <2>2
    <3>2. countDigits(val)' = countDigits(m)
      BY <1>1, <3>1 DEF countDigits
    <3>3. m \in 0..m
      OBVIOUS
    <3>4. countDigits(m) \in Nat
      BY <1>1, <3>3, CountDigitsGrows DEF CallOK
    <3> QED BY <2>3, <3>2, <3>4
  <2>6. Len(digits') = 0
    BY <2>1
  <2> QED BY <1>1, <2>1, <2>2, <2>3, <2>4, <2>5, <2>6 DEF BufferInv, PrintedFits
<1>5. CASE printDigit
  <2> DEFINE v == val \div base
             d == val % base
  <2>1. /\ stage = "print" /\ val >= base /\ digits' = Append(digits, d) /\ val' = v
        /\ source' = source /\ source = <<>> /\ stage' = stage /\ printed' = printed
        /\ val \in Nat /\ Len(digits) + countDigits(val) = countDigits(Magnitude)
    BY <1>5 DEF printDigit, BufferInv
  <2>2. v \in Nat /\ v \in 0..v /\ d \in Int
    <3>1. base \in Nat \ {0}
      BY <1>1, KindFacts DEF CallOK
    <3>2. v \in Nat
      BY <1>1, <2>1, Shorter DEF CallOK
    <3>3. d \in Int
      BY <2>1, <3>1, Division
    <3> HIDE DEF v, d
    <3> QED BY <3>2, <3>3
  <2>3. countDigits(val) = 1 + countDigits(v)
    BY <1>1, <2>1, CountDigitsStep DEF CallOK
  <2> HIDE DEF v, d
  <2>4. countDigits(v) \in Nat /\ 1 <= countDigits(v)
    BY <1>1, <2>2, CountDigitsGrows DEF CallOK
  <2>5. Len(digits') = Len(digits) + 1 /\ digits' \in Seq(Int)
    BY <1>1, <2>1, <2>2
  <2>6. countDigits(val)' = countDigits(v) /\ countDigits(Magnitude)' = countDigits(Magnitude)
    BY <1>1, <2>1 DEF countDigits, Magnitude
  <2>7. Len(digits') + countDigits(val)' = countDigits(Magnitude)'
    BY <1>2, <2>1, <2>3, <2>4, <2>5, <2>6
  <2>8. Len(digits') <= maxDigitCount - 1
    BY <1>2, <2>1, <2>3, <2>4, <2>5
  <2>9. PrintedFits'
    BY <1>1, <2>1, <2>8 DEF PrintedFits
  <2> QED BY <1>1, <2>1, <2>2, <2>5, <2>7, <2>9 DEF BufferInv
<1>6. CASE printRest
  <2> DEFINE R == Reverse(digits)
             sgn == IF printed < 0 THEN <<Minus>> ELSE <<>>
  <2>1. /\ stage = "print" /\ val < base /\ stage' = "sign"
        /\ source' = sgn \o <<val>> \o R /\ digits' = digits /\ printed' = printed
        /\ val \in Nat /\ Len(digits) + countDigits(val) = countDigits(Magnitude)
    BY <1>6 DEF printRest, BufferInv, printing
  <2>2. countDigits(val) = 1
    BY <1>1, <2>1, CountDigitsStep DEF CallOK
  <2>3. R \in Seq(Int) /\ Len(R) = Len(digits)
    <3>1. R = [i \in 1..Len(digits) |-> digits[(Len(digits) - i) + 1]]
      BY DEF Reverse
    <3>2. \A i \in 1..Len(digits) : digits[(Len(digits) - i) + 1] \in Int
      BY <1>1
    <3> HIDE DEF R
    <3>3. R \in [1..Len(digits) -> Int]
      BY <3>1, <3>2
    <3> QED BY <1>2, <3>3
  <2>4. sgn \in Seq(Int) /\ Len(sgn) = SignSize
    BY DEF SignSize, Minus
  <2> HIDE DEF sgn, R
  <2>5. Len(source') = SignSize + 1 + Len(digits)
    <3> DEFINE u == sgn \o <<val>>
    <3>1. u \in Seq(Int) /\ Len(u) = SignSize + 1
      BY <1>2, <2>1, <2>4
    <3>2. source' = u \o R
      BY <2>1
    <3> HIDE DEF u
    <3>3. Len(u \o R) = Len(u) + Len(R)
      BY <2>3, <3>1, ConcatProperties
    <3> QED BY <2>3, <3>1, <3>2, <3>3
  <2>6. Len(source') <= maxPrintedSize
    BY <1>2, <2>1, <2>2, <2>5
  <2>7. PrintedFits'
    BY <1>1, <2>1, <2>6 DEF PrintedFits
  <2> QED BY <1>1, <2>1, <2>7 DEF BufferInv
<1>7. CASE \/ parseText \/ parseEnd \/ parseSign
           \/ \E x \in 0..(base - 1) \cup {Minus, Other} :
                parseFirst(x) \/ parseNonDigit(x) \/ parseDigit(x)
  <2>1. digits' = digits /\ source' = source /\ printed' = printed
        /\ stage' \in {"sign", "first", "rest", "accepted", "rejected"}
    BY <1>7 DEF parseText, parseEnd, parseSign, parseFirst, parseNonDigit, parseDigit, Accept,
       Reject, printing
  <2> QED BY <1>1, <2>1 DEF BufferInv, PrintedFits
<1> QED BY <1>3, <1>4, <1>5, <1>6, <1>7 DEF Next

(* PrintedFits holds of every type and every base: the buffer of           *)
(* printNumber has room for the digits of every number, and maxPrintedSize *)
(* for the whole text.                                                     *)
THEOREM PrintedFitsAlways == Spec => []PrintedFits
<1>1. Init => BufferInv
  BY BufferInvInit
<1>2. BufferInv /\ [Next]_vars => BufferInv'
  BY BufferInvStep
<1>3. BufferInv => PrintedFits
  BY DEF BufferInv
<1> QED BY <1>1, <1>2, <1>3, PTL DEF Spec
=============================================================================
