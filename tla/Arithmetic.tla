----------------------------- MODULE Arithmetic -----------------------------
(***************************************************************************)
(* Division by a constant (src/src/afc/fast_division.h, with log2Ceil of   *)
(* compile_time_math.h) and mean (math_utils.h).                           *)
(*                                                                         *)
(* As in FastStringBuffer, X_Y is X with a mistake and part of no          *)
(* specification.                                                          *)
(***************************************************************************)
EXTENDS Integers

CONSTANTS
  UnsignedBits,   (* Of unsigned; unsigned long long has twice as many.    *)
  Divisors,       (* Template arguments of divide.                         *)
  DivideDefects,  (* FALSE: divide is not instantiated where its product   *)
                  (* may exceed unsigned long long, nor with 1.            *)
  MeanDefects     (* FALSE: mean is not called with signed numbers whose   *)
                  (* difference overflows.                                 *)

(* 1 << n *)
TwoTo(n) ==
  LET power[k \in 0..n] == IF k = 0 THEN 1 ELSE 2 * power[k - 1]
  IN  power[n]

ASSUME ArithmeticAssumption ==
  /\ UnsignedBits \in Nat \ {0, 1}
  /\ \A d \in Divisors : d \in 1..TwoTo(UnsignedBits - 2)

VARIABLES
  operation,      (* Which function, with its arguments.                   *)
  answer          (* What it returns, <<>> before.                           *)

arithmeticVars == <<operation, answer>>

Unsigned == 0..(TwoTo(UnsignedBits) - 1)
Signed == -(TwoTo(UnsignedBits - 1))..(TwoTo(UnsignedBits - 1) - 1)
Narrow(x) == x % TwoTo(UnsignedBits)
Wide(x) == x % TwoTo(2 * UnsignedBits)

(***************************************************************************)
(* divide.                                                                 *)
(***************************************************************************)
leadZeroCount(val) ==
  LET count[v \in Unsigned] ==
        IF v = 0 THEN UnsignedBits
        ELSE IF v >= TwoTo(UnsignedBits - 1) THEN 0
        ELSE count[v \div 2] - 1
  IN  count[val]

log2Ceil(val) == UnsignedBits - leadZeroCount(val - 1)

N == UnsignedBits + 1
l(divisor) == log2Ceil(divisor)
m_low(divisor) == TwoTo(N + l(divisor)) \div divisor
m_high_RoundedDown(divisor) == m_low(divisor)
m_high(divisor) == (TwoTo(N + l(divisor)) + TwoTo(l(divisor))) \div divisor

(* How often both are halved: as long as they remain different, and at     *)
(* most l times.                                                           *)
UIntDivReductor(divisor) ==
  CHOOSE k \in 0..l(divisor) :
    LET Differ(j) == m_low(divisor) \div TwoTo(j) < m_high(divisor) \div TwoTo(j)
    IN  /\ \A j \in 1..k : Differ(j)
        /\ k < l(divisor) => ~Differ(k + 1)
m(divisor) == m_high(divisor) \div TwoTo(UIntDivReductor(divisor))
sh_post(divisor) == l(divisor) - UIntDivReductor(divisor)

factor(divisor) == IF m(divisor) > TwoTo(N) THEN m(divisor) - TwoTo(N) ELSE m(divisor)

divide(divisor, dividend) ==
  LET t1 == Narrow(Wide(factor(divisor) * dividend) \div TwoTo(N))
  IN  IF m(divisor) > TwoTo(N)
      THEN Narrow(t1 + Narrow(dividend - t1) \div 2) \div TwoTo(sh_post(divisor) - 1)
      ELSE t1 \div TwoTo(sh_post(divisor))

(* Neither does the product wrap nor is a number shifted by -1 bits. *)
dividesWell(divisor) ==
  /\ factor(divisor) * (TwoTo(UnsignedBits) - 1) < TwoTo(2 * UnsignedBits)
  /\ m(divisor) > TwoTo(N) => sh_post(divisor) > 0

(***************************************************************************)
(* mean.                                                                   *)
(***************************************************************************)
Half(x) == IF x >= 0 THEN x \div 2 ELSE -((-x) \div 2)
meanUnsigned(x, y) == x \div 2 + y \div 2 + (x % 2) * (y % 2)
meanSigned(x, y) == IF x > y THEN y + Half(x - y) ELSE x + Half(y - x)

(***************************************************************************)
(* Calls.                                                                  *)
(***************************************************************************)
ArithmeticInputs ==
  [function : {"divide"}, args : Divisors \X Unsigned]
  \cup [function : {"meanUnsigned"}, args : Unsigned \X Unsigned]
  \cup [function : {"meanSigned"}, args : Signed \X Signed]
ArithmeticStart(in) == operation = in /\ answer = <<>>

Answer(function, result(_, _)) ==
  /\ operation.function = function /\ answer = <<>>
  /\ answer' = <<result(operation.args[1], operation.args[2])>>
  /\ UNCHANGED operation

callDivide ==
  /\ operation.function = "divide"
  /\ DivideDefects \/ dividesWell(operation.args[1])
  /\ Answer("divide", divide)

callMean ==
  \/ Answer("meanUnsigned", meanUnsigned)
  \/ /\ operation.function = "meanSigned"
     /\ MeanDefects \/ \A k \in 1..2 : operation.args[k] - operation.args[3 - k] \in Signed
     /\ Answer("meanSigned", meanSigned)

ArithmeticNext == callDivide \/ callMean

(***************************************************************************)
(* Properties.                                                             *)
(***************************************************************************)
(* divide<d>(n) is n / d for every n, wherever its multiplication fits:    *)
(* "Fast division" without a division (fast_division.h:79-102); and the    *)
(* mean of two numbers is right up to the limits of the type, where their  *)
(* sum is not in it (math_utils.h:70-78).                                  *)
AnswersAreExact ==
  answer # <<>> =>
    LET a == operation.args[1]
        b == operation.args[2]
    IN  answer = <<IF operation.function = "divide" THEN b \div a ELSE (a + b) \div 2>>
=============================================================================
