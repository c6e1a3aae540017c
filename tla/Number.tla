------------------------------- MODULE Number -------------------------------
(***************************************************************************)
(* printNumber and the two parseNumber of src/src/afc/number.h, for any    *)
(* integral type and base.  A step is an iteration of a loop.  A number is *)
(* printed and then parsed again, or text of any origin is parsed.         *)
(*                                                                         *)
(* A character is a digit, "-" or Other.  Which ASCII character stands for *)
(* a digit (digitToChar, asciiToDigit) is left out; asciiToDigit of any    *)
(* other character is 255.                                                 *)
(*                                                                         *)
(* As in FastStringBuffer, X_Y is X with a mistake and part of no          *)
(* specification.                                                          *)
(***************************************************************************)
EXTENDS Integers, SequencesExt

CONSTANTS
  Kinds,          (* The template arguments: [values, signed, base], where *)
                  (* values is how many numbers T has.                     *)
  IntValues,      (* How many int has: narrower types are promoted to it.  *)
  MaxRead,        (* Characters of a text.  Bounds the model.              *)
  DigitsAfterMin, (* TRUE: texts also go on with digits behind those of    *)
                  (* the least value of a signed type.                     *)
  OtherAsDigits   (* TRUE: types that do not have the number 255, those of *)
                  (* eight bits with a sign, also read characters that are *)
                  (* no digits.                                            *)

ASSUME NumberAssumption ==
  /\ IntValues \in Nat /\ MaxRead \in Nat
  /\ \A k \in Kinds : /\ k.base \in 2..36 /\ k.signed \in BOOLEAN
                      /\ k.values \in Nat /\ k.values % 2 = 0 /\ k.values >= 256

VARIABLES
  kind,      (* The template arguments, with parseMode ("all" or "scan")   *)
  parseMode, (* and the overload of parseNumber ("iterator" or "c-string").*)
  overload,
  stage,     (* Where printNumber or parseNumber is.                       *)
  val, digits,
  source,    (* The printed text that is parsed; <<>> for any other text.  *)
  printed,   (* The number that was printed.                               *)
  sign, result,
  c,         (* The character parseNumber looked at last.                  *)
  read,      (* Characters it looked at.                                   *)
  value,     (* The number they denote, NoNumber without digits and if     *)
             (* there is more than digits; no variable of the program.     *)
  p          (* The position parseNumber returns.                          *)

chosen == <<kind, parseMode, overload>>
printing == <<val, digits, printed>>
vars == <<chosen, stage, printing, source, sign, result, c, read, value, p>>

Minus == -1
Other == 255
NoNumber == -1

Init ==
  /\ kind \in Kinds
  /\ parseMode \in {"all", "scan"} /\ overload \in {"iterator", "c-string"}
  /\ stage = "idle"
  /\ val = 0 /\ digits = <<>> /\ source = <<>> /\ printed = 0
  /\ sign = 1 /\ result = 0 /\ p = 0
  /\ c = Minus /\ read = 0 /\ value = NoNumber

(***************************************************************************)
(* The type T.                                                             *)
(***************************************************************************)
base == kind.base
maxT == IF kind.signed THEN kind.values \div 2 - 1 ELSE kind.values - 1
minT == IF kind.signed THEN -(kind.values \div 2) ELSE 0
Wrap(x) == ((x - minT) % kind.values) + minT

(* The value of an expression of operands of T: int when T is narrower     *)
(* than int; a wide T wraps, also where the language leaves it open.       *)
Expression(x) == IF kind.values < IntValues THEN x ELSE Wrap(x)

(* Number of digits of n >= 0. *)
countDigits(n) ==
  LET count[m \in 0..n] == IF m < base THEN 1 ELSE 1 + count[m \div base]
  IN  count[n]
maxDigitCount == Max({countDigits(-minT), countDigits(maxT)})
maxPrintedSize_NoSign == countDigits(kind.values - 1)
maxPrintedSize == countDigits(kind.values - 1) + (IF kind.signed THEN 1 ELSE 0)

(***************************************************************************)
(* printNumber(value).  The type of val is unsigned, so that it holds the  *)
(* negation of every value.                                                *)
(***************************************************************************)
print(n) ==
  /\ stage = "idle"
  /\ stage' = "print"
  /\ printed' = n
  /\ val' = (IF n >= 0 THEN n ELSE (-n) % kind.values)
  /\ UNCHANGED <<chosen, digits, source, sign, result, c, read, value, p>>

(* A digit goes to the buffer, the lowest first. *)
printDigit_Reversed ==
  /\ stage = "print" /\ val >= base
  /\ digits' = <<val % base>> \o digits
  /\ val' = val \div base
  /\ UNCHANGED <<chosen, stage, printed, source, sign, result, c, read, value, p>>

printDigit ==
  /\ stage = "print" /\ val >= base
  /\ digits' = Append(digits, val % base)
  /\ val' = val \div base
  /\ UNCHANGED <<chosen, stage, printed, source, sign, result, c, read, value, p>>

(* The highest digit, which is not in the buffer; the text is then parsed. *)
printRest ==
  /\ stage = "print" /\ val < base
  /\ source' = (IF printed < 0 THEN <<Minus>> ELSE <<>>) \o <<val>> \o Reverse(digits)
  /\ stage' = "sign"
  /\ UNCHANGED <<chosen, printing, sign, result, c, read, value, p>>

(***************************************************************************)
(* parseNumber.                                                            *)
(***************************************************************************)
parseText ==
  /\ stage = "idle"
  /\ stage' = "sign"
  /\ UNCHANGED <<chosen, printing, source, sign, result, c, read, value, p>>

AtEnd == IF source = <<>> THEN TRUE ELSE read = Len(source)
IsNext(x) == IF source = <<>> THEN read < MaxRead
             ELSE read < Len(source) /\ source[read + 1] = x

(* asciiToDigit, as a T: 255 is -1 if T has eight bits and a sign, which is *)
(* less than the base.                                                     *)
digitOf(x) == Wrap(IF x = Minus THEN Other ELSE x)
Admitted(x) == OtherAsDigits \/ digitOf(x) >= base \/ x \in 0..(base - 1)

(* The number v with x behind it. *)
Followed(v, x) == IF v = NoNumber \/ x \notin 0..(base - 1) THEN NoNumber ELSE v * base + x

(* Limits are negated for negative numbers; C++ division truncates. *)
safeLimit == IF sign > 0 THEN (maxT - base + 1) \div base
             ELSE (-(minT + base - 1)) \div base
mulLimit == IF sign > 0 THEN maxT \div base ELSE Wrap((-minT) \div base)
addLimit == IF ~kind.signed THEN maxT ELSE IF sign < 0 THEN minT ELSE -maxT

Accept == /\ stage' = "accepted"
          /\ result' = Wrap(result * sign)
Reject == stage' = "rejected" /\ UNCHANGED result

(* The overload for C strings increments p before it looks at a character. *)
StopAtChar == p' = IF overload = "iterator" THEN read ELSE read + 1

parseEnd ==
  /\ stage \in {"sign", "first", "rest"}
  /\ AtEnd
  /\ IF stage = "rest" THEN Accept ELSE Reject
  /\ p' = read
  /\ UNCHANGED <<chosen, printing, source, sign, c, read, value>>

parseSign ==
  /\ stage = "sign" /\ kind.signed
  /\ IsNext(Minus)
  /\ stage' = "first"
  /\ sign' = -1
  /\ c' = Minus /\ read' = read + 1
  /\ UNCHANGED <<chosen, printing, source, result, value, p>>

parseFirst(x) ==
  /\ stage \in {"sign", "first"}
  /\ IsNext(x) /\ ~(stage = "sign" /\ kind.signed /\ x = Minus)
  /\ Admitted(x)
  /\ IF digitOf(x) >= base
     THEN Reject /\ StopAtChar /\ UNCHANGED value
     ELSE stage' = "rest" /\ result' = digitOf(x) /\ value' = Followed(0, x) /\ UNCHANGED p
  /\ c' = x /\ read' = read + 1
  /\ UNCHANGED <<chosen, printing, source, sign>>

parseNonDigit(x) ==
  /\ stage = "rest"
  /\ IsNext(x) /\ digitOf(x) >= base
  /\ IF parseMode = "all" THEN Reject ELSE Accept
  /\ StopAtChar
  /\ c' = x /\ read' = read + 1
  /\ UNCHANGED <<chosen, printing, source, sign, value>>

(* What result becomes, or the call fails. *)
Appended(digit) == Wrap(Wrap(result * base) + digit)
Fits_OffByOne(digit) ==
  \/ result <= safeLimit
  \/ /\ result <= mulLimit
     /\ IF kind.signed
        THEN Expression(Expression(addLimit + Wrap(result * base)) + digit) <= 1
        ELSE Wrap(result * base) <= Expression(addLimit - digit) + 1

Fits(digit) ==
  \/ result <= safeLimit
  \/ /\ result <= mulLimit
     /\ IF kind.signed
        THEN Expression(Expression(addLimit + Wrap(result * base)) + digit) <= 0
        ELSE Wrap(result * base) <= Expression(addLimit - digit)

parseDigit(x) ==
  /\ stage = "rest"
  /\ IsNext(x) /\ digitOf(x) < base /\ Admitted(x)
  /\ DigitsAfterMin \/ sign * value # minT \/ ~kind.signed
  /\ IF Fits(digitOf(x))
     THEN result' = Appended(digitOf(x)) /\ UNCHANGED <<stage, p>>
     ELSE Reject /\ StopAtChar
  /\ value' = Followed(value, x)
  /\ c' = x /\ read' = read + 1
  /\ UNCHANGED <<chosen, printing, source, sign>>

Next ==
  \/ \E n \in minT..maxT : print(n)
  \/ printDigit \/ printRest
  \/ parseText \/ parseEnd \/ parseSign
  \/ \E x \in 0..(base - 1) \cup {Minus, Other} :
       parseFirst(x) \/ parseNonDigit(x) \/ parseDigit(x)

Spec == Init /\ [][Next]_vars

(***************************************************************************)
(* Properties.                                                             *)
(***************************************************************************)
(* assert(i <= sizeof(digits)) of printNumber, and appendNumber's buffer:  *)
(* the buffers hold every number of every type in every base.              *)
PrintedFits ==
  /\ Len(digits) <= maxDigitCount - 1
  /\ Len(source) <= maxPrintedSize

InRange == sign * value \in minT..maxT

(* A number that is accepted is the one the text denotes, and a text is    *)
(* rejected only because it has no digits, goes on behind them where all   *)
(* of it has to be a number, or denotes a number that T does not have.     *)
ParsesWhatIsWritten ==
  /\ stage = "accepted" =>
       /\ value # NoNumber /\ InRange /\ result = sign * value
       /\ parseMode = "all" => c \in 0..(base - 1)
  /\ stage = "rejected" =>
       \/ value = NoNumber \/ ~InRange
       \/ parseMode = "all" /\ c \notin 0..(base - 1)

(* The tests' "underflow" and "overflow": a number out of the range of T   *)
(* is reported, not taken for another one.                                 *)
OutOfRangeIsReported == stage = "accepted" => InRange

(* What printNumber wrote is read back, whole, by both overloads.          *)
RoundTrip ==
  source # <<>> /\ stage \in {"accepted", "rejected"} =>
    stage = "accepted" /\ result = printed /\ p = Len(source)
=============================================================================
