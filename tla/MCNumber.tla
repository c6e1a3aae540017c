------------------------------ MODULE MCNumber ------------------------------
(* Instances of Number for TLC: an int of 10 bits. *)
EXTENDS Number

Kind(bits, s, r) == [values |-> 2 ^ bits, signed |-> s, base |-> r]

(* int and unsigned in bases that do and do not divide their range, and    *)
(* types that are narrower than int.                                       *)
AllKinds == {Kind(10, TRUE, 10), Kind(10, TRUE, 8), Kind(10, TRUE, 2),
             Kind(10, FALSE, 10), Kind(10, FALSE, 16),
             Kind(9, TRUE, 10), Kind(8, TRUE, 10), Kind(8, FALSE, 10), Kind(8, FALSE, 16)}
Decimal == {Kind(10, TRUE, 10)}
=============================================================================
