----------------------------- MODULE TextValues -----------------------------
(***************************************************************************)
(* What string objects promise: a string is a value.  A call changes the   *)
(* string it is made on; a move also empties the other string; nothing     *)
(* else that happens to strings or to the storage they share changes one.  *)
(***************************************************************************)
EXTENDS Integers, Sequences

CONSTANTS Names, NoText

VARIABLES
  value,  (* value[s], NoText when s does not exist *)
  source  (* texts outside the strings, which strings are made from *)

Init == value = [s \in Names |-> NoText]

Parts(v) == {SubSeq(v, i, j) : i, j \in 1..Len(v)}

(* s gets a text from the outside, or part of the text of a string. *)
Set(s) ==
  \E v \in {<<>>} \cup source
        \cup UNION {Parts(value[o]) : o \in {n \in Names : value[n] # NoText}} :
    value' = [value EXCEPT ![s] = v]

Destroy(s) == value' = [value EXCEPT ![s] = NoText]

Move(s, o) ==
  /\ value[o] # NoText
  /\ value' = [value EXCEPT ![s] = value[o], ![o] = <<>>]

Next == \E s \in Names : Set(s) \/ Destroy(s) \/ \E o \in Names : Move(s, o)

Spec == Init /\ [][Next]_value
=============================================================================
