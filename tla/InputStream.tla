---------------------------- MODULE InputStream ----------------------------
(***************************************************************************)
(* What afc::InputStream promises its callers: read(n) and skip(n) advance *)
(* by the same count, n or what is left, read delivers the bytes in order, *)
(* reset() starts again.  A call that throws may leave the position        *)
(* anywhere; a closed stream delivers nothing.                             *)
(***************************************************************************)
EXTENDS Integers

CONSTANTS
  Size,    (* Bytes of the file.       *)
  Counts   (* What callers ask for.    *)

VARIABLES
  isOpen, at,
  outcome  (* How the last call ended. *)

vars == <<isOpen, at, outcome>>

(* A call that was asked for n bytes got count of them from this place. *)
Got(op, n, from, count) == [op |-> op, asked |-> n, from |-> from, count |-> count]
Done(op) == Got(op, 0, 0, 0)

Init == isOpen = FALSE /\ at = 0 /\ outcome = Done("none")

Open == ~isOpen /\ isOpen' = TRUE /\ at' = 0 /\ outcome' = Done("open")

Advance(op, n) ==
  LET count == IF n <= Size - at THEN n ELSE Size - at IN
  /\ isOpen
  /\ at' = at + count
  /\ outcome' = Got(op, n, at, count)
  /\ UNCHANGED isOpen

Reset == isOpen /\ at' = 0 /\ outcome' = Done("reset") /\ UNCHANGED isOpen

Fail == at' \in 0..Size /\ outcome' = Done("throw") /\ UNCHANGED isOpen

Close == isOpen' = FALSE /\ outcome' = Done("close") /\ UNCHANGED at

Next == \/ Open \/ Reset \/ Fail \/ Close
        \/ \E n \in Counts : Advance("read", n) \/ Advance("skip", n)

Spec == Init /\ [][Next]_vars
=============================================================================
