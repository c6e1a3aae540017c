---------------------------- MODULE TextBuilder ----------------------------
(***************************************************************************)
(* What a string builder promises its callers: each builder holds a text   *)
(* and a capacity; a text changes only by the call made on its builder,    *)
(* never because storage was reserved, moved or could not be obtained; a   *)
(* writer that borrows the tail adds its characters when it returns it.    *)
(***************************************************************************)
EXTENDS Integers, Sequences

CONSTANTS Builders, Chars, Inputs

VARIABLES
  open,    (* builders that exist and still own their text *)
  lent,    (* builders whose tail is borrowed *)
  text,    (* text[b], <<>> when b is not open *)
  pending, (* characters written through the borrowed tail of b *)
  cap      (* cap[b]: the length the text can reach without a reservation *)

vars == <<open, lent, text, pending, cap>>

Init == /\ open = {} /\ lent = {}
        /\ text = [b \in Builders |-> <<>>]
        /\ pending = [b \in Builders |-> <<>>]
        /\ cap = [b \in Builders |-> 0]

Ready(b) == b \in open \ lent
Only(b, f, g) == \A o \in Builders \ {b} : g[o] = f[o]

Create(b) ==
  /\ b \notin open
  /\ open' = open \cup {b}
  /\ Only(b, cap, cap')
  /\ UNCHANGED <<lent, text, pending>>

Drop(b) ==
  /\ Ready(b)
  /\ open' = open \ {b}
  /\ text' = [text EXCEPT ![b] = <<>>]
  /\ Only(b, cap, cap')
  /\ UNCHANGED <<lent, pending>>

(* b takes everything o has; o stays a usable, empty builder. *)
Transfer(b, o) ==
  /\ b \notin open /\ Ready(o)
  /\ open' = open \cup {b}
  /\ text' = [text EXCEPT ![b] = text[o], ![o] = <<>>]
  /\ cap' = [cap EXCEPT ![b] = cap[o], ![o] = 0]
  /\ UNCHANGED <<lent, pending>>

Swap(b, o) ==
  /\ Ready(b) /\ Ready(o)
  /\ text' = [text EXCEPT ![b] = text[o], ![o] = text[b]]
  /\ cap' = [cap EXCEPT ![b] = cap[o], ![o] = cap[b]]
  /\ UNCHANGED <<open, lent, pending>>

Reserve(b) ==
  /\ Ready(b)
  /\ cap'[b] > cap[b] /\ Only(b, cap, cap')
  /\ UNCHANGED <<open, lent, text, pending>>

Add(b, s) ==
  /\ Ready(b)
  /\ Len(text[b]) + Len(s) <= cap[b]
  /\ text' = [text EXCEPT ![b] = @ \o s]
  /\ UNCHANGED <<open, lent, pending, cap>>

(* A longer size exposes characters the caller did not choose. *)
Resize(b) ==
  /\ Ready(b)
  /\ Len(text'[b]) <= cap[b]
  /\ \A i \in 1..Len(text[b]) : i <= Len(text'[b]) => text'[b][i] = text[b][i]
  /\ Only(b, text, text')
  /\ UNCHANGED <<open, lent, pending, cap>>

Borrow(b) ==
  /\ Ready(b)
  /\ lent' = lent \cup {b}
  /\ UNCHANGED <<open, text, pending, cap>>

Put(b, c) ==
  /\ b \in lent
  /\ Len(text[b]) + Len(pending[b]) < cap[b]
  /\ pending' = [pending EXCEPT ![b] = Append(@, c)]
  /\ UNCHANGED <<open, lent, text, cap>>

Return(b, n) ==
  /\ b \in lent
  /\ lent' = lent \ {b}
  /\ text' = [text EXCEPT ![b] = @ \o SubSeq(pending[b], 1, n)]
  /\ pending' = [pending EXCEPT ![b] = <<>>]
  /\ UNCHANGED <<open, cap>>

Next ==
  \E b \in Builders :
    \/ Create(b) \/ Drop(b) \/ Reserve(b) \/ Resize(b) \/ Borrow(b)
    \/ \E o \in Builders : Transfer(b, o) \/ Swap(b, o)
    \/ \E s \in Inputs : Add(b, s)
    \/ \E i, j \in 1..Len(text[b]) : Add(b, SubSeq(text[b], i, j))
    \/ \E c \in Chars : Put(b, c)
    \/ \E n \in 0..Len(pending[b]) : Return(b, n)

Spec == Init /\ [][Next]_vars
=============================================================================
