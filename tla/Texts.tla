------------------------------- MODULE Texts -------------------------------
(***************************************************************************)
(* How a reader takes delimited and percent-encoded text apart: the        *)
(* reference for Tokeniser and UrlBuilder, which work character by         *)
(* character.  A text is a sequence of characters.                         *)
(***************************************************************************)
EXTENDS Integers, SequencesExt

Positions(s, c) == {i \in 1..Len(s) : s[i] = c}
Without(s, n) == SubSeq(s, n + 1, Len(s))

(* The elements of a finite set of numbers, in order. *)
Ordered(S) ==
  [k \in 1..Cardinality(S) |-> CHOOSE i \in S : Cardinality({j \in S : j <= i}) = k]

(* A token, which may be empty, ends at a delimiter or at the end of s. *)
Tokens(s, delimiter) ==
  LET end == Ordered(Positions(s, delimiter) \cup {Len(s) + 1})
  IN  [k \in 1..Len(end) |-> SubSeq(s, IF k = 1 THEN 1 ELSE end[k - 1] + 1, end[k] - 1)]

(* The text on either side of the first c; nothing is behind a c that is   *)
(* not there.                                                              *)
First(s, c) == Min(Positions(s, c) \cup {Len(s) + 1})
Before(s, c) == SubSeq(s, 1, First(s, c) - 1)
Behind(s, c) == Without(s, First(s, c))

(* A character is itself or "%" and the two digits octet[c]. *)
Starts(s) == {i \in 1..Len(s) : \A j \in Positions(s, "%") : i - j \notin 1..2}
Unescaped(s, octet) ==
  LET start == Ordered(Starts(s))
  IN  [k \in 1..Len(start) |->
         IF s[start[k]] # "%" THEN s[start[k]]
         ELSE CHOOSE c \in DOMAIN octet : octet[c] = SubSeq(s, start[k] + 1, start[k] + 2)]
=============================================================================
