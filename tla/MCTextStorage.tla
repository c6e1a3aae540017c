--------------------------- MODULE MCTextStorage ---------------------------
(* Instances of TextStorage for TLC. *)
EXTENDS TextStorage, TLC

CONSTANTS a, b1, s1, s2, x1, x2

Word3Powers == {1, 2, 4}
Texts == {<<>>, <<a>>}

(* Neither a block nor a string is treated specially by any definition.    *)
Interchangeable == Permutations({x1, x2}) \cup Permutations({s1, s2})
=============================================================================
