------------------------ MODULE MCFastStringBuffer ------------------------
(* Instances of FastStringBuffer for TLC. *)
EXTENDS FastStringBuffer, TLC

CONSTANTS a, b, b1, b2, x1, x2

Word3Powers == {1, 2, 4}
Word4Powers == {1, 2, 4, 8}
Word5Powers == {1, 2, 4, 8, 16}

OneChar == {<<a>>}
TwoChars == {<<a>>, <<a, b>>}

=============================================================================
