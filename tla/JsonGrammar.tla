---------------------------- MODULE JsonGrammar ----------------------------
(***************************************************************************)
(* What the parsers of json.hpp read, as a grammar: a non-terminal maps a  *)
(* set of readings (a position with what has been delivered so far) to the *)
(* readings behind it.  A text that ends too early could go on in any way: *)
(* this is the reading More.  Spaces are allowed where SpacePolicy says,   *)
(* but neither in an empty array or object nor, before the colon, behind a *)
(* name whose colon takes no leading ones.                                 *)
(***************************************************************************)
EXTENDS Integers, Sequences, FiniteSets

CONSTANTS text, spacePolicy, escapes, Digits

More == <<0, <<>>>>

Reading(S, Accepts(_), Output(_, _)) ==
  {<<r[1] + 1, Output(r[2], text[r[1]])>> :
     r \in {s \in S : s[1] \in 1..Len(text) /\ Accepts(text[s[1]])}}
  \cup {More : r \in {s \in S : s[1] \in {0, Len(text) + 1}}}

Silent(out, c) == out
Itself(out, c) == Append(out, c)

Char(c, S) == Reading(S, LAMBDA d : d = c, Silent)

RECURSIVE Word(_, _)
Word(w, S) == IF w = <<>> THEN S ELSE Word(Tail(w), Char(Head(w), S))

RECURSIVE WithSpaces(_)
WithSpaces(S) == LET T == S \cup Char(" ", S) IN IF T = S THEN S ELSE WithSpaces(T)
Lead(S) == IF spacePolicy \in {"spaces", "leadingSpaces"} THEN WithSpaces(S) ELSE S
Trail(S) == IF spacePolicy \in {"spaces", "trailingSpaces"} THEN WithSpaces(S) ELSE S

(* Delivered in one piece: the digits from position j on. *)
Number(S) ==
  {More : r \in {s \in S : s[1] \in {0, Len(text) + 1}}}
  \cup UNION {{<<k + 1, Append(r[2], SubSeq(text, r[1], k))>> :
                 k \in {m \in r[1]..Len(text) : \A n \in r[1]..m : text[n] \in Digits}} :
               r \in {s \in S : s[1] \in 1..Len(text)}}

Boolean(S) ==
  {<<r[1], IF r[1] = 0 THEN <<>> ELSE Append(r[2], TRUE)>> : r \in Word(<<"t", "r", "u", "e">>, S)}
  \cup {<<r[1], IF r[1] = 0 THEN <<>> ELSE Append(r[2], FALSE)>> :
          r \in Word(<<"f", "a", "l", "s", "e">>, S)}

RECURSIVE Chars(_)
Chars(S) ==
  LET plain   == Reading(S, LAMBDA d : d \notin {"\"", "\\"}, Itself)
      escaped == Reading(Char("\\", S), LAMBDA d : d \in DOMAIN escapes,
                         LAMBDA out, d : Append(out, escapes[d]))
      T == S \cup plain \cup escaped
  IN  IF T = S THEN S ELSE Chars(T)

RECURSIVE Value(_, _), Elements(_, _), Properties(_, _)
Value(s, S) ==
  Trail(
    CASE s.kind = "number"  -> Number(Lead(S))
      [] s.kind = "boolean" -> Boolean(Lead(S))
      [] s.kind = "string"  -> Char("\"", Chars(Char("\"", Lead(S))))
      [] s.kind = "array"   -> LET open == Char("[", Lead(S))
                               IN  Char("]", open) \cup Char("]", Elements(s.of, Value(s.of, open)))
      [] s.kind = "object"  -> Char("}", Properties(s.properties, Char("{", Lead(S)))))

(* The first element has been read. *)
Elements(s, S) ==
  LET T == S \cup Value(s, Char(",", S)) IN IF T = S THEN S ELSE Elements(s, T)

Separator(c, S) == Trail(Char(c, Lead(S)))

Properties(ps, S) ==
  IF ps = <<>> THEN S
  ELSE LET p     == Head(ps)
           name  == Char("\"", Word(p.name, Char("\"", Lead(S))))
           value == Trail(Value(p.value, Separator(":", name)))
       IN  IF Len(ps) = 1 THEN value ELSE Properties(Tail(ps), Separator(",", value))

(***************************************************************************)
(* Of a whole text.                                                        *)
(***************************************************************************)
Readings(s) == Value(s, {<<1, <<>>>>})

(* The longest one: a value at the top takes the digits and spaces it can. *)
Accepted(s) == Readings(s) \ {More} # {}
Longest(s) ==
  CHOOSE r \in Readings(s) \ {More} : \A q \in Readings(s) \ {More} : q[1] <= r[1]

(* Some text that starts with this one is accepted as a whole. *)
Viable(s) == \E r \in Readings(s) : r = More \/ r[1] = Len(text) + 1
=============================================================================
