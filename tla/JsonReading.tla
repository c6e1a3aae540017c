---------------------------- MODULE JsonReading ----------------------------
(***************************************************************************)
(* What the parsers of Json promise, in terms of JsonGrammar.              *)
(***************************************************************************)
EXTENDS Json

Grammar(t) == INSTANCE JsonGrammar WITH text <- t

returned == stack = <<>>
Prefix(n) == SubSeq(text, 1, n)
ViablePrefix(n) == Grammar(Prefix(n))!Viable(schema)

(* A call without an error has read the longest value the grammar finds,   *)
(* has given the destinations what is in it, in order, and stands behind   *)
(* it; a call with an error stands at the end, and there was no value:     *)
(* json.hpp, every parser.                                                 *)
AcceptsGrammar ==
  returned =>
    IF valid THEN Grammar(text)!Accepted(schema) /\ <<i, dest>> = Grammar(text)!Longest(schema)
    ELSE i = End /\ ~Grammar(text)!Accepted(schema)

NameRead == propName[1] > 1   \* A name stands behind a quotation mark.

(* malformedJson() is told the first character that no value can have at   *)
(* its place; only a wrong name is reported behind its closing quotation   *)
(* mark, the end perhaps.  prematureEnd() means that the text could go on; *)
(* exceptions are a name without its second quotation mark and parseBoolean*)
(* with random access, which counts the characters before it reads them.   *)
ErrorsLocated ==
  \A n \in 1..Len(errors) :
    LET e == errors[n]
    IN  CASE e.kind = "malformedJson" ->
               \/ e.at < End /\ ViablePrefix(e.at - 1) /\ ~ViablePrefix(e.at)
               \/ NameRead /\ e.at = propName[2] + 1 /\ ~ViablePrefix(propName[2])
          [] e.kind = "prematureEnd" ->
               \/ ViablePrefix(Len(text))
               \/ NameRead /\ propName[2] = End
               \/ randomAccess /\ \E m \in 1..4 : m <= Len(text) /\ ViablePrefix(Len(text) - m)
=============================================================================
