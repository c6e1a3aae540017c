---------------------------- MODULE MCUrlTokens ----------------------------
(* Instances of UrlTokens for TLC. *)
EXTENDS UrlTokens

CONSTANTS w1, w2, p1

Formats == [b \in {w1, w2, p1} |-> IF b = p1 THEN "plain" ELSE "webForm"]
OneFormat == [b \in {w1} |-> "webForm"]
WebBuilders == Permutations({w1, w2})
TwoBases == {<<>>, <<"u">>}

Word == {"u", "2", "6", "3", "5", "d", "f"}
Hex == [c \in {"&", "=", "?", "%"} |->
          CASE c = "&" -> <<"2", "6">> [] c = "=" -> <<"3", "d">>
            [] c = "?" -> <<"3", "f">> [] c = "%" -> <<"2", "5">>]

Ordinary(text) == [type |-> "ordinary", value |-> text]
Raw(text) == [type |-> "raw", value |-> text]

(* A raw part of parameters is encoded; a raw query is encoded text with   *)
(* its own separators.                                                     *)
Queries == {Ordinary(<<"u", "&">>), Raw(<<"u", "=", "u">>), Ordinary(<<>>)}
Arguments == {
  <<Ordinary(<<"u">>), Ordinary(<<"&">>)>>,
  <<Ordinary(<<>>), Raw(<<"%", "2", "6">>)>>,
  <<Ordinary(<<"=">>), Ordinary(<<>>), Raw(<<"u">>), Ordinary(<<"?", "%">>)>>}

(* Every text of up to four letters and delimiters, the empty one too.     *)
ShortLines == UNION {[1..n -> {"u", "&"}] : n \in 0..4}

(* What the theorems about HoldsWhatWasGiven and TokensAreParameters       *)
(* suppose of the texts.                                                   *)
ASSUME TextsAreReadable == Readable
=============================================================================
