------------------------------- MODULE MCLibrary -------------------------------
(***************************************************************************)
(* Instances of the components of Library.                                 *)
(***************************************************************************)
EXTENDS Library, MCDateUtil

(***************************************************************************)
(* Documents for Json: texts of every structure, each also cut short at    *)
(* every place, with one character more, one less or another one.          *)
(***************************************************************************)
number == [kind |-> "number"]
boolean == [kind |-> "boolean"]
string == [kind |-> "string"]
array(s) == [kind |-> "array", of |-> s]
property(n, s) == [name |-> n, value |-> s]
object(ps) == [kind |-> "object", properties |-> ps]

Q == "\""
B == "\\"

doc(forward, expected, characters) ==
  [forward |-> forward, schema |-> expected, text |-> characters]

Samples ==
  {doc(TRUE, number, <<" ", "1", "2", " ">>),
   doc(TRUE, boolean, <<" ", "t", "r", "u", "e">>),
   doc(TRUE, boolean, <<"f", "a", "l", "s", "e", " ">>),
   doc(FALSE, string, <<" ", Q, "a", B, "n", B, Q, Q, " ">>),
   doc(TRUE, array(number), <<"[", " ", "]">>),
   doc(TRUE, array(number), <<"[", "1", " ", ",", " ", "2", "]">>),
   doc(TRUE, array(array(boolean)), <<"[", "[", "]", ",", "[", "t", "r", "u", "e", "]", "]">>),
   doc(FALSE, array(string), <<" ", "[", Q, "a", Q, ",", Q, Q, "]", " ">>),
   doc(TRUE, object(<<>>), <<" ", "{", "}", " ">>),
   doc(FALSE, object(<<property(<<"a">>, number)>>),
       <<"{", " ", Q, "a", Q, " ", ":", " ", "1", "}">>),
   doc(FALSE, object(<<property(<<>>, boolean), property(<<"a", "b">>, number)>>),
       <<"{", Q, Q, ":", "t", "r", "u", "e", " ", ",", " ", Q, "a", "b", Q, ":", "1", " ", "}">>),
   doc(FALSE, array(object(<<property(<<"a">>, array(number))>>)),
       <<"[", "{", Q, "a", Q, ":", "[", "1", "]", "}", "]">>)}

Alphabet == {" ", Q, B, "u", "1", "t", "a", ",", ":", "]", "}", "["}

Cut(t) == {SubSeq(t, 1, n) : n \in 0..Len(t)}
Shorter(t) == {SubSeq(t, 1, n - 1) \o SubSeq(t, n + 1, Len(t)) : n \in 1..Len(t)}
Longer(t) == {SubSeq(t, 1, n) \o <<c>> \o SubSeq(t, n + 1, Len(t)) : n \in 0..Len(t), c \in Alphabet}
Changed(t) == {[t EXCEPT ![n] = c] : n \in 1..Len(t), c \in Alphabet}

MCDocuments ==
  UNION {{[d EXCEPT !.text = t] :
            t \in Cut(d.text) \cup Shorter(d.text) \cup Longer(d.text) \cup Changed(d.text)} :
         d \in Samples}

(***************************************************************************)
(* Octets: a stream that reaches behind two chunks of eight, one where all *)
(* bits are set; texts of six kinds of characters.                         *)
(***************************************************************************)
MCCrcStreams == {[k \in 1..19 |-> {p \in 0..7 : ((37 * k * k + 91) \div 2^p) % 2 = 1}],
                 [k \in 1..9 |-> 0..7]}
MCCrcPlatforms == {[order |-> "LE", sizeBits |-> 64, maxAlign |-> 16],
                   [order |-> "BE", sizeBits |-> 64, maxAlign |-> 16],
                   [order |-> "LE", sizeBits |-> 32, maxAlign |-> 8]}
MCBase64Sources == UNION {[1..n -> {0, 3, 90, 165, 255}] : n \in 0..5}

MCCodePoints == {65, 233, 55295, 57344, 65536, 1114111}
MCUtf8 == [c \in MCCodePoints |->
             CASE c < 128 -> 1 [] c < 2048 -> 2 [] c < 65536 -> 3 [] OTHER -> 4]
MCLatin1 == [c \in {65, 233} |-> 1]
MCWide == [c \in MCCodePoints |-> IF c < 65536 THEN 8 ELSE 9]
MCEncodings == {MCUtf8, MCLatin1, MCWide}

(***************************************************************************)
(* Search spaces with every function into the values.                      *)
(***************************************************************************)
SpacesOf(lower, upper, values) ==
  LET states == {s \in [DOMAIN lower -> 0..3] : \A d \in DOMAIN lower : s[d] \in lower[d]..upper[d]}
  IN  [lower : {lower}, upper : {upper}, value : [states -> values]]
MCSpaces == SpacesOf(<<0, 0>>, <<1, 2>>, 0..1) \cup SpacesOf(<<0>>, <<2>>, 0..2)
            \cup SpacesOf(<<1, 0, 2>>, <<2, 1, 3>>, 0..1)
=============================================================================
