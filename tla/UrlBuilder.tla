----------------------------- MODULE UrlBuilder -----------------------------
(***************************************************************************)
(* afc::url::UrlBuilder<queryFormat> (src/src/afc/UrlBuilder.hpp): builds  *)
(* a URL or a query string in a FastStringBuffer.  Every member function   *)
(* reserves what maxEncodedSize estimates and then appends without a       *)
(* check.  An action is a whole member function; a reservation may fail.   *)
(*                                                                         *)
(* Of the buffer only its text and its capacity matter here, and of        *)
(* reserve(n) that the capacity is n at least: the module takes n, where   *)
(* an estimate that is too small shows.                                    *)
(*                                                                         *)
(* As in FastStringBuffer, X_Y is X with a mistake and part of no          *)
(* specification.                                                          *)
(***************************************************************************)
EXTENDS Texts

CONSTANTS
  Builders,        (* Objects.                                             *)
  Format,          (* Format[b]: queryFormat, "plain" or "webForm".        *)
  Bases, NoBase,   (* Values of urlBase; NoBase stands for queryOnly.      *)
  PlainParts,      (* Parts given to query().                              *)
  ParamLists,      (* Arguments of params(): sequences <<name, value, ...>>*)
  Unreserved,      (* Characters that need no escaping.                    *)
  octetToHex,      (* octetToHex[c]: the two digits of any other character.*)
  minBufCapacity,
  MaxSize          (* Length of the texts.  Bounds the model.              *)

Characters == Unreserved \cup DOMAIN octetToHex
(* UrlPart: encoded when it is appended (ordinary) or appended as it is.   *)
Part == [type : {"ordinary", "raw"}, value : Seq(Characters)]

ASSUME UrlAssumption ==
  /\ Format \in [Builders -> {"plain", "webForm"}]
  /\ {"%", "?", "&", "="} \subseteq DOMAIN octetToHex
  /\ Unreserved \cap DOMAIN octetToHex = {}
  /\ \A c, d \in DOMAIN octetToHex : octetToHex[c] = octetToHex[d] => c = d
  /\ \A c \in DOMAIN octetToHex : octetToHex[c] \in Unreserved \X Unreserved
  /\ Bases \subseteq Seq(Characters) /\ NoBase \notin Bases
  /\ PlainParts \subseteq Part
  /\ \A parts \in ParamLists : parts \in Seq(Part) /\ parts # <<>> /\ Len(parts) % 2 = 0
  /\ minBufCapacity \in Nat

VARIABLES
  status,       (* status[b]: "none", "live" or, when it was moved from,   *)
                (* "moved": then it is destroyed or assigned to.           *)
  m_buf,        (* m_buf[b]: [text, capacity].                             *)
  m_queryState,
  exc,          (* How the last call ended: "none" or "bad_alloc".         *)
  given         (* given[b]: the base and the parameters callers gave the  *)
                (* URL in b so far; no variable of the program.            *)

fields == <<status, m_buf, m_queryState>>
builders == <<fields, exc, given>>

Empty == [text |-> <<>>, capacity |-> 0]
Url(base, params) == [base |-> base, params |-> params]

BuilderInit == /\ status = [b \in Builders |-> "none"]
               /\ m_buf = [b \in Builders |-> Empty]
               /\ m_queryState = [b \in Builders |-> "queryEmptyUrl"]
               /\ exc = "none"
               /\ given = [b \in Builders |-> Url(NoBase, <<>>)]

(***************************************************************************)
(* Parts.                                                                  *)
(***************************************************************************)
appendUrlEncoded_UnescapedSpecials(value) ==
  FlattenSeq([i \in 1..Len(value) |->
    IF value[i] \in Unreserved \cup {"&", "="} THEN <<value[i]>>
    ELSE <<"%">> \o octetToHex[value[i]]])

appendUrlEncoded(value) ==
  FlattenSeq([i \in 1..Len(value) |->
    IF value[i] \in Unreserved THEN <<value[i]>>
    ELSE <<"%">> \o octetToHex[value[i]]])

appendTo(part) ==
  IF part.type = "raw" THEN part.value ELSE appendUrlEncoded(part.value)

partSize(part) ==
  IF part.type = "raw" THEN Len(part.value) ELSE 3 * Len(part.value)

(* One of "?", "&", "=" is counted for each part but the first of a query  *)
(* string.                                                                 *)
maxEncodedSize_NoSeparators(mode, parts) ==
  LET size[i \in 0..Len(parts)] == IF i = 0 THEN 0 ELSE size[i - 1] + partSize(parts[i])
  IN  size[Len(parts)]

maxEncodedSize(mode, parts) ==
  LET size[i \in 0..Len(parts)] ==
        IF i = 0 THEN IF mode = "queryString" THEN -1 ELSE 0
        ELSE size[i - 1] + partSize(parts[i]) + 1
  IN  size[Len(parts)]

(* What stands in front of the first part. *)
separator_QuestionMark(mode, state) ==
  CASE mode = "queryString" -> <<>>
    [] mode = "unknown" /\ state = "queryEmptyQueryString" -> <<>>
    [] OTHER -> <<"?">>

separator(mode, state) ==
  CASE mode = "queryString" -> <<>>
    [] mode = "unknown" /\ state = "queryEmptyQueryString" -> <<>>
    [] mode = "unknown" /\ state = "queryNonEmpty" -> <<"&">>
    [] OTHER -> <<"?">>

(* The parts behind the first follow "=" (values) and "&" (names). *)
appendParams(parts) ==
  FlattenSeq([i \in 1..Len(parts) |->
    (IF i = 1 THEN <<>> ELSE IF i % 2 = 0 THEN <<"=">> ELSE <<"&">>) \o appendTo(parts[i])])

(***************************************************************************)
(* Construction, moves and destruction.                                    *)
(***************************************************************************)
Parts(b) == IF Format[b] = "plain" THEN {<<part>> : part \in PlainParts} ELSE ParamLists

BaseText(base) == IF base = NoBase THEN <<>> ELSE base
FirstMode(base) == IF base = NoBase THEN "queryString" ELSE "urlFirst"

Throws == exc' = "bad_alloc" /\ UNCHANGED <<fields, given>>

(* What the caller means by a part: a raw one is encoded already. *)
Meaning(text) == Unescaped(text, octetToHex)
Meant(part) == IF part.type = "raw" THEN Meaning(part.value) ELSE part.value
MeantBy(b, parts) ==
  IF Format[b] = "plain" THEN <<Meant(parts[1])>>
  ELSE [i \in 1..(Len(parts) \div 2) |-> <<Meant(parts[2 * i - 1]), Meant(parts[2 * i])>>]

(* Object b holds this text, with room for size characters. *)
Holds(b, text, size, state) ==
  /\ Len(text) <= MaxSize
  /\ status' = [status EXCEPT ![b] = "live"]
  /\ m_buf' = [m_buf EXCEPT ![b] = [text |-> text, capacity |-> Max({@.capacity, size})]]
  /\ m_queryState' = [m_queryState EXCEPT ![b] = state]
  /\ exc' = "none"

construct(b, base) ==
  /\ status[b] = "none"
  /\ \/ /\ Holds(b, BaseText(base), Max({minBufCapacity, Len(BaseText(base))}),
                 IF base = NoBase THEN "queryEmptyQueryString" ELSE "queryEmptyUrl")
        /\ given' = [given EXCEPT ![b] = Url(base, <<>>)]
     \/ Throws

constructWith(b, base, parts) ==
  /\ status[b] = "none"
  /\ LET mode == FirstMode(base)
         text == BaseText(base)
     IN  \/ /\ Holds(b, text \o separator(mode, "queryEmptyUrl") \o appendParams(parts),
                     Max({minBufCapacity, Len(text) + maxEncodedSize(mode, parts)}),
                     "queryNonEmpty")
            /\ given' = [given EXCEPT ![b] = Url(base, MeantBy(b, parts))]
         \/ Throws

moveConstruct(b, o) ==
  /\ status[b] = "none" /\ status[o] = "live" /\ Format[b] = Format[o]
  /\ status' = [status EXCEPT ![b] = "live", ![o] = "moved"]
  /\ m_buf' = [m_buf EXCEPT ![b] = m_buf[o], ![o] = Empty]
  /\ m_queryState' = [m_queryState EXCEPT ![b] = m_queryState[o]]
  /\ exc' = "none"
  /\ given' = [given EXCEPT ![b] = given[o], ![o] = Url(NoBase, <<>>)]

(* The buffers are swapped, the state is copied. *)
moveAssign_BufferOnly(b, o) ==
  /\ b # o /\ status[b] # "none" /\ status[o] = "live" /\ Format[b] = Format[o]
  /\ status' = [status EXCEPT ![b] = "live", ![o] = "moved"]
  /\ m_buf' = [m_buf EXCEPT ![b] = m_buf[o], ![o] = m_buf[b]]
  /\ exc' = "none"
  /\ given' = [given EXCEPT ![b] = given[o], ![o] = Url(NoBase, <<>>)]
  /\ UNCHANGED m_queryState

moveAssign(b, o) ==
  /\ b # o /\ status[b] # "none" /\ status[o] = "live" /\ Format[b] = Format[o]
  /\ status' = [status EXCEPT ![b] = "live", ![o] = "moved"]
  /\ m_buf' = [m_buf EXCEPT ![b] = m_buf[o], ![o] = m_buf[b]]
  /\ m_queryState' = [m_queryState EXCEPT ![b] = m_queryState[o]]
  /\ exc' = "none"
  /\ given' = [given EXCEPT ![b] = given[o], ![o] = Url(NoBase, <<>>)]

destroyBuilder(b) ==
  /\ status[b] # "none"
  /\ status' = [status EXCEPT ![b] = "none"]
  /\ m_buf' = [m_buf EXCEPT ![b] = Empty]
  /\ m_queryState' = [m_queryState EXCEPT ![b] = "queryEmptyUrl"]
  /\ exc' = "none"
  /\ given' = [given EXCEPT ![b] = Url(NoBase, <<>>)]

(***************************************************************************)
(* query() and params().                                                   *)
(***************************************************************************)
extend(b, parts) ==
  LET text == m_buf[b].text
      size == Len(text) + maxEncodedSize("unknown", parts)
  IN  \/ /\ Holds(b, text \o separator("unknown", m_queryState[b]) \o appendParams(parts),
                  size, "queryNonEmpty")
         /\ given' = [given EXCEPT ![b].params = @ \o MeantBy(b, parts)]
      \/ size > m_buf[b].capacity /\ Throws

query(b, part) ==
  /\ Format[b] = "plain" /\ status[b] = "live"
  /\ \/ m_queryState[b] = "queryNonEmpty" /\ exc' = "none"
        /\ UNCHANGED <<fields, given>>
     \/ m_queryState[b] # "queryNonEmpty" /\ extend(b, <<part>>)

params(b, parts) ==
  /\ Format[b] = "webForm" /\ status[b] = "live"
  /\ extend(b, parts)

(* What a caller does to b, with any other builder as the source of a move.*)
BuilderNext(b, Others) ==
  \/ \E base \in Bases \cup {NoBase} :
       \/ construct(b, base)
       \/ \E parts \in Parts(b) : constructWith(b, base, parts)
  \/ \E o \in Others : moveConstruct(b, o) \/ moveAssign(b, o)
  \/ destroyBuilder(b)
  \/ \E part \in PlainParts : query(b, part)
  \/ \E parts \in ParamLists : params(b, parts)

(***************************************************************************)
(* Properties.                                                             *)
(***************************************************************************)
(* "It is guaranteed that there is enough capacity for all the             *)
(* parameters": whatever was appended fits what had been reserved for it.  *)
EncodedFits == \A b \in Builders : Len(m_buf[b].text) <= m_buf[b].capacity

(* The text of a URL or a query string, read as a server would read it.    *)
IsUrl(b) == IF m_queryState[b] = "queryNonEmpty" THEN Positions(m_buf[b].text, "?") # {}
            ELSE m_queryState[b] = "queryEmptyUrl"
BaseOf(b) ==
  IF ~IsUrl(b) THEN NoBase
  ELSE IF m_queryState[b] = "queryNonEmpty" THEN Before(m_buf[b].text, "?")
  ELSE m_buf[b].text
QueryText(b) == IF IsUrl(b) THEN Behind(m_buf[b].text, "?") ELSE m_buf[b].text

Parameter(token) == <<Meaning(Before(token, "=")), Meaning(Behind(token, "="))>>
Parameters(b) ==
  IF m_queryState[b] # "queryNonEmpty" THEN <<>>
  ELSE IF Format[b] = "plain" THEN <<Meaning(QueryText(b))>>
  ELSE LET tokens == Tokens(QueryText(b), "&")
       IN  [i \in 1..Len(tokens) |-> Parameter(tokens[i])]

(* What a reader relies on: no text a caller gives as it is holds a        *)
(* separator of the builder's.                                             *)
Plain(text, separators) == \A c \in separators : Positions(text, c) = {}
Readable ==
  /\ \A base \in Bases : Plain(base, {"?"})
  /\ \A part \in PlainParts : part.type = "raw" => Plain(part.value, {"?"})
  /\ \A parts \in ParamLists : \A i \in 1..Len(parts) :
       parts[i].type = "raw" => Plain(parts[i].value, {"?", "&", "="})

(* A text holds the base and the parameters that were given, in order and *)
(* with their values, whatever characters they are made of and through     *)
(* failed calls, moves and assignments.                                    *)
HoldsWhatWasGiven ==
  \A b \in Builders : status[b] = "live" =>
    Url(BaseOf(b), Parameters(b)) = given[b]
=============================================================================
