----------------------------- MODULE UrlTokens -----------------------------
(***************************************************************************)
(* URL builders, and a Tokeniser that reads the parameters of one of them  *)
(* or a text of other origin.  While it reads, the builder it refers to is *)
(* left alone.                                                             *)
(***************************************************************************)
EXTENDS UrlBuilder

CONSTANTS
  Delimiter, NoInput, SkipsLast, NoBuilder,
  Lines,     (* Texts of other origin.                                     *)
  MaxInUse   (* Builders and texts of other origin at a time.  Bounds the  *)
             (* model.                                                     *)

ASSUME ReaderAssumption ==
  /\ Delimiter \in Characters /\ NoInput \notin Seq(Characters)
  /\ NoBuilder \notin Builders
  /\ Lines \subseteq Seq(Characters)

VARIABLES
  input, m_curr, m_hasNext, last, taken,
  readFrom   (* The builder that is read; NoBuilder when none is, or a     *)
             (* text of other origin.                                      *)

T == INSTANCE Tokeniser

tokeniser == <<input, m_curr, m_hasNext, last, taken>>
vars == <<builders, tokeniser, readFrom>>

Init == BuilderInit /\ T!TokeniserInit /\ readFrom = NoBuilder

read(b) ==
  /\ Format[b] = "webForm" /\ status[b] = "live" /\ m_queryState[b] = "queryNonEmpty"
  /\ T!construct(QueryText(b))
  /\ readFrom' = b
  /\ UNCHANGED builders

readLine(text) == T!construct(text) /\ UNCHANGED <<builders, readFrom>>

HasRoom == Cardinality({b \in Builders : status[b] # "none"})
           + (IF T!Reading /\ readFrom = NoBuilder THEN 1 ELSE 0) < MaxInUse

Next ==
  \/ \E b \in Builders \ {readFrom} :
       /\ status[b] # "none" \/ HasRoom
       /\ BuilderNext(b, Builders \ {readFrom})
       /\ UNCHANGED <<tokeniser, readFrom>>
  \/ \E b \in Builders : read(b)
  \/ HasRoom /\ \E text \in Lines : readLine(text)
  \/ T!destroy /\ readFrom' = NoBuilder /\ UNCHANGED builders
  \/ (T!next \/ T!skip \/ T!refused) /\ UNCHANGED <<builders, readFrom>>

Spec == Init /\ [][Next]_vars

(***************************************************************************)
(* Properties.                                                             *)
(***************************************************************************)
ImplementsTokenList == T!ImplementsTokenList
RefusesAtTheEnd == T!RefusesAtTheEnd

(* The token next() returns is the parameter the builder was given at that *)
(* place.                                                                  *)
TokensAreParameters ==
  readFrom # NoBuilder /\ last # <<>> => Parameter(last[1]) = given[readFrom].params[taken]
=============================================================================
