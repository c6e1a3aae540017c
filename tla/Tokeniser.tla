----------------------------- MODULE Tokeniser -----------------------------
(***************************************************************************)
(* afc::Tokeniser<CharType, Iterator> (src/src/afc/Tokeniser.hpp): reads   *)
(* the parts of a text between delimiters.  The text is not copied: the    *)
(* iterators refer to storage of the caller, who leaves it alone meanwhile.*)
(*                                                                         *)
(* As in FastStringBuffer, X_Y is X with a mistake and part of no          *)
(* specification.                                                          *)
(***************************************************************************)
EXTENDS Texts

CONSTANTS
  Delimiter,  (* m_delimiter                                               *)
  NoInput,    (* There is no Tokeniser.                                    *)
  SkipsLast   (* TRUE: callers also skip the last token.                   *)

VARIABLES
  input,      (* The characters from begin to m_end.                       *)
  m_curr,     (* Iterators are indices of input, m_end is Len(input) + 1.  *)
  m_hasNext,
  last,       (* <<token>> after a next() that returned it, else <<>>.     *)
  taken       (* Tokens that were returned or skipped.                     *)

tokeniser == <<input, m_curr, m_hasNext, last, taken>>

TokeniserInit == /\ input = NoInput /\ m_curr = 0 /\ m_hasNext = FALSE
                 /\ last = <<>> /\ taken = 0

Reading == input # NoInput
m_end == Len(input) + 1
find(from) == Min({i \in from..Len(input) : input[i] = Delimiter} \cup {m_end})

construct(text) ==
  /\ ~Reading
  /\ input' = text /\ m_curr' = 1 /\ m_hasNext' = TRUE
  /\ last' = <<>> /\ taken' = 0

destroy ==
  /\ Reading
  /\ input' = NoInput /\ m_curr' = 0 /\ m_hasNext' = FALSE
  /\ last' = <<>> /\ taken' = 0

(* Both overloads of next(). *)
next_LosesEmptyLast ==
  /\ Reading /\ m_hasNext
  /\ LET r == find(m_curr) IN
     /\ last' = <<SubSeq(input, m_curr, r - 1)>>
     /\ \/ r < Len(input) /\ m_curr' = r + 1 /\ UNCHANGED m_hasNext
        \/ r >= Len(input) /\ m_hasNext' = FALSE /\ UNCHANGED m_curr
  /\ taken' = taken + 1
  /\ UNCHANGED input

next ==
  /\ Reading /\ m_hasNext
  /\ LET r == find(m_curr) IN
     /\ last' = <<SubSeq(input, m_curr, r - 1)>>
     /\ \/ r # m_end /\ m_curr' = r + 1 /\ UNCHANGED m_hasNext
        \/ r = m_end /\ m_hasNext' = FALSE /\ UNCHANGED m_curr
  /\ taken' = taken + 1
  /\ UNCHANGED input

(* skip(); skip(n) is n of these.  m_hasNext keeps its value. *)
skip ==
  /\ Reading /\ m_hasNext
  /\ SkipsLast \/ find(m_curr) # m_end
  /\ m_curr' = (IF find(m_curr) # m_end THEN find(m_curr) + 1 ELSE m_end)
  /\ last' = <<>>
  /\ taken' = taken + 1
  /\ UNCHANGED <<input, m_hasNext>>

(* next() and skip() throw an Exception. *)
refused ==
  /\ Reading /\ ~m_hasNext
  /\ last' = <<>>
  /\ UNCHANGED <<input, m_curr, m_hasNext, taken>>

(***************************************************************************)
(* Properties.                                                             *)
(***************************************************************************)
(* Each token is handed out once, in order, empty ones and the last one    *)
(* included; then next() and skip() refuse.                                *)
List == INSTANCE TokenList WITH
  NoSource <- NoInput,
  source <- input,
  rest <- IF m_hasNext THEN Tokens(Without(input, m_curr - 1), Delimiter) ELSE <<>>
ImplementsTokenList == List!Spec

(* "Tokeniser::skip is called when it has not more tokens" (and next()     *)
(* likewise): a tokeniser does not hand out or skip more tokens than there *)
(* are.                                                                    *)
RefusesAtTheEnd == Reading => taken <= Len(Tokens(input, Delimiter))
=============================================================================
