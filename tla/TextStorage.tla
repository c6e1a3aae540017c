---------------------------- MODULE TextStorage ----------------------------
(***************************************************************************)
(* FastStringBuffer and SimpleString objects that share one heap, with     *)
(* SimpleString::move, which hands the storage of a buffer to a string.    *)
(***************************************************************************)
EXTENDS FastStringBuffer

CONSTANTS Strings, Literals, MoveOntoOwner

(* A literal is a text in memory: it is in the range of size_t with its    *)
(* terminator.                                                             *)
ASSUME LiteralsAssumption ==
  /\ Literals \subseteq Seq(Chars)
  /\ \A txt \in Literals : Len(txt) * CharSize < SizeMax

(* nullptr is not a text.                                                  *)
ASSUME NullAssumption == NULL \notin Seq(Cells)

VARIABLES str, made, asserted

S == INSTANCE SimpleString

stringVars == <<str, made, asserted>>
allVars == <<vars, stringVars>>

StorageInit == Init /\ S!StringsInit

(* SimpleString::move(FastStringBuffer &) constructs s: src.size(), then   *)
(* src.detach().                                                           *)
moveFromBuffer_CapacityAsSize(s, b) ==
  /\ s \notin made
  /\ Usable(b)
  /\ made' = made \cup {s}
  /\ str' = [str EXCEPT ![s] = [m_str |-> buf[b].m_buf, m_size |-> buf[b].m_capacity + 1]]
  /\ buf' = [buf EXCEPT ![b].m_buf = NULL, ![b].m_bufEnd = 0]
  /\ status' = [status EXCEPT ![b] = IF ReuseDetached THEN "live" ELSE "detached"]
  /\ exc' = "none"
  /\ UNCHANGED <<heap, mem, tail, given, asserted>>

moveFromBuffer(s, b) ==
  /\ s \notin made
  /\ Usable(b)
  /\ made' = made \cup {s}
  /\ str' = [str EXCEPT ![s] = [m_str |-> buf[b].m_buf, m_size |-> size(b)]]
  /\ buf' = [buf EXCEPT ![b].m_buf = NULL, ![b].m_bufEnd = 0]
  /\ status' = [status EXCEPT ![b] = IF ReuseDetached THEN "live" ELSE "detached"]
  /\ exc' = "none"
  /\ UNCHANGED <<heap, mem, tail, given, asserted>>

StorageNext ==
  \/ Next /\ UNCHANGED stringVars
  \/ S!StringsNext /\ UNCHANGED <<status, buf, tail>>
  \/ \E s \in Strings, b \in Buffers : moveFromBuffer(s, b)

StorageSpec == StorageInit /\ [][StorageNext]_allVars

(***************************************************************************)
(* Properties.                                                             *)
(***************************************************************************)
OwnedBy(x) == {b \in Buffers : buf[b].m_buf = x}
              \cup {s \in Strings : str[s].m_str = x}
              \cup {g \in given : g = x}

(* Every allocated block has exactly one owner among buffers, strings and  *)
(* the caller, and no object refers to a freed block, through every chain  *)
(* of moves, detach(), attach() and failed requests.                       *)
StorageOwnedOnce ==
  \A x \in Blocks : Cardinality(OwnedBy(x)) = IF heap[x] = 0 THEN 0 ELSE 1

(* c_str() of a string writes its terminator within the block, whichever   *)
(* way the string got it: by copying, from a buffer or from the caller.    *)
TerminatorFits == S!TerminatorFits

(* assert(str != nullptr) of assign() holds in every call.                 *)
AssertionsHold == S!AssertionsHold

(* Strings, like buffers, are as they were after a call that throws.       *)
StringsSurviveFailure ==
  [][exc' # "none" => UNCHANGED <<heap, mem, str, made, given, buf>>]_allVars

(* "Testing strings are unrelated": strings are values, although they pass *)
(* blocks on to each other and get them from buffers and callers.          *)
BlockTexts(x) == {[i \in 1..n |-> mem[x][i - 1]] : n \in 0..heap[x]}
Values == INSTANCE TextValues WITH
  Names <- Strings,
  NoText <- NULL,
  value <- [s \in Strings |-> IF s \in made THEN S!Text(s) ELSE NULL],
  source <- Literals \cup {Text(b) : b \in Buffers} \cup UNION {BlockTexts(x) : x \in given}
StringsAreValues == Values!Spec
=============================================================================
