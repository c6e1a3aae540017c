---------------------------- MODULE SimpleString ----------------------------
(***************************************************************************)
(* afc::SimpleString<CharType> (src/src/afc/SimpleString.hpp): a string    *)
(* that owns a block of exactly its size and one byte.  String objects     *)
(* share the heap; an action is a whole member function, and a memory      *)
(* request may fail.                                                       *)
(*                                                                         *)
(* As in FastStringBuffer, X_Y is X with a mistake and part of no          *)
(* specification.                                                          *)
(***************************************************************************)
EXTENDS Heap, Sequences

CONSTANTS
  Strings,       (* Objects of the class.                                  *)
  Literals,      (* Texts callers construct and assign strings from.       *)
  MoveOntoOwner  (* TRUE: callers also move-assign onto strings that own   *)
                 (* a block, FALSE (every use in this repository): never.  *)

VARIABLES
  str,      (* str[s]: the fields of object s.                             *)
  made,     (* The objects that are constructed.                           *)
  given,    (* Blocks detach() handed to the caller.                       *)
  exc,      (* How the last call ended: "none", "bad_alloc", ...           *)
  asserted  (* No assertion of a member function failed so far.            *)

stringVars == <<str, made, asserted>>
svars == <<heap, mem, given, exc, stringVars>>

Null == [m_str |-> NULL, m_size |-> 0]

StringsInit == /\ str = [s \in Strings |-> Null]
               /\ made = {}
               /\ asserted = TRUE

Text(s) == [i \in 1..str[s].m_size |-> mem[str[s].m_str][i - 1]]

(***************************************************************************)
(* Storage.                                                                *)
(***************************************************************************)
bytesFor_NoTerminator(size) == IF size = 0 THEN 1 ELSE Wrap(size * CharSize)
bytesFor(size) == Wrap(size * CharSize + 1)

Holding(txt) == [i \in 0..SizeMax |-> IF i < Len(txt) THEN txt[i + 1] ELSE Garbage]

(* new = malloc(bytesFor(txt)), the text is copied to it, old is freed.    *)
replaceBlock(old, txt, new) ==
  /\ bytesFor(Len(txt)) <= MaxAlloc
  /\ new \in Blocks /\ heap[new] = 0
  /\ heap' = [y \in Blocks |-> IF y = new THEN bytesFor(Len(txt))
                               ELSE IF y = old THEN 0 ELSE heap[y]]
  /\ mem' = [y \in Blocks |-> IF y = new THEN Holding(txt)
                              ELSE IF y = old THEN Unwritten ELSE mem[y]]

Fields(ptr, size) == [m_str |-> ptr, m_size |-> size]

StringThrows == /\ exc' = "bad_alloc"
                /\ UNCHANGED <<heap, mem, given, str, made>>

(***************************************************************************)
(* Construction and destruction.                                           *)
(***************************************************************************)
construct(s) ==
  /\ s \notin made
  /\ made' = made \cup {s}
  /\ str' = [str EXCEPT ![s] = Null]
  /\ exc' = "none"
  /\ UNCHANGED <<heap, mem, given, asserted>>

(* From characters: they may be those of another string. *)
constructFrom(s, txt) ==
  /\ s \notin made
  /\ UNCHANGED asserted
  /\ \/ \E new \in Blocks :
          /\ replaceBlock(NULL, txt, new)
          /\ str' = [str EXCEPT ![s] = Fields(new, Len(txt))]
          /\ made' = made \cup {s}
          /\ exc' = "none"
          /\ UNCHANGED given
     \/ StringThrows

copyConstruct_Shares(s, o) ==
  /\ s \notin made /\ o \in made
  /\ str' = [str EXCEPT ![s] = str[o]]
  /\ made' = made \cup {s}
  /\ exc' = "none"
  /\ UNCHANGED <<heap, mem, given, asserted>>

copyConstruct(s, o) ==
  /\ o \in made
  /\ IF str[o].m_size = 0 THEN construct(s) ELSE constructFrom(s, Text(o))

(* The move constructor and SimpleString::move(SimpleString &). *)
moveConstruct_KeepsSize(s, o) ==
  /\ s \notin made /\ o \in made
  /\ str' = [str EXCEPT ![s] = Fields(str[o].m_str, 0), ![o] = Null]
  /\ made' = made \cup {s}
  /\ exc' = "none"
  /\ UNCHANGED <<heap, mem, given, asserted>>

moveConstruct(s, o) ==
  /\ s \notin made /\ o \in made
  /\ str' = [str EXCEPT ![s] = str[o], ![o] = Null]
  /\ made' = made \cup {s}
  /\ exc' = "none"
  /\ UNCHANGED <<heap, mem, given, asserted>>

destroy(s) ==
  /\ s \in made
  /\ free(str[s].m_str)
  /\ str' = [str EXCEPT ![s] = Null]
  /\ made' = made \ {s}
  /\ exc' = "none"
  /\ UNCHANGED <<given, asserted>>

(***************************************************************************)
(* Assignment.                                                             *)
(***************************************************************************)
(* Every assign copies before it frees, so the characters may be its own.  *)
(* An Iterator that throws has the effect of a failed malloc.              *)
assign_FreesFirst(s, txt) ==
  /\ s \in made
  /\ \/ \E new \in Blocks :
          /\ replaceBlock(str[s].m_str, txt, new)
          /\ str' = [str EXCEPT ![s] = Fields(new, Len(txt))]
          /\ exc' = "none"
          /\ UNCHANGED <<given, made>>
     \/ /\ free(str[s].m_str)
        /\ str' = [str EXCEPT ![s] = Null]
        /\ exc' = "bad_alloc"
        /\ UNCHANGED <<given, made>>

assign(s, txt) ==
  /\ s \in made
  /\ \/ \E new \in Blocks :
          /\ replaceBlock(str[s].m_str, txt, new)
          /\ str' = [str EXCEPT ![s] = Fields(new, Len(txt))]
          /\ exc' = "none"
          /\ UNCHANGED <<given, made>>
     \/ StringThrows

assignText(s, txt) == assign(s, txt) /\ UNCHANGED asserted

(* operator=(const SimpleString &) hands str.m_str to assign, whose assert *)
(* it fails when str is empty; a release build copies nothing from it.     *)
copyAssign(s, o) ==
  /\ o \in made
  /\ asserted' = (asserted /\ str[o].m_str # NULL)
  /\ assign(s, Text(o))

(* operator=(SimpleString &&) forgets the block of s. *)
moveAssign(s, o) ==
  /\ s \in made /\ o \in made
  /\ MoveOntoOwner \/ str[s].m_str = NULL
  /\ str' = [str EXCEPT ![s] = str[o], ![o] = Null]
  /\ exc' = "none"
  /\ UNCHANGED <<heap, mem, given, made, asserted>>

(* attach(x, n): x is the caller's, with room for n characters and the     *)
(* terminator.                                                             *)
attach(s, x, n) ==
  /\ s \in made /\ x \in given
  /\ (n + 1) * CharSize <= heap[x]
  /\ free(str[s].m_str)
  /\ str' = [str EXCEPT ![s] = Fields(x, n)]
  /\ given' = given \ {x}
  /\ exc' = "none"
  /\ UNCHANGED <<made, asserted>>

detach_KeepsBlock(s) ==
  /\ s \in made
  /\ given' = given \cup ({str[s].m_str} \ {NULL})
  /\ str' = [str EXCEPT ![s].m_size = 0]
  /\ exc' = "none"
  /\ UNCHANGED <<heap, mem, made, asserted>>

detach(s) ==
  /\ s \in made
  /\ given' = given \cup ({str[s].m_str} \ {NULL})
  /\ str' = [str EXCEPT ![s] = Null]
  /\ exc' = "none"
  /\ UNCHANGED <<heap, mem, made, asserted>>

clear(s) ==
  /\ s \in made
  /\ free(str[s].m_str)
  /\ str' = [str EXCEPT ![s] = Null]
  /\ exc' = "none"
  /\ UNCHANGED <<given, made, asserted>>

(* c_str() writes the terminator behind the text. *)
c_str(s) ==
  /\ s \in made
  /\ mem' = IF str[s].m_str = NULL THEN mem
            ELSE [mem EXCEPT ![str[s].m_str][str[s].m_size] = Nul]
  /\ exc' = "none"
  /\ UNCHANGED <<heap, given, stringVars>>

(* Parts of what a string holds, as callers pass them back to a string. *)
Parts(o) == {SubSeq(Text(o), i, j) : i, j \in 1..str[o].m_size}

StringsNext ==
  \/ \E s \in Strings :
       \/ construct(s) \/ destroy(s)
       \/ \E txt \in Literals : constructFrom(s, txt) \/ assignText(s, txt)
       \/ \E o \in Strings :
            \/ copyConstruct(s, o) \/ moveConstruct(s, o)
            \/ copyAssign(s, o) \/ moveAssign(s, o)
            \/ o \in made /\ \E txt \in Parts(o) : constructFrom(s, txt) \/ assignText(s, txt)
       \/ \E x \in given : \E n \in 0..(heap[x] \div CharSize - 1) : attach(s, x, n)
       \/ detach(s) \/ clear(s) \/ c_str(s)

(***************************************************************************)
(* Properties.                                                             *)
(***************************************************************************)
(* c_str() writes the terminator within the block.                         *)
TerminatorFits ==
  \A s \in made : str[s].m_str # NULL =>
    (str[s].m_size + 1) * CharSize <= heap[str[s].m_str]

(* assert(str != nullptr) of assign() holds in every call. *)
AssertionsHold == asserted
=============================================================================
