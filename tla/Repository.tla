----------------------------- MODULE Repository -----------------------------
(***************************************************************************)
(* Repository of src/src/afc/Repository.h: a set of pointers to values it  *)
(* has copied, and the references that callers keep to them.  A request    *)
(* for storage may fail.                                                   *)
(*                                                                         *)
(* As in FastStringBuffer, X_Y is X with a mistake and part of no          *)
(* specification.                                                          *)
(***************************************************************************)
EXTENDS Integers

CONSTANTS
  Keys,        (* The values that callers ask for, up to equivalence.      *)
  Entries,     (* Blocks for copies.  Bounds the model.                    *)
  NoKey, NoEntry

ASSUME RepositoryAssumption == NoKey \notin Keys /\ NoEntry \notin Entries

VARIABLES
  allocated,   (* The key that each block is a copy of, or NoKey.          *)
  m_values,
  entry,       (* The auto_ptr of get().                                   *)
  references   (* What get() returned for a key that is still in use.      *)

repositoryVars == <<allocated, m_values, entry, references>>

RepositoryInit ==
  /\ allocated = [p \in Entries |-> NoKey]
  /\ m_values = {} /\ entry = NoEntry
  /\ references = [k \in Keys |-> NoEntry]

Find(k) == {p \in m_values : allocated[p] = k}
Deleted(ps) == [p \in Entries |-> IF p \in ps THEN NoKey ELSE allocated[p]]

(***************************************************************************)
(* get(), up to `new` and from there on; remove() and clear().             *)
(***************************************************************************)
getFound(k) ==
  /\ entry = NoEntry /\ Find(k) # {}
  /\ \E p \in Find(k) : references' = [references EXCEPT ![k] = p]
  /\ UNCHANGED <<allocated, m_values, entry>>

getCopies(k) ==
  /\ entry = NoEntry /\ Find(k) = {}
  /\ \E p \in Entries :
       /\ allocated[p] = NoKey
       /\ allocated' = [allocated EXCEPT ![p] = k]
       /\ entry' = p
  /\ UNCHANGED <<m_values, references>>

getInserts ==
  /\ entry # NoEntry
  /\ m_values' = m_values \cup {entry}
  /\ references' = [references EXCEPT ![allocated[entry]] = entry]
  /\ entry' = NoEntry
  /\ UNCHANGED allocated

(* insert() throws; the auto_ptr deletes the copy. *)
getFails_Releases ==
  /\ entry # NoEntry
  /\ entry' = NoEntry
  /\ UNCHANGED <<allocated, m_values, references>>

getFails ==
  /\ entry # NoEntry
  /\ allocated' = Deleted({entry})
  /\ entry' = NoEntry
  /\ UNCHANGED <<m_values, references>>

remove(k) ==
  /\ entry = NoEntry
  /\ allocated' = Deleted(Find(k))
  /\ m_values' = m_values \ Find(k)
  /\ references' = [references EXCEPT ![k] = NoEntry]
  /\ UNCHANGED entry

clear ==
  /\ entry = NoEntry
  /\ allocated' = Deleted(m_values)
  /\ m_values' = {}
  /\ references' = [k \in Keys |-> NoEntry]
  /\ UNCHANGED entry

RepositoryNext ==
  \/ \E k \in Keys : getFound(k) \/ getCopies(k) \/ remove(k)
  \/ getInserts \/ getFails \/ clear

RepositorySpec == RepositoryInit /\ [][RepositoryNext]_repositoryVars

(***************************************************************************)
(* Properties.                                                             *)
(***************************************************************************)
RepositoryTypeOK ==
  /\ allocated \in [Entries -> Keys \cup {NoKey}]
  /\ m_values \subseteq Entries
  /\ entry \in Entries \cup {NoEntry}
  /\ references \in [Keys -> Entries \cup {NoEntry}]

(* Every copy has one owner, the set or the auto_ptr, and is freed by it.  *)
CopiesOwned ==
  /\ entry \notin m_values
  /\ \A p \in Entries : allocated[p] # NoKey <=> p \in m_values \/ p = entry

(* A value is copied once, also if an insertion has failed before.         *)
OneCopyEach ==
  \A p, q \in Entries : allocated[p] = allocated[q] /\ allocated[p] # NoKey => p = q

(* A reference stays good until its value is removed.                      *)
ReferencesGood ==
  \A k \in Keys : references[k] # NoEntry =>
    references[k] \in m_values /\ allocated[references[k]] = k

(* What callers may rely on while storage fails, values come and go, and   *)
(* others keep references: two equal values have the same address          *)
(* (Repository.h:57-82).                                                   *)
RepositoryHolds == CopiesOwned /\ OneCopyEach /\ ReferencesGood
=============================================================================
