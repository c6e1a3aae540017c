------------------------------ MODULE Optional ------------------------------
(***************************************************************************)
(* Optional of src/src/afc/utils.h: objects that each have room for a T,   *)
(* whose constructors and assignments may throw.                           *)
(*                                                                         *)
(* As in FastStringBuffer, X_Y is X with a mistake and part of no          *)
(* specification.                                                          *)
(***************************************************************************)
CONSTANTS
  Optionals,
  MovesEmpty   (* FALSE: what is assigned from has a value.                *)

VARIABLES
  exists,      (* The objects there are.                                   *)
  m_hasValue,  (* Their flags.                                             *)
  lives,       (* There is a T in the room of the object.                  *)
  misused      (* A T was read or destroyed that is not there.             *)

optionalVars == <<exists, m_hasValue, lives, misused>>

OptionalInit ==
  /\ exists = {}
  /\ m_hasValue = [o \in Optionals |-> FALSE]
  /\ lives = [o \in Optionals |-> FALSE]
  /\ misused = FALSE

Becomes(o, value) ==
  /\ exists' = exists \cup {o}
  /\ m_hasValue' = [m_hasValue EXCEPT ![o] = value]
  /\ lives' = [lives EXCEPT ![o] = value]
Uses(there) == misused' = (misused \/ ~there)

(* Of a constructor that throws no object remains. *)
construct(o) ==
  /\ o \notin exists
  /\ Becomes(o, TRUE) \/ UNCHANGED <<exists, m_hasValue, lives>>
  /\ UNCHANGED misused

none(o) == o \notin exists /\ Becomes(o, FALSE) /\ UNCHANGED misused

copyOrMove(o, from) ==
  /\ o \notin exists /\ from \in exists
  /\ \/ Becomes(o, m_hasValue[from])
     \/ m_hasValue[from] /\ UNCHANGED <<exists, m_hasValue, lives>>
  /\ Uses(m_hasValue[from] => lives[from])

(* The assignment or construction in place throws, or not. *)
moveAssign_FlagFirst(o, from) ==
  /\ {o, from} \subseteq exists
  /\ MovesEmpty \/ m_hasValue[from]
  /\ m_hasValue' = [m_hasValue EXCEPT ![o] = TRUE]
  /\ UNCHANGED lives \/ lives' = [lives EXCEPT ![o] = TRUE]
  /\ Uses(lives[from])
  /\ UNCHANGED exists

moveAssign(o, from) ==
  /\ {o, from} \subseteq exists
  /\ MovesEmpty \/ m_hasValue[from]
  /\ \/ UNCHANGED <<m_hasValue, lives>>
     \/ /\ lives' = [lives EXCEPT ![o] = TRUE]
        /\ m_hasValue' = [m_hasValue EXCEPT ![o] = TRUE]
  /\ Uses(lives[from] /\ (m_hasValue[o] => lives[o]))
  /\ UNCHANGED exists

destroy(o) ==
  /\ o \in exists
  /\ exists' = exists \ {o}
  /\ lives' = [lives EXCEPT ![o] = @ /\ ~m_hasValue[o]]
  /\ Uses(m_hasValue[o] => lives[o])
  /\ UNCHANGED m_hasValue

OptionalNext ==
  \E o \in Optionals :
    \/ construct(o) \/ none(o) \/ destroy(o)
    \/ \E from \in Optionals : copyOrMove(o, from) \/ moveAssign(o, from)

OptionalSpec == OptionalInit /\ [][OptionalNext]_optionalVars

(* The flag tells whether there is a T, so that each T is destroyed once   *)
(* and none is read or destroyed that was never constructed, whatever      *)
(* throws on the way (utils.h:76-103).                                     *)
FlagTellsValue ==
  /\ ~misused
  /\ \A o \in Optionals : lives[o] <=> o \in exists /\ m_hasValue[o]
=============================================================================
