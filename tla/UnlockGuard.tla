----------------------------- MODULE UnlockGuard -----------------------------
(***************************************************************************)
(* UnlockGuard of src/src/afc/utils.h: threads that share a mutex, and     *)
(* give it up for a scope in the middle of a critical section.  std::mutex *)
(* is external.                                                            *)
(***************************************************************************)
CONSTANTS Users, NoUser

ASSUME UnlockAssumption == NoUser \notin Users

VARIABLES
  m_mutex,     (* Who has locked it.                                       *)
  place        (* Of each thread: "outside", "inside" the critical section,*)
               (* in the "scope" of a guard, "behind" it, or "done".       *)

unlockVars == <<m_mutex, place>>

UnlockInit == m_mutex = NoUser /\ place = [u \in Users |-> "outside"]

Goes(u, from, to) == place[u] = from /\ place' = [place EXCEPT ![u] = to]
lock(u) == m_mutex = NoUser /\ m_mutex' = u
unlock == m_mutex' = NoUser

enter(u) == Goes(u, "outside", "inside") /\ lock(u)

beginGuard(u) == Goes(u, "inside", "scope") /\ unlock

(* The destructor: at the end of the scope, or thrown out of it. *)
endGuard(u) == Goes(u, "scope", "behind") /\ lock(u)

leave(u) ==
  /\ place[u] \in {"inside", "behind"}
  /\ place' = [place EXCEPT ![u] = "done"]
  /\ unlock

UnlockStep(u) == enter(u) \/ beginGuard(u) \/ endGuard(u) \/ leave(u)
UnlockNext == \E u \in Users : UnlockStep(u)

UnlockSpec == UnlockInit /\ [][UnlockNext]_unlockVars

(* A thread that is in its critical section, before the guard or behind    *)
(* it, is alone there and has the mutex, which its caller unlocks in the   *)
(* end (utils.h:63-74).                                                    *)
AloneInside ==
  \A u \in Users : place[u] \in {"inside", "behind"} => m_mutex = u
=============================================================================
