------------------------------- MODULE Search -------------------------------
(***************************************************************************)
(* ExhaustiveSearch and RandomStartHillClimbing of                         *)
(* src/src/afc/algo/search_algorithm_impl.icpp on a SearchSpace of the     *)
(* caller: bounds of each dimension, and the value of each state.  rand()  *)
(* may return anything.                                                    *)
(*                                                                         *)
(* As in FastStringBuffer, X_Y is X with a mistake and part of no          *)
(* specification.                                                          *)
(***************************************************************************)
EXTENDS Integers, Sequences, FiniteSets

CONSTANTS
  Spaces,         (* [lower, upper, value], value on all states between.   *)
  AttemptCounts, StepCounts, (* m_attemptCount, m_maxSteps: bound the      *)
                  (* climbs.                                               *)
  Outside,        (* What the caller's function may give for a state       *)
                  (* outside of its space.                                 *)
  SearchDefects   (* FALSE: no exhaustive search of one dimension, which   *)
                  (* does not end, and no climbing where a lower bound is  *)
                  (* not zero, which starts outside of the space.          *)

(* Every state between the bounds. *)
StatesOf(sp) ==
  {s \in [DOMAIN sp.lower -> UNION {sp.lower[d]..sp.upper[d] : d \in DOMAIN sp.lower}] :
     \A d \in DOMAIN sp.lower : s[d] \in sp.lower[d]..sp.upper[d]}

ASSUME SearchAssumption ==
  /\ \A sp \in Spaces :
       /\ sp.lower \in Seq(Int) /\ sp.upper \in Seq(Int)
       /\ Len(sp.lower) > 0 /\ Len(sp.upper) = Len(sp.lower)
       /\ \A d \in DOMAIN sp.lower : sp.lower[d] <= sp.upper[d]
       /\ sp.value \in [StatesOf(sp) -> Int]
  /\ AttemptCounts \subseteq Nat /\ StepCounts \subseteq Nat

VARIABLES
  algorithm, space, attemptCount, maxSteps,
  state,          (* Of the search, as the next two.                       *)
  result, bestValue,
  newValue,       (* The climb's value of state.                           *)
  attempt, step,  (* i and step of the climb's loops.                      *)
  ended,          (* The states in which attempts ended; no variable of    *)
                  (* the program.                                          *)
  searchPc

searchInput == <<algorithm, space, attemptCount, maxSteps>>
searchVars == <<searchInput, state, result, bestValue, newValue, attempt, step, ended, searchPc>>

Dimensions == DOMAIN space.lower
InSpace(s) ==
  /\ DOMAIN s = Dimensions
  /\ \A d \in Dimensions : s[d] \in space.lower[d]..space.upper[d]
Undefined == -1 \* Of an uninitialised F.

SearchInputs ==
  {in \in [algorithm : {"ExhaustiveSearch"}, space : Spaces, attempts : {0}, steps : {0}]
          \cup [algorithm : {"RandomStartHillClimbing"}, space : Spaces,
                attempts : AttemptCounts, steps : StepCounts] :
     SearchDefects \/ IF in.algorithm = "ExhaustiveSearch" THEN Len(in.space.lower) > 1
                      ELSE \A d \in DOMAIN in.space.lower : in.space.lower[d] = 0}

SearchStart(in) ==
  /\ algorithm = in.algorithm /\ space = in.space
  /\ attemptCount = in.attempts /\ maxSteps = in.steps
  /\ state = <<>> /\ result = <<>> /\ bestValue = Undefined /\ newValue = Undefined
  /\ attempt = 0 /\ step = 0 /\ ended = {} /\ searchPc = "begin"

(***************************************************************************)
(* ExhaustiveSearch.                                                       *)
(***************************************************************************)
exhaust ==
  /\ algorithm = "ExhaustiveSearch" /\ searchPc = "begin"
  /\ state' = space.lower /\ result' = space.lower
  /\ bestValue' = space.value[space.lower]
  /\ searchPc' = "row"
  /\ UNCHANGED <<searchInput, ended, newValue, attempt, step>>

(* All values of the first dimension: the first of the best, if it is      *)
(* better than what is known.                                              *)
searchRow ==
  /\ searchPc = "row"
  /\ LET row(x) == [state EXCEPT ![1] = x]
         values == space.lower[1]..space.upper[1]
         best == CHOOSE x \in values :
                   /\ \A y \in values : space.value[row(y)] <= space.value[row(x)]
                   /\ \A y \in values : y < x => space.value[row(y)] < space.value[row(x)]
     IN  /\ state' = row(space.upper[1])
         /\ IF space.value[row(best)] > bestValue
            THEN bestValue' = space.value[row(best)] /\ result' = row(best)
            ELSE UNCHANGED <<bestValue, result>>
  /\ searchPc' = "carry"
  /\ UNCHANGED <<searchInput, ended, newValue, attempt, step>>

(* The other dimensions are counted like digits, the second one first; the *)
(* search ends when the last one cannot be.  Where the first one is the    *)
(* last, nothing ends it.                                                  *)
carry_NoReset ==
  /\ searchPc = "carry"
  /\ LET below == {d \in Dimensions \ {1} : state[d] # space.upper[d]}
     IN  IF below = {} THEN searchPc' = "returned" /\ UNCHANGED state
         ELSE LET d == CHOOSE x \in below : \A y \in below : x <= y
              IN  searchPc' = "row" /\ state' = [state EXCEPT ![d] = @ + 1]
  /\ UNCHANGED <<searchInput, ended, result, bestValue, newValue, attempt, step>>

carry_StartsAgain ==
  /\ searchPc = "carry"
  /\ LET below == {d \in Dimensions \ {1} : state[d] # space.upper[d]}
     IN  IF below = {} THEN state' = space.lower
         ELSE LET d == CHOOSE x \in below : \A y \in below : x <= y
              IN  state' = [e \in Dimensions |->
                              IF e = d THEN state[e] + 1
                              ELSE IF e \in 2..(d - 1) THEN space.lower[e]
                              ELSE state[e]]
  /\ searchPc' = "row"
  /\ UNCHANGED <<searchInput, ended, result, bestValue, newValue, attempt, step>>

carry ==
  /\ searchPc = "carry"
  /\ LET below == {d \in Dimensions \ {1} : state[d] # space.upper[d]}
     IN  IF below = {}
         THEN /\ searchPc' = IF Len(space.lower) = 1 THEN "row" ELSE "returned"
              /\ UNCHANGED state
         ELSE LET d == CHOOSE x \in below : \A y \in below : x <= y
              IN  /\ searchPc' = "row"
                  /\ state' = [e \in Dimensions |->
                                 IF e = d THEN state[e] + 1
                                 ELSE IF e \in 2..(d - 1) THEN space.lower[e]
                                 ELSE state[e]]
  /\ UNCHANGED <<searchInput, ended, result, bestValue, newValue, attempt, step>>

(***************************************************************************)
(* RandomStartHillClimbing.                                                *)
(***************************************************************************)
(* rand() % (upper - lower + 1) - lower. *)
randomAssignment ==
  LET width(d) == space.upper[d] - space.lower[d]
      draws == [Dimensions -> 0..(CHOOSE w \in {width(d) : d \in Dimensions} :
                                    \A d \in Dimensions : width(d) <= w)]
  IN  {[d \in Dimensions |-> r[d] - space.lower[d]] :
         r \in {q \in draws : \A d \in Dimensions : q[d] <= width(d)}}

ValueOf(s) == IF InSpace(s) THEN {space.value[s]} ELSE Outside

climbStart ==
  /\ algorithm = "RandomStartHillClimbing" /\ searchPc = "begin" /\ attempt < attemptCount
  /\ state' \in randomAssignment
  /\ newValue' \in ValueOf(state')
  /\ step' = 0
  /\ searchPc' = "climb"
  /\ UNCHANGED <<searchInput, ended, result, bestValue, attempt>>

(* The states that differ in at most one dimension; the best of them, if   *)
(* none is worse than the present one.  Without candidates rand() % 0 is   *)
(* computed.                                                               *)
Neighbours ==
  UNION {{[state EXCEPT ![d] = k] : k \in space.lower[d]..space.upper[d]} : d \in Dimensions}

climb_ForgetsValue ==
  /\ searchPc = "climb" /\ step < maxSteps
  /\ LET values == {newValue} \cup UNION {ValueOf(s) : s \in Neighbours}
         best == CHOOSE x \in values : \A y \in values : y <= x
         candidates == {s \in Neighbours : best \in ValueOf(s)}
     IN  IF candidates = {} THEN searchPc' = "undefined" /\ UNCHANGED <<state, newValue, step>>
         ELSE /\ state' \in candidates
              /\ step' = step + 1
              /\ UNCHANGED <<newValue, searchPc>>
  /\ UNCHANGED <<searchInput, ended, result, bestValue, attempt>>

climb ==
  /\ searchPc = "climb" /\ step < maxSteps
  /\ LET values == {newValue} \cup UNION {ValueOf(s) : s \in Neighbours}
         best == CHOOSE x \in values : \A y \in values : y <= x
         candidates == {s \in Neighbours : best \in ValueOf(s)}
     IN  IF candidates = {} THEN searchPc' = "undefined" /\ UNCHANGED <<state, newValue, step>>
         ELSE /\ state' \in candidates
              /\ newValue' = best
              /\ step' = step + 1
              /\ UNCHANGED searchPc
  /\ UNCHANGED <<searchInput, ended, result, bestValue, attempt>>

climbEnd_KeepsLast ==
  /\ searchPc = "climb" /\ step = maxSteps
  /\ bestValue' = newValue /\ result' = state
  /\ attempt' = attempt + 1 /\ ended' = ended \cup {state}
  /\ searchPc' = "begin"
  /\ UNCHANGED <<searchInput, state, newValue, step>>

climbEnd ==
  /\ searchPc = "climb" /\ step = maxSteps
  /\ IF attempt = 0 \/ newValue > bestValue
     THEN bestValue' = newValue /\ result' = state
     ELSE UNCHANGED <<bestValue, result>>
  /\ attempt' = attempt + 1 /\ ended' = ended \cup {state}
  /\ searchPc' = "begin"
  /\ UNCHANGED <<searchInput, state, newValue, step>>

climbReturn ==
  /\ algorithm = "RandomStartHillClimbing" /\ searchPc = "begin" /\ attempt = attemptCount
  /\ searchPc' = "returned"
  /\ UNCHANGED <<searchInput, ended, state, result, bestValue, newValue, attempt, step>>

SearchNext ==
  \/ exhaust \/ searchRow \/ carry
  \/ climbStart \/ climb \/ climbEnd \/ climbReturn

(***************************************************************************)
(* Properties.                                                             *)
(***************************************************************************)
(* The exhaustive search returns a state of the space that no other is     *)
(* better than, in any number of dimensions above one: the counting of     *)
(* search_algorithm_impl.icpp:97-121 leaves none out.  While it climbs,    *)
(* newValue is the value of state, although states are tried in place and  *)
(* put back (lines 57-70), so that there is always a candidate for the     *)
(* next step; and what is kept of the attempts is the best state in which  *)
(* one of them ended (lines 77-80).                                        *)
KeepsTheBest ==
  /\ searchPc = "climb" => InSpace(state) /\ newValue = space.value[state]
  /\ attempt > 0 => result \in ended /\ bestValue = space.value[result]
  /\ \A s \in ended : InSpace(s) /\ space.value[s] <= space.value[result]
  /\ searchPc # "undefined"
FindsBest ==
  /\ algorithm = "ExhaustiveSearch" /\ searchPc = "returned" =>
       /\ InSpace(result)
       /\ \A s \in DOMAIN space.value : space.value[s] <= space.value[result]
  /\ algorithm = "RandomStartHillClimbing" => KeepsTheBest
=============================================================================
