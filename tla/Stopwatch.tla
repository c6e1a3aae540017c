------------------------------ MODULE Stopwatch ------------------------------
(***************************************************************************)
(* Stopwatch of src/src/afc/Stopwatch.h, with a clock() that wraps.        *)
(*                                                                         *)
(* As in FastStringBuffer, X_Y is X with a mistake and part of no          *)
(* specification.                                                          *)
(***************************************************************************)
EXTENDS Integers

CONSTANTS
  ClockRange,   (* clock_t counts modulo this.                             *)
  MaxTime,      (* Bounds the model.                                       *)
  Irregular     (* FALSE: it is stopped only while it runs, and resumed    *)
                (* only while it does not.                                 *)

ASSUME StopwatchAssumption == ClockRange \in Nat \ {0}

VARIABLES
  m_started, m_stopped, m_start, m_accumulator,
  time,         (* Since the program began.                                *)
  ran           (* How long it was to count; no variable of the program.   *)

stopwatchVars == <<m_started, m_stopped, m_start, m_accumulator, time, ran>>

StopwatchInit ==
  /\ m_started = FALSE /\ m_stopped = FALSE /\ m_accumulator = 0
  /\ m_start = 0 /\ time = 0 /\ ran = 0

clock == time % ClockRange
durationSinceLastResume == clock - m_start
Running == m_started /\ ~m_stopped

reset ==
  /\ m_started' = FALSE /\ m_stopped' = FALSE /\ m_accumulator' = 0
  /\ ran' = 0
  /\ UNCHANGED <<m_start, time>>

start ==
  /\ m_started' = TRUE /\ m_stopped' = FALSE /\ m_accumulator' = 0
  /\ m_start' = clock
  /\ ran' = 0
  /\ UNCHANGED time

stop ==
  /\ Irregular \/ ~m_stopped
  /\ IF m_started
     THEN /\ m_accumulator' = (m_accumulator + durationSinceLastResume) % ClockRange
          /\ m_stopped' = TRUE
     ELSE UNCHANGED <<m_accumulator, m_stopped>>
  /\ UNCHANGED <<m_started, m_start, time, ran>>

resume_Forgets ==
  /\ Irregular \/ ~Running
  /\ m_stopped' = FALSE
  /\ UNCHANGED <<m_started, m_start, m_accumulator, time, ran>>

resume ==
  /\ Irregular \/ ~Running
  /\ m_stopped' = FALSE
  /\ m_start' = clock
  /\ UNCHANGED <<m_started, m_accumulator, time, ran>>

tick ==
  /\ time < MaxTime
  /\ time' = time + 1
  /\ ran' = IF Running THEN ran + 1 ELSE ran
  /\ UNCHANGED <<m_started, m_stopped, m_start, m_accumulator>>

StopwatchNext == reset \/ start \/ stop \/ resume \/ tick

(* Of print(). *)
totalTime ==
  IF m_stopped THEN m_accumulator ELSE (m_accumulator + durationSinceLastResume) % ClockRange

(* The time that is printed is the time since start() less the time        *)
(* between each stop() and its resume(), also when the clock has wrapped   *)
(* meanwhile (Stopwatch.h:47-83).                                          *)
ShowsTimeRun == m_started => totalTime = ran % ClockRange
=============================================================================
