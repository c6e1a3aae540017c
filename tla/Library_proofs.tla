--------------------------- MODULE Library_proofs ---------------------------
(***************************************************************************)
(* The parts of the library that share no state and that Library runs side *)
(* by side: Repository, Optional, UnlockGuard, Stopwatch, the search       *)
(* algorithms, the JSON parsers, dates, Base64 and the conversions of      *)
(* characters, each for every value of its constants.                      *)
(***************************************************************************)
EXTENDS Repository, Optional, UnlockGuard, Stopwatch, Search, Json, DateUtil, Base64, Charset,
        Counting, SequenceTheorems, TLAPS

(***************************************************************************)
(* A Repository holds each value once and gives references that stay good, *)
(* for any values and any number of copies.  RepositoryHolds is inductive  *)
(* with the types: the copy that is not yet inserted counts as the one of  *)
(* its value, so that no second one can be made before.                    *)
(***************************************************************************)
RepositoryInv == RepositoryTypeOK /\ RepositoryHolds

LEMMA RepositoryStarts == RepositoryInit => RepositoryInv
  BY RepositoryAssumption
  DEF RepositoryInit, RepositoryInv, RepositoryTypeOK, RepositoryHolds, CopiesOwned,
      OneCopyEach, ReferencesGood

(* get() finds a copy when there is one: while none is being inserted,     *)
(* every copy is in the set.                                               *)
LEMMA NotFoundMeansNoCopy ==
  ASSUME RepositoryInv, entry = NoEntry, NEW k \in Keys, Find(k) = {},
         NEW p \in Entries
  PROVE  allocated[p] # k
  BY RepositoryAssumption DEF RepositoryInv, RepositoryHolds, CopiesOwned, Find

LEMMA getFoundKeeps ==
  ASSUME RepositoryInv, NEW k \in Keys, getFound(k) PROVE RepositoryInv'
<1>1. PICK p \in Find(k) : references' = [references EXCEPT ![k] = p]
  BY DEF getFound
<1>2. p \in Entries /\ p \in m_values /\ allocated[p] = k
  BY <1>1 DEF Find, RepositoryInv, RepositoryTypeOK
<1>3. ReferencesGood'
  BY <1>1, <1>2 DEF getFound, RepositoryInv, RepositoryHolds, ReferencesGood, RepositoryTypeOK
<1>4. QED
  BY <1>1, <1>2, <1>3
  DEF getFound, RepositoryInv, RepositoryTypeOK, RepositoryHolds, CopiesOwned, OneCopyEach

LEMMA getCopiesKeeps ==
  ASSUME RepositoryInv, NEW k \in Keys, getCopies(k) PROVE RepositoryInv'
<1>1. PICK p \in Entries :
        allocated[p] = NoKey /\ allocated' = [allocated EXCEPT ![p] = k] /\ entry' = p
  BY DEF getCopies
<1>2. RepositoryTypeOK'
  BY <1>1 DEF getCopies, RepositoryInv, RepositoryTypeOK
<1>3. p \notin m_values /\ entry = NoEntry /\ p # NoEntry
  BY <1>1, RepositoryAssumption DEF getCopies, RepositoryInv, RepositoryHolds, CopiesOwned
<1>4. CopiesOwned'
  BY <1>1, <1>3, RepositoryAssumption
  DEF getCopies, RepositoryInv, RepositoryTypeOK, RepositoryHolds, CopiesOwned
<1>5. OneCopyEach'
  <2>1. \A q \in Entries : allocated[q] # k
    BY NotFoundMeansNoCopy DEF getCopies
  <2>2. QED
    BY <1>1, <2>1 DEF RepositoryInv, RepositoryTypeOK, RepositoryHolds, OneCopyEach
<1>6. ReferencesGood'
  BY <1>1, <1>3 DEF getCopies, RepositoryInv, RepositoryTypeOK, RepositoryHolds, ReferencesGood
<1>7. QED
  BY <1>2, <1>4, <1>5, <1>6 DEF RepositoryInv, RepositoryHolds

LEMMA getInsertsKeeps ==
  ASSUME RepositoryInv, getInserts PROVE RepositoryInv'
<1>1. entry \in Entries /\ allocated[entry] \in Keys
  BY DEF getInserts, RepositoryInv, RepositoryTypeOK, RepositoryHolds, CopiesOwned
<1>2. RepositoryTypeOK'
  BY <1>1 DEF getInserts, RepositoryInv, RepositoryTypeOK
<1>3. CopiesOwned' /\ OneCopyEach'
  BY <1>1, RepositoryAssumption
  DEF getInserts, RepositoryInv, RepositoryTypeOK, RepositoryHolds, CopiesOwned, OneCopyEach
<1>4. ReferencesGood'
  BY <1>1 DEF getInserts, RepositoryInv, RepositoryTypeOK, RepositoryHolds, ReferencesGood
<1>5. QED
  BY <1>2, <1>3, <1>4 DEF RepositoryInv, RepositoryHolds

LEMMA getFailsKeeps ==
  ASSUME RepositoryInv, getFails PROVE RepositoryInv'
<1>1. allocated' = [p \in Entries |-> IF p = entry THEN NoKey ELSE allocated[p]]
  BY DEF getFails, Deleted
<1>2. RepositoryTypeOK'
  BY <1>1 DEF getFails, RepositoryInv, RepositoryTypeOK
<1>3. CopiesOwned' /\ OneCopyEach'
  BY <1>1, RepositoryAssumption
  DEF getFails, RepositoryInv, RepositoryTypeOK, RepositoryHolds, CopiesOwned, OneCopyEach
<1>4. ReferencesGood'
  BY <1>1 DEF getFails, RepositoryInv, RepositoryTypeOK, RepositoryHolds, CopiesOwned, ReferencesGood
<1>5. QED
  BY <1>2, <1>3, <1>4 DEF RepositoryInv, RepositoryHolds

(* What is deleted is taken out of the set, and only its key is forgotten. *)
LEMMA removeKeeps ==
  ASSUME RepositoryInv, NEW k \in Keys, remove(k) PROVE RepositoryInv'
<1>1. Find(k) = {p \in m_values : allocated[p] = k}
  BY DEF Find
<1>2. allocated' = [p \in Entries |-> IF p \in Find(k) THEN NoKey ELSE allocated[p]]
  BY DEF remove, Deleted
<1>3. RepositoryTypeOK'
  BY <1>2 DEF remove, RepositoryInv, RepositoryTypeOK
<1>4. CopiesOwned' /\ OneCopyEach'
  BY <1>1, <1>2, RepositoryAssumption
  DEF remove, RepositoryInv, RepositoryTypeOK, RepositoryHolds, CopiesOwned, OneCopyEach
<1>5. ReferencesGood'
  BY <1>1, <1>2 DEF remove, RepositoryInv, RepositoryTypeOK, RepositoryHolds, ReferencesGood
<1>6. QED
  BY <1>3, <1>4, <1>5 DEF RepositoryInv, RepositoryHolds

LEMMA clearKeeps ==
  ASSUME RepositoryInv, clear PROVE RepositoryInv'
  BY RepositoryAssumption
  DEF clear, Deleted, RepositoryInv, RepositoryTypeOK, RepositoryHolds, CopiesOwned,
      OneCopyEach, ReferencesGood

LEMMA RepositoryStep ==
  ASSUME RepositoryInv, [RepositoryNext]_repositoryVars PROVE RepositoryInv'
<1>1. CASE UNCHANGED repositoryVars
  BY <1>1 DEF repositoryVars, RepositoryInv, RepositoryTypeOK, RepositoryHolds, CopiesOwned,
              OneCopyEach, ReferencesGood
<1>2. CASE RepositoryNext
  BY <1>2, getFoundKeeps, getCopiesKeeps, getInsertsKeeps, getFailsKeeps, removeKeeps, clearKeeps
  DEF RepositoryNext
<1>3. QED
  BY <1>1, <1>2

(* Two equal values have the same address, each copy has one owner, and    *)
(* references to values that nobody removes stay good, also when insertion *)
(* fails (Repository.h:57-82).                                             *)
THEOREM RepositoryHoldsAlways == RepositorySpec => []RepositoryHolds
<1>1. RepositoryInv => RepositoryHolds
  BY DEF RepositoryInv
<1>2. QED
  BY RepositoryStarts, RepositoryStep, <1>1, PTL DEF RepositorySpec

(***************************************************************************)
(* The flag of an Optional is right for any number of objects, whatever    *)
(* throws.  FlagTellsValue becomes inductive with the types, and with this:*)
(* what no longer exists has no T, which FlagTellsValue says as well.      *)
(***************************************************************************)
OptionalTypeOK ==
  /\ exists \subseteq Optionals
  /\ m_hasValue \in [Optionals -> BOOLEAN]
  /\ lives \in [Optionals -> BOOLEAN]

OptionalInv == OptionalTypeOK /\ FlagTellsValue

LEMMA OptionalStarts == OptionalInit => OptionalInv
  BY DEF OptionalInit, OptionalInv, OptionalTypeOK, FlagTellsValue

(* A construction that succeeds, with or without a value. *)
LEMMA BecomesKeeps ==
  ASSUME OptionalInv, NEW o \in Optionals, NEW has \in BOOLEAN,
         Becomes(o, has), ~misused'
  PROVE  OptionalInv'
<1>1. CASE has = TRUE
  BY <1>1 DEF OptionalInv, OptionalTypeOK, FlagTellsValue, Becomes
<1>2. CASE has = FALSE
  BY <1>2 DEF OptionalInv, OptionalTypeOK, FlagTellsValue, Becomes
<1>3. QED
  BY <1>1, <1>2

LEMMA OptionalStep ==
  ASSUME ~MovesEmpty, OptionalInv, [OptionalNext]_optionalVars
  PROVE  OptionalInv'
<1>1. CASE UNCHANGED optionalVars
  BY <1>1 DEF OptionalInv, OptionalTypeOK, FlagTellsValue, optionalVars
<1>2. ASSUME NEW o \in Optionals, construct(o) PROVE OptionalInv'
  <2>1. ~misused'
    BY <1>2 DEF construct, OptionalInv, FlagTellsValue
  <2>2. CASE Becomes(o, TRUE)
    BY <2>1, <2>2, BecomesKeeps
  <2>3. CASE UNCHANGED <<exists, m_hasValue, lives>>
    BY <2>1, <2>3 DEF OptionalInv, OptionalTypeOK, FlagTellsValue
  <2>4. QED
    BY <1>2, <2>2, <2>3 DEF construct
<1>3. ASSUME NEW o \in Optionals, none(o) PROVE OptionalInv'
  <2>1. ~misused'
    BY <1>3 DEF none, OptionalInv, FlagTellsValue
  <2>2. QED
    BY <1>3, <2>1, BecomesKeeps DEF none
<1>4. ASSUME NEW o \in Optionals, destroy(o) PROVE OptionalInv'
  BY <1>4 DEF destroy, Uses, OptionalInv, OptionalTypeOK, FlagTellsValue
<1>5. ASSUME NEW o \in Optionals, NEW from \in Optionals, copyOrMove(o, from)
      PROVE  OptionalInv'
  <2>1. m_hasValue[from] \in BOOLEAN /\ (m_hasValue[from] => lives[from])
    BY <1>5 DEF copyOrMove, OptionalInv, OptionalTypeOK, FlagTellsValue
  <2>2. ~misused'
    BY <1>5, <2>1 DEF copyOrMove, Uses, OptionalInv, FlagTellsValue
  <2>3. CASE Becomes(o, m_hasValue[from])
    BY <2>1, <2>2, <2>3, BecomesKeeps
  <2>4. CASE UNCHANGED <<exists, m_hasValue, lives>>
    BY <2>2, <2>4 DEF OptionalInv, OptionalTypeOK, FlagTellsValue
  <2>5. QED
    BY <1>5, <2>3, <2>4 DEF copyOrMove
<1>6. ASSUME NEW o \in Optionals, NEW from \in Optionals, moveAssign(o, from)
      PROVE  OptionalInv'
  (* Both exist and the source has a value: what is read and what is       *)
  (* assigned over is there.                                               *)
  <2>1. lives[from] /\ (m_hasValue[o] => lives[o])
    BY <1>6 DEF moveAssign, OptionalInv, FlagTellsValue
  <2>2. ~misused'
    BY <1>6, <2>1 DEF moveAssign, Uses, OptionalInv, FlagTellsValue
  <2>3. CASE UNCHANGED <<m_hasValue, lives>>
    BY <1>6, <2>2, <2>3 DEF moveAssign, OptionalInv, OptionalTypeOK, FlagTellsValue
  <2>4. CASE /\ lives' = [lives EXCEPT ![o] = TRUE]
             /\ m_hasValue' = [m_hasValue EXCEPT ![o] = TRUE]
    BY <1>6, <2>2, <2>4 DEF moveAssign, OptionalInv, OptionalTypeOK, FlagTellsValue
  <2>5. QED
    BY <1>6, <2>3, <2>4 DEF moveAssign
<1>7. QED
  BY <1>1, <1>2, <1>3, <1>4, <1>5, <1>6 DEF OptionalNext

(* The flags tell which objects hold a value, so each value is destroyed   *)
(* once and none is used that is not there (utils.h:76-103), for any       *)
(* number of objects, when only objects with a value are assigned from.    *)
THEOREM FlagTellsValueAlways ==
  ASSUME ~MovesEmpty PROVE OptionalSpec => []FlagTellsValue
<1>1. OptionalInv => FlagTellsValue
  BY DEF OptionalInv
<1>2. QED
  BY OptionalStarts, OptionalStep, <1>1, PTL DEF OptionalSpec

(***************************************************************************)
(* The critical section around the scope of an UnlockGuard, for any number *)
(* of threads.                                                             *)
(***************************************************************************)
Places == {"outside", "inside", "scope", "behind", "done"}

(* The mutex belongs to the thread that is inside, or to nobody. *)
UnlockInv ==
  /\ place \in [Users -> Places]
  /\ AloneInside

LEMMA UnlockStarts == UnlockInit => UnlockInv
  BY UnlockAssumption DEF UnlockInit, UnlockInv, AloneInside, Places

LEMMA UnlockStepKeeps ==
  ASSUME UnlockInv, [UnlockNext]_unlockVars
  PROVE  UnlockInv'
<1>1. CASE UNCHANGED unlockVars
  BY <1>1 DEF UnlockInv, AloneInside, unlockVars
<1>2. ASSUME NEW u \in Users, enter(u) PROVE UnlockInv'
  BY <1>2, UnlockAssumption DEF enter, Goes, lock, UnlockInv, AloneInside, Places
<1>3. ASSUME NEW u \in Users, beginGuard(u) PROVE UnlockInv'
  BY <1>3, UnlockAssumption DEF beginGuard, Goes, unlock, UnlockInv, AloneInside, Places
<1>4. ASSUME NEW u \in Users, endGuard(u) PROVE UnlockInv'
  BY <1>4, UnlockAssumption DEF endGuard, Goes, lock, UnlockInv, AloneInside, Places
<1>5. ASSUME NEW u \in Users, leave(u) PROVE UnlockInv'
  BY <1>5, UnlockAssumption DEF leave, unlock, UnlockInv, AloneInside, Places
<1>6. QED
  BY <1>1, <1>2, <1>3, <1>4, <1>5 DEF UnlockNext, UnlockStep

(* A thread is alone in its critical section, before the guard and behind  *)
(* it, and has the mutex there (utils.h:63-74).                            *)
THEOREM AloneInsideAlways == UnlockSpec => []AloneInside
<1>1. UnlockInv => AloneInside
  BY DEF UnlockInv
<1>2. QED
  BY UnlockStarts, UnlockStepKeeps, <1>1, PTL DEF UnlockSpec

(***************************************************************************)
(* A Stopwatch shows the time it ran, for a clock of any range that wraps  *)
(* any number of times.  ShowsTimeRun says nothing of m_start: while the   *)
(* watch runs, the clock has counted what it is to show since m_start, but *)
(* for a multiple of its range.                                            *)
(***************************************************************************)
LEMMA QuotientOf ==
  ASSUME NEW a \in Int, NEW r \in Nat \ {0}
  PROVE  a % r \in 0..(r - 1) /\ \E q \in Int : a = q * r + (a % r)
<1>1. /\ a = r * (a \div r) + (a % r) /\ a \div r \in Int /\ a % r \in 0..(r - 1)
      /\ r * (a \div r) = (a \div r) * r
  OBVIOUS
<1>2. QED
  BY <1>1

LEMMA OneRemainder ==
  ASSUME NEW r \in Nat \ {0}, NEW x \in 0..(r - 1), NEW y \in 0..(r - 1), NEW d \in Int,
         d * r = y - x
  PROVE  x = y
<1>1. d >= 1 => d * r >= r
  OBVIOUS
<1>2. d <= -1 => d * r <= -r
  OBVIOUS
<1>3. d = 0
  BY <1>1, <1>2
<1>4. QED
  BY <1>3

(* Numbers that differ by a multiple of r have the same remainder.         *)
LEMMA SameRemainder ==
  ASSUME NEW b \in Int, NEW r \in Nat \ {0}, NEW k \in Int
  PROVE  (b + k * r) % r = b % r
<1> DEFINE a == b + k * r
           x == a % r
           y == b % r
<1>1. a \in Int /\ b \in Int
  OBVIOUS
<1>2. PICK p \in Int : a = p * r + x
  BY <1>1, QuotientOf
<1>3. PICK q \in Int : b = q * r + y
  BY <1>1, QuotientOf
<1>4. x \in 0..(r - 1) /\ y \in 0..(r - 1)
  BY <1>1, QuotientOf
<1>5. a = b + k * r
  OBVIOUS
<1> HIDE DEF a, x, y
<1>6. (p - q - k) * r = p * r - q * r - k * r
  OBVIOUS
<1>7. p * r \in Int /\ q * r \in Int /\ k * r \in Int /\ x \in Int /\ y \in Int
  BY <1>4
<1>8. (p - q - k) * r = y - x
  BY <1>1, <1>2, <1>3, <1>5, <1>6, <1>7
<1>9. x = y
  <2>1. p - q - k \in Int
    OBVIOUS
  <2>2. QED
    BY <1>4, <1>8, <2>1, OneRemainder
<1>10. QED
  BY <1>9 DEF x, y, a

StopwatchInv ==
  /\ m_started \in BOOLEAN /\ m_stopped \in BOOLEAN
  /\ m_start \in Int /\ m_accumulator \in Int /\ time \in Int /\ ran \in Int
  /\ m_stopped => m_started /\ m_accumulator = ran % ClockRange
  /\ Running => \E q \in Int : m_accumulator + time - m_start = ran + q * ClockRange

LEMMA StopwatchStarts == StopwatchInit => StopwatchInv
<1> SUFFICES ASSUME StopwatchInit PROVE StopwatchInv
  OBVIOUS
<1>1. ~m_started /\ ~m_stopped /\ m_started \in BOOLEAN /\ m_stopped \in BOOLEAN
  BY Zenon DEF StopwatchInit
<1>2. m_start \in Int /\ m_accumulator \in Int /\ time \in Int /\ ran \in Int
  BY DEF StopwatchInit
<1>3. QED
  BY <1>1, <1>2, Zenon DEF StopwatchInv, Running

(* What stop() adds up and print() shows.                                  *)
LEMMA CountsTimeRun ==
  ASSUME StopwatchInv, Running
  PROVE  (m_accumulator + durationSinceLastResume) % ClockRange = ran % ClockRange
<1>1. PICK q \in Int : m_accumulator + time - m_start = ran + q * ClockRange
  BY DEF StopwatchInv
<1>2. PICK p \in Int : time = p * ClockRange + clock
  BY QuotientOf, StopwatchAssumption DEF clock, StopwatchInv
<1>3. ClockRange \in Nat \ {0} /\ clock \in Int
  BY QuotientOf, StopwatchAssumption DEF clock, StopwatchInv
<1>4. m_accumulator + durationSinceLastResume = ran + (q - p) * ClockRange
  <2>1. (q - p) * ClockRange = q * ClockRange - p * ClockRange
    BY <1>3
  <2>2. q * ClockRange \in Int /\ p * ClockRange \in Int
    BY <1>3
  <2>3. QED
    BY <1>1, <1>2, <1>3, <2>1, <2>2 DEF durationSinceLastResume, StopwatchInv
<1>5. m_accumulator + durationSinceLastResume \in Int /\ ran \in Int /\ q - p \in Int
  BY <1>3 DEF durationSinceLastResume, StopwatchInv
<1>6. QED
  <2>1. (ran + (q - p) * ClockRange) % ClockRange = ran % ClockRange
    BY <1>3, <1>5, SameRemainder
  <2>2. QED
    BY <1>4, <2>1

LEMMA StopwatchStep ==
  ASSUME ~Irregular, StopwatchInv, [StopwatchNext]_stopwatchVars
  PROVE  StopwatchInv'
<1>1. CASE UNCHANGED stopwatchVars
  BY <1>1 DEF stopwatchVars, StopwatchInv, Running
<1>2. CASE reset
  <2>1. ~m_started' /\ ~m_stopped' /\ m_started' \in BOOLEAN /\ m_stopped' \in BOOLEAN
    BY <1>2, Zenon DEF reset
  <2>2. m_start' \in Int /\ m_accumulator' \in Int /\ time' \in Int /\ ran' \in Int
    BY <1>2 DEF reset, StopwatchInv
  <2>3. QED
    BY <2>1, <2>2, Zenon DEF StopwatchInv, Running
<1>3. ClockRange \in Nat \ {0} /\ clock \in Int
  BY QuotientOf, StopwatchAssumption DEF clock, StopwatchInv
<1>4. PICK p \in Int : time = p * ClockRange + clock
  BY QuotientOf, StopwatchAssumption DEF clock, StopwatchInv
<1>5. CASE start
  <2>1. m_accumulator' + time' - m_start' = ran' + p * ClockRange
    BY <1>3, <1>4, <1>5 DEF start, StopwatchInv
  <2>2. QED
    <3>1. ~m_stopped' /\ m_started' \in BOOLEAN /\ m_stopped' \in BOOLEAN
      BY <1>5, Zenon DEF start
    <3>2. m_start' \in Int /\ m_accumulator' \in Int /\ time' \in Int /\ ran' \in Int
      BY <1>3, <1>5 DEF start, StopwatchInv
    <3>3. QED
      BY <2>1, <3>1, <3>2, Zenon DEF StopwatchInv, Running
<1>6. CASE stop
  <2>1. CASE ~m_started
    BY <1>6, <2>1 DEF stop, StopwatchInv, Running
  <2>2. CASE m_started
    <3>1. Running
      BY <1>6, <2>2 DEF stop, Running
    <3>2. m_accumulator' = ran % ClockRange /\ ran % ClockRange \in Int
      BY <1>3, <1>6, <2>2, <3>1, CountsTimeRun, QuotientOf DEF stop, StopwatchInv
    <3>3. QED
      BY <1>6, <2>2, <3>2 DEF stop, StopwatchInv, Running
  <2>3. QED
    BY <2>1, <2>2 DEF StopwatchInv
<1>7. CASE resume
  <2>1. CASE ~m_started
    BY <1>3, <1>7, <2>1 DEF resume, StopwatchInv, Running
  <2>2. CASE m_started
    <3> DEFINE left == ran % ClockRange
    <3>1. m_stopped /\ m_accumulator = left
      BY <1>7, <2>2 DEF resume, Running, StopwatchInv
    <3>2. left \in Int /\ \E q \in Int : ran = q * ClockRange + left
      <4>1. ran \in Int
        BY DEF StopwatchInv
      <4>2. left \in 0..(ClockRange - 1)
        BY <1>3, <4>1, QuotientOf
      <4>3. \E q \in Int : ran = q * ClockRange + left
        BY <1>3, <4>1, QuotientOf, Zenon
      <4>4. QED
        BY <4>2, <4>3
    <3> HIDE DEF left
    <3>3. PICK q \in Int : ran = q * ClockRange + left
      BY <3>2
    <3>4. (p - q) * ClockRange = p * ClockRange - q * ClockRange
      BY <1>3
    <3>5. p * ClockRange \in Int /\ q * ClockRange \in Int /\ p - q \in Int
      BY <1>3
    <3>6. m_accumulator + time - clock = ran + (p - q) * ClockRange
      BY <1>3, <1>4, <3>1, <3>2, <3>3, <3>4, <3>5 DEF StopwatchInv
    <3>7. QED
      BY <1>3, <1>7, <3>1, <3>5, <3>6 DEF resume, StopwatchInv, Running
  <2>3. QED
    BY <2>1, <2>2 DEF StopwatchInv
<1>8. CASE tick
  <2>1. CASE Running
    <3>1. PICK q \in Int : m_accumulator + time - m_start = ran + q * ClockRange
      BY <2>1 DEF StopwatchInv
    <3>2. q * ClockRange \in Int
      BY <1>3
    <3>3. m_accumulator' + time' - m_start' = ran' + q * ClockRange
      BY <1>8, <2>1, <3>1, <3>2 DEF tick, StopwatchInv
    <3>4. QED
      BY <1>8, <2>1, <3>3 DEF tick, StopwatchInv, Running
  <2>2. CASE ~Running
    BY <1>8, <2>2 DEF tick, StopwatchInv, Running
  <2>3. QED
    BY <2>1, <2>2
<1>9. QED
  BY <1>1, <1>2, <1>5, <1>6, <1>7, <1>8 DEF StopwatchNext

(* What print() shows is the time from start() on less the times between   *)
(* stop() and resume(), whatever range the clock has and however often it  *)
(* wraps, when callers stop what runs and resume what does not             *)
(* (Stopwatch.h:47-83).                                                    *)
THEOREM ShowsTimeRunAlways ==
  ASSUME ~Irregular
  PROVE  StopwatchInit /\ [][StopwatchNext]_stopwatchVars => []ShowsTimeRun
<1>1. StopwatchInv => ShowsTimeRun
  BY CountsTimeRun DEF StopwatchInv, ShowsTimeRun, totalTime, Running
<1>2. QED
  BY StopwatchStarts, StopwatchStep, <1>1, PTL

(***************************************************************************)
(* The search algorithms find what they promise in spaces of every size,   *)
(* with every number of attempts and steps.  First the spaces.             *)
(***************************************************************************)
States == StatesOf(space)
rank == Len(space.lower)

LEMMA SpaceFacts ==
  ASSUME space \in Spaces
  PROVE  /\ rank \in Nat \ {0} /\ Dimensions = 1..rank
         /\ space.lower \in [1..rank -> Int] /\ space.upper \in [1..rank -> Int]
         /\ \A d \in 1..rank : space.lower[d] <= space.upper[d]
         /\ space.value \in [States -> Int]
<1> USE SearchAssumption DEF rank, States, Dimensions
<1>1. space.lower \in Seq(Int) /\ space.upper \in Seq(Int) /\ Len(space.upper) = Len(space.lower)
  OBVIOUS
<1> QED BY <1>1

(* A state is a function on the dimensions that keeps to the bounds.       *)
LEMMA StateFacts ==
  ASSUME space \in Spaces
  PROVE  /\ \A s \in States : s \in [1..rank -> Int] /\ InSpace(s)
         /\ \A s \in [1..rank -> Int] :
              (\A d \in 1..rank : space.lower[d] <= s[d] /\ s[d] <= space.upper[d]) => s \in States
<1>1. /\ rank \in Nat \ {0} /\ Dimensions = 1..rank
      /\ space.lower \in [1..rank -> Int] /\ space.upper \in [1..rank -> Int]
  BY SpaceFacts
<1> DEFINE U == UNION {space.lower[d]..space.upper[d] : d \in 1..rank}
<1>2. States = {s \in [1..rank -> U] : \A d \in 1..rank : s[d] \in space.lower[d]..space.upper[d]}
  BY <1>1 DEF States, StatesOf, Dimensions
<1>3. U \subseteq Int
  BY <1>1
<1>4. ASSUME NEW s \in States PROVE s \in [1..rank -> Int] /\ InSpace(s)
  BY <1>1, <1>2, <1>3, <1>4 DEF InSpace
<1>5. ASSUME NEW s \in [1..rank -> Int],
             \A d \in 1..rank : space.lower[d] <= s[d] /\ s[d] <= space.upper[d]
      PROVE  s \in States
  <2>1. \A d \in 1..rank : s[d] \in space.lower[d]..space.upper[d]
    BY <1>1, <1>5
  <2>2. \A d \in 1..rank : s[d] \in U
    BY <2>1
  <2>3. s \in [1..rank -> U]
    BY <2>2
  <2> QED BY <1>2, <2>1, <2>3
<1> QED BY <1>4, <1>5

LEMMA Bounded ==
  ASSUME space \in Spaces, NEW s \in States
  PROVE  \A d \in 1..rank : space.lower[d] <= s[d] /\ s[d] <= space.upper[d]
<1>1. /\ space.lower \in [1..rank -> Int] /\ space.upper \in [1..rank -> Int]
      /\ Dimensions = 1..rank
  BY SpaceFacts
<1>2. \A d \in 1..rank : s[d] \in space.lower[d]..space.upper[d]
  BY <1>1, StateFacts DEF InSpace
<1>3. \A d \in 1..rank : space.lower[d] \in Int /\ space.upper[d] \in Int
  BY <1>1
<1> QED BY <1>2, <1>3

(* A state that is changed in one dimension. *)
LEMMA Moved ==
  ASSUME space \in Spaces, NEW s \in States, NEW d \in 1..rank,
         NEW x \in space.lower[d]..space.upper[d]
  PROVE  [s EXCEPT ![d] = x] \in States
<1>1. /\ rank \in Nat /\ space.lower \in [1..rank -> Int] /\ space.upper \in [1..rank -> Int]
      /\ s \in [1..rank -> Int] /\ Dimensions = 1..rank
      /\ \A e \in Dimensions : s[e] \in space.lower[e]..space.upper[e]
  BY SpaceFacts, StateFacts DEF InSpace
<1>2. [s EXCEPT ![d] = x] \in [1..rank -> Int]
  BY <1>1
<1>3. \A e \in 1..rank : space.lower[e] <= [s EXCEPT ![d] = x][e]
                     /\ [s EXCEPT ![d] = x][e] <= space.upper[e]
  BY <1>1
<1> QED BY <1>2, <1>3, StateFacts

(***************************************************************************)
(* ExhaustiveSearch counts through the space: the last dimension counts    *)
(* most, the first one is done a row at a time.                            *)
(***************************************************************************)
Before(s, t) == \E d \in 2..rank : s[d] < t[d] /\ \A e \in 2..rank : e > d => s[e] = t[e]
InRow(s, t) == \A e \in 2..rank : s[e] = t[e]

Seen ==
  CASE searchPc = "row" -> {s \in States : Before(s, state)}
    [] searchPc = "carry" -> {s \in States : Before(s, state) \/ InRow(s, state)}
    [] searchPc = "returned" -> States
    [] OTHER -> {}

ExhaustInv ==
  algorithm = "ExhaustiveSearch" =>
    /\ rank > 1
    /\ searchPc \in {"begin", "row", "carry", "returned"}
    /\ searchPc # "begin" =>
         /\ state \in States /\ result \in States
         /\ bestValue = space.value[result]
         /\ \A s \in Seen : space.value[s] <= bestValue

ClimbInv ==
  algorithm = "RandomStartHillClimbing" =>
    /\ \A d \in Dimensions : space.lower[d] = 0
    /\ searchPc \in {"begin", "climb", "returned"}
    /\ attempt \in Nat
    /\ searchPc = "climb" => state \in States /\ newValue = space.value[state]
    /\ attempt = 0 => ended = {}
    /\ attempt > 0 => result \in ended /\ bestValue = space.value[result]
    /\ \A s \in ended : s \in States /\ space.value[s] <= space.value[result]

SearchInv ==
  /\ algorithm \in {"ExhaustiveSearch", "RandomStartHillClimbing"}
  /\ space \in Spaces
  /\ ExhaustInv
  /\ ClimbInv

LEMMA SearchInvInit ==
  ASSUME ~SearchDefects, NEW in \in SearchInputs, SearchStart(in)
  PROVE  SearchInv
<1>1. algorithm = in.algorithm /\ space = in.space /\ searchPc = "begin" /\ attempt = 0
      /\ ended = {}
  BY DEF SearchStart
<1>2. in.algorithm \in {"ExhaustiveSearch", "RandomStartHillClimbing"} /\ in.space \in Spaces
  BY DEF SearchInputs
<1>3. IF in.algorithm = "ExhaustiveSearch" THEN Len(in.space.lower) > 1
      ELSE \A d \in DOMAIN in.space.lower : in.space.lower[d] = 0
  BY DEF SearchInputs
<1> QED BY <1>1, <1>2, <1>3 DEF SearchInv, ExhaustInv, ClimbInv, rank, Dimensions

LEMMA ExhaustStep ==
  ASSUME SearchInv, exhaust
  PROVE  ExhaustInv'
<1>1. /\ space \in Spaces /\ space' = space /\ algorithm' = algorithm
      /\ searchPc' = "row" /\ state' = space.lower /\ result' = space.lower
      /\ bestValue' = space.value[space.lower] /\ rank' = rank /\ rank > 1 /\ States' = States
  BY DEF SearchInv, ExhaustInv, exhaust, searchInput, rank, States
<1>2. /\ rank \in Nat \ {0} /\ space.lower \in [1..rank -> Int] /\ space.upper \in [1..rank -> Int]
      /\ \A d \in 1..rank : space.lower[d] <= space.upper[d]
  BY <1>1, SpaceFacts
<1>3. space.lower \in States
  BY <1>1, <1>2, StateFacts
<1>4. ASSUME NEW s \in Seen' PROVE FALSE
  <2>1. s \in States /\ Before(s, state)'
    BY <1>1, <1>4 DEF Seen
  <2>2. PICK d \in 2..rank : s[d] < space.lower[d]
    BY <1>1, <2>1 DEF Before
  <2>3. d \in 1..rank /\ s \in [1..rank -> Int] /\ space.lower[d] <= s[d]
    <3>1. d \in 1..rank
      BY <1>2
    <3> QED BY <1>1, <2>1, <3>1, Bounded, StateFacts
  <2>4. s[d] \in Int /\ space.lower[d] \in Int
    BY <1>2, <2>3
  <2> QED BY <2>2, <2>3, <2>4
<1> QED BY <1>1, <1>3, <1>4 DEF ExhaustInv

LEMMA RowStep ==
  ASSUME SearchInv, searchRow
  PROVE  ExhaustInv'
<1> SUFFICES ASSUME algorithm = "ExhaustiveSearch" PROVE ExhaustInv'
  BY DEF ExhaustInv, searchRow, searchInput
<1> DEFINE row(x) == [state EXCEPT ![1] = x]
           values == space.lower[1]..space.upper[1]
           best == CHOOSE x \in values :
                   /\ \A y \in values : space.value[row(y)] <= space.value[row(x)]
                   /\ \A y \in values : y < x => space.value[row(y)] < space.value[row(x)]
<1>1. /\ space \in Spaces /\ space' = space /\ algorithm' = algorithm
      /\ searchPc = "row" /\ searchPc' = "carry" /\ state' = row(space.upper[1])
      /\ rank' = rank /\ rank > 1 /\ States' = States
      /\ IF space.value[row(best)] > bestValue
         THEN bestValue' = space.value[row(best)] /\ result' = row(best)
         ELSE UNCHANGED <<bestValue, result>>
  BY DEF SearchInv, ExhaustInv, searchRow, searchInput, rank, States
<1>2. /\ state \in States /\ result \in States /\ bestValue = space.value[result]
      /\ \A s \in States : Before(s, state) => space.value[s] <= bestValue
  BY <1>1 DEF SearchInv, ExhaustInv, Seen
<1>3. /\ rank \in Nat \ {0} /\ space.lower \in [1..rank -> Int] /\ space.upper \in [1..rank -> Int]
      /\ \A d \in 1..rank : space.lower[d] <= space.upper[d]
      /\ space.value \in [States -> Int]
      /\ \A s \in States : s \in [1..rank -> Int] /\ InSpace(s)
      /\ 1 \in 1..rank /\ Dimensions = 1..rank
  BY <1>1, SpaceFacts, StateFacts
<1>4. \A x \in values : row(x) \in States
  BY <1>1, <1>2, <1>3, Moved
<1>5. /\ best \in values
      /\ \A y \in values : space.value[row(y)] <= space.value[row(best)]
  <2> DEFINE f == [x \in values |-> space.value[row(x)]]
  <2>1. f \in [values -> Int]
    BY <1>3, <1>4
  <2>2. space.lower[1] \in Int /\ space.upper[1] \in Int /\ space.lower[1] <= space.upper[1]
    BY <1>3
  <2>3. \E x \in values : \A y \in values : f[y] <= f[x] /\ (y < x => f[y] < f[x])
    <3> HIDE DEF f
    <3> QED BY <2>1, <2>2, FirstBest
  <2>4. \E x \in values :
          /\ \A y \in values : space.value[row(y)] <= space.value[row(x)]
          /\ \A y \in values : y < x => space.value[row(y)] < space.value[row(x)]
    BY <2>3
  <2> QED BY <2>4
<1>6. /\ result' \in States /\ bestValue' = space.value[result']
      /\ bestValue <= bestValue' /\ space.value[row(best)] <= bestValue'
  <2>1. row(best) \in States /\ space.value[row(best)] \in Int /\ bestValue \in Int
    BY <1>2, <1>3, <1>4, <1>5
  <2> HIDE DEF best, row
  <2> QED BY <1>1, <1>2, <2>1
<1>7. state' \in States /\ \A e \in 2..rank : state'[e] = state[e]
  <2>1. space.upper[1] \in values
    BY <1>3
  <2>2. \A e \in 2..rank : row(space.upper[1])[e] = state[e]
    BY <1>2, <1>3
  <2> QED BY <1>1, <1>4, <2>1, <2>2
<1>8. ASSUME NEW s \in Seen' PROVE space.value[s] <= bestValue'
  <2>1. s \in States /\ (Before(s, state) \/ InRow(s, state))
    <3>1. s \in States /\ (Before(s, state)' \/ InRow(s, state)')
      BY <1>1, <1>8 DEF Seen
    <3> QED BY <1>1, <1>7, <3>1 DEF Before, InRow
  <2>2. space.value[s] \in Int /\ bestValue \in Int /\ bestValue' \in Int
    BY <1>2, <1>3, <1>6, <2>1
  <2>3. CASE Before(s, state)
    BY <1>2, <1>6, <2>1, <2>2, <2>3
  <2>4. CASE InRow(s, state)
    <3>1. s \in [1..rank -> Int] /\ s[1] \in values
      BY <1>3, <2>1 DEF InSpace
    <3>2. s = row(s[1])
      BY <1>2, <1>3, <2>4, <3>1 DEF InRow
    <3>3. space.value[s] <= space.value[row(best)]
      BY <1>5, <3>1, <3>2
    <3>4. space.value[row(best)] \in Int
      BY <1>3, <1>4, <1>5
    <3> HIDE DEF best, row
    <3> QED BY <1>6, <2>2, <3>3, <3>4
  <2> QED BY <2>1, <2>3, <2>4
<1> QED BY <1>1, <1>6, <1>7, <1>8 DEF ExhaustInv

(* Where two states are in different rows there is a last dimension in     *)
(* which they differ.                                                      *)
LEMMA RowDiffers ==
  ASSUME rank \in Nat, NEW s, NEW t, ~InRow(s, t)
  PROVE  \E g \in 2..rank : s[g] # t[g] /\ \A h \in 1..rank : h > g => s[h] = t[h]
<1>0. PICK e \in 2..rank : s[e] # t[e]
  BY DEF InRow
<1> DEFINE T == {k \in 0..rank : rank - k \in 2..rank /\ s[rank - k] # t[rank - k]}
<1>1. rank - e \in T
  <2>1. rank - e \in 0..rank /\ rank - (rank - e) = e
    OBVIOUS
  <2> QED BY <1>0, <2>1
<1>2. PICK k \in T : \A j \in T : k <= j
  <2>1. T \subseteq Nat
    OBVIOUS
  <2> HIDE DEF T
  <2>2. T # {}
    BY <1>1
  <2> QED BY <2>1, <2>2, LeastOf
<1>3. \A h \in 1..rank : h > rank - k => s[h] = t[h]
  <2>1. SUFFICES ASSUME NEW h \in 1..rank, h > rank - k, s[h] # t[h] PROVE FALSE
    OBVIOUS
  <2>2. rank - h \in 0..rank /\ rank - (rank - h) = h /\ h \in 2..rank /\ rank - h < k
    BY <2>1
  <2>3. rank - h \in T
    BY <2>1, <2>2
  <2> QED BY <1>2, <2>2, <2>3
<1> QED BY <1>2, <1>3

(* After a row comes the next one: what is before it was before the last   *)
(* one, or in it.                                                          *)
LEMMA NextRow ==
  ASSUME space \in Spaces, NEW t \in States, NEW u, NEW d \in 2..rank,
         \A e \in 2..rank : e < d => t[e] = space.upper[e] /\ u[e] = space.lower[e],
         u[d] = t[d] + 1,
         \A e \in 2..rank : e > d => u[e] = t[e],
         NEW s \in States, Before(s, u)
  PROVE  Before(s, t) \/ InRow(s, t)
<1>1. /\ rank \in Nat /\ space.lower \in [1..rank -> Int] /\ space.upper \in [1..rank -> Int]
      /\ s \in [1..rank -> Int] /\ t \in [1..rank -> Int]
      /\ \A e \in 1..rank : space.lower[e] <= s[e] /\ s[e] <= space.upper[e]
  BY Bounded, SpaceFacts, StateFacts
<1>2. PICK e \in 2..rank : s[e] < u[e] /\ \A h \in 2..rank : h > e => s[h] = u[h]
  BY DEF Before
<1>3. ~ (e < d)
  <2>1. SUFFICES ASSUME e < d PROVE FALSE
    OBVIOUS
  <2>2. e \in 1..rank /\ u[e] = space.lower[e]
    BY <2>1
  <2>3. s[e] \in Int /\ space.lower[e] \in Int /\ space.lower[e] <= s[e]
    BY <1>1, <2>2
  <2> QED BY <1>2, <2>2, <2>3
<1>4. CASE e > d
  <2>1. s[e] < t[e] /\ \A h \in 2..rank : h > e => s[h] = t[h]
    BY <1>2, <1>4
  <2> QED BY <2>1 DEF Before
<1>5. CASE e = d
  <2>1. s[d] <= t[d] /\ \A h \in 2..rank : h > d => s[h] = t[h]
    BY <1>1, <1>2, <1>5
  <2>2. SUFFICES ASSUME NEW h \in 2..rank, s[h] # t[h] PROVE Before(s, t)
    BY DEF InRow
  <2>3. PICK g \in 2..rank : s[g] # t[g] /\ \A l \in 1..rank : l > g => s[l] = t[l]
    <3>1. rank \in Nat /\ ~InRow(s, t)
      BY <1>1, <2>2 DEF InRow
    <3> QED BY <3>1, RowDiffers
  <2>4. g <= d
    BY <2>1, <2>3
  <2>5. s[g] < t[g]
    <3>1. CASE g = d
      BY <1>1, <2>1, <2>3, <3>1
    <3>2. CASE g < d
      <4>1. t[g] = space.upper[g] /\ g \in 1..rank
        <5>1. t[g] = space.upper[g]
          BY <3>2
        <5>2. g \in 1..rank
          BY <1>1
        <5> QED BY <5>1, <5>2
      <4>2. s[g] \in Int /\ t[g] \in Int /\ s[g] <= t[g] /\ s[g] # t[g]
        BY <1>1, <2>3, <4>1
      <4> QED BY <4>2
    <3> QED BY <2>4, <3>1, <3>2
  <2> QED BY <2>3, <2>5 DEF Before
<1> QED BY <1>3, <1>4, <1>5

(* After the last row there is none. *)
LEMMA LastRow ==
  ASSUME space \in Spaces, NEW t \in States, NEW s \in States,
         \A e \in 2..rank : t[e] = space.upper[e]
  PROVE  Before(s, t) \/ InRow(s, t)
<1>1. /\ rank \in Nat /\ space.upper \in [1..rank -> Int]
      /\ s \in [1..rank -> Int] /\ t \in [1..rank -> Int]
      /\ \A e \in 1..rank : s[e] <= space.upper[e]
  BY Bounded, SpaceFacts, StateFacts
<1>2. SUFFICES ASSUME NEW h \in 2..rank, s[h] # t[h] PROVE Before(s, t)
  BY DEF InRow
<1>3. PICK g \in 2..rank : s[g] # t[g] /\ \A l \in 1..rank : l > g => s[l] = t[l]
  <2>1. rank \in Nat /\ ~InRow(s, t)
    BY <1>1, <1>2 DEF InRow
  <2> QED BY <2>1, RowDiffers
<1>4. s[g] < t[g]
  BY <1>1, <1>3
<1> QED BY <1>3, <1>4 DEF Before

LEMMA CarryStep ==
  ASSUME SearchInv, carry
  PROVE  ExhaustInv'
<1> SUFFICES ASSUME algorithm = "ExhaustiveSearch" PROVE ExhaustInv'
  BY DEF ExhaustInv, carry, searchInput
<1> DEFINE below == {d \in Dimensions \ {1} : state[d] # space.upper[d]}
           least == CHOOSE x \in below : \A y \in below : x <= y
<1>1. /\ space \in Spaces /\ space' = space /\ algorithm' = algorithm
      /\ searchPc = "carry" /\ rank' = rank /\ rank > 1 /\ States' = States
      /\ result' = result /\ bestValue' = bestValue
      /\ state \in States /\ result \in States /\ bestValue = space.value[result]
      /\ \A s \in States : Before(s, state) \/ InRow(s, state) => space.value[s] <= bestValue
  BY DEF SearchInv, ExhaustInv, Seen, carry, searchInput, rank, States
<1>2. /\ rank \in Nat /\ space.lower \in [1..rank -> Int] /\ space.upper \in [1..rank -> Int]
      /\ state \in [1..rank -> Int] /\ Dimensions = 1..rank
      /\ \A e \in 1..rank : space.lower[e] <= state[e] /\ state[e] <= space.upper[e]
      /\ \A e \in 1..rank : space.lower[e] <= space.upper[e]
  BY <1>1, Bounded, SpaceFacts, StateFacts
<1>3. CASE below = {}
  <2>1. searchPc' = "returned" /\ state' = state
    <3>1. rank # 1
      BY <1>1, <1>2
    <3>2. Len(space.lower) # 1
      BY <3>1, Zenon DEF rank
    <3> QED BY <1>3, <3>2 DEF carry
  <2>2. \A e \in 2..rank : state[e] = space.upper[e]
    <3>1. ASSUME NEW e \in 2..rank, state[e] # space.upper[e] PROVE FALSE
      <4>1. e \in Dimensions \ {1}
        BY <1>2
      <4> QED BY <1>3, <3>1, <4>1
    <3> QED BY <3>1
  <2>3. \A s \in States : space.value[s] <= bestValue
    BY <1>1, <2>2, LastRow
  <2> QED BY <1>1, <2>1, <2>3 DEF ExhaustInv, Seen
<1>4. CASE below # {}
  <2>1. /\ searchPc' = "row"
        /\ state' = [e \in Dimensions |-> IF e = least THEN state[e] + 1
                                          ELSE IF e \in 2..(least - 1) THEN space.lower[e]
                                          ELSE state[e]]
    BY <1>4 DEF carry
  <2>2. least \in below /\ \A y \in below : least <= y
    <3>1. below \subseteq Nat
      BY <1>2
    <3>2. \E x \in below : \A y \in below : x <= y
      <4> HIDE DEF below
      <4> QED BY <1>4, <3>1, LeastOf
    <3> HIDE DEF below
    <3> QED BY <3>2
  <2>3. least \in 2..rank /\ state[least] # space.upper[least]
    <3> HIDE DEF least
    <3> QED BY <1>2, <2>2
  <2>4. \A e \in 2..rank : e < least => state[e] = space.upper[e]
    <3> HIDE DEF least
    <3>1. ASSUME NEW e \in 2..rank, e < least, state[e] # space.upper[e] PROVE FALSE
      <4>1. e \in below /\ ~ (least <= e)
        BY <1>2, <2>3, <3>1
      <4> QED BY <2>2, <4>1
    <3> QED BY <3>1
  <2> HIDE DEF least
  <2>5. /\ state' \in [1..rank -> Int]
        /\ \A e \in 2..rank : e < least => state'[e] = space.lower[e]
        /\ \A e \in 2..rank : e > least => state'[e] = state[e]
        /\ state'[least] = state[least] + 1 /\ state'[1] = state[1]
    BY <1>1, <1>2, <2>1, <2>3
  <2>6. state' \in States
    <3>1. \A e \in 1..rank : space.lower[e] <= state'[e] /\ state'[e] <= space.upper[e]
      BY <1>2, <2>1, <2>3
    <3> QED BY <1>1, <2>5, <3>1, StateFacts
  <2>7. ASSUME NEW s \in Seen' PROVE space.value[s] <= bestValue
    <3>1. s \in States /\ Before(s, state')
      BY <1>1, <2>1, <2>7 DEF Seen, Before
    <3>2. Before(s, state) \/ InRow(s, state)
      BY <1>1, <2>3, <2>4, <2>5, <3>1, NextRow
    <3> QED BY <1>1, <3>1, <3>2
  <2> QED BY <1>1, <2>1, <2>6, <2>7 DEF ExhaustInv
<1> QED BY <1>3, <1>4

(***************************************************************************)
(* RandomStartHillClimbing stays in the space: it starts there, as the     *)
(* bounds it mistakes begin at zero.                                       *)
(***************************************************************************)
LEMMA StartsInSpace ==
  ASSUME space \in Spaces, \A d \in Dimensions : space.lower[d] = 0
  PROVE  randomAssignment \subseteq States
<1> DEFINE width(d) == space.upper[d] - space.lower[d]
           widest == CHOOSE w \in {width(d) : d \in Dimensions} :
                       \A d \in Dimensions : width(d) <= w
           draws == [Dimensions -> 0..widest]
<1>1. /\ rank \in Nat \ {0} /\ Dimensions = 1..rank
      /\ space.lower \in [1..rank -> Int] /\ space.upper \in [1..rank -> Int]
  BY SpaceFacts
<1>2. widest \in Int
  <2> DEFINE f == [d \in 1..rank |-> width(d)]
  <2>1. f \in [1..rank -> Int] /\ 1 <= rank /\ rank \in Int
    BY <1>1
  <2>2. PICK x \in 1..rank : \A y \in 1..rank : f[y] <= f[x]
    <3> HIDE DEF f
    <3> QED BY <2>1, BestDimension
  <2>3. width(x) \in {width(d) : d \in Dimensions} /\ \A d \in Dimensions : width(d) <= width(x)
    BY <1>1, <2>2
  <2>4. widest \in {width(d) : d \in Dimensions}
    <3> HIDE DEF width
    <3> QED BY <2>3
  <2>5. \A d \in Dimensions : width(d) \in Int
    BY <1>1
  <2> HIDE DEF widest, width
  <2> QED BY <2>4, <2>5
<1> HIDE DEF widest
<1>3. ASSUME NEW r \in draws, \A d \in Dimensions : r[d] <= width(d)
      PROVE  [d \in Dimensions |-> r[d] - space.lower[d]] \in States
  <2> DEFINE s == [d \in Dimensions |-> r[d] - space.lower[d]]
  <2>1. \A d \in 1..rank : r[d] \in Int /\ 0 <= r[d]
    BY <1>1, <1>2
  <2>2. s \in [1..rank -> Int]
    BY <1>1, <2>1
  <2>3. \A d \in 1..rank : space.lower[d] <= s[d] /\ s[d] <= space.upper[d]
    BY <1>1, <1>3, <2>1
  <2> HIDE DEF s
  <2>4. s \in States
    BY <2>2, <2>3, StateFacts
  <2> QED BY <2>4 DEF s
<1>4. randomAssignment =
        {[d \in Dimensions |-> r[d] - space.lower[d]] :
           r \in {q \in draws : \A d \in Dimensions : q[d] <= width(d)}}
  BY DEF randomAssignment, widest
<1> HIDE DEF draws, width
<1> QED BY <1>3, <1>4

LEMMA ValueInSpace ==
  ASSUME space \in Spaces, NEW s \in States
  PROVE  ValueOf(s) = {space.value[s]} /\ space.value[s] \in Int
BY SpaceFacts, StateFacts DEF ValueOf

LEMMA NeighboursInSpace ==
  ASSUME space \in Spaces, state \in States
  PROVE  Neighbours \subseteq States /\ state \in Neighbours
<1>1. /\ rank \in Nat \ {0} /\ Dimensions = 1..rank
      /\ state \in [1..rank -> Int] /\ InSpace(state)
  BY SpaceFacts, StateFacts
<1>2. \A d \in Dimensions : \A k \in space.lower[d]..space.upper[d] :
        [state EXCEPT ![d] = k] \in States
  BY <1>1, Moved
<1>3. 1 \in Dimensions /\ state[1] \in space.lower[1]..space.upper[1]
      /\ state = [state EXCEPT ![1] = state[1]]
  BY <1>1 DEF InSpace
<1> QED BY <1>2, <1>3 DEF Neighbours

(* No neighbour is better than some one of them. *)
LEMMA BestNeighbour ==
  ASSUME space \in Spaces, state \in States
  PROVE  \E s \in Neighbours : \A t \in Neighbours : space.value[t] <= space.value[s]
<1> DEFINE moved(d, k) == [state EXCEPT ![d] = k]
           range(d) == space.lower[d]..space.upper[d]
           Tops(d, x) == \A y \in range(d) : space.value[moved(d, y)] <= space.value[moved(d, x)]
           top(d) == CHOOSE x \in range(d) : Tops(d, x)
<1>1. /\ rank \in Nat \ {0} /\ Dimensions = 1..rank
      /\ space.lower \in [1..rank -> Int] /\ space.upper \in [1..rank -> Int]
      /\ \A d \in 1..rank : space.lower[d] <= space.upper[d]
      /\ space.value \in [States -> Int]
  BY SpaceFacts
<1>2. \A d \in 1..rank : \A k \in range(d) : moved(d, k) \in States
  BY Moved
<1>3. ASSUME NEW d \in 1..rank PROVE top(d) \in range(d) /\ Tops(d, top(d))
  <2> DEFINE f == [x \in range(d) |-> space.value[moved(d, x)]]
  <2>1. f \in [range(d) -> Int]
    BY <1>1, <1>2
  <2>2. space.lower[d] \in Int /\ space.upper[d] \in Int /\ space.lower[d] <= space.upper[d]
    BY <1>1
  <2>3. \E x \in range(d) : \A y \in range(d) : f[y] <= f[x] /\ (y < x => f[y] < f[x])
    <3> HIDE DEF f
    <3> QED BY <2>1, <2>2, FirstBest
  <2>4. \E x \in range(d) : Tops(d, x)
    BY <2>3
  <2> HIDE DEF Tops, range
  <2> QED BY <2>4
<1> DEFINE g == [d \in 1..rank |-> space.value[moved(d, top(d))]]
<1>4. PICK d \in 1..rank : \A e \in 1..rank : g[e] <= g[d]
  <2>1. g \in [1..rank -> Int]
    <3> HIDE DEF top, moved, range, Tops
    <3> QED BY <1>1, <1>2, <1>3
  <2>2. 1 <= rank /\ rank \in Int
    BY <1>1
  <2> HIDE DEF g
  <2> QED BY <2>1, <2>2, BestDimension
<1>5. ASSUME NEW e \in 1..rank, NEW k \in range(e)
      PROVE  space.value[moved(e, k)] <= space.value[moved(d, top(d))]
  <2>1. space.value[moved(e, k)] <= space.value[moved(e, top(e))]
    <3> HIDE DEF top, moved, range
    <3> QED BY <1>3
  <2>2. space.value[moved(e, top(e))] <= space.value[moved(d, top(d))]
    <3> HIDE DEF top, moved, range, Tops
    <3> QED BY <1>4
  <2>3. /\ space.value[moved(e, k)] \in Int /\ space.value[moved(e, top(e))] \in Int
        /\ space.value[moved(d, top(d))] \in Int
    <3> HIDE DEF top, moved, range, Tops
    <3> QED BY <1>1, <1>2, <1>3
  <2> HIDE DEF top, moved
  <2> QED BY <2>1, <2>2, <2>3
<1>6. Neighbours = UNION {{moved(e, k) : k \in range(e)} : e \in 1..rank}
  BY <1>1 DEF Neighbours
<1>7. moved(d, top(d)) \in Neighbours
  <2> HIDE DEF top, moved, range, Tops
  <2> QED BY <1>3, <1>6
<1>8. \A t \in Neighbours : space.value[t] <= space.value[moved(d, top(d))]
  <2> HIDE DEF top, moved, range, Tops
  <2> QED BY <1>5, <1>6
<1> QED BY <1>7, <1>8

LEMMA ClimbStep ==
  ASSUME SearchInv, climb
  PROVE  ClimbInv'
<1> SUFFICES ASSUME algorithm = "RandomStartHillClimbing" PROVE ClimbInv'
  BY DEF ClimbInv, climb, searchInput
<1> DEFINE values == {newValue} \cup UNION {ValueOf(s) : s \in Neighbours}
           best == CHOOSE x \in values : \A y \in values : y <= x
           candidates == {s \in Neighbours : best \in ValueOf(s)}
<1>1. /\ space \in Spaces /\ state \in States /\ newValue = space.value[state]
      /\ \A d \in Dimensions : space.lower[d] = 0
      /\ attempt \in Nat
      /\ searchPc = "climb"
      /\ UNCHANGED <<space, algorithm, result, bestValue, attempt, ended>>
      /\ States' = States /\ Dimensions' = Dimensions
  BY DEF SearchInv, ClimbInv, climb, searchInput, States, Dimensions
<1>2. Neighbours \subseteq States /\ state \in Neighbours
  BY <1>1, NeighboursInSpace
<1>3. \A s \in Neighbours : ValueOf(s) = {space.value[s]}
  BY <1>1, <1>2, ValueInSpace
<1>4. values = {space.value[s] : s \in Neighbours}
  BY <1>1, <1>2, <1>3
<1>5. best \in values
  <2>1. \E x \in values : \A y \in values : y <= x
    <3> HIDE DEF values
    <3> QED BY <1>1, <1>4, BestNeighbour
  <2> HIDE DEF values
  <2> QED BY <2>1
<1>6. candidates # {}
  <2> HIDE DEF values, best
  <2> QED BY <1>3, <1>4, <1>5
<1>7. state' \in candidates /\ newValue' = best /\ searchPc' = "climb"
  BY <1>1, <1>6 DEF climb
<1>8. state' \in States /\ newValue' = space.value[state']
  <2> HIDE DEF values, best
  <2> QED BY <1>2, <1>3, <1>7
<1> QED BY <1>1, <1>7, <1>8 DEF SearchInv, ClimbInv

(***************************************************************************)
(* Both.                                                                   *)
(***************************************************************************)
LEMMA SearchInvStep ==
  ASSUME SearchInv, [SearchNext]_searchVars
  PROVE  SearchInv'
<1>1. algorithm' = algorithm /\ space' = space /\ States' = States
      /\ rank' = rank /\ Dimensions' = Dimensions
  BY DEF SearchNext, searchVars, searchInput, exhaust, searchRow, carry, climbStart, climb,
     climbEnd, climbReturn, States, rank, Dimensions
<1>2. algorithm' \in {"ExhaustiveSearch", "RandomStartHillClimbing"} /\ space' \in Spaces
  BY <1>1 DEF SearchInv
<1>3. CASE UNCHANGED searchVars
  BY <1>1, <1>2, <1>3 DEF SearchInv, ExhaustInv, ClimbInv, Seen, Before, InRow, searchVars
<1>4. CASE exhaust \/ searchRow \/ carry
  <2>1. ExhaustInv'
    BY <1>4, ExhaustStep, RowStep, CarryStep
  <2>2. algorithm = "ExhaustiveSearch"
    BY <1>4 DEF exhaust, searchRow, carry, SearchInv, ClimbInv
  <2> QED BY <1>1, <1>2, <2>1, <2>2 DEF SearchInv, ClimbInv
<1>5. CASE climbStart \/ climb \/ climbEnd \/ climbReturn
  <2>1. algorithm = "RandomStartHillClimbing"
    BY <1>5 DEF climbStart, climb, climbEnd, climbReturn, SearchInv, ExhaustInv
  <2>2. /\ space \in Spaces /\ \A d \in Dimensions : space.lower[d] = 0
        /\ attempt \in Nat
        /\ attempt = 0 => ended = {}
        /\ attempt > 0 => result \in ended /\ bestValue = space.value[result]
        /\ \A s \in ended : s \in States /\ space.value[s] <= space.value[result]
        /\ searchPc = "climb" => state \in States /\ newValue = space.value[state]
    BY <2>1 DEF SearchInv, ClimbInv
  <2>3. CASE climbStart
    <3>1. /\ state' \in randomAssignment /\ newValue' \in ValueOf(state')
          /\ searchPc' = "climb" /\ UNCHANGED <<result, bestValue, attempt, ended>>
      BY <2>3 DEF climbStart
    <3>2. state' \in States
      BY <2>2, <3>1, StartsInSpace
    <3>3. ValueOf(state') = {space.value[state']}
      BY <2>2, <3>2, ValueInSpace
    <3> QED BY <1>1, <1>2, <2>1, <2>2, <3>1, <3>2, <3>3 DEF SearchInv, ExhaustInv, ClimbInv
  <2>4. CASE climb
    <3>1. ClimbInv'
      BY <2>4, ClimbStep
    <3> QED BY <1>1, <1>2, <2>1, <3>1 DEF SearchInv, ExhaustInv
  <2>5. CASE climbEnd
    <3>1. /\ searchPc = "climb" /\ searchPc' = "begin" /\ attempt' = attempt + 1
          /\ ended' = ended \cup {state}
      BY <2>5 DEF climbEnd
    <3>2. /\ state \in States /\ newValue = space.value[state] /\ newValue \in Int
          /\ \A s \in ended : space.value[s] \in Int
      BY <2>2, <3>1, SpaceFacts
    <3>3. /\ result' \in ended' /\ bestValue' = space.value[result']
          /\ \A s \in ended' : s \in States /\ space.value[s] <= space.value[result']
      <4>1. CASE attempt = 0 \/ newValue > bestValue
        <5>1. result' = state /\ bestValue' = newValue
          BY <2>5, <4>1 DEF climbEnd
        <5>2. ASSUME NEW s \in ended PROVE space.value[s] <= newValue
          <6>1. attempt > 0 /\ newValue > bestValue /\ bestValue = space.value[result]
                /\ result \in ended
            BY <2>2, <4>1, <5>2
          <6> QED BY <2>2, <3>2, <5>2, <6>1
        <5> QED BY <2>2, <3>1, <3>2, <5>1, <5>2
      <4>2. CASE ~ (attempt = 0 \/ newValue > bestValue)
        <5>1. result' = result /\ bestValue' = bestValue /\ attempt > 0
          BY <2>2, <2>5, <4>2 DEF climbEnd
        <5>2. newValue <= space.value[result]
          BY <2>2, <3>2, <4>2, <5>1
        <5> QED BY <2>2, <3>1, <3>2, <5>1, <5>2
      <4> QED BY <4>1, <4>2
    <3> QED BY <1>1, <1>2, <2>1, <2>2, <3>1, <3>3 DEF SearchInv, ExhaustInv, ClimbInv
  <2>6. CASE climbReturn
    BY <1>1, <1>2, <2>1, <2>2, <2>6 DEF SearchInv, ExhaustInv, ClimbInv, climbReturn
  <2> QED BY <1>5, <2>3, <2>4, <2>5, <2>6
<1> QED BY <1>3, <1>4, <1>5 DEF SearchNext

LEMMA SearchInvFinds == SearchInv => FindsBest
<1> SUFFICES ASSUME SearchInv PROVE FindsBest
  OBVIOUS
<1>1. space \in Spaces
  BY DEF SearchInv
<1>2. DOMAIN space.value = States /\ \A s \in States : InSpace(s)
  BY <1>1, SpaceFacts, StateFacts
<1>3. CASE algorithm = "ExhaustiveSearch"
  BY <1>2, <1>3 DEF SearchInv, ExhaustInv, Seen, FindsBest
<1>4. CASE algorithm = "RandomStartHillClimbing"
  BY <1>2, <1>4 DEF SearchInv, ClimbInv, FindsBest, KeepsTheBest
<1> QED BY <1>3, <1>4 DEF SearchInv

(* Where a search has more than one dimension the counting of              *)
(* ExhaustiveSearch leaves no state out, and where the bounds of a space   *)
(* begin at zero RandomStartHillClimbing knows the value of its state and  *)
(* keeps the best state in which an attempt ended.                         *)
THEOREM FindsBestAlways ==
  ASSUME ~SearchDefects
  PROVE  (\E in \in SearchInputs : SearchStart(in)) /\ [][SearchNext]_searchVars => []FindsBest
<1>1. (\E in \in SearchInputs : SearchStart(in)) => SearchInv
  BY SearchInvInit
<1>2. SearchInv /\ [SearchNext]_searchVars => SearchInv'
  BY SearchInvStep
<1> QED BY <1>1, <1>2, SearchInvFinds, PTL

(***************************************************************************)
(* After an error the JSON parsers report and deliver nothing more, for    *)
(* texts and structures of any size and depth.                             *)
(*                                                                         *)
(* A call that has not returned is at "begin" or waits for a callee.  Those*)
(* below the top of the stack wait; after an error the top one waits, too, *)
(* and every call that waited asks errorHandler.valid() first.  What is on *)
(* the stack has no type that could be written down, since the structures  *)
(* nest: only that each frame has a pc is needed.                          *)
(***************************************************************************)
Frames == {stack[k] : k \in DOMAIN stack}

JsonInv ==
  /\ stack \in Seq(Frames)
  /\ \A k \in 1..Len(stack) : "pc" \in DOMAIN stack[k]
  /\ \A k \in 2..Len(stack) : stack[k].pc # "begin"
  /\ stack # <<>> /\ ~valid => Top.pc # "begin"

(***************************************************************************)
(* What a step does to the stack.                                          *)
(***************************************************************************)
Pops == stack # <<>> /\ stack' = Tail(stack) /\ (~valid => UNCHANGED <<errors, dest>>)
Stays == valid /\ UNCHANGED <<stack, errors>>
Pushes ==
  /\ valid /\ stack # <<>> /\ UNCHANGED errors
  /\ \E callee, frame :
       /\ "pc" \in DOMAIN callee /\ "pc" \in DOMAIN frame
       /\ frame.pc # "begin"
       /\ stack' = <<callee, frame>> \o Tail(stack)

Shape == Pops \/ Stays \/ Pushes

LEMMA JsonStarts ==
  ASSUME NEW in, JsonStart(in) PROVE JsonInv
<1>1. stack = <<Parser(schema)>> /\ valid
  BY DEF JsonStart, valid
<1>2. "pc" \in DOMAIN Parser(schema)
  BY DEF Parser, Frame
<1>3. Len(stack) = 1 /\ stack[1] = Parser(schema) /\ DOMAIN stack = {1}
  BY <1>1
<1>4. stack \in Seq(Frames)
  BY <1>1, <1>3 DEF Frames
<1>5. QED
  BY <1>1, <1>2, <1>3, <1>4 DEF JsonInv

LEMMA OverItsElements ==
  ASSUME NEW F, NEW s \in Seq(F) PROVE s \in Seq({s[k] : k \in DOMAIN s})
  OBVIOUS

LEMMA PopsKeeps == ASSUME JsonInv, Pops PROVE JsonInv'
<1>1. /\ stack' \in Seq(Frames) /\ Len(stack') = Len(stack) - 1
      /\ \A k \in 1..Len(stack') : stack'[k] = stack[k + 1]
  BY DEF JsonInv, Pops
<1>2. stack' \in Seq(Frames')
  BY <1>1, OverItsElements DEF Frames
<1>3. Len(stack) \in Nat
  BY DEF JsonInv
<1>4. /\ \A k \in 1..Len(stack') : "pc" \in DOMAIN stack'[k]
      /\ \A k \in 1..Len(stack') : stack'[k].pc # "begin"
  BY <1>1, <1>3 DEF JsonInv
<1>5. stack' # <<>> => Top' = stack'[1] /\ Len(stack') >= 1
  BY <1>1 DEF Top
<1>6. QED
  BY <1>1, <1>2, <1>4, <1>5 DEF JsonInv

LEMMA StaysKeeps == ASSUME JsonInv, Stays PROVE JsonInv'
  BY DEF JsonInv, Stays, Frames, Top, valid

LEMMA PushesKeeps == ASSUME JsonInv, Pushes PROVE JsonInv'
<1>1. PICK callee, frame :
        /\ "pc" \in DOMAIN callee /\ "pc" \in DOMAIN frame
        /\ frame.pc # "begin"
        /\ stack' = <<callee, frame>> \o Tail(stack)
  BY DEF Pushes
<1> DEFINE F == Frames \cup {callee, frame}
<1>2. Tail(stack) \in Seq(F) /\ Len(Tail(stack)) = Len(stack) - 1 /\ Len(stack) \in Nat
      /\ \A k \in 1..Len(Tail(stack)) : Tail(stack)[k] = stack[k + 1]
  BY DEF JsonInv, Pushes
<1>3. <<callee, frame>> \in Seq(F) /\ Len(<<callee, frame>>) = 2
  OBVIOUS
<1>4. /\ stack' \in Seq(F) /\ Len(stack') = Len(stack) + 1
      /\ stack'[1] = callee /\ stack'[2] = frame
      /\ \A k \in 3..Len(stack') : stack'[k] = stack[k - 1]
  BY <1>1, <1>2, <1>3
<1>5. stack' \in Seq(Frames')
  BY <1>4, OverItsElements DEF Frames
<1>6. \A k \in 1..Len(stack') : "pc" \in DOMAIN stack'[k]
  <2> SUFFICES ASSUME NEW k \in 1..Len(stack') PROVE "pc" \in DOMAIN stack'[k]
    OBVIOUS
  <2>1. CASE k \in {1, 2}
    BY <1>1, <1>4, <2>1
  <2>2. CASE k \in 3..Len(stack')
    BY <1>2, <1>4, <2>2 DEF JsonInv
  <2>3. QED
    BY <1>2, <1>4, <2>1, <2>2
<1>7. \A k \in 2..Len(stack') : stack'[k].pc # "begin"
  BY <1>1, <1>2, <1>4 DEF JsonInv
<1>8. valid'
  BY DEF Pushes, valid
<1>9. QED
  BY <1>5, <1>6, <1>7, <1>8 DEF JsonInv

LEMMA ShapeKeeps == ASSUME JsonInv, Shape PROVE JsonInv'
  BY PopsKeeps, StaysKeeps, PushesKeeps DEF Shape

(***************************************************************************)
(* Every step has one of the shapes.                                       *)
(***************************************************************************)
LEMMA AtBegin ==
  ASSUME JsonInv, NEW parser, At(parser, "begin") PROVE valid /\ stack # <<>>
  BY DEF JsonInv, At

LEMMA ReturnShape ==
  ASSUME stack # <<>>, NEW j, Return(j) PROVE Shape
  BY DEF Return, Shape, Pops

LEMMA ReportShape ==
  ASSUME valid, stack # <<>>, NEW kind, NEW at, NEW j, Report(kind, at, j) PROVE Shape
  BY DEF Report, Shape, Pops

LEMMA ErrorShape ==
  ASSUME valid, stack # <<>>, prematureEnd \/ \E j : malformedJson(j) PROVE Shape
  BY ReportShape DEF prematureEnd, malformedJson

LEMMA GiveShape ==
  ASSUME valid, stack # <<>>, NEW what, NEW j, NEW returns \in BOOLEAN, Give(what, j, returns)
  PROVE  Shape
<1>1. CASE returns
  BY <1>1 DEF Give, Shape, Pops
<1>2. CASE ~returns
  BY <1>2 DEF Give, Shape, Stays
<1>3. QED
  BY <1>1, <1>2

LEMMA CallShape ==
  ASSUME valid, stack # <<>>, NEW callee, NEW frame, NEW j, Call(callee, frame, j),
         "pc" \in DOMAIN callee, "pc" \in DOMAIN frame, frame.pc # "begin"
  PROVE  Shape
  BY DEF Call, Shape, Pushes

LEMMA FrameHasPc ==
  ASSUME NEW parser, NEW expected, NEW policy
  PROVE  "pc" \in DOMAIN Frame(parser, expected, policy)
  BY DEF Frame

LEMMA TopHasPc == ASSUME JsonInv, stack # <<>> PROVE "pc" \in DOMAIN Top
  BY DEF JsonInv, Top

LEMMA GoOnWaits ==
  ASSUME JsonInv, stack # <<>>, NEW pc, pc # "begin"
  PROVE  "pc" \in DOMAIN GoOn(pc) /\ GoOn(pc).pc # "begin"
  BY TopHasPc DEF GoOn

(* A call of a parser that is still to go on. *)
LEMMA CallsAndGoesOn ==
  ASSUME JsonInv, valid, stack # <<>>, NEW parser, NEW expected, NEW policy, NEW pc,
         pc # "begin", NEW j, Call(Frame(parser, expected, policy), GoOn(pc), j)
  PROVE  Shape
  BY CallShape, FrameHasPc, GoOnWaits

LEMMA OpenShape ==
  ASSUME JsonInv, valid, stack # <<>>, NEW char, NEW parser, NEW expected, NEW policy, NEW pc,
         pc # "begin", Open(char, Frame(parser, expected, policy), pc)
  PROVE  Shape
  BY CallsAndGoesOn, ErrorShape DEF Open

LEMMA CloseShape == ASSUME stack # <<>>, NEW char, Close(char) PROVE Shape
  BY ReturnShape, ErrorShape DEF Close

LEMMA parseObjectShape == ASSUME JsonInv, parseObject PROVE Shape
<1>1. CASE At("object", "begin")
  BY <1>1, AtBegin, OpenShape, CloseShape DEF parseObject, At
<1>2. CASE At("object", "body") /\ Close("}")
  BY <1>2, CloseShape DEF At
<1>3. QED
  BY <1>1, <1>2 DEF parseObject

LEMMA parseStringShape == ASSUME JsonInv, parseString PROVE Shape
<1>1. CASE At("string", "begin") /\ Open(Quote, Frame("chars", Top.expected, spacePolicy), "chars")
  BY <1>1, AtBegin, OpenShape
<1>2. CASE At("name", "begin")
           /\ Open(Quote, Frame("propNameParser", Top.expected, "noSpaces"), "chars")
  BY <1>2, AtBegin, OpenShape
<1>3. CASE (At("string", "chars") \/ At("name", "chars")) /\ Close(Quote)
  BY <1>3, CloseShape DEF At
<1>4. QED
  BY <1>1, <1>2, <1>3 DEF parseString

LEMMA parseCharsToUTF8Shape == ASSUME JsonInv, parseCharsToUTF8 PROVE Shape
<1>1. valid /\ stack # <<>>
  BY AtBegin DEF parseCharsToUTF8
<1>2. QED
  BY <1>1, ErrorShape, ReturnShape, GiveShape DEF parseCharsToUTF8

LEMMA parseArrayShape == ASSUME JsonInv, parseArray PROVE Shape
<1>1. stack # <<>>
  BY DEF parseArray, At
<1>2. ASSUME valid, NEW j, parseElement(j) PROVE Shape
  BY <1>1, <1>2, CallsAndGoesOn DEF parseElement, Parser
<1>3. CASE At("array", "begin")
  <2>1. valid
    BY <1>3, AtBegin
  <2>2. ~At("array", "element")
    BY <1>3 DEF At
  <2>3. QED
    BY <1>1, <1>2, <2>1, <2>2, ErrorShape, ReturnShape DEF parseArray
<1>4. CASE At("array", "element")
  <2>1. ~At("array", "begin")
    BY <1>4 DEF At
  <2>2. QED
    BY <1>1, <1>2, <2>1, ErrorShape, ReturnShape DEF parseArray
<1>5. QED
  BY <1>3, <1>4 DEF parseArray

LEMMA parseNumberShape == ASSUME JsonInv, parseNumber PROVE Shape
<1>1. CASE At("number", "begin")
           /\ Call(Frame("digits", Top.expected, spacePolicy), GoOn("digits"), skipLeadingSpaces(i))
  BY <1>1, AtBegin, CallsAndGoesOn
<1>2. CASE At("number", "digits") /\ Return(skipTrailingSpaces(i))
  BY <1>2, ReturnShape DEF At
<1>3. QED
  BY <1>1, <1>2 DEF parseNumber

LEMMA digitsShape == ASSUME JsonInv, digits PROVE Shape
<1>1. valid /\ stack # <<>>
  BY AtBegin DEF digits
<1>2. QED
  BY <1>1, ErrorShape, GiveShape DEF digits

LEMMA MatchShape == ASSUME valid, stack # <<>>, NEW j, Match(j) PROVE Shape
  BY ErrorShape, GiveShape DEF Match

LEMMA parseBooleanShape ==
  ASSUME JsonInv, parseBooleanForward \/ parseBooleanRandomAccess PROVE Shape
<1>1. valid /\ stack # <<>>
  BY AtBegin DEF parseBooleanForward, parseBooleanRandomAccess
<1>2. QED
  BY <1>1, ErrorShape, MatchShape DEF parseBooleanForward, parseBooleanRandomAccess

LEMMA parseSeparatorShape ==
  ASSUME JsonInv, NEW parser, NEW char, parseSeparator(parser, char) PROVE Shape
<1>1. valid /\ stack # <<>>
  BY AtBegin DEF parseSeparator
<1>2. QED
  BY <1>1, ErrorShape, ReportShape, ReturnShape DEF parseSeparator

LEMMA propNameParserShape == ASSUME JsonInv, propNameParser PROVE Shape
<1>1. stack # <<>> /\ valid
  BY AtBegin DEF propNameParser
<1>2. stack' = Tail(stack)
  BY DEF propNameParser
<1>3. QED
  BY <1>1, <1>2 DEF Shape, Pops

LEMMA parsePropertyValueShape == ASSUME JsonInv, parsePropertyValue PROVE Shape
<1>1. stack # <<>>
  BY DEF parsePropertyValue, At
<1>2. CASE At("property", "begin")
           /\ Call(Frame("name", Top.expected, "noSpaces"), GoOn("name"), skipLeadingSpaces(i))
  BY <1>2, AtBegin, CallsAndGoesOn
<1>3. CASE /\ At("property", "name")
           /\ IF ~valid THEN Return(End)
              ELSE IF ~equal(Top.expected.name, realPropName) THEN malformedJson(i)
              ELSE Call(Frame("colon", Top.expected, Top.policy), GoOn("colon"), i)
  BY <1>1, <1>3, ReturnShape, ErrorShape, CallsAndGoesOn
<1>4. CASE /\ At("property", "colon")
           /\ IF ~valid THEN Return(End)
              ELSE Call(Parser(Top.expected.value), GoOn("value"), i)
  BY <1>1, <1>4, ReturnShape, CallsAndGoesOn DEF Parser
<1>5. CASE /\ At("property", "value")
           /\ IF ~valid THEN Return(End) ELSE Return(skipTrailingSpaces(i))
  BY <1>1, <1>5, ReturnShape
<1>6. QED
  BY <1>2, <1>3, <1>4, <1>5 DEF parsePropertyValue

LEMMA parseNextShape == ASSUME JsonInv, valid, stack # <<>>, parseNext PROVE Shape
<1> DEFINE frame == [Top EXCEPT !.pc = "property", !.done = @ + 1]
<1>1. "pc" \in DOMAIN frame /\ frame.pc # "begin"
  BY TopHasPc
<1>2. QED
  BY <1>1, CallShape, FrameHasPc DEF parseNext

LEMMA bodyShape == ASSUME JsonInv, body PROVE Shape
<1>1. stack # <<>>
  BY DEF body, At
<1>2. CASE /\ At("body", "begin")
           /\ IF Top.expected.properties = <<>> THEN Return(i) ELSE parseNext
  BY <1>1, <1>2, AtBegin, ReturnShape, parseNextShape
<1>3. CASE /\ At("body", "property")
           /\ IF ~valid \/ Top.done = Len(Top.expected.properties) THEN Return(i)
              ELSE Call(Frame("comma", Top.expected, spacePolicy), GoOn("comma"), i)
  BY <1>1, <1>3, ReturnShape, CallsAndGoesOn
<1>4. CASE /\ At("body", "comma")
           /\ IF ~valid THEN Return(i) ELSE parseNext
  BY <1>1, <1>4, ReturnShape, parseNextShape
<1>5. QED
  BY <1>2, <1>3, <1>4 DEF body

LEMMA EveryStepHasShape == ASSUME JsonInv, JsonNext PROVE Shape
  BY parseObjectShape, bodyShape, parseArrayShape, parseStringShape, parseCharsToUTF8Shape,
     parseNumberShape, digitsShape, parseBooleanShape, parsePropertyValueShape,
     propNameParserShape, parseSeparatorShape
  DEF JsonNext, parseColon, parseComma

LEMMA JsonStep ==
  ASSUME JsonInv, [JsonNext]_jsonVars
  PROVE  JsonInv' /\ [~valid => UNCHANGED <<errors, dest>>]_jsonVars
<1>1. CASE UNCHANGED jsonVars
  BY <1>1 DEF jsonVars, JsonInv, Frames, Top, valid
<1>2. CASE JsonNext
  BY <1>2, EveryStepHasShape, ShapeKeeps DEF Shape, Pops, Stays, Pushes
<1>3. QED
  BY <1>1, <1>2

(* Once the ErrorHandler has been told of an error, the parsers on the     *)
(* stack return without reporting or delivering anything more, for any     *)
(* document and any way its structure nests (json.hpp:84-85, 121-123,      *)
(* 159-161, 334-350).                                                      *)
THEOREM StopsAtErrorAlways == JsonSpec => StopsAtError
<1>1. (\E in \in JsonInputs : JsonStart(in)) => JsonInv
  BY JsonStarts
<1>2. QED
  BY <1>1, JsonStep, PTL DEF JsonSpec, StopsAtError

(***************************************************************************)
(* Where the parsers are in the text.                                      *)
(***************************************************************************)
(* What a step does to the iterator, to the name and to the errors. *)
Moves ==
  /\ text' = text /\ i' \in i..End
  /\ propName' = propName \/ \E b \in i..End : \E e \in b..End : propName' = <<b, e>>
  /\ \/ errors' = errors
     \/ \E kind : \E at \in i..End : errors' = Append(errors, [kind |-> kind, at |-> at])

InText == Len(text) \in Nat /\ i \in 1..End

LEMMA LeastBetween ==
  ASSUME NEW a \in Nat, NEW b \in Nat, a <= b, NEW T \in SUBSET (a..b), b \in T
  PROVE  \E k \in T : \A m \in a..(k - 1) : m \notin T
<1>1. T \subseteq Nat /\ T # {}
  OBVIOUS
<1>2. PICK k \in T : \A m \in T : k <= m
  BY <1>1, LeastOf
<1>3. \A m \in a..(k - 1) : m \notin T
  BY <1>2
<1> QED BY <1>3

LEMMA BehindIs ==
  ASSUME Len(text) \in Nat, NEW j \in 1..End, NEW chars PROVE Behind(chars, j) \in j..End
<1> DEFINE T == {k \in j..End : k = End \/ text[k] \notin chars}
<1>1. j \in Nat /\ End \in Nat /\ j <= End /\ T \in SUBSET (j..End) /\ End \in T
  BY DEF End
<1>2. PICK k \in T : \A m \in j..(k - 1) : m \notin T
  <2> HIDE DEF T
  <2> QED BY <1>1, LeastBetween
<1>3. \A m \in j..(k - 1) : text[m] \in chars
  BY <1>1, <1>2
<1>4. \E n \in j..End : /\ \A m \in j..(n - 1) : text[m] \in chars
                        /\ n = End \/ text[n] \notin chars
  BY <1>2, <1>3
<1> QED BY <1>4 DEF Behind

LEMMA SkipsForward ==
  ASSUME Len(text) \in Nat, NEW j \in 1..End
  PROVE  skipLeadingSpaces(j) \in j..End /\ skipTrailingSpaces(j) \in j..End
<1>1. skipSpaces(j) \in j..End
  BY BehindIs DEF skipSpaces
<1>2. j \in j..End
  BY DEF End
<1> QED BY <1>1, <1>2 DEF skipLeadingSpaces, skipTrailingSpaces

LEMMA DiffersIs ==
  ASSUME Len(text) \in Nat, NEW j \in 1..End, NEW word, Len(word) \in Nat
  PROVE  Differs(word, j) \in j..End /\ Differs(word, j) <= j + Len(word)
<1> DEFINE S == {n \in j..End : n <= j + Len(word)}
           last == IF End <= j + Len(word) THEN End ELSE j + Len(word)
           T == {k \in S : k = j + Len(word) \/ k = End \/ text[k] # word[k - j + 1]}
<1>1. j \in Nat /\ End \in Nat /\ j <= End /\ last \in Nat /\ j <= last /\ last \in S
      /\ S \subseteq j..last /\ (last = End \/ last = j + Len(word))
  BY DEF End
<1>2. T \in SUBSET (j..last) /\ last \in T
  BY <1>1
<1>3. PICK k \in T : \A m \in j..(k - 1) : m \notin T
  <2> HIDE DEF T, last
  <2> QED BY <1>1, <1>2, LeastBetween
<1>4. ASSUME NEW m \in j..(k - 1) PROVE text[m] = word[m - j + 1]
  <2>1. k \in j..End /\ k <= j + Len(word) /\ m \in S
    BY <1>1, <1>3
  <2> QED BY <1>3, <2>1
<1>5. \E n \in S : /\ \A m \in j..(n - 1) : text[m] = word[m - j + 1]
                   /\ n = j + Len(word) \/ n = End \/ text[n] # word[n - j + 1]
  BY <1>3, <1>4
<1>6. Differs(word, j) \in S
  BY <1>5 DEF Differs
<1> QED BY <1>6

LEMMA ReturnMoves == ASSUME NEW j \in i..End, Return(j) PROVE Moves
  BY DEF Return, Moves, jsonInput

LEMMA CallMoves ==
  ASSUME NEW j \in i..End, NEW callee, NEW frame, Call(callee, frame, j) PROVE Moves
  BY DEF Call, Moves, jsonInput

LEMMA GiveMoves ==
  ASSUME NEW j \in i..End, NEW what, NEW returns, Give(what, j, returns) PROVE Moves
  BY DEF Give, Moves, jsonInput

LEMMA ReportMoves ==
  ASSUME NEW kind, NEW at \in i..End, NEW j \in i..End, Report(kind, at, j) PROVE Moves
  BY DEF Report, Moves, jsonInput

LEMMA ErrorMoves ==
  ASSUME InText, prematureEnd \/ \E j \in i..End : malformedJson(j) PROVE Moves
<1>1. End \in i..End
  BY DEF InText, End
<1> QED BY <1>1, ReportMoves DEF prematureEnd, malformedJson

(***************************************************************************)
(* Every parser.                                                           *)
(***************************************************************************)
LEMMA NextMoves ==
  ASSUME InText, NEW j \in i..End, j # End
  PROVE  j + 1 \in i..End /\ skipTrailingSpaces(j + 1) \in i..End
<1>1. j + 1 \in i..End /\ j + 1 \in 1..End /\ i \in Nat /\ j \in Nat
  BY DEF InText, End
<1>2. skipTrailingSpaces(j + 1) \in (j + 1)..End
  BY <1>1, SkipsForward DEF InText
<1> QED BY <1>1, <1>2 DEF InText, End

LEMMA Here ==
  ASSUME InText
  PROVE  i \in i..End /\ End \in i..End /\ skipLeadingSpaces(i) \in i..End
         /\ skipTrailingSpaces(i) \in i..End
<1>1. Len(text) \in Nat /\ i \in 1..End /\ End \in Nat /\ i \in Nat /\ i <= End
  BY DEF InText, End
<1>2. skipLeadingSpaces(i) \in i..End /\ skipTrailingSpaces(i) \in i..End
  BY <1>1, SkipsForward
<1> QED BY <1>1, <1>2

LEMMA OpenMoves == ASSUME InText, NEW char, NEW callee, NEW pc, Open(char, callee, pc) PROVE Moves
<1> DEFINE j == skipLeadingSpaces(i)
<1>1. j \in i..End /\ (j # End => j + 1 \in i..End)
  BY Here, NextMoves
<1> HIDE DEF j
<1>2. IF j = End THEN prematureEnd
      ELSE IF text[j] # char THEN malformedJson(j)
      ELSE Call(callee, GoOn(pc), j + 1)
  BY DEF Open, j
<1> QED BY <1>1, <1>2, ErrorMoves, CallMoves

LEMMA CloseMoves == ASSUME InText, NEW char, Close(char) PROVE Moves
  BY Here, NextMoves, ErrorMoves, ReturnMoves DEF Close

LEMMA parseObjectMoves == ASSUME InText, parseObject PROVE Moves
  BY OpenMoves, CloseMoves DEF parseObject

LEMMA parseStringMoves == ASSUME InText, parseString PROVE Moves
  BY OpenMoves, CloseMoves DEF parseString

LEMMA parseCharsToUTF8Moves == ASSUME InText, parseCharsToUTF8 PROVE Moves
<1>1. i # End => i + 1 \in i..End /\ (i + 1 # End => i + 2 \in i..End)
  BY DEF InText, End
<1>2. CASE prematureEnd \/ (i # End /\ malformedJson(i + 1))
  BY <1>1, <1>2, Here, ErrorMoves
<1>3. CASE Return(i)
  BY <1>3, Here, ReturnMoves
<1>4. CASE \E what, returns : i # End /\ Give(what, i + 1, returns)
  BY <1>1, <1>4, GiveMoves
<1>5. CASE \E what, returns : i # End /\ i + 1 # End /\ Give(what, i + 2, returns)
  BY <1>1, <1>5, GiveMoves
<1> QED BY <1>2, <1>3, <1>4, <1>5 DEF parseCharsToUTF8

LEMMA parseElementMoves == ASSUME NEW j \in i..End, parseElement(j) PROVE Moves
  BY CallMoves DEF parseElement

LEMMA parseArrayMoves == ASSUME InText, parseArray PROVE Moves
<1>1. CASE At("array", "begin") /\ ~At("array", "element")
  <2> DEFINE j == skipLeadingSpaces(i)
  <2>1. j \in i..End /\ (j # End => j + 1 \in i..End)
    BY Here, NextMoves
  <2>2. ASSUME j # End, j + 1 # End PROVE skipTrailingSpaces(j + 2) \in i..End
    <3> DEFINE k == j + 1
    <3>1. k \in i..End /\ k # End /\ k + 1 = j + 2
      BY <2>1, <2>2 DEF InText, End
    <3> HIDE DEF k
    <3>2. skipTrailingSpaces(k + 1) \in i..End
      BY <3>1, NextMoves
    <3> QED BY <3>1, <3>2
  <2>3. IF j = End THEN prematureEnd
        ELSE IF text[j] # "[" THEN malformedJson(j)
        ELSE IF j + 1 = End THEN prematureEnd
        ELSE IF text[j + 1] = "]" THEN Return(skipTrailingSpaces(j + 2))
        ELSE parseElement(j + 1)
    BY <1>1 DEF parseArray
  <2> HIDE DEF j
  <2> QED BY <2>1, <2>2, <2>3, ErrorMoves, ReturnMoves, parseElementMoves
<1>2. CASE At("array", "element") /\ ~At("array", "begin")
  BY <1>2, Here, NextMoves, ErrorMoves, ReturnMoves, parseElementMoves DEF parseArray
<1> QED BY <1>1, <1>2 DEF parseArray, At

LEMMA parseNumberMoves == ASSUME InText, parseNumber PROVE Moves
  BY Here, CallMoves, ReturnMoves DEF parseNumber

LEMMA digitsMoves == ASSUME InText, digits PROVE Moves
<1> DEFINE j == Behind(Digits, i)
<1>1. j \in i..End
  BY BehindIs DEF InText
<1>2. IF i = End THEN prematureEnd
      ELSE IF j = i THEN malformedJson(i)
      ELSE Give(SubSeq(text, i, j - 1), j, TRUE)
  BY DEF digits
<1> HIDE DEF j
<1> QED BY <1>1, <1>2, Here, ErrorMoves, GiveMoves

LEMMA MatchMoves == ASSUME InText, NEW j \in i..End, Match(j) PROVE Moves
<1> DEFINE word == wordAt(j)
           k == Differs(word, j)
<1>1. Len(word) \in Nat /\ j \in 1..End
  BY DEF wordAt, TrueWord, FalseWord, InText, End
<1> HIDE DEF word
<1>2. k \in j..End
  BY <1>1, DiffersIs DEF InText
<1>3. IF k = j + Len(word) THEN Give(word = TrueWord, skipTrailingSpaces(k), TRUE)
      ELSE IF k = End THEN prematureEnd
      ELSE malformedJson(k)
  BY DEF Match, word
<1> HIDE DEF k
<1>4. k \in i..End /\ k \in 1..End
  BY <1>1, <1>2 DEF InText, End
<1>5. skipTrailingSpaces(k) \in k..End
  BY <1>4, SkipsForward DEF InText
<1>6. skipTrailingSpaces(k) \in i..End
  BY <1>4, <1>5 DEF InText, End
<1> QED BY <1>3, <1>4, <1>6, ErrorMoves, GiveMoves

LEMMA parseBooleanMoves ==
  ASSUME InText, parseBooleanForward \/ parseBooleanRandomAccess PROVE Moves
  BY Here, ErrorMoves, MatchMoves DEF parseBooleanForward, parseBooleanRandomAccess

LEMMA parseSeparatorMoves ==
  ASSUME InText, NEW parser, NEW char, parseSeparator(parser, char) PROVE Moves
<1> DEFINE j == skipLeadingSpaces(i)
<1>1. j \in i..End /\ (j # End => skipTrailingSpaces(j + 1) \in i..End)
  BY Here, NextMoves
<1>2. IF j = End THEN prematureEnd
      ELSE IF text[j] # char THEN Report("malformedJson", j, j)
      ELSE Return(skipTrailingSpaces(j + 1))
  BY DEF parseSeparator
<1> HIDE DEF j
<1> QED BY <1>1, <1>2, ErrorMoves, ReportMoves, ReturnMoves

LEMMA propNameParserMoves == ASSUME InText, propNameParser PROVE Moves
<1> DEFINE T == {k \in i..End : k = End \/ text[k] = Quote}
           j == CHOOSE k \in i..End : /\ \A m \in i..(k - 1) : text[m] # Quote
                                      /\ k = End \/ text[k] = Quote
<1>1. i \in Nat /\ End \in Nat /\ i <= End /\ T \in SUBSET (i..End) /\ End \in T
  BY DEF End, InText
<1>2. PICK k \in T : \A m \in i..(k - 1) : m \notin T
  <2> HIDE DEF T
  <2> QED BY <1>1, LeastBetween
<1>3. \A m \in i..(k - 1) : text[m] # Quote
  BY <1>1, <1>2
<1>4. \E n \in i..End : /\ \A m \in i..(n - 1) : text[m] # Quote
                        /\ n = End \/ text[n] = Quote
  BY <1>2, <1>3
<1>5. j \in i..End
  BY <1>4
<1>6. propName' = <<i, j>> /\ i' = j /\ text' = text /\ errors' = errors
  BY DEF propNameParser, jsonInput
<1> HIDE DEF j
<1> QED BY <1>5, <1>6, Here DEF Moves

LEMMA parsePropertyValueMoves == ASSUME InText, parsePropertyValue PROVE Moves
  BY Here, CallMoves, ReturnMoves, ErrorMoves DEF parsePropertyValue

LEMMA bodyMoves == ASSUME InText, body PROVE Moves
  BY Here, CallMoves, ReturnMoves DEF body, parseNext

LEMMA EveryStepMoves == ASSUME InText, JsonNext PROVE Moves
  BY parseObjectMoves, bodyMoves, parseArrayMoves, parseStringMoves, parseCharsToUTF8Moves,
     parseNumberMoves, digitsMoves, parseBooleanMoves, parsePropertyValueMoves,
     propNameParserMoves, parseSeparatorMoves
  DEF JsonNext, parseColon, parseComma

(* One error at most, because after one nothing is reported. *)
PlaceInv ==
  /\ JsonInv /\ InText
  /\ \E b \in 1..End : \E e \in b..End : propName = <<b, e>>
  /\ errors = <<>> \/ \E kind : \E at \in 1..End : errors = <<[kind |-> kind, at |-> at]>>

LEMMA PlaceStarts == ASSUME NEW in \in JsonInputs, JsonStart(in) PROVE PlaceInv
<1>1. JsonInv
  BY JsonStarts
<1>2. text = in.document.text /\ in.document \in Documents /\ i = 1 /\ propName = <<1, 1>>
      /\ errors = <<>>
  BY DEF JsonInputs, JsonStart
<1>3. Len(text) \in Nat
  BY <1>2, JsonAssumption
<1>4. 1 \in 1..End
  BY <1>3 DEF End
<1> QED BY <1>1, <1>2, <1>3, <1>4 DEF PlaceInv, InText

LEMMA PlaceKeeps ==
  ASSUME PlaceInv, [JsonNext]_jsonVars PROVE PlaceInv' /\ (i' >= i \/ UNCHANGED jsonVars)
<1>1. CASE JsonNext
  <2>1. InText /\ Moves /\ JsonInv' /\ (~valid => errors' = errors)
    BY <1>1, EveryStepMoves, JsonStep DEF PlaceInv, jsonVars
  <2>2. End' = End /\ Len(text') \in Nat /\ i' \in 1..End /\ i' >= i
    BY <2>1 DEF Moves, InText, End
  <2>3. \E b \in 1..End : \E e \in b..End : propName' = <<b, e>>
    BY <2>1, <2>2 DEF Moves, InText, End, PlaceInv
  <2>4. errors' = <<>> \/ \E kind : \E at \in 1..End : errors' = <<[kind |-> kind, at |-> at]>>
    <3>1. CASE errors' = errors
      BY <3>1 DEF PlaceInv
    <3>2. CASE errors' # errors
      <4>1. errors = <<>>
        BY <2>1, <3>2 DEF valid
      <4>2. PICK kind : \E at \in i..End : errors' = Append(errors, [kind |-> kind, at |-> at])
        BY <2>1, <3>2 DEF Moves
      <4>3. PICK at \in i..End : errors' = Append(errors, [kind |-> kind, at |-> at])
        BY <4>2
      <4>4. errors' = <<[kind |-> kind, at |-> at]>> /\ at \in 1..End
        BY <2>1, <4>1, <4>3 DEF InText, End
      <4> QED BY <4>4
    <3> QED BY <3>1, <3>2
  <2> QED BY <2>1, <2>2, <2>3, <2>4 DEF PlaceInv, InText
<1>2. CASE UNCHANGED jsonVars
  <2>1. JsonInv'
    BY <1>2, JsonStep DEF PlaceInv
  <2>2. text' = text /\ i' = i /\ propName' = propName /\ errors' = errors
    BY <1>2 DEF jsonVars, jsonInput
  <2> QED BY <1>2, <2>1, <2>2 DEF PlaceInv, InText, End
<1> QED BY <1>1, <1>2

(* No iterator leaves the text and one error at most is reported, at a     *)
(* place of the text, for texts and structures of any size (json.hpp,      *)
(* every parser).                                                          *)
THEOREM StaysInTextAlways == JsonSpec => []StaysInText
<1>1. (\E in \in JsonInputs : JsonStart(in)) => PlaceInv
  BY PlaceStarts
<1>2. PlaceInv /\ [JsonNext]_jsonVars => PlaceInv'
  BY PlaceKeeps
<1>3. ASSUME PlaceInv PROVE StaysInText
  <2>1. PICK b \in 1..End : \E e \in b..End : propName = <<b, e>>
    BY <1>3 DEF PlaceInv
  <2>2. propName[1] \in 1..propName[2] /\ propName[2] \in 1..End
    BY <1>3, <2>1 DEF PlaceInv, InText, End
  <2>3. Len(errors) <= 1 /\ \A n \in 1..Len(errors) : errors[n].at \in 1..End
    BY <1>3 DEF PlaceInv
  <2> QED BY <1>3, <2>2, <2>3 DEF StaysInText, PlaceInv, InText
<1> QED BY <1>1, <1>2, <1>3, PTL DEF JsonSpec

(* No parser goes back, errors or not, for texts and structures of any     *)
(* size (json.hpp, every parser).                                          *)
THEOREM NeverGoesBackAlways == JsonSpec => NeverGoesBack
<1>1. (\E in \in JsonInputs : JsonStart(in)) => PlaceInv
  BY PlaceStarts
<1>2. PlaceInv /\ [JsonNext]_jsonVars => PlaceInv' /\ [i' >= i]_jsonVars
  BY PlaceKeeps
<1> QED BY <1>1, <1>2, PTL DEF JsonSpec, NeverGoesBack

(***************************************************************************)
(* Dates: values keep the instant they denote, and timestamps and texts    *)
(* the offset they show, through every chain of conversions, for every     *)
(* calendar, time zone and set of instants.                                *)
(***************************************************************************)
(* Offsets that +hhmm can show: whole minutes, fewer than 100 hours, and   *)
(* hours of at most 100 minutes.  (Clocks have 60, time zones 14 hours.)   *)
ShownByDigits(offset) ==
  /\ offset \in Int /\ offset % PerMinute = 0
  /\ AbsOf(offset) < 100 * (PerHour * PerMinute)
Known == Offsets \cup {Std}
DigitsSuffice == PerHour <= 100 /\ \A offset \in Known : ShownByDigits(offset)

(***************************************************************************)
(* Division that truncates.                                                *)
(***************************************************************************)
LEMMA QuotOfMultiple ==
  ASSUME NEW n \in Nat \ {0}, NEW k \in Int PROVE Quot(n * k, n) = k
<1>1. CASE k >= 0
  <2>1. n * k >= 0
    BY <1>1
  <2>2. QED
    BY <2>1, MultipleDivides DEF Quot
<1>2. CASE k < 0
  <2>1. n * k < 0 /\ -(n * k) = n * (-k) /\ -k \in Int
    BY <1>2
  <2>2. (n * (-k)) \div n = -k
    BY <2>1, MultipleDivides
  <2>3. Quot(n * k, n) = -((n * (-k)) \div n)
    BY <2>1 DEF Quot
  <2>4. QED
    BY <2>2, <2>3
<1>3. QED
  BY <1>1, <1>2

(* Truncation takes away less than the divisor.                            *)
LEMMA QuotTruncates ==
  ASSUME NEW a \in Int, NEW n \in Nat \ {0}
  PROVE  Quot(a, n) \in Int /\ AbsOf(n * Quot(a, n) - a) < n
<1>1. CASE a >= 0
  <2> DEFINE q == a \div n
             x == a % n
  <2>1. q \in Int /\ x \in 0..(n - 1) /\ a = n * q + x
    BY Division
  <2>2. Quot(a, n) = q
    BY <1>1 DEF Quot
  <2> HIDE DEF q, x
  <2>3. n * q \in Int
    BY <2>1
  <2>4. QED
    BY <2>1, <2>2, <2>3 DEF AbsOf
<1>2. CASE a < 0
  <2> DEFINE q == (-a) \div n
             x == (-a) % n
  <2>0. -a \in Int
    OBVIOUS
  <2>1. q \in Int /\ x \in 0..(n - 1) /\ -a = n * q + x
    BY <2>0, Division
  <2>2. Quot(a, n) = -q
    BY <1>2 DEF Quot
  <2> HIDE DEF q, x
  <2>3. n * (-q) = -(n * q) /\ n * q \in Int
    BY <2>1
  <2>4. n * Quot(a, n) - a = x
    BY <2>1, <2>2, <2>3
  <2>5. QED
    BY <2>1, <2>2, <2>4 DEF AbsOf
<1>3. QED
  BY <1>1, <1>2

(***************************************************************************)
(* Offsets and their digits.                                               *)
(***************************************************************************)
LEMMA UnitsOfTime ==
  /\ PerSecond \in Nat \ {0} /\ PerMinute \in Nat \ {0} /\ PerHour \in Nat \ {0}
  /\ Std \in Int /\ Shift \in Nat /\ Summer \subseteq Int /\ Instants \subseteq Int
BY DateAssumption

LEMMA WholeMinutes ==
  ASSUME NEW offset \in Int, offset % PerMinute = 0
  PROVE  \E k \in Int : offset = PerMinute * k
<1>1. /\ offset \div PerMinute \in Int
      /\ offset = PerMinute * (offset \div PerMinute) + (offset % PerMinute)
  BY UnitsOfTime, Division
<1>2. PerMinute * (offset \div PerMinute) \in Int
  BY <1>1, UnitsOfTime
<1>3. offset = PerMinute * (offset \div PerMinute)
  BY <1>1, <1>2
<1>4. QED
  BY <1>1, <1>3

LEMMA HoursAndMinutes ==
  ASSUME NEW k \in Nat
  PROVE  /\ k \div PerHour \in Nat /\ k % PerHour \in 0..(PerHour - 1)
         /\ (k \div PerHour) * PerHour + (k % PerHour) = k
<1> DEFINE h == k \div PerHour
           m == k % PerHour
<1>1. h \in Int /\ m \in 0..(PerHour - 1) /\ k = PerHour * h + m
  BY UnitsOfTime, Division
<1> HIDE DEF h, m
<1>2. h <= -1 => PerHour * h <= -PerHour
  BY <1>1, UnitsOfTime
<1>3. PerHour * h \in Int /\ PerHour * h = h * PerHour
  BY <1>1, UnitsOfTime
<1>4. h \in Nat /\ h * PerHour + m = k
  BY <1>1, <1>2, <1>3, UnitsOfTime
<1>5. QED
  BY <1>1, <1>4 DEF h, m

(* What writeText makes of an offset reads as that offset.                 *)
LEMMA WrittenOffset ==
  ASSUME NEW offset \in Int, offset % PerMinute = 0, NEW k, k = AbsOf(offset) \div PerMinute
  PROVE  /\ k \in Nat
         /\ (IF offset < 0 THEN -PerMinute ELSE PerMinute)
              * ((k \div PerHour) * PerHour + (k % PerHour)) = offset
<1>1. PICK j \in Int : offset = PerMinute * j
  BY WholeMinutes
<1>2. AbsOf(offset) = PerMinute * AbsOf(j) /\ AbsOf(j) \in Nat /\ (offset < 0 <=> j < 0)
  <2>1. j >= 0 => PerMinute * j >= 0
    BY UnitsOfTime
  <2>2. j < 0 => PerMinute * j < 0 /\ -(PerMinute * j) = PerMinute * (-j)
    BY UnitsOfTime
  <2>3. QED
    BY <1>1, <2>1, <2>2, UnitsOfTime DEF AbsOf
<1>3. k = AbsOf(j)
  BY <1>2, MultipleDivides, UnitsOfTime
<1>4. (k \div PerHour) * PerHour + (k % PerHour) = k
  BY <1>2, <1>3, HoursAndMinutes
<1>5. (IF offset < 0 THEN -PerMinute ELSE PerMinute) * k = offset
  <2>1. CASE j >= 0
    BY <1>1, <1>2, <1>3, <2>1 DEF AbsOf
  <2>2. CASE j < 0
    <3>1. (-PerMinute) * (-j) = PerMinute * j
      BY UnitsOfTime
    <3>2. QED
      BY <1>1, <1>2, <1>3, <2>2, <3>1 DEF AbsOf
  <2>3. QED
    BY <2>1, <2>2
<1>6. QED
  BY <1>2, <1>3, <1>4, <1>5

(* The digits that are printed of an offset that is not negative.          *)
LEMMA PrintedOffset ==
  ASSUME PerHour <= 100, NEW offset, ShownByDigits(offset), offset >= 0
  PROVE  /\ offsetHours(offset) \in 0..99 /\ offsetMinutes(offset) \in 0..99
         /\ PerMinute * (offsetHours(offset) * PerHour + offsetMinutes(offset)) = offset
<1>1. PICK k \in Int : offset = PerMinute * k
  BY WholeMinutes DEF ShownByDigits
<1>2. Quot(offset, PerMinute) = k
  BY <1>1, QuotOfMultiple, UnitsOfTime
<1>3. k \in Nat
  <2>1. k <= -1 => PerMinute * k <= -PerMinute
    BY UnitsOfTime
  <2>2. QED
    BY <1>1, <2>1, UnitsOfTime
<1>4. k < 100 * PerHour
  <2>1. PerMinute * k < 100 * (PerHour * PerMinute)
    BY <1>1, UnitsOfTime DEF ShownByDigits, AbsOf
  <2>2. 100 * (PerHour * PerMinute) = PerMinute * (100 * PerHour)
    BY UnitsOfTime
  <2>3. k >= 100 * PerHour => PerMinute * k >= PerMinute * (100 * PerHour)
    BY UnitsOfTime
  <2>4. PerMinute * k \in Int /\ PerMinute * (100 * PerHour) \in Int /\ 100 * PerHour \in Int
    BY UnitsOfTime
  <2>5. QED
    BY <2>1, <2>2, <2>3, <2>4
<1> DEFINE h == k \div PerHour
           m == k % PerHour
<1>5. h \in Nat /\ m \in 0..(PerHour - 1) /\ h * PerHour + m = k
  BY <1>3, HoursAndMinutes
<1>6. Quot(k, PerHour) = h
  BY <1>3 DEF Quot
<1> HIDE DEF h, m
<1>7. h < 100
  <2>1. h >= 100 => h * PerHour >= 100 * PerHour
    BY <1>5, UnitsOfTime
  <2>2. h * PerHour \in Int /\ 100 * PerHour \in Int
    BY <1>5, UnitsOfTime
  <2>3. QED
    BY <1>4, <1>5, <2>1, <2>2
<1>8. Quot(h, 100) = 0
  BY <1>5, <1>7 DEF Quot
<1>9. offsetHours(offset) = h
  BY <1>2, <1>5, <1>6, <1>8 DEF offsetHours
<1>10. offsetMinutes(offset) = m
  <2>1. offsetMinutes(offset) = k - h * PerHour
    BY <1>2, <1>6 DEF offsetMinutes
  <2>2. h * PerHour \in Int
    BY <1>5, UnitsOfTime
  <2>3. QED
    BY <1>5, <2>1, <2>2
<1>11. QED
  BY <1>1, <1>5, <1>7, <1>9, <1>10, UnitsOfTime
(***************************************************************************)
(* Offsets.                                                                *)
(***************************************************************************)
(* What a value is, by its kind.  A DateTime that says it is of daylight   *)
(* saving time denotes an instant of it, and one that callers filled is    *)
(* read as the instant that they mean.                                     *)
Filled(fields, utc) == mktime(fields, -1) = {utc}

ValueOK ==
  /\ value.kind = "text" => value.fields \in Int /\ offsetOf(value) = shown /\ shown \in Known
  /\ value.kind = "Timestamp" => value.millis \in Int
  /\ value.kind = "TimestampTZ" =>
       value.millis \in Int /\ value.offset = shown /\ shown \in Known
  /\ value.kind = "time_t" => value.t \in Int
  /\ value.kind = "DateTime" =>
       /\ value.fields \in Int /\ value.offset \in Int /\ value.isdst \in -1..1
       /\ value.isdst = 1 => value.fields - value.offset \in Summer
       /\ value.isdst = -1 =>
            \E utc \in Int : Filled(value.fields, utc) /\ meant = PerSecond * utc

ZoneInv == ValueOK /\ meant \in Int /\ asserted = TRUE

LEMMA ZoneStarts == DateInit => ZoneInv
  BY DEF DateInit, ZoneInv, ValueOK, None

LEMMA mktimeType ==
  ASSUME NEW fields \in Int, NEW isdst, NEW t \in mktime(fields, isdst) PROVE t \in Int
  BY UnitsOfTime DEF mktime

LEMMA KnownOffset ==
  ASSUME DigitsSuffice, NEW offset \in Known PROVE offset \in Int /\ ShownByDigits(offset)
  BY DEF DigitsSuffice, ShownByDigits

(* A text that is written of an offset reads as that offset.               *)
LEMMA writeTextShows ==
  ASSUME DigitsSuffice, NEW t \in Int, NEW offset \in Known, NEW regular,
         writeText(t, offset, regular)
  PROVE  value'.kind = "text" /\ value'.fields = t + offset /\ offsetOf(value') = offset
<1>1. offset \in Int /\ offset % PerMinute = 0
  BY KnownOffset DEF ShownByDigits
<1> DEFINE k == AbsOf(offset) \div PerMinute
<1>2. (IF offset < 0 THEN -PerMinute ELSE PerMinute)
        * ((k \div PerHour) * PerHour + (k % PerHour)) = offset
  BY <1>1, WrittenOffset
<1>3. value' = Text(t + offset, offset < 0, k \div PerHour, k % PerHour, regular)
  BY DEF writeText
<1> HIDE DEF k
<1>4. QED
  BY <1>2, <1>3 DEF Text, offsetOf

LEMMA printShows ==
  ASSUME DigitsSuffice, NEW ts, ts.offset \in Known, ts.offset >= 0, ts.millis \in Int, print(ts)
  PROVE  /\ value'.kind = "text" /\ offsetOf(value') = ts.offset
         /\ value'.fields = Quot(ts.millis, PerSecond) + ts.offset
         /\ UNCHANGED <<meant, asserted>>
<1> DEFINE hours == offsetHours(ts.offset)
           minutes == offsetMinutes(ts.offset)
<1>1. /\ hours \in 0..99 /\ minutes \in 0..99
      /\ PerMinute * (hours * PerHour + minutes) = ts.offset
  BY KnownOffset, PrintedOffset DEF DigitsSuffice
<1>2. Converted(Text(toTm(ts).fields, hours < 0, hours, minutes, TRUE))
  BY <1>1 DEF print, printable
<1> HIDE DEF hours, minutes
<1>3. toTm(ts).fields = Quot(ts.millis, PerSecond) + ts.offset
  BY DEF toTm, DateTime
<1>4. /\ value' = Text(toTm(ts).fields, hours < 0, hours, minutes, TRUE)
      /\ UNCHANGED <<meant, asserted>>
  BY <1>2 DEF Converted
<1>5. /\ value'.kind = "text" /\ value'.fields = toTm(ts).fields /\ value'.west = (hours < 0)
      /\ value'.hours = hours /\ value'.minutes = minutes
  BY <1>4 DEF Text
<1>6. ~value'.west
  <2>1. ~(hours < 0)
    BY <1>1
  <2>2. QED
    BY <1>5, <2>1, Zenon
<1>7. offsetOf(value') = ts.offset
  BY <1>1, <1>5, <1>6 DEF offsetOf
<1>8. QED
  BY <1>3, <1>4, <1>5, <1>7

LEMMA ZoneStep ==
  ASSUME DigitsSuffice, ~FormatsWest, ZoneInv, [DateNext]_dateVars
  PROVE  ZoneInv'
<1> USE DEF ZoneInv
<1>1. CASE UNCHANGED dateVars
  BY <1>1 DEF dateVars, ValueOK
<1>2. CASE obtain
  <2>1. PICK t \in Instants, offset \in Offsets :
          /\ shown' = offset
          /\ \/ /\ \E regular \in BOOLEAN : writeText(t, offset, regular)
                /\ meant' = PerSecond * t
             \/ \E millis \in (PerSecond * t)..(PerSecond * t + PerSecond - 1) :
                  /\ value' = TimestampTZ(millis, offset)
                  /\ meant' = millis
             \/ /\ value' = TimeT(t)
                /\ meant' = PerSecond * t
             \/ /\ mktime(t + localOffset(t), -1) = {t}
                /\ value' = DateTime(t + localOffset(t), 0, -1)
                /\ meant' = PerSecond * t
    BY <1>2 DEF obtain
  <2>2. t \in Int /\ PerSecond * t \in Int /\ offset \in Known /\ offset \in Int
    BY UnitsOfTime, KnownOffset DEF Known
  <2>3. asserted' = TRUE
    BY <1>2 DEF obtain
  <2>4. ASSUME NEW regular, writeText(t, offset, regular), meant' = PerSecond * t PROVE ZoneInv'
    <3>1. value'.kind = "text" /\ value'.fields = t + offset /\ offsetOf(value') = offset
      BY <2>2, <2>4, writeTextShows
    <3>2. QED
      BY <2>1, <2>2, <2>3, <2>4, <3>1 DEF ValueOK
  <2>5. ASSUME NEW millis \in Int, value' = TimestampTZ(millis, offset), meant' = millis
        PROVE  ZoneInv'
    BY <2>1, <2>2, <2>3, <2>5 DEF ValueOK, TimestampTZ
  <2>6. CASE value' = TimeT(t) /\ meant' = PerSecond * t
    BY <2>2, <2>3, <2>6 DEF ValueOK, TimeT
  <2>7. CASE /\ mktime(t + localOffset(t), -1) = {t}
             /\ value' = DateTime(t + localOffset(t), 0, -1) /\ meant' = PerSecond * t
    <3>1. t + localOffset(t) \in Int
      BY <2>2, UnitsOfTime DEF localOffset
    <3>2. Filled(value'.fields, t)
      BY <2>7 DEF Filled, DateTime
    <3>3. QED
      BY <2>2, <2>3, <2>7, <3>1, <3>2 DEF ValueOK, DateTime
  <2>8. \A millis \in (PerSecond * t)..(PerSecond * t + PerSecond - 1) : millis \in Int
    BY <2>2, UnitsOfTime
  <2>9. QED
    BY <2>1, <2>4, <2>5, <2>6, <2>7, <2>8
<1>3. value.kind = "text" => localFields(value) \in Int /\ offsetOf(value) \in Int
  BY UnitsOfTime, KnownOffset DEF ValueOK, localFields
<1>4. CASE parseTimeT
  <2>1. PICK t \in mktime(localFields(value), 0) : Converted(TimeT(t))
    BY <1>4 DEF parseTimeT
  <2>2. t \in Int
    BY <1>3, <1>4, mktimeType DEF parseTimeT
  <2>3. QED
    BY <2>1, <2>2 DEF Converted, TimeT, ValueOK
<1>5. CASE parseDateTime
  BY <1>3, <1>5 DEF parseDateTime, Converted, DateTime, ValueOK
<1>6. CASE parseTimestampTZ \/ parseRange
  <2>1. PICK isdst \in {0, -1} : \E t \in mktime(localFields(value), isdst) :
          Converted(TimestampTZ(PerSecond * t, offsetOf(value)))
    BY <1>6 DEF parseTimestampTZ, parseRange
  <2>5. PICK t \in mktime(localFields(value), isdst) :
          Converted(TimestampTZ(PerSecond * t, offsetOf(value)))
    BY <2>1
  <2>2. value.kind = "text" /\ UNCHANGED shown
    BY <1>6 DEF parseTimestampTZ, parseRange
  <2>3. PerSecond * t \in Int
    BY <1>3, <2>2, mktimeType, UnitsOfTime
  <2>4. QED
    BY <2>5, <2>2, <2>3 DEF Converted, TimestampTZ, ValueOK
<1>7. CASE parseFails
  BY <1>7 DEF parseFails, None, ValueOK
<1>8. CASE assignTimeT
  <2>1. PerSecond * value.t \in Int
    BY <1>8, UnitsOfTime DEF assignTimeT, ValueOK
  <2>2. QED
    BY <1>8, <2>1 DEF assignTimeT, Converted, TimestampTZ, ValueOK, Known
<1>9. CASE toTimeT
  <2>1. Quot(value.millis, PerSecond) \in Int
    BY <1>9, QuotTruncates, UnitsOfTime DEF toTimeT, ValueOK
  <2>2. QED
    BY <1>9, <2>1 DEF toTimeT, Converted, TimeT, ValueOK
<1>10. CASE toDateTime
  <2>1. CASE value.kind = "time_t" /\ Converted(localtime(value.t))
    <3>1. value.t \in Int /\ localOffset(value.t) \in Int
      BY <2>1, UnitsOfTime DEF ValueOK, localOffset
    <3>2. value.t + localOffset(value.t) - localOffset(value.t) = value.t
      BY <3>1
    <3>3. value' = DateTime(value.t + localOffset(value.t), localOffset(value.t),
                            IF value.t \in Summer THEN 1 ELSE 0)
      BY <2>1 DEF localtime, Converted
    <3>4. QED
      BY <2>1, <3>1, <3>2, <3>3 DEF Converted, DateTime, ValueOK
  <2>2. CASE value.kind = "TimestampTZ" /\ Converted(toTm(value))
    <3>1. Quot(value.millis, PerSecond) \in Int /\ value.offset \in Int
      BY <2>2, QuotTruncates, UnitsOfTime, KnownOffset DEF ValueOK
    <3>2. QED
      BY <2>2, <3>1 DEF Converted, toTm, DateTime, ValueOK
  <2>3. QED
    BY <1>10, <2>1, <2>2 DEF toDateTime
<1>11. CASE timestamp
  <2>1. PICK t \in mktime(value.fields, value.isdst) : Converted(Timestamp(PerSecond * t))
    BY <1>11 DEF timestamp
  <2>2. PerSecond * t \in Int
    BY <1>11, mktimeType, UnitsOfTime DEF timestamp, ValueOK
  <2>3. QED
    BY <1>11, <2>1, <2>2 DEF timestamp, Converted, Timestamp, ValueOK
<1>12. CASE formatISODateTime
  <2>1. /\ print(value) /\ UNCHANGED shown /\ value.offset = shown /\ shown \in Known
        /\ value.millis \in Int /\ value.offset >= 0
    BY <1>12 DEF formatISODateTime, ValueOK
  <2>2. /\ value'.kind = "text" /\ offsetOf(value') = shown
        /\ value'.fields = Quot(value.millis, PerSecond) + value.offset
        /\ UNCHANGED <<meant, asserted>>
    BY <2>1, printShows
  <2>3. value'.fields \in Int
    BY <2>1, <2>2, QuotTruncates, UnitsOfTime, KnownOffset
  <2>4. QED
    BY <2>1, <2>2, <2>3 DEF ValueOK
<1>13. CASE logPrint
  <2> DEFINE ts == TimestampTZ(PerSecond * Quot(value.millis, PerSecond), Std)
  <2>1. value.millis \in Int /\ Std >= 0 /\ shown' = Std /\ print(ts)
    BY <1>13 DEF logPrint, ValueOK
  <2>2. ts.millis \in Int /\ ts.offset = Std /\ Std \in Known /\ Std \in Int
    BY <2>1, QuotTruncates, UnitsOfTime DEF TimestampTZ, Known
  <2> HIDE DEF ts
  <2>3. /\ value'.kind = "text" /\ offsetOf(value') = Std
        /\ value'.fields = Quot(ts.millis, PerSecond) + Std
        /\ UNCHANGED <<meant, asserted>>
    BY <2>1, <2>2, printShows
  <2>4. value'.fields \in Int
    BY <2>2, <2>3, QuotTruncates, UnitsOfTime
  <2>5. QED
    BY <2>1, <2>2, <2>3, <2>4 DEF ValueOK
<1>14. QED
  BY <1>1, <1>2, <1>4, <1>5, <1>6, <1>7, <1>8, <1>9, <1>10, <1>11, <1>12, <1>13 DEF DateNext
(***************************************************************************)
(* Instants.  KeepsInstant alone is not inductive: one conversion to whole *)
(* seconds may take away nearly a second, two could take away more.  But   *)
(* what the first one leaves is whole seconds already.                     *)
(***************************************************************************)
Seconds(millis) == PerSecond * Quot(millis, PerSecond)
InstantKept == Denoted \in {meant, Seconds(meant)}

LEMMA SecondsType == ASSUME NEW m \in Int PROVE Seconds(m) \in Int
<1>1. Quot(m, PerSecond) \in Int
  BY QuotTruncates, UnitsOfTime
<1>2. QED
  BY <1>1, UnitsOfTime DEF Seconds

LEMMA SecondsOnce ==
  ASSUME NEW m \in Int, NEW d \in {m, Seconds(m)} PROVE Seconds(d) = Seconds(m)
<1>1. Quot(m, PerSecond) \in Int
  BY QuotTruncates, UnitsOfTime
<1>2. Quot(PerSecond * Quot(m, PerSecond), PerSecond) = Quot(m, PerSecond)
  BY <1>1, QuotOfMultiple, UnitsOfTime
<1>3. QED
  BY <1>2 DEF Seconds

(* What Denoted is, by the kind of the value.                              *)
LEMMA DenotedBy ==
  /\ value.kind = "text" => Denoted = PerSecond * (value.fields - offsetOf(value))
  /\ value.kind \in {"Timestamp", "TimestampTZ"} => Denoted = value.millis
  /\ value.kind = "time_t" => Denoted = PerSecond * value.t
  /\ value.kind = "DateTime" =>
       Denoted = IF value.isdst >= 0 THEN PerSecond * (value.fields - value.offset) ELSE meant
  /\ value.kind = "none" => Denoted = meant
  BY DEF Denoted

LEMMA DenotedBy1 ==
  /\ value'.kind = "text" => Denoted' = PerSecond * (value'.fields - offsetOf(value'))
  /\ value'.kind \in {"Timestamp", "TimestampTZ"} => Denoted' = value'.millis
  /\ value'.kind = "time_t" => Denoted' = PerSecond * value'.t
  /\ value'.kind = "DateTime" =>
       Denoted' = IF value'.isdst >= 0 THEN PerSecond * (value'.fields - value'.offset) ELSE meant'
  /\ value'.kind = "none" => Denoted' = meant'
  BY DEF Denoted
LEMMA InstantStep ==
  ASSUME DigitsSuffice, ~FormatsWest, ~ReadsSummer, ~ReadsForeign, ZoneInv, InstantKept, [DateNext]_dateVars
  PROVE  InstantKept'
<1>0. /\ meant \in Int /\ Denoted \in {meant, Seconds(meant)} /\ ValueOK
      /\ PerSecond \in Nat \ {0} /\ Std \in Int /\ Shift \in Int
  BY UnitsOfTime DEF ZoneInv, InstantKept
<1>1. ASSUME meant' = meant, Denoted' \in {Denoted, Seconds(Denoted)} PROVE InstantKept'
  <2>1. Seconds(Denoted) = Seconds(meant)
    BY <1>0, SecondsOnce
  <2>2. Seconds(meant)' = Seconds(meant)
    BY <1>1 DEF Seconds
  <2>3. QED
    BY <1>0, <1>1, <2>1, <2>2 DEF InstantKept
<1>2. ASSUME Denoted' = meant' PROVE InstantKept'
  BY <1>2 DEF InstantKept
<1>3. CASE UNCHANGED dateVars
  BY <1>1, <1>3 DEF dateVars, Denoted, offsetOf
<1>4. CASE obtain
  <2>1. PICK t \in Instants, offset \in Offsets :
             \/ /\ \E regular \in BOOLEAN : writeText(t, offset, regular)
                /\ meant' = PerSecond * t
             \/ \E millis \in (PerSecond * t)..(PerSecond * t + PerSecond - 1) :
                  /\ value' = TimestampTZ(millis, offset)
                  /\ meant' = millis
             \/ /\ value' = TimeT(t)
                /\ meant' = PerSecond * t
             \/ /\ mktime(t + localOffset(t), -1) = {t}
                /\ value' = DateTime(t + localOffset(t), 0, -1)
                /\ meant' = PerSecond * t
    BY <1>4 DEF obtain
  <2>2. t \in Int /\ offset \in Known /\ offset \in Int
    BY UnitsOfTime, KnownOffset DEF Known
  <2>3. ASSUME NEW regular, writeText(t, offset, regular), meant' = PerSecond * t
        PROVE  Denoted' = meant'
    <3>1. value'.kind = "text" /\ value'.fields = t + offset /\ offsetOf(value') = offset
      BY <2>2, <2>3, writeTextShows
    <3>2. value'.fields - offsetOf(value') = t
      BY <2>2, <3>1
    <3>3. QED
      BY <2>3, <3>1, <3>2, DenotedBy1
  <2>4. ASSUME NEW millis, value' = TimestampTZ(millis, offset), meant' = millis
        PROVE  Denoted' = meant'
    BY <2>4, DenotedBy1 DEF TimestampTZ
  <2>5. CASE value' = TimeT(t) /\ meant' = PerSecond * t
    BY <1>2, <2>5, DenotedBy1 DEF TimeT
  <2>6. CASE value' = DateTime(t + localOffset(t), 0, -1) /\ meant' = PerSecond * t
    BY <1>2, <2>6, DenotedBy1 DEF DateTime
  <2>7. QED
    BY <1>2, <2>1, <2>3, <2>4, <2>5, <2>6
<1>5. ASSUME value.kind = "text"
      PROVE  \E utc \in Int : /\ value.fields - offsetOf(value) = utc /\ Denoted = PerSecond * utc
                              /\ localFields(value) = utc + Std
  <2>1. value.fields \in Int /\ offsetOf(value) \in Int
    BY <1>0, <1>5, KnownOffset DEF ValueOK
  <2>2. QED
    BY <1>5, <2>1, DenotedBy DEF localFields
<1>6. CASE parseTimeT \/ parseTimestampTZ
  <2>1. value.kind = "text"
    BY <1>6 DEF parseTimeT, parseTimestampTZ
  <2>2. PICK utc \in Int : Denoted = PerSecond * utc /\ localFields(value) = utc + Std
    BY <1>5, <2>1
  <2>3. mktime(localFields(value), 0) = {utc}
    BY <1>0, <2>2 DEF mktime
  <2>4. CASE parseTimeT
    BY <1>1, <2>2, <2>3, <2>4, DenotedBy1 DEF parseTimeT, Converted, TimeT
  <2>5. CASE parseTimestampTZ
    BY <1>1, <2>2, <2>3, <2>5, DenotedBy1 DEF parseTimestampTZ, Converted, TimestampTZ
  <2>6. QED
    BY <1>6, <2>4, <2>5
<1>7. CASE parseDateTime
  <2>1. value.kind = "text" /\ value' = DateTime(value.fields, offsetOf(value), 0) /\ meant' = meant
    BY <1>7 DEF parseDateTime, Converted
  <2>2. Denoted' = PerSecond * (value.fields - offsetOf(value))
    BY <2>1, DenotedBy1 DEF DateTime
  <2>3. QED
    BY <1>1, <2>1, <2>2, DenotedBy
<1>8. CASE parseRange
  <2>1. value.kind = "text" /\ OnlyStandard(value.fields - offsetOf(value))
    BY <1>8 DEF parseRange
  <2>2. PICK utc \in Int : /\ value.fields - offsetOf(value) = utc /\ Denoted = PerSecond * utc
                           /\ localFields(value) = utc + Std
    BY <1>5, <2>1
  <2>3. mktime(localFields(value), -1) = {utc}
    BY <2>1, <2>2 DEF OnlyStandard
  <2>4. QED
    BY <1>1, <1>8, <2>2, <2>3, DenotedBy1 DEF parseRange, Converted, TimestampTZ
<1>9. CASE parseFails
  BY <1>2, <1>9, DenotedBy1 DEF parseFails, None
<1>10. CASE assignTimeT
  BY <1>1, <1>10, DenotedBy, DenotedBy1 DEF assignTimeT, Converted, TimestampTZ
<1>11. CASE toTimeT
  <2>1. Denoted' = Seconds(Denoted) /\ meant' = meant
    BY <1>11, DenotedBy, DenotedBy1 DEF toTimeT, Converted, TimeT, Seconds
  <2>2. QED
    BY <1>1, <2>1
<1>12. CASE toDateTime
  <2>1. CASE value.kind = "time_t" /\ Converted(localtime(value.t))
    <3>1. value.t \in Int /\ localOffset(value.t) \in Int
      BY <1>0, <2>1 DEF ValueOK, localOffset
    <3>2. value.t + localOffset(value.t) - localOffset(value.t) = value.t
      BY <3>1
    <3>3. /\ value'.kind = "DateTime" /\ value'.fields - value'.offset = value.t
          /\ value'.isdst >= 0 /\ meant' = meant
      <4>1. /\ value'.kind = "DateTime" /\ value'.isdst \in {0, 1} /\ meant' = meant
            /\ value'.fields = value.t + localOffset(value.t)
            /\ value'.offset = localOffset(value.t)
        BY <2>1 DEF localtime, Converted, DateTime
      <4>2. QED
        BY <3>1, <4>1
    <3>4. QED
      BY <1>1, <2>1, <3>3, DenotedBy, DenotedBy1
  <2>2. CASE value.kind = "TimestampTZ" /\ Converted(toTm(value))
    <3>1. Quot(value.millis, PerSecond) \in Int /\ value.offset \in Int
      BY <1>0, <2>2, QuotTruncates, UnitsOfTime, KnownOffset DEF ValueOK
    <3>2. Quot(value.millis, PerSecond) + value.offset - value.offset = Quot(value.millis, PerSecond)
      BY <3>1
    <3>3. /\ value'.kind = "DateTime"
          /\ value'.fields - value'.offset = Quot(value.millis, PerSecond)
          /\ value'.isdst >= 0 /\ meant' = meant
      <4>1. /\ value'.kind = "DateTime" /\ value'.isdst = 0 /\ meant' = meant
            /\ value'.fields = Quot(value.millis, PerSecond) + value.offset
            /\ value'.offset = value.offset
        BY <2>2 DEF toTm, Converted, DateTime
      <4>2. QED
        BY <3>1, <4>1
    <3>4. Denoted' = Seconds(Denoted)
      BY <2>2, <3>3, DenotedBy, DenotedBy1 DEF Seconds
    <3>5. QED
      BY <1>1, <3>3, <3>4
  <2>3. QED
    BY <1>12, <2>1, <2>2 DEF toDateTime
<1>13. CASE timestamp
  <2> DEFINE utc == value.fields - value.offset
  <2>1. /\ value.kind = "DateTime"
        /\ value.isdst < 0 \/ IsLocal(value)
        /\ value.isdst # 0 \/ utc \notin Summer
        /\ value.fields \in Int /\ value.offset \in Int /\ value.isdst \in -1..1
        /\ value.isdst = 1 => utc \in Summer
    BY <1>0, <1>13 DEF timestamp, ValueOK
  <2>2. PICK t \in mktime(value.fields, value.isdst) : Converted(Timestamp(PerSecond * t))
    BY <1>13 DEF timestamp
  <2>3. Denoted' = PerSecond * t /\ meant' = meant
    BY <2>2, DenotedBy1 DEF Converted, Timestamp
  <2>4. CASE value.isdst = -1
    <3>1. PICK u \in Int : Filled(value.fields, u) /\ meant = PerSecond * u
      BY <1>0, <2>1, <2>4 DEF ValueOK
    <3>2. t = u
      BY <2>2, <2>4, <3>1 DEF Filled
    <3>3. QED
      BY <1>2, <2>3, <3>1, <3>2
  <2>5. CASE value.isdst \in {0, 1}
    <3>1. localOffset(utc) = value.offset
      BY <2>1, <2>5 DEF IsLocal
    <3>2. ASSUME value.isdst = 0 PROVE t = utc
      <4>1. value.offset = Std
        BY <2>1, <3>1, <3>2 DEF localOffset
      <4>2. t = value.fields - Std
        BY <2>2, <3>2 DEF mktime
      <4>3. QED
        BY <1>0, <2>1, <4>1, <4>2
    <3>3. ASSUME value.isdst = 1 PROVE t = utc
      <4>1. value.offset = Std + Shift
        BY <2>1, <3>1, <3>3 DEF localOffset
      <4>2. t = value.fields - Std - Shift
        BY <2>2, <3>3 DEF mktime
      <4>3. QED
        BY <1>0, <2>1, <4>1, <4>2
    <3>4. t = utc
      BY <2>5, <3>2, <3>3
    <3>5. Denoted = PerSecond * utc
      BY <2>1, <2>5, DenotedBy
    <3>6. QED
      BY <1>1, <2>3, <3>4, <3>5
  <2>6. QED
    BY <2>1, <2>4, <2>5
<1>14. CASE formatISODateTime
  <2>1. /\ value.kind = "TimestampTZ" /\ print(value) /\ value.offset \in Known
        /\ value.millis \in Int /\ value.offset >= 0
    BY <1>0, <1>14 DEF formatISODateTime, ValueOK
  <2>2. /\ value'.kind = "text" /\ offsetOf(value') = value.offset
        /\ value'.fields = Quot(value.millis, PerSecond) + value.offset /\ meant' = meant
    BY <2>1, printShows
  <2>3. value'.fields - offsetOf(value') = Quot(value.millis, PerSecond)
    BY <1>0, <2>1, <2>2, QuotTruncates, KnownOffset
  <2>4. Denoted' = Seconds(Denoted)
    BY <2>1, <2>2, <2>3, DenotedBy, DenotedBy1 DEF Seconds
  <2>5. QED
    BY <1>1, <2>2, <2>4
<1>15. CASE logPrint
  <2> DEFINE ts == TimestampTZ(PerSecond * Quot(value.millis, PerSecond), Std)
  <2>1. /\ value.kind \in {"Timestamp", "TimestampTZ"} /\ value.millis \in Int /\ Std >= 0
        /\ print(ts)
    BY <1>0, <1>15 DEF logPrint, ValueOK
  <2>2. /\ ts.millis = Seconds(value.millis) /\ ts.millis \in Int
        /\ ts.offset = Std /\ Std \in Known
    BY <2>1, SecondsType DEF TimestampTZ, Known, Seconds
  <2> HIDE DEF ts
  <2>3. /\ value'.kind = "text" /\ offsetOf(value') = Std
        /\ value'.fields = Quot(ts.millis, PerSecond) + Std /\ meant' = meant
    BY <2>1, <2>2, printShows
  <2>4. value'.fields - offsetOf(value') = Quot(ts.millis, PerSecond)
    BY <1>0, <2>2, <2>3, QuotTruncates
  <2>5. Denoted' = Seconds(ts.millis)
    BY <2>3, <2>4, DenotedBy1 DEF Seconds
  <2>6. Seconds(ts.millis) = Seconds(value.millis)
    BY <2>1, <2>2, SecondsOnce
  <2>7. QED
    BY <1>1, <2>1, <2>3, <2>5, <2>6, DenotedBy
<1>16. QED
  BY <1>3, <1>4, <1>6, <1>7, <1>8, <1>9, <1>10, <1>11, <1>12, <1>13, <1>14, <1>15 DEF DateNext

(***************************************************************************)
(* The theorems.                                                           *)
(***************************************************************************)
LEMMA ZoneInvariance ==
  ASSUME DigitsSuffice, ~FormatsWest PROVE DateSpec => []ZoneInv
  BY ZoneStarts, ZoneStep, PTL DEF DateSpec

(* A text and the TimestampTZ that is read from or written to it have the  *)
(* same offset, for every offset that +hhmm can show and as long as none   *)
(* that is negative is formatted.                                          *)
THEOREM ShowsOffsetAlways ==
  ASSUME DigitsSuffice, ~FormatsWest PROVE DateSpec => []ShowsOffset
<1>1. ZoneInv => ShowsOffset
  BY DEF ZoneInv, ValueOK, ShowsOffset
<1>2. QED
  BY <1>1, ZoneInvariance, PTL

(* The assertion of printTwoDigits holds for every timestamp that is       *)
(* formatted, as long as its offset is not negative.                       *)
THEOREM TwoDigitsFitAlways ==
  ASSUME DigitsSuffice, ~FormatsWest PROVE DateSpec => []TwoDigitsFit
<1>1. ZoneInv => TwoDigitsFit
  BY DEF ZoneInv, TwoDigitsFit
<1>2. QED
  BY <1>1, ZoneInvariance, PTL

(* A value denotes the same instant, to the second, through every chain of *)
(* conversions, in every time zone and for every set of summer instants,   *)
(* as long as none of those is read in the two ways that take it for       *)
(* standard time, and no DateTime is converted to a Timestamp whose offset *)
(* is not the system's.                                                    *)
THEOREM KeepsInstantAlways ==
  ASSUME DigitsSuffice, ~FormatsWest, ~ReadsSummer, ~ReadsForeign PROVE DateSpec => []KeepsInstant
<1>1. DateInit => InstantKept
  BY DEF DateInit, None, InstantKept, Denoted
<1>2. ZoneInv /\ InstantKept => KeepsInstant
  <2>1. SUFFICES ASSUME meant \in Int, Denoted \in {meant, Seconds(meant)} PROVE KeepsInstant
    BY DEF ZoneInv, InstantKept
  <2>2. AbsOf(Seconds(meant) - meant) < PerSecond
    BY <2>1, QuotTruncates, UnitsOfTime DEF Seconds
  <2>3. AbsOf(meant - meant) < PerSecond
    BY <2>1, UnitsOfTime DEF AbsOf
  <2>4. QED
    BY <2>1, <2>2, <2>3 DEF KeepsInstant
<1>3. QED
  BY <1>1, <1>2, ZoneInvariance, InstantStep, PTL DEF DateSpec

(***************************************************************************)
(* What encodeBase64 writes is decoded to what it read, for octets of any  *)
(* number.  Group j of four characters is made of the octets from 3j + 1   *)
(* on, zero where there are no more.                                       *)
(***************************************************************************)
OctetOr0(s, n) == IF n \in 1..Len(s) THEN s[n] ELSE 0
Group(s, j) ==
  encodeTriplet(OctetOr0(s, 3 * j + 1), OctetOr0(s, 3 * j + 2), OctetOr0(s, 3 * j + 3))

(* The first m characters are those of s. *)
Codes(d, s, m) ==
  \A j \in Nat : \A r \in 1..4 : 4 * j + r <= m => d[4 * j + r] = Group(s, j)[r]

(* The two characters around an octet hold its bits. *)
Reads(t, v0, v1, v2) ==
  /\ ((t[1] * 64 + t[2]) \div 16) % 256 = v0
  /\ ((t[2] * 64 + t[3]) \div 4) % 256 = v1
  /\ ((t[3] * 64 + t[4]) \div 1) % 256 = v2

LEMMA TripletDecodes ==
  ASSUME NEW v0 \in 0..255, NEW v1 \in 0..255, NEW v2 \in 0..255,
         NEW t, t = encodeTriplet(v0, v1, v2)
  PROVE  Reads(t, v0, v1, v2) /\ \A r \in 1..4 : t[r] \in 0..63
<1>1. /\ t[1] = v0 \div 4 /\ t[2] = (v0 % 4) * 16 + v1 \div 16
      /\ t[3] = (v1 % 16) * 4 + v2 \div 64 /\ t[4] = v2 % 64
  BY DEF encodeTriplet
<1>2. /\ v0 = 4 * (v0 \div 4) + (v0 % 4) /\ v0 \div 4 \in 0..63 /\ v0 % 4 \in 0..3
      /\ v1 = 16 * (v1 \div 16) + (v1 % 16) /\ v1 \div 16 \in 0..15 /\ v1 % 16 \in 0..15
      /\ v2 = 64 * (v2 \div 64) + (v2 % 64) /\ v2 \div 64 \in 0..3 /\ v2 % 64 \in 0..63
  <2>1. v0 = 4 * (v0 \div 4) + (v0 % 4) /\ v0 \div 4 \in 0..63 /\ v0 % 4 \in 0..3
    <3> DEFINE q == v0 \div 4
               x == v0 % 4
    <3>1. q \in Int /\ x \in 0..(4 - 1) /\ v0 = 4 * q + x
      BY Division
    <3> HIDE DEF q, x
    <3>2. v0 = 4 * q + x /\ q \in 0..63 /\ x \in 0..3
      BY <3>1
    <3> QED BY <3>2 DEF q, x
  <2>2. v1 = 16 * (v1 \div 16) + (v1 % 16) /\ v1 \div 16 \in 0..15 /\ v1 % 16 \in 0..15
    <3> DEFINE q == v1 \div 16
               x == v1 % 16
    <3>1. q \in Int /\ x \in 0..(16 - 1) /\ v1 = 16 * q + x
      BY Division
    <3> HIDE DEF q, x
    <3>2. v1 = 16 * q + x /\ q \in 0..15 /\ x \in 0..15
      BY <3>1
    <3> QED BY <3>2 DEF q, x
  <2>3. v2 = 64 * (v2 \div 64) + (v2 % 64) /\ v2 \div 64 \in 0..3 /\ v2 % 64 \in 0..63
    <3> DEFINE q == v2 \div 64
               x == v2 % 64
    <3>1. q \in Int /\ x \in 0..(64 - 1) /\ v2 = 64 * q + x
      BY Division
    <3> HIDE DEF q, x
    <3>2. v2 = 64 * q + x /\ q \in 0..3 /\ x \in 0..63
      BY <3>1
    <3> QED BY <3>2 DEF q, x
  <2> QED BY <2>1, <2>2, <2>3
<1> DEFINE a == v0 \div 4
           b == v0 % 4
           c == v1 \div 16
           d == v1 % 16
           e == v2 \div 64
           f == v2 % 64
<1> HIDE DEF a, b, c, d, e, f
<1>3. /\ v0 = 4 * a + b /\ a \in 0..63 /\ b \in 0..3
      /\ v1 = 16 * c + d /\ c \in 0..15 /\ d \in 0..15
      /\ v2 = 64 * e + f /\ e \in 0..3 /\ f \in 0..63
  BY <1>2 DEF a, b, c, d, e, f
<1>4. t[1] = a /\ t[2] = b * 16 + c /\ t[3] = d * 4 + e /\ t[4] = f
  BY <1>1 DEF a, b, c, d, e, f
<1>5. (t[1] * 64 + t[2]) \div 16 = v0
  BY <1>3, <1>4
<1>6. (t[2] * 64 + t[3]) \div 4 = b * 256 + v1
  BY <1>3, <1>4
<1>7. (t[3] * 64 + t[4]) \div 1 = d * 256 + v2
  BY <1>3, <1>4
<1>8. v0 % 256 = v0 /\ (b * 256 + v1) % 256 = v1 /\ (d * 256 + v2) % 256 = v2
  BY <1>3
<1>9. t[1] \in 0..63 /\ t[2] \in 0..63 /\ t[3] \in 0..63 /\ t[4] \in 0..63
  BY <1>3, <1>4
<1>10. ASSUME NEW r \in 1..4 PROVE t[r] \in 0..63
  <2>1. r = 1 \/ r = 2 \/ r = 3 \/ r = 4
    OBVIOUS
  <2> QED BY <1>9, <2>1
<1> QED BY <1>5, <1>6, <1>7, <1>8, <1>10 DEF Reads

LEMMA OctetOr0Type ==
  ASSUME NEW s \in Seq(0..255), NEW n \in Int PROVE OctetOr0(s, n) \in 0..255
<1>1. CASE n \in 1..Len(s)
  <2> DEFINE O == 0..255
  <2>1. s \in Seq(O)
    OBVIOUS
  <2> HIDE DEF O
  <2>2. s[n] \in O
    BY <1>1, <2>1
  <2> QED BY <1>1, <2>2 DEF O, OctetOr0
<1>2. CASE n \notin 1..Len(s)
  BY <1>2 DEF OctetOr0
<1> QED BY <1>1, <1>2

LEMMA GroupCodes ==
  ASSUME NEW s \in Seq(0..255), NEW j \in Nat, NEW r \in 1..4
  PROVE  Group(s, j)[r] \in 0..63
<1> DEFINE t == Group(s, j)
           v0 == OctetOr0(s, 3 * j + 1)
           v1 == OctetOr0(s, 3 * j + 2)
           v2 == OctetOr0(s, 3 * j + 3)
<1>1. t = encodeTriplet(v0, v1, v2)
  BY DEF Group
<1>2. v0 \in 0..255 /\ v1 \in 0..255 /\ v2 \in 0..255
  BY OctetOr0Type
<1> HIDE DEF t, v0, v1, v2
<1>3. t[r] \in 0..63
  BY <1>1, <1>2, TripletDecodes
<1> QED BY <1>3 DEF t

LEMMA DecodesText ==
  ASSUME NEW s \in Seq(0..255), NEW d, Len(d) \in Nat, NEW m \in 0..Len(d),
         \A k \in 1..Len(d) : d[k] = Pad <=> k > m,
         (6 * m) \div 8 = Len(s), Codes(d, s, m)
  PROVE  Decode(d) = s
<1>1. m = CHOOSE x \in 0..Len(d) : \A k \in 1..Len(d) : d[k] = Pad <=> k > x
  <2>1. ASSUME NEW x \in 0..Len(d), \A k \in 1..Len(d) : d[k] = Pad <=> k > x
        PROVE  x = m
    <3>1. CASE x < m
      <4>1. m \in 1..Len(d) /\ m > x /\ ~(m > m)
        BY <3>1
      <4> QED BY <2>1, <4>1
    <3>2. CASE m < x
      <4>1. x \in 1..Len(d) /\ x > m /\ ~(x > x)
        BY <3>2
      <4> QED BY <2>1, <4>1
    <3> QED BY <3>1, <3>2
  <2> QED BY <2>1
<1> DEFINE first(n) == (8 * (n - 1)) \div 6 + 1
           behind(n) == CASE (n - 1) % 3 = 0 -> 16 [] (n - 1) % 3 = 1 -> 4 [] OTHER -> 1
           octet(n) == ((d[first(n)] * 64 + d[first(n) + 1]) \div behind(n)) % 256
<1>2. ASSUME NEW n \in 1..Len(s) PROVE octet(n) = s[n]
  <2> DEFINE j == (n - 1) \div 3
             r == (n - 1) % 3
             t == Group(s, j)
  <2>1. j \in Nat /\ r \in 0..2 /\ n = 3 * j + r + 1
    <3> DEFINE a == n - 1
    <3>1. a \in Nat /\ a = 3 * (a \div 3) + (a % 3) /\ a \div 3 \in Nat /\ a % 3 \in 0..2
      OBVIOUS
    <3> QED BY <3>1
  <2> HIDE DEF j
  <2>2. first(n) = 4 * j + (r + 1)
    BY <2>1
  <2>3. 4 * j + (r + 2) <= m
    <3>1. 8 * n <= 6 * m
      OBVIOUS
    <3> QED BY <2>1, <3>1
  <2>4. d[first(n)] = t[r + 1] /\ d[first(n) + 1] = t[r + 2]
    <3>1. d[4 * j + (r + 1)] = t[r + 1] /\ d[4 * j + (r + 2)] = t[r + 2]
      <4>1. \A x \in 1..4 : 4 * j + x <= m => d[4 * j + x] = t[x]
        BY <2>1 DEF Codes
      <4>2. r + 1 \in 1..4 /\ r + 2 \in 1..4 /\ 4 * j + (r + 1) <= m
        BY <2>1, <2>3
      <4> HIDE DEF r, t
      <4> QED BY <2>3, <4>1, <4>2
    <3>2. first(n) + 1 = 4 * j + (r + 2)
      BY <2>1, <2>2
    <3> QED BY <2>2, <3>1, <3>2
  <2>5. OctetOr0(s, 3 * j + r + 1) = s[n]
    BY <2>1 DEF OctetOr0
  <2> DEFINE v0 == OctetOr0(s, 3 * j + 1)
             v1 == OctetOr0(s, 3 * j + 2)
             v2 == OctetOr0(s, 3 * j + 3)
  <2>6. v0 \in 0..255 /\ v1 \in 0..255 /\ v2 \in 0..255 /\ t = encodeTriplet(v0, v1, v2)
    <3> HIDE DEF octet
    <3>1. 3 * j + 1 \in Int /\ 3 * j + 2 \in Int /\ 3 * j + 3 \in Int
      BY <2>1
    <3> QED BY <3>1, OctetOr0Type DEF Group
  <2> HIDE DEF v0, v1, v2, t
  <2>7. Reads(t, v0, v1, v2)
    <3> HIDE DEF octet, first, behind
    <3> QED BY <2>6, TripletDecodes
  <2> HIDE DEF first
  <2>8. CASE r = 0
    <3>1. behind(n) = 16 /\ v0 = s[n]
      BY <2>1, <2>5, <2>8 DEF v0
    <3> HIDE DEF behind
    <3> QED BY <2>4, <2>7, <2>8, <3>1 DEF Reads
  <2>9. CASE r = 1
    <3>1. behind(n) = 4 /\ v1 = s[n]
      BY <2>1, <2>5, <2>9 DEF v1
    <3> HIDE DEF behind
    <3> QED BY <2>4, <2>7, <2>9, <3>1 DEF Reads
  <2>10. CASE r = 2
    <3>1. behind(n) = 1 /\ v2 = s[n]
      BY <2>1, <2>5, <2>10 DEF v2
    <3> HIDE DEF behind
    <3> QED BY <2>4, <2>7, <2>10, <3>1 DEF Reads
  <2> QED BY <2>1, <2>8, <2>9, <2>10
<1>3. Decode(d) = [n \in 1..((6 * m) \div 8) |-> octet(n)]
  BY <1>1 DEF Decode
<1>4. s = [n \in 1..Len(s) |-> s[n]]
  OBVIOUS
<1> HIDE DEF octet
<1>5. [n \in 1..Len(s) |-> octet(n)] = [n \in 1..Len(s) |-> s[n]]
  BY <1>2
<1> QED BY <1>3, <1>4, <1>5

(* While the loop runs, k groups are written, all of the source that has   *)
(* been read; the counter tells how much is left of the groups without =.  *)
GroupsWritten(k) ==
  /\ b64P = 3 * k /\ b64I = Len(b64Source) - (Len(b64Source) % 3) - 3 * k /\ b64I >= 0
  /\ Len(b64Dest) = 4 * k /\ Codes(b64Dest, b64Source, 4 * k)

Base64Inv ==
  /\ b64Source \in Seq(0..255)
  /\ b64Dest \in Seq(0..63 \cup {Pad})
  /\ b64Returned \in BOOLEAN
  /\ b64Returned => b64I = 0
  /\ ~b64Returned => /\ \A n \in 1..Len(b64Dest) : b64Dest[n] # Pad
                     /\ \E k \in Nat : GroupsWritten(k)
  /\ DecodesToSource

LEMMA Base64Starts == Base64Init => Base64Inv
<1> SUFFICES ASSUME NEW in \in Base64Sources, Base64Start(in) PROVE Base64Inv
  BY DEF Base64Init
<1>1. b64Source \in Seq(0..255) /\ b64Dest = <<>> /\ b64Returned = FALSE
  BY Base64Assumption DEF Base64Start
<1> DEFINE n == Len(b64Source)
<1>2. n \in Nat /\ n % 3 \in 0..2 /\ n - (n % 3) >= 0
  <2>1. n \in Nat
    BY <1>1
  <2> HIDE DEF n
  <2>2. n % 3 \in 0..2 /\ n - (n % 3) >= 0
    BY <2>1
  <2> QED BY <2>1, <2>2
<1>3. GroupsWritten(0)
  <2>1. Codes(b64Dest, b64Source, 4 * 0)
    BY DEF Codes
  <2> QED BY <1>1, <1>2, <2>1 DEF Base64Start, GroupsWritten
<1>4. b64Dest \in Seq(0..63 \cup {Pad}) /\ \A m \in 1..Len(b64Dest) : b64Dest[m] # Pad
  BY <1>1
<1> QED BY <1>1, <1>3, <1>4 DEF Base64Inv, DecodesToSource

(* What is written behind some groups leaves them as they are. *)
Follows(f, d, e, s, k, x) ==
  /\ Len(f) = 4 * (k + 1) /\ Codes(f, s, 4 * k + x)
  /\ \A p \in 1..(4 * k) : f[p] = d[p]
  /\ \A r \in 1..4 : f[4 * k + r] = e[r]

LEMMA Concatenated ==
  ASSUME NEW T, NEW d \in Seq(T), NEW e \in Seq(T)
  PROVE  /\ d \o e \in Seq(T) /\ Len(d \o e) = Len(d) + Len(e)
         /\ \A p \in 1..(Len(d) + Len(e)) :
              (d \o e)[p] = IF p <= Len(d) THEN d[p] ELSE e[p - Len(d)]
  OBVIOUS

LEMMA CodesStay ==
  ASSUME NEW T, NEW d \in Seq(T), NEW e \in Seq(T), NEW s, NEW k \in Nat,
         Len(d) = 4 * k, Len(e) = 4, Codes(d, s, 4 * k), NEW x \in 0..4,
         \A r \in 1..4 : r <= x => e[r] = Group(s, k)[r]
  PROVE  d \o e \in Seq(T) /\ Follows(d \o e, d, e, s, k, x)
<1> DEFINE f == d \o e
<1>1. /\ f \in Seq(T) /\ Len(f) = 4 * k + 4
      /\ \A p \in 1..(4 * k + 4) : f[p] = IF p <= 4 * k THEN d[p] ELSE e[p - 4 * k]
  <2>1. /\ f \in Seq(T) /\ Len(f) = Len(d) + Len(e)
        /\ \A p \in 1..(Len(d) + Len(e)) : f[p] = IF p <= Len(d) THEN d[p] ELSE e[p - Len(d)]
    BY Concatenated
  <2> HIDE DEF f
  <2> QED BY <2>1
<1> HIDE DEF f
<1>2. \A p \in 1..(4 * k) : f[p] = d[p]
  BY <1>1
<1>3. ASSUME NEW r \in 1..4 PROVE f[4 * k + r] = e[r]
  <2>1. 4 * k + r \in 1..(4 * k + 4) /\ ~(4 * k + r <= 4 * k) /\ (4 * k + r) - 4 * k = r
    OBVIOUS
  <2> QED BY <1>1, <2>1
<1>4. ASSUME NEW j \in Nat, NEW r \in 1..4, 4 * j + r <= 4 * k + x
      PROVE  f[4 * j + r] = Group(s, j)[r]
  <2>1. CASE j < k
    <3>1. 4 * j + r \in 1..(4 * k) /\ 4 * j + r <= 4 * k
      BY <2>1
    <3>2. d[4 * j + r] = Group(s, j)[r]
      BY <3>1 DEF Codes
    <3> QED BY <1>2, <3>1, <3>2
  <2>2. CASE j = k
    <3>1. r <= x
      BY <1>4, <2>2
    <3> QED BY <1>3, <2>2, <3>1
  <2>3. j < k \/ j = k
    BY <1>4
  <2> QED BY <2>1, <2>2, <2>3
<1>5. Codes(f, s, 4 * k + x)
  BY <1>4 DEF Codes
<1>6. Len(f) = 4 * (k + 1)
  BY <1>1
<1> QED BY <1>1, <1>2, <1>3, <1>5, <1>6 DEF f, Follows

LEMMA FourCharacters ==
  ASSUME NEW T, NEW a \in T, NEW b \in T, NEW c \in T, NEW d \in T
  PROVE  <<a, b, c, d>> \in Seq(T) /\ Len(<<a, b, c, d>>) = 4
  OBVIOUS

LEMMA Padded ==
  ASSUME NEW a, NEW b, NEW c, NEW d, NEW x
  PROVE  /\ [<<a, b, c, d>> EXCEPT ![4] = x] = <<a, b, c, x>>
         /\ [<<a, b, c, d>> EXCEPT ![3] = x, ![4] = x] = <<a, b, x, x>>
  OBVIOUS

LEMMA encodeTripletsKeeps ==
  ASSUME Base64Inv, encodeTriplets PROVE Base64Inv'
<1> DEFINE T == 0..63 \cup {Pad}
           s == b64Source
           n == Len(s)
<1>0. ~b64Returned
  BY DEF Base64Inv, encodeTriplets
<1>1. PICK k \in Nat : GroupsWritten(k)
  BY <1>0 DEF Base64Inv
<1> DEFINE e == encodeTriplet(s[3 * k + 1], s[3 * k + 2], s[3 * k + 3])
<1>2. n \in Nat /\ n % 3 \in 0..2 /\ n = 3 * (n \div 3) + (n % 3) /\ n \div 3 \in Int
  <2>1. n \in Nat
    BY DEF Base64Inv
  <2> HIDE DEF n
  <2> QED BY <2>1
<1>3. 3 * k + 3 <= n - (n % 3)
  <2> DEFINE q == n \div 3
             x == n % 3
  <2>1. n \in Nat /\ x \in 0..2 /\ n = 3 * q + x /\ q \in Int
    BY <1>2
  <2>2. n - x - 3 * k >= 0 /\ n - x - 3 * k # 0
    BY <1>1 DEF GroupsWritten, encodeTriplets
  <2> HIDE DEF q, x, n
  <2>3. 3 * k + 3 <= n - x
    BY <2>1, <2>2
  <2> QED BY <2>3 DEF x
<1>4. e = Group(s, k)
  <2>1. 3 * k + 1 \in 1..n /\ 3 * k + 2 \in 1..n /\ 3 * k + 3 \in 1..n
    <3> HIDE DEF n
    <3> QED BY <1>2, <1>3
  <2> QED BY <2>1 DEF Group, OctetOr0
<1>5. b64Dest' = b64Dest \o e
  BY <1>1 DEF encodeTriplets, GroupsWritten
<1>6. e \in Seq(T) /\ Len(e) = 4 /\ \A r \in 1..4 : e[r] = Group(s, k)[r] /\ e[r] # Pad
  <2>1. \A r \in 1..4 : e[r] \in 0..63
    <3> HIDE DEF e
    <3> QED BY <1>4, GroupCodes DEF Base64Inv
  <2>2. e = <<e[1], e[2], e[3], e[4]>>
    BY DEF encodeTriplet
  <2> HIDE DEF e
  <2>3. e[1] \in T /\ e[2] \in T /\ e[3] \in T /\ e[4] \in T
    BY <2>1
  <2> HIDE DEF T
  <2>4. e \in Seq(T) /\ Len(e) = 4
    BY <2>2, <2>3, FourCharacters
  <2> QED BY <1>4, <2>1, <2>4, Base64Assumption
<1>7. b64Dest \in Seq(T) /\ Len(b64Dest) = 4 * k /\ Codes(b64Dest, s, 4 * k)
  BY <1>1 DEF Base64Inv, GroupsWritten
<1> HIDE DEF e, T
<1>8. /\ b64Dest' \in Seq(T) /\ Len(b64Dest') = 4 * (k + 1) /\ Codes(b64Dest', s, 4 * k + 4)
      /\ \A p \in 1..(4 * k) : b64Dest'[p] = b64Dest[p]
      /\ \A r \in 1..4 : b64Dest'[4 * k + r] = e[r]
  <2> DEFINE x == 4
  <2>1. x \in 0..4 /\ \A r \in 1..4 : r <= x => e[r] = Group(s, k)[r]
    BY <1>6
  <2> HIDE DEF x
  <2>2. b64Dest \o e \in Seq(T) /\ Follows(b64Dest \o e, b64Dest, e, s, k, x)
    <3> HIDE DEF n
    <3> QED BY <1>6, <1>7, <2>1, CodesStay
  <2> QED BY <1>5, <2>2 DEF Follows, x
<1>9. ASSUME NEW p \in 1..Len(b64Dest') PROVE b64Dest'[p] # Pad
  <2>1. CASE p <= 4 * k
    <3>1. p \in 1..(4 * k) /\ b64Dest[p] # Pad
      BY <1>0, <1>7, <1>8, <2>1 DEF Base64Inv
    <3> QED BY <1>8, <3>1
  <2>2. CASE p > 4 * k
    <3>1. p - 4 * k \in 1..4 /\ 4 * k + (p - 4 * k) = p
      <4>1. Len(b64Dest') = 4 * (k + 1)
        BY <1>8
      <4>2. p \in 1..(4 * (k + 1))
        BY <4>1
      <4> HIDE DEF n, s
      <4> QED BY <2>2, <4>2
    <3> QED BY <1>6, <1>8, <3>1
  <2> QED BY <1>8, <2>1, <2>2
<1>10. GroupsWritten(k + 1)'
  <2>1. /\ b64Source' = s /\ b64P' = 3 * (k + 1)
        /\ b64I' = n - (n % 3) - 3 * (k + 1) /\ b64I' >= 0
    <3> DEFINE x == n % 3
    <3>1. b64Source' = s /\ b64P' = 3 * k + 3 /\ b64I' = (n - x - 3 * k) - 3
      BY <1>1 DEF GroupsWritten, encodeTriplets
    <3>2. n \in Nat /\ x \in 0..2 /\ 3 * k + 3 <= n - x
      BY <1>2, <1>3
    <3> HIDE DEF x, n
    <3>3. b64P' = 3 * (k + 1) /\ b64I' = n - x - 3 * (k + 1) /\ b64I' >= 0
      BY <3>1, <3>2
    <3> QED BY <3>1, <3>3 DEF x
  <2>2. 4 * k + 4 = 4 * (k + 1)
    OBVIOUS
  <2> QED BY <1>8, <2>1, <2>2 DEF GroupsWritten
<1>11. b64Source' = b64Source /\ b64Returned' = b64Returned
  BY DEF encodeTriplets
<1> QED BY <1>0, <1>8, <1>9, <1>10, <1>11 DEF Base64Inv, DecodesToSource, T

LEMMA encodeTailKeeps ==
  ASSUME Base64Inv, encodeTail PROVE Base64Inv'
<1> DEFINE T == 0..63 \cup {Pad}
           s == b64Source
           n == Len(s)
           t == n % 3
<1>1. PICK k \in Nat : GroupsWritten(k)
  BY DEF Base64Inv, encodeTail
<1>2. n \in Nat /\ t \in 0..2 /\ n = 3 * k + t
  <2>1. n \in Nat
    BY DEF Base64Inv
  <2>2. n - t - 3 * k = 0
    BY <1>1 DEF GroupsWritten, encodeTail
  <2> HIDE DEF n
  <2>3. t \in 0..2
    BY <2>1
  <2> HIDE DEF t
  <2> QED BY <2>1, <2>2, <2>3
<1>3. /\ b64P = 3 * k /\ b64Dest \in Seq(T) /\ Len(b64Dest) = 4 * k /\ Codes(b64Dest, s, 4 * k)
      /\ \A p \in 1..Len(b64Dest) : b64Dest[p] # Pad
      /\ s \in Seq(0..255)
  BY <1>1 DEF Base64Inv, GroupsWritten, encodeTail
<1>4. b64Source' = s /\ b64Returned' = TRUE /\ b64I' = 0
  BY DEF encodeTail
(* Without a tail nothing more is written, *)
<1>5. CASE t = 0
  <2>1. b64Dest' = b64Dest
    BY <1>5 DEF encodeTail
  <2>2. (6 * (4 * k)) \div 8 = n /\ base64Size(n) = 4 * k
    <3> HIDE DEF n, t
    <3>1. n = 3 * k
      BY <1>2, <1>5
    <3> QED BY <3>1 DEF base64Size
  <2>3. 4 * k \in 0..Len(b64Dest) /\ \A p \in 1..Len(b64Dest) : b64Dest[p] = Pad <=> p > 4 * k
    BY <1>3
  <2>4. Decode(b64Dest) = s
    BY <1>3, <2>2, <2>3, DecodesText
  <2> QED BY <1>3, <1>4, <2>1, <2>2, <2>4 DEF Base64Inv, DecodesToSource
(* with one it is t + 1 characters and = for the others. *)
<1>6. CASE t # 0
  <2> DEFINE e == tailChunk(SubSeq(s, 3 * k + 1, 3 * k + t))
             g == Group(s, k)
             m == 4 * k + (t + 1)
  <2>1. b64Dest' = b64Dest \o e
    BY <1>3, <1>6 DEF encodeTail
  <2>2. /\ e = <<e[1], e[2], e[3], e[4]>> /\ e[1] = g[1] /\ e[2] = g[2]
        /\ e[3] = IF t = 1 THEN Pad ELSE g[3]
        /\ e[4] = Pad
    <3> DEFINE w == SubSeq(s, 3 * k + 1, 3 * k + t)
    <3>1. Len(w) = t /\ \A p \in 1..t : w[p] = s[3 * k + p]
      <4> HIDE DEF n, t
      <4>1. s \in Seq(0..255) /\ n = Len(s)
        BY <1>3 DEF n
      <4> HIDE DEF s
      <4> QED BY <1>2, <4>1
    <3>2. e = tailChunk(w)
      OBVIOUS
    <3>3. /\ OctetOr0(s, 3 * k + 1) = w[1] /\ OctetOr0(s, 3 * k + 2) = IF t = 1 THEN 0 ELSE w[2]
          /\ OctetOr0(s, 3 * k + 3) = 0
      <4>1. 3 * k + 1 \in 1..n /\ 3 * k + 3 \notin 1..n /\ (3 * k + 2 \in 1..n <=> t # 1)
        <5> HIDE DEF n, t
        <5> QED BY <1>2, <1>6
      <4>2. 1 \in 1..t /\ (t # 1 => 2 \in 1..t)
        <5> HIDE DEF n, t
        <5> QED BY <1>2, <1>6
      <4> HIDE DEF w, t
      <4> QED BY <3>1, <4>1, <4>2 DEF OctetOr0
    <3> HIDE DEF w, e
    <3>4. g = encodeTriplet(w[1], IF Len(w) = 1 THEN 0 ELSE w[2], 0)
      BY <3>1, <3>3 DEF Group
    <3> HIDE DEF g
    <3>5. e = IF Len(w) = 1 THEN [g EXCEPT ![3] = Pad, ![4] = Pad] ELSE [g EXCEPT ![4] = Pad]
      BY <3>2, <3>4 DEF tailChunk
    <3>6. g = <<g[1], g[2], g[3], g[4]>>
      BY <3>4 DEF encodeTriplet
    <3>7. e = IF Len(w) = 1 THEN <<g[1], g[2], Pad, Pad>> ELSE <<g[1], g[2], g[3], Pad>>
      <4> DEFINE g1 == g[1]
                 g2 == g[2]
                 g3 == g[3]
                 g4 == g[4]
      <4>1. g = <<g1, g2, g3, g4>>
        BY <3>6
      <4> HIDE DEF g1, g2, g3, g4
      <4>2. /\ [g EXCEPT ![4] = Pad] = <<g1, g2, g3, Pad>>
            /\ [g EXCEPT ![3] = Pad, ![4] = Pad] = <<g1, g2, Pad, Pad>>
        BY <4>1
      <4>3. e = IF Len(w) = 1 THEN <<g1, g2, Pad, Pad>> ELSE <<g1, g2, g3, Pad>>
        BY <3>5, <4>2, Zenon
      <4> QED BY <4>3 DEF g1, g2, g3, g4
    <3> QED BY <3>1, <3>7
  <2>3. \A r \in 1..4 : g[r] \in 0..63
    BY <1>3, GroupCodes
  <2> HIDE DEF e, g
  <2>4. e \in Seq(T) /\ Len(e) = 4
    <3>1. e[1] \in T /\ e[2] \in T /\ e[3] \in T /\ e[4] \in T
      BY <2>2, <2>3
    <3> HIDE DEF T
    <3> QED BY <2>2, <3>1, FourCharacters
  <2>5. \A r \in 1..4 : /\ r <= t + 1 => e[r] = Group(s, k)[r]
                        /\ e[r] = Pad <=> r > t + 1
    <3>1. t = 1 \/ t = 2
      <4> HIDE DEF t, n
      <4> QED BY <1>2, <1>6
    <3> HIDE DEF t
    <3>2. g[1] # Pad /\ g[2] # Pad /\ g[3] # Pad
      <4>1. g[1] \in 0..63 /\ g[2] \in 0..63 /\ g[3] \in 0..63
        BY <2>3
      <4> QED BY <4>1, Base64Assumption, Zenon
    <3>3. SUFFICES ASSUME NEW r \in 1..4
                   PROVE  (r <= t + 1 => e[r] = g[r]) /\ (e[r] = Pad <=> r > t + 1)
      BY DEF g
    <3>4. r = 1 \/ r = 2 \/ r = 3 \/ r = 4
      OBVIOUS
    <3> QED BY <2>2, <3>1, <3>2, <3>4
  <2>6. /\ b64Dest' \in Seq(T) /\ Len(b64Dest') = 4 * (k + 1) /\ Codes(b64Dest', s, m)
        /\ \A p \in 1..(4 * k) : b64Dest'[p] = b64Dest[p]
        /\ \A r \in 1..4 : b64Dest'[4 * k + r] = e[r]
    <3> DEFINE x == t + 1
    <3>1. x \in 0..4
      <4> HIDE DEF t, n
      <4> QED BY <1>2
    <3>2. \A r \in 1..4 : r <= x => e[r] = Group(s, k)[r]
      BY <2>5
    <3> HIDE DEF T, x
    <3>3. b64Dest \o e \in Seq(T) /\ Follows(b64Dest \o e, b64Dest, e, s, k, x)
      <4> HIDE DEF n, t, m
      <4>1. b64Dest \in Seq(T) /\ Len(b64Dest) = 4 * k /\ Codes(b64Dest, s, 4 * k)
        BY <1>3
      <4> QED BY <2>4, <3>1, <3>2, <4>1, CodesStay
    <3> QED BY <2>1, <3>3 DEF x, Follows
  <2>7. ASSUME NEW p \in 1..Len(b64Dest') PROVE b64Dest'[p] = Pad <=> p > m
    <3> HIDE DEF t, n
    <3>1. CASE p <= 4 * k
      <4>1. p \in 1..(4 * k) /\ b64Dest[p] # Pad /\ ~(p > m)
        BY <1>2, <1>3, <2>6, <3>1
      <4> QED BY <2>6, <4>1
    <3>2. CASE p > 4 * k
      <4>1. p - 4 * k \in 1..4 /\ 4 * k + (p - 4 * k) = p
        <5>1. Len(b64Dest') = 4 * (k + 1)
          BY <2>6
        <5>2. p \in 1..(4 * (k + 1))
          BY <5>1
        <5> QED BY <3>2, <5>2
      <4>2. b64Dest'[p] = e[p - 4 * k] /\ (p > m <=> p - 4 * k > t + 1)
        BY <1>2, <2>6, <4>1
      <4> QED BY <2>5, <4>1, <4>2
    <3> QED BY <2>6, <3>1, <3>2
  <2>8. (6 * m) \div 8 = n /\ base64Size(n) = 4 * (k + 1) /\ m \in 0..Len(b64Dest')
    <3> HIDE DEF t, n
    <3>1. t = 1 \/ t = 2
      BY <1>2, <1>6
    <3>2. Len(b64Dest') = 4 * (k + 1)
      BY <2>6
    <3>3. m \in 0..Len(b64Dest')
      BY <3>1, <3>2
    <3>4. CASE t = 1
      BY <1>2, <3>3, <3>4 DEF base64Size
    <3>5. CASE t = 2
      BY <1>2, <3>3, <3>5 DEF base64Size
    <3> QED BY <3>1, <3>4, <3>5
  <2>9. Decode(b64Dest') = s
    <3> HIDE DEF m, T
    <3>1. Len(b64Dest') \in Nat
      BY <2>6
    <3> QED BY <1>3, <2>6, <2>7, <2>8, <3>1, DecodesText
  <2> QED BY <1>3, <1>4, <2>6, <2>8, <2>9 DEF Base64Inv, DecodesToSource
<1> QED BY <1>5, <1>6

(* Every input, of any length modulo three, is got back by a decoder that  *)
(* goes by RFC 4648, and has the size that base64Size promises             *)
(* (base64.hpp:29-39, 83-118).                                             *)
THEOREM DecodesToSourceAlways == Base64Spec => []DecodesToSource
<1>1. Base64Inv /\ [Base64Next]_b64Vars => Base64Inv'
  <2>1. ASSUME Base64Inv, UNCHANGED b64Vars PROVE Base64Inv'
    BY <2>1 DEF b64Vars, Base64Inv, GroupsWritten, DecodesToSource
  <2> QED BY <2>1, encodeTripletsKeeps, encodeTailKeeps DEF Base64Next
<1>2. Base64Inv => DecodesToSource
  BY DEF Base64Inv
<1> QED BY Base64Starts, <1>1, <1>2, PTL DEF Base64Spec

(***************************************************************************)
(* Conversions of characters.  A text, its units in UTF-16 and its bytes   *)
(* are the words of a code one after another; no word of a code begins     *)
(* another, so that they stand for one text only (Decodes, by the first    *)
(* place where two texts differ).  CharsetInv says where utf16leToString   *)
(* is: it has read the units of whole characters and converted these.      *)
(***************************************************************************)
(* f[n] is the first n words one after another. *)
Joining(f, words, X) ==
  /\ f \in [0..Len(words) -> Seq(X)] /\ f[0] = <<>>
  /\ \A n \in 1..Len(words) : f[n] = f[n - 1] \o words[n]

LEMMA JoiningExists ==
  ASSUME NEW X, NEW w \in Seq(Seq(X)) PROVE \E f : Joining(f, w, X)
<1> DEFINE n == Len(w)
           V == Seq(X)
           g == [k \in 1..n |-> [x \in V |-> x \o w[k]]]
<1>1. \A k \in 1..n : w[k] \in V
  OBVIOUS
<1>2. \A k \in 1..n, x \in V : x \o w[k] \in V
  BY <1>1, ConcatProperties
<1>3. g \in [1..n -> [V -> V]] /\ n \in Nat /\ <<>> \in V
  BY <1>2
<1>4. PICK f : Iterates(f, n, V, <<>>, g)
  <2> HIDE DEF g, n, V
  <2> QED BY <1>3, IterationExists
<1>5. f \in [0..n -> V] /\ f[0] = <<>>
      /\ \A k \in 1..n : f[k - 1] \in V /\ f[k] = g[k][f[k - 1]]
  <2>1. f \in [0..n -> V] /\ f[0] = <<>> /\ \A k \in 1..n : f[k] = g[k][f[k - 1]]
    <3> HIDE DEF n, V, g
    <3> QED BY <1>4 DEF Iterates
  <2>2. \A k \in 1..n : k - 1 \in 0..n
    OBVIOUS
  <2> HIDE DEF n, V, g
  <2> QED BY <2>1, <2>2
<1>6. \A k \in 1..n : f[k] = f[k - 1] \o w[k]
  <2> HIDE DEF V
  <2> QED BY <1>5
<1> QED BY <1>5, <1>6 DEF Joining

LEMMA JoinedIs ==
  ASSUME NEW X, NEW w \in Seq(Seq(X)), NEW f, Joining(f, w, X)
  PROVE  Joined(w) = f[Len(w)] /\ Joined(w) \in Seq(X)
<1> DEFINE n == Len(w)
           from == CHOOSE h : h = [j \in 0..n |-> IF j = 0 THEN <<>> ELSE h[j - 1] \o w[j]]
<1>1. f = [j \in 0..n |-> IF j = 0 THEN <<>> ELSE f[j - 1] \o w[j]]
  <2>1. f \in [0..n -> Seq(X)] /\ f[0] = <<>> /\ \A k \in 1..n : f[k] = f[k - 1] \o w[k]
    BY DEF Joining
  <2>2. n \in Nat
    OBVIOUS
  <2>3. ASSUME NEW j \in 0..n PROVE f[j] = IF j = 0 THEN <<>> ELSE f[j - 1] \o w[j]
    <3>1. j = 0 \/ j \in 1..n
      BY <2>2
    <3> HIDE DEF n
    <3> QED BY <2>1, <3>1
  <2>4. f = [j \in 0..n |-> f[j]]
    BY <2>1
  <2> HIDE DEF n
  <2> QED BY <2>3, <2>4
<1>2. from = [j \in 0..n |-> IF j = 0 THEN <<>> ELSE from[j - 1] \o w[j]]
  BY <1>1
<1>3. Joined(w) = from[n]
  BY DEF Joined
<1> HIDE DEF from
<1>4. from[0] = f[0]
  BY <1>2 DEF Joining
<1>5. ASSUME NEW k \in 0..(n - 1), from[k] = f[k] PROVE from[k + 1] = f[k + 1]
  <2>1. k + 1 \in 1..n /\ k + 1 \in 0..n /\ k + 1 # 0 /\ (k + 1) - 1 = k
    OBVIOUS
  <2>2. from[k + 1] = from[k] \o w[k + 1]
    BY <1>2, <2>1
  <2>3. f[k + 1] = f[k] \o w[k + 1]
    BY <2>1 DEF Joining
  <2> QED BY <1>5, <2>2, <2>3
<1>6. n \in Nat
  OBVIOUS
<1>7. from[n] = f[n]
  <2> HIDE DEF n
  <2> QED BY <1>4, <1>5, <1>6, Agree
<1> QED BY <1>3, <1>7 DEF Joining

LEMMA JoinedEmpty == Joined(<<>>) = <<>>
<1>1. <<>> \in Seq(Seq({})) /\ Len(<<>>) = 0
  OBVIOUS
<1>2. PICK f : Joining(f, <<>>, {})
  BY <1>1, JoiningExists
<1> QED BY <1>1, <1>2, JoinedIs DEF Joining

LEMMA JoinedTwo ==
  ASSUME NEW X, NEW p \in Seq(Seq(X)), NEW q \in Seq(Seq(X))
  PROVE  Joined(p \o q) = Joined(p) \o Joined(q)
<1> DEFINE a == Len(p)
           b == Len(q)
           V == Seq(X)
<1>1. PICK f : Joining(f, p, X)
  BY JoiningExists
<1>2. PICK g : Joining(g, q, X)
  BY JoiningExists
<1> DEFINE h == [n \in 0..(a + b) |-> IF n <= a THEN f[n] ELSE f[a] \o g[n - a]]
           w == p \o q
<1>3. w \in Seq(V) /\ Len(w) = a + b
      /\ \A n \in 1..(a + b) : w[n] = IF n <= a THEN p[n] ELSE q[n - a]
  <2> HIDE DEF V
  <2> QED BY ConcatProperties DEF V
<1>4. a \in Nat /\ b \in Nat /\ f \in [0..a -> V] /\ g \in [0..b -> V]
      /\ f[0] = <<>> /\ g[0] = <<>>
      /\ (\A n \in 1..a : f[n] = f[n - 1] \o p[n]) /\ (\A n \in 1..b : g[n] = g[n - 1] \o q[n])
      /\ (\A n \in 1..a : p[n] \in V) /\ \A n \in 1..b : q[n] \in V
  <2>1. a \in Nat /\ b \in Nat
    OBVIOUS
  <2>2. (\A n \in 1..a : p[n] \in V) /\ \A n \in 1..b : q[n] \in V
    <3> HIDE DEF V
    <3> QED BY DEF V
  <2> HIDE DEF V
  <2> QED BY <1>1, <1>2, <2>1, <2>2 DEF Joining, V
<1> HIDE DEF a, b, w
<1>5. h \in [0..(a + b) -> V] /\ h[0] = <<>>
  <2>1. ASSUME NEW n \in 0..(a + b) PROVE h[n] \in V
    <3>1. CASE n <= a
      BY <1>4, <3>1
    <3>2. CASE ~ n <= a
      <4>1. n - a \in 0..b /\ a \in 0..a
        BY <1>4, <3>2
      <4>2. f[a] \in V /\ g[n - a] \in V
        BY <1>4, <4>1
      <4> QED BY <3>2, <4>2, ConcatProperties
    <3> QED BY <3>1, <3>2
  <2> QED BY <1>4, <2>1
<1>6. ASSUME NEW n \in 1..(a + b) PROVE h[n] = h[n - 1] \o w[n]
  <2>1. n - 1 \in 0..(a + b) /\ n \in 0..(a + b)
    BY <1>4
  <2>2. CASE n <= a
    <3>1. h[n] = f[n] /\ h[n - 1] = f[n - 1] /\ w[n] = p[n] /\ n \in 1..a
      BY <1>3, <1>4, <2>1, <2>2
    <3> QED BY <1>4, <3>1
  <2>3. CASE n = a + 1
    <3>1. 1 \in 1..b /\ 1 - 1 = 0 /\ n - a = 1 /\ n - 1 = a /\ ~ n <= a /\ a <= a /\ a \in 0..a
      BY <1>4, <2>3
    <3>2. h[n] = f[a] \o g[1] /\ h[n - 1] = f[a] /\ w[n] = q[1]
      BY <1>3, <2>1, <3>1
    <3>3. g[1] = g[0] \o q[1] /\ q[1] \in V
      BY <1>4, <3>1
    <3>4. g[1] = q[1]
      BY <1>4, <3>3, ConcatEmptySeq
    <3> QED BY <3>2, <3>4
  <2>4. CASE n > a + 1
    <3>1. ~ n <= a /\ ~ n - 1 <= a /\ n - a \in 1..b /\ (n - 1) - a = (n - a) - 1
          /\ (n - a) - 1 \in 0..b /\ a \in 0..a
      BY <1>4, <2>4
    <3>2. h[n] = f[a] \o g[n - a] /\ h[n - 1] = f[a] \o g[(n - a) - 1] /\ w[n] = q[n - a]
      BY <1>3, <2>1, <3>1
    <3>3. g[n - a] = g[(n - a) - 1] \o q[n - a]
      BY <1>4, <3>1
    <3>4. f[a] \in V /\ g[(n - a) - 1] \in V /\ q[n - a] \in V
      <4> HIDE DEF V
      <4> QED BY <1>4, <3>1
    <3>5. (f[a] \o g[(n - a) - 1]) \o q[n - a] = f[a] \o (g[(n - a) - 1] \o q[n - a])
      <4>1. \A x, y, z \in V : (x \o y) \o z = x \o (y \o z)
        BY ConcatAssociative
      <4> HIDE DEF h, V
      <4> QED BY <3>4, <4>1
    <3> HIDE DEF V, h
    <3> QED BY <3>2, <3>3, <3>5
  <2>5. n <= a \/ n = a + 1 \/ n > a + 1
    BY <1>4
  <2> QED BY <2>2, <2>3, <2>4, <2>5
<1> HIDE DEF h
<1>7. Joining(h, w, X)
  BY <1>3, <1>5, <1>6 DEF Joining
<1>8. Joined(w) = h[a + b] /\ Joined(p) = f[a] /\ Joined(q) = g[b]
  <2>1. w \in Seq(Seq(X))
    BY <1>3
  <2> QED BY <1>1, <1>2, <1>3, <1>7, <2>1, JoinedIs DEF a, b
<1>9. h[a + b] = f[a] \o g[b]
  <2>1. CASE b = 0
    <3>1. a + b = a /\ a \in 0..a /\ a \in 0..(a + b) /\ a <= a
      BY <1>4, <2>1
    <3>2. h[a + b] = f[a] /\ f[a] \in V /\ g[b] = <<>>
      BY <1>4, <2>1, <3>1 DEF h
    <3> QED BY <3>2, ConcatEmptySeq
  <2>2. CASE b # 0
    <3>1. a + b \in 0..(a + b) /\ ~ a + b <= a /\ (a + b) - a = b
      BY <1>4, <2>2
    <3> QED BY <3>1 DEF h
  <2> QED BY <2>1, <2>2
<1> QED BY <1>8, <1>9 DEF w

(* b starts with a. *)
Begins(a, b) == Len(a) <= Len(b) /\ \A at \in 1..Len(a) : a[at] = b[at]

LEMMA BeginsLaws ==
  ASSUME NEW X, NEW a \in Seq(X), NEW b \in Seq(X), NEW c \in Seq(X)
  PROVE  /\ Begins(a, a) /\ Begins(a, a \o b)
         /\ Begins(a, b) /\ Begins(b, c) => Begins(a, c)
         /\ Begins(a, b) /\ Len(a) = Len(b) => a = b
<1>1. Begins(a, a)
  BY DEF Begins
<1>2. Begins(a, a \o b)
  BY ConcatProperties DEF Begins
<1>3. Begins(a, b) /\ Begins(b, c) => Begins(a, c)
  BY DEF Begins
<1>4. Begins(a, b) /\ Len(a) = Len(b) => a = b
  BY SeqEqual DEF Begins
<1> QED BY <1>1, <1>2, <1>3, <1>4

LEMMA JoiningGrows ==
  ASSUME NEW X, NEW w \in Seq(Seq(X)), NEW f, Joining(f, w, X),
         NEW m \in 0..Len(w), NEW n \in m..Len(w)
  PROVE  f[n] \in Seq(X) /\ Begins(f[m], f[n])
<1> DEFINE d == n - m
           V == Seq(X)
           T == {j \in 0..d : Begins(f[m], f[m + j])}
<1>1. d \in Nat /\ m \in Nat /\ n = m + d /\ n \in 0..Len(w)
      /\ \A j \in 0..d : m + j \in 0..Len(w) /\ (j # d => (m + j) + 1 \in 1..Len(w))
  OBVIOUS
<1>2. (\A k \in 0..Len(w) : f[k] \in V) /\ (\A k \in 1..Len(w) : f[k] = f[k - 1] \o w[k])
      /\ \A k \in 1..Len(w) : w[k] \in V
  <2>1. \A k \in 1..Len(w) : w[k] \in V
    <3> HIDE DEF V
    <3> QED BY DEF V
  <2> HIDE DEF V
  <2> QED BY <2>1 DEF Joining, V
<1>3. \A x, y, z \in V : Begins(x, x) /\ (Begins(x, y) => Begins(x, y \o z))
  <2> SUFFICES ASSUME NEW x \in V, NEW y \in V, NEW z \in V
               PROVE Begins(x, x) /\ (Begins(x, y) => Begins(x, y \o z))
    OBVIOUS
  <2>1. y \o z \in V /\ Begins(y, y \o z) /\ Begins(x, x)
    BY ConcatProperties, BeginsLaws
  <2> QED BY <2>1, BeginsLaws
<1> HIDE DEF d, V
<1>4. 0 \in T
  <2>1. m + 0 = m /\ 0 \in 0..d
    BY <1>1
  <2> QED BY <1>2, <1>3, <2>1
<1>5. ASSUME NEW j \in 0..(d - 1) PROVE j \in T => j + 1 \in T
  <2>1. j \in 0..d /\ j # d /\ j + 1 \in 0..d /\ m + (j + 1) = (m + j) + 1 /\ ((m + j) + 1) - 1 = m + j
    BY <1>1
  <2>2. f[m + (j + 1)] = f[m + j] \o w[(m + j) + 1] /\ w[(m + j) + 1] \in V
        /\ f[m + j] \in V /\ f[m] \in V
    BY <1>1, <1>2, <2>1
  <2>3. Begins(f[m], f[m + j]) => Begins(f[m], f[m + (j + 1)])
    BY <1>3, <2>2
  <2> QED BY <2>1, <2>3
<1> HIDE DEF T
<1>6. \A j \in 0..d : j \in T
  BY <1>1, <1>4, <1>5, Induction
<1>7. Begins(f[m], f[n])
  <2>1. d \in 0..d /\ n = m + d
    BY <1>1
  <2> QED BY <1>6, <2>1 DEF T
<1> QED BY <1>1, <1>2, <1>7 DEF V

(* Words of a code: none starts with another. *)
IsCode(C) == \A a, b \in C : a # <<>> /\ (Begins(a, b) => a = b)

(* So words one after another are read in one way. *)
LEMMA Decodes ==
  ASSUME NEW X, NEW C \in SUBSET Seq(X), IsCode(C),
         NEW p \in Seq(C), NEW q \in Seq(C), Begins(Joined(p), Joined(q))
  PROVE  Begins(p, q)
<1> DEFINE a == Len(p)
           b == Len(q)
           V == Seq(X)
<1>1. p \in Seq(V) /\ q \in Seq(V) /\ a \in Nat /\ b \in Nat
      /\ (\A k \in 1..a : p[k] \in C) /\ (\A k \in 1..b : q[k] \in C) /\ C \subseteq V
  <2>1. p \in Seq(V) /\ q \in Seq(V)
    <3> HIDE DEF V
    <3> QED BY DEF V
  <2> HIDE DEF V
  <2> QED BY <2>1 DEF V
<1>2. PICK f : Joining(f, p, X)
  BY <1>1, JoiningExists
<1>3. PICK g : Joining(g, q, X)
  BY <1>1, JoiningExists
<1> DEFINE J == Joined(q)
<1>4. Joined(p) = f[a] /\ J = g[b]
  BY <1>1, <1>2, <1>3, JoinedIs
<1>5. /\ \A k \in 0..a : f[k] \in V /\ Begins(f[k], Joined(p))
      /\ \A k \in 0..b : g[k] \in V /\ Begins(g[k], J)
  <2>1. ASSUME NEW k \in 0..a PROVE f[k] \in V /\ Begins(f[k], f[a])
    <3>1. k \in k..a /\ a \in k..a
      BY <1>1
    <3>2. f[k] \in V /\ Begins(f[k], f[a])
      BY <1>1, <1>2, <3>1, JoiningGrows
    <3> QED BY <3>2
  <2>2. ASSUME NEW k \in 0..b PROVE g[k] \in V /\ Begins(g[k], g[b])
    <3>1. k \in k..b /\ b \in k..b
      BY <1>1
    <3>2. g[k] \in V /\ Begins(g[k], g[b])
      BY <1>1, <1>3, <3>1, JoiningGrows
    <3> QED BY <3>2
  <2> QED BY <1>4, <2>1, <2>2
<1>6. (\A k \in 1..a : f[k] = f[k - 1] \o p[k]) /\ (\A k \in 1..b : g[k] = g[k - 1] \o q[k])
      /\ f[0] = <<>> /\ g[0] = <<>>
  BY <1>2, <1>3 DEF Joining
<1>7. Joined(p) \in V /\ J \in V
  BY <1>1, <1>4, <1>5
<1>8. \A k \in 0..a : Begins(f[k], J)
  <2> SUFFICES ASSUME NEW k \in 0..a PROVE Begins(f[k], J)
    OBVIOUS
  <2>1. f[k] \in V /\ Begins(f[k], Joined(p)) /\ Begins(Joined(p), J)
    BY <1>5
  <2> QED BY <1>7, <2>1, BeginsLaws
<1> DEFINE T == {n \in 0..a : n <= b /\ f[n] = g[n] /\ \A k \in 1..n : p[k] = q[k]}
<1>9. 0 \in T
  <2>1. 0 \in 0..a /\ 0 <= b /\ \A k \in 1..0 : FALSE
    BY <1>1
  <2> HIDE DEF a, b
  <2> QED BY <1>6, <2>1
<1>10. \A y, z \in V : /\ Len(y \o z) = Len(y) + Len(z) /\ Len(y) \in Nat /\ (y # <<>> => Len(y) > 0)
                       /\ \A at \in 1..(Len(y) + Len(z)) :
                            (y \o z)[at] = IF at <= Len(y) THEN y[at] ELSE z[at - Len(y)]
  <2> SUFFICES ASSUME NEW y \in V, NEW z \in V
               PROVE  /\ Len(y \o z) = Len(y) + Len(z) /\ Len(y) \in Nat /\ (y # <<>> => Len(y) > 0)
                      /\ \A at \in 1..(Len(y) + Len(z)) :
                           (y \o z)[at] = IF at <= Len(y) THEN y[at] ELSE z[at - Len(y)]
    OBVIOUS
  <2>1. Len(y) \in Nat /\ (y # <<>> => Len(y) > 0)
    OBVIOUS
  <2> QED BY <2>1, ConcatProperties
<1>11. ASSUME NEW n \in 0..(a - 1), n \in T PROVE n + 1 \in T
  <2> DEFINE x == f[n]
             u == p[n + 1]
             v == q[n + 1]
  <2>1. n + 1 \in 1..a /\ n + 1 \in 0..a /\ (n + 1) - 1 = n /\ n \in 0..a /\ n \in Nat /\ n <= b
        /\ x = g[n] /\ n \in 0..b
    BY <1>1, <1>11
  <2>2. f[n + 1] = x \o u /\ u \in C /\ u \in V /\ x \in V
    BY <1>1, <1>5, <1>6, <2>1
  <2>3. Begins(x \o u, J)
    BY <1>8, <2>1, <2>2
  <2>4. u # <<>>
    BY <2>2 DEF IsCode
  <2>5. Len(x \o u) = Len(x) + Len(u) /\ Len(u) > 0 /\ Len(x) \in Nat /\ Len(J) \in Nat
        /\ Len(u) \in Nat
        /\ \A at \in 1..(Len(x) + Len(u)) : (x \o u)[at] = IF at <= Len(x) THEN x[at] ELSE u[at - Len(x)]
    <3> HIDE DEF V, x, u, J
    <3> QED BY <1>7, <1>10, <2>2, <2>4
  <2>6. n # b
    <3> SUFFICES ASSUME n = b PROVE FALSE
      OBVIOUS
    <3>1. J = x
      BY <1>4, <2>1
    <3>2. Len(x \o u) <= Len(x)
      BY <2>3, <3>1 DEF Begins
    <3> HIDE DEF x, u
    <3> QED BY <2>5, <3>2
  <2>7. n + 1 \in 1..b /\ n + 1 \in 0..b
    BY <1>1, <2>1, <2>6
  <2>8. g[n + 1] = x \o v /\ v \in C /\ v \in V /\ Begins(x \o v, J)
    BY <1>1, <1>5, <1>6, <2>1, <2>7
  <2>9. Len(x \o v) = Len(x) + Len(v) /\ Len(v) \in Nat
        /\ \A at \in 1..(Len(x) + Len(v)) : (x \o v)[at] = IF at <= Len(x) THEN x[at] ELSE v[at - Len(x)]
    <3> HIDE DEF V, x, v
    <3> QED BY <1>10, <2>2, <2>8
  <2> HIDE DEF x, u, v, J
  <2>10. ASSUME NEW at \in 1..Len(u), at <= Len(v) PROVE u[at] = v[at]
    <3>1. Len(x) + at \in 1..(Len(x) + Len(u)) /\ Len(x) + at \in 1..(Len(x) + Len(v))
          /\ ~ Len(x) + at <= Len(x) /\ (Len(x) + at) - Len(x) = at
      BY <2>5, <2>9, <2>10
    <3>2. (x \o u)[Len(x) + at] = u[at] /\ (x \o v)[Len(x) + at] = v[at]
      BY <2>5, <2>9, <3>1
    <3>3. (x \o u)[Len(x) + at] = J[Len(x) + at] /\ (x \o v)[Len(x) + at] = J[Len(x) + at]
      BY <2>3, <2>5, <2>8, <2>9, <3>1 DEF Begins
    <3> QED BY <3>2, <3>3
  <2>11. Begins(u, v) \/ Begins(v, u)
    <3>1. CASE Len(u) <= Len(v)
      BY <2>5, <2>9, <2>10, <3>1 DEF Begins
    <3>2. CASE Len(v) <= Len(u)
      BY <2>5, <2>9, <2>10, <3>2 DEF Begins
    <3> QED BY <2>5, <2>9, <3>1, <3>2
  <2>12. u = v
    BY <2>2, <2>8, <2>11 DEF IsCode
  <2>13. f[n + 1] = g[n + 1]
    BY <2>2, <2>8, <2>12
  <2>14. \A k \in 1..(n + 1) : p[k] = q[k]
    <3>1. \A k \in 1..n : p[k] = q[k]
      BY <1>11
    <3>2. \A k \in 1..(n + 1) : k \in 1..n \/ k = n + 1
      BY <2>1
    <3> QED BY <2>12, <3>1, <3>2 DEF u, v
  <2> QED BY <1>1, <2>1, <2>7, <2>13, <2>14
<1> HIDE DEF T, a
<1>12. \A n \in 0..a : n \in T
  BY <1>1, <1>9, <1>11, Induction
<1>13. a \in T
  BY <1>1, <1>12
<1>14. a <= b /\ \A k \in 1..a : p[k] = q[k]
  BY <1>13 DEF T
<1> QED BY <1>14 DEF Begins, a

LEMMA JoinedNext ==
  ASSUME NEW X, NEW p \in Seq(Seq(X)), NEW w \in Seq(Seq(X)), Begins(p, w), Len(p) < Len(w)
  PROVE  Begins(Joined(p) \o w[Len(p) + 1], Joined(w))
<1> DEFINE n == Len(p)
           V == Seq(X)
<1>1. PICK f : Joining(f, w, X)
  BY JoiningExists
<1> DEFINE h == [k \in 0..n |-> f[k]]
<1>2. n \in Nat /\ Len(w) \in Nat /\ n < Len(w) /\ \A k \in 1..n : p[k] = w[k]
  BY DEF Begins
<1>3. f \in [0..Len(w) -> V] /\ f[0] = <<>> /\ \A k \in 1..Len(w) : f[k] = f[k - 1] \o w[k]
  BY <1>1 DEF Joining
<1>4. Joining(h, p, X)
  <2>1. h \in [0..n -> V] /\ h[0] = <<>>
    <3>1. \A k \in 0..n : k \in 0..Len(w)
      BY <1>2
    <3>2. 0 \in 0..n
      BY <1>2
    <3> HIDE DEF V, n
    <3> QED BY <1>3, <3>1, <3>2
  <2>2. ASSUME NEW k \in 1..n PROVE h[k] = h[k - 1] \o p[k]
    <3>1. k \in 0..n /\ k - 1 \in 0..n /\ k \in 1..Len(w)
      BY <1>2
    <3> HIDE DEF n, V
    <3> QED BY <1>2, <1>3, <3>1
  <2> HIDE DEF h
  <2> QED BY <2>1, <2>2 DEF Joining
<1>5. Joined(p) = f[n] /\ Joined(w) = f[Len(w)]
  <2>1. n \in 0..n
    BY <1>2
  <2>2. Joined(p) = h[n]
    BY <1>4, JoinedIs
  <2> QED BY <1>1, <2>1, <2>2, JoinedIs
<1>6. n + 1 \in 1..Len(w) /\ (n + 1) - 1 = n /\ n + 1 \in 0..Len(w) /\ Len(w) \in (n + 1)..Len(w)
  BY <1>2
<1>7. f[n + 1] = f[n] \o w[n + 1]
  BY <1>3, <1>6
<1>8. Begins(f[n + 1], f[Len(w)])
  BY <1>1, <1>6, JoiningGrows
<1> QED BY <1>5, <1>7, <1>8

LEMMA JoinedLengths ==
  ASSUME NEW X, NEW w \in Seq(Seq(X)), NEW a \in Nat, NEW b \in Nat,
         \A k \in 1..Len(w) : Len(w[k]) \in a..b
  PROVE  Len(Joined(w)) \in (a * Len(w))..(b * Len(w)) /\ Joined(w) \in Seq(X)
<1> DEFINE n == Len(w)
           V == Seq(X)
<1>1. PICK f : Joining(f, w, X)
  BY JoiningExists
<1>2. f \in [0..n -> V] /\ f[0] = <<>> /\ \A k \in 1..n : f[k] = f[k - 1] \o w[k]
  BY <1>1 DEF Joining
<1>3. (\A k \in 1..n : w[k] \in V) /\ n \in Nat
      /\ \A x, y \in V : Len(x \o y) = Len(x) + Len(y) /\ Len(x) \in Nat
  <2>1. n \in Nat
    OBVIOUS
  <2>2. \A k \in 1..n : w[k] \in V
    <3> HIDE DEF V
    <3> QED BY DEF V
  <2>3. \A x, y \in V : Len(x \o y) = Len(x) + Len(y) /\ Len(x) \in Nat
    BY ConcatProperties
  <2> QED BY <2>1, <2>2, <2>3
<1> DEFINE T == {k \in 0..n : Len(f[k]) \in (a * k)..(b * k)}
<1> HIDE DEF V
<1>4. 0 \in T
  <2>1. a * 0 = 0 /\ b * 0 = 0 /\ 0 \in 0..n /\ Len(<<>>) = 0
    BY <1>3
  <2> QED BY <1>2, <2>1
<1>5. ASSUME NEW k \in 0..(n - 1), k \in T PROVE k + 1 \in T
  <2>1. k + 1 \in 1..n /\ k + 1 \in 0..n /\ (k + 1) - 1 = k /\ k \in 0..n /\ k \in Nat
    BY <1>3
  <2>2. f[k + 1] = f[k] \o w[k + 1] /\ f[k] \in V /\ w[k + 1] \in V
    BY <1>2, <1>3, <2>1
  <2>3. Len(f[k + 1]) = Len(f[k]) + Len(w[k + 1]) /\ Len(f[k]) \in Nat
        /\ Len(w[k + 1]) \in a..b /\ Len(f[k]) \in (a * k)..(b * k)
    BY <1>3, <1>5, <2>1, <2>2
  <2>4. a * (k + 1) = a * k + a /\ b * (k + 1) = b * k + b /\ a * k \in Nat /\ b * k \in Nat
    BY <2>1
  <2>5. Len(f[k + 1]) \in (a * (k + 1))..(b * (k + 1))
    <3> DEFINE x == a * k
               y == b * k
               u == Len(f[k])
               v == Len(w[k + 1])
    <3>1. a * (k + 1) = x + a /\ b * (k + 1) = y + b /\ x \in Nat /\ y \in Nat
          /\ u \in x..y /\ v \in a..b /\ Len(f[k + 1]) = u + v
      BY <2>3, <2>4
    <3> HIDE DEF x, y, u, v
    <3>2. u + v \in (x + a)..(y + b)
      BY <3>1
    <3> QED BY <3>1, <3>2
  <2> QED BY <2>1, <2>5
<1> HIDE DEF T, n
<1>6. n \in T
  <2>1. n \in Nat /\ n \in 0..n
    BY <1>3
  <2> QED BY <1>4, <1>5, <2>1, Induction
<1>7. Joined(w) = f[n] /\ Joined(w) \in Seq(X)
  BY <1>1, JoinedIs DEF n
<1> QED BY <1>6, <1>7 DEF T, n

LEMMA JoinedNotShorter ==
  ASSUME NEW X, NEW w \in Seq(Seq(X)), \A k \in 1..Len(w) : Len(w[k]) >= 1
  PROVE  Len(w) <= Len(Joined(w))
<1> DEFINE n == Len(w)
           V == Seq(X)
<1>1. PICK f : Joining(f, w, X)
  BY JoiningExists
<1>2. f \in [0..n -> V] /\ f[0] = <<>> /\ \A k \in 1..n : f[k] = f[k - 1] \o w[k]
  BY <1>1 DEF Joining
<1>3. (\A k \in 1..n : w[k] \in V) /\ n \in Nat
      /\ \A x, y \in V : Len(x \o y) = Len(x) + Len(y) /\ Len(x) \in Nat
  <2>1. n \in Nat
    OBVIOUS
  <2>2. \A k \in 1..n : w[k] \in V
    <3> HIDE DEF V
    <3> QED BY DEF V
  <2>3. \A x, y \in V : Len(x \o y) = Len(x) + Len(y) /\ Len(x) \in Nat
    BY ConcatProperties
  <2> QED BY <2>1, <2>2, <2>3
<1> DEFINE T == {k \in 0..n : k <= Len(f[k])}
<1>4. 0 \in T
  BY <1>2
<1>5. ASSUME NEW k \in 0..(n - 1), k \in T PROVE k + 1 \in T
  <2> HIDE DEF V
  <2>1. k + 1 \in 1..n /\ k + 1 \in 0..n /\ (k + 1) - 1 = k /\ k \in 0..n /\ k \in Nat
    BY <1>3
  <2>2. f[k + 1] = f[k] \o w[k + 1] /\ f[k] \in V /\ w[k + 1] \in V
    BY <1>2, <1>3, <2>1
  <2>3. Len(f[k + 1]) = Len(f[k]) + Len(w[k + 1]) /\ Len(f[k]) \in Nat
        /\ Len(w[k + 1]) >= 1 /\ Len(w[k + 1]) \in Nat /\ k <= Len(f[k])
    BY <1>3, <1>5, <2>1, <2>2
  <2> DEFINE x == Len(f[k])
             y == Len(w[k + 1])
             z == Len(f[k + 1])
  <2>4. z = x + y /\ x \in Nat /\ y \in Nat /\ y >= 1 /\ k <= x
    BY <2>3
  <2> HIDE DEF x, y, z
  <2>5. k + 1 <= z
    BY <2>1, <2>4
  <2> QED BY <2>1, <2>5 DEF z
<1> HIDE DEF T, n
<1>6. n \in T
  <2>1. n \in Nat /\ n \in 0..n
    BY <1>3
  <2> QED BY <1>4, <1>5, <2>1, Induction
<1>7. Joined(w) = f[n]
  BY <1>1, JoinedIs DEF n
<1> QED BY <1>6, <1>7 DEF T, n

(* Words of two. *)
LEMMA JoinedPairs ==
  ASSUME NEW X, NEW w \in Seq(Seq(X)), \A k \in 1..Len(w) : Len(w[k]) = 2
  PROVE  /\ Joined(w) \in Seq(X) /\ Len(Joined(w)) = 2 * Len(w)
         /\ \A k \in 1..Len(w) : Joined(w)[2 * k - 1] = w[k][1] /\ Joined(w)[2 * k] = w[k][2]
<1> DEFINE n == Len(w)
           V == Seq(X)
           J == Joined(w)
<1>1. PICK f : Joining(f, w, X)
  BY JoiningExists
<1>2. f \in [0..n -> V] /\ f[0] = <<>> /\ \A k \in 1..n : f[k] = f[k - 1] \o w[k]
  BY <1>1 DEF Joining
<1>3. J \in V /\ Len(J) = 2 * n
  <2>1. \A k \in 1..Len(w) : Len(w[k]) \in 2..2
    OBVIOUS
  <2>2. Len(J) \in (2 * n)..(2 * n) /\ J \in V
    BY <2>1, JoinedLengths
  <2> QED BY <2>2
<1>4. ASSUME NEW k \in 1..n PROVE J[2 * k - 1] = w[k][1] /\ J[2 * k] = w[k][2]
  <2> DEFINE p == SubSeq(w, 1, k - 1)
  <2>1. k - 1 \in 0..n /\ p \in Seq(V) /\ Len(p) = k - 1 /\ (\A j \in 1..(k - 1) : p[j] = w[j])
        /\ k - 1 < n /\ (k - 1) + 1 = k
    <3>1. k - 1 \in 0..n /\ k - 1 < n /\ (k - 1) + 1 = k /\ n \in Nat
      OBVIOUS
    <3>2. p = [j \in 1..(k - 1) |-> w[j]]
      BY <3>1
    <3>3. \A j \in 1..(k - 1) : w[j] \in V
      <4> HIDE DEF V
      <4> QED BY <3>1 DEF V
    <3> HIDE DEF V
    <3> QED BY <3>1, <3>2, <3>3
  <2>2. Begins(p, w)
    BY <2>1 DEF Begins
  <2>3. Joined(p) \in V /\ Len(Joined(p)) = 2 * (k - 1)
    <3>1. \A j \in 1..Len(p) : Len(p[j]) \in 2..2
      BY <2>1
    <3>2. Len(Joined(p)) \in (2 * Len(p))..(2 * Len(p)) /\ Joined(p) \in V
      BY <2>1, <3>1, JoinedLengths
    <3> QED BY <2>1, <3>2
  <2>4. Begins(Joined(p) \o w[k], J)
    <3> HIDE DEF p
    <3> QED BY <2>1, <2>2, JoinedNext
  <2>5. w[k] \in V /\ Len(w[k]) = 2
    <3> HIDE DEF V
    <3> QED BY DEF V
  <2>6. /\ Len(Joined(p) \o w[k]) = 2 * k
        /\ (Joined(p) \o w[k])[2 * k - 1] = w[k][1] /\ (Joined(p) \o w[k])[2 * k] = w[k][2]
    <3> DEFINE x == Joined(p)
               y == w[k]
    <3>1. Len(x \o y) = Len(x) + Len(y)
          /\ \A at \in 1..(Len(x) + Len(y)) : (x \o y)[at] = IF at <= Len(x) THEN x[at] ELSE y[at - Len(x)]
      BY <2>3, <2>5, ConcatProperties
    <3>2. Len(x) + Len(y) = 2 * k /\ 2 * k - 1 \in 1..(2 * k) /\ 2 * k \in 1..(2 * k)
          /\ (2 * k - 1) - Len(x) = 1 /\ 2 * k - Len(x) = 2
          /\ ~ 2 * k - 1 <= Len(x) /\ ~ 2 * k <= Len(x)
      <4>1. Len(x) = 2 * (k - 1) /\ Len(y) = 2 /\ k \in Nat /\ k >= 1
        BY <2>3, <2>5
      <4> HIDE DEF x, y
      <4> QED BY <4>1
    <3> HIDE DEF x, y
    <3>3. /\ Len(x \o y) = 2 * k
          /\ (x \o y)[2 * k - 1] = y[1] /\ (x \o y)[2 * k] = y[2]
      BY <3>1, <3>2
    <3> QED BY <3>3 DEF x, y
  <2>7. 2 * k - 1 \in 1..(2 * k) /\ 2 * k \in 1..(2 * k)
    OBVIOUS
  <2> HIDE DEF J, p
  <2> QED BY <2>4, <2>6, <2>7 DEF Begins
<1> QED BY <1>3, <1>4

(***************************************************************************)
(* UTF-16.                                                                 *)
(***************************************************************************)
(* What a unit of UTF-16 is, *)
UnitNumbers == {u \in Nat : u < 65536}
IsHigh(u) == u >= 55296 /\ u < 56320
IsLow(u) == u >= 56320 /\ u <= 57343

(* and what the units of a character are. *)
Single(c) == units(c) = <<c>> /\ c < 65536 /\ ~IsHigh(c) /\ ~IsLow(c)
Pair(c) ==
  /\ Len(units(c)) = 2 /\ IsHigh(units(c)[1]) /\ IsLow(units(c)[2])
  /\ c = 65536 + 1024 * (units(c)[1] - 55296) + (units(c)[2] - 56320)

LEMMA UnitsAre ==
  ASSUME NEW c \in CodePoints
  PROVE  /\ units(c) \in Seq(UnitNumbers) /\ units(c) # <<>> /\ Len(units(c)) \in 1..2 /\ c \in Nat
         /\ c < 65536 => Single(c)
         /\ ~ c < 65536 => Pair(c)
<1>1. c \in Nat /\ c <= 1114111 /\ (c < 55296 \/ c > 57343)
  BY CharsetAssumption
<1>2. CASE c < 65536
  <2>1. units(c) = <<c>> /\ c \in UnitNumbers
    BY <1>1, <1>2 DEF units, UnitNumbers
  <2>2. ~IsHigh(c) /\ ~IsLow(c)
    BY <1>1 DEF IsHigh, IsLow
  <2>3. <<c>> \in Seq(UnitNumbers) /\ <<c>> # <<>> /\ Len(<<c>>) = 1
    BY <2>1
  <2> QED BY <1>1, <1>2, <2>1, <2>2, <2>3 DEF Single
<1>3. CASE ~ c < 65536
  <2> DEFINE a == (c - 65536) \div 1024
             b == (c - 65536) % 1024
  <2>1. a \in Int /\ b \in Int /\ 0 <= b /\ b < 1024 /\ c - 65536 = 1024 * a + b
    <3> DEFINE e == c - 65536
    <3>1. e \in Int
      BY <1>1
    <3> HIDE DEF e
    <3>2. e \div 1024 \in Int /\ e % 1024 \in Int /\ 0 <= e % 1024 /\ e % 1024 < 1024
          /\ e = 1024 * (e \div 1024) + (e % 1024)
      BY <3>1, SMT
    <3> QED BY <3>2 DEF e, a, b
  <2>2. units(c) = <<55296 + a, 56320 + b>>
    BY <1>3 DEF units
  <2> HIDE DEF a, b
  <2>3. 0 <= a /\ a < 1024
    BY <1>1, <1>3, <2>1
  <2>4. IsHigh(55296 + a) /\ IsLow(56320 + b) /\ 55296 + a \in UnitNumbers /\ 56320 + b \in UnitNumbers
    BY <2>1, <2>3 DEF IsHigh, IsLow, UnitNumbers
  <2>5. c = 65536 + 1024 * ((55296 + a) - 55296) + ((56320 + b) - 56320)
    BY <1>1, <2>1
  <2>6. units(c) \in Seq(UnitNumbers) /\ Len(units(c)) = 2 /\ units(c)[1] = 55296 + a
        /\ units(c)[2] = 56320 + b /\ units(c) # <<>>
    BY <2>2, <2>4
  <2> QED BY <1>1, <1>3, <2>4, <2>5, <2>6 DEF Pair
<1> QED BY <1>2, <1>3

UnitCode == {units(c) : c \in CodePoints}

LEMMA UnitsCode ==
  /\ UnitCode \in SUBSET Seq(UnitNumbers) /\ IsCode(UnitCode)
  /\ \A c, d \in CodePoints : Begins(units(c), units(d)) => c = d
<1>1. UnitCode \in SUBSET Seq(UnitNumbers)
  BY UnitsAre DEF UnitCode
<1>2. ASSUME NEW c \in CodePoints, NEW d \in CodePoints, Begins(units(c), units(d)) PROVE c = d
  <2>1. c \in Nat /\ d \in Nat /\ units(c) \in Seq(UnitNumbers) /\ units(d) \in Seq(UnitNumbers)
    BY UnitsAre
  <2>2. CASE c < 65536
    <3>1. units(c) = <<c>> /\ ~IsHigh(c)
      BY UnitsAre, <2>2 DEF Single
    <3>2. units(d)[1] = c
      BY <3>1, <1>2 DEF Begins
    <3>3. d < 65536
      BY <3>1, <3>2, UnitsAre DEF Pair
    <3> QED BY <3>2, <3>3, UnitsAre DEF Single
  <2>3. CASE ~ c < 65536
    <3>1. Pair(c)
      BY UnitsAre, <2>3
    <3>2. Len(units(d)) >= 2 /\ units(d)[1] = units(c)[1] /\ units(d)[2] = units(c)[2]
      BY <3>1, <1>2 DEF Begins, Pair
    <3>3. ~ d < 65536
      BY <3>2, UnitsAre DEF Single
    <3>4. Pair(d)
      BY <3>3, UnitsAre
    <3> QED BY <3>1, <3>2, <3>4 DEF Pair
  <2> QED BY <2>2, <2>3
<1>3. IsCode(UnitCode)
  BY <1>2, UnitsAre DEF IsCode, UnitCode
<1> QED BY <1>1, <1>2, <1>3

UnitWords(t) == [k \in 1..Len(t) |-> units(t[k])]

LEMMA UnitsOfIs ==
  ASSUME NEW t \in Seq(CodePoints)
  PROVE  /\ UnitsOf(t) = Joined(UnitWords(t))
         /\ UnitWords(t) \in Seq(UnitCode) /\ UnitWords(t) \in Seq(Seq(UnitNumbers))
         /\ Len(UnitWords(t)) = Len(t)
         /\ UnitsOf(t) \in Seq(UnitNumbers) /\ Len(UnitsOf(t)) \in Len(t)..(2 * Len(t))
<1>1. UnitsOf(t) = Joined(UnitWords(t))
  BY DEF UnitsOf, UnitWords
<1>2. \A k \in 1..Len(t) : t[k] \in CodePoints /\ units(t[k]) \in Seq(UnitNumbers)
                           /\ Len(units(t[k])) \in 1..2
  BY UnitsAre
<1>3. /\ UnitWords(t) \in Seq(UnitCode) /\ Len(UnitWords(t)) = Len(t)
      /\ UnitWords(t) \in Seq(Seq(UnitNumbers))
      /\ \A k \in 1..Len(UnitWords(t)) : Len(UnitWords(t)[k]) \in 1..2
  BY <1>2 DEF UnitWords, UnitCode
<1>4. Len(Joined(UnitWords(t))) \in (1 * Len(t))..(2 * Len(t)) /\ Joined(UnitWords(t)) \in Seq(UnitNumbers)
  BY <1>3, JoinedLengths
<1> QED BY <1>1, <1>3, <1>4

LEMMA UnitsDecode ==
  ASSUME NEW t \in Seq(CodePoints), NEW u \in Seq(CodePoints), Begins(UnitsOf(t), UnitsOf(u))
  PROVE  Begins(t, u)
<1> DEFINE p == UnitWords(t)
           q == UnitWords(u)
<1>1. p \in Seq(UnitCode) /\ q \in Seq(UnitCode) /\ Begins(Joined(p), Joined(q))
      /\ Len(p) = Len(t) /\ Len(q) = Len(u)
  BY UnitsOfIs
<1>2. Begins(p, q)
  <2> HIDE DEF p, q
  <2> QED BY <1>1, UnitsCode, Decodes
<1>3. \A k \in 1..Len(t) : k \in 1..Len(u) /\ units(t[k]) = units(u[k])
  <2>1. \A k \in 1..Len(t) : k \in 1..Len(u) /\ p[k] = q[k]
    <3> HIDE DEF p, q
    <3> QED BY <1>1, <1>2 DEF Begins
  <2> QED BY <2>1 DEF UnitWords
<1>4. \A k \in 1..Len(t) : t[k] = u[k]
  <2> SUFFICES ASSUME NEW k \in 1..Len(t) PROVE t[k] = u[k]
    OBVIOUS
  <2>1. t[k] \in CodePoints /\ u[k] \in CodePoints /\ units(t[k]) = units(u[k])
    BY <1>3
  <2>2. Begins(units(t[k]), units(u[k]))
    BY <2>1, UnitsAre, BeginsLaws
  <2> QED BY <2>1, <2>2, UnitsCode
<1> QED BY <1>1, <1>2, <1>4 DEF Begins

LEMMA UnitsOne ==
  ASSUME NEW t \in Seq(CodePoints), NEW u \in Seq(CodePoints), UnitsOf(t) = UnitsOf(u)
  PROVE  t = u
<1>1. Begins(UnitsOf(t), UnitsOf(u)) /\ Begins(UnitsOf(u), UnitsOf(t))
  BY UnitsOfIs, BeginsLaws
<1>2. Begins(t, u) /\ Begins(u, t)
  BY <1>1, UnitsDecode
<1>3. Len(t) = Len(u)
  BY <1>2 DEF Begins
<1> QED BY <1>2, <1>3, BeginsLaws

LEMMA UnitsNext ==
  ASSUME NEW t \in Seq(CodePoints), NEW u \in Seq(CodePoints), Begins(t, u), Len(t) < Len(u)
  PROVE  Begins(UnitsOf(t) \o units(u[Len(t) + 1]), UnitsOf(u))
<1> DEFINE p == UnitWords(t)
           q == UnitWords(u)
<1>1. p \in Seq(Seq(UnitNumbers)) /\ q \in Seq(Seq(UnitNumbers)) /\ Len(p) = Len(t) /\ Len(q) = Len(u)
      /\ UnitsOf(t) = Joined(p) /\ UnitsOf(u) = Joined(q)
  BY UnitsOfIs
<1>2. Begins(p, q) /\ q[Len(t) + 1] = units(u[Len(t) + 1])
  BY <1>1 DEF Begins, UnitWords
<1> HIDE DEF p, q
<1>3. Begins(Joined(p) \o q[Len(p) + 1], Joined(q))
  BY <1>1, <1>2, JoinedNext
<1> QED BY <1>1, <1>2, <1>3

LEMMA UnitsTwo ==
  ASSUME NEW t \in Seq(CodePoints), NEW u \in Seq(CodePoints)
  PROVE  t \o u \in Seq(CodePoints) /\ UnitsOf(t \o u) = UnitsOf(t) \o UnitsOf(u)
<1>1. t \o u \in Seq(CodePoints) /\ Len(t \o u) = Len(t) + Len(u)
      /\ \A k \in 1..(Len(t) + Len(u)) : (t \o u)[k] = IF k <= Len(t) THEN t[k] ELSE u[k - Len(t)]
  BY ConcatProperties
<1> DEFINE p == UnitWords(t)
           q == UnitWords(u)
           w == UnitWords(t \o u)
<1>2. p \in Seq(Seq(UnitNumbers)) /\ q \in Seq(Seq(UnitNumbers)) /\ w \in Seq(Seq(UnitNumbers))
      /\ Len(p) = Len(t) /\ Len(q) = Len(u) /\ Len(w) = Len(t) + Len(u)
  BY <1>1, UnitsOfIs
<1>3. p \o q \in Seq(Seq(UnitNumbers)) /\ Len(p \o q) = Len(t) + Len(u)
      /\ \A k \in 1..(Len(t) + Len(u)) : (p \o q)[k] = IF k <= Len(t) THEN p[k] ELSE q[k - Len(t)]
  <2> HIDE DEF p, q
  <2> QED BY <1>2, ConcatProperties
<1>4. ASSUME NEW k \in 1..(Len(t) + Len(u)) PROVE w[k] = (p \o q)[k]
  <2>1. w[k] = units((t \o u)[k])
    BY <1>1 DEF UnitWords
  <2>2. CASE k <= Len(t)
    <3>1. p[k] = units(t[k])
      BY <2>2 DEF UnitWords
    <3> HIDE DEF p, q, w
    <3> QED BY <1>1, <1>3, <2>1, <2>2, <3>1
  <2>3. CASE ~ k <= Len(t)
    <3>1. q[k - Len(t)] = units(u[k - Len(t)])
      BY <2>3 DEF UnitWords
    <3> HIDE DEF p, q, w
    <3> QED BY <1>1, <1>3, <2>1, <2>3, <3>1
  <2> QED BY <2>2, <2>3
<1>5. w = p \o q
  <2> HIDE DEF p, q, w
  <2> QED BY <1>2, <1>3, <1>4, SeqEqual
<1>6. Joined(p \o q) = Joined(p) \o Joined(q)
  <2> HIDE DEF p, q, w
  <2> QED BY <1>2, JoinedTwo
<1>7. UnitsOf(t) = Joined(p) /\ UnitsOf(u) = Joined(q) /\ UnitsOf(t \o u) = Joined(w)
  BY <1>1, UnitsOfIs
<1> QED BY <1>1, <1>5, <1>6, <1>7

(***************************************************************************)
(* Bytes of UTF-16LE.                                                      *)
(***************************************************************************)
LEMMA JoinedFew ==
  ASSUME NEW X, NEW x \in Seq(X), NEW y \in Seq(X)
  PROVE  Joined(<<x>>) = x /\ Joined(<<x, y>>) = x \o y
<1> DEFINE V == Seq(X)
<1>1. \A z \in V : Joined(<<z>>) = z
  <2> SUFFICES ASSUME NEW z \in V PROVE Joined(<<z>>) = z
    OBVIOUS
  <2> DEFINE w == <<z>>
  <2>1. w \in Seq(V) /\ Len(w) = 1 /\ w[1] = z
    <3> HIDE DEF V
    <3> QED OBVIOUS
  <2> HIDE DEF w
  <2>2. PICK f : Joining(f, w, X)
    BY <2>1, JoiningExists
  <2>3. f[0] = <<>> /\ f[1] = f[0] \o z
    <3>1. 1 \in 1..Len(w) /\ 1 - 1 = 0
      BY <2>1
    <3> QED BY <2>1, <2>2, <3>1 DEF Joining
  <2>4. f[1] = z
    BY <2>3, ConcatEmptySeq
  <2>5. Joined(w) = f[1]
    BY <2>1, <2>2, JoinedIs
  <2> QED BY <2>4, <2>5 DEF w
<1>2. <<x>> \in Seq(V) /\ <<y>> \in Seq(V) /\ <<x, y>> = <<x>> \o <<y>>
  <2> HIDE DEF V
  <2>1. x \in V /\ y \in V
    BY DEF V
  <2>2. <<x>> \in Seq(V) /\ <<y>> \in Seq(V) /\ <<x, y>> \in Seq(V)
        /\ Len(<<x>>) = 1 /\ Len(<<y>>) = 1 /\ Len(<<x, y>>) = 2
    BY <2>1
  <2>3. <<x>> \o <<y>> \in Seq(V) /\ Len(<<x>> \o <<y>>) = 2
        /\ (<<x>> \o <<y>>)[1] = x /\ (<<x>> \o <<y>>)[2] = y
    BY <2>2, ConcatProperties
  <2>4. \A k \in 1..2 : <<x, y>>[k] = (<<x>> \o <<y>>)[k]
    BY <2>3
  <2> QED BY <2>2, <2>3, <2>4, SeqEqual
<1>3. Joined(<<x>> \o <<y>>) = Joined(<<x>>) \o Joined(<<y>>)
  <2> DEFINE p == <<x>>
             q == <<y>>
  <2>1. p \in Seq(V) /\ q \in Seq(V)
    BY <1>2
  <2> HIDE DEF p, q
  <2>2. Joined(p \o q) = Joined(p) \o Joined(q)
    BY <2>1, JoinedTwo
  <2> QED BY <2>2 DEF p, q
<1> QED BY <1>1, <1>2, <1>3

LEMMA LittleEndianIs ==
  ASSUME NEW u \in UnitNumbers
  PROVE  /\ littleEndian(u) \in Seq(Nat) /\ Len(littleEndian(u)) = 2
         /\ littleEndian(u)[1] + 256 * littleEndian(u)[2] = u
<1>1. u \in Nat
  BY DEF UnitNumbers
<1>2. u % 256 \in Nat /\ u \div 256 \in Nat /\ (u % 256) + 256 * (u \div 256) = u
  BY <1>1, SMT
<1> QED BY <1>2 DEF littleEndian

(* The order of the platform does not matter. *)
LEMMA OrderIs ==
  ASSUME csOrder \in {"LE", "BE"}, NEW u \in UnitNumbers, NEW a \in Nat, NEW b \in Nat
  PROVE  toBytesImpl(u, "LE") = littleEndian(u) /\ fromBytes(<<a, b>>, "LE") = a + 256 * b
<1>1. Reversed(Reversed(littleEndian(u))) = littleEndian(u)
  BY DEF Reversed, littleEndian
<1>2. Reversed(<<a, b>>) = <<b, a>>
  BY DEF Reversed
<1>3. toBytesImpl(u, "LE") = littleEndian(u)
  BY <1>1 DEF toBytesImpl, IntegerBase
<1>4. fromBytes(<<a, b>>, "LE") = a + 256 * b
  BY <1>2 DEF fromBytes, value16
<1> QED BY <1>3, <1>4

UnitBytes(s) == [k \in 1..Len(s) |-> littleEndian(s[k])]

LEMMA UnitBytesAre ==
  ASSUME NEW s \in Seq(UnitNumbers)
  PROVE  /\ UnitBytes(s) \in Seq(Seq(Nat)) /\ Len(UnitBytes(s)) = Len(s)
         /\ Joined(UnitBytes(s)) \in Seq(Nat) /\ Len(Joined(UnitBytes(s))) = 2 * Len(s)
         /\ \A k \in 1..Len(s) :
              s[k] = Joined(UnitBytes(s))[2 * k - 1] + 256 * Joined(UnitBytes(s))[2 * k]
<1> DEFINE w == UnitBytes(s)
<1>1. \A k \in 1..Len(s) : s[k] \in UnitNumbers
  OBVIOUS
<1>2. w \in Seq(Seq(Nat)) /\ Len(w) = Len(s)
      /\ \A k \in 1..Len(s) : Len(w[k]) = 2 /\ s[k] = w[k][1] + 256 * w[k][2]
  <2>1. \A k \in 1..Len(s) : /\ littleEndian(s[k]) \in Seq(Nat) /\ Len(littleEndian(s[k])) = 2
                             /\ littleEndian(s[k])[1] + 256 * littleEndian(s[k])[2] = s[k]
    BY <1>1, LittleEndianIs
  <2>2. w = [k \in 1..Len(s) |-> littleEndian(s[k])] /\ Len(s) \in Nat
    BY DEF UnitBytes
  <2> HIDE DEF w
  <2> QED BY <2>1, <2>2
<1> HIDE DEF w
<1>3. /\ Joined(w) \in Seq(Nat) /\ Len(Joined(w)) = 2 * Len(w)
      /\ \A k \in 1..Len(w) : Joined(w)[2 * k - 1] = w[k][1] /\ Joined(w)[2 * k] = w[k][2]
  BY <1>2, JoinedPairs
<1> QED BY <1>2, <1>3 DEF w

LEMMA UnitBytesDecode ==
  ASSUME NEW s \in Seq(UnitNumbers), NEW r \in Seq(UnitNumbers),
         Joined(UnitBytes(s)) = Joined(UnitBytes(r))
  PROVE  s = r
<1> DEFINE J == Joined(UnitBytes(s))
           K == Joined(UnitBytes(r))
<1>1. Len(s) \in Nat /\ Len(r) \in Nat /\ J = K
  OBVIOUS
<1>2. Len(J) = 2 * Len(s) /\ \A k \in 1..Len(s) : s[k] = J[2 * k - 1] + 256 * J[2 * k]
  BY UnitBytesAre
<1>3. Len(K) = 2 * Len(r) /\ \A k \in 1..Len(r) : r[k] = K[2 * k - 1] + 256 * K[2 * k]
  BY UnitBytesAre
<1> HIDE DEF J, K
<1>4. Len(s) = Len(r)
  BY <1>1, <1>2, <1>3
<1>5. \A k \in 1..Len(s) : s[k] = r[k]
  BY <1>1, <1>2, <1>3, <1>4
<1> QED BY <1>4, <1>5, SeqEqual

LEMMA Utf16Is ==
  ASSUME NEW t \in Seq(CodePoints)
  PROVE  /\ BytesOf(t, Utf16le) = Joined(UnitBytes(UnitsOf(t)))
         /\ UnitsOf(t) \in Seq(UnitNumbers) /\ Len(BytesOf(t, Utf16le)) = 2 * Len(UnitsOf(t))
<1>1. UnitsOf(t) \in Seq(UnitNumbers)
  BY UnitsOfIs
<1>2. BytesOf(t, Utf16le) = Joined(UnitBytes(UnitsOf(t)))
  BY DEF BytesOf, UnitBytes
<1> QED BY <1>1, <1>2, UnitBytesAre

(***************************************************************************)
(* Bytes of the callers' encodings.                                        *)
(***************************************************************************)
Letter(e, c) == [n \in 1..e[c] |-> <<c, n>>]
LetterCode(e) == {Letter(e, c) : c \in DOMAIN e}
Letters(t, e) == [k \in 1..Len(t) |-> Letter(e, t[k])]
Octet == CodePoints \X Nat

LEMMA LetterIs ==
  ASSUME NEW e \in Encodings, NEW c \in DOMAIN e
  PROVE  /\ c \in CodePoints /\ e[c] \in Nat \ {0}
         /\ Letter(e, c) \in Seq(Octet) /\ Len(Letter(e, c)) = e[c] /\ Letter(e, c) # <<>>
         /\ Letter(e, c)[1] = <<c, 1>>
<1>1. DOMAIN e \in SUBSET CodePoints /\ e \in [DOMAIN e -> Nat \ {0}]
  BY CharsetAssumption
<1>2. c \in CodePoints /\ e[c] \in Nat \ {0} /\ 1 \in 1..e[c]
  BY <1>1
<1>3. \A n \in 1..e[c] : <<c, n>> \in Octet
  BY <1>2 DEF Octet
<1>4. Letter(e, c) \in Seq(Octet) /\ Len(Letter(e, c)) = e[c]
  BY <1>2, <1>3 DEF Letter
<1>5. Letter(e, c)[1] = <<c, 1>>
  BY <1>2 DEF Letter
<1>6. Letter(e, c) # <<>>
  BY <1>2, <1>4
<1> QED BY <1>2, <1>4, <1>5, <1>6

LEMMA LettersCode ==
  ASSUME NEW e \in Encodings
  PROVE  /\ LetterCode(e) \in SUBSET Seq(Octet) /\ IsCode(LetterCode(e))
         /\ \A c, d \in DOMAIN e : Begins(Letter(e, c), Letter(e, d)) => c = d
<1>1. LetterCode(e) \in SUBSET Seq(Octet)
  BY LetterIs DEF LetterCode
<1>2. ASSUME NEW c \in DOMAIN e, NEW d \in DOMAIN e, Begins(Letter(e, c), Letter(e, d)) PROVE c = d
  <2>1. 1 \in 1..Len(Letter(e, c))
    BY LetterIs
  <2>2. <<c, 1>> = <<d, 1>>
    BY <1>2, <2>1, LetterIs DEF Begins
  <2> QED BY <2>2
<1>3. IsCode(LetterCode(e))
  BY <1>2, LetterIs DEF IsCode, LetterCode
<1> QED BY <1>1, <1>2, <1>3

LEMMA NotUtf16 == ASSUME NEW e \in Encodings PROVE e # Utf16le
  BY CharsetAssumption DEF Utf16le

LEMMA BytesOfIs ==
  ASSUME NEW e \in Encodings, NEW t \in Seq(CodePoints), Has(e, t)
  PROVE  /\ BytesOf(t, e) = Joined(Letters(t, e))
         /\ Letters(t, e) \in Seq(LetterCode(e)) /\ Letters(t, e) \in Seq(Seq(Octet))
         /\ Len(Letters(t, e)) = Len(t) /\ BytesOf(t, e) \in Seq(Octet)
         /\ \A k \in 1..Len(t) : t[k] \in DOMAIN e
<1>1. \A k \in 1..Len(t) : t[k] \in DOMAIN e
  BY NotUtf16 DEF Has
<1>2. BytesOf(t, e) = Joined(Letters(t, e))
  BY NotUtf16 DEF BytesOf, Letters, Letter
<1>3. /\ Letters(t, e) \in Seq(LetterCode(e)) /\ Len(Letters(t, e)) = Len(t)
      /\ Letters(t, e) \in Seq(Seq(Octet))
  BY <1>1, LetterIs DEF Letters, LetterCode
<1>4. Joined(Letters(t, e)) \in Seq(Octet)
  <2>1. PICK f : Joining(f, Letters(t, e), Octet)
    BY <1>3, JoiningExists
  <2> QED BY <1>3, <2>1, JoinedIs
<1> QED BY <1>1, <1>2, <1>3, <1>4

(* lo and hi bound the numbers of bytes of a character. *)
LEMMA BytesBounded ==
  ASSUME NEW e \in Encodings, NEW t \in Seq(CodePoints), Has(e, t), NEW lo \in Nat, NEW hi \in Nat,
         \A c \in DOMAIN e : e[c] \in lo..hi
  PROVE  Len(BytesOf(t, e)) \in (lo * Len(t))..(hi * Len(t))
<1>1. /\ BytesOf(t, e) = Joined(Letters(t, e)) /\ Letters(t, e) \in Seq(Seq(Octet))
      /\ Len(Letters(t, e)) = Len(t) /\ \A k \in 1..Len(t) : t[k] \in DOMAIN e
  BY BytesOfIs
<1>2. \A k \in 1..Len(Letters(t, e)) : Len(Letters(t, e)[k]) \in lo..hi
  <2> SUFFICES ASSUME NEW k \in 1..Len(Letters(t, e)) PROVE Len(Letters(t, e)[k]) \in lo..hi
    OBVIOUS
  <2>1. t[k] \in DOMAIN e /\ Letters(t, e)[k] = Letter(e, t[k])
    BY <1>1 DEF Letters
  <2> QED BY <2>1, LetterIs
<1> QED BY <1>1, <1>2, JoinedLengths

LEMMA LettersDecode ==
  ASSUME NEW e \in Encodings, NEW t \in Seq(CodePoints), NEW u \in Seq(CodePoints),
         Has(e, t), Has(e, u), BytesOf(t, e) = BytesOf(u, e)
  PROVE  Begins(t, u)
<1> DEFINE p == Letters(t, e)
           q == Letters(u, e)
<1>1. p \in Seq(LetterCode(e)) /\ q \in Seq(LetterCode(e)) /\ Joined(p) = Joined(q)
      /\ Len(p) = Len(t) /\ Len(q) = Len(u) /\ Joined(q) \in Seq(Octet)
      /\ (\A k \in 1..Len(t) : t[k] \in DOMAIN e) /\ \A k \in 1..Len(u) : u[k] \in DOMAIN e
  BY BytesOfIs
<1>2. Begins(p, q)
  <2> HIDE DEF p, q
  <2>1. Begins(Joined(p), Joined(q))
    BY <1>1, BeginsLaws
  <2> QED BY <1>1, <2>1, LettersCode, Decodes
<1>3. \A k \in 1..Len(t) : k \in 1..Len(u) /\ Letter(e, t[k]) = Letter(e, u[k])
  <2>1. \A k \in 1..Len(t) : k \in 1..Len(u) /\ p[k] = q[k]
    <3> HIDE DEF p, q
    <3> QED BY <1>1, <1>2 DEF Begins
  <2> QED BY <2>1 DEF Letters
<1>4. \A k \in 1..Len(t) : t[k] = u[k]
  <2> SUFFICES ASSUME NEW k \in 1..Len(t) PROVE t[k] = u[k]
    OBVIOUS
  <2>1. t[k] \in DOMAIN e /\ u[k] \in DOMAIN e /\ Letter(e, t[k]) = Letter(e, u[k])
    BY <1>1, <1>3
  <2>2. Begins(Letter(e, t[k]), Letter(e, u[k]))
    BY <2>1, LetterIs, BeginsLaws
  <2> QED BY <2>1, <2>2, LettersCode
<1>5. Len(t) <= Len(u)
  <2> HIDE DEF p, q
  <2> QED BY <1>1, <1>2 DEF Begins
<1> QED BY <1>4, <1>5 DEF Begins

LEMMA BytesOne ==
  ASSUME NEW e \in Encodings \cup {Utf16le}, NEW t \in Seq(CodePoints), NEW u \in Seq(CodePoints),
         Has(e, t), Has(e, u), BytesOf(t, e) = BytesOf(u, e)
  PROVE  t = u
<1>1. CASE e \in Encodings
  <2>1. Begins(t, u) /\ Begins(u, t)
    BY <1>1, LettersDecode
  <2>2. Len(t) = Len(u)
    BY <2>1 DEF Begins
  <2> QED BY <2>1, <2>2, BeginsLaws
<1>2. CASE e = Utf16le
  <2>1. Joined(UnitBytes(UnitsOf(t))) = Joined(UnitBytes(UnitsOf(u)))
        /\ UnitsOf(t) \in Seq(UnitNumbers) /\ UnitsOf(u) \in Seq(UnitNumbers)
    BY <1>2, Utf16Is
  <2>2. UnitsOf(t) = UnitsOf(u)
    BY <2>1, UnitBytesDecode
  <2> QED BY <2>2, UnitsOne
<1> QED BY <1>1, <1>2

LEMMA BytesTwo ==
  ASSUME NEW e \in Encodings, NEW t \in Seq(CodePoints), NEW u \in Seq(CodePoints),
         Has(e, t), Has(e, u)
  PROVE  Has(e, t \o u) /\ BytesOf(t \o u, e) = BytesOf(t, e) \o BytesOf(u, e)
<1>1. t \o u \in Seq(CodePoints) /\ Len(t \o u) = Len(t) + Len(u)
      /\ \A k \in 1..(Len(t) + Len(u)) : (t \o u)[k] = IF k <= Len(t) THEN t[k] ELSE u[k - Len(t)]
  BY ConcatProperties
<1> DEFINE p == Letters(t, e)
           q == Letters(u, e)
           w == Letters(t \o u, e)
<1>2. p \in Seq(Seq(Octet)) /\ q \in Seq(Seq(Octet)) /\ Len(p) = Len(t) /\ Len(q) = Len(u)
      /\ BytesOf(t, e) = Joined(p) /\ BytesOf(u, e) = Joined(q)
      /\ (\A k \in 1..Len(t) : t[k] \in DOMAIN e) /\ \A k \in 1..Len(u) : u[k] \in DOMAIN e
  BY BytesOfIs
<1>3. Has(e, t \o u)
  <2>1. \A k \in 1..Len(t \o u) : (t \o u)[k] \in DOMAIN e
    <3> SUFFICES ASSUME NEW k \in 1..(Len(t) + Len(u)) PROVE (t \o u)[k] \in DOMAIN e
      BY <1>1
    <3>1. CASE k <= Len(t)
      BY <1>1, <1>2, <3>1
    <3>2. CASE ~ k <= Len(t)
      <4>1. k - Len(t) \in 1..Len(u)
        BY <3>2
      <4> QED BY <1>1, <1>2, <3>2, <4>1
    <3> QED BY <3>1, <3>2
  <2> QED BY <1>1, <2>1 DEF Has
<1>4. w \in Seq(Seq(Octet)) /\ Len(w) = Len(t) + Len(u) /\ BytesOf(t \o u, e) = Joined(w)
  BY <1>1, <1>3, BytesOfIs
<1>5. p \o q \in Seq(Seq(Octet)) /\ Len(p \o q) = Len(t) + Len(u)
      /\ \A k \in 1..(Len(t) + Len(u)) : (p \o q)[k] = IF k <= Len(t) THEN p[k] ELSE q[k - Len(t)]
  <2> DEFINE V == Seq(Octet)
  <2> HIDE DEF p, q
  <2>1. p \in Seq(V) /\ q \in Seq(V) /\ Len(p) = Len(t) /\ Len(q) = Len(u)
    BY <1>2
  <2> HIDE DEF V
  <2>2. p \o q \in Seq(V) /\ Len(p \o q) = Len(p) + Len(q)
        /\ \A k \in 1..(Len(p) + Len(q)) : (p \o q)[k] = IF k <= Len(p) THEN p[k] ELSE q[k - Len(p)]
    BY <2>1, ConcatProperties
  <2> QED BY <2>1, <2>2 DEF V
<1>6. ASSUME NEW k \in 1..(Len(t) + Len(u)) PROVE w[k] = (p \o q)[k]
  <2>1. w[k] = Letter(e, (t \o u)[k])
    BY <1>1 DEF Letters
  <2>2. CASE k <= Len(t)
    <3>1. p[k] = Letter(e, t[k])
      BY <2>2 DEF Letters
    <3> HIDE DEF p, q, w
    <3> QED BY <1>1, <1>5, <2>1, <2>2, <3>1
  <2>3. CASE ~ k <= Len(t)
    <3>1. q[k - Len(t)] = Letter(e, u[k - Len(t)])
      BY <2>3 DEF Letters
    <3> HIDE DEF p, q, w
    <3> QED BY <1>1, <1>5, <2>1, <2>3, <3>1
  <2> QED BY <2>2, <2>3
<1> HIDE DEF p, q, w
<1>7. w = p \o q
  BY <1>4, <1>5, <1>6, SeqEqual
<1>8. Joined(p \o q) = Joined(p) \o Joined(q)
  BY <1>2, JoinedTwo
<1> QED BY <1>2, <1>3, <1>4, <1>7, <1>8

(***************************************************************************)
(* iconv finds the text that the bytes stand for.                          *)
(***************************************************************************)
LEMMA CodeTextsAre ==
  /\ \A t : t \in CodeTexts <=> t \in Seq(CodePoints) /\ Len(t) <= MaxChars
  /\ <<>> \in CodeTexts
<1>1. \A t : t \in CodeTexts <=> t \in Seq(CodePoints) /\ Len(t) <= MaxChars
  <2> TAKE t
  <2>1. ASSUME t \in CodeTexts PROVE t \in Seq(CodePoints) /\ Len(t) <= MaxChars
    <3>1. PICK n \in 0..MaxChars : t \in [1..n -> CodePoints]
      BY <2>1 DEF CodeTexts
    <3> QED BY <3>1, CharsetAssumption
  <2>2. ASSUME t \in Seq(CodePoints) /\ Len(t) <= MaxChars PROVE t \in CodeTexts
    <3>1. Len(t) \in 0..MaxChars /\ t \in [1..Len(t) -> CodePoints]
      BY <2>2, CharsetAssumption
    <3> QED BY <3>1 DEF CodeTexts
  <2> QED BY <2>1, <2>2
<1>2. <<>> \in Seq(CodePoints) /\ Len(<<>>) <= MaxChars
  BY CharsetAssumption
<1> QED BY <1>1, <1>2

LEMMA TextsOfAre ==
  ASSUME NEW e \in Encodings \cup {Utf16le}, NEW bytes
  PROVE  \A t : t \in TextsOf(bytes, e) <=> t \in CodeTexts /\ Has(e, t) /\ BytesOf(t, e) = bytes
<1>1. Encoded[e] = {<<BytesOf(t, e), t>> : t \in {u \in CodeTexts : Has(e, u)}}
  BY DEF Encoded
<1> TAKE t
<1>2. t \in TextsOf(bytes, e) <=> \E p \in Encoded[e] : p[1] = bytes /\ p[2] = t
  BY DEF TextsOf
<1>3. ASSUME NEW p \in Encoded[e], p[1] = bytes, p[2] = t
      PROVE  t \in CodeTexts /\ Has(e, t) /\ BytesOf(t, e) = bytes
  <2>1. PICK u \in {v \in CodeTexts : Has(e, v)} : p = <<BytesOf(u, e), u>>
    BY <1>1
  <2>2. u = t /\ BytesOf(u, e) = bytes
    BY <1>3, <2>1
  <2> QED BY <2>1, <2>2
<1>4. ASSUME t \in CodeTexts, Has(e, t), BytesOf(t, e) = bytes
      PROVE  \E p \in Encoded[e] : p[1] = bytes /\ p[2] = t
  <2>1. <<BytesOf(t, e), t>> \in Encoded[e]
    BY <1>1, <1>4
  <2>2. <<BytesOf(t, e), t>>[1] = bytes /\ <<BytesOf(t, e), t>>[2] = t
    BY <1>4
  <2> QED BY <2>1, <2>2
<1> QED BY <1>2, <1>3, <1>4

(* t is what iconv reads from the bytes. *)
LEMMA TextIs ==
  ASSUME NEW e \in Encodings \cup {Utf16le}, NEW bytes, NEW t \in TextsOf(bytes, e)
  PROVE  TextOf(bytes, e) = t
<1>1. TextOf(bytes, e) \in TextsOf(bytes, e)
  BY DEF TextOf
<1> DEFINE u == TextOf(bytes, e)
<1> HIDE DEF u
<1>2. /\ t \in Seq(CodePoints) /\ u \in Seq(CodePoints) /\ Has(e, t) /\ Has(e, u)
      /\ BytesOf(t, e) = BytesOf(u, e)
  BY <1>1, TextsOfAre, CodeTextsAre DEF u
<1>3. u = t
  BY <1>2, BytesOne
<1> QED BY <1>3 DEF u

LEMMA ConvertsOrNot ==
  ASSUME NEW e \in Encodings \cup {Utf16le}, NEW bytes, NEW to, NEW room
  PROVE  /\ Converts(bytes, e, to, room) =>
              \E t \in TextsOf(bytes, e) : /\ Has(to, t) /\ Len(BytesOf(t, to)) <= room
                                           /\ Conversion(bytes, e, to) = BytesOf(t, to)
         /\ ~Converts(bytes, e, to, room) =>
              \A t \in TextsOf(bytes, e) : ~Has(to, t) \/ ~ Len(BytesOf(t, to)) <= room
<1>1. ASSUME Converts(bytes, e, to, room)
      PROVE  \E t \in TextsOf(bytes, e) : /\ Has(to, t) /\ Len(BytesOf(t, to)) <= room
                                          /\ Conversion(bytes, e, to) = BytesOf(t, to)
  <2>1. PICK t \in TextsOf(bytes, e) : TRUE
    BY <1>1 DEF Converts
  <2>2. TextOf(bytes, e) = t
    BY TextIs
  <2> QED BY <1>1, <2>2 DEF Converts, Conversion
<1>2. ASSUME ~Converts(bytes, e, to, room), NEW t \in TextsOf(bytes, e)
      PROVE  ~Has(to, t) \/ ~ Len(BytesOf(t, to)) <= room
  <2>1. TextOf(bytes, e) = t /\ TextsOf(bytes, e) # {}
    BY TextIs
  <2> QED BY <1>2, <2>1 DEF Converts
<1> QED BY <1>1, <1>2

(***************************************************************************)
(* Units of the source of utf16leToString.                                 *)
(***************************************************************************)
LEMMA EmptyUnits == UnitsOf(<<>>) = <<>> /\ \A e \in Encodings : BytesOf(<<>>, e) = <<>>
<1>1. UnitWords(<<>>) = <<>> /\ \A e : Letters(<<>>, e) = <<>>
  BY DEF UnitWords, Letters
<1>2. <<>> \in Seq(CodePoints) /\ \A e \in Encodings : Has(e, <<>>)
  BY DEF Has
<1> QED BY <1>1, <1>2, UnitsOfIs, BytesOfIs, JoinedEmpty

(* c is the character of u behind t. *)
LEMMA UnitsAt ==
  ASSUME NEW t \in Seq(CodePoints), NEW u \in Seq(CodePoints), Begins(t, u), Len(t) < Len(u),
         NEW c, c = u[Len(t) + 1], NEW m, m = Len(UnitsOf(t))
  PROVE  /\ c \in CodePoints /\ m \in Nat /\ m + Len(units(c)) <= Len(UnitsOf(u))
         /\ \A k \in 1..Len(units(c)) : UnitsOf(u)[m + k] = units(c)[k]
<1> DEFINE x == UnitsOf(t)
           y == units(c)
           z == UnitsOf(u)
<1>1. c \in CodePoints
  BY DEF Begins
<1>2. x \in Seq(UnitNumbers) /\ y \in Seq(UnitNumbers) /\ z \in Seq(UnitNumbers)
  BY <1>1, UnitsOfIs, UnitsAre
<1>3. Begins(x \o y, z)
  BY UnitsNext
<1> HIDE DEF x, y, z
<1>4. /\ Len(x) \in Nat /\ Len(y) \in Nat /\ Len(x \o y) = Len(x) + Len(y)
      /\ \A at \in 1..(Len(x) + Len(y)) : (x \o y)[at] = IF at <= Len(x) THEN x[at] ELSE y[at - Len(x)]
  BY <1>2, ConcatProperties
<1>5. ASSUME NEW k \in 1..Len(y) PROVE z[Len(x) + k] = y[k]
  <2>1. Len(x) + k \in 1..(Len(x) + Len(y)) /\ ~ Len(x) + k <= Len(x) /\ (Len(x) + k) - Len(x) = k
    BY <1>4
  <2>2. (x \o y)[Len(x) + k] = y[k]
    BY <1>4, <2>1
  <2> QED BY <1>3, <1>4, <2>1, <2>2 DEF Begins
<1>6. Len(x) + Len(y) <= Len(z)
  BY <1>3, <1>4 DEF Begins
<1> QED BY <1>1, <1>4, <1>5, <1>6 DEF x, y, z

LEMMA ReadsBehind ==
  ASSUME NEW t \in Seq(CodePoints), NEW u \in Seq(CodePoints), Begins(UnitsOf(t), UnitsOf(u)),
         Len(UnitsOf(t)) < Len(UnitsOf(u))
  PROVE  Begins(t, u) /\ Len(t) < Len(u)
<1>1. Begins(t, u)
  BY UnitsDecode
<1>2. CASE Len(t) = Len(u)
  <2>1. t = u
    BY <1>1, <1>2, BeginsLaws
  <2>2. Len(UnitsOf(t)) \in Nat
    BY UnitsOfIs
  <2> QED BY <2>1, <2>2
<1>3. CASE Len(t) # Len(u)
  BY <1>1, <1>3 DEF Begins
<1> QED BY <1>2, <1>3

LEMMA FirstUnits ==
  ASSUME NEW t \in Seq(CodePoints), Len(UnitsOf(t)) > 0
  PROVE  /\ Len(t) > 0 /\ t[1] \in CodePoints /\ Len(units(t[1])) <= Len(UnitsOf(t))
         /\ \A k \in 1..Len(units(t[1])) : UnitsOf(t)[k] = units(t[1])[k]
<1>1. <<>> \in Seq(CodePoints) /\ UnitsOf(<<>>) = <<>> /\ Len(<<>>) = 0
  BY EmptyUnits
<1>2. Len(t) \in Nat /\ Len(UnitsOf(t)) \in Nat /\ UnitsOf(t) \in Seq(UnitNumbers)
      /\ Len(UnitsOf(t)) <= 2 * Len(t)
  BY UnitsOfIs
<1>3. Len(t) > 0 /\ Begins(<<>>, t)
  BY <1>1, <1>2 DEF Begins
<1> DEFINE c == t[1]
<1>4. c = t[Len(<<>>) + 1] /\ 0 = Len(UnitsOf(<<>>))
  BY <1>1
<1>5. /\ c \in CodePoints /\ 0 + Len(units(c)) <= Len(UnitsOf(t))
      /\ \A k \in 1..Len(units(c)) : UnitsOf(t)[0 + k] = units(c)[k]
  <2> DEFINE e == <<>>
             m == 0
  <2>1. e \in Seq(CodePoints) /\ Begins(e, t) /\ Len(e) < Len(t) /\ c = t[Len(e) + 1]
        /\ m = Len(UnitsOf(e))
    BY <1>1, <1>3, <1>4
  <2> HIDE DEF c, e, m
  <2>2. /\ c \in CodePoints /\ m + Len(units(c)) <= Len(UnitsOf(t))
        /\ \A k \in 1..Len(units(c)) : UnitsOf(t)[m + k] = units(c)[k]
    BY <2>1, UnitsAt, SMTT(60)
  <2> QED BY <2>2 DEF m
<1>6. Len(units(c)) \in Nat
  BY <1>5, UnitsAre
<1> HIDE DEF c
<1>7. Len(units(c)) <= Len(UnitsOf(t)) /\ \A k \in 1..Len(units(c)) : UnitsOf(t)[k] = units(c)[k]
  BY <1>5, <1>6
<1> QED BY <1>3, <1>5, <1>7 DEF c

LEMMA UnitsInput == ASSUME NEW s \in Units PROVE s \in Seq(UnitNumbers)
<1>1. PICK r \in CodeTexts : s \in {UnitsOf(r), Append(UnitsOf(r), Lone), Append(UnitsOf(r), 55296),
                                    <<55296>> \o UnitsOf(r)}
  BY SMT DEF Units
<1>2. r \in Seq(CodePoints)
  BY CodeTextsAre
<1>3. UnitsOf(r) \in Seq(UnitNumbers)
  BY <1>2, UnitsOfIs
<1> DEFINE high == 55296
<1>4. Lone \in UnitNumbers /\ high \in UnitNumbers
  BY SMT DEF UnitNumbers, Lone
<1>5. s \in {UnitsOf(r), Append(UnitsOf(r), Lone), Append(UnitsOf(r), high), <<high>> \o UnitsOf(r)}
  BY <1>1
<1> HIDE DEF high
<1>6. /\ Append(UnitsOf(r), Lone) \in Seq(UnitNumbers) /\ Append(UnitsOf(r), high) \in Seq(UnitNumbers)
      /\ <<high>> \o UnitsOf(r) \in Seq(UnitNumbers)
  BY <1>3, <1>4
<1> QED BY <1>3, <1>5, <1>6

(* A source that reads as a text reads as one of those within the bound.   *)
LEMMA WholeText ==
  ASSUME NEW t \in Seq(CodePoints), UnitsOf(t) \in Units PROVE t \in CodeTexts
<1> DEFINE s == UnitsOf(t)
<1>1. PICK r \in CodeTexts : s \in {UnitsOf(r), Append(UnitsOf(r), Lone), Append(UnitsOf(r), 55296),
                                    <<55296>> \o UnitsOf(r)}
  BY DEF Units
<1>2. r \in Seq(CodePoints)
  BY CodeTextsAre
<1> DEFINE x == UnitsOf(r)
<1>3. s \in Seq(UnitNumbers) /\ x \in Seq(UnitNumbers) /\ Len(s) \in Nat /\ Len(x) \in Nat
  BY <1>2, UnitsOfIs
<1>4. CASE s = x
  BY <1>2, <1>4, UnitsOne
<1>5. ASSUME NEW a \in {57000, 55296}, s = Append(x, a) PROVE FALSE
  <2>1. Len(s) = Len(x) + 1 /\ s[Len(x) + 1] = a /\ \A k \in 1..Len(x) : s[k] = x[k]
    <3> HIDE DEF s, x
    <3> QED BY <1>3, <1>5
  <2>2. Begins(x, s) /\ Len(x) < Len(s)
    BY <1>3, <2>1 DEF Begins
  <2>3. Begins(r, t) /\ Len(r) < Len(t)
    BY <1>2, <2>2, ReadsBehind
  <2> DEFINE c == t[Len(r) + 1]
             m == Len(x)
  <2>4. /\ c \in CodePoints /\ m + Len(units(c)) <= Len(s)
        /\ \A k \in 1..Len(units(c)) : s[m + k] = units(c)[k]
    <3>1. c = t[Len(r) + 1] /\ m = Len(UnitsOf(r))
      OBVIOUS
    <3> HIDE DEF c, m
    <3> QED BY <1>2, <2>3, <3>1, UnitsAt
  <2>5. Len(units(c)) = 1
    <3> DEFINE n == Len(units(c))
    <3>1. n \in Nat /\ n >= 1
      BY <2>4, UnitsAre
    <3>2. m + n <= m + 1 /\ m \in Nat
      BY <1>3, <2>1, <2>4
    <3> HIDE DEF m, n
    <3>3. n = 1
      BY <3>1, <3>2
    <3> QED BY <3>3 DEF n
  <2>6. Single(c)
    BY <2>4, <2>5, UnitsAre DEF Pair
  <2>7. s[m + 1] = c
    BY <2>4, <2>5, <2>6 DEF Single
  <2> HIDE DEF s, x, c
  <2> QED BY <1>5, <2>1, <2>6, <2>7 DEF m, Single, IsHigh, IsLow
<1>6. CASE s = <<55296>> \o x
  <2>1. Len(s) = 1 + Len(x) /\ s[1] = 55296 /\ \A k \in 1..Len(x) : s[1 + k] = x[k]
    <3>1. <<55296>> \in Seq(UnitNumbers) /\ Len(<<55296>>) = 1 /\ <<55296>>[1] = 55296
      BY DEF UnitNumbers
    <3> DEFINE y == <<55296>>
    <3> HIDE DEF s, x, y
    <3>2. Len(s) = Len(y) + Len(x)
          /\ \A k \in 1..(Len(y) + Len(x)) : s[k] = IF k <= Len(y) THEN y[k] ELSE x[k - Len(y)]
      BY <1>3, <1>6, <3>1, ConcatProperties DEF y
    <3>3. Len(y) = 1 /\ y[1] = 55296
      BY <3>1 DEF y
    <3> QED BY <1>3, <3>2, <3>3
  <2> DEFINE c == t[1]
  <2>2. /\ c \in CodePoints /\ Len(units(c)) <= Len(s)
        /\ \A k \in 1..Len(units(c)) : s[k] = units(c)[k]
    BY <1>3, <2>1, FirstUnits
  <2> HIDE DEF c
  <2>3. units(c)[1] = 55296
    BY <2>1, <2>2, UnitsAre
  <2>4. Pair(c)
    BY <2>2, <2>3, UnitsAre DEF Single, IsHigh
  <2>5. Len(x) > 0 /\ IsLow(x[1])
    <3> HIDE DEF s, x
    <3>1. 2 <= Len(s) /\ s[2] = units(c)[2] /\ IsLow(units(c)[2])
      BY <2>2, <2>4 DEF Pair
    <3>2. 1 \in 1..Len(x) /\ 1 + 1 = 2
      BY <1>3, <2>1, <3>1
    <3> QED BY <2>1, <3>1, <3>2
  <2> DEFINE d == r[1]
  <2>6. d \in CodePoints /\ \A k \in 1..Len(units(d)) : x[k] = units(d)[k]
    BY <1>2, <2>5, FirstUnits
  <2> HIDE DEF d
  <2>7. x[1] = units(d)[1]
    BY <2>6, UnitsAre
  <2>8. units(d)[1] \in Nat
    <3>1. units(d) \in Seq(UnitNumbers) /\ 1 \in 1..Len(units(d))
      BY <2>6, UnitsAre
    <3>2. units(d)[1] \in UnitNumbers
      BY <3>1
    <3> QED BY <3>2 DEF UnitNumbers
  <2> QED BY <2>5, <2>6, <2>7, <2>8, UnitsAre DEF Single, Pair, IsHigh, IsLow
<1> QED BY <1>1, <1>4, <1>5, <1>6 DEF Lone

(***************************************************************************)
(* A call.  Answers says of an end of the call what ConvertsFaithfully     *)
(* says of the state.                                                      *)
(***************************************************************************)
Answers(end, context, answer) ==
  /\ end = "returned" =>
       \E t \in Meant :
         answer = IF csCall = "stringToUTF16LE" THEN UnitsOf(t) ELSE BytesOf(t, Dest)
  /\ end = "thrown" =>
       \/ context = "none"
       \/ \A t \in Meant : \/ ~Has(Dest, t)
                           \/ csCall = "utf16leToString" /\ \E k \in DOMAIN t : csEncoding[t[k]] > 8
                           \/ csCall = "convertFromUtf8" /\ Len(BytesOf(t, Dest)) > 8 * Len(csSource)
  /\ end # "" => context # "open"

CsInputOK ==
  /\ csCall \in {"utf16leToString", "convertToUtf8", "stringToUTF16LE", "convertFromUtf8"}
  /\ csEncoding \in Encodings /\ csOrder \in {"LE", "BE"}
  /\ csCall = "utf16leToString" => csUnits \in Units /\ Admissible(csUnits)

(* utf16leToString has read the characters t. *)
HasRead(t) ==
  /\ t \in Seq(CodePoints) /\ Has(csEncoding, t) /\ Begins(UnitsOf(t), csUnits)
  /\ csI = Len(UnitsOf(t)) /\ csResult = BytesOf(t, csEncoding)

CharsetInv ==
  /\ CsInputOK /\ csContext \in {"none", "open", "closed"}
  /\ csEnd = "" /\ csCall = "utf16leToString" => \E t : HasRead(t)
  /\ ConvertsFaithfully

LEMMA AnswersAre ==
  /\ ConvertsFaithfully <=> Answers(csEnd, csContext, csResult)
  /\ UNCHANGED csInput => (ConvertsFaithfully' <=> Answers(csEnd', csContext', csResult'))
  /\ UNCHANGED csInput /\ CsInputOK => CsInputOK'
<1>1. ConvertsFaithfully <=> Answers(csEnd, csContext, csResult)
  BY DEF ConvertsFaithfully, Answers
<1>2. ASSUME UNCHANGED csInput PROVE ConvertsFaithfully' <=> Answers(csEnd', csContext', csResult')
  <2>1. csCall' = csCall /\ csEncoding' = csEncoding /\ csSource' = csSource /\ csUnits' = csUnits
    BY <1>2 DEF csInput
  <2>2. Meant' = Meant /\ Dest' = Dest
    BY <2>1 DEF Meant, Dest, Source
  <2> QED BY <2>1, <2>2 DEF ConvertsFaithfully, Answers
<1>3. UNCHANGED csInput /\ CsInputOK => CsInputOK'
  BY DEF csInput, CsInputOK
<1> QED BY <1>1, <1>2, <1>3

(* A call that ends with a right answer keeps the invariant. *)
LEMMA EndsWell ==
  ASSUME CharsetInv, NEW how, how # "", NEW answer, ends(how, answer),
         Answers(how, IF csContext = "open" THEN "closed" ELSE csContext, answer)
  PROVE  CharsetInv'
<1>1. UNCHANGED csInput /\ csEnd' = how /\ csResult' = answer
      /\ csContext' = IF csContext = "open" THEN "closed" ELSE csContext
  BY DEF ends
<1>2. CsInputOK' /\ ConvertsFaithfully'
  BY <1>1, AnswersAre DEF CharsetInv
<1>3. csContext' \in {"none", "open", "closed"}
  BY <1>1 DEF CharsetInv
<1> QED BY <1>1, <1>2, <1>3 DEF CharsetInv

LEMMA RunsOutWell ==
  ASSUME CharsetInv, csContext = "open", runsOut PROVE CharsetInv'
<1>1. Answers("bad_alloc", "closed", <<>>)
  BY DEF Answers
<1> QED BY <1>1, EndsWell DEF runsOut

LEMMA SourceAndDest ==
  ASSUME CsInputOK
  PROVE  /\ Source \in Encodings \cup {Utf16le} /\ Dest \in Encodings \cup {Utf16le}
         /\ UTF8 \in Encodings /\ Source \in Encodings
         /\ csCall # "stringToUTF16LE" => Dest \in Encodings
<1>1. UTF8 \in Encodings
  BY CharsetAssumption, SMT
<1>2. csEncoding \in Encodings
  BY DEF CsInputOK
<1>3. Source \in Encodings
  BY <1>1, <1>2 DEF Source
<1>4. CASE csCall = "convertToUtf8"
  BY <1>1, <1>3, <1>4 DEF Dest
<1>5. CASE csCall = "stringToUTF16LE"
  BY <1>1, <1>3, <1>5 DEF Dest
<1>6. CASE csCall # "convertToUtf8" /\ csCall # "stringToUTF16LE"
  BY <1>1, <1>2, <1>3, <1>6 DEF Dest
<1> QED BY <1>4, <1>5, <1>6

LEMMA CharsetStarts == CharsetInit => CharsetInv
<1> SUFFICES ASSUME CharsetInit PROVE CharsetInv
  OBVIOUS
<1>1. PICK in \in CharsetInputs : CharsetStart(in)
  BY DEF CharsetInit
<1>2. CsInputOK
  <2>1. PICK e \in Encodings :
          in \in [call : {"utf16leToString"}, source : {<<>>}, units : {u \in Units : Admissible(u)},
                  encoding : {e}, order : ByteOrders]
                 \cup [call : {"convertToUtf8", "stringToUTF16LE"}, source : Bytes(e), units : {<<>>},
                       encoding : {e}, order : ByteOrders]
                 \cup [call : {"convertFromUtf8"}, source : Bytes(UTF8), units : {<<>>},
                       encoding : {e}, order : ByteOrders]
    BY <1>1 DEF CharsetInputs
  <2>2. /\ in.call \in {"utf16leToString", "convertToUtf8", "stringToUTF16LE", "convertFromUtf8"}
        /\ in.encoding = e /\ in.order \in ByteOrders
        /\ in.call = "utf16leToString" => in.units \in Units /\ Admissible(in.units)
    BY <2>1
  <2>3. ByteOrders \subseteq {"LE", "BE"}
    BY CharsetAssumption, SMT
  <2>4. /\ csCall = in.call /\ csEncoding = in.encoding /\ csOrder = in.order
        /\ csUnits = in.units
    BY <1>1 DEF CharsetStart
  <2> QED BY <2>2, <2>3, <2>4 DEF CsInputOK
<1>3. csContext = "none" /\ csI = 0 /\ csResult = <<>> /\ csEnd = ""
  BY <1>1 DEF CharsetStart
<1>4. csEncoding \in Encodings /\ Has(csEncoding, <<>>) /\ <<>> \in Seq(CodePoints)
  BY <1>2 DEF CsInputOK, Has
<1>5. ASSUME csCall = "utf16leToString" PROVE HasRead(<<>>)
  <2>1. csUnits \in Seq(UnitNumbers)
    BY <1>2, <1>5, UnitsInput DEF CsInputOK
  <2>2. Begins(<<>>, csUnits)
    BY <2>1 DEF Begins
  <2> QED BY <1>3, <1>4, <2>2, EmptyUnits DEF HasRead
<1>6. ConvertsFaithfully
  BY <1>3 DEF ConvertsFaithfully
<1> QED BY <1>2, <1>3, <1>5, <1>6 DEF CharsetInv

LEMMA OpensOrThrows ==
  ASSUME CharsetInv, Iconv PROVE CharsetInv'
<1>1. csContext = "none" /\ csEnd = ""
  BY DEF Iconv
<1>2. CASE csCall # "utf16leToString" /\ csSource = <<>> /\ ends("returned", <<>>)
  <2>1. Source \in Encodings /\ Dest \in Encodings \cup {Utf16le}
    BY SourceAndDest DEF CharsetInv
  <2>2. <<>> \in CodeTexts /\ Has(Source, <<>>) /\ BytesOf(<<>>, Source) = <<>>
    BY <2>1, CodeTextsAre, EmptyUnits DEF Has
  <2>3. <<>> \in Meant
    BY <1>2, <2>1, <2>2, TextsOfAre DEF Meant
  <2>4. csCall # "stringToUTF16LE" => Dest \in Encodings
    BY SourceAndDest DEF CharsetInv
  <2>5. <<>> = IF csCall = "stringToUTF16LE" THEN UnitsOf(<<>>) ELSE BytesOf(<<>>, Dest)
    BY <2>4, EmptyUnits
  <2>6. Answers("returned", csContext, <<>>)
    BY <1>1, <2>3, <2>5 DEF Answers
  <2> QED BY <1>1, <1>2, <2>6, EndsWell
<1>3. CASE throws
  <2>1. Answers("thrown", csContext, <<>>)
    BY <1>1 DEF Answers
  <2> QED BY <1>1, <1>3, <2>1, EndsWell DEF throws
<1>4. CASE csContext' = "open" /\ UNCHANGED <<csInput, csI, csResult, csEnd>>
  <2>1. CsInputOK' /\ ConvertsFaithfully'
    BY <1>1, <1>4, AnswersAre DEF CharsetInv, Answers
  <2>2. csEnd' = csEnd /\ csCall' = csCall /\ \A t : HasRead(t) => HasRead(t)'
    BY <1>4 DEF csInput, HasRead
  <2> QED BY <1>4, <2>1, <2>2 DEF CharsetInv
<1> QED BY <1>2, <1>3, <1>4 DEF Iconv

(***************************************************************************)
(* One conversion of everything.  The buffers suffice: a character of the  *)
(* source has at least one byte.                                           *)
(***************************************************************************)
LEMMA SourceLength ==
  ASSUME NEW e \in Encodings, NEW t \in Seq(CodePoints), Has(e, t)
  PROVE  /\ Len(t) \in Nat /\ Len(BytesOf(t, e)) \in Nat /\ Len(t) <= Len(BytesOf(t, e))
         /\ \A u \in Seq(CodePoints) : Has(UTF8, u) => Len(BytesOf(u, UTF8)) <= 6 * Len(u)
         /\ \A u \in Seq(CodePoints) : Len(BytesOf(u, Utf16le)) <= 4 * Len(u)
<1>1. Len(t) \in Nat /\ Len(BytesOf(t, e)) \in Nat
  BY BytesOfIs
<1>2. Len(t) <= Len(BytesOf(t, e))
  <2>1. /\ BytesOf(t, e) = Joined(Letters(t, e)) /\ Letters(t, e) \in Seq(LetterCode(e))
        /\ Letters(t, e) \in Seq(Seq(Octet)) /\ Len(Letters(t, e)) = Len(t)
        /\ \A k \in 1..Len(t) : t[k] \in DOMAIN e
    BY BytesOfIs
  <2> DEFINE w == Letters(t, e)
  <2>2. \A k \in 1..Len(w) : Len(w[k]) >= 1
    <3> SUFFICES ASSUME NEW k \in 1..Len(w) PROVE Len(w[k]) >= 1
      OBVIOUS
    <3>1. w[k] = Letter(e, t[k]) /\ t[k] \in DOMAIN e
      BY <2>1 DEF Letters
    <3>2. e[t[k]] \in Nat \ {0} /\ Len(Letter(e, t[k])) = e[t[k]]
      BY <3>1, LetterIs
    <3> HIDE DEF w
    <3> QED BY <3>1, <3>2
  <2> HIDE DEF w
  <2>3. Len(w) <= Len(Joined(w))
    BY <2>1, <2>2, JoinedNotShorter DEF w
  <2> QED BY <2>1, <2>3 DEF w
<1>3. ASSUME NEW u \in Seq(CodePoints), Has(UTF8, u) PROVE Len(BytesOf(u, UTF8)) <= 6 * Len(u)
  <2>1. UTF8 \in Encodings /\ UTF8 \in [CodePoints -> 1..6]
    BY CharsetAssumption, SMT
  <2>2. \A c \in DOMAIN UTF8 : UTF8[c] \in 1..6
    BY <2>1
  <2>3. Len(BytesOf(u, UTF8)) \in (1 * Len(u))..(6 * Len(u))
    BY <1>3, <2>1, <2>2, BytesBounded
  <2>4. Len(u) \in Nat
    OBVIOUS
  <2> QED BY <2>3, <2>4
<1>4. ASSUME NEW u \in Seq(CodePoints) PROVE Len(BytesOf(u, Utf16le)) <= 4 * Len(u)
  <2>1. Len(UnitsOf(u)) \in Nat /\ Len(UnitsOf(u)) <= 2 * Len(u) /\ Len(u) \in Nat
    BY UnitsOfIs
  <2>2. Len(BytesOf(u, Utf16le)) = 2 * Len(UnitsOf(u))
    BY Utf16Is
  <2> QED BY <2>1, <2>2
<1> QED BY <1>1, <1>2, <1>3, <1>4

(* What the call of iconv in one of these functions comes to. *)
LEMMA Buffered ==
  ASSUME CharsetInv, NEW call \in {"convertToUtf8", "stringToUTF16LE", "convertFromUtf8"},
         csCall = call, csContext = "open", NEW room
  PROVE  /\ csEnd = "" /\ Meant = TextsOf(csSource, Source)
         /\ Converts(csSource, Source, Dest, room) =>
              \E t \in Meant : /\ t \in Seq(CodePoints) /\ Has(Dest, t)
                               /\ Conversion(csSource, Source, Dest) = BytesOf(t, Dest)
         /\ ~Converts(csSource, Source, Dest, room) =>
              \A t \in Meant : /\ t \in Seq(CodePoints) /\ Has(Source, t)
                               /\ csSource = BytesOf(t, Source)
                               /\ ~Has(Dest, t) \/ ~ Len(BytesOf(t, Dest)) <= room
<1>1. csEnd = ""
  BY DEF CharsetInv, ConvertsFaithfully
<1>2. Meant = TextsOf(csSource, Source)
  BY DEF Meant
<1>3. Source \in Encodings \cup {Utf16le}
  BY SourceAndDest DEF CharsetInv
<1>4. \A t \in TextsOf(csSource, Source) :
        t \in Seq(CodePoints) /\ Has(Source, t) /\ csSource = BytesOf(t, Source)
  BY <1>3, TextsOfAre, CodeTextsAre
<1> DEFINE e == Source
           to == Dest
           bytes == csSource
<1>5. e \in Encodings \cup {Utf16le}
  BY <1>3
<1> HIDE DEF e, to, bytes
<1>6. /\ Converts(bytes, e, to, room) =>
            \E t \in TextsOf(bytes, e) : /\ Has(to, t) /\ Len(BytesOf(t, to)) <= room
                                         /\ Conversion(bytes, e, to) = BytesOf(t, to)
      /\ ~Converts(bytes, e, to, room) =>
            \A t \in TextsOf(bytes, e) : ~Has(to, t) \/ ~ Len(BytesOf(t, to)) <= room
  BY <1>5, ConvertsOrNot
<1> QED BY <1>1, <1>2, <1>4, <1>6 DEF e, to, bytes

LEMMA ToUtf8Keeps ==
  ASSUME CharsetInv, convertToUtf8 PROVE CharsetInv'
<1> DEFINE room == 6 * Len(csSource)
           C == Converts(csSource, Source, Dest, room)
           bytes == Conversion(csSource, Source, Dest)
<1>0. CASE runsOut
  BY <1>0, RunsOutWell DEF convertToUtf8, WithBuffer
<1> SUFFICES ASSUME ~runsOut PROVE CharsetInv'
  BY <1>0
<1>1. csCall = "convertToUtf8" /\ csContext = "open"
      /\ IF C THEN ends("returned", bytes) ELSE throws
  BY DEF convertToUtf8, WithBuffer
<1>2. Dest = UTF8 /\ Source \in Encodings
  BY <1>1, SourceAndDest DEF Dest, CharsetInv
<1>3. CASE C
  <2>1. PICK t \in Meant : bytes = BytesOf(t, Dest)
    BY <1>1, <1>3, Buffered
  <2>2. Answers("returned", "closed", bytes)
    BY <1>1, <2>1 DEF Answers
  <2> QED BY <1>1, <1>3, <2>2, EndsWell
<1>4. CASE ~C
  <2>1. ASSUME NEW t \in Meant PROVE ~Has(Dest, t)
    <3>1. /\ t \in Seq(CodePoints) /\ Has(Source, t) /\ csSource = BytesOf(t, Source)
          /\ ~Has(Dest, t) \/ ~ Len(BytesOf(t, Dest)) <= room
      BY <1>1, <1>4, Buffered
    <3>2. Len(t) \in Nat /\ Len(csSource) \in Nat /\ Len(t) <= Len(csSource)
          /\ (Has(UTF8, t) => Len(BytesOf(t, UTF8)) <= 6 * Len(t))
          /\ (Has(UTF8, t) => Len(BytesOf(t, UTF8)) \in Nat)
      BY <1>2, <3>1, SourceLength, SourceAndDest DEF CharsetInv
    <3> HIDE DEF C
    <3> QED BY <1>2, <3>1, <3>2
  <2>2. Answers("thrown", "closed", <<>>)
    BY <1>1, <2>1 DEF Answers
  <2> QED BY <1>1, <1>4, <2>2, EndsWell DEF throws
<1> QED BY <1>3, <1>4

LEMMA FromUtf8Keeps ==
  ASSUME CharsetInv, convertFromUtf8 PROVE CharsetInv'
<1> DEFINE room == 8 * Len(csSource)
           C == Converts(csSource, Source, Dest, room)
           bytes == Conversion(csSource, Source, Dest)
<1>0. CASE runsOut
  BY <1>0, RunsOutWell DEF convertFromUtf8, WithBuffer
<1> SUFFICES ASSUME ~runsOut PROVE CharsetInv'
  BY <1>0
<1>1. csCall = "convertFromUtf8" /\ csContext = "open"
      /\ IF C THEN ends("returned", bytes) ELSE throws
  BY DEF convertFromUtf8, WithBuffer
<1>2. Dest \in Encodings /\ Source \in Encodings
  BY <1>1, SourceAndDest DEF CharsetInv
<1>3. CASE C
  <2>1. PICK t \in Meant : bytes = BytesOf(t, Dest)
    BY <1>1, <1>3, Buffered
  <2>2. Answers("returned", "closed", bytes)
    BY <1>1, <2>1 DEF Answers
  <2> QED BY <1>1, <1>3, <2>2, EndsWell
<1>4. CASE ~C
  <2>1. ASSUME NEW t \in Meant PROVE ~Has(Dest, t) \/ Len(BytesOf(t, Dest)) > 8 * Len(csSource)
    <3>1. /\ t \in Seq(CodePoints) /\ Has(Source, t) /\ csSource = BytesOf(t, Source)
          /\ ~Has(Dest, t) \/ ~ Len(BytesOf(t, Dest)) <= room
      BY <1>1, <1>4, Buffered
    <3>2. Len(csSource) \in Nat /\ (Has(Dest, t) => Len(BytesOf(t, Dest)) \in Nat)
      BY <1>2, <3>1, SourceLength
    <3> HIDE DEF C
    <3> QED BY <3>1, <3>2
  <2>2. Answers("thrown", "closed", <<>>)
    BY <1>1, <2>1 DEF Answers
  <2> QED BY <1>1, <1>4, <2>2, EndsWell DEF throws
<1> QED BY <1>3, <1>4

LEMMA ToUtf16Keeps ==
  ASSUME CharsetInv, stringToUTF16LE PROVE CharsetInv'
<1> DEFINE room == 4 * Len(csSource)
           C == Converts(csSource, Source, Dest, room)
           bytes == Conversion(csSource, Source, Dest)
           answer == [k \in 1..(Len(bytes) \div 2) |->
                        fromBytes(<<bytes[2 * k - 1], bytes[2 * k]>>, "LE")]
<1>0. CASE runsOut
  BY <1>0, RunsOutWell DEF stringToUTF16LE, WithBuffer
<1> SUFFICES ASSUME ~runsOut PROVE CharsetInv'
  BY <1>0
<1>1. csCall = "stringToUTF16LE" /\ csContext = "open"
      /\ IF C THEN (IF Len(bytes) % 2 = 1 THEN throws ELSE ends("returned", answer)) ELSE throws
  BY DEF stringToUTF16LE, WithBuffer
<1>2. Dest = Utf16le /\ Source \in Encodings /\ csOrder \in {"LE", "BE"}
  BY <1>1, SourceAndDest DEF Dest, CharsetInv, CsInputOK
<1>3. CASE C
  <2>1. PICK t \in Meant : t \in Seq(CodePoints) /\ bytes = BytesOf(t, Utf16le)
    BY <1>1, <1>2, <1>3, Buffered
  <2> DEFINE s == UnitsOf(t)
             J == Joined(UnitBytes(s))
             n == Len(s)
  <2>2. /\ s \in Seq(UnitNumbers) /\ n \in Nat /\ bytes = J /\ Len(J) = 2 * n /\ J \in Seq(Nat)
        /\ \A k \in 1..n : s[k] = J[2 * k - 1] + 256 * J[2 * k]
    BY <2>1, Utf16Is, UnitBytesAre
  <2>3. Len(bytes) % 2 = 0 /\ Len(bytes) \div 2 = n
    <3>1. Len(bytes) = 2 * n /\ n \in Nat
      BY <2>2
    <3> HIDE DEF n, bytes
    <3> QED BY <3>1
  <2>4. ASSUME NEW k \in 1..n PROVE fromBytes(<<bytes[2 * k - 1], bytes[2 * k]>>, "LE") = s[k]
    <3>1. 2 * k - 1 \in 1..Len(J) /\ 2 * k \in 1..Len(J) /\ s[k] \in UnitNumbers
      BY <2>2
    <3>2. bytes[2 * k - 1] \in Nat /\ bytes[2 * k] \in Nat
      <4> HIDE DEF J, bytes
      <4> QED BY <2>2, <3>1
    <3> DEFINE a == bytes[2 * k - 1]
               b == bytes[2 * k]
    <3>3. s[k] = a + 256 * b
      <4> HIDE DEF J, bytes, s
      <4> QED BY <2>2
    <3> HIDE DEF a, b
    <3>4. a \in Nat /\ b \in Nat
      BY <3>2 DEF a, b
    <3>5. fromBytes(<<a, b>>, "LE") = a + 256 * b
      BY <1>2, <3>1, <3>4, OrderIs
    <3> QED BY <3>3, <3>5 DEF a, b
  <2>5. answer = s
    <3>1. answer = [k \in 1..n |-> s[k]]
      BY <2>3, <2>4
    <3> HIDE DEF answer, s
    <3> QED BY <2>2, <3>1
  <2>6. Answers("returned", "closed", answer)
    BY <1>1, <2>1, <2>5 DEF Answers
  <2>7. ends("returned", answer)
    BY <1>1, <1>3, <2>3
  <2> QED BY <1>1, <2>6, <2>7, EndsWell
<1>4. CASE ~C
  <2>1. ASSUME NEW t \in Meant PROVE ~Has(Dest, t)
    <3>1. /\ t \in Seq(CodePoints) /\ Has(Source, t) /\ csSource = BytesOf(t, Source)
          /\ ~Has(Dest, t) \/ ~ Len(BytesOf(t, Dest)) <= room
      BY <1>1, <1>4, Buffered
    <3>2. Len(t) \in Nat /\ Len(csSource) \in Nat /\ Len(t) <= Len(csSource)
          /\ Len(BytesOf(t, Utf16le)) <= 4 * Len(t)
      BY <1>2, <3>1, SourceLength
    <3>3. Len(BytesOf(t, Utf16le)) \in Nat
      BY <3>1, Utf16Is, UnitsOfIs
    <3> HIDE DEF C
    <3> QED BY <1>2, <3>1, <3>2, <3>3
  <2>2. Answers("thrown", "closed", <<>>)
    BY <1>1, <2>1 DEF Answers
  <2> QED BY <1>1, <1>4, <2>2, EndsWell DEF throws
<1> QED BY <1>3, <1>4

(***************************************************************************)
(* Character by character.                                                 *)
(***************************************************************************)
(* The next character of every text with these units: d, if the text is u. *)
NextIs(d, u) ==
  /\ d \in CodePoints /\ csI + Len(units(d)) <= Len(csUnits)
  /\ \A k \in 1..Len(units(d)) : csUnits[csI + k] = units(d)[k]
  /\ Has(csEncoding, u) => d \in DOMAIN csEncoding
  /\ \E k \in DOMAIN u : u[k] = d
  /\ <<d>> \in CodeTexts

LEMMA CharsBound == MaxChars \in Nat
  BY CharsetAssumption, SMT

LEMMA NextAt ==
  ASSUME NEW t \in Seq(CodePoints), NEW u \in Seq(CodePoints), u \in CodeTexts,
         Begins(UnitsOf(t), UnitsOf(u)), UnitsOf(u) = csUnits, csI = Len(UnitsOf(t)),
         csI # Len(csUnits), csEncoding \in Encodings
  PROVE  \E d : NextIs(d, u)
<1>1. Len(UnitsOf(t)) < Len(UnitsOf(u))
  <2>1. Len(UnitsOf(t)) \in Nat /\ Len(UnitsOf(u)) \in Nat
    BY UnitsOfIs
  <2> QED BY <2>1 DEF Begins
<1>2. Begins(t, u) /\ Len(t) < Len(u)
  BY <1>1, ReadsBehind
<1> DEFINE n == Len(t) + 1
           d == u[n]
<1>3. n \in 1..Len(u) /\ n \in DOMAIN u /\ n = Len(t) + 1
  BY <1>2
<1>4. d = u[n] /\ u[Len(t) + 1] = d
  BY <1>3
<1> HIDE DEF n, d
<1>5. /\ d \in CodePoints /\ csI \in Nat /\ csI + Len(units(d)) <= Len(csUnits)
      /\ \A k \in 1..Len(units(d)) : csUnits[csI + k] = units(d)[k]
  BY <1>2, <1>4, UnitsAt
<1>6. Has(csEncoding, u) => d \in DOMAIN csEncoding
  BY <1>3, <1>4, NotUtf16 DEF Has
<1>7. <<d>> \in Seq(CodePoints) /\ Len(<<d>>) = 1
  BY <1>5
<1>8. <<d>> \in CodeTexts
  <2>1. Len(u) <= MaxChars /\ Len(u) \in Nat /\ 1 <= Len(u)
    BY <1>3, CodeTextsAre
  <2>2. Len(<<d>>) <= MaxChars
    BY <1>7, <2>1, CharsBound
  <2> QED BY <1>7, <2>2, CodeTextsAre
<1>9. \E k \in DOMAIN u : u[k] = d
  BY <1>3, <1>4
<1> QED BY <1>5, <1>6, <1>8, <1>9 DEF NextIs

LEMMA NextExists ==
  ASSUME CharsetInv, csEnd = "", csCall = "utf16leToString", NEW u \in Meant, csI # Len(csUnits)
  PROVE  \E d : NextIs(d, u)
<1>1. PICK t : HasRead(t)
  BY DEF CharsetInv
<1>2. u \in CodeTexts /\ UnitsOf(u) = csUnits
  BY DEF Meant
<1>3. t \in Seq(CodePoints) /\ Begins(UnitsOf(t), UnitsOf(u)) /\ csI = Len(UnitsOf(t))
  BY <1>1, <1>2 DEF HasRead
<1>4. u \in Seq(CodePoints)
  BY <1>2, CodeTextsAre
<1>5. csEncoding \in Encodings
  BY DEF CharsetInv, CsInputOK
<1> QED BY <1>2, <1>3, <1>4, <1>5, NextAt

(* The units and the bytes of a character. *)
LEMMA CharacterUnits ==
  ASSUME NEW d \in CodePoints PROVE <<d>> \in Seq(CodePoints) /\ UnitsOf(<<d>>) = units(d)
<1>1. <<d>> \in Seq(CodePoints) /\ Len(<<d>>) = 1 /\ <<d>>[1] = d
  OBVIOUS
<1> DEFINE x == units(d)
<1>2. x \in Seq(UnitNumbers) /\ UnitWords(<<d>>) = <<x>>
  BY <1>1, UnitsAre DEF UnitWords
<1> HIDE DEF x
<1>3. Joined(<<x>>) = x
  BY <1>2, JoinedFew
<1>4. UnitsOf(<<d>>) = x
  BY <1>1, <1>2, <1>3, UnitsOfIs
<1> QED BY <1>1, <1>4 DEF x

LEMMA OneCharacter ==
  ASSUME NEW d \in CodePoints, NEW e \in Encodings, d \in DOMAIN e
  PROVE  Has(e, <<d>>) /\ Len(BytesOf(<<d>>, e)) = e[d] /\ e[d] \in Nat
<1>1. <<d>> \in Seq(CodePoints) /\ Len(<<d>>) = 1 /\ <<d>>[1] = d
  OBVIOUS
<1>2. Letters(<<d>>, e) = <<Letter(e, d)>>
  BY <1>1 DEF Letters
<1>3. Has(e, <<d>>)
  BY <1>1 DEF Has
<1>4. BytesOf(<<d>>, e) = Joined(<<Letter(e, d)>>)
  BY <1>1, <1>2, <1>3, BytesOfIs
<1>5. Letter(e, d) \in Seq(Octet) /\ Len(Letter(e, d)) = e[d] /\ e[d] \in Nat
  BY LetterIs
<1>6. Joined(<<Letter(e, d)>>) = Letter(e, d)
  BY <1>5, JoinedFew
<1> QED BY <1>3, <1>4, <1>5, <1>6

(* The units s of one character follow what has been read. *)
UnitsFollow(s) ==
  /\ s \in Seq(UnitNumbers) /\ csI + Len(s) <= Len(csUnits)
  /\ \A k \in 1..Len(s) : csUnits[csI + k] = s[k]

LEMMA BeginsMore ==
  ASSUME NEW x \in Seq(UnitNumbers), NEW s \in Seq(UnitNumbers), NEW z \in Seq(UnitNumbers),
         Begins(x, z), Len(x) + Len(s) <= Len(z), \A k \in 1..Len(s) : z[Len(x) + k] = s[k]
  PROVE  Begins(x \o s, z) /\ Len(x \o s) = Len(x) + Len(s)
<1>1. /\ Len(x \o s) = Len(x) + Len(s) /\ Len(x) \in Nat /\ Len(s) \in Nat
      /\ \A at \in 1..(Len(x) + Len(s)) : (x \o s)[at] = IF at <= Len(x) THEN x[at] ELSE s[at - Len(x)]
  BY ConcatProperties
<1>2. ASSUME NEW at \in 1..(Len(x) + Len(s)) PROVE (x \o s)[at] = z[at]
  <2>1. CASE at <= Len(x)
    BY <1>1, <2>1 DEF Begins
  <2>2. CASE ~ at <= Len(x)
    <3>1. at - Len(x) \in 1..Len(s) /\ Len(x) + (at - Len(x)) = at
      BY <1>1, <2>2
    <3>2. z[at] = s[at - Len(x)]
      BY <3>1
    <3> QED BY <1>1, <2>2, <3>2
  <2> QED BY <2>1, <2>2
<1> QED BY <1>1, <1>2 DEF Begins

(* What has been read goes on with the text v of the units s. *)
LEMMA ReadsMore ==
  ASSUME NEW t, HasRead(t), csEncoding \in Encodings, csUnits \in Seq(UnitNumbers),
         NEW s, UnitsFollow(s), NEW v \in Seq(CodePoints), UnitsOf(v) = s, Has(csEncoding, v),
         UNCHANGED csInput, csI' = csI + Len(s), csResult' = csResult \o BytesOf(v, csEncoding)
  PROVE  HasRead(t \o v)'
<1>1. t \in Seq(CodePoints) /\ Has(csEncoding, t) /\ Begins(UnitsOf(t), csUnits)
      /\ csI = Len(UnitsOf(t)) /\ csResult = BytesOf(t, csEncoding)
  BY DEF HasRead
<1>2. t \o v \in Seq(CodePoints) /\ UnitsOf(t \o v) = UnitsOf(t) \o s
  BY <1>1, UnitsTwo
<1>3. /\ Has(csEncoding, t \o v)
      /\ BytesOf(t \o v, csEncoding) = BytesOf(t, csEncoding) \o BytesOf(v, csEncoding)
  BY <1>1, BytesTwo
<1>4. Begins(UnitsOf(t) \o s, csUnits) /\ Len(UnitsOf(t) \o s) = Len(UnitsOf(t)) + Len(s)
  <2>1. UnitsOf(t) \in Seq(UnitNumbers)
    BY <1>1, UnitsOfIs
  <2> QED BY <1>1, <2>1, BeginsMore DEF UnitsFollow
<1>5. csEncoding' = csEncoding /\ csUnits' = csUnits
  BY DEF csInput
<1> QED BY <1>1, <1>2, <1>3, <1>4, <1>5 DEF HasRead

(* iconv reads the next character of u from the units s. *)
LEMMA NextRead ==
  ASSUME NEW d, NEW u, NextIs(d, u), NEW s, UnitsFollow(s), Len(units(d)) = Len(s)
  PROVE  d \in CodePoints /\ <<d>> \in TextsOf(Joined(UnitBytes(s)), Utf16le)
<1>1. d \in CodePoints /\ <<d>> \in CodeTexts /\ s \in Seq(UnitNumbers)
  BY DEF NextIs, UnitsFollow
<1>2. units(d) \in Seq(UnitNumbers)
  BY <1>1, UnitsAre
<1>3. \A k \in 1..Len(s) : units(d)[k] = s[k]
  BY DEF NextIs, UnitsFollow
<1>4. units(d) = s
  BY <1>1, <1>2, <1>3, SeqEqual
<1>5. Utf16le \in Encodings \cup {Utf16le}
  OBVIOUS
<1>6. BytesOf(<<d>>, Utf16le) = Joined(UnitBytes(s))
  <2>1. <<d>> \in Seq(CodePoints) /\ UnitsOf(<<d>>) = units(d)
    BY <1>1, CharacterUnits
  <2> QED BY <1>4, <2>1, Utf16Is
<1>7. Has(Utf16le, <<d>>)
  BY DEF Has
<1> QED BY <1>1, <1>5, <1>6, <1>7, TextsOfAre

(* It refuses this character only if the encoding does not have it or has  *)
(* more than eight bytes for it,                                           *)
LEMMA Refused ==
  ASSUME NEW e \in Encodings, NEW bytes, NEW d \in CodePoints, <<d>> \in TextsOf(bytes, Utf16le),
         ~Converts(bytes, Utf16le, e, 8), d \in DOMAIN e
  PROVE  e[d] > 8
<1>1. Utf16le \in Encodings \cup {Utf16le}
  OBVIOUS
<1>2. ~Has(e, <<d>>) \/ ~ Len(BytesOf(<<d>>, e)) <= 8
  BY <1>1, ConvertsOrNot
<1>3. Has(e, <<d>>) /\ Len(BytesOf(<<d>>, e)) = e[d] /\ e[d] \in Nat
  BY OneCharacter
<1> QED BY <1>2, <1>3

(* and otherwise converts a text of these units. *)
LEMMA ConvertedText ==
  ASSUME NEW e \in Encodings, NEW s \in Seq(UnitNumbers),
         Converts(Joined(UnitBytes(s)), Utf16le, e, 8)
  PROVE  \E v \in Seq(CodePoints) :
           /\ Has(e, v) /\ UnitsOf(v) = s
           /\ Conversion(Joined(UnitBytes(s)), Utf16le, e) = BytesOf(v, e)
<1> DEFINE bytes == Joined(UnitBytes(s))
           room == 8
           f == Utf16le
<1>1. f \in Encodings \cup {Utf16le} /\ Converts(bytes, f, e, room)
  OBVIOUS
<1> HIDE DEF bytes, room, f
<1>2. PICK v \in TextsOf(bytes, f) :
        Has(e, v) /\ Conversion(bytes, f, e) = BytesOf(v, e)
  BY <1>1, ConvertsOrNot
<1>3. v \in Seq(CodePoints) /\ BytesOf(v, f) = bytes
  BY <1>1, <1>2, TextsOfAre, CodeTextsAre
<1>4. Joined(UnitBytes(UnitsOf(v))) = Joined(UnitBytes(s)) /\ UnitsOf(v) \in Seq(UnitNumbers)
  BY <1>3, Utf16Is DEF bytes, f
<1>5. UnitsOf(v) = s
  BY <1>4, UnitBytesDecode
<1> QED BY <1>2, <1>3, <1>5 DEF bytes, f

LowUnits(s) == \A k \in DOMAIN s : s[k] < 57344

LEMMA Below == ASSUME ~HighUnits, Admissible(csUnits) PROVE LowUnits(csUnits)
  BY SMT DEF Admissible, LowUnits

(* iconv has answered for the text of the units s. *)
LEMMA UnitsKeep ==
  ASSUME CharsetInv, csEnd = "", csCall = "utf16leToString", csContext = "open",
         csI # Len(csUnits), NEW s, UnitsFollow(s),
         \A u \in Meant : \A d : NextIs(d, u) => Len(units(d)) = Len(s),
         convertsUnits(Joined(UnitBytes(s)), Len(s))
  PROVE  CharsetInv'
<1> DEFINE bytes == Joined(UnitBytes(s))
<1>1. csEncoding \in Encodings /\ csUnits \in Seq(UnitNumbers) /\ Dest = csEncoding
      /\ s \in Seq(UnitNumbers)
  BY UnitsInput DEF CharsetInv, CsInputOK, Dest, UnitsFollow
<1>2. csEncoding \in Encodings /\ convertsUnits(bytes, Len(s))
  BY <1>1
<1>3. CASE Converts(bytes, Utf16le, csEncoding, 8)
  <2>1. PICK v \in Seq(CodePoints) :
          /\ Has(csEncoding, v) /\ UnitsOf(v) = s
          /\ Conversion(bytes, Utf16le, csEncoding) = BytesOf(v, csEncoding)
    BY <1>1, <1>3, ConvertedText
  <2>2. PICK t : HasRead(t)
    BY DEF CharsetInv
  <2> HIDE DEF bytes
  <2>3. /\ csResult' = csResult \o BytesOf(v, csEncoding) /\ csI' = csI + Len(s)
        /\ UNCHANGED csInput /\ csContext' = csContext /\ csEnd' = csEnd
    BY <1>2, <1>3, <2>1 DEF convertsUnits
  <2>4. HasRead(t \o v)'
    BY <1>1, <2>1, <2>2, <2>3, ReadsMore
  <2>5. CsInputOK' /\ ConvertsFaithfully'
    <3>1. Answers(csEnd', csContext', csResult')
      BY <2>3 DEF Answers
    <3> QED BY <2>3, <3>1, AnswersAre DEF CharsetInv
  <2> QED BY <2>3, <2>4, <2>5 DEF CharsetInv
<1>4. CASE ~Converts(bytes, Utf16le, csEncoding, 8)
  <2>1. ASSUME NEW u \in Meant
        PROVE  ~Has(csEncoding, u) \/ \E k \in DOMAIN u : csEncoding[u[k]] > 8
    <3>1. PICK d : NextIs(d, u)
      BY NextExists
    <3>2. Len(units(d)) = Len(s)
      BY <3>1
    <3>3. d \in CodePoints /\ <<d>> \in TextsOf(bytes, Utf16le)
      BY <3>1, <3>2, NextRead
    <3> HIDE DEF bytes
    <3>4. d \in DOMAIN csEncoding => csEncoding[d] > 8
      BY <1>1, <1>4, <3>3, Refused
    <3> QED BY <3>1, <3>4 DEF NextIs
  <2> HIDE DEF bytes
  <2>2. Answers("thrown", "closed", <<>>)
    BY <1>1, <2>1 DEF Answers
  <2>3. ends("thrown", <<>>)
    BY <1>2, <1>4 DEF convertsUnits, throws
  <2> QED BY <2>2, <2>3, EndsWell
<1> QED BY <1>3, <1>4

(* The units that are read together are a character's. *)
LEMMA UnitsTogether ==
  ASSUME csI \in Nat, csI < Len(csUnits), csUnits \in Seq(UnitNumbers),
         NEW c, c = csUnits[csI + 1], NEW low,
         low <=> /\ ~ c < 55296 /\ c < 56320 /\ csI + 1 < Len(csUnits)
                 /\ csUnits[csI + 2] >= 56320 /\ csUnits[csI + 2] <= 57343,
         NEW d, NEW u, NextIs(d, u)
  PROVE  /\ c < 55296 => Len(units(d)) = 1
         /\ low => Len(units(d)) = 2
         /\ ~ c < 55296 /\ ~low => c >= 57344
<1>1. d \in CodePoints /\ csI + Len(units(d)) <= Len(csUnits)
      /\ \A k \in 1..Len(units(d)) : csUnits[csI + k] = units(d)[k]
  BY DEF NextIs
<1>2. Len(units(d)) \in 1..2
  BY <1>1, UnitsAre
<1>3. c = units(d)[1] /\ c \in Nat
  BY <1>1, <1>2 DEF UnitNumbers
<1>4. CASE d < 65536
  <2>1. units(d) = <<d>> /\ ~IsHigh(d) /\ ~IsLow(d)
    BY <1>1, <1>4, UnitsAre DEF Single
  <2>2. Len(units(d)) = 1 /\ c = d
    BY <1>3, <2>1
  <2> QED BY <1>3, <2>1, <2>2 DEF IsHigh, IsLow
<1>5. CASE ~ d < 65536
  <2>1. Len(units(d)) = 2 /\ IsHigh(units(d)[1]) /\ IsLow(units(d)[2])
    BY <1>1, <1>5, UnitsAre DEF Pair
  <2>2. csUnits[csI + 2] = units(d)[2] /\ csI + 2 <= Len(csUnits)
    BY <1>1, <2>1
  <2>3. c >= 55296 /\ c < 56320 /\ csUnits[csI + 2] >= 56320 /\ csUnits[csI + 2] <= 57343
    BY <1>3, <2>1, <2>2 DEF IsHigh, IsLow
  <2>4. csI + 1 < Len(csUnits) /\ Len(csUnits) \in Nat
    BY <2>2
  <2>5. low /\ ~ c < 55296
    BY <1>3, <2>3, <2>4
  <2> QED BY <2>1, <2>5
<1> QED BY <1>4, <1>5

LEMMA CharacterKeeps ==
  ASSUME ~HighUnits, CharsetInv, utf16leToString PROVE CharsetInv'
<1>0. CASE runsOut
  BY <1>0, RunsOutWell DEF utf16leToString
<1> SUFFICES ASSUME ~runsOut PROVE CharsetInv'
  BY <1>0
<1>1. csCall = "utf16leToString" /\ csContext = "open"
  BY DEF utf16leToString
<1>2. csEnd = "" /\ csUnits \in Units /\ Admissible(csUnits) /\ csEncoding \in Encodings
      /\ csOrder \in {"LE", "BE"}
  BY <1>1 DEF CharsetInv, CsInputOK, ConvertsFaithfully
<1>3. csUnits \in Seq(UnitNumbers) /\ Dest = csEncoding
  BY <1>1, <1>2, UnitsInput DEF Dest
<1>4. PICK t : HasRead(t)
  BY <1>1, <1>2 DEF CharsetInv
<1>5. t \in Seq(CodePoints) /\ UnitsOf(t) \in Seq(UnitNumbers) /\ csI = Len(UnitsOf(t))
      /\ csI \in Nat /\ csI <= Len(csUnits) /\ Begins(UnitsOf(t), csUnits)
      /\ csResult = BytesOf(t, csEncoding)
  <2>1. t \in Seq(CodePoints) /\ csI = Len(UnitsOf(t)) /\ Begins(UnitsOf(t), csUnits)
        /\ csResult = BytesOf(t, csEncoding)
    BY <1>4 DEF HasRead
  <2>2. UnitsOf(t) \in Seq(UnitNumbers)
    BY <2>1, UnitsOfIs
  <2>3. csI <= Len(csUnits)
    BY <2>1 DEF Begins
  <2>4. csI \in Nat
    BY <2>1, <2>2, LenProperties
  <2> QED
    BY <2>1, <2>2, <2>3, <2>4
<1>6. CASE csI = Len(csUnits)
  <2>1. UnitsOf(t) = csUnits
    BY <1>3, <1>5, <1>6, BeginsLaws
  <2>2. t \in Meant
    BY <1>1, <1>2, <1>5, <2>1, WholeText DEF Meant
  <2>3. Answers("returned", "closed", csResult)
    BY <1>1, <1>3, <1>5, <2>2 DEF Answers
  <2>4. ends("returned", csResult)
    BY <1>6 DEF utf16leToString
  <2> QED BY <1>1, <2>3, <2>4, EndsWell
<1>7. CASE csI # Len(csUnits)
  <2> DEFINE c == csUnits[csI + 1]
             c2 == csUnits[csI + 2]
             low == /\ ~ c < 55296 /\ c < 56320 /\ csI + 1 < Len(csUnits)
                    /\ csUnits[csI + 2] >= 56320 /\ csUnits[csI + 2] <= 57343
  <2>1. csI < Len(csUnits) /\ Len(csUnits) \in Nat /\ csI + 1 \in 1..Len(csUnits)
    BY <1>3, <1>5, <1>7
  <2>2. c \in UnitNumbers /\ c \in Nat
    BY <1>3, <2>1 DEF UnitNumbers
  <2>3. toBytesImpl(c, "LE") = littleEndian(c) /\ littleEndian(c) \in Seq(Nat)
    BY <1>2, <2>2, OrderIs, LittleEndianIs
  <2>4. \A u \in Meant : \A d : NextIs(d, u) =>
          /\ c < 55296 => Len(units(d)) = 1
          /\ low => Len(units(d)) = 2
          /\ ~ c < 55296 /\ ~low => c >= 57344
    <3> SUFFICES ASSUME NEW u \in Meant, NEW d, NextIs(d, u)
                 PROVE  /\ c < 55296 => Len(units(d)) = 1
                        /\ low => Len(units(d)) = 2
                        /\ ~ c < 55296 /\ ~low => c >= 57344
      OBVIOUS
    <3>1. c = csUnits[csI + 1]
      OBVIOUS
    <3>2. low <=> /\ ~ c < 55296 /\ c < 56320 /\ csI + 1 < Len(csUnits)
                  /\ csUnits[csI + 2] >= 56320 /\ csUnits[csI + 2] <= 57343
      OBVIOUS
    <3> HIDE DEF c, low
    <3> QED BY <1>3, <1>5, <2>1, <3>1, <3>2, UnitsTogether
  <2>5. CASE c < 55296
    <3>1. convertsUnits(toBytesImpl(c, "LE"), 1)
      BY <1>7, <2>5 DEF utf16leToString
    <3> DEFINE s == <<c>>
    <3>2. s \in Seq(UnitNumbers) /\ Len(s) = 1 /\ s[1] = c
      BY <2>2
    <3>3. UnitsFollow(s)
      BY <2>1, <3>2 DEF UnitsFollow
    <3>4. Joined(UnitBytes(s)) = littleEndian(c)
      <4>1. UnitBytes(s) = <<littleEndian(c)>>
        BY DEF UnitBytes
      <4> QED BY <2>3, <4>1, JoinedFew
    <3>5. convertsUnits(Joined(UnitBytes(s)), Len(s))
      BY <2>3, <3>1, <3>2, <3>4
    <3>6. \A u \in Meant : \A d : NextIs(d, u) => Len(units(d)) = Len(s)
      BY <2>4, <2>5, <3>2
    <3> HIDE DEF s, c, low
    <3> QED BY <1>1, <1>2, <1>7, <3>3, <3>5, <3>6, UnitsKeep
  <2>6. CASE low
    <3>1. c2 \in UnitNumbers /\ csI + 2 <= Len(csUnits)
      BY <1>3, <1>5, <2>1, <2>6
    <3>2. convertsUnits(toBytesImpl(c, "LE") \o toBytesImpl(c2, "LE"), 2)
      BY <1>7, <2>6 DEF utf16leToString
    <3>3. toBytesImpl(c2, "LE") = littleEndian(c2) /\ littleEndian(c2) \in Seq(Nat)
      BY <1>2, <3>1, OrderIs, LittleEndianIs
    <3> DEFINE s == <<c, c2>>
    <3>4. s \in Seq(UnitNumbers) /\ Len(s) = 2 /\ s[1] = c /\ s[2] = c2
      BY <2>2, <3>1
    <3>5. UnitsFollow(s)
      <4> HIDE DEF s
      <4> QED BY <3>1, <3>4 DEF UnitsFollow
    <3>6. Joined(UnitBytes(s)) = littleEndian(c) \o littleEndian(c2)
      <4>1. UnitBytes(s) = <<littleEndian(c), littleEndian(c2)>>
        BY DEF UnitBytes
      <4> QED BY <2>3, <3>3, <4>1, JoinedFew
    <3>7. convertsUnits(Joined(UnitBytes(s)), Len(s))
      BY <2>3, <3>2, <3>3, <3>4, <3>6
    <3>8. \A u \in Meant : \A d : NextIs(d, u) => Len(units(d)) = Len(s)
      BY <2>4, <2>6, <3>4
    <3> HIDE DEF s, c, c2, low
    <3> QED BY <1>1, <1>2, <1>7, <3>5, <3>7, <3>8, UnitsKeep
  <2>7. CASE ~ c < 55296 /\ ~low
    <3>1. throws
      BY <1>7, <2>7 DEF utf16leToString
    <3>2. c < 57344
      <4>1. csI + 1 \in DOMAIN csUnits
        BY <1>3, <2>1
      <4> HIDE DEF c
      <4>2. c = csUnits[csI + 1]
        BY DEF c
      <4>3. LowUnits(csUnits)
        BY <1>2, Below
      <4> QED BY <4>1, <4>2, <4>3, SMT DEF LowUnits
    <3>3. ASSUME NEW u \in Meant PROVE FALSE
      <4>1. PICK d : NextIs(d, u)
        BY <1>1, <1>2, <1>7, NextExists
      <4>2. c >= 57344
        BY <2>4, <2>7, <4>1
      <4> HIDE DEF c
      <4> QED BY <2>2, <3>2, <4>2
    <3>4. Answers("thrown", "closed", <<>>)
      BY <3>3 DEF Answers
    <3> QED BY <1>1, <3>1, <3>4, EndsWell DEF throws
  <2> QED BY <2>5, <2>6, <2>7
<1> QED BY <1>6, <1>7

(***************************************************************************)
(* Every step keeps the invariant.                                         *)
(***************************************************************************)
LEMMA CharsetSteps ==
  ASSUME ~HighUnits, CharsetInv, [CharsetNext]_csVars PROVE CharsetInv'
<1>1. CASE CharsetNext
  BY <1>1, OpensOrThrows, ToUtf8Keeps, FromUtf8Keeps, ToUtf16Keeps, CharacterKeeps DEF CharsetNext
<1>2. CASE UNCHANGED csVars
  <2>1. UNCHANGED csInput /\ csContext' = csContext /\ csI' = csI /\ csResult' = csResult
        /\ csEnd' = csEnd
    BY <1>2 DEF csVars
  <2>2. CsInputOK' /\ ConvertsFaithfully'
    BY <2>1, AnswersAre DEF CharsetInv
  <2>3. csCall' = csCall /\ \A t : HasRead(t) => HasRead(t)'
    BY <2>1 DEF csInput, HasRead
  <2> QED BY <2>1, <2>2, <2>3 DEF CharsetInv
<1> QED BY <1>1, <1>2

(* Every conversion gives the same characters, whatever encodings and byte *)
(* orders there are and for texts of every length, and throws only for the *)
(* reasons given there, as long as utf16leToString has no unit from U+E000 *)
(* on (convertCharset.cpp:86-264).                                         *)
THEOREM ConvertsFaithfullyAlways ==
  ASSUME ~HighUnits PROVE CharsetSpec => []ConvertsFaithfully
<1>1. CharsetInit => CharsetInv
  BY CharsetStarts
<1>2. CharsetInv /\ [CharsetNext]_csVars => CharsetInv'
  BY CharsetSteps
<1>3. CharsetInv => ConvertsFaithfully
  BY DEF CharsetInv
<1> QED BY <1>1, <1>2, <1>3, PTL DEF CharsetSpec
=============================================================================
