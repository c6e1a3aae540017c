------------------------------- MODULE Library -------------------------------
(***************************************************************************)
(* The components of libafc that share no state with others: a behaviour   *)
(* is one that uses one of them.  Each has variables of its own, which     *)
(* stay as they are while another one runs.                                *)
(***************************************************************************)
EXTENDS JsonReading, DateUtil, Crc, Base64, Charset, Arithmetic, Search,
        Repository, Optional, UnlockGuard, Stopwatch

VARIABLE component

libraryVars ==
  <<component, jsonVars, dateVars, crcVars, b64Vars, csVars, arithmeticVars, searchVars,
    repositoryVars, optionalVars, unlockVars, stopwatchVars>>

(* The inputs of calls of the component that runs, any one of the others.  *)
AnyOf(inputs) == {CHOOSE in \in inputs : TRUE}
AnyJson == AnyOf(JsonInputs)
AnyCrc == AnyOf(CrcInputs)
AnyBase64 == AnyOf(Base64Sources)
AnyCharset == AnyOf(CharsetInputs)
AnyArithmetic == AnyOf(ArithmeticInputs)
AnySearch == AnyOf(SearchInputs)

LibraryInit ==
  /\ component \in {"json", "dates", "crc", "base64", "charset", "arithmetic", "search",
                    "repository", "optional", "unlock", "stopwatch"}
  /\ \E in \in IF component = "json" THEN JsonInputs ELSE AnyJson : JsonStart(in)
  /\ \E in \in IF component = "crc" THEN CrcInputs ELSE AnyCrc : CrcStart(in)
  /\ \E in \in IF component = "base64" THEN Base64Sources ELSE AnyBase64 : Base64Start(in)
  /\ \E in \in IF component = "charset" THEN CharsetInputs ELSE AnyCharset : CharsetStart(in)
  /\ \E in \in IF component = "arithmetic" THEN ArithmeticInputs ELSE AnyArithmetic :
       ArithmeticStart(in)
  /\ \E in \in IF component = "search" THEN SearchInputs ELSE AnySearch : SearchStart(in)
  /\ DateInit /\ RepositoryInit /\ OptionalInit /\ UnlockInit /\ StopwatchInit

OthersStay ==
  /\ UNCHANGED component
  /\ IF component = "json" THEN TRUE ELSE UNCHANGED jsonVars
  /\ IF component = "dates" THEN TRUE ELSE UNCHANGED dateVars
  /\ IF component = "crc" THEN TRUE ELSE UNCHANGED crcVars
  /\ IF component = "base64" THEN TRUE ELSE UNCHANGED b64Vars
  /\ IF component = "charset" THEN TRUE ELSE UNCHANGED csVars
  /\ IF component = "arithmetic" THEN TRUE ELSE UNCHANGED arithmeticVars
  /\ IF component = "search" THEN TRUE ELSE UNCHANGED searchVars
  /\ IF component = "repository" THEN TRUE ELSE UNCHANGED repositoryVars
  /\ IF component = "optional" THEN TRUE ELSE UNCHANGED optionalVars
  /\ IF component = "unlock" THEN TRUE ELSE UNCHANGED unlockVars
  /\ IF component = "stopwatch" THEN TRUE ELSE UNCHANGED stopwatchVars

jsonStep == component = "json" /\ JsonNext /\ OthersStay
dateStep == component = "dates" /\ DateNext /\ OthersStay
crcStep == component = "crc" /\ CrcNext /\ OthersStay
base64Step == component = "base64" /\ Base64Next /\ OthersStay
charsetStep == component = "charset" /\ CharsetNext /\ OthersStay
arithmeticStep == component = "arithmetic" /\ ArithmeticNext /\ OthersStay
searchStep == component = "search" /\ SearchNext /\ OthersStay
repositoryStep == component = "repository" /\ RepositoryNext /\ OthersStay
optionalStep == component = "optional" /\ OptionalNext /\ OthersStay
unlockStep(u) == component = "unlock" /\ UnlockStep(u) /\ OthersStay
stopwatchStep == component = "stopwatch" /\ StopwatchNext /\ OthersStay

LibraryNext ==
  \/ jsonStep \/ dateStep \/ crcStep \/ base64Step \/ charsetStep \/ arithmeticStep
  \/ searchStep \/ repositoryStep \/ optionalStep \/ stopwatchStep
  \/ \E u \in Users : unlockStep(u)

(* A thread inside a call of the library carries it on; of those that      *)
(* share a mutex, each one does that has entered.  Nothing else needs to   *)
(* happen.                                                                 *)
inCall == jsonStep \/ base64Step \/ charsetStep \/ searchStep
guardStep(u) == place[u] # "outside" /\ unlockStep(u)

LibrarySpec ==
  /\ LibraryInit /\ [][LibraryNext]_libraryVars
  /\ WF_libraryVars(inCall) /\ \A u \in Users : WF_libraryVars(guardStep(u))

(* Every call that is a loop, or calls others, or waits for others ends:   *)
(* the parsers for every text (json.hpp), encodeBase64, utf16leToString,   *)
(* both searches (algo/search.h:33-48), and each thread that gives up its  *)
(* mutex for a scope gets it back and leaves.                              *)
EveryCallReturns ==
  /\ <>(CASE component = "json"    -> returned
          [] component = "base64"  -> b64Returned
          [] component = "charset" -> csEnd # ""
          [] component = "search"  -> searchPc = "returned"
          [] OTHER -> TRUE)
  /\ \A u \in Users : place[u] # "outside" ~> place[u] = "done"
=============================================================================
