------------------------------ MODULE DateUtil ------------------------------
(***************************************************************************)
(* ISO dates, timestamps and their conversions (src/src/afc/dateutil.hpp   *)
(* and dateutil.cpp).  The state is a value that callers pass through the  *)
(* conversions of the library, in any order and number.                    *)
(*                                                                         *)
(* Calendar fields are the number of seconds since the epoch that a clock  *)
(* showing them has counted, which gmtime_r and mktime convert to and fro; *)
(* years have four digits.  Texts have the form +hhmm of an offset.        *)
(*                                                                         *)
(* As in FastStringBuffer, X_Y is X with a mistake and part of no          *)
(* specification.                                                          *)
(***************************************************************************)
EXTENDS Integers

CONSTANTS
  PerSecond, PerMinute, PerHour, (* 1000, 60 and 60.                       *)
  Std,          (* -::timezone, in seconds.                                *)
  Shift,        (* What daylight saving time adds to it.                   *)
  Summer,       (* The instants of daylight saving time.                   *)
  Instants,     (* Instants callers use, in seconds.  Bounds the model.    *)
  Offsets,      (* Offsets callers use: whole minutes (the format has no   *)
                (* more).  Bounds the model.                               *)
  ReadsSummer,  (* FALSE: instants of daylight saving time are not read by *)
                (* the overload for ranges nor through a DateTime.         *)
  ReadsForeign, (* FALSE: a DateTime with an offset that is not the        *)
                (* system's is not converted to a Timestamp.               *)
  FormatsWest   (* FALSE: timestamps with negative offsets are not         *)
                (* formatted.                                              *)

ASSUME DateAssumption ==
  /\ {PerSecond, PerMinute, PerHour} \subseteq Nat \ {0}
  /\ Std \in Int /\ Shift \in Nat
  /\ Summer \subseteq Int /\ Instants \subseteq Int
  /\ \A offset \in Offsets : offset % PerMinute = 0

VARIABLES
  value,     (* The value, with its kind.                                  *)
  meant,     (* The instant callers mean by it, in milliseconds, and the   *)
  shown,     (* offset they expect a TimestampTZ or a text of it to show;  *)
             (* no variables of the program.                               *)
  asserted   (* No assertion failed.                                       *)

dateVars == <<value, meant, shown, asserted>>

None == [kind |-> "none"]
Text(fields, west, hours, minutes, regular) ==
  [kind |-> "text", fields |-> fields, west |-> west,
   hours |-> hours, minutes |-> minutes, regular |-> regular]
Timestamp(millis) == [kind |-> "Timestamp", millis |-> millis]
TimestampTZ(millis, offset) == [kind |-> "TimestampTZ", millis |-> millis, offset |-> offset]
TimeT(t) == [kind |-> "time_t", t |-> t]
DateTime(fields, offset, isdst) ==
  [kind |-> "DateTime", fields |-> fields, offset |-> offset, isdst |-> isdst]

DateInit == value = None /\ meant = 0 /\ shown = 0 /\ asserted = TRUE

(***************************************************************************)
(* The C library in the system's time zone.                                *)
(***************************************************************************)
localOffset(t) == IF t \in Summer THEN Std + Shift ELSE Std
localtime(t) == DateTime(t + localOffset(t), localOffset(t), IF t \in Summer THEN 1 ELSE 0)

(* What mktime makes of local fields: with tm_isdst < 0 an instant at      *)
(* which local clocks show them, of which there may be two, or none.       *)
mktime(fields, isdst) ==
  LET readings == {fields - Std, fields - Std - Shift}
      real == {t \in readings : t + localOffset(t) = fields}
  IN  CASE isdst = 0 -> {fields - Std}
        [] isdst > 0 -> {fields - Std - Shift}
        [] OTHER -> IF real # {} THEN real ELSE readings

(***************************************************************************)
(* Values callers start from.                                              *)
(***************************************************************************)
Quot(a, b) == IF a >= 0 THEN a \div b ELSE -((-a) \div b)
AbsOf(a) == IF a >= 0 THEN a ELSE -a

(* Callers fill a DateTime with local fields that only one instant has:    *)
(* others have no meaning of their own.                                    *)
(*                                                                         *)
(* The text of an instant.  A field out of its range (the 45th of a month) *)
(* makes a text irregular.                                                 *)
writeText(t, offset, regular) ==
  LET minutes == AbsOf(offset) \div PerMinute
  IN  value' = Text(t + offset, offset < 0, minutes \div PerHour, minutes % PerHour, regular)

obtain ==
  /\ value = None
  /\ \E t \in Instants, offset \in Offsets :
       /\ shown' = offset
       /\ \/ /\ \E regular \in BOOLEAN : writeText(t, offset, regular)
             /\ meant' = PerSecond * t
          \/ \E millis \in (PerSecond * t)..(PerSecond * t + PerSecond - 1) :
               /\ value' = TimestampTZ(millis, offset) \* setMillis, setGmtOffset
               /\ meant' = millis
          \/ /\ value' = TimeT(t)
             /\ meant' = PerSecond * t
          \/ /\ mktime(t + localOffset(t), -1) = {t}
             /\ value' = DateTime(t + localOffset(t), 0, -1) \* DateTime() and its setters
             /\ meant' = PerSecond * t
  /\ UNCHANGED asserted

(***************************************************************************)
(* parseISODateTime.                                                       *)
(***************************************************************************)
Converted(v) == value' = v /\ UNCHANGED <<meant, asserted>>

offsetOf(text) ==
  (IF text.west THEN -PerMinute ELSE PerMinute) * (text.hours * PerHour + text.minutes)

(* The time zone of the text is flushed into the seconds, then local time  *)
(* is made of them.                                                        *)
localFields_Utc(text) == text.fields - offsetOf(text)
localFields(text) == text.fields - offsetOf(text) + Std

(* No other instant has the local time of t, and it is not in summer. *)
OnlyStandard(t) == mktime(t + Std, -1) = {t}

(* strptime accepts regular texts only; the code then sets tm_isdst to 0. *)
parseTimeT ==
  /\ value.kind = "text" /\ value.regular
  /\ \E t \in mktime(localFields(value), 0) : Converted(TimeT(t))
  /\ UNCHANGED shown

parseDateTime ==
  /\ value.kind = "text" /\ value.regular
  /\ Converted(DateTime(value.fields, offsetOf(value), 0))
  /\ UNCHANGED shown

parseTimestampTZ ==
  /\ value.kind = "text" /\ value.regular
  /\ \E t \in mktime(localFields(value), 0) :
       Converted(TimestampTZ(PerSecond * t, offsetOf(value)))
  /\ UNCHANGED shown

(* Of two iterators: takes any two digits and sets tm_isdst to -1. *)
parseRange ==
  /\ value.kind = "text"
  /\ ReadsSummer \/ OnlyStandard(value.fields - offsetOf(value))
  /\ \E t \in mktime(localFields(value), -1) :
       Converted(TimestampTZ(PerSecond * t, offsetOf(value)))
  /\ UNCHANGED shown

parseFails ==
  /\ value.kind = "text" /\ ~value.regular
  /\ value' = None
  /\ UNCHANGED <<meant, shown, asserted>>

(***************************************************************************)
(* Conversions of timestamps.                                              *)
(***************************************************************************)
assignTimeT ==
  /\ value.kind = "time_t"
  /\ Converted(TimestampTZ(PerSecond * value.t, Std))
  /\ shown' = Std

toTimeT ==
  /\ value.kind \in {"Timestamp", "TimestampTZ"}
  /\ Converted(TimeT(Quot(value.millis, PerSecond)))
  /\ UNCHANGED shown

(* gmtime_r of the shifted time, with the offset put in. *)
toTm(ts) == DateTime(Quot(ts.millis, PerSecond) + ts.offset, ts.offset, 0)

toDateTime ==
  /\ \/ value.kind = "time_t" /\ Converted(localtime(value.t))
     \/ value.kind = "TimestampTZ" /\ Converted(toTm(value))
  /\ UNCHANGED shown

IsLocal(dt) == localOffset(dt.fields - dt.offset) = dt.offset

(* The fields are taken as local time, whatever tm_gmtoff is.  A DateTime  *)
(* that callers filled has no tm_gmtoff, and its tm_isdst is -1.           *)
timestamp ==
  /\ value.kind = "DateTime"
  /\ ReadsForeign \/ value.isdst < 0 \/ IsLocal(value)
  /\ ReadsSummer \/ value.isdst # 0 \/ value.fields - value.offset \notin Summer
  /\ \E t \in mktime(value.fields, value.isdst) : Converted(Timestamp(PerSecond * t))
  /\ UNCHANGED shown

(***************************************************************************)
(* formatISODateTime.  Two digits are printed for each number.             *)
(***************************************************************************)
printable(n) == n \in 0..99

offsetMinutes_Total(offset) == Quot(offset, PerMinute)
offsetMinutes(offset) ==
  LET total == Quot(offset, PerMinute) IN total - Quot(total, PerHour) * PerHour

(* Hours with three digits lose one. *)
offsetHours(offset) ==
  LET hours == Quot(Quot(offset, PerMinute), PerHour) IN hours - Quot(hours, 100) * 100

print(ts) ==
  LET hours == offsetHours(ts.offset)
      minutes == offsetMinutes(ts.offset)
  IN  IF printable(hours) /\ printable(minutes)
      THEN Converted(Text(toTm(ts).fields, hours < 0, hours, minutes, TRUE))
      ELSE asserted' = FALSE /\ value' = None /\ UNCHANGED meant

formatISODateTime ==
  /\ value.kind = "TimestampTZ"
  /\ FormatsWest \/ value.offset >= 0
  /\ print(value)
  /\ UNCHANGED shown

(* logPrint of an ISODateTimeView: the offset is the system's. *)
logPrint ==
  /\ value.kind \in {"Timestamp", "TimestampTZ"}
  /\ FormatsWest \/ Std >= 0
  /\ print(TimestampTZ(PerSecond * Quot(value.millis, PerSecond), Std))
  /\ shown' = Std

DateNext ==
  \/ obtain
  \/ parseTimeT \/ parseDateTime \/ parseTimestampTZ \/ parseRange \/ parseFails
  \/ assignTimeT \/ toTimeT \/ toDateTime \/ timestamp
  \/ formatISODateTime \/ logPrint

DateSpec == DateInit /\ [][DateNext]_dateVars

(***************************************************************************)
(* Properties.                                                             *)
(***************************************************************************)
Denoted ==
  CASE value.kind = "text" -> PerSecond * (value.fields - offsetOf(value))
    [] value.kind \in {"Timestamp", "TimestampTZ"} -> value.millis
    [] value.kind = "time_t" -> PerSecond * value.t
    [] value.kind = "DateTime" /\ value.isdst >= 0 ->
         PerSecond * (value.fields - value.offset)
    [] OTHER -> meant

(* "2013-10-16T20:02:26+0300" is 17:02:26 UTC, in every time zone and      *)
(* season: a value denotes the same instant, to the second, through every  *)
(* chain of parsing, formatting, assignments and casts.                    *)
KeepsInstant == AbsOf(Denoted - meant) < PerSecond

(* A text and the TimestampTZ that is read from or written to it have the  *)
(* same offset; a TimestampTZ made of a time_t has the system's.           *)
ShowsOffset ==
  /\ value.kind = "text" => offsetOf(value) = shown
  /\ value.kind = "TimestampTZ" => value.offset = shown

(* assert(value >= 0 && value < 100) of printTwoDigits holds for every     *)
(* timestamp that is formatted.                                            *)
TwoDigitsFit == asserted
=============================================================================
