------------------------------- MODULE Charset -------------------------------
(***************************************************************************)
(* The conversions of src/src/afc/convertCharset.cpp, with the byte orders *)
(* of src/src/afc/cpu/primitive.h.  Octets of UTF-16LE are numbers.  In    *)
(* other encodings a character has as many bytes as the encoding says,     *)
(* <<character, 1>>, <<character, 2>>, ...  iconv is external.             *)
(*                                                                         *)
(* As in FastStringBuffer, X_Y is X with a mistake and part of no          *)
(* specification.                                                          *)
(***************************************************************************)
EXTENDS Integers, Sequences

CONSTANTS
  CodePoints,   (* Characters of the texts.                                *)
  MaxChars,     (* Bounds the texts.                                       *)
  Encodings,    (* The callers' encodings: functions from the characters   *)
                (* they have to numbers of bytes.                          *)
  UTF8,         (* One of these.                                           *)
  ByteOrders,   (* Of the platform: "LE", "BE".                            *)
  HighUnits     (* FALSE: utf16leToString is not given units from U+E000   *)
                (* on, which it takes for wrong surrogates.                *)

ASSUME CharsetAssumption ==
  /\ \A c \in CodePoints : c \in Nat /\ c <= 1114111 /\ (c < 55296 \/ c > 57343)
  /\ MaxChars \in Nat
  /\ \A e \in Encodings : /\ DOMAIN e \in (SUBSET CodePoints) \ {{}}
                          /\ e \in [DOMAIN e -> Nat \ {0}]
  /\ UTF8 \in Encodings /\ UTF8 \in [CodePoints -> 1..6]
  /\ ByteOrders \subseteq {"LE", "BE"} /\ HighUnits \in BOOLEAN

VARIABLES
  csCall, csEncoding, csOrder,
  csSource,     (* src, in bytes, and                                      *)
  csUnits,      (* of utf16leToString, in units of UTF-16.                 *)
  csContext,    (* The iconv descriptor: "none", "open", "closed".         *)
  csI,          (* The loop's counter.                                     *)
  csResult,     (* What has been converted.                                *)
  csEnd         (* "", "returned", "thrown" or "bad_alloc".                *)

csInput == <<csCall, csEncoding, csOrder, csSource, csUnits>>
csVars == <<csInput, csContext, csI, csResult, csEnd>>

(***************************************************************************)
(* Encodings and byte orders.                                              *)
(***************************************************************************)
CodeTexts == UNION {[1..n -> CodePoints] : n \in 0..MaxChars}

units(c) ==
  IF c < 65536 THEN <<c>>
  ELSE <<55296 + (c - 65536) \div 1024, 56320 + ((c - 65536) % 1024)>>
Joined(words) ==
  LET from[n \in 0..Len(words)] == IF n = 0 THEN <<>> ELSE from[n - 1] \o words[n]
  IN  from[Len(words)]
UnitsOf(t) == Joined([k \in 1..Len(t) |-> units(t[k])])

littleEndian(unit) == <<unit % 256, unit \div 256>>
Utf16le == <<>> \* Told from the callers' encodings, which have characters.
BytesOf(t, encoding) ==
  IF encoding = Utf16le
  THEN LET u == UnitsOf(t) IN Joined([k \in 1..Len(u) |-> littleEndian(u[k])])
  ELSE Joined([k \in 1..Len(t) |-> [n \in 1..encoding[t[k]] |-> <<t[k], n>>]])
Has(encoding, t) == encoding = Utf16le \/ \A k \in DOMAIN t : t[k] \in DOMAIN encoding

(* The texts that bytes stand for: one, or none if they are malformed. *)
Encoded == [encoding \in Encodings \cup {Utf16le} |->
              {<<BytesOf(t, encoding), t>> : t \in {u \in CodeTexts : Has(encoding, u)}}]
TextsOf(bytes, encoding) == {p[2] : p \in {q \in Encoded[encoding] : q[1] = bytes}}

(* An IntegerBase of native order, which is kept as in memory, to and from *)
(* bytes of another order: copied, or reversed.                            *)
Reversed(memory) == <<memory[2], memory[1]>>
IntegerBase(unit) == IF csOrder = "LE" THEN littleEndian(unit) ELSE Reversed(littleEndian(unit))
toBytesImpl(unit, dest) ==
  IF dest = csOrder THEN IntegerBase(unit) ELSE Reversed(IntegerBase(unit))

value16(memory) ==
  IF csOrder = "LE" THEN memory[1] + 256 * memory[2] ELSE memory[2] + 256 * memory[1]
fromBytes_Copies(bytes, src) == value16(bytes)
fromBytes(bytes, src) == value16(IF src = csOrder THEN bytes ELSE Reversed(bytes))

(***************************************************************************)
(* iconv, with room for so many bytes.                                     *)
(***************************************************************************)
TextOf(bytes, from) == CHOOSE t \in TextsOf(bytes, from) : TRUE

Converts(bytes, from, to, room) ==
  /\ TextsOf(bytes, from) # {}
  /\ Has(to, TextOf(bytes, from))
  /\ Len(BytesOf(TextOf(bytes, from), to)) <= room
Conversion(bytes, from, to) == BytesOf(TextOf(bytes, from), to)

(***************************************************************************)
(* Calls.  The destructor of Iconv closes the descriptor, on exceptions    *)
(* too; it throws for every error of iconv.                                *)
(***************************************************************************)
ends(how, result) ==
  /\ csEnd' = how /\ csResult' = result
  /\ csContext' = IF csContext = "open" THEN "closed" ELSE csContext
  /\ UNCHANGED <<csInput, csI>>
throws == ends("thrown", <<>>)
runsOut == ends("bad_alloc", <<>>)

(* iconv_open may refuse; without bytes only utf16leToString calls it. *)
Iconv ==
  /\ csContext = "none" /\ csEnd = ""
  /\ \/ csCall # "utf16leToString" /\ csSource = <<>> /\ ends("returned", <<>>)
     \/ /\ csCall = "utf16leToString" \/ csSource # <<>>
        /\ \/ throws
           \/ csContext' = "open" /\ UNCHANGED <<csInput, csI, csResult, csEnd>>

Source == IF csCall = "convertFromUtf8" THEN UTF8 ELSE csEncoding
Dest == CASE csCall = "convertToUtf8" -> UTF8
          [] csCall = "stringToUTF16LE" -> Utf16le
          [] OTHER -> csEncoding

(* The buffer and the result are allocated. *)
WithBuffer(call, factor, Result(_)) ==
  /\ csCall = call /\ csContext = "open"
  /\ \/ runsOut
     \/ IF Converts(csSource, Source, Dest, factor * Len(csSource))
        THEN Result(Conversion(csSource, Source, Dest))
        ELSE throws

convertToUtf8 == WithBuffer("convertToUtf8", 6, LAMBDA bytes : ends("returned", bytes))
convertFromUtf8 == WithBuffer("convertFromUtf8", 8, LAMBDA bytes : ends("returned", bytes))

stringToUTF16LE ==
  WithBuffer("stringToUTF16LE", 4,
             LAMBDA bytes :
               IF Len(bytes) % 2 = 1 THEN throws
               ELSE ends("returned", [k \in 1..(Len(bytes) \div 2) |->
                                        fromBytes(<<bytes[2 * k - 1], bytes[2 * k]>>, "LE")]))

convertsUnits(bytes, read) ==
  IF Converts(bytes, Utf16le, csEncoding, 8)
  THEN /\ csResult' = csResult \o Conversion(bytes, Utf16le, csEncoding)
       /\ csI' = csI + read
       /\ UNCHANGED <<csInput, csContext, csEnd>>
  ELSE throws

(* Character by character; of a surrogate pair, the second unit is looked  *)
(* at if there is one.  The result is allocated first and may grow.        *)
utf16leToString ==
  /\ csCall = "utf16leToString" /\ csContext = "open"
  /\ IF csI = Len(csUnits) THEN ends("returned", csResult)
     ELSE \/ runsOut
          \/ LET c == csUnits[csI + 1]
                 src == toBytesImpl(c, "LE")
             IN  IF c < 55296 THEN convertsUnits(src, 1)
                 ELSE IF c < 56320 /\ csI + 1 < Len(csUnits)
                         /\ csUnits[csI + 2] >= 56320 /\ csUnits[csI + 2] <= 57343
                 THEN convertsUnits(src \o toBytesImpl(csUnits[csI + 2], "LE"), 2)
                 ELSE throws

CharsetNext == Iconv \/ convertToUtf8 \/ convertFromUtf8 \/ stringToUTF16LE \/ utf16leToString

(***************************************************************************)
(* Inputs: texts, and texts with a unit or byte missing or one too many.   *)
(***************************************************************************)
Lone == 57000
Units == UNION {{UnitsOf(t), Append(UnitsOf(t), Lone), Append(UnitsOf(t), 55296),
                 <<55296>> \o UnitsOf(t)} : t \in CodeTexts}
Bytes(encoding) ==
  LET whole == {BytesOf(t, encoding) : t \in {u \in CodeTexts : Has(encoding, u)}}
  IN  whole \cup {SubSeq(b, 1, Len(b) - 1) : b \in whole \ {<<>>}}

Admissible(unitSeq) == HighUnits \/ \A k \in DOMAIN unitSeq : unitSeq[k] < 57344

CharsetInputs ==
  UNION {
    [call : {"utf16leToString"}, source : {<<>>}, units : {u \in Units : Admissible(u)},
     encoding : {e}, order : ByteOrders]
    \cup [call : {"convertToUtf8", "stringToUTF16LE"}, source : Bytes(e), units : {<<>>},
          encoding : {e}, order : ByteOrders]
    \cup [call : {"convertFromUtf8"}, source : Bytes(UTF8), units : {<<>>},
          encoding : {e}, order : ByteOrders] :
  e \in Encodings}

CharsetStart(in) ==
  /\ csCall = in.call /\ csEncoding = in.encoding /\ csOrder = in.order
  /\ csSource = in.source /\ csUnits = in.units
  /\ csContext = "none" /\ csI = 0 /\ csResult = <<>> /\ csEnd = ""
CharsetInit == \E in \in CharsetInputs : CharsetStart(in)

CharsetSpec == CharsetInit /\ [][CharsetNext]_csVars

(***************************************************************************)
(* Properties.                                                             *)
(***************************************************************************)
(* What a result stands for: the texts with these units or bytes. *)
Meant ==
  IF csCall = "utf16leToString" THEN {t \in CodeTexts : UnitsOf(t) = csUnits}
  ELSE TextsOf(csSource, Source)

(* A text is converted to the same characters, on platforms of both byte   *)
(* orders; a call throws only if its source is malformed, the encoding     *)
(* lacks a character or needs more than eight bytes for one (a TODO at     *)
(* line 231), iconv_open refused or there is no memory; and the descriptor *)
(* is closed in every case (convertCharset.cpp:86-264).                    *)
ConvertsFaithfully ==
  /\ csEnd = "returned" =>
       \E t \in Meant :
         csResult = IF csCall = "stringToUTF16LE" THEN UnitsOf(t) ELSE BytesOf(t, Dest)
  /\ csEnd = "thrown" =>
       \/ csContext = "none"
       \/ \A t \in Meant : \/ ~Has(Dest, t)
                           \/ csCall = "utf16leToString" /\ \E k \in DOMAIN t : csEncoding[t[k]] > 8
                           \/ csCall = "convertFromUtf8" /\ Len(BytesOf(t, Dest)) > 8 * Len(csSource)
  /\ csEnd # "" => csContext # "open"
=============================================================================
