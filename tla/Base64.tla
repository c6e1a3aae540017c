------------------------------- MODULE Base64 -------------------------------
(***************************************************************************)
(* encodeBase64 and base64Size of src/src/afc/base64.hpp.  A character is  *)
(* its index in base64EncodeTable.                                         *)
(*                                                                         *)
(* As in FastStringBuffer, X_Y is X with a mistake and part of no          *)
(* specification.                                                          *)
(***************************************************************************)
EXTENDS Integers, Sequences

CONSTANTS
  Base64Sources,  (* The sequences of octets that are encoded.             *)
  Pad             (* The character =, no index.                            *)

ASSUME Base64Assumption == Base64Sources \subseteq Seq(0..255) /\ Pad \notin 0..63

VARIABLES
  b64Source,
  b64P,           (* The iterator p, as the count of octets read.          *)
  b64I,           (* The loop's counter.                                   *)
  b64Dest,        (* What has been written to dest.                        *)
  b64Returned

b64Vars == <<b64Source, b64P, b64I, b64Dest, b64Returned>>

Base64Start(source) ==
  /\ b64Source = source
  /\ b64P = 0 /\ b64I = Len(source) - (Len(source) % 3)
  /\ b64Dest = <<>> /\ b64Returned = FALSE

base64Size(inputSize) == 4 * (((inputSize * 4) \div 3 + 3) \div 4)

encodeTriplet(v0, v1, v2) ==
  <<v0 \div 4,
    (v0 % 4) * 16 + v1 \div 16,
    (v1 % 16) * 4 + v2 \div 64,
    v2 % 64>>

encodeTriplets ==
  /\ b64I # 0
  /\ b64Dest' = b64Dest \o encodeTriplet(b64Source[b64P + 1], b64Source[b64P + 2], b64Source[b64P + 3])
  /\ b64P' = b64P + 3
  /\ b64I' = b64I - 3
  /\ UNCHANGED <<b64Source, b64Returned>>

tailChunk_OnePad(tail) ==
  LET chunk == encodeTriplet(tail[1], IF Len(tail) = 1 THEN 0 ELSE tail[2], 0)
  IN  [chunk EXCEPT ![4] = Pad]

tailChunk(tail) ==
  LET chunk == encodeTriplet(tail[1], IF Len(tail) = 1 THEN 0 ELSE tail[2], 0)
  IN  IF Len(tail) = 1 THEN [chunk EXCEPT ![3] = Pad, ![4] = Pad] ELSE [chunk EXCEPT ![4] = Pad]

encodeTail ==
  /\ b64I = 0 /\ ~b64Returned
  /\ LET tailSize == Len(b64Source) % 3
     IN  /\ b64Dest' = IF tailSize = 0 THEN b64Dest
                       ELSE b64Dest \o tailChunk(SubSeq(b64Source, b64P + 1, b64P + tailSize))
         /\ b64P' = b64P + tailSize
  /\ b64Returned' = TRUE
  /\ UNCHANGED <<b64Source, b64I>>

Base64Next == encodeTriplets \/ encodeTail

Base64Init == \E in \in Base64Sources : Base64Start(in)
Base64Spec == Base64Init /\ [][Base64Next]_b64Vars

(***************************************************************************)
(* Properties.                                                             *)
(***************************************************************************)
(* RFC 4648 read backwards: only the last characters are =, each other one *)
(* carries six bits, the most significant first, and eight bits make an    *)
(* octet, which begins in one character and ends in the next.              *)
Decode(chars) ==
  LET codes == CHOOSE m \in 0..Len(chars) : \A k \in 1..Len(chars) : chars[k] = Pad <=> k > m
      first(n) == (8 * (n - 1)) \div 6 + 1
      behind(n) == CASE (n - 1) % 3 = 0 -> 16 [] (n - 1) % 3 = 1 -> 4 [] OTHER -> 1
      octet(n) == ((chars[first(n)] * 64 + chars[first(n) + 1]) \div behind(n)) % 256
  IN  [n \in 1..((6 * codes) \div 8) |-> octet(n)]

(* Every input, of any length modulo three, is got back by a decoder, and  *)
(* the text has the size that base64Size promises to the callers who       *)
(* reserve it (base64.hpp:29-39, 83-118).                                  *)
DecodesToSource ==
  b64Returned => Decode(b64Dest) = b64Source /\ Len(b64Dest) = base64Size(Len(b64Source))
=============================================================================
