--------------------------------- MODULE Crc ---------------------------------
(***************************************************************************)
(* CRC-64 of src/src/afc/crc.hpp and crc.cpp: its tables, and the functions*)
(* that take the next octets of a stream into a running CRC.  Callers feed *)
(* pieces of any size, each to another function.                           *)
(*                                                                         *)
(* An octet or a CRC is the set of its one bits, so that ^ is symmetric    *)
(* difference.  As in FastStringBuffer, X_Y is X with a mistake and part of*)
(* no specification.                                                       *)
(***************************************************************************)
EXTENDS Integers, Sequences

CONSTANTS
  CrcStreams,   (* What is fed: sequences of octets.                       *)
  CrcBases,     (* Addresses of the first octet, modulo 8.                 *)
  CrcPlatforms, (* [order, sizeBits, maxAlign] of a build.                 *)
  CrcDefects    (* FALSE: crc64ReversedUpdate is not called where it goes  *)
                (* the generic way, nor a function that keeps the CRC in a *)
                (* size_t where this has fewer than 64 bits.               *)

ASSUME CrcAssumption ==
  /\ CrcStreams \subseteq Seq(SUBSET (0..7)) /\ CrcBases \subseteq Nat
  /\ CrcPlatforms \subseteq [order : {"LE", "BE"}, sizeBits : Nat, maxAlign : Nat]
  /\ CrcDefects \in BOOLEAN

VARIABLES
  crcStream, crcBase, crcPlatform,
  crcFed,       (* Octets fed so far.                                      *)
  crcValue      (* The running CRC.                                        *)

crcVars == <<crcStream, crcBase, crcPlatform, crcFed, crcValue>>

CrcInputs == CrcStreams \X CrcBases \X CrcPlatforms
CrcStart(in) ==
  /\ crcStream = in[1] /\ crcBase = in[2] /\ crcPlatform = in[3]
  /\ crcFed = 0 /\ crcValue = {}
CrcInit == \E in \in CrcInputs : CrcStart(in)

Xor(a, b) == (a \ b) \cup (b \ a)
Shr(c, n) == {p - n : p \in {q \in c : q >= n}}
Low(c) == c \cap 0..7
Octets == SUBSET (0..7)

(***************************************************************************)
(* The tables.                                                             *)
(***************************************************************************)
(* 0xc96c5795d7870f42. *)
polynome ==
  LET digits == <<12, 9, 6, 12, 5, 7, 9, 5, 13, 7, 8, 7, 0, 15, 4, 2>>
  IN  {p \in 0..63 : (digits[16 - p \div 4] \div <<1, 2, 4, 8>>[(p % 4) + 1]) % 2 = 1}

tableValLoop(crc) == IF 0 \in crc THEN Xor(Shr(crc, 1), polynome) ELSE Shr(crc, 1)

tableVal(index) ==
  LET after[n \in 0..8] == IF n = 0 THEN index ELSE tableValLoop(after[n - 1])
  IN  after[8]

(* One more octet of zeros. *)
Longer0(val) == Xor(Shr(val, 8), tableVal(Low(val)))

tableVal2(index) == Longer0(tableVal(index))
tableVal3(index) == Longer0(tableVal2(index))
tableVal4(index) == Longer0(tableVal3(index))
tableVal5(index) == Longer0(tableVal4(index))
tableVal6(index) == Longer0(tableVal5(index))
tableVal7(index) == Longer0(tableVal6(index))
tableVal8(index) == Longer0(tableVal7(index))

lookupTable  == [x \in Octets |-> tableVal(x)]
lookupTable2 == [x \in Octets |-> tableVal2(x)]
lookupTable3 == [x \in Octets |-> tableVal3(x)]
lookupTable4 == [x \in Octets |-> tableVal4(x)]
lookupTable5 == [x \in Octets |-> tableVal5(x)]
lookupTable6 == [x \in Octets |-> tableVal6(x)]
lookupTable7 == [x \in Octets |-> tableVal7(x)]
lookupTable8 == [x \in Octets |-> tableVal8(x)]

Tables == <<lookupTable, lookupTable2, lookupTable3, lookupTable4,
            lookupTable5, lookupTable6, lookupTable7, lookupTable8>>

(***************************************************************************)
(* The functions, of a CRC and the octets.                                 *)
(***************************************************************************)
crc64ReverseStep(crc, x) == Xor(Shr(crc, 8), lookupTable[Low(Xor(x, crc))])
Slowly(crc, octets) ==
  LET after[n \in 0..Len(octets)] ==
        IF n = 0 THEN crc ELSE crc64ReverseStep(after[n - 1], octets[n])
  IN  after[Len(octets)]

First(octets, n) == SubSeq(octets, 1, n)
From(octets, n) == SubSeq(octets, n + 1, Len(octets))

(* One table for each octet, the last one's is lookupTable. *)
Lookup(indexes) ==
  LET found[n \in 0..Len(indexes)] ==
        IF n = 0 THEN {} ELSE Xor(found[n - 1], Tables[Len(indexes) + 1 - n][indexes[n]])
  IN  found[Len(indexes)]

(* The loops that take n octets at a time. *)
InChunks(n, crc, octets, Step(_, _)) ==
  LET after[k \in 0..(Len(octets) \div n)] ==
        IF k = 0 THEN crc
        ELSE Step(after[k - 1], SubSeq(octets, n * (k - 1) + 1, n * k))
  IN  after[Len(octets) \div n]

(* The octets as a number, on little-endian platforms. *)
Together(octets) == UNION {{8 * (j - 1) + p : p \in octets[j]} : j \in 1..Len(octets)}

TakeEight(crc, d) == Lookup([j \in 1..8 |-> Low(Xor(d[j], Shr(crc, 8 * (j - 1))))])
TakeEightAligned(crc, d) ==
  LET chunk == Xor(crc, Together(d))
  IN  Lookup([j \in 1..8 |-> Low(Shr(chunk, 8 * (j - 1)))])
TakeFour(crc, d) ==
  Xor(Shr(crc, 32), Lookup([j \in 1..4 |-> Low(Xor(d[j], Shr(crc, 8 * (j - 1))))]))

(* Kept in a size_t. *)
InSize(crc) == crc \cap 0..(crcPlatform.sizeBits - 1)
crc64Fast64Impl(crc, octets) == InChunks(8, InSize(crc), octets, TakeEight)
crc64Fast64Aligned8Impl(crc, octets) == InChunks(8, InSize(crc), octets, TakeEightAligned)

(* Fast as far as possible. *)
ThenSlowly(Fast(_, _), crc, octets) ==
  LET fastN == Len(octets) - (Len(octets) % 8)
  IN  Slowly(Fast(crc, First(octets, fastN)), From(octets, fastN))

crc64ReversedUpdate_Aligned8Impl(crc, octets) ==
  ThenSlowly(crc64Fast64Aligned8Impl, crc, octets)

suitableForFastAligned8 == crcPlatform.order = "LE"
suitableForAutoFastAligned8 == suitableForFastAligned8 /\ crcPlatform.maxAlign >= 8

(* std::align looks for an aligned place with at least one octet.  The     *)
(* generic way computes into a variable that hides the one returned.       *)
crc64ReversedUpdate_SkipsAtMisaligned(crc, octets, address) ==
  LET slowPreN == (8 - (address % 8)) % 8
  IN  IF ~suitableForAutoFastAligned8 THEN crc
      ELSE IF slowPreN < Len(octets)
           THEN crc64ReversedUpdate_Aligned8Impl(crc, From(octets, slowPreN))
           ELSE Slowly(crc, octets)

crc64ReversedUpdate(crc, octets, address) ==
  LET slowPreN == (8 - (address % 8)) % 8
  IN  IF ~suitableForAutoFastAligned8 THEN crc
      ELSE IF slowPreN < Len(octets)
           THEN crc64ReversedUpdate_Aligned8Impl(Slowly(crc, First(octets, slowPreN)),
                                                 From(octets, slowPreN))
           ELSE Slowly(crc, octets)

crc64ReversedUpdate_Fast32(crc, octets) == InChunks(4, crc, octets, TakeFour)

(***************************************************************************)
(* Calls, with what their documentation demands.                           *)
(***************************************************************************)
Address == crcBase + crcFed
Piece(n) == SubSeq(crcStream, crcFed + 1, crcFed + n)

Feed(n, crc) ==
  /\ crcFed' = crcFed + n
  /\ crcValue' = crc
  /\ UNCHANGED <<crcStream, crcBase, crcPlatform>>

feedIterators(n) == Feed(n, Slowly(crcValue, Piece(n)))

feedUpdate(n) ==
  /\ CrcDefects \/ (suitableForAutoFastAligned8 /\ crcPlatform.sizeBits >= 64)
  /\ Feed(n, crc64ReversedUpdate(crcValue, Piece(n), Address))

feedAligned8(n) ==
  /\ Address % 8 = 0
  /\ CrcDefects \/ (suitableForFastAligned8 /\ crcPlatform.sizeBits >= 64)
  /\ Feed(n, IF suitableForFastAligned8
             THEN crc64ReversedUpdate_Aligned8Impl(crcValue, Piece(n))
             ELSE crc64ReversedUpdate(crcValue, Piece(n), Address))

feedFast32(n) == n % 4 = 0 /\ Feed(n, crc64ReversedUpdate_Fast32(crcValue, Piece(n)))

feedFast64(n) ==
  /\ n % 8 = 0
  /\ CrcDefects \/ crcPlatform.sizeBits >= 64
  /\ Feed(n, IF n > 0 THEN crc64Fast64Impl(crcValue, Piece(n)) ELSE crcValue)

CrcNext ==
  \E n \in 0..(Len(crcStream) - crcFed) :
    feedIterators(n) \/ feedUpdate(n) \/ feedAligned8(n) \/ feedFast32(n) \/ feedFast64(n)

CrcSpec == CrcInit /\ [][CrcNext]_crcVars

(***************************************************************************)
(* Properties.                                                             *)
(***************************************************************************)
(* The exponents that crc.hpp:31-34 names; in the reversed order x^63 is   *)
(* bit 0.                                                                  *)
Generator ==
  {63 - k : k \in {62, 57, 55, 54, 53, 52, 47, 46, 45, 40, 39, 38, 37, 35, 33, 32, 31, 29, 27,
                   24, 23, 22, 21, 19, 17, 13, 12, 10, 9, 7, 4, 1, 0}}

(* Division of the octets by the generator, bit by bit.  Divided(x)[r] is  *)
(* the remainder r when the octet x follows.                               *)
DividedBit(r, one) == IF (0 \in r) # one THEN Xor(Shr(r, 1), Generator) ELSE Shr(r, 1)
Divided(x) ==
  [r \in SUBSET (0..63) |->
    LET after[n \in 0..8] == IF n = 0 THEN r ELSE DividedBit(after[n - 1], n - 1 \in x)
    IN  after[8]]
Remainder(octets) ==
  LET after[n \in 0..Len(octets)] == IF n = 0 THEN {} ELSE Divided(octets[n])[after[n - 1]]
  IN  after[Len(octets)]

(* Whatever pieces the octets come in, whichever functions take them and   *)
(* wherever they lie, the CRC is the remainder of all octets: "CRC-64 ECMA *)
(* with LSB-first bit order (reversed)" (crc.hpp:103).                     *)
CrcIsRemainder == crcValue = Remainder(SubSeq(crcStream, 1, crcFed))
=============================================================================
