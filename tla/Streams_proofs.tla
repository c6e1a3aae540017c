--------------------------- MODULE Streams_proofs ---------------------------
(***************************************************************************)
(* FileInputStream and GZipFileInputStream implement InputStream for every *)
(* file size, chunk size and requested count.                              *)
(***************************************************************************)
EXTENDS Streams, TLAPS

SkipType == [bytesLeft : Int, skipped : Nat, from : Nat]

(* A skip belongs to an open gzip input; what it has skipped lies between  *)
(* where it began and where the file is read now, and what is left of it   *)
(* makes up the count it was called with.                                  *)
SkipOK ==
  skipping # NoSkip =>
    /\ skipping \in SkipType
    /\ kind = "GZipFileInputStream" /\ made /\ m_file /\ handle = "open"
    /\ skipping.bytesLeft \in Nat /\ skipping.skipped \in Nat /\ skipping.from \in Nat
    /\ pos = skipping.from + skipping.skipped
    /\ skipping.skipped + skipping.bytesLeft \in Counts

SInv ==
  /\ kind \in Inputs \cup Outputs
  /\ made \in BOOLEAN /\ m_file \in BOOLEAN /\ misused \in BOOLEAN
  /\ pos \in Nat
  /\ ~TellFails /\ kind \in Inputs => pos <= Size
  /\ handle = "open" => made /\ m_file
  /\ m_file => made
  /\ SkipOK

LEMMA PassedFacts ==
  ASSUME NEW n \in Nat
  PROVE  /\ Passed(n) \in Nat /\ Passed(n) <= n
         /\ n < UIntMod => Passed(n) = n
<1>1. UIntMod \in Nat \ {0}
  BY StreamsAssumption
<1> QED BY <1>1 DEF Passed

LEMMA LeftFacts ==
  ASSUME pos \in Nat
  PROVE  /\ Left \in Nat
         /\ pos <= Size => Left = Size - pos /\ pos + Left = Size
BY StreamsAssumption DEF Left

LEMMA SInvInit == Init => SInv
<1> SUFFICES ASSUME Init PROVE SInv
  OBVIOUS
<1>1. pos \in Nat /\ pos <= Size
  BY StreamsAssumption DEF Init
<1>2. SkipOK
  BY DEF Init, SkipOK
<1>3. /\ kind \in Inputs \cup Outputs
      /\ made \in BOOLEAN /\ m_file \in BOOLEAN /\ misused \in BOOLEAN
      /\ handle = "open" => made /\ m_file
      /\ m_file => made
  BY DEF Init
<1> QED BY <1>1, <1>2, <1>3 DEF SInv

LEMMA SInvStep ==
  ASSUME SInv, [Next]_vars
  PROVE  SInv'
<1> USE StreamsAssumption DEF SInv, object
<1>1. CASE UNCHANGED vars
  BY <1>1 DEF vars, SkipOK
<1>2. CASE open
  <2>1. SkipOK'
    BY <1>2 DEF open, SkipOK
  <2>2. pos' \in Nat /\ (~TellFails /\ kind' \in Inputs => pos' <= Size)
    BY <1>2 DEF open
  <2>3. kind' = kind /\ made' \in BOOLEAN /\ m_file' \in BOOLEAN /\ misused' = misused
        /\ (handle' = "open" => made' /\ m_file') /\ (m_file' => made')
    <3>1. kind' = kind /\ misused' = misused
      BY <1>2 DEF open
    <3>2. CASE made' = TRUE /\ m_file' = TRUE
      BY <3>1, <3>2
    <3>3. CASE UNCHANGED <<made, m_file, handle>>
      BY <3>1, <3>3
    <3> QED BY <1>2, <3>2, <3>3 DEF open
  <2> QED BY <2>1, <2>2, <2>3
<1>3. CASE refused
  BY <1>3 DEF refused, SkipOK
<1>4. CASE closeFileRef
  BY <1>4 DEF closeFileRef, Idle, SkipOK
<1>5. CASE closeFileNoexcept
  BY <1>5 DEF closeFileNoexcept, Idle, SkipOK
<1>6. CASE useAfterFailedClose
  BY <1>6 DEF useAfterFailedClose, Idle, SkipOK
<1>7. CASE skipChunk
  <2> DEFINE n == MinOf(skipping.bytesLeft, gZipSkipChunkSize)
  <2>1. skipping # NoSkip
    BY <1>7 DEF skipChunk, ChunkRead
  <2>2. /\ kind = "GZipFileInputStream" /\ kind \in Inputs
        /\ skipping.bytesLeft \in Nat /\ skipping.skipped \in Nat /\ skipping.from \in Nat
        /\ pos = skipping.from + skipping.skipped
        /\ skipping.skipped + skipping.bytesLeft \in Counts
    BY <2>1 DEF SkipOK, Inputs
  <2>3. n \in Nat /\ n <= skipping.bytesLeft /\ n <= gZipSkipChunkSize
    BY <2>2 DEF MinOf
  <2>4. CASE \E count \in 0..gZipSkipChunkSize :
               /\ ChunkRead(count)
               /\ skipping.bytesLeft > gZipSkipChunkSize /\ count = gZipSkipChunkSize
               /\ NextChunk(count)
    <3>1. PICK count \in 0..gZipSkipChunkSize :
               /\ ChunkRead(count)
               /\ skipping.bytesLeft > gZipSkipChunkSize /\ count = gZipSkipChunkSize
               /\ NextChunk(count)
      BY <2>4
    <3>2. pos' = pos + count /\ count <= Left /\ UNCHANGED object
      BY <2>2, <2>3, <3>1 DEF ChunkRead, gzread, MinOf, Left, NextChunk
    <3>3. skipping' = [skipping EXCEPT !.bytesLeft = @ - gZipSkipChunkSize, !.skipped = @ + count]
      BY <3>1 DEF NextChunk
    <3>4. SkipOK'
      <4>1. skipping \in SkipType
        BY <2>1 DEF SkipOK
      <4>2. /\ skipping' \in SkipType
            /\ skipping'.bytesLeft = skipping.bytesLeft - count
            /\ skipping'.skipped = skipping.skipped + count
            /\ skipping'.from = skipping.from
        <5>1. skipping.bytesLeft - gZipSkipChunkSize \in Int /\ skipping.skipped + count \in Nat
          BY <2>2, <3>1
        <5>2. skipping' \in SkipType
          BY <3>3, <4>1, <5>1 DEF SkipType
        <5>3. /\ skipping'.bytesLeft = skipping.bytesLeft - gZipSkipChunkSize
              /\ skipping'.skipped = skipping.skipped + count
              /\ skipping'.from = skipping.from
          BY <3>3, <4>1 DEF SkipType
        <5> QED BY <3>1, <5>2, <5>3
      <4> QED BY <2>1, <2>2, <3>1, <3>2, <4>2 DEF SkipOK
    <3> QED BY <2>2, <3>1, <3>2, <3>4 DEF Left
  <2>5. CASE \E count \in 0..gZipSkipChunkSize : ChunkRead(count) /\ EndOfSkip(count)
    <3>1. PICK count \in 0..gZipSkipChunkSize : ChunkRead(count) /\ EndOfSkip(count)
      BY <2>5
    <3>2. pos' = pos + count /\ count <= Left /\ UNCHANGED object /\ skipping' = NoSkip
      BY <2>2, <2>3, <3>1 DEF ChunkRead, gzread, MinOf, Left, EndOfSkip
    <3> QED BY <2>2, <3>1, <3>2 DEF Left, SkipOK
  <2>6. CASE gzreadFails(n) /\ skipping' = NoSkip /\ UNCHANGED object
    <3>1. pos' = pos \/ pos' \in pos..(pos + Left)
      BY <2>6 DEF gzreadFails
    <3>2. pos' \in Nat /\ (~TellFails => pos' <= Size)
      BY <2>2, <3>1, LeftFacts
    <3> QED BY <2>6, <3>2 DEF SkipOK
  <2> QED BY <1>7, <2>4, <2>5, <2>6 DEF skipChunk
<1>8. CASE reset
  BY <1>8 DEF reset, Ready, Idle, SkipOK
<1>9. ASSUME NEW n \in Counts, readFile(n) PROVE SInv'
  BY <1>9 DEF readFile, Ready, Idle, MinOf, Left, SkipOK
<1>10. ASSUME NEW n \in Counts, skipFile(n) PROVE SInv'
  <2>1. kind' = kind /\ made' = made /\ m_file' = m_file /\ handle' = handle /\ misused' = misused
        /\ made /\ m_file /\ skipping = NoSkip /\ skipping' = NoSkip
    BY <1>10 DEF skipFile, Ready, Idle
  <2>2. n \in Nat /\ Size \in Nat
    OBVIOUS
  <2>3. PICK currPos \in Told(pos), endPos \in Told(Size) :
          \/ pos' = Size
          \/ ~Within(n, currPos, endPos) /\ currPos + n >= 0 /\ pos' = currPos + n
          \/ pos' = pos
    BY <1>10 DEF skipFile
  <2>4. currPos \in Int /\ endPos \in Int /\ (~TellFails => currPos = pos /\ endPos = Size)
    BY DEF Told
  <2>5. ~TellFails /\ ~Within(n, currPos, endPos) /\ pos <= Size => pos + n <= Size
    BY <2>2, <2>4 DEF Within
  <2>6. pos' \in Nat /\ (~TellFails /\ kind \in Inputs => pos' <= Size)
    BY <2>2, <2>3, <2>4, <2>5
  <2> QED BY <2>1, <2>6 DEF SkipOK
<1>11. ASSUME NEW n \in Counts, readGZip(n) PROVE SInv'
  BY <1>11 DEF readGZip, Ready, Idle, gzread, gzreadFails, MinOf, Left, SkipOK
<1>12. ASSUME NEW n \in Counts, skipGZip(n) PROVE SInv'
  BY <1>12 DEF skipGZip, Ready, Idle, SkipOK, SkipType
<1>13. ASSUME NEW n \in Counts, writeFile(n) PROVE SInv'
  BY <1>13 DEF writeFile, Ready, Idle, SkipOK, Inputs
<1>14. ASSUME NEW n \in Counts, writeGZip(n) PROVE SInv'
  BY <1>14 DEF writeGZip, Ready, Idle, gzwrite, SkipOK, Inputs
<1> QED BY <1>1, <1>2, <1>3, <1>4, <1>5, <1>6, <1>7, <1>8, <1>9, <1>10, <1>11, <1>12,
           <1>13, <1>14 DEF Next

(* The destructor knows every handle that is open.                         *)
THEOREM NoHandleLostAlways == Spec => []NoHandleLost
<1>1. SInv => NoHandleLost
  BY DEF SInv, NoHandleLost
<1> QED BY <1>1, SInvInit, SInvStep, PTL DEF Spec

(***************************************************************************)
(* What an output stream is given.                                         *)
(***************************************************************************)
WriteStep ==
  made /\ kind \in Outputs /\ <<pos, result>>' # <<pos, result>>
  => pos' - pos = Accepted(result') \/ result' = Done("throw")

LEMMA WriteKeeps ==
  ASSUME ~CutsSizes, SInv, [Next]_vars
  PROVE  WriteStep
<1> SUFFICES ASSUME made, kind \in Outputs
             PROVE  \/ pos' = pos /\ result' = result
                    \/ pos' - pos = Accepted(result')
                    \/ result' = Done("throw")
  BY DEF WriteStep
<1> USE DEF object
<1>1. pos \in Nat /\ pos - pos = 0 /\ kind \notin Inputs
  BY DEF SInv, Inputs, Outputs
<1>2. CASE UNCHANGED vars
  BY <1>2 DEF vars
<1>3. CASE open
  BY <1>3 DEF open
<1>4. CASE refused
  BY <1>4 DEF refused, Throws
<1>5. CASE closeFileRef
  BY <1>1, <1>5 DEF closeFileRef, Throws, Accepted, Done, Got
<1>6. CASE closeFileNoexcept
  BY <1>1, <1>6 DEF closeFileNoexcept, Accepted, Done, Got
<1>7. CASE useAfterFailedClose
  BY <1>7 DEF useAfterFailedClose
<1>8. ~skipChunk
  BY <1>1 DEF skipChunk, ChunkRead, SInv, SkipOK, Inputs
<1>9. ASSUME NEW n \in Counts, \/ readFile(n) \/ skipFile(n) \/ readGZip(n) \/ skipGZip(n)
      PROVE  FALSE
  BY <1>1, <1>9 DEF readFile, skipFile, readGZip, skipGZip, Inputs
<1>10. ASSUME NEW n \in Counts, writeFile(n) \/ writeGZip(n)
       PROVE  pos' - pos = Accepted(result') \/ result' = Done("throw")
  <2>1. n \in Nat
    BY StreamsAssumption
  <2>2. \/ pos' = pos + n /\ result' = Got("write", n, pos, n)
        \/ Throws
    <3>1. n < UIntMod => Passed(n) = n
      BY <2>1, PassedFacts
    <3> QED BY <1>10, <3>1 DEF writeFile, writeGZip
  <2> QED BY <1>1, <2>1, <2>2 DEF Throws, Accepted, Done, Got
<1>11. ~reset
  BY <1>1 DEF reset
<1> QED BY <1>2, <1>3, <1>4, <1>5, <1>6, <1>7, <1>8, <1>9, <1>10, <1>11 DEF Next

(* A write of any size to a plain file, and one to a gzip file of a size   *)
(* that zlib's type has, has handed all its bytes on when it returns.      *)
THEOREM WritesAllAlways == ASSUME ~CutsSizes PROVE Spec => WritesAll
<1>1. SInv /\ [Next]_vars => [WriteStep]_vars
  BY WriteKeeps
<1> QED BY <1>1, SInvInit, SInvStep, PTL DEF Spec, WritesAll, WriteStep

(***************************************************************************)
(* Refinement.                                                             *)
(***************************************************************************)
LEMMA ContractInit == Init => Contract!Init
BY DEF Init, Contract!Init, Contract!Done, Done, Contract!Got, Got, NoSkip

LEMMA ContractStep ==
  ASSUME ~CutsSizes, ~TellFails, SInv, SInv', [Next]_vars
  PROVE  [Contract!Next]_Contract!vars
<1> USE StreamsAssumption DEF SInv, object, Contract!vars, Contract!Done, Done, Contract!Got, Got, Throws
<1>1. CASE UNCHANGED vars
  BY <1>1 DEF vars
<1>2. CASE kind \notin Inputs
  <2>1. kind' = kind
    BY DEF Next, vars, open, refused, closeFileRef, closeFileNoexcept, useAfterFailedClose,
       skipChunk, NextChunk, EndOfSkip, reset, readFile, skipFile, readGZip, skipGZip,
       writeFile, writeGZip
  <2> QED BY <1>2, <2>1
<1>3. CASE kind \in Inputs
  <2>1. CASE open
    <3>1. CASE m_file' = TRUE
      BY <1>3, <2>1, <3>1 DEF open, SkipOK, Contract!Next, Contract!Open
    <3>2. CASE UNCHANGED <<m_file, pos>> /\ Throws
      BY <1>3, <2>1, <3>2 DEF open, SkipOK, Contract!Next, Contract!Fail
    <3> QED BY <2>1, <3>1, <3>2 DEF open
  <2>2. CASE refused
    BY <1>3, <2>2 DEF refused, Idle, Contract!Next, Contract!Fail
  <2>3. CASE closeFileRef
    <3>1. CASE m_file' = FALSE /\ result' = Done("close")
      BY <1>3, <2>3, <3>1 DEF closeFileRef, Idle, Contract!Next, Contract!Close
    <3>2. CASE UNCHANGED m_file /\ Throws
      BY <1>3, <2>3, <3>2 DEF closeFileRef, Idle, Contract!Next, Contract!Fail
    <3> QED BY <2>3, <3>1, <3>2 DEF closeFileRef
  <2>4. CASE closeFileNoexcept
    BY <1>3, <2>4 DEF closeFileNoexcept, Idle, Contract!Next, Contract!Close
  <2>5. CASE useAfterFailedClose
    BY <1>3, <2>5 DEF useAfterFailedClose
  <2>6. CASE skipChunk
    <3> DEFINE n == MinOf(skipping.bytesLeft, gZipSkipChunkSize)
               all == skipping.skipped + skipping.bytesLeft
    <3>1. /\ skipping # NoSkip /\ m_file
          /\ skipping.bytesLeft \in Nat /\ skipping.skipped \in Nat /\ skipping.from \in Nat
          /\ pos = skipping.from + skipping.skipped /\ all \in Counts
      <4>1. skipping # NoSkip
        BY <2>6 DEF skipChunk, ChunkRead
      <4> QED BY <4>1 DEF SkipOK
    <3>2. ASSUME NEW count \in 0..gZipSkipChunkSize, ChunkRead(count), NextChunk(count),
                 skipping.bytesLeft > gZipSkipChunkSize
          PROVE  UNCHANGED Contract!vars
      <4>1. kind' = kind /\ m_file' = m_file /\ result' = result
        BY <3>2 DEF NextChunk
      <4>2. skipping' = [skipping EXCEPT !.bytesLeft = @ - gZipSkipChunkSize,
                                         !.skipped = @ + count]
        BY <3>2 DEF NextChunk
      <4>3. skipping \in SkipType
        BY <3>1 DEF SkipOK
      <4>4. skipping'.from = skipping.from /\ skipping'.bytesLeft > 0
        BY <3>1, <3>2, <4>2, <4>3 DEF SkipType
      <4>5. skipping' # NoSkip
        BY <4>4 DEF NoSkip
      <4> QED BY <1>3, <3>1, <4>1, <4>4, <4>5
    <3>3. ASSUME NEW count \in 0..gZipSkipChunkSize, ChunkRead(count), EndOfSkip(count),
                 ~(skipping.bytesLeft > gZipSkipChunkSize /\ count = gZipSkipChunkSize)
          PROVE  Contract!Next
      <4>1. /\ kind' = kind /\ m_file' = m_file /\ skipping' = NoSkip
            /\ result' = Got("skip", all, skipping.from, skipping.skipped + count)
        BY <3>3 DEF EndOfSkip
      <4>2. count = MinOf(n, Size - pos) /\ pos' = pos + count
        <5>1. n \in Nat /\ n < UIntMod
          <6>1. n \in Nat /\ n <= gZipSkipChunkSize
            BY <3>1 DEF MinOf
          <6> QED BY <6>1
        <5> HIDE DEF n
        <5>2. Passed(n) = n
          BY <5>1, PassedFacts
        <5>3. count = MinOf(n, Left) /\ pos' = pos + count
          BY <3>3, <5>2 DEF ChunkRead, gzread, n
        <5> QED BY <1>3, <5>3, LeftFacts
      <4>3. skipping.skipped + count = MinOf(all, Size - skipping.from)
        BY <1>3, <3>1, <3>3, <4>2 DEF MinOf
      <4>4. pos' = skipping.from + MinOf(all, Size - skipping.from)
        BY <1>3, <3>1, <4>2, <4>3
      <4>5. Contract!Advance("skip", all)
        BY <1>3, <3>1, <4>1, <4>3, <4>4 DEF Contract!Advance, MinOf
      <4> QED BY <3>1, <4>5 DEF Contract!Next
    <3>4. ASSUME gzreadFails(n), skipping' = NoSkip, Throws, UNCHANGED object
          PROVE  Contract!Next
      <4>1. pos' \in 0..Size
        <5>1. pos' = pos \/ pos' \in pos..(pos + Left)
          BY <3>4 DEF gzreadFails
        <5> QED BY <1>3, <5>1, LeftFacts
      <4> QED BY <1>3, <3>4, <4>1 DEF Contract!Next, Contract!Fail
    <3> QED BY <2>6, <3>2, <3>3, <3>4 DEF skipChunk
  <2>7. CASE reset
    <3>1. kind' = kind /\ m_file' = m_file /\ m_file /\ skipping = NoSkip /\ skipping' = NoSkip
      BY <2>7 DEF reset, Ready, Idle
    <3>2. CASE pos' = 0 /\ result' = Done("reset")
      BY <1>3, <3>1, <3>2 DEF Contract!Next, Contract!Reset
    <3>3. CASE UNCHANGED pos /\ Throws
      BY <1>3, <3>1, <3>3 DEF Contract!Next, Contract!Fail
    <3> QED BY <2>7, <3>2, <3>3 DEF reset
  <2>8. ASSUME NEW n \in Counts, readFile(n) PROVE Contract!Next
    <3>1. kind' = kind /\ m_file' = m_file /\ m_file /\ skipping = NoSkip /\ skipping' = NoSkip
      BY <2>8 DEF readFile, Ready, Idle
    <3>2. CASE pos' = pos + MinOf(n, Left) /\ result' = Got("read", n, pos, MinOf(n, Left))
      BY <1>3, <3>1, <3>2 DEF Contract!Next, Contract!Advance, MinOf, Left
    <3>3. CASE pos' \in pos..(pos + Left) /\ Throws
      <4>1. pos' \in 0..Size
        BY <1>3, <3>3, LeftFacts
      <4> QED BY <1>3, <3>1, <3>3, <4>1 DEF Contract!Next, Contract!Fail
    <3> QED BY <2>8, <3>2, <3>3 DEF readFile
  <2>9. ASSUME NEW n \in Counts, skipFile(n) PROVE Contract!Next
    <3>1. kind' = kind /\ m_file' = m_file /\ m_file /\ skipping = NoSkip /\ skipping' = NoSkip
      BY <2>9 DEF skipFile, Ready, Idle
    <3>2. n \in Nat /\ pos <= Size
      BY <1>3
    <3>3. Told(pos) = {pos} /\ Told(Size) = {Size}
      BY DEF Told
    <3>4. \/ Size - pos <= n /\ pos' = Size /\ result' = Got("skip", n, pos, Size - pos)
          \/ n < Size - pos /\ pos' = pos + n /\ result' = Got("skip", n, pos, n)
          \/ (pos' = pos \/ pos' = Size) /\ Throws
      <4>1. Within(n, pos, Size) <=> Size - pos <= n
        BY <3>2 DEF Within
      <4> QED BY <2>9, <3>2, <3>3, <4>1 DEF skipFile
    <3>5. CASE Size - pos <= n /\ pos' = Size /\ result' = Got("skip", n, pos, Size - pos)
      BY <1>3, <3>1, <3>2, <3>5 DEF Contract!Next, Contract!Advance
    <3>6. CASE n < Size - pos /\ pos' = pos + n /\ result' = Got("skip", n, pos, n)
      BY <1>3, <3>1, <3>2, <3>6 DEF Contract!Next, Contract!Advance
    <3>7. CASE (pos' = pos \/ pos' = Size) /\ Throws
      BY <1>3, <3>1, <3>2, <3>7 DEF Contract!Next, Contract!Fail
    <3> QED BY <3>4, <3>5, <3>6, <3>7
  <2>10. ASSUME NEW n \in Counts, readGZip(n) PROVE Contract!Next
    <3>1. kind' = kind /\ m_file' = m_file /\ m_file /\ skipping = NoSkip /\ skipping' = NoSkip
      BY <2>10 DEF readGZip, Ready, Idle
    <3>2. ASSUME NEW count \in 0..n, gzread(n, count), result' = Got("read", n, pos, count)
          PROVE  Contract!Next
      <4>1. count = MinOf(n, Left) /\ pos' = pos + count
        <5>1. n \in Nat /\ n < UIntMod
          BY <2>10 DEF readGZip
        <5>2. Passed(n) = n
          BY <5>1, PassedFacts
        <5> QED BY <3>2, <5>2 DEF gzread
      <4>2. Contract!Advance("read", n)
        BY <1>3, <3>1, <3>2, <4>1, LeftFacts DEF Contract!Advance, MinOf
      <4> QED BY <4>2 DEF Contract!Next
    <3>3. CASE gzreadFails(n) /\ Throws
      <4>1. pos' \in 0..Size
        <5>1. pos' = pos \/ pos' \in pos..(pos + Left)
          BY <3>3 DEF gzreadFails
        <5> QED BY <1>3, <5>1, LeftFacts
      <4> QED BY <1>3, <3>1, <3>3, <4>1 DEF Contract!Next, Contract!Fail
    <3> QED BY <2>10, <3>2, <3>3 DEF readGZip
  <2>11. ASSUME NEW n \in Counts, skipGZip(n) PROVE UNCHANGED Contract!vars
    BY <1>3, <2>11 DEF skipGZip, Ready, Idle, NoSkip
  <2>12. ASSUME NEW n \in Counts, writeFile(n) \/ writeGZip(n) PROVE FALSE
    BY <1>3, <2>12 DEF writeFile, writeGZip, Inputs
  <2> QED BY <1>1, <2>1, <2>2, <2>3, <2>4, <2>5, <2>6, <2>7, <2>8, <2>9, <2>10, <2>11, <2>12
          DEF Next
<1> QED BY <1>2, <1>3

(* Reading, skipping, resetting and closing either kind of input behave as *)
(* InputStream promises, as long as ftell does not fail and reads of gzip  *)
(* files are asked for sizes that zlib's type has; a skip in chunks is one *)
(* step of it, whatever its size.                                          *)
THEOREM InputStreamImplemented ==
  ASSUME ~CutsSizes, ~TellFails
  PROVE  Spec => ImplementsInputStream
<1>1. Init /\ [][Next]_vars => []SInv
  BY SInvInit, SInvStep, PTL
<1>2. Init => Contract!Init
  BY ContractInit
<1>3. SInv /\ SInv' /\ [Next]_vars => [Contract!Next]_Contract!vars
  BY ContractStep
<1> QED BY <1>1, <1>2, <1>3, PTL DEF Spec, ImplementsInputStream, Contract!Spec
=============================================================================
