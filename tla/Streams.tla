------------------------------ MODULE Streams ------------------------------
(***************************************************************************)
(* The streams of src/src/afc/stream.h and stream.cpp: FileInputStream and *)
(* FileOutputStream over stdio, GZipFileInputStream and                    *)
(* GZipFileOutputStream over zlib.  Any call of stdio or zlib may fail.    *)
(* Stream objects share nothing, so the module has one object, of any      *)
(* kind.  An action is a member function, except that the chunks in which  *)
(* a GZipFileInputStream skips are read one by one.                        *)
(*                                                                         *)
(* As in FastStringBuffer, X_Y is X with a mistake and part of no          *)
(* specification.                                                          *)
(***************************************************************************)
EXTENDS Integers

CONSTANTS
  Size,          (* Bytes in the (unpacked) file of an input.              *)
  Counts,        (* Sizes callers pass to read, skip and write.            *)
  gZipSkipChunkSize,
  UIntMod,       (* 2^w for the w-bit unsigned int zlib takes sizes as.    *)
  MaxWritten,    (* Bytes written to an output stream.  Bounds the model.  *)
  CutsSizes,     (* TRUE: callers also pass sizes that zlib's type does    *)
                 (* not have to read and write of the gzip classes.        *)
  TellFails      (* TRUE: ftell, which skip() does not check, may fail.    *)

ASSUME StreamsAssumption ==
  /\ Size \in Nat /\ MaxWritten \in Nat
  /\ gZipSkipChunkSize \in Nat \ {0}
  /\ UIntMod \in Nat \ {0} /\ UIntMod % 2 = 0
  /\ gZipSkipChunkSize < UIntMod \div 2
  /\ Counts \subseteq Nat

Inputs == {"FileInputStream", "GZipFileInputStream"}
Outputs == {"FileOutputStream", "GZipFileOutputStream"}

VARIABLES
  kind,     (* The class of the object.                                    *)
  made,     (* It is constructed.                                          *)
  m_file,   (* The member is not nullptr.                                  *)
  handle,   (* What m_file refers to is "open" or "closed".                *)
  pos,      (* Position in an input's file; bytes an output's file has.    *)
  result,   (* How the last call ended.                                    *)
  skipping, (* The locals of the skip(n) in progress.                      *)
  misused   (* A closed handle was passed to stdio or zlib.                *)

vars == <<kind, made, m_file, handle, pos, result, skipping, misused>>
object == <<kind, made, m_file, handle, misused>>

NoSkip == [bytesLeft |-> -1, skipped |-> 0, from |-> 0]
(* A call that was asked for n bytes got count of them from this place. *)
Got(op, n, from, count) == [op |-> op, asked |-> n, from |-> from, count |-> count]
Done(op) == Got(op, 0, 0, 0)
Throws == result' = Done("throw")
MinOf(a, b) == IF a <= b THEN a ELSE b

Init ==
  /\ kind \in Inputs \cup Outputs
  /\ made = FALSE /\ m_file = FALSE /\ handle = "closed"
  /\ pos = 0
  /\ result = Done("none")
  /\ skipping = NoSkip
  /\ misused = FALSE

Idle == made /\ ~misused /\ skipping = NoSkip
(* ensureNotClosed(m_file) passes, and the handle can be used. *)
Ready == Idle /\ m_file /\ handle = "open"

(***************************************************************************)
(* Opening and closing.                                                    *)
(***************************************************************************)
open ==
  /\ ~made
  /\ \/ /\ made' = TRUE /\ m_file' = TRUE /\ handle' = "open"
        /\ pos' = 0
        /\ result' = Done("open")
     \/ UNCHANGED <<made, m_file, handle, pos>> /\ Throws
  /\ UNCHANGED <<kind, skipping, misused>>

(* ensureNotClosed throws. *)
refused ==
  /\ Idle /\ ~m_file
  /\ Throws
  /\ UNCHANGED <<object, pos, skipping>>

(* fclose and gzclose give the handle up, whatever they return. *)
closeFileRef_Forgets ==
  /\ Idle
  /\ m_file => handle = "open"
  /\ m_file' = FALSE
  /\ result' = Done("close")
  /\ UNCHANGED <<kind, made, handle, pos, skipping, misused>>

closeFileRef ==
  /\ Idle
  /\ m_file => handle = "open"
  /\ \/ m_file' = FALSE /\ result' = Done("close")
     \/ m_file /\ UNCHANGED m_file /\ Throws
  /\ handle' = "closed"
  /\ UNCHANGED <<kind, made, pos, skipping, misused>>

(* The destructor. *)
closeFileNoexcept ==
  /\ Idle
  /\ m_file => handle = "open"
  /\ made' = FALSE /\ m_file' = FALSE /\ handle' = "closed"
  /\ result' = Done("close")
  /\ UNCHANGED <<kind, pos, skipping, misused>>

(* Any member function, the destructor included, when close() failed:      *)
(* m_file is still set, so ensureNotClosed lets it pass.  What happens     *)
(* then is undefined.                                                      *)
useAfterFailedClose ==
  /\ Idle /\ m_file /\ handle = "closed"
  /\ misused' = TRUE
  /\ UNCHANGED <<kind, made, m_file, handle, pos, result, skipping>>

(***************************************************************************)
(* FileInputStream.                                                        *)
(***************************************************************************)
Left == IF pos <= Size THEN Size - pos ELSE 0

readFile(n) ==
  /\ kind = "FileInputStream" /\ Ready
  /\ \/ pos' = pos + MinOf(n, Left) /\ result' = Got("read", n, pos, MinOf(n, Left))
     \/ n > 0 /\ pos' \in pos..(pos + Left) /\ Throws
  /\ UNCHANGED <<object, skipping>>

(* What ftell returns at this place. *)
Told(place) == {place} \cup IF TellFails THEN {-1} ELSE {}

(* The end is within n bytes.  Otherwise the difference, also one that is  *)
(* negative and converted to size_t, is more than n.                       *)
Within(n, currPos, endPos) == endPos >= currPos /\ n >= endPos - currPos

(* ftell, fseek to the end, ftell, and fseek to n bytes behind the first   *)
(* place unless the end is within n bytes.                                 *)
skipFile_FromEnd(n) ==
  /\ kind = "FileInputStream" /\ Ready
  /\ \E currPos \in Told(pos), endPos \in Told(Size) :
       \/ /\ Within(n, currPos, endPos)
          /\ pos' = Size /\ result' = Got("skip", n, pos, endPos - currPos)
       \/ /\ ~Within(n, currPos, endPos)
          /\ pos' = endPos - n /\ result' = Got("skip", n, pos, n)
  /\ UNCHANGED <<object, skipping>>

skipFile(n) ==
  /\ kind = "FileInputStream" /\ Ready
  /\ \E currPos \in Told(pos), endPos \in Told(Size) :
       \/ /\ Within(n, currPos, endPos)
          /\ pos' = Size /\ result' = Got("skip", n, pos, endPos - currPos)
       \/ /\ ~Within(n, currPos, endPos) /\ currPos + n >= 0
          /\ pos' = currPos + n /\ result' = Got("skip", n, pos, n)
       \/ UNCHANGED pos /\ Throws                                 (* the first fseek *)
       \/ ~Within(n, currPos, endPos) /\ pos' = Size /\ Throws    (* the last fseek  *)
  /\ UNCHANGED <<object, skipping>>

(***************************************************************************)
(* GZipFileInputStream.                                                    *)
(***************************************************************************)
(* A size is cut when it is passed as an unsigned int.                     *)
Passed(n) == n % UIntMod

(* gzread(m_file, buf, n) as read() sees it: a size that is negative as an *)
(* int is refused, damaged data fails anywhere.                            *)
gzread(n, count) == /\ Passed(n) < UIntMod \div 2
                    /\ count = MinOf(Passed(n), Left)
                    /\ pos' = pos + count
gzreadFails(n) == IF Passed(n) >= UIntMod \div 2 THEN UNCHANGED pos
                  ELSE Passed(n) > 0 /\ pos' \in pos..(pos + Left)

readGZip(n) ==
  /\ kind = "GZipFileInputStream" /\ Ready
  /\ CutsSizes \/ n < UIntMod
  /\ \/ \E count \in 0..n : gzread(n, count) /\ result' = Got("read", n, pos, count)
     \/ gzreadFails(n) /\ Throws
  /\ UNCHANGED <<object, skipping>>

skipGZip(n) ==
  /\ kind = "GZipFileInputStream" /\ Ready
  /\ skipping' = [bytesLeft |-> n, skipped |-> 0, from |-> pos]
  /\ UNCHANGED <<object, pos, result>>

(* One read of the loop, or the read behind it: a full chunk while more    *)
(* than a chunk is left, else the rest.                                    *)
ChunkRead(count) ==
  /\ skipping # NoSkip
  /\ gzread(MinOf(skipping.bytesLeft, gZipSkipChunkSize), count)

NextChunk(count) ==
  /\ skipping' = [skipping EXCEPT !.bytesLeft = @ - gZipSkipChunkSize, !.skipped = @ + count]
  /\ UNCHANGED <<object, result>>

EndOfSkip(count) ==
  /\ skipping' = NoSkip
  /\ result' = Got("skip", skipping.skipped + skipping.bytesLeft,
                   skipping.from, skipping.skipped + count)
  /\ UNCHANGED object

skipChunk_CountsChunks ==
  \E count \in 0..gZipSkipChunkSize :
    /\ ChunkRead(count)
    /\ IF skipping.bytesLeft > gZipSkipChunkSize
       THEN NextChunk(gZipSkipChunkSize) ELSE EndOfSkip(count)

skipChunk_Stuck ==
  \E count \in 0..gZipSkipChunkSize :
    /\ ChunkRead(count)
    /\ IF skipping.bytesLeft > gZipSkipChunkSize
       THEN IF count = gZipSkipChunkSize THEN NextChunk(count)
            ELSE UNCHANGED <<object, skipping, result>>
       ELSE EndOfSkip(count)

skipChunk ==
  \/ \E count \in 0..gZipSkipChunkSize :
       /\ ChunkRead(count)
       /\ IF skipping.bytesLeft > gZipSkipChunkSize /\ count = gZipSkipChunkSize
          THEN NextChunk(count) ELSE EndOfSkip(count)
  \/ /\ skipping # NoSkip
     /\ gzreadFails(MinOf(skipping.bytesLeft, gZipSkipChunkSize))
     /\ skipping' = NoSkip
     /\ Throws
     /\ UNCHANGED object

(* Both kinds of input seek to 0, which may fail. *)
reset ==
  /\ kind \in Inputs /\ Ready
  /\ \/ pos' = 0 /\ result' = Done("reset")
     \/ UNCHANGED pos /\ Throws
  /\ UNCHANGED <<object, skipping>>

(***************************************************************************)
(* Output streams.  A failed write may have written a part.                *)
(***************************************************************************)
writeFile(n) ==
  /\ kind = "FileOutputStream" /\ Ready
  /\ pos + n <= MaxWritten
  /\ \/ pos' = pos + n /\ result' = Got("write", n, pos, n)
     \/ n > 0 /\ pos' \in pos..(pos + n - 1) /\ Throws
  /\ UNCHANGED <<object, skipping>>

(* gzwrite writes as many bytes as are passed to it and returns 0 when it  *)
(* fails, when that is nothing, and when the size is negative as an int.   *)
gzwrite(n) == Passed(n) \in 1..(UIntMod \div 2 - 1)

writeGZip_Unchecked(n) ==
  /\ kind = "GZipFileOutputStream" /\ Ready
  /\ pos + n <= MaxWritten
  /\ pos' \in pos..(pos + n) /\ result' = Got("write", n, pos, n)
  /\ UNCHANGED <<object, skipping>>

writeGZip(n) ==
  /\ kind = "GZipFileOutputStream" /\ Ready
  /\ CutsSizes \/ n < UIntMod
  /\ pos + n <= MaxWritten
  /\ \/ gzwrite(n) /\ pos' = pos + Passed(n) /\ result' = Got("write", n, pos, n)
     \/ gzwrite(n) /\ pos' \in pos..(pos + Passed(n) - 1) /\ Throws
     \/ ~gzwrite(n) /\ UNCHANGED pos /\ Throws
  /\ UNCHANGED <<object, skipping>>

Next ==
  \/ open \/ refused \/ closeFileRef \/ closeFileNoexcept \/ useAfterFailedClose
  \/ skipChunk \/ reset
  \/ \E n \in Counts : \/ readFile(n) \/ skipFile(n) \/ readGZip(n) \/ skipGZip(n)
                       \/ writeFile(n) \/ writeGZip(n)

(* A skip that has begun is carried on by the thread that called it. *)
Spec == Init /\ [][Next]_vars /\ WF_vars(skipChunk)

(***************************************************************************)
(* Properties.                                                             *)
(***************************************************************************)
(* Files and gzip files implement one InputStream: skip(n), whether it     *)
(* seeks or reads chunks, is read(n) without the data.                     *)
Contract == INSTANCE InputStream WITH
  isOpen <- m_file /\ kind \in Inputs,
  at <- IF kind \notin Inputs THEN 0 ELSE IF skipping = NoSkip THEN pos ELSE skipping.from,
  outcome <- IF kind \in Inputs THEN result ELSE Done("none")
ImplementsInputStream == Contract!Spec

Accepted(r) == IF r.op = "write" THEN r.count ELSE 0

(* A write that returns has handed all its bytes on, and a part of them    *)
(* reaches the file only when the call throws.                             *)
WritesAll ==
  [][ made /\ kind \in Outputs /\ <<pos, result>>' # <<pos, result>>
      => pos' - pos = Accepted(result') \/ result' = Done("throw") ]_vars

(* No handle is lost: one that is open is known to a live object, whose    *)
(* destructor closes it, also when opening, closing or a call fails.       *)
NoHandleLost == handle = "open" => made /\ m_file

(* ensureNotClosed keeps closed handles from stdio and zlib.               *)
EnsureNotClosed == ~misused

(* A skip ends, whatever it is asked for and wherever the file ends.       *)
SkipsEnd == skipping # NoSkip ~> skipping = NoSkip
=============================================================================
