------------------------- MODULE TextStorage_proofs -------------------------
(***************************************************************************)
(* Proofs about buffers alone and about strings and buffers on one heap,   *)
(* for every word size, character size, number of buffers, strings and     *)
(* blocks.                                                                 *)
(*                                                                         *)
(* Two hypotheses are stated in each theorem that needs them: callers use  *)
(* a buffer after detach() only to destroy it (~ReuseDetached), and        *)
(* AllocatorBound, without which "Never overflows" is false.               *)
(***************************************************************************)
EXTENDS TextStorage, FiniteSetTheorems, SequenceTheorems, TLAPS

(* The allocator grants no request above PTRDIFF_MAX bytes, or a character *)
(* is one byte.                                                            *)
AllocatorBound == CharSize = 1 \/ MaxAlloc <= PtrdiffMax

(***************************************************************************)
(* Arithmetic of the storage sizes.                                        *)
(***************************************************************************)

(* The limit is positive, addressable by ptrdiff_t, and its storage,       *)
(* terminator included, is a number of bytes a size_t can hold.            *)
LEMMA Limits ==
  /\ maxCapacity \in 1..PtrdiffMax
  /\ maxStorageSize \in 2..(PtrdiffMax + 1)
  /\ maxStorageSize * CharSize <= SizeMax
<1> DEFINE q == SizeMax \div CharSize
<1>1. /\ PtrdiffMax \in Nat \ {0} /\ SizeMax = 2 * PtrdiffMax + 1
      /\ CharSize \in Nat \ {0} /\ CharSize <= PtrdiffMax
  BY HeapAssumption
<1>2. q \in Nat /\ q * CharSize <= SizeMax /\ SizeMax < (q + 1) * CharSize
  BY <1>1
<1>3. q >= 2
  <2>1. SUFFICES ASSUME q <= 1 PROVE FALSE
    BY <1>2
  <2>2. (q + 1) * CharSize <= 2 * CharSize
    BY <1>1, <1>2, <2>1
  <2> QED BY <1>1, <1>2, <2>2
<1>4. maxCapacity \in 1..PtrdiffMax /\ maxCapacity <= q - 1
  BY <1>1, <1>2, <1>3 DEF maxCapacity, MinOf
<1> HIDE DEF q
<1>5. maxStorageSize * CharSize <= q * CharSize
  <2>1. maxStorageSize \in Nat /\ maxStorageSize <= q
    BY <1>1, <1>2, <1>4 DEF maxStorageSize
  <2> HIDE DEF maxStorageSize
  <2> QED BY <1>1, <1>2, <2>1
<1> QED BY <1>1, <1>2, <1>4, <1>5 DEF maxStorageSize

(* Storage within the limit is asked of the allocator without wrapping. *)
LEMMA Bytes ==
  ASSUME NEW s \in 1..maxStorageSize
  PROVE  /\ Wrap(s * CharSize) = s * CharSize
         /\ s * CharSize \in 1..SizeMax
<1>1. CharSize \in Nat \ {0} /\ SizeMax \in Nat
  BY HeapAssumption
<1>2. s \in Nat \ {0} /\ s <= maxStorageSize /\ maxStorageSize \in Nat
  BY Limits
<1>3. s * CharSize <= maxStorageSize * CharSize
  BY <1>1, <1>2
<1>4. s * CharSize \in Nat \ {0}
  BY <1>1, <1>2
<1>5. s * CharSize \in 1..SizeMax
  BY <1>1, <1>2, <1>3, <1>4, Limits
<1> QED BY <1>1, <1>5 DEF Wrap

(* ceilPow2 returns a power of two that holds its argument, or 0 for an    *)
(* argument beyond the largest power of two of the word.                   *)
LEMMA CeilPow2 ==
  ASSUME NEW x \in 0..SizeMax
  PROVE  \/ x \in 1..(PtrdiffMax + 1) /\ ceilPow2(x) \in Powers /\ ceilPow2(x) >= x
         \/ x \notin 1..(PtrdiffMax + 1) /\ ceilPow2(x) = 0
<1>1. CASE x \in 1..(PtrdiffMax + 1)
  <2>1. \E p \in Powers : x <= p /\ p < 2 * x
    BY <1>1, PowersAssumption
  <2> QED BY <1>1, <2>1 DEF ceilPow2
<1> QED BY <1>1 DEF ceilPow2

(* The storage of a reservation is within the limit, holds the characters  *)
(* asked for and the terminator, and is a power of two or the limit.       *)
LEMMA NextStorageSize ==
  ASSUME NEW n \in 1..SizeMax, nextStorageSize(n) # BadAlloc
  PROVE  /\ nextStorageSize(n) \in (n + 1)..maxStorageSize
         /\ AllocMode = "pow2" => nextStorageSize(n) \in Powers \cup {maxStorageSize}
<1>1. PtrdiffMax \in Nat \ {0} /\ SizeMax = 2 * PtrdiffMax + 1
  BY HeapAssumption
<1>2. Powers \subseteq 1..(PtrdiffMax + 1)
  BY PowersAssumption
<1>3. CASE AllocMode = "pow2"
  <2> DEFINE x == Wrap(n + 1)
             p == ceilPow2(x)
  <2>1. x = IF n = SizeMax THEN 0 ELSE n + 1
    BY <1>1 DEF Wrap
  <2>2. x \in 0..SizeMax
    BY <1>1, <2>1
  <2>3. \/ x \in 1..(PtrdiffMax + 1) /\ p \in Powers /\ p >= x
        \/ x \notin 1..(PtrdiffMax + 1) /\ p = 0
    BY <2>2, CeilPow2
  <2>4. nextStorageSize(n) = IF p = 0 \/ p >= maxStorageSize
                             THEN IF n > maxCapacity THEN 0 ELSE maxStorageSize
                             ELSE p
    BY <1>3 DEF nextStorageSize, BadAlloc
  <2> HIDE DEF x, p
  <2>5. CASE p = 0 \/ p >= maxStorageSize
    <3>1. nextStorageSize(n) = maxStorageSize /\ n <= maxCapacity
      BY <1>1, <2>4, <2>5, Limits DEF BadAlloc
    <3>2. maxCapacity \in Nat /\ maxStorageSize = maxCapacity + 1
      BY <1>1, Limits DEF maxStorageSize
    <3> QED BY <1>1, <3>1, <3>2
  <2>6. CASE ~(p = 0 \/ p >= maxStorageSize)
    <3>1. p \in Powers /\ p >= x /\ x \in 1..(PtrdiffMax + 1)
      BY <2>3, <2>6
    <3>2. x = n + 1
      BY <2>1, <3>1
    <3> QED BY <1>1, <1>2, <2>4, <2>6, <3>1, <3>2, Limits
  <2> QED BY <2>5, <2>6
<1>4. CASE AllocMode # "pow2"
  BY <1>1, <1>4, Limits DEF nextStorageSize, maxStorageSize, BadAlloc
<1> QED BY <1>3, <1>4

(* Doubling stays within the limit and keeps the shape, for a buffer whose *)
(* storage was granted by the allocator and has that shape.                *)
LEMMA NextCapacity ==
  ASSUME AllocatorBound,
         NEW c \in 0..maxCapacity, c # maxCapacity,
         c = 0 \/ (c + 1) * CharSize <= MaxAlloc,
         AllocMode = "pow2" => c + 1 \in Powers \cup {maxStorageSize}
  PROVE  /\ nextCapacity(c) \in (c + 1)..maxCapacity
         /\ Wrap(nextCapacity(c) + 1) = nextCapacity(c) + 1
         /\ AllocMode = "pow2" => nextCapacity(c) + 1 \in Powers \cup {maxStorageSize}
<1>1. /\ PtrdiffMax \in Nat \ {0} /\ SizeMax = 2 * PtrdiffMax + 1
      /\ CharSize \in 1..PtrdiffMax /\ MaxAlloc \in Nat
  BY HeapAssumption
<1>2. maxCapacity \in 1..PtrdiffMax /\ c \in Nat /\ c < maxCapacity
  BY <1>1, Limits
<1>3. CASE AllocMode = "pow2"
  <2>1. c + 1 \in Powers /\ c + 1 < PtrdiffMax + 1
    BY <1>1, <1>2, <1>3 DEF maxStorageSize
  <2>2. 2 * (c + 1) \in Powers /\ 2 * (c + 1) <= PtrdiffMax + 1
    BY <1>1, <1>2, <2>1, PowersAssumption
  <2>3. nextCapacity(c) = c * 2 + 1
    BY <1>1, <1>2, <1>3, <2>2 DEF nextCapacity, Wrap
  <2>4. c * 2 + 1 <= maxCapacity
    <3> DEFINE q == SizeMax \div CharSize
    <3>1. q \in Nat /\ SizeMax < (q + 1) * CharSize
      BY <1>1
    <3>2. maxCapacity = MinOf(q - 1, PtrdiffMax)
      BY DEF maxCapacity
    <3> HIDE DEF q
    <3>3. 2 * (c + 1) <= q
      <4>1. CASE CharSize = 1
        BY <1>1, <1>2, <2>2, <3>1, <4>1
      <4>2. CASE CharSize # 1
        <5>1. CASE c = 0
          <6>1. q >= 2
            BY <1>1, <1>2, <3>1, <3>2 DEF MinOf
          <6> QED BY <5>1, <6>1
        <5>2. CASE c # 0
          <6>1. (c + 1) * CharSize <= PtrdiffMax
            BY <1>1, <1>2, <4>2, <5>2 DEF AllocatorBound
          <6>2. SUFFICES ASSUME q + 1 <= 2 * (c + 1) PROVE FALSE
            BY <1>2, <3>1
          <6>3. (q + 1) * CharSize <= (2 * (c + 1)) * CharSize
            BY <1>1, <1>2, <3>1, <6>2
          <6>4. (2 * (c + 1)) * CharSize = 2 * ((c + 1) * CharSize)
            BY <1>1, <1>2
          <6> QED BY <1>1, <1>2, <3>1, <6>1, <6>3, <6>4
        <5> QED BY <5>1, <5>2
      <4> QED BY <4>1, <4>2
    <3> QED BY <1>1, <1>2, <2>2, <3>1, <3>2, <3>3 DEF MinOf
  <2> QED BY <1>1, <1>2, <1>3, <2>2, <2>3, <2>4 DEF Wrap
<1>4. CASE AllocMode # "pow2"
  BY <1>1, <1>2, <1>4 DEF nextCapacity, Wrap
<1> QED BY <1>3, <1>4

(***************************************************************************)
(* Type correctness.                                                       *)
(***************************************************************************)
Fields == [m_buf : Blocks \cup {NULL}, m_bufEnd : 0..SizeMax, m_capacity : 0..SizeMax]

LEMMA EmptyFields == Empty \in Fields
BY HeapAssumption DEF Empty, Fields

LEMMA FreeType ==
  ASSUME HeapTypeOK, NEW x, free(x)
  PROVE  HeapTypeOK'
BY HeapAssumption DEF HeapTypeOK, free, Unwritten, Cells

LEMMA ReallocType ==
  ASSUME HeapTypeOK, NEW old \in Blocks \cup {NULL}, NEW bytes, NEW res,
         realloc(old, bytes, res)
  PROVE  HeapTypeOK'
<1>1. Moved(old, bytes) \in [0..SizeMax -> Cells]
  BY DEF HeapTypeOK, Moved, Cells
<1>2. bytes \in 0..SizeMax
  BY HeapAssumption DEF realloc
<1> QED BY <1>1, <1>2, HeapAssumption DEF HeapTypeOK, realloc, Unwritten, Cells

LEMMA ReallocFailsType ==
  ASSUME HeapTypeOK, NEW old, NEW bytes, reallocFails(old, bytes)
  PROVE  HeapTypeOK'
<1>1. CASE bytes = 0
  BY <1>1, FreeType DEF reallocFails
<1>2. CASE bytes # 0
  BY <1>2 DEF reallocFails, HeapTypeOK
<1> QED BY <1>1, <1>2

LEMMA WrittenType ==
  ASSUME HeapTypeOK, NEW b \in Buffers, NEW at \in Int, NEW s \in Seq(Cells)
  PROVE  Written(b, at, s) \in [Blocks -> [0..SizeMax -> Cells]]
<1> DEFINE new == [i \in 0..SizeMax |-> IF i - at + 1 \in 1..Len(s) THEN s[i - at + 1]
                                        ELSE mem[buf[b].m_buf][i]]
<1>1. Written(b, at, s) = [mem EXCEPT ![buf[b].m_buf] = new]
  BY DEF Written
<1>2. \A i \in 1..Len(s) : s[i] \in Cells
  OBVIOUS
<1>3. CASE buf[b].m_buf \in Blocks
  <2>1. mem[buf[b].m_buf] \in [0..SizeMax -> Cells]
    BY <1>3 DEF HeapTypeOK
  <2>2. new \in [0..SizeMax -> Cells]
    BY <1>2, <2>1
  <2> HIDE DEF new
  <2> QED BY <1>1, <2>2 DEF HeapTypeOK
<1>4. CASE buf[b].m_buf \notin Blocks
  <2> HIDE DEF new
  <2> QED BY <1>1, <1>4 DEF HeapTypeOK
<1> QED BY <1>3, <1>4

LEMMA RegrowType ==
  ASSUME TypeOK, NEW b \in Buffers, NEW s \in 0..(SizeMax + 1), Regrow(b, s)
  PROVE  TypeOK'
<1> USE DEF TypeOK
<1> DEFINE bytes == Wrap(s * CharSize)
<1>1. SizeMax \in Nat /\ CharSize \in Nat
  BY HeapAssumption
<1>2. buf[b].m_buf \in Blocks \cup {NULL}
  OBVIOUS
<1>3. CASE reallocFails(buf[b].m_buf, bytes) /\ Throws("bad_alloc")
  <2>1. HeapTypeOK'
    BY <1>3, ReallocFailsType
  <2> QED BY <1>3, <2>1 DEF Throws
<1>4. ASSUME NEW newBuf \in Blocks,
             realloc(buf[b].m_buf, bytes, newBuf),
             buf' = [buf EXCEPT ![b].m_buf = newBuf, ![b].m_capacity = s - 1],
             exc' = "none", UNCHANGED <<status, tail, given>>
      PROVE  TypeOK'
  <2>1. HeapTypeOK'
    BY <1>2, <1>4, ReallocType
  <2>2. s # 0
    <3>1. bytes # 0
      BY <1>4 DEF realloc
    <3> QED BY <1>1, <3>1 DEF Wrap
  <2>3. s - 1 \in 0..SizeMax
    BY <1>1, <2>2
  <2>4. buf' \in [Buffers -> Fields]
    BY <1>4, <2>3 DEF Fields
  <2> QED BY <1>4, <2>1, <2>4 DEF Fields
<1> QED BY <1>3, <1>4 DEF Regrow, capacityOf

LEMMA AppendType ==
  ASSUME TypeOK, NEW b \in Buffers, NEW s \in Seq(Cells), append(b, s)
  PROVE  TypeOK'
<1> USE DEF TypeOK
<1>1. size(b) \in 0..SizeMax /\ buf[b].m_capacity \in 0..SizeMax /\ Len(s) \in Nat
  BY DEF size
<1>2. mem' \in [Blocks -> [0..SizeMax -> Cells]]
  BY <1>1, WrittenType DEF append
<1>3. size(b) + Len(s) \in 0..SizeMax
  BY <1>1, HeapAssumption DEF append, Room
<1>4. buf' \in [Buffers -> Fields]
  BY <1>3 DEF append, size, Fields
<1> QED BY <1>2, <1>4 DEF append, HeapTypeOK, Fields

LEMMA TypeStep ==
  ASSUME TypeOK, [Next]_vars
  PROVE  TypeOK'
<1> USE DEF TypeOK
<1>0. PtrdiffMax \in Nat /\ SizeMax = 2 * PtrdiffMax + 1 /\ Requests \subseteq 0..SizeMax
  BY HeapAssumption, BufferAssumption
<1>1. CASE UNCHANGED vars
  BY <1>1 DEF vars, bufVars, HeapTypeOK
<1>2. ASSUME NEW b \in Buffers, construct(b) PROVE TypeOK'
  BY <1>2, EmptyFields DEF construct, HeapTypeOK, Fields
<1>3. ASSUME NEW b \in Buffers, NEW n \in Requests, constructWithCapacity(b, n)
      PROVE  TypeOK'
  <2>1. CASE Throws("bad_alloc") /\ UNCHANGED <<heap, mem>>
    BY <2>1 DEF Throws, HeapTypeOK
  <2>2. ASSUME nextStorageSize(n) # BadAlloc,
               NEW ptr \in Blocks,
               realloc(NULL, Wrap(nextStorageSize(n) * CharSize), ptr),
               buf' = [buf EXCEPT ![b] =
                 [m_buf |-> ptr, m_bufEnd |-> 0, m_capacity |-> nextStorageSize(n) - 1]],
               status' = [status EXCEPT ![b] = "live"],
               exc' = "none", UNCHANGED <<tail, given>>
        PROVE  TypeOK'
    <3>1. HeapTypeOK'
      BY <2>2, ReallocType
    <3>2. nextStorageSize(n) - 1 \in 0..SizeMax
      <4>1. n \in 1..SizeMax
        BY <1>0, <1>3 DEF constructWithCapacity, capacityOf
      <4>2. nextStorageSize(n) \in (n + 1)..maxStorageSize /\ maxStorageSize \in 2..(PtrdiffMax + 1)
        BY <2>2, <4>1, NextStorageSize, Limits
      <4> QED BY <1>0, <4>1, <4>2
    <3>3. buf' \in [Buffers -> Fields]
      BY <1>0, <2>2, <3>2 DEF Fields
    <3> QED BY <2>2, <3>1, <3>3 DEF Fields
  <2> QED BY <1>3, <2>1, <2>2 DEF constructWithCapacity, capacityOf
<1>4. ASSUME NEW b \in Buffers, NEW o \in Buffers, moveConstruct(b, o) \/ moveAssign(b, o)
      PROVE  TypeOK'
  <2>1. buf' \in [Buffers -> Fields]
    BY <1>4, EmptyFields DEF moveConstruct, moveAssign, Fields
  <2> QED BY <1>4, <2>1 DEF moveConstruct, moveAssign, HeapTypeOK, Fields
<1>5. ASSUME NEW b \in Buffers, destroy(b) PROVE TypeOK'
  <2>1. HeapTypeOK'
    BY <1>5, FreeType DEF destroy
  <2>2. buf' \in [Buffers -> Fields]
    BY <1>5, EmptyFields DEF destroy, Fields
  <2> QED BY <1>5, <2>1, <2>2 DEF destroy, Fields
<1>6. ASSUME NEW b \in Buffers, NEW n \in Requests, reserve(b, n) PROVE TypeOK'
  <2>1. CASE UNCHANGED <<heap, mem, status, buf, tail, given>> /\ exc' \in {"none", "bad_alloc"}
    BY <2>1 DEF HeapTypeOK
  <2>2. CASE /\ buf[b].m_capacity < n
             /\ nextStorageSize(n) # BadAlloc
             /\ Regrow(b, nextStorageSize(n))
    <3>1. n \in 1..SizeMax
      BY <1>0, <2>2
    <3>2. nextStorageSize(n) \in (n + 1)..maxStorageSize /\ maxStorageSize \in 2..(PtrdiffMax + 1)
      BY <2>2, <3>1, NextStorageSize, Limits
    <3>3. nextStorageSize(n) \in 0..(SizeMax + 1)
      BY <1>0, <3>1, <3>2
    <3> QED BY <2>2, <3>3, RegrowType
  <2> QED BY <1>6, <2>1, <2>2 DEF reserve, NeedsStorage, Throws
<1>7. ASSUME NEW b \in Buffers, reserveForOne(b) PROVE TypeOK'
  <2>1. CASE UNCHANGED <<heap, mem, status, buf, tail, given>> /\ exc' \in {"none", "Exception"}
    BY <2>1 DEF HeapTypeOK
  <2>2. CASE Regrow(b, Wrap(nextCapacity(buf[b].m_capacity) + 1))
    <3>1. nextCapacity(buf[b].m_capacity) \in Nat
      BY <1>0 DEF nextCapacity, Wrap
    <3>2. Wrap(nextCapacity(buf[b].m_capacity) + 1) \in 0..(SizeMax + 1)
      BY <1>0, <3>1 DEF Wrap
    <3> QED BY <2>2, <3>2, RegrowType
  <2> QED BY <1>7, <2>1, <2>2 DEF reserveForOne, Throws
<1>8. ASSUME NEW b \in Buffers, NEW s \in Inputs, append(b, s) PROVE TypeOK'
  <2>1. s \in Seq(Cells)
    BY BufferAssumption DEF Cells
  <2> QED BY <1>8, <2>1, AppendType
<1>9. ASSUME NEW b \in Buffers,
             NEW from \in 0..buf[b].m_capacity, NEW n \in 0..buf[b].m_capacity,
             appendOwn(b, from, n)
      PROVE  TypeOK'
  <2>1. Own(b, from, n) \in Seq(Cells)
    <3>1. buf[b].m_buf \in Blocks /\ size(b) \in 0..SizeMax
      BY <1>9 DEF appendOwn, append, size
    <3>2. \A i \in 1..n : from + i - 1 \in 0..SizeMax
      BY <1>0, <1>9, <3>1 DEF appendOwn
    <3>3. n \in Nat
      BY <1>0
    <3>4. mem[buf[b].m_buf] \in [0..SizeMax -> Cells]
      BY <3>1 DEF HeapTypeOK
    <3>5. \A i \in 1..n : mem[buf[b].m_buf][from + i - 1] \in Cells
      BY <3>2, <3>4
    <3>6. Own(b, from, n) \in [1..n -> Cells]
      BY <3>5 DEF Own
    <3> QED BY <3>3, <3>6
  <2> QED BY <1>9, <2>1, AppendType DEF appendOwn
<1>10. ASSUME NEW b \in Buffers, NEW n \in 0..buf[b].m_capacity, resize(b, n)
       PROVE  TypeOK'
  <2>1. n \in 0..SizeMax
    BY <1>0
  <2> QED BY <1>10, <2>1 DEF resize, HeapTypeOK
<1>11. ASSUME NEW b \in Buffers, clear(b) \/ detach(b) PROVE TypeOK'
  <2>1. buf' \in [Buffers -> Fields]
    BY <1>0, <1>11 DEF clear, detach, Fields
  <2>2. given' \subseteq Blocks
    BY <1>11 DEF clear, detach
  <2> QED BY <1>11, <2>1, <2>2 DEF clear, detach, HeapTypeOK, Fields
<1>12. ASSUME NEW b \in Buffers, c_str(b) PROVE TypeOK'
  <2>1. size(b) \in Int /\ <<Nul>> \in Seq(Cells)
    BY DEF size, Cells
  <2>2. CASE buf[b].m_buf = NULL
    BY <1>12, <2>2 DEF c_str, HeapTypeOK
  <2>3. CASE buf[b].m_buf \in Blocks
    <3>1. mem' \in [Blocks -> [0..SizeMax -> Cells]]
      BY <1>12, <2>1, <2>3, WrittenType, HeapAssumption DEF c_str
    <3> QED BY <1>12, <3>1 DEF c_str, HeapTypeOK
  <2> QED BY <2>2, <2>3
<1>13. ASSUME NEW x \in given, freeGiven(x) PROVE TypeOK'
  BY <1>13, FreeType DEF freeGiven
<1>14. ASSUME NEW b \in Buffers, borrowTail(b) PROVE TypeOK'
  BY <1>14 DEF borrowTail, size, HeapTypeOK
<1>15. ASSUME NEW b \in Buffers, NEW c \in Chars, writeTail(b, c) PROVE TypeOK'
  <2>1. tail[b] \in Int /\ <<c>> \in Seq(Cells) /\ tail[b] + 1 \in 0..SizeMax
    BY <1>0, <1>15 DEF writeTail, Cells, NoTail
  <2> QED BY <1>15, <2>1, WrittenType DEF writeTail, HeapTypeOK
<1>16. ASSUME NEW b \in Buffers, NEW drop \in 0..1, returnTail(b, drop) PROVE TypeOK'
  <2>1. tail[b] - drop \in 0..SizeMax
    BY <1>0, <1>16 DEF returnTail, NoTail, size
  <2> QED BY <1>16, <2>1 DEF returnTail, HeapTypeOK, NoTail
<1> QED
  BY <1>1, <1>2, <1>3, <1>4, <1>5, <1>6, <1>7, <1>8, <1>9, <1>10, <1>11, <1>12,
     <1>13, <1>14, <1>15, <1>16 DEF Next

(* Fields keep their types whatever the callers ask for: every offset and  *)
(* capacity is a size_t, every pointer a block or nullptr.                 *)
THEOREM TypeCorrect == Spec => []TypeOK
<1>1. Init => TypeOK
  BY HeapAssumption, EmptyFields
  DEF Init, HeapInit, TypeOK, HeapTypeOK, Unwritten, Cells, Fields, NoTail
<1>2. TypeOK /\ [Next]_vars => TypeOK'
  BY TypeStep
<1> QED BY <1>1, <1>2, PTL DEF Spec

(***************************************************************************)
(* The inductive invariant.  StorageFits alone is not inductive: growing   *)
(* one buffer must not disturb the block of another, which needs the       *)
(* ownership of blocks, and the size a buffer grows to is within the limit *)
(* only because its block was granted by the allocator and has the size    *)
(* its capacity says.                                                      *)
(***************************************************************************)
ObjectOK(b) ==
  /\ ~Live(b) => buf[b].m_buf = NULL
  /\ buf[b].m_buf = NULL => size(b) = 0 /\ tail[b] = NoTail
  /\ buf[b].m_buf = NULL /\ Live(b) => buf[b].m_capacity = 0
  /\ buf[b].m_buf # NULL =>
       /\ (buf[b].m_capacity + 1) * CharSize = heap[buf[b].m_buf]
       /\ heap[buf[b].m_buf] <= MaxAlloc
       /\ size(b) <= buf[b].m_capacity
       /\ tail[b] # NoTail => tail[b] \in size(b)..buf[b].m_capacity
  /\ buf[b].m_capacity + 1 <= maxStorageSize
  /\ AllocMode = "pow2" => buf[b].m_capacity + 1 \in Powers \cup {maxStorageSize}

OwnershipOK(G) ==
  /\ \A x \in Blocks : heap[x] # 0 <=> x \in G \/ \E b \in Buffers : buf[b].m_buf = x
  /\ \A b \in Buffers : buf[b].m_buf \notin G
  /\ \A b, o \in Buffers : b # o /\ buf[b].m_buf = buf[o].m_buf => buf[b].m_buf = NULL

HeapInv(G) == TypeOK /\ (\A b \in Buffers : ObjectOK(b)) /\ OwnershipOK(G)

IInv == HeapInv(given)

LEMMA ConstantTypes ==
  /\ NULL \notin Blocks
  /\ PtrdiffMax \in Nat /\ SizeMax = 2 * PtrdiffMax + 1 /\ CharSize \in Nat \ {0}
  /\ MaxAlloc \in Nat
  /\ Requests \subseteq 0..SizeMax
  /\ maxStorageSize \in 2..(PtrdiffMax + 1) /\ maxStorageSize = maxCapacity + 1
  /\ maxCapacity \in Nat
  /\ 1 \in Powers
BY HeapAssumption, BufferAssumption, PowersAssumption, Limits DEF maxStorageSize

LEMMA EmptyObject ==
  /\ Empty.m_buf = NULL /\ Empty.m_bufEnd = 0 /\ Empty.m_capacity = 0
  /\ Empty.m_capacity + 1 <= maxStorageSize
  /\ Empty.m_capacity + 1 \in Powers
BY ConstantTypes DEF Empty

LEMMA InitInv == Init => IInv
<1> SUFFICES ASSUME Init PROVE IInv
  OBVIOUS
<1>1. TypeOK
  BY HeapAssumption, EmptyFields
  DEF Init, HeapInit, TypeOK, HeapTypeOK, Unwritten, Cells, Fields, NoTail
<1>2. \A b \in Buffers : ObjectOK(b)
  BY EmptyObject DEF Init, ObjectOK, Live, size, NoTail
<1>3. OwnershipOK(given)
  BY EmptyObject, HeapAssumption DEF Init, HeapInit, OwnershipOK
<1> QED BY <1>1, <1>2, <1>3 DEF IInv, HeapInv

(* Growing b to s characters, where s is within the limit and of the shape *)
(* the mode asks for.                                                      *)
LEMMA RegrowInv ==
  ASSUME NEW G \in SUBSET Blocks, HeapInv(G), TypeOK',
         NEW b \in Buffers, Usable(b), NEW s \in 1..maxStorageSize,
         s > buf[b].m_capacity,
         AllocMode = "pow2" => s \in Powers \cup {maxStorageSize},
         Regrow(b, s)
  PROVE  HeapInv(G)'
<1> USE DEF HeapInv
<1> DEFINE old == buf[b].m_buf
<1>1. Wrap(s * CharSize) = s * CharSize /\ s * CharSize \in 1..SizeMax
  BY Bytes
<1>2. CASE reallocFails(old, Wrap(s * CharSize)) /\ Throws("bad_alloc")
  <2>1. UNCHANGED <<heap, status, buf, tail, given>>
    BY <1>1, <1>2, ConstantTypes DEF reallocFails, Throws
  <2> QED BY <2>1 DEF ObjectOK, OwnershipOK, Live, size
<1>3. ASSUME NEW newBuf \in Blocks,
             realloc(old, s * CharSize, newBuf),
             buf' = [buf EXCEPT ![b].m_buf = newBuf, ![b].m_capacity = s - 1],
             UNCHANGED <<status, tail, given>>
      PROVE  HeapInv(G)'
  <2>1. newBuf = old \/ heap[newBuf] = 0
    BY <1>3 DEF realloc
  <2>2. /\ s * CharSize <= MaxAlloc
        /\ heap' = [y \in Blocks |-> IF y = newBuf THEN s * CharSize
                                     ELSE IF y = old THEN 0 ELSE heap[y]]
    BY <1>3, ConstantTypes DEF realloc
  <2>3. /\ buf'[b].m_buf = newBuf /\ buf'[b].m_bufEnd = buf[b].m_bufEnd
        /\ buf'[b].m_capacity = s - 1
        /\ \A o \in Buffers \ {b} : buf'[o] = buf[o]
    BY <1>3 DEF TypeOK
  <2>4. ASSUME NEW o \in Buffers \ {b}
        PROVE  buf[o].m_buf = NULL \/ buf[o].m_buf \notin {newBuf, old}
    BY <2>1, <1>3 DEF OwnershipOK
  <2>5. ObjectOK(b)'
    <3>1. size(b) <= buf[b].m_capacity
      BY ConstantTypes DEF ObjectOK, TypeOK, size
    <3>2. size(b)' = size(b) /\ size(b) \in Nat /\ buf[b].m_capacity \in Nat
      BY <2>3 DEF size, TypeOK
    <3>3. s - 1 \in Nat /\ s - 1 >= buf[b].m_capacity /\ (s - 1) + 1 = s
      BY <3>2, ConstantTypes
    <3>4. tail'[b] = NoTail /\ Live(b)'
      BY <1>3 DEF Usable, Live
    <3>5. newBuf # NULL /\ heap'[newBuf] = s * CharSize
      BY <2>2, ConstantTypes
    <3> QED BY <2>2, <2>3, <3>1, <3>2, <3>3, <3>4, <3>5, ConstantTypes DEF ObjectOK
  <2>6. ASSUME NEW o \in Buffers \ {b} PROVE ObjectOK(o)'
    <3>1. buf[o].m_buf # NULL => heap'[buf[o].m_buf] = heap[buf[o].m_buf]
      BY <2>2, <2>4 DEF TypeOK
    <3>2. ObjectOK(o)
      OBVIOUS
    <3> QED BY <1>3, <2>3, <3>1, <3>2 DEF ObjectOK, Live, size
  <2>7. OwnershipOK(G)'
    <3>1. ASSUME NEW x \in Blocks
          PROVE  heap'[x] # 0 <=> x \in G \/ \E o \in Buffers : buf'[o].m_buf = x
      <4>1. CASE x = newBuf
        BY <1>1, <2>2, <2>3, <4>1
      <4>2. CASE x # newBuf /\ x = old
        <5>1. \A o \in Buffers : buf'[o].m_buf # x
          BY <2>3, <2>4, <4>2, ConstantTypes
        <5> QED BY <1>3, <2>2, <4>2, <5>1 DEF OwnershipOK
      <4>3. CASE x # newBuf /\ x # old
        <5>1. (\E o \in Buffers : buf'[o].m_buf = x) <=> (\E o \in Buffers : buf[o].m_buf = x)
          BY <2>3, <4>3
        <5> QED BY <1>3, <2>2, <4>3, <5>1 DEF OwnershipOK
      <4> QED BY <4>1, <4>2, <4>3
    <3>2. \A o \in Buffers : buf'[o].m_buf \notin G
      <4>1. newBuf \notin G
        BY <1>3, <2>1 DEF OwnershipOK
      <4>2. \A o \in Buffers \ {b} : buf'[o].m_buf \notin G
        BY <2>3 DEF OwnershipOK
      <4> QED BY <2>3, <4>1, <4>2
    <3>3. ASSUME NEW o1 \in Buffers, NEW o2 \in Buffers, o1 # o2,
                 buf'[o1].m_buf = buf'[o2].m_buf
          PROVE  buf'[o1].m_buf = NULL
      BY <2>3, <2>4, <3>3 DEF OwnershipOK
    <3> QED BY <3>1, <3>2, <3>3 DEF OwnershipOK
  <2> QED BY <2>5, <2>6, <2>7
<1> QED BY <1>1, <1>2, <1>3 DEF Regrow, capacityOf

(* Steps that neither allocate nor free, and keep every pointer where it   *)
(* is.                                                                     *)
LEMMA QuietInv ==
  ASSUME NEW G \in SUBSET Blocks, HeapInv(G), TypeOK',
         UNCHANGED <<heap, status, given>>, NEW b \in Buffers,
         \A o \in Buffers \ {b} : buf'[o] = buf[o] /\ tail'[o] = tail[o],
         buf'[b].m_buf = buf[b].m_buf, buf'[b].m_capacity = buf[b].m_capacity,
         IF buf[b].m_buf = NULL
         THEN buf'[b].m_bufEnd = 0 /\ tail'[b] = NoTail
         ELSE /\ buf'[b].m_bufEnd <= buf[b].m_capacity
              /\ tail'[b] # NoTail => tail'[b] \in buf'[b].m_bufEnd..buf[b].m_capacity
  PROVE  HeapInv(G)'
<1> USE DEF HeapInv
<1>1. \A o \in Buffers : buf'[o].m_buf = buf[o].m_buf
  OBVIOUS
<1>2. ASSUME NEW o \in Buffers PROVE ObjectOK(o)'
  <2>1. CASE o = b
    BY <2>1 DEF ObjectOK, Live, size
  <2>2. CASE o # b
    BY <2>2 DEF ObjectOK, Live, size
  <2> QED BY <2>1, <2>2
<1>3. OwnershipOK(G)'
  BY <1>1 DEF OwnershipOK
<1> QED BY <1>2, <1>3

(* A fresh block of the size its capacity says is given to an object that  *)
(* had none.                                                               *)
LEMMA ConstructWithCapacityInv ==
  ASSUME NEW G \in SUBSET Blocks, HeapInv(G), TypeOK',
         NEW b \in Buffers, NEW n \in Requests, constructWithCapacity(b, n)
  PROVE  HeapInv(G)'
<1> USE DEF HeapInv
<1>1. CASE Throws("bad_alloc") /\ UNCHANGED <<heap, mem>>
  BY <1>1 DEF Throws, ObjectOK, OwnershipOK, Live, size
<1>2. ASSUME nextStorageSize(n) # BadAlloc, status[b] = "none", n > 0,
             NEW ptr \in Blocks,
             realloc(NULL, Wrap(nextStorageSize(n) * CharSize), ptr),
             buf' = [buf EXCEPT ![b] =
               [m_buf |-> ptr, m_bufEnd |-> 0, m_capacity |-> nextStorageSize(n) - 1]],
             status' = [status EXCEPT ![b] = "live"],
             UNCHANGED <<tail, given>>
      PROVE  HeapInv(G)'
  <2> DEFINE s == nextStorageSize(n)
  <2>1. /\ s \in (n + 1)..maxStorageSize /\ n \in 1..SizeMax
        /\ AllocMode = "pow2" => s \in Powers \cup {maxStorageSize}
    BY <1>2, NextStorageSize, ConstantTypes
  <2> HIDE DEF s
  <2>2. Wrap(s * CharSize) = s * CharSize /\ s * CharSize \in 1..SizeMax /\ s \in 1..maxStorageSize
    BY <2>1, Bytes, ConstantTypes
  <2>3. /\ heap[ptr] = 0 /\ s * CharSize <= MaxAlloc
        /\ heap' = [y \in Blocks |-> IF y = ptr THEN s * CharSize ELSE heap[y]]
    BY <1>2, <2>2, ConstantTypes DEF realloc, s
  <2>4. /\ buf'[b].m_buf = ptr /\ buf'[b].m_bufEnd = 0 /\ buf'[b].m_capacity = s - 1
        /\ \A o \in Buffers \ {b} : buf'[o] = buf[o] /\ status'[o] = status[o]
        /\ status'[b] = "live" /\ buf[b].m_buf = NULL /\ tail[b] = NoTail
    BY <1>2 DEF TypeOK, ObjectOK, Live, s
  <2>5. \A o \in Buffers : buf[o].m_buf # ptr
    BY <1>2, <2>3 DEF OwnershipOK
  <2>6. ObjectOK(b)'
    <3>1. s - 1 \in Nat /\ (s - 1) + 1 = s
      BY <2>1, <2>2, ConstantTypes
    <3>2. ptr # NULL /\ heap'[ptr] = s * CharSize /\ tail'[b] = NoTail
      BY <1>2, <2>3, <2>4, ConstantTypes
    <3> QED BY <2>1, <2>2, <2>3, <2>4, <3>1, <3>2, ConstantTypes DEF ObjectOK, size, Live
  <2>7. ASSUME NEW o \in Buffers \ {b} PROVE ObjectOK(o)'
    <3>1. buf[o].m_buf # NULL => heap'[buf[o].m_buf] = heap[buf[o].m_buf]
      BY <2>3, <2>5 DEF TypeOK
    <3>2. ObjectOK(o)
      OBVIOUS
    <3> QED BY <1>2, <2>4, <3>1, <3>2 DEF ObjectOK, Live, size
  <2>8. OwnershipOK(G)'
    <3>1. \A x \in Blocks : heap'[x] # 0 <=> x \in G \/ \E o \in Buffers : buf'[o].m_buf = x
      <4>1. \A x \in Blocks \ {ptr} : (\E o \in Buffers : buf'[o].m_buf = x)
                                      <=> (\E o \in Buffers : buf[o].m_buf = x)
        BY <2>4, ConstantTypes
      <4> QED BY <1>2, <2>2, <2>3, <2>4, <4>1 DEF OwnershipOK
    <3>2. \A o \in Buffers : buf'[o].m_buf \notin G
      <4>1. ptr \notin G
        BY <1>2, <2>3 DEF OwnershipOK
      <4> QED BY <1>2, <2>4, <4>1 DEF OwnershipOK
    <3>3. \A o1, o2 \in Buffers : o1 # o2 /\ buf'[o1].m_buf = buf'[o2].m_buf
                                  => buf'[o1].m_buf = NULL
      BY <2>4, <2>5 DEF OwnershipOK
    <3> QED BY <3>1, <3>2, <3>3 DEF OwnershipOK
  <2> QED BY <2>6, <2>7, <2>8
<1> QED BY <1>1, <1>2 DEF constructWithCapacity, capacityOf

(* Objects exchange their fields, or one receives the fields of another    *)
(* and leaves it empty.                                                    *)
LEMMA MoveInv ==
  ASSUME NEW G \in SUBSET Blocks, HeapInv(G), TypeOK',
         NEW b \in Buffers, NEW o \in Buffers,
         moveConstruct(b, o) \/ moveAssign(b, o)
  PROVE  HeapInv(G)'
<1> USE DEF HeapInv
<1>1. UNCHANGED <<heap, tail, given>>
  BY DEF moveConstruct, moveAssign
<1>2. CASE moveConstruct(b, o)
  <2>1. /\ b # o /\ tail[o] = NoTail /\ status[o] = "live"
        /\ buf'[b] = buf[o] /\ buf'[o] = Empty
        /\ status'[b] = "live" /\ status'[o] = "live"
        /\ \A i \in Buffers \ {b, o} : buf'[i] = buf[i] /\ status'[i] = status[i]
    BY <1>2 DEF moveConstruct, Usable, Live, TypeOK
  <2>2. buf[b].m_buf = NULL /\ tail[b] = NoTail
    BY <1>2 DEF moveConstruct, ObjectOK, Live
  <2>3. ASSUME NEW i \in Buffers PROVE ObjectOK(i)'
    <3>1. CASE i = b
      BY <1>1, <2>1, <2>2, <3>1 DEF ObjectOK, Live, size
    <3>2. CASE i = o
      BY <1>1, <2>1, <3>2, EmptyObject DEF ObjectOK, Live, size
    <3>3. CASE i \notin {b, o}
      BY <1>1, <2>1, <3>3 DEF ObjectOK, Live, size
    <3> QED BY <3>1, <3>2, <3>3
  <2>4. OwnershipOK(G)'
    <3>1. \A x \in Blocks : (\E i \in Buffers : buf'[i].m_buf = x)
                            <=> (\E i \in Buffers : buf[i].m_buf = x)
      BY <2>1, <2>2, EmptyObject, ConstantTypes
    <3>2. NULL \notin G
      BY ConstantTypes DEF TypeOK
    <3>3. \A i \in Buffers : buf'[i].m_buf \notin G
      BY <2>1, <3>2, EmptyObject DEF OwnershipOK
    <3>4. \A i, j \in Buffers : i # j /\ buf'[i].m_buf = buf'[j].m_buf => buf'[i].m_buf = NULL
      BY <2>1, <2>2, EmptyObject DEF OwnershipOK
    <3> QED BY <1>1, <3>1, <3>3, <3>4 DEF OwnershipOK
  <2> QED BY <2>3, <2>4
<1>3. CASE moveAssign(b, o)
  <2>1. /\ tail[o] = NoTail /\ status[o] = "live" /\ tail[b] = NoTail /\ status[b] = "live"
        /\ buf'[b] = buf[o] /\ buf'[o] = buf[b] /\ status' = status
        /\ \A i \in Buffers \ {b, o} : buf'[i] = buf[i]
    BY <1>3 DEF moveAssign, Usable, Live, TypeOK
  <2>2. ASSUME NEW i \in Buffers PROVE ObjectOK(i)'
    <3>1. CASE i \in {b, o}
      BY <1>1, <2>1, <3>1 DEF ObjectOK, Live, size
    <3>2. CASE i \notin {b, o}
      BY <1>1, <2>1, <3>2 DEF ObjectOK, Live, size
    <3> QED BY <3>1, <3>2
  <2>3. OwnershipOK(G)'
    <3>1. \A x \in Blocks : (\E i \in Buffers : buf'[i].m_buf = x)
                            <=> (\E i \in Buffers : buf[i].m_buf = x)
      BY <2>1
    <3>2. \A i \in Buffers : buf'[i].m_buf \notin G
      BY <2>1 DEF OwnershipOK
    <3>3. \A i, j \in Buffers : i # j /\ buf'[i].m_buf = buf'[j].m_buf => buf'[i].m_buf = NULL
      BY <2>1 DEF OwnershipOK
    <3> QED BY <1>1, <3>1, <3>2, <3>3 DEF OwnershipOK
  <2> QED BY <2>2, <2>3
<1> QED BY <1>2, <1>3

LEMMA DestroyInv ==
  ASSUME NEW G \in SUBSET Blocks, HeapInv(G), TypeOK',
         NEW b \in Buffers, destroy(b)
  PROVE  HeapInv(G)'
<1> USE DEF HeapInv
<1>1. /\ buf'[b] = Empty /\ status'[b] = "none" /\ UNCHANGED <<tail, given>>
      /\ \A o \in Buffers \ {b} : buf'[o] = buf[o] /\ status'[o] = status[o]
      /\ heap' = [y \in Blocks |-> IF y = buf[b].m_buf THEN 0 ELSE heap[y]]
  BY DEF destroy, free, TypeOK
<1>2. tail[b] = NoTail
  BY DEF destroy, Usable, ObjectOK, Live
<1>3. \A o \in Buffers \ {b} : buf[o].m_buf # NULL => buf[o].m_buf # buf[b].m_buf
  BY DEF OwnershipOK
<1>4. ASSUME NEW o \in Buffers PROVE ObjectOK(o)'
  <2>1. CASE o = b
    BY <1>1, <1>2, <2>1, EmptyObject DEF ObjectOK, Live, size
  <2>2. CASE o # b
    <3>1. buf[o].m_buf # NULL => heap'[buf[o].m_buf] = heap[buf[o].m_buf]
      BY <1>1, <1>3, <2>2 DEF TypeOK
    <3> QED BY <1>1, <2>2, <3>1 DEF ObjectOK, Live, size
  <2> QED BY <2>1, <2>2
<1>5. OwnershipOK(G)'
  <2>1. ASSUME NEW x \in Blocks
        PROVE  heap'[x] # 0 <=> x \in G \/ \E o \in Buffers : buf'[o].m_buf = x
    <3>1. CASE x = buf[b].m_buf
      <4>1. x \notin G /\ \A o \in Buffers : buf'[o].m_buf # x
        BY <1>1, <1>3, <3>1, EmptyObject, ConstantTypes DEF OwnershipOK
      <4> QED BY <1>1, <3>1, <4>1
    <3>2. CASE x # buf[b].m_buf
      <4>1. (\E o \in Buffers : buf'[o].m_buf = x) <=> (\E o \in Buffers : buf[o].m_buf = x)
        BY <1>1, <3>2, EmptyObject, ConstantTypes
      <4> QED BY <1>1, <3>2, <4>1 DEF OwnershipOK
    <3> QED BY <3>1, <3>2
  <2>2. \A o \in Buffers : buf'[o].m_buf \notin G
    BY <1>1, EmptyObject, ConstantTypes DEF OwnershipOK, TypeOK
  <2>3. \A i, j \in Buffers : i # j /\ buf'[i].m_buf = buf'[j].m_buf => buf'[i].m_buf = NULL
    BY <1>1, EmptyObject DEF OwnershipOK
  <2> QED BY <2>1, <2>2, <2>3 DEF OwnershipOK
<1> QED BY <1>4, <1>5

(* What detach() does to the buffer, whoever receives the block. *)
LosesBlock(b) ==
  /\ Usable(b)
  /\ buf' = [buf EXCEPT ![b].m_buf = NULL, ![b].m_bufEnd = 0]
  /\ status' = [status EXCEPT ![b] = IF ReuseDetached THEN "live" ELSE "detached"]
  /\ UNCHANGED <<heap, mem, tail>>

LEMMA DetachInv ==
  ASSUME NEW G \in SUBSET Blocks, HeapInv(G), TypeOK', NEW H,
         ~ReuseDetached, NEW b \in Buffers, LosesBlock(b),
         H = G \cup ({buf[b].m_buf} \ {NULL})
  PROVE  HeapInv(H)'
<1> USE DEF HeapInv
<1>1. /\ buf'[b].m_buf = NULL /\ buf'[b].m_bufEnd = 0 /\ buf'[b].m_capacity = buf[b].m_capacity
      /\ status'[b] = "detached" /\ tail[b] = NoTail /\ UNCHANGED <<heap, tail>>
      /\ \A o \in Buffers \ {b} : buf'[o] = buf[o] /\ status'[o] = status[o]
  BY DEF LosesBlock, Usable, TypeOK
<1>2. ASSUME NEW o \in Buffers PROVE ObjectOK(o)'
  <2>1. CASE o = b
    BY <1>1, <2>1 DEF ObjectOK, Live, size
  <2>2. CASE o # b
    BY <1>1, <2>2 DEF ObjectOK, Live, size
  <2> QED BY <2>1, <2>2
<1>3. OwnershipOK(H)'
  <2>1. ASSUME NEW x \in Blocks
        PROVE  heap'[x] # 0 <=> x \in H \/ \E o \in Buffers : buf'[o].m_buf = x
    <3>1. CASE x = buf[b].m_buf
      BY <1>1, <3>1, ConstantTypes DEF OwnershipOK
    <3>2. CASE x # buf[b].m_buf
      <4>1. (\E o \in Buffers : buf'[o].m_buf = x) <=> (\E o \in Buffers : buf[o].m_buf = x)
        BY <1>1, <3>2, ConstantTypes
      <4> QED BY <1>1, <3>2, <4>1 DEF OwnershipOK
    <3> QED BY <3>1, <3>2
  <2>2. \A o \in Buffers : buf'[o].m_buf \notin H
    BY <1>1, ConstantTypes DEF OwnershipOK, TypeOK
  <2>3. \A i, j \in Buffers : i # j /\ buf'[i].m_buf = buf'[j].m_buf => buf'[i].m_buf = NULL
    BY <1>1 DEF OwnershipOK
  <2> QED BY <2>1, <2>2, <2>3 DEF OwnershipOK
<1> QED BY <1>2, <1>3

LEMMA FreeGivenInv ==
  ASSUME NEW G \in SUBSET Blocks, HeapInv(G), TypeOK', NEW H, NEW x \in G,
         free(x), UNCHANGED <<status, buf, tail>>, H = G \ {x}
  PROVE  HeapInv(H)'
<1> USE DEF HeapInv
<1>1. heap' = [y \in Blocks |-> IF y = x THEN 0 ELSE heap[y]]
  BY DEF free
<1>2. \A o \in Buffers : buf[o].m_buf # x
  BY DEF OwnershipOK
<1>3. ASSUME NEW o \in Buffers PROVE ObjectOK(o)'
  <2>1. buf[o].m_buf # NULL => heap'[buf[o].m_buf] = heap[buf[o].m_buf]
    BY <1>1, <1>2 DEF TypeOK
  <2> QED BY <1>1, <2>1 DEF ObjectOK, Live, size
<1>4. OwnershipOK(H)'
  BY <1>1, <1>2 DEF OwnershipOK
<1> QED BY <1>3, <1>4

(* The steps that hand no block to the caller and free none of the caller. *)
LEMMA StepAmongBuffers ==
  ASSUME AllocatorBound, NEW G \in SUBSET Blocks, HeapInv(G), [Next]_vars,
         ~ (\E b \in Buffers : detach(b)), ~ (\E x \in given : freeGiven(x))
  PROVE  HeapInv(G)'
<1> USE DEF HeapInv
<1>0. TypeOK'
  BY TypeStep
<1>1. CASE UNCHANGED vars
  BY <1>0, <1>1 DEF vars, bufVars, ObjectOK, OwnershipOK, Live, size
<1>2. ASSUME NEW b \in Buffers, construct(b) PROVE HeapInv(G)'
  <2>1. /\ buf'[b] = Empty /\ status'[b] = "live" /\ UNCHANGED <<heap, tail, given>>
        /\ \A o \in Buffers \ {b} : buf'[o] = buf[o] /\ status'[o] = status[o]
        /\ buf[b].m_buf = NULL /\ tail[b] = NoTail
    BY <1>2 DEF construct, ObjectOK, Live, TypeOK
  <2>2. ASSUME NEW o \in Buffers PROVE ObjectOK(o)'
    <3>1. CASE o = b
      BY <2>1, <3>1, EmptyObject DEF ObjectOK, Live, size
    <3>2. CASE o # b
      BY <2>1, <3>2 DEF ObjectOK, Live, size
    <3> QED BY <3>1, <3>2
  <2>3. \A o \in Buffers : buf'[o].m_buf = buf[o].m_buf
    BY <2>1, EmptyObject
  <2>4. OwnershipOK(G)'
    BY <2>1, <2>3 DEF OwnershipOK
  <2> QED BY <1>0, <2>2, <2>4
<1>3. ASSUME NEW b \in Buffers, NEW n \in Requests, constructWithCapacity(b, n) PROVE HeapInv(G)'
  BY <1>0, <1>3, ConstructWithCapacityInv
<1>4. ASSUME NEW b \in Buffers, NEW o \in Buffers, moveConstruct(b, o) \/ moveAssign(b, o)
      PROVE  HeapInv(G)'
  BY <1>0, <1>4, MoveInv
<1>5. ASSUME NEW b \in Buffers, destroy(b) PROVE HeapInv(G)'
  BY <1>0, <1>5, DestroyInv
<1>6. ASSUME NEW b \in Buffers, NEW n \in Requests, reserve(b, n) PROVE HeapInv(G)'
  <2>1. CASE UNCHANGED <<heap, mem, status, buf, tail, given>>
    BY <1>0, <2>1 DEF ObjectOK, OwnershipOK, Live, size
  <2>2. CASE /\ buf[b].m_capacity < n
             /\ nextStorageSize(n) # BadAlloc
             /\ Regrow(b, nextStorageSize(n))
    <3>1. buf[b].m_capacity \in Nat /\ n \in 1..SizeMax
      BY <2>2, ConstantTypes DEF TypeOK
    <3>2. /\ nextStorageSize(n) \in (n + 1)..maxStorageSize
          /\ AllocMode = "pow2" => nextStorageSize(n) \in Powers \cup {maxStorageSize}
      BY <2>2, <3>1, NextStorageSize
    <3>3. nextStorageSize(n) \in 1..maxStorageSize /\ nextStorageSize(n) > buf[b].m_capacity
      BY <2>2, <3>1, <3>2, ConstantTypes
    <3>4. Usable(b)
      BY <1>6 DEF reserve
    <3> QED BY <1>0, <2>2, <3>2, <3>3, <3>4, RegrowInv
  <2> QED BY <1>6, <2>1, <2>2 DEF reserve, NeedsStorage, Throws
<1>7. ASSUME NEW b \in Buffers, reserveForOne(b) PROVE HeapInv(G)'
  <2>1. CASE UNCHANGED <<heap, mem, status, buf, tail, given>>
    BY <1>0, <2>1 DEF ObjectOK, OwnershipOK, Live, size
  <2>2. CASE /\ buf[b].m_capacity # maxCapacity
             /\ Regrow(b, Wrap(nextCapacity(buf[b].m_capacity) + 1))
    <3> DEFINE c == buf[b].m_capacity
    <3>1. c \in 0..maxCapacity
      BY ConstantTypes DEF TypeOK, ObjectOK
    <3>2. Usable(b)
      BY <1>7 DEF reserveForOne
    <3>3. c = 0 \/ (c + 1) * CharSize <= MaxAlloc
      BY <3>2, ConstantTypes DEF ObjectOK, Usable, TypeOK
    <3>4. AllocMode = "pow2" => c + 1 \in Powers \cup {maxStorageSize}
      BY DEF ObjectOK
    <3>5. /\ nextCapacity(c) \in (c + 1)..maxCapacity
          /\ Wrap(nextCapacity(c) + 1) = nextCapacity(c) + 1
          /\ AllocMode = "pow2" => nextCapacity(c) + 1 \in Powers \cup {maxStorageSize}
      BY <2>2, <3>1, <3>3, <3>4, NextCapacity
    <3>6. nextCapacity(c) + 1 \in 1..maxStorageSize /\ nextCapacity(c) + 1 > c
      BY <3>1, <3>5, ConstantTypes
    <3> QED BY <1>0, <2>2, <3>2, <3>5, <3>6, RegrowInv
  <2> QED BY <1>7, <2>1, <2>2 DEF reserveForOne, Throws
<1>8. ASSUME NEW b \in Buffers, NEW s, Len(s) \in Nat, append(b, s) PROVE HeapInv(G)'
  <2>1. /\ buf'[b].m_buf = buf[b].m_buf /\ buf'[b].m_capacity = buf[b].m_capacity
        /\ buf'[b].m_bufEnd = size(b) + Len(s) /\ tail'[b] = NoTail
        /\ \A o \in Buffers \ {b} : buf'[o] = buf[o] /\ tail'[o] = tail[o]
        /\ UNCHANGED <<heap, status, given>> /\ buf[b].m_buf # NULL
    BY <1>8 DEF append, Usable, size, TypeOK
  <2>2. size(b) + Len(s) <= buf[b].m_capacity
    BY <1>8, ConstantTypes DEF append, Room, size, TypeOK
  <2> QED BY <1>0, <2>1, <2>2, QuietInv
<1>9. ASSUME NEW b \in Buffers, NEW s \in Inputs, append(b, s) PROVE HeapInv(G)'
  <2>1. Len(s) \in Nat
    BY BufferAssumption
  <2> QED BY <1>8, <1>9, <2>1
<1>10. ASSUME NEW b \in Buffers,
              NEW from \in 0..buf[b].m_capacity, NEW n \in 0..buf[b].m_capacity,
              appendOwn(b, from, n)
       PROVE  HeapInv(G)'
  <2>1. n \in Nat
    BY ConstantTypes DEF TypeOK
  <2>2. Len(Own(b, from, n)) \in Nat
    BY <2>1 DEF Own
  <2> QED BY <1>8, <1>10, <2>2 DEF appendOwn
<1>11. ASSUME NEW b \in Buffers, NEW n \in 0..buf[b].m_capacity, resize(b, n) PROVE HeapInv(G)'
  <2>1. /\ buf'[b].m_buf = buf[b].m_buf /\ buf'[b].m_capacity = buf[b].m_capacity
        /\ buf'[b].m_bufEnd = n /\ tail'[b] = NoTail
        /\ \A o \in Buffers \ {b} : buf'[o] = buf[o] /\ tail'[o] = tail[o]
        /\ UNCHANGED <<heap, status, given>> /\ n <= buf[b].m_capacity
        /\ buf[b].m_buf = NULL => n = 0
    BY <1>11 DEF resize, Usable, TypeOK
  <2> QED BY <1>0, <2>1, QuietInv
<1>12. ASSUME NEW b \in Buffers, clear(b) PROVE HeapInv(G)'
  <2>1. /\ buf'[b].m_buf = buf[b].m_buf /\ buf'[b].m_capacity = buf[b].m_capacity
        /\ buf'[b].m_bufEnd = 0 /\ tail'[b] = NoTail
        /\ \A o \in Buffers \ {b} : buf'[o] = buf[o] /\ tail'[o] = tail[o]
        /\ UNCHANGED <<heap, status, given>> /\ 0 <= buf[b].m_capacity
    BY <1>12, ConstantTypes DEF clear, Usable, TypeOK
  <2> QED BY <1>0, <2>1, QuietInv
<1>13. ASSUME NEW b \in Buffers, c_str(b) PROVE HeapInv(G)'
  BY <1>0, <1>13 DEF c_str, ObjectOK, OwnershipOK, Live, size
<1>14. ASSUME NEW b \in Buffers, borrowTail(b) PROVE HeapInv(G)'
  <2>1. /\ UNCHANGED <<heap, status, given, buf>> /\ tail'[b] = buf[b].m_bufEnd
        /\ \A o \in Buffers \ {b} : buf'[o] = buf[o] /\ tail'[o] = tail[o]
        /\ buf[b].m_buf # NULL
    BY <1>14 DEF borrowTail, size, TypeOK
  <2>2. buf[b].m_bufEnd <= buf[b].m_capacity /\ buf[b].m_bufEnd \in Nat /\ buf[b].m_capacity \in Nat
    BY <2>1, ConstantTypes DEF ObjectOK, size, TypeOK
  <2> QED BY <1>0, <2>1, <2>2, QuietInv
<1>15. ASSUME NEW b \in Buffers, NEW c \in Chars, writeTail(b, c) PROVE HeapInv(G)'
  <2>1. /\ UNCHANGED <<heap, status, given, buf>> /\ tail'[b] = tail[b] + 1
        /\ tail[b] < buf[b].m_capacity /\ tail[b] # NoTail
        /\ \A o \in Buffers \ {b} : buf'[o] = buf[o] /\ tail'[o] = tail[o]
    BY <1>15 DEF writeTail, TypeOK
  <2>2. /\ buf[b].m_buf # NULL /\ size(b) <= buf[b].m_capacity
        /\ tail[b] \in size(b)..buf[b].m_capacity
    BY <2>1 DEF ObjectOK
  <2>3. buf[b].m_bufEnd \in Nat /\ buf[b].m_capacity \in Nat
    BY ConstantTypes DEF TypeOK
  <2>4. tail'[b] \in buf[b].m_bufEnd..buf[b].m_capacity
    BY <2>1, <2>2, <2>3 DEF size
  <2> QED BY <1>0, <2>1, <2>2, <2>4, QuietInv DEF size
<1>16. ASSUME NEW b \in Buffers, NEW drop \in 0..1, returnTail(b, drop) PROVE HeapInv(G)'
  <2>1. /\ buf'[b].m_buf = buf[b].m_buf /\ buf'[b].m_capacity = buf[b].m_capacity
        /\ buf'[b].m_bufEnd = tail[b] - drop /\ tail'[b] = NoTail
        /\ \A o \in Buffers \ {b} : buf'[o] = buf[o] /\ tail'[o] = tail[o]
        /\ UNCHANGED <<heap, status, given>> /\ tail[b] # NoTail
    BY <1>16 DEF returnTail, TypeOK
  <2>2. buf[b].m_buf # NULL /\ tail[b] \in size(b)..buf[b].m_capacity
    BY <2>1 DEF ObjectOK
  <2>3. tail[b] - drop <= buf[b].m_capacity
    BY <2>2, ConstantTypes DEF TypeOK, size
  <2> QED BY <1>0, <2>1, <2>2, <2>3, QuietInv
<1> QED
  BY <1>1, <1>2, <1>3, <1>4, <1>5, <1>6, <1>7, <1>9, <1>10, <1>11, <1>12, <1>13,
     <1>14, <1>15, <1>16 DEF Next

(* Blocks of others than buffers are those of the caller and, where there  *)
(* are other classes, theirs, which stay.                                  *)
LEMMA InvStep ==
  ASSUME AllocatorBound, ~ReuseDetached,
         NEW G \in SUBSET Blocks, given \subseteq G, HeapInv(G), [Next]_vars,
         NEW H, H = (G \ given) \cup given'
  PROVE  HeapInv(H)'
<1>1. TypeOK'
  BY TypeStep DEF HeapInv
<1>2. ASSUME NEW b \in Buffers, detach(b) PROVE HeapInv(H)'
  <2>1. H = G \cup ({buf[b].m_buf} \ {NULL})
    BY <1>2 DEF detach
  <2>2. LosesBlock(b)
    BY <1>2 DEF detach, LosesBlock
  <2>3. QED
    BY <1>1, <2>1, <2>2, DetachInv
<1>3. ASSUME NEW x \in given, freeGiven(x) PROVE HeapInv(H)'
  <2>1. H = G \ {x}
    BY <1>3 DEF freeGiven
  <2>2. QED
    BY <1>1, <1>3, <2>1, FreeGivenInv DEF freeGiven
<1>4. ASSUME ~ (\E b \in Buffers : detach(b)), ~ (\E x \in given : freeGiven(x))
      PROVE  HeapInv(H)'
  <2>1. UNCHANGED given
    BY <1>4 DEF Next, vars, bufVars, construct, constructWithCapacity, moveConstruct, moveAssign,
                destroy, reserve, reserveForOne, Regrow, Throws, append, appendOwn, resize,
                clear, c_str, borrowTail, writeTail, returnTail
  <2>2. H = G
    BY <2>1
  <2>3. QED
    BY <1>4, <2>2, StepAmongBuffers
<1>5. QED
  BY <1>2, <1>3, <1>4

LEMMA Invariance == ASSUME AllocatorBound, ~ReuseDetached PROVE Spec => []IInv
<1>1. ASSUME IInv, [Next]_vars PROVE IInv'
  <2>1. given \in SUBSET Blocks
    BY <1>1 DEF IInv, HeapInv, TypeOK
  <2>2. SUFFICES ASSUME NEW H, H = given' PROVE HeapInv(H)'
    BY DEF IInv, HeapInv, OwnershipOK
  <2>3. QED
    BY <1>1, <2>1, <2>2, InvStep DEF IInv
<1> QED BY <1>1, InitInv, PTL DEF Spec

(* A call that throws leaves everything as it was: the request of a growth *)
(* is never 0 bytes, the one request by which realloc would free the block *)
(* it cannot replace.                                                      *)
LEMMA FailureStep ==
  ASSUME AllocatorBound, NEW G, HeapInv(G), [Next]_vars, exc' # "none"
  PROVE  UNCHANGED <<heap, mem, status, buf, tail, given>>
<1> DEFINE Kept == UNCHANGED <<heap, mem, status, buf, tail, given>>
           Failed == exc' # "none" => Kept
<1>1. ASSUME NEW b \in Buffers, NEW s \in 1..maxStorageSize, Regrow(b, s)
      PROVE  Failed
  <2>1. Wrap(s * CharSize) # 0
    BY Bytes, ConstantTypes
  <2> QED BY <1>1, <2>1 DEF Regrow, reallocFails, Throws
<1>2. Failed
  <2> USE DEF HeapInv
  <2>1. ASSUME NEW b \in Buffers, NEW n \in Requests, reserve(b, n) PROVE Failed
    <3>1. CASE /\ buf[b].m_capacity < n
               /\ nextStorageSize(n) # BadAlloc
               /\ Regrow(b, nextStorageSize(n))
      <4>1. n \in 1..SizeMax
        BY <3>1, ConstantTypes DEF TypeOK
      <4>2. nextStorageSize(n) \in (n + 1)..maxStorageSize
        BY <3>1, <4>1, NextStorageSize
      <4>3. nextStorageSize(n) \in 1..maxStorageSize
        BY <4>1, <4>2, ConstantTypes
      <4> QED BY <1>1, <3>1, <4>3
    <3> QED BY <2>1, <3>1 DEF reserve, NeedsStorage, Throws
  <2>2. ASSUME NEW b \in Buffers, reserveForOne(b) PROVE Failed
    <3>1. CASE /\ buf[b].m_capacity # maxCapacity
               /\ Regrow(b, Wrap(nextCapacity(buf[b].m_capacity) + 1))
      <4> DEFINE c == buf[b].m_capacity
      <4>1. c \in 0..maxCapacity /\ Usable(b)
        BY <2>2, ConstantTypes DEF TypeOK, ObjectOK, reserveForOne
      <4>2. c = 0 \/ (c + 1) * CharSize <= MaxAlloc
        BY <4>1, ConstantTypes DEF ObjectOK, Usable, TypeOK
      <4>3. AllocMode = "pow2" => c + 1 \in Powers \cup {maxStorageSize}
        BY DEF ObjectOK
      <4>4. /\ nextCapacity(c) \in (c + 1)..maxCapacity
            /\ Wrap(nextCapacity(c) + 1) = nextCapacity(c) + 1
        BY <3>1, <4>1, <4>2, <4>3, NextCapacity
      <4>5. nextCapacity(c) + 1 \in 1..maxStorageSize
        BY <4>1, <4>4, ConstantTypes
      <4> QED BY <1>1, <3>1, <4>4, <4>5
    <3> QED BY <2>2, <3>1 DEF reserveForOne, Throws
  <2>3. ASSUME NEW b \in Buffers, NEW n \in Requests, constructWithCapacity(b, n)
        PROVE  Failed
    BY <2>3 DEF constructWithCapacity, Throws
  <2>4. CASE UNCHANGED vars
    BY <2>4 DEF vars, bufVars
  <2>5. ASSUME Next,
               ~ \E b \in Buffers : \/ reserveForOne(b)
                                    \/ \E n \in Requests : \/ reserve(b, n)
                                                           \/ constructWithCapacity(b, n)
        PROVE  exc' = "none"
    BY <2>5 DEF Next, construct, moveConstruct, moveAssign, destroy, append, appendOwn,
                resize, clear, c_str, detach, borrowTail, writeTail, returnTail, freeGiven
  <2> QED BY <2>1, <2>2, <2>3, <2>4, <2>5
<1>3. QED
  BY <1>2

(* The block of a live buffer is replaced by a growth, which asks for more *)
(* than the capacity, or by a move, whose other object receives it.        *)
Stays(b) ==
  /\ Live(b) /\ status'[b] = "live"
  /\ buf[b].m_buf \notin {NULL, buf'[b].m_buf}
  => \/ buf'[b].m_capacity > buf[b].m_capacity
     \/ \E o \in Buffers \ {b} : buf'[o].m_buf = buf[b].m_buf

LEMMA RegrowStays ==
  ASSUME TypeOK, NEW b \in Buffers, NEW s \in Nat, buf[b].m_capacity + 1 < s, Regrow(b, s)
  PROVE  \A o \in Buffers : Stays(o)
<1>1. CASE UNCHANGED buf
  BY <1>1 DEF Stays
<1>2. CASE \E x \in Blocks : buf' = [buf EXCEPT ![b].m_buf = x, ![b].m_capacity = capacityOf(s)]
  <2>1. PICK x \in Blocks : buf' = [buf EXCEPT ![b].m_buf = x, ![b].m_capacity = capacityOf(s)]
    BY <1>2
  <2>2. \A o \in Buffers : o # b => buf'[o] = buf[o]
    BY <2>1 DEF TypeOK
  <2>3. buf'[b].m_capacity = s - 1
    BY <2>1 DEF TypeOK, capacityOf
  <2>4. buf[b].m_capacity \in Nat
    BY ConstantTypes DEF TypeOK
  <2>5. buf'[b].m_capacity > buf[b].m_capacity
    BY <2>3, <2>4
  <2> QED BY <2>2, <2>5 DEF Stays
<1> QED BY <1>1, <1>2 DEF Regrow, Throws

LEMMA StorageStep ==
  ASSUME AllocatorBound, ~ReuseDetached, NEW G, HeapInv(G), [Next]_vars
  PROVE  \A b \in Buffers : Stays(b)
<1> DEFINE Kept == \A b \in Buffers : Stays(b)
<1> USE DEF HeapInv
<1>1. ASSUME \A b \in Buffers : Live(b) /\ status'[b] = "live" => buf'[b].m_buf = buf[b].m_buf
      PROVE  Kept
  BY <1>1 DEF Stays
<1>2. ASSUME UNCHANGED buf PROVE Kept
  BY <1>1, <1>2
<1>3. ASSUME NEW b \in Buffers, NEW n \in Requests, reserve(b, n) PROVE Kept
  <2>1. CASE /\ NeedsStorage(b, n)
             /\ nextStorageSize(n) # BadAlloc
             /\ Regrow(b, nextStorageSize(n))
    <3>1. buf[b].m_capacity \in Nat /\ n \in 1..SizeMax /\ buf[b].m_capacity < n
      BY <2>1, ConstantTypes DEF TypeOK, NeedsStorage
    <3>2. nextStorageSize(n) \in (n + 1)..maxStorageSize
      BY <2>1, <3>1, NextStorageSize
    <3>3. nextStorageSize(n) \in Nat /\ buf[b].m_capacity + 1 < nextStorageSize(n)
      BY <3>1, <3>2, ConstantTypes
    <3> QED BY <2>1, <3>3, RegrowStays
  <2> QED BY <1>2, <1>3, <2>1 DEF reserve, Throws
<1>4. ASSUME NEW b \in Buffers, reserveForOne(b) PROVE Kept
  <2>1. CASE /\ buf[b].m_capacity # maxCapacity
             /\ Regrow(b, Wrap(nextCapacity(buf[b].m_capacity) + 1))
    <3> DEFINE c == buf[b].m_capacity
    <3>1. c \in 0..maxCapacity /\ Usable(b)
      BY <1>4, ConstantTypes DEF TypeOK, ObjectOK, reserveForOne
    <3>2. c = 0 \/ (c + 1) * CharSize <= MaxAlloc
      BY <3>1, ConstantTypes DEF ObjectOK, Usable, TypeOK
    <3>3. AllocMode = "pow2" => c + 1 \in Powers \cup {maxStorageSize}
      BY DEF ObjectOK
    <3>4. /\ nextCapacity(c) \in (c + 1)..maxCapacity
          /\ Wrap(nextCapacity(c) + 1) = nextCapacity(c) + 1
      BY <2>1, <3>1, <3>2, <3>3, NextCapacity
    <3>5. nextCapacity(c) + 1 \in Nat /\ c + 1 < nextCapacity(c) + 1
      BY <3>1, <3>4, ConstantTypes
    <3> QED BY <2>1, <3>4, <3>5, RegrowStays
  <2> QED BY <1>2, <1>4, <2>1 DEF reserveForOne, Throws
<1>5. ASSUME NEW b \in Buffers, NEW o \in Buffers, moveAssign(b, o) PROVE Kept
  <2>1. CASE b = o
    <3>1. buf' = buf
      BY <1>5, <2>1 DEF moveAssign, TypeOK
    <3> QED BY <3>1, <1>2
  <2>2. CASE b # o
    <3>1. buf'[b] = buf[o] /\ buf'[o] = buf[b] /\ \A z \in Buffers \ {b, o} : buf'[z] = buf[z]
      BY <1>5, <2>2 DEF moveAssign, TypeOK
    <3> QED BY <2>2, <3>1 DEF Stays
  <2> QED BY <2>1, <2>2
<1>6. ASSUME NEW b \in Buffers, NEW o \in Buffers, moveConstruct(b, o) PROVE Kept
  <2>1. b # o /\ ~Live(b)
    BY <1>6 DEF moveConstruct, Usable, Live
  <2>2. buf'[b] = buf[o] /\ \A z \in Buffers \ {b, o} : buf'[z] = buf[z]
    BY <1>6, <2>1 DEF moveConstruct, TypeOK
  <2> QED BY <2>1, <2>2 DEF Stays
<1>7. ASSUME NEW b \in Buffers,
             \/ construct(b)
             \/ \E n \in Requests : constructWithCapacity(b, n)
      PROVE  Kept
  <2>1. ~Live(b) /\ \A z \in Buffers \ {b} : buf'[z] = buf[z]
    BY <1>7 DEF construct, constructWithCapacity, Throws, Live, TypeOK
  <2> QED BY <1>1, <2>1
<1>8. ASSUME NEW b \in Buffers, destroy(b) \/ detach(b) PROVE Kept
  <2>1. status'[b] # "live" /\ \A z \in Buffers \ {b} : buf'[z] = buf[z]
    BY <1>8 DEF destroy, detach, TypeOK
  <2> QED BY <1>1, <2>1
<1>9. ASSUME NEW b \in Buffers, NEW k, buf' = [buf EXCEPT ![b].m_bufEnd = k]
      PROVE  Kept
  <2>1. \A z \in Buffers : buf'[z].m_buf = buf[z].m_buf
    BY <1>9 DEF TypeOK
  <2> QED BY <1>1, <2>1
<1>10. ASSUME NEW b \in Buffers, NEW s, append(b, s) PROVE Kept
  <2>1. buf' = [buf EXCEPT ![b].m_bufEnd = buf[b].m_bufEnd + Len(s)]
    BY <1>10 DEF append, TypeOK
  <2> QED BY <1>9, <2>1
<1>11. ASSUME NEW b \in Buffers,
              \/ clear(b)
              \/ \E n \in 0..buf[b].m_capacity : resize(b, n)
              \/ \E drop \in 0..1 : returnTail(b, drop)
       PROVE  Kept
  BY <1>9, <1>11 DEF clear, resize, returnTail
<1>12. ASSUME \/ UNCHANGED vars
              \/ \E x \in given : freeGiven(x)
              \/ \E b \in Buffers : \/ c_str(b) \/ borrowTail(b)
                                    \/ \E c \in Chars : writeTail(b, c)
       PROVE  Kept
  BY <1>2, <1>12 DEF vars, bufVars, freeGiven, c_str, borrowTail, writeTail
<1> HIDE DEF Kept
<1>13. QED
  <2>1. Kept
    BY <1>3, <1>4, <1>5, <1>6, <1>7, <1>8, <1>10, <1>11, <1>12 DEF Next, appendOwn
  <2> QED BY <2>1 DEF Kept

(***************************************************************************)
(* The theorems.                                                           *)
(***************************************************************************)

(* No member function, and no writer through a Tail that keeps to the      *)
(* capacity, touches memory outside the block, for every word size,        *)
(* character size and allocation mode.                                     *)
THEOREM StorageFitsAlways ==
  ASSUME AllocatorBound, ~ReuseDetached PROVE Spec => []StorageFits
<1>1. IInv => StorageFits
  BY ConstantTypes DEF IInv, HeapInv, ObjectOK, StorageFits, TypeOK, HeapTypeOK
<1> QED BY <1>1, Invariance, PTL

(* No block leaks, is freed twice, or is referred to after it was freed.   *)
THEOREM BlocksOwnedOnceAlways ==
  ASSUME AllocatorBound, ~ReuseDetached PROVE Spec => []BlocksOwnedOnce
<1>1. ASSUME IInv PROVE BlocksOwnedOnce
  <2>1. \A b \in Buffers : Owned(b) = {buf[b].m_buf} \ {NULL} /\ Owned(b) \subseteq Blocks
    BY <1>1 DEF IInv, HeapInv, Owned, TypeOK
  <2>2. ASSUME NEW x PROVE x \in Allocated <=> x \in given \cup UNION {Owned(b) : b \in Buffers}
    <3>1. x \in UNION {Owned(b) : b \in Buffers} <=> x # NULL /\ \E b \in Buffers : buf[b].m_buf = x
      BY <2>1
    <3> QED BY <1>1, <2>1, <3>1, ConstantTypes DEF IInv, HeapInv, OwnershipOK, Allocated, TypeOK
  <2>3. \A b \in Buffers : Owned(b) \cap given = {}
    BY <1>1 DEF IInv, HeapInv, OwnershipOK, Owned
  <2>4. \A b, o \in Buffers : b # o => Owned(b) \cap Owned(o) = {}
    BY <1>1 DEF IInv, HeapInv, OwnershipOK, Owned
  <2> QED BY <2>2, <2>3, <2>4 DEF BlocksOwnedOnce
<1>2. IInv => BlocksOwnedOnce
  BY <1>1
<1> QED BY <1>2, Invariance, PTL

(* Doubling the capacity in expand() never overflows and never exceeds the *)
(* limit, as the comment there says, with the hypothesis the comment does  *)
(* not state.                                                              *)
THEOREM NeverOverflowsAlways ==
  ASSUME AllocatorBound, ~ReuseDetached PROVE Spec => []NeverOverflows
<1>1. ASSUME IInv, NEW b \in Buffers, Live(b), buf[b].m_capacity # maxCapacity
      PROVE  nextCapacity(buf[b].m_capacity) \in (buf[b].m_capacity + 1)..maxCapacity
  <2> DEFINE c == buf[b].m_capacity
  <2>1. c \in 0..maxCapacity
    BY <1>1, ConstantTypes DEF IInv, HeapInv, TypeOK, ObjectOK
  <2>2. c = 0 \/ (c + 1) * CharSize <= MaxAlloc
    BY <1>1, ConstantTypes DEF IInv, HeapInv, ObjectOK, TypeOK
  <2>3. AllocMode = "pow2" => c + 1 \in Powers \cup {maxStorageSize}
    BY <1>1 DEF IInv, HeapInv, ObjectOK
  <2> QED BY <1>1, <2>1, <2>2, <2>3, NextCapacity
<1>2. IInv => NeverOverflows
  BY <1>1 DEF NeverOverflows
<1> QED BY <1>2, Invariance, PTL

(* Storage sizes are powers of two up to the one cut to the limit.         *)
THEOREM StorageSizesAlways ==
  ASSUME AllocatorBound, ~ReuseDetached PROVE Spec => []StorageSizes
<1>1. IInv => StorageSizes
  BY DEF IInv, HeapInv, ObjectOK, StorageSizes
<1> QED BY <1>1, Invariance, PTL

(* What reserve() promises by its capacity, append() can rely on: its      *)
(* assert(m_buf != nullptr) holds for every caller that has room.          *)
THEOREM AppendAssertionAlways ==
  ASSUME AllocatorBound, ~ReuseDetached PROVE Spec => []AppendAssertion
<1>1. IInv => AppendAssertion
  BY ConstantTypes DEF IInv, HeapInv, ObjectOK, AppendAssertion, Room, TypeOK, size
<1> QED BY <1>1, Invariance, PTL

(* A failed call leaves every object and every character as it was, which  *)
(* is what the class promises of reserve() and of every call that throws.  *)
THEOREM FailureLeavesAllAlways ==
  ASSUME AllocatorBound, ~ReuseDetached PROVE Spec => FailureLeavesAll
<1> DEFINE Failed == exc' # "none" => UNCHANGED <<heap, mem, status, buf, tail, given>>
<1>1. IInv /\ [Next]_vars => [Failed]_vars
  BY FailureStep DEF IInv
<1>2. QED
  BY <1>1, Invariance, PTL DEF Spec, FailureLeavesAll

(* The storage of a live buffer is replaced only when its capacity grows   *)
(* or when another object receives the old block, so that data() and a     *)
(* pointer into the text stay valid within the capacity that was reserved. *)
THEOREM StorageStaysAlways ==
  ASSUME AllocatorBound, ~ReuseDetached PROVE Spec => StorageStays
<1>1. IInv /\ [Next]_vars => [\A b \in Buffers : Stays(b)]_vars
  BY StorageStep DEF IInv
<1>2. QED
  BY <1>1, Invariance, PTL DEF Spec, StorageStays, Stays

(***************************************************************************)
(* The refinement of TextBuilder.                                          *)
(***************************************************************************)
(* The variables of the abstract builder. *)
absOpen == {b \in Buffers : Live(b)}
absLent == {b \in Buffers : tail[b] # NoTail}
absText == [b \in Buffers |-> Text(b)]
absPending == [b \in Buffers |-> Pending(b)]
absCap == [b \in Buffers |-> IF Live(b) THEN buf[b].m_capacity ELSE 0]
absVars == <<absOpen, absLent, absText, absPending, absCap>>

(* n characters of a block, from index at. *)
Slice(f, at, n) == [i \in 1..n |-> f[at + i - 1]]

LEMMA SliceIs ==
  ASSUME NEW f, NEW at \in Nat, NEW n \in Nat, \A k \in at..(at + n - 1) : f[k] \in Cells
  PROVE  /\ Slice(f, at, n) \in Seq(Cells)
         /\ Len(Slice(f, at, n)) = n
         /\ \A i \in 1..n : Slice(f, at, n)[i] = f[at + i - 1]
<1>1. \A i \in 1..n : f[at + i - 1] \in Cells
  OBVIOUS
<1>2. QED
  BY <1>1 DEF Slice

(* Slices with the same characters are equal. *)
LEMMA SliceSame ==
  ASSUME NEW f, NEW g, NEW at \in Nat, NEW n \in Nat, \A k \in at..(at + n - 1) : g[k] = f[k]
  PROVE  Slice(g, at, n) = Slice(f, at, n)
<1>1. \A i \in 1..n : g[at + i - 1] = f[at + i - 1]
  OBVIOUS
<1>2. QED
  BY <1>1 DEF Slice

(* Adjacent slices, and a slice of a slice. *)
LEMMA SliceJoin ==
  ASSUME NEW f, NEW at \in Nat, NEW m \in Nat, NEW n \in Nat,
         \A k \in at..(at + m + n - 1) : f[k] \in Cells
  PROVE  Slice(f, at, m + n) = Slice(f, at, m) \o Slice(f, at + m, n)
<1>0. /\ \A k \in at..(at + m - 1) : f[k] \in Cells
      /\ \A k \in (at + m)..(at + m + n - 1) : f[k] \in Cells
  OBVIOUS
<1>1. /\ Slice(f, at, m) \in Seq(Cells) /\ Len(Slice(f, at, m)) = m
      /\ \A i \in 1..m : Slice(f, at, m)[i] = f[at + i - 1]
  BY <1>0, SliceIs
<1>2. /\ Slice(f, at + m, n) \in Seq(Cells) /\ Len(Slice(f, at + m, n)) = n
      /\ \A i \in 1..n : Slice(f, at + m, n)[i] = f[at + m + i - 1]
  <2>1. at + m \in Nat
    OBVIOUS
  <2>2. QED
    BY <1>0, <2>1, SliceIs
<1>3. /\ Slice(f, at, m + n) \in Seq(Cells) /\ Len(Slice(f, at, m + n)) = m + n
      /\ \A i \in 1..(m + n) : Slice(f, at, m + n)[i] = f[at + i - 1]
  <2>1. m + n \in Nat /\ \A k \in at..(at + (m + n) - 1) : f[k] \in Cells
    OBVIOUS
  <2>2. QED
    BY <2>1, SliceIs
<1> DEFINE s == Slice(f, at, m)
           t == Slice(f, at + m, n)
           u == Slice(f, at, m + n)
<1> HIDE DEF s, t, u
<1>4. /\ s \o t \in Seq(Cells) /\ Len(s \o t) = m + n
      /\ \A i \in 1..(m + n) : (s \o t)[i] = IF i <= m THEN s[i] ELSE t[i - m]
  <2>1. s \in Seq(Cells) /\ t \in Seq(Cells) /\ Len(s) = m /\ Len(t) = n
    BY <1>1, <1>2 DEF s, t
  <2>2. /\ s \o t \in Seq(Cells) /\ Len(s \o t) = Len(s) + Len(t)
        /\ \A i \in 1..Len(s) + Len(t) : (s \o t)[i] = IF i <= Len(s) THEN s[i] ELSE t[i - Len(s)]
    BY <2>1, ConcatProperties
  <2>3. QED
    BY <2>1, <2>2
<1>5. \A i \in 1..(m + n) : (s \o t)[i] = f[at + i - 1]
  <2> SUFFICES ASSUME NEW i \in 1..(m + n) PROVE (s \o t)[i] = f[at + i - 1]
    OBVIOUS
  <2>1. CASE i <= m
    BY <1>1, <1>4, <2>1 DEF s
  <2>2. CASE ~(i <= m)
    <3>1. i - m \in 1..n /\ at + m + (i - m) - 1 = at + i - 1
      BY <2>2
    <3>2. t[i - m] = f[at + m + (i - m) - 1]
      BY <1>2, <3>1 DEF t
    <3>3. QED
      BY <1>4, <2>2, <3>1, <3>2
  <2>3. QED
    BY <2>1, <2>2
<1>6. u = s \o t
  <2>1. /\ u \in Seq(Cells) /\ Len(u) = m + n
        /\ \A i \in 1..(m + n) : u[i] = f[at + i - 1]
    BY <1>3 DEF u
  <2>2. Len(u) = Len(s \o t) /\ \A i \in 1..Len(u) : u[i] = (s \o t)[i]
    BY <1>4, <1>5, <2>1
  <2>3. QED
    BY <1>4, <2>1, <2>2, SeqEqual
<1>7. QED
  BY <1>6 DEF s, t, u

LEMMA SliceOfSlice ==
  ASSUME NEW f, NEW n \in Nat, NEW i \in Nat, NEW m \in Nat, i + m <= n,
         \A k \in 0..(n - 1) : f[k] \in Cells
  PROVE  SubSeq(Slice(f, 0, n), i + 1, i + m) = Slice(f, i, m)
<1> DEFINE s == Slice(f, 0, n)
<1>1. /\ s \in Seq(Cells) /\ Len(s) = n
      /\ \A j \in 1..n : s[j] = f[j - 1]
  BY SliceIs
<1>2. /\ Slice(f, i, m) \in Seq(Cells) /\ Len(Slice(f, i, m)) = m
      /\ \A j \in 1..m : Slice(f, i, m)[j] = f[i + j - 1]
  BY SliceIs
<1> HIDE DEF s
<1>3. \A j \in (i + 1)..(i + m) : s[j] \in Cells
  BY <1>1
<1>4. /\ SubSeq(s, i + 1, i + m) \in Seq(Cells)
      /\ Len(SubSeq(s, i + 1, i + m)) = m
      /\ \A j \in 1..m : SubSeq(s, i + 1, i + m)[j] = s[i + j]
  <2>1. /\ SubSeq(s, i + 1, i + m) \in Seq(Cells)
        /\ Len(SubSeq(s, i + 1, i + m)) = IF i + 1 <= i + m THEN i + m - (i + 1) + 1 ELSE 0
        /\ \A j \in 1..(i + m - (i + 1) + 1) : SubSeq(s, i + 1, i + m)[j] = s[i + 1 + j - 1]
    BY <1>3, SubSeqProperties
  <2>2. \A j \in Int : i + 1 + j - 1 = i + j
    OBVIOUS
  <2>3. i + m - (i + 1) + 1 = m
    OBVIOUS
  <2>4. QED
    BY <2>1, <2>2, <2>3
<1>5. \A j \in 1..m : s[i + j] = f[i + j - 1]
  <2> SUFFICES ASSUME NEW j \in 1..m PROVE s[i + j] = f[i + j - 1]
    OBVIOUS
  <2>1. i + j \in 1..n /\ (i + j) - 1 = i + j - 1
    OBVIOUS
  <2>2. QED
    BY <1>1, <2>1
<1>6. SubSeq(s, i + 1, i + m) = Slice(f, i, m)
  <2> DEFINE u == Slice(f, i, m)
             v == SubSeq(s, i + 1, i + m)
  <2> HIDE DEF u, v
  <2>1. u \in Seq(Cells) /\ v \in Seq(Cells) /\ Len(u) = m /\ Len(v) = m
    BY <1>2, <1>4 DEF u, v
  <2>2. \A j \in 1..Len(v) : v[j] = u[j]
    BY <1>2, <1>4, <1>5, <2>1 DEF u, v
  <2>3. v = u
    BY <2>1, <2>2, SeqEqual
  <2>4. QED
    BY <2>3 DEF u, v
<1>7. QED
  BY <1>6 DEF s

(* What the text and the pending characters of a buffer are. *)
LEMMA TextIsSlice ==
  ASSUME NEW f, NEW n \in Nat
  PROVE  [i \in 1..n |-> f[i - 1]] = Slice(f, 0, n)
<1>1. \A i \in 1..n : 0 + i - 1 = i - 1
  OBVIOUS
<1>2. QED
  BY <1>1 DEF Slice

LEMMA ObjectView ==
  ASSUME TypeOK, NEW o \in Buffers, ObjectOK(o)
  PROVE  /\ size(o) \in Nat /\ buf[o].m_capacity \in Nat /\ size(o) <= buf[o].m_capacity
         /\ Text(o) = Slice(mem[buf[o].m_buf], 0, size(o))
         /\ tail[o] = NoTail => Pending(o) = << >>
         /\ tail[o] # NoTail =>
              /\ tail[o] \in size(o)..buf[o].m_capacity /\ buf[o].m_buf # NULL
              /\ Pending(o) = Slice(mem[buf[o].m_buf], size(o), tail[o] - size(o))
         /\ buf[o].m_buf = NULL => size(o) = 0 /\ Text(o) = << >>
         /\ buf[o].m_buf # NULL => /\ buf[o].m_buf \in Blocks /\ Live(o)
                                   /\ \A k \in 0..SizeMax : mem[buf[o].m_buf][k] \in Cells
         /\ buf[o].m_capacity <= PtrdiffMax
<1>1. size(o) \in Nat /\ buf[o].m_capacity \in Nat /\ size(o) <= buf[o].m_capacity
  BY ConstantTypes DEF TypeOK, ObjectOK, size
<1>2. Text(o) = Slice(mem[buf[o].m_buf], 0, size(o))
  BY <1>1, TextIsSlice DEF Text
<1>3. tail[o] # NoTail =>
        /\ tail[o] \in size(o)..buf[o].m_capacity /\ buf[o].m_buf # NULL
        /\ Pending(o) = Slice(mem[buf[o].m_buf], size(o), tail[o] - size(o))
  BY DEF ObjectOK, Pending, Slice
<1>4. buf[o].m_buf = NULL => size(o) = 0 /\ Text(o) = << >>
  BY DEF ObjectOK, Text
<1>5. buf[o].m_buf # NULL => /\ buf[o].m_buf \in Blocks /\ Live(o)
                             /\ \A k \in 0..SizeMax : mem[buf[o].m_buf][k] \in Cells
  <2>1. buf[o].m_buf \in Blocks \cup {NULL} /\ (buf[o].m_buf # NULL => Live(o))
    BY DEF TypeOK, ObjectOK
  <2>2. \A x \in Blocks : mem[x] \in [0..SizeMax -> Cells]
    BY DEF TypeOK, HeapTypeOK
  <2>3. QED
    BY <2>1, <2>2
<1>6. buf[o].m_capacity <= PtrdiffMax
  BY <1>1, ConstantTypes DEF ObjectOK
<1>7. QED
  BY <1>1, <1>2, <1>3, <1>4, <1>5, <1>6 DEF Pending

(* A buffer whose cells, end and tail stay keeps its text, wherever its    *)
(* block is now.                                                           *)
LEMMA KeepsView ==
  ASSUME TypeOK, NEW o \in Buffers, ObjectOK(o),
         buf'[o].m_bufEnd = buf[o].m_bufEnd, tail'[o] = tail[o],
         buf[o].m_buf # NULL => \A k \in 0..(buf[o].m_capacity - 1) :
                                  mem'[buf'[o].m_buf][k] = mem[buf[o].m_buf][k]
  PROVE  Text(o)' = Text(o) /\ Pending(o)' = Pending(o)
<1> DEFINE f == mem[buf[o].m_buf]
           g == mem'[buf'[o].m_buf]
<1>1. /\ size(o) \in Nat /\ buf[o].m_capacity \in Nat /\ size(o) <= buf[o].m_capacity
      /\ size(o)' = size(o)
      /\ Text(o) = Slice(f, 0, size(o))
      /\ tail[o] = NoTail => Pending(o) = << >>
      /\ tail[o] # NoTail => /\ tail[o] \in size(o)..buf[o].m_capacity /\ buf[o].m_buf # NULL
                             /\ Pending(o) = Slice(f, size(o), tail[o] - size(o))
      /\ buf[o].m_buf = NULL => size(o) = 0
  BY ObjectView DEF size
<1>2. Text(o)' = Slice(g, 0, size(o))
  <2>1. Text(o)' = [i \in 1..size(o) |-> g[i - 1]]
    BY <1>1 DEF Text
  <2>2. QED
    BY <1>1, <2>1, TextIsSlice
<1>3. /\ tail[o] = NoTail => Pending(o)' = << >>
      /\ tail[o] # NoTail => Pending(o)' = Slice(g, size(o), tail[o] - size(o))
  BY <1>1 DEF Pending, Slice
<1> HIDE DEF f, g
<1>4. \A k \in 0..(buf[o].m_capacity - 1) : buf[o].m_buf # NULL => g[k] = f[k]
  BY DEF f, g
<1>5. Slice(g, 0, size(o)) = Slice(f, 0, size(o))
  <2>1. size(o) \in Nat /\ 0 \in Nat
    BY <1>1
  <2>2. ASSUME NEW k \in 0..(0 + size(o) - 1) PROVE g[k] = f[k]
    <3>1. k \in 0..(buf[o].m_capacity - 1) /\ buf[o].m_buf # NULL
      BY <1>1
    <3>2. QED
      BY <1>4, <3>1
  <2>3. QED
    BY <2>1, <2>2, SliceSame
<1>6. tail[o] # NoTail
      => Slice(g, size(o), tail[o] - size(o)) = Slice(f, size(o), tail[o] - size(o))
  <2>1. SUFFICES ASSUME tail[o] # NoTail
                 PROVE  Slice(g, size(o), tail[o] - size(o)) = Slice(f, size(o), tail[o] - size(o))
    OBVIOUS
  <2>2. tail[o] - size(o) \in Nat
    BY <1>1, <2>1
  <2>3. \A k \in size(o)..(size(o) + (tail[o] - size(o)) - 1) : g[k] = f[k]
    BY <1>1, <1>4, <2>1
  <2>4. QED
    BY <1>1, <2>2, <2>3, SliceSame
<1>7. QED
  BY <1>1, <1>2, <1>3, <1>5, <1>6

(* Buffers whose block a step leaves alone. *)
LEMMA OthersKeepView ==
  ASSUME TypeOK, NEW o \in Buffers, ObjectOK(o), buf'[o] = buf[o], tail'[o] = tail[o],
         buf[o].m_buf # NULL => mem'[buf[o].m_buf] = mem[buf[o].m_buf]
  PROVE  Text(o)' = Text(o) /\ Pending(o)' = Pending(o)
BY KeepsView

(***************************************************************************)
(* A step whose effect on the abstract variables is known is a step of the *)
(* abstract builder.                                                       *)
(***************************************************************************)
LEMMA AsStutter ==
  ASSUME \A o \in Buffers : /\ Text(o)' = Text(o) /\ Pending(o)' = Pending(o)
                            /\ tail'[o] = tail[o] /\ Live(o)' = Live(o)
                            /\ Live(o) => buf'[o].m_capacity = buf[o].m_capacity
  PROVE  UNCHANGED absVars
BY DEF absVars, absOpen, absLent, absText, absPending, absCap

LEMMA AsCreate ==
  ASSUME NEW b \in Buffers, ~Live(b), Live(b)',
         \A o \in Buffers : Text(o)' = Text(o) /\ Pending(o)' = Pending(o) /\ tail'[o] = tail[o],
         \A o \in Buffers \ {b} : Live(o)' = Live(o) /\ buf'[o] = buf[o]
  PROVE  Builder!Next
<1>1. /\ b \notin absOpen /\ absOpen' = absOpen \cup {b}
      /\ \A o \in Buffers \ {b} : absCap'[o] = absCap[o]
      /\ UNCHANGED <<absLent, absText, absPending>>
  BY DEF absOpen, absLent, absText, absPending, absCap
<1>2. Builder!Create(b)
  BY <1>1 DEF Builder!Create, Builder!Only, absOpen, absLent, absText, absPending, absCap
<1>3. QED
  BY <1>2 DEF Builder!Next

LEMMA AsDrop ==
  ASSUME NEW b \in Buffers, Usable(b), ~Live(b)', Text(b)' = << >>,
         \A o \in Buffers : Pending(o)' = Pending(o) /\ tail'[o] = tail[o],
         \A o \in Buffers \ {b} : Text(o)' = Text(o) /\ Live(o)' = Live(o) /\ buf'[o] = buf[o]
  PROVE  Builder!Next
<1>1. /\ b \in absOpen \ absLent /\ absOpen' = absOpen \ {b}
      /\ absText' = [absText EXCEPT ![b] = << >>]
      /\ \A o \in Buffers \ {b} : absCap'[o] = absCap[o]
      /\ UNCHANGED <<absLent, absPending>>
  BY DEF Usable, absOpen, absLent, absText, absPending, absCap
<1>2. Builder!Drop(b)
  BY <1>1 DEF Builder!Drop, Builder!Ready, Builder!Only,
              absOpen, absLent, absText, absPending, absCap
<1>3. QED
  BY <1>2 DEF Builder!Next

LEMMA AsReserve ==
  ASSUME NEW b \in Buffers, Usable(b), UNCHANGED <<status, tail>>,
         buf'[b].m_capacity > buf[b].m_capacity,
         \A o \in Buffers \ {b} : buf'[o] = buf[o],
         \A o \in Buffers : Text(o)' = Text(o) /\ Pending(o)' = Pending(o)
  PROVE  Builder!Next
<1>1. /\ b \in absOpen \ absLent /\ absCap'[b] > absCap[b]
      /\ \A o \in Buffers \ {b} : absCap'[o] = absCap[o]
      /\ UNCHANGED <<absOpen, absLent, absText, absPending>>
  BY DEF Usable, Live, absOpen, absLent, absText, absPending, absCap
<1>2. Builder!Reserve(b)
  BY <1>1 DEF Builder!Reserve, Builder!Ready, Builder!Only,
              absOpen, absLent, absText, absPending, absCap
<1>3. QED
  BY <1>2 DEF Builder!Next

LEMMA AsTransfer ==
  ASSUME NEW b \in Buffers, NEW o \in Buffers, ~Live(b), Usable(o), Live(b)', Live(o)',
         Text(b)' = Text(o), Text(o)' = << >>,
         buf'[b].m_capacity = buf[o].m_capacity, buf'[o].m_capacity = 0,
         \A i \in Buffers : Pending(i)' = Pending(i) /\ tail'[i] = tail[i],
         \A i \in Buffers \ {b, o} :
            Text(i)' = Text(i) /\ Live(i)' = Live(i) /\ buf'[i] = buf[i]
  PROVE  Builder!Next
<1>1. /\ b \notin absOpen /\ o \in absOpen \ absLent /\ absOpen' = absOpen \cup {b}
      /\ absText' = [absText EXCEPT ![b] = absText[o], ![o] = << >>]
      /\ absCap' = [absCap EXCEPT ![b] = absCap[o], ![o] = 0]
      /\ UNCHANGED <<absLent, absPending>>
  BY DEF Usable, absOpen, absLent, absText, absPending, absCap
<1>2. Builder!Transfer(b, o)
  BY <1>1 DEF Builder!Transfer, Builder!Ready, absOpen, absLent, absText, absPending, absCap
<1>3. QED
  BY <1>2 DEF Builder!Next

LEMMA AsSwap ==
  ASSUME NEW b \in Buffers, NEW o \in Buffers, Usable(b), Usable(o), status' = status,
         Text(b)' = Text(o), Text(o)' = Text(b), buf'[b] = buf[o], buf'[o] = buf[b],
         \A i \in Buffers : Pending(i)' = Pending(i) /\ tail'[i] = tail[i],
         \A i \in Buffers \ {b, o} : Text(i)' = Text(i) /\ buf'[i] = buf[i]
  PROVE  Builder!Next
<1>1. /\ b \in absOpen \ absLent /\ o \in absOpen \ absLent
      /\ absText' = [absText EXCEPT ![b] = absText[o], ![o] = absText[b]]
      /\ absCap' = [absCap EXCEPT ![b] = absCap[o], ![o] = absCap[b]]
      /\ UNCHANGED <<absOpen, absLent, absPending>>
  BY DEF Usable, Live, absOpen, absLent, absText, absPending, absCap
<1>2. Builder!Swap(b, o)
  BY <1>1 DEF Builder!Swap, Builder!Ready, absOpen, absLent, absText, absPending, absCap
<1>3. QED
  BY <1>2 DEF Builder!Next

(* A step on the text of one buffer. *)
OnText(b) ==
  /\ Usable(b) /\ UNCHANGED <<status, tail>>
  /\ \A o \in Buffers : buf'[o].m_capacity = buf[o].m_capacity /\ Pending(o)' = Pending(o)
  /\ \A o \in Buffers \ {b} : Text(o)' = Text(o)

LEMMA OnTextView ==
  ASSUME NEW b \in Buffers, OnText(b)
  PROVE  /\ b \in absOpen \ absLent /\ absText[b] = Text(b) /\ absCap[b] = buf[b].m_capacity
         /\ absText' = [absText EXCEPT ![b] = Text(b)']
         /\ UNCHANGED <<absOpen, absLent, absPending, absCap>>
BY DEF OnText, Usable, Live, absOpen, absLent, absText, absPending, absCap

LEMMA AsAdd ==
  ASSUME NEW b \in Buffers, OnText(b), NEW s, Text(b)' = Text(b) \o s,
         Len(Text(b)) + Len(s) <= buf[b].m_capacity,
         \/ s \in Inputs
         \/ \E i, j \in 1..Len(Text(b)) : s = SubSeq(Text(b), i, j)
  PROVE  Builder!Next
<1>1. /\ b \in absOpen \ absLent /\ absText[b] = Text(b)
      /\ Len(absText[b]) + Len(s) <= absCap[b]
      /\ absText' = [absText EXCEPT ![b] = absText[b] \o s]
      /\ UNCHANGED <<absOpen, absLent, absPending, absCap>>
  BY OnTextView
<1>2. Builder!Add(b, s)
  BY <1>1 DEF Builder!Add, Builder!Ready, absOpen, absLent, absText, absPending, absCap
<1>3. CASE s \in Inputs
  BY <1>2, <1>3 DEF Builder!Next
<1>4. CASE \E i, j \in 1..Len(Text(b)) : s = SubSeq(Text(b), i, j)
  <2>1. PICK i \in 1..Len(Text(b)), j \in 1..Len(Text(b)) : s = SubSeq(Text(b), i, j)
    BY <1>4
  <2>2. i \in 1..Len(absText[b]) /\ j \in 1..Len(absText[b]) /\ s = SubSeq(absText[b], i, j)
    BY <1>1, <2>1
  <2>3. \E i1, j1 \in 1..Len(absText[b]) : Builder!Add(b, SubSeq(absText[b], i1, j1))
    BY <1>2, <2>2
  <2>4. QED
    BY <2>3 DEF Builder!Next, absText
<1>5. QED
  BY <1>3, <1>4

LEMMA AsResize ==
  ASSUME NEW b \in Buffers, OnText(b), Len(Text(b)') <= buf[b].m_capacity,
         \A i \in 1..Len(Text(b)) : i <= Len(Text(b)') => Text(b)'[i] = Text(b)[i]
  PROVE  Builder!Next
<1>1. /\ b \in absOpen \ absLent /\ absText[b] = Text(b) /\ absText'[b] = Text(b)'
      /\ Len(absText'[b]) <= absCap[b]
      /\ \A o \in Buffers \ {b} : absText'[o] = absText[o]
      /\ UNCHANGED <<absOpen, absLent, absPending, absCap>>
  BY OnTextView DEF absText
<1>2. \A i \in 1..Len(absText[b]) : i <= Len(absText'[b]) => absText'[b][i] = absText[b][i]
  BY <1>1
<1>3. Builder!Resize(b)
  BY <1>1, <1>2 DEF Builder!Resize, Builder!Ready, Builder!Only,
                    absOpen, absLent, absText, absPending, absCap
<1>4. QED
  BY <1>3 DEF Builder!Next

LEMMA AsBorrow ==
  ASSUME NEW b \in Buffers, Usable(b), UNCHANGED <<status, buf>>, tail'[b] # NoTail,
         \A o \in Buffers : Text(o)' = Text(o) /\ Pending(o)' = Pending(o),
         \A o \in Buffers \ {b} : tail'[o] = tail[o]
  PROVE  Builder!Next
<1>1. /\ b \in absOpen \ absLent /\ absLent' = absLent \cup {b}
      /\ UNCHANGED <<absOpen, absText, absPending, absCap>>
  BY DEF Usable, Live, absOpen, absLent, absText, absPending, absCap
<1>2. Builder!Borrow(b)
  BY <1>1 DEF Builder!Borrow, Builder!Ready, absOpen, absLent, absText, absPending, absCap
<1>3. QED
  BY <1>2 DEF Builder!Next

LEMMA AsPut ==
  ASSUME NEW b \in Buffers, Live(b), tail[b] # NoTail, tail'[b] # NoTail,
         UNCHANGED <<status, buf>>, NEW c \in Chars,
         Len(Text(b)) + Len(Pending(b)) < buf[b].m_capacity,
         Pending(b)' = Append(Pending(b), c),
         \A o \in Buffers : Text(o)' = Text(o),
         \A o \in Buffers \ {b} : Pending(o)' = Pending(o) /\ tail'[o] = tail[o]
  PROVE  Builder!Next
<1>1. /\ b \in absLent
      /\ Len(absText[b]) + Len(absPending[b]) < absCap[b]
      /\ absPending' = [absPending EXCEPT ![b] = Append(absPending[b], c)]
      /\ UNCHANGED <<absOpen, absLent, absText, absCap>>
  BY DEF Live, absOpen, absLent, absText, absPending, absCap
<1>2. Builder!Put(b, c)
  BY <1>1 DEF Builder!Put, absOpen, absLent, absText, absPending, absCap
<1>3. QED
  BY <1>2 DEF Builder!Next

LEMMA AsReturn ==
  ASSUME NEW b \in Buffers, Live(b), tail[b] # NoTail, tail'[b] = NoTail, status' = status,
         NEW n \in 0..Len(Pending(b)),
         Text(b)' = Text(b) \o SubSeq(Pending(b), 1, n), Pending(b)' = << >>,
         \A o \in Buffers : buf'[o].m_capacity = buf[o].m_capacity,
         \A o \in Buffers \ {b} :
            Text(o)' = Text(o) /\ Pending(o)' = Pending(o) /\ tail'[o] = tail[o]
  PROVE  Builder!Next
<1>1. /\ b \in absLent /\ absLent' = absLent \ {b}
      /\ absPending[b] = Pending(b)
      /\ absText' = [absText EXCEPT ![b] = absText[b] \o SubSeq(absPending[b], 1, n)]
      /\ absPending' = [absPending EXCEPT ![b] = << >>]
      /\ UNCHANGED <<absOpen, absCap>>
  BY DEF Live, absOpen, absLent, absText, absPending, absCap
<1>2. Builder!Return(b, n)
  BY <1>1 DEF Builder!Return, absOpen, absLent, absText, absPending, absCap
<1>3. n \in 0..Len(absPending[b])
  BY <1>1
<1>4. QED
  BY <1>2, <1>3 DEF Builder!Next, absPending

(***************************************************************************)
(* Each member function simulates the abstract builder.                    *)
(***************************************************************************)
Simulated == Builder!Next \/ UNCHANGED absVars

(* Growing keeps the characters below the capacity, in place or moved, and *)
(* touches the block of nobody else.                                       *)
LEMMA RegrowSimulated ==
  ASSUME IInv, NEW b \in Buffers, Usable(b), NEW s \in 1..maxStorageSize,
         s > buf[b].m_capacity, Regrow(b, s)
  PROVE  Simulated
<1> USE DEF IInv, HeapInv
<1> DEFINE old == buf[b].m_buf
<1>1. Wrap(s * CharSize) = s * CharSize /\ s * CharSize \in 1..SizeMax
  BY Bytes
<1>2. CASE reallocFails(old, Wrap(s * CharSize)) /\ Throws("bad_alloc")
  <2>1. UNCHANGED <<heap, mem, status, buf, tail>>
    BY <1>1, <1>2, ConstantTypes DEF reallocFails, Throws
  <2>2. \A o \in Buffers : Text(o)' = Text(o) /\ Pending(o)' = Pending(o) /\ Live(o)' = Live(o)
    BY <2>1 DEF Text, Pending, size, Live
  <2>3. QED
    BY <2>1, <2>2, AsStutter DEF Simulated
<1>3. ASSUME NEW newBuf \in Blocks,
             realloc(old, s * CharSize, newBuf),
             buf' = [buf EXCEPT ![b].m_buf = newBuf, ![b].m_capacity = s - 1],
             UNCHANGED <<status, tail>>
      PROVE  Simulated
  <2>1. /\ newBuf = old \/ heap[newBuf] = 0
        /\ mem' = [y \in Blocks |-> IF y = newBuf THEN Moved(old, s * CharSize)
                                    ELSE IF y = old THEN Unwritten ELSE mem[y]]
    BY <1>3 DEF realloc
  <2>2. /\ buf'[b].m_buf = newBuf /\ buf'[b].m_bufEnd = buf[b].m_bufEnd
        /\ buf'[b].m_capacity = s - 1
        /\ \A o \in Buffers \ {b} : buf'[o] = buf[o]
    BY <1>3 DEF TypeOK
  <2>3. ASSUME NEW o \in Buffers \ {b}
        PROVE  Text(o)' = Text(o) /\ Pending(o)' = Pending(o)
    <3>1. buf[o].m_buf = NULL \/ buf[o].m_buf \notin {newBuf, old}
      BY <2>1, <1>3 DEF OwnershipOK
    <3>2. buf[o].m_buf # NULL => mem'[buf[o].m_buf] = mem[buf[o].m_buf]
      BY <2>1, <3>1 DEF TypeOK
    <3>3. QED
      BY <1>3, <2>2, <3>2, OthersKeepView
  <2>4. Text(b)' = Text(b) /\ Pending(b)' = Pending(b)
    <3>1. ASSUME old # NULL, NEW k \in 0..(buf[b].m_capacity - 1)
          PROVE  mem'[newBuf][k] = mem[old][k]
      <4>1. buf[b].m_capacity \in Nat /\ buf[b].m_capacity <= PtrdiffMax
        BY ObjectView
      <4>2. heap[old] = (buf[b].m_capacity + 1) * CharSize
        BY <3>1 DEF ObjectOK
      <4>3. k \in 0..SizeMax /\ k + 1 <= buf[b].m_capacity + 1 /\ k + 1 <= s
        BY <4>1, ConstantTypes
      <4>4. (k + 1) * CharSize <= (buf[b].m_capacity + 1) * CharSize
        BY <4>1, <4>3, ConstantTypes
      <4>5. (k + 1) * CharSize <= s * CharSize
        <5>1. s \in Nat /\ k \in Nat
          BY <4>1, ConstantTypes
        <5>2. QED
          BY <4>3, <5>1, ConstantTypes
      <4>6. Moved(old, s * CharSize)[k] = mem[old][k]
        BY <3>1, <4>2, <4>3, <4>4, <4>5 DEF Moved
      <4>7. QED
        BY <2>1, <4>6
    <3>2. \A k \in 0..(buf[b].m_capacity - 1) :
            old # NULL => mem'[buf'[b].m_buf][k] = mem[old][k]
      BY <2>2, <3>1
    <3>3. QED
      BY <1>3, <2>2, <3>2, KeepsView
  <2>5. buf'[b].m_capacity > buf[b].m_capacity \/ buf'[b].m_capacity = buf[b].m_capacity
    <3>1. buf[b].m_capacity \in Nat
      BY ObjectView
    <3>2. QED
      BY <2>2, <3>1, ConstantTypes
  <2>6. CASE buf'[b].m_capacity > buf[b].m_capacity
    BY <1>3, <2>2, <2>3, <2>4, <2>6, AsReserve DEF Simulated
  <2>7. CASE buf'[b].m_capacity = buf[b].m_capacity
    BY <1>3, <2>2, <2>3, <2>4, <2>7, AsStutter DEF Simulated, Live
  <2>8. QED
    BY <2>5, <2>6, <2>7
<1>4. QED
  BY <1>1, <1>2, <1>3 DEF Regrow, capacityOf

(* What a write into the block of b leaves and what it changes. *)
LEMMA WrittenView ==
  ASSUME IInv, NEW b \in Buffers, buf[b].m_buf # NULL, NEW at \in Nat, NEW s,
         Len(s) \in Nat, mem' = Written(b, at, s)
  PROVE  /\ \A k \in 0..SizeMax : mem'[buf[b].m_buf][k] =
              IF k - at + 1 \in 1..Len(s) THEN s[k - at + 1] ELSE mem[buf[b].m_buf][k]
         /\ \A o \in Buffers \ {b} : buf[o].m_buf # NULL =>
              mem'[buf[o].m_buf] = mem[buf[o].m_buf]
<1> DEFINE x == buf[b].m_buf
           new == [i \in 0..SizeMax |-> IF i - at + 1 \in 1..Len(s) THEN s[i - at + 1]
                                        ELSE mem[x][i]]
<1>1. x \in Blocks
  BY DEF IInv, HeapInv, TypeOK
<1>2. mem' = [mem EXCEPT ![x] = new]
  BY DEF Written
<1>3. mem'[x] = new /\ \A y \in Blocks \ {x} : mem'[y] = mem[y]
  <2> HIDE DEF new, x
  <2>1. DOMAIN mem = Blocks
    BY DEF IInv, HeapInv, TypeOK, HeapTypeOK
  <2>2. QED
    BY <1>1, <1>2, <2>1
<1>4. \A o \in Buffers \ {b} : buf[o].m_buf # NULL => buf[o].m_buf \in Blocks \ {x}
  BY DEF IInv, HeapInv, TypeOK, OwnershipOK
<1>5. QED
  BY <1>3, <1>4

LEMMA AppendSimulated ==
  ASSUME IInv, TypeOK', NEW b \in Buffers, NEW s \in Seq(Cells), append(b, s),
         \/ s \in Inputs
         \/ s = << >>
         \/ \E i, j \in 1..Len(Text(b)) : s = SubSeq(Text(b), i, j)
  PROVE  Simulated
<1> USE DEF IInv, HeapInv
<1> DEFINE x == buf[b].m_buf
           n == size(b)
           f == mem[x]
           g == mem'[x]
<1>1. /\ x # NULL /\ Usable(b) /\ UNCHANGED <<status, tail>>
      /\ Len(s) <= Room(b) /\ mem' = Written(b, n, s)
      /\ buf'[b].m_buf = x /\ buf'[b].m_bufEnd = n + Len(s)
      /\ \A o \in Buffers : buf'[o].m_capacity = buf[o].m_capacity
      /\ \A o \in Buffers \ {b} : buf'[o] = buf[o]
  BY DEF append, TypeOK, size
<1>2. /\ n \in Nat /\ buf[b].m_capacity \in Nat /\ n <= buf[b].m_capacity
      /\ Text(b) = Slice(f, 0, n) /\ Pending(b) = << >> /\ x \in Blocks
      /\ \A k \in 0..SizeMax : f[k] \in Cells
      /\ buf[b].m_capacity <= PtrdiffMax
  BY <1>1, ObjectView DEF Usable
<1>3. Len(s) \in Nat /\ n + Len(s) <= buf[b].m_capacity
  BY <1>1, <1>2 DEF Room
<1>4. /\ \A k \in 0..SizeMax : g[k] = IF k - n + 1 \in 1..Len(s) THEN s[k - n + 1] ELSE f[k]
      /\ \A o \in Buffers \ {b} : buf[o].m_buf # NULL => mem'[buf[o].m_buf] = mem[buf[o].m_buf]
  BY <1>1, <1>2, <1>3, WrittenView
<1>5. \A o \in Buffers \ {b} : Text(o)' = Text(o) /\ Pending(o)' = Pending(o)
  BY <1>1, <1>4, OthersKeepView
<1>6. Pending(b)' = Pending(b)
  BY <1>1, <1>2 DEF Pending, Usable
<1>7. Text(b)' = Slice(g, 0, n + Len(s))
  <2>1. size(b)' = n + Len(s) /\ n + Len(s) \in Nat
    BY <1>1, <1>2, <1>3 DEF size
  <2>2. Text(b)' = [i \in 1..(n + Len(s)) |-> g[i - 1]]
    BY <1>1, <2>1 DEF Text
  <2>3. QED
    BY <2>1, <2>2, TextIsSlice
<1>8. \A k \in 0..SizeMax : g[k] \in Cells
  <2>1. g \in [0..SizeMax -> Cells]
    BY <1>2 DEF TypeOK, HeapTypeOK
  <2>2. QED
    BY <2>1
<1> HIDE DEF x, n, f, g
<1>9. SizeMax \in Nat /\ n + Len(s) <= SizeMax
  BY <1>2, <1>3, ConstantTypes
<1>10. Slice(g, 0, n + Len(s)) = Slice(g, 0, n) \o Slice(g, n, Len(s))
  <2>0. 0 \in Nat /\ n \in Nat /\ Len(s) \in Nat
    BY <1>2, <1>3
  <2>1. \A k \in 0..(0 + n + Len(s) - 1) : g[k] \in Cells
    BY <1>2, <1>3, <1>8, <1>9
  <2>2. Slice(g, 0, n + Len(s)) = Slice(g, 0, n) \o Slice(g, 0 + n, Len(s))
    BY <2>0, <2>1, SliceJoin
  <2>3. 0 + n = n
    BY <1>2
  <2>4. QED
    BY <2>2, <2>3
<1>11. Slice(g, 0, n) = Slice(f, 0, n)
  <2>1. ASSUME NEW k \in 0..(0 + n - 1) PROVE g[k] = f[k]
    BY <1>2, <1>4, <1>9, <1>3
  <2>2. QED
    BY <1>2, <2>1, SliceSame
<1>12. Slice(g, n, Len(s)) = s
  <2> DEFINE t == Slice(g, n, Len(s))
  <2>1. \A k \in n..(n + Len(s) - 1) : g[k] \in Cells
    BY <1>2, <1>3, <1>8, <1>9
  <2>2. /\ t \in Seq(Cells) /\ Len(t) = Len(s)
        /\ \A i \in 1..Len(s) : t[i] = g[n + i - 1]
    BY <1>2, <1>3, <2>1, SliceIs
  <2> HIDE DEF t
  <2>3. ASSUME NEW i \in 1..Len(s) PROVE g[n + i - 1] = s[i]
    <3>1. n + i - 1 \in 0..SizeMax /\ (n + i - 1) - n + 1 = i
      BY <1>2, <1>3, <1>9
    <3>2. QED
      BY <1>4, <3>1
  <2>4. t = s
    BY <2>2, <2>3, SeqEqual
  <2>5. QED
    BY <2>4 DEF t
<1>13. Text(b)' = Text(b) \o s
  BY <1>2, <1>7, <1>10, <1>11, <1>12
<1>14. Len(Text(b)) = n /\ Text(b) \in Seq(Cells)
  <2>1. \A k \in 0..(0 + n - 1) : f[k] \in Cells
    BY <1>2, <1>3, <1>9
  <2>2. QED
    BY <1>2, <2>1, SliceIs
<1>15. OnText(b)
  BY <1>1, <1>5, <1>6 DEF OnText
<1>16. CASE s = << >>
  <2>1. Text(b)' = Text(b)
    BY <1>13, <1>14, <1>16, ConcatEmptySeq
  <2>2. QED
    BY <1>1, <1>5, <1>6, <2>1, AsStutter DEF Simulated, Live
<1>17. CASE s # << >>
  BY <1>3, <1>13, <1>14, <1>15, <1>17, AsAdd DEF Simulated
<1>18. QED
  BY <1>16, <1>17

LEMMA AppendOwnSimulated ==
  ASSUME IInv, TypeOK', NEW b \in Buffers, NEW from \in Nat, NEW n \in Nat, appendOwn(b, from, n)
  PROVE  Simulated
<1> USE DEF IInv, HeapInv
<1> DEFINE f == mem[buf[b].m_buf]
<1>1. /\ from + n <= size(b) /\ append(b, Own(b, from, n)) /\ buf[b].m_buf # NULL
      /\ Own(b, from, n) = Slice(f, from, n)
  BY DEF appendOwn, append, Own, Slice
<1>2. /\ size(b) \in Nat /\ size(b) <= PtrdiffMax
      /\ Text(b) = Slice(f, 0, size(b))
      /\ \A k \in 0..SizeMax : f[k] \in Cells
  BY <1>1, ObjectView, ConstantTypes
<1> HIDE DEF f
<1>3. SizeMax \in Nat /\ PtrdiffMax \in Nat /\ size(b) <= SizeMax
  BY <1>2, ConstantTypes
<1>4. Slice(f, from, n) \in Seq(Cells) /\ Len(Slice(f, from, n)) = n
  <2>1. \A k \in from..(from + n - 1) : f[k] \in Cells
    BY <1>1, <1>2, <1>3
  <2>2. QED
    BY <2>1, SliceIs
<1>5. \/ Slice(f, from, n) = << >>
      \/ \E i, j \in 1..Len(Text(b)) : Slice(f, from, n) = SubSeq(Text(b), i, j)
  <2>1. \A k \in 0..(size(b) - 1) : f[k] \in Cells
    BY <1>2, <1>3
  <2>2. Len(Text(b)) = size(b)
    <3>1. 0 \in Nat /\ size(b) \in Nat /\ \A k \in 0..(0 + size(b) - 1) : f[k] \in Cells
      BY <1>2, <2>1
    <3>2. Len(Slice(f, 0, size(b))) = size(b)
      BY <3>1, SliceIs
    <3>3. QED
      BY <1>2, <3>2
  <2>3. SubSeq(Text(b), from + 1, from + n) = Slice(f, from, n)
    <3>1. 0 \in Nat /\ size(b) \in Nat /\ from + n <= size(b)
      BY <1>1, <1>2
    <3>2. SubSeq(Slice(f, 0, size(b)), from + 1, from + n) = Slice(f, from, n)
      BY <2>1, <3>1, SliceOfSlice
    <3>3. QED
      BY <1>2, <3>2
  <2>4. CASE n = 0
    BY <1>4, <2>4, EmptySeq
  <2>5. CASE n # 0
    <3>1. from + 1 \in 1..Len(Text(b)) /\ from + n \in 1..Len(Text(b))
      BY <1>1, <1>2, <2>2, <2>5
    <3>2. QED
      BY <2>3, <3>1
  <2>6. QED
    BY <2>4, <2>5
<1>6. QED
  BY <1>1, <1>4, <1>5, AppendSimulated

(* resize() and clear(). *)
LEMMA ResizeSimulated ==
  ASSUME IInv, NEW b \in Buffers, NEW n \in Nat, n <= buf[b].m_capacity, Usable(b),
         buf[b].m_buf # NULL \/ n = 0,
         buf' = [buf EXCEPT ![b].m_bufEnd = n], UNCHANGED <<mem, status, tail>>
  PROVE  Simulated
<1> USE DEF IInv, HeapInv
<1> DEFINE f == mem[buf[b].m_buf]
<1>1. /\ buf'[b].m_buf = buf[b].m_buf /\ buf'[b].m_bufEnd = n
      /\ buf'[b].m_capacity = buf[b].m_capacity
      /\ \A o \in Buffers \ {b} : buf'[o] = buf[o]
  BY DEF TypeOK
<1>2. /\ size(b) \in Nat /\ buf[b].m_capacity \in Nat /\ size(b) <= buf[b].m_capacity
      /\ Text(b) = Slice(f, 0, size(b)) /\ Pending(b) = << >>
      /\ buf[b].m_buf # NULL => \A k \in 0..SizeMax : f[k] \in Cells
      /\ buf[b].m_buf = NULL => size(b) = 0
      /\ buf[b].m_capacity <= PtrdiffMax
  BY ObjectView DEF Usable
<1>3. Text(b)' = Slice(f, 0, n)
  <2>1. Text(b)' = [i \in 1..n |-> f[i - 1]]
    BY <1>1 DEF Text, size
  <2>2. QED
    BY <2>1, TextIsSlice
<1> HIDE DEF f
<1>4. /\ Len(Text(b)) = size(b) /\ \A i \in 1..size(b) : Text(b)[i] = f[0 + i - 1]
  <2>1. \A k \in 0..(0 + size(b) - 1) : f[k] \in Cells
    BY <1>2, ConstantTypes
  <2>2. QED
    BY <1>2, <2>1, SliceIs
<1>5. /\ Len(Text(b)') = n /\ \A i \in 1..n : Text(b)'[i] = f[0 + i - 1]
  <2>1. 0 \in Nat /\ \A k \in 0..(0 + n - 1) : f[k] \in Cells
    BY <1>2, ConstantTypes
  <2>2. /\ Len(Slice(f, 0, n)) = n
        /\ \A i \in 1..n : Slice(f, 0, n)[i] = f[0 + i - 1]
    BY <2>1, SliceIs
  <2>3. QED
    BY <1>3, <2>2
<1>6. \A o \in Buffers \ {b} : Text(o)' = Text(o) /\ Pending(o)' = Pending(o)
  BY <1>1, OthersKeepView
<1>7. OnText(b)
  <2>1. Pending(b)' = << >>
    BY DEF Pending, Usable
  <2>2. QED
    BY <1>1, <1>2, <1>6, <2>1 DEF OnText
<1>8. \A i \in 1..Len(Text(b)) : i <= Len(Text(b)') => Text(b)'[i] = Text(b)[i]
  BY <1>2, <1>4, <1>5
<1>9. QED
  BY <1>5, <1>7, <1>8, AsResize DEF Simulated

(* The terminator is written behind the text. *)
LEMMA TerminatorSimulated ==
  ASSUME IInv, NEW b \in Buffers, c_str(b)
  PROVE  Simulated
<1> USE DEF IInv, HeapInv
<1>1. Usable(b) /\ UNCHANGED <<status, buf, tail>>
  BY DEF c_str
<1>2. \A o \in Buffers : Text(o)' = Text(o) /\ Pending(o)' = Pending(o)
  <2>1. CASE buf[b].m_buf = NULL
    <3>1. mem' = mem
      BY <2>1 DEF c_str
    <3>2. QED
      BY <1>1, <3>1 DEF Text, Pending, size
  <2>2. CASE buf[b].m_buf # NULL
    <3> DEFINE s == <<Nul>>
    <3>1. size(b) \in Nat /\ Len(s) = 1 /\ Len(s) \in Nat /\ mem' = Written(b, size(b), s)
      BY <2>2, ObjectView DEF c_str
    <3> HIDE DEF s
    <3>2. /\ \A k \in 0..SizeMax : mem'[buf[b].m_buf][k] =
              IF k - size(b) + 1 \in 1..Len(s) THEN s[k - size(b) + 1] ELSE mem[buf[b].m_buf][k]
          /\ \A o \in Buffers \ {b} : buf[o].m_buf # NULL =>
              mem'[buf[o].m_buf] = mem[buf[o].m_buf]
      BY <2>2, <3>1, WrittenView
    <3>3. \A o \in Buffers \ {b} : Text(o)' = Text(o) /\ Pending(o)' = Pending(o)
      BY <1>1, <3>2, OthersKeepView
    <3>4. Pending(b)' = Pending(b)
      BY <1>1 DEF Pending, Usable
    <3>5. Text(b)' = Text(b)
      <4>1. size(b)' = size(b) /\ size(b) <= PtrdiffMax
        BY <1>1, ObjectView, ConstantTypes DEF size
      <4>2. \A i \in 1..size(b) : i - 1 \in 0..SizeMax /\ ~ ((i - 1) - size(b) + 1 \in 1..1)
        BY <3>1, <4>1, ConstantTypes
      <4>3. \A i \in 1..size(b) : mem'[buf[b].m_buf][i - 1] = mem[buf[b].m_buf][i - 1]
        BY <3>1, <3>2, <4>2
      <4>4. QED
        BY <1>1, <4>1, <4>3 DEF Text
    <3>6. QED
      BY <3>3, <3>4, <3>5
  <2>3. QED
    BY <2>1, <2>2
<1>3. QED
  BY <1>1, <1>2, AsStutter DEF Simulated, Live

LEMMA WriteTailSimulated ==
  ASSUME IInv, TypeOK', NEW b \in Buffers, NEW c \in Chars, writeTail(b, c)
  PROVE  Simulated
<1> USE DEF IInv, HeapInv
<1> DEFINE x == buf[b].m_buf
           n == size(b)
           t == tail[b]
           f == mem[x]
           g == mem'[x]
           s == <<c>>
<1>1. /\ Live(b) /\ t # NoTail /\ t < buf[b].m_capacity /\ mem' = Written(b, t, s)
      /\ UNCHANGED <<status, buf>> /\ tail'[b] = t + 1
      /\ \A o \in Buffers \ {b} : tail'[o] = tail[o]
  BY DEF writeTail, TypeOK
<1>2. /\ n \in Nat /\ buf[b].m_capacity \in Nat /\ t \in n..buf[b].m_capacity
      /\ buf[b].m_capacity <= PtrdiffMax
      /\ x # NULL /\ x \in Blocks
      /\ Text(b) = Slice(f, 0, n) /\ Pending(b) = Slice(f, n, t - n)
      /\ \A k \in 0..SizeMax : f[k] \in Cells
  BY <1>1, ObjectView
<1>3. t \in Nat /\ Len(s) = 1 /\ Len(s) \in Nat /\ s[1] = c /\ c \in Cells
  BY <1>1, <1>2 DEF Cells
<1> HIDE DEF s
<1>4. /\ \A k \in 0..SizeMax : g[k] = IF k - t + 1 \in 1..Len(s) THEN s[k - t + 1] ELSE f[k]
      /\ \A o \in Buffers \ {b} : buf[o].m_buf # NULL => mem'[buf[o].m_buf] = mem[buf[o].m_buf]
  BY <1>1, <1>2, <1>3, WrittenView DEF x, t, f, g
<1>5. \A o \in Buffers \ {b} : Text(o)' = Text(o) /\ Pending(o)' = Pending(o)
  BY <1>1, <1>4, OthersKeepView
<1>6. /\ size(b)' = n /\ tail'[b] # NoTail /\ (t + 1) - n \in Nat /\ t - n \in Nat
      /\ SizeMax \in Nat /\ buf[b].m_capacity < SizeMax
  BY <1>1, <1>2, ConstantTypes DEF size, NoTail
<1>7. Text(b)' = Slice(g, 0, n)
  <2>1. Text(b)' = [i \in 1..n |-> g[i - 1]]
    BY <1>1, <1>6 DEF Text
  <2>2. QED
    BY <1>2, <2>1, TextIsSlice
<1>8. Pending(b)' = Slice(g, n, (t + 1) - n)
  BY <1>1, <1>6 DEF Pending, Slice
<1> HIDE DEF x, n, t, f, g
<1>9. \A k \in 0..(buf[b].m_capacity - 1) :
        g[k] = IF k = t THEN c ELSE f[k]
  <2> SUFFICES ASSUME NEW k \in 0..(buf[b].m_capacity - 1)
               PROVE  g[k] = IF k = t THEN c ELSE f[k]
    OBVIOUS
  <2>1. k \in 0..SizeMax
    BY <1>2, <1>6
  <2>2. k - t + 1 \in 1..1 <=> k = t
    BY <1>3
  <2>3. k = t => k - t + 1 = 1
    BY <1>3
  <2>4. QED
    BY <1>3, <1>4, <2>1, <2>2, <2>3
<1>10. Slice(g, 0, n) = Slice(f, 0, n)
  <2>1. 0 \in Nat /\ n \in Nat
    BY <1>2
  <2>2. ASSUME NEW k \in 0..(0 + n - 1) PROVE g[k] = f[k]
    BY <1>2, <1>9
  <2>3. QED
    BY <2>1, <2>2, SliceSame
<1>11. /\ Slice(f, n, t - n) \in Seq(Cells) /\ Len(Slice(f, n, t - n)) = t - n
       /\ \A i \in 1..(t - n) : Slice(f, n, t - n)[i] = f[n + i - 1]
  <2>1. \A k \in n..(n + (t - n) - 1) : f[k] \in Cells
    BY <1>2, <1>6
  <2>2. QED
    BY <1>2, <1>6, <2>1, SliceIs
<1>12. /\ Slice(g, n, (t + 1) - n) \in Seq(Cells) /\ Len(Slice(g, n, (t + 1) - n)) = (t + 1) - n
       /\ \A i \in 1..((t + 1) - n) : Slice(g, n, (t + 1) - n)[i] = g[n + i - 1]
  <2>1. ASSUME NEW k \in n..(n + ((t + 1) - n) - 1) PROVE g[k] \in Cells
    <3>1. k \in 0..(buf[b].m_capacity - 1) /\ k \in 0..SizeMax
      BY <1>1, <1>2, <1>6
    <3>2. QED
      BY <1>2, <1>3, <1>9, <3>1
  <2>2. QED
    BY <1>2, <1>6, <2>1, SliceIs
<1>13. Slice(g, n, (t + 1) - n) = Append(Slice(f, n, t - n), c)
  <2> DEFINE p == Slice(f, n, t - n)
             q == Slice(g, n, (t + 1) - n)
  <2>1. /\ p \in Seq(Cells) /\ Len(p) = t - n
        /\ q \in Seq(Cells) /\ Len(q) = (t + 1) - n
    BY <1>11, <1>12
  <2>2. ASSUME NEW i \in 1..((t + 1) - n)
        PROVE  q[i] = IF i = (t + 1) - n THEN c ELSE p[i]
    <3>1. n + i - 1 \in 0..(buf[b].m_capacity - 1) /\ (n + i - 1 = t <=> i = (t + 1) - n)
      BY <1>1, <1>2, <1>3, <1>6
    <3>2. q[i] = IF n + i - 1 = t THEN c ELSE f[n + i - 1]
      BY <1>9, <1>12, <3>1
    <3>3. i # (t + 1) - n => i \in 1..(t - n)
      BY <1>2, <1>3
    <3>4. QED
      BY <1>11, <3>1, <3>2, <3>3
  <2> HIDE DEF p, q
  <2>3. /\ Append(p, c) \in Seq(Cells) /\ Len(Append(p, c)) = (t + 1) - n
        /\ \A i \in 1..((t + 1) - n) : Append(p, c)[i] = IF i = (t + 1) - n THEN c ELSE p[i]
    <3>1. /\ Append(p, c) \in Seq(Cells) /\ Len(Append(p, c)) = Len(p) + 1
          /\ \A i \in 1..Len(p) : Append(p, c)[i] = p[i]
          /\ Append(p, c)[Len(p) + 1] = c
      BY <1>3, <2>1, AppendProperties
    <3>2. Len(p) + 1 = (t + 1) - n /\ Len(p) = t - n
      BY <1>2, <1>3, <2>1
    <3>3. QED
      BY <1>2, <1>3, <3>1, <3>2
  <2>4. q = Append(p, c)
    BY <2>1, <2>2, <2>3, SeqEqual
  <2>5. QED
    BY <2>4 DEF p, q
<1>14. Len(Text(b)) = n
  <2> DEFINE zero == 0
  <2>1. zero \in Nat /\ n \in Nat /\ \A k \in zero..(zero + n - 1) : f[k] \in Cells
    BY <1>2, <1>6
  <2>2. Text(b) = Slice(f, zero, n)
    BY <1>2
  <2> HIDE DEF zero
  <2>3. Len(Slice(f, zero, n)) = n
    BY <2>1, SliceIs
  <2>4. QED
    BY <2>2, <2>3
<1>15. Len(Text(b)) + Len(Pending(b)) < buf[b].m_capacity
  BY <1>1, <1>2, <1>3, <1>11, <1>14
<1>16. Text(b)' = Text(b) /\ Pending(b)' = Append(Pending(b), c)
  BY <1>2, <1>7, <1>8, <1>10, <1>13
<1>17. QED
  BY <1>1, <1>5, <1>6, <1>15, <1>16, AsPut DEF t, Simulated

LEMMA SlicePrefix ==
  ASSUME NEW f, NEW at \in Nat, NEW n \in Nat, NEW m \in 0..n,
         \A k \in at..(at + n - 1) : f[k] \in Cells
  PROVE  SubSeq(Slice(f, at, n), 1, m) = Slice(f, at, m)
<1> DEFINE s == Slice(f, at, n)
           u == Slice(f, at, m)
           v == SubSeq(s, 1, m)
<1>1. /\ s \in Seq(Cells) /\ Len(s) = n
      /\ \A j \in 1..n : s[j] = f[at + j - 1]
  BY SliceIs
<1>2. m \in Nat /\ \A k \in at..(at + m - 1) : f[k] \in Cells
  OBVIOUS
<1>3. /\ u \in Seq(Cells) /\ Len(u) = m
      /\ \A j \in 1..m : u[j] = f[at + j - 1]
  BY <1>2, SliceIs
<1> HIDE DEF s, u
<1>4. \A j \in 1..m : s[j] \in Cells
  BY <1>1
<1>5. /\ v \in Seq(Cells) /\ Len(v) = IF 1 <= m THEN m - 1 + 1 ELSE 0
      /\ \A j \in 1..(m - 1 + 1) : v[j] = s[1 + j - 1]
  BY <1>2, <1>4, SubSeqProperties
<1> HIDE DEF v
<1>6. Len(v) = m /\ \A j \in 1..m : v[j] = s[j]
  BY <1>2, <1>5
<1>7. v = u
  <2>1. \A j \in 1..m : v[j] = u[j]
    BY <1>1, <1>3, <1>6
  <2>2. QED
    BY <1>3, <1>5, <1>6, <2>1, SeqEqual
<1>8. QED
  BY <1>7 DEF s, u, v

LEMMA ReturnTailSimulated ==
  ASSUME IInv, NEW b \in Buffers, NEW drop \in 0..1, returnTail(b, drop)
  PROVE  Simulated
<1> USE DEF IInv, HeapInv
<1> DEFINE n == size(b)
           t == tail[b]
           f == mem[buf[b].m_buf]
           m == (t - drop) - n
<1>1. /\ Live(b) /\ t # NoTail /\ t - drop >= n /\ tail'[b] = NoTail
      /\ UNCHANGED <<status, mem>>
      /\ buf'[b].m_buf = buf[b].m_buf /\ buf'[b].m_bufEnd = t - drop
      /\ \A o \in Buffers : buf'[o].m_capacity = buf[o].m_capacity
      /\ \A o \in Buffers \ {b} : buf'[o] = buf[o] /\ tail'[o] = tail[o]
  BY DEF returnTail, TypeOK, size
<1>2. /\ n \in Nat /\ buf[b].m_capacity \in Nat /\ t \in n..buf[b].m_capacity
      /\ buf[b].m_capacity <= PtrdiffMax
      /\ Text(b) = Slice(f, 0, n) /\ Pending(b) = Slice(f, n, t - n)
      /\ \A k \in 0..SizeMax : f[k] \in Cells
  BY <1>1, ObjectView
<1>3. t \in Nat /\ t - n \in Nat /\ m \in 0..(t - n) /\ m \in Nat /\ n + m = t - drop
  BY <1>1, <1>2
<1>4. \A o \in Buffers \ {b} : Text(o)' = Text(o) /\ Pending(o)' = Pending(o)
  BY <1>1, OthersKeepView
<1>5. Pending(b)' = << >>
  BY <1>1 DEF Pending
<1>6. Text(b)' = Slice(f, 0, n + m)
  <2>1. Text(b)' = [i \in 1..(n + m) |-> f[i - 1]]
    BY <1>1, <1>3 DEF Text, size
  <2>2. n + m \in Nat
    BY <1>2, <1>3
  <2> HIDE DEF m, n, f
  <2>3. QED
    BY <2>1, <2>2, TextIsSlice
<1> HIDE DEF n, t, f, m
<1>7. /\ \A k \in 0..(0 + n + m - 1) : f[k] \in Cells
      /\ \A k \in n..(n + (t - n) - 1) : f[k] \in Cells
  BY <1>2, <1>3, ConstantTypes
<1>8. Slice(f, 0, n + m) = Slice(f, 0, n) \o Slice(f, n, m)
  <2>1. 0 \in Nat /\ n \in Nat /\ m \in Nat /\ 0 + n = n
    BY <1>2, <1>3
  <2>2. Slice(f, 0, n + m) = Slice(f, 0, n) \o Slice(f, 0 + n, m)
    BY <1>7, <2>1, SliceJoin
  <2>3. QED
    BY <2>1, <2>2
<1>9. SubSeq(Slice(f, n, t - n), 1, m) = Slice(f, n, m)
  BY <1>2, <1>3, <1>7, SlicePrefix
<1>10. Len(Pending(b)) = t - n
  <2>1. Len(Slice(f, n, t - n)) = t - n
    BY <1>2, <1>3, <1>7, SliceIs
  <2>2. QED
    BY <1>2, <2>1
<1>11. m \in 0..Len(Pending(b)) /\ Text(b)' = Text(b) \o SubSeq(Pending(b), 1, m)
  BY <1>2, <1>3, <1>6, <1>8, <1>9, <1>10
<1>12. QED
  BY <1>1, <1>4, <1>5, <1>11, AsReturn DEF t, Simulated

LEMMA BorrowTailSimulated ==
  ASSUME IInv, NEW b \in Buffers, borrowTail(b)
  PROVE  Simulated
<1> USE DEF IInv, HeapInv
<1>1. /\ Usable(b) /\ UNCHANGED <<mem, status, buf>> /\ tail'[b] = size(b)
      /\ \A o \in Buffers \ {b} : tail'[o] = tail[o]
  BY DEF borrowTail, TypeOK
<1>2. size(b) \in Nat /\ Pending(b) = << >>
  BY <1>1, ObjectView DEF Usable
<1>3. tail'[b] # NoTail /\ size(b)' = size(b)
  BY <1>1, <1>2 DEF NoTail, size
<1>4. \A o \in Buffers : Text(o)' = Text(o)
  BY <1>1 DEF Text, size
<1>5. Pending(b)' = << >>
  <2>1. Pending(b)' = [i \in 1..(size(b) - size(b)) |-> mem[buf[b].m_buf][size(b) + i - 1]]
    BY <1>1, <1>3 DEF Pending
  <2>2. 1..(size(b) - size(b)) = {}
    BY <1>2
  <2>3. QED
    BY <2>1, <2>2
<1>6. \A o \in Buffers \ {b} : Pending(o)' = Pending(o)
  BY <1>1 DEF Pending, size
<1>7. QED
  BY <1>1, <1>2, <1>3, <1>4, <1>5, <1>6, AsBorrow DEF Simulated

LEMMA ConstructSimulated ==
  ASSUME IInv, NEW b \in Buffers,
         construct(b) \/ \E n \in Requests : constructWithCapacity(b, n)
  PROVE  Simulated
<1> USE DEF IInv, HeapInv
<1>1. CASE construct(b)
  <2>1. /\ UNCHANGED <<mem, tail>> /\ ~Live(b) /\ Live(b)' /\ buf'[b] = Empty
        /\ \A o \in Buffers \ {b} : buf'[o] = buf[o] /\ Live(o)' = Live(o)
    BY <1>1 DEF construct, Live, TypeOK
  <2>2. \A o \in Buffers \ {b} : Text(o)' = Text(o) /\ Pending(o)' = Pending(o)
    BY <2>1, OthersKeepView
  <2>3. tail[b] = NoTail /\ Text(b) = << >>
    BY <2>1, ObjectView
  <2>4. Text(b)' = Text(b) /\ Pending(b)' = Pending(b)
    BY <2>1, <2>3, EmptyObject DEF Text, Pending, size
  <2>5. QED
    BY <2>1, <2>2, <2>4, AsCreate DEF Simulated
<1>2. ASSUME NEW n \in Requests, constructWithCapacity(b, n)
      PROVE  Simulated
  <2>1. CASE Throws("bad_alloc") /\ UNCHANGED <<heap, mem>>
    <3>1. UNCHANGED <<mem, status, buf, tail>>
      BY <2>1 DEF Throws
    <3>2. \A o \in Buffers : Text(o)' = Text(o) /\ Pending(o)' = Pending(o) /\ Live(o)' = Live(o)
      BY <3>1 DEF Text, Pending, size, Live
    <3>3. QED
      BY <3>1, <3>2, AsStutter DEF Simulated
  <2>2. ASSUME NEW bytes, NEW c, NEW ptr \in Blocks, realloc(NULL, bytes, ptr), status[b] = "none",
               buf' = [buf EXCEPT ![b] = [m_buf |-> ptr, m_bufEnd |-> 0, m_capacity |-> c]],
               status' = [status EXCEPT ![b] = "live"], UNCHANGED tail
        PROVE  Simulated
    <3>1. /\ heap[ptr] = 0
          /\ mem' = [y \in Blocks |-> IF y = ptr THEN Moved(NULL, bytes)
                                      ELSE IF y = NULL THEN Unwritten ELSE mem[y]]
      BY <2>2, ConstantTypes DEF realloc
    <3>2. /\ ~Live(b) /\ Live(b)' /\ buf'[b].m_bufEnd = 0
          /\ \A o \in Buffers \ {b} : buf'[o] = buf[o] /\ Live(o)' = Live(o)
      BY <2>2 DEF Live, TypeOK
    <3>3. \A o \in Buffers : buf[o].m_buf # NULL => mem'[buf[o].m_buf] = mem[buf[o].m_buf]
      BY <2>2, <3>1 DEF OwnershipOK, TypeOK
    <3>4. \A o \in Buffers \ {b} : Text(o)' = Text(o) /\ Pending(o)' = Pending(o)
      BY <2>2, <3>2, <3>3, OthersKeepView
    <3>5. tail[b] = NoTail /\ Text(b) = << >>
      BY <3>2, ObjectView
    <3>6. Text(b)' = Text(b) /\ Pending(b)' = Pending(b)
      <4>1. tail'[b] = NoTail /\ size(b)' = 0
        BY <2>2, <3>2, <3>5 DEF size
      <4>2. Text(b)' = << >>
        BY <4>1 DEF Text
      <4>3. QED
        BY <3>5, <4>1, <4>2 DEF Pending
    <3>7. QED
      BY <2>2, <3>2, <3>4, <3>6, AsCreate DEF Simulated
  <2>3. QED
    BY <1>2, <2>1, <2>2 DEF constructWithCapacity
<1>3. QED
  BY <1>1, <1>2

LEMMA MoveSimulated ==
  ASSUME IInv, NEW b \in Buffers, NEW o \in Buffers, moveConstruct(b, o) \/ moveAssign(b, o)
  PROVE  Simulated
<1> USE DEF IInv, HeapInv
<1>1. CASE moveConstruct(b, o)
  <2>1. /\ b # o /\ Usable(o) /\ ~Live(b) /\ Live(b)' /\ Live(o)' /\ UNCHANGED <<mem, tail>>
        /\ buf'[b] = buf[o] /\ buf'[o] = Empty
        /\ \A i \in Buffers \ {b, o} : buf'[i] = buf[i] /\ Live(i)' = Live(i)
    BY <1>1 DEF moveConstruct, Usable, Live, TypeOK
  <2>2. tail[b] = NoTail /\ tail[o] = NoTail
    BY <2>1 DEF ObjectOK, Usable
  <2>3. Text(b)' = Text(o) /\ Text(o)' = << >>
    BY <2>1, EmptyObject DEF Text, size
  <2>4. \A i \in Buffers \ {b, o} : Text(i)' = Text(i) /\ Pending(i)' = Pending(i)
    BY <2>1, OthersKeepView
  <2>5. Pending(b)' = Pending(b) /\ Pending(o)' = Pending(o)
    BY <2>1, <2>2 DEF Pending
  <2>6. QED
    BY <2>1, <2>3, <2>4, <2>5, EmptyObject, AsTransfer DEF Simulated
<1>2. CASE moveAssign(b, o)
  <2>1. /\ Usable(o) /\ Usable(b) /\ UNCHANGED <<mem, tail, status>>
        /\ buf'[b] = buf[o] /\ buf'[o] = buf[b]
        /\ \A i \in Buffers \ {b, o} : buf'[i] = buf[i]
    BY <1>2 DEF moveAssign, TypeOK
  <2>2. Text(b)' = Text(o) /\ Text(o)' = Text(b)
    BY <2>1 DEF Text, size
  <2>3. \A i \in Buffers \ {b, o} : Text(i)' = Text(i) /\ Pending(i)' = Pending(i)
    BY <2>1, OthersKeepView
  <2>4. Pending(b)' = Pending(b) /\ Pending(o)' = Pending(o)
    BY <2>1 DEF Pending, Usable
  <2>5. QED
    BY <2>1, <2>2, <2>3, <2>4, AsSwap DEF Simulated
<1>3. QED
  BY <1>1, <1>2

(* destroy() and detach(): what the buffer held is gone from it. *)
LEMMA DropSimulated ==
  ASSUME IInv, ~ReuseDetached, NEW b \in Buffers, destroy(b) \/ detach(b)
  PROVE  Simulated
<1> USE DEF IInv, HeapInv
<1>1. /\ buf'[b].m_bufEnd = 0 /\ ~Live(b)' /\ UNCHANGED tail
      /\ status[b] = "detached" \/ Usable(b)
      /\ \A o \in Buffers \ {b} : buf'[o] = buf[o] /\ Live(o)' = Live(o)
  BY EmptyObject DEF destroy, detach, Live, TypeOK
<1>2. \A o \in Buffers \ {b} : buf[o].m_buf # NULL => mem'[buf[o].m_buf] = mem[buf[o].m_buf]
  <2>1. CASE destroy(b)
    <3>1. mem' = [y \in Blocks |-> IF y = buf[b].m_buf THEN Unwritten ELSE mem[y]]
      BY <2>1 DEF destroy, free
    <3>2. \A o \in Buffers \ {b} : buf[o].m_buf # NULL => /\ buf[o].m_buf \in Blocks
                                                          /\ buf[o].m_buf # buf[b].m_buf
      BY DEF OwnershipOK, TypeOK
    <3>3. QED
      BY <3>1, <3>2
  <2>2. CASE detach(b)
    BY <2>2 DEF detach
  <2>3. QED
    BY <2>1, <2>2
<1>3. \A o \in Buffers \ {b} : Text(o)' = Text(o) /\ Pending(o)' = Pending(o)
  BY <1>1, <1>2, OthersKeepView
<1>4. tail[b] = NoTail
  BY <1>1 DEF Usable, ObjectOK, Live
<1>5. Text(b)' = << >> /\ Pending(b)' = Pending(b)
  BY <1>1, <1>4 DEF Text, Pending, size
<1>6. CASE Usable(b)
  BY <1>1, <1>3, <1>5, <1>6, AsDrop DEF Simulated
<1>7. CASE status[b] = "detached"
  <2>1. ~Live(b)
    BY <1>7 DEF Live
  <2>2. Text(b) = << >>
    BY <2>1, ObjectView
  <2>3. QED
    BY <1>1, <1>3, <1>5, <2>1, <2>2, AsStutter DEF Simulated, Live
<1>8. QED
  BY <1>1, <1>6, <1>7

LEMMA FreeGivenSimulated ==
  ASSUME IInv, NEW x \in given, freeGiven(x)
  PROVE  Simulated
<1> USE DEF IInv, HeapInv
<1>1. /\ UNCHANGED <<status, buf, tail>>
      /\ mem' = [y \in Blocks |-> IF y = x THEN Unwritten ELSE mem[y]]
  BY DEF freeGiven, free
<1>2. \A o \in Buffers : buf[o].m_buf # NULL => mem'[buf[o].m_buf] = mem[buf[o].m_buf]
  BY <1>1 DEF OwnershipOK, TypeOK
<1>3. \A o \in Buffers : Text(o)' = Text(o) /\ Pending(o)' = Pending(o)
  BY <1>1, <1>2, OthersKeepView
<1>4. QED
  BY <1>1, <1>3, AsStutter DEF Simulated, Live

LEMMA StepSimulated ==
  ASSUME AllocatorBound, ~ReuseDetached, IInv, TypeOK', [Next]_vars
  PROVE  Simulated
<1> USE DEF IInv, HeapInv
<1>1. CASE UNCHANGED <<heap, mem, status, buf, tail, given>>
  <2>1. \A o \in Buffers : Text(o)' = Text(o) /\ Pending(o)' = Pending(o) /\ Live(o)' = Live(o)
    BY <1>1 DEF Text, Pending, size, Live
  <2>2. QED
    BY <1>1, <2>1, AsStutter DEF Simulated
<1>2. CASE UNCHANGED vars
  BY <1>1, <1>2 DEF vars, bufVars
<1>3. ASSUME NEW b \in Buffers, NEW n \in Requests, reserve(b, n) PROVE Simulated
  <2>1. CASE /\ buf[b].m_capacity < n
             /\ nextStorageSize(n) # BadAlloc
             /\ Regrow(b, nextStorageSize(n))
    <3>1. buf[b].m_capacity \in Nat /\ n \in 1..SizeMax
      BY <2>1, ConstantTypes DEF TypeOK
    <3>2. nextStorageSize(n) \in (n + 1)..maxStorageSize
      BY <2>1, <3>1, NextStorageSize
    <3>3. nextStorageSize(n) \in 1..maxStorageSize /\ nextStorageSize(n) > buf[b].m_capacity
      BY <2>1, <3>1, <3>2, ConstantTypes
    <3>4. Usable(b)
      BY <1>3 DEF reserve
    <3>5. QED
      BY <2>1, <3>3, <3>4, RegrowSimulated
  <2>2. QED
    BY <1>1, <1>3, <2>1 DEF reserve, NeedsStorage, Throws
<1>4. ASSUME NEW b \in Buffers, reserveForOne(b) PROVE Simulated
  <2>1. CASE /\ buf[b].m_capacity # maxCapacity
             /\ Regrow(b, Wrap(nextCapacity(buf[b].m_capacity) + 1))
    <3> DEFINE c == buf[b].m_capacity
    <3>1. c \in 0..maxCapacity /\ Usable(b)
      BY <1>4, ConstantTypes DEF TypeOK, ObjectOK, reserveForOne
    <3>2. c = 0 \/ (c + 1) * CharSize <= MaxAlloc
      BY <3>1, ConstantTypes DEF ObjectOK, Usable, TypeOK
    <3>3. AllocMode = "pow2" => c + 1 \in Powers \cup {maxStorageSize}
      BY DEF ObjectOK
    <3>4. /\ nextCapacity(c) \in (c + 1)..maxCapacity
          /\ Wrap(nextCapacity(c) + 1) = nextCapacity(c) + 1
      BY <2>1, <3>1, <3>2, <3>3, NextCapacity
    <3>5. nextCapacity(c) + 1 \in 1..maxStorageSize /\ nextCapacity(c) + 1 > c
      BY <3>1, <3>4, ConstantTypes
    <3>6. QED
      BY <2>1, <3>1, <3>4, <3>5, RegrowSimulated
  <2>2. QED
    BY <1>1, <1>4, <2>1 DEF reserveForOne, Throws
<1>5. ASSUME NEW b \in Buffers, NEW s \in Inputs, append(b, s) PROVE Simulated
  <2>1. s \in Seq(Cells)
    BY BufferAssumption DEF Cells
  <2>2. QED
    BY <1>5, <2>1, AppendSimulated
<1>6. ASSUME NEW b \in Buffers,
             NEW from \in 0..buf[b].m_capacity, NEW n \in 0..buf[b].m_capacity,
             appendOwn(b, from, n)
      PROVE  Simulated
  <2>1. from \in Nat /\ n \in Nat
    BY ConstantTypes DEF TypeOK
  <2>2. QED
    BY <1>6, <2>1, AppendOwnSimulated
<1>7. ASSUME NEW b \in Buffers, NEW n \in 0..buf[b].m_capacity, resize(b, n) PROVE Simulated
  <2>1. n \in Nat /\ n <= buf[b].m_capacity
    BY ConstantTypes DEF TypeOK
  <2>2. QED
    BY <1>7, <2>1, ResizeSimulated DEF resize
<1>8. ASSUME NEW b \in Buffers, clear(b) PROVE Simulated
  <2>1. 0 \in Nat /\ 0 <= buf[b].m_capacity
    BY ConstantTypes DEF TypeOK
  <2>2. QED
    BY <1>8, <2>1, ResizeSimulated DEF clear
<1>9. ASSUME NEW b \in Buffers,
             \/ construct(b) \/ (\E n \in Requests : constructWithCapacity(b, n))
             \/ destroy(b) \/ detach(b) \/ c_str(b) \/ borrowTail(b)
      PROVE  Simulated
  BY <1>9, ConstructSimulated, DropSimulated, TerminatorSimulated, BorrowTailSimulated
<1>10. ASSUME NEW b \in Buffers, NEW o \in Buffers, moveConstruct(b, o) \/ moveAssign(b, o)
       PROVE  Simulated
  BY <1>10, MoveSimulated
<1>11. ASSUME NEW b \in Buffers, NEW c \in Chars, writeTail(b, c) PROVE Simulated
  BY <1>11, WriteTailSimulated
<1>12. ASSUME NEW b \in Buffers, NEW drop \in 0..1, returnTail(b, drop) PROVE Simulated
  BY <1>12, ReturnTailSimulated
<1>13. ASSUME NEW x \in given, freeGiven(x) PROVE Simulated
  BY <1>13, FreeGivenSimulated
<1>14. QED
  BY <1>2, <1>3, <1>4, <1>5, <1>6, <1>7, <1>8, <1>9, <1>10, <1>11, <1>12, <1>13 DEF Next

(* Buffers that share one heap are independent string builders: growing,   *)
(* moving, failing, terminating and detaching one never changes the text   *)
(* of another, and each text is what the calls on its buffer made it.      *)
THEOREM ImplementsTextBuilderAlways ==
  ASSUME AllocatorBound, ~ReuseDetached PROVE Spec => ImplementsTextBuilder
<1>1. Init => Builder!Init
  <2>1. SUFFICES ASSUME Init PROVE Builder!Init
    OBVIOUS
  <2>2. \A b \in Buffers : ~Live(b) /\ tail[b] = NoTail /\ size(b) = 0
    BY <2>1, EmptyObject DEF Init, Live, size
  <2>3. \A b \in Buffers : Text(b) = << >> /\ Pending(b) = << >>
    BY <2>2 DEF Text, Pending
  <2>4. QED
    BY <2>2, <2>3 DEF Builder!Init
<1>2. IInv /\ IInv' /\ [Next]_vars => Builder!Next \/ UNCHANGED absVars
  BY StepSimulated DEF Simulated, IInv, HeapInv
<1>3. UNCHANGED absVars => UNCHANGED Builder!vars
  BY DEF absVars, Builder!vars, absOpen, absLent, absText, absPending, absCap
<1>4. IInv /\ IInv' /\ [Next]_vars => [Builder!Next]_(Builder!vars)
  BY <1>2, <1>3
<1>5. QED
  BY <1>1, <1>4, Invariance, PTL DEF Spec, ImplementsTextBuilder, Builder!Spec

(***************************************************************************)
(* Strings and buffers on one heap.  HeapInv says of the buffers what it   *)
(* says of buffers alone; the blocks of strings count as those of others.  *)
(* StrInv says the same of strings.                                        *)
(***************************************************************************)
OfStrings == {str[s].m_str : s \in Strings} \ {NULL}
Others == given \cup OfStrings

StringOK(s) ==
  /\ s \notin made => str[s].m_str = NULL
  /\ str[s].m_str = NULL => str[s].m_size = 0
  /\ str[s].m_str # NULL =>
       /\ str[s].m_str \notin given
       /\ str[s].m_size * CharSize + 1 <= heap[str[s].m_str]

StrInv ==
  /\ made \subseteq Strings
  /\ str \in [Strings -> [m_str : Blocks \cup {NULL}, m_size : 0..SizeMax]]
  /\ \A s \in Strings : StringOK(s)
  /\ \A s, t \in Strings : s # t /\ str[s].m_str = str[t].m_str => str[s].m_str = NULL

StorageInv == HeapInv(Others) /\ StrInv

LEMMA StorageStarts == StorageInit => StorageInv
<1> SUFFICES ASSUME StorageInit PROVE StorageInv
  OBVIOUS
<1>1. IInv /\ given = {}
  BY InitInv DEF StorageInit, Init
<1>2. str = [s \in Strings |-> [m_str |-> NULL, m_size |-> 0]] /\ made = {}
  BY DEF StorageInit, S!StringsInit, S!Null
<1>3. Others = given
  BY <1>1, <1>2 DEF Others, OfStrings
<1>4. StrInv
  BY <1>2, ConstantTypes DEF StrInv, StringOK
<1>5. QED
  BY <1>1, <1>3, <1>4 DEF StorageInv, IInv

(***************************************************************************)
(* Steps of buffers.                                                       *)
(***************************************************************************)
(* They touch only blocks that are free, of a buffer or of the caller, and *)
(* give the caller only the block of a buffer.                             *)
LEMMA BuffersKeepOthers ==
  ASSUME TypeOK, Next,
         NEW x \in Blocks, heap[x] # 0, x \notin given, \A b \in Buffers : buf[b].m_buf # x
  PROVE  heap'[x] = heap[x] /\ mem'[x] = mem[x] /\ x \notin given'
<1> DEFINE Same(y) == heap'[y] = heap[y] /\ mem'[y] = mem[y]
<1>1. ASSUME NEW y, y # x, free(y) PROVE Same(x)
  BY <1>1 DEF free
<1>2. ASSUME NEW old, NEW bytes, NEW new, old # x, realloc(old, bytes, new)
      PROVE  Same(x)
  BY <1>2 DEF realloc
<1>3. ASSUME NEW b \in Buffers, NEW n, Regrow(b, n) PROVE Same(x) /\ UNCHANGED given
  <2>1. buf[b].m_buf # x
    OBVIOUS
  <2>2. QED
    BY <1>1, <1>2, <1>3, <2>1 DEF Regrow, reallocFails, Throws
<1>4. ASSUME NEW b \in Buffers, NEW n \in Requests, constructWithCapacity(b, n) \/ reserve(b, n)
      PROVE  Same(x) /\ UNCHANGED given
  <2>1. NULL # x
    BY ConstantTypes
  <2>2. QED
    BY <1>2, <1>3, <1>4, <2>1 DEF constructWithCapacity, reserve, Throws
<1>5. ASSUME NEW b \in Buffers, reserveForOne(b) PROVE Same(x) /\ UNCHANGED given
  BY <1>3, <1>5 DEF reserveForOne, Throws
<1>6. ASSUME NEW b \in Buffers, destroy(b) PROVE Same(x) /\ UNCHANGED given
  BY <1>1, <1>6 DEF destroy
<1>7. ASSUME NEW y \in given, freeGiven(y) PROVE Same(x) /\ x \notin given'
  BY <1>1, <1>7 DEF freeGiven
<1>8. ASSUME NEW b \in Buffers, detach(b) PROVE Same(x) /\ x \notin given'
  BY <1>8 DEF detach
<1>9. ASSUME NEW b \in Buffers, NEW at, NEW s, mem' = Written(b, at, s) PROVE mem'[x] = mem[x]
  BY <1>9 DEF Written
<1>10. ASSUME NEW b \in Buffers,
              \/ construct(b) \/ clear(b) \/ c_str(b) \/ borrowTail(b)
              \/ \E o \in Buffers : moveConstruct(b, o) \/ moveAssign(b, o)
              \/ \E s \in Inputs : append(b, s)
              \/ \E from, n \in 0..buf[b].m_capacity : appendOwn(b, from, n)
              \/ \E n \in 0..buf[b].m_capacity : resize(b, n)
              \/ \E c \in Chars : writeTail(b, c)
              \/ \E drop \in 0..1 : returnTail(b, drop)
       PROVE  Same(x) /\ UNCHANGED given
  <2>1. UNCHANGED <<heap, given>>
    BY <1>10 DEF construct, clear, c_str, borrowTail, moveConstruct, moveAssign, append,
                 appendOwn, resize, writeTail, returnTail
  <2>2. UNCHANGED mem \/ \E at, s : mem' = Written(b, at, s)
    BY <1>10 DEF construct, clear, c_str, borrowTail, moveConstruct, moveAssign, append,
                 appendOwn, resize, writeTail, returnTail
  <2>3. QED
    BY <1>9, <2>1, <2>2
<1>11. QED
  BY <1>4, <1>5, <1>6, <1>7, <1>8, <1>10 DEF Next

LEMMA BufferStep ==
  ASSUME AllocatorBound, ~ReuseDetached, StorageInv, Next, UNCHANGED stringVars
  PROVE  StorageInv'
<1>1. UNCHANGED <<str, made>>
  BY DEF stringVars
<1>2. OfStrings \subseteq Blocks /\ OfStrings \cap given = {} /\ Others \in SUBSET Blocks
  BY DEF StorageInv, StrInv, StringOK, OfStrings, Others, HeapInv, TypeOK
<1>3. ASSUME NEW x \in OfStrings PROVE heap'[x] = heap[x] /\ x \notin given'
  <2>1. x \in Others /\ x \notin given /\ x \in Blocks
    BY <1>2, <1>3 DEF Others
  <2>2. heap[x] # 0 /\ \A b \in Buffers : buf[b].m_buf # x
    BY <2>1 DEF StorageInv, HeapInv, OwnershipOK
  <2>3. QED
    BY <2>1, <2>2, BuffersKeepOthers DEF StorageInv, HeapInv
<1>4. StrInv'
  <2>1. \A s \in Strings : str[s].m_str # NULL => str[s].m_str \in OfStrings
    BY DEF OfStrings
  <2>2. QED
    BY <1>1, <1>3, <2>1 DEF StorageInv, StrInv, StringOK
<1>5. HeapInv(Others)'
  <2>1. SUFFICES ASSUME NEW H, H = Others' PROVE HeapInv(H)'
    BY DEF HeapInv, OwnershipOK
  <2>2. H = (Others \ given) \cup given'
    BY <1>1, <1>2, <2>1 DEF Others, OfStrings
  <2>3. given \subseteq Others
    BY DEF Others
  <2>4. QED
    BY <1>2, <2>2, <2>3, InvStep DEF StorageInv
<1>6. QED
  BY <1>4, <1>5 DEF StorageInv

(* SimpleString::move: the block of a buffer becomes the block of a string.*)
LEMMA MoveFromBufferStep ==
  ASSUME ~ReuseDetached, StorageInv, NEW s \in Strings, NEW b \in Buffers, moveFromBuffer(s, b)
  PROVE  StorageInv'
<1> DEFINE p == buf[b].m_buf
<1>1. /\ p \in Blocks \cup {NULL} /\ size(b) \in 0..SizeMax /\ OfStrings \subseteq Blocks
      /\ Others \in SUBSET Blocks /\ p \notin Others
  BY DEF StorageInv, StrInv, HeapInv, TypeOK, OwnershipOK, size, OfStrings, Others
<1>2. /\ str' = [str EXCEPT ![s] = [m_str |-> p, m_size |-> size(b)]]
      /\ made' = made \cup {s} /\ s \notin made /\ UNCHANGED <<heap, given>>
      /\ str[s].m_str = NULL
  BY DEF moveFromBuffer, StorageInv, StrInv, StringOK
<1>3. /\ str'[s].m_str = p /\ str'[s].m_size = size(b)
      /\ \A t \in Strings \ {s} : str'[t] = str[t]
  BY <1>2 DEF StorageInv, StrInv
<1>4. LosesBlock(b)
  BY DEF moveFromBuffer, LosesBlock
<1>5. TypeOK'
  <2>1. buf \in [Buffers -> Fields] /\ 0 \in 0..SizeMax
    BY ConstantTypes DEF StorageInv, HeapInv, TypeOK, Fields
  <2>2. buf' = [buf EXCEPT ![b].m_buf = NULL, ![b].m_bufEnd = 0]
    BY <1>4 DEF LosesBlock
  <2>3. buf' \in [Buffers -> Fields]
    BY <2>1, <2>2 DEF Fields
  <2>4. QED
    BY <1>2, <1>4, <2>3 DEF moveFromBuffer, LosesBlock, StorageInv, HeapInv, TypeOK, HeapTypeOK, Fields
<1>6. HeapInv(Others)'
  <2>1. SUFFICES ASSUME NEW H, H = Others' PROVE HeapInv(H)'
    BY DEF HeapInv, OwnershipOK
  <2>2. OfStrings' = OfStrings \cup ({p} \ {NULL})
    BY <1>2, <1>3 DEF OfStrings
  <2>3. H = Others \cup ({buf[b].m_buf} \ {NULL})
    BY <1>2, <2>1, <2>2 DEF Others
  <2>4. QED
    BY <1>1, <1>4, <1>5, <2>3, DetachInv DEF StorageInv
<1>7. StrInv'
  <2>1. str' \in [Strings -> [m_str : Blocks \cup {NULL}, m_size : 0..SizeMax]]
    BY <1>1, <1>2 DEF StorageInv, StrInv
  <2>2. \A t \in Strings \ {s} : str[t].m_str = NULL \/ str[t].m_str # p
    BY <1>1 DEF OfStrings, Others
  <2>3. StringOK(s)'
    <3>1. CASE p = NULL
      BY <1>2, <1>3, <3>1 DEF StringOK, StorageInv, HeapInv, ObjectOK
    <3>2. CASE p # NULL
      <4>1. (buf[b].m_capacity + 1) * CharSize = heap[p] /\ size(b) <= buf[b].m_capacity
        BY <3>2 DEF StorageInv, HeapInv, ObjectOK
      <4>2. size(b) * CharSize + 1 <= heap[p]
        <5> DEFINE m == size(b)
                   c == buf[b].m_capacity
        <5>1. m \in Nat /\ c \in Nat /\ CharSize \in Nat \ {0} /\ m <= c
          BY <1>1, <4>1, ConstantTypes DEF StorageInv, HeapInv, TypeOK
        <5> HIDE DEF m, c
        <5>2. m * CharSize <= c * CharSize /\ (c + 1) * CharSize = c * CharSize + CharSize
          BY <5>1
        <5>3. m * CharSize \in Nat /\ c * CharSize \in Nat
          BY <5>1
        <5>4. QED
          BY <4>1, <5>1, <5>2, <5>3 DEF m, c
      <4>3. QED
        BY <1>1, <1>2, <1>3, <3>2, <4>2 DEF StringOK, Others
    <3>3. QED
      BY <3>1, <3>2
  <2>4. ASSUME NEW t \in Strings \ {s} PROVE StringOK(t)'
    BY <1>2, <1>3 DEF StorageInv, StrInv, StringOK
  <2>5. QED
    BY <1>2, <1>3, <2>1, <2>2, <2>3, <2>4 DEF StorageInv, StrInv
<1>8. QED
  BY <1>6, <1>7 DEF StorageInv

(***************************************************************************)
(* Steps of strings.                                                       *)
(***************************************************************************)
(* Steps that do not touch the blocks of buffers.                          *)
LEMMA AwayFromBuffers ==
  ASSUME NEW G, HeapInv(G), TypeOK', UNCHANGED <<status, buf, tail>>, NEW H,
         \A b \in Buffers : buf[b].m_buf \notin H,
         \A b \in Buffers : buf[b].m_buf # NULL => heap'[buf[b].m_buf] = heap[buf[b].m_buf],
         \A x \in Blocks : (\A b \in Buffers : buf[b].m_buf # x) => (heap'[x] # 0 <=> x \in H)
  PROVE  HeapInv(H)'
<1>1. \A b \in Buffers : ObjectOK(b)'
  BY DEF HeapInv, ObjectOK, Live, size
<1>2. OwnershipOK(H)'
  <2>1. \A b \in Buffers : buf[b].m_buf # NULL => heap[buf[b].m_buf] # 0
    BY DEF HeapInv, OwnershipOK, TypeOK
  <2>2. NULL \notin Blocks
    BY ConstantTypes
  <2>3. QED
    BY <2>1, <2>2 DEF HeapInv, OwnershipOK
<1>3. QED
  BY <1>1, <1>2 DEF HeapInv

(* Steps that pass the blocks around among strings and the caller.         *)
LEMMA PassedOn ==
  ASSUME StorageInv, HeapTypeOK', UNCHANGED <<heap, status, buf, tail>>, Others' = Others,
         given' \subseteq Blocks, exc' \in {"none", "bad_alloc"}
  PROVE  HeapInv(Others)'
<1>1. TypeOK'
  BY DEF StorageInv, HeapInv, TypeOK
<1>2. SUFFICES ASSUME NEW H, H = Others' PROVE HeapInv(H)'
  BY DEF HeapInv, OwnershipOK
<1>3. HeapInv(Others) /\ H = Others
  BY <1>2 DEF StorageInv
<1>4. QED
  BY <1>1, <1>3, AwayFromBuffers DEF HeapInv, OwnershipOK

(* String s drops its block and takes p, a fresh block or one the caller   *)
(* owned, or NULL.                                                         *)
LEMMA Rebind ==
  ASSUME StorageInv, HeapTypeOK', UNCHANGED <<status, buf, tail>>, exc' \in {"none", "bad_alloc"},
         NEW s \in Strings, NEW p \in Blocks \cup {NULL}, NEW n \in 0..SizeMax,
         str' = [str EXCEPT ![s] = [m_str |-> p, m_size |-> n]],
         made' \cup {s} = made \cup {s},
         s \notin made' => p = NULL,
         p = NULL => n = 0,
         p # NULL => /\ heap[p] = 0 \/ p \in given
                     /\ heap'[p] # 0 /\ n * CharSize + 1 <= heap'[p],
         given' = given \ {p},
         \A x \in Blocks \ {p, str[s].m_str} : heap'[x] = heap[x],
         str[s].m_str # NULL => heap'[str[s].m_str] = 0
  PROVE  StorageInv'
<1> DEFINE old == str[s].m_str
<1>1. /\ TypeOK /\ NULL \notin Blocks /\ given \subseteq Blocks /\ OwnershipOK(Others)
      /\ old \in Blocks \cup {NULL} /\ OfStrings \subseteq Blocks
      /\ \A b \in Buffers : buf[b].m_buf \in Blocks \cup {NULL}
  BY ConstantTypes DEF StorageInv, StrInv, HeapInv, TypeOK, OfStrings
<1>2. /\ str'[s].m_str = p /\ str'[s].m_size = n
      /\ \A t \in Strings \ {s} : str'[t] = str[t]
  BY DEF StorageInv, StrInv
<1>3. \A t \in Strings : str[t].m_str # NULL =>
        str[t].m_str \in OfStrings /\ str[t].m_str \notin given /\ heap[str[t].m_str] # 0
  BY <1>1 DEF StorageInv, StrInv, StringOK, OfStrings, Others, OwnershipOK
<1>4. \A t \in Strings : str[t].m_str # NULL => str[t].m_str # p
  BY <1>3
<1>5. \A t \in Strings \ {s} : str[t].m_str # NULL => heap'[str[t].m_str] = heap[str[t].m_str]
  BY <1>1, <1>3, <1>4 DEF StorageInv, StrInv, OfStrings
<1>6. StrInv'
  <2>1. str' \in [Strings -> [m_str : Blocks \cup {NULL}, m_size : 0..SizeMax]]
    BY DEF StorageInv, StrInv
  <2>2. ASSUME NEW t \in Strings PROVE StringOK(t)'
    <3>1. CASE t = s
      BY <1>2, <3>1 DEF StringOK
    <3>2. CASE t # s
      BY <1>2, <1>3, <1>5, <3>2 DEF StorageInv, StrInv, StringOK
    <3>3. QED
      BY <3>1, <3>2
  <2>3. \A t, u \in Strings : t # u /\ str'[t].m_str = str'[u].m_str => str'[t].m_str = NULL
    BY <1>2, <1>4 DEF StorageInv, StrInv
  <2>4. QED
    BY <2>1, <2>2, <2>3 DEF StorageInv, StrInv
<1>7. Others' = (Others \ {old}) \cup ({p} \ {NULL})
  <2>1. OfStrings' = (OfStrings \ {old}) \cup ({p} \ {NULL})
    <3>1. ASSUME NEW t \in Strings \ {s}, str[t].m_str # NULL PROVE str[t].m_str # old
      BY <3>1 DEF StorageInv, StrInv
    <3>2. QED
      BY <1>2, <3>1 DEF OfStrings
  <2>2. old \notin given
    BY <1>1, <1>3
  <2>3. QED
    BY <1>1, <2>1, <2>2 DEF Others
<1>8. HeapInv(Others)'
  <2>1. SUFFICES ASSUME NEW H, H = Others' PROVE HeapInv(H)'
    BY DEF HeapInv, OwnershipOK
  <2>2. TypeOK'
    BY DEF StorageInv, HeapInv, TypeOK
  <2>3. p # NULL => \A b \in Buffers : buf[b].m_buf # p
    BY <1>1 DEF OwnershipOK, Others
  <2>4. \A b \in Buffers : buf[b].m_buf # NULL => buf[b].m_buf # old
    BY <1>1, <1>3 DEF OwnershipOK, Others
  <2>5. \A b \in Buffers : buf[b].m_buf \notin H
    BY <1>1, <1>7, <2>1, <2>3 DEF OwnershipOK
  <2>6. \A b \in Buffers : buf[b].m_buf # NULL => heap'[buf[b].m_buf] = heap[buf[b].m_buf]
    BY <1>1, <2>3, <2>4
  <2>7. ASSUME NEW x \in Blocks, \A b \in Buffers : buf[b].m_buf # x
        PROVE  heap'[x] # 0 <=> x \in H
    <3>1. heap[x] # 0 <=> x \in Others
      BY <1>1, <2>7 DEF OwnershipOK
    <3>2. x = old => x # p
      BY <1>1, <1>4
    <3>3. QED
      BY <1>1, <1>7, <2>1, <3>1, <3>2
  <2>8. HeapInv(Others)
    BY DEF StorageInv
  <2>9. QED
    BY <2>2, <2>5, <2>6, <2>7, <2>8, AwayFromBuffers
<1>9. QED
  BY <1>6, <1>8 DEF StorageInv

(* A text whose characters and terminator are within the range of size_t.  *)
Fitting(txt) == txt \in Seq(Cells) /\ Len(txt) * CharSize < SizeMax

LEMMA FittingLength ==
  ASSUME NEW txt, Fitting(txt)
  PROVE  /\ S!bytesFor(Len(txt)) = Len(txt) * CharSize + 1
         /\ Len(txt) \in 0..SizeMax /\ Len(txt) * CharSize \in Nat
<1>1. Len(txt) \in Nat /\ CharSize \in Nat \ {0} /\ SizeMax \in Nat
  BY ConstantTypes DEF Fitting
<1>2. Len(txt) <= Len(txt) * CharSize /\ Len(txt) * CharSize \in Nat
  BY <1>1
<1>3. Len(txt) * CharSize + 1 \in 0..SizeMax
  BY <1>1, <1>2 DEF Fitting
<1>4. QED
  BY <1>1, <1>2, <1>3 DEF S!bytesFor, S!Wrap, Fitting

LEMMA LiteralsFit == ASSUME NEW txt \in Literals PROVE Fitting(txt)
BY LiteralsAssumption DEF Fitting, Cells

(* What a string holds, or a part of it, fits a block again.               *)
LEMMA TextsFit ==
  ASSUME StorageInv, NEW o \in Strings
  PROVE  Fitting(S!Text(o)) /\ \A txt \in S!Parts(o) : Fitting(txt)
<1> DEFINE n == str[o].m_size
           x == str[o].m_str
<1>1. /\ n \in Nat /\ n <= SizeMax /\ x \in Blocks \cup {NULL}
      /\ CharSize \in Nat \ {0} /\ SizeMax \in Nat \ {0}
      /\ HeapTypeOK /\ StringOK(o)
  BY ConstantTypes, HeapAssumption DEF StorageInv, StrInv, HeapInv, TypeOK
<1>2. n * CharSize < SizeMax
  <2>1. CASE x = NULL
    BY <1>1, <2>1 DEF StringOK
  <2>2. CASE x # NULL
    <3>1. heap[x] \in 0..SizeMax /\ n * CharSize + 1 <= heap[x]
      BY <1>1, <2>2 DEF HeapTypeOK, StringOK
    <3>2. n * CharSize \in Nat
      BY <1>1
    <3>3. QED
      BY <1>1, <3>1, <3>2
  <2>3. QED
    BY <2>1, <2>2
<1>3. \A i \in 1..n : mem[x][i - 1] \in Cells
  <2>1. SUFFICES ASSUME NEW i \in 1..n PROVE mem[x][i - 1] \in Cells
    OBVIOUS
  <2>2. x \in Blocks /\ i - 1 \in 0..SizeMax
    BY <1>1 DEF StringOK
  <2>3. QED
    BY <1>1, <2>2 DEF HeapTypeOK
<1>4. S!Text(o) = [i \in 1..n |-> mem[x][i - 1]]
  BY DEF S!Text
<1> HIDE DEF n, x
<1>5. S!Text(o) \in Seq(Cells) /\ Len(S!Text(o)) = n
  BY <1>1, <1>3, <1>4
<1>6. ASSUME NEW i \in 1..n, NEW j \in 1..n PROVE Fitting(SubSeq(S!Text(o), i, j))
  <2>1. i \in Int /\ j \in Int /\ j <= n /\ 1 <= i
    BY <1>1
  <2>2. \A k \in i..j : S!Text(o)[k] \in Cells
    BY <1>1, <1>3, <1>4, <2>1
  <2>3. /\ SubSeq(S!Text(o), i, j) \in Seq(Cells)
        /\ Len(SubSeq(S!Text(o), i, j)) = IF i <= j THEN j - i + 1 ELSE 0
    BY <2>1, <2>2, SubSeqProperties
  <2>4. Len(SubSeq(S!Text(o), i, j)) \in Nat /\ Len(SubSeq(S!Text(o), i, j)) <= n
    BY <1>1, <2>1, <2>3
  <2>5. ASSUME NEW m \in Nat, m <= n PROVE m * CharSize <= n * CharSize
    BY <1>1, <2>5
  <2>6. Len(SubSeq(S!Text(o), i, j)) * CharSize <= n * CharSize
    BY <2>4, <2>5
  <2>7. ASSUME NEW m \in Nat, m * CharSize <= n * CharSize PROVE m * CharSize < SizeMax
    <3>1. m * CharSize \in Nat /\ n * CharSize \in Nat
      BY <1>1
    <3>2. QED
      BY <1>1, <1>2, <2>7, <3>1
  <2>8. QED
    BY <2>3, <2>4, <2>6, <2>7 DEF Fitting
<1>7. Fitting(S!Text(o))
  BY <1>2, <1>5 DEF Fitting
<1>8. \A txt \in S!Parts(o) : \E i, j \in 1..n : txt = SubSeq(S!Text(o), i, j)
  BY DEF S!Parts, n
<1>9. QED
  BY <1>6, <1>7, <1>8

(* Freeing and replacing keep the types of the heap.                       *)
LEMMA HeapTypes ==
  ASSUME HeapTypeOK
  PROVE  /\ \A x : S!free(x) => HeapTypeOK'
         /\ \A old, txt, new : Fitting(txt) /\ S!replaceBlock(old, txt, new) => HeapTypeOK'
         /\ \A s \in Strings : S!c_str(s) => HeapTypeOK'
<1>1. \A x : S!free(x) => HeapTypeOK'
  BY FreeType DEF S!free, S!Unwritten, free, Unwritten
<1>2. ASSUME NEW old, NEW txt, NEW new, Fitting(txt), S!replaceBlock(old, txt, new)
      PROVE  HeapTypeOK'
  <2>1. S!Holding(txt) \in [0..SizeMax -> Cells]
    <3>1. \A i \in 0..SizeMax : i < Len(txt) => txt[i + 1] \in Cells
      <4>1. Len(txt) \in Nat /\ txt \in Seq(Cells) /\ SizeMax \in Nat
        BY <1>2, ConstantTypes DEF Fitting
      <4>2. QED
        BY <4>1
    <3>2. QED
      BY <3>1 DEF S!Holding, Cells
  <2>2. S!bytesFor(Len(txt)) \in 0..SizeMax
    <3>1. Len(txt) * CharSize + 1 \in 0..SizeMax
      BY <1>2, FittingLength, ConstantTypes DEF Fitting
    <3>2. QED
      BY <1>2, <3>1, FittingLength
  <2>3. heap' \in [Blocks -> 0..SizeMax]
    BY <1>2, <2>2, ConstantTypes DEF S!replaceBlock, HeapTypeOK
  <2>4. mem' \in [Blocks -> [0..SizeMax -> Cells]]
    BY <1>2, <2>1 DEF S!replaceBlock, HeapTypeOK, S!Unwritten, Cells
  <2>5. QED
    BY <2>3, <2>4 DEF HeapTypeOK
<1>3. ASSUME NEW s \in Strings, S!c_str(s) PROVE HeapTypeOK'
  <2> DEFINE x == str[s].m_str
             n == str[s].m_size
  <2>1. CASE x = NULL
    BY <1>3, <2>1 DEF S!c_str, HeapTypeOK
  <2>2. CASE x # NULL
    <3>1. mem' = [mem EXCEPT ![x] = [@ EXCEPT ![n] = Nul]] /\ UNCHANGED heap
      BY <1>3, <2>2 DEF S!c_str
    <3> HIDE DEF x, n
    <3>2. ASSUME NEW c \in [0..SizeMax -> Cells] PROVE [c EXCEPT ![n] = Nul] \in [0..SizeMax -> Cells]
      BY DEF Cells
    <3>3. x \in Blocks => [mem[x] EXCEPT ![n] = Nul] \in [0..SizeMax -> Cells]
      BY <3>2 DEF HeapTypeOK
    <3>4. QED
      BY <3>1, <3>3 DEF HeapTypeOK
  <2>3. QED
    BY <2>1, <2>2
<1>4. QED
  BY <1>1, <1>2, <1>3

(* A call that throws leaves the strings and the heap.                     *)
LEMMA ThrowsStep ==
  ASSUME StorageInv, S!StringThrows, UNCHANGED <<status, buf, tail>>
  PROVE  StorageInv'
<1>1. UNCHANGED <<heap, mem, given, str, made>> /\ exc' = "bad_alloc"
  BY DEF S!StringThrows
<1>2. Others' = Others /\ HeapTypeOK' /\ given' \subseteq Blocks
  BY <1>1 DEF Others, OfStrings, StorageInv, HeapInv, TypeOK, HeapTypeOK
<1>3. HeapInv(Others)'
  BY <1>1, <1>2, PassedOn
<1>4. StrInv'
  BY <1>1 DEF StorageInv, StrInv, StringOK
<1>5. QED
  BY <1>3, <1>4 DEF StorageInv

(* A text that fits replaces the block of s, which may have none.          *)
LEMMA ReplaceStep ==
  ASSUME StorageInv, UNCHANGED <<status, buf, tail, given>>, exc' = "none",
         NEW s \in Strings, NEW txt, Fitting(txt), NEW new \in Blocks,
         S!replaceBlock(str[s].m_str, txt, new),
         str' = [str EXCEPT ![s] = S!Fields(new, Len(txt))],
         s \in made', made' \cup {s} = made \cup {s}
  PROVE  StorageInv'
<1>1. HeapTypeOK'
  BY HeapTypes DEF StorageInv, HeapInv, TypeOK
<1>2. /\ heap[new] = 0 /\ new # NULL /\ Len(txt) \in 0..SizeMax /\ Len(txt) * CharSize \in Nat
      /\ heap' = [y \in Blocks |-> IF y = new THEN Len(txt) * CharSize + 1
                                   ELSE IF y = str[s].m_str THEN 0 ELSE heap[y]]
  BY FittingLength, ConstantTypes DEF S!replaceBlock
<1>3. str' = [str EXCEPT ![s] = [m_str |-> new, m_size |-> Len(txt)]]
  BY DEF S!Fields
<1>4. str[s].m_str # NULL => str[s].m_str # new /\ str[s].m_str \in Blocks
  BY <1>2 DEF StorageInv, StrInv, HeapInv, OwnershipOK, Others, OfStrings
<1>5. given' = given \ {new}
  BY <1>2 DEF StorageInv, HeapInv, OwnershipOK, Others
<1>6. /\ \A x \in Blocks \ {new, str[s].m_str} : heap'[x] = heap[x]
      /\ str[s].m_str # NULL => heap'[str[s].m_str] = 0
      /\ heap'[new] # 0 /\ Len(txt) * CharSize + 1 <= heap'[new]
  BY <1>2, <1>4
<1>7. new \in Blocks \cup {NULL} /\ exc' \in {"none", "bad_alloc"}
  OBVIOUS
<1>8. QED
  BY <1>1, <1>2, <1>3, <1>5, <1>6, <1>7, Rebind

(* The block of s is freed, if it has one.                                 *)
LEMMA DropStep ==
  ASSUME StorageInv, UNCHANGED <<status, buf, tail, given>>, exc' = "none",
         NEW s \in Strings, S!free(str[s].m_str),
         str' = [str EXCEPT ![s] = S!Null],
         made' \cup {s} = made \cup {s}
  PROVE  StorageInv'
<1>1. HeapTypeOK'
  BY HeapTypes DEF StorageInv, HeapInv, TypeOK
<1>2. /\ \A x \in Blocks \ {NULL, str[s].m_str} : heap'[x] = heap[x]
      /\ str[s].m_str # NULL => heap'[str[s].m_str] = 0
  BY DEF S!free, StorageInv, StrInv
<1>3. str' = [str EXCEPT ![s] = [m_str |-> NULL, m_size |-> 0]] /\ 0 \in 0..SizeMax
  BY ConstantTypes DEF S!Null
<1>4. given' = given \ {NULL}
  BY ConstantTypes DEF StorageInv, HeapInv, TypeOK
<1>5. QED
  BY <1>1, <1>2, <1>3, <1>4, Rebind

LEMMA ConstructStep ==
  ASSUME StorageInv, UNCHANGED <<status, buf, tail>>, NEW s \in Strings, S!construct(s)
  PROVE  StorageInv'
<1>1. /\ str[s].m_str = NULL /\ UNCHANGED <<heap, mem, given>> /\ exc' = "none"
      /\ str' = [str EXCEPT ![s] = [m_str |-> NULL, m_size |-> 0]]
      /\ made' \cup {s} = made \cup {s}
  BY DEF S!construct, S!Null, StorageInv, StrInv, StringOK
<1>2. /\ HeapTypeOK' /\ given' = given \ {NULL} /\ 0 \in 0..SizeMax
      /\ NULL \in Blocks \cup {NULL} /\ exc' \in {"none", "bad_alloc"}
  BY <1>1, ConstantTypes DEF StorageInv, HeapInv, TypeOK, HeapTypeOK
<1>3. \A x \in Blocks \ {NULL, str[s].m_str} : heap'[x] = heap[x]
  BY <1>1
<1>4. QED
  BY <1>1, <1>2, <1>3, Rebind

LEMMA ConstructFromStep ==
  ASSUME StorageInv, UNCHANGED <<status, buf, tail>>,
         NEW s \in Strings, NEW txt, Fitting(txt), S!constructFrom(s, txt)
  PROVE  StorageInv'
<1>1. ASSUME NEW new \in Blocks,
             S!replaceBlock(NULL, txt, new),
             str' = [str EXCEPT ![s] = S!Fields(new, Len(txt))],
             made' = made \cup {s}, exc' = "none", UNCHANGED given
      PROVE  StorageInv'
  <2>1. str[s].m_str = NULL
    BY DEF S!constructFrom, StorageInv, StrInv, StringOK
  <2>2. s \in made' /\ made' \cup {s} = made \cup {s}
    BY <1>1
  <2>3. QED
    BY <1>1, <2>1, <2>2, ReplaceStep
<1>2. QED
  BY <1>1, ThrowsStep DEF S!constructFrom

LEMMA AssignStep ==
  ASSUME StorageInv, UNCHANGED <<status, buf, tail>>,
         NEW s \in Strings, NEW txt, Fitting(txt), S!assign(s, txt)
  PROVE  StorageInv'
<1>1. ASSUME NEW new \in Blocks,
             S!replaceBlock(str[s].m_str, txt, new),
             str' = [str EXCEPT ![s] = S!Fields(new, Len(txt))],
             exc' = "none", UNCHANGED <<given, made>>
      PROVE  StorageInv'
  <2>1. s \in made' /\ made' \cup {s} = made \cup {s}
    BY <1>1 DEF S!assign
  <2>2. QED
    BY <1>1, <2>1, ReplaceStep
<1>2. QED
  BY <1>1, ThrowsStep DEF S!assign

(* The pointer of o goes to s, which has none.                             *)
LEMMA MoveStep ==
  ASSUME StorageInv, UNCHANGED <<heap, mem, given, status, buf, tail>>, exc' = "none",
         NEW s \in Strings, NEW o \in Strings, str[s].m_str = NULL,
         str' = [str EXCEPT ![s] = str[o], ![o] = S!Null],
         o \in made, made' = made \cup {s}
  PROVE  StorageInv'
<1>1. S!Null.m_str = NULL /\ S!Null.m_size = 0
  BY DEF S!Null
<1>2. /\ str \in [Strings -> [m_str : Blocks \cup {NULL}, m_size : 0..SizeMax]]
      /\ \A t \in Strings : StringOK(t)
      /\ \A t, u \in Strings : t # u /\ str[t].m_str = str[u].m_str => str[t].m_str = NULL
  BY DEF StorageInv, StrInv
<1>3. /\ str'[o] = S!Null
      /\ s # o => str'[s] = str[o]
      /\ \A t \in Strings \ {s, o} : str'[t] = str[t]
  BY <1>2
<1>4. StrInv'
  <2>1. str' \in [Strings -> [m_str : Blocks \cup {NULL}, m_size : 0..SizeMax]]
    <3>1. S!Null \in [m_str : Blocks \cup {NULL}, m_size : 0..SizeMax]
      BY ConstantTypes DEF S!Null
    <3>2. QED
      BY <1>2, <3>1
  <2>2. ASSUME NEW t \in Strings PROVE StringOK(t)'
    <3>1. CASE t = o
      BY <1>1, <1>3, <3>1 DEF StringOK
    <3>2. CASE t = s /\ s # o
      BY <1>2, <1>3, <3>2 DEF StringOK
    <3>3. CASE t \notin {s, o}
      BY <1>2, <1>3, <3>3 DEF StringOK
    <3>4. QED
      BY <3>1, <3>2, <3>3
  <2>3. \A t, u \in Strings : t # u /\ str'[t].m_str = str'[u].m_str => str'[t].m_str = NULL
    BY <1>1, <1>2, <1>3
  <2>4. QED
    BY <2>1, <2>2, <2>3 DEF StorageInv, StrInv
<1>5. OfStrings' = OfStrings
  <2>1. ASSUME NEW x, x # NULL
        PROVE  (\E t \in Strings : str'[t].m_str = x) <=> (\E t \in Strings : str[t].m_str = x)
    <3>1. ASSUME NEW t \in Strings, str'[t].m_str = x PROVE \E u \in Strings : str[u].m_str = x
      BY <1>1, <1>3, <2>1, <3>1
    <3>2. ASSUME NEW t \in Strings, str[t].m_str = x PROVE \E u \in Strings : str'[u].m_str = x
      BY <1>1, <1>3, <2>1, <3>2
    <3>3. QED
      BY <3>1, <3>2
  <2>2. \A x : x \in OfStrings <=> x # NULL /\ \E t \in Strings : str[t].m_str = x
    BY DEF OfStrings
  <2>3. \A x : x \in OfStrings' <=> x # NULL /\ \E t \in Strings : str'[t].m_str = x
    BY DEF OfStrings
  <2>4. QED
    BY <2>1, <2>2, <2>3
<1>6. HeapInv(Others)'
  BY <1>5, PassedOn DEF Others, StorageInv, HeapInv, TypeOK, HeapTypeOK
<1>7. QED
  BY <1>4, <1>6 DEF StorageInv

(* detach(): the block becomes the caller's.                               *)
LEMMA StringDetachStep ==
  ASSUME StorageInv, UNCHANGED <<status, buf, tail>>, NEW s \in Strings, S!detach(s)
  PROVE  StorageInv'
<1> DEFINE old == str[s].m_str
<1>1. /\ given' = given \cup ({old} \ {NULL}) /\ UNCHANGED <<heap, mem, made>> /\ exc' = "none"
      /\ str' = [str EXCEPT ![s] = [m_str |-> NULL, m_size |-> 0]]
  BY DEF S!detach, S!Null
<1>2. /\ str \in [Strings -> [m_str : Blocks \cup {NULL}, m_size : 0..SizeMax]]
      /\ \A t \in Strings : StringOK(t)
      /\ \A t, u \in Strings : t # u /\ str[t].m_str = str[u].m_str => str[t].m_str = NULL
  BY DEF StorageInv, StrInv
<1>3. /\ str'[s].m_str = NULL /\ str'[s].m_size = 0
      /\ \A t \in Strings \ {s} : str'[t] = str[t]
  BY <1>1, <1>2
<1>4. StrInv'
  <2>1. str' \in [Strings -> [m_str : Blocks \cup {NULL}, m_size : 0..SizeMax]]
    BY <1>1, <1>2, ConstantTypes
  <2>2. ASSUME NEW t \in Strings PROVE StringOK(t)'
    BY <1>1, <1>2, <1>3 DEF StringOK
  <2>3. QED
    BY <1>1, <1>2, <1>3, <2>1, <2>2 DEF StorageInv, StrInv
<1>5. Others' = Others
  <2>1. OfStrings' = OfStrings \ {old}
    BY <1>2, <1>3 DEF OfStrings
  <2>2. old # NULL => old \in OfStrings
    BY DEF OfStrings
  <2>3. NULL \notin OfStrings
    BY DEF OfStrings
  <2>4. QED
    BY <1>1, <2>1, <2>2, <2>3 DEF Others
<1>6. HeapTypeOK' /\ given' \subseteq Blocks
  BY <1>1, <1>2 DEF StorageInv, HeapInv, TypeOK, HeapTypeOK
<1>7. HeapInv(Others)'
  BY <1>1, <1>5, <1>6, PassedOn
<1>8. QED
  BY <1>4, <1>7 DEF StorageInv

(* attach(): the string takes a block the caller owned.                    *)
LEMMA AttachStep ==
  ASSUME StorageInv, UNCHANGED <<status, buf, tail>>, NEW s \in Strings, NEW x \in given,
         NEW n \in 0..(heap[x] \div CharSize - 1), S!attach(s, x, n)
  PROVE  StorageInv'
<1>1. /\ S!free(str[s].m_str) /\ given' = given \ {x} /\ UNCHANGED made /\ exc' = "none"
      /\ str' = [str EXCEPT ![s] = [m_str |-> x, m_size |-> n]] /\ s \in made
      /\ (n + 1) * CharSize <= heap[x]
  BY DEF S!attach, S!Fields
<1>2. /\ x \in Blocks /\ NULL \notin Blocks /\ heap[x] \in 0..SizeMax /\ heap[x] # 0
      /\ x # str[s].m_str
  BY ConstantTypes DEF StorageInv, StrInv, StringOK, HeapInv, TypeOK, HeapTypeOK, OwnershipOK, Others
<1>3. HeapTypeOK'
  BY <1>1, HeapTypes DEF StorageInv, HeapInv, TypeOK
<1>4. heap' = [y \in Blocks |-> IF y = str[s].m_str THEN 0 ELSE heap[y]]
  BY <1>1 DEF S!free
<1>5. n \in 0..SizeMax /\ n * CharSize + 1 <= heap[x]
  <2>1. n \in Nat /\ CharSize \in Nat \ {0} /\ SizeMax \in Nat /\ heap[x] \in Nat /\ heap[x] <= SizeMax
    BY <1>2, ConstantTypes
  <2>2. n + 1 <= (n + 1) * CharSize /\ (n + 1) * CharSize = n * CharSize + CharSize
    BY <2>1
  <2>3. n * CharSize \in Nat
    BY <2>1
  <2>4. QED
    BY <1>1, <2>1, <2>2, <2>3
<1>6. /\ heap'[x] = heap[x] /\ x \in Blocks \cup {NULL} /\ exc' \in {"none", "bad_alloc"}
      /\ \A y \in Blocks \ {x, str[s].m_str} : heap'[y] = heap[y]
      /\ str[s].m_str # NULL => heap'[str[s].m_str] = 0
  BY <1>1, <1>2, <1>4 DEF StorageInv, StrInv
<1>7. heap'[x] # 0 /\ n * CharSize + 1 <= heap'[x]
  BY <1>2, <1>5, <1>6
<1>8. QED
  BY <1>1, <1>2, <1>3, <1>5, <1>6, <1>7, Rebind

(* c_str() writes a character and nothing else.                            *)
LEMMA StringTerminateStep ==
  ASSUME StorageInv, UNCHANGED <<status, buf, tail>>, NEW s \in Strings, S!c_str(s)
  PROVE  StorageInv'
<1>1. UNCHANGED <<heap, given, str, made>> /\ exc' = "none"
  BY DEF S!c_str, S!stringVars
<1>2. HeapTypeOK' /\ Others' = Others /\ given' \subseteq Blocks
  BY <1>1, HeapTypes DEF StorageInv, HeapInv, TypeOK, Others, OfStrings
<1>3. HeapInv(Others)'
  BY <1>1, <1>2, PassedOn
<1>4. StrInv'
  BY <1>1 DEF StorageInv, StrInv, StringOK
<1>5. QED
  BY <1>3, <1>4 DEF StorageInv

LEMMA StringStep ==
  ASSUME ~MoveOntoOwner, StorageInv, S!StringsNext, UNCHANGED <<status, buf, tail>>
  PROVE  StorageInv'
<1>1. PICK s \in Strings :
        \/ S!construct(s) \/ S!destroy(s)
        \/ \E txt \in Literals : S!constructFrom(s, txt) \/ S!assignText(s, txt)
        \/ \E o \in Strings :
             \/ S!copyConstruct(s, o) \/ S!moveConstruct(s, o)
             \/ S!copyAssign(s, o) \/ S!moveAssign(s, o)
             \/ o \in made /\ \E txt \in S!Parts(o) : S!constructFrom(s, txt) \/ S!assignText(s, txt)
        \/ \E x \in given : \E n \in 0..(heap[x] \div CharSize - 1) : S!attach(s, x, n)
        \/ S!detach(s) \/ S!clear(s) \/ S!c_str(s)
  BY DEF S!StringsNext
<1>2. ASSUME NEW txt, Fitting(txt), S!constructFrom(s, txt) \/ S!assignText(s, txt)
      PROVE  StorageInv'
  BY <1>2, ConstructFromStep, AssignStep DEF S!assignText
<1>3. CASE S!construct(s)
  BY <1>3, ConstructStep
<1>4. CASE S!destroy(s)
  BY <1>4, DropStep DEF S!destroy
<1>5. CASE S!clear(s)
  BY <1>5, DropStep DEF S!clear
<1>6. CASE \E txt \in Literals : S!constructFrom(s, txt) \/ S!assignText(s, txt)
  BY <1>2, <1>6, LiteralsFit
<1>7. ASSUME NEW o \in Strings, S!copyConstruct(s, o) PROVE StorageInv'
  BY <1>2, <1>7, TextsFit, ConstructStep DEF S!copyConstruct
<1>8. ASSUME NEW o \in Strings, S!copyAssign(s, o) PROVE StorageInv'
  BY <1>8, TextsFit, AssignStep DEF S!copyAssign
<1>9. ASSUME NEW o \in Strings, S!moveConstruct(s, o) PROVE StorageInv'
  <2>1. str[s].m_str = NULL
    BY <1>9 DEF S!moveConstruct, StorageInv, StrInv, StringOK
  <2>2. QED
    BY <1>9, <2>1, MoveStep DEF S!moveConstruct
<1>10. ASSUME NEW o \in Strings, S!moveAssign(s, o) PROVE StorageInv'
  <2>1. made' = made \cup {s}
    BY <1>10 DEF S!moveAssign
  <2>2. QED
    BY <1>10, <2>1, MoveStep DEF S!moveAssign
<1>11. ASSUME NEW o \in Strings, NEW txt \in S!Parts(o),
              S!constructFrom(s, txt) \/ S!assignText(s, txt)
       PROVE  StorageInv'
  BY <1>2, <1>11, TextsFit
<1>12. CASE \E x \in given : \E n \in 0..(heap[x] \div CharSize - 1) : S!attach(s, x, n)
  BY <1>12, AttachStep
<1>13. CASE S!detach(s)
  BY <1>13, StringDetachStep
<1>14. CASE S!c_str(s)
  BY <1>14, StringTerminateStep
<1>15. QED
  BY <1>1, <1>3, <1>4, <1>5, <1>6, <1>7, <1>8, <1>9, <1>10, <1>11, <1>12, <1>13, <1>14

LEMMA StorageInvariance ==
  ASSUME AllocatorBound, ~ReuseDetached, ~MoveOntoOwner
  PROVE  StorageSpec => []StorageInv
<1>1. ASSUME StorageInv, [StorageNext]_allVars PROVE StorageInv'
  <2>1. CASE Next /\ UNCHANGED stringVars
    BY <1>1, <2>1, BufferStep
  <2>2. CASE S!StringsNext /\ UNCHANGED <<status, buf, tail>>
    BY <1>1, <2>2, StringStep
  <2>3. ASSUME NEW s \in Strings, NEW b \in Buffers, moveFromBuffer(s, b) PROVE StorageInv'
    BY <1>1, <2>3, MoveFromBufferStep
  <2>4. CASE UNCHANGED allVars
    BY <1>1, <2>4 DEF allVars, vars, bufVars, stringVars, StorageInv, StrInv, StringOK, HeapInv,
                      TypeOK, HeapTypeOK, ObjectOK, OwnershipOK, Others, OfStrings, Live, size
  <2>5. QED
    BY <1>1, <2>1, <2>2, <2>3, <2>4 DEF StorageNext
<1>2. QED
  BY <1>1, StorageStarts, PTL DEF StorageSpec

(***************************************************************************)
(* The theorems.                                                           *)
(***************************************************************************)
(* However blocks are passed on among buffers, strings and the caller, an  *)
(* allocated one has exactly one owner and a freed one none.               *)
THEOREM StorageOwnedOnceAlways ==
  ASSUME AllocatorBound, ~ReuseDetached, ~MoveOntoOwner
  PROVE  StorageSpec => []StorageOwnedOnce
<1>1. ASSUME StorageInv, NEW x \in Blocks
      PROVE  Cardinality(OwnedBy(x)) = IF heap[x] = 0 THEN 0 ELSE 1
  <2> DEFINE B == {b \in Buffers : buf[b].m_buf = x}
             T == {s \in Strings : str[s].m_str = x}
             C == {g \in given : g = x}
  <2>1. /\ x # NULL /\ given \subseteq Blocks
        /\ heap[x] # 0 <=> B # {} \/ T # {} \/ C # {}
        /\ T # {} => C = {}
        /\ B # {} => T = {} /\ C = {}
    <3>1. x # NULL /\ given \subseteq Blocks
      BY ConstantTypes, <1>1 DEF StorageInv, HeapInv, TypeOK
    <3>2. x \in Others <=> T # {} \/ C # {}
      BY <3>1 DEF Others, OfStrings
    <3>3. heap[x] # 0 <=> x \in Others \/ B # {}
      BY <1>1 DEF StorageInv, HeapInv, OwnershipOK
    <3>4. B # {} => x \notin Others
      BY <1>1 DEF StorageInv, HeapInv, OwnershipOK
    <3>5. T # {} => C = {}
      BY <1>1, <3>1 DEF StorageInv, StrInv, StringOK
    <3>6. QED
      BY <3>1, <3>2, <3>3, <3>4, <3>5
  <2>2. \A b, o \in B : b = o
    BY <1>1, <2>1 DEF StorageInv, HeapInv, OwnershipOK
  <2>3. \A s, t \in T : s = t
    BY <1>1, <2>1 DEF StorageInv, StrInv
  <2>4. OwnedBy(x) = B \cup T \cup C
    BY DEF OwnedBy
  <2>5. C # {} => C = {x}
    OBVIOUS
  <2> HIDE DEF B, T, C
  <2>6. CASE heap[x] = 0
    BY <2>1, <2>4, <2>6, FS_EmptySet
  <2>7. CASE heap[x] # 0
    <3>1. \E y : OwnedBy(x) = {y}
      <4>1. CASE B # {}
        BY <2>1, <2>2, <2>4, <4>1
      <4>2. CASE T # {}
        BY <2>1, <2>3, <2>4, <4>2
      <4>3. CASE C # {}
        BY <2>1, <2>4, <2>5, <4>3
      <4>4. QED
        BY <2>1, <2>7, <4>1, <4>2, <4>3
    <3>2. QED
      BY <2>7, <3>1, FS_Singleton
  <2>8. QED
    BY <2>6, <2>7
<1>2. StorageInv => StorageOwnedOnce
  BY <1>1 DEF StorageOwnedOnce
<1>3. QED
  BY <1>2, StorageInvariance, PTL

(* The terminator of a string is within the block, for one-byte characters *)
(* and whichever way the string got the block.                             *)
THEOREM TerminatorFitsAlways ==
  ASSUME AllocatorBound, ~ReuseDetached, ~MoveOntoOwner, CharSize = 1
  PROVE  StorageSpec => []TerminatorFits
<1>1. ASSUME StorageInv, NEW s \in Strings, str[s].m_str # NULL
      PROVE  (str[s].m_size + 1) * CharSize <= heap[str[s].m_str]
  <2>1. str[s].m_size \in Nat /\ str[s].m_size * CharSize + 1 <= heap[str[s].m_str]
    BY <1>1, ConstantTypes DEF StorageInv, StrInv, StringOK
  <2>2. QED
    BY <2>1
<1>2. ASSUME StorageInv PROVE TerminatorFits
  <2>1. \A s \in made : str[s].m_str # NULL => s \in Strings
    BY <1>2 DEF StorageInv, StrInv
  <2>2. QED
    BY <1>1, <1>2, <2>1 DEF TerminatorFits, S!TerminatorFits
<1>3. StorageInv => TerminatorFits
  BY <1>2
<1>4. QED
  BY <1>3, StorageInvariance, PTL


(***************************************************************************)
(* The refinement of TextValues.                                           *)
(***************************************************************************)
absValue == [s \in Strings |-> IF s \in made THEN S!Text(s) ELSE NULL]
absSource == Literals \cup {Text(b) : b \in Buffers} \cup UNION {BlockTexts(x) : x \in given}

(* What the invariant says of one string. *)
LEMMA StringView ==
  ASSUME StorageInv, NEW s \in Strings
  PROVE  /\ str[s].m_size \in 0..SizeMax
         /\ S!Text(s) \in Seq(Cells) /\ Len(S!Text(s)) = str[s].m_size
         /\ S!Text(s) # NULL
         /\ str[s].m_str = NULL => str[s].m_size = 0 /\ S!Text(s) = << >>
         /\ s \notin made => str[s].m_str = NULL
         /\ str[s].m_str # NULL => /\ str[s].m_str \in Blocks \ given
                                   /\ heap[str[s].m_str] # 0
                                   /\ \A b \in Buffers : buf[b].m_buf # str[s].m_str
<1>1. str[s].m_size \in 0..SizeMax /\ str[s].m_str \in Blocks \cup {NULL} /\ StringOK(s)
  BY DEF StorageInv, StrInv
<1>2. S!Text(s) \in Seq(Cells)
  BY TextsFit DEF Fitting
<1>3. Len(S!Text(s)) = str[s].m_size
  BY <1>1, <1>2, ConstantTypes DEF S!Text
<1>4. S!Text(s) # NULL
  BY <1>2, NullAssumption
<1>5. str[s].m_str = NULL => str[s].m_size = 0 /\ S!Text(s) = << >>
  BY <1>1 DEF StringOK, S!Text
<1>6. str[s].m_str # NULL => /\ str[s].m_str \in Blocks \ given
                             /\ heap[str[s].m_str] # 0
                             /\ \A b \in Buffers : buf[b].m_buf # str[s].m_str
  <2>1. str[s].m_str # NULL => str[s].m_str \in Others
    BY DEF Others, OfStrings
  <2>2. QED
    BY <1>1, <2>1 DEF StringOK, StorageInv, HeapInv, OwnershipOK
<1>7. QED
  BY <1>1, <1>2, <1>3, <1>4, <1>5, <1>6 DEF StringOK

(* A string whose fields and characters stay keeps its text. *)
LEMMA KeepsText ==
  ASSUME StorageInv, NEW s \in Strings, str'[s] = str[s],
         \A k \in 0..(str[s].m_size - 1) : mem'[str[s].m_str][k] = mem[str[s].m_str][k]
  PROVE  S!Text(s)' = S!Text(s)
<1>1. str[s].m_size \in Nat
  BY StringView, ConstantTypes
<1>2. \A i \in 1..str[s].m_size : mem'[str[s].m_str][i - 1] = mem[str[s].m_str][i - 1]
  BY <1>1
<1>3. S!Text(s)' = [i \in 1..str[s].m_size |-> mem'[str[s].m_str][i - 1]]
  BY DEF S!Text
<1>4. QED
  BY <1>2, <1>3 DEF S!Text

(* Strings other than s, whose block alone a step changes, but for free    *)
(* blocks and those of the caller.                                         *)
LEMMA OthersKeepText ==
  ASSUME StorageInv, NEW s \in Strings, NEW t \in Strings, t # s, str'[t] = str[t],
         \A x \in Blocks \ given : heap[x] # 0 /\ x # str[s].m_str => mem'[x] = mem[x]
  PROVE  S!Text(t)' = S!Text(t)
<1>1. CASE str[t].m_str = NULL
  <2>1. str[t].m_size = 0
    BY <1>1, StringView
  <2>2. QED
    BY <2>1 DEF S!Text
<1>2. CASE str[t].m_str # NULL
  <2>1. str[t].m_str # str[s].m_str
    BY <1>2 DEF StorageInv, StrInv
  <2>2. mem'[str[t].m_str] = mem[str[t].m_str]
    BY <1>2, <2>1, StringView
  <2>3. QED
    BY <2>2, KeepsText
<1>3. QED
  BY <1>1, <1>2

LEMMA EmptyText == ASSUME NEW s, str'[s].m_size = 0 PROVE S!Text(s)' = << >>
BY DEF S!Text

LEMMA SameText ==
  ASSUME NEW s, NEW o, str'[s] = str[o], mem' = mem PROVE S!Text(s)' = S!Text(o)
BY DEF S!Text

(* A step whose effect on the texts is known is a step of TextValues.      *)
Keeps(t) == (t \in made' <=> t \in made) /\ (t \in made => S!Text(t)' = S!Text(t))

LEMMA AsStays == ASSUME \A t \in Strings : Keeps(t) PROVE UNCHANGED absValue
BY DEF absValue, Keeps

LEMMA AsSet ==
  ASSUME NEW s \in Strings, s \in made', \A t \in Strings \ {s} : Keeps(t),
         \/ S!Text(s)' = << >>
         \/ S!Text(s)' \in absSource
         \/ \E o \in made \cap Strings :
              S!Text(o) # NULL /\ S!Text(s)' \in Values!Parts(S!Text(o))
  PROVE  Values!Next
<1>1. absValue' = [absValue EXCEPT ![s] = S!Text(s)']
  BY DEF absValue, Keeps
<1>2. S!Text(s)' \in {<< >>} \cup absSource
        \cup UNION {Values!Parts(absValue[o]) : o \in {n \in Strings : absValue[n] # NULL}}
  <2>1. ASSUME NEW o \in made \cap Strings, S!Text(o) # NULL
        PROVE  o \in {n \in Strings : absValue[n] # NULL} /\ absValue[o] = S!Text(o)
    BY <2>1 DEF absValue
  <2>2. QED
    BY <2>1
<1>3. Values!Set(s)
  BY <1>1, <1>2 DEF Values!Set, absValue, absSource
<1>4. QED
  BY <1>3 DEF Values!Next

LEMMA AsDestroy ==
  ASSUME NEW s \in Strings, s \notin made', \A t \in Strings \ {s} : Keeps(t)
  PROVE  Values!Next
<1>1. absValue' = [absValue EXCEPT ![s] = NULL]
  BY DEF absValue, Keeps
<1>2. Values!Destroy(s)
  BY <1>1 DEF Values!Destroy, absValue
<1>3. QED
  BY <1>2 DEF Values!Next

LEMMA AsMove ==
  ASSUME NEW s \in Strings, NEW o \in Strings, o \in made, S!Text(o) # NULL,
         s \in made', o \in made', \A t \in Strings \ {s, o} : Keeps(t),
         s # o => S!Text(s)' = S!Text(o), S!Text(o)' = << >>
  PROVE  Values!Next
<1>1. absValue' = [absValue EXCEPT ![s] = absValue[o], ![o] = << >>]
  BY DEF absValue, Keeps
<1>2. absValue[o] # NULL
  BY DEF absValue
<1>3. Values!Move(s, o)
  BY <1>1, <1>2 DEF Values!Move, absValue
<1>4. QED
  BY <1>3 DEF Values!Next

(***************************************************************************)
(* Steps of buffers change no text of a string, those of strings the text  *)
(* of their own.                                                           *)
(***************************************************************************)
LEMMA BuffersKeepTexts ==
  ASSUME StorageInv, Next, UNCHANGED stringVars
  PROVE  UNCHANGED absValue
<1>1. UNCHANGED <<str, made>>
  BY DEF stringVars
<1>2. ASSUME NEW t \in Strings PROVE S!Text(t)' = S!Text(t)
  <2>1. CASE str[t].m_str = NULL
    <3>1. str[t].m_size = 0
      BY <2>1, StringView
    <3>2. QED
      BY <1>1, <3>1 DEF S!Text
  <2>2. CASE str[t].m_str # NULL
    <3>1. /\ str[t].m_str \in Blocks /\ str[t].m_str \notin given /\ heap[str[t].m_str] # 0
          /\ \A b \in Buffers : buf[b].m_buf # str[t].m_str
      BY <2>2, StringView
    <3>2. TypeOK
      BY DEF StorageInv, HeapInv
    <3>3. mem'[str[t].m_str] = mem[str[t].m_str]
      BY <3>1, <3>2, BuffersKeepOthers
    <3>4. QED
      BY <1>1, <3>3, KeepsText
  <2>3. QED
    BY <2>1, <2>2
<1>3. QED
  BY <1>1, <1>2, AsStays DEF Keeps

(* The text of the buffer is the text of the string.                       *)
LEMMA MoveFromBufferSimulated ==
  ASSUME StorageInv, NEW s \in Strings, NEW b \in Buffers, moveFromBuffer(s, b)
  PROVE  Values!Next
<1>1. /\ str' = [str EXCEPT ![s] = [m_str |-> buf[b].m_buf, m_size |-> size(b)]]
      /\ made' = made \cup {s} /\ UNCHANGED mem
  BY DEF moveFromBuffer
<1>2. /\ str'[s].m_str = buf[b].m_buf /\ str'[s].m_size = size(b)
      /\ \A t \in Strings \ {s} : str'[t] = str[t]
  BY <1>1 DEF StorageInv, StrInv
<1>3. S!Text(s)' = Text(b)
  BY <1>1, <1>2 DEF S!Text, Text
<1>4. \A t \in Strings \ {s} : Keeps(t)
  BY <1>1, <1>2, OthersKeepText DEF Keeps
<1>5. s \in made' /\ S!Text(s)' \in absSource
  BY <1>1, <1>3 DEF absSource
<1>6. QED
  BY <1>4, <1>5, AsSet

(* A string is emptied: it has no block afterwards.                        *)
LEMMA EmptiedSimulated ==
  ASSUME StorageInv, NEW s \in Strings, str' = [str EXCEPT ![s] = S!Null],
         made' \cup {s} = made \cup {s},
         UNCHANGED mem \/ S!free(str[s].m_str)
  PROVE  Values!Next
<1>1. /\ str'[s].m_size = 0
      /\ \A t \in Strings \ {s} : str'[t] = str[t] /\ (t \in made' <=> t \in made)
  BY DEF StorageInv, StrInv, S!Null
<1>2. \A x \in Blocks : x # str[s].m_str => mem'[x] = mem[x]
  BY DEF S!free
<1>3. \A t \in Strings \ {s} : Keeps(t)
  BY <1>1, <1>2, OthersKeepText DEF Keeps
<1>4. S!Text(s)' = << >>
  BY <1>1 DEF S!Text
<1>5. CASE s \in made'
  BY <1>3, <1>4, <1>5, AsSet
<1>6. CASE s \notin made'
  BY <1>3, <1>6, AsDestroy
<1>7. QED
  BY <1>5, <1>6

(* A text comes into a fresh block. *)
LEMMA ReplaceSimulated ==
  ASSUME StorageInv, NEW s \in Strings, NEW txt, Fitting(txt), NEW new \in Blocks,
         S!replaceBlock(str[s].m_str, txt, new),
         str' = [str EXCEPT ![s] = S!Fields(new, Len(txt))],
         s \in made', made' \cup {s} = made \cup {s},
         \/ txt = << >> \/ txt \in Literals
         \/ \E o \in made \cap Strings : txt \in S!Parts(o)
  PROVE  Values!Next
<1>1. /\ str'[s].m_str = new /\ str'[s].m_size = Len(txt)
      /\ \A t \in Strings \ {s} : str'[t] = str[t] /\ (t \in made' <=> t \in made)
  BY DEF StorageInv, StrInv, S!Fields
<1>2. /\ heap[new] = 0 /\ mem'[new] = S!Holding(txt)
      /\ \A x \in Blocks : heap[x] # 0 /\ x # str[s].m_str => mem'[x] = mem[x]
  BY DEF S!replaceBlock
<1>3. \A t \in Strings \ {s} : Keeps(t)
  BY <1>1, <1>2, OthersKeepText DEF Keeps
<1>4. S!Text(s)' = txt
  <2>1. txt \in Seq(Cells) /\ Len(txt) \in 0..SizeMax /\ SizeMax \in Nat
    BY FittingLength, ConstantTypes DEF Fitting
  <2>2. \A i \in 1..Len(txt) : S!Holding(txt)[i - 1] = txt[i]
    <3>1. SUFFICES ASSUME NEW i \in 1..Len(txt) PROVE S!Holding(txt)[i - 1] = txt[i]
      OBVIOUS
    <3>2. i - 1 \in 0..SizeMax /\ i - 1 < Len(txt) /\ (i - 1) + 1 = i
      BY <2>1
    <3>3. QED
      BY <3>2 DEF S!Holding
  <2>3. S!Text(s)' = [i \in 1..Len(txt) |-> mem'[new][i - 1]]
    BY <1>1 DEF S!Text
  <2>4. S!Text(s)' = [i \in 1..Len(txt) |-> txt[i]]
    BY <1>2, <2>2, <2>3
  <2>5. QED
    BY <2>1, <2>4
<1>5. ASSUME NEW o \in made \cap Strings, txt \in S!Parts(o)
      PROVE  S!Text(o) # NULL /\ txt \in Values!Parts(S!Text(o))
  <2>1. S!Text(o) # NULL /\ Len(S!Text(o)) = str[o].m_size
    BY StringView
  <2>2. QED
    BY <1>5, <2>1 DEF S!Parts, Values!Parts
<1>6. txt \in Literals => txt \in absSource
  BY DEF absSource
<1>7. QED
  BY <1>3, <1>4, <1>5, <1>6, AsSet

LEMMA TextInParts ==
  ASSUME StorageInv, NEW o \in Strings
  PROVE  S!Text(o) = << >> \/ S!Text(o) \in S!Parts(o)
<1>1. S!Text(o) \in Seq(Cells) /\ Len(S!Text(o)) = str[o].m_size /\ str[o].m_size \in Nat
  BY StringView, ConstantTypes
<1>2. SubSeq(S!Text(o), 1, Len(S!Text(o))) = S!Text(o)
  BY <1>1
<1>3. CASE str[o].m_size = 0
  BY <1>1, <1>3
<1>4. CASE str[o].m_size # 0
  BY <1>1, <1>2, <1>4 DEF S!Parts
<1>5. QED
  BY <1>3, <1>4

LEMMA StringThrowsStays == S!StringThrows => UNCHANGED absValue
BY DEF S!StringThrows, absValue, S!Text

(* constructFrom and assign, of a text from outside or of a string. *)
LEMMA FromTextSimulated ==
  ASSUME StorageInv, NEW s \in Strings, NEW txt, Fitting(txt),
         S!constructFrom(s, txt) \/ S!assign(s, txt),
         \/ txt = << >> \/ txt \in Literals
         \/ \E o \in made \cap Strings : txt \in S!Parts(o)
  PROVE  Values!Next \/ UNCHANGED absValue
<1>1. CASE S!constructFrom(s, txt)
  <2>1. ASSUME NEW new \in Blocks, S!replaceBlock(NULL, txt, new),
               str' = [str EXCEPT ![s] = S!Fields(new, Len(txt))], made' = made \cup {s}
        PROVE  Values!Next
    <3>1. str[s].m_str = NULL
      BY <1>1, StringView DEF S!constructFrom
    <3>2. s \in made' /\ made' \cup {s} = made \cup {s}
      BY <2>1
    <3>3. QED
      BY <2>1, <3>1, <3>2, ReplaceSimulated
  <2>2. QED
    BY <1>1, <2>1, StringThrowsStays DEF S!constructFrom
<1>2. CASE S!assign(s, txt)
  <2>1. ASSUME NEW new \in Blocks, S!replaceBlock(str[s].m_str, txt, new),
               str' = [str EXCEPT ![s] = S!Fields(new, Len(txt))], UNCHANGED made
        PROVE  Values!Next
    <3>1. s \in made' /\ made' \cup {s} = made \cup {s}
      BY <1>2, <2>1 DEF S!assign
    <3>2. QED
      BY <2>1, <3>1, ReplaceSimulated
  <2>2. QED
    BY <1>2, <2>1, StringThrowsStays DEF S!assign
<1>3. QED
  BY <1>1, <1>2

LEMMA MoveTextSimulated ==
  ASSUME StorageInv, UNCHANGED mem, NEW s \in Strings, NEW o \in Strings, str[s].m_str = NULL,
         str' = [str EXCEPT ![s] = str[o], ![o] = S!Null],
         o \in made, made' = made \cup {s}
  PROVE  Values!Next
<1>1. /\ str'[o].m_size = 0
      /\ s # o => str'[s] = str[o]
      /\ \A t \in Strings \ {s, o} : str'[t] = str[t]
  BY DEF StorageInv, StrInv, S!Null
<1>2. \A t \in Strings \ {s, o} : Keeps(t)
  BY <1>1, OthersKeepText DEF Keeps
<1>3. S!Text(o)' = << >>
  BY <1>1, EmptyText
<1>7. s # o => S!Text(s)' = S!Text(o)
  BY <1>1, SameText
<1>4. s \in made' /\ o \in made'
  OBVIOUS
<1>5. S!Text(o) # NULL
  BY StringView
<1>6. QED
  BY <1>2, <1>3, <1>4, <1>5, <1>7, AsMove

(* The caller's block comes with the characters the caller wrote.          *)
LEMMA AttachSimulated ==
  ASSUME StorageInv, NEW s \in Strings, NEW x \in given,
         NEW n \in 0..(heap[x] \div CharSize - 1), S!attach(s, x, n)
  PROVE  Values!Next
<1>1. /\ S!free(str[s].m_str) /\ UNCHANGED made /\ s \in made
      /\ str' = [str EXCEPT ![s] = [m_str |-> x, m_size |-> n]]
      /\ (n + 1) * CharSize <= heap[x]
  BY DEF S!attach, S!Fields
<1>2. /\ x # str[s].m_str /\ x \in Blocks /\ heap[x] \in Nat /\ n \in Nat /\ CharSize \in Nat \ {0}
  <2>1. given \subseteq Blocks /\ heap \in [Blocks -> 0..SizeMax] /\ SizeMax \in Nat
    BY ConstantTypes DEF StorageInv, HeapInv, TypeOK, HeapTypeOK
  <2>2. NULL \notin Blocks /\ CharSize \in Nat \ {0}
    BY ConstantTypes
  <2>3. str[s].m_str # NULL => str[s].m_str \notin given
    BY StringView
  <2>4. QED
    BY <2>1, <2>2, <2>3
<1>3. /\ str'[s].m_str = x /\ str'[s].m_size = n
      /\ \A t \in Strings \ {s} : str'[t] = str[t]
  BY <1>1 DEF StorageInv, StrInv
<1>4. \A y \in Blocks : y # str[s].m_str => mem'[y] = mem[y]
  BY <1>1 DEF S!free
<1>5. \A t \in Strings \ {s} : Keeps(t)
  BY <1>1, <1>3, <1>4, OthersKeepText DEF Keeps
<1>6. S!Text(s)' = [i \in 1..n |-> mem[x][i - 1]]
  BY <1>2, <1>3, <1>4 DEF S!Text
<1>7. n \in 0..heap[x]
  <2>1. n + 1 <= (n + 1) * CharSize
    BY <1>2
  <2>2. QED
    BY <1>1, <1>2, <2>1
<1>8. S!Text(s)' \in absSource
  BY <1>6, <1>7 DEF absSource, BlockTexts
<1>9. QED
  BY <1>1, <1>5, <1>8, AsSet

(* The terminator is written behind the text.                              *)
LEMMA StringTerminatorSimulated ==
  ASSUME StorageInv, NEW s \in Strings, S!c_str(s)
  PROVE  UNCHANGED absValue
<1>1. UNCHANGED <<str, made>>
  BY DEF S!c_str, S!stringVars
<1>2. \A x \in Blocks : x # str[s].m_str => mem'[x] = mem[x]
  BY DEF S!c_str
<1>3. \A k \in 0..(str[s].m_size - 1) : mem'[str[s].m_str][k] = mem[str[s].m_str][k]
  <2>1. SUFFICES ASSUME NEW k \in 0..(str[s].m_size - 1)
                 PROVE  mem'[str[s].m_str][k] = mem[str[s].m_str][k]
    OBVIOUS
  <2>2. str[s].m_str # NULL /\ str[s].m_str \in Blocks /\ str[s].m_size \in 0..SizeMax
    BY StringView, ConstantTypes
  <2>3. mem' = [mem EXCEPT ![str[s].m_str] = [@ EXCEPT ![str[s].m_size] = Nul]]
    BY <2>2 DEF S!c_str
  <2>4. mem[str[s].m_str] \in [0..SizeMax -> Cells]
    BY <2>2 DEF StorageInv, HeapInv, TypeOK, HeapTypeOK
  <2>5. mem'[str[s].m_str] = [mem[str[s].m_str] EXCEPT ![str[s].m_size] = Nul]
    BY <2>2, <2>3 DEF StorageInv, HeapInv, TypeOK, HeapTypeOK
  <2>6. k # str[s].m_size /\ k \in 0..SizeMax
    BY <2>2, ConstantTypes
  <2>7. QED
    BY <2>4, <2>5, <2>6
<1>4. ASSUME NEW t \in Strings PROVE Keeps(t)
  BY <1>1, <1>2, <1>3, KeepsText, OthersKeepText DEF Keeps
<1>5. QED
  BY <1>4, AsStays

LEMMA StringStepSimulated ==
  ASSUME ~MoveOntoOwner, StorageInv, S!StringsNext
  PROVE  Values!Next \/ UNCHANGED absValue
<1>1. PICK s \in Strings :
        \/ S!construct(s) \/ S!destroy(s)
        \/ \E txt \in Literals : S!constructFrom(s, txt) \/ S!assignText(s, txt)
        \/ \E o \in Strings :
             \/ S!copyConstruct(s, o) \/ S!moveConstruct(s, o)
             \/ S!copyAssign(s, o) \/ S!moveAssign(s, o)
             \/ o \in made /\ \E txt \in S!Parts(o) : S!constructFrom(s, txt) \/ S!assignText(s, txt)
        \/ \E x \in given : \E n \in 0..(heap[x] \div CharSize - 1) : S!attach(s, x, n)
        \/ S!detach(s) \/ S!clear(s) \/ S!c_str(s)
  BY DEF S!StringsNext
<1>2. CASE S!construct(s)
  BY <1>2, EmptiedSimulated DEF S!construct
<1>3. CASE S!destroy(s)
  BY <1>3, EmptiedSimulated DEF S!destroy
<1>4. CASE S!detach(s)
  BY <1>4, EmptiedSimulated DEF S!detach
<1>5. CASE S!clear(s)
  BY <1>5, EmptiedSimulated DEF S!clear
<1>6. ASSUME NEW txt \in Literals, S!constructFrom(s, txt) \/ S!assignText(s, txt)
      PROVE  Values!Next \/ UNCHANGED absValue
  BY <1>6, LiteralsFit, FromTextSimulated DEF S!assignText
<1>7. ASSUME NEW o \in Strings, o \in made, NEW txt \in S!Parts(o),
             S!constructFrom(s, txt) \/ S!assignText(s, txt)
      PROVE  Values!Next \/ UNCHANGED absValue
  BY <1>7, TextsFit, FromTextSimulated DEF S!assignText
<1>8. ASSUME NEW o \in Strings, S!copyConstruct(s, o) PROVE Values!Next \/ UNCHANGED absValue
  <2>1. CASE S!construct(s)
    BY <2>1, EmptiedSimulated DEF S!construct
  <2>2. CASE S!constructFrom(s, S!Text(o))
    BY <1>8, <2>2, TextInParts, TextsFit, FromTextSimulated DEF S!copyConstruct
  <2>3. QED
    BY <1>8, <2>1, <2>2 DEF S!copyConstruct
<1>9. ASSUME NEW o \in Strings, S!copyAssign(s, o) PROVE Values!Next \/ UNCHANGED absValue
  BY <1>9, TextInParts, TextsFit, FromTextSimulated DEF S!copyAssign
<1>10. ASSUME NEW o \in Strings, S!moveConstruct(s, o) PROVE Values!Next
  <2>1. str[s].m_str = NULL
    BY <1>10, StringView DEF S!moveConstruct
  <2>2. QED
    BY <1>10, <2>1, MoveTextSimulated DEF S!moveConstruct
<1>11. ASSUME NEW o \in Strings, S!moveAssign(s, o) PROVE Values!Next
  <2>1. made' = made \cup {s}
    BY <1>11 DEF S!moveAssign
  <2>2. QED
    BY <1>11, <2>1, MoveTextSimulated DEF S!moveAssign
<1>12. ASSUME NEW x \in given, NEW n \in 0..(heap[x] \div CharSize - 1), S!attach(s, x, n)
       PROVE  Values!Next
  BY <1>12, AttachSimulated
<1>13. CASE S!c_str(s)
  BY <1>13, StringTerminatorSimulated
<1>14. QED
  BY <1>1, <1>2, <1>3, <1>4, <1>5, <1>6, <1>7, <1>8, <1>9, <1>10, <1>11, <1>12, <1>13

(* Strings and buffers that pass blocks on to each other implement strings *)
(* that are values: no step changes the text of a string it is not made on.*)
THEOREM StringsAreValuesAlways ==
  ASSUME AllocatorBound, ~ReuseDetached, ~MoveOntoOwner
  PROVE  StorageSpec => StringsAreValues
<1>1. StorageInit => Values!Init
  BY DEF StorageInit, S!StringsInit, Values!Init, absValue
<1>2. ASSUME StorageInv, [StorageNext]_allVars PROVE [Values!Next]_absValue
  <2>1. CASE Next /\ UNCHANGED stringVars
    BY <1>2, <2>1, BuffersKeepTexts
  <2>2. CASE S!StringsNext
    BY <1>2, <2>2, StringStepSimulated
  <2>3. ASSUME NEW s \in Strings, NEW b \in Buffers, moveFromBuffer(s, b) PROVE Values!Next
    BY <1>2, <2>3, MoveFromBufferSimulated
  <2>4. CASE UNCHANGED allVars
    BY <2>4 DEF allVars, vars, stringVars, absValue, S!Text
  <2>5. QED
    BY <1>2, <2>1, <2>2, <2>3, <2>4 DEF StorageNext
<1>3. QED
  BY <1>1, <1>2, StorageInvariance, PTL
  DEF StorageSpec, StringsAreValues, Values!Spec, absValue

(* A call that throws, on a string or on a buffer, leaves every string,    *)
(* every buffer and the heap.                                              *)
THEOREM StringsSurviveFailureAlways ==
  ASSUME AllocatorBound, ~ReuseDetached, ~MoveOntoOwner
  PROVE  StorageSpec => StringsSurviveFailure
<1> DEFINE Survive == exc' # "none" => UNCHANGED <<heap, mem, str, made, given, buf>>
<1>1. ASSUME StorageInv, [StorageNext]_allVars PROVE [Survive]_allVars
  <2>1. CASE Next /\ UNCHANGED stringVars
    BY <1>1, <2>1, FailureStep DEF StorageInv, stringVars
  <2>2. CASE S!StringsNext /\ UNCHANGED <<status, buf, tail>>
    <3>1. ASSUME NEW s \in Strings, NEW txt, S!constructFrom(s, txt) \/ S!assign(s, txt)
          PROVE  exc' = "none" \/ S!StringThrows
      BY <3>1 DEF S!constructFrom, S!assign
    <3>2. exc' = "none" \/ S!StringThrows
      BY <2>2, <3>1 DEF S!StringsNext, S!construct, S!destroy, S!assignText, S!copyConstruct,
        S!moveConstruct, S!copyAssign, S!moveAssign, S!attach, S!detach, S!clear, S!c_str
    <3>3. QED
      BY <2>2, <3>2 DEF S!StringThrows
  <2>3. CASE \E s \in Strings, b \in Buffers : moveFromBuffer(s, b)
    BY <2>3 DEF moveFromBuffer
  <2>4. QED
    BY <1>1, <2>1, <2>2, <2>3 DEF StorageNext
<1>2. QED
  BY <1>1, StorageInvariance, PTL DEF StorageSpec, StringsSurviveFailure
=============================================================================
