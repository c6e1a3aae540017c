-------------------------- MODULE FastStringBuffer --------------------------
(***************************************************************************)
(* afc::FastStringBuffer<CharType, allocMode> (src/src/afc/                *)
(* FastStringBuffer.hpp): a string builder whose capacity is handled by    *)
(* the caller, who reserves storage and then appends within it.            *)
(*                                                                         *)
(* Several buffer objects share one heap.  Each is used by one caller at a *)
(* time, so an action is a whole member function.  Any memory request may  *)
(* fail: the call then ends in std::bad_alloc.                             *)
(***************************************************************************)
EXTENDS Heap, Sequences

CONSTANTS
  Buffers,        (* Objects of the class.                                 *)
  AllocMode,      (* "pow2" or "accurate".                                 *)
  Powers,         (* The powers of two a size_t can hold.                  *)
  Requests,       (* Capacities callers ask for.  Bounds the model.        *)
  Inputs,         (* Strings callers append.  Bounds the model.            *)
  ReuseDetached   (* TRUE: callers also use a buffer after detach(), FALSE *)
                  (* (every use in this repository): they destroy it.      *)

ASSUME BufferAssumption ==
  /\ AllocMode \in {"pow2", "accurate"}
  /\ Requests \subseteq 0..SizeMax
  /\ Inputs \subseteq Seq(Chars)
  /\ ReuseDetached \in BOOLEAN

(* What makes Powers the powers of two of the word. *)
ASSUME PowersAssumption ==
  /\ Powers \subseteq 1..(PtrdiffMax + 1)
  /\ 1 \in Powers /\ PtrdiffMax + 1 \in Powers
  /\ \A p \in Powers : p # PtrdiffMax + 1 => 2 * p \in Powers
  /\ \A p, q \in Powers : p < q => 2 * p <= q
  /\ \A a \in 1..(PtrdiffMax + 1) : \E p \in Powers : a <= p /\ p < 2 * a

VARIABLES
  status,  (* status[b] \in {"none", "live", "detached"}: whether object b *)
           (* is constructed, and whether detach() was called on it.       *)
  buf,     (* buf[b]: the fields of object b.  m_bufEnd is kept as its     *)
           (* distance from m_buf, 0 when both are nullptr.                *)
  tail,    (* tail[b]: distance from m_buf of the Tail that is borrowed    *)
           (* from b, NoTail when there is none.                           *)
  given,   (* Blocks detach() handed to the caller, to be freed by it.     *)
  exc      (* How the last call ended: "none", "bad_alloc", "Exception".   *)

bufVars == <<status, buf, tail, given, exc>>
vars == <<heap, mem, bufVars>>

NoTail == -1
Empty == [m_buf |-> NULL, m_bufEnd |-> 0, m_capacity |-> 0]

(***************************************************************************)
(* Storage sizes.                                                          *)
(***************************************************************************)
MinOf(x, y) == IF x <= y THEN x ELSE y

maxCapacity == MinOf(SizeMax \div CharSize - 1, PtrdiffMax)
maxStorageSize == maxCapacity + 1

(* math::ceilPow2: the smallest power of two >= a, 0 when a is 0 or when   *)
(* that power does not fit a size_t.  (The code sets every bit below the   *)
(* highest one of a - 1 and adds 1.)                                       *)
ceilPow2(a) == IF a \in 1..(PtrdiffMax + 1)
               THEN CHOOSE p \in Powers : a <= p /\ p < 2 * a
               ELSE 0

BadAlloc == 0

(* The last character of the storage is reserved for the terminator. *)
capacityOf_Forgets(storageSize) == storageSize
capacityOf(storageSize) == storageSize - 1

(* nextStorageSize(capacity), BadAlloc for the call of badAlloc(). *)
nextStorageSize(capacity) ==
  IF AllocMode = "pow2"
  THEN LET newStorageSize == ceilPow2(Wrap(capacity + 1))
       IN  IF newStorageSize = 0 \/ newStorageSize >= maxStorageSize
           THEN IF capacity > maxCapacity THEN BadAlloc ELSE maxStorageSize
           ELSE newStorageSize
  ELSE IF capacity > maxCapacity THEN BadAlloc ELSE capacity + 1

(* The capacity the argument-less expand() asks for. *)
nextCapacity_Quadruples(capacity) == Wrap(capacity * 4 + 3)
nextCapacity(capacity) ==
  IF AllocMode = "pow2" THEN Wrap(capacity * 2 + 1) ELSE capacity + 1

(***************************************************************************)
(* An operator named X_Y, like capacityOf_Forgets above, is X with one     *)
(* mistake that a change of the code could make, to show that a property   *)
(* notices it.  No specification uses these.                               *)
(*                                                                         *)
(* Who may call what.  Between borrowTail() and returnTail() a buffer is   *)
(* used through the Tail only.                                             *)
(***************************************************************************)
Live(b) == status[b] = "live"
Usable(b) == Live(b) /\ tail[b] = NoTail
size(b) == buf[b].m_bufEnd
Room(b) == buf[b].m_capacity - size(b)

Init ==
  /\ HeapInit
  /\ status = [b \in Buffers |-> "none"]
  /\ buf = [b \in Buffers |-> Empty]
  /\ tail = [b \in Buffers |-> NoTail]
  /\ given = {}
  /\ exc = "none"

(* The call ended with exception e and the object keeps its fields. *)
Throws(e) == exc' = e /\ UNCHANGED <<status, buf, tail, given>>

(***************************************************************************)
(* Construction and destruction.                                           *)
(***************************************************************************)
construct(b) ==
  /\ status[b] = "none"
  /\ status' = [status EXCEPT ![b] = "live"]
  /\ buf' = [buf EXCEPT ![b] = Empty]
  /\ exc' = "none"
  /\ UNCHANGED <<heap, mem, tail, given>>

constructWithCapacity(b, initialCapacity) ==
  LET storageSize == nextStorageSize(initialCapacity)
      bytes == Wrap(storageSize * CharSize)
  IN  /\ status[b] = "none"
      /\ initialCapacity > 0
      /\ \/ /\ storageSize # BadAlloc
            /\ \E ptr \in Blocks :
                 /\ realloc(NULL, bytes, ptr)
                 /\ buf' = [buf EXCEPT ![b] =
                      [m_buf |-> ptr, m_bufEnd |-> 0, m_capacity |-> capacityOf(storageSize)]]
            /\ status' = [status EXCEPT ![b] = "live"]
            /\ exc' = "none"
            /\ UNCHANGED <<tail, given>>
         \/ Throws("bad_alloc") /\ UNCHANGED <<heap, mem>>

(* FastStringBuffer(FastStringBuffer &&o) *)
moveConstruct_KeepsBlock(b, o) ==
  /\ status[b] = "none" /\ Usable(o)
  /\ status' = [status EXCEPT ![b] = "live"]
  /\ buf' = [buf EXCEPT ![b] = buf[o]]
  /\ exc' = "none"
  /\ UNCHANGED <<heap, mem, tail, given>>

moveConstruct(b, o) ==
  /\ status[b] = "none" /\ Usable(o)
  /\ status' = [status EXCEPT ![b] = "live"]
  /\ buf' = [buf EXCEPT ![b] = buf[o], ![o] = Empty]
  /\ exc' = "none"
  /\ UNCHANGED <<heap, mem, tail, given>>

(* operator=(FastStringBuffer &&o), which swaps. *)
moveAssign_KeepsCapacity(b, o) ==
  /\ Usable(b) /\ Usable(o)
  /\ buf' = [buf EXCEPT ![b] = [buf[o] EXCEPT !.m_capacity = buf[b].m_capacity],
                        ![o] = [buf[b] EXCEPT !.m_capacity = buf[o].m_capacity]]
  /\ exc' = "none"
  /\ UNCHANGED <<heap, mem, status, tail, given>>

moveAssign(b, o) ==
  /\ Usable(b) /\ Usable(o)
  /\ buf' = [buf EXCEPT ![b] = buf[o], ![o] = buf[b]]
  /\ exc' = "none"
  /\ UNCHANGED <<heap, mem, status, tail, given>>

destroy(b) ==
  /\ status[b] = "detached" \/ Usable(b)
  /\ free(buf[b].m_buf)
  /\ status' = [status EXCEPT ![b] = "none"]
  /\ buf' = [buf EXCEPT ![b] = Empty]
  /\ exc' = "none"
  /\ UNCHANGED <<tail, given>>

(***************************************************************************)
(* Growing.                                                                *)
(***************************************************************************)
(* realloc of m_buf to storageSize characters and what expand() makes of   *)
(* the result.                                                             *)
Regrow_CapacityFirst(b, storageSize) ==
  LET old == buf[b].m_buf
      bytes == Wrap(storageSize * CharSize)
  IN  /\ \/ /\ \E newBuf \in Blocks :
                 /\ realloc(old, bytes, newBuf)
                 /\ buf' = [buf EXCEPT ![b].m_buf = newBuf,
                                       ![b].m_capacity = capacityOf(storageSize)]
            /\ exc' = "none"
         \/ /\ reallocFails(old, bytes)
            /\ buf' = [buf EXCEPT ![b].m_capacity = capacityOf(storageSize)]
            /\ exc' = "bad_alloc"
      /\ UNCHANGED <<status, tail, given>>

Regrow(b, storageSize) ==
  LET old == buf[b].m_buf
      bytes == Wrap(storageSize * CharSize)
  IN  \/ /\ \E newBuf \in Blocks :
              /\ realloc(old, bytes, newBuf)
              /\ buf' = [buf EXCEPT ![b].m_buf = newBuf,
                                    ![b].m_capacity = capacityOf(storageSize)]
         /\ exc' = "none"
         /\ UNCHANGED <<status, tail, given>>
      \/ reallocFails(old, bytes) /\ Throws("bad_alloc")

NeedsStorage_AtCapacity(b, n) == buf[b].m_capacity <= n
NeedsStorage(b, n) == buf[b].m_capacity < n

(* reserve(n), with expand(n) *)
reserve(b, n) ==
  /\ Usable(b)
  /\ LET storageSize == nextStorageSize(n)
     IN  \/ /\ ~NeedsStorage(b, n)
            /\ exc' = "none"
            /\ UNCHANGED <<heap, mem, status, buf, tail, given>>
         \/ /\ NeedsStorage(b, n)
            /\ storageSize = BadAlloc
            /\ Throws("bad_alloc") /\ UNCHANGED <<heap, mem>>
         \/ /\ NeedsStorage(b, n)
            /\ storageSize # BadAlloc
            /\ Regrow(b, storageSize)

(* m_buf + m_capacity == m_bufEnd, where m_bufEnd is nullptr iff m_buf is. *)
IsFull(b) == size(b) = buf[b].m_capacity

(* reserveForOne(), with expand() *)
reserveForOne(b) ==
  /\ Usable(b)
  /\ \/ /\ ~IsFull(b)
        /\ exc' = "none"
        /\ UNCHANGED <<heap, mem, status, buf, tail, given>>
     \/ /\ IsFull(b)
        /\ buf[b].m_capacity = maxCapacity
        /\ Throws("Exception") /\ UNCHANGED <<heap, mem>>
     \/ /\ IsFull(b)
        /\ buf[b].m_capacity # maxCapacity
        /\ Regrow(b, Wrap(nextCapacity(buf[b].m_capacity) + 1))

(***************************************************************************)
(* Text.  The guards are the asserts of the member functions: the caller   *)
(* reserves first.                                                         *)
(***************************************************************************)
(* Character i of the sequence s becomes cell at + i - 1. *)
Written(b, at, s) ==
  [mem EXCEPT ![buf[b].m_buf] = [i \in 0..SizeMax |->
     IF i - at + 1 \in 1..Len(s) THEN s[i - at + 1] ELSE @[i]]]

append(b, s) ==
  /\ Usable(b)
  /\ buf[b].m_buf # NULL
  /\ Len(s) <= Room(b)
  /\ mem' = Written(b, size(b), s)
  /\ buf' = [buf EXCEPT ![b].m_bufEnd = @ + Len(s)]
  /\ exc' = "none"
  /\ UNCHANGED <<heap, status, tail, given>>

(* Characters from..from+n-1 of the buffer's own storage. *)
Own(b, from, n) == [i \in 1..n |-> mem[buf[b].m_buf][from + i - 1]]

(* append(c_str() + from, n): the copy may read what the buffer holds. *)
appendOwn(b, from, n) ==
  /\ from + n <= size(b)
  /\ append(b, Own(b, from, n))

resize_Relative(b, newSize) ==
  /\ Usable(b)
  /\ buf[b].m_buf # NULL \/ newSize = 0
  /\ newSize <= buf[b].m_capacity
  /\ buf' = [buf EXCEPT ![b].m_bufEnd = @ - newSize]
  /\ exc' = "none"
  /\ UNCHANGED <<heap, mem, status, tail, given>>

resize(b, newSize) ==
  /\ Usable(b)
  /\ buf[b].m_buf # NULL \/ newSize = 0
  /\ newSize <= buf[b].m_capacity
  /\ buf' = [buf EXCEPT ![b].m_bufEnd = newSize]
  /\ exc' = "none"
  /\ UNCHANGED <<heap, mem, status, tail, given>>

clear(b) ==
  /\ Usable(b)
  /\ buf' = [buf EXCEPT ![b].m_bufEnd = 0]
  /\ exc' = "none"
  /\ UNCHANGED <<heap, mem, status, tail, given>>

(* c_str() writes the terminator behind the text. *)
c_str(b) ==
  /\ Usable(b)
  /\ mem' = IF buf[b].m_buf = NULL THEN mem ELSE Written(b, size(b), <<Nul>>)
  /\ exc' = "none"
  /\ UNCHANGED <<heap, status, buf, tail, given>>

(* detach() gives the block away; m_capacity keeps its value. *)
detach(b) ==
  /\ Usable(b)
  /\ given' = given \cup ({buf[b].m_buf} \ {NULL})
  /\ buf' = [buf EXCEPT ![b].m_buf = NULL, ![b].m_bufEnd = 0]
  /\ status' = [status EXCEPT ![b] = IF ReuseDetached THEN "live" ELSE "detached"]
  /\ exc' = "none"
  /\ UNCHANGED <<heap, mem, tail>>

(* The caller frees what detach() returned. *)
freeGiven(x) ==
  /\ x \in given
  /\ free(x)
  /\ given' = given \ {x}
  /\ exc' = "none"
  /\ UNCHANGED <<status, buf, tail>>

(***************************************************************************)
(* Writing through a Tail.                                                 *)
(***************************************************************************)
borrowTail(b) ==
  /\ Usable(b)
  /\ buf[b].m_buf # NULL
  /\ tail' = [tail EXCEPT ![b] = size(b)]
  /\ exc' = "none"
  /\ UNCHANGED <<heap, mem, status, buf, given>>

(* *tail++ = c, by a caller that reserved the character. *)
writeTail(b, c) ==
  /\ Live(b) /\ tail[b] # NoTail
  /\ tail[b] < buf[b].m_capacity
  /\ mem' = Written(b, tail[b], <<c>>)
  /\ tail' = [tail EXCEPT ![b] = @ + 1]
  /\ exc' = "none"
  /\ UNCHANGED <<heap, status, buf, given>>

(* returnTail(tail - drop), within what was written through the Tail. *)
returnTail(b, drop) ==
  /\ Live(b) /\ tail[b] # NoTail
  /\ tail[b] - drop >= size(b)
  /\ buf' = [buf EXCEPT ![b].m_bufEnd = tail[b] - drop]
  /\ tail' = [tail EXCEPT ![b] = NoTail]
  /\ exc' = "none"
  /\ UNCHANGED <<heap, mem, status, given>>

Next ==
  \/ \E b \in Buffers :
       \/ construct(b)
       \/ \E n \in Requests : constructWithCapacity(b, n) \/ reserve(b, n)
       \/ \E o \in Buffers : moveConstruct(b, o) \/ moveAssign(b, o)
       \/ destroy(b)
       \/ reserveForOne(b)
       \/ \E s \in Inputs : append(b, s)
       \/ \E from, n \in 0..buf[b].m_capacity : appendOwn(b, from, n)
       \/ \E n \in 0..buf[b].m_capacity : resize(b, n)
       \/ clear(b)
       \/ c_str(b)
       \/ detach(b)
       \/ borrowTail(b)
       \/ \E c \in Chars : writeTail(b, c)
       \/ \E drop \in 0..1 : returnTail(b, drop)
  \/ \E x \in given : freeGiven(x)

Spec == Init /\ [][Next]_vars

(***************************************************************************)
(* Properties.                                                             *)
(***************************************************************************)
(* Every variable keeps its type. *)
TypeOK ==
  /\ HeapTypeOK
  /\ status \in [Buffers -> {"none", "live", "detached"}]
  /\ buf \in [Buffers -> [m_buf : Blocks \cup {NULL},
                          m_bufEnd : 0..SizeMax, m_capacity : 0..SizeMax]]
  /\ tail \in [Buffers -> {NoTail} \cup 0..SizeMax]
  /\ given \subseteq Blocks
  /\ exc \in {"none", "bad_alloc", "Exception"}

(* The block of a buffer has room for m_capacity characters and the        *)
(* terminator c_str() writes behind the text, and neither the text nor a   *)
(* borrowed tail reaches past m_capacity: no member function and no writer *)
(* that keeps to the capacity touches memory outside the block.            *)
StorageFits ==
  \A b \in Buffers : buf[b].m_buf # NULL =>
    /\ (buf[b].m_capacity + 1) * CharSize <= heap[buf[b].m_buf]
    /\ size(b) <= buf[b].m_capacity
    /\ tail[b] # NoTail => tail[b] \in size(b)..buf[b].m_capacity

(* A buffer that promises capacity has storage, so a caller that checks    *)
(* capacity() - size() passes assert(m_buf != nullptr) of append.          *)
AppendAssertion ==
  \A b \in Buffers : Live(b) /\ Room(b) > 0 => buf[b].m_buf # NULL

(* Every allocated block has exactly one owner, a buffer or the caller     *)
(* that detached it, and nobody refers to a freed block: no leak, no       *)
(* double free, no use after free, also across moves, failed growth and    *)
(* detach().                                                               *)
Owned(b) == {buf[b].m_buf} \ {NULL}
BlocksOwnedOnce ==
  /\ Allocated = given \cup UNION {Owned(b) : b \in Buffers}
  /\ \A b \in Buffers : Owned(b) \cap given = {}
  /\ \A b, o \in Buffers : b # o => Owned(b) \cap Owned(o) = {}

(* "Never overflows" and the assert below it in expand(): doubling the     *)
(* capacity of a buffer that is not at its limit gives a larger capacity   *)
(* that the limit allows.                                                  *)
NeverOverflows ==
  \A b \in Buffers : Live(b) /\ buf[b].m_capacity # maxCapacity =>
    nextCapacity(buf[b].m_capacity) \in (buf[b].m_capacity + 1)..maxCapacity

(* Storage grows in powers of two, up to the one size that is cut to the   *)
(* limit; in accurate mode it stays within the limit.                      *)
StorageSizes ==
  \A b \in Buffers : LET storage == buf[b].m_capacity + 1 IN
    /\ storage <= maxStorageSize
    /\ AllocMode = "pow2" => storage \in Powers \cup {maxStorageSize}

(* A call that throws leaves every object and every character as it was    *)
(* ("Otherwise this FastStringBuffer remains unmodified").                 *)
FailureLeavesAll ==
  [][exc' # "none" => UNCHANGED <<heap, mem, status, buf, tail, given>>]_vars

(* The storage of a live buffer is replaced only when its capacity grows   *)
(* or when another object receives the old block: within the capacity that *)
(* was reserved, data() and a pointer into the text stay valid.            *)
StorageStays ==
  [][\A b \in Buffers :
       /\ Live(b) /\ status'[b] = "live"
       /\ buf[b].m_buf \notin {NULL, buf'[b].m_buf}
       => \/ buf'[b].m_capacity > buf[b].m_capacity
          \/ \E o \in Buffers \ {b} : buf'[o].m_buf = buf[b].m_buf]_vars

(* The abstract string builder, with the text read from the block. *)
Text(b) == [i \in 1..size(b) |-> mem[buf[b].m_buf][i - 1]]
Pending(b) == IF tail[b] = NoTail THEN <<>>
              ELSE [i \in 1..(tail[b] - size(b)) |->
                      mem[buf[b].m_buf][size(b) + i - 1]]
Builder == INSTANCE TextBuilder WITH
  Builders <- Buffers,
  open <- {b \in Buffers : Live(b)},
  lent <- {b \in Buffers : tail[b] # NoTail},
  text <- [b \in Buffers |-> Text(b)],
  pending <- [b \in Buffers |-> Pending(b)],
  cap <- [b \in Buffers |-> IF Live(b) THEN buf[b].m_capacity ELSE 0]

(* Buffers sharing one heap implement independent string builders: growth, *)
(* moves, failures and terminators never change anyone's text.             *)
ImplementsTextBuilder == Builder!Spec
=============================================================================
