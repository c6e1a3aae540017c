-------------------------------- MODULE Heap --------------------------------
(***************************************************************************)
(* The C allocator, as FastStringBuffer and SimpleString use it (malloc,   *)
(* realloc and free of the C library; not under src/).                     *)
(*                                                                         *)
(* A block is a model value.  heap[x] is the number of bytes allocated to  *)
(* block x, 0 while x is not allocated; mem[x] are the characters stored   *)
(* in it, by index.  mem[x] has a cell for every index a size_t can hold,  *)
(* so a write beyond the allocated bytes is representable: that it never   *)
(* happens is a property of the classes that write, not of this module.    *)
(***************************************************************************)
EXTENDS Integers, FiniteSets

CONSTANTS
  Blocks,      (* Addresses the allocator can return.  Bounds the model.   *)
  NULL,        (* nullptr                                                  *)
  Chars,       (* Values of CharType the callers write, without Nul.       *)
  Nul,         (* CharType(0), the C-string terminator.                    *)
  Garbage,     (* The value of a cell that was never written.              *)
  SizeMax,     (* numeric_limits<size_t>::max()                            *)
  PtrdiffMax,  (* numeric_limits<ptrdiff_t>::max()                         *)
  CharSize,    (* sizeof(CharType)                                         *)
  MaxAlloc     (* Size in bytes of the largest request the allocator       *)
               (* grants.  glibc since 2.30 grants at most PTRDIFF_MAX.    *)

(* A two's-complement machine word: size_t has one bit more than the       *)
(* positive half of ptrdiff_t.  A character takes at most half of the      *)
(* address space.                                                          *)
ASSUME HeapAssumption ==
  /\ NULL \notin Blocks
  /\ PtrdiffMax \in Nat \ {0}
  /\ SizeMax = 2 * PtrdiffMax + 1
  /\ CharSize \in 1..PtrdiffMax
  /\ MaxAlloc \in 1..SizeMax
  /\ Nul \notin Chars /\ Garbage \notin Chars \cup {Nul}

VARIABLES heap, mem

Cells == Chars \cup {Nul, Garbage}
Unwritten == [i \in 0..SizeMax |-> Garbage]

(* size_t arithmetic is modulo the word. *)
Wrap(x) == x % (SizeMax + 1)

HeapInit == /\ heap = [x \in Blocks |-> 0]
            /\ mem = [x \in Blocks |-> Unwritten]

HeapTypeOK == /\ heap \in [Blocks -> 0..SizeMax]
              /\ mem \in [Blocks -> [0..SizeMax -> Cells]]

Allocated == {x \in Blocks : heap[x] # 0}

(* What block `to` holds after `bytes` bytes were allocated to it: the     *)
(* characters of the block `from` that fit both, the rest unwritten.       *)
Moved(from, bytes) ==
  [i \in 0..SizeMax |->
    IF /\ from # NULL
       /\ (i + 1) * CharSize <= heap[from]
       /\ (i + 1) * CharSize <= bytes
    THEN mem[from][i] ELSE Garbage]

(* free(x) for x that may be nullptr. *)
free(x) ==
  /\ heap' = [y \in Blocks |-> IF y = x THEN 0 ELSE heap[y]]
  /\ mem' = [y \in Blocks |-> IF y = x THEN Unwritten ELSE mem[y]]

(* realloc(old, bytes) = res for bytes > 0: the block grows in place or    *)
(* its characters move to a fresh block and the old block is freed.  With  *)
(* old = NULL it is malloc(bytes).                                         *)
realloc(old, bytes, res) ==
  /\ bytes \in 1..MaxAlloc
  /\ res \in Blocks
  /\ res = old \/ heap[res] = 0
  /\ heap' = [y \in Blocks |-> IF y = res THEN bytes
                               ELSE IF y = old THEN 0 ELSE heap[y]]
  /\ mem' = [y \in Blocks |-> IF y = res THEN Moved(old, bytes)
                              ELSE IF y = old THEN Unwritten ELSE mem[y]]

(* realloc returned NULL.  A request it cannot grant leaves the old block  *)
(* as it was; a request of 0 bytes frees it.                               *)
reallocFails(old, bytes) ==
  IF bytes = 0 THEN free(old) ELSE UNCHANGED <<heap, mem>>
=============================================================================
