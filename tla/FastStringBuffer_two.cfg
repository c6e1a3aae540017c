\* Two buffers that share a heap, a 4-bit size_t, two-byte characters.
SPECIFICATION Spec
CONSTANTS
  a = a  b = b  b1 = b1  b2 = b2  x1 = x1  x2 = x2  
  Buffers = {b1, b2}
  Blocks = {x1, x2}
  NULL = NULL
  Chars = {a}
  Nul = Nul
  Garbage = Garbage
  SizeMax = 15
  PtrdiffMax = 7
  CharSize = 2
  MaxAlloc = 7
  AllocMode = "accurate"
  Powers <- Word4Powers
  Requests = {0, 1, 2, 15}
  Inputs <- OneChar
  ReuseDetached = FALSE

INVARIANTS StorageFits BlocksOwnedOnce
PROPERTIES StorageStays ImplementsTextBuilder
CHECK_DEADLOCK FALSE
