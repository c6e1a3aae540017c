\* One buffer that can reach its limit, a 3-bit size_t, char.
SPECIFICATION Spec
CONSTANTS
  a = a  b = b  b1 = b1  b2 = b2  x1 = x1  x2 = x2  
  Buffers = {b1}
  Blocks = {x1, x2}
  NULL = NULL
  Chars = {a, b}
  Nul = Nul
  Garbage = Garbage
  SizeMax = 7
  PtrdiffMax = 3
  CharSize = 1
  MaxAlloc = 7
  AllocMode = "pow2"
  Powers <- Word3Powers
  Requests = {0, 1, 2, 3, 4, 7}
  Inputs <- TwoChars
  ReuseDetached = FALSE

INVARIANTS TypeOK NeverOverflows
PROPERTIES FailureLeavesAll
CHECK_DEADLOCK FALSE
