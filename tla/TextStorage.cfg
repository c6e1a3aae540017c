\* One buffer, two strings and two blocks on a 3-bit machine.
SPECIFICATION StorageSpec
CONSTANTS
  a = a  b1 = b1  s1 = s1  s2 = s2  x1 = x1  x2 = x2
  Buffers = {b1}
  Strings = {s1, s2}
  Blocks = {x1, x2}
  NULL = NULL
  Chars = {a}
  Nul = Nul
  Garbage = Garbage
  SizeMax = 7
  PtrdiffMax = 3
  CharSize = 1
  MaxAlloc = 3
  AllocMode = "accurate"
  Powers <- Word3Powers
  Requests = {2}
  Inputs <- Texts
  Literals <- Texts
  ReuseDetached = FALSE
  MoveOntoOwner = FALSE
INVARIANTS StorageOwnedOnce TerminatorFits
PROPERTIES StringsSurviveFailure StringsAreValues
SYMMETRY Interchangeable
CHECK_DEADLOCK FALSE
