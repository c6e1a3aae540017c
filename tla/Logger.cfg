\* Two threads, one call each: every pair of calls, every interleaving.
SPECIFICATION Spec
CONSTANTS
  Threads = {t1, t2}
  NoThread = NoThread
  FmtCalls <- MCFmtCalls
  PlainCalls <- MCPlainCalls
  Throwing = {"bad"}
  MaxCalls = 1
INVARIANTS Contiguous TrueMeansWritten FalseHasACause
PROPERTIES CallsReturn
CHECK_DEADLOCK FALSE
