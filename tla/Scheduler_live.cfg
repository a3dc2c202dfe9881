SPECIFICATION Spec
CONSTANTS
  Addr = {t1, t2, t3}
  NULL = NULL
  MaxPid = 4
  MaxDepth = 2
PROPERTY LoopsTerminate
