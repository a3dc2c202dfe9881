SPECIFICATION Spec
CONSTANTS
  Addr = {t1, t2, t3, t4}
  NULL = NULL
  MaxPid = 5
  MaxDepth = 3
SYMMETRY TaskSymmetry
INVARIANTS RingOK NoDanglingTask
PROPERTIES KillReachesTarget YieldOverlooksNobody CleanupFreesAll NoRevival ImplementsTaskRing
