SPECIFICATION Spec
CONSTANTS
  Exc = 2
  Lines = 2
  Vecs = 7
  Extra = 4
  W8 = 8
  Madts <- MCMadts
  Ids = {0, 1}
  IrqNumbers = {0, 1}
  Handlers = {h1, h2}
  Contexts = {c1, c2}
  None = None
INVARIANTS TimerRouted GateBeforeRoute HandlerGetsItsContext
PROPERTY TimerServed
CHECK_DEADLOCK FALSE
