SPECIFICATION Spec
CONSTANTS
  Index = {0, 1}
  Virt <- MCVirt
  Leaf = {a, b}
  None = None
  Null = Null
  MaxTables = 7
INVARIANTS NoStaleTlb
PROPERTIES ImplementsAddressSpace MapTakesEffect
CHECK_DEADLOCK FALSE
