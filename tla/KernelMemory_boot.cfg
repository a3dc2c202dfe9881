SPECIFICATION KSpec
CONSTANTS
  Available = 36
  Cleared = 36
  Wrap = 64
  RunLengths = {1, 2, 4, 9}
  MaxHolders = 12
  Stacks = 7
  StackFrames = 4
  HeapRuns = {1, 2, 9}
  MaxPages = 5
INVARIANTS NullMeansFull TablesPrivate StacksPrivate StackRoom SinglePagesPrivate
CHECK_DEADLOCK FALSE
