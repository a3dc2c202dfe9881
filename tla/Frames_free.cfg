SPECIFICATION Spec
CONSTANTS
  Available = 5
  Cleared = 3
  Wrap = 8
  RunLengths = {1, 2, 3}
  MaxHolders = 2
INVARIANTS SharedOnlyAtRunStart HeldIsMarked RoomMeansFound
