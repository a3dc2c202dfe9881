SPECIFICATION MSpec
CONSTANTS
  Types = {"usable", "reserved"}
  Lengths = {1, 2, 3}
  Count = 4
INVARIANT UsableDecreasing
CHECK_DEADLOCK FALSE
