SPECIFICATION Spec
CONSTANTS
  PageHdr = 2
  SegHdr = 2
  FrameSize = 12
  U32 = 14
  Sizes = {1, 4, 9}
  MaxFrames = 3
INVARIANTS PagesTiled LiveBacked LiveDisjoint FirstPageNoLeak FreeSizeDrift
CHECK_DEADLOCK FALSE
