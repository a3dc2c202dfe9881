SPECIFICATION BSpec
CONSTANTS
  Types = {"usable", "bootloader", "framebuffer", "reserved"}
  Lengths = {1, 2, 3}
  Count = 4
INVARIANTS KeepsRegions PassedPlacesSettled AllocatorMapped
CHECK_DEADLOCK FALSE
