SPECIFICATION BootSpec
CONSTANTS
  Available = 7
  Cleared = 7
  Wrap = 8
  RunLengths = {4}
  MaxHolders = 3
PROPERTY HandedOutWasFree
