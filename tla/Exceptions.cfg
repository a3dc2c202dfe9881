SPECIFICATION Spec
CONSTANTS
  Vectors = {0, 14, 22, 32, 255}
  Messages = 22
  MaxFrames = 2
  Images <- MCImages
  Threshold = 3
  Show = 4
  Back = 3
  Ring = 4
INVARIANTS
  FrameFaithful
  ReturnRestores
  CrashIsFinal
  ReportLocates
PROPERTIES
  ReportEnds
CHECK_DEADLOCK FALSE
