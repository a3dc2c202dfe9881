SPECIFICATION Spec
CONSTANTS
  PitFreq = 11
  Freq = 4
  MilliPerSec = 4
  MicroPerSec = 12
  W32 = 32
  CalibrationTicks = 2
  Lag = 1
  Dividers = {1, 2}
  BusRates = {1, 3}
  Millis = {6, 9}
  Micros = {7}
  Nanos = {0, 25}
  NanoPerMicro = 4
  Vectors = {34}
  Modes = {"one_shot", "periodic", "tsc_deadline"}
  Targets = {1, 5}
  MaxTicks = 7
INVARIANTS SleepsLongEnough CalibrationClose ProgrammedRate
PROPERTY CallsReturn
