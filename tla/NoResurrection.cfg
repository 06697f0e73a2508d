CONSTANTS
  Positions = {p1}
  NoPosition = none
  ScanThread = scan
  RtThread = rt
  ApiThreads = {api1}
  MaxStop = 1
  MaxCrashes = 1
SPECIFICATION Spec
PROPERTY NoResurrection
CHECK_DEADLOCK FALSE
