CONSTANTS
  Positions = {p1}
  NoPosition = none
  ScanThread = scan
  RtThread = rt
  ApiThreads = {api1}
  MaxStop = 1
  MaxCrashes = 1
SPECIFICATION Spec
INVARIANT RecoveryFailsClosed
CHECK_DEADLOCK FALSE
