\* Two interchangeable trades, one crash: the inductive invariant.
CONSTANTS
  Positions = {p1, p2}
  NoPosition = none
  ScanThread = scan
  RtThread = rt
  ApiThreads = {api1}
  MaxStop = 1
  MaxCrashes = 1
SPECIFICATION Spec
SYMMETRY TradeSymmetry
INVARIANT IInv
CHECK_DEADLOCK FALSE
