\* One setup of each symbol, one restart; 97 is exactly 3 percent below 100, and one
\* order of each symbol is more than the exposure cap.
CONSTANTS
  Wide = wide
  Tight = tight
  Symbols = {wide, tight}
  Setups <- SetupCandles
  Closers = {loop}
  Equities = {0, 97, 100}
  FirstEquity = 100
  Size <- Sizes
  MaxPositions <- Limits
  MaxExposure = 125
  KillLoss = 3
  GateLoss = 2
  MaxLosses = 1
  MaxSignalAge = 1
  MaxTime = 1
  MaxRestarts = 1
SPECIFICATION Spec
INVARIANTS TypeOK BreakerStopsEntries 
  
