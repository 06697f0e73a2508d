\* One trade, every thread, two crashes: all properties and the refinement.
CONSTANTS
  Positions = {p1}
  NoPosition = none
  ScanThread = scan
  RtThread = rt
  ApiThreads = {api1, api2}
  MaxStop = 1
  MaxCrashes = 2
SPECIFICATION Spec
INVARIANTS TypeOK ExecutedAtMostOnce RunsOnConsistentJournal OpenSurvivesRestart
PROPERTIES ImplementsExecuteOnce
CHECK_DEADLOCK FALSE
