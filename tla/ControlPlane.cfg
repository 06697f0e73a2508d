\* The control plane over the scheduler, with two restarts of the process.
CONSTANTS
  MaxConsecutiveFailures = 2
  MaxRestarts = 2
SPECIFICATION Spec
INVARIANTS TypeOK BetweenStatesOnlyInFlight KillSwitchComesFirst QuietStaysQuiet
PROPERTIES LatchedStatesHold
