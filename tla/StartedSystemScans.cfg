\* The control plane over the scheduler, with one restart of the process.
CONSTANTS
  MaxConsecutiveFailures = 2
  MaxRestarts = 1
SPECIFICATION Spec
PROPERTIES StartedSystemScans
